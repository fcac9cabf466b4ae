CONSTANT Forms <- MCEdited
SPECIFICATION Spec
INVARIANT IdenticalMeansSame
