CONSTANT Forms <- MCForms
SPECIFICATION Spec
INVARIANTS SlotsSound LcaIsLowest LayoutSound
PROPERTIES StableOnceDefined
