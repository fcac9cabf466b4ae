CONSTANT Forms <- MCForms
SPECIFICATION Spec
PROPERTY FailureDefinesNothing
