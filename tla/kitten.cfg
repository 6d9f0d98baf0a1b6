SPECIFICATION Spec
CONSTANTS
    Wait = 1
    Inputs <- MCInputs
INVARIANTS KittenRight DefinitionRight
PROPERTY Terminates
