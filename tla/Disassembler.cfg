SPECIFICATION Spec
CONSTANTS
    Base = 9
    Encoding <- MCEncoding
    MaxOperandLen = 3
    Scripts <- MCScripts
INVARIANTS Tiles OperandsAreTheBytes ErrorsAreGenuine
PROPERTY Terminates
