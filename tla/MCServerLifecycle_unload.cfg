SPECIFICATION Spec
CONSTANTS
    A = A
    B = B
    Classes = {A, B}
    Whats = {"session"}
    MaxScopes = 2
    MaxRegs = 2
    MaxDepth = 5
CHECK_DEADLOCK FALSE
PROPERTIES
    ClosedIsNotCalled
