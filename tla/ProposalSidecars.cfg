SPECIFICATION Spec
CONSTANTS
    NumBlobs = 2
    None = None
INVARIANT HonestSidecarsAccepted
CHECK_DEADLOCK FALSE
