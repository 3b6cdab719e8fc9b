\* Three messages of one or two bytes; a cap that one frame fits and two exceed.
CONSTANTS
    Modes <- MCModes
    Sizes = {1, 2}
    ShortMax = 1
    MaxFrames = 3
    Batch = 2
    Cap = 9
SPECIFICATION Spec
INVARIANTS InStep EndIsExact
PROPERTIES ReliableFrames Delivered
CHECK_DEADLOCK FALSE
