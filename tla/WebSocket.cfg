\* Three messages out, two frames in, with every choice of callbacks.
SPECIFICATION Spec
CONSTANTS
    MaxPush = 3
    MaxFrames = 2
INVARIANTS
    DeliveredInOrder
    CallbackOrder
PROPERTIES
    TasksEnd
\* A socket ends.
CHECK_DEADLOCK FALSE
