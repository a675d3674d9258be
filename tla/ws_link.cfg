\* Segments of one or two frames.  A client that espconn has refused really stops.
SPECIFICATION Spec
CONSTANTS
    MaxLookups = 2
    MaxFrames = 3
    MaxSegment = 2
INVARIANTS
    NeverStuck
    ObeysLastCommand
PROPERTY Recovers
CHECK_DEADLOCK FALSE
