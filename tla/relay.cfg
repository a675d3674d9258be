\* A key is held until the check of its bouncing is over; of two connections
\* the application may know both at a time.
SPECIFICATION Spec
CONSTANTS
    Debounce = 2
    Bounce = 1
    MinHold = 2
    Touched = {"REL", "CONFIG"}
    MaxFrames = 2
    Links = {l1, l2}
    NoLink = NoLink
SYMMETRY Symmetric
INVARIANTS
    TypeOK
    OnePressOneCall
    TimerIsOfLastCommand
    ViewIsTrue
