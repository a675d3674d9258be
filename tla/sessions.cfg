\* Three connections of a device, closed and looked up in any order.
SPECIFICATION Spec
CONSTANT MaxSockets = 3
INVARIANTS
    ReachableUnlessOvertaken
    OnlyLateGhosts
PROPERTY GivenUpIsReaped
CHECK_DEADLOCK FALSE
