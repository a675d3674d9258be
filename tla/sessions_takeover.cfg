\* A device that reconnects before the server notices the loss.
SPECIFICATION Spec
CONSTANT MaxSockets = 2
INVARIANT Reachable
CHECK_DEADLOCK FALSE
