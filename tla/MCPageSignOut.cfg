SPECIFICATION PageSpec
INVARIANT SignOutHonoured
CHECK_DEADLOCK FALSE
