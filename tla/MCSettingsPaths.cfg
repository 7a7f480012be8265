SPECIFICATION FileSpec
CONSTANT MaxChanges = 2
INVARIANT EmptyPathRefused
CHECK_DEADLOCK FALSE
