SPECIFICATION FairPageSpec
INVARIANT SignOutStays
PROPERTIES ExpiryNoticed LoadSettles CatchesUp
CHECK_DEADLOCK FALSE
