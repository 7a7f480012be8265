SPECIFICATION FairSpec
CONSTANT Clients = {c1, c2}
INVARIANTS
  NoRelayLeft
PROPERTIES
  EndsWhenItShould
  EachAnswered
CHECK_DEADLOCK FALSE
