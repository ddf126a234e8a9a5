SPECIFICATION FairSpec
CONSTANTS
  NoReq = none
  Req = {r1, r2}
  Capacities = {0, 2}
INVARIANTS
  AcceptedInOrder
  AnswerTruthful
  WaitingRegistered
PROPERTIES
  AnsweredOnce
  Progress
CHECK_DEADLOCK FALSE
