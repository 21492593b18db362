\* Two subscriptions, two threads that deliver, two clients that wait,
\* cancel and renew.
SPECIFICATION FairSpec
CONSTANTS
  MaxSubs = 2
  MaxRaised = 2
  MaxRequests = 2
  Kinds = {"job"}
  Deliverers = {d1, d2}
  Clients = {c1, c2}
  MaxEvents = 1
  MaxSubscriptions = 0
  d1 = d1
  d2 = d2
  c1 = c1
  c2 = c2
CHECK_DEADLOCK FALSE
INVARIANTS
  TypeOK
  NumbersConsecutive
  DeliverySafe
  DeliveryComplete
  AnswerComplete
PROPERTIES
  WaitEnds
  CanceledGoes
