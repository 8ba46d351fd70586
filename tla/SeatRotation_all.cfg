SPECIFICATION Spec
CONSTANTS
  night = night
  hand = hand
  n1 = n1
  n2 = n2
  h1 = h1
  t1 = t1
  Clients = {night, hand}
  Drivers = {n1, n2, h1}
  ClientOf <- BothClientOf
  Timers = {t1}
  MaxTokens = 3
  MaxLogins = 1
  MaxAged = 3
INVARIANTS SeatSurvives PendingIsPrivate EndOwesNothing
PROPERTIES RotationReplacesDead QueuedIsWritten
CHECK_DEADLOCK FALSE
