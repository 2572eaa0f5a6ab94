SPECIFICATION FairSpec
CONSTANTS
  a1 = a1
  a2 = a2
  b1 = b1
  m1 = m1
  w1 = w1
  w2 = w2
  w3 = w3
  s1 = s1
  k1 = k1
  none = none
  Attempts = {a1}
  Malformed = {m1}
  Skus = {s1}
  SkuOf <- MCSkuOf
  Quantity <- MCQuantity
  InitialStock <- MCStock
  KeyOf <- MCKeyOf
  Blank = none
  Workers = {w1, w2, w3}
  NoOne = NoOne
  InitialPods = {w1, w2}
  MaxDeliveryAttempts = 2
  InboxCapacity = 1
  MaxFaults = 1
  MaxRestarts = 1
  MaxDelays = 1
INVARIANT
  TypeOK
PROPERTY
  EverySettles
