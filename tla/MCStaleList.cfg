CONSTANTS
  s1 = s1  s2 = s2
  u1 = u1  u2 = u2
  c1 = c1
  q1 = q1
  p1 = p1
  k1 = k1  k2 = k2  k3 = k3
  None = None
  Sockets = {s1, s2}
  Users = {u1, u2}
  Conferences = {c1}
  Productions = {q1}
  Primary = q1
  Producers = {p1}
  ConsumerIds = {k1, k2}
  TalkLists <- DirectOrConference
  Matrices <- OneMatrix
  Modes <- AlwaysOff
  MaxPending = 1
  Speakers = {s1}
  Listeners = {s2}
  Accounts <- OwnAccount
  MaxInbox = 2
  MaxOutbox = 2
SPECIFICATION SyncSpec
CONSTRAINT Steady
PROPERTIES
  ReconciliationKeepsReported
CHECK_DEADLOCK FALSE
