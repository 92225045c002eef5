CONSTANTS
  s1 = s1  s2 = s2  s3 = s3
  u1 = u1  u2 = u2
  c1 = c1
  q1 = q1  q2 = q2
  p1 = p1
  k1 = k1  k2 = k2
  None = None
  Sockets = {s1, s2, s3}
  Users = {u1, u2}
  Conferences = {c1}
  Productions = {q1, q2}
  Primary = q1
  Producers = {p1}
  ConsumerIds = {k1, k2}
  TalkLists <- OneSpeaker
  Matrices <- TwoMatrices
  Modes <- BothModes
  MaxPending = 2
SYMMETRY SocketSymmetry
SPECIFICATION Spec
INVARIANTS
  DirectAudioStaysInProduction
CHECK_DEADLOCK FALSE
