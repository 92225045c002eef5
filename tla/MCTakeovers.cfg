CONSTANTS
  s1 = s1  s2 = s2  s3 = s3
  b1 = b1  b2 = b2
  page = page  other = other  camera = camera  port = port
  u1 = u1  u2 = u2  f1 = f1
  c1 = c1  c2 = c2
  None = None
  Sockets = {s1, s2, s3}
  Bridges = {b1}
  Devices = {page, other, port}
  DeviceOf <- TakeoverDevices
  LoginOf <- TakeoverLogins
  Users = {u1}
  Feeds = {f1}
  Commands = {c1}
SPECIFICATION LiveSpec
INVARIANTS
  TypeOK
  PendingHasItsSession
PROPERTIES
  ImplementsPromise
  LogoutSparesSuccessor
  AnswerFromAddressedSession
  CommandsAreAnswered
CHECK_DEADLOCK FALSE
