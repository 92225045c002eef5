CONSTANTS
  s1 = s1  s2 = s2  s3 = s3
  b1 = b1  b2 = b2
  page = page  other = other  camera = camera  port = port
  u1 = u1  u2 = u2  f1 = f1
  c1 = c1  c2 = c2
  None = None
  Sockets = {s1, s2, s3}
  Bridges = {b1, b2}
  Devices = {page, other, camera, port}
  DeviceOf <- MixtureDevices
  LoginOf <- MixtureLogins
  Users = {u1, u2}
  Feeds = {f1}
  Commands = {c1}
SPECIFICATION Spec
INVARIANTS
  OneSessionPerAccount
  WaitingIsPending
PROPERTIES
  OnlyLostSessionsFail
CHECK_DEADLOCK FALSE
