CONSTANTS
  None = None
  u1 = u1  u2 = u2  visitor = visitor
  c1 = c1  c2 = c2  f1 = f1
  p1 = p1  p2 = p2
  t1 = t1  t2 = t2
  i1 = i1  k1 = k1
  s1 = s1  s2 = s2
  Users = {u1, u2}  Confs = {c1, c2}  Feeds = {f1}  Productions = {p1, p2}
  GuestProfile = visitor  Bundles <- TwoBackups
  TalkTargets = {t1, t2}  Pointers = {i1}  KeyInputs = {k1}  Voice = voice
  Talkers = {s1, s2}  Sessions = {1, 2, 3, 4}
  AccountProds = {1, 2}  Other = 10  Connections = 9
  Voices = {1, 2}
  Accounts = {1, 2}  Numbers = {1, 2}
  Contacts = {u1}  Rooms = {c1}  Reply = reply  DeckKey = key  Pinned = c1
  Files <- ThreeFiles
  Nics = {"n1"}  PublicAddress = "address"  Profiles = {"g1", "g2"}
  Environments <- FourEnvironments  Imports <- ThreeExports
  People = {"t2"}  TargetLists <- TwoLists  Digits <- TwoDigits
  Binding <- FourKeys  PageKinds <- TwoPages
  Bounds <- Few
SPECIFICATION Spec
INVARIANTS
  TypeOK
  MatrixFollowed
  TalkFollowsControls
  MicrophoneTrue
  EdgesServe
  SettledMeansConnected
  SoundsAsShown
  ToldWhatHolds
  HeadlessTrue
  AdministrationTrue
CHECK_DEADLOCK FALSE
