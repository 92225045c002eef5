-------------------------- MODULE Sessions_proofs --------------------------
(***************************************************************************)
(* Proofs about Sessions.  The inductive invariant adds to the properties  *)
(* what they need: a registered peer has the account of its device, and a  *)
(* command stays with the device of the session it was dispatched to.      *)
(***************************************************************************)
EXTENDS Sessions, TLAPS

Logged == /\ \A p \in Peers : account[p] # None => account[p] = Login(p)
          /\ \A d \in Devices : current[d] # None => DeviceOf[current[d]] = d

(* Where a dispatched command can be: on its way to its session, with the  *)
(* device behind it, or on its way back over some connection of it.        *)
Trail ==
  /\ \A c \in Commands : stage[c] = "new" => sentTo[c] = None
  /\ \A p \in Peers : \A c \in inbox[p] : sentTo[c] = p
  /\ \A d \in Devices : \A c \in doing[d] : sentTo[c] # None /\ DeviceOf[sentTo[c]] = d
  /\ \A p \in Peers : \A m \in results[p] :
       sentTo[m.command] # None /\ DeviceOf[sentTo[m.command]] = DeviceOf[p]

IInv ==
  /\ TypeOK
  /\ OneSessionPerAccount
  /\ PendingHasItsSession
  /\ WaitingIsPending
  /\ Logged
  /\ Trail

LEMMA InitIInv == Init => IInv
<1> SUFFICES ASSUME Init PROVE IInv
    OBVIOUS
<1> USE SessionsAssumption DEF Init
<1>1. TypeOK
  BY DEF TypeOK, Logouts
<1>2. OneSessionPerAccount /\ PendingHasItsSession /\ WaitingIsPending /\ Logged
  BY DEF OneSessionPerAccount, PendingHasItsSession, WaitingIsPending, Logged
<1>3. Trail
  BY DEF Trail
<1> QED BY <1>1, <1>2, <1>3 DEF IInv

(* Settling commands keeps the types, and that nobody waits for a settled  *)
(* one.                                                                    *)
LEMMA Settling ==
  ASSUME TypeOK, WaitingIsPending, NEW C \in SUBSET Commands,
         NEW v, NEW w \in Verdicts, Settle(C, v), Tell(C, w)
  PROVE  /\ stage' \in [Commands -> {"new", "pending", "settled"}]
         /\ http' \in [Commands -> {"none", "waiting", "accepted", "ok", "failed", "not-found"}]
         /\ verdicts' \in [Commands -> Seq(Verdicts)]
         /\ \A c \in Commands : stage'[c] = IF c \in C THEN "settled" ELSE stage[c]
         /\ WaitingIsPending'
<1>1. verdicts' \in [Commands -> Seq(Verdicts)]
  <2>1. ASSUME NEW c \in Commands PROVE Append(verdicts[c], w) \in Seq(Verdicts)
    BY DEF TypeOK
  <2> QED BY <2>1 DEF Tell, TypeOK
<1>2. stage' \in [Commands -> {"new", "pending", "settled"}]
  BY DEF Settle, TypeOK
<1>3. http' \in [Commands -> {"none", "waiting", "accepted", "ok", "failed", "not-found"}]
  BY DEF Settle, TypeOK
<1>4. \A c \in Commands : stage'[c] = IF c \in C THEN "settled" ELSE stage[c]
  BY DEF Settle
<1>5. WaitingIsPending'
  BY DEF Settle, WaitingIsPending, TypeOK
<1> QED BY <1>1, <1>2, <1>3, <1>4, <1>5

(* The end of sessions, with at most one successor: s, that is not yet     *)
(* registered, once every session of its account is ended.                 *)
LEMMA ReplaceKeeps ==
  ASSUME IInv, NEW ended \in SUBSET Peers, NEW s \in Peers \cup {None},
         s # None => account[s] = None /\ HoldersOf(Login(s)) \subseteq ended,
         s \notin ended,
         Replace(ended, s), current' \in [Devices -> Peers \cup {None}],
         \A d \in Devices : current'[d] # None => DeviceOf[current'[d]] = d
  PROVE  IInv'
<1> USE SessionsAssumption
<1>a. LostWith(ended) \in SUBSET Commands
  BY DEF LostWith
<1>b. "session-ended" \in Verdicts
  BY DEF Verdicts
<1>c. /\ stage' \in [Commands -> {"new", "pending", "settled"}]
      /\ http' \in [Commands -> {"none", "waiting", "accepted", "ok", "failed", "not-found"}]
      /\ verdicts' \in [Commands -> Seq(Verdicts)]
      /\ \A c \in Commands : stage'[c] = IF c \in LostWith(ended) THEN "settled" ELSE stage[c]
      /\ WaitingIsPending'
  BY <1>a, <1>b, Settling DEF Replace, IInv
<1>d. \A p \in Peers : Login(p) \in Accounts
  BY DEF Login
<1>1. TypeOK'
  <2>1. link' \in [Peers -> {"unused", "open", "gone"}]
    BY DEF Replace, Move, IInv, TypeOK
  <2>2. account' \in [Peers -> Accounts \cup {None}]
    BY <1>d DEF Replace, Move, IInv, TypeOK
  <2>3. results' \in [Peers -> SUBSET Results]
    BY DEF Replace, Move, IInv, TypeOK
  <2>4. \A p \in Peers : link'[p] # "open" => account'[p] = None /\ results'[p] = {}
    BY DEF Replace, Move, IInv, TypeOK
  <2> QED BY <1>c, <2>1, <2>2, <2>3, <2>4 DEF Replace, IInv, TypeOK
<1>2. OneSessionPerAccount'
  BY <1>d DEF Replace, Move, IInv, TypeOK, OneSessionPerAccount, HoldersOf
<1>3. PendingHasItsSession'
  <2> SUFFICES ASSUME NEW c \in Commands, stage'[c] = "pending"
               PROVE  sentTo'[c] # None /\ addressee'[c] # None /\ account'[sentTo'[c]] = addressee'[c]
      BY DEF PendingHasItsSession
  <2>1. stage[c] = "pending" /\ c \notin LostWith(ended)
    BY <1>c
  <2>2. sentTo[c] \in Peers /\ account[sentTo[c]] = addressee[c] /\ addressee[c] # None
    BY <2>1 DEF IInv, PendingHasItsSession, TypeOK
  <2>3. sentTo[c] \notin ended
    BY <2>1, <2>2 DEF LostWith, HoldersOf, IInv, OneSessionPerAccount
  <2>4. sentTo[c] # s
    BY <2>2
  <2> QED BY <2>2, <2>3, <2>4 DEF Replace, Move
<1>4. Logged'
  BY DEF Replace, Move, IInv, Logged, TypeOK, Login
<1>5. Trail'
  BY <1>c DEF Replace, Move, IInv, Trail, TypeOK
<1> QED BY <1>c, <1>1, <1>2, <1>3, <1>4, <1>5 DEF IInv
(***************************************************************************)
(* One lemma per action.                                                   *)
(***************************************************************************)
LEMMA EndKeeps == ASSUME IInv, NEW p \in Peers, End(p), UNCHANGED current PROVE IInv'
<1>1. /\ current' \in [Devices -> Peers \cup {None}]
      /\ \A d \in Devices : current'[d] # None => DeviceOf[current'[d]] = d
  BY DEF IInv, TypeOK, Logged
<1> QED BY <1>1, ReplaceKeeps, SessionsAssumption DEF End

LEMMA ConnectKeeps == ASSUME IInv, NEW s \in Sockets, Connect(s) PROVE IInv'
<1> USE SessionsAssumption DEF Peers
<1>1. TypeOK'
  BY DEF Connect, IInv, TypeOK, commandVars
<1>2. OneSessionPerAccount' /\ PendingHasItsSession' /\ WaitingIsPending' /\ Logged' /\ Trail'
  BY DEF Connect, IInv, OneSessionPerAccount, PendingHasItsSession, WaitingIsPending, Logged,
         Trail, commandVars, Login
<1> QED BY <1>1, <1>2 DEF IInv

LEMMA LoseConnectionKeeps == ASSUME IInv, NEW d \in Devices, LoseConnection(d) PROVE IInv'
<1>1. TypeOK'
  BY DEF LoseConnection, IInv, TypeOK, commandVars, sessionVars
<1>2. OneSessionPerAccount' /\ PendingHasItsSession' /\ WaitingIsPending' /\ Logged' /\ Trail'
  BY DEF LoseConnection, IInv, OneSessionPerAccount, PendingHasItsSession, WaitingIsPending,
         Logged, Trail, commandVars, sessionVars, Login
<1> QED BY <1>1, <1>2 DEF IInv

LEMMA RegisterUserKeeps ==
  ASSUME IInv, NEW s \in Sockets, NEW force \in BOOLEAN, RegisterUser(s, force) PROVE IInv'
<1>1. HoldersOf(Login(s)) \in SUBSET Peers /\ s \in Peers
  BY DEF HoldersOf, Peers
<1>2. s \notin HoldersOf(Login(s)) /\ account[s] = None
  BY SessionsAssumption, <1>1 DEF RegisterUser, HoldersOf, Login
<1>3. /\ Replace(HoldersOf(Login(s)), s) /\ current' \in [Devices -> Peers \cup {None}]
      /\ \A d \in Devices : current'[d] # None => DeviceOf[current'[d]] = d
  BY DEF RegisterUser, IInv, TypeOK, Logged
<1> QED BY <1>1, <1>2, <1>3, ReplaceKeeps

LEMMA CreateBridgeSessionKeeps ==
  ASSUME IInv, NEW b \in Bridges, CreateBridgeSession(b) PROVE IInv'
<1>1. HoldersOf(Login(b)) \in SUBSET Peers /\ b \in Peers
  BY DEF HoldersOf, Peers
<1>2. b \notin HoldersOf(Login(b)) /\ account[b] = None
  BY SessionsAssumption, <1>1 DEF CreateBridgeSession, HoldersOf, Login, IInv, TypeOK
<1>3. /\ Replace(HoldersOf(Login(b)), b) /\ current' \in [Devices -> Peers \cup {None}]
      /\ \A d \in Devices : current'[d] # None => DeviceOf[current'[d]] = d
  BY <1>1 DEF CreateBridgeSession, IInv, TypeOK, Logged
<1> QED BY <1>1, <1>2, <1>3, ReplaceKeeps

LEMMA DisconnectKeeps == ASSUME IInv, NEW p \in Peers, Disconnect(p) PROVE IInv'
  BY EndKeeps DEF Disconnect

LEMMA SendLogoutKeeps == ASSUME IInv, NEW d \in Devices, SendLogout(d) PROVE IInv'
<1>1. current[d] \in Sockets \cup {None}
  BY DEF SendLogout, IInv, TypeOK, Peers
<1>2. TypeOK'
  BY <1>1 DEF SendLogout, IInv, TypeOK, commandVars, sessionVars, Logouts
<1>3. OneSessionPerAccount' /\ PendingHasItsSession' /\ WaitingIsPending' /\ Logged' /\ Trail'
  BY DEF SendLogout, IInv, OneSessionPerAccount, PendingHasItsSession, WaitingIsPending,
         Logged, Trail, commandVars, sessionVars, Login
<1> QED BY <1>2, <1>3 DEF IInv

(* Where only the fate of commands is decided, the rest stays.             *)
LEMMA SettlingKeeps ==
  ASSUME IInv, NEW C \in SUBSET Commands, NEW v, NEW w \in Verdicts, Settle(C, v), Tell(C, w),
         UNCHANGED <<sessionVars, clientVars, sentTo, addressee>>
  PROVE  IInv'
<1>1. /\ stage' \in [Commands -> {"new", "pending", "settled"}]
      /\ http' \in [Commands -> {"none", "waiting", "accepted", "ok", "failed", "not-found"}]
      /\ verdicts' \in [Commands -> Seq(Verdicts)]
      /\ \A c \in Commands : stage'[c] = IF c \in C THEN "settled" ELSE stage[c]
      /\ WaitingIsPending'
  BY Settling DEF IInv
<1>2. TypeOK'
  BY <1>1 DEF IInv, TypeOK, sessionVars, clientVars
<1>3. OneSessionPerAccount' /\ PendingHasItsSession' /\ Logged' /\ Trail'
  <2>1. OneSessionPerAccount' /\ PendingHasItsSession' /\ Logged'
    BY <1>1 DEF IInv, OneSessionPerAccount, PendingHasItsSession, Logged, sessionVars, clientVars,
                Login
  <2>2. Trail'
    BY <1>1 DEF IInv, Trail, clientVars
  <2> QED BY <2>1, <2>2
<1> QED BY <1>1, <1>2, <1>3 DEF IInv

LEMMA HttpLogoutKeeps == ASSUME IInv, NEW r \in logouts, HttpLogout(r) PROVE IInv'
<1>1. CASE r.at # None /\ account[r.at] = r.user
  <2>1. r.at \in Peers
    BY <1>1 DEF IInv, TypeOK, Logouts, Peers
  <2> QED BY <1>1, <2>1, EndKeeps DEF HttpLogout
<1>2. CASE ~(r.at # None /\ account[r.at] = r.user)
  <2> DEFINE stray == {c \in Commands : /\ stage[c] = "pending" /\ addressee[c] = r.user
                                        /\ r.at = None /\ HoldersOf(r.user) = {}}
  <2>1. /\ Settle(stray, "failed") /\ Tell(stray, "session-ended")
        /\ UNCHANGED <<sessionVars, clientVars, sentTo, addressee>>
    BY <1>2 DEF HttpLogout, clientVars
  <2>2. stray \in SUBSET Commands /\ "session-ended" \in Verdicts
    BY DEF Verdicts
  <2> HIDE DEF stray
  <2> QED BY <2>1, <2>2, SettlingKeeps
<1> QED BY <1>1, <1>2

LEMMA SendCommandKeeps ==
  ASSUME IInv, NEW c \in Commands, NEW u \in Users, SendCommand(c, u) PROVE IInv'
<1> USE SessionsAssumption
<1>1. stage[c] = "new" /\ sentTo[c] = None /\ u # None
  BY DEF SendCommand, IInv, Trail, Accounts
<1>2. CASE HoldersOf(u) = {} /\ ~\E p \in HoldersOf(u) : TRUE
  <2>1. /\ stage' = [stage EXCEPT ![c] = "settled"] /\ http' = [http EXCEPT ![c] = "not-found"]
        /\ Tell({c}, "not-connected") /\ UNCHANGED <<sentTo, inbox>>
    BY <1>2 DEF SendCommand
  <2>2. verdicts' \in [Commands -> Seq(Verdicts)]
    <3>1. ASSUME NEW e \in Commands PROVE Append(verdicts[e], "not-connected") \in Seq(Verdicts)
      BY DEF IInv, TypeOK, Verdicts
    <3> QED BY <2>1, <3>1 DEF Tell, IInv, TypeOK
  <2>3. TypeOK'
    BY <2>1, <2>2 DEF SendCommand, IInv, TypeOK, sessionVars
  <2>4. OneSessionPerAccount' /\ PendingHasItsSession' /\ WaitingIsPending' /\ Logged' /\ Trail'
    BY <2>1 DEF SendCommand, IInv, TypeOK, OneSessionPerAccount, PendingHasItsSession,
                WaitingIsPending, Logged, Trail, sessionVars, Login
  <2> QED BY <2>3, <2>4 DEF IInv
<1>3. ASSUME NEW p \in HoldersOf(u),
             /\ stage' = [stage EXCEPT ![c] = "pending"] /\ http' = [http EXCEPT ![c] = "waiting"]
             /\ sentTo' = [sentTo EXCEPT ![c] = p] /\ inbox' = [inbox EXCEPT ![p] = @ \cup {c}]
             /\ UNCHANGED verdicts
      PROVE  IInv'
  <2>1. p \in Peers /\ account[p] = u
    BY DEF HoldersOf
  <2>2. p # None
    BY <2>1 DEF Peers
  <2>3. TypeOK'
    BY <1>3, <2>1 DEF SendCommand, IInv, TypeOK, sessionVars
  <2>4. OneSessionPerAccount' /\ PendingHasItsSession' /\ WaitingIsPending' /\ Logged'
    BY <1>1, <1>3, <2>1, <2>2 DEF SendCommand, IInv, TypeOK, OneSessionPerAccount,
                PendingHasItsSession, WaitingIsPending, Logged, sessionVars, Login
  <2>5. Trail'
    <3>1. \A e \in Commands : stage'[e] = "new" => sentTo'[e] = None
      BY <1>3, <2>1 DEF IInv, TypeOK, Trail
    <3>2. \A q \in Peers : \A e \in inbox'[q] : sentTo'[e] = q
      BY <1>1, <1>3, <2>1 DEF IInv, TypeOK, Trail
    <3>3. \A d \in Devices : \A e \in doing'[d] : sentTo'[e] # None /\ DeviceOf[sentTo'[e]] = d
      BY <1>1, <1>3 DEF SendCommand, IInv, TypeOK, Trail
    <3>4. \A q \in Peers : \A m \in results'[q] :
            sentTo'[m.command] # None /\ DeviceOf[sentTo'[m.command]] = DeviceOf[q]
      <4>1. \A q \in Peers : \A m \in results[q] : m.command \in Commands /\ m.command # c
        BY <1>1 DEF IInv, TypeOK, Trail, Results
      <4> QED BY <1>3, <4>1 DEF SendCommand, IInv, TypeOK, Trail
    <3> QED BY <3>1, <3>2, <3>3, <3>4 DEF Trail
  <2> QED BY <2>3, <2>4, <2>5 DEF IInv
<1> QED BY <1>2, <1>3 DEF SendCommand

LEMMA WaitOverKeeps == ASSUME IInv, NEW c \in Commands, WaitOver(c) PROVE IInv'
<1>1. TypeOK'
  BY DEF WaitOver, IInv, TypeOK, sessionVars, clientVars
<1>2. OneSessionPerAccount' /\ PendingHasItsSession' /\ WaitingIsPending' /\ Logged' /\ Trail'
  BY DEF WaitOver, IInv, TypeOK, OneSessionPerAccount, PendingHasItsSession, WaitingIsPending,
         Logged, Trail, sessionVars, clientVars, Login
<1> QED BY <1>1, <1>2 DEF IInv

LEMMA ExpireKeeps == ASSUME IInv, NEW c \in Commands, Expire(c) PROVE IInv'
<1>1. {c} \in SUBSET Commands /\ "timeout" \in Verdicts
  BY DEF Verdicts
<1> QED BY <1>1, SettlingKeeps DEF Expire

LEMMA ReceiveKeeps ==
  ASSUME IInv, NEW p \in Peers, NEW c \in Commands, Receive(p, c) PROVE IInv'
<1>1. sentTo[c] = p /\ p # None /\ DeviceOf[p] \in Devices
  BY SessionsAssumption DEF Receive, IInv, Trail
<1>2. TypeOK'
  BY <1>1 DEF Receive, IInv, TypeOK, sessionVars, commandVars
<1>3. OneSessionPerAccount' /\ PendingHasItsSession' /\ WaitingIsPending' /\ Logged'
  BY DEF Receive, IInv, OneSessionPerAccount, PendingHasItsSession, WaitingIsPending, Logged,
         sessionVars, commandVars, Login
<1>4. Trail'
  BY <1>1 DEF Receive, IInv, TypeOK, Trail, commandVars
<1> QED BY <1>2, <1>3, <1>4 DEF IInv

LEMMA ReportKeeps ==
  ASSUME IInv, NEW d \in Devices, NEW c \in Commands, NEW v \in {"ok", "failed"}, Report(d, c, v)
  PROVE  IInv'
<1>1. TypeOK'
  BY DEF Report, IInv, TypeOK, Results, sessionVars, commandVars
<1>2. OneSessionPerAccount' /\ PendingHasItsSession' /\ WaitingIsPending' /\ Logged'
  BY DEF Report, IInv, OneSessionPerAccount, PendingHasItsSession, WaitingIsPending, Logged,
         sessionVars, commandVars, Login
<1>3. Trail'
  BY SessionsAssumption DEF Report, IInv, TypeOK, Trail, Logged, commandVars
<1> QED BY <1>1, <1>2, <1>3 DEF IInv

LEMMA ResultArrivesKeeps ==
  ASSUME IInv, NEW p \in Peers, NEW m \in Results, ResultArrives(p, m) PROVE IInv'
<1> DEFINE settled == {c \in {m.command} : account[p] \in Users /\ stage[c] = "pending"}
           told    == {c \in {m.command} : account[p] \in Users}
<1>1. m.command \in Commands /\ m.verdict \in {"ok", "failed"}
  BY DEF Results
<1>2. /\ results' = [results EXCEPT ![p] = @ \ {m}]
      /\ Settle(settled, m.verdict) /\ Tell(told, m.verdict)
      /\ UNCHANGED <<sessionVars, sentTo, addressee, current, inbox, doing, logouts>>
  BY DEF ResultArrives
<1>3. settled \in SUBSET Commands
  BY <1>1
<1>4. /\ stage' \in [Commands -> {"new", "pending", "settled"}]
      /\ http' \in [Commands -> {"none", "waiting", "accepted", "ok", "failed", "not-found"}]
      /\ \A c \in Commands : stage'[c] = IF c \in settled THEN "settled" ELSE stage[c]
      /\ WaitingIsPending'
  <2> HIDE DEF settled
  <2> QED BY <1>2, <1>3 DEF Settle, IInv, TypeOK, WaitingIsPending
<1>5. verdicts' \in [Commands -> Seq(Verdicts)]
  <2>1. ASSUME NEW c \in Commands PROVE Append(verdicts[c], m.verdict) \in Seq(Verdicts)
    BY <1>1 DEF IInv, TypeOK, Verdicts
  <2> HIDE DEF told
  <2> QED BY <1>2, <2>1 DEF Tell, IInv, TypeOK
<1> HIDE DEF settled, told
<1>6. TypeOK'
  BY <1>2, <1>4, <1>5 DEF IInv, TypeOK, sessionVars
<1>7. OneSessionPerAccount' /\ PendingHasItsSession' /\ Logged' /\ Trail'
  BY <1>2, <1>4 DEF IInv, TypeOK, OneSessionPerAccount, PendingHasItsSession, Logged, Trail,
              sessionVars, Login
<1> QED BY <1>4, <1>6, <1>7 DEF IInv

LEMMA NextKeeps == IInv /\ [Next]_vars => IInv'
<1> SUFFICES ASSUME IInv, [Next]_vars PROVE IInv'
    OBVIOUS
<1>1. CASE Next
  BY <1>1, ConnectKeeps, RegisterUserKeeps, CreateBridgeSessionKeeps, DisconnectKeeps,
     LoseConnectionKeeps, SendLogoutKeeps, HttpLogoutKeeps, SendCommandKeeps, WaitOverKeeps,
     ExpireKeeps, ReceiveKeeps, ReportKeeps, ResultArrivesKeeps DEF Next
<1>2. CASE UNCHANGED vars
  BY <1>2 DEF vars, sessionVars, commandVars, clientVars, IInv, TypeOK, OneSessionPerAccount,
     PendingHasItsSession, WaitingIsPending, Logged, Trail, Login
<1> QED BY <1>1, <1>2

(* The inductive invariant holds in every behaviour.                       *)
THEOREM InvariantHolds == Spec => []IInv
<1> QED BY InitIInv, NextKeeps, PTL DEF Spec

(***************************************************************************)
(* The results.                                                            *)
(***************************************************************************)
(* The maps of serverCore.js and the clients keep their types.             *)
THEOREM SessionTypes == Spec => []TypeOK
<1>1. IInv => TypeOK
  BY DEF IInv
<1> QED BY InvariantHolds, <1>1, PTL

(* A user, and a feed, never has two sessions: README.md:211-212.          *)
THEOREM OneSession == Spec => []OneSessionPerAccount
<1>1. IInv => OneSessionPerAccount
  BY DEF IInv
<1> QED BY InvariantHolds, <1>1, PTL

(* No session ends without the commands sent to it being failed.           *)
THEOREM PendingHasSession == Spec => []PendingHasItsSession
<1>1. IInv => PendingHasItsSession
  BY DEF IInv
<1> QED BY InvariantHolds, <1>1, PTL

(* However a command is settled, by its result, its timer, a logout or the *)
(* end of its session, the HTTP request that waits for it is answered.     *)
THEOREM NobodyWaitsInVain == Spec => []WaitingIsPending
<1>1. IInv => WaitingIsPending
  BY DEF IInv
<1> QED BY InvariantHolds, <1>1, PTL

(* A late logout request of client/logout ends the session it names, or    *)
(* none.                                                                   *)
THEOREM LateLogoutIsHarmless == Spec => LogoutSparesSuccessor
<1>1. ASSUME IInv, [Next]_vars, NEW r \in logouts, HttpLogout(r), NEW p \in Peers,
             account[p] # None, account'[p] = None
      PROVE  p = r.at
  <2>1. CASE r.at # None /\ account[r.at] = r.user
    BY <1>1, <2>1, SessionsAssumption DEF HttpLogout, End, Replace, Move
  <2>2. CASE ~(r.at # None /\ account[r.at] = r.user)
    BY <1>1, <2>2 DEF HttpLogout, sessionVars
  <2> QED BY <2>1, <2>2
<1>2. IInv /\ [Next]_vars =>
        [\A r \in logouts : HttpLogout(r) =>
           \A p \in Peers : account[p] # None /\ account'[p] = None => p = r.at]_vars
  BY <1>1
<1> QED BY InvariantHolds, <1>2, PTL DEF Spec, LogoutSparesSuccessor

(* A command is answered "ok" by nobody but the session it went to: a      *)
(* result that comes over another connection finds it settled.             *)
THEOREM OnlyItsSessionAnswers == Spec => AnswerFromAddressedSession
<1>1. ASSUME IInv, [Next]_vars, NEW c \in Commands, http[c] = "waiting", http'[c] = "ok"
      PROVE  [command |-> c, verdict |-> "ok"] \in results[sentTo[c]]
  <2>1. PICK p \in Peers, m \in Results : ResultArrives(p, m)
    <3>1. ASSUME NEW C, Settle(C, "failed") PROVE http'[c] # "ok"
      BY <1>1, <3>1 DEF Settle
    <3>2. ASSUME NEW ended, NEW s, Replace(ended, s) PROVE FALSE
      BY <1>1, <3>1, <3>2 DEF Replace
    <3>3. ASSUME NEW r \in logouts, HttpLogout(r) PROVE FALSE
      BY <1>1, <3>1, <3>2, <3>3 DEF HttpLogout, End
    <3>4. ASSUME NEW d \in Commands, NEW u \in Users, SendCommand(d, u) PROVE FALSE
      BY <1>1, <3>4 DEF SendCommand, IInv, TypeOK
    <3>5. ASSUME NEW d \in Commands, WaitOver(d) \/ Expire(d) PROVE FALSE
      BY <1>1, <3>1, <3>5 DEF WaitOver, Expire, IInv, TypeOK
    <3>6. ASSUME UNCHANGED http PROVE FALSE
      BY <1>1, <3>6
    <3> QED BY <1>1, <3>2, <3>3, <3>4, <3>5, <3>6 DEF Next, RegisterUser, CreateBridgeSession,
             Disconnect, End, Connect, LoseConnection, SendLogout, Receive, Report, vars, commandVars
  <2>2. c = m.command /\ account[p] \in Users /\ stage[c] = "pending" /\ m.verdict = "ok"
    BY <1>1, <2>1 DEF ResultArrives, Settle, Results
  <2>3. m \in results[p]
    BY <2>1 DEF ResultArrives
  <2>4. sentTo[c] \in Peers /\ account[sentTo[c]] # None /\ DeviceOf[sentTo[c]] = DeviceOf[p]
    BY <1>1, <2>2, <2>3 DEF IInv, TypeOK, PendingHasItsSession, Trail
  <2>5. account[sentTo[c]] = account[p] /\ account[p] # None
    BY <1>1, <2>2, <2>4, SessionsAssumption DEF IInv, Logged, Login, Accounts
  <2>6. sentTo[c] = p
    BY <1>1, <2>4, <2>5 DEF IInv, OneSessionPerAccount
  <2>7. m = [command |-> c, verdict |-> "ok"]
    BY <2>2 DEF Results
  <2> QED BY <2>3, <2>6, <2>7
<1>2. IInv /\ [Next]_vars =>
        [\A c \in Commands : http[c] = "waiting" /\ http'[c] = "ok" =>
           [command |-> c, verdict |-> "ok"] \in results[sentTo[c]]]_vars
  BY <1>1
<1> QED BY InvariantHolds, <1>2, PTL DEF Spec, AnswerFromAddressedSession

(* A command fails for the end of a session only if it is that session it  *)
(* was sent to: no end of a session fails the command of another user.     *)
THEOREM FailsWithItsSession == Spec => OnlyLostSessionsFail
<1>1. ASSUME IInv, [Next]_vars, NEW c \in Commands,
             verdicts'[c] = Append(verdicts[c], "session-ended")
      PROVE  account[sentTo[c]] = addressee[c] /\ account'[sentTo[c]] = None
  <2>1. verdicts[c] \in Seq(Verdicts) /\ "session-ended" \in Verdicts
    BY <1>1 DEF IInv, TypeOK, Verdicts
  <2>2. verdicts'[c] # verdicts[c]
    <3>1. Len(Append(verdicts[c], "session-ended")) = Len(verdicts[c]) + 1
      BY <2>1
    <3> QED BY <1>1, <2>1, <3>1
  <2>3. ASSUME NEW C, NEW v \in Verdicts, Tell(C, v) PROVE c \in C /\ v = "session-ended"
    <3>1. c \in C
      BY <2>2, <2>3 DEF Tell
    <3>2. verdicts'[c] = Append(verdicts[c], v)
      BY <2>3, <3>1 DEF Tell
    <3>3. /\ Append(verdicts[c], v)[Len(verdicts[c]) + 1] = v
          /\ Append(verdicts[c], "session-ended")[Len(verdicts[c]) + 1] = "session-ended"
      BY <2>1, <2>3
    <3> QED BY <1>1, <3>1, <3>2, <3>3
  <2>4. ASSUME NEW ended \in SUBSET Peers, NEW s, Replace(ended, s)
        PROVE  account[sentTo[c]] = addressee[c] /\ account'[sentTo[c]] = None
    <3>1. c \in LostWith(ended)
      BY <2>1, <2>3, <2>4 DEF Replace
    <3>2. sentTo[c] \in HoldersOf(addressee[c]) /\ HoldersOf(addressee[c]) \subseteq ended
      BY <1>1, <3>1 DEF LostWith, HoldersOf, IInv, TypeOK, PendingHasItsSession
    <3> QED BY <2>4, <3>2 DEF Replace, Move, HoldersOf
  <2>5. ASSUME NEW r \in logouts, HttpLogout(r)
        PROVE  account[sentTo[c]] = addressee[c] /\ account'[sentTo[c]] = None
    <3>1. CASE r.at # None /\ account[r.at] = r.user
      <4>1. {r.at} \in SUBSET Peers
        BY <1>1, <3>1 DEF IInv, TypeOK, Logouts, Peers
      <4> QED BY <2>4, <2>5, <3>1, <4>1 DEF HttpLogout, End
    <3>2. CASE ~(r.at # None /\ account[r.at] = r.user)
      <4> DEFINE stray == {d \in Commands : /\ stage[d] = "pending" /\ addressee[d] = r.user
                                            /\ r.at = None /\ HoldersOf(r.user) = {}}
      <4>1. Tell(stray, "session-ended")
        BY <2>5, <3>2 DEF HttpLogout
      <4> HIDE DEF stray
      <4>2. c \in stray
        BY <2>1, <2>3, <4>1
      <4> USE DEF stray
      <4>3. sentTo[c] \in HoldersOf(r.user)
        BY <1>1, <4>2 DEF IInv, TypeOK, PendingHasItsSession, HoldersOf
      <4> QED BY <4>2, <4>3
    <3> QED BY <3>1, <3>2
  <2>6. ASSUME NEW d \in Commands, NEW u \in Users, SendCommand(d, u) PROVE FALSE
    <3>1. "not-connected" \in Verdicts
      BY DEF Verdicts
    <3> QED BY <2>2, <2>3, <2>6, <3>1 DEF SendCommand
  <2>7. ASSUME NEW d \in Commands, WaitOver(d) \/ Expire(d) PROVE FALSE
    <3>1. "timeout" \in Verdicts
      BY DEF Verdicts
    <3> QED BY <2>2, <2>3, <2>7, <3>1 DEF WaitOver, Expire
  <2>8. ASSUME NEW p \in Peers, NEW m \in Results, ResultArrives(p, m) PROVE FALSE
    <3>1. m.verdict \in Verdicts /\ m.verdict # "session-ended"
      BY DEF Results, Verdicts
    <3>2. PICK told : Tell(told, m.verdict)
      BY <2>8 DEF ResultArrives
    <3> QED BY <2>3, <3>1, <3>2
  <2>9. \A p \in Peers : {p} \in SUBSET Peers /\ HoldersOf(Login(p)) \in SUBSET Peers
    BY DEF HoldersOf
  <2> QED
    BY <1>1, <2>2, <2>4, <2>5, <2>6, <2>7, <2>8, <2>9 DEF Next, RegisterUser,
       CreateBridgeSession, Disconnect, End, Connect, LoseConnection, SendLogout, Receive, Report,
       vars, commandVars, Peers
<1>2. IInv /\ [Next]_vars =>
        [\A c \in Commands : verdicts'[c] = Append(verdicts[c], "session-ended") =>
           account[sentTo[c]] = addressee[c] /\ account'[sentTo[c]] = None]_vars
  BY <1>1
<1> QED BY InvariantHolds, <1>2, PTL DEF Spec, OnlyLostSessionsFail

(***************************************************************************)
(* Sessions implements Promise.                                            *)
(***************************************************************************)
(* What a command is before it is sent, and that none is settled without   *)
(* the Companions being told.                                              *)
Told ==
  \A c \in Commands :
    /\ stage[c] = "new" => verdicts[c] = <<>> /\ http[c] = "none" /\ addressee[c] = None
    /\ stage[c] = "settled" => verdicts[c] # <<>>

LEMMA Appended == ASSUME NEW S, NEW s \in Seq(S), NEW v \in S PROVE Append(s, v) # <<>>
<1>1. Len(Append(s, v)) = Len(s) + 1 /\ Len(s) \in Nat
  OBVIOUS
<1>2. Len(<<>>) = 0
  OBVIOUS
<1> QED BY <1>1, <1>2

(* Commands of which the Companions are told in the step that settles them.*)
LEMMA SettlingTells ==
  ASSUME IInv, Told, NEW C \in SUBSET Commands, NEW D \in SUBSET Commands, C \subseteq D,
         NEW v, NEW w \in Verdicts, Settle(C, v), Tell(D, w), UNCHANGED addressee,
         \A c \in D : stage[c] # "new"
  PROVE  Told'
<1> SUFFICES ASSUME NEW c \in Commands
             PROVE  /\ stage'[c] = "new" => verdicts'[c] = <<>> /\ http'[c] = "none" /\ addressee'[c] = None
                    /\ stage'[c] = "settled" => verdicts'[c] # <<>>
    BY DEF Told
<1>1. Append(verdicts[c], w) # <<>>
  BY Appended DEF IInv, TypeOK
<1>2. /\ stage'[c] = IF c \in C THEN "settled" ELSE stage[c]
      /\ verdicts'[c] = IF c \in D THEN Append(verdicts[c], w) ELSE verdicts[c]
      /\ c \notin C => http'[c] = http[c]
  BY DEF Settle, Tell
<1> QED BY <1>1, <1>2 DEF Told

LEMMA ReplaceTells ==
  ASSUME IInv, Told, NEW ended, NEW s, Replace(ended, s) PROVE Told'
<1>1. LostWith(ended) \in SUBSET Commands /\ (\A c \in LostWith(ended) : stage[c] # "new")
  BY DEF LostWith
<1>2. "session-ended" \in Verdicts
  BY DEF Verdicts
<1> QED BY <1>1, <1>2, SettlingTells DEF Replace

LEMMA NextTells == IInv /\ Told /\ [Next]_vars => Told'
<1> SUFFICES ASSUME IInv, Told, [Next]_vars PROVE Told'
    OBVIOUS
<1>1. ASSUME UNCHANGED <<stage, verdicts, http, addressee>> PROVE Told'
  BY <1>1 DEF Told
<1>2. ASSUME NEW r \in logouts, HttpLogout(r) PROVE Told'
  <2>1. CASE r.at # None /\ account[r.at] = r.user
    BY <1>2, <2>1, ReplaceTells DEF HttpLogout, End
  <2>2. CASE ~(r.at # None /\ account[r.at] = r.user)
    <3> DEFINE stray == {c \in Commands : /\ stage[c] = "pending" /\ addressee[c] = r.user
                                          /\ r.at = None /\ HoldersOf(r.user) = {}}
    <3>1. Settle(stray, "failed") /\ Tell(stray, "session-ended") /\ UNCHANGED addressee
      BY <1>2, <2>2 DEF HttpLogout
    <3>2. stray \in SUBSET Commands /\ (\A c \in stray : stage[c] # "new") /\ "session-ended" \in Verdicts
      BY DEF Verdicts
    <3> HIDE DEF stray
    <3> QED BY <3>1, <3>2, SettlingTells
  <2> QED BY <2>1, <2>2
<1>3. ASSUME NEW c \in Commands, NEW u \in Users, SendCommand(c, u) PROVE Told'
  <2>1. verdicts[c] \in Seq(Verdicts) /\ "not-connected" \in Verdicts
    BY DEF IInv, TypeOK, Verdicts
  <2>2. Append(verdicts[c], "not-connected") # <<>>
    BY <2>1, Appended
  <2> QED BY <1>3, <2>2 DEF SendCommand, Tell, Told, IInv, TypeOK
<1>4. ASSUME NEW c \in Commands, WaitOver(c) PROVE Told'
  BY <1>4 DEF WaitOver, Told, IInv, TypeOK
<1>5. ASSUME NEW c \in Commands, Expire(c) PROVE Told'
  <2>1. {c} \in SUBSET Commands /\ "timeout" \in Verdicts
    BY DEF Verdicts
  <2> QED BY <1>5, <2>1, SettlingTells DEF Expire
<1>6. ASSUME NEW p \in Peers, NEW m \in Results, ResultArrives(p, m) PROVE Told'
  <2> DEFINE settled == {c \in {m.command} : account[p] \in Users /\ stage[c] = "pending"}
             told    == {c \in {m.command} : account[p] \in Users}
  <2>1. Settle(settled, m.verdict) /\ Tell(told, m.verdict) /\ UNCHANGED addressee
    BY <1>6 DEF ResultArrives
  <2>2. m.command \in Commands /\ m.verdict \in Verdicts
    BY DEF Results, Verdicts
  <2>3. stage[m.command] # "new"
    BY <1>6, <2>2 DEF ResultArrives, IInv, Trail
  <2>4. settled \in SUBSET Commands /\ told \in SUBSET Commands /\ settled \subseteq told
        /\ (\A c \in told : stage[c] # "new")
    BY <2>2, <2>3
  <2> HIDE DEF settled, told
  <2> QED BY <2>1, <2>2, <2>4, SettlingTells
<1> QED
  BY <1>1, <1>2, <1>3, <1>4, <1>5, <1>6, ReplaceTells DEF Next, RegisterUser, CreateBridgeSession,
     Disconnect, End, Connect, LoseConnection, SendLogout, Receive, Report, vars, commandVars

LEMMA InitPromised == Init => P!Init
<1> SUFFICES ASSUME Init PROVE P!Init
    OBVIOUS
<1>1. PromisedHolders = [a \in Accounts |-> {}]
  BY SessionsAssumption DEF PromisedHolders, HoldersOf, Init
<1>2. PromisedCommand = [c \in Commands |-> P!Unsent]
  BY DEF PromisedCommand, P!Unsent, Init
<1> QED BY <1>1, <1>2 DEF P!Init

(* Which fields of a command Settle and Tell change, seen from Promise.    *)
LEMMA SettlingPromised ==
  ASSUME IInv, Told, NEW C \in SUBSET Commands, NEW D \in SUBSET Commands, C \subseteq D,
         NEW v, NEW w \in Verdicts, Settle(C, v), Tell(D, w), UNCHANGED <<addressee, sentTo>>,
         \A c \in C : stage[c] = "pending",
         \A c \in D \ C : stage[c] = "settled"
  PROVE  PromisedCommand' = [c \in Commands |->
           IF c \in C THEN P!Settled(PromisedCommand[c], IF v = "ok" THEN "ok" ELSE "failed")
           ELSE PromisedCommand[c]]
<1> DEFINE r == IF v = "ok" THEN "ok" ELSE "failed"
<1>1. ASSUME NEW c \in Commands
      PROVE  PromisedCommand'[c] = IF c \in C THEN P!Settled(PromisedCommand[c], r) ELSE PromisedCommand[c]
  <2>1. Append(verdicts[c], w) # <<>>
    BY Appended DEF IInv, TypeOK
  <2>2. /\ stage'[c] = IF c \in C THEN "settled" ELSE stage[c]
        /\ verdicts'[c] = IF c \in D THEN Append(verdicts[c], w) ELSE verdicts[c]
        /\ http'[c] = IF c \notin C \/ http[c] # "waiting" THEN http[c] ELSE r
    BY DEF Settle, Tell
  <2>3. PromisedCommand[c] = [stage |-> stage[c], user |-> addressee[c], at |-> sentTo[c],
                              reply |-> http[c], told |-> verdicts[c] # <<>>]
    BY DEF PromisedCommand
  <2>4. PromisedCommand'[c] = [stage |-> stage'[c], user |-> addressee[c], at |-> sentTo[c],
                               reply |-> http'[c], told |-> verdicts'[c] # <<>>]
    BY DEF PromisedCommand
  <2>5. CASE c \in C
    <3>1. (verdicts'[c] # <<>>) = TRUE
      BY <2>1, <2>2, <2>5
    <3> HIDE DEF r
    <3>2. stage'[c] = "settled" /\ http'[c] = IF http[c] = "waiting" THEN r ELSE http[c]
      BY <2>2, <2>5
    <3>3. P!Settled(PromisedCommand[c], r) =
            [stage |-> "settled", user |-> addressee[c], at |-> sentTo[c],
             reply |-> IF http[c] = "waiting" THEN r ELSE http[c], told |-> TRUE]
      BY <2>3 DEF P!Settled
    <3>4. PromisedCommand'[c] =
            [stage |-> "settled", user |-> addressee[c], at |-> sentTo[c],
             reply |-> IF http[c] = "waiting" THEN r ELSE http[c], told |-> TRUE]
      BY <2>4, <3>1, <3>2
    <3> QED BY <2>5, <3>3, <3>4
  <2>6. CASE c \notin C
    <3>1. (verdicts'[c] # <<>>) = (verdicts[c] # <<>>)
      BY <2>1, <2>2, <2>6 DEF Told
    <3> QED BY <2>2, <2>3, <2>4, <2>6, <3>1
  <2> QED BY <2>5, <2>6
<1>2. PromisedCommand' = [c \in Commands |-> PromisedCommand'[c]]
  BY DEF PromisedCommand
<1> HIDE DEF r
<1>3. PromisedCommand' = [c \in Commands |->
        IF c \in C THEN P!Settled(PromisedCommand[c], r) ELSE PromisedCommand[c]]
  BY <1>1, <1>2
<1> QED BY <1>3 DEF r

(* The end of the holder of an account, with or without a successor, is a  *)
(* Pass.                                                                   *)
LEMMA ReplacePromised ==
  ASSUME IInv, Told, NEW a \in Accounts, NEW s \in Peers \cup {None},
         s # None => account[s] = None /\ Login(s) = a,
         Replace(HoldersOf(a), s)
  PROVE  P!Pass(a)
<1> USE SessionsAssumption
<1>1. LostWith(HoldersOf(a)) = {c \in Commands : stage[c] = "pending" /\ sentTo[c] \in HoldersOf(a)}
  <2>1. ASSUME NEW c \in Commands, stage[c] = "pending"
        PROVE  sentTo[c] \in Peers /\ account[sentTo[c]] = addressee[c]
    BY <2>1 DEF IInv, TypeOK, PendingHasItsSession
  <2> QED BY <2>1 DEF LostWith, HoldersOf
<1> DEFINE lost == LostWith(HoldersOf(a))
<1>2. /\ lost \in SUBSET Commands /\ \A c \in lost : stage[c] = "pending"
      /\ "session-ended" \in Verdicts
  BY DEF LostWith, Verdicts
<1>3. PromisedCommand' = [c \in Commands |->
        IF c \in lost THEN P!Settled(PromisedCommand[c], "failed") ELSE PromisedCommand[c]]
  <2>1. Settle(lost, "failed") /\ Tell(lost, "session-ended") /\ UNCHANGED <<addressee, sentTo>>
    BY DEF Replace
  <2> HIDE DEF lost
  <2> QED BY <1>2, <2>1, SettlingPromised
<1>4. \A c \in Commands : c \in lost <=> PromisedCommand[c].stage = "pending" /\ PromisedCommand[c].at \in PromisedHolders[a]
  BY <1>1 DEF PromisedCommand, PromisedHolders
<1>5. PromisedHolders' = [PromisedHolders EXCEPT ![a] = IF s = None THEN {} ELSE {s}]
  <2>1. \A p \in Peers : account'[p] = IF p \in HoldersOf(a) THEN None ELSE IF p = s THEN a ELSE account[p]
    BY DEF Replace, Move
  <2>2. ASSUME NEW b \in Accounts
        PROVE  HoldersOf(b)' = IF b = a THEN (IF s = None THEN {} ELSE {s}) ELSE HoldersOf(b)
    BY <2>1 DEF HoldersOf
  <2> QED BY <2>2 DEF PromisedHolders
<1>6. s # None => s \in Peers \ UNION {PromisedHolders[b] : b \in Accounts}
  BY DEF PromisedHolders, HoldersOf
<1> HIDE DEF lost
<1>7. PromisedCommand' = [c \in Commands |->
       IF PromisedCommand[c].stage = "pending" /\ PromisedCommand[c].at \in PromisedHolders[a]
       THEN P!Settled(PromisedCommand[c], "failed") ELSE PromisedCommand[c]]
  BY <1>3, <1>4
<1> QED BY <1>5, <1>6, <1>7 DEF P!Pass

(* The end of one session: of the holder of an account, or of a connection *)
(* that nobody has registered on.                                          *)
LEMMA EndPromised ==
  ASSUME IInv, Told, NEW p \in Peers, End(p)
  PROVE  P!Next \/ UNCHANGED P!promiseVars
<1> USE SessionsAssumption
<1>1. CASE account[p] # None
  <2>1. account[p] \in Accounts
    BY <1>1 DEF IInv, TypeOK
  <2>2. HoldersOf(account[p]) = {p}
    BY <1>1 DEF HoldersOf, IInv, OneSessionPerAccount
  <2>3. Replace(HoldersOf(account[p]), None)
    BY <2>2 DEF End
  <2>4. P!Pass(account[p])
    BY <2>1, <2>3, ReplacePromised
  <2> QED BY <2>1, <2>4 DEF P!Next
<1>2. CASE account[p] = None
  <2>1. LostWith({p}) = {}
    BY <1>2 DEF LostWith, IInv, PendingHasItsSession
  <2>2. Settle({}, "failed") /\ Tell({}, "session-ended") /\ UNCHANGED <<addressee, sentTo>>
    BY <2>1 DEF End, Replace
  <2>3. "session-ended" \in Verdicts
    BY DEF Verdicts
  <2>4. PromisedCommand' = [c \in Commands |-> PromisedCommand[c]]
    <3> DEFINE none == {c \in Commands : FALSE}
    <3>1. none = {} /\ none \in SUBSET Commands /\ \A c \in none : stage[c] = "pending"
      OBVIOUS
    <3>2. Settle(none, "failed") /\ Tell(none, "session-ended")
      BY <2>2, <3>1
    <3> HIDE DEF none
    <3>3. PromisedCommand' = [c \in Commands |->
            IF c \in none THEN P!Settled(PromisedCommand[c], "failed") ELSE PromisedCommand[c]]
      BY <2>2, <2>3, <3>1, <3>2, SettlingPromised
    <3> QED BY <3>1, <3>3
  <2>5. PromisedCommand' = PromisedCommand
    BY <2>4 DEF PromisedCommand
  <2>6. \A q \in Peers : account'[q] = account[q]
    BY <1>2 DEF End, Replace, Move
  <2>7. PromisedHolders' = PromisedHolders
    BY <2>6 DEF PromisedHolders, HoldersOf
  <2> QED BY <2>5, <2>7 DEF P!promiseVars
<1> QED BY <1>1, <1>2

LEMMA SendPromised ==
  ASSUME IInv, Told, NEW c \in Commands, NEW u \in Users, SendCommand(c, u)
  PROVE  P!Send(c, u)
<1> USE SessionsAssumption
<1>1. /\ stage[c] = "new" /\ sentTo[c] = None /\ u \in Accounts
      /\ verdicts[c] = <<>> /\ http[c] = "none" /\ addressee[c] = None
  BY DEF SendCommand, IInv, Trail, Told, Accounts
<1>2. PromisedCommand[c].stage = "new" /\ PromisedHolders[u] = HoldersOf(u)
  BY <1>1 DEF PromisedCommand, PromisedHolders
<1>3. UNCHANGED PromisedHolders
  BY DEF SendCommand, sessionVars, PromisedHolders, HoldersOf
<1>4. \A e \in Commands : PromisedCommand'[e] =
        [stage |-> stage'[e], user |-> addressee'[e], at |-> sentTo'[e], reply |-> http'[e],
         told |-> verdicts'[e] # <<>>]
  BY DEF PromisedCommand
<1>5. ASSUME NEW m, PromisedCommand'[c] = m,
             \A e \in Commands \ {c} : PromisedCommand'[e] = PromisedCommand[e]
      PROVE  PromisedCommand' = [PromisedCommand EXCEPT ![c] = m]
  <2>1. PromisedCommand' = [e \in Commands |-> PromisedCommand'[e]]
    BY DEF PromisedCommand
  <2>2. PromisedCommand = [e \in Commands |-> PromisedCommand[e]]
    BY DEF PromisedCommand
  <2> QED BY <1>5, <2>1, <2>2
<1>6. \A e \in Commands \ {c} : PromisedCommand'[e] = PromisedCommand[e]
  <2>1. ASSUME NEW e \in Commands, e # c
        PROVE  /\ stage'[e] = stage[e] /\ addressee'[e] = addressee[e] /\ sentTo'[e] = sentTo[e]
               /\ http'[e] = http[e] /\ verdicts'[e] = verdicts[e]
    BY <2>1 DEF SendCommand, Tell, IInv, TypeOK
  <2> QED BY <1>4, <2>1 DEF PromisedCommand
<1>7. CASE /\ HoldersOf(u) = {}
           /\ stage' = [stage EXCEPT ![c] = "settled"] /\ http' = [http EXCEPT ![c] = "not-found"]
           /\ Tell({c}, "not-connected") /\ UNCHANGED <<sentTo, inbox>>
  <2>1. verdicts[c] \in Seq(Verdicts) /\ "not-connected" \in Verdicts
    BY DEF IInv, TypeOK, Verdicts
  <2>2. (verdicts'[c] # <<>>) = TRUE
    BY <1>7, <2>1, Appended DEF Tell
  <2>3. stage'[c] = "settled" /\ addressee'[c] = u /\ sentTo'[c] = None /\ http'[c] = "not-found"
    BY <1>1, <1>7 DEF SendCommand, IInv, TypeOK
  <2>4. PromisedCommand'[c] = [stage |-> "settled", user |-> u, at |-> None, reply |-> "not-found", told |-> TRUE]
    BY <1>4, <2>2, <2>3
  <2>5. PromisedCommand' = [PromisedCommand EXCEPT ![c] =
          [stage |-> "settled", user |-> u, at |-> None, reply |-> "not-found", told |-> TRUE]]
    BY <1>5, <1>6, <2>4
  <2> QED BY <1>2, <1>3, <1>7, <2>5 DEF P!Send
<1>8. ASSUME NEW p \in HoldersOf(u),
             /\ stage' = [stage EXCEPT ![c] = "pending"] /\ http' = [http EXCEPT ![c] = "waiting"]
             /\ sentTo' = [sentTo EXCEPT ![c] = p] /\ UNCHANGED verdicts
      PROVE  P!Send(c, u)
  <2>1. (verdicts'[c] # <<>>) = FALSE
    BY <1>1, <1>8
  <2>2. stage'[c] = "pending" /\ addressee'[c] = u /\ sentTo'[c] = p /\ http'[c] = "waiting"
    BY <1>8 DEF SendCommand, IInv, TypeOK
  <2>3. PromisedCommand'[c] = [stage |-> "pending", user |-> u, at |-> p, reply |-> "waiting", told |-> FALSE]
    BY <1>4, <2>1, <2>2
  <2>4. PromisedCommand' = [PromisedCommand EXCEPT ![c] =
          [stage |-> "pending", user |-> u, at |-> p, reply |-> "waiting", told |-> FALSE]]
    BY <1>5, <1>6, <2>3
  <2> QED BY <1>2, <1>3, <2>4 DEF P!Send
<1> QED BY <1>7, <1>8 DEF SendCommand

LEMMA WaitOverPromised ==
  ASSUME IInv, Told, NEW c \in Commands, WaitOver(c)
  PROVE  P!Accept(c)
<1>1. stage[c] = "pending" /\ http[c] = "waiting"
  BY DEF WaitOver, IInv, WaitingIsPending
<1>2. UNCHANGED PromisedHolders
  BY DEF WaitOver, sessionVars, PromisedHolders, HoldersOf
<1>3. PromisedCommand' = [PromisedCommand EXCEPT ![c].reply = "accepted"]
  <2>1. ASSUME NEW e \in Commands
        PROVE  http'[e] = IF e = c THEN "accepted" ELSE http[e]
    BY DEF WaitOver, IInv, TypeOK
  <2> QED BY <2>1 DEF WaitOver, PromisedCommand
<1> QED BY <1>1, <1>2, <1>3 DEF P!Accept, PromisedCommand

(* One command is settled, by its result or by its timer.                  *)
LEMMA OneSettledPromised ==
  ASSUME IInv, Told, NEW c \in Commands, NEW v, NEW w \in Verdicts,
         Settle({c}, v), Tell({c}, w), stage[c] = "pending",
         UNCHANGED <<sessionVars, addressee, sentTo>>
  PROVE  P!Settle(c)
<1> DEFINE r == IF v = "ok" THEN "ok" ELSE "failed"
<1>1. PromisedCommand' = [e \in Commands |->
        IF e \in {c} THEN P!Settled(PromisedCommand[e], r) ELSE PromisedCommand[e]]
  <2>1. {c} \in SUBSET Commands /\ (\A e \in {c} : stage[e] = "pending") /\ {c} \ {c} = {}
    OBVIOUS
  <2>2. UNCHANGED <<addressee, sentTo>>
    OBVIOUS
  <2> QED BY <2>1, <2>2, SettlingPromised
<1>2. PromisedCommand = [e \in Commands |-> PromisedCommand[e]]
  BY DEF PromisedCommand
<1>3. r \in {"ok", "failed"}
  OBVIOUS
<1> HIDE DEF r
<1>4. PromisedCommand' = [PromisedCommand EXCEPT ![c] = P!Settled(@, r)]
  BY <1>1, <1>2
<1>5. UNCHANGED PromisedHolders
  BY DEF sessionVars, PromisedHolders, HoldersOf
<1>6. PromisedCommand[c].stage = "pending"
  BY DEF PromisedCommand
<1> QED BY <1>3, <1>4, <1>5, <1>6 DEF P!Settle

LEMMA ResultPromised ==
  ASSUME IInv, Told, NEW p \in Peers, NEW m \in Results, ResultArrives(p, m)
  PROVE  P!Next \/ UNCHANGED P!promiseVars
<1> DEFINE settled == {c \in {m.command} : account[p] \in Users /\ stage[c] = "pending"}
           told    == {c \in {m.command} : account[p] \in Users}
<1>1. /\ Settle(settled, m.verdict) /\ Tell(told, m.verdict)
      /\ UNCHANGED <<sessionVars, addressee, sentTo>>
  BY DEF ResultArrives
<1>2. m.command \in Commands /\ m.verdict \in Verdicts
  BY DEF Results, Verdicts
<1>3. stage[m.command] \in {"pending", "settled"}
  BY <1>2 DEF ResultArrives, IInv, TypeOK, Trail
<1>4. CASE account[p] \in Users /\ stage[m.command] = "pending"
  <2>1. settled = {m.command} /\ told = {m.command}
    BY <1>4
  <2>2. Settle({m.command}, m.verdict) /\ Tell({m.command}, m.verdict)
    BY <1>1, <2>1
  <2>3. P!Settle(m.command)
    BY <1>1, <1>2, <1>4, <2>2, OneSettledPromised
  <2> QED BY <1>2, <2>3 DEF P!Next
<1>5. CASE ~(account[p] \in Users /\ stage[m.command] = "pending")
  <2>1. /\ settled \in SUBSET Commands /\ told \in SUBSET Commands /\ settled \subseteq told
        /\ settled = {} /\ \A c \in told \ settled : stage[c] = "settled"
    BY <1>2, <1>3, <1>5
  <2> HIDE DEF settled, told
  <2>2. PromisedCommand' = [c \in Commands |->
          IF c \in settled THEN P!Settled(PromisedCommand[c], IF m.verdict = "ok" THEN "ok" ELSE "failed")
          ELSE PromisedCommand[c]]
    BY <1>1, <1>2, <2>1, SettlingPromised
  <2>3. PromisedCommand' = [c \in Commands |-> PromisedCommand[c]]
    BY <2>1, <2>2
  <2>4. PromisedCommand' = PromisedCommand
    BY <2>3 DEF PromisedCommand
  <2>5. UNCHANGED PromisedHolders
    BY <1>1 DEF sessionVars, PromisedHolders, HoldersOf
  <2> QED BY <2>4, <2>5 DEF P!promiseVars
<1> QED BY <1>4, <1>5

(* A logout request settles nothing but with the session it ends: no       *)
(* command waits for a user without one.                                   *)
LEMMA LogoutPromised ==
  ASSUME IInv, Told, NEW r \in logouts, HttpLogout(r)
  PROVE  P!Next \/ UNCHANGED P!promiseVars
<1>1. CASE r.at # None /\ account[r.at] = r.user
  <2>1. r.at \in Peers
    BY <1>1 DEF IInv, TypeOK, Logouts, Peers
  <2> QED BY <1>1, <2>1, EndPromised DEF HttpLogout
<1>2. CASE ~(r.at # None /\ account[r.at] = r.user)
  <2> DEFINE stray == {c \in Commands : /\ stage[c] = "pending" /\ addressee[c] = r.user
                                        /\ r.at = None /\ HoldersOf(r.user) = {}}
  <2>1. /\ Settle(stray, "failed") /\ Tell(stray, "session-ended")
        /\ UNCHANGED <<sessionVars, addressee, sentTo>>
    BY <1>2 DEF HttpLogout
  <2>2. stray = {} /\ stray \in SUBSET Commands /\ \A c \in stray : stage[c] = "pending"
    BY DEF IInv, TypeOK, PendingHasItsSession, HoldersOf
  <2>3. "session-ended" \in Verdicts
    BY DEF Verdicts
  <2> HIDE DEF stray
  <2>4. PromisedCommand' = [c \in Commands |->
          IF c \in stray THEN P!Settled(PromisedCommand[c], "failed") ELSE PromisedCommand[c]]
    BY <2>1, <2>2, <2>3, SettlingPromised
  <2>5. PromisedCommand' = [c \in Commands |-> PromisedCommand[c]]
    BY <2>2, <2>4
  <2>6. PromisedCommand' = PromisedCommand
    BY <2>5 DEF PromisedCommand
  <2>7. UNCHANGED PromisedHolders
    BY <2>1 DEF sessionVars, PromisedHolders, HoldersOf
  <2> QED BY <2>6, <2>7 DEF P!promiseVars
<1> QED BY <1>1, <1>2

LEMMA NextPromised ==
  ASSUME IInv, Told, [Next]_vars
  PROVE  [P!Next]_(P!promiseVars)
<1> USE SessionsAssumption
<1>1. ASSUME NEW s \in Peers, account[s] = None, Replace(HoldersOf(Login(s)), s)
      PROVE  P!Next
  <2>1. Login(s) \in Accounts
    BY DEF Login
  <2>2. P!Pass(Login(s))
    BY <1>1, <2>1, ReplacePromised
  <2> QED BY <2>1, <2>2 DEF P!Next
<1>2. ASSUME NEW s \in Sockets, NEW force \in BOOLEAN, RegisterUser(s, force) PROVE P!Next
  BY <1>1, <1>2 DEF RegisterUser, Peers
<1>3. ASSUME NEW b \in Bridges, CreateBridgeSession(b) PROVE P!Next
  BY <1>1, <1>3 DEF CreateBridgeSession, Peers, IInv, TypeOK
<1>4. ASSUME NEW c \in Commands, NEW u \in Users, SendCommand(c, u) PROVE P!Next
  BY <1>4, SendPromised DEF P!Next
<1>5. ASSUME NEW c \in Commands, WaitOver(c) PROVE P!Next
  BY <1>5, WaitOverPromised DEF P!Next
<1>6. ASSUME NEW c \in Commands, Expire(c) PROVE P!Next
  <2>1. "timeout" \in Verdicts
    BY DEF Verdicts
  <2>2. P!Settle(c)
    BY <1>6, <2>1, OneSettledPromised DEF Expire
  <2> QED BY <2>2 DEF P!Next
<1>7. ASSUME UNCHANGED <<account, commandVars>> PROVE UNCHANGED P!promiseVars
  BY <1>7 DEF commandVars, P!promiseVars, PromisedHolders, PromisedCommand, HoldersOf
<1>8. ASSUME NEW p \in Peers, Disconnect(p) PROVE P!Next \/ UNCHANGED P!promiseVars
  BY <1>8, EndPromised DEF Disconnect
<1> QED
  BY <1>2, <1>3, <1>4, <1>5, <1>6, <1>7, <1>8, ResultPromised, LogoutPromised DEF Next, Connect, LoseConnection,
     SendLogout, Receive, Report, vars, sessionVars, commandVars

(* Whatever connections are made and lost and whatever requests are late,  *)
(* accounts and commands do what Promise says: an account passes from its  *)
(* one holder to the next in a step that fails the commands of the former. *)
THEOREM SessionsImplementPromise == Spec => ImplementsPromise
<1>1. Init => Told
  BY DEF Init, Told
<1> QED BY <1>1, InitPromised, NextTells, NextPromised, InvariantHolds, PTL DEF Spec, ImplementsPromise, P!Spec
=============================================================================
