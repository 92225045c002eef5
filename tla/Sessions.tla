------------------------------ MODULE Sessions ------------------------------
(***************************************************************************)
(* Who is logged in: the peers map of serverCore.js with the Socket.IO     *)
(* connections of browsers and headless clients and the control sessions   *)
(* of bridges, and the commands a Companion sends to a user over the HTTP  *)
(* API, which wait for the answer of the session the user has then.        *)
(*                                                                         *)
(* A device is one running client (a page, a headless client, a port of a  *)
(* bridge) and logs in as one account.  When its connection breaks it      *)
(* connects again as another peer, while the server may hold the old one   *)
(* for a while, and it answers over the connection it has when it answers. *)
(*                                                                         *)
(* Guests are not in it: several peers may have the identity of one guest, *)
(* and commands are not addressed to guests.                               *)
(***************************************************************************)
EXTENDS Naturals, Sequences, FiniteSets

CONSTANTS
  Sockets,    \* Socket.IO connections, each used once
  Bridges,    \* bridge control sessions, each used once
  Devices,
  DeviceOf,   \* the device behind a socket or bridge session
  LoginOf,    \* the account a device logs in as
  Users,
  Feeds,
  Commands,   \* ids of Companion commands, each used once
  None

Peers    == Sockets \cup Bridges
Accounts == Users \cup Feeds

ASSUME SessionsAssumption ==
  /\ Sockets \cap Bridges = {}
  /\ Users \cap Feeds = {}
  /\ DeviceOf \in [Peers -> Devices]
  /\ LoginOf \in [Devices -> Accounts]
  /\ None \notin Peers \cup Accounts

VARIABLES
  link,       \* per peer: "unused", "open" (in the peers map) or "gone"
  account,    \* peer.userId or peer.feedId
  current,    \* per device: the peer it takes for its connection
  stage,      \* per command: "new", "pending" (companionPendingCommands), "settled"
  sentTo,     \* the session a command was dispatched to
  addressee,  \* the user a command is for
  http,       \* the answer to the HTTP request of a command
  verdicts,   \* command-result events the Companions got for a command
  inbox,      \* per peer: commands on their way to it
  doing,      \* per device: commands it works on
  results,    \* per peer: results on their way to the server
  logouts     \* logout requests on their way, by HTTP

sessionVars == <<link, account>>
commandVars == <<stage, sentTo, addressee, http, verdicts>>
clientVars  == <<current, inbox, doing, results, logouts>>
vars        == <<sessionVars, commandVars, clientVars>>

Verdicts == {"ok", "failed", "session-ended", "timeout", "not-connected"}
Results  == [command : Commands, verdict : {"ok", "failed"}]
Logouts  == [user : Users, at : Sockets \cup {None}]

HoldersOf(a) == {p \in Peers : account[p] = a}
Login(p)     == LoginOf[DeviceOf[p]]

(***************************************************************************)
(* Settling commands and ending sessions.                                  *)
(***************************************************************************)
(* A variant: the waiting request is forgotten. *)
SettleSilently(C, verdict) ==
  /\ stage' = [c \in Commands |-> IF c \in C THEN "settled" ELSE stage[c]]
  /\ UNCHANGED http

(* settleCompanionPendingCommand for the pending commands of C: the HTTP   *)
(* request that still waits is answered with the verdict.                  *)
Settle(C, verdict) ==
  /\ stage' = [c \in Commands |-> IF c \in C THEN "settled" ELSE stage[c]]
  /\ http' = [c \in Commands |-> IF c \notin C \/ http[c] # "waiting" THEN http[c]
                                 ELSE IF verdict = "ok" THEN "ok" ELSE "failed"]

Tell(C, verdict) ==
  verdicts' = [c \in Commands |-> IF c \in C THEN Append(verdicts[c], verdict) ELSE verdicts[c]]

(* A variant: the ended sessions fail everybody's commands. *)
LostWithAny(ended) == {c \in Commands : stage[c] = "pending" /\ ended # {}}

(* failPendingCommandsForUser for the users that have no session but those *)
(* that end.                                                               *)
LostWith(ended) ==
  {c \in Commands : /\ stage[c] = "pending"
                    /\ \E p \in ended : account[p] = addressee[c]
                    /\ HoldersOf(addressee[c]) \subseteq ended}

(* A variant: the peer keeps its identity. *)
MoveKeepingPeer(ended, s) ==
  /\ link' = [p \in Peers |-> IF p \in ended THEN "gone" ELSE IF p = s THEN "open" ELSE link[p]]
  /\ account' = [p \in Peers |-> IF p = s THEN Login(s) ELSE account[p]]
  /\ results' = [p \in Peers |-> IF p \in ended THEN {} ELSE results[p]]

(* The disconnect handler, and closeBridgeControlSession: the ended peers  *)
(* leave the map, and what they sent is lost; what was sent to them before *)
(* may still reach them.  s is registered, if it is a peer.                *)
Move(ended, s) ==
  /\ link' = [p \in Peers |-> IF p \in ended THEN "gone" ELSE IF p = s THEN "open" ELSE link[p]]
  /\ account' = [p \in Peers |-> IF p \in ended THEN None ELSE IF p = s THEN Login(s) ELSE account[p]]
  /\ results' = [p \in Peers |-> IF p \in ended THEN {} ELSE results[p]]

(* A variant: the new session has the user before the old one is ended, so *)
(* the user never seems to be without a session.                           *)
ReplaceRegisteringFirst(ended, s) ==
  LET lost == {c \in LostWith(ended) : s = None} IN
  /\ Move(ended, s)
  /\ Settle(lost, "failed") /\ Tell(lost, "session-ended")
  /\ UNCHANGED <<sentTo, addressee, inbox, doing, logouts>>

(* A peer leaves the map first, then the commands to its user fail, and a  *)
(* takeover registers the new peer after that.                             *)
Replace(ended, s) ==
  /\ Move(ended, s)
  /\ Settle(LostWith(ended), "failed") /\ Tell(LostWith(ended), "session-ended")
  /\ UNCHANGED <<sentTo, addressee, inbox, doing, logouts>>

End(p) == Replace({p}, None)

(***************************************************************************)
(* Connections and accounts.                                               *)
(***************************************************************************)
Connect(s) ==
  /\ s \in Sockets /\ link[s] = "unused" /\ current[DeviceOf[s]] = None
  /\ link' = [link EXCEPT ![s] = "open"]
  /\ current' = [current EXCEPT ![DeviceOf[s]] = s]
  /\ UNCHANGED <<account, inbox, doing, results, logouts, commandVars>>

(* The device gives its connection up; the server may learn of it later.   *)
LoseConnection(d) ==
  /\ current[d] # None
  /\ current' = [current EXCEPT ![d] = None]
  /\ UNCHANGED <<sessionVars, inbox, doing, results, logouts, commandVars>>

(* A variant: nobody looks for the session the account has. *)
RegisterUserBeside(s, force) ==
  /\ s \in Sockets /\ link[s] = "open" /\ account[s] = None
  /\ Replace({}, s)
  /\ UNCHANGED current

(* register-user.  A user who has a session already is refused, unless the *)
(* client forces the session out; a feed always takes its place.           *)
RegisterUser(s, force) ==
  /\ s \in Sockets /\ link[s] = "open" /\ account[s] = None
  /\ HoldersOf(Login(s)) = {} \/ force \/ Login(s) \in Feeds
  /\ Replace(HoldersOf(Login(s)), s)
  /\ UNCHANGED current

(* A variant: only users are looked for. *)
CreateBridgeSessionBesideFeed(b) ==
  /\ b \in Bridges /\ link[b] = "unused" /\ current[DeviceOf[b]] = None
  /\ Replace(IF Login(b) \in Feeds THEN {} ELSE HoldersOf(Login(b)), b)
  /\ current' = [current EXCEPT ![DeviceOf[b]] = b]

(* createBridgeControlSession kicks whoever has the account.               *)
CreateBridgeSession(b) ==
  /\ b \in Bridges /\ link[b] = "unused" /\ current[DeviceOf[b]] = None
  /\ Replace(HoldersOf(Login(b)), b)
  /\ current' = [current EXCEPT ![DeviceOf[b]] = b]

(* The connection is lost, the client logs out over it, or the bridge      *)
(* deletes the session, its event stream closes or it times out.           *)
Disconnect(p) ==
  /\ link[p] = "open"
  /\ End(p)
  /\ UNCHANGED current

(* A page logs out: it sends its identity, with its connection if it has   *)
(* one, and reloads.                                                       *)
SendLogout(d) ==
  /\ LoginOf[d] \in Users /\ current[d] \notin Bridges
  /\ logouts' = logouts \cup {[user |-> LoginOf[d], at |-> current[d]]}
  /\ current' = [current EXCEPT ![d] = None]
  /\ doing' = [doing EXCEPT ![d] = {}]
  /\ UNCHANGED <<sessionVars, inbox, results, commandVars>>

(* A variant: without the named session, any session of the user is ended. *)
HttpLogoutByUser(r) ==
  /\ r \in logouts
  /\ \E p \in HoldersOf(r.user) : End(p)
  /\ UNCHANGED current

(* POST client/logout ends only the session that is named; without a name  *)
(* it fails the commands of a user who has no session.  The request stays: *)
(* the page may have sent it a second time as a beacon.                    *)
HttpLogout(r) ==
  /\ r \in logouts
  /\ IF r.at # None /\ account[r.at] = r.user
     THEN End(r.at)
     ELSE LET stray == {c \in Commands : /\ stage[c] = "pending" /\ addressee[c] = r.user
                                         /\ r.at = None /\ HoldersOf(r.user) = {}} IN
          /\ Settle(stray, "failed") /\ Tell(stray, "session-ended")
          /\ UNCHANGED <<sessionVars, sentTo, addressee, inbox, doing, results, logouts>>
  /\ UNCHANGED current

(***************************************************************************)
(* Commands: users/:id/talk and users/:id/target-audio.                    *)
(***************************************************************************)
(* The entry is registered, then dispatched to the session of the user.    *)
SendCommand(c, u) ==
  /\ stage[c] = "new"
  /\ addressee' = [addressee EXCEPT ![c] = u]
  /\ \/ /\ HoldersOf(u) = {}
        /\ stage' = [stage EXCEPT ![c] = "settled"]
        /\ http' = [http EXCEPT ![c] = "not-found"]
        /\ Tell({c}, "not-connected")
        /\ UNCHANGED <<sentTo, inbox>>
     \/ \E p \in HoldersOf(u) :
        /\ stage' = [stage EXCEPT ![c] = "pending"]
        /\ http' = [http EXCEPT ![c] = "waiting"]
        /\ sentTo' = [sentTo EXCEPT ![c] = p]
        /\ inbox' = [inbox EXCEPT ![p] = @ \cup {c}]
        /\ UNCHANGED verdicts
  /\ UNCHANGED <<sessionVars, current, doing, results, logouts>>

(* A variant: the entry goes with the request. *)
WaitOverForgetting(c) ==
  /\ http[c] = "waiting"
  /\ http' = [http EXCEPT ![c] = "accepted"]
  /\ stage' = [stage EXCEPT ![c] = "settled"]
  /\ UNCHANGED <<sessionVars, clientVars, sentTo, addressee, verdicts>>

(* waitMs is over: 202, and the command stays pending.                     *)
WaitOver(c) ==
  /\ http[c] = "waiting"
  /\ http' = [http EXCEPT ![c] = "accepted"]
  /\ UNCHANGED <<sessionVars, clientVars, stage, sentTo, addressee, verdicts>>

(* The expiry timer.  waitMs is at most 10 s and the entry lives for 30 s, *)
(* so the HTTP request is answered by then.                                *)
Expire(c) ==
  /\ stage[c] = "pending" /\ http[c] # "waiting"
  /\ Settle({c}, "failed") /\ Tell({c}, "timeout")
  /\ UNCHANGED <<sessionVars, clientVars, sentTo, addressee>>

Receive(p, c) ==
  /\ c \in inbox[p] /\ current[DeviceOf[p]] = p
  /\ inbox' = [inbox EXCEPT ![p] = @ \ {c}]
  /\ doing' = [doing EXCEPT ![DeviceOf[p]] = @ \cup {c}]
  /\ UNCHANGED <<sessionVars, current, results, logouts, commandVars>>

(* emitApiCommandResult: without a connection the result is dropped.       *)
Report(d, c, verdict) ==
  /\ c \in doing[d]
  /\ doing' = [doing EXCEPT ![d] = @ \ {c}]
  /\ results' = [p \in Peers |-> IF p = current[d] /\ link[p] = "open"
                                 THEN results[p] \cup {[command |-> c, verdict |-> verdict]}
                                 ELSE results[p]]
  /\ UNCHANGED <<sessionVars, current, inbox, logouts, commandVars>>

(* api-talk-command-result and the command-result of a bridge: ignored     *)
(* from a peer that is no user; else the Companions are told, also when    *)
(* the command is settled already.                                         *)
ResultArrives(p, m) ==
  /\ m \in results[p]
  /\ results' = [results EXCEPT ![p] = @ \ {m}]
  /\ LET settled == {c \in {m.command} : account[p] \in Users /\ stage[c] = "pending"}
         told    == {c \in {m.command} : account[p] \in Users} IN
     Settle(settled, m.verdict) /\ Tell(told, m.verdict)
  /\ UNCHANGED <<sessionVars, sentTo, addressee, current, inbox, doing, logouts>>

(***************************************************************************)
(* The specification.                                                      *)
(***************************************************************************)
Init ==
  /\ link = [p \in Peers |-> "unused"] /\ account = [p \in Peers |-> None]
  /\ stage = [c \in Commands |-> "new"] /\ http = [c \in Commands |-> "none"]
  /\ sentTo = [c \in Commands |-> None] /\ addressee = [c \in Commands |-> None]
  /\ verdicts = [c \in Commands |-> <<>>]
  /\ current = [d \in Devices |-> None] /\ doing = [d \in Devices |-> {}]
  /\ inbox = [p \in Peers |-> {}] /\ results = [p \in Peers |-> {}]
  /\ logouts = {}

Next ==
  \/ \E s \in Sockets : Connect(s)
  \/ \E s \in Sockets, force \in BOOLEAN : RegisterUser(s, force)
  \/ \E b \in Bridges : CreateBridgeSession(b)
  \/ \E p \in Peers : Disconnect(p)
  \/ \E d \in Devices : LoseConnection(d) \/ SendLogout(d)
  \/ \E r \in logouts : HttpLogout(r)
  \/ \E c \in Commands, u \in Users : SendCommand(c, u)
  \/ \E c \in Commands : WaitOver(c) \/ Expire(c)
  \/ \E p \in Peers, c \in Commands : Receive(p, c)
  \/ \E d \in Devices, c \in Commands, v \in {"ok", "failed"} : Report(d, c, v)
  \/ \E p \in Peers, m \in Results : ResultArrives(p, m)

Spec == Init /\ [][Next]_vars

(* The two timers of a command run out; nobody else has to do anything.    *)
LiveSpec == Spec /\ \A c \in Commands : WF_vars(WaitOver(c)) /\ WF_vars(Expire(c))

(***************************************************************************)
(* Properties.                                                             *)
(***************************************************************************)
(* Only a user or a feed holds a session, and only an open peer has what   *)
(* travels over it: the types of the maps serverCore.js keeps.             *)
TypeOK ==
  /\ link \in [Peers -> {"unused", "open", "gone"}]
  /\ account \in [Peers -> Accounts \cup {None}]
  /\ current \in [Devices -> Peers \cup {None}]
  /\ stage \in [Commands -> {"new", "pending", "settled"}]
  /\ sentTo \in [Commands -> Peers \cup {None}]
  /\ addressee \in [Commands -> Users \cup {None}]
  /\ http \in [Commands -> {"none", "waiting", "accepted", "ok", "failed", "not-found"}]
  /\ verdicts \in [Commands -> Seq(Verdicts)]
  /\ inbox \in [Peers -> SUBSET Commands]
  /\ doing \in [Devices -> SUBSET Commands]
  /\ results \in [Peers -> SUBSET Results]
  /\ logouts \subseteq Logouts
  /\ \A p \in Peers : link[p] # "open" => account[p] = None /\ results[p] = {}

(* "A user has only one active Talktome session at a time" (README.md:212), *)
(* and so has a feed, whatever mixture of browsers and bridges asks for it: *)
(* the check for an existing session and the registration are one step.    *)
OneSessionPerAccount ==
  \A p, q \in Peers : account[p] = account[q] /\ account[p] # None => p = q

(* A command that waits has the session it was dispatched to: whichever    *)
(* way a session ends, even by a successor of the same user taking over,   *)
(* failPendingCommandsForUser reaches every command sent to it.            *)
PendingHasItsSession ==
  \A c \in Commands : stage[c] = "pending" =>
    sentTo[c] # None /\ addressee[c] # None /\ account[sentTo[c]] = addressee[c]

(* No HTTP request waits for a command that nothing can answer any more.   *)
WaitingIsPending == \A c \in Commands : http[c] = "waiting" => stage[c] = "pending"

(* The end of a session fails no command of another user, and none whose   *)
(* user still has the session the command went to.                         *)
OnlyLostSessionsFail ==
  [][\A c \in Commands :
       verdicts'[c] = Append(verdicts[c], "session-ended") =>
         account[sentTo[c]] = addressee[c] /\ account'[sentTo[c]] = None]_vars

(* A logout request that comes late, when its user has logged in again or  *)
(* elsewhere, ends no session but the one it names.                        *)
LogoutSparesSuccessor ==
  [][\A r \in logouts : HttpLogout(r) =>
       \A p \in Peers : account[p] # None /\ account'[p] = None => p = r.at]_vars

(* "ok" is only ever said of a command whose own session reported it: a    *)
(* device that answers over a new connection does not answer for the old.  *)
AnswerFromAddressedSession ==
  [][\A c \in Commands : http[c] = "waiting" /\ http'[c] = "ok" =>
       [command |-> c, verdict |-> "ok"] \in results[sentTo[c]]]_vars

(* Sessions and commands do what Promise says, without connections: the    *)
(* holders of an account are the peers that have it, never two, and it     *)
(* passes on and fails the commands of its former holder in one step,      *)
(* whichever request or loss of a connection makes it pass.                *)
PromisedHolders == [a \in Accounts |-> HoldersOf(a)]
PromisedCommand ==
  [c \in Commands |-> [stage |-> stage[c], user |-> addressee[c], at |-> sentTo[c], reply |-> http[c],
                       told |-> verdicts[c] # <<>>]]
P == INSTANCE Promise WITH holders <- PromisedHolders, command <- PromisedCommand
ImplementsPromise == P!Spec

(* Every command gets a verdict the Companions are told of, and every HTTP *)
(* request is answered.                                                    *)
CommandsAreAnswered ==
  \A c \in Commands : stage[c] = "pending" ~>
    stage[c] = "settled" /\ verdicts[c] # <<>> /\ http[c] # "waiting"
=============================================================================
