-------------------------------- MODULE Tally --------------------------------
(***************************************************************************)
(* What companions and pages are told of the state of the users:           *)
(* serverCore.js derives the state of a user (buildCompanionUserState) from*)
(* its peer, the talk of every other peer, the matrix and the tally        *)
(* (tallyState.js), and emits it to the companions of a production; a page *)
(* is told whether it is on air ("cut-camera").  Nothing is polled: whoever*)
(* changes one of the inputs has to tell everybody it matters to.  Handlers*)
(* are steps, but for those that await the push service.                   *)
(*                                                                         *)
(* A handler is an operator from a world to a world.  One conference, of   *)
(* production 1; one of the two buses, they are alike.                     *)
(***************************************************************************)
EXTENDS Naturals, FiniteSets, FiniteSetsExt

CONSTANTS
  Users,        \* operator accounts, 1..N
  Productions,  \* productions, 1..M
  Attempts      \* bounds: talks, edits and cuts, as records left

VARIABLES
  world,        \* the server, the pages and the companions
  left          \* what may still happen

vars == <<world, left>>

\* Accounts and productions have numbers; there is a production at first.
TallyAssumption == Users \subseteq Nat \ {0} /\ Productions \subseteq Nat \ {0} /\ Productions # {}

Conf == 0       \* the conference, among the targets; a user is a positive target
Null == 0       \* no production; no user on the bus
Off == -1       \* a user without a peer

(***************************************************************************)
(* Parts of a world: at (productionId of the peer of a user), mic (its talk*)
(* producer), watched (its observers are attached), ptt (pttTalking), to   *)
(* (activeTalkTargets), locked (talkLocked), waits (a talk-targets-updated *)
(* of the user awaits the push service; "former" after its peer has gone). *)
(* The matrix: prods, memb (production_users), conf (the rows of the       *)
(* conference), multi (multiple productions are on).  tally (pgmUser).     *)
(* Told: page (the page is red), open (productions with a companion),      *)
(* told (the last state a companion has of a user), answered (which of     *)
(* these came with the result of a command).  untold: something changed    *)
(* that nobody is told of until the next broadcast.                        *)
(***************************************************************************)
On(w, u) == w.at[u] # Off
\* getEffectiveConferencesForPeer: the production of the peer, or the primary one.
Primary(w) == Min(w.prods)
Effective(w, u) == IF w.at[u] = Null THEN Primary(w) ELSE w.at[u]
Member(w, u) == On(w, u) /\ w.conf[u] # "none" /\ Effective(w, u) = 1
MayTalk(w, u, t) ==
  t = Conf => Member(w, u) /\ (~w.multi \/ w.at[u] = Null \/ w.conf[u] = "talk")

\* getPeerActiveTalkTargets: what the page announces, or what its producer says.
ActiveTargets(w, u) ==
  IF On(w, u) /\ (w.ptt[u] \/ w.mic[u] = "live") THEN {t \in w.to[u] : MayTalk(w, u, t)} ELSE {}

\* canRouteTargetBetweenPeers, resolveRecipientPeersForTarget.
SameProduction(w, u, v) == ~w.multi \/ Null \in {w.at[u], w.at[v]} \/ w.at[u] = w.at[v]
Reaches(w, v, t, u) ==
  v # u /\ On(w, u) /\ (IF t = Conf THEN Member(w, u) ELSE t = u /\ SameProduction(w, u, v))

\* buildAddressedEntry: the conference, or the speaker; one entry of each for a speaker.
EntryOf(v, t) == [from |-> v, via |-> IF t = Conf THEN "conference" ELSE "user"]
\* buildIncomingTalkStateSnapshot
AddressedNow(w, u) ==
  UNION {{EntryOf(v, t) : t \in {t \in ActiveTargets(w, v) : Reaches(w, v, t, u)}} : v \in Users}

\* buildCompanionUserState, for a companion of p.
StateOf(w, p, u) ==
  [on |-> On(w, u), to |-> ActiveTargets(w, u), by |-> AddressedNow(w, u),
   locked |-> w.locked[u] /\ On(w, u), pgm |-> w.tally[p] = u]
Unknown == [on |-> FALSE, to |-> {}, by |-> {}, locked |-> FALSE, pgm |-> FALSE]

InProduction(w, u, p) == <<u, p>> \in w.memb

\* emitCompanionUserState, for every user of us.
Hears(w, p, u) == p \in w.open /\ InProduction(w, u, p)
Emit(w, us) ==
  [w EXCEPT !.told = [p \in Productions |-> [u \in Users |->
              IF u \in us /\ Hears(w, p, u) THEN StateOf(w, p, u) ELSE @[p][u]]],
            !.answered = {pu \in @ : ~(pu[2] \in us /\ Hears(w, pu[1], pu[2]))}]
\* broadcastRuntimeUserStates
Broadcast(w) == [Emit(w, Users) EXCEPT !.untold = FALSE]
\* syncPeerCompanionState: a user that does not talk holds no lock.
Sync(w, u) == Emit([w EXCEPT !.locked[u] = @ /\ ActiveTargets(w, u) # {}], {u})

\* buildPeerTallyState, emitPeerTallyState.
PageTally(w, u) == w.tally[Effective(w, u)] = u
TellPages(w, us) == [w EXCEPT !.page = [u \in Users |-> IF u \in us /\ On(w, u) THEN PageTally(w, u) ELSE @[u]]]

(***************************************************************************)
(* Pages.                                                                  *)
(***************************************************************************)
\* register-user, in a production of the user's.
Register(w, u, p) ==
  LET v == TellPages([w EXCEPT !.at[u] = p], {u}) IN Broadcast(Sync(Emit(v, {u}), u))

SetActiveProduction(w, u, p) == Broadcast(TellPages([w EXCEPT !.at[u] = p], {u}))

PttState(w, u, ts, lock) ==
  Broadcast(Emit([w EXCEPT !.ptt[u] = ts # {}, !.to[u] = IF ts # {} THEN ts ELSE @, !.locked[u] = lock], {u}))

\* A variant: talk-targets-updated tells the companions of the speaker only.
TargetsOfSpeaker(w, u, ts, slow) ==
  LET v == Emit([w EXCEPT !.to[u] = ts], {u}) IN
  IF w.mic[u] = "none" THEN [v EXCEPT !.untold = @ \/ w.ptt[u]]
  ELSE IF slow /\ w.mic[u] = "live" /\ ts # {} THEN [v EXCEPT !.waits[u] = "own"]
  ELSE Sync(v, u)

\* talk-targets-updated: without a producer nobody else is told.
TargetsUpdated(w, u, ts, slow) ==
  LET v == Emit([w EXCEPT !.to[u] = ts], {u}) IN
  IF w.mic[u] = "none" THEN [v EXCEPT !.untold = @ \/ w.ptt[u]]
  ELSE IF slow /\ w.mic[u] = "live" /\ ts # {} THEN [v EXCEPT !.waits[u] = "own"]
  ELSE Broadcast(Sync(v, u))

\* Its end, once the push service has answered; a former peer may still end a lock.
Pushed(w, u, keeps) ==
  LET v == [w EXCEPT !.waits[u] = "no"] IN
  Broadcast(IF w.waits[u] = "own" THEN Sync(v, u) ELSE Emit([v EXCEPT !.locked[u] = @ /\ keeps], {u}))

\* produce; the observers are attached once the push service has answered.
Produce(w, u, slow) ==
  Broadcast(Sync([w EXCEPT !.mic[u] = "live", !.watched[u] = ~slow], u))

\* pause-producer and resume-producer: the observers tell.
SetPaused(w, u, state) ==
  LET v == [w EXCEPT !.mic[u] = state] IN
  IF w.watched[u] THEN Broadcast(Sync(v, u)) ELSE [v EXCEPT !.untold = TRUE]

\* producer-close
CloseProducer(w, u) == Broadcast(Sync([w EXCEPT !.mic[u] = "none", !.watched[u] = FALSE], u))

\* disconnect
Disconnect(w, u) ==
  Broadcast(Emit([w EXCEPT !.at[u] = Off, !.mic[u] = "none", !.watched[u] = FALSE, !.ptt[u] = FALSE,
                           !.to[u] = {}, !.locked[u] = FALSE, !.page[u] = FALSE,
                           !.waits[u] = IF @ = "no" THEN @ ELSE "former"], {u}))

(***************************************************************************)
(* Companions, and the video mixer.                                        *)
(***************************************************************************)
(***************************************************************************)
(* The result of a companion's command, from the page of u (or its bridge):*)
(* first the state as ever; then, within command-result and to everybody,  *)
(* a state built without a production, which has the primary one's tally.  *)
(***************************************************************************)
CommandResult(w, u, lock) ==
  LET v == Emit([w EXCEPT !.locked[u] = lock], {u}) IN
  [v EXCEPT !.told = [p \in Productions |-> [x \in Users |->
              IF x = u /\ Hears(v, p, u) THEN StateOf(v, Primary(v), u) ELSE @[p][x]]],
            !.answered = @ \cup {pu \in Productions \X {u} : Hears(v, pu[1], u)}]

\* The snapshot of a connection, or of request-snapshot.
Snapshot(w, p) ==
  LET v == [w EXCEPT !.open = @ \cup {p}] IN
  [v EXCEPT !.told[p] = [u \in Users |-> IF InProduction(w, u, p) THEN StateOf(v, p, u) ELSE Unknown],
            !.answered = {pu \in @ : pu[1] # p}]

\* POST /cut-camera: the pages of the production, and the users that are concerned.
CutCamera(w, p, x) ==
  LET v == [w EXCEPT !.tally[p] = x]
      touched == {u \in {w.tally[p], x} \ {Null} : w.tally[p] # x /\ InProduction(w, u, p)}
  IN  Emit(TellPages(v, {u \in Users : w.at[u] = p}), touched)

(***************************************************************************)
(* The matrix.  Only the single production's handlers tell companions.     *)
(***************************************************************************)
Productions_Of(w, u) == {p \in w.prods : InProduction(w, u, p)}
FirstOf(w, u) == IF Productions_Of(w, u) = {} THEN Null ELSE Min(Productions_Of(w, u))

\* resetPeersUsingProduction
ResetPeers(w, p, us) ==
  LET gone == {u \in us : w.at[u] = p} IN
  TellPages([w EXCEPT !.at = [u \in Users |-> IF u \in gone THEN FirstOf(w, u) ELSE @[u]], !.untold = TRUE], gone)

\* removeProductionUser with its matrix rows.
RemoveMember(w, u, p) ==
  ResetPeers([w EXCEPT !.memb = @ \ {<<u, p>>}, !.conf[u] = IF p = 1 THEN "none" ELSE @], p, {u})
AddMember(w, u, p) == [w EXCEPT !.memb = @ \cup {<<u, p>>}, !.untold = TRUE]
DeleteProduction(w, p) ==
  ResetPeers([w EXCEPT !.prods = @ \ {p}, !.memb = {m \in @ : m[2] # p}, !.tally[p] = Null,
                       !.conf = IF p = 1 THEN [u \in Users |-> "none"] ELSE @], p, Users)

\* The rows of the conference, by the endpoints of a production or of the single one.
SetConference(w, u, mode) == [w EXCEPT !.conf[u] = mode, !.untold = TRUE]
SetConferenceSingle(w, u, mode) == Broadcast([w EXCEPT !.conf[u] = mode])

\* PUT multiple-productions
SetMultiple(w, on) ==
  LET all == {u \in Users : On(w, u)}
      v == [w EXCEPT !.multi = on]
  IN  IF on THEN [v EXCEPT !.untold = TRUE]
      ELSE Broadcast(TellPages([v EXCEPT !.at = [u \in Users |-> IF On(w, u) THEN Primary(w) ELSE Off]], all))

(***************************************************************************)
(* Steps.                                                                  *)
(***************************************************************************)
Fresh(m) ==
  [at |-> [u \in Users |-> Off], mic |-> [u \in Users |-> "none"], watched |-> [u \in Users |-> FALSE],
   ptt |-> [u \in Users |-> FALSE], to |-> [u \in Users |-> {}], locked |-> [u \in Users |-> FALSE],
   waits |-> [u \in Users |-> "no"], prods |-> Productions, memb |-> Users \X Productions,
   conf |-> [u \in Users |-> "talk"], multi |-> m, tally |-> [p \in Productions |-> Null],
   page |-> [u \in Users |-> FALSE], open |-> {}, told |-> [p \in Productions |-> [u \in Users |-> Unknown]],
   answered |-> {}, untold |-> FALSE]

Init == left \in Attempts /\ \E m \in BOOLEAN : world = Fresh(m)

May(a) == left[a] > 0 /\ left' = [left EXCEPT ![a] = @ - 1]
Enter(u, p) == InProduction(world, u, p) /\ (world.multi \/ p = Primary(world))
TalkSets(u) == SUBSET (((Users \ {u}) \cup {Conf}))

Comes == UNCHANGED left /\ \E u \in Users : ~On(world, u) /\ \E p \in world.prods :
  Enter(u, p) /\ world' = Register(world, u, p)
Goes == May("talks") /\ \E u \in Users : On(world, u) /\ world' = Disconnect(world, u)
Switches == May("talks") /\ \E u \in Users, p \in world.prods :
  On(world, u) /\ Enter(u, p) /\ world' = SetActiveProduction(world, u, p)

Announces == May("talks") /\ \E u \in Users : On(world, u) /\ \E ts \in TalkSets(u), lock \in BOOLEAN :
  (ts = {} => ~lock) /\ world' = PttState(world, u, ts, lock)
Retargets == May("talks") /\ \E u \in Users : On(world, u) /\ \E ts \in TalkSets(u), slow \in BOOLEAN :
  world.waits[u] = "no" /\ world' = TargetsUpdated(world, u, ts, slow)
Speaks == May("talks") /\ \E u \in Users, slow \in BOOLEAN :
  On(world, u) /\ world.mic[u] = "none" /\ world' = Produce(world, u, slow)
Turns == May("talks") /\ \E u \in Users :
  \/ world.mic[u] = "live" /\ world' = SetPaused(world, u, "paused")
  \/ world.mic[u] = "paused" /\ world' = SetPaused(world, u, "live")
  \/ world.mic[u] # "none" /\ world' = CloseProducer(world, u)
Pushes == UNCHANGED left /\ \E u \in Users :
  \/ world.waits[u] # "no" /\ \E keeps \in BOOLEAN : world' = Pushed(world, u, keeps)
  \/ world.mic[u] # "none" /\ ~world.watched[u] /\ world' = [world EXCEPT !.watched[u] = TRUE]

Answers == May("talks") /\ \E u \in Users, lock \in BOOLEAN : On(world, u) /\ world' = CommandResult(world, u, lock)
Connects == UNCHANGED left /\ \E p \in world.prods : (world.multi \/ p = Primary(world)) /\ world' = Snapshot(world, p)
Cuts == May("cuts") /\ \E p \in world.prods, x \in Users \cup {Null} :
  (world.multi \/ p = Primary(world)) /\ (x # Null => InProduction(world, x, p)) /\ world' = CutCamera(world, p, x)

EditsMembers == May("edits") /\ \E u \in Users, p \in world.prods :
  IF InProduction(world, u, p) THEN world' = RemoveMember(world, u, p) ELSE world' = AddMember(world, u, p)
Deletes == May("edits") /\ Cardinality(world.prods) > 1 /\ \E p \in world.prods : world' = DeleteProduction(world, p)
EditsConference == May("edits") /\ 1 \in world.prods /\ \E u \in Users, mode \in {"none", "listen", "talk"} :
  /\ InProduction(world, u, 1)
  /\ world' = SetConference(world, u, mode) \/ (~world.multi /\ Primary(world) = 1 /\ world' = SetConferenceSingle(world, u, mode))
TurnsMultiple == May("edits") /\ world' = SetMultiple(world, ~world.multi)

Next == Comes \/ Goes \/ Switches \/ Announces \/ Retargets \/ Speaks \/ Turns \/ Pushes \/ Answers \/ Connects \/ Cuts
        \/ EditsMembers \/ Deletes \/ EditsConference \/ TurnsMultiple

Spec == Init /\ [][Next]_vars

(***************************************************************************)
(* Properties.                                                             *)
(***************************************************************************)
TypeOK ==
  /\ world.at \in [Users -> {Off, Null} \cup Productions]
  /\ world.mic \in [Users -> {"none", "paused", "live"}]
  /\ world.open \subseteq Productions /\ world.tally \in [Productions -> Users \cup {Null}]

(***************************************************************************)
(* While nothing is awaited, and unless something changed that the code    *)
(* tells nobody of, a companion knows of every user of its production who  *)
(* it talks to, who talks to it, whether it is locked and whether it is on *)
(* air there - the last but for a companion of another than the primary    *)
(* production whose last word of the user is the result of a command; and  *)
(* a page in a production is red exactly while its user is on the bus.     *)
(***************************************************************************)
Knows(w, p, u) ==
  LET heard == w.told[p][u]
      state == StateOf(w, p, u)
  IN  IF p # Primary(w) /\ <<p, u>> \in w.answered
      THEN \A f \in {"on", "to", "by", "locked"} : heard[f] = state[f]
      ELSE heard = state
ToldWhatHolds ==
  /\ (~world.untold /\ \A u \in Users : world.waits[u] = "no") =>
       \A p \in world.open \cap world.prods : \A u \in Users : InProduction(world, u, p) => Knows(world, p, u)
  /\ \A u \in Users : world.at[u] \notin {Off, Null} => (world.page[u] <=> world.tally[world.at[u]] = u)
==============================================================================
