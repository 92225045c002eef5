----------------------------- MODULE TalkRouting -----------------------------
(***************************************************************************)
(* The media routing of the server (serverCore.js): which operator is      *)
(* offered which talk producer, and which mediasoup consumers stay open    *)
(* while talk targets, productions, memberships and connections change.    *)
(*                                                                         *)
(* One action is one Socket.IO or HTTP handler, run to its end or to an    *)
(* await.  Clients are not modelled here: they may send any request in     *)
(* any order.  ListenerSync adds the clients and the network.              *)
(*                                                                         *)
(* Clients register a connection once, and talk and listen only after      *)
(* that; the handlers of a registered client are guarded by Registered.    *)
(* Peers are operators with a user account; feeds and bridge sessions are  *)
(* in Sessions, guests and producers of a fixed target nowhere.            *)
(***************************************************************************)
EXTENDS Naturals, Sequences, FiniteSets

CONSTANTS
  Sockets,      \* socket ids; one is never used for two connections
  Users,
  Conferences,
  Productions,
  Primary,      \* the production getPrimaryProduction returns
  Producers,    \* ids of talk producers
  ConsumerIds,
  TalkLists,    \* the target lists a client may send, <<>> among them
  Matrices,     \* the matrices the administrators may install
  Modes,        \* the values they may give to multipleProductions
  MaxPending,   \* bound: consume requests in flight for a peer and a producer
  None

Targets == [type : {"user"}, id : Users]
             \cup [type : {"conference"}, id : Conferences]

(* A matrix of the admin page: who belongs to which production, who is a   *)
(* member of which conference in it, and who may talk to the conference.   *)
MatrixType == [ users   : SUBSET (Users \X Productions),
                members : SUBSET (Users \X Conferences \X Productions),
                talkers : SUBSET (Users \X Conferences \X Productions) ]

ASSUME RoutingAssumption ==
  /\ Primary \in Productions
  /\ TalkLists \subseteq Seq(Targets)
  /\ <<>> \in TalkLists
  /\ Matrices \subseteq MatrixType
  /\ Modes \subseteq BOOLEAN
  /\ MaxPending \in Nat
  /\ None \notin Sockets \cup Users \cup Productions \cup Targets

VARIABLES
  link,         \* per socket: "unused", "open" (in the peers map) or "gone"
  user,         \* peer.userId
  production,   \* peer.productionId
  talkTargets,  \* peer.activeTalkTargets
  owner,        \* the peer that created a producer
  stage,        \* life of a producer, see Stages
  paused,       \* producer.paused
  deliveries,   \* producer.__recipientDeliveries
  consumers,    \* open consumers: id, recipient and producer
  consuming,    \* consume requests waiting for transport.consume
  stopping,     \* per peer: producers a forced stop is pausing
  matrix,       \* productions, memberships and talk rights (dbHandler.js)
  multi         \* runtime config multipleProductions

peerVars     == <<link, user, production, talkTargets>>
producerVars == <<owner, stage, paused>>
mediaVars    == <<deliveries, consumers, consuming>>
adminVars    == <<matrix, multi>>
vars == <<peerVars, producerVars, mediaVars, stopping, adminVars>>

(* "creating" waits for transport.produce; an "unhooked" producer is in    *)
(* peer.producers while the handler awaits the push notification, before   *)
(* the pause and resume listeners are attached.                            *)
Stages == {"new", "creating", "unhooked", "hooked", "closed"}

Consumer == [id : ConsumerIds, to : Sockets, of : Producers]

Live(p) == stage[p] \in {"unhooked", "hooked"}
LiveProducers == {p \in Producers : Live(p)}
Registered(s) == link[s] = "open" /\ user[s] # None

(***************************************************************************)
(* Resolving talk targets to recipients.                                   *)
(***************************************************************************)
SameProduction(a, b) ==
  \/ ~multi
  \/ production[a] = None
  \/ production[b] = None
  \/ production[a] = production[b]

EffectiveProduction(s) == IF production[s] = None THEN Primary ELSE production[s]

Member(s, k) == <<user[s], k, EffectiveProduction(s)>> \in matrix.members

MayTalk(a, t) ==
  \/ t.type = "user"
  \/ /\ Member(a, t.id)
     /\ \/ ~multi
        \/ production[a] = None
        \/ <<user[a], t.id, production[a]>> \in matrix.talkers

Reaches(a, t, s) ==
  /\ Registered(a) /\ Registered(s) /\ s # a
  /\ MayTalk(a, t)
  /\ \/ t.type = "user" /\ user[s] = t.id /\ SameProduction(a, s)
     \/ t.type = "conference" /\ Member(s, t.id)

(* A recipient several targets lead to is served under the first of them.  *)
FirstReaching(a, s) ==
  LET hits == {i \in DOMAIN talkTargets[a] : Reaches(a, talkTargets[a][i], s)}
  IN IF hits = {} THEN None
     ELSE talkTargets[a][CHOOSE i \in hits : \A j \in hits : i <= j]

Deliveries(p) == [s \in Sockets |-> FirstReaching(owner[p], s)]

(***************************************************************************)
(* syncProducerRecipients for the producers in P, in the state the handler *)
(* has reached: record the deliveries, and close the consumers of every    *)
(* recorded recipient whose delivery is withdrawn or changed.              *)
(***************************************************************************)
(* Faulty variants: only a dropped recipient, or each recorded one, loses  *)
(* its consumers.                                                          *)
WithdrawnOnlyWhenDropped(p, s) == deliveries[p][s] # None /\ deliveries'[p][s] = None
WithdrawnOnAnyUpdate(p, s) == deliveries[p][s] # None

Withdrawn(p, s) == deliveries[p][s] # None /\ deliveries'[p][s] # deliveries[p][s]

Sync(P) ==
  /\ deliveries' = [p \in Producers |-> IF p \in P THEN Deliveries(p)' ELSE deliveries[p]]
  /\ consumers' = {c \in consumers : ~ Withdrawn(c.of, c.to)}

(* Faulty variant: what is in flight for the closed media goes through.    *)
DropMediaButPending(P, S) ==
  /\ stage' = [p \in Producers |-> IF p \in P THEN "closed" ELSE stage[p]]
  /\ deliveries' = [p \in Producers |->
       IF p \in P THEN [s \in Sockets |-> None] ELSE deliveries[p]]
  /\ consumers' = {c \in consumers : c.of \notin P /\ c.to \notin S}
  /\ UNCHANGED <<owner, paused, consuming>>

(* The media a set of producers and a set of departing peers take along:   *)
(* mediasoup closes the consumers of a closed producer and of a closed     *)
(* transport, and refuses what was in flight for them.                     *)
DropMedia(P, S) ==
  /\ stage' = [p \in Producers |-> IF p \in P THEN "closed" ELSE stage[p]]
  /\ deliveries' = [p \in Producers |->
       IF p \in P THEN [s \in Sockets |-> None] ELSE deliveries[p]]
  /\ consumers' = {c \in consumers : c.of \notin P /\ c.to \notin S}
  /\ consuming' = [p \in Producers |-> [s \in Sockets |->
       IF p \in P \/ s \in S THEN 0 ELSE consuming[p][s]]]
  /\ UNCHANGED <<owner, paused>>

ProducersOf(S) == {p \in Producers : owner[p] \in S}

(***************************************************************************)
(* Connections and identity.                                               *)
(***************************************************************************)
Init ==
  /\ link = [s \in Sockets |-> "unused"]
  /\ user = [s \in Sockets |-> None]
  /\ production = [s \in Sockets |-> None]
  /\ talkTargets = [s \in Sockets |-> <<>>]
  /\ owner = [p \in Producers |-> None]
  /\ stage = [p \in Producers |-> "new"]
  /\ paused = [p \in Producers |-> FALSE]
  /\ deliveries = [p \in Producers |-> [s \in Sockets |-> None]]
  /\ consumers = {}
  /\ consuming = [p \in Producers |-> [s \in Sockets |-> 0]]
  /\ stopping = [s \in Sockets |-> {}]
  /\ matrix \in Matrices
  /\ multi \in Modes

Connect(s) ==
  /\ link[s] = "unused"
  /\ link' = [link EXCEPT ![s] = "open"]
  /\ UNCHANGED <<user, production, talkTargets, producerVars, mediaVars, stopping, adminVars>>

(* normalizeActiveProductionId: the production a peer ends up in.          *)
Selectable(u) ==
  {q \in Productions : <<u, q>> \in matrix.users /\ (multi \/ q = Primary)}

(* register-user of a user account.  A session that already holds the      *)
(* account is kicked (force) and its disconnect handler runs to its end    *)
(* first.  Nothing is routed again.                                        *)
RegisterUser(s, u, q) ==
  LET kicked == {x \in Sockets : user[x] = u} IN
  /\ link[s] = "open" /\ user[s] = None
  /\ q \in Selectable(u)
  /\ link' = [x \in Sockets |-> IF x \in kicked THEN "gone" ELSE link[x]]
  /\ user' = [x \in Sockets |->
       IF x = s THEN u ELSE IF x \in kicked THEN None ELSE user[x]]
  /\ production' = [x \in Sockets |->
       IF x = s THEN q ELSE IF x \in kicked THEN None ELSE production[x]]
  /\ talkTargets' = [x \in Sockets |-> IF x \in kicked THEN <<>> ELSE talkTargets[x]]
  /\ DropMedia(ProducersOf(kicked), kicked)
  /\ stopping' = [x \in Sockets |-> IF x \in kicked THEN {} ELSE stopping[x]]
  /\ UNCHANGED adminVars

(* The disconnect handler.  Producers of others keep the lost socket in    *)
(* their recorded deliveries.                                              *)
Disconnect(s) ==
  /\ link[s] = "open"
  /\ link' = [link EXCEPT ![s] = "gone"]
  /\ user' = [user EXCEPT ![s] = None]
  /\ production' = [production EXCEPT ![s] = None]
  /\ talkTargets' = [talkTargets EXCEPT ![s] = <<>>]
  /\ DropMedia(ProducersOf({s}), {s})
  /\ stopping' = [stopping EXCEPT ![s] = {}]
  /\ UNCHANGED adminVars

(* Faulty variant: only what the peer itself says is routed again.         *)
SetActiveProductionForSpeaker(s, q) ==
  /\ Registered(s)
  /\ q \in Selectable(user[s])
  /\ production' = [production EXCEPT ![s] = q]
  /\ UNCHANGED <<link, user, talkTargets, producerVars, consuming, stopping, adminVars>>
  /\ Sync({p \in LiveProducers : owner[p] = s})

SetActiveProduction(s, q) ==
  /\ Registered(s)
  /\ q \in Selectable(user[s])
  /\ production' = [production EXCEPT ![s] = q]
  /\ UNCHANGED <<link, user, talkTargets, producerVars, consuming, stopping, adminVars>>
  /\ Sync(LiveProducers)

(***************************************************************************)
(* Talking.                                                                *)
(***************************************************************************)
TalkProducersOf(s) == {p \in LiveProducers : owner[p] = s}

(* talk-targets-updated: an empty list is stored and routes nothing again, *)
(* so that the consumers survive until the next press.                     *)
TalkTargetsUpdated(s, list) ==
  /\ Registered(s)
  /\ talkTargets' = [talkTargets EXCEPT ![s] = list]
  /\ UNCHANGED <<link, user, production, producerVars, consuming, stopping, adminVars>>
  /\ IF list = <<>> THEN UNCHANGED <<deliveries, consumers>> ELSE Sync(TalkProducersOf(s))

(* ptt-state of a talking client stores the targets and routes nothing.    *)
PttState(s, list) ==
  /\ Registered(s)
  /\ list # <<>>
  /\ talkTargets' = [talkTargets EXCEPT ![s] = list]
  /\ UNCHANGED <<link, user, production, producerVars, mediaVars, stopping, adminVars>>

ProduceStart(s, p) ==
  /\ Registered(s)
  /\ stage[p] = "new"
  /\ owner' = [owner EXCEPT ![p] = s]
  /\ stage' = [stage EXCEPT ![p] = "creating"]
  /\ UNCHANGED <<peerVars, paused, mediaVars, stopping, adminVars>>

(* Faulty variant: a producer closed in the meantime is stored all the     *)
(* same.                                                                   *)
ProduceDoneAfterClose(p) ==
  /\ stage[p] \in {"creating", "closed"}
  /\ stage' = [stage EXCEPT ![p] = "unhooked"]
  /\ UNCHANGED <<peerVars, owner, paused, consuming, stopping, adminVars>>
  /\ Sync({p})

ProduceDone(p) ==
  /\ stage[p] = "creating"
  /\ stage' = [stage EXCEPT ![p] = "unhooked"]
  /\ UNCHANGED <<peerVars, owner, paused, consuming, stopping, adminVars>>
  /\ Sync({p})

HookListeners(p) ==
  /\ stage[p] = "unhooked"
  /\ stage' = [stage EXCEPT ![p] = "hooked"]
  /\ UNCHANGED <<peerVars, owner, paused, mediaVars, stopping, adminVars>>

PauseProducer(p) ==
  /\ Live(p)
  /\ paused' = [paused EXCEPT ![p] = TRUE]
  /\ UNCHANGED <<peerVars, owner, stage, mediaVars, stopping, adminVars>>

(* The resume listener announces the producer again, once it is attached   *)
(* and only when the producer really was paused.                           *)
ResumeProducer(p) ==
  /\ Live(p)
  /\ paused' = [paused EXCEPT ![p] = FALSE]
  /\ UNCHANGED <<peerVars, owner, stage, consuming, stopping, adminVars>>
  /\ IF stage[p] = "hooked" /\ paused[p] THEN Sync({p}) ELSE UNCHANGED <<deliveries, consumers>>

ProducerClose(p) ==
  /\ Live(p)
  /\ DropMedia({p}, {})
  /\ UNCHANGED <<peerVars, stopping, adminVars>>

(* forceStopUserTransmission: the targets are cleared at once; the rest    *)
(* happens when the pauses of the producers of that moment are answered.   *)
(* Bound: one forced stop of a peer at a time.                             *)
ForceStopBegin(s) ==
  /\ Registered(s)
  /\ stopping[s] = {}
  /\ talkTargets' = [talkTargets EXCEPT ![s] = <<>>]
  /\ stopping' = [stopping EXCEPT ![s] = TalkProducersOf(s)]
  /\ UNCHANGED <<link, user, production, producerVars, mediaVars, adminVars>>

(* Faulty variant: the stopped producers are not routed again.             *)
ForceStopEndWithoutRouting(s) ==
  LET stopped == stopping[s] \cap LiveProducers IN
  /\ stopping[s] # {}
  /\ stopping' = [stopping EXCEPT ![s] = {}]
  /\ paused' = [p \in Producers |-> paused[p] \/ p \in stopped]
  /\ UNCHANGED <<peerVars, owner, stage, mediaVars, adminVars>>

ForceStopEnd(s) ==
  LET stopped == stopping[s] \cap LiveProducers IN
  /\ stopping[s] # {}
  /\ stopping' = [stopping EXCEPT ![s] = {}]
  /\ paused' = [p \in Producers |-> paused[p] \/ p \in stopped]
  /\ UNCHANGED <<peerVars, owner, stage, consuming, adminVars>>
  /\ Sync(stopped)

(***************************************************************************)
(* Listening.                                                              *)
(***************************************************************************)
(* The consume handler up to its await closes the consumers the peer       *)
(* already has of this producer.                                           *)
ConsumeStart(s, p) ==
  /\ Registered(s)
  /\ Live(p) /\ owner[p] # s
  /\ consuming[p][s] < MaxPending
  /\ consuming' = [consuming EXCEPT ![p][s] = @ + 1]
  /\ consumers' = {c \in consumers : ~ (c.to = s /\ c.of = p)}
  /\ UNCHANGED <<peerVars, producerVars, deliveries, stopping, adminVars>>

(* Faulty variant: a request is answered more than once.                   *)
ConsumeDoneAgain(s, p, id) ==
  /\ Live(p) /\ Registered(s) /\ owner[p] # s
  /\ \A c \in consumers : c.id # id
  /\ consuming' = [consuming EXCEPT ![p][s] = @ - 1]
  /\ consumers' = consumers \cup {[id |-> id, to |-> s, of |-> p]}
  /\ UNCHANGED <<peerVars, producerVars, deliveries, stopping, adminVars>>

(* After the await the consumer is stored; whether the peer still receives *)
(* the producer is not looked at again.                                    *)
ConsumeDone(s, p, id) ==
  /\ consuming[p][s] > 0
  /\ \A c \in consumers : c.id # id
  /\ consuming' = [consuming EXCEPT ![p][s] = @ - 1]
  /\ consumers' = consumers \cup {[id |-> id, to |-> s, of |-> p]}
  /\ UNCHANGED <<peerVars, producerVars, deliveries, stopping, adminVars>>

CloseConsumer(c) ==
  /\ c \in consumers
  /\ consumers' = consumers \ {c}
  /\ UNCHANGED <<peerVars, producerVars, deliveries, consuming, stopping, adminVars>>

(***************************************************************************)
(* Administration.                                                         *)
(***************************************************************************)
(* Faulty variant: an edit routes nothing again. *)
EditMatrixWithoutRouting(m) ==
  /\ matrix' = m
  /\ UNCHANGED <<peerVars, producerVars, mediaVars, stopping, multi>>

(* A change in the matrix.  Peers whose production was taken from them     *)
(* fall back to another of the user's (resetPeersUsingProduction), and     *)
(* every producer is routed again.                                         *)
EditMatrix(m) ==
  /\ matrix' = m
  /\ production' \in [Sockets -> Productions \cup {None}]
  /\ \A s \in Sockets :
       IF Registered(s) /\ production[s] # None /\ <<user[s], production[s]>> \notin m.users
       THEN IF \E q \in Productions : <<user[s], q>> \in m.users
            THEN <<user[s], production'[s]>> \in m.users
            ELSE production'[s] = None
       ELSE production'[s] = production[s]
  /\ UNCHANGED <<link, user, talkTargets, producerVars, consuming, stopping, multi>>
  /\ Sync(LiveProducers)

(* PUT /admin/settings/multiple-productions.  Switching off moves every    *)
(* operator to the primary production and routes again; switching on only  *)
(* saves the setting.                                                      *)
SetMultipleProductions(on) ==
  /\ on \in Modes
  /\ multi' = on
  /\ UNCHANGED <<link, user, talkTargets, producerVars, consuming, stopping, matrix>>
  /\ IF on
     THEN UNCHANGED <<production, deliveries, consumers>>
     ELSE /\ production' = [s \in Sockets |-> IF link[s] = "open" THEN Primary ELSE production[s]]
          /\ Sync(LiveProducers)

(***************************************************************************)
(* The specification.                                                      *)
(***************************************************************************)
PeerStep(s) ==
  \/ Connect(s)
  \/ Disconnect(s)
  \/ \E u \in Users, q \in Productions : RegisterUser(s, u, q)
  \/ \E q \in Productions : SetActiveProduction(s, q)
  \/ \E list \in TalkLists : TalkTargetsUpdated(s, list)
  \/ \E list \in TalkLists : PttState(s, list)
  \/ ForceStopBegin(s)
  \/ ForceStopEnd(s)

MediaStep(p) ==
  \/ \E s \in Sockets : ProduceStart(s, p)
  \/ ProduceDone(p)
  \/ HookListeners(p)
  \/ PauseProducer(p)
  \/ ResumeProducer(p)
  \/ ProducerClose(p)
  \/ \E s \in Sockets : ConsumeStart(s, p)
  \/ \E s \in Sockets, id \in ConsumerIds : ConsumeDone(s, p, id)

Next ==
  \/ \E s \in Sockets : PeerStep(s)
  \/ \E p \in Producers : MediaStep(p)
  \/ \E c \in consumers : CloseConsumer(c)
  \/ \E m \in Matrices : EditMatrix(m)
  \/ \E on \in Modes : SetMultipleProductions(on)

Spec == Init /\ [][Next]_vars

(***************************************************************************)
(* Correctness.                                                            *)
(***************************************************************************)
(* Every variable has its type; recorded deliveries name targets.          *)
TypeOK ==
  /\ link \in [Sockets -> {"unused", "open", "gone"}]
  /\ user \in [Sockets -> Users \cup {None}]
  /\ production \in [Sockets -> Productions \cup {None}]
  /\ talkTargets \in [Sockets -> TalkLists]
  /\ owner \in [Producers -> Sockets \cup {None}]
  /\ stage \in [Producers -> Stages]
  /\ paused \in [Producers -> BOOLEAN]
  /\ deliveries \in [Producers -> [Sockets -> Targets \cup {None}]]
  /\ consumers \subseteq Consumer
  /\ consuming \in [Producers -> [Sockets -> 0 .. MaxPending]]
  /\ stopping \in [Sockets -> SUBSET Producers]
  /\ matrix \in Matrices
  /\ multi \in Modes

(* The bookkeeping the routing relies on: who can still speak is connected *)
(* and registered; a pending consume has live ends; a producer that cannot *)
(* be heard is routed to nobody, and a recorded recipient is registered or *)
(* gone for good; a forced stop works on producers of its own peer.        *)
Bookkeeping ==
  /\ \A s \in Sockets : link[s] # "open" => user[s] = None
  /\ \A p \in Producers :
       stage[p] = "creating" \/ Live(p) => owner[p] \in Sockets /\ Registered(owner[p])
  /\ \A p \in Producers, s \in Sockets :
       consuming[p][s] > 0 => Live(p) /\ link[s] = "open" /\ owner[p] # s
  /\ \A p \in Producers, s \in Sockets :
       deliveries[p][s] # None => Live(p) /\ (Registered(s) \/ link[s] = "gone")
  /\ \A s \in Sockets : \A p \in stopping[s] :
       owner[p] = s /\ stage[p] \in {"unhooked", "hooked", "closed"}

(* No consumer outlives an end: whatever disconnects, takeovers and closed *)
(* producers come between a consume request and its answer, the producer   *)
(* of a stored consumer is live and belongs to a connected peer other than *)
(* its recipient, who is connected too.                                    *)
ConsumersHaveLiveEnds ==
  \A c \in consumers :
    /\ link[c.to] = "open"
    /\ Live(c.of) /\ link[owner[c.of]] = "open" /\ owner[c.of] # c.to

Routed(p, s) == Live(p) /\ link[s] = "open" /\ deliveries[p][s] # None

(* A recorded delivery still goes to the peer the target names: through    *)
(* logins, takeovers, production switches and edits of the matrix, the     *)
(* recipient is the addressed user or a member of the addressed conference *)
(* in the production it works in now.                                      *)
DeliveriesReachTheAddressed ==
  \A p \in Producers, s \in Sockets :
    Routed(p, s) =>
      \/ deliveries[p][s].type = "user" /\ user[s] = deliveries[p][s].id
      \/ deliveries[p][s].type = "conference" /\ Member(s, deliveries[p][s].id)

(* Direct audio remains scoped to the active production: speaker and       *)
(* recipient of a recorded direct delivery work in the same production     *)
(* whatever they switched to since the delivery was made.                  *)
DirectAudioStaysInProduction ==
  \A p \in Producers, s \in Sockets :
    Routed(p, s) /\ deliveries[p][s].type = "user" => SameProduction(owner[p], s)

(* A recipient moved from one target of a speaker to another, or to none,  *)
(* loses the consumers it had, so that audio never continues under the     *)
(* old target: the client must consume anew.                               *)
ChangeCloses ==
  \A c \in consumers :
    LET before == deliveries[c.of][c.to]
    IN  before # None /\ deliveries'[c.of][c.to] # before => c \notin consumers'

ChangedDeliveryClosesConsumers == [][ChangeCloses]_vars

(* A listener is never torn down without a reason: while both ends stay,   *)
(* a consumer closes only because its delivery changed or its client asked *)
(* (consumed again or closed it).  In particular the release and the next  *)
(* press of the same target keep it.                                       *)
TeardownHasReason ==
  \A c \in consumers \ consumers' :
    \/ stage'[c.of] = "closed"
    \/ link'[c.to] # "open"
    \/ deliveries'[c.of][c.to] # deliveries[c.of][c.to]
    \/ ConsumeStart(c.to, c.of)
    \/ CloseConsumer(c)

NoSpuriousTeardown == [][TeardownHasReason]_vars

(* A forced stop silences: when it ends and the speaker has not pressed    *)
(* again while the pauses were awaited, each producer it stopped is paused *)
(* or closed and routed to nobody, and its recorded listeners are closed.  *)
StopSilences ==
  \A s \in Sockets :
    stopping[s] # {} /\ stopping'[s] = {} /\ talkTargets'[s] = <<>> =>
      \A p \in stopping[s] :
        /\ stage'[p] = "closed" \/ paused'[p]
        /\ \A r \in Sockets : deliveries'[p][r] = None
        /\ \A c \in consumers' : c.of = p => deliveries[p][c.to] = None

ForcedStopSilences == [][StopSilences]_vars

=============================================================================
