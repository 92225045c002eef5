----------------------------- MODULE ListenerSync -----------------------------
(***************************************************************************)
(* The browser listener (public/client.js) against the media routing of    *)
(* the server.  Every step of the server is a step of TalkRouting together *)
(* with the messages it sends; every step of a client leaves the server    *)
(* alone.  Socket.IO delivers the messages of a connection in order.       *)
(*                                                                         *)
(* A listener handles messages once it is registered: until its transports *)
(* are ready it queues announcements (pendingProducerQueue).               *)
(***************************************************************************)
EXTENDS TalkRouting, SequencesExt

CONSTANTS
  Speakers,    \* the sockets of this instance that talk
  Listeners,   \* the sockets of this instance that listen
  Accounts,    \* per socket: the accounts it may log in to
  MaxInbox,    \* bound: messages on their way to a listener
  MaxOutbox    \* bound: requests on their way to the server

ASSUME RolesAssumption ==
  /\ Speakers \subseteq Sockets /\ Listeners \subseteq Sockets
  /\ Speakers \cap Listeners = {}
  /\ Accounts \in [Sockets -> SUBSET Users]
  /\ MaxInbox \in Nat /\ MaxOutbox \in Nat

VARIABLES
  toClient,   \* per listener: messages of the server
  toServer,   \* per listener: its requests
  serving,    \* per listener: streams the server is creating a consumer for
  streams,    \* targetStreamMap, peerConsumers: stream to consumer id
  pending,    \* pendingIncomingConsumeKeys: stream to what is awaited, "asked"
              \* or "resuming", or the id recvTransport.consume works on
  early,      \* earlyClosedConsumerIds
  sync        \* the run of requestActiveProducers

clientVars == <<streams, pending, early, sync>>
netVars    == <<toClient, toServer, serving>>
allVars    == <<vars, netVars, clientVars>>

(* A stream key: the target a producer is heard under, and the producer.   *)
(* The client keys a direct stream by its speaker; at one listener that is *)
(* the same, for the only user target that leads to it is its own user.    *)
Streams == Targets \X Producers

(* Runs of requestActiveProducers: the streams left to consume, the listed *)
(* ones, and the one whose consume is awaited.                             *)
Runs == [ state : {"idle", "asked", "working"}, todo : SUBSET Streams,
          expected : SUBSET Streams, awaits : SUBSET Streams ]

NoSync == [state |-> "idle", todo |-> {}, expected |-> {}, awaits |-> {}]
Asked  == [NoSync EXCEPT !.state = "asked"]
Working(todo, expected, awaits) ==
  [state |-> "working", todo |-> todo, expected |-> expected, awaits |-> awaits]

(* The messages of the server, an answer to a request among them. *)
Entries == [stream : Streams, retain : BOOLEAN]

ToClient ==
  [type : {"consumer-closed"}, id : ConsumerIds]
    \cup [type : {"new-producer", "refused", "resumed"}, stream : Streams]
    \cup [type : {"consumed"}, stream : Streams, id : ConsumerIds]
    \cup [type : {"active-producers"}, entries : SUBSET Entries]

Closed(id)      == [type |-> "consumer-closed", id |-> id]
Offer(x)        == [type |-> "new-producer", stream |-> x]
Answer(x, id)   == [type |-> "consumed", stream |-> x, id |-> id]
Refusal(x)      == [type |-> "refused", stream |-> x]
Resumed(x)      == [type |-> "resumed", stream |-> x]
Active(entries) == [type |-> "active-producers", entries |-> entries]

(* The requests of a client. *)
ToServer ==
  [type : {"consume", "resume-consumer"}, stream : Streams]
    \cup [type : {"close-consumer"}, id : ConsumerIds]
    \cup [type : {"request-active-producers"}]

Consume(x)  == [type |-> "consume", stream |-> x]
Resume(x)   == [type |-> "resume-consumer", stream |-> x]
Close(id)   == [type |-> "close-consumer", id |-> id]
ListRequest == [type |-> "request-active-producers"]

ASSUME MessagesAssumption == IsFiniteSet(ToClient) /\ IsFiniteSet(ToServer)

(* What a pending stream waits for is told from a consumer's id. *)
ASSUME IdsAssumption == {"asked", "resuming"} \cap ConsumerIds = {}

(***************************************************************************)
(* The server: a step of TalkRouting and what it emits.                    *)
(***************************************************************************)
Closings(s) == {Closed(c.id) : c \in {d \in consumers \ consumers' : d.to = s}}

(* syncProducerRecipients announces a new or changed delivery, and any     *)
(* delivery of the producers in forced.                                    *)
Offers(s, forced) ==
  {Offer(<<deliveries'[p][s], p>>) : p \in {r \in Producers :
     deliveries'[r][s] # None /\ (r \in forced \/ deliveries'[r][s] # deliveries[r][s])}}

Refused(s) == {x \in serving[s] : consuming'[x[2]][s] = 0}

Emit(forced) ==
  /\ toClient' = [s \in Listeners |->
       IF link'[s] = "open"
       THEN toClient[s] \o SetToSeq(Closings(s)) \o SetToSeq(Offers(s, forced))
              \o SetToSeq({Refusal(x) : x \in Refused(s)})
       ELSE <<>>]
  /\ \A s \in Listeners : Len(toClient'[s]) <= MaxInbox
  /\ serving' = [s \in Listeners |-> serving[s] \ Refused(s)]

(* A client whose connection is lost starts over on another socket.        *)
DropClients ==
  LET Up(f, empty) == [s \in Listeners |-> IF link'[s] = "open" THEN f[s] ELSE empty] IN
  /\ toServer' = Up(toServer, <<>>)
  /\ streams' = Up(streams, <<>>)
  /\ pending' = Up(pending, <<>>)
  /\ early' = Up(early, {})
  /\ sync' = Up(sync, NoSync)

Server(forced) == Emit(forced) /\ DropClients

Connecting(s) == (Connect(s) \/ Disconnect(s)) /\ Server({})

Registering(s) == \E u \in Accounts[s], q \in Productions : RegisterUser(s, u, q) /\ Server({})

SwitchingProduction(s) ==
  \E q \in Productions : SetActiveProduction(s, q) /\ Server(LiveProducers)

Talking(s) ==
  /\ s \in Speakers
  /\ \/ \E list \in TalkLists : TalkTargetsUpdated(s, list) \/ PttState(s, list)
     \/ ForceStopBegin(s)
     \/ ForceStopEnd(s)
     \/ \E p \in Producers : ProduceStart(s, p)
  /\ Server({})

Producing(p) ==
  /\ ProduceDone(p) \/ HookListeners(p) \/ PauseProducer(p) \/ ProducerClose(p)
  /\ Server({})

Resuming(p) ==
  /\ ResumeProducer(p)
  /\ Server(IF stage[p] = "hooked" /\ paused[p] THEN {p} ELSE {})

Administering ==
  /\ \/ \E m \in Matrices : EditMatrix(m)
     \/ \E on \in Modes : SetMultipleProductions(on)
  /\ Server({})

(* Consumer ids are never used again while anyone remembers them.          *)
Remembered(s) ==
  Range(streams[s]) \cup Range(pending[s])
    \cup early[s] \cup {m.id : m \in {n \in ToSet(toClient[s]) : n.type \in {"consumer-closed", "consumed"}}}
    \cup {m.id : m \in {n \in ToSet(toServer[s]) : n.type = "close-consumer"}}

FinishConsume(s) ==
  \E x \in serving[s], id \in ConsumerIds \ UNION {Remembered(l) : l \in Listeners} :
    /\ ConsumeDone(s, x[2], id)
    /\ toClient' = [toClient EXCEPT ![s] = Append(@, Answer(x, id))]
    /\ serving' = [serving EXCEPT ![s] = @ \ {x}]
    /\ UNCHANGED <<toServer, clientVars>>

(* What request-active-producers answers: a producer that is paused, or    *)
(* has no target for the moment, is listed while its last delivery is      *)
(* recorded, to be retained only.                                          *)
ActiveTarget(p, s) == IF Live(p) /\ ~ paused[p] THEN FirstReaching(owner[p], s) ELSE None

Entry(p, s) ==
  LET active == ActiveTarget(p, s)
      target == IF active # None THEN active ELSE deliveries[p][s]
  IN  IF target = None THEN {} ELSE {[stream |-> <<target, p>>, retain |-> active = None]}

ServeConsume(s) ==
  LET x == Head(toServer[s]).stream IN
  /\ toServer[s] # <<>> /\ Head(toServer[s]).type = "consume"
  /\ toServer' = [toServer EXCEPT ![s] = Tail(@)]
  /\ UNCHANGED clientVars
  /\ \/ /\ ConsumeStart(s, x[2])
        /\ serving' = [serving EXCEPT ![s] = @ \cup {x}]
        /\ UNCHANGED toClient
     \/ /\ ~ Live(x[2])
        /\ toClient' = [toClient EXCEPT ![s] = Append(@, Refusal(x))]
        /\ UNCHANGED <<serving, vars>>

ServeResume(s) ==
  /\ toServer[s] # <<>> /\ Head(toServer[s]).type = "resume-consumer"
  /\ toServer' = [toServer EXCEPT ![s] = Tail(@)]
  /\ toClient' = [toClient EXCEPT ![s] = Append(@, Resumed(Head(toServer[s]).stream))]
  /\ UNCHANGED <<serving, clientVars, vars>>

ServeClose(s) ==
  /\ toServer[s] # <<>> /\ Head(toServer[s]).type = "close-consumer"
  /\ toServer' = [toServer EXCEPT ![s] = Tail(@)]
  /\ IF \E c \in consumers : c.to = s /\ c.id = Head(toServer[s]).id
     THEN \E c \in consumers : c.to = s /\ c.id = Head(toServer[s]).id /\ CloseConsumer(c)
     ELSE UNCHANGED vars
  /\ UNCHANGED <<toClient, serving, clientVars>>

ServeList(s) ==
  /\ toServer[s] # <<>> /\ Head(toServer[s]).type = "request-active-producers"
  /\ toServer' = [toServer EXCEPT ![s] = Tail(@)]
  /\ toClient' = [toClient EXCEPT ![s] = Append(@, Active(UNION {Entry(p, s) : p \in Producers}))]
  /\ UNCHANGED <<serving, clientVars, vars>>

(***************************************************************************)
(* The client.                                                             *)
(***************************************************************************)
Forget(f, X) == [x \in DOMAIN f \ X |-> f[x]]
Put(f, x, v) == [y \in DOMAIN f \cup {x} |-> IF y = x THEN v ELSE f[y]]

Send(s, requests) ==
  /\ toServer' = [toServer EXCEPT ![s] = @ \o requests]
  /\ Len(toServer'[s]) <= MaxOutbox

Receive(s, type) ==
  /\ Registered(s)
  /\ toClient[s] # <<>> /\ Head(toClient[s]).type = type
  /\ toClient' = [toClient EXCEPT ![s] = Tail(@)]
  /\ UNCHANGED <<vars, serving>>

Known(s, x) == x \in DOMAIN streams[s] \cup DOMAIN pending[s]

Opening(s) == {x \in DOMAIN pending[s] : pending[s][x] \in ConsumerIds}

(* consumeProducerPayload up to the request. *)
AskFor(s, x) ==
  /\ pending' = [pending EXCEPT ![s] = Put(@, x, "asked")]
  /\ Send(s, <<Consume(x)>>)

NewProducer(s) ==
  LET x == Head(toClient[s]).stream IN
  /\ Receive(s, "new-producer")
  /\ UNCHANGED <<streams, early, sync>>
  /\ IF Known(s, x) THEN UNCHANGED <<pending, toServer>> ELSE AskFor(s, x)

(* A close of a consumer that is not registered starts a reconciliation,   *)
(* unless one is running, and is remembered for the case that the consumer *)
(* is being opened: the answer to a request precedes the consumer's close, *)
(* so the other ids that are remembered are never looked up again.         *)
ConsumerClosed(s) ==
  LET id == Head(toClient[s]).id
      closed == {x \in DOMAIN streams[s] : streams[s][x] = id}
  IN
  /\ Receive(s, "consumer-closed")
  /\ UNCHANGED pending
  /\ IF closed # {}
     THEN /\ streams' = [streams EXCEPT ![s] = Forget(@, closed)]
          /\ Send(s, <<Close(id)>>)
          /\ UNCHANGED <<early, sync>>
     ELSE /\ early' = [early EXCEPT ![s] = @ \cup ({id} \cap Range(pending[s]))]
          /\ UNCHANGED streams
          /\ IF sync[s].state = "idle"
             THEN sync' = [sync EXCEPT ![s] = Asked] /\ Send(s, <<ListRequest>>)
             ELSE UNCHANGED <<sync, toServer>>

(* Faulty variant: an answered request stays pending as it was asked. *)
ConsumeAnsweredWithoutId(s) ==
  LET answer == Head(toClient[s]) IN
  /\ Receive(s, "consumed")
  /\ pending' = [pending EXCEPT ![s] = Put(@, answer.stream, None)]
  /\ UNCHANGED <<toServer, streams, early, sync>>

ConsumeAnswered(s) ==
  LET answer == Head(toClient[s]) IN
  /\ Receive(s, "consumed")
  /\ pending' = [pending EXCEPT ![s] = Put(@, answer.stream, answer.id)]
  /\ UNCHANGED <<toServer, streams, early, sync>>

ConsumeRefused(s) ==
  /\ Receive(s, "refused")
  /\ pending' = [pending EXCEPT ![s] = Forget(@, {Head(toClient[s]).stream})]
  /\ UNCHANGED <<toServer, streams, early, sync>>

(* Faulty variant: a remembered close is not looked up. *)
OpenStreamRegardless(s) ==
  \E x \in Opening(s) :
    /\ pending' = [pending EXCEPT ![s] = Put(@, x, "resuming")]
    /\ streams' = [streams EXCEPT ![s] = Put(@, x, pending[s][x])]
    /\ Send(s, <<Resume(x)>>)
    /\ UNCHANGED <<early, sync, toClient, serving, vars>>

(* recvTransport.consume is done: unless the consumer was closed in the    *)
(* meantime the stream is registered, and stays pending until the server   *)
(* has resumed the consumer.                                               *)
OpenStream(s) ==
  \E x \in Opening(s) :
    LET id == pending[s][x] IN
    /\ early' = [early EXCEPT ![s] = @ \ {id}]
    /\ IF id \in early[s] \/ x \in DOMAIN streams[s]
       THEN /\ pending' = [pending EXCEPT ![s] = Forget(@, {x})]
            /\ UNCHANGED streams
            /\ Send(s, <<Close(id)>>)
       ELSE /\ pending' = [pending EXCEPT ![s] = Put(@, x, "resuming")]
            /\ streams' = [streams EXCEPT ![s] = Put(@, x, id)]
            /\ Send(s, <<Resume(x)>>)
    /\ UNCHANGED <<sync, toClient, serving, vars>>

ConsumerResumed(s) ==
  /\ Receive(s, "resumed")
  /\ pending' = [pending EXCEPT ![s] = Forget(@, {Head(toClient[s]).stream})]
  /\ UNCHANGED <<toServer, streams, early, sync>>

(* The interval timer of startActiveProducerSync. *)
StartSync(s) ==
  /\ Registered(s) /\ sync[s].state = "idle"
  /\ sync' = [sync EXCEPT ![s] = Asked]
  /\ Send(s, <<ListRequest>>)
  /\ UNCHANGED <<toClient, serving, streams, pending, early, vars>>

(* Faulty variants: the end of a reconciliation keeps the streams that were *)
(* not listed, or forgets them without telling the server.                 *)
AdvanceKeeping(s, todo, expected) ==
  LET unknown == {x \in todo : ~ Known(s, x)} IN
  /\ UNCHANGED early
  /\ \/ \E x \in unknown, skipped \in SUBSET (todo \ unknown) :
          /\ sync' = [sync EXCEPT ![s] = Working(todo \ (skipped \cup {x}), expected, {x})]
          /\ AskFor(s, x)
          /\ UNCHANGED streams
     \/ /\ unknown = {}
        /\ sync' = [sync EXCEPT ![s] = NoSync]
        /\ UNCHANGED <<pending, streams, toServer>>

AdvanceForgetting(s, todo, expected) ==
  LET unknown  == {x \in todo : ~ Known(s, x)}
      unlisted == DOMAIN streams[s] \ expected
  IN
  /\ UNCHANGED early
  /\ \/ \E x \in unknown, skipped \in SUBSET (todo \ unknown) :
          /\ sync' = [sync EXCEPT ![s] = Working(todo \ (skipped \cup {x}), expected, {x})]
          /\ AskFor(s, x)
          /\ UNCHANGED streams
     \/ /\ unknown = {}
        /\ sync' = [sync EXCEPT ![s] = NoSync]
        /\ streams' = [streams EXCEPT ![s] = Forget(@, unlisted)]
        /\ UNCHANGED <<pending, toServer>>

(* The loop over the listed streams, up to the next await or to its end,   *)
(* where every stream that was not listed is closed.                       *)
Advance(s, todo, expected) ==
  LET unknown  == {x \in todo : ~ Known(s, x)}
      unlisted == DOMAIN streams[s] \ expected
  IN
  /\ UNCHANGED early
  /\ \/ \E x \in unknown, skipped \in SUBSET (todo \ unknown) :
          /\ sync' = [sync EXCEPT ![s] = Working(todo \ (skipped \cup {x}), expected, {x})]
          /\ AskFor(s, x)
          /\ UNCHANGED streams
     \/ /\ unknown = {}
        /\ sync' = [sync EXCEPT ![s] = NoSync]
        /\ streams' = [streams EXCEPT ![s] = Forget(@, unlisted)]
        /\ Send(s, SetToSeq({Close(streams[s][x]) : x \in unlisted}))
        /\ UNCHANGED pending

ListAnswered(s) ==
  LET entries == Head(toClient[s]).entries IN
  /\ Receive(s, "active-producers")
  /\ Advance(s, {e.stream : e \in {d \in entries : ~ d.retain}}, {e.stream : e \in entries})

SyncOn(s) ==
  /\ sync[s].state = "working"
  /\ sync[s].awaits \cap DOMAIN pending[s] = {}
  /\ Advance(s, sync[s].todo, sync[s].expected)
  /\ UNCHANGED <<toClient, serving, vars>>

(***************************************************************************)
(* The specification.                                                      *)
(***************************************************************************)
SyncInit ==
  /\ Init
  /\ toClient = [s \in Listeners |-> <<>>]
  /\ toServer = [s \in Listeners |-> <<>>]
  /\ serving = [s \in Listeners |-> {}]
  /\ streams = [s \in Listeners |-> <<>>]
  /\ pending = [s \in Listeners |-> <<>>]
  /\ early = [s \in Listeners |-> {}]
  /\ sync = [s \in Listeners |-> NoSync]

Environment ==
  \/ \E s \in Sockets : Connecting(s) \/ Registering(s) \/ SwitchingProduction(s) \/ Talking(s)
  \/ \E p \in Producers : Producing(p) \/ Resuming(p)
  \/ Administering

ServerTurn(s) == ServeConsume(s) \/ ServeResume(s) \/ ServeClose(s) \/ ServeList(s)

ClientTurn(s) ==
  \/ NewProducer(s) \/ ConsumerClosed(s) \/ ListAnswered(s)
  \/ ConsumeAnswered(s) \/ ConsumeRefused(s) \/ ConsumerResumed(s)

SyncNextState ==
  \/ Environment
  \/ \E s \in Listeners :
       \/ ServerTurn(s) \/ FinishConsume(s) \/ ClientTurn(s)
       \/ OpenStream(s) \/ StartSync(s) \/ SyncOn(s)

SyncSpec == SyncInit /\ [][SyncNextState]_allVars

(* Messages arrive, promises settle and the interval timer keeps firing;   *)
(* nobody has to talk, to connect or to administer.                        *)
Fairness ==
  \A s \in Listeners :
    /\ WF_allVars(ServerTurn(s)) /\ WF_allVars(FinishConsume(s)) /\ WF_allVars(ClientTurn(s))
    /\ WF_allVars(OpenStream(s)) /\ WF_allVars(StartSync(s)) /\ WF_allVars(SyncOn(s))

LiveSpec == SyncSpec /\ Fairness

(***************************************************************************)
(* Correctness.                                                            *)
(***************************************************************************)
(* Every variable has its type: what is on its way are messages of the     *)
(* protocol, and clients know streams by ids of consumers.                 *)
SyncTypeOK ==
  /\ toClient \in [Listeners -> Seq(ToClient)]
  /\ toServer \in [Listeners -> Seq(ToServer)]
  /\ serving \in [Listeners -> SUBSET Streams]
  /\ early \in [Listeners -> SUBSET ConsumerIds]
  /\ sync \in [Listeners -> Runs]
  /\ DOMAIN streams = Listeners /\ DOMAIN pending = Listeners
  /\ \A s \in Listeners :
       /\ DOMAIN streams[s] \subseteq Streams /\ Range(streams[s]) \subseteq ConsumerIds
       /\ DOMAIN pending[s] \subseteq Streams
       /\ Range(pending[s]) \subseteq ConsumerIds \cup {"asked", "resuming"}

Serves(s, x, id) == [id |-> id, to |-> s, of |-> x[2]] \in consumers

(* What a listener hears of a producer: streams over open consumers. *)
Heard(s, p) == {x \in DOMAIN streams[s] : x[2] = p /\ Serves(s, x, streams[s][x])}

Consumed(s, p) == {c \in consumers : c.to = s /\ c.of = p}

Addressed(s, x) == Registered(s) /\ [stream |-> x, retain |-> FALSE] \in Entry(x[2], s)

(* Nothing of the listener is on its way or awaited. *)
Quiet(s) ==
  toClient[s] = <<>> /\ toServer[s] = <<>> /\ serving[s] = {} /\ pending[s] = <<>>

(* No consumer leaks: whatever announcements, withdrawals, answers and     *)
(* reconciliations overtake each other, once nothing is on its way the     *)
(* server runs no consumer for a listener that its client does not know,   *)
(* and so would never close.                                               *)
NothingLeaks ==
  \A s \in Listeners : Quiet(s) =>
    \A c \in consumers : c.to = s => c.id \in Range(streams[s])

(* A listener the server goes on addressing under one target comes to hear *)
(* the speaker under it, over exactly one consumer, and goes on hearing,   *)
(* although announcements and answers arrive in any order with withdrawals *)
(* and nobody repeats them: the periodic reconciliation makes up for it.   *)
AddressedIsHeard ==
  \A s \in Listeners, x \in Streams :
    <>[]Addressed(s, x) => <>[](Heard(s, x[2]) = {x} /\ Cardinality(Consumed(s, x[2])) = 1)

(* Speaking to a conference reaches its members: a member the server       *)
(* addresses hears the speaker wherever nothing is left to do, no message, *)
(* no answer, and no stream the next reconciliation would open or close.   *)
Settled(s) ==
  /\ Quiet(s) /\ sync[s] = NoSync
  /\ DOMAIN streams[s] = {e.stream : e \in UNION {Entry(p, s) : p \in Producers}}

ConferenceReachesMembers ==
  \A s \in Listeners, x \in Streams :
    x[1].type = "conference" /\ Addressed(s, x) /\ Settled(s) => Heard(s, x[2]) # {}

(* Who is neither addressed nor retained comes to hear nothing: no race    *)
(* leaves a consumer of a withdrawn delivery open for good.                *)
UnaddressedIsSilent ==
  \A s \in Listeners, p \in Producers :
    <>[](Registered(s) /\ Entry(p, s) = {}) => <>[](Consumed(s, p) = {})

(* The reconciliation removes only streams the server no longer reports as *)
(* active: it keeps one that plays what the listener is addressed with.    *)
KeepsReported ==
  \A s \in Listeners : SyncOn(s) \/ ListAnswered(s) =>
    \A x \in DOMAIN streams[s] :
      Addressed(s, x) /\ Serves(s, x, streams[s][x]) => x \in DOMAIN streams'[s]

ReconciliationKeepsReported == [][KeepsReported]_allVars

=============================================================================
