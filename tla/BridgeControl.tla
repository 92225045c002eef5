--------------------------- MODULE BridgeControl ---------------------------
(***************************************************************************)
(* The control session of one managed port of a bridge: serverCore.js      *)
(* keeps the session, queues its events and writes them to its event       *)
(* stream; bridge-client/src/app.js creates the session, asks for the      *)
(* stream once, polls while it has none, sends heartbeats, and starts      *)
(* again when the session is lost, unless its codec failed.  Event number  *)
(* n is the n-th event the server queued for the port; what it says is     *)
(* left out.                                                               *)
(*                                                                         *)
(* The device paths of a start are one step that may fail.  Faults (lost   *)
(* requests and answers, also those for the stream, broken connections,    *)
(* failed starts and outputs, takeovers and restarts of the server) are    *)
(* bounded by a budget, so that the liveness properties speak of what      *)
(* happens after the last one.  A port of a new configuration is another   *)
(* port, whose session is not modelled.                                    *)
(***************************************************************************)
EXTENDS Integers, Sequences, FiniteSets

CONSTANTS
  Sessions,   \* ids of bridge control sessions; an id nobody remembers is used again
  None,
  MaxEvents,  \* events in a behaviour
  Drain,      \* events a poll or a new stream takes from the queue
  Capacity,   \* events the queue of a session keeps
  Beat,       \* the period of the server's heartbeat on a stream
  Stale,      \* the time without a sign of life after which a session ends
  Budgets     \* how many events and faults a behaviour may have, and whether time passes in it

ASSUME ControlAssumption ==
  /\ None \notin Sessions
  /\ {MaxEvents, Drain, Capacity, Beat, Stale} \subseteq Nat
  /\ Drain > 0 /\ Capacity > 0
  /\ Budgets \subseteq [events : 0..MaxEvents, faults : Nat, timed : BOOLEAN]

VARIABLES
  open,      \* bridgeControlSessions
  queue,     \* session.events
  streams,   \* sessions with an entry in session.eventStreams
  age,       \* time since session.lastSeenAt
  beat,      \* time since the last heartbeat written to the stream
  wire,      \* what is on its way to the client on a session's stream
  broken,    \* streams whose connection is gone, which the server has not noticed
  opening,   \* sessions with a request for their stream on its way
  emitted,   \* the number of events so far
  sentTo,    \* per event: the session it was for
  mine,      \* managed session: sessionId
  starting,  \* starting, before and after the session is ready; failed when
             \* it is not retryable, off when the bridge has quit
  ready,     \* ready
  active,    \* eventStreamActive
  listening, \* the session whose stream id is in nativeEventStreamSessions
  poll,      \* the poll in progress: the session asked, the answer
  handled,   \* events handled, in this order, and the way they came
  left       \* what is left of the budget

serverVars == <<open, queue, streams, age, beat, emitted, sentTo>>
netVars    == <<wire, broken, opening>>
clientVars == <<mine, starting, ready, active, listening, poll, handled>>
vars       == <<serverVars, netVars, clientVars, left>>

NoPoll   == [of |-> None, ok |-> TRUE, todo |-> <<>>]
Event(n) == [kind |-> "event", n |-> n]
Say(k)   == [kind |-> k, n |-> 0]
By(w, n) == [way |-> w, n |-> n]
Kinds    == {"open", "event", "kicked", "session-closed", "error", "closed"}

\* No trace of the session is left anywhere, so its id may stand for a new one.
Forgotten(s) == /\ s \notin open \cup streams \cup broken \cup opening
                /\ s \notin {mine, listening, poll.of}
                /\ wire[s] = <<>>

Fault == left.faults > 0 /\ left' = [left EXCEPT !.faults = @ - 1]

TypeOK ==
  /\ open \subseteq Sessions /\ streams \subseteq open /\ broken \subseteq Sessions /\ opening \subseteq Sessions
  /\ queue \in [Sessions -> Seq(1..MaxEvents)] /\ \A s \in Sessions : Len(queue[s]) <= Capacity
  /\ age \in [Sessions -> 0..Stale + 1] /\ beat \in [Sessions -> 0..Beat]
  /\ wire \in [Sessions -> Seq([kind : Kinds, n : 0..MaxEvents])]
  /\ emitted \in 0..MaxEvents /\ sentTo \in [1..MaxEvents -> Sessions \cup {None}]
  /\ mine \in Sessions \cup {None} /\ listening \in Sessions \cup {None}
  /\ starting \in {"no", "input", "rest", "failed", "off"} /\ ready \in BOOLEAN /\ active \in BOOLEAN
  /\ poll \in [of : Sessions \cup {None}, ok : BOOLEAN, todo : Seq(1..MaxEvents)]
  /\ handled \in Seq([way : {"poll", "stream"}, n : 1..MaxEvents])
  /\ left \in [events : 0..MaxEvents, faults : Nat, timed : BOOLEAN]

Init ==
  /\ open = {} /\ streams = {} /\ broken = {} /\ opening = {}
  /\ queue = [s \in Sessions |-> <<>>] /\ wire = [s \in Sessions |-> <<>>]
  /\ age = [s \in Sessions |-> 0] /\ beat = [s \in Sessions |-> 0]
  /\ emitted = 0 /\ sentTo = [e \in 1..MaxEvents |-> None]
  /\ mine = None /\ listening = None
  /\ starting = "no" /\ ready = FALSE /\ active = FALSE
  /\ poll = NoPoll /\ handled = <<>> /\ left \in Budgets

(***************************************************************************)
(* The server.                                                             *)
(***************************************************************************)
\* The sessions of S end, each with words as the last ones on its stream; a
\* stream that is broken takes the words nowhere.
CloseWith(S, words) ==
  /\ open' = open \ S
  /\ streams' = streams \ S
  /\ queue' = [s \in Sessions |-> IF s \in S THEN <<>> ELSE queue[s]]
  /\ age' = [s \in Sessions |-> IF s \in S THEN 0 ELSE age[s]]
  /\ beat' = [s \in Sessions |-> IF s \in S THEN 0 ELSE beat[s]]
  /\ wire' = [s \in Sessions |-> IF s \in S \cap (streams \ broken) THEN wire[s] \o words ELSE wire[s]]
  /\ broken' = broken \ S

Goodbye == <<Say("session-closed"), Say("closed")>>
Kick    == <<Say("kicked")>> \o Goodbye

\* A variant: a full queue keeps growing.
EnqueueUnbounded(s, e) ==
  IF s \in streams
  THEN /\ wire' = [wire EXCEPT ![s] = IF s \in broken THEN @ ELSE Append(@, Event(e))] /\ UNCHANGED queue
  ELSE /\ queue' = [queue EXCEPT ![s] = Append(@, e)] /\ UNCHANGED wire

\* queueBridgeControlEvent: written to the stream if there is one, which a
\* broken connection does not stop, else queued, where the oldest give way.
Enqueue(s, e) ==
  IF s \in streams
  THEN /\ wire' = [wire EXCEPT ![s] = IF s \in broken THEN @ ELSE Append(@, Event(e))]
       /\ UNCHANGED queue
  ELSE /\ queue' = [queue EXCEPT ![s] = IF Len(@) < Capacity THEN Append(@, e) ELSE Append(Tail(@), e)]
       /\ UNCHANGED wire

Emit(s) ==
  /\ s \in open /\ left.events > 0 /\ left' = [left EXCEPT !.events = @ - 1]
  /\ emitted' = emitted + 1
  /\ sentTo' = [sentTo EXCEPT ![emitted + 1] = s]
  /\ Enqueue(s, emitted + 1)
  /\ UNCHANGED <<open, streams, age, beat, broken, opening, clientVars>>

\* A variant: the stream sends what is queued after it has said hello and been
\* registered, in a turn of its own, so this turn leaves the queue alone.
OpenStreamUndrained(s) ==
  /\ s \in opening /\ opening' = opening \ {s}
  /\ IF s \in open
     THEN /\ streams' = streams \cup {s} /\ beat' = [beat EXCEPT ![s] = 0] /\ age' = [age EXCEPT ![s] = 0]
          /\ wire' = [wire EXCEPT ![s] = <<Say("open")>>]
          /\ UNCHANGED queue
     ELSE /\ wire' = [wire EXCEPT ![s] = <<Say("error"), Say("closed")>>]
          /\ UNCHANGED <<queue, streams, beat, age>>
  /\ UNCHANGED <<open, emitted, sentTo, broken, clientVars, left>>

\* The request for the stream arrives: the stream is registered and gets what
\* is queued, up to Drain events.  A session that has ended is an error.
OpenStream(s) ==
  /\ s \in opening /\ opening' = opening \ {s}
  /\ IF s \in open
     THEN LET drained == SubSeq(queue[s], 1, IF Len(queue[s]) < Drain THEN Len(queue[s]) ELSE Drain) IN
          /\ streams' = streams \cup {s} /\ beat' = [beat EXCEPT ![s] = 0] /\ age' = [age EXCEPT ![s] = 0]
          /\ wire' = [wire EXCEPT ![s] = <<Say("open")>> \o [i \in DOMAIN drained |-> Event(drained[i])]]
          /\ queue' = [queue EXCEPT ![s] = SubSeq(@, Len(drained) + 1, Len(@))]
     ELSE /\ wire' = [wire EXCEPT ![s] = <<Say("error"), Say("closed")>>]
          /\ UNCHANGED <<queue, streams, beat, age>>
  /\ UNCHANGED <<open, emitted, sentTo, broken, clientVars, left>>

\* The request for the stream is lost or refused: the bridge hears of an error,
\* and its session goes on without a stream.
LoseStream(s) ==
  /\ s \in opening /\ Fault
  /\ opening' = opening \ {s}
  /\ wire' = [wire EXCEPT ![s] = <<Say("error"), Say("closed")>>]
  /\ UNCHANGED <<serverVars, broken, clientVars>>

\* The interval of the stream: a write that does not throw is a sign of life.
StreamHeartbeat(s) ==
  /\ s \in streams /\ beat[s] = Beat
  /\ beat' = [beat EXCEPT ![s] = 0]
  /\ age' = [age EXCEPT ![s] = 0]
  /\ UNCHANGED <<open, queue, streams, emitted, sentTo, netVars, clientVars, left>>

\* Time passes, and the interval of a stream fires when it is due.  A start,
\* whose requests all have a limit, is over within a unit of time; everything
\* else the bridge does may be late, as in a hidden window.
Tick ==
  /\ left.timed /\ starting \in {"no", "failed", "off"} /\ opening = {}
  /\ \A s \in streams : beat[s] < Beat
  /\ \E s \in open : age[s] <= Stale
  /\ age' = [s \in Sessions |-> IF s \in open /\ age[s] <= Stale THEN age[s] + 1 ELSE age[s]]
  /\ beat' = [s \in Sessions |-> IF s \in streams THEN beat[s] + 1 ELSE beat[s]]
  /\ UNCHANGED <<open, queue, streams, emitted, sentTo, netVars, clientVars, left>>

\* A variant: only sessions that once had a stream are looked at.
CleanUpStreams(s) ==
  /\ s \in streams /\ age[s] > Stale
  /\ CloseWith({s}, Goodbye)
  /\ UNCHANGED <<emitted, sentTo, opening, clientVars, left>>

\* bridgeControlSessionCleanupTimer.
CleanUp(s) ==
  /\ s \in open /\ age[s] > Stale
  /\ CloseWith({s}, Goodbye)
  /\ UNCHANGED <<emitted, sentTo, opening, clientVars, left>>

\* The connection of a stream breaks: a fault, or because the client has
\* stopped the stream and drops it with the next chunk it reads.
BreakStream(s) ==
  /\ s \in streams \ broken
  /\ IF listening = s THEN Fault ELSE UNCHANGED left
  /\ broken' = broken \cup {s}
  /\ wire' = [wire EXCEPT ![s] = IF listening = s THEN Append(@, Say("closed")) ELSE <<>>]
  /\ UNCHANGED <<serverVars, opening, clientVars>>

\* The close handler of the response: the last stream of a session ends it.
NoticeBreak(s) ==
  /\ s \in broken
  /\ CloseWith({s}, <<>>)
  /\ UNCHANGED <<emitted, sentTo, opening, clientVars, left>>

\* Somebody else takes the account of the port.
Takeover ==
  /\ open # {} /\ Fault
  /\ CloseWith(open, Kick)
  /\ UNCHANGED <<emitted, sentTo, opening, clientVars>>

\* The server restarts; its sessions are gone and its connections break.
ServerRestart ==
  /\ open # {} /\ Fault
  /\ CloseWith(open, <<Say("closed")>>)
  /\ UNCHANGED <<emitted, sentTo, opening, clientVars>>

(***************************************************************************)
(* The client.                                                             *)
(***************************************************************************)
\* stopManagedSession: the stream is stopped and the session deleted on the
\* server, unless the request is lost.
Stop(lost) ==
  /\ IF lost THEN UNCHANGED <<open, queue, streams, age, beat, wire, broken>>
             ELSE CloseWith({mine} \cap open, Goodbye)
  /\ mine' = None /\ listening' = None /\ active' = FALSE
  /\ ready' = FALSE

\* The bridge quits or its machine fails.
Quit ==
  /\ starting # "off" /\ Fault
  /\ starting' = "off" /\ ready' = FALSE /\ active' = FALSE
  /\ mine' = None /\ listening' = None /\ poll' = NoPoll
  /\ UNCHANGED <<serverVars, netVars, handled>>

\* startManagedSession for a session that is not ready, when its retry is due.
\* It first stops what is left of the last start.
StopFirst ==
  /\ starting = "no" /\ ~ready /\ mine # None
  /\ \/ Stop(FALSE) /\ UNCHANGED left
     \/ Stop(TRUE) /\ Fault
  /\ UNCHANGED <<emitted, sentTo, opening, starting, poll, handled>>

\* createBridgeControlSession: whoever has the account is kicked.  When the
\* answer is lost the server has a session the client does not know.
Create(s) ==
  /\ starting = "no" /\ ~ready /\ mine = None /\ Forgotten(s)
  /\ open' = {s} /\ streams' = {}
  /\ wire' = [t \in Sessions |-> IF t \in streams \ broken THEN wire[t] \o Kick ELSE wire[t]]
  /\ broken' = {}
  /\ queue' = [t \in Sessions |-> <<>>]
  /\ age' = [t \in Sessions |-> 0] /\ beat' = [t \in Sessions |-> 0]
  /\ \/ mine' = s /\ starting' = "input" /\ UNCHANGED left
     \/ Fault /\ UNCHANGED <<mine, starting>>
  /\ sentTo' = [e \in 1..MaxEvents |-> IF sentTo[e] = s THEN None ELSE sentTo[e]]
  /\ UNCHANGED <<emitted, opening, ready, active, listening, poll, handled>>

\* startNativeManagedEventStream: messages of the stream are for this session
\* from now on, and the stream is asked for.
AskForStream == listening' = mine /\ opening' = opening \cup {mine}

\* The input path is up, or its device failed without harm: the session is
\* ready and asks for its stream.
BecomeReady ==
  /\ starting = "input" /\ starting' = "rest"
  /\ ready' = TRUE /\ AskForStream
  /\ UNCHANGED <<serverVars, wire, broken, mine, active, poll, handled, left>>

\* The rest of a start: the active producers.  ready may be lost meanwhile.
FinishStart ==
  /\ starting = "rest"
  /\ starting' = "no"
  /\ UNCHANGED <<serverVars, netVars, mine, ready, active, listening, poll, handled, left>>

\* A failure after which the session is stopped; it is tried again, unless the
\* codec failed.
Fails == Fault /\ starting' \in {"no", "failed"} /\ \E lost \in BOOLEAN : Stop(lost)

\* A request or a device of the start fails, or the session is gone: the start
\* is undone.
StartFails ==
  /\ starting \in {"input", "rest"}
  /\ \/ mine \notin open /\ Stop(FALSE) /\ starting' = "no" /\ UNCHANGED left
     \/ Fails
  /\ UNCHANGED <<emitted, sentTo, opening, poll, handled>>

\* The audits find that an output of the session has failed or lost its device.
OutputFails ==
  /\ starting = "no" /\ ready /\ Fails
  /\ UNCHANGED <<emitted, sentTo, opening, poll, handled>>

\* pollManagedEvents asks while no stream is active; the server answers with
\* up to Drain events, or that there is no such session.
Poll ==
  /\ ready /\ ~active /\ poll = NoPoll
  /\ LET n == IF Len(queue[mine]) < Drain THEN Len(queue[mine]) ELSE Drain IN
     \/ /\ mine \in open
        /\ poll' = [of |-> mine, ok |-> TRUE, todo |-> SubSeq(queue[mine], 1, n)]
        /\ queue' = [queue EXCEPT ![mine] = SubSeq(@, n + 1, Len(@))]
        /\ age' = [age EXCEPT ![mine] = 0]
        /\ UNCHANGED left
     \/ /\ mine \notin open
        /\ poll' = [of |-> mine, ok |-> FALSE, todo |-> <<>>]
        /\ UNCHANGED <<queue, age, left>>
     \/ /\ mine \in open /\ Fault
        /\ poll' = [of |-> mine, ok |-> FALSE, todo |-> <<>>]
        /\ queue' = [queue EXCEPT ![mine] = SubSeq(@, n + 1, Len(@))]
        /\ age' = [age EXCEPT ![mine] = 0]
  /\ UNCHANGED <<open, streams, beat, emitted, sentTo, netVars, mine, starting, ready, active, listening, handled>>

\* The answer is handled event by event, each after an await.  A failed poll
\* takes the managed session for lost, whichever session it had asked, and has
\* it tried again, also after a failure that was not to be.
PollAnswered ==
  /\ poll.of # None
  /\ IF poll.todo # <<>>
     THEN /\ handled' = Append(handled, By("poll", Head(poll.todo)))
          /\ poll' = [poll EXCEPT !.todo = Tail(@)]
          /\ UNCHANGED <<ready, starting>>
     ELSE /\ poll' = NoPoll
          /\ ready' = (ready /\ poll.ok)
          /\ starting' = IF starting = "failed" /\ ~poll.ok THEN "no" ELSE starting
          /\ UNCHANGED handled
  /\ UNCHANGED <<serverVars, netVars, mine, active, listening, left>>

\* heartbeatManagedSessions.
Heartbeat ==
  /\ mine # None /\ starting = "no" /\ (ready \/ active)
  /\ \/ /\ mine \in open
        /\ age' = [age EXCEPT ![mine] = 0]
        /\ UNCHANGED <<open, queue, streams, beat, wire, broken, mine, starting, ready, active, listening, left>>
     \/ mine \notin open /\ Stop(FALSE) /\ UNCHANGED <<starting, left>>
     \/ /\ Fault /\ ready' = FALSE
        /\ UNCHANGED <<open, queue, streams, age, beat, wire, broken, mine, starting, active, listening>>
  /\ UNCHANGED <<emitted, sentTo, opening, poll, handled>>

\* A variant: messages go to the managed session whichever stream they are from.
ReceiveAny(s) ==
  /\ wire[s] # <<>>
  /\ wire' = [wire EXCEPT ![s] = Tail(@)]
  /\ LET m == Head(wire[s]) IN
     /\ active' = CASE m.kind = "open" -> TRUE
                    [] m.kind \in {"session-closed", "error", "closed"} -> FALSE
                    [] OTHER -> active
     /\ ready' = (ready /\ m.kind \notin {"kicked", "session-closed"})
     /\ listening' = IF m.kind \in {"session-closed", "closed"} THEN None ELSE listening
     /\ handled' = IF m.kind = "event" THEN Append(handled, By("stream", m.n)) ELSE handled
  /\ UNCHANGED <<serverVars, broken, opening, mine, starting, poll, left>>

\* handleNativeBridgeEventStreamMessage: messages of a stream that is not
\* registered any more are ignored.
Receive(s) ==
  /\ wire[s] # <<>>
  /\ wire' = [wire EXCEPT ![s] = Tail(@)]
  /\ LET m == Head(wire[s]) IN
     IF listening # s THEN UNCHANGED <<active, ready, listening, handled>>
     ELSE /\ active' = CASE m.kind = "open" -> TRUE
                         [] m.kind \in {"session-closed", "error", "closed"} -> FALSE
                         [] OTHER -> active
          /\ ready' = (ready /\ m.kind \notin {"kicked", "session-closed"})
          /\ listening' = IF m.kind \in {"session-closed", "closed"} THEN None ELSE listening
          /\ handled' = IF m.kind = "event" THEN Append(handled, By("stream", m.n)) ELSE handled
  /\ UNCHANGED <<serverVars, broken, opening, mine, starting, poll, left>>

Next ==
  \/ \E s \in Sessions : Emit(s) \/ OpenStream(s) \/ LoseStream(s) \/ StreamHeartbeat(s) \/ CleanUp(s)
                         \/ BreakStream(s) \/ NoticeBreak(s) \/ Create(s) \/ Receive(s)
  \/ Tick \/ Takeover \/ ServerRestart
  \/ StopFirst \/ BecomeReady \/ FinishStart \/ StartFails \/ OutputFails
  \/ Poll \/ PollAnswered \/ Heartbeat \/ Quit

Spec == Init /\ [][Next]_vars

\* Requests are answered, timers fire and what has arrived is handled; a
\* broken connection is noticed, and a stopped stream is dropped.  Nothing is
\* assumed of Emit or of faults.
Fairness ==
  /\ \A s \in Sessions :
       /\ WF_vars(OpenStream(s)) /\ WF_vars(Receive(s)) /\ WF_vars(NoticeBreak(s))
       /\ WF_vars(CleanUp(s)) /\ WF_vars(StreamHeartbeat(s))
       /\ WF_vars(listening # s /\ BreakStream(s))
  /\ WF_vars(Tick)
  /\ WF_vars(\E s \in Sessions : Create(s) /\ UNCHANGED left)
  /\ WF_vars(StopFirst /\ UNCHANGED left)
  /\ WF_vars(BecomeReady) /\ WF_vars(FinishStart)
  /\ WF_vars(Poll /\ UNCHANGED left) /\ WF_vars(PollAnswered)
  /\ WF_vars(Heartbeat /\ UNCHANGED left)

LiveSpec == Spec /\ Fairness

(***************************************************************************)
(* Properties.                                                             *)
(***************************************************************************)
\* No event is handled twice, although polls and the stream both take events
\* from the queue and a stream of a former session may still have some.
HandledOnce == \A i, j \in DOMAIN handled : handled[i].n = handled[j].n => i = j

\* What comes over streams is in order, also when a session ends and the next
\* has a stream of its own: only the answer to a poll overtakes or is overtaken.
StreamsInOrder ==
  \A i, j \in DOMAIN handled :
    (i < j /\ handled[i].way = "stream" /\ handled[j].way = "stream") => handled[i].n < handled[j].n

\* Events are handled once, and those of streams in order.
EventsInOrder == HandledOnce /\ StreamsInOrder

\* A session whose stream is connected is never ended for being stale: the
\* period of the stream's heartbeat is within the limit, whatever the rest of
\* the bridge does.
StreamKeepsSession ==
  [][\A s \in streams \ broken : ~CleanUp(s)]_vars

\* The server has at most one session for the port, and one that the bridge
\* has given up ends, as time passes.
OrphansEnd == \A s \in Sessions : (left.timed /\ s \in open /\ mine # s) ~> (s \notin open \/ mine = s)

\* After the last fault the bridge comes to have a session that is ready and
\* known to the server, and keeps it, unless it has quit or its codec failed.
\* The session has its stream, and both ends take it for open, or it is polled
\* - for good when the one request for the stream was lost, as a session that is
\* ready never asks again.
SessionRegained ==
  <>[](\/ starting \in {"failed", "off"}
       \/ ready /\ mine \in open /\ (active <=> mine \in streams))

\* Sessions that are used are kept or regained, and no others.
SessionsKept == StreamKeepsSession /\ OrphansEnd /\ SessionRegained

\* Left behind: the stream took the first Drain events of the queue when it
\* opened, and nobody polls while it is there.
Stranded(e) == /\ sentTo[e] \in streams
               /\ Cardinality({d \in 1..e - 1 : sentTo[d] = sentTo[e]}) >= Drain
               /\ \E i \in DOMAIN queue[sentTo[e]] : queue[sentTo[e]][i] = e

\* An event is handled in the end, or its session ends, or it was pushed out
\* of a full queue by later events, or it is stranded.
EventsArrive ==
  \A e \in 1..MaxEvents :
    (e <= emitted /\ sentTo[e] = mine)
      ~> (\/ \E i \in DOMAIN handled : handled[i].n = e
          \/ sentTo[e] # mine \/ mine \notin open
          \/ e + Capacity <= emitted \/ Stranded(e))
=============================================================================
