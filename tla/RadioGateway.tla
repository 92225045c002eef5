---------------------------- MODULE RadioGateway ----------------------------
(***************************************************************************)
(* The radio gateway (gateway/radioGateway.js): it keys a radio through a  *)
(* pin and plays the talk of those who address its user, one at a time,    *)
(* and streams what the radio receives into a conference.                  *)
(*                                                                         *)
(* Playing runs in threads: tasks of one queue, and the handler of a       *)
(* failed task, which the queue does not wait for.  A thread rests where   *)
(* the code awaits.  The pin has a queue of its own.  The server is seen   *)
(* through its events; audio is not modelled, and of the time between two  *)
(* events only whether the release timer and the tail of a talk are over.  *)
(***************************************************************************)
EXTENDS Naturals, SequencesExt

CONSTANTS
  Talkers,   \* users whose talk may reach the radio; each has one producer
  None,
  Sessions,  \* bounds the playback processes of a behaviour: 1 .. n
  Efforts    \* bounds: what may happen in a behaviour, as records left

VARIABLES
  talk,      \* per talker "none", "radio", "else" or, without a producer, "gone"
  delivered, \* talkers whose producer the server delivers to the gateway
  inbox,     \* events under way to the gateway
  sess,      \* playbacks: talker, consumer at the server, process alive
  gw,        \* the transmitting part: active, pending, queue, threads, timer
  ptt,       \* the queue of the pin, and the pin itself
  rx,        \* the receiving part
  phase,     \* of the connection: "setup", "producing", "running", "closing"
  races,     \* races that happened, of which the properties speak
  left

\* Playbacks are numbered; 0 stands for none.
GatewayAssumption == IsFiniteSet(Talkers) /\ IsFiniteSet(Sessions) /\ 0 \notin Sessions

vars == <<talk, delivered, inbox, sess, gw, ptt, rx, phase, races, left>>

Addressing == {p \in Talkers : talk[p] = "radio"}
NoSession == [talker |-> None, consumer |-> "closed", plays |-> FALSE]
Idle == [at |-> "idle", talker |-> None, session |-> 0, last |-> FALSE, ahead |-> 0]
Threads == {"queue", "rescue"}

FreshGw == [active |-> 0, pending |-> None, queue |-> <<>>, timer |-> FALSE,
            threads |-> [x \in Threads |-> Idle]]
FreshPtt(pin) == [active |-> FALSE, desired |-> FALSE, waiting |-> 0, stage |-> "idle", pin |-> pin]
FreshRx == [active |-> FALSE, live |-> FALSE, toggles |-> <<>>, muted |-> "no"]

(***************************************************************************)
(* The pin.  A step on the whole state w = [gw, ptt, rx, ...] is an        *)
(* operator from w to w, up to the next await.                             *)
(***************************************************************************)
World == [gw |-> gw, ptt |-> ptt, rx |-> rx, sess |-> sess, races |-> races]
Become(w) ==
  /\ gw' = w.gw /\ ptt' = w.ptt /\ rx' = w.rx /\ sess' = w.sess /\ races' = w.races

Race(w, name) == [w EXCEPT !.races = @ \cup {name}]

\* applyTxPttState, until the pin is set or the tail is over; those that find
\* nothing to do end at once and the next of the queue begins.
Apply(w, queued) ==
  LET todo == IF w.ptt.desired /\ ~w.ptt.active THEN "on"
              ELSE IF ~w.ptt.desired /\ w.ptt.active THEN "tail" ELSE "idle"
      over == IF todo = "idle" THEN queued ELSE 1
  IN  [w EXCEPT !.ptt.stage = todo,
                !.ptt.waiting = queued - over,
                !.gw.threads = [x \in Threads |->
                   [w.gw.threads[x] EXCEPT !.ahead = IF todo # "idle" \/ @ = 0 THEN @ ELSE IF @ > over THEN @ - over ELSE 0]]]

\* One application is over: threads that awaited it go on.
Applied(w) ==
  LET v == [w EXCEPT !.ptt.stage = "idle",
                     !.gw.threads = [x \in Threads |-> [w.gw.threads[x] EXCEPT !.ahead = IF @ = 0 THEN 0 ELSE @ - 1]]]
  IN  IF v.ptt.waiting = 0 THEN v ELSE Apply(v, v.ptt.waiting)

\* setTxPttActive; the thread x, or none, awaits it.
SetPtt(w, enabled, x) ==
  LET v == [w EXCEPT !.ptt.desired = enabled]
      u == IF x = None THEN v ELSE [v EXCEPT !.gw.threads[x].ahead = v.ptt.waiting + (IF v.ptt.stage = "idle" THEN 1 ELSE 2)]
  IN  IF v.ptt.stage = "idle" THEN Apply(u, 1) ELSE [u EXCEPT !.ptt.waiting = @ + 1]

(***************************************************************************)
(* Threads.                                                                *)
(***************************************************************************)
At(w, x, stage) == [w EXCEPT !.gw.threads[x].at = stage]
Done(w, x) == [w EXCEPT !.gw.threads[x] = Idle]

\* startTxForProducer, until the answer to consume-plain.
Start(w, x, p) ==
  IF w.gw.active # 0 THEN Done([w EXCEPT !.gw.pending = p], x)
  ELSE [w EXCEPT !.gw.threads[x] = [Idle EXCEPT !.at = "consuming", !.talker = p]]

\* startPendingTx.
StartPending(w, x) ==
  IF w.gw.active # 0 \/ w.gw.pending = None THEN Done(w, x)
  ELSE LET v == Start([w EXCEPT !.gw.pending = None], x, w.gw.pending) IN
       [v EXCEPT !.gw.threads[x].last = TRUE]

\* stopTx, until the answer to close-consumer; last tells that the pin is let go.
Stop(w, x, last) ==
  IF w.gw.active = 0 THEN IF last THEN SetPtt(At(w, x, "unkeying"), FALSE, x) ELSE Done(w, x)
  ELSE [w EXCEPT !.gw.threads[x] = [Idle EXCEPT !.at = "closing", !.session = w.gw.active, !.last = last]]

\* A start fails.  That of a pending producer ends with a stop of its own; that
\* of a task is handled beside the queue.
Fail(w, x) ==
  IF w.gw.threads[x].last \/ x = "rescue" THEN Stop(Race(w, "fault"), x, FALSE)
  ELSE Stop(Done(Race(w, "fault"), x), "rescue", FALSE)

Enqueue(w, task) == [w EXCEPT !.gw.queue = Append(@, task)]

\* The next task of the queue.
Begin ==
  /\ gw.threads["queue"] = Idle /\ gw.queue # <<>>
  /\ LET t == Head(gw.queue)
         w == [World EXCEPT !.gw.queue = Tail(@)]
         current == IF gw.active = 0 THEN None ELSE sess[gw.active].talker
     IN  \/ t.do = "start" /\ Become(Start(w, "queue", t.of))
         \/ t.do = "key" /\ Become(LET v == IF Addressing = {} THEN Race(w, "late") ELSE w
                                   IN SetPtt(At(v, "queue", "keyed"), TRUE, "queue"))
         \/ t.do = "gone" /\ Become(LET v == [w EXCEPT !.gw.pending = IF @ = t.of THEN None ELSE @]
                                    IN IF current = t.of THEN Stop(v, "queue", FALSE) ELSE v)
         \/ t.do = "closed" /\ Become(IF gw.active = t.of THEN Stop(w, "queue", FALSE) ELSE w)
         \/ t.do = "shutdown" /\ Become(Stop(w, "queue", TRUE))
  /\ UNCHANGED <<talk, delivered, inbox, phase, left>>

Spend(what) == left[what] > 0 /\ left' = [left EXCEPT ![what] = @ - 1]

\* The answer to consume-plain: the playback starts, and the radio is keyed if
\* nothing else did.
Consumed(x) ==
  /\ gw.threads[x].at = "consuming"
  /\ LET p == gw.threads[x].talker IN
     \/ /\ phase # "closing" /\ talk[p] # "gone"
        /\ \E n \in Sessions :
             /\ sess[n] = NoSession /\ \A m \in Sessions : m < n => sess[m] # NoSession
             /\ LET w == [World EXCEPT !.sess[n] = [talker |-> p, consumer |-> "paused", plays |-> TRUE],
                                       !.gw.active = n, !.gw.threads[x].session = n]
                    v == At(IF p \notin delivered THEN Race(w, "unknown") ELSE w, x, "keying")
                IN  Become(IF ptt.active THEN v
                           ELSE SetPtt(IF Addressing = {} THEN Race(v, "late") ELSE v, TRUE, x))
        /\ UNCHANGED left
     \/ (phase = "closing" \/ talk[p] = "gone") /\ Become(Fail(World, x)) /\ UNCHANGED left
     \/ phase # "closing" /\ Become(Fail(World, x)) /\ Spend("faults")
  /\ UNCHANGED <<talk, delivered, inbox, phase>>

\* The radio is keyed, and the lead is over.
Keyed(x) ==
  /\ gw.threads[x].at = "keying" /\ gw.threads[x].ahead = 0
  /\ LET n == gw.threads[x].session IN
     Become(IF gw.active # n \/ ~sess[n].plays THEN Fail(World, x)
            ELSE At([World EXCEPT !.sess[n].consumer = IF @ = "closed" \/ phase = "closing" THEN @ ELSE "live"],
                    x, "resuming"))
  /\ UNCHANGED <<talk, delivered, inbox, phase, left>>

\* The answer to resume-consumer, or the end of a wait for the pin.
Finished(x) ==
  /\ gw.threads[x].at \in {"resuming", "keyed", "unkeying"} /\ gw.threads[x].ahead = 0
  /\ Become(IF gw.threads[x].at = "resuming" /\ phase = "closing" THEN Fail(World, x)
            ELSE IF gw.threads[x].at # "unkeying" \/ gw.threads[x].session = 0 THEN Done(World, x)
            ELSE StartPending([World EXCEPT !.gw.active = IF @ = gw.threads[x].session THEN 0 ELSE @], x))
  /\ UNCHANGED <<talk, delivered, inbox, phase, left>>

\* stopTx, from the answer to close-consumer: the process is killed, ...
Closed(x) ==
  /\ gw.threads[x].at = "closing"
  /\ Become(At([World EXCEPT !.sess[gw.threads[x].session].consumer = "closed"], x, "killing"))
  /\ UNCHANGED <<talk, delivered, inbox, phase, left>>

\* ... and when it is gone the pending producer follows.
Killed(x) ==
  /\ gw.threads[x].at = "killing"
  /\ LET n == gw.threads[x].session
         w == [World EXCEPT !.sess[n].plays = FALSE]
     IN  Become(IF gw.threads[x].last THEN SetPtt(At(w, x, "unkeying"), FALSE, x)
                ELSE StartPending([w EXCEPT !.gw.active = IF @ = n THEN 0 ELSE @], x))
  /\ UNCHANGED <<talk, delivered, inbox, phase, left>>

\* A playback dies of itself.
Dies(n) ==
  /\ sess[n].plays /\ gw.active = n
  /\ Become(Enqueue(Race([World EXCEPT !.sess[n].plays = FALSE], "fault"), [do |-> "closed", of |-> n]))
  /\ Spend("faults") /\ UNCHANGED <<talk, delivered, inbox, phase>>

\* The command that sets the pin is done; it mutes or unmutes the receiver.
PinSet ==
  /\ ptt.stage # "idle"
  /\ Become(CASE ptt.stage = "on" ->
                   Applied([World EXCEPT !.ptt.pin = TRUE, !.ptt.active = TRUE, !.rx.muted = "tx"])
              [] ptt.stage = "tail" ->
                   IF ptt.desired THEN Applied(World) ELSE [World EXCEPT !.ptt.stage = "off"]
              [] OTHER ->
                   Applied([World EXCEPT !.ptt.pin = FALSE, !.ptt.active = FALSE, !.rx.muted = "tail"]))
  /\ UNCHANGED <<talk, delivered, inbox, phase, left>>

\* scheduleTxRelease: the talk is over for long enough.
Release ==
  /\ gw.timer
  /\ Become(SetPtt([World EXCEPT !.gw.timer = FALSE, !.gw.pending = None], FALSE, None))
  /\ UNCHANGED <<talk, delivered, inbox, phase, left>>

\* An event of the server.
Receive ==
  /\ inbox # <<>> /\ phase # "closing" /\ inbox' = Tail(inbox)
  /\ LET e == Head(inbox)
         quiet == [World EXCEPT !.gw.timer = FALSE]
     IN  \/ e.do = "start" /\ Become(Enqueue(SetPtt(quiet, TRUE, None), e))
         \/ e.do \in {"gone", "closed"} /\ Become(Enqueue(World, e))
         \/ e.do = "state" /\ e.of /\ Become(Enqueue(quiet, [do |-> "key", of |-> None]))
         \/ e.do = "state" /\ ~e.of /\ Become([World EXCEPT !.gw.timer = TRUE])
  /\ UNCHANGED <<talk, delivered, phase, left>>

(***************************************************************************)
(* Receiving: the level of a piece of audio, and the answers to the pauses *)
(* and resumes of the producer, which are sent one by one.                 *)
(***************************************************************************)
Toggle(r, live) == [r EXCEPT !.active = live, !.toggles = Append(@, live)]

Chunk ==
  /\ phase = "running" /\ Len(rx.toggles) < 2
  /\ \/ rx.muted # "no" /\ rx.active /\ rx' = Toggle(rx, FALSE) /\ UNCHANGED left
     \/ rx.muted = "no" /\ ~rx.active /\ rx' = Toggle(rx, TRUE) /\ Spend("chunks")
     \/ rx.muted = "no" /\ rx.active /\ rx' = Toggle(rx, FALSE) /\ UNCHANGED left
  /\ UNCHANGED <<talk, delivered, inbox, sess, gw, ptt, phase, races>>

TailOver ==
  /\ rx.muted = "tail" /\ rx' = [rx EXCEPT !.muted = "no"]
  /\ UNCHANGED <<talk, delivered, inbox, sess, gw, ptt, phase, races, left>>

Toggled ==
  /\ rx.toggles # <<>>
  /\ \/ rx' = [rx EXCEPT !.live = Head(rx.toggles), !.toggles = Tail(@)] /\ UNCHANGED <<races, left>>
     \/ rx' = [rx EXCEPT !.toggles = Tail(@)] /\ races' = races \cup {"toggle"} /\ Spend("faults")
  /\ UNCHANGED <<talk, delivered, inbox, sess, gw, ptt, phase>>

(***************************************************************************)
(* The server: talk starts, moves and ends.  A producer lasts between the  *)
(* talks of its user, and so does the delivery to the gateway.             *)
(***************************************************************************)
Event(do, of) == <<[do |-> do, of |-> of]>>
State(next) == Event("state", \E p \in Talkers : next[p] = "radio")
Consumers(p) == {n \in Sessions : sess[n].talker = p /\ sess[n].consumer # "closed"}

Cut(p) == sess' = [n \in Sessions |-> IF n \in Consumers(p) THEN [sess[n] EXCEPT !.consumer = "closed"] ELSE sess[n]]
CutEvents(p) == SetToSeq({[do |-> "closed", of |-> n] : n \in Consumers(p)})

Reaches == phase # "closing"
Tell(events) == inbox' = IF Reaches THEN inbox \o events ELSE inbox

TalkToRadio(p) ==
  /\ talk[p] \in {"none", "else"} /\ talk' = [talk EXCEPT ![p] = "radio"]
  /\ delivered' = IF Reaches THEN delivered \cup {p} ELSE delivered
  /\ Tell((IF p \in delivered THEN <<>> ELSE Event("start", p)) \o State(talk')
          \o (IF talk[p] = "none" THEN Event("start", p) ELSE <<>>))
  /\ Spend("talks") /\ UNCHANGED <<sess, gw, ptt, rx, phase, races>>

TalkElsewhere(p) ==
  /\ talk[p] \in {"none", "radio"} /\ talk' = [talk EXCEPT ![p] = "else"]
  /\ delivered' = delivered \ {p}
  /\ IF p \in delivered THEN Cut(p) /\ Tell(CutEvents(p) \o State(talk')) ELSE UNCHANGED sess /\ Tell(State(talk'))
  /\ Spend("talks") /\ UNCHANGED <<gw, ptt, rx, phase, races>>

EndTalk(p) ==
  /\ talk[p] \in {"radio", "else"} /\ talk' = [talk EXCEPT ![p] = "none"]
  /\ Tell(State(talk')) /\ UNCHANGED <<delivered, sess, gw, ptt, rx, phase, races, left>>

CloseProducer(p) ==
  /\ talk[p] # "gone" /\ talk' = [talk EXCEPT ![p] = "gone"]
  /\ delivered' = delivered \ {p}
  /\ Cut(p) /\ Tell(CutEvents(p) \o State(talk') \o Event("gone", p))
  /\ Spend("talks") /\ UNCHANGED <<gw, ptt, rx, phase, races>>

(***************************************************************************)
(* Sessions with the server.                                               *)
(***************************************************************************)
\* The connection breaks: the cleanup of the session is queued as the last task.
Disconnect ==
  /\ phase = "running" /\ phase' = "closing"
  /\ inbox' = <<>> /\ delivered' = {}
  /\ Become(Enqueue([World EXCEPT !.gw.timer = FALSE, !.rx.live = FALSE, !.rx.toggles = <<>>, !.rx.active = FALSE,
              !.sess = [n \in Sessions |-> [sess[n] EXCEPT !.consumer = "closed"]]],
            [do |-> "shutdown", of |-> None]))
  /\ Spend("breaks") /\ UNCHANGED talk

AtRest == gw.queue = <<>> /\ (\A x \in Threads : gw.threads[x] = Idle) /\ ptt.stage = "idle"

\* runRxStreamSession anew: those who talk are asked for.
Anew ==
  /\ \E asked \in SetToSeqs(Addressing) :
       gw' = [FreshGw EXCEPT !.queue = [i \in DOMAIN asked |-> [do |-> "start", of |-> asked[i]]]]
  /\ ptt' = FreshPtt(ptt.pin) /\ rx' = FreshRx
  /\ inbox' = <<>> /\ delivered' = {} /\ phase' = "setup"

Renew ==
  /\ phase = "closing" /\ AtRest /\ Anew
  /\ UNCHANGED <<talk, sess, races, left>>

\* The server has its producer, which is live when it is made ...
SetUp ==
  /\ phase = "setup" /\ phase' = "producing" /\ rx' = [rx EXCEPT !.live = TRUE]
  /\ UNCHANGED <<talk, delivered, inbox, sess, gw, ptt, races, left>>

\* ... and pauses it before the receiver is listened to.
WarmUp ==
  /\ phase = "producing" /\ phase' = "running" /\ rx' = [rx EXCEPT !.live = FALSE]
  /\ UNCHANGED <<talk, delivered, inbox, sess, gw, ptt, races, left>>

\* The session cannot be set up.  Its transmitting part is not cleaned up; the
\* next session ends its connection.
SetupFails ==
  /\ phase \in {"setup", "producing"} /\ AtRest /\ ~gw.timer /\ inbox = <<>> /\ Anew
  /\ sess' = [n \in Sessions |-> [sess[n] EXCEPT !.consumer = "closed"]]
  /\ races' = races \cup {"abandoned"}
  /\ Spend("faults") /\ UNCHANGED talk

Init ==
  /\ talk = [p \in Talkers |-> "none"] /\ delivered = {} /\ inbox = <<>>
  /\ sess = [n \in Sessions |-> NoSession] /\ gw = FreshGw /\ ptt = FreshPtt(FALSE) /\ rx = FreshRx
  /\ phase = "running" /\ races = {} /\ left \in Efforts

Next ==
  \/ Begin \/ PinSet \/ Release \/ Receive \/ Chunk \/ TailOver \/ Toggled
  \/ \E x \in Threads : Consumed(x) \/ Keyed(x) \/ Finished(x) \/ Closed(x) \/ Killed(x)
  \/ \E n \in Sessions : Dies(n)
  \/ \E p \in Talkers : TalkToRadio(p) \/ TalkElsewhere(p) \/ EndTalk(p) \/ CloseProducer(p)
  \/ Disconnect \/ Renew \/ SetUp \/ WarmUp \/ SetupFails

Spec == Init /\ [][Next]_vars

TypeOK ==
  /\ talk \in [Talkers -> {"none", "radio", "else", "gone"}] /\ delivered \subseteq Talkers
  /\ gw.active \in Sessions \cup {0} /\ gw.pending \in Talkers \cup {None}
  /\ ptt.stage \in {"idle", "on", "tail", "off"} /\ ptt.pin \in BOOLEAN
  /\ phase \in {"setup", "producing", "running", "closing"}

(***************************************************************************)
(* Properties.                                                             *)
(***************************************************************************)
Settled == AtRest /\ ~gw.timer /\ inbox = <<>> /\ phase = "running"

\* The radio is keyed exactly while somebody talks to it, and while it is
\* keyed what it receives goes nowhere.  Not so after a key command that was
\* queued behind a slow start ("late"), failed requests, and a session whose
\* setup failed.
KeyedWhileAddressed ==
  Settled /\ races \subseteq {"unknown"} =>
    /\ ptt.pin <=> Addressing # {}
    /\ ptt.pin => rx.muted = "tx" /\ (rx.toggles = <<>> /\ ~rx.active => ~rx.live)

\* One playback runs at a time, unless a start failed or was given up.
OnePlayback ==
  races \cap {"fault", "abandoned"} = {} => \A m, n \in Sessions : sess[m].plays /\ sess[n].plays => m = n
==============================================================================
