----------------------------- MODULE BridgeMedia -----------------------------
(***************************************************************************)
(* The audio of one managed user port of a bridge: bridge-client/src/app.js*)
(* starts and stops the native capture and one native output per producer  *)
(* addressed to the port, src-tauri/src/bridge_media.rs runs them, and     *)
(* serverCore.js keeps the plain transport, the producer and the consumers *)
(* of the port's session.  Three activities interleave at every await: the *)
(* start or stop of the session (main), the queue of events (ev) and the   *)
(* retry of the input alone (inp).  How events and the end of a session    *)
(* reach the bridge is in BridgeControl, when the port talks in BridgeTalk.*)
(*                                                                         *)
(* A handler is an operator from a world to a world, up to its next await. *)
(* The answer to a call comes before anything else happens, or is lost.    *)
(***************************************************************************)
EXTENDS Naturals, Sequences, FiniteSets, SequencesExt

CONSTANTS
  Voices,     \* producers of others that may address the port
  Attempts    \* bounds: talks, faults and changes of devices and levels, as records left

VARIABLES
  world,      \* the bridge client, its native part, and the server
  left        \* what may still happen

vars == <<world, left>>

\* 0 stands for no producer.
MediaAssumption == IsFiniteSet(Voices) /\ 0 \notin Voices

(***************************************************************************)
(* Parts of a world.  The client: sid (sessionId, 0 for null), ready,      *)
(* input (inputReady, inputStarting), outs (outputs), known (those with a  *)
(* consumerId), want (targetAudioStates), main, ev and inp (the activities:*)
(* what they wait for, the producer, the session they began in), then (what*)
(* follows a stop) and todo (the producers or outputs still to be seen to).*)
(* The native part: cap (a capture runs), nat (the streams), lvl (their    *)
(* levels), dev (the devices there are).  The server: srv (the session of  *)
(* the port), next, path (plainSendTransport), prod (a producer on it),    *)
(* cons (the consumers), live (who addresses the port), queue (events).    *)
(* deaf: producers whose start by an event failed.  leaked: a start that   *)
(* overlapped a stop has left something behind, or is left without.        *)
(***************************************************************************)
Idle == [at |-> "idle", p |-> 0, sid |-> 0]
Starts == {"register", "transport", "capture", "produce", "ready", "list", "next", "reserve", "create", "activate",
           "resume", "level"}
Stops == {"stop outputs", "stop input", "delete"}
Served(w) == w.sid # 0 /\ w.sid = w.srv

\* The device of a direction is there, with the channels asked for.
Usable(w, d) == w.dev[d]
\* What the port has been told about the volume of the speaker of an output.
LevelOf(w, p) == w.want[p]

\* stopManagedSession, until its first await.
StopThen(w, then) ==
  [w EXCEPT !.main = [Idle EXCEPT !.at = "stop outputs"], !.todo = SetToSeq(w.outs), !.then = then]

\* startManagedSession fails, or goes on with the next producer.
StartFails(w) == StopThen(w, "error")

(***************************************************************************)
(* startManagedConsumer and stopManagedConsumer.                           *)
(***************************************************************************)
\* The deletion of a consumer, which the client asks for if it knows of one.
Unconsumed(w, p) == IF p \in w.known /\ Served(w) THEN "none" ELSE w.cons[p]

\* Its catch; an event is then done with, a start of the session fails.
OutputFails(w, who) ==
  LET p == w[who].p
      v == [w EXCEPT !.outs = @ \ {p}, !.nat[p] = "none",
                     !.cons[p] = Unconsumed(w, p), !.known = @ \ {p}]
  IN  IF who = "main" THEN StartFails(v) ELSE [v EXCEPT !.ev = Idle, !.deaf = @ \cup {p}]

OutputGoesOn(w, who, at) == [w EXCEPT ![who].at = at]

\* Until its first await; there is nothing to do for an output the session has.
OutputBegins(w, who, p) ==
  IF p \in w.outs THEN IF who = "main" THEN [w EXCEPT !.main.at = "next"] ELSE [w EXCEPT !.ev = Idle]
  ELSE [w EXCEPT !.outs = @ \cup {p}, !.known = @ \ {p}, ![who] = [at |-> "reserve", p |-> p, sid |-> w.sid]]

\* The calls, each with what comes of it.
Reserved(w, who) ==
  IF Usable(w, "out") THEN OutputGoesOn([w EXCEPT !.nat[w[who].p] = "reserved"], who, "create") ELSE OutputFails(w, who)
Created(w, who) ==
  LET p == w[who].p IN
  IF Served(w) /\ p \in w.live
  THEN OutputGoesOn([w EXCEPT !.cons[p] = "paused", !.known = IF p \in w.outs THEN @ \cup {p} ELSE @], who, "activate")
  ELSE OutputFails(w, who)
Activated(w, who) ==
  LET p == w[who].p IN
  IF w.nat[p] = "reserved" /\ Usable(w, "out")
  THEN OutputGoesOn([w EXCEPT !.nat[p] = "active", !.lvl[p] = 1], who, "resume") ELSE OutputFails(w, who)
Shaken(w, p) == w.cons[p] # "none"   \* the transport is there, and has seen a packet
Resumed(w, who) ==
  LET p == w[who].p IN
  IF Served(w) /\ Shaken(w, p) THEN OutputGoesOn([w EXCEPT !.cons[p] = "on"], who, "level") ELSE OutputFails(w, who)

\* applyManagedOutputAudioState: the last call.
Levelled(w, who) ==
  LET p == w[who].p
      v == [w EXCEPT !.lvl[p] = LevelOf(w, p), !.deaf = @ \ {p}, !.leaked = @ \/ p \notin w.outs]
  IN  IF w.nat[p] # "active" THEN OutputFails(w, who)
      ELSE IF who = "main" THEN [v EXCEPT !.main.at = "next"] ELSE [v EXCEPT !.ev = Idle]

\* stopManagedConsumer, its two calls in one.
OutputStops(w, p) ==
  IF p \notin w.outs THEN w
  ELSE [w EXCEPT !.outs = @ \ {p}, !.nat[p] = "none", !.known = @ \ {p},
                 !.cons[p] = Unconsumed(w, p)]

(***************************************************************************)
(* startManagedInputPath, for main or inp.                                 *)
(***************************************************************************)
\* It is over; the start of the session goes on all the same, unless the
\* server is away.
InputEnds(w, who) == IF who = "main" THEN [w EXCEPT !.main.at = "ready"] ELSE [w EXCEPT !.inp = Idle]
InputFails(w, who, away) ==
  LET v == [w EXCEPT !.cap = FALSE, !.input = "off"] IN
  IF away /\ who = "main" THEN StartFails(v) ELSE InputEnds(v, who)

InputBegins(w, who) ==
  IF w.input # "off" \/ ~Usable(w, "in") THEN InputEnds(w, who)
  ELSE [w EXCEPT !.input = "starting", ![who] = [at |-> "transport", p |-> 0, sid |-> w.sid]]

\* /plain-send-transport: the new transport ends what came over the old one.
Routed(w, who) ==
  IF Served(w) THEN [w EXCEPT !.path = TRUE, !.prod = FALSE, ![who].at = "capture"] ELSE InputFails(w, who, TRUE)
Captured(w, who) == IF Usable(w, "in") THEN [w EXCEPT !.cap = TRUE, ![who].at = "produce"] ELSE InputFails(w, who, FALSE)
Produced(w, who) ==
  IF Served(w) /\ w.path THEN InputEnds([w EXCEPT !.prod = TRUE, !.input = "on", !.leaked = @ \/ ~w.cap], who)
  ELSE InputFails(w, who, ~Served(w))

\* A variant: the input is marked as stopped, the native capture runs on.
InputStopsMarked(w) == [w EXCEPT !.input = "off"]

\* stopManagedInputPath; the producer of the server stays.
InputStops(w) == [w EXCEPT !.cap = FALSE, !.input = "off"]

(***************************************************************************)
(* The session.                                                            *)
(***************************************************************************)
\* The server's session of the port ends, or a new one takes its place.
Replace(w, s) ==
  [w EXCEPT !.srv = s, !.path = FALSE, !.prod = FALSE, !.cons = [p \in Voices |-> "none"], !.queue = <<>>]

\* The last of startManagedSession's producers has been seen to.
NextOutput(w) ==
  IF w.todo = <<>> THEN [w EXCEPT !.main = Idle]
  ELSE OutputBegins([w EXCEPT !.todo = Tail(@)], "main", Head(w.todo))

\* stopManagedSession goes on: what it resets at the end.
Stopped(w, deleted) ==
  LET v == IF deleted /\ Served(w) THEN Replace(w, 0) ELSE w
      u == [v EXCEPT !.sid = 0, !.input = "off", !.outs = {}, !.known = {}, !.ready = FALSE,
                     !.leaked = @ \/ (w.cap /\ w.inp = Idle) \/ \E p \in w.outs : w.ev.p # p /\ w.nat[p] # "none"]
  IN  IF w.then = "start" THEN [u EXCEPT !.main = [Idle EXCEPT !.at = "register"]] ELSE [u EXCEPT !.main = Idle]

Event(k, p) == [kind |-> k, p |-> p]
Tell(w, e) == IF w.srv # 0 THEN [w EXCEPT !.queue = Append(@, e)] ELSE w

(***************************************************************************)
(* Actions.                                                                *)
(***************************************************************************)
\* A behaviour is followed until something is left behind, or an activity goes
\* on in a session that is not the one it began in.
Whole == ~world.leaked
Free == Whole /\ UNCHANGED left
Spend(what) == Whole /\ left[what] > 0 /\ left' = [left EXCEPT ![what] = @ - 1]
Own(who) == who = "main" \/ world.sid \in {0, world[who].sid}

\* startManagedSession, until its first await.
Start ==
  /\ ~world.ready /\ world.main = Idle
  /\ world' = IF world.sid # 0 \/ world.outs # {} THEN StopThen(world, "start")
              ELSE [world EXCEPT !.main = [Idle EXCEPT !.at = "register"]]
  /\ Free

\* The session is asked for; a lost answer leaves it to the server.
NewSession == Replace([world EXCEPT !.next = @ + 1], world.next)
Register ==
  /\ world.main.at = "register"
  /\ \/ world' = (IF world.dev.out THEN InputBegins([NewSession EXCEPT !.sid = world.next], "main")
                  ELSE StartFails(world)) /\ Free
     \/ world.dev.out /\ world' \in {StartFails(world), StartFails(NewSession)} /\ Spend("faults")

\* The session is ready, and its events are read.
Ready ==
  /\ world.main.at = "ready" /\ world' = [world EXCEPT !.ready = TRUE, !.main.at = "list"] /\ Free

\* /active-producers.
List ==
  /\ world.main.at = "list"
  /\ \/ world' = (IF Served(world) THEN NextOutput([world EXCEPT !.todo = SetToSeq(world.live)])
                  ELSE StartFails(world)) /\ Free
     \/ world' = StartFails(world) /\ Spend("faults")

NextProducer == world.main.at = "next" /\ world' = NextOutput(world) /\ Free

\* A call of an input path is answered, or its request or its answer is lost.
InputCall(who) ==
  LET at == world[who].at IN
  /\ at \in {"transport", "capture", "produce"} /\ Own(who)
  /\ LET done == CASE at = "transport" -> Routed(world, who)
                   [] at = "capture" -> Captured(world, who)
                   [] at = "produce" -> Produced(world, who)
     IN  \/ world' = done /\ Free
         \/ /\ world' \in {InputFails(world, who, at # "capture"),
                           InputFails([world EXCEPT !.path = done.path, !.prod = done.prod], who, at # "capture")}
            /\ Spend("faults")

\* The same for an output; a resume may also wait in vain for the handshake.
OutputCall(who) ==
  LET at == world[who].at IN
  /\ at \in {"reserve", "create", "activate", "resume", "level"} /\ Own(who)
  /\ LET done == CASE at = "reserve" -> Reserved(world, who)
                   [] at = "create" -> Created(world, who)
                   [] at = "activate" -> Activated(world, who)
                   [] at = "resume" -> Resumed(world, who)
                   [] at = "level" -> Levelled(world, who)
     IN  \/ world' = done /\ Free
         \/ /\ world' \in {OutputFails(world, who), OutputFails([world EXCEPT !.cons = done.cons], who)}
            /\ Spend("faults")

\* stopManagedSession: output after output, the capture, the session.
StopOutput ==
  /\ world.main.at = "stop outputs"
  /\ world' = IF world.todo = <<>> THEN [world EXCEPT !.main.at = "stop input"]
              ELSE OutputStops([world EXCEPT !.todo = Tail(@)], Head(world.todo))
  /\ Free
StopInput == world.main.at = "stop input" /\ world' = [world EXCEPT !.cap = FALSE, !.main.at = "delete"] /\ Free
Delete ==
  /\ world.main.at = "delete"
  /\ \/ world' = Stopped(world, TRUE) /\ Free
     \/ world' = Stopped(world, FALSE) /\ Spend("faults")

\* updateManagedTargetAudioState and applyManagedTargetAudioState; only an
\* output that is active can be set.
SetLevel(w, p) ==
  [w EXCEPT !.want[p] = 1 - @, !.lvl[p] = IF p \in w.outs /\ w.nat[p] = "active" THEN 1 - w.want[p] ELSE @]

\* handleManagedEvent: one event at a time.
Handle ==
  /\ world.ready /\ Served(world) /\ world.ev = Idle /\ world.queue # <<>>
  /\ LET e == Head(world.queue)
         w == [world EXCEPT !.queue = Tail(@)]
     IN  world' = CASE e.kind = "new" -> OutputBegins(w, "ev", e.p)
                    [] e.kind = "closed" -> OutputStops(w, e.p)
                    [] e.kind = "level" -> SetLevel(w, e.p)
  /\ Free

\* heartbeatManagedSessions and the event stream: the session is not known any
\* more.
Heartbeat ==
  /\ world.ready /\ world.sid # 0 /\ ~Served(world)
  /\ \/ world' = [world EXCEPT !.ready = FALSE]
     \/ world.main = Idle /\ world' = StopThen(world, "error")
  /\ Free

\* auditManagedSessionDevices, auditManagedNativeMediaStatus.
Audit ==
  /\ world.ready /\ world.main = Idle
  /\ \/ ~world.dev.out /\ world' = StopThen(world, "error")
     \/ world.dev.out /\ ~world.dev.in /\ world.input # "off" /\ world' = InputStops(world)
  /\ Free

\* A native stream fails by itself and the audit sees it.
StreamFails ==
  /\ world.ready /\ world.main = Idle
  /\ \/ world.input = "on" /\ world' = InputStops(world)
     \/ world.outs # {} /\ world' = StopThen(world, "error")
  /\ Spend("faults")

\* retryDueManagedSessions, its input part.
RetryInput ==
  /\ world.ready /\ world.main = Idle /\ world.inp = Idle /\ world.input = "off" /\ world.dev.in
  /\ world' = InputBegins(world, "inp") /\ Free

\* Someone begins or ceases to address the port.
Speak(p) ==
  /\ p \notin world.live
  /\ world' = Tell([world EXCEPT !.live = @ \cup {p}], Event("new", p)) /\ Spend("talks")
Hush(p) ==
  /\ p \in world.live
  /\ world' = [Tell([world EXCEPT !.live = @ \ {p}, !.cons[p] = "none"], Event("closed", p)) EXCEPT !.deaf = @ \ {p}]
  /\ Free

\* A command for the volume of the port.
Command(p) == world.srv # 0 /\ world' = Tell(world, Event("level", p)) /\ Spend("changes")

\* A takeover, a timeout or a restart ends the session at the server.
SessionEnds == world.srv # 0 /\ world' = Replace(world, 0) /\ Spend("faults")

Unplug(d) == world.dev[d] /\ world' = [world EXCEPT !.dev[d] = FALSE] /\ Spend("changes")
Plug(d) == ~world.dev[d] /\ world' = [world EXCEPT !.dev[d] = TRUE] /\ Free

Init ==
  /\ left \in Attempts
  /\ world = [sid |-> 0, ready |-> FALSE, input |-> "off", outs |-> {}, known |-> {}, want |-> [p \in Voices |-> 1],
              main |-> Idle, ev |-> Idle, inp |-> Idle, then |-> "error", todo |-> <<>>,
              cap |-> FALSE, nat |-> [p \in Voices |-> "none"], lvl |-> [p \in Voices |-> 1],
              dev |-> [in |-> TRUE, out |-> TRUE],
              srv |-> 0, next |-> 1, path |-> FALSE, prod |-> FALSE, cons |-> [p \in Voices |-> "none"],
              live |-> {}, queue |-> <<>>, deaf |-> {}, leaked |-> FALSE]

Next ==
  \/ Start \/ Register \/ Ready \/ List \/ NextProducer \/ StopOutput \/ StopInput \/ Delete
  \/ Handle \/ Heartbeat \/ Audit \/ StreamFails \/ RetryInput \/ SessionEnds
  \/ \E who \in {"main", "inp"} : InputCall(who)
  \/ \E who \in {"main", "ev"} : OutputCall(who)
  \/ \E p \in Voices : Speak(p) \/ Hush(p) \/ Command(p)
  \/ \E d \in {"in", "out"} : Unplug(d) \/ Plug(d)

Spec == Init /\ [][Next]_vars

TypeOK ==
  /\ world.input \in {"off", "starting", "on"} /\ world.known \subseteq world.outs /\ world.outs \subseteq Voices
  /\ world.main.at \in {"idle"} \cup Starts \cup Stops
  /\ world.nat \in [Voices -> {"none", "reserved", "active"}] /\ world.cons \in [Voices -> {"none", "paused", "on"}]

(***************************************************************************)
(* Property.                                                               *)
(***************************************************************************)
Quiet == world.main = Idle /\ world.ev = Idle /\ world.inp = Idle /\ ~world.leaked
Settled == Quiet /\ world.ready /\ Served(world) /\ world.queue = <<>> /\ (world.input # "off") = world.dev.in

\* Whatever failed on the way, and in whatever order sessions, speakers and
\* devices came and went: a port at rest captures exactly if the server has its
\* producer, plays every voice that addresses it at the volume last asked for,
\* and nothing else; a port without a session uses no device at all.
PortAsServed ==
  /\ Settled =>
       /\ IF world.input = "on" THEN world.cap /\ world.prod ELSE ~world.cap
       /\ world.outs = world.live \ world.deaf
       /\ \A p \in Voices : (world.nat[p] = "active") = (p \in world.outs)
       /\ \A p \in world.outs : world.cons[p] = "on" /\ world.lvl[p] = world.want[p]
  /\ Quiet /\ world.sid = 0 => ~world.cap /\ world.outs = {} /\ \A p \in Voices : world.nat[p] = "none"
==============================================================================
