----------------------------- MODULE BridgeTalk -----------------------------
(***************************************************************************)
(* Talk on one managed user port of a bridge (bridge-client/src/app.js):   *)
(* commands of a Companion, the audio-level trigger, the trigger control   *)
(* of the port's card with its autosave, and the configuration fetched     *)
(* from the server all change the talk state, through one queue of         *)
(* operations that takes two requests each.  On the server (serverCore.js) *)
(* the requests set the talk targets of the peer and pause or resume its   *)
(* producer.                                                               *)
(*                                                                         *)
(* A trigger setting is External or the target of an audio-level trigger.  *)
(* The session itself lives throughout; BridgeControl has its life.        *)
(***************************************************************************)
EXTENDS Integers, Sequences

CONSTANTS
  Targets,      \* whom to talk to
  External,     \* the trigger is external
  None,
  Budgets       \* how many commands, edits, faults and loud moments a behaviour may have

ASSUME TalkAssumption ==
  /\ External \notin Targets /\ None \notin Targets /\ External # None
  /\ Budgets \subseteq [commands : Nat, edits : Nat, faults : Nat, loud : Nat]

VARIABLES
  config,    \* the trigger setting the server has for the port
  to,        \* peer.activeTalkTargets: whom the server has as the target
  paused,    \* producer.paused
  owner,     \* who resumed the producer last: "level" or "external"
  card,      \* the setting the port's card shows
  chosen,    \* what the user chose last
  draft,     \* managedPortDrafts
  revised,   \* whether the draft was revised since the save began
  timer,     \* managedPortAutoSaveTimers
  again,     \* managedPortSaveQueued
  saving,    \* the save in flight: its stage, what it puts
  port,      \* session.port.trigger
  fetched,   \* the configuration on its way to syncManagedBridge
  talking, source, aim, lock,   \* session.talking, talkSource, targets, lockActive
  trig,      \* session.levelTriggerState
  bumped,    \* whether its revision changed since the level's start was queued
  polling,   \* processManagedLevelTriggers waits for the media status
  queue,     \* session.talkStateQueue
  step,      \* requests of its first operation that have taken effect
  loud,      \* the level is above the threshold
  failed,    \* the last operation failed
  missed,    \* what failed since an operation succeeded: "start", the answer to
             \* a resume, or "end", a request to end a talk for its settings' sake
  left,      \* what is left of the budget
  faulty     \* whether a request or an answer was lost

server == <<to, paused, owner>>
card_  == <<card, chosen, draft, revised, timer, again, saving>>
talk   == <<talking, source, aim, lock>>
spent  == <<left, faulty>>
ops    == <<queue, step, failed, missed>>
vars   == <<config, server, card_, port, fetched, talk, trig, bumped, polling, ops, loud, spent>>

Settings == Targets \cup {External}
Spend(c) == left[c] > 0 /\ left' = [left EXCEPT ![c] = @ - 1] /\ faulty' = (faulty \/ c = "faults")

NotSaving == [stage |-> "no", put |-> None]
Op(by, kind, t, lk) == [by |-> by, kind |-> kind, to |-> t, lock |-> lk]
Busy(by)  == \E i \in DOMAIN queue : queue[i].by = by
Append1(op) == queue' = Append(queue, op)

\* getManagedEffectiveTriggerPort: what the card says counts before it is saved.
Effective == IF draft # None THEN draft ELSE port
ByLevel(op) == op.kind # "command"

TypeOK ==
  /\ config \in Settings /\ port \in Settings /\ card \in Settings /\ chosen \in Settings
  /\ to \in Targets \cup {None} /\ paused \in BOOLEAN /\ owner \in {"level", "external", None}
  /\ draft \in Settings \cup {None} /\ fetched \in Settings \cup {None}
  /\ saving.stage \in {"no", "asked", "answered", "applying"} /\ saving.put \in Settings \cup {None}
  /\ source \in {"level", "external", None} /\ aim \in Targets \cup {None}
  /\ talking = (aim # None) /\ (lock => source = "external")
  /\ trig \in [active : BOOLEAN, pending : BOOLEAN, must : BOOLEAN]
  /\ \A i \in DOMAIN queue : queue[i].kind \in {"command", "start", "undo", "release", "off", "retarget"}
  /\ \A by \in {"command", "level", "sync", "save"} :
       \A i, j \in DOMAIN queue : queue[i].by = by /\ queue[j].by = by => i = j
  /\ left \in [commands : Nat, edits : Nat, faults : Nat, loud : Nat]
  /\ step \in 0..2 /\ (queue = <<>> => step = 0)

Init ==
  /\ config \in Settings /\ port = config /\ card = config /\ chosen = config
  /\ to = None /\ paused = TRUE /\ owner = None
  /\ draft = None /\ revised = FALSE /\ timer = FALSE /\ again = FALSE /\ saving = NotSaving
  /\ fetched = None
  /\ talking = FALSE /\ source = None /\ aim = None /\ lock = FALSE
  /\ trig = [active |-> FALSE, pending |-> FALSE, must |-> FALSE]
  /\ bumped = FALSE /\ polling = FALSE
  /\ queue = <<>> /\ step = 0 /\ failed = FALSE /\ missed = {}
  /\ loud = FALSE /\ left \in Budgets /\ faulty = FALSE

(***************************************************************************)
(* Operations.  An operation that starts to talk sets the targets and then *)
(* resumes the producer; one that stops pauses it first.                   *)
(***************************************************************************)
\* A variant: stopping takes the targets away before it pauses the producer.
RequestSwapped(op, n) ==
  IF op.to # None
  THEN IF n = 0 THEN to' = op.to /\ UNCHANGED <<paused, owner>>
                ELSE paused' = FALSE /\ owner' = (IF ByLevel(op) THEN "level" ELSE "external") /\ UNCHANGED to
  ELSE IF n = 1 THEN paused' = TRUE /\ UNCHANGED <<to, owner>>
                ELSE to' = None /\ UNCHANGED <<paused, owner>>

\* The requests of performManagedTalkState, as they take effect on the server:
\* POST talk-state and POST producers/resume, or POST producers/pause and
\* POST talk-state.
Request(op, n) ==
  IF op.to # None
  THEN IF n = 0 THEN to' = op.to /\ UNCHANGED <<paused, owner>>
                ELSE paused' = FALSE /\ owner' = (IF ByLevel(op) THEN "level" ELSE "external") /\ UNCHANGED to
  ELSE IF n = 0 THEN paused' = TRUE /\ UNCHANGED <<to, owner>>
                ELSE to' = None /\ UNCHANGED <<paused, owner>>

\* A talk of the level trigger is skipped when the trigger is off by its turn.
Skipped(op) == op.to # None /\ ByLevel(op) /\ Effective = External

\* A variant: operations are not queued, the next one may get through while
\* the first is between its requests.
PerformUnqueued ==
  /\ queue # <<>>
  /\ \/ /\ step < 2 /\ ~(step = 0 /\ Skipped(Head(queue)))
        /\ Request(Head(queue), step)
        /\ step' = step + 1
        /\ UNCHANGED <<talking, source, aim, queue>>
     \/ /\ Len(queue) > 1 /\ step = 1 /\ step' = 1
        /\ LET op == queue[2] IN
           /\ to' = op.to /\ paused' = (op.to = None) /\ aim' = op.to /\ talking' = (op.to # None)
           /\ source' = (IF op.to = None THEN None ELSE IF ByLevel(op) THEN "level" ELSE "external")
        /\ queue' = <<Head(queue)>> \o Tail(Tail(queue))
        /\ UNCHANGED owner
  /\ UNCHANGED <<config, card_, port, fetched, lock, trig, bumped, polling, failed, missed, loud, spent>>

\* The next request of the first operation takes effect.
Perform ==
  /\ queue # <<>> /\ step < 2
  /\ ~(step = 0 /\ Skipped(Head(queue)))
  /\ Request(Head(queue), step)
  /\ step' = step + 1
  /\ UNCHANGED <<config, card_, port, fetched, talk, trig, bumped, polling, queue, failed, missed, loud, spent>>

\* What the caller of the operation does when it is over.  A start is undone
\* if the trigger was switched off or touched meanwhile.
Settle(op, outcome, t, speaks) ==
  LET rest   == Tail(queue)
      stands == outcome = "done" /\ Effective # External /\ ~bumped
      calm   == [t EXCEPT !.pending = FALSE]
  IN CASE op.kind = "start" /\ outcome # "failed" /\ ~stands /\ speaks
            -> queue' = Append(rest, Op("level", "undo", None, FALSE)) /\ trig' = t
       [] op.kind = "start" /\ outcome # "failed" /\ ~(~stands /\ speaks)
            -> queue' = rest /\ trig' = [calm EXCEPT !.active = stands]
       [] op.kind \in {"undo", "release"} /\ outcome = "done" -> queue' = rest /\ trig' = [calm EXCEPT !.active = FALSE]
       [] op.kind = "off" /\ outcome = "done" -> queue' = rest /\ trig' = [calm EXCEPT !.must = FALSE]
       [] op.kind = "command" -> queue' = rest /\ trig' = t
       [] OTHER -> queue' = rest /\ trig' = calm

\* A variant: the lock is set, but never reset.
LockKept(op) == lock \/ op.lock

\* session.lockActive after an operation.
LockAfter(op) == op.lock /\ op.to # None

\* The end of performManagedTalkState: the session takes the state over, and
\* whatever is not of the level trigger resets the trigger.
Finish ==
  /\ queue # <<>> /\ step = 2
  /\ LET op == Head(queue) IN
     /\ talking' = (op.to # None) /\ aim' = op.to
     /\ source' = IF op.to = None THEN None ELSE IF ByLevel(op) THEN "level" ELSE "external"
     /\ lock' = LockAfter(op)
     /\ bumped' = (bumped \/ ~ByLevel(op))
     /\ Settle(op, "done", IF ByLevel(op) THEN trig ELSE [active |-> FALSE, pending |-> FALSE, must |-> FALSE],
               op.to # None /\ ByLevel(op))
  /\ step' = 0 /\ failed' = FALSE /\ missed' = {}
  /\ UNCHANGED <<config, server, card_, port, fetched, polling, loud, spent>>

\* applyManagedTalkState: a queued talk of the trigger finds it switched off.
Skip ==
  /\ queue # <<>> /\ step = 0 /\ Skipped(Head(queue))
  /\ Settle(Head(queue), "skipped", trig, talking /\ source = "level")
  /\ UNCHANGED <<config, server, card_, port, fetched, talk, bumped, polling, step, failed, missed, loud, spent>>

\* A request or its answer is lost.
Fail ==
  /\ queue # <<>> /\ Spend("faults")
  /\ ~(step = 0 /\ Skipped(Head(queue)))
  /\ Settle(Head(queue), "failed", trig, FALSE)
  /\ failed' = TRUE /\ missed' = missed \cup (IF step = 2 /\ Head(queue).to # None THEN {"start"} ELSE {})
                                         \cup (IF Head(queue).kind \in {"undo", "off"} THEN {"end"} ELSE {})
  /\ step' = 0
  /\ UNCHANGED <<config, server, card_, port, fetched, talk, bumped, polling, loud>>

(***************************************************************************)
(* Callers.                                                                *)
(***************************************************************************)
\* handleManagedTalkCommand: events are handled one after the other.
Command ==
  /\ ~Busy("command") /\ Spend("commands")
  /\ \/ Append1(Op("command", "command", None, FALSE))
     \/ \E t \in Targets : Append1(Op("command", "command", t, FALSE))
     \/ \E t \in Targets : Append1(IF lock THEN Op("command", "command", None, FALSE) ELSE Op("command", "command", t, TRUE))
  /\ UNCHANGED <<config, server, card_, port, fetched, talk, trig, bumped, polling, step, failed, missed, loud>>

\* disableManagedLevelTrigger.
Disable(by, force) ==
  /\ bumped' = TRUE
  /\ IF force \/ trig.must \/ (talking /\ source = "level")
     THEN /\ Append1(Op(by, "off", None, FALSE))
          /\ trig' = [trig EXCEPT !.active = FALSE, !.must = @ \/ force]
     ELSE /\ trig' = [trig EXCEPT !.active = FALSE, !.pending = FALSE, !.must = FALSE]
          /\ UNCHANGED queue

\* processManagedLevelTriggers asks for the levels.
PollLevels ==
  /\ ~polling /\ ~Busy("level") /\ Effective # External
  /\ polling' = TRUE
  /\ UNCHANGED <<config, server, card_, port, fetched, talk, trig, bumped, ops, loud, spent>>

\* ... and acts on them; a level has to last a while, so it may also wait.
LevelsKnown ==
  /\ polling /\ polling' = FALSE
  /\ \/ /\ Effective = External
        /\ Disable("level", FALSE)
     \/ /\ Effective # External /\ ~trig.pending /\ loud /\ ~trig.active /\ ~talking
        /\ trig' = [trig EXCEPT !.pending = TRUE] /\ bumped' = FALSE
        /\ Append1(Op("level", "start", Effective, FALSE))
     \/ /\ Effective # External /\ ~trig.pending /\ ~loud /\ trig.active
        /\ IF talking /\ source = "level"
           THEN /\ trig' = [trig EXCEPT !.pending = TRUE]
                /\ Append1(Op("level", "release", None, FALSE))
           ELSE trig' = [trig EXCEPT !.active = FALSE] /\ UNCHANGED queue
        /\ UNCHANGED bumped
     \/ /\ Effective # External
        /\ trig.pending \/ (loud /\ (trig.active \/ talking)) \/ (~loud /\ ~trig.active)
        /\ UNCHANGED <<trig, bumped, queue>>
  /\ UNCHANGED <<config, server, card_, port, fetched, talk, step, failed, missed, loud, spent>>

\* A variant: a trigger that is switched off by the configuration is left to
\* the trigger's own loop.
ReconcileLazily(by, cfg) == port' = cfg /\ UNCHANGED <<queue, trig, bumped>>

\* reconcileManagedBridgeConfig, for a session that lives on.
Reconcile(by, cfg) ==
  LET level == talking /\ source = "level" IN
  /\ port' = cfg
  /\ IF cfg = External /\ (port # External \/ trig.must \/ level)
     THEN Disable(by, port # External \/ trig.must)
     ELSE IF cfg # External /\ level /\ aim # cfg
     THEN /\ Append1(Op(by, "retarget", cfg, FALSE))
          /\ trig' = [trig EXCEPT !.pending = TRUE]
          /\ UNCHANGED bumped
     ELSE UNCHANGED <<queue, trig, bumped>>

\* syncManagedBridge: the configuration of the server, as it is now, arrives later.
Fetch ==
  /\ fetched = None /\ ~Busy("sync") /\ fetched' = config
  /\ UNCHANGED <<config, server, card_, port, talk, trig, bumped, polling, ops, loud, spent>>

Fetched ==
  /\ fetched # None /\ fetched' = None
  /\ Reconcile("sync", fetched)
  /\ UNCHANGED <<config, server, card_, talk, polling, step, failed, missed, loud, spent>>

\* handleManagedPortControlChange: the user changes something on the card.
Edit(m) ==
  /\ Spend("edits")
  /\ card' = m /\ chosen' = m /\ draft' = m /\ revised' = TRUE /\ timer' = TRUE
  /\ IF m = External /\ card # External /\ (port # External \/ talking \/ trig.active \/ trig.must)
     THEN port' = External /\ Disable("edit", TRUE)
     ELSE UNCHANGED <<port, queue, trig, bumped>>
  /\ UNCHANGED <<config, server, again, saving, fetched, talk, polling, step, failed, missed, loud>>

\* runManagedPortAutoSave, saveManagedBridgePort: the card is read again.
Save ==
  /\ timer /\ timer' = FALSE
  /\ IF saving.stage # "no" THEN again' = TRUE /\ UNCHANGED <<draft, revised, saving>>
     ELSE /\ draft' = card /\ revised' = FALSE
          /\ saving' = [stage |-> "asked", put |-> card]
          /\ UNCHANGED again
  /\ UNCHANGED <<config, server, card, chosen, port, fetched, talk, trig, bumped, polling, ops, loud, spent>>

\* PUT ports: updateUserBridgeEndpoint, then the configuration as the answer.
Put ==
  /\ saving.stage = "asked" /\ saving' = [saving EXCEPT !.stage = "answered"]
  /\ config' = saving.put
  /\ UNCHANGED <<server, card, chosen, draft, revised, timer, again, port, fetched, talk, trig, bumped, polling, ops, loud, spent>>

\* A variant: the draft goes with every answer.
SavedAll ==
  /\ saving.stage = "answered" /\ saving' = [saving EXCEPT !.stage = "applying"]
  /\ draft' = None
  /\ Reconcile("save", saving.put)
  /\ UNCHANGED <<config, server, card, chosen, revised, timer, again, fetched, talk, polling, step, failed, missed, loud, spent>>

\* The answer: the draft is kept if it was revised meanwhile.
Saved ==
  /\ saving.stage = "answered" /\ saving' = [saving EXCEPT !.stage = "applying"]
  /\ draft' = IF revised THEN draft ELSE None
  /\ Reconcile("save", saving.put)
  /\ UNCHANGED <<config, server, card, chosen, revised, timer, again, fetched, talk, polling, step, failed, missed, loud, spent>>

\* The save ends, or fails because the request or its answer was lost; then
\* only the next edit tries again.
SaveEnds ==
  /\ \/ saving.stage = "applying" /\ ~Busy("save") /\ UNCHANGED spent
     \/ saving.stage \in {"asked", "answered"} /\ Spend("faults")
  /\ saving' = NotSaving
  /\ timer' = (timer \/ again) /\ again' = FALSE
  /\ UNCHANGED <<config, server, card, chosen, draft, revised, port, fetched, talk, trig, bumped, polling, ops, loud>>

\* renderManagedBridgePorts, when no control of the card has the focus.
Render ==
  /\ card # Effective /\ card' = Effective
  /\ UNCHANGED <<config, server, chosen, draft, revised, timer, again, saving, port, fetched, talk, trig, bumped, polling, ops, loud, spent>>

Sound ==
  /\ loud' = ~loud
  /\ IF loud THEN UNCHANGED spent ELSE Spend("loud")
  /\ UNCHANGED <<config, server, card_, port, fetched, talk, trig, bumped, polling, ops>>

Next ==
  \/ Perform \/ Finish \/ Skip \/ Fail \/ Command
  \/ PollLevels \/ LevelsKnown \/ Fetch \/ Fetched
  \/ \E m \in Settings : Edit(m)
  \/ Save \/ Put \/ Saved \/ SaveEnds \/ Render \/ Sound

Spec == Init /\ [][Next]_vars

\* Requests are answered, timers fire, and the user leaves the card in the end.
Fairness ==
  /\ WF_vars(Perform) /\ WF_vars(Finish) /\ WF_vars(Skip)
  /\ WF_vars(PollLevels) /\ WF_vars(LevelsKnown) /\ WF_vars(Fetch) /\ WF_vars(Fetched)
  /\ WF_vars(Save) /\ WF_vars(Put) /\ WF_vars(Saved)
  /\ WF_vars(SaveEnds /\ UNCHANGED spent) /\ WF_vars(Render)

LiveSpec == Spec /\ Fairness

(***************************************************************************)
(* Properties.                                                             *)
(***************************************************************************)
\* The producer runs only while the peer has a target: audio of a bridge is
\* never sent without the server knowing whom it is for.
HotOnlyAddressed == ~paused => to # None

\* When no operation is under way and the last one did not fail, the server
\* has the talk state the session shows.
Agreement ==
  (queue = <<>> /\ ~failed) => (talking = ~paused /\ aim = to)

\* A talk of the level trigger ends once the trigger is switched off on the
\* card or in the configuration, also if it was about to start and also if a
\* request of its end is lost.  Only the lost answer to its start leaves it on.
LevelEnds ==
  (Effective = External /\ owner = "level" /\ ~paused)
    ~> (Effective # External \/ owner # "level" \/ paused \/ "start" \in missed)

\* A talk of the level trigger ends when the input has become quiet, also if
\* the first request to end it is lost.  The trigger takes a talk for none of
\* its own when the answer to its start was lost, or the request that was to
\* end it because the settings changed meanwhile.
QuietCloses ==
  (owner = "level" /\ ~paused /\ ~loud)
    ~> (loud \/ owner # "level" \/ paused \/ missed # {})

\* Talks of the level trigger end.
LevelTalksEnd == LevelEnds /\ QuietCloses

\* What the user chose last comes to be saved and in force, unless saving it
\* failed, and then it is still on the card as a draft.
ChoiceKept ==
  <>[](\/ draft = None /\ chosen = config /\ port = config /\ card = config
       \/ draft = chosen /\ card = chosen /\ faulty)
=============================================================================
