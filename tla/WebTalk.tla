------------------------------- MODULE WebTalk -------------------------------
(***************************************************************************)
(* The talk controls of the web client (public/client.js): buttons, keys,  *)
(* the level trigger, locks and the commands of a Companion all press and  *)
(* release targets of one talk producer, which is created once, paused     *)
(* between talks and resumed with the next.                                *)
(*                                                                         *)
(* The page is one record; a handler is an operator from a page to a page, *)
(* up to its next await.  What the page sends takes effect at the server   *)
(* in the order sent, so served, routed and reported change when the page  *)
(* sends; the answers wait in acks.  Lists of targets are sets, and the    *)
(* microphone is open exactly while the page believes it talks.            *)
(***************************************************************************)
EXTENDS Naturals, Sequences

CONSTANTS
  Targets,    \* conferences and online users with a button
  Pointers,   \* fingers and mice
  Keys,       \* hotkeys, and the input keys of Companion commands
  Voice,      \* the input key of the level trigger
  None,
  Attempts    \* bounds: what may happen in a behaviour, as records left

Inputs == Pointers \cup Keys \cup {Voice}

\* The page tells inputs from each other, and targets and inputs from nothing.
ControlsAssumption ==
  /\ None \notin Targets \cup Inputs
  /\ Pointers \cap (Keys \cup {Voice}) = {}

VARIABLES
  page,       \* the page and what the server made of its messages
  left        \* presses, stops from elsewhere, and faults that may still come

vars == <<page, left>>

NoStart == [stage |-> "none", canceled |-> FALSE, targets |-> {}]

\* A finger on the talk button or on the row of a target, or on the reply button:
\* at tells which of them hears of its end, slid whether it moved to the lock,
\* asks whether it wants to talk - the tap that ends a lock does not.
NoFinger == [target |-> None, at |-> "nothing", slid |-> FALSE, asks |-> FALSE]

(***************************************************************************)
(* Parts of a page: pressed (activeTalkPointers), locks, suspended locks   *)
(* and their timer restore, current (currentTargets), talking, start       *)
(* (pendingTalkStart), warm (warmTalkProducerPromise), waiting (presses    *)
(* that wait for it), producer, multi (lockMultipleTargetsEnabled), voice  *)
(* (voiceTriggerActive), inhibited, refresh (an audio setting waits for    *)
(* the end of the talk); rows (the gesture of a row: none, one, or one that*)
(* slid to the lock); acks; at the server served, routed and reported.     *)
(* What really is: fingers, and remote, the target that a Companion presses*)
(* without an input key, which is forgotten as soon as the page addresses  *)
(* others.  races names the races of which the properties speak, and over  *)
(* tells that a finger let go while a lock stood.                          *)
(***************************************************************************)
Held(p) == {p.pressed[i] : i \in Inputs} \ {None}
\* collectActiveTalkTargetsFromPointers
Wanted(p) == p.locks \cup Held(p)
Addressees(p) == Wanted(p) \cup p.remote

Race(p, name) == [p EXCEPT !.races = @ \cup {name}]
Ack(p, a) == [p EXCEPT !.acks = Append(@, a)]

\* emitTalkTargetsUpdated and emitPttState.
SendTargets(p, ts) == [p EXCEPT !.routed = ts]
SendPtt(p, talking, ts) ==
  IF talking /\ ts # {} THEN [p EXCEPT !.reported = TRUE, !.routed = ts]
  ELSE [p EXCEPT !.reported = FALSE]

\* pauseTalkProducer and resumeTalkProducer, until their answers.
Pause(p, restore) ==
  Ack([p EXCEPT !.producer = "paused", !.served = "paused"], [of |-> "pause", restore |-> restore])
Resume(p, ts) ==
  Ack([p EXCEPT !.producer = "live", !.served = "live"], [of |-> "resume", targets |-> ts])

\* notifyServerProducerClosed and close.  The handler of the page for "close"
\* never runs: a producer tells its own closing only to its observer.
CloseProducer(p) == [p EXCEPT !.producer = "none", !.served = "none"]

SetCurrent(p, ts) == [p EXCEPT !.current = ts, !.remote = @ \cap ts]

\* ensureWarmTalkProducer, until the microphone is open.
Warm(p) ==
  IF p.producer # "none" \/ p.start # NoStart \/ p.talking \/ p.warm # "none" THEN p
  ELSE [p EXCEPT !.warm = "mic"]

\* refreshTalkProducerForAudioProcessingChange.
Refresh(p) ==
  IF p.talking \/ p.start # NoStart THEN [p EXCEPT !.refresh = TRUE]
  ELSE Warm(IF p.producer = "none" THEN p ELSE CloseProducer(p))

(***************************************************************************)
(* handleTalk, from the point where a warm producer is there or not.       *)
(***************************************************************************)
Proceed(p, ts) ==
  IF p.producer # "none"
  THEN Resume([SendTargets(p, ts) EXCEPT !.current = ts, !.talking = TRUE], ts)
  ELSE IF p.start # NoStart
  THEN SendPtt(SendTargets(IF p.start.canceled THEN Race(p, "restart") ELSE p, ts), TRUE, ts)
  ELSE SendTargets([p EXCEPT !.start = [stage |-> "mic", canceled |-> FALSE, targets |-> ts]], ts)

\* A variant: the press forgets the other inputs that are held.
TalkAlone(p, i, t) ==
  LET q == SetCurrent([p EXCEPT !.pressed = IF i = None THEN @ ELSE [@ EXCEPT ![i] = t]], {t})
  IN  IF q.producer = "none" /\ q.warm # "none"
      THEN [q EXCEPT !.waiting = Append(@, [input |-> i, targets |-> q.current])]
      ELSE Proceed(q, q.current)

\* handleTalk: the input i, or none, presses the target t.
Talk(p, i, t) ==
  LET q == IF i = None
           THEN SetCurrent(IF Held(p) \subseteq p.locks \cup {t} THEN p ELSE Race(p, "lock"), p.locks \cup {t})
           ELSE LET r == [p EXCEPT !.pressed[i] = t] IN SetCurrent(r, Wanted(r))
  IN  IF q.producer = "none" /\ q.warm # "none"
      THEN [q EXCEPT !.waiting = Append(@, [input |-> i, targets |-> q.current])]
      ELSE Proceed(q, q.current)

ClearLocks(p) ==
  IF p.locks = {} THEN p
  ELSE SendPtt([p EXCEPT !.locks = {}], p.talking \/ p.start # NoStart, p.current)

\* The part of handleStopTalking that ends the talk.
StopAll(p, restore) ==
  LET q == SendTargets(ClearLocks([p EXCEPT !.talking = FALSE, !.start.canceled = p.start # NoStart]), {})
      r == IF q.producer = "none" THEN q ELSE Pause(q, restore)
      s == SendPtt(SetCurrent([r EXCEPT !.pressed = [i \in Inputs |-> None]], {}), FALSE, {})
      u == IF restore /\ q.producer = "none" THEN [s EXCEPT !.restore = TRUE] ELSE s
  IN  IF p.refresh THEN Refresh([u EXCEPT !.refresh = FALSE]) ELSE u

\* handleStopTalking: the input i, or none, lets go; other tells that it lets go
\* of an element of the page which is not the button of a lock.
Stop(p, i, other, suppress) ==
  IF ~p.multi /\ p.locks # {} /\ other THEN p
  ELSE IF i # None /\ p.pressed[i] # None
  THEN LET q == [p EXCEPT !.pressed[i] = None]
           r == SetCurrent(q, Wanted(q))
       IN  IF r.current # {} THEN SendPtt(SendTargets(r, r.current), TRUE, r.current)
           ELSE StopAll(r, p.suspended # {} /\ ~suppress)
  ELSE StopAll(p, p.suspended # {} /\ ~suppress)

\* stopTalkingSafely.
StopSafely(p, respectLock, i) ==
  IF \/ p.producer # "live" /\ ~p.talking /\ p.start = NoStart /\ p.current = {}
        /\ Held(p) = {} /\ p.locks = {}
     \/ respectLock /\ p.locks # {}
     \/ i # None /\ p.pressed[i] = None /\ Held(p) # {}
  THEN p
  ELSE Stop(p, IF i # None /\ p.pressed[i] # None THEN i ELSE None, FALSE, FALSE)

(***************************************************************************)
(* Locks.                                                                  *)
(***************************************************************************)
\* activateTalkLock.
Lock(p, t) ==
  LET q == [p EXCEPT !.locks = IF p.multi THEN @ \cup {t} ELSE {t}, !.suspended = {}, !.restore = FALSE]
  IN  SendPtt(IF q.current \subseteq q.locks THEN q ELSE Race(q, "lock"), q.talking \/ q.start # NoStart, q.locks)

\* removeTalkLock.
Unlock(p, t) ==
  LET q == [p EXCEPT !.locks = @ \ {t}]
      r == SetCurrent(q, Wanted(q))
  IN  IF r.current # {} THEN SendPtt(SendTargets(r, r.current), TRUE, r.current)
      ELSE Stop(r, None, FALSE, TRUE)

\* suspendActiveLockState.
Suspend(p) == ClearLocks([p EXCEPT !.suspended = p.locks])

\* toggleTalkLock.
Toggle(p, t) ==
  IF t \in p.locks THEN IF p.multi THEN Unlock(p, t) ELSE Stop(p, None, FALSE, FALSE)
  ELSE LET q == IF ~p.multi /\ (p.locks # {} \/ p.producer # "none") THEN Stop(p, None, FALSE, FALSE) ELSE p
       IN  Talk(Lock(q, t), None, t)

(***************************************************************************)
(* Events of the page.                                                     *)
(***************************************************************************)
Spend(what) == left[what] > 0 /\ left' = [left EXCEPT ![what] = @ - 1]

\* What a press does: on the button or the row of a locked target it ends the
\* lock, which the button then hears no more of; and a lock that stands alone
\* waits for the end of the talk.  The reply button knows of no locks.
Pressed(i, t, at) ==
  LET finger(to, asks) == [target |-> t, at |-> to, slid |-> FALSE, asks |-> asks]
      p == [page EXCEPT !.fingers[i] = finger(at, TRUE), !.rows[t] = IF at = "row" THEN "pressed" ELSE @]
      q == [page EXCEPT !.fingers[i] = finger(IF at = "row" THEN at ELSE "nothing", FALSE)]
  IN  IF at = "reply" THEN Talk(p, i, t)
      ELSE IF t \in p.locks THEN IF p.multi THEN Unlock(q, t) ELSE Stop(q, None, FALSE, FALSE)
      ELSE IF p.locks # {} /\ ~p.multi
      THEN Talk(Stop(Suspend(p), None, FALSE, TRUE), i, t)
      ELSE Talk(p, i, t)

\* pointerdown on the talk button or the row of a target, or on the reply button.
Press(i, t) ==
  /\ page.fingers[i] = NoFinger /\ t \in page.shown
  /\ \E at \in {"button", "row", "reply"} : page' = Pressed(i, t, at)
  /\ Spend("presses")

\* The finger slides to the lock.
SlideToLock(i) ==
  LET f == page.fingers[i]
      p == IF page.pressed[i] # f.target THEN Race(page, "slide") ELSE page
  IN  /\ f.target \in Targets \ page.locks
      /\ \/ f.at = "button" /\ ~f.slid /\ page' = Lock([p EXCEPT !.fingers[i].slid = TRUE], f.target)
         \/ f.at = "row" /\ page.rows[f.target] = "pressed" /\ page' = Lock([p EXCEPT !.rows[f.target] = "slid"], f.target)
      /\ UNCHANGED left

\* What the button, the row or the reply button does of its end: over a lock that
\* stands alone, only the button of the lock listens, never its row.
Heeds(p, i, f) ==
  IF f.at = "row" THEN IF p.rows[f.target] = "none" THEN p
                       ELSE Stop([p EXCEPT !.rows[f.target] = "none"], i, TRUE, FALSE)
  ELSE IF f.at = "nothing" THEN p
  ELSE Stop(p, i, f.at = "reply" \/ f.target \notin p.locks, FALSE)

\* pointerup: the element hears of it first, then the window.
Release(i) ==
  LET p == [page EXCEPT !.fingers[i] = NoFinger, !.over = @ \/ page.locks # {}] IN
  /\ page.fingers[i] # NoFinger
  /\ page' = StopSafely(Heeds(p, i, page.fingers[i]), TRUE, i)
  /\ UNCHANGED left

\* keydown of a hotkey, refused over a lock; or a command of a Companion.
KeyPress(i, t) ==
  /\ page.pressed[i] = None /\ t \in page.shown
  /\ page' = Talk(page, i, t)
  /\ Spend("presses")

\* keyup, for a key that still holds its target; or a command, for any.
KeyRelease(i) ==
  /\ page' = Stop(page, i, FALSE, FALSE)
  /\ IF page.pressed[i] # None THEN UNCHANGED left ELSE Spend("stops")

\* Commands of a Companion without an input key.
PressCommand(t) ==
  t \in page.shown /\ page' = Talk([page EXCEPT !.remote = {t}], None, t) /\ Spend("presses")
ReleaseCommand ==
  /\ page' = Stop(page, None, FALSE, FALSE)
  /\ IF page.remote # {} THEN UNCHANGED left ELSE Spend("stops")

\* A command of a Companion to lock or unlock a target.
LockToggle(t) == t \in page.shown /\ page' = Toggle(page, t) /\ Spend("presses")

\* The level trigger: an input over, or under, its threshold for long enough.
VoiceRises(t) ==
  /\ ~page.voice /\ ~page.inhibited /\ t \in page.shown
  /\ page.producer # "live" /\ page.start = NoStart /\ ~page.talking /\ page.locks = {}
  /\ page' = Talk([page EXCEPT !.voice = TRUE], Voice, t)
  /\ Spend("presses")

VoiceFalls ==
  /\ page.voice \/ page.inhibited
  /\ page' = IF page.voice THEN Stop([page EXCEPT !.voice = FALSE], Voice, FALSE, TRUE)
             ELSE [page EXCEPT !.inhibited = FALSE]
  /\ UNCHANGED left

\* An administrator ends the transmission.
ForceStop ==
  /\ page' = Stop([page EXCEPT !.suspended = {}, !.restore = FALSE, !.voice = FALSE, !.inhibited = TRUE],
                  None, FALSE, TRUE)
  /\ Spend("stops")

\* The page loses the focus, or is left.
Blur == \E respectLock \in BOOLEAN : page' = StopSafely(page, respectLock, None) /\ Spend("stops")

\* The button and the row of a finger are new ones, which hear nothing of it.
Rebuilt(finger) == IF finger.at = "reply" THEN finger ELSE [finger EXCEPT !.at = "nothing"]

\* renderTargetList: keys that are down are let go, and locks on targets that have
\* no button any more end.
Rerender ==
  /\ \E shown \in (SUBSET Targets) \ {page.shown} :
       LET p == [page EXCEPT !.shown = shown,
                   !.rows = [t \in Targets |-> "none"],
                   !.fingers = [i \in Pointers |-> Rebuilt(page.fingers[i])]]
           q == IF \E k \in Keys : p.pressed[k] # None THEN Stop(p, None, FALSE, FALSE) ELSE p
           r == SetCurrent([q EXCEPT !.locks = @ \cap shown], Wanted([q EXCEPT !.locks = @ \cap shown]))
       IN  page' = IF q.locks \subseteq shown THEN q
                   ELSE IF r.current # {} THEN SendTargets(r, r.current)
                   ELSE Stop(r, None, FALSE, TRUE)
  /\ Spend("stops")

\* setLockMultipleTargets: of several locks one is kept.
LockMany == ~page.multi /\ page' = [page EXCEPT !.multi = TRUE] /\ Spend("stops")
LockOneOnly ==
  /\ page.multi
  /\ \E kept \in SUBSET page.locks :
       /\ page.locks # {} <=> kept # {} /\ \A t, u \in kept : t = u
       /\ LET p == [page EXCEPT !.multi = FALSE, !.locks = kept]
              q == SetCurrent(p, Wanted(p))
          IN  page' = IF kept = page.locks THEN p
                      ELSE SendPtt(SendTargets(q, q.current), q.current # {}, q.current)
  /\ Spend("stops")

\* A setting of the microphone changes.
ChangeProcessing == page' = Refresh(page) /\ Spend("stops")

(***************************************************************************)
(* What comes after an await.                                              *)
(***************************************************************************)
\* The restore timer; it waits for the end of another talk.
RestoreLocks ==
  /\ page.restore /\ page.start = NoStart /\ ~page.talking /\ page.current = {}
  /\ page' = LET again == page.suspended \cap page.shown
                 p == [page EXCEPT !.restore = FALSE, !.suspended = {}]
                 q == [p EXCEPT !.locks = again]
             IN  IF again = {} THEN p
                 ELSE Talk(SendPtt(q, FALSE, again), None, CHOOSE t \in again : TRUE)
  /\ UNCHANGED left

\* handleTalk, with the microphone open.
MicReady ==
  /\ page.start.stage = "mic"
  /\ page' = LET ts == IF page.current = {} THEN page.start.targets ELSE page.current IN
             IF page.start.canceled THEN [page EXCEPT !.start = NoStart]
             ELSE Ack([page EXCEPT !.current = ts, !.talking = TRUE, !.start.stage = "produce",
                                   !.served = "live"], [of |-> "start"])
  /\ UNCHANGED left

\* handleTalk, when the start fails.
StartFails(p) ==
  LET q == [p EXCEPT !.start = NoStart]
      r == SetCurrent([ClearLocks(q) EXCEPT !.talking = FALSE, !.pressed = [i \in Inputs |-> None]], {})
  IN  IF p.start.canceled THEN q ELSE SendPtt(SendTargets(r, {}), FALSE, {})

\* The browser gives no microphone.
MicFails == page.start.stage = "mic" /\ page' = StartFails(page) /\ Spend("faults")

Started(p) ==
  IF ~p.talking \/ p.start.canceled THEN CloseProducer([p EXCEPT !.start = NoStart])
  ELSE SendPtt(SendTargets([p EXCEPT !.start = NoStart, !.producer = "live"], p.current), TRUE, p.current)

\* Presses that waited go on, in their order.
Woken(p) ==
  LET f[n \in 0 .. Len(p.waiting)] ==
        IF n = 0 THEN [p EXCEPT !.warm = "none", !.waiting = <<>>]
        ELSE LET w == p.waiting[n]
                 gone == w.input # None /\ p.pressed[w.input] \notin w.targets
             IN  Proceed(IF gone \/ w.targets # Addressees(p) THEN Race(f[n - 1], "warm") ELSE f[n - 1], w.targets)
  IN  f[Len(p.waiting)]

WarmMic ==
  /\ page.warm = "mic"
  /\ page' = IF page.start # NoStart \/ page.talking \/ page.producer # "none" THEN Woken(page)
             ELSE Ack([page EXCEPT !.warm = "produce", !.served = "live"], [of |-> "warm"])
  /\ UNCHANGED left

WarmFails == page.warm = "mic" /\ page' = Woken(page) /\ Spend("faults")

\* The answer to a pause or resume, which may be an error; as that to produce may.
Paused(p, ok, restore) ==
  LET q == IF ok \/ p.producer = "none" THEN p ELSE CloseProducer(p)
      r == IF p.warm = "pause" THEN Woken(q) ELSE q
  IN  IF restore THEN [r EXCEPT !.restore = TRUE] ELSE r

Resumed(p, ok, ts) ==
  IF ok THEN SendPtt(IF ~p.talking \/ ts # p.current THEN Race(p, "late") ELSE p, TRUE, ts)
  ELSE SendPtt(SendTargets([p EXCEPT !.talking = FALSE], {}), FALSE, {})

Answer ==
  /\ page.acks # <<>>
  /\ LET ack == Head(page.acks)
         p == [page EXCEPT !.acks = Tail(@)]
     IN  \/ ack.of = "start" /\ page' = Started(p) /\ UNCHANGED left
         \/ ack.of = "start" /\ page' = StartFails([p EXCEPT !.served = "none"]) /\ Spend("faults")
         \/ ack.of = "warm" /\ page' = Woken([p EXCEPT !.served = "none"]) /\ Spend("faults")
         \/ ack.of = "warm" /\ page' = Pause([p EXCEPT !.warm = "pause"], FALSE) /\ UNCHANGED left
         \/ ack.of = "pause" /\ page' = Paused(p, TRUE, ack.restore) /\ UNCHANGED left
         \/ ack.of = "pause" /\ page' = Paused(Race(p, "fault"), FALSE, ack.restore) /\ Spend("faults")
         \/ ack.of = "resume" /\ page' = Resumed(p, TRUE, ack.targets) /\ UNCHANGED left
         \/ ack.of = "resume" /\ page' = Resumed(Race(p, "fault"), FALSE, ack.targets) /\ Spend("faults")

\* The connection is lost and regained: everything ends, and a producer is
\* prepared anew.
Reconnect ==
  /\ page.warm = "none" /\ page.acks = <<>> /\ page.start.stage # "produce"
  /\ page' = LET p == StopSafely(page, FALSE, None) IN
             Warm([p EXCEPT !.locks = {}, !.producer = "none", !.acks = <<>>,
                            !.served = "none", !.routed = {}, !.reported = FALSE])
  /\ Spend("faults")

Init ==
  /\ left \in Attempts
  /\ \E warm \in {"none", "mic"}, multi \in BOOLEAN :
       page = [pressed |-> [i \in Inputs |-> None], locks |-> {}, suspended |-> {}, restore |-> FALSE,
               current |-> {}, talking |-> FALSE, start |-> NoStart, warm |-> warm, waiting |-> <<>>,
               producer |-> "none", multi |-> multi, voice |-> FALSE, inhibited |-> FALSE,
               refresh |-> FALSE, fingers |-> [i \in Pointers |-> NoFinger], rows |-> [t \in Targets |-> "none"],
               remote |-> {}, shown |-> Targets, acks |-> <<>>, served |-> "none", routed |-> {},
               reported |-> FALSE, races |-> {}, over |-> FALSE]

Next ==
  \/ \E i \in Pointers : (\E t \in Targets : Press(i, t)) \/ SlideToLock(i) \/ Release(i)
  \/ \E k \in Keys : (\E t \in Targets : KeyPress(k, t)) \/ KeyRelease(k)
  \/ \E t \in Targets : PressCommand(t) \/ LockToggle(t) \/ VoiceRises(t)
  \/ ReleaseCommand \/ VoiceFalls \/ ForceStop \/ Blur \/ Rerender \/ LockOneOnly \/ LockMany \/ ChangeProcessing
  \/ RestoreLocks \/ MicReady \/ MicFails \/ WarmMic \/ WarmFails \/ Answer \/ Reconnect

Spec == Init /\ [][Next]_vars

TypeOK ==
  /\ page.pressed \in [Inputs -> Targets \cup {None}]
  /\ page.locks \cup page.suspended \cup page.current \cup page.routed \subseteq Targets
  /\ page.warm \in {"none", "mic", "produce", "pause"} /\ page.producer \in {"none", "paused", "live"}
  /\ page.served \in {"none", "paused", "live"} /\ page.start.stage \in {"none", "mic", "produce"}

(***************************************************************************)
(* Properties.                                                             *)
(***************************************************************************)
Settled ==
  /\ page.acks = <<>> /\ page.start = NoStart /\ page.warm = "none"
  /\ ~(page.restore /\ page.current = {} /\ ~page.talking)

Heard == IF page.served = "live" THEN page.routed ELSE {}

\* A press of which the page knows, but no finger: one that was let go over a lock.
Left(p) == {i \in Pointers : p.pressed[i] # None /\ ~p.fingers[i].asks}
\* What the operator and the Companions ask for.
Asked(p) == p.locks \cup ({p.pressed[i] : i \in Inputs \ Left(p)} \ {None}) \cup p.remote

\* With no input held and no lock the server passes nothing on, whatever was
\* pressed, locked, slid, stopped or refused before.
NoOpenMicrophone == Settled /\ Asked(page) = {} => Heard = {}

\* The server passes on to the targets that are held or locked and to no other,
\* and reports a talk only then; a press is left behind, and talks on when the
\* lock has gone, only if it was let go over a lock.  Not so after the races the
\* page loses: a press released while the first producer is prepared ("warm"),
\* one while a canceled start is under way ("restart"), a slide to lock of a
\* finger whose press is gone ("slide"), an answer to a resume that comes after a release or with
\* targets since changed ("late"), a lock or a press without a key while other
\* targets are held, which the server is then not told of ("lock"), and failed
\* requests ("fault").
TalkFollowsInputs ==
  /\ ~page.over => Left(page) = {}
  /\ Settled =>
       /\ "warm" \notin page.races /\ Asked(page) = {} /\ Left(page) = {} => Heard = {}
       /\ page.races = {} =>
            Heard = Asked(page) \cup {page.pressed[i] : i \in Left(page)} /\ (page.reported => Heard # {})
==============================================================================
