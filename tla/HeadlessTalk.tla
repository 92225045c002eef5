---------------------------- MODULE HeadlessTalk ----------------------------
(***************************************************************************)
(* Talking from the web interface of a headless client (web/assets/app.js):*)
(* the rows, the reply button and the mirrored Stream Deck keys of a page, *)
(* which say what they are told by separate HTTP requests, and the client's*)
(* talk model (talk.rs), which the page sees by polling.  Requests overtake*)
(* each other, answers too; rows, the view and the session go away under a *)
(* finger; the client loses its server or is restarted.                    *)
(***************************************************************************)
EXTENDS Naturals, Sequences, SequencesExt

CONSTANTS
  None,
  Users, Confs,     \* targets
  Reply, Key,       \* the reply button; a deck key that talks to Pinned
  Pinned,
  Attempts          \* bounds: presses, changes, faults; answers on their way at one time

VARIABLES
  world,   \* the headless client
  page,    \* the page, and what is on its way between them
  left     \* what may still happen

vars == <<world, page, left>>

Targets == Users \cup Confs
Refs == Targets \cup {Reply, Key}

\* The reply button and the key are no rows.
HeadlessAssumption == None \notin Refs /\ {Reply, Key} \cap Targets = {} /\ Reply # Key

-----------------------------------------------------------------------------
(***************************************************************************)
(* The client.  held: the target a source of the web interface holds, per  *)
(* element; cut: the press ended a lock; lone: talk.lock_multiple is off;  *)
(* told: the targets the server was told of over the present session.      *)
(***************************************************************************)
Started(lone) ==
  [up |-> TRUE, on |-> TRUE, valid |-> TRUE, has |-> Targets, here |-> Users, reply |-> None, locked |-> {},
   held |-> [r \in Refs |-> None], cut |-> {}, lone |-> lone,
   told |-> {}]

Held(w) == {w.held[r] : r \in Refs} \ {None}
Snapshot(w) ==
  [on |-> w.on, rows |-> w.has, here |-> w.here, reply |-> w.reply,
   locked |-> w.locked \cap w.has, held |-> Held(w) \cap w.has]

\* TalkModel::resolve, user_target_offline and target_is_talkable
KeyOf(w, r) == CASE r = Reply -> w.reply [] r = Key -> Pinned [] OTHER -> r
Talkable(w, k) == k \in Confs \/ k \in Users \cap w.here \cap w.has

Lock(w, k) == [w EXCEPT !.locked = (IF w.lone THEN {} ELSE @) \cup {k}]
\* TalkModel::press
PressAt(w, r, k) ==
  [w EXCEPT !.held[r] = k, !.cut = IF k \in w.locked THEN @ \cup {r} ELSE @ \ {r}, !.locked = @ \ {k}]
\* TalkModel::release: a short one locks, unless its press ended the lock.
ReleaseAt(w, r, tap) ==
  LET freed == [w EXCEPT !.held[r] = None] IN
  IF tap /\ w.held[r] # None /\ r \notin w.cut THEN Lock(freed, w.held[r]) ELSE freed
\* TalkModel::toggle_lock
ToggleAt(w, k) == IF k \in w.locked THEN [w EXCEPT !.locked = @ \ {k}] ELSE Lock(w, k)
\* TalkModel::reset
Reset(w) == [w EXCEPT !.held = [r \in Refs |-> None], !.locked = {}]

\* send_talk_change; without a session pending_talk_change waits for one.
Tell(w) == [w EXCEPT !.told = IF w.on THEN Held(w) \cup w.locked ELSE {}]

\* POST /api/talk and /api/streamdeck/input, and the command they become, with a session or without
Obey(w, m, tap) ==
  LET k == KeyOf(w, m.ref) IN
  CASE m.act = "release" -> Tell(ReleaseAt(w, m.ref, tap))
    [] m.act = "press" /\ Talkable(w, k) -> Tell(PressAt(w, m.ref, k))
    [] m.act = "lock" /\ Talkable(w, k) -> Tell(ToggleAt(w, k))
    [] OTHER -> w

-----------------------------------------------------------------------------
(***************************************************************************)
(* The page.  look: what an element shows, on and locked; active, slid: of *)
(* bindHoldTalk and deckHeld; finger: the element the user holds, which    *)
(* the page cannot see; fresh: nothing was drawn since the last answer.    *)
(* amiss: the elements whose release or lock went wrong.                   *)
(***************************************************************************)
Off == [on |-> FALSE, locked |-> FALSE]
Blank ==
  [auth |-> TRUE, polling |-> TRUE, restarting |-> FALSE, snap |-> None, rows |-> {}, locks |-> {}, pressed |-> {},
   active |-> {}, slid |-> {}, look |-> [r \in Refs |-> Off], finger |-> None, fresh |-> FALSE,
   posts |-> <<>>, answers |-> <<>>, amiss |-> {}]

Post(p, r, act) == [p EXCEPT !.posts = Append(@, [ref |-> r, act |-> act])]
Doubt(p, rs) == [p EXCEPT !.amiss = @ \cup rs]
Sent(p, r) == \E i \in DOMAIN p.posts : p.posts[i].ref = r

IsLocked(p, r) ==
  IF r # Reply THEN p.look[r].locked
  ELSE /\ p.snap # None /\ p.snap.reply # None
       /\ p.snap.reply \in p.snap.locked \cup p.locks \/ Reply \in p.locks

\* updateTargetRow
RowLook(p, s, t) ==
  LET locked == t \in s.locked \cup p.locks IN
  [on |-> locked \/ t \in s.held \cup p.pressed, locked |-> locked]
\* updateReply
ReplyLook(p, s) ==
  [on |-> \/ Reply \in p.pressed \cup p.locks
          \/ s.reply \in s.rows \cap (s.held \cup s.locked \cup p.locks), locked |-> FALSE]
ReplyDisabled(s) == s.reply = None \/ (s.reply \in Users /\ s.reply \in s.rows \ s.here)

\* A variant: locks shown ahead of the client stay.
LocksOfBoth(p, s) ==
  p.locks \cup s.locked \cup (IF s.reply \in s.locked THEN {Reply} ELSE {})
\* renderRemote: the locks are the client's if it is connected.
LocksOf(p, s) ==
  IF s.on THEN s.locked \cup (IF s.reply \in s.locked THEN {Reply} ELSE {}) ELSE p.locks

\* renderTargets: rows that are gone take their listeners with them.
RenderTargets(p, s) ==
  LET gone == p.rows \ s.rows IN
  [Doubt(p, gone \cap p.active) EXCEPT
     !.rows = s.rows, !.active = @ \ gone, !.slid = @ \ gone,
     !.look = [r \in Refs |-> IF r \in s.rows THEN RowLook(p, s, r) ELSE IF r = Key THEN @[r] ELSE Off]]
Render(p, s) ==
  LET q == RenderTargets([p EXCEPT !.locks = LocksOf(p, s)], s) IN
  [q EXCEPT !.look[Reply] = ReplyLook(q, s)]

\* paintPress
Paint(p, r, on) ==
  CASE r = Key -> p
    [] r = Reply -> [p EXCEPT !.look[r].on = on \/ IsLocked(p, r)]
    [] OTHER -> [p EXCEPT !.look[r].on = on \/ p.look[r].locked]

\* toggleLock
ToggleLock(p, r) ==
  LET q == Post([p EXCEPT !.locks = IF r \in @ THEN @ \ {r} ELSE @ \cup {r}], r, "lock") IN
  IF p.snap = None THEN q ELSE Render(q, p.snap)

\* begin of bindHoldTalk, and press of bindDeckKeys
Begin(p, r) ==
  IF r # Key /\ IsLocked(p, r) THEN ToggleLock(p, r)
  ELSE IF r \in p.active THEN p
  ELSE IF r = Key THEN Post([p EXCEPT !.active = @ \cup {r}], r, "press")
  ELSE Post(Paint([p EXCEPT !.active = @ \cup {r}, !.slid = @ \ {r}, !.pressed = @ \cup {r}], r, TRUE), r, "press")

\* move of bindHoldTalk
SlideOn(p, r) ==
  Post([p EXCEPT !.slid = @ \cup {r}, !.locks = @ \cup {r},
                 !.look[r] = [on |-> TRUE, locked |-> r # Reply]], r, "lock")

\* end of bindHoldTalk, and release of bindDeckKeys
End(p, r) ==
  LET q == Paint([p EXCEPT !.active = @ \ {r}, !.pressed = @ \ {r}], r, FALSE) IN
  IF r \in p.slid THEN q ELSE Post(q, r, "release")

\* showLogin and showApp
ShowLogin(p) == [p EXCEPT !.auth = FALSE, !.polling = FALSE]
ShowApp(p) == [p EXCEPT !.auth = TRUE, !.polling = TRUE]

\* An element is no longer amiss when nothing of it is left.
Settle(w, p) ==
  [p EXCEPT !.amiss = {r \in @ : w.held[r] # None \/ Sent(p, r) \/ r \in p.pressed \cup p.active \/ r = p.finger}]
Become(w, p) == world' = w /\ page' = Settle(w, p)

-----------------------------------------------------------------------------
Init ==
  /\ \E lone \in BOOLEAN : world = Started(lone)
  /\ page = Render([Blank EXCEPT !.snap = Snapshot(world)], Snapshot(world))
  /\ left \in Attempts

Spend(what) == left[what] > 0 /\ left' = [left EXCEPT ![what] = @ - 1]
Stays == UNCHANGED left

\* A finger or the mouse comes down on an element; a deck key ignores it within 400 ms of the last time.
Press(r) ==
  /\ Spend("presses") /\ page.auth /\ page.finger = None /\ r \in page.rows \cup {Reply, Key}
  /\ r = Reply => page.snap # None /\ ~ReplyDisabled(page.snap)
  /\ \E taken \in IF r = Key THEN BOOLEAN ELSE {TRUE} :
       LET p == [page EXCEPT !.finger = r, !.fresh = FALSE] IN
       Become(world, IF taken THEN Begin(p, r) ELSE p)

\* Sliding to lock leaves the press at the client: the lock can be ended, the press cannot.
Slide ==
  /\ page.finger \in page.active \ ({Key} \cup page.slid) /\ page.auth /\ Stays
  /\ Become(world, Doubt(SlideOn([page EXCEPT !.fresh = FALSE], page.finger), {page.finger}))

\* The finger is lifted.  An element that is gone or hidden is not told; deck keys notice.
LetGo ==
  /\ page.finger # None /\ Stays
  /\ LET r == page.finger
         p == [page EXCEPT !.finger = None, !.fresh = FALSE]
     IN Become(world, IF r \notin p.active THEN p
                      ELSE IF p.auth \/ r = Key THEN End(p, r) ELSE Doubt(p, {r}))

\* The finger slides from a view that another takes the place of.
ChangeView ==
  /\ Spend("changes") /\ page.auth /\ page.finger # None
  /\ LET r == page.finger
         p == [page EXCEPT !.finger = None, !.fresh = FALSE]
     IN Become(world, IF r \notin p.active THEN p ELSE IF r = Key THEN End(p, r) ELSE Doubt(p, {r}))

\* A request reaches the client, perhaps before one that was sent earlier.
Handle(i) ==
  LET m == page.posts[i]
      p == [page EXCEPT !.posts = RemoveAt(@, i)]
      crossed == {m.ref} \cap {page.posts[j].ref : j \in 1 .. i - 1}
  IN /\ Stays /\ world.up
     /\ IF ~world.valid THEN Become(world, ShowLogin(Doubt(p, {m.ref})))
        ELSE \E tap \in BOOLEAN : Become(Obey(world, m, tap), Doubt(p, crossed))

\* A request fails.
Lose(i) ==
  /\ IF world.up THEN Spend("faults") ELSE Stays
  /\ Become(world, Doubt([page EXCEPT !.posts = RemoveAt(@, i)], {page.posts[i].ref}))

\* GET /api/status: the client answers a poll, unless there is nothing to learn from it.
Poll ==
  /\ page.auth /\ ~page.restarting /\ page.polling /\ world.up /\ Len(page.answers) < left.answers /\ Stays
  /\ ~page.fresh \/ page.snap # Snapshot(world)
  /\ IF world.valid THEN Become(world, [page EXCEPT !.answers = Append(@, Snapshot(world))])
     ELSE Become(world, ShowLogin(page))

\* refreshStatus goes on.
Refresh(i) ==
  LET s == page.answers[i] IN
  /\ Stays
  /\ Become(world, Render([page EXCEPT !.answers = RemoveAt(@, i), !.snap = s, !.fresh = TRUE], s))

-----------------------------------------------------------------------------
(***************************************************************************)
(* Users come and go (user-list), targets and incoming calls change.  What *)
(* is held and locked outlives the session: teardown_media leaves it       *)
(* alone and handle_offline_command goes on changing it.  A change of      *)
(* production (active-production-reset) drops it.                          *)
(***************************************************************************)
LosesUser(w, u) ==
  [w EXCEPT !.here = @ \ {u}, !.held = [r \in Refs |-> IF w.held[r] = u THEN None ELSE w.held[r]],
            !.locked = @ \ {u}]
Change(w) ==
  \/ \E u \in w.here : world' = Tell(LosesUser(w, u))
  \/ \E u \in Users \ w.here : world' = [w EXCEPT !.here = @ \cup {u}]
  \/ \E t \in Targets : world' = [w EXCEPT !.has = IF t \in @ THEN @ \ {t} ELSE @ \cup {t}]
  \/ \E t \in w.has \ {w.reply} : world' = [w EXCEPT !.reply = t]
  \/ world' = Tell(Reset(w))
  \/ world' = Tell([w EXCEPT !.on = FALSE])
ClientChanges ==
  /\ Spend("changes") /\ world.up /\ world.on /\ Change(world)
  /\ page' = Settle(world', [page EXCEPT !.fresh = FALSE])
\* setup_media and run_connected: what is held and locked is sent again.
Reconnects ==
  /\ world.up /\ ~world.on /\ Stays
  /\ Become(Tell([world EXCEPT !.on = TRUE]), [page EXCEPT !.fresh = FALSE])

\* Another surface locks a target, or ends a lock.
LockElsewhere(t) ==
  /\ Spend("changes") /\ world.up /\ Talkable(world, t)
  /\ Become(Tell(ToggleAt(world, t)), [page EXCEPT !.fresh = FALSE])

\* The session of the page ends: logout, elsewhere or by the button, or its time is over.
SessionEnds ==
  /\ Spend("changes") /\ world.up /\ world.valid
  /\ \E here \in BOOLEAN : Become([world EXCEPT !.valid = FALSE],
       IF here /\ page.auth THEN ShowLogin([page EXCEPT !.fresh = FALSE]) ELSE page)
Login ==
  /\ ~page.auth /\ world.up /\ Stays
  /\ Become([world EXCEPT !.valid = TRUE], ShowApp([page EXCEPT !.fresh = FALSE]))

\* The page is loaded again: boot.
Reload ==
  /\ Spend("changes") /\ world.up /\ world.valid
  /\ Become(world, [Blank EXCEPT !.posts = page.posts, !.amiss = page.amiss \cup page.active])

\* restartService: sessions are kept in memory, and gone after it.
Restart ==
  /\ Spend("changes") /\ page.auth /\ world.up /\ world.valid /\ ~page.restarting
  /\ Become([Tell(Reset(world)) EXCEPT !.up = FALSE, !.valid = FALSE],
            [page EXCEPT !.restarting = TRUE, !.polling = FALSE, !.fresh = FALSE])
ComesBack == ~world.up /\ Stays /\ Become([world EXCEPT !.up = TRUE], page)
SeesItBack ==
  /\ page.restarting /\ world.up /\ Stays
  /\ Become(world, IF world.valid THEN [page EXCEPT !.restarting = FALSE, !.polling = TRUE]
                   ELSE ShowLogin([page EXCEPT !.restarting = FALSE]))
\* After 90 s the page gives up, and does not poll again.
GivesUp == page.restarting /\ ~world.up /\ Stays /\ Become(world, [page EXCEPT !.restarting = FALSE])

Next ==
  \/ \E r \in Refs : Press(r)
  \/ Slide \/ LetGo \/ ChangeView \/ Poll
  \/ \E i \in DOMAIN page.posts : Handle(i) \/ Lose(i)
  \/ \E i \in DOMAIN page.answers : Refresh(i)
  \/ ClientChanges \/ Reconnects \/ SessionEnds \/ Login \/ Reload \/ Restart \/ ComesBack \/ SeesItBack \/ GivesUp
  \/ \E t \in Targets : LockElsewhere(t)

Spec == Init /\ [][Next]_vars

-----------------------------------------------------------------------------
TypeOK ==
  /\ world.held \in [Refs -> Targets \cup {None}] /\ world.locked \subseteq Targets
  /\ world.told \subseteq Targets /\ world.has \subseteq Targets /\ world.here \subseteq Users /\ world.reply \in Targets \cup {None}
  /\ page.rows \subseteq Targets /\ page.pressed \cup page.active \cup page.slid \cup page.amiss \subseteq Refs
  /\ page.look \in [Refs -> [on : BOOLEAN, locked : BOOLEAN]] /\ page.finger \in Refs \cup {None}

\* Nothing is held at the page, and all its requests were answered.
AtRest == page.finger = None /\ page.posts = <<>> /\ world.up

(***************************************************************************)
(* When everything the page said has arrived and no finger is on it, the   *)
(* client holds no target for the page; and when the page has drawn the    *)
(* client's present state, a row says talking if and only if the client    *)
(* talks to the target, and locked if and only if it is locked.  The       *)
(* server of the session addresses what the client holds and has locked,   *)
(* before the session was lost and once it is back.                        *)
(***************************************************************************)
SilentWhenLetGo ==
  AtRest => \A r \in Refs \ page.amiss : world.held[r] = None /\ r \notin page.pressed
RowsTellTheTalk ==
  AtRest /\ page.fresh /\ page.auth /\ world.on /\ page.snap = Snapshot(world) =>
    \A t \in page.rows \ page.amiss :
      /\ page.look[t].locked <=> t \in world.locked
      /\ page.look[t].on <=> t \in world.locked \cup Held(world)
ServerToldTheTalk == world.on => world.told = Held(world) \cup world.locked
TalkAsShown == SilentWhenLetGo /\ RowsTellTheTalk /\ ServerToldTheTalk
=============================================================================
