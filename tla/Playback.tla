------------------------------ MODULE Playback ------------------------------
(***************************************************************************)
(* What a page of the web client plays of one target x, a user, conference *)
(* or feed (public/client.js, receivePlaybackPolicy.js,                    *)
(* targetIdentity.js), with the saved settings of the account              *)
(* (serverCore.js, dbHandler.js).  x is a target in production 1 only.  A  *)
(* stream is filed under the key of the row of its target: for a user the  *)
(* row is keyed by the socket of that user, so it changes while streams    *)
(* play.  Its level follows from the volume, mute and stop of the row, the *)
(* level of the speaker within a conference and the dimming of feeds.      *)
(*                                                                         *)
(* Levels are products: volume 1 or 2, member 0, 1 or 3, dimming 1 of 5.   *)
(* Calls to the server are answered in order; a render of the target list  *)
(* fetches over HTTP, so two of them may end in any order.  How streams    *)
(* are announced and closed is the subject of ListenerSync; here a stream  *)
(* of a source that has gone is removed by one event.                      *)
(***************************************************************************)
EXTENDS Naturals, Sequences, SequencesExt, FiniteSets

CONSTANT Attempts    \* bounds: edits of the user, changes elsewhere, losses

VARIABLES
  world,      \* the page, the events to it, the snapshots it sent, the database
  left        \* what may still happen

vars == <<world, left>>

Loud == 2
Unsaved == [muted |-> FALSE, vol |-> 0]
NoSync == [at |-> "none", expected |-> {}]

(***************************************************************************)
(* Parts of a world.  type, platform, hidden (page); prod; online          *)
(* (connected); peer (the connection of the source, 0 none) and conns;     *)
(* listed, grace (cachedUsers and the timer that keeps a user listed); row *)
(* (shown, key, muted, slider); vol (stored volume), saved                 *)
(* (persistedTargetAudioStateMap), muted (mutedPeers), stopped             *)
(* (stoppedFeedKeys), member; dims, talk, addressed, ducking; entries      *)
(* (audioElements with their consumers), asked (consumes not answered),    *)
(* playing (those not resumed yet); sync; renders; inbox; sent; db; moved  *)
(* (the row changed since the last sync that found nothing asked for under another key).                *)
(***************************************************************************)
IsFeed(w) == w.type = "feed"

\* shouldUseFeedPlaybackBus, shouldUsePlainReceivePlayback: a node of its own
\* dims the feed.
DimsByNode(w) == IsFeed(w) /\ (w.platform = "chrome" \/ (w.platform = "ios" /\ ~w.hidden))
SupportsDimming(w) == w.platform # "android"
Factor(w) == IF w.ducking THEN 1 ELSE 5

\* setPlaybackEntryLevel and setFeedEntryLevel; mutePlaybackEntry.
Level(w, e) ==
  IF ~IsFeed(w) THEN [e EXCEPT !.level = IF w.type = "conference" THEN e.vol * w.member ELSE e.vol]
  ELSE [e EXCEPT !.level = IF e.node = 0 THEN e.vol * Factor(w) ELSE e.vol]
Silent(e) == [e EXCEPT !.level = 0]

\* An entry as the row wants it, now that its volume and mute are known.
Applied(w, e) ==
  IF e.key \in w.muted \/ (IsFeed(w) /\ w.stopped) THEN Silent(e) ELSE Level(w, e)

\* applyFeedDucking.
Duck(w) ==
  LET ducking == SupportsDimming(w)
                 /\ (("self" \in w.dims /\ w.talk # "no") \/ ("incoming" \in w.dims /\ w.addressed))
      v == [w EXCEPT !.ducking = ducking]
      dim(e) == IF e.node = 0 \/ e.key \in w.muted \/ w.stopped THEN e ELSE [e EXCEPT !.node = Factor(v)]
  IN  IF IsFeed(w) THEN [v EXCEPT !.entries = {Applied(v, dim(e)) : e \in @}] ELSE v

\* The row, or the lack of it, is not the one the streams were filed for.
Moved(w, v) == [v EXCEPT !.moved = @ \/ w.row.shown # v.row.shown \/ w.row.key # v.row.key]

\* resolveRenderedUserTargetKey: the row of the user, else its connection.
Key(w) == IF w.type = "user" /\ ~w.row.shown THEN w.peer ELSE w.row.key

\* collectVisibleTargetAudioStates: a row whose user is not listed is left out.
Visible(w) == w.row.shown /\ (w.type # "user" \/ w.row.key \in {0, w.listed})

\* emitTargetAudioStateSnapshot.
Snapshot(w) ==
  IF ~w.online THEN w
  ELSE [w EXCEPT !.sent = Append(@, IF Visible(w) THEN [muted |-> w.row.key \in w.muted, vol |-> w.row.slider]
                                    ELSE Unsaved)]

\* syncRenderedTargetAudioPreferences.
SyncPreferences(w) ==
  LET volume == IF w.saved = Unsaved THEN w.vol ELSE w.saved.vol
      silent == w.saved # Unsaved /\ w.saved.muted
      k == w.row.key
      v == [w EXCEPT !.muted = IF silent THEN @ \cup {k} ELSE @ \ {k}, !.row.slider = volume, !.row.muted = silent]
      set(e) == Applied(v, [e EXCEPT !.vol = volume, !.paused = IF IsFeed(w) THEN @ ELSE silent])
  IN  IF ~w.row.shown THEN Duck(w)
      ELSE Duck([v EXCEPT !.entries = {IF e.key = k THEN set(e) ELSE e : e \in @}])

\* persistTargetAudioStateLocally.
Persist(w, silent, volume) == [w EXCEPT !.saved = [muted |-> silent, vol |-> volume], !.vol = volume]

\* clearStoredTargetAudioPreferences, and the states of the account instead.
ApplySaved(w, state) ==
  SyncPreferences([w EXCEPT !.saved = state, !.vol = IF state = Unsaved THEN Loud ELSE state.vol])

\* consumeProducerPayload, until it has its answer: not twice for one key.
Consume(w) ==
  LET c == [p |-> w.peer, key |-> Key(w)] IN
  IF \/ \E i \in DOMAIN w.asked : w.asked[i] = c
     \/ c \in w.playing \/ \E e \in w.entries : [p |-> e.p, key |-> e.key] = c
  THEN w ELSE [w EXCEPT !.asked = Append(@, c)]

\* requestActiveProducers, unless one is under way.
Request(w) == IF w.sync = NoSync /\ w.online THEN [w EXCEPT !.sync.at = "asked"] ELSE w

\* The end of requestActiveProducers: streams that are not expected are removed.
CleanUp(w, expected) ==
  Duck([w EXCEPT !.entries = {e \in @ : [p |-> e.p, key |-> e.key] \in expected}, !.sync = NoSync])

\* patchUserTargetElement, refreshRenderedUserTargets.
Refresh(w) ==
  LET known == w.row.shown /\ w.type = "user"
      v == IF known THEN [w EXCEPT !.row.key = w.listed] ELSE w
  IN  Moved(w, SyncPreferences(v))

\* applyUserListToUi.
ApplyUsers(w, s) == Request(Refresh([w EXCEPT !.listed = s]))

\* renderTargetList until its fetch, and after it: the list is rebuilt from the
\* production and the users it was begun with, and feeds not in it end.
Render(w) == [w EXCEPT !.renders = @ \cup {[prod |-> w.prod, users |-> w.listed]}]
Rendered(w, r) ==
  LET shown == r.prod = 1
      v == [w EXCEPT !.row.shown = shown, !.row.key = IF w.type = "user" THEN r.users ELSE 0]
      ended == IsFeed(w) /\ ~shown
      u == IF ended THEN [v EXCEPT !.entries = {}, !.muted = IF w.entries = {} THEN @ ELSE {}] ELSE v
  IN  Snapshot(SyncPreferences(Moved(w, u)))

(***************************************************************************)
(* Actions.                                                                *)
(***************************************************************************)
Free == UNCHANGED left
Spend(what) == left[what] > 0 /\ left' = [left EXCEPT ![what] = @ - 1]
Tell(w, what, n) == IF w.online THEN [w EXCEPT !.inbox = Append(@, [what |-> what, n |-> n])] ELSE w

\* setMuteState: the mute button, or a command.
SetMute ==
  /\ world.row.shown
  /\ world' = LET k == world.row.key
                  now == k \notin world.muted
                  v == [world EXCEPT !.muted = IF now THEN @ \cup {k} ELSE @ \ {k}, !.row.muted = now]
                  set(e) == Applied(v, IF IsFeed(v) THEN e ELSE [e EXCEPT !.paused = now])
                  u == [v EXCEPT !.entries = {IF e.key = k THEN set(e) ELSE e : e \in @}]
              IN  Snapshot(Persist(IF IsFeed(u) THEN Duck(u) ELSE u, now, u.vol))
  /\ Spend("edits")

\* setTargetVolumeAndPersist: the slider moves, and stops.
SetVolume(volume) ==
  /\ world.row.shown /\ volume # world.row.slider
  /\ \E moving \in BOOLEAN :
       world' = LET k == world.row.key
                    set(e) == Applied(world, [e EXCEPT !.vol = volume])
                    v == [world EXCEPT !.entries = {IF e.key = k THEN set(e) ELSE e : e \in @}, !.row.slider = volume]
                    u == Duck(Persist(v, k \in world.muted, volume))
                IN  IF moving THEN u ELSE Snapshot(u)
  /\ Spend("edits")

\* setFeedReceptionStopped.
SetStopped ==
  /\ world.row.shown /\ IsFeed(world)
  /\ world' = LET v == [world EXCEPT !.stopped = ~@]
                  set(e) == Applied(v, [e EXCEPT !.paused = v.stopped])
              IN  Duck([v EXCEPT !.entries = {set(e) : e \in @}])
  /\ Spend("edits")

\* setConferenceMemberListening, setConferenceMemberListenLevel.
SetMember(level) ==
  /\ world.type = "conference" /\ level # world.member
  /\ world' = LET v == [world EXCEPT !.member = level] IN [v EXCEPT !.entries = {Applied(v, e) : e \in @}]
  /\ Spend("edits")

\* setFeedDimSelf, setFeedDimIncoming.
SetDimming(d) ==
  /\ IsFeed(world) /\ SupportsDimming(world)
  /\ world' = Duck([world EXCEPT !.dims = IF d \in @ THEN @ \ {d} ELSE @ \cup {d}])
  /\ Spend("edits")

\* The own talk: the feeds are dimmed once the server let the talk through.
Talk ==
  /\ world.online /\ IsFeed(world)
  /\ \/ world.talk = "no" /\ world' = [world EXCEPT !.talk = "starting"] /\ Spend("edits")
     \/ /\ world.talk = "starting" /\ Free
        /\ world' = LET v == [world EXCEPT !.talk = "on"] IN IF "self" \in v.dims THEN Duck(v) ELSE v
     \/ world.talk = "on" /\ world' = Duck([world EXCEPT !.talk = "no"]) /\ Free

\* refreshAdaptiveReceivePlaybackForVisibility.
Visibility ==
  /\ world.platform = "ios" /\ IsFeed(world)
  /\ world' = Request([world EXCEPT !.hidden = ~@, !.entries = {}])
  /\ Spend("edits")

\* The user selects the other production.
Switch ==
  /\ world.online /\ Cardinality(world.renders) < 2
  /\ world' = Render([world EXCEPT !.prod = 3 - @]) /\ Spend("edits")

RenderEnds(r) ==
  /\ world' = Rendered([world EXCEPT !.renders = @ \ {r}], r) /\ Free

\* The interval of startActiveProducerSync.
Interval == world.online /\ world.sync = NoSync /\ world' = Request(world) /\ Free

\* The server says what is live.
SyncAnswered ==
  /\ world.sync.at = "asked"
  /\ world' = LET expected == IF world.peer = 0 THEN {} ELSE {[p |-> world.peer, key |-> Key(world)]}
                  v == IF world.peer = 0 THEN world ELSE Consume(world)
                  w == [v EXCEPT !.moved = \E i \in DOMAIN v.asked : v.asked[i].key # Key(v)]
              IN  IF v.asked = world.asked THEN CleanUp(w, expected)
                  ELSE [w EXCEPT !.sync = [at |-> "waits", expected |-> expected]]
  /\ Free

SyncEnds ==
  /\ world.sync.at = "waits" /\ world.sync.expected \cap (ToSet(world.asked) \cup world.playing) = {}
  /\ world' = CleanUp(world, world.sync.expected) /\ Free

\* A variant: a mute that came while the consume was under way is not looked at.
AnswerUnmuted ==
  /\ world.asked # <<>>
  /\ world' = LET c == Head(world.asked)
                  e == [p |-> c.p, key |-> c.key, vol |-> world.vol, level |-> 0,
                        node |-> IF DimsByNode(world) THEN 5 ELSE 0,
                        paused |-> FALSE]
                  w == [world EXCEPT !.asked = Tail(@)]
                  v == Level(w, e)
              IN  IF c.p # w.peer THEN w ELSE [w EXCEPT !.entries = @ \cup {v}, !.playing = @ \cup {c}]
  /\ Free

\* An answer to consume: the stream is filed under the key it had when asked.
Answer ==
  /\ world.asked # <<>>
  /\ world' = LET c == Head(world.asked)
                  e == [p |-> c.p, key |-> c.key, vol |-> world.vol, level |-> 0,
                        node |-> IF DimsByNode(world) THEN 5 ELSE 0,
                        paused |-> ~IsFeed(world) /\ c.key \in world.muted]
                  w == [world EXCEPT !.asked = Tail(@)]
                  v == IF e.key \in w.muted THEN Silent(e) ELSE Level(w, e)
              IN  IF c.p # w.peer THEN w ELSE [w EXCEPT !.entries = @ \cup {v}, !.playing = @ \cup {c}]
  /\ Free

\* It plays, and the server resumes it.
Plays ==
  /\ \E c \in world.playing : world' = Duck([world EXCEPT !.playing = @ \ {c}])
  /\ Free

\* Events, in the order the server sent them.
Event ==
  /\ world.inbox # <<>>
  /\ LET m == Head(world.inbox)
         w == [world EXCEPT !.inbox = Tail(@)]
     IN  world' = CASE m.what = "users" /\ m.n = 0 -> [ApplyUsers(w, w.listed) EXCEPT !.grace = w.listed # 0]
                    [] m.what = "users" /\ m.n # 0 -> [ApplyUsers(w, m.n) EXCEPT !.grace = FALSE]
                    [] m.what = "new" -> IF m.n = w.peer THEN Consume(w) ELSE w
                    [] m.what = "closed" -> Duck([w EXCEPT !.entries = {e \in @ : e.p # m.n}])
                    [] m.what = "talk" -> IF m.n = 1 THEN Request(Duck([w EXCEPT !.addressed = TRUE]))
                                          ELSE Duck([w EXCEPT !.addressed = FALSE])
                    [] m.what = "targets" -> Request(Render(w))
  /\ Free

\* The timer of scheduleOfflineGraceTimer.
GraceEnds ==
  /\ world.grace /\ world' = [ApplyUsers(world, 0) EXCEPT !.grace = FALSE] /\ Free

\* The source connects anew and streams, or is gone.
Arrive ==
  /\ world.peer = 0 /\ world.conns < 2
  /\ world' = LET w == [world EXCEPT !.conns = @ + 1, !.peer = world.conns + 1] IN
              Tell(IF w.type = "user" THEN Tell(w, "users", w.peer) ELSE w, "new", w.peer)
  /\ Spend("changes")

Leave ==
  /\ world.peer # 0
  /\ world' = LET w == Tell([world EXCEPT !.peer = 0], "closed", world.peer) IN
              IF w.type = "user" THEN Tell(w, "users", 0) ELSE w
  /\ Spend("changes")

Address ==
  /\ IsFeed(world) /\ \E n \in {0, 1} : world' = Tell(world, "talk", n) /\ world.online
  /\ Spend("changes")

\* An administrator edits the targets.
Edited == world.online /\ world' = Tell(world, "targets", 0) /\ Spend("changes")

\* target-audio-state-snapshot, replaceUserTargetAudioStates.
Store == world.sent # <<>> /\ world' = [world EXCEPT !.db = Head(world.sent), !.sent = Tail(@)] /\ Free

\* The connection is lost with nothing asked: closeMediaTransportState.
Lose ==
  /\ world.online /\ world.asked = <<>> /\ world.playing = {}
  /\ world' = [world EXCEPT !.online = FALSE, !.entries = {}, !.sync = NoSync, !.inbox = <<>>, !.sent = <<>>,
                            !.talk = "no", !.addressed = FALSE]
  /\ Spend("losses")

\* It is back and registered: the saved states of the account replace the own.
Recover ==
  /\ ~world.online
  /\ world' = LET w == ApplySaved([world EXCEPT !.online = TRUE], world.db) IN
              Request(IF w.type = "user" THEN Tell(w, "users", w.peer) ELSE w)
  /\ Free

Init ==
  /\ left \in Attempts
  /\ \E type \in {"user", "conference", "feed"}, platform \in {"chrome", "ios", "android"} :
       /\ platform = "chrome" <=> type # "feed"
       /\ world = [type |-> type, platform |-> platform, hidden |-> FALSE, prod |-> 1, online |-> TRUE, peer |-> 0,
                   conns |-> 0, listed |-> 0, grace |-> FALSE,
                   row |-> [shown |-> TRUE, key |-> 0, muted |-> FALSE, slider |-> Loud], vol |-> Loud, saved |-> Unsaved,
                   muted |-> {}, stopped |-> FALSE, member |-> 3, dims |-> {}, talk |-> "no", addressed |-> FALSE,
                   ducking |-> FALSE, entries |-> {}, asked |-> <<>>, playing |-> {}, sync |-> NoSync, renders |-> {},
                   inbox |-> <<>>, sent |-> <<>>, db |-> Unsaved, moved |-> FALSE]

Next ==
  \/ SetMute \/ SetStopped \/ Talk \/ Visibility \/ Switch \/ Interval \/ SyncAnswered \/ SyncEnds \/ Answer
  \/ Plays \/ Event \/ GraceEnds \/ Arrive \/ Leave \/ Address \/ Edited \/ Store \/ Lose \/ Recover
  \/ \E v \in 1 .. Loud : SetVolume(v)
  \/ \E m \in {0, 1} : SetMember(m)
  \/ \E d \in {"self", "incoming"} : SetDimming(d)
  \/ \E r \in world.renders : RenderEnds(r)

Spec == Init /\ [][Next]_vars

TypeOK ==
  /\ world.peer \in 0 .. 2 /\ world.listed \in 0 .. 2 /\ world.row.key \in 0 .. 2
  /\ world.muted \subseteq 0 .. 2 /\ world.row.slider \in 1 .. Loud
  /\ \A e \in world.entries : e.vol \in 1 .. Loud /\ e.node \in {0, 1, 5} /\ e.p \in 1 .. 2

(***************************************************************************)
(* Properties.                                                             *)
(***************************************************************************)
Settled ==
  /\ world.asked = <<>> /\ world.playing = {} /\ world.sync = NoSync /\ world.talk # "starting"
  /\ ~world.moved /\ world.row.shown

Heard(e) == IF e.paused THEN 0 ELSE e.level * IF e.node = 0 THEN 1 ELSE e.node

Wanted ==
  LET dimmed == SupportsDimming(world)
                /\ (("self" \in world.dims /\ world.talk # "no") \/ ("incoming" \in world.dims /\ world.addressed))
  IN  IF world.row.muted \/ world.stopped THEN 0
      ELSE world.row.slider * CASE world.type = "user" -> 1
                                [] world.type = "conference" -> world.member
                                [] world.type = "feed" -> IF dimmed THEN 1 ELSE 5

\* However the row moved to another connection of its user, the list was rebuilt
\* or a stream came while settings changed: once no stream is being set up and
\* the last sync saw the row as it is, every stream of the target is filed under
\* its row, where the controls reach it, and sounds as the row shows: muted or
\* stopped or with the speaker left out it is silent, else at the volume of the
\* slider, the level of the speaker and the dimming in force.
SoundsAsShown ==
  Settled => \A e \in world.entries : e.key = world.row.key /\ Heard(e) = Wanted
==============================================================================
