----------------------------- MODULE Microphone -----------------------------
(***************************************************************************)
(* The microphone of a page of the web client (public/client.js).  One     *)
(* track is shared by everything that listens: the stream of a feed        *)
(* account, or the talk producer of a user, the meter of the settings      *)
(* menu and the level trigger.  Each asks for the track when it starts;    *)
(* the browser answers later, and by then the page may have stopped, asked *)
(* again or thrown the track away.                                         *)
(*                                                                         *)
(* A handler is an operator from a page to a page, up to its next await;   *)
(* what waits for the browser or the server is a call, and calls end in    *)
(* any order.  A granted device becomes the preferred one, so the track    *)
(* and the selection never differ.  Talking is one flag here: inputs,      *)
(* locks and presses during a preparation are those of WebTalk.            *)
(***************************************************************************)
EXTENDS Naturals, FiniteSets

CONSTANTS
  Attempts    \* bounds: changes of settings, clicks, presses and faults, as records left

VARIABLES
  page,       \* the page, its open tracks and what the server has of it
  left        \* what may still happen

vars == <<page, left>>

NoChain == [of |-> 0, id |-> 0]
NoProducer == [n |-> 0, track |-> 0, chain |-> 0]

(***************************************************************************)
(* Parts of a page: kind, processing (the track goes through a chain of    *)
(* the page before it is sent), settings, monitor and promise of the       *)
(* settings menu; mic, open (tracks not stopped), chain, meter (the track  *)
(* whose clone the meter holds), timer (micCleanupTimer); voice (the level *)
(* trigger is on) and running (its loop); up (the transport), producer,    *)
(* served (producers the server has); streaming, manual and wanted of a    *)
(* feed; talking, start and refresh of a user; calls.  races names the     *)
(* races of which the properties speak.                                    *)
(***************************************************************************)
Race(p, name) == [p EXCEPT !.races = @ \cup {name}]
User(p) == p.kind = "user"
Waits(p, of) == \E c \in p.calls : c.of = of

\* A number not in use, for a call, a track, a chain or a producer.
Unused(S) == CHOOSE n \in 1 .. Cardinality(S) + 1 : n \notin S

Fresh(p) ==
  LET made == {c.made : c \in p.calls} \cup p.served
  IN  Unused(p.open \cup {p.mic, p.meter, p.chain.of, p.chain.id}
               \cup {r.n : r \in made} \cup {r.track : r \in made} \cup {r.chain : r \in made})

\* A call is numbered among those of its kind.
Call(p, of, at, made) ==
  LET others == {c \in p.calls : c.of = of /\ c.at = at}
      id == Unused({c.id : c \in others} \cup {0})
  IN  [p EXCEPT !.calls = @ \cup {[id |-> id, of |-> of, at |-> at, made |-> made]}]

\* ensureUserProcessingChain, for the track of the microphone.
Chain(p) == IF p.chain.of = p.mic THEN p ELSE [p EXCEPT !.chain = [of |-> p.mic, id |-> Fresh(p)]]

\* destroyFeedProcessing and destroyUserProcessing.
Unchained(p) == [p EXCEPT !.chain = NoChain]

\* ensureFeedProcessingChain, or its destruction; likewise for a user.
Chained(p) ==
  IF ~p.processing THEN Unchained(IF p.refresh THEN Race(p, "cut") ELSE p)
  ELSE Chain(p)

\* destroyUserMeterMonitorChain and ensureUserMeterMonitorChain.
Unmetered(p) == [p EXCEPT !.meter = 0]
Metered(p) == IF User(p) /\ p.processing /\ p.mic # 0 THEN [p EXCEPT !.meter = p.mic] ELSE p

\* What a producer being made sends has been thrown away.
Broken(p) == IF \E c \in p.calls : c.at = "produce" THEN Race(p, "midway") ELSE p

\* cleanupMicTrack.
Cleanup(p) ==
  [Unchained(Unmetered(Broken(p)))
     EXCEPT !.timer = FALSE, !.monitor = FALSE, !.promise = FALSE, !.open = @ \ {p.mic}, !.mic = 0]

\* scheduleMicCleanup.
Schedule(p) == IF p.voice THEN p ELSE [p EXCEPT !.timer = TRUE]

\* ensureMicTrack, with a live track.
Opened(p) == LET q == [p EXCEPT !.timer = FALSE] IN IF User(p) THEN Chained(q) ELSE q

\* notifyServerProducerClosed and close.
CloseProducer(p) == [p EXCEPT !.served = @ \ {p.producer}, !.producer = NoProducer]

\* sendTransport.produce, or what follows when it fails.
Failed(p, of) ==
  CASE of = "feed" -> [p EXCEPT !.streaming = FALSE, !.wanted = TRUE]
    [] of = "talk" -> IF p.start = "canceled" THEN [p EXCEPT !.start = "none"]
                      ELSE Schedule([p EXCEPT !.start = "none", !.talking = FALSE])
    [] of = "monitor" -> [p EXCEPT !.promise = FALSE]
    [] OTHER -> p

Produce(p, of) ==
  IF ~p.up THEN Failed(Race(p, "failed"), of)
  ELSE Call(p, of, "produce", [n |-> Fresh(p), track |-> p.mic, chain |-> p.chain.id])

(***************************************************************************)
(* What each does with the track it asked for.                             *)
(***************************************************************************)
FeedOn(p) == Produce(Chained(p), "feed")

WarmOn(p) == IF p.start # "none" \/ p.talking \/ p.producer # NoProducer THEN p ELSE Produce(Chained(p), "warm")

TalkOn(p) ==
  IF p.start = "canceled" THEN Schedule([p EXCEPT !.start = "none"])
  ELSE Produce([Chained(p) EXCEPT !.talking = TRUE], "talk")

VoiceOn(p) ==
  IF ~p.voice THEN Race(p, "late")
  ELSE Metered([(IF p.processing THEN Chained(p) ELSE p) EXCEPT !.running = TRUE])

MonitorOn(p) ==
  IF ~p.settings THEN Race([p EXCEPT !.promise = FALSE, !.monitor = FALSE], "late")
  ELSE LET q == [p EXCEPT !.promise = FALSE, !.monitor = TRUE] IN
       IF User(p) THEN IF p.processing THEN Metered(Chained(q)) ELSE q ELSE Chained(q)

\* ensureWarmTalkProducer.
Warm(p) ==
  IF p.producer # NoProducer \/ p.start # "none" \/ p.talking \/ ~p.up \/ Waits(p, "warm") THEN p
  ELSE IF p.mic # 0 THEN WarmOn(Opened(p)) ELSE Call(p, "warm", "mic", NoProducer)

\* requestInitialMicrophoneAccess.
InitialOn(p) ==
  LET q == IF ~p.settings /\ p.producer = NoProducer /\ ~p.streaming /\ ~p.talking THEN Schedule(p) ELSE p
  IN  IF User(p) THEN Warm(q) ELSE q

\* startVoiceTriggerMonitoring.
StartVoice(p) ==
  IF ~p.voice \/ p.running THEN p
  ELSE IF p.mic # 0 THEN VoiceOn(Opened(p)) ELSE Call(p, "voice", "mic", NoProducer)

\* stopVoiceTriggerMonitoring.
StopVoice(p) ==
  LET q == [(IF p.settings THEN p ELSE Unmetered(p)) EXCEPT !.running = FALSE] IN
  IF ~p.settings /\ p.producer = NoProducer /\ ~p.talking /\ p.start = "none" /\ p.mic # 0 THEN Schedule(q)
  ELSE q

\* The rest of refreshTalkProducerForAudioProcessingChange.
RefreshOn(p) == Warm(StartVoice(StopVoice(p)))

Continue(p, of) ==
  CASE of = "initial" -> InitialOn(p) [] of = "monitor" -> MonitorOn(p)
    [] of = "refresh" -> RefreshOn(MonitorOn(p)) [] of = "voice" -> VoiceOn(p)
    [] of = "warm" -> WarmOn(p) [] of = "talk" -> TalkOn(p) [] of = "feed" -> FeedOn(p)

\* ensureMicTrack.
Ask(p, of) == IF p.mic # 0 THEN Continue(Opened(p), of) ELSE Call(p, of, "mic", NoProducer)

(***************************************************************************)
(* Handlers.                                                               *)
(***************************************************************************)
\* startInputMonitor; of tells what follows.
StartMonitor(p, of) ==
  IF p.promise THEN p
  ELSE IF p.monitor /\ p.mic # 0 THEN Metered(p)
  ELSE Ask([p EXCEPT !.monitor = FALSE, !.promise = TRUE], of)

\* stopInputMonitor.
StopMonitor(p) ==
  LET q == [p EXCEPT !.promise = FALSE, !.monitor = FALSE] IN
  IF p.streaming \/ p.talking \/ p.start # "none" \/ p.voice THEN q
  ELSE IF p.producer # NoProducer THEN Unmetered(q) ELSE Cleanup(q)

\* startFeedStream, until the microphone is open.
StartFeed(p) ==
  IF p.streaming THEN p
  ELSE IF ~p.up THEN [p EXCEPT !.wanted = TRUE]
  ELSE Ask([(IF Waits(p, "feed") THEN Race(p, "double") ELSE p) EXCEPT !.wanted = FALSE], "feed")

\* stopFeedStream.
StopFeed(p, manual) ==
  LET q == [CloseProducer(p) EXCEPT !.streaming = FALSE]
  IN  Cleanup(IF manual THEN [q EXCEPT !.manual = TRUE, !.wanted = FALSE] ELSE q)

\* restartFeedStreamForSettingsChange.
Restart(p) == IF p.streaming THEN StartFeed(StopFeed(p, FALSE)) ELSE p

\* A variant: the producer keeps what it sends.
RefreshInPlace(p) ==
  IF p.talking \/ p.start # "none" THEN [p EXCEPT !.refresh = TRUE]
  ELSE LET q == Cleanup(p) IN IF q.settings THEN StartMonitor(q, "refresh") ELSE RefreshOn(q)

\* refreshTalkProducerForAudioProcessingChange.
Refresh(p) ==
  IF p.talking \/ p.start # "none" THEN [p EXCEPT !.refresh = TRUE]
  ELSE LET q == Cleanup(CloseProducer(p)) IN IF q.settings THEN StartMonitor(q, "refresh") ELSE RefreshOn(q)

\* The part of handleStopTalking that is about the microphone.
StopTalk(p) ==
  LET q == Schedule([p EXCEPT !.talking = FALSE, !.refresh = FALSE,
                              !.start = IF @ = "none" THEN @ ELSE "canceled"])
  IN  IF p.refresh THEN Refresh(q) ELSE q

(***************************************************************************)
(* Actions.                                                                *)
(***************************************************************************)
\* A behaviour is followed up to its first race.
Free == page.races = {} /\ UNCHANGED left
Spend(what) == page.races = {} /\ left[what] > 0 /\ left' = [left EXCEPT ![what] = @ - 1]

OpenSettings ==
  /\ ~page.settings /\ page' = StartMonitor([page EXCEPT !.settings = TRUE], "monitor") /\ Spend("changes")

CloseSettings ==
  /\ page.settings /\ page' = StopMonitor([page EXCEPT !.settings = FALSE]) /\ Free

\* Another device, or another quality: the talk producer keeps the old track.
ChangeDevice ==
  /\ page' = IF User(page)
             THEN StartVoice(Cleanup(IF page.producer = NoProducer THEN page ELSE Race(page, "kept")))
             ELSE IF page.streaming THEN Restart(page) ELSE Cleanup(page)
  /\ Spend("changes")

\* The packet time of a feed.
ChangePtime == ~User(page) /\ page' = Restart(page) /\ Spend("changes")

\* setFeedInputProcessingEnabled; setAudioProcessingEnabled with
\* applyUserGainControlState.
ToggleProcessing ==
  /\ page' = LET p == [page EXCEPT !.processing = ~@]
                 q == IF ~p.processing THEN Unmetered(p) ELSE IF p.settings THEN Metered(p) ELSE p
             IN  IF User(page) THEN Refresh(q)
                 ELSE IF p.streaming THEN Restart(p)
                 ELSE IF p.processing /\ p.mic = 0 THEN p ELSE Chained(Broken(p))
  /\ Spend("changes")

\* The button of a feed.
ToggleFeed ==
  /\ ~User(page) /\ page.up
  /\ page' = IF page.streaming THEN StopFeed(page, TRUE) ELSE StartFeed([page EXCEPT !.manual = FALSE])
  /\ Spend("presses")

Press ==
  /\ User(page) /\ ~page.talking /\ page.start = "none" /\ ~Waits(page, "warm") /\ page.up
  /\ page' = IF page.producer # NoProducer THEN [page EXCEPT !.talking = TRUE]
             ELSE Ask([page EXCEPT !.start = "live"], "talk")
  /\ Spend("presses")

Release == (page.talking \/ page.start = "live") /\ page' = StopTalk(page) /\ Free

\* setVoiceTriggerEnabled, and the loop of the trigger without a microphone.
ToggleVoice ==
  /\ User(page)
  /\ page' = LET p == [page EXCEPT !.voice = ~@] IN IF p.voice THEN StartVoice(p) ELSE StopVoice(p)
  /\ Spend("changes")

Tick == page.running /\ page.mic = 0 /\ page' = StartVoice([page EXCEPT !.running = FALSE]) /\ Free

\* micCleanupTimer.
TimerFires ==
  /\ page.timer
  /\ page' = LET p == [page EXCEPT !.timer = FALSE] IN IF p.producer = NoProducer THEN Cleanup(p) ELSE p
  /\ Free

\* The browser opens the microphone for a call, or denies it.
MicOpens(c) ==
  /\ c.at = "mic"
  /\ page' = LET p == [page EXCEPT !.calls = @ \ {c}]
                 t == Fresh(p)
                 q == IF p.mic = 0 THEN p ELSE Race(Broken(p), "twice")
             IN  Continue(Opened([q EXCEPT !.mic = t, !.open = @ \cup {t}]), c.of)
  /\ Free

MicDenied(c) ==
  /\ c.at = "mic"
  /\ page' = LET p == Race([page EXCEPT !.calls = @ \ {c}], "failed")
             IN  IF c.of = "refresh" THEN RefreshOn([p EXCEPT !.promise = FALSE]) ELSE Failed(p, c.of)
  /\ Spend("faults")

\* The server has made the producer of a call.
Produced(c) ==
  LET p == [page EXCEPT !.calls = @ \ {c}, !.served = @ \cup {c.made}]
      q == [p EXCEPT !.producer = c.made]
  IN  /\ c.at = "produce"
      /\ page' = CASE c.of = "feed" -> [q EXCEPT !.streaming = TRUE]
                   [] c.of = "warm" -> IF p.settings \/ p.voice THEN Metered(q) ELSE q
                   [] c.of = "talk" ->
                        IF p.talking /\ p.start = "live" THEN [q EXCEPT !.start = "none"]
                        ELSE Schedule([page EXCEPT !.calls = @ \ {c}, !.start = "none"])
      /\ Free

\* The connection is lost: the producer and the transport close, producers
\* being made fail.
Disconnect ==
  /\ page.up
  /\ page' = LET p == IF page.talking \/ page.start # "none" THEN StopTalk(page) ELSE page
                 q == [CloseProducer(p) EXCEPT !.up = FALSE, !.served = {},
                         !.wanted = ~User(p) /\ (@ \/ ~p.manual), !.streaming = FALSE]
                 lost == {c.of : c \in {d \in p.calls : d.at = "produce"}}
             IN  [q EXCEPT !.calls = {c \in @ : c.at = "mic"},
                           !.start = IF "talk" \in lost THEN "none" ELSE @,
                           !.wanted = @ \/ "feed" \in lost]
  /\ Spend("faults")

\* initializeMediaSoup is done.
Initialized ==
  /\ ~page.up
  /\ page' = LET p == [page EXCEPT !.up = TRUE] IN
             IF User(p) THEN IF p.mic # 0 THEN Warm(p) ELSE p
             ELSE IF ~p.manual /\ (p.streaming \/ p.wanted) THEN StartFeed([p EXCEPT !.wanted = FALSE]) ELSE p
  /\ Free

\* A page after its sign-on.
Init ==
  /\ left \in Attempts
  /\ \E kind \in {"user", "feed"}, processing \in BOOLEAN :
       page = [kind |-> kind, processing |-> processing, settings |-> FALSE, monitor |-> FALSE,
               promise |-> FALSE, mic |-> 0, open |-> {}, chain |-> NoChain, meter |-> 0, timer |-> FALSE,
               voice |-> FALSE, running |-> FALSE, up |-> FALSE, producer |-> NoProducer, served |-> {},
               streaming |-> FALSE, manual |-> FALSE, wanted |-> kind = "feed", talking |-> FALSE,
               start |-> "none", refresh |-> FALSE, races |-> {},
               calls |-> {[id |-> 1, of |-> "initial", at |-> "mic", made |-> NoProducer]}]

Next ==
  \/ OpenSettings \/ CloseSettings \/ ChangeDevice \/ ChangePtime \/ ToggleProcessing
  \/ ToggleFeed \/ Press \/ Release \/ ToggleVoice \/ Tick \/ TimerFires \/ Disconnect \/ Initialized
  \/ \E c \in page.calls : MicOpens(c) \/ MicDenied(c) \/ Produced(c)

Spec == Init /\ [][Next]_vars

TypeOK ==
  /\ page.open \subseteq Nat /\ page.mic \in page.open \cup {0} /\ page.meter \in Nat
  /\ page.start \in {"none", "live", "canceled"}
  /\ page.kind = "user" => ~page.streaming
  /\ page.kind = "feed" => ~page.talking /\ ~page.voice

(***************************************************************************)
(* Properties.  They hold where none of the races came up that the page    *)
(* loses: two calls open the microphone ("twice"), two starts of a feed    *)
(* ("double"), a track thrown away while a producer is made of it          *)
(* ("midway"), a setting undone while the microphone opens ("late"), a     *)
(* talk producer that keeps the track of another device ("kept"), the      *)
(* menu opened over a talk for which the processing was switched off       *)
(* ("cut"), a microphone or a producer refused ("failed").                 *)
(***************************************************************************)
Settled == page.calls = {} /\ page.up /\ page.races = {}

Sounding(r) == r.track \in page.open /\ (r.chain = page.chain.id \/ (page.refresh /\ r.chain = 0))

\* What the server passes on is alive: after any changes of settings, restarts
\* and reconnections the server has one producer of the page at most, it sends a
\* track that is open, through the chain the page adjusts, and a feed streams
\* exactly if it was not stopped by hand.
OnAirSounds ==
  Settled =>
    /\ page.served = {page.producer} \ {NoProducer}
    /\ page.kind = "feed" => page.streaming = ~page.manual /\ (page.streaming <=> page.producer # NoProducer)
    /\ page.producer # NoProducer => Sounding(page.producer)

\* The page lets go of the microphone when nothing uses it and no timer is set
\* to do so, so that the device is not left open for good.
MicrophoneLetGo ==
  Settled /\ ~page.settings /\ ~page.voice /\ page.producer = NoProducer /\ ~page.talking /\ ~page.timer
    => page.open = {} /\ page.meter = 0
\* What a page does with the microphone is in order.
MicrophoneTrue == OnAirSounds /\ MicrophoneLetGo
==============================================================================
