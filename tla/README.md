# TLA+ specifications of Talktome

Talktome is a web intercom. A Node.js server (`serverCore.js`) signals over
Socket.IO and HTTP and forwards audio with mediasoup; browsers, headless Rust
clients, a radio gateway and bridges to broadcast audio networks connect to it;
Companion panels remote-control the users over an HTTP API; administrators edit
productions in a page of their own. These modules specify the parts of it whose
difficulty is the order in which things happen.

| Module | What it is |
| --- | --- |
| `TalkRouting` | server: who is offered which talk producer, which consumers stay open |
| `ListenerSync` | the web client as a listener and the network, composed with `TalkRouting` |
| `Sessions` | who has the session of an account; Companion commands to it |
| `Promise` | abstract specification: what the server promises of accounts and commands; `Sessions` implements it |
| `BridgeControl` | the control session of a bridge port: event queue, stream, poll, heartbeats, server and client |
| `BridgeTalk` | talk on a bridge port: commands, the level trigger and its setting, through one queue of operations |
| `BridgeMedia` | the input and outputs of a bridge port: bridge client, its native part, and the server |
| `Directory` | the database of users, conferences, feeds and productions, and the button lists of the pages |
| `Tally` | what Companions and tally lights are told |
| `ServerConfig` | the configuration file, environment, settings pages, import, automatic backups |
| `AdminMatrix` | the matrix of the productions in an administrator's page |
| `WebTalk` | web client: everything that presses and releases talk targets, and the talk producer |
| `Hotkeys` | web client: which key belongs to which target |
| `Microphone` | web client: the one track that talk, feed, meter and trigger share |
| `WebSession` | web client: sign-on, registration and recovery, with the server's side of them |
| `Playback` | web client: the row of a target and the level its streams sound with |
| `RadioGateway` | the gateway that keys a radio and plays talk on it |
| `HeadlessTalk` | headless client: its talk model and the web page that drives it |
| `HeadlessSettings` | headless client: its configuration file and the form over it |
| `Common`, `Surfaces`, `Registry`, `Edges`, `Parts` | thirteen of the modules above as one specification: `Surfaces` has those of the clients' pages (`WebTalk`, `Microphone`, `Hotkeys`, `HeadlessTalk`, `HeadlessSettings`), `Registry` `Directory` and `WebSession`, `Edges` `RadioGateway`, `BridgeMedia`, `ServerConfig` and `Tally`, and `Parts` adds `Playback` and `AdminMatrix`; `Common` has the variables they share |
| `ListenerSync_proofs` (with those of `TalkRouting`), `Sessions_proofs`, `BridgeTalk_proofs`, `BridgeControl_proofs`, `Surfaces_proofs`, `Registry_proofs`, `Edges_proofs`, `Parts_proofs` | theorems |
| `MCTalkRouting`, `MCListenerSync`, `MCSessions`, `MCBridgeControl`, `MCBridgeTalk`, `MCWebTalk` | instances for TLC, each with its `.cfg` files |
| `MCParts` | the instance of `Parts` |

Check a configuration with `tlc -workers 2 -config MCTakeovers.cfg MCSessions`,
a proof module with `tlapm Sessions_proofs.tla`. `PROJECT.json` lists the runs,
the source lines behind every definition, the hazards, and, for every property
of a passing run, a faulty variant of one definition that makes the property
fail (the operators commented "A variant" in the modules).

## 1. The system

### Parts, state, operations

**Server: talk routing** (`serverCore.js`, `productionRouting.js`,
`producerReconciliation.js`, `transmissionControl.js`). State: `peers` (identity,
active production, `activeTalkTargets`, producers, consumers), and per producer
`__recipientDeliveries`, the recipients it has been announced to and under which
target. Operations: `register-user`, `set-active-production`, `ptt-state`,
`talk-targets-updated`, `produce`, `pause-`/`resume-producer`, `producer-close`,
`consume`, `resume-`/`close-consumer`, `request-active-producers`, the forced stop
of the administrator, edits of the matrix. Hard: `consume`, `produce` and the
forced stop await mediasoup or a push service in the middle, and everything
they decided on may have changed when they go on; a change of identity,
production, membership or target must withdraw what was announced before.
Correct when audio goes to the addressed only, consumers never outlive their
ends, and none is torn down without a reason.

**Web client as listener** (`public/client.js`, 9980-10650 and 10849-10918).
State: streams by target and producer (`targetStreamMap`, `peerConsumers`),
pending consumes, consumers closed early, the run of the reconciliation. Hard:
announcements, withdrawals, answers and lists overtake each other, and each
handler awaits in the middle. Correct when the addressed listener comes to hear,
the others come to hear nothing, and no consumer leaks.

**Sessions and commands** (`serverCore.js` 2306-2725, 5748-5928, 6913-7101,
7758-7961, 8176-8227, 9087-9158). State: `peers`, `bridgeControlSessions`,
`companionPendingCommands`. Operations: registration with or without force,
bridge sessions, logout by socket, HTTP and beacon, loss of a connection;
sending a command, its result, its timers. Hard: three kinds of clients take one
account from each other while commands, results and logout requests are on
their way. Correct when an account has one session, a pending command has the
session it was sent to, and each command gets a verdict.

**Bridge** (`serverCore.js` 5190-5330 and 6860-7350, `bridgeSessionLiveness.js`,
`bridge-client/src/app.js`, `src-tauri`). State at the server: per session an
event queue of at most 250 entries, open event streams, `lastSeenAt`, transports.
At the bridge: managed sessions per port with restart and back-off, the talk
state with its queue of operations, drafts and autosaves of the port's card,
the native capture and outputs. Hard: events queued while no stream is open, a
stream closing while the next opens, timers against heartbeats; four writers of
one talk state; three activities that start and stop the same native parts.
Correct when no event overtakes an earlier one, a live bridge keeps its session,
the server and the bridge agree on the talk, and a port at rest captures and
plays what the server says.

**Web client controls** (`public/client.js`). State: held pointers, keys and level
triggers per target, locks, the talk producer that is created once and paused
between talks, the microphone track, the table of shortcuts. Operations: press,
slide to lock, release, blur, forced stop, Companion commands; change of device,
processing or packet time; recording a shortcut; change of list or production.
Hard: every press may await the microphone, the server's answer to `produce`, or
a resume, while inputs change. Correct when what is on air is what is held or
locked, the track on air is the live one, and the device is let go of.

**Web client session and playback** (`public/client.js`, `browserSessions.js`).
State: the browser session, the socket, the phase of registration, tasks under
way; rows of targets, streams under keys, volumes and mutes, snapshots sent to
the database. Hard: a connection lost or replaced in the middle of each step;
rows keyed by sockets that change. Correct when a page that looks settled is
registered over its own connection, and streams sound as their rows show.

**Database** (`db.js`, `dbHandler.js`, requests of administrators in
`serverCore.js`). State: entities, memberships, buttons, positions, the primary
production. Operations: create, edit, delete, reorder, switch the mode of several
productions, export, restore, upgrade. Correct when no row names what is not
there, and pages that were told have the list they show.

**Administration page** (`public/admin.js`). A copy of one production, edited
optimistically, with requests and refreshes in any order. **Configuration**
(`server.js`, `serverCore.js`, `mediaNetwork.js`, `automaticConfigBackup.js`): file,
environment, running values, hints of a restart, guest profile, backups that
fall due. **Tally** (`tallyState.js`, `serverCore.js` 3331-3480): what each
Companion and each page was told last, against what holds.

**Radio gateway** (`gateway/radioGateway.js`): a key pin with its queue, one
playback with a pending one, release timers, reception into a conference, and a
connection that is set up again. **Headless client** (`headless-client/src`):
`signalling/session.rs` connects, registers, runs and backs off; `talk.rs`
keeps momentary and locked targets of several sources; a web page drives it and
edits its configuration file; `alerts.rs` announces losses once;
`audio/jitter.rs` and `audio/vox.rs` are small state machines over packets and
samples. **Outside**: audio devices, WebRTC stacks, build scripts, desktop
shells, vendored code.

### How they interact

Clients call the server by Socket.IO events with acknowledgements; within a
connection both directions keep their order. Bridges use HTTP requests and an
event stream; the server gives them a virtual socket, so the routing treats them
as peers. Administrators use HTTP requests, which overtake each other, and an
event stream that says when to fetch again. Node.js runs one handler at a time up
to its next `await`: one action of the modules is a handler, or the part of it
between two awaits. `socket.disconnect(true)` runs the disconnect handler at once,
so a takeover in `register-user` ends the old session inside the handler of the
new one.

The hazards that matter most, each at its line, are in `PROJECT.json`; section 5
names the smaller ones.

## 2. Modules

Two ways of writing are used. `TalkRouting`, `ListenerSync`, `Sessions`,
`BridgeControl`, `BridgeTalk`, `Directory` and `RadioGateway` have a variable for
each field of the code that matters. The other modules have handlers that call
each other deeply; there a page or a world is one record, a handler is an
operator from a world to a world, up to its next `await`, and an action applies
it to `world`. `left` is a record of what may still come from outside: the
actions of users, administrators and faults count it down, the program's own
steps never do.

Where the code is known to lose a race, the module says so by a name (a member of
`races`, or a flag such as `deaf` or `stale`) that the losing step sets, and the
property speaks of behaviours without it. Section 5 lists them: they are the
places where the code does less than the property says.

### TalkRouting

`link`, `user`, `production`, `talkTargets` are fields of the peers; `owner`,
`stage`, `paused` those of producers, where `stage` tells apart the two awaits in
`produce` ("creating", and "unhooked" while the push notification is awaited and
the pause listeners are not attached yet); `deliveries` is
`__recipientDeliveries`; `consumers` the stored consumers; `consuming` counts
`consume` handlers waiting for mediasoup; `stopping` holds the producers a forced
stop awaits; `matrix` and `multi` stand for the database and the setting
`multipleProductions`.

One action per handler: `Connect`, `RegisterUser` (with the takeover),
`Disconnect`, `SetActiveProduction`, `TalkTargetsUpdated`, `PttState`,
`ProduceStart`/`ProduceDone`/`HookListeners`, `PauseProducer`, `ResumeProducer`,
`ProducerClose`, `ForceStopBegin`/`ForceStopEnd`, `ConsumeStart`/`ConsumeDone`,
`CloseConsumer`, `EditMatrix`, `SetMultipleProductions`. `Sync` is
`syncProducerRecipients`: it resolves recipients anew and closes the consumers
of each delivery that changed.

Abstractions. A client registers a connection once and talks and listens after
that. All pauses of a forced stop are one step, and a peer has one forced stop at
a time. A matrix is changed to any matrix of a given set. A consumer closes
together with its producer or recipient. A pause that rejects because the media
worker died is not modelled, nor are feeds, guests and producers with one fixed
target.

### ListenerSync

Extends `TalkRouting`: `Server(forced)` joins to each of its steps the messages
the handlers emit (`new-producer`, `consumer-closed`), into one queue per
listener. `toServer` holds the client's requests, `serving` the consumes in
progress. `streams`, `pending`, `early` and `sync` are the client's maps. Each
client action is the code between two awaits: `NewProducer`, `ConsumeAnswered`,
`OpenStream` (after `recvTransport.consume`), `ConsumerResumed`, and for the
reconciliation `StartSync`, `ListAnswered`, `SyncOn`. Every step of the
server is a step of `TalkRouting` and every step of a client leaves its variables
alone, which `ImplementsRouting` proves.

Abstractions. The handler of `producer-closed` is left out (it tidies streams the
reconciliation and `consumer-closed` already remove); the list request does not
time out; client-side media errors do not happen; ids of consumers closed
early are remembered only while a consume is pending.

### Sessions and Promise

A peer is a socket or a bridge session; a device is the running client behind
several peers in turn. `link` and `account` are the `peers` map, `current` the
connection a device believes in, `stage`, `sentTo`, `addressee` the pending
commands, `http` the answer to their requests, `verdicts` the `command-result`
events, `inbox`, `doing`, `results` a command on its way through the client,
`logouts` the requests of `client/logout`. `Move` and `Replace` are the disconnect
handler and `closeBridgeControlSession`, alone or inside a takeover: the old peer
leaves the map first, then the commands of a user without a session fail, then
the new peer gets the identity.

`Promise` has neither connections nor devices nor messages: per account its
holders, per command one record. An account passes to another holder in one step
(`Pass`) which fails what the former holder had not answered; a command is sent,
accepted and settled once. `ImplementsPromise` is its specification under the
mapping `PromisedHolders`, `PromisedCommand`.

Abstractions. A page that logs out and reloads is the same device without its
work. Losing a connection is noticed by server and client independently.
Messages to a session may arrive after it ended; messages from it are lost then.
The bound of 10 s on waiting is shorter than the 30 s of the entry, so `Expire`
waits for `WaitOver`. Guests are not modelled.

### BridgeControl

Server: `open` (`bridgeControlSessions`), `queue`, `streams`, `age` of the last sign
of life and `beat` of the stream's heartbeat. Network: `wire` holds what is written
to a stream, `broken` the streams whose connection has gone unnoticed, `opening`
the requests for a stream. Bridge: `mine`, `starting`, `ready`, `active`,
`listening`, `poll`. `Emit` is `queueBridgeEvent`, which writes to an open stream or
queues and drops the oldest entry; `OpenStream` registers the stream and drains
it; `Poll`/`PollAnswered` the fallback of the client; `CleanUp` the stale timer;
`Create`, `BecomeReady`, `FinishStart`, `StopFirst`, `StartFails` the phases of
`startManagedSession`; `OutputFails` the two audits, which stop a session whose output
failed; `LoseStream`, `Takeover`, `Quit`, `ServerRestart`, `BreakStream` the faults.

`LoseStream` is the request for the stream that is lost or refused (`lib.rs` 692,
`app.js` 2054): it clears `active` and leaves the session ready, and since the stream is
asked for only by a start (2603), which a ready session does not repeat (2728,
2769), the session is polled for good. So `SessionRegained` promises a session that has its
stream at both ends, or one that is polled, and no more; `EventsArrive` holds in either
case. `Fails` is `setManagedSessionError`: a failed codec is not retryable (779, 824), its
session is `failed` and stays so, unless a poll that was under way fails as well and makes
it retryable again (2206).

Abstractions. An event is its number. Time is counted in units of which `Beat` and
`Stale` are given; timers that are due run before it passes. The device part of
a start is one step that may fail. The browser fallback (`EventSource`) is left
out, and so is a port that gets a new configuration, which starts anew also after a failed
codec.

### BridgeTalk

At the server: `config`, `to`, `paused`, and `owner`, which exists for the
properties: who resumed the producer last. At the bridge: the card (`card`, `draft`,
`timer`, `saving`, `again`), the running session (`port`, `talking`, `source`, `aim`,
`lock`, `trig`), the configuration on its way (`fetched`), and the queue of
operations. `Perform` makes the next request of the operation in front (first the
talk targets, then pause or resume; the other way round to end a talk), `Finish`
updates the session with its answer, `Skip` drops an operation whose revision is
out of date, `Fail` loses the request or only the answer. `Command`, `PollLevels`
and `LevelsKnown`, `Edit`, `Save`, `Put`, `Saved`, `SaveEnds`, `Fetch`, `Fetched`,
`Render` are the four writers.

Abstractions. The session lives throughout. `missed` records what was lost since
the last operation succeeded; it bounds what the level trigger can know.

### BridgeMedia

Three activities, `main` (start or stop of the session), `ev` (the queue of events)
and `inp` (the retry of the input), interleave at every await. `cap`, `nat`, `lvl`
are the native capture, outputs and their volumes, `srv`, `path`, `prod`, `cons` what
the server has of the session, `live` who addresses the port, `outs` and `want`
what the bridge believes. `Start` ... `Ready` are `startManagedPort` with the
first-packet handshake of the producer, `StopOutput`, `StopInput`, `Delete` the stop,
`Handle` the events, `Audit` the check of the native status, `RetryInput` the retry.

Abstractions. A call is answered before anything else happens, or its answer is
lost; devices come and go. Allocation of ports and feed ports are left out.

### Directory

`db` is one record of relations, one per table, `issued` the ids `sqlite_sequence`
never gives out again, `peers` the pages with their list and the notices that wait
for them. `Create`, `EditMembers`, `EditContents`, `EditMemberships`, `EditTargets`,
`ReorderByAdmin`, `ReorderByUser`, `DeleteEntity`, `SetMultipleProductions` are the
requests of administrators and users, each with the cleaning the code does after
it; `ExportConfig`, `Import`, `Restart` the backup, where `Upgraded` is the upgrade of
older databases; `Register`, `SetActiveProduction`, `Notices` the pages.

Abstractions. Names, passwords and settings of entities; a page refetches its list
in one step; guests are one profile.

### Tally

`at`, `conf`, `memb`, `to`, `mic`, `ptt`, `locked`, `tally` are what the state of a user is
derived from, `told` the last state each Companion has, `page` what each tally light was
told, `answered` the productions and users of whom its Companions were last told by the
result of a command. Each handler emits exactly to whom the code emits: `Announces` (`produce`,
pauses), `Retargets` and `Speaks` with the await of the push service (`Pushes`),
`Cuts` (the switcher's request), `EditsMembers`, `Deletes`, `EditsConference`,
`TurnsMultiple`. `Answers` is the result of a command (`api-talk-command-result`), which
sets `talkLocked` and tells every Companion that hears of the user (`Hears`). `StateOf` is
`buildCompanionUserState`, the reference that `told` is compared with. A command's result
carries the state of the primary production, whatever production the Companion is in
(`serverCore.js:8221`), so `Knows` compares what was told last with the state of the
Companion's production, and leaves the tally out while the user is `answered` there; the
next state of the user sets it right (section 5).

### ServerConfig

`file` is the configuration file by section (`None`: absent or torn), `active` what the
running server booted with, `env` the environment, `profile` the guest profile in
the database, `disk`, `timer`, `retryAt`, `now` the automatic backup. `Booted` is what
a start makes of file and environment; `SubmitMdns` ... `SubmitBackup` are the
settings requests, each read-change-write of the whole file, which may fail before
or after truncation; `Import`, `Stop`, `Start` (with the wizard of `server.js`),
`TimerRuns`, `Tick`.

### AdminMatrix

`world.db` is what the server has, `pay` the copy the page keeps, `cells` and `list`
what it shows, `held` and `busy` the disabled buttons, `calls` requests and answers
on their way in any order. `Select`, `Toggle`, `Paint`, `Drag`, `ToggleContent`,
`Create`, `AskDelete`, `ConfirmDelete`, `TurnMultiple` are the administrator, `Serve`
and `Deliver` the network, `Elsewhere`, `Unseen`, `Broadcast`, `StatusEvent` edits by
others. The conference and the feed have the same numeric id, as ids are counted
per table.

### WebTalk, Hotkeys, Microphone

`WebTalk`: `pressed` holds per input (finger, key, the level trigger) the target it
presses, `locks`, `current` and `talking` what the page believes, `start` the
creation of the first producer, `warm` its preparation, `producer` the page's and
`served`, `routed`, `reported` the server's view. `fingers` and `rows` are the gestures:
which element a finger pressed (the button, the row, the reply button), whether that element
still hears of it, and whether the row is `pressed` or `slid` to the lock; `remote` is the target a Companion presses without an
input key, of which the page keeps no entry. `Press`, `SlideToLock`, `Release`,
`KeyPress`, `PressCommand`, `VoiceRises`, `LockToggle`, `ForceStop`, `Blur`, `Rerender`,
`RestoreLocks` are built from `Talk`, `Proceed`, `Stop` and `StopAll` as the handlers are;
`MicReady`, `MicFails`, `WarmMic`, `Answer` are the continuations after awaits, where
`Answer` may be a refusal of `produce` (`StartFails`). A release is heard by the element
first (`Heeds`) and by the window after it, and neither drops the press when the
release comes over a lock that stands alone (`client.js` 11802-11809, 11909): the press stays
in `activeTalkPointers` and talks on when the lock has gone. `Left` are these presses. The
property says that they come from nothing else (`over`), and that what the server passes on
is what is held, locked, asked for by a Companion or left behind. Messages take effect in the order sent; the list of
targets is a set; the microphone is open exactly while the page believes it talks.

`Hotkeys`: `table` maps bindings to targets, `customs` are the user's keys, `store`
what is saved per production, `held` the keys down, `pressed` the bindings that
count as pressed, `talking` what they talk to. `Rebuild` is
`rebuildTargetHotkeyAssignments`, its two loops a recursive function; `KeyDown`/`KeyUp`, `Record`, `Clear`, `Reset`,
`SetMain`, `TargetsArrive`, `ChooseProduction` are handlers. What a talk does beyond
the targets of its keys is the subject of `WebTalk`.

`Microphone`: `open` are the tracks the browser has open, `mic` the one the page
uses, `chain` the gain chain, `meter`, `voice`, `streaming`, `producer` its users,
`calls` the requests to the browser or the server that wait, each with a number of its
own, ending in any order.
Inputs, locks and presses during a preparation are left to `WebTalk`.

### WebSession, Playback

`WebSession`: `sock` and `gen` are the page's connection, `tasks` the activities under
way with the connection they began on, `init` the media start, `sent` and `acks`
requests and answers of the present connection, `hand` the cookie each handshake
carried, `holder` and `served` the peer and production at the server. `Login`,
`GuestLogin`, `Connect`, `Disconnect`, `Timeout`, `MediaStep`, `MediaFails`, `Switch`,
`Elsewhere`, `Expire`, `Restart`, `Lifecycle`.

`Playback`: one target and its row (`key`, `muted`, `slider`), the marks the page
keeps per key (`muted`, `stopped`, `member`, `dims`), `entries` the streams with the
key they are filed under and the gain they sound with, `renders` target lists being
fetched, `sent` snapshots on their way, `db` the saved settings. `Heard` is the
level a stream has, `Wanted` what the row asks for.

### RadioGateway

Tasks run in two threads, the queue and the rescue of a failed task, each resting
where the code awaits (`Consumed`, `Keyed`, `Finished`, `Closed`, `Killed`). `gw` is the
active and the pending talk, the queue and the release timer, `ptt` the pin with
its own queue, `rx` the receiving side, `sess` the playbacks, `inbox` the server's
events on their way. `TalkToRadio`, `TalkElsewhere`, `EndTalk`, `CloseProducer` are the
talkers, `Disconnect`, `Renew`, `SetUp`, `WarmUp`, `SetupFails` the connection.

### HeadlessTalk, HeadlessSettings

`HeadlessTalk`: `world` is the talk model of `talk.rs` (`held` per source, `locked`,
`reply`) and what the server was told last (`told`), `page` the web page: what it shows
(`look`), what its fingers do, the posts and answers on their way, one snapshot by polling.
`Press`, `Slide`, `LetGo`, `ChangeView`, `Handle`, `Refresh`, `Poll`; the client loses its
server, restarts, is edited elsewhere. Losing the session leaves what is held and locked
alone (`teardown_media`), presses and locks go on while it is away
(`handle_offline_command`), and `Reconnects` sends the talk again (`setup_media`,
`run_connected`); only a change of production drops it (`active-production-reset`).
`ServerToldTheTalk` says of every state with a session that the server has been told the
talk; `SilentWhenLetGo` and `RowsTellTheTalk` hold across losses too.

`HeadlessSettings`: three documents, what the client runs with, what its file says,
what the form shows; one field for each way the code treats fields. `Save` collects
the form, `Handle` writes the file as `config_api.rs` does, `ToggleRaw` and `EditRaw`
the raw editor, `WriteElsewhere` and `Restart` the rest of the world.

### Parts

The thirteen modules above that have an instance of some ten or hundred thousand
states share one state space: a behaviour starts in one part and stays there, and
the variables of the other parts stay `None`. Each property names the part it
speaks of. The groups exist for the proofs, which are made per group and carried
over to `Parts`; `MCParts` gives the constants their values.

## 3. Runs

| Run | Instance | Properties | Distinct states |
| --- | --- | --- | --- |
| `talk_routing` | 3 sockets, 2 users, 1 conference, 2 productions, 1 producer, 2 consumer ids, 2 matrices, 2 consumes in flight; symmetric sockets | `TypeOK`, `Bookkeeping`, `ConsumersHaveLiveEnds`, `DeliveriesReachTheAddressed`, `DirectAudioStaysInProduction`, `ChangedDeliveryClosesConsumers`, `NoSpuriousTeardown`, `ForcedStopSilences` | 44 576 |
| `listener_direct` | speaker and listener, direct talk, 3 consumer ids, 2 consumes in flight, queues of 3 | `SyncTypeOK`, `AddressedIsHeard`, `UnaddressedIsSilent` (fair) | 90 516 |
| `listener_retarget` | the same with a conference, 1 consume in flight, queues of 2, connections kept | `NothingLeaks` | 401 190 |
| `takeovers` | 2 pages (one reconnecting) and a bridge port of one user, 1 command | `TypeOK`, `PendingHasItsSession`, `ImplementsPromise` (refinement), `LogoutSparesSuccessor`, `AnswerFromAddressedSession`, `CommandsAreAnswered` (fair) | 218 100 |
| `mixture` | 2 users, a feed on a page or a port that opens twice, 1 command | `OneSessionPerAccount`, `WaitingIsPending`, `OnlyLostSessionsFail` | 875 520 |
| `bridge_talk` | 1 target; five mixtures of commands, edits, faults and loud moments | `TypeOK`, `HotOnlyAddressed`, `Agreement`, `LevelTalksEnd`, `ChoiceKept` (fair) | 164 937 |
| `bridge_control` | 2 session ids, 3 events with a fault, or 2 faults with time; queue of 2, drain of 1 | `TypeOK`, `EventsInOrder`, `EventsArrive`, `SessionsKept` (fair) | 127 402 |
| `parts` | thirteen modules, see below | `TypeOK` and nine, see below | 1 750 739 |

The instances of `parts`, with their shares of the states:

| Part | Instance | Property | States |
| --- | --- | --- | --- |
| directory | 2 users and a guest profile, 2 conferences, a feed, 2 productions, 2 older databases; 2 edits, or an edit and an import | `MatrixFollowed`: `MatrixSound`, `PagesFollow` | 99 866 |
| webtalk | 2 targets, a finger, a key, the level trigger; 2 presses with a stop or a fault | `TalkFollowsControls`: `TalkFollowsInputs` | 271 147 |
| hotkeys | 2 targets, 2 digits, 4 keys of 3 bindings and the space bar, 2 productions; 3 presses, edits and changes mixed | `TalkFollowsControls`: `HotkeysTrue` | 117 569 |
| microphone | 4 changes and a press, or 2 changes, 2 presses and a fault | `MicrophoneTrue` | 128 198 |
| session | 3 kinds of account, with or without a browser session, 2 productions, another device; 2 losses, a login and a change, or 1, 2 and 1 | `SettledMeansConnected` | 270 354 |
| playback | 3 kinds of target; five mixtures of three edits, changes and losses | `SoundsAsShown` | 53 844 |
| media | 2 voices; 2 talks and a fault, or one of each and a change of devices | `EdgesServe`: `PortAsServed` | 140 744 |
| radio | 2 talkers, 4 playbacks; 2 talks, or a talk with a fault and reception or a break | `EdgesServe`: `KeyedWhileAddressed`, `OnePlayback` | 87 734 |
| tally | 2 users, 2 productions, a conference; 3 events of talk, edit and cut | `ToldWhatHolds` | 132 252 |
| admin | 2 productions, 1 row of 2 targets; 2 or 3 edits and faults | `AdministrationTrue`: `ShownIsStored` | 69 216 |
| config | 4 environments, 3 files to import; up to 7 ticks and 3 other events | `AdministrationTrue`: `SettingsHold` | 133 310 |
| headless | a user, a conference, the reply button and a deck key; 2 presses with a fault, or one with a change | `HeadlessTrue`: `TalkAsShown` | 171 165 |
| settings | 3 files; 2 edits, a save and a restart, or with another writer | `HeadlessTrue`: `SettingsKept` | 75 340 |

`production_switch`, `conference_deaf`, `stale_list` and `stuck_talk` end with a
counterexample; they are the findings of section 5.

**Bounds.** `MaxPending` bounds consume requests in flight for a peer and
producer, `MaxInbox` and `MaxOutbox` the queues of a connection; `Steady` keeps
connections open and the producer running in the runs with two streams. Three
sockets are the least with a takeover while somebody else listens; two matrices
differ in one membership and one production. Two consume requests at once are
needed for a duplicate consumer, three consumer ids for one more after it.
Commands do not read each other's entries, so one command shows what happens to
any; three peers of one user give a successor of a successor. In `bridge_control`
a queue of two loses an event to a third, and a drain of one leaves one behind
(the code has 250 and 100); session ids are used again once nobody remembers
them, and two suffice for a session and its successor. `bridge_talk` takes two
disturbances of a talk at a time, and three edits for an edit during a save that
follows a save. The budgets of the parts (`Budgets`, `Attempts`, `Efforts`) let two
or three events of different kinds meet in every order, which is what each
hazard of `PROJECT.json` takes; the variants of `PROJECT.json` show for every
property that the bound is large enough for it to fail. `Sessions` of
`RadioGateway`, the numbers of connections (9) of `WebSession` and the horizon of
`ServerConfig` follow from these budgets. Deadlock is not checked: with every
connection and budget used up the instance simply ends.

**Fairness.** `listener_direct` assumes that the server handles what has arrived,
that mediasoup answers, that the client handles its messages and that its
reconciliation timer fires. Node.js and the browser run pending callbacks, and
`startActiveProducerSync` is an interval timer. Nobody is assumed to talk,
connect or administrate. Both liveness properties speak of listeners that stay
addressed, or unaddressed, for good. `takeovers` assumes only that the two
timers of a command fire; no session and no device has to answer. `bridge_talk`
assumes that requests are answered or fail, that the level poll, the autosave
and the refresh of the configuration run, as intervals and promises of the page
do; nobody is assumed to speak, edit or send a command. `bridge_control` assumes
that what was written to a connection arrives, that a dead connection is noticed,
that timers fire and time passes; faults need not happen, and a server never has
to restart. The parts have safety properties only: "once everything is answered"
is a state, not a promise that it is reached.

## 4. Proofs

`ListenerSync_proofs`, the routing. The inductive invariant is `IInv`: `TypeOK`, `Bookkeeping`
and `ConsumersHaveLiveEnds`. The last is not inductive alone, because
`ConsumeDone` stores a consumer without looking at the ends again: it needs that
a pending consume always has live ends, which `Bookkeeping` says and which rests
on every disconnect and close dropping pending consumes. From it follow, one
lemma per action, the theorems about consumers, forced stops and teardown.
Recorded deliveries are followed by `FreshOrKept`: each step either resolves a
delivery anew or keeps it with all it depends on. `DirectAudioScoped` assumes
that the mode is never switched; without that it is false (section 5).

The listeners. `SyncInvariant` adds the types of queues and client maps;
`ImplementsRouting` maps every step to a step of `TalkRouting` or a stutter, so
`ListenersCannotBreakRouting` carries the guarantees of the server over to any
behaviour of the listeners.

`NothingLeaks` speaks of quiet listeners only; the
invariant says where a consumer is traced while messages are on their way: in
the listener's streams, in its pending requests, in an answer, or in a request
to close it. That is not inductive alone, because an answer may overwrite the
pending entry in which another consumer is traced. So `LeakInv` adds that a
request, the work of the server on it and its answer are one token
(`OneToken`), that the client has the stream pending as that token wants it
(`Awaited`), and that consumer ids are unique.

`Sessions_proofs`. `WaitingIsPending` stands on its own (`Settling`);
`OneSessionPerAccount` and `PendingHasItsSession` need each other: a session that ends fails its commands only if nobody else has its
account. `AnswerFromAddressedSession` needs in addition where a command can be
(`Trail`: on the way to its session, at its device, or on the way back over some
connection of that device) and that a registered peer has the account of its
device (`Logged`): a result that arrives over another connection then finds the
command settled, because a second session of the same account means the first
is gone. `ReplaceKeeps` is the one lemma about the end of sessions; logouts,
takeovers and losses cite it. `SessionsImplementPromise` shows that each step of
`Sessions` is a step of `Promise` or a stutter: it needs the invariant that every
settled command, and no other, has been told (`Told`), and from
`PendingHasItsSession` that the commands a takeover fails are exactly those that
were sent to the holder it removes.

`BridgeTalk_proofs`. The operations of a port run one after the other, each in
steps with requests to the server between. `Progress` says how far the requests of
the operation at the head of the queue have come; `HotOnlyAddressed` needs it,
since an operation first sets the target and then opens the microphone, and
`Agreement` is what it says of an empty queue. `TypeOK` holds that no caller has
two operations in the queue, for which `Idle` is needed: a poll, a refresh or a
save that is still to learn what to do has none. `ChoiceInv` follows the user's
choice from the draft through the save to the configuration.

`BridgeControl_proofs`. An event is at one place at most (`Apart`), which gives
"handled once". "In order" needs that queue, wire and the answer to a poll each
keep their order (`Ordered`), and that what the stream listened to has still to
bring is later than what streams have brought (`Ahead`); this holds because a
session has one stream, asked for once, and an ended session keeps no queue
(`Lifecycle`). `StreamKept` assumes that the heartbeat of a stream is no longer than
the limit after which a session is stale (`Beat <= Stale`): the code has 25 s
(`serverCore.js:5318`) and 30 s (254).

`Registry_proofs`, the database. The invariant `DirSound` is `MatrixSound` of a database, in parts
that each request can be looked at for (`OnePrimary`, `Contents`, `Buttons`, `Positions`);
the backup is the export of a sound database. `Removal` and `Addition` say once what a
request that takes rows away, or adds some, must leave of the rows' ends; the
requests cite them. Upgrades and imports are shown to make a sound database of
any older one that is `WellFormed`. `Kept` is recursive; what it returns is shown for
the least length at which it would fail, because the theorems on induction take
an operator as a parameter, which the provers cannot be given.

Its pages. A page skips a notice about a conference that it does not
show, so "it has notices" is no excuse for an old list. The invariant `InStep` says
that a page all of whose notices will be skipped (`Settled`) has a list that follows
already, for the production it is in, and that this is the production whose list
it would get. `Shrunk` is the relation between the database before and after that a
page may sleep through: its list loses users and feeds only. `MoreShrinks` and
`LessShrinks` give it for requests that add and take away; for the others the
page has been told. The invariant also holds that nobody is on with an id not
given yet, without which a new user could inherit a page. Without `strayed` the
property is false from three edits on (section 5).

The sign-on of a page (`SessionSettles`). Requests and answers of different connections, and of
different calls over one, are told apart by their numbers (`Numbered`), and nothing of the
next connection is on its way while there is none (`Apart`). `SignJoined` is that the
connection is registered, nothing else is on its way, and the page shows what it is served or will when
it hears the last answer (`Agreed`). A registration that is waited for is the last one sent
and brings that about (`Latest`), a recovery that waits for its media has it (`Signed`), and
a page that shows the intercom is recovering, has a timer to, or has it (`Main`).

`Edges_proofs`, the radio gateway. The server's events, two threads of tasks, the queue of the pin,
the release timer and the toggles of the receiving side interleave freely, and every
task goes by a copy of the state that it takes when it starts. The invariant says what the
queue of the pin will still do; that a process that plays is that of the active
talk, and that only the thread of the queue is between its start and its end; so
`OnePlayback`, unless a start failed or was given up. `KeyedWhileAddressed` speaks of
a gateway at rest; the invariant says what carries the latest talk to the key until
then: an event on its way, a key task, the release timer, a start that will key,
or the pin's `desired` already; and that an older event that says the
opposite has a newer one behind it. It also says what is still to come
of the cleanup of a lost connection; without that a renewed one might find something playing.

The other edges. `PortServed`: the invariant, up to `leaked`, says at which awaits each of the three
activities of a port may be while another is at work (`Orders`), who brings the capture up or takes it
down (`Inputs`), and for each producer that its output plays as wanted, is worked on, or has an event in
the queue that will start or end it (`VoiceInv`, `Ends`, `Missing`). `ConfigHolds`: what the server runs
with fits its environment, the file's guest profile is the one in the database, and the backup's timer is not set
beyond what it waits for (`Running`, `Guests`, `Timed`). `ToldHolds`: unless somebody was not told or a
handler awaits, every Companion knows what holds (`Known`), and the tally lights are right at any time (`Red`);
each handler either leaves alone what a state is derived from or tells whom it concerns, and the
result of a command tells the Companions that hear of its user and marks them `answered`.

`Surfaces_proofs`. Handlers are operators on pages that call each other, so the lemmas
are about the operators: what each keeps of a page, and what it establishes, from what it
finds; an action cites the lemmas of its handler. For `WebTalk` (`TalkFollows`) a page is
`WebGood`: its producer, the start of one and its preparation exclude each other and have their
answers on the way (`Struct`); up to the races it addresses what is wanted, has told the server so, and
talks or is about to (`Addressed`, `Sync`); and a press that no finger holds is left behind only once a
lock stood (`Tidy`). The loop over waiting presses (`Woken`) is a recursive
function, shown to have a solution at the least length at which it would have none. For the
microphone (`SoundsOnAir`, `LetsGo`, `MicrophoneHolds`) the tracks are those that somebody uses or a call will
take over, one call owns the producer at most (`Once`), and somebody will let go of an open microphone
(`MicLetGo`). For the shortcuts (`HotkeysHold`) the table is always the one of the list and the keys set
(`Current`), `Rebuild` shows each key beside the target it presses (`KeysShown`), and what counts as
pressed is held down and bound (`HeldKeysLetGo`). For the headless page
(`TalkIsShown`) the client has told its server the talk whenever it has a session (`Client`), an element
of the page that nobody touches holds nothing or has its release on the way, after each press
(`Silenced`), and what was drawn last is the client's last state (`Drawn`); a loss and a recovery leave all of it
as it is. For its settings (`SettingsAreKept`) a field not edited is as drawn from the documents of the
page (`AsDrawn`), and what is sent was collected from it (`Honest`).

`Parts_proofs` carries these theorems to `Parts`: a behaviour starts in one part
and stays there, so what holds in every behaviour of the part holds in `Parts` while it runs.

The theorems hold for any numbers of sockets, users, producers, commands, targets, keys and any
matrices and budgets. They assume only the named assumptions on constants: for the modules with
runs of their own `RoutingAssumption`, `RolesAssumption`, `SessionsAssumption`,
`MessagesAssumption`, `IdsAssumption`, `TalkAssumption`, `ControlAssumption` (disjointness,
types, and that `None` is no identity); for the parts `DirectoryAssumption` (the kinds
of targets are tables of their own, and an older database is what its keys and the server
that wrote it ensured, `WellFormed`), `GatewayAssumption` (talkers and playbacks are finite in
number and 0 is no playback), `MediaAssumption`, `ControlsAssumption`, `HotkeysAssumption`, `TallyAssumption`
(numbers of users and productions are positive), `HeadlessAssumption`, `SettingsAssumption`,
`SessionAssumption` and `ConfigAssumption`. `MCParts` has TLC evaluate the latter for its
instance (`DirectoryHolds` and those after it).

Only model-checked: the liveness properties `AddressedIsHeard`,
`UnaddressedIsSilent`, `CommandsAreAnswered`, `LevelTalksEnd`, `ChoiceKept`,
`EventsArrive` and `SessionsKept` but for `StreamKept`, since liveness under fairness is
out of the prover's reach; `SoundsAsShown` (`Playback`), `AdministrationTrue` as a whole (its half
about settings is `ConfigHolds`, that of the administration page has no proof), and the
`TypeOK` of `Parts`. Modules declare no recursive operators, which are out of reach too, but recursive functions.

## 5. Findings and known limits

### With a run

- `production_switch`: switching `multipleProductions` on
  (`serverCore.js:4484`) reconciles no recipients, since the call is inside
  `if (!enabled)`. A direct conversation goes on between peers of different
  productions, although `productionRouting.test.js:23` says "direct user audio
  remains scoped to the active production".
- `conference_deaf`: when a consume request replaces a duplicate consumer
  (`serverCore.js:9013`) the client is not told. It keeps a dead stream under the
  old target; when the speaker returns to that target the announcement and all
  reconciliations are skipped as "already tracked", and a member of the
  conference stays deaf, against `README.md:207-209`.
- `stale_list`: the reconciliation prunes with a list fetched before its first
  await (`client.js:10624`) and removes a stream announced since, against the
  comment above it. The next reconciliation repairs it.
- `stuck_talk`: a press while the first talk producer is still being prepared
  waits for it (`client.js:11573`) and then resumes it without looking whether
  the button is still held. Released meanwhile, it leaves the microphone open
  with nothing held and nothing locked until another press; the button is
  titled "Hold to talk" (`client.js:8971`).

### Disagreements met while modelling, without a run

- Restoring a backup of before productions loses the conferences of its users:
  the primary production is created without them (`dbHandler.js:1375`), against
  the comment at `dbHandler.js:1346`. `Directory` models what the code does.
- Volumes are lost. After a render the page sends a snapshot with the targets it
  shows (`client.js:9986`, 7863), and the server replaces all saved settings of
  the account by it (`dbHandler.js:2214`). An instance of `Playback`: set the volume
  of x in production 1, switch to production 2, where x is no target, let the
  snapshot arrive, and switch back; x has the default volume. `README.md:219`
  says that these settings "remain global and do not select a Production".
- `README.md:190` says browser sessions are held in memory and are invalidated by
  a restart; the server keeps them in the database (`serverCore.js:753`,
  `dbHandler.js:17`) and accepts their cookies after it. `WebSession` models that.
- The page of the headless client says "Saving another setting keeps those file
  values." (`app.js`, about line 1530); the merge (1461-1469, 1795-1907) writes
  running values over some of them.
- Painting "listen only" over the cell of a feed or user in the administration
  page changes the conference with the same number (`admin.js:4745-4750`; the
  button says it concerns conferences, `admin.html:3873`).
- A slide to the lock in the headless page sends no release for its press
  (`app.js` 688-712): after the tap that "unlocks" the row its press is still held.

### Races and omissions the properties step around

- *Bridge talk*: the lost answer to a start of the level trigger, or a failed
  request that was to undo it, leaves the microphone on (`missed`); a failed
  autosave waits for the next edit; a release queued behind an unanswered press
  ends its talk (`app.js:2414`).
- *Bridge control*: a session whose one request for its stream is lost or refused is
  polled until it ends (`app.js` 2054, 2603, 2728, 2769); an event behind the first hundred of a queue waits while a
  stream is open (`Stranded`, `serverCore.js:5291`); orphaned sessions end only as
  time passes.
- *Bridge media*: an output whose start by an event failed is not retried before
  the next event (`deaf`, `app.js` 1999-2010); a start that overtakes its own stop
  leaves a native part that nobody owns (`leaked`, 705, 664, 2483, 2641).
- *Talk controls*: a row slid to the lock, or any press let go over a lock that stands
  alone, leaves its press in `activeTalkPointers` (11802-11809, 11909): when the lock is dropped by a
  command or a new list the page talks on with nothing held (`Left`). The races "warm" (11573), "restart" (11612), "late" (11590), "slide"
  (11399), "orphan" (11991), "lock" (11567), "fault": see `TalkFollowsInputs`.
- *Shortcuts*: a release is looked up in the table of now (12049); a blur with a
  lock leaves the talk of a held key (11903). The module calls both `amiss`.
- *Microphone*: double starts of a feed (6293, 6369), two `getUserMedia` at once
  (7118, 2984, 3038), settings closed while a producer is made (2188, 3519), a
  denial or grant that comes late (2130, 8302), a talk producer that keeps the
  track of the former device (3529, 3421).
- *Sign-on*: requests without a time limit hang with the connection they were
  sent on (10110, 10533; `hung`), a flapping connection restarts its attempts
  (6777).
- *Playback*: a stream consumed while its row moves is filed under two keys
  (`moved`); pending keys of a lost connection are never cleared (10092, 10100).
- *Tally*: the result of a command tells every Companion that hears of the user the
  tally of the primary production (`serverCore.js:8221`), also one in another production, until the
  next state of the user; `README.md:273` says that "Tally is scoped to the selected
  Production", and 245-246 that a Companion has an event stream filtered by its own.
  `answered` marks them, and `ToldWhatHolds` asks of them only the rest of the state.
  `untold` marks edits after which nobody is told: memberships and
  productions added or removed by an administrator (`serverCore.js` 6227), the
  end of a talk without a producer, a user who leaves unwatched (8880-8899).
- *Pages and productions*: when a production cannot be used any more, the server
  moves its pages to the first one their user has (`serverCore.js:6234`), also when
  only one is in use and the user is not in it. The page then gets the list of
  another production than the server has it in, and later edits tell it by the
  wrong one: deleting the production in use, or switching several productions on
  (4484), leaves its list as it was. `strayed` marks these pages. It takes three edits to
  see it, one more than the run has; the proof found it.
- *Older databases*: the positions of the time without productions
  (`user_target_order`) have no foreign keys, so a stale one could be carried over;
  `WellFormed` leaves such databases out. An import of a backup without the tables of
  memberships keeps the position of a conference that was only a talk target,
  although it makes no membership of it (`dbHandler.js` 1346-1372, unlike `db.js`
  238-409); `WellFormed` leaves out backups that have one.
- *Administration page*: `stale` marks changes that are not broadcast and requests
  that were lost, `crossed` a fetch that overtook a later one (`admin.js` 2216).
- *Radio gateway*: "late", "unknown", "toggle", "fault", "abandoned": a key command
  behind a slow start, a talk of which the gateway was not told, failed requests,
  and setups given up half way (534, 527, 573-575, 620, 681-700, 1062).
- *Headless page*: `amiss` marks a row whose release or lock was lost or swallowed
  (688-712, 623, 391). *Settings*: `meant` is forgotten when others write the file.
- *Configuration*: the mDNS page does not know of an override by the environment
  (4114-4127); an import that fails half way leaves the database replaced (`half`,
  4681); a file that is torn counts as absent (355, 367).

### Hazards not covered

Beyond those of `PROJECT.json`: an import of the database under running talk
(`serverCore.js:4575`); several peers with one guest id (1632); silent drops of a
full event queue are allowed for but not counted (6888); a 202 before a failure
(5845); a failed receive transport in the browser (`client.js:10544`, 10602, 10626);
two voice-trigger loops (8292); the back-off of the
headless session (`session.rs:291`); two loops of one bridge port after a fast
stop and start (`app.js:2391`, 2694); two saves of one order in the
administration page.

## 6. Not modelled

Audio devices and codecs, the WebRTC stacks, SQL and migrations below the level of
rows, packaging, desktop shells and the layout of the user interfaces: their
behaviour is data or belongs to other programs. Push notifications
(`applePttPushService.js`) are calls to an external service; `TalkRouting` and `Tally`
have the await they cause. `public/mediasoup-client.js` is a vendored bundle. The
headless client's session, alerts, jitter buffer and voice gate, the guests and the
producers with fixed targets in the routing, the second tally bus, the browser
fallback of the bridge, and the headers of single sign-on are not modelled yet. Each part has its
reason in `PROJECT.json`.

## 7. Plan

Done: routing, listener, sessions, with their proofs and the refinement to
`Promise`; the bridge's control and talk, the database and the radio gateway, with
proofs; the bridge's media, tally and
configuration, the web client's controls, shortcuts, microphone and session, and the
headless client's talk and settings, with proofs; the web client's playback and the
administration page, model-checked.
Next, in order:

1. Proofs of the remaining parts: `Playback`, then `AdminMatrix`.
2. A refinement of `Directory`: the pages as caches of one abstract matrix.
3. `HeadlessSession` (`session.rs`): connect, register, run, back off, commands
   received offline; a headless listener composed with `TalkRouting` and compared
   with `ListenerSync`.
4. Guests, feeds and producers with fixed targets in `TalkRouting`.
5. The jitter buffer and the voice gate as operators against a reference.
