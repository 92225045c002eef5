---------------------------- MODULE ServerConfig ----------------------------
(***************************************************************************)
(* The server's configuration file and what hangs on it: what a boot makes *)
(* of it and of the environment (server.js, the head of serverCore.js,     *)
(* mediaNetwork.js), the settings of the administration page (GET and PUT  *)
(* /admin/settings/..., admin.js), export and import of a backup, the      *)
(* guest profile in the database, and the automatic backups                *)
(* (automaticConfigBackup.js).                                             *)
(*                                                                         *)
(* Each request reads the file, changes its part and writes all of it, in  *)
(* one piece of synchronous code.  A write can fail, before it touched the *)
(* file or after it truncated it: a file that cannot be parsed counts as   *)
(* none.  Network changes only apply at the next start, which is why the   *)
(* page compares what is saved with what is active.                        *)
(*                                                                         *)
(* Time is counted in units of which a retry takes one (an hour) and a day *)
(* Day: the arithmetic of the schedule does not depend on there being 24.  *)
(* A timer that is due runs before time passes.  The HTTPS and HTTP ports  *)
(* of the configuration only appear as the conflict that starts the wizard *)
(* again.                                                                  *)
(***************************************************************************)
EXTENDS Naturals, FiniteSets

CONSTANTS
  None,
  Nics,          \* names of network adapters
  Address,       \* an address to announce
  Profiles,      \* ids a guest profile may get
  Environments,  \* what the server may be started with: records [mdns, media, rtc, tty]
  Bundles,       \* files to import: [config, profile]
  Attempts       \* bounds: edits, imports, stops, faults, ticks, as records left

VARIABLES
  world,   \* the server, its disk and its clock
  left     \* what may still happen

vars == <<world, left>>

Day == 2
Retry == 1
Horizon == 9     \* no time is later
Bigger(a, b) == IF a > b THEN a ELSE b
Smaller(a, b) == IF a < b THEN a ELSE b

Auto == [mode |-> "auto", at |-> None]
Media == {Auto} \cup {[mode |-> "interface", at |-> n] : n \in Nics} \cup {[mode |-> "manual", at |-> Address]}
Hosts == {"off", "intercom", "studio"}
Odd == "odd"     \* a name the wizard takes and the settings page would refuse
Ranges == {"default", "high"}     \* normalizeRtcPortRange
Intervals == {1, 3}
Clients == {"standard", "custom"} \* normalizeConfiguredDefaultClientSettings

\* Adapters, addresses and profiles have names; what comes with the environment
\* and in a file to import has the form of what is stored.
ConfigAssumption ==
  /\ None \notin Nics \cup {Address} \cup Profiles \cup Nat
  /\ \A env \in Environments : env.media \in Media \cup {None}
  /\ \A bundle \in Bundles :
       /\ bundle.config["media"] \in Media \cup {None}
       /\ bundle.config["guest"] = None \/ DOMAIN bundle.config["guest"] = {"on", "id"}
       /\ bundle.config["backup"] = None \/ bundle.config["backup"].days \in Nat

Sections == {"mdns", "media", "rtc", "guest", "clients", "multi", "backup"}
Blank == [s \in Sections |-> None]
\* loadRuntimeConfig
Config == IF world.file = None THEN Blank ELSE world.file

\* normalizeMdnsSetting, resolveSavedMediaNetworkConfig, resolveSavedRtcPortRange: of a missing value as well.
SavedMdns(config) == IF config["mdns"] \in {None, Odd} THEN "intercom" ELSE config["mdns"]
SavedMedia(config) == IF config["media"] = None THEN Auto ELSE config["media"]
SavedRtc(config) == IF config["rtc"] = None THEN "default" ELSE config["rtc"]

(***************************************************************************)
(* A start.  applyConfig hands the file to the server as environment       *)
(* variables, where none is set; mdnsHostname and RTC_PORT_RANGE are read  *)
(* once, the route of a transport each time from the same environment.     *)
(***************************************************************************)
ActiveMdns(config, env) ==
  IF env.mdns # None THEN env.mdns ELSE IF config["mdns"] # None THEN config["mdns"] ELSE "intercom"
\* applyConfig: PUBLIC_IP, TALKTOME_MEDIA_INTERFACE and TALKTOME_MEDIA_NETWORK_SOURCE
Handed(config, env) ==
  LET media == IF env.media # None THEN env.media ELSE SavedMedia(config)
      Of(mode) == IF media.mode = mode THEN media.at ELSE None
  IN  [publicIp |-> Of("manual"), interface |-> Of("interface"),
       source |-> IF env.media # None THEN "env" ELSE IF media = Auto THEN "auto" ELSE "config"]
\* resolveTransportMediaRoute, which is asked for every transport and by the settings page
Route(handed) ==
  [source |-> handed.source,
   route |-> IF handed.publicIp # None THEN [mode |-> "manual", at |-> handed.publicIp]
             ELSE IF handed.interface # None THEN [mode |-> "interface", at |-> handed.interface] ELSE Auto]
\* resolveActiveRtcPortRange
ActiveRtc(config, env) ==
  IF env.rtc \in Ranges THEN [range |-> env.rtc, source |-> "env"]
  ELSE [range |-> SavedRtc(config), source |-> IF config["rtc"] = None THEN "default" ELSE "config"]
Booted(config, rtcConfig, env) ==
  [mdns |-> ActiveMdns(config, env), media |-> Route(Handed(config, env)), rtc |-> ActiveRtc(rtcConfig, env)]

\* hasEnvConfig, shouldRunWizard
HasEnv(env) == env.mdns # None \/ env.media # None \/ env.rtc # None
WizardDue(busy) ==
  world.env.tty /\ ~HasEnv(world.env) /\ (world.file = None \/ busy)
\* promptForMediaNetwork, promptForRtcPortRange
PromptMedia == Media
PromptRtc == Ranges
\* runWizard builds a configuration of its own: what it does not ask for is gone.
Wizard(host, media, range) == [Blank EXCEPT !["mdns"] = host, !["media"] = media, !["rtc"] = range]

(***************************************************************************)
(* The automatic backup.  disk is the time of the newest one, and timer    *)
(* the time the timer runs, or None; ok says whether the directory can be  *)
(* inspected, or the backup written.                                       *)
(***************************************************************************)
\* normalizeAutomaticBackupSettings
Backup(config) == IF config["backup"] = None THEN [on |-> FALSE, days |-> 3] ELSE config["backup"]
On(w) == w.file # None /\ Backup(w.file).on
\* latestAutomaticBackupAt, getStatus
DueAt(w, ok) ==
  IF w.disk = None \/ ~ok THEN w.now ELSE w.disk + (Backup(w.file).days * Day)
NextAt(w, ok) == Bigger(DueAt(w, ok), w.retryAt)
RunNow(w, ok) ==
  IF ok THEN [w EXCEPT !.disk = w.now, !.retryAt = 0] ELSE [w EXCEPT !.retryAt = w.now + Retry]
Schedule(w, ok) ==
  IF ~On(w) THEN [w EXCEPT !.timer = None]
  ELSE LET retry == IF ok THEN w.retryAt ELSE w.now + Retry
           at    == Bigger(DueAt(w, ok), retry)
       IN  [w EXCEPT !.retryAt = retry, !.timer = Smaller(Bigger(at, w.now), w.now + Day)]
SettingsChanged(w, immediately, written, ok) ==
  LET reset == [w EXCEPT !.retryAt = 0]
  IN  Schedule(IF immediately /\ On(w) THEN RunNow(reset, written) ELSE reset, ok)
\* Of the things that may fail at this step, those that do.
Faults(fails) == /\ Cardinality(fails) <= left.faults
                 /\ left' = [left EXCEPT !.faults = @ - Cardinality(fails)]
Outcomes == SUBSET {"save", "tear", "write", "inspect"}
Good(fails, what) == what \notin fails
\* saveRuntimeConfig
Stored(w, config, fails) ==
  IF "tear" \in fails THEN [w EXCEPT !.file = None]
  ELSE IF "save" \in fails THEN w ELSE [w EXCEPT !.file = config]
Done(fails) == fails \cap {"save", "tear"} = {}
\* One request that changes one section.
Edit(section, value) ==
  /\ world.up /\ left.edits > 0
  /\ \E fails \in SUBSET {"save", "tear"} :
       /\ Cardinality(fails) <= Smaller(1, left.faults)
       /\ left' = [left EXCEPT !.edits = @ - 1, !.faults = @ - Cardinality(fails)]
       /\ world' = Stored(world, [Config EXCEPT ![section] = value], fails)

\* PUT /admin/settings/mdns, media-network, rtc-ports, default-client, multiple-productions, and the forms that send
\* them
PutMdns(host) == Edit("mdns", host)
PutMedia(route) == Edit("media", route)
PutRtc(range) == Edit("rtc", range)
PutClients(settings) == Edit("clients", settings)
SubmitMdns == \E host \in Hosts : PutMdns(host)
SubmitMedia == \E route \in Media : PutMedia(route)
SubmitRtc == \E range \in Ranges : PutRtc(range)
SubmitClients == \E settings \in Clients : PutClients(settings)
PutMulti == \E enabled \in BOOLEAN : Edit("multi", enabled)

(***************************************************************************)
(* GET /admin/settings/mdns, media-network and rtc-ports, and what the     *)
(* page says of a restart when it shows the answer.                        *)
(***************************************************************************)
MdnsAnswer == [override |-> FALSE, restart |-> SavedMdns(Config) # world.active.mdns]
MediaAnswer ==
  LET saved == SavedMedia(Config)
      media == world.active.media
      override == media.source = "env"
  IN  [override |-> override,
       restart |-> ~override /\ (saved.mode # media.route.mode \/ (saved.mode # "auto" /\ saved.at # media.route.at))]
RtcAnswer ==
  LET override == world.active.rtc.source = "env"
  IN  [override |-> override, restart |-> ~override /\ SavedRtc(Config) # world.active.rtc.range]
MdnsHint == IF MdnsAnswer.restart THEN "restart" ELSE "matches"
MediaHint ==
  IF MediaAnswer.override THEN "override" ELSE IF MediaAnswer.restart THEN "restart" ELSE "matches"
RtcHint ==
  IF RtcAnswer.override THEN "override" ELSE IF RtcAnswer.restart THEN "restart" ELSE "matches"

(***************************************************************************)
(* Guest login: the file names the profile, the database holds it.         *)
(***************************************************************************)
Guest(config) == IF config["guest"] = None THEN [on |-> FALSE, id |-> None] ELSE config["guest"]
\* getOrCreateGuestProfile
ProfileFor(w) == IF w.profile # None THEN {w.profile} ELSE Profiles
\* resolveGuestLoginSettings without createProfile: what /login/options and registrations go by.
GuestLoginOpen(w) == LET guest == Guest(w.file) IN guest.on /\ guest.id # None /\ guest.id = w.profile
PutGuest(on) ==
  \E id \in ProfileFor(world) :
    /\ world.up /\ left.edits > 0
    /\ \E fails \in SUBSET {"save", "tear"} :
         /\ Cardinality(fails) <= Smaller(1, left.faults)
         /\ left' = [left EXCEPT !.edits = @ - 1, !.faults = @ - Cardinality(fails)]
         /\ world' = [Stored(world, [Config EXCEPT !["guest"] = [on |-> on, id |-> id]], fails)
                       EXCEPT !.profile = id, !.half = IF Done(fails) THEN FALSE ELSE @]
SubmitGuest == \E on \in BOOLEAN : PutGuest(on)
\* GET /admin/settings/guest-login and POST /login/guest create the profile, and store its id.
LoadGuest ==
  \E id \in ProfileFor(world) :
    /\ world.up /\ Guest(Config).id # id
    /\ \E fails \in SUBSET {"save", "tear"} :
         /\ Cardinality(fails) <= 1 /\ Faults(fails)
         /\ world' = [Stored(world, [Config EXCEPT !["guest"] = [on |-> Guest(Config).on, id |-> id]], fails)
                       EXCEPT !.profile = id, !.half = IF Done(fails) THEN FALSE ELSE @]

PutBackup(on, days) ==
  /\ world.up /\ left.edits > 0
  /\ \E fails \in Outcomes :
       /\ Cardinality(fails) <= left.faults /\ fails # {"save", "tear"}
       /\ left' = [left EXCEPT !.edits = @ - 1, !.faults = @ - Cardinality(fails)]
       /\ LET saved == Stored(world, [Config EXCEPT !["backup"] = [on |-> on, days |-> days]], fails)
          IN  world' = IF Done(fails)
                       THEN SettingsChanged(saved, on /\ ~Backup(Config).on,
                                            Good(fails, "write"), Good(fails, "inspect"))
                       ELSE saved
SubmitBackup == \E on \in BOOLEAN, days \in Intervals : PutBackup(on, days)

\* The sections a bundle has replace those of the file; guestLogin takes another profile's id with it.
Imported(config, bundle) == [s \in Sections |-> IF bundle[s] = None THEN config[s] ELSE bundle[s]]
WithProfile(config, id) ==
  IF config["guest"] = None THEN config ELSE [config EXCEPT !["guest"].id = id]

(***************************************************************************)
(* POST /admin/config/import: the database is replaced first, then the     *)
(* file is written.  half notes that only the first was done.              *)
(***************************************************************************)
Import ==
  /\ world.up /\ left.imports > 0
  /\ \E bundle \in Bundles, fails \in Outcomes :
       LET config == Imported(Config, bundle.config)
           needed == config["guest"] # None
           loaded == [world EXCEPT !.profile = bundle.profile]
       IN /\ Cardinality(fails) <= left.faults /\ ~({"save", "tear"} \subseteq fails)
          /\ left' = [left EXCEPT !.imports = @ - 1, !.faults = @ - Cardinality(fails)]
          /\ \E id \in IF needed THEN ProfileFor(loaded) ELSE {bundle.profile} :
               LET saved == Stored([loaded EXCEPT !.profile = id, !.half = ~Done(fails)],
                                   WithProfile(config, id), fails)
               IN  world' = IF Done(fails)
                            THEN SettingsChanged(saved, TRUE, Good(fails, "write"), Good(fails, "inspect"))
                            ELSE saved

TimerDue == world.up /\ (IF world.timer = None THEN FALSE ELSE world.timer <= world.now)
\* The timer's callback: getStatus, runNow when it is due, schedule.
TimerRuns ==
  /\ TimerDue
  /\ \E fails \in SUBSET {"write", "inspect"}, seen \in BOOLEAN :
       /\ seen \/ left.faults > Cardinality(fails)
       /\ Faults(fails \cup (IF seen THEN {} ELSE {"status"}))
       /\ LET ran == IF On(world) /\ NextAt(world, seen) <= world.now
                     THEN RunNow(world, Good(fails, "write")) ELSE world
          IN  world' = Schedule([ran EXCEPT !.timer = None], Good(fails, "inspect"))

Tick ==
  /\ left.ticks > 0 /\ world.now < Horizon
  /\ ~TimerDue
  /\ world' = [world EXCEPT !.now = @ + 1]
  /\ left' = [left EXCEPT !.ticks = @ - 1]

\* The process ends: by POST /admin/restart, by a crash, also one in the middle of a write.
Stop ==
  /\ world.up /\ left.stops > 0
  /\ \E torn \in BOOLEAN :
       /\ torn => left.faults > 0
       /\ left' = [left EXCEPT !.stops = @ - 1, !.faults = IF torn THEN @ - 1 ELSE @]
       /\ world' = [world EXCEPT !.up = FALSE, !.active = None, !.timer = None, !.retryAt = 0,
                                 !.file = IF torn THEN None ELSE @]

\* server.js, then the head of serverCore.js; the wizard's file may fail to be written.
BootWith(config, file, ok) ==
  Schedule([world EXCEPT !.up = TRUE, !.file = file,
              !.active = Booted(config, IF file = None THEN Blank ELSE file, world.env)], ok)
Start ==
  /\ ~world.up
  /\ \E fails \in SUBSET {"save", "inspect", "busy"} :
       /\ Faults(fails)
       /\ "save" \in fails => WizardDue("busy" \in fails)
       /\ IF WizardDue("busy" \in fails)
          THEN \E host \in Hosts \cup {Odd}, media \in PromptMedia, range \in PromptRtc :
                 LET chosen == Wizard(host, media, range)
                 IN  world' = BootWith(chosen, IF "save" \in fails THEN world.file ELSE chosen,
                                       Good(fails, "inspect"))
          ELSE world' = BootWith(Config, world.file, Good(fails, "inspect"))

Init ==
  /\ world \in {[file |-> None, env |-> env, up |-> FALSE, active |-> None, profile |-> None, half |-> FALSE,
                 timer |-> None, retryAt |-> 0, disk |-> None, now |-> 0] : env \in Environments}
  /\ left \in Attempts

Next ==
  \/ SubmitMdns \/ SubmitMedia \/ SubmitRtc \/ SubmitClients \/ PutMulti \/ SubmitGuest \/ LoadGuest \/ SubmitBackup
  \/ Import \/ TimerRuns \/ Tick \/ Stop \/ Start

Spec == Init /\ [][Next]_vars

-----------------------------------------------------------------------------
Times == 0..(Horizon + (3 * Day))
TypeOK ==
  /\ world.file = None \/ DOMAIN world.file = Sections
  /\ world.up \in BOOLEAN /\ world.half \in BOOLEAN
  /\ world.profile \in Profiles \cup {None}
  /\ world.timer \in Times \cup {None} /\ world.disk \in Times \cup {None}
  /\ world.retryAt \in Times /\ world.now \in 0..Horizon
  /\ (world.active = None) = ~world.up

\* What the settings pages say of a restart is what a restart would do: it is asked for exactly when the next
\* start, with the file as it is and the environment as it was, would run with something else than now.  An mDNS
\* name given by the environment is left out, and one the page would refuse: that page knows of neither.
HintsTrue ==
  world.up =>
    LET next == Booted(Config, Config, world.env)
    IN  /\ (MediaHint = "restart") = (next.media.route # world.active.media.route)
        /\ (RtcHint = "restart") = (next.rtc.range # world.active.rtc.range)
        /\ (world.env.mdns = None /\ Config["mdns"] # Odd) => (MdnsHint = "restart") = (next.mdns # world.active.mdns)

\* Guest login that is switched on lets guests in: the file names the profile the database holds, whatever was
\* imported, unless an import replaced the database and then failed to write the file.
GuestReal == (world.file # None /\ Guest(world.file).on /\ ~world.half) => GuestLoginOpen(world)

\* While automatic backups are on and no callback of the timer is waiting to run, the newest backup is younger
\* than the interval, or the last attempt failed less than an hour ago.
BackupDue ==
  (world.up /\ On(world) /\ ~TimerDue) =>
    \/ world.disk # None /\ world.disk + (Backup(world.file).days * Day) > world.now
    \/ world.retryAt > world.now

SettingsHold == HintsTrue /\ GuestReal /\ BackupDue
=============================================================================
