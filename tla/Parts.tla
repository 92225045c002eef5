-------------------------------- MODULE Parts --------------------------------
(***************************************************************************)
(* The parts that are modelled each on its own, in one specification: a    *)
(* behaviour is a behaviour of the part it starts in, and the variables    *)
(* the part does not have stay None.  What is stated of a part is stated   *)
(* here while that part runs.                                              *)
(***************************************************************************)
EXTENDS Surfaces, Registry, Edges

VARIABLE part   \* the part that runs

directoryVars == <<db, issued, multiple, backup, peers, imported>>
radioVars == <<talk, delivered, inbox, sess, gw, ptt, rx, phase, races>>
vars == <<part, world, page, directoryVars, radioVars, left>>

-----------------------------------------------------------------------------
\* The other parts; those of Surfaces are W, M, K, H and F, those of Registry
\* D and S, those of Edges R, B, C and T.
P == INSTANCE Playback WITH Attempts <- Bounds.playback
A == INSTANCE AdminMatrix WITH Prods <- AccountProds, Attempts <- Bounds.admin

-----------------------------------------------------------------------------
NoWorld == world = None
NoPage == page = None
NoDirectory ==
  /\ db = None /\ issued = None /\ multiple = None /\ backup = None /\ peers = None /\ imported = None
NoRadio ==
  /\ talk = None /\ delivered = None /\ inbox = None /\ sess = None /\ gw = None
  /\ ptt = None /\ rx = None /\ phase = None /\ races = None

Init ==
  \/ part = "directory"  /\ D!Init /\ NoWorld /\ NoPage /\ NoRadio
  \/ part = "webtalk"    /\ W!Init /\ NoWorld /\ NoDirectory /\ NoRadio
  \/ part = "microphone" /\ M!Init /\ NoWorld /\ NoDirectory /\ NoRadio
  \/ part = "radio"      /\ R!Init /\ NoWorld /\ NoPage /\ NoDirectory
  \/ part = "session"    /\ S!Init /\ NoPage /\ NoDirectory /\ NoRadio
  \/ part = "playback"   /\ P!Init /\ NoPage /\ NoDirectory /\ NoRadio
  \/ part = "media"      /\ B!Init /\ NoPage /\ NoDirectory /\ NoRadio
  \/ part = "tally"      /\ T!Init /\ NoPage /\ NoDirectory /\ NoRadio
  \/ part = "admin"      /\ A!Init /\ NoPage /\ NoDirectory /\ NoRadio
  \/ part = "headless"   /\ H!Init /\ NoDirectory /\ NoRadio
  \/ part = "settings"   /\ F!Init /\ NoDirectory /\ NoRadio
  \/ part = "config"     /\ C!Init /\ NoPage /\ NoDirectory /\ NoRadio
  \/ part = "hotkeys"    /\ K!Init /\ NoWorld /\ NoDirectory /\ NoRadio

Next ==
  \/ part = "directory"  /\ D!Next /\ UNCHANGED <<part, world, page, radioVars>>
  \/ part = "webtalk"    /\ W!Next /\ UNCHANGED <<part, world, directoryVars, radioVars>>
  \/ part = "microphone" /\ M!Next /\ UNCHANGED <<part, world, directoryVars, radioVars>>
  \/ part = "radio"      /\ R!Next /\ UNCHANGED <<part, world, page, directoryVars>>
  \/ part = "session"    /\ S!Next /\ UNCHANGED <<part, page, directoryVars, radioVars>>
  \/ part = "playback"   /\ P!Next /\ UNCHANGED <<part, page, directoryVars, radioVars>>
  \/ part = "media"      /\ B!Next /\ UNCHANGED <<part, page, directoryVars, radioVars>>
  \/ part = "tally"      /\ T!Next /\ UNCHANGED <<part, page, directoryVars, radioVars>>
  \/ part = "admin"      /\ A!Next /\ UNCHANGED <<part, page, directoryVars, radioVars>>
  \/ part = "headless"   /\ H!Next /\ UNCHANGED <<part, directoryVars, radioVars>>
  \/ part = "settings"   /\ F!Next /\ UNCHANGED <<part, directoryVars, radioVars>>
  \/ part = "config"     /\ C!Next /\ UNCHANGED <<part, page, directoryVars, radioVars>>
  \/ part = "hotkeys"    /\ K!Next /\ UNCHANGED <<part, world, directoryVars, radioVars>>

Spec == Init /\ [][Next]_vars

-----------------------------------------------------------------------------
\* Each part has the types its module states.
TypeOK ==
  /\ part = "directory"  => D!TypeOK
  /\ part = "webtalk"    => W!TypeOK
  /\ part = "microphone" => M!TypeOK
  /\ part = "radio"      => R!TypeOK
  /\ part = "session"    => S!TypeOK
  /\ part = "playback"   => P!TypeOK
  /\ part = "media"      => B!TypeOK
  /\ part = "tally"      => T!TypeOK
  /\ part = "admin"      => A!TypeOK
  /\ part = "headless"   => H!TypeOK
  /\ part = "settings"   => F!TypeOK
  /\ part = "config"     => C!TypeOK
  /\ part = "hotkeys"    => K!TypeOK

\* The stored matrix never names what does not exist or grants what its
\* production withholds, and a page that has been told has the list it shows.
MatrixFollowed == part = "directory" => D!MatrixFollowed

\* The web client talks to the targets whose buttons, keys and locks are held
\* and to nobody else; a key shown beside a target is the key that talks to it,
\* and none stays down without a finger on it.
TalkFollowsControls ==
  /\ part = "webtalk" => W!TalkFollowsInputs
  /\ part = "hotkeys" => K!HotkeysTrue

\* What is on air from a page's microphone sounds, and the device is let go of
\* when nothing uses it.
MicrophoneTrue == part = "microphone" => M!MicrophoneTrue

\* At the edges of the system: the radio is keyed only while somebody addresses
\* it and plays one talk, and a bridge serves a port exactly as the server does.
EdgesServe ==
  /\ part = "radio" => R!KeyedWhileAddressed /\ R!OnePlayback
  /\ part = "media" => B!PortAsServed

\* A page that shows itself as settled is registered over its own connection.
SettledMeansConnected == part = "session" => S!SettledMeansConnected

\* A stream sounds with the volume and mute its row shows.
SoundsAsShown == part = "playback" => P!SoundsAsShown

\* Companions and tally lights were told what holds.
ToldWhatHolds == part = "tally" => T!ToldWhatHolds

\* The page of a headless client shows the talk and the settings it has.
HeadlessTrue ==
  /\ part = "headless" => H!TalkAsShown
  /\ part = "settings" => F!SettingsKept

\* The administration page shows what is stored, and its hints, the guest login
\* and the automatic backup are as the settings say.
AdministrationTrue ==
  /\ part = "admin" => A!ShownIsStored
  /\ part = "config" => C!SettingsHold
=============================================================================
