------------------------------ MODULE Surfaces ------------------------------
(***************************************************************************)
(* The parts at which somebody talks or sees what the system does, each on *)
(* its own: the talk controls, the microphone and the shortcuts of a page, *)
(* and the page of a headless client with its settings.                    *)
(***************************************************************************)
EXTENDS Common

CONSTANTS
  TalkTargets, Pointers, KeyInputs, Voice,           \* of WebTalk
  People, TargetLists, Digits, Binding, PageKinds,   \* of Hotkeys
  Contacts, Rooms, Reply, DeckKey, Pinned,           \* of HeadlessTalk
  Files                                              \* of HeadlessSettings

VARIABLE page   \* what a part with a page is about

W == INSTANCE WebTalk WITH Targets <- TalkTargets, Keys <- KeyInputs, Attempts <- Bounds.webtalk
M == INSTANCE Microphone WITH Attempts <- Bounds.microphone
K == INSTANCE Hotkeys WITH Lists <- TargetLists, Pages <- PageKinds, Attempts <- Bounds.hotkeys
H == INSTANCE HeadlessTalk WITH Users <- Contacts, Confs <- Rooms, Key <- DeckKey, Attempts <- Bounds.headless
F == INSTANCE HeadlessSettings WITH Attempts <- Bounds.settings
=============================================================================
