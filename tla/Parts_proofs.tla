----------------------------- MODULE Parts_proofs -----------------------------
(***************************************************************************)
(* Proofs about the whole of Parts: what is proved of a part holds while   *)
(* that part runs, because a behaviour of Parts in which the part runs is  *)
(* a behaviour of the part.                                                *)
(***************************************************************************)
EXTENDS Parts, Surfaces_proofs, Registry_proofs, Edges_proofs

\* The matrix of a server names what exists and grants what its production
\* grants, and pages follow it, while the directory runs (MatrixFollowed).
THEOREM DirectoryPart == ASSUME D!DirectoryAssumption PROVE Spec => []MatrixFollowed
<1> DEFINE Here == part = "directory"
<1>1. Init /\ Here => D!Init
  BY DEF Init
<1>2. [Next]_vars => (Here <=> Here') /\ (Here => [D!Next]_(D!vars))
  BY DEF Next, vars, directoryVars, D!vars
<1>3. D!Spec => []D!MatrixFollowed
  BY MatrixIsFollowed
<1>4. Here /\ D!MatrixFollowed => MatrixFollowed
  BY DEF MatrixFollowed
<1>5. ~Here => MatrixFollowed
  BY DEF MatrixFollowed
<1> HIDE DEF Here
<1> QED BY <1>1, <1>2, <1>3, <1>4, <1>5, PTL DEF Spec, D!Spec

\* What is on air from a page sounds, and its device is let go of when nothing
\* uses it, while the microphone runs (MicrophoneTrue).
THEOREM MicrophonePart == Spec => []MicrophoneTrue
<1> DEFINE Here == part = "microphone"
<1>1. Init /\ Here => M!Init
  BY DEF Init
<1>2. [Next]_vars => (Here <=> Here') /\ (Here => [M!Next]_(M!vars))
  BY DEF Next, vars, M!vars
<1>3. M!Spec => []M!MicrophoneTrue
  BY MicrophoneHolds
<1>4. Here /\ M!MicrophoneTrue => MicrophoneTrue
  BY DEF MicrophoneTrue
<1>5. ~Here => MicrophoneTrue
  BY DEF MicrophoneTrue
<1> HIDE DEF Here
<1> QED BY <1>1, <1>2, <1>3, <1>4, <1>5, PTL DEF Spec, M!Spec

\* Companions and pages were told what holds, but for the camera that the result
\* of a command may tell, while users talk and the matrix
\* is edited (ToldWhatHolds).
THEOREM TallyPart == ASSUME T!TallyAssumption PROVE Spec => []ToldWhatHolds
<1> DEFINE Here == part = "tally"
<1>1. Init /\ Here => T!Init
  BY DEF Init
<1>2. [Next]_vars => (Here <=> Here') /\ (Here => [T!Next]_(T!vars))
  BY DEF Next, vars, T!vars
<1>3. T!Spec => []T!ToldWhatHolds
  BY ToldHolds
<1>4. Here /\ T!ToldWhatHolds => ToldWhatHolds
  BY DEF ToldWhatHolds
<1>5. ~Here => ToldWhatHolds
  BY DEF ToldWhatHolds
<1> HIDE DEF Here
<1> QED BY <1>1, <1>2, <1>3, <1>4, <1>5, PTL DEF Spec, T!Spec

\* The web interface of a headless client shows its talk and its settings as
\* they are, while one of the two runs (HeadlessTrue).
THEOREM HeadlessPart == ASSUME H!HeadlessAssumption, F!SettingsAssumption PROVE Spec => []HeadlessTrue
<1> DEFINE Talks == part = "headless"
           Sets == part = "settings"
<1>1. (Init /\ Talks => H!Init) /\ (Init /\ Sets => F!Init)
  BY DEF Init
<1>2. [Next]_vars => /\ Talks <=> Talks'
                     /\ Sets <=> Sets'
                     /\ Talks => [H!Next]_(H!vars)
                     /\ Sets => [F!Next]_(F!vars)
  BY DEF Next, vars, H!vars, F!vars
<1>3. (H!Spec => []H!TalkAsShown) /\ (F!Spec => []F!SettingsKept)
  BY TalkIsShown, SettingsAreKept
<1>4. (Talks => H!TalkAsShown) /\ (Sets => F!SettingsKept) => HeadlessTrue
  BY DEF HeadlessTrue
<1> HIDE DEF Talks, Sets
<1> QED BY <1>1, <1>2, <1>3, <1>4, PTL DEF Spec, H!Spec, F!Spec

\* The radio is keyed only while somebody addresses it and a bridge serves its
\* ports as the server does, while one of the two runs (EdgesServe).
THEOREM EdgesPart == ASSUME R!GatewayAssumption, B!MediaAssumption PROVE Spec => []EdgesServe
<1> DEFINE Radio == part = "radio"
           Media == part = "media"
<1>1. (Init /\ Radio => R!Init) /\ (Init /\ Media => B!Init)
  BY DEF Init
<1>2. [Next]_vars => /\ Radio <=> Radio'
                     /\ Media <=> Media'
                     /\ Radio => [R!Next]_(R!vars)
                     /\ Media => [B!Next]_(B!vars)
  BY DEF Next, vars, radioVars, R!vars, B!vars
<1>3. (R!Spec => []R!KeyedWhileAddressed) /\ (R!Spec => []R!OnePlayback) /\ (B!Spec => []B!PortAsServed)
  BY KeyFollowsTalk, OneAtATime, PortServed
<1>4. (Radio => R!KeyedWhileAddressed) /\ (Radio => R!OnePlayback) /\ (Media => B!PortAsServed) => EdgesServe
  BY DEF EdgesServe
<1> HIDE DEF Radio, Media
<1> QED BY <1>1, <1>2, <1>3, <1>4, PTL DEF Spec, R!Spec, B!Spec

\* The web client talks to what its controls hold, and a key talks to the target
\* it is shown beside, while one of the two runs (TalkFollowsControls).
THEOREM ControlsPart == ASSUME W!ControlsAssumption, K!HotkeysAssumption PROVE Spec => []TalkFollowsControls
<1> DEFINE Talks == part = "webtalk"
           Maps == part = "hotkeys"
<1>1. (Init /\ Talks => W!Init) /\ (Init /\ Maps => K!Init)
  BY DEF Init
<1>2. [Next]_vars => /\ Talks <=> Talks'
                     /\ Maps <=> Maps'
                     /\ Talks => [W!Next]_(W!vars)
                     /\ Maps => [K!Next]_(K!vars)
  BY DEF Next, vars, W!vars, K!vars
<1>3. (W!Spec => []W!TalkFollowsInputs) /\ (K!Spec => []K!HotkeysTrue)
  BY TalkFollows, HotkeysHold
<1>4. (Talks => W!TalkFollowsInputs) /\ (Maps => K!HotkeysTrue) => TalkFollowsControls
  BY DEF TalkFollowsControls
<1> HIDE DEF Talks, Maps
<1> QED BY <1>1, <1>2, <1>3, <1>4, PTL DEF Spec, W!Spec, K!Spec

\* A page that shows itself as settled is registered over its own connection,
\* while the sign-on of a page runs (SettledMeansConnected).
THEOREM SessionPart == ASSUME S!SessionAssumption PROVE Spec => []SettledMeansConnected
<1> DEFINE Here == part = "session"
<1>1. Init /\ Here => S!Init
  BY DEF Init
<1>2. [Next]_vars => (Here <=> Here') /\ (Here => [S!Next]_(S!vars))
  BY DEF Next, vars, S!vars
<1>3. S!Spec => []S!SettledMeansConnected
  BY SessionSettles
<1>4. Here /\ S!SettledMeansConnected => SettledMeansConnected
  BY DEF SettledMeansConnected
<1>5. ~Here => SettledMeansConnected
  BY DEF SettledMeansConnected
<1> HIDE DEF Here
<1> QED BY <1>1, <1>2, <1>3, <1>4, <1>5, PTL DEF Spec, S!Spec
=============================================================================
