------------------------------- MODULE MCParts -------------------------------
(***************************************************************************)
(* A small instance of every part.                                         *)
(***************************************************************************)
EXTENDS Parts, Naturals, Sequences, TLC

CONSTANTS u1, u2, visitor, c1, c2, f1, p1, p2, t1, t2, i1, k1, s1, s2

\* Two backups: of an installation without productions, and of one whose users
\* have a production.
Flat ==
  [users |-> {u1, u2}, confs |-> {c1}, feeds |-> {f1}, prods |-> {}, primary |-> {},
   members |-> {}, pconfs |-> {}, pfeeds |-> {}, hears |-> {}, talks |-> {}, targets |-> {},
   order |-> [k \in {p1, p2} \X {u1, u2} |-> <<>>], scoped |-> FALSE, ctargets |-> {},
   ghears |-> {<<u1, c1>>}, gtalks |-> {<<u2, c1>>},
   gtargets |-> {<<u1, u2>>, <<u2, f1>>}, gorder |-> [u \in {u1, u2} |-> IF u = u1 THEN <<u2>> ELSE <<>>]]

Early == [Flat EXCEPT !.prods = {p2}, !.members = {<<p2, u1>>, <<p2, u2>>},
                      !.targets = {<<p2, u2, u1>>}, !.ctargets = {<<p2, u1, c1>>},
                      !.order = [k \in {p1, p2} \X {u1, u2} |-> IF k = <<p2, u2>> THEN <<u1>> ELSE <<>>]]

TwoBackups == {Flat, Early}

\* The file of a headless client: complete, nearly empty, and one that leaves
\* out its password and has an empty list.
File(text, flag, password, outputs, decks) ==
  [text |-> text, flag |-> flag, password |-> password, outputs |-> outputs, decks |-> decks, other |-> "a"]
ThreeFiles ==
  {File("a", "off", "a", "a", "a"), File("absent", "absent", "b", "absent", "absent"),
   File("b", "on", "absent", "empty", "b")}

\* What a server may be started with, and what an exported file may say.
Plain(tty) == [mdns |-> None, media |-> None, rtc |-> None, tty |-> tty]
Sections(mdns, media, rtc, entrance, copies) ==
  [s \in {"mdns", "media", "rtc", "guest", "multi", "backup", "clients"} |->
     CASE s = "mdns" -> mdns [] s = "media" -> media [] s = "rtc" -> rtc [] s = "guest" -> entrance
       [] s = "backup" -> copies [] OTHER -> None]
FourEnvironments ==
  {Plain(TRUE), Plain(FALSE),
   [Plain(FALSE) EXCEPT !.media = [mode |-> "manual", at |-> "address"], !.rtc = "bad"],
   [Plain(FALSE) EXCEPT !.mdns = "studio", !.rtc = "high"]}
ThreeExports ==
  {[config |-> Sections(None, None, None, None, None), profile |-> None],
   [config |-> Sections(None, None, "high", [on |-> TRUE, id |-> "g2"], [on |-> TRUE, days |-> 1]),
    profile |-> None],
   [config |-> Sections(None, [mode |-> "auto", at |-> None], None, [on |-> FALSE, id |-> None], None),
    profile |-> "g2"]}

\* Two keys send digit 1, one of them from the number pad.
FourKeys == ("sp" :> "space") @@ ("d1" :> "1") @@ ("n1" :> "1") @@ ("ka" :> "a")
TwoDigits == <<"1", "2">>
TwoPages == {[kind |-> "user", multi |-> TRUE], [kind |-> "guest", multi |-> FALSE]}
TwoLists == <<{<<"t1", "t2">>, <<"t2">>}, {<<"t2", "t1">>}>>

\* What may happen in a behaviour of each part.
Few ==
  [directory |->
     {[edits |-> 2, imports |-> 0], [edits |-> 1, imports |-> 1]},
   webtalk |->
     {[presses |-> 2, stops |-> 1, faults |-> 0], [presses |-> 2, stops |-> 0, faults |-> 1]},
   radio |->
     {[talks |-> 2, faults |-> 0, chunks |-> 0, breaks |-> 0],
      [talks |-> 1, faults |-> 1, chunks |-> 1, breaks |-> 0],
      [talks |-> 1, faults |-> 1, chunks |-> 0, breaks |-> 1]},
   microphone |->
     {[changes |-> 4, presses |-> 1, faults |-> 0], [changes |-> 2, presses |-> 2, faults |-> 1]},
   session |->
     {[losses |-> 2, logins |-> 1, changes |-> 1], [losses |-> 1, logins |-> 2, changes |-> 1]},
   playback |->
     {[edits |-> 2, changes |-> 1, losses |-> 0], [edits |-> 1, changes |-> 2, losses |-> 0],
      [edits |-> 1, changes |-> 1, losses |-> 1], [edits |-> 2, changes |-> 0, losses |-> 1],
      [edits |-> 0, changes |-> 2, losses |-> 1]},
   media |->
     {[talks |-> 2, faults |-> 1, changes |-> 0], [talks |-> 1, faults |-> 1, changes |-> 1]},
   tally |->
     {[talks |-> 3, edits |-> 0, cuts |-> 0], [talks |-> 2, edits |-> 0, cuts |-> 1],
      [talks |-> 1, edits |-> 1, cuts |-> 0], [talks |-> 0, edits |-> 1, cuts |-> 1]},
   admin |->
     {[edits |-> 1, others |-> 1, faults |-> 1], [edits |-> 2, others |-> 0, faults |-> 1]},
   headless |->
     {[presses |-> 2, changes |-> 0, faults |-> 1, answers |-> 1],
      [presses |-> 1, changes |-> 1, faults |-> 0, answers |-> 2]},
   settings |->
     {[edits |-> 2, saves |-> 1, others |-> 0, restarts |-> 1],
      [edits |-> 1, saves |-> 1, others |-> 1, restarts |-> 1]},
   config |->
     {[edits |-> 2, imports |-> 0, stops |-> 1, faults |-> 0, ticks |-> 0],
      [edits |-> 1, imports |-> 1, stops |-> 0, faults |-> 1, ticks |-> 0],
      [edits |-> 0, imports |-> 1, stops |-> 1, faults |-> 1, ticks |-> 0],
      [edits |-> 1, imports |-> 0, stops |-> 0, faults |-> 1, ticks |-> 7]},
   hotkeys |->
     {[presses |-> 3, edits |-> 0, changes |-> 1], [presses |-> 2, edits |-> 2, changes |-> 0],
      [presses |-> 1, edits |-> 2, changes |-> 1], [presses |-> 1, edits |-> 0, changes |-> 2]}]

ASSUME DirectoryHolds == D!DirectoryAssumption
ASSUME GatewayHolds == R!GatewayAssumption
ASSUME VoicesHold == B!MediaAssumption
ASSUME ControlsHold == W!ControlsAssumption
ASSUME KeysHold == K!HotkeysAssumption
ASSUME TallyHolds == T!TallyAssumption
ASSUME HeadlessHolds == H!HeadlessAssumption
ASSUME FilesHold == F!SettingsAssumption
ASSUME SessionHolds == S!SessionAssumption
ASSUME EnvironmentsHold == C!ConfigAssumption
=============================================================================
