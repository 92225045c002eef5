---------------------------- MODULE MCListenerSync ----------------------------
(* Instances of ListenerSync for TLC: u1 talks on s1, u2 listens on s2. *)
EXTENDS ListenerSync

CONSTANTS s1, s2, u1, u2, c1, q1, p1, k1, k2, k3

ToUser(u) == [type |-> "user", id |-> u]
ToConference(c) == [type |-> "conference", id |-> c]

(* u1 talks to u2 and to nobody; or also to the conference of both, so     *)
(* that one producer reaches u2 under two streams.                         *)
DirectOnly == {<<>>, <<ToUser(u2)>>}
DirectOrConference == {<<>>, <<ToUser(u2)>>, <<ToConference(c1)>>}

OneMatrix == {[ users   |-> {u1, u2} \X {q1},
                members |-> {u1, u2} \X {c1} \X {q1},
                talkers |-> {<<u1, c1, q1>>} ]}
AlwaysOff == {FALSE}
OwnAccount == [s \in {s1, s2} |-> IF s = s1 THEN {u1} ELSE {u2}]

(* Bound of the runs with two streams: connections are not lost, and the   *)
(* producer is neither paused nor closed.                                  *)
Steady ==
  /\ \A s \in Sockets : link[s] # "gone" /\ stopping[s] = {}
  /\ \A p \in Producers : ~ paused[p] /\ stage[p] # "closed"
=============================================================================
