---------------------------- MODULE MCTalkRouting ----------------------------
(* Instances of TalkRouting for TLC.  u1 is the account that talks in the *)
(* lists below: to u2, or to the conference c1 and, after it, to u2.      *)
EXTENDS TalkRouting, TLC

CONSTANTS s1, s2, s3, u1, u2, c1, q1, q2, p1, k1, k2

ToUser(u) == [type |-> "user", id |-> u]
ToConference(c) == [type |-> "conference", id |-> c]

OneSpeaker == {<<>>, <<ToUser(u2)>>, <<ToConference(c1), ToUser(u2)>>}

Everyone == {u1, u2} \X {q1, q2}
Open == [ users   |-> Everyone,
          members |-> {<<u, c1, q>> : u \in {u1, u2}, q \in {q1, q2}},
          talkers |-> {<<u1, c1, q1>>, <<u1, c1, q2>>} ]
(* u2 loses the production q1, and the conference in it. *)
Restricted == [ users   |-> Everyone \ {<<u2, q1>>},
                members |-> {<<u1, c1, q1>>, <<u1, c1, q2>>, <<u2, c1, q2>>},
                talkers |-> {<<u1, c1, q1>>} ]
TwoMatrices == {Open, Restricted}

(* The setting multipleProductions stays on, or is switched both ways. *)
AlwaysOn == {TRUE}
BothModes == BOOLEAN

SocketSymmetry == Permutations({s1, s2, s3})
=============================================================================
