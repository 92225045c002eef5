----------------------------- MODULE MCSessions -----------------------------
(***************************************************************************)
(* Takeovers: two pages of one user, one of them reconnecting, and a       *)
(* bridge port that has the same user.                                     *)
(* Mixture: one page each of two users, and a feed that moves from a page  *)
(* to a bridge port, which opens it again.                                 *)
(***************************************************************************)
EXTENDS Sessions, TLC

CONSTANTS s1, s2, s3, b1, b2, page, other, camera, port, u1, u2, f1, c1, c2

TakeoverDevices == (s1 :> page) @@ (s2 :> page) @@ (s3 :> other) @@ (b1 :> port)
TakeoverLogins  == (page :> u1) @@ (other :> u1) @@ (port :> u1)

MixtureDevices == (s1 :> page) @@ (s2 :> other) @@ (s3 :> camera) @@ (b1 :> port) @@ (b2 :> port)
MixtureLogins  == (page :> u1) @@ (other :> u2) @@ (camera :> f1) @@ (port :> f1)
=============================================================================
