--------------------------- MODULE Registry_proofs ---------------------------
(***************************************************************************)
(* Proofs about the parts of Registry, one after the other: the database D *)
(* and the registration of a page S.                                       *)
(***************************************************************************)
EXTENDS Registry, SequencesExt, FiniteSetTheorems, SequenceTheorems, WellFoundedInduction, NaturalsInduction, TLAPS

(***************************************************************************)
(* Sequences whatever their elements are.                                  *)
(***************************************************************************)
IsRow(s) == \E V : s \in Seq(V)

LEMMA AppendTo ==
  ASSUME NEW s, IsRow(s), NEW e
  PROVE  /\ IsRow(Append(s, e)) /\ Len(s) \in Nat /\ DOMAIN s = 1 .. Len(s)
         /\ DOMAIN Append(s, e) = 1 .. Len(s) + 1 /\ Len(Append(s, e)) = Len(s) + 1
         /\ Append(s, e)[Len(s) + 1] = e /\ \A i \in 1 .. Len(s) : Append(s, e)[i] = s[i]
<1>1. PICK V : s \in Seq(V)
  BY DEF IsRow
<1> DEFINE X == V \cup {e}
<1>2. s \in Seq(X) /\ e \in X
  BY <1>1, SeqMonotonic
<1> HIDE DEF X
<1>3. /\ Append(s, e) \in Seq(X) /\ Len(Append(s, e)) = Len(s) + 1
      /\ Append(s, e)[Len(s) + 1] = e /\ \A i \in 1 .. Len(s) : Append(s, e)[i] = s[i]
  BY <1>2, AppendProperties
<1>4. Len(s) \in Nat /\ DOMAIN s = 1 .. Len(s) /\ DOMAIN Append(s, e) = 1 .. Len(Append(s, e))
  BY <1>2, <1>3, LenProperties
<1>5. IsRow(Append(s, e))
  BY <1>3 DEF IsRow
<1> QED BY <1>3, <1>4, <1>5

-----------------------------------------------------------------------------
(***************************************************************************)
(* Proofs about the database, for any numbers of users, conferences, feeds *)
(* and productions, any older databases and any number of edits: no        *)
(* request of an administrator, no upgrade and no import leaves a row      *)
(* behind.                                                                 *)
(***************************************************************************)

(***************************************************************************)
(* MatrixSound of any database, by its parts.                              *)
(***************************************************************************)
OnePrimary(d) == \E p \in d.prods : d.primary = {p}

Contents(d) ==
  /\ d.members \subseteq d.prods \X d.users
  /\ d.pconfs \subseteq d.prods \X d.confs /\ d.pfeeds \subseteq d.prods \X d.feeds

Buttons(d) ==
  /\ d.talks \subseteq d.hears
  /\ \A p \in Productions, u \in Users, c \in Confs :
       <<p, u, c>> \in d.hears => <<p, u>> \in d.members /\ <<p, c>> \in d.pconfs
  /\ \A p \in Productions, u \in Users, x \in D!Targets :
       <<p, u, x>> \in d.targets => <<p, u>> \in d.members /\ <<p, x>> \in d.members \cup d.pfeeds

\* What a position in the list of a user may be of.
Placed(d, p, u, x) ==
  /\ <<p, u>> \in d.members
  /\ x \in Confs => <<p, u, x>> \in d.hears
  /\ x \notin Confs => <<p, x>> \in d.members \cup d.pfeeds

Positions(d) ==
  \A p \in Productions, u \in Users :
    /\ \A x \in D!Range(d.order[<<p, u>>]) : Placed(d, p, u, x)
    /\ D!IsInjective(d.order[<<p, u>>])

DirSound(d) == OnePrimary(d) /\ Contents(d) /\ Buttons(d) /\ Positions(d)

(***************************************************************************)
(* Lemmas about lists.  Kept is defined by recursion; what it returns is   *)
(* shown for the least length for which it would not.                      *)
(***************************************************************************)
(* A set of natural numbers has a least element.                           *)
LEMMA LeastOf == ASSUME NEW A, A \subseteq Nat, A # {} PROVE \E n \in A : \A m \in A : n <= m
<1> DEFINE R == {ss \in Nat \X Nat : ss[1] < ss[2]}
<1>1. OpToRel(<, Nat) = R
  BY DEF OpToRel
<1>2. IsWellFoundedOn(R, Nat)
  BY <1>1, NatLessThanWellFounded
<1>3. PICK n \in A : \A m \in A : <<m, n>> \notin R
  <2> HIDE DEF R
  <2> QED BY <1>2, WFMin
<1>4. ASSUME NEW m \in A PROVE n <= m
  <2>1. m \in Nat /\ n \in Nat /\ <<m, n>> \in Nat \X Nat
    OBVIOUS
  <2>2. m < n => <<m, n>> \in R
    BY <2>1
  <2> HIDE DEF R
  <2> QED BY <1>3, <2>1, <2>2
<1> QED BY <1>4

Rec(q, Z, k) ==
  [n \in DOMAIN k |->
     IF n = 0 THEN <<>> ELSE IF q[n] \in Z THEN Append(k[n - 1], q[n]) ELSE k[n - 1]]

(* The recursion of Kept has a solution for every initial part of a list.  *)
LEMMA KeptExists ==
  ASSUME NEW T, NEW q \in Seq(T), NEW Z
  PROVE  \A n \in 0 .. Len(q) : \E k \in [0 .. n -> Seq(T)] : k = Rec(q, Z, k)
<1> DEFINE Bad == {n \in 0 .. Len(q) : ~\E k \in [0 .. n -> Seq(T)] : k = Rec(q, Z, k)}
<1> SUFFICES ASSUME Bad # {} PROVE FALSE
  OBVIOUS
<1>0. Len(q) \in Nat /\ \A n \in 1 .. Len(q) : q[n] \in T
  BY LenProperties, ElementOfSeq
<1>1. PICK n \in Bad : \A m \in Bad : n <= m
  <2>1. Bad \subseteq Nat
    BY <1>0
  <2> HIDE DEF Bad
  <2> QED BY <2>1, LeastOf
<1>2. CASE n = 0
  <2> DEFINE k == [i \in 0 .. 0 |-> <<>>]
  <2>1. k \in [0 .. 0 -> Seq(T)] 
    BY EmptySeq
  <2>2. k = Rec(q, Z, k)
    BY DEF Rec
  <2> QED BY <1>1, <1>2, <2>1, <2>2
<1>3. CASE n # 0
  <2>1. n \in 1 .. Len(q) /\ n - 1 \in 0 .. Len(q) /\ n - 1 \notin Bad
    <3>1. n \in 0 .. Len(q)
      BY <1>1
    <3>2. n \in 1 .. Len(q) /\ n - 1 \in 0 .. Len(q) /\ ~(n <= n - 1)
      BY <1>0, <1>3, <3>1
    <3> HIDE DEF Bad
    <3> QED BY <1>1, <3>2
  <2>2. PICK f \in [0 .. n - 1 -> Seq(T)] : f = Rec(q, Z, f)
    BY <2>1
  <2> DEFINE last == IF q[n] \in Z THEN Append(f[n - 1], q[n]) ELSE f[n - 1]
             k == [i \in 0 .. n |-> IF i = n THEN last ELSE f[i]]
  <2>3. last \in Seq(T)
    <3>1. f[n - 1] \in Seq(T) /\ q[n] \in T
      BY <1>0, <2>1, <2>2
    <3> QED BY <3>1, AppendProperties
  <2>4. k \in [0 .. n -> Seq(T)]
    BY <2>2, <2>3, <2>1
  <2>5. \A i \in 0 .. n - 1 : k[i] = f[i] /\ i # n
    BY <2>1
  <2>6. k[n] = last
    BY <2>1
  <2>7. ASSUME NEW i \in 0 .. n
        PROVE k[i] = IF i = 0 THEN <<>> ELSE IF q[i] \in Z THEN Append(k[i - 1], q[i]) ELSE k[i - 1]
    <3>1. CASE i = n
      BY <2>1, <2>5, <2>6, <3>1
    <3>2. CASE i # n
      <4>1. i \in 0 .. n - 1 /\ (i # 0 => i - 1 \in 0 .. n - 1)
        BY <2>1, <3>2
      <4>2. f[i] = IF i = 0 THEN <<>> ELSE IF q[i] \in Z THEN Append(f[i - 1], q[i]) ELSE f[i - 1]
        BY <4>1, <2>2 DEF Rec
      <4> HIDE DEF k
      <4> QED BY <4>1, <4>2, <2>5
    <3> QED BY <3>1, <3>2
  <2>8. k = Rec(q, Z, k)
    <3>1. DOMAIN k = 0 .. n
      OBVIOUS
    <3>2. k = [i \in 0 .. n |-> k[i]]
      OBVIOUS
    <3> HIDE DEF k
    <3>3. Rec(q, Z, k) = [i \in 0 .. n |-> k[i]]
      BY <2>7, <3>1 DEF Rec
    <3> QED BY <3>2, <3>3
  <2> HIDE DEF k
  <2> QED BY <1>1, <2>4, <2>8
<1> QED BY <1>2, <1>3
(* Kept(q, S) is the last value of a function that solves the recursion.   *)
LEMMA KeptSolves ==
  ASSUME NEW T, NEW q \in Seq(T), NEW Z
  PROVE  \E k : /\ \A n \in 0 .. Len(q) :
                     k[n] = IF n = 0 THEN <<>>
                            ELSE IF q[n] \in Z THEN Append(k[n - 1], q[n]) ELSE k[n - 1]
                /\ D!Kept(q, Z) = k[Len(q)]
<1> DEFINE P(k) == k = [n \in 0 .. Len(q) |->
                          IF n = 0 THEN <<>>
                          ELSE IF q[n] \in Z THEN Append(k[n - 1], q[n]) ELSE k[n - 1]]
           K == CHOOSE k : P(k)
<1>1. PICK f \in [0 .. Len(q) -> Seq(T)] : f = Rec(q, Z, f)
  <2>1. Len(q) \in 0 .. Len(q)
    BY LenProperties
  <2> QED BY <2>1, KeptExists
<1>2. P(f)
  BY <1>1 DEF Rec
<1>3. P(K)
  <2> HIDE DEF P
  <2> QED BY <1>2
<1>4. D!Kept(q, Z) = K[Len(q)]
  BY DEF D!Kept
<1> HIDE DEF K
<1> QED BY <1>3, <1>4

(* Appending to a list an element that it does not have.                   *)
LEMMA Appended ==
  ASSUME NEW T, NEW q \in Seq(T), NEW x \in T
  PROVE  /\ Append(q, x) \in Seq(T) /\ D!Range(Append(q, x)) = D!Range(q) \cup {x}
         /\ D!IsInjective(q) /\ x \notin D!Range(q) => D!IsInjective(Append(q, x))
<1>1. /\ Append(q, x) \in Seq(T) /\ Len(Append(q, x)) = Len(q) + 1
      /\ Append(q, x)[Len(q) + 1] = x
      /\ \A i \in 1 .. Len(q) : Append(q, x)[i] = q[i]
  BY AppendProperties
<1>2. Len(q) \in Nat /\ DOMAIN q = 1 .. Len(q) /\ DOMAIN Append(q, x) = 1 .. Len(q) + 1
  BY <1>1, LenProperties
<1>3. \A i \in DOMAIN Append(q, x) : i \in DOMAIN q \/ i = Len(q) + 1
  BY <1>2
<1>4. \A i \in DOMAIN q : i \in DOMAIN Append(q, x) /\ i # Len(q) + 1
  BY <1>2
<1>5. Len(q) + 1 \in DOMAIN Append(q, x)
  BY <1>2
<1>6. \A i \in DOMAIN q : Append(q, x)[i] = q[i]
  BY <1>1, <1>2
<1>7. Append(q, x)[Len(q) + 1] = x /\ Append(q, x) \in Seq(T)
  BY <1>1
<1> DEFINE a == Append(q, x)
           n == Len(q) + 1
<1> HIDE DEF a, n
<1>8. /\ \A i \in DOMAIN a : i \in DOMAIN q \/ i = n
      /\ \A i \in DOMAIN q : i \in DOMAIN a /\ i # n /\ a[i] = q[i]
      /\ n \in DOMAIN a /\ a[n] = x
  BY <1>3, <1>4, <1>5, <1>6, <1>7 DEF a, n
<1>9. D!Range(a) = D!Range(q) \cup {x}
  BY <1>8 DEF D!Range
<1>10. ASSUME D!IsInjective(q), x \notin D!Range(q) PROVE D!IsInjective(a)
  BY <1>8, <1>10 DEF D!Range, D!IsInjective
<1> QED BY <1>7, <1>9, <1>10 DEF a

(* Kept returns the elements of a list that are in S, each as often.       *)
LEMMA KeptProperties ==
  ASSUME NEW T, NEW q \in Seq(T), NEW Z
  PROVE  /\ D!Kept(q, Z) \in Seq(T)
         /\ D!Range(D!Kept(q, Z)) = D!Range(q) \cap Z
         /\ D!IsInjective(q) => D!IsInjective(D!Kept(q, Z))
<1> DEFINE First(n) == {q[i] : i \in 1 .. n}
<1>0. /\ Len(q) \in Nat /\ DOMAIN q = 1 .. Len(q) /\ \A n \in 1 .. Len(q) : q[n] \in T
  BY LenProperties, ElementOfSeq
<1>1. PICK k : /\ \A n \in 0 .. Len(q) :
                    k[n] = IF n = 0 THEN <<>>
                           ELSE IF q[n] \in Z THEN Append(k[n - 1], q[n]) ELSE k[n - 1]
               /\ D!Kept(q, Z) = k[Len(q)]
  BY KeptSolves
<1> DEFINE OK(n) == /\ k[n] \in Seq(T) /\ D!Range(k[n]) = First(n) \cap Z
                    /\ D!IsInjective(q) => D!IsInjective(k[n])
           Bad == {n \in 0 .. Len(q) : ~OK(n)}
<1>2. Bad = {}
  <2> SUFFICES ASSUME Bad # {} PROVE FALSE
    OBVIOUS
  <2>1. PICK n \in Bad : \A m \in Bad : n <= m
    <3>1. Bad \subseteq Nat
      BY <1>0
    <3> HIDE DEF Bad
    <3> QED BY <3>1, LeastOf
  <2>2. n \in 0 .. Len(q) /\ ~OK(n)
    BY <2>1
  <2>3. n # 0
    <3> SUFFICES ASSUME n = 0 PROVE OK(n)
      BY <2>2
    <3>1. k[n] = <<>>
      BY <1>0, <1>1
    <3>2. First(n) = {} /\ D!Range(<<>>) = {} /\ D!IsInjective(<<>>) /\ <<>> \in Seq(T)
      BY DEF D!Range, D!IsInjective
    <3> QED BY <3>1, <3>2
  <2>4. n \in 1 .. Len(q) /\ n - 1 \in 0 .. Len(q) /\ ~(n <= n - 1)
    BY <1>0, <2>2, <2>3
  <2>5. OK(n - 1)
    <3> HIDE DEF OK
    <3> QED BY <2>1, <2>4
  <2> DEFINE f == k[n - 1]
             x == q[n]
  <2>6. x \in T /\ k[n] = IF x \in Z THEN Append(f, x) ELSE f
    BY <1>0, <1>1, <2>2, <2>3, <2>4
  <2>7. First(n) = First(n - 1) \cup {x}
    <3>1. \A i \in 1 .. n : i \in 1 .. n - 1 \/ i = n
      BY <2>4
    <3>2. \A i \in 1 .. n - 1 : i \in 1 .. n
      BY <2>4
    <3>3. n \in 1 .. n
      BY <2>4
    <3> QED BY <3>1, <3>2, <3>3
  <2>8. D!IsInjective(q) => x \notin First(n - 1)
    <3>1. \A i \in 1 .. n - 1 : i \in DOMAIN q /\ i # n
      BY <1>0, <2>4
    <3>2. n \in DOMAIN q
      BY <1>0, <2>4
    <3> QED BY <3>1, <3>2 DEF D!IsInjective
  <2>9. f \in Seq(T) /\ D!Range(f) = First(n - 1) \cap Z /\ (D!IsInjective(q) => D!IsInjective(f))
    BY <2>5
  <2> HIDE DEF f, x, First
  <2>10. CASE x \in Z
    <3>1. k[n] = Append(f, x)
      BY <2>6, <2>10
    <3>2. /\ Append(f, x) \in Seq(T) /\ D!Range(Append(f, x)) = D!Range(f) \cup {x}
          /\ D!IsInjective(f) /\ x \notin D!Range(f) => D!IsInjective(Append(f, x))
      BY <2>6, <2>9, Appended
    <3>3. D!Range(Append(f, x)) = First(n) \cap Z
      BY <2>7, <2>9, <2>10, <3>2
    <3>4. D!IsInjective(q) => D!IsInjective(Append(f, x))
      BY <2>8, <2>9, <3>2
    <3> QED BY <2>2, <3>1, <3>2, <3>3, <3>4
  <2>11. CASE x \notin Z
    <3>1. k[n] = f
      BY <2>6, <2>11
    <3> QED BY <2>2, <2>7, <2>9, <2>11, <3>1
  <2> QED BY <2>10, <2>11
<1>3. OK(Len(q))
  <2>1. Len(q) \in 0 .. Len(q)
    BY <1>0
  <2> HIDE DEF OK
  <2> QED BY <1>2, <2>1
<1>4. First(Len(q)) = D!Range(q)
  BY <1>0 DEF D!Range
<1> HIDE DEF First
<1> QED BY <1>1, <1>3, <1>4
(***************************************************************************)
(* Lemmas about databases.                                                 *)
(***************************************************************************)
(* A database, table by table.                                             *)
LEMMA ByTables ==
  ASSUME NEW d
  PROVE  d \in D!Databases =>
         /\ d.users \subseteq Users /\ d.confs \subseteq Confs /\ d.feeds \subseteq Feeds
         /\ d.prods \subseteq Productions /\ d.primary \subseteq Productions
         /\ d.members \subseteq Productions \X Users /\ d.pconfs \subseteq Productions \X Confs
         /\ d.pfeeds \subseteq Productions \X Feeds
         /\ d.hears \subseteq Productions \X Users \X Confs
         /\ d.talks \subseteq Productions \X Users \X Confs
         /\ d.targets \subseteq Productions \X Users \X D!Targets
         /\ d.order \in [Productions \X Users -> Seq(D!Targets)]
BY DEF D!Databases, D!Lists, D!Rows

\* The entities are the same, and so is what the productions have.
Same(d, e) ==
  /\ e.users = d.users /\ e.confs = d.confs /\ e.feeds = d.feeds /\ e.prods = d.prods /\ e.primary = d.primary
  /\ e.members = d.members /\ e.pconfs = d.pconfs /\ e.pfeeds = d.pfeeds

\* e has the rows about buttons that d has, but not those that are gone.
Cut(d, e, gone) ==
  /\ e.hears = d.hears \ gone /\ e.talks = d.talks \ gone /\ e.targets = d.targets \ gone
  /\ \A p \in Productions, u \in Users :
       e.order[<<p, u>>] = D!Kept(d.order[<<p, u>>], {x \in D!Targets : <<p, u, x>> \notin gone})

\* Each row that is not gone has in e the ends that it has in d.
EndsKept(d, e, gone) ==
  \A p \in Productions, u \in Users, x \in D!Targets :
    <<p, u, x>> \notin gone =>
      /\ <<p, u>> \in d.members => <<p, u>> \in e.members
      /\ <<p, x>> \in d.members \cup d.pfeeds => <<p, x>> \in e.members \cup e.pfeeds
      /\ <<p, x>> \in d.pconfs => <<p, x>> \in e.pconfs

(* What a purge leaves.                                                    *)
LEMMA PurgeTables ==
  ASSUME NEW d \in D!Databases, NEW gone
  PROVE  /\ D!Purge(d, gone) \in D!Databases /\ Same(d, D!Purge(d, gone))
         /\ Cut(d, D!Purge(d, gone), gone)
<1> DEFINE order == [k \in D!Lists |-> D!Kept(d.order[k], {x \in D!Targets : <<k[1], k[2], x>> \notin gone})]
           e == D!Purge(d, gone)
<1>1. order \in [D!Lists -> Seq(D!Targets)]
  <2> SUFFICES ASSUME NEW k \in D!Lists
               PROVE  D!Kept(d.order[k], {x \in D!Targets : <<k[1], k[2], x>> \notin gone}) \in Seq(D!Targets)
    OBVIOUS
  <2>1. d.order[k] \in Seq(D!Targets)
    BY DEF D!Databases
  <2> QED BY <2>1, KeptProperties
<1>2. e = [d EXCEPT !.hears = d.hears \ gone, !.talks = d.talks \ gone, !.targets = d.targets \ gone,
                    !.order = order]
  BY DEF D!Purge
<1>3. \A p \in Productions, u \in Users :
        order[<<p, u>>] = D!Kept(d.order[<<p, u>>], {x \in D!Targets : <<p, u, x>> \notin gone})
  BY DEF D!Lists
<1> HIDE DEF order, e
<1>4. /\ e \in D!Databases /\ Same(d, e)
      /\ e.hears = d.hears \ gone /\ e.talks = d.talks \ gone /\ e.targets = d.targets \ gone
      /\ e.order = order
  BY <1>1, <1>2 DEF D!Databases, Same
<1> QED BY <1>3, <1>4 DEF e, Cut

(* Rows may be taken away when each row that loses one of its ends is.     *)
LEMMA Removal ==
  ASSUME NEW d \in D!Databases, DirSound(d), NEW e, NEW gone,
         OnePrimary(e), Contents(e), Cut(d, e, gone), EndsKept(d, e, gone)
  PROVE  DirSound(e)
<1>1. Buttons(e)
  <2>1. e.talks \subseteq e.hears
    BY DEF DirSound, Buttons, Cut
  <2>2. ASSUME NEW p \in Productions, NEW u \in Users, NEW c \in Confs, <<p, u, c>> \in e.hears
        PROVE  <<p, u>> \in e.members /\ <<p, c>> \in e.pconfs
    <3>1. <<p, u>> \in d.members /\ <<p, c>> \in d.pconfs /\ <<p, u, c>> \notin gone /\ c \in D!Targets
      BY <2>2 DEF DirSound, Buttons, D!Targets, Cut
    <3> QED BY <3>1 DEF EndsKept
  <2>3. ASSUME NEW p \in Productions, NEW u \in Users, NEW x \in D!Targets, <<p, u, x>> \in e.targets
        PROVE  <<p, u>> \in e.members /\ <<p, x>> \in e.members \cup e.pfeeds
    <3>1. <<p, u>> \in d.members /\ <<p, x>> \in d.members \cup d.pfeeds /\ <<p, u, x>> \notin gone
      BY <2>3 DEF DirSound, Buttons, Cut
    <3> QED BY <3>1 DEF EndsKept
  <2> QED BY <2>1, <2>2, <2>3 DEF Buttons
<1>2. ASSUME NEW p \in Productions, NEW u \in Users
      PROVE  /\ \A x \in D!Range(e.order[<<p, u>>]) : Placed(e, p, u, x)
             /\ D!IsInjective(e.order[<<p, u>>])
  <2> DEFINE q == d.order[<<p, u>>]
             Z == {x \in D!Targets : <<p, u, x>> \notin gone}
  <2>1. q \in Seq(D!Targets) /\ e.order[<<p, u>>] = D!Kept(q, Z)
    BY ByTables DEF Cut
  <2>2. D!IsInjective(q) /\ \A x \in D!Range(q) : Placed(d, p, u, x)
    BY DEF DirSound, Positions
  <2> HIDE DEF q
  <2>3. D!Range(D!Kept(q, Z)) = D!Range(q) \cap Z /\ D!IsInjective(D!Kept(q, Z))
    <3> HIDE DEF Z
    <3> QED BY <2>1, <2>2, KeptProperties
  <2>4. ASSUME NEW x \in D!Range(q) \cap Z PROVE Placed(e, p, u, x)
    <3>1. x \in D!Targets /\ <<p, u, x>> \notin gone /\ Placed(d, p, u, x)
      BY <2>2
    <3>2. /\ <<p, u>> \in d.members => <<p, u>> \in e.members
          /\ <<p, x>> \in d.members \cup d.pfeeds => <<p, x>> \in e.members \cup e.pfeeds
      BY <3>1 DEF EndsKept
    <3>3. <<p, u, x>> \in d.hears => <<p, u, x>> \in e.hears
      BY <3>1 DEF Cut
    <3> QED BY <3>1, <3>2, <3>3 DEF Placed
  <2> QED BY <2>1, <2>3, <2>4
<1>3. Positions(e)
  BY <1>2 DEF Positions
<1> QED BY <1>1, <1>3 DEF DirSound

(***************************************************************************)
(* The requests that take rows away.                                       *)
(***************************************************************************)
(* A user leaves a production.                                             *)
LEMMA UserLeaves ==
  ASSUME NEW d \in D!Databases, DirSound(d), NEW p \in Productions, NEW u \in Users
  PROVE  D!RemoveProductionUser(d, p, u) \in D!Databases /\ DirSound(D!RemoveProductionUser(d, p, u))
<1> DEFINE gone == {r \in D!Rows : r[1] = p /\ u \in {r[2], r[3]}}
           a == D!Purge(d, gone)
           e == D!RemoveProductionUser(d, p, u)
<1>1. e = [a EXCEPT !.members = a.members \ {<<p, u>>}]
  BY DEF D!RemoveProductionUser
<1>2. a \in D!Databases /\ Same(d, a) /\ Cut(d, a, gone)
  BY PurgeTables
<1> HIDE DEF a, e
<1>3. /\ e \in D!Databases
      /\ e.users = d.users /\ e.confs = d.confs /\ e.feeds = d.feeds
      /\ e.prods = d.prods /\ e.primary = d.primary
      /\ e.members = d.members \ {<<p, u>>}
      /\ e.pconfs = d.pconfs
      /\ e.pfeeds = d.pfeeds
      /\ e.hears = a.hears /\ e.talks = a.talks /\ e.targets = a.targets /\ e.order = a.order
  BY <1>1, <1>2 DEF D!Databases, Same
<1>4. OnePrimary(e) /\ Contents(e)
  BY <1>3, ByTables DEF DirSound, OnePrimary, Contents
<1>5. ASSUME NEW q \in Productions, NEW v \in Users, NEW x \in D!Targets, <<q, v, x>> \notin gone
      PROVE  /\ <<q, v>> \in d.members => <<q, v>> \in e.members
             /\ <<q, x>> \in d.members \cup d.pfeeds => <<q, x>> \in e.members \cup e.pfeeds
             /\ <<q, x>> \in d.pconfs => <<q, x>> \in e.pconfs
  BY <1>3, <1>5 DEF D!Rows
<1>6. EndsKept(d, e, gone)
  <2> HIDE DEF gone
  <2> QED BY <1>5 DEF EndsKept
<1> HIDE DEF gone
<1>7. Cut(d, e, gone)
  BY <1>2, <1>3 DEF Cut
<1>8. DirSound(e)
  BY <1>4, <1>6, <1>7, Removal
<1> QED BY <1>3, <1>8 DEF e

(* A conference leaves a production.                                       *)
LEMMA ConferenceLeaves ==
  ASSUME NEW d \in D!Databases, DirSound(d), NEW p \in Productions, NEW c \in Confs
  PROVE  D!RemoveProductionConference(d, p, c) \in D!Databases /\ DirSound(D!RemoveProductionConference(d, p, c))
<1> DEFINE gone == {r \in D!Rows : r[1] = p /\ r[3] = c}
           a == D!Purge(d, gone)
           e == D!RemoveProductionConference(d, p, c)
<1>1. e = [a EXCEPT !.pconfs = a.pconfs \ {<<p, c>>}]
  BY DEF D!RemoveProductionConference
<1>2. a \in D!Databases /\ Same(d, a) /\ Cut(d, a, gone)
  BY PurgeTables
<1> HIDE DEF a, e
<1>3. /\ e \in D!Databases
      /\ e.users = d.users /\ e.confs = d.confs /\ e.feeds = d.feeds
      /\ e.prods = d.prods /\ e.primary = d.primary
      /\ e.members = d.members
      /\ e.pconfs = d.pconfs \ {<<p, c>>}
      /\ e.pfeeds = d.pfeeds
      /\ e.hears = a.hears /\ e.talks = a.talks /\ e.targets = a.targets /\ e.order = a.order
  BY <1>1, <1>2 DEF D!Databases, Same
<1>4. OnePrimary(e) /\ Contents(e)
  BY <1>3, ByTables DEF DirSound, OnePrimary, Contents
<1>5. ASSUME NEW q \in Productions, NEW v \in Users, NEW x \in D!Targets, <<q, v, x>> \notin gone
      PROVE  /\ <<q, v>> \in d.members => <<q, v>> \in e.members
             /\ <<q, x>> \in d.members \cup d.pfeeds => <<q, x>> \in e.members \cup e.pfeeds
             /\ <<q, x>> \in d.pconfs => <<q, x>> \in e.pconfs
  BY <1>3, <1>5 DEF D!Rows
<1>6. EndsKept(d, e, gone)
  <2> HIDE DEF gone
  <2> QED BY <1>5 DEF EndsKept
<1> HIDE DEF gone
<1>7. Cut(d, e, gone)
  BY <1>2, <1>3 DEF Cut
<1>8. DirSound(e)
  BY <1>4, <1>6, <1>7, Removal
<1> QED BY <1>3, <1>8 DEF e

(* A feed leaves a production.                                             *)
LEMMA FeedLeaves ==
  ASSUME NEW d \in D!Databases, DirSound(d), NEW p \in Productions, NEW f \in Feeds
  PROVE  D!RemoveProductionFeed(d, p, f) \in D!Databases /\ DirSound(D!RemoveProductionFeed(d, p, f))
<1> DEFINE gone == {r \in D!Rows : r[1] = p /\ r[3] = f}
           a == D!Purge(d, gone)
           e == D!RemoveProductionFeed(d, p, f)
<1>1. e = [a EXCEPT !.pfeeds = a.pfeeds \ {<<p, f>>}]
  BY DEF D!RemoveProductionFeed
<1>2. a \in D!Databases /\ Same(d, a) /\ Cut(d, a, gone)
  BY PurgeTables
<1> HIDE DEF a, e
<1>3. /\ e \in D!Databases
      /\ e.users = d.users /\ e.confs = d.confs /\ e.feeds = d.feeds
      /\ e.prods = d.prods /\ e.primary = d.primary
      /\ e.members = d.members
      /\ e.pconfs = d.pconfs
      /\ e.pfeeds = d.pfeeds \ {<<p, f>>}
      /\ e.hears = a.hears /\ e.talks = a.talks /\ e.targets = a.targets /\ e.order = a.order
  BY <1>1, <1>2 DEF D!Databases, Same
<1>4. OnePrimary(e) /\ Contents(e)
  BY <1>3, ByTables DEF DirSound, OnePrimary, Contents
<1>5. ASSUME NEW q \in Productions, NEW v \in Users, NEW x \in D!Targets, <<q, v, x>> \notin gone
      PROVE  /\ <<q, v>> \in d.members => <<q, v>> \in e.members
             /\ <<q, x>> \in d.members \cup d.pfeeds => <<q, x>> \in e.members \cup e.pfeeds
             /\ <<q, x>> \in d.pconfs => <<q, x>> \in e.pconfs
  BY <1>3, <1>5 DEF D!Rows
<1>6. EndsKept(d, e, gone)
  <2> HIDE DEF gone
  <2> QED BY <1>5 DEF EndsKept
<1> HIDE DEF gone
<1>7. Cut(d, e, gone)
  BY <1>2, <1>3 DEF Cut
<1>8. DirSound(e)
  BY <1>4, <1>6, <1>7, Removal
<1> QED BY <1>3, <1>8 DEF e

(* A production is deleted, and another becomes the primary one if it was. *)
LEMMA ProductionDeleted ==
  ASSUME NEW d \in D!Databases, DirSound(d), NEW p \in d.prods, NEW heir \in d.prods \ {p}
  PROVE  D!DeleteProduction(d, p, heir) \in D!Databases /\ DirSound(D!DeleteProduction(d, p, heir))
<1> DEFINE gone == {r \in D!Rows : r[1] = p}
           a == D!Purge(d, gone)
           e == D!DeleteProduction(d, p, heir)
<1>1. e = [a EXCEPT !.members = {m \in a.members : m[1] # p}, !.pconfs = {m \in a.pconfs : m[1] # p}, !.pfeeds = {m \in a.pfeeds : m[1] # p}, !.prods = a.prods \ {p}, !.primary = IF p \in a.primary THEN {heir} ELSE a.primary]
  BY DEF D!DeleteProduction
<1>2. a \in D!Databases /\ Same(d, a) /\ Cut(d, a, gone)
  BY PurgeTables
<1> HIDE DEF a, e
<1>3. /\ e \in D!Databases
      /\ e.users = d.users /\ e.confs = d.confs /\ e.feeds = d.feeds
      /\ e.prods = d.prods \ {p} /\ e.primary = IF p \in d.primary THEN {heir} ELSE d.primary
      /\ e.members = {m \in d.members : m[1] # p}
      /\ e.pconfs = {m \in d.pconfs : m[1] # p}
      /\ e.pfeeds = {m \in d.pfeeds : m[1] # p}
      /\ e.hears = a.hears /\ e.talks = a.talks /\ e.targets = a.targets /\ e.order = a.order
  BY <1>1, <1>2 DEF D!Databases, Same
<1>4. OnePrimary(e) /\ Contents(e)
  BY <1>3, ByTables DEF DirSound, OnePrimary, Contents
<1>5. ASSUME NEW q \in Productions, NEW v \in Users, NEW x \in D!Targets, <<q, v, x>> \notin gone
      PROVE  /\ <<q, v>> \in d.members => <<q, v>> \in e.members
             /\ <<q, x>> \in d.members \cup d.pfeeds => <<q, x>> \in e.members \cup e.pfeeds
             /\ <<q, x>> \in d.pconfs => <<q, x>> \in e.pconfs
  BY <1>3, <1>5 DEF D!Rows
<1>6. EndsKept(d, e, gone)
  <2> HIDE DEF gone
  <2> QED BY <1>5 DEF EndsKept
<1> HIDE DEF gone
<1>7. Cut(d, e, gone)
  BY <1>2, <1>3 DEF Cut
<1>8. DirSound(e)
  BY <1>4, <1>6, <1>7, Removal
<1> QED BY <1>3, <1>8 DEF e

(* A user is deleted.                                                      *)
LEMMA UserDeleted ==
  ASSUME NEW d \in D!Databases, DirSound(d), NEW u \in Users
  PROVE  D!DeleteUser(d, u) \in D!Databases /\ DirSound(D!DeleteUser(d, u))
<1> DEFINE gone == {r \in D!Rows : u \in {r[2], r[3]}}
           a == D!Purge(d, gone)
           e == D!DeleteUser(d, u)
<1>1. e = [a EXCEPT !.members = {m \in a.members : m[2] # u}, !.users = a.users \ {u}]
  BY DEF D!DeleteUser
<1>2. a \in D!Databases /\ Same(d, a) /\ Cut(d, a, gone)
  BY PurgeTables
<1> HIDE DEF a, e
<1>3. /\ e \in D!Databases
      /\ e.users = d.users \ {u} /\ e.confs = d.confs /\ e.feeds = d.feeds
      /\ e.prods = d.prods /\ e.primary = d.primary
      /\ e.members = {m \in d.members : m[2] # u}
      /\ e.pconfs = d.pconfs
      /\ e.pfeeds = d.pfeeds
      /\ e.hears = a.hears /\ e.talks = a.talks /\ e.targets = a.targets /\ e.order = a.order
  BY <1>1, <1>2 DEF D!Databases, Same
<1>4. OnePrimary(e) /\ Contents(e)
  BY <1>3, ByTables DEF DirSound, OnePrimary, Contents
<1>5. ASSUME NEW q \in Productions, NEW v \in Users, NEW x \in D!Targets, <<q, v, x>> \notin gone
      PROVE  /\ <<q, v>> \in d.members => <<q, v>> \in e.members
             /\ <<q, x>> \in d.members \cup d.pfeeds => <<q, x>> \in e.members \cup e.pfeeds
             /\ <<q, x>> \in d.pconfs => <<q, x>> \in e.pconfs
  BY <1>3, <1>5 DEF D!Rows
<1>6. EndsKept(d, e, gone)
  <2> HIDE DEF gone
  <2> QED BY <1>5 DEF EndsKept
<1> HIDE DEF gone
<1>7. Cut(d, e, gone)
  BY <1>2, <1>3 DEF Cut
<1>8. DirSound(e)
  BY <1>4, <1>6, <1>7, Removal
<1> QED BY <1>3, <1>8 DEF e

(* A conference is deleted.                                                *)
LEMMA ConferenceDeleted ==
  ASSUME NEW d \in D!Databases, DirSound(d), NEW c \in Confs
  PROVE  D!DeleteConference(d, c) \in D!Databases /\ DirSound(D!DeleteConference(d, c))
<1> DEFINE gone == {r \in D!Rows : r[3] = c}
           a == D!Purge(d, gone)
           e == D!DeleteConference(d, c)
<1>1. e = [a EXCEPT !.pconfs = {m \in a.pconfs : m[2] # c}, !.confs = a.confs \ {c}]
  BY DEF D!DeleteConference
<1>2. a \in D!Databases /\ Same(d, a) /\ Cut(d, a, gone)
  BY PurgeTables
<1> HIDE DEF a, e
<1>3. /\ e \in D!Databases
      /\ e.users = d.users /\ e.confs = d.confs \ {c} /\ e.feeds = d.feeds
      /\ e.prods = d.prods /\ e.primary = d.primary
      /\ e.members = d.members
      /\ e.pconfs = {m \in d.pconfs : m[2] # c}
      /\ e.pfeeds = d.pfeeds
      /\ e.hears = a.hears /\ e.talks = a.talks /\ e.targets = a.targets /\ e.order = a.order
  BY <1>1, <1>2 DEF D!Databases, Same
<1>4. OnePrimary(e) /\ Contents(e)
  BY <1>3, ByTables DEF DirSound, OnePrimary, Contents
<1>5. ASSUME NEW q \in Productions, NEW v \in Users, NEW x \in D!Targets, <<q, v, x>> \notin gone
      PROVE  /\ <<q, v>> \in d.members => <<q, v>> \in e.members
             /\ <<q, x>> \in d.members \cup d.pfeeds => <<q, x>> \in e.members \cup e.pfeeds
             /\ <<q, x>> \in d.pconfs => <<q, x>> \in e.pconfs
  BY <1>3, <1>5 DEF D!Rows
<1>6. EndsKept(d, e, gone)
  <2> HIDE DEF gone
  <2> QED BY <1>5 DEF EndsKept
<1> HIDE DEF gone
<1>7. Cut(d, e, gone)
  BY <1>2, <1>3 DEF Cut
<1>8. DirSound(e)
  BY <1>4, <1>6, <1>7, Removal
<1> QED BY <1>3, <1>8 DEF e

(* A feed is deleted.                                                      *)
LEMMA FeedDeleted ==
  ASSUME NEW d \in D!Databases, DirSound(d), NEW f \in Feeds
  PROVE  D!DeleteFeed(d, f) \in D!Databases /\ DirSound(D!DeleteFeed(d, f))
<1> DEFINE gone == {r \in D!Rows : r[3] = f}
           a == D!Purge(d, gone)
           e == D!DeleteFeed(d, f)
<1>1. e = [a EXCEPT !.pfeeds = {m \in a.pfeeds : m[2] # f}, !.feeds = a.feeds \ {f}]
  BY DEF D!DeleteFeed
<1>2. a \in D!Databases /\ Same(d, a) /\ Cut(d, a, gone)
  BY PurgeTables
<1> HIDE DEF a, e
<1>3. /\ e \in D!Databases
      /\ e.users = d.users /\ e.confs = d.confs /\ e.feeds = d.feeds \ {f}
      /\ e.prods = d.prods /\ e.primary = d.primary
      /\ e.members = d.members
      /\ e.pconfs = d.pconfs
      /\ e.pfeeds = {m \in d.pfeeds : m[2] # f}
      /\ e.hears = a.hears /\ e.talks = a.talks /\ e.targets = a.targets /\ e.order = a.order
  BY <1>1, <1>2 DEF D!Databases, Same
<1>4. OnePrimary(e) /\ Contents(e)
  BY <1>3, ByTables DEF DirSound, OnePrimary, Contents
<1>5. ASSUME NEW q \in Productions, NEW v \in Users, NEW x \in D!Targets, <<q, v, x>> \notin gone
      PROVE  /\ <<q, v>> \in d.members => <<q, v>> \in e.members
             /\ <<q, x>> \in d.members \cup d.pfeeds => <<q, x>> \in e.members \cup e.pfeeds
             /\ <<q, x>> \in d.pconfs => <<q, x>> \in e.pconfs
  BY <1>3, <1>5 DEF D!Rows
<1>6. EndsKept(d, e, gone)
  <2> HIDE DEF gone
  <2> QED BY <1>5 DEF EndsKept
<1> HIDE DEF gone
<1>7. Cut(d, e, gone)
  BY <1>2, <1>3 DEF Cut
<1>8. DirSound(e)
  BY <1>4, <1>6, <1>7, Removal
<1> QED BY <1>3, <1>8 DEF e

(* A button or a membership is taken from a user.                          *)
LEMMA TargetRemoved ==
  ASSUME NEW d \in D!Databases, DirSound(d), NEW p, NEW u, NEW x
  PROVE  D!RemoveTarget(d, p, u, x) \in D!Databases /\ DirSound(D!RemoveTarget(d, p, u, x))
<1> DEFINE gone == {<<p, u, x>>}
           e == D!Purge(d, gone)
<1>1. e \in D!Databases /\ Same(d, e) /\ Cut(d, e, gone)
  BY PurgeTables
<1>2. D!RemoveTarget(d, p, u, x) = e
  BY DEF D!RemoveTarget
<1> HIDE DEF e, gone
<1>3. OnePrimary(e) /\ Contents(e) /\ EndsKept(d, e, gone)
  BY <1>1 DEF DirSound, OnePrimary, Contents, Same, EndsKept
<1>4. DirSound(e)
  BY <1>1, <1>3, Removal
<1> QED BY <1>1, <1>2, <1>4

(***************************************************************************)
(* The requests that add rows.                                             *)
(***************************************************************************)
\* A user, a conference and a feed are never the same: their ids are of
\* different tables, and a row has the kind beside the id.
KindsApart == Users \cap Confs = {} /\ Users \cap Feeds = {} /\ Confs \cap Feeds = {}

\* The lists of e have what those of d have, or what has its place in e.
Extended(d, e) ==
  \A p \in Productions, u \in Users :
    /\ \A x \in D!Range(e.order[<<p, u>>]) : x \in D!Range(d.order[<<p, u>>]) \/ Placed(e, p, u, x)
    /\ D!IsInjective(e.order[<<p, u>>])

(* Rows may be added when they have their ends.                            *)
LEMMA Addition ==
  ASSUME NEW d \in D!Databases, DirSound(d), NEW e,
         OnePrimary(e), Contents(e), Buttons(e), Extended(d, e),
         d.members \subseteq e.members, d.pfeeds \subseteq e.pfeeds, d.hears \subseteq e.hears
  PROVE  DirSound(e)
<1>1. ASSUME NEW p \in Productions, NEW u \in Users, NEW x \in D!Range(e.order[<<p, u>>])
      PROVE  Placed(e, p, u, x)
  <2>1. CASE x \in D!Range(d.order[<<p, u>>])
    <3>1. Placed(d, p, u, x)
      BY <2>1 DEF DirSound, Positions
    <3> QED BY <3>1 DEF Placed
  <2> QED BY <2>1 DEF Extended
<1> QED BY <1>1 DEF DirSound, Positions, Extended

\* o has the lists of d, with x perhaps in the list of u in the production p.
OneMore(d, o, p, u, x) ==
  \A q \in Productions, v \in Users :
    /\ D!IsInjective(o[<<q, v>>])
    /\ \A y \in D!Range(o[<<q, v>>]) : y \in D!Range(d.order[<<q, v>>]) \/ (q = p /\ v = u /\ y = x)

(* A position at the end of a list, unless it has one already.             *)
LEMMA PositionAdded ==
  ASSUME NEW d \in D!Databases, DirSound(d), NEW p \in Productions, NEW u \in Users, NEW x \in D!Targets
  PROVE  D!Append1(d, p, u, x) \in [D!Lists -> Seq(D!Targets)] /\ OneMore(d, D!Append1(d, p, u, x), p, u, x)
<1>1. d.order \in [D!Lists -> Seq(D!Targets)] /\ <<p, u>> \in D!Lists
  BY DEF D!Databases, D!Lists
<1>2. \A q \in Productions, v \in Users : D!IsInjective(d.order[<<q, v>>])
  BY DEF DirSound, Positions
<1>3. CASE x \in D!Range(d.order[<<p, u>>])
  BY <1>1, <1>2, <1>3 DEF D!Append1, OneMore
<1>4. CASE x \notin D!Range(d.order[<<p, u>>])
  <2> DEFINE q == d.order[<<p, u>>]
             r == Append(q, x)
             o == D!Append1(d, p, u, x)
  <2>1. q \in Seq(D!Targets) /\ D!IsInjective(q) /\ x \notin D!Range(q)
    BY <1>1, <1>2, <1>4
  <2>2. o = [d.order EXCEPT ![<<p, u>>] = r]
    BY <1>4 DEF D!Append1
  <2> HIDE DEF q, o
  <2>3. r \in Seq(D!Targets) /\ D!Range(r) = D!Range(q) \cup {x} /\ D!IsInjective(r)
    BY <2>1, Appended
  <2> HIDE DEF r
  <2>4. o \in [D!Lists -> Seq(D!Targets)] /\ o[<<p, u>>] = r
    BY <1>1, <2>2, <2>3
  <2>5. ASSUME NEW a \in Productions, NEW v \in Users, <<a, v>> # <<p, u>>
        PROVE  o[<<a, v>>] = d.order[<<a, v>>]
    <3>1. <<a, v>> \in D!Lists
      BY DEF D!Lists
    <3> QED BY <1>1, <2>2, <2>5, <3>1
  <2>6. ASSUME NEW a \in Productions, NEW v \in Users
        PROVE  /\ D!IsInjective(o[<<a, v>>])
               /\ \A y \in D!Range(o[<<a, v>>]) :
                    y \in D!Range(d.order[<<a, v>>]) \/ (a = p /\ v = u /\ y = x)
    <3>1. CASE a = p /\ v = u
      BY <2>3, <2>4, <3>1 DEF q
    <3>2. CASE ~(a = p /\ v = u)
      <4>1. <<a, v>> # <<p, u>>
        BY <3>2
      <4> QED BY <1>2, <2>5, <4>1
    <3> QED BY <3>1, <3>2
  <2> QED BY <2>4, <2>6 DEF o, OneMore
<1> QED BY <1>3, <1>4

(* A user, a conference or a feed joins a production.                      *)
LEMMA Joins ==
  ASSUME NEW d \in D!Databases, DirSound(d), NEW p \in d.prods
  PROVE  /\ \A u \in d.users : D!SetProductionUser(d, p, u) \in D!Databases /\ DirSound(D!SetProductionUser(d, p, u))
         /\ \A c \in d.confs : /\ D!SetProductionConference(d, p, c) \in D!Databases
                               /\ DirSound(D!SetProductionConference(d, p, c))
         /\ \A f \in d.feeds : D!SetProductionFeed(d, p, f) \in D!Databases /\ DirSound(D!SetProductionFeed(d, p, f))
<1>1. ASSUME NEW e \in D!Databases,
             e.users = d.users /\ e.confs = d.confs /\ e.feeds = d.feeds /\ e.prods = d.prods,
             e.primary = d.primary /\ e.hears = d.hears /\ e.talks = d.talks /\ e.targets = d.targets,
             e.order = d.order /\ d.members \subseteq e.members /\ d.pconfs \subseteq e.pconfs,
             d.pfeeds \subseteq e.pfeeds, Contents(e)
      PROVE  DirSound(e)
  <2>1. OnePrimary(e) /\ Buttons(e)
    BY <1>1 DEF DirSound, OnePrimary, Buttons
  <2>2. Extended(d, e)
    BY <1>1 DEF DirSound, Positions, Extended
  <2> QED BY <1>1, <2>1, <2>2, Addition
<1>2. ASSUME NEW u \in d.users
      PROVE  D!SetProductionUser(d, p, u) \in D!Databases /\ DirSound(D!SetProductionUser(d, p, u))
  <2> DEFINE e == D!SetProductionUser(d, p, u)
  <2>1. e = [d EXCEPT !.members = d.members \cup {<<p, u>>}]
    BY DEF D!SetProductionUser
  <2>2. <<p, u>> \in D!Lists
    BY ByTables DEF D!Lists
  <2> HIDE DEF e
  <2>3. /\ e \in D!Databases
        /\ e.users = d.users /\ e.confs = d.confs /\ e.feeds = d.feeds /\ e.prods = d.prods
        /\ e.primary = d.primary /\ e.hears = d.hears /\ e.talks = d.talks /\ e.targets = d.targets
        /\ e.order = d.order /\ e.members = d.members \cup {<<p, u>>}
        /\ e.pconfs = d.pconfs /\ e.pfeeds = d.pfeeds
    BY <2>1, <2>2 DEF D!Databases
  <2>4. Contents(e)
    BY <2>3 DEF DirSound, Contents
  <2> QED BY <1>1, <2>3, <2>4 DEF e
<1>3. ASSUME NEW c \in d.confs
      PROVE  D!SetProductionConference(d, p, c) \in D!Databases /\ DirSound(D!SetProductionConference(d, p, c))
  <2> DEFINE e == D!SetProductionConference(d, p, c)
  <2>1. e = [d EXCEPT !.pconfs = d.pconfs \cup {<<p, c>>}]
    BY DEF D!SetProductionConference
  <2>2. <<p, c>> \in Productions \X Confs
    BY ByTables
  <2> HIDE DEF e
  <2>3. /\ e \in D!Databases
        /\ e.users = d.users /\ e.confs = d.confs /\ e.feeds = d.feeds /\ e.prods = d.prods
        /\ e.primary = d.primary /\ e.hears = d.hears /\ e.talks = d.talks /\ e.targets = d.targets
        /\ e.order = d.order /\ e.members = d.members
        /\ e.pconfs = d.pconfs \cup {<<p, c>>} /\ e.pfeeds = d.pfeeds
    BY <2>1, <2>2 DEF D!Databases
  <2>4. Contents(e)
    BY <2>3 DEF DirSound, Contents
  <2> QED BY <1>1, <2>3, <2>4 DEF e
<1>4. ASSUME NEW f \in d.feeds
      PROVE  D!SetProductionFeed(d, p, f) \in D!Databases /\ DirSound(D!SetProductionFeed(d, p, f))
  <2> DEFINE e == D!SetProductionFeed(d, p, f)
  <2>1. e = [d EXCEPT !.pfeeds = d.pfeeds \cup {<<p, f>>}]
    BY DEF D!SetProductionFeed
  <2>2. <<p, f>> \in Productions \X Feeds
    BY ByTables
  <2> HIDE DEF e
  <2>3. /\ e \in D!Databases
        /\ e.users = d.users /\ e.confs = d.confs /\ e.feeds = d.feeds /\ e.prods = d.prods
        /\ e.primary = d.primary /\ e.hears = d.hears /\ e.talks = d.talks /\ e.targets = d.targets
        /\ e.order = d.order /\ e.members = d.members
        /\ e.pconfs = d.pconfs /\ e.pfeeds = d.pfeeds \cup {<<p, f>>}
    BY <2>1, <2>2 DEF D!Databases
  <2>4. Contents(e)
    BY <2>3 DEF DirSound, Contents
  <2> QED BY <1>1, <2>3, <2>4 DEF e
<1> QED BY <1>2, <1>3, <1>4

(* A user becomes a member of a conference, with or without the button.    *)
LEMMA MembershipSet ==
  ASSUME NEW d \in D!Databases, DirSound(d), KindsApart, NEW p \in Productions, NEW u \in Users, NEW c \in Confs,
         <<p, u>> \in d.members, <<p, c>> \in d.pconfs
  PROVE  /\ D!SetMembership(d, p, u, c) \in D!Databases /\ DirSound(D!SetMembership(d, p, u, c))
         /\ D!SetListenOnly(d, p, u, c) \in D!Databases /\ DirSound(D!SetListenOnly(d, p, u, c))
<1> DEFINE o == D!Append1(d, p, u, c)
<1>1. c \in D!Targets /\ <<p, u, c>> \in Productions \X Users \X Confs
  BY DEF D!Targets
<1>2. o \in [D!Lists -> Seq(D!Targets)] /\ OneMore(d, o, p, u, c)
  BY <1>1, PositionAdded
<1> HIDE DEF o
<1>3. ASSUME NEW talks \in SUBSET (Productions \X Users \X Confs), NEW e,
             talks \subseteq d.talks \cup {<<p, u, c>>},
             e = [d EXCEPT !.hears = d.hears \cup {<<p, u, c>>}, !.talks = talks, !.order = o]
      PROVE  e \in D!Databases /\ DirSound(e)
  <2>1. /\ e \in D!Databases
        /\ e.users = d.users /\ e.confs = d.confs /\ e.feeds = d.feeds /\ e.prods = d.prods
        /\ e.primary = d.primary /\ e.hears = d.hears \cup {<<p, u, c>>} /\ e.talks = talks
        /\ e.targets = d.targets /\ e.order = o /\ e.members = d.members
        /\ e.pconfs = d.pconfs /\ e.pfeeds = d.pfeeds
    BY <1>1, <1>2, <1>3 DEF D!Databases
  <2>2. OnePrimary(e) /\ Contents(e)
    BY <2>1 DEF DirSound, OnePrimary, Contents
  <2>3. Buttons(e)
    BY <1>3, <2>1 DEF DirSound, Buttons
  <2>4. Placed(e, p, u, c)
    BY <2>1 DEF Placed
  <2>5. Extended(d, e)
    BY <1>2, <2>1, <2>4 DEF Extended, OneMore
  <2> QED BY <2>1, <2>2, <2>3, <2>5, Addition
<1>4. /\ d.talks \cup {<<p, u, c>>} \in SUBSET (Productions \X Users \X Confs)
      /\ d.talks \ {<<p, u, c>>} \in SUBSET (Productions \X Users \X Confs)
  BY <1>1, ByTables
<1>5. D!SetMembership(d, p, u, c) =
        [d EXCEPT !.hears = d.hears \cup {<<p, u, c>>}, !.talks = d.talks \cup {<<p, u, c>>}, !.order = o]
  BY DEF D!SetMembership, o
<1>6. D!SetListenOnly(d, p, u, c) =
        [d EXCEPT !.hears = d.hears \cup {<<p, u, c>>}, !.talks = d.talks \ {<<p, u, c>>}, !.order = o]
  BY DEF D!SetListenOnly, o
<1>7. D!SetMembership(d, p, u, c) \in D!Databases /\ DirSound(D!SetMembership(d, p, u, c))
  BY <1>3, <1>4, <1>5
<1>8. D!SetListenOnly(d, p, u, c) \in D!Databases /\ DirSound(D!SetListenOnly(d, p, u, c))
  BY <1>3, <1>4, <1>6
<1> QED BY <1>7, <1>8

(* A valid target has its place.                                           *)
LEMMA ValidPlaced ==
  ASSUME NEW d \in D!Databases, DirSound(d), KindsApart, NEW p \in Productions, NEW u \in Users, NEW x,
         D!Valid(d, p, u, x)
  PROVE  Placed(d, p, u, x)
BY ByTables DEF D!Valid, Placed, KindsApart

(* A user gets the button of a user or a feed.                             *)
LEMMA TargetAdded ==
  ASSUME NEW d \in D!Databases, DirSound(d), KindsApart, NEW p \in Productions, NEW u \in Users,
         NEW x \in Users \cup Feeds, D!Valid(d, p, u, x)
  PROVE  D!AddTarget(d, p, u, x) \in D!Databases /\ DirSound(D!AddTarget(d, p, u, x))
<1> DEFINE o == D!Append1(d, p, u, x)
           e == D!AddTarget(d, p, u, x)
<1>1. x \in D!Targets /\ <<p, u, x>> \in D!Rows /\ x \notin Confs
  BY DEF D!Targets, D!Rows, KindsApart
<1>2. o \in [D!Lists -> Seq(D!Targets)] /\ OneMore(d, o, p, u, x)
  BY <1>1, PositionAdded
<1>3. e = [d EXCEPT !.targets = d.targets \cup {<<p, u, x>>}, !.order = o]
  BY DEF D!AddTarget
<1> HIDE DEF o, e
<1>4. /\ e \in D!Databases
      /\ e.users = d.users /\ e.confs = d.confs /\ e.feeds = d.feeds /\ e.prods = d.prods
      /\ e.primary = d.primary /\ e.hears = d.hears /\ e.talks = d.talks
      /\ e.targets = d.targets \cup {<<p, u, x>>} /\ e.order = o /\ e.members = d.members
      /\ e.pconfs = d.pconfs /\ e.pfeeds = d.pfeeds
  BY <1>1, <1>2, <1>3 DEF D!Databases
<1>5. Placed(d, p, u, x)
  BY ValidPlaced
<1>6. Placed(e, p, u, x)
  BY <1>4, <1>5 DEF Placed
<1>7. OnePrimary(e) /\ Contents(e)
  BY <1>4 DEF DirSound, OnePrimary, Contents
<1>8. Buttons(e)
  BY <1>1, <1>4, <1>5 DEF DirSound, Buttons, Placed
<1>9. Extended(d, e)
  BY <1>2, <1>4, <1>6 DEF Extended, OneMore
<1>10. DirSound(e)
  BY <1>4, <1>7, <1>8, <1>9, Addition
<1> QED BY <1>4, <1>10 DEF e

(* A list is replaced by one of buttons that have their place, each once.  *)
LEMMA Reordered ==
  ASSUME NEW d \in D!Databases, DirSound(d), IsFiniteSet(D!Targets), NEW p \in Productions, NEW u \in Users,
         NEW T \in SUBSET D!Targets, \A x \in T : Placed(d, p, u, x), NEW items \in D!SetToSeqs(T)
  PROVE  D!Reorder(d, p, u, items) \in D!Databases /\ DirSound(D!Reorder(d, p, u, items))
<1> DEFINE e == D!Reorder(d, p, u, items)
           o == [d.order EXCEPT ![<<p, u>>] = items]
<1>1. Cardinality(T) \in Nat
  BY FS_Subset, FS_CardinalityType
<1>2. items \in [1 .. Cardinality(T) -> T] /\ D!IsInjective(items)
  BY DEF D!SetToSeqs, D!IsInjective, IsInjective, D!Cardinality, Cardinality
<1>3. items \in Seq(D!Targets) /\ D!Range(items) \subseteq T
  BY <1>1, <1>2, SeqDef DEF D!Range
<1>4. d.order \in [D!Lists -> Seq(D!Targets)] /\ <<p, u>> \in D!Lists
  BY DEF D!Databases, D!Lists
<1>5. e = [d EXCEPT !.order = o]
  BY DEF D!Reorder
<1>6. /\ o \in [D!Lists -> Seq(D!Targets)] /\ o[<<p, u>>] = items
      /\ \A k \in D!Lists : k # <<p, u>> => o[k] = d.order[k]
  BY <1>3, <1>4
<1> HIDE DEF e, o
<1>7. /\ e \in D!Databases
      /\ e.users = d.users /\ e.confs = d.confs /\ e.feeds = d.feeds /\ e.prods = d.prods
      /\ e.primary = d.primary /\ e.hears = d.hears /\ e.talks = d.talks /\ e.targets = d.targets
      /\ e.members = d.members /\ e.pconfs = d.pconfs /\ e.pfeeds = d.pfeeds /\ e.order = o
  BY <1>5, <1>6 DEF D!Databases
<1>8. OnePrimary(e) /\ Contents(e) /\ Buttons(e)
  BY <1>7 DEF DirSound, OnePrimary, Contents, Buttons
<1>9. ASSUME NEW q \in Productions, NEW v \in Users
      PROVE  /\ \A x \in D!Range(o[<<q, v>>]) : x \in D!Range(d.order[<<q, v>>]) \/ Placed(e, q, v, x)
             /\ D!IsInjective(o[<<q, v>>])
  <2>1. CASE q = p /\ v = u
    <3>1. \A x \in T : Placed(e, p, u, x)
      BY <1>7 DEF Placed
    <3> QED BY <1>2, <1>3, <1>6, <2>1, <3>1
  <2>2. CASE ~(q = p /\ v = u)
    <3>1. <<q, v>> \in D!Lists /\ <<q, v>> # <<p, u>>
      BY <2>2 DEF D!Lists
    <3>2. o[<<q, v>>] = d.order[<<q, v>>]
      BY <1>6, <3>1
    <3> QED BY <3>2 DEF DirSound, Positions
  <2> QED BY <2>1, <2>2
<1>10. Extended(d, e)
  BY <1>7, <1>9 DEF Extended
<1>11. DirSound(e)
  BY <1>7, <1>8, <1>10, Addition
<1> QED BY <1>7, <1>11 DEF e

\* The database d with the entity x, in the table of its kind.
WithEntity(d, x) ==
  [d EXCEPT !.users = d.users \cup ({x} \cap Users), !.confs = d.confs \cup ({x} \cap Confs),
            !.feeds = d.feeds \cup ({x} \cap Feeds), !.prods = d.prods \cup ({x} \cap Productions)]

(* A new entity has no row yet, and the rows there are keep their ends.    *)
LEMMA EntityAdded ==
  ASSUME NEW d \in D!Databases, DirSound(d), NEW x, NEW e, e = WithEntity(d, x)
  PROVE  /\ e \in D!Databases /\ DirSound(e) /\ d.prods \subseteq e.prods
         /\ x \in Users => x \in e.users
         /\ x \in Confs => x \in e.confs
         /\ x \in Feeds => x \in e.feeds
<1>1. /\ e \in D!Databases
      /\ e.users = d.users \cup ({x} \cap Users) /\ e.confs = d.confs \cup ({x} \cap Confs)
      /\ e.feeds = d.feeds \cup ({x} \cap Feeds) /\ e.prods = d.prods \cup ({x} \cap Productions)
      /\ e.primary = d.primary /\ e.hears = d.hears /\ e.talks = d.talks /\ e.targets = d.targets
      /\ e.members = d.members /\ e.pconfs = d.pconfs /\ e.pfeeds = d.pfeeds /\ e.order = d.order
  BY DEF D!Databases, WithEntity
<1>2. OnePrimary(e) /\ Contents(e) /\ Buttons(e)
  BY <1>1 DEF DirSound, OnePrimary, Contents, Buttons
<1>3. Extended(d, e)
  BY <1>1 DEF DirSound, Positions, Extended
<1>4. DirSound(e)
  BY <1>1, <1>2, <1>3, Addition
<1> QED BY <1>1, <1>4

(* The primary production is the one that is marked.                       *)
LEMMA PrimaryIs == ASSUME NEW d, OnePrimary(d) PROVE D!Primary(d) \in d.prods
<1>1. PICK p \in d.prods : d.primary = {p}
  BY DEF OnePrimary
<1> QED BY <1>1 DEF D!Primary

(***************************************************************************)
(* Older databases.                                                        *)
(***************************************************************************)
Layout(b) == Contents(b) /\ Buttons(b) /\ Positions(b)

\* The same entities and the same layout without productions.
SameFlat(b, s) ==
  /\ s.users = b.users /\ s.confs = b.confs /\ s.feeds = b.feeds /\ s.prods = b.prods
  /\ s.primary = b.primary /\ s.members = b.members
  /\ s.gtargets = b.gtargets /\ s.ghears = b.ghears /\ s.gtalks = b.gtalks /\ s.gorder = b.gorder
  /\ s.ctargets = b.ctargets /\ s.scoped = b.scoped

(* An older database of this layout is in order.                           *)
LEMMA ScopedLayout ==
  ASSUME NEW b, D!WellFormed(b), b.scoped, KindsApart
  PROVE  Layout(b)
<1>1. Contents(b)
  BY DEF D!WellFormed, Contents
<1>2. Buttons(b)
  <2>1. b.talks \subseteq b.hears
    BY DEF D!WellFormed
  <2>2. ASSUME NEW p \in Productions, NEW u \in Users, NEW c \in Confs, <<p, u, c>> \in b.hears
        PROVE  <<p, u>> \in b.members /\ <<p, c>> \in b.pconfs
    BY <2>2 DEF D!WellFormed
  <2>3. ASSUME NEW p \in Productions, NEW u \in Users, NEW x \in D!Targets, <<p, u, x>> \in b.targets
        PROVE  <<p, u>> \in b.members /\ <<p, x>> \in b.members \cup b.pfeeds
    BY <2>3 DEF D!WellFormed, D!Targets
  <2> QED BY <2>1, <2>2, <2>3 DEF Buttons
<1>3. ASSUME NEW p \in Productions, NEW u \in Users
      PROVE  /\ \A x \in D!Range(b.order[<<p, u>>]) : Placed(b, p, u, x)
             /\ D!IsInjective(b.order[<<p, u>>])
  <2>1. <<p, u>> \in D!Lists
    BY DEF D!Lists
  <2> QED BY <2>1 DEF D!WellFormed, Placed
<1> QED BY <1>1, <1>2, <1>3 DEF Layout, Positions

(* What is inferred puts the layout of the first releases with productions *)
(* in order.                                                               *)
LEMMA InferredLayout ==
  ASSUME NEW b, D!WellFormed(b), KindsApart
  PROVE  D!Inferred(b) \in D!OlderDatabases /\ SameFlat(b, D!Inferred(b)) /\ Layout(D!Inferred(b))
         /\ \A r \in b.ctargets : <<r[1], r[3]>> \in D!Inferred(b).pconfs
<1> DEFINE in == b.ghears \cup b.gtalks
           joined == {r \in Productions \X Users \X Confs :
                        <<r[1], r[2]>> \in b.members /\ <<r[2], r[3]>> \in in}
           pconfs == b.pconfs \cup {<<r[1], r[3]>> : r \in b.ctargets \cup joined}
           pfeeds == b.pfeeds \cup {<<r[1], r[3]>> : r \in {t \in b.targets : t[3] \in Feeds}}
           hears == b.hears \cup joined
           talks == b.talks \cup (joined \ b.hears)
           s == D!Inferred(b)
<1>1. s = [b EXCEPT !.pconfs = pconfs, !.pfeeds = pfeeds, !.hears = hears, !.talks = talks]
  BY DEF D!Inferred
<1>2. b \in D!OlderDatabases /\ b.members \subseteq b.prods \X b.users /\ in \subseteq b.users \X b.confs
  BY DEF D!WellFormed
<1>3. /\ b.pconfs \subseteq b.prods \X b.confs /\ b.pfeeds \subseteq b.prods \X b.feeds
      /\ \A r \in b.ctargets : r[1] \in b.prods /\ r[3] \in b.confs
  BY DEF D!WellFormed
<1>4. /\ b.ctargets \subseteq Productions \X Users \X Confs /\ b.targets \subseteq Productions \X Users \X D!Targets
      /\ b.hears \subseteq Productions \X Users \X Confs /\ b.talks \subseteq Productions \X Users \X Confs
      /\ b.pconfs \subseteq Productions \X Confs /\ b.pfeeds \subseteq Productions \X Feeds
      /\ b.order \in [D!Lists -> Seq(D!Targets)] /\ b.members \subseteq Productions \X Users
  BY <1>2 DEF D!OlderDatabases, D!Rows, D!Lists
<1>5. \A p \in Productions, u \in Users, c \in Confs :
        /\ <<p, u, c>> \in joined <=> <<p, u>> \in b.members /\ <<u, c>> \in in
        /\ <<p, u, c>> \in joined => <<p, c>> \in pconfs
  <2> SUFFICES ASSUME NEW p \in Productions, NEW u \in Users, NEW c \in Confs
               PROVE  /\ <<p, u, c>> \in joined <=> <<p, u>> \in b.members /\ <<u, c>> \in in
                      /\ <<p, u, c>> \in joined => <<p, c>> \in pconfs
    OBVIOUS
  <2> DEFINE t == <<p, u, c>>
  <2>1. t \in Productions \X Users \X Confs /\ t[1] = p /\ t[2] = u /\ t[3] = c
    OBVIOUS
  <2>2. t \in joined => <<t[1], t[3]>> \in pconfs
    OBVIOUS
  <2> QED BY <2>1, <2>2
<1>6. \A p \in Productions, u \in Users, f \in Feeds : <<p, u, f>> \in b.targets => <<p, f>> \in pfeeds
  <2> SUFFICES ASSUME NEW p \in Productions, NEW u \in Users, NEW f \in Feeds, <<p, u, f>> \in b.targets
               PROVE  <<p, f>> \in pfeeds
    OBVIOUS
  <2> DEFINE t == <<p, u, f>>
  <2>1. t \in {r \in b.targets : r[3] \in Feeds} /\ t[1] = p /\ t[3] = f
    OBVIOUS
  <2> QED BY <2>1
<1>7. joined \subseteq Productions \X Users \X Confs
  OBVIOUS
<1>8. \A r \in b.ctargets : <<r[1], r[3]>> \in pconfs
  OBVIOUS
<1>9. pconfs \subseteq b.prods \X b.confs /\ pfeeds \subseteq b.prods \X b.feeds
  <2>1. \A r \in joined : r[1] \in b.prods /\ r[3] \in b.confs
    BY <1>2
  <2>2. \A r \in b.targets : r[3] \in Feeds => r[1] \in b.prods /\ r[3] \in b.feeds
    <3> SUFFICES ASSUME NEW r \in b.targets, r[3] \in Feeds PROVE r[1] \in b.prods /\ r[3] \in b.feeds
      OBVIOUS
    <3>1. <<r[1], r[2]>> \in b.members
      BY DEF D!WellFormed
    <3>2. IF b.scoped THEN <<r[1], r[3]>> \in b.pfeeds ELSE r[3] \in b.feeds
      BY DEF D!WellFormed
    <3> QED BY <1>2, <1>3, <3>1, <3>2
  <2> HIDE DEF joined
  <2> QED BY <1>3, <2>1, <2>2
<1>10. b.prods \subseteq Productions /\ b.confs \subseteq Confs /\ b.feeds \subseteq Feeds /\ b.users \subseteq Users
  BY <1>2 DEF D!OlderDatabases
<1> HIDE DEF s, in, joined, pconfs, pfeeds
<1>11. /\ s \in D!OlderDatabases /\ SameFlat(b, s)
       /\ s.pconfs = pconfs /\ s.pfeeds = pfeeds /\ s.hears = hears /\ s.talks = talks
       /\ s.targets = b.targets /\ s.order = b.order
  <2>1. /\ pconfs \in SUBSET (Productions \X Confs) /\ pfeeds \in SUBSET (Productions \X Feeds)
        /\ hears \in SUBSET (Productions \X Users \X Confs) /\ talks \in SUBSET (Productions \X Users \X Confs)
    BY <1>4, <1>7, <1>9, <1>10
  <2> HIDE DEF hears, talks
  <2> QED BY <1>1, <1>2, <2>1 DEF D!OlderDatabases, SameFlat
<1>12. Contents(s)
  BY <1>2, <1>9, <1>11 DEF Contents, SameFlat
<1>13. Buttons(s)
  <2>1. s.talks \subseteq s.hears
    BY <1>11 DEF D!WellFormed
  <2>2. ASSUME NEW p \in Productions, NEW u \in Users, NEW c \in Confs, <<p, u, c>> \in s.hears
        PROVE  <<p, u>> \in s.members /\ <<p, c>> \in s.pconfs
    <3>1. CASE <<p, u, c>> \in b.hears
      <4>1. <<p, u>> \in b.members /\ <<p, c>> \in b.pconfs
        BY <3>1 DEF D!WellFormed
      <4> QED BY <1>11, <4>1 DEF SameFlat, pconfs
    <3>2. CASE <<p, u, c>> \in joined
      BY <1>5, <1>11, <3>2 DEF SameFlat
    <3> QED BY <1>11, <2>2, <3>1, <3>2
  <2>3. ASSUME NEW p \in Productions, NEW u \in Users, NEW x \in D!Targets, <<p, u, x>> \in s.targets
        PROVE  <<p, u>> \in s.members /\ <<p, x>> \in s.members \cup s.pfeeds
    <3>1. /\ <<p, u, x>> \in b.targets /\ <<p, u>> \in b.members /\ x \notin Confs
          /\ x \in Users => <<p, x>> \in b.members
      BY <1>11, <2>3 DEF D!WellFormed
    <3>2. x \in Feeds => <<p, x>> \in pfeeds
      BY <1>6, <3>1
    <3> QED BY <1>11, <3>1, <3>2 DEF D!Targets, SameFlat
  <2> QED BY <2>1, <2>2, <2>3 DEF Buttons
<1>14. ASSUME NEW p \in Productions, NEW u \in Users
       PROVE  /\ \A x \in D!Range(s.order[<<p, u>>]) : Placed(s, p, u, x)
              /\ D!IsInjective(s.order[<<p, u>>])
  <2>1. <<p, u>> \in D!Lists
    BY DEF D!Lists
  <2>2. D!IsInjective(s.order[<<p, u>>])
    BY <1>11, <2>1 DEF D!WellFormed
  <2>3. ASSUME NEW x \in D!Range(b.order[<<p, u>>]) PROVE Placed(s, p, u, x)
    <3>1. /\ <<p, u>> \in b.members
          /\ x \in Confs => <<p, u, x>> \in b.hears \/ <<u, x>> \in in
          /\ x \notin Confs => <<p, x>> \in b.members \cup b.pfeeds \/ <<p, u, x>> \in b.targets
      BY <2>1 DEF D!WellFormed, in
    <3>2. x \in Confs => <<p, u, x>> \in hears
      BY <1>5, <3>1
    <3>3. x \notin Confs => <<p, x>> \in s.members \cup s.pfeeds
      <4>1. CASE <<p, x>> \in b.members \cup b.pfeeds
        BY <1>11, <4>1 DEF SameFlat, pfeeds
      <4>2. CASE <<p, u, x>> \in b.targets
        <5>1. x \in D!Targets
          BY <1>4, <4>2
        <5>2. <<p, u, x>> \in s.targets
          BY <1>11, <4>2
        <5> QED BY <1>13, <5>1, <5>2 DEF Buttons
      <4> QED BY <3>1, <4>1, <4>2
    <3> QED BY <1>11, <3>1, <3>2, <3>3 DEF Placed, SameFlat
  <2> QED BY <1>11, <2>2, <2>3
<1>15. Layout(s)
  BY <1>12, <1>13, <1>14 DEF Layout, Positions
<1> QED BY <1>8, <1>11, <1>15 DEF s
(* Conferences that were targets become memberships.                       *)
LEMMA MembershipsAdded ==
  ASSUME NEW b \in D!OlderDatabases, Layout(b), NEW rows \in SUBSET (Productions \X Users \X Confs), NEW e,
         \A r \in rows : <<r[1], r[2]>> \in b.members /\ <<r[1], r[3]>> \in b.pconfs,
         e = [b EXCEPT !.hears = b.hears \cup rows, !.talks = b.talks \cup (rows \ b.hears)]
  PROVE  e \in D!OlderDatabases /\ SameFlat(b, e) /\ Layout(e)
<1>1. b.hears \subseteq Productions \X Users \X Confs /\ b.talks \subseteq Productions \X Users \X Confs
  BY DEF D!OlderDatabases
<1> DEFINE hears == b.hears \cup rows
           talks == b.talks \cup (rows \ b.hears)
<1>2. hears \in SUBSET (Productions \X Users \X Confs) /\ talks \in SUBSET (Productions \X Users \X Confs)
  BY <1>1
<1>3. e = [b EXCEPT !.hears = hears, !.talks = talks]
  OBVIOUS
<1> HIDE DEF hears, talks
<1>4. /\ e \in D!OlderDatabases /\ SameFlat(b, e) /\ e.hears = hears /\ e.talks = talks
      /\ e.pconfs = b.pconfs /\ e.pfeeds = b.pfeeds /\ e.targets = b.targets /\ e.order = b.order
  <2>1. e \in D!OlderDatabases
    BY <1>2, <1>3 DEF D!OlderDatabases
  <2>2. /\ SameFlat(b, e) /\ e.hears = hears /\ e.talks = talks
        /\ e.pconfs = b.pconfs /\ e.pfeeds = b.pfeeds /\ e.targets = b.targets /\ e.order = b.order
    BY <1>3 DEF D!OlderDatabases, SameFlat
  <2> QED BY <2>1, <2>2
<1>5. Contents(e)
  BY <1>4 DEF Layout, Contents, SameFlat
<1>6. Buttons(e)
  <2>1. e.talks \subseteq e.hears
    BY <1>4 DEF Layout, Buttons, hears, talks
  <2>2. ASSUME NEW p \in Productions, NEW u \in Users, NEW c \in Confs, <<p, u, c>> \in e.hears
        PROVE  <<p, u>> \in e.members /\ <<p, c>> \in e.pconfs
    <3>1. <<p, u, c>> \in b.hears \/ <<p, u, c>> \in rows
      BY <1>4, <2>2 DEF hears
    <3> QED BY <1>4, <3>1 DEF Layout, Buttons, SameFlat
  <2>3. ASSUME NEW p \in Productions, NEW u \in Users, NEW x \in D!Targets, <<p, u, x>> \in e.targets
        PROVE  <<p, u>> \in e.members /\ <<p, x>> \in e.members \cup e.pfeeds
    BY <1>4, <2>3 DEF Layout, Buttons, SameFlat
  <2> QED BY <2>1, <2>2, <2>3 DEF Buttons
<1>7. Positions(e)
  BY <1>4 DEF Layout, Positions, Placed, SameFlat, hears
<1> QED BY <1>4, <1>5, <1>6, <1>7 DEF Layout

(* The layout without productions becomes the primary production.          *)
LEMMA Materializing ==
  ASSUME NEW b \in D!OlderDatabases, Layout(b), NEW p \in Productions \ b.prods,
         NEW hears \in SUBSET (b.users \X b.confs), b.gtargets \subseteq b.users \X (b.users \cup b.feeds),
         NEW order \in [Users -> Seq(D!Targets)],
         \A u \in Users : /\ D!IsInjective(order[u])
                          /\ \A x \in D!Range(order[u]) :
                               /\ u \in b.users
                               /\ x \in Confs => <<u, x>> \in hears
                               /\ x \notin Confs => x \in b.users \cup b.feeds
  PROVE  D!Materialized(b, p, hears, order) \in D!OlderDatabases /\ DirSound(D!Materialized(b, p, hears, order))
<1> DEFINE e == D!Materialized(b, p, hears, order)
           rows == {<<p, h[1], h[2]>> : h \in hears}
           buttons == {<<p, t[1], t[2]>> : t \in b.gtargets}
           o == [k \in D!Lists |-> IF k[1] = p THEN order[k[2]] ELSE b.order[k]]
           members == b.members \cup ({p} \X b.users)
           pconfs == b.pconfs \cup ({p} \X b.confs)
           pfeeds == b.pfeeds \cup ({p} \X b.feeds)
<1>1. e = [b EXCEPT !.prods = b.prods \cup {p}, !.primary = {p}, !.members = members,
                    !.pconfs = pconfs, !.pfeeds = pfeeds, !.hears = b.hears \cup rows,
                    !.talks = b.talks \cup rows, !.targets = b.targets \cup buttons, !.order = o]
  BY DEF D!Materialized
<1>2. /\ b.users \subseteq Users /\ b.confs \subseteq Confs /\ b.feeds \subseteq Feeds
      /\ b.prods \subseteq Productions /\ b.members \subseteq D!Lists
      /\ b.pconfs \subseteq Productions \X Confs /\ b.pfeeds \subseteq Productions \X Feeds
      /\ b.hears \subseteq Productions \X Users \X Confs /\ b.talks \subseteq Productions \X Users \X Confs
      /\ b.targets \subseteq D!Rows /\ b.order \in [D!Lists -> Seq(D!Targets)]
  BY DEF D!OlderDatabases
<1>3. rows \subseteq Productions \X Users \X Confs
  BY <1>2
<1>4. buttons \subseteq D!Rows
  BY <1>2 DEF D!Rows, D!Targets
<1>5. o \in [D!Lists -> Seq(D!Targets)]
  <2> SUFFICES ASSUME NEW k \in D!Lists PROVE (IF k[1] = p THEN order[k[2]] ELSE b.order[k]) \in Seq(D!Targets)
    OBVIOUS
  <2>1. k[2] \in Users
    BY DEF D!Lists
  <2> QED BY <1>2, <2>1
<1>6. members \subseteq D!Lists /\ pconfs \subseteq Productions \X Confs /\ pfeeds \subseteq Productions \X Feeds
  BY <1>2 DEF D!Lists
<1>7. \A q \in Productions, u \in Users : o[<<q, u>>] = IF q = p THEN order[u] ELSE b.order[<<q, u>>]
  BY DEF D!Lists
<1>8. \A q, u, x : <<q, u, x>> \in rows <=> q = p /\ <<u, x>> \in hears
  <2> SUFFICES ASSUME NEW q, NEW u, NEW x PROVE <<q, u, x>> \in rows <=> q = p /\ <<u, x>> \in hears
    OBVIOUS
  <2>1. ASSUME <<q, u, x>> \in rows PROVE q = p /\ <<u, x>> \in hears
    <3>1. PICK h \in hears : <<q, u, x>> = <<p, h[1], h[2]>>
      BY <2>1
    <3>2. h = <<h[1], h[2]>>
      OBVIOUS
    <3> QED BY <3>1, <3>2
  <2>2. ASSUME q = p, <<u, x>> \in hears PROVE <<q, u, x>> \in rows
    <3> DEFINE h == <<u, x>>
    <3>1. h \in hears /\ h[1] = u /\ h[2] = x
      BY <2>2
    <3> QED BY <2>2, <3>1
  <2> QED BY <2>1, <2>2
<1>9. \A q, u, x : <<q, u, x>> \in buttons => q = p /\ <<u, x>> \in b.gtargets
  <2> SUFFICES ASSUME NEW q, NEW u, NEW x, <<q, u, x>> \in buttons PROVE q = p /\ <<u, x>> \in b.gtargets
    OBVIOUS
  <2>1. PICK t \in b.gtargets : <<q, u, x>> = <<p, t[1], t[2]>>
    OBVIOUS
  <2>2. t = <<t[1], t[2]>>
    OBVIOUS
  <2> QED BY <2>1, <2>2
<1> HIDE DEF e, rows, buttons, o, members, pconfs, pfeeds
<1>10. /\ e \in D!OlderDatabases
       /\ e.users = b.users /\ e.confs = b.confs /\ e.feeds = b.feeds /\ e.prods = b.prods \cup {p}
       /\ e.primary = {p} /\ e.members = members /\ e.pconfs = pconfs /\ e.pfeeds = pfeeds
       /\ e.hears = b.hears \cup rows /\ e.talks = b.talks \cup rows
       /\ e.targets = b.targets \cup buttons /\ e.order = o
  <2> DEFINE h == b.hears \cup rows
             t == b.talks \cup rows
             g == b.targets \cup buttons
             ps == b.prods \cup {p}
  <2>1. /\ h \in SUBSET (Productions \X Users \X Confs) /\ t \in SUBSET (Productions \X Users \X Confs)
        /\ g \in SUBSET D!Rows /\ ps \in SUBSET Productions /\ {p} \in SUBSET Productions
    BY <1>2, <1>3, <1>4
  <2>2. e = [b EXCEPT !.prods = ps, !.primary = {p}, !.members = members, !.pconfs = pconfs,
                      !.pfeeds = pfeeds, !.hears = h, !.talks = t, !.targets = g, !.order = o]
    BY <1>1
  <2> HIDE DEF h, t, g, ps
  <2>3. /\ e \in D!OlderDatabases
        /\ e.users = b.users /\ e.confs = b.confs /\ e.feeds = b.feeds /\ e.prods = ps
        /\ e.primary = {p} /\ e.members = members /\ e.pconfs = pconfs /\ e.pfeeds = pfeeds
        /\ e.hears = h /\ e.talks = t /\ e.targets = g /\ e.order = o
    BY <1>5, <1>6, <2>1, <2>2 DEF D!OlderDatabases
  <2> QED BY <2>3 DEF h, t, g, ps
<1>11. OnePrimary(e)
  BY <1>10 DEF OnePrimary
<1>12. Contents(e)
  BY <1>10 DEF Layout, Contents, members, pconfs, pfeeds
<1>13. Buttons(e)
  <2>1. e.talks \subseteq e.hears
    BY <1>10 DEF Layout, Buttons
  <2>2. ASSUME NEW q \in Productions, NEW u \in Users, NEW c \in Confs, <<q, u, c>> \in e.hears
        PROVE  <<q, u>> \in e.members /\ <<q, c>> \in e.pconfs
    <3>1. CASE <<q, u, c>> \in b.hears
      BY <1>10, <3>1 DEF Layout, Buttons, members, pconfs
    <3>2. CASE <<q, u, c>> \in rows
      <4>1. q = p /\ <<u, c>> \in hears
        BY <1>8, <3>2
      <4>2. <<q, u>> \in {p} \X b.users /\ <<q, c>> \in {p} \X b.confs
        BY <4>1
      <4> QED BY <1>10, <4>2 DEF members, pconfs
    <3> QED BY <1>10, <2>2, <3>1, <3>2
  <2>3. ASSUME NEW q \in Productions, NEW u \in Users, NEW x \in D!Targets, <<q, u, x>> \in e.targets
        PROVE  <<q, u>> \in e.members /\ <<q, x>> \in e.members \cup e.pfeeds
    <3>1. CASE <<q, u, x>> \in b.targets
      BY <1>10, <3>1 DEF Layout, Buttons, members, pfeeds
    <3>2. CASE <<q, u, x>> \in buttons
      <4>1. q = p /\ <<u, x>> \in b.gtargets
        BY <1>9, <3>2
      <4>2. u \in b.users /\ x \in b.users \cup b.feeds
        BY <4>1
      <4>3. /\ <<q, u>> \in {p} \X b.users
            /\ <<q, x>> \in ({p} \X b.users) \cup ({p} \X b.feeds)
        BY <4>1, <4>2
      <4> QED BY <1>10, <4>3 DEF members, pfeeds
    <3> QED BY <1>10, <2>3, <3>1, <3>2
  <2> QED BY <2>1, <2>2, <2>3 DEF Buttons
<1>14. ASSUME NEW q \in Productions, NEW u \in Users
       PROVE  /\ \A x \in D!Range(o[<<q, u>>]) : Placed(e, q, u, x)
              /\ D!IsInjective(o[<<q, u>>])
  <2>1. CASE q = p
    <3>1. o[<<q, u>>] = order[u]
      BY <1>7, <2>1
    <3>2. ASSUME NEW x \in D!Range(order[u]) PROVE Placed(e, q, u, x)
      <4>1. u \in b.users /\ (x \in Confs => <<u, x>> \in hears) /\ (x \notin Confs => x \in b.users \cup b.feeds)
        OBVIOUS
      <4>2. x \in Confs => <<q, u, x>> \in rows
        BY <1>8, <2>1, <4>1
      <4> QED BY <1>10, <2>1, <4>1, <4>2 DEF Placed, members, pfeeds
    <3> QED BY <3>1, <3>2
  <2>2. CASE q # p
    <3>1. o[<<q, u>>] = b.order[<<q, u>>]
      BY <1>7, <2>2
    <3>2. D!IsInjective(b.order[<<q, u>>]) /\ \A x \in D!Range(b.order[<<q, u>>]) : Placed(b, q, u, x)
      BY DEF Layout, Positions
    <3>3. ASSUME NEW x, Placed(b, q, u, x) PROVE Placed(e, q, u, x)
      BY <1>10, <3>3 DEF Placed, members, pfeeds
    <3> QED BY <3>1, <3>2, <3>3
  <2> QED BY <2>1, <2>2
<1>15. Positions(e)
  BY <1>10, <1>14 DEF Positions
<1> QED BY <1>10, <1>11, <1>12, <1>13, <1>15 DEF DirSound, e

(* Its tables are those of a database of this release.                     *)
LEMMA TablesOf ==
  ASSUME NEW b \in D!OlderDatabases
  PROVE  D!Tables(b) \in D!Databases /\ (DirSound(b) => DirSound(D!Tables(b)))
<1> DEFINE e == D!Tables(b)
<1>1. /\ DOMAIN b \ D!Older = {"users", "confs", "feeds", "prods", "primary", "members", "pconfs", "pfeeds",
                             "hears", "talks", "targets", "order"}
  BY DEF D!OlderDatabases, D!Older
<1>2. e = [users |-> b.users, confs |-> b.confs, feeds |-> b.feeds, prods |-> b.prods,
           primary |-> b.primary, members |-> b.members, pconfs |-> b.pconfs, pfeeds |-> b.pfeeds,
           hears |-> b.hears, talks |-> b.talks, targets |-> b.targets, order |-> b.order]
  BY <1>1 DEF D!Tables
<1> HIDE DEF e
<1>3. /\ e \in D!Databases
      /\ e.users = b.users /\ e.confs = b.confs /\ e.feeds = b.feeds /\ e.prods = b.prods
      /\ e.primary = b.primary /\ e.members = b.members /\ e.pconfs = b.pconfs /\ e.pfeeds = b.pfeeds
      /\ e.hears = b.hears /\ e.talks = b.talks /\ e.targets = b.targets /\ e.order = b.order
  BY <1>2 DEF D!OlderDatabases, D!Databases
<1>4. DirSound(b) => DirSound(e)
  BY <1>3 DEF DirSound, OnePrimary, Contents, Buttons, Positions, Placed
<1> QED BY <1>3, <1>4 DEF e
(* SetToSeq lists the elements of a finite set, each once.                 *)
LEMMA Listed ==
  ASSUME NEW Z, IsFiniteSet(Z)
  PROVE  D!SetToSeq(Z) \in Seq(Z) /\ D!IsInjective(D!SetToSeq(Z)) /\ D!Range(D!SetToSeq(Z)) \subseteq Z
<1> DEFINE P(f) == f \in [1 .. Cardinality(Z) -> Z] /\ D!IsInjective(f)
           q == CHOOSE f : P(f)
<1>1. Cardinality(Z) \in Nat /\ ExistsBijection(1 .. Cardinality(Z), Z)
  BY FS_CardinalityType
<1>2. PICK f : f \in Bijection(1 .. Cardinality(Z), Z)
  BY <1>1 DEF ExistsBijection
<1>3. P(f)
  BY <1>2 DEF Bijection, Injection, D!IsInjective, IsInjective
<1>4. P(q)
  <2> HIDE DEF P
  <2> QED BY <1>3
<1>5. D!SetToSeq(Z) = q
  BY DEF D!SetToSeq, D!IsInjective, IsInjective, D!Cardinality, Cardinality
<1> HIDE DEF q
<1> QED BY <1>1, <1>4, <1>5, SeqDef DEF D!Range

(* Two lists without repetitions and without a common element in a row.    *)
LEMMA DirJoined ==
  ASSUME NEW T, NEW q \in Seq(T), NEW r \in Seq(T),
         D!IsInjective(q), D!IsInjective(r), D!Range(q) \cap D!Range(r) = {}
  PROVE  /\ q \o r \in Seq(T) /\ D!IsInjective(q \o r)
         /\ \A x \in D!Range(q \o r) : x \in D!Range(q) \/ x \in D!Range(r)
<1> DEFINE s == q \o r
           m == Len(q)
           n == Len(r)
<1>1. /\ s \in Seq(T) /\ Len(s) = m + n
      /\ \A i \in 1 .. m + n : s[i] = IF i <= m THEN q[i] ELSE r[i - m]
  BY ConcatProperties
<1>2. m \in Nat /\ n \in Nat /\ DOMAIN q = 1 .. m /\ DOMAIN r = 1 .. n /\ DOMAIN s = 1 .. m + n
  BY <1>1, LenProperties
<1> HIDE DEF s, m, n
<1>3. ASSUME NEW i \in DOMAIN s
      PROVE  \/ i \in DOMAIN q /\ s[i] = q[i]
             \/ i - m \in DOMAIN r /\ s[i] = r[i - m] /\ i \notin DOMAIN q
  <2>1. CASE i <= m
    BY <1>1, <1>2, <2>1
  <2>2. CASE ~(i <= m)
    BY <1>1, <1>2, <2>2
  <2> QED BY <2>1, <2>2
<1>4. \A x \in D!Range(s) : x \in D!Range(q) \/ x \in D!Range(r)
  BY <1>3 DEF D!Range
<1>5. ASSUME NEW i \in DOMAIN s, NEW j \in DOMAIN s, s[i] = s[j] PROVE i = j
  <2>1. \A k \in DOMAIN q : q[k] \in D!Range(q)
    BY DEF D!Range
  <2>2. \A k \in DOMAIN r : r[k] \in D!Range(r)
    BY DEF D!Range
  <2>3. CASE i \in DOMAIN q /\ j \in DOMAIN q /\ s[i] = q[i] /\ s[j] = q[j]
    BY <1>5, <2>3 DEF D!IsInjective
  <2>4. CASE i - m \in DOMAIN r /\ j - m \in DOMAIN r /\ s[i] = r[i - m] /\ s[j] = r[j - m]
    <3>1. i - m = j - m
      BY <1>5, <2>4 DEF D!IsInjective
    <3> QED BY <1>2, <3>1
  <2> QED BY <1>3, <1>5, <2>1, <2>2, <2>3, <2>4
<1>6. D!IsInjective(s)
  BY <1>5 DEF D!IsInjective
<1> QED BY <1>1, <1>4, <1>6 DEF s

(* A server that first opens an older database puts it in order.           *)
LEMMA UpgradeSound ==
  ASSUME NEW b, D!WellFormed(b), KindsApart, IsFiniteSet(D!Targets), ~(Productions \subseteq b.prods)
  PROVE  D!Upgraded(b, D!Fresh(b)) \in D!Databases /\ DirSound(D!Upgraded(b, D!Fresh(b)))
<1> DEFINE p == D!Fresh(b)
           in == b.ghears \cup b.gtalks
           missing(u) == {c \in b.confs : <<u, c>> \in in} \ D!Range(b.gorder[u])
           order == [u \in Users |-> b.gorder[u] \o D!SetToSeq(missing(u))]
           s == D!Inferred(b)
           rows == {r \in b.ctargets : <<r[1], r[2]>> \in b.members}
           e == [s EXCEPT !.hears = s.hears \cup rows, !.talks = s.talks \cup (rows \ s.hears)]
<1>1. D!Upgraded(b, p) = D!Tables(D!Materialized(e, p, in, order))
  BY DEF D!Upgraded
<1>2. p \in Productions \ b.prods
  BY DEF D!Fresh
<1>3. /\ b \in D!OlderDatabases /\ in \subseteq b.users \X b.confs
      /\ b.gtargets \subseteq b.users \X (b.users \cup b.feeds)
  BY DEF D!WellFormed
<1>4. /\ s \in D!OlderDatabases /\ SameFlat(b, s) /\ Layout(s)
      /\ \A r \in b.ctargets : <<r[1], r[3]>> \in s.pconfs
  BY InferredLayout
<1>5. rows \in SUBSET (Productions \X Users \X Confs)
  BY <1>3 DEF D!OlderDatabases
<1>6. \A r \in rows : <<r[1], r[2]>> \in s.members /\ <<r[1], r[3]>> \in s.pconfs
  BY <1>4 DEF SameFlat
<1> HIDE DEF s, rows
<1>7. e \in D!OlderDatabases /\ SameFlat(s, e) /\ Layout(e)
  BY <1>4, <1>5, <1>6, MembershipsAdded
<1>8. ASSUME NEW u \in Users
      PROVE  /\ order[u] \in Seq(D!Targets) /\ D!IsInjective(order[u])
             /\ \A x \in D!Range(order[u]) :
                  /\ u \in b.users
                  /\ x \in Confs => <<u, x>> \in in
                  /\ x \notin Confs => x \in b.users \cup b.feeds
  <2> DEFINE q == b.gorder[u]
             r == D!SetToSeq(missing(u))
  <2>1. q \in Seq(D!Targets)
    BY <1>3 DEF D!OlderDatabases
  <2>2. missing(u) \subseteq Confs /\ missing(u) \subseteq D!Targets /\ IsFiniteSet(missing(u))
    <3>1. missing(u) \subseteq Confs
      BY <1>3 DEF D!OlderDatabases
    <3>2. missing(u) \subseteq D!Targets
      BY <3>1 DEF D!Targets
    <3> QED BY <3>1, <3>2, FS_Subset
  <2>3. \A x \in missing(u) : x \notin D!Range(q) /\ <<u, x>> \in in /\ u \in b.users
    BY <1>3
  <2>4. D!IsInjective(q)
    BY DEF D!WellFormed
  <2>5. \A x \in D!Range(q) : u \in b.users /\ IF x \in Confs THEN <<u, x>> \in in ELSE x \in b.users \cup b.feeds
    BY DEF D!WellFormed, in
  <2>6. order[u] = q \o r
    OBVIOUS
  <2> HIDE DEF missing
  <2>7. r \in Seq(missing(u)) /\ D!IsInjective(r) /\ D!Range(r) \subseteq missing(u)
    BY <2>2, Listed
  <2> HIDE DEF q, r
  <2>8. r \in Seq(D!Targets)
    <3>1. Len(r) \in Nat /\ r \in [1 .. Len(r) -> missing(u)]
      BY <2>7, LenProperties
    <3>2. r \in [1 .. Len(r) -> D!Targets]
      BY <2>2, <3>1
    <3> QED BY <3>1, <3>2, SeqDef
  <2>9. /\ q \o r \in Seq(D!Targets) /\ D!IsInjective(q \o r)
        /\ \A x \in D!Range(q \o r) : x \in D!Range(q) \/ x \in D!Range(r)
    <3>1. D!Range(q) \cap D!Range(r) = {}
      BY <2>3, <2>7
    <3> QED BY <2>1, <2>4, <2>7, <2>8, <3>1, DirJoined
  <2>10. \A x \in D!Range(r) : u \in b.users /\ <<u, x>> \in in /\ x \in Confs
    BY <2>2, <2>3, <2>7
  <2> HIDE DEF order
  <2> QED BY <2>5, <2>6, <2>9, <2>10
<1>9. order \in [Users -> Seq(D!Targets)]
  BY <1>8
<1> HIDE DEF e, order, in, p
<1>10. /\ in \in SUBSET (e.users \X e.confs) /\ e.gtargets \subseteq e.users \X (e.users \cup e.feeds)
       /\ p \in Productions \ e.prods /\ e.users = b.users /\ e.feeds = b.feeds
  BY <1>2, <1>3, <1>4, <1>7 DEF SameFlat
<1>11. D!Materialized(e, p, in, order) \in D!OlderDatabases /\ DirSound(D!Materialized(e, p, in, order))
  BY <1>7, <1>8, <1>9, <1>10, Materializing
<1> QED BY <1>1, <1>11, TablesOf DEF p

(* The import of a database, old or new, leaves one in order.              *)
LEMMA ImportSound ==
  ASSUME NEW b, D!WellFormed(b), KindsApart, b.prods = {} => Productions # {}
  PROVE  D!Imported(b, D!Fresh(b)) \in D!Databases /\ DirSound(D!Imported(b, D!Fresh(b)))
<1> DEFINE p == D!Fresh(b)
           s == IF b.scoped THEN b ELSE D!Inferred(b)
           order == [u \in Users |-> D!Kept(b.gorder[u], Users \cup Feeds)]
<1>1. b \in D!OlderDatabases /\ b.gtargets \subseteq b.users \X (b.users \cup b.feeds)
  BY DEF D!WellFormed
<1>2. s \in D!OlderDatabases /\ SameFlat(b, s) /\ Layout(s)
  <2>1. CASE b.scoped
    BY <1>1, <2>1, ScopedLayout DEF SameFlat
  <2>2. CASE ~b.scoped
    BY <2>2, InferredLayout
  <2> QED BY <2>1, <2>2
<1>3. D!Imported(b, p) = D!Tables(IF b.prods = {} THEN D!Materialized(s, p, {}, order)
                              ELSE [s EXCEPT !.primary = {D!Primary(b)}])
  BY DEF D!Imported
<1>4. CASE b.prods = {}
  <2>1. p \in Productions \ b.prods
    BY <1>4 DEF D!Fresh
  <2>2. ASSUME NEW u \in Users
        PROVE  /\ order[u] \in Seq(D!Targets) /\ D!IsInjective(order[u])
               /\ \A x \in D!Range(order[u]) : u \in b.users /\ x \notin Confs /\ x \in b.users \cup b.feeds
    <3> DEFINE q == b.gorder[u]
               Z == Users \cup Feeds
    <3>1. q \in Seq(D!Targets)
      BY <1>1 DEF D!OlderDatabases
    <3>2. D!IsInjective(q)
      BY DEF D!WellFormed
    <3>3. \A x \in D!Range(q) : u \in b.users /\ (x \notin Confs => x \in b.users \cup b.feeds)
      BY DEF D!WellFormed
    <3>4. order[u] = D!Kept(q, Z)
      OBVIOUS
    <3>5. \A x \in Z : x \notin Confs
      BY DEF KindsApart
    <3> HIDE DEF q, Z
    <3>6. D!Kept(q, Z) \in Seq(D!Targets) /\ D!Range(D!Kept(q, Z)) = D!Range(q) \cap Z /\ D!IsInjective(D!Kept(q, Z))
      BY <3>1, <3>2, KeptProperties
    <3> HIDE DEF order
    <3> QED BY <3>3, <3>4, <3>5, <3>6
  <2>3. order \in [Users -> Seq(D!Targets)]
    BY <2>2
  <2> HIDE DEF s, order, p
  <2>4. /\ {} \in SUBSET (s.users \X s.confs) /\ s.gtargets \subseteq s.users \X (s.users \cup s.feeds)
        /\ p \in Productions \ s.prods /\ s.users = b.users /\ s.feeds = b.feeds
    BY <1>1, <1>2, <2>1 DEF SameFlat
  <2>5. \A u \in Users : /\ D!IsInjective(order[u])
                         /\ \A x \in D!Range(order[u]) :
                              /\ u \in s.users
                              /\ x \in Confs => <<u, x>> \in {}
                              /\ x \notin Confs => x \in s.users \cup s.feeds
    BY <2>2, <2>4
  <2>6. D!Materialized(s, p, {}, order) \in D!OlderDatabases /\ DirSound(D!Materialized(s, p, {}, order))
    BY <1>2, <2>3, <2>4, <2>5, Materializing
  <2> QED BY <1>3, <1>4, <2>6, TablesOf DEF p
<1>5. CASE b.prods # {}
  <2> DEFINE e == [s EXCEPT !.primary = {D!Primary(b)}]
  <2>1. D!Primary(b) \in b.prods
    <3>1. b.primary \subseteq b.prods
      BY DEF D!WellFormed
    <3>2. \E q \in b.prods : b.primary = {} \/ q \in b.primary
      BY <1>5, <3>1
    <3> QED BY <3>2 DEF D!Primary
  <2>2. D!Primary(b) \in Productions /\ D!Primary(b) \in s.prods
    BY <1>1, <1>2, <2>1 DEF D!OlderDatabases, SameFlat
  <2> HIDE DEF s
  <2>3. /\ e \in D!OlderDatabases
        /\ e.users = s.users /\ e.confs = s.confs /\ e.feeds = s.feeds /\ e.prods = s.prods
        /\ e.primary = {D!Primary(b)} /\ e.members = s.members /\ e.pconfs = s.pconfs
        /\ e.pfeeds = s.pfeeds /\ e.hears = s.hears /\ e.talks = s.talks
        /\ e.targets = s.targets /\ e.order = s.order
    <3> DEFINE r == D!Primary(b)
    <3>1. {r} \in SUBSET Productions
      BY <2>2
    <3> HIDE DEF r
    <3> QED BY <1>2, <3>1 DEF D!OlderDatabases, r
  <2> HIDE DEF e
  <2>4. DirSound(e)
    BY <1>2, <2>2, <2>3 DEF Layout, DirSound, OnePrimary, Contents, Buttons, Positions, Placed
  <2>5. D!Imported(b, p) = D!Tables(e)
    BY <1>3, <1>5 DEF e
  <2> QED BY <2>3, <2>4, <2>5, TablesOf
<1> QED BY <1>4, <1>5

(* A backup of a database in order can be imported.                        *)
LEMMA ExportWellFormed ==
  ASSUME NEW d \in D!Databases, DirSound(d), KindsApart
  PROVE  D!WellFormed(D!Exported(d)) /\ D!Exported(d).prods # {}
<1> DEFINE b == D!Exported(d)
           none == [u \in Users |-> <<>>]
           rest == [gtargets |-> {}, ghears |-> {}, gtalks |-> {}, ctargets |-> {}, gorder |-> none,
                    scoped |-> TRUE]
<1>1. DOMAIN d \cup D!Older = {"users", "confs", "feeds", "prods", "primary", "members", "pconfs", "pfeeds",
                             "hears", "talks", "targets", "order", "gtargets", "ghears", "gtalks",
                             "gorder", "ctargets", "scoped"}
  BY DEF D!Databases, D!Older
<1>2. b = [f \in DOMAIN d \cup D!Older |-> IF f \in D!Older THEN rest[f] ELSE d[f]]
  BY DEF D!Exported
<1>3. /\ none \in [Users -> Seq(D!Targets)]
      /\ \A u \in Users : D!IsInjective(none[u]) /\ D!Range(none[u]) = {}
  <2>1. <<>> \in Seq(D!Targets) /\ D!IsInjective(<<>>) /\ D!Range(<<>>) = {}
    BY DEF D!IsInjective, D!Range
  <2> QED BY <2>1
<1> HIDE DEF none
<1>rest. /\ rest.gtargets = {} /\ rest.ghears = {} /\ rest.gtalks = {} /\ rest.gorder = none
      /\ rest.ctargets = {} /\ rest.scoped = TRUE
  OBVIOUS
<1> HIDE DEF b, rest
<1>4. /\ b.users = d.users /\ b.confs = d.confs /\ b.feeds = d.feeds /\ b.prods = d.prods
      /\ b.primary = d.primary /\ b.members = d.members /\ b.pconfs = d.pconfs /\ b.pfeeds = d.pfeeds
      /\ b.hears = d.hears /\ b.talks = d.talks /\ b.targets = d.targets /\ b.order = d.order
      /\ b.gtargets = {} /\ b.ghears = {} /\ b.gtalks = {} /\ b.gorder = none /\ b.ctargets = {}
      /\ b.scoped = TRUE
  BY <1>1, <1>2, <1>rest DEF D!Older
<1>5. b \in D!OlderDatabases
  <2>1. b = [users |-> b.users, confs |-> b.confs, feeds |-> b.feeds, prods |-> b.prods,
             primary |-> b.primary, members |-> b.members, pconfs |-> b.pconfs, pfeeds |-> b.pfeeds,
             hears |-> b.hears, talks |-> b.talks, targets |-> b.targets, order |-> b.order,
             gtargets |-> b.gtargets, ghears |-> b.ghears, gtalks |-> b.gtalks, gorder |-> b.gorder,
             ctargets |-> b.ctargets, scoped |-> b.scoped]
    BY <1>1, <1>2
  <2> QED BY <1>3, <1>4, <2>1 DEF D!Databases, D!OlderDatabases
<1>6. /\ b.primary \subseteq b.prods /\ b.prods # {} /\ b.members \subseteq b.prods \X b.users
      /\ b.pconfs \subseteq b.prods \X b.confs /\ b.pfeeds \subseteq b.prods \X b.feeds
      /\ b.talks \subseteq b.hears
  BY <1>4 DEF DirSound, OnePrimary, Contents, Buttons
<1>7. ASSUME NEW r \in b.hears PROVE <<r[1], r[2]>> \in b.members /\ <<r[1], r[3]>> \in b.pconfs
  <2>1. r[1] \in Productions /\ r[2] \in Users /\ r[3] \in Confs /\ r = <<r[1], r[2], r[3]>>
    BY <1>4 DEF D!Databases
  <2> QED BY <1>4, <2>1 DEF DirSound, Buttons
<1>8. ASSUME NEW r \in b.targets
      PROVE  /\ <<r[1], r[2]>> \in b.members /\ r[3] \notin Confs
             /\ r[3] \in Users => <<r[1], r[3]>> \in b.members
             /\ r[3] \in Feeds => <<r[1], r[3]>> \in b.pfeeds
  <2>1. r[1] \in Productions /\ r[2] \in Users /\ r[3] \in D!Targets /\ r = <<r[1], r[2], r[3]>>
    BY <1>4 DEF D!Databases, D!Rows
  <2>2. <<r[1], r[2]>> \in b.members /\ <<r[1], r[3]>> \in b.members \cup b.pfeeds
    BY <1>4, <2>1 DEF DirSound, Buttons
  <2>3. b.members \subseteq Productions \X Users /\ b.pfeeds \subseteq Productions \X Feeds
    BY <1>4, ByTables
  <2> QED BY <2>1, <2>2, <2>3 DEF KindsApart
<1>9. ASSUME NEW k \in D!Lists
      PROVE  /\ D!IsInjective(b.order[k])
             /\ \A x \in D!Range(b.order[k]) :
                  /\ k \in b.members
                  /\ x \in Confs => <<k[1], k[2], x>> \in b.hears
                  /\ x \notin Confs => <<k[1], x>> \in b.members \cup b.pfeeds
  <2>1. k[1] \in Productions /\ k[2] \in Users /\ k = <<k[1], k[2]>>
    BY DEF D!Lists
  <2> QED BY <1>4, <2>1 DEF DirSound, Positions, Placed
<1>10. D!WellFormed(b)
  BY <1>3, <1>4, <1>5, <1>6, <1>7, <1>8, <1>9 DEF D!WellFormed
<1> QED BY <1>6, <1>10 DEF b

(***************************************************************************)
(* The invariant.  Only what the database and its backup are matters: no   *)
(* request changes a table because of what a page shows.                   *)
(***************************************************************************)
DirIInv ==
  /\ db \in D!Databases /\ DirSound(db)
  /\ backup # None => \E d \in D!Databases : DirSound(d) /\ backup.database = D!Exported(d)

(* MatrixSound is Sound of the database in use.                            *)
LEMMA SoundIsMatrixSound == ASSUME db \in D!Databases, DirSound(db) PROVE D!MatrixSound
<1>1. Cardinality(db.primary) = 1 /\ db.primary \subseteq db.prods
  BY FS_Singleton DEF DirSound, OnePrimary
<1>2. /\ db.members \subseteq db.prods \X db.users
      /\ db.pconfs \subseteq db.prods \X db.confs /\ db.pfeeds \subseteq db.prods \X db.feeds
      /\ db.talks \subseteq db.hears
  BY DEF DirSound, Contents, Buttons
<1>3. ASSUME NEW r \in db.hears PROVE <<r[1], r[2]>> \in db.members /\ <<r[1], r[3]>> \in db.pconfs
  <2>1. r[1] \in Productions /\ r[2] \in Users /\ r[3] \in Confs /\ r = <<r[1], r[2], r[3]>>
    BY DEF D!Databases
  <2> QED BY <2>1 DEF DirSound, Buttons
<1>4. ASSUME NEW r \in db.targets
      PROVE  <<r[1], r[2]>> \in db.members /\ <<r[1], r[3]>> \in db.members \cup db.pfeeds
  <2>1. r[1] \in Productions /\ r[2] \in Users /\ r[3] \in D!Targets /\ r = <<r[1], r[2], r[3]>>
    BY DEF D!Databases, D!Rows
  <2> QED BY <2>1 DEF DirSound, Buttons
<1>5. ASSUME NEW k \in D!Lists
      PROVE  /\ D!IsInjective(db.order[k])
             /\ \A x \in D!Range(db.order[k]) :
                  /\ <<k[1], k[2]>> \in db.members
                  /\ x \in Confs => <<k[1], k[2], x>> \in db.hears
                  /\ x \notin Confs => <<k[1], x>> \in db.members \cup db.pfeeds
  <2>1. k[1] \in Productions /\ k[2] \in Users /\ k = <<k[1], k[2]>>
    BY DEF D!Lists
  <2> QED BY <2>1 DEF DirSound, Positions, Placed
<1> QED BY <1>1, <1>2, <1>3, <1>4, <1>5 DEF D!MatrixSound, D!Cardinality, Cardinality

(* A request of an administrator leaves what it is to leave.               *)
LEMMA DirRequests ==
  ASSUME DirIInv, KindsApart, IsFiniteSet(D!Targets),
         D!Create \/ D!EditMembers \/ D!EditContents \/ D!EditMemberships \/ D!EditTargets
           \/ D!ReorderByAdmin \/ D!ReorderByUser \/ D!DeleteEntity
  PROVE  DirIInv'
<1>0. db \in D!Databases /\ DirSound(db)
  BY DEF DirIInv
<1>1. ASSUME db' \in D!Databases, DirSound(db'), backup' = backup PROVE DirIInv'
  BY <1>1 DEF DirIInv
<1>2. /\ db.users \subseteq Users /\ db.confs \subseteq Confs /\ db.feeds \subseteq Feeds
      /\ db.prods \subseteq Productions /\ db.members \subseteq Productions \X Users
      /\ db.members \subseteq db.prods \X db.users
  BY <1>0, ByTables DEF DirSound, Contents
<1>3. CASE D!Create
  <2> DEFINE p == D!Primary(db)
  <2>1. PICK x \in D!Entities :
          db' = IF multiple \/ x \in Productions THEN WithEntity(db, x)
                ELSE IF x \in Users THEN D!SetProductionUser(WithEntity(db, x), p, x)
                ELSE IF x \in Confs THEN D!SetProductionConference(WithEntity(db, x), p, x)
                ELSE D!SetProductionFeed(WithEntity(db, x), p, x)
    BY <1>3 DEF D!Create, D!Change, WithEntity
  <2>2. PICK e : e = WithEntity(db, x)
    OBVIOUS
  <2>3. db' = IF multiple \/ x \in Productions THEN e
              ELSE IF x \in Users THEN D!SetProductionUser(e, p, x)
              ELSE IF x \in Confs THEN D!SetProductionConference(e, p, x)
              ELSE D!SetProductionFeed(e, p, x)
    BY <2>1, <2>2
  <2>4. /\ e \in D!Databases /\ DirSound(e) /\ db.prods \subseteq e.prods
        /\ x \in Users => x \in e.users
        /\ x \in Confs => x \in e.confs
        /\ x \in Feeds => x \in e.feeds
    BY <1>0, <2>2, EntityAdded
  <2>5. p \in e.prods
    BY <1>0, <2>4, PrimaryIs DEF DirSound
  <2>6. x \in Productions \/ x \in Users \/ x \in Confs \/ x \in Feeds
    BY DEF D!Entities, D!Targets
  <2> HIDE DEF p
  <2>7. db' \in D!Databases /\ DirSound(db')
    BY <2>3, <2>4, <2>5, <2>6, Joins
  <2> QED BY <1>1, <1>3, <2>7 DEF D!Create
<1>4. CASE D!EditMembers
  <2>1. PICK p \in db.prods, u \in db.users :
          db' = D!SetProductionUser(db, p, u) \/ db' = D!RemoveProductionUser(db, p, u)
    BY <1>4 DEF D!EditMembers, D!Change
  <2>2. p \in Productions /\ u \in Users
    BY <1>2
  <2>3. db' \in D!Databases /\ DirSound(db')
    BY <1>0, <2>1, <2>2, Joins, UserLeaves
  <2> QED BY <1>1, <1>4, <2>3 DEF D!EditMembers
<1>5. CASE D!EditContents
  <2>1. PICK p \in db.prods :
          \/ \E c \in db.confs : db' = D!SetProductionConference(db, p, c) \/ db' = D!RemoveProductionConference(db, p, c)
          \/ \E f \in db.feeds : db' = D!SetProductionFeed(db, p, f) \/ db' = D!RemoveProductionFeed(db, p, f)
    BY <1>5 DEF D!EditContents, D!Change
  <2>2. p \in Productions
    BY <1>2
  <2>3. db' \in D!Databases /\ DirSound(db')
    BY <1>0, <1>2, <2>1, <2>2, Joins, ConferenceLeaves, FeedLeaves
  <2> QED BY <1>1, <1>5, <2>3 DEF D!EditContents
<1>6. CASE D!EditMemberships
  <2>1. PICK m \in db.members, c \in db.confs :
          \/ <<m[1], c>> \in db.pconfs /\ (db' = D!SetMembership(db, m[1], m[2], c) \/ db' = D!SetListenOnly(db, m[1], m[2], c))
          \/ db' = D!RemoveTarget(db, m[1], m[2], c)
    BY <1>6 DEF D!EditMemberships, D!Change
  <2>2. m[1] \in Productions /\ m[2] \in Users /\ <<m[1], m[2]>> \in db.members /\ c \in Confs
    BY <1>2
  <2>3. db' \in D!Databases /\ DirSound(db')
    BY <1>0, <2>1, <2>2, MembershipSet, TargetRemoved
  <2> QED BY <1>1, <1>6, <2>3 DEF D!EditMemberships
<1>7. CASE D!EditTargets
  <2>1. PICK m \in db.members, x \in Users \cup Feeds :
          \/ D!Valid(db, m[1], m[2], x) /\ db' = D!AddTarget(db, m[1], m[2], x)
          \/ db' = D!RemoveTarget(db, m[1], m[2], x)
    BY <1>7 DEF D!EditTargets, D!Change
  <2>2. m[1] \in Productions /\ m[2] \in Users
    BY <1>2
  <2>3. db' \in D!Databases /\ DirSound(db')
    BY <1>0, <2>1, <2>2, TargetAdded, TargetRemoved
  <2> QED BY <1>1, <1>7, <2>3 DEF D!EditTargets
<1>8. CASE D!ReorderByAdmin
  <2>1. PICK m \in db.members : \E T \in SUBSET {x \in D!Targets : D!Valid(db, m[1], m[2], x)} :
          \E items \in D!SetToSeqs(T) : db' = D!Reorder(db, m[1], m[2], items)
    BY <1>8 DEF D!ReorderByAdmin, D!Change
  <2>2. PICK T \in SUBSET {x \in D!Targets : D!Valid(db, m[1], m[2], x)} :
          \E items \in D!SetToSeqs(T) : db' = D!Reorder(db, m[1], m[2], items)
    BY <2>1
  <2>3. PICK items \in D!SetToSeqs(T) : db' = D!Reorder(db, m[1], m[2], items)
    BY <2>2
  <2>4. m[1] \in Productions /\ m[2] \in Users
    BY <1>2
  <2>5. T \in SUBSET D!Targets /\ \A x \in T : Placed(db, m[1], m[2], x)
    BY <1>0, <2>4, ValidPlaced
  <2>6. db' \in D!Databases /\ DirSound(db')
    BY <1>0, <2>3, <2>4, <2>5, Reordered
  <2> QED BY <1>1, <1>8, <2>6 DEF D!ReorderByAdmin
<1>9. CASE D!ReorderByUser
  <2>1. PICK u \in db.users \ {GuestProfile} :
          /\ <<D!ScopeOf(u), u>> \in db.members
          /\ \E items \in D!SetToSeqs(D!Visible(db, D!ScopeOf(u), u)) : db' = D!Reorder(db, D!ScopeOf(u), u, items)
    BY <1>9 DEF D!ReorderByUser, D!Change
  <2> DEFINE p == D!ScopeOf(u)
             T == D!Visible(db, p, u)
  <2>2. PICK items \in D!SetToSeqs(T) : db' = D!Reorder(db, p, u, items)
    BY <2>1
  <2>3. p \in Productions /\ u \in Users /\ <<p, u>> \in db.members
    BY <1>2, <2>1
  <2> HIDE DEF p
  <2>4. T \in SUBSET D!Targets /\ \A x \in T : Placed(db, p, u, x)
    BY <1>2, <2>3 DEF D!Visible, D!Targets, Placed, KindsApart
  <2> HIDE DEF T
  <2>5. db' \in D!Databases /\ DirSound(db')
    BY <1>0, <2>2, <2>3, <2>4, Reordered
  <2> QED BY <1>1, <1>9, <2>5 DEF D!ReorderByUser
<1>10. CASE D!DeleteEntity
  <2>1. \/ \E p \in db.prods : \E heir \in db.prods \ {p} : db' = D!DeleteProduction(db, p, heir)
        \/ \E u \in db.users : db' = D!DeleteUser(db, u)
        \/ \E c \in db.confs : db' = D!DeleteConference(db, c)
        \/ \E f \in db.feeds : db' = D!DeleteFeed(db, f)
    BY <1>10 DEF D!DeleteEntity, D!Change
  <2>2. db' \in D!Databases /\ DirSound(db')
    BY <1>0, <1>2, <2>1, ProductionDeleted, UserDeleted, ConferenceDeleted, FeedDeleted
  <2> QED BY <1>1, <1>10, <2>2 DEF D!DeleteEntity
<1> QED BY <1>3, <1>4, <1>5, <1>6, <1>7, <1>8, <1>9, <1>10

(* Every step keeps the invariant.                                         *)
LEMMA DirNextKeeps ==
  ASSUME DirIInv, D!DirectoryAssumption, [D!Next]_(D!vars)
  PROVE  DirIInv'
<1>0. KindsApart /\ IsFiniteSet(D!Targets)
  BY DEF D!DirectoryAssumption, KindsApart, D!IsFiniteSet, IsFiniteSet
<1>1. CASE UNCHANGED <<db, backup>>
  BY <1>1 DEF DirIInv
<1>2. CASE D!ExportConfig
  BY <1>2 DEF D!ExportConfig, DirIInv
<1>3. CASE D!Import
  <2>1. PICK mode, b : /\ D!ImportConfig(mode, b)
                       /\ \/ backup # None /\ b = backup.database
                          \/ b \in Bundles
    BY <1>3 DEF D!Import
  <2>2. D!WellFormed(b) /\ (b.prods = {} => Productions # {})
    <3>1. CASE backup # None /\ b = backup.database
      BY <1>0, <3>1, ExportWellFormed DEF DirIInv
    <3>2. CASE b \in Bundles
      BY <3>2 DEF D!DirectoryAssumption
    <3> QED BY <2>1, <3>1, <3>2
  <2>3. db' = D!Imported(b, D!Fresh(b)) /\ backup' = backup
    BY <2>1 DEF D!ImportConfig
  <2>4. D!Imported(b, D!Fresh(b)) \in D!Databases /\ DirSound(D!Imported(b, D!Fresh(b)))
    BY <1>0, <2>2, ImportSound
  <2> QED BY <2>3, <2>4 DEF DirIInv
<1>4. CASE D!SetMultipleProductions \/ D!Restart \/ (\E u \in Users : D!Register(u) \/ D!SetActiveProduction(u) \/ D!Notices(u))
  <2>1. UNCHANGED <<db, backup>>
    BY <1>4 DEF D!SetMultipleProductions, D!Restart, D!Register, D!SetActiveProduction, D!Notices
  <2> QED BY <1>1, <2>1
<1>5. CASE UNCHANGED D!vars
  BY <1>1, <1>5 DEF D!vars
<1> QED BY <1>0, <1>2, <1>3, <1>4, <1>5, DirRequests DEF D!Next

(* No row of the matrix is ever left behind, whatever administrators,      *)
(* users, upgrades and imports do, in whatever order.                      *)
THEOREM MatrixStaysSound == ASSUME D!DirectoryAssumption PROVE D!Spec => []D!MatrixSound
<1>1. D!Init => DirIInv
  <2> SUFFICES ASSUME D!Init PROVE DirIInv
    OBVIOUS
  <2>1. PICK b \in Bundles : db = D!Upgraded(b, D!Fresh(b))
    BY DEF D!Init
  <2>2. D!WellFormed(b) /\ KindsApart /\ IsFiniteSet(D!Targets) /\ ~(Productions \subseteq b.prods)
    BY DEF D!DirectoryAssumption, KindsApart, D!IsFiniteSet, IsFiniteSet
  <2>3. D!Upgraded(b, D!Fresh(b)) \in D!Databases /\ DirSound(D!Upgraded(b, D!Fresh(b)))
    BY <2>2, UpgradeSound
  <2> QED BY <2>1, <2>3 DEF D!Init, DirIInv
<1>2. DirIInv /\ [D!Next]_(D!vars) => DirIInv'
  BY DirNextKeeps
<1>3. DirIInv => D!MatrixSound
  BY SoundIsMatrixSound DEF DirIInv
<1> QED BY <1>1, <1>2, <1>3, PTL DEF D!Spec

(***************************************************************************)
(* The button lists of the pages, for any database, pages and number of    *)
(* edits: a page that has handled its notices shows what its user has,     *)
(* whatever administrators change in between.                              *)
(***************************************************************************)

(***************************************************************************)
(* Lemmas about lists.                                                     *)
(***************************************************************************)
(* Nothing is kept of an empty list.                                       *)
LEMMA KeptEmpty == ASSUME NEW Z PROVE D!Kept(<<>>, Z) = <<>>
<1> DEFINE q == <<>>
<1>1. q \in Seq({}) /\ Len(q) = 0
  OBVIOUS
<1> HIDE DEF q
<1>2. PICK k : /\ \A n \in 0 .. Len(q) :
                    k[n] = IF n = 0 THEN <<>>
                           ELSE IF q[n] \in Z THEN Append(k[n - 1], q[n]) ELSE k[n - 1]
               /\ D!Kept(q, Z) = k[Len(q)]
  BY <1>1, KeptSolves
<1>3. k[0] = <<>>
  BY <1>1, <1>2
<1> QED BY <1>1, <1>2, <1>3 DEF q

(* What is kept of a list with one more element.                           *)
LEMMA KeptAppended ==
  ASSUME NEW T, NEW q \in Seq(T), NEW x \in T, NEW Z
  PROVE  D!Kept(Append(q, x), Z) = IF x \in Z THEN Append(D!Kept(q, Z), x) ELSE D!Kept(q, Z)
<1> DEFINE a == Append(q, x)
           N == Len(q)
<1>1. a \in Seq(T) /\ Len(a) = N + 1 /\ a[N + 1] = x /\ N \in Nat /\ \A i \in 1 .. N : a[i] = q[i]
  BY AppendProperties, LenProperties
<1> HIDE DEF a
<1>2. PICK j : /\ \A n \in 0 .. N + 1 :
                    j[n] = IF n = 0 THEN <<>>
                           ELSE IF a[n] \in Z THEN Append(j[n - 1], a[n]) ELSE j[n - 1]
               /\ D!Kept(a, Z) = j[N + 1]
  BY <1>1, KeptSolves
<1>3. PICK k : /\ \A n \in 0 .. N :
                    k[n] = IF n = 0 THEN <<>>
                           ELSE IF q[n] \in Z THEN Append(k[n - 1], q[n]) ELSE k[n - 1]
               /\ D!Kept(q, Z) = k[N]
  BY KeptSolves
<1> HIDE DEF N
<1> DEFINE Bad == {n \in 0 .. N : j[n] # k[n]}
<1>4. Bad = {}
  <2> SUFFICES ASSUME Bad # {} PROVE FALSE
    OBVIOUS
  <2>1. PICK n \in Bad : \A m \in Bad : n <= m
    <3>1. Bad \subseteq Nat
      BY <1>1
    <3> HIDE DEF Bad
    <3> QED BY <3>1, LeastOf
  <2>2. n \in 0 .. N /\ n \in 0 .. N + 1 /\ j[n] # k[n]
    BY <1>1, <2>1
  <2>3. n # 0
    BY <1>2, <1>3, <2>2
  <2>4. n \in 1 .. N /\ n - 1 \in 0 .. N /\ ~(n <= n - 1)
    BY <1>1, <2>2, <2>3
  <2>5. j[n - 1] = k[n - 1]
    BY <2>1, <2>4
  <2>6. j[n] = IF a[n] \in Z THEN Append(j[n - 1], a[n]) ELSE j[n - 1]
    BY <1>2, <2>2, <2>3
  <2>7. k[n] = IF q[n] \in Z THEN Append(k[n - 1], q[n]) ELSE k[n - 1]
    BY <1>3, <2>2, <2>3
  <2> QED BY <1>1, <2>2, <2>4, <2>5, <2>6, <2>7
<1>5. N \in 0 .. N /\ N + 1 \in 0 .. N + 1 /\ N + 1 # 0 /\ (N + 1) - 1 = N
  BY <1>1
<1>6. j[N] = k[N]
  BY <1>4, <1>5
<1>7. j[N + 1] = IF a[N + 1] \in Z THEN Append(j[N], a[N + 1]) ELSE j[N]
  BY <1>2, <1>5
<1> QED BY <1>1, <1>2, <1>3, <1>6, <1>7 DEF a

(* Keeping twice keeps what both keep.                                     *)
LEMMA KeptTwice ==
  ASSUME NEW T, NEW q \in Seq(T), NEW Z, NEW R
  PROVE  D!Kept(D!Kept(q, Z), R) = D!Kept(q, Z \cap R)
<1> DEFINE N == Len(q)
           B == Z \cap R
<1>1. N \in Nat /\ \A i \in 1 .. N : q[i] \in T
  BY LenProperties, ElementOfSeq
<1>2. PICK k : /\ \A n \in 0 .. N :
                    k[n] = IF n = 0 THEN <<>>
                           ELSE IF q[n] \in Z THEN Append(k[n - 1], q[n]) ELSE k[n - 1]
               /\ D!Kept(q, Z) = k[N]
  BY KeptSolves
<1>3. PICK j : /\ \A n \in 0 .. N :
                    j[n] = IF n = 0 THEN <<>>
                           ELSE IF q[n] \in B THEN Append(j[n - 1], q[n]) ELSE j[n - 1]
               /\ D!Kept(q, B) = j[N]
  <2> HIDE DEF B
  <2> QED BY KeptSolves
<1> HIDE DEF N
<1> DEFINE Bad == {n \in 0 .. N : ~(k[n] \in Seq(T) /\ D!Kept(k[n], R) = j[n])}
<1>4. Bad = {}
  <2> SUFFICES ASSUME Bad # {} PROVE FALSE
    OBVIOUS
  <2>1. PICK n \in Bad : \A m \in Bad : n <= m
    <3>1. Bad \subseteq Nat
      BY <1>1
    <3> HIDE DEF Bad
    <3> QED BY <3>1, LeastOf
  <2>2. n \in 0 .. N /\ ~(k[n] \in Seq(T) /\ D!Kept(k[n], R) = j[n])
    BY <2>1
  <2>3. n # 0
    <3> SUFFICES ASSUME n = 0 PROVE FALSE
      OBVIOUS
    <3>1. k[n] = <<>> /\ j[n] = <<>>
      BY <1>2, <1>3, <2>2
    <3> QED BY <2>2, <3>1, KeptEmpty, EmptySeq
  <2>4. n \in 1 .. N /\ n - 1 \in 0 .. N /\ ~(n <= n - 1)
    BY <1>1, <2>2, <2>3
  <2>5. k[n - 1] \in Seq(T) /\ D!Kept(k[n - 1], R) = j[n - 1]
    BY <2>1, <2>4
  <2> DEFINE f == k[n - 1]
             x == q[n]
  <2>6. k[n] = IF x \in Z THEN Append(f, x) ELSE f
    BY <1>2, <2>2, <2>3
  <2>7. j[n] = IF x \in B THEN Append(j[n - 1], x) ELSE j[n - 1]
    <3> HIDE DEF B
    <3> QED BY <1>3, <2>2, <2>3
  <2>8. x \in T
    BY <1>1, <2>4
  <2>9. f \in Seq(T) /\ D!Kept(f, R) = j[n - 1]
    BY <2>5
  <2> HIDE DEF f, x
  <2>10. Append(f, x) \in Seq(T) /\ D!Kept(Append(f, x), R) = IF x \in R THEN Append(D!Kept(f, R), x) ELSE D!Kept(f, R)
    BY <2>8, <2>9, KeptAppended, AppendProperties
  <2> QED BY <2>2, <2>6, <2>7, <2>9, <2>10
<1>5. N \in 0 .. N
  BY <1>1
<1> QED BY <1>2, <1>3, <1>4, <1>5

(* All of a list is kept when all of it may stay.                          *)
LEMMA KeptAll == ASSUME NEW T, NEW q \in Seq(T) PROVE D!Kept(q, T) = q
<1> DEFINE N == Len(q)
<1>1. N \in Nat /\ \A i \in 1 .. N : q[i] \in T
  BY LenProperties, ElementOfSeq
<1>2. PICK k : /\ \A n \in 0 .. N :
                    k[n] = IF n = 0 THEN <<>>
                           ELSE IF q[n] \in T THEN Append(k[n - 1], q[n]) ELSE k[n - 1]
               /\ D!Kept(q, T) = k[N]
  BY KeptSolves
<1> HIDE DEF N
<1> DEFINE First(n, f) == f \in Seq(T) /\ Len(f) = n /\ \A i \in 1 .. n : f[i] = q[i]
           Bad == {n \in 0 .. N : ~First(n, k[n])}
<1>3. Bad = {}
  <2> SUFFICES ASSUME Bad # {} PROVE FALSE
    OBVIOUS
  <2>1. PICK n \in Bad : \A m \in Bad : n <= m
    <3>1. Bad \subseteq Nat
      BY <1>1
    <3> HIDE DEF Bad
    <3> QED BY <3>1, LeastOf
  <2>2. n \in 0 .. N /\ ~First(n, k[n])
    BY <2>1
  <2>3. n # 0
    <3> SUFFICES ASSUME n = 0 PROVE FALSE
      OBVIOUS
    <3>1. k[n] = <<>>
      BY <1>2, <2>2
    <3>2. First(0, <<>>)
      OBVIOUS
    <3> HIDE DEF First
    <3> QED BY <2>2, <3>1, <3>2
  <2>4. n \in 1 .. N /\ n - 1 \in 0 .. N /\ ~(n <= n - 1)
    BY <1>1, <2>2, <2>3
  <2>5. First(n - 1, k[n - 1])
    <3> HIDE DEF First
    <3> QED BY <2>1, <2>4
  <2> DEFINE f == k[n - 1]
             x == q[n]
  <2>6. x \in T /\ k[n] = Append(f, x)
    BY <1>1, <1>2, <2>2, <2>3, <2>4
  <2>7. f \in Seq(T) /\ Len(f) = n - 1 /\ \A i \in 1 .. n - 1 : f[i] = q[i]
    BY <2>5
  <2> HIDE DEF f
  <2>8. /\ Append(f, x) \in Seq(T) /\ Len(Append(f, x)) = (n - 1) + 1 /\ Append(f, x)[(n - 1) + 1] = x
        /\ \A i \in 1 .. n - 1 : Append(f, x)[i] = f[i]
    BY <2>6, <2>7, AppendProperties
  <2>9. (n - 1) + 1 = n /\ \A i \in 1 .. n : i \in 1 .. n - 1 \/ i = n
    BY <2>4
  <2>10. \A i \in 1 .. n : Append(f, x)[i] = q[i]
    BY <2>7, <2>8, <2>9
  <2>11. First(n, Append(f, x))
    BY <2>8, <2>9, <2>10
  <2> HIDE DEF First
  <2> QED BY <2>2, <2>6, <2>11
<1>4. First(N, k[N])
  <2>1. N \in 0 .. N
    BY <1>1
  <2> HIDE DEF First
  <2> QED BY <1>3, <2>1
<1>5. k[N] \in Seq(T) /\ Len(k[N]) = Len(q) /\ \A i \in 1 .. Len(q) : k[N][i] = q[i]
  BY <1>4 DEF N
<1>6. k[N] = q
  BY <1>5, SeqEqual
<1> QED BY <1>2, <1>6

(***************************************************************************)
(* What a change of the database does to the list of the user u in the     *)
(* production p.                                                           *)
(***************************************************************************)
\* The list of a page has what the database has, as PagesFollow has it.
Follows(d, p, u, list) ==
  /\ D!Visible(d, p, u) \subseteq list.shown /\ list.shown \ D!Visible(d, p, u) \subseteq Users \cup Feeds
  /\ list.talks = {c \in Confs : <<p, u, c>> \in d.talks}
  /\ D!Kept(list.order, D!Visible(d, p, u)) = D!Kept(d.order[<<p, u>>], D!Visible(d, p, u))

\* From d to e the list loses users and feeds, if anything.
Shrunk(d, e, p, u) ==
  /\ D!Visible(e, p, u) \subseteq D!Visible(d, p, u)
  /\ D!Visible(d, p, u) \ D!Visible(e, p, u) \subseteq Users \cup Feeds
  /\ \A c \in Confs : <<p, u, c>> \in e.talks <=> <<p, u, c>> \in d.talks
  /\ D!Kept(e.order[<<p, u>>], D!Visible(e, p, u)) = D!Kept(d.order[<<p, u>>], D!Visible(e, p, u))

(* A page may go on with the list it has when the user's list shrinks.     *)
LEMMA FollowsStill ==
  ASSUME NEW d \in D!Databases, NEW e, NEW p \in Productions, NEW u \in Users, NEW list,
         list.order \in Seq(D!Targets), Shrunk(d, e, p, u), Follows(d, p, u, list)
  PROVE  Follows(e, p, u, list)
<1> DEFINE V == D!Visible(d, p, u)
           W == D!Visible(e, p, u)
<1>1. d.order[<<p, u>>] \in Seq(D!Targets)
  BY ByTables
<1>2. V \cap W = W /\ W \subseteq V /\ V \ W \subseteq Users \cup Feeds
  BY DEF Shrunk
<1>3. D!Kept(list.order, V) = D!Kept(d.order[<<p, u>>], V)
  BY DEF Follows
<1>4. D!Kept(e.order[<<p, u>>], W) = D!Kept(d.order[<<p, u>>], W)
  BY DEF Shrunk
<1>5. V \subseteq list.shown /\ list.shown \ V \subseteq Users \cup Feeds
  BY DEF Follows
<1>6. list.talks = {c \in Confs : <<p, u, c>> \in e.talks}
  BY DEF Follows, Shrunk
<1> HIDE DEF V, W
<1>7. D!Kept(D!Kept(list.order, V), W) = D!Kept(list.order, W)
  BY <1>2, KeptTwice
<1>8. D!Kept(D!Kept(d.order[<<p, u>>], V), W) = D!Kept(d.order[<<p, u>>], W)
  BY <1>1, <1>2, KeptTwice
<1>9. W \subseteq list.shown /\ list.shown \ W \subseteq Users \cup Feeds
  BY <1>2, <1>5
<1>10. D!Kept(list.order, W) = D!Kept(e.order[<<p, u>>], W)
  BY <1>3, <1>4, <1>7, <1>8
<1> QED BY <1>6, <1>9, <1>10 DEF Follows, V, W

(* A list just fetched follows the database.                               *)
LEMMA FollowsFetched ==
  ASSUME NEW d \in D!Databases, NEW p \in Productions, NEW u \in Users
  PROVE  /\ Follows(d, p, u, D!ListOf(d, p, u))
         /\ D!ListOf(d, p, u) \in [shown : SUBSET D!Targets, talks : SUBSET Confs, order : Seq(D!Targets)]
<1> DEFINE V == D!Visible(d, p, u)
           list == D!ListOf(d, p, u)
<1>1. list = [shown |-> V, talks |-> {c \in Confs : <<p, u, c>> \in d.talks}, order |-> D!Kept(d.order[<<p, u>>], V)]
  BY DEF D!ListOf
<1>2. V \subseteq D!Targets
  BY ByTables DEF D!Visible, D!Targets
<1>3. d.order[<<p, u>>] \in Seq(D!Targets)
  BY ByTables
<1> HIDE DEF V, list
<1>4. D!Kept(d.order[<<p, u>>], V) \in Seq(D!Targets)
  BY <1>3, KeptProperties
<1>5. D!Kept(D!Kept(d.order[<<p, u>>], V), V) = D!Kept(d.order[<<p, u>>], V)
  <2>1. V \cap V = V
    OBVIOUS
  <2> QED BY <1>3, <2>1, KeptTwice
<1>6. /\ list.shown = V /\ list.talks = {c \in Confs : <<p, u, c>> \in d.talks}
      /\ list.order = D!Kept(d.order[<<p, u>>], V)
  BY <1>1
<1>7. Follows(d, p, u, list)
  BY <1>5, <1>6 DEF Follows, V
<1>8. list \in [shown : SUBSET D!Targets, talks : SUBSET Confs, order : Seq(D!Targets)]
  BY <1>1, <1>2, <1>4
<1> QED BY <1>7, <1>8 DEF list

\* e has the rows of d about the buttons of u in p, and all that d has else.
More(d, e, p, u) ==
  /\ d.users \subseteq e.users /\ d.confs \subseteq e.confs /\ d.feeds \subseteq e.feeds
  /\ d.members \subseteq e.members /\ d.pfeeds \subseteq e.pfeeds
  /\ \A x \in D!Targets : /\ <<p, u, x>> \in e.hears <=> <<p, u, x>> \in d.hears
                          /\ <<p, u, x>> \in e.talks <=> <<p, u, x>> \in d.talks
                          /\ <<p, u, x>> \in e.targets <=> <<p, u, x>> \in d.targets
  /\ e.order[<<p, u>>] = d.order[<<p, u>>]

(* New entities, members and contents appear in no list by themselves:     *)
(* the rows of the list have their targets already.                        *)
LEMMA MoreShrinks ==
  ASSUME NEW d \in D!Databases, DirSound(d), KindsApart, NEW e \in D!Databases, NEW p \in Productions, NEW u \in Users,
         More(d, e, p, u)
  PROVE  Shrunk(d, e, p, u)
<1>1. /\ d.users \subseteq Users /\ d.confs \subseteq Confs /\ d.feeds \subseteq Feeds
      /\ e.users \subseteq Users /\ e.confs \subseteq Confs /\ e.feeds \subseteq Feeds
      /\ d.members \subseteq Productions \X Users /\ d.pfeeds \subseteq Productions \X Feeds
      /\ d.members \subseteq d.prods \X d.users /\ d.pfeeds \subseteq d.prods \X d.feeds
      /\ d.pconfs \subseteq d.prods \X d.confs
  BY ByTables DEF DirSound, Contents
<1>2. ASSUME NEW t \in e.users, <<p, u, t>> \in e.targets PROVE t \in d.users /\ <<p, t>> \in d.members
  <2>1. t \in D!Targets /\ t \in Users
    BY <1>1, <1>2 DEF D!Targets
  <2>2. <<p, u, t>> \in d.targets
    BY <1>2, <2>1 DEF More
  <2>3. <<p, t>> \in d.members \cup d.pfeeds
    BY <2>1, <2>2 DEF DirSound, Buttons
  <2>4. <<p, t>> \notin d.pfeeds
    BY <1>1, <2>1 DEF KindsApart
  <2> QED BY <1>1, <2>3, <2>4
<1>3. ASSUME NEW f \in e.feeds, <<p, u, f>> \in e.targets PROVE f \in d.feeds /\ <<p, f>> \in d.pfeeds
  <2>1. f \in D!Targets /\ f \in Feeds
    BY <1>1, <1>3 DEF D!Targets
  <2>2. <<p, u, f>> \in d.targets
    BY <1>3, <2>1 DEF More
  <2>3. <<p, f>> \in d.members \cup d.pfeeds
    BY <2>1, <2>2 DEF DirSound, Buttons
  <2>4. <<p, f>> \notin d.members
    BY <1>1, <2>1 DEF KindsApart
  <2> QED BY <1>1, <2>3, <2>4
<1>4. ASSUME NEW c \in e.confs, <<p, u, c>> \in e.hears PROVE c \in d.confs
  <2>1. c \in D!Targets /\ c \in Confs
    BY <1>1, <1>4 DEF D!Targets
  <2>2. <<p, u, c>> \in d.hears
    BY <1>4, <2>1 DEF More
  <2>3. <<p, c>> \in d.pconfs
    BY <2>1, <2>2 DEF DirSound, Buttons
  <2> QED BY <1>1, <2>3
<1>5. D!Visible(e, p, u) \subseteq D!Visible(d, p, u)
  <2> SUFFICES ASSUME NEW x \in D!Visible(e, p, u) PROVE x \in D!Visible(d, p, u)
    OBVIOUS
  <2>1. x \in D!Targets
    BY <1>1 DEF D!Visible, D!Targets
  <2>2. CASE x \in e.users \ {GuestProfile} /\ <<p, u, x>> \in e.targets
    BY <1>2, <2>1, <2>2 DEF D!Visible, More
  <2>3. CASE x \in e.confs /\ <<p, u, x>> \in e.hears
    BY <1>4, <2>1, <2>3 DEF D!Visible, More
  <2>4. CASE x \in e.feeds /\ <<p, u, x>> \in e.targets
    BY <1>3, <2>1, <2>4 DEF D!Visible, More
  <2> QED BY <2>2, <2>3, <2>4 DEF D!Visible
<1>6. D!Visible(d, p, u) \subseteq D!Visible(e, p, u)
  <2> SUFFICES ASSUME NEW x \in D!Visible(d, p, u) PROVE x \in D!Visible(e, p, u)
    OBVIOUS
  <2>1. x \in D!Targets
    BY <1>1 DEF D!Visible, D!Targets
  <2> QED BY <2>1 DEF D!Visible, More
<1>7. Confs \subseteq D!Targets
  BY DEF D!Targets
<1> QED BY <1>5, <1>6, <1>7 DEF Shrunk, More

\* e lacks rows and contents of d, but none about a conference of u in p.
Less(d, e, gone, p, u) ==
  /\ Cut(d, e, gone)
  /\ e.users \subseteq d.users /\ e.confs \subseteq d.confs /\ e.feeds \subseteq d.feeds
  /\ e.members \subseteq d.members /\ e.pfeeds \subseteq d.pfeeds
  /\ \A c \in Confs : <<p, u, c>> \in d.hears => <<p, u, c>> \notin gone /\ c \in e.confs

(* What is taken away leaves the list.                                     *)
LEMMA LessShrinks ==
  ASSUME NEW d \in D!Databases, DirSound(d), NEW e, NEW gone, NEW p \in Productions, NEW u \in Users,
         Less(d, e, gone, p, u)
  PROVE  Shrunk(d, e, p, u)
<1> DEFINE V == D!Visible(d, p, u)
           W == D!Visible(e, p, u)
           N == {x \in D!Targets : <<p, u, x>> \notin gone}
<1>1. /\ d.users \subseteq Users /\ d.confs \subseteq Confs /\ d.feeds \subseteq Feeds
      /\ d.order[<<p, u>>] \in Seq(D!Targets) /\ d.talks \subseteq d.hears
  BY ByTables DEF DirSound, Buttons
<1>2. W \subseteq V
  BY DEF Less, Cut, D!Visible
<1>3. V \ W \subseteq Users \cup Feeds
  <2> SUFFICES ASSUME NEW x \in V, x \notin W, x \notin Users \cup Feeds PROVE FALSE
    OBVIOUS
  <2>1. x \in Confs /\ <<p, u, x>> \in d.hears
    BY <1>1 DEF D!Visible
  <2>2. <<p, u, x>> \in e.hears /\ x \in e.confs
    BY <2>1 DEF Less, Cut
  <2> QED BY <2>2 DEF D!Visible
<1>4. \A c \in Confs : <<p, u, c>> \in e.talks <=> <<p, u, c>> \in d.talks
  BY <1>1 DEF Less, Cut
<1>5. N \cap W = W
  <2>1. W \subseteq D!Targets
    BY <1>1 DEF D!Visible, Less, D!Targets
  <2>2. \A x \in W : <<p, u, x>> \notin gone
    BY DEF Less, Cut, D!Visible
  <2> QED BY <2>1, <2>2
<1>6. e.order[<<p, u>>] = D!Kept(d.order[<<p, u>>], N)
  BY DEF Less, Cut
<1> HIDE DEF V, W, N
<1>7. D!Kept(D!Kept(d.order[<<p, u>>], N), W) = D!Kept(d.order[<<p, u>>], W)
  BY <1>1, <1>5, KeptTwice
<1>8. D!Kept(e.order[<<p, u>>], W) = D!Kept(d.order[<<p, u>>], W)
  BY <1>6, <1>7
<1> QED BY <1>2, <1>3, <1>4, <1>8 DEF Shrunk, V, W

(* The primary production is the one in the table.                         *)
LEMMA PrimaryOnly ==
  ASSUME NEW d, OnePrimary(d)
  PROVE  d.primary = {D!Primary(d)} /\ D!Primary(d) \in d.prods
<1>1. PICK q \in d.prods : d.primary = {q}
  BY DEF OnePrimary
<1>2. D!Primary(d) = q
  BY <1>1 DEF D!Primary
<1> QED BY <1>1, <1>2

(***************************************************************************)
(* What the notices do to the pages.                                       *)
(***************************************************************************)
Notice == Confs \cup {"reset", "targets", "any"}

\* The page of u is as it was, but for further notices.
SamePage(ps, qs, u) ==
  /\ qs[u].prod = ps[u].prod /\ qs[u].list = ps[u].list /\ qs[u].refused = ps[u].refused
  /\ qs[u].strayed = ps[u].strayed /\ qs[u].on = ps[u].on
  /\ ps[u].notices \subseteq qs[u].notices

(* Who is on and among those to be told has the notice.                    *)
LEMMA Telling ==
  ASSUME NEW ps \in [Users -> D!Pages], NEW who, NEW n \in Notice
  PROVE  /\ D!Tell(ps, who, n) \in [Users -> D!Pages]
         /\ \A u \in Users : /\ SamePage(ps, D!Tell(ps, who, n), u)
                             /\ ps[u].on /\ u \in who => n \in D!Tell(ps, who, n)[u].notices
<1> DEFINE qs == D!Tell(ps, who, n)
<1>1. ASSUME NEW u \in Users
      PROVE  qs[u] \in D!Pages /\ SamePage(ps, qs, u) /\ (ps[u].on /\ u \in who => n \in qs[u].notices)
  <2>1. ps[u] \in D!Pages
    OBVIOUS
  <2>2. qs[u] = IF ps[u].on /\ u \in who THEN [ps[u] EXCEPT !.notices = ps[u].notices \cup {n}] ELSE ps[u]
    BY DEF D!Tell
  <2> HIDE DEF qs
  <2> QED BY <2>1, <2>2 DEF D!Pages, SamePage, Notice
<1>2. qs = [u \in Users |-> qs[u]]
  BY DEF D!Tell
<1> HIDE DEF qs
<1>3. qs \in [Users -> D!Pages]
  BY <1>1, <1>2
<1> QED BY <1>1, <1>3 DEF qs

\* The page of u was moved when its production p could not be used any more.
Moved(qs, d, u) ==
  /\ qs[u].prod = D!Fallback(d, u) /\ "any" \in qs[u].notices
  /\ qs[u].strayed \/ D!Fallback(d, u) \in IF multiple THEN Productions ELSE {D!Primary(d)}

(* The pages that used a production are moved, the others stay.            *)
LEMMA Resetting ==
  ASSUME NEW ps \in [Users -> D!Pages], NEW d \in D!Databases, NEW p, NEW who
  PROVE  /\ D!ResetPeers(ps, d, p, who) \in [Users -> D!Pages]
         /\ \A u \in Users : IF ps[u].on /\ u \in who /\ ps[u].prod = p
                             THEN Moved(D!ResetPeers(ps, d, p, who), d, u)
                             ELSE SamePage(ps, D!ResetPeers(ps, d, p, who), u)
         /\ \A u \in Users : D!ResetPeers(ps, d, p, who)[u].on = ps[u].on
<1> DEFINE qs == D!ResetPeers(ps, d, p, who)
<1>1. ASSUME NEW u \in Users
      PROVE  /\ qs[u] \in D!Pages /\ qs[u].on = ps[u].on
             /\ IF ps[u].on /\ u \in who /\ ps[u].prod = p THEN Moved(qs, d, u) ELSE SamePage(ps, qs, u)
  <2> DEFINE away == D!Fallback(d, u) \notin IF multiple THEN Productions ELSE {D!Primary(d)}
  <2>1. ps[u] \in D!Pages
    OBVIOUS
  <2>2. qs[u] = IF ps[u].on /\ u \in who /\ ps[u].prod = p
                THEN [ps[u] EXCEPT !.prod = D!Fallback(d, u),
                                   !.notices = ps[u].notices \cup {"reset", "targets", "any"},
                                   !.strayed = ps[u].strayed \/ away]
                ELSE ps[u]
    BY DEF D!ResetPeers
  <2>3. D!Fallback(d, u) \in Productions \cup {None}
    <3>1. D!Productions_Of(d, u) \subseteq Productions
      BY ByTables DEF D!Productions_Of
    <3> QED BY <3>1 DEF D!Fallback
  <2>4. away \in BOOLEAN /\ ps[u].strayed \in BOOLEAN
    BY <2>1 DEF D!Pages
  <2>5. ~away => D!Fallback(d, u) \in IF multiple THEN Productions ELSE {D!Primary(d)}
    OBVIOUS
  <2> DEFINE f == D!Fallback(d, u)
             old == ps[u]
             new == [old EXCEPT !.prod = f, !.notices = old.notices \cup {"reset", "targets", "any"},
                                !.strayed = old.strayed \/ away]
  <2>6. (old.strayed \/ away) \in BOOLEAN
    OBVIOUS
  <2> HIDE DEF qs, away, f, old
  <2>7. /\ new \in D!Pages /\ new.on = old.on /\ new.prod = f /\ "any" \in new.notices
        /\ new.strayed = (old.strayed \/ away)
    BY <2>1, <2>3, <2>6 DEF D!Pages, f, old
  <2>8. qs[u] = IF old.on /\ u \in who /\ old.prod = p THEN new ELSE old
    BY <2>2 DEF f, old
  <2> HIDE DEF new
  <2>9. CASE old.on /\ u \in who /\ old.prod = p
    <3>1. qs[u] = new
      BY <2>8, <2>9
    <3>2. new.strayed \/ f \in IF multiple THEN Productions ELSE {D!Primary(d)}
      BY <2>5, <2>7 DEF f
    <3>3. Moved(qs, d, u)
      BY <2>7, <3>1, <3>2 DEF Moved, f
    <3> QED BY <2>7, <2>9, <3>1, <3>3 DEF old
  <2>10. CASE ~(old.on /\ u \in who /\ old.prod = p)
    <3>1. qs[u] = old
      BY <2>8, <2>10
    <3> QED BY <2>1, <2>10, <3>1 DEF SamePage, old
  <2> QED BY <2>9, <2>10
<1>2. qs = [u \in Users |-> qs[u]]
  BY DEF D!ResetPeers
<1> HIDE DEF qs
<1>3. qs \in [Users -> D!Pages]
  BY <1>1, <1>2
<1> QED BY <1>1, <1>3 DEF qs

(***************************************************************************)
(* The invariant of the pages.  A page whose notices are about conferences *)
(* that it does not show will not fetch its list again, so its list must   *)
(* follow already.  It was fetched for the production the server has the   *)
(* page in, which must be the one in use: a page that strayed is excepted. *)
(***************************************************************************)
Settled(u) ==
  /\ peers[u].notices \subseteq Confs \ peers[u].list.shown
  /\ ~peers[u].refused /\ ~peers[u].strayed /\ <<peers[u].prod, u>> \in db.members

InStep(u) ==
  /\ u \in issued
  /\ ~peers[u].strayed => peers[u].prod \in IF multiple THEN Productions ELSE {D!Primary(db)}
  /\ Settled(u) => Follows(db, peers[u].prod, u, peers[u].list)

PInv ==
  /\ DirIInv /\ D!TypeOK /\ db.users \subseteq issued /\ (backup # None => backup.config \in BOOLEAN)
  /\ \A u \in Users : peers[u].on /\ ~imported => InStep(u)

(* What a page needs when the database changes: nothing but what it has,   *)
(* if its list shrinks at most.                                            *)
LEMMA Stays ==
  ASSUME PInv, NEW u \in Users, ~imported, peers[u].on,
         SamePage(peers, peers', u), issued \subseteq issued', multiple' = multiple,
         ~multiple /\ peers[u].prod = D!Primary(db) => D!Primary(db') = D!Primary(db),
         Settled(u)' => <<peers[u].prod, u>> \in db.members /\ Shrunk(db, db', peers[u].prod, u)
  PROVE  InStep(u)'
<1>1. InStep(u)
  BY DEF PInv
<1>2. /\ peers'[u].prod = peers[u].prod /\ peers'[u].list = peers[u].list
      /\ peers'[u].refused = peers[u].refused /\ peers'[u].strayed = peers[u].strayed
      /\ peers[u].notices \subseteq peers'[u].notices
  BY DEF SamePage
<1>3. ~peers'[u].strayed => peers'[u].prod \in IF multiple' THEN Productions ELSE {D!Primary(db')}
  BY <1>1, <1>2 DEF InStep
<1>4. ASSUME Settled(u)' PROVE Follows(db', peers'[u].prod, u, peers'[u].list)
  <2>1. <<peers[u].prod, u>> \in db.members /\ Shrunk(db, db', peers[u].prod, u)
    BY <1>4
  <2>2. Settled(u)
    BY <1>2, <1>4, <2>1 DEF Settled
  <2>3. Follows(db, peers[u].prod, u, peers[u].list)
    BY <1>1, <2>2 DEF InStep
  <2>4. db \in D!Databases /\ peers[u] \in D!Pages
    BY DEF PInv, DirIInv, D!TypeOK
  <2>5. peers[u].list.order \in Seq(D!Targets) /\ peers[u].prod \in Productions
    BY <2>1, <2>4, ByTables DEF D!Pages
  <2> QED BY <1>2, <2>1, <2>3, <2>4, <2>5, FollowsStill
<1> QED BY <1>1, <1>3, <1>4 DEF InStep

(* A page that is to fetch its list may have any.                          *)
LEMMA IsTold ==
  ASSUME PInv, NEW u \in Users, ~imported, peers[u].on, Confs \cap {"reset", "targets", "any"} = {},
         SamePage(peers, peers', u), issued \subseteq issued', multiple' = multiple,
         ~multiple /\ peers[u].prod = D!Primary(db) => D!Primary(db') = D!Primary(db),
         "targets" \in peers'[u].notices \/ "any" \in peers'[u].notices
  PROVE  InStep(u)'
<1>1. ~Settled(u)'
  BY DEF Settled
<1> QED BY <1>1, Stays

(* A page that is moved is in the production in use, or strays.            *)
LEMMA IsMoved ==
  ASSUME PInv, NEW u \in Users, ~imported, peers[u].on, Confs \cap {"reset", "targets", "any"} = {},
         Moved(peers', db', u), issued \subseteq issued', multiple' = multiple
  PROVE  InStep(u)'
<1>1. InStep(u)
  BY DEF PInv
<1>2. ~Settled(u)'
  BY DEF Settled, Moved
<1>3. ~peers'[u].strayed => peers'[u].prod \in IF multiple' THEN Productions ELSE {D!Primary(db')}
  BY DEF Moved
<1> QED BY <1>1, <1>2, <1>3 DEF InStep

(***************************************************************************)
(* The requests and the lists.                                             *)
(***************************************************************************)
(* A new entity is in no list.                                             *)
LEMMA EntityMore ==
  ASSUME NEW d \in D!Databases, NEW x, NEW q \in Productions, NEW v \in Users
  PROVE  /\ More(d, WithEntity(d, x), q, v)
         /\ WithEntity(d, x).members = d.members /\ WithEntity(d, x).primary = d.primary
         /\ WithEntity(d, x).users = d.users \cup ({x} \cap Users)
<1> DEFINE e == WithEntity(d, x)
<1>1. /\ e.users = d.users \cup ({x} \cap Users) /\ e.confs = d.confs \cup ({x} \cap Confs)
      /\ e.feeds = d.feeds \cup ({x} \cap Feeds) /\ e.primary = d.primary
      /\ e.hears = d.hears /\ e.talks = d.talks /\ e.targets = d.targets
      /\ e.members = d.members /\ e.pconfs = d.pconfs /\ e.pfeeds = d.pfeeds /\ e.order = d.order
  BY DEF WithEntity, D!Databases
<1> HIDE DEF e
<1> QED BY <1>1 DEF More, e

(* Neither is what joins a production.                                     *)
LEMMA JoinsMore ==
  ASSUME NEW d \in D!Databases, NEW p, NEW x, NEW e, NEW q \in Productions, NEW v \in Users,
         e = D!SetProductionUser(d, p, x) \/ e = D!SetProductionConference(d, p, x) \/ e = D!SetProductionFeed(d, p, x)
  PROVE  /\ More(d, e, q, v) /\ e.primary = d.primary /\ e.users = d.users
         /\ e.members \subseteq d.members \cup {<<p, x>>}
         /\ e # D!SetProductionUser(d, p, x) => e.members = d.members
<1>1. CASE e = D!SetProductionUser(d, p, x)
  <2>1. e = [d EXCEPT !.members = d.members \cup {<<p, x>>}]
    BY <1>1 DEF D!SetProductionUser
  <2>2. /\ e.users = d.users /\ e.confs = d.confs /\ e.feeds = d.feeds /\ e.primary = d.primary
        /\ e.hears = d.hears /\ e.talks = d.talks /\ e.targets = d.targets
        /\ e.members = d.members \cup {<<p, x>>} /\ e.pfeeds = d.pfeeds /\ e.order = d.order
    BY <2>1 DEF D!Databases
  <2> QED BY <1>1, <2>2 DEF More
<1>2. CASE e = D!SetProductionConference(d, p, x)
  <2>1. e = [d EXCEPT !.pconfs = d.pconfs \cup {<<p, x>>}]
    BY <1>2 DEF D!SetProductionConference
  <2>2. /\ e.users = d.users /\ e.confs = d.confs /\ e.feeds = d.feeds /\ e.primary = d.primary
        /\ e.hears = d.hears /\ e.talks = d.talks /\ e.targets = d.targets
        /\ e.members = d.members /\ e.pfeeds = d.pfeeds /\ e.order = d.order
    BY <2>1 DEF D!Databases
  <2> QED BY <2>2 DEF More
<1>3. CASE e = D!SetProductionFeed(d, p, x)
  <2>1. e = [d EXCEPT !.pfeeds = d.pfeeds \cup {<<p, x>>}]
    BY <1>3 DEF D!SetProductionFeed
  <2>2. /\ e.users = d.users /\ e.confs = d.confs /\ e.feeds = d.feeds /\ e.primary = d.primary
        /\ e.hears = d.hears /\ e.talks = d.talks /\ e.targets = d.targets
        /\ e.members = d.members /\ e.pfeeds = d.pfeeds \cup {<<p, x>>} /\ e.order = d.order
    BY <2>1 DEF D!Databases
  <2> QED BY <2>2 DEF More
<1> QED BY <1>1, <1>2, <1>3

\* e is d after a request about the button x of u in p, or about the list items.
ButtonSet(d, e, p, u, x, items) ==
  \/ x \in Confs /\ (e = D!SetMembership(d, p, u, x) \/ e = D!SetListenOnly(d, p, u, x))
  \/ e = D!AddTarget(d, p, u, x)
  \/ e = D!Reorder(d, p, u, items)

(* The buttons of one user change nobody else's.                           *)
LEMMA OthersMore ==
  ASSUME NEW d \in D!Databases, NEW p \in Productions, NEW u \in Users, NEW x, NEW items, NEW e,
         ButtonSet(d, e, p, u, x, items),
         NEW q \in Productions, NEW v \in Users
  PROVE  /\ v # u => More(d, e, q, v)
         /\ e.primary = d.primary /\ e.users = d.users /\ e.members = d.members
<1> DEFINE o == D!Append1(d, p, u, x)
           w == [d.order EXCEPT ![<<p, u>>] = items]
<1>1. d.order \in [D!Lists -> Seq(D!Targets)] /\ <<p, u>> \in D!Lists /\ <<q, v>> \in D!Lists
  BY DEF D!Databases, D!Lists
<1>2. v # u => o[<<q, v>>] = d.order[<<q, v>>]
  BY <1>1 DEF D!Append1
<1>3. v # u => w[<<q, v>>] = d.order[<<q, v>>]
  BY <1>1
<1> HIDE DEF o, w
<1>4. CASE x \in Confs /\ e = D!SetMembership(d, p, u, x)
  <2>1. e = [d EXCEPT !.hears = d.hears \cup {<<p, u, x>>}, !.talks = d.talks \cup {<<p, u, x>>}, !.order = o]
    BY <1>4 DEF D!SetMembership, o
  <2>2. /\ e.users = d.users /\ e.confs = d.confs /\ e.feeds = d.feeds /\ e.primary = d.primary
        /\ e.hears = d.hears \cup {<<p, u, x>>} /\ e.talks = d.talks \cup {<<p, u, x>>} /\ e.targets = d.targets
        /\ e.members = d.members /\ e.pfeeds = d.pfeeds /\ e.order = o
    BY <2>1 DEF D!Databases
  <2> QED BY <1>2, <2>2 DEF More
<1>5. CASE x \in Confs /\ e = D!SetListenOnly(d, p, u, x)
  <2>1. e = [d EXCEPT !.hears = d.hears \cup {<<p, u, x>>}, !.talks = d.talks \ {<<p, u, x>>}, !.order = o]
    BY <1>5 DEF D!SetListenOnly, o
  <2>2. /\ e.users = d.users /\ e.confs = d.confs /\ e.feeds = d.feeds /\ e.primary = d.primary
        /\ e.hears = d.hears \cup {<<p, u, x>>} /\ e.talks = d.talks \ {<<p, u, x>>} /\ e.targets = d.targets
        /\ e.members = d.members /\ e.pfeeds = d.pfeeds /\ e.order = o
    BY <2>1 DEF D!Databases
  <2> QED BY <1>2, <2>2 DEF More
<1>6. CASE e = D!AddTarget(d, p, u, x)
  <2>1. e = [d EXCEPT !.targets = d.targets \cup {<<p, u, x>>}, !.order = o]
    BY <1>6 DEF D!AddTarget, o
  <2>2. /\ e.users = d.users /\ e.confs = d.confs /\ e.feeds = d.feeds /\ e.primary = d.primary
        /\ e.hears = d.hears /\ e.talks = d.talks /\ e.targets = d.targets \cup {<<p, u, x>>}
        /\ e.members = d.members /\ e.pfeeds = d.pfeeds /\ e.order = o
    BY <2>1 DEF D!Databases
  <2> QED BY <1>2, <2>2 DEF More
<1>7. CASE e = D!Reorder(d, p, u, items)
  <2>1. e = [d EXCEPT !.order = w]
    BY <1>7 DEF D!Reorder, w
  <2>2. /\ e.users = d.users /\ e.confs = d.confs /\ e.feeds = d.feeds /\ e.primary = d.primary
        /\ e.hears = d.hears /\ e.talks = d.talks /\ e.targets = d.targets
        /\ e.members = d.members /\ e.pfeeds = d.pfeeds /\ e.order = w
    BY <2>1 DEF D!Databases
  <2> QED BY <1>3, <2>2 DEF More
<1> QED BY <1>4, <1>5, <1>6, <1>7 DEF ButtonSet

\* e is d without the rows that are gone, and with less of what the productions have.
Without(d, e, gone) ==
  /\ Cut(d, e, gone)
  /\ e.users \subseteq d.users /\ e.confs \subseteq d.confs /\ e.feeds \subseteq d.feeds
  /\ e.members \subseteq d.members /\ e.pfeeds \subseteq d.pfeeds

\* Rows of a member of a production, on what a production has, of all a
\* production has, and on what all productions have.
OfMember(p, u) == {r \in D!Rows : r[1] = p /\ u \in {r[2], r[3]}}
OnTarget(p, x) == {r \in D!Rows : r[1] = p /\ r[3] = x}
OfProduction(p) == {r \in D!Rows : r[1] = p}
OnAny(x) == {r \in D!Rows : r[3] = x}

(* A user leaves a production: its rows there go, and those that name it.  *)
LEMMA UserRemoved ==
  ASSUME NEW d \in D!Databases, NEW p, NEW x, NEW e, e = D!RemoveProductionUser(d, p, x)
  PROVE  /\ Without(d, e, OfMember(p, x))
         /\ e.confs = d.confs /\ e.primary = d.primary /\ e.users = d.users
<1> DEFINE gone == {r \in D!Rows : r[1] = p /\ x \in {r[2], r[3]}}
           a == D!Purge(d, gone)
<1>1. e = [a EXCEPT !.members = a.members \ {<<p, x>>}]
  BY DEF D!RemoveProductionUser
<1>2. a \in D!Databases /\ Same(d, a) /\ Cut(d, a, gone)
  BY PurgeTables
<1> HIDE DEF gone, a
<1>3. /\ e.hears = a.hears /\ e.talks = a.talks /\ e.targets = a.targets /\ e.order = a.order
      /\ e.users = a.users /\ e.confs = a.confs /\ e.feeds = a.feeds
      /\ e.members = a.members \ {<<p, x>>}
      /\ e.pfeeds = a.pfeeds
      /\ e.primary = a.primary
  BY <1>1, <1>2 DEF D!Databases
<1>4. Without(d, e, gone) /\ e.confs = d.confs /\ e.primary = d.primary /\ e.users = d.users
  BY <1>2, <1>3 DEF Same, Cut, Without
<1> QED BY <1>4 DEF gone, OfMember

(* A conference leaves a production: the rows on it go.                    *)
LEMMA ConferenceRemoved ==
  ASSUME NEW d \in D!Databases, NEW p, NEW x, NEW e, e = D!RemoveProductionConference(d, p, x)
  PROVE  /\ Without(d, e, OnTarget(p, x))
         /\ e.confs = d.confs /\ e.primary = d.primary /\ e.users = d.users
<1> DEFINE gone == {r \in D!Rows : r[1] = p /\ r[3] = x}
           a == D!Purge(d, gone)
<1>1. e = [a EXCEPT !.pconfs = a.pconfs \ {<<p, x>>}]
  BY DEF D!RemoveProductionConference
<1>2. a \in D!Databases /\ Same(d, a) /\ Cut(d, a, gone)
  BY PurgeTables
<1> HIDE DEF gone, a
<1>3. /\ e.hears = a.hears /\ e.talks = a.talks /\ e.targets = a.targets /\ e.order = a.order
      /\ e.users = a.users /\ e.confs = a.confs /\ e.feeds = a.feeds
      /\ e.members = a.members
      /\ e.pfeeds = a.pfeeds
      /\ e.primary = a.primary
  BY <1>1, <1>2 DEF D!Databases
<1>4. Without(d, e, gone) /\ e.confs = d.confs /\ e.primary = d.primary /\ e.users = d.users
  BY <1>2, <1>3 DEF Same, Cut, Without
<1> QED BY <1>4 DEF gone, OnTarget

(* A feed leaves a production: the rows on it go.                          *)
LEMMA FeedRemoved ==
  ASSUME NEW d \in D!Databases, NEW p, NEW x, NEW e, e = D!RemoveProductionFeed(d, p, x)
  PROVE  /\ Without(d, e, OnTarget(p, x))
         /\ e.confs = d.confs /\ e.primary = d.primary /\ e.users = d.users
<1> DEFINE gone == {r \in D!Rows : r[1] = p /\ r[3] = x}
           a == D!Purge(d, gone)
<1>1. e = [a EXCEPT !.pfeeds = a.pfeeds \ {<<p, x>>}]
  BY DEF D!RemoveProductionFeed
<1>2. a \in D!Databases /\ Same(d, a) /\ Cut(d, a, gone)
  BY PurgeTables
<1> HIDE DEF gone, a
<1>3. /\ e.hears = a.hears /\ e.talks = a.talks /\ e.targets = a.targets /\ e.order = a.order
      /\ e.users = a.users /\ e.confs = a.confs /\ e.feeds = a.feeds
      /\ e.members = a.members
      /\ e.pfeeds = a.pfeeds \ {<<p, x>>}
      /\ e.primary = a.primary
  BY <1>1, <1>2 DEF D!Databases
<1>4. Without(d, e, gone) /\ e.confs = d.confs /\ e.primary = d.primary /\ e.users = d.users
  BY <1>2, <1>3 DEF Same, Cut, Without
<1> QED BY <1>4 DEF gone, OnTarget

(* A production is deleted: its rows go.                                   *)
LEMMA ProductionGone ==
  ASSUME NEW d \in D!Databases, NEW p, NEW x, NEW e, e = D!DeleteProduction(d, p, x)
  PROVE  /\ Without(d, e, OfProduction(p))
         /\ e.confs = d.confs /\ (p \notin d.primary => e.primary = d.primary) /\ e.users = d.users
<1> DEFINE gone == {r \in D!Rows : r[1] = p}
           a == D!Purge(d, gone)
<1>1. e = [a EXCEPT !.members = {m \in a.members : m[1] # p},
                  !.pconfs = {m \in a.pconfs : m[1] # p}, !.pfeeds = {m \in a.pfeeds : m[1] # p},
                  !.prods = a.prods \ {p}, !.primary = IF p \in a.primary THEN {x} ELSE a.primary]
  BY DEF D!DeleteProduction
<1>2. a \in D!Databases /\ Same(d, a) /\ Cut(d, a, gone)
  BY PurgeTables
<1> HIDE DEF gone, a
<1>3. /\ e.hears = a.hears /\ e.talks = a.talks /\ e.targets = a.targets /\ e.order = a.order
      /\ e.users = a.users /\ e.confs = a.confs /\ e.feeds = a.feeds
      /\ e.members = {m \in a.members : m[1] # p}
      /\ e.pfeeds = {m \in a.pfeeds : m[1] # p}
      /\ e.primary = IF p \in a.primary THEN {x} ELSE a.primary
  BY <1>1, <1>2 DEF D!Databases
<1>4. Without(d, e, gone) /\ e.confs = d.confs /\ (p \notin d.primary => e.primary = d.primary) /\ e.users = d.users
  BY <1>2, <1>3 DEF Same, Cut, Without
<1> QED BY <1>4 DEF gone, OfProduction

(* A conference is deleted: all rows on it go.                             *)
LEMMA ConferenceGone ==
  ASSUME NEW d \in D!Databases, NEW x, NEW e, e = D!DeleteConference(d, x)
  PROVE  /\ Without(d, e, OnAny(x))
         /\ e.confs = d.confs \ {x} /\ e.primary = d.primary /\ e.users = d.users
<1> DEFINE gone == {r \in D!Rows : r[3] = x}
           a == D!Purge(d, gone)
<1>1. e = [a EXCEPT !.pconfs = {m \in a.pconfs : m[2] # x}, !.confs = a.confs \ {x}]
  BY DEF D!DeleteConference
<1>2. a \in D!Databases /\ Same(d, a) /\ Cut(d, a, gone)
  BY PurgeTables
<1> HIDE DEF gone, a
<1>3. /\ e.hears = a.hears /\ e.talks = a.talks /\ e.targets = a.targets /\ e.order = a.order
      /\ e.users = a.users /\ e.confs = a.confs \ {x} /\ e.feeds = a.feeds
      /\ e.members = a.members
      /\ e.pfeeds = a.pfeeds
      /\ e.primary = a.primary
  BY <1>1, <1>2 DEF D!Databases
<1>4. Without(d, e, gone) /\ e.confs = d.confs \ {x} /\ e.primary = d.primary /\ e.users = d.users
  BY <1>2, <1>3 DEF Same, Cut, Without
<1> QED BY <1>4 DEF gone, OnAny

(* A feed is deleted: all rows on it go.                                   *)
LEMMA FeedGone ==
  ASSUME NEW d \in D!Databases, NEW x, NEW e, e = D!DeleteFeed(d, x)
  PROVE  /\ Without(d, e, OnAny(x))
         /\ e.confs = d.confs /\ e.primary = d.primary /\ e.users = d.users
<1> DEFINE gone == {r \in D!Rows : r[3] = x}
           a == D!Purge(d, gone)
<1>1. e = [a EXCEPT !.pfeeds = {m \in a.pfeeds : m[2] # x}, !.feeds = a.feeds \ {x}]
  BY DEF D!DeleteFeed
<1>2. a \in D!Databases /\ Same(d, a) /\ Cut(d, a, gone)
  BY PurgeTables
<1> HIDE DEF gone, a
<1>3. /\ e.hears = a.hears /\ e.talks = a.talks /\ e.targets = a.targets /\ e.order = a.order
      /\ e.users = a.users /\ e.confs = a.confs /\ e.feeds = a.feeds \ {x}
      /\ e.members = a.members
      /\ e.pfeeds = {m \in a.pfeeds : m[2] # x}
      /\ e.primary = a.primary
  BY <1>1, <1>2 DEF D!Databases
<1>4. Without(d, e, gone) /\ e.confs = d.confs /\ e.primary = d.primary /\ e.users = d.users
  BY <1>2, <1>3 DEF Same, Cut, Without
<1> QED BY <1>4 DEF gone, OnAny

(* A user is deleted: the primary production stays.                        *)
LEMMA UserGone ==
  ASSUME NEW d \in D!Databases, NEW x, NEW e, e = D!DeleteUser(d, x)
  PROVE  e.primary = d.primary /\ e.users \subseteq d.users
<1> DEFINE gone == {r \in D!Rows : x \in {r[2], r[3]}}
           a == D!Purge(d, gone)
<1>1. e = [a EXCEPT !.members = {m \in a.members : m[2] # x}, !.users = a.users \ {x}]
  BY DEF D!DeleteUser
<1>2. a \in D!Databases /\ Same(d, a) /\ Cut(d, a, gone)
  BY PurgeTables
<1> HIDE DEF gone, a
<1>3. /\ e.hears = a.hears /\ e.talks = a.talks /\ e.targets = a.targets /\ e.order = a.order
      /\ e.users = a.users \ {x} /\ e.confs = a.confs /\ e.feeds = a.feeds
      /\ e.members = {m \in a.members : m[2] # x}
      /\ e.pfeeds = a.pfeeds
      /\ e.primary = a.primary
  BY <1>1, <1>2 DEF D!Databases
<1> QED BY <1>2, <1>3 DEF Same

(***************************************************************************)
(* The requests and the pages.                                             *)
(***************************************************************************)
PagesIn == peers \in [Users -> D!Pages] /\ \A u \in Users : peers[u].on /\ ~imported => InStep(u)

\* A request of an administrator or a user, and the database it leaves.
Request == /\ PInv /\ D!DirectoryAssumption /\ db' \in D!Databases /\ DirSound(db')
           /\ issued \subseteq issued' /\ multiple' = multiple /\ imported' = imported

(* What the lemmas below start from.                                       *)
LEMMA DirGiven ==
  ASSUME Request
  PROVE  /\ db \in D!Databases /\ DirSound(db) /\ peers \in [Users -> D!Pages] /\ KindsApart
         /\ Confs \cap {"reset", "targets", "any"} = {} /\ "targets" \in Notice /\ "any" \in Notice
         /\ Confs \subseteq Notice /\ db.users \subseteq Users /\ db.prods \subseteq Productions
         /\ db.confs \subseteq Confs /\ db.feeds \subseteq Feeds /\ db.members \subseteq Productions \X Users
         /\ db'.members \subseteq Productions \X Users /\ db'.confs \subseteq Confs
<1>1. db \in D!Databases /\ DirSound(db) /\ peers \in [Users -> D!Pages]
  BY DEF Request, PInv, DirIInv, D!TypeOK
<1>2. KindsApart /\ Confs \cap {"reset", "targets", "any"} = {}
  BY DEF Request, D!DirectoryAssumption, KindsApart
<1>3. db' \in D!Databases
  BY DEF Request
<1> QED BY <1>1, <1>2, <1>3, ByTables DEF Notice

(* The primary production is the same where the table is.                  *)
LEMMA PrimaryStays ==
  ASSUME NEW d, NEW e, DirSound(d), DirSound(e), e.primary = d.primary
  PROVE  D!Primary(e) = D!Primary(d)
BY PrimaryOnly DEF DirSound

(* SamePage and Moved hold on when there are further notices.              *)
LEMMA Further ==
  ASSUME NEW ps, NEW qs, NEW rs, NEW u, SamePage(qs, rs, u)
  PROVE  /\ SamePage(ps, qs, u) => SamePage(ps, rs, u)
         /\ \A d : Moved(qs, d, u) => Moved(rs, d, u)
BY DEF SamePage, Moved

(* A page may stay when its user's rows do.                                *)
LEMMA StaysMore ==
  ASSUME Request, NEW u \in Users, ~imported, peers[u].on, SamePage(peers, peers', u),
         db'.primary = db.primary, \A q \in Productions : More(db, db', q, u),
         \A q : <<q, u>> \in db'.members => <<q, u>> \in db.members
  PROVE  InStep(u)'
<1>1. D!Primary(db') = D!Primary(db)
  BY DirGiven, PrimaryStays DEF Request
<1>2. ASSUME Settled(u)'
      PROVE  <<peers[u].prod, u>> \in db.members /\ Shrunk(db, db', peers[u].prod, u)
  <2>1. <<peers[u].prod, u>> \in db.members
    BY <1>2 DEF Settled, SamePage
  <2>2. peers[u].prod \in Productions
    BY <2>1, DirGiven
  <2>3. db \in D!Databases /\ DirSound(db) /\ KindsApart /\ db' \in D!Databases
    BY DirGiven DEF Request
  <2> QED BY <2>1, <2>2, <2>3, MoreShrinks
<1> QED BY <1>1, <1>2, Stays DEF Request

\* No conference in the list of the page of u is gone in e.
Spared(e, gone, u) ==
  \A c \in Confs : <<peers[u].prod, u, c>> \in db.hears => <<peers[u].prod, u, c>> \notin gone /\ c \in e.confs

(* A page may stay when its list loses no conference.                      *)
LEMMA StaysLess ==
  ASSUME Request, NEW u \in Users, ~imported, peers[u].on, SamePage(peers, peers', u), NEW gone,
         ~multiple /\ peers[u].prod = D!Primary(db) => D!Primary(db') = D!Primary(db), Without(db, db', gone),
         Settled(u) /\ Settled(u)' => Spared(db', gone, u)
  PROVE  InStep(u)'
<1>1. ASSUME Settled(u)'
      PROVE  <<peers[u].prod, u>> \in db.members /\ Shrunk(db, db', peers[u].prod, u)
  <2>1. <<peers[u].prod, u>> \in db.members
    BY <1>1 DEF Settled, SamePage, Without
  <2>2. peers[u].prod \in Productions
    BY <2>1, DirGiven
  <2>3. Settled(u)
    BY <1>1, <2>1 DEF Settled, SamePage
  <2>4. Less(db, db', gone, peers[u].prod, u)
    BY <1>1, <2>3 DEF Less, Without, Spared
  <2> QED BY <2>1, <2>2, <2>4, DirGiven, LessShrinks
<1> QED BY <1>1, Stays DEF Request

(* A page that need not fetch its list shows all conferences of its user.  *)
LEMMA Shown ==
  ASSUME Request, NEW u \in Users, ~imported, peers[u].on, Settled(u), NEW c \in Confs,
         <<peers[u].prod, u, c>> \in db.hears
  PROVE  c \in peers[u].list.shown /\ c \in db.confs
<1>1. Follows(db, peers[u].prod, u, peers[u].list)
  BY DEF Request, PInv, InStep
<1>2. peers[u].prod \in Productions
  BY DirGiven DEF Settled
<1>3. <<peers[u].prod, c>> \in db.pconfs
  BY <1>2, DirGiven DEF DirSound, Buttons
<1>4. c \in db.confs
  BY <1>3, DirGiven DEF DirSound, Contents
<1> QED BY <1>1, <1>4 DEF Follows, D!Visible

(* A notice about a conference that is gone spares the others' lists.      *)
LEMMA ToldOfConference ==
  ASSUME Request, NEW u \in Users, ~imported, peers[u].on, SamePage(peers, peers', u), NEW gone, NEW c \in Confs,
         db'.primary = db.primary, Without(db, db', gone), c \in peers'[u].notices,
         \A x \in Confs : x # c => <<peers[u].prod, u, x>> \notin gone,
         db.confs \ {c} \subseteq db'.confs
  PROVE  InStep(u)'
<1>1. ASSUME Settled(u), Settled(u)' PROVE Spared(db', gone, u)
  <2>1. c \notin peers[u].list.shown
    BY <1>1 DEF Settled, SamePage
  <2>2. \A x \in Confs : <<peers[u].prod, u, x>> \in db.hears => x # c /\ x \in db.confs
    BY <1>1, <2>1, Shown
  <2> QED BY <2>2 DEF Spared
<1>2. D!Primary(db') = D!Primary(db)
  BY DirGiven, PrimaryStays DEF Request
<1> QED BY <1>1, <1>2, StaysLess

(* A user joins or leaves a production.                                    *)
LEMMA MembersKeep == ASSUME Request, D!EditMembers PROVE PagesIn'
<1>1. PICK p \in db.prods, w \in db.users :
        \/ db' = D!SetProductionUser(db, p, w) /\ peers' = D!TellTargets(peers, w)
        \/ /\ db' = D!RemoveProductionUser(db, p, w)
           /\ peers' = D!TellTargets(D!ResetPeers(peers, db', p, {w}), w)
  BY DEF D!EditMembers, D!Change
<1>2. p \in Productions /\ w \in Users
  BY DirGiven
<1>3. CASE db' = D!SetProductionUser(db, p, w) /\ peers' = D!TellTargets(peers, w)
  <2>1. /\ peers' \in [Users -> D!Pages]
        /\ \A u \in Users : /\ SamePage(peers, peers', u)
                            /\ peers[u].on /\ u \in {w} => "targets" \in peers'[u].notices
    BY <1>3, DirGiven, Telling DEF D!TellTargets
  <2>2. ASSUME NEW u \in Users, peers'[u].on, ~imported' PROVE InStep(u)'
    <3>1. /\ ~imported /\ peers[u].on /\ SamePage(peers, peers', u)
          /\ issued \subseteq issued' /\ multiple' = multiple /\ PInv
      BY <2>1, <2>2 DEF SamePage, Request
    <3>2. /\ db'.primary = db.primary /\ db'.members \subseteq db.members \cup {<<p, w>>}
          /\ \A q \in Productions : More(db, db', q, u)
      BY <1>2, <1>3, DirGiven, JoinsMore
    <3>3. CASE u = w
      <4>1. D!Primary(db') = D!Primary(db)
        BY <3>2, DirGiven, PrimaryStays DEF Request
      <4>2. "targets" \in peers'[u].notices
        BY <2>1, <3>1, <3>3
      <4> QED BY <3>1, <4>1, <4>2, DirGiven, IsTold
    <3>4. CASE u # w
      <4>1. \A q : <<q, u>> \in db'.members => <<q, u>> \in db.members
        BY <3>2, <3>4
      <4> QED BY <3>1, <3>2, <4>1, StaysMore
    <3> QED BY <3>3, <3>4
  <2> QED BY <2>1, <2>2 DEF PagesIn
<1>4. CASE db' = D!RemoveProductionUser(db, p, w) /\ peers' = D!TellTargets(D!ResetPeers(peers, db', p, {w}), w)
  <2> DEFINE qs == D!ResetPeers(peers, db', p, {w})
             gone == OfMember(p, w)
  <2>1. /\ qs \in [Users -> D!Pages] /\ \A u \in Users : qs[u].on = peers[u].on
        /\ \A u \in Users : IF peers[u].on /\ u \in {w} /\ peers[u].prod = p
                            THEN Moved(qs, db', u) ELSE SamePage(peers, qs, u)
    <3>1. db' \in D!Databases
      BY DEF Request
    <3> QED BY <3>1, DirGiven, Resetting
  <2>2. Without(db, db', gone) /\ db'.confs = db.confs /\ db'.primary = db.primary
    BY <1>4, DirGiven, UserRemoved
  <2>3. peers' = D!Tell(qs, {w}, "targets")
    BY <1>4 DEF D!TellTargets
  <2> HIDE DEF qs
  <2>4. /\ peers' \in [Users -> D!Pages]
        /\ \A u \in Users : /\ SamePage(qs, peers', u)
                            /\ qs[u].on /\ u \in {w} => "targets" \in peers'[u].notices
    BY <2>1, <2>3, DirGiven, Telling
  <2>5. D!Primary(db') = D!Primary(db)
    BY <2>2, DirGiven, PrimaryStays DEF Request
  <2>6. ASSUME NEW u \in Users, peers'[u].on, ~imported' PROVE InStep(u)'
    <3>1. /\ ~imported /\ peers[u].on
          /\ issued \subseteq issued' /\ multiple' = multiple /\ PInv
      BY <2>1, <2>4, <2>6 DEF SamePage, Request
    <3>2. CASE u = w /\ peers[u].prod = p
      <4>1. Moved(qs, db', u)
        BY <2>1, <3>1, <3>2
      <4>2. Moved(peers', db', u)
        BY <2>4, <4>1, Further
      <4> QED BY <3>1, <4>2, DirGiven, IsMoved
    <3>3. CASE u = w /\ peers[u].prod # p
      <4>1. SamePage(peers, qs, u)
        BY <2>1, <3>3
      <4>2. SamePage(peers, peers', u)
        BY <2>4, <4>1, Further
      <4>3. "targets" \in peers'[u].notices
        BY <2>1, <2>4, <3>1, <3>3
      <4> QED BY <2>5, <3>1, <4>2, <4>3, DirGiven, IsTold
    <3>4. CASE u # w
      <4>1. SamePage(peers, qs, u)
        BY <2>1, <3>4
      <4>2. SamePage(peers, peers', u)
        BY <2>4, <4>1, Further
      <4>3. \A c \in Confs : <<peers[u].prod, u, c>> \notin gone
        <5>1. \A c \in Confs : c # w
          BY <1>2, DirGiven DEF KindsApart
        <5> QED BY <3>4, <5>1 DEF OfMember
      <4>4. Settled(u) => Spared(db', gone, u)
        <5> HIDE DEF gone
        <5> QED BY <2>2, <3>1, <4>3, Shown DEF Spared
      <4> HIDE DEF gone
      <4> QED BY <2>2, <2>5, <3>1, <4>2, <4>4, StaysLess
    <3> QED BY <3>2, <3>3, <3>4
  <2> QED BY <2>4, <2>6 DEF PagesIn
<1> QED BY <1>1, <1>3, <1>4

(* A request about the buttons of one user, who is told, and nobody else's.*)
LEMMA OneUserKeeps ==
  ASSUME Request, NEW w \in Users, peers' \in [Users -> D!Pages],
         db'.primary = db.primary, db'.members = db.members,
         \A u \in Users : SamePage(peers, peers', u),
         peers[w].on => "targets" \in peers'[w].notices,
         \A u \in Users, q \in Productions : u # w => More(db, db', q, u)
  PROVE  PagesIn'
<1>1. ASSUME NEW u \in Users, peers'[u].on, ~imported' PROVE InStep(u)'
  <2>1. /\ ~imported /\ peers[u].on /\ SamePage(peers, peers', u)
        /\ issued \subseteq issued' /\ multiple' = multiple /\ PInv
    BY <1>1 DEF SamePage, Request
  <2>2. D!Primary(db') = D!Primary(db)
    BY DirGiven, PrimaryStays DEF Request
  <2>3. CASE u = w
    BY <2>1, <2>2, <2>3, DirGiven, IsTold
  <2>4. CASE u # w
    BY <2>1, <2>4, StaysMore
  <2> QED BY <2>3, <2>4
<1> QED BY <1>1 DEF PagesIn

(* A button is taken from a user: of the others' lists nothing is missing. *)
LEMMA TargetTaken ==
  ASSUME NEW d \in D!Databases, NEW p \in Productions, NEW w \in Users, NEW x, NEW e, e = D!RemoveTarget(d, p, w, x),
         NEW q \in Productions, NEW v \in Users
  PROVE  /\ v # w => More(d, e, q, v)
         /\ e.primary = d.primary /\ e.members = d.members /\ e.users = d.users
<1> DEFINE gone == {<<p, w, x>>}
           Q == {y \in D!Targets : <<q, v, y>> \notin gone}
<1>1. Same(d, e) /\ Cut(d, e, gone)
  BY PurgeTables DEF D!RemoveTarget
<1>2. ASSUME v # w PROVE More(d, e, q, v)
  <2>1. \A y : <<q, v, y>> \notin gone
    BY <1>2
  <2>2. Q = D!Targets
    BY <2>1
  <2>3. e.order[<<q, v>>] = D!Kept(d.order[<<q, v>>], Q)
    BY <1>1 DEF Cut
  <2> HIDE DEF gone, Q
  <2>4. D!Kept(d.order[<<q, v>>], D!Targets) = d.order[<<q, v>>]
    <3>1. d.order[<<q, v>>] \in Seq(D!Targets)
      BY ByTables
    <3> QED BY <3>1, KeptAll
  <2>5. e.order[<<q, v>>] = d.order[<<q, v>>]
    BY <2>2, <2>3, <2>4
  <2> QED BY <1>1, <2>1, <2>5 DEF Same, Cut, More
<1> QED BY <1>1, <1>2 DEF Same

(* A conference or a feed joins or leaves a production.                    *)
LEMMA ContentsKeep == ASSUME Request, D!EditContents PROVE PagesIn'
<1>1. PICK p \in db.prods :
        \/ \E c \in db.confs : \/ db' = D!SetProductionConference(db, p, c) /\ peers' = peers
                               \/ db' = D!RemoveProductionConference(db, p, c) /\ peers' = D!TellMembers(peers, c, {})
        \/ \E f \in db.feeds : \/ db' = D!SetProductionFeed(db, p, f) /\ peers' = peers
                               \/ db' = D!RemoveProductionFeed(db, p, f) /\ peers' = peers
  BY DEF D!EditContents, D!Change
<1>2. CASE peers' = peers
  <2>1. ASSUME NEW u \in Users, peers[u].on, ~imported PROVE InStep(u)'
    <3>1. SamePage(peers, peers', u)
      BY <1>2 DEF SamePage
    <3>2. CASE \E x : db' = D!SetProductionConference(db, p, x) \/ db' = D!SetProductionFeed(db, p, x)
      <4>1. PICK x : db' = D!SetProductionConference(db, p, x) \/ db' = D!SetProductionFeed(db, p, x)
        BY <3>2
      <4>2. /\ db \in D!Databases
            /\ \/ db' = D!SetProductionUser(db, p, x) \/ db' = D!SetProductionConference(db, p, x)
               \/ db' = D!SetProductionFeed(db, p, x)
        BY <4>1, DirGiven
      <4>3. db'.primary = db.primary /\ \A q \in Productions : More(db, db', q, u)
        <5>1. ASSUME NEW q \in Productions PROVE More(db, db', q, u) /\ db'.primary = db.primary
          BY <4>2, JoinsMore
        <5>2. D!Primary(db) \in Productions
          BY DirGiven, PrimaryOnly DEF DirSound
        <5> QED BY <5>1, <5>2
      <4>4. db'.members = db.members
        BY <4>1, DirGiven DEF D!SetProductionConference, D!SetProductionFeed, D!Databases
      <4> QED BY <2>1, <3>1, <4>3, <4>4, StaysMore
    <3>3. CASE \E f \in db.feeds : db' = D!RemoveProductionFeed(db, p, f)
      <4>1. PICK f \in db.feeds : db' = D!RemoveProductionFeed(db, p, f)
        BY <3>3
      <4>2. Without(db, db', OnTarget(p, f)) /\ db'.confs = db.confs /\ db'.primary = db.primary
        BY <4>1, DirGiven, FeedRemoved
      <4>3. \A c \in Confs : <<peers[u].prod, u, c>> \notin OnTarget(p, f)
        <5>1. \A c \in Confs : c # f
          BY <4>1, DirGiven DEF KindsApart
        <5> QED BY <5>1 DEF OnTarget
      <4>4. Settled(u) => Spared(db', OnTarget(p, f), u)
        BY <2>1, <4>2, <4>3, Shown DEF Spared
      <4>5. D!Primary(db') = D!Primary(db)
        BY <4>2, DirGiven, PrimaryStays DEF Request
      <4> QED BY <2>1, <3>1, <4>2, <4>4, <4>5, StaysLess
    <3>4. CASE \E c \in db.confs : db' = D!RemoveProductionConference(db, p, c) /\ peers' = D!TellMembers(peers, c, {})
      <4>1. PICK c \in db.confs : db' = D!RemoveProductionConference(db, p, c) /\ peers' = D!TellMembers(peers, c, {})
        BY <3>4
      <4>2. c \in Confs
        BY DirGiven
      <4>3. c \in peers'[u].notices
        BY <2>1, <4>1, <4>2, DirGiven, Telling DEF D!TellMembers
      <4>4. Without(db, db', OnTarget(p, c)) /\ db'.confs = db.confs /\ db'.primary = db.primary
        BY <4>1, DirGiven, ConferenceRemoved
      <4>5. \A x \in Confs : x # c => <<peers[u].prod, u, x>> \notin OnTarget(p, c)
        BY DEF OnTarget
      <4> QED BY <2>1, <3>1, <4>2, <4>3, <4>4, <4>5, ToldOfConference
    <3> QED BY <1>1, <3>2, <3>3, <3>4
  <2>2. peers' \in [Users -> D!Pages] /\ peers' = peers /\ imported' = imported
    BY <1>2, DirGiven DEF Request
  <2> QED BY <2>1, <2>2 DEF PagesIn
<1>3. CASE \E c \in db.confs : db' = D!RemoveProductionConference(db, p, c) /\ peers' = D!TellMembers(peers, c, {})
  <2>1. PICK c \in db.confs : db' = D!RemoveProductionConference(db, p, c) /\ peers' = D!Tell(peers, Users, c)
    BY <1>3 DEF D!TellMembers
  <2>2. c \in Confs /\ c \in Notice
    BY DirGiven
  <2>3. /\ peers' \in [Users -> D!Pages]
        /\ \A u \in Users : /\ SamePage(peers, peers', u)
                            /\ peers[u].on /\ u \in Users => c \in peers'[u].notices
    BY <2>1, <2>2, DirGiven, Telling
  <2>4. Without(db, db', OnTarget(p, c)) /\ db'.confs = db.confs /\ db'.primary = db.primary
    BY <2>1, DirGiven, ConferenceRemoved
  <2>5. ASSUME NEW u \in Users, peers'[u].on, ~imported' PROVE InStep(u)'
    <3>1. ~imported /\ peers[u].on /\ SamePage(peers, peers', u) /\ c \in peers'[u].notices
      BY <2>3, <2>5 DEF SamePage, Request
    <3>2. \A x \in Confs : x # c => <<peers[u].prod, u, x>> \notin OnTarget(p, c)
      BY DEF OnTarget
    <3> QED BY <2>2, <2>4, <3>1, <3>2, ToldOfConference
  <2> QED BY <2>3, <2>5 DEF PagesIn
<1> QED BY <1>1, <1>2, <1>3

(* A user's membership of a conference is set or taken away.               *)
LEMMA MembershipsKeep == ASSUME Request, D!EditMemberships PROVE PagesIn'
<1>1. PICK m \in db.members, c \in db.confs :
        /\ \/ db' = D!SetMembership(db, m[1], m[2], c) \/ db' = D!SetListenOnly(db, m[1], m[2], c)
           \/ db' = D!RemoveTarget(db, m[1], m[2], c)
        /\ peers' = D!TellMembership(peers, m[2], c)
  BY DEF D!EditMemberships, D!Change
<1>2. m[1] \in Productions /\ m[2] \in Users /\ c \in Confs /\ c \in Notice /\ "targets" \in Notice
  BY DirGiven
<1> DEFINE w == m[2]
           qs == D!Tell(peers, {w}, "targets")
<1>3. /\ qs \in [Users -> D!Pages]
      /\ \A u \in Users : SamePage(peers, qs, u) /\ (peers[u].on /\ u \in {w} => "targets" \in qs[u].notices)
  BY <1>2, DirGiven, Telling
<1>4. peers' = D!Tell(qs, Users, c)
  BY <1>1 DEF D!TellMembership, D!TellMembers, D!TellTargets
<1> HIDE DEF qs
<1>5. peers' \in [Users -> D!Pages] /\ \A u \in Users : SamePage(qs, peers', u)
  BY <1>2, <1>3, <1>4, Telling
<1>6. \A u \in Users : SamePage(peers, peers', u)
  BY <1>3, <1>5, Further
<1>7. peers[w].on => "targets" \in peers'[w].notices
  <2>1. w \in Users
    BY <1>2
  <2> QED BY <1>3, <1>5, <2>1 DEF SamePage
<1>8. /\ db'.primary = db.primary /\ db'.members = db.members
      /\ \A u \in Users, q \in Productions : u # w => More(db, db', q, u)
  <2> DEFINE p == m[1]
  <2>1. p \in Productions /\ w \in Users /\ db \in D!Databases
    BY <1>2, DirGiven
  <2>2. \/ db' = D!SetMembership(db, p, w, c) \/ db' = D!SetListenOnly(db, p, w, c)
        \/ db' = D!RemoveTarget(db, p, w, c)
    BY <1>1
  <2> HIDE DEF p, w
  <2>3. CASE db' = D!RemoveTarget(db, p, w, c)
    BY <2>1, <2>3, TargetTaken
  <2>4. CASE db' = D!SetMembership(db, p, w, c) \/ db' = D!SetListenOnly(db, p, w, c)
    <3>1. ButtonSet(db, db', p, w, c, <<>>)
      BY <1>2, <2>4 DEF ButtonSet
    <3> QED BY <2>1, <3>1, OthersMore
  <2> QED BY <2>2, <2>3, <2>4
<1>9. w \in Users
  BY <1>2
<1> HIDE DEF w
<1> QED BY <1>5, <1>6, <1>7, <1>8, <1>9, OneUserKeeps

(* The user w is told that its buttons are others now.                     *)
LEMMA Rearranged ==
  ASSUME Request, NEW w \in Users, peers' = D!TellTargets(peers, w), NEW p \in Productions, NEW x, NEW items,
         db' = D!AddTarget(db, p, w, x) \/ db' = D!RemoveTarget(db, p, w, x) \/ db' = D!Reorder(db, p, w, items)
  PROVE  PagesIn'
<1>1. /\ peers' \in [Users -> D!Pages]
      /\ \A u \in Users : SamePage(peers, peers', u) /\ (peers[u].on /\ u \in {w} => "targets" \in peers'[u].notices)
  BY DirGiven, Telling DEF D!TellTargets
<1>2. /\ db'.primary = db.primary /\ db'.members = db.members
      /\ \A u \in Users, q \in Productions : u # w => More(db, db', q, u)
  <2>1. CASE db' = D!RemoveTarget(db, p, w, x)
    BY <2>1, DirGiven, TargetTaken
  <2>2. CASE db' = D!AddTarget(db, p, w, x) \/ db' = D!Reorder(db, p, w, items)
    <3>1. db \in D!Databases /\ D!Primary(db) \in Productions
      BY DirGiven, PrimaryOnly DEF DirSound
    <3>2. ButtonSet(db, db', p, w, x, items)
      BY <2>2 DEF ButtonSet
    <3>3. ASSUME NEW q \in Productions, NEW u \in Users
          PROVE  /\ u # w => More(db, db', q, u)
                 /\ db'.primary = db.primary /\ db'.users = db.users /\ db'.members = db.members
      BY <3>1, <3>2, OthersMore
    <3> QED BY <3>1, <3>3
  <2> QED BY <2>1, <2>2
<1> QED BY <1>1, <1>2, OneUserKeeps

(* Buttons are added, removed or arranged.                                 *)
LEMMA ButtonsKeep == ASSUME Request, D!EditTargets \/ D!ReorderByAdmin \/ D!ReorderByUser PROVE PagesIn'
<1>1. CASE D!EditTargets
  <2>1. PICK m \in db.members, x \in Users \cup Feeds :
          /\ db' = D!AddTarget(db, m[1], m[2], x) \/ db' = D!RemoveTarget(db, m[1], m[2], x)
          /\ peers' = D!TellTargets(peers, m[2])
    BY <1>1 DEF D!EditTargets, D!Change
  <2>2. m[1] \in Productions /\ m[2] \in Users
    BY DirGiven
  <2> QED BY <2>1, <2>2, Rearranged
<1>2. CASE D!ReorderByAdmin
  <2>1. PICK m \in db.members : \E items : /\ db' = D!Reorder(db, m[1], m[2], items)
                                           /\ peers' = D!TellTargets(peers, m[2])
    BY <1>2 DEF D!ReorderByAdmin, D!Change
  <2>2. m[1] \in Productions /\ m[2] \in Users
    BY DirGiven
  <2> QED BY <2>1, <2>2, Rearranged
<1>3. CASE D!ReorderByUser
  <2>1. PICK u \in db.users :
          /\ <<D!ScopeOf(u), u>> \in db.members
          /\ \E items : db' = D!Reorder(db, D!ScopeOf(u), u, items) /\ peers' = D!TellTargets(peers, u)
    BY <1>3 DEF D!ReorderByUser, D!Change
  <2> DEFINE p == D!ScopeOf(u)
  <2>2. p \in Productions /\ u \in Users
    BY <2>1, DirGiven
  <2>3. \E items : db' = D!Reorder(db, p, u, items) /\ peers' = D!TellTargets(peers, u)
    BY <2>1
  <2> HIDE DEF p
  <2> QED BY <2>2, <2>3, Rearranged
<1> QED BY <1>1, <1>2, <1>3

(* A production, a user, a conference or a feed is deleted.                *)
LEMMA DeletionKeeps == ASSUME Request, D!DeleteEntity PROVE PagesIn'
<1>1. \/ \E p \in db.prods, heir \in db.prods : /\ db' = D!DeleteProduction(db, p, heir)
                                                /\ peers' = D!ResetPeers(peers, db', p, Users)
      \/ \E w \in db.users : db' = D!DeleteUser(db, w) /\ peers' = D!TellMembers(peers, "any", {})
      \/ \E c \in db.confs : db' = D!DeleteConference(db, c) /\ peers' = D!TellMembers(peers, c, {})
      \/ \E f \in db.feeds : db' = D!DeleteFeed(db, f) /\ peers' = peers
  BY DEF D!DeleteEntity, D!Change
<1>2. CASE \E p \in db.prods, heir \in db.prods : /\ db' = D!DeleteProduction(db, p, heir)
                                                  /\ peers' = D!ResetPeers(peers, db', p, Users)
  <2>1. PICK p \in db.prods, heir \in db.prods : /\ db' = D!DeleteProduction(db, p, heir)
                                                 /\ peers' = D!ResetPeers(peers, db', p, Users)
    BY <1>2
  <2>2. /\ peers' \in [Users -> D!Pages] /\ \A u \in Users : peers'[u].on = peers[u].on
        /\ \A u \in Users : IF peers[u].on /\ u \in Users /\ peers[u].prod = p
                            THEN Moved(peers', db', u) ELSE SamePage(peers, peers', u)
    <3> DEFINE qs == D!ResetPeers(peers, db', p, Users)
    <3>1. db' \in D!Databases
      BY DEF Request
    <3>2. /\ qs \in [Users -> D!Pages] /\ \A u \in Users : qs[u].on = peers[u].on
          /\ \A u \in Users : IF peers[u].on /\ u \in Users /\ peers[u].prod = p
                              THEN Moved(qs, db', u) ELSE SamePage(peers, qs, u)
      BY <3>1, DirGiven, Resetting
    <3>3. peers' = qs
      BY <2>1
    <3> HIDE DEF qs
    <3> QED BY <3>2, <3>3
  <2>3. Without(db, db', OfProduction(p)) /\ db'.confs = db.confs /\ (p \notin db.primary => db'.primary = db.primary)
    BY <2>1, DirGiven, ProductionGone
  <2>4. ASSUME NEW u \in Users, peers'[u].on, ~imported' PROVE InStep(u)'
    <3>1. ~imported /\ peers[u].on /\ issued \subseteq issued' /\ multiple' = multiple /\ PInv
      BY <2>2, <2>4 DEF Request
    <3>2. CASE peers[u].prod = p
      <4>1. Moved(peers', db', u)
        BY <2>2, <3>1, <3>2
      <4> QED BY <3>1, <4>1, DirGiven, IsMoved
    <3>3. CASE peers[u].prod # p
      <4>1. SamePage(peers, peers', u)
        BY <2>2, <3>3
      <4>2. peers[u].prod = D!Primary(db) => D!Primary(db') = D!Primary(db)
        <5>1. db.primary = {D!Primary(db)}
          BY DirGiven, PrimaryOnly DEF DirSound
        <5> QED BY <2>3, <3>3, <5>1, DirGiven, PrimaryStays DEF Request
      <4>3. \A c \in Confs : <<peers[u].prod, u, c>> \notin OfProduction(p)
        BY <3>3 DEF OfProduction
      <4>4. Settled(u) => Spared(db', OfProduction(p), u)
        BY <2>3, <3>1, <4>3, Shown DEF Spared
      <4> QED BY <2>3, <3>1, <4>1, <4>2, <4>4, StaysLess
    <3> QED BY <3>2, <3>3
  <2> QED BY <2>2, <2>4 DEF PagesIn
<1>3. CASE \E w \in db.users : db' = D!DeleteUser(db, w) /\ peers' = D!TellMembers(peers, "any", {})
  <2>1. PICK w \in db.users : db' = D!DeleteUser(db, w) /\ peers' = D!Tell(peers, Users, "any")
    BY <1>3 DEF D!TellMembers
  <2>2. /\ peers' \in [Users -> D!Pages]
        /\ \A u \in Users : SamePage(peers, peers', u) /\ (peers[u].on /\ u \in Users => "any" \in peers'[u].notices)
    BY <2>1, DirGiven, Telling
  <2>3. D!Primary(db') = D!Primary(db)
    BY <2>1, DirGiven, UserGone, PrimaryStays DEF Request
  <2>4. ASSUME NEW u \in Users, peers'[u].on, ~imported' PROVE InStep(u)'
    <3>1. /\ ~imported /\ peers[u].on /\ issued \subseteq issued' /\ multiple' = multiple /\ PInv
          /\ SamePage(peers, peers', u) /\ "any" \in peers'[u].notices
      BY <2>2, <2>4 DEF Request, SamePage
    <3> QED BY <2>3, <3>1, DirGiven, IsTold
  <2> QED BY <2>2, <2>4 DEF PagesIn
<1>4. CASE \E c \in db.confs : db' = D!DeleteConference(db, c) /\ peers' = D!TellMembers(peers, c, {})
  <2>1. PICK c \in db.confs : db' = D!DeleteConference(db, c) /\ peers' = D!Tell(peers, Users, c)
    BY <1>4 DEF D!TellMembers
  <2>2. c \in Confs /\ c \in Notice
    BY DirGiven
  <2>3. /\ peers' \in [Users -> D!Pages]
        /\ \A u \in Users : SamePage(peers, peers', u) /\ (peers[u].on /\ u \in Users => c \in peers'[u].notices)
    BY <2>1, <2>2, DirGiven, Telling
  <2>4. Without(db, db', OnAny(c)) /\ db'.confs = db.confs \ {c} /\ db'.primary = db.primary
    BY <2>1, DirGiven, ConferenceGone
  <2>5. ASSUME NEW u \in Users, peers'[u].on, ~imported' PROVE InStep(u)'
    <3>1. ~imported /\ peers[u].on /\ SamePage(peers, peers', u) /\ c \in peers'[u].notices
      BY <2>3, <2>5 DEF SamePage, Request
    <3>2. \A x \in Confs : x # c => <<peers[u].prod, u, x>> \notin OnAny(c)
      BY DEF OnAny
    <3> QED BY <2>2, <2>4, <3>1, <3>2, ToldOfConference
  <2> QED BY <2>3, <2>5 DEF PagesIn
<1>5. CASE \E f \in db.feeds : db' = D!DeleteFeed(db, f) /\ peers' = peers
  <2>1. PICK f \in db.feeds : db' = D!DeleteFeed(db, f) /\ peers' = peers
    BY <1>5
  <2>2. Without(db, db', OnAny(f)) /\ db'.confs = db.confs /\ db'.primary = db.primary
    BY <2>1, DirGiven, FeedGone
  <2>3. D!Primary(db') = D!Primary(db)
    BY <2>2, DirGiven, PrimaryStays DEF Request
  <2>4. ASSUME NEW u \in Users, peers'[u].on, ~imported' PROVE InStep(u)'
    <3>1. ~imported /\ peers[u].on /\ SamePage(peers, peers', u)
      BY <2>1, <2>4 DEF SamePage, Request
    <3>2. \A c \in Confs : <<peers[u].prod, u, c>> \notin OnAny(f)
      <4>1. \A c \in Confs : c # f
        BY <2>1, DirGiven DEF KindsApart
      <4> QED BY <4>1 DEF OnAny
    <3>3. Settled(u) => Spared(db', OnAny(f), u)
      BY <2>2, <3>1, <3>2, Shown DEF Spared
    <3> QED BY <2>2, <2>3, <3>1, <3>3, StaysLess
  <2> QED BY <2>1, <2>4, DirGiven DEF PagesIn
<1> QED BY <1>1, <1>2, <1>3, <1>4, <1>5

\* e is d with the entity x, and in the production p if one is in use.
Created(d, e, x, p) ==
  \/ e = WithEntity(d, x)
  \/ e = D!SetProductionUser(WithEntity(d, x), p, x)
  \/ e = D!SetProductionConference(WithEntity(d, x), p, x)
  \/ e = D!SetProductionFeed(WithEntity(d, x), p, x)

(* What a new entity changes.                                              *)
LEMMA CreatedMore ==
  ASSUME NEW d \in D!Databases, DirSound(d), NEW x, NEW e, NEW p, Created(d, e, x, p),
         NEW q \in Productions, NEW v \in Users
  PROVE  /\ More(d, e, q, v) /\ e.primary = d.primary
         /\ e.members \subseteq d.members \cup {<<p, x>>} /\ e.users \subseteq d.users \cup {x}
<1> DEFINE w == WithEntity(d, x)
<1>1. PICK n : n = w
  OBVIOUS
<1>2. n \in D!Databases
  BY <1>1, EntityAdded
<1>3. More(d, n, q, v) /\ n.members = d.members /\ n.primary = d.primary /\ n.users = d.users \cup ({x} \cap Users)
  BY <1>1, EntityMore
<1>4. \/ e = n \/ e = D!SetProductionUser(n, p, x) \/ e = D!SetProductionConference(n, p, x)
      \/ e = D!SetProductionFeed(n, p, x)
  BY <1>1 DEF Created
<1> HIDE DEF w
<1>5. CASE e = n
  BY <1>3, <1>5
<1>6. CASE e = D!SetProductionUser(n, p, x) \/ e = D!SetProductionConference(n, p, x) \/ e = D!SetProductionFeed(n, p, x)
  <2>1. More(n, e, q, v) /\ e.primary = n.primary /\ e.users = n.users /\ e.members \subseteq n.members \cup {<<p, x>>}
    BY <1>2, <1>6, JoinsMore
  <2>2. More(d, e, q, v)
    BY <1>3, <2>1 DEF More
  <2> QED BY <1>3, <2>1, <2>2
<1> QED BY <1>4, <1>5, <1>6

(* Something new is in no list, and nobody is on with an id not yet given. *)
LEMMA CreationKeeps == ASSUME Request, D!Create PROVE PagesIn' /\ db'.users \subseteq issued'
<1>1. PICK x \in D!Entities \ issued :
        Created(db, db', x, D!Primary(db)) /\ peers' = peers /\ issued' = issued \cup {x}
  BY DEF D!Create, D!Change, Created, WithEntity
<1>2. ASSUME NEW u \in Users
      PROVE  /\ \A q \in Productions : More(db, db', q, u)
             /\ db'.primary = db.primary
             /\ db'.members \subseteq db.members \cup {<<D!Primary(db), x>>} /\ db'.users \subseteq db.users \cup {x}
  <2>1. D!Primary(db) \in Productions
    BY DirGiven, PrimaryOnly DEF DirSound
  <2> QED BY <1>1, <2>1, DirGiven, CreatedMore
<1>3. ASSUME NEW u \in Users, peers'[u].on, ~imported' PROVE InStep(u)'
  <2>1. ~imported /\ peers[u].on /\ SamePage(peers, peers', u)
    BY <1>1, <1>3 DEF SamePage, Request
  <2>2. u # x
    BY <1>1, <2>1 DEF Request, PInv, InStep
  <2>3. \A q : <<q, u>> \in db'.members => <<q, u>> \in db.members
    BY <1>2, <2>2
  <2> QED BY <1>2, <2>1, <2>3, StaysMore
<1>4. db'.users \subseteq issued'
  <2>1. db.users \subseteq issued /\ (\A y \in db'.users : y \in Users)
    <3>1. db' \in D!Databases
      BY DEF Request
    <3> QED BY <3>1, ByTables DEF Request, PInv
  <2> QED BY <1>1, <1>2, <2>1
<1> QED BY <1>1, <1>3, <1>4, DirGiven DEF PagesIn

(* No other request makes users.                                           *)
LEMMA NoNewUsers ==
  ASSUME Request,
         D!EditMembers \/ D!EditContents \/ D!EditMemberships \/ D!EditTargets
           \/ D!ReorderByAdmin \/ D!ReorderByUser \/ D!DeleteEntity
  PROVE  db'.users \subseteq db.users
<1>0. db \in D!Databases /\ D!Primary(db) \in Productions
  BY DirGiven, PrimaryOnly DEF DirSound
<1>1. CASE D!EditMembers
  <2>1. PICK p \in db.prods, w \in db.users : db' = D!SetProductionUser(db, p, w) \/ db' = D!RemoveProductionUser(db, p, w)
    BY <1>1 DEF D!EditMembers, D!Change
  <2>2. w \in Users
    BY DirGiven
  <2> QED BY <1>0, <2>1, <2>2, JoinsMore, UserRemoved
<1>2. CASE D!EditContents
  <2>1. PICK p, x : \/ db' = D!SetProductionConference(db, p, x) \/ db' = D!SetProductionFeed(db, p, x)
                    \/ db' = D!RemoveProductionConference(db, p, x) \/ db' = D!RemoveProductionFeed(db, p, x)
    BY <1>2 DEF D!EditContents, D!Change
  <2>2. CASE db' = D!SetProductionConference(db, p, x)
    BY <1>0, <2>2 DEF D!SetProductionConference, D!Databases
  <2>3. CASE db' = D!SetProductionFeed(db, p, x)
    BY <1>0, <2>3 DEF D!SetProductionFeed, D!Databases
  <2> QED BY <1>0, <2>1, <2>2, <2>3, ConferenceRemoved, FeedRemoved
<1>3. CASE D!EditMemberships \/ D!EditTargets \/ D!ReorderByAdmin \/ D!ReorderByUser
  <2>1. PICK p \in Productions, w \in Users : \E x, items :
          ButtonSet(db, db', p, w, x, items) \/ db' = D!RemoveTarget(db, p, w, x)
    <3>1. CASE D!EditMemberships
      <4>1. PICK m \in db.members, c \in db.confs :
              \/ db' = D!SetMembership(db, m[1], m[2], c) \/ db' = D!SetListenOnly(db, m[1], m[2], c)
              \/ db' = D!RemoveTarget(db, m[1], m[2], c)
        BY <3>1 DEF D!EditMemberships, D!Change
      <4>2. m[1] \in Productions /\ m[2] \in Users /\ c \in Confs
        BY DirGiven
      <4> QED BY <4>1, <4>2 DEF ButtonSet
    <3>2. CASE D!EditTargets
      <4>1. PICK m \in db.members, x \in Users \cup Feeds :
              db' = D!AddTarget(db, m[1], m[2], x) \/ db' = D!RemoveTarget(db, m[1], m[2], x)
        BY <3>2 DEF D!EditTargets, D!Change
      <4>2. m[1] \in Productions /\ m[2] \in Users
        BY DirGiven
      <4> QED BY <4>1, <4>2 DEF ButtonSet
    <3>3. CASE D!ReorderByAdmin
      <4>1. PICK m \in db.members : \E items : db' = D!Reorder(db, m[1], m[2], items)
        BY <3>3 DEF D!ReorderByAdmin, D!Change
      <4>2. m[1] \in Productions /\ m[2] \in Users
        BY DirGiven
      <4> QED BY <4>1, <4>2 DEF ButtonSet
    <3>4. CASE D!ReorderByUser
      <4>1. PICK u \in db.users : /\ <<D!ScopeOf(u), u>> \in db.members
                                  /\ \E items : db' = D!Reorder(db, D!ScopeOf(u), u, items)
        BY <3>4 DEF D!ReorderByUser, D!Change
      <4>2. D!ScopeOf(u) \in Productions /\ u \in Users
        BY <4>1, DirGiven
      <4> QED BY <4>1, <4>2 DEF ButtonSet
    <3> QED BY <1>3, <3>1, <3>2, <3>3, <3>4
  <2>2. PICK x, items : ButtonSet(db, db', p, w, x, items) \/ db' = D!RemoveTarget(db, p, w, x)
    BY <2>1
  <2>3. CASE ButtonSet(db, db', p, w, x, items)
    BY <1>0, <2>3, OthersMore
  <2>4. CASE db' = D!RemoveTarget(db, p, w, x)
    BY <1>0, <2>4, TargetTaken
  <2> QED BY <2>2, <2>3, <2>4
<1>4. CASE D!DeleteEntity
  <2>1. PICK x, y : \/ db' = D!DeleteProduction(db, x, y) \/ db' = D!DeleteUser(db, x)
                    \/ db' = D!DeleteConference(db, x) \/ db' = D!DeleteFeed(db, x)
    BY <1>4 DEF D!DeleteEntity, D!Change
  <2> QED BY <1>0, <2>1, ProductionGone, UserGone, ConferenceGone, FeedGone
<1> QED BY <1>1, <1>2, <1>3, <1>4

\* A request that counts as an edit.
AnyRequest ==
  D!Create \/ D!EditMembers \/ D!EditContents \/ D!EditMemberships \/ D!EditTargets
    \/ D!ReorderByAdmin \/ D!ReorderByUser \/ D!DeleteEntity

(* Every request keeps the invariant.                                      *)
LEMMA RequestsKeep == ASSUME PInv, D!DirectoryAssumption, AnyRequest PROVE PInv'
<1>1. DirIInv'
  <2>1. DirIInv
    BY DEF PInv
  <2>2. [D!Next]_(D!vars)
    BY DEF AnyRequest, D!Next
  <2> QED BY <2>1, <2>2, DirNextKeeps
<1>2. /\ left.edits > 0 /\ left' = [left EXCEPT !.edits = @ - 1]
      /\ multiple' = multiple /\ imported' = imported /\ backup' = backup
      /\ issued' = issued \/ (D!Create /\ \E x \in D!Entities : issued' = issued \cup {x})
  BY DEF AnyRequest, D!Create, D!EditMembers, D!EditContents, D!EditMemberships, D!EditTargets, D!ReorderByAdmin,
         D!ReorderByUser, D!DeleteEntity, D!Change
<1>3. Request
  BY <1>1, <1>2 DEF Request, DirIInv
<1>4. PagesIn'
  BY <1>3, CreationKeeps, MembersKeep, ContentsKeep, MembershipsKeep, ButtonsKeep, DeletionKeeps DEF AnyRequest
<1>5. db'.users \subseteq issued'
  <2>1. CASE D!Create
    BY <1>3, <2>1, CreationKeeps
  <2>2. CASE ~D!Create
    <3>1. db'.users \subseteq db.users
      BY <1>3, <2>2, NoNewUsers DEF AnyRequest
    <3> QED BY <1>2, <3>1 DEF PInv
  <2> QED BY <2>1, <2>2
<1>6. left' \in [edits : Nat, imports : Nat]
  <2>1. left \in [edits : Nat, imports : Nat]
    BY DEF PInv, D!TypeOK
  <2> QED BY <1>2, <2>1
<1>7. D!TypeOK'
  BY <1>1, <1>2, <1>4, <1>6 DEF PInv, D!TypeOK, PagesIn, DirIInv
<1> QED BY <1>1, <1>2, <1>4, <1>5, <1>7 DEF PInv, PagesIn

(***************************************************************************)
(* The other steps.                                                        *)
(***************************************************************************)
\* What a step needs that leaves the database alone.
StillIn == /\ PInv /\ D!DirectoryAssumption /\ UNCHANGED <<db, issued, backup>>
           /\ DirIInv' /\ multiple' \in BOOLEAN /\ imported' \in BOOLEAN /\ left' \in [edits : Nat, imports : Nat]

(* Such a step keeps the invariant when it keeps the pages in step.        *)
LEMMA PagesOnly == ASSUME StillIn, PagesIn' PROVE PInv'
BY DEF StillIn, PagesIn, PInv, D!TypeOK, DirIInv

(* The production in use is one there is.                                  *)
LEMMA PrimaryIn == ASSUME DirIInv PROVE db \in D!Databases /\ D!Primary(db) \in Productions
<1>1. db \in D!Databases /\ D!Primary(db) \in db.prods
  BY PrimaryOnly DEF DirIInv, DirSound
<1> QED BY <1>1, ByTables

(* Several productions, or again only one: then all are told.              *)
LEMMA SettingKeeps == ASSUME StillIn, D!SetMultipleProductions PROVE PagesIn'
<1>0. /\ peers \in [Users -> D!Pages] /\ D!Primary(db) \in Productions /\ multiple \in BOOLEAN /\ db' = db
      /\ issued' = issued /\ imported' = imported /\ multiple' = ~multiple
      /\ Confs \cap {"reset", "targets", "any"} = {}
  BY PrimaryIn DEF StillIn, PInv, D!TypeOK, D!SetMultipleProductions, D!DirectoryAssumption
<1>1. CASE ~multiple
  <2>1. peers' = peers
    BY <1>1 DEF D!SetMultipleProductions
  <2>2. ASSUME NEW u \in Users, peers[u].on, ~imported PROVE InStep(u)'
    <3>1. InStep(u)
      BY <2>2 DEF StillIn, PInv
    <3>2. ~peers'[u].strayed => peers'[u].prod \in IF multiple' THEN Productions ELSE {D!Primary(db')}
      BY <1>0, <1>1, <2>1, <3>1 DEF InStep
    <3>3. Settled(u)' => Follows(db', peers'[u].prod, u, peers'[u].list)
      BY <1>0, <2>1, <3>1 DEF InStep, Settled
    <3> QED BY <1>0, <3>1, <3>2, <3>3 DEF InStep
  <2> QED BY <1>0, <2>1, <2>2 DEF PagesIn
<1>2. CASE multiple
  <2> DEFINE p == D!Primary(db)
             told(u) == {"targets", "any"} \cup (IF peers[u].prod = p THEN {} ELSE {"reset"})
  <2>1. peers' = [u \in Users |-> IF ~peers[u].on THEN peers[u]
                                  ELSE [peers[u] EXCEPT !.prod = p, !.strayed = FALSE, !.notices = @ \cup told(u)]]
    BY <1>2 DEF D!SetMultipleProductions
  <2>2. \A u \in Users : "any" \in told(u) /\ told(u) \subseteq {"reset", "targets", "any"}
    OBVIOUS
  <2>3. p \in Productions /\ p = D!Primary(db')
    BY <1>0
  <2> HIDE DEF told, p
  <2>4. ASSUME NEW u \in Users
        PROVE  /\ peers'[u] \in D!Pages /\ peers'[u].on = peers[u].on
               /\ peers[u].on => peers'[u].prod = p /\ "any" \in peers'[u].notices
    <3>1. peers[u] \in D!Pages
      BY <1>0
    <3>2. peers'[u] = IF ~peers[u].on THEN peers[u]
                      ELSE [peers[u] EXCEPT !.prod = p, !.strayed = FALSE, !.notices = @ \cup told(u)]
      BY <2>1
    <3>3. CASE ~peers[u].on
      BY <3>1, <3>2, <3>3
    <3>4. CASE peers[u].on
      <4>1. peers'[u] = [peers[u] EXCEPT !.prod = p, !.strayed = FALSE, !.notices = @ \cup told(u)]
        BY <3>2, <3>4
      <4> QED BY <2>2, <2>3, <3>1, <4>1 DEF D!Pages
    <3> QED BY <3>3, <3>4
  <2>5. peers' \in [Users -> D!Pages]
    <3>1. peers' = [u \in Users |-> peers'[u]]
      BY <2>1
    <3> QED BY <2>4, <3>1
  <2>6. ASSUME NEW u \in Users, peers'[u].on, ~imported' PROVE InStep(u)'
    <3>1. peers[u].on /\ peers'[u].prod = p /\ "any" \in peers'[u].notices
      BY <2>4, <2>6
    <3>2. InStep(u)
      BY <1>0, <2>6, <3>1 DEF StillIn, PInv
    <3>3. ~Settled(u)'
      BY <1>0, <3>1 DEF Settled
    <3>4. peers'[u].prod \in IF multiple' THEN Productions ELSE {D!Primary(db')}
      BY <1>0, <2>3, <3>1
    <3> QED BY <1>0, <3>2, <3>3, <3>4 DEF InStep
  <2> QED BY <2>5, <2>6 DEF PagesIn
<1> QED BY <1>0, <1>1, <1>2

\* The list of u was fetched for the production p.
Fetched(u, p) ==
  /\ peers'[u].prod = p /\ peers'[u].list = D!ListOf(db, p, u)
  /\ peers'[u] \in D!Pages
  /\ ~peers'[u].strayed => p \in IF multiple THEN Productions ELSE {D!Primary(db)}

(* Then the page is in step.                                               *)
LEMMA FetchedInStep ==
  ASSUME StillIn, multiple' = multiple, NEW u \in Users, u \in issued, NEW p \in Productions, Fetched(u, p)
  PROVE  InStep(u)'
<1>1. Follows(db, p, u, D!ListOf(db, p, u))
  BY FollowsFetched DEF StillIn, PInv, DirIInv
<1>2. db' = db /\ issued' = issued
  BY DEF StillIn
<1>3. Follows(db', peers'[u].prod, u, peers'[u].list)
  BY <1>1, <1>2 DEF Fetched
<1>4. ~peers'[u].strayed => peers'[u].prod \in IF multiple' THEN Productions ELSE {D!Primary(db')}
  BY <1>2 DEF Fetched
<1> QED BY <1>2, <1>3, <1>4 DEF InStep

(* The other pages are as they were.                                       *)
LEMMA OnePage ==
  ASSUME StillIn, multiple' = multiple, imported' = imported, NEW u \in Users, NEW page \in D!Pages,
         peers' = [peers EXCEPT ![u] = page],
         peers'[u].on /\ ~imported => InStep(u)'
  PROVE  PagesIn'
<1>1. peers \in [Users -> D!Pages]
  BY DEF StillIn, PInv, D!TypeOK
<1>2. peers' \in [Users -> D!Pages] /\ \A v \in Users : v # u => peers'[v] = peers[v]
  BY <1>1
<1>3. ASSUME NEW v \in Users, peers'[v].on, ~imported PROVE InStep(v)'
  <2>1. CASE v = u
    BY <1>3, <2>1
  <2>2. CASE v # u
    <3>1. peers'[v] = peers[v] /\ db' = db /\ issued' = issued
      BY <1>2, <2>2 DEF StillIn
    <3>2. InStep(v)
      BY <1>3, <3>1 DEF StillIn, PInv
    <3> QED BY <3>1, <3>2 DEF InStep, Settled
  <2> QED BY <2>1, <2>2
<1> QED BY <1>2, <1>3 DEF PagesIn

(* A page that comes on fetches its list.                                  *)
LEMMA RegisterKeeps == ASSUME StillIn, NEW u \in Users, D!Register(u) PROVE PagesIn'
<1>1. PICK p \in D!Selectable(u) : peers' = [peers EXCEPT ![u] = D!Page(db, p, u)]
  BY DEF D!Register
<1>2. /\ u \in db.users /\ db \in D!Databases /\ multiple' = multiple /\ imported' = imported /\ u \in issued
      /\ peers \in [Users -> D!Pages]
  BY DEF D!Register, StillIn, PInv, DirIInv, D!TypeOK
<1>3. p \in Productions /\ (p \in IF multiple THEN Productions ELSE {D!Primary(db)})
  BY <1>1, <1>2, ByTables DEF D!Selectable, D!Productions_Of
<1> DEFINE list == D!ListOf(db, p, u)
           page == D!Page(db, p, u)
<1>4. list \in [shown : SUBSET D!Targets, talks : SUBSET Confs, order : Seq(D!Targets)]
  BY <1>2, <1>3, FollowsFetched
<1>page. page = [D!Off EXCEPT !.prod = p, !.list = list, !.on = TRUE]
  BY DEF D!Page
<1> HIDE DEF list, page
<1>5. page = [prod |-> p, list |-> list, notices |-> {}, refused |-> FALSE, strayed |-> FALSE, on |-> TRUE]
  BY <1>page DEF D!Off
<1>6. page \in D!Pages /\ page.prod = p /\ page.list = list
  BY <1>3, <1>4, <1>5 DEF D!Pages
<1>7. peers' = [peers EXCEPT ![u] = page]
  BY <1>1 DEF page
<1>8. Fetched(u, p)
  BY <1>2, <1>3, <1>6, <1>7 DEF Fetched, list
<1>9. InStep(u)'
  BY <1>2, <1>3, <1>8, FetchedInStep
<1> QED BY <1>2, <1>6, <1>7, <1>9, OnePage

(* A page that is moved to another production by its user fetches its list.*)
LEMMA SelectionKeeps == ASSUME StillIn, NEW u \in Users, D!SetActiveProduction(u) PROVE PagesIn'
<1>1. PICK p \in D!Productions_Of(db, u) :
        peers' = [peers EXCEPT ![u].prod = p, ![u].list = D!ListOf(db, p, u), ![u].refused = FALSE,
                               ![u].strayed = FALSE]
  BY DEF D!SetActiveProduction
<1>2. /\ peers[u].on /\ multiple /\ db \in D!Databases /\ multiple' = multiple /\ imported' = imported
      /\ peers \in [Users -> D!Pages]
  BY DEF D!SetActiveProduction, StillIn, PInv, DirIInv, D!TypeOK
<1>3. p \in Productions
  BY <1>2, ByTables DEF D!Productions_Of
<1>4. ~imported => u \in issued
  BY <1>2 DEF StillIn, PInv, InStep
<1> DEFINE list == D!ListOf(db, p, u)
           page == [peers[u] EXCEPT !.prod = p, !.list = list, !.refused = FALSE, !.strayed = FALSE]
<1>5. list \in [shown : SUBSET D!Targets, talks : SUBSET Confs, order : Seq(D!Targets)]
  BY <1>2, <1>3, FollowsFetched
<1>6. peers' = [peers EXCEPT ![u] = page]
  BY <1>1, <1>2
<1>7. peers[u] \in D!Pages
  BY <1>2
<1> HIDE DEF list
<1>8. page \in D!Pages /\ page.prod = p /\ page.list = list
  BY <1>3, <1>5, <1>7 DEF D!Pages
<1> HIDE DEF page
<1>9. Fetched(u, p)
  BY <1>2, <1>3, <1>6, <1>8 DEF Fetched, list
<1>10. ~imported => InStep(u)'
  BY <1>2, <1>3, <1>4, <1>9, FetchedInStep
<1> QED BY <1>2, <1>6, <1>8, <1>10, OnePage

(* The list that a page asks for is that of the production it is in.       *)
LEMMA ScopeIs ==
  ASSUME DirIInv, None \notin Productions, NEW u \in Users, InStep(u), ~peers[u].strayed
  PROVE  D!ScopeOf(u) = peers[u].prod
<1>1. peers[u].prod \in IF multiple THEN Productions ELSE {D!Primary(db)}
  BY DEF InStep
<1> QED BY <1>1 DEF D!ScopeOf

(* A page handles its notices.  It keeps its list only when that follows.  *)
LEMMA NoticesKeep == ASSUME StillIn, NEW u \in Users, D!Notices(u) PROVE PagesIn'
<1> DEFINE p == D!ScopeOf(u)
           old == peers[u]
           rest == [old EXCEPT !.notices = {}]
           list == D!ListOf(db, p, u)
           keeps == old.notices \subseteq Confs \ old.list.shown
           page == IF keeps THEN rest
                   ELSE IF <<p, u>> \in db.members THEN [rest EXCEPT !.list = list, !.refused = FALSE]
                   ELSE [rest EXCEPT !.refused = TRUE]
<1>1. peers' = [peers EXCEPT ![u] = page]
  BY DEF D!Notices
<1>2. /\ db \in D!Databases /\ multiple' = multiple /\ imported' = imported
      /\ peers \in [Users -> D!Pages] /\ db' = db /\ issued' = issued /\ None \notin Productions /\ DirIInv
  BY DEF D!Notices, StillIn, PInv, DirIInv, D!TypeOK, D!DirectoryAssumption
<1>3. old \in D!Pages
  BY <1>2
<1>4. InStep(u) /\ ~old.strayed => p = old.prod
  BY <1>2, ScopeIs
<1>5. <<p, u>> \in db.members =>
        p \in Productions /\ list \in [shown : SUBSET D!Targets, talks : SUBSET Confs, order : Seq(D!Targets)]
  BY <1>2, ByTables, FollowsFetched
<1> HIDE DEF p, old, list, keeps
<1>6. CASE keeps
  <2>1. /\ page \in D!Pages /\ page.prod = old.prod /\ page.list = old.list /\ page.refused = old.refused
        /\ page.strayed = old.strayed /\ page.on = old.on
    BY <1>3, <1>6 DEF D!Pages
  <2> HIDE DEF page
  <2>2. peers'[u] = page
    BY <1>1, <1>2
  <2>3. ASSUME old.on, ~imported PROVE InStep(u)'
    <3>1. InStep(u)
      BY <2>3 DEF StillIn, PInv, old
    <3>2. ~peers'[u].strayed => peers'[u].prod \in IF multiple' THEN Productions ELSE {D!Primary(db')}
      BY <1>2, <2>1, <2>2, <3>1 DEF InStep, old
    <3>3. ASSUME Settled(u)' PROVE Follows(db', peers'[u].prod, u, peers'[u].list)
      <4>1. Settled(u)
        BY <1>2, <1>6, <2>1, <2>2, <3>3 DEF Settled, old, keeps
      <4> QED BY <1>2, <2>1, <2>2, <3>1, <4>1 DEF InStep, old
    <3> QED BY <1>2, <3>1, <3>2, <3>3 DEF InStep
  <2> QED BY <1>1, <1>2, <2>1, <2>2, <2>3, OnePage
<1>7. CASE ~keeps /\ <<p, u>> \in db.members
  <2>1. page = [old EXCEPT !.notices = {}, !.list = list, !.refused = FALSE]
    BY <1>3, <1>7 DEF D!Pages
  <2> HIDE DEF page
  <2>2. /\ page \in D!Pages /\ page.prod = old.prod /\ page.list = list /\ page.strayed = old.strayed
        /\ page.on = old.on
    BY <1>3, <1>5, <1>7, <2>1 DEF D!Pages
  <2>3. peers'[u] = page
    BY <1>1, <1>2
  <2>4. ASSUME old.on, ~imported PROVE InStep(u)'
    <3>1. InStep(u)
      BY <2>4 DEF StillIn, PInv, old
    <3>2. CASE ~old.strayed
      <4>1. Fetched(u, p)
        BY <1>4, <2>2, <2>3, <3>1, <3>2 DEF Fetched, list, InStep, old
      <4>2. u \in issued /\ p \in Productions
        BY <1>5, <1>7, <3>1 DEF InStep
      <4> QED BY <1>2, <4>1, <4>2, FetchedInStep
    <3>3. CASE old.strayed
      BY <1>2, <2>2, <2>3, <3>1, <3>3 DEF InStep, Settled
    <3> QED BY <3>2, <3>3
  <2> QED BY <1>1, <1>2, <2>2, <2>3, <2>4, OnePage
<1>8. CASE ~keeps /\ <<p, u>> \notin db.members
  <2>1. /\ page \in D!Pages /\ page.prod = old.prod /\ page.refused = TRUE /\ page.strayed = old.strayed
        /\ page.on = old.on
    BY <1>3, <1>8 DEF D!Pages
  <2> HIDE DEF page
  <2>2. peers'[u] = page
    BY <1>1, <1>2
  <2>3. ASSUME old.on, ~imported PROVE InStep(u)'
    <3>1. InStep(u)
      BY <2>3 DEF StillIn, PInv, old
    <3>2. ~Settled(u)'
      BY <2>1, <2>2 DEF Settled
    <3> QED BY <1>2, <2>1, <2>2, <3>1, <3>2 DEF InStep, old
  <2> QED BY <1>1, <1>2, <2>1, <2>2, <2>3, OnePage
<1> QED BY <1>6, <1>7, <1>8

(* A restart ends all pages.                                               *)
LEMMA DirRestartKeeps == ASSUME StillIn, D!Restart PROVE PagesIn'
<1>1. D!EmptyList \in [shown : SUBSET D!Targets, talks : SUBSET Confs, order : Seq(D!Targets)]
  BY DEF D!EmptyList
<1>2. D!Off = [prod |-> None, list |-> D!EmptyList, notices |-> {}, refused |-> FALSE, strayed |-> FALSE, on |-> FALSE]
  BY DEF D!Off
<1> HIDE DEF D!EmptyList
<1>3. D!Off \in D!Pages /\ D!Off.on = FALSE
  BY <1>1, <1>2 DEF D!Pages
<1>4. peers' = [u \in Users |-> D!Off]
  BY DEF D!Restart
<1> QED BY <1>3, <1>4 DEF PagesIn

(* Every step that leaves the database alone keeps the invariant.          *)
LEMMA PagesKeep ==
  ASSUME PInv, D!DirectoryAssumption,
         \/ D!SetMultipleProductions \/ D!Restart \/ UNCHANGED D!vars
         \/ \E u \in Users : D!Register(u) \/ D!SetActiveProduction(u) \/ D!Notices(u)
  PROVE  PInv'
<1>1. [D!Next]_(D!vars)
  BY DEF D!Next
<1>2. DirIInv'
  BY <1>1, DirNextKeeps DEF PInv
<1>3. D!TypeOK
  BY DEF PInv
<1>4. StillIn
  <2>1. CASE D!SetMultipleProductions
    <3>1. left.edits > 0 /\ left' = [left EXCEPT !.edits = @ - 1] /\ left \in [edits : Nat, imports : Nat]
      BY <1>3, <2>1 DEF D!SetMultipleProductions, D!TypeOK
    <3>2. left' \in [edits : Nat, imports : Nat]
      BY <3>1
    <3>3. UNCHANGED <<db, issued, backup, imported>> /\ multiple' = ~multiple /\ imported \in BOOLEAN
      BY <1>3, <2>1 DEF D!SetMultipleProductions, D!TypeOK
    <3>4. multiple' \in BOOLEAN /\ imported' \in BOOLEAN
      BY <3>3
    <3> QED BY <1>2, <3>2, <3>3, <3>4 DEF StillIn
  <2>2. CASE D!Restart
    BY <1>2, <1>3, <2>2 DEF StillIn, D!Restart, D!TypeOK
  <2>3. CASE UNCHANGED D!vars
    BY <1>2, <1>3, <2>3 DEF StillIn, D!vars, D!TypeOK
  <2>4. CASE \E u \in Users : D!Register(u) \/ D!SetActiveProduction(u) \/ D!Notices(u)
    <3>1. UNCHANGED <<db, issued, multiple, backup, imported, left>>
      BY <2>4 DEF D!Register, D!SetActiveProduction, D!Notices
    <3> QED BY <1>2, <1>3, <3>1 DEF StillIn, D!TypeOK
  <2> QED BY <2>1, <2>2, <2>3, <2>4
<1>5. CASE UNCHANGED D!vars
  <2>1. UNCHANGED <<db, issued, multiple, peers, imported>>
    BY <1>5 DEF D!vars
  <2>2. PagesIn'
    BY <2>1 DEF PagesIn, PInv, D!TypeOK, InStep, Settled
  <2> QED BY <1>4, <2>2, PagesOnly
<1>6. CASE ~UNCHANGED D!vars
  <2>1. PagesIn'
    BY <1>4, <1>6, SettingKeeps, DirRestartKeeps, RegisterKeeps, SelectionKeeps, NoticesKeep
  <2> QED BY <1>4, <2>1, PagesOnly
<1> QED BY <1>5, <1>6

(* An export remembers the setting, and an import tells no page.           *)
LEMMA ImportsKeep == ASSUME PInv, D!DirectoryAssumption, D!ExportConfig \/ D!Import PROVE PInv'
<1>1. [D!Next]_(D!vars)
  BY DEF D!Next
<1>2. DirIInv'
  BY <1>1, DirNextKeeps DEF PInv
<1>3. D!TypeOK /\ db.users \subseteq issued
  BY DEF PInv
<1>4. CASE D!ExportConfig
  <2>1. UNCHANGED <<db, issued, multiple, peers, imported, left>> /\ backup'.config = multiple
    BY <1>4 DEF D!ExportConfig
  <2>2. D!TypeOK' /\ db'.users \subseteq issued' /\ backup'.config \in BOOLEAN
    BY <1>3, <2>1 DEF D!TypeOK
  <2>3. ASSUME NEW u \in Users, peers'[u].on, ~imported' PROVE InStep(u)'
    <3>1. InStep(u)
      BY <2>1, <2>3 DEF PInv
    <3> QED BY <2>1, <3>1 DEF InStep, Settled
  <2> QED BY <1>2, <2>2, <2>3 DEF PInv
<1>5. CASE D!Import
  <2>1. PICK mode, b : D!ImportConfig(mode, b) /\ (mode = multiple \/ (backup # None /\ mode = backup.config))
    BY <1>5 DEF D!Import
  <2>2. /\ left.imports > 0 /\ left' = [left EXCEPT !.imports = @ - 1] /\ left \in [edits : Nat, imports : Nat]
        /\ issued' = db'.users \cup db'.confs \cup db'.feeds \cup db'.prods \cup (issued \cap Productions)
        /\ multiple' = mode /\ imported' = TRUE /\ backup' = backup /\ peers' = peers
    BY <1>3, <2>1 DEF D!ImportConfig, D!TypeOK
  <2>3. mode \in BOOLEAN /\ (backup # None => backup.config \in BOOLEAN)
    BY <2>1 DEF PInv, D!TypeOK
  <2>4. left' \in [edits : Nat, imports : Nat]
    BY <2>2
  <2>5. db' \in D!Databases
    BY <1>2 DEF DirIInv
  <2>6. issued' \subseteq D!Entities
    BY <2>2, <2>5, ByTables DEF D!Entities, D!Targets
  <2>7. D!TypeOK'
    BY <1>3, <2>2, <2>3, <2>4, <2>5, <2>6 DEF D!TypeOK
  <2>8. db'.users \subseteq issued'
    BY <2>2
  <2> QED BY <1>2, <2>2, <2>3, <2>7, <2>8 DEF PInv
<1> QED BY <1>4, <1>5

(* A server starts with the pages of those who have opened theirs.         *)
LEMMA StartsInStep == ASSUME D!DirectoryAssumption, D!Init PROVE PInv
<1>1. DirIInv
  <2>1. PICK b \in Bundles : db = D!Upgraded(b, D!Fresh(b))
    BY DEF D!Init
  <2>2. D!WellFormed(b) /\ KindsApart /\ IsFiniteSet(D!Targets) /\ ~(Productions \subseteq b.prods)
    BY DEF D!DirectoryAssumption, KindsApart, D!IsFiniteSet, IsFiniteSet
  <2>3. D!Upgraded(b, D!Fresh(b)) \in D!Databases /\ DirSound(D!Upgraded(b, D!Fresh(b)))
    BY <2>2, UpgradeSound
  <2> QED BY <2>1, <2>3 DEF D!Init, DirIInv
<1> DEFINE p == D!Primary(db)
<1>2. db \in D!Databases /\ p \in Productions
  BY <1>1, PrimaryIn
<1>3. /\ issued = db.users \cup db.confs \cup db.feeds \cup db.prods
      /\ multiple \in BOOLEAN /\ imported = FALSE /\ backup = None /\ left \in [edits : Nat, imports : Nat]
  BY DEF D!Init, D!DirectoryAssumption
<1>4. peers = [u \in Users |-> IF u \in db.users \ {GuestProfile} THEN D!Page(db, p, u) ELSE D!Off]
  BY DEF D!Init
<1> HIDE DEF p
<1>5. ASSUME NEW u \in Users
      PROVE  /\ D!Page(db, p, u) \in D!Pages /\ D!Page(db, p, u).prod = p /\ D!Page(db, p, u).list = D!ListOf(db, p, u)
             /\ Follows(db, p, u, D!ListOf(db, p, u))
  <2> DEFINE list == D!ListOf(db, p, u)
             page == D!Page(db, p, u)
  <2>1. list \in [shown : SUBSET D!Targets, talks : SUBSET Confs, order : Seq(D!Targets)] /\ Follows(db, p, u, list)
    BY <1>2, FollowsFetched
  <2>2. page = [D!Off EXCEPT !.prod = p, !.list = list, !.on = TRUE]
    BY DEF D!Page
  <2> HIDE DEF list, page
  <2>3. page = [prod |-> p, list |-> list, notices |-> {}, refused |-> FALSE, strayed |-> FALSE, on |-> TRUE]
    BY <2>2 DEF D!Off
  <2>4. page \in D!Pages /\ page.prod = p /\ page.list = list
    BY <1>2, <2>1, <2>3 DEF D!Pages
  <2> QED BY <2>1, <2>4 DEF list, page
<1>6. D!Off \in D!Pages /\ D!Off.on = FALSE
  <2>1. D!EmptyList \in [shown : SUBSET D!Targets, talks : SUBSET Confs, order : Seq(D!Targets)]
    BY DEF D!EmptyList
  <2>2. D!Off = [prod |-> None, list |-> D!EmptyList, notices |-> {}, refused |-> FALSE, strayed |-> FALSE, on |-> FALSE]
    BY DEF D!Off
  <2> HIDE DEF D!EmptyList
  <2> QED BY <2>1, <2>2 DEF D!Pages
<1>7. peers \in [Users -> D!Pages]
  BY <1>4, <1>5, <1>6
<1>8. ASSUME NEW u \in Users, peers[u].on PROVE InStep(u)
  <2>1. peers[u] = D!Page(db, p, u) /\ u \in db.users
    BY <1>4, <1>6, <1>8
  <2>2. peers[u].prod = p /\ Follows(db, peers[u].prod, u, peers[u].list)
    BY <1>5, <2>1
  <2>3. u \in issued
    BY <1>3, <2>1
  <2> QED BY <1>2, <1>3, <2>2, <2>3 DEF InStep, p
<1>9. issued \subseteq D!Entities
  BY <1>2, <1>3, ByTables DEF D!Entities, D!Targets
<1>10. D!TypeOK
  BY <1>2, <1>3, <1>7, <1>9 DEF D!TypeOK
<1> QED BY <1>1, <1>3, <1>8, <1>10 DEF PInv

(* The invariant holds in every behaviour.                                 *)
LEMMA StaysInStep == ASSUME D!DirectoryAssumption PROVE D!Spec => []PInv
<1>1. D!Init => PInv
  BY StartsInStep
<1>2. PInv /\ [D!Next]_(D!vars) => PInv'
  BY RequestsKeep, PagesKeep, ImportsKeep DEF D!Next, AnyRequest
<1> QED BY <1>1, <1>2, PTL DEF D!Spec

(* The tables, the pages and what the server remembers are what they are   *)
(* declared to be.                                                         *)
THEOREM DirTypesHold == ASSUME D!DirectoryAssumption PROVE D!Spec => []D!TypeOK
<1>1. PInv => D!TypeOK
  BY DEF PInv
<1> QED BY <1>1, StaysInStep, PTL

(* A page that has handled its notices shows every button its user has,    *)
(* may talk where it may, and has them in the order last arranged.         *)
THEOREM PagesShowTheirLists == ASSUME D!DirectoryAssumption PROVE D!Spec => []D!PagesFollow
<1>1. ASSUME PInv PROVE D!PagesFollow
  <2> SUFFICES ASSUME NEW u \in Users, peers[u].on, peers[u].notices = {}, ~peers[u].refused,
                      ~peers[u].strayed, ~imported, <<D!ScopeOf(u), u>> \in db.members
               PROVE  LET now == D!ListOf(db, D!ScopeOf(u), u)
                          list == peers[u].list
                      IN  /\ now.shown \subseteq list.shown /\ list.shown \ now.shown \subseteq Users \cup Feeds
                          /\ now.talks = list.talks /\ D!Kept(list.order, now.shown) = now.order
    BY DEF D!PagesFollow
  <2>1. InStep(u) /\ DirIInv /\ None \notin Productions
    BY <1>1 DEF PInv, D!DirectoryAssumption
  <2>2. D!ScopeOf(u) = peers[u].prod
    BY <2>1, ScopeIs
  <2>3. Settled(u)
    BY <2>2 DEF Settled
  <2>4. Follows(db, D!ScopeOf(u), u, peers[u].list)
    BY <2>1, <2>2, <2>3 DEF InStep
  <2> QED BY <2>4 DEF Follows, D!ListOf
<1> QED BY <1>1, StaysInStep, PTL
(* The matrix is sound and the pages follow it, as the model checker       *)
(* checks them of the part.                                                *)
THEOREM MatrixIsFollowed == ASSUME D!DirectoryAssumption PROVE D!Spec => []D!MatrixFollowed
BY MatrixStaysSound, PagesShowTheirLists, PTL DEF D!MatrixFollowed

-----------------------------------------------------------------------------
(***************************************************************************)
(* Proofs about the registration of a page, for any number of connections, *)
(* losses, sign-ons, slow answers and changes from elsewhere: a page that  *)
(* waits for nothing is connected, registered and served as it shows.      *)
(***************************************************************************)

Names ==
  {"kind", "view", "sock", "gen", "last", "previous", "prod", "cookie", "tasks", "timer", "media", "mgen", "init", "sent",
   "acks", "open", "hand", "valid", "holder", "served", "hung"}

\* Nothing but the fields named differs.
SameBut(w, v, Z) == \A n \in Names \ Z : v[n] = w[n]

\* What the steps read and write.
IsTask(t) == t = [of |-> t.of, at |-> t.at, gen |-> t.gen, n |-> t.n] /\ t.gen \in Nat
IsAnswer(ack) == ack.is \in {"ok", "own", "conflict", "refused"} /\ (ack.of = "switch" => ack.is \in {"ok", "refused"})
Types(w) ==
  /\ DOMAIN w = Names
  /\ w.gen \in Nat /\ w.sock \in {0} \cup 1 .. Connections /\ w.cookie # 0
  /\ DOMAIN w.hand = 1 .. Connections /\ IsFiniteSet(w.valid)
  /\ w.sock # 0 => w.hand[w.sock] # 0
  /\ w.holder \in {0, Other} \cup 1 .. Connections
  /\ w.holder \in 1 .. Connections => w.hand[w.holder] # 0
  /\ w.view = "ended" => w.sock = 0
  /\ w.init # S!NoInit \/ w.sock = 0 => ~w.media

\* Requests on their way, the older first, over the connections that there were.
SignRequests(w) ==
  /\ IsRow(w.sent)
  /\ \A i \in 1 .. Len(w.sent) :
       /\ w.sent[i].gen \in Nat /\ w.sent[i].gen <= w.gen
       /\ w.sent[i].sock \in 1 .. Connections /\ w.hand[w.sent[i].sock] # 0
       /\ w.sent[i].what \in {"register", "switch"}
       /\ w.sent[i].what = "switch" <=> w.sent[i].n = 0
       /\ w.sent[i].what = "switch" <=> w.sent[i].of = "switch"
  /\ \A i, j \in 1 .. Len(w.sent) : i < j => w.sent[i].gen <= w.sent[j].gen

\* The calls that wait: one sign-on, and one of each kind on the present connection.
Stages == {<<"login", "socket">>, <<"login", "register">>, <<"login", "media">>, <<"recover", "register">>,
           <<"recover", "media">>, <<"switch", "switch">>}
Calls(w) ==
  /\ IsFiniteSet(w.tasks)
  /\ \A t \in w.tasks :
       /\ IsTask(t) /\ t.gen <= w.gen /\ <<t.of, t.at>> \in Stages
       /\ t.at = "switch" => t.n = 0
       /\ t.at = "register" => t.n # 0
       /\ t.of = "recover" \/ t.at = "media" => w.view = "app"
       /\ t.of = "login" /\ t.at # "media" => w.view = "login"
  /\ \A t, u \in w.tasks : t.of = u.of /\ (t.of = "login" \/ (t.gen = w.gen /\ u.gen = w.gen)) => t = u

\* Without a connection nothing is on its way that belongs to the next one.
Apart(w) ==
  w.sock = 0 =>
    /\ w.acks = <<>>
    /\ w.view # "ended" => /\ \A i \in 1 .. Len(w.sent) : w.sent[i].gen < w.gen
                           /\ \A t \in w.tasks : t.gen = w.gen => t.at = "socket"

\* What is on its way over the present connection is told apart by its number.
Switching(w) == \E t \in w.tasks : t.of = "switch" /\ t.gen = w.gen
Numbered(w) ==
  w.sock # 0 =>
    /\ IsRow(w.acks)
    /\ \A i \in 1 .. Len(w.sent) : w.sent[i].gen = w.gen <=> w.sent[i].sock = w.sock
    /\ \A k \in 1 .. Len(w.acks) :
         /\ IsAnswer(w.acks[k]) /\ w.acks[k].gen = w.gen
         /\ w.acks[k].of = "switch" <=> w.acks[k].n = 0
    /\ \A i, j \in 1 .. Len(w.sent) : i # j /\ w.sent[i].gen = w.gen /\ w.sent[j].gen = w.gen => w.sent[i].n # w.sent[j].n
    /\ \A i \in 1 .. Len(w.sent), k \in 1 .. Len(w.acks) : w.sent[i].gen = w.gen => w.sent[i].n # w.acks[k].n
    /\ \A k, l \in 1 .. Len(w.acks) : k # l => w.acks[k].n # w.acks[l].n
    /\ \A i \in 1 .. Len(w.sent) : w.sent[i].gen = w.gen /\ w.sent[i].what = "switch" => Switching(w)
    /\ \A k \in 1 .. Len(w.acks) : w.acks[k].of = "switch" => Switching(w)

\* The call that an answer is for.
Waiter(ack) ==
  [of |-> ack.of, gen |-> ack.gen, n |-> ack.n, at |-> IF ack.of = "switch" THEN "switch" ELSE "register"]

\* The page shows what it is served, or will when it has heard the last answer.
LastOk(w, k) == w.acks[k].is = "ok" /\ \A l \in 1 .. Len(w.acks) : l > k => w.acks[l].is # "ok"
Agreed(w) ==
  \/ (\A k \in 1 .. Len(w.acks) : w.acks[k].is # "ok") /\ w.served = w.prod
  \/ \E k \in 1 .. Len(w.acks) : LastOk(w, k) /\ w.acks[k].prod = w.served /\ Waiter(w.acks[k]) \in w.tasks

\* The present connection is registered, and no registration is on its way.
Handled(w) == \A i \in 1 .. Len(w.sent) : w.sent[i].gen = w.gen /\ w.sent[i].what = "switch"
SignJoined(w) == w.holder = w.sock /\ Handled(w) /\ Agreed(w)

\* A registration that is waited for is the last one, and a good answer to it
\* says that the connection is registered.
Waits(w, t) == t \in w.tasks /\ t.at = "register" /\ t.gen = w.gen
Latest(w) ==
  w.sock # 0 => \A t : Waits(w, t) =>
    /\ \A i \in 1 .. Len(w.sent) : w.sent[i].gen = w.gen /\ w.sent[i].n = t.n =>
         w.sent[i].of = t.of /\ \A j \in 1 .. Len(w.sent) : j > i => w.sent[j].what = "switch"
    /\ \A k \in 1 .. Len(w.acks) : w.acks[k].n = t.n =>
         w.acks[k].of = t.of /\ Handled(w) /\ (w.acks[k].is = "ok" => SignJoined(w))

\* A recovery that waits for its media is registered.
AtMedia(w, t) == t \in w.tasks /\ t.at = "media" /\ t.gen = w.gen
Signed(w) == w.sock # 0 => \A t : AtMedia(w, t) /\ t.of = "recover" => SignJoined(w)

\* A page that shows the intercom is at it, will try again, or is registered.
Main(w) ==
  w.view = "app" /\ w.sock # 0 => w.timer \/ S!Recovering(w) \/ (SignJoined(w) /\ (w.media \/ \E t : AtMedia(w, t)))

Core(w) == Types(w) /\ SignRequests(w) /\ Calls(w) /\ Apart(w) /\ Numbered(w) /\ Latest(w) /\ Signed(w)
Good(w) == Core(w) /\ Main(w)
SignIInv == Good(world)

(***************************************************************************)
(* Sequences and numbers.                                                  *)
(***************************************************************************)
LEMMA LenIs == ASSUME NEW s, IsRow(s) PROVE Len(s) \in Nat /\ DOMAIN s = 1 .. Len(s) /\ (s # <<>> <=> Len(s) # 0)
<1>1. PICK V : s \in Seq(V)
  BY DEF IsRow
<1> QED BY <1>1, LenProperties, EmptySeq

LEMMA NoneIs == IsRow(<<>>) /\ Len(<<>>) = 0 /\ DOMAIN <<>> = {}
<1>1. <<>> \in Seq({}) /\ Len(<<>>) = 0
  BY EmptySeq
<1>2. IsRow(<<>>)
  BY <1>1 DEF IsRow
<1> QED BY <1>1, <1>2, LenProperties

LEMMA SignTailIs ==
  ASSUME NEW s, IsRow(s), s # <<>>
  PROVE  /\ IsRow(Tail(s)) /\ Len(s) \in Nat \ {0} /\ Len(Tail(s)) = Len(s) - 1 /\ Head(s) = s[1]
         /\ \A i \in 1 .. Len(s) - 1 : Tail(s)[i] = s[i + 1]
<1>1. PICK V : s \in Seq(V)
  BY DEF IsRow
<1>2. Tail(s) \in Seq(V) /\ Len(Tail(s)) = Len(s) - 1 /\ \A i \in 1 .. Len(Tail(s)) : Tail(s)[i] = s[i + 1]
  BY <1>1, HeadTailProperties
<1>3. Len(s) \in Nat /\ Len(s) # 0
  BY <1>1, EmptySeq, LenProperties
<1> QED BY <1>1, <1>2, <1>3 DEF IsRow

\* Among the numbers up to one more than a finite set has members one is not in it.
LEMMA SomeNumber ==
  ASSUME NEW X, IsFiniteSet(X)
  PROVE  LET n == CHOOSE n \in 1 .. Cardinality(X) + 1 : n \notin X IN n \in Nat \ {0} /\ n \notin X
<1>1. Cardinality(X) \in Nat
  BY FS_CardinalityType
<1> DEFINE c == Cardinality(X)
           upto == 1 .. c + 1
<1> HIDE DEF c
<1>2. IsFiniteSet(upto) /\ Cardinality(upto) = c + 1
  BY <1>1, FS_Interval DEF c
<1>3. ~(upto \subseteq X)
  <2> SUFFICES ASSUME upto \subseteq X PROVE FALSE
    OBVIOUS
  <2> HIDE DEF upto
  <2>1. Cardinality(upto) <= c
    BY FS_Subset DEF c
  <2> QED BY <1>1, <1>2, <2>1 DEF c
<1>4. \E n \in upto : n \notin X
  BY <1>3
<1>5. (CHOOSE n \in upto : n \notin X) \in upto /\ (CHOOSE n \in upto : n \notin X) \notin X
  BY <1>4
<1>6. upto \subseteq Nat \ {0}
  BY <1>1 DEF c
<1> QED BY <1>5, <1>6 DEF c

LEMMA FiniteRange ==
  ASSUME NEW X, IsFiniteSet(X), NEW f, DOMAIN f = X
  PROVE  IsFiniteSet({f[x] : x \in X})
<1> DEFINE Y == {f[x] : x \in X}
           g == [x \in X |-> f[x]]
<1>1. g \in Surjection(X, Y)
  BY DEF Surjection
<1> HIDE DEF Y, g
<1>2. IsFiniteSet(Y)
  BY <1>1, FS_Surjection
<1> QED BY <1>2 DEF Y

\* A number for a request.
LEMMA SignFreshIs ==
  ASSUME NEW w, IsFiniteSet(w.tasks), IsRow(w.sent), IsRow(w.acks)
  PROVE  /\ S!Fresh(w) \in Nat \ {0}
         /\ \A i \in 1 .. Len(w.sent) : w.sent[i].n # S!Fresh(w)
         /\ \A k \in 1 .. Len(w.acks) : w.acks[k].n # S!Fresh(w)
<1> DEFINE X1 == {t.n : t \in w.tasks}
           X2 == {w.sent[i].n : i \in DOMAIN w.sent}
           X3 == {w.acks[i].n : i \in DOMAIN w.acks}
           X == X1 \cup X2 \cup X3
<1>1. IsFiniteSet(X1)
  <2> DEFINE f == [t \in w.tasks |-> t.n]
  <2>1. X1 = {f[t] : t \in w.tasks} /\ DOMAIN f = w.tasks
    OBVIOUS
  <2> HIDE DEF f, X1
  <2> QED BY <2>1, FiniteRange
<1>2. /\ Len(w.sent) \in Nat /\ DOMAIN w.sent = 1 .. Len(w.sent)
      /\ Len(w.acks) \in Nat /\ DOMAIN w.acks = 1 .. Len(w.acks)
  BY LenIs
<1>3. IsFiniteSet(DOMAIN w.sent) /\ IsFiniteSet(DOMAIN w.acks)
  BY <1>2, FS_Interval
<1>4. IsFiniteSet(X2)
  <2> DEFINE f == [i \in DOMAIN w.sent |-> w.sent[i].n]
  <2>1. X2 = {f[i] : i \in DOMAIN w.sent} /\ DOMAIN f = DOMAIN w.sent
    OBVIOUS
  <2> HIDE DEF f, X2
  <2> QED BY <1>3, <2>1, FiniteRange
<1>5. IsFiniteSet(X3)
  <2> DEFINE f == [i \in DOMAIN w.acks |-> w.acks[i].n]
  <2>1. X3 = {f[i] : i \in DOMAIN w.acks} /\ DOMAIN f = DOMAIN w.acks
    OBVIOUS
  <2> HIDE DEF f, X3
  <2> QED BY <1>3, <2>1, FiniteRange
<1>6. IsFiniteSet(X)
  <2> HIDE DEF X1, X2, X3
  <2> QED BY <1>1, <1>4, <1>5, FS_Union
<1>7. S!Fresh(w) \in Nat \ {0} /\ S!Fresh(w) \notin X
  <2>1. S!Fresh(w) = CHOOSE n \in 1 .. Cardinality(X) + 1 : n \notin X
    BY DEF S!Fresh, S!Cardinality, Cardinality
  <2> HIDE DEF X
  <2> QED BY <1>6, <2>1, SomeNumber
<1> QED BY <1>2, <1>7

\* A cookie.
LEMMA NewCookieIs ==
  ASSUME NEW w, DOMAIN w = Names, IsFiniteSet(w.valid), DOMAIN w.hand = 1 .. Connections, S!SessionAssumption
  PROVE  LET v == S!NewCookie(w) IN
         DOMAIN v = Names /\ SameBut(w, v, {"cookie", "valid"}) /\ v.cookie # 0 /\ IsFiniteSet(v.valid)
<1> DEFINE X == {w.hand[s] : s \in 1 .. Connections} \cup w.valid
           c == CHOOSE c \in 1 .. Cardinality(X) + 1 : c \notin X
<1>1. IsFiniteSet(X)
  <2>1. IsFiniteSet(1 .. Connections)
    BY FS_Interval DEF S!SessionAssumption
  <2>2. IsFiniteSet({w.hand[s] : s \in 1 .. Connections})
    BY <2>1, FiniteRange
  <2> QED BY <2>2, FS_Union
<1>2. S!NewCookie(w) = [w EXCEPT !.cookie = c, !.valid = @ \cup {c}]
  BY DEF S!NewCookie, S!Cardinality, Cardinality
<1>3. c \in Nat \ {0}
  <2> HIDE DEF X
  <2> QED BY <1>1, SomeNumber
<1> HIDE DEF c, X
<1>4. IsFiniteSet(w.valid \cup {c})
  BY FS_AddElement
<1> QED BY <1>2, <1>3, <1>4 DEF SameBut, Names

(***************************************************************************)
(* What keeps the invariant.                                               *)
(***************************************************************************)
\* A request or an answer less, calls that end, and whatever else a connection
\* has nothing to do with.
LEMMA LessIs ==
  ASSUME NEW w, Core(w), NEW v, Types(v),
         v.sock = w.sock, v.gen = w.gen, v.hand = w.hand, v.view = w.view,
         NEW d \in {0, 1}, IsRow(v.sent), Len(v.sent) = Len(w.sent) - d,
         \A i \in 1 .. Len(v.sent) : v.sent[i] = w.sent[i + d],
         NEW e \in {0, 1}, IsRow(v.acks), Len(v.acks) = Len(w.acks) - e,
         \A k \in 1 .. Len(v.acks) : v.acks[k] = w.acks[k + e],
         v.sock = 0 => v.acks = <<>>,
         v.tasks \subseteq w.tasks,
         v.sock # 0 =>
           /\ \A i \in 1 .. Len(v.sent) : v.sent[i].gen = v.gen /\ v.sent[i].what = "switch" => Switching(v)
           /\ \A k \in 1 .. Len(v.acks) : v.acks[k].of = "switch" => Switching(v),
         \A t : v.sock # 0 /\ (Waits(v, t) \/ (AtMedia(v, t) /\ t.of = "recover")) /\ SignJoined(w) => SignJoined(v)
  PROVE  Core(v)
<1>0. Len(w.sent) \in Nat /\ Len(v.sent) \in Nat /\ Len(v.acks) \in Nat /\ Len(w.acks) \in Nat
  <2>1. IsRow(w.acks)
    BY NoneIs DEF Core, Apart, Numbered
  <2> QED BY <2>1, LenIs DEF Core, SignRequests
<1>1. \A i \in 1 .. Len(v.sent) : i + d \in 1 .. Len(w.sent)
  BY <1>0
<1>2. \A k \in 1 .. Len(v.acks) : k + e \in 1 .. Len(w.acks)
  BY <1>0
<1>3. SignRequests(v)
  <2>1. \A i, j \in 1 .. Len(w.sent) : i < j => w.sent[i].gen <= w.sent[j].gen
    BY DEF Core, SignRequests
  <2>2. ASSUME NEW i \in 1 .. Len(v.sent), NEW j \in 1 .. Len(v.sent), i < j PROVE v.sent[i].gen <= v.sent[j].gen
    <3>1. i + d \in 1 .. Len(w.sent) /\ j + d \in 1 .. Len(w.sent) /\ i + d < j + d
      BY <1>1, <2>2
    <3> QED BY <2>1, <3>1
  <2>3. \A i \in 1 .. Len(v.sent) :
          /\ v.sent[i].gen \in Nat /\ v.sent[i].gen <= v.gen
          /\ v.sent[i].sock \in 1 .. Connections /\ v.hand[v.sent[i].sock] # 0
          /\ v.sent[i].what \in {"register", "switch"}
          /\ v.sent[i].what = "switch" <=> v.sent[i].n = 0
          /\ v.sent[i].what = "switch" <=> v.sent[i].of = "switch"
    BY <1>1 DEF Core, SignRequests
  <2> QED BY <2>2, <2>3 DEF SignRequests
<1>4. Calls(v)
  <2>1. IsFiniteSet(v.tasks)
    BY FS_Subset DEF Core, Calls
  <2> QED BY <2>1 DEF Core, Calls
<1>5. Apart(v)
  BY <1>1 DEF Core, Apart
<1>6. Numbered(v)
  <2> SUFFICES ASSUME v.sock # 0 PROVE Numbered(v)
    BY DEF Numbered
  <2>1. /\ \A i \in 1 .. Len(w.sent) : w.sent[i].gen = w.gen <=> w.sent[i].sock = w.sock
        /\ \A k \in 1 .. Len(w.acks) :
             /\ IsAnswer(w.acks[k]) /\ w.acks[k].gen = w.gen
             /\ w.acks[k].of = "switch" <=> w.acks[k].n = 0
    BY DEF Core, Numbered
  <2>2. \A i \in 1 .. Len(v.sent) : v.sent[i].gen = v.gen <=> v.sent[i].sock = v.sock
    BY <1>1, <2>1
  <2>3. \A k \in 1 .. Len(v.acks) :
          /\ IsAnswer(v.acks[k]) /\ v.acks[k].gen = v.gen
          /\ v.acks[k].of = "switch" <=> v.acks[k].n = 0
    BY <1>2, <2>1
  <2>4. \A i, j \in 1 .. Len(v.sent) :
          i # j /\ v.sent[i].gen = v.gen /\ v.sent[j].gen = v.gen => v.sent[i].n # v.sent[j].n
    <3> SUFFICES ASSUME NEW i \in 1 .. Len(v.sent), NEW j \in 1 .. Len(v.sent), i # j,
                        v.sent[i].gen = v.gen, v.sent[j].gen = v.gen
                 PROVE  v.sent[i].n # v.sent[j].n
      OBVIOUS
    <3>1. i + d \in 1 .. Len(w.sent) /\ j + d \in 1 .. Len(w.sent) /\ i + d # j + d
      BY <1>1
    <3>2. \A a, b \in 1 .. Len(w.sent) :
            a # b /\ w.sent[a].gen = w.gen /\ w.sent[b].gen = w.gen => w.sent[a].n # w.sent[b].n
      BY DEF Core, Numbered
    <3> QED BY <3>1, <3>2
  <2>5. \A i \in 1 .. Len(v.sent), k \in 1 .. Len(v.acks) : v.sent[i].gen = v.gen => v.sent[i].n # v.acks[k].n
    <3>1. \A a \in 1 .. Len(w.sent), b \in 1 .. Len(w.acks) : w.sent[a].gen = w.gen => w.sent[a].n # w.acks[b].n
      BY DEF Core, Numbered
    <3> QED BY <1>1, <1>2, <3>1
  <2>6. \A k, l \in 1 .. Len(v.acks) : k # l => v.acks[k].n # v.acks[l].n
    <3> SUFFICES ASSUME NEW k \in 1 .. Len(v.acks), NEW l \in 1 .. Len(v.acks), k # l PROVE v.acks[k].n # v.acks[l].n
      OBVIOUS
    <3>1. k + e \in 1 .. Len(w.acks) /\ l + e \in 1 .. Len(w.acks) /\ k + e # l + e
      BY <1>2
    <3>2. \A a, b \in 1 .. Len(w.acks) : a # b => w.acks[a].n # w.acks[b].n
      BY DEF Core, Numbered
    <3> QED BY <3>1, <3>2
  <2> QED BY <2>2, <2>3, <2>4, <2>5, <2>6 DEF Numbered
<1>7. Handled(w) => Handled(v)
  BY <1>1 DEF Handled
<1>8. Latest(v)
  <2> SUFFICES ASSUME v.sock # 0, NEW t, Waits(v, t)
               PROVE  /\ \A i \in 1 .. Len(v.sent) : v.sent[i].gen = v.gen /\ v.sent[i].n = t.n =>
                           v.sent[i].of = t.of /\ \A j \in 1 .. Len(v.sent) : j > i => v.sent[j].what = "switch"
                      /\ \A k \in 1 .. Len(v.acks) : v.acks[k].n = t.n =>
                           v.acks[k].of = t.of /\ Handled(v) /\ (v.acks[k].is = "ok" => SignJoined(v))
    BY DEF Latest
  <2>1. Waits(w, t)
    BY DEF Waits
  <2>2. /\ \A i \in 1 .. Len(w.sent) : w.sent[i].gen = w.gen /\ w.sent[i].n = t.n =>
             w.sent[i].of = t.of /\ \A j \in 1 .. Len(w.sent) : j > i => w.sent[j].what = "switch"
        /\ \A k \in 1 .. Len(w.acks) : w.acks[k].n = t.n =>
             w.acks[k].of = t.of /\ Handled(w) /\ (w.acks[k].is = "ok" => SignJoined(w))
    BY <2>1 DEF Core, Latest
  <2>3. \A i \in 1 .. Len(v.sent) : v.sent[i].gen = v.gen /\ v.sent[i].n = t.n =>
          v.sent[i].of = t.of /\ \A j \in 1 .. Len(v.sent) : j > i => v.sent[j].what = "switch"
    <3>1. ASSUME NEW i \in 1 .. Len(v.sent), v.sent[i].gen = v.gen, v.sent[i].n = t.n
          PROVE  v.sent[i].of = t.of /\ \A j \in 1 .. Len(v.sent) : j > i => v.sent[j].what = "switch"
      <4>1. /\ i + d \in 1 .. Len(w.sent)
            /\ w.sent[i + d].of = t.of /\ \A j \in 1 .. Len(w.sent) : j > i + d => w.sent[j].what = "switch"
        BY <1>1, <2>2, <3>1
      <4>2. \A j \in 1 .. Len(v.sent) : j > i => j + d > i + d
        BY <1>0
      <4> QED BY <1>1, <4>1, <4>2
    <3> QED BY <3>1
  <2>4. \A k \in 1 .. Len(v.acks) : v.acks[k].n = t.n =>
          v.acks[k].of = t.of /\ Handled(v) /\ (v.acks[k].is = "ok" => SignJoined(v))
    BY <1>2, <1>7, <2>2
  <2> QED BY <2>3, <2>4
<1>9. Signed(v)
  BY DEF Core, Signed, AtMedia
<1> QED BY <1>3, <1>4, <1>5, <1>6, <1>8, <1>9 DEF Core

\* What the connection, the requests and the calls do not depend on.
Aside == {"last", "previous", "timer", "mgen", "init", "media", "open", "valid", "cookie", "hung"}

LEMMA AsideIs ==
  ASSUME NEW w, NEW v, SameBut(w, v, Aside)
  PROVE  /\ v.sock = w.sock /\ v.gen = w.gen /\ v.hand = w.hand /\ v.view = w.view /\ v.sent = w.sent /\ v.acks = w.acks
         /\ v.tasks = w.tasks /\ v.holder = w.holder /\ v.served = w.served /\ v.prod = w.prod
         /\ SignJoined(v) <=> SignJoined(w)
         /\ S!Recovering(v) <=> S!Recovering(w)
         /\ \A t : AtMedia(v, t) <=> AtMedia(w, t)
<1>1. /\ v.sock = w.sock /\ v.gen = w.gen /\ v.hand = w.hand /\ v.view = w.view /\ v.sent = w.sent /\ v.acks = w.acks
      /\ v.tasks = w.tasks /\ v.holder = w.holder /\ v.served = w.served /\ v.prod = w.prod
  BY DEF SameBut, Names, Aside
<1>2. SignJoined(v) <=> SignJoined(w)
  BY <1>1 DEF SignJoined, Handled, Agreed, LastOk
<1>3. S!Recovering(v) <=> S!Recovering(w)
  BY <1>1 DEF S!Recovering
<1>4. \A t : AtMedia(v, t) <=> AtMedia(w, t)
  BY <1>1 DEF AtMedia
<1> QED BY <1>1, <1>2, <1>3, <1>4

LEMMA SignAsideKeeps ==
  ASSUME NEW w, Core(w), NEW v, SameBut(w, v, Aside), DOMAIN v = Names, v.cookie # 0, IsFiniteSet(v.valid),
         v.init # S!NoInit \/ v.sock = 0 => ~v.media
  PROVE  Core(v)
<1>1. /\ v.sock = w.sock /\ v.gen = w.gen /\ v.hand = w.hand /\ v.view = w.view /\ v.sent = w.sent /\ v.acks = w.acks
      /\ v.tasks = w.tasks /\ v.holder = w.holder
      /\ SignJoined(v) <=> SignJoined(w)
      /\ \A t : AtMedia(v, t) <=> AtMedia(w, t)
  BY AsideIs
<1>2. Types(v)
  BY <1>1 DEF Core, Types
<1>3. SignRequests(v) /\ Calls(v) /\ Apart(v)
  BY <1>1 DEF Core, SignRequests, Calls, Apart
<1>4. Numbered(v)
  BY <1>1 DEF Core, Numbered, Switching
<1>5. Latest(v)
  BY <1>1 DEF Core, Latest, Waits, Handled
<1>6. Signed(v)
  BY <1>1 DEF Core, Signed
<1> QED BY <1>2, <1>3, <1>4, <1>5, <1>6 DEF Core

(***************************************************************************)
(* A registration is sent.                                                 *)
(***************************************************************************)
LEMMA RegisterIs ==
  ASSUME NEW w, Core(w), w.sock # 0, NEW of \in {"login", "recover"}, NEW force,
         \A t : ~Waits(w, t),
         \A t \in w.tasks : t.of = of => t.gen # w.gen /\ of # "login",
         of = "login" => w.view = "login",
         of = "recover" => w.view = "app"
  PROVE  Good(S!Register(w, of, force))
<1> DEFINE v == S!Register(w, of, force)
           f == S!Fresh(w)
           x == [S!Task(w, of, "register") EXCEPT !.n = f]
           m == [what |-> "register", of |-> of, gen |-> w.gen, sock |-> w.sock, n |-> f, force |-> force, prod |-> w.prod]
           k == Len(w.sent) + 1
<1>1. /\ DOMAIN v = Names /\ SameBut(w, v, {"tasks", "sent"})
      /\ v.tasks = w.tasks \cup {x} /\ v.sent = Append(w.sent, m)
  BY DEF S!Register, Core, Types, SameBut, Names
<1>2. IsFiniteSet(w.tasks) /\ IsRow(w.sent) /\ IsRow(w.acks) /\ w.gen \in Nat
  BY DEF Core, Types, Calls, SignRequests, Numbered
<1>3. /\ f \in Nat \ {0}
      /\ \A i \in 1 .. Len(w.sent) : w.sent[i].n # f
      /\ \A i \in 1 .. Len(w.acks) : w.acks[i].n # f
  BY <1>2, SignFreshIs
<1> HIDE DEF v, f
<1>4. /\ IsTask(x) /\ x.of = of /\ x.at = "register" /\ x.gen = w.gen /\ x.n = f
      /\ m.what = "register" /\ m.of = of /\ m.gen = w.gen /\ m.sock = w.sock /\ m.n = f
  BY <1>2 DEF S!Task, IsTask
<1> HIDE DEF x, m
<1>5. /\ IsRow(v.sent) /\ Len(w.sent) \in Nat /\ Len(v.sent) = k /\ v.sent[k] = m
      /\ \A i \in 1 .. Len(w.sent) : v.sent[i] = w.sent[i]
  BY <1>1, <1>2, AppendTo
<1>6. /\ v.sock = w.sock /\ v.gen = w.gen /\ v.hand = w.hand /\ v.view = w.view /\ v.acks = w.acks /\ v.cookie = w.cookie
      /\ v.valid = w.valid /\ v.holder = w.holder /\ v.init = w.init /\ v.media = w.media
  BY <1>1 DEF SameBut, Names
<1>7. Types(v)
  BY <1>1, <1>6 DEF Core, Types
<1>8. \A i \in 1 .. k : i \in 1 .. Len(w.sent) \/ i = k
  BY <1>5
<1>9. SignRequests(v)
  <2>1. w.sock \in 1 .. Connections /\ w.hand[w.sock] # 0
    BY DEF Core, Types
  <2>2. ASSUME NEW i \in 1 .. Len(v.sent)
        PROVE  /\ v.sent[i].gen \in Nat /\ v.sent[i].gen <= v.gen
               /\ v.sent[i].sock \in 1 .. Connections /\ v.hand[v.sent[i].sock] # 0
               /\ v.sent[i].what \in {"register", "switch"}
               /\ v.sent[i].what = "switch" <=> v.sent[i].n = 0
               /\ v.sent[i].what = "switch" <=> v.sent[i].of = "switch"
    <3>1. CASE i \in 1 .. Len(w.sent)
      BY <1>5, <1>6, <3>1 DEF Core, SignRequests
    <3>2. CASE i = k
      BY <1>2, <1>3, <1>4, <1>5, <1>6, <2>1, <3>2
    <3> QED BY <1>5, <1>8, <3>1, <3>2
  <2>3. ASSUME NEW i \in 1 .. Len(v.sent), NEW j \in 1 .. Len(v.sent), i < j PROVE v.sent[i].gen <= v.sent[j].gen
    <3>1. i \in 1 .. Len(w.sent)
      BY <1>5, <2>3
    <3>2. CASE j = k
      BY <1>4, <1>5, <1>6, <3>1, <3>2 DEF Core, SignRequests
    <3>3. CASE j \in 1 .. Len(w.sent)
      BY <1>5, <2>3, <3>1, <3>3 DEF Core, SignRequests
    <3> QED BY <1>5, <1>8, <3>2, <3>3
  <2> QED BY <1>5, <2>2, <2>3 DEF SignRequests
<1>10. Calls(v)
  <2>1. IsFiniteSet(v.tasks)
    BY <1>1, <1>2, FS_AddElement
  <2>2. \A t \in v.tasks :
          /\ IsTask(t) /\ t.gen <= v.gen /\ <<t.of, t.at>> \in Stages
          /\ t.at = "switch" => t.n = 0
          /\ t.at = "register" => t.n # 0
          /\ t.of = "recover" \/ t.at = "media" => v.view = "app"
          /\ t.of = "login" /\ t.at # "media" => v.view = "login"
    <3>1. <<x.of, x.at>> \in Stages
      BY <1>4 DEF Stages
    <3>2. x.gen <= v.gen
      BY <1>2, <1>4, <1>6
    <3> QED BY <1>1, <1>3, <1>4, <1>6, <3>1, <3>2 DEF Core, Calls
  <2>3. \A t, u \in v.tasks : t.of = u.of /\ (t.of = "login" \/ (t.gen = v.gen /\ u.gen = v.gen)) => t = u
    BY <1>1, <1>4, <1>6 DEF Core, Calls
  <2> QED BY <2>1, <2>2, <2>3 DEF Calls
<1>11. Apart(v)
  BY <1>6 DEF Apart
<1>12. Numbered(v)
  <2>0. Switching(w) => Switching(v)
    BY <1>1, <1>6 DEF Switching
  <2>1. \A i \in 1 .. Len(v.sent) : v.sent[i].gen = v.gen <=> v.sent[i].sock = v.sock
    <3>1. \A i \in 1 .. Len(w.sent) : w.sent[i].gen = w.gen <=> w.sent[i].sock = w.sock
      BY DEF Core, Numbered
    <3> QED BY <1>4, <1>5, <1>6, <1>8, <3>1
  <2>2. IsRow(v.acks) /\ \A l \in 1 .. Len(v.acks) :
          /\ IsAnswer(v.acks[l]) /\ v.acks[l].gen = v.gen
          /\ v.acks[l].of = "switch" <=> v.acks[l].n = 0
    BY <1>6 DEF Core, Numbered
  <2>3. \A i, j \in 1 .. Len(v.sent) :
          i # j /\ v.sent[i].gen = v.gen /\ v.sent[j].gen = v.gen => v.sent[i].n # v.sent[j].n
    <3>1. \A i, j \in 1 .. Len(w.sent) :
            i # j /\ w.sent[i].gen = w.gen /\ w.sent[j].gen = w.gen => w.sent[i].n # w.sent[j].n
      BY DEF Core, Numbered
    <3>2. ASSUME NEW i \in 1 .. Len(v.sent), NEW j \in 1 .. Len(v.sent), i # j, v.sent[i].gen = v.gen, v.sent[j].gen = v.gen
          PROVE  v.sent[i].n # v.sent[j].n
      <4>1. CASE i = k
        BY <1>3, <1>4, <1>5, <1>8, <3>2, <4>1
      <4>2. CASE j = k
        BY <1>3, <1>4, <1>5, <1>8, <3>2, <4>2
      <4>3. CASE i \in 1 .. Len(w.sent) /\ j \in 1 .. Len(w.sent)
        <5>1. v.sent[i] = w.sent[i] /\ v.sent[j] = w.sent[j] /\ v.gen = w.gen
          BY <1>5, <1>6, <4>3
        <5> HIDE DEF k
        <5> QED BY <3>1, <3>2, <4>3, <5>1
      <4> QED BY <1>5, <1>8, <4>1, <4>2, <4>3
    <3> QED BY <3>2
  <2>4. \A i \in 1 .. Len(v.sent), l \in 1 .. Len(v.acks) : v.sent[i].gen = v.gen => v.sent[i].n # v.acks[l].n
    <3>1. \A i \in 1 .. Len(w.sent), l \in 1 .. Len(w.acks) : w.sent[i].gen = w.gen => w.sent[i].n # w.acks[l].n
      BY DEF Core, Numbered
    <3>2. ASSUME NEW i \in 1 .. Len(v.sent), NEW l \in 1 .. Len(v.acks), v.sent[i].gen = v.gen
          PROVE  v.sent[i].n # v.acks[l].n
      <4>1. CASE i = k
        BY <1>3, <1>4, <1>5, <1>6, <4>1
      <4>2. CASE i \in 1 .. Len(w.sent)
        BY <1>5, <1>6, <3>1, <3>2, <4>2
      <4> QED BY <1>5, <1>8, <4>1, <4>2
    <3> QED BY <3>2
  <2>5. \A l, j \in 1 .. Len(v.acks) : l # j => v.acks[l].n # v.acks[j].n
    BY <1>6 DEF Core, Numbered
  <2>6. \A i \in 1 .. Len(v.sent) : v.sent[i].gen = v.gen /\ v.sent[i].what = "switch" => Switching(v)
    <3>1. \A i \in 1 .. Len(w.sent) : w.sent[i].gen = w.gen /\ w.sent[i].what = "switch" => Switching(w)
      BY DEF Core, Numbered
    <3> QED BY <1>4, <1>5, <1>6, <1>8, <2>0, <3>1
  <2>7. \A l \in 1 .. Len(v.acks) : v.acks[l].of = "switch" => Switching(v)
    BY <1>6, <2>0 DEF Core, Numbered
  <2> QED BY <2>1, <2>2, <2>3, <2>4, <2>5, <2>6, <2>7 DEF Numbered
<1>13. \A t : Waits(v, t) => t = x
  BY <1>1, <1>6 DEF Waits
<1>14. Latest(v)
  <2>1. ASSUME NEW i \in 1 .. Len(v.sent), v.sent[i].n = x.n
        PROVE  v.sent[i].of = x.of /\ \A j \in 1 .. Len(v.sent) : j > i => v.sent[j].what = "switch"
    <3>1. i = k
      BY <1>3, <1>4, <1>5, <1>8, <2>1
    <3> QED BY <1>4, <1>5, <3>1
  <2>2. \A l \in 1 .. Len(v.acks) : v.acks[l].n # x.n
    BY <1>3, <1>4, <1>6
  <2> QED BY <1>13, <2>1, <2>2 DEF Latest
<1>15. Signed(v)
  <2> SUFFICES ASSUME NEW t, AtMedia(v, t), t.of = "recover" PROVE FALSE
    BY DEF Signed
  <2>1. t \in w.tasks /\ t.gen = w.gen /\ w.view = "app"
    BY <1>1, <1>4, <1>6 DEF AtMedia, Core, Calls
  <2> QED BY <2>1
<1>16. Main(v)
  <2>1. of = "recover" => S!Recovering(v)
    BY <1>1, <1>4, <1>6 DEF S!Recovering
  <2> QED BY <1>6, <2>1 DEF Main
<1> QED BY <1>7, <1>9, <1>10, <1>11, <1>12, <1>14, <1>15, <1>16 DEF Good, Core, v

\* The calls that wait on the present connection, by what the page shows.
LEMMA OneWaits ==
  ASSUME NEW w, Core(w)
  PROVE  /\ \A t : Waits(w, t) => (t.of = "login" /\ w.view = "login") \/ (t.of = "recover" /\ w.view = "app")
         /\ \A t, u : Waits(w, t) /\ Waits(w, u) => t = u
         /\ \A t : Waits(w, t) /\ t.of = "recover" => S!Recovering(w)
         /\ w.view = "app" /\ ~S!Recovering(w) => \A t : ~Waits(w, t)
<1>1. ASSUME NEW t, Waits(w, t) PROVE (t.of = "login" /\ w.view = "login") \/ (t.of = "recover" /\ w.view = "app")
  <2>1. t \in w.tasks /\ t.at = "register" /\ <<t.of, t.at>> \in Stages
    BY <1>1 DEF Waits, Core, Calls
  <2>2. t.of \in {"login", "recover"}
    BY <2>1 DEF Stages
  <2> QED BY <2>1, <2>2 DEF Core, Calls
<1>2. \A t, u : Waits(w, t) /\ Waits(w, u) => t.of = u.of
  BY <1>1
<1>3. \A t, u : Waits(w, t) /\ Waits(w, u) => t = u
  BY <1>2 DEF Waits, Core, Calls
<1>4. \A t : Waits(w, t) /\ t.of = "recover" => S!Recovering(w)
  BY DEF Waits, S!Recovering
<1> QED BY <1>1, <1>3, <1>4

\* recoverConnectedSession.
LEMMA RecoverIs ==
  ASSUME NEW w, Core(w) PROVE Good(S!Recover(w))
<1>1. CASE S!Recovering(w) \/ w.sock = 0 \/ w.view = "ended"
  <2>1. Main(w)
    BY <1>1 DEF Main
  <2> QED BY <1>1, <2>1 DEF S!Recover, Good
<1>2. CASE ~(S!Recovering(w) \/ w.sock = 0 \/ w.view = "ended") /\ w.view = "app"
  <2>1. PICK of \in {"login", "recover"} : of = "recover"
    OBVIOUS
  <2>2. \A t : ~Waits(w, t)
    BY <1>2, OneWaits
  <2>3. \A t \in w.tasks : t.of = of => t.gen # w.gen /\ of # "login"
    BY <1>2, <2>1 DEF S!Recovering
  <2>4. Good(S!Register(w, of, FALSE))
    BY <1>2, <2>1, <2>2, <2>3, RegisterIs
  <2> QED BY <1>2, <2>1, <2>4 DEF S!Recover
<1>3. CASE ~(S!Recovering(w) \/ w.sock = 0 \/ w.view = "ended") /\ w.view # "app"
  <2> DEFINE v == [w EXCEPT !.previous = 0, !.timer = FALSE]
  <2>1. DOMAIN v = Names /\ SameBut(w, v, {"previous", "timer"})
    BY DEF Core, Types, SameBut, Names
  <2> HIDE DEF v
  <2>2. /\ SameBut(w, v, Aside) /\ v.view = w.view /\ v.cookie = w.cookie /\ v.valid = w.valid /\ v.init = w.init
        /\ v.sock = w.sock /\ v.media = w.media
    BY <2>1 DEF SameBut, Names, Aside
  <2>3. v.cookie # 0 /\ IsFiniteSet(v.valid) /\ (v.init # S!NoInit \/ v.sock = 0 => ~v.media)
    BY <2>2 DEF Core, Types
  <2>4. Core(v)
    BY <2>1, <2>2, <2>3, SignAsideKeeps
  <2>5. Main(v)
    BY <1>3, <2>2 DEF Main
  <2>6. S!Recover(w) = v
    BY <1>3 DEF S!Recover, v
  <2> QED BY <2>4, <2>5, <2>6 DEF Good
<1> QED BY <1>1, <1>2, <1>3

(***************************************************************************)
(* Calls that end.                                                         *)
(***************************************************************************)
\* With the same requests and answers on their way.
LEMMA EndedIs ==
  ASSUME NEW w, Core(w), NEW v, Types(v),
         v.sock = w.sock, v.gen = w.gen, v.hand = w.hand, v.view = w.view, v.sent = w.sent, v.acks = w.acks,
         v.tasks \subseteq w.tasks,
         Switching(w) => Switching(v),
         \A t : v.sock # 0 /\ (Waits(v, t) \/ (AtMedia(v, t) /\ t.of = "recover")) /\ SignJoined(w) => SignJoined(v)
  PROVE  Core(v)
<1>1. IsRow(v.sent) /\ IsRow(v.acks) /\ (v.sock = 0 => v.acks = <<>>)
  BY NoneIs DEF Core, SignRequests, Apart, Numbered
<1>2. PICK d \in {0, 1} : d = 0
  OBVIOUS
<1>3. Len(v.sent) \in Nat /\ Len(v.acks) \in Nat
  BY <1>1, LenIs
<1>4. /\ Len(v.sent) = Len(w.sent) - d /\ \A i \in 1 .. Len(v.sent) : v.sent[i] = w.sent[i + d]
      /\ Len(v.acks) = Len(w.acks) - d /\ \A k \in 1 .. Len(v.acks) : v.acks[k] = w.acks[k + d]
  BY <1>2, <1>3
<1>5. v.sock # 0 =>
        /\ \A i \in 1 .. Len(v.sent) : v.sent[i].gen = v.gen /\ v.sent[i].what = "switch" => Switching(v)
        /\ \A k \in 1 .. Len(v.acks) : v.acks[k].of = "switch" => Switching(v)
  BY DEF Core, Numbered
<1> QED BY <1>1, <1>4, <1>5, LessIs

\* ensureMediaInitialized has ended.
LEMMA MediaEndsIs ==
  ASSUME NEW w, Good(w), NEW u, DOMAIN u = Names, SameBut(w, u, {"media", "mgen"}),
         NEW ok \in BOOLEAN,
         ok => u.media /\ w.sock # 0,
         ~ok => ~u.media /\ ~w.media
  PROVE  Good(S!MediaEnds(u, ok))
<1> DEFINE waiting == {t \in u.tasks : t.at = "media"}
           now == \E t \in waiting : t.of = "recover" /\ t.gen = u.gen
           a == [u EXCEPT !.tasks = @ \ waiting, !.init = S!NoInit]
           b == [a EXCEPT !.timer = FALSE, !.previous = 0]
           c == S!Schedule(a)
           q == S!MediaEnds(u, ok)
<1>1. q = IF ok THEN IF now THEN b ELSE a
          ELSE IF now \/ \E t \in waiting : t.of = "login" THEN c ELSE a
  BY DEF S!MediaEnds
<1>2. SameBut(w, u, Aside) /\ u.tasks = w.tasks /\ u.gen = w.gen /\ u.sock = w.sock /\ u.view = w.view
      /\ u.timer = w.timer
  BY DEF SameBut, Names, Aside
<1>3. /\ DOMAIN a = Names /\ SameBut(u, a, {"tasks", "init"})
      /\ a.tasks = u.tasks \ waiting /\ a.init = S!NoInit
  BY DEF SameBut, Names
<1> HIDE DEF a
<1>4. DOMAIN b = Names /\ SameBut(a, b, {"timer", "previous"}) /\ b.timer = FALSE
  BY <1>3 DEF SameBut, Names
<1> HIDE DEF b
<1>5. DOMAIN c = Names /\ SameBut(a, c, {"timer"}) /\ c.timer = IF a.view = "app" THEN TRUE ELSE a.timer
  BY <1>3 DEF S!Schedule, SameBut, Names
<1> HIDE DEF c, q
<1>6. /\ DOMAIN q = Names /\ SameBut(a, q, {"timer", "previous"})
      /\ q.timer = IF ok THEN IF now THEN FALSE ELSE a.timer
                   ELSE IF (now \/ \E t \in waiting : t.of = "login") /\ a.view = "app" THEN TRUE ELSE a.timer
  BY <1>1, <1>3, <1>4, <1>5 DEF SameBut, Names
<1>7. /\ q.sock = w.sock /\ q.gen = w.gen /\ q.hand = w.hand /\ q.view = w.view /\ q.sent = w.sent /\ q.acks = w.acks
      /\ q.holder = w.holder /\ q.served = w.served /\ q.prod = w.prod /\ q.cookie = w.cookie /\ q.valid = w.valid
      /\ q.media = u.media /\ q.init = S!NoInit /\ q.tasks = w.tasks \ waiting /\ a.timer = w.timer /\ a.view = w.view
  BY <1>2, <1>3, <1>6 DEF SameBut, Names
<1>8. waiting = {t \in w.tasks : t.at = "media"}
  BY <1>2
<1>9. now <=> \E t \in w.tasks : t.at = "media" /\ t.of = "recover" /\ t.gen = w.gen
  BY <1>2
<1>10. (\E t \in waiting : t.of = "login") <=> \E t \in w.tasks : t.at = "media" /\ t.of = "login"
  BY <1>2
<1> DEFINE login == \E t \in waiting : t.of = "login"
<1> HIDE DEF waiting, now, login
<1>11. Types(q)
  BY <1>6, <1>7 DEF Good, Core, Types
<1>12. \A t : ~AtMedia(q, t)
  BY <1>7, <1>8 DEF AtMedia
<1>13. SignJoined(w) => SignJoined(q)
  <2>1. Handled(w) => Handled(q)
    BY <1>7 DEF Handled
  <2>2. \A k : Waiter(w.acks[k]) \in w.tasks => Waiter(q.acks[k]) \in q.tasks
    BY <1>7, <1>8 DEF Waiter
  <2>3. Agreed(w) => Agreed(q)
    BY <1>7, <2>2 DEF Agreed, LastOk
  <2> QED BY <1>7, <2>1, <2>3 DEF SignJoined
<1>14. Core(q)
  <2>1. Switching(w) => Switching(q)
    <3>1. \A t \in w.tasks : t.of = "switch" => t.at # "media"
      BY DEF Good, Core, Calls, Stages
    <3> QED BY <1>7, <1>8, <3>1 DEF Switching
  <2> QED BY <1>7, <1>11, <1>13, <2>1, EndedIs DEF Good
<1>15. Main(q)
  <2> SUFFICES ASSUME q.view = "app", q.sock # 0
               PROVE  q.timer \/ S!Recovering(q) \/ (SignJoined(q) /\ q.media)
    BY DEF Main
  <2>0. w.timer \/ S!Recovering(w) \/ (SignJoined(w) /\ (w.media \/ \E t : AtMedia(w, t)))
    BY <1>7 DEF Good, Main
  <2>1. S!Recovering(w) /\ ~now => S!Recovering(q)
    BY <1>7, <1>8, <1>9 DEF S!Recovering
  <2>2. CASE ok
    <3>1. CASE now
      <4>1. SignJoined(w)
        BY <1>7, <1>9, <3>1 DEF Good, Core, Signed, AtMedia
      <4> QED BY <1>7, <1>13, <2>2, <4>1
    <3>2. CASE ~now
      BY <1>6, <1>7, <1>13, <2>0, <2>1, <2>2, <3>2
    <3> QED BY <3>1, <3>2
  <2>3. CASE ~ok
    <3>1. CASE now \/ login
      BY <1>6, <1>7, <2>3, <3>1 DEF login
    <3>2. CASE ~now /\ ~login
      <4>1. \A t : ~AtMedia(w, t)
        <5> SUFFICES ASSUME NEW t, AtMedia(w, t) PROVE FALSE
          OBVIOUS
        <5>1. t \in w.tasks /\ t.at = "media" /\ t.gen = w.gen /\ <<t.of, t.at>> \in Stages
          BY DEF AtMedia, Good, Core, Calls
        <5>2. t.of \in {"login", "recover"}
          BY <5>1 DEF Stages
        <5> QED BY <1>9, <1>10, <3>2, <5>1, <5>2 DEF login
      <4> QED BY <1>6, <1>7, <2>0, <2>1, <2>3, <3>2, <4>1 DEF login
    <3> QED BY <3>1, <3>2
  <2> QED BY <2>2, <2>3
<1> QED BY <1>14, <1>15 DEF Good, q

(***************************************************************************)
(* An answer is heard.                                                     *)
(***************************************************************************)
\* The answer a page hears first, and the call it is for.
LEMMA FirstIs ==
  ASSUME NEW w, Core(w), w.acks # <<>>
  PROVE  LET ack == w.acks[1] IN
         /\ w.sock # 0 /\ IsRow(w.acks) /\ Len(w.acks) \in Nat \ {0} /\ Head(w.acks) = ack
         /\ IsRow(Tail(w.acks)) /\ Len(Tail(w.acks)) = Len(w.acks) - 1
         /\ \A k \in 1 .. Len(w.acks) - 1 : Tail(w.acks)[k] = w.acks[k + 1]
         /\ IsAnswer(ack) /\ ack.gen = w.gen
         /\ \A k \in 2 .. Len(w.acks) : w.acks[k].n # ack.n
<1>1. w.sock # 0 /\ IsRow(w.acks)
  BY DEF Core, Apart, Numbered
<1>2. /\ Len(w.acks) \in Nat \ {0} /\ Head(w.acks) = w.acks[1]
      /\ IsRow(Tail(w.acks)) /\ Len(Tail(w.acks)) = Len(w.acks) - 1
      /\ \A k \in 1 .. Len(w.acks) - 1 : Tail(w.acks)[k] = w.acks[k + 1]
  BY <1>1, SignTailIs
<1>3. 1 \in 1 .. Len(w.acks) /\ \A k \in 2 .. Len(w.acks) : k \in 1 .. Len(w.acks) /\ k # 1
  BY <1>2
<1>4. IsAnswer(w.acks[1]) /\ w.acks[1].gen = w.gen
  BY <1>1, <1>3 DEF Core, Numbered
<1>5. \A k, l \in 1 .. Len(w.acks) : k # l => w.acks[k].n # w.acks[l].n
  BY <1>1 DEF Core, Numbered
<1> QED BY <1>1, <1>2, <1>3, <1>4, <1>5

\* What the page will have heard in the end does not change when it hears.
LEMMA AgreedHears ==
  ASSUME NEW w, Core(w), w.acks # <<>>, Agreed(w), NEW v,
         v.acks = Tail(w.acks), v.served = w.served,
         Waiter(w.acks[1]) \in w.tasks => v.tasks = w.tasks \ {Waiter(w.acks[1])},
         Waiter(w.acks[1]) \notin w.tasks => v.tasks = w.tasks,
         v.prod = IF w.acks[1].is = "ok" /\ Waiter(w.acks[1]) \in w.tasks THEN w.acks[1].prod ELSE w.prod
  PROVE  Agreed(v)
<1>1. /\ Len(w.acks) \in Nat \ {0} /\ Len(v.acks) = Len(w.acks) - 1
      /\ \A k \in 1 .. Len(w.acks) - 1 : v.acks[k] = w.acks[k + 1]
      /\ \A k \in 2 .. Len(w.acks) : w.acks[k].n # w.acks[1].n
  BY FirstIs
<1>2. CASE (\A k \in 1 .. Len(w.acks) : w.acks[k].is # "ok") /\ w.served = w.prod
  <2>1. \A k \in 1 .. Len(v.acks) : k + 1 \in 1 .. Len(w.acks) /\ v.acks[k] = w.acks[k + 1]
    BY <1>1
  <2>2. 1 \in 1 .. Len(w.acks)
    BY <1>1
  <2> QED BY <1>2, <2>1, <2>2 DEF Agreed
<1>3. ASSUME NEW k \in 1 .. Len(w.acks), LastOk(w, k), w.acks[k].prod = w.served, Waiter(w.acks[k]) \in w.tasks
      PROVE  Agreed(v)
  <2>1. CASE k = 1
    <3>1. \A l \in 1 .. Len(v.acks) : l + 1 \in 1 .. Len(w.acks) /\ l + 1 > k /\ v.acks[l] = w.acks[l + 1]
      BY <1>1, <2>1
    <3>2. \A l \in 1 .. Len(v.acks) : v.acks[l].is # "ok"
      BY <1>3, <3>1 DEF LastOk
    <3>3. v.prod = v.served
      BY <1>3, <2>1 DEF LastOk
    <3> QED BY <3>2, <3>3 DEF Agreed
  <2>2. CASE k # 1
    <3>1. k - 1 \in 1 .. Len(v.acks) /\ k - 1 \in 1 .. Len(w.acks) - 1 /\ (k - 1) + 1 = k /\ k \in 2 .. Len(w.acks)
      BY <1>1, <2>2
    <3>2. v.acks[k - 1] = w.acks[k]
      BY <1>1, <3>1
    <3>3. \A l \in 1 .. Len(v.acks) : l > k - 1 => l + 1 \in 1 .. Len(w.acks) /\ l + 1 > k /\ v.acks[l] = w.acks[l + 1]
      BY <1>1
    <3>4. LastOk(v, k - 1)
      <4>1. \A l \in 1 .. Len(v.acks) : l > k - 1 => v.acks[l].is # "ok"
        BY <1>3, <3>3 DEF LastOk
      <4> QED BY <1>3, <3>2, <4>1 DEF LastOk
    <3>5. Waiter(w.acks[k]) # Waiter(w.acks[1])
      BY <1>1, <3>1 DEF Waiter
    <3>6. Waiter(v.acks[k - 1]) \in v.tasks
      BY <1>3, <3>2, <3>5
    <3> QED BY <1>3, <3>1, <3>2, <3>4, <3>6 DEF Agreed
  <2> QED BY <2>1, <2>2
<1> QED BY <1>2, <1>3 DEF Agreed

\* The call that an answer was for has ended.
LEMMA HeardIs ==
  ASSUME NEW w, Good(w), w.acks # <<>>, NEW v, DOMAIN v = Names, SameBut(w, v, {"acks", "tasks", "prod"}),
         v.acks = Tail(w.acks),
         Waiter(w.acks[1]) \in w.tasks => v.tasks = w.tasks \ {Waiter(w.acks[1])},
         Waiter(w.acks[1]) \notin w.tasks => v.tasks = w.tasks,
         v.prod = IF w.acks[1].is = "ok" /\ Waiter(w.acks[1]) \in w.tasks THEN w.acks[1].prod ELSE w.prod
  PROVE  /\ Core(v) /\ (SignJoined(w) => SignJoined(v)) /\ (\A t : AtMedia(v, t) <=> AtMedia(w, t))
         /\ w.acks[1].of = "switch" \/ Waiter(w.acks[1]) \notin w.tasks => Good(v)
<1> DEFINE ack == w.acks[1]
           x == Waiter(ack)
<1>1. /\ w.sock # 0 /\ IsRow(w.acks) /\ Len(w.acks) \in Nat \ {0}
      /\ IsRow(v.acks) /\ Len(v.acks) = Len(w.acks) - 1
      /\ \A k \in 1 .. Len(w.acks) - 1 : v.acks[k] = w.acks[k + 1]
      /\ IsAnswer(ack) /\ ack.gen = w.gen
      /\ \A k \in 2 .. Len(w.acks) : w.acks[k].n # ack.n
  BY FirstIs DEF Good
<1>2. /\ v.sock = w.sock /\ v.gen = w.gen /\ v.hand = w.hand /\ v.view = w.view /\ v.sent = w.sent
      /\ v.holder = w.holder /\ v.served = w.served /\ v.cookie = w.cookie /\ v.valid = w.valid
      /\ v.init = w.init /\ v.media = w.media /\ v.timer = w.timer
  BY DEF SameBut, Names
<1>3. Core(w)
  BY DEF Good
<1>4. SignJoined(w) => SignJoined(v)
  <2>1. Agreed(w) => Agreed(v)
    BY <1>2, <1>3, AgreedHears
  <2> QED BY <1>2, <2>1 DEF SignJoined, Handled
<1>5. Types(v)
  BY <1>2, <1>3 DEF Core, Types
<1>6. x.of = ack.of /\ x.gen = ack.gen /\ x.n = ack.n /\ x.at = (IF ack.of = "switch" THEN "switch" ELSE "register")
  BY DEF Waiter
<1> HIDE DEF x
<1>7. x.at # "media"
  BY <1>6
<1>8. ack.of # "switch" \/ x \notin w.tasks => (Switching(w) => Switching(v))
  BY <1>2, <1>6 DEF Switching, x
<1>9. v.sock # 0 =>
        /\ \A i \in 1 .. Len(v.sent) : v.sent[i].gen = v.gen /\ v.sent[i].what = "switch" => Switching(v)
        /\ \A k \in 1 .. Len(v.acks) : v.acks[k].of = "switch" => Switching(v)
  <2>1. CASE ack.of = "switch"
    <3>0. ack.n = 0
      <4>1. 1 \in 1 .. Len(w.acks)
        BY <1>1
      <4> QED BY <1>1, <1>3, <2>1, <4>1 DEF Core, Numbered
    <3>1. \A i \in 1 .. Len(v.sent) : ~(v.sent[i].gen = v.gen /\ v.sent[i].what = "switch")
      <4> SUFFICES ASSUME NEW i \in 1 .. Len(w.sent), w.sent[i].gen = w.gen, w.sent[i].what = "switch" PROVE FALSE
        BY <1>2
      <4>1. w.sent[i].n = 0
        BY <1>3 DEF Core, SignRequests
      <4>2. w.sent[i].n # ack.n
        <5>1. 1 \in 1 .. Len(w.acks)
          BY <1>1
        <5> QED BY <1>1, <1>3, <5>1 DEF Core, Numbered
      <4> QED BY <3>0, <4>1, <4>2
    <3>2. \A k \in 1 .. Len(v.acks) : v.acks[k].of # "switch"
      <4> SUFFICES ASSUME NEW k \in 1 .. Len(v.acks), v.acks[k].of = "switch" PROVE FALSE
        OBVIOUS
      <4>1. k + 1 \in 2 .. Len(w.acks) /\ k + 1 \in 1 .. Len(w.acks) /\ v.acks[k] = w.acks[k + 1]
        BY <1>1
      <4>2. w.acks[k + 1].n = 0
        BY <1>1, <1>3, <4>1 DEF Core, Numbered
      <4> QED BY <1>1, <3>0, <4>1, <4>2
    <3> QED BY <3>1, <3>2
  <2>2. CASE ack.of # "switch"
    <3>1. Switching(w) => Switching(v)
      BY <1>8, <2>2
    <3>2. \A k \in 1 .. Len(v.acks) : k + 1 \in 1 .. Len(w.acks) /\ v.acks[k] = w.acks[k + 1]
      BY <1>1
    <3> QED BY <1>2, <1>3, <3>1, <3>2 DEF Core, Numbered
  <2> QED BY <2>1, <2>2
<1>10. Core(v)
  <2>1. PICK d \in {0, 1} : d = 0
    OBVIOUS
  <2>2. PICK e \in {0, 1} : e = 1
    OBVIOUS
  <2>3. IsRow(v.sent) /\ Len(v.sent) \in Nat
    BY <1>2, <1>3, LenIs DEF Core, SignRequests
  <2>4. /\ Len(v.sent) = Len(w.sent) - d /\ \A i \in 1 .. Len(v.sent) : v.sent[i] = w.sent[i + d]
        /\ Len(v.acks) = Len(w.acks) - e /\ \A k \in 1 .. Len(v.acks) : v.acks[k] = w.acks[k + e]
    BY <1>1, <1>2, <2>1, <2>2, <2>3
  <2>5. v.tasks \subseteq w.tasks
    BY DEF x
  <2> HIDE DEF ack
  <2> QED BY <1>1, <1>2, <1>3, <1>4, <1>5, <1>9, <2>3, <2>4, <2>5, LessIs
<1>11. \A t : AtMedia(v, t) <=> AtMedia(w, t)
  BY <1>2, <1>7 DEF AtMedia, x
<1>12. ASSUME ack.of = "switch" \/ x \notin w.tasks PROVE Good(v)
  <2>1. S!Recovering(w) => S!Recovering(v)
    BY <1>2, <1>6, <1>12 DEF S!Recovering, x
  <2>2. Main(v)
    BY <1>2, <1>4, <1>11, <2>1 DEF Good, Main
  <2> QED BY <1>10, <2>2 DEF Good
<1> QED BY <1>4, <1>10, <1>11, <1>12 DEF x

\* A registration succeeded, and its call goes on to the media.
LEMMA SignedOnIs ==
  ASSUME NEW w, Good(w), w.acks # <<>>, w.acks[1].is = "ok", w.acks[1].of # "switch", Waiter(w.acks[1]) \in w.tasks,
         NEW h, DOMAIN h = Names, SameBut(w, h, {"acks", "tasks", "prod"}), h.acks = Tail(w.acks),
         h.tasks = w.tasks \ {Waiter(w.acks[1])}, h.prod = w.acks[1].prod,
         NEW u, DOMAIN u = Names, SameBut(h, u, {"view", "tasks"}), u.view = "app",
         u.tasks = h.tasks \cup {S!Task(h, w.acks[1].of, "media")}
  PROVE  Good(u) /\ u.sock # 0
<1> DEFINE ack == w.acks[1]
           x == Waiter(ack)
           y == S!Task(h, ack.of, "media")
<1>1. /\ w.sock # 0 /\ Len(w.acks) \in Nat \ {0} /\ 1 \in 1 .. Len(w.acks) /\ IsAnswer(ack) /\ ack.gen = w.gen
  BY FirstIs DEF Good
<1>2. Core(w)
  BY DEF Good
<1>3. Core(h) /\ (SignJoined(w) => SignJoined(h))
  BY HeardIs
<1>4. /\ h.sock = w.sock /\ h.gen = w.gen /\ h.view = w.view
  BY DEF SameBut, Names
<1>5. /\ u.sock = h.sock /\ u.gen = h.gen /\ u.hand = h.hand /\ u.sent = h.sent /\ u.acks = h.acks /\ u.holder = h.holder
      /\ u.served = h.served /\ u.prod = h.prod /\ u.cookie = h.cookie /\ u.valid = h.valid /\ u.init = h.init
      /\ u.media = h.media
  BY DEF SameBut, Names
<1>6. /\ x.of = ack.of /\ x.gen = ack.gen /\ x.n = ack.n /\ x.at = "register"
  BY DEF Waiter
<1>7. h.gen \in Nat
  BY <1>3 DEF Core, Types
<1>8. IsTask(y) /\ y.of = ack.of /\ y.at = "media" /\ y.gen = w.gen
  BY <1>4, <1>7 DEF S!Task, IsTask
<1> HIDE DEF x, y
<1>9. Waits(w, x)
  BY <1>1, <1>6 DEF Waits, x
<1>10. (x.of = "login" /\ w.view = "login") \/ (x.of = "recover" /\ w.view = "app")
  BY <1>2, <1>9, OneWaits
<1>11. SignJoined(h)
  BY <1>1, <1>2, <1>3, <1>6, <1>9 DEF Core, Latest
<1>12. \A t : ~Waits(h, t)
  <2>1. \A t : Waits(h, t) => Waits(w, t) /\ t # x
    BY <1>4 DEF Waits, x
  <2> QED BY <1>2, <1>9, <2>1, OneWaits
<1>13. u.tasks = h.tasks \cup {y} /\ h.tasks = w.tasks \ {x}
  BY DEF x, y
<1>14. Types(u)
  BY <1>1, <1>3, <1>4, <1>5 DEF Core, Types
<1>15. SignRequests(u)
  BY <1>3, <1>5 DEF Core, SignRequests
<1>16. Calls(u)
  <2>1. IsFiniteSet(u.tasks)
    <3>1. IsFiniteSet(h.tasks)
      BY <1>3 DEF Core, Calls
    <3> QED BY <1>13, <3>1, FS_AddElement
  <2>2. <<y.of, y.at>> \in Stages
    BY <1>6, <1>8, <1>10 DEF Stages
  <2>3. ASSUME NEW t \in h.tasks
        PROVE  ~(t.of = "login" /\ t.at # "media") /\ ~(t.of = y.of /\ (t.of = "login" \/ t.gen = w.gen))
    <3>1. t \in w.tasks /\ t # x /\ x \in w.tasks /\ x.gen = w.gen
      BY <1>9, <1>13 DEF Waits
    <3>2. ~(t.of = x.of /\ (t.of = "login" \/ (t.gen = w.gen /\ x.gen = w.gen)))
      BY <1>2, <3>1 DEF Core, Calls
    <3>3. t.of = "login" /\ t.at # "media" => w.view = "login"
      BY <1>2, <3>1 DEF Core, Calls
    <3>4. ~(t.of = y.of /\ (t.of = "login" \/ t.gen = w.gen))
      BY <1>6, <1>8, <3>1, <3>2
    <3>5. ~(t.of = "login" /\ t.at # "media")
      BY <1>10, <3>2, <3>3
    <3> QED BY <3>4, <3>5
  <2>4. \A t \in u.tasks :
          /\ IsTask(t) /\ t.gen <= u.gen /\ <<t.of, t.at>> \in Stages
          /\ t.at = "switch" => t.n = 0
          /\ t.at = "register" => t.n # 0
          /\ t.of = "login" /\ t.at # "media" => u.view = "login"
    <3>1. y.gen <= u.gen
      BY <1>4, <1>5, <1>7, <1>8
    <3>2. \A t \in h.tasks :
          /\ IsTask(t) /\ t.gen <= h.gen /\ <<t.of, t.at>> \in Stages
          /\ t.at = "switch" => t.n = 0
          /\ t.at = "register" => t.n # 0
      BY <1>3 DEF Core, Calls
    <3> QED BY <1>5, <1>8, <1>13, <2>2, <2>3, <3>1, <3>2
  <2>5. \A t, z \in u.tasks : t.of = z.of /\ (t.of = "login" \/ (t.gen = u.gen /\ z.gen = u.gen)) => t = z
    <3>1. \A t, z \in h.tasks : t.of = z.of /\ (t.of = "login" \/ (t.gen = h.gen /\ z.gen = h.gen)) => t = z
      BY <1>3 DEF Core, Calls
    <3>2. \A t \in h.tasks : ~(t.of = y.of /\ (t.of = "login" \/ t.gen = w.gen))
      BY <2>3
    <3> QED BY <1>4, <1>5, <1>8, <1>13, <3>1, <3>2
  <2> QED BY <2>1, <2>4, <2>5 DEF Calls
<1>17. Apart(u)
  BY <1>1, <1>4, <1>5 DEF Apart
<1>18. Numbered(u)
  <2>1. Switching(h) => Switching(u)
    BY <1>5, <1>13 DEF Switching
  <2> QED BY <1>3, <1>5, <2>1 DEF Core, Numbered
<1>19. SignJoined(u)
  BY <1>5, <1>11, <1>13 DEF SignJoined, Handled, Agreed, LastOk
<1>20. Latest(u)
  <2>1. \A t : ~Waits(u, t)
    BY <1>5, <1>8, <1>12, <1>13 DEF Waits
  <2> QED BY <2>1 DEF Latest
<1>21. Signed(u)
  BY <1>19 DEF Signed
<1>22. Main(u)
  <2>1. AtMedia(u, y)
    BY <1>4, <1>5, <1>8, <1>13 DEF AtMedia
  <2> QED BY <1>19, <2>1 DEF Main
<1> QED BY <1>1, <1>4, <1>5, <1>14, <1>15, <1>16, <1>17, <1>18, <1>20, <1>21, <1>22 DEF Good, Core

\* The end of a page.
LEMMA SignEndIs ==
  ASSUME NEW w, DOMAIN w = Names, Types(w), SignRequests(w)
  PROVE  /\ Good(S!End(w)) /\ SameBut(w, S!End(w), {"view", "sock", "tasks", "timer", "init", "media", "acks"})
         /\ S!End(w).sock = 0 /\ S!End(w).view = "ended"
<1> DEFINE v == S!End(w)
<1>1. /\ DOMAIN v = Names /\ SameBut(w, v, {"view", "sock", "tasks", "timer", "init", "media", "acks"})
      /\ v.view = "ended" /\ v.sock = 0 /\ v.tasks = {} /\ v.init = S!NoInit /\ v.media = FALSE /\ v.acks = <<>>
  BY DEF S!End, SameBut, Names
<1> HIDE DEF v
<1>2. v.gen = w.gen /\ v.hand = w.hand /\ v.cookie = w.cookie /\ v.valid = w.valid /\ v.holder = w.holder /\ v.sent = w.sent
  BY <1>1 DEF SameBut, Names
<1>3. Types(v)
  <2>1. v.init = S!NoInit /\ ~v.media
    BY <1>1
  <2> QED BY <1>1, <1>2, <2>1 DEF Types
<1>4. SignRequests(v)
  BY <1>2 DEF SignRequests
<1>5. Calls(v)
  BY <1>1, FS_EmptySet DEF Calls
<1>6. Apart(v) /\ Numbered(v) /\ Latest(v) /\ Signed(v) /\ Main(v)
  BY <1>1 DEF Apart, Numbered, Latest, Signed, Main
<1> QED BY <1>1, <1>3, <1>4, <1>5, <1>6 DEF Good, Core, v

(***************************************************************************)
(* The server handles a request.                                           *)
(***************************************************************************)
\* The first request, and those after it.
LEMMA NextRequestIs ==
  ASSUME NEW w, Core(w), w.sent # <<>>
  PROVE  LET m == w.sent[1] IN
         /\ Len(w.sent) \in Nat \ {0} /\ Head(w.sent) = m
         /\ IsRow(Tail(w.sent)) /\ Len(Tail(w.sent)) = Len(w.sent) - 1
         /\ \A i \in 1 .. Len(w.sent) - 1 : Tail(w.sent)[i] = w.sent[i + 1]
         /\ 1 \in 1 .. Len(w.sent) /\ m.sock \in 1 .. Connections /\ w.hand[m.sock] # 0
         /\ m.what = "switch" <=> m.n = 0
         /\ m.what = "switch" <=> m.of = "switch"
         /\ w.sock # 0 /\ m.sock = w.sock => m.gen = w.gen /\ \A i \in 1 .. Len(w.sent) : w.sent[i].gen = w.gen
         /\ w.sock # 0 /\ m.sock # w.sock => ~Handled(w)
<1>1. IsRow(w.sent)
  BY DEF Core, SignRequests
<1>2. /\ Len(w.sent) \in Nat \ {0} /\ Head(w.sent) = w.sent[1]
      /\ IsRow(Tail(w.sent)) /\ Len(Tail(w.sent)) = Len(w.sent) - 1
      /\ \A i \in 1 .. Len(w.sent) - 1 : Tail(w.sent)[i] = w.sent[i + 1]
  BY <1>1, SignTailIs
<1>3. 1 \in 1 .. Len(w.sent)
  BY <1>2
<1> DEFINE m == w.sent[1]
<1>4. /\ m.sock \in 1 .. Connections /\ w.hand[m.sock] # 0
      /\ m.what = "switch" <=> m.n = 0
      /\ m.what = "switch" <=> m.of = "switch"
  BY <1>3 DEF Core, SignRequests
<1>5. w.sock # 0 => (m.gen = w.gen <=> m.sock = w.sock)
  BY <1>3 DEF Core, Numbered
<1>6. ASSUME m.gen = w.gen, NEW i \in 1 .. Len(w.sent) PROVE w.sent[i].gen = w.gen
  <2>1. w.gen \in Nat /\ w.sent[i].gen \in Nat /\ w.sent[i].gen <= w.gen
    BY DEF Core, Types, SignRequests
  <2>2. i = 1 \/ 1 < i
    BY <1>2
  <2>3. 1 < i => m.gen <= w.sent[i].gen
    BY <1>3 DEF Core, SignRequests
  <2> QED BY <1>6, <2>1, <2>2, <2>3
<1>7. w.sock # 0 /\ m.sock # w.sock => ~Handled(w)
  BY <1>3, <1>5 DEF Handled
<1> QED BY <1>2, <1>3, <1>4, <1>5, <1>6, <1>7

\* It is not answered on the present connection.
LEMMA DropIs ==
  ASSUME NEW w, Good(w), w.sent # <<>>, NEW v, Types(v), SameBut(w, v, {"sent", "open", "valid", "holder", "served"}),
         v.sent = Tail(w.sent),
         w.sock # 0 /\ SignJoined(w) => v.holder = w.holder /\ v.served = w.served
  PROVE  Good(v)
<1>1. /\ v.sock = w.sock /\ v.gen = w.gen /\ v.hand = w.hand /\ v.view = w.view /\ v.acks = w.acks
      /\ v.prod = w.prod /\ v.tasks = w.tasks /\ v.timer = w.timer /\ v.media = w.media
  BY DEF SameBut, Names
<1>2. Core(w)
  BY DEF Good
<1>3. /\ Len(w.sent) \in Nat \ {0} /\ IsRow(v.sent) /\ Len(v.sent) = Len(w.sent) - 1
      /\ \A i \in 1 .. Len(w.sent) - 1 : v.sent[i] = w.sent[i + 1]
  BY <1>2, NextRequestIs
<1>4. \A i \in 1 .. Len(v.sent) : i + 1 \in 1 .. Len(w.sent) /\ v.sent[i] = w.sent[i + 1]
  BY <1>3
<1>5. w.sock # 0 /\ SignJoined(w) => SignJoined(v)
  <2>1. Handled(w) => Handled(v)
    BY <1>1, <1>4 DEF Handled
  <2> QED BY <1>1, <2>1 DEF SignJoined, Agreed, LastOk
<1>6. Switching(v) <=> Switching(w)
  BY <1>1 DEF Switching
<1>7. IsRow(w.acks) /\ (w.sock = 0 => w.acks = <<>>) /\ Len(w.acks) \in Nat
  <2>1. IsRow(w.acks) /\ (w.sock = 0 => w.acks = <<>>)
    BY <1>2, NoneIs DEF Core, Apart, Numbered
  <2> QED BY <2>1, LenIs
<1>8. Core(v)
  <2>1. PICK d \in {0, 1} : d = 1
    OBVIOUS
  <2>2. PICK e \in {0, 1} : e = 0
    OBVIOUS
  <2>3. /\ Len(v.sent) = Len(w.sent) - d /\ \A i \in 1 .. Len(v.sent) : v.sent[i] = w.sent[i + d]
        /\ Len(v.acks) = Len(w.acks) - e /\ \A k \in 1 .. Len(v.acks) : v.acks[k] = w.acks[k + e]
    BY <1>1, <1>3, <1>7, <2>1, <2>2
  <2>4. v.sock # 0 =>
          /\ \A i \in 1 .. Len(v.sent) : v.sent[i].gen = v.gen /\ v.sent[i].what = "switch" => Switching(v)
          /\ \A k \in 1 .. Len(v.acks) : v.acks[k].of = "switch" => Switching(v)
    BY <1>1, <1>2, <1>4, <1>6 DEF Core, Numbered
  <2> QED BY <1>1, <1>2, <1>3, <1>5, <1>7, <2>3, <2>4, LessIs
<1>9. Main(v)
  <2>1. S!Recovering(v) <=> S!Recovering(w)
    BY <1>1 DEF S!Recovering
  <2>2. \A t : AtMedia(v, t) <=> AtMedia(w, t)
    BY <1>1 DEF AtMedia
  <2> QED BY <1>1, <1>5, <2>1, <2>2 DEF Good, Main
<1> QED BY <1>8, <1>9 DEF Good

\* It is answered.
LEMMA AnsweredIs ==
  ASSUME NEW w, Good(w), w.sent # <<>>, w.sock # 0, w.sent[1].sock = w.sock, NEW v, Types(v),
         SameBut(w, v, {"sent", "acks", "open", "holder", "served"}),
         v.sent = Tail(w.sent), NEW a, v.acks = Append(w.acks, a),
         IsAnswer(a), a.of = w.sent[1].of, a.gen = w.sent[1].gen, a.n = w.sent[1].n,
         a.is # "ok" => v.holder = w.holder /\ v.served = w.served,
         a.is = "ok" => v.holder = w.sock /\ v.served = a.prod
  PROVE  Good(v)
<1> DEFINE m == w.sent[1]
           z == Len(w.acks) + 1
<1>1. /\ v.sock = w.sock /\ v.gen = w.gen /\ v.hand = w.hand /\ v.view = w.view
      /\ v.prod = w.prod /\ v.tasks = w.tasks /\ v.timer = w.timer /\ v.media = w.media
  BY DEF SameBut, Names
<1>2. Core(w)
  BY DEF Good
<1>3. /\ Len(w.sent) \in Nat \ {0} /\ IsRow(v.sent) /\ Len(v.sent) = Len(w.sent) - 1
      /\ \A i \in 1 .. Len(w.sent) - 1 : v.sent[i] = w.sent[i + 1]
      /\ 1 \in 1 .. Len(w.sent) /\ m.gen = w.gen /\ \A i \in 1 .. Len(w.sent) : w.sent[i].gen = w.gen
      /\ m.what = "switch" <=> m.n = 0
      /\ m.what = "switch" <=> m.of = "switch"
  BY <1>2, NextRequestIs
<1>4. \A i \in 1 .. Len(v.sent) : i + 1 \in 1 .. Len(w.sent) /\ i + 1 # 1 /\ i + 1 > 1 /\ v.sent[i] = w.sent[i + 1]
  BY <1>3
<1>5. IsRow(w.acks)
  BY <1>2 DEF Core, Numbered
<1>6. /\ IsRow(v.acks) /\ Len(w.acks) \in Nat /\ Len(v.acks) = z /\ v.acks[z] = a
      /\ \A k \in 1 .. Len(w.acks) : v.acks[k] = w.acks[k]
  BY <1>5, AppendTo
<1>7. \A k \in 1 .. Len(v.acks) : k \in 1 .. Len(w.acks) \/ k = z
  BY <1>6
<1>8. z \in 1 .. Len(v.acks) /\ \A k \in 1 .. Len(w.acks) : k \in 1 .. Len(v.acks) /\ z > k /\ k # z /\ ~(k > z)
  BY <1>6
<1>9. /\ \A i \in 1 .. Len(w.sent) : w.sent[i].gen = w.gen <=> w.sent[i].sock = w.sock
      /\ \A k \in 1 .. Len(w.acks) :
           /\ IsAnswer(w.acks[k]) /\ w.acks[k].gen = w.gen
           /\ w.acks[k].of = "switch" <=> w.acks[k].n = 0
      /\ \A i \in 1 .. Len(w.sent) : w.sent[i].gen = w.gen /\ w.sent[i].what = "switch" => Switching(w)
      /\ \A k \in 1 .. Len(w.acks) : w.acks[k].of = "switch" => Switching(w)
  BY <1>2 DEF Core, Numbered
<1>10. \A i, j \in 1 .. Len(w.sent) : i # j /\ w.sent[i].gen = w.gen /\ w.sent[j].gen = w.gen => w.sent[i].n # w.sent[j].n
  BY <1>2 DEF Core, Numbered
<1>11. \A i \in 1 .. Len(w.sent), k \in 1 .. Len(w.acks) : w.sent[i].gen = w.gen => w.sent[i].n # w.acks[k].n
  BY <1>2 DEF Core, Numbered
<1>12. \A k, l \in 1 .. Len(w.acks) : k # l => w.acks[k].n # w.acks[l].n
  BY <1>2 DEF Core, Numbered
<1> HIDE DEF m, z
<1>13. Switching(v) <=> Switching(w)
  BY <1>1 DEF Switching
<1>14. SignRequests(v)
  <2>1. ASSUME NEW i \in 1 .. Len(v.sent)
        PROVE  /\ v.sent[i].gen \in Nat /\ v.sent[i].gen <= v.gen
               /\ v.sent[i].sock \in 1 .. Connections /\ v.hand[v.sent[i].sock] # 0
               /\ v.sent[i].what \in {"register", "switch"}
               /\ v.sent[i].what = "switch" <=> v.sent[i].n = 0
               /\ v.sent[i].what = "switch" <=> v.sent[i].of = "switch"
    BY <1>1, <1>2, <1>4 DEF Core, SignRequests
  <2>2. \A i, j \in 1 .. Len(v.sent) : i < j => v.sent[i].gen <= v.sent[j].gen
    <3>1. w.gen \in Nat
      BY <1>2 DEF Core, Types
    <3> QED BY <1>3, <1>4, <3>1
  <2> QED BY <1>3, <2>1, <2>2 DEF SignRequests
<1>15. Calls(v)
  BY <1>1, <1>2 DEF Core, Calls
<1>16. Apart(v)
  BY <1>1 DEF Apart
<1>17. Numbered(v)
  <2>1. \A i \in 1 .. Len(v.sent) : v.sent[i].gen = v.gen <=> v.sent[i].sock = v.sock
    BY <1>1, <1>4, <1>9
  <2>2. \A k \in 1 .. Len(v.acks) :
          /\ IsAnswer(v.acks[k]) /\ v.acks[k].gen = v.gen
          /\ v.acks[k].of = "switch" <=> v.acks[k].n = 0
    <3>1. /\ IsAnswer(v.acks[z]) /\ v.acks[z].gen = v.gen
          /\ v.acks[z].of = "switch" <=> v.acks[z].n = 0
      BY <1>1, <1>3, <1>6 DEF m
    <3> QED BY <1>1, <1>6, <1>7, <1>9, <3>1
  <2>3. ASSUME NEW i \in 1 .. Len(v.sent), NEW j \in 1 .. Len(v.sent), i # j PROVE v.sent[i].n # v.sent[j].n
    <3>1. i + 1 \in 1 .. Len(w.sent) /\ j + 1 \in 1 .. Len(w.sent) /\ i + 1 # j + 1
      BY <1>4, <2>3
    <3> QED BY <1>3, <1>4, <1>10, <3>1
  <2>4. ASSUME NEW i \in 1 .. Len(v.sent), NEW k \in 1 .. Len(v.acks) PROVE v.sent[i].n # v.acks[k].n
    <3>0. i + 1 \in 1 .. Len(w.sent) /\ i + 1 # 1 /\ v.sent[i] = w.sent[i + 1] /\ w.sent[i + 1].gen = w.gen /\ m.gen = w.gen
      BY <1>3, <1>4
    <3>1. CASE k = z
      <4>1. w.sent[i + 1].n # w.sent[1].n
        BY <1>3, <1>10, <3>0 DEF m
      <4> QED BY <1>6, <3>0, <3>1, <4>1
    <3>2. CASE k \in 1 .. Len(w.acks)
      BY <1>6, <1>11, <3>0, <3>2
    <3> QED BY <1>7, <3>1, <3>2
  <2>5. ASSUME NEW k \in 1 .. Len(v.acks), NEW l \in 1 .. Len(v.acks), k # l PROVE v.acks[k].n # v.acks[l].n
    <3>1. \A j \in 1 .. Len(w.acks) : a.n # w.acks[j].n
      BY <1>3, <1>11 DEF m
    <3>2. CASE k = z
      BY <1>6, <1>7, <2>5, <3>1, <3>2
    <3>3. CASE l = z
      BY <1>6, <1>7, <2>5, <3>1, <3>3
    <3>4. CASE k \in 1 .. Len(w.acks) /\ l \in 1 .. Len(w.acks)
      BY <1>6, <1>12, <2>5, <3>4
    <3> QED BY <1>7, <3>2, <3>3, <3>4
  <2>6. \A i \in 1 .. Len(v.sent) : v.sent[i].gen = v.gen /\ v.sent[i].what = "switch" => Switching(v)
    BY <1>1, <1>4, <1>9, <1>13
  <2>7. \A k \in 1 .. Len(v.acks) : v.acks[k].of = "switch" => Switching(v)
    <3>1. v.acks[z].of = "switch" => Switching(v)
      BY <1>3, <1>6, <1>9, <1>13 DEF m
    <3> QED BY <1>6, <1>7, <1>9, <1>13, <3>1
  <2> QED BY <1>6, <2>1, <2>2, <2>3, <2>4, <2>5, <2>6, <2>7 DEF Numbered
<1>18. Handled(w) => Handled(v)
  BY <1>1, <1>4 DEF Handled
\* The new answer is the last.
<1>19. ASSUME a.is = "ok", Waiter(a) \in v.tasks PROVE Agreed(v)
  <2>1. LastOk(v, z)
    BY <1>6, <1>7, <1>8, <1>19 DEF LastOk
  <2> QED BY <1>6, <1>8, <1>19, <2>1 DEF Agreed
<1>20. SignJoined(w) => SignJoined(v)
  <2> SUFFICES ASSUME SignJoined(w) PROVE SignJoined(v)
    OBVIOUS
  <2>1. CASE a.is # "ok"
    <3>1. CASE (\A k \in 1 .. Len(w.acks) : w.acks[k].is # "ok") /\ w.served = w.prod
      <4>1. \A k \in 1 .. Len(v.acks) : v.acks[k].is # "ok"
        BY <1>6, <1>7, <2>1, <3>1
      <4>2. Agreed(v)
        BY <1>1, <2>1, <3>1, <4>1 DEF Agreed
      <4> QED BY <1>1, <1>18, <2>1, <4>2 DEF SignJoined
    <3>2. ASSUME NEW k \in 1 .. Len(w.acks), LastOk(w, k), w.acks[k].prod = w.served, Waiter(w.acks[k]) \in w.tasks
          PROVE  SignJoined(v)
      <4>1. LastOk(v, k)
        BY <1>6, <1>7, <2>1, <3>2 DEF LastOk
      <4>2. Agreed(v)
        BY <1>1, <1>6, <1>8, <2>1, <3>2, <4>1 DEF Agreed
      <4> QED BY <1>1, <1>18, <2>1, <4>2 DEF SignJoined
    <3> QED BY <3>1, <3>2 DEF SignJoined, Agreed
  <2>2. CASE a.is = "ok"
    <3>1. m.what = "switch" /\ a.of = "switch" /\ a.n = 0 /\ a.gen = w.gen
      BY <1>3 DEF SignJoined, Handled, m
    <3>2. PICK t \in w.tasks : t.of = "switch" /\ t.gen = w.gen
      BY <1>3, <1>9, <3>1 DEF Switching, m
    <3>3. IsTask(t) /\ t.at = "switch" /\ t.n = 0
      <4>1. IsTask(t) /\ <<t.of, t.at>> \in Stages /\ (t.at = "switch" => t.n = 0)
        BY <1>2 DEF Core, Calls
      <4> QED BY <3>2, <4>1 DEF Stages
    <3>4. Waiter(a) \in w.tasks
      <4>1. t = [of |-> "switch", gen |-> w.gen, n |-> 0, at |-> "switch"]
        BY <3>2, <3>3 DEF IsTask
      <4> QED BY <3>1, <3>2, <4>1 DEF Waiter
    <3>5. Agreed(v)
      BY <1>1, <1>19, <2>2, <3>4
    <3> QED BY <1>1, <1>18, <2>2, <3>5 DEF SignJoined
  <2> QED BY <2>1, <2>2
<1>21. Latest(v)
  <2> SUFFICES ASSUME NEW t, Waits(v, t)
               PROVE  /\ \A i \in 1 .. Len(v.sent) : v.sent[i].gen = v.gen /\ v.sent[i].n = t.n =>
                           v.sent[i].of = t.of /\ \A j \in 1 .. Len(v.sent) : j > i => v.sent[j].what = "switch"
                      /\ \A k \in 1 .. Len(v.acks) : v.acks[k].n = t.n =>
                           v.acks[k].of = t.of /\ Handled(v) /\ (v.acks[k].is = "ok" => SignJoined(v))
    BY DEF Latest
  <2>1. Waits(w, t)
    BY <1>1 DEF Waits
  <2>2. /\ \A i \in 1 .. Len(w.sent) : w.sent[i].gen = w.gen /\ w.sent[i].n = t.n =>
             w.sent[i].of = t.of /\ \A j \in 1 .. Len(w.sent) : j > i => w.sent[j].what = "switch"
        /\ \A k \in 1 .. Len(w.acks) : w.acks[k].n = t.n =>
             w.acks[k].of = t.of /\ Handled(w) /\ (w.acks[k].is = "ok" => SignJoined(w))
    BY <1>2, <2>1 DEF Core, Latest
  <2>3. ASSUME NEW i \in 1 .. Len(v.sent), v.sent[i].gen = v.gen, v.sent[i].n = t.n
        PROVE  v.sent[i].of = t.of /\ \A j \in 1 .. Len(v.sent) : j > i => v.sent[j].what = "switch"
    <3>1. /\ i + 1 \in 1 .. Len(w.sent) /\ v.sent[i] = w.sent[i + 1]
          /\ w.sent[i + 1].of = t.of /\ \A j \in 1 .. Len(w.sent) : j > i + 1 => w.sent[j].what = "switch"
      BY <1>1, <1>4, <2>2, <2>3
    <3>2. \A j \in 1 .. Len(v.sent) : j > i => j + 1 > i + 1
      BY <1>3
    <3> QED BY <1>4, <3>1, <3>2
  <2>4. ASSUME NEW k \in 1 .. Len(w.acks), w.acks[k].n = t.n
        PROVE  w.acks[k].of = t.of /\ Handled(v) /\ (w.acks[k].is = "ok" => SignJoined(v))
    BY <1>18, <1>20, <2>2, <2>4
  <2>5. ASSUME a.n = t.n PROVE a.of = t.of /\ Handled(v) /\ (a.is = "ok" => SignJoined(v))
    <3>1. m.of = t.of /\ \A j \in 1 .. Len(w.sent) : j > 1 => w.sent[j].what = "switch"
      BY <1>3, <2>2, <2>5 DEF m
    <3>2. Handled(v)
      BY <1>1, <1>3, <1>4, <3>1 DEF Handled
    <3>3. t \in w.tasks /\ IsTask(t) /\ t.at = "register" /\ t.gen = w.gen /\ t.of # "switch"
      <4>1. t \in w.tasks /\ IsTask(t) /\ t.at = "register" /\ t.gen = w.gen /\ <<t.of, t.at>> \in Stages
        BY <1>2, <2>1 DEF Waits, Core, Calls
      <4> QED BY <4>1 DEF Stages
    <3>4. Waiter(a) = t
      BY <1>3, <2>5, <3>1, <3>3 DEF Waiter, IsTask, m
    <3>5. a.is = "ok" => Agreed(v)
      BY <1>1, <1>19, <3>3, <3>4
    <3> QED BY <1>1, <3>1, <3>2, <3>5 DEF SignJoined, m
  <2>6. \A k \in 1 .. Len(v.acks) : v.acks[k].n = t.n =>
          v.acks[k].of = t.of /\ Handled(v) /\ (v.acks[k].is = "ok" => SignJoined(v))
    BY <1>6, <1>7, <2>4, <2>5
  <2> QED BY <2>3, <2>6
<1>22. Signed(v)
  BY <1>1, <1>2, <1>20 DEF Core, Signed, AtMedia
<1>23. Main(v)
  <2>1. S!Recovering(v) <=> S!Recovering(w)
    BY <1>1 DEF S!Recovering
  <2>2. \A t : AtMedia(v, t) <=> AtMedia(w, t)
    BY <1>1 DEF AtMedia
  <2> QED BY <1>1, <1>20, <2>1, <2>2 DEF Good, Main
<1> QED BY <1>14, <1>15, <1>16, <1>17, <1>21, <1>22, <1>23 DEF Good, Core

\* The server answers, whatever it has changed for it.
LEMMA ServedIs ==
  ASSUME NEW w, Good(w), w.sent # <<>>, NEW u, Types(u), SameBut(w, u, {"sent", "open", "holder", "served"}),
         u.sent = Tail(w.sent), NEW is \in {"ok", "own", "conflict", "refused"}, NEW prod,
         w.sent[1].of = "switch" => is \in {"ok", "refused"},
         is # "ok" => u.holder = w.holder /\ u.served = w.served,
         is = "ok" => u.holder = w.sent[1].sock /\ u.served = prod
  PROVE  Good(S!Answer(u, w.sent[1], is, prod))
<1> DEFINE m == w.sent[1]
           v == S!Answer(u, m, is, prod)
           a == [of |-> m.of, gen |-> m.gen, n |-> m.n, is |-> is, prod |-> prod]
<1>1. Core(w) /\ DOMAIN u = Names
  BY DEF Good, Types
<1>2. m.sock \in 1 .. Connections /\ (w.sock # 0 /\ m.sock # w.sock => ~Handled(w))
  BY <1>1, NextRequestIs
<1>3. u.sock = w.sock /\ u.acks = w.acks
  BY DEF SameBut, Names
<1>4. CASE m.sock # u.sock
  <2>1. v = u
    BY <1>4 DEF S!Answer
  <2>2. SameBut(w, u, {"sent", "open", "valid", "holder", "served"})
    BY DEF SameBut
  <2>3. w.sock # 0 /\ SignJoined(w) => u.holder = w.holder /\ u.served = w.served
    BY <1>2, <1>3, <1>4 DEF SignJoined
  <2>4. Good(u)
    BY <2>2, <2>3, DropIs
  <2> QED BY <2>1, <2>4
<1>5. CASE m.sock = u.sock
  <2>1. DOMAIN v = Names /\ SameBut(u, v, {"acks"}) /\ v.acks = Append(u.acks, a)
    BY <1>1, <1>5 DEF S!Answer, SameBut, Names
  <2>2. IsAnswer(a) /\ a.of = m.of /\ a.gen = m.gen /\ a.n = m.n /\ a.is = is /\ a.prod = prod
    BY DEF IsAnswer
  <2>3. w.sock # 0
    <3>1. 0 \notin 1 .. Connections
      OBVIOUS
    <3> QED BY <1>2, <1>3, <1>5, <3>1
  <2> HIDE DEF v, a
  <2>4. /\ v.holder = u.holder /\ v.served = u.served /\ v.sent = u.sent
        /\ v.gen = u.gen /\ v.sock = u.sock /\ v.cookie = u.cookie /\ v.hand = u.hand /\ v.valid = u.valid
        /\ v.view = u.view /\ v.init = u.init /\ v.media = u.media
    BY <2>1 DEF SameBut, Names
  <2>5. Types(v)
    BY <2>1, <2>4 DEF Types
  <2>6. SameBut(w, v, {"sent", "acks", "open", "holder", "served"})
    BY <2>1 DEF SameBut
  <2>7. Good(v)
    <3>1. a.is # "ok" => v.holder = w.holder /\ v.served = w.served
      BY <2>2, <2>4
    <3>2. a.is = "ok" => v.holder = w.sock /\ v.served = a.prod
      BY <1>3, <1>5, <2>2, <2>4
    <3>3. v.acks = Append(w.acks, a) /\ v.sent = Tail(w.sent)
      BY <1>3, <2>1, <2>4
    <3> QED BY <1>3, <1>5, <2>2, <2>3, <2>5, <2>6, <3>1, <3>2, <3>3, AnsweredIs
  <2> QED BY <2>7 DEF v
<1> QED BY <1>4, <1>5

\* Away from a connection the server may change as it likes.
LEMMA AwayIs ==
  ASSUME NEW w, Core(w), w.sock = 0, NEW v, Types(v), SameBut(w, v, {"open", "valid", "holder", "served", "sent"}),
         v.sent = w.sent \/ v.sent = <<>>
  PROVE  Good(v)
<1>1. v.sock = w.sock /\ v.gen = w.gen /\ v.hand = w.hand /\ v.view = w.view /\ v.acks = w.acks /\ v.tasks = w.tasks
  BY DEF SameBut, Names
<1>2. SignRequests(v)
  <2>1. CASE v.sent = <<>>
    <3>1. 1 .. 0 = {}
      OBVIOUS
    <3> QED BY <2>1, <3>1, NoneIs DEF SignRequests
  <2> QED BY <1>1, <2>1 DEF Core, SignRequests
<1>3. Calls(v)
  BY <1>1 DEF Core, Calls
<1>4. Apart(v)
  <2>1. \A i \in 1 .. Len(v.sent) : i \in 1 .. Len(w.sent) /\ v.sent[i] = w.sent[i]
    <3>1. CASE v.sent = <<>>
      <4>1. 1 .. 0 = {}
        OBVIOUS
      <4> QED BY <3>1, <4>1, NoneIs
    <3> QED BY <3>1
  <2> QED BY <1>1, <2>1 DEF Core, Apart
<1>5. Numbered(v) /\ Latest(v) /\ Signed(v) /\ Main(v)
  BY <1>1 DEF Numbered, Latest, Signed, Main
<1> QED BY <1>2, <1>3, <1>4, <1>5 DEF Good, Core

\* The fields a request leaves, with one request less.
LEMMA TakenIs ==
  ASSUME NEW w, Good(w), w.sent # <<>>
  PROVE  LET v == [w EXCEPT !.sent = Tail(@)] IN
         /\ DOMAIN v = Names /\ SameBut(w, v, {"sent"}) /\ v.sent = Tail(w.sent) /\ Types(v) /\ Good(v)
<1> DEFINE v == [w EXCEPT !.sent = Tail(@)]
<1>1. DOMAIN v = Names /\ SameBut(w, v, {"sent"}) /\ v.sent = Tail(w.sent)
  BY DEF Good, Core, Types, SameBut, Names
<1> HIDE DEF v
<1>2. /\ v.holder = w.holder /\ v.served = w.served
      /\ v.gen = w.gen /\ v.sock = w.sock /\ v.cookie = w.cookie /\ v.hand = w.hand /\ v.valid = w.valid
      /\ v.view = w.view /\ v.init = w.init /\ v.media = w.media
  BY <1>1 DEF SameBut, Names
<1>3. Types(v)
  BY <1>1, <1>2 DEF Good, Core, Types
<1>4. SameBut(w, v, {"sent", "open", "valid", "holder", "served"})
  BY <1>1 DEF SameBut
<1>5. Good(v)
  BY <1>1, <1>2, <1>3, <1>4, DropIs
<1> QED BY <1>1, <1>3, <1>5 DEF v

\* Another connection is told so: the page ends, if it is its own.
LEMMA KickIs ==
  ASSUME NEW w, Types(w), SignRequests(w), NEW s
  PROVE  LET v == S!Kick(w, s) IN
         /\ DOMAIN v = Names
         /\ s # w.sock \/ s = 0 => SameBut(w, v, {"open"})
         /\ s = w.sock /\ s # 0 =>
              /\ Good(v) /\ v.sock = 0
              /\ SameBut(w, v, {"open", "view", "sock", "tasks", "timer", "init", "media", "acks"})
<1> DEFINE o == [w EXCEPT !.open = @ \ {s}]
           v == S!Kick(w, s)
<1>1. DOMAIN o = Names /\ SameBut(w, o, {"open"})
  BY DEF Types, SameBut, Names
<1>2. v = IF s = w.sock /\ s # 0 THEN S!End(o) ELSE o
  BY DEF S!Kick
<1> HIDE DEF v, o
<1>3. CASE s # w.sock \/ s = 0
  BY <1>1, <1>2, <1>3 DEF v
<1>4. CASE s = w.sock /\ s # 0
  <2>1. /\ o.holder = w.holder /\ o.sent = w.sent
        /\ o.gen = w.gen /\ o.sock = w.sock /\ o.cookie = w.cookie /\ o.hand = w.hand /\ o.valid = w.valid
        /\ o.view = w.view /\ o.init = w.init /\ o.media = w.media
    BY <1>1 DEF SameBut, Names
  <2>2. Types(o) /\ SignRequests(o)
    BY <1>1, <2>1 DEF Types, SignRequests
  <2>3. /\ Good(v) /\ SameBut(o, v, {"view", "sock", "tasks", "timer", "init", "media", "acks"})
        /\ v.sock = 0
    BY <1>1, <1>2, <1>4, <2>2, SignEndIs
  <2>4. SameBut(w, v, {"open", "view", "sock", "tasks", "timer", "init", "media", "acks"})
    BY <1>1, <2>3 DEF SameBut
  <2>5. DOMAIN v = Names
    BY <2>3 DEF Good, Core, Types
  <2> QED BY <1>4, <2>3, <2>4, <2>5 DEF v
<1> QED BY <1>3, <1>4

\* register-user.
LEMMA RegisteredIs ==
  ASSUME S!SessionAssumption, NEW w, Good(w), w.sent # <<>>, w.sent[1].what = "register"
  PROVE  Good(S!Registered([w EXCEPT !.sent = Tail(@)], w.sent[1]))
<1> DEFINE m == w.sent[1]
           u == [w EXCEPT !.sent = Tail(@)]
           s == m.sock
           taken == u.holder \notin {0, s}
           v == IF taken /\ u.kind # "guest" THEN S!Kick(u, u.holder) ELSE u
           q == [v EXCEPT !.holder = s, !.served = m.prod]
           no == IF u.holder = u.previous THEN "own" ELSE "conflict"
<1>1. /\ DOMAIN u = Names /\ SameBut(w, u, {"sent"}) /\ u.sent = Tail(w.sent) /\ Types(u) /\ Good(u)
  BY TakenIs
<1>2. /\ s \in 1 .. Connections /\ w.hand[s] # 0 /\ m.of # "switch"
      /\ m.sock # 0
  <2>1. Core(w)
    BY DEF Good
  <2>2. s \in 1 .. Connections /\ w.hand[s] # 0 /\ m.of # "switch"
    BY <2>1, NextRequestIs
  <2> QED BY <2>2
<1>3. S!Registered(u, m) =
        IF ~S!Authenticated(u, s) THEN S!Answer(u, m, "refused", 0)
        ELSE IF taken /\ u.kind = "user" /\ ~m.force THEN S!Answer(u, m, no, 0)
        ELSE S!Answer(q, m, "ok", m.prod)
  BY DEF S!Registered
<1> HIDE DEF u, m
<1>4. u.holder = w.holder /\ u.served = w.served /\ u.hand = w.hand /\ u.sock = w.sock
  BY <1>1 DEF SameBut, Names
<1>5. SameBut(w, u, {"sent", "open", "holder", "served"})
  BY <1>1 DEF SameBut
<1>6. Good(S!Answer(u, m, "refused", 0))
  <2>1. PICK is \in {"ok", "own", "conflict", "refused"} : is = "refused"
    OBVIOUS
  <2>2. Good(S!Answer(u, m, is, 0))
    BY <1>1, <1>4, <1>5, <2>1, ServedIs DEF m
  <2> QED BY <2>1, <2>2
<1>7. Good(S!Answer(u, m, no, 0))
  <2>1. PICK is \in {"ok", "own", "conflict", "refused"} : is = no
    OBVIOUS
  <2>2. is # "ok"
    BY <2>1
  <2>3. Good(S!Answer(u, m, is, 0))
    <3> HIDE DEF no
    <3> QED BY <1>1, <1>2, <1>4, <1>5, <2>2, ServedIs DEF m
  <2> QED BY <2>1, <2>3
<1>8. Good(S!Answer(q, m, "ok", m.prod))
  <2>1. SignRequests(u)
    BY <1>1 DEF Good, Core
  <2>2. CASE taken /\ u.kind # "guest" /\ u.holder = u.sock /\ u.holder # 0
    <3>1. /\ Good(v) /\ v.sock = 0
          /\ SameBut(u, v, {"open", "view", "sock", "tasks", "timer", "init", "media", "acks"})
      BY <1>1, <2>1, <2>2, KickIs
    <3>2. DOMAIN v = Names /\ v.hand = u.hand
      BY <3>1 DEF Good, Core, Types, SameBut, Names
    <3> HIDE DEF v
    <3>3. DOMAIN q = Names /\ SameBut(v, q, {"holder", "served"}) /\ q.holder = s /\ q.served = m.prod
      BY <3>2 DEF SameBut, Names
    <3> HIDE DEF q
    <3>4. /\ q.gen = v.gen /\ q.sock = v.sock /\ q.cookie = v.cookie /\ q.hand = v.hand /\ q.valid = v.valid
          /\ q.view = v.view /\ q.init = v.init /\ q.media = v.media /\ q.sent = v.sent
      BY <3>3 DEF SameBut, Names
    <3>5. Types(q)
      BY <1>2, <1>4, <3>1, <3>2, <3>3, <3>4 DEF Good, Core, Types
    <3>6. SameBut(v, q, {"open", "valid", "holder", "served", "sent"})
      BY <3>3 DEF SameBut
    <3>7. Good(q)
      BY <3>1, <3>4, <3>5, <3>6, AwayIs DEF Good
    <3>8. S!Answer(q, m, "ok", m.prod) = q
      BY <1>2, <3>1, <3>4 DEF S!Answer
    <3> QED BY <3>7, <3>8
  <2>3. CASE ~(taken /\ u.kind # "guest" /\ u.holder = u.sock /\ u.holder # 0)
    <3>1. DOMAIN v = Names /\ SameBut(u, v, {"open"})
      <4>1. CASE taken /\ u.kind # "guest"
        BY <1>1, <2>1, <2>3, <4>1, KickIs
      <4>2. CASE ~(taken /\ u.kind # "guest")
        BY <1>1, <4>2 DEF SameBut
      <4> QED BY <4>1, <4>2
    <3> HIDE DEF v
    <3>2. DOMAIN q = Names /\ SameBut(v, q, {"holder", "served"}) /\ q.holder = s /\ q.served = m.prod
      BY <3>1 DEF SameBut, Names
    <3> HIDE DEF q
    <3>3. SameBut(u, q, {"open", "holder", "served"})
      BY <3>1, <3>2 DEF SameBut
    <3>4. /\ q.gen = u.gen /\ q.sock = u.sock /\ q.cookie = u.cookie /\ q.hand = u.hand /\ q.valid = u.valid
          /\ q.view = u.view /\ q.init = u.init /\ q.media = u.media /\ q.sent = u.sent
      BY <3>3 DEF SameBut, Names
    <3>5. Types(q)
      BY <1>1, <1>2, <1>4, <3>2, <3>4 DEF Types
    <3>6. SameBut(w, q, {"sent", "open", "holder", "served"})
      BY <1>1, <3>3 DEF SameBut
    <3>7. PICK is \in {"ok", "own", "conflict", "refused"} : is = "ok"
      OBVIOUS
    <3>8. Good(S!Answer(q, m, is, m.prod))
      <4>1. q.sent = Tail(w.sent) /\ q.holder = m.sock /\ q.served = m.prod
        BY <1>1, <3>2, <3>4
      <4> QED BY <3>5, <3>6, <3>7, <4>1, ServedIs DEF m
    <3> QED BY <3>7, <3>8
  <2> QED BY <2>2, <2>3
<1> QED BY <1>3, <1>6, <1>7, <1>8 DEF u, m

\* set-active-production.
LEMMA SwitchedIs ==
  ASSUME NEW w, Good(w), w.sent # <<>>, w.sent[1].what # "register"
  PROVE  Good(S!Switched([w EXCEPT !.sent = Tail(@)], w.sent[1]))
<1> DEFINE m == w.sent[1]
           u == [w EXCEPT !.sent = Tail(@)]
           q == [u EXCEPT !.served = m.prod]
<1>1. /\ DOMAIN u = Names /\ SameBut(w, u, {"sent"}) /\ u.sent = Tail(w.sent) /\ Types(u) /\ Good(u)
  BY TakenIs
<1>2. S!Switched(u, m) = IF u.holder = m.sock THEN S!Answer(q, m, "ok", m.prod) ELSE S!Answer(u, m, "refused", 0)
  BY DEF S!Switched
<1> HIDE DEF u, m
<1>3. DOMAIN q = Names /\ SameBut(u, q, {"served"}) /\ q.served = m.prod
  BY <1>1 DEF SameBut, Names
<1> HIDE DEF q
<1>4. u.holder = w.holder /\ u.served = w.served
  BY <1>1 DEF SameBut, Names
<1>5. /\ q.gen = u.gen /\ q.sock = u.sock /\ q.cookie = u.cookie /\ q.hand = u.hand /\ q.valid = u.valid
      /\ q.view = u.view /\ q.init = u.init /\ q.media = u.media /\ q.sent = u.sent /\ q.holder = u.holder
  BY <1>3 DEF SameBut, Names
<1>6. Types(q)
  BY <1>1, <1>3, <1>5 DEF Types
<1>7. SameBut(w, u, {"sent", "open", "holder", "served"}) /\ SameBut(w, q, {"sent", "open", "holder", "served"})
  BY <1>1, <1>3 DEF SameBut
<1>8. Good(S!Answer(u, m, "refused", 0))
  <2>1. PICK is \in {"ok", "own", "conflict", "refused"} : is = "refused"
    OBVIOUS
  <2>2. Good(S!Answer(u, m, is, 0))
    BY <1>1, <1>4, <1>7, <2>1, ServedIs DEF m
  <2> QED BY <2>1, <2>2
<1>9. ASSUME u.holder = m.sock PROVE Good(S!Answer(q, m, "ok", m.prod))
  <2>1. PICK is \in {"ok", "own", "conflict", "refused"} : is = "ok"
    OBVIOUS
  <2>2. q.sent = Tail(w.sent) /\ q.holder = m.sock /\ q.served = m.prod
    BY <1>1, <1>3, <1>5, <1>9
  <2>3. Good(S!Answer(q, m, is, m.prod))
    BY <1>6, <1>7, <2>1, <2>2, ServedIs DEF m
  <2> QED BY <2>1, <2>3
<1> QED BY <1>2, <1>8, <1>9 DEF u, m

(***************************************************************************)
(* The steps.                                                              *)
(***************************************************************************)
LEMMA SignHandleKeeps == ASSUME S!SessionAssumption, SignIInv, S!Handle PROVE SignIInv'
<1> DEFINE m == Head(world.sent)
           w == [world EXCEPT !.sent = Tail(@)]
<1>1. world.sent # <<>> /\ Good(world)
  BY DEF S!Handle, SignIInv
<1>2. world' = IF m.sock \notin w.open THEN w ELSE IF m.what = "register" THEN S!Registered(w, m) ELSE S!Switched(w, m)
  BY DEF S!Handle
<1>3. m = world.sent[1]
  BY <1>1, NextRequestIs DEF Good
<1>4. Good(w)
  BY <1>1, TakenIs
<1>5. m.what = "register" => Good(S!Registered(w, m))
  BY <1>1, <1>3, RegisteredIs
<1>6. m.what # "register" => Good(S!Switched(w, m))
  BY <1>1, <1>3, SwitchedIs
<1> HIDE DEF m, w
<1> QED BY <1>2, <1>4, <1>5, <1>6 DEF SignIInv

\* What a page does when it hears an answer to a registration.
LEMMA EnsureIs ==
  ASSUME NEW w, Good(w), w.acks # <<>>, w.acks[1].is = "ok", w.acks[1].of # "switch", Waiter(w.acks[1]) \in w.tasks,
         NEW g, DOMAIN g = Names, SameBut(w, g, {"acks", "tasks"}), g.acks = Tail(w.acks),
         g.tasks = w.tasks \ {Waiter(w.acks[1])}
  PROVE  Good(S!SignedOn(g, w.acks[1].of, w.acks[1].prod))
<1> DEFINE ack == w.acks[1]
           h == [g EXCEPT !.prod = ack.prod]
           p == [g EXCEPT !.view = "app", !.prod = ack.prod]
           u == [p EXCEPT !.tasks = @ \cup {S!Task(p, ack.of, "media")}]
           i == [u EXCEPT !.init = [at |-> "ask", sock |-> p.sock, gen |-> p.mgen]]
<1>1. DOMAIN h = Names /\ SameBut(g, h, {"prod"}) /\ h.prod = ack.prod
  BY DEF SameBut, Names
<1>2. DOMAIN p = Names /\ SameBut(g, p, {"prod", "view"}) /\ p.prod = ack.prod /\ p.view = "app"
  BY DEF SameBut, Names
<1>3. DOMAIN u = Names /\ SameBut(p, u, {"tasks"}) /\ u.tasks = p.tasks \cup {S!Task(p, ack.of, "media")}
  BY <1>2 DEF SameBut, Names
<1>4. S!SignedOn(g, ack.of, ack.prod) = IF p.media THEN S!MediaEnds(u, TRUE) ELSE IF p.init # S!NoInit THEN u ELSE i
  BY DEF S!SignedOn, S!EnsureMedia
<1>5. DOMAIN i = Names /\ SameBut(u, i, {"init"}) /\ i.init = [at |-> "ask", sock |-> p.sock, gen |-> p.mgen]
  BY <1>3 DEF SameBut, Names
<1> HIDE DEF ack, h, p, u, i
<1>6. h.gen = g.gen /\ p.gen = g.gen /\ h.tasks = g.tasks /\ p.tasks = g.tasks /\ h.acks = g.acks
      /\ p.media = u.media /\ p.init = u.init /\ p.sock = u.sock
  BY <1>1, <1>2, <1>3 DEF SameBut, Names
<1>7. S!Task(p, ack.of, "media") = S!Task(h, ack.of, "media")
  BY <1>6 DEF S!Task
<1>8. SameBut(w, h, {"acks", "tasks", "prod"})
  BY <1>1 DEF SameBut
<1>9. SameBut(h, u, {"view", "tasks"})
  <2>1. SameBut(h, p, {"view"})
    BY <1>1, <1>2 DEF SameBut, Names
  <2> QED BY <1>3, <2>1 DEF SameBut
<1>10. u.view = "app"
  BY <1>2, <1>3 DEF SameBut, Names
<1>11. Good(u) /\ u.sock # 0
  BY <1>1, <1>3, <1>6, <1>7, <1>8, <1>9, <1>10, SignedOnIs DEF ack
<1>12. ASSUME u.media PROVE Good(S!MediaEnds(u, TRUE))
  <2>1. PICK ok \in BOOLEAN : ok = TRUE
    OBVIOUS
  <2>2. SameBut(u, u, {"media", "mgen"})
    BY DEF SameBut
  <2>3. Good(S!MediaEnds(u, ok))
    BY <1>3, <1>11, <1>12, <2>1, <2>2, MediaEndsIs
  <2> QED BY <2>1, <2>3
<1>13. ASSUME ~u.media PROVE Good(i)
  <2>1. /\ SameBut(u, i, Aside) /\ i.cookie = u.cookie /\ i.valid = u.valid /\ i.media = u.media /\ i.timer = u.timer
    BY <1>5 DEF SameBut, Names, Aside
  <2>2. i.cookie # 0 /\ IsFiniteSet(i.valid)
    BY <1>11, <2>1 DEF Good, Core, Types
  <2>3. Core(i)
    BY <1>5, <1>11, <1>13, <2>1, <2>2, SignAsideKeeps DEF Good
  <2>4. Main(i)
    BY <1>11, <2>1, AsideIs DEF Good, Main
  <2> QED BY <2>3, <2>4 DEF Good
<1> QED BY <1>4, <1>6, <1>11, <1>12, <1>13 DEF ack

LEMMA HearKeeps == ASSUME S!SessionAssumption, SignIInv, S!Hear PROVE SignIInv'
<1> DEFINE ack == Head(world.acks)
           t == [of |-> ack.of, gen |-> ack.gen, n |-> ack.n, at |-> IF ack.of = "switch" THEN "switch" ELSE "register"]
           v == [world EXCEPT !.acks = Tail(@)]
           w == [v EXCEPT !.tasks = @ \ {t}]
           q == [w EXCEPT !.prod = ack.prod]
           no == IF ack.of = "login" THEN w ELSE S!End(w)
<1>1. world.acks # <<>> /\ Good(world) /\ Core(world)
  BY DEF S!Hear, SignIInv, Good
<1>2. world' \in (IF t \notin v.tasks THEN {v}
                  ELSE IF ack.of = "switch" THEN {IF ack.is = "ok" THEN q ELSE w}
                  ELSE CASE ack.is = "ok" -> {S!SignedOn(w, ack.of, ack.prod)}
                         [] ack.is = "own" -> {S!Register(w, ack.of, TRUE)}
                         [] ack.is = "conflict" -> {S!Register(w, ack.of, TRUE), no}
                         [] ack.is = "refused" -> {S!Refused(w, ack.of)})
  BY DEF S!Hear
<1>3. ack = world.acks[1] /\ IsAnswer(ack) /\ ack.gen = world.gen /\ world.sock # 0
      /\ 1 \in 1 .. Len(world.acks)
      /\ \A k \in 2 .. Len(world.acks) : world.acks[k].n # ack.n
  BY <1>1, FirstIs
<1>4. t = Waiter(ack)
  BY DEF Waiter
<1>5. DOMAIN v = Names /\ SameBut(world, v, {"acks"}) /\ v.acks = Tail(world.acks) /\ v.tasks = world.tasks
  BY <1>1 DEF Core, Types, SameBut, Names
<1> HIDE DEF v
<1>6. DOMAIN w = Names /\ SameBut(v, w, {"tasks"}) /\ w.tasks = v.tasks \ {t} /\ w.acks = v.acks
  BY <1>5 DEF SameBut, Names
<1> HIDE DEF w
<1>7. DOMAIN q = Names /\ SameBut(w, q, {"prod"}) /\ q.prod = ack.prod /\ q.acks = w.acks /\ q.tasks = w.tasks
  BY <1>6 DEF SameBut, Names
<1> HIDE DEF q, ack, t
<1>8. /\ SameBut(world, v, {"acks", "tasks", "prod"}) /\ SameBut(world, w, {"acks", "tasks", "prod"})
      /\ SameBut(world, w, {"acks", "tasks"})
      /\ SameBut(world, q, {"acks", "tasks", "prod"})
  BY <1>5, <1>6, <1>7 DEF SameBut
<1>9. v.prod = world.prod /\ w.prod = world.prod /\ w.sock = world.sock /\ w.gen = world.gen /\ w.view = world.view
      /\ w.cookie = world.cookie /\ w.sent = world.sent
  BY <1>5, <1>6 DEF SameBut, Names
<1>10. CASE t \notin v.tasks
  <2>1. Good(v)
    BY <1>1, <1>3, <1>4, <1>5, <1>8, <1>9, <1>10, HeardIs
  <2> QED BY <1>2, <1>10, <2>1 DEF SignIInv
<1>11. CASE t \in v.tasks /\ ack.of = "switch"
  <2>1. ack.is = "ok" => Good(q)
    BY <1>1, <1>3, <1>4, <1>5, <1>6, <1>7, <1>8, <1>11, HeardIs
  <2>2. ack.is # "ok" => Good(w)
    BY <1>1, <1>3, <1>4, <1>5, <1>6, <1>8, <1>9, <1>11, HeardIs
  <2> QED BY <1>2, <1>11, <2>1, <2>2 DEF SignIInv
<1>12. CASE t \in v.tasks /\ ack.of # "switch"
  <2>1. /\ t.of = ack.of /\ t.gen = world.gen /\ t.n = ack.n /\ t.at = "register" /\ t \in world.tasks
    BY <1>3, <1>5, <1>12 DEF t
  <2>2. Waits(world, t)
    BY <2>1 DEF Waits
  <2>3. ack.of \in {"login", "recover"}
        /\ (ack.of = "login" => world.view = "login") /\ (ack.of = "recover" => world.view = "app")
    BY <1>1, <2>1, <2>2, OneWaits
  <2>4. CASE ack.is = "ok"
    <3>1. Good(S!SignedOn(w, ack.of, ack.prod))
      BY <1>1, <1>3, <1>4, <1>5, <1>6, <1>8, <1>12, <2>1, <2>4, EnsureIs
    <3> QED BY <1>2, <1>12, <2>4, <3>1 DEF SignIInv
  <2>5. CASE ack.is # "ok"
    <3>1. Core(w) /\ (\A y : AtMedia(w, y) <=> AtMedia(world, y)) /\ (SignJoined(world) => SignJoined(w))
      <4>1. /\ Waiter(world.acks[1]) \in world.tasks /\ world.acks[1].is # "ok" /\ w.acks = Tail(world.acks)
            /\ w.tasks = world.tasks \ {Waiter(world.acks[1])} /\ w.prod = world.prod
        BY <1>3, <1>4, <1>5, <1>6, <1>9, <1>12, <2>5
      <4> QED BY <1>1, <1>6, <1>8, <4>1, HeardIs
    <3>2. \A y : ~Waits(w, y)
      <4>1. \A y : Waits(w, y) => Waits(world, y) /\ y # t
        BY <1>5, <1>6, <1>9 DEF Waits
      <4> QED BY <1>1, <2>2, <4>1, OneWaits
    <3>3. \A y \in w.tasks : y.of = ack.of => y.gen # w.gen /\ ack.of # "login"
      <4> SUFFICES ASSUME NEW y \in world.tasks, y # t, y.of = ack.of PROVE y.gen # world.gen /\ ack.of # "login"
        BY <1>5, <1>6, <1>9
      <4> QED BY <1>1, <2>1 DEF Core, Calls
    <3>4. \A force : Good(S!Register(w, ack.of, force))
      BY <1>3, <1>9, <2>3, <3>1, <3>2, <3>3, RegisterIs
    <3>5. Types(w) /\ SignRequests(w)
      BY <3>1 DEF Core
    <3>6. Good(S!End(w))
      BY <1>6, <3>5, SignEndIs
    <3>7. ack.of = "login" => Good(w)
      <4>1. ack.of = "login" => Main(w)
        BY <1>9, <2>3 DEF Main
      <4> QED BY <3>1, <4>1 DEF Good
    <3>8. Good(no)
      BY <3>6, <3>7
    <3>9. Good(S!Refused(w, ack.of))
      <4>1. CASE ack.of = "login"
        BY <3>7, <4>1 DEF S!Refused
      <4>2. CASE ack.of # "login"
        <5> DEFINE e == [w EXCEPT !.valid = @ \ {w.cookie}]
        <5>1. DOMAIN e = Names /\ SameBut(w, e, {"valid"}) /\ e.valid = w.valid \ {w.cookie}
          BY <1>6 DEF SameBut, Names
        <5> HIDE DEF e
        <5>2. /\ e.holder = w.holder /\ e.sent = w.sent
              /\ e.gen = w.gen /\ e.sock = w.sock /\ e.cookie = w.cookie /\ e.hand = w.hand
              /\ e.view = w.view /\ e.init = w.init /\ e.media = w.media
          BY <5>1 DEF SameBut, Names
        <5>3. IsFiniteSet(e.valid)
          BY <3>5, <5>1, FS_Subset DEF Types
        <5>4. Types(e) /\ SignRequests(e)
          BY <3>5, <5>1, <5>2, <5>3 DEF Types, SignRequests
        <5>5. Good(S!End(e))
          BY <5>1, <5>4, SignEndIs
        <5> QED BY <4>2, <5>5 DEF S!Refused, e
      <4> QED BY <4>1, <4>2
    <3>10. ack.is \in {"own", "conflict", "refused"}
      BY <1>3, <2>5 DEF IsAnswer
    <3> HIDE DEF no
    <3> QED BY <1>2, <1>12, <3>4, <3>8, <3>9, <3>10 DEF SignIInv
  <2> QED BY <2>4, <2>5
<1> QED BY <1>10, <1>11, <1>12

\* A registration is given up.

\* A registration is given up.
LEMMA TimeoutKeeps == ASSUME SignIInv, NEW t \in world.tasks, S!Timeout(t) PROVE SignIInv'
<1> DEFINE w == [world EXCEPT !.tasks = @ \ {t}]
           f == S!Schedule(w)
<1>1. Good(world) /\ Core(world) /\ t.at = "register"
  BY DEF S!Timeout, SignIInv, Good
<1>2. DOMAIN w = Names /\ SameBut(world, w, {"tasks"}) /\ w.tasks = world.tasks \ {t}
  BY <1>1 DEF Core, Types, SameBut, Names
<1>3. world' = IF t.of = "login" \/ t.gen # w.gen THEN w ELSE f
  BY DEF S!Timeout, S!Failed
<1> HIDE DEF w
<1>4. DOMAIN f = Names /\ SameBut(w, f, {"timer"}) /\ f.timer = IF w.view = "app" THEN TRUE ELSE w.timer
  BY <1>2 DEF S!Schedule, SameBut, Names
<1> HIDE DEF f
<1>5. /\ w.sock = world.sock /\ w.gen = world.gen /\ w.hand = world.hand /\ w.view = world.view
      /\ w.sent = world.sent /\ w.acks = world.acks /\ w.holder = world.holder /\ w.served = world.served
      /\ w.prod = world.prod /\ w.cookie = world.cookie /\ w.valid = world.valid /\ w.init = world.init
      /\ w.media = world.media /\ w.timer = world.timer
  BY <1>2 DEF SameBut, Names
<1>6. Types(w)
  BY <1>1, <1>2, <1>5 DEF Core, Types
<1>7. t.of # "switch"
  BY <1>1 DEF Core, Calls, Stages
<1>8. Switching(world) => Switching(w)
  BY <1>2, <1>5, <1>7 DEF Switching
\* One of a former connection was waited for by nobody.
<1>9. ASSUME t.gen # world.gen, world.sock # 0, SignJoined(world) PROVE SignJoined(w)
  <2>1. \A k \in 1 .. Len(world.acks) : Waiter(world.acks[k]) # t
    <3>1. \A k \in 1 .. Len(world.acks) : world.acks[k].gen = world.gen
      BY <1>1, <1>9 DEF Core, Numbered
    <3> QED BY <1>9, <3>1 DEF Waiter
  <2>2. Agreed(w)
    BY <1>2, <1>5, <1>9, <2>1 DEF SignJoined, Agreed, LastOk
  <2> QED BY <1>5, <1>9, <2>2 DEF SignJoined, Handled
\* Nothing else relies on one of this connection.
<1>10. ASSUME t.gen = world.gen, NEW u, Waits(w, u) \/ (AtMedia(w, u) /\ u.of = "recover") PROVE FALSE
  <2>1. u \in world.tasks /\ u # t /\ u.gen = world.gen
    BY <1>2, <1>5, <1>10 DEF Waits, AtMedia
  <2>2. Waits(world, t)
    BY <1>1, <1>10 DEF Waits
  <2>3. (t.of = "login" /\ world.view = "login") \/ (t.of = "recover" /\ world.view = "app")
    BY <1>1, <2>2, OneWaits
  <2>4. CASE Waits(w, u)
    <3>1. Waits(world, u)
      BY <1>5, <2>1, <2>4 DEF Waits
    <3> QED BY <1>1, <2>1, <2>2, <3>1, OneWaits
  <2>5. CASE AtMedia(w, u) /\ u.of = "recover"
    <3>1. world.view = "app"
      BY <1>1, <2>1, <2>5 DEF Core, Calls
    <3>2. t.of = "recover"
      BY <2>3, <3>1
    <3> QED BY <1>1, <1>10, <2>1, <2>5, <3>2 DEF Core, Calls
  <2> QED BY <1>10, <2>4, <2>5
<1>11. Core(w)
  <2>1. \A u : w.sock # 0 /\ (Waits(w, u) \/ (AtMedia(w, u) /\ u.of = "recover")) /\ SignJoined(world) => SignJoined(w)
    BY <1>5, <1>9, <1>10
  <2> QED BY <1>1, <1>2, <1>5, <1>6, <1>8, <2>1, EndedIs
<1>12. CASE t.of = "login" \/ t.gen # w.gen
  <2>1. Main(w)
    <3>1. CASE t.gen # world.gen
      <4>1. S!Recovering(world) => S!Recovering(w)
        BY <1>2, <1>5, <3>1 DEF S!Recovering
      <4>2. \A u : AtMedia(world, u) => AtMedia(w, u)
        BY <1>2, <1>5, <3>1 DEF AtMedia
      <4> QED BY <1>1, <1>5, <1>9, <3>1, <4>1, <4>2 DEF Good, Main
    <3>2. CASE t.of = "login"
      <4>1. world.view = "login"
        BY <1>1, <3>2 DEF Core, Calls
      <4> QED BY <1>5, <4>1 DEF Main
    <3> QED BY <1>5, <1>12, <3>1, <3>2
  <2> QED BY <1>3, <1>11, <1>12, <2>1 DEF SignIInv, Good
<1>13. CASE ~(t.of = "login" \/ t.gen # w.gen)
  <2>1. /\ SameBut(w, f, Aside) /\ f.cookie = w.cookie /\ f.valid = w.valid /\ f.init = w.init /\ f.media = w.media
        /\ f.sock = w.sock /\ f.view = w.view
    BY <1>4 DEF SameBut, Names, Aside
  <2>2. f.cookie # 0 /\ IsFiniteSet(f.valid) /\ (f.init # S!NoInit \/ f.sock = 0 => ~f.media)
    BY <1>6, <2>1 DEF Types
  <2>3. Core(f)
    BY <1>4, <1>11, <2>1, <2>2, SignAsideKeeps
  <2>4. Main(f)
    BY <1>4, <2>1 DEF Main
  <2> QED BY <1>3, <1>13, <2>3, <2>4 DEF SignIInv, Good
<1> QED BY <1>12, <1>13

\* The initialization of the media goes on.
LEMMA InitializedIs == ASSUME SignIInv, world.init # S!NoInit, world.sock # 0 PROVE Good(S!Initialized(world))
<1> DEFINE c == S!CloseMedia(world)
           d == [world EXCEPT !.media = TRUE]
<1>1. Good(world) /\ DOMAIN world = Names /\ ~world.media
  BY DEF SignIInv, Good, Core, Types
<1>2. DOMAIN c = Names /\ SameBut(world, c, {"media", "mgen"}) /\ c.media = FALSE
  BY <1>1 DEF S!CloseMedia, SameBut, Names
<1>3. DOMAIN d = Names /\ SameBut(world, d, {"media", "mgen"}) /\ d.media = TRUE
  BY <1>1 DEF SameBut, Names
<1>4. S!Initialized(world) = IF world.init.gen # world.mgen \/ world.sock = 0 THEN S!MediaEnds(c, FALSE) ELSE S!MediaEnds(d, TRUE)
  BY DEF S!Initialized
<1> HIDE DEF c, d
<1>5. Good(S!MediaEnds(c, FALSE))
  <2>1. PICK ok \in BOOLEAN : ok = FALSE
    OBVIOUS
  <2>2. Good(S!MediaEnds(c, ok))
    BY <1>1, <1>2, <2>1, MediaEndsIs
  <2> QED BY <2>1, <2>2
<1>6. Good(S!MediaEnds(d, TRUE))
  <2>1. PICK ok \in BOOLEAN : ok = TRUE
    OBVIOUS
  <2>2. Good(S!MediaEnds(d, ok))
    BY <1>1, <1>3, <2>1, MediaEndsIs
  <2> QED BY <2>1, <2>2
<1> QED BY <1>4, <1>5, <1>6

LEMMA MediaStepKeeps == ASSUME SignIInv, S!MediaStep PROVE SignIInv'
<1> DEFINE v == [world EXCEPT !.init.at = "consume"]
<1>1. world.init # S!NoInit /\ world.sock # 0
  BY DEF S!MediaStep
<1>2. world' = S!Initialized(world) \/ (world.init.at = "ask" /\ world' = v)
  BY DEF S!MediaStep
<1>3. Good(world) /\ DOMAIN world = Names /\ ~world.media
  BY <1>1 DEF SignIInv, Good, Core, Types
<1>4. DOMAIN v = Names /\ SameBut(world, v, {"init"})
  BY <1>3 DEF SameBut, Names
<1> HIDE DEF v
<1>5. Good(v)
  <2>1. /\ SameBut(world, v, Aside) /\ v.cookie = world.cookie /\ v.valid = world.valid /\ v.media = world.media
        /\ v.timer = world.timer
    BY <1>4 DEF SameBut, Names, Aside
  <2>2. v.cookie # 0 /\ IsFiniteSet(v.valid)
    BY <1>3, <2>1 DEF Good, Core, Types
  <2>3. Core(v)
    BY <1>3, <1>4, <2>1, <2>2, SignAsideKeeps DEF Good
  <2>4. Main(v)
    BY <1>3, <2>1, AsideIs DEF Good, Main
  <2> QED BY <2>3, <2>4 DEF Good
<1>6. Good(S!Initialized(world))
  BY <1>1, InitializedIs
<1> QED BY <1>2, <1>5, <1>6 DEF SignIInv

LEMMA MediaFailsKeeps == ASSUME SignIInv, S!MediaFails PROVE SignIInv'
<1> DEFINE c == S!CloseMedia(world)
<1>1. world.init # S!NoInit
  BY DEF S!MediaFails, S!NoInit
<1>2. Good(world) /\ DOMAIN world = Names /\ ~world.media
  BY <1>1 DEF SignIInv, Good, Core, Types
<1>3. DOMAIN c = Names /\ SameBut(world, c, {"media", "mgen"}) /\ c.media = FALSE
  BY <1>2 DEF S!CloseMedia, SameBut, Names
<1>4. world' = S!MediaEnds(c, FALSE)
  BY DEF S!MediaFails
<1> HIDE DEF c
<1>5. PICK ok \in BOOLEAN : ok = FALSE
  OBVIOUS
<1>6. Good(S!MediaEnds(c, ok))
  BY <1>2, <1>3, <1>5, MediaEndsIs
<1> QED BY <1>4, <1>5, <1>6 DEF SignIInv

\* A connection ends.
LEMMA DroppedIs ==
  ASSUME NEW w, Core(w)
  PROVE  LET v == S!Dropped(w) IN
         /\ Good(v) /\ DOMAIN v = Names /\ v.sock = 0 /\ v.tasks \subseteq w.tasks
         /\ SameBut(w, v, {"mgen", "media", "sock", "gen", "previous", "last", "timer", "acks", "tasks", "hung"})
<1> DEFINE v == S!Dropped(w)
<1>1. /\ DOMAIN v = Names
      /\ SameBut(w, v, {"mgen", "media", "sock", "gen", "previous", "last", "timer", "acks", "tasks", "hung"})
      /\ v.sock = 0 /\ v.gen = w.gen + 1 /\ v.media = FALSE /\ v.acks = <<>> /\ v.tasks = {t \in w.tasks : t.of # "switch"}
  BY DEF Core, Types, S!Dropped, S!CloseMedia, SameBut, Names
<1> HIDE DEF v
<1>2. /\ v.hand = w.hand /\ v.view = w.view /\ v.cookie = w.cookie /\ v.valid = w.valid /\ v.holder = w.holder
      /\ v.sent = w.sent /\ v.init = w.init
  BY <1>1 DEF SameBut, Names
<1>3. w.gen \in Nat
  BY DEF Core, Types
<1>4. Types(v)
  BY <1>1, <1>2, <1>3 DEF Core, Types
<1>5. \A i \in 1 .. Len(w.sent) : w.sent[i].gen \in Nat /\ w.sent[i].gen < w.gen + 1
  BY <1>3 DEF Core, SignRequests
<1>6. SignRequests(v)
  BY <1>1, <1>2, <1>3, <1>5 DEF Core, SignRequests
<1>7. \A t \in w.tasks : t.gen \in Nat /\ t.gen < w.gen + 1
  <2>1. \A t \in w.tasks : IsTask(t) /\ t.gen <= w.gen
    BY DEF Core, Calls
  <2>2. \A t \in w.tasks : t.gen \in Nat
    BY <2>1 DEF IsTask
  <2> QED BY <1>3, <2>1, <2>2
<1>8. Calls(v)
  <2>1. IsFiniteSet(v.tasks)
    BY <1>1, FS_Subset DEF Core, Calls
  <2>2. \A t \in v.tasks : t \in w.tasks /\ t.gen < v.gen /\ t.gen <= v.gen /\ t.gen # v.gen
    BY <1>1, <1>3, <1>7
  <2> QED BY <1>2, <2>1, <2>2 DEF Core, Calls
<1>9. Apart(v)
  BY <1>1, <1>2, <1>3, <1>5, <1>7 DEF Apart
<1>10. Numbered(v) /\ Latest(v) /\ Signed(v) /\ Main(v)
  BY <1>1 DEF Numbered, Latest, Signed, Main
<1> QED BY <1>1, <1>4, <1>6, <1>8, <1>9, <1>10 DEF Good, Core, v

\* The server changes what is not about the present connection.
LEMMA ServerIs ==
  ASSUME NEW w, Good(w), NEW v, Types(v), SameBut(w, v, {"open", "holder", "valid"}),
         w.sock # 0 /\ w.holder = w.sock => v.holder = w.holder
  PROVE  Good(v)
<1>1. /\ v.sock = w.sock /\ v.gen = w.gen /\ v.hand = w.hand /\ v.view = w.view /\ v.sent = w.sent /\ v.acks = w.acks
      /\ v.tasks = w.tasks /\ v.served = w.served /\ v.prod = w.prod /\ v.timer = w.timer /\ v.media = w.media
  BY DEF SameBut, Names
<1>2. w.sock # 0 /\ SignJoined(w) => SignJoined(v)
  BY <1>1 DEF SignJoined, Handled, Agreed, LastOk
<1>3. Core(v)
  <2>1. Switching(w) => Switching(v)
    BY <1>1 DEF Switching
  <2>2. \A t : v.sock # 0 /\ (Waits(v, t) \/ (AtMedia(v, t) /\ t.of = "recover")) /\ SignJoined(w) => SignJoined(v)
    BY <1>1, <1>2
  <2> QED BY <1>1, <2>1, <2>2, EndedIs DEF Good
<1>4. Main(v)
  BY <1>1, <1>2 DEF Good, Main, S!Recovering, AtMedia
<1> QED BY <1>3, <1>4 DEF Good

LEMMA SignDisconnectKeeps == ASSUME SignIInv, S!Disconnect PROVE SignIInv'
<1>1. Core(world) /\ world' = S!Dropped(world)
  BY DEF SignIInv, Good, S!Disconnect
<1>2. Good(S!Dropped(world))
  BY <1>1, DroppedIs
<1> QED BY <1>1, <1>2 DEF SignIInv

LEMMA SignRestartKeeps == ASSUME SignIInv, S!Restart PROVE SignIInv'
<1> DEFINE w == IF world.sock = 0 THEN world ELSE S!Dropped(world)
           v == [w EXCEPT !.open = {}, !.holder = 0, !.sent = <<>>]
<1>1. world' = v
  BY DEF S!Restart
<1>2. Core(world)
  BY DEF SignIInv, Good
<1>3. Core(w) /\ w.sock = 0
  BY <1>2, DroppedIs DEF Good
<1> HIDE DEF w
<1>4. DOMAIN v = Names /\ SameBut(w, v, {"open", "holder", "sent"}) /\ v.holder = 0 /\ v.sent = <<>>
  BY <1>3 DEF Core, Types, SameBut, Names
<1> HIDE DEF v
<1>5. /\ v.gen = w.gen /\ v.sock = w.sock /\ v.cookie = w.cookie /\ v.hand = w.hand /\ v.valid = w.valid
      /\ v.view = w.view /\ v.init = w.init /\ v.media = w.media
  BY <1>4 DEF SameBut, Names
<1>6. Types(v)
  <2>1. 0 \notin 1 .. Connections
    OBVIOUS
  <2> QED BY <1>3, <1>4, <1>5, <2>1 DEF Core, Types
<1>7. SameBut(w, v, {"open", "valid", "holder", "served", "sent"})
  BY <1>4 DEF SameBut
<1>8. Good(v)
  BY <1>3, <1>4, <1>6, <1>7, AwayIs
<1> QED BY <1>1, <1>8 DEF SignIInv

LEMMA NoticeKeeps == ASSUME S!SessionAssumption, SignIInv, NEW s \in 1 .. Connections, S!Notice(s) PROVE SignIInv'
<1> DEFINE v == [world EXCEPT !.open = @ \ {s}, !.holder = IF @ = s THEN 0 ELSE @]
<1>1. world' = v /\ s # world.sock
  BY DEF S!Notice
<1>2. Good(world) /\ Types(world)
  BY DEF SignIInv, Good, Core
<1>3. DOMAIN v = Names /\ SameBut(world, v, {"open", "holder"}) /\ v.holder = IF world.holder = s THEN 0 ELSE world.holder
  BY <1>2 DEF Types, SameBut, Names
<1> HIDE DEF v
<1>4. /\ v.gen = world.gen /\ v.sock = world.sock /\ v.cookie = world.cookie /\ v.hand = world.hand /\ v.valid = world.valid
      /\ v.view = world.view /\ v.init = world.init /\ v.media = world.media
  BY <1>3 DEF SameBut, Names
<1>5. Types(v)
  <2>1. 0 \notin 1 .. Connections
    OBVIOUS
  <2> QED BY <1>2, <1>3, <1>4, <2>1 DEF Types
<1>6. SameBut(world, v, {"open", "holder", "valid"}) /\ (world.holder = world.sock => v.holder = world.holder)
  BY <1>1, <1>3 DEF SameBut
<1> QED BY <1>1, <1>2, <1>5, <1>6, ServerIs DEF SignIInv

LEMMA SignTimerFiresKeeps == ASSUME SignIInv, S!TimerFires PROVE SignIInv'
<1> DEFINE v == [world EXCEPT !.timer = FALSE]
<1>1. world' = S!Recover(v)
  BY DEF S!TimerFires
<1>2. Core(world)
  BY DEF SignIInv, Good
<1>3. DOMAIN v = Names /\ SameBut(world, v, {"timer"})
  BY <1>2 DEF Core, Types, SameBut, Names
<1> HIDE DEF v
<1>4. /\ SameBut(world, v, Aside) /\ v.cookie = world.cookie /\ v.valid = world.valid /\ v.media = world.media
      /\ v.sock = world.sock /\ v.init = world.init
  BY <1>3 DEF SameBut, Names, Aside
<1>5. v.cookie # 0 /\ IsFiniteSet(v.valid) /\ (v.init # S!NoInit \/ v.sock = 0 => ~v.media)
  BY <1>2, <1>4 DEF Core, Types
<1>6. Core(v)
  BY <1>2, <1>3, <1>4, <1>5, SignAsideKeeps
<1> QED BY <1>1, <1>6, RecoverIs DEF SignIInv

LEMMA LifecycleKeeps == ASSUME SignIInv, S!Lifecycle PROVE SignIInv'
<1>1. Core(world) /\ world' = S!Recover(world)
  BY DEF SignIInv, Good, S!Lifecycle
<1>2. Good(S!Recover(world))
  BY <1>1, RecoverIs
<1> QED BY <1>1, <1>2 DEF SignIInv

LEMMA LogoutKeeps == ASSUME S!SessionAssumption, SignIInv, S!Logout PROVE SignIInv'
<1> DEFINE o == [world EXCEPT !.valid = @ \ {world.cookie}]
           w == S!End(o)
           v == [w EXCEPT !.holder = 0, !.open = @ \ {world.sock}]
<1>1. world' = w \/ world' = v
  BY DEF S!Logout
<1>2. Types(world) /\ SignRequests(world)
  BY DEF SignIInv, Good, Core
<1>3. DOMAIN o = Names /\ SameBut(world, o, {"valid"}) /\ o.valid = world.valid \ {world.cookie}
  BY <1>2 DEF Types, SameBut, Names
<1> HIDE DEF o
<1>4. /\ o.holder = world.holder /\ o.sent = world.sent
      /\ o.gen = world.gen /\ o.sock = world.sock /\ o.cookie = world.cookie /\ o.hand = world.hand
      /\ o.view = world.view /\ o.init = world.init /\ o.media = world.media
  BY <1>3 DEF SameBut, Names
<1>5. IsFiniteSet(o.valid)
  BY <1>2, <1>3, FS_Subset DEF Types
<1>6. Types(o) /\ SignRequests(o)
  BY <1>2, <1>3, <1>4, <1>5 DEF Types, SignRequests
<1>7. Good(w) /\ w.sock = 0
  BY <1>3, <1>6, SignEndIs
<1> HIDE DEF w
<1>8. DOMAIN v = Names /\ SameBut(w, v, {"open", "holder"}) /\ v.holder = 0
  BY <1>7 DEF Good, Core, Types, SameBut, Names
<1> HIDE DEF v
<1>9. /\ v.gen = w.gen /\ v.sock = w.sock /\ v.cookie = w.cookie /\ v.hand = w.hand /\ v.valid = w.valid
      /\ v.view = w.view /\ v.init = w.init /\ v.media = w.media /\ v.sent = w.sent
  BY <1>8 DEF SameBut, Names
<1>10. Types(v)
  <2>1. 0 \notin 1 .. Connections
    OBVIOUS
  <2> QED BY <1>7, <1>8, <1>9, <2>1 DEF Good, Core, Types
<1>11. SameBut(w, v, {"open", "valid", "holder", "served", "sent"})
  BY <1>8 DEF SameBut
<1>12. Good(v)
  BY <1>7, <1>9, <1>10, <1>11, AwayIs DEF Good
<1> QED BY <1>1, <1>7, <1>12 DEF SignIInv

LEMMA SignElsewhereKeeps == ASSUME S!SessionAssumption, SignIInv, S!Elsewhere PROVE SignIInv'
<1> DEFINE k == S!Kick(world, world.holder)
           v == [k EXCEPT !.holder = Other]
<1>1. world' = v
  BY DEF S!Elsewhere
<1>2. Good(world) /\ Types(world) /\ SignRequests(world)
  BY DEF SignIInv, Good, Core
<1>3. /\ DOMAIN k = Names
      /\ world.holder # world.sock \/ world.holder = 0 => SameBut(world, k, {"open"})
      /\ world.holder = world.sock /\ world.holder # 0 => Good(k) /\ k.sock = 0
  BY <1>2, KickIs
<1> HIDE DEF k
<1>4. DOMAIN v = Names /\ SameBut(k, v, {"holder"}) /\ v.holder = Other
  BY <1>3 DEF SameBut, Names
<1> HIDE DEF v
<1>5. /\ v.gen = k.gen /\ v.sock = k.sock /\ v.cookie = k.cookie /\ v.hand = k.hand /\ v.valid = k.valid
      /\ v.view = k.view /\ v.init = k.init /\ v.media = k.media /\ v.sent = k.sent
  BY <1>4 DEF SameBut, Names
<1>6. Other \notin 1 .. Connections
  BY DEF S!SessionAssumption
<1>7. CASE world.holder = world.sock /\ world.holder # 0
  <2>1. Types(v)
    BY <1>3, <1>4, <1>5, <1>6, <1>7 DEF Good, Core, Types
  <2>2. SameBut(k, v, {"open", "valid", "holder", "served", "sent"})
    BY <1>4 DEF SameBut
  <2> QED BY <1>1, <1>3, <1>5, <1>7, <2>1, <2>2, AwayIs DEF SignIInv, Good
<1>8. CASE ~(world.holder = world.sock /\ world.holder # 0)
  <2>1. SameBut(world, k, {"open"})
    BY <1>3, <1>8
  <2>2. /\ k.gen = world.gen /\ k.sock = world.sock /\ k.cookie = world.cookie /\ k.hand = world.hand
        /\ k.valid = world.valid /\ k.view = world.view /\ k.init = world.init /\ k.media = world.media
    BY <2>1 DEF SameBut, Names
  <2>3. Types(v)
    BY <1>2, <1>4, <1>5, <1>6, <2>2 DEF Types
  <2>4. SameBut(world, v, {"open", "holder", "valid"})
    BY <1>4, <2>1 DEF SameBut
  <2> QED BY <1>1, <1>2, <1>8, <2>3, <2>4, ServerIs DEF SignIInv
<1> QED BY <1>7, <1>8

LEMMA ElsewhereEndsKeeps == ASSUME S!SessionAssumption, SignIInv, S!ElsewhereEnds PROVE SignIInv'
<1> DEFINE v == [world EXCEPT !.holder = 0]
<1>1. world' = v /\ world.holder = Other
  BY DEF S!ElsewhereEnds
<1>2. Good(world) /\ Types(world)
  BY DEF SignIInv, Good, Core
<1>3. DOMAIN v = Names /\ SameBut(world, v, {"holder"}) /\ v.holder = 0
  BY <1>2 DEF Types, SameBut, Names
<1> HIDE DEF v
<1>4. /\ v.gen = world.gen /\ v.sock = world.sock /\ v.cookie = world.cookie /\ v.hand = world.hand /\ v.valid = world.valid
      /\ v.view = world.view /\ v.init = world.init /\ v.media = world.media
  BY <1>3 DEF SameBut, Names
<1>5. Types(v)
  <2>1. 0 \notin 1 .. Connections
    OBVIOUS
  <2> QED BY <1>2, <1>3, <1>4, <2>1 DEF Types
<1>6. SameBut(world, v, {"open", "holder", "valid"}) /\ world.sock # world.holder
  BY <1>1, <1>2, <1>3 DEF SameBut, Types, S!SessionAssumption
<1> QED BY <1>1, <1>2, <1>5, <1>6, ServerIs DEF SignIInv

LEMMA ExpireKeeps == ASSUME SignIInv, S!Expire PROVE SignIInv'
<1> DEFINE v == [world EXCEPT !.valid = {}]
<1>1. world' = v
  BY DEF S!Expire
<1>2. Good(world) /\ Types(world)
  BY DEF SignIInv, Good, Core
<1>3. DOMAIN v = Names /\ SameBut(world, v, {"valid"}) /\ v.valid = {}
  BY <1>2 DEF Types, SameBut, Names
<1> HIDE DEF v
<1>4. /\ v.gen = world.gen /\ v.sock = world.sock /\ v.cookie = world.cookie /\ v.hand = world.hand
      /\ v.holder = world.holder
      /\ v.view = world.view /\ v.init = world.init /\ v.media = world.media
  BY <1>3 DEF SameBut, Names
<1>5. Types(v)
  BY <1>2, <1>3, <1>4, FS_EmptySet DEF Types
<1>6. SameBut(world, v, {"open", "holder", "valid"})
  BY <1>3 DEF SameBut
<1> QED BY <1>1, <1>2, <1>4, <1>5, <1>6, ServerIs DEF SignIInv

\* The page connects anew, and a sign-on that waited for it goes on.
LEMMA ConnectedIs ==
  ASSUME S!SessionAssumption, NEW u, Good(u), u.sock = 0, u.view # "ended",
         NEW s \in 1 .. Connections, u.hand[s] = 0,
         NEW w, DOMAIN w = Names, SameBut(u, w, {"sock", "last", "open", "hand"}), w.sock = s,
         w.hand = [u.hand EXCEPT ![s] = u.cookie]
  PROVE  /\ Core(w) /\ w.view = u.view /\ w.gen = u.gen /\ w.tasks = u.tasks
         /\ \A t \in w.tasks : t.gen = w.gen => t.at = "socket"
<1>1. /\ w.gen = u.gen /\ w.view = u.view /\ w.cookie = u.cookie /\ w.valid = u.valid /\ w.holder = u.holder
      /\ w.sent = u.sent /\ w.init = u.init /\ w.media = u.media /\ w.tasks = u.tasks /\ w.acks = u.acks
  BY DEF SameBut, Names
<1>2. Core(u)
  BY DEF Good
<1>3. w.sock # 0
  <2>1. 0 \notin 1 .. Connections
    OBVIOUS
  <2> QED BY <2>1
<1>4. /\ DOMAIN w.hand = 1 .. Connections /\ w.hand[s] # 0
      /\ \A n \in 1 .. Connections : u.hand[n] # 0 => w.hand[n] # 0 /\ n # s
  BY <1>2 DEF Core, Types
<1>5. Types(w)
  <2>1. w.sock \in {0} \cup 1 .. Connections
    OBVIOUS
  <2> QED BY <1>1, <1>2, <1>3, <1>4, <2>1 DEF Core, Types
<1>6. SignRequests(w)
  BY <1>1, <1>2, <1>4 DEF Core, SignRequests
<1>7. Calls(w)
  BY <1>1, <1>2 DEF Core, Calls
<1>8. u.acks = <<>> /\ (\A i \in 1 .. Len(u.sent) : u.sent[i].gen < u.gen) /\ \A t \in u.tasks : t.gen = u.gen => t.at = "socket"
  BY <1>2 DEF Core, Apart
<1>9. \A i \in 1 .. Len(w.sent) : w.sent[i].gen # w.gen /\ w.sent[i].sock # w.sock
  <2>1. ASSUME NEW i \in 1 .. Len(u.sent) PROVE u.sent[i].gen # u.gen /\ u.sent[i].sock # s
    <3>1. u.sent[i].gen \in Nat /\ u.gen \in Nat /\ u.sent[i].gen < u.gen
      BY <1>2, <1>8 DEF Core, Types, SignRequests
    <3>2. u.sent[i].sock \in 1 .. Connections /\ u.hand[u.sent[i].sock] # 0
      BY <1>2 DEF Core, SignRequests
    <3> QED BY <1>4, <3>1, <3>2
  <2> QED BY <1>1, <2>1
<1>10. Numbered(w)
  <2>1. w.acks = <<>> /\ 1 .. Len(w.acks) = {}
    <3>1. 1 .. 0 = {}
      OBVIOUS
    <3> QED BY <1>1, <1>8, <3>1, NoneIs
  <2> QED BY <1>9, <2>1, NoneIs DEF Numbered
<1>11. Apart(w) /\ Latest(w) /\ Signed(w)
  <2>1. \A t : ~Waits(w, t) /\ ~AtMedia(w, t)
    BY <1>1, <1>8 DEF Waits, AtMedia
  <2> QED BY <1>3, <2>1 DEF Apart, Latest, Signed
<1> QED BY <1>1, <1>5, <1>6, <1>7, <1>8, <1>10, <1>11 DEF Core

LEMMA ConnectKeeps == ASSUME S!SessionAssumption, SignIInv, S!Connect PROVE SignIInv'
<1>1. Good(world) /\ world.sock = 0 /\ world.view # "ended"
  BY DEF SignIInv, S!Connect
<1>2. PICK s \in {n \in 1 .. Connections : world.hand[n] = 0 /\ \A m \in 1 .. n - 1 : world.hand[m] # 0} :
        LET w == [world EXCEPT !.sock = s, !.last = s, !.open = @ \cup {s}, !.hand[s] = world.cookie]
            ts == {t \in w.tasks : t.at = "socket"}
            v == S!Recover(w)
        IN  world' = IF ts = {} THEN v ELSE S!Register([v EXCEPT !.tasks = @ \ ts], "login", FALSE)
  BY DEF S!Connect
<1> DEFINE w == [world EXCEPT !.sock = s, !.last = s, !.open = @ \cup {s}, !.hand[s] = world.cookie]
           ts == {t \in w.tasks : t.at = "socket"}
           v == S!Recover(w)
           x == [v EXCEPT !.tasks = @ \ ts]
<1>3. world' = IF ts = {} THEN v ELSE S!Register(x, "login", FALSE)
  BY <1>2
<1>4. s \in 1 .. Connections /\ world.hand[s] = 0
  BY <1>2
<1>5. /\ DOMAIN w = Names /\ SameBut(world, w, {"sock", "last", "open", "hand"}) /\ w.sock = s
      /\ w.hand = [world.hand EXCEPT ![s] = world.cookie]
  BY <1>1 DEF Good, Core, Types, SameBut, Names
<1> HIDE DEF w
<1>6. /\ Core(w) /\ w.view = world.view
      /\ \A t \in w.tasks : t.gen = w.gen => t.at = "socket"
  BY <1>1, <1>4, <1>5, ConnectedIs
<1>7. Good(v)
  BY <1>6, RecoverIs
<1>8. ASSUME ts # {} PROVE Good(S!Register(x, "login", FALSE))
  <2>1. PICK y \in w.tasks : y.at = "socket"
    BY <1>8
  <2>2. y.of = "login" /\ w.view = "login"
    <3>1. <<y.of, y.at>> \in Stages
      BY <1>6 DEF Core, Calls
    <3>2. y.of = "login"
      BY <2>1, <3>1 DEF Stages
    <3> QED BY <1>6, <2>1, <3>2 DEF Core, Calls
  <2>3. ~S!Recovering(w)
    <3>1. \A t \in w.tasks : <<t.of, t.at>> \in Stages
      BY <1>6 DEF Core, Calls
    <3>2. \A t \in w.tasks : t.of = "recover" => t.at # "socket"
      BY <3>1 DEF Stages
    <3> QED BY <1>6, <3>2 DEF S!Recovering
  <2>4. w.sock # 0
    <3>1. 0 \notin 1 .. Connections
      OBVIOUS
    <3> QED BY <1>4, <1>5, <3>1
  <2>5. v = [w EXCEPT !.previous = 0, !.timer = FALSE]
    BY <2>2, <2>3, <2>4 DEF S!Recover
  <2>6. DOMAIN v = Names /\ SameBut(w, v, {"previous", "timer"}) /\ v.tasks = w.tasks
    BY <1>5, <2>5 DEF SameBut, Names
  <2> HIDE DEF v
  <2>7. DOMAIN x = Names /\ SameBut(v, x, {"tasks"}) /\ x.tasks = w.tasks \ ts
    BY <2>6 DEF SameBut, Names
  <2> HIDE DEF x
  <2>8. /\ x.gen = w.gen /\ x.view = w.view /\ x.cookie = w.cookie /\ x.valid = w.valid /\ x.holder = w.holder
        /\ x.sent = w.sent /\ x.init = w.init /\ x.media = w.media /\ x.acks = w.acks /\ x.sock = w.sock
        /\ x.hand = w.hand
    BY <2>6, <2>7 DEF SameBut, Names
  <2>9. Types(x)
    BY <1>6, <2>7, <2>8 DEF Core, Types
  <2>10. \A t : ~Waits(x, t) /\ ~AtMedia(x, t)
    BY <1>6, <2>7, <2>8 DEF Waits, AtMedia
  <2>11. Switching(w) => Switching(x)
    <3>1. \A t \in w.tasks : <<t.of, t.at>> \in Stages
      BY <1>6 DEF Core, Calls
    <3>2. \A t \in w.tasks : t.of = "switch" => t.at # "socket"
      BY <3>1 DEF Stages
    <3> QED BY <2>7, <2>8, <3>2 DEF Switching
  <2>12. Core(x)
    BY <1>6, <2>7, <2>8, <2>9, <2>10, <2>11, EndedIs
  <2>13. \A t \in x.tasks : t.of # "login"
    <3>1. \A t \in w.tasks : t.of = "login" => t = y
      BY <1>6, <2>1, <2>2 DEF Core, Calls
    <3> QED BY <2>1, <2>7, <3>1
  <2>14. PICK of \in {"login", "recover"} : of = "login"
    OBVIOUS
  <2>15. Good(S!Register(x, of, FALSE))
    BY <2>2, <2>4, <2>8, <2>10, <2>12, <2>13, <2>14, RegisterIs
  <2> QED BY <2>14, <2>15
<1> HIDE DEF v, x, ts
<1> QED BY <1>3, <1>7, <1>8 DEF SignIInv

\* A page signs on: it waits for its new connection.
LEMMA LoginKeeps == ASSUME S!SessionAssumption, SignIInv, S!Login PROVE SignIInv'
<1> DEFINE b == IF world.sock = 0 THEN world ELSE S!Dropped(world)
           g == [b EXCEPT !.valid = @ \ {b.cookie}]
<1>1. PICK p \in AccountProds : \E w \in S!Identified(b) : world' = [w EXCEPT !.prod = p, !.tasks = @ \cup {S!Task(w, "login", "socket")}]
  BY DEF S!Login
<1>2. world.view = "login" /\ \A t \in world.tasks : t.of # "login"
  BY DEF S!Login
<1>3. Good(world) /\ Core(world)
  BY DEF SignIInv, Good
<1>4. Good(b) /\ b.sock = 0 /\ b.view = "login" /\ \A t \in b.tasks : t.of # "login"
  <2>1. CASE world.sock = 0
    BY <1>2, <1>3, <2>1
  <2>2. CASE world.sock # 0
    <3>1. /\ Good(b) /\ b.sock = 0 /\ b.tasks \subseteq world.tasks
          /\ SameBut(world, b, {"mgen", "media", "sock", "gen", "previous", "last", "timer", "acks", "tasks", "hung"})
      BY <1>3, <2>2, DroppedIs
    <3> HIDE DEF b
    <3>2. b.view = world.view
      BY <3>1 DEF SameBut, Names
    <3> QED BY <1>2, <3>1, <3>2
  <2> QED BY <2>1, <2>2
<1> HIDE DEF b
<1>5. Core(b) /\ Types(b)
  BY <1>4 DEF Good, Core
<1>6. DOMAIN g = Names /\ SameBut(b, g, {"valid"}) /\ g.valid = b.valid \ {b.cookie} /\ g.hand = b.hand
  BY <1>5 DEF Types, SameBut, Names
<1>7. S!Identified(b) \subseteq {S!NewCookie(b), S!NewCookie(g), b}
  BY DEF S!Identified
<1> HIDE DEF g
<1>8. PICK w : w \in S!Identified(b) /\ world' = [w EXCEPT !.prod = p, !.tasks = @ \cup {S!Task(w, "login", "socket")}]
  BY <1>1
<1>9. DOMAIN w = Names /\ SameBut(b, w, {"cookie", "valid"}) /\ w.cookie # 0 /\ IsFiniteSet(w.valid)
  <2>1. CASE w = b
    BY <1>5, <2>1 DEF SameBut, Types
  <2>2. CASE w = S!NewCookie(b)
    <3>1. IsFiniteSet(b.valid) /\ DOMAIN b = Names /\ DOMAIN b.hand = 1 .. Connections
      BY <1>5 DEF Types
    <3> QED BY <2>2, <3>1, NewCookieIs
  <2>3. CASE w = S!NewCookie(g)
    <3>1. IsFiniteSet(g.valid) /\ DOMAIN g.hand = 1 .. Connections
      BY <1>5, <1>6, FS_Subset DEF Types
    <3>2. DOMAIN w = Names /\ SameBut(g, w, {"cookie", "valid"}) /\ w.cookie # 0 /\ IsFiniteSet(w.valid)
      BY <1>6, <2>3, <3>1, NewCookieIs
    <3>3. SameBut(b, w, {"cookie", "valid"})
      BY <1>6, <3>2 DEF SameBut
    <3> QED BY <3>2, <3>3
  <2> QED BY <1>7, <1>8, <2>1, <2>2, <2>3
<1> DEFINE y == S!Task(w, "login", "socket")
           q == [w EXCEPT !.prod = p, !.tasks = @ \cup {y}]
<1>10. world' = q
  BY <1>8
<1>11. DOMAIN q = Names /\ SameBut(w, q, {"prod", "tasks"}) /\ q.tasks = w.tasks \cup {y}
  BY <1>9 DEF SameBut, Names
<1> HIDE DEF q
<1>12. /\ q.gen = b.gen /\ q.view = "login" /\ q.cookie = w.cookie /\ q.valid = w.valid /\ q.holder = b.holder
       /\ q.sent = b.sent /\ q.init = b.init /\ q.media = b.media /\ q.acks = b.acks /\ q.sock = 0
       /\ q.hand = b.hand /\ w.tasks = b.tasks /\ w.gen = b.gen
  BY <1>4, <1>9, <1>11 DEF SameBut, Names
<1>13. IsTask(y) /\ y.of = "login" /\ y.at = "socket" /\ y.gen = b.gen /\ y.n = 0
  <2>1. b.gen \in Nat
    BY <1>5 DEF Types
  <2> QED BY <1>12, <2>1 DEF S!Task, IsTask
<1> HIDE DEF y
<1>14. Types(q)
  BY <1>4, <1>5, <1>9, <1>11, <1>12 DEF Types
<1>15. SignRequests(q)
  BY <1>5, <1>12 DEF Core, SignRequests
<1>16. Calls(q)
  <2>1. IsFiniteSet(q.tasks)
    BY <1>5, <1>11, <1>12, FS_AddElement DEF Core, Calls
  <2>2. <<y.of, y.at>> \in Stages /\ y.gen <= q.gen
    <3>1. b.gen \in Nat
      BY <1>5 DEF Types
    <3> QED BY <1>12, <1>13, <3>1 DEF Stages
  <2>3. \A t \in q.tasks :
          /\ IsTask(t) /\ t.gen <= q.gen /\ <<t.of, t.at>> \in Stages
          /\ t.at = "switch" => t.n = 0
          /\ t.at = "register" => t.n # 0
          /\ t.of = "recover" \/ t.at = "media" => q.view = "app"
          /\ t.of = "login" /\ t.at # "media" => q.view = "login"
    <3>1. \A t \in b.tasks :
          /\ IsTask(t) /\ t.gen <= b.gen /\ <<t.of, t.at>> \in Stages
          /\ t.at = "switch" => t.n = 0
          /\ t.at = "register" => t.n # 0
          /\ t.of = "recover" \/ t.at = "media" => b.view = "app"
      BY <1>5 DEF Core, Calls
    <3> QED BY <1>4, <1>11, <1>12, <1>13, <2>2, <3>1
  <2>4. \A t, u \in q.tasks : t.of = u.of /\ (t.of = "login" \/ (t.gen = q.gen /\ u.gen = q.gen)) => t = u
    <3>1. \A t, u \in b.tasks : t.of = u.of /\ (t.of = "login" \/ (t.gen = b.gen /\ u.gen = b.gen)) => t = u
      BY <1>5 DEF Core, Calls
    <3> QED BY <1>4, <1>11, <1>12, <1>13, <3>1
  <2> QED BY <2>1, <2>3, <2>4 DEF Calls
<1>17. Apart(q)
  <2>1. /\ b.acks = <<>> /\ \A i \in 1 .. Len(b.sent) : b.sent[i].gen < b.gen
        /\ \A t \in b.tasks : t.gen = b.gen => t.at = "socket"
    BY <1>4, <1>5 DEF Core, Apart
  <2> QED BY <1>11, <1>12, <1>13, <2>1 DEF Apart
<1>18. Numbered(q) /\ Latest(q) /\ Signed(q) /\ Main(q)
  BY <1>12 DEF Numbered, Latest, Signed, Main
<1> QED BY <1>10, <1>14, <1>15, <1>16, <1>17, <1>18 DEF SignIInv, Good, Core

\* The production a page shows, while it waits for no registration.
LEMMA GuestLoginKeeps == ASSUME SignIInv, S!GuestLogin PROVE SignIInv'
<1>1. PICK p \in AccountProds : world' = S!Register([world EXCEPT !.prod = p], "login", FALSE)
  BY DEF S!GuestLogin
<1>2. world.view = "login" /\ world.sock # 0 /\ \A t \in world.tasks : t.of # "login"
  BY DEF S!GuestLogin
<1>3. Core(world)
  BY DEF SignIInv, Good
<1> DEFINE v == [world EXCEPT !.prod = p]
<1>4. DOMAIN v = Names /\ SameBut(world, v, {"prod"})
  BY <1>3 DEF Core, Types, SameBut, Names
<1> HIDE DEF v
<1>5. /\ v.gen = world.gen /\ v.view = world.view /\ v.cookie = world.cookie /\ v.valid = world.valid
      /\ v.sent = world.sent /\ v.init = world.init /\ v.media = world.media /\ v.acks = world.acks /\ v.sock = world.sock
      /\ v.hand = world.hand /\ v.tasks = world.tasks /\ v.holder = world.holder
  BY <1>4 DEF SameBut, Names
<1>6. Types(v)
  BY <1>3, <1>4, <1>5 DEF Core, Types
<1>7. \A t : ~Waits(v, t)
  <2>1. \A t : ~Waits(world, t)
    BY <1>2, <1>3, OneWaits DEF Waits
  <2> QED BY <1>5, <2>1 DEF Waits
<1>8. \A t : ~(AtMedia(v, t) /\ t.of = "recover")
  <2>1. \A t \in world.tasks : t.of = "recover" => world.view = "app"
    BY <1>3 DEF Core, Calls
  <2> QED BY <1>2, <1>5, <2>1 DEF AtMedia
<1>9. Core(v)
  <2>1. Switching(world) => Switching(v)
    BY <1>5 DEF Switching
  <2> QED BY <1>3, <1>5, <1>6, <1>7, <1>8, <2>1, EndedIs
<1>10. PICK of \in {"login", "recover"} : of = "login"
  OBVIOUS
<1>11. Good(S!Register(v, of, FALSE))
  BY <1>2, <1>5, <1>7, <1>9, <1>10, RegisterIs
<1> QED BY <1>1, <1>10, <1>11 DEF SignIInv, v

LEMMA GuestReturnsKeeps == ASSUME SignIInv, S!GuestReturns PROVE SignIInv'
<1> DEFINE v == [world EXCEPT !.view = "app"]
<1>1. world' = S!Recover(v) /\ world.view = "login" /\ world.tasks = {}
  BY DEF S!GuestReturns
<1>2. Core(world)
  BY DEF SignIInv, Good
<1>3. DOMAIN v = Names /\ SameBut(world, v, {"view"}) /\ v.view = "app"
  BY <1>2 DEF Core, Types, SameBut, Names
<1> HIDE DEF v
<1>4. /\ v.gen = world.gen /\ v.cookie = world.cookie /\ v.valid = world.valid
      /\ v.sent = world.sent /\ v.init = world.init /\ v.media = world.media /\ v.acks = world.acks /\ v.sock = world.sock
      /\ v.hand = world.hand /\ v.tasks = world.tasks /\ v.holder = world.holder
  BY <1>3 DEF SameBut, Names
<1>5. Types(v)
  BY <1>2, <1>3, <1>4 DEF Core, Types
<1>6. SignRequests(v) /\ Calls(v)
  BY <1>1, <1>2, <1>4 DEF Core, SignRequests, Calls
<1>7. Apart(v)
  BY <1>1, <1>2, <1>4 DEF Core, Apart
<1>8. Numbered(v)
  BY <1>2, <1>4 DEF Core, Numbered, Switching
<1>9. Latest(v) /\ Signed(v)
  BY <1>1, <1>4 DEF Latest, Signed, Waits, AtMedia
<1>10. Core(v)
  BY <1>5, <1>6, <1>7, <1>8, <1>9 DEF Core
<1> QED BY <1>1, <1>10, RecoverIs DEF SignIInv

LEMMA LoginTimeoutKeeps == ASSUME SignIInv, S!LoginTimeout PROVE SignIInv'
<1>1. PICK t \in world.tasks : t.at = "socket" /\ world' = [world EXCEPT !.tasks = @ \ {t}]
  BY DEF S!LoginTimeout
<1> DEFINE v == [world EXCEPT !.tasks = @ \ {t}]
<1>2. Good(world) /\ Core(world)
  BY DEF SignIInv, Good
<1>3. DOMAIN v = Names /\ SameBut(world, v, {"tasks"}) /\ v.tasks = world.tasks \ {t}
  BY <1>2 DEF Core, Types, SameBut, Names
<1>4. world' = v
  BY <1>1
<1> HIDE DEF v
<1>5. /\ v.gen = world.gen /\ v.view = world.view /\ v.cookie = world.cookie /\ v.valid = world.valid
      /\ v.sent = world.sent /\ v.init = world.init /\ v.media = world.media /\ v.acks = world.acks /\ v.sock = world.sock
      /\ v.hand = world.hand /\ v.holder = world.holder /\ v.served = world.served /\ v.prod = world.prod
      /\ v.timer = world.timer
  BY <1>3 DEF SameBut, Names
<1>6. Types(v)
  BY <1>2, <1>3, <1>5 DEF Core, Types
<1>7. t.of = "login"
  <2>1. <<t.of, t.at>> \in Stages
    BY <1>2 DEF Core, Calls
  <2> QED BY <1>1, <2>1 DEF Stages
<1>8. SignJoined(world) => SignJoined(v)
  <2>1. \A a : Waiter(a) # t
    BY <1>1 DEF Waiter
  <2>2. Agreed(world) => Agreed(v)
    BY <1>3, <1>5, <2>1 DEF Agreed, LastOk
  <2> QED BY <1>5, <2>2 DEF SignJoined, Handled
<1>9. Core(v)
  <2>1. Switching(world) => Switching(v)
    BY <1>3, <1>5, <1>7 DEF Switching
  <2> QED BY <1>2, <1>3, <1>5, <1>6, <1>8, <2>1, EndedIs
<1>10. Main(v)
  <2>1. S!Recovering(world) => S!Recovering(v)
    BY <1>3, <1>5, <1>7 DEF S!Recovering
  <2>2. \A u : AtMedia(world, u) => AtMedia(v, u)
    BY <1>1, <1>3, <1>5 DEF AtMedia
  <2> QED BY <1>2, <1>5, <1>8, <2>1, <2>2 DEF Good, Main
<1> QED BY <1>4, <1>9, <1>10 DEF SignIInv, Good

\* Another production is asked for.
LEMMA SwitchKeeps == ASSUME SignIInv, NEW p \in AccountProds, S!Switch(p) PROVE SignIInv'
<1> DEFINE w == world
           x == S!Task(w, "switch", "switch")
           m == [what |-> "switch", of |-> "switch", gen |-> w.gen, n |-> 0, sock |-> w.sock, force |-> FALSE, prod |-> p]
           v == [w EXCEPT !.tasks = @ \cup {x}, !.sent = Append(@, m)]
           k == Len(w.sent) + 1
<1>1. world' = v /\ w.sock # 0 /\ \A t \in w.tasks : t.of # "switch"
  BY DEF S!Switch
<1>2. Core(w) /\ Good(w)
  BY DEF SignIInv, Good
<1>3. DOMAIN v = Names /\ SameBut(w, v, {"tasks", "sent"}) /\ v.tasks = w.tasks \cup {x} /\ v.sent = Append(w.sent, m)
  BY <1>2 DEF Core, Types, SameBut, Names
<1>4. IsFiniteSet(w.tasks) /\ IsRow(w.sent) /\ IsRow(w.acks) /\ w.gen \in Nat
  BY <1>1, <1>2 DEF Core, Types, Calls, SignRequests, Numbered
<1> HIDE DEF v
<1>5. /\ IsTask(x) /\ x.of = "switch" /\ x.at = "switch" /\ x.gen = w.gen /\ x.n = 0
      /\ m.what = "switch" /\ m.of = "switch" /\ m.gen = w.gen /\ m.sock = w.sock /\ m.n = 0
  BY <1>4 DEF S!Task, IsTask
<1> HIDE DEF x, m
<1>6. /\ IsRow(v.sent) /\ Len(w.sent) \in Nat /\ Len(v.sent) = k /\ v.sent[k] = m
      /\ \A i \in 1 .. Len(w.sent) : v.sent[i] = w.sent[i]
  BY <1>3, <1>4, AppendTo
<1>7. \A i \in 1 .. k : i \in 1 .. Len(w.sent) \/ i = k
  BY <1>6
<1>8. /\ v.gen = w.gen /\ v.view = w.view /\ v.cookie = w.cookie /\ v.valid = w.valid
      /\ v.init = w.init /\ v.media = w.media /\ v.acks = w.acks /\ v.sock = w.sock
      /\ v.hand = w.hand /\ v.holder = w.holder /\ v.served = w.served /\ v.prod = w.prod /\ v.timer = w.timer
  BY <1>3 DEF SameBut, Names
<1> HIDE DEF w
<1>9. Types(v)
  BY <1>2, <1>3, <1>8 DEF Core, Types
\* None is on its way.
<1>10. ~Switching(w)
  BY <1>1 DEF Switching
<1>11. /\ \A i \in 1 .. Len(w.sent) : w.sent[i].gen = w.gen => w.sent[i].n # 0
       /\ \A l \in 1 .. Len(w.acks) : w.acks[l].n # 0
  <2>1. \A i \in 1 .. Len(w.sent) : w.sent[i].gen = w.gen => w.sent[i].what # "switch"
    BY <1>1, <1>2, <1>10 DEF Core, Numbered
  <2>2. \A l \in 1 .. Len(w.acks) : w.acks[l].of # "switch" /\ (w.acks[l].of = "switch" <=> w.acks[l].n = 0)
    BY <1>1, <1>2, <1>10 DEF Core, Numbered
  <2> QED BY <1>2, <2>1, <2>2 DEF Core, SignRequests
<1>12. Switching(v)
  BY <1>3, <1>5, <1>8 DEF Switching
<1>13. SignRequests(v)
  <2>1. w.sock \in 1 .. Connections /\ w.hand[w.sock] # 0
    BY <1>1, <1>2 DEF Core, Types
  <2>2. ASSUME NEW i \in 1 .. Len(v.sent)
        PROVE  /\ v.sent[i].gen \in Nat /\ v.sent[i].gen <= v.gen
               /\ v.sent[i].sock \in 1 .. Connections /\ v.hand[v.sent[i].sock] # 0
               /\ v.sent[i].what \in {"register", "switch"}
               /\ v.sent[i].what = "switch" <=> v.sent[i].n = 0
               /\ v.sent[i].what = "switch" <=> v.sent[i].of = "switch"
    <3>1. CASE i \in 1 .. Len(w.sent)
      BY <1>2, <1>6, <1>8, <3>1 DEF Core, SignRequests
    <3>2. CASE i = k
      BY <1>4, <1>5, <1>6, <1>8, <2>1, <3>2
    <3> QED BY <1>6, <1>7, <3>1, <3>2
  <2>3. ASSUME NEW i \in 1 .. Len(v.sent), NEW j \in 1 .. Len(v.sent), i < j PROVE v.sent[i].gen <= v.sent[j].gen
    <3>1. i \in 1 .. Len(w.sent)
      BY <1>6, <2>3
    <3>2. CASE j = k
      BY <1>2, <1>5, <1>6, <1>8, <3>1, <3>2 DEF Core, SignRequests
    <3>3. CASE j \in 1 .. Len(w.sent)
      BY <1>2, <1>6, <2>3, <3>1, <3>3 DEF Core, SignRequests
    <3> QED BY <1>6, <1>7, <3>2, <3>3
  <2> QED BY <1>6, <2>2, <2>3 DEF SignRequests
<1>14. Calls(v)
  <2>1. IsFiniteSet(v.tasks)
    BY <1>3, <1>4, FS_AddElement
  <2>2. <<x.of, x.at>> \in Stages /\ x.gen <= v.gen
    BY <1>4, <1>5, <1>8 DEF Stages
  <2>3. \A t \in v.tasks :
          /\ IsTask(t) /\ t.gen <= v.gen /\ <<t.of, t.at>> \in Stages
          /\ t.at = "switch" => t.n = 0
          /\ t.at = "register" => t.n # 0
          /\ t.of = "recover" \/ t.at = "media" => v.view = "app"
          /\ t.of = "login" /\ t.at # "media" => v.view = "login"
    BY <1>2, <1>3, <1>5, <1>8, <2>2 DEF Core, Calls
  <2>4. \A t, u \in v.tasks : t.of = u.of /\ (t.of = "login" \/ (t.gen = v.gen /\ u.gen = v.gen)) => t = u
    BY <1>1, <1>2, <1>3, <1>5, <1>8 DEF Core, Calls, w
  <2> QED BY <2>1, <2>3, <2>4 DEF Calls
<1>15. Apart(v)
  BY <1>1, <1>8 DEF Apart
<1>16. Numbered(v)
  <2>1. \A i \in 1 .. Len(v.sent) : v.sent[i].gen = v.gen <=> v.sent[i].sock = v.sock
    <3>1. \A i \in 1 .. Len(w.sent) : w.sent[i].gen = w.gen <=> w.sent[i].sock = w.sock
      BY <1>1, <1>2 DEF Core, Numbered
    <3> QED BY <1>5, <1>6, <1>7, <1>8, <3>1
  <2>2. IsRow(v.acks) /\ \A l \in 1 .. Len(v.acks) :
          /\ IsAnswer(v.acks[l]) /\ v.acks[l].gen = v.gen
          /\ v.acks[l].of = "switch" <=> v.acks[l].n = 0
    BY <1>1, <1>2, <1>8 DEF Core, Numbered
  <2>3. \A i, j \in 1 .. Len(v.sent) :
          i # j /\ v.sent[i].gen = v.gen /\ v.sent[j].gen = v.gen => v.sent[i].n # v.sent[j].n
    <3>1. \A i, j \in 1 .. Len(w.sent) :
            i # j /\ w.sent[i].gen = w.gen /\ w.sent[j].gen = w.gen => w.sent[i].n # w.sent[j].n
      BY <1>1, <1>2 DEF Core, Numbered
    <3>2. ASSUME NEW i \in 1 .. Len(v.sent), NEW j \in 1 .. Len(v.sent), i # j, v.sent[i].gen = v.gen, v.sent[j].gen = v.gen
          PROVE  v.sent[i].n # v.sent[j].n
      <4>1. CASE i = k
        BY <1>5, <1>6, <1>7, <1>8, <1>11, <3>2, <4>1
      <4>2. CASE j = k
        BY <1>5, <1>6, <1>7, <1>8, <1>11, <3>2, <4>2
      <4>3. CASE i \in 1 .. Len(w.sent) /\ j \in 1 .. Len(w.sent)
        <5>1. v.sent[i] = w.sent[i] /\ v.sent[j] = w.sent[j] /\ v.gen = w.gen
          BY <1>6, <1>8, <4>3
        <5> HIDE DEF k
        <5> QED BY <3>1, <3>2, <4>3, <5>1
      <4> QED BY <1>6, <1>7, <4>1, <4>2, <4>3
    <3> QED BY <3>2
  <2>4. \A i \in 1 .. Len(v.sent), l \in 1 .. Len(v.acks) : v.sent[i].gen = v.gen => v.sent[i].n # v.acks[l].n
    <3>1. \A i \in 1 .. Len(w.sent), l \in 1 .. Len(w.acks) : w.sent[i].gen = w.gen => w.sent[i].n # w.acks[l].n
      BY <1>1, <1>2 DEF Core, Numbered
    <3>2. ASSUME NEW i \in 1 .. Len(v.sent), NEW l \in 1 .. Len(v.acks), v.sent[i].gen = v.gen
          PROVE  v.sent[i].n # v.acks[l].n
      <4>1. CASE i = k
        BY <1>5, <1>6, <1>8, <1>11, <4>1
      <4>2. CASE i \in 1 .. Len(w.sent)
        BY <1>6, <1>8, <3>1, <3>2, <4>2
      <4> QED BY <1>6, <1>7, <4>1, <4>2
    <3> QED BY <3>2
  <2>5. \A l, j \in 1 .. Len(v.acks) : l # j => v.acks[l].n # v.acks[j].n
    BY <1>1, <1>2, <1>8 DEF Core, Numbered
  <2> QED BY <1>12, <2>1, <2>2, <2>3, <2>4, <2>5 DEF Numbered
<1>17. Handled(w) => Handled(v)
  BY <1>5, <1>6, <1>7, <1>8 DEF Handled
<1>18. SignJoined(w) => SignJoined(v)
  <2>1. Agreed(w) => Agreed(v)
    BY <1>3, <1>8 DEF Agreed, LastOk
  <2> QED BY <1>8, <1>17, <2>1 DEF SignJoined
<1>19. Latest(v)
  <2> SUFFICES ASSUME NEW t, Waits(v, t)
               PROVE  /\ \A i \in 1 .. Len(v.sent) : v.sent[i].gen = v.gen /\ v.sent[i].n = t.n =>
                           v.sent[i].of = t.of /\ \A j \in 1 .. Len(v.sent) : j > i => v.sent[j].what = "switch"
                      /\ \A l \in 1 .. Len(v.acks) : v.acks[l].n = t.n =>
                           v.acks[l].of = t.of /\ Handled(v) /\ (v.acks[l].is = "ok" => SignJoined(v))
    BY DEF Latest
  <2>1. Waits(w, t) /\ t.n # 0
    <3>1. Waits(w, t)
      BY <1>3, <1>5, <1>8 DEF Waits
    <3> QED BY <1>2, <3>1 DEF Waits, Core, Calls
  <2>2. /\ \A i \in 1 .. Len(w.sent) : w.sent[i].gen = w.gen /\ w.sent[i].n = t.n =>
             w.sent[i].of = t.of /\ \A j \in 1 .. Len(w.sent) : j > i => w.sent[j].what = "switch"
        /\ \A l \in 1 .. Len(w.acks) : w.acks[l].n = t.n =>
             w.acks[l].of = t.of /\ Handled(w) /\ (w.acks[l].is = "ok" => SignJoined(w))
    BY <1>1, <1>2, <2>1 DEF Core, Latest
  <2>3. ASSUME NEW i \in 1 .. Len(v.sent), v.sent[i].gen = v.gen, v.sent[i].n = t.n
        PROVE  v.sent[i].of = t.of /\ \A j \in 1 .. Len(v.sent) : j > i => v.sent[j].what = "switch"
    <3>1. i \in 1 .. Len(w.sent)
      BY <1>5, <1>6, <1>7, <2>1, <2>3
    <3>2. w.sent[i].of = t.of /\ \A j \in 1 .. Len(w.sent) : j > i => w.sent[j].what = "switch"
      BY <1>6, <1>8, <2>2, <2>3, <3>1
    <3> QED BY <1>5, <1>6, <1>7, <3>1, <3>2
  <2>4. \A l \in 1 .. Len(v.acks) : v.acks[l].n = t.n =>
          v.acks[l].of = t.of /\ Handled(v) /\ (v.acks[l].is = "ok" => SignJoined(v))
    BY <1>8, <1>17, <1>18, <2>2
  <2> QED BY <2>3, <2>4
<1>20. \A t : (AtMedia(v, t) <=> AtMedia(w, t))
  BY <1>3, <1>5, <1>8 DEF AtMedia
<1>21. Signed(v)
  BY <1>1, <1>2, <1>18, <1>20 DEF Core, Signed
<1>22. Main(v)
  <2>1. S!Recovering(w) => S!Recovering(v)
    BY <1>3, <1>8 DEF S!Recovering
  <2> QED BY <1>1, <1>2, <1>8, <1>18, <1>20, <2>1 DEF Good, Main
<1> QED BY <1>1, <1>9, <1>13, <1>14, <1>15, <1>16, <1>19, <1>21, <1>22 DEF SignIInv, Good, Core

(***************************************************************************)
(* The specification.                                                      *)
(***************************************************************************)
LEMMA InitIs == ASSUME S!SessionAssumption, S!Init PROVE SignIInv
<1>1. PICK kind \in {"user", "feed", "guest"}, p \in AccountProds, valid \in {{}, {1}} :
        world = [kind |-> kind, view |-> "login", sock |-> 1, gen |-> 0, last |-> 1, previous |-> 0, prod |-> p,
                 cookie |-> 1, tasks |-> {}, timer |-> FALSE, media |-> FALSE, mgen |-> 0, init |-> S!NoInit,
                 sent |-> <<>>, acks |-> <<>>, open |-> {1}, hand |-> [s \in 1 .. Connections |-> IF s = 1 THEN 1 ELSE 0],
                 valid |-> valid, holder |-> 0, served |-> p, hung |-> FALSE]
  BY DEF S!Init
<1>2. /\ DOMAIN world = Names /\ world.view = "login" /\ world.sock = 1 /\ world.gen = 0 /\ world.cookie = 1
      /\ world.tasks = {} /\ world.media = FALSE /\ world.sent = <<>> /\ world.acks = <<>>
      /\ world.hand = [s \in 1 .. Connections |-> IF s = 1 THEN 1 ELSE 0] /\ world.valid \in {{}, {1}} /\ world.holder = 0
  BY <1>1 DEF Names
<1>3. 1 \in 1 .. Connections /\ 0 \notin 1 .. Connections
  BY DEF S!SessionAssumption
<1>4. IsFiniteSet(world.valid) /\ IsFiniteSet(world.tasks)
  <2>1. IsFiniteSet({})
    BY FS_EmptySet
  <2>2. IsFiniteSet({1})
    BY FS_Singleton
  <2> QED BY <1>2, <2>1, <2>2
<1>5. Types(world)
  BY <1>2, <1>3, <1>4 DEF Types
<1>6. IsRow(<<>>) /\ 1 .. Len(<<>>) = {}
  <2>1. 1 .. 0 = {}
    OBVIOUS
  <2> QED BY <2>1, NoneIs
<1>7. SignRequests(world) /\ Calls(world)
  BY <1>2, <1>4, <1>6 DEF SignRequests, Calls
<1>8. Apart(world) /\ Numbered(world)
  BY <1>2, <1>6 DEF Apart, Numbered
<1>9. Latest(world) /\ Signed(world) /\ Main(world)
  BY <1>2 DEF Latest, Signed, Main, Waits, AtMedia
<1> QED BY <1>5, <1>7, <1>8, <1>9 DEF SignIInv, Good, Core

LEMMA SignNextKeeps == ASSUME S!SessionAssumption, SignIInv, [S!Next]_(S!vars) PROVE SignIInv'
<1>1. CASE S!Next
  <2>1. CASE S!Handle
    BY <2>1, SignHandleKeeps
  <2>2. CASE S!Hear
    BY <2>2, HearKeeps
  <2>3. CASE S!MediaStep \/ S!MediaFails
    BY <2>3, MediaStepKeeps, MediaFailsKeeps
  <2>4. CASE S!Connect \/ S!Disconnect \/ S!Restart
    BY <2>4, ConnectKeeps, SignDisconnectKeeps, SignRestartKeeps
  <2>5. CASE S!TimerFires \/ S!Lifecycle
    BY <2>5, SignTimerFiresKeeps, LifecycleKeeps
  <2>6. CASE S!Login \/ S!GuestLogin \/ S!GuestReturns \/ S!LoginTimeout
    BY <2>6, LoginKeeps, GuestLoginKeeps, GuestReturnsKeeps, LoginTimeoutKeeps
  <2>7. CASE S!Logout \/ S!Elsewhere \/ S!ElsewhereEnds \/ S!Expire
    BY <2>7, LogoutKeeps, SignElsewhereKeeps, ElsewhereEndsKeeps, ExpireKeeps
  <2>8. CASE \E t \in world.tasks : S!Timeout(t)
    BY <2>8, TimeoutKeeps
  <2>9. CASE \E s \in 1 .. Connections : S!Notice(s)
    BY <2>9, NoticeKeeps
  <2>10. CASE \E p \in AccountProds : S!Switch(p)
    BY <2>10, SwitchKeeps
  <2> QED BY <1>1, <2>1, <2>2, <2>3, <2>4, <2>5, <2>6, <2>7, <2>8, <2>9, <2>10 DEF S!Next
<1>2. CASE UNCHANGED S!vars
  BY <1>2 DEF S!vars, SignIInv
<1> QED BY <1>1, <1>2

\* A page that waits for nothing is connected and served as it shows.
LEMMA SignGoodFollows == SignIInv => S!SettledMeansConnected
<1> SUFFICES ASSUME SignIInv, S!Settled, world.view = "app"
             PROVE  world.media /\ world.holder = world.sock /\ world.served = world.prod
  BY DEF S!SettledMeansConnected
<1>1. /\ world.acks = <<>> /\ world.tasks = {} /\ ~world.timer /\ world.sock # 0
  BY DEF S!Settled
<1>2. SignJoined(world) /\ world.media
  BY <1>1 DEF SignIInv, Good, Main, S!Recovering, AtMedia
<1>3. 1 .. Len(world.acks) = {}
  <2>1. 1 .. 0 = {}
    OBVIOUS
  <2> QED BY <1>1, <2>1, NoneIs
<1>4. world.served = world.prod
  BY <1>2, <1>3 DEF SignJoined, Agreed
<1> QED BY <1>2, <1>4 DEF SignJoined

\* However connections are lost and regained, requests and answers are slow,
\* sessions expire, the server restarts and the account signs on elsewhere: a
\* page that shows the intercom and waits for nothing is registered with its
\* present connection, served in the production it shows, and has its media.
THEOREM SessionSettles == ASSUME S!SessionAssumption PROVE S!Spec => []S!SettledMeansConnected
<1>1. S!Init => SignIInv
  BY InitIs
<1>2. SignIInv /\ [S!Next]_(S!vars) => SignIInv'
  BY SignNextKeeps
<1>3. SignIInv => S!SettledMeansConnected
  BY SignGoodFollows
<1> QED BY <1>1, <1>2, <1>3, PTL DEF S!Spec
=============================================================================
