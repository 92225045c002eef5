--------------------------- MODULE Surfaces_proofs ---------------------------
(***************************************************************************)
(* Proofs about the parts of Surfaces, one after the other: the talk       *)
(* controls W, the microphone M and the shortcuts K of a page, and the     *)
(* talk H and the settings F of a headless client.                         *)
(***************************************************************************)
EXTENDS Surfaces, SequencesExt, FiniteSetTheorems, SequenceTheorems, WellFoundedInduction, NaturalsInduction, TLAPS

(***************************************************************************)
(* Sequences whatever their elements are.                                  *)
(***************************************************************************)
IsSeq(s) == \E V : s \in Seq(V)

LEMMA AppendIs ==
  ASSUME NEW s, IsSeq(s), NEW e
  PROVE  /\ IsSeq(Append(s, e)) /\ Len(s) \in Nat /\ DOMAIN s = 1 .. Len(s)
         /\ DOMAIN Append(s, e) = 1 .. Len(s) + 1 /\ Len(Append(s, e)) = Len(s) + 1
         /\ Append(s, e)[Len(s) + 1] = e /\ \A i \in 1 .. Len(s) : Append(s, e)[i] = s[i]
<1>1. PICK V : s \in Seq(V)
  BY DEF IsSeq
<1> DEFINE X == V \cup {e}
<1>2. s \in Seq(X) /\ e \in X
  BY <1>1, SeqMonotonic
<1> HIDE DEF X
<1>3. /\ Append(s, e) \in Seq(X) /\ Len(Append(s, e)) = Len(s) + 1
      /\ Append(s, e)[Len(s) + 1] = e /\ \A i \in 1 .. Len(s) : Append(s, e)[i] = s[i]
  BY <1>2, AppendProperties
<1>4. Len(s) \in Nat /\ DOMAIN s = 1 .. Len(s) /\ DOMAIN Append(s, e) = 1 .. Len(Append(s, e))
  BY <1>2, <1>3, LenProperties
<1>5. IsSeq(Append(s, e))
  BY <1>3 DEF IsSeq
<1> QED BY <1>3, <1>4, <1>5

LEMMA RemoveIs ==
  ASSUME NEW s, IsSeq(s), NEW i \in DOMAIN s
  PROVE  LET t == SubSeq(s, 1, i - 1) \o SubSeq(s, i + 1, Len(s)) IN
         /\ IsSeq(t) /\ Len(s) \in Nat /\ DOMAIN s = 1 .. Len(s) /\ i \in 1 .. Len(s)
         /\ DOMAIN t = 1 .. Len(s) - 1 /\ Len(t) = Len(s) - 1
         /\ \A j \in 1 .. Len(s) - 1 : t[j] = IF j < i THEN s[j] ELSE s[j + 1]
<1> DEFINE a == SubSeq(s, 1, i - 1)
           b == SubSeq(s, i + 1, Len(s))
<1>1. PICK V : s \in Seq(V)
  BY DEF IsSeq
<1>2. Len(s) \in Nat /\ DOMAIN s = 1 .. Len(s) /\ i \in 1 .. Len(s) /\ \A j \in 1 .. Len(s) : s[j] \in V
  BY <1>1, LenProperties, ElementOfSeq
<1>3. /\ a \in Seq(V) /\ Len(a) = i - 1 /\ \A j \in 1 .. i - 1 : a[j] = s[1 + j - 1]
  <2>1. /\ a \in Seq(V) /\ Len(a) = IF 1 <= i - 1 THEN i - 1 - 1 + 1 ELSE 0
        /\ \A j \in 1 .. i - 1 - 1 + 1 : a[j] = s[1 + j - 1]
    <3>1. 1 \in Int /\ i - 1 \in Int /\ \A j \in 1 .. i - 1 : s[j] \in V
      BY <1>2
    <3> QED BY <3>1, SubSeqProperties
  <2> HIDE DEF a
  <2> QED BY <1>2, <2>1
<1>4. /\ b \in Seq(V) /\ Len(b) = Len(s) - i /\ \A j \in 1 .. Len(s) - i : b[j] = s[i + 1 + j - 1]
  <2>1. /\ b \in Seq(V) /\ Len(b) = IF i + 1 <= Len(s) THEN Len(s) - (i + 1) + 1 ELSE 0
        /\ \A j \in 1 .. Len(s) - (i + 1) + 1 : b[j] = s[i + 1 + j - 1]
    <3>1. i + 1 \in Int /\ Len(s) \in Int /\ \A j \in i + 1 .. Len(s) : s[j] \in V
      BY <1>2
    <3> QED BY <3>1, SubSeqProperties
  <2> HIDE DEF b
  <2> QED BY <1>2, <2>1
<1> DEFINE t == a \o b
<1>5. /\ t \in Seq(V) /\ Len(t) = Len(a) + Len(b)
      /\ \A j \in 1 .. Len(a) + Len(b) : t[j] = IF j <= Len(a) THEN a[j] ELSE b[j - Len(a)]
  <2> HIDE DEF a, b
  <2> QED BY <1>3, <1>4, ConcatProperties
<1>6. DOMAIN t = 1 .. Len(t)
  BY <1>5, LenProperties
<1> HIDE DEF a, b, t
<1>7. Len(t) = Len(s) - 1
  BY <1>2, <1>3, <1>4, <1>5
<1>8. ASSUME NEW j \in 1 .. Len(s) - 1 PROVE t[j] = IF j < i THEN s[j] ELSE s[j + 1]
  <2>1. t[j] = IF j <= i - 1 THEN a[j] ELSE b[j - (i - 1)]
    BY <1>2, <1>3, <1>4, <1>5
  <2>2. CASE j < i
    BY <1>2, <1>3, <2>1, <2>2
  <2>3. CASE ~(j < i)
    <3>1. j - (i - 1) \in 1 .. Len(s) - i /\ i + 1 + (j - (i - 1)) - 1 = j + 1 /\ ~(j <= i - 1)
      BY <1>2, <2>3
    <3> QED BY <1>4, <2>1, <2>3, <3>1
  <2> QED BY <2>2, <2>3
<1>9. IsSeq(t)
  BY <1>5 DEF IsSeq
<1> QED BY <1>2, <1>6, <1>7, <1>8, <1>9 DEF t, a, b

-----------------------------------------------------------------------------
(***************************************************************************)
(* Proofs about the talk controls of the web client, for any number of     *)
(* targets, fingers and keys and any sequence of events: what the server   *)
(* passes on is what is held or locked.                                    *)
(***************************************************************************)

WebNames ==
  {"pressed", "locks", "suspended", "restore", "current", "talking", "start", "warm", "waiting", "producer", "multi",
   "voice", "inhibited", "refresh", "fingers", "rows", "remote", "shown", "acks", "served", "routed", "reported",
   "races", "over"}

\* Nothing but the fields named differs.
WebSameBut(p, q, names) == \A n \in WebNames \ names : q[n] = p[n]

\* What the steps read and write.
WebTypes(p) ==
  /\ DOMAIN p = WebNames
  /\ DOMAIN p.pressed = W!Inputs /\ DOMAIN p.fingers = Pointers
  /\ \A i \in Pointers : DOMAIN p.fingers[i] = {"target", "at", "slid", "asks"}
  /\ DOMAIN p.start = {"stage", "canceled", "targets"}
  /\ p.talking \in BOOLEAN /\ p.reported \in BOOLEAN /\ p.start.canceled \in BOOLEAN

\* A producer, its creation and its preparation exclude each other, and the
\* server has what the page has or is about to have.
Making(p) ==
  /\ p.producer # "none" => p.start = W!NoStart /\ p.served = p.producer
  /\ p.producer = "none" =>
       p.served = IF p.start.stage = "produce" \/ p.warm = "produce" THEN "live" ELSE "none"
  /\ p.warm # "none" => p.start = W!NoStart
  /\ p.warm \in {"mic", "produce"} => p.producer = "none" /\ ~p.talking
  /\ p.start.stage = "none" => p.start = W!NoStart

\* Presses wait only for a preparation, and each for some target.
Queued(p) ==
  /\ IsSeq(p.waiting) /\ \A n \in 1 .. Len(p.waiting) : p.waiting[n].targets # {}
  /\ p.waiting # <<>> => p.warm # "none"

\* The answers to what was asked, of one kind.
Acked(p, a) == {n \in 1 .. Len(p.acks) : p.acks[n].of = a}
One(p, a) == \A m, n \in Acked(p, a) : m = n
Answers(p) ==
  /\ IsSeq(p.acks) /\ One(p, "start") /\ One(p, "warm")
  /\ Acked(p, "start") # {} => p.start.stage = "produce"
  /\ Acked(p, "warm") # {} => p.warm = "produce"

Struct(p) == WebTypes(p) /\ Making(p) /\ Queued(p) /\ Answers(p)

\* A press is on its way to the server, and it was not taken back.
Starting(p) == p.start # W!NoStart /\ ~p.start.canceled

\* Whatever talks, or is about to, talks to something.
NotAlone(p) == "warm" \notin p.races => (p.talking \/ p.producer = "live" \/ Starting(p) => W!Addressees(p) # {})

\* The page believes that it talks when it does.
Sync(p) == p.races = {} => (p.talking <=> p.producer = "live" \/ (p.start.stage = "produce" /\ ~p.start.canceled))

\* The page addresses what is held or locked, and so does the server as soon as
\* there is something to pass on.
Addressed(p) == p.races = {} =>
  /\ p.current = W!Addressees(p)
  /\ p.reported => p.current # {}
  /\ p.talking \/ p.start # W!NoStart => p.routed = p.current
  /\ p.start.canceled => p.current = {}
  /\ p.current # {} => p.talking \/ Starting(p) \/ p.waiting # <<>>

\* A press that no finger holds is left behind only once a lock stood.
Tidy(p) == ~p.over => \A i \in Pointers : ~p.fingers[i].asks => p.pressed[i] = None

Fine(p) == Struct(p) /\ NotAlone(p) /\ Sync(p) /\ Addressed(p)
WebGood(p) == Fine(p) /\ Tidy(p)
WebIInv == WebGood(page)

(***************************************************************************)
(* What the parts depend on.                                               *)
(***************************************************************************)
Machine == {"producer", "served", "start", "warm", "talking", "waiting", "acks"}

LEMMA StructStays ==
  ASSUME NEW p, NEW q, Struct(p), DOMAIN q = WebNames, WebSameBut(p, q, WebNames \ Machine),
         DOMAIN q.pressed = W!Inputs, DOMAIN q.fingers = Pointers,
         \A i \in Pointers : DOMAIN q.fingers[i] = {"target", "at", "slid", "asks"}, q.reported \in BOOLEAN
  PROVE  Struct(q)
<1>1. /\ q.producer = p.producer /\ q.served = p.served /\ q.start = p.start /\ q.warm = p.warm
      /\ q.talking = p.talking /\ q.waiting = p.waiting /\ q.acks = p.acks
  BY DEF WebSameBut, WebNames, Machine
<1>2. WebTypes(q)
  BY <1>1 DEF Struct, WebTypes
<1>3. Making(q) /\ Queued(q) /\ Answers(q)
  BY <1>1 DEF Struct, Making, Queued, Answers, One, Acked
<1> QED BY <1>2, <1>3 DEF Struct

LEMMA StructKept ==
  ASSUME NEW p, NEW q, Struct(p), DOMAIN q = WebNames, WebSameBut(p, q, WebNames \ Machine),
         q.pressed = p.pressed, q.fingers = p.fingers /\ q.over = p.over, q.reported \in BOOLEAN
  PROVE  Struct(q)
<1>1. /\ DOMAIN q.pressed = W!Inputs /\ DOMAIN q.fingers = Pointers
      /\ \A i \in Pointers : DOMAIN q.fingers[i] = {"target", "at", "slid", "asks"}
  BY DEF Struct, WebTypes
<1> QED BY <1>1, StructStays

LEMMA TailIs ==
  ASSUME NEW s, IsSeq(s), s # <<>>
  PROVE  /\ IsSeq(Tail(s)) /\ Len(s) \in Nat \ {0} /\ Len(Tail(s)) = Len(s) - 1 /\ Head(s) = s[1]
         /\ \A i \in 1 .. Len(s) - 1 : Tail(s)[i] = s[i + 1]
<1>1. PICK V : s \in Seq(V)
  BY DEF IsSeq
<1>2. Tail(s) \in Seq(V) /\ Len(Tail(s)) = Len(s) - 1 /\ \A i \in 1 .. Len(Tail(s)) : Tail(s)[i] = s[i + 1]
  BY <1>1, HeadTailProperties
<1>3. Len(s) \in Nat /\ Len(s) # 0
  BY <1>1, EmptySeq, LenProperties
<1> QED BY <1>1, <1>2, <1>3 DEF IsSeq

\* One more answer to come.
LEMMA AckIs ==
  ASSUME NEW p, DOMAIN p = WebNames, IsSeq(p.acks), NEW a
  PROVE  LET q == W!Ack(p, a) IN
         /\ DOMAIN q = WebNames /\ WebSameBut(p, q, {"acks"}) /\ IsSeq(q.acks)
         /\ \A x : x # a.of => (One(p, x) => One(q, x)) /\ (Acked(q, x) # {} => Acked(p, x) # {})
         /\ Acked(p, a.of) = {} => One(q, a.of)
<1> DEFINE q == W!Ack(p, a)
<1>1. DOMAIN q = WebNames /\ WebSameBut(p, q, {"acks"}) /\ q.acks = Append(p.acks, a)
  BY DEF W!Ack, WebSameBut, WebNames
<1> HIDE DEF q
<1>2. /\ IsSeq(q.acks) /\ Len(p.acks) \in Nat /\ Len(q.acks) = Len(p.acks) + 1
      /\ q.acks[Len(p.acks) + 1] = a /\ \A i \in 1 .. Len(p.acks) : q.acks[i] = p.acks[i]
  BY <1>1, AppendIs
<1>3. ASSUME NEW x PROVE Acked(q, x) = Acked(p, x) \cup (IF a.of = x THEN {Len(p.acks) + 1} ELSE {})
  BY <1>2 DEF Acked
<1>4. ASSUME NEW x, x # a.of PROVE Acked(q, x) = Acked(p, x)
  BY <1>3, <1>4
<1>5. \A x : x # a.of => (One(p, x) => One(q, x)) /\ (Acked(q, x) # {} => Acked(p, x) # {})
  BY <1>4 DEF One
<1>6. Acked(p, a.of) = {} => One(q, a.of)
  BY <1>3 DEF One
<1> QED BY <1>1, <1>2, <1>5, <1>6 DEF q

\* One answer arrives.
LEMMA WebTakeIs ==
  ASSUME NEW p, DOMAIN p = WebNames, IsSeq(p.acks), p.acks # <<>>
  PROVE  LET q == [p EXCEPT !.acks = Tail(@)] IN
         /\ DOMAIN q = WebNames /\ WebSameBut(p, q, {"acks"}) /\ IsSeq(q.acks)
         /\ \A x : (One(p, x) => One(q, x)) /\ (Acked(q, x) # {} => Acked(p, x) # {})
         /\ Acked(p, Head(p.acks).of) # {}
         /\ One(p, Head(p.acks).of) => Acked(q, Head(p.acks).of) = {}
<1> DEFINE q == [p EXCEPT !.acks = Tail(@)]
<1>1. DOMAIN q = WebNames /\ WebSameBut(p, q, {"acks"}) /\ q.acks = Tail(p.acks)
  BY DEF WebSameBut, WebNames
<1> HIDE DEF q
<1>2. /\ IsSeq(q.acks) /\ Len(p.acks) \in Nat \ {0} /\ Len(q.acks) = Len(p.acks) - 1 /\ Head(p.acks) = p.acks[1]
      /\ \A i \in 1 .. Len(p.acks) - 1 : q.acks[i] = p.acks[i + 1]
  BY <1>1, TailIs
<1>3. \A x : \A n \in Acked(q, x) : n + 1 \in Acked(p, x) /\ n \in Nat /\ n >= 1
  BY <1>2 DEF Acked
<1>4. \A x : (One(p, x) => One(q, x)) /\ (Acked(q, x) # {} => Acked(p, x) # {})
  BY <1>3 DEF One
<1>5. 1 \in Acked(p, Head(p.acks).of)
  BY <1>2 DEF Acked
<1>6. One(p, Head(p.acks).of) => Acked(q, Head(p.acks).of) = {}
  <2> SUFFICES ASSUME One(p, Head(p.acks).of), NEW n \in Acked(q, Head(p.acks).of) PROVE FALSE
    OBVIOUS
  <2>1. n + 1 \in Acked(p, Head(p.acks).of) /\ n \in Nat /\ n >= 1
    BY <1>3
  <2>2. n + 1 = 1
    BY <1>5, <2>1 DEF One
  <2> QED BY <2>1, <2>2
<1> QED BY <1>1, <1>2, <1>4, <1>5, <1>6 DEF q


(***************************************************************************)
(* What the helpers do.                                                    *)
(***************************************************************************)
LEMMA RaceIs ==
  ASSUME NEW p, DOMAIN p = WebNames, NEW name
  PROVE  DOMAIN W!Race(p, name) = WebNames /\ WebSameBut(p, W!Race(p, name), {"races"}) /\ W!Race(p, name).races = p.races \cup {name}
  BY DEF W!Race, WebSameBut, WebNames

LEMMA SendTargetsIs ==
  ASSUME NEW p, DOMAIN p = WebNames, NEW ts
  PROVE  LET q == W!SendTargets(p, ts) IN DOMAIN q = WebNames /\ WebSameBut(p, q, {"routed"}) /\ q.routed = ts
  BY DEF W!SendTargets, WebSameBut, WebNames

LEMMA SetCurrentIs ==
  ASSUME NEW p, DOMAIN p = WebNames, NEW ts
  PROVE  LET q == W!SetCurrent(p, ts) IN
         /\ DOMAIN q = WebNames /\ WebSameBut(p, q, {"current", "remote"})
         /\ q.current = ts /\ q.remote = p.remote \cap ts
  BY DEF W!SetCurrent, WebSameBut, WebNames

LEMMA SendPttIs ==
  ASSUME NEW p, DOMAIN p = WebNames, NEW talking, NEW ts
  PROVE  LET q == W!SendPtt(p, talking, ts) IN
         /\ DOMAIN q = WebNames /\ WebSameBut(p, q, {"reported", "routed"})
         /\ talking /\ ts # {} => q.reported = TRUE /\ q.routed = ts
         /\ ~(talking /\ ts # {}) => q.reported = FALSE /\ q.routed = p.routed
<1>1. CASE talking /\ ts # {}
  BY <1>1 DEF W!SendPtt, WebSameBut, WebNames
<1>2. CASE ~(talking /\ ts # {})
  BY <1>2 DEF W!SendPtt, WebSameBut, WebNames
<1> QED BY <1>1, <1>2

\* Targets that are sent, with the news that the page talks to them.
LEMMA SendBothIs ==
  ASSUME NEW p, DOMAIN p = WebNames, NEW ts, ts # {}
  PROVE  LET q == W!SendPtt(W!SendTargets(p, ts), TRUE, ts) IN
         DOMAIN q = WebNames /\ WebSameBut(p, q, {"reported", "routed"}) /\ q.routed = ts /\ q.reported = TRUE
<1> DEFINE a == W!SendTargets(p, ts)
<1>1. DOMAIN a = WebNames /\ WebSameBut(p, a, {"routed"})
  BY SendTargetsIs
<1> HIDE DEF a
<1> DEFINE b == W!SendPtt(a, TRUE, ts)
<1>2. DOMAIN b = WebNames /\ WebSameBut(a, b, {"reported", "routed"}) /\ b.reported = TRUE /\ b.routed = ts
  BY <1>1 DEF W!SendPtt, WebSameBut, WebNames
<1> HIDE DEF b
<1>3. WebSameBut(p, b, {"reported", "routed"})
  BY <1>1, <1>2 DEF WebSameBut, WebNames
<1> QED BY <1>2, <1>3 DEF a, b

LEMMA ClearLocksIs ==
  ASSUME NEW p, Struct(p)
  PROVE  LET q == W!ClearLocks(p) IN
         /\ Struct(q) /\ WebSameBut(p, q, {"locks", "reported", "routed"}) /\ q.locks = {}
<1> DEFINE a == [p EXCEPT !.locks = {}]
           b == W!SendPtt(a, p.talking \/ p.start # W!NoStart, p.current)
<1>1. CASE p.locks = {}
  BY <1>1 DEF W!ClearLocks, WebSameBut
<1>2. CASE p.locks # {}
  <2>1. W!ClearLocks(p) = b
    BY <1>2 DEF W!ClearLocks
  <2>2. DOMAIN a = WebNames /\ WebSameBut(p, a, {"locks"}) /\ a.locks = {}
    BY DEF Struct, WebTypes, WebSameBut, WebNames
  <2> HIDE DEF a
  <2>3. DOMAIN b = WebNames /\ WebSameBut(a, b, {"reported", "routed"}) /\ b.reported \in BOOLEAN
    BY <2>2, SendPttIs
  <2> HIDE DEF b
  <2>4. WebSameBut(p, b, {"locks", "reported", "routed"}) /\ b.locks = {}
    BY <2>2, <2>3 DEF WebSameBut, WebNames
  <2>5. Struct(b)
    <3>1. WebSameBut(p, b, WebNames \ Machine) /\ b.pressed = p.pressed /\ b.fingers = p.fingers /\ b.over = p.over
      BY <2>4 DEF WebSameBut, WebNames, Machine
    <3> QED BY <2>3, <3>1, StructKept
  <2> QED BY <2>1, <2>4, <2>5
<1> QED BY <1>1, <1>2

\* A preparation begins, or not.
LEMMA WarmIs ==
  ASSUME NEW p, Struct(p)
  PROVE  LET q == W!Warm(p) IN Struct(q) /\ WebSameBut(p, q, {"warm"}) /\ (q.warm = p.warm \/ q.warm = "mic")
<1> DEFINE q == [p EXCEPT !.warm = "mic"]
<1>1. CASE p.producer # "none" \/ p.start # W!NoStart \/ p.talking \/ p.warm # "none"
  BY <1>1 DEF W!Warm, WebSameBut
<1>2. CASE ~(p.producer # "none" \/ p.start # W!NoStart \/ p.talking \/ p.warm # "none")
  <2>1. W!Warm(p) = q
    BY <1>2 DEF W!Warm
  <2>2. DOMAIN q = WebNames /\ WebSameBut(p, q, {"warm"}) /\ q.warm = "mic"
    BY DEF Struct, WebTypes, WebSameBut, WebNames
  <2> HIDE DEF q
  <2>3. WebTypes(q)
    BY <2>2 DEF Struct, WebTypes, WebSameBut, WebNames
  <2>4. Making(q)
    BY <1>2, <2>2 DEF Struct, Making, WebSameBut, WebNames
  <2>5. Queued(q)
    BY <1>2, <2>2 DEF Struct, Queued, WebSameBut, WebNames
  <2>6. Answers(q)
    BY <1>2, <2>2 DEF Struct, Answers, One, Acked, WebSameBut, WebNames
  <2> QED BY <2>1, <2>2, <2>3, <2>4, <2>5, <2>6 DEF Struct
<1> QED BY <1>1, <1>2

\* The producer is closed; nothing is made meanwhile.
LEMMA CloseProducerIs ==
  ASSUME NEW p, Struct(p), p.producer # "none"
  PROVE  LET q == W!CloseProducer(p) IN
         Struct(q) /\ WebSameBut(p, q, {"producer", "served"}) /\ q.producer = "none"
<1> DEFINE q == W!CloseProducer(p)
<1>1. DOMAIN q = WebNames /\ WebSameBut(p, q, {"producer", "served"}) /\ q.producer = "none" /\ q.served = "none"
  BY DEF W!CloseProducer, Struct, WebTypes, WebSameBut, WebNames
<1> HIDE DEF q
<1>2. WebTypes(q)
  BY <1>1 DEF Struct, WebTypes, WebSameBut, WebNames
<1>3. Making(q)
  <2>1. p.start = W!NoStart /\ W!NoStart.stage = "none" /\ p.warm # "produce" /\ p.warm # "mic"
    BY DEF Struct, Making, W!NoStart
  <2>2. q.start = p.start /\ q.warm = p.warm
    BY <1>1 DEF WebSameBut, WebNames
  <2> QED BY <1>1, <2>1, <2>2 DEF Making
<1>4. Queued(q)
  BY <1>1 DEF Struct, Queued, WebSameBut, WebNames
<1>5. Answers(q)
  BY <1>1 DEF Struct, Answers, One, Acked, WebSameBut, WebNames
<1> QED BY <1>1, <1>2, <1>3, <1>4, <1>5 DEF Struct, q

LEMMA RefreshIs ==
  ASSUME NEW p, Struct(p)
  PROVE  LET q == W!Refresh(p) IN
         /\ Struct(q) /\ WebSameBut(p, q, {"refresh", "warm", "producer", "served"})
         /\ q.warm = p.warm \/ q.warm = "mic"
         /\ q.producer = p.producer \/ (q.producer = "none" /\ ~p.talking /\ p.start = W!NoStart)
<1> DEFINE a == IF p.producer = "none" THEN p ELSE W!CloseProducer(p)
           b == [p EXCEPT !.refresh = TRUE]
<1>1. CASE p.talking \/ p.start # W!NoStart
  <2>1. W!Refresh(p) = b
    BY <1>1 DEF W!Refresh
  <2>2. DOMAIN b = WebNames /\ WebSameBut(p, b, {"refresh"})
    BY DEF Struct, WebTypes, WebSameBut, WebNames
  <2> HIDE DEF b
  <2>3. WebSameBut(p, b, WebNames \ Machine) /\ b.pressed = p.pressed /\ b.fingers = p.fingers /\ b.over = p.over /\ b.reported = p.reported
        /\ b.producer = p.producer /\ b.warm = p.warm
    BY <2>2 DEF WebSameBut, WebNames, Machine
  <2>4. Struct(b)
    <3>1. b.reported \in BOOLEAN
      BY <2>3 DEF Struct, WebTypes
    <3> QED BY <2>2, <2>3, <3>1, StructKept
  <2> QED BY <2>1, <2>2, <2>3, <2>4 DEF WebSameBut
<1>2. CASE ~(p.talking \/ p.start # W!NoStart)
  <2>1. W!Refresh(p) = W!Warm(a)
    BY <1>2 DEF W!Refresh
  <2>2. /\ Struct(a) /\ WebSameBut(p, a, {"producer", "served"}) /\ (a.producer = p.producer \/ a.producer = "none")
    BY CloseProducerIs DEF WebSameBut
  <2> HIDE DEF a
  <2>3. Struct(W!Warm(a)) /\ WebSameBut(a, W!Warm(a), {"warm"}) /\ (W!Warm(a).warm = a.warm \/ W!Warm(a).warm = "mic")
    BY <2>2, WarmIs
  <2> QED BY <1>2, <2>1, <2>2, <2>3 DEF WebSameBut, WebNames
<1> QED BY <1>1, <1>2


\* The producer is paused or resumed; nothing is being made.
Settling(p) == WebTypes(p) /\ Queued(p) /\ Answers(p) /\ p.start = W!NoStart /\ p.warm \notin {"mic", "produce"}

LEMMA Settles == ASSUME NEW p, Struct(p), p.producer # "none" PROVE Settling(p)
  BY DEF Struct, Making, Settling

LEMMA SwitchIs ==
  ASSUME NEW p, Settling(p), NEW to \in {"paused", "live"}, NEW a, a.of \notin {"start", "warm"}
  PROVE  LET q == W!Ack([p EXCEPT !.producer = to, !.served = to], a) IN
         Struct(q) /\ WebSameBut(p, q, {"producer", "served", "acks"}) /\ q.producer = to
<1> DEFINE b == [p EXCEPT !.producer = to, !.served = to]
           q == W!Ack(b, a)
<1>1. DOMAIN b = WebNames /\ WebSameBut(p, b, {"producer", "served"}) /\ b.producer = to /\ b.served = to
  BY DEF Settling, WebTypes, WebSameBut, WebNames
<1> HIDE DEF b
<1>2. IsSeq(b.acks) /\ b.acks = p.acks
  BY <1>1 DEF Settling, Answers, WebSameBut, WebNames
<1>3. /\ DOMAIN q = WebNames /\ WebSameBut(b, q, {"acks"}) /\ IsSeq(q.acks)
      /\ \A x : x # a.of => (One(b, x) => One(q, x)) /\ (Acked(q, x) # {} => Acked(b, x) # {})
  BY <1>1, <1>2, AckIs
<1> HIDE DEF q
<1>4. WebSameBut(p, q, {"producer", "served", "acks"}) /\ q.producer = to /\ q.served = to
  BY <1>1, <1>3 DEF WebSameBut, WebNames
<1>5. WebTypes(q)
  BY <1>3, <1>4 DEF Settling, WebTypes, WebSameBut, WebNames
<1>6. Making(q)
  BY <1>4 DEF Settling, Making, WebSameBut, WebNames
<1>7. Queued(q)
  BY <1>4 DEF Settling, Queued, WebSameBut, WebNames
<1>8. Answers(q)
  <2>1. \A x : One(b, x) <=> One(p, x)
    BY <1>2 DEF One, Acked
  <2>2. \A x : Acked(b, x) = Acked(p, x)
    BY <1>2 DEF Acked
  <2>3. q.start = p.start /\ q.warm = p.warm
    BY <1>4 DEF WebSameBut, WebNames
  <2> QED BY <1>3, <2>1, <2>2, <2>3 DEF Settling, Answers
<1> QED BY <1>4, <1>5, <1>6, <1>7, <1>8 DEF Struct, q, b

LEMMA PauseIs ==
  ASSUME NEW p, Settling(p), NEW restore
  PROVE  LET q == W!Pause(p, restore) IN
         Struct(q) /\ WebSameBut(p, q, {"producer", "served", "acks"}) /\ q.producer = "paused"
<1> DEFINE a == [of |-> "pause", restore |-> restore]
<1>1. a.of \notin {"start", "warm"}
  OBVIOUS
<1> HIDE DEF a
<1>2. PICK to \in {"paused", "live"} : to = "paused"
  OBVIOUS
<1>3. LET q == W!Ack([p EXCEPT !.producer = to, !.served = to], a) IN
      Struct(q) /\ WebSameBut(p, q, {"producer", "served", "acks"}) /\ q.producer = to
  BY <1>1, SwitchIs
<1> QED BY <1>2, <1>3 DEF W!Pause, a

LEMMA ResumeIs ==
  ASSUME NEW p, Settling(p), NEW ts
  PROVE  LET q == W!Resume(p, ts) IN
         Struct(q) /\ WebSameBut(p, q, {"producer", "served", "acks"}) /\ q.producer = "live"
<1> DEFINE a == [of |-> "resume", targets |-> ts]
<1>1. a.of \notin {"start", "warm"}
  OBVIOUS
<1> HIDE DEF a
<1>2. PICK to \in {"paused", "live"} : to = "live"
  OBVIOUS
<1>3. LET q == W!Ack([p EXCEPT !.producer = to, !.served = to], a) IN
      Struct(q) /\ WebSameBut(p, q, {"producer", "served", "acks"}) /\ q.producer = to
  BY <1>1, SwitchIs
<1> QED BY <1>2, <1>3 DEF W!Resume, a

(***************************************************************************)
(* The end of a talk.                                                      *)
(***************************************************************************)
\* The page neither talks nor wants to.
Quiet(p) ==
  /\ p.talking = FALSE /\ p.reported = FALSE /\ p.producer # "live" /\ ~Starting(p)
  /\ p.pressed = [i \in W!Inputs |-> None] /\ p.locks = {} /\ p.current = {} /\ p.routed = {}
  /\ p.remote = {}

LEMMA QuietIsGood ==
  ASSUME NEW p, Struct(p), Quiet(p) PROVE WebGood(p) /\ W!Addressees(p) = {}
<1>1. W!Addressees(p) = {}
  BY DEF W!Addressees, W!Wanted, W!Held, Quiet
<1>2. NotAlone(p)
  BY DEF Quiet, NotAlone
<1>3. Sync(p)
  <2>1. p.start.stage = "produce" => p.start # W!NoStart
    BY DEF W!NoStart
  <2> QED BY <2>1 DEF Quiet, Sync, Starting
<1>4. Addressed(p)
  BY <1>1 DEF Quiet, Addressed
<1>5. Tidy(p)
  BY DEF Quiet, Tidy, W!Inputs
<1> QED BY <1>1, <1>2, <1>3, <1>4, <1>5 DEF WebGood, Fine

LEMMA HaltIs ==
  ASSUME NEW p, Struct(p)
  PROVE  LET q == [p EXCEPT !.talking = FALSE, !.start.canceled = p.start # W!NoStart] IN
         Struct(q) /\ WebSameBut(p, q, {"talking", "start"}) /\ q.talking = FALSE /\ ~Starting(q)
         /\ q.start.stage = p.start.stage
<1> DEFINE q == [p EXCEPT !.talking = FALSE, !.start.canceled = p.start # W!NoStart]
           st == [p.start EXCEPT !.canceled = p.start # W!NoStart]
<1>1. DOMAIN q = WebNames /\ WebSameBut(p, q, {"talking", "start"}) /\ q.talking = FALSE /\ q.start = st
  BY DEF Struct, WebTypes, WebSameBut, WebNames
<1> HIDE DEF q
<1>2. /\ DOMAIN st = {"stage", "canceled", "targets"} /\ st.stage = p.start.stage
      /\ st.canceled = (p.start # W!NoStart)
  BY DEF Struct, WebTypes
<1>3. ASSUME p.start = W!NoStart PROVE st = W!NoStart
  <2>1. PICK no \in BOOLEAN : no = (p.start # W!NoStart)
    OBVIOUS
  <2>2. st = [W!NoStart EXCEPT !.canceled = no] /\ no = FALSE
    BY <1>3, <2>1
  <2>3. [W!NoStart EXCEPT !.canceled = FALSE] = W!NoStart
    <3> DEFINE All == [stage: {"none"}, canceled: {FALSE}, targets: {{}}]
    <3>1. W!NoStart \in All
      BY DEF W!NoStart
    <3>2. [W!NoStart EXCEPT !.canceled = FALSE] \in All
      BY <3>1
    <3> QED BY <3>1, <3>2
  <2>4. [W!NoStart EXCEPT !.canceled = no] = [W!NoStart EXCEPT !.canceled = FALSE]
    BY <2>2, Zenon
  <2> HIDE DEF st
  <2> QED BY <2>2, <2>3, <2>4
<1> HIDE DEF st
<1>4. WebTypes(q)
  BY <1>1, <1>2 DEF Struct, WebTypes, WebSameBut, WebNames
<1>5. Making(q)
  <2>1. /\ q.producer = p.producer /\ q.served = p.served /\ q.warm = p.warm
    BY <1>1 DEF WebSameBut, WebNames
  <2> QED BY <1>1, <1>2, <1>3, <2>1 DEF Struct, Making
<1>6. Queued(q)
  BY <1>1 DEF Struct, Queued, WebSameBut, WebNames
<1>7. Answers(q)
  BY <1>1, <1>2 DEF Struct, Answers, One, Acked, WebSameBut, WebNames
<1>8. ~Starting(q)
  BY <1>1, <1>2, <1>3 DEF Starting
<1> QED BY <1>1, <1>2, <1>4, <1>5, <1>6, <1>7, <1>8 DEF Struct, q

\* What ends a talk leaves the fingers, the list, the settings and the races.
LEMMA StopAllIs ==
  ASSUME NEW p, Struct(p), NEW restore \in BOOLEAN
  PROVE  LET q == W!StopAll(p, restore) IN
         /\ Struct(q) /\ Quiet(q) /\ q.races = p.races /\ q.fingers = p.fingers /\ q.over = p.over /\ q.multi = p.multi
         /\ q.start.stage = p.start.stage /\ (q.warm = p.warm \/ q.warm = "mic")
<1> DEFINE a == [p EXCEPT !.talking = FALSE, !.start.canceled = p.start # W!NoStart]
           b == W!ClearLocks(a)
           c == W!SendTargets(b, {})
           d == IF c.producer = "none" THEN c ELSE W!Pause(c, restore)
           x == [d EXCEPT !.pressed = [i \in W!Inputs |-> None]]
           e == W!SetCurrent(x, {})
           f == W!SendPtt(e, FALSE, {})
           g == IF restore /\ c.producer = "none" THEN [f EXCEPT !.restore = TRUE] ELSE f
           h == [g EXCEPT !.refresh = FALSE]
<1>0. W!StopAll(p, restore) = IF p.refresh THEN W!Refresh(h) ELSE g
  BY DEF W!StopAll
<1>1. /\ Struct(a) /\ WebSameBut(p, a, {"talking", "start"}) /\ a.talking = FALSE /\ ~Starting(a)
      /\ a.start.stage = p.start.stage
  BY HaltIs
<1> HIDE DEF a
<1>2. Struct(b) /\ WebSameBut(a, b, {"locks", "reported", "routed"}) /\ b.locks = {}
  BY <1>1, ClearLocksIs
<1> HIDE DEF b
<1>3. DOMAIN c = WebNames /\ WebSameBut(b, c, {"routed"}) /\ c.routed = {}
  BY <1>2, SendTargetsIs DEF Struct, WebTypes
<1> HIDE DEF c
<1>4. Struct(c)
  <2>1. WebSameBut(b, c, WebNames \ Machine) /\ c.pressed = b.pressed /\ c.fingers = b.fingers /\ c.over = b.over /\ c.reported = b.reported
    BY <1>3 DEF WebSameBut, WebNames, Machine
  <2>2. c.reported \in BOOLEAN
    BY <1>2, <2>1 DEF Struct, WebTypes
  <2> QED BY <1>2, <1>3, <2>1, <2>2, StructKept
<1>5. Struct(d) /\ WebSameBut(c, d, {"producer", "served", "acks"}) /\ d.producer # "live"
  <2>1. CASE c.producer = "none"
    BY <1>4, <2>1 DEF WebSameBut
  <2>2. CASE c.producer # "none"
    <3>1. d = W!Pause(c, restore)
      BY <2>2
    <3> HIDE DEF d
    <3>2. Settling(c)
      BY <1>4, <2>2, Settles
    <3>3. /\ Struct(W!Pause(c, restore)) /\ WebSameBut(c, W!Pause(c, restore), {"producer", "served", "acks"})
          /\ W!Pause(c, restore).producer = "paused"
      BY <3>2, PauseIs
    <3> QED BY <3>1, <3>3
  <2> QED BY <2>1, <2>2
<1> HIDE DEF d
<1>a. DOMAIN x = WebNames /\ WebSameBut(d, x, {"pressed"}) /\ x.pressed = [i \in W!Inputs |-> None]
  BY <1>5 DEF Struct, WebTypes, WebSameBut, WebNames
<1> HIDE DEF x
<1>b. DOMAIN e = WebNames /\ WebSameBut(x, e, {"current", "remote"}) /\ e.current = {} /\ e.remote = x.remote \cap {}
  BY <1>a, SetCurrentIs
<1> HIDE DEF e
<1>6. /\ DOMAIN e = WebNames /\ WebSameBut(d, e, {"pressed", "current", "remote"})
      /\ e.pressed = [i \in W!Inputs |-> None] /\ e.current = {} /\ e.remote = {}
  BY <1>a, <1>b DEF WebSameBut, WebNames
<1>7. DOMAIN f = WebNames /\ WebSameBut(e, f, {"reported", "routed"}) /\ f.reported = FALSE /\ f.routed = e.routed
  BY <1>6 DEF W!SendPtt, WebSameBut, WebNames
<1> HIDE DEF f
<1>8. DOMAIN g = WebNames /\ WebSameBut(f, g, {"restore"})
  BY <1>7 DEF WebSameBut, WebNames
<1> HIDE DEF g
<1>9. DOMAIN h = WebNames /\ WebSameBut(g, h, {"refresh"})
  BY <1>8 DEF WebSameBut, WebNames
<1> HIDE DEF h
<1>10. WebSameBut(d, g, {"pressed", "current", "remote", "reported", "restore"}) /\ WebSameBut(d, h, {"pressed", "current", "remote", "reported", "restore", "refresh"})
  <2>1. d.routed = {} /\ e.routed = {}
    BY <1>3, <1>5, <1>6 DEF WebSameBut, WebNames
  <2> QED BY <1>6, <1>7, <1>8, <1>9, <2>1 DEF WebSameBut, WebNames
<1>11. ASSUME NEW y \in {g, h}
       PROVE  /\ Struct(y) /\ Quiet(y) /\ y.races = p.races /\ y.fingers = p.fingers /\ y.over = p.over /\ y.multi = p.multi
              /\ y.start.stage = p.start.stage /\ y.warm = p.warm
  <2>1. DOMAIN y = WebNames /\ WebSameBut(d, y, {"pressed", "current", "remote", "reported", "restore", "refresh"})
    BY <1>8, <1>9, <1>10 DEF WebSameBut, WebNames
  <2>2. /\ y.pressed = [i \in W!Inputs |-> None] /\ y.current = {} /\ y.remote = {} /\ y.reported = FALSE
    BY <1>6, <1>7, <1>8, <1>9 DEF WebSameBut, WebNames
  <2>3. WebSameBut(d, y, WebNames \ Machine) /\ y.fingers = d.fingers /\ y.over = d.over
    BY <2>1 DEF WebSameBut, WebNames, Machine
  <2>4. Struct(y)
    <3>1. DOMAIN y.pressed = W!Inputs /\ y.reported \in BOOLEAN /\ DOMAIN y.fingers = Pointers
          /\ \A i \in Pointers : DOMAIN y.fingers[i] = {"target", "at", "slid", "asks"}
      BY <1>5, <2>2, <2>3 DEF Struct, WebTypes
    <3> QED BY <1>5, <2>1, <2>3, <3>1, StructStays
  <2>5. /\ y.talking = FALSE /\ y.producer # "live" /\ y.start = a.start /\ y.locks = {} /\ y.routed = {}
        /\ y.races = p.races /\ y.fingers = p.fingers /\ y.over = p.over /\ y.multi = p.multi /\ y.warm = p.warm
    BY <1>1, <1>2, <1>3, <1>5, <2>1 DEF WebSameBut, WebNames
  <2> QED BY <1>1, <2>2, <2>4, <2>5 DEF Quiet, Starting
<1>12. CASE p.refresh
  <2>1. W!StopAll(p, restore) = W!Refresh(h)
    BY <1>0, <1>12
  <2> DEFINE z == W!Refresh(h)
  <2>2. /\ Struct(z) /\ WebSameBut(h, z, {"refresh", "warm", "producer", "served"}) /\ (z.warm = h.warm \/ z.warm = "mic")
        /\ z.producer = h.producer \/ z.producer = "none"
    BY <1>11, RefreshIs
  <2> HIDE DEF z
  <2>3. Quiet(z) /\ z.races = h.races /\ z.fingers = h.fingers /\ z.over = h.over /\ z.multi = h.multi /\ z.start = h.start
    BY <1>11, <2>2 DEF Quiet, Starting, WebSameBut, WebNames
  <2> QED BY <1>11, <2>1, <2>2, <2>3 DEF z
<1>13. CASE ~p.refresh
  BY <1>0, <1>11, <1>13
<1> QED BY <1>12, <1>13


(***************************************************************************)
(* The beginning of a talk.                                                *)
(***************************************************************************)
LEMMA AddresseesStay ==
  ASSUME NEW p, NEW q, q.pressed = p.pressed, q.locks = p.locks, q.remote = p.remote
  PROVE  W!Held(q) = W!Held(p) /\ W!Wanted(q) = W!Wanted(p) /\ W!Addressees(q) = W!Addressees(p)
  BY DEF W!Held, W!Wanted, W!Addressees

\* The page addresses what is held or locked, and no other.
LEMMA SetWantedIs ==
  ASSUME NEW p, DOMAIN p = WebNames
  PROVE  LET q == W!SetCurrent(p, W!Wanted(p)) IN
         /\ DOMAIN q = WebNames /\ WebSameBut(p, q, {"current", "remote"})
         /\ q.current = W!Wanted(p) /\ W!Addressees(q) = W!Wanted(p) /\ W!Wanted(q) = W!Wanted(p)
<1> DEFINE q == W!SetCurrent(p, W!Wanted(p))
<1>1. /\ DOMAIN q = WebNames /\ WebSameBut(p, q, {"current", "remote"})
      /\ q.current = W!Wanted(p) /\ q.remote = p.remote \cap W!Wanted(p)
  BY SetCurrentIs
<1> HIDE DEF q
<1>2. q.pressed = p.pressed /\ q.locks = p.locks
  BY <1>1 DEF WebSameBut, WebNames
<1>3. W!Wanted(q) = W!Wanted(p)
  BY <1>2 DEF W!Wanted, W!Held
<1> QED BY <1>1, <1>3 DEF W!Addressees, q

\* Presses and fingers are as before, or are gone.
Calm(p, q) ==
  q.fingers = p.fingers /\ q.over = p.over /\ \A j \in Pointers : q.pressed[j] \in {p.pressed[j], None}

LEMMA TidyStays == ASSUME NEW p, NEW q, Tidy(p), Calm(p, q) PROVE Tidy(q)
  BY DEF Tidy, Calm

\* A press that need not wait goes to the producer, or joins its creation, or
\* begins it.
LEMMA ProceedIs ==
  ASSUME NEW p, Struct(p), Sync(p), NEW ts, ts # {}, p.producer # "none" \/ p.warm = "none",
         "warm" \notin p.races => W!Addressees(p) # {},
         p.races = {} => p.current = ts /\ W!Addressees(p) = ts
  PROVE  LET q == W!Proceed(p, ts) IN
         /\ Struct(q) /\ NotAlone(q) /\ Sync(q) /\ Addressed(q)
         /\ WebSameBut(p, q, Machine \cup {"current", "routed", "reported", "races"})
         /\ q.warm = p.warm /\ q.waiting = p.waiting /\ p.races \subseteq q.races
<1> DEFINE q == W!Proceed(p, ts)
<1>1. DOMAIN p = WebNames /\ WebTypes(p) /\ Making(p)
  BY DEF Struct, WebTypes
\* What is left to show.
<1>2. ASSUME Struct(q), WebSameBut(p, q, Machine \cup {"current", "routed", "reported", "races"}),
             q.warm = p.warm, q.waiting = p.waiting, p.races \subseteq q.races,
             q.races = {} => /\ q.current = ts /\ q.routed = ts /\ ~q.start.canceled
                             /\ q.talking \/ Starting(q)
                             /\ q.talking <=> q.producer = "live" \/ (q.start.stage = "produce" /\ ~q.start.canceled)
      PROVE  /\ Struct(q) /\ NotAlone(q) /\ Sync(q) /\ Addressed(q)
             /\ WebSameBut(p, q, Machine \cup {"current", "routed", "reported", "races"})
             /\ q.warm = p.warm /\ q.waiting = p.waiting /\ p.races \subseteq q.races
  <2> HIDE DEF q
  <2>1. q.pressed = p.pressed /\ q.locks = p.locks /\ q.remote = p.remote
    BY <1>2 DEF WebSameBut, WebNames, Machine
  <2>2. W!Addressees(q) = W!Addressees(p)
    BY <2>1, AddresseesStay
  <2>3. NotAlone(q)
    BY <1>2, <2>2 DEF NotAlone
  <2>4. Sync(q)
    BY <1>2 DEF Sync
  <2>5. Addressed(q)
    <3>1. q.races = {} => p.races = {}
      BY <1>2
    <3> QED BY <1>2, <2>2, <3>1 DEF Addressed
  <2> QED BY <1>2, <2>3, <2>4, <2>5
<1>3. CASE p.producer # "none"
  <2> DEFINE a == [W!SendTargets(p, ts) EXCEPT !.current = ts, !.talking = TRUE]
  <2>1. q = W!Resume(a, ts)
    BY <1>3 DEF W!Proceed
  <2>2. DOMAIN a = WebNames /\ WebSameBut(p, a, {"routed", "current", "talking"})
        /\ a.routed = ts /\ a.current = ts /\ a.talking = TRUE
    BY <1>1 DEF W!SendTargets, WebSameBut, WebNames
  <2> HIDE DEF a
  <2>3. Settling(p)
    BY <1>3, Settles
  <2>4. Settling(a)
    <3>1. WebTypes(a)
      BY <2>2, <2>3 DEF Settling, WebTypes, WebSameBut, WebNames
    <3>2. Queued(a)
      BY <2>2, <2>3 DEF Settling, Queued, WebSameBut, WebNames
    <3>3. Answers(a)
      BY <2>2, <2>3 DEF Settling, Answers, One, Acked, WebSameBut, WebNames
    <3> QED BY <2>2, <2>3, <3>1, <3>2, <3>3 DEF Settling, WebSameBut, WebNames
  <2>5. Struct(q) /\ WebSameBut(a, q, {"producer", "served", "acks"}) /\ q.producer = "live"
    BY <2>1, <2>4, ResumeIs
  <2> HIDE DEF q
  <2>6. WebSameBut(p, q, Machine \cup {"current", "routed", "reported", "races"})
    BY <2>2, <2>5 DEF WebSameBut, WebNames, Machine
  <2>7. /\ q.warm = p.warm /\ q.waiting = p.waiting /\ q.races = p.races /\ q.start = p.start
        /\ q.current = ts /\ q.routed = ts /\ q.talking = TRUE
    BY <2>2, <2>5 DEF WebSameBut, WebNames
  <2>8. ~q.start.canceled
    BY <2>3, <2>7 DEF Settling, W!NoStart
  <2> QED BY <1>2, <2>5, <2>6, <2>7, <2>8 DEF q
<1>4. CASE p.producer = "none" /\ p.start # W!NoStart
  <2> DEFINE a == IF p.start.canceled THEN W!Race(p, "restart") ELSE p
  <2>1. q = W!SendPtt(W!SendTargets(a, ts), TRUE, ts)
    BY <1>4 DEF W!Proceed
  <2>2. /\ DOMAIN a = WebNames /\ WebSameBut(p, a, {"races"}) /\ p.races \subseteq a.races
        /\ a.races = {} => p.races = {} /\ ~p.start.canceled
    <3>1. CASE p.start.canceled
      BY <1>1, <3>1, RaceIs
    <3>2. CASE ~p.start.canceled
      BY <1>1, <3>2 DEF WebSameBut
    <3> QED BY <3>1, <3>2
  <2> HIDE DEF a
  <2> HIDE DEF q
  <2> DEFINE b == W!SendPtt(W!SendTargets(a, ts), TRUE, ts)
  <2>a. DOMAIN b = WebNames /\ WebSameBut(a, b, {"reported", "routed"}) /\ b.routed = ts /\ b.reported = TRUE
    BY <2>2, SendBothIs
  <2>3. DOMAIN q = WebNames /\ WebSameBut(a, q, {"reported", "routed"}) /\ q.routed = ts /\ q.reported = TRUE
    BY <2>1, <2>a
  <2> HIDE DEF b
  <2>4. WebSameBut(p, q, {"races", "reported", "routed"})
    BY <2>2, <2>3 DEF WebSameBut, WebNames
  <2>5. WebSameBut(p, q, Machine \cup {"current", "routed", "reported", "races"}) /\ WebSameBut(p, q, WebNames \ Machine)
    BY <2>4 DEF WebSameBut, WebNames, Machine
  <2>6. Struct(q)
    <3>1. q.pressed = p.pressed /\ q.fingers = p.fingers /\ q.over = p.over /\ q.reported \in BOOLEAN
      BY <2>3, <2>4 DEF WebSameBut, WebNames
    <3> QED BY <1>1, <2>3, <2>5, <3>1, StructKept
  <2>7. /\ q.warm = p.warm /\ q.waiting = p.waiting /\ q.races = a.races /\ q.start = p.start /\ q.current = p.current
        /\ q.talking = p.talking /\ q.producer = p.producer
    BY <2>2, <2>3 DEF WebSameBut, WebNames
  <2>8. q.races = {} => /\ q.current = ts /\ q.routed = ts /\ ~q.start.canceled /\ Starting(q)
                        /\ q.talking <=> q.producer = "live" \/ (q.start.stage = "produce" /\ ~q.start.canceled)
    BY <1>4, <2>2, <2>3, <2>7 DEF Sync, Starting
  <2> QED BY <1>2, <2>2, <2>5, <2>6, <2>7, <2>8 DEF q
<1>5. CASE p.producer = "none" /\ p.start = W!NoStart
  <2> DEFINE st == [stage |-> "mic", canceled |-> FALSE, targets |-> ts]
             a == [p EXCEPT !.start = st]
  <2>1. q = W!SendTargets(a, ts)
    BY <1>5 DEF W!Proceed
  <2>2. DOMAIN a = WebNames /\ WebSameBut(p, a, {"start"}) /\ a.start = st
    BY <1>1 DEF WebSameBut, WebNames
  <2> HIDE DEF a
  <2>3. DOMAIN q = WebNames /\ WebSameBut(a, q, {"routed"}) /\ q.routed = ts
    BY <2>1, <2>2, SendTargetsIs
  <2> HIDE DEF q
  <2>4. WebSameBut(p, q, {"start", "routed"}) /\ q.start = st
    BY <2>2, <2>3 DEF WebSameBut, WebNames
  <2>5. WebSameBut(p, q, Machine \cup {"current", "routed", "reported", "races"})
    BY <2>4 DEF WebSameBut, WebNames, Machine
  <2>6. /\ q.warm = p.warm /\ q.waiting = p.waiting /\ q.races = p.races /\ q.current = p.current
        /\ q.talking = p.talking /\ q.producer = p.producer /\ q.served = p.served /\ q.acks = p.acks
        /\ q.pressed = p.pressed /\ q.fingers = p.fingers /\ q.over = p.over /\ q.reported = p.reported
    BY <2>4 DEF WebSameBut, WebNames
  <2>7. st.stage = "mic" /\ st.canceled = FALSE /\ st # W!NoStart /\ DOMAIN st = {"stage", "canceled", "targets"}
    BY DEF W!NoStart
  <2> HIDE DEF st
  <2>8. W!NoStart.stage = "none" /\ W!NoStart.canceled = FALSE
    BY DEF W!NoStart
  <2>9. Struct(q)
    <3>1. WebTypes(q)
      BY <1>1, <2>3, <2>4, <2>6, <2>7 DEF WebTypes
    <3>2. Making(q)
      BY <1>1, <1>5, <2>4, <2>6, <2>7, <2>8 DEF Making
    <3>3. Queued(q)
      BY <2>6 DEF Struct, Queued
    <3>4. Answers(q)
      BY <1>5, <2>6, <2>8 DEF Struct, Answers, One, Acked
    <3> QED BY <3>1, <3>2, <3>3, <3>4 DEF Struct
  <2>10. Starting(q)
    BY <2>4, <2>7 DEF Starting
  <2>11. q.races = {} => ~q.talking /\ q.producer # "live" /\ q.start.stage # "produce" /\ ~q.start.canceled
    BY <1>5, <2>4, <2>6, <2>7, <2>8 DEF Sync
  <2>12. q.races = {} => q.current = ts
    BY <2>6
  <2> QED BY <1>2, <2>3, <2>5, <2>6, <2>9, <2>10, <2>11, <2>12 DEF q
<1> QED BY <1>3, <1>4, <1>5


\* A press, after what it presses was noted: it waits, or it goes on.
LEMMA GoesOn ==
  ASSUME NEW q, Struct(q), Sync(q), Tidy(q), NEW i, W!Addressees(q) # {}, q.current # {},
         q.races = {} => q.current = W!Addressees(q)
  PROVE  WebGood(IF q.producer = "none" /\ q.warm # "none"
              THEN [q EXCEPT !.waiting = Append(@, [input |-> i, targets |-> q.current])]
              ELSE W!Proceed(q, q.current))
<1> DEFINE m == [input |-> i, targets |-> q.current]
           z == [q EXCEPT !.waiting = Append(@, m)]
           y == W!Proceed(q, q.current)
<1>1. CASE q.producer = "none" /\ q.warm # "none"
  <2>1. DOMAIN z = WebNames /\ WebSameBut(q, z, {"waiting"}) /\ z.waiting = Append(q.waiting, m)
    BY DEF Struct, WebTypes, WebSameBut, WebNames
  <2>2. m.targets = q.current
    OBVIOUS
  <2> HIDE DEF z, m
  <2>3. /\ IsSeq(z.waiting) /\ Len(q.waiting) \in Nat /\ Len(z.waiting) = Len(q.waiting) + 1
        /\ z.waiting[Len(q.waiting) + 1] = m /\ \A n \in 1 .. Len(q.waiting) : z.waiting[n] = q.waiting[n]
    BY <2>1, AppendIs DEF Struct, Queued
  <2>4. /\ z.producer = q.producer /\ z.served = q.served /\ z.start = q.start /\ z.warm = q.warm
        /\ z.talking = q.talking /\ z.acks = q.acks /\ z.pressed = q.pressed /\ z.locks = q.locks /\ z.remote = q.remote
        /\ z.fingers = q.fingers /\ z.over = q.over /\ z.races = q.races /\ z.current = q.current /\ z.reported = q.reported
    BY <2>1 DEF WebSameBut, WebNames
  <2>5. Struct(z)
    <3>1. WebTypes(z)
      BY <2>1, <2>4 DEF Struct, WebTypes
    <3>2. Making(z)
      BY <2>4 DEF Struct, Making
    <3>3. Queued(z)
      <4>1. \A n \in 1 .. Len(z.waiting) : n \in 1 .. Len(q.waiting) \/ n = Len(q.waiting) + 1
        BY <2>3
      <4> QED BY <1>1, <2>2, <2>3, <2>4, <4>1 DEF Struct, Queued
    <3>4. Answers(z)
      BY <2>4 DEF Struct, Answers, One, Acked
    <3> QED BY <3>1, <3>2, <3>3, <3>4 DEF Struct
  <2>6. W!Addressees(z) = W!Addressees(q)
    BY <2>4, AddresseesStay
  <2>7. z.start = W!NoStart /\ W!NoStart.stage = "none" /\ W!NoStart.canceled = FALSE
    BY <1>1, <2>4 DEF Struct, Making, W!NoStart
  <2>8. z.waiting # <<>>
    <3>1. Len(z.waiting) # 0 /\ Len(<<>>) = 0
      BY <2>3
    <3> QED BY <3>1
  <2>9. NotAlone(z) /\ Tidy(z) /\ Sync(z)
    BY <2>4, <2>6 DEF NotAlone, Tidy, Sync
  <2>10. Addressed(z)
    <3>1. z.races = {} => ~z.talking
      BY <1>1, <2>4, <2>7, <2>9 DEF Sync
    <3> QED BY <2>4, <2>6, <2>7, <2>8, <3>1 DEF Addressed
  <2> QED BY <1>1, <2>5, <2>9, <2>10 DEF WebGood, Fine, z, m
<1>2. CASE ~(q.producer = "none" /\ q.warm # "none")
  <2>1. /\ Struct(y) /\ NotAlone(y) /\ Sync(y) /\ Addressed(y)
        /\ WebSameBut(q, y, Machine \cup {"current", "routed", "reported", "races"})
    <3> DEFINE ts == q.current
    <3>1. /\ ts # {} /\ (q.producer # "none" \/ q.warm = "none")
          /\ q.races = {} => q.current = ts /\ W!Addressees(q) = ts
      BY <1>2
    <3> HIDE DEF ts
    <3>2. LET x == W!Proceed(q, ts) IN
          /\ Struct(x) /\ NotAlone(x) /\ Sync(x) /\ Addressed(x)
          /\ WebSameBut(q, x, Machine \cup {"current", "routed", "reported", "races"})
      BY <3>1, ProceedIs
    <3> QED BY <3>2 DEF ts
  <2> HIDE DEF y
  <2>2. y.fingers = q.fingers /\ y.over = q.over /\ y.pressed = q.pressed
    BY <2>1 DEF WebSameBut, WebNames, Machine
  <2>3. Tidy(y)
    BY <2>2 DEF Tidy
  <2> QED BY <1>2, <2>1, <2>3 DEF WebGood, Fine, y
<1> QED BY <1>1, <1>2

\* As Tidy, but for one of them.
TidyBut(p, i) == ~p.over => \A j \in Pointers \ {i} : ~p.fingers[j].asks => p.pressed[j] = None

\* An input presses a target, or nothing does and the target is locked or pressed
\* from elsewhere.
LEMMA TalkIs ==
  ASSUME W!ControlsAssumption, NEW p, Struct(p), Sync(p), NEW i \in W!Inputs \cup {None}, NEW t, i = None \/ t \in TalkTargets,
         TidyBut(p, i), i \in Pointers => p.fingers[i].asks,
         i = None => t \in p.locks \/ p.remote = {t}
  PROVE  WebGood(W!Talk(p, i, t))
<1> DEFINE a == IF W!Held(p) \subseteq p.locks \cup {t} THEN p ELSE W!Race(p, "lock")
           r == [p EXCEPT !.pressed[i] = t]
           q == IF i = None THEN W!SetCurrent(a, p.locks \cup {t}) ELSE W!SetCurrent(r, W!Wanted(r))
<1>0. W!Talk(p, i, t) = IF q.producer = "none" /\ q.warm # "none"
                      THEN [q EXCEPT !.waiting = Append(@, [input |-> i, targets |-> q.current])]
                      ELSE W!Proceed(q, q.current)
  BY DEF W!Talk
<1>1. DOMAIN p = WebNames /\ None \notin W!Inputs /\ (i # None => t # None)
  BY DEF Struct, WebTypes, W!ControlsAssumption
<1>2. /\ DOMAIN q = WebNames /\ WebSameBut(p, q, {"current", "remote", "races", "pressed"}) /\ p.races \subseteq q.races
      /\ DOMAIN q.pressed = W!Inputs /\ W!Addressees(q) # {} /\ q.current # {} /\ (q.races = {} => q.current = W!Addressees(q))
      /\ Tidy(q)
  <2>1. CASE i = None
    <3>1. q = W!SetCurrent(a, p.locks \cup {t})
      BY <2>1
    <3>2. /\ DOMAIN a = WebNames /\ WebSameBut(p, a, {"races"}) /\ p.races \subseteq a.races
          /\ a.races = {} => W!Held(p) \subseteq p.locks \cup {t}
      <4>1. CASE W!Held(p) \subseteq p.locks \cup {t}
        BY <1>1, <4>1 DEF WebSameBut
      <4>2. CASE ~(W!Held(p) \subseteq p.locks \cup {t})
        BY <1>1, <4>2, RaceIs
      <4> QED BY <4>1, <4>2
    <3> HIDE DEF a
    <3>3. /\ DOMAIN q = WebNames /\ WebSameBut(a, q, {"current", "remote"})
          /\ q.current = p.locks \cup {t} /\ q.remote = a.remote \cap (p.locks \cup {t})
      BY <3>1, <3>2, SetCurrentIs
    <3> HIDE DEF q
    <3>4. /\ WebSameBut(p, q, {"current", "remote", "races"}) /\ q.races = a.races /\ q.pressed = p.pressed
          /\ q.locks = p.locks /\ q.fingers = p.fingers /\ q.over = p.over /\ a.remote = p.remote
      BY <3>2, <3>3 DEF WebSameBut, WebNames
    <3>5. W!Held(q) = W!Held(p) /\ W!Addressees(q) = p.locks \cup W!Held(p) \cup (p.remote \cap (p.locks \cup {t}))
      BY <3>3, <3>4 DEF W!Addressees, W!Wanted, W!Held
    <3>9. t \in W!Addressees(q)
      BY <2>1, <3>5
    <3>10. W!Held(p) \subseteq p.locks \cup {t} => W!Addressees(q) = p.locks \cup {t}
      BY <3>5, <3>9
    <3>6. Tidy(q)
      <4>1. i \notin Pointers
        BY <2>1 DEF W!ControlsAssumption, W!Inputs
      <4> QED BY <3>4, <4>1 DEF Tidy, TidyBut
    <3> QED BY <2>1, <3>2, <3>3, <3>4, <3>6, <3>9, <3>10 DEF Struct, WebTypes, WebSameBut
  <2>2. CASE i # None
    <3>1. q = W!SetCurrent(r, W!Wanted(r)) /\ i \in W!Inputs
      BY <2>2
    <3>2. DOMAIN r = WebNames /\ WebSameBut(p, r, {"pressed"}) /\ r.pressed = [p.pressed EXCEPT ![i] = t]
      BY <1>1 DEF WebSameBut, WebNames
    <3> HIDE DEF r
    <3>3. /\ DOMAIN q = WebNames /\ WebSameBut(r, q, {"current", "remote"})
          /\ q.current = W!Wanted(r) /\ W!Addressees(q) = W!Wanted(r) /\ W!Wanted(q) = W!Wanted(r)
      BY <3>1, <3>2, SetWantedIs
    <3> HIDE DEF q
    <3>4. /\ WebSameBut(p, q, {"current", "remote", "pressed"}) /\ q.pressed = [p.pressed EXCEPT ![i] = t]
          /\ q.fingers = p.fingers /\ q.over = p.over /\ q.races = p.races
      BY <3>2, <3>3 DEF WebSameBut, WebNames
    <3>6. DOMAIN q.pressed = W!Inputs /\ q.pressed[i] = t
      BY <3>1, <3>4 DEF Struct, WebTypes
    <3>7. t \in W!Wanted(q)
      BY <1>1, <3>1, <3>6 DEF W!Wanted, W!Held
    <3>8. Tidy(q)
      <4>1. \A j \in Pointers : j \in W!Inputs
        BY DEF W!Inputs
      <4>2. \A j \in Pointers : q.pressed[j] = IF j = i THEN t ELSE p.pressed[j]
        BY <3>4, <4>1 DEF Struct, WebTypes
      <4> QED BY <3>4, <4>2 DEF Tidy, TidyBut
    <3> QED BY <3>3, <3>4, <3>6, <3>7, <3>8 DEF WebSameBut
  <2> QED BY <2>1, <2>2
<1> HIDE DEF q
<1>3. Struct(q)
  <2>1. WebSameBut(p, q, WebNames \ Machine) /\ q.fingers = p.fingers /\ q.over = p.over /\ q.reported = p.reported
    BY <1>2 DEF WebSameBut, WebNames, Machine
  <2>2. /\ DOMAIN q.fingers = Pointers /\ q.reported \in BOOLEAN
        /\ \A j \in Pointers : DOMAIN q.fingers[j] = {"target", "at", "slid", "asks"}
    BY <2>1 DEF Struct, WebTypes
  <2> QED BY <1>2, <2>1, <2>2, StructStays
<1>4. Sync(q)
  <2>1. q.talking = p.talking /\ q.producer = p.producer /\ q.start = p.start
    BY <1>2 DEF WebSameBut, WebNames
  <2> QED BY <1>2, <2>1 DEF Sync
<1> QED BY <1>0, <1>2, <1>3, <1>4, GoesOn


(***************************************************************************)
(* Presses that waited.  Woken is defined by recursion: that it has a      *)
(* solution is shown for the least length at which it would have none.     *)
(***************************************************************************)
Base(p) == [p EXCEPT !.warm = "none", !.waiting = <<>>]

\* The n-th of them goes on.
Stirred(p, n, x) ==
  W!Proceed(IF (p.waiting[n].input # None /\ p.pressed[p.waiting[n].input] \notin p.waiting[n].targets)
             \/ p.waiting[n].targets # W!Addressees(p)
          THEN W!Race(x, "warm") ELSE x, p.waiting[n].targets)

WebRec(p, k) == [n \in DOMAIN k |-> IF n = 0 THEN Base(p) ELSE Stirred(p, n, k[n - 1])]

LEMMA Least == ASSUME NEW A, A \subseteq Nat, A # {} PROVE \E n \in A : \A m \in A : n <= m
<1> DEFINE R == {ss \in Nat \X Nat : ss[1] < ss[2]}
<1>1. OpToRel(<, Nat) = R
  BY DEF OpToRel
<1>2. IsWellFoundedOn(R, Nat)
  BY <1>1, NatLessThanWellFounded
<1>3. PICK n \in A : \A m \in A : <<m, n>> \notin R
  <2> HIDE DEF R
  <2> QED BY <1>2, WFMin
<1>4. ASSUME NEW m \in A PROVE n <= m
  <2>1. m \in Nat /\ n \in Nat /\ <<m, n>> \in Nat \X Nat
    OBVIOUS
  <2>2. m < n => <<m, n>> \in R
    BY <2>1
  <2> HIDE DEF R
  <2> QED BY <1>3, <2>1, <2>2
<1> QED BY <1>4

LEMMA WokenExists ==
  ASSUME NEW p, NEW N \in Nat
  PROVE  \E k : DOMAIN k = 0 .. N /\ k = WebRec(p, k)
<1> DEFINE Solved(n) == \E k : DOMAIN k = 0 .. n /\ k = WebRec(p, k)
           Bad == {n \in 0 .. N : ~Solved(n)}
<1> SUFFICES ASSUME Bad # {} PROVE FALSE
  OBVIOUS
<1>1. PICK n \in Bad : \A m \in Bad : n <= m
  <2>1. Bad \subseteq Nat
    OBVIOUS
  <2> HIDE DEF Bad
  <2> QED BY <2>1, Least
<1>2. n \in 0 .. N /\ ~Solved(n)
  BY <1>1
<1>3. CASE n = 0
  <2> DEFINE k == [i \in 0 .. 0 |-> Base(p)]
  <2>1. k = WebRec(p, k) /\ DOMAIN k = 0 .. 0
    BY DEF WebRec
  <2> QED BY <1>2, <1>3, <2>1
<1>4. CASE n # 0
  <2>1. n \in Nat \ {0} /\ n - 1 \in 0 .. N /\ ~(n <= n - 1)
    BY <1>2, <1>4
  <2>2. Solved(n - 1)
    <3>1. n - 1 \notin Bad
      <4> HIDE DEF Bad
      <4> QED BY <1>1, <2>1
    <3> QED BY <2>1, <3>1
  <2>3. PICK f : DOMAIN f = 0 .. n - 1 /\ f = WebRec(p, f)
    BY <2>2
  <2> DEFINE k == [i \in 0 .. n |-> IF i = n THEN Stirred(p, n, f[n - 1]) ELSE f[i]]
  <2>4. \A i \in 0 .. n - 1 : i # n /\ k[i] = f[i]
    BY <2>1
  <2>5. k[n] = Stirred(p, n, f[n - 1])
    BY <2>1
  <2>6. ASSUME NEW i \in 0 .. n
        PROVE  k[i] = IF i = 0 THEN Base(p) ELSE Stirred(p, i, k[i - 1])
    <3>1. CASE i = n
      <4>1. k[n - 1] = f[n - 1] /\ n # 0
        BY <2>1, <2>4
      <4> HIDE DEF k
      <4> QED BY <2>5, <3>1, <4>1
    <3>2. CASE i # n
      <4>1. i \in 0 .. n - 1 /\ (i # 0 => i - 1 \in 0 .. n - 1)
        BY <2>1, <3>2
      <4>2. f[i] = IF i = 0 THEN Base(p) ELSE Stirred(p, i, f[i - 1])
        BY <2>3, <4>1 DEF WebRec
      <4> HIDE DEF k
      <4> QED BY <2>4, <4>1, <4>2
    <3> QED BY <3>1, <3>2
  <2>7. k = WebRec(p, k) /\ DOMAIN k = 0 .. n
    <3>1. DOMAIN k = 0 .. n /\ k = [i \in 0 .. n |-> k[i]]
      OBVIOUS
    <3> HIDE DEF k
    <3> QED BY <2>6, <3>1 DEF WebRec
  <2> HIDE DEF k
  <2> QED BY <1>2, <2>7
<1> QED BY <1>3, <1>4

LEMMA WokenSolves ==
  ASSUME NEW p, Len(p.waiting) \in Nat
  PROVE  \E k : /\ \A n \in 0 .. Len(p.waiting) : k[n] = IF n = 0 THEN Base(p) ELSE Stirred(p, n, k[n - 1])
                /\ W!Woken(p) = k[Len(p.waiting)]
<1> DEFINE Solves(k) == k = [n \in 0 .. Len(p.waiting) |->
                          IF n = 0 THEN [p EXCEPT !.warm = "none", !.waiting = <<>>]
                          ELSE LET w == p.waiting[n]
                                   gone == w.input # None /\ p.pressed[w.input] \notin w.targets
                               IN  W!Proceed(IF gone \/ w.targets # W!Addressees(p) THEN W!Race(k[n - 1], "warm") ELSE k[n - 1],
                                           w.targets)]
           ks == CHOOSE k : Solves(k)
<1>1. PICK f : DOMAIN f = 0 .. Len(p.waiting) /\ f = WebRec(p, f)
  BY WokenExists
<1>2. Solves(f)
  BY <1>1 DEF WebRec, Stirred, Base
<1>3. Solves(ks)
  <2> HIDE DEF Solves
  <2> QED BY <1>2
<1>4. W!Woken(p) = ks[Len(p.waiting)]
  BY DEF W!Woken
<1>5. \A n \in 0 .. Len(p.waiting) : ks[n] = IF n = 0 THEN Base(p) ELSE Stirred(p, n, ks[n - 1])
  <2> HIDE DEF ks
  <2> QED BY <1>3 DEF Stirred, Base
<1> HIDE DEF ks
<1> QED BY <1>4, <1>5

\* After n of them the page is as good as before, and better once one went on.
Waking(p, x, n) ==
  /\ Struct(x) /\ Sync(x) /\ NotAlone(x) /\ x.warm = "none" /\ x.waiting = <<>>
  /\ WebSameBut(p, x, Machine \cup {"current", "routed", "reported", "races"}) /\ p.races \subseteq x.races
  /\ x.races = {} => x.current = W!Addressees(x)
  /\ n # 0 \/ p.waiting = <<>> => Addressed(x)

\* What presses that waited find: a page that is good but for the preparation.
Wakes(p) ==
  /\ WebTypes(p) /\ Queued(p) /\ Struct(Base(p)) /\ NotAlone(p) /\ Sync(p) /\ Addressed(p) /\ Tidy(p)
  /\ p.start = W!NoStart

LEMMA BaseStruct ==
  ASSUME NEW p, WebTypes(p), Answers(p), p.start = W!NoStart, Acked(p, "warm") = {},
         p.served = IF p.producer = "none" THEN "none" ELSE p.producer
  PROVE  Struct(Base(p))
<1> DEFINE x == Base(p)
<1>1. DOMAIN x = WebNames /\ WebSameBut(p, x, {"warm", "waiting"}) /\ x.warm = "none" /\ x.waiting = <<>>
  BY DEF Base, WebTypes, WebSameBut, WebNames
<1> HIDE DEF x
<1>2. /\ x.producer = p.producer /\ x.served = p.served /\ x.start = p.start
      /\ x.talking = p.talking /\ x.acks = p.acks /\ x.pressed = p.pressed
      /\ x.fingers = p.fingers /\ x.reported = p.reported
  BY <1>1 DEF WebSameBut, WebNames
<1>3. W!NoStart.stage = "none"
  BY DEF W!NoStart
<1>4. WebTypes(x)
  BY <1>1, <1>2 DEF WebTypes
<1>5. Making(x)
  BY <1>1, <1>2, <1>3 DEF Making
<1>6. Queued(x)
  <2>1. <<>> \in Seq({}) /\ Len(<<>>) = 0
    OBVIOUS
  <2> QED BY <1>1, <2>1 DEF Queued, IsSeq
<1>7. Answers(x)
  BY <1>1, <1>2 DEF Answers, One, Acked
<1> QED BY <1>4, <1>5, <1>6, <1>7 DEF Struct, x

LEMMA WakesIs == ASSUME NEW p, WebGood(p), p.warm \in {"mic", "pause"} PROVE Wakes(p)
<1>1. p.start = W!NoStart /\ W!NoStart.stage = "none" /\ Acked(p, "warm") = {} /\ WebTypes(p) /\ Answers(p)
  BY DEF WebGood, Fine, Struct, Making, Answers, W!NoStart
<1>2. p.served = IF p.producer = "none" THEN "none" ELSE p.producer
  BY <1>1 DEF WebGood, Fine, Struct, Making
<1>3. Struct(Base(p))
  BY <1>1, <1>2, BaseStruct
<1> QED BY <1>1, <1>3 DEF Wakes, WebGood, Fine, Struct

LEMMA BaseIs ==
  ASSUME NEW p, Wakes(p)
  PROVE  Waking(p, Base(p), 0)
<1> DEFINE x == Base(p)
<1>1. DOMAIN x = WebNames /\ WebSameBut(p, x, {"warm", "waiting"}) /\ x.warm = "none" /\ x.waiting = <<>>
  BY DEF Base, Wakes, WebTypes, WebSameBut, WebNames
<1>4. Struct(x)
  BY DEF Wakes
<1> HIDE DEF x
<1>2. /\ x.producer = p.producer /\ x.start = p.start /\ x.races = p.races /\ x.talking = p.talking
      /\ x.pressed = p.pressed /\ x.locks = p.locks /\ x.remote = p.remote
      /\ x.current = p.current /\ x.reported = p.reported /\ x.routed = p.routed
  BY <1>1 DEF WebSameBut, WebNames
<1>5. W!Addressees(x) = W!Addressees(p)
  BY <1>2, AddresseesStay
<1>6. Sync(x) /\ NotAlone(x)
  BY <1>2, <1>5 DEF Wakes, Sync, NotAlone, Starting
<1>7. x.races = {} => x.current = W!Addressees(x)
  BY <1>2, <1>5 DEF Wakes, Addressed
<1>8. p.waiting = <<>> => Addressed(x)
  BY <1>2, <1>5 DEF Wakes, Addressed, Starting
<1>9. WebSameBut(p, x, Machine \cup {"current", "routed", "reported", "races"})
  BY <1>1 DEF WebSameBut, Machine, WebNames
<1> QED BY <1>1, <1>2, <1>4, <1>6, <1>7, <1>8, <1>9 DEF Waking, x

LEMMA StirredIs ==
  ASSUME NEW p, Wakes(p), NEW n \in 1 .. Len(p.waiting), NEW x, Waking(p, x, n - 1)
  PROVE  Waking(p, Stirred(p, n, x), n)
<1> DEFINE ts == p.waiting[n].targets
           odd == (p.waiting[n].input # None /\ p.pressed[p.waiting[n].input] \notin ts) \/ ts # W!Addressees(p)
           y == IF odd THEN W!Race(x, "warm") ELSE x
           q == W!Proceed(y, ts)
<1>0. Stirred(p, n, x) = q
  BY DEF Stirred
<1>1. ts # {} /\ DOMAIN x = WebNames
  BY DEF Wakes, Struct, Queued, Waking, WebTypes
<1>2. /\ DOMAIN y = WebNames /\ WebSameBut(x, y, {"races"}) /\ x.races \subseteq y.races
      /\ "warm" \notin y.races => ts = W!Addressees(p) /\ y = x
  <2>1. CASE odd
    BY <1>1, <2>1, RaceIs
  <2>2. CASE ~odd
    BY <1>1, <2>2 DEF WebSameBut
  <2> QED BY <2>1, <2>2
<1> HIDE DEF y, odd, ts
<1>3. /\ y.producer = x.producer /\ y.start = x.start /\ y.warm = "none" /\ y.waiting = <<>>
      /\ y.talking = x.talking /\ y.pressed = p.pressed /\ y.locks = p.locks /\ y.remote = p.remote /\ y.fingers = x.fingers /\ y.over = x.over
      /\ x.pressed = p.pressed /\ x.locks = p.locks /\ x.remote = p.remote /\ y.reported = x.reported
  BY <1>2 DEF WebSameBut, WebNames, Machine, Waking
<1>4. Struct(y)
  <2>1. WebSameBut(x, y, WebNames \ Machine)
    BY <1>2 DEF WebSameBut, WebNames, Machine
  <2>2. /\ Struct(x) /\ DOMAIN y.pressed = W!Inputs /\ DOMAIN y.fingers = Pointers /\ y.reported \in BOOLEAN
        /\ \A j \in Pointers : DOMAIN y.fingers[j] = {"target", "at", "slid", "asks"}
    BY <1>3 DEF Waking, Struct, WebTypes
  <2> QED BY <1>2, <2>1, <2>2, StructStays
<1>5. W!Addressees(y) = W!Addressees(p) /\ W!Addressees(x) = W!Addressees(p)
  BY <1>3, AddresseesStay
<1>6. Sync(y)
  BY <1>2, <1>3 DEF Waking, Sync
<1>7. /\ "warm" \notin y.races => W!Addressees(y) # {}
      /\ y.races = {} => y.current = ts /\ W!Addressees(y) = ts
  <2>1. "warm" \notin y.races => W!Addressees(y) = ts
    BY <1>2, <1>5
  <2>2. y.races = {} => y.current = W!Addressees(x)
    BY <1>2 DEF Waking
  <2> QED BY <1>1, <1>5, <2>1, <2>2
<1>8. /\ Struct(q) /\ NotAlone(q) /\ Sync(q) /\ Addressed(q)
      /\ WebSameBut(y, q, Machine \cup {"current", "routed", "reported", "races"})
      /\ q.warm = y.warm /\ q.waiting = y.waiting /\ y.races \subseteq q.races
  <2>1. y.producer # "none" \/ y.warm = "none"
    BY <1>3
  <2>2. LET z == W!Proceed(y, ts) IN
        /\ Struct(z) /\ NotAlone(z) /\ Sync(z) /\ Addressed(z)
        /\ WebSameBut(y, z, Machine \cup {"current", "routed", "reported", "races"})
        /\ z.warm = y.warm /\ z.waiting = y.waiting /\ y.races \subseteq z.races
    BY <1>1, <1>4, <1>6, <1>7, <2>1, ProceedIs
  <2> QED BY <2>2
<1> HIDE DEF q
<1>9. WebSameBut(p, q, Machine \cup {"current", "routed", "reported", "races"}) /\ p.races \subseteq q.races
  BY <1>2, <1>8 DEF WebSameBut, WebNames, Machine, Waking
<1> QED BY <1>0, <1>3, <1>8, <1>9 DEF Waking, Addressed

LEMMA WokenWakes ==
  ASSUME NEW p, Wakes(p) PROVE WebGood(W!Woken(p))
<1>1. Len(p.waiting) \in Nat
  <2>1. PICK V : p.waiting \in Seq(V)
    BY DEF Wakes, Queued, IsSeq
  <2> QED BY <2>1
<1>2. PICK k : /\ \A n \in 0 .. Len(p.waiting) : k[n] = IF n = 0 THEN Base(p) ELSE Stirred(p, n, k[n - 1])
               /\ W!Woken(p) = k[Len(p.waiting)]
  BY <1>1, WokenSolves
<1>3. \A n \in 0 .. Len(p.waiting) : Waking(p, k[n], n)
  <2> DEFINE Bad == {n \in 0 .. Len(p.waiting) : ~Waking(p, k[n], n)}
  <2> SUFFICES ASSUME Bad # {} PROVE FALSE
    OBVIOUS
  <2>1. PICK n \in Bad : \A m \in Bad : n <= m
    <3>1. Bad \subseteq Nat
      BY <1>1
    <3> HIDE DEF Bad
    <3> QED BY <3>1, Least
  <2>2. n \in 0 .. Len(p.waiting) /\ ~Waking(p, k[n], n)
    BY <2>1
  <2>3. n # 0
    BY <1>2, <2>2, BaseIs
  <2>4. n - 1 \in 0 .. Len(p.waiting) /\ n \in 1 .. Len(p.waiting) /\ ~(n <= n - 1)
    BY <1>1, <2>2, <2>3
  <2>5. Waking(p, k[n - 1], n - 1)
    <3>1. n - 1 \notin Bad
      <4> HIDE DEF Bad
      <4> QED BY <2>1, <2>4
    <3> QED BY <2>4, <3>1
  <2>6. k[n] = Stirred(p, n, k[n - 1])
    BY <1>2, <2>2, <2>3
  <2> QED BY <2>2, <2>4, <2>5, <2>6, StirredIs
<1> DEFINE q == W!Woken(p)
<1>4. Waking(p, q, Len(p.waiting)) /\ (Len(p.waiting) # 0 \/ p.waiting = <<>>)
  <2>1. Len(p.waiting) = 0 => p.waiting = <<>>
    <3>1. PICK V : p.waiting \in Seq(V)
      BY DEF Wakes, Queued, IsSeq
    <3> QED BY <3>1, EmptySeq
  <2> QED BY <1>1, <1>2, <1>3, <2>1
<1> HIDE DEF q
<1>5. Tidy(q)
  <2>1. q.fingers = p.fingers /\ q.over = p.over /\ q.pressed = p.pressed
    BY <1>4 DEF Waking, WebSameBut, WebNames, Machine
  <2> QED BY <2>1 DEF Wakes, Tidy
<1> QED BY <1>4, <1>5 DEF Waking, WebGood, Fine, q

LEMMA WokenIs == ASSUME NEW p, WebGood(p), p.warm \in {"mic", "pause"} PROVE WebGood(W!Woken(p))
  BY WakesIs, WokenWakes

\* The preparation fails after the producer was asked for.
LEMMA UnpreparedIs ==
  ASSUME NEW p, WebGood(p), p.warm = "produce", Acked(p, "warm") = {}
  PROVE  WebGood(W!Woken([p EXCEPT !.served = "none"]))
<1> DEFINE x == [p EXCEPT !.served = "none"]
<1>1. DOMAIN x = WebNames /\ WebSameBut(p, x, {"served"}) /\ x.served = "none"
  BY DEF WebGood, Fine, Struct, WebTypes, WebSameBut, WebNames
<1> HIDE DEF x
<1>2. /\ x.producer = p.producer /\ x.start = p.start /\ x.warm = p.warm /\ x.waiting = p.waiting
      /\ x.talking = p.talking /\ x.acks = p.acks /\ x.pressed = p.pressed /\ x.locks = p.locks /\ x.remote = p.remote
      /\ x.fingers = p.fingers /\ x.over = p.over /\ x.current = p.current /\ x.reported = p.reported
      /\ x.routed = p.routed /\ x.races = p.races
  BY <1>1 DEF WebSameBut, WebNames
<1>3. p.start = W!NoStart /\ p.producer = "none"
  BY DEF WebGood, Fine, Struct, Making
<1>4. WebTypes(x) /\ Queued(x) /\ Answers(x) /\ Acked(x, "warm") = {}
  <2>1. WebTypes(x)
    BY <1>1, <1>2 DEF WebGood, Fine, Struct, WebTypes
  <2>2. Queued(x)
    BY <1>2 DEF WebGood, Fine, Struct, Queued
  <2>3. Answers(x) /\ Acked(x, "warm") = {}
    BY <1>2 DEF WebGood, Fine, Struct, Answers, One, Acked
  <2> QED BY <2>1, <2>2, <2>3
<1>5. Struct(Base(x))
  BY <1>1, <1>2, <1>3, <1>4, BaseStruct
<1>6. W!Addressees(x) = W!Addressees(p)
  BY <1>2, AddresseesStay
<1>7. NotAlone(x)
  BY <1>2, <1>6 DEF WebGood, Fine, NotAlone, Starting
<1>8. Sync(x)
  BY <1>2 DEF WebGood, Fine, Sync
<1>9. Addressed(x)
  BY <1>2, <1>6 DEF WebGood, Fine, Addressed, Starting
<1>10. Tidy(x)
  BY <1>2 DEF WebGood, Tidy
<1>11. Wakes(x)
  BY <1>2, <1>3, <1>4, <1>5, <1>7, <1>8, <1>9, <1>10 DEF Wakes
<1>12. WebGood(W!Woken(x))
  BY <1>11, WokenWakes
<1> QED BY <1>12 DEF x


(***************************************************************************)
(* What is held or locked changes.                                         *)
(***************************************************************************)
\* Settings, lists and fingers change, or a race is lost.
Settings == {"suspended", "restore", "multi", "voice", "inhibited", "refresh", "shown", "races", "rows"}

LEMMA FineStays ==
  ASSUME NEW p, NEW q, Fine(p), DOMAIN q = WebNames, WebSameBut(p, q, Settings \cup {"fingers", "over"}),
         p.races \subseteq q.races, DOMAIN q.fingers = Pointers,
         \A i \in Pointers : DOMAIN q.fingers[i] = {"target", "at", "slid", "asks"}
  PROVE  Fine(q)
<1>1. /\ q.producer = p.producer /\ q.start = p.start /\ q.waiting = p.waiting /\ q.talking = p.talking
      /\ q.pressed = p.pressed /\ q.locks = p.locks /\ q.remote = p.remote /\ q.current = p.current
      /\ q.routed = p.routed /\ q.reported = p.reported
  BY DEF WebSameBut, WebNames, Settings
<1>2. WebSameBut(p, q, WebNames \ Machine)
  BY DEF WebSameBut, WebNames, Machine, Settings
<1>3. Struct(q)
  <2>1. Struct(p) /\ DOMAIN q.pressed = W!Inputs /\ q.reported \in BOOLEAN
    BY <1>1 DEF Fine, Struct, WebTypes
  <2> QED BY <1>2, <2>1, StructStays
<1>4. W!Addressees(q) = W!Addressees(p)
  BY <1>1, AddresseesStay
<1>5. NotAlone(q)
  BY <1>1, <1>4 DEF Fine, NotAlone, Starting
<1>6. q.races = {} => p.races = {}
  OBVIOUS
<1>7. Sync(q)
  BY <1>1, <1>6 DEF Fine, Sync
<1>8. Addressed(q)
  BY <1>1, <1>4, <1>6 DEF Fine, Addressed, Starting
<1> QED BY <1>3, <1>5, <1>7, <1>8 DEF Fine

\* Some targets are let go, others are still held or locked and were sent.
LEMMA RetargetIs ==
  ASSUME NEW p, NEW q, Fine(p), DOMAIN q = WebNames,
         WebSameBut(p, q, {"pressed", "locks", "current", "remote", "routed", "reported"}),
         DOMAIN q.pressed = W!Inputs, q.reported \in BOOLEAN,
         W!Addressees(q) # {}, W!Addressees(q) \subseteq W!Addressees(p), q.current = W!Addressees(q), q.routed = W!Addressees(q)
  PROVE  Fine(q)
<1>1. /\ q.producer = p.producer /\ q.start = p.start /\ q.waiting = p.waiting /\ q.talking = p.talking
      /\ q.fingers = p.fingers /\ q.races = p.races
  BY DEF WebSameBut, WebNames
<1>2. WebSameBut(p, q, WebNames \ Machine)
  BY DEF WebSameBut, WebNames, Machine
<1>3. Struct(q)
  <2>1. /\ Struct(p) /\ DOMAIN q.fingers = Pointers
        /\ \A i \in Pointers : DOMAIN q.fingers[i] = {"target", "at", "slid", "asks"}
    BY <1>1 DEF Fine, Struct, WebTypes
  <2> QED BY <1>2, <2>1, StructStays
<1>4. NotAlone(q)
  BY DEF NotAlone
<1>5. Sync(q)
  BY <1>1 DEF Fine, Sync
<1>6. Addressed(q)
  <2>1. q.races = {} => ~q.start.canceled /\ (q.talking \/ Starting(q) \/ q.waiting # <<>>)
    BY <1>1 DEF Fine, Addressed, Starting
  <2> QED BY <2>1 DEF Addressed
<1> QED BY <1>3, <1>4, <1>5, <1>6 DEF Fine

\* A page with what it asks for sent again, which is Fine.
Resent(q, x) == Fine(x) /\ DOMAIN x = WebNames /\ WebSameBut(q, x, {"current", "remote", "routed", "reported"})

\* The rest is addressed, or the talk ends.
LEMMA RestIs ==
  ASSUME NEW p, NEW q, NEW r, r = W!SetCurrent(q, W!Wanted(q)), Fine(p), DOMAIN q = WebNames,
         WebSameBut(p, q, {"pressed", "locks"}), DOMAIN q.pressed = W!Inputs, W!Wanted(q) \subseteq W!Wanted(p)
  PROVE  /\ Struct(r) /\ r.current = W!Wanted(q) /\ r.fingers = p.fingers /\ r.over = p.over
         /\ r.current # {} =>
              /\ Resent(q, W!SendPtt(W!SendTargets(r, r.current), TRUE, r.current))
              /\ Resent(q, W!SendTargets(r, r.current))
<1> DEFINE a == W!SendTargets(r, r.current)
           b == W!SendPtt(W!SendTargets(r, r.current), TRUE, r.current)
<1>1. /\ DOMAIN r = WebNames /\ WebSameBut(q, r, {"current", "remote"})
      /\ r.current = W!Wanted(q) /\ W!Addressees(r) = W!Wanted(q)
  BY SetWantedIs
<1>2. /\ WebSameBut(p, r, {"pressed", "locks", "current", "remote"}) /\ r.pressed = q.pressed
      /\ r.fingers = p.fingers /\ r.over = p.over /\ r.reported = p.reported
  BY <1>1 DEF WebSameBut, WebNames
<1>3. Struct(r)
  <2>1. WebSameBut(p, r, WebNames \ Machine)
    BY <1>2 DEF WebSameBut, WebNames, Machine
  <2>2. /\ Struct(p) /\ DOMAIN r.pressed = W!Inputs /\ DOMAIN r.fingers = Pointers /\ r.reported \in BOOLEAN
        /\ \A j \in Pointers : DOMAIN r.fingers[j] = {"target", "at", "slid", "asks"}
    BY <1>2 DEF Fine, Struct, WebTypes
  <2> QED BY <1>1, <2>1, <2>2, StructStays
<1>4. ASSUME r.current # {}
      PROVE  Resent(q, b) /\ Resent(q, a)
  <2>1. DOMAIN a = WebNames /\ WebSameBut(r, a, {"routed"}) /\ a.routed = r.current
    BY <1>1, SendTargetsIs
  <2>2. DOMAIN b = WebNames /\ WebSameBut(r, b, {"reported", "routed"}) /\ b.routed = r.current /\ b.reported = TRUE
    BY <1>1, <1>4, SendBothIs
  <2> HIDE DEF a, b
  <2>3. a.reported \in BOOLEAN /\ b.reported \in BOOLEAN
    BY <1>3, <2>1, <2>2 DEF Struct, WebTypes, WebSameBut, WebNames
  <2>4. ASSUME NEW x \in {b, a}
        PROVE  Resent(q, x)
    <3>1. /\ DOMAIN x = WebNames /\ WebSameBut(r, x, {"reported", "routed"}) /\ x.routed = r.current /\ x.reported \in BOOLEAN
      BY <2>1, <2>2, <2>3 DEF WebSameBut
    <3>2. /\ WebSameBut(p, x, {"pressed", "locks", "current", "remote", "routed", "reported"})
          /\ WebSameBut(q, x, {"current", "remote", "routed", "reported"})
          /\ x.pressed = q.pressed /\ x.pressed = r.pressed /\ x.locks = r.locks /\ x.remote = r.remote
          /\ x.current = r.current
      BY <1>1, <1>2, <3>1 DEF WebSameBut, WebNames
    <3>3. W!Addressees(x) = W!Wanted(q)
      BY <1>1, <3>2, AddresseesStay
    <3>4. W!Wanted(q) \subseteq W!Addressees(p)
      BY DEF W!Addressees
    <3>5. /\ DOMAIN x.pressed = W!Inputs /\ W!Addressees(x) # {} /\ W!Addressees(x) \subseteq W!Addressees(p)
          /\ x.current = W!Addressees(x) /\ x.routed = W!Addressees(x)
      BY <1>1, <1>4, <3>1, <3>2, <3>3, <3>4
    <3>6. Fine(x)
      BY <3>1, <3>2, <3>5, RetargetIs
    <3> QED BY <3>1, <3>2, <3>6 DEF Resent
  <2> QED BY <2>4
<1> QED BY <1>1, <1>2, <1>3, <1>4

\* What is no longer held or locked changes nothing of the fingers.
LEMMA RestCalm ==
  ASSUME NEW p, NEW q, NEW x, Calm(p, q), Resent(q, x)
  PROVE  Calm(p, x)
<1>1. x.pressed = q.pressed /\ x.fingers = q.fingers /\ x.over = q.over
  BY DEF Resent, WebSameBut, WebNames
<1> QED BY <1>1 DEF Calm

LEMMA QuietCalm ==
  ASSUME NEW p, NEW x, Quiet(x), x.fingers = p.fingers, x.over = p.over PROVE Calm(p, x)
  BY DEF Quiet, Calm, W!Inputs

(***************************************************************************)
(* Stops.                                                                  *)
(***************************************************************************)
\* No input, or none that presses, and a button that is locked or none: the
\* talk ends.
LEMMA StopNoneIs ==
  ASSUME NEW p, Struct(p), NEW i, i = None \/ p.pressed[i] = None, NEW suppress \in BOOLEAN
  PROVE  LET q == W!Stop(p, i, FALSE, suppress) IN
         /\ Struct(q) /\ Quiet(q) /\ q.races = p.races /\ q.fingers = p.fingers /\ q.over = p.over /\ q.multi = p.multi
         /\ q.start.stage = p.start.stage /\ (q.warm = p.warm \/ q.warm = "mic")
<1> DEFINE restore == p.suspended # {} /\ ~suppress
<1>1. W!Stop(p, i, FALSE, suppress) = W!StopAll(p, restore)
  BY DEF W!Stop
<1>2. restore \in BOOLEAN
  OBVIOUS
<1> HIDE DEF restore
<1>3. LET q == W!StopAll(p, restore) IN
      /\ Struct(q) /\ Quiet(q) /\ q.races = p.races /\ q.fingers = p.fingers /\ q.over = p.over /\ q.multi = p.multi
      /\ q.start.stage = p.start.stage /\ (q.warm = p.warm \/ q.warm = "mic")
  BY <1>2, StopAllIs
<1> DEFINE x == W!Stop(p, i, FALSE, suppress)
<1>4. x = W!StopAll(p, restore)
  BY <1>1
<1> HIDE DEF x
<1>5. /\ Struct(x) /\ Quiet(x) /\ x.races = p.races /\ x.fingers = p.fingers /\ x.over = p.over /\ x.multi = p.multi
      /\ x.start.stage = p.start.stage /\ (x.warm = p.warm \/ x.warm = "mic")
  BY <1>3, <1>4
<1> QED BY <1>5 DEF x

\* The input lets go, unless the page does not heed it over a lock.
LEMMA StopIs ==
  ASSUME W!ControlsAssumption, NEW p, Fine(p), NEW i \in W!Inputs \cup {None}, NEW b \in BOOLEAN, NEW suppress \in BOOLEAN
  PROVE  LET q == W!Stop(p, i, b, suppress) IN
         /\ Fine(q) /\ Calm(p, q) /\ (p.locks = {} => q.locks = {})
         /\ p.locks = {} /\ i # None => q.pressed[i] = None
<1> DEFINE q == [p EXCEPT !.pressed[i] = None]
           r == W!SetCurrent(q, W!Wanted(q))
           restore == p.suspended # {} /\ ~suppress
           out == W!Stop(p, i, b, suppress)
           sent == W!SendPtt(W!SendTargets(r, r.current), TRUE, r.current)
<1>1. restore \in BOOLEAN /\ Struct(p) /\ (i # None => i \in W!Inputs)
  BY DEF Fine
<1>2. CASE ~p.multi /\ p.locks # {} /\ b
  BY <1>2 DEF W!Stop, Calm
<1>3. CASE ~(~p.multi /\ p.locks # {} /\ b) /\ (i # None /\ p.pressed[i] # None)
  <2>1. out = IF r.current # {} THEN sent ELSE W!StopAll(r, restore)
    BY <1>3 DEF W!Stop
  <2>2. /\ DOMAIN q = WebNames /\ WebSameBut(p, q, {"pressed"}) /\ q.pressed = [p.pressed EXCEPT ![i] = None]
    BY <1>1 DEF Struct, WebTypes, WebSameBut, WebNames
  <2> HIDE DEF q, restore
  <2>3. DOMAIN q.pressed = W!Inputs /\ \A j \in W!Inputs : q.pressed[j] = IF j = i THEN None ELSE p.pressed[j]
    BY <1>1, <2>2 DEF Struct, WebTypes
  <2>4. q.locks = p.locks /\ q.fingers = p.fingers /\ q.over = p.over
    BY <2>2 DEF WebSameBut, WebNames
  <2>5. W!Wanted(q) \subseteq W!Wanted(p)
    BY <2>3, <2>4 DEF W!Wanted, W!Held
  <2>6. Calm(p, q)
    BY <2>3, <2>4 DEF Calm, W!Inputs
  <2>7. WebSameBut(p, q, {"pressed", "locks"})
    BY <2>2 DEF WebSameBut
  <2>8. r = W!SetCurrent(q, W!Wanted(q)) /\ sent = W!SendPtt(W!SendTargets(r, r.current), TRUE, r.current)
    OBVIOUS
  <2> HIDE DEF r, sent, out
  <2>0. /\ Struct(r) /\ r.fingers = p.fingers /\ r.over = p.over
        /\ r.current # {} => Resent(q, sent)
    BY <2>2, <2>3, <2>5, <2>7, <2>8, RestIs
  <2>9. CASE r.current # {}
    <3>1. out = sent /\ Resent(q, sent)
      BY <2>0, <2>1, <2>9
    <3>2. Calm(p, sent)
      BY <2>6, <3>1, RestCalm
    <3>3. Fine(sent) /\ sent.locks = p.locks /\ sent.pressed = q.pressed
      BY <2>4, <3>1 DEF Resent, WebSameBut, WebNames
    <3> QED BY <1>1, <1>3, <2>3, <3>1, <3>2, <3>3 DEF out
  <2>10. CASE r.current = {}
    <3> DEFINE x == W!StopAll(r, restore)
    <3>1. Struct(x) /\ Quiet(x) /\ x.fingers = p.fingers /\ x.over = p.over
      BY <1>1, <2>0, StopAllIs
    <3>2. out = x
      BY <2>1, <2>10
    <3> HIDE DEF x
    <3>3. Calm(p, x) /\ WebGood(x)
      BY <3>1, QuietCalm, QuietIsGood
    <3> QED BY <1>1, <3>1, <3>2, <3>3 DEF out, WebGood, Quiet
  <2> QED BY <2>9, <2>10
<1>4. CASE ~(~p.multi /\ p.locks # {} /\ b) /\ ~(i # None /\ p.pressed[i] # None)
  <2> DEFINE x == W!StopAll(p, restore)
  <2>1. out = x
    BY <1>4 DEF W!Stop
  <2> HIDE DEF restore
  <2>2. Struct(x) /\ Quiet(x) /\ x.fingers = p.fingers /\ x.over = p.over
    BY <1>1, StopAllIs
  <2> HIDE DEF x, out
  <2>3. WebGood(x) /\ Calm(p, x)
    BY <2>2, QuietIsGood, QuietCalm
  <2> QED BY <1>1, <2>1, <2>2, <2>3 DEF out, WebGood, Quiet
<1> QED BY <1>2, <1>3, <1>4

LEMMA StopGood ==
  ASSUME W!ControlsAssumption, NEW p, WebGood(p), NEW i \in W!Inputs \cup {None}, NEW b \in BOOLEAN, NEW suppress \in BOOLEAN
  PROVE  WebGood(W!Stop(p, i, b, suppress))
<1> DEFINE q == W!Stop(p, i, b, suppress)
<1>1. Fine(q) /\ Calm(p, q)
  BY StopIs DEF WebGood
<1> HIDE DEF q
<1>2. WebGood(q)
  BY <1>1, TidyStays DEF WebGood
<1> QED BY <1>2 DEF q

LEMMA StopSafelyIs ==
  ASSUME W!ControlsAssumption, NEW p, Fine(p), NEW respectLock \in BOOLEAN, NEW i \in W!Inputs \cup {None}
  PROVE  LET q == W!StopSafely(p, respectLock, i) IN
         /\ Fine(q) /\ Calm(p, q)
         /\ p.locks = {} /\ i # None => q.pressed[i] = None
<1> DEFINE j == IF i # None /\ p.pressed[i] # None THEN i ELSE None
           q == W!StopSafely(p, respectLock, i)
           x == W!Stop(p, j, FALSE, FALSE)
<1>1. \/ q = p /\ (W!Held(p) = {} \/ p.locks # {} \/ (i # None /\ p.pressed[i] = None))
      \/ q = x
  BY DEF W!StopSafely
<1>2. j \in W!Inputs \cup {None} /\ (j # i => p.pressed[i] = None \/ i = None)
  OBVIOUS
<1> HIDE DEF j, q
<1>3. PICK no \in BOOLEAN : no = FALSE
  OBVIOUS
<1> HIDE DEF x
<1>8. j \in W!Inputs \cup {None}
  BY <1>2
<1>4. /\ Fine(W!Stop(p, j, no, no)) /\ Calm(p, W!Stop(p, j, no, no))
      /\ p.locks = {} /\ j # None => W!Stop(p, j, no, no).pressed[j] = None
  <2>1. PICK k \in W!Inputs \cup {None} : k = j
    BY <1>8
  <2>2. Fine(W!Stop(p, k, no, no)) /\ Calm(p, W!Stop(p, k, no, no))
    BY StopIs
  <2>3. p.locks = {} /\ k # None => W!Stop(p, k, no, no).pressed[k] = None
    BY StopIs
  <2> QED BY <2>1, <2>2, <2>3
<1>0. x = W!Stop(p, j, no, no)
  BY <1>3 DEF x
<1>5. Fine(x) /\ Calm(p, x) /\ (p.locks = {} /\ j # None => x.pressed[j] = None)
  BY <1>0, <1>4
<1>6. CASE q = p /\ (W!Held(p) = {} \/ p.locks # {} \/ (i # None /\ p.pressed[i] = None))
  <2>1. Calm(p, p)
    BY DEF Calm
  <2>2. W!Held(p) = {} /\ i # None => p.pressed[i] = None
    BY DEF W!Held
  <2> QED BY <1>6, <2>1, <2>2 DEF q
<1>7. CASE q = x
  <2>1. ASSUME p.locks = {}, i # None, j # i PROVE x.pressed[i] = None
    <3>1. p.pressed[i] = None /\ j = None
      BY <1>2, <2>1 DEF j
    <3>2. Struct(W!Stop(p, None, FALSE, no)) /\ Quiet(W!Stop(p, None, FALSE, no))
      BY StopNoneIs DEF Fine
    <3>3. x = W!Stop(p, None, FALSE, no)
      BY <1>3, <3>1 DEF x
    <3>4. Quiet(x) /\ i \in W!Inputs
      BY <2>1, <3>2, <3>3
    <3> QED BY <3>4 DEF Quiet
  <2> QED BY <1>5, <1>7, <2>1 DEF q
<1> QED BY <1>1, <1>6, <1>7

LEMMA StopSafelyGood ==
  ASSUME W!ControlsAssumption, NEW p, WebGood(p), NEW respectLock \in BOOLEAN, NEW i \in W!Inputs \cup {None}
  PROVE  WebGood(W!StopSafely(p, respectLock, i))
<1> DEFINE q == W!StopSafely(p, respectLock, i)
<1>1. Fine(q) /\ Calm(p, q)
  BY StopSafelyIs DEF WebGood
<1> HIDE DEF q
<1>2. WebGood(q)
  BY <1>1, TidyStays DEF WebGood
<1> QED BY <1>2 DEF q


(***************************************************************************)
(* Locks.                                                                  *)
(***************************************************************************)
LEMMA WebLockIs ==
  ASSUME NEW p, Struct(p), NEW t
  PROVE  LET q == W!Lock(p, t) IN
         /\ Struct(q) /\ WebSameBut(p, q, {"locks", "suspended", "restore", "races", "reported", "routed"})
         /\ q.locks = (IF p.multi THEN p.locks \cup {t} ELSE {t}) /\ p.races \subseteq q.races
         /\ q.races = {} => p.current \subseteq q.locks
         /\ IF p.talking \/ p.start # W!NoStart THEN q.routed = q.locks ELSE q.reported = FALSE
<1> DEFINE ls == IF p.multi THEN p.locks \cup {t} ELSE {t}
           a == [p EXCEPT !.locks = ls, !.suspended = {}, !.restore = FALSE]
           b == IF a.current \subseteq a.locks THEN a ELSE W!Race(a, "lock")
           q == W!SendPtt(b, a.talking \/ a.start # W!NoStart, a.locks)
<1>0. W!Lock(p, t) = q
  BY DEF W!Lock
<1>1. /\ DOMAIN a = WebNames /\ WebSameBut(p, a, {"locks", "suspended", "restore"}) /\ a.locks = ls
  BY DEF Struct, WebTypes, WebSameBut, WebNames
<1> HIDE DEF a
<1>2. /\ DOMAIN b = WebNames /\ WebSameBut(a, b, {"races"}) /\ a.races \subseteq b.races
      /\ b.races = {} => a.current \subseteq a.locks
  <2>1. CASE a.current \subseteq a.locks
    BY <1>1, <2>1 DEF WebSameBut
  <2>2. CASE ~(a.current \subseteq a.locks)
    BY <1>1, <2>2, RaceIs
  <2> QED BY <2>1, <2>2
<1> HIDE DEF b
<1>3. /\ a.talking = p.talking /\ a.start = p.start /\ a.current = p.current /\ a.races = p.races /\ b.locks = ls
  BY <1>1, <1>2 DEF WebSameBut, WebNames
<1>4. t \in ls /\ ls # {}
  OBVIOUS
<1> HIDE DEF ls
<1>5. /\ DOMAIN q = WebNames /\ WebSameBut(b, q, {"reported", "routed"})
      /\ IF p.talking \/ p.start # W!NoStart THEN q.routed = ls /\ q.reported = TRUE ELSE q.reported = FALSE
  <2>1. CASE p.talking \/ p.start # W!NoStart
    BY <1>1, <1>2, <1>3, <1>4, <2>1 DEF W!SendPtt, WebSameBut, WebNames
  <2>2. CASE ~(p.talking \/ p.start # W!NoStart)
    BY <1>1, <1>2, <1>3, <2>2 DEF W!SendPtt, WebSameBut, WebNames
  <2> QED BY <2>1, <2>2
<1> HIDE DEF q
<1>6. /\ WebSameBut(p, q, {"locks", "suspended", "restore", "races", "reported", "routed"})
      /\ q.locks = ls /\ q.races = b.races /\ q.pressed = p.pressed /\ q.fingers = p.fingers /\ q.over = p.over
  BY <1>1, <1>2, <1>3, <1>5 DEF WebSameBut, WebNames
<1>7. Struct(q)
  <2>1. WebSameBut(p, q, WebNames \ Machine)
    BY <1>6 DEF WebSameBut, WebNames, Machine
  <2>2. /\ DOMAIN q.pressed = W!Inputs /\ DOMAIN q.fingers = Pointers /\ q.reported \in BOOLEAN
        /\ \A j \in Pointers : DOMAIN q.fingers[j] = {"target", "at", "slid", "asks"}
    <3>1. q.reported = TRUE \/ q.reported = FALSE \/ q.reported = p.reported
      BY <1>5
    <3> QED BY <1>6, <3>1 DEF Struct, WebTypes
  <2> QED BY <1>5, <2>1, <2>2, StructStays
<1>8. q.races = {} => p.current \subseteq q.locks
  BY <1>1, <1>2, <1>3, <1>6
<1> QED BY <1>0, <1>2, <1>3, <1>5, <1>6, <1>7, <1>8 DEF ls

LEMMA UnlockIs == ASSUME NEW p, WebGood(p), NEW t PROVE WebGood(W!Unlock(p, t))
<1> DEFINE q == [p EXCEPT !.locks = @ \ {t}]
           r == W!SetCurrent(q, W!Wanted(q))
           sent == W!SendPtt(W!SendTargets(r, r.current), TRUE, r.current)
           out == W!Unlock(p, t)
<1>1. out = IF r.current # {} THEN sent ELSE W!Stop(r, None, FALSE, TRUE)
  BY DEF W!Unlock
<1>2. DOMAIN q = WebNames /\ WebSameBut(p, q, {"locks"}) /\ q.locks = p.locks \ {t}
  BY DEF WebGood, Fine, Struct, WebTypes, WebSameBut, WebNames
<1> HIDE DEF q, out
<1>3. /\ q.pressed = p.pressed /\ q.fingers = p.fingers /\ q.over = p.over /\ WebSameBut(p, q, {"pressed", "locks"})
  BY <1>2 DEF WebSameBut, WebNames
<1>4. Calm(p, q) /\ W!Wanted(q) \subseteq W!Wanted(p) /\ DOMAIN q.pressed = W!Inputs
  BY <1>2, <1>3 DEF WebGood, Fine, Struct, WebTypes, Calm, W!Wanted, W!Held
<1>5. PICK yes \in BOOLEAN : yes = TRUE
  OBVIOUS
<1>0. r = W!SetCurrent(q, W!Wanted(q)) /\ sent = W!SendPtt(W!SendTargets(r, r.current), TRUE, r.current)
  OBVIOUS
<1> HIDE DEF r, sent
<1>6. Struct(r) /\ (r.current # {} => Resent(q, sent))
  BY <1>0, <1>2, <1>3, <1>4, RestIs DEF WebGood
<1>7. WebGood(W!Stop(r, None, FALSE, TRUE))
  <2>2. Struct(W!Stop(r, None, FALSE, yes)) /\ Quiet(W!Stop(r, None, FALSE, yes))
    BY <1>6, StopNoneIs
  <2> QED BY <1>5, <2>2, QuietIsGood
<1>8. ASSUME r.current # {} PROVE WebGood(sent)
  <2>1. Resent(q, sent)
    BY <1>6, <1>8
  <2>2. Calm(p, sent)
    BY <1>4, <2>1, RestCalm
  <2> QED BY <2>1, <2>2, TidyStays DEF WebGood, Resent
<1> QED BY <1>1, <1>7, <1>8 DEF out

\* The end of the talk without an input.
LEMMA WebLetGo ==
  ASSUME NEW p, Struct(p), NEW suppress \in BOOLEAN PROVE WebGood(W!Stop(p, None, FALSE, suppress))
<1>1. Struct(W!Stop(p, None, FALSE, suppress)) /\ Quiet(W!Stop(p, None, FALSE, suppress))
  BY StopNoneIs
<1> QED BY <1>1, QuietIsGood

\* A lock is set, and its target talked to.
LEMMA LockAndTalk ==
  ASSUME W!ControlsAssumption, NEW p, WebGood(p), NEW t \in TalkTargets PROVE WebGood(W!Talk(W!Lock(p, t), None, t))
<1> DEFINE q == W!Lock(p, t)
<1>1. /\ Struct(q) /\ WebSameBut(p, q, {"locks", "suspended", "restore", "races", "reported", "routed"})
      /\ t \in q.locks /\ p.races \subseteq q.races
  BY WebLockIs DEF WebGood, Fine
<1> HIDE DEF q
<1>2. /\ q.talking = p.talking /\ q.producer = p.producer /\ q.start = p.start /\ q.pressed = p.pressed
      /\ q.fingers = p.fingers /\ q.over = p.over
  BY <1>1 DEF WebSameBut, WebNames
<1>3. Sync(q) /\ TidyBut(q, None)
  BY <1>1, <1>2 DEF WebGood, Fine, Sync, Tidy, TidyBut
<1>4. None \in W!Inputs \cup {None} /\ None \notin Pointers
  BY DEF W!ControlsAssumption, W!Inputs
<1>6. WebGood(W!Talk(q, None, t))
  BY <1>1, <1>3, <1>4, TalkIs
<1> QED BY <1>6 DEF q

LEMMA WebToggleIs ==
  ASSUME W!ControlsAssumption, NEW p, WebGood(p), NEW t \in TalkTargets PROVE WebGood(W!Toggle(p, t))
<1>1. Struct(p) /\ FALSE \in BOOLEAN
  BY DEF WebGood, Fine
<1>2. CASE t \in p.locks
  <2>1. W!Toggle(p, t) = W!Unlock(p, t) \/ W!Toggle(p, t) = W!Stop(p, None, FALSE, FALSE)
    BY <1>2 DEF W!Toggle
  <2> QED BY <1>1, <1>2, <2>1, UnlockIs, WebLetGo
<1>3. CASE t \notin p.locks
  <2> DEFINE q == IF ~p.multi /\ (p.locks # {} \/ p.producer # "none") THEN W!Stop(p, None, FALSE, FALSE) ELSE p
  <2>1. W!Toggle(p, t) = W!Talk(W!Lock(q, t), None, t)
    BY <1>3 DEF W!Toggle
  <2>2. WebGood(q)
    BY <1>1, WebLetGo
  <2> HIDE DEF q
  <2> QED BY <2>1, <2>2, LockAndTalk
<1> QED BY <1>2, <1>3


(***************************************************************************)
(* Every step keeps a good page.                                           *)
(***************************************************************************)
LEMMA WebInitIs == ASSUME W!Init PROVE WebIInv
<1>1. PICK warm \in {"none", "mic"}, multi \in BOOLEAN :
       page = [pressed |-> [i \in W!Inputs |-> None], locks |-> {}, suspended |-> {}, restore |-> FALSE,
               current |-> {}, talking |-> FALSE, start |-> W!NoStart, warm |-> warm, waiting |-> <<>>,
               producer |-> "none", multi |-> multi, voice |-> FALSE, inhibited |-> FALSE,
               refresh |-> FALSE, fingers |-> [i \in Pointers |-> W!NoFinger], rows |-> [t \in TalkTargets |-> "none"],
               remote |-> {}, shown |-> TalkTargets, acks |-> <<>>, served |-> "none", routed |-> {},
               reported |-> FALSE, races |-> {}, over |-> FALSE]
  BY DEF W!Init
<1>2. /\ DOMAIN page = WebNames /\ page.pressed = [i \in W!Inputs |-> None] /\ page.locks = {} /\ page.current = {}
      /\ page.talking = FALSE /\ page.start = W!NoStart /\ page.warm \in {"none", "mic"} /\ page.waiting = <<>>
      /\ page.producer = "none" /\ page.fingers = [i \in Pointers |-> W!NoFinger] /\ page.acks = <<>>
      /\ page.served = "none" /\ page.routed = {} /\ page.reported = FALSE /\ page.remote = {}
  BY <1>1 DEF WebNames
<1>3. WebTypes(page)
  <2>1. DOMAIN page.pressed = W!Inputs /\ DOMAIN page.fingers = Pointers
    BY <1>2
  <2>2. \A i \in Pointers : DOMAIN page.fingers[i] = {"target", "at", "slid", "asks"}
    BY <1>2 DEF W!NoFinger
  <2>3. DOMAIN page.start = {"stage", "canceled", "targets"} /\ page.start.canceled = FALSE
    BY <1>2 DEF W!NoStart
  <2> QED BY <1>2, <2>1, <2>2, <2>3 DEF WebTypes
<1>4. Making(page)
  BY <1>2 DEF Making, W!NoStart
<1>5. <<>> \in Seq({}) /\ Len(<<>>) = 0
  OBVIOUS
<1>6. Queued(page) /\ Answers(page)
  BY <1>2, <1>5 DEF Queued, Answers, IsSeq, One, Acked
<1>7. Quiet(page)
  BY <1>2 DEF Quiet, Starting
<1> QED BY <1>3, <1>4, <1>6, <1>7, QuietIsGood DEF Struct, WebIInv

\* As GoodStays, with the fingers where they are.
LEMMA SettingsStay ==
  ASSUME NEW p, NEW q, WebGood(p), DOMAIN q = WebNames, WebSameBut(p, q, Settings), p.races \subseteq q.races
  PROVE  WebGood(q)
<1>1. q.fingers = p.fingers /\ q.over = p.over /\ q.pressed = p.pressed
  BY DEF WebSameBut, WebNames, Settings
<1>2. /\ DOMAIN q.fingers = Pointers /\ \A i \in Pointers : DOMAIN q.fingers[i] = {"target", "at", "slid", "asks"}
      /\ Tidy(q)
  BY <1>1 DEF WebGood, Fine, Struct, WebTypes, Tidy
<1>3. WebSameBut(p, q, Settings \cup {"fingers", "over"})
  BY DEF WebSameBut
<1>4. Fine(q)
  BY <1>2, <1>3, FineStays DEF WebGood
<1> QED BY <1>2, <1>4 DEF WebGood

\* The page with a finger put on a button or row, or taken from it, or moved.
LEMMA WebFingerIs ==
  ASSUME NEW p, Fine(p), Tidy(p), NEW i \in Pointers, NEW f, DOMAIN f = {"target", "at", "slid", "asks"},
         NEW q, DOMAIN q = WebNames, WebSameBut(p, q, {"fingers", "over", "rows"}), q.fingers = [p.fingers EXCEPT ![i] = f],
         p.over => q.over
  PROVE  /\ Fine(q) /\ Sync(q) /\ TidyBut(q, i) /\ q.fingers[i] = f /\ q.locks = p.locks /\ q.multi = p.multi
         /\ q.pressed = p.pressed
         /\ f.asks = p.fingers[i].asks \/ p.pressed[i] = None => WebGood(q)
<1>1. DOMAIN q.fingers = Pointers /\ \A j \in Pointers : q.fingers[j] = IF j = i THEN f ELSE p.fingers[j]
  BY DEF Fine, Struct, WebTypes
<1>2. q.pressed = p.pressed /\ q.races = p.races /\ q.locks = p.locks /\ q.multi = p.multi
  BY DEF WebSameBut, WebNames
<1>3. \A j \in Pointers : DOMAIN q.fingers[j] = {"target", "at", "slid", "asks"}
  BY <1>1 DEF Fine, Struct, WebTypes
<1>4. Fine(q)
  <2>1. WebSameBut(p, q, Settings \cup {"fingers", "over"})
    BY DEF WebSameBut, Settings
  <2> QED BY <1>1, <1>2, <1>3, <2>1, FineStays
<1>5. TidyBut(q, i)
  BY <1>1, <1>2 DEF Tidy, TidyBut
<1>6. ASSUME f.asks = p.fingers[i].asks \/ p.pressed[i] = None PROVE WebGood(q)
  <2>1. Tidy(q)
    BY <1>1, <1>2, <1>6 DEF Tidy
  <2> QED BY <1>4, <2>1 DEF WebGood
<1> QED BY <1>1, <1>2, <1>4, <1>5, <1>6 DEF Fine

LEMMA WebPressKeeps ==
  ASSUME W!ControlsAssumption, WebIInv, NEW i \in Pointers, NEW t \in TalkTargets, W!Press(i, t) PROVE WebIInv'
<1>1. PICK at \in {"button", "row", "reply"} : page' = W!Pressed(i, t, at)
  BY DEF W!Press
<1> DEFINE f == [target |-> t, at |-> at, slid |-> FALSE, asks |-> TRUE]
           g == [target |-> t, at |-> (IF at = "row" THEN at ELSE "nothing"), slid |-> FALSE, asks |-> FALSE]
           p == [page EXCEPT !.fingers[i] = f, !.rows[t] = IF at = "row" THEN "pressed" ELSE @]
           q == [page EXCEPT !.fingers[i] = g]
<1>2. /\ DOMAIN f = {"target", "at", "slid", "asks"} /\ f.asks = TRUE
      /\ DOMAIN g = {"target", "at", "slid", "asks"} /\ g.asks = FALSE
  OBVIOUS
<1>3. W!Pressed(i, t, at) =
        IF at = "reply" THEN W!Talk(p, i, t)
        ELSE IF t \in p.locks THEN IF p.multi THEN W!Unlock(q, t) ELSE W!Stop(q, None, FALSE, FALSE)
        ELSE IF p.locks # {} /\ ~p.multi
        THEN W!Talk(W!Stop(W!Suspend(p), None, FALSE, TRUE), i, t)
        ELSE W!Talk(p, i, t)
  BY DEF W!Pressed
<1> HIDE DEF f, g
<1>a. WebGood(page) /\ DOMAIN page = WebNames
  BY DEF WebIInv, WebGood, Fine, Struct, WebTypes
<1>b. /\ DOMAIN p = WebNames /\ WebSameBut(page, p, {"fingers", "over", "rows"}) /\ p.over = page.over
      /\ p.fingers = [page.fingers EXCEPT ![i] = f]
  BY <1>a DEF WebSameBut, WebNames
<1>c. /\ DOMAIN q = WebNames /\ WebSameBut(page, q, {"fingers", "over", "rows"}) /\ q.over = page.over
      /\ q.fingers = [page.fingers EXCEPT ![i] = g]
  BY <1>a DEF WebSameBut, WebNames
<1> HIDE DEF p, q
<1>4. /\ Fine(p) /\ Sync(p) /\ TidyBut(p, i) /\ p.fingers[i] = f /\ p.locks = page.locks /\ p.multi = page.multi
  BY <1>2, <1>a, <1>b, WebFingerIs DEF WebGood
<1>5. WebGood(q)
  <2>1. ~page.over => page.pressed[i] = None
    <3>1. page.fingers[i] = W!NoFinger /\ W!NoFinger.asks = FALSE
      BY DEF W!Press, W!NoFinger
    <3> QED BY <1>a, <3>1 DEF WebGood, Tidy
  <2>2. CASE page.over
    <3>1. Fine(q)
      BY <1>2, <1>a, <1>c, WebFingerIs DEF WebGood
    <3> QED BY <1>c, <2>2, <3>1 DEF WebGood, Tidy
  <2>3. CASE ~page.over
    BY <1>2, <1>a, <1>c, <2>1, <2>3, WebFingerIs DEF WebGood
  <2> QED BY <2>2, <2>3
<1>6. i \in W!Inputs \cup {None} /\ i # None
  BY DEF W!ControlsAssumption, W!Inputs
<1>7. ASSUME WebGood(W!Talk(p, i, t)), WebGood(W!Unlock(q, t)), WebGood(W!Stop(q, None, FALSE, FALSE)),
             WebGood(W!Talk(W!Stop(W!Suspend(p), None, FALSE, TRUE), i, t))
      PROVE  WebGood(page')
  BY <1>1, <1>3, <1>7
<1>8. WebGood(W!Talk(W!Stop(W!Suspend(p), None, FALSE, TRUE), i, t))
  <2> DEFINE a == [p EXCEPT !.suspended = p.locks]
             c == W!Suspend(p)
             d == W!Stop(c, None, FALSE, TRUE)
  <2>1. DOMAIN a = WebNames /\ WebSameBut(p, a, {"suspended"})
    BY <1>b DEF WebSameBut, WebNames
  <2>2. c = W!ClearLocks(a)
    BY DEF W!Suspend
  <2> HIDE DEF a, c
  <2>3. /\ WebSameBut(p, a, WebNames \ Machine) /\ a.pressed = p.pressed /\ a.fingers = p.fingers
        /\ a.reported = p.reported
    BY <2>1 DEF WebSameBut, WebNames, Machine
  <2>4. Struct(a)
    <3>1. a.reported \in BOOLEAN
      BY <1>4, <2>3 DEF Fine, Struct, WebTypes
    <3>2. Struct(p) /\ DOMAIN a = WebNames
      BY <1>4, <2>1 DEF Fine
    <3>3. a.over = p.over
      BY <2>1 DEF WebSameBut, WebNames
    <3> QED BY <2>3, <3>1, <3>2, <3>3, StructKept
  <2>5. Struct(c) /\ WebSameBut(a, c, {"locks", "reported", "routed"})
    BY <2>2, <2>4, ClearLocksIs
  <2>6. PICK yes \in BOOLEAN : yes = TRUE
    OBVIOUS
  <2>7. /\ Struct(W!Stop(c, None, FALSE, yes)) /\ Quiet(W!Stop(c, None, FALSE, yes))
        /\ W!Stop(c, None, FALSE, yes).fingers = c.fingers
    BY <2>5, StopNoneIs
  <2>8. Struct(d) /\ Quiet(d) /\ d.fingers = c.fingers
    BY <2>6, <2>7
  <2> HIDE DEF d
  <2>9. d.fingers = p.fingers
    BY <2>3, <2>5, <2>8 DEF WebSameBut, WebNames
  <2>10. WebGood(d)
    BY <2>8, QuietIsGood
  <2>11. Sync(d) /\ TidyBut(d, i)
    BY <2>10 DEF WebGood, Fine, Tidy, TidyBut
  <2>12. WebGood(W!Talk(d, i, t))
    BY <1>2, <1>4, <1>6, <2>8, <2>9, <2>11, TalkIs
  <2> QED BY <2>12 DEF d, c
<1>9. WebGood(W!Talk(p, i, t))
  BY <1>2, <1>4, <1>6, TalkIs DEF Fine
<1>10. WebGood(W!Unlock(q, t))
  BY <1>5, UnlockIs
<1>11. WebGood(W!Stop(q, None, FALSE, FALSE))
  <2>1. Struct(q) /\ FALSE \in BOOLEAN
    BY <1>5 DEF WebGood, Fine
  <2> QED BY <2>1, WebLetGo
<1> QED BY <1>7, <1>8, <1>9, <1>10, <1>11 DEF WebIInv

LEMMA WebSlideKeeps ==
  ASSUME W!ControlsAssumption, WebIInv, NEW i \in Pointers, W!SlideToLock(i) PROVE WebIInv'
<1> DEFINE f == page.fingers[i]
           t == f.target
           a == IF page.pressed[i] # t THEN W!Race(page, "slide") ELSE page
           b == [a EXCEPT !.fingers[i].slid = TRUE]
           c == [a EXCEPT !.rows[t] = "slid"]
<1>1. PICK x \in {b, c} : page' = W!Lock(x, t)
  BY DEF W!SlideToLock
<1>b. t \in TalkTargets
  BY DEF W!SlideToLock
<1>2. WebGood(page) /\ DOMAIN page = WebNames
  BY DEF WebIInv, WebGood, Fine, Struct, WebTypes
<1>3. /\ DOMAIN a = WebNames /\ WebSameBut(page, a, {"races"}) /\ page.races \subseteq a.races
      /\ a.races = {} => page.pressed[i] = t
  <2>1. CASE page.pressed[i] # t
    BY <1>2, <2>1, RaceIs
  <2>2. CASE page.pressed[i] = t
    BY <1>2, <2>2 DEF WebSameBut
  <2> QED BY <2>1, <2>2
<1> HIDE DEF a
<1>4. WebGood(a)
  <2>1. WebSameBut(page, a, Settings)
    BY <1>3 DEF WebSameBut, Settings
  <2> QED BY <1>2, <1>3, <2>1, SettingsStay
<1>5. DOMAIN a.fingers = Pointers /\ DOMAIN a.fingers[i] = {"target", "at", "slid", "asks"}
  BY <1>4 DEF WebGood, Fine, Struct, WebTypes
<1>6. WebGood(b) /\ b.races = a.races /\ b.pressed = page.pressed
  <2> DEFINE g == [a.fingers[i] EXCEPT !.slid = TRUE]
  <2>1. /\ DOMAIN b = WebNames /\ WebSameBut(a, b, {"fingers", "over", "rows"}) /\ b.over = a.over
        /\ b.fingers = [a.fingers EXCEPT ![i] = g]
    BY <1>3, <1>5 DEF WebSameBut, WebNames
  <2>2. DOMAIN g = {"target", "at", "slid", "asks"} /\ g.asks = a.fingers[i].asks
    BY <1>5
  <2> HIDE DEF b, g
  <2>3. WebGood(b)
    BY <1>4, <2>1, <2>2, WebFingerIs DEF WebGood
  <2> QED BY <1>3, <2>1, <2>3 DEF WebSameBut, WebNames
<1>7. WebGood(c) /\ c.races = a.races /\ c.pressed = page.pressed
  <2>1. DOMAIN c = WebNames /\ WebSameBut(a, c, {"rows"})
    BY <1>3 DEF WebSameBut, WebNames
  <2> HIDE DEF c
  <2>2. WebSameBut(a, c, Settings) /\ c.races = a.races /\ c.pressed = a.pressed
    BY <2>1 DEF WebSameBut, Settings, WebNames
  <2>3. WebGood(c)
    BY <1>4, <2>1, <2>2, SettingsStay
  <2> QED BY <1>3, <2>2, <2>3 DEF WebSameBut, WebNames
<1>8. WebGood(x) /\ (x.races = {} => x.pressed[i] = t)
  BY <1>3, <1>6, <1>7
<1> HIDE DEF b, c, t
<1> DEFINE q == W!Lock(x, t)
<1>10. /\ Struct(q) /\ WebSameBut(x, q, {"locks", "suspended", "restore", "races", "reported", "routed"})
       /\ q.locks = (IF x.multi THEN x.locks \cup {t} ELSE {t}) /\ x.races \subseteq q.races
       /\ q.races = {} => x.current \subseteq q.locks
       /\ IF x.talking \/ x.start # W!NoStart THEN q.routed = q.locks ELSE q.reported = FALSE
  BY <1>8, WebLockIs DEF WebGood, Fine
<1> HIDE DEF q
<1>11. /\ q.pressed = x.pressed /\ q.fingers = x.fingers /\ q.over = x.over /\ q.current = x.current
       /\ q.talking = x.talking /\ q.remote = x.remote
       /\ q.start = x.start /\ q.producer = x.producer /\ q.waiting = x.waiting
  BY <1>10 DEF WebSameBut, WebNames
<1>12. t \in q.locks /\ t \in W!Addressees(q) /\ W!Held(q) = W!Held(x)
  BY <1>10, <1>11 DEF W!Addressees, W!Wanted, W!Held
<1>13. NotAlone(q)
  BY <1>12 DEF NotAlone
<1>14. Sync(q)
  BY <1>8, <1>10, <1>11 DEF WebGood, Fine, Sync
<1>15. Addressed(q)
  <2>1. ASSUME q.races = {} PROVE x.races = {}
    BY <1>10, <2>1
  <2>2. ASSUME q.races = {} PROVE x.current = W!Addressees(x) /\ x.current \subseteq q.locks
    BY <1>8, <1>10, <2>1, <2>2 DEF WebGood, Fine, Addressed
  <2>3. ASSUME q.races = {} PROVE t \in x.current
    <3>1. (x.pressed[i] = t /\ i \in W!Inputs /\ t # None) \/ t = None
      BY <1>8, <2>1, <2>3 DEF W!Inputs
    <3>2. t # None
      BY <1>b DEF W!ControlsAssumption
    <3> QED BY <1>8, <2>1, <2>2, <2>3, <3>1, <3>2 DEF W!Addressees, W!Wanted, W!Held
  <2>4. ASSUME q.races = {} PROVE q.current = W!Addressees(q) /\ q.current = q.locks /\ q.current # {}
    <3>1. q.locks \subseteq x.current
      BY <1>10, <2>2, <2>3, <2>4 DEF W!Addressees, W!Wanted
    <3> QED BY <1>10, <1>11, <1>12, <2>2, <2>3, <2>4, <3>1 DEF W!Addressees, W!Wanted
  <2> QED BY <1>8, <1>10, <1>11, <2>1, <2>4 DEF WebGood, Fine, Addressed, Starting
<1>16. Tidy(q)
  BY <1>8, <1>11 DEF WebGood, Tidy
<1> QED BY <1>1, <1>10, <1>13, <1>14, <1>15, <1>16 DEF WebGood, Fine, WebIInv, q


LEMMA RaceGood == ASSUME NEW p, WebGood(p), NEW name PROVE WebGood(W!Race(p, name))
<1> DEFINE q == W!Race(p, name)
<1>1. DOMAIN q = WebNames /\ WebSameBut(p, q, {"races"}) /\ q.races = p.races \cup {name}
  BY RaceIs DEF WebGood, Fine, Struct, WebTypes
<1> HIDE DEF q
<1>2. WebSameBut(p, q, Settings)
  BY <1>1 DEF WebSameBut, Settings
<1>3. WebGood(q)
  BY <1>1, <1>2, SettingsStay
<1> QED BY <1>3 DEF q

LEMMA WebReleaseKeeps ==
  ASSUME W!ControlsAssumption, WebIInv, NEW i \in Pointers, W!Release(i) PROVE WebIInv'
<1> DEFINE f == page.fingers[i]
           over == page.over \/ page.locks # {}
           p == [page EXCEPT !.fingers[i] = W!NoFinger, !.over = over]
           r == [p EXCEPT !.rows[f.target] = "none"]
           a == W!Heeds(p, i, f)
           q == W!StopSafely(a, TRUE, i)
<1>1. page' = q /\ WebGood(page) /\ DOMAIN page = WebNames
  BY DEF W!Release, WebIInv, WebGood, Fine, Struct, WebTypes
<1>2. PICK other \in BOOLEAN : other = (f.at = "reply" \/ f.target \notin p.locks)
  OBVIOUS
<1>3. PICK yes \in BOOLEAN, no \in BOOLEAN : yes = TRUE /\ no = FALSE
  OBVIOUS
<1>4. a \in {p, W!Stop(r, i, yes, no), W!Stop(p, i, other, no)}
  BY <1>2, <1>3 DEF W!Heeds
<1>5. /\ DOMAIN p = WebNames /\ WebSameBut(page, p, {"fingers", "over", "rows"})
      /\ p.fingers = [page.fingers EXCEPT ![i] = W!NoFinger] /\ p.over = over
  BY <1>1 DEF WebSameBut, WebNames
<1> HIDE DEF p
<1>6. Fine(p) /\ TidyBut(p, i) /\ p.locks = page.locks
  <2> DEFINE g == W!NoFinger
  <2>1. DOMAIN g = {"target", "at", "slid", "asks"}
    BY DEF W!NoFinger
  <2> HIDE DEF g
  <2>2. p.fingers = [page.fingers EXCEPT ![i] = g] /\ (page.over => p.over)
    BY <1>5 DEF g
  <2> QED BY <1>1, <1>5, <2>1, <2>2, WebFingerIs DEF WebGood
<1>7. DOMAIN r = WebNames /\ WebSameBut(p, r, {"rows"})
  BY <1>5 DEF WebSameBut, WebNames
<1> HIDE DEF r
<1>8. Fine(r) /\ Calm(p, r) /\ r.locks = p.locks
  <2>1. WebSameBut(p, r, Settings \cup {"fingers", "over"}) /\ r.fingers = p.fingers /\ r.over = p.over /\ r.races = p.races
        /\ r.pressed = p.pressed /\ r.locks = p.locks
    BY <1>7 DEF WebSameBut, Settings, WebNames
  <2>2. /\ DOMAIN r.fingers = Pointers
        /\ \A j \in Pointers : DOMAIN r.fingers[j] = {"target", "at", "slid", "asks"}
    BY <1>6, <2>1 DEF Fine, Struct, WebTypes
  <2>3. Fine(r)
    BY <1>6, <1>7, <2>1, <2>2, FineStays
  <2> QED BY <2>1, <2>3 DEF Calm
<1>9. i \in W!Inputs \cup {None} /\ i # None
  BY DEF W!ControlsAssumption, W!Inputs
<1>10. Fine(a) /\ Calm(p, a) /\ (p.locks = {} => a.locks = {})
  <2>1. LET x == W!Stop(r, i, yes, no) IN Fine(x) /\ Calm(r, x) /\ (r.locks = {} => x.locks = {})
    BY <1>8, <1>9, StopIs
  <2>2. LET x == W!Stop(p, i, other, no) IN Fine(x) /\ Calm(p, x) /\ (p.locks = {} => x.locks = {})
    BY <1>6, <1>9, StopIs
  <2>3. \A x : Calm(r, x) => Calm(p, x)
    BY <1>8 DEF Calm
  <2>4. Calm(p, p)
    BY DEF Calm
  <2> HIDE DEF a
  <2> QED BY <1>4, <1>6, <1>8, <2>1, <2>2, <2>3, <2>4
<1> HIDE DEF a
<1>11. Fine(q) /\ Calm(a, q) /\ (a.locks = {} => q.pressed[i] = None)
  <2>1. LET x == W!StopSafely(a, yes, i) IN Fine(x) /\ Calm(a, x) /\ (a.locks = {} /\ i # None => x.pressed[i] = None)
    BY <1>9, <1>10, StopSafelyIs
  <2> QED BY <1>3, <1>9, <2>1
<1> HIDE DEF q
<1>12. Calm(p, q)
  BY <1>10, <1>11 DEF Calm
<1>13. Tidy(q)
  <2>1. ~q.over => q.pressed[i] = None
    BY <1>5, <1>6, <1>10, <1>11, <1>12 DEF Calm
  <2>2. ~q.over => \A j \in Pointers \ {i} : ~q.fingers[j].asks => q.pressed[j] = None
    BY <1>6, <1>12 DEF Calm, TidyBut
  <2> QED BY <2>1, <2>2 DEF Tidy
<1> QED BY <1>1, <1>11, <1>13 DEF WebIInv, WebGood

LEMMA PressByOther ==
  ASSUME W!ControlsAssumption, NEW p, WebGood(p), NEW i \in KeyInputs \cup {Voice}, NEW t \in TalkTargets
  PROVE  WebGood(W!Talk(p, i, t))
<1>1. i \in W!Inputs /\ i \notin Pointers /\ i # None
  BY DEF W!ControlsAssumption, W!Inputs
<1>2. Struct(p) /\ Sync(p) /\ TidyBut(p, i)
  BY DEF WebGood, Fine, Tidy, TidyBut
<1> QED BY <1>1, <1>2, TalkIs

LEMMA KeyPressKeeps ==
  ASSUME W!ControlsAssumption, WebIInv, NEW i \in KeyInputs, NEW t \in TalkTargets, W!KeyPress(i, t) PROVE WebIInv'
  BY PressByOther DEF W!KeyPress, WebIInv

LEMMA KeyReleaseKeeps ==
  ASSUME W!ControlsAssumption, WebIInv, NEW i \in KeyInputs, W!KeyRelease(i) PROVE WebIInv'
<1>1. page' = W!Stop(page, i, FALSE, FALSE) /\ i \in W!Inputs \cup {None} /\ WebGood(page)
  BY DEF W!KeyRelease, W!Inputs, WebIInv
<1>2. PICK no \in BOOLEAN : no = FALSE
  OBVIOUS
<1>3. WebGood(W!Stop(page, i, no, no))
  BY <1>1, StopGood
<1> QED BY <1>1, <1>2, <1>3 DEF WebIInv

LEMMA PressCommandKeeps ==
  ASSUME W!ControlsAssumption, WebIInv, NEW t \in TalkTargets, W!PressCommand(t) PROVE WebIInv'
<1> DEFINE q == [page EXCEPT !.remote = {t}]
<1>1. page' = W!Talk(q, None, t) /\ WebGood(page)
  BY DEF W!PressCommand, WebIInv
<1>2. DOMAIN q = WebNames /\ WebSameBut(page, q, {"remote"}) /\ q.remote = {t}
  BY <1>1 DEF WebGood, Fine, Struct, WebTypes, WebSameBut, WebNames
<1> HIDE DEF q
<1>3. /\ WebSameBut(page, q, WebNames \ Machine) /\ q.pressed = page.pressed /\ q.fingers = page.fingers
      /\ q.over = page.over /\ q.reported = page.reported /\ q.talking = page.talking /\ q.producer = page.producer
      /\ q.start = page.start /\ q.races = page.races
  BY <1>2 DEF WebSameBut, WebNames, Machine
<1>4. Struct(q)
  <2>1. q.reported \in BOOLEAN /\ Struct(page)
    BY <1>1, <1>3 DEF WebGood, Fine, Struct, WebTypes
  <2> QED BY <1>2, <1>3, <2>1, StructKept
<1>5. Sync(q) /\ TidyBut(q, None)
  BY <1>1, <1>3 DEF WebGood, Fine, Sync, Tidy, TidyBut
<1>6. None \in W!Inputs \cup {None} /\ None \notin Pointers
  BY DEF W!ControlsAssumption, W!Inputs
<1>7. WebGood(W!Talk(q, None, t))
  BY <1>2, <1>4, <1>5, <1>6, TalkIs
<1> QED BY <1>1, <1>7 DEF WebIInv

LEMMA ReleaseCommandKeeps == ASSUME W!ControlsAssumption, WebIInv, W!ReleaseCommand PROVE WebIInv'
<1>1. page' = W!Stop(page, None, FALSE, FALSE) /\ Struct(page)
  BY DEF W!ReleaseCommand, WebIInv, WebGood, Fine
<1>2. PICK no \in BOOLEAN : no = FALSE
  OBVIOUS
<1>3. WebGood(W!Stop(page, None, FALSE, no))
  BY <1>1, WebLetGo
<1> QED BY <1>1, <1>2, <1>3 DEF WebIInv

LEMMA LockToggleKeeps ==
  ASSUME W!ControlsAssumption, WebIInv, NEW t \in TalkTargets, W!LockToggle(t) PROVE WebIInv'
  BY WebToggleIs DEF W!LockToggle, WebIInv

LEMMA VoiceRisesKeeps ==
  ASSUME W!ControlsAssumption, WebIInv, NEW t \in TalkTargets, W!VoiceRises(t) PROVE WebIInv'
<1> DEFINE q == [page EXCEPT !.voice = TRUE]
<1>1. page' = W!Talk(q, Voice, t) /\ WebGood(page)
  BY DEF W!VoiceRises, WebIInv
<1>2. DOMAIN q = WebNames /\ WebSameBut(page, q, {"voice"}) /\ page.races \subseteq q.races
  BY <1>1 DEF WebGood, Fine, Struct, WebTypes, WebSameBut, WebNames
<1> HIDE DEF q
<1>3. WebSameBut(page, q, Settings)
  BY <1>2 DEF WebSameBut, Settings
<1>4. WebGood(q)
  BY <1>1, <1>2, <1>3, SettingsStay
<1> QED BY <1>1, <1>4, PressByOther DEF WebIInv

LEMMA VoiceFallsKeeps == ASSUME W!ControlsAssumption, WebIInv, W!VoiceFalls PROVE WebIInv'
<1> DEFINE q == [page EXCEPT !.voice = FALSE]
           r == [page EXCEPT !.inhibited = FALSE]
<1>1. page' \in {W!Stop(q, Voice, FALSE, TRUE), r} /\ WebGood(page)
  BY DEF W!VoiceFalls, WebIInv
<1>2. /\ DOMAIN q = WebNames /\ WebSameBut(page, q, {"voice"}) /\ page.races \subseteq q.races
      /\ DOMAIN r = WebNames /\ WebSameBut(page, r, {"inhibited"}) /\ page.races \subseteq r.races
  BY <1>1 DEF WebGood, Fine, Struct, WebTypes, WebSameBut, WebNames
<1> HIDE DEF q, r
<1>3. /\ WebSameBut(page, q, Settings)
      /\ WebSameBut(page, r, Settings)
  BY <1>2 DEF WebSameBut, Settings
<1>4. WebGood(q) /\ WebGood(r)
  BY <1>1, <1>2, <1>3, SettingsStay
<1>5. Voice \in W!Inputs \cup {None}
  BY DEF W!Inputs
<1>6. WebGood(W!Stop(q, Voice, FALSE, TRUE))
  <2>1. PICK yes \in BOOLEAN, no \in BOOLEAN : yes = TRUE /\ no = FALSE
    OBVIOUS
  <2>2. WebGood(W!Stop(q, Voice, no, yes))
    BY <1>4, <1>5, StopGood
  <2> QED BY <2>1, <2>2
<1> QED BY <1>1, <1>4, <1>6 DEF WebIInv

LEMMA ForceStopKeeps == ASSUME W!ControlsAssumption, WebIInv, W!ForceStop PROVE WebIInv'
<1> DEFINE q == [page EXCEPT !.suspended = {}, !.restore = FALSE, !.voice = FALSE, !.inhibited = TRUE]
<1>1. page' = W!Stop(q, None, FALSE, TRUE) /\ WebGood(page)
  BY DEF W!ForceStop, WebIInv
<1>2. DOMAIN q = WebNames /\ WebSameBut(page, q, {"suspended", "restore", "voice", "inhibited"}) /\ page.races \subseteq q.races
  BY <1>1 DEF WebGood, Fine, Struct, WebTypes, WebSameBut, WebNames
<1> HIDE DEF q
<1>3. WebSameBut(page, q, Settings)
  BY <1>2 DEF WebSameBut, Settings
<1>4. WebGood(q)
  BY <1>1, <1>2, <1>3, SettingsStay
<1>5. Struct(q) /\ TRUE \in BOOLEAN
  BY <1>4 DEF WebGood, Fine
<1>6. WebGood(W!Stop(q, None, FALSE, TRUE))
  BY <1>5, WebLetGo
<1> QED BY <1>1, <1>6 DEF WebIInv

LEMMA WebBlurKeeps == ASSUME W!ControlsAssumption, WebIInv, W!Blur PROVE WebIInv'
<1>1. PICK respectLock \in BOOLEAN : page' = W!StopSafely(page, respectLock, None)
  BY DEF W!Blur
<1>2. None \in W!Inputs \cup {None} /\ WebGood(page)
  BY DEF WebIInv
<1>3. WebGood(W!StopSafely(page, respectLock, None))
  BY <1>2, StopSafelyGood
<1> QED BY <1>1, <1>3 DEF WebIInv


\* The producer, what is asked and a preparation change, and nothing ceases or
\* begins to be live that should not.
LEMMA LiveStays ==
  ASSUME NEW p, NEW q, WebGood(p), Struct(q), WebSameBut(p, q, {"warm", "served", "acks", "refresh", "producer"}),
         q.producer = "live" => p.producer = "live",
         p.races = {} /\ p.producer = "live" => q.producer = "live"
  PROVE  WebGood(q)
<1>1. /\ q.start = p.start /\ q.waiting = p.waiting /\ q.talking = p.talking /\ q.pressed = p.pressed
      /\ q.locks = p.locks /\ q.remote = p.remote /\ q.current = p.current /\ q.routed = p.routed /\ q.reported = p.reported
      /\ q.races = p.races /\ q.fingers = p.fingers /\ q.over = p.over
  BY DEF WebSameBut, WebNames
<1>2. W!Addressees(q) = W!Addressees(p)
  BY <1>1, AddresseesStay
<1>3. NotAlone(q)
  BY <1>1, <1>2 DEF WebGood, Fine, NotAlone, Starting
<1>4. Sync(q)
  BY <1>1 DEF WebGood, Fine, Sync
<1>5. Addressed(q)
  BY <1>1, <1>2 DEF WebGood, Fine, Addressed, Starting
<1>6. Tidy(q)
  BY <1>1 DEF WebGood, Fine, Tidy
<1> QED BY <1>3, <1>4, <1>5, <1>6 DEF WebGood, Fine

LEMMA WarmGood == ASSUME NEW p, WebGood(p) PROVE WebGood(W!Warm(p))
<1> DEFINE q == W!Warm(p)
<1>1. Struct(q) /\ WebSameBut(p, q, {"warm"})
  BY WarmIs DEF WebGood, Fine
<1> HIDE DEF q
<1>2. WebSameBut(p, q, {"warm", "served", "acks", "refresh", "producer"}) /\ q.producer = p.producer
  BY <1>1 DEF WebSameBut, WebNames
<1>3. WebGood(q)
  BY <1>1, <1>2, LiveStays
<1> QED BY <1>3 DEF q

LEMMA RerenderKeeps == ASSUME W!ControlsAssumption, WebIInv, W!Rerender PROVE WebIInv'
<1>1. PICK shown \in (SUBSET TalkTargets) \ {page.shown} :
       LET p == [page EXCEPT !.shown = shown,
                   !.rows = [t \in TalkTargets |-> "none"],
                   !.fingers = [i \in Pointers |-> W!Rebuilt(page.fingers[i])]]
           q == IF \E k \in KeyInputs : p.pressed[k] # None THEN W!Stop(p, None, FALSE, FALSE) ELSE p
           r == W!SetCurrent([q EXCEPT !.locks = @ \cap shown], W!Wanted([q EXCEPT !.locks = @ \cap shown]))
       IN  page' = IF q.locks \subseteq shown THEN q
                   ELSE IF r.current # {} THEN W!SendTargets(r, r.current)
                   ELSE W!Stop(r, None, FALSE, TRUE)
  BY DEF W!Rerender
<1> DEFINE fs == [i \in Pointers |-> W!Rebuilt(page.fingers[i])]
           p == [page EXCEPT !.shown = shown, !.rows = [t \in TalkTargets |-> "none"], !.fingers = fs]
           q == IF \E k \in KeyInputs : p.pressed[k] # None THEN W!Stop(p, None, FALSE, FALSE) ELSE p
           x == [q EXCEPT !.locks = @ \cap shown]
           r == W!SetCurrent(x, W!Wanted(x))
           sent == W!SendTargets(r, r.current)
<1>2. page' \in {q, IF r.current # {} THEN sent ELSE W!Stop(r, None, FALSE, TRUE)}
  BY <1>1
<1>3. WebGood(page) /\ DOMAIN page = WebNames
  BY DEF WebIInv, WebGood, Fine, Struct, WebTypes
<1>4. DOMAIN p = WebNames /\ WebSameBut(page, p, {"shown", "rows", "fingers"}) /\ p.fingers = fs
  BY <1>3 DEF WebSameBut, WebNames
<1>5. /\ DOMAIN fs = Pointers
      /\ \A i \in Pointers : DOMAIN fs[i] = {"target", "at", "slid", "asks"} /\ fs[i].asks = page.fingers[i].asks
  BY <1>3 DEF WebGood, Fine, Struct, WebTypes, W!Rebuilt
<1> HIDE DEF fs, p
<1>6. WebGood(p)
  <2>1. /\ WebSameBut(page, p, Settings \cup {"fingers", "over"}) /\ p.races = page.races /\ p.over = page.over
        /\ p.pressed = page.pressed
    BY <1>4 DEF WebSameBut, Settings, WebNames
  <2>2. Tidy(p)
    BY <1>3, <1>4, <1>5, <2>1 DEF WebGood, Tidy
  <2>3. Fine(p)
    BY <1>3, <1>4, <1>5, <2>1, FineStays DEF WebGood
  <2> QED BY <2>2, <2>3 DEF WebGood
<1>7. WebGood(q)
  <2>1. Struct(p) /\ FALSE \in BOOLEAN
    BY <1>6 DEF WebGood, Fine
  <2>2. WebGood(W!Stop(p, None, FALSE, FALSE))
    BY <2>1, WebLetGo
  <2> QED BY <1>6, <2>2
<1> HIDE DEF q
<1>8. DOMAIN x = WebNames /\ WebSameBut(q, x, {"locks"}) /\ x.locks = q.locks \cap shown
  BY <1>7 DEF WebGood, Fine, Struct, WebTypes, WebSameBut, WebNames
<1> HIDE DEF x
<1>9. /\ WebSameBut(q, x, {"pressed", "locks"}) /\ x.pressed = q.pressed /\ x.fingers = q.fingers /\ x.over = q.over
      /\ DOMAIN x.pressed = W!Inputs
  BY <1>7, <1>8 DEF WebGood, Fine, Struct, WebTypes, WebSameBut, WebNames
<1>10. Calm(q, x) /\ W!Wanted(x) \subseteq W!Wanted(q)
  BY <1>8, <1>9 DEF Calm, W!Wanted, W!Held
<1>11. PICK yes \in BOOLEAN : yes = TRUE
  OBVIOUS
<1>12. Struct(r) /\ (r.current # {} => Resent(x, sent))
  <2>1. r = W!SetCurrent(x, W!Wanted(x)) /\ sent = W!SendTargets(r, r.current)
    OBVIOUS
  <2> HIDE DEF r, sent
  <2> QED BY <1>7, <1>8, <1>9, <1>10, <2>1, RestIs DEF WebGood
<1> HIDE DEF r, sent
<1>13. ASSUME r.current # {} PROVE WebGood(sent)
  <2>1. Resent(x, sent)
    BY <1>12, <1>13
  <2>2. Calm(q, sent)
    BY <1>10, <2>1, RestCalm
  <2> QED BY <1>7, <2>1, <2>2, TidyStays DEF WebGood, Resent
<1>14. WebGood(W!Stop(r, None, FALSE, TRUE))
  <2>1. WebGood(W!Stop(r, None, FALSE, yes))
    BY <1>12, WebLetGo
  <2> QED BY <1>11, <2>1
<1> QED BY <1>2, <1>7, <1>13, <1>14 DEF WebIInv

LEMMA LockManyKeeps == ASSUME W!ControlsAssumption, WebIInv, W!LockMany PROVE WebIInv'
<1> DEFINE m == [page EXCEPT !.multi = TRUE]
<1>1. page' = m /\ WebGood(page)
  BY DEF W!LockMany, WebIInv
<1>2. DOMAIN m = WebNames /\ WebSameBut(page, m, {"multi"})
  BY <1>1 DEF WebGood, Fine, Struct, WebTypes, WebSameBut, WebNames
<1> HIDE DEF m
<1>3. WebSameBut(page, m, Settings) /\ m.races = page.races
  BY <1>2 DEF WebSameBut, Settings, WebNames
<1>4. WebGood(m)
  BY <1>1, <1>2, <1>3, SettingsStay
<1> QED BY <1>1, <1>4 DEF WebIInv

LEMMA LockOneKeeps == ASSUME W!ControlsAssumption, WebIInv, W!LockOneOnly PROVE WebIInv'
<1>1. PICK kept \in SUBSET page.locks :
       /\ page.locks # {} <=> kept # {} /\ \A t, u \in kept : t = u
       /\ LET p == [page EXCEPT !.multi = FALSE, !.locks = kept]
              q == W!SetCurrent(p, W!Wanted(p))
          IN  page' = IF kept = page.locks THEN p
                      ELSE W!SendPtt(W!SendTargets(q, q.current), q.current # {}, q.current)
  BY DEF W!LockOneOnly
<1> DEFINE m == [page EXCEPT !.multi = FALSE]
           p == [page EXCEPT !.multi = FALSE, !.locks = kept]
           q == W!SetCurrent(p, W!Wanted(p))
           a == W!SendTargets(q, q.current)
           sent == W!SendPtt(W!SendTargets(q, q.current), TRUE, q.current)
<1>2. page' = IF kept = page.locks THEN p ELSE W!SendPtt(a, q.current # {}, q.current)
  BY <1>1
<1>3. WebGood(page) /\ DOMAIN page = WebNames
  BY DEF WebIInv, WebGood, Fine, Struct, WebTypes
<1>4. /\ DOMAIN m = WebNames /\ WebSameBut(page, m, {"multi"})
      /\ DOMAIN p = WebNames /\ WebSameBut(page, p, {"multi", "locks"}) /\ p.locks = kept /\ p.multi = m.multi
  BY <1>3 DEF WebSameBut, WebNames
<1> HIDE DEF m, p
<1>5. WebGood(m)
  <2>1. WebSameBut(page, m, Settings) /\ m.races = page.races
    BY <1>4 DEF WebSameBut, Settings, WebNames
  <2> QED BY <1>3, <1>4, <2>1, SettingsStay
<1>6. /\ WebSameBut(m, p, {"pressed", "locks"}) /\ p.pressed = m.pressed /\ p.fingers = m.fingers /\ p.over = m.over
      /\ m.locks = page.locks
  BY <1>4 DEF WebSameBut, WebNames
<1>7. CASE kept = page.locks
  <2>1. WebSameBut(page, p, Settings) /\ p.races = page.races
    BY <1>4, <1>7 DEF WebSameBut, Settings, WebNames
  <2>2. WebGood(p)
    BY <1>3, <1>4, <2>1, SettingsStay
  <2> QED BY <1>2, <1>7, <2>2 DEF WebIInv
<1>8. CASE kept # page.locks
  <2>1. kept # {}
    BY <1>1, <1>8
  <2>2. Calm(m, p) /\ W!Wanted(p) \subseteq W!Wanted(m) /\ DOMAIN p.pressed = W!Inputs /\ W!Wanted(p) # {}
    BY <1>4, <1>5, <1>6, <2>1 DEF WebGood, Fine, Struct, WebTypes, Calm, W!Wanted, W!Held
  <2>4. q.current = W!Wanted(p) /\ (q.current # {} => Resent(p, sent))
    <3>1. q = W!SetCurrent(p, W!Wanted(p)) /\ sent = W!SendPtt(W!SendTargets(q, q.current), TRUE, q.current)
      OBVIOUS
    <3> HIDE DEF q, sent
    <3> QED BY <1>4, <1>5, <1>6, <2>2, <3>1, RestIs DEF WebGood
  <2>5. W!SendPtt(a, q.current # {}, q.current) = sent
    <3>1. q.current # {}
      BY <2>2, <2>4
    <3> HIDE DEF q
    <3> QED BY <3>1 DEF W!SendPtt
  <2> HIDE DEF q, a, sent
  <2>6. Resent(p, sent)
    BY <2>2, <2>4
  <2>7. Calm(m, sent)
    BY <2>2, <2>6, RestCalm
  <2>8. WebGood(sent)
    BY <1>5, <2>6, <2>7, TidyStays DEF WebGood, Resent
  <2> QED BY <1>2, <1>8, <2>5, <2>8 DEF WebIInv
<1> QED BY <1>7, <1>8

LEMMA ChangeKeeps == ASSUME W!ControlsAssumption, WebIInv, W!ChangeProcessing PROVE WebIInv'
<1> DEFINE q == W!Refresh(page)
<1>1. page' = q /\ WebGood(page)
  BY DEF W!ChangeProcessing, WebIInv
<1>2. /\ Struct(q) /\ WebSameBut(page, q, {"refresh", "warm", "producer", "served"})
      /\ q.producer = page.producer \/ (q.producer = "none" /\ ~page.talking /\ page.start = W!NoStart)
  BY <1>1, RefreshIs DEF WebGood, Fine
<1> HIDE DEF q
<1>3. WebSameBut(page, q, {"warm", "served", "acks", "refresh", "producer"})
  BY <1>2 DEF WebSameBut
<1>4. q.producer = "live" => page.producer = "live"
  BY <1>2
<1>5. page.races = {} /\ page.producer = "live" => q.producer = "live"
  BY <1>1, <1>2 DEF WebGood, Fine, Sync
<1>6. WebGood(q)
  BY <1>1, <1>2, <1>3, <1>4, <1>5, LiveStays
<1> QED BY <1>1, <1>6 DEF WebIInv

LEMMA RestoreKeeps == ASSUME W!ControlsAssumption, WebIInv, W!RestoreLocks PROVE WebIInv'
<1> DEFINE again == page.suspended \cap page.shown
           p == [page EXCEPT !.restore = FALSE, !.suspended = {}]
           q == [p EXCEPT !.locks = again]
           r == W!SendPtt(q, FALSE, again)
           t == CHOOSE x \in again : TRUE
<1>1. page' = (IF again = {} THEN p ELSE W!Talk(r, None, t)) /\ WebGood(page)
  BY DEF W!RestoreLocks, WebIInv
<1>2. again # {} => t \in again
  OBVIOUS
<1> HIDE DEF again, t
<1>3. DOMAIN p = WebNames /\ WebSameBut(page, p, {"restore", "suspended"})
  BY <1>1 DEF WebGood, Fine, Struct, WebTypes, WebSameBut, WebNames
<1>4. DOMAIN q = WebNames /\ WebSameBut(p, q, {"locks"}) /\ q.locks = again
  BY <1>3 DEF WebSameBut, WebNames
<1> HIDE DEF p, q
<1>5. DOMAIN r = WebNames /\ WebSameBut(q, r, {"reported"}) /\ r.reported = FALSE
  BY <1>4 DEF W!SendPtt, WebSameBut, WebNames
<1> HIDE DEF r
<1>6. WebGood(p)
  <2>1. WebSameBut(page, p, Settings)
        /\ p.races = page.races
    BY <1>3 DEF WebSameBut, Settings, WebNames
  <2> QED BY <1>1, <1>3, <2>1, SettingsStay
<1>7. /\ WebSameBut(page, r, WebNames \ Machine) /\ r.locks = again /\ r.pressed = page.pressed /\ r.fingers = page.fingers /\ r.over = page.over
      /\ r.talking = page.talking /\ r.producer = page.producer /\ r.start = page.start /\ r.races = page.races
  BY <1>3, <1>4, <1>5 DEF WebSameBut, WebNames, Machine
<1>8. Struct(r)
  <2>1. /\ Struct(page) /\ DOMAIN r.pressed = W!Inputs /\ DOMAIN r.fingers = Pointers /\ r.reported \in BOOLEAN
        /\ \A j \in Pointers : DOMAIN r.fingers[j] = {"target", "at", "slid", "asks"}
    BY <1>1, <1>5, <1>7 DEF WebGood, Fine, Struct, WebTypes
  <2> QED BY <1>5, <1>7, <2>1, StructStays
<1>9. Sync(r) /\ TidyBut(r, None)
  BY <1>1, <1>7 DEF WebGood, Fine, Sync, Tidy, TidyBut
<1>10. None \notin Pointers
  BY DEF W!ControlsAssumption, W!Inputs
<1>11. ASSUME again # {} PROVE WebGood(W!Talk(r, None, t))
  <2>1. None \in W!Inputs \cup {None}
    OBVIOUS
  <2>2. t \in r.locks
    BY <1>2, <1>7, <1>11
  <2> QED BY <1>8, <1>9, <1>10, <2>1, <2>2, TalkIs
<1> QED BY <1>1, <1>6, <1>11 DEF WebIInv


(***************************************************************************)
(* What comes after an await.                                              *)
(***************************************************************************)
\* A start that ended is no more, and its producer is not there.
LEMMA ForgetStruct ==
  ASSUME NEW p, WebGood(p), p.start.stage # "none", Acked(p, "start") = {},
         NEW x, DOMAIN x = WebNames, WebSameBut(p, x, {"served"}), x.served = "none"
  PROVE  LET q == [x EXCEPT !.start = W!NoStart] IN
         Struct(q) /\ WebSameBut(p, q, {"served", "start"}) /\ q.start = W!NoStart /\ p.producer = "none"
<1> DEFINE q == [x EXCEPT !.start = W!NoStart]
<1>1. DOMAIN q = WebNames /\ WebSameBut(p, q, {"served", "start"}) /\ q.start = W!NoStart /\ q.served = "none"
  BY DEF WebSameBut, WebNames
<1> HIDE DEF q
<1>2. /\ q.producer = p.producer /\ q.warm = p.warm /\ q.waiting = p.waiting
      /\ q.talking = p.talking /\ q.acks = p.acks /\ q.pressed = p.pressed
      /\ q.reported = p.reported /\ q.fingers = p.fingers
  BY <1>1 DEF WebSameBut, WebNames
<1>3. W!NoStart.stage = "none" /\ W!NoStart.canceled = FALSE /\ DOMAIN W!NoStart = {"stage", "canceled", "targets"}
  BY DEF W!NoStart
<1>4. p.producer = "none" /\ p.warm = "none"
  <2>1. p.start # W!NoStart
    BY <1>3
  <2> QED BY <2>1 DEF WebGood, Fine, Struct, Making
<1>5. WebTypes(q)
  BY <1>1, <1>2, <1>3 DEF WebGood, Fine, Struct, WebTypes
<1>6. Making(q)
  BY <1>1, <1>2, <1>3, <1>4 DEF Making
<1>7. Queued(q)
  BY <1>2 DEF WebGood, Fine, Struct, Queued
<1>8. Answers(q)
  BY <1>2, <1>4 DEF WebGood, Fine, Struct, Answers, One, Acked
<1> QED BY <1>1, <1>4, <1>5, <1>6, <1>7, <1>8 DEF Struct, q

\* One that was canceled is forgotten.
LEMMA ForgetIs ==
  ASSUME NEW p, WebGood(p), p.start.stage # "none", p.start.canceled, Acked(p, "start") = {},
         NEW x, DOMAIN x = WebNames, WebSameBut(p, x, {"served"}), x.served = "none"
  PROVE  WebGood([x EXCEPT !.start = W!NoStart])
<1> DEFINE q == [x EXCEPT !.start = W!NoStart]
<1>1. Struct(q) /\ WebSameBut(p, q, {"served", "start"}) /\ q.start = W!NoStart /\ p.producer = "none"
  BY ForgetStruct
<1> HIDE DEF q
<1>2. /\ q.producer = p.producer /\ q.waiting = p.waiting /\ q.talking = p.talking /\ q.pressed = p.pressed
      /\ q.locks = p.locks /\ q.remote = p.remote /\ q.current = p.current /\ q.routed = p.routed
      /\ q.reported = p.reported /\ q.races = p.races /\ q.fingers = p.fingers /\ q.over = p.over
  BY <1>1 DEF WebSameBut, WebNames
<1>3. W!NoStart.stage = "none" /\ W!NoStart.canceled = FALSE
  BY DEF W!NoStart
<1>6. W!Addressees(q) = W!Addressees(p)
  BY <1>2, AddresseesStay
<1>7. NotAlone(q)
  BY <1>1, <1>2, <1>6 DEF WebGood, Fine, NotAlone, Starting
<1>8. Sync(q)
  BY <1>1, <1>2, <1>3 DEF WebGood, Fine, Sync
<1>9. Addressed(q)
  <2>1. p.races = {} => p.current = {} /\ ~p.talking
    BY <1>1 DEF WebGood, Fine, Addressed, Sync
  <2> QED BY <1>1, <1>2, <1>3, <1>6, <2>1 DEF WebGood, Fine, Addressed
<1>10. Tidy(q)
  BY <1>2 DEF WebGood, Tidy
<1> QED BY <1>1, <1>7, <1>8, <1>9, <1>10 DEF WebGood, Fine, q

\* The other ends the talk.
LEMMA StartFailsIs ==
  ASSUME NEW p, WebGood(p), p.start.stage # "none", Acked(p, "start") = {},
         NEW x, DOMAIN x = WebNames, WebSameBut(p, x, {"served"}), x.served = "none"
  PROVE  WebGood(W!StartFails(x))
<1> DEFINE o == [x EXCEPT !.start = W!NoStart]
           q == W!ClearLocks(o)
           y == [q EXCEPT !.talking = FALSE, !.pressed = [i \in W!Inputs |-> None]]
           a == W!SetCurrent(y, {})
           b == W!SendTargets(a, {})
           c == W!SendPtt(b, FALSE, {})
<1>0. W!StartFails(x) = IF x.start.canceled THEN o ELSE c
  BY DEF W!StartFails
<1>1. x.start = p.start
  BY DEF WebSameBut, WebNames
<1>2. CASE x.start.canceled
  <2>1. WebGood(o)
    BY <1>1, <1>2, ForgetIs
  <2> QED BY <1>0, <1>2, <2>1
<1>3. CASE ~x.start.canceled
  <2>1. Struct(o) /\ WebSameBut(p, o, {"served", "start"}) /\ o.start = W!NoStart /\ p.producer = "none"
    BY ForgetStruct
  <2> HIDE DEF o
  <2>6. Struct(q) /\ WebSameBut(o, q, {"locks", "reported", "routed"}) /\ q.locks = {}
    BY <2>1, ClearLocksIs
  <2> HIDE DEF q
  <2>7. /\ DOMAIN y = WebNames /\ WebSameBut(q, y, {"talking", "pressed"}) /\ y.talking = FALSE
        /\ y.pressed = [i \in W!Inputs |-> None]
    BY <2>6 DEF Struct, WebTypes, WebSameBut, WebNames
  <2> HIDE DEF y
  <2>a. DOMAIN a = WebNames /\ WebSameBut(y, a, {"current", "remote"}) /\ a.current = {} /\ a.remote = y.remote \cap {}
    BY <2>7, SetCurrentIs
  <2> HIDE DEF a
  <2>8. DOMAIN b = WebNames /\ WebSameBut(a, b, {"routed"}) /\ b.routed = {}
    BY <2>a, SendTargetsIs
  <2> HIDE DEF b
  <2>9. DOMAIN c = WebNames /\ WebSameBut(b, c, {"reported"}) /\ c.reported = FALSE
    BY <2>8 DEF W!SendPtt, WebSameBut, WebNames
  <2> HIDE DEF c
  <2>10. /\ c.talking = FALSE /\ c.current = {} /\ c.remote = {} /\ c.pressed = [i \in W!Inputs |-> None]
         /\ c.routed = {} /\ c.locks = {} /\ c.producer = q.producer /\ c.served = q.served /\ c.start = q.start
         /\ c.warm = q.warm /\ c.waiting = q.waiting /\ c.acks = q.acks /\ c.fingers = q.fingers
    BY <2>6, <2>7, <2>a, <2>8, <2>9 DEF WebSameBut, WebNames
  <2>11. q.producer = "none" /\ q.start = W!NoStart
    BY <2>1, <2>6 DEF WebSameBut, WebNames
  <2>12. Struct(c)
    <3>1. WebTypes(c)
      <4>1. DOMAIN c.pressed = W!Inputs
        BY <2>10
      <4> QED BY <2>6, <2>9, <2>10, <4>1 DEF Struct, WebTypes
    <3>2. Making(c)
      BY <2>6, <2>10 DEF Struct, Making
    <3>3. Queued(c)
      BY <2>6, <2>10 DEF Struct, Queued
    <3>4. Answers(c)
      BY <2>6, <2>10 DEF Struct, Answers, One, Acked
    <3> QED BY <3>1, <3>2, <3>3, <3>4 DEF Struct
  <2>13. Quiet(c)
    BY <2>9, <2>10, <2>11 DEF Quiet, Starting
  <2>14. WebGood(c)
    BY <2>12, <2>13, QuietIsGood
  <2> QED BY <1>0, <1>3, <2>14
<1> QED BY <1>2, <1>3

LEMMA MicReadyKeeps == ASSUME W!ControlsAssumption, WebIInv, W!MicReady PROVE WebIInv'
<1> DEFINE ts == IF page.current = {} THEN page.start.targets ELSE page.current
           a == [of |-> "start"]
           st == [page.start EXCEPT !.stage = "produce"]
           b == [page EXCEPT !.current = ts, !.talking = TRUE, !.start.stage = "produce", !.served = "live"]
           q == W!Ack(b, a)
<1>1. /\ page.start.stage = "mic" /\ page' = IF page.start.canceled THEN [page EXCEPT !.start = W!NoStart] ELSE q
      /\ WebGood(page) /\ DOMAIN page = WebNames
  BY DEF W!MicReady, WebIInv, WebGood, Fine, Struct, WebTypes
<1>2. CASE page.start.canceled
  <2>1. Acked(page, "start") = {} /\ page.served = "none"
    <3>1. page.start # W!NoStart
      BY <1>1 DEF W!NoStart
    <3> QED BY <1>1, <3>1 DEF WebGood, Fine, Struct, Making, Answers
  <2>2. WebSameBut(page, page, {"served"})
    BY DEF WebSameBut
  <2>3. WebGood([page EXCEPT !.start = W!NoStart])
    BY <1>1, <1>2, <2>1, <2>2, ForgetIs
  <2> QED BY <1>1, <1>2, <2>3 DEF WebIInv
<1>3. CASE ~page.start.canceled
  <2>1. /\ DOMAIN b = WebNames /\ WebSameBut(page, b, {"current", "talking", "start", "served"})
        /\ b.current = ts /\ b.talking = TRUE /\ b.served = "live" /\ b.start = st
    BY <1>1 DEF WebSameBut, WebNames
  <2>2. /\ DOMAIN st = {"stage", "canceled", "targets"} /\ st.stage = "produce" /\ st.canceled = page.start.canceled
    BY <1>1 DEF WebGood, Fine, Struct, WebTypes
  <2>3. W!NoStart.stage = "none" /\ a.of = "start"
    BY DEF W!NoStart
  <2> HIDE DEF a, st, b
  <2>4. b.acks = page.acks /\ IsSeq(b.acks)
    BY <1>1, <2>1 DEF WebGood, Fine, Struct, Answers, WebSameBut, WebNames
  <2>5. /\ DOMAIN q = WebNames /\ WebSameBut(b, q, {"acks"}) /\ IsSeq(q.acks)
        /\ \A x : x # "start" => (One(b, x) => One(q, x)) /\ (Acked(q, x) # {} => Acked(b, x) # {})
        /\ Acked(b, "start") = {} => One(q, "start")
    BY <2>1, <2>3, <2>4, AckIs
  <2> HIDE DEF q
  <2>6. /\ q.current = ts /\ q.talking = TRUE /\ q.served = "live" /\ q.start = st /\ q.producer = page.producer
        /\ q.warm = page.warm /\ q.waiting = page.waiting /\ q.pressed = page.pressed /\ q.locks = page.locks /\ q.remote = page.remote
        /\ q.routed = page.routed /\ q.reported = page.reported /\ q.races = page.races
        /\ q.fingers = page.fingers /\ q.over = page.over
    BY <2>1, <2>5 DEF WebSameBut, WebNames
  <2>7. page.start # W!NoStart /\ st # W!NoStart /\ Starting(page)
    BY <1>1, <1>3, <2>2, <2>3 DEF Starting
  <2>8. page.producer = "none" /\ page.warm = "none"
    BY <1>1, <2>7 DEF WebGood, Fine, Struct, Making
  <2>9. Struct(q)
    <3>1. WebTypes(q)
      BY <1>1, <2>2, <2>5, <2>6 DEF WebGood, Fine, Struct, WebTypes
    <3>2. Making(q)
      BY <2>2, <2>6, <2>7, <2>8 DEF Making
    <3>3. Queued(q)
      BY <1>1, <2>6 DEF WebGood, Fine, Struct, Queued
    <3>4. Answers(q)
      <4>1. \A x : Acked(b, x) = Acked(page, x) /\ (One(b, x) <=> One(page, x))
        BY <2>4 DEF Acked, One
      <4>2. Acked(page, "start") = {} /\ Acked(page, "warm") = {} /\ One(page, "warm")
        BY <1>1, <2>8 DEF WebGood, Fine, Struct, Answers
      <4> QED BY <2>2, <2>5, <2>6, <4>1, <4>2 DEF Answers
    <3> QED BY <3>1, <3>2, <3>3, <3>4 DEF Struct
  <2>10. W!Addressees(q) = W!Addressees(page)
    BY <2>6, AddresseesStay
  <2>11. NotAlone(q)
    BY <1>1, <2>6, <2>7, <2>10 DEF WebGood, Fine, NotAlone
  <2>12. Sync(q)
    BY <1>3, <2>2, <2>6 DEF Sync
  <2>13. Addressed(q)
    <3>1. page.races = {} => page.current # {} /\ page.current = W!Addressees(page) /\ page.routed = page.current
      BY <1>1, <2>7 DEF WebGood, Fine, NotAlone, Addressed
    <3> QED BY <1>3, <2>2, <2>6, <2>10, <3>1 DEF Addressed
  <2>14. Tidy(q)
    BY <1>1, <2>6 DEF WebGood, Fine, Tidy
  <2> QED BY <1>1, <1>3, <2>9, <2>11, <2>12, <2>13, <2>14 DEF WebGood, Fine, WebIInv
<1> QED BY <1>2, <1>3

LEMMA MicFailsKeeps == ASSUME W!ControlsAssumption, WebIInv, W!MicFails PROVE WebIInv'
<1>1. page.start.stage = "mic" /\ page' = W!StartFails(page) /\ WebGood(page) /\ DOMAIN page = WebNames
  BY DEF W!MicFails, WebIInv, WebGood, Fine, Struct, WebTypes
<1>2. Acked(page, "start") = {} /\ page.served = "none"
  <2>1. page.start # W!NoStart
    BY <1>1 DEF W!NoStart
  <2> QED BY <1>1, <2>1 DEF WebGood, Fine, Struct, Making, Answers
<1>3. WebSameBut(page, page, {"served"})
  BY DEF WebSameBut
<1> QED BY <1>1, <1>2, <1>3, StartFailsIs DEF WebIInv

LEMMA WarmMicKeeps == ASSUME W!ControlsAssumption, WebIInv, W!WarmMic PROVE WebIInv'
<1> DEFINE a == [of |-> "warm"]
           b == [page EXCEPT !.warm = "produce", !.served = "live"]
           q == W!Ack(b, a)
<1>1. /\ page.warm = "mic" /\ WebGood(page) /\ DOMAIN page = WebNames
      /\ page' = IF page.start # W!NoStart \/ page.talking \/ page.producer # "none" THEN W!Woken(page) ELSE q
  BY DEF W!WarmMic, WebIInv, WebGood, Fine, Struct, WebTypes
<1>2. CASE page.start # W!NoStart \/ page.talking \/ page.producer # "none"
  BY <1>1, <1>2, WokenIs DEF WebIInv
<1>3. CASE ~(page.start # W!NoStart \/ page.talking \/ page.producer # "none")
  <2>1. DOMAIN b = WebNames /\ WebSameBut(page, b, {"warm", "served"}) /\ b.warm = "produce" /\ b.served = "live" /\ a.of = "warm"
    BY <1>1 DEF WebSameBut, WebNames
  <2> HIDE DEF a, b
  <2>2. b.acks = page.acks /\ IsSeq(b.acks)
    BY <1>1, <2>1 DEF WebGood, Fine, Struct, Answers, WebSameBut, WebNames
  <2>3. /\ DOMAIN q = WebNames /\ WebSameBut(b, q, {"acks"}) /\ IsSeq(q.acks)
        /\ \A x : x # "warm" => (One(b, x) => One(q, x)) /\ (Acked(q, x) # {} => Acked(b, x) # {})
        /\ Acked(b, "warm") = {} => One(q, "warm")
    BY <2>1, <2>2, AckIs
  <2> HIDE DEF q
  <2>4. /\ q.warm = "produce" /\ q.served = "live" /\ q.start = page.start /\ q.producer = page.producer
        /\ q.waiting = page.waiting /\ q.pressed = page.pressed /\ q.talking = page.talking
        /\ q.reported = page.reported /\ q.fingers = page.fingers /\ q.over = page.over
        /\ WebSameBut(page, q, {"warm", "served", "acks", "refresh", "producer"})
    BY <2>1, <2>3 DEF WebSameBut, WebNames
  <2>5. Struct(q)
    <3>1. WebTypes(q)
      BY <1>1, <2>3, <2>4 DEF WebGood, Fine, Struct, WebTypes
    <3>2. Making(q)
      BY <1>1, <1>3, <2>4 DEF WebGood, Fine, Struct, Making
    <3>3. Queued(q)
      BY <1>1, <2>4 DEF WebGood, Fine, Struct, Queued
    <3>4. Answers(q)
      <4>1. \A x : Acked(b, x) = Acked(page, x) /\ (One(b, x) <=> One(page, x))
        BY <2>2 DEF Acked, One
      <4>2. (Acked(page, "start") # {} => page.start.stage = "produce") /\ Acked(page, "warm") = {} /\ One(page, "start")
        BY <1>1 DEF WebGood, Fine, Struct, Answers
      <4> QED BY <2>3, <2>4, <4>1, <4>2 DEF Answers
    <3> QED BY <3>1, <3>2, <3>3, <3>4 DEF Struct
  <2>6. WebGood(q)
    BY <1>1, <2>4, <2>5, LiveStays
  <2> QED BY <1>1, <1>3, <2>6 DEF WebIInv
<1> QED BY <1>2, <1>3

LEMMA WarmFailsKeeps == ASSUME W!ControlsAssumption, WebIInv, W!WarmFails PROVE WebIInv'
  BY WokenIs DEF W!WarmFails, WebIInv


\* An answer is taken.
LEMMA WebTakenIs ==
  ASSUME NEW p, WebGood(p), p.acks # <<>>
  PROVE  LET q == [p EXCEPT !.acks = Tail(@)] IN
         /\ WebGood(q) /\ WebSameBut(p, q, {"acks"})
         /\ Head(p.acks).of = "start" => q.start.stage = "produce" /\ Acked(q, "start") = {}
         /\ Head(p.acks).of = "warm" => q.warm = "produce" /\ Acked(q, "warm") = {}
<1> DEFINE q == [p EXCEPT !.acks = Tail(@)]
           of == Head(p.acks).of
<1>1. DOMAIN p = WebNames /\ IsSeq(p.acks)
  BY DEF WebGood, Fine, Struct, WebTypes, Answers
<1>2. /\ DOMAIN q = WebNames /\ WebSameBut(p, q, {"acks"}) /\ IsSeq(q.acks)
      /\ \A x : (One(p, x) => One(q, x)) /\ (Acked(q, x) # {} => Acked(p, x) # {})
      /\ Acked(p, of) # {} /\ (One(p, of) => Acked(q, of) = {})
  BY <1>1, WebTakeIs
<1> HIDE DEF q, of
<1>3. /\ q.producer = p.producer /\ q.served = p.served /\ q.start = p.start /\ q.warm = p.warm
      /\ q.waiting = p.waiting /\ q.talking = p.talking /\ q.pressed = p.pressed /\ q.reported = p.reported
      /\ q.fingers = p.fingers /\ q.over = p.over
  BY <1>2 DEF WebSameBut, WebNames
<1>4. Struct(q)
  <2>1. WebTypes(q)
    BY <1>2, <1>3 DEF WebGood, Fine, Struct, WebTypes
  <2>2. Making(q)
    BY <1>3 DEF WebGood, Fine, Struct, Making
  <2>3. Queued(q)
    BY <1>3 DEF WebGood, Fine, Struct, Queued
  <2>4. Answers(q)
    BY <1>2, <1>3 DEF WebGood, Fine, Struct, Answers
  <2> QED BY <2>1, <2>2, <2>3, <2>4 DEF Struct
<1>5. WebSameBut(p, q, {"warm", "served", "acks", "refresh", "producer"})
  BY <1>2 DEF WebSameBut
<1>6. WebGood(q)
  BY <1>3, <1>4, <1>5, LiveStays
<1>7. of = "start" => q.start.stage = "produce" /\ Acked(q, "start") = {}
  BY <1>2, <1>3 DEF WebGood, Fine, Struct, Answers
<1>8. of = "warm" => q.warm = "produce" /\ Acked(q, "warm") = {}
  BY <1>2, <1>3 DEF WebGood, Fine, Struct, Answers
<1> QED BY <1>2, <1>6, <1>7, <1>8 DEF q, of

\* The producer is there: it is taken, or given back.
LEMMA StartedIs ==
  ASSUME NEW p, WebGood(p), p.start.stage = "produce", Acked(p, "start") = {} PROVE WebGood(W!Started(p))
<1> DEFINE a == [p EXCEPT !.start = W!NoStart]
           b == W!CloseProducer(a)
           c == [p EXCEPT !.start = W!NoStart, !.producer = "live"]
           d == W!SendTargets(c, p.current)
           e == W!SendPtt(d, TRUE, p.current)
<1>1. DOMAIN p = WebNames /\ W!Started(p) = (IF ~p.talking \/ p.start.canceled THEN b ELSE e)
  BY DEF WebGood, Fine, Struct, WebTypes, W!Started
<1>2. W!NoStart.stage = "none" /\ W!NoStart.canceled = FALSE /\ DOMAIN W!NoStart = {"stage", "canceled", "targets"}
  BY DEF W!NoStart
<1>3. p.producer = "none" /\ p.warm = "none" /\ p.served = "live" /\ p.start # W!NoStart
  <2>1. p.start # W!NoStart
    BY <1>2
  <2> QED BY <2>1 DEF WebGood, Fine, Struct, Making
<1>4. CASE ~p.talking \/ p.start.canceled
  <2>1. /\ DOMAIN b = WebNames /\ WebSameBut(p, b, {"start", "producer", "served"}) /\ b.start = W!NoStart
        /\ b.producer = "none" /\ b.served = "none"
    BY <1>1 DEF W!CloseProducer, WebSameBut, WebNames
  <2> HIDE DEF b
  <2>2. /\ b.warm = p.warm /\ b.waiting = p.waiting /\ b.talking = p.talking /\ b.acks = p.acks
        /\ b.pressed = p.pressed /\ b.locks = p.locks /\ b.remote = p.remote /\ b.current = p.current /\ b.routed = p.routed
        /\ b.reported = p.reported /\ b.races = p.races /\ b.fingers = p.fingers /\ b.over = p.over
    BY <2>1 DEF WebSameBut, WebNames
  <2>3. Struct(b)
    <3>1. WebTypes(b)
      BY <1>2, <2>1, <2>2 DEF WebGood, Fine, Struct, WebTypes
    <3>2. Making(b)
      BY <1>2, <1>3, <2>1, <2>2 DEF Making
    <3>3. Queued(b)
      BY <2>2 DEF WebGood, Fine, Struct, Queued
    <3>4. Answers(b)
      BY <2>2 DEF WebGood, Fine, Struct, Answers, One, Acked
    <3> QED BY <3>1, <3>2, <3>3, <3>4 DEF Struct
  <2>4. W!Addressees(b) = W!Addressees(p)
    BY <2>2, AddresseesStay
  <2>5. NotAlone(b)
    BY <2>1, <2>2, <2>4 DEF WebGood, Fine, NotAlone, Starting
  <2>6. p.races = {} => ~p.talking /\ p.start.canceled
    BY <1>3, <1>4 DEF WebGood, Fine, Sync
  <2>7. Sync(b)
    BY <1>2, <2>1, <2>2, <2>6 DEF Sync
  <2>8. Addressed(b)
    BY <1>2, <2>1, <2>2, <2>4, <2>6 DEF WebGood, Fine, Addressed
  <2>9. Tidy(b)
    BY <2>2 DEF WebGood, Fine, Tidy
  <2> QED BY <1>1, <1>4, <2>3, <2>5, <2>7, <2>8, <2>9 DEF WebGood, Fine
<1>5. CASE ~(~p.talking \/ p.start.canceled)
  <2>1. DOMAIN c = WebNames /\ WebSameBut(p, c, {"start", "producer"}) /\ c.start = W!NoStart /\ c.producer = "live"
    BY <1>1 DEF WebSameBut, WebNames
  <2> HIDE DEF c
  <2>2. DOMAIN d = WebNames /\ WebSameBut(c, d, {"routed"}) /\ d.routed = p.current
    BY <2>1, SendTargetsIs
  <2> HIDE DEF d
  <2>3. /\ DOMAIN e = WebNames /\ WebSameBut(d, e, {"reported", "routed"}) /\ e.routed = p.current
        /\ e.reported \in BOOLEAN /\ (e.reported => p.current # {})
    <3>1. CASE p.current # {}
      BY <2>2, <3>1 DEF W!SendPtt, WebSameBut, WebNames
    <3>2. CASE p.current = {}
      BY <2>2, <3>2 DEF W!SendPtt, WebSameBut, WebNames
    <3> QED BY <3>1, <3>2
  <2> HIDE DEF e
  <2>4. /\ e.start = W!NoStart /\ e.producer = "live" /\ e.served = p.served
        /\ e.warm = p.warm /\ e.waiting = p.waiting /\ e.talking = p.talking /\ e.acks = p.acks
        /\ e.pressed = p.pressed /\ e.locks = p.locks /\ e.remote = p.remote /\ e.current = p.current
        /\ e.races = p.races /\ e.fingers = p.fingers /\ e.over = p.over
    BY <2>1, <2>2, <2>3 DEF WebSameBut, WebNames
  <2>5. Struct(e)
    <3>1. WebTypes(e)
      BY <1>2, <2>3, <2>4 DEF WebGood, Fine, Struct, WebTypes
    <3>2. Making(e)
      BY <1>2, <1>3, <2>4 DEF Making
    <3>3. Queued(e)
      BY <2>4 DEF WebGood, Fine, Struct, Queued
    <3>4. Answers(e)
      BY <2>4 DEF WebGood, Fine, Struct, Answers, One, Acked
    <3> QED BY <3>1, <3>2, <3>3, <3>4 DEF Struct
  <2>6. W!Addressees(e) = W!Addressees(p)
    BY <2>4, AddresseesStay
  <2>7. NotAlone(e)
    BY <1>5, <2>4, <2>6 DEF WebGood, Fine, NotAlone
  <2>8. Sync(e)
    BY <1>5, <2>4 DEF Sync
  <2>9. Addressed(e)
    BY <1>2, <1>5, <2>3, <2>4, <2>6 DEF WebGood, Fine, Addressed
  <2>10. Tidy(e)
    BY <2>4 DEF WebGood, Fine, Tidy
  <2> QED BY <1>1, <1>5, <2>5, <2>7, <2>8, <2>9, <2>10 DEF WebGood, Fine
<1> QED BY <1>4, <1>5

\* The preparation has its producer, which it pauses.
LEMMA PreparedIs ==
  ASSUME NEW p, WebGood(p), p.warm = "produce", Acked(p, "warm") = {}
  PROVE  WebGood(W!Pause([p EXCEPT !.warm = "pause"], FALSE))
<1> DEFINE b == [p EXCEPT !.warm = "pause"]
           q == W!Pause(b, FALSE)
<1>1. DOMAIN b = WebNames /\ WebSameBut(p, b, {"warm"}) /\ b.warm = "pause"
  BY DEF WebGood, Fine, Struct, WebTypes, WebSameBut, WebNames
<1> HIDE DEF b
<1>2. /\ b.start = p.start /\ b.waiting = p.waiting /\ b.acks = p.acks /\ b.pressed = p.pressed
      /\ b.fingers = p.fingers /\ b.over = p.over /\ b.talking = p.talking /\ b.reported = p.reported
  BY <1>1 DEF WebSameBut, WebNames
<1>3. p.start = W!NoStart /\ W!NoStart.stage = "none" /\ p.producer = "none"
  BY DEF WebGood, Fine, Struct, Making, W!NoStart
<1>4. Settling(b)
  <2>1. WebTypes(b)
    BY <1>1, <1>2 DEF WebGood, Fine, Struct, WebTypes
  <2>2. Queued(b)
    BY <1>1, <1>2 DEF WebGood, Fine, Struct, Queued
  <2>3. Answers(b)
    BY <1>1, <1>2 DEF WebGood, Fine, Struct, Answers, One, Acked
  <2> QED BY <1>1, <1>2, <1>3, <2>1, <2>2, <2>3 DEF Settling
<1>5. Struct(q) /\ WebSameBut(b, q, {"producer", "served", "acks"}) /\ q.producer = "paused"
  BY <1>4, PauseIs
<1> HIDE DEF q
<1>6. WebSameBut(p, q, {"warm", "served", "acks", "refresh", "producer"})
  BY <1>1, <1>5 DEF WebSameBut, WebNames
<1>7. WebGood(q)
  BY <1>3, <1>5, <1>6, LiveStays
<1> QED BY <1>7 DEF q, b

\* A pause is answered.
LEMMA PausedIs ==
  ASSUME NEW p, WebGood(p), NEW ok, ok \/ p.races # {}, NEW restore PROVE WebGood(W!Paused(p, ok, restore))
<1> DEFINE q == IF ok \/ p.producer = "none" THEN p ELSE W!CloseProducer(p)
           r == IF p.warm = "pause" THEN W!Woken(q) ELSE q
           s == [r EXCEPT !.restore = TRUE]
<1>1. W!Paused(p, ok, restore) = IF restore THEN s ELSE r
  BY DEF W!Paused
<1>2. WebGood(q) /\ q.warm = p.warm
  <2> DEFINE z == W!CloseProducer(p)
  <2>1. CASE ok \/ p.producer = "none"
    BY <2>1
  <2>2. CASE ~(ok \/ p.producer = "none")
    <3>1. Struct(z) /\ WebSameBut(p, z, {"producer", "served"}) /\ z.producer = "none"
      BY <2>2, CloseProducerIs DEF WebGood, Fine
    <3> HIDE DEF z
    <3>2. WebSameBut(p, z, {"warm", "served", "acks", "refresh", "producer"}) /\ z.warm = p.warm
      BY <3>1 DEF WebSameBut, WebNames
    <3>3. WebGood(z)
      BY <2>2, <3>1, <3>2, LiveStays
    <3> QED BY <2>2, <3>2, <3>3 DEF z
  <2> QED BY <2>1, <2>2
<1> HIDE DEF q
<1>3. WebGood(r)
  BY <1>2, WokenIs
<1> HIDE DEF r
<1>4. DOMAIN s = WebNames /\ WebSameBut(r, s, {"restore"})
  BY <1>3 DEF WebGood, Fine, Struct, WebTypes, WebSameBut, WebNames
<1> HIDE DEF s
<1>5. /\ WebSameBut(r, s, Settings)
      /\ s.races = r.races
  BY <1>4 DEF WebSameBut, Settings, WebNames
<1>6. WebGood(s)
  BY <1>3, <1>4, <1>5, SettingsStay
<1> QED BY <1>1, <1>3, <1>6

\* A resume is answered, and the talk is told of.
LEMMA ResumedIs ==
  ASSUME NEW p, WebGood(p), NEW ts PROVE WebGood(W!Resumed(p, TRUE, ts))
<1> DEFINE a == IF ~p.talking \/ ts # p.current THEN W!Race(p, "late") ELSE p
           q == W!SendPtt(a, TRUE, ts)
<1>1. W!Resumed(p, TRUE, ts) = q
  BY DEF W!Resumed
<1>2. WebGood(a) /\ DOMAIN a = WebNames
  BY RaceGood DEF WebGood, Fine, Struct, WebTypes
<1>3. a.races = {} => a = p /\ p.talking /\ ts = p.current
  <2>1. DOMAIN p = WebNames
    BY DEF WebGood, Fine, Struct, WebTypes
  <2>2. W!Race(p, "late").races # {}
    BY <2>1, RaceIs
  <2> HIDE DEF q
  <2> QED BY <2>2
<1> HIDE DEF a
<1>4. /\ DOMAIN q = WebNames /\ WebSameBut(a, q, {"reported", "routed"}) /\ q.reported \in BOOLEAN
      /\ q.reported => ts # {}
      /\ q.routed = ts \/ q.routed = a.routed
  <2>1. CASE ts # {}
    BY <1>2, <2>1 DEF W!SendPtt, WebSameBut, WebNames
  <2>2. CASE ts = {}
    BY <1>2, <2>2 DEF W!SendPtt, WebSameBut, WebNames
  <2> QED BY <2>1, <2>2
<1> HIDE DEF q
<1>5. /\ q.start = a.start /\ q.waiting = a.waiting /\ q.talking = a.talking /\ q.pressed = a.pressed
      /\ q.locks = a.locks /\ q.remote = a.remote /\ q.current = a.current /\ q.races = a.races /\ q.fingers = a.fingers /\ q.over = a.over
      /\ q.producer = a.producer /\ WebSameBut(a, q, WebNames \ Machine)
  BY <1>4 DEF WebSameBut, WebNames, Machine
<1>6. Struct(q)
  <2>1. /\ Struct(a) /\ DOMAIN q.pressed = W!Inputs /\ DOMAIN q.fingers = Pointers
        /\ \A i \in Pointers : DOMAIN q.fingers[i] = {"target", "at", "slid", "asks"}
    BY <1>2, <1>5 DEF WebGood, Fine, Struct, WebTypes
  <2> QED BY <1>4, <1>5, <2>1, StructStays
<1>7. W!Addressees(q) = W!Addressees(a)
  BY <1>5, AddresseesStay
<1>8. NotAlone(q) /\ Sync(q) /\ Tidy(q)
  BY <1>2, <1>5, <1>7 DEF WebGood, Fine, NotAlone, Starting, Sync, Tidy
<1>9. Addressed(q)
  BY <1>2, <1>3, <1>4, <1>5, <1>7 DEF WebGood, Fine, Addressed, Starting
<1> QED BY <1>1, <1>6, <1>8, <1>9 DEF WebGood, Fine

\* A resume fails: the page gives up the talk, the producer stays.
LEMMA RefusedIs ==
  ASSUME NEW p, WebGood(p), p.races # {}, NEW ts PROVE WebGood(W!Resumed(p, FALSE, ts))
<1> DEFINE a == [p EXCEPT !.talking = FALSE]
           b == W!SendTargets(a, {})
           q == W!SendPtt(b, FALSE, {})
<1>1. W!Resumed(p, FALSE, ts) = q
  BY DEF W!Resumed
<1>2. DOMAIN a = WebNames /\ WebSameBut(p, a, {"talking"}) /\ a.talking = FALSE
  BY DEF WebGood, Fine, Struct, WebTypes, WebSameBut, WebNames
<1> HIDE DEF a
<1>3. DOMAIN b = WebNames /\ WebSameBut(a, b, {"routed"})
  BY <1>2, SendTargetsIs
<1> HIDE DEF b
<1>4. DOMAIN q = WebNames /\ WebSameBut(b, q, {"reported"}) /\ q.reported = FALSE
  BY <1>3 DEF W!SendPtt, WebSameBut, WebNames
<1> HIDE DEF q
<1>5. /\ q.producer = p.producer /\ q.served = p.served /\ q.start = p.start /\ q.warm = p.warm
      /\ q.waiting = p.waiting /\ q.talking = FALSE /\ q.acks = p.acks /\ q.pressed = p.pressed
      /\ q.locks = p.locks /\ q.remote = p.remote /\ q.races = p.races /\ q.fingers = p.fingers /\ q.over = p.over
  BY <1>2, <1>3, <1>4 DEF WebSameBut, WebNames
<1>6. Struct(q)
  <2>1. WebTypes(q)
    BY <1>4, <1>5 DEF WebGood, Fine, Struct, WebTypes
  <2>2. Making(q)
    BY <1>5 DEF WebGood, Fine, Struct, Making
  <2>3. Queued(q)
    BY <1>5 DEF WebGood, Fine, Struct, Queued
  <2>4. Answers(q)
    BY <1>5 DEF WebGood, Fine, Struct, Answers, One, Acked
  <2> QED BY <2>1, <2>2, <2>3, <2>4 DEF Struct
<1>7. W!Addressees(q) = W!Addressees(p)
  BY <1>5, AddresseesStay
<1>8. NotAlone(q)
  BY <1>5, <1>7 DEF WebGood, Fine, NotAlone, Starting
<1>9. Sync(q) /\ Addressed(q) /\ Tidy(q)
  BY <1>5 DEF WebGood, Fine, Sync, Addressed, Tidy
<1> QED BY <1>1, <1>6, <1>8, <1>9 DEF WebGood, Fine

LEMMA AnswerKeeps == ASSUME W!ControlsAssumption, WebIInv, W!Answer PROVE WebIInv'
<1> DEFINE ack == Head(page.acks)
           p == [page EXCEPT !.acks = Tail(@)]
           x == W!Race(p, "fault")
<1>1. /\ page.acks # <<>>
      /\ \/ ack.of = "start" /\ page' = W!Started(p)
         \/ ack.of = "start" /\ page' = W!StartFails([p EXCEPT !.served = "none"])
         \/ ack.of = "warm" /\ page' = W!Woken([p EXCEPT !.served = "none"])
         \/ ack.of = "warm" /\ page' = W!Pause([p EXCEPT !.warm = "pause"], FALSE)
         \/ ack.of = "pause" /\ page' = W!Paused(p, TRUE, ack.restore)
         \/ ack.of = "pause" /\ page' = W!Paused(x, FALSE, ack.restore)
         \/ ack.of = "resume" /\ page' = W!Resumed(p, TRUE, ack.targets)
         \/ ack.of = "resume" /\ page' = W!Resumed(x, FALSE, ack.targets)
  BY DEF W!Answer
<1>2. /\ WebGood(p)
      /\ ack.of = "start" => p.start.stage = "produce" /\ Acked(p, "start") = {}
      /\ ack.of = "warm" => p.warm = "produce" /\ Acked(p, "warm") = {}
  BY <1>1, WebTakenIs DEF WebIInv
<1> HIDE DEF p, ack
<1>3. WebGood(x) /\ x.races # {}
  <2>1. DOMAIN p = WebNames
    BY <1>2 DEF WebGood, Fine, Struct, WebTypes
  <2> QED BY <1>2, <2>1, RaceGood, RaceIs
<1> HIDE DEF x
<1>4. ASSUME ack.of = "start" PROVE WebGood(W!Started(p))
  BY <1>2, <1>4, StartedIs
<1>5. ASSUME ack.of = "warm" PROVE WebGood(W!Pause([p EXCEPT !.warm = "pause"], FALSE))
  BY <1>2, <1>5, PreparedIs
<1>6. WebGood(W!Paused(p, TRUE, ack.restore)) /\ WebGood(W!Paused(x, FALSE, ack.restore))
  <2> DEFINE restore == ack.restore
  <2> HIDE DEF restore
  <2>1. WebGood(W!Paused(p, TRUE, restore)) /\ WebGood(W!Paused(x, FALSE, restore))
    BY <1>2, <1>3, PausedIs
  <2> QED BY <2>1 DEF restore
<1>7. WebGood(W!Resumed(p, TRUE, ack.targets)) /\ WebGood(W!Resumed(x, FALSE, ack.targets))
  <2> DEFINE ts == ack.targets
  <2> HIDE DEF ts
  <2>1. WebGood(W!Resumed(p, TRUE, ts)) /\ WebGood(W!Resumed(x, FALSE, ts))
    BY <1>2, <1>3, ResumedIs, RefusedIs
  <2> QED BY <2>1 DEF ts
<1>8. ASSUME ack.of = "start" PROVE WebGood(W!StartFails([p EXCEPT !.served = "none"]))
  <2> DEFINE y == [p EXCEPT !.served = "none"]
  <2>1. DOMAIN y = WebNames /\ WebSameBut(p, y, {"served"}) /\ y.served = "none"
    BY <1>2 DEF WebGood, Fine, Struct, WebTypes, WebSameBut, WebNames
  <2> HIDE DEF y
  <2>2. WebGood(W!StartFails(y))
    BY <1>2, <1>8, <2>1, StartFailsIs
  <2> QED BY <2>2 DEF y
<1>9. ASSUME ack.of = "warm" PROVE WebGood(W!Woken([p EXCEPT !.served = "none"]))
  BY <1>2, <1>9, UnpreparedIs
<1> QED BY <1>1, <1>4, <1>5, <1>6, <1>7, <1>8, <1>9 DEF WebIInv

LEMMA WebReconnectKeeps == ASSUME W!ControlsAssumption, WebIInv, W!Reconnect PROVE WebIInv'
<1> DEFINE p == W!StopSafely(page, FALSE, None)
           b == [p EXCEPT !.locks = {}, !.producer = "none", !.acks = <<>>,
                          !.served = "none", !.routed = {}, !.reported = FALSE]
<1>1. page' = W!Warm(b) /\ WebGood(page) /\ page.warm = "none" /\ page.start.stage # "produce"
  BY DEF W!Reconnect, WebIInv
<1>2. /\ Struct(p) /\ Tidy(p) /\ (p.races = {} => p.remote = {}) /\ p.talking = FALSE /\ ~Starting(p) /\ p.current = {} /\ W!Held(p) = {}
      /\ p.start.stage # "produce" /\ p.warm # "produce"
  <2> DEFINE q == W!Stop(page, None, FALSE, FALSE)
  <2>1. \/ /\ ~page.talking /\ page.start = W!NoStart /\ page.current = {} /\ W!Held(page) = {} /\ p = page
        \/ p = q
    BY DEF W!StopSafely
  <2> HIDE DEF p
  <2>2. CASE ~page.talking /\ page.start = W!NoStart /\ page.current = {} /\ W!Held(page) = {} /\ p = page
    <3>1. page.races = {} => page.remote = {}
      BY <1>1, <2>2 DEF WebGood, Fine, Addressed, W!Addressees
    <3> QED BY <1>1, <2>2, <3>1 DEF WebGood, Fine, Struct, WebTypes, Starting
  <2>3. CASE p = q
    <3>1. FALSE \in BOOLEAN /\ Struct(page)
      BY <1>1 DEF WebGood, Fine
    <3>2. /\ Struct(q) /\ Quiet(q) /\ q.start.stage = page.start.stage /\ (q.warm = page.warm \/ q.warm = "mic")
      BY <3>1, StopNoneIs
    <3> HIDE DEF q
    <3>3. W!Held(q) = {} /\ Tidy(q)
      BY <3>2, QuietIsGood DEF W!Addressees, W!Wanted, WebGood, Fine
    <3> QED BY <1>1, <2>3, <3>2, <3>3 DEF Quiet
  <2> QED BY <2>1, <2>2, <2>3
<1> HIDE DEF p
<1>3. /\ DOMAIN b = WebNames /\ WebSameBut(p, b, {"locks", "producer", "acks", "served", "routed", "reported"})
      /\ b.locks = {} /\ b.producer = "none" /\ b.acks = <<>> /\ b.served = "none" /\ b.routed = {} /\ b.reported = FALSE
  BY <1>2 DEF Struct, WebTypes, WebSameBut, WebNames
<1> HIDE DEF b
<1>4. /\ b.start = p.start /\ b.warm = p.warm /\ b.waiting = p.waiting /\ b.talking = p.talking
      /\ b.pressed = p.pressed /\ b.current = p.current /\ b.fingers = p.fingers /\ b.over = p.over
  BY <1>3 DEF WebSameBut, WebNames
<1>5. Struct(b)
  <2>1. WebTypes(b)
    BY <1>2, <1>3, <1>4 DEF Struct, WebTypes
  <2>2. Making(b)
    BY <1>2, <1>3, <1>4 DEF Struct, Making
  <2>3. Queued(b)
    BY <1>2, <1>4 DEF Struct, Queued
  <2>4. <<>> \in Seq({}) /\ Len(<<>>) = 0
    OBVIOUS
  <2>5. Answers(b)
    BY <1>3, <2>4 DEF Answers, IsSeq, One, Acked
  <2> QED BY <2>1, <2>2, <2>3, <2>5 DEF Struct
<1>6. b.races = {} => W!Addressees(b) = {}
  <2>1. b.races = p.races /\ b.remote = p.remote
    BY <1>3 DEF WebSameBut, WebNames
  <2> QED BY <1>2, <1>3, <1>4, <2>1 DEF W!Addressees, W!Wanted, W!Held
<1>7. NotAlone(b) /\ Sync(b) /\ Addressed(b)
  <2>1. NotAlone(b)
    BY <1>2, <1>3, <1>4 DEF NotAlone, Starting
  <2>2. Sync(b)
    BY <1>2, <1>3, <1>4 DEF Sync
  <2>3. Addressed(b)
    BY <1>2, <1>3, <1>4, <1>6 DEF Addressed, Starting
  <2> QED BY <2>1, <2>2, <2>3
<1>8. Tidy(b)
  BY <1>2, <1>4 DEF Tidy
<1>9. WebGood(W!Warm(b))
  <2>1. WebGood(b)
    BY <1>5, <1>7, <1>8 DEF WebGood, Fine
  <2> QED BY <2>1, WarmGood
<1> QED BY <1>1, <1>9 DEF WebIInv

(***************************************************************************)
(* The theorems.                                                           *)
(***************************************************************************)
LEMMA WebNextKeeps == ASSUME W!ControlsAssumption, WebIInv, [W!Next]_(W!vars) PROVE WebIInv'
<1>1. CASE W!Next
  <2>1. CASE \E i \in Pointers : (\E t \in TalkTargets : W!Press(i, t)) \/ W!SlideToLock(i) \/ W!Release(i)
    BY <2>1, WebPressKeeps, WebSlideKeeps, WebReleaseKeeps
  <2>2. CASE \E k \in KeyInputs : (\E t \in TalkTargets : W!KeyPress(k, t)) \/ W!KeyRelease(k)
    BY <2>2, KeyPressKeeps, KeyReleaseKeeps
  <2>3. CASE \E t \in TalkTargets : W!PressCommand(t) \/ W!LockToggle(t) \/ W!VoiceRises(t)
    BY <2>3, PressCommandKeeps, LockToggleKeeps, VoiceRisesKeeps
  <2>4. CASE W!ReleaseCommand \/ W!VoiceFalls \/ W!ForceStop \/ W!Blur \/ W!Rerender \/ W!LockOneOnly \/ W!LockMany \/ W!ChangeProcessing
    BY <2>4, ReleaseCommandKeeps, VoiceFallsKeeps, LockManyKeeps, ForceStopKeeps, WebBlurKeeps, RerenderKeeps, LockOneKeeps, ChangeKeeps
  <2>5. CASE W!RestoreLocks \/ W!MicReady \/ W!MicFails \/ W!WarmMic \/ W!WarmFails \/ W!Answer \/ W!Reconnect
    BY <2>5, RestoreKeeps, MicReadyKeeps, MicFailsKeeps, WarmMicKeeps, WarmFailsKeeps, AnswerKeeps, WebReconnectKeeps
  <2> QED BY <1>1, <2>1, <2>2, <2>3, <2>4, <2>5 DEF W!Next
<1>2. CASE UNCHANGED W!vars
  BY <1>2 DEF W!vars, WebIInv
<1> QED BY <1>1, <1>2

LEMMA GoodFollows == ASSUME WebIInv PROVE W!TalkFollowsInputs
<1> DEFINE All == W!Asked(page) \cup {page.pressed[i] : i \in W!Left(page)}
<1>1. All = W!Addressees(page)
  <2>1. W!Left(page) \subseteq W!Inputs /\ \A i \in W!Left(page) : page.pressed[i] # None
    BY DEF W!Left, W!Inputs
  <2>2. W!Held(page) = ({page.pressed[i] : i \in W!Inputs \ W!Left(page)} \ {None}) \cup {page.pressed[i] : i \in W!Left(page)}
    BY <2>1 DEF W!Held
  <2> QED BY <2>2 DEF W!Asked, W!Addressees, W!Wanted
<1>2. ~page.over => W!Left(page) = {}
  BY DEF WebIInv, WebGood, Tidy, W!Left
<1>3. W!Asked(page) = {} /\ W!Left(page) = {} => W!Addressees(page) = {}
  BY <1>1
<1> HIDE DEF All
<1>4. ASSUME W!Settled
      PROVE  /\ "warm" \notin page.races /\ W!Addressees(page) = {} => W!Heard = {}
             /\ page.races = {} => W!Heard = W!Addressees(page) /\ (page.reported => W!Heard # {})
  <2>1. page.start = W!NoStart /\ page.warm = "none" /\ W!NoStart.stage = "none" /\ W!NoStart.canceled = FALSE
    BY <1>4 DEF W!Settled, W!NoStart
  <2>2. page.served = "live" => page.producer = "live"
    BY <2>1 DEF WebIInv, WebGood, Fine, Struct, Making
  <2>3. page.producer = "live" => page.served = "live"
    BY DEF WebIInv, WebGood, Fine, Struct, Making
  <2>4. "warm" \notin page.races /\ W!Addressees(page) = {} => W!Heard = {}
    BY <2>2 DEF WebIInv, WebGood, Fine, NotAlone, W!Heard
  <2>5. ASSUME page.races = {} PROVE W!Heard = W!Addressees(page) /\ (page.reported => W!Heard # {})
    <3>1. page.talking <=> page.producer = "live"
      BY <2>1, <2>5 DEF WebIInv, WebGood, Fine, Sync
    <3>2. /\ page.current = W!Addressees(page) /\ (page.reported => page.current # {})
          /\ page.talking => page.routed = page.current
          /\ page.current # {} => page.talking
      <4>1. page.waiting = <<>> /\ ~Starting(page)
        BY <2>1 DEF WebIInv, WebGood, Fine, Struct, Queued, Starting
      <4> QED BY <2>5, <4>1 DEF WebIInv, WebGood, Fine, Addressed
    <3> QED BY <2>2, <2>3, <3>1, <3>2 DEF W!Heard
  <2> QED BY <2>4, <2>5
<1> QED BY <1>1, <1>2, <1>3, <1>4 DEF W!TalkFollowsInputs, All

\* Whatever is pressed, locked, slid, stopped, prepared or refused, once all is
\* answered the server passes on to what is held or locked, up to the races that
\* TalkFollowsInputs names.
THEOREM TalkFollows == ASSUME W!ControlsAssumption PROVE W!Spec => []W!TalkFollowsInputs
<1>1. W!Spec => []WebIInv
  <2>1. W!Init => WebIInv
    BY WebInitIs
  <2>2. WebIInv /\ [W!Next]_(W!vars) => WebIInv'
    BY WebNextKeeps
  <2> QED BY <2>1, <2>2, PTL DEF W!Spec
<1>2. WebIInv => W!TalkFollowsInputs
  BY GoodFollows
<1> QED BY <1>1, <1>2, PTL

-----------------------------------------------------------------------------
(***************************************************************************)
(* Proofs about the microphone of a page, for any number of changes,       *)
(* presses and faults: what is on the air is alive and adjusted by the     *)
(* page, and the microphone is let go.                                     *)
(*                                                                         *)
(* Every handler is shown to keep the invariant of a page, from what it    *)
(* finds; a handler that calls another uses what is known of that one.     *)
(***************************************************************************)

(***************************************************************************)
(* Types: a page by its fields.                                            *)
(***************************************************************************)
MicNames ==
  {"kind", "processing", "settings", "monitor", "promise", "mic", "open", "chain", "meter", "timer", "voice",
   "running", "up", "producer", "served", "streaming", "manual", "wanted", "talking", "start", "refresh", "races",
   "calls"}

\* Nothing but the fields in S differs.
MicSameBut(p, q, S) == \A f \in MicNames \ S : q[f] = p[f]

UserCalls == {"initial", "monitor", "refresh", "voice", "warm", "talk"}
FeedCalls == {"initial", "monitor", "feed"}
Owns == {"talk", "warm", "feed"}

Makings == [n : Nat, track : Nat, chain : Nat]
CallTypes == [id : Nat, of : UserCalls \cup FeedCalls, at : {"mic", "produce"}, made : Makings]

\* Those which own the producer of the page also make it.
CallOf(kind, c) ==
  /\ c.of \in IF kind = "user" THEN UserCalls ELSE FeedCalls
  /\ IF c.at = "mic" THEN c.made = M!NoProducer ELSE c.of \in Owns /\ c.made.n # 0

Shape(p) ==
  /\ DOMAIN p = MicNames
  /\ p.kind \in {"user", "feed"} /\ p.open \subseteq Nat /\ p.meter \in Nat /\ p.chain \in [of : Nat, id : Nat]
  /\ p.producer \in Makings /\ p.served \subseteq Makings /\ p.calls \subseteq CallTypes
  /\ p.start \in {"none", "live", "canceled"} /\ p.streaming \in BOOLEAN /\ p.manual \in BOOLEAN

Finite(p) == IsFiniteSet(p.open) /\ IsFiniteSet(p.served) /\ IsFiniteSet(p.calls)

Kinds(p) ==
  /\ p.mic \in p.open \cup {0}
  /\ \A c \in p.calls : CallOf(p.kind, c)
  /\ p.kind = "user" => ~p.streaming
  /\ p.kind = "feed" => ~p.talking /\ ~p.voice

MicTypes(p) == Shape(p) /\ Finite(p) /\ Kinds(p)

(***************************************************************************)
(* The inductive invariant, up to the first race.                          *)
(***************************************************************************)
Producing(p) == \E c \in p.calls : c.at = "produce"
Owned(p) == \E c \in p.calls : c.of \in Owns

\* One track is open at most, and chain and meter are of it.
Tracks(p) ==
  /\ p.open = {p.mic} \ {0}
  /\ p.meter \in {0, p.mic}
  /\ p.chain # M!NoChain => p.chain.of = p.mic /\ p.mic # 0 /\ p.chain.id # 0

\* The open track is sent, through the chain; without it only if a talk began
\* before the processing was switched on.
Sends(p, r) == p.mic # 0 /\ r.track = p.mic /\ (r.chain = p.chain.id \/ (p.refresh /\ r.chain = 0))

\* What is on the air, and what is about to be.
OnAir(p) ==
  /\ p.served = {p.producer} \ {M!NoProducer}
  /\ p.producer # M!NoProducer => Sends(p, p.producer) /\ p.up
  /\ \A c \in p.calls : c.at = "produce" => Sends(p, c.made) /\ p.up
  /\ (p.producer # M!NoProducer \/ Producing(p)) /\ ~p.refresh => (p.processing <=> p.chain # M!NoChain)

\* One call owns the producer at most, and only where there is none.
Once(p) ==
  /\ \A c, d \in p.calls : c.of \in Owns /\ d.of \in Owns => c = d
  /\ Owned(p) => p.producer = M!NoProducer
  /\ M!Waits(p, "talk") <=> p.start # "none"

\* A feed that was not stopped by hand streams, or will.
FeedInv(p) ==
  p.kind = "feed" =>
    /\ p.streaming <=> p.producer # M!NoProducer
    /\ IF p.manual THEN ~p.streaming /\ ~Owned(p) ELSE p.streaming \/ Owned(p) \/ (~p.up /\ p.wanted)

\* Somebody will let go of an open microphone.
MicLetGo(p) ==
  p.mic # 0 =>
    \/ p.settings \/ p.voice \/ p.producer # M!NoProducer \/ p.talking \/ p.start # "none" \/ p.timer
    \/ p.calls # {} \/ (~p.up /\ (M!User(p) \/ (~p.manual /\ p.wanted)))

Safe(p) == Tracks(p) /\ OnAir(p) /\ Once(p) /\ FeedInv(p)
SafeIf(p) == p.races = {} => Safe(p)
MicGood(p) == Safe(p) /\ MicLetGo(p)
MicKeeps(p) == MicTypes(p) /\ (p.races = {} => MicGood(p))

MicIInv == MicKeeps(page)

(***************************************************************************)
(* Numbers.                                                                *)
(***************************************************************************)
(* An unused number of a finite set is a positive one outside it.          *)
LEMMA UnusedIs == ASSUME NEW S, IsFiniteSet(S) PROVE M!Unused(S) \in Nat \ {0} /\ M!Unused(S) \notin S
<1> DEFINE N == 1 .. Cardinality(S) + 1
<1>1. Cardinality(S) \in Nat
  BY FS_CardinalityType
<1>2. IsFiniteSet(N) /\ Cardinality(N) = Cardinality(S) + 1
  BY <1>1, FS_Interval
<1>3. \E n \in N : n \notin S
  <2> SUFFICES ASSUME N \subseteq S PROVE FALSE
    OBVIOUS
  <2>1. Cardinality(N) <= Cardinality(S)
    BY FS_Subset, Zenon
  <2> QED BY <1>1, <1>2, <2>1
<1>4. M!Unused(S) \in N /\ M!Unused(S) \notin S
  <2>1. Cardinality(S) = M!Cardinality(S)
    BY DEF Cardinality, M!Cardinality
  <2>2. N = 1 .. M!Cardinality(S) + 1
    BY <2>1
  <2> HIDE DEF N
  <2> QED BY <1>3, <2>2 DEF M!Unused
<1> QED BY <1>1, <1>4

(* Four things are finitely many.                                          *)
LEMMA FewAreFinite == ASSUME NEW a, NEW b, NEW c, NEW d PROVE IsFiniteSet({a, b, c, d})
<1>1. IsFiniteSet({a})
  BY FS_Singleton
<1>2. IsFiniteSet({a} \cup {b})
  BY <1>1, FS_AddElement
<1>3. IsFiniteSet({a} \cup {b} \cup {c})
  BY <1>2, FS_AddElement
<1>4. IsFiniteSet({a} \cup {b} \cup {c} \cup {d})
  BY <1>3, FS_AddElement
<1>5. {a, b, c, d} = {a} \cup {b} \cup {c} \cup {d}
  OBVIOUS
<1> QED BY <1>4, <1>5

(* There is always a fresh name.                                           *)
LEMMA FreshIs == ASSUME NEW p, MicTypes(p) PROVE M!Fresh(p) \in Nat \ {0}
<1> DEFINE made == {c.made : c \in p.calls} \cup p.served
           ns == {r.n : r \in made}
           ts == {r.track : r \in made}
           cs == {r.chain : r \in made}
           few == {p.mic, p.meter, p.chain.of, p.chain.id}
<1>1. IsFiniteSet({c.made : c \in p.calls})
  <2> DEFINE f == [c \in p.calls |-> c.made]
  <2>1. f \in Surjection(p.calls, {c.made : c \in p.calls})
    BY DEF Surjection
  <2> QED BY <2>1, FS_Surjection DEF MicTypes, Finite
<1>2. IsFiniteSet(made)
  BY <1>1, FS_Union DEF MicTypes, Finite
<1> HIDE DEF made
<1>3. IsFiniteSet(ns)
  <2> DEFINE f == [r \in made |-> r.n]
  <2>1. f \in Surjection(made, ns)
    BY DEF Surjection
  <2> QED BY <1>2, <2>1, FS_Surjection
<1>4. IsFiniteSet(ts)
  <2> DEFINE f == [r \in made |-> r.track]
  <2>1. f \in Surjection(made, ts)
    BY DEF Surjection
  <2> QED BY <1>2, <2>1, FS_Surjection
<1>5. IsFiniteSet(cs)
  <2> DEFINE f == [r \in made |-> r.chain]
  <2>1. f \in Surjection(made, cs)
    BY DEF Surjection
  <2> QED BY <1>2, <2>1, FS_Surjection
<1>6. IsFiniteSet(few)
  BY FewAreFinite
<1>7. IsFiniteSet(p.open)
  BY DEF MicTypes, Finite
<1> HIDE DEF ns, ts, cs, few
<1>8. IsFiniteSet(p.open \cup few \cup ns \cup ts \cup cs)
  BY <1>3, <1>4, <1>5, <1>6, <1>7, FS_Union, Zenon
<1>9. M!Fresh(p) = M!Unused(p.open \cup few \cup ns \cup ts \cup cs)
  BY DEF M!Fresh, few, ns, ts, cs, made
<1> QED BY <1>8, <1>9, UnusedIs

(* A call is added to those under way, and nothing else changes.           *)
LEMMA CallEffect ==
  ASSUME NEW p, MicTypes(p), NEW of \in UserCalls \cup FeedCalls, NEW at \in {"mic", "produce"}, NEW made \in Makings,
         CallOf(p.kind, [of |-> of, at |-> at, made |-> made])
  PROVE  LET q == M!Call(p, of, at, made) IN
         /\ MicTypes(q) /\ MicSameBut(p, q, {"calls"})
         /\ \E c \in CallTypes : c.of = of /\ c.at = at /\ c.made = made /\ q.calls = p.calls \cup {c}
<1> DEFINE others == {c \in p.calls : c.of = of /\ c.at = at}
           id == M!Unused({c.id : c \in others} \cup {0})
           x == [id |-> id, of |-> of, at |-> at, made |-> made]
           q == M!Call(p, of, at, made)
<1>1. id \in Nat
  <2> DEFINE f == [c \in others |-> c.id]
  <2>1. f \in Surjection(others, {c.id : c \in others})
    BY DEF Surjection
  <2>2. IsFiniteSet(others)
    BY FS_Subset DEF MicTypes, Finite
  <2>3. IsFiniteSet({c.id : c \in others})
    BY <2>1, <2>2, FS_Surjection
  <2> QED BY <2>3, FS_AddElement, UnusedIs
<1>2. q = [p EXCEPT !.calls = p.calls \cup {x}]
  BY DEF M!Call
<1> HIDE DEF id
<1>3. x \in CallTypes /\ x.of = of /\ x.at = at /\ x.made = made
  BY <1>1 DEF CallTypes
<1>4. CallOf(p.kind, x)
  BY <1>3 DEF CallOf
<1> HIDE DEF x, q
<1>5. q.calls = p.calls \cup {x} /\ MicSameBut(p, q, {"calls"})
  BY <1>2 DEF MicSameBut, MicTypes, Shape, MicNames
<1>6. IsFiniteSet(q.calls)
  BY <1>5, FS_AddElement DEF MicTypes, Finite
<1>7. MicTypes(q)
  BY <1>2, <1>3, <1>4, <1>6 DEF MicTypes, Shape, MicNames, Finite, Kinds
<1>8. MicTypes(q) /\ MicSameBut(p, q, {"calls"})
      /\ \E c \in CallTypes : c.of = of /\ c.at = at /\ c.made = made /\ q.calls = p.calls \cup {c}
  BY <1>3, <1>5, <1>7
<1> QED BY <1>8 DEF q

(***************************************************************************)
(* The parts of a page.                                                    *)
(***************************************************************************)
(* The chain made for the track is the one there was, if there was one.    *)
LEMMA ChainKeeps ==
  ASSUME NEW p, MicTypes(p)
  PROVE  LET q == M!Chain(p) IN
         /\ MicTypes(q) /\ MicSameBut(p, q, {"chain"})
         /\ Tracks(p) /\ p.mic # 0 => Tracks(q) /\ q.chain # M!NoChain
         /\ Tracks(p) /\ p.chain # M!NoChain => q.chain = p.chain
<1> DEFINE q == M!Chain(p)
<1>1. CASE p.chain.of = p.mic
  BY <1>1 DEF M!Chain, MicSameBut, Tracks, M!NoChain
<1>2. CASE p.chain.of # p.mic
  <2>1. PICK n \in Nat \ {0} : n = M!Fresh(p)
    BY FreshIs
  <2>2. q = [p EXCEPT !.chain = [of |-> p.mic, id |-> n]]
    BY <1>2, <2>1 DEF M!Chain
  <2>3. p.mic \in Nat
    BY DEF MicTypes, Shape, Kinds
  <2> HIDE DEF q
  <2>4. MicTypes(q) /\ MicSameBut(p, q, {"chain"}) /\ q.chain = [of |-> p.mic, id |-> n]
    BY <2>2, <2>3 DEF MicTypes, Shape, MicNames, Finite, Kinds, MicSameBut
  <2>5. Tracks(p) /\ p.mic # 0 => Tracks(q) /\ q.chain # M!NoChain
    BY <2>2, <2>3 DEF MicTypes, Shape, MicNames, Tracks, M!NoChain
  <2>6. Tracks(p) /\ p.chain # M!NoChain => q.chain = p.chain
    BY <1>2 DEF Tracks
  <2> QED BY <2>4, <2>5, <2>6 DEF q
<1> QED BY <1>1, <1>2

(* Once the chain fits the setting, what is on the air still goes through  *)
(* it: a track is sent without one only until the talk that sent it ends.  *)
LEMMA ChainedKeeps ==
  ASSUME NEW p, MicTypes(p)
  PROVE  LET q == M!Chained(p) IN
         /\ MicTypes(q) /\ MicSameBut(p, q, {"chain", "races"}) /\ p.races \subseteq q.races
         /\ Tracks(p) /\ (p.processing => p.mic # 0) /\ q.races = {} =>
              /\ Tracks(q) /\ (p.processing <=> q.chain # M!NoChain)
              /\ OnAir(p) => OnAir(q)
<1> DEFINE q == M!Chained(p)
<1>1. CASE p.processing
  <2>1. q = M!Chain(p)
    BY <1>1 DEF M!Chained
  <2>2. /\ MicTypes(q) /\ MicSameBut(p, q, {"chain"})
        /\ Tracks(p) /\ p.mic # 0 => Tracks(q) /\ q.chain # M!NoChain
        /\ Tracks(p) /\ p.chain # M!NoChain => q.chain = p.chain
    BY <2>1, ChainKeeps
  <2> HIDE DEF q
  <2>3. MicSameBut(p, q, {"chain", "races"}) /\ q.races = p.races /\ (p.processing <=> q.processing)
    BY <2>2 DEF MicSameBut, MicNames
  <2>4. ASSUME Tracks(p), OnAir(p), p.mic # 0 PROVE OnAir(q)
    BY <1>1, <2>2, <2>4 DEF MicSameBut, MicNames, OnAir, Sends, Producing, M!NoChain
  <2> QED BY <1>1, <2>2, <2>3, <2>4 DEF q
<1>2. CASE ~p.processing
  <2>1. q = M!Unchained(IF p.refresh THEN M!Race(p, "cut") ELSE p)
    BY <1>2 DEF M!Chained
  <2> HIDE DEF q
  <2>2. MicTypes(q) /\ MicSameBut(p, q, {"chain", "races"}) /\ p.races \subseteq q.races /\ q.chain = M!NoChain
    BY <2>1 DEF MicTypes, Shape, MicNames, Finite, Kinds, MicSameBut, M!Unchained, M!Race, M!NoChain
  <2>3. q.races = {} => ~p.refresh
    BY <2>1 DEF M!Unchained, M!Race, MicTypes, Shape, MicNames
  <2>4. Tracks(p) => Tracks(q)
    BY <2>2 DEF MicSameBut, MicNames, Tracks
  <2>5. ASSUME OnAir(p), ~p.refresh PROVE OnAir(q)
    BY <1>2, <2>2, <2>5 DEF MicSameBut, MicNames, OnAir, Sends, Producing
  <2> QED BY <1>2, <2>2, <2>3, <2>4, <2>5 DEF q
<1> QED BY <1>1, <1>2

(* A track that is open already is only taken out of the timer.            *)
LEMMA OpenedKeeps ==
  ASSUME NEW p, MicTypes(p)
  PROVE  LET q == M!Opened(p) IN
         /\ MicTypes(q) /\ MicSameBut(p, q, {"chain", "races", "timer"}) /\ p.races \subseteq q.races
         /\ Tracks(p) /\ p.mic # 0 /\ q.races = {} =>
              /\ Tracks(q) /\ (OnAir(p) => OnAir(q))
<1> DEFINE r == [p EXCEPT !.timer = FALSE]
           q == M!Opened(p)
<1>1. MicTypes(r) /\ MicSameBut(p, r, {"timer"}) /\ (Tracks(p) => Tracks(r)) /\ (OnAir(p) => OnAir(r))
  BY DEF MicTypes, Shape, MicNames, Finite, Kinds, MicSameBut, Tracks, OnAir, Sends, Producing
<1>2. q = IF p.kind = "user" THEN M!Chained(r) ELSE r
  BY <1>1 DEF M!Opened, M!User, MicSameBut, MicNames
<1> HIDE DEF q, r
<1>3. CASE p.kind = "user"
  <2>1. /\ MicTypes(q) /\ MicSameBut(r, q, {"chain", "races"}) /\ r.races \subseteq q.races
        /\ Tracks(r) /\ r.mic # 0 /\ q.races = {} => Tracks(q) /\ (OnAir(r) => OnAir(q))
    BY <1>1, <1>2, <1>3, ChainedKeeps
  <2>2. MicSameBut(p, q, {"chain", "races", "timer"}) /\ p.races = r.races /\ p.mic = r.mic
    BY <1>1, <2>1 DEF MicSameBut, MicNames
  <2> QED BY <1>1, <2>1, <2>2 DEF q
<1>4. CASE p.kind # "user"
  <2>1. MicSameBut(p, q, {"chain", "races", "timer"}) /\ p.races = q.races
    BY <1>1, <1>2, <1>4 DEF MicSameBut, MicNames
  <2> QED BY <1>1, <1>2, <1>4, <2>1 DEF q
<1> QED BY <1>3, <1>4

(* The types after a refusal, which is a race.                             *)
LEMMA FailedTypes ==
  ASSUME NEW p, MicTypes(p), NEW of \in UserCalls \cup FeedCalls
  PROVE  MicTypes(M!Failed(p, of)) /\ M!Failed(p, of).races = p.races
<1> DEFINE q == M!Failed(p, of)
<1>1. CASE of = "feed"
  BY <1>1 DEF M!Failed, MicTypes, Shape, MicNames, Finite, Kinds
<1>2. CASE of = "talk"
  BY <1>2 DEF M!Failed, MicTypes, Shape, MicNames, Finite, Kinds, M!Schedule
<1>3. CASE of = "monitor"
  BY <1>3 DEF M!Failed, MicTypes, Shape, MicNames, Finite, Kinds
<1>4. CASE of \notin {"feed", "talk", "monitor"}
  BY <1>4 DEF M!Failed
<1> QED BY <1>1, <1>2, <1>3, <1>4

(* Naming a race changes nothing else.                                     *)
LEMMA RaceTypes ==
  ASSUME NEW p, MicTypes(p), NEW name
  PROVE  LET q == M!Race(p, name) IN
         MicTypes(q) /\ MicSameBut(p, q, {"races"}) /\ q.races # {} /\ p.races \subseteq q.races
BY DEF M!Race, MicTypes, Shape, MicNames, Finite, Kinds, MicSameBut

(* A producer asked for while none is there or under way sends the open    *)
(* track through the chain.                                                *)
LEMMA ProduceKeeps ==
  ASSUME NEW p, MicTypes(p), NEW of \in Owns, of \in IF p.kind = "user" THEN UserCalls ELSE FeedCalls
  PROVE  LET q == M!Produce(p, of) IN
         /\ MicTypes(q) /\ p.races \subseteq q.races
         /\ /\ q.races = {} /\ Tracks(p) /\ OnAir(p) /\ p.mic # 0 /\ p.producer = M!NoProducer /\ ~Owned(p)
            /\ p.processing <=> p.chain # M!NoChain
            /\ of = "talk" <=> p.start # "none"
            /\ p.kind = "feed" => ~p.manual /\ ~p.streaming
            => MicGood(q)
<1> DEFINE q == M!Produce(p, of)
<1>1. CASE ~p.up
  <2>1. q = M!Failed(M!Race(p, "failed"), of)
    BY <1>1 DEF M!Produce
  <2>2. of \in UserCalls \cup FeedCalls
    OBVIOUS
  <2>3. MicTypes(q) /\ q.races = M!Race(p, "failed").races /\ p.races \subseteq q.races /\ q.races # {}
    BY <2>1, <2>2, RaceTypes, FailedTypes
  <2> QED BY <2>3
<1>2. CASE p.up
  <2>1. PICK n \in Nat \ {0} : n = M!Fresh(p)
    BY FreshIs
  <2> DEFINE made == [n |-> n, track |-> p.mic, chain |-> p.chain.id]
  <2>2. q = M!Call(p, of, "produce", made)
    BY <1>2, <2>1 DEF M!Produce
  <2>3. made \in Makings /\ made.n = n /\ made.track = p.mic /\ made.chain = p.chain.id
    BY DEF MicTypes, Shape, Kinds, Makings
  <2> HIDE DEF made, q
  <2>4. of \in UserCalls \cup FeedCalls /\ CallOf(p.kind, [of |-> of, at |-> "produce", made |-> made])
    BY <2>1, <2>3 DEF CallOf
  <2>5. /\ MicTypes(q) /\ MicSameBut(p, q, {"calls"})
        /\ \E c \in CallTypes : c.of = of /\ c.at = "produce" /\ c.made = made /\ q.calls = p.calls \cup {c}
    BY <2>2, <2>3, <2>4, CallEffect
  <2>6. PICK c \in CallTypes : c.of = of /\ c.at = "produce" /\ c.made = made /\ q.calls = p.calls \cup {c}
    BY <2>5
  <2>7. q.races = p.races
    BY <2>5 DEF MicSameBut, MicNames
  <2>8. ASSUME Tracks(p), OnAir(p), p.mic # 0, p.producer = M!NoProducer, ~Owned(p),
               p.processing <=> p.chain # M!NoChain, of = "talk" <=> p.start # "none",
               p.kind = "feed" => ~p.manual /\ ~p.streaming
        PROVE  MicGood(q)
    <3>1. Tracks(q)
      BY <2>5, <2>8 DEF MicSameBut, MicNames, Tracks
    <3>2. OnAir(q)
      BY <1>2, <2>3, <2>5, <2>6, <2>8 DEF MicSameBut, MicNames, OnAir, Sends, Owned, Producing, MicTypes, Kinds, CallOf
    <3>3. Once(q)
      BY <2>5, <2>6, <2>8 DEF MicSameBut, MicNames, Once, Owned, M!Waits, Owns
    <3>4. FeedInv(q) /\ MicLetGo(q)
      BY <2>5, <2>6, <2>8 DEF MicSameBut, MicNames, FeedInv, MicLetGo, Owned
    <3> QED BY <3>1, <3>2, <3>3, <3>4 DEF MicGood, Safe
  <2> QED BY <2>5, <2>7, <2>8 DEF q
<1> QED BY <1>1, <1>2

(* With the timer set the microphone will be let go.                       *)
LEMMA ScheduleKeeps ==
  ASSUME NEW p, MicTypes(p)
  PROVE  LET q == M!Schedule(p) IN
         MicTypes(q) /\ MicSameBut(p, q, {"timer"}) /\ q.races = p.races /\ (Safe(p) => MicGood(q))
<1> DEFINE q == M!Schedule(p)
<1>1. MicTypes(q) /\ MicSameBut(p, q, {"timer"}) /\ q.races = p.races /\ (q.voice \/ q.timer)
  BY DEF MicTypes, Shape, MicNames, Finite, Kinds, M!Schedule, MicSameBut
<1> HIDE DEF q
<1>2. ASSUME Safe(p) PROVE MicGood(q)
  BY <1>1, <1>2 DEF MicSameBut, MicNames, MicGood, Safe, Tracks, OnAir, Once, FeedInv, MicLetGo, Owned, Producing, M!Waits, Sends
<1> QED BY <1>1, <1>2 DEF q

(* Throwing the track away is safe if no producer sends it.                *)
LEMMA CleanupKeeps ==
  ASSUME NEW p, MicTypes(p)
  PROVE  LET q == M!Cleanup(p) IN
         /\ MicTypes(q) /\ p.races \subseteq q.races
         /\ MicSameBut(p, q, {"chain", "races", "timer", "meter", "monitor", "promise", "open", "mic"})
         /\ q.mic = 0
         /\ FeedInv(p) <=> FeedInv(q)
         /\ /\ q.races = {}
            /\ p.races = {} => Once(p) /\ Tracks(p) /\ p.served = {} /\ p.producer = M!NoProducer
            => Tracks(q) /\ OnAir(q) /\ Once(q) /\ MicLetGo(q)
<1> DEFINE q == M!Cleanup(p)
<1>1. Shape(q)
  BY DEF MicTypes, Shape, MicNames, M!Cleanup, M!Unchained, M!Unmetered, M!Broken, M!Race, M!NoChain
<1>2. Kinds(q)
  BY DEF MicTypes, Shape, MicNames, Kinds, CallOf, M!Cleanup, M!Unchained, M!Unmetered, M!Broken, M!Race, M!NoChain
<1>3. /\ q.open = p.open \ {p.mic} /\ q.mic = 0 /\ q.meter = 0 /\ q.chain = M!NoChain
      /\ MicSameBut(p, q, {"chain", "races", "timer", "meter", "monitor", "promise", "open", "mic"})
      /\ p.races \subseteq q.races /\ (q.races = {} => ~Producing(p))
  BY DEF MicTypes, Shape, MicNames, M!Cleanup, M!Unchained, M!Unmetered, M!Broken, M!Race, M!NoChain, MicSameBut, Producing
<1> HIDE DEF q
<1>4. Finite(q)
  <2>1. q.served = p.served /\ q.calls = p.calls
    BY <1>3 DEF MicSameBut, MicNames
  <2> QED BY <1>3, <2>1, FS_Subset, Zenon DEF MicTypes, Finite
<1>5. ASSUME Once(p), Tracks(p), p.served = {}, p.producer = M!NoProducer, q.races = {}
      PROVE  Tracks(q) /\ OnAir(q) /\ Once(q) /\ MicLetGo(q)
  BY <1>3, <1>5 DEF MicSameBut, MicNames, Tracks, OnAir, Once, MicLetGo, Owned, Producing, M!Waits, Sends, M!NoChain
<1>6. FeedInv(p) <=> FeedInv(q)
  BY <1>3 DEF MicSameBut, MicNames, FeedInv, Owned
<1> QED BY <1>1, <1>2, <1>3, <1>4, <1>5, <1>6 DEF q, MicTypes

(* The meter takes a clone of the open track.                              *)
LEMMA MeteredKeeps ==
  ASSUME NEW p, MicTypes(p)
  PROVE  LET q == M!Metered(p) IN MicTypes(q) /\ MicSameBut(p, q, {"meter"}) /\ (Safe(p) => Safe(q)) /\ (MicGood(p) => MicGood(q))
<1> DEFINE q == M!Metered(p)
<1>1. MicTypes(q) /\ MicSameBut(p, q, {"meter"}) /\ q.meter \in {p.meter, p.mic}
  BY DEF MicTypes, Shape, MicNames, Finite, Kinds, M!Metered, MicSameBut, M!User
<1> HIDE DEF q
<1>2. (Safe(p) => Safe(q)) /\ (MicLetGo(p) => MicLetGo(q))
  BY <1>1 DEF MicSameBut, MicNames, Safe, Tracks, OnAir, Once, FeedInv, MicLetGo, Owned, Producing, M!Waits, Sends, M!User
<1> QED BY <1>1, <1>2 DEF q, MicGood

(* What the calls of a page have to do with its producer does not depend   *)
(* on the chain, the meter and the settings.                               *)
LEMMA SafeFrame ==
  ASSUME NEW p, NEW q, MicSameBut(p, q, {"chain", "races", "timer", "meter", "monitor", "promise", "settings", "voice", "running"})
  PROVE  (Once(p) <=> Once(q)) /\ (FeedInv(p) <=> FeedInv(q)) /\ (Owned(p) <=> Owned(q))
BY DEF MicSameBut, MicNames, Once, FeedInv, Owned, M!Waits

(***************************************************************************)
(* What each does with the track it asked for.                             *)
(***************************************************************************)
(* A producer in reserve is made if there is none and none is under way.   *)
LEMMA WarmOnKeeps ==
  ASSUME NEW p, MicTypes(p), SafeIf(p), p.kind = "user", p.mic # 0, p.races = {} => ~M!Waits(p, "warm")
  PROVE  LET q == M!WarmOn(p) IN MicKeeps(q) /\ p.races \subseteq q.races
<1> DEFINE q == M!WarmOn(p)
           r == M!Chained(p)
<1>1. CASE p.start # "none" \/ p.talking \/ p.producer # M!NoProducer
  BY <1>1 DEF M!WarmOn, MicKeeps, SafeIf, MicGood, MicLetGo
<1>2. CASE ~(p.start # "none" \/ p.talking \/ p.producer # M!NoProducer)
  <2>1. q = M!Produce(r, "warm")
    BY <1>2 DEF M!WarmOn
  <2>2. /\ MicTypes(r) /\ MicSameBut(p, r, {"chain", "races"}) /\ p.races \subseteq r.races
        /\ Tracks(p) /\ r.races = {} =>
              /\ Tracks(r) /\ (p.processing <=> r.chain # M!NoChain)
              /\ OnAir(p) => OnAir(r)
    BY ChainedKeeps
  <2> HIDE DEF r, q
  <2>3. /\ r.kind = "user" /\ r.mic # 0 /\ r.producer = M!NoProducer /\ r.start = "none" /\ r.calls = p.calls
        /\ (p.processing <=> r.processing)
    BY <1>2, <2>2 DEF MicSameBut, MicNames
  <2>4. MicTypes(q) /\ r.races \subseteq q.races
    BY <2>1, <2>2, <2>3, ProduceKeeps DEF Owns, UserCalls
  <2>5. ASSUME q.races = {} PROVE MicGood(q)
    <3>1. r.races = {} /\ p.races = {} /\ Safe(p)
      BY <2>2, <2>4, <2>5 DEF SafeIf
    <3>2. Tracks(r) /\ OnAir(r) /\ (r.processing <=> r.chain # M!NoChain)
      BY <2>2, <2>3, <3>1 DEF Safe
    <3>3. ~Owned(r)
      BY <1>2, <2>3, <3>1 DEF Safe, Once, Owned, Owns, M!Waits, MicTypes, Kinds, CallOf, UserCalls
    <3> QED BY <2>1, <2>2, <2>3, <2>5, <3>2, <3>3, ProduceKeeps DEF Owns, UserCalls
  <2> QED BY <2>2, <2>4, <2>5 DEF q, MicKeeps
<1> QED BY <1>1, <1>2

(* The same of a page whose calls are in order.                            *)
LEMMA OpenedSafe ==
  ASSUME NEW p, MicTypes(p), SafeIf(p), p.mic # 0
  PROVE  LET q == M!Opened(p) IN
         MicTypes(q) /\ SafeIf(q) /\ MicSameBut(p, q, {"chain", "races", "timer"}) /\ p.races \subseteq q.races /\ q.mic # 0
<1> DEFINE q == M!Opened(p)
<1>1. /\ MicTypes(q) /\ MicSameBut(p, q, {"chain", "races", "timer"}) /\ p.races \subseteq q.races
      /\ Tracks(p) /\ q.races = {} => Tracks(q) /\ (OnAir(p) => OnAir(q))
  BY OpenedKeeps
<1> HIDE DEF q
<1>2. q.mic # 0
  BY <1>1 DEF MicSameBut, MicNames
<1>3. MicSameBut(p, q, {"chain", "races", "timer", "meter", "monitor", "promise", "settings", "voice", "running"})
  BY <1>1 DEF MicSameBut
<1>4. (Once(p) <=> Once(q)) /\ (FeedInv(p) <=> FeedInv(q))
  BY <1>3, SafeFrame
<1> QED BY <1>1, <1>2, <1>4 DEF q, SafeIf, Safe

(* A page that asks for the microphone for one of its uses.                *)
LEMMA AskLater ==
  ASSUME NEW p, MicTypes(p), SafeIf(p), NEW of \in {"initial", "monitor", "refresh", "voice", "warm"},
         of \in IF p.kind = "user" THEN UserCalls ELSE FeedCalls,
         of = "warm" => p.start = "none" /\ p.producer = M!NoProducer /\ ~M!Waits(p, "warm")
  PROVE  LET q == M!Call(p, of, "mic", M!NoProducer) IN MicKeeps(q) /\ MicSameBut(p, q, {"calls"})
<1> DEFINE q == M!Call(p, of, "mic", M!NoProducer)
<1>1. /\ of \in UserCalls \cup FeedCalls /\ M!NoProducer \in Makings
      /\ CallOf(p.kind, [of |-> of, at |-> "mic", made |-> M!NoProducer])
  BY DEF CallOf, M!NoProducer, Makings, UserCalls
<1>2. /\ MicTypes(q) /\ MicSameBut(p, q, {"calls"})
      /\ \E c \in CallTypes : c.of = of /\ c.at = "mic" /\ c.made = M!NoProducer /\ q.calls = p.calls \cup {c}
  BY <1>1, CallEffect
<1> HIDE DEF q
<1>3. PICK c \in CallTypes : c.of = of /\ c.at = "mic" /\ q.calls = p.calls \cup {c}
  BY <1>2
<1>4. ASSUME Safe(p) PROVE MicGood(q)
  <2>1. Tracks(q) /\ OnAir(q)
    BY <1>2, <1>3, <1>4 DEF MicSameBut, MicNames, Safe, Tracks, OnAir, Producing, Sends
  <2>2. of = "warm" => ~Owned(p)
    BY <1>4 DEF Safe, Once, Owned, Owns, M!Waits, MicTypes, Kinds, CallOf, UserCalls, FeedCalls
  <2>3. Once(q)
    BY <1>2, <1>3, <1>4, <2>2 DEF MicSameBut, MicNames, Safe, Once, Owned, M!Waits, Owns
  <2>4. FeedInv(q)
    BY <1>2, <1>3, <1>4 DEF MicSameBut, MicNames, Safe, FeedInv, Owned, Owns, FeedCalls
  <2>5. MicLetGo(q)
    BY <1>3 DEF MicLetGo
  <2> QED BY <2>1, <2>3, <2>4, <2>5 DEF MicGood, Safe
<1>5. q.races = p.races
  BY <1>2 DEF MicSameBut, MicNames
<1> QED BY <1>2, <1>4, <1>5 DEF q, MicKeeps, SafeIf

(* ensureWarmTalkProducer.                                                 *)
LEMMA WarmKeeps ==
  ASSUME NEW p, MicTypes(p), SafeIf(p), p.kind = "user"
  PROVE  LET q == M!Warm(p) IN MicKeeps(q) /\ p.races \subseteq q.races
<1> DEFINE q == M!Warm(p)
           busy == p.producer # M!NoProducer \/ p.start # "none" \/ p.talking \/ ~p.up \/ M!Waits(p, "warm")
<1>1. CASE busy
  <2>1. q = p
    BY <1>1 DEF M!Warm
  <2>2. MicLetGo(p)
    BY <1>1 DEF MicLetGo, M!Waits, M!User
  <2> QED BY <2>1, <2>2 DEF MicKeeps, SafeIf, MicGood
<1>2. CASE ~busy /\ p.mic # 0
  <2>1. q = M!WarmOn(M!Opened(p))
    BY <1>2 DEF M!Warm
  <2> DEFINE r == M!Opened(p)
  <2>2. MicTypes(r) /\ SafeIf(r) /\ MicSameBut(p, r, {"chain", "races", "timer"}) /\ p.races \subseteq r.races /\ r.mic # 0
    BY <1>2, OpenedSafe
  <2> HIDE DEF r
  <2>3. r.kind = "user" /\ ~M!Waits(r, "warm")
    BY <1>2, <2>2 DEF MicSameBut, MicNames, M!Waits
  <2>4. MicKeeps(M!WarmOn(r)) /\ r.races \subseteq M!WarmOn(r).races
    BY <2>2, <2>3, WarmOnKeeps
  <2> QED BY <2>1, <2>2, <2>4 DEF r
<1>3. CASE ~busy /\ p.mic = 0
  <2>1. q = M!Call(p, "warm", "mic", M!NoProducer)
    BY <1>3 DEF M!Warm
  <2> HIDE DEF q
  <2>2. MicKeeps(q) /\ MicSameBut(p, q, {"calls"})
    BY <1>3, <2>1, AskLater DEF UserCalls
  <2>3. q.races = p.races
    BY <2>2 DEF MicSameBut, MicNames
  <2> QED BY <2>2, <2>3 DEF q
<1> QED BY <1>1, <1>2, <1>3

(* The first microphone of a page.                                         *)
LEMMA InitialOnKeeps ==
  ASSUME NEW p, MicTypes(p), SafeIf(p)
  PROVE  LET q == M!InitialOn(p) IN MicKeeps(q)
<1> DEFINE idle == ~p.settings /\ p.producer = M!NoProducer /\ ~p.streaming /\ ~p.talking
           r == IF idle THEN M!Schedule(p) ELSE p
<1>1. M!InitialOn(p) = IF r.kind = "user" THEN M!Warm(r) ELSE r
  BY ScheduleKeeps DEF M!InitialOn, M!User, MicSameBut, MicNames
<1>2. MicTypes(r) /\ SafeIf(r)
  BY ScheduleKeeps DEF SafeIf, MicGood
<1>3. r.races = {} => MicGood(r)
  BY ScheduleKeeps DEF SafeIf, MicGood, MicLetGo, Safe, FeedInv, MicTypes, Kinds, Shape
<1> HIDE DEF r
<1> QED BY <1>1, <1>2, <1>3, WarmKeeps DEF MicKeeps

(* The level trigger, with the microphone.                                 *)
LEMMA VoiceOnKeeps ==
  ASSUME NEW p, MicTypes(p), SafeIf(p), p.kind = "user", p.mic # 0
  PROVE  LET q == M!VoiceOn(p) IN MicKeeps(q) /\ p.races \subseteq q.races /\ q.kind = "user"
<1> DEFINE q == M!VoiceOn(p)
<1>1. CASE ~p.voice
  <2>1. q = M!Race(p, "late")
    BY <1>1 DEF M!VoiceOn
  <2>2. MicTypes(q) /\ q.races # {} /\ p.races \subseteq q.races /\ q.kind = p.kind
    BY <2>1, RaceTypes DEF MicSameBut, MicNames
  <2> QED BY <2>2 DEF MicKeeps
<1>2. CASE p.voice
  <2> DEFINE r == IF p.processing THEN M!Chained(p) ELSE p
             s == [r EXCEPT !.running = TRUE]
  <2>1. q = M!Metered(s)
    BY <1>2 DEF M!VoiceOn
  <2>2. MicTypes(r) /\ MicSameBut(p, r, {"chain", "races"}) /\ p.races \subseteq r.races
    BY ChainedKeeps DEF MicSameBut
  <2>3. r.races = {} => Safe(r)
    <3>1. MicSameBut(p, r, {"chain", "races", "timer", "meter", "monitor", "promise", "settings", "voice", "running"})
      BY <2>2 DEF MicSameBut
    <3>2. (Once(p) <=> Once(r)) /\ (FeedInv(p) <=> FeedInv(r))
      BY <3>1, SafeFrame
    <3>3. r.races = {} => Safe(p)
      BY <2>2 DEF SafeIf
    <3>4. Safe(p) /\ r.races = {} => Tracks(r) /\ OnAir(r)
      BY ChainedKeeps DEF Safe
    <3> QED BY <3>2, <3>3, <3>4 DEF Safe
  <2> HIDE DEF r
  <2>4. MicTypes(s) /\ MicSameBut(r, s, {"running"}) /\ s.races = r.races
    BY <2>2 DEF MicTypes, Shape, MicNames, Finite, Kinds, MicSameBut
  <2>5. s.races = {} => Safe(s)
    BY <2>3, <2>4 DEF MicSameBut, MicNames, Safe, Tracks, OnAir, Once, FeedInv, Owned, Producing, M!Waits, Sends
  <2>6. s.voice = p.voice /\ s.kind = "user"
    BY <2>2, <2>4 DEF MicSameBut, MicNames
  <2>7. s.races = {} => MicGood(s)
    BY <1>2, <2>5, <2>6 DEF MicGood, MicLetGo
  <2> HIDE DEF s
  <2>8. MicKeeps(q) /\ q.races = s.races /\ q.kind = s.kind
    BY <2>1, <2>4, <2>7, MeteredKeeps DEF MicSameBut, MicNames, MicKeeps
  <2> QED BY <2>2, <2>4, <2>6, <2>8
<1> QED BY <1>1, <1>2

(* startVoiceTriggerMonitoring.                                            *)
LEMMA StartVoiceKeeps ==
  ASSUME NEW p, MicTypes(p), SafeIf(p), p.kind = "user"
  PROVE  LET q == M!StartVoice(p) IN
         MicTypes(q) /\ SafeIf(q) /\ p.races \subseteq q.races /\ q.kind = "user" /\ (p.voice \/ MicLetGo(p) => MicKeeps(q))
<1> DEFINE q == M!StartVoice(p)
<1>1. CASE ~p.voice \/ p.running
  <2>1. q = p
    BY <1>1 DEF M!StartVoice
  <2> QED BY <2>1 DEF MicKeeps, MicGood, MicLetGo, SafeIf
<1>2. CASE p.voice /\ ~p.running /\ p.mic # 0
  <2> DEFINE r == M!Opened(p)
  <2>1. q = M!VoiceOn(r)
    BY <1>2 DEF M!StartVoice
  <2>2. MicTypes(r) /\ SafeIf(r) /\ MicSameBut(p, r, {"chain", "races", "timer"}) /\ p.races \subseteq r.races /\ r.mic # 0
    BY <1>2, OpenedSafe
  <2> HIDE DEF r
  <2>3. r.kind = "user"
    BY <2>2 DEF MicSameBut, MicNames
  <2>4. MicKeeps(q) /\ r.races \subseteq q.races /\ q.kind = "user"
    BY <2>1, <2>2, <2>3, VoiceOnKeeps
  <2> QED BY <2>2, <2>4 DEF MicKeeps, SafeIf, MicGood
<1>3. CASE p.voice /\ ~p.running /\ p.mic = 0
  <2>1. q = M!Call(p, "voice", "mic", M!NoProducer)
    BY <1>3 DEF M!StartVoice
  <2> HIDE DEF q
  <2>2. MicKeeps(q) /\ MicSameBut(p, q, {"calls"})
    BY <1>3, <2>1, AskLater DEF UserCalls
  <2>3. q.races = p.races /\ q.kind = p.kind
    BY <2>2 DEF MicSameBut, MicNames
  <2> QED BY <2>2, <2>3 DEF q, MicKeeps, SafeIf, MicGood
<1> QED BY <1>1, <1>2, <1>3

(* stopVoiceTriggerMonitoring sets the timer where nothing else uses the   *)
(* microphone.                                                             *)
LEMMA StopVoiceKeeps ==
  ASSUME NEW p, MicTypes(p), SafeIf(p)
  PROVE  LET q == M!StopVoice(p) IN MicKeeps(q) /\ q.races = p.races /\ q.kind = p.kind
<1> DEFINE r == IF p.settings THEN p ELSE M!Unmetered(p)
           s == [r EXCEPT !.running = FALSE]
           idle == ~p.settings /\ p.producer = M!NoProducer /\ ~p.talking /\ p.start = "none" /\ p.mic # 0
<1>1. M!StopVoice(p) = IF idle THEN M!Schedule(s) ELSE s
  BY DEF M!StopVoice
<1>2. MicTypes(s) /\ MicSameBut(p, s, {"running", "meter"}) /\ s.meter \in {p.meter, 0}
  BY DEF MicTypes, Shape, MicNames, Finite, Kinds, MicSameBut, M!Unmetered
<1> HIDE DEF s
<1>3. (Safe(p) => Safe(s)) /\ (~idle => MicLetGo(s)) /\ s.races = p.races /\ s.kind = p.kind
  BY <1>2 DEF MicSameBut, MicNames, Safe, Tracks, OnAir, Once, FeedInv, MicLetGo, Owned, Producing, M!Waits, Sends, M!User
<1> QED BY <1>1, <1>2, <1>3, ScheduleKeeps DEF MicKeeps, SafeIf, MicGood, MicSameBut, MicNames

(* What follows a refresh of the talk producer.                            *)
LEMMA RefreshOnKeeps ==
  ASSUME NEW p, MicTypes(p), SafeIf(p), p.kind = "user"
  PROVE  MicKeeps(M!RefreshOn(p)) /\ p.races \subseteq M!RefreshOn(p).races
<1> DEFINE r == M!StopVoice(p)
           s == M!StartVoice(r)
<1>1. M!RefreshOn(p) = M!Warm(s)
  BY DEF M!RefreshOn
<1>2. MicKeeps(r) /\ r.races = p.races /\ r.kind = p.kind
  BY StopVoiceKeeps
<1> HIDE DEF r
<1>3. MicTypes(s) /\ SafeIf(s) /\ r.races \subseteq s.races /\ s.kind = "user"
  BY <1>2, StartVoiceKeeps DEF MicKeeps, SafeIf, MicGood
<1> HIDE DEF s
<1> QED BY <1>1, <1>2, <1>3, WarmKeeps

(* The meter of the settings menu, with the microphone.                    *)
LEMMA MonitorOnKeeps ==
  ASSUME NEW p, MicTypes(p), SafeIf(p), p.mic # 0
  PROVE  LET q == M!MonitorOn(p) IN MicKeeps(q) /\ p.races \subseteq q.races /\ q.kind = p.kind
<1> DEFINE q == M!MonitorOn(p)
           no == [p EXCEPT !.promise = FALSE, !.monitor = FALSE]
           on == [p EXCEPT !.promise = FALSE, !.monitor = TRUE]
<1>1. CASE ~p.settings
  <2>1. q = M!Race(no, "late")
    BY <1>1 DEF M!MonitorOn
  <2>2. MicTypes(no) /\ no.races = p.races /\ no.kind = p.kind
    BY DEF MicTypes, Shape, MicNames, Finite, Kinds
  <2> HIDE DEF no
  <2>3. MicTypes(q) /\ q.races # {} /\ p.races \subseteq q.races /\ q.kind = p.kind
    BY <2>1, <2>2, RaceTypes DEF MicSameBut, MicNames
  <2> QED BY <2>3 DEF MicKeeps
<1>2. CASE p.settings
  <2>1. MicTypes(on) /\ MicSameBut(p, on, {"promise", "monitor"})
    BY DEF MicTypes, Shape, MicNames, Finite, Kinds, MicSameBut
  <2>2. q = IF p.kind = "user" THEN IF p.processing THEN M!Metered(M!Chained(on)) ELSE on ELSE M!Chained(on)
    BY <1>2 DEF M!MonitorOn, M!User
  <2> DEFINE r == M!Chained(on)
  <2> HIDE DEF on, q
  <2>3. (Safe(p) => Safe(on)) /\ on.races = p.races /\ on.kind = p.kind /\ on.mic # 0 /\ on.settings
    BY <1>2, <2>1 DEF MicSameBut, MicNames, Safe, Tracks, OnAir, Once, FeedInv, Owned, Producing, M!Waits, Sends
  <2>4. MicTypes(r) /\ MicSameBut(on, r, {"chain", "races"}) /\ on.races \subseteq r.races
    BY <2>1, ChainedKeeps
  <2>5. r.races = {} => Safe(r)
    <3>1. MicSameBut(on, r, {"chain", "races", "timer", "meter", "monitor", "promise", "settings", "voice", "running"})
      BY <2>4 DEF MicSameBut
    <3>2. (Once(on) <=> Once(r)) /\ (FeedInv(on) <=> FeedInv(r))
      BY <3>1, SafeFrame
    <3>3. r.races = {} => Safe(on)
      BY <2>3, <2>4 DEF SafeIf
    <3>4. Safe(on) /\ r.races = {} => Tracks(r) /\ OnAir(r)
      BY <2>1, <2>3, ChainedKeeps DEF Safe
    <3> QED BY <3>2, <3>3, <3>4 DEF Safe
  <2> HIDE DEF r
  <2>6. r.settings /\ r.kind = p.kind
    BY <2>3, <2>4 DEF MicSameBut, MicNames
  <2>7. (r.races = {} => MicGood(r)) /\ (on.races = {} => MicGood(on))
    BY <2>3, <2>5, <2>6 DEF MicGood, MicLetGo, SafeIf
  <2>8. LET m == M!Metered(r) IN MicKeeps(m) /\ m.races = r.races /\ m.kind = r.kind
    BY <2>4, <2>7, MeteredKeeps DEF MicKeeps, MicSameBut, MicNames
  <2> QED BY <2>1, <2>2, <2>3, <2>4, <2>6, <2>7, <2>8 DEF MicKeeps, r, q
<1> QED BY <1>1, <1>2

(* A talk, with the microphone: one that was given up meanwhile lets go of *)
(* it.                                                                     *)
LEMMA TalkOnKeeps ==
  ASSUME NEW p, MicTypes(p), p.kind = "user", p.start # "none", p.mic # 0,
         p.races = {} => Tracks(p) /\ OnAir(p) /\ ~Owned(p) /\ p.producer = M!NoProducer
  PROVE  LET q == M!TalkOn(p) IN MicKeeps(q) /\ p.races \subseteq q.races
<1> DEFINE q == M!TalkOn(p)
           no == [p EXCEPT !.start = "none"]
           r == M!Chained(p)
           on == [r EXCEPT !.talking = TRUE]
<1>1. CASE p.start = "canceled"
  <2>1. q = M!Schedule(no)
    BY <1>1 DEF M!TalkOn
  <2>2. MicTypes(no) /\ MicSameBut(p, no, {"start"}) /\ no.start = "none"
    BY DEF MicTypes, Shape, MicNames, Finite, Kinds, MicSameBut
  <2> HIDE DEF no
  <2>3. no.races = p.races /\ (p.races = {} => Safe(no))
    BY <2>2 DEF MicSameBut, MicNames, Safe, Tracks, OnAir, Once, FeedInv, Owned, Owns, Producing, M!Waits, Sends
  <2> QED BY <2>1, <2>2, <2>3, ScheduleKeeps DEF MicKeeps
<1>2. CASE p.start # "canceled"
  <2>1. q = M!Produce(on, "talk")
    BY <1>2 DEF M!TalkOn
  <2>2. /\ MicTypes(r) /\ MicSameBut(p, r, {"chain", "races"}) /\ p.races \subseteq r.races
        /\ Tracks(p) /\ r.races = {} =>
              /\ Tracks(r) /\ (p.processing <=> r.chain # M!NoChain)
              /\ OnAir(p) => OnAir(r)
    BY ChainedKeeps
  <2> HIDE DEF r
  <2>3. r.kind = "user" /\ r.start = p.start /\ r.mic = p.mic /\ r.producer = p.producer /\ r.calls = p.calls
        /\ (r.processing <=> p.processing)
    BY <2>2 DEF MicSameBut, MicNames
  <2>4. MicTypes(on) /\ MicSameBut(r, on, {"talking"})
    BY <2>2, <2>3 DEF MicTypes, Shape, MicNames, Finite, Kinds, MicSameBut
  <2> HIDE DEF on, q
  <2>5. /\ on.kind = "user" /\ on.start = p.start /\ on.mic = p.mic /\ on.producer = p.producer /\ on.calls = p.calls
        /\ (on.processing <=> p.processing) /\ on.chain = r.chain /\ on.races = r.races
        /\ (Tracks(r) => Tracks(on)) /\ (OnAir(r) => OnAir(on)) /\ (Owned(on) <=> Owned(p))
    BY <2>3, <2>4 DEF MicSameBut, MicNames, Tracks, OnAir, Owned, Producing, Sends
  <2>6. MicTypes(q) /\ on.races \subseteq q.races
    BY <2>1, <2>4, <2>5, ProduceKeeps DEF Owns, UserCalls
  <2>7. ASSUME q.races = {} PROVE MicGood(q)
    <3>1. p.races = {} /\ r.races = {} /\ Tracks(on) /\ OnAir(on) /\ ~Owned(on) /\ on.producer = M!NoProducer
          /\ (on.processing <=> on.chain # M!NoChain)
      BY <2>2, <2>5, <2>6, <2>7
    <3> QED BY <2>1, <2>4, <2>5, <2>7, <3>1, ProduceKeeps DEF Owns, UserCalls
  <2> QED BY <2>2, <2>5, <2>6, <2>7 DEF MicKeeps, q
<1> QED BY <1>1, <1>2

(* The stream of a feed, with the microphone.                              *)
LEMMA FeedOnKeeps ==
  ASSUME NEW p, MicTypes(p), p.kind = "feed", p.mic # 0,
         p.races = {} => /\ Tracks(p) /\ OnAir(p) /\ ~Owned(p) /\ p.producer = M!NoProducer
                         /\ p.start = "none" /\ ~p.manual /\ ~p.streaming
  PROVE  LET q == M!FeedOn(p) IN MicKeeps(q) /\ p.races \subseteq q.races
<1> DEFINE q == M!FeedOn(p)
           r == M!Chained(p)
<1>1. q = M!Produce(r, "feed")
  BY DEF M!FeedOn
<1>2. /\ MicTypes(r) /\ MicSameBut(p, r, {"chain", "races"}) /\ p.races \subseteq r.races
      /\ Tracks(p) /\ r.races = {} =>
            /\ Tracks(r) /\ (p.processing <=> r.chain # M!NoChain)
            /\ OnAir(p) => OnAir(r)
  BY ChainedKeeps
<1> HIDE DEF r, q
<1>3. /\ r.kind = "feed" /\ r.start = p.start /\ r.mic = p.mic /\ r.producer = p.producer /\ r.calls = p.calls
      /\ (r.processing <=> p.processing) /\ r.manual = p.manual /\ r.streaming = p.streaming
      /\ (Owned(r) <=> Owned(p))
  BY <1>2 DEF MicSameBut, MicNames, Owned
<1>4. MicTypes(q) /\ r.races \subseteq q.races
  BY <1>1, <1>2, <1>3, ProduceKeeps DEF Owns, FeedCalls
<1>5. ASSUME q.races = {} PROVE MicGood(q)
  <2>1. p.races = {} /\ r.races = {} /\ Tracks(r) /\ OnAir(r) /\ ~Owned(r) /\ (r.processing <=> r.chain # M!NoChain)
    BY <1>2, <1>3, <1>4, <1>5
  <2> QED BY <1>1, <1>2, <1>3, <1>5, <2>1, ProduceKeeps DEF Owns, FeedCalls
<1> QED BY <1>2, <1>4, <1>5 DEF MicKeeps, q

(***************************************************************************)
(* Handlers.                                                               *)
(***************************************************************************)
(* startInputMonitor, in an open settings menu.                            *)
LEMMA StartMonitorKeeps ==
  ASSUME NEW p, MicTypes(p), SafeIf(p), p.settings, NEW of \in {"monitor", "refresh"}, of = "refresh" => p.kind = "user"
  PROVE  MicKeeps(M!StartMonitor(p, of)) /\ p.races \subseteq M!StartMonitor(p, of).races
<1> DEFINE q == M!StartMonitor(p, of)
           r == [p EXCEPT !.monitor = FALSE, !.promise = TRUE]
           s == M!Opened(r)
           t == M!MonitorOn(s)
<1>1. MicKeeps(p)
  BY DEF MicKeeps, SafeIf, MicGood, MicLetGo
<1>2. CASE p.promise
  BY <1>1, <1>2 DEF M!StartMonitor
<1>3. CASE ~p.promise /\ p.monitor /\ p.mic # 0
  <2>1. q = M!Metered(p)
    BY <1>3 DEF M!StartMonitor
  <2> QED BY <1>1, <2>1, MeteredKeeps DEF MicKeeps, MicSameBut, MicNames
<1>4. CASE ~p.promise /\ ~(p.monitor /\ p.mic # 0)
  <2>1. q = M!Ask(r, of)
    BY <1>4 DEF M!StartMonitor
  <2>2. MicTypes(r) /\ MicSameBut(p, r, {"monitor", "promise"})
    BY DEF MicTypes, Shape, MicNames, Finite, Kinds, MicSameBut
  <2> HIDE DEF r
  <2>3. r.races = p.races /\ r.kind = p.kind /\ r.mic = p.mic /\ SafeIf(r)
    BY <2>2 DEF MicSameBut, MicNames, SafeIf, Safe, Tracks, OnAir, Once, FeedInv, Owned, Producing, M!Waits, Sends
  <2>4. CASE p.mic = 0
    <3>1. q = M!Call(r, of, "mic", M!NoProducer)
      BY <2>1, <2>3, <2>4 DEF M!Ask
    <3> HIDE DEF q
    <3>2. MicKeeps(q) /\ MicSameBut(r, q, {"calls"})
      BY <2>2, <2>3, <3>1, AskLater DEF UserCalls, FeedCalls, MicTypes, Shape
    <3> QED BY <2>3, <3>2 DEF MicSameBut, MicNames, q
  <2>5. CASE p.mic # 0
    <3>1. q = IF of = "monitor" THEN t ELSE M!RefreshOn(t)
      BY <2>1, <2>3, <2>5 DEF M!Ask, M!Continue
    <3>2. MicTypes(s) /\ SafeIf(s) /\ MicSameBut(r, s, {"chain", "races", "timer"}) /\ r.races \subseteq s.races /\ s.mic # 0
      BY <2>2, <2>3, <2>5, OpenedSafe
    <3> HIDE DEF s, q
    <3>3. MicKeeps(t) /\ s.races \subseteq t.races /\ t.kind = s.kind
      BY <3>2, MonitorOnKeeps
    <3>4. s.kind = p.kind
      BY <2>3, <3>2 DEF MicSameBut, MicNames
    <3> HIDE DEF t
    <3>5. SafeIf(t) /\ MicTypes(t)
      BY <3>3 DEF MicKeeps, SafeIf, MicGood
    <3>6. of = "refresh" => MicKeeps(M!RefreshOn(t)) /\ t.races \subseteq M!RefreshOn(t).races
      BY <3>3, <3>4, <3>5, RefreshOnKeeps
    <3> QED BY <2>3, <3>1, <3>2, <3>3, <3>6 DEF q
  <2> QED BY <2>4, <2>5
<1> QED BY <1>2, <1>3, <1>4

(* Nothing is on the air once the producer is closed.                      *)
LEMMA CloseKeeps ==
  ASSUME NEW p, MicTypes(p)
  PROVE  LET q == M!CloseProducer(p) IN
         /\ MicTypes(q) /\ MicSameBut(p, q, {"served", "producer"}) /\ q.producer = M!NoProducer
         /\ q.served = p.served \ {p.producer} /\ (OnAir(p) => q.served = {})
<1> DEFINE q == M!CloseProducer(p)
<1>1. Shape(q) /\ Kinds(q)
  BY DEF MicTypes, Shape, MicNames, Kinds, M!CloseProducer, M!NoProducer, Makings
<1>2. MicSameBut(p, q, {"served", "producer"}) /\ q.producer = M!NoProducer /\ q.served = p.served \ {p.producer}
  BY DEF MicTypes, Shape, MicNames, M!CloseProducer, MicSameBut
<1> HIDE DEF q
<1>3. q.open = p.open /\ q.calls = p.calls
  BY <1>2 DEF MicSameBut, MicNames
<1>4. Finite(q)
  BY <1>2, <1>3, FS_Subset, Zenon DEF MicTypes, Finite
<1>5. OnAir(p) => q.served = {}
  BY <1>2 DEF OnAir
<1> QED BY <1>1, <1>2, <1>4, <1>5 DEF q, MicTypes

(* A refresh closes the producer before it throws the track away; during a *)
(* talk it is only noted, and the talk may go on without the chain.        *)
LEMMA MicRefreshKeeps ==
  ASSUME NEW p, MicTypes(p), p.kind = "user",
         p.races = {} => Tracks(p) /\ Once(p) /\ OnAir([p EXCEPT !.refresh = TRUE])
  PROVE  MicKeeps(M!Refresh(p)) /\ p.races \subseteq M!Refresh(p).races
<1> DEFINE q == M!Refresh(p)
           on == [p EXCEPT !.refresh = TRUE]
           r == M!CloseProducer(p)
           s == M!Cleanup(r)
<1>1. MicTypes(on) /\ MicSameBut(p, on, {"refresh"})
  BY DEF MicTypes, Shape, MicNames, Finite, Kinds, MicSameBut
<1>2. CASE p.talking \/ p.start # "none"
  <2>1. q = on
    BY <1>2 DEF M!Refresh
  <2> HIDE DEF on
  <2>2. on.races = p.races /\ (Tracks(p) => Tracks(on)) /\ (Once(p) => Once(on)) /\ FeedInv(on) /\ MicLetGo(on)
    BY <1>1, <1>2 DEF MicSameBut, MicNames, Tracks, Once, FeedInv, MicLetGo, Owned, M!Waits
  <2> QED BY <1>1, <2>1, <2>2 DEF MicKeeps, MicGood, Safe, on
<1>3. CASE ~(p.talking \/ p.start # "none")
  <2>1. q = IF s.settings THEN M!StartMonitor(s, "refresh") ELSE M!RefreshOn(s)
    BY <1>3 DEF M!Refresh
  <2>2. /\ MicTypes(r) /\ MicSameBut(p, r, {"served", "producer"}) /\ r.producer = M!NoProducer
        /\ r.served = p.served \ {p.producer}
    BY CloseKeeps
  <2> HIDE DEF r, q
  <2>3. r.races = p.races /\ r.kind = "user" /\ (p.races = {} => Tracks(r) /\ Once(r) /\ r.served = {})
    <3>1. OnAir(on) => p.served \subseteq {p.producer}
      BY <1>1 DEF MicSameBut, MicNames, OnAir
    <3> HIDE DEF on
    <3> QED BY <2>2, <3>1 DEF MicSameBut, MicNames, Tracks, Once, Owned, M!Waits, on
  <2>4. /\ MicTypes(s) /\ r.races \subseteq s.races
        /\ MicSameBut(r, s, {"chain", "races", "timer", "meter", "monitor", "promise", "open", "mic"})
        /\ s.races = {} => Tracks(s) /\ OnAir(s) /\ Once(s)
    BY <2>2, <2>3, CleanupKeeps
  <2> HIDE DEF s
  <2>5. s.kind = "user" /\ SafeIf(s)
    BY <2>3, <2>4 DEF MicSameBut, MicNames, SafeIf, Safe, FeedInv
  <2>6. s.settings => MicKeeps(M!StartMonitor(s, "refresh")) /\ s.races \subseteq M!StartMonitor(s, "refresh").races
    BY <2>4, <2>5, StartMonitorKeeps
  <2>7. MicKeeps(M!RefreshOn(s)) /\ s.races \subseteq M!RefreshOn(s).races
    BY <2>4, <2>5, RefreshOnKeeps
  <2> QED BY <2>1, <2>3, <2>4, <2>6, <2>7 DEF q
<1> QED BY <1>2, <1>3

(* The end of a talk makes up for the refresh that was noted.              *)
LEMMA StopTalkKeeps ==
  ASSUME NEW p, MicTypes(p), SafeIf(p), p.kind = "user"
  PROVE  MicKeeps(M!StopTalk(p)) /\ p.races \subseteq M!StopTalk(p).races
<1> DEFINE no == [p EXCEPT !.talking = FALSE, !.refresh = FALSE,
                           !.start = IF p.start = "none" THEN p.start ELSE "canceled"]
           q == M!Schedule(no)
<1>1. M!StopTalk(p) = IF p.refresh THEN M!Refresh(q) ELSE q
  BY DEF M!StopTalk
<1>2. MicTypes(no) /\ MicSameBut(p, no, {"talking", "refresh", "start"}) /\ ~no.refresh /\ (no.start = "none" <=> p.start = "none")
  BY DEF MicTypes, Shape, MicNames, Finite, Kinds, MicSameBut
<1> HIDE DEF no
<1>3. /\ MicTypes(q) /\ MicSameBut(no, q, {"timer"}) /\ q.races = no.races /\ (Safe(no) => MicGood(q))
  BY <1>2, ScheduleKeeps
<1> HIDE DEF q
<1>4. q.races = p.races /\ q.kind = "user" /\ no.kind = "user"
  BY <1>2, <1>3 DEF MicSameBut, MicNames
<1>5. CASE p.refresh
  <2> DEFINE on == [q EXCEPT !.refresh = TRUE]
  <2>1. MicSameBut(q, on, {"refresh"}) /\ on.refresh = TRUE
    BY <1>3 DEF MicSameBut, MicTypes, Shape, MicNames
  <2> HIDE DEF on
  <2>2. Safe(p) => Tracks(q) /\ Once(q) /\ OnAir(on)
    BY <1>2, <1>3, <1>5, <2>1 DEF MicSameBut, MicNames, Safe, Tracks, OnAir, Once, Owned, Producing, M!Waits, Sends
  <2> QED BY <1>1, <1>3, <1>4, <1>5, <2>2, MicRefreshKeeps DEF SafeIf, on
<1>6. CASE ~p.refresh
  <2>1. Safe(p) => Safe(no)
    BY <1>2, <1>4, <1>6 DEF MicSameBut, MicNames, Safe, Tracks, OnAir, Once, FeedInv, Owned, Producing, M!Waits, Sends
  <2> QED BY <1>1, <1>3, <1>4, <1>6, <2>1 DEF MicKeeps, SafeIf
<1> QED BY <1>5, <1>6

(* startFeedStream asks for the microphone once.                           *)
LEMMA StartFeedKeeps ==
  ASSUME NEW p, MicTypes(p), p.kind = "feed",
         p.races = {} => Tracks(p) /\ OnAir(p) /\ Once(p) /\ (p.streaming <=> p.producer # M!NoProducer) /\ ~p.manual
  PROVE  MicKeeps(M!StartFeed(p)) /\ p.races \subseteq M!StartFeed(p).races
<1> DEFINE q == M!StartFeed(p)
           later == [p EXCEPT !.wanted = TRUE]
           s == IF M!Waits(p, "feed") THEN M!Race(p, "double") ELSE p
           r == [s EXCEPT !.wanted = FALSE]
<1>1. CASE p.streaming
  BY <1>1 DEF M!StartFeed, MicKeeps, MicGood, Safe, FeedInv, MicLetGo
<1>2. CASE ~p.streaming /\ ~p.up
  <2>1. q = later
    BY <1>2 DEF M!StartFeed
  <2>2. MicTypes(later) /\ MicSameBut(p, later, {"wanted"}) /\ later.wanted
    BY DEF MicTypes, Shape, MicNames, Finite, Kinds, MicSameBut
  <2> HIDE DEF later
  <2>3. later.races = p.races /\ (p.races = {} => MicGood(later))
    BY <1>2, <2>2 DEF MicSameBut, MicNames, MicGood, Safe, Tracks, OnAir, Once, FeedInv, MicLetGo, Owned, Producing, M!Waits, Sends
  <2> QED BY <2>1, <2>2, <2>3 DEF MicKeeps
<1>3. CASE ~p.streaming /\ p.up
  <2>1. q = M!Ask(r, "feed")
    BY <1>3 DEF M!StartFeed
  <2>2. MicTypes(s) /\ MicSameBut(p, s, {"races"}) /\ p.races \subseteq s.races /\ (s.races = {} => ~M!Waits(p, "feed"))
    BY RaceTypes DEF MicSameBut
  <2> HIDE DEF s
  <2>3. MicTypes(r) /\ MicSameBut(s, r, {"wanted"})
    BY <2>2 DEF MicTypes, Shape, MicNames, Finite, Kinds, MicSameBut
  <2> HIDE DEF r, q
  <2>4. /\ p.races \subseteq r.races /\ r.kind = "feed" /\ r.calls = p.calls
        /\ r.races = {} => /\ Tracks(r) /\ OnAir(r) /\ Once(r) /\ ~M!Waits(r, "feed") /\ ~r.streaming
                           /\ r.producer = M!NoProducer /\ ~r.manual
    BY <1>3, <2>2, <2>3 DEF MicSameBut, MicNames, Tracks, OnAir, Once, Owned, Producing, M!Waits, Sends
  <2>5. r.races = {} => ~Owned(r) /\ r.start = "none"
    BY <2>3, <2>4 DEF Owned, Owns, M!Waits, Once, MicTypes, Kinds, CallOf, FeedCalls
  <2>6. CASE r.mic = 0
    <3>1. q = M!Call(r, "feed", "mic", M!NoProducer)
      BY <2>1, <2>6 DEF M!Ask
    <3>2. M!NoProducer \in Makings /\ CallOf(r.kind, [of |-> "feed", at |-> "mic", made |-> M!NoProducer])
      BY <2>4 DEF CallOf, M!NoProducer, Makings, FeedCalls
    <3>3. "feed" \in UserCalls \cup FeedCalls /\ "mic" \in {"mic", "produce"}
      BY DEF FeedCalls
    <3>4. /\ MicTypes(q) /\ MicSameBut(r, q, {"calls"})
          /\ \E c \in CallTypes : c.of = "feed" /\ c.at = "mic" /\ c.made = M!NoProducer /\ q.calls = r.calls \cup {c}
      BY <2>3, <3>1, <3>2, <3>3, CallEffect
    <3>5. PICK c \in CallTypes : c.of = "feed" /\ c.at = "mic" /\ q.calls = r.calls \cup {c}
      BY <3>4
    <3>6. q.races = r.races
      BY <3>4 DEF MicSameBut, MicNames
    <3>7. ASSUME r.races = {} PROVE MicGood(q)
      <4>1. Tracks(q) /\ OnAir(q)
        BY <2>4, <3>4, <3>5, <3>7 DEF MicSameBut, MicNames, Tracks, OnAir, Producing, Sends
      <4>2. Once(q)
        BY <2>4, <2>5, <3>4, <3>5, <3>7 DEF MicSameBut, MicNames, Once, Owned, M!Waits, Owns
      <4>3. FeedInv(q) /\ MicLetGo(q)
        BY <2>4, <3>4, <3>5, <3>7 DEF MicSameBut, MicNames, FeedInv, Owned, Owns, MicLetGo
      <4> QED BY <4>1, <4>2, <4>3 DEF MicGood, Safe
    <3> QED BY <2>4, <3>4, <3>6, <3>7 DEF MicKeeps, q
  <2>7. CASE r.mic # 0
    <3> DEFINE o == M!Opened(r)
    <3>1. q = M!FeedOn(o)
      BY <2>1, <2>7 DEF M!Ask, M!Continue
    <3>2. /\ MicTypes(o) /\ MicSameBut(r, o, {"chain", "races", "timer"}) /\ r.races \subseteq o.races
          /\ Tracks(r) /\ o.races = {} => Tracks(o) /\ (OnAir(r) => OnAir(o))
      BY <2>3, <2>7, OpenedKeeps
    <3> HIDE DEF o
    <3>3. /\ o.kind = "feed" /\ o.mic # 0
          /\ o.races = {} => /\ Tracks(o) /\ OnAir(o) /\ ~Owned(o) /\ o.producer = M!NoProducer
                             /\ o.start = "none" /\ ~o.manual /\ ~o.streaming
      BY <2>4, <2>5, <2>7, <3>2 DEF MicSameBut, MicNames, Owned
    <3> QED BY <2>4, <3>1, <3>2, <3>3, FeedOnKeeps DEF q
  <2> QED BY <2>6, <2>7
<1> QED BY <1>1, <1>2, <1>3

(* stopInputMonitor throws the track away only if nothing else uses it.    *)
LEMMA StopMonitorKeeps ==
  ASSUME NEW p, MicTypes(p), SafeIf(p)
  PROVE  MicKeeps(M!StopMonitor(p))
<1> DEFINE q == [p EXCEPT !.promise = FALSE, !.monitor = FALSE]
           r == M!Unmetered(q)
           s == M!Cleanup(q)
           busy == p.streaming \/ p.talking \/ p.start # "none" \/ p.voice
<1>1. M!StopMonitor(p) = IF busy THEN q ELSE IF p.producer # M!NoProducer THEN r ELSE s
  BY DEF M!StopMonitor
<1>2. MicTypes(q) /\ MicSameBut(p, q, {"promise", "monitor"})
  BY DEF MicTypes, Shape, MicNames, Finite, Kinds, MicSameBut
<1> HIDE DEF q
<1>3. q.races = p.races /\ SafeIf(q)
  BY <1>2 DEF MicSameBut, MicNames, SafeIf, Safe, Tracks, OnAir, Once, FeedInv, Owned, Producing, M!Waits, Sends
<1>4. CASE busy
  BY <1>1, <1>2, <1>3, <1>4 DEF MicSameBut, MicNames, MicKeeps, SafeIf, MicGood, MicLetGo, Safe, FeedInv, MicTypes, Shape, Kinds
<1>5. CASE ~busy /\ p.producer # M!NoProducer
  <2>1. MicTypes(r) /\ MicSameBut(q, r, {"meter"}) /\ r.meter = 0
    BY <1>2 DEF MicTypes, Shape, MicNames, Finite, Kinds, M!Unmetered, MicSameBut
  <2> HIDE DEF r
  <2>2. r.races = q.races /\ r.producer # M!NoProducer /\ SafeIf(r)
    BY <1>2, <1>3, <1>5, <2>1 DEF MicSameBut, MicNames, SafeIf, Safe, Tracks, OnAir, Once, FeedInv, Owned, Producing, M!Waits, Sends
  <2> QED BY <1>1, <1>5, <2>1, <2>2 DEF MicKeeps, SafeIf, MicGood, MicLetGo
<1>6. CASE ~busy /\ p.producer = M!NoProducer
  <2>1. q.producer = M!NoProducer /\ (Safe(q) => q.served = {})
    BY <1>2, <1>6 DEF MicSameBut, MicNames, Safe, OnAir
  <2>2. /\ MicTypes(s) /\ q.races \subseteq s.races
        /\ FeedInv(q) <=> FeedInv(s)
        /\ s.races = {} => (Safe(q) => Tracks(s) /\ OnAir(s) /\ Once(s) /\ MicLetGo(s))
    BY <1>2, <2>1, CleanupKeeps DEF Safe
  <2> HIDE DEF s
  <2> QED BY <1>1, <1>3, <1>6, <2>2 DEF MicKeeps, SafeIf, MicGood, Safe
<1> QED BY <1>4, <1>5, <1>6

(* After stopFeedStream nothing is on the air and the track is gone.       *)
LEMMA StopFeedIs ==
  ASSUME NEW p, MicTypes(p), p.kind = "feed", NEW manual \in BOOLEAN,
         p.races = {} => Tracks(p) /\ Once(p) /\ p.served \subseteq {p.producer}
  PROVE  LET q == M!StopFeed(p, manual) IN
         /\ MicTypes(q) /\ p.races \subseteq q.races /\ q.kind = "feed" /\ q.calls = p.calls
         /\ ~q.streaming /\ q.producer = M!NoProducer /\ q.manual = (manual \/ p.manual)
         /\ q.races = {} => Tracks(q) /\ OnAir(q) /\ Once(q) /\ MicLetGo(q)
<1> DEFINE c == M!CloseProducer(p)
           r == [c EXCEPT !.streaming = FALSE]
           s == IF manual THEN [r EXCEPT !.manual = TRUE, !.wanted = FALSE] ELSE r
           q == M!Cleanup(s)
<1>1. M!StopFeed(p, manual) = q
  BY DEF M!StopFeed
<1>2. MicTypes(c) /\ MicSameBut(p, c, {"served", "producer"}) /\ c.producer = M!NoProducer /\ c.served = p.served \ {p.producer}
  BY CloseKeeps
<1> HIDE DEF c
<1>3. MicTypes(r) /\ MicSameBut(p, r, {"served", "producer", "streaming"}) /\ r.producer = M!NoProducer
      /\ r.served = p.served \ {p.producer} /\ r.streaming = FALSE
  BY <1>2 DEF MicTypes, Shape, MicNames, Finite, Kinds, MicSameBut
<1> HIDE DEF r
<1>4. /\ MicTypes(s) /\ MicSameBut(p, s, {"served", "producer", "streaming", "manual", "wanted"}) /\ s.producer = M!NoProducer
      /\ s.served = p.served \ {p.producer} /\ s.streaming = FALSE /\ s.manual = (manual \/ p.manual)
  BY <1>3 DEF MicTypes, Shape, MicNames, Finite, Kinds, MicSameBut
<1> HIDE DEF s
<1>5. s.races = p.races /\ s.kind = "feed" /\ (p.races = {} => Tracks(s) /\ Once(s) /\ s.served = {})
  BY <1>4 DEF MicSameBut, MicNames, Tracks, Once, Owned, M!Waits
<1>6. /\ MicTypes(q) /\ s.races \subseteq q.races
      /\ MicSameBut(s, q, {"chain", "races", "timer", "meter", "monitor", "promise", "open", "mic"})
      /\ q.races = {} => Tracks(q) /\ OnAir(q) /\ Once(q) /\ MicLetGo(q)
  BY <1>4, <1>5, CleanupKeeps
<1> HIDE DEF q
<1>7. q.kind = "feed" /\ q.calls = p.calls /\ ~q.streaming /\ q.producer = M!NoProducer /\ q.manual = (manual \/ p.manual)
  BY <1>4, <1>6 DEF MicSameBut, MicNames
<1> QED BY <1>1, <1>5, <1>6, <1>7

(* A restart of the stream for other settings.                             *)
LEMMA MicRestartKeeps ==
  ASSUME NEW p, MicTypes(p), p.kind = "feed", p.streaming,
         p.races = {} => Tracks(p) /\ Once(p) /\ p.served \subseteq {p.producer} /\ ~p.manual
  PROVE  MicKeeps(M!Restart(p))
<1> DEFINE q == M!StopFeed(p, FALSE)
<1>1. M!Restart(p) = M!StartFeed(q)
  BY DEF M!Restart
<1>2. /\ MicTypes(q) /\ p.races \subseteq q.races /\ q.kind = "feed"
      /\ ~q.streaming /\ q.producer = M!NoProducer /\ q.manual = (FALSE \/ p.manual)
      /\ q.races = {} => Tracks(q) /\ OnAir(q) /\ Once(q) /\ MicLetGo(q)
  BY StopFeedIs
<1> HIDE DEF q
<1> QED BY <1>1, <1>2, StartFeedKeeps DEF MicTypes, Shape

(***************************************************************************)
(* Actions.                                                                *)
(***************************************************************************)
(* The settings menu opens.                                                *)
LEMMA OpenSettingsKeeps == ASSUME MicIInv, M!OpenSettings PROVE MicKeeps(page')
<1> DEFINE p == [page EXCEPT !.settings = TRUE]
<1>1. MicTypes(page) /\ Safe(page) /\ page.races = {}
  BY DEF MicIInv, M!OpenSettings, M!Spend, MicKeeps, MicGood
<1>2. page' = M!StartMonitor(p, "monitor")
  BY DEF M!OpenSettings
<1>3. MicTypes(p) /\ MicSameBut(page, p, {"settings"}) /\ p.settings
  BY <1>1 DEF MicTypes, Shape, MicNames, Finite, Kinds, MicSameBut
<1> HIDE DEF p
<1>4. SafeIf(p)
  BY <1>1, <1>3 DEF MicSameBut, MicNames, SafeIf, Safe, Tracks, OnAir, Once, FeedInv, Owned, Producing, M!Waits, Sends
<1> QED BY <1>2, <1>3, <1>4, StartMonitorKeeps

(* It closes.                                                              *)
LEMMA CloseSettingsKeeps == ASSUME MicIInv, M!CloseSettings PROVE MicKeeps(page')
<1> DEFINE p == [page EXCEPT !.settings = FALSE]
<1>1. MicTypes(page) /\ Safe(page) /\ page.races = {}
  BY DEF MicIInv, M!CloseSettings, M!Free, MicKeeps, MicGood
<1>2. page' = M!StopMonitor(p)
  BY DEF M!CloseSettings
<1>3. MicTypes(p) /\ MicSameBut(page, p, {"settings"})
  BY <1>1 DEF MicTypes, Shape, MicNames, Finite, Kinds, MicSameBut
<1> HIDE DEF p
<1>4. SafeIf(p)
  BY <1>1, <1>3 DEF MicSameBut, MicNames, SafeIf, Safe, Tracks, OnAir, Once, FeedInv, Owned, Producing, M!Waits, Sends
<1> QED BY <1>2, <1>3, <1>4, StopMonitorKeeps

(* Another device or quality.                                              *)
LEMMA ChangeDeviceKeeps == ASSUME MicIInv, M!ChangeDevice PROVE MicKeeps(page')
<1>1. MicTypes(page) /\ Safe(page) /\ page.races = {}
  BY DEF MicIInv, M!ChangeDevice, M!Spend, MicKeeps, MicGood
<1>2. page.served \subseteq {page.producer} /\ (page.producer = M!NoProducer => page.served = {})
  BY <1>1 DEF Safe, OnAir
<1>3. CASE page.kind = "user"
  <2> DEFINE p == IF page.producer = M!NoProducer THEN page ELSE M!Race(page, "kept")
             q == M!Cleanup(p)
  <2>1. page' = M!StartVoice(q)
    BY <1>3 DEF M!ChangeDevice, M!User
  <2>2. MicTypes(p) /\ MicSameBut(page, p, {"races"}) /\ page.races \subseteq p.races /\ (p.races = {} => p = page /\ page.producer = M!NoProducer)
    BY <1>1, RaceTypes DEF MicSameBut
  <2> HIDE DEF p
  <2>3. p.races = {} => Once(p) /\ Tracks(p) /\ p.served = {} /\ p.producer = M!NoProducer
    BY <1>1, <1>2, <2>2 DEF Safe
  <2>4. /\ MicTypes(q) /\ q.mic = 0 /\ MicSameBut(p, q, {"chain", "races", "timer", "meter", "monitor", "promise", "open", "mic"})
        /\ q.races = {} => Tracks(q) /\ OnAir(q) /\ Once(q)
    BY <2>2, <2>3, CleanupKeeps
  <2> HIDE DEF q
  <2>5. q.kind = "user"
    BY <1>3, <2>2, <2>4 DEF MicSameBut, MicNames
  <2>6. SafeIf(q) /\ MicLetGo(q)
    BY <2>4, <2>5 DEF SafeIf, Safe, FeedInv, MicLetGo
  <2> QED BY <2>1, <2>4, <2>5, <2>6, StartVoiceKeeps
<1>4. CASE page.kind = "feed" /\ page.streaming
  <2>1. page' = M!Restart(page)
    BY <1>4 DEF M!ChangeDevice, M!User
  <2> QED BY <1>1, <1>2, <1>4, <2>1, MicRestartKeeps DEF Safe, FeedInv
<1>5. CASE page.kind = "feed" /\ ~page.streaming
  <2>1. page' = M!Cleanup(page)
    BY <1>5 DEF M!ChangeDevice, M!User
  <2>2. Once(page) /\ Tracks(page) /\ page.served = {} /\ page.producer = M!NoProducer
    BY <1>1, <1>2, <1>5 DEF Safe, FeedInv
  <2> QED BY <1>1, <2>1, <2>2, CleanupKeeps DEF MicKeeps, MicGood, Safe
<1> QED BY <1>1, <1>3, <1>4, <1>5 DEF MicTypes, Shape

(* Another packet time.                                                    *)
LEMMA ChangePtimeKeeps == ASSUME MicIInv, M!ChangePtime PROVE MicKeeps(page')
<1>1. MicTypes(page) /\ MicGood(page) /\ page.races = {} /\ page' = M!Restart(page) /\ page.kind = "feed"
  BY DEF MicIInv, M!ChangePtime, M!Spend, MicKeeps, M!User, MicTypes, Shape
<1>2. CASE page.streaming
  <2>1. Tracks(page) /\ Once(page) /\ page.served \subseteq {page.producer} /\ ~page.manual
    BY <1>1, <1>2 DEF MicGood, Safe, OnAir, FeedInv
  <2> QED BY <1>1, <1>2, <2>1, MicRestartKeeps
<1>3. CASE ~page.streaming
  BY <1>1, <1>3 DEF M!Restart, MicKeeps
<1> QED BY <1>2, <1>3

(* The processing is switched.                                             *)
LEMMA ToggleProcessingKeeps == ASSUME MicIInv, M!ToggleProcessing PROVE MicKeeps(page')
<1> DEFINE p == [page EXCEPT !.processing = ~@]
           q == IF ~p.processing THEN M!Unmetered(p) ELSE IF p.settings THEN M!Metered(p) ELSE p
           b == M!Broken(p)
           r == M!Chained(b)
<1>1. MicTypes(page) /\ MicGood(page) /\ Safe(page) /\ page.races = {}
  BY DEF MicIInv, M!ToggleProcessing, M!Spend, MicKeeps, MicGood
<1>2. page' = IF M!User(page) THEN M!Refresh(q) ELSE IF p.streaming THEN M!Restart(p)
              ELSE IF p.processing /\ p.mic = 0 THEN p ELSE r
  BY DEF M!ToggleProcessing
<1>3. MicTypes(p) /\ MicSameBut(page, p, {"processing"})
  BY <1>1 DEF MicTypes, Shape, MicNames, Finite, Kinds, MicSameBut
<1>4. MicTypes(q) /\ MicSameBut(page, q, {"processing", "meter"}) /\ q.meter \in {0, page.meter, page.mic}
  BY <1>1, <1>3 DEF MicTypes, Shape, MicNames, Finite, Kinds, MicSameBut, M!Unmetered, M!Metered
<1> HIDE DEF p, q
<1>5. p.races = {} /\ p.kind = page.kind /\ p.streaming = page.streaming /\ p.mic = page.mic
      /\ Tracks(p) /\ Once(p) /\ FeedInv(p) /\ MicLetGo(p) /\ p.served \subseteq {p.producer}
  BY <1>1, <1>3 DEF MicSameBut, MicNames, MicGood, Safe, Tracks, OnAir, Once, FeedInv, MicLetGo, Owned, M!Waits, M!User
<1>6. CASE page.kind = "user"
  <2> DEFINE on == [q EXCEPT !.refresh = TRUE]
  <2>1. MicSameBut(q, on, {"refresh"}) /\ on.refresh = TRUE
    BY <1>4 DEF MicSameBut, MicTypes, Shape, MicNames
  <2> HIDE DEF on
  <2>2. q.kind = "user" /\ Tracks(q) /\ Once(q) /\ OnAir(on)
    BY <1>1, <1>4, <1>6, <2>1 DEF MicSameBut, MicNames, Safe, Tracks, OnAir, Once, Owned, Producing, M!Waits, Sends
  <2>3. MicKeeps(M!Refresh(q))
    BY <1>4, <2>2, MicRefreshKeeps DEF on
  <2> QED BY <1>2, <1>6, <2>3 DEF M!User
<1>7. CASE page.kind = "feed" /\ page.streaming
  <2>1. ~p.manual
    BY <1>1, <1>3, <1>7 DEF MicSameBut, MicNames, Safe, FeedInv
  <2>2. MicKeeps(M!Restart(p))
    BY <1>3, <1>5, <1>7, <2>1, MicRestartKeeps
  <2> QED BY <1>2, <1>5, <1>7, <2>2 DEF M!User
<1>8. CASE page.kind = "feed" /\ ~page.streaming
  <2>1. p.producer = M!NoProducer
    BY <1>1, <1>3, <1>8 DEF MicSameBut, MicNames, Safe, FeedInv
  <2>2. CASE p.processing /\ p.mic = 0
    <3>1. page' = p
      BY <1>2, <1>5, <1>8, <2>2 DEF M!User
    <3>2. OnAir(p)
      BY <1>1, <1>3, <2>1, <2>2 DEF MicSameBut, MicNames, Safe, OnAir, Producing, Sends
    <3> QED BY <1>3, <1>5, <3>1, <3>2 DEF MicKeeps, MicGood, Safe
  <2>3. CASE ~(p.processing /\ p.mic = 0)
    <3>1. page' = r
      BY <1>2, <1>5, <1>8, <2>3 DEF M!User
    <3>2. MicTypes(b) /\ MicSameBut(p, b, {"races"}) /\ (b.races = {} => ~Producing(p))
      BY <1>3, RaceTypes DEF M!Broken, MicSameBut, Producing
    <3> HIDE DEF b
    <3>3. b.races = {} => Tracks(b) /\ OnAir(b)
      BY <1>1, <1>3, <1>5, <2>1, <3>2 DEF MicSameBut, MicNames, Safe, Tracks, OnAir, Producing, Sends
    <3>4. /\ MicTypes(r) /\ MicSameBut(b, r, {"chain", "races"}) /\ b.races \subseteq r.races
          /\ r.races = {} => Tracks(r) /\ OnAir(r)
      <4>1. b.processing => b.mic # 0
        BY <2>3, <3>2 DEF MicSameBut, MicNames
      <4> QED BY <3>2, <3>3, <4>1, ChainedKeeps
    <3> HIDE DEF r
    <3>5. Once(r) /\ FeedInv(r) /\ MicLetGo(r)
      BY <1>5, <3>2, <3>4 DEF MicSameBut, MicNames, Once, FeedInv, MicLetGo, Owned, M!Waits, M!User
    <3> QED BY <3>1, <3>4, <3>5 DEF MicKeeps, MicGood, Safe
  <2> QED BY <2>2, <2>3
<1> QED BY <1>1, <1>6, <1>7, <1>8 DEF MicTypes, Shape

(* The button of a feed.                                                   *)
LEMMA ToggleFeedKeeps == ASSUME MicIInv, M!ToggleFeed PROVE MicKeeps(page')
<1>1. MicTypes(page) /\ Safe(page) /\ page.races = {} /\ page.kind = "feed"
  BY DEF MicIInv, M!ToggleFeed, M!Spend, MicKeeps, MicGood, M!User, MicTypes, Shape
<1>2. page.served \subseteq {page.producer}
  BY <1>1 DEF Safe, OnAir
<1>3. CASE page.streaming
  <2> DEFINE q == M!StopFeed(page, TRUE)
  <2>1. page' = q
    BY <1>3 DEF M!ToggleFeed
  <2>2. /\ MicTypes(q) /\ q.kind = "feed" /\ q.calls = page.calls /\ ~q.streaming /\ q.producer = M!NoProducer
        /\ q.manual = (TRUE \/ page.manual)
        /\ q.races = {} => Tracks(q) /\ OnAir(q) /\ Once(q) /\ MicLetGo(q)
    BY <1>1, <1>2, StopFeedIs DEF Safe
  <2> HIDE DEF q
  <2>3. FeedInv(q)
    BY <1>1, <1>3, <2>2 DEF Safe, FeedInv, Once, Owned
  <2> QED BY <2>1, <2>2, <2>3 DEF MicKeeps, MicGood, Safe
<1>4. CASE ~page.streaming
  <2> DEFINE p == [page EXCEPT !.manual = FALSE]
  <2>1. page' = M!StartFeed(p)
    BY <1>4 DEF M!ToggleFeed
  <2>2. MicTypes(p) /\ MicSameBut(page, p, {"manual"}) /\ ~p.manual
    BY <1>1 DEF MicTypes, Shape, MicNames, Finite, Kinds, MicSameBut
  <2> HIDE DEF p
  <2>3. p.kind = "feed" /\ Tracks(p) /\ OnAir(p) /\ Once(p) /\ (p.streaming <=> p.producer # M!NoProducer)
    BY <1>1, <2>2 DEF MicSameBut, MicNames, Safe, Tracks, OnAir, Once, FeedInv, Owned, Producing, M!Waits, Sends
  <2> QED BY <2>1, <2>2, <2>3, StartFeedKeeps
<1> QED BY <1>3, <1>4

(* A talk begins.                                                          *)
LEMMA MicPressKeeps == ASSUME MicIInv, M!Press PROVE MicKeeps(page')
<1>1. MicTypes(page) /\ Safe(page) /\ page.races = {} /\ page.kind = "user" /\ ~M!Waits(page, "warm") /\ page.start = "none"
  BY DEF MicIInv, M!Press, M!Spend, MicKeeps, MicGood, M!User
<1>2. CASE page.producer # M!NoProducer
  <2> DEFINE p == [page EXCEPT !.talking = TRUE]
  <2>1. page' = p
    BY <1>2 DEF M!Press
  <2>2. MicTypes(p) /\ MicSameBut(page, p, {"talking"}) /\ p.talking
    BY <1>1 DEF MicTypes, Shape, MicNames, Finite, Kinds, MicSameBut
  <2> HIDE DEF p
  <2>3. Safe(p)
    BY <1>1, <2>2 DEF MicSameBut, MicNames, Safe, Tracks, OnAir, Once, FeedInv, Owned, Producing, M!Waits, Sends
  <2> QED BY <2>1, <2>2, <2>3 DEF MicKeeps, MicGood, MicLetGo
<1>3. CASE page.producer = M!NoProducer
  <2> DEFINE p == [page EXCEPT !.start = "live"]
             o == M!Opened(p)
             q == M!Call(p, "talk", "mic", M!NoProducer)
  <2>1. page' = M!Ask(p, "talk")
    BY <1>3 DEF M!Press
  <2>2. MicTypes(p) /\ MicSameBut(page, p, {"start"}) /\ p.start = "live"
    BY <1>1 DEF MicTypes, Shape, MicNames, Finite, Kinds, MicSameBut
  <2> HIDE DEF p
  <2>3. p.kind = "user" /\ Tracks(p) /\ OnAir(p) /\ p.producer = M!NoProducer /\ p.calls = page.calls
    BY <1>1, <1>3, <2>2 DEF MicSameBut, MicNames, Safe, Tracks, OnAir, Producing, Sends
  <2>4. ~Owned(p)
    BY <1>1, <2>3 DEF Safe, Once, Owned, Owns, M!Waits, MicTypes, Kinds, CallOf, UserCalls
  <2>5. CASE p.mic # 0
    <3>1. page' = M!TalkOn(o)
      BY <2>1, <2>5 DEF M!Ask, M!Continue
    <3>2. /\ MicTypes(o) /\ MicSameBut(p, o, {"chain", "races", "timer"})
          /\ o.races = {} => Tracks(o) /\ OnAir(o)
      BY <2>2, <2>3, <2>5, OpenedKeeps
    <3> HIDE DEF o
    <3>3. o.kind = "user" /\ o.start # "none" /\ o.mic # 0 /\ ~Owned(o) /\ o.producer = M!NoProducer
      BY <2>2, <2>3, <2>4, <2>5, <3>2 DEF MicSameBut, MicNames, Owned
    <3> QED BY <3>1, <3>2, <3>3, TalkOnKeeps
  <2>6. CASE p.mic = 0
    <3>1. page' = q
      BY <2>1, <2>6 DEF M!Ask
    <3>2. M!NoProducer \in Makings /\ CallOf(p.kind, [of |-> "talk", at |-> "mic", made |-> M!NoProducer])
      BY <2>3 DEF CallOf, M!NoProducer, Makings, UserCalls
    <3>3. "talk" \in UserCalls \cup FeedCalls /\ "mic" \in {"mic", "produce"}
      BY DEF UserCalls
    <3>4. /\ MicTypes(q) /\ MicSameBut(p, q, {"calls"})
          /\ \E c \in CallTypes : c.of = "talk" /\ c.at = "mic" /\ c.made = M!NoProducer /\ q.calls = p.calls \cup {c}
      BY <2>2, <3>2, <3>3, CallEffect
    <3> HIDE DEF q
    <3>5. PICK c \in CallTypes : c.of = "talk" /\ c.at = "mic" /\ q.calls = p.calls \cup {c}
      BY <3>4
    <3>6. Tracks(q) /\ OnAir(q) /\ FeedInv(q) /\ MicLetGo(q)
      BY <2>3, <3>4, <3>5 DEF MicSameBut, MicNames, Tracks, OnAir, FeedInv, MicLetGo, Producing, Sends
    <3>7. Once(q)
      BY <2>2, <2>3, <2>4, <3>4, <3>5 DEF MicSameBut, MicNames, Once, Owned, M!Waits, Owns
    <3> QED BY <3>1, <3>4, <3>6, <3>7 DEF MicKeeps, MicGood, Safe
  <2> QED BY <2>5, <2>6
<1> QED BY <1>2, <1>3

(* It ends.                                                                *)
LEMMA MicReleaseKeeps == ASSUME MicIInv, M!Release PROVE MicKeeps(page')
<1>1. MicTypes(page) /\ Safe(page) /\ page.races = {} /\ page' = M!StopTalk(page) /\ (page.talking \/ page.start # "none")
  BY DEF MicIInv, M!Release, M!Free, MicKeeps, MicGood
<1>2. page.kind = "user"
  BY <1>1 DEF Safe, Once, M!Waits, MicTypes, Shape, Kinds, CallOf, FeedCalls
<1> QED BY <1>1, <1>2, StopTalkKeeps DEF SafeIf

(* The level trigger is switched.                                          *)
LEMMA ToggleVoiceKeeps == ASSUME MicIInv, M!ToggleVoice PROVE MicKeeps(page')
<1> DEFINE p == [page EXCEPT !.voice = ~@]
<1>1. MicTypes(page) /\ Safe(page) /\ page.races = {} /\ page.kind = "user"
  BY DEF MicIInv, M!ToggleVoice, M!Spend, MicKeeps, MicGood, M!User
<1>2. page' = IF p.voice THEN M!StartVoice(p) ELSE M!StopVoice(p)
  BY DEF M!ToggleVoice
<1>3. MicTypes(p) /\ MicSameBut(page, p, {"voice"})
  BY <1>1 DEF MicTypes, Shape, MicNames, Finite, Kinds, MicSameBut
<1> HIDE DEF p
<1>4. p.kind = "user" /\ SafeIf(p)
  BY <1>1, <1>3 DEF MicSameBut, MicNames, SafeIf, Safe, Tracks, OnAir, Once, FeedInv, Owned, Producing, M!Waits, Sends
<1> QED BY <1>2, <1>3, <1>4, StartVoiceKeeps, StopVoiceKeeps

(* Its loop finds no microphone.                                           *)
LEMMA TickKeeps == ASSUME MicIInv, M!Tick PROVE MicKeeps(page')
<1> DEFINE p == [page EXCEPT !.running = FALSE]
<1>1. MicTypes(page) /\ Safe(page) /\ page.races = {} /\ page.mic = 0
  BY DEF MicIInv, M!Tick, M!Free, MicKeeps, MicGood
<1>2. page' = M!StartVoice(p)
  BY DEF M!Tick
<1>3. MicTypes(p) /\ MicSameBut(page, p, {"running"})
  BY <1>1 DEF MicTypes, Shape, MicNames, Finite, Kinds, MicSameBut
<1> HIDE DEF p
<1>4. SafeIf(p) /\ MicLetGo(p)
  BY <1>1, <1>3 DEF MicSameBut, MicNames, SafeIf, Safe, Tracks, OnAir, Once, FeedInv, MicLetGo, Owned, Producing, M!Waits, Sends
<1>5. CASE p.kind = "user"
  BY <1>2, <1>3, <1>4, <1>5, StartVoiceKeeps
<1>6. CASE p.kind = "feed"
  BY <1>2, <1>3, <1>4, <1>6 DEF M!StartVoice, MicTypes, Kinds, MicKeeps, SafeIf, MicGood
<1> QED BY <1>3, <1>5, <1>6 DEF MicTypes, Shape

(* micCleanupTimer.                                                        *)
LEMMA TimerFiresKeeps == ASSUME MicIInv, M!TimerFires PROVE MicKeeps(page')
<1> DEFINE p == [page EXCEPT !.timer = FALSE]
           q == M!Cleanup(p)
<1>1. MicTypes(page) /\ Safe(page) /\ page.races = {}
  BY DEF MicIInv, M!TimerFires, M!Free, MicKeeps, MicGood
<1>2. page' = IF p.producer = M!NoProducer THEN q ELSE p
  BY DEF M!TimerFires
<1>3. MicTypes(p) /\ MicSameBut(page, p, {"timer"})
  BY <1>1 DEF MicTypes, Shape, MicNames, Finite, Kinds, MicSameBut
<1> HIDE DEF p
<1>4. Safe(p)
  BY <1>1, <1>3 DEF MicSameBut, MicNames, Safe, Tracks, OnAir, Once, FeedInv, Owned, Producing, M!Waits, Sends
<1>5. CASE p.producer # M!NoProducer
  BY <1>2, <1>3, <1>4, <1>5 DEF MicKeeps, MicGood, MicLetGo
<1>6. CASE p.producer = M!NoProducer
  <2>1. p.served = {}
    BY <1>4, <1>6 DEF Safe, OnAir
  <2>2. MicTypes(q) /\ FeedInv(q) /\ (q.races = {} => Tracks(q) /\ OnAir(q) /\ Once(q) /\ MicLetGo(q))
    BY <1>3, <1>4, <1>6, <2>1, CleanupKeeps DEF Safe
  <2> HIDE DEF q
  <2> QED BY <1>2, <1>6, <2>2 DEF MicKeeps, MicGood, Safe
<1> QED BY <1>5, <1>6

(* The browser answers a call: what becomes of the microphone depends on   *)
(* who asked, and on what the page has become since.                       *)
LEMMA MicOpensKeeps == ASSUME MicIInv, NEW c \in page.calls, M!MicOpens(c) PROVE MicKeeps(page')
<1> DEFINE p == [page EXCEPT !.calls = @ \ {c}]
           q == IF p.mic = 0 THEN p ELSE M!Race(M!Broken(p), "twice")
           t == M!Fresh(p)
           r == [q EXCEPT !.mic = t, !.open = @ \cup {t}]
           o == M!Opened(r)
<1>1. MicTypes(page) /\ Safe(page) /\ page.races = {} /\ c.at = "mic"
  BY DEF MicIInv, M!MicOpens, M!Free, MicKeeps, MicGood
<1>2. page' = M!Continue(o, c.of)
  BY DEF M!MicOpens
<1>3. CallOf(page.kind, c)
  BY <1>1 DEF MicTypes, Kinds
<1>4. MicTypes(p) /\ MicSameBut(page, p, {"calls"}) /\ p.calls = page.calls \ {c}
  <2>1. IsFiniteSet(page.calls \ {c})
    BY <1>1, FS_RemoveElement DEF MicTypes, Finite
  <2> QED BY <1>1, <2>1 DEF MicTypes, Shape, MicNames, Finite, Kinds, MicSameBut
<1>5. t \in Nat \ {0}
  BY <1>4, FreshIs
<1> HIDE DEF p, t
<1>6. MicTypes(q) /\ MicSameBut(p, q, {"races"}) /\ (q.races = {} => p.mic = 0)
  <2>1. MicTypes(M!Broken(p)) /\ MicSameBut(p, M!Broken(p), {"races"})
    BY <1>4, RaceTypes DEF M!Broken, MicSameBut
  <2>2. LET x == M!Race(M!Broken(p), "twice") IN MicTypes(x) /\ MicSameBut(M!Broken(p), x, {"races"}) /\ x.races # {}
    BY <2>1, RaceTypes
  <2> QED BY <1>4, <2>1, <2>2 DEF MicSameBut
<1> HIDE DEF q
<1>7. MicTypes(r) /\ MicSameBut(q, r, {"mic", "open"}) /\ r.mic = t /\ r.open = q.open \cup {t}
  <2>1. IsFiniteSet(q.open \cup {t})
    BY <1>6, FS_AddElement DEF MicTypes, Finite
  <2> QED BY <1>5, <1>6, <2>1 DEF MicTypes, Shape, MicNames, Finite, Kinds, MicSameBut
<1> HIDE DEF r
<1>8. r.kind = page.kind /\ r.mic # 0 /\ r.calls = page.calls \ {c} /\ r.start = page.start
      /\ r.streaming = page.streaming /\ r.manual = page.manual /\ r.producer = page.producer
  BY <1>4, <1>5, <1>6, <1>7 DEF MicSameBut, MicNames
<1>9. r.races = {} => Tracks(r) /\ OnAir(r) /\ r.producer = M!NoProducer
  <2>1. MicSameBut(page, r, {"calls", "races", "mic", "open"}) /\ (r.races = {} => page.mic = 0)
    BY <1>4, <1>6, <1>7 DEF MicSameBut, MicNames
  <2>2. r.races = {} => r.open = {t}
    BY <1>1, <1>4, <1>6, <1>7 DEF MicSameBut, MicNames, Safe, Tracks
  <2>3. r.races = {} => page.producer = M!NoProducer /\ ~Producing(page) /\ page.chain = M!NoChain
    BY <1>1, <2>1 DEF Safe, Tracks, OnAir, Producing, Sends
  <2> QED BY <1>1, <1>5, <1>7, <1>8, <2>1, <2>2, <2>3 DEF MicSameBut, MicNames, Safe, Tracks, OnAir, Producing, Sends
<1>10. c.of \notin {"talk", "feed"} => SafeIf(r)
  BY <1>1, <1>3, <1>4, <1>6, <1>7, <1>8, <1>9
     DEF MicSameBut, MicNames, SafeIf, Safe, Once, FeedInv, Owned, Owns, M!Waits, CallOf, UserCalls, FeedCalls
<1>11. /\ MicTypes(o) /\ MicSameBut(r, o, {"chain", "races", "timer"}) /\ r.races \subseteq o.races
       /\ o.races = {} => Tracks(o) /\ OnAir(o)
  BY <1>7, <1>8, <1>9, OpenedKeeps
<1>12. c.of \notin {"talk", "feed"} => SafeIf(o)
  BY <1>7, <1>8, <1>10, OpenedSafe
<1> HIDE DEF o
<1>13. o.kind = page.kind /\ o.mic # 0 /\ o.calls = page.calls \ {c} /\ o.start = page.start
       /\ o.streaming = page.streaming /\ o.manual = page.manual
       /\ (o.races = {} => o.producer = M!NoProducer)
  BY <1>8, <1>9, <1>11 DEF MicSameBut, MicNames
<1>14. CASE c.of = "initial"
  BY <1>2, <1>11, <1>12, <1>14, InitialOnKeeps DEF M!Continue
<1>15. CASE c.of = "monitor"
  BY <1>2, <1>11, <1>12, <1>13, <1>15, MonitorOnKeeps DEF M!Continue
<1>16. CASE c.of = "refresh"
  <2> DEFINE m == M!MonitorOn(o)
  <2>1. MicKeeps(m) /\ m.kind = page.kind
    BY <1>11, <1>12, <1>13, <1>16, MonitorOnKeeps
  <2>2. page' = M!RefreshOn(m) /\ page.kind = "user"
    BY <1>1, <1>2, <1>3, <1>16 DEF M!Continue, CallOf, FeedCalls, MicTypes, Shape
  <2> HIDE DEF m
  <2> QED BY <2>1, <2>2, RefreshOnKeeps DEF MicKeeps, SafeIf, MicGood
<1>17. CASE c.of = "voice"
  <2>1. page' = M!VoiceOn(o) /\ page.kind = "user"
    BY <1>1, <1>2, <1>3, <1>17 DEF M!Continue, CallOf, FeedCalls, MicTypes, Shape
  <2> QED BY <1>11, <1>12, <1>13, <1>17, <2>1, VoiceOnKeeps
<1>18. CASE c.of = "warm"
  <2>1. page' = M!WarmOn(o) /\ page.kind = "user"
    BY <1>1, <1>2, <1>3, <1>18 DEF M!Continue, CallOf, FeedCalls, MicTypes, Shape
  <2>2. ~M!Waits(o, "warm")
    BY <1>1, <1>13, <1>18 DEF Safe, Once, M!Waits, Owns
  <2> QED BY <1>11, <1>12, <1>13, <1>18, <2>1, <2>2, WarmOnKeeps
<1>19. CASE c.of = "talk"
  <2>1. page' = M!TalkOn(o) /\ page.kind = "user"
    BY <1>1, <1>2, <1>3, <1>19 DEF M!Continue, CallOf, FeedCalls, MicTypes, Shape
  <2>2. o.start # "none" /\ ~Owned(o)
    BY <1>1, <1>13, <1>19 DEF Safe, Once, M!Waits, Owned, Owns
  <2> QED BY <1>11, <1>13, <2>1, <2>2, TalkOnKeeps
<1>20. CASE c.of = "feed"
  <2>1. page' = M!FeedOn(o) /\ page.kind = "feed"
    BY <1>1, <1>2, <1>3, <1>20 DEF M!Continue, CallOf, UserCalls, MicTypes, Shape
  <2>2. ~Owned(o)
    BY <1>1, <1>13, <1>20 DEF Safe, Once, Owned, Owns
  <2>3. Owned(page) /\ page.producer = M!NoProducer
    BY <1>1, <1>20 DEF Safe, Once, Owned, Owns
  <2>4. page.start = "none"
    BY <1>1, <2>1 DEF Safe, Once, M!Waits, MicTypes, Kinds, CallOf, FeedCalls
  <2>5. ~page.manual /\ ~page.streaming
    BY <1>1, <2>1, <2>3 DEF Safe, FeedInv
  <2> QED BY <1>11, <1>13, <2>1, <2>2, <2>4, <2>5, FeedOnKeeps
<1> QED BY <1>3, <1>14, <1>15, <1>16, <1>17, <1>18, <1>19, <1>20 DEF CallOf, UserCalls, FeedCalls

(* The browser denies it.                                                  *)
LEMMA MicDeniedKeeps == ASSUME MicIInv, NEW c \in page.calls, M!MicDenied(c) PROVE MicKeeps(page')
<1> DEFINE l == [page EXCEPT !.calls = @ \ {c}]
           p == M!Race(l, "failed")
           q == [p EXCEPT !.promise = FALSE]
<1>1. MicTypes(page) /\ page' = IF c.of = "refresh" THEN M!RefreshOn(q) ELSE M!Failed(p, c.of)
  BY DEF MicIInv, M!MicDenied, MicKeeps
<1>2. MicTypes(l) /\ l.kind = page.kind
  <2>1. IsFiniteSet(page.calls \ {c})
    BY <1>1, FS_RemoveElement DEF MicTypes, Finite
  <2> QED BY <1>1, <2>1 DEF MicTypes, Shape, MicNames, Finite, Kinds
<1> HIDE DEF l
<1>3. MicTypes(p) /\ p.races # {} /\ p.kind = page.kind
  BY <1>2, RaceTypes DEF MicSameBut, MicNames
<1> HIDE DEF p
<1>4. MicTypes(q) /\ q.races # {} /\ q.kind = page.kind
  BY <1>3 DEF MicTypes, Shape, MicNames, Finite, Kinds
<1> HIDE DEF q
<1>5. CallOf(page.kind, c) /\ c.of \in UserCalls \cup FeedCalls
  BY <1>1 DEF MicTypes, Kinds, CallOf
<1>6. CASE c.of = "refresh"
  BY <1>1, <1>4, <1>5, <1>6, RefreshOnKeeps DEF SafeIf, CallOf, FeedCalls, MicTypes, Shape
<1>7. CASE c.of # "refresh"
  BY <1>1, <1>3, <1>5, <1>7, FailedTypes DEF MicKeeps
<1> QED BY <1>6, <1>7

(* The server answers a call.                                              *)
LEMMA ProducedKeeps == ASSUME MicIInv, NEW c \in page.calls, M!Produced(c) PROVE MicKeeps(page')
<1> DEFINE p == [page EXCEPT !.calls = @ \ {c}, !.served = @ \cup {c.made}]
           q == [p EXCEPT !.producer = c.made]
           feed == [q EXCEPT !.streaming = TRUE]
           talk == [q EXCEPT !.start = "none"]
           no == [page EXCEPT !.calls = @ \ {c}, !.start = "none"]
<1>1. MicTypes(page) /\ Safe(page) /\ page.races = {} /\ c.at = "produce"
  BY DEF MicIInv, M!Produced, M!Free, MicKeeps, MicGood
<1>2. page' = CASE c.of = "feed" -> feed
                [] c.of = "warm" -> IF p.settings \/ p.voice THEN M!Metered(q) ELSE q
                [] c.of = "talk" -> IF p.talking /\ p.start = "live" THEN talk ELSE M!Schedule(no)
  BY DEF M!Produced
<1>3. CallOf(page.kind, c) /\ c.of \in Owns /\ c.made.n # 0 /\ c.made \in Makings
  BY <1>1 DEF MicTypes, Shape, Kinds, CallOf, CallTypes
<1>4. c.made # M!NoProducer /\ Sends(page, c.made) /\ page.up /\ page.producer = M!NoProducer /\ page.served = {}
  BY <1>1, <1>3 DEF M!NoProducer, Safe, OnAir, Once, Owned
<1>5. \A d \in page.calls \ {c} : d.of \notin Owns /\ d.at # "produce"
  BY <1>1, <1>3 DEF Safe, Once, MicTypes, Kinds, CallOf, Shape, CallTypes
<1>6. IsFiniteSet(page.calls \ {c}) /\ IsFiniteSet(page.served \cup {c.made})
  BY <1>1, FS_RemoveElement, FS_AddElement DEF MicTypes, Finite
<1>7. MicTypes(q) /\ MicSameBut(page, q, {"calls", "served", "producer"})
      /\ q.calls = page.calls \ {c} /\ q.served = {c.made} /\ q.producer = c.made
  BY <1>1, <1>3, <1>4, <1>6 DEF MicTypes, Shape, MicNames, Finite, Kinds, MicSameBut
<1>8. MicTypes(no) /\ MicSameBut(page, no, {"calls", "start"}) /\ no.calls = page.calls \ {c} /\ no.start = "none"
  BY <1>1, <1>6 DEF MicTypes, Shape, MicNames, Finite, Kinds, MicSameBut
<1> HIDE DEF q, no
<1>9. Tracks(q) /\ OnAir(q) /\ ~Owned(q) /\ MicLetGo(q)
  BY <1>1, <1>4, <1>5, <1>7 DEF MicSameBut, MicNames, Safe, Tracks, OnAir, MicLetGo, Owned, Producing, Sends
<1>10. CASE c.of = "feed"
  <2>1. page.kind = "feed" /\ ~page.manual /\ page.start = "none"
    BY <1>1, <1>3, <1>10 DEF Safe, Once, FeedInv, Owned, M!Waits, MicTypes, Shape, Kinds, CallOf, UserCalls, FeedCalls
  <2>2. MicTypes(feed) /\ MicSameBut(q, feed, {"streaming"}) /\ feed.streaming
    BY <1>7, <2>1 DEF MicTypes, Shape, MicNames, Finite, Kinds, MicSameBut
  <2> HIDE DEF feed
  <2>3. Tracks(feed) /\ OnAir(feed) /\ MicLetGo(feed) /\ ~Owned(feed)
    BY <1>9, <2>2 DEF MicSameBut, MicNames, Tracks, OnAir, MicLetGo, Owned, Producing, Sends, M!User
  <2>4. Once(feed) /\ FeedInv(feed)
    BY <1>4, <1>7, <2>1, <2>2, <2>3 DEF MicSameBut, MicNames, Once, FeedInv, Owned, Owns, M!Waits
  <2> QED BY <1>2, <1>10, <2>2, <2>3, <2>4 DEF MicKeeps, MicGood, Safe
<1>11. CASE c.of = "warm"
  <2>1. q.kind = "user" /\ page.start = "none"
    BY <1>1, <1>3, <1>5, <1>7, <1>11 DEF MicSameBut, MicNames, Safe, Once, M!Waits, Owns, MicTypes, Shape, CallOf, FeedCalls
  <2>2. Once(q) /\ FeedInv(q)
    BY <1>7, <1>9, <2>1 DEF MicSameBut, MicNames, Once, FeedInv, Owned, Owns, M!Waits
  <2>3. MicGood(q)
    BY <1>9, <2>2 DEF MicGood, Safe
  <2> QED BY <1>2, <1>7, <1>11, <2>3, MeteredKeeps DEF MicKeeps
<1>12. CASE c.of = "talk"
  <2>1. page.kind = "user"
    BY <1>1, <1>3, <1>12 DEF MicTypes, Shape, CallOf, FeedCalls
  <2>2. MicTypes(talk) /\ MicSameBut(q, talk, {"start"}) /\ talk.start = "none"
    BY <1>7 DEF MicTypes, Shape, MicNames, Finite, Kinds, MicSameBut
  <2> HIDE DEF talk
  <2>3. Tracks(talk) /\ OnAir(talk) /\ ~Owned(talk) /\ talk.producer = c.made /\ talk.kind = "user"
    BY <1>7, <1>9, <2>1, <2>2 DEF MicSameBut, MicNames, Tracks, OnAir, Owned, Producing, Sends
  <2>4. MicGood(talk)
    BY <1>4, <2>2, <2>3 DEF Once, FeedInv, Owned, Owns, M!Waits, MicGood, Safe, MicLetGo
  <2>5. ~Owned(no) /\ no.kind = "user" /\ Tracks(no) /\ OnAir(no)
    BY <1>1, <1>5, <1>8, <2>1 DEF MicSameBut, MicNames, Safe, Tracks, OnAir, Owned, Producing, Sends
  <2>6. Safe(no)
    BY <1>8, <2>5 DEF Once, FeedInv, Owned, Owns, M!Waits, Safe
  <2> QED BY <1>2, <1>8, <1>12, <2>2, <2>4, <2>6, ScheduleKeeps DEF MicKeeps
<1> QED BY <1>3, <1>10, <1>11, <1>12 DEF Owns

(* The connection is lost.                                                 *)
LEMMA DisconnectKeeps == ASSUME MicIInv, M!Disconnect PROVE MicKeeps(page')
<1> DEFINE p == IF page.talking \/ page.start # "none" THEN M!StopTalk(page) ELSE page
           c == M!CloseProducer(p)
           q == [c EXCEPT !.up = FALSE, !.served = {}, !.wanted = ~M!User(p) /\ (@ \/ ~p.manual), !.streaming = FALSE]
           lost == {d.of : d \in {e \in p.calls : e.at = "produce"}}
           r == [q EXCEPT !.calls = {d \in @ : d.at = "mic"}, !.start = IF "talk" \in lost THEN "none" ELSE @,
                          !.wanted = @ \/ "feed" \in lost]
<1>1. MicTypes(page) /\ MicGood(page) /\ Safe(page) /\ page.races = {}
  BY DEF MicIInv, M!Disconnect, M!Spend, MicKeeps, MicGood
<1>2. page' = r
  BY DEF M!Disconnect
<1>3. MicKeeps(p)
  <2>1. page.talking \/ page.start # "none" => page.kind = "user"
    BY <1>1 DEF Safe, Once, M!Waits, MicTypes, Shape, Kinds, CallOf, FeedCalls
  <2> QED BY <1>1, <2>1, StopTalkKeeps DEF MicKeeps, SafeIf
<1> HIDE DEF p
<1>4. MicTypes(c) /\ MicSameBut(p, c, {"served", "producer"}) /\ c.producer = M!NoProducer
  BY <1>3, CloseKeeps DEF MicKeeps
<1> HIDE DEF c
<1>5. /\ MicTypes(q) /\ MicSameBut(p, q, {"served", "producer", "up", "wanted", "streaming"}) /\ q.producer = M!NoProducer
      /\ q.served = {} /\ ~q.up /\ ~q.streaming /\ (q.wanted <=> p.kind # "user" /\ (c.wanted \/ ~p.manual))
  BY <1>4, FS_EmptySet DEF MicTypes, Shape, MicNames, Finite, Kinds, MicSameBut, M!User
<1> HIDE DEF q
<1>6. q.calls = p.calls /\ q.start = p.start
  BY <1>5 DEF MicSameBut, MicNames
<1>7. /\ MicTypes(r) /\ MicSameBut(q, r, {"calls", "start", "wanted"})
      /\ r.calls = {d \in p.calls : d.at = "mic"} /\ r.start = (IF "talk" \in lost THEN "none" ELSE p.start)
      /\ (q.wanted => r.wanted)
  <2>1. IsFiniteSet({d \in q.calls : d.at = "mic"})
    BY <1>5, FS_Subset DEF MicTypes, Finite
  <2> HIDE DEF lost
  <2> QED BY <1>5, <1>6, <2>1 DEF MicTypes, Shape, MicNames, Finite, Kinds, MicSameBut
<1> HIDE DEF r
<1>8. r.races = p.races /\ r.kind = p.kind /\ r.producer = M!NoProducer /\ r.served = {} /\ ~r.up /\ ~r.streaming
      /\ (r.kind = "feed" /\ ~r.manual => r.wanted) /\ MicSameBut(p, r, {"calls", "start", "wanted", "served", "producer", "up", "streaming"})
  BY <1>5, <1>7 DEF MicSameBut, MicNames
<1> HIDE DEF lost
<1>9. ASSUME MicGood(p) PROVE MicGood(r)
  <2>1. Tracks(r)
    BY <1>8, <1>9 DEF MicSameBut, MicNames, MicGood, Safe, Tracks
  <2>2. OnAir(r)
    BY <1>7, <1>8 DEF OnAir, Producing
  <2>3. Once(r)
    <3>1. r.calls \subseteq p.calls /\ Once(p)
      BY <1>7, <1>9 DEF MicGood, Safe
    <3>2. "talk" \in lost => ~M!Waits(r, "talk")
      BY <1>7, <3>1 DEF lost, Once, Owns, M!Waits
    <3>3. "talk" \notin lost => (M!Waits(r, "talk") <=> M!Waits(p, "talk"))
      BY <1>3, <1>7 DEF lost, M!Waits, MicKeeps, MicTypes, Shape, CallTypes
    <3> QED BY <1>7, <1>8, <3>1, <3>2, <3>3 DEF Once, Owned
  <2>4. FeedInv(r)
    BY <1>3, <1>7, <1>8, <1>9 DEF MicSameBut, MicNames, MicGood, Safe, FeedInv, Owned
  <2>5. MicLetGo(r)
    <3>1. CASE r.kind = "user"
      BY <1>8, <3>1 DEF MicLetGo, M!User
    <3>2. CASE r.kind = "feed" /\ ~r.manual
      BY <1>8, <3>2 DEF MicLetGo
    <3>3. CASE r.kind = "feed" /\ r.manual
      <4>1. p.kind = "feed" /\ p.manual /\ ~Owned(p) /\ p.producer = M!NoProducer
        BY <1>8, <1>9, <3>3 DEF MicSameBut, MicNames, MicGood, Safe, FeedInv
      <4>2. p.start = "none" /\ "talk" \notin lost
        BY <1>9, <4>1 DEF MicGood, Safe, Once, Owned, Owns, M!Waits, lost
      <4>3. r.calls = p.calls
        BY <1>3, <1>7, <4>1 DEF Owned, MicKeeps, MicTypes, Shape, Kinds, CallOf, CallTypes
      <4> QED BY <1>7, <1>8, <1>9, <4>1, <4>2, <4>3 DEF MicSameBut, MicNames, MicGood, MicLetGo, M!User
    <3> QED BY <1>7, <3>1, <3>2, <3>3 DEF MicTypes, Shape
  <2> QED BY <2>1, <2>2, <2>3, <2>4, <2>5 DEF MicGood, Safe
<1> QED BY <1>2, <1>3, <1>7, <1>8, <1>9 DEF MicKeeps

(* It is back.                                                             *)
LEMMA InitializedKeeps == ASSUME MicIInv, M!Initialized PROVE MicKeeps(page')
<1> DEFINE p == [page EXCEPT !.up = TRUE]
           q == [p EXCEPT !.wanted = FALSE]
<1>1. MicTypes(page) /\ MicGood(page) /\ Safe(page) /\ page.races = {} /\ ~page.up
  BY DEF MicIInv, M!Initialized, M!Free, MicKeeps, MicGood
<1>2. page' = IF M!User(p) THEN IF p.mic # 0 THEN M!Warm(p) ELSE p
              ELSE IF ~p.manual /\ (p.streaming \/ p.wanted) THEN M!StartFeed(q) ELSE p
  BY DEF M!Initialized
<1>3. MicTypes(p) /\ MicSameBut(page, p, {"up"}) /\ p.up
  BY <1>1 DEF MicTypes, Shape, MicNames, Finite, Kinds, MicSameBut
<1>4. MicTypes(q) /\ MicSameBut(p, q, {"wanted"})
  BY <1>3 DEF MicTypes, Shape, MicNames, Finite, Kinds, MicSameBut
<1> HIDE DEF p, q
<1>5. Tracks(p) /\ OnAir(p) /\ Once(p) /\ p.races = {}
  BY <1>1, <1>3 DEF MicSameBut, MicNames, Safe, Tracks, OnAir, Once, Owned, Producing, M!Waits, Sends
<1>6. CASE p.kind = "user"
  <2>1. SafeIf(p)
    BY <1>5, <1>6 DEF SafeIf, Safe, FeedInv
  <2> QED BY <1>2, <1>3, <1>6, <2>1, WarmKeeps DEF M!User, SafeIf, Safe, MicKeeps, MicGood, MicLetGo
<1>7. CASE p.kind = "feed" /\ ~p.manual /\ (p.streaming \/ p.wanted)
  <2>1. page' = M!StartFeed(q)
    BY <1>2, <1>7 DEF M!User
  <2>2. q.kind = "feed" /\ Tracks(q) /\ OnAir(q) /\ Once(q) /\ (q.streaming <=> q.producer # M!NoProducer) /\ ~q.manual
    BY <1>1, <1>3, <1>4, <1>5, <1>7
       DEF MicSameBut, MicNames, Safe, Tracks, OnAir, Once, FeedInv, Owned, Producing, M!Waits, Sends
  <2> QED BY <1>4, <2>1, <2>2, StartFeedKeeps
<1>8. CASE p.kind = "feed" /\ ~(~p.manual /\ (p.streaming \/ p.wanted))
  <2>1. page' = p
    BY <1>2, <1>8 DEF M!User
  <2>2. FeedInv(p) /\ MicLetGo(p)
    BY <1>1, <1>3, <1>8 DEF MicSameBut, MicNames, MicGood, Safe, FeedInv, MicLetGo, Owned, M!User
  <2> QED BY <1>3, <1>5, <2>1, <2>2 DEF MicKeeps, MicGood, Safe
<1> QED BY <1>3, <1>6, <1>7, <1>8 DEF MicTypes, Shape

(* The invariant of a page after its sign-on.                              *)
LEMMA MicInitIs == M!Init => MicIInv
<1> DEFINE c == [id |-> 1, of |-> "initial", at |-> "mic", made |-> M!NoProducer]
<1> SUFFICES ASSUME M!Init PROVE MicIInv
  OBVIOUS
<1>1. /\ DOMAIN page = MicNames /\ page.kind \in {"user", "feed"} /\ page.mic = 0 /\ page.open = {}
      /\ page.chain = M!NoChain /\ page.meter = 0 /\ ~page.voice /\ ~page.up /\ page.producer = M!NoProducer
      /\ page.served = {} /\ page.streaming = FALSE /\ page.manual = FALSE /\ (page.wanted <=> page.kind = "feed")
      /\ ~page.talking /\ page.start = "none" /\ page.races = {} /\ page.calls = {c}
  <2>1. PICK kind \in {"user", "feed"}, processing \in BOOLEAN :
          page = [kind |-> kind, processing |-> processing, settings |-> FALSE, monitor |-> FALSE,
                  promise |-> FALSE, mic |-> 0, open |-> {}, chain |-> M!NoChain, meter |-> 0, timer |-> FALSE,
                  voice |-> FALSE, running |-> FALSE, up |-> FALSE, producer |-> M!NoProducer, served |-> {},
                  streaming |-> FALSE, manual |-> FALSE, wanted |-> kind = "feed", talking |-> FALSE,
                  start |-> "none", refresh |-> FALSE, races |-> {}, calls |-> {c}]
    BY DEF M!Init
  <2> HIDE DEF c
  <2>2. DOMAIN page = MicNames
    BY <2>1 DEF MicNames
  <2>3. page.wanted <=> page.kind = "feed"
    BY <2>1
  <2> QED BY <2>1, <2>2, <2>3
<1>2. c \in CallTypes /\ M!NoProducer \in Makings /\ M!NoChain \in [of : Nat, id : Nat] /\ c.of = "initial" /\ c.at = "mic"
      /\ c.made = M!NoProducer
  BY DEF CallTypes, Makings, M!NoProducer, M!NoChain, UserCalls
<1> HIDE DEF c
<1>3. IsFiniteSet(page.open) /\ IsFiniteSet(page.calls) /\ IsFiniteSet(page.served)
  <2>1. IsFiniteSet({c}) /\ IsFiniteSet({})
    BY FS_EmptySet, FS_Singleton, Zenon
  <2> QED BY <1>1, <2>1
<1>4. MicTypes(page)
  <2>1. Shape(page)
    <3>1. page.open \subseteq Nat /\ page.served \subseteq Makings
      BY <1>1, Zenon
    <3>2. page.calls \subseteq CallTypes
      BY <1>1, <1>2, Zenon
    <3>3. page.meter \in Nat /\ page.start \in {"none", "live", "canceled"} /\ page.kind \in {"user", "feed"}
      BY <1>1
    <3>4. page.chain \in [of : Nat, id : Nat] /\ page.producer \in Makings
      BY <1>1, <1>2, Zenon
    <3>5. page.streaming \in BOOLEAN /\ page.manual \in BOOLEAN /\ DOMAIN page = MicNames
      BY <1>1, Zenon
    <3> QED BY <3>1, <3>2, <3>3, <3>4, <3>5, Zenon DEF Shape
  <2>2. CallOf(page.kind, c)
    BY <1>1, <1>2 DEF CallOf, UserCalls, FeedCalls
  <2>3. Kinds(page)
    BY <1>1, <2>2 DEF Kinds
  <2> QED BY <1>3, <2>1, <2>3 DEF MicTypes, Finite
<1>5. Tracks(page) /\ OnAir(page) /\ MicLetGo(page)
  BY <1>1, <1>2 DEF Tracks, OnAir, MicLetGo, Producing
<1>6. Once(page) /\ FeedInv(page)
  BY <1>1, <1>2 DEF Once, FeedInv, Owned, Owns, M!Waits
<1> QED BY <1>4, <1>5, <1>6 DEF MicIInv, MicKeeps, MicGood, Safe

(***************************************************************************)
(* Theorems.                                                               *)
(***************************************************************************)
(* The inductive invariant holds always.                                   *)
THEOREM MicInvariant == M!Spec => []MicIInv
<1>1. MicIInv /\ [M!Next]_(M!vars) => MicIInv'
  <2> SUFFICES ASSUME MicIInv, [M!Next]_(M!vars) PROVE MicIInv'
    OBVIOUS
  <2>1. CASE UNCHANGED M!vars
    BY <2>1 DEF M!vars, MicIInv
  <2>2. CASE M!Next
    BY <2>2, OpenSettingsKeeps, CloseSettingsKeeps, ChangeDeviceKeeps, ChangePtimeKeeps, ToggleProcessingKeeps,
       ToggleFeedKeeps, MicPressKeeps, MicReleaseKeeps, ToggleVoiceKeeps, TickKeeps, TimerFiresKeeps, DisconnectKeeps,
       InitializedKeeps, MicOpensKeeps, MicDeniedKeeps, ProducedKeeps DEF M!Next, MicIInv
  <2> QED BY <2>1, <2>2
<1> QED BY <1>1, MicInitIs, PTL DEF M!Spec

(* The values of the variables.                                            *)
THEOREM MicTypesHold == M!Spec => []M!TypeOK
<1>1. MicIInv => M!TypeOK
  BY DEF MicIInv, MicKeeps, MicTypes, Shape, Kinds, M!TypeOK
<1> QED BY <1>1, MicInvariant, PTL

(* Once nothing is under way, the server has one producer of the page at   *)
(* most, it sends the open track through the chain the page adjusts, and a *)
(* feed streams exactly if it was not stopped by hand.                     *)
THEOREM SoundsOnAir == M!Spec => []M!OnAirSounds
<1>1. MicIInv => M!OnAirSounds
  <2> SUFFICES ASSUME MicIInv, M!Settled
               PROVE  /\ page.served = {page.producer} \ {M!NoProducer}
                      /\ page.kind = "feed" => page.streaming = ~page.manual /\ (page.streaming <=> page.producer # M!NoProducer)
                      /\ page.producer # M!NoProducer => M!Sounding(page.producer)
    BY DEF M!OnAirSounds
  <2>1. Safe(page) /\ MicTypes(page) /\ page.calls = {} /\ page.up
    BY DEF MicIInv, M!Settled, MicKeeps, MicGood
  <2>2. page.kind = "feed" => page.streaming = ~page.manual /\ (page.streaming <=> page.producer # M!NoProducer)
    BY <2>1 DEF Safe, FeedInv, Owned, MicTypes, Shape
  <2>3. page.producer # M!NoProducer => M!Sounding(page.producer)
    BY <2>1 DEF Safe, Tracks, OnAir, Sends, M!Sounding
  <2> QED BY <2>1, <2>2, <2>3 DEF Safe, OnAir
<1> QED BY <1>1, MicInvariant, PTL

(* Once nothing is under way and nothing uses the microphone, it is closed *)
(* or a timer is set to close it.                                          *)
THEOREM LetsGo == M!Spec => []M!MicrophoneLetGo
<1>1. MicIInv => M!MicrophoneLetGo
  <2> SUFFICES ASSUME MicIInv, M!Settled, ~page.settings, ~page.voice, page.producer = M!NoProducer, ~page.talking, ~page.timer
               PROVE  page.open = {} /\ page.meter = 0
    BY DEF M!MicrophoneLetGo
  <2>1. Tracks(page) /\ Once(page) /\ MicLetGo(page) /\ page.calls = {} /\ page.up
    BY DEF MicIInv, M!Settled, MicKeeps, MicGood, Safe
  <2>2. page.start = "none"
    BY <2>1 DEF Once, M!Waits
  <2>3. page.mic = 0
    BY <2>1, <2>2 DEF MicLetGo
  <2> QED BY <2>1, <2>3 DEF Tracks
<1> QED BY <1>1, MicInvariant, PTL
(* Both, as the model checker checks them of the part.                     *)
THEOREM MicrophoneHolds == M!Spec => []M!MicrophoneTrue
BY SoundsOnAir, LetsGo, PTL DEF M!MicrophoneTrue

-----------------------------------------------------------------------------
(***************************************************************************)
(* Proofs about the keyboard shortcuts of a page, for every keyboard, every*)
(* list of targets and any number of changes: a key shown beside a target  *)
(* is the key that talks to it, the keys in use are the keys stored, and   *)
(* what counts as pressed is held.                                         *)
(*                                                                         *)
(* The assignment is a recursive function over two loops.  That the        *)
(* recursion has a solution, and what each loop has done after n steps, is *)
(* shown by the absence of a least exception.                              *)
(***************************************************************************)

(***************************************************************************)
(* What the two loops of rebuildTargetHotkeyAssignments do.                *)
(***************************************************************************)
(* No two arguments have one value.                                        *)
Injective(f) == \A x, y \in DOMAIN f : f[x] = f[y] => x = y

(* Keys and targets belong to each other, but for the reply, which may     *)
(* share the key of the main button.                                       *)
Matched(acc) ==
  /\ DOMAIN acc = {"table", "shown"}
  /\ K!IsKeys(acc.table, K!Bindings, K!Identities) /\ K!IsKeys(acc.shown, K!Identities, K!Bindings)
  /\ \A b \in DOMAIN acc.table : acc.table[b] \in DOMAIN acc.shown /\ acc.shown[acc.table[b]] = b
  /\ \A x \in DOMAIN acc.shown :
       /\ acc.shown[x] \in DOMAIN acc.table
       /\ \/ acc.table[acc.shown[x]] = x
          \/ x = "reply" /\ acc.table[acc.shown[x]] = "main" /\ acc.shown[x] = K!Space

(* The main button, the reply and the list: no two alike, the list two     *)
(* places on.                                                              *)
LEMMA DescriptorsAre ==
  ASSUME K!HotkeysAssumption, NEW list \in Seq(K!Targets), K!IsInjective(list)
  PROVE  LET all == K!Descriptors(list) IN
         /\ all \in Seq(K!Identities) /\ K!IsInjective(all) /\ Len(all) = Len(list) + 2
         /\ \A i \in DOMAIN all : all[i] \notin K!Actions => i - 2 \in DOMAIN list /\ list[i - 2] = all[i]
         /\ \A i \in DOMAIN list : i + 2 \in DOMAIN all /\ all[i + 2] = list[i] /\ list[i] \notin K!Actions
<1> DEFINE all == K!Descriptors(list)
           two == <<"main", "reply">>
<1>1. list \in Seq(K!Identities) /\ two \in Seq(K!Identities) /\ Len(two) = 2 /\ two[1] = "main" /\ two[2] = "reply"
  BY DEF K!Identities, K!Actions
<1>2. Len(list) \in Nat /\ DOMAIN list = 1 .. Len(list) /\ \A i \in DOMAIN list : list[i] \in K!Targets
  BY LenProperties, ElementOfSeq
<1>3. all = two \o list
  BY DEF K!Descriptors
<1> HIDE DEF two, all
<1>4. /\ all \in Seq(K!Identities) /\ Len(all) = 2 + Len(list)
      /\ \A i \in 1 .. 2 + Len(list) : all[i] = IF i <= 2 THEN two[i] ELSE list[i - 2]
  <2>1. /\ all \in Seq(K!Identities) /\ Len(all) = Len(two) + Len(list)
        /\ \A i \in 1 .. Len(two) + Len(list) : all[i] = IF i <= Len(two) THEN two[i] ELSE list[i - Len(two)]
    BY <1>1, <1>3, ConcatProperties
  <2> QED BY <1>1, <2>1
<1>5. DOMAIN all = 1 .. Len(list) + 2 /\ Len(all) = Len(list) + 2
  BY <1>2, <1>4, LenProperties
<1>6. all[1] = "main" /\ all[2] = "reply"
  BY <1>1, <1>2, <1>4
<1>7. ASSUME NEW i \in DOMAIN all, i > 2 PROVE i - 2 \in DOMAIN list /\ list[i - 2] = all[i]
  BY <1>2, <1>4, <1>5, <1>7
<1>8. ASSUME NEW i \in DOMAIN list PROVE i + 2 \in DOMAIN all /\ all[i + 2] = list[i] /\ list[i] \notin K!Actions
  <2>1. list[i] \notin K!Actions
    BY <1>2 DEF K!HotkeysAssumption
  <2> QED BY <1>2, <1>4, <1>5, <2>1
<1>9. ASSUME NEW i \in DOMAIN all PROVE i \in {1, 2} \/ i > 2
  BY <1>2, <1>5
<1>10. \A i \in DOMAIN all : i \in Nat /\ (i > 2 => all[i] \notin K!Actions) /\ (all[i] \notin K!Actions => i > 2)
  BY <1>2, <1>5, <1>6, <1>7, <1>8, <1>9 DEF K!Actions
<1>11. ASSUME NEW i \in DOMAIN all, NEW j \in DOMAIN all, all[i] = all[j] PROVE i = j
  <2>1. CASE i > 2
    <3>1. j > 2
      BY <1>10, <1>11, <2>1
    <3>2. i - 2 = j - 2
      BY <1>7, <1>11, <2>1, <3>1 DEF K!IsInjective
    <3> QED BY <1>10, <3>2
  <2>2. CASE ~(i > 2)
    <3>1. ~(j > 2)
      BY <1>10, <1>11, <2>2
    <3> QED BY <1>6, <1>9, <1>11, <2>2, <3>1
  <2> QED BY <2>1, <2>2
<1>12. K!IsInjective(all)
  BY <1>11 DEF K!IsInjective
<1>13. \A i \in DOMAIN all : all[i] \notin K!Actions => i - 2 \in DOMAIN list /\ list[i - 2] = all[i]
  BY <1>7, <1>10
<1> QED BY <1>4, <1>5, <1>8, <1>12, <1>13 DEF all

(* A free key for a target without one.                                    *)
LEMMA GiveKeeps ==
  ASSUME NEW acc, Matched(acc), NEW x \in K!Identities \ DOMAIN acc.shown, NEW b \in K!Bindings \ DOMAIN acc.table
  PROVE  LET r == K!Give(acc, x, b) IN
         /\ Matched(r)
         /\ DOMAIN r.table = DOMAIN acc.table \cup {b} /\ DOMAIN r.shown = DOMAIN acc.shown \cup {x}
         /\ r.shown[x] = b /\ \A y \in DOMAIN acc.shown : r.shown[y] = acc.shown[y]
<1> DEFINE r == K!Give(acc, x, b)
<1>1. r.table = K!With(acc.table, b, x) /\ r.shown = K!With(acc.shown, x, b) /\ DOMAIN r = {"table", "shown"}
  BY DEF K!Give
<1> HIDE DEF r
<1>2. DOMAIN r.table = DOMAIN acc.table \cup {b} /\ DOMAIN r.shown = DOMAIN acc.shown \cup {x}
  BY <1>1 DEF K!With
<1>3. /\ r.table[b] = x /\ r.shown[x] = b
      /\ \A c \in DOMAIN acc.table : r.table[c] = acc.table[c]
      /\ \A y \in DOMAIN acc.shown : r.shown[y] = acc.shown[y]
  BY <1>1 DEF K!With
<1>4. K!IsKeys(r.table, K!Bindings, K!Identities) /\ K!IsKeys(r.shown, K!Identities, K!Bindings)
  BY <1>2, <1>3 DEF Matched, K!IsKeys
<1>5. \A c \in DOMAIN r.table : r.table[c] \in DOMAIN r.shown /\ r.shown[r.table[c]] = c
  BY <1>2, <1>3 DEF Matched
<1>6. ASSUME NEW y \in DOMAIN r.shown
      PROVE  /\ r.shown[y] \in DOMAIN r.table
             /\ r.table[r.shown[y]] = y \/ (y = "reply" /\ r.table[r.shown[y]] = "main" /\ r.shown[y] = K!Space)
  BY <1>2, <1>3 DEF Matched
<1> QED BY <1>1, <1>2, <1>3, <1>4, <1>5, <1>6 DEF r, Matched

(* The first loop: a key set by the user is free when its turn comes.      *)
LEMMA ClaimKeeps ==
  ASSUME NEW acc, Matched(acc), NEW customs, K!IsKeys(customs, K!Identities, K!Bindings), Injective(customs),
         NEW x \in K!Identities,
         \A y \in DOMAIN acc.shown : y \in DOMAIN customs /\ acc.shown[y] = customs[y]
  PROVE  LET r == K!Claim(acc, x, customs) IN
         /\ Matched(r) /\ DOMAIN r.shown = DOMAIN acc.shown \cup ({x} \cap DOMAIN customs)
         /\ \A y \in DOMAIN r.shown : y \in DOMAIN customs /\ r.shown[y] = customs[y]
<1> DEFINE r == K!Claim(acc, x, customs)
<1>1. CASE x \in DOMAIN customs /\ customs[x] \notin DOMAIN acc.table
  <2>1. r = K!Give(acc, x, customs[x])
    BY <1>1 DEF K!Claim
  <2>2. customs[x] \in K!Bindings \ DOMAIN acc.table /\ x \notin DOMAIN acc.shown
    BY <1>1 DEF K!IsKeys, Matched
  <2> HIDE DEF r
  <2> QED BY <1>1, <2>1, <2>2, GiveKeeps DEF r
<1>2. CASE x \in DOMAIN customs /\ customs[x] \in DOMAIN acc.table
  <2>1. r = acc
    BY <1>2 DEF K!Claim
  <2>2. x \in DOMAIN acc.shown
    BY <1>2 DEF Matched, Injective
  <2> QED BY <2>1, <2>2
<1>3. CASE x \notin DOMAIN customs
  BY <1>3 DEF K!Claim
<1> QED BY <1>1, <1>2, <1>3

(* The second: who has a key keeps it, and a target gets the first free    *)
(* digit.                                                                  *)
LEMMA DefaultKeeps ==
  ASSUME K!HotkeysAssumption, NEW acc, Matched(acc), NEW customs, NEW x \in K!Identities
  PROVE  LET r == K!Default(acc, x, customs) IN
         /\ Matched(r) /\ DOMAIN acc.table \subseteq DOMAIN r.table
         /\ DOMAIN acc.shown \subseteq DOMAIN r.shown /\ DOMAIN r.shown \subseteq DOMAIN acc.shown \cup {x}
         /\ \A y \in DOMAIN acc.shown : r.shown[y] = acc.shown[y]
         /\ x \notin K!Actions /\ x \notin DOMAIN acc.shown =>
              \/ x \notin DOMAIN r.shown /\ \A m \in DOMAIN Digits : Digits[m] \in DOMAIN r.table
              \/ \E s \in DOMAIN Digits : /\ Digits[s] \notin DOMAIN acc.table
                                          /\ x \in DOMAIN r.shown /\ r.shown[x] = Digits[s]
                                          /\ \A m \in 1 .. s : Digits[m] \in DOMAIN r.table
<1> DEFINE r == K!Default(acc, x, customs)
           free == {n \in DOMAIN Digits : Digits[n] \notin DOMAIN acc.table}
<1>1. CASE x \in DOMAIN acc.shown
  BY <1>1 DEF K!Default
<1>2. CASE x \notin DOMAIN acc.shown /\ x \in K!Actions /\ K!Space \notin DOMAIN acc.table
  <2>1. r = K!Give(acc, x, K!Space)
    BY <1>2 DEF K!Default
  <2>2. K!Space \in K!Bindings
    BY DEF K!Bindings
  <2> HIDE DEF r
  <2> QED BY <1>2, <2>1, <2>2, GiveKeeps DEF r
<1>3. CASE x \notin DOMAIN acc.shown /\ x \in K!Actions /\ K!Space \in DOMAIN acc.table
  <2> DEFINE shared == x = "reply" /\ acc.table[K!Space] = "main" /\ "main" \notin DOMAIN customs
  <2>1. r = IF shared THEN [acc EXCEPT !.shown = K!With(@, x, K!Space)] ELSE acc
    BY <1>3 DEF K!Default
  <2>2. CASE shared
    <3>1. r.table = acc.table /\ r.shown = K!With(acc.shown, x, K!Space) /\ DOMAIN r = {"table", "shown"}
      BY <2>1, <2>2 DEF Matched
    <3> HIDE DEF r
    <3>2. DOMAIN r.shown = DOMAIN acc.shown \cup {x} /\ r.shown[x] = K!Space
          /\ \A y \in DOMAIN acc.shown : r.shown[y] = acc.shown[y]
      BY <1>3, <3>1 DEF K!With
    <3>3. Matched(r)
      BY <1>3, <2>2, <3>1, <3>2 DEF Matched, K!IsKeys, K!Bindings
    <3> QED BY <1>3, <3>1, <3>2, <3>3 DEF r
  <2>3. CASE ~shared
    <3>1. r = acc
      BY <2>1, <2>3
    <3> QED BY <1>3, <3>1
  <2> QED BY <2>2, <2>3
<1>4. CASE x \notin DOMAIN acc.shown /\ x \notin K!Actions /\ free = {}
  <2>1. r = acc
    BY <1>4 DEF K!Default
  <2> QED BY <1>4, <2>1
<1>5. CASE x \notin DOMAIN acc.shown /\ x \notin K!Actions /\ free # {}
  <2> DEFINE s == CHOOSE n \in free : \A m \in free : n <= m
  <2>1. Len(Digits) \in Nat /\ DOMAIN Digits = 1 .. Len(Digits)
    BY LenProperties DEF K!HotkeysAssumption
  <2>2. s \in free /\ \A m \in free : s <= m
    <3>1. free \subseteq Nat
      BY <2>1
    <3> HIDE DEF free
    <3>2. \E n \in free : \A m \in free : n <= m
      BY <1>5, <3>1, Least
    <3> QED BY <3>2
  <2>3. r = K!Give(acc, x, Digits[s])
    BY <1>5 DEF K!Default
  <2>4. s \in DOMAIN Digits /\ Digits[s] \notin DOMAIN acc.table /\ Digits[s] \in K!Bindings
    BY <2>2 DEF K!Bindings, K!ToSet
  <2>5. \A m \in 1 .. s : Digits[m] \in DOMAIN acc.table \cup {Digits[s]}
    BY <2>1, <2>2
  <2> HIDE DEF r, s, free
  <2> QED BY <1>5, <2>3, <2>4, <2>5, GiveKeeps DEF r
<1> QED BY <1>1, <1>2, <1>3, <1>4, <1>5

(* The recursion of Assigned, one step at a time.                          *)
Empty == [table |-> K!Nothing, shown |-> K!Nothing]

Given(list, customs, n, acc) ==
  LET all == K!Descriptors(list) IN
  IF n <= Len(all) THEN K!Claim(acc, all[n], customs) ELSE K!Default(acc, all[n - Len(all)], customs)

KeyRec(list, customs, k) == [n \in DOMAIN k |-> IF n = 0 THEN Empty ELSE Given(list, customs, n, k[n - 1])]

(* The recursion has a solution up to every number.                        *)
LEMMA GivenExists ==
  ASSUME NEW list, NEW customs, NEW N \in Nat
  PROVE  \E k : DOMAIN k = 0 .. N /\ k = KeyRec(list, customs, k)
<1> DEFINE Solved(n) == \E k : DOMAIN k = 0 .. n /\ k = KeyRec(list, customs, k)
           Bad == {n \in 0 .. N : ~Solved(n)}
<1> SUFFICES ASSUME Bad # {} PROVE FALSE
  OBVIOUS
<1>1. PICK n \in Bad : \A m \in Bad : n <= m
  <2>1. Bad \subseteq Nat
    OBVIOUS
  <2> HIDE DEF Bad
  <2> QED BY <2>1, Least
<1>2. n \in 0 .. N /\ ~Solved(n)
  BY <1>1
<1>3. CASE n = 0
  <2> DEFINE k == [i \in 0 .. 0 |-> Empty]
  <2>1. k = KeyRec(list, customs, k) /\ DOMAIN k = 0 .. 0
    BY DEF KeyRec
  <2> QED BY <1>2, <1>3, <2>1
<1>4. CASE n # 0
  <2>1. n \in Nat \ {0} /\ n - 1 \in 0 .. N /\ ~(n <= n - 1)
    BY <1>2, <1>4
  <2>2. Solved(n - 1)
    <3>1. n - 1 \notin Bad
      <4> HIDE DEF Bad
      <4> QED BY <1>1, <2>1
    <3> QED BY <2>1, <3>1
  <2>3. PICK f : DOMAIN f = 0 .. n - 1 /\ f = KeyRec(list, customs, f)
    BY <2>2
  <2> DEFINE k == [i \in 0 .. n |-> IF i = n THEN Given(list, customs, n, f[n - 1]) ELSE f[i]]
  <2>4. \A i \in 0 .. n - 1 : i # n /\ k[i] = f[i]
    BY <2>1
  <2>5. k[n] = Given(list, customs, n, f[n - 1])
    BY <2>1
  <2>6. ASSUME NEW i \in 0 .. n
        PROVE  k[i] = IF i = 0 THEN Empty ELSE Given(list, customs, i, k[i - 1])
    <3>1. CASE i = n
      <4>1. k[n - 1] = f[n - 1] /\ n # 0
        BY <2>1, <2>4
      <4> HIDE DEF k
      <4> QED BY <2>5, <3>1, <4>1
    <3>2. CASE i # n
      <4>1. i \in 0 .. n - 1 /\ (i # 0 => i - 1 \in 0 .. n - 1)
        BY <2>1, <3>2
      <4>2. f[i] = IF i = 0 THEN Empty ELSE Given(list, customs, i, f[i - 1])
        BY <2>3, <4>1 DEF KeyRec
      <4> HIDE DEF k
      <4> QED BY <2>4, <4>1, <4>2
    <3> QED BY <3>1, <3>2
  <2>7. k = KeyRec(list, customs, k) /\ DOMAIN k = 0 .. n
    <3>1. DOMAIN k = 0 .. n /\ k = [i \in 0 .. n |-> k[i]]
      OBVIOUS
    <3> HIDE DEF k
    <3> QED BY <2>6, <3>1 DEF KeyRec
  <2> HIDE DEF k
  <2> QED BY <1>2, <2>7
<1> QED BY <1>3, <1>4

(* So the function chosen is one.                                          *)
LEMMA GivenSolves ==
  ASSUME NEW list, NEW customs, Len(K!Descriptors(list)) \in Nat
  PROVE  LET N == 2 * Len(K!Descriptors(list)) IN
         \E k : /\ \A n \in 0 .. N : k[n] = IF n = 0 THEN Empty ELSE Given(list, customs, n, k[n - 1])
                /\ K!Assigned(list, customs) = k[N]
<1> DEFINE all == K!Descriptors(list)
           N == 2 * Len(all)
           P(k) == k = [n \in 0 .. N |-> IF n = 0 THEN [table |-> K!Nothing, shown |-> K!Nothing]
                                         ELSE IF n <= Len(all) THEN K!Claim(k[n - 1], all[n], customs)
                                         ELSE K!Default(k[n - 1], all[n - Len(all)], customs)]
           G == CHOOSE k : P(k)
<1>0. N \in Nat
  OBVIOUS
<1>1. PICK f : DOMAIN f = 0 .. N /\ f = KeyRec(list, customs, f)
  <2> HIDE DEF N
  <2> QED BY <1>0, GivenExists
<1>2. P(f)
  BY <1>1 DEF KeyRec, Given, Empty
<1>3. P(G)
  <2> HIDE DEF P
  <2> QED BY <1>2
<1>4. K!Assigned(list, customs) = G[N]
  BY DEF K!Assigned
<1>5. \A n \in 0 .. N : G[n] = IF n = 0 THEN Empty ELSE Given(list, customs, n, G[n - 1])
  <2> HIDE DEF G
  <2> QED BY <1>3 DEF Given, Empty
<1> HIDE DEF G
<1> QED BY <1>4, <1>5

(* A target without a key of its own.                                      *)
Plain(all, customs, i) == all[i] \notin K!Actions /\ all[i] \notin DOMAIN customs

(* After n steps of the first loop the first n have the keys set for them. *)
First(acc, all, customs, n) ==
  /\ Matched(acc) /\ DOMAIN acc.shown = {all[i] : i \in 1 .. n} \cap DOMAIN customs
  /\ \A x \in DOMAIN acc.shown : acc.shown[x] = customs[x]

(* The first s digits have a target.                                       *)
Taken(acc, s) == \A m \in 1 .. s : Digits[m] \in DOMAIN acc.table

(* After n steps of the second the first n have keys: the plain ones the   *)
(* digits in order, or none is left.                                       *)
Second(acc, all, customs, n) ==
  /\ Matched(acc)
  /\ \A i \in DOMAIN all : all[i] \in DOMAIN customs =>
       all[i] \in DOMAIN acc.shown /\ acc.shown[all[i]] = customs[all[i]]
  /\ DOMAIN acc.shown \subseteq DOMAIN customs \cup {all[i] : i \in 1 .. n}
  /\ \A i \in 1 .. n : Plain(all, customs, i) =>
       IF all[i] \in DOMAIN acc.shown
       THEN \E s \in DOMAIN Digits : acc.shown[all[i]] = Digits[s] /\ Taken(acc, s)
       ELSE Taken(acc, Len(Digits))
  /\ \A i, j \in 1 .. n :
       i < j /\ Plain(all, customs, i) /\ Plain(all, customs, j) /\ all[j] \in DOMAIN acc.shown =>
         /\ all[i] \in DOMAIN acc.shown
         /\ \E r, s \in DOMAIN Digits : r < s /\ acc.shown[all[i]] = Digits[r] /\ acc.shown[all[j]] = Digits[s]

(* One step of the second loop.                                            *)
LEMMA SecondKeeps ==
  ASSUME K!HotkeysAssumption, NEW customs, NEW all \in Seq(K!Identities), K!IsInjective(all),
         NEW n \in 1 .. Len(all), NEW acc, Second(acc, all, customs, n - 1)
  PROVE  Second(K!Default(acc, all[n], customs), all, customs, n)
<1> DEFINE r == K!Default(acc, all[n], customs)
           x == all[n]
<1>1. Len(all) \in Nat /\ DOMAIN all = 1 .. Len(all) /\ x \in K!Identities /\ n \in DOMAIN all
  BY LenProperties, ElementOfSeq
<1>2. Len(Digits) \in Nat /\ DOMAIN Digits = 1 .. Len(Digits)
  BY LenProperties DEF K!HotkeysAssumption
<1>3. /\ Matched(r) /\ DOMAIN acc.table \subseteq DOMAIN r.table
      /\ DOMAIN acc.shown \subseteq DOMAIN r.shown /\ DOMAIN r.shown \subseteq DOMAIN acc.shown \cup {x}
      /\ \A y \in DOMAIN acc.shown : r.shown[y] = acc.shown[y]
      /\ x \notin K!Actions /\ x \notin DOMAIN acc.shown =>
              \/ x \notin DOMAIN r.shown /\ \A m \in DOMAIN Digits : Digits[m] \in DOMAIN r.table
              \/ \E s \in DOMAIN Digits : /\ Digits[s] \notin DOMAIN acc.table
                                          /\ x \in DOMAIN r.shown /\ r.shown[x] = Digits[s]
                                          /\ \A m \in 1 .. s : Digits[m] \in DOMAIN r.table
  BY <1>1, DefaultKeeps DEF Second
<1> HIDE DEF r
<1>4. 1 .. n = (1 .. n - 1) \cup {n} /\ n \notin 1 .. n - 1 /\ \A i \in 1 .. n - 1 : i \in DOMAIN all /\ all[i] # x
  <2>1. \A i \in 1 .. n - 1 : i \in DOMAIN all /\ i # n
    BY <1>1
  <2> QED BY <1>1, <2>1 DEF K!IsInjective
<1>5. /\ \A i \in DOMAIN all : all[i] \in DOMAIN customs =>
           all[i] \in DOMAIN r.shown /\ r.shown[all[i]] = customs[all[i]]
      /\ DOMAIN r.shown \subseteq DOMAIN customs \cup {all[i] : i \in 1 .. n}
  BY <1>3, <1>4 DEF Second
<1>6. Plain(all, customs, n) => x \notin K!Actions /\ x \notin DOMAIN acc.shown
  BY <1>4 DEF Plain, Second
<1>7. \A i \in 1 .. n - 1 : all[i] \in DOMAIN r.shown <=> all[i] \in DOMAIN acc.shown
  BY <1>3, <1>4
<1>8. \A s : Taken(acc, s) => Taken(r, s)
  BY <1>3 DEF Taken
<1>9. ASSUME NEW i \in 1 .. n, Plain(all, customs, i)
      PROVE  IF all[i] \in DOMAIN r.shown
             THEN \E s \in DOMAIN Digits : r.shown[all[i]] = Digits[s] /\ Taken(r, s)
             ELSE Taken(r, Len(Digits))
  <2>1. CASE i = n
    BY <1>2, <1>3, <1>6, <1>9, <2>1 DEF Taken
  <2>2. CASE i # n
    <3>1. i \in 1 .. n - 1
      BY <1>4, <2>2
    <3> QED BY <1>3, <1>7, <1>8, <1>9, <3>1 DEF Second
  <2> QED BY <2>1, <2>2
<1>10. ASSUME NEW i \in 1 .. n, NEW j \in 1 .. n, i < j, Plain(all, customs, i), Plain(all, customs, j),
              all[j] \in DOMAIN r.shown
       PROVE  /\ all[i] \in DOMAIN r.shown
              /\ \E q, s \in DOMAIN Digits : q < s /\ r.shown[all[i]] = Digits[q] /\ r.shown[all[j]] = Digits[s]
  <2>1. i \in 1 .. n - 1
    BY <1>10
  <2>2. CASE j = n
    <3>1. PICK s \in DOMAIN Digits : Digits[s] \notin DOMAIN acc.table /\ r.shown[x] = Digits[s]
      BY <1>3, <1>6, <1>10, <2>2
    <3>2. ~Taken(acc, Len(Digits))
      BY <1>2, <3>1 DEF Taken
    <3>3. all[i] \in DOMAIN acc.shown
      BY <1>10, <2>1, <3>2 DEF Second
    <3>4. PICK q \in DOMAIN Digits : acc.shown[all[i]] = Digits[q] /\ Taken(acc, q)
      BY <1>10, <2>1, <3>3 DEF Second
    <3>5. q < s
      BY <1>2, <3>1, <3>4 DEF Taken
    <3> QED BY <1>3, <2>2, <3>1, <3>3, <3>4, <3>5
  <2>3. CASE j # n
    <3>1. j \in 1 .. n - 1
      BY <1>4, <2>3
    <3> QED BY <1>3, <1>7, <1>10, <2>1, <3>1 DEF Second
  <2> QED BY <2>2, <2>3
<1> QED BY <1>3, <1>5, <1>9, <1>10 DEF Second, r

(* What the two loops make of a list and the keys set, for every list.     *)
LEMMA AssignedIs ==
  ASSUME K!HotkeysAssumption, NEW list \in Seq(K!Targets), K!IsInjective(list),
         NEW customs, K!IsKeys(customs, K!Identities, K!Bindings), Injective(customs)
  PROVE  LET all == K!Descriptors(list) IN Second(K!Assigned(list, customs), all, customs, Len(all))
<1> DEFINE all == K!Descriptors(list)
           L == Len(all)
           N == 2 * L
<1>1. all \in Seq(K!Identities) /\ K!IsInjective(all)
  BY DescriptorsAre
<1>2. L \in Nat /\ DOMAIN all = 1 .. L /\ \A i \in 1 .. L : all[i] \in K!Identities
  BY <1>1, LenProperties, ElementOfSeq
<1>3. PICK k : /\ \A n \in 0 .. N : k[n] = IF n = 0 THEN Empty ELSE Given(list, customs, n, k[n - 1])
               /\ K!Assigned(list, customs) = k[N]
  BY <1>2, GivenSolves
<1>4. /\ k[0] = Empty
      /\ \A n \in 1 .. L : k[n] = K!Claim(k[n - 1], all[n], customs)
      /\ \A n \in 1 .. L : k[L + n] = K!Default(k[L + n - 1], all[n], customs)
  <2>1. ASSUME NEW n \in 1 .. L PROVE k[n] = K!Claim(k[n - 1], all[n], customs)
    <3>1. n \in 0 .. N /\ n # 0 /\ n <= L
      BY <1>2
    <3> QED BY <1>3, <3>1 DEF Given
  <2>2. ASSUME NEW n \in 1 .. L PROVE k[L + n] = K!Default(k[L + n - 1], all[n], customs)
    <3>1. L + n \in 0 .. N /\ L + n # 0 /\ ~(L + n <= L) /\ L + n - L = n
      BY <1>2
    <3> DEFINE m == L + n
    <3>2. k[m] = Given(list, customs, m, k[m - 1])
      <4> HIDE DEF m, N
      <4>1. m \in 0 .. N /\ m # 0
        BY <3>1 DEF m
      <4> QED BY <1>3, <4>1
    <3> QED BY <3>1, <3>2 DEF Given
  <2>3. 0 \in 0 .. N
    BY <1>2
  <2> QED BY <1>3, <2>1, <2>2, <2>3
<1> HIDE DEF all, L
<1> DEFINE Bad1 == {n \in 0 .. L : ~First(k[n], all, customs, n)}
           Bad2 == {n \in 0 .. L : ~Second(k[L + n], all, customs, n)}
<1>5. Bad1 = {}
  <2> SUFFICES ASSUME Bad1 # {} PROVE FALSE
    OBVIOUS
  <2>1. PICK n \in Bad1 : \A m \in Bad1 : n <= m
    <3>1. Bad1 \subseteq Nat
      BY <1>2
    <3> HIDE DEF Bad1
    <3> QED BY <3>1, Least
  <2>2. n \in 0 .. L /\ ~First(k[n], all, customs, n)
    BY <2>1
  <2>3. n # 0
    <3>1. First(Empty, all, customs, 0)
      BY DEF First, Empty, K!Nothing, Matched, K!IsKeys
    <3> QED BY <1>4, <2>2, <3>1
  <2>4. n \in 1 .. L /\ n - 1 \in 0 .. L /\ ~(n <= n - 1) /\ 1 .. n = (1 .. n - 1) \cup {n}
    BY <1>2, <2>2, <2>3
  <2>5. First(k[n - 1], all, customs, n - 1)
    <3>1. n - 1 \notin Bad1
      <4> HIDE DEF Bad1
      <4> QED BY <2>1, <2>4
    <3> QED BY <2>4, <3>1
  <2> DEFINE a == k[n - 1]
             r == K!Claim(a, all[n], customs)
  <2>6. Matched(a) /\ DOMAIN a.shown = {all[i] : i \in 1 .. n - 1} \cap DOMAIN customs
        /\ \A x \in DOMAIN a.shown : a.shown[x] = customs[x]
    BY <2>5 DEF First
  <2>7. all[n] \in K!Identities /\ k[n] = r
    BY <1>2, <1>4, <2>4
  <2> HIDE DEF a
  <2>8. Matched(r) /\ DOMAIN r.shown = DOMAIN a.shown \cup ({all[n]} \cap DOMAIN customs)
        /\ \A x \in DOMAIN r.shown : r.shown[x] = customs[x]
    BY <2>6, <2>7, ClaimKeeps
  <2> HIDE DEF r
  <2>9. {all[i] : i \in 1 .. n} = {all[i] : i \in 1 .. n - 1} \cup {all[n]}
    BY <2>4
  <2>10. DOMAIN r.shown = {all[i] : i \in 1 .. n} \cap DOMAIN customs
    BY <2>6, <2>8, <2>9
  <2> QED BY <2>2, <2>7, <2>8, <2>10 DEF First
<1>6. Bad2 = {}
  <2> SUFFICES ASSUME Bad2 # {} PROVE FALSE
    OBVIOUS
  <2>1. PICK n \in Bad2 : \A m \in Bad2 : n <= m
    <3>1. Bad2 \subseteq Nat
      BY <1>2
    <3> HIDE DEF Bad2
    <3> QED BY <3>1, Least
  <2>2. n \in 0 .. L /\ ~Second(k[L + n], all, customs, n)
    BY <2>1
  <2>3. n # 0
    <3>1. First(k[L], all, customs, L)
      <4>1. L \in 0 .. L /\ L \notin Bad1
        <5> HIDE DEF Bad1
        <5> QED BY <1>2, <1>5
      <4> QED BY <4>1
    <3>2. Second(k[L], all, customs, 0)
      BY <1>2, <3>1 DEF First, Second
    <3>3. L + 0 = L
      BY <1>2
    <3> QED BY <2>2, <3>2, <3>3
  <2>4. n \in 1 .. L /\ n - 1 \in 0 .. L /\ ~(n <= n - 1) /\ L + (n - 1) = L + n - 1
    BY <1>2, <2>2, <2>3
  <2>5. Second(k[L + n - 1], all, customs, n - 1)
    <3>1. n - 1 \notin Bad2
      <4> HIDE DEF Bad2
      <4> QED BY <2>1, <2>4
    <3> QED BY <2>4, <3>1
  <2>6. Second(K!Default(k[L + n - 1], all[n], customs), all, customs, n)
    BY <1>1, <2>4, <2>5, SecondKeeps DEF L
  <2> QED BY <1>4, <2>2, <2>4, <2>6
<1>7. Second(k[L + L], all, customs, L)
  <2>1. L \in 0 .. L /\ L \notin Bad2
    <3> HIDE DEF Bad2
    <3> QED BY <1>2, <1>6
  <2> QED BY <2>1
<1>8. N = L + L
  BY <1>2
<1> QED BY <1>3, <1>7, <1>8 DEF all, L

(***************************************************************************)
(* The inductive invariant.                                                *)
(***************************************************************************)
(* A page by its fields.                                                   *)
KeyNames ==
  {"kind", "multi", "prod", "switching", "list", "asked", "customs", "loaded", "store", "table", "shown", "held",
   "pressed", "talking", "capture", "menu", "dialog", "away", "locked", "last", "online", "main", "amiss"}

(* Nothing but the fields in S differs.                                    *)
KeySameBut(p, q, S) == \A f \in KeyNames \ S : q[f] = p[f]

(* Types of the list and its keys, of what talks, of the rest.             *)
KeyTypes(p) ==
  /\ p.list \in Seq(K!Targets) /\ K!IsKeys(p.customs, K!Identities, K!Bindings) /\ p.loaded \in K!Prods \cup {None}
  /\ \A q \in K!Prods : K!IsKeys(p.store[q], K!Identities, K!Bindings)
  /\ K!IsKeys(p.table, K!Bindings, K!Identities) /\ K!IsKeys(p.shown, K!Identities, K!Bindings)

TalkTypes(p) ==
  /\ p.held \subseteq DOMAIN Binding /\ p.pressed \subseteq K!Bindings
  /\ K!IsKeys(p.talking, p.pressed, K!Targets)
  /\ p.last \in K!Targets \cup {None} /\ \A q \in K!Prods : p.main[q] \in K!Targets \cup {None}

RestTypes(p) ==
  /\ p.kind \in {"user", "guest"} /\ p.prod \in K!Prods /\ p.switching \in K!Prods \cup {None} /\ p.asked \subseteq K!Prods
  /\ p.capture \in K!Identities \cup {None} /\ p.menu \in {"closed", "main", "shortcuts"} /\ p.online \subseteq People
  /\ p.multi \in BOOLEAN /\ p.dialog \in BOOLEAN /\ p.away \in BOOLEAN /\ p.locked \in BOOLEAN /\ p.amiss \in BOOLEAN

KeysTypes(p) ==
  /\ DOMAIN p = KeyNames /\ DOMAIN p.store = K!Prods /\ DOMAIN p.main = K!Prods
  /\ KeyTypes(p) /\ TalkTypes(p) /\ RestTypes(p)

(* The keys in use are stored for the production they were loaded for.     *)
Stored(p) ==
  /\ K!IsInjective(p.list) /\ Injective(p.customs) /\ \A q \in K!Prods : Injective(p.store[q])
  /\ p.loaded # None => p.loaded = K!StorageKey(p) /\ p.customs = p.store[p.loaded]

(* What counts as pressed is held, and has a binding.                      *)
Held(p) == ~p.amiss => p.pressed \subseteq {Binding[k] : k \in p.held} /\ (p.away => p.pressed = {})
Bound(p) == ~p.amiss => p.pressed \subseteq DOMAIN p.table
(* The table is the one of the list and the keys set.                      *)
Current(p) == LET r == K!Assigned(p.list, p.customs) IN p.table = r.table /\ p.shown = r.shown

(* What a handler may assume before it rebuilds the table.                 *)
Loose(p) == KeysTypes(p) /\ Stored(p) /\ Held(p)
KeyKeeps(p) == Loose(p) /\ Bound(p) /\ Current(p)

(* The fields of which the invariant speaks, beyond types.                 *)
Own == {"kind", "prod", "list", "customs", "loaded", "store", "table", "shown", "held", "pressed", "away", "amiss"}

(***************************************************************************)
(* The parts of the handlers.                                              *)
(***************************************************************************)
(* The invariant speaks of some fields only.                               *)
LEMMA Framed ==
  ASSUME NEW p, NEW q, KeySameBut(p, q, KeyNames \ Own)
  PROVE  /\ Stored(p) => Stored(q)
         /\ Held(p) => Held(q)
         /\ Bound(p) => Bound(q)
         /\ Current(p) => Current(q)
<1>1. /\ q.kind = p.kind /\ q.prod = p.prod /\ q.list = p.list /\ q.customs = p.customs /\ q.loaded = p.loaded
      /\ q.store = p.store /\ q.table = p.table /\ q.shown = p.shown /\ q.held = p.held
      /\ q.pressed = p.pressed /\ q.away = p.away /\ q.amiss = p.amiss
  BY DEF KeySameBut, KeyNames, Own
<1> QED BY <1>1 DEF Stored, Held, Bound, Current, K!StorageKey

(* ensureCustomTargetHotkeysLoaded: afterwards the keys are those stored.  *)
LEMMA KeyLoadIs ==
  ASSUME NEW p, KeysTypes(p)
  PROVE  LET q == K!Load(p) IN
         /\ KeysTypes(q) /\ KeySameBut(p, q, {"customs", "loaded"}) /\ q.loaded = K!StorageKey(p)
         /\ Stored(p) => Stored(q)
         /\ Held(p) => Held(q)
<1> DEFINE q == K!Load(p)
           new == IF K!StorageKey(p) = None THEN K!Nothing ELSE p.store[K!StorageKey(p)]
<1>1. K!StorageKey(p) \in K!Prods \cup {None}
  BY DEF KeysTypes, RestTypes, K!StorageKey
<1>2. CASE p.loaded = K!StorageKey(p)
  BY <1>2 DEF K!Load, KeySameBut
<1>3. CASE p.loaded # K!StorageKey(p)
  <2>1. q = [p EXCEPT !.loaded = K!StorageKey(p), !.customs = new]
    BY <1>3 DEF K!Load
  <2>2. K!IsKeys(new, K!Identities, K!Bindings) /\ (Stored(p) => Injective(new))
    BY <1>1 DEF KeysTypes, KeyTypes, Stored, Injective, K!IsKeys, K!Nothing
  <2>3. K!StorageKey(p) # None => new = p.store[K!StorageKey(p)]
    OBVIOUS
  <2> HIDE DEF q, new
  <2>4. KeysTypes(q) /\ KeySameBut(p, q, {"customs", "loaded"}) /\ q.loaded = K!StorageKey(p) /\ q.customs = new
    BY <1>1, <2>1, <2>2 DEF KeysTypes, KeyTypes, TalkTypes, RestTypes, KeySameBut, KeyNames
  <2>5. K!StorageKey(q) = K!StorageKey(p) /\ q.list = p.list /\ q.store = p.store
    BY <2>4 DEF KeySameBut, KeyNames, K!StorageKey
  <2>6. Stored(p) => Stored(q)
    BY <2>2, <2>3, <2>4, <2>5 DEF Stored
  <2>7. Held(p) => Held(q)
    BY <2>4 DEF KeySameBut, KeyNames, Held
  <2> QED BY <2>4, <2>6, <2>7 DEF q
<1> QED BY <1>2, <1>3

(* rebuildTargetHotkeyAssignments makes the table current, or notes that a *)
(* pressed key lost its binding.                                           *)
LEMMA RebuildKeeps ==
  ASSUME K!HotkeysAssumption, NEW p, Loose(p)
  PROVE  LET q == K!Rebuild(p) IN KeyKeeps(q) /\ q.list = p.list
<1> DEFINE l == K!Load(p)
           r == K!Assigned(l.list, l.customs)
           q == K!Rebuild(p)
<1>1. q = [l EXCEPT !.table = r.table, !.shown = r.shown, !.amiss = @ \/ ~(l.pressed \subseteq DOMAIN r.table)]
  BY DEF K!Rebuild
<1>2. Loose(l) /\ l.list = p.list
  BY KeyLoadIs DEF Loose, KeySameBut, KeyNames
<1> HIDE DEF l
<1>3. Matched(r)
  BY <1>2, AssignedIs DEF Second, Loose, KeysTypes, KeyTypes, Stored
<1> HIDE DEF r, q
<1>4. K!IsKeys(r.table, K!Bindings, K!Identities) /\ K!IsKeys(r.shown, K!Identities, K!Bindings)
  BY <1>3 DEF Matched
<1>5. /\ KeysTypes(q) /\ KeySameBut(l, q, {"table", "shown", "amiss"}) /\ q.table = r.table /\ q.shown = r.shown
      /\ q.amiss = (l.amiss \/ ~(l.pressed \subseteq DOMAIN r.table))
  BY <1>1, <1>2, <1>4 DEF Loose, KeysTypes, KeyTypes, TalkTypes, RestTypes, KeySameBut, KeyNames
<1>6. /\ q.kind = l.kind /\ q.prod = l.prod /\ q.list = l.list /\ q.customs = l.customs /\ q.loaded = l.loaded
      /\ q.store = l.store /\ q.held = l.held /\ q.pressed = l.pressed /\ q.away = l.away
  BY <1>5 DEF KeySameBut, KeyNames
<1>7. Stored(q)
  BY <1>2, <1>6 DEF Loose, Stored, K!StorageKey
<1>8. Held(q) /\ Bound(q) /\ Current(q)
  BY <1>2, <1>5, <1>6 DEF Loose, Held, Bound, Current, r
<1> QED BY <1>2, <1>5, <1>6, <1>7, <1>8 DEF KeyKeeps, Loose, q

(* renderTargetHotkeySettings.                                             *)
LEMMA RenderSettingsKeeps == ASSUME NEW p, KeyKeeps(p) PROVE KeyKeeps(K!RenderSettings(p))
<1> DEFINE q == K!RenderSettings(p)
<1>1. KeysTypes(q) /\ KeySameBut(p, q, {"capture"})
  BY DEF K!RenderSettings, KeyKeeps, Loose, KeysTypes, KeyTypes, TalkTypes, RestTypes, KeySameBut, KeyNames
<1> HIDE DEF q
<1>2. KeySameBut(p, q, KeyNames \ Own)
  BY <1>1 DEF KeySameBut, Own
<1> QED BY <1>1, <1>2, Framed DEF KeyKeeps, Loose, q

(* refreshTargetHotkeyUi.                                                  *)
LEMMA KeyRefreshKeeps == ASSUME K!HotkeysAssumption, NEW p, Loose(p) PROVE KeyKeeps(K!Refresh(p))
BY RebuildKeeps, RenderSettingsKeeps DEF K!Refresh

(* persistCustomTargetHotkeys: what is in use is stored, whatever was set  *)
(* before.                                                                 *)
LEMMA PersistKeeps ==
  ASSUME NEW p, KeysTypes(p), K!IsInjective(p.list), Injective(p.customs), \A q \in K!Prods : Injective(p.store[q]), Held(p),
         p.loaded # None => p.loaded = K!StorageKey(p)
  PROVE  Loose(K!Persist(p))
<1> DEFINE q == K!Persist(p)
<1>1. K!StorageKey(p) \in K!Prods \cup {None}
  BY DEF KeysTypes, RestTypes, K!StorageKey
<1>2. CASE K!StorageKey(p) = None
  BY <1>2 DEF K!Persist, Loose, Stored
<1>3. CASE K!StorageKey(p) # None
  <2> DEFINE new == [p.store EXCEPT ![K!StorageKey(p)] = p.customs]
  <2>1. q = [p EXCEPT !.store = new]
    BY <1>3 DEF K!Persist
  <2>2. DOMAIN new = K!Prods /\ \A k \in K!Prods : new[k] = IF k = K!StorageKey(p) THEN p.customs ELSE p.store[k]
    BY DEF KeysTypes
  <2> HIDE DEF new, q
  <2>3. \A k \in K!Prods : K!IsKeys(new[k], K!Identities, K!Bindings) /\ Injective(new[k])
    BY <2>2 DEF KeysTypes, KeyTypes
  <2>4. KeysTypes(q) /\ KeySameBut(p, q, {"store"}) /\ q.store = new
    BY <2>1, <2>2, <2>3 DEF KeysTypes, KeyTypes, TalkTypes, RestTypes, KeySameBut, KeyNames
  <2>5. q.kind = p.kind /\ q.prod = p.prod /\ q.list = p.list /\ q.customs = p.customs /\ q.loaded = p.loaded
        /\ q.held = p.held /\ q.pressed = p.pressed /\ q.away = p.away /\ q.amiss = p.amiss
    BY <2>4 DEF KeySameBut, KeyNames
  <2>6. Stored(q)
    BY <1>1, <1>3, <2>2, <2>3, <2>4, <2>5 DEF Stored, K!StorageKey
  <2>7. Held(q)
    BY <2>5 DEF Held
  <2> QED BY <2>4, <2>6, <2>7 DEF Loose, q
<1> QED BY <1>2, <1>3

(* handleStopTalking: no key counts as pressed any more.                   *)
LEMMA StopAllKeeps ==
  ASSUME NEW p, KeysTypes(p)
  PROVE  LET q == K!StopAll(p) IN
         /\ KeysTypes(q) /\ KeySameBut(p, q, {"talking", "pressed", "locked", "amiss"}) /\ q.pressed = {} /\ Held(q) /\ Bound(q)
         /\ Stored(p) => Stored(q)
         /\ Current(p) => Current(q)
<1> DEFINE q == K!StopAll(p)
<1>1. KeysTypes(q) /\ KeySameBut(p, q, {"talking", "pressed", "locked", "amiss"}) /\ q.pressed = {}
  BY DEF K!StopAll, KeysTypes, KeyTypes, TalkTypes, RestTypes, KeySameBut, KeyNames, K!IsKeys, K!Nothing
<1> HIDE DEF q
<1>2. q.kind = p.kind /\ q.prod = p.prod /\ q.list = p.list /\ q.customs = p.customs /\ q.loaded = p.loaded
      /\ q.store = p.store /\ q.table = p.table /\ q.shown = p.shown
  BY <1>1 DEF KeySameBut, KeyNames
<1>3. (Stored(p) => Stored(q)) /\ (Current(p) => Current(q))
  BY <1>2 DEF Stored, K!StorageKey, Current
<1> QED BY <1>1, <1>3 DEF q, Held, Bound

(* setCustomHotkeyForTarget: a key has one target.                         *)
LEMMA SetCustomKeeps ==
  ASSUME K!HotkeysAssumption, NEW p, Loose(p), NEW x \in K!Identities, NEW b \in K!Bindings
  PROVE  KeyKeeps(K!SetCustom(p, x, b))
<1> DEFINE q == K!Load(p)
           others == K!Without(q.customs, {y \in DOMAIN q.customs : q.customs[y] = b})
           new == K!With(others, x, b)
           r == [q EXCEPT !.customs = new, !.capture = None]
<1>1. K!SetCustom(p, x, b) = K!Refresh(K!Persist(r))
  BY DEF K!SetCustom
<1>2. Loose(q) /\ KeySameBut(p, q, {"customs", "loaded"}) /\ q.loaded = K!StorageKey(p)
  BY KeyLoadIs DEF Loose
<1> HIDE DEF q
<1>3. K!IsKeys(others, K!Identities, K!Bindings) /\ Injective(others) /\ \A y \in DOMAIN others : others[y] # b
  BY <1>2 DEF K!Without, K!IsKeys, Injective, Loose, KeysTypes, KeyTypes, Stored
<1> HIDE DEF others
<1>4. K!IsKeys(new, K!Identities, K!Bindings) /\ Injective(new)
  BY <1>3 DEF K!With, K!IsKeys, Injective
<1> HIDE DEF new, r
<1>5. KeysTypes(r) /\ KeySameBut(q, r, {"customs", "capture"}) /\ r.customs = new
  BY <1>2, <1>4 DEF r, Loose, KeysTypes, KeyTypes, TalkTypes, RestTypes, KeySameBut, KeyNames
<1>6. /\ r.kind = q.kind /\ r.prod = q.prod /\ r.list = q.list /\ r.loaded = q.loaded /\ r.store = q.store
      /\ r.held = q.held /\ r.pressed = q.pressed /\ r.away = q.away /\ r.amiss = q.amiss
  BY <1>5 DEF KeySameBut, KeyNames
<1>7. Held(r) /\ K!IsInjective(r.list) /\ (\A k \in K!Prods : Injective(r.store[k])) /\ (r.loaded # None => r.loaded = K!StorageKey(r))
  BY <1>2, <1>6 DEF Loose, Held, Stored, K!StorageKey
<1>8. Loose(K!Persist(r))
  BY <1>4, <1>5, <1>7, PersistKeeps
<1> QED BY <1>1, <1>8, KeyRefreshKeeps

(* clearCustomHotkeyForTarget and resetCustomTargetHotkeys.                *)
LEMMA ClearCustomsKeeps ==
  ASSUME K!HotkeysAssumption, NEW p, Loose(p), NEW S
  PROVE  KeyKeeps(K!ClearCustoms(p, S))
<1> DEFINE new == K!Without(p.customs, S)
           r == [p EXCEPT !.customs = new, !.capture = None]
<1>1. K!ClearCustoms(p, S) = K!Refresh(K!Persist(r))
  BY DEF K!ClearCustoms, Loose, KeysTypes, KeyNames
<1>2. K!IsKeys(new, K!Identities, K!Bindings) /\ Injective(new)
  BY DEF K!Without, K!IsKeys, Injective, Loose, KeysTypes, KeyTypes, Stored
<1> HIDE DEF new, r
<1>3. KeysTypes(r) /\ KeySameBut(p, r, {"customs", "capture"}) /\ r.customs = new
  BY <1>2 DEF r, Loose, KeysTypes, KeyTypes, TalkTypes, RestTypes, KeySameBut, KeyNames
<1>4. /\ r.kind = p.kind /\ r.prod = p.prod /\ r.list = p.list /\ r.loaded = p.loaded /\ r.store = p.store
      /\ r.held = p.held /\ r.pressed = p.pressed /\ r.away = p.away /\ r.amiss = p.amiss
  BY <1>3 DEF KeySameBut, KeyNames
<1>5. Held(r) /\ K!IsInjective(r.list) /\ (\A k \in K!Prods : Injective(r.store[k])) /\ (r.loaded # None => r.loaded = K!StorageKey(r))
  BY <1>4 DEF Loose, Held, Stored, K!StorageKey
<1>6. Loose(K!Persist(r))
  BY <1>2, <1>3, <1>5, PersistKeeps
<1> QED BY <1>1, <1>6, KeyRefreshKeeps

(* The inductive invariant.                                                *)
KeyIInv == KeyKeeps(page)

(* A change of other fields.                                               *)
LEMMA AsideKeeps == ASSUME NEW p, NEW q, KeyKeeps(p), KeysTypes(q), KeySameBut(p, q, KeyNames \ Own) PROVE KeyKeeps(q)
BY Framed DEF KeyKeeps, Loose

(* renderTargetList: no key counts as pressed after a new list.            *)
LEMMA RenderListKeeps ==
  ASSUME K!HotkeysAssumption, NEW p, Loose(p), NEW k \in K!Prods, NEW l \in TargetLists[k]
  PROVE  KeyKeeps(K!RenderList(p, l))
<1> DEFINE a == [p EXCEPT !.list = l]
           b == K!Load(a)
           c == [b EXCEPT !.dialog = FALSE]
           d == IF p.pressed # {} THEN K!StopAll(c) ELSE c
           e == [d EXCEPT !.pressed = {}]
<1>1. K!RenderList(p, l) = K!Refresh(e)
  BY DEF K!RenderList
<1>2. l \in Seq(K!Targets) /\ K!IsInjective(l)
  BY DEF K!HotkeysAssumption
<1>3. KeysTypes(a) /\ KeySameBut(p, a, {"list"}) /\ a.list = l
  BY <1>2 DEF Loose, KeysTypes, KeyTypes, TalkTypes, RestTypes, KeySameBut, KeyNames
<1> HIDE DEF a
<1>4. Loose(a)
  <2>1. /\ a.kind = p.kind /\ a.prod = p.prod /\ a.customs = p.customs /\ a.loaded = p.loaded /\ a.store = p.store
        /\ a.held = p.held /\ a.pressed = p.pressed /\ a.away = p.away /\ a.amiss = p.amiss
    BY <1>3 DEF KeySameBut, KeyNames
  <2>2. Stored(a) /\ Held(a)
    BY <1>2, <1>3, <2>1 DEF Loose, Stored, Held, K!StorageKey
  <2> QED BY <1>3, <2>2 DEF Loose
<1>5. Loose(b) /\ b.pressed = p.pressed
  BY <1>3, <1>4, KeyLoadIs DEF Loose, KeySameBut, KeyNames
<1> HIDE DEF b
<1>6. KeysTypes(c) /\ KeySameBut(b, c, {"dialog"})
  BY <1>5 DEF Loose, KeysTypes, KeyTypes, TalkTypes, RestTypes, KeySameBut, KeyNames
<1> HIDE DEF c
<1>7. Stored(c) /\ Held(c) /\ c.pressed = b.pressed
  <2>1. KeySameBut(b, c, KeyNames \ Own)
    BY <1>6 DEF KeySameBut, KeyNames, Own
  <2>2. c.pressed = b.pressed
    BY <1>6 DEF KeySameBut, KeyNames
  <2> QED BY <1>5, <2>1, <2>2, Framed DEF Loose
<1>8. Loose(d)
  BY <1>6, <1>7, StopAllKeeps DEF Loose
<1>9. d.pressed = {}
  BY <1>5, <1>6, <1>7, StopAllKeeps
<1> HIDE DEF d
<1>10. KeysTypes(e) /\ KeySameBut(d, e, KeyNames \ Own)
  BY <1>8, <1>9 DEF Loose, KeysTypes, KeyTypes, TalkTypes, RestTypes, KeySameBut, KeyNames, K!IsKeys
<1> HIDE DEF e
<1>11. Loose(e)
  BY <1>8, <1>10, Framed DEF Loose
<1> QED BY <1>1, <1>11, KeyRefreshKeeps

(* Another production: its keys are not loaded yet.                        *)
LEMMA TakeProductionKeeps ==
  ASSUME NEW p, KeyKeeps(p), NEW k \in K!Prods
  PROVE  KeyKeeps(K!TakeProduction(p, k))
<1> DEFINE q == K!TakeProduction(p, k)
<1>1. KeysTypes(q) /\ KeySameBut(p, q, {"prod", "loaded", "asked"}) /\ q.loaded = None
  BY DEF K!TakeProduction, KeyKeeps, Loose, KeysTypes, KeyTypes, TalkTypes, RestTypes, KeySameBut, KeyNames
<1> HIDE DEF q
<1>2. /\ q.list = p.list /\ q.customs = p.customs /\ q.store = p.store /\ q.table = p.table /\ q.shown = p.shown
      /\ q.held = p.held /\ q.pressed = p.pressed /\ q.away = p.away /\ q.amiss = p.amiss
  BY <1>1 DEF KeySameBut, KeyNames
<1>3. Stored(q) /\ Held(q) /\ Bound(q) /\ Current(q)
  BY <1>1, <1>2 DEF KeyKeeps, Loose, Stored, Held, Bound, Current
<1> QED BY <1>1, <1>3 DEF KeyKeeps, Loose, q

(* A key leads to a target or to nobody.                                   *)
LEMMA ResolvedIs ==
  ASSUME K!HotkeysAssumption, NEW p, KeysTypes(p), NEW x \in K!Identities
  PROVE  K!Resolved(p, x) \in K!Targets \cup {None}
<1>1. K!MainTarget(p) \in K!Targets \cup {None}
  BY DEF K!MainTarget, KeysTypes, TalkTypes, RestTypes
<1>2. p.last \in K!Targets \cup {None}
  BY DEF KeysTypes, TalkTypes
<1>3. CASE x = "main"
  BY <1>1, <1>3 DEF K!Resolved
<1>4. CASE x = "reply"
  BY <1>2, <1>4 DEF K!Resolved
<1>5. CASE x \notin K!Actions
  BY <1>5 DEF K!Resolved, K!Actions, K!Identities
<1> QED BY <1>3, <1>4, <1>5 DEF K!Actions

(* The keydown handler, with the key held.                                 *)
LEMMA KeysPressKeeps ==
  ASSUME K!HotkeysAssumption, NEW p, KeyKeeps(p), NEW k \in p.held, ~p.away
  PROVE  KeyKeeps(K!Press(p, Binding[k]))
<1> DEFINE b == Binding[k]
           t == K!Resolved(p, p.table[b])
           a == [p EXCEPT !.pressed = @ \cup {b}]
           c == [a EXCEPT !.talking = K!With(@, b, t)]
           q == K!Press(p, b)
           idle == ~K!Usable(p) \/ b \notin DOMAIN p.table \/ b \in p.pressed
<1>1. CASE idle \/ t = None
  <2>1. q = p
    BY <1>1 DEF K!Press
  <2> QED BY <2>1
<1>2. CASE ~idle /\ t # None
  <2>1. b \in DOMAIN p.table /\ t \in K!Targets /\ b \in K!Bindings
    BY <1>2, ResolvedIs DEF KeyKeeps, Loose, KeysTypes, KeyTypes, K!IsKeys
  <2>2. q = IF K!Live(p, t) THEN c ELSE a
    BY <1>2 DEF K!Press
  <2> HIDE DEF t
  <2>3. KeysTypes(a) /\ KeySameBut(p, a, {"pressed"}) /\ a.pressed = p.pressed \cup {b}
    <3>1. DOMAIN a = KeyNames /\ a.pressed = p.pressed \cup {b} /\ KeySameBut(p, a, {"pressed"})
      BY DEF KeyKeeps, Loose, KeysTypes, KeySameBut, KeyNames
    <3> HIDE DEF a
    <3>2. KeyTypes(a) /\ RestTypes(a) /\ DOMAIN a.store = K!Prods /\ DOMAIN a.main = K!Prods
      BY <3>1 DEF KeyKeeps, Loose, KeysTypes, KeyTypes, RestTypes, KeySameBut, KeyNames
    <3>3. TalkTypes(a)
      BY <2>1, <3>1 DEF KeyKeeps, Loose, KeysTypes, TalkTypes, KeySameBut, KeyNames, K!IsKeys
    <3> QED BY <3>1, <3>2, <3>3 DEF KeysTypes
  <2> HIDE DEF a
  <2>4. KeysTypes(c) /\ KeySameBut(a, c, {"talking"}) /\ c.pressed = a.pressed
    <3> DEFINE new == K!With(a.talking, b, t)
    <3>1. DOMAIN c = KeyNames /\ c.talking = new /\ KeySameBut(a, c, {"talking"})
      BY <2>3 DEF KeysTypes, KeySameBut, KeyNames
    <3>2. K!IsKeys(new, a.pressed, K!Targets)
      BY <2>1, <2>3 DEF K!With, K!IsKeys, KeysTypes, TalkTypes
    <3> HIDE DEF c, new
    <3>3. KeyTypes(c) /\ RestTypes(c) /\ DOMAIN c.store = K!Prods /\ DOMAIN c.main = K!Prods /\ c.pressed = a.pressed
      BY <2>3, <3>1 DEF KeysTypes, KeyTypes, RestTypes, KeySameBut, KeyNames
    <3>4. TalkTypes(c)
      BY <2>3, <3>1, <3>2 DEF KeysTypes, TalkTypes, KeySameBut, KeyNames
    <3> QED BY <3>1, <3>3, <3>4 DEF KeysTypes
  <2> HIDE DEF c
  <2>5. KeysTypes(q) /\ KeySameBut(p, q, {"pressed", "talking"}) /\ q.pressed = p.pressed \cup {b}
    BY <2>2, <2>3, <2>4 DEF KeySameBut
  <2> HIDE DEF q
  <2>6. /\ q.kind = p.kind /\ q.prod = p.prod /\ q.list = p.list /\ q.customs = p.customs /\ q.loaded = p.loaded
        /\ q.store = p.store /\ q.table = p.table /\ q.shown = p.shown /\ q.held = p.held
        /\ q.away = p.away /\ q.amiss = p.amiss
    BY <2>5 DEF KeySameBut, KeyNames
  <2>7. Stored(q) /\ Current(q)
    BY <2>6 DEF KeyKeeps, Loose, Stored, Current, K!StorageKey
  <2>8. Held(q) /\ Bound(q)
    BY <2>1, <2>5, <2>6 DEF KeyKeeps, Loose, Held, Bound
  <2> QED BY <2>5, <2>7, <2>8 DEF KeyKeeps, Loose, q
<1> QED BY <1>1, <1>2

(* The keyup handler: besides the key that went up, what was pressed is    *)
(* held.                                                                   *)
LEMMA KeysReleaseKeeps ==
  ASSUME NEW p, NEW q, NEW b, KeysTypes(p), Stored(p), Bound(p), Current(p), ~p.away,
         ~p.amiss => \A x \in p.pressed : x = b \/ \E k \in p.held : x = Binding[k],
         q = K!Release(p, b)
  PROVE  KeyKeeps(q)
<1>1. CASE b \notin DOMAIN p.table \/ b \notin p.pressed
  <2>1. q = p
    BY <1>1 DEF K!Release
  <2>2. Held(p)
    BY <1>1 DEF Held, Bound
  <2> QED BY <2>1, <2>2 DEF KeyKeeps, Loose
<1>2. CASE b \in DOMAIN p.table /\ b \in p.pressed
  <2> DEFINE new == K!Without(p.talking, {b})
  <2>1. q = [p EXCEPT !.pressed = @ \ {b}, !.talking = new, !.amiss = @ /\ p.pressed # {b}]
    BY <1>2 DEF K!Release
  <2>2. K!IsKeys(new, p.pressed \ {b}, K!Targets)
    BY DEF K!Without, K!IsKeys, KeysTypes, TalkTypes
  <2> HIDE DEF new
  <2>3. /\ DOMAIN q = KeyNames /\ KeySameBut(p, q, {"pressed", "talking", "amiss"})
        /\ q.pressed = p.pressed \ {b} /\ q.talking = new /\ q.amiss = (p.amiss /\ p.pressed # {b})
    BY <2>1 DEF KeysTypes, KeySameBut, KeyNames
  <2>4. KeyTypes(q) /\ DOMAIN q.store = K!Prods /\ DOMAIN q.main = K!Prods
    BY <2>3 DEF KeysTypes, KeyTypes, KeySameBut, KeyNames
  <2>5. RestTypes(q)
    BY <2>3 DEF KeysTypes, RestTypes, KeySameBut, KeyNames
  <2>6. TalkTypes(q)
    BY <2>2, <2>3 DEF KeysTypes, TalkTypes, KeySameBut, KeyNames
  <2>7. /\ q.kind = p.kind /\ q.prod = p.prod /\ q.list = p.list /\ q.customs = p.customs /\ q.loaded = p.loaded
        /\ q.store = p.store /\ q.table = p.table /\ q.shown = p.shown /\ q.held = p.held /\ q.away = p.away
    BY <2>3 DEF KeySameBut, KeyNames
  <2>8. Stored(q) /\ Current(q)
    BY <2>7 DEF Stored, Current, K!StorageKey
  <2>9. Held(q) /\ Bound(q)
    <3>1. CASE p.pressed = {b}
      BY <2>3, <3>1 DEF Held, Bound
    <3>2. CASE p.pressed # {b}
      BY <2>3, <2>7, <3>2 DEF Held, Bound, KeysTypes, RestTypes
    <3> QED BY <3>1, <3>2
  <2> QED BY <2>3, <2>4, <2>5, <2>6, <2>8, <2>9 DEF KeysTypes, KeyKeeps, Loose
<1> QED BY <1>1, <1>2

(***************************************************************************)
(* Actions.                                                                *)
(***************************************************************************)
(* A key goes down, for a row that waits for one or to talk.               *)
LEMMA KeyDownKeeps ==
  ASSUME K!HotkeysAssumption, KeyIInv, NEW k \in DOMAIN Binding, K!KeyDown(k)
  PROVE  KeyIInv'
<1> DEFINE p == [page EXCEPT !.held = @ \cup {k}]
<1>1. /\ page' = IF p.capture # None THEN K!SetCustom(p, p.capture, Binding[k]) ELSE K!Press(p, Binding[k])
      /\ ~page.away
  BY DEF K!KeyDown
<1>2. KeysTypes(p) /\ KeySameBut(page, p, {"held"}) /\ p.held = page.held \cup {k}
  BY DEF KeyIInv, KeyKeeps, Loose, KeysTypes, KeyTypes, TalkTypes, RestTypes, KeySameBut, KeyNames
<1> HIDE DEF p
<1>3. /\ p.kind = page.kind /\ p.prod = page.prod /\ p.list = page.list /\ p.customs = page.customs
      /\ p.loaded = page.loaded /\ p.store = page.store /\ p.table = page.table /\ p.shown = page.shown
      /\ p.pressed = page.pressed /\ p.away = page.away /\ p.amiss = page.amiss
  BY <1>2 DEF KeySameBut, KeyNames
<1>4. KeyKeeps(p)
  <2>1. Stored(p) /\ Current(p) /\ Bound(p)
    BY <1>3 DEF KeyIInv, KeyKeeps, Loose, Stored, Current, Bound, K!StorageKey
  <2>2. Held(p)
    BY <1>2, <1>3 DEF KeyIInv, KeyKeeps, Loose, Held
  <2> QED BY <1>2, <2>1, <2>2 DEF KeyKeeps, Loose
<1>5. CASE p.capture # None
  <2>1. p.capture \in K!Identities /\ Binding[k] \in K!Bindings
    BY <1>2, <1>5 DEF KeysTypes, RestTypes, K!Bindings
  <2> QED BY <1>1, <1>4, <1>5, <2>1, SetCustomKeeps DEF KeyKeeps, KeyIInv
<1>6. CASE p.capture = None
  <2>1. k \in p.held /\ ~p.away
    BY <1>1, <1>2, <1>3
  <2> QED BY <1>1, <1>4, <1>6, <2>1, KeysPressKeeps DEF KeyIInv
<1> QED BY <1>5, <1>6

(* A key goes up.                                                          *)
LEMMA KeyUpKeeps ==
  ASSUME K!HotkeysAssumption, KeyIInv, NEW k \in DOMAIN Binding, K!KeyUp(k)
  PROVE  KeyIInv'
<1> DEFINE p == [page EXCEPT !.held = @ \ {k}]
<1>1. page' = IF p.away THEN p ELSE K!Release(p, Binding[k])
  BY DEF K!KeyUp
<1>2. KeysTypes(p) /\ KeySameBut(page, p, {"held"}) /\ p.held = page.held \ {k}
  BY DEF KeyIInv, KeyKeeps, Loose, KeysTypes, KeyTypes, TalkTypes, RestTypes, KeySameBut, KeyNames
<1> HIDE DEF p
<1>3. /\ p.kind = page.kind /\ p.prod = page.prod /\ p.list = page.list /\ p.customs = page.customs
      /\ p.loaded = page.loaded /\ p.store = page.store /\ p.table = page.table /\ p.shown = page.shown
      /\ p.pressed = page.pressed /\ p.away = page.away /\ p.amiss = page.amiss
  BY <1>2 DEF KeySameBut, KeyNames
<1>4. Stored(p) /\ Current(p) /\ Bound(p)
  BY <1>3 DEF KeyIInv, KeyKeeps, Loose, Stored, Current, Bound, K!StorageKey
<1>5. CASE p.away
  <2>1. Held(p)
    BY <1>3, <1>5 DEF KeyIInv, KeyKeeps, Loose, Held
  <2> QED BY <1>1, <1>2, <1>4, <1>5, <2>1 DEF KeyKeeps, Loose, KeyIInv
<1>6. CASE ~p.away
  <2>1. ~p.amiss => \A x \in p.pressed : x = Binding[k] \/ \E j \in p.held : x = Binding[j]
    BY <1>2, <1>3 DEF KeyIInv, KeyKeeps, Loose, Held
  <2> QED BY <1>1, <1>2, <1>4, <1>6, <2>1, KeysReleaseKeeps DEF KeyIInv
<1> QED BY <1>5, <1>6

(* The window loses the focus: all stops, or what stays pressed is noted.  *)
LEMMA KeyBlurKeeps == ASSUME KeyIInv, K!Blur PROVE KeyIInv'
<1> DEFINE p == [page EXCEPT !.away = TRUE]
           q == [p EXCEPT !.amiss = @ \/ p.pressed # {}]
<1>1. page' = IF p.locked \/ p.talking = K!Nothing THEN q ELSE K!StopAll(p)
  BY DEF K!Blur
<1>2. KeysTypes(p) /\ KeySameBut(page, p, {"away"})
  BY DEF KeyIInv, KeyKeeps, Loose, KeysTypes, KeyTypes, TalkTypes, RestTypes, KeySameBut, KeyNames
<1> HIDE DEF p
<1>3. KeysTypes(q) /\ KeySameBut(p, q, {"amiss"}) /\ q.amiss = (p.amiss \/ p.pressed # {})
  BY <1>2 DEF KeysTypes, KeyTypes, TalkTypes, RestTypes, KeySameBut, KeyNames
<1>4. /\ p.kind = page.kind /\ p.prod = page.prod /\ p.list = page.list /\ p.customs = page.customs
      /\ p.loaded = page.loaded /\ p.store = page.store /\ p.table = page.table /\ p.shown = page.shown
      /\ p.pressed = page.pressed /\ p.held = page.held /\ p.amiss = page.amiss
  BY <1>2 DEF KeySameBut, KeyNames
<1>5. Stored(p) /\ Current(p)
  BY <1>4 DEF KeyIInv, KeyKeeps, Loose, Stored, Current, K!StorageKey
<1> HIDE DEF q
<1>6. CASE p.locked \/ p.talking = K!Nothing
  <2>1. /\ q.kind = p.kind /\ q.prod = p.prod /\ q.list = p.list /\ q.customs = p.customs
        /\ q.loaded = p.loaded /\ q.store = p.store /\ q.table = p.table /\ q.shown = p.shown
        /\ q.pressed = p.pressed /\ q.held = p.held
    BY <1>3 DEF KeySameBut, KeyNames
  <2>2. Stored(q) /\ Current(q)
    BY <1>5, <2>1 DEF Stored, Current, K!StorageKey
  <2>3. Held(q) /\ Bound(q)
    BY <1>3, <2>1 DEF Held, Bound
  <2> QED BY <1>1, <1>3, <1>6, <2>2, <2>3 DEF KeyKeeps, Loose, KeyIInv
<1>7. CASE ~(p.locked \/ p.talking = K!Nothing)
  BY <1>1, <1>2, <1>5, <1>7, StopAllKeeps DEF KeyKeeps, Loose, KeyIInv
<1> QED BY <1>6, <1>7

(* It is back.                                                             *)
LEMMA FocusKeeps == ASSUME KeyIInv, K!Focus PROVE KeyIInv'
<1>1. page' = [page EXCEPT !.away = FALSE]
  BY DEF K!Focus
<1>2. KeysTypes(page') /\ KeySameBut(page, page', {"away"}) /\ page'.away = FALSE
  BY <1>1 DEF KeyIInv, KeyKeeps, Loose, KeysTypes, KeyTypes, TalkTypes, RestTypes, KeySameBut, KeyNames
<1>3. /\ page'.kind = page.kind /\ page'.prod = page.prod /\ page'.list = page.list
      /\ page'.customs = page.customs /\ page'.loaded = page.loaded /\ page'.store = page.store
      /\ page'.table = page.table /\ page'.shown = page.shown
      /\ page'.pressed = page.pressed /\ page'.held = page.held /\ page'.amiss = page.amiss
  BY <1>2 DEF KeySameBut, KeyNames
<1>4. Stored(page') /\ Current(page') /\ Held(page') /\ Bound(page')
  BY <1>2, <1>3 DEF KeyIInv, KeyKeeps, Loose, Stored, Current, K!StorageKey, Held, Bound
<1> QED BY <1>2, <1>4 DEF KeyKeeps, Loose, KeyIInv

(* A stop from elsewhere.                                                  *)
LEMMA StopKeeps == ASSUME KeyIInv, K!Stop PROVE KeyIInv'
BY StopAllKeeps DEF K!Stop, KeyIInv, KeyKeeps, Loose

(* A lock.                                                                 *)
LEMMA LockKeeps == ASSUME KeyIInv, K!Lock PROVE KeyIInv'
<1>1. page' = [page EXCEPT !.locked = TRUE]
  BY DEF K!Lock
<1>2. KeysTypes(page') /\ KeySameBut(page, page', KeyNames \ Own)
  BY <1>1 DEF KeyIInv, KeyKeeps, Loose, KeysTypes, KeyTypes, TalkTypes, RestTypes, KeySameBut, KeyNames, Own
<1> QED BY <1>2, AsideKeeps DEF KeyIInv

(* Its end.                                                                *)
LEMMA UnlockKeeps == ASSUME KeyIInv, K!Unlock PROVE KeyIInv'
<1>1. CASE page' = K!StopAll(page)
  BY <1>1, StopAllKeeps DEF KeyIInv, KeyKeeps, Loose
<1>2. CASE page' = [page EXCEPT !.locked = FALSE]
  <2>1. KeysTypes(page') /\ KeySameBut(page, page', KeyNames \ Own)
    BY <1>2 DEF KeyIInv, KeyKeeps, Loose, KeysTypes, KeyTypes, TalkTypes, RestTypes, KeySameBut, KeyNames, Own
  <2> QED BY <2>1, AsideKeeps DEF KeyIInv
<1> QED BY <1>1, <1>2 DEF K!Unlock

(* The settings menu and the dialog.                                       *)
LEMMA MenuKeeps == ASSUME K!HotkeysAssumption, KeyIInv, K!Menu PROVE KeyIInv'
<1>1. CASE page' = K!Refresh([page EXCEPT !.menu = "main"])
  <2> DEFINE p == [page EXCEPT !.menu = "main"]
  <2>1. KeysTypes(p) /\ KeySameBut(page, p, KeyNames \ Own)
    BY DEF KeyIInv, KeyKeeps, Loose, KeysTypes, KeyTypes, TalkTypes, RestTypes, KeySameBut, KeyNames, Own
  <2> HIDE DEF p
  <2>2. KeyKeeps(p)
    BY <2>1, AsideKeeps DEF KeyIInv
  <2> QED BY <1>1, <2>2, KeyRefreshKeeps DEF KeyKeeps, KeyIInv, p
<1>2. CASE page' = [page EXCEPT !.menu = "closed", !.capture = None]
  <2>1. DOMAIN page' = KeyNames /\ KeySameBut(page, page', {"menu", "capture"}) /\ page'.menu = "closed" /\ page'.capture = None
    BY <1>2 DEF KeyIInv, KeyKeeps, Loose, KeysTypes, KeySameBut, KeyNames
  <2>2. KeyTypes(page') /\ TalkTypes(page') /\ DOMAIN page'.store = K!Prods /\ DOMAIN page'.main = K!Prods
    BY <2>1 DEF KeyIInv, KeyKeeps, Loose, KeysTypes, KeyTypes, TalkTypes, KeySameBut, KeyNames
  <2>3. RestTypes(page')
    BY <2>1 DEF KeyIInv, KeyKeeps, Loose, KeysTypes, RestTypes, KeySameBut, KeyNames
  <2>4. KeySameBut(page, page', KeyNames \ Own)
    BY <2>1 DEF KeySameBut, Own
  <2> QED BY <2>1, <2>2, <2>3, <2>4, AsideKeeps DEF KeysTypes, KeyIInv
<1>3. CASE page' = K!RenderSettings([page EXCEPT !.menu = "shortcuts"])
  <2> DEFINE p == [page EXCEPT !.menu = "shortcuts"]
  <2>1. KeysTypes(p) /\ KeySameBut(page, p, KeyNames \ Own)
    BY DEF KeyIInv, KeyKeeps, Loose, KeysTypes, KeyTypes, TalkTypes, RestTypes, KeySameBut, KeyNames, Own
  <2> HIDE DEF p
  <2>2. KeyKeeps(p)
    BY <2>1, AsideKeeps DEF KeyIInv
  <2> QED BY <1>3, <2>2, RenderSettingsKeeps DEF KeyIInv, p
<1>4. CASE page' = [page EXCEPT !.dialog = TRUE]
  <2>1. KeysTypes(page') /\ KeySameBut(page, page', KeyNames \ Own)
    BY <1>4 DEF KeyIInv, KeyKeeps, Loose, KeysTypes, KeyTypes, TalkTypes, RestTypes, KeySameBut, KeyNames, Own
  <2> QED BY <2>1, AsideKeeps DEF KeyIInv
<1>5. CASE page' = [page EXCEPT !.dialog = FALSE]
  <2>1. KeysTypes(page') /\ KeySameBut(page, page', KeyNames \ Own)
    BY <1>5 DEF KeyIInv, KeyKeeps, Loose, KeysTypes, KeyTypes, TalkTypes, RestTypes, KeySameBut, KeyNames, Own
  <2> QED BY <2>1, AsideKeeps DEF KeyIInv
<1> QED BY <1>1, <1>2, <1>3, <1>4, <1>5 DEF K!Menu

(* A row waits for a key.                                                  *)
LEMMA RecordKeeps ==
  ASSUME KeyIInv, NEW x \in K!Identities, K!Record(x)
  PROVE  KeyIInv'
<1> DEFINE p == [page EXCEPT !.capture = IF @ = x THEN None ELSE x]
<1>1. page' = K!RenderSettings(p)
  BY DEF K!Record
<1>2. KeysTypes(p) /\ KeySameBut(page, p, KeyNames \ Own)
  BY DEF KeyIInv, KeyKeeps, Loose, KeysTypes, KeyTypes, TalkTypes, RestTypes, KeySameBut, KeyNames, Own
<1> HIDE DEF p
<1>3. KeyKeeps(p)
  BY <1>2, AsideKeeps DEF KeyIInv
<1> QED BY <1>1, <1>3, RenderSettingsKeeps DEF KeyIInv

(* Default in a row.                                                       *)
LEMMA ClearKeeps == ASSUME K!HotkeysAssumption, KeyIInv, NEW x \in K!Identities, K!Clear(x) PROVE KeyIInv'
BY ClearCustomsKeeps DEF K!Clear, KeyIInv, KeyKeeps

(* The reset of all.                                                       *)
LEMMA ResetKeeps == ASSUME K!HotkeysAssumption, KeyIInv, K!Reset PROVE KeyIInv'
BY ClearCustomsKeeps DEF K!Reset, KeyIInv, KeyKeeps

(* The target of the main button.                                          *)
LEMMA SetMainKeeps ==
  ASSUME KeyIInv, NEW t \in K!Targets \cup {None}, K!SetMain(t)
  PROVE  KeyIInv'
<1> DEFINE new == [page.main EXCEPT ![page.prod] = t]
<1>1. page' = [page EXCEPT !.main = new]
  BY DEF K!SetMain
<1>2. DOMAIN new = K!Prods /\ \A q \in K!Prods : new[q] \in K!Targets \cup {None}
  BY DEF KeyIInv, KeyKeeps, Loose, KeysTypes, TalkTypes
<1> HIDE DEF new
<1>3. KeysTypes(page') /\ KeySameBut(page, page', KeyNames \ Own)
  BY <1>1, <1>2 DEF KeyIInv, KeyKeeps, Loose, KeysTypes, KeyTypes, TalkTypes, RestTypes, KeySameBut, KeyNames, Own
<1> QED BY <1>3, AsideKeeps DEF KeyIInv

(* Another production is chosen: talks stop.                               *)
LEMMA ChooseProductionKeeps ==
  ASSUME KeyIInv, NEW q \in K!Prods, K!ChooseProduction(q)
  PROVE  KeyIInv'
<1> DEFINE p == K!StopAll(page)
<1>1. page' = [p EXCEPT !.switching = q]
  BY DEF K!ChooseProduction
<1>2. KeyKeeps(p)
  BY StopAllKeeps DEF KeyIInv, KeyKeeps, Loose
<1> HIDE DEF p
<1>3. KeysTypes(page') /\ KeySameBut(p, page', KeyNames \ Own)
  BY <1>1, <1>2 DEF KeyIInv, KeyKeeps, Loose, KeysTypes, KeyTypes, TalkTypes, RestTypes, KeySameBut, KeyNames, Own
<1> QED BY <1>2, <1>3, AsideKeeps DEF KeyIInv

(* The server answers.                                                     *)
LEMMA ProductionAnsweredKeeps == ASSUME KeyIInv, K!ProductionAnswered PROVE KeyIInv'
<1> DEFINE p == [page EXCEPT !.switching = None]
<1>1. page' = p \/ page' = K!TakeProduction(p, page.switching)
  BY DEF K!ProductionAnswered
<1>2. page.switching \in K!Prods
  BY DEF K!ProductionAnswered, KeyIInv, KeyKeeps, Loose, KeysTypes, RestTypes
<1>3. KeysTypes(p) /\ KeySameBut(page, p, KeyNames \ Own)
  BY DEF KeyIInv, KeyKeeps, Loose, KeysTypes, KeyTypes, TalkTypes, RestTypes, KeySameBut, KeyNames, Own
<1> HIDE DEF p
<1>4. KeyKeeps(p)
  BY <1>3, AsideKeeps DEF KeyIInv
<1> QED BY <1>1, <1>2, <1>4, TakeProductionKeeps DEF KeyIInv

(* active-production-reset.                                                *)
LEMMA ProductionResetKeeps ==
  ASSUME KeyIInv, NEW q \in K!Prods, K!ProductionReset(q)
  PROVE  KeyIInv'
<1>1. KeyKeeps(K!StopAll(page))
  BY StopAllKeeps DEF KeyIInv, KeyKeeps, Loose
<1> QED BY <1>1, TakeProductionKeeps DEF K!ProductionReset, KeyIInv

(* The lists asked for do not matter.                                      *)
LEMMA AsksKeep ==
  ASSUME KeyIInv, NEW S \in SUBSET K!Prods
  PROVE  KeyKeeps([page EXCEPT !.asked = S])
<1> DEFINE p == [page EXCEPT !.asked = S]
<1>1. KeysTypes(p) /\ KeySameBut(page, p, KeyNames \ Own)
  BY DEF KeyIInv, KeyKeeps, Loose, KeysTypes, KeyTypes, TalkTypes, RestTypes, KeySameBut, KeyNames, Own
<1> HIDE DEF p
<1>2. KeyKeeps(p)
  BY <1>1, AsideKeeps DEF KeyIInv
<1> QED BY <1>2 DEF p

(* user-targets-updated.                                                   *)
LEMMA TargetsUpdatedKeeps == ASSUME KeyIInv, K!TargetsUpdated PROVE KeyIInv'
<1>1. page.asked \cup {page.prod} \in SUBSET K!Prods
  BY DEF KeyIInv, KeyKeeps, Loose, KeysTypes, RestTypes
<1>2. page' = [page EXCEPT !.asked = page.asked \cup {page.prod}]
  BY DEF K!TargetsUpdated
<1> QED BY <1>1, <1>2, AsksKeep DEF KeyIInv

(* A list arrives.                                                         *)
LEMMA TargetsArriveKeeps ==
  ASSUME K!HotkeysAssumption, KeyIInv, NEW q \in K!Prods, NEW l \in TargetLists[q], K!TargetsArrive(q, l)
  PROVE  KeyIInv'
<1>1. page.asked \ {q} \in SUBSET K!Prods
  BY DEF KeyIInv, KeyKeeps, Loose, KeysTypes, RestTypes
<1> DEFINE p == [page EXCEPT !.asked = page.asked \ {q}]
<1>2. page' = K!RenderList(p, l)
  BY DEF K!TargetsArrive
<1>3. Loose(p)
  BY <1>1, AsksKeep DEF KeyKeeps
<1> HIDE DEF p
<1> QED BY <1>2, <1>3, RenderListKeeps DEF KeyIInv

(* It does not.                                                            *)
LEMMA TargetsFailKeeps == ASSUME KeyIInv, NEW q \in K!Prods, K!TargetsFail(q) PROVE KeyIInv'
<1>1. page.asked \ {q} \in SUBSET K!Prods
  BY DEF KeyIInv, KeyKeeps, Loose, KeysTypes, RestTypes
<1>2. page' = [page EXCEPT !.asked = page.asked \ {q}]
  BY DEF K!TargetsFail
<1> QED BY <1>1, <1>2, AsksKeep DEF KeyIInv

(* user-list.                                                              *)
LEMMA UserListKeeps ==
  ASSUME K!HotkeysAssumption, KeyIInv, NEW o \in SUBSET People, K!UserList(o)
  PROVE  KeyIInv'
<1> DEFINE p == [page EXCEPT !.online = o]
<1>1. page' = K!Refresh(p)
  BY DEF K!UserList
<1>2. KeysTypes(p) /\ KeySameBut(page, p, KeyNames \ Own)
  BY DEF KeyIInv, KeyKeeps, Loose, KeysTypes, KeyTypes, TalkTypes, RestTypes, KeySameBut, KeyNames, Own
<1> HIDE DEF p
<1>3. KeyKeeps(p)
  BY <1>2, AsideKeeps DEF KeyIInv
<1> QED BY <1>1, <1>3, KeyRefreshKeeps DEF KeyIInv, KeyKeeps

(* Somebody else to reply to.                                              *)
LEMMA AddressedKeeps ==
  ASSUME KeyIInv, NEW t \in K!Targets \cup {None}, K!Addressed(t)
  PROVE  KeyIInv'
<1>1. page' = [page EXCEPT !.last = t]
  BY DEF K!Addressed
<1>2. KeysTypes(page') /\ KeySameBut(page, page', KeyNames \ Own)
  BY <1>1 DEF KeyIInv, KeyKeeps, Loose, KeysTypes, KeyTypes, TalkTypes, RestTypes, KeySameBut, KeyNames, Own
<1> QED BY <1>2, AsideKeeps DEF KeyIInv

(* The invariant of a page after its sign-on.                              *)
LEMMA InitKeeps == ASSUME K!HotkeysAssumption, K!Init PROVE KeyIInv
<1>1. PICK how \in PageKinds, k \in K!Prods : \E l \in TargetLists[k] :
        page = K!Rebuild([kind |-> how.kind, multi |-> how.multi, prod |-> k, switching |-> None,
                       list |-> l, asked |-> {}, customs |-> K!Nothing, loaded |-> None,
                       store |-> [r \in K!Prods |-> K!Nothing], table |-> K!Nothing, shown |-> K!Nothing,
                       held |-> {}, pressed |-> {}, talking |-> K!Nothing, capture |-> None,
                       menu |-> "closed", dialog |-> FALSE, away |-> FALSE, locked |-> FALSE,
                       last |-> None, online |-> People, main |-> [r \in K!Prods |-> None],
                       amiss |-> FALSE])
  BY DEF K!Init
<1>2. PICK l \in TargetLists[k] :
        page = K!Rebuild([kind |-> how.kind, multi |-> how.multi, prod |-> k, switching |-> None,
                       list |-> l, asked |-> {}, customs |-> K!Nothing, loaded |-> None,
                       store |-> [r \in K!Prods |-> K!Nothing], table |-> K!Nothing, shown |-> K!Nothing,
                       held |-> {}, pressed |-> {}, talking |-> K!Nothing, capture |-> None,
                       menu |-> "closed", dialog |-> FALSE, away |-> FALSE, locked |-> FALSE,
                       last |-> None, online |-> People, main |-> [r \in K!Prods |-> None],
                       amiss |-> FALSE])
  BY <1>1
<1> DEFINE p == [kind |-> how.kind, multi |-> how.multi, prod |-> k, switching |-> None,
                 list |-> l, asked |-> {}, customs |-> K!Nothing, loaded |-> None,
                 store |-> [r \in K!Prods |-> K!Nothing], table |-> K!Nothing, shown |-> K!Nothing,
                 held |-> {}, pressed |-> {}, talking |-> K!Nothing, capture |-> None,
                 menu |-> "closed", dialog |-> FALSE, away |-> FALSE, locked |-> FALSE,
                 last |-> None, online |-> People, main |-> [r \in K!Prods |-> None],
                 amiss |-> FALSE]
<1>3. l \in Seq(K!Targets) /\ K!IsInjective(l) /\ how.kind \in {"user", "guest"} /\ how.multi \in BOOLEAN
  BY DEF K!HotkeysAssumption
<1>4. \A D, R : K!IsKeys(K!Nothing, D, R) /\ Injective(K!Nothing)
  BY DEF K!IsKeys, K!Nothing, Injective
<1>5. DOMAIN p = KeyNames /\ DOMAIN p.store = K!Prods /\ DOMAIN p.main = K!Prods
  BY DEF KeyNames
<1>6. /\ p.kind = how.kind /\ p.multi = how.multi /\ p.prod = k /\ p.switching = None /\ p.list = l /\ p.asked = {}
      /\ p.customs = K!Nothing /\ p.loaded = None /\ p.table = K!Nothing /\ p.shown = K!Nothing
      /\ \A q \in K!Prods : p.store[q] = K!Nothing /\ p.main[q] = None
  OBVIOUS
<1>7. /\ p.held = {} /\ p.pressed = {} /\ p.talking = K!Nothing /\ p.capture = None /\ p.menu = "closed"
      /\ p.dialog = FALSE /\ p.away = FALSE /\ p.locked = FALSE /\ p.last = None /\ p.online = People
      /\ p.amiss = FALSE
  OBVIOUS
<1> HIDE DEF p
<1>8. KeyTypes(p)
  BY <1>3, <1>4, <1>6 DEF KeyTypes
<1>9. TalkTypes(p)
  BY <1>4, <1>6, <1>7 DEF TalkTypes
<1>10. RestTypes(p)
  BY <1>3, <1>6, <1>7 DEF RestTypes
<1>11. Stored(p) /\ Held(p)
  BY <1>3, <1>4, <1>6, <1>7 DEF Stored, Held
<1>12. Loose(p)
  BY <1>5, <1>8, <1>9, <1>10, <1>11 DEF Loose, KeysTypes
<1> QED BY <1>2, <1>12, RebuildKeeps DEF p, KeyIInv

(* Every action keeps it.                                                  *)
LEMMA KeyNextKeeps == ASSUME K!HotkeysAssumption, KeyIInv, K!Next PROVE KeyIInv'
<1>1. ASSUME NEW k \in DOMAIN Binding, K!KeyDown(k) \/ K!KeyUp(k) PROVE KeyIInv'
  BY <1>1, KeyDownKeeps, KeyUpKeeps
<1>2. CASE K!Blur \/ K!Focus \/ K!Stop \/ K!Lock \/ K!Unlock \/ K!Menu \/ K!Reset
  BY <1>2, KeyBlurKeeps, FocusKeeps, StopKeeps, LockKeeps, UnlockKeeps, MenuKeeps, ResetKeeps
<1>3. ASSUME NEW x \in K!Identities, K!Record(x) \/ K!Clear(x) PROVE KeyIInv'
  BY <1>3, RecordKeeps, ClearKeeps
<1>4. ASSUME NEW t \in K!Targets \cup {None}, K!SetMain(t) \/ K!Addressed(t) PROVE KeyIInv'
  BY <1>4, SetMainKeeps, AddressedKeeps
<1>5. CASE K!ProductionAnswered \/ K!TargetsUpdated
  BY <1>5, ProductionAnsweredKeeps, TargetsUpdatedKeeps
<1>6. ASSUME NEW q \in K!Prods, K!ChooseProduction(q) \/ K!ProductionReset(q) \/ K!TargetsFail(q) PROVE KeyIInv'
  BY <1>6, ChooseProductionKeeps, ProductionResetKeeps, TargetsFailKeeps
<1>7. ASSUME NEW q \in K!Prods, NEW l \in TargetLists[q], K!TargetsArrive(q, l) PROVE KeyIInv'
  BY <1>7, TargetsArriveKeeps
<1>8. ASSUME NEW o \in SUBSET People, K!UserList(o) PROVE KeyIInv'
  BY <1>8, UserListKeeps
<1> QED BY <1>1, <1>2, <1>3, <1>4, <1>5, <1>6, <1>7, <1>8 DEF K!Next

(* The invariant has a current table, and the keys in a current table are  *)
(* as they should be.                                                      *)
LEMMA ShownAsAssigned == ASSUME K!HotkeysAssumption, KeyIInv PROVE K!KeysAsShown
<1> DEFINE list == page.list
           customs == page.customs
           all == K!Descriptors(list)
           L == Len(all)
           r == K!Assigned(list, customs)
           rank(b) == CHOOSE n \in DOMAIN Digits : Digits[n] = b
           plain == {i \in DOMAIN list : list[i] \notin DOMAIN customs}
<1>1. /\ list \in Seq(K!Targets) /\ K!IsInjective(list) /\ K!IsKeys(customs, K!Identities, K!Bindings) /\ Injective(customs)
      /\ page.table = r.table /\ page.shown = r.shown
  BY DEF KeyIInv, KeyKeeps, Loose, KeysTypes, KeyTypes, Stored, Current
<1>2. Second(r, all, customs, L)
  BY <1>1, AssignedIs
<1>3. /\ all \in Seq(K!Identities) /\ L = Len(list) + 2
      /\ \A i \in DOMAIN list : i + 2 \in DOMAIN all /\ all[i + 2] = list[i] /\ list[i] \notin K!Actions
  BY <1>1, DescriptorsAre
<1>4. DOMAIN all = 1 .. L /\ L \in Nat /\ DOMAIN list = 1 .. Len(list) /\ Len(list) \in Nat
  BY <1>1, <1>3, LenProperties
<1>5. \A s \in DOMAIN Digits : rank(Digits[s]) = s
  BY DEF K!HotkeysAssumption, K!IsInjective
<1> HIDE DEF r, all, L, list, customs
<1>6. \A x \in DOMAIN r.shown :
        r.table[r.shown[x]] = x \/ (x = "reply" /\ r.table[r.shown[x]] = "main" /\ r.shown[x] = K!Space)
  BY <1>2 DEF Second, Matched
<1>7. \A x \in DOMAIN customs \cap K!ToSet(all) : r.shown[x] = customs[x]
  BY <1>2 DEF Second, K!ToSet
<1>8. ASSUME NEW i \in plain, NEW j \in plain, i < j, list[j] \in DOMAIN r.shown
      PROVE  list[i] \in DOMAIN r.shown /\ rank(r.shown[list[i]]) < rank(r.shown[list[j]])
  <2>1. i \in DOMAIN list /\ j \in DOMAIN list /\ i + 2 \in 1 .. L /\ j + 2 \in 1 .. L /\ i + 2 < j + 2
    BY <1>3, <1>4, <1>8
  <2>2. Plain(all, customs, i + 2) /\ Plain(all, customs, j + 2)
    BY <1>3, <1>8, <2>1 DEF Plain
  <2>3. all[j + 2] \in DOMAIN r.shown
    BY <1>3, <1>8, <2>1
  <2>4. all[i + 2] \in DOMAIN r.shown /\ \E q, s \in DOMAIN Digits :
          q < s /\ r.shown[all[i + 2]] = Digits[q] /\ r.shown[all[j + 2]] = Digits[s]
    BY <1>2, <2>1, <2>2, <2>3 DEF Second
  <2> HIDE DEF rank
  <2> QED BY <1>3, <1>5, <2>1, <2>4
<1> QED BY <1>1, <1>6, <1>7, <1>8 DEF K!KeysAsShown, list, customs, all, r

(***************************************************************************)
(* Theorems.                                                               *)
(***************************************************************************)
(* The inductive invariant holds always, for every list the server may     *)
(* answer.                                                                 *)
THEOREM KeyInvariant == ASSUME K!HotkeysAssumption PROVE K!Spec => []KeyIInv
<1>1. K!Init => KeyIInv
  BY InitKeeps
<1>2. KeyIInv /\ [K!Next]_(K!vars) => KeyIInv'
  <2>1. ASSUME KeyIInv, UNCHANGED K!vars PROVE KeyIInv'
    BY <2>1 DEF K!vars, KeyIInv
  <2> QED BY <2>1, KeyNextKeeps
<1> QED BY <1>1, <1>2, PTL DEF K!Spec

(* The values of the variables.                                            *)
THEOREM KeyTypesHold == ASSUME K!HotkeysAssumption PROVE K!Spec => []K!TypeOK
<1>1. KeyIInv => K!TypeOK
  BY DEF KeyIInv, KeyKeeps, Loose, KeysTypes, KeyTypes, TalkTypes, RestTypes, K!TypeOK
<1> QED BY <1>1, KeyInvariant, PTL

(* A key that talks is held: as long as no pressed key lost its binding    *)
(* and the window did not leave without a stop, no binding counts as       *)
(* pressed without a finger on a key of it (the keydown, keyup and blur    *)
(* handlers).                                                              *)
THEOREM HeldKeysLetGo == ASSUME K!HotkeysAssumption PROVE K!Spec => []K!KeysLetGo
<1>1. KeyIInv => K!KeysLetGo
  BY DEF KeyIInv, KeyKeeps, Loose, KeysTypes, RestTypes, Held, K!KeysLetGo
<1> QED BY <1>1, KeyInvariant, PTL

(* The keys in use are those stored for the production they were loaded    *)
(* for (persistCustomTargetHotkeys, ensureCustomTargetHotkeysLoaded).      *)
THEOREM KeysStored == ASSUME K!HotkeysAssumption PROVE K!Spec => []K!KeysAsStored
<1>1. KeyIInv => K!KeysAsStored
  BY DEF KeyIInv, KeyKeeps, Loose, Stored, K!KeysAsStored
<1> QED BY <1>1, KeyInvariant, PTL

(* The key shown beside a target presses that target, and only the reply   *)
(* may share the main button's; a key the user set is the one shown; the   *)
(* targets without one have the first free digits, in list order           *)
(* (rebuildTargetHotkeyAssignments).                                       *)
THEOREM KeysShown == ASSUME K!HotkeysAssumption PROVE K!Spec => []K!KeysAsShown
<1>1. KeyIInv => K!KeysAsShown
  BY ShownAsAssigned
<1> QED BY <1>1, KeyInvariant, PTL

(* The three together, as the model checker checks them of the part.       *)
THEOREM HotkeysHold == ASSUME K!HotkeysAssumption PROVE K!Spec => []K!HotkeysTrue
BY HeldKeysLetGo, KeysShown, KeysStored, PTL DEF K!HotkeysTrue

-----------------------------------------------------------------------------
(***************************************************************************)
(* Proofs about talking from the web interface of a headless client, for   *)
(* any number of targets and whatever is bounded in TLC's runs: a target   *)
(* is not held for a page that let go of it, and rows tell the talk.       *)
(***************************************************************************)

TalkNames ==
  {"auth", "polling", "restarting", "snap", "rows", "locks", "pressed", "active", "slid", "look", "finger", "fresh",
   "posts", "answers", "amiss"}
ClientNames == {"up", "on", "valid", "has", "here", "reply", "locked", "held", "cut", "lone", "told"}

\* Nothing but the fields in S differs.
TalkSameBut(p, q, S) == \A n \in TalkNames \ S : q[n] = p[n]

\* What the steps read and write; the server of a session was told the talk.
Shaped(w) == DOMAIN w = ClientNames /\ DOMAIN w.held = H!Refs /\ w.has \subseteq H!Targets
Client(w) == Shaped(w) /\ (w.on => w.told = H!Held(w) \cup w.locked)
TalksTypes(p) == DOMAIN p = TalkNames /\ p.active \subseteq H!Refs /\ DeckKey \notin p.slid /\ IsSeq(p.posts)

Says(p, i, r, act) == p.posts[i].ref = r /\ p.posts[i].act = act
\* A release of the element is on its way, after the place i.
Released(p, r, i) == \E j \in DOMAIN p.posts : j > i /\ Says(p, j, r, "release")

\* An element with which nothing went wrong: what it said, and what the client
\* holds for it, ends when the requests that are on their way have arrived.
Silenced(w, p, r) ==
  /\ w.held[r] # None => Released(p, r, 0)
  /\ \A i \in DOMAIN p.posts : Says(p, i, r, "press") => Released(p, r, i)
Orderly(w, p, r) ==
  /\ r \in p.active => r = p.finger /\ r \notin p.slid
  /\ r \in p.pressed => r \in p.active
  /\ r \notin p.active => Silenced(w, p, r)
AllOrderly(w, p) == \A r \in H!Refs \ p.amiss : Orderly(w, p, r)

\* What was drawn last is the client's last state.
Drawn(p) ==
  p.fresh => /\ p.rows = p.snap.rows /\ p.locks = H!LocksOf(p, p.snap)
             /\ \A t \in p.rows \cap H!Targets : p.look[t] = H!RowLook(p, p.snap, t)

Inv(w, p) == Client(w) /\ TalksTypes(p) /\ AllOrderly(w, p) /\ Drawn(p)
TalkIInv == Inv(world, page)

(***************************************************************************)
(* What an element's order depends on.                                     *)
(***************************************************************************)
LEMMA SilencedStays ==
  ASSUME NEW w, NEW v, NEW p, NEW q, NEW r, q.posts = p.posts, v.held[r] \in {None, w.held[r]}, Silenced(w, p, r)
  PROVE  Silenced(v, q, r)
  BY DEF Silenced, Released, Says

LEMMA OrderlyStays ==
  ASSUME NEW w, NEW v, NEW p, NEW q, NEW r, TalkSameBut(p, q, TalkNames \ {"finger", "active", "slid", "pressed", "posts"}),
         v.held[r] \in {None, w.held[r]}, Orderly(w, p, r)
  PROVE  Orderly(v, q, r)
<1>1. /\ q.finger = p.finger /\ q.active = p.active /\ q.slid = p.slid /\ q.pressed = p.pressed /\ q.posts = p.posts
  BY DEF TalkSameBut, TalkNames
<1>2. r \notin p.active => Silenced(v, q, r)
  BY <1>1, SilencedStays DEF Orderly
<1> QED BY <1>1, <1>2 DEF Orderly

\* Nothing that counts changes at the page; the client may let go of targets.
LEMMA InvStays ==
  ASSUME NEW w, NEW v, NEW p, NEW q, Inv(w, p), Client(v), \A r \in H!Refs : v.held[r] \in {None, w.held[r]},
         DOMAIN q = TalkNames, TalkSameBut(p, q, {"auth", "polling", "restarting", "fresh", "answers", "amiss"}),
         q.fresh => p.fresh, q.amiss = p.amiss
  PROVE  Inv(v, q)
<1>1. TalksTypes(q)
  BY DEF Inv, TalksTypes, TalkSameBut, TalkNames
<1>2. AllOrderly(v, q)
  <2> SUFFICES ASSUME NEW r \in H!Refs \ p.amiss PROVE Orderly(v, q, r)
    BY DEF AllOrderly
  <2>1. TalkSameBut(p, q, TalkNames \ {"finger", "active", "slid", "pressed", "posts"}) /\ Orderly(w, p, r)
    BY DEF Inv, AllOrderly, TalkSameBut, TalkNames
  <2> QED BY <2>1, OrderlyStays
<1>3. Drawn(q)
  <2>1. /\ q.rows = p.rows /\ q.snap = p.snap /\ q.locks = p.locks /\ q.look = p.look /\ q.pressed = p.pressed
    BY DEF TalkSameBut, TalkNames
  <2> QED BY <2>1 DEF Inv, Drawn, H!LocksOf, H!RowLook
<1> QED BY <1>1, <1>2, <1>3 DEF Inv

\* Elements of which something went wrong are left out; nothing else changes.
LEMMA DoubtIs ==
  ASSUME NEW w, NEW p, Inv(w, p), NEW rs
  PROVE  Inv(w, H!Doubt(p, rs)) /\ TalkSameBut(p, H!Doubt(p, rs), {"amiss"}) /\ H!Doubt(p, rs).amiss = p.amiss \cup rs
<1> DEFINE q == H!Doubt(p, rs)
<1>1. DOMAIN q = TalkNames /\ TalkSameBut(p, q, {"amiss"}) /\ q.amiss = p.amiss \cup rs
  BY DEF H!Doubt, Inv, TalksTypes, TalkSameBut, TalkNames
<1> HIDE DEF q
<1>2. TalksTypes(q)
  BY <1>1 DEF Inv, TalksTypes, TalkSameBut, TalkNames
<1>3. AllOrderly(w, q)
  <2> SUFFICES ASSUME NEW r \in H!Refs \ q.amiss PROVE Orderly(w, q, r)
    BY DEF AllOrderly
  <2>1. TalkSameBut(p, q, TalkNames \ {"finger", "active", "slid", "pressed", "posts"}) /\ Orderly(w, p, r)
    BY <1>1 DEF Inv, AllOrderly, TalkSameBut, TalkNames
  <2> QED BY <2>1, OrderlyStays
<1>4. Drawn(q)
  BY <1>1 DEF Inv, Drawn, H!LocksOf, H!RowLook, TalkSameBut, TalkNames
<1> QED BY <1>1, <1>2, <1>3, <1>4 DEF Inv, q

\* An element is no longer amiss when nothing of it is left.
LEMMA SettleIs == ASSUME NEW w, NEW p, Inv(w, p) PROVE Inv(w, H!Settle(w, p))
<1> DEFINE q == H!Settle(w, p)
<1>1. /\ DOMAIN q = TalkNames /\ TalkSameBut(p, q, {"amiss"})
      /\ \A r : r \in p.amiss \ q.amiss => w.held[r] = None /\ ~H!Sent(p, r) /\ r \notin p.pressed \cup p.active
  BY DEF H!Settle, Inv, TalksTypes, TalkSameBut, TalkNames
<1> HIDE DEF q
<1>2. TalksTypes(q)
  BY <1>1 DEF Inv, TalksTypes, TalkSameBut, TalkNames
<1>3. ASSUME NEW r \in H!Refs \ q.amiss PROVE Orderly(w, q, r)
  <2>1. CASE r \in p.amiss
    <3>1. w.held[r] = None /\ ~H!Sent(p, r) /\ r \notin p.pressed \cup p.active
      BY <1>1, <1>3, <2>1
    <3>2. q.pressed = p.pressed /\ q.active = p.active /\ q.posts = p.posts
      BY <1>1 DEF TalkSameBut, TalkNames
    <3> QED BY <3>1, <3>2 DEF Orderly, Silenced, Says, H!Sent
  <2>2. CASE r \notin p.amiss
    <3>1. TalkSameBut(p, q, TalkNames \ {"finger", "active", "slid", "pressed", "posts"}) /\ Orderly(w, p, r)
      BY <1>1, <2>2 DEF Inv, AllOrderly, TalkSameBut, TalkNames
    <3> QED BY <3>1, OrderlyStays
  <2> QED BY <2>1, <2>2
<1>4. Drawn(q)
  BY <1>1 DEF Inv, Drawn, H!LocksOf, H!RowLook, TalkSameBut, TalkNames
<1> QED BY <1>1, <1>2, <1>3, <1>4 DEF Inv, AllOrderly, q

LEMMA BecomeIs == ASSUME NEW w, NEW p, Inv(w, p), H!Become(w, p) PROVE TalkIInv'
<1>1. world' = w /\ page' = H!Settle(w, p) /\ Inv(w, H!Settle(w, p))
  BY SettleIs DEF H!Become
<1> QED BY <1>1 DEF TalkIInv

(***************************************************************************)
(* Requests that are sent and that arrive.                                 *)
(***************************************************************************)
LEMMA PostIs ==
  ASSUME NEW w, NEW p, TalksTypes(p), NEW r, NEW act
  PROVE  LET q == H!Post(p, r, act) IN
         /\ TalksTypes(q) /\ TalkSameBut(p, q, {"posts"})
         /\ \A x : Silenced(w, p, x) /\ (x # r \/ act # "press") => Silenced(w, q, x)
         /\ act = "release" => Silenced(w, q, r)
<1> DEFINE q == H!Post(p, r, act)
           m == [ref |-> r, act |-> act]
<1>1. DOMAIN q = TalkNames /\ TalkSameBut(p, q, {"posts"}) /\ q.posts = Append(p.posts, m)
  BY DEF H!Post, TalksTypes, TalkSameBut, TalkNames
<1> HIDE DEF q
<1>2. /\ IsSeq(q.posts) /\ Len(p.posts) \in Nat /\ DOMAIN p.posts = 1 .. Len(p.posts)
      /\ DOMAIN q.posts = 1 .. Len(p.posts) + 1 /\ q.posts[Len(p.posts) + 1] = m
      /\ \A i \in 1 .. Len(p.posts) : q.posts[i] = p.posts[i]
  BY <1>1, AppendIs DEF TalksTypes
<1>3. TalksTypes(q)
  BY <1>1, <1>2 DEF TalksTypes, TalkSameBut, TalkNames
<1>4. \A x, i : Released(p, x, i) => Released(q, x, i)
  BY <1>2 DEF Released, Says
<1>5. \A i \in DOMAIN q.posts : \/ i \in DOMAIN p.posts /\ q.posts[i] = p.posts[i]
                                \/ i = Len(p.posts) + 1 /\ q.posts[i] = m
  BY <1>2
<1>6. ASSUME NEW x, Silenced(w, p, x), x # r \/ act # "press" PROVE Silenced(w, q, x)
  BY <1>4, <1>5, <1>6 DEF Silenced, Says
<1>7. ASSUME act = "release" PROVE Silenced(w, q, r)
  <2>1. Len(p.posts) + 1 \in DOMAIN q.posts /\ Says(q, Len(p.posts) + 1, r, "release")
    BY <1>2, <1>7 DEF Says
  <2>2. Released(q, r, 0) /\ \A i \in DOMAIN p.posts : Released(q, r, i)
    BY <1>2, <2>1 DEF Released
  <2>3. \A i \in DOMAIN q.posts : Says(q, i, r, "press") => i \in DOMAIN p.posts
    BY <1>5, <1>7 DEF Says
  <2> QED BY <2>2, <2>3 DEF Silenced
<1> QED BY <1>1, <1>3, <1>6, <1>7 DEF q

\* A request is on its way no longer.  Of an element that sent none before it,
\* a press and a lock that arrive leave the release that follows.
LEMMA TalkTakeIs ==
  ASSUME NEW w, NEW p, TalksTypes(p), NEW i \in DOMAIN p.posts
  PROVE  LET q == [p EXCEPT !.posts = H!RemoveAt(@, i)]
             m == p.posts[i]
         IN /\ TalksTypes(q) /\ TalkSameBut(p, q, {"posts"})
            /\ \A x : x # m.ref /\ Silenced(w, p, x) => Silenced(w, q, x)
            /\ \A v : /\ m.ref \notin {p.posts[j].ref : j \in 1 .. i - 1} /\ Silenced(w, p, m.ref)
                      /\ \/ v.held[m.ref] = None
                         \/ m.act = "press"
                         \/ m.act # "release" /\ v.held[m.ref] = w.held[m.ref]
                      => Silenced(v, q, m.ref)
<1> DEFINE q == [p EXCEPT !.posts = H!RemoveAt(@, i)]
           m == p.posts[i]
<1>1. DOMAIN q = TalkNames /\ TalkSameBut(p, q, {"posts"}) /\ q.posts = H!RemoveAt(p.posts, i)
  BY DEF TalksTypes, TalkSameBut, TalkNames
<1> HIDE DEF q
<1>2. /\ IsSeq(q.posts) /\ Len(p.posts) \in Nat /\ DOMAIN p.posts = 1 .. Len(p.posts) /\ i \in 1 .. Len(p.posts)
      /\ DOMAIN q.posts = 1 .. Len(p.posts) - 1
      /\ \A j \in 1 .. Len(p.posts) - 1 : q.posts[j] = IF j < i THEN p.posts[j] ELSE p.posts[j + 1]
  BY <1>1, RemoveIs DEF TalksTypes, H!RemoveAt
<1>3. TalksTypes(q)
  BY <1>1, <1>2 DEF TalksTypes, TalkSameBut, TalkNames
<1> DEFINE Old(j) == IF j < i THEN j ELSE j + 1
           New(j) == IF j < i THEN j ELSE j - 1
<1>4. \A j \in DOMAIN q.posts : Old(j) \in DOMAIN p.posts /\ Old(j) # i /\ q.posts[j] = p.posts[Old(j)]
  BY <1>2
<1>5. \A j \in DOMAIN p.posts \ {i} : New(j) \in DOMAIN q.posts /\ q.posts[New(j)] = p.posts[j]
  BY <1>2
<1>6. \A j \in DOMAIN q.posts, k \in DOMAIN p.posts : k > Old(j) /\ k # i => New(k) > j
  BY <1>2
<1>7. \A k \in DOMAIN p.posts : k # i => New(k) > 0
  BY <1>2
<1> HIDE DEF Old, New, m
<1>8. ASSUME NEW x, x # m.ref, Silenced(w, p, x) PROVE Silenced(w, q, x)
  <2>1. ASSUME NEW j \in DOMAIN p.posts, Says(p, j, x, "release")
        PROVE  j # i /\ New(j) \in DOMAIN q.posts /\ Says(q, New(j), x, "release")
    BY <1>5, <1>8, <2>1 DEF Says, m
  <2>2. w.held[x] # None => Released(q, x, 0)
    BY <1>7, <1>8, <2>1 DEF Silenced, Released
  <2>3. ASSUME NEW j \in DOMAIN q.posts, Says(q, j, x, "press") PROVE Released(q, x, j)
    <3>1. Old(j) \in DOMAIN p.posts /\ Says(p, Old(j), x, "press")
      BY <1>4, <2>3 DEF Says
    <3>2. PICK k \in DOMAIN p.posts : k > Old(j) /\ Says(p, k, x, "release")
      BY <1>8, <3>1 DEF Silenced, Released
    <3> QED BY <1>6, <2>1, <3>2 DEF Released
  <2> QED BY <2>2, <2>3 DEF Silenced
<1>9. ASSUME NEW v, m.ref \notin {p.posts[j].ref : j \in 1 .. i - 1}, Silenced(w, p, m.ref),
             \/ v.held[m.ref] = None
             \/ m.act = "press"
             \/ m.act # "release" /\ v.held[m.ref] = w.held[m.ref]
      PROVE  Silenced(v, q, m.ref)
  <2> DEFINE x == m.ref
  <2>1. ASSUME NEW j \in DOMAIN p.posts, Says(p, j, x, "release"), j # i
        PROVE  New(j) \in DOMAIN q.posts /\ Says(q, New(j), x, "release")
    BY <1>5, <2>1 DEF Says
  <2>2. ASSUME NEW j \in DOMAIN q.posts, Says(q, j, x, "press") PROVE Released(q, x, j)
    <3>1. Old(j) \in DOMAIN p.posts /\ Old(j) # i /\ Says(p, Old(j), x, "press")
      BY <1>4, <2>2 DEF Says
    <3>2. ~(Old(j) \in 1 .. i - 1)
      BY <1>9, <3>1 DEF Says
    <3>3. PICK k \in DOMAIN p.posts : k > Old(j) /\ Says(p, k, x, "release")
      BY <1>9, <3>1 DEF Silenced, Released
    <3>4. k # i
      BY <1>2, <3>1, <3>2, <3>3
    <3> QED BY <1>6, <2>1, <3>3, <3>4 DEF Released
  <2>3. ASSUME v.held[x] # None PROVE Released(q, x, 0)
    <3>1. m.act # "release"
      BY <1>9, <2>3
    <3>2. \E k \in DOMAIN p.posts : k > 0 /\ Says(p, k, x, "release")
      <4>1. CASE m.act = "press"
        <5>1. Says(p, i, x, "press")
          BY <4>1 DEF Says, m
        <5>2. Released(p, x, i)
          BY <1>9, <5>1 DEF Silenced
        <5> QED BY <1>2, <5>2 DEF Released
      <4>2. CASE m.act # "press"
        BY <1>9, <2>3, <4>2 DEF Silenced, Released
      <4> QED BY <4>1, <4>2
    <3>3. PICK k \in DOMAIN p.posts : Says(p, k, x, "release")
      BY <3>2
    <3>4. k # i
      BY <3>1, <3>3 DEF Says, m
    <3> QED BY <1>7, <2>1, <3>3, <3>4 DEF Released
  <2> QED BY <2>2, <2>3 DEF Silenced
<1>10. q = [p EXCEPT !.posts = H!RemoveAt(@, i)] /\ m = p.posts[i]
  BY DEF q, m
<1> QED BY <1>1, <1>3, <1>8, <1>9, <1>10

(***************************************************************************)
(* The client.                                                             *)
(***************************************************************************)
LEMMA TellIs ==
  ASSUME NEW w, Shaped(w)
  PROVE  Client(H!Tell(w)) /\ H!Tell(w).held = w.held
<1> DEFINE v == H!Tell(w)
<1>1. /\ Shaped(v) /\ v.held = w.held /\ v.locked = w.locked /\ v.on = w.on
      /\ w.on => v.told = H!Held(w) \cup w.locked
  BY DEF H!Tell, Shaped, ClientNames
<1> HIDE DEF v
<1>2. H!Held(v) = H!Held(w)
  BY <1>1 DEF H!Held
<1> QED BY <1>1, <1>2 DEF Client, v

\* Nothing the server is told of changes.
LEMMA StaysTold ==
  ASSUME NEW w, NEW v, Client(w), Shaped(v), v.held = w.held, v.locked = w.locked, v.told = w.told, v.on = w.on
  PROVE  Client(v)
  BY DEF Client, H!Held

LEMMA TalkLockIs ==
  ASSUME NEW w, Shaped(w), NEW k
  PROVE  Shaped(H!Lock(w, k)) /\ H!Lock(w, k).held = w.held
  BY DEF H!Lock, Shaped, ClientNames

LEMMA TalkToggleIs ==
  ASSUME NEW w, Shaped(w), NEW k
  PROVE  Client(H!Tell(H!ToggleAt(w, k))) /\ H!Tell(H!ToggleAt(w, k)).held = w.held
<1>1. Shaped(H!ToggleAt(w, k)) /\ H!ToggleAt(w, k).held = w.held
  BY TalkLockIs DEF H!ToggleAt, Shaped, ClientNames
<1> QED BY <1>1, TellIs

\* A request changes what is held for its element alone; a release ends it.
LEMMA ObeyIs ==
  ASSUME NEW w, Client(w), NEW m, NEW tap
  PROVE  LET v == H!Obey(w, m, tap) IN
         /\ Client(v) /\ \A r \in H!Refs \ {m.ref} : v.held[r] = w.held[r]
         /\ m.act = "release" /\ m.ref \in H!Refs => v.held[m.ref] = None
         /\ m.act \notin {"press", "release"} => v.held = w.held
<1> DEFINE v == H!Obey(w, m, tap)
           k == H!KeyOf(w, m.ref)
<1>1. CASE m.act = "release"
  <2> DEFINE f == [w EXCEPT !.held[m.ref] = None]
         u == H!ReleaseAt(w, m.ref, tap)
  <2>1. v = H!Tell(u) /\ u = IF tap /\ w.held[m.ref] # None /\ m.ref \notin w.cut THEN H!Lock(f, w.held[m.ref]) ELSE f
    BY <1>1 DEF H!Obey, H!ReleaseAt
  <2>2. Shaped(f) /\ f.held = [w.held EXCEPT ![m.ref] = None]
    BY DEF Client, Shaped, ClientNames
  <2> HIDE DEF f, u, v
  <2>3. Shaped(u) /\ u.held = [w.held EXCEPT ![m.ref] = None]
    BY <2>1, <2>2, TalkLockIs
  <2>4. Client(v) /\ v.held = [w.held EXCEPT ![m.ref] = None]
    BY <2>1, <2>3, TellIs
  <2> QED BY <1>1, <2>4 DEF Client, Shaped, v
<1>2. CASE m.act = "press" /\ H!Talkable(w, k)
  <2> DEFINE u == H!PressAt(w, m.ref, k)
  <2>1. v = H!Tell(u)
    BY <1>2 DEF H!Obey
  <2> HIDE DEF v, k
  <2>2. Shaped(u) /\ u.held = [w.held EXCEPT ![m.ref] = k]
    BY DEF H!PressAt, Client, Shaped, ClientNames
  <2> HIDE DEF u
  <2>3. Client(v) /\ v.held = [w.held EXCEPT ![m.ref] = k]
    BY <2>1, <2>2, TellIs
  <2> QED BY <1>2, <2>3 DEF Client, Shaped, v
<1>3. CASE m.act = "lock" /\ H!Talkable(w, k)
  <2>1. v = H!Tell(H!ToggleAt(w, k))
    BY <1>3 DEF H!Obey
  <2> HIDE DEF v, k
  <2>2. Client(v) /\ v.held = w.held
    BY <2>1, TalkToggleIs DEF Client
  <2> QED BY <1>3, <2>2 DEF v
<1>4. CASE ~(m.act = "release" \/ (m.act = "press" /\ H!Talkable(w, k)) \/ (m.act = "lock" /\ H!Talkable(w, k)))
  <2>1. v = w
    BY <1>4 DEF H!Obey
  <2> QED BY <1>4, <2>1
<1> QED BY <1>1, <1>2, <1>3, <1>4

(***************************************************************************)
(* The page draws.                                                         *)
(***************************************************************************)
LEMMA PaintIs ==
  ASSUME NEW p, DOMAIN p = TalkNames, NEW r, NEW on
  PROVE  DOMAIN H!Paint(p, r, on) = TalkNames /\ TalkSameBut(p, H!Paint(p, r, on), {"look"})
  BY DEF H!Paint, TalkSameBut, TalkNames

\* Rows that are gone take their listeners with them; the rest keeps its order.
LEMMA RenderIs ==
  ASSUME H!HeadlessAssumption, NEW w, NEW p, Client(w), TalksTypes(p), AllOrderly(w, p)
  PROVE  Inv(w, H!Render(p, p.snap)) /\ H!Render(p, p.snap).finger = p.finger
<1> DEFINE s == p.snap
           a == [p EXCEPT !.locks = H!LocksOf(p, s)]
           gone == p.rows \ s.rows
           d == H!Doubt(a, gone \cap p.active)
           b == H!RenderTargets(a, s)
           q == H!Render(p, s)
<1>1. DOMAIN a = TalkNames /\ TalkSameBut(p, a, {"locks"}) /\ a.locks = H!LocksOf(p, s)
  BY DEF TalksTypes, TalkSameBut, TalkNames
<1>2. a.rows = p.rows /\ a.active = p.active
  BY <1>1 DEF TalkSameBut, TalkNames
<1>3. b = [d EXCEPT !.rows = s.rows, !.active = @ \ gone, !.slid = @ \ gone,
                    !.look = [r \in H!Refs |-> IF r \in s.rows THEN H!RowLook(a, s, r) ELSE IF r = DeckKey THEN @[r] ELSE H!Off]]
  BY <1>2 DEF H!RenderTargets
<1>4. q = [b EXCEPT !.look[Reply] = H!ReplyLook(b, s)]
  BY DEF H!Render
<1> HIDE DEF a
<1>5. DOMAIN d = TalkNames /\ TalkSameBut(a, d, {"amiss"}) /\ d.amiss = a.amiss \cup (gone \cap p.active)
  BY <1>1 DEF H!Doubt, TalkSameBut, TalkNames
<1> HIDE DEF d
<1>6. /\ DOMAIN b = TalkNames /\ TalkSameBut(d, b, {"rows", "active", "slid", "look"})
      /\ b.rows = s.rows /\ b.active = d.active \ gone /\ b.slid = d.slid \ gone
      /\ \A r \in H!Refs \cap s.rows : b.look[r] = H!RowLook(a, s, r)
  BY <1>3, <1>5 DEF TalkSameBut, TalkNames
<1> HIDE DEF b
<1>7. DOMAIN q = TalkNames /\ TalkSameBut(b, q, {"look"}) /\ \A r \in H!Refs \ {Reply} : q.look[r] = b.look[r]
  BY <1>4, <1>6 DEF TalkSameBut, TalkNames
<1> HIDE DEF q
<1>8. /\ TalkSameBut(p, q, {"locks", "rows", "active", "slid", "look", "amiss"})
      /\ q.rows = s.rows /\ q.active = p.active \ gone /\ q.slid = p.slid \ gone
      /\ q.amiss = p.amiss \cup (gone \cap p.active) /\ q.locks = H!LocksOf(p, s)
  BY <1>1, <1>5, <1>6, <1>7 DEF TalkSameBut, TalkNames
<1>9. TalksTypes(q)
  BY <1>7, <1>8 DEF TalksTypes, TalkSameBut, TalkNames
<1>10. ASSUME NEW r \in H!Refs \ q.amiss PROVE Orderly(w, q, r)
  <2>1. Orderly(w, p, r) /\ (r \in p.active => r \notin gone)
    BY <1>8 DEF AllOrderly
  <2>2. q.finger = p.finger /\ q.pressed = p.pressed /\ q.posts = p.posts
    BY <1>8 DEF TalkSameBut, TalkNames
  <2>3. Silenced(w, p, r) => Silenced(w, q, r)
    BY <2>2, SilencedStays
  <2> QED BY <1>8, <2>1, <2>2, <2>3 DEF Orderly
<1>11. Drawn(q)
  <2>1. q.snap = s /\ q.pressed = p.pressed /\ a.pressed = p.pressed
    BY <1>1, <1>8 DEF TalkSameBut, TalkNames
  <2>2. q.locks = H!LocksOf(q, s)
    BY <1>8 DEF H!LocksOf
  <2>3. \A t \in q.rows \cap H!Targets : q.look[t] = H!RowLook(a, s, t)
    BY <1>6, <1>7, <1>8 DEF H!HeadlessAssumption, H!Refs
  <2>4. \A t : H!RowLook(a, s, t) = H!RowLook(q, s, t)
    BY <1>1, <1>8, <2>1 DEF H!RowLook
  <2> QED BY <1>8, <2>1, <2>2, <2>3, <2>4 DEF Drawn
<1> QED BY <1>8, <1>9, <1>10, <1>11 DEF Inv, AllOrderly, TalkSameBut, TalkNames, q

(***************************************************************************)
(* What a finger does.                                                     *)
(***************************************************************************)
\* A page of which only one element changed, and that is drawn later.
LEMMA OthersIs ==
  ASSUME NEW w, NEW p, NEW q, NEW r, Inv(w, p), TalksTypes(q), ~q.fresh,
         q.amiss = p.amiss, q.slid \ {r} = p.slid \ {r}, q.active \ {r} = p.active \ {r},
         q.pressed \ {r} = p.pressed \ {r}, \A x \in H!Refs \ p.amiss : x # r => x \notin p.active,
         \A x : x # r /\ Silenced(w, p, x) => Silenced(w, q, x),
         r \in H!Refs \ p.amiss => Orderly(w, q, r)
  PROVE  Inv(w, q)
<1>1. ASSUME NEW x \in H!Refs \ p.amiss, x # r PROVE Orderly(w, q, x)
  <2>1. /\ x \notin p.active /\ (x \in q.active <=> x \in p.active) /\ (x \in q.pressed <=> x \in p.pressed)
    BY <1>1
  <2> QED BY <1>1, <2>1 DEF Inv, AllOrderly, Orderly
<1> QED BY <1>1 DEF Inv, AllOrderly, Drawn

LEMMA ToggleLockIs ==
  ASSUME H!HeadlessAssumption, NEW w, NEW p, Inv(w, p), ~p.fresh, NEW r
  PROVE  Inv(w, H!ToggleLock(p, r))
<1> DEFINE a == [p EXCEPT !.locks = IF r \in @ THEN @ \ {r} ELSE @ \cup {r}]
           q == H!Post(a, r, "lock")
<1>1. DOMAIN a = TalkNames /\ TalkSameBut(p, a, {"locks"}) /\ TalksTypes(a)
  BY DEF Inv, TalksTypes, TalkSameBut, TalkNames
<1>2. H!ToggleLock(p, r) = IF p.snap = None THEN q ELSE H!Render(q, p.snap)
  BY DEF H!ToggleLock
<1> HIDE DEF a
<1>3. TalksTypes(q) /\ TalkSameBut(a, q, {"posts"}) /\ \A x : Silenced(w, a, x) => Silenced(w, q, x)
  BY <1>1, PostIs
<1> HIDE DEF q
<1>4. TalkSameBut(p, q, {"posts", "locks"})
  BY <1>1, <1>3 DEF TalkSameBut, TalkNames
<1>5. AllOrderly(w, q)
  <2> SUFFICES ASSUME NEW x \in H!Refs \ p.amiss PROVE Orderly(w, q, x)
    BY <1>4 DEF AllOrderly, TalkSameBut, TalkNames
  <2>1. Orderly(w, p, x)
    BY DEF Inv, AllOrderly
  <2>2. Silenced(w, p, x) => Silenced(w, q, x)
    <3>1. a.posts = p.posts
      BY <1>1 DEF TalkSameBut, TalkNames
    <3> QED BY <1>3, <3>1, SilencedStays
  <2> QED BY <1>4, <2>1, <2>2 DEF Orderly, TalkSameBut, TalkNames
<1>6. Inv(w, q) /\ q.snap = p.snap
  BY <1>3, <1>4, <1>5 DEF Inv, Drawn, TalkSameBut, TalkNames
<1>7. Inv(w, H!Render(q, q.snap))
  BY <1>6, RenderIs DEF Inv
<1> QED BY <1>2, <1>6, <1>7

\* A press of an element on which a finger came down.
LEMMA BeginIs ==
  ASSUME H!HeadlessAssumption, NEW w, NEW p, Inv(w, p), ~p.fresh, NEW r \in H!Refs, r = p.finger,
         \A x \in H!Refs \ p.amiss : x \notin p.active
  PROVE  Inv(w, H!Begin(p, r))
<1>1. CASE r # DeckKey /\ H!IsLocked(p, r)
  BY <1>1, ToggleLockIs DEF H!Begin
<1>2. CASE ~(r # DeckKey /\ H!IsLocked(p, r)) /\ r \in p.active
  <2>1. H!Begin(p, r) = p
    BY <1>2 DEF H!Begin
  <2> QED BY <2>1
<1>3. CASE r = DeckKey /\ r \notin p.active
  <2> DEFINE a == [p EXCEPT !.active = @ \cup {r}]
             q == H!Post(a, r, "press")
  <2>1. DOMAIN a = TalkNames /\ TalkSameBut(p, a, {"active"}) /\ a.active = p.active \cup {r} /\ TalksTypes(a)
    BY DEF Inv, TalksTypes, TalkSameBut, TalkNames
  <2>2. H!Begin(p, r) = q
    BY <1>3 DEF H!Begin
  <2> HIDE DEF a
  <2>3. TalksTypes(q) /\ TalkSameBut(a, q, {"posts"}) /\ \A x : x # r /\ Silenced(w, a, x) => Silenced(w, q, x)
    BY <2>1, PostIs
  <2> HIDE DEF q
  <2>4. TalkSameBut(p, q, {"posts", "active"}) /\ q.active = p.active \cup {r} /\ a.posts = p.posts
    BY <2>1, <2>3 DEF TalkSameBut, TalkNames
  <2>5. \A x : x # r /\ Silenced(w, p, x) => Silenced(w, q, x)
    BY <2>3, <2>4, SilencedStays
  <2>6. r \in H!Refs \ p.amiss => Orderly(w, q, r)
    BY <1>3, <2>3, <2>4 DEF TalksTypes, Orderly, TalkSameBut, TalkNames
  <2>7. /\ ~q.fresh /\ q.amiss = p.amiss /\ q.slid = p.slid /\ q.pressed = p.pressed
        /\ q.active \ {r} = p.active \ {r}
    BY <2>4 DEF TalkSameBut, TalkNames
  <2>8. Inv(w, q)
    BY <2>3, <2>5, <2>6, <2>7, OthersIs
  <2> QED BY <2>2, <2>8
<1>4. CASE ~(r # DeckKey /\ H!IsLocked(p, r)) /\ r \notin p.active /\ r # DeckKey
  <2> DEFINE a == [p EXCEPT !.active = @ \cup {r}, !.slid = @ \ {r}, !.pressed = @ \cup {r}]
             b == H!Paint(a, r, TRUE)
             q == H!Post(b, r, "press")
  <2>1. /\ DOMAIN a = TalkNames /\ TalkSameBut(p, a, {"active", "slid", "pressed"}) /\ a.active = p.active \cup {r}
        /\ a.slid = p.slid \ {r} /\ a.pressed = p.pressed \cup {r}
    BY DEF Inv, TalksTypes, TalkSameBut, TalkNames
  <2>2. H!Begin(p, r) = q
    BY <1>4 DEF H!Begin
  <2> HIDE DEF a
  <2>3. DOMAIN b = TalkNames /\ TalkSameBut(a, b, {"look"})
    BY <2>1, PaintIs
  <2> HIDE DEF b
  <2>4. TalksTypes(b) /\ b.posts = p.posts
    BY <2>1, <2>3 DEF Inv, TalksTypes, TalkSameBut, TalkNames
  <2>5. TalksTypes(q) /\ TalkSameBut(b, q, {"posts"}) /\ \A x : x # r /\ Silenced(w, b, x) => Silenced(w, q, x)
    BY <2>4, PostIs
  <2> HIDE DEF q
  <2>6. /\ TalkSameBut(p, q, {"posts", "active", "slid", "pressed", "look"}) /\ q.active = p.active \cup {r}
        /\ q.slid = p.slid \ {r} /\ q.pressed = p.pressed \cup {r}
    BY <2>1, <2>3, <2>5 DEF TalkSameBut, TalkNames
  <2>7. \A x : x # r /\ Silenced(w, p, x) => Silenced(w, q, x)
    BY <2>4, <2>5, SilencedStays
  <2>8. r \in H!Refs \ p.amiss => Orderly(w, q, r)
    BY <2>6 DEF Orderly, TalkSameBut, TalkNames
  <2>9. /\ ~q.fresh /\ q.amiss = p.amiss /\ q.slid \ {r} = p.slid \ {r} /\ q.pressed \ {r} = p.pressed \ {r}
        /\ q.active \ {r} = p.active \ {r}
    BY <2>6 DEF TalkSameBut, TalkNames
  <2>10. Inv(w, q)
    BY <2>5, <2>7, <2>8, <2>9, OthersIs
  <2> QED BY <2>2, <2>10
<1> QED BY <1>1, <1>2, <1>3, <1>4

\* The end of a press.
LEMMA EndIs ==
  ASSUME NEW w, NEW p, NEW old, Inv(w, old), NEW r \in H!Refs, old.finger = r, r \in old.active,
         DOMAIN p = TalkNames, TalkSameBut(old, p, {"finger", "fresh"}), ~p.fresh
  PROVE  Inv(w, H!End(p, r))
<1> DEFINE a == [p EXCEPT !.active = @ \ {r}, !.pressed = @ \ {r}]
           b == H!Paint(a, r, FALSE)
           q == H!End(p, r)
<1>1. /\ DOMAIN a = TalkNames /\ TalkSameBut(p, a, {"active", "pressed"}) /\ a.active = p.active \ {r}
      /\ a.pressed = p.pressed \ {r}
  BY DEF TalkSameBut, TalkNames
<1> HIDE DEF a
<1>2. DOMAIN b = TalkNames /\ TalkSameBut(a, b, {"look"})
  BY <1>1, PaintIs
<1>3. q = IF r \in p.slid THEN b ELSE H!Post(b, r, "release")
  BY DEF H!End, b, a
<1> HIDE DEF b, q
<1>4. /\ TalkSameBut(old, b, {"finger", "fresh", "active", "pressed", "look"}) /\ b.active = old.active \ {r}
      /\ b.pressed = old.pressed \ {r} /\ ~b.fresh
  BY <1>1, <1>2 DEF TalkSameBut, TalkNames
<1>5. TalksTypes(b) /\ b.posts = old.posts
  BY <1>2, <1>4 DEF Inv, TalksTypes, TalkSameBut, TalkNames
<1>6. /\ TalksTypes(q) /\ TalkSameBut(b, q, {"posts"}) /\ \A x : Silenced(w, b, x) => Silenced(w, q, x)
      /\ r \notin old.slid => Silenced(w, q, r)
  <2>1. p.slid = old.slid
    BY DEF TalkSameBut, TalkNames
  <2>2. CASE r \in p.slid
    BY <1>3, <1>5, <2>1, <2>2 DEF TalkSameBut
  <2>3. CASE r \notin p.slid
    BY <1>3, <1>5, <2>3, PostIs
  <2> QED BY <2>2, <2>3
<1>7. /\ TalkSameBut(old, q, {"finger", "fresh", "active", "pressed", "look", "posts"}) /\ q.active = old.active \ {r}
      /\ q.pressed = old.pressed \ {r} /\ ~q.fresh
  BY <1>4, <1>6 DEF TalkSameBut, TalkNames
<1>8. \A x : x # r /\ Silenced(w, old, x) => Silenced(w, q, x)
  BY <1>5, <1>6, SilencedStays
<1>9. \A x \in H!Refs \ old.amiss : x # r => x \notin old.active
  BY DEF Inv, AllOrderly, Orderly
<1>10. r \in H!Refs \ old.amiss => Orderly(w, q, r)
  BY <1>6, <1>7 DEF Inv, AllOrderly, Orderly
<1>11. /\ q.amiss = old.amiss /\ q.slid \ {r} = old.slid \ {r} /\ q.pressed \ {r} = old.pressed \ {r}
       /\ q.active \ {r} = old.active \ {r}
  BY <1>7 DEF TalkSameBut, TalkNames
<1>12. Inv(w, q)
  BY <1>6, <1>7, <1>8, <1>9, <1>10, <1>11, OthersIs
<1> QED BY <1>12 DEF q

(***************************************************************************)
(* The steps.                                                              *)
(***************************************************************************)
LEMMA InitOrderly == ASSUME H!HeadlessAssumption, H!Init PROVE TalkIInv
<1>1. PICK lone \in BOOLEAN : world = H!Started(lone)
  BY DEF H!Init
<1> DEFINE b == [H!Blank EXCEPT !.snap = H!Snapshot(world)]
<1>2. Client(world) /\ \A r \in H!Refs : world.held[r] = None
  BY <1>1 DEF H!Started, Client, Shaped, H!Held, ClientNames
<1>3. /\ DOMAIN b = TalkNames /\ b.active = {} /\ b.slid = {} /\ b.pressed = {} /\ b.posts = <<>> /\ b.amiss = {}
      /\ b.snap = H!Snapshot(world)
  BY DEF H!Blank, TalkNames
<1>4. page = H!Render(b, b.snap)
  BY <1>3 DEF H!Init
<1> HIDE DEF b
<1>5. IsSeq(<<>>) /\ DOMAIN <<>> = {}
  <2>1. <<>> \in Seq({}) /\ DOMAIN <<>> = {}
    BY EmptySeq
  <2> QED BY <2>1 DEF IsSeq
<1>6. TalksTypes(b) /\ AllOrderly(world, b)
  BY <1>2, <1>3, <1>5 DEF TalksTypes, AllOrderly, Orderly, Silenced
<1> QED BY <1>2, <1>4, <1>6, RenderIs DEF TalkIInv

\* Nothing that goes right is active but the element under the finger.
LEMMA UnderFinger ==
  ASSUME NEW w, NEW p, Inv(w, p), NEW x \in H!Refs \ p.amiss, x \in p.active
  PROVE  x = p.finger
  BY DEF Inv, AllOrderly, Orderly

\* No finger is on an element with which nothing went wrong.
LEMMA TalkFingerIs ==
  ASSUME NEW w, NEW p, Inv(w, p), \A x \in H!Refs \ p.amiss : x \notin p.active,
         NEW q, DOMAIN q = TalkNames, TalkSameBut(p, q, {"finger", "fresh"}), ~q.fresh
  PROVE  Inv(w, q)
<1>1. TalksTypes(q)
  BY DEF Inv, TalksTypes, TalkSameBut, TalkNames
<1>2. ASSUME NEW x \in H!Refs \ p.amiss PROVE Orderly(w, q, x)
  <2>1. q.posts = p.posts /\ q.active = p.active /\ q.pressed = p.pressed
    BY DEF TalkSameBut, TalkNames
  <2>2. Silenced(w, p, x) => Silenced(w, q, x)
    BY <2>1, SilencedStays
  <2> QED BY <2>1, <2>2 DEF Inv, AllOrderly, Orderly
<1> QED BY <1>1, <1>2 DEF Inv, AllOrderly, Drawn, TalkSameBut, TalkNames

LEMMA TalkPressKeeps == ASSUME H!HeadlessAssumption, TalkIInv, NEW r \in H!Refs, H!Press(r) PROVE TalkIInv'
<1> DEFINE p == [page EXCEPT !.finger = r, !.fresh = FALSE]
<1>1. page.finger = None /\ \E taken \in BOOLEAN : H!Become(world, IF taken THEN H!Begin(p, r) ELSE p)
  BY DEF H!Press
<1>2. DOMAIN p = TalkNames /\ TalkSameBut(page, p, {"finger", "fresh"}) /\ ~p.fresh /\ p.finger = r
  BY DEF TalkIInv, Inv, TalksTypes, TalkSameBut, TalkNames
<1> HIDE DEF p
<1>3. \A x \in H!Refs \ page.amiss : x \notin page.active
  BY <1>1, UnderFinger DEF TalkIInv, H!HeadlessAssumption
<1>4. Inv(world, p)
  BY <1>2, <1>3, TalkFingerIs DEF TalkIInv
<1>5. \A x \in H!Refs \ p.amiss : x \notin p.active
  BY <1>2, <1>3 DEF TalkSameBut, TalkNames
<1>6. Inv(world, H!Begin(p, r))
  BY <1>2, <1>4, <1>5, BeginIs
<1> QED BY <1>1, <1>4, <1>6, BecomeIs

LEMMA TalkSlideKeeps == ASSUME H!HeadlessAssumption, TalkIInv, H!Slide PROVE TalkIInv'
<1> DEFINE r == page.finger
           a == [[page EXCEPT !.fresh = FALSE] EXCEPT !.slid = @ \cup {r}, !.locks = @ \cup {r},
                                                       !.look[r] = [on |-> TRUE, locked |-> r # Reply]]
           b == H!Post(a, r, "lock")
           q == H!Doubt(b, {r})
<1>1. r \in page.active \ ({DeckKey} \cup page.slid) /\ H!Become(world, q)
  BY DEF H!Slide, H!SlideOn
<1>2. /\ DOMAIN a = TalkNames /\ TalkSameBut(page, a, {"fresh", "slid", "locks", "look"}) /\ a.slid = page.slid \cup {r}
      /\ ~a.fresh
  BY DEF TalkIInv, Inv, TalksTypes, TalkSameBut, TalkNames
<1> HIDE DEF a
<1>3. TalksTypes(a) /\ a.posts = page.posts
  BY <1>1, <1>2 DEF TalkIInv, Inv, TalksTypes, TalkSameBut, TalkNames
<1>4. TalksTypes(b) /\ TalkSameBut(a, b, {"posts"}) /\ \A x : Silenced(world, a, x) => Silenced(world, b, x)
  BY <1>3, PostIs
<1> HIDE DEF b
<1>5. DOMAIN q = TalkNames /\ TalkSameBut(b, q, {"amiss"}) /\ q.amiss = b.amiss \cup {r}
  BY <1>4 DEF H!Doubt, TalksTypes, TalkSameBut, TalkNames
<1> HIDE DEF q
<1>6. /\ TalkSameBut(page, q, {"fresh", "slid", "locks", "look", "posts", "amiss"}) /\ q.slid = page.slid \cup {r}
      /\ ~q.fresh /\ q.amiss = page.amiss \cup {r} /\ q.posts = b.posts
  BY <1>2, <1>4, <1>5 DEF TalkSameBut, TalkNames
<1>7. TalksTypes(q)
  BY <1>4, <1>5 DEF TalksTypes, TalkSameBut, TalkNames
<1>8. ASSUME NEW x \in H!Refs \ q.amiss PROVE Orderly(world, q, x)
  <2>1. Orderly(world, page, x) /\ x # r
    BY <1>6, <1>8 DEF TalkIInv, Inv, AllOrderly
  <2>2. Silenced(world, page, x) => Silenced(world, q, x)
    <3>1. Silenced(world, page, x) => Silenced(world, a, x)
      BY <1>3, SilencedStays
    <3>2. Silenced(world, b, x) => Silenced(world, q, x)
      BY <1>6, SilencedStays
    <3> QED BY <1>4, <3>1, <3>2
  <2>3. /\ q.active = page.active /\ q.pressed = page.pressed /\ q.finger = page.finger
    BY <1>6 DEF TalkSameBut, TalkNames
  <2> QED BY <1>6, <2>1, <2>2, <2>3 DEF Orderly
<1>9. Inv(world, q)
  BY <1>6, <1>7, <1>8 DEF TalkIInv, Inv, AllOrderly, Drawn
<1> QED BY <1>1, <1>9, BecomeIs

\* The finger leaves an element that is told of it, or is not.
LEMMA LeaveIs ==
  ASSUME H!HeadlessAssumption, TalkIInv, page.finger # None, NEW q,
         LET r == page.finger
             p == [page EXCEPT !.finger = None, !.fresh = FALSE]
         IN IF r \notin p.active THEN q = p ELSE q \in {H!End(p, r), H!Doubt(p, {r})}
  PROVE  Inv(world, q)
<1> DEFINE r == page.finger
           p == [page EXCEPT !.finger = None, !.fresh = FALSE]
<1>1. DOMAIN p = TalkNames /\ TalkSameBut(page, p, {"finger", "fresh"}) /\ ~p.fresh
  BY DEF TalkIInv, Inv, TalksTypes, TalkSameBut, TalkNames
<1>2. IF r \notin p.active THEN q = p ELSE q \in {H!End(p, r), H!Doubt(p, {r})}
  OBVIOUS
<1>3. p.active = page.active /\ p.amiss = page.amiss /\ page.active \subseteq H!Refs
  BY <1>1 DEF TalkIInv, Inv, TalksTypes, TalkSameBut, TalkNames
<1> HIDE DEF p
<1>4. CASE r \notin page.active
  <2>1. \A x \in H!Refs \ page.amiss : x \notin page.active
    BY <1>4, UnderFinger DEF TalkIInv
  <2> QED BY <1>1, <1>2, <1>3, <1>4, <2>1, TalkFingerIs DEF TalkIInv
<1>5. CASE r \in page.active /\ q = H!End(p, r)
  BY <1>1, <1>3, <1>5, EndIs DEF TalkIInv
<1>6. CASE r \in page.active /\ q = H!Doubt(p, {r})
  <2> DEFINE b == H!Doubt(page, {r})
  <2>1. Inv(world, b) /\ TalkSameBut(page, b, {"amiss"}) /\ b.amiss = page.amiss \cup {r} /\ DOMAIN b = TalkNames
    BY DoubtIs DEF TalkIInv, Inv, TalksTypes
  <2> HIDE DEF b
  <2>2. DOMAIN q = TalkNames /\ TalkSameBut(p, q, {"amiss"}) /\ q.amiss = p.amiss \cup {r}
    BY <1>1, <1>6 DEF H!Doubt, TalkSameBut, TalkNames
  <2>3. TalkSameBut(b, q, {"finger", "fresh"}) /\ ~q.fresh
    BY <1>1, <1>3, <2>1, <2>2 DEF TalkSameBut, TalkNames
  <2>4. b.active = page.active
    BY <2>1 DEF TalkSameBut, TalkNames
  <2>5. \A x \in H!Refs \ b.amiss : x \notin b.active
    BY <2>1, <2>4, UnderFinger DEF TalkIInv
  <2> QED BY <2>1, <2>2, <2>3, <2>5, TalkFingerIs
<1> QED BY <1>2, <1>3, <1>4, <1>5, <1>6

LEMMA LeaveKeeps == ASSUME H!HeadlessAssumption, TalkIInv, H!LetGo \/ H!ChangeView PROVE TalkIInv'
<1> DEFINE r == page.finger
           p == [page EXCEPT !.finger = None, !.fresh = FALSE]
<1>1. r # None /\ \E q : H!Become(world, q) /\ IF r \notin p.active THEN q = p ELSE q \in {H!End(p, r), H!Doubt(p, {r})}
  <2>1. CASE H!LetGo
    <3> DEFINE q == IF r \notin p.active THEN p
                    ELSE IF p.auth \/ r = DeckKey THEN H!End(p, r) ELSE H!Doubt(p, {r})
    <3>1. r # None /\ H!Become(world, q)
      BY <2>1 DEF H!LetGo
    <3>2. IF r \notin p.active THEN q = p ELSE q \in {H!End(p, r), H!Doubt(p, {r})}
      OBVIOUS
    <3> QED BY <3>1, <3>2
  <2>2. CASE H!ChangeView
    <3> DEFINE q == IF r \notin p.active THEN p ELSE IF r = DeckKey THEN H!End(p, r) ELSE H!Doubt(p, {r})
    <3>1. r # None /\ H!Become(world, q)
      BY <2>2 DEF H!ChangeView
    <3>2. IF r \notin p.active THEN q = p ELSE q \in {H!End(p, r), H!Doubt(p, {r})}
      OBVIOUS
    <3> QED BY <3>1, <3>2
  <2> QED BY <2>1, <2>2
<1>2. PICK q : H!Become(world, q) /\ IF r \notin p.active THEN q = p ELSE q \in {H!End(p, r), H!Doubt(p, {r})}
  BY <1>1
<1>3. Inv(world, q)
  BY <1>1, <1>2, LeaveIs
<1> QED BY <1>2, <1>3, BecomeIs

\* A request is taken; its element is amiss, or the client did what it says.
LEMMA TalkTakenIs ==
  ASSUME TalkIInv, NEW i \in DOMAIN page.posts, NEW v, Client(v), NEW rs,
         \A r \in H!Refs \ {page.posts[i].ref} : v.held[r] = world.held[r],
         \/ page.posts[i].ref \in rs
         \/ /\ page.posts[i].ref \notin {page.posts[j].ref : j \in 1 .. i - 1}
            /\ page.posts[i].ref \in H!Refs =>
                 \/ v.held[page.posts[i].ref] = None
                 \/ page.posts[i].act = "press"
                 \/ page.posts[i].act # "release" /\ v.held[page.posts[i].ref] = world.held[page.posts[i].ref]
  PROVE  Inv(v, H!Doubt([page EXCEPT !.posts = H!RemoveAt(@, i)], rs))
<1> DEFINE m == page.posts[i]
           p == [page EXCEPT !.posts = H!RemoveAt(@, i)]
           q == H!Doubt(p, rs)
<1>1. /\ TalksTypes(p) /\ TalkSameBut(page, p, {"posts"})
      /\ \A x : x # m.ref /\ Silenced(world, page, x) => Silenced(world, p, x)
      /\ /\ m.ref \notin {page.posts[j].ref : j \in 1 .. i - 1} /\ Silenced(world, page, m.ref)
         /\ \/ v.held[m.ref] = None
            \/ m.act = "press"
            \/ m.act # "release" /\ v.held[m.ref] = world.held[m.ref]
         => Silenced(v, p, m.ref)
  BY TalkTakeIs DEF TalkIInv, Inv
<1> HIDE DEF p
<1>2. DOMAIN q = TalkNames /\ TalkSameBut(p, q, {"amiss"}) /\ q.amiss = p.amiss \cup rs
  BY <1>1 DEF H!Doubt, TalksTypes, TalkSameBut, TalkNames
<1> HIDE DEF q
<1>3. TalkSameBut(page, q, {"posts", "amiss"}) /\ q.amiss = page.amiss \cup rs /\ q.posts = p.posts
  BY <1>1, <1>2 DEF TalkSameBut, TalkNames
<1>4. TalksTypes(q)
  BY <1>1, <1>2 DEF TalksTypes, TalkSameBut, TalkNames
<1>5. ASSUME NEW x \in H!Refs \ q.amiss PROVE Orderly(v, q, x)
  <2>1. Orderly(world, page, x) /\ x \notin rs
    BY <1>3 DEF TalkIInv, Inv, AllOrderly
  <2>2. /\ q.active = page.active /\ q.pressed = page.pressed /\ q.finger = page.finger /\ q.slid = page.slid
    BY <1>3 DEF TalkSameBut, TalkNames
  <2>3. ASSUME Silenced(world, page, x) PROVE Silenced(v, q, x)
    <3>1. CASE x # m.ref
      <4>1. Silenced(world, p, x) /\ v.held[x] = world.held[x]
        BY <1>1, <2>3, <3>1
      <4> QED BY <1>3, <4>1, SilencedStays
    <3>2. CASE x = m.ref
      <4>1. Silenced(v, p, x)
        BY <1>1, <1>5, <2>1, <2>3, <3>2
      <4> QED BY <1>3, <4>1, SilencedStays
    <3> QED BY <3>1, <3>2
  <2> QED BY <2>1, <2>2, <2>3 DEF Orderly
<1>6. Drawn(q)
  <2>1. /\ q.fresh = page.fresh /\ q.rows = page.rows /\ q.snap = page.snap /\ q.locks = page.locks
        /\ q.look = page.look /\ q.pressed = page.pressed
    BY <1>3 DEF TalkSameBut, TalkNames
  <2> QED BY <2>1 DEF TalkIInv, Inv, Drawn, H!LocksOf, H!RowLook
<1> QED BY <1>4, <1>5, <1>6 DEF Inv, AllOrderly, q, p

LEMMA LoginIs ==
  ASSUME NEW w, NEW p, Inv(w, p)
  PROVE  Inv(w, H!ShowLogin(p)) /\ Inv(w, H!ShowApp(p))
<1>1. \A q \in {H!ShowLogin(p), H!ShowApp(p)} :
        DOMAIN q = TalkNames /\ TalkSameBut(p, q, {"auth", "polling"}) /\ q.fresh = p.fresh /\ q.amiss = p.amiss
  BY DEF Inv, TalksTypes, TalkSameBut, TalkNames, H!ShowLogin, H!ShowApp
<1>2. \A q \in {H!ShowLogin(p), H!ShowApp(p)} :
        TalkSameBut(p, q, {"auth", "polling", "restarting", "fresh", "answers", "amiss"})
  BY <1>1 DEF TalkSameBut
<1>3. Client(w) /\ \A r \in H!Refs : w.held[r] \in {None, w.held[r]}
  BY DEF Inv
<1> QED BY <1>1, <1>2, <1>3, InvStays

LEMMA HandleKeeps == ASSUME TalkIInv, NEW i \in DOMAIN page.posts, H!Handle(i) \/ H!Lose(i) PROVE TalkIInv'
<1> DEFINE m == page.posts[i]
           p == [page EXCEPT !.posts = H!RemoveAt(@, i)]
           crossed == {m.ref} \cap {page.posts[j].ref : j \in 1 .. i - 1}
<1>1. Client(world)
  BY DEF TalkIInv, Inv
<1>2. Inv(world, H!Doubt(p, {m.ref}))
  BY <1>1, TalkTakenIs
<1>3. CASE H!Become(world, H!ShowLogin(H!Doubt(p, {m.ref})))
  BY <1>2, <1>3, LoginIs, BecomeIs
<1>4. CASE H!Become(world, H!Doubt(p, {m.ref}))
  BY <1>2, <1>4, BecomeIs
<1>5. ASSUME NEW tap \in BOOLEAN, H!Become(H!Obey(world, m, tap), H!Doubt(p, crossed)) PROVE TalkIInv'
  <2> DEFINE v == H!Obey(world, m, tap)
  <2>1. /\ Client(v) /\ \A r \in H!Refs \ {m.ref} : v.held[r] = world.held[r]
        /\ m.act = "release" /\ m.ref \in H!Refs => v.held[m.ref] = None
        /\ m.act \notin {"press", "release"} => v.held = world.held
    BY <1>1, ObeyIs
  <2> HIDE DEF v
  <2>2. \/ m.ref \in crossed
        \/ /\ m.ref \notin {page.posts[j].ref : j \in 1 .. i - 1}
           /\ m.ref \in H!Refs => \/ v.held[m.ref] = None
                                  \/ m.act = "press"
                                  \/ m.act # "release" /\ v.held[m.ref] = world.held[m.ref]
    BY <2>1
  <2>3. Inv(v, H!Doubt(p, crossed))
    <3> HIDE DEF crossed
    <3> QED BY <2>1, <2>2, TalkTakenIs
  <2> QED BY <1>5, <2>3, BecomeIs DEF v
<1>6. \/ H!Become(world, H!ShowLogin(H!Doubt(p, {m.ref}))) \/ H!Become(world, H!Doubt(p, {m.ref}))
      \/ \E tap \in BOOLEAN : H!Become(H!Obey(world, m, tap), H!Doubt(p, crossed))
  BY DEF H!Handle, H!Lose
<1> QED BY <1>3, <1>4, <1>5, <1>6

LEMMA PollKeeps == ASSUME TalkIInv, H!Poll PROVE TalkIInv'
<1> DEFINE p == [page EXCEPT !.answers = Append(@, H!Snapshot(world))]
<1>1. DOMAIN p = TalkNames /\ TalkSameBut(page, p, {"answers"})
  BY DEF TalkIInv, Inv, TalksTypes, TalkSameBut, TalkNames
<1>2. p.fresh = page.fresh /\ p.amiss = page.amiss
  BY <1>1 DEF TalkSameBut, TalkNames
<1>3. TalkSameBut(page, p, {"auth", "polling", "restarting", "fresh", "answers", "amiss"})
  BY <1>1 DEF TalkSameBut
<1>4. H!Become(world, p) \/ H!Become(world, H!ShowLogin(page))
  BY DEF H!Poll
<1> HIDE DEF p
<1>5. Inv(world, p)
  <2>1. Client(world) /\ \A r \in H!Refs : world.held[r] \in {None, world.held[r]}
    BY DEF TalkIInv, Inv
  <2> QED BY <1>1, <1>2, <1>3, <2>1, InvStays DEF TalkIInv
<1> QED BY <1>4, <1>5, LoginIs, BecomeIs DEF TalkIInv

LEMMA TalkRefreshKeeps == ASSUME H!HeadlessAssumption, TalkIInv, NEW i \in DOMAIN page.answers, H!Refresh(i) PROVE TalkIInv'
<1> DEFINE s == page.answers[i]
           p == [page EXCEPT !.answers = H!RemoveAt(@, i), !.snap = s, !.fresh = TRUE]
<1>1. DOMAIN p = TalkNames /\ TalkSameBut(page, p, {"answers", "snap", "fresh"}) /\ p.snap = s
  BY DEF TalkIInv, Inv, TalksTypes, TalkSameBut, TalkNames
<1>2. H!Become(world, H!Render(p, p.snap))
  BY <1>1 DEF H!Refresh
<1> HIDE DEF p
<1>3. TalksTypes(p)
  BY <1>1 DEF TalkIInv, Inv, TalksTypes, TalkSameBut, TalkNames
<1>4. AllOrderly(world, p)
  <2> SUFFICES ASSUME NEW x \in H!Refs \ page.amiss PROVE Orderly(world, p, x)
    BY <1>1 DEF AllOrderly, TalkSameBut, TalkNames
  <2>1. Orderly(world, page, x) /\ TalkSameBut(page, p, TalkNames \ {"finger", "active", "slid", "pressed", "posts"})
    BY <1>1 DEF TalkIInv, Inv, AllOrderly, TalkSameBut, TalkNames
  <2> QED BY <2>1, OrderlyStays
<1> QED BY <1>2, <1>3, <1>4, RenderIs, BecomeIs DEF TalkIInv, Inv

\* The page is drawn again some time after the client changed.
LEMMA UnfreshIs ==
  ASSUME NEW w, NEW v, NEW p, Inv(w, p), Client(v), \A r \in H!Refs : v.held[r] \in {None, w.held[r]}
  PROVE  Inv(v, [p EXCEPT !.fresh = FALSE])
<1> DEFINE q == [p EXCEPT !.fresh = FALSE]
<1>1. DOMAIN q = TalkNames /\ TalkSameBut(p, q, {"fresh"}) /\ q.amiss = p.amiss /\ ~q.fresh
  BY DEF Inv, TalksTypes, TalkSameBut, TalkNames
<1>2. TalkSameBut(p, q, {"auth", "polling", "restarting", "fresh", "answers", "amiss"})
  BY <1>1 DEF TalkSameBut
<1> HIDE DEF q
<1>3. Inv(v, q)
  BY <1>1, <1>2, InvStays
<1> QED BY <1>3 DEF q

LEMMA ChangesKeep == ASSUME TalkIInv, H!ClientChanges PROVE TalkIInv'
<1>1. H!Change(world) /\ page' = H!Settle(world', [page EXCEPT !.fresh = FALSE]) /\ Client(world)
  BY DEF H!ClientChanges, TalkIInv, Inv
<1>2. Client(world') /\ \A r \in H!Refs : world'.held[r] \in {None, world.held[r]}
  <2> DEFINE Good == Client(world') /\ \A r \in H!Refs : world'.held[r] \in {None, world.held[r]}
  <2>1. ASSUME NEW u \in world.here, world' = H!Tell(H!LosesUser(world, u)) PROVE Good
    <3> DEFINE v == H!LosesUser(world, u)
    <3>1. Shaped(v) /\ \A r \in H!Refs : v.held[r] \in {None, world.held[r]}
      BY <1>1 DEF H!LosesUser, Client, Shaped, ClientNames
    <3> HIDE DEF v
    <3> QED BY <2>1, <3>1, TellIs DEF v
  <2>2. ASSUME NEW u, world' = [world EXCEPT !.here = @ \cup {u}] PROVE Good
    <3>1. /\ Shaped(world') /\ world'.held = world.held /\ world'.locked = world.locked
          /\ world'.told = world.told /\ world'.on = world.on
      BY <1>1, <2>2 DEF Client, Shaped, ClientNames
    <3> QED BY <1>1, <3>1, StaysTold
  <2>3. ASSUME NEW t \in H!Targets, world' = [world EXCEPT !.has = IF t \in @ THEN @ \ {t} ELSE @ \cup {t}] PROVE Good
    <3>1. /\ Shaped(world') /\ world'.held = world.held /\ world'.locked = world.locked
          /\ world'.told = world.told /\ world'.on = world.on
      BY <1>1, <2>3 DEF Client, Shaped, ClientNames
    <3> QED BY <1>1, <3>1, StaysTold
  <2>4. ASSUME NEW t, world' = [world EXCEPT !.reply = t] PROVE Good
    <3>1. /\ Shaped(world') /\ world'.held = world.held /\ world'.locked = world.locked
          /\ world'.told = world.told /\ world'.on = world.on
      BY <1>1, <2>4 DEF Client, Shaped, ClientNames
    <3> QED BY <1>1, <3>1, StaysTold
  <2>5. ASSUME world' = H!Tell(H!Reset(world)) PROVE Good
    <3> DEFINE v == H!Reset(world)
    <3>1. Shaped(v) /\ \A r \in H!Refs : v.held[r] = None
      BY <1>1 DEF H!Reset, Client, Shaped, ClientNames
    <3> HIDE DEF v
    <3> QED BY <2>5, <3>1, TellIs DEF v
  <2>6. ASSUME world' = H!Tell([world EXCEPT !.on = FALSE]) PROVE Good
    <3> DEFINE v == [world EXCEPT !.on = FALSE]
    <3>1. Shaped(v) /\ v.held = world.held
      BY <1>1 DEF Client, Shaped, ClientNames
    <3> HIDE DEF v
    <3> QED BY <2>6, <3>1, TellIs DEF v
  <2> QED BY <1>1, <2>1, <2>2, <2>3, <2>4, <2>5, <2>6 DEF H!Change
<1>3. Inv(world', [page EXCEPT !.fresh = FALSE])
  BY <1>2, UnfreshIs DEF TalkIInv
<1> QED BY <1>1, <1>3, SettleIs DEF TalkIInv

LEMMA TalkReconnectKeeps == ASSUME TalkIInv, H!Reconnects PROVE TalkIInv'
<1> DEFINE u == [world EXCEPT !.on = TRUE]
           v == H!Tell(u)
<1>1. H!Become(v, [page EXCEPT !.fresh = FALSE])
  BY DEF H!Reconnects
<1>2. Shaped(u) /\ u.held = world.held
  BY DEF TalkIInv, Inv, Client, Shaped, ClientNames
<1> HIDE DEF u
<1>3. Client(v) /\ v.held = world.held
  BY <1>2, TellIs
<1> HIDE DEF v
<1>4. Inv(v, [page EXCEPT !.fresh = FALSE])
  BY <1>3, UnfreshIs DEF TalkIInv
<1> QED BY <1>1, <1>4, BecomeIs

LEMMA ElsewhereKeeps == ASSUME TalkIInv, NEW t \in H!Targets, H!LockElsewhere(t) PROVE TalkIInv'
<1>1. H!Become(H!Tell(H!ToggleAt(world, t)), [page EXCEPT !.fresh = FALSE])
  BY DEF H!LockElsewhere
<1>2. Client(H!Tell(H!ToggleAt(world, t))) /\ H!Tell(H!ToggleAt(world, t)).held = world.held
  BY TalkToggleIs DEF TalkIInv, Inv, Client
<1>3. Inv(H!Tell(H!ToggleAt(world, t)), [page EXCEPT !.fresh = FALSE])
  BY <1>2, UnfreshIs DEF TalkIInv
<1> QED BY <1>1, <1>3, BecomeIs

LEMMA SessionKeeps == ASSUME TalkIInv, H!SessionEnds \/ H!Login PROVE TalkIInv'
<1>1. Client(world) /\ Inv(world, page)
  BY DEF TalkIInv, Inv
<1>2. ASSUME NEW b \in BOOLEAN
      PROVE  Client([world EXCEPT !.valid = b]) /\ [world EXCEPT !.valid = b].held = world.held
  <2> DEFINE v == [world EXCEPT !.valid = b]
  <2>1. /\ Shaped(v) /\ v.held = world.held /\ v.locked = world.locked /\ v.told = world.told /\ v.on = world.on
    BY <1>1 DEF Client, Shaped, ClientNames
  <2> HIDE DEF v
  <2>2. Client(v)
    BY <1>1, <2>1, StaysTold
  <2> QED BY <2>1, <2>2 DEF v
<1>3. ASSUME NEW b \in BOOLEAN
      PROVE  Inv([world EXCEPT !.valid = b], [page EXCEPT !.fresh = FALSE]) /\ Inv([world EXCEPT !.valid = b], page)
  <2> DEFINE v == [world EXCEPT !.valid = b]
  <2>1. Client(v) /\ v.held = world.held
    BY <1>2
  <2> HIDE DEF v
  <2>2. Inv(v, [page EXCEPT !.fresh = FALSE])
    BY <1>1, <2>1, UnfreshIs
  <2>3. Inv(v, page)
    <3>1. DOMAIN page = TalkNames /\ TalkSameBut(page, page, {"auth", "polling", "restarting", "fresh", "answers", "amiss"})
      BY <1>1 DEF Inv, TalksTypes, TalkSameBut
    <3> QED BY <1>1, <2>1, <3>1, InvStays
  <2> QED BY <2>2, <2>3 DEF v
<1>4. CASE H!SessionEnds
  <2> DEFINE v == [world EXCEPT !.valid = FALSE]
  <2>1. H!Become(v, H!ShowLogin([page EXCEPT !.fresh = FALSE])) \/ H!Become(v, page)
    BY <1>4 DEF H!SessionEnds
  <2>2. Inv(v, page) /\ Inv(v, [page EXCEPT !.fresh = FALSE])
    BY <1>3
  <2> HIDE DEF v
  <2>3. Inv(v, H!ShowLogin([page EXCEPT !.fresh = FALSE]))
    BY <2>2, LoginIs
  <2> QED BY <2>1, <2>2, <2>3, BecomeIs
<1>5. CASE H!Login
  <2> DEFINE v == [world EXCEPT !.valid = TRUE]
  <2>1. H!Become(v, H!ShowApp([page EXCEPT !.fresh = FALSE]))
    BY <1>5 DEF H!Login
  <2>2. Inv(v, [page EXCEPT !.fresh = FALSE])
    BY <1>3
  <2> HIDE DEF v
  <2>3. Inv(v, H!ShowApp([page EXCEPT !.fresh = FALSE]))
    BY <2>2, LoginIs
  <2> QED BY <2>1, <2>3, BecomeIs
<1> QED BY <1>4, <1>5

LEMMA ReloadKeeps == ASSUME TalkIInv, H!Reload PROVE TalkIInv'
<1> DEFINE p == [H!Blank EXCEPT !.posts = page.posts, !.amiss = page.amiss \cup page.active]
<1>1. H!Become(world, p)
  BY DEF H!Reload
<1>2. /\ DOMAIN p = TalkNames /\ p.active = {} /\ p.slid = {} /\ p.pressed = {} /\ p.posts = page.posts
      /\ p.amiss = page.amiss \cup page.active /\ ~p.fresh
  BY DEF H!Blank, TalkNames
<1> HIDE DEF p
<1>3. TalksTypes(p)
  BY <1>2 DEF TalkIInv, Inv, TalksTypes
<1>4. ASSUME NEW x \in H!Refs \ p.amiss PROVE Orderly(world, p, x)
  <2>1. Silenced(world, page, x)
    BY <1>2 DEF TalkIInv, Inv, AllOrderly, Orderly
  <2>2. Silenced(world, p, x)
    BY <1>2, <2>1, SilencedStays
  <2> QED BY <1>2, <2>2 DEF Orderly
<1>5. Inv(world, p)
  BY <1>2, <1>3, <1>4 DEF TalkIInv, Inv, AllOrderly, Drawn
<1> QED BY <1>1, <1>5, BecomeIs

LEMMA TalkRestartKeeps == ASSUME TalkIInv, H!Restart \/ H!ComesBack \/ H!SeesItBack \/ H!GivesUp PROVE TalkIInv'
<1>1. Client(world) /\ Inv(world, page)
  BY DEF TalkIInv, Inv
<1>2. CASE H!Restart
  <2> DEFINE u == H!Tell(H!Reset(world))
             v == [u EXCEPT !.up = FALSE, !.valid = FALSE]
             p == [page EXCEPT !.restarting = TRUE, !.polling = FALSE, !.fresh = FALSE]
  <2>1. H!Become(v, p)
    BY <1>2 DEF H!Restart
  <2>2. Client(v) /\ \A r \in H!Refs : v.held[r] \in {None, world.held[r]}
    <3>1. Shaped(H!Reset(world)) /\ \A r \in H!Refs : H!Reset(world).held[r] = None
      BY <1>1 DEF H!Reset, Client, Shaped, ClientNames
    <3>2. Client(u) /\ \A r \in H!Refs : u.held[r] = None
      BY <3>1, TellIs
    <3> HIDE DEF u
    <3>3. Shaped(v) /\ v.held = u.held /\ v.locked = u.locked /\ v.told = u.told /\ v.on = u.on
      BY <3>2 DEF Client, Shaped, ClientNames
    <3> HIDE DEF v
    <3> QED BY <3>2, <3>3, StaysTold
  <2>3. /\ DOMAIN p = TalkNames /\ TalkSameBut(page, p, {"auth", "polling", "restarting", "fresh", "answers", "amiss"})
        /\ ~p.fresh /\ p.amiss = page.amiss
    BY <1>1 DEF Inv, TalksTypes, TalkSameBut, TalkNames
  <2> HIDE DEF u, v, p
  <2>4. Inv(v, p)
    BY <1>1, <2>2, <2>3, InvStays
  <2> QED BY <2>1, <2>4, BecomeIs
<1>3. CASE H!ComesBack
  <2> DEFINE v == [world EXCEPT !.up = TRUE]
  <2>1. H!Become(v, page)
    BY <1>3 DEF H!ComesBack
  <2>2. Client(v) /\ v.held = world.held
    <3>1. Shaped(v) /\ v.held = world.held /\ v.locked = world.locked /\ v.told = world.told /\ v.on = world.on
      BY <1>1 DEF Client, Shaped, ClientNames
    <3> HIDE DEF v
    <3> QED BY <1>1, <3>1, StaysTold
  <2>3. DOMAIN page = TalkNames /\ TalkSameBut(page, page, {"auth", "polling", "restarting", "fresh", "answers", "amiss"})
    BY <1>1 DEF Inv, TalksTypes, TalkSameBut
  <2> HIDE DEF v
  <2>4. Inv(v, page)
    BY <1>1, <2>2, <2>3, InvStays
  <2> QED BY <2>1, <2>4, BecomeIs
<1>4. \A b \in BOOLEAN : Inv(world, [page EXCEPT !.restarting = FALSE, !.polling = b])
  <2> SUFFICES ASSUME NEW b \in BOOLEAN PROVE Inv(world, [page EXCEPT !.restarting = FALSE, !.polling = b])
    OBVIOUS
  <2> DEFINE p == [page EXCEPT !.restarting = FALSE, !.polling = b]
  <2>1. /\ DOMAIN p = TalkNames /\ TalkSameBut(page, p, {"auth", "polling", "restarting", "fresh", "answers", "amiss"})
        /\ p.fresh = page.fresh /\ p.amiss = page.amiss
    BY <1>1 DEF Inv, TalksTypes, TalkSameBut, TalkNames
  <2> HIDE DEF p
  <2>2. Inv(world, p)
    BY <1>1, <2>1, InvStays
  <2> QED BY <2>2 DEF p
<1>5. Inv(world, [page EXCEPT !.restarting = FALSE])
  <2> DEFINE p == [page EXCEPT !.restarting = FALSE]
  <2>1. /\ DOMAIN p = TalkNames /\ TalkSameBut(page, p, {"auth", "polling", "restarting", "fresh", "answers", "amiss"})
        /\ p.fresh = page.fresh /\ p.amiss = page.amiss
    BY <1>1 DEF Inv, TalksTypes, TalkSameBut, TalkNames
  <2> HIDE DEF p
  <2>2. Inv(world, p)
    BY <1>1, <2>1, InvStays
  <2> QED BY <2>2 DEF p
<1>6. CASE H!SeesItBack
  <2>1. \/ H!Become(world, [page EXCEPT !.restarting = FALSE, !.polling = TRUE])
        \/ H!Become(world, H!ShowLogin([page EXCEPT !.restarting = FALSE]))
    BY <1>6 DEF H!SeesItBack
  <2> QED BY <1>4, <1>5, <2>1, LoginIs, BecomeIs
<1>7. CASE H!GivesUp
  BY <1>5, <1>7, BecomeIs DEF H!GivesUp
<1> QED BY <1>2, <1>3, <1>6, <1>7

LEMMA TalkKept == ASSUME H!HeadlessAssumption, TalkIInv, [H!Next]_(H!vars) PROVE TalkIInv'
<1>1. CASE UNCHANGED H!vars
  BY <1>1 DEF H!vars, TalkIInv
<1>2. CASE \E r \in H!Refs : H!Press(r)
  BY <1>2, TalkPressKeeps
<1>3. CASE H!Slide
  BY <1>3, TalkSlideKeeps
<1>4. CASE H!LetGo \/ H!ChangeView
  BY <1>4, LeaveKeeps
<1>5. CASE H!Poll
  BY <1>5, PollKeeps
<1>6. CASE \E i \in DOMAIN page.posts : H!Handle(i) \/ H!Lose(i)
  BY <1>6, HandleKeeps
<1>7. CASE \E i \in DOMAIN page.answers : H!Refresh(i)
  BY <1>7, TalkRefreshKeeps
<1>8. CASE H!ClientChanges
  BY <1>8, ChangesKeep
<1>9. CASE H!SessionEnds \/ H!Login
  BY <1>9, SessionKeeps
<1>10. CASE H!Reload
  BY <1>10, ReloadKeeps
<1>11. CASE H!Restart \/ H!ComesBack \/ H!SeesItBack \/ H!GivesUp
  BY <1>11, TalkRestartKeeps
<1>12. CASE \E t \in H!Targets : H!LockElsewhere(t)
  BY <1>12, ElsewhereKeeps
<1>13. CASE H!Reconnects
  BY <1>13, TalkReconnectKeeps
<1> QED BY <1>1, <1>2, <1>3, <1>4, <1>5, <1>6, <1>7, <1>8, <1>9, <1>10, <1>11, <1>12, <1>13 DEF H!Next

(***************************************************************************)
(* At rest.                                                                *)
(***************************************************************************)
LEMMA Silent ==
  ASSUME H!HeadlessAssumption, TalkIInv, H!AtRest, NEW r \in H!Refs \ page.amiss
  PROVE  world.held[r] = None /\ r \notin page.pressed
<1>1. Orderly(world, page, r) /\ page.finger = None /\ page.posts = <<>> /\ r # None
  BY DEF TalkIInv, Inv, AllOrderly, H!AtRest, H!HeadlessAssumption
<1>2. r \notin page.active /\ r \notin page.pressed
  BY <1>1 DEF Orderly
<1>3. DOMAIN page.posts = {}
  BY <1>1, EmptySeq
<1> QED BY <1>1, <1>2, <1>3 DEF Orderly, Silenced, Released

LEMMA RowsTell ==
  ASSUME H!HeadlessAssumption, TalkIInv, H!AtRest, page.fresh, world.on, page.snap = H!Snapshot(world),
         NEW t \in page.rows \ page.amiss
  PROVE  /\ page.look[t].locked <=> t \in world.locked
         /\ page.look[t].on <=> t \in world.locked \cup H!Held(world)
<1> DEFINE s == H!Snapshot(world)
<1>1. /\ s.on = world.on /\ s.rows = world.has /\ s.locked = world.locked \cap world.has
      /\ s.held = H!Held(world) \cap world.has
  BY DEF H!Snapshot
<1>2. /\ page.rows = s.rows /\ page.locks = H!LocksOf(page, s)
      /\ \A x \in page.rows \cap H!Targets : page.look[x] = H!RowLook(page, s, x)
  BY DEF TalkIInv, Inv, Drawn
<1> HIDE DEF s
<1>3. t \in world.has /\ t \in H!Targets
  BY <1>1, <1>2 DEF TalkIInv, Inv, Client, Shaped
<1>4. t \in H!Refs /\ t # Reply
  BY <1>3 DEF H!HeadlessAssumption, H!Refs
<1>5. t \notin page.pressed
  BY <1>4, Silent
<1>6. t \in page.locks <=> t \in s.locked
  BY <1>1, <1>2, <1>4 DEF H!LocksOf
<1>7. page.look[t] = H!RowLook(page, s, t)
  BY <1>2, <1>3
<1>8. /\ page.look[t].locked = (t \in s.locked \cup page.locks)
      /\ page.look[t].on = (t \in s.locked \cup page.locks \/ t \in s.held \cup page.pressed)
  BY <1>7 DEF H!RowLook
<1> QED BY <1>1, <1>3, <1>5, <1>6, <1>8

\* When everything a page said has arrived the client holds no target for it,
\* and a page that drew the client's state tells its talk (TalkAsShown).
THEOREM TalkIsShown == ASSUME H!HeadlessAssumption PROVE H!Spec => []H!TalkAsShown
<1>1. H!Init => TalkIInv
  BY InitOrderly
<1>2. TalkIInv /\ [H!Next]_(H!vars) => TalkIInv'
  BY TalkKept
<1>3. TalkIInv => H!TalkAsShown
  <2>1. TalkIInv => H!ServerToldTheTalk
    BY DEF H!ServerToldTheTalk, TalkIInv, Inv, Client
  <2> QED BY <2>1, Silent, RowsTell DEF H!TalkAsShown, H!SilentWhenLetGo, H!RowsTellTheTalk
<1> QED BY <1>1, <1>2, <1>3, PTL DEF H!Spec

-----------------------------------------------------------------------------
(***************************************************************************)
(* Proofs about the settings of a headless client, whatever its file says: *)
(* what was saved last is what the form said, and a form that is up to     *)
(* date shows what the client will run with.                               *)
(***************************************************************************)

SetNames == {"file", "running", "form", "raw", "shown", "edited", "redrawn", "calls"}
CallNames == {"k", "sent", "docs", "ok"}

\* Nothing but the fields in S differs.
SetSameBut(p, q, S) == \A n \in SetNames \ S : q[n] = p[n]

\* The client runs with a complete document; nobody stores the placeholder.
Sound(w) ==
  /\ DOMAIN w = {"file", "running", "meant"} /\ DOMAIN w.file = F!Keys /\ DOMAIN w.running = F!Keys
  /\ w.file["password"] # F!Hidden /\ w.running["password"] # F!Hidden
  /\ \A f \in F!Keys : w.running[f] # F!Absent
\* The first half of SettingsKept.
Saved(w) ==
  w.meant # None =>
    \A f \in DOMAIN w.meant :
      F!Effective(w.file)[f] = w.meant[f] \/ (f = "password" /\ w.meant[f] \in {F!Hidden, F!Empty})

\* Every field shows something; the answer to a load is of one moment; what is
\* sent was collected from the page as it was then.
Filled(p) == DOMAIN p.form = F!Fields /\ \A f \in F!Fields : p.form[f] # F!Absent
Complete(doc) == \A f \in F!Keys : doc[f] # F!Absent
Honest(c) ==
  /\ DOMAIN c = CallNames /\ c.k \in {"load", "save"}
  /\ c.k = "load" /\ c.sent => c.docs.editor = F!Merged(c.docs.file, c.docs.running) /\ Complete(c.docs.running)
  /\ c.k = "save" => c.docs.doc = F!Collect(c.docs.page) /\ Filled(c.docs.page)
\* A field that was not edited is as it was drawn from the page's documents.
AsDrawn(p) ==
  p.shown => /\ Complete(p.running)
             /\ ~p.redrawn => \A f \in F!Fields \ p.edited : p.form[f] = F!Drawn(F!Merged(p.file, p.running))[f]
Sane(p) ==
  /\ DOMAIN p = SetNames /\ Filled(p) /\ AsDrawn(p)
  /\ IsSeq(p.calls) /\ \A i \in DOMAIN p.calls : Honest(p.calls[i])

SetIInv == Sound(world) /\ Saved(world) /\ Sane(page)

(***************************************************************************)
(* Documents.                                                              *)
(***************************************************************************)
LEMMA KeysAre ==
  /\ F!Fields \subseteq F!Keys /\ "password" \in F!Fields /\ "outputs" \in F!Fields /\ "other" \notin F!Fields
  /\ F!Absent # F!Empty /\ F!Absent # F!Hidden /\ F!Empty # F!Hidden
  BY DEF F!Fields, F!Keys, F!Absent, F!Empty, F!Hidden

LEMMA RedactIs ==
  ASSUME NEW doc, DOMAIN doc = F!Keys
  PROVE  /\ DOMAIN F!Redact(doc) = F!Keys
         /\ \A f \in F!Keys : F!Redact(doc)[f] = IF f = "password" /\ doc[f] \notin {F!Absent, F!Empty} THEN F!Hidden ELSE doc[f]
  BY KeysAre DEF F!Redact

LEMMA EffectiveIs ==
  ASSUME NEW doc, NEW f \in F!Keys
  PROVE  /\ F!Effective(doc)[f] = (IF doc[f] = F!Absent THEN F!Default[f] ELSE doc[f])
         /\ F!Effective(doc)[f] # F!Absent /\ DOMAIN F!Effective(doc) = F!Keys
         /\ F!Default[f] = (IF f = "flag" THEN "on" ELSE F!Empty) /\ DOMAIN F!Default = F!Keys
  BY DEF F!Effective, F!Default, F!Absent, F!Empty

LEMMA DrawnIs ==
  ASSUME NEW doc
  PROVE  /\ DOMAIN F!Drawn(doc) = F!Fields
         /\ \A f \in F!Fields : F!Drawn(doc)[f] # F!Absent /\ (doc[f] # F!Absent => F!Drawn(doc)[f] = doc[f])
  BY DEF F!Drawn, F!Absent, F!Empty

\* What is written for a field is what the form says, unless it leaves it out.
LEMMA WrittenAsShown ==
  ASSUME NEW w, Sound(w), NEW p, Filled(p), p.raw = None, NEW f \in F!Fields \ F!Unsaid(p),
         f = "password" => p.form[f] \notin {F!Hidden, F!Empty}
  PROVE  F!Effective(F!Written(F!Collect(p), w.file, w.running))[f] = p.form[f]
<1> DEFINE doc == F!Collect(p)
           new == F!Written(doc, w.file, w.running)
<1>1. f \in F!Keys /\ p.form[f] # F!Absent
  BY KeysAre DEF Filled
<1>2. doc[f] = F!Value(p, f)
  BY <1>1 DEF F!Collect
<1>3. new[f] = (CASE F!Section(f) /\ doc[f] = F!Absent -> w.file[f]
                  [] f = "password" -> F!Secret(doc[f], w.file[f], w.running[f])
                  [] f = "text" /\ doc[f] = F!Empty -> F!Absent
                  [] OTHER -> doc[f])
  BY <1>1 DEF F!Written
<1>4. F!Effective(new)[f] = (IF new[f] = F!Absent THEN F!Default[f] ELSE new[f])
  BY <1>1, EffectiveIs
<1>5. /\ F!Default[f] = (IF f = "flag" THEN "on" ELSE F!Empty)
      /\ F!Redact(F!Default)[f] = F!Default[f]
  <2>1. \A g \in F!Keys : F!Default[g] = (IF g = "flag" THEN "on" ELSE F!Empty) /\ DOMAIN F!Default = F!Keys
    BY EffectiveIs
  <2> QED BY <1>1, <2>1, RedactIs
<1> SUFFICES F!Effective(new)[f] = p.form[f]
  OBVIOUS
<1> HIDE DEF doc, new
<1>6. CASE f \in {"text", "flag", "password"}
  <2>1. F!LeftOut(p, f) => p.running[f] = F!Redact(F!Default)[f]
    BY <1>6 DEF F!Unsaid
  <2>2. doc[f] = IF F!LeftOut(p, f) THEN p.file[f] ELSE p.form[f]
    BY <1>2, <1>6 DEF F!Value
  <2>3. F!LeftOut(p, f) => doc[f] = F!Absent /\ p.form[f] = F!Default[f]
    BY <1>5, <2>1, <2>2 DEF F!LeftOut
  <2>4. ~F!Section(f)
    BY <1>6 DEF F!Section
  <2>5. CASE f = "password"
    <3>1. ~F!LeftOut(p, f)
      BY <1>5, <2>3, <2>5
    <3>2. new[f] = F!Secret(doc[f], w.file[f], w.running[f]) /\ doc[f] = p.form[f]
      BY <1>3, <2>2, <2>4, <2>5, <3>1
    <3> QED BY <1>1, <1>4, <2>5, <3>2 DEF F!Secret
  <2>6. CASE f # "password"
    <3>1. new[f] = (IF f = "text" /\ doc[f] = F!Empty THEN F!Absent ELSE doc[f])
      BY <1>3, <2>4, <2>6
    <3>2. CASE F!LeftOut(p, f)
      BY <1>4, <2>3, <3>1, <3>2
    <3>3. CASE ~F!LeftOut(p, f)
      BY <1>1, <1>4, <1>5, <2>2, <3>1, <3>3
    <3> QED BY <3>2, <3>3
  <2> QED BY <2>5, <2>6
<1>7. CASE f = "outputs"
  <2>1. doc[f] # F!Absent
    BY <1>2, <1>7 DEF F!Unsaid
  <2>2. doc[f] = p.form[f]
    BY <1>2, <1>7, <2>1 DEF F!Value
  <2>3. new[f] = doc[f]
    BY <1>3, <1>7, <2>1 DEF F!Section
  <2> QED BY <1>4, <2>1, <2>2, <2>3
<1>8. CASE f = "decks"
  <2>1. doc[f] = IF p.form[f] = F!Empty THEN F!Absent ELSE p.form[f]
    BY <1>2, <1>8 DEF F!Value
  <2>2. new[f] = doc[f]
    BY <1>3, <1>8 DEF F!Section
  <2> QED BY <1>1, <1>4, <1>5, <1>8, <2>1, <2>2
<1>9. f \in {"text", "flag", "password"} \/ f = "outputs" \/ f = "decks"
  BY DEF F!Fields
<1> QED BY <1>6, <1>7, <1>8, <1>9

LEMMA WrittenSound ==
  ASSUME NEW w, Sound(w), NEW doc
  PROVE  LET v == [w EXCEPT !.file = F!Written(doc, @, w.running)] IN Sound(v)
<1> DEFINE new == F!Written(doc, w.file, w.running)
<1>1. DOMAIN new = F!Keys
  BY DEF F!Written
<1>2. new["password"] = F!Secret(doc["password"], w.file["password"], w.running["password"])
  BY KeysAre DEF F!Written, F!Section
<1>3. new["password"] # F!Hidden
  BY <1>2 DEF F!Secret, Sound
<1> HIDE DEF new
<1> QED BY <1>1, <1>3 DEF Sound, new

(***************************************************************************)
(* The page.                                                               *)
(***************************************************************************)
\* A call is added.
LEMMA SendIs ==
  ASSUME NEW p, Sane(p), NEW c, Honest(c)
  PROVE  Sane(F!Send(p, c))
<1> DEFINE q == F!Send(p, c)
<1>1. DOMAIN q = SetNames /\ SetSameBut(p, q, {"calls"}) /\ q.calls = Append(p.calls, c)
  BY DEF F!Send, Sane, SetSameBut, SetNames
<1> HIDE DEF q
<1>2. /\ IsSeq(q.calls) /\ Len(p.calls) \in Nat /\ DOMAIN p.calls = 1 .. Len(p.calls)
      /\ DOMAIN q.calls = 1 .. Len(p.calls) + 1 /\ q.calls[Len(p.calls) + 1] = c
      /\ \A i \in 1 .. Len(p.calls) : q.calls[i] = p.calls[i]
  BY <1>1, AppendIs DEF Sane
<1>3. ASSUME NEW i \in DOMAIN q.calls PROVE Honest(q.calls[i])
  <2>1. i \in 1 .. Len(p.calls) \/ i = Len(p.calls) + 1
    BY <1>2
  <2> QED BY <1>2, <2>1 DEF Sane
<1>4. Filled(q) /\ AsDrawn(q)
  BY <1>1 DEF Sane, SetSameBut, SetNames, Filled, AsDrawn
<1> QED BY <1>1, <1>2, <1>3, <1>4 DEF Sane, q

LEMMA SetLoadIs == ASSUME NEW p, Sane(p) PROVE Sane(F!Load(p))
<1>1. Honest(F!Call("load", None))
  BY DEF Honest, F!Call, CallNames
<1> QED BY <1>1, SendIs DEF F!Load

\* A call is taken away.
LEMMA SetTakeIs ==
  ASSUME NEW p, Sane(p), NEW i \in DOMAIN p.calls
  PROVE  Sane([p EXCEPT !.calls = F!RemoveAt(@, i)])
<1> DEFINE q == [p EXCEPT !.calls = F!RemoveAt(@, i)]
<1>1. DOMAIN q = SetNames /\ SetSameBut(p, q, {"calls"}) /\ q.calls = F!RemoveAt(p.calls, i)
  BY DEF Sane, SetSameBut, SetNames
<1> HIDE DEF q
<1>2. /\ IsSeq(q.calls) /\ Len(p.calls) \in Nat /\ DOMAIN p.calls = 1 .. Len(p.calls)
      /\ DOMAIN q.calls = 1 .. Len(p.calls) - 1
      /\ \A j \in 1 .. Len(p.calls) - 1 : q.calls[j] = IF j < i THEN p.calls[j] ELSE p.calls[j + 1]
  BY <1>1, RemoveIs DEF Sane, F!RemoveAt
<1>3. ASSUME NEW j \in DOMAIN q.calls PROVE Honest(q.calls[j])
  <2>1. j \in DOMAIN p.calls /\ j + 1 \in DOMAIN p.calls /\ q.calls[j] \in {p.calls[j], p.calls[j + 1]}
    BY <1>2
  <2> QED BY <2>1 DEF Sane
<1>4. Filled(q) /\ AsDrawn(q)
  BY <1>1 DEF Sane, SetSameBut, SetNames, Filled, AsDrawn
<1> QED BY <1>1, <1>2, <1>3, <1>4 DEF Sane, q

\* A call is answered by the client.
LEMMA MarkIs ==
  ASSUME NEW p, Sane(p), NEW i \in DOMAIN p.calls, NEW c, Honest(c)
  PROVE  Sane([p EXCEPT !.calls[i] = c])
<1> DEFINE q == [p EXCEPT !.calls[i] = c]
<1>1. DOMAIN q = SetNames /\ SetSameBut(p, q, {"calls"}) /\ q.calls = [p.calls EXCEPT ![i] = c]
  BY DEF Sane, SetSameBut, SetNames
<1> HIDE DEF q
<1>2. PICK V : p.calls \in Seq(V)
  BY DEF Sane, IsSeq
<1> DEFINE X == V \cup {c}
<1>3. p.calls \in Seq(X) /\ c \in X /\ i \in 1 .. Len(p.calls) /\ DOMAIN p.calls = 1 .. Len(p.calls)
  BY <1>2, SeqMonotonic, LenProperties
<1> HIDE DEF X
<1>4. q.calls \in Seq(X) /\ \A j \in DOMAIN q.calls : j \in DOMAIN p.calls /\ q.calls[j] \in {c, p.calls[j]}
  BY <1>1, <1>3, ExceptSeq
<1>5. IsSeq(q.calls)
  BY <1>4 DEF IsSeq
<1>6. \A j \in DOMAIN q.calls : Honest(q.calls[j])
  BY <1>4 DEF Sane
<1>7. Filled(q) /\ AsDrawn(q)
  BY <1>1 DEF Sane, SetSameBut, SetNames, Filled, AsDrawn
<1> QED BY <1>1, <1>5, <1>6, <1>7 DEF Sane, q

\* The form and the documents change, the calls do not.
LEMMA SaneBut ==
  ASSUME NEW p, NEW q, Sane(p), DOMAIN q = SetNames, q.calls = p.calls, Filled(q), AsDrawn(q)
  PROVE  Sane(q)
  BY DEF Sane

\* The answer to a load is drawn.
LEMMA LoadedIs ==
  ASSUME NEW p, Sane(p), NEW docs, docs.editor = F!Merged(docs.file, docs.running), Complete(docs.running)
  PROVE  Sane([F!Loaded(p, docs) EXCEPT !.shown = TRUE])
<1> DEFINE d == F!DrawForm([p EXCEPT !.file = docs.file, !.running = docs.running, !.redrawn = FALSE], docs.editor)
           l == F!Loaded(p, docs)
           q == [l EXCEPT !.shown = TRUE]
<1>1. /\ DOMAIN d = SetNames /\ d.calls = p.calls /\ d.file = docs.file /\ d.running = docs.running
      /\ d.form = F!Drawn(docs.editor) /\ d.edited = {} /\ d.redrawn = FALSE
  BY DEF Sane, SetNames, F!DrawForm
<1>2. l = IF p.raw = None THEN d ELSE [d EXCEPT !.raw = F!Collect([d EXCEPT !.raw = None])]
  BY DEF F!Loaded
<1> HIDE DEF d, l
<1>3. DOMAIN l = SetNames /\ SetSameBut(d, l, {"raw"})
  BY <1>1, <1>2 DEF SetSameBut, SetNames
<1>4. DOMAIN q = SetNames /\ SetSameBut(d, q, {"raw", "shown"})
  BY <1>3 DEF SetSameBut, SetNames
<1> HIDE DEF q
<1>5. /\ q.calls = p.calls /\ q.file = docs.file /\ q.running = docs.running
      /\ q.form = F!Drawn(docs.editor) /\ q.edited = {} /\ q.redrawn = FALSE
  BY <1>1, <1>4 DEF SetSameBut, SetNames
<1>6. Filled(q)
  BY <1>5, DrawnIs DEF Filled
<1>7. AsDrawn(q)
  BY <1>5 DEF AsDrawn
<1> QED BY <1>4, <1>5, <1>6, <1>7, SaneBut DEF q, l

(***************************************************************************)
(* The steps.                                                              *)
(***************************************************************************)
LEMMA InitSane == ASSUME F!SettingsAssumption, F!Init PROVE SetIInv
<1>1. PICK new \in Files, old \in Files : world = [file |-> new, running |-> F!Effective(old), meant |-> None]
  BY DEF F!Init
<1>2. \A f \in F!Keys : /\ F!Effective(old)[f] = (IF old[f] = F!Absent THEN F!Default[f] ELSE old[f])
                        /\ F!Effective(old)[f] # F!Absent /\ F!Default[f] = IF f = "flag" THEN "on" ELSE F!Empty
  BY EffectiveIs
<1>3. "password" \in F!Keys /\ F!Effective(old)["password"] # F!Hidden
  BY <1>2, KeysAre DEF F!SettingsAssumption
<1>4. DOMAIN F!Effective(old) = F!Keys
  BY DEF F!Effective
<1>5. Sound(world) /\ Saved(world)
  BY <1>1, <1>2, <1>3, <1>4 DEF Sound, Saved, F!SettingsAssumption
<1>6. /\ DOMAIN page = SetNames /\ page.calls = <<>> /\ page.shown = FALSE /\ page.form = F!Drawn(F!Unlisted)
  BY DEF F!Init, F!Closed, SetNames
<1>7. IsSeq(page.calls) /\ DOMAIN page.calls = {}
  <2>1. <<>> \in Seq({}) /\ DOMAIN <<>> = {}
    BY EmptySeq
  <2> QED BY <1>6, <2>1 DEF IsSeq
<1>8. Sane(page)
  BY <1>6, <1>7, DrawnIs DEF Sane, Filled, AsDrawn
<1> QED BY <1>5, <1>8 DEF SetIInv

LEMMA EditSane == ASSUME SetIInv, NEW f \in F!Fields, F!Edit(f) PROVE SetIInv'
<1>1. PICK v \in F!Input[f] : page' = [page EXCEPT !.form[f] = v, !.edited = @ \cup {f}]
  BY DEF F!Edit
<1>2. v # F!Absent
  BY DEF F!Input, F!Absent, F!Empty
<1>3. /\ DOMAIN page' = SetNames /\ SetSameBut(page, page', {"form", "edited"})
      /\ page'.form = [page.form EXCEPT ![f] = v] /\ page'.edited = page.edited \cup {f}
  BY <1>1 DEF SetIInv, Sane, SetSameBut, SetNames
<1>4. Filled(page')
  BY <1>2, <1>3 DEF SetIInv, Sane, Filled
<1>5. AsDrawn(page')
  BY <1>3 DEF SetIInv, Sane, Filled, AsDrawn, SetSameBut, SetNames
<1>6. page'.calls = page.calls
  BY <1>3 DEF SetSameBut, SetNames
<1> QED BY <1>3, <1>4, <1>5, <1>6, SaneBut DEF SetIInv, F!Edit

LEMMA EditRawSane == ASSUME SetIInv, NEW f \in F!Fields, F!EditRaw(f) PROVE SetIInv'
<1>1. PICK v : page' = [page EXCEPT !.raw[f] = v, !.edited = @ \cup {f}]
  BY DEF F!EditRaw
<1>2. /\ DOMAIN page' = SetNames /\ SetSameBut(page, page', {"raw", "edited"})
      /\ page'.edited = page.edited \cup {f}
  BY <1>1 DEF SetIInv, Sane, SetSameBut, SetNames
<1>3. Filled(page') /\ AsDrawn(page') /\ page'.calls = page.calls
  BY <1>2 DEF SetIInv, Sane, Filled, AsDrawn, SetSameBut, SetNames
<1> QED BY <1>2, <1>3, SaneBut DEF SetIInv, F!EditRaw

LEMMA ToggleRawSane == ASSUME SetIInv, F!ToggleRaw PROVE SetIInv'
<1>1. CASE page' = [page EXCEPT !.raw = F!Collect(page)]
  <2>1. DOMAIN page' = SetNames /\ SetSameBut(page, page', {"raw"})
    BY <1>1 DEF SetIInv, Sane, SetSameBut, SetNames
  <2>2. Filled(page') /\ AsDrawn(page') /\ page'.calls = page.calls
    BY <2>1 DEF SetIInv, Sane, Filled, AsDrawn, SetSameBut, SetNames
  <2> QED BY <2>1, <2>2, SaneBut DEF SetIInv, F!ToggleRaw
<1>2. CASE page' = F!DrawForm([page EXCEPT !.file = page.raw, !.raw = None, !.redrawn = TRUE], page.raw)
  <2>1. /\ DOMAIN page' = SetNames /\ SetSameBut(page, page', {"file", "raw", "redrawn", "form", "edited"})
        /\ page'.form = F!Drawn(page.raw) /\ page'.redrawn = TRUE
    BY <1>2 DEF SetIInv, Sane, SetSameBut, SetNames, F!DrawForm
  <2>2. Filled(page')
    BY <2>1, DrawnIs DEF Filled
  <2>3. AsDrawn(page') /\ page'.calls = page.calls
    BY <2>1 DEF SetIInv, Sane, AsDrawn, SetSameBut, SetNames
  <2> QED BY <2>1, <2>2, <2>3, SaneBut DEF SetIInv, F!ToggleRaw
<1> QED BY <1>1, <1>2 DEF F!ToggleRaw

LEMMA SaveSane == ASSUME SetIInv, F!Save PROVE SetIInv'
<1>1. Honest(F!Call("save", [doc |-> F!Collect(page), page |-> page]))
  BY DEF Honest, F!Call, CallNames, SetIInv, Sane
<1>2. Sane(page')
  BY <1>1, SendIs DEF SetIInv, F!Save
<1> QED BY <1>2 DEF SetIInv, F!Save

LEMMA HandleSane == ASSUME SetIInv, NEW i \in DOMAIN page.calls, F!Handle(i) PROVE SetIInv'
<1> DEFINE c == page.calls[i]
           docs == [file |-> F!Redact(world.file), running |-> F!Redact(world.running),
                    editor |-> F!Merged(F!Redact(world.file), F!Redact(world.running))]
           a == [page EXCEPT !.calls[i].sent = TRUE]
<1>0. Honest(c) /\ Sane(page) /\ Sound(world) /\ Saved(world)
  BY DEF SetIInv, Sane
<1>1. CASE c.k = "load" /\ page' = [a EXCEPT !.calls[i].docs = docs] /\ UNCHANGED world
  <2> DEFINE e == [c EXCEPT !.sent = TRUE, !.docs = docs]
  <2>1. page' = [page EXCEPT !.calls[i] = e]
    BY <1>1, <1>0 DEF Sane, SetNames
  <2>2. Complete(F!Redact(world.running))
    BY <1>0, RedactIs, KeysAre DEF Sound, Complete
  <2>3. Honest(e)
    BY <1>0, <1>1, <2>2 DEF Honest, CallNames
  <2> HIDE DEF e, c, a
  <2>4. Sane(page')
    BY <1>0, <2>1, <2>3, MarkIs
  <2> QED BY <1>0, <1>1, <2>4 DEF SetIInv
<1>2. CASE /\ c.k = "save" /\ page' = a
           /\ world' = [world EXCEPT !.file = F!Written(c.docs.doc, @, world.running), !.meant = F!Meaning(c.docs.page)]
  <2> DEFINE e == [c EXCEPT !.sent = TRUE]
             p == c.docs.page
  <2>1. page' = [page EXCEPT !.calls[i] = e]
    BY <1>2
  <2>2. Honest(e)
    BY <1>0, <1>2 DEF Honest, CallNames
  <2>3. c.docs.doc = F!Collect(p) /\ Filled(p)
    BY <1>0, <1>2 DEF Honest
  <2>4. /\ world'.file = F!Written(F!Collect(p), world.file, world.running) /\ world'.meant = F!Meaning(p)
        /\ world' = [[world EXCEPT !.file = F!Written(F!Collect(p), @, world.running)] EXCEPT !.meant = F!Meaning(p)]
    BY <1>0, <1>2, <2>3 DEF Sound
  <2> HIDE DEF e, c, a, p
  <2>5. Sane(page')
    BY <1>0, <2>1, <2>2, MarkIs
  <2>6. Sound(world')
    BY <1>0, <2>4, WrittenSound DEF Sound
  <2>7. Saved(world')
    <3>1. SUFFICES ASSUME NEW f \in DOMAIN F!Meaning(p), ~(f = "password" /\ F!Meaning(p)[f] \in {F!Hidden, F!Empty})
                   PROVE  F!Effective(F!Written(F!Collect(p), world.file, world.running))[f] = F!Meaning(p)[f]
      BY <2>4 DEF Saved
    <3>2. p.raw = None /\ f \in F!Fields \ F!Unsaid(p) /\ F!Meaning(p)[f] = p.form[f]
      BY <3>1 DEF F!Meaning
    <3> QED BY <1>0, <2>3, <3>1, <3>2, WrittenAsShown
  <2> QED BY <2>5, <2>6, <2>7 DEF SetIInv
<1> QED BY <1>1, <1>2 DEF F!Handle

LEMMA AnswerSane == ASSUME SetIInv, NEW i \in DOMAIN page.calls, F!Answer(i) PROVE SetIInv'
<1> DEFINE c == page.calls[i]
           rest == [page EXCEPT !.calls = F!RemoveAt(@, i)]
<1>1. Sane(rest)
  BY SetTakeIs DEF SetIInv
<1>2. c.sent /\ Honest(c) /\ UNCHANGED world
  BY DEF F!Answer, SetIInv, Sane
<1>3. page' = IF c.k = "load" THEN [F!Loaded(rest, c.docs) EXCEPT !.shown = TRUE] ELSE F!Load(rest)
  BY DEF F!Answer
<1> HIDE DEF c, rest
<1>4. Sane(page')
  <2>1. CASE c.k = "load"
    BY <1>1, <1>2, <1>3, <2>1, LoadedIs DEF Honest
  <2>2. CASE c.k # "load"
    BY <1>1, <1>3, <2>2, SetLoadIs
  <2> QED BY <2>1, <2>2
<1> QED BY <1>2, <1>4 DEF SetIInv

LEMMA WorldSane == ASSUME F!SettingsAssumption, SetIInv, F!WriteElsewhere \/ F!Restart PROVE SetIInv'
<1>1. CASE F!WriteElsewhere
  <2>1. PICK new \in Files : world' = [world EXCEPT !.file = new, !.meant = None]
    BY <1>1 DEF F!WriteElsewhere
  <2>2. Sound(world') /\ Saved(world')
    BY <2>1 DEF SetIInv, Sound, Saved, F!SettingsAssumption
  <2> QED BY <1>1, <2>2 DEF SetIInv, F!WriteElsewhere
<1>2. CASE F!Restart
  <2>1. world' = [world EXCEPT !.running = F!Effective(world.file)]
    BY <1>2 DEF F!Restart
  <2>2. \A f \in F!Keys : /\ F!Effective(world.file)[f] = (IF world.file[f] = F!Absent THEN F!Default[f] ELSE world.file[f])
                          /\ F!Effective(world.file)[f] # F!Absent /\ F!Default[f] = IF f = "flag" THEN "on" ELSE F!Empty
    BY EffectiveIs
  <2>3. F!Effective(world.file)["password"] # F!Hidden /\ DOMAIN F!Effective(world.file) = F!Keys
    BY <2>2, KeysAre DEF SetIInv, Sound, F!Effective
  <2>4. world'.file = world.file /\ world'.meant = world.meant /\ world'.running = F!Effective(world.file)
        /\ DOMAIN world' = {"file", "running", "meant"}
    BY <2>1 DEF SetIInv, Sound
  <2>5. Sound(world')
    BY <2>2, <2>3, <2>4 DEF SetIInv, Sound
  <2>6. Saved(world')
    BY <2>4 DEF SetIInv, Saved
  <2> QED BY <1>2, <2>5, <2>6 DEF SetIInv, F!Restart
<1> QED BY <1>1, <1>2

LEMMA SetKept == ASSUME F!SettingsAssumption, SetIInv, [F!Next]_(F!vars) PROVE SetIInv'
<1>1. CASE UNCHANGED F!vars
  BY <1>1 DEF F!vars, SetIInv
<1>2. CASE F!Open \/ F!AskAgain
  <2>1. page' = F!Load(page) /\ UNCHANGED world
    BY <1>2 DEF F!Open, F!AskAgain
  <2> QED BY <2>1, SetLoadIs DEF SetIInv
<1>3. CASE F!ToggleRaw
  BY <1>3, ToggleRawSane
<1>4. CASE F!Save
  BY <1>4, SaveSane
<1>5. CASE F!WriteElsewhere \/ F!Restart
  BY <1>5, WorldSane
<1>6. CASE \E f \in F!Fields : F!Edit(f) \/ F!EditRaw(f)
  BY <1>6, EditSane, EditRawSane
<1>7. ASSUME NEW i \in DOMAIN page.calls, F!Handle(i) \/ F!Refuse(i) \/ F!Answer(i) PROVE SetIInv'
  <2>1. CASE F!Refuse(i)
    <3>1. page' = [page EXCEPT !.calls = F!RemoveAt(@, i)] /\ UNCHANGED world
      BY <2>1 DEF F!Refuse
    <3> QED BY <3>1, SetTakeIs DEF SetIInv
  <2> QED BY <1>7, <2>1, HandleSane, AnswerSane
<1> QED BY <1>1, <1>2, <1>3, <1>4, <1>5, <1>6, <1>7 DEF F!Next

(***************************************************************************)
(* What a page shows once its documents are up to date.                    *)
(***************************************************************************)
LEMMA UpToDate ==
  ASSUME SetIInv, page.shown, ~page.redrawn, page.file = F!Redact(world.file), page.running = F!Redact(world.running),
         NEW f \in F!Fields \ (page.edited \cup F!Retired(page))
  PROVE  page.form[f] = F!Redact(F!Effective(world.file))[f]
<1> DEFINE m == F!Merged(page.file, page.running)
<1>1. f \in F!Keys /\ page.form[f] = F!Drawn(m)[f] /\ page.running[f] # F!Absent
  BY KeysAre DEF SetIInv, Sane, AsDrawn, Complete
<1>2. m[f] = IF page.file[f] = F!Absent \/ (f = "outputs" /\ page.file[f] = F!Empty)
             THEN page.running[f] ELSE page.file[f]
  BY <1>1 DEF F!Merged
<1>3. F!Drawn(m)[f] = m[f]
  BY <1>1, <1>2, DrawnIs
<1> HIDE DEF m
<1>4. page.file[f] = IF f = "password" /\ world.file[f] \notin {F!Absent, F!Empty} THEN F!Hidden ELSE world.file[f]
  BY <1>1, RedactIs DEF SetIInv, Sound
<1>5. /\ F!Redact(F!Effective(world.file))[f] =
           (IF f = "password" /\ F!Effective(world.file)[f] \notin {F!Absent, F!Empty} THEN F!Hidden
            ELSE F!Effective(world.file)[f])
      /\ F!Effective(world.file)[f] = (IF world.file[f] = F!Absent THEN F!Default[f] ELSE world.file[f])
      /\ F!Default[f] = (IF f = "flag" THEN "on" ELSE F!Empty)
      /\ F!Redact(F!Default)[f] = F!Default[f]
  <2>1. DOMAIN F!Effective(world.file) = F!Keys /\ DOMAIN F!Default = F!Keys
    BY DEF F!Effective, F!Default
  <2>2. /\ F!Effective(world.file)[f] = (IF world.file[f] = F!Absent THEN F!Default[f] ELSE world.file[f])
        /\ F!Default[f] = (IF f = "flag" THEN "on" ELSE F!Empty)
    BY <1>1, EffectiveIs
  <2> QED BY <1>1, <2>1, <2>2, RedactIs
<1>6. page.file[f] \in {F!Absent, F!Empty} => page.running[f] = F!Default[f]
  BY <1>5 DEF F!Retired
<1>7. CASE page.file[f] = F!Absent
  BY <1>1, <1>2, <1>3, <1>4, <1>5, <1>6, <1>7, KeysAre
<1>8. CASE page.file[f] # F!Absent
  BY <1>1, <1>2, <1>3, <1>4, <1>5, <1>6, <1>8, KeysAre
<1> QED BY <1>7, <1>8

\* What was saved last is what the form said when it was sent, and a form whose
\* documents are up to date shows what the client will run with (SettingsKept).
THEOREM SettingsAreKept == ASSUME F!SettingsAssumption PROVE F!Spec => []F!SettingsKept
<1>1. F!Init => SetIInv
  BY InitSane
<1>2. SetIInv /\ [F!Next]_(F!vars) => SetIInv'
  BY SetKept
<1>3. SetIInv => F!SettingsKept
  <2> SUFFICES ASSUME SetIInv PROVE F!SettingsKept
    OBVIOUS
  <2>1. F!SavedAsShown
    BY DEF SetIInv, Sound, Saved, F!SavedAsShown
  <2>2. F!ShownAsStored
    BY UpToDate DEF F!ShownAsStored
  <2> QED BY <2>1, <2>2 DEF F!SettingsKept
<1> QED BY <1>1, <1>2, <1>3, PTL DEF F!Spec
=============================================================================
