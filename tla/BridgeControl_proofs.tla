------------------------ MODULE BridgeControl_proofs ------------------------
(***************************************************************************)
(* Proofs about the control session of a bridge, for every number of       *)
(* sessions, events and faults, every capacity of the queue and every      *)
(* number of events that a poll or a new stream takes from it.             *)
(***************************************************************************)
EXTENDS BridgeControl, SequenceTheorems, TLAPS

(***************************************************************************)
(* The inductive invariant.  An event is in one place at most: the queue   *)
(* of a session, the wire of one, the answer to a poll, or handled.        *)
(***************************************************************************)
On(w, n)  == Event(n) \in Range(w)
Queued(s) == Range(queue[s])
Wired(s)  == {n \in 1..MaxEvents : On(wire[s], n)}
Todo      == Range(poll.todo)
Held      == {n \in 1..MaxEvents : \E i \in DOMAIN handled : handled[i].n = n}
Streamed  == {n \in 1..MaxEvents : By("stream", n) \in Range(handled)}

\* What may be on a wire.
Messages == {m \in [kind : Kinds, n : 0..MaxEvents] : m.kind = "event" => m.n # 0}

Apart ==
  /\ Held \cap Todo = {}
  /\ \A s \in Sessions : /\ Held \cap (Queued(s) \cup Wired(s)) = {}
                         /\ Todo \cap (Queued(s) \cup Wired(s)) = {}
  /\ \A s, t \in Sessions : /\ Queued(s) \cap Wired(t) = {}
                            /\ s # t => Queued(s) \cap Queued(t) = {} /\ Wired(s) \cap Wired(t) = {}

Known ==
  /\ wire \in [Sessions -> Seq(Messages)]
  /\ emitted + left.events <= MaxEvents
  /\ \A n \in Held \cup Todo : n <= emitted
  /\ \A s \in Sessions : \A n \in Queued(s) \cup Wired(s) : n <= emitted

\* The queue, the wire and the answer to a poll keep the order of the events.
Rising(q) == \A i, j \in DOMAIN q : i < j => q[i] < q[j]
RisingWire(w) ==
  \A i, j \in DOMAIN w : i < j /\ w[i].kind = "event" /\ w[j].kind = "event" => w[i].n < w[j].n

Ordered ==
  /\ \A s \in Sessions : Rising(queue[s]) /\ RisingWire(wire[s])
  /\ Rising(poll.todo)

\* Only one session is open, and a stream is asked for once in a session.
Lifecycle ==
  /\ \A s, t \in open : s = t
  /\ \A s \in Sessions \ open : queue[s] = <<>>
  /\ listening # None => listening = mine
  /\ starting \in {"input", "rest"} => mine # None
  /\ starting = "off" => mine = None
  /\ starting = "input" => mine \notin streams \cup opening /\ wire[mine] = <<>> /\ listening = None
  /\ \A s \in opening : s \notin streams /\ wire[s] = <<>>

\* What the stream that is listened to has still to bring is later than what
\* streams have brought.
Ahead ==
  /\ listening # None => \A m \in Streamed, n \in Wired(listening) : m < n
  /\ listening \in opening => \A m \in Streamed, n \in Queued(listening) : m < n
  /\ starting = "input" => \A m \in Streamed, n \in Queued(mine) : m < n

\* A stream's heartbeat is a sign of life: no more time passes without the one
\* than without the other.
Alive == \A s \in streams : age[s] <= beat[s]

IInv == TypeOK /\ EventsInOrder /\ Apart /\ Known /\ Ordered /\ Lifecycle /\ Ahead /\ Alive

(***************************************************************************)
(* Lemmas about sequences of events and messages.                          *)
(***************************************************************************)
(* The range of a sequence, by its indexes.                                *)
LEMMA InRange ==
  ASSUME NEW S, NEW q \in Seq(S)
  PROVE  /\ \A i \in DOMAIN q : q[i] \in Range(q) /\ q[i] \in S
         /\ \A x \in Range(q) : x \in S /\ \E i \in DOMAIN q : q[i] = x
         /\ Len(q) \in Nat /\ DOMAIN q = 1 .. Len(q)
<1>1. Len(q) \in Nat /\ DOMAIN q = 1 .. Len(q) /\ Range(q) = {q[i] : i \in 1 .. Len(q)}
  BY LenProperties, RangeEquality
<1>2. \A i \in 1 .. Len(q) : q[i] \in S
  BY ElementOfSeq
<1> QED BY <1>1, <1>2

(* A later event at the end of a queue.                                    *)
LEMMA AppendRising ==
  ASSUME NEW q \in Seq(1..MaxEvents), Rising(q), NEW e \in 1..MaxEvents, \A n \in Range(q) : n < e
  PROVE  /\ Append(q, e) \in Seq(1..MaxEvents) /\ Rising(Append(q, e))
         /\ Range(Append(q, e)) = Range(q) \cup {e} /\ Len(Append(q, e)) = Len(q) + 1
<1>1. /\ Append(q, e) \in Seq(1..MaxEvents) /\ Len(Append(q, e)) = Len(q) + 1
      /\ Append(q, e)[Len(q) + 1] = e
      /\ \A i \in 1 .. Len(q) : Append(q, e)[i] = q[i]
  BY AppendProperties
<1>2. /\ Len(q) \in Nat /\ DOMAIN q = 1 .. Len(q) /\ DOMAIN Append(q, e) = 1 .. Len(q) + 1
      /\ \A i \in DOMAIN q : q[i] \in Range(q)
      /\ \A x \in Range(q) : \E i \in DOMAIN q : q[i] = x
  BY <1>1, InRange
<1>3. Rising(Append(q, e))
  BY <1>1, <1>2 DEF Rising
<1>4. Range(Append(q, e)) = {Append(q, e)[i] : i \in 1 .. Len(q) + 1}
  BY <1>1, RangeEquality
<1>5. Range(Append(q, e)) = Range(q) \cup {e}
  <2>1. ASSUME NEW x \in Range(Append(q, e)) PROVE x \in Range(q) \cup {e}
    <3>1. PICK i \in 1 .. Len(q) + 1 : x = Append(q, e)[i]
      BY <1>4
    <3>2. i \in 1 .. Len(q) \/ i = Len(q) + 1
      BY <1>2
    <3> QED BY <1>1, <1>2, <3>1, <3>2
  <2>2. ASSUME NEW x \in Range(q) PROVE x \in Range(Append(q, e))
    <3>1. PICK i \in 1 .. Len(q) : x = q[i]
      BY <1>2
    <3>2. i \in 1 .. Len(q) + 1 /\ Append(q, e)[i] = x
      BY <1>1, <1>2, <3>1
    <3> QED BY <1>4, <3>2
  <2>3. e \in Range(Append(q, e))
    <3>1. Len(q) + 1 \in 1 .. Len(q) + 1
      BY <1>2
    <3> QED BY <1>1, <1>4, <3>1
  <2> QED BY <2>1, <2>2, <2>3
<1> QED BY <1>1, <1>3, <1>5

(* A queue without its first event.                                        *)
LEMMA TailRising ==
  ASSUME NEW q \in Seq(1..MaxEvents), q # <<>>, Rising(q)
  PROVE  /\ Tail(q) \in Seq(1..MaxEvents) /\ Rising(Tail(q))
         /\ Range(Tail(q)) \subseteq Range(q) \ {Head(q)}
         /\ Head(q) \in Range(q) /\ Head(q) \in 1..MaxEvents /\ Len(Tail(q)) = Len(q) - 1
<1>1. /\ Tail(q) \in Seq(1..MaxEvents) /\ Len(Tail(q)) = Len(q) - 1
      /\ \A i \in 1 .. Len(Tail(q)) : Tail(q)[i] = q[i + 1]
  BY HeadTailProperties
<1>2. /\ Len(q) \in Nat \ {0} /\ DOMAIN q = 1 .. Len(q) /\ DOMAIN Tail(q) = 1 .. Len(q) - 1
      /\ Head(q) = q[1] /\ 1 \in DOMAIN q
      /\ \A i \in DOMAIN q : q[i] \in Range(q) /\ q[i] \in 1..MaxEvents
      /\ \A x \in Range(Tail(q)) : \E i \in DOMAIN Tail(q) : Tail(q)[i] = x
  <2>1. Len(q) \in Nat \ {0} /\ DOMAIN q = 1 .. Len(q)
    BY EmptySeq, LenProperties
  <2>2. \A i \in DOMAIN q : q[i] \in Range(q) /\ q[i] \in 1..MaxEvents
    BY InRange
  <2>3. DOMAIN Tail(q) = 1 .. Len(Tail(q)) /\ \A x \in Range(Tail(q)) : \E i \in DOMAIN Tail(q) : Tail(q)[i] = x
    BY <1>1, InRange
  <2>4. Head(q) = q[1] /\ 1 \in DOMAIN q
    BY <2>1
  <2> QED BY <1>1, <2>1, <2>2, <2>3, <2>4
<1>3. \A i \in DOMAIN Tail(q) : i + 1 \in DOMAIN q /\ 1 < i + 1 /\ Tail(q)[i] = q[i + 1]
  BY <1>1, <1>2
<1>4. Rising(Tail(q))
  BY <1>2, <1>3 DEF Rising
<1>5. Range(Tail(q)) \subseteq Range(q) \ {Head(q)}
  <2>1. \A i \in DOMAIN Tail(q) : q[1] < Tail(q)[i] /\ Tail(q)[i] \in Range(q)
    BY <1>2, <1>3 DEF Rising
  <2> QED BY <1>2, <2>1
<1> QED BY <1>1, <1>2, <1>4, <1>5

(* A queue cut in two.                                                     *)
LEMMA Cut ==
  ASSUME NEW q \in Seq(1..MaxEvents), Rising(q), NEW n \in 0..Len(q)
  PROVE  /\ SubSeq(q, 1, n) \in Seq(1..MaxEvents) /\ Rising(SubSeq(q, 1, n)) /\ Len(SubSeq(q, 1, n)) = n
         /\ SubSeq(q, n + 1, Len(q)) \in Seq(1..MaxEvents) /\ Rising(SubSeq(q, n + 1, Len(q)))
         /\ Len(SubSeq(q, n + 1, Len(q))) <= Len(q)
         /\ Range(SubSeq(q, 1, n)) \subseteq Range(q)
         /\ Range(SubSeq(q, n + 1, Len(q))) \subseteq Range(q) \ Range(SubSeq(q, 1, n))
<1> DEFINE a == SubSeq(q, 1, n)
           b == SubSeq(q, n + 1, Len(q))
<1>1. Len(q) \in Nat /\ DOMAIN q = 1 .. Len(q) /\ \A i \in DOMAIN q : q[i] \in Range(q) /\ q[i] \in 1..MaxEvents
  BY InRange
<1>2. a \in Seq(1..MaxEvents) /\ Len(a) = n /\ \A i \in 1 .. n : a[i] = q[i]
  <2>1. \A i \in 1 .. n : q[i] \in 1..MaxEvents
    BY <1>1
  <2>2. /\ a \in Seq(1..MaxEvents) /\ Len(a) = IF 1 <= n THEN n - 1 + 1 ELSE 0
        /\ \A i \in 1 .. n - 1 + 1 : a[i] = q[1 + i - 1]
    BY <1>1, <2>1, SubSeqProperties
  <2> QED BY <1>1, <2>2
<1>3. b \in Seq(1..MaxEvents) /\ Len(b) = Len(q) - n /\ \A i \in 1 .. Len(q) - n : b[i] = q[n + i]
  <2>1. \A i \in n + 1 .. Len(q) : q[i] \in 1..MaxEvents
    BY <1>1
  <2>2. n + 1 \in Int /\ Len(q) \in Int
    BY <1>1
  <2>3. /\ b \in Seq(1..MaxEvents)
        /\ Len(b) = IF n + 1 <= Len(q) THEN Len(q) - (n + 1) + 1 ELSE 0
        /\ \A i \in 1 .. Len(q) - (n + 1) + 1 : b[i] = q[n + 1 + i - 1]
    BY <2>1, <2>2, SubSeqProperties
  <2>4. Len(b) = Len(q) - n
    <3>1. CASE n + 1 <= Len(q)
      BY <1>1, <2>3, <3>1
    <3>2. CASE ~(n + 1 <= Len(q))
      <4> DEFINE len == Len(q)
      <4> HIDE DEF len
      <4>1. len \in Nat /\ n \in Nat /\ n <= len /\ ~(n + 1 <= len)
        BY <1>1, <3>2 DEF len
      <4>2. n = Len(q)
        BY <4>1 DEF len
      <4>3. Len(b) = 0
        BY <2>3, <3>2, Zenon
      <4>4. Len(q) - n = 0
        BY <1>1, <4>2
      <4> QED BY <4>3, <4>4, Zenon
    <3> QED BY <3>1, <3>2
  <2>5. ASSUME NEW i \in 1 .. Len(q) - n PROVE b[i] = q[n + i]
    <3>1. i \in 1 .. Len(q) - (n + 1) + 1 /\ n + 1 + i - 1 = n + i
      BY <1>1
    <3> QED BY <2>3, <3>1
  <2> QED BY <2>3, <2>4, <2>5
<1> HIDE DEF a, b
<1>4. /\ DOMAIN a = 1 .. n /\ DOMAIN b = 1 .. Len(q) - n
      /\ \A x \in Range(a) : \E i \in DOMAIN a : a[i] = x
      /\ \A x \in Range(b) : \E i \in DOMAIN b : b[i] = x
  <2>1. DOMAIN a = 1 .. Len(a) /\ \A x \in Range(a) : \E i \in DOMAIN a : a[i] = x
    BY <1>2, InRange
  <2>2. DOMAIN b = 1 .. Len(b) /\ \A x \in Range(b) : \E i \in DOMAIN b : b[i] = x
    BY <1>3, InRange
  <2> QED BY <1>2, <1>3, <2>1, <2>2
<1>5. \A i \in DOMAIN a : i \in DOMAIN q /\ i <= n /\ a[i] = q[i]
  BY <1>1, <1>2, <1>4
<1>6. \A i \in DOMAIN b : n + i \in DOMAIN q /\ n < n + i /\ b[i] = q[n + i]
  BY <1>1, <1>3, <1>4
<1>7. Rising(a)
  BY <1>5 DEF Rising
<1>8. Rising(b)
  <2> SUFFICES ASSUME NEW i \in DOMAIN b, NEW j \in DOMAIN b, i < j PROVE b[i] < b[j]
    BY DEF Rising
  <2>1. n + i < n + j
    BY <1>4
  <2> QED BY <1>6, <2>1 DEF Rising
<1>9. Range(a) \subseteq Range(q) /\ Range(b) \subseteq Range(q) \ Range(a)
  <2>1. \A x \in Range(a) : x \in Range(q)
    BY <1>1, <1>4, <1>5
  <2>2. \A x \in Range(b) : x \in Range(q)
    BY <1>1, <1>4, <1>6
  <2>3. ASSUME NEW x \in Range(a), x \in Range(b) PROVE FALSE
    <3>1. PICK i \in DOMAIN a : a[i] = x
      BY <1>4
    <3>2. PICK j \in DOMAIN b : b[j] = x
      BY <1>4, <2>3
    <3>3. i < n + j /\ q[i] = q[n + j] /\ i \in DOMAIN q /\ n + j \in DOMAIN q
      BY <1>1, <1>5, <1>6, <3>1, <3>2
    <3> QED BY <1>1, <3>3 DEF Rising
  <2> QED BY <2>1, <2>2, <2>3
<1>10. Len(b) <= Len(q)
  BY <1>1, <1>3
<1> USE DEF a, b
<1> QED BY <1>2, <1>3, <1>7, <1>8, <1>9, <1>10, Zenon

(* A message among a sequence of them.                                     *)
LEMMA OnWire ==
  ASSUME NEW w \in Seq(Messages)
  PROVE  /\ \A i \in DOMAIN w : w[i].kind = "event" =>
               w[i].n \in 1..MaxEvents /\ w[i] = Event(w[i].n) /\ On(w, w[i].n)
         /\ \A n : On(w, n) => \E i \in DOMAIN w : w[i].kind = "event" /\ w[i].n = n
<1>1. /\ \A i \in DOMAIN w : w[i] \in Range(w) /\ w[i] \in Messages
      /\ \A x \in Range(w) : \E i \in DOMAIN w : w[i] = x
  BY InRange
<1>2. ASSUME NEW m \in Messages, m.kind = "event" PROVE m.n \in 1..MaxEvents /\ m = Event(m.n)
  BY <1>2, ControlAssumption DEF Messages, Event
<1>3. \A n : Event(n).kind = "event" /\ Event(n).n = n
  BY DEF Event
<1> QED BY <1>1, <1>2, <1>3 DEF On

(* The wires hold messages of the declared type.                           *)
LEMMA MessagesTyped ==
  \A w \in [Sessions -> Seq(Messages)] : w \in [Sessions -> Seq([kind : Kinds, n : 0..MaxEvents])]
<1>1. Messages \subseteq [kind : Kinds, n : 0..MaxEvents]
  BY DEF Messages
<1>2. \A w \in Seq(Messages) : w \in Seq([kind : Kinds, n : 0..MaxEvents])
  BY <1>1, SeqMonotonic
<1> QED BY <1>2

(* A later event at the end of a wire.                                     *)
LEMMA WireAppend ==
  ASSUME NEW w \in Seq(Messages), RisingWire(w), NEW e \in 1..MaxEvents,
         \A n \in 1..MaxEvents : On(w, n) => n < e
  PROVE  /\ Append(w, Event(e)) \in Seq(Messages) /\ RisingWire(Append(w, Event(e)))
         /\ \A n : On(Append(w, Event(e)), n) => On(w, n) \/ n = e
<1> DEFINE m == Event(e)
           v == Append(w, m)
<1>1. m \in Messages /\ m.kind = "event" /\ m.n = e
  BY ControlAssumption DEF Messages, Event, Kinds
<1> HIDE DEF m
<1>2. /\ v \in Seq(Messages) /\ Len(v) = Len(w) + 1 /\ v[Len(w) + 1] = m
      /\ \A i \in 1 .. Len(w) : v[i] = w[i]
  BY <1>1, AppendProperties
<1>3. Len(w) \in Nat /\ DOMAIN w = 1 .. Len(w) /\ DOMAIN v = 1 .. Len(w) + 1
  BY <1>2, LenProperties
<1> HIDE DEF v
<1>4. \A i \in DOMAIN v : (i \in DOMAIN w /\ v[i] = w[i]) \/ (i = Len(w) + 1 /\ v[i] = m)
  BY <1>2, <1>3
<1>5. \A i \in DOMAIN w : w[i].kind = "event" => w[i].n \in 1..MaxEvents /\ On(w, w[i].n)
  BY OnWire
<1>6. RisingWire(v)
  <2> SUFFICES ASSUME NEW i \in DOMAIN v, NEW j \in DOMAIN v, i < j,
                      v[i].kind = "event", v[j].kind = "event"
               PROVE  v[i].n < v[j].n
    BY DEF RisingWire
  <2>1. i \in DOMAIN w /\ v[i] = w[i]
    BY <1>3, <1>4
  <2>2. CASE j \in DOMAIN w /\ v[j] = w[j]
    BY <2>1, <2>2 DEF RisingWire
  <2>3. CASE v[j] = m
    BY <1>1, <1>5, <2>1, <2>3
  <2> QED BY <1>4, <2>2, <2>3
<1>7. ASSUME NEW n, On(v, n) PROVE On(w, n) \/ n = e
  <2>1. PICK i \in DOMAIN v : v[i].kind = "event" /\ v[i].n = n
    BY <1>2, <1>7, OnWire
  <2> QED BY <1>1, <1>4, <1>5, <2>1
<1> QED BY <1>2, <1>6, <1>7 DEF v, m

(* Words, which are no events, at the end of a wire.                       *)
LEMMA WireWords ==
  ASSUME NEW w \in Seq(Messages), RisingWire(w), NEW u \in Seq(Messages),
         \A i \in DOMAIN u : u[i].kind # "event"
  PROVE  w \o u \in Seq(Messages) /\ RisingWire(w \o u) /\ \A n : On(w \o u, n) => On(w, n)
<1> DEFINE v == w \o u
<1>1. /\ v \in Seq(Messages) /\ Len(v) = Len(w) + Len(u)
      /\ \A i \in 1 .. Len(w) + Len(u) : v[i] = IF i <= Len(w) THEN w[i] ELSE u[i - Len(w)]
  BY ConcatProperties
<1>2. /\ Len(w) \in Nat /\ DOMAIN w = 1 .. Len(w) /\ Len(u) \in Nat /\ DOMAIN u = 1 .. Len(u)
      /\ DOMAIN v = 1 .. Len(w) + Len(u)
  BY <1>1, LenProperties
<1> HIDE DEF v
<1>3. \A i \in DOMAIN v : v[i].kind = "event" => i \in DOMAIN w /\ v[i] = w[i]
  <2> SUFFICES ASSUME NEW i \in DOMAIN v, v[i].kind = "event" PROVE i \in DOMAIN w /\ v[i] = w[i]
    OBVIOUS
  <2>1. ASSUME ~(i <= Len(w)) PROVE FALSE
    <3>1. i - Len(w) \in DOMAIN u /\ v[i] = u[i - Len(w)]
      BY <1>1, <1>2, <2>1
    <3> QED BY <3>1
  <2> QED BY <1>1, <1>2, <2>1
<1>4. RisingWire(v)
  BY <1>3 DEF RisingWire
<1>5. ASSUME NEW n, On(v, n) PROVE On(w, n)
  <2>1. PICK i \in DOMAIN v : v[i].kind = "event" /\ v[i].n = n
    BY <1>1, <1>5, OnWire
  <2>2. i \in DOMAIN w /\ w[i].kind = "event" /\ w[i].n = n
    BY <1>3, <2>1
  <2> QED BY <2>2, OnWire
<1> QED BY <1>1, <1>4, <1>5 DEF v

(* A wire without its first message.                                       *)
LEMMA WireTail ==
  ASSUME NEW w \in Seq(Messages), w # <<>>, RisingWire(w)
  PROVE  /\ Tail(w) \in Seq(Messages) /\ RisingWire(Tail(w)) /\ Head(w) \in Messages
         /\ \A n : On(Tail(w), n) => On(w, n)
         /\ Head(w).kind = "event" =>
              /\ Head(w).n \in 1..MaxEvents /\ On(w, Head(w).n)
              /\ \A n : On(Tail(w), n) => Head(w).n < n
<1> DEFINE v == Tail(w)
<1>1. /\ Head(w) \in Messages /\ v \in Seq(Messages) /\ Len(v) = Len(w) - 1
      /\ \A i \in 1 .. Len(v) : v[i] = w[i + 1]
  BY HeadTailProperties
<1>2. /\ Len(w) \in Nat \ {0} /\ DOMAIN w = 1 .. Len(w) /\ DOMAIN v = 1 .. Len(w) - 1
  BY <1>1, LenProperties, EmptySeq
<1>3. Head(w) = w[1] /\ 1 \in DOMAIN w
  BY <1>2
<1> HIDE DEF v
<1>4. \A i \in DOMAIN v : i + 1 \in DOMAIN w /\ 1 < i + 1 /\ v[i] = w[i + 1]
  BY <1>1, <1>2
<1>5. RisingWire(v)
  <2> SUFFICES ASSUME NEW i \in DOMAIN v, NEW j \in DOMAIN v, i < j,
                      v[i].kind = "event", v[j].kind = "event"
               PROVE  v[i].n < v[j].n
    BY DEF RisingWire
  <2>1. i + 1 < j + 1
    BY <1>2
  <2> QED BY <1>4, <2>1 DEF RisingWire
<1>6. ASSUME NEW n, On(v, n)
      PROVE  On(w, n) /\ (Head(w).kind = "event" => Head(w).n < n)
  <2>1. PICK i \in DOMAIN v : v[i].kind = "event" /\ v[i].n = n
    BY <1>1, <1>6, OnWire
  <2>2. i + 1 \in DOMAIN w /\ 1 < i + 1 /\ w[i + 1].kind = "event" /\ w[i + 1].n = n
    BY <1>4, <2>1
  <2>3. On(w, n)
    BY <2>2, OnWire
  <2> QED BY <1>3, <2>2, <2>3 DEF RisingWire
<1>7. Head(w).kind = "event" => Head(w).n \in 1..MaxEvents /\ On(w, Head(w).n)
  BY <1>3, OnWire
<1> QED BY <1>1, <1>5, <1>6, <1>7 DEF v

(* A stream starts with a greeting and the events taken from the queue.    *)
LEMMA WireOpened ==
  ASSUME NEW q \in Seq(1..MaxEvents), Rising(q)
  PROVE  LET w == <<Say("open")>> \o [i \in DOMAIN q |-> Event(q[i])]
         IN  w \in Seq(Messages) /\ RisingWire(w) /\ \A n : On(w, n) => n \in Range(q)
<1> DEFINE u == <<Say("open")>>
           e == [i \in DOMAIN q |-> Event(q[i])]
           w == u \o e
<1>1. /\ Len(q) \in Nat /\ DOMAIN q = 1 .. Len(q)
      /\ \A i \in DOMAIN q : q[i] \in 1..MaxEvents /\ q[i] \in Range(q)
  BY InRange
<1>2. Say("open") \in Messages /\ Say("open").kind # "event"
  BY ControlAssumption DEF Say, Messages, Kinds
<1>3. u \in Seq(Messages) /\ Len(u) = 1 /\ u[1] = Say("open")
  BY <1>2
<1>4. \A i \in DOMAIN q : Event(q[i]) \in Messages /\ Event(q[i]).kind = "event" /\ Event(q[i]).n = q[i]
  BY <1>1, ControlAssumption DEF Event, Messages, Kinds
<1>5. e \in Seq(Messages) /\ Len(e) = Len(q) /\ \A i \in 1 .. Len(q) : e[i] = Event(q[i])
  <2>1. e \in [1 .. Len(q) -> Messages]
    BY <1>1, <1>4
  <2> QED BY <1>1, <2>1
<1> HIDE DEF u, e
<1>6. /\ w \in Seq(Messages) /\ Len(w) = 1 + Len(q)
      /\ \A i \in 1 .. 1 + Len(q) : w[i] = IF i <= 1 THEN u[i] ELSE e[i - 1]
  BY <1>3, <1>5, ConcatProperties
<1>7. DOMAIN w = 1 .. 1 + Len(q)
  BY <1>6, LenProperties
<1> HIDE DEF w
<1>8. \A i \in DOMAIN w : w[i].kind = "event" => i - 1 \in DOMAIN q /\ w[i].n = q[i - 1]
  <2> SUFFICES ASSUME NEW i \in DOMAIN w, w[i].kind = "event"
               PROVE  i - 1 \in DOMAIN q /\ w[i].n = q[i - 1]
    OBVIOUS
  <2>1. ~(i <= 1)
    BY <1>2, <1>3, <1>6, <1>7
  <2>2. i - 1 \in DOMAIN q /\ w[i] = e[i - 1]
    BY <1>1, <1>6, <1>7, <2>1
  <2> QED BY <1>1, <1>4, <1>5, <2>2
<1>9. RisingWire(w)
  <2> SUFFICES ASSUME NEW i \in DOMAIN w, NEW j \in DOMAIN w, i < j,
                      w[i].kind = "event", w[j].kind = "event"
               PROVE  w[i].n < w[j].n
    BY DEF RisingWire
  <2>1. i - 1 < j - 1
    BY <1>1, <1>7
  <2> QED BY <1>8, <2>1 DEF Rising
<1>10. ASSUME NEW n, On(w, n) PROVE n \in Range(q)
  <2>1. PICK i \in DOMAIN w : w[i].kind = "event" /\ w[i].n = n
    BY <1>6, <1>10, OnWire
  <2> QED BY <1>1, <1>8, <2>1
<1> QED BY <1>6, <1>9, <1>10 DEF u, e, w

(***************************************************************************)
(* The invariant holds at first, and every action keeps it.                *)
(***************************************************************************)
LEMMA InitIInv == Init => IInv
<1> SUFFICES ASSUME Init PROVE IInv
  OBVIOUS
<1> USE ControlAssumption DEF Init
<1>1. Range(<<>>) = {} /\ \A S : <<>> \in Seq(S) /\ DOMAIN <<>> = {}
  BY DEF Range
<1>2. TypeOK
  <2>1. left \in [events : 0..MaxEvents, faults : Nat, timed : BOOLEAN]
    OBVIOUS
  <2>2. \A s \in Sessions : Len(queue[s]) <= Capacity
    OBVIOUS
  <2>3. poll \in [of : Sessions \cup {None}, ok : BOOLEAN, todo : Seq(1..MaxEvents)]
    BY DEF NoPoll
  <2>4. queue \in [Sessions -> Seq(1..MaxEvents)] /\ wire \in [Sessions -> Seq([kind : Kinds, n : 0..MaxEvents])]
    OBVIOUS
  <2>5. /\ age \in [Sessions -> 0..Stale + 1] /\ beat \in [Sessions -> 0..Beat]
        /\ sentTo \in [1..MaxEvents -> Sessions \cup {None}] /\ emitted \in 0..MaxEvents
    OBVIOUS
  <2>6. handled \in Seq([way : {"poll", "stream"}, n : 1..MaxEvents])
    OBVIOUS
  <2> QED BY <2>1, <2>2, <2>3, <2>4, <2>5, <2>6 DEF TypeOK
<1>3. EventsInOrder
  BY <1>1 DEF EventsInOrder, HandledOnce, StreamsInOrder
<1>4. \A s \in Sessions : Queued(s) = {} /\ Wired(s) = {} /\ queue[s] = <<>> /\ wire[s] = <<>>
  BY <1>1 DEF Queued, Wired, On
<1>5. Held = {} /\ Todo = {} /\ Streamed = {} /\ poll.todo = <<>>
  BY <1>1 DEF Held, Todo, Streamed, NoPoll
<1>6. Apart
  BY <1>4, <1>5 DEF Apart
<1>7. Known
  <2>1. left.events \in 0..MaxEvents
    OBVIOUS
  <2> QED BY <1>4, <1>5, <2>1 DEF Known
<1>8. Ordered
  BY <1>1, <1>4, <1>5 DEF Ordered, Rising, RisingWire
<1>9. Lifecycle /\ Ahead /\ Alive
  BY <1>4, <1>5 DEF Lifecycle, Ahead, Alive
<1> QED BY <1>2, <1>3, <1>6, <1>7, <1>8, <1>9 DEF IInv

(* Events that only disappear stay in different places.                    *)
LEMMA Shrinking ==
  ASSUME Apart, Held' \subseteq Held, Todo' \subseteq Todo,
         \A s \in Sessions : Queued(s)' \subseteq Queued(s) /\ Wired(s)' \subseteq Wired(s)
  PROVE  Apart'
BY DEF Apart

\* Sessions end, at most: their queues go, and no wire gets an event, though
\* it may lose one.
Closes ==
  /\ open' \subseteq open /\ streams' \subseteq streams \cap open' /\ broken' \subseteq Sessions
  /\ \A s \in Sessions : queue'[s] = IF s \in open' THEN queue[s] ELSE <<>>
  /\ queue' \in [Sessions -> Seq(1..MaxEvents)]
  /\ wire' \in [Sessions -> Seq(Messages)]
  /\ \A s \in Sessions : /\ RisingWire(wire'[s]) /\ Wired(s)' \subseteq Wired(s)
                         /\ s \notin streams /\ wire[s] = <<>> => wire'[s] = <<>>
  /\ age' \in [Sessions -> 0..Stale + 1] /\ beat' \in [Sessions -> 0..Beat]
  /\ \A s \in streams' : age'[s] <= beat'[s]

\* The bridge is still in the session or has left it.
ClientStays == mine' = mine /\ starting' \in {starting, "no"} /\ listening' \in {listening, None}
ClientLeaves == mine' = None /\ listening' = None /\ starting' \in {"no", "failed", "off"}

\* The events and the budget of events are as before.
NothingNew ==
  /\ UNCHANGED <<emitted, sentTo, handled>> /\ left'.events = left.events
  /\ left' \in [events : 0..MaxEvents, faults : Nat, timed : BOOLEAN]

(* The end of sessions keeps the invariant, also where the bridge leaves   *)
(* its session or forgets the answer to a poll.                            *)
LEMMA ClosesKeeps ==
  ASSUME IInv, Closes, NothingNew, ClientStays \/ ClientLeaves, UNCHANGED opening,
         poll' \in {poll, NoPoll}, ready' \in BOOLEAN, active' \in BOOLEAN
  PROVE  IInv'
<1>1. Range(<<>>) = {} /\ \A S : <<>> \in Seq(S) /\ DOMAIN <<>> = {} /\ Len(<<>>) = 0
  BY DEF Range
<1>2. \A s \in Sessions : queue'[s] = queue[s] \/ queue'[s] = <<>>
  BY DEF Closes
<1>3. poll'.todo = poll.todo \/ poll'.todo = <<>>
  BY DEF NoPoll
<1>4. /\ Held' = Held /\ Streamed' = Streamed /\ Todo' \subseteq Todo
      /\ \A s \in Sessions : Queued(s)' \subseteq Queued(s) /\ Wired(s)' \subseteq Wired(s)
  BY <1>1, <1>2, <1>3 DEF NothingNew, Held, Streamed, Todo, Queued, Closes
<1>5. TypeOK'
  <2>1. poll' \in [of : Sessions \cup {None}, ok : BOOLEAN, todo : Seq(1..MaxEvents)]
    <3>1. NoPoll \in [of : Sessions \cup {None}, ok : BOOLEAN, todo : Seq(1..MaxEvents)]
      BY DEF NoPoll
    <3> QED BY <3>1 DEF IInv, TypeOK
  <2>2. \A s \in Sessions : Len(queue'[s]) <= Capacity
    <3>1. 0 <= Capacity
      BY ControlAssumption
    <3>2. Len(<<>>) = 0
      BY <1>1
    <3> QED BY <1>2, <3>1, <3>2 DEF IInv, TypeOK
  <2>3. wire' \in [Sessions -> Seq([kind : Kinds, n : 0..MaxEvents])]
    BY MessagesTyped DEF Closes
  <2>4. mine' \in Sessions \cup {None} /\ listening' \in Sessions \cup {None} /\ starting' \in {"no", "input", "rest", "failed", "off"}
    BY DEF ClientStays, ClientLeaves, IInv, TypeOK
  <2> QED BY <2>1, <2>2, <2>3, <2>4 DEF IInv, TypeOK, Closes, NothingNew
<1>6. EventsInOrder'
  BY DEF IInv, EventsInOrder, HandledOnce, StreamsInOrder, NothingNew
<1>7. Apart'
  BY <1>4, Shrinking DEF IInv
<1>8. Known'
  <2>1. wire' \in [Sessions -> Seq(Messages)] /\ emitted' = emitted /\ left'.events = left.events
    BY DEF Closes, NothingNew
  <2> QED BY <1>4, <2>1 DEF IInv, Known
<1>9. Ordered'
  <2>1. Rising(<<>>)
    BY <1>1 DEF Rising
  <2> QED BY <1>2, <1>3, <2>1 DEF IInv, Ordered, Closes
<1>10. Lifecycle'
  <2>1. \A s \in Sessions : s \in streams' => s \in streams
    BY DEF Closes
  <2>2. CASE ClientStays
    BY <2>1, <2>2 DEF IInv, TypeOK, Lifecycle, Closes, ClientStays
  <2>3. CASE ClientLeaves
    BY <2>1, <2>3 DEF IInv, TypeOK, Lifecycle, Closes, ClientLeaves
  <2> QED BY <2>2, <2>3
<1>11. Ahead'
  <2>1. CASE ClientStays
    <3>1. /\ listening' # None => listening' = listening
          /\ listening' \in opening' => listening' = listening
          /\ starting' = "input" => starting = "input"
          /\ mine' = mine /\ opening' = opening
      BY <2>1, ControlAssumption DEF ClientStays, IInv, TypeOK
    <3>2. listening # None => listening \in Sessions
      BY DEF IInv, TypeOK
    <3>3. opening \subseteq Sessions
      BY DEF IInv, TypeOK
    <3>4. starting = "input" => mine \in Sessions
      BY DEF IInv, TypeOK, Lifecycle
    <3> QED BY <1>4, <3>1, <3>2, <3>3, <3>4 DEF IInv, Ahead
  <2>2. CASE ClientLeaves
    BY <2>2, ControlAssumption DEF ClientLeaves, Ahead, IInv, TypeOK
  <2> QED BY <2>1, <2>2
<1>12. Alive'
  BY DEF Alive, Closes
<1> QED BY <1>5, <1>6, <1>7, <1>8, <1>9, <1>10, <1>11, <1>12 DEF IInv

(* The words that end a stream are no events.                              *)
LEMMA Words ==
  \A u \in {<<>>, <<Say("closed")>>, Goodbye, Kick} :
    u \in Seq(Messages) /\ \A i \in DOMAIN u : u[i].kind # "event"
<1>1. \A k \in {"kicked", "session-closed", "closed"} : Say(k) \in Messages /\ Say(k).kind # "event"
  BY ControlAssumption DEF Say, Messages, Kinds
<1>2. /\ Goodbye \in Seq(Messages) /\ Len(Goodbye) = 2
      /\ Goodbye[1] = Say("session-closed") /\ Goodbye[2] = Say("closed")
  BY <1>1 DEF Goodbye
<1>3. <<Say("kicked")>> \in Seq(Messages) /\ Len(<<Say("kicked")>>) = 1 /\ <<Say("kicked")>>[1] = Say("kicked")
  BY <1>1
<1>4. /\ Kick \in Seq(Messages) /\ Len(Kick) = 3
      /\ \A i \in 1 .. 3 : Kick[i] = IF i <= 1 THEN <<Say("kicked")>>[i] ELSE Goodbye[i - 1]
  <2>1. /\ Kick \in Seq(Messages) /\ Len(Kick) = 1 + 2
        /\ \A i \in 1 .. 1 + 2 : Kick[i] = IF i <= 1 THEN <<Say("kicked")>>[i] ELSE Goodbye[i - 1]
    <3> DEFINE k == <<Say("kicked")>>
               g == Goodbye
    <3>1. k \in Seq(Messages) /\ Len(k) = 1 /\ g \in Seq(Messages) /\ Len(g) = 2 /\ Kick = k \o g
      BY <1>2, <1>3 DEF Kick
    <3> HIDE DEF k, g
    <3>2. /\ k \o g \in Seq(Messages) /\ Len(k \o g) = Len(k) + Len(g)
          /\ \A i \in 1 .. Len(k) + Len(g) : (k \o g)[i] = IF i <= Len(k) THEN k[i] ELSE g[i - Len(k)]
      BY <3>1, ConcatProperties
    <3> QED BY <3>1, <3>2 DEF k, g
  <2> QED BY <2>1
<1>5. Kick[1] = Say("kicked") /\ Kick[2] = Say("session-closed") /\ Kick[3] = Say("closed")
  BY <1>2, <1>3, <1>4
<1>6. DOMAIN Goodbye = 1 .. 2 /\ DOMAIN Kick = 1 .. 3
  BY <1>2, <1>4, LenProperties
<1>7. \A i \in DOMAIN Goodbye : Goodbye[i].kind # "event"
  BY <1>1, <1>2, <1>6
<1>8. \A i \in DOMAIN Kick : Kick[i].kind # "event"
  <2>1. \A i \in DOMAIN Kick : i = 1 \/ i = 2 \/ i = 3
    BY <1>6
  <2> QED BY <1>1, <1>5, <2>1
<1>9. <<Say("closed")>> \in Seq(Messages) /\ \A i \in DOMAIN <<Say("closed")>> : <<Say("closed")>>[i].kind # "event"
  BY <1>1
<1>10. <<>> \in Seq(Messages) /\ DOMAIN <<>> = {}
  OBVIOUS
<1> QED BY <1>2, <1>4, <1>7, <1>8, <1>9, <1>10

(* The end of some sessions, with words.                                   *)
LEMMA Closing ==
  ASSUME IInv, NEW S \in SUBSET Sessions, NEW u \in {<<>>, <<Say("closed")>>, Goodbye, Kick}, CloseWith(S, u)
  PROVE  Closes
<1>1. u \in Seq(Messages) /\ \A i \in DOMAIN u : u[i].kind # "event"
  BY Words
<1>2. ASSUME NEW s \in Sessions
      PROVE  wire[s] \in Seq(Messages) /\ RisingWire(wire[s])
  BY DEF IInv, Known, Ordered
<1>3. ASSUME NEW s \in Sessions
      PROVE  /\ wire[s] \o u \in Seq(Messages) /\ RisingWire(wire[s] \o u)
             /\ \A n : On(wire[s] \o u, n) => On(wire[s], n)
  BY <1>1, <1>2, WireWords
<1>4. /\ wire' \in [Sessions -> Seq(Messages)]
      /\ \A s \in Sessions : RisingWire(wire'[s]) /\ Wired(s)' \subseteq Wired(s)
      /\ \A s \in Sessions : s \notin streams => wire'[s] = wire[s]
  <2>1. wire' = [s \in Sessions |-> IF s \in S \cap (streams \ broken) THEN wire[s] \o u ELSE wire[s]]
    BY DEF CloseWith
  <2> QED BY <1>2, <1>3, <2>1 DEF Wired
<1>5. /\ queue' \in [Sessions -> Seq(1..MaxEvents)]
      /\ \A s \in Sessions : queue'[s] = IF s \in open' THEN queue[s] ELSE <<>>
  <2>1. <<>> \in Seq(1..MaxEvents)
    OBVIOUS
  <2> QED BY <2>1 DEF CloseWith, IInv, TypeOK, Lifecycle
<1>6. /\ age' \in [Sessions -> 0..Stale + 1] /\ beat' \in [Sessions -> 0..Beat]
      /\ open' \subseteq open /\ streams' \subseteq streams \cap open' /\ broken' \subseteq Sessions
      /\ \A s \in streams' : age'[s] <= beat'[s]
  <2>1. open' = open \ S /\ streams' = streams \ S /\ broken' = broken \ S
    BY DEF CloseWith
  <2>2. open \subseteq Sessions /\ streams \subseteq open /\ broken \subseteq Sessions
    BY DEF IInv, TypeOK
  <2>3. 0 \in 0..Stale + 1 /\ 0 \in 0..Beat
    BY ControlAssumption
  <2>4. age \in [Sessions -> 0..Stale + 1] /\ beat \in [Sessions -> 0..Beat]
    BY DEF IInv, TypeOK
  <2>5. /\ age' = [s \in Sessions |-> IF s \in S THEN 0 ELSE age[s]]
        /\ beat' = [s \in Sessions |-> IF s \in S THEN 0 ELSE beat[s]]
    BY DEF CloseWith
  <2>6. age' \in [Sessions -> 0..Stale + 1] /\ beat' \in [Sessions -> 0..Beat]
    BY <2>3, <2>4, <2>5
  <2>7. \A s \in streams' : age'[s] <= beat'[s]
    BY <2>1, <2>2, <2>5 DEF IInv, Alive
  <2> QED BY <2>1, <2>2, <2>6, <2>7
<1> QED BY <1>4, <1>5, <1>6 DEF Closes

(* Nothing of the server and the wires changes.                            *)
LEMMA ClosingNone ==
  ASSUME IInv, UNCHANGED <<open, queue, streams, age, beat, wire, broken>> PROVE Closes
<1>1. \A s \in Sessions : Wired(s)' = Wired(s)
  BY DEF Wired
<1> QED BY <1>1 DEF Closes, IInv, TypeOK, Known, Ordered, Lifecycle, Alive

(* A fault costs no events.                                                *)
LEMMA Faults ==
  ASSUME IInv, Fault \/ UNCHANGED left
  PROVE  left'.events = left.events /\ left' \in [events : 0..MaxEvents, faults : Nat, timed : BOOLEAN]
<1>1. left \in [events : 0..MaxEvents, faults : Nat, timed : BOOLEAN]
  BY DEF IInv, TypeOK
<1>2. CASE Fault
  <2>1. left.faults - 1 \in Nat /\ left' = [left EXCEPT !.faults = left.faults - 1]
    BY <1>1, <1>2 DEF Fault
  <2> QED BY <1>1, <2>1
<1> QED BY <1>1, <1>2

(* What ends a session on the server.                                      *)
LEMMA CleanUpKeeps == ASSUME IInv, NEW s \in Sessions, CleanUp(s) \/ NoticeBreak(s) PROVE IInv'
<1>1. Closes
  BY Closing DEF CleanUp, NoticeBreak
<1>2. NothingNew
  BY Faults DEF NothingNew, CleanUp, NoticeBreak, clientVars
<1>3. ClientStays /\ UNCHANGED <<opening, poll, ready, active>>
  BY DEF ClientStays, CleanUp, NoticeBreak, clientVars
<1> QED BY <1>1, <1>2, <1>3, ClosesKeeps DEF IInv, TypeOK

LEMMA TakeoverKeeps == ASSUME IInv, Takeover \/ ServerRestart PROVE IInv'
<1>1. Closes
  BY Closing DEF Takeover, ServerRestart, IInv, TypeOK
<1>2. NothingNew
  BY Faults DEF NothingNew, Takeover, ServerRestart, clientVars
<1>3. ClientStays /\ UNCHANGED <<opening, poll, ready, active>>
  BY DEF ClientStays, Takeover, ServerRestart, clientVars
<1> QED BY <1>1, <1>2, <1>3, ClosesKeeps DEF IInv, TypeOK

LEMMA BreakStreamKeeps == ASSUME IInv, NEW s \in Sessions, BreakStream(s) PROVE IInv'
<1>1. s \in streams
  BY DEF BreakStream
<1>2. \A t \in Sessions : wire[t] \in Seq(Messages) /\ RisingWire(wire[t])
  BY DEF IInv, Known, Ordered
<1>3. wire'[s] \in Seq(Messages) /\ RisingWire(wire'[s]) /\ \A n : On(wire'[s], n) => On(wire[s], n)
  <2> DEFINE u == <<Say("closed")>>
  <2>1. u \in Seq(Messages) /\ \A i \in DOMAIN u : u[i].kind # "event"
    BY Words
  <2>2. /\ wire[s] \o u \in Seq(Messages) /\ RisingWire(wire[s] \o u)
        /\ \A n : On(wire[s] \o u, n) => On(wire[s], n)
    <3> HIDE DEF u
    <3> QED BY <1>2, <2>1, WireWords
  <2>3. Append(wire[s], Say("closed")) = wire[s] \o u
    <3>1. Say("closed") \in Messages
      BY ControlAssumption DEF Say, Messages, Kinds
    <3> QED BY <1>2, <3>1, AppendIsConcat
  <2>4. <<>> \in Seq(Messages) /\ RisingWire(<<>>) /\ \A n : ~On(<<>>, n)
    BY DEF RisingWire, On, Range
  <2>5. wire'[s] = Append(wire[s], Say("closed")) \/ wire'[s] = <<>>
    BY DEF BreakStream, IInv, TypeOK
  <2> QED BY <2>2, <2>3, <2>4, <2>5
<1>4. /\ wire' \in [Sessions -> Seq(Messages)] /\ \A t \in Sessions : t # s => wire'[t] = wire[t]
  <2>1. wire' = [wire EXCEPT ![s] = wire'[s]]
    BY DEF BreakStream, IInv, TypeOK
  <2> QED BY <1>3, <2>1 DEF IInv, Known
<1>5. Closes
  <2>1. \A t \in Sessions : RisingWire(wire'[t]) /\ Wired(t)' \subseteq Wired(t) /\ (t \notin streams => wire'[t] = wire[t])
    BY <1>1, <1>2, <1>3, <1>4 DEF Wired
  <2>2. UNCHANGED <<open, queue, streams, age, beat>> /\ broken' \subseteq Sessions
    BY DEF BreakStream, serverVars, IInv, TypeOK
  <2> QED BY <1>4, <2>1, <2>2 DEF Closes, IInv, TypeOK, Lifecycle, Alive
<1>6. NothingNew
  BY Faults DEF NothingNew, BreakStream, serverVars, clientVars
<1>7. ClientStays /\ UNCHANGED <<opening, poll, ready, active>>
  BY DEF ClientStays, BreakStream, clientVars
<1> QED BY <1>5, <1>6, <1>7, ClosesKeeps DEF IInv, TypeOK

(* What ends a session on the bridge.                                      *)
LEMMA Stopping ==
  ASSUME IInv, NEW lost \in BOOLEAN, Stop(lost), starting' \in {"no", "failed"}
  PROVE  Closes /\ ClientLeaves /\ ready' \in BOOLEAN /\ active' \in BOOLEAN
<1>1. CASE lost
  BY <1>1, ClosingNone DEF Stop, ClientLeaves
<1>2. CASE ~lost
  <2>1. {mine} \cap open \in SUBSET Sessions
    BY DEF IInv, TypeOK
  <2> QED BY <1>2, <2>1, Closing DEF Stop, ClientLeaves
<1> QED BY <1>1, <1>2

LEMMA StopKeeps == ASSUME IInv, StopFirst \/ StartFails \/ OutputFails PROVE IInv'
<1>1. PICK lost \in BOOLEAN : Stop(lost)
  BY DEF StopFirst, StartFails, OutputFails, Fails
<1>2. UNCHANGED <<emitted, sentTo, opening, poll, handled>> /\ starting' \in {"no", "failed"}
  BY DEF StopFirst, StartFails, OutputFails, Fails
<1>3. Fault \/ UNCHANGED left
  BY DEF StopFirst, StartFails, OutputFails, Fails
<1>4. NothingNew
  BY <1>2, <1>3, Faults DEF NothingNew
<1> QED BY <1>1, <1>2, <1>4, Stopping, ClosesKeeps

LEMMA QuitKeeps == ASSUME IInv, Quit PROVE IInv'
<1>1. Closes
  BY ClosingNone DEF Quit, serverVars, netVars
<1>2. NothingNew
  BY Faults DEF NothingNew, Quit, serverVars
<1>3. ClientLeaves /\ UNCHANGED opening /\ poll' = NoPoll /\ ready' = FALSE /\ active' = FALSE
  BY DEF Quit, ClientLeaves, netVars
<1> QED BY <1>1, <1>2, <1>3, ClosesKeeps

(* Signs of life, and the passing of time.                                 *)
LEMMA AgeKeeps ==
  ASSUME IInv, UNCHANGED <<open, queue, streams, wire, broken, emitted, sentTo, opening, poll, handled, mine, starting, listening>>,
         age' \in [Sessions -> 0..Stale + 1], beat' \in [Sessions -> 0..Beat],
         \A s \in streams : age'[s] <= beat'[s],
         Fault \/ UNCHANGED left, ready' \in BOOLEAN, active' \in BOOLEAN
  PROVE  IInv'
<1>1. \A s \in Sessions : Wired(s)' = Wired(s)
  BY DEF Wired
<1>2. Closes
  BY <1>1 DEF Closes, IInv, TypeOK, Known, Ordered, Lifecycle
<1>3. NothingNew /\ ClientStays
  BY Faults DEF NothingNew, ClientStays
<1> QED BY <1>2, <1>3, ClosesKeeps

LEMMA StreamHeartbeatKeeps == ASSUME IInv, NEW s \in Sessions, StreamHeartbeat(s) PROVE IInv'
<1>1. /\ age' = [age EXCEPT ![s] = 0] /\ beat' = [beat EXCEPT ![s] = 0]
      /\ UNCHANGED <<open, queue, streams, emitted, sentTo, netVars, clientVars, left>>
  BY DEF StreamHeartbeat
<1>2. 0 \in 0..Stale + 1 /\ 0 \in 0..Beat
  BY ControlAssumption
<1>3. age' \in [Sessions -> 0..Stale + 1] /\ beat' \in [Sessions -> 0..Beat]
  BY <1>1, <1>2 DEF IInv, TypeOK
<1>4. \A t \in streams : age'[t] <= beat'[t]
  BY <1>1 DEF IInv, TypeOK, Alive
<1> QED BY <1>1, <1>3, <1>4, AgeKeeps DEF netVars, clientVars, IInv, TypeOK

LEMMA TickKeeps == ASSUME IInv, Tick PROVE IInv'
<1>1. /\ age' = [s \in Sessions |-> IF s \in open /\ age[s] <= Stale THEN age[s] + 1 ELSE age[s]]
      /\ beat' = [s \in Sessions |-> IF s \in streams THEN beat[s] + 1 ELSE beat[s]]
      /\ \A s \in streams : beat[s] < Beat
      /\ UNCHANGED <<open, queue, streams, emitted, sentTo, netVars, clientVars, left>>
  BY DEF Tick
<1>2. /\ Stale \in Nat /\ Beat \in Nat /\ age \in [Sessions -> 0..Stale + 1] /\ beat \in [Sessions -> 0..Beat]
      /\ streams \subseteq open /\ open \subseteq Sessions
  BY ControlAssumption DEF IInv, TypeOK
<1>3. age' \in [Sessions -> 0..Stale + 1]
  BY <1>1, <1>2
<1>4. beat' \in [Sessions -> 0..Beat]
  BY <1>1, <1>2
<1>5. ASSUME NEW s \in streams PROVE age'[s] <= beat'[s]
  <2>1. s \in Sessions /\ age[s] \in Int /\ beat[s] \in Int /\ age[s] <= beat[s]
    BY <1>2 DEF IInv, Alive
  <2>2. beat'[s] = beat[s] + 1 /\ age'[s] <= age[s] + 1
    BY <1>1, <2>1
  <2>3. age'[s] \in Int
    BY <1>3, <2>1
  <2> QED BY <2>1, <2>2, <2>3
<1> QED BY <1>1, <1>3, <1>4, <1>5, AgeKeeps DEF netVars, clientVars, IInv, TypeOK

LEMMA HeartbeatKeeps == ASSUME IInv, Heartbeat PROVE IInv'
<1>1. UNCHANGED <<emitted, sentTo, opening, poll, handled>>
  BY DEF Heartbeat
<1>2. CASE /\ mine \in open /\ age' = [age EXCEPT ![mine] = 0]
           /\ UNCHANGED <<open, queue, streams, beat, wire, broken, mine, starting, ready, active, listening, left>>
  <2>1. 0 \in 0..Stale + 1
    BY ControlAssumption
  <2>2. age' \in [Sessions -> 0..Stale + 1] /\ beat' \in [Sessions -> 0..Beat]
    BY <1>2, <2>1 DEF IInv, TypeOK
  <2>3. \A t \in streams : age'[t] <= beat'[t]
    BY <1>2, ControlAssumption DEF IInv, TypeOK, Alive
  <2> QED BY <1>1, <1>2, <2>2, <2>3, AgeKeeps DEF IInv, TypeOK
<1>3. CASE Stop(FALSE) /\ UNCHANGED <<starting, left>>
  <2>1. NothingNew
    BY <1>1, <1>3, Faults DEF NothingNew
  <2>2. starting' \in {"no", "failed"}
    BY <1>3 DEF Heartbeat
  <2> QED BY <1>1, <1>3, <2>1, <2>2, Stopping, ClosesKeeps
<1>4. CASE /\ Fault /\ ready' = FALSE
           /\ UNCHANGED <<open, queue, streams, age, beat, wire, broken, mine, starting, active, listening>>
  BY <1>1, <1>4, AgeKeeps DEF IInv, TypeOK, Alive
<1> QED BY <1>2, <1>3, <1>4 DEF Heartbeat

LEMMA FinishStartKeeps == ASSUME IInv, FinishStart PROVE IInv'
<1>1. Closes
  BY ClosingNone DEF FinishStart, serverVars, netVars
<1>2. NothingNew /\ ClientStays
  BY Faults DEF NothingNew, ClientStays, FinishStart, serverVars
<1> QED BY <1>1, <1>2, ClosesKeeps DEF FinishStart, netVars, IInv, TypeOK

(* What streams have brought has been handled, and is known.               *)
LEMMA StreamedKnown == ASSUME IInv PROVE Streamed \subseteq Held /\ \A m \in Streamed : m <= emitted
<1>1. ASSUME NEW m \in Streamed PROVE m \in Held
  <2>1. PICK i \in DOMAIN handled : handled[i] = By("stream", m)
    BY InRange DEF Streamed, IInv, TypeOK
  <2>2. handled[i].n = m
    BY <2>1 DEF By
  <2> QED BY <2>2 DEF Held, Streamed
<1> QED BY <1>1 DEF IInv, Known

(* An event that is handled now for the first time, and that, if it came   *)
(* over a stream, is later than all that came over streams before.         *)
LEMMA Handling ==
  ASSUME IInv, NEW w \in {"poll", "stream"}, NEW n \in 1..MaxEvents,
         handled' = Append(handled, By(w, n)),
         n \notin Held, w = "stream" => \A m \in Streamed : m < n
  PROVE  /\ handled' \in Seq([way : {"poll", "stream"}, n : 1..MaxEvents])
         /\ EventsInOrder' /\ Held' \subseteq Held \cup {n}
         /\ Streamed' \subseteq Streamed \cup (IF w = "stream" THEN {n} ELSE {})
<1> DEFINE H == [way : {"poll", "stream"}, n : 1..MaxEvents]
           x == By(w, n)
<1>1. handled \in Seq(H) /\ x \in H /\ x.way = w /\ x.n = n
  BY DEF IInv, TypeOK, By
<1> HIDE DEF x
<1>2. /\ handled' \in Seq(H) /\ Len(handled') = Len(handled) + 1 /\ handled'[Len(handled) + 1] = x
      /\ \A i \in 1 .. Len(handled) : handled'[i] = handled[i]
  <2>1. handled' = Append(handled, x)
    BY DEF x
  <2> QED BY <1>1, <2>1, AppendProperties
<1>3. /\ Len(handled) \in Nat /\ DOMAIN handled = 1 .. Len(handled)
      /\ DOMAIN handled' = 1 .. Len(handled) + 1
  BY <1>1, <1>2, LenProperties
<1>4. \A i \in DOMAIN handled' : \/ i \in DOMAIN handled /\ handled'[i] = handled[i]
                                 \/ i = Len(handled) + 1 /\ handled'[i] = x
  BY <1>2, <1>3
<1>5. \A i \in DOMAIN handled : handled[i] \in H /\ i < Len(handled) + 1
  <2> HIDE DEF H
  <2>1. \A i \in DOMAIN handled : handled[i] \in H
    BY <1>1, InRange
  <2> QED BY <1>3, <2>1
<1>6. \A i \in DOMAIN handled : handled[i].n # n
  BY DEF Held
<1>7. HandledOnce'
  BY <1>1, <1>4, <1>6 DEF IInv, EventsInOrder, HandledOnce
<1>8. \A i \in DOMAIN handled : handled[i].way = "stream" => handled[i].n \in Streamed
  <2> SUFFICES ASSUME NEW i \in DOMAIN handled, handled[i].way = "stream" PROVE handled[i].n \in Streamed
    OBVIOUS
  <2>1. handled[i] = By("stream", handled[i].n) /\ handled[i].n \in 1..MaxEvents
    BY <1>5 DEF By
  <2>2. handled[i] \in Range(handled)
    BY <1>1, InRange
  <2> QED BY <2>1, <2>2 DEF Streamed
<1>9. StreamsInOrder'
  <2> SUFFICES ASSUME NEW i \in DOMAIN handled', NEW j \in DOMAIN handled', i < j,
                      handled'[i].way = "stream", handled'[j].way = "stream"
               PROVE  handled'[i].n < handled'[j].n
    BY DEF StreamsInOrder
  <2>1. i \in DOMAIN handled /\ handled'[i] = handled[i]
    BY <1>3, <1>4
  <2>2. CASE j \in DOMAIN handled /\ handled'[j] = handled[j]
    BY <2>1, <2>2 DEF IInv, EventsInOrder, StreamsInOrder
  <2>3. CASE handled'[j] = x
    BY <1>1, <1>8, <2>1, <2>3
  <2> QED BY <1>4, <2>2, <2>3
<1>10. Held' \subseteq Held \cup {n}
  BY <1>1, <1>4 DEF Held
<1>11. ASSUME NEW m \in Streamed', m \notin Streamed PROVE w = "stream" /\ m = n
  <2>1. By("stream", m) \in Range(handled')
    BY DEF Streamed
  <2>2. PICK i \in DOMAIN handled' : handled'[i] = By("stream", m)
    <3>1. handled' \in Seq(H)
      BY <1>2
    <3> HIDE DEF H
    <3> DEFINE h == handled'
    <3>2. h \in Seq(H) /\ By("stream", m) \in Range(h)
      BY <2>1, <3>1
    <3> HIDE DEF h
    <3>3. \E i \in DOMAIN h : h[i] = By("stream", m)
      BY <3>2, InRange
    <3> QED BY <3>3 DEF h
  <2>3. handled'[i].way = "stream" /\ handled'[i].n = m
    BY <2>2 DEF By
  <2> QED BY <1>1, <1>4, <1>8, <1>11, <2>3
<1> QED BY <1>2, <1>7, <1>9, <1>10, <1>11 DEF EventsInOrder, x

(* The server queues an event.                                             *)
LEMMA EmitKeeps == ASSUME IInv, NEW s \in Sessions, Emit(s) PROVE IInv'
<1> DEFINE e == emitted + 1
<1>1. /\ s \in open /\ emitted' = emitted + 1 /\ sentTo' = [sentTo EXCEPT ![emitted + 1] = s] /\ Enqueue(s, e)
      /\ left.events > 0 /\ left' = [left EXCEPT !.events = @ - 1]
      /\ UNCHANGED <<open, streams, age, beat, broken, opening, clientVars>>
  BY DEF Emit
<1>2. /\ e \in 1..MaxEvents /\ emitted \in 0..MaxEvents /\ left' \in [events : 0..MaxEvents, faults : Nat, timed : BOOLEAN]
      /\ emitted' + left'.events <= MaxEvents
  <2>1. left \in [events : 0..MaxEvents, faults : Nat, timed : BOOLEAN] /\ emitted \in 0..MaxEvents /\ MaxEvents \in Nat
    BY ControlAssumption DEF IInv, TypeOK
  <2>2. left.events - 1 \in 0..MaxEvents /\ emitted + left.events <= MaxEvents
    BY <1>1, <2>1 DEF IInv, Known
  <2>3. left' = [left EXCEPT !.events = left.events - 1]
    BY <1>1
  <2>4. left' \in [events : 0..MaxEvents, faults : Nat, timed : BOOLEAN] /\ left'.events = left.events - 1
    BY <2>1, <2>2, <2>3
  <2> QED BY <1>1, <2>1, <2>2, <2>4
<1>3. /\ \A n \in Held \cup Todo \cup Streamed : n \in Int /\ n < e
      /\ \A t \in Sessions : \A n \in Queued(t) \cup Wired(t) : n \in Int /\ n < e
  <2>1. \A n \in Held \cup Todo \cup Streamed : n \in Int /\ n <= emitted
    <3>1. \A n \in Todo : n \in 1..MaxEvents
      <4>1. poll.todo \in Seq(1..MaxEvents)
        BY DEF IInv, TypeOK
      <4> QED BY <4>1, InRange DEF Todo
    <3>2. \A n \in Held \cup Streamed : n \in 1..MaxEvents
      BY DEF Held, Streamed
    <3> QED BY <3>1, <3>2, StreamedKnown DEF IInv, Known
  <2>2. \A t \in Sessions : \A n \in Queued(t) \cup Wired(t) : n \in Int /\ n <= emitted
    <3>1. \A t \in Sessions : queue[t] \in Seq(1..MaxEvents)
      BY DEF IInv, TypeOK
    <3>2. \A t \in Sessions : \A n \in Queued(t) : n \in 1..MaxEvents
      BY <3>1, InRange DEF Queued
    <3>3. \A t \in Sessions : \A n \in Wired(t) : n \in 1..MaxEvents
      BY DEF Wired
    <3> QED BY <3>2, <3>3 DEF IInv, Known
  <2> QED BY <1>2, <2>1, <2>2
<1>4. \A t \in Sessions : /\ queue[t] \in Seq(1..MaxEvents) /\ Rising(queue[t]) /\ Len(queue[t]) <= Capacity
                          /\ wire[t] \in Seq(Messages) /\ RisingWire(wire[t])
  BY DEF IInv, TypeOK, Known, Ordered
<1> HIDE DEF e
\* At one place of the session, the event comes in at the end.
<1> DEFINE Fits ==
      /\ queue' \in [Sessions -> Seq(1..MaxEvents)] /\ wire' \in [Sessions -> Seq(Messages)]
      /\ \A t \in Sessions : /\ Len(queue'[t]) <= Capacity /\ Rising(queue'[t]) /\ RisingWire(wire'[t])
                             /\ t # s => queue'[t] = queue[t]
                             /\ t \notin streams => wire'[t] = wire[t]
           OnTheWire ==
      /\ \A t \in Sessions : Queued(t)' \subseteq Queued(t) /\ (t # s => Wired(t)' \subseteq Wired(t))
      /\ Wired(s)' \subseteq Wired(s) \cup {e}
           InTheQueue ==
      /\ \A t \in Sessions : Wired(t)' \subseteq Wired(t) /\ (t # s => Queued(t)' \subseteq Queued(t))
      /\ Queued(s)' \subseteq Queued(s) \cup {e}
<1>5. ASSUME s \in streams PROVE Fits /\ OnTheWire
  <2>1. /\ wire' = [wire EXCEPT ![s] = IF s \in broken THEN wire[s] ELSE Append(wire[s], Event(e))]
        /\ queue' = queue
    BY <1>1, <1>5 DEF Enqueue
  <2>2. /\ Append(wire[s], Event(e)) \in Seq(Messages) /\ RisingWire(Append(wire[s], Event(e)))
        /\ \A n : On(Append(wire[s], Event(e)), n) => On(wire[s], n) \/ n = e
    <3>1. \A n \in 1..MaxEvents : On(wire[s], n) => n < e
      BY <1>3 DEF Wired
    <3> QED BY <1>2, <1>4, <3>1, WireAppend
  <2>3. /\ wire' \in [Sessions -> Seq(Messages)] /\ \A t \in Sessions : RisingWire(wire'[t])
        /\ \A t \in Sessions : t # s => wire'[t] = wire[t]
        /\ \A n : On(wire'[s], n) => On(wire[s], n) \/ n = e
    BY <1>4, <2>1, <2>2 DEF IInv, Known
  <2>4. /\ \A t \in Sessions : Queued(t)' = Queued(t) /\ (t # s => Wired(t)' = Wired(t))
        /\ Wired(s)' \subseteq Wired(s) \cup {e}
    BY <2>1, <2>3 DEF Queued, Wired
  <2>5. /\ queue' \in [Sessions -> Seq(1..MaxEvents)]
        /\ \A t \in Sessions : /\ Len(queue'[t]) <= Capacity /\ Rising(queue'[t])
                               /\ t # s => queue'[t] = queue[t]
                               /\ t \notin streams => wire'[t] = wire[t]
    BY <1>4, <1>5, <2>1, <2>3 DEF IInv, TypeOK
  <2>6. Fits
    BY <2>3, <2>5
  <2>7. OnTheWire
    BY <2>4
  <2> QED BY <2>6, <2>7
<1>6. ASSUME s \notin streams PROVE Fits /\ InTheQueue
  <2>1. /\ queue' = [queue EXCEPT ![s] = IF Len(queue[s]) < Capacity THEN Append(queue[s], e) ELSE Append(Tail(queue[s]), e)]
        /\ wire' = wire
    BY <1>1, <1>6 DEF Enqueue
  <2>2. \A n \in Range(queue[s]) : n < e
    BY <1>3 DEF Queued
  <2>3. Len(queue[s]) \in Nat /\ Capacity \in Nat \ {0}
    BY <1>4, ControlAssumption, LenProperties
  <2>4. /\ queue'[s] \in Seq(1..MaxEvents) /\ Rising(queue'[s]) /\ Len(queue'[s]) <= Capacity
        /\ Range(queue'[s]) \subseteq Range(queue[s]) \cup {e}
    <3>1. CASE Len(queue[s]) < Capacity
      <4>1. queue'[s] = Append(queue[s], e)
        BY <2>1, <3>1 DEF IInv, TypeOK
      <4>2. /\ Append(queue[s], e) \in Seq(1..MaxEvents) /\ Rising(Append(queue[s], e))
            /\ Range(Append(queue[s], e)) = Range(queue[s]) \cup {e}
            /\ Len(Append(queue[s], e)) = Len(queue[s]) + 1
        BY <1>2, <1>4, <2>2, AppendRising
      <4> QED BY <2>3, <3>1, <4>1, <4>2
    <3>2. CASE ~(Len(queue[s]) < Capacity)
      <4> DEFINE r == Tail(queue[s])
      <4>1. queue'[s] = Append(r, e)
        BY <2>1, <3>2 DEF IInv, TypeOK
      <4>2. queue[s] # <<>>
        BY <2>3, <3>2
      <4>3. /\ r \in Seq(1..MaxEvents) /\ Rising(r) /\ Range(r) \subseteq Range(queue[s])
            /\ Len(r) = Len(queue[s]) - 1
        BY <1>4, <4>2, TailRising
      <4> HIDE DEF r
      <4>4. /\ Append(r, e) \in Seq(1..MaxEvents) /\ Rising(Append(r, e))
            /\ Range(Append(r, e)) = Range(r) \cup {e} /\ Len(Append(r, e)) = Len(r) + 1
        BY <1>2, <2>2, <4>3, AppendRising
      <4>5. Len(queue[s]) <= Capacity
        BY <1>4
      <4> QED BY <2>3, <4>1, <4>3, <4>4, <4>5
    <3> QED BY <3>1, <3>2
  <2>5. queue' \in [Sessions -> Seq(1..MaxEvents)] /\ \A t \in Sessions : t # s => queue'[t] = queue[t]
    <3>1. queue' = [queue EXCEPT ![s] = queue'[s]]
      BY <2>1 DEF IInv, TypeOK
    <3> QED BY <2>4, <3>1 DEF IInv, TypeOK
  <2>6. \A t \in Sessions : Wired(t)' = Wired(t) /\ (t # s => Queued(t)' = Queued(t))
    BY <2>1, <2>5 DEF Queued, Wired
  <2>7. Queued(s)' \subseteq Queued(s) \cup {e}
    BY <2>4 DEF Queued
  <2>8. wire' \in [Sessions -> Seq(Messages)] /\ \A t \in Sessions : RisingWire(wire'[t]) /\ wire'[t] = wire[t]
    BY <1>4, <2>1 DEF IInv, Known
  <2>9. \A t \in Sessions : Len(queue'[t]) <= Capacity /\ Rising(queue'[t])
    BY <1>4, <2>4, <2>5
  <2>10. Fits
    BY <2>5, <2>8, <2>9
  <2>11. InTheQueue
    BY <2>6, <2>7
  <2> QED BY <2>10, <2>11
<1> HIDE DEF Fits, OnTheWire, InTheQueue
<1>7. Fits /\ (OnTheWire \/ InTheQueue)
  BY <1>5, <1>6
<1>8. Held' = Held /\ Todo' = Todo /\ Streamed' = Streamed
  BY <1>1 DEF clientVars, Held, Todo, Streamed
<1>9. TypeOK'
  <2>1. wire' \in [Sessions -> Seq([kind : Kinds, n : 0..MaxEvents])]
    BY <1>7, MessagesTyped DEF Fits
  <2>2. emitted' \in 0..MaxEvents /\ sentTo' \in [1..MaxEvents -> Sessions \cup {None}]
    <3>1. e \in 0..MaxEvents
      BY <1>2
    <3>2. emitted' = e /\ sentTo' = [sentTo EXCEPT ![e] = s]
      BY <1>1 DEF e
    <3>3. sentTo \in [1..MaxEvents -> Sessions \cup {None}]
      BY DEF IInv, TypeOK
    <3> QED BY <3>1, <3>2, <3>3
  <2>3. queue' \in [Sessions -> Seq(1..MaxEvents)] /\ \A t \in Sessions : Len(queue'[t]) <= Capacity
    BY <1>7 DEF Fits
  <2> QED BY <1>1, <1>2, <2>1, <2>2, <2>3 DEF IInv, TypeOK, clientVars
<1>10. EventsInOrder'
  BY <1>1 DEF IInv, EventsInOrder, HandledOnce, StreamsInOrder, clientVars
<1>11. Apart'
  <2>1. e \notin Held \cup Todo /\ \A t \in Sessions : e \notin Queued(t) \cup Wired(t)
    BY <1>2, <1>3
  <2>2. CASE OnTheWire
    BY <1>8, <2>1, <2>2 DEF IInv, Apart, OnTheWire
  <2>3. CASE InTheQueue
    BY <1>8, <2>1, <2>3 DEF IInv, Apart, InTheQueue
  <2> QED BY <1>7, <2>2, <2>3
<1>12. Known'
  <2>1. emitted' = e /\ \A n \in Held' \cup Todo' : n <= emitted'
    BY <1>1, <1>2, <1>3, <1>8 DEF e
  <2>2. \A t \in Sessions : \A n \in Queued(t)' \cup Wired(t)' : n <= e
    <3>1. \A t \in Sessions : Queued(t)' \cup Wired(t)' \subseteq Queued(t) \cup Wired(t) \cup {e}
      BY <1>7 DEF OnTheWire, InTheQueue
    <3> QED BY <1>2, <1>3, <3>1
  <2>3. wire' \in [Sessions -> Seq(Messages)]
    BY <1>7 DEF Fits
  <2> QED BY <1>2, <2>1, <2>2, <2>3 DEF Known
<1>13. Ordered'
  BY <1>1, <1>7 DEF IInv, Ordered, clientVars, Fits
<1>14. Lifecycle'
  BY <1>1, <1>7 DEF IInv, TypeOK, Lifecycle, clientVars, Fits
<1>15. Ahead'
  <2>1. mine' = mine /\ listening' = listening /\ opening' = opening /\ starting' = starting
    BY <1>1 DEF clientVars
  <2>2. \A t \in Sessions : /\ Wired(t)' \subseteq Wired(t) \cup {e}
                            /\ Queued(t)' \subseteq Queued(t) \cup {e}
    BY <1>7 DEF OnTheWire, InTheQueue
  <2>3. opening \subseteq Sessions /\ (listening # None => listening \in Sessions) /\ (starting = "input" => mine \in Sessions)
    BY DEF IInv, TypeOK, Lifecycle
  <2> QED BY <1>3, <1>8, <2>1, <2>2, <2>3 DEF IInv, Ahead
<1>16. Alive'
  BY <1>1 DEF IInv, Alive
<1> QED BY <1>9, <1>10, <1>11, <1>12, <1>13, <1>14, <1>15, <1>16 DEF IInv

(* Events that are queued for a session go to its wire.                    *)
LEMMA OpenStreamKeeps == ASSUME IInv, NEW s \in Sessions, OpenStream(s) \/ LoseStream(s) PROVE IInv'
<1>1. /\ s \in opening /\ opening' = opening \ {s}
      /\ UNCHANGED <<open, emitted, sentTo, broken, clientVars>> /\ (Fault \/ UNCHANGED left)
  BY DEF OpenStream, LoseStream, serverVars
<1>0. left'.events = left.events /\ left' \in [events : 0..MaxEvents, faults : Nat, timed : BOOLEAN]
  BY <1>1, Faults
<1>2. /\ s \notin streams /\ wire[s] = <<>> /\ Wired(s) = {}
      /\ queue[s] \in Seq(1..MaxEvents) /\ Rising(queue[s]) /\ Len(queue[s]) <= Capacity /\ Len(queue[s]) \in Nat
  <2>1. s \notin streams /\ wire[s] = <<>>
    BY <1>1 DEF IInv, Lifecycle
  <2>2. queue[s] \in Seq(1..MaxEvents) /\ Rising(queue[s]) /\ Len(queue[s]) <= Capacity
    BY DEF IInv, TypeOK, Ordered
  <2>3. Len(queue[s]) \in Nat
    BY <2>2, LenProperties
  <2>4. Wired(s) = {}
    BY <2>1 DEF Wired, On, Range
  <2> QED BY <2>1, <2>2, <2>3, <2>4
<1> DEFINE Fits ==
      /\ queue'[s] \in Seq(1..MaxEvents) /\ Rising(queue'[s]) /\ Len(queue'[s]) <= Capacity
      /\ wire'[s] \in Seq(Messages) /\ RisingWire(wire'[s])
      /\ Queued(s)' \subseteq Queued(s) \ Wired(s)' /\ Wired(s)' \subseteq Queued(s)
      /\ queue' = [queue EXCEPT ![s] = queue'[s]] /\ wire' = [wire EXCEPT ![s] = wire'[s]]
           Lives ==
      /\ s \notin open => queue'[s] = queue[s]
      /\ streams' \in {streams, streams \cup {s}} /\ streams' \subseteq open
      /\ age' \in [Sessions -> 0..Stale + 1] /\ beat' \in [Sessions -> 0..Beat]
      /\ \A t \in streams' : age'[t] <= beat'[t]
<1>3. ASSUME s \in open, OpenStream(s) PROVE Fits /\ Lives
  <2> DEFINE n == IF Len(queue[s]) < Drain THEN Len(queue[s]) ELSE Drain
             d == SubSeq(queue[s], 1, n)
             w == <<Say("open")>> \o [i \in DOMAIN d |-> Event(d[i])]
             r == SubSeq(queue[s], n + 1, Len(queue[s]))
  <2>1. n \in 0..Len(queue[s])
    BY <1>2, ControlAssumption
  <2>2. Len(d) = n
    <3> HIDE DEF n
    <3> QED BY <1>2, <2>1, Cut
  <2>3. /\ streams' = streams \cup {s} /\ beat' = [beat EXCEPT ![s] = 0] /\ age' = [age EXCEPT ![s] = 0]
        /\ wire' = [wire EXCEPT ![s] = w]
        /\ queue' = [queue EXCEPT ![s] = SubSeq(queue[s], Len(d) + 1, Len(queue[s]))]
    BY <1>3 DEF OpenStream
  <2> HIDE DEF n
  <2>4. queue' = [queue EXCEPT ![s] = r]
    BY <2>2, <2>3
  <2>5. /\ d \in Seq(1..MaxEvents) /\ Rising(d) /\ r \in Seq(1..MaxEvents) /\ Rising(r)
        /\ Len(r) <= Len(queue[s]) /\ Range(d) \subseteq Range(queue[s])
        /\ Range(r) \subseteq Range(queue[s]) \ Range(d)
    BY <1>2, <2>1, Cut
  <2>6. Len(r) \in Nat
    BY <2>5, LenProperties
  <2> HIDE DEF d, r
  <2>7. w \in Seq(Messages) /\ RisingWire(w) /\ \A m : On(w, m) => m \in Range(d)
    BY <2>5, WireOpened
  <2> HIDE DEF w
  <2>8. queue'[s] = r /\ wire'[s] = w
    BY <2>3, <2>4 DEF IInv, TypeOK
  <2>9. Queued(s)' \subseteq Queued(s) \ Wired(s)' /\ Wired(s)' \subseteq Queued(s)
    BY <2>5, <2>7, <2>8 DEF Queued, Wired
  <2>10. Len(r) <= Capacity
    BY <1>2, <2>5, <2>6, ControlAssumption
  <2>11. Fits
    BY <2>3, <2>4, <2>5, <2>7, <2>8, <2>9, <2>10
  <2>12. 0 \in 0..Stale + 1 /\ 0 \in 0..Beat
    BY ControlAssumption
  <2>13. age' \in [Sessions -> 0..Stale + 1] /\ beat' \in [Sessions -> 0..Beat]
    BY <2>3, <2>12 DEF IInv, TypeOK
  <2>14. \A t \in streams' : age'[t] <= beat'[t]
    BY <2>3 DEF IInv, TypeOK, Alive
  <2>15. Lives
    BY <1>3, <2>3, <2>13, <2>14 DEF IInv, TypeOK
  <2> QED BY <2>11, <2>15
<1>4. ASSUME s \notin open \/ LoseStream(s) PROVE Fits /\ Lives
  <2> DEFINE w == <<Say("error"), Say("closed")>>
  <2>1. wire' = [wire EXCEPT ![s] = w] /\ UNCHANGED <<queue, streams, beat, age>>
    BY <1>4 DEF OpenStream, LoseStream, serverVars
  <2>2. \A k \in {"error", "closed"} : Say(k) \in Messages /\ Say(k).kind # "event"
    BY ControlAssumption DEF Say, Messages, Kinds
  <2>3. w \in Seq(Messages) /\ \A i \in DOMAIN w : w[i].kind # "event"
    BY <2>2
  <2> HIDE DEF w
  <2>4. RisingWire(w) /\ \A n : ~On(w, n)
    BY <2>3, OnWire DEF RisingWire
  <2>5. wire'[s] = w /\ queue'[s] = queue[s]
    BY <2>1 DEF IInv, TypeOK
  <2>6. Wired(s)' = {} /\ Queued(s)' = Queued(s)
    BY <2>4, <2>5 DEF Wired, Queued
  <2>7. Fits
    BY <1>2, <2>1, <2>3, <2>4, <2>5, <2>6 DEF IInv, TypeOK
  <2>8. Lives
    BY <2>1, <2>5 DEF IInv, TypeOK, Alive
  <2> QED BY <2>7, <2>8
<1> HIDE DEF Fits, Lives
<1>5. Fits /\ Lives
  BY <1>3, <1>4
<1>6. Held' = Held /\ Todo' = Todo /\ Streamed' = Streamed /\ poll' = poll
  BY <1>1 DEF clientVars, Held, Todo, Streamed
<1>7. \A t \in Sessions : /\ wire'[t] \in Seq(Messages) /\ RisingWire(wire'[t])
                          /\ queue'[t] \in Seq(1..MaxEvents) /\ Rising(queue'[t]) /\ Len(queue'[t]) <= Capacity
                          /\ t # s => /\ wire'[t] = wire[t] /\ queue'[t] = queue[t]
                                      /\ Queued(t)' = Queued(t) /\ Wired(t)' = Wired(t)
  BY <1>5 DEF Fits, IInv, TypeOK, Known, Ordered, Queued, Wired
<1>8. wire' \in [Sessions -> Seq(Messages)] /\ queue' \in [Sessions -> Seq(1..MaxEvents)]
  BY <1>5, <1>7 DEF Fits, IInv, TypeOK
<1>9. TypeOK'
  <2>1. wire' \in [Sessions -> Seq([kind : Kinds, n : 0..MaxEvents])]
    BY <1>8, MessagesTyped
  <2>2. /\ age' \in [Sessions -> 0..Stale + 1] /\ beat' \in [Sessions -> 0..Beat] /\ streams' \subseteq open'
    BY <1>1, <1>5 DEF Lives
  <2>3. \A t \in Sessions : Len(queue'[t]) <= Capacity
    BY <1>7
  <2> QED BY <1>0, <1>1, <1>8, <2>1, <2>2, <2>3 DEF IInv, TypeOK, clientVars
<1>10. EventsInOrder'
  BY <1>1 DEF IInv, EventsInOrder, HandledOnce, StreamsInOrder, clientVars
<1>11. Queued(s)' \subseteq Queued(s) \ Wired(s)' /\ Wired(s)' \subseteq Queued(s)
  BY <1>5 DEF Fits
<1>12. Apart'
  <2>1. ASSUME NEW t \in Sessions
        PROVE  Held' \cap (Queued(t)' \cup Wired(t)') = {} /\ Todo' \cap (Queued(t)' \cup Wired(t)') = {}
    BY <1>6, <1>7, <1>11 DEF IInv, Apart
  <2>2. ASSUME NEW t \in Sessions, NEW v \in Sessions
        PROVE  /\ Queued(t)' \cap Wired(v)' = {}
               /\ t # v => Queued(t)' \cap Queued(v)' = {} /\ Wired(t)' \cap Wired(v)' = {}
    BY <1>7, <1>11 DEF IInv, Apart
  <2>3. Held' \cap Todo' = {}
    BY <1>6 DEF IInv, Apart
  <2> QED BY <2>1, <2>2, <2>3 DEF Apart
<1>13. Known'
  BY <1>0, <1>1, <1>6, <1>7, <1>8, <1>11 DEF IInv, Known
<1>14. Ordered'
  BY <1>6, <1>7 DEF IInv, Ordered
<1>15. Lifecycle'
  <2>1. /\ streams' \in {streams, streams \cup {s}} /\ (s \notin open => queue'[s] = queue[s])
    BY <1>5 DEF Lives
  <2>2. mine' = mine /\ listening' = listening /\ starting' = starting /\ opening' = opening \ {s} /\ open' = open
    BY <1>1 DEF clientVars
  <2>3. \A t \in Sessions \ open' : queue'[t] = <<>>
    BY <1>7, <2>1, <2>2 DEF IInv, Lifecycle
  <2>4. starting' = "input" => mine' \notin streams' \cup opening' /\ wire'[mine'] = <<>> /\ listening' = None
    BY <1>1, <1>7, <2>1, <2>2 DEF IInv, TypeOK, Lifecycle
  <2>5. \A t \in opening' : t \notin streams' /\ wire'[t] = <<>>
    BY <1>7, <2>1, <2>2 DEF IInv, TypeOK, Lifecycle
  <2> QED BY <2>2, <2>3, <2>4, <2>5 DEF IInv, Lifecycle
<1>16. Ahead'
  <2>1. mine' = mine /\ listening' = listening /\ starting' = starting /\ opening' = opening \ {s}
    BY <1>1 DEF clientVars
  <2>2. opening \subseteq Sessions /\ (listening # None => listening \in Sessions) /\ (starting = "input" => mine \in Sessions /\ mine \notin opening)
    BY DEF IInv, TypeOK, Lifecycle
  <2>3. listening' # None => \A m \in Streamed', n \in Wired(listening)' : m < n
    BY <1>1, <1>6, <1>7, <1>11, <2>1, <2>2 DEF IInv, Ahead
  <2>4. ASSUME listening' \in opening' PROVE \A m \in Streamed', n \in Queued(listening)' : m < n
    <3>1. listening \in opening /\ listening \in Sessions /\ listening # s
      BY <2>1, <2>2, <2>4
    <3> QED BY <1>6, <1>7, <2>1, <3>1 DEF IInv, Ahead
  <2>5. ASSUME starting' = "input" PROVE \A m \in Streamed', n \in Queued(mine)' : m < n
    <3>1. mine \in Sessions /\ mine # s
      BY <1>1, <2>1, <2>2, <2>5
    <3> QED BY <1>6, <1>7, <2>1, <2>5, <3>1 DEF IInv, Ahead
  <2> QED BY <2>3, <2>4, <2>5 DEF Ahead
<1>17. Alive'
  BY <1>5 DEF Lives, Alive
<1> QED BY <1>9, <1>10, <1>12, <1>13, <1>14, <1>15, <1>16, <1>17 DEF IInv

(* A new session takes the place of the others.                            *)
LEMMA CreateKeeps == ASSUME IInv, NEW s \in Sessions, Create(s) PROVE IInv'
<1>1. /\ starting = "no" /\ ready = FALSE /\ mine = None /\ Forgotten(s)
      /\ open' = {s} /\ streams' = {} /\ broken' = {}
      /\ wire' = [t \in Sessions |-> IF t \in streams \ broken THEN wire[t] \o Kick ELSE wire[t]]
      /\ queue' = [t \in Sessions |-> <<>>]
      /\ age' = [t \in Sessions |-> 0] /\ beat' = [t \in Sessions |-> 0]
      /\ \/ mine' = s /\ starting' = "input" /\ UNCHANGED left
         \/ Fault /\ UNCHANGED <<mine, starting>>
      /\ sentTo' = [e \in 1..MaxEvents |-> IF sentTo[e] = s THEN None ELSE sentTo[e]]
      /\ UNCHANGED <<emitted, opening, ready, active, listening, poll, handled>>
  <2>1. ready = FALSE
    BY DEF Create, IInv, TypeOK
  <2> QED BY <2>1 DEF Create
<1>2. listening = None
  BY <1>1 DEF IInv, Lifecycle
<1>3. s \notin open /\ s \notin streams /\ s \notin opening /\ wire[s] = <<>>
  BY <1>1 DEF Forgotten
<1>4. left'.events = left.events /\ left' \in [events : 0..MaxEvents, faults : Nat, timed : BOOLEAN]
  BY <1>1, Faults
<1>5. Range(<<>>) = {} /\ <<>> \in Seq(1..MaxEvents) /\ DOMAIN <<>> = {} /\ Len(<<>>) = 0
  BY DEF Range
<1>6. \A t \in Sessions : queue'[t] = <<>> /\ Queued(t)' = {}
  BY <1>1, <1>5 DEF Queued
<1>7. \A t \in Sessions : /\ wire[t] \in Seq(Messages) /\ RisingWire(wire[t])
                          /\ wire[t] \o Kick \in Seq(Messages) /\ RisingWire(wire[t] \o Kick)
                          /\ \A n : On(wire[t] \o Kick, n) => On(wire[t], n)
  <2>1. \A t \in Sessions : wire[t] \in Seq(Messages) /\ RisingWire(wire[t])
    BY DEF IInv, Known, Ordered
  <2>2. Kick \in Seq(Messages) /\ \A i \in DOMAIN Kick : Kick[i].kind # "event"
    BY Words
  <2> QED BY <2>1, <2>2, WireWords
<1>8. /\ wire' \in [Sessions -> Seq(Messages)]
      /\ \A t \in Sessions : /\ RisingWire(wire'[t]) /\ Wired(t)' \subseteq Wired(t)
                             /\ t \notin streams => wire'[t] = wire[t]
  BY <1>1, <1>7 DEF Wired
<1>9. Held' = Held /\ Todo' = Todo /\ Streamed' = Streamed
  BY <1>1 DEF Held, Todo, Streamed
<1>10. TypeOK'
  <2>1. wire' \in [Sessions -> Seq([kind : Kinds, n : 0..MaxEvents])]
    BY <1>8, MessagesTyped
  <2>2. age' \in [Sessions -> 0..Stale + 1] /\ beat' \in [Sessions -> 0..Beat] /\ 0 <= Capacity
    BY <1>1, ControlAssumption
  <2>3. sentTo' \in [1..MaxEvents -> Sessions \cup {None}]
    BY <1>1 DEF IInv, TypeOK
  <2>4. queue' \in [Sessions -> Seq(1..MaxEvents)] /\ \A t \in Sessions : Len(queue'[t]) <= Capacity
    <3>1. Len(<<>>) <= Capacity
      BY <1>5, <2>2
    <3>2. \A t \in Sessions : Len(queue'[t]) <= Capacity
      BY <1>6, <3>1
    <3> QED BY <1>1, <1>5, <3>2
  <2>5. mine' \in Sessions \cup {None} /\ starting' \in {"no", "input", "rest", "failed", "off"}
    BY <1>1
  <2> QED BY <1>1, <1>4, <2>1, <2>2, <2>3, <2>4, <2>5 DEF IInv, TypeOK
<1>11. EventsInOrder'
  BY <1>1 DEF IInv, EventsInOrder, HandledOnce, StreamsInOrder
<1>12. Apart'
  BY <1>6, <1>8, <1>9, Shrinking DEF IInv
<1>13. Known'
  BY <1>1, <1>4, <1>6, <1>8, <1>9 DEF IInv, Known
<1>14. Ordered'
  BY <1>1, <1>5, <1>6, <1>8 DEF IInv, Ordered, Rising
<1>15. Lifecycle'
  BY <1>1, <1>2, <1>3, <1>6, <1>8, ControlAssumption DEF IInv, TypeOK, Lifecycle
<1>16. Ahead'
  <2>1. listening' = None /\ None \notin opening'
    BY <1>1, <1>2, ControlAssumption DEF IInv, TypeOK
  <2>2. starting' = "input" => mine' = s
    BY <1>1
  <2>3. starting' = "input" => Queued(mine)' = {}
    BY <1>6, <2>2
  <2> QED BY <2>1, <2>3 DEF Ahead
<1>17. Alive'
  BY <1>1 DEF Alive
<1> QED BY <1>10, <1>11, <1>12, <1>13, <1>14, <1>15, <1>16, <1>17 DEF IInv

(* The session is ready and asks for its stream.                           *)
LEMMA BecomeReadyKeeps == ASSUME IInv, BecomeReady PROVE IInv'
<1>1. /\ starting = "input" /\ starting' = "rest" /\ ready' = TRUE
      /\ listening' = mine /\ opening' = opening \cup {mine}
      /\ UNCHANGED <<serverVars, wire, broken, mine, active, poll, handled, left>>
  BY DEF BecomeReady, AskForStream
<1>2. mine \in Sessions /\ mine \notin streams /\ wire[mine] = <<>> /\ Wired(mine) = {}
  <2>1. mine \in Sessions /\ mine \notin streams /\ wire[mine] = <<>>
    BY <1>1 DEF IInv, TypeOK, Lifecycle
  <2> QED BY <2>1 DEF Wired, On, Range
<1>3. /\ Held' = Held /\ Todo' = Todo /\ Streamed' = Streamed
      /\ \A t \in Sessions : Queued(t)' = Queued(t) /\ Wired(t)' = Wired(t)
  BY <1>1 DEF serverVars, Held, Todo, Streamed, Queued, Wired
<1>4. TypeOK'
  BY <1>1, <1>2 DEF IInv, TypeOK, serverVars
<1>5. EventsInOrder'
  BY <1>1 DEF IInv, EventsInOrder, HandledOnce, StreamsInOrder
<1>6. Apart' /\ Known' /\ Ordered'
  BY <1>1, <1>3, Shrinking DEF IInv, Known, Ordered, serverVars
<1>7. Lifecycle'
  BY <1>1, <1>2 DEF IInv, TypeOK, Lifecycle, serverVars
<1>8. Ahead'
  <2>1. \A m \in Streamed, n \in Queued(mine) : m < n
    BY <1>1 DEF IInv, Ahead
  <2>2. mine' = mine /\ listening' = mine /\ starting' = "rest"
    BY <1>1
  <2>3. Wired(listening)' = {} /\ Queued(listening)' = Queued(mine)
    BY <1>2, <1>3, <2>2
  <2> QED BY <1>3, <2>1, <2>2, <2>3 DEF Ahead
<1>9. Alive'
  BY <1>1 DEF IInv, Alive, serverVars
<1> QED BY <1>4, <1>5, <1>6, <1>7, <1>8, <1>9 DEF IInv

(* A poll takes events from the queue, or is answered with nothing.        *)
LEMMA PollKeeps == ASSUME IInv, Poll PROVE IInv'
<1> DEFINE n == IF Len(queue[mine]) < Drain THEN Len(queue[mine]) ELSE Drain
           d == SubSeq(queue[mine], 1, n)
           r == SubSeq(queue[mine], n + 1, Len(queue[mine]))
<1>1. /\ poll = NoPoll
      /\ UNCHANGED <<open, streams, beat, emitted, sentTo, netVars, mine, starting, ready, active, listening, handled>>
  BY DEF Poll
<1>2. CASE /\ mine \notin open /\ poll' = [of |-> mine, ok |-> FALSE, todo |-> <<>>]
           /\ UNCHANGED <<queue, age, left>>
  <2>1. poll' \in [of : Sessions \cup {None}, ok : BOOLEAN, todo : Seq(1..MaxEvents)]
    BY <1>2 DEF IInv, TypeOK
  <2>2. Held' = Held /\ Streamed' = Streamed /\ \A s \in Sessions : Queued(s)' = Queued(s) /\ Wired(s)' = Wired(s)
    BY <1>1, <1>2 DEF netVars, Held, Streamed, Queued, Wired
  <2>3. poll'.todo = <<>> /\ Todo' = {} /\ Rising(<<>>)
    BY <1>2 DEF Todo, Range, Rising
  <2>4. TypeOK'
    BY <1>1, <1>2, <2>1 DEF IInv, TypeOK, netVars
  <2>5. EventsInOrder' /\ Alive' /\ Lifecycle'
    BY <1>1, <1>2 DEF IInv, EventsInOrder, HandledOnce, StreamsInOrder, Alive, Lifecycle, netVars
  <2>6. Apart'
    BY <2>2, <2>3, Shrinking DEF IInv
  <2>7. Known'
    BY <1>1, <1>2, <2>2, <2>3 DEF IInv, Known, netVars
  <2>8. Ordered'
    BY <1>1, <1>2, <2>3 DEF IInv, Ordered, netVars
  <2>9. Ahead'
    <3>1. opening \subseteq Sessions /\ (listening # None => listening \in Sessions) /\ (starting = "input" => mine \in Sessions)
      BY DEF IInv, TypeOK, Lifecycle
    <3> QED BY <1>1, <2>2, <3>1 DEF IInv, Ahead, netVars
  <2> QED BY <2>4, <2>5, <2>6, <2>7, <2>8, <2>9 DEF IInv
<1>3. CASE /\ mine \in open
           /\ poll' \in {[of |-> mine, ok |-> TRUE, todo |-> d], [of |-> mine, ok |-> FALSE, todo |-> <<>>]}
           /\ queue' = [queue EXCEPT ![mine] = r]
           /\ age' = [age EXCEPT ![mine] = 0]
           /\ Fault \/ UNCHANGED left
  <2>1. mine \in Sessions /\ queue[mine] \in Seq(1..MaxEvents) /\ Rising(queue[mine]) /\ Len(queue[mine]) <= Capacity
    BY <1>3 DEF IInv, TypeOK, Ordered
  <2>2. n \in 0..Len(queue[mine]) /\ Len(queue[mine]) \in Nat
    BY <2>1, ControlAssumption, LenProperties
  <2> HIDE DEF n
  <2>3. /\ d \in Seq(1..MaxEvents) /\ Rising(d) /\ r \in Seq(1..MaxEvents) /\ Rising(r)
        /\ Len(r) <= Len(queue[mine]) /\ Range(d) \subseteq Range(queue[mine])
        /\ Range(r) \subseteq Range(queue[mine]) \ Range(d)
    BY <2>1, <2>2, Cut
  <2>4. Len(r) \in Nat
    BY <2>3, LenProperties
  <2> HIDE DEF d, r
  <2>5. left'.events = left.events /\ left' \in [events : 0..MaxEvents, faults : Nat, timed : BOOLEAN]
    BY <1>3, Faults
  <2>6. /\ poll' \in [of : Sessions \cup {None}, ok : BOOLEAN, todo : Seq(1..MaxEvents)]
        /\ poll'.todo \in {d, <<>>}
    <3> DEFINE e == <<>>
               T == Seq(1..MaxEvents)
    <3>1. e \in T /\ d \in T
      BY <2>3
    <3>2. poll' = [of |-> mine, ok |-> TRUE, todo |-> d] \/ poll' = [of |-> mine, ok |-> FALSE, todo |-> e]
      BY <1>3
    <3> HIDE DEF e, T
    <3>3. poll' \in [of : Sessions \cup {None}, ok : BOOLEAN, todo : T] /\ poll'.todo \in {d, e}
      <4>1. mine \in Sessions \cup {None} /\ TRUE \in BOOLEAN /\ FALSE \in BOOLEAN
        BY <2>1
      <4>2. CASE poll' = [of |-> mine, ok |-> TRUE, todo |-> d]
        BY <3>1, <4>1, <4>2
      <4>3. CASE poll' = [of |-> mine, ok |-> FALSE, todo |-> e]
        BY <3>1, <4>1, <4>3
      <4> QED BY <3>2, <4>2, <4>3
    <3> QED BY <3>3 DEF e, T
  <2>7. Rising(poll'.todo) /\ Range(poll'.todo) \subseteq Range(d)
    BY <2>3, <2>6 DEF Rising, Range
  <2>8. queue'[mine] = r /\ \A s \in Sessions : s # mine => queue'[s] = queue[s]
    BY <1>3, <2>1 DEF IInv, TypeOK
  <2>9. /\ Todo' \subseteq Queued(mine) /\ Queued(mine)' \subseteq Queued(mine) \ Todo'
        /\ \A s \in Sessions : s # mine => Queued(s)' = Queued(s)
        /\ \A s \in Sessions : Queued(s)' \subseteq Queued(s)
    <3>1. Todo' \subseteq Range(d) /\ Range(d) \subseteq Queued(mine)
      <4>1. Todo' = Range(poll'.todo)
        BY DEF Todo
      <4>2. Queued(mine) = Range(queue[mine])
        BY DEF Queued
      <4> QED BY <2>3, <2>7, <4>1, <4>2, Zenon
    <3>2. Queued(mine)' = Range(r) /\ Queued(mine)' \subseteq Queued(mine) \ Range(d)
      <4>1. Queued(mine)' = Range(r)
        BY <1>1, <2>8 DEF Queued
      <4> QED BY <2>3, <4>1 DEF Queued
    <3>3. \A s \in Sessions : s # mine => Queued(s)' = Queued(s)
      BY <2>8 DEF Queued
    <3>4. ASSUME NEW s \in Sessions PROVE Queued(s)' \subseteq Queued(s)
      <4>1. CASE s = mine
        BY <1>1, <2>8, <3>2, <4>1 DEF Queued
      <4> QED BY <3>3, <4>1
    <3> QED BY <3>1, <3>2, <3>3, <3>4
  <2>10. Held' = Held /\ Streamed' = Streamed /\ \A s \in Sessions : Wired(s)' = Wired(s)
    BY <1>1 DEF netVars, Held, Streamed, Wired
  <2>11. TypeOK'
    <3>1. queue' \in [Sessions -> Seq(1..MaxEvents)]
      BY <1>3, <2>3 DEF IInv, TypeOK
    <3>2. \A s \in Sessions : Len(queue'[s]) <= Capacity
      <4>1. Len(r) <= Capacity
        BY <2>1, <2>2, <2>3, <2>4, ControlAssumption
      <4> QED BY <2>8, <4>1 DEF IInv, TypeOK
    <3>3. 0 \in 0..Stale + 1
      BY ControlAssumption
    <3>4. age' \in [Sessions -> 0..Stale + 1]
      BY <1>3, <3>3 DEF IInv, TypeOK
    <3> QED BY <1>1, <2>5, <2>6, <3>1, <3>2, <3>4 DEF IInv, TypeOK, netVars
  <2>12. EventsInOrder'
    BY <1>1 DEF IInv, EventsInOrder, HandledOnce, StreamsInOrder
  <2>13. Apart'
    <3>1. \A s \in Sessions : Queued(s)' \subseteq Queued(s)
      BY <2>9
    <3>2. ASSUME NEW s \in Sessions
          PROVE  /\ Held' \cap (Queued(s)' \cup Wired(s)') = {}
                 /\ Todo' \cap (Queued(s)' \cup Wired(s)') = {}
      <4>1. Held' \cap (Queued(s)' \cup Wired(s)') = {}
        BY <2>10, <3>1 DEF IInv, Apart
      <4>2. Todo' \cap Wired(s)' = {}
        BY <2>1, <2>9, <2>10 DEF IInv, Apart
      <4>3. s # mine => Todo' \cap Queued(s)' = {}
        BY <2>1, <2>9 DEF IInv, Apart
      <4>4. s = mine => Todo' \cap Queued(s)' = {}
        <5>1. s = mine => Queued(s)' = Queued(mine)'
          BY <1>1
        <5> QED BY <2>9, <5>1
      <4> QED BY <4>1, <4>2, <4>3, <4>4
    <3>3. ASSUME NEW s \in Sessions, NEW t \in Sessions
          PROVE  /\ Queued(s)' \cap Wired(t)' = {}
                 /\ s # t => Queued(s)' \cap Queued(t)' = {} /\ Wired(s)' \cap Wired(t)' = {}
      BY <2>10, <3>1 DEF IInv, Apart
    <3>4. Held' \cap Todo' = {}
      BY <2>1, <2>9, <2>10 DEF IInv, Apart
    <3> QED BY <3>2, <3>3, <3>4 DEF Apart
  <2>14. Known'
    BY <1>1, <2>1, <2>5, <2>9, <2>10 DEF IInv, Known, netVars
  <2>15. Ordered'
    BY <1>1, <2>3, <2>7, <2>8 DEF IInv, Ordered, netVars
  <2>16. Lifecycle'
    BY <1>1, <1>3, <2>8 DEF IInv, Lifecycle, netVars
  <2>17. Ahead'
    <3>1. \A s \in Sessions : Queued(s)' \subseteq Queued(s)
      BY <2>9
    <3>2. opening \subseteq Sessions /\ (listening # None => listening \in Sessions) /\ (starting = "input" => mine \in Sessions)
      BY DEF IInv, TypeOK, Lifecycle
    <3> QED BY <1>1, <2>10, <3>1, <3>2 DEF IInv, Ahead, netVars
  <2>18. Alive'
    BY <1>1, <1>3, ControlAssumption DEF IInv, TypeOK, Alive
  <2> QED BY <2>11, <2>12, <2>13, <2>14, <2>15, <2>16, <2>17, <2>18 DEF IInv
<1>4. \/ /\ mine \notin open /\ poll' = [of |-> mine, ok |-> FALSE, todo |-> <<>>]
         /\ UNCHANGED <<queue, age, left>>
      \/ /\ mine \in open
         /\ poll' \in {[of |-> mine, ok |-> TRUE, todo |-> d], [of |-> mine, ok |-> FALSE, todo |-> <<>>]}
         /\ queue' = [queue EXCEPT ![mine] = r]
         /\ age' = [age EXCEPT ![mine] = 0]
         /\ Fault \/ UNCHANGED left
  BY DEF Poll
<1> QED BY <1>2, <1>3, <1>4

(* An event of the answer to a poll is handled, or the poll is over.       *)
LEMMA PollAnsweredKeeps == ASSUME IInv, PollAnswered PROVE IInv'
<1>1. UNCHANGED <<serverVars, netVars, mine, active, listening, left>>
  BY DEF PollAnswered
<1>2. CASE poll.todo = <<>>
  <2>1. poll' = NoPoll /\ UNCHANGED handled /\ ready' = (ready /\ poll.ok) /\ starting' \in {starting, "no"}
    BY <1>2 DEF PollAnswered
  <2>2. Closes
    BY <1>1, ClosingNone DEF serverVars, netVars
  <2>3. NothingNew /\ ClientStays /\ UNCHANGED opening
    BY <1>1, <2>1, Faults DEF NothingNew, ClientStays, serverVars, netVars
  <2>4. ready' \in BOOLEAN /\ active' \in BOOLEAN
    <3>1. ready' \in BOOLEAN
      BY <2>1, Zenon
    <3> QED BY <1>1, <3>1 DEF IInv, TypeOK
  <2> QED BY <2>1, <2>2, <2>3, <2>4, ClosesKeeps
<1>3. CASE poll.todo # <<>>
  <2> DEFINE q == poll.todo
             e == Head(q)
  <2>1. /\ handled' = Append(handled, By("poll", e)) /\ poll' = [poll EXCEPT !.todo = Tail(q)]
        /\ UNCHANGED <<ready, starting>>
    BY <1>3 DEF PollAnswered
  <2>2. q \in Seq(1..MaxEvents) /\ q # <<>> /\ Rising(q) /\ Todo = Range(q)
    BY <1>3 DEF IInv, TypeOK, Ordered, Todo
  <2> HIDE DEF q
  <2>3. /\ Tail(q) \in Seq(1..MaxEvents) /\ Rising(Tail(q)) /\ Range(Tail(q)) \subseteq Range(q) \ {e}
        /\ e \in Range(q) /\ e \in 1..MaxEvents
    BY <2>2, TailRising
  <2> HIDE DEF e
  <2>4. e \in Todo /\ e \notin Held /\ \A s \in Sessions : e \notin Queued(s) \cup Wired(s)
    BY <2>2, <2>3 DEF IInv, Apart
  <2>5. /\ handled' \in Seq([way : {"poll", "stream"}, n : 1..MaxEvents])
        /\ EventsInOrder' /\ Held' \subseteq Held \cup {e} /\ Streamed' \subseteq Streamed
    BY <2>1, <2>3, <2>4, Handling
  <2>6. /\ poll' \in [of : Sessions \cup {None}, ok : BOOLEAN, todo : Seq(1..MaxEvents)]
        /\ poll'.todo = Tail(q)
    BY <2>1, <2>3 DEF IInv, TypeOK
  <2>7. Todo' \subseteq Todo \ {e}
    BY <2>2, <2>3, <2>6 DEF Todo
  <2>8. \A s \in Sessions : Queued(s)' = Queued(s) /\ Wired(s)' = Wired(s)
    BY <1>1 DEF serverVars, netVars, Queued, Wired
  <2>9. TypeOK'
    BY <1>1, <2>1, <2>5, <2>6 DEF IInv, TypeOK, serverVars, netVars
  <2>10. Apart'
    BY <2>4, <2>5, <2>7, <2>8 DEF IInv, Apart
  <2>11. Known'
    BY <1>1, <2>4, <2>5, <2>7, <2>8 DEF IInv, Known, serverVars, netVars
  <2>12. Ordered'
    BY <1>1, <2>3, <2>6 DEF IInv, Ordered, serverVars, netVars
  <2>13. Lifecycle' /\ Alive'
    BY <1>1, <2>1 DEF IInv, Lifecycle, Alive, serverVars, netVars
  <2>14. Ahead'
    <3>1. opening \subseteq Sessions /\ (listening # None => listening \in Sessions) /\ (starting = "input" => mine \in Sessions)
      BY DEF IInv, TypeOK, Lifecycle
    <3> QED BY <1>1, <2>1, <2>5, <2>8, <3>1 DEF IInv, Ahead, netVars
  <2> QED BY <2>5, <2>9, <2>10, <2>11, <2>12, <2>13, <2>14 DEF IInv
<1> QED BY <1>2, <1>3

(* A message arrives on a stream.                                          *)
LEMMA ReceiveKeeps == ASSUME IInv, NEW s \in Sessions, Receive(s) PROVE IInv'
<1> DEFINE m == Head(wire[s])
<1>1. /\ wire[s] # <<>> /\ wire' = [wire EXCEPT ![s] = Tail(wire[s])]
      /\ UNCHANGED <<serverVars, broken, opening, mine, starting, poll, left>>
  BY DEF Receive
<1>2. \/ listening # s /\ UNCHANGED <<active, ready, listening, handled>>
      \/ /\ listening = s
         /\ active' = (CASE m.kind = "open" -> TRUE
                          [] m.kind \in {"session-closed", "error", "closed"} -> FALSE
                          [] OTHER -> active)
         /\ ready' = (ready /\ m.kind \notin {"kicked", "session-closed"})
         /\ listening' = (IF m.kind \in {"session-closed", "closed"} THEN None ELSE listening)
         /\ handled' = (IF m.kind = "event" THEN Append(handled, By("stream", m.n)) ELSE handled)
  BY DEF Receive
<1>3. wire[s] \in Seq(Messages) /\ RisingWire(wire[s])
  BY DEF IInv, Known, Ordered
<1>4. /\ Tail(wire[s]) \in Seq(Messages) /\ RisingWire(Tail(wire[s])) /\ m \in Messages
      /\ \A n : On(Tail(wire[s]), n) => On(wire[s], n)
      /\ m.kind = "event" => /\ m.n \in 1..MaxEvents /\ On(wire[s], m.n)
                             /\ \A n : On(Tail(wire[s]), n) => m.n < n
  BY <1>1, <1>3, WireTail
<1> HIDE DEF m
<1>5. wire' \in [Sessions -> Seq(Messages)] /\ wire'[s] = Tail(wire[s])
  BY <1>1, <1>4 DEF IInv, Known
<1>6. \A t \in Sessions : /\ RisingWire(wire'[t]) /\ Wired(t)' \subseteq Wired(t)
                          /\ wire[t] = <<>> => wire'[t] = wire[t]
                          /\ t # s => wire'[t] = wire[t]
  <2>1. \A t \in Sessions : t # s => wire'[t] = wire[t]
    BY <1>1 DEF IInv, Known
  <2>2. \A t \in Sessions : RisingWire(wire[t])
    BY DEF IInv, Ordered
  <2>3. RisingWire(wire'[s]) /\ Wired(s)' \subseteq Wired(s)
    BY <1>4, <1>5 DEF Wired
  <2>4. ASSUME NEW t \in Sessions, t # s PROVE RisingWire(wire'[t]) /\ Wired(t)' \subseteq Wired(t)
    BY <2>1, <2>2, <2>4 DEF Wired
  <2> QED BY <1>1, <2>1, <2>3, <2>4
<1>7. ready' \in BOOLEAN /\ active' \in BOOLEAN
  <2>1. ready' \in BOOLEAN
    <3>1. CASE ready' = (ready /\ m.kind \notin {"kicked", "session-closed"})
      BY <3>1, Zenon
    <3>2. CASE ready' = ready
      BY <3>2 DEF IInv, TypeOK
    <3> QED BY <1>2, <3>1, <3>2
  <2>2. active' \in BOOLEAN
    BY <1>2 DEF IInv, TypeOK
  <2> QED BY <2>1, <2>2
<1>8. CASE listening # s \/ m.kind # "event"
  <2>1. Closes
    BY <1>1, <1>5, <1>6 DEF Closes, serverVars, IInv, TypeOK, Lifecycle, Alive
  <2>2. NothingNew
    BY <1>1, <1>2, <1>8, Faults DEF NothingNew, serverVars
  <2>3. ClientStays
    BY <1>1, <1>2 DEF ClientStays
  <2> QED BY <1>1, <1>7, <2>1, <2>2, <2>3, ClosesKeeps
<1>9. CASE listening = s /\ m.kind = "event"
  <2> DEFINE e == m.n
  <2>1. handled' = Append(handled, By("stream", e)) /\ listening' = listening
    BY <1>2, <1>9
  <2>2. e \in 1..MaxEvents /\ e \in Wired(s) /\ \A n \in Wired(s)' : e < n
    BY <1>4, <1>5, <1>9 DEF Wired
  <2> HIDE DEF e
  <2>3. e \notin Held /\ e \notin Todo /\ \A t \in Sessions : e \notin Queued(t)
    BY <2>2 DEF IInv, Apart
  <2>4. \A t \in Sessions : e \notin Wired(t)'
    <3>1. e \notin Wired(s)'
      BY <2>2
    <3>2. \A t \in Sessions : t # s => e \notin Wired(t)
      BY <2>2 DEF IInv, Apart
    <3> QED BY <1>6, <3>1, <3>2
  <2>5. \A k \in Streamed : k < e
    BY <1>9, <2>2, ControlAssumption DEF IInv, Ahead
  <2>6. /\ handled' \in Seq([way : {"poll", "stream"}, n : 1..MaxEvents])
        /\ EventsInOrder' /\ Held' \subseteq Held \cup {e} /\ Streamed' \subseteq Streamed \cup {e}
    BY <2>1, <2>2, <2>3, <2>5, Handling
  <2>7. Todo' = Todo /\ \A t \in Sessions : Queued(t)' = Queued(t)
    BY <1>1 DEF serverVars, Todo, Queued
  <2>8. TypeOK'
    <3>1. wire' \in [Sessions -> Seq([kind : Kinds, n : 0..MaxEvents])]
      BY <1>5, MessagesTyped
    <3> QED BY <1>1, <1>7, <2>1, <2>6, <3>1 DEF IInv, TypeOK, serverVars
  <2>9. Apart'
    BY <1>6, <2>3, <2>4, <2>6, <2>7 DEF IInv, Apart
  <2>10. Known'
    BY <1>1, <1>5, <1>6, <2>2, <2>6, <2>7 DEF IInv, Known, serverVars
  <2>11. Ordered'
    BY <1>1, <1>6 DEF IInv, Ordered, serverVars
  <2>12. Lifecycle'
    BY <1>1, <1>6, <2>1 DEF IInv, TypeOK, Lifecycle, serverVars
  <2>13. Ahead'
    <3>1. starting # "input" /\ listening \notin opening
      BY <1>1, <1>9, ControlAssumption DEF IInv, Lifecycle
    <3>2. Wired(listening)' = Wired(s)'
      BY <1>9, <2>1
    <3>3. \A k \in Streamed', n \in Wired(s)' : k < n
      <4>1. \A k \in Streamed, n \in Wired(s)' : k < n
        BY <1>6, <1>9, ControlAssumption DEF IInv, Ahead
      <4> QED BY <2>2, <2>6, <4>1
    <3> QED BY <1>1, <2>1, <3>1, <3>2, <3>3 DEF Ahead
  <2>14. Alive'
    BY <1>1 DEF IInv, Alive, serverVars
  <2> QED BY <2>6, <2>8, <2>9, <2>10, <2>11, <2>12, <2>13, <2>14 DEF IInv
<1> QED BY <1>8, <1>9

LEMMA NextKeeps == IInv /\ [Next]_vars => IInv'
<1> SUFFICES ASSUME IInv, [Next]_vars PROVE IInv'
  OBVIOUS
<1>1. CASE UNCHANGED vars
  <2>1. Closes
    BY <1>1, ClosingNone DEF vars, serverVars, netVars
  <2>2. NothingNew /\ ClientStays /\ UNCHANGED <<opening, poll, ready, active>>
    BY <1>1, Faults DEF NothingNew, ClientStays, vars, serverVars, netVars, clientVars
  <2> QED BY <2>1, <2>2, ClosesKeeps DEF IInv, TypeOK
<1>2. CASE \E s \in Sessions : Emit(s) \/ OpenStream(s) \/ LoseStream(s) \/ StreamHeartbeat(s) \/ CleanUp(s)
                               \/ BreakStream(s) \/ NoticeBreak(s) \/ Create(s) \/ Receive(s)
  BY <1>2, EmitKeeps, OpenStreamKeeps, StreamHeartbeatKeeps, CleanUpKeeps, BreakStreamKeeps,
     CreateKeeps, ReceiveKeeps
<1>3. CASE Tick \/ Takeover \/ ServerRestart
  BY <1>3, TickKeeps, TakeoverKeeps
<1>4. CASE StopFirst \/ BecomeReady \/ FinishStart \/ StartFails \/ OutputFails
  BY <1>4, StopKeeps, BecomeReadyKeeps, FinishStartKeeps
<1>5. CASE Poll \/ PollAnswered \/ Heartbeat \/ Quit
  BY <1>5, PollKeeps, PollAnsweredKeeps, HeartbeatKeeps, QuitKeeps
<1> QED BY <1>1, <1>2, <1>3, <1>4, <1>5 DEF Next

(***************************************************************************)
(* The theorems.                                                           *)
(***************************************************************************)
(* The inductive invariant holds in every state.                           *)
THEOREM InvariantHolds == Spec => []IInv
BY InitIInv, NextKeeps, PTL DEF Spec

(* The state of a control session is of its type: among others a stream is *)
(* one of an open session, and no queue is longer than its capacity.       *)
THEOREM TypesHold == Spec => []TypeOK
<1>1. IInv => TypeOK
  BY DEF IInv
<1> QED BY <1>1, InvariantHolds, PTL

(* No event is handled twice, whatever polls, streams, ends of sessions    *)
(* and restarts come between, and those of streams are handled in order.   *)
THEOREM EventsHandledInOrder == Spec => []EventsInOrder
<1>1. IInv => EventsInOrder
  BY DEF IInv
<1> QED BY <1>1, InvariantHolds, PTL

(* An event is at one place at most: the queue of one session, on the way  *)
(* over one stream, in the answer to a poll, or handled.                   *)
THEOREM EventsApart == Spec => []Apart
<1>1. IInv => Apart
  BY DEF IInv
<1> QED BY <1>1, InvariantHolds, PTL

(* The server has one session for the port at most.                        *)
THEOREM OneSession == Spec => [](\A s, t \in open : s = t)
<1>1. IInv => \A s, t \in open : s = t
  BY DEF IInv, Lifecycle
<1> QED BY <1>1, InvariantHolds, PTL

(* A session whose stream is connected is not ended for being stale, when  *)
(* the period of the heartbeat is within the limit, as it is in            *)
(* serverCore.js: the sign of life is never older than the last heartbeat. *)
THEOREM StreamKept == ASSUME Beat <= Stale PROVE Spec => StreamKeepsSession
<1>1. IInv => \A s \in streams \ broken : ~CleanUp(s)
  <2> SUFFICES ASSUME IInv, NEW s \in streams, CleanUp(s) PROVE FALSE
    OBVIOUS
  <2>1. age[s] <= beat[s] /\ age[s] > Stale
    BY DEF IInv, Alive, CleanUp
  <2>2. age[s] \in Int /\ beat[s] \in 0..Beat /\ Stale \in Nat /\ Beat \in Nat
    BY ControlAssumption DEF IInv, TypeOK
  <2> QED BY <2>1, <2>2
<1>2. IInv /\ [Next]_vars => [\A s \in streams \ broken : ~CleanUp(s)]_vars
  BY <1>1
<1> QED BY <1>2, InvariantHolds, PTL DEF Spec, StreamKeepsSession
=============================================================================
