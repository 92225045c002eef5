---------------------------- MODULE Edges_proofs ----------------------------
(***************************************************************************)
(* Proofs about the parts of Edges, one after the other: the radio gateway *)
(* R, the audio of a port of a bridge B, the settings of the server C and  *)
(* what companions and tally lights are told T.                            *)
(***************************************************************************)
EXTENDS Edges, SequencesExt, FiniteSetTheorems, SequenceTheorems, WellFoundedInduction, NaturalsInduction, TLAPS

-----------------------------------------------------------------------------
(***************************************************************************)
(* For any number of talkers and of playbacks, and whatever is spent, the  *)
(* radio gateway plays one talk at a time and keys the radio exactly while *)
(* somebody talks to it, unless a race that the model names intervened.    *)
(*                                                                         *)
(* Threads, the queue of the pin and the events interleave freely.  The    *)
(* inductive invariant says how far each of them is: what the queue of the *)
(* pin will do, which playback the thread of the queue is about to start   *)
(* or to stop, what is left of a cleanup, and which event, task or timer   *)
(* still carries the latest talk to the key.                               *)
(***************************************************************************)

(***************************************************************************)
(* The values of the variables.                                            *)
(***************************************************************************)
RaceNames == {"fault", "late", "unknown", "toggle", "abandoned"}

ThreadStates ==
  {th \in [at : {"idle", "consuming", "keying", "resuming", "keyed", "unkeying", "closing", "killing"},
           talker : Talkers \cup {None}, session : Sessions \cup {0}, last : BOOLEAN, ahead : Nat] :
     /\ th.at = "consuming" => th.talker \in Talkers
     /\ th.at \in {"keying", "resuming", "closing", "killing"} => th.session \in Sessions}

Off == [do |-> "state", of |-> FALSE]
On == [do |-> "state", of |-> TRUE]
Key == [do |-> "key", of |-> None]
Shutdown == [do |-> "shutdown", of |-> None]
Starts == [do : {"start"}, of : Talkers]
Losses == [do : {"gone"}, of : Talkers] \cup [do : {"closed"}, of : Sessions]
Tasks == Starts \cup Losses \cup {Key, Shutdown}
RadioEvents == Starts \cup Losses \cup {On, Off}

GwStates == [active : Sessions \cup {0}, pending : Talkers \cup {None}, queue : Seq(Tasks), timer : BOOLEAN,
             threads : [R!Threads -> ThreadStates]]
PttStates == [active : BOOLEAN, desired : BOOLEAN, waiting : Nat, stage : {"idle", "on", "tail", "off"},
              pin : BOOLEAN]
RxStates == [active : BOOLEAN, live : BOOLEAN, toggles : Seq(BOOLEAN), muted : {"no", "tx", "tail"}]
Playbacks == [talker : Talkers \cup {None}, consumer : {"closed", "paused", "live"}, plays : BOOLEAN]
Worlds == [gw : GwStates, ptt : PttStates, rx : RxStates, sess : [Sessions -> Playbacks],
           races : SUBSET RaceNames]

RadioTypes ==
  /\ R!World \in Worlds /\ talk \in [Talkers -> {"none", "radio", "else", "gone"}]
  /\ delivered \subseteq Talkers /\ inbox \in Seq(RadioEvents)
  /\ phase \in {"setup", "producing", "running", "closing"}

(***************************************************************************)
(* The inductive invariant.                                                *)
(***************************************************************************)
Unfailed(r) == r \cap {"fault", "abandoned"} = {}
Queue(w) == w.gw.threads["queue"]
RadioSilent(w) == \A n \in Sessions : ~w.sess[n].plays
Stopping(w) == Queue(w).at \in {"closing", "killing"}

\* What is still to come of the cleanup of a session.
Cleanup(w) ==
  \/ w.gw.queue # <<>> /\ R!Last(w.gw.queue) = Shutdown
  \/ w.gw.queue = <<>> /\ Stopping(w) /\ Queue(w).last
  \/ w.gw.queue = <<>> /\ RadioSilent(w) /\ ~w.ptt.desired

PlayInv(w, ph) ==
  /\ w.gw.threads["rescue"].at = "idle"
  /\ \A n \in Sessions : w.sess[n].plays => n = w.gw.active
  /\ Queue(w).at = "consuming" => w.gw.active = 0
  /\ Stopping(w) => Queue(w).session = w.gw.active
  /\ Queue(w).at = "unkeying" => RadioSilent(w)
  /\ Stopping(w) /\ Queue(w).last => ph = "closing"
  /\ Shutdown \in R!Range(w.gw.queue) => ph = "closing"
  /\ ph = "closing" => Cleanup(w)

PinInv(w) ==
  /\ w.ptt.pin = w.ptt.active
  /\ w.ptt.pin => w.rx.muted = "tx"

PttInv(p) ==
  /\ p.stage = "idle" => p.waiting = 0 /\ p.active = p.desired
  /\ p.stage = "on" => ~p.active /\ (p.waiting = 0 => p.desired)
  /\ p.stage = "tail" => p.active
  /\ p.stage = "off" => p.active /\ (p.waiting = 0 => ~p.desired)

RxInv(r, ph, rs) ==
  /\ ph = "running" /\ "toggle" \notin rs =>
       IF r.toggles = <<>> THEN r.live = r.active ELSE R!Last(r.toggles) = r.active
  /\ ph # "running" => r.toggles = <<>> /\ ~r.active

RadioFirst(w) ==
  /\ w.ptt.stage = "idle" /\ ~w.ptt.desired /\ ~w.ptt.active /\ w.gw.active = 0
  /\ \/ Queue(w).at = "consuming"
     \/ Queue(w).at = "idle" /\ R!Range(w.gw.queue) \cap Starts # {}

Followed(ib, what, by) == \A i \in DOMAIN ib : ib[i] \in what => \E j \in DOMAIN ib : j > i /\ ib[j] = by

KeyInv(w, tk, ib) ==
  IF \E p \in Talkers : tk[p] = "radio"
  THEN /\ Followed(ib, {Off}, On)
       /\ w.gw.timer => On \in R!Range(ib)
       /\ On \in R!Range(ib) \/ Key \in R!Range(w.gw.queue) \/ w.ptt.desired \/ RadioFirst(w)
  ELSE /\ Followed(ib, Starts \cup {On}, Off)
       /\ Off \in R!Range(ib) \/ w.gw.timer \/ ~w.ptt.desired

RadioGood(w, tk, ib, ph) ==
  /\ PttInv(w.ptt)
  /\ RxInv(w.rx, ph, w.races)
  /\ Unfailed(w.races) => PlayInv(w, ph) /\ PinInv(w)
  /\ w.races \subseteq {"unknown"} /\ ph # "closing" => KeyInv(w, tk, ib)

RadioIInv == RadioTypes /\ RadioGood(R!World, talk, inbox, phase)

(***************************************************************************)
(* Lemmas about the records.                                               *)
(***************************************************************************)
(* The parts of a state.                                                   *)
LEMMA RadioParts ==
  ASSUME NEW w \in Worlds
  PROVE  /\ w.gw \in GwStates /\ w.ptt \in PttStates /\ w.rx \in RxStates
         /\ w.sess \in [Sessions -> Playbacks] /\ w.races \in SUBSET RaceNames
         /\ w = [gw |-> w.gw, ptt |-> w.ptt, rx |-> w.rx, sess |-> w.sess, races |-> w.races]
BY DEF Worlds

(* A state of parts.                                                       *)
LEMMA Whole ==
  ASSUME NEW g \in GwStates, NEW p \in PttStates, NEW r \in RxStates,
         NEW s \in [Sessions -> Playbacks], NEW rs \in SUBSET RaceNames
  PROVE  [gw |-> g, ptt |-> p, rx |-> r, sess |-> s, races |-> rs] \in Worlds
BY DEF Worlds

(* A thread in another state.                                              *)
LEMMA ThreadTypes ==
  /\ R!Idle \in ThreadStates
  /\ \A th \in ThreadStates :
       /\ \A k \in Nat : [th EXCEPT !.ahead = k] \in ThreadStates
       /\ \A at \in {"idle", "keyed", "unkeying"} : [th EXCEPT !.at = at] \in ThreadStates
       /\ th.session \in Sessions => \A at \in {"keying", "resuming", "closing", "killing"} :
            [th EXCEPT !.at = at] \in ThreadStates
BY DEF ThreadStates, R!Idle

(***************************************************************************)
(* The pin.                                                                *)
(***************************************************************************)
\* Of the transmitting part only what the threads await may differ.
SameWork(g, h) ==
  /\ h.active = g.active /\ h.pending = g.pending /\ h.queue = g.queue /\ h.timer = g.timer
  /\ \A x \in R!Threads : /\ h.threads[x].at = g.threads[x].at /\ h.threads[x].talker = g.threads[x].talker
                          /\ h.threads[x].session = g.threads[x].session /\ h.threads[x].last = g.threads[x].last

\* Of a state only what concerns the queue of the pin may differ.
RadioSameBut(w, v) ==
  /\ v \in Worlds /\ SameWork(w.gw, v.gw) /\ v.rx = w.rx /\ v.sess = w.sess /\ v.races = w.races
  /\ v.ptt.active = w.ptt.active /\ v.ptt.pin = w.ptt.pin

(* Threads that await the pin go on without being changed otherwise.       *)
LEMMA AheadOnly ==
  ASSUME NEW g \in GwStates, NEW f \in [R!Threads -> Nat]
  PROVE  LET h == [g EXCEPT !.threads = [x \in R!Threads |-> [g.threads[x] EXCEPT !.ahead = f[x]]]]
         IN  h \in GwStates /\ SameWork(g, h)
<1> DEFINE ts == [x \in R!Threads |-> [g.threads[x] EXCEPT !.ahead = f[x]]]
           h == [g EXCEPT !.threads = ts]
<1>1. \A x \in R!Threads : g.threads[x] \in ThreadStates
  BY DEF GwStates
<1>2. \A x \in R!Threads : [g.threads[x] EXCEPT !.ahead = f[x]] \in ThreadStates
  BY <1>1, ThreadTypes
<1>3. \A x \in R!Threads : LET th == [g.threads[x] EXCEPT !.ahead = f[x]]
                         IN  /\ th.at = g.threads[x].at /\ th.talker = g.threads[x].talker
                             /\ th.session = g.threads[x].session /\ th.last = g.threads[x].last
  BY <1>1 DEF ThreadStates
<1>4. ts \in [R!Threads -> ThreadStates] /\ \A x \in R!Threads : ts[x] = [g.threads[x] EXCEPT !.ahead = f[x]]
  BY <1>2
<1> HIDE DEF ts
<1>5. /\ h.active = g.active /\ h.pending = g.pending /\ h.queue = g.queue /\ h.timer = g.timer
      /\ h.threads = ts /\ h \in GwStates
  BY <1>4 DEF GwStates
<1> HIDE DEF h
<1>6. h \in GwStates /\ SameWork(g, h)
  BY <1>3, <1>4, <1>5 DEF SameWork
<1> QED BY <1>6 DEF h, ts

(* An application begins.                                                  *)
LEMMA ApplyEffect ==
  ASSUME NEW w \in Worlds, NEW queued \in Nat \ {0}
  PROVE  LET v == R!Apply(w, queued)
         IN  RadioSameBut(w, v) /\ v.ptt.desired = w.ptt.desired /\ PttInv(v.ptt)
<1> DEFINE todo == IF w.ptt.desired /\ ~w.ptt.active THEN "on"
                   ELSE IF ~w.ptt.desired /\ w.ptt.active THEN "tail" ELSE "idle"
           over == IF todo = "idle" THEN queued ELSE 1
           f == [x \in R!Threads |-> IF todo # "idle" \/ w.gw.threads[x].ahead = 0 THEN w.gw.threads[x].ahead
                                   ELSE IF w.gw.threads[x].ahead > over THEN w.gw.threads[x].ahead - over ELSE 0]
           h == [w.gw EXCEPT !.threads = [x \in R!Threads |-> [w.gw.threads[x] EXCEPT !.ahead = f[x]]]]
           p == [w.ptt EXCEPT !.stage = todo, !.waiting = queued - over]
           v == R!Apply(w, queued)
<1>1. over \in Nat /\ queued - over \in Nat /\ todo \in {"on", "tail", "idle"}
  OBVIOUS
<1>2. \A x \in R!Threads : w.gw.threads[x].ahead \in Nat /\ w.gw.threads[x] \in ThreadStates
  BY RadioParts DEF GwStates, ThreadStates
<1>3. f \in [R!Threads -> Nat]
  BY <1>1, <1>2
<1>4. h \in GwStates /\ SameWork(w.gw, h)
  BY <1>3, AheadOnly, RadioParts
<1>5. \A x \in R!Threads :
        [w.gw.threads[x] EXCEPT !.ahead = IF todo # "idle" \/ @ = 0 THEN @ ELSE IF @ > over THEN @ - over ELSE 0]
          = [w.gw.threads[x] EXCEPT !.ahead = f[x]]
  BY <1>2 DEF ThreadStates
<1>6. p \in PttStates /\ p.desired = w.ptt.desired /\ p.active = w.ptt.active /\ p.pin = w.ptt.pin
      /\ p.stage = todo /\ p.waiting = queued - over
  BY <1>1, RadioParts DEF PttStates
<1>7. v = [gw |-> h, ptt |-> p, rx |-> w.rx, sess |-> w.sess, races |-> w.races]
  <2> DEFINE ts == [x \in R!Threads |->
                [w.gw.threads[x] EXCEPT !.ahead = IF todo # "idle" \/ @ = 0 THEN @ ELSE IF @ > over THEN @ - over ELSE 0]]
  <2>1. ts = [x \in R!Threads |-> [w.gw.threads[x] EXCEPT !.ahead = f[x]]]
    BY <1>5
  <2>2. v = [w EXCEPT !.ptt.stage = todo, !.ptt.waiting = queued - over, !.gw.threads = ts]
    BY DEF R!Apply
  <2>3. h = [w.gw EXCEPT !.threads = ts]
    BY <2>1
  <2> HIDE DEF ts, todo, over, h, v
  <2> QED BY <2>2, <2>3, RadioParts DEF Worlds, PttStates, GwStates
<1>8. PttInv(p)
  BY <1>1, <1>6, RadioParts DEF PttInv, PttStates
<1> HIDE DEF h, p, todo, over, f
<1> QED BY <1>4, <1>6, <1>7, <1>8, Whole, RadioParts DEF RadioSameBut

(* An application is over, and the next begins.                            *)
LEMMA AppliedEffect ==
  ASSUME NEW w \in Worlds, w.ptt.waiting = 0 => w.ptt.active = w.ptt.desired
  PROVE  LET v == R!Applied(w)
         IN  RadioSameBut(w, v) /\ v.ptt.desired = w.ptt.desired /\ PttInv(v.ptt)
<1> DEFINE f == [x \in R!Threads |-> IF w.gw.threads[x].ahead = 0 THEN 0 ELSE w.gw.threads[x].ahead - 1]
           h == [w.gw EXCEPT !.threads = [x \in R!Threads |-> [w.gw.threads[x] EXCEPT !.ahead = f[x]]]]
           p == [w.ptt EXCEPT !.stage = "idle"]
           u == [gw |-> h, ptt |-> p, rx |-> w.rx, sess |-> w.sess, races |-> w.races]
           v == R!Applied(w)
<1> SUFFICES RadioSameBut(w, v) /\ v.ptt.desired = w.ptt.desired /\ PttInv(v.ptt)
  OBVIOUS
<1>1. \A x \in R!Threads : w.gw.threads[x].ahead \in Nat /\ w.gw.threads[x] \in ThreadStates
  BY RadioParts DEF GwStates, ThreadStates
<1>2. f \in [R!Threads -> Nat]
  BY <1>1
<1>3. h \in GwStates /\ SameWork(w.gw, h)
  BY <1>2, AheadOnly, RadioParts
<1>4. \A x \in R!Threads :
        [w.gw.threads[x] EXCEPT !.ahead = IF @ = 0 THEN 0 ELSE @ - 1] = [w.gw.threads[x] EXCEPT !.ahead = f[x]]
  BY <1>1 DEF ThreadStates
<1>5. p \in PttStates /\ p.desired = w.ptt.desired /\ p.active = w.ptt.active /\ p.pin = w.ptt.pin
      /\ p.stage = "idle" /\ p.waiting = w.ptt.waiting /\ p.waiting \in Nat
  BY RadioParts DEF PttStates
<1>6. v = IF u.ptt.waiting = 0 THEN u ELSE R!Apply(u, u.ptt.waiting)
  <2> DEFINE ts == [x \in R!Threads |-> [w.gw.threads[x] EXCEPT !.ahead = IF @ = 0 THEN 0 ELSE @ - 1]]
             z == [w EXCEPT !.ptt.stage = "idle", !.gw.threads = ts]
  <2>1. ts = [x \in R!Threads |-> [w.gw.threads[x] EXCEPT !.ahead = f[x]]]
    BY <1>4
  <2>2. v = IF z.ptt.waiting = 0 THEN z ELSE R!Apply(z, z.ptt.waiting)
    BY DEF R!Applied
  <2>3. h = [w.gw EXCEPT !.threads = ts]
    BY <2>1
  <2> HIDE DEF ts, h, f
  <2>4. z = [w EXCEPT !.ptt = p, !.gw = h]
    BY <2>3 DEF Worlds
  <2> HIDE DEF p, z
  <2>5. z = u
    BY <2>4 DEF Worlds
  <2> USE DEF z
  <2> HIDE DEF z, v, u
  <2> QED BY <2>2, <2>5
<1> HIDE DEF h, f, p
<1>7. u \in Worlds /\ RadioSameBut(w, u) /\ u.ptt.desired = w.ptt.desired /\ u.ptt = p
  BY <1>3, <1>5, Whole, RadioParts DEF RadioSameBut
<1> HIDE DEF u, v
<1>8. CASE u.ptt.waiting = 0
  BY <1>5, <1>6, <1>7, <1>8 DEF PttInv
<1>9. CASE u.ptt.waiting # 0
  <2>1. u.ptt.waiting \in Nat \ {0}
    BY <1>5, <1>7, <1>9
  <2>2. RadioSameBut(u, v) /\ v.ptt.desired = u.ptt.desired /\ PttInv(v.ptt)
    BY <1>6, <1>7, <1>9, <2>1, ApplyEffect
  <2> QED BY <1>7, <2>2 DEF RadioSameBut, SameWork
<1> QED BY <1>8, <1>9

(* The pin is asked to be set or let go of.                                *)
LEMMA SetPttEffect ==
  ASSUME NEW w \in Worlds, NEW enabled \in BOOLEAN, NEW x \in R!Threads \cup {None}, PttInv(w.ptt)
  PROVE  LET v == R!SetPtt(w, enabled, x)
         IN  RadioSameBut(w, v) /\ v.ptt.desired = enabled /\ PttInv(v.ptt)
<1> DEFINE v1 == [w EXCEPT !.ptt.desired = enabled]
           more == v1.ptt.waiting + (IF v1.ptt.stage = "idle" THEN 1 ELSE 2)
           u == IF x = None THEN v1 ELSE [v1 EXCEPT !.gw.threads[x].ahead = more]
           v == R!SetPtt(w, enabled, x)
           p == [w.ptt EXCEPT !.desired = enabled]
<1> SUFFICES RadioSameBut(w, v) /\ v.ptt.desired = enabled /\ PttInv(v.ptt)
  OBVIOUS
<1>1. v1 = [gw |-> w.gw, ptt |-> p, rx |-> w.rx, sess |-> w.sess, races |-> w.races]
  BY RadioParts DEF Worlds, PttStates
<1>2. p \in PttStates /\ p.desired = enabled /\ p.active = w.ptt.active /\ p.pin = w.ptt.pin
      /\ p.stage = w.ptt.stage /\ p.waiting = w.ptt.waiting /\ p.waiting \in Nat
  BY RadioParts DEF PttStates
<1> HIDE DEF p
<1>3. v1 \in Worlds /\ RadioSameBut(w, v1) /\ v1.ptt = p
  BY <1>1, <1>2, Whole, RadioParts DEF RadioSameBut, SameWork
<1>4. v = IF v1.ptt.stage = "idle" THEN R!Apply(u, 1) ELSE [u EXCEPT !.ptt.waiting = @ + 1]
  BY DEF R!SetPtt
<1>5. more \in Nat
  BY <1>2, <1>3
<1> HIDE DEF v1, more
<1>6. u \in Worlds /\ RadioSameBut(v1, u) /\ u.ptt = p
  <2>1. CASE x = None
    BY <1>3, <2>1 DEF RadioSameBut, SameWork
  <2>2. CASE x # None
    <3> DEFINE f == [y \in R!Threads |-> IF y = x THEN more ELSE v1.gw.threads[y].ahead]
               h == [v1.gw EXCEPT !.threads = [y \in R!Threads |-> [v1.gw.threads[y] EXCEPT !.ahead = f[y]]]]
    <3>1. x \in R!Threads /\ \A y \in R!Threads : v1.gw.threads[y].ahead \in Nat /\ v1.gw.threads[y] \in ThreadStates
      BY <1>3, <2>2, RadioParts DEF GwStates, ThreadStates
    <3>2. f \in [R!Threads -> Nat]
      BY <1>5, <3>1
    <3>3. h \in GwStates /\ SameWork(v1.gw, h)
      BY <1>3, <3>2, AheadOnly, RadioParts
    <3>4. \A y \in R!Threads : [v1.gw.threads[y] EXCEPT !.ahead = f[y]]
                               = IF y = x THEN [v1.gw.threads[x] EXCEPT !.ahead = more] ELSE v1.gw.threads[y]
      BY <3>1 DEF ThreadStates
    <3>5. [v1.gw.threads EXCEPT ![x].ahead = more] = [y \in R!Threads |-> [v1.gw.threads[y] EXCEPT !.ahead = f[y]]]
      <4>1. v1.gw.threads \in [R!Threads -> ThreadStates]
        BY <1>3, RadioParts DEF GwStates
      <4> HIDE DEF f
      <4> QED BY <3>1, <3>4, <4>1
    <3>6. h = [v1.gw EXCEPT !.threads[x].ahead = more]
      <4>1. v1.gw.threads \in [R!Threads -> ThreadStates] /\ v1.gw \in GwStates
        BY <1>3, RadioParts DEF GwStates
      <4>2. [v1.gw EXCEPT !.threads[x].ahead = more] = [v1.gw EXCEPT !.threads = [@ EXCEPT ![x].ahead = more]]
        BY <4>1 DEF GwStates
      <4> HIDE DEF f
      <4> QED BY <3>5, <4>2
    <3> HIDE DEF h, f
    <3>7. u = [v1 EXCEPT !.gw = h]
      <4>1. u = [v1 EXCEPT !.gw.threads[x].ahead = more]
        BY <2>2
      <4> HIDE DEF u
      <4> QED BY <1>3, <3>6, <4>1 DEF Worlds
    <3>8. u = [gw |-> h, ptt |-> v1.ptt, rx |-> v1.rx, sess |-> v1.sess, races |-> v1.races]
      BY <1>3, <3>7 DEF Worlds
    <3> HIDE DEF u
    <3> QED BY <1>3, <3>3, <3>8, Whole, RadioParts DEF RadioSameBut
  <2> QED BY <2>1, <2>2
<1> HIDE DEF u, v
<1>7. CASE v1.ptt.stage = "idle"
  <2>1. RadioSameBut(u, v) /\ v.ptt.desired = u.ptt.desired /\ PttInv(v.ptt)
    BY <1>4, <1>6, <1>7, ApplyEffect
  <2> QED BY <1>2, <1>3, <1>6, <2>1 DEF RadioSameBut, SameWork
<1>8. CASE v1.ptt.stage # "idle"
  <2> DEFINE q == [u.ptt EXCEPT !.waiting = @ + 1]
  <2>1. v = [gw |-> u.gw, ptt |-> q, rx |-> u.rx, sess |-> u.sess, races |-> u.races]
    BY <1>4, <1>6, <1>8 DEF Worlds
  <2>2. q \in PttStates /\ q.desired = enabled /\ q.active = w.ptt.active /\ q.pin = w.ptt.pin
        /\ q.stage = w.ptt.stage /\ q.waiting \in Nat \ {0}
    BY <1>2, <1>6 DEF PttStates
  <2>3. PttInv(q)
    BY <1>2, <1>3, <1>8, <2>2 DEF PttInv
  <2> HIDE DEF q
  <2>4. v \in Worlds /\ RadioSameBut(u, v) /\ v.ptt = q
    BY <1>2, <1>6, <2>1, <2>2, Whole, RadioParts DEF RadioSameBut, SameWork
  <2> QED BY <1>3, <1>6, <2>2, <2>3, <2>4 DEF RadioSameBut, SameWork
<1> QED BY <1>7, <1>8

(***************************************************************************)
(* Threads.                                                                *)
(***************************************************************************)
\* A step of a thread leaves the pin, the timer, the receiver and, but for
\* what it goes on to do itself, the queue and the playbacks alone.
Moves(w, v) ==
  /\ v \in Worlds /\ PttInv(v.ptt) /\ v.ptt.active = w.ptt.active /\ v.ptt.pin = w.ptt.pin
  /\ v.gw.timer = w.gw.timer /\ v.gw.queue = w.gw.queue /\ v.rx = w.rx /\ v.sess = w.sess
  /\ w.races \subseteq v.races /\ v.races \subseteq w.races \cup {"fault", "late", "unknown"}

\* It leaves the threads other than x alone, and the playback in progress.
Others(w, v, x) ==
  /\ v.gw.active = w.gw.active
  /\ \A y \in R!Threads \ {x} : v.gw.threads[y].at = w.gw.threads[y].at

(* A thread is put into another state.                                     *)
LEMMA PutThread ==
  ASSUME NEW w \in Worlds, NEW x \in R!Threads, NEW th \in ThreadStates, PttInv(w.ptt)
  PROVE  LET v == [w EXCEPT !.gw.threads[x] = th]
         IN  /\ Moves(w, v) /\ Others(w, v, x) /\ v.races = w.races /\ v.ptt = w.ptt
             /\ v.gw.pending = w.gw.pending /\ v.gw.threads[x] = th
<1> DEFINE ts == [w.gw.threads EXCEPT ![x] = th]
           h == [w.gw EXCEPT !.threads = ts]
           v == [w EXCEPT !.gw.threads[x] = th]
<1>1. w.gw \in GwStates /\ w.gw.threads \in [R!Threads -> ThreadStates]
  BY RadioParts DEF GwStates
<1>2. ts \in [R!Threads -> ThreadStates] /\ ts[x] = th /\ \A y \in R!Threads \ {x} : ts[y] = w.gw.threads[y]
  BY <1>1
<1>3. v = [w EXCEPT !.gw = h]
  BY <1>1 DEF Worlds, GwStates
<1> HIDE DEF ts
<1>4. h \in GwStates /\ h.threads = ts /\ h.active = w.gw.active /\ h.pending = w.gw.pending
      /\ h.queue = w.gw.queue /\ h.timer = w.gw.timer
  BY <1>1, <1>2 DEF GwStates
<1> HIDE DEF h, v
<1>5. v = [gw |-> h, ptt |-> w.ptt, rx |-> w.rx, sess |-> w.sess, races |-> w.races]
  BY <1>3 DEF Worlds
<1>6. v \in Worlds
  BY <1>4, <1>5, Whole, RadioParts
<1>7. Moves(w, v) /\ Others(w, v, x) /\ v.races = w.races /\ v.ptt = w.ptt
      /\ v.gw.pending = w.gw.pending /\ v.gw.threads[x] = th
  BY <1>2, <1>4, <1>5, <1>6 DEF Moves, Others
<1> QED BY <1>7 DEF v

(* A thread is over.                                                       *)
LEMMA DoneEffect ==
  ASSUME NEW w \in Worlds, NEW x \in R!Threads, PttInv(w.ptt)
  PROVE  LET v == R!Done(w, x)
         IN  /\ Moves(w, v) /\ Others(w, v, x) /\ v.races = w.races /\ v.ptt = w.ptt
             /\ v.gw.pending = w.gw.pending /\ v.gw.threads[x] = R!Idle
BY PutThread, ThreadTypes DEF R!Done

(* A thread goes on in another place.                                      *)
LEMMA AtEffect ==
  ASSUME NEW w \in Worlds, NEW x \in R!Threads, PttInv(w.ptt), NEW at,
         [w.gw.threads[x] EXCEPT !.at = at] \in ThreadStates
  PROVE  LET v == R!At(w, x, at)
         IN  /\ Moves(w, v) /\ Others(w, v, x) /\ v.races = w.races /\ v.ptt = w.ptt
             /\ v.gw.pending = w.gw.pending /\ v.gw.threads[x].at = at
             /\ v.gw.threads[x].session = w.gw.threads[x].session /\ v.gw.threads[x].last = w.gw.threads[x].last
             /\ v.gw.threads[x].talker = w.gw.threads[x].talker
<1> DEFINE th == [w.gw.threads[x] EXCEPT !.at = at]
<1>1. w.gw.threads \in [R!Threads -> ThreadStates] /\ w.gw.threads[x] \in ThreadStates /\ w.gw \in GwStates
  BY RadioParts DEF GwStates
<1>2. [w EXCEPT !.gw.threads[x].at = at] = [w EXCEPT !.gw.threads[x] = th]
  BY <1>1 DEF Worlds, GwStates
<1>3. th.at = at /\ th.session = w.gw.threads[x].session /\ th.last = w.gw.threads[x].last
      /\ th.talker = w.gw.threads[x].talker
  BY <1>1 DEF ThreadStates
<1> HIDE DEF th
<1>4. th \in ThreadStates
  BY DEF th
<1> DEFINE v == [w EXCEPT !.gw.threads[x] = th]
<1>5. Moves(w, v) /\ Others(w, v, x) /\ v.races = w.races /\ v.ptt = w.ptt
      /\ v.gw.pending = w.gw.pending /\ v.gw.threads[x] = th
  BY <1>4, PutThread
<1>6. R!At(w, x, at) = v
  BY <1>2 DEF R!At
<1> HIDE DEF v
<1> QED BY <1>3, <1>5, <1>6

(* A race is noted.                                                        *)
LEMMA RaceEffect ==
  ASSUME NEW w \in Worlds, NEW name \in {"fault", "late", "unknown"}, PttInv(w.ptt)
  PROVE  LET v == R!Race(w, name)
         IN  /\ Moves(w, v) /\ v.gw = w.gw /\ v.ptt = w.ptt /\ v.races = w.races \cup {name}
<1> DEFINE v == R!Race(w, name)
<1>1. v = [gw |-> w.gw, ptt |-> w.ptt, rx |-> w.rx, sess |-> w.sess, races |-> w.races \cup {name}]
  BY DEF R!Race, Worlds
<1>2. w.races \cup {name} \in SUBSET RaceNames
  BY RadioParts DEF RaceNames
<1>3. v \in Worlds
  BY <1>1, <1>2, Whole, RadioParts
<1> QED BY <1>1, <1>3 DEF Moves

(* Steps of threads follow one another.                                    *)
LEMMA MovesOn ==
  ASSUME NEW u, NEW v, NEW w, Moves(u, v), Moves(v, w) PROVE Moves(u, w)
BY DEF Moves

(* What a change of the queue of the pin is to a thread.                   *)
LEMMA ButMoves ==
  ASSUME NEW w, NEW v, RadioSameBut(w, v), PttInv(v.ptt)
  PROVE  /\ Moves(w, v) /\ v.races = w.races /\ v.gw.active = w.gw.active /\ v.gw.pending = w.gw.pending
         /\ \A y \in R!Threads : v.gw.threads[y].at = w.gw.threads[y].at
                               /\ v.gw.threads[y].session = w.gw.threads[y].session
                               /\ v.gw.threads[y].last = w.gw.threads[y].last
BY DEF RadioSameBut, SameWork, Moves

(* A start for a producer: it waits, or is asked for.                      *)
LEMMA StartEffect ==
  ASSUME NEW w \in Worlds, NEW x \in R!Threads, NEW p \in Talkers, PttInv(w.ptt)
  PROVE  LET v == R!Start(w, x, p)
         IN  /\ Moves(w, v) /\ Others(w, v, x) /\ v.races = w.races /\ v.ptt = w.ptt
             /\ IF w.gw.active = 0 THEN v.gw.threads[x].at = "consuming" ELSE v.gw.threads[x].at = "idle"
<1> DEFINE v == R!Start(w, x, p)
<1> SUFFICES /\ Moves(w, v) /\ Others(w, v, x) /\ v.races = w.races /\ v.ptt = w.ptt
             /\ IF w.gw.active = 0 THEN v.gw.threads[x].at = "consuming" ELSE v.gw.threads[x].at = "idle"
  OBVIOUS
<1>1. CASE w.gw.active # 0
  <2> DEFINE u == [w EXCEPT !.gw.pending = p]
             h == [w.gw EXCEPT !.pending = p]
  <2>1. h \in GwStates /\ h.threads = w.gw.threads /\ h.active = w.gw.active
        /\ h.queue = w.gw.queue /\ h.timer = w.gw.timer
    BY RadioParts DEF GwStates
  <2>2. u = [gw |-> h, ptt |-> w.ptt, rx |-> w.rx, sess |-> w.sess, races |-> w.races]
    BY DEF Worlds
  <2> HIDE DEF h
  <2>3. u \in Worlds /\ Moves(w, u) /\ Others(w, u, x) /\ u.races = w.races /\ u.ptt = w.ptt
    BY <2>1, <2>2, Whole, RadioParts DEF Moves, Others
  <2>4. v = R!Done(u, x)
    BY <1>1 DEF R!Start
  <2> HIDE DEF u, v
  <2>5. /\ Moves(u, v) /\ Others(u, v, x) /\ v.races = u.races /\ v.ptt = u.ptt
        /\ v.gw.threads[x] = R!Idle
    BY <2>3, <2>4, DoneEffect
  <2>6. Moves(w, v)
    BY <2>3, <2>5, MovesOn
  <2> QED BY <1>1, <2>3, <2>5, <2>6 DEF Others, R!Idle
<1>2. CASE w.gw.active = 0
  <2> DEFINE th == [R!Idle EXCEPT !.at = "consuming", !.talker = p]
  <2>1. th \in ThreadStates /\ th.at = "consuming"
    BY DEF ThreadStates, R!Idle
  <2>2. v = [w EXCEPT !.gw.threads[x] = th]
    BY <1>2 DEF R!Start
  <2> HIDE DEF th, v
  <2> QED BY <1>2, <2>1, <2>2, PutThread
<1> QED BY <1>1, <1>2

(* The pending producer follows.                                           *)
LEMMA StartPendingEffect ==
  ASSUME NEW w \in Worlds, NEW x \in R!Threads, PttInv(w.ptt)
  PROVE  LET v == R!StartPending(w, x)
         IN  /\ Moves(w, v) /\ Others(w, v, x) /\ v.races = w.races /\ v.ptt = w.ptt
             /\ \/ v.gw.threads[x].at = "idle"
                \/ w.gw.active = 0 /\ v.gw.threads[x].at = "consuming"
<1> DEFINE v == R!StartPending(w, x)
<1> SUFFICES /\ Moves(w, v) /\ Others(w, v, x) /\ v.races = w.races /\ v.ptt = w.ptt
             /\ \/ v.gw.threads[x].at = "idle"
                \/ w.gw.active = 0 /\ v.gw.threads[x].at = "consuming"
  OBVIOUS
<1>1. CASE w.gw.active # 0 \/ w.gw.pending = None
  <2>1. v = R!Done(w, x)
    BY <1>1 DEF R!StartPending
  <2> HIDE DEF v
  <2> QED BY <2>1, DoneEffect DEF R!Idle
<1>2. CASE ~(w.gw.active # 0 \/ w.gw.pending = None)
  <2> DEFINE p == w.gw.pending
             u == [w EXCEPT !.gw.pending = None]
             h == [w.gw EXCEPT !.pending = None]
             s == R!Start(u, x, p)
  <2>1. h \in GwStates /\ h.threads = w.gw.threads /\ h.active = w.gw.active
        /\ h.queue = w.gw.queue /\ h.timer = w.gw.timer
    BY RadioParts DEF GwStates
  <2>2. u = [gw |-> h, ptt |-> w.ptt, rx |-> w.rx, sess |-> w.sess, races |-> w.races]
    BY DEF Worlds
  <2> HIDE DEF h
  <2>3. u \in Worlds /\ Moves(w, u) /\ Others(w, u, x) /\ u.races = w.races /\ u.ptt = w.ptt
    BY <2>1, <2>2, Whole, RadioParts DEF Moves, Others
  <2>4. p \in Talkers
    BY <1>2, RadioParts DEF GwStates
  <2>5. v = [s EXCEPT !.gw.threads[x].last = TRUE]
    BY <1>2 DEF R!StartPending
  <2> HIDE DEF u, v, p, s
  <2>6. /\ Moves(u, s) /\ Others(u, s, x) /\ s.races = u.races /\ s.ptt = u.ptt
        /\ s.gw.threads[x].at = "consuming"
    BY <1>2, <2>1, <2>2, <2>3, <2>4, StartEffect DEF s
  <2> DEFINE th == [s.gw.threads[x] EXCEPT !.last = TRUE]
  <2>7. s \in Worlds /\ PttInv(s.ptt) /\ s.gw \in GwStates /\ s.gw.threads \in [R!Threads -> ThreadStates]
    BY <2>6, RadioParts DEF Moves, GwStates
  <2>8. s.gw.threads[x] \in ThreadStates
    BY <2>7
  <2>9. th \in ThreadStates /\ th.at = "consuming"
    BY <2>6, <2>8 DEF ThreadStates
  <2>10. v = [s EXCEPT !.gw.threads[x] = th]
    BY <2>5, <2>7 DEF Worlds, GwStates
  <2> HIDE DEF th
  <2>11. Moves(s, v) /\ Others(s, v, x) /\ v.races = s.races /\ v.ptt = s.ptt /\ v.gw.threads[x] = th
    BY <2>7, <2>9, <2>10, PutThread
  <2>12. Moves(w, v)
    BY <2>3, <2>6, <2>11, MovesOn
  <2> QED BY <1>2, <2>3, <2>6, <2>9, <2>11, <2>12 DEF Others
<1> QED BY <1>1, <1>2

(* The playback in progress is stopped, or the pin let go of.              *)
LEMMA StopEffect ==
  ASSUME NEW w \in Worlds, NEW x \in R!Threads, NEW last \in BOOLEAN, PttInv(w.ptt)
  PROVE  LET v == R!Stop(w, x, last)
         IN  /\ Moves(w, v) /\ Others(w, v, x) /\ v.races = w.races
             /\ w.gw.active # 0 => /\ v.gw.threads[x].at = "closing" /\ v.gw.threads[x].session = w.gw.active
                                   /\ v.gw.threads[x].last = last /\ v.ptt = w.ptt
             /\ w.gw.active = 0 /\ ~last => v.gw.threads[x].at = "idle" /\ v.ptt = w.ptt
             /\ w.gw.active = 0 /\ last => v.gw.threads[x].at = "unkeying" /\ ~v.ptt.desired
<1> DEFINE v == R!Stop(w, x, last)
<1> SUFFICES /\ Moves(w, v) /\ Others(w, v, x) /\ v.races = w.races
             /\ w.gw.active # 0 => /\ v.gw.threads[x].at = "closing" /\ v.gw.threads[x].session = w.gw.active
                                   /\ v.gw.threads[x].last = last /\ v.ptt = w.ptt
             /\ w.gw.active = 0 /\ ~last => v.gw.threads[x].at = "idle" /\ v.ptt = w.ptt
             /\ w.gw.active = 0 /\ last => v.gw.threads[x].at = "unkeying" /\ ~v.ptt.desired
  OBVIOUS
<1>1. w.gw.threads[x] \in ThreadStates /\ w.gw.active \in Sessions \cup {0}
  BY RadioParts DEF GwStates
<1>2. CASE w.gw.active # 0
  <2> DEFINE th == [R!Idle EXCEPT !.at = "closing", !.session = w.gw.active, !.last = last]
  <2>1. th \in ThreadStates /\ th.at = "closing" /\ th.session = w.gw.active /\ th.last = last
    BY <1>1, <1>2 DEF ThreadStates, R!Idle
  <2>2. v = [w EXCEPT !.gw.threads[x] = th]
    BY <1>2 DEF R!Stop
  <2> HIDE DEF th, v
  <2> QED BY <1>2, <2>1, <2>2, PutThread
<1>3. CASE w.gw.active = 0 /\ ~last
  <2>1. v = R!Done(w, x)
    BY <1>3 DEF R!Stop
  <2> HIDE DEF v
  <2> QED BY <1>3, <2>1, DoneEffect DEF R!Idle
<1>4. CASE w.gw.active = 0 /\ last
  <2> DEFINE u == R!At(w, x, "unkeying")
  <2>1. v = R!SetPtt(u, FALSE, x)
    BY <1>4 DEF R!Stop
  <2>2. /\ Moves(w, u) /\ Others(w, u, x) /\ u.races = w.races /\ u.ptt = w.ptt
        /\ u.gw.threads[x].at = "unkeying"
    <3>1. [w.gw.threads[x] EXCEPT !.at = "unkeying"] \in ThreadStates
      BY <1>1, ThreadTypes
    <3> QED BY <3>1, AtEffect
  <2> HIDE DEF u, v
  <2>3. RadioSameBut(u, v) /\ ~v.ptt.desired /\ PttInv(v.ptt)
    <3>1. u \in Worlds /\ PttInv(u.ptt) /\ FALSE \in BOOLEAN /\ x \in R!Threads \cup {None}
      BY <2>2 DEF Moves
    <3>2. RadioSameBut(u, v) /\ v.ptt.desired = FALSE /\ PttInv(v.ptt)
      BY <2>1, <3>1, SetPttEffect
    <3> QED BY <3>2
  <2>4. Moves(u, v) /\ v.races = u.races /\ v.gw.active = u.gw.active
        /\ \A y \in R!Threads : v.gw.threads[y].at = u.gw.threads[y].at
    BY <2>3, ButMoves
  <2>5. Moves(w, v)
    BY <2>2, <2>4, MovesOn
  <2> QED BY <1>4, <2>2, <2>3, <2>4, <2>5 DEF Others
<1> QED BY <1>2, <1>3, <1>4

(* To stop a playback alone ...                                            *)
LEMMA StopOne ==
  ASSUME NEW w \in Worlds, NEW x \in R!Threads, PttInv(w.ptt)
  PROVE  LET v == R!Stop(w, x, FALSE)
         IN  /\ Moves(w, v) /\ Others(w, v, x) /\ v.races = w.races /\ v.ptt = w.ptt
             /\ w.gw.active # 0 => /\ v.gw.threads[x].at = "closing" /\ v.gw.threads[x].session = w.gw.active
                                   /\ ~v.gw.threads[x].last
             /\ w.gw.active = 0 => v.gw.threads[x].at = "idle"
<1>1. PICK last \in BOOLEAN : last = FALSE
  OBVIOUS
<1>2. w.gw.active # 0 \/ (w.gw.active = 0 /\ ~last)
  BY <1>1
<1> DEFINE v == R!Stop(w, x, last)
<1>3. /\ Moves(w, v) /\ Others(w, v, x) /\ v.races = w.races
      /\ w.gw.active # 0 => /\ v.gw.threads[x].at = "closing" /\ v.gw.threads[x].session = w.gw.active
                            /\ v.gw.threads[x].last = last /\ v.ptt = w.ptt
      /\ w.gw.active = 0 /\ ~last => v.gw.threads[x].at = "idle" /\ v.ptt = w.ptt
  BY StopEffect
<1>4. v = R!Stop(w, x, FALSE)
  BY <1>1
<1> HIDE DEF v
<1> QED BY <1>1, <1>2, <1>3, <1>4

(* ... and to let go of the pin after it.                                  *)
LEMMA StopLast ==
  ASSUME NEW w \in Worlds, NEW x \in R!Threads, PttInv(w.ptt)
  PROVE  LET v == R!Stop(w, x, TRUE)
         IN  /\ Moves(w, v) /\ Others(w, v, x) /\ v.races = w.races
             /\ w.gw.active # 0 => /\ v.gw.threads[x].at = "closing" /\ v.gw.threads[x].session = w.gw.active
                                   /\ v.gw.threads[x].last
             /\ w.gw.active = 0 => v.gw.threads[x].at = "unkeying" /\ ~v.ptt.desired
<1>1. PICK last \in BOOLEAN : last = TRUE
  OBVIOUS
<1> DEFINE v == R!Stop(w, x, last)
<1>2. /\ Moves(w, v) /\ Others(w, v, x) /\ v.races = w.races
      /\ w.gw.active # 0 => /\ v.gw.threads[x].at = "closing" /\ v.gw.threads[x].session = w.gw.active
                            /\ v.gw.threads[x].last = last /\ v.ptt = w.ptt
      /\ w.gw.active = 0 /\ last => v.gw.threads[x].at = "unkeying" /\ ~v.ptt.desired
  BY StopEffect
<1>3. v = R!Stop(w, x, TRUE)
  BY <1>1
<1> HIDE DEF v
<1> QED BY <1>1, <1>2, <1>3

(* A start fails.                                                          *)
LEMMA FailEffect ==
  ASSUME NEW w \in Worlds, NEW x \in R!Threads, PttInv(w.ptt)
  PROVE  LET v == R!Fail(w, x) IN Moves(w, v) /\ "fault" \in v.races
<1> DEFINE u == R!Race(w, "fault")
           d == R!Done(u, x)
           v == R!Fail(w, x)
<1> SUFFICES Moves(w, v) /\ "fault" \in v.races
  OBVIOUS
<1>1. v = R!Stop(u, x, FALSE) \/ v = R!Stop(d, "rescue", FALSE)
  BY DEF R!Fail
<1>2. Moves(w, u) /\ "fault" \in u.races
  BY RaceEffect
<1> HIDE DEF u
<1>3. Moves(u, d) /\ "fault" \in d.races
  BY <1>2, DoneEffect DEF Moves
<1> HIDE DEF d, v
<1>4. u \in Worlds /\ PttInv(u.ptt) /\ d \in Worlds /\ PttInv(d.ptt)
  BY <1>2, <1>3 DEF Moves
<1>5. FALSE \in BOOLEAN /\ "rescue" \in R!Threads
  BY DEF R!Threads
<1>6. Moves(u, v) \/ Moves(d, v)
  <2>1. CASE v = R!Stop(u, x, FALSE)
    BY <1>4, <1>5, <2>1, StopEffect
  <2>2. CASE v = R!Stop(d, "rescue", FALSE)
    BY <1>4, <1>5, <2>2, StopEffect
  <2> QED BY <1>1, <2>1, <2>2
<1>7. Moves(w, d)
  BY <1>2, <1>3, MovesOn
<1> QED BY <1>2, <1>3, <1>6, <1>7, MovesOn DEF Moves

(***************************************************************************)
(* Sequences.                                                              *)
(***************************************************************************)
(* A sequence and its first element.                                       *)
LEMMA Taking ==
  ASSUME NEW S, NEW q \in Seq(S), q # <<>>
  PROVE  /\ Head(q) \in S /\ Tail(q) \in Seq(S)
         /\ R!Range(q) = {Head(q)} \cup R!Range(Tail(q))
         /\ R!Last(q) = IF Tail(q) = <<>> THEN Head(q) ELSE R!Last(Tail(q))
         /\ Len(q) \in Nat \ {0} /\ DOMAIN q = 1 .. Len(q) /\ DOMAIN Tail(q) = 1 .. Len(q) - 1
         /\ \A i \in DOMAIN Tail(q) : Tail(q)[i] = q[i + 1]
         /\ Head(q) = q[1]
<1>1. /\ Head(q) \in S /\ Tail(q) \in Seq(S) /\ Head(q) = q[1]
      /\ Len(Tail(q)) = Len(q) - 1 /\ \A i \in 1 .. Len(Tail(q)) : Tail(q)[i] = q[i + 1]
  BY HeadTailProperties
<1>2. /\ Len(q) \in Nat \ {0} /\ DOMAIN q = 1 .. Len(q) /\ DOMAIN Tail(q) = 1 .. Len(q) - 1
  BY <1>1, LenProperties, EmptySeq
<1>3. R!Range(q) = {q[i] : i \in 1 .. Len(q)} /\ R!Range(Tail(q)) = {Tail(q)[i] : i \in 1 .. Len(q) - 1}
  BY <1>2 DEF R!Range
<1>4. \A i \in 1 .. Len(q) : i = 1 \/ i - 1 \in 1 .. Len(q) - 1
  BY <1>2
<1>5. \A i \in 1 .. Len(q) - 1 : i + 1 \in 1 .. Len(q) /\ Tail(q)[i] = q[i + 1]
  BY <1>1, <1>2
<1>6. ASSUME NEW y \in R!Range(q) PROVE y = Head(q) \/ y \in R!Range(Tail(q))
  <2>1. PICK i \in 1 .. Len(q) : y = q[i]
    BY <1>3
  <2>2. CASE i = 1
    BY <1>1, <2>1, <2>2
  <2>3. CASE i - 1 \in 1 .. Len(q) - 1
    <3>1. Tail(q)[i - 1] = q[i]
      BY <1>2, <1>5, <2>3
    <3> QED BY <1>3, <2>1, <2>3, <3>1
  <2> QED BY <1>4, <2>2, <2>3
<1>7. ASSUME NEW y \in R!Range(Tail(q)) PROVE y \in R!Range(q)
  <2>1. PICK i \in 1 .. Len(q) - 1 : y = Tail(q)[i]
    BY <1>3
  <2> QED BY <1>3, <1>5, <2>1
<1>8. Head(q) \in R!Range(q)
  BY <1>1, <1>2, <1>3
<1>9. R!Last(q) = IF Tail(q) = <<>> THEN Head(q) ELSE R!Last(Tail(q))
  <2>1. CASE Tail(q) = <<>>
    <3>1. Len(q) - 1 = 0
      BY <1>1, <2>1, EmptySeq
    <3>2. Len(q) = 1
      <4> DEFINE n == Len(q)
      <4>1. n \in Nat /\ n - 1 = 0
        BY <1>2, <3>1
      <4> HIDE DEF n
      <4>2. n = 1
        BY <4>1
      <4> QED BY <4>2 DEF n
    <3> QED BY <1>1, <2>1, <3>2 DEF R!Last
  <2>2. CASE Tail(q) # <<>>
    <3>1. Len(q) - 1 \in 1 .. Len(q) - 1
      BY <1>1, <1>2, <2>2, EmptySeq
    <3>2. Tail(q)[Len(q) - 1] = q[Len(q)]
      BY <1>2, <1>5, <3>1
    <3> QED BY <1>1, <2>2, <3>2 DEF R!Last
  <2> QED BY <2>1, <2>2
<1> QED BY <1>1, <1>2, <1>6, <1>7, <1>8, <1>9

(* A sequence and a new last element.                                      *)
LEMMA Adding ==
  ASSUME NEW S, NEW q \in Seq(S), NEW x \in S
  PROVE  /\ Append(q, x) \in Seq(S) /\ Append(q, x) # <<>> /\ R!Last(Append(q, x)) = x
         /\ R!Range(Append(q, x)) = R!Range(q) \cup {x}
<1>1. /\ Append(q, x) \in Seq(S) /\ Append(q, x) # <<>>
      /\ Len(Append(q, x)) = Len(q) + 1 /\ Append(q, x)[Len(q) + 1] = x
      /\ \A i \in 1 .. Len(q) : Append(q, x)[i] = q[i]
  BY AppendProperties
<1>2. Len(q) \in Nat /\ DOMAIN q = 1 .. Len(q) /\ DOMAIN Append(q, x) = 1 .. Len(q) + 1
  BY <1>1, LenProperties
<1>3. R!Range(q) = {q[i] : i \in 1 .. Len(q)}
      /\ R!Range(Append(q, x)) = {Append(q, x)[i] : i \in 1 .. Len(q) + 1}
  BY <1>2 DEF R!Range
<1>4. ASSUME NEW y \in R!Range(Append(q, x)) PROVE y \in R!Range(q) \cup {x}
  BY <1>1, <1>2, <1>3
<1>5. ASSUME NEW y \in R!Range(q) PROVE y \in R!Range(Append(q, x))
  BY <1>1, <1>2, <1>3
<1>6. x \in R!Range(Append(q, x))
  BY <1>1, <1>2, <1>3
<1> QED BY <1>1, <1>4, <1>5, <1>6 DEF R!Last

(***************************************************************************)
(* What the steps of the thread of the queue keep.                         *)
(***************************************************************************)
\* The thread of the queue may go on to do anything.
Free(w, ph) ==
  /\ w.gw.threads["rescue"].at = "idle"
  /\ \A n \in Sessions : w.sess[n].plays => n = w.gw.active
  /\ Shutdown \in R!Range(w.gw.queue) => ph = "closing"
  /\ ph = "closing" => \/ w.gw.queue # <<>> /\ R!Last(w.gw.queue) = Shutdown
                       \/ w.gw.queue = <<>> /\ RadioSilent(w) /\ ~w.ptt.desired

(* It does nothing, starts a producer while none plays, or stops the one   *)
(* that does.                                                              *)
LEMMA FreeStep ==
  ASSUME NEW w, NEW v, NEW ph, Free(w, ph), Moves(w, v), Others(w, v, "queue"),
         v.ptt.desired => w.ptt.desired \/ w.gw.queue # <<>> \/ ph # "closing",
         Queue(v).at = "consuming" => v.gw.active = 0,
         Stopping(v) => Queue(v).session = v.gw.active /\ ~Queue(v).last,
         Queue(v).at # "unkeying"
  PROVE  PlayInv(v, ph)
<1>1. v.gw.threads["rescue"].at = "idle"
  BY DEF Free, Others, R!Threads
<1>2. \A n \in Sessions : v.sess[n].plays => n = v.gw.active
  BY DEF Free, Moves, Others
<1>3. Shutdown \in R!Range(v.gw.queue) => ph = "closing"
  BY DEF Free, Moves
<1>4. ph = "closing" => Cleanup(v)
  BY DEF Free, Moves, Cleanup, RadioSilent
<1> QED BY <1>1, <1>2, <1>3, <1>4 DEF PlayInv

(* What is known of the key is not changed by a thread that does not ask   *)
(* for it.                                                                 *)
LEMMA KeyStep ==
  ASSUME NEW w, NEW v, NEW tk, NEW ib, KeyInv(w, tk, ib),
         v.gw.timer = w.gw.timer, v.ptt.desired = w.ptt.desired,
         Key \in R!Range(w.gw.queue) => Key \in R!Range(v.gw.queue), RadioFirst(w) => RadioFirst(v)
  PROVE  KeyInv(v, tk, ib)
BY DEF KeyInv

(* The parts of the invariant that no step of a thread can disturb.        *)
LEMMA GoodStep ==
  ASSUME NEW w, NEW v, NEW tk, NEW ib, NEW ph, Moves(w, v),
         RxInv(w.rx, ph, w.races), Unfailed(w.races) => PinInv(w),
         Unfailed(v.races) => PlayInv(v, ph),
         v.races \subseteq {"unknown"} /\ ph # "closing" => KeyInv(v, tk, ib)
  PROVE  RadioGood(v, tk, ib, ph)
<1>1. PttInv(v.ptt)
  BY DEF Moves
<1>2. RxInv(v.rx, ph, v.races)
  BY DEF Moves, RxInv
<1>3. Unfailed(v.races) => PinInv(v)
  BY DEF Moves, Unfailed, PinInv
<1> QED BY <1>1, <1>2, <1>3 DEF RadioGood

(* The variables take the values of the new state.                         *)
LEMMA Becoming ==
  ASSUME NEW v \in Worlds, R!Become(v) PROVE R!World' = v
BY DEF R!Become, R!World, Worlds

(***************************************************************************)
(* The tasks of the queue.                                                 *)
(***************************************************************************)
(* The next task is taken from the queue, whose thread is idle.            *)
LEMMA TaskTaken ==
  ASSUME RadioIInv, gw.threads["queue"] = R!Idle, gw.queue # <<>>
  PROVE  LET w == [R!World EXCEPT !.gw.queue = Tail(@)]
             t == Head(gw.queue)
         IN  /\ w \in Worlds /\ w.ptt = ptt /\ w.rx = rx /\ w.sess = sess /\ w.races = races
             /\ w.gw.active = gw.active /\ w.gw.pending = gw.pending /\ w.gw.timer = gw.timer
             /\ w.gw.threads = gw.threads /\ w.gw.queue = Tail(gw.queue)
             /\ t \in Tasks /\ R!Range(gw.queue) = {t} \cup R!Range(w.gw.queue)
             /\ Unfailed(races) => /\ PinInv(w)
                                   /\ t # Shutdown => Free(w, phase) /\ (phase = "closing" => w.gw.queue # <<>>)
                                   /\ t = Shutdown => phase = "closing"
                                   /\ PlayInv(R!World, phase)
                                   /\ w.gw.queue # <<>> /\ phase = "closing" => R!Last(w.gw.queue) = Shutdown
<1> DEFINE w == [R!World EXCEPT !.gw.queue = Tail(@)]
           t == Head(gw.queue)
           h == [gw EXCEPT !.queue = Tail(@)]
<1>1. R!World \in Worlds /\ gw \in GwStates /\ gw.queue \in Seq(Tasks)
      /\ gw = R!World.gw /\ ptt = R!World.ptt /\ rx = R!World.rx /\ sess = R!World.sess /\ races = R!World.races
  BY RadioParts DEF RadioIInv, RadioTypes, R!World, GwStates
<1>2. /\ t \in Tasks /\ Tail(gw.queue) \in Seq(Tasks) /\ R!Range(gw.queue) = {t} \cup R!Range(Tail(gw.queue))
      /\ R!Last(gw.queue) = IF Tail(gw.queue) = <<>> THEN t ELSE R!Last(Tail(gw.queue))
  BY <1>1, Taking
<1>3. h \in GwStates /\ h.queue = Tail(gw.queue) /\ h.active = gw.active /\ h.pending = gw.pending
      /\ h.timer = gw.timer /\ h.threads = gw.threads
  BY <1>1, <1>2 DEF GwStates
<1>4. w = [gw |-> h, ptt |-> ptt, rx |-> rx, sess |-> sess, races |-> races]
  BY DEF R!World
<1> HIDE DEF h, t
<1>5. w \in Worlds
  BY <1>1, <1>3, <1>4, Whole, RadioParts
<1>6. w.gw = h /\ w.ptt = ptt /\ w.rx = rx /\ w.sess = sess /\ w.races = races
  BY <1>4
<1> HIDE DEF w
<1>7. ASSUME Unfailed(races)
      PROVE  /\ PinInv(w)
             /\ t # Shutdown => Free(w, phase) /\ (phase = "closing" => w.gw.queue # <<>>)
             /\ t = Shutdown => phase = "closing"
             /\ PlayInv(R!World, phase)
             /\ w.gw.queue # <<>> /\ phase = "closing" => R!Last(w.gw.queue) = Shutdown
  <2>1. PlayInv(R!World, phase) /\ PinInv(R!World)
    BY <1>1, <1>7 DEF RadioIInv, RadioGood
  <2>2. PinInv(w)
    BY <1>1, <1>6, <2>1 DEF PinInv
  <2>3. t = Shutdown => phase = "closing"
    BY <1>1, <1>2, <2>1 DEF PlayInv
  <2>4. phase = "closing" => R!Last(gw.queue) = Shutdown
    BY <1>1, <2>1 DEF PlayInv, Cleanup
  <2>5. w.gw.queue # <<>> /\ phase = "closing" => R!Last(w.gw.queue) = Shutdown
    BY <1>2, <1>3, <1>6, <2>4
  <2>6. t # Shutdown /\ phase = "closing" => w.gw.queue # <<>>
    BY <1>2, <1>3, <1>6, <2>4
  <2>7. t # Shutdown => Free(w, phase)
    BY <1>1, <1>2, <1>3, <1>6, <2>1, <2>5, <2>6 DEF PlayInv, Free
  <2> QED BY <2>1, <2>2, <2>3, <2>5, <2>6, <2>7
<1>8. /\ w \in Worlds /\ w.ptt = ptt /\ w.rx = rx /\ w.sess = sess /\ w.races = races
      /\ w.gw.active = gw.active /\ w.gw.pending = gw.pending /\ w.gw.timer = gw.timer
      /\ w.gw.threads = gw.threads /\ w.gw.queue = Tail(gw.queue)
      /\ t \in Tasks /\ R!Range(gw.queue) = {t} \cup R!Range(w.gw.queue)
  BY <1>2, <1>3, <1>5, <1>6
<1> QED BY <1>7, <1>8 DEF w, t

(* The tasks keep the invariant.                                           *)
LEMMA BeginKeeps == ASSUME RadioIInv, R!Begin, 0 \notin Sessions PROVE RadioIInv'
<1> DEFINE w == [R!World EXCEPT !.gw.queue = Tail(@)]
           t == Head(gw.queue)
<1>1. gw.threads["queue"] = R!Idle /\ gw.queue # <<>> /\ UNCHANGED <<talk, delivered, inbox, phase>>
  BY DEF R!Begin
<1>2. /\ w \in Worlds /\ w.ptt = ptt /\ w.rx = rx /\ w.sess = sess /\ w.races = races
      /\ w.gw.active = gw.active /\ w.gw.pending = gw.pending /\ w.gw.timer = gw.timer
      /\ w.gw.threads = gw.threads /\ w.gw.queue = Tail(gw.queue)
      /\ t \in Tasks /\ R!Range(gw.queue) = {t} \cup R!Range(w.gw.queue)
      /\ Unfailed(races) => /\ PinInv(w)
                            /\ t # Shutdown => Free(w, phase) /\ (phase = "closing" => w.gw.queue # <<>>)
                            /\ t = Shutdown => phase = "closing"
                            /\ PlayInv(R!World, phase)
                            /\ w.gw.queue # <<>> /\ phase = "closing" => R!Last(w.gw.queue) = Shutdown
  BY <1>1, TaskTaken
<1> HIDE DEF w, t
<1>3. /\ PttInv(w.ptt) /\ RxInv(w.rx, phase, w.races)
      /\ races \subseteq {"unknown"} /\ phase # "closing" => KeyInv(R!World, talk, inbox)
      /\ R!World.gw = gw /\ R!World.ptt = ptt
  BY <1>2 DEF RadioIInv, RadioGood, R!World
<1>4. "queue" \in R!Threads
  BY DEF R!Threads
<1>5. RadioFirst(R!World) => (gw.active = 0 /\ RadioFirst(w)) \/ t \in Starts
  BY <1>1, <1>2, <1>3 DEF RadioFirst, Queue, R!Idle
<1>6. ASSUME NEW v, R!Become(v), v \in Worlds, RadioGood(v, talk, inbox, phase) PROVE RadioIInv'
  <2>1. R!World' = v
    BY <1>6, Becoming
  <2>2. RadioTypes'
    BY <1>1, <1>6, <2>1 DEF RadioIInv, RadioTypes
  <2> QED BY <1>1, <1>6, <2>1, <2>2 DEF RadioIInv
<1>7. CASE t \in Starts /\ R!Become(R!Start(w, "queue", t.of))
  <2> DEFINE v == R!Start(w, "queue", t.of)
  <2>1. t.of \in Talkers /\ t # Shutdown /\ t # Key
    BY <1>7 DEF Starts, Shutdown, Key
  <2>2. /\ Moves(w, v) /\ Others(w, v, "queue") /\ v.races = races /\ v.ptt = ptt
        /\ IF gw.active = 0 THEN Queue(v).at = "consuming" ELSE Queue(v).at = "idle"
    BY <1>2, <1>3, <1>4, <2>1, StartEffect DEF Queue
  <2> HIDE DEF v
  <2>3. Unfailed(v.races) => PlayInv(v, phase)
    <3> SUFFICES ASSUME Unfailed(races) PROVE PlayInv(v, phase)
      BY <2>2
    <3>1. /\ Free(w, phase) /\ Moves(w, v) /\ Others(w, v, "queue")
          /\ v.ptt.desired => w.ptt.desired \/ w.gw.queue # <<>> \/ phase # "closing"
          /\ Queue(v).at = "consuming" => v.gw.active = 0
          /\ Stopping(v) => Queue(v).session = v.gw.active /\ ~Queue(v).last
          /\ Queue(v).at # "unkeying"
      BY <1>2, <2>1, <2>2 DEF Stopping, Others
    <3> QED BY <3>1, FreeStep
  <2>4. v.races \subseteq {"unknown"} /\ phase # "closing" => KeyInv(v, talk, inbox)
    <3>1. RadioFirst(R!World) => RadioFirst(v)
      BY <1>2, <1>3, <2>2 DEF RadioFirst, Others
    <3>2. Key \in R!Range(gw.queue) => Key \in R!Range(v.gw.queue)
      BY <1>2, <2>1, <2>2 DEF Moves
    <3> QED BY <1>2, <1>3, <2>2, <3>1, <3>2, KeyStep DEF Moves
  <2>5. RadioGood(v, talk, inbox, phase)
    <3>1. Moves(w, v) /\ RxInv(w.rx, phase, w.races) /\ (Unfailed(w.races) => PinInv(w))
      BY <1>2, <1>3, <2>2
    <3> QED BY <2>3, <2>4, <3>1, GoodStep
  <2> QED BY <1>6, <1>7, <2>2, <2>5 DEF Moves, v
<1>8. CASE t = Key /\ R!Become(LET v == IF R!Addressing = {} THEN R!Race(w, "late") ELSE w
                             IN  R!SetPtt(R!At(v, "queue", "keyed"), TRUE, "queue"))
  <2> DEFINE r == IF R!Addressing = {} THEN R!Race(w, "late") ELSE w
             u == R!At(r, "queue", "keyed")
             v == R!SetPtt(u, TRUE, "queue")
  <2>1. t # Shutdown
    BY <1>8 DEF Shutdown, Key
  <2>2. Moves(w, r) /\ r.gw = w.gw /\ (R!Addressing = {} => "late" \in r.races)
    BY <1>2, <1>3, RaceEffect DEF Moves
  <2> HIDE DEF r
  <2>3. r \in Worlds /\ PttInv(r.ptt) /\ [r.gw.threads["queue"] EXCEPT !.at = "keyed"] \in ThreadStates
    BY <1>1, <1>2, <2>2, ThreadTypes DEF Moves
  <2>4. /\ Moves(r, u) /\ Others(r, u, "queue") /\ u.races = r.races /\ Queue(u).at = "keyed"
    BY <1>4, <2>3, AtEffect DEF Queue
  <2> HIDE DEF u
  <2>5. u \in Worlds /\ PttInv(u.ptt) /\ TRUE \in BOOLEAN /\ "queue" \in R!Threads \cup {None}
    BY <1>4, <2>4 DEF Moves
  <2>6. RadioSameBut(u, v) /\ v.ptt.desired = TRUE /\ PttInv(v.ptt)
    BY <2>5, SetPttEffect
  <2> HIDE DEF v
  <2>7. Moves(u, v) /\ v.races = u.races /\ v.gw.active = u.gw.active
        /\ \A y \in R!Threads : v.gw.threads[y].at = u.gw.threads[y].at
    BY <2>6, ButMoves
  <2>8. Moves(w, v) /\ Others(w, v, "queue") /\ Queue(v).at = "keyed"
    BY <1>4, <2>2, <2>4, <2>7, MovesOn DEF Others, Queue
  <2>9. Unfailed(v.races) => PlayInv(v, phase)
    BY <1>2, <2>1, <2>8, FreeStep DEF Stopping, Moves, Unfailed
  <2>10. v.races \subseteq {"unknown"} /\ phase # "closing" => KeyInv(v, talk, inbox)
    BY <1>2, <1>3, <2>2, <2>4, <2>6, <2>7, <2>8 DEF KeyInv, Moves, R!Addressing
  <2>11. RadioGood(v, talk, inbox, phase)
    BY <1>2, <1>3, <2>8, <2>9, <2>10, GoodStep
  <2> QED BY <1>6, <1>8, <2>8, <2>11 DEF Moves, v, u, r
<1>9. CASE \E m \in Worlds : /\ t \in Losses /\ Moves(w, m) /\ m.races = races /\ m.ptt = ptt
                             /\ m.gw.active = gw.active /\ m.gw.threads = gw.threads
                             /\ R!Become(R!Stop(m, "queue", FALSE)) \/ R!Become(m)
  <2>1. PICK m \in Worlds : /\ t \in Losses /\ Moves(w, m) /\ m.races = races /\ m.ptt = ptt
                            /\ m.gw.active = gw.active /\ m.gw.threads = gw.threads
                            /\ R!Become(R!Stop(m, "queue", FALSE)) \/ R!Become(m)
    BY <1>9
  <2>2. t # Shutdown /\ t # Key /\ t \notin Starts
    BY <2>1 DEF Losses, Starts, Shutdown, Key
  <2>3. PICK v : /\ R!Become(v) /\ Moves(w, v) /\ Others(w, v, "queue") /\ v.races = races /\ v.ptt = ptt
                 /\ \/ Queue(v).at = "idle"
                    \/ gw.active # 0 /\ Queue(v).at = "closing" /\ Queue(v).session = gw.active /\ ~Queue(v).last
    <3>1. CASE R!Become(m)
      <4>1. Others(w, m, "queue") /\ Queue(m).at = "idle"
        BY <1>1, <1>2, <2>1 DEF Others, Queue, R!Idle
      <4> QED BY <2>1, <3>1, <4>1
    <3>2. CASE R!Become(R!Stop(m, "queue", FALSE))
      <4> DEFINE v == R!Stop(m, "queue", FALSE)
      <4>1. /\ Moves(m, v) /\ Others(m, v, "queue") /\ v.races = races /\ v.ptt = ptt
            /\ \/ Queue(v).at = "idle"
               \/ gw.active # 0 /\ Queue(v).at = "closing" /\ Queue(v).session = gw.active /\ ~Queue(v).last
        <5>1. PttInv(m.ptt)
          BY <2>1 DEF Moves
        <5>2. /\ Moves(m, v) /\ Others(m, v, "queue") /\ v.races = m.races /\ v.ptt = m.ptt
              /\ m.gw.active # 0 => /\ v.gw.threads["queue"].at = "closing"
                                    /\ v.gw.threads["queue"].session = m.gw.active
                                    /\ ~v.gw.threads["queue"].last
              /\ m.gw.active = 0 => v.gw.threads["queue"].at = "idle"
          BY <1>4, <5>1, StopOne
        <5> HIDE DEF v
        <5> QED BY <2>1, <5>2 DEF Queue
      <4> HIDE DEF v
      <4>2. Moves(w, v) /\ Others(w, v, "queue")
        BY <1>2, <2>1, <4>1, MovesOn DEF Others
      <4> QED BY <3>2, <4>1, <4>2 DEF v
    <3> QED BY <2>1, <3>1, <3>2
  <2>4. Unfailed(v.races) => PlayInv(v, phase)
    BY <1>2, <2>2, <2>3, FreeStep DEF Stopping, Others
  <2>5. v.races \subseteq {"unknown"} /\ phase # "closing" => KeyInv(v, talk, inbox)
    <3>1. ASSUME RadioFirst(R!World) PROVE RadioFirst(v)
      <4>1. gw.active = 0 /\ RadioFirst(w)
        BY <1>5, <2>2, <3>1
      <4>2. Queue(w).at = "idle"
        BY <1>1, <1>2 DEF Queue, R!Idle
      <4>3. R!Range(w.gw.queue) \cap Starts # {}
        BY <4>1, <4>2 DEF RadioFirst
      <4>4. v.gw.active = 0 /\ v.ptt = w.ptt /\ v.gw.queue = w.gw.queue /\ Queue(v).at = "idle"
        BY <1>2, <2>3, <4>1 DEF Others, Moves
      <4> QED BY <4>1, <4>3, <4>4 DEF RadioFirst
    <3>2. Key \in R!Range(gw.queue) => Key \in R!Range(v.gw.queue)
      BY <1>2, <2>2, <2>3 DEF Moves
    <3> QED BY <1>2, <1>3, <2>3, <3>1, <3>2, KeyStep DEF Moves
  <2>6. RadioGood(v, talk, inbox, phase)
    BY <1>2, <1>3, <2>3, <2>4, <2>5, GoodStep
  <2> QED BY <1>6, <2>3, <2>6 DEF Moves
<1>10. CASE t = Shutdown /\ R!Become(R!Stop(w, "queue", TRUE))
  <2> DEFINE v == R!Stop(w, "queue", TRUE)
  <2>1. /\ Moves(w, v) /\ Others(w, v, "queue") /\ v.races = races
        /\ gw.active # 0 => Queue(v).at = "closing" /\ Queue(v).session = gw.active /\ Queue(v).last
        /\ gw.active = 0 => Queue(v).at = "unkeying" /\ ~v.ptt.desired
    <3>1. /\ Moves(w, v) /\ Others(w, v, "queue") /\ v.races = w.races
          /\ w.gw.active # 0 => /\ v.gw.threads["queue"].at = "closing"
                                /\ v.gw.threads["queue"].session = w.gw.active
                                /\ v.gw.threads["queue"].last
          /\ w.gw.active = 0 => v.gw.threads["queue"].at = "unkeying" /\ ~v.ptt.desired
      BY <1>2, <1>3, <1>4, StopLast
    <3> HIDE DEF v
    <3> QED BY <1>2, <3>1 DEF Queue
  <2> HIDE DEF v
  <2>2. Unfailed(v.races) => PlayInv(v, phase) /\ phase = "closing"
    <3> SUFFICES ASSUME Unfailed(races) PROVE PlayInv(v, phase) /\ phase = "closing"
      BY <2>1
    <3>1. phase = "closing" /\ PlayInv(R!World, phase)
      BY <1>2, <1>10
    <3>2. v.gw.threads["rescue"].at = "idle" /\ v.gw.active = gw.active /\ v.sess = sess
          /\ v.gw.queue = w.gw.queue
      BY <1>2, <1>3, <2>1, <3>1 DEF PlayInv, Others, R!Threads, Moves
    <3>3. \A n \in Sessions : v.sess[n].plays => n = v.gw.active
      BY <3>1, <3>2 DEF PlayInv, R!World
    <3>4. Cleanup(v)
      BY <1>2, <2>1, <3>1, <3>2, <3>3 DEF Cleanup, Stopping, RadioSilent
    <3>5. Queue(v).at = "unkeying" => RadioSilent(v)
      BY <2>1, <3>2, <3>3 DEF RadioSilent
    <3> QED BY <2>1, <3>1, <3>2, <3>3, <3>4, <3>5 DEF PlayInv, Stopping
  <2>3. v.races \subseteq {"unknown"} => Unfailed(v.races)
    BY DEF Unfailed
  <2>4. RadioGood(v, talk, inbox, phase)
    BY <1>2, <1>3, <2>1, <2>2, <2>3, GoodStep
  <2> QED BY <1>6, <1>10, <2>1, <2>4 DEF Moves, v
<1>11. CASE t.do = "gone" \/ t.do = "closed"
  <2>1. t \in Losses
    BY <1>2, <1>11 DEF Tasks, Losses, Starts, Key, Shutdown
  <2>2. PttInv(w.ptt) /\ Moves(w, w)
    BY <1>2, <1>3 DEF Moves
  <2>3. CASE t.do = "closed"
    <3>1. R!Become(R!Stop(w, "queue", FALSE)) \/ R!Become(w)
      BY <2>3 DEF R!Begin, w, t
    <3> QED BY <1>2, <1>9, <2>1, <2>2, <3>1
  <2>4. CASE t.do = "gone"
    <3> DEFINE pending == IF w.gw.pending = t.of THEN None ELSE w.gw.pending
               h == [w.gw EXCEPT !.pending = pending]
               m == [w EXCEPT !.gw.pending = IF @ = t.of THEN None ELSE @]
    <3>1. R!Become(R!Stop(m, "queue", FALSE)) \/ R!Become(m)
      BY <2>4 DEF R!Begin, w, t
    <3>2. m = [gw |-> h, ptt |-> w.ptt, rx |-> w.rx, sess |-> w.sess, races |-> w.races]
      BY <1>2 DEF Worlds, GwStates
    <3>3. w.gw \in GwStates /\ pending \in Talkers \cup {None}
      BY <1>2, RadioParts DEF GwStates
    <3> HIDE DEF pending
    <3>4. h \in GwStates /\ h.threads = w.gw.threads /\ h.active = w.gw.active
          /\ h.queue = w.gw.queue /\ h.timer = w.gw.timer
      BY <3>3 DEF GwStates
    <3> HIDE DEF h, m
    <3>5. m \in Worlds /\ Moves(w, m) /\ m.races = races /\ m.ptt = ptt
          /\ m.gw.active = gw.active /\ m.gw.threads = gw.threads
      BY <1>2, <1>3, <3>2, <3>4, Whole, RadioParts DEF Moves
    <3> QED BY <1>9, <2>1, <3>1, <3>5
  <2> QED BY <1>11, <2>3, <2>4
<1>12. CASE t.do = "start" /\ R!Become(R!Start(w, "queue", t.of))
  BY <1>2, <1>7, <1>12 DEF Tasks, Losses, Starts, Key, Shutdown
<1>13. CASE t.do = "key" /\ R!Become(LET v == IF R!Addressing = {} THEN R!Race(w, "late") ELSE w
                                   IN  R!SetPtt(R!At(v, "queue", "keyed"), TRUE, "queue"))
  <2>1. t = Key
    BY <1>2, <1>13 DEF Tasks, Losses, Starts, Key, Shutdown
  <2> QED BY <1>8, <1>13, <2>1
<1>14. CASE t.do = "shutdown" /\ R!Become(R!Stop(w, "queue", TRUE))
  <2>1. t = Shutdown
    BY <1>2, <1>14 DEF Tasks, Losses, Starts, Key, Shutdown
  <2> QED BY <1>10, <1>14, <2>1
<1>15. \/ t.do = "gone" \/ t.do = "closed"
       \/ t.do = "start" /\ R!Become(R!Start(w, "queue", t.of))
       \/ t.do = "key" /\ R!Become(LET v == IF R!Addressing = {} THEN R!Race(w, "late") ELSE w
                                 IN  R!SetPtt(R!At(v, "queue", "keyed"), TRUE, "queue"))
       \/ t.do = "shutdown" /\ R!Become(R!Stop(w, "queue", TRUE))
  BY DEF R!Begin, w, t
<1> QED BY <1>11, <1>12, <1>13, <1>14, <1>15

(***************************************************************************)
(* The other steps of the threads.                                         *)
(***************************************************************************)
(* What the invariant says of the state as it is.                          *)
LEMMA AsItIs ==
  ASSUME RadioIInv
  PROVE  /\ R!World \in Worlds /\ gw \in GwStates /\ gw.threads \in [R!Threads -> ThreadStates]
         /\ R!World.gw = gw /\ R!World.ptt = ptt /\ R!World.rx = rx /\ R!World.sess = sess /\ R!World.races = races
         /\ PttInv(ptt) /\ RxInv(rx, phase, races)
         /\ Unfailed(races) => PlayInv(R!World, phase) /\ PinInv(R!World)
         /\ races \subseteq {"unknown"} => Unfailed(races)
         /\ races \subseteq {"unknown"} /\ phase # "closing" => KeyInv(R!World, talk, inbox)
<1>1. R!World \in Worlds /\ R!World.gw = gw /\ R!World.ptt = ptt /\ R!World.rx = rx /\ R!World.sess = sess
      /\ R!World.races = races
  BY DEF RadioIInv, RadioTypes, R!World
<1>2. gw \in GwStates
  BY <1>1, RadioParts
<1>3. gw.threads \in [R!Threads -> ThreadStates]
  BY <1>2 DEF GwStates
<1> QED BY <1>1, <1>2, <1>3 DEF RadioIInv, RadioGood, Unfailed

(* The invariant holds again once it holds of what the variables become.   *)
LEMMA GoodAgain ==
  ASSUME RadioIInv, UNCHANGED <<talk, delivered, inbox, phase>>,
         NEW v \in Worlds, R!Become(v), RadioGood(v, talk, inbox, phase)
  PROVE  RadioIInv'
<1>1. R!World' = v
  BY Becoming
<1>2. RadioTypes'
  BY <1>1 DEF RadioIInv, RadioTypes
<1> QED BY <1>1, <1>2 DEF RadioIInv

(* A start that fails.                                                     *)
LEMMA FailKeeps ==
  ASSUME RadioIInv, UNCHANGED <<talk, delivered, inbox, phase>>, NEW x \in R!Threads, R!Become(R!Fail(R!World, x))
  PROVE  RadioIInv'
<1> DEFINE v == R!Fail(R!World, x)
<1>1. Moves(R!World, v) /\ "fault" \in v.races
  BY AsItIs, FailEffect
<1> HIDE DEF v
<1>2. Moves(R!World, v) /\ RxInv(R!World.rx, phase, R!World.races) /\ (Unfailed(R!World.races) => PinInv(R!World))
  BY <1>1, AsItIs
<1>3. ~Unfailed(v.races) /\ ~(v.races \subseteq {"unknown"})
  BY <1>1 DEF Unfailed
<1>4. RadioGood(v, talk, inbox, phase)
  BY <1>2, <1>3, GoodStep
<1>5. v \in Worlds
  BY <1>1 DEF Moves
<1> QED BY <1>4, <1>5, GoodAgain DEF v

(* A thread that stops no playback may go on to do anything.               *)
LEMMA Unstopped ==
  ASSUME NEW w, NEW ph, PlayInv(w, ph), ~Stopping(w) PROVE Free(w, ph)
BY DEF PlayInv, Free, Cleanup

(* The playback n is changed.                                              *)
LEMMA PlaybackSet ==
  ASSUME NEW w \in Worlds, NEW n \in Sessions, NEW b \in Playbacks, PttInv(w.ptt)
  PROVE  LET v == [w EXCEPT !.sess[n] = b]
         IN  /\ v \in Worlds /\ v.gw = w.gw /\ v.ptt = w.ptt /\ v.rx = w.rx /\ v.races = w.races
             /\ v.sess = [w.sess EXCEPT ![n] = b] /\ v.sess[n] = b
             /\ \A m \in Sessions \ {n} : v.sess[m] = w.sess[m]
<1> DEFINE ss == [w.sess EXCEPT ![n] = b]
           v == [w EXCEPT !.sess[n] = b]
<1>1. w.sess \in [Sessions -> Playbacks]
  BY RadioParts
<1>2. ss \in [Sessions -> Playbacks] /\ ss[n] = b /\ \A m \in Sessions \ {n} : ss[m] = w.sess[m]
  BY <1>1
<1> HIDE DEF ss
<1>3. v = [gw |-> w.gw, ptt |-> w.ptt, rx |-> w.rx, sess |-> ss, races |-> w.races]
  BY DEF Worlds, ss
<1>4. v \in Worlds
  BY <1>2, <1>3, Whole, RadioParts
<1> QED BY <1>2, <1>3, <1>4 DEF ss

(* The answer to close-consumer.                                           *)
LEMMA RadioClosedKeeps == ASSUME RadioIInv, NEW x \in R!Threads, R!Closed(x) PROVE RadioIInv'
<1> DEFINE n == gw.threads[x].session
           b == [sess[n] EXCEPT !.consumer = "closed"]
           w == [R!World EXCEPT !.sess[n] = b]
           v == R!At(w, x, "killing")
<1>1. gw.threads[x].at = "closing" /\ n \in Sessions /\ gw.threads[x] \in ThreadStates
      /\ sess \in [Sessions -> Playbacks] /\ UNCHANGED <<talk, delivered, inbox, phase>>
  BY AsItIs, RadioParts DEF R!Closed, ThreadStates
<1>2. b \in Playbacks /\ b.plays = sess[n].plays
  BY <1>1 DEF Playbacks
<1>3. [R!World EXCEPT !.sess[n].consumer = "closed"] = w
  BY <1>1 DEF R!World
<1>4. R!Become(v)
  BY <1>3 DEF R!Closed
<1>5. /\ w \in Worlds /\ w.gw = gw /\ w.ptt = ptt /\ w.rx = rx /\ w.races = races
      /\ \A m \in Sessions : w.sess[m].plays = sess[m].plays
  <2> HIDE DEF b, n
  <2>1. PttInv(R!World.ptt)
    BY AsItIs
  <2> QED BY <1>1, <1>2, <2>1, AsItIs, PlaybackSet
<1> HIDE DEF w, v, b, n
<1>6. [w.gw.threads[x] EXCEPT !.at = "killing"] \in ThreadStates
  BY <1>1, <1>5, ThreadTypes DEF n
<1>7. /\ Moves(w, v) /\ Others(w, v, x) /\ v.races = races /\ v.ptt = ptt
      /\ v.gw.threads[x].at = "killing" /\ v.gw.threads[x].session = gw.threads[x].session
      /\ v.gw.threads[x].last = gw.threads[x].last
  BY <1>5, <1>6, AsItIs, AtEffect DEF v
<1>8. ASSUME Unfailed(races) PROVE PlayInv(v, phase) /\ PinInv(w) /\ x = "queue"
  <2>1. PlayInv(R!World, phase) /\ PinInv(R!World)
    BY <1>8, AsItIs
  <2>2. x = "queue"
    BY <1>1, <2>1, AsItIs DEF PlayInv, R!Threads
  <2>3. /\ Queue(R!World).at = "closing" /\ Queue(v).at = "killing" /\ Queue(v).session = Queue(R!World).session
        /\ Queue(v).last = Queue(R!World).last /\ v.gw.active = gw.active /\ v.gw.queue = gw.queue
        /\ v.gw.threads["rescue"].at = gw.threads["rescue"].at
        /\ \A m \in Sessions : v.sess[m].plays = sess[m].plays
    BY <1>1, <1>5, <1>7, <2>2, AsItIs DEF Queue, Others, Moves, R!Threads
  <2>4. Cleanup(R!World) => Cleanup(v)
    BY <1>7, <2>3, AsItIs DEF Cleanup, Stopping, RadioSilent
  <2>5. PlayInv(v, phase)
    BY <2>1, <2>3, <2>4, AsItIs DEF PlayInv, Stopping
  <2> QED BY <1>5, <2>1, <2>2, <2>5, AsItIs DEF PinInv
<1>9. v.races \subseteq {"unknown"} /\ phase # "closing" => KeyInv(v, talk, inbox)
  <2> SUFFICES ASSUME races \subseteq {"unknown"}, phase # "closing" PROVE KeyInv(v, talk, inbox)
    BY <1>7
  <2>1. KeyInv(R!World, talk, inbox) /\ x = "queue"
    BY <1>8, AsItIs
  <2>2. ~RadioFirst(R!World)
    BY <1>1, <2>1, AsItIs DEF RadioFirst, Queue
  <2>3. /\ v.gw.timer = R!World.gw.timer /\ v.ptt.desired = R!World.ptt.desired
        /\ Key \in R!Range(R!World.gw.queue) => Key \in R!Range(v.gw.queue)
    BY <1>5, <1>7, AsItIs DEF Moves
  <2> QED BY <2>1, <2>2, <2>3, KeyStep
<1>10. RadioGood(v, talk, inbox, phase)
  <2>1. Moves(w, v) /\ RxInv(w.rx, phase, w.races) /\ (Unfailed(w.races) => PinInv(w))
        /\ (Unfailed(v.races) => PlayInv(v, phase))
    BY <1>5, <1>7, <1>8, AsItIs
  <2> QED BY <1>9, <2>1, GoodStep
<1>11. v \in Worlds
  BY <1>7 DEF Moves
<1> QED BY <1>1, <1>4, <1>10, <1>11, GoodAgain

(* The playback in progress becomes m, with all else as it is.             *)
LEMMA ActiveSet ==
  ASSUME NEW w \in Worlds, NEW m \in Sessions \cup {0}, PttInv(w.ptt)
  PROVE  LET v == [w EXCEPT !.gw.active = m]
         IN  /\ v \in Worlds /\ v.ptt = w.ptt /\ v.rx = w.rx /\ v.races = w.races /\ v.sess = w.sess
             /\ v.gw.active = m /\ v.gw.pending = w.gw.pending /\ v.gw.queue = w.gw.queue
             /\ v.gw.timer = w.gw.timer /\ v.gw.threads = w.gw.threads
<1> DEFINE h == [w.gw EXCEPT !.active = m]
           v == [w EXCEPT !.gw.active = m]
<1>1. h \in GwStates /\ h.active = m /\ h.pending = w.gw.pending /\ h.queue = w.gw.queue
      /\ h.timer = w.gw.timer /\ h.threads = w.gw.threads
  BY RadioParts DEF GwStates
<1>2. v = [gw |-> h, ptt |-> w.ptt, rx |-> w.rx, sess |-> w.sess, races |-> w.races]
  BY DEF Worlds
<1> HIDE DEF h, v
<1>3. v \in Worlds
  BY <1>1, <1>2, Whole, RadioParts
<1> QED BY <1>1, <1>2, <1>3 DEF v

(* The process of a playback is gone.                                      *)
LEMMA KilledKeeps == ASSUME RadioIInv, 0 \notin Sessions, NEW x \in R!Threads, R!Killed(x) PROVE RadioIInv'
<1> DEFINE n == gw.threads[x].session
           b == [sess[n] EXCEPT !.plays = FALSE]
           w == [R!World EXCEPT !.sess[n] = b]
           next == IF gw.active = n THEN 0 ELSE gw.active
           a == [w EXCEPT !.gw.active = next]
           v == IF gw.threads[x].last THEN R!SetPtt(R!At(w, x, "unkeying"), FALSE, x) ELSE R!StartPending(a, x)
<1>1. gw.threads[x].at = "killing" /\ n \in Sessions /\ gw.threads[x] \in ThreadStates
      /\ sess \in [Sessions -> Playbacks] /\ UNCHANGED <<talk, delivered, inbox, phase>>
  BY AsItIs, RadioParts DEF R!Killed, ThreadStates
<1>2. b \in Playbacks /\ ~b.plays
  <2>1. sess[n] \in Playbacks
    BY <1>1
  <2>2. PICK no \in BOOLEAN : no = FALSE
    OBVIOUS
  <2>3. b = [sess[n] EXCEPT !.plays = no]
    BY ONLY <2>2, Zenon DEF b
  <2> HIDE DEF n, b
  <2>4. b \in Playbacks /\ b.plays = no
    BY <2>1, <2>3 DEF Playbacks
  <2> QED BY <2>2, <2>4
<1>3. [R!World EXCEPT !.sess[n].plays = FALSE] = w
  BY <1>1 DEF R!World
<1>4. w.gw.active = gw.active /\ [w EXCEPT !.gw.active = IF @ = n THEN 0 ELSE @] = a
  BY <1>1 DEF R!World
<1>5. R!Become(v)
  <2> DEFINE k == [R!World EXCEPT !.sess[n].plays = FALSE]
  <2>1. R!Become(IF gw.threads[x].last THEN R!SetPtt(R!At(k, x, "unkeying"), FALSE, x)
               ELSE R!StartPending([k EXCEPT !.gw.active = IF @ = n THEN 0 ELSE @], x))
    BY DEF R!Killed
  <2>2. k = w
    BY <1>3
  <2> HIDE DEF k, w, n, a
  <2> QED BY <1>4, <2>1, <2>2
<1>6. /\ w \in Worlds /\ w.gw = gw /\ w.ptt = ptt /\ w.rx = rx /\ w.races = races
      /\ \A m \in Sessions : w.sess[m].plays => sess[m].plays /\ m # n
  <2> HIDE DEF b, n
  <2>1. PttInv(R!World.ptt)
    BY AsItIs
  <2> QED BY <1>1, <1>2, <2>1, AsItIs, PlaybackSet
<1>7. next \in Sessions \cup {0}
  BY AsItIs DEF GwStates
<1> HIDE DEF w, b, n, next
<1>8. /\ a \in Worlds /\ a.ptt = ptt /\ a.rx = rx /\ a.races = races /\ a.sess = w.sess
      /\ a.gw.active = next /\ a.gw.queue = gw.queue /\ a.gw.timer = gw.timer /\ a.gw.threads = gw.threads
  BY <1>6, <1>7, AsItIs, ActiveSet
<1> HIDE DEF a
<1>9. ASSUME Unfailed(races)
      PROVE  /\ PlayInv(R!World, phase) /\ x = "queue" /\ n = gw.active /\ RadioSilent(w)
             /\ next = 0
             /\ gw.threads[x].last => phase = "closing"
  <2>1. PlayInv(R!World, phase)
    BY <1>9, AsItIs
  <2>2. x = "queue"
    BY <1>1, <2>1, AsItIs DEF PlayInv, R!Threads
  <2>3. n = gw.active /\ (gw.threads[x].last => phase = "closing")
    BY <1>1, <2>1, <2>2, AsItIs DEF PlayInv, Stopping, Queue, n
  <2>4. RadioSilent(w)
    BY <1>6, <2>1, <2>3, AsItIs DEF RadioSilent, PlayInv
  <2> QED BY <2>1, <2>2, <2>3, <2>4 DEF next
<1>10. ~RadioFirst(R!World) \/ x # "queue"
  BY <1>1, AsItIs DEF RadioFirst, Queue
<1>11. CASE gw.threads[x].last
  <2> DEFINE u == R!At(w, x, "unkeying")
             z == R!SetPtt(u, FALSE, x)
  <2>1. [w.gw.threads[x] EXCEPT !.at = "unkeying"] \in ThreadStates
    BY <1>1, <1>6, ThreadTypes
  <2>2. /\ Moves(w, u) /\ Others(w, u, x) /\ u.races = races /\ u.gw.threads[x].at = "unkeying"
    BY <1>6, <2>1, AsItIs, AtEffect
  <2> HIDE DEF u
  <2>3. u \in Worlds /\ PttInv(u.ptt) /\ FALSE \in BOOLEAN /\ x \in R!Threads \cup {None}
    BY <2>2 DEF Moves
  <2>4. RadioSameBut(u, z) /\ z.ptt.desired = FALSE /\ PttInv(z.ptt)
    BY <2>3, SetPttEffect
  <2> HIDE DEF z
  <2>5. Moves(u, z) /\ z.races = u.races /\ z.gw.active = u.gw.active
        /\ \A y \in R!Threads : z.gw.threads[y].at = u.gw.threads[y].at
    BY <2>4, ButMoves
  <2>6. Moves(w, z) /\ Others(w, z, x) /\ z.races = races /\ z.gw.threads[x].at = "unkeying"
    BY <2>2, <2>5, MovesOn DEF Others
  <2>7. ASSUME Unfailed(races) PROVE PlayInv(z, phase) /\ phase = "closing"
    <3>1. PlayInv(R!World, phase) /\ x = "queue" /\ RadioSilent(w) /\ phase = "closing"
      BY <1>9, <1>11, <2>7
    <3>2. z.gw.threads["rescue"].at = gw.threads["rescue"].at /\ z.gw.queue = gw.queue /\ RadioSilent(z)
          /\ Queue(z).at = "unkeying"
      BY <1>6, <2>6, <3>1 DEF Others, Moves, RadioSilent, R!Threads, Queue
    <3>3. Cleanup(z)
      BY <2>4, <3>1, <3>2, AsItIs DEF Cleanup, PlayInv
    <3> QED BY <3>1, <3>2, <3>3, AsItIs DEF PlayInv, Stopping, RadioSilent
  <2>8. RadioGood(z, talk, inbox, phase)
    <3>1. Moves(w, z) /\ RxInv(w.rx, phase, w.races) /\ (Unfailed(w.races) => PinInv(w))
      BY <1>6, <2>6, AsItIs DEF PinInv
    <3>2. Unfailed(z.races) => PlayInv(z, phase)
      BY <2>6, <2>7
    <3>3. z.races \subseteq {"unknown"} /\ phase # "closing" => KeyInv(z, talk, inbox)
      BY <2>6, <2>7, AsItIs
    <3> QED BY <3>1, <3>2, <3>3, GoodStep
  <2>9. v = z /\ z \in Worlds
    BY <1>11, <2>6 DEF z, u, Moves
  <2> QED BY <1>1, <1>5, <2>8, <2>9, GoodAgain
<1>12. CASE ~gw.threads[x].last
  <2> DEFINE z == R!StartPending(a, x)
  <2>1. /\ Moves(a, z) /\ Others(a, z, x) /\ z.races = races /\ z.ptt = ptt
        /\ \/ z.gw.threads[x].at = "idle"
           \/ next = 0 /\ z.gw.threads[x].at = "consuming"
    BY <1>8, AsItIs, StartPendingEffect
  <2> HIDE DEF z
  <2>2. ASSUME Unfailed(races) PROVE PlayInv(z, phase)
    <3>1. PlayInv(R!World, phase) /\ x = "queue" /\ RadioSilent(w) /\ next = 0
      BY <1>9, <2>2
    <3>2. phase = "closing" => Cleanup(R!World) /\ ~Queue(R!World).last
      BY <1>12, <3>1, AsItIs DEF PlayInv, Queue
    <3>3. Free(a, phase)
      BY <1>8, <3>1, <3>2, AsItIs DEF Free, PlayInv, RadioSilent, Cleanup
    <3>4. /\ Queue(z).at \in {"idle", "consuming"} /\ z.gw.active = 0 /\ z.ptt.desired = a.ptt.desired
      BY <1>8, <2>1, <3>1 DEF Queue, Others
    <3>5. Others(a, z, "queue") /\ Moves(a, z)
      BY <2>1, <3>1
    <3> QED BY <3>3, <3>4, <3>5, FreeStep DEF Stopping
  <2>3. z.races \subseteq {"unknown"} /\ phase # "closing" => KeyInv(z, talk, inbox)
    <3> SUFFICES ASSUME races \subseteq {"unknown"}, phase # "closing" PROVE KeyInv(z, talk, inbox)
      BY <2>1
    <3>1. KeyInv(R!World, talk, inbox) /\ ~RadioFirst(R!World)
      BY <1>9, <1>10, AsItIs
    <3>2. /\ z.gw.timer = R!World.gw.timer /\ z.ptt.desired = R!World.ptt.desired
          /\ Key \in R!Range(R!World.gw.queue) => Key \in R!Range(z.gw.queue)
      BY <1>8, <2>1, AsItIs DEF Moves
    <3> QED BY <3>1, <3>2, KeyStep
  <2>4. RadioGood(z, talk, inbox, phase)
    <3>1. Moves(a, z) /\ RxInv(a.rx, phase, a.races) /\ (Unfailed(a.races) => PinInv(a))
      BY <1>8, <2>1, AsItIs DEF PinInv
    <3>2. Unfailed(z.races) => PlayInv(z, phase)
      BY <2>1, <2>2
    <3> QED BY <2>3, <3>1, <3>2, GoodStep
  <2>5. v = z /\ z \in Worlds
    BY <1>12, <2>1 DEF z, Moves
  <2> QED BY <1>1, <1>5, <2>4, <2>5, GoodAgain
<1> QED BY <1>11, <1>12

(* The radio is keyed: what the server sends is resumed.                   *)
LEMMA KeyedKeeps == ASSUME RadioIInv, NEW x \in R!Threads, R!Keyed(x) PROVE RadioIInv'
<1> DEFINE n == gw.threads[x].session
           consumer == IF sess[n].consumer = "closed" \/ phase = "closing" THEN sess[n].consumer ELSE "live"
           b == [sess[n] EXCEPT !.consumer = consumer]
           w == [R!World EXCEPT !.sess[n] = b]
           v == R!At(w, x, "resuming")
<1>1. gw.threads[x].at = "keying" /\ n \in Sessions /\ gw.threads[x] \in ThreadStates
      /\ sess \in [Sessions -> Playbacks] /\ UNCHANGED <<talk, delivered, inbox, phase>>
  BY AsItIs, RadioParts DEF R!Keyed, ThreadStates
<1>2. b \in Playbacks /\ b.plays = sess[n].plays
  <2>1. sess[n] \in Playbacks
    BY <1>1
  <2>2. consumer \in {"closed", "paused", "live"}
    BY <2>1 DEF Playbacks
  <2> HIDE DEF n, consumer
  <2> QED BY <2>1, <2>2 DEF Playbacks
<1>3. [R!World EXCEPT !.sess[n].consumer = IF @ = "closed" \/ phase = "closing" THEN @ ELSE "live"] = w
  BY <1>1 DEF R!World
<1>4. R!Become(R!Fail(R!World, x)) \/ R!Become(v)
  <2> DEFINE k == [R!World EXCEPT !.sess[n].consumer = IF @ = "closed" \/ phase = "closing" THEN @ ELSE "live"]
  <2>1. R!Become(R!Fail(R!World, x)) \/ R!Become(R!At(k, x, "resuming"))
    BY DEF R!Keyed
  <2>2. k = w
    BY <1>3
  <2> HIDE DEF k, w
  <2> QED BY <2>1, <2>2
<1>5. /\ w \in Worlds /\ w.gw = gw /\ w.ptt = ptt /\ w.rx = rx /\ w.races = races
      /\ \A m \in Sessions : w.sess[m].plays = sess[m].plays
  <2> HIDE DEF b, n
  <2>1. PttInv(R!World.ptt)
    BY AsItIs
  <2> QED BY <1>1, <1>2, <2>1, AsItIs, PlaybackSet
<1> HIDE DEF w, v, b, n
<1>6. [w.gw.threads[x] EXCEPT !.at = "resuming"] \in ThreadStates
  BY <1>1, <1>5, ThreadTypes DEF n
<1>7. /\ Moves(w, v) /\ Others(w, v, x) /\ v.races = races /\ v.ptt = ptt /\ v.gw.threads[x].at = "resuming"
  BY <1>5, <1>6, AsItIs, AtEffect DEF v
<1>8. ASSUME Unfailed(races) PROVE PlayInv(v, phase) /\ PinInv(w) /\ x = "queue"
  <2>1. PlayInv(R!World, phase) /\ PinInv(R!World)
    BY <1>8, AsItIs
  <2>2. x = "queue"
    BY <1>1, <2>1, AsItIs DEF PlayInv, R!Threads
  <2>3. ~Stopping(R!World)
    BY <1>1, <2>2, AsItIs DEF Stopping, Queue
  <2>4. Free(R!World, phase)
    BY <2>1, <2>3, Unstopped
  <2>5. Free(w, phase)
    BY <1>5, <2>4, AsItIs DEF Free, RadioSilent
  <2>6. PlayInv(v, phase)
    BY <1>5, <1>7, <2>2, <2>5, FreeStep DEF Stopping, Queue
  <2> QED BY <1>5, <2>1, <2>2, <2>6, AsItIs DEF PinInv
<1>9. v.races \subseteq {"unknown"} /\ phase # "closing" => KeyInv(v, talk, inbox)
  <2> SUFFICES ASSUME races \subseteq {"unknown"}, phase # "closing" PROVE KeyInv(v, talk, inbox)
    BY <1>7
  <2>1. KeyInv(R!World, talk, inbox) /\ x = "queue"
    BY <1>8, AsItIs
  <2>2. ~RadioFirst(R!World)
    BY <1>1, <2>1, AsItIs DEF RadioFirst, Queue
  <2>3. /\ v.gw.timer = R!World.gw.timer /\ v.ptt.desired = R!World.ptt.desired
        /\ Key \in R!Range(R!World.gw.queue) => Key \in R!Range(v.gw.queue)
    BY <1>5, <1>7, AsItIs DEF Moves
  <2> QED BY <2>1, <2>2, <2>3, KeyStep
<1>10. RadioGood(v, talk, inbox, phase)
  <2>1. Moves(w, v) /\ RxInv(w.rx, phase, w.races) /\ (Unfailed(w.races) => PinInv(w))
        /\ (Unfailed(v.races) => PlayInv(v, phase))
    BY <1>5, <1>7, <1>8, AsItIs
  <2> QED BY <1>9, <2>1, GoodStep
<1>11. v \in Worlds
  BY <1>7 DEF Moves
<1>12. CASE R!Become(v)
  BY <1>1, <1>10, <1>11, <1>12, GoodAgain
<1>13. CASE R!Become(R!Fail(R!World, x))
  BY <1>1, <1>13, FailKeeps
<1> QED BY <1>4, <1>12, <1>13

(* The end of a thread, or of the playback that it stopped.                *)
LEMMA FinishedKeeps == ASSUME RadioIInv, NEW x \in R!Threads, R!Finished(x) PROVE RadioIInv'
<1> DEFINE n == gw.threads[x].session
           next == IF gw.active = n THEN 0 ELSE gw.active
           a == [R!World EXCEPT !.gw.active = next]
           d == R!Done(R!World, x)
           z == R!StartPending(a, x)
<1>1. gw.threads[x].at \in {"resuming", "keyed", "unkeying"} /\ gw.threads[x] \in ThreadStates
      /\ UNCHANGED <<talk, delivered, inbox, phase>>
  BY AsItIs DEF R!Finished
<1>2. \/ R!Become(R!Fail(R!World, x))
      \/ gw.threads[x].at \in {"resuming", "keyed", "unkeying"} /\ R!Become(d)
      \/ gw.threads[x].at = "unkeying" /\ R!Become(z)
  <2> DEFINE k == [R!World EXCEPT !.gw.active = IF @ = gw.threads[x].session THEN 0 ELSE @]
  <2>1. \/ R!Become(R!Fail(R!World, x)) \/ R!Become(R!Done(R!World, x))
        \/ gw.threads[x].at = "unkeying" /\ R!Become(R!StartPending(k, x))
    BY DEF R!Finished
  <2>2. k = a
    BY DEF R!World
  <2> HIDE DEF k, a
  <2> QED BY <1>1, <2>1, <2>2
<1>3. next \in Sessions \cup {0}
  BY AsItIs DEF GwStates
<1> HIDE DEF next
<1>4. /\ a \in Worlds /\ a.ptt = ptt /\ a.rx = rx /\ a.races = races /\ a.sess = sess
      /\ a.gw.active = next /\ a.gw.queue = gw.queue /\ a.gw.timer = gw.timer /\ a.gw.threads = gw.threads
  BY <1>3, AsItIs, ActiveSet
<1> HIDE DEF a
<1>5. ASSUME Unfailed(races) PROVE PlayInv(R!World, phase) /\ x = "queue" /\ Free(R!World, phase)
  <2>1. PlayInv(R!World, phase)
    BY <1>5, AsItIs
  <2>2. x = "queue"
    BY <1>1, <2>1, AsItIs DEF PlayInv, R!Threads
  <2>3. ~Stopping(R!World)
    BY <1>1, <2>2, AsItIs DEF Stopping, Queue
  <2> QED BY <2>1, <2>2, <2>3, Unstopped
<1>6. races \subseteq {"unknown"} /\ phase # "closing" => KeyInv(R!World, talk, inbox) /\ ~RadioFirst(R!World)
  <2> SUFFICES ASSUME races \subseteq {"unknown"}, phase # "closing"
               PROVE  KeyInv(R!World, talk, inbox) /\ ~RadioFirst(R!World)
    OBVIOUS
  <2>1. KeyInv(R!World, talk, inbox) /\ x = "queue"
    BY <1>5, AsItIs
  <2> QED BY <1>1, <2>1, AsItIs DEF RadioFirst, Queue
<1>7. ASSUME R!Become(d) PROVE RadioIInv'
  <2>1. /\ Moves(R!World, d) /\ Others(R!World, d, x) /\ d.races = races /\ d.ptt = ptt
        /\ d.gw.threads[x] = R!Idle
    BY AsItIs, DoneEffect
  <2> HIDE DEF d
  <2>2. Unfailed(d.races) => PlayInv(d, phase)
    <3> SUFFICES ASSUME Unfailed(races) PROVE PlayInv(d, phase)
      BY <2>1
    <3>1. Free(R!World, phase) /\ x = "queue"
      BY <1>5
    <3>2. Queue(d).at = "idle"
      BY <2>1, <3>1 DEF Queue, R!Idle
    <3> QED BY <2>1, <3>1, <3>2, AsItIs, FreeStep DEF Stopping
  <2>3. d.races \subseteq {"unknown"} /\ phase # "closing" => KeyInv(d, talk, inbox)
    <3> SUFFICES ASSUME races \subseteq {"unknown"}, phase # "closing" PROVE KeyInv(d, talk, inbox)
      BY <2>1
    <3>1. /\ d.gw.timer = R!World.gw.timer /\ d.ptt.desired = R!World.ptt.desired
          /\ Key \in R!Range(R!World.gw.queue) => Key \in R!Range(d.gw.queue)
      BY <2>1, AsItIs DEF Moves
    <3> QED BY <1>6, <3>1, KeyStep
  <2>4. RadioGood(d, talk, inbox, phase)
    <3>1. RxInv(R!World.rx, phase, R!World.races) /\ (Unfailed(R!World.races) => PinInv(R!World))
      BY AsItIs
    <3> QED BY <2>1, <2>2, <2>3, <3>1, GoodStep
  <2>5. d \in Worlds
    BY <2>1 DEF Moves
  <2> QED BY <1>1, <1>7, <2>4, <2>5, GoodAgain
<1>8. ASSUME gw.threads[x].at = "unkeying", R!Become(z) PROVE RadioIInv'
  <2>1. /\ Moves(a, z) /\ Others(a, z, x) /\ z.races = races /\ z.ptt = ptt
        /\ \/ z.gw.threads[x].at = "idle"
           \/ next = 0 /\ z.gw.threads[x].at = "consuming"
    BY <1>4, AsItIs, StartPendingEffect
  <2> HIDE DEF z
  <2>2. ASSUME Unfailed(races) PROVE PlayInv(z, phase)
    <3>1. PlayInv(R!World, phase) /\ x = "queue" /\ Free(R!World, phase) /\ RadioSilent(R!World)
      <4>1. PlayInv(R!World, phase) /\ x = "queue" /\ Free(R!World, phase)
        BY <1>5, <2>2
      <4> QED BY <1>8, <4>1, AsItIs DEF PlayInv, Queue
    <3>2. Free(a, phase)
      BY <1>4, <3>1, AsItIs DEF Free, RadioSilent
    <3>3. Queue(z).at \in {"idle", "consuming"} /\ z.ptt.desired = a.ptt.desired
          /\ (Queue(z).at = "consuming" => z.gw.active = 0)
      BY <1>4, <2>1, <3>1 DEF Queue, Others
    <3>4. Others(a, z, "queue") /\ Moves(a, z)
      BY <2>1, <3>1
    <3> QED BY <3>2, <3>3, <3>4, FreeStep DEF Stopping
  <2>3. z.races \subseteq {"unknown"} /\ phase # "closing" => KeyInv(z, talk, inbox)
    <3> SUFFICES ASSUME races \subseteq {"unknown"}, phase # "closing" PROVE KeyInv(z, talk, inbox)
      BY <2>1
    <3>1. /\ z.gw.timer = R!World.gw.timer /\ z.ptt.desired = R!World.ptt.desired
          /\ Key \in R!Range(R!World.gw.queue) => Key \in R!Range(z.gw.queue)
      BY <1>4, <2>1, AsItIs DEF Moves
    <3> QED BY <1>6, <3>1, KeyStep
  <2>4. RadioGood(z, talk, inbox, phase)
    <3>1. Moves(a, z) /\ RxInv(a.rx, phase, a.races) /\ (Unfailed(a.races) => PinInv(a))
      BY <1>4, <2>1, AsItIs DEF PinInv
    <3>2. Unfailed(z.races) => PlayInv(z, phase)
      BY <2>1, <2>2
    <3> QED BY <2>3, <3>1, <3>2, GoodStep
  <2>5. z \in Worlds
    BY <2>1 DEF Moves
  <2> QED BY <1>1, <1>8, <2>4, <2>5, GoodAgain
<1>9. ASSUME R!Become(R!Fail(R!World, x)) PROVE RadioIInv'
  BY <1>1, <1>9, FailKeeps
<1> HIDE DEF d, z
<1> QED BY <1>2, <1>7, <1>8, <1>9

(* The answer to consume-plain.                                            *)
LEMMA ConsumedKeeps == ASSUME RadioIInv, 0 \notin Sessions, NEW x \in R!Threads, R!Consumed(x) PROVE RadioIInv'
<1> DEFINE p == gw.threads[x].talker
           b == [talker |-> p, consumer |-> "paused", plays |-> TRUE]
           k(n) == [R!World EXCEPT !.sess[n] = b, !.gw.active = n, !.gw.threads[x].session = n]
           r(n) == IF p \notin delivered THEN R!Race(k(n), "unknown") ELSE k(n)
           v(n) == R!At(r(n), x, "keying")
           l(n) == IF R!Addressing = {} THEN R!Race(v(n), "late") ELSE v(n)
           z(n) == IF ptt.active THEN v(n) ELSE R!SetPtt(l(n), TRUE, x)
<1>1. gw.threads[x].at = "consuming" /\ p \in Talkers /\ gw.threads[x] \in ThreadStates
      /\ UNCHANGED <<talk, delivered, inbox, phase>>
  BY AsItIs DEF R!Consumed, ThreadStates
<1>2. R!Become(R!Fail(R!World, x)) \/ (phase # "closing" /\ \E n \in Sessions : R!Become(z(n)))
  BY DEF R!Consumed
<1>3. ASSUME NEW n \in Sessions, phase # "closing", R!Become(z(n)) PROVE RadioIInv'
  <2> DEFINE u1 == [R!World EXCEPT !.sess[n] = b]
             u2 == [u1 EXCEPT !.gw.active = n]
             th == [gw.threads[x] EXCEPT !.session = n]
             u3 == [u2 EXCEPT !.gw.threads[x] = th]
  <2>1. b \in Playbacks
    BY <1>1 DEF Playbacks
  <2> HIDE DEF b, p
  <2>2. /\ u1 \in Worlds /\ u1.gw = gw /\ u1.ptt = ptt /\ u1.rx = rx /\ u1.races = races
        /\ \A m \in Sessions \ {n} : u1.sess[m] = sess[m]
    BY <2>1, AsItIs, PlaybackSet
  <2> HIDE DEF u1
  <2>3. /\ u2 \in Worlds /\ u2.ptt = ptt /\ u2.rx = rx /\ u2.races = races /\ u2.sess = u1.sess
        /\ u2.gw.active = n /\ u2.gw.queue = gw.queue /\ u2.gw.timer = gw.timer /\ u2.gw.threads = gw.threads
    BY <2>2, AsItIs, ActiveSet
  <2> HIDE DEF u2
  <2>4. th \in ThreadStates /\ th.at = "consuming" /\ th.session = n
    BY <1>1 DEF ThreadStates
  <2>5. u3 = k(n)
    <3>1. u2.gw.threads[x] = gw.threads[x]
      BY <2>3
    <3>2. [u2 EXCEPT !.gw.threads[x].session = n] = u3
      <4>1. u2.gw \in GwStates
        BY <2>3, RadioParts
      <4> HIDE DEF th
      <4> QED BY <2>3, <3>1, <4>1 DEF Worlds, GwStates, th
    <3>3. k(n) = [u2 EXCEPT !.gw.threads[x].session = n]
      BY DEF u1, u2
    <3> QED BY <3>2, <3>3
  <2> HIDE DEF th, u3, k
  <2>6. /\ Moves(u2, u3) /\ Others(u2, u3, x) /\ u3.races = races /\ u3.ptt = ptt /\ u3.gw.threads[x] = th
    BY <2>3, <2>4, AsItIs, PutThread DEF u3
  <2>7. Moves(u3, r(n)) /\ r(n).gw = u3.gw /\ r(n).ptt = ptt
    <3>1. u3 \in Worlds /\ PttInv(u3.ptt)
      BY <2>6 DEF Moves
    <3>2. CASE p \notin delivered
      <4>1. r(n) = R!Race(u3, "unknown")
        BY <2>5, <3>2
      <4> HIDE DEF r
      <4> QED BY <2>6, <3>1, <4>1, RaceEffect
    <3>3. CASE p \in delivered
      <4>1. r(n) = u3
        BY <2>5, <3>3
      <4> HIDE DEF r
      <4> QED BY <2>6, <3>1, <4>1 DEF Moves
    <3> QED BY <3>2, <3>3
  <2> HIDE DEF r
  <2>8. /\ Moves(r(n), v(n)) /\ Others(r(n), v(n), x) /\ v(n).ptt = ptt /\ v(n).gw.threads[x].at = "keying"
    <3>1. r(n) \in Worlds /\ PttInv(r(n).ptt) /\ r(n).gw.threads[x] = th
      BY <2>6, <2>7 DEF Moves
    <3>2. [r(n).gw.threads[x] EXCEPT !.at = "keying"] \in ThreadStates
      BY <2>4, <3>1, ThreadTypes
    <3> QED BY <2>7, <3>1, <3>2, AtEffect
  <2> HIDE DEF v
  <2>9. Moves(u2, v(n)) /\ Others(u2, v(n), x)
    BY <2>6, <2>7, <2>8, MovesOn DEF Others
  <2>10. Moves(v(n), l(n)) /\ l(n).gw = v(n).gw /\ (R!Addressing = {} => "late" \in l(n).races)
    <3>1. v(n) \in Worlds /\ PttInv(v(n).ptt)
      BY <2>9 DEF Moves
    <3>2. CASE R!Addressing = {}
      <4>1. l(n) = R!Race(v(n), "late")
        BY <3>2
      <4> HIDE DEF l
      <4> QED BY <3>1, <4>1, RaceEffect
    <3>3. CASE R!Addressing # {}
      <4>1. l(n) = v(n)
        BY <3>3
      <4> HIDE DEF l
      <4> QED BY <3>1, <3>3, <4>1 DEF Moves
    <3> QED BY <3>2, <3>3
  <2> HIDE DEF l
  <2>11. /\ Moves(u2, z(n)) /\ Others(u2, z(n), x) /\ z(n).gw.threads[x].at = "keying"
         /\ \/ ptt.active /\ z(n).ptt.desired = ptt.desired
            \/ z(n).ptt.desired /\ (R!Addressing = {} => "late" \in z(n).races)
    <3>1. CASE ptt.active
      <4>1. z(n) = v(n)
        BY <3>1
      <4> HIDE DEF z
      <4> QED BY <2>8, <2>9, <3>1, <4>1
    <3>2. CASE ~ptt.active
      <4>1. z(n) = R!SetPtt(l(n), TRUE, x)
        BY <3>2
      <4> HIDE DEF z
      <4>2. l(n) \in Worlds /\ PttInv(l(n).ptt) /\ TRUE \in BOOLEAN /\ x \in R!Threads \cup {None}
        BY <2>10 DEF Moves
      <4>3. RadioSameBut(l(n), z(n)) /\ z(n).ptt.desired = TRUE /\ PttInv(z(n).ptt)
        BY <4>1, <4>2, SetPttEffect
      <4>4. Moves(l(n), z(n)) /\ z(n).races = l(n).races /\ z(n).gw.active = l(n).gw.active
            /\ \A y \in R!Threads : z(n).gw.threads[y].at = l(n).gw.threads[y].at
        BY <4>3, ButMoves
      <4>5. Moves(u2, l(n))
        BY <2>9, <2>10, MovesOn
      <4>6. Moves(u2, z(n))
        BY <4>4, <4>5, MovesOn
      <4> QED BY <2>8, <2>9, <2>10, <4>3, <4>4, <4>6 DEF Others
    <3> QED BY <3>1, <3>2
  <2> HIDE DEF z
  <2>12. races \subseteq z(n).races
    BY <2>3, <2>11 DEF Moves
  <2>13. ASSUME Unfailed(races) PROVE PlayInv(z(n), phase) /\ x = "queue"
    <3>1. PlayInv(R!World, phase)
      BY <2>13, AsItIs
    <3>2. x = "queue"
      BY <1>1, <3>1, AsItIs DEF PlayInv, R!Threads
    <3>3. gw.active = 0
      BY <1>1, <3>1, <3>2, AsItIs DEF PlayInv, Queue
    <3>4. Free(u2, phase)
      BY <1>3, <2>2, <2>3, <3>1, <3>3, AsItIs DEF PlayInv, Free
    <3> QED BY <1>3, <2>11, <3>2, <3>4, FreeStep DEF Stopping, Queue
  <2>14. z(n).races \subseteq {"unknown"} => KeyInv(z(n), talk, inbox)
    <3> SUFFICES ASSUME z(n).races \subseteq {"unknown"} PROVE KeyInv(z(n), talk, inbox)
      OBVIOUS
    <3>1. races \subseteq {"unknown"} /\ Unfailed(races)
      BY <2>12 DEF Unfailed
    <3>2. KeyInv(R!World, talk, inbox)
      BY <1>3, <3>1, AsItIs
    <3>3. z(n).gw.timer = R!World.gw.timer /\ z(n).gw.queue = R!World.gw.queue
      BY <2>3, <2>11, AsItIs DEF Moves
    <3>4. CASE ptt.active /\ z(n).ptt.desired = ptt.desired
      <4>1. ~RadioFirst(R!World)
        BY <3>4, AsItIs DEF RadioFirst
      <4> QED BY <3>2, <3>3, <3>4, <4>1, AsItIs, KeyStep
    <3>5. CASE z(n).ptt.desired /\ (R!Addressing = {} => "late" \in z(n).races)
      <4>1. \E q \in Talkers : talk[q] = "radio"
        BY <3>5 DEF R!Addressing
      <4> QED BY <3>2, <3>3, <3>5, <4>1 DEF KeyInv
    <3> QED BY <2>11, <3>4, <3>5
  <2>15. RadioGood(z(n), talk, inbox, phase)
    <3>1. RxInv(u2.rx, phase, u2.races) /\ (Unfailed(u2.races) => PinInv(u2))
      BY <2>3, AsItIs DEF PinInv
    <3>2. Unfailed(z(n).races) => PlayInv(z(n), phase)
      BY <2>12, <2>13 DEF Unfailed
    <3> QED BY <2>11, <2>14, <3>1, <3>2, GoodStep
  <2>16. z(n) \in Worlds
    BY <2>11 DEF Moves
  <2> QED BY <1>1, <1>3, <2>15, <2>16, GoodAgain
<1>4. ASSUME R!Become(R!Fail(R!World, x)) PROVE RadioIInv'
  BY <1>1, <1>4, FailKeeps
<1> HIDE DEF z
<1> QED BY <1>2, <1>3, <1>4

(* A playback dies of itself, which is one of the races.                   *)
LEMMA DiesKeeps == ASSUME RadioIInv, NEW n \in Sessions, R!Dies(n) PROVE RadioIInv'
<1> DEFINE b == [sess[n] EXCEPT !.plays = FALSE]
           w == [R!World EXCEPT !.sess[n] = b]
           u == R!Race(w, "fault")
           task == [do |-> "closed", of |-> n]
           h == [u.gw EXCEPT !.queue = Append(@, task)]
           v == R!Enqueue(u, task)
<1>1. sess \in [Sessions -> Playbacks] /\ UNCHANGED <<talk, delivered, inbox, phase>>
  BY AsItIs, RadioParts DEF R!Dies
<1>2. b \in Playbacks
  <2>1. sess[n] \in Playbacks
    BY <1>1
  <2>2. PICK no \in BOOLEAN : no = FALSE
    OBVIOUS
  <2>3. b = [sess[n] EXCEPT !.plays = no]
    BY ONLY <2>2, Zenon DEF b
  <2> HIDE DEF b
  <2> QED BY <2>1, <2>3 DEF Playbacks
<1>3. R!Become(v)
  <2> DEFINE k == [R!World EXCEPT !.sess[n].plays = FALSE]
  <2>1. k = w
    BY DEF R!World
  <2>2. R!Become(R!Enqueue(R!Race(k, "fault"), task))
    BY DEF R!Dies
  <2> HIDE DEF k, w
  <2> QED BY <2>1, <2>2
<1> HIDE DEF b
<1>4. w \in Worlds /\ w.gw = gw /\ w.ptt = ptt /\ w.rx = rx /\ w.races = races
  BY <1>2, AsItIs, PlaybackSet
<1> HIDE DEF w
<1>5. Moves(w, u) /\ u.gw = w.gw /\ u.ptt = w.ptt /\ u.races = w.races \cup {"fault"}
  BY <1>4, AsItIs, RaceEffect
<1> HIDE DEF u
<1>6. u \in Worlds /\ u.gw \in GwStates
  BY <1>5, RadioParts DEF Moves
<1>7. v = [gw |-> h, ptt |-> u.ptt, rx |-> u.rx, sess |-> u.sess, races |-> u.races]
  BY <1>6 DEF R!Enqueue, Worlds
<1>8. task \in Tasks /\ u.gw.queue \in Seq(Tasks)
  BY <1>6 DEF Tasks, Losses, GwStates
<1> HIDE DEF task
<1>9. h \in GwStates
  <2>1. Append(u.gw.queue, task) \in Seq(Tasks)
    BY <1>8
  <2> QED BY <1>6, <2>1 DEF GwStates
<1> HIDE DEF h, v
<1>10. v \in Worlds
  BY <1>6, <1>7, <1>9, Whole, RadioParts
<1>11. v.ptt = ptt /\ v.rx = rx /\ v.races = races \cup {"fault"}
  BY <1>4, <1>5, <1>7 DEF Moves
<1>12. RadioGood(v, talk, inbox, phase)
  <2>1. PttInv(v.ptt) /\ RxInv(v.rx, phase, v.races)
    BY <1>11, AsItIs DEF RxInv
  <2>2. ~Unfailed(v.races) /\ ~(v.races \subseteq {"unknown"})
    BY <1>11 DEF Unfailed
  <2> QED BY <2>1, <2>2 DEF RadioGood
<1> QED BY <1>1, <1>3, <1>10, <1>12, GoodAgain

(***************************************************************************)
(* The pin, the release and the events.                                    *)
(***************************************************************************)
(* What concerns the playbacks is kept where no thread moves.              *)
LEMMA PlayStep ==
  ASSUME NEW w, NEW v, NEW ph, PlayInv(w, ph), v.sess = w.sess, v.gw.active = w.gw.active,
         \A y \in R!Threads : /\ v.gw.threads[y].at = w.gw.threads[y].at
                              /\ v.gw.threads[y].session = w.gw.threads[y].session
                              /\ v.gw.threads[y].last = w.gw.threads[y].last,
         Shutdown \in R!Range(v.gw.queue) => Shutdown \in R!Range(w.gw.queue) \/ ph = "closing",
         ph = "closing" => Cleanup(v)
  PROVE  PlayInv(v, ph)
<1>1. "queue" \in R!Threads /\ "rescue" \in R!Threads
  BY DEF R!Threads
<1> QED BY <1>1 DEF PlayInv, Stopping, RadioSilent, Queue

(* The cleanup is as far as it was where no thread moves.                  *)
LEMMA CleanupStep ==
  ASSUME NEW w, NEW v, Cleanup(w), v.sess = w.sess, v.gw.queue = w.gw.queue,
         \A y \in R!Threads : /\ v.gw.threads[y].at = w.gw.threads[y].at
                              /\ v.gw.threads[y].last = w.gw.threads[y].last,
         v.ptt.desired => w.ptt.desired
  PROVE  Cleanup(v)
<1>1. "queue" \in R!Threads
  BY DEF R!Threads
<1> QED BY <1>1 DEF Cleanup, Stopping, RadioSilent, Queue

(* The pin and what it mutes are set.                                      *)
LEMMA PinEffect ==
  ASSUME NEW w \in Worlds, NEW on \in BOOLEAN, NEW m \in {"tx", "tail"}
  PROVE  LET v == [w EXCEPT !.ptt.pin = on, !.ptt.active = on, !.rx.muted = m]
         IN  /\ v \in Worlds /\ v.gw = w.gw /\ v.sess = w.sess /\ v.races = w.races
             /\ v.ptt.pin = on /\ v.ptt.active = on /\ v.ptt.desired = w.ptt.desired
             /\ v.ptt.waiting = w.ptt.waiting
             /\ v.rx.active = w.rx.active /\ v.rx.live = w.rx.live /\ v.rx.toggles = w.rx.toggles
             /\ v.rx.muted = m
<1> DEFINE q == [w.ptt EXCEPT !.pin = on, !.active = on]
           r == [w.rx EXCEPT !.muted = m]
           v == [w EXCEPT !.ptt.pin = on, !.ptt.active = on, !.rx.muted = m]
<1>1. q \in PttStates /\ q.pin = on /\ q.active = on /\ q.desired = w.ptt.desired /\ q.waiting = w.ptt.waiting
  BY RadioParts DEF PttStates
<1>2. r \in RxStates /\ r.active = w.rx.active /\ r.live = w.rx.live /\ r.toggles = w.rx.toggles /\ r.muted = m
  BY RadioParts DEF RxStates
<1>3. v = [gw |-> w.gw, ptt |-> q, rx |-> r, sess |-> w.sess, races |-> w.races]
  <2> DEFINE q1 == [w.ptt EXCEPT !.pin = on]
             w1 == [gw |-> w.gw, ptt |-> q1, rx |-> w.rx, sess |-> w.sess, races |-> w.races]
             w2 == [gw |-> w.gw, ptt |-> q, rx |-> w.rx, sess |-> w.sess, races |-> w.races]
  <2>1. [w EXCEPT !.ptt.pin = on] = w1
    BY DEF Worlds
  <2>2. [w1 EXCEPT !.ptt.active = on] = w2
    <3>1. [q1 EXCEPT !.active = on] = q
      BY RadioParts DEF PttStates
    <3> HIDE DEF q1, q
    <3> QED BY <3>1
  <2>3. [w2 EXCEPT !.rx.muted = m] = [gw |-> w.gw, ptt |-> q, rx |-> r, sess |-> w.sess, races |-> w.races]
    <3> HIDE DEF q
    <3> QED OBVIOUS
  <2>4. v = [[[w EXCEPT !.ptt.pin = on] EXCEPT !.ptt.active = on] EXCEPT !.rx.muted = m]
    OBVIOUS
  <2> HIDE DEF v, w1, w2, q, r
  <2> QED BY <2>1, <2>2, <2>3, <2>4
<1> HIDE DEF q, r, v
<1>4. v \in Worlds
  BY <1>1, <1>2, <1>3, Whole, RadioParts
<1>5. /\ v \in Worlds /\ v.gw = w.gw /\ v.sess = w.sess /\ v.races = w.races
      /\ v.ptt.pin = on /\ v.ptt.active = on /\ v.ptt.desired = w.ptt.desired
      /\ v.ptt.waiting = w.ptt.waiting
      /\ v.rx.active = w.rx.active /\ v.rx.live = w.rx.live /\ v.rx.toggles = w.rx.toggles
      /\ v.rx.muted = m
  BY <1>1, <1>2, <1>3, <1>4
<1> QED BY <1>5 DEF v

(* A command or a wait of the pin is over.                                 *)
LEMMA PinMoves ==
  ASSUME RadioIInv, ptt.stage # "idle", UNCHANGED <<talk, delivered, inbox, phase>>, NEW v \in Worlds, R!Become(v),
         PttInv(v.ptt), v.ptt.desired = ptt.desired, SameWork(gw, v.gw), v.sess = sess, v.races = races,
         v.rx.active = rx.active, v.rx.live = rx.live, v.rx.toggles = rx.toggles,
         Unfailed(races) => PinInv(v)
  PROVE  RadioIInv'
<1>1. RxInv(v.rx, phase, v.races)
  BY AsItIs DEF RxInv
<1>2. ASSUME Unfailed(races) PROVE PlayInv(v, phase)
  <2>1. PlayInv(R!World, phase)
    BY <1>2, AsItIs
  <2>2. phase = "closing" => Cleanup(v)
    BY <2>1, AsItIs, CleanupStep DEF SameWork, PlayInv
  <2> QED BY <2>1, <2>2, AsItIs, PlayStep DEF SameWork
<1>3. v.races \subseteq {"unknown"} /\ phase # "closing" => KeyInv(v, talk, inbox)
  <2> SUFFICES ASSUME races \subseteq {"unknown"}, phase # "closing" PROVE KeyInv(v, talk, inbox)
    OBVIOUS
  <2>1. KeyInv(R!World, talk, inbox)
    BY AsItIs
  <2>2. ~RadioFirst(R!World)
    BY AsItIs DEF RadioFirst
  <2> QED BY <2>1, <2>2, AsItIs, KeyStep DEF SameWork
<1>4. RadioGood(v, talk, inbox, phase)
  BY <1>1, <1>2, <1>3 DEF RadioGood
<1> QED BY <1>4, GoodAgain

(* An application that is over moves nothing but the queue of the pin.     *)
LEMMA AppliedKeeps ==
  ASSUME RadioIInv, ptt.stage # "idle", UNCHANGED <<talk, delivered, inbox, phase>>, NEW w \in Worlds,
         R!Become(R!Applied(w)), w.ptt.waiting = 0 => w.ptt.active = w.ptt.desired,
         w.ptt.desired = ptt.desired, w.gw = gw, w.sess = sess, w.races = races,
         w.rx.active = rx.active, w.rx.live = rx.live, w.rx.toggles = rx.toggles,
         Unfailed(races) => PinInv(w)
  PROVE  RadioIInv'
<1> DEFINE v == R!Applied(w)
<1>1. RadioSameBut(w, v) /\ v.ptt.desired = w.ptt.desired /\ PttInv(v.ptt)
  BY AppliedEffect
<1>2. R!Become(v)
  OBVIOUS
<1> HIDE DEF v
<1>3. v \in Worlds /\ SameWork(gw, v.gw) /\ v.rx = w.rx /\ v.sess = w.sess /\ v.races = w.races
      /\ v.ptt.active = w.ptt.active /\ v.ptt.pin = w.ptt.pin
  BY <1>1 DEF RadioSameBut
<1>4. Unfailed(races) => PinInv(v)
  BY <1>3 DEF PinInv
<1> QED BY <1>1, <1>2, <1>3, <1>4, PinMoves

(* The command that sets the pin, or the tail of a talk, is over.          *)
LEMMA PinSetKeeps == ASSUME RadioIInv, R!PinSet PROVE RadioIInv'
<1>1. ptt.stage # "idle" /\ UNCHANGED <<talk, delivered, inbox, phase>> /\ ptt \in PttStates
  BY AsItIs, RadioParts DEF R!PinSet
<1>2. CASE ptt.stage = "on"
  <2>1. PICK on \in BOOLEAN : on = TRUE
    OBVIOUS
  <2> DEFINE w == [R!World EXCEPT !.ptt.pin = on, !.ptt.active = on, !.rx.muted = "tx"]
  <2>2. R!Become(R!Applied(w))
    <3>1. R!Become(R!Applied([R!World EXCEPT !.ptt.pin = TRUE, !.ptt.active = TRUE, !.rx.muted = "tx"]))
      BY <1>2 DEF R!PinSet
    <3> QED BY ONLY <2>1, <3>1, Zenon DEF w
  <2>3. /\ w \in Worlds /\ w.gw = gw /\ w.sess = sess /\ w.races = races
        /\ w.ptt.pin = on /\ w.ptt.active = on /\ w.ptt.desired = ptt.desired
        /\ w.ptt.waiting = ptt.waiting
        /\ w.rx.active = rx.active /\ w.rx.live = rx.live /\ w.rx.toggles = rx.toggles
        /\ w.rx.muted = "tx"
    <3>1. R!World \in Worlds /\ "tx" \in {"tx", "tail"}
      BY AsItIs
    <3>2. /\ w \in Worlds /\ w.gw = R!World.gw /\ w.sess = R!World.sess /\ w.races = R!World.races
          /\ w.ptt.pin = on /\ w.ptt.active = on /\ w.ptt.desired = R!World.ptt.desired
          /\ w.ptt.waiting = R!World.ptt.waiting
          /\ w.rx.active = R!World.rx.active /\ w.rx.live = R!World.rx.live /\ w.rx.toggles = R!World.rx.toggles
          /\ w.rx.muted = "tx"
      BY <3>1, PinEffect
    <3> HIDE DEF w
    <3> QED BY <3>2, AsItIs
  <2> HIDE DEF w
  <2>4. w.ptt.waiting = 0 => w.ptt.active = w.ptt.desired
    BY <1>1, <1>2, <2>1, <2>3, AsItIs DEF PttInv, PttStates
  <2>5. Unfailed(races) => PinInv(w)
    BY <2>3 DEF PinInv
  <2> QED BY <1>1, <2>2, <2>3, <2>4, <2>5, AppliedKeeps
<1>3. CASE ptt.stage = "tail" /\ ptt.desired
  <2>1. R!Become(R!Applied(R!World))
    BY <1>3 DEF R!PinSet
  <2>2. R!World.ptt.waiting = 0 => R!World.ptt.active = R!World.ptt.desired
    BY <1>1, <1>3, AsItIs DEF PttInv, PttStates
  <2> QED BY <1>1, <2>1, <2>2, AsItIs, AppliedKeeps
<1>4. CASE ptt.stage = "tail" /\ ~ptt.desired
  <2> DEFINE q == [ptt EXCEPT !.stage = "off"]
             v == [gw |-> gw, ptt |-> q, rx |-> rx, sess |-> sess, races |-> races]
  <2>1. R!Become(v)
    <3>1. R!Become([R!World EXCEPT !.ptt.stage = "off"])
      BY <1>4 DEF R!PinSet
    <3>2. [R!World EXCEPT !.ptt.stage = "off"] = v
      BY DEF R!World
    <3> QED BY <3>1, <3>2
  <2>2. q \in PttStates /\ q.stage = "off" /\ q.active = ptt.active /\ q.desired = ptt.desired /\ q.pin = ptt.pin
        /\ q.waiting = ptt.waiting
    BY <1>1 DEF PttStates
  <2>3. PttInv(q)
    BY <1>4, <2>2, AsItIs DEF PttInv
  <2> HIDE DEF q
  <2>4. v \in Worlds
    <3>1. rx \in RxStates /\ sess \in [Sessions -> Playbacks] /\ races \in SUBSET RaceNames
      BY AsItIs, RadioParts
    <3> QED BY <2>2, <3>1, AsItIs, Whole
  <2>5. Unfailed(races) => PinInv(v)
    BY <2>2, AsItIs DEF PinInv
  <2>6. SameWork(gw, v.gw)
    BY DEF SameWork
  <2>7. v.ptt = q /\ v.sess = sess /\ v.races = races /\ v.rx = rx
    OBVIOUS
  <2> HIDE DEF v
  <2> QED BY <1>1, <2>1, <2>2, <2>3, <2>4, <2>5, <2>6, <2>7, PinMoves
<1>5. CASE ptt.stage = "off"
  <2>1. PICK on \in BOOLEAN : on = FALSE
    OBVIOUS
  <2> DEFINE w == [R!World EXCEPT !.ptt.pin = on, !.ptt.active = on, !.rx.muted = "tail"]
  <2>2. R!Become(R!Applied(w))
    <3>1. R!Become(R!Applied([R!World EXCEPT !.ptt.pin = FALSE, !.ptt.active = FALSE, !.rx.muted = "tail"]))
      BY <1>5 DEF R!PinSet
    <3> QED BY ONLY <2>1, <3>1, Zenon DEF w
  <2>3. /\ w \in Worlds /\ w.gw = gw /\ w.sess = sess /\ w.races = races
        /\ w.ptt.pin = on /\ w.ptt.active = on /\ w.ptt.desired = ptt.desired
        /\ w.ptt.waiting = ptt.waiting
        /\ w.rx.active = rx.active /\ w.rx.live = rx.live /\ w.rx.toggles = rx.toggles
    <3>1. R!World \in Worlds /\ "tail" \in {"tx", "tail"}
      BY AsItIs
    <3>2. /\ w \in Worlds /\ w.gw = R!World.gw /\ w.sess = R!World.sess /\ w.races = R!World.races
          /\ w.ptt.pin = on /\ w.ptt.active = on /\ w.ptt.desired = R!World.ptt.desired
          /\ w.ptt.waiting = R!World.ptt.waiting
          /\ w.rx.active = R!World.rx.active /\ w.rx.live = R!World.rx.live /\ w.rx.toggles = R!World.rx.toggles
          /\ w.rx.muted = "tail"
      BY <3>1, PinEffect
    <3> HIDE DEF w
    <3> QED BY <3>2, AsItIs
  <2> HIDE DEF w
  <2>4. w.ptt.waiting = 0 => w.ptt.active = w.ptt.desired
    BY <1>1, <1>5, <2>1, <2>3, AsItIs DEF PttInv, PttStates
  <2>5. Unfailed(races) => PinInv(w)
    BY <2>1, <2>3 DEF PinInv
  <2> QED BY <1>1, <2>2, <2>3, <2>4, <2>5, AppliedKeeps
<1>6. ptt.stage \in {"on", "tail", "off"}
  BY <1>1 DEF PttStates
<1> QED BY <1>2, <1>3, <1>4, <1>5, <1>6

\* Fields of the transmitting part that no thread reads at once.
Waiting(w, on, p) == [w EXCEPT !.gw.timer = on, !.gw.pending = p]

(* What they leave alone.                                                  *)
LEMMA WaitEffect ==
  ASSUME NEW w \in Worlds, NEW on \in BOOLEAN, NEW p \in Talkers \cup {None}
  PROVE  LET v == Waiting(w, on, p)
         IN  /\ v \in Worlds /\ v.ptt = w.ptt /\ v.rx = w.rx /\ v.sess = w.sess /\ v.races = w.races
             /\ v.gw.timer = on /\ v.gw.pending = p
             /\ v.gw.active = w.gw.active /\ v.gw.queue = w.gw.queue /\ v.gw.threads = w.gw.threads
<1> DEFINE h1 == [w.gw EXCEPT !.timer = on]
           h == [h1 EXCEPT !.pending = p]
           w1 == [gw |-> h1, ptt |-> w.ptt, rx |-> w.rx, sess |-> w.sess, races |-> w.races]
           v == Waiting(w, on, p)
<1>1. h \in GwStates /\ h.timer = on /\ h.pending = p /\ h.active = w.gw.active /\ h.queue = w.gw.queue
      /\ h.threads = w.gw.threads
  BY RadioParts DEF GwStates
<1>2. v = [gw |-> h, ptt |-> w.ptt, rx |-> w.rx, sess |-> w.sess, races |-> w.races]
  <2>1. [w EXCEPT !.gw.timer = on] = w1
    BY DEF Worlds
  <2>2. [w1 EXCEPT !.gw.pending = p] = [gw |-> h, ptt |-> w.ptt, rx |-> w.rx, sess |-> w.sess, races |-> w.races]
    <3> HIDE DEF h1
    <3> QED OBVIOUS
  <2>3. v = [[w EXCEPT !.gw.timer = on] EXCEPT !.gw.pending = p]
    BY DEF Waiting
  <2> HIDE DEF v, w1, h, h1
  <2> QED BY <2>1, <2>2, <2>3
<1> HIDE DEF h, h1, w1, v
<1>3. v \in Worlds
  BY <1>1, <1>2, Whole, RadioParts
<1>4. /\ v \in Worlds /\ v.ptt = w.ptt /\ v.rx = w.rx /\ v.sess = w.sess /\ v.races = w.races
      /\ v.gw.timer = on /\ v.gw.pending = p
      /\ v.gw.active = w.gw.active /\ v.gw.queue = w.gw.queue /\ v.gw.threads = w.gw.threads
  BY <1>1, <1>2, <1>3
<1> QED BY <1>4 DEF v

(* The release timer alone.                                                *)
LEMMA TimerEffect ==
  ASSUME NEW w \in Worlds, NEW on \in BOOLEAN
  PROVE  LET v == [w EXCEPT !.gw.timer = on]
         IN  /\ v \in Worlds /\ v.ptt = w.ptt /\ v.rx = w.rx /\ v.sess = w.sess /\ v.races = w.races
             /\ v.gw.timer = on
             /\ v.gw.active = w.gw.active /\ v.gw.queue = w.gw.queue /\ v.gw.threads = w.gw.threads
<1> DEFINE h == [w.gw EXCEPT !.timer = on]
           v == [w EXCEPT !.gw.timer = on]
<1>1. h \in GwStates /\ h.timer = on /\ h.active = w.gw.active /\ h.queue = w.gw.queue
      /\ h.threads = w.gw.threads
  BY RadioParts DEF GwStates
<1>2. v = [gw |-> h, ptt |-> w.ptt, rx |-> w.rx, sess |-> w.sess, races |-> w.races]
  BY DEF Worlds
<1> HIDE DEF h, v
<1>3. v \in Worlds
  BY <1>1, <1>2, Whole, RadioParts
<1>4. /\ v \in Worlds /\ v.ptt = w.ptt /\ v.rx = w.rx /\ v.sess = w.sess /\ v.races = w.races
      /\ v.gw.timer = on
      /\ v.gw.active = w.gw.active /\ v.gw.queue = w.gw.queue /\ v.gw.threads = w.gw.threads
  BY <1>1, <1>2, <1>3
<1> QED BY <1>4 DEF v

(* A task is queued.                                                       *)
LEMMA EnqueueEffect ==
  ASSUME NEW w \in Worlds, NEW task \in Tasks
  PROVE  LET v == R!Enqueue(w, task)
         IN  /\ v \in Worlds /\ v.ptt = w.ptt /\ v.rx = w.rx /\ v.sess = w.sess /\ v.races = w.races
             /\ v.gw.timer = w.gw.timer /\ v.gw.active = w.gw.active /\ v.gw.threads = w.gw.threads
             /\ v.gw.queue # <<>> /\ R!Last(v.gw.queue) = task
             /\ R!Range(v.gw.queue) = R!Range(w.gw.queue) \cup {task}
<1> DEFINE h == [w.gw EXCEPT !.queue = Append(@, task)]
           v == R!Enqueue(w, task)
<1>1. w.gw \in GwStates /\ w.gw.queue \in Seq(Tasks)
  BY RadioParts DEF GwStates
<1>2. /\ Append(w.gw.queue, task) \in Seq(Tasks) /\ Append(w.gw.queue, task) # <<>>
      /\ R!Last(Append(w.gw.queue, task)) = task
      /\ R!Range(Append(w.gw.queue, task)) = R!Range(w.gw.queue) \cup {task}
  BY <1>1, Adding
<1>3. h \in GwStates /\ h.queue = Append(w.gw.queue, task) /\ h.timer = w.gw.timer /\ h.active = w.gw.active
      /\ h.threads = w.gw.threads
  BY <1>1, <1>2 DEF GwStates
<1>4. v = [gw |-> h, ptt |-> w.ptt, rx |-> w.rx, sess |-> w.sess, races |-> w.races]
  <2>1. v = [w EXCEPT !.gw = h]
    BY DEF R!Enqueue
  <2> HIDE DEF h, v
  <2> QED BY <2>1 DEF Worlds
<1> HIDE DEF h, v
<1>5. v \in Worlds
  BY <1>3, <1>4, Whole, RadioParts
<1>6. /\ v \in Worlds /\ v.ptt = w.ptt /\ v.rx = w.rx /\ v.sess = w.sess /\ v.races = w.races
      /\ v.gw.timer = w.gw.timer /\ v.gw.active = w.gw.active /\ v.gw.threads = w.gw.threads
      /\ v.gw.queue # <<>> /\ R!Last(v.gw.queue) = task
      /\ R!Range(v.gw.queue) = R!Range(w.gw.queue) \cup {task}
  BY <1>2, <1>3, <1>4, <1>5
<1> QED BY <1>6 DEF v

(* The talk is over for long enough.                                       *)
LEMMA ReleaseKeeps == ASSUME RadioIInv, R!Release PROVE RadioIInv'
<1> DEFINE k == [R!World EXCEPT !.gw.timer = FALSE, !.gw.pending = None]
           v == R!SetPtt(k, FALSE, None)
<1>1. gw.timer /\ R!Become(v) /\ UNCHANGED <<talk, delivered, inbox, phase>>
  BY DEF R!Release
<1>2. /\ k \in Worlds /\ k.ptt = ptt /\ k.rx = rx /\ k.sess = sess /\ k.races = races
      /\ ~k.gw.timer /\ k.gw.active = gw.active /\ k.gw.queue = gw.queue /\ k.gw.threads = gw.threads
  <2>1. PICK no \in BOOLEAN : no = FALSE
    OBVIOUS
  <2>5. PICK p \in Talkers \cup {None} : p = None
    OBVIOUS
  <2> DEFINE w == Waiting(R!World, no, p)
  <2>2. k = w
    BY ONLY <2>1, <2>5, Zenon DEF k, w, Waiting
  <2>3. R!World \in Worlds
    BY AsItIs
  <2>4. /\ w \in Worlds /\ w.ptt = R!World.ptt /\ w.rx = R!World.rx /\ w.sess = R!World.sess /\ w.races = R!World.races
        /\ w.gw.timer = no /\ w.gw.active = R!World.gw.active /\ w.gw.queue = R!World.gw.queue
        /\ w.gw.threads = R!World.gw.threads
    BY <2>3, WaitEffect
  <2> HIDE DEF w, k
  <2> QED BY <2>1, <2>2, <2>4, AsItIs
<1> HIDE DEF k
<1>3. RadioSameBut(k, v) /\ v.ptt.desired = FALSE /\ PttInv(v.ptt)
  <2>1. PttInv(k.ptt) /\ FALSE \in BOOLEAN /\ None \in R!Threads \cup {None}
    BY <1>2, AsItIs
  <2> QED BY <1>2, <2>1, SetPttEffect
<1> HIDE DEF v
<1>4. /\ v \in Worlds /\ v.rx = rx /\ v.sess = sess /\ v.races = races /\ ~v.gw.timer /\ ~v.ptt.desired
      /\ v.gw.active = gw.active /\ v.gw.queue = gw.queue /\ v.ptt.pin = ptt.pin /\ v.ptt.active = ptt.active
      /\ \A y \in R!Threads : /\ v.gw.threads[y].at = gw.threads[y].at
                              /\ v.gw.threads[y].session = gw.threads[y].session
                              /\ v.gw.threads[y].last = gw.threads[y].last
  BY <1>2, <1>3 DEF RadioSameBut, SameWork
<1>5. ASSUME Unfailed(races) PROVE PlayInv(v, phase) /\ PinInv(v)
  <2>1. PlayInv(R!World, phase) /\ PinInv(R!World)
    BY <1>5, AsItIs
  <2>2. phase = "closing" => Cleanup(v)
    BY <1>4, <2>1, AsItIs, CleanupStep DEF PlayInv
  <2>3. PlayInv(v, phase)
    BY <1>4, <2>1, <2>2, AsItIs, PlayStep
  <2> QED BY <1>4, <2>1, <2>3, AsItIs DEF PinInv
<1>6. races \subseteq {"unknown"} /\ phase # "closing" => KeyInv(v, talk, inbox)
  <2> SUFFICES ASSUME races \subseteq {"unknown"}, phase # "closing" PROVE KeyInv(v, talk, inbox)
    OBVIOUS
  <2>1. KeyInv(R!World, talk, inbox)
    BY AsItIs
  <2> QED BY <1>1, <1>4, <2>1, AsItIs DEF KeyInv
<1>7. RadioGood(v, talk, inbox, phase)
  BY <1>3, <1>4, <1>5, <1>6, AsItIs DEF RadioGood
<1> QED BY <1>1, <1>4, <1>7, GoodAgain

(* The invariant holds again of a state with other events.                 *)
LEMMA GoodNext ==
  ASSUME NEW v \in Worlds, R!Become(v), RadioGood(v, talk', inbox', phase'),
         talk' \in [Talkers -> {"none", "radio", "else", "gone"}], delivered' \subseteq Talkers,
         inbox' \in Seq(RadioEvents), phase' \in {"setup", "producing", "running", "closing"}
  PROVE  RadioIInv'
<1>1. R!World' = v
  BY Becoming
<1>2. RadioTypes'
  BY <1>1 DEF RadioTypes
<1> QED BY <1>1, <1>2 DEF RadioIInv

(* An event is taken: what follows the others is still to come.            *)
LEMMA FollowedTail ==
  ASSUME NEW S, NEW q \in Seq(S), q # <<>>, NEW what, NEW by, Followed(q, what, by)
  PROVE  /\ Followed(Tail(q), what, by)
         /\ Head(q) \in what => by \in R!Range(Tail(q))
<1>1. /\ Len(q) \in Nat \ {0} /\ DOMAIN q = 1 .. Len(q) /\ DOMAIN Tail(q) = 1 .. Len(q) - 1
      /\ \A i \in DOMAIN Tail(q) : Tail(q)[i] = q[i + 1]
      /\ Head(q) = q[1]
  BY Taking
<1>2. ASSUME NEW i \in DOMAIN q, q[i] \in what
      PROVE  \E j \in DOMAIN Tail(q) : j > i - 1 /\ Tail(q)[j] = by
  <2>1. PICK j \in DOMAIN q : j > i /\ q[j] = by
    BY <1>2 DEF Followed
  <2>2. j - 1 \in DOMAIN Tail(q) /\ j - 1 > i - 1 /\ (j - 1) + 1 = j
    BY <1>1, <2>1
  <2>3. Tail(q)[j - 1] = by
    BY <1>1, <2>1, <2>2
  <2> QED BY <2>2, <2>3
<1>3. ASSUME NEW i \in DOMAIN Tail(q), Tail(q)[i] \in what
      PROVE  \E j \in DOMAIN Tail(q) : j > i /\ Tail(q)[j] = by
  <2>1. i + 1 \in DOMAIN q /\ (i + 1) - 1 = i /\ q[i + 1] \in what
    BY <1>1, <1>3
  <2>2. \E j \in DOMAIN Tail(q) : j > (i + 1) - 1 /\ Tail(q)[j] = by
    BY <1>2, <2>1
  <2> QED BY <2>1, <2>2
<1>4. ASSUME Head(q) \in what PROVE by \in R!Range(Tail(q))
  <2>1. 1 \in DOMAIN q /\ q[1] \in what
    BY <1>1, <1>4
  <2>2. \E j \in DOMAIN Tail(q) : Tail(q)[j] = by
    BY <1>2, <2>1
  <2> QED BY <2>2 DEF R!Range
<1> QED BY <1>3, <1>4 DEF Followed

(* An event of the server.                                                 *)
LEMMA ReceiveKeeps == ASSUME RadioIInv, R!Receive PROVE RadioIInv'
<1> DEFINE e == Head(inbox)
           quiet == [R!World EXCEPT !.gw.timer = FALSE]
           late == [R!World EXCEPT !.gw.timer = TRUE]
           u == R!SetPtt(quiet, TRUE, None)
<1>1. /\ inbox # <<>> /\ phase # "closing" /\ inbox' = Tail(inbox) /\ UNCHANGED <<talk, delivered, phase>>
      /\ inbox \in Seq(RadioEvents)
  BY DEF R!Receive, RadioIInv, RadioTypes
<1>2. \/ e.do = "start" /\ R!Become(R!Enqueue(u, e))
      \/ e.do \in {"gone", "closed"} /\ R!Become(R!Enqueue(R!World, e))
      \/ e.do = "state" /\ e.of /\ R!Become(R!Enqueue(quiet, Key))
      \/ e.do = "state" /\ ~e.of /\ R!Become(late)
  BY DEF R!Receive, Key
<1>3. e \in RadioEvents /\ inbox' \in Seq(RadioEvents) /\ R!Range(inbox) = {e} \cup R!Range(inbox')
  BY <1>1, Taking
<1>4. /\ Followed(inbox, {Off}, On) => Followed(inbox', {Off}, On) /\ (e = Off => On \in R!Range(inbox'))
      /\ Followed(inbox, Starts \cup {On}, Off) =>
           Followed(inbox', Starts \cup {On}, Off) /\ (e \in Starts \cup {On} => Off \in R!Range(inbox'))
  BY <1>1, FollowedTail
<1> HIDE DEF e
<1>5. /\ quiet \in Worlds /\ quiet.ptt = ptt /\ quiet.rx = rx /\ quiet.sess = sess /\ quiet.races = races
      /\ ~quiet.gw.timer /\ quiet.gw.active = gw.active /\ quiet.gw.queue = gw.queue
      /\ quiet.gw.threads = gw.threads
  <2>1. PICK no \in BOOLEAN : no = FALSE
    OBVIOUS
  <2> DEFINE w == [R!World EXCEPT !.gw.timer = no]
  <2>2. quiet = w
    BY ONLY <2>1, Zenon
  <2>3. /\ w \in Worlds /\ w.ptt = ptt /\ w.rx = rx /\ w.sess = sess /\ w.races = races
        /\ w.gw.timer = no /\ w.gw.active = gw.active /\ w.gw.queue = gw.queue /\ w.gw.threads = gw.threads
    <3>1. R!World \in Worlds /\ R!World.gw = gw /\ R!World.ptt = ptt /\ R!World.rx = rx /\ R!World.sess = sess
          /\ R!World.races = races
      BY AsItIs
    <3>2. /\ w \in Worlds /\ w.ptt = R!World.ptt /\ w.rx = R!World.rx /\ w.sess = R!World.sess
          /\ w.races = R!World.races /\ w.gw.timer = no /\ w.gw.active = R!World.gw.active
          /\ w.gw.queue = R!World.gw.queue /\ w.gw.threads = R!World.gw.threads
      BY <2>1, <3>1, TimerEffect
    <3> HIDE DEF w
    <3> QED BY <3>1, <3>2
  <2> HIDE DEF w, quiet
  <2> QED BY <2>1, <2>2, <2>3
<1>6. /\ late \in Worlds /\ late.ptt = ptt /\ late.rx = rx /\ late.sess = sess /\ late.races = races
      /\ late.gw.timer /\ late.gw.active = gw.active /\ late.gw.queue = gw.queue
      /\ late.gw.threads = gw.threads
  <2>1. PICK yes \in BOOLEAN : yes = TRUE
    OBVIOUS
  <2> DEFINE w == [R!World EXCEPT !.gw.timer = yes]
  <2>2. late = w
    BY ONLY <2>1, Zenon
  <2>3. /\ w \in Worlds /\ w.ptt = ptt /\ w.rx = rx /\ w.sess = sess /\ w.races = races
        /\ w.gw.timer = yes /\ w.gw.active = gw.active /\ w.gw.queue = gw.queue /\ w.gw.threads = gw.threads
    <3>1. R!World \in Worlds /\ R!World.gw = gw /\ R!World.ptt = ptt /\ R!World.rx = rx /\ R!World.sess = sess
          /\ R!World.races = races
      BY AsItIs
    <3>2. /\ w \in Worlds /\ w.ptt = R!World.ptt /\ w.rx = R!World.rx /\ w.sess = R!World.sess
          /\ w.races = R!World.races /\ w.gw.timer = yes /\ w.gw.active = R!World.gw.active
          /\ w.gw.queue = R!World.gw.queue /\ w.gw.threads = R!World.gw.threads
      BY <2>1, <3>1, TimerEffect
    <3> HIDE DEF w
    <3> QED BY <3>1, <3>2
  <2> HIDE DEF w, late
  <2> QED BY <2>1, <2>2, <2>3
<1> HIDE DEF quiet, late
<1>7. RadioSameBut(quiet, u) /\ u.ptt.desired = TRUE /\ PttInv(u.ptt)
  <2>1. PttInv(quiet.ptt) /\ TRUE \in BOOLEAN /\ None \in R!Threads \cup {None}
    BY <1>5, AsItIs
  <2> QED BY <1>5, <2>1, SetPttEffect
<1> HIDE DEF u
\* A state that follows: the queue may have one more task, which is no shutdown.
<1>8. ASSUME NEW v \in Worlds, NEW task \in Tasks \ {Shutdown}, R!Become(v), PttInv(v.ptt),
             v.rx = rx, v.sess = sess, v.races = races, v.ptt.pin = ptt.pin, v.ptt.active = ptt.active,
             v.gw.active = gw.active,
             R!Range(v.gw.queue) \subseteq R!Range(gw.queue) \cup {task},
             \A y \in R!Threads : /\ v.gw.threads[y].at = gw.threads[y].at
                                  /\ v.gw.threads[y].session = gw.threads[y].session
                                  /\ v.gw.threads[y].last = gw.threads[y].last,
             KeyInv(R!World, talk, inbox) => KeyInv(v, talk, inbox')
      PROVE  RadioIInv'
  <2>1. ASSUME Unfailed(races) PROVE PlayInv(v, phase) /\ PinInv(v)
    <3>1. PlayInv(R!World, phase) /\ PinInv(R!World)
      BY <2>1, AsItIs
    <3>2. PlayInv(v, phase)
      BY <1>1, <1>8, <3>1, AsItIs, PlayStep
    <3> QED BY <1>8, <3>1, <3>2, AsItIs DEF PinInv
  <2>2. RadioGood(v, talk, inbox', phase)
    BY <1>8, <2>1, AsItIs DEF RadioGood
  <2> QED BY <1>1, <1>3, <1>8, <2>2, GoodNext DEF RadioIInv, RadioTypes
<1>9. CASE e.do = "start" /\ R!Become(R!Enqueue(u, e))
  <2>1. e \in Starts /\ e \in Tasks \ {Shutdown} /\ e # On
    BY <1>3, <1>9 DEF RadioEvents, Tasks, Starts, Losses, On, Off, Shutdown
  <2> DEFINE v == R!Enqueue(u, e)
  <2>2. /\ v \in Worlds /\ v.ptt = u.ptt /\ v.rx = u.rx /\ v.sess = u.sess /\ v.races = u.races
        /\ v.gw.timer = u.gw.timer /\ v.gw.active = u.gw.active /\ v.gw.threads = u.gw.threads
        /\ R!Range(v.gw.queue) = R!Range(u.gw.queue) \cup {e}
    BY <1>7, <2>1, EnqueueEffect DEF RadioSameBut
  <2> HIDE DEF v
  <2>3. KeyInv(R!World, talk, inbox) => KeyInv(v, talk, inbox')
    <3>1. ~v.gw.timer /\ v.ptt.desired
      BY <1>5, <1>7, <2>2 DEF RadioSameBut, SameWork
    <3> QED BY <1>3, <1>4, <2>1, <3>1 DEF KeyInv
  <2> QED BY <1>5, <1>7, <1>8, <1>9, <2>1, <2>2, <2>3 DEF RadioSameBut, SameWork, v
<1>10. CASE e.do \in {"gone", "closed"} /\ R!Become(R!Enqueue(R!World, e))
  <2>1. e \in Losses /\ e \in Tasks \ {Shutdown} /\ e # On /\ e # Off
    BY <1>3, <1>10 DEF RadioEvents, Tasks, Starts, Losses, On, Off, Shutdown
  <2> DEFINE v == R!Enqueue(R!World, e)
  <2>2. /\ v \in Worlds /\ v.ptt = ptt /\ v.rx = rx /\ v.sess = sess /\ v.races = races
        /\ v.gw.timer = gw.timer /\ v.gw.active = gw.active /\ v.gw.threads = gw.threads
        /\ R!Range(v.gw.queue) = R!Range(gw.queue) \cup {e}
    BY <2>1, AsItIs, EnqueueEffect
  <2> HIDE DEF v
  <2>3. KeyInv(R!World, talk, inbox) => KeyInv(v, talk, inbox')
    <3>1. RadioFirst(R!World) => RadioFirst(v)
      BY <2>2, AsItIs DEF RadioFirst, Queue
    <3> QED BY <1>3, <1>4, <2>1, <2>2, <3>1, AsItIs DEF KeyInv
  <2> QED BY <1>8, <1>10, <2>1, <2>2, <2>3, AsItIs DEF v
<1>11. CASE e.do = "state" /\ e.of /\ R!Become(R!Enqueue(quiet, Key))
  <2>1. e = On /\ Key \in Tasks \ {Shutdown}
    BY <1>3, <1>11 DEF RadioEvents, Tasks, Starts, Losses, On, Off, Shutdown, Key
  <2> DEFINE v == R!Enqueue(quiet, Key)
  <2>2. /\ v \in Worlds /\ v.ptt = ptt /\ v.rx = rx /\ v.sess = sess /\ v.races = races
        /\ ~v.gw.timer /\ v.gw.active = gw.active /\ v.gw.threads = gw.threads
        /\ R!Range(v.gw.queue) = R!Range(gw.queue) \cup {Key}
    BY <1>5, <2>1, EnqueueEffect
  <2> HIDE DEF v
  <2>3. KeyInv(R!World, talk, inbox) => KeyInv(v, talk, inbox')
    BY <1>3, <1>4, <2>1, <2>2 DEF KeyInv
  <2> QED BY <1>8, <1>11, <2>1, <2>2, <2>3, AsItIs DEF v
<1>12. CASE e.do = "state" /\ ~e.of /\ R!Become(late)
  <2>1. e = Off
    BY <1>3, <1>12 DEF RadioEvents, Starts, Losses, On, Off
  <2>2. KeyInv(R!World, talk, inbox) => KeyInv(late, talk, inbox')
    BY <1>3, <1>4, <1>6, <2>1 DEF KeyInv
  <2>3. Key \in Tasks \ {Shutdown}
    BY DEF Tasks, Key, Shutdown
  <2> QED BY <1>6, <1>8, <1>12, <2>2, <2>3, AsItIs
<1> QED BY <1>2, <1>9, <1>10, <1>11, <1>12

(***************************************************************************)
(* Receiving, and the setup of a session.                                  *)
(***************************************************************************)
(* Only the receiving part changes, and how far the session is set up.     *)
LEMMA RxKeeps ==
  ASSUME RadioIInv, UNCHANGED <<talk, delivered, inbox, sess, gw, ptt>>,
         rx' \in RxStates, races' \in {races, races \cup {"toggle"}},
         phase' \in {"setup", "producing", "running", "closing"}, phase' = "closing" <=> phase = "closing",
         RxInv(rx', phase', races'), rx'.muted = rx.muted \/ rx.muted # "tx"
  PROVE  RadioIInv'
<1> DEFINE v == [gw |-> gw, ptt |-> ptt, rx |-> rx', sess |-> sess, races |-> races']
<1>1. R!Become(v)
  BY DEF R!Become
<1>2. v \in Worlds
  <2>1. ptt \in PttStates /\ sess \in [Sessions -> Playbacks] /\ races \in SUBSET RaceNames
    BY AsItIs, RadioParts
  <2>2. races' \in SUBSET RaceNames
    BY <2>1 DEF RaceNames
  <2> QED BY <2>1, <2>2, AsItIs, Whole
<1>3. /\ v.gw = gw /\ v.ptt = ptt /\ v.rx = rx' /\ v.sess = sess /\ v.races = races'
  OBVIOUS
<1> HIDE DEF v
<1>4. ASSUME Unfailed(races') PROVE PlayInv(v, phase') /\ PinInv(v)
  <2>1. PlayInv(R!World, phase) /\ PinInv(R!World)
    BY <1>4, AsItIs DEF Unfailed
  <2>2. PlayInv(v, phase')
    BY <1>3, <2>1, AsItIs DEF PlayInv, Stopping, RadioSilent, Queue, Cleanup
  <2>3. PinInv(v)
    BY <1>3, <2>1, AsItIs DEF PinInv
  <2> QED BY <2>2, <2>3
<1>5. ASSUME races' \subseteq {"unknown"}, phase' # "closing" PROVE KeyInv(v, talk, inbox)
  <2>1. KeyInv(R!World, talk, inbox)
    BY <1>5, AsItIs
  <2>2. RadioFirst(R!World) => RadioFirst(v)
    BY <1>3, AsItIs DEF RadioFirst, Queue
  <2> QED BY <1>3, <2>1, <2>2, AsItIs, KeyStep
<1>6. RadioGood(v, talk, inbox, phase')
  BY <1>3, <1>4, <1>5, AsItIs DEF RadioGood
<1> QED BY <1>1, <1>2, <1>6, GoodNext DEF RadioIInv, RadioTypes

(* A piece of audio asks to pause or to resume.                            *)
LEMMA ToggleEffect ==
  ASSUME NEW r \in RxStates, NEW live \in BOOLEAN
  PROVE  LET s == R!Toggle(r, live)
         IN  /\ s \in RxStates /\ s.toggles # <<>> /\ R!Last(s.toggles) = live /\ s.active = live
             /\ s.muted = r.muted
<1> DEFINE s == R!Toggle(r, live)
           t == Append(r.toggles, live)
<1>1. r.toggles \in Seq(BOOLEAN)
  BY DEF RxStates
<1>2. t \in Seq(BOOLEAN) /\ t # <<>> /\ R!Last(t) = live
  BY <1>1, Adding
<1>3. s = [r EXCEPT !.active = live, !.toggles = t]
  BY DEF R!Toggle, RxStates
<1> HIDE DEF t, s
<1>4. s \in RxStates /\ s.toggles = t /\ s.active = live /\ s.muted = r.muted
  BY <1>2, <1>3 DEF RxStates
<1> QED BY <1>2, <1>4 DEF s

(* The level of a piece of audio.                                          *)
LEMMA ChunkKeeps == ASSUME RadioIInv, R!Chunk PROVE RadioIInv'
<1>1. PICK live \in BOOLEAN : rx' = R!Toggle(rx, live)
  <2>1. PICK yes \in BOOLEAN : yes = TRUE
    OBVIOUS
  <2>2. PICK no \in BOOLEAN : no = FALSE
    OBVIOUS
  <2>3. rx' = R!Toggle(rx, TRUE) \/ rx' = R!Toggle(rx, FALSE)
    BY DEF R!Chunk
  <2>4. rx' = R!Toggle(rx, yes) \/ rx' = R!Toggle(rx, no)
    BY ONLY <2>1, <2>2, <2>3, Zenon
  <2> QED BY <2>4
<1>2. phase = "running" /\ UNCHANGED <<talk, delivered, inbox, sess, gw, ptt, phase, races>>
  BY DEF R!Chunk
<1>3. rx \in RxStates
  BY AsItIs, RadioParts
<1>4. /\ rx' \in RxStates /\ rx'.toggles # <<>> /\ R!Last(rx'.toggles) = live /\ rx'.active = live
      /\ rx'.muted = rx.muted
  BY <1>1, <1>3, ToggleEffect
<1>5. RxInv(rx', phase', races')
  BY <1>2, <1>4 DEF RxInv
<1> QED BY <1>2, <1>4, <1>5, RxKeeps

(* The tail of what was transmitted is over.                               *)
LEMMA TailOverKeeps == ASSUME RadioIInv, R!TailOver PROVE RadioIInv'
<1>1. rx \in RxStates /\ rx.muted = "tail" /\ rx' = [rx EXCEPT !.muted = "no"]
      /\ UNCHANGED <<talk, delivered, inbox, sess, gw, ptt, phase, races>>
  BY AsItIs, RadioParts DEF R!TailOver
<1>2. rx' \in RxStates /\ rx'.active = rx.active /\ rx'.live = rx.live /\ rx'.toggles = rx.toggles
  BY <1>1 DEF RxStates
<1>3. RxInv(rx', phase', races')
  BY <1>1, <1>2, AsItIs DEF RxInv
<1>4. phase \in {"setup", "producing", "running", "closing"}
  BY DEF RadioIInv, RadioTypes
<1> QED BY <1>1, <1>2, <1>3, <1>4, RxKeeps

(* The answer to a pause or a resume, or its failure.                      *)
LEMMA ToggledKeeps == ASSUME RadioIInv, R!Toggled PROVE RadioIInv'
<1>1. rx \in RxStates /\ rx.toggles # <<>> /\ UNCHANGED <<talk, delivered, inbox, sess, gw, ptt, phase>>
  BY AsItIs, RadioParts DEF R!Toggled
<1>2. phase = "running"
  BY <1>1, AsItIs DEF RxInv
<1>3. rx.toggles \in Seq(BOOLEAN)
  BY <1>1 DEF RxStates
<1>4. /\ Head(rx.toggles) \in BOOLEAN /\ Tail(rx.toggles) \in Seq(BOOLEAN)
      /\ R!Last(rx.toggles) = IF Tail(rx.toggles) = <<>> THEN Head(rx.toggles) ELSE R!Last(Tail(rx.toggles))
  BY <1>1, <1>3, Taking
<1>5. CASE rx' = [rx EXCEPT !.live = Head(rx.toggles), !.toggles = Tail(@)] /\ UNCHANGED races
  <2> DEFINE live == Head(rx.toggles)
             rest == Tail(rx.toggles)
  <2>1. rx' = [rx EXCEPT !.live = live, !.toggles = rest]
    BY <1>1, <1>5 DEF RxStates
  <2>2. live \in BOOLEAN /\ rest \in Seq(BOOLEAN)
    BY <1>4
  <2> HIDE DEF live, rest
  <2>3. rx' \in RxStates /\ rx'.toggles = rest /\ rx'.live = live /\ rx'.active = rx.active /\ rx'.muted = rx.muted
    BY <1>1, <2>1, <2>2 DEF RxStates
  <2>4. RxInv(rx', phase', races')
    <3>1. "toggle" \notin races => R!Last(rx.toggles) = rx.active
      BY <1>1, <1>2, AsItIs DEF RxInv
    <3> QED BY <1>1, <1>2, <1>4, <1>5, <2>3, <3>1 DEF RxInv, live, rest
  <2> QED BY <1>1, <1>2, <1>5, <2>3, <2>4, RxKeeps
<1>6. CASE rx' = [rx EXCEPT !.toggles = Tail(@)] /\ races' = races \cup {"toggle"}
  <2> DEFINE rest == Tail(rx.toggles)
  <2>1. rx' = [rx EXCEPT !.toggles = rest]
    BY <1>1, <1>6 DEF RxStates
  <2>2. rest \in Seq(BOOLEAN)
    BY <1>4
  <2> HIDE DEF rest
  <2>3. rx' \in RxStates /\ rx'.muted = rx.muted
    BY <1>1, <2>1, <2>2 DEF RxStates
  <2>4. RxInv(rx', phase', races')
    BY <1>1, <1>2, <1>6 DEF RxInv
  <2> QED BY <1>1, <1>2, <1>6, <2>3, <2>4, RxKeeps
<1> QED BY <1>5, <1>6 DEF R!Toggled

(* The server makes the producer ...                                       *)
LEMMA SetUpKeeps == ASSUME RadioIInv, R!SetUp PROVE RadioIInv'
<1>1. PICK yes \in BOOLEAN : yes = TRUE
  OBVIOUS
<1>2. rx' = [rx EXCEPT !.live = yes]
  <2>1. rx' = [rx EXCEPT !.live = TRUE]
    BY DEF R!SetUp
  <2> QED BY ONLY <1>1, <2>1, Zenon
<1>3. rx \in RxStates /\ phase = "setup" /\ phase' = "producing"
      /\ UNCHANGED <<talk, delivered, inbox, sess, gw, ptt, races>>
  BY AsItIs, RadioParts DEF R!SetUp
<1>4. rx' \in RxStates /\ rx'.active = rx.active /\ rx'.toggles = rx.toggles /\ rx'.muted = rx.muted
  BY <1>2, <1>3 DEF RxStates
<1>5. RxInv(rx', phase', races')
  BY <1>3, <1>4, AsItIs DEF RxInv
<1> QED BY <1>3, <1>4, <1>5, RxKeeps

(* ... and pauses it.                                                      *)
LEMMA WarmUpKeeps == ASSUME RadioIInv, R!WarmUp PROVE RadioIInv'
<1>1. PICK no \in BOOLEAN : no = FALSE
  OBVIOUS
<1>2. rx' = [rx EXCEPT !.live = no]
  <2>1. rx' = [rx EXCEPT !.live = FALSE]
    BY DEF R!WarmUp
  <2> QED BY ONLY <1>1, <2>1, Zenon
<1>3. rx \in RxStates /\ phase = "producing" /\ phase' = "running"
      /\ UNCHANGED <<talk, delivered, inbox, sess, gw, ptt, races>>
  BY AsItIs, RadioParts DEF R!WarmUp
<1>4. rx' \in RxStates /\ rx'.active = rx.active /\ rx'.toggles = rx.toggles /\ rx'.muted = rx.muted
      /\ rx'.live = no
  BY <1>2, <1>3 DEF RxStates
<1>5. ~rx.active /\ rx.toggles = <<>> /\ rx.active \in BOOLEAN
  BY <1>3, AsItIs DEF RxInv, RxStates
<1>6. RxInv(rx', phase', races')
  BY <1>1, <1>3, <1>4, <1>5 DEF RxInv
<1> QED BY <1>3, <1>4, <1>6, RxKeeps

(***************************************************************************)
(* The server: talk starts, moves and ends.                                *)
(***************************************************************************)
\* What the server tells last of the talk tk.
RadioLatest(tk) == [do |-> "state", of |-> \E p \in Talkers : tk[p] = "radio"]

\* What undoes it, if it is told later.
Outdated(tk) == IF \E p \in Talkers : tk[p] = "radio" THEN {Off} ELSE Starts \cup {On}

(* It is On or Off.                                                        *)
LEMMA LatestIs ==
  ASSUME NEW tk
  PROVE  /\ RadioLatest(tk) \in {On, Off} /\ RadioLatest(tk) \in RadioEvents
         /\ (\E p \in Talkers : tk[p] = "radio") => RadioLatest(tk) = On
         /\ ~(\E p \in Talkers : tk[p] = "radio") => RadioLatest(tk) = Off
<1>1. CASE \E p \in Talkers : tk[p] = "radio"
  <2>1. (\E p \in Talkers : tk[p] = "radio") = TRUE
    BY <1>1
  <2>2. RadioLatest(tk) = On
    BY <2>1, Zenon DEF RadioLatest, On
  <2> QED BY <1>1, <2>2 DEF RadioEvents
<1>2. CASE ~(\E p \in Talkers : tk[p] = "radio")
  <2>1. (\E p \in Talkers : tk[p] = "radio") = FALSE
    BY <1>2
  <2>2. RadioLatest(tk) = Off
    BY <2>1, Zenon DEF RadioLatest, Off
  <2> QED BY <1>2, <2>2 DEF RadioEvents
<1> QED BY <1>1, <1>2

(* Once the latest is told, the key follows the talk.                      *)
LEMMA ToldKey ==
  ASSUME NEW w, NEW tk, NEW ib, NEW k \in DOMAIN ib, DOMAIN ib \subseteq Nat,
         ib[k] = RadioLatest(tk), \A j \in DOMAIN ib : j > k => ib[j] \notin Outdated(tk)
  PROVE  KeyInv(w, tk, ib)
<1>1. RadioLatest(tk) \in R!Range(ib)
  BY DEF R!Range
<1>2. \A i \in DOMAIN ib : i > k \/ i = k \/ k > i
  OBVIOUS
<1>3. CASE \E p \in Talkers : tk[p] = "radio"
  <2>1. RadioLatest(tk) = On /\ Outdated(tk) = {Off} /\ On # Off
    BY <1>3, LatestIs DEF Outdated, On, Off
  <2>2. Followed(ib, {Off}, On)
    BY <1>2, <2>1 DEF Followed
  <2> QED BY <1>1, <1>3, <2>1, <2>2 DEF KeyInv
<1>4. CASE ~(\E p \in Talkers : tk[p] = "radio")
  <2>1. RadioLatest(tk) = Off /\ Outdated(tk) = Starts \cup {On} /\ Off \notin Starts \cup {On}
    BY <1>4, LatestIs DEF Outdated, On, Off, Starts
  <2>2. Followed(ib, Starts \cup {On}, Off)
    BY <1>2, <2>1 DEF Followed
  <2> QED BY <1>1, <1>4, <2>1, <2>2 DEF KeyInv
<1> QED BY <1>3, <1>4

(* The latest among other events.                                          *)
LEMMA ToldLast ==
  ASSUME NEW pre \in Seq(RadioEvents), NEW tk, NEW e \in RadioEvents, e \notin Outdated(tk)
  PROVE  LET short == pre \o <<RadioLatest(tk)>>
             long == short \o <<e>>
         IN  /\ short \in Seq(RadioEvents) /\ long \in Seq(RadioEvents)
             /\ \A w : KeyInv(w, tk, short) /\ KeyInv(w, tk, long)
<1> DEFINE m == RadioLatest(tk)
           short == pre \o <<m>>
           long == short \o <<e>>
           n == Len(pre)
<1>1. m \in RadioEvents
  BY LatestIs
<1> HIDE DEF m
<1>2. n \in Nat /\ n = Len(pre) /\ <<m>> \in Seq(RadioEvents) /\ Len(<<m>>) = 1 /\ <<m>>[1] = m
      /\ <<e>> \in Seq(RadioEvents) /\ Len(<<e>>) = 1 /\ <<e>>[1] = e
  BY <1>1
<1>3. /\ short \in Seq(RadioEvents) /\ Len(short) = n + 1 /\ short[n + 1] = m
  <2>1. /\ short \in Seq(RadioEvents) /\ Len(short) = Len(pre) + Len(<<m>>)
        /\ \A i \in 1 .. Len(pre) + Len(<<m>>) : short[i] = IF i <= Len(pre) THEN pre[i] ELSE <<m>>[i - Len(pre)]
    BY <1>2, ConcatProperties
  <2> HIDE DEF short, n
  <2>2. n + 1 \in 1 .. Len(pre) + Len(<<m>>) /\ ~(n + 1 <= n) /\ (n + 1) - n = 1
    BY <1>2
  <2>3. short[n + 1] = <<m>>[1]
    BY <1>2, <2>1, <2>2
  <2> QED BY <1>2, <2>1, <2>3
<1> HIDE DEF short
<1>4. /\ long \in Seq(RadioEvents) /\ Len(long) = n + 2 /\ long[n + 1] = m /\ long[n + 2] = e
  <2>1. /\ long \in Seq(RadioEvents) /\ Len(long) = Len(short) + Len(<<e>>)
        /\ \A i \in 1 .. Len(short) + Len(<<e>>) : long[i] = IF i <= Len(short) THEN short[i] ELSE <<e>>[i - Len(short)]
    BY <1>2, <1>3, ConcatProperties
  <2> HIDE DEF long, n
  <2>2. n + 2 \in 1 .. Len(short) + Len(<<e>>) /\ ~(n + 2 <= n + 1) /\ (n + 2) - (n + 1) = 1
        /\ n + 1 \in 1 .. Len(short) + Len(<<e>>) /\ (n + 1) + 1 = n + 2
    BY <1>2, <1>3
  <2> QED BY <1>2, <1>3, <2>1, <2>2
<1> HIDE DEF long, n
<1>5. DOMAIN short = 1 .. n + 1 /\ DOMAIN long = 1 .. n + 2
  BY <1>3, <1>4, LenProperties
<1>6. n + 1 \in DOMAIN short /\ n + 1 \in DOMAIN long /\ DOMAIN short \subseteq Nat /\ DOMAIN long \subseteq Nat
      /\ (\A j \in DOMAIN short : ~(j > n + 1)) /\ (\A j \in DOMAIN long : j > n + 1 => j = n + 2)
  BY <1>2, <1>5
<1>7. ASSUME NEW w PROVE KeyInv(w, tk, short) /\ KeyInv(w, tk, long)
  BY <1>3, <1>4, <1>6, ToldKey DEF m
<1> QED BY <1>3, <1>4, <1>7 DEF short, long, m

(* The events of the server follow those under way.                        *)
LEMMA ToldBehind ==
  ASSUME NEW ib \in Seq(RadioEvents), NEW pre \in Seq(RadioEvents), NEW tk, NEW e \in RadioEvents, e \notin Outdated(tk)
  PROVE  LET short == pre \o <<RadioLatest(tk)>>
         IN  \A events \in {short, short \o <<e>>} :
               ib \o events \in Seq(RadioEvents) /\ \A w : KeyInv(w, tk, ib \o events)
<1> DEFINE last == <<RadioLatest(tk)>>
<1>1. last \in Seq(RadioEvents) /\ <<e>> \in Seq(RadioEvents)
  <2>1. RadioLatest(tk) \in RadioEvents
    BY LatestIs
  <2> QED BY <2>1
<1>2. pre \o last \in Seq(RadioEvents) /\ ib \o pre \in Seq(RadioEvents)
  <2> HIDE DEF last
  <2> QED BY <1>1, ConcatProperties
<1>3. /\ ib \o (pre \o last) = (ib \o pre) \o last
      /\ ib \o ((pre \o last) \o <<e>>) = ((ib \o pre) \o last) \o <<e>>
  <2> HIDE DEF last
  <2> QED BY <1>1, <1>2, ConcatAssociative
<1>4. /\ (ib \o pre) \o last \in Seq(RadioEvents) /\ ((ib \o pre) \o last) \o <<e>> \in Seq(RadioEvents)
      /\ \A w : KeyInv(w, tk, (ib \o pre) \o last) /\ KeyInv(w, tk, ((ib \o pre) \o last) \o <<e>>)
  BY <1>2, ToldLast
<1> QED BY <1>3, <1>4

(* What the server does keeps the invariant once it told the latest.       *)
LEMMA ServerKeeps ==
  ASSUME RadioIInv, UNCHANGED <<gw, ptt, rx, phase, races>>,
         talk' \in [Talkers -> {"none", "radio", "else", "gone"}], delivered' \subseteq Talkers,
         sess' \in [Sessions -> Playbacks], \A n \in Sessions : sess'[n].plays = sess[n].plays,
         inbox' \in Seq(RadioEvents), phase # "closing" => \A w : KeyInv(w, talk', inbox')
  PROVE  RadioIInv'
<1> DEFINE v == [gw |-> gw, ptt |-> ptt, rx |-> rx, sess |-> sess', races |-> races]
<1>1. R!Become(v)
  BY DEF R!Become
<1>2. v \in Worlds
  <2>1. ptt \in PttStates /\ rx \in RxStates /\ races \in SUBSET RaceNames
    BY AsItIs, RadioParts
  <2> QED BY <2>1, AsItIs, Whole
<1>3. /\ v.gw = gw /\ v.ptt = ptt /\ v.rx = rx /\ v.races = races
      /\ \A n \in Sessions : v.sess[n].plays = sess[n].plays
  OBVIOUS
<1> HIDE DEF v
<1>4. ASSUME Unfailed(races) PROVE PlayInv(v, phase) /\ PinInv(v)
  <2>1. PlayInv(R!World, phase) /\ PinInv(R!World)
    BY <1>4, AsItIs
  <2>2. RadioSilent(v) <=> RadioSilent(R!World)
    BY <1>3, AsItIs DEF RadioSilent
  <2>3. PlayInv(v, phase)
    BY <1>3, <2>1, <2>2, AsItIs DEF PlayInv, Stopping, Queue, Cleanup
  <2>4. PinInv(v)
    BY <1>3, <2>1, AsItIs DEF PinInv
  <2> QED BY <2>3, <2>4
<1>5. phase # "closing" => KeyInv(v, talk', inbox')
  OBVIOUS
<1>6. RadioGood(v, talk', inbox', phase')
  BY <1>3, <1>4, <1>5, AsItIs DEF RadioGood
<1>7. phase' \in {"setup", "producing", "running", "closing"}
  BY DEF RadioIInv, RadioTypes
<1> QED BY <1>1, <1>2, <1>6, <1>7, GoodNext

(* A sequence made of a finite set.                                        *)
LEMMA SetToSeqType ==
  ASSUME NEW V, NEW S \in SUBSET V, IsFiniteSet(S)
  PROVE  R!SetToSeq(S) \in Seq(V)
<1>1. Cardinality(S) \in Nat /\ ExistsBijection(1 .. Cardinality(S), S)
  BY FS_CardinalityType
<1>2. PICK f \in [1 .. Cardinality(S) -> S] : IsInjective(f)
  BY <1>1 DEF ExistsBijection, Bijection, Injection
<1>3. R!SetToSeq(S) \in [1 .. Cardinality(S) -> S]
  BY <1>2 DEF R!SetToSeq, R!IsInjective, IsInjective, R!Cardinality, Cardinality
<1> QED BY <1>1, <1>3

(* A producer is cut off: its consumers are closed, which is told.         *)
LEMMA CutEffect ==
  ASSUME RadioIInv, IsFiniteSet(Sessions), NEW p \in Talkers
  PROVE  /\ R!Cut(p) => sess' \in [Sessions -> Playbacks] /\ \A n \in Sessions : sess'[n].plays = sess[n].plays
         /\ R!CutEvents(p) \in Seq(RadioEvents)
<1>1. sess \in [Sessions -> Playbacks]
  BY AsItIs, RadioParts
<1>2. \A b \in Playbacks : LET c == [b EXCEPT !.consumer = "closed"] IN c \in Playbacks /\ c.plays = b.plays
  BY DEF Playbacks
<1>3. R!Cut(p) => sess' \in [Sessions -> Playbacks] /\ \A n \in Sessions : sess'[n].plays = sess[n].plays
  BY <1>1, <1>2 DEF R!Cut
<1>4. IsFiniteSet(R!Consumers(p))
  BY FS_Subset DEF R!Consumers
<1> DEFINE S == {[do |-> "closed", of |-> n] : n \in R!Consumers(p)}
<1>5. IsFiniteSet(S)
  <2> DEFINE f == [n \in R!Consumers(p) |-> [do |-> "closed", of |-> n]]
  <2>1. f \in Surjection(R!Consumers(p), S)
    BY DEF Surjection
  <2> QED BY <1>4, <2>1, FS_Surjection DEF ExistsSurjection
<1>6. S \in SUBSET RadioEvents
  BY DEF R!Consumers, RadioEvents, Losses
<1>7. R!CutEvents(p) \in Seq(RadioEvents)
  BY <1>5, <1>6, SetToSeqType DEF R!CutEvents
<1> QED BY <1>3, <1>7

(* The events of a talk that starts.                                       *)
LEMMA TalkToRadioKeeps == ASSUME RadioIInv, NEW p \in Talkers, R!TalkToRadio(p) PROVE RadioIInv'
<1> DEFINE start == [do |-> "start", of |-> p]
           pre == IF p \in delivered THEN <<>> ELSE <<start>>
           short == pre \o <<RadioLatest(talk')>>
           events == short \o (IF talk[p] = "none" THEN <<start>> ELSE <<>>)
<1>1. /\ talk' = [talk EXCEPT ![p] = "radio"] /\ UNCHANGED <<sess, gw, ptt, rx, phase, races>>
      /\ delivered' = IF R!Reaches THEN delivered \cup {p} ELSE delivered
      /\ inbox' = IF R!Reaches THEN inbox \o events ELSE inbox
  BY DEF R!TalkToRadio, R!Tell, R!Event, R!State, RadioLatest
<1>2. talk' \in [Talkers -> {"none", "radio", "else", "gone"}] /\ delivered' \subseteq Talkers
      /\ inbox \in Seq(RadioEvents) /\ talk'[p] = "radio"
  BY <1>1 DEF RadioIInv, RadioTypes
<1>3. start \in RadioEvents /\ start \notin Outdated(talk')
  BY <1>2 DEF RadioEvents, Starts, Outdated, Off
<1>4. pre \in Seq(RadioEvents)
  BY <1>3
<1>5. short \in Seq(RadioEvents)
  BY <1>3, <1>4, ToldLast
<1>6. events \in {short, short \o <<start>>}
  <2>1. short \o <<>> = short
    BY <1>5, ConcatEmptySeq
  <2> HIDE DEF short, start
  <2> QED BY <2>1
<1>7. inbox \o events \in Seq(RadioEvents) /\ \A w : KeyInv(w, talk', inbox \o events)
  <2> HIDE DEF events, pre, start
  <2> QED BY <1>2, <1>3, <1>4, <1>6, ToldBehind
<1> HIDE DEF events, pre, start, short
<1>8. inbox' \in Seq(RadioEvents) /\ (phase # "closing" => \A w : KeyInv(w, talk', inbox'))
  BY <1>1, <1>2, <1>7 DEF R!Reaches
<1>9. sess' \in [Sessions -> Playbacks] /\ \A n \in Sessions : sess'[n].plays = sess[n].plays
  BY <1>1, AsItIs, RadioParts
<1> QED BY <1>1, <1>2, <1>8, <1>9, ServerKeeps

(* The events of a talk that moves to others.                              *)
LEMMA TalkElsewhereKeeps ==
  ASSUME RadioIInv, IsFiniteSet(Sessions), NEW p \in Talkers, R!TalkElsewhere(p) PROVE RadioIInv'
<1> DEFINE none == <<>>
           alone == <<RadioLatest(talk')>>
           behind == R!CutEvents(p) \o alone
<1>1. /\ talk' = [talk EXCEPT ![p] = "else"] /\ UNCHANGED <<gw, ptt, rx, phase, races>>
      /\ delivered' = delivered \ {p}
      /\ \/ UNCHANGED sess /\ inbox' = IF R!Reaches THEN inbox \o alone ELSE inbox
         \/ R!Cut(p) /\ inbox' = IF R!Reaches THEN inbox \o behind ELSE inbox
  BY DEF R!TalkElsewhere, R!Tell, R!Event, R!State, RadioLatest
<1>2. talk' \in [Talkers -> {"none", "radio", "else", "gone"}] /\ delivered' \subseteq Talkers
      /\ inbox \in Seq(RadioEvents)
  BY <1>1 DEF RadioIInv, RadioTypes
<1>3. R!CutEvents(p) \in Seq(RadioEvents) /\ none \in Seq(RadioEvents) /\ alone \in Seq(RadioEvents)
  <2>1. RadioLatest(talk') \in RadioEvents
    BY LatestIs
  <2> QED BY <2>1, CutEffect
<1>4. none \o alone = alone
  BY <1>3, ConcatEmptySeq
<1> DEFINE gone == [do |-> "gone", of |-> p]
<1>5. gone \in RadioEvents /\ gone \notin Outdated(talk')
  BY DEF RadioEvents, Losses, Outdated, Off, On, Starts
<1> HIDE DEF gone, none
<1>6. /\ inbox \o alone \in Seq(RadioEvents) /\ \A w : KeyInv(w, talk', inbox \o alone)
      /\ inbox \o behind \in Seq(RadioEvents) /\ \A w : KeyInv(w, talk', inbox \o behind)
  BY <1>2, <1>3, <1>4, <1>5, ToldBehind
<1> HIDE DEF alone, behind
<1>7. inbox' \in Seq(RadioEvents) /\ (phase # "closing" => \A w : KeyInv(w, talk', inbox'))
  BY <1>1, <1>2, <1>6 DEF R!Reaches
<1>8. sess' \in [Sessions -> Playbacks] /\ \A n \in Sessions : sess'[n].plays = sess[n].plays
  BY <1>1, AsItIs, RadioParts, CutEffect
<1> QED BY <1>1, <1>2, <1>7, <1>8, ServerKeeps

(* The events of a talk that ends.                                         *)
LEMMA EndTalkKeeps == ASSUME RadioIInv, NEW p \in Talkers, R!EndTalk(p) PROVE RadioIInv'
<1> DEFINE none == <<>>
           alone == <<RadioLatest(talk')>>
           gone == [do |-> "gone", of |-> p]
<1>1. /\ talk' = [talk EXCEPT ![p] = "none"] /\ UNCHANGED <<delivered, sess, gw, ptt, rx, phase, races>>
      /\ inbox' = IF R!Reaches THEN inbox \o alone ELSE inbox
  BY DEF R!EndTalk, R!Tell, R!Event, R!State, RadioLatest
<1>2. talk' \in [Talkers -> {"none", "radio", "else", "gone"}] /\ delivered' \subseteq Talkers
      /\ inbox \in Seq(RadioEvents)
  BY <1>1 DEF RadioIInv, RadioTypes
<1>3. none \in Seq(RadioEvents) /\ alone \in Seq(RadioEvents)
  <2>1. RadioLatest(talk') \in RadioEvents
    BY LatestIs
  <2> QED BY <2>1
<1>4. none \o alone = alone
  BY <1>3, ConcatEmptySeq
<1>5. gone \in RadioEvents /\ gone \notin Outdated(talk')
  BY DEF RadioEvents, Losses, Outdated, Off, On, Starts
<1> HIDE DEF gone, none
<1>6. inbox \o alone \in Seq(RadioEvents) /\ \A w : KeyInv(w, talk', inbox \o alone)
  BY <1>2, <1>3, <1>4, <1>5, ToldBehind
<1> HIDE DEF alone
<1>7. inbox' \in Seq(RadioEvents) /\ (phase # "closing" => \A w : KeyInv(w, talk', inbox'))
  BY <1>1, <1>2, <1>6 DEF R!Reaches
<1>8. sess' \in [Sessions -> Playbacks] /\ \A n \in Sessions : sess'[n].plays = sess[n].plays
  BY <1>1, AsItIs, RadioParts
<1> QED BY <1>1, <1>2, <1>7, <1>8, ServerKeeps

(* The events of a producer that is closed.                                *)
LEMMA RadioCloseProducerKeeps ==
  ASSUME RadioIInv, IsFiniteSet(Sessions), NEW p \in Talkers, R!CloseProducer(p) PROVE RadioIInv'
<1> DEFINE gone == [do |-> "gone", of |-> p]
           short == R!CutEvents(p) \o <<RadioLatest(talk')>>
           events == short \o <<gone>>
<1>1. /\ talk' = [talk EXCEPT ![p] = "gone"] /\ UNCHANGED <<gw, ptt, rx, phase, races>>
      /\ delivered' = delivered \ {p} /\ R!Cut(p)
      /\ inbox' = IF R!Reaches THEN inbox \o events ELSE inbox
  BY DEF R!CloseProducer, R!Tell, R!Event, R!State, RadioLatest
<1>2. talk' \in [Talkers -> {"none", "radio", "else", "gone"}] /\ delivered' \subseteq Talkers
      /\ inbox \in Seq(RadioEvents)
  BY <1>1 DEF RadioIInv, RadioTypes
<1>3. R!CutEvents(p) \in Seq(RadioEvents)
  BY CutEffect
<1>4. gone \in RadioEvents /\ gone \notin Outdated(talk')
  BY DEF RadioEvents, Losses, Outdated, Off, On, Starts
<1> HIDE DEF gone
<1>5. inbox \o events \in Seq(RadioEvents) /\ \A w : KeyInv(w, talk', inbox \o events)
  BY <1>2, <1>3, <1>4, ToldBehind
<1> HIDE DEF events, short
<1>6. inbox' \in Seq(RadioEvents) /\ (phase # "closing" => \A w : KeyInv(w, talk', inbox'))
  BY <1>1, <1>2, <1>5 DEF R!Reaches
<1>7. sess' \in [Sessions -> Playbacks] /\ \A n \in Sessions : sess'[n].plays = sess[n].plays
  BY <1>1, CutEffect
<1> QED BY <1>1, <1>2, <1>6, <1>7, ServerKeeps

(***************************************************************************)
(* Sessions with the server.                                               *)
(***************************************************************************)
(* The connection breaks.                                                  *)
LEMMA RadioDisconnectKeeps == ASSUME RadioIInv, R!Disconnect PROVE RadioIInv'
<1> DEFINE q == Append(gw.queue, Shutdown)
           r == [rx EXCEPT !.live = FALSE, !.toggles = <<>>, !.active = FALSE]
           ss == [n \in Sessions |-> [sess[n] EXCEPT !.consumer = "closed"]]
           h == [gw EXCEPT !.timer = FALSE, !.queue = q]
           v == [gw |-> h, ptt |-> ptt, rx |-> r, sess |-> ss, races |-> races]
<1>1. /\ phase' = "closing" /\ inbox' = <<>> /\ delivered' = {} /\ UNCHANGED talk
      /\ gw' = [gw EXCEPT !.timer = FALSE, !.queue = Append(@, Shutdown)]
      /\ ptt' = ptt /\ rx' = r /\ sess' = ss /\ races' = races
  BY DEF R!Disconnect, R!Become, R!Enqueue, R!World, Shutdown
<1>2. gw \in GwStates /\ rx \in RxStates /\ sess \in [Sessions -> Playbacks] /\ ptt \in PttStates
      /\ races \in SUBSET RaceNames
  BY AsItIs, RadioParts
<1>3. gw.queue \in Seq(Tasks) /\ Shutdown \in Tasks
  BY <1>2 DEF GwStates, Tasks
<1>4. q \in Seq(Tasks) /\ q # <<>> /\ R!Last(q) = Shutdown
  BY <1>3, Adding
<1>5. gw' = h
  BY <1>1, <1>2 DEF GwStates
<1> HIDE DEF q
<1>6. h \in GwStates /\ h.queue = q /\ h.active = gw.active /\ h.threads = gw.threads
  BY <1>2, <1>4 DEF GwStates
<1>7. r \in RxStates /\ r.toggles = <<>> /\ ~r.active /\ r.muted = rx.muted
  <2>1. PICK no \in BOOLEAN : no = FALSE
    OBVIOUS
  <2>2. PICK none \in Seq(BOOLEAN) : none = <<>>
    <3>1. <<>> \in Seq(BOOLEAN)
      BY EmptySeq
    <3> QED BY ONLY <3>1, Zenon
  <2> DEFINE s == [rx EXCEPT !.live = no, !.toggles = none, !.active = no]
  <2>3. r = s
    BY ONLY <2>1, <2>2, Zenon DEF r, s
  <2>4. s \in RxStates /\ s.toggles = none /\ s.active = no /\ s.muted = rx.muted
    BY <1>2 DEF RxStates
  <2> HIDE DEF r, s
  <2> QED BY <2>1, <2>2, <2>3, <2>4
<1>8. ss \in [Sessions -> Playbacks] /\ \A n \in Sessions : ss[n].plays = sess[n].plays
  <2>1. \A b \in Playbacks : LET c == [b EXCEPT !.consumer = "closed"] IN c \in Playbacks /\ c.plays = b.plays
    BY DEF Playbacks
  <2> QED BY <1>2, <2>1
<1> HIDE DEF h, r, ss
<1>9. v \in Worlds
  BY <1>2, <1>6, <1>7, <1>8, Whole
<1>10. R!Become(v)
  BY <1>1, <1>5 DEF R!Become
<1>11. /\ v.gw.queue = q /\ v.gw.active = gw.active /\ v.gw.threads = gw.threads /\ v.ptt = ptt /\ v.rx = r
       /\ v.races = races /\ \A n \in Sessions : v.sess[n].plays = sess[n].plays
  BY <1>6, <1>8
<1> HIDE DEF v
<1>12. ASSUME Unfailed(races) PROVE PlayInv(v, "closing") /\ PinInv(v)
  <2>1. PlayInv(R!World, phase) /\ PinInv(R!World)
    BY <1>12, AsItIs
  <2>2. RadioSilent(v) <=> RadioSilent(R!World)
    BY <1>11, AsItIs DEF RadioSilent
  <2>3. Cleanup(v)
    BY <1>4, <1>11 DEF Cleanup
  <2>4. PlayInv(v, "closing")
    BY <1>11, <2>1, <2>2, <2>3, AsItIs DEF PlayInv, Stopping, Queue
  <2>5. PinInv(v)
    BY <1>7, <1>11, <2>1, AsItIs DEF PinInv
  <2> QED BY <2>4, <2>5
<1>13. RxInv(v.rx, "closing", v.races)
  BY <1>7, <1>11 DEF RxInv
<1>14. RadioGood(v, talk, inbox', "closing")
  BY <1>11, <1>12, <1>13, AsItIs DEF RadioGood
<1>15. inbox' \in Seq(RadioEvents)
  BY <1>1
<1> QED BY <1>1, <1>9, <1>10, <1>14, <1>15, GoodNext DEF RadioIInv, RadioTypes

(* Those who talk are asked for, in any order.                             *)
LEMMA AskedEffect ==
  ASSUME IsFiniteSet(Talkers), NEW asked \in R!SetToSeqs(R!Addressing)
  PROVE  LET q == [i \in DOMAIN asked |-> [do |-> "start", of |-> asked[i]]]
         IN  /\ q \in Seq(Tasks) /\ R!Range(q) \subseteq Starts
             /\ R!Addressing # {} => R!Range(q) \cap Starts # {}
<1> DEFINE q == [i \in DOMAIN asked |-> [do |-> "start", of |-> asked[i]]]
           n == Cardinality(R!Addressing)
<1>1. IsFiniteSet(R!Addressing)
  BY FS_Subset DEF R!Addressing
<1>2. n \in Nat /\ (n = 0 <=> R!Addressing = {})
  BY <1>1, FS_CardinalityType, FS_EmptySet
<1>3. asked \in [1 .. n -> R!Addressing]
  BY DEF R!SetToSeqs, R!Cardinality, Cardinality
<1> HIDE DEF n
<1>4. q \in [1 .. n -> Starts] /\ DOMAIN q = 1 .. n
  BY <1>3 DEF R!Addressing, Starts
<1>5. q \in Seq(Tasks)
  <2>1. q \in [1 .. n -> Tasks]
    BY <1>4 DEF Tasks
  <2> HIDE DEF q
  <2> QED BY <1>2, <2>1
<1> HIDE DEF q
<1>6. R!Range(q) \subseteq Starts
  BY <1>4 DEF R!Range
<1>7. R!Addressing # {} => R!Range(q) \cap Starts # {}
  <2>1. R!Addressing # {} => 1 \in 1 .. n
    BY <1>2
  <2> QED BY <1>4, <2>1 DEF R!Range
<1> QED BY <1>5, <1>6, <1>7 DEF q

(* A new session.                                                          *)
LEMMA AnewEffect ==
  ASSUME RadioIInv, R!Anew, IsFiniteSet(Talkers), UNCHANGED talk, sess' \in [Sessions -> Playbacks],
         \A n \in Sessions : sess'[n].plays = sess[n].plays,
         races' \in SUBSET RaceNames, Unfailed(races') => RadioSilent(R!World) /\ ~ptt.pin
  PROVE  RadioIInv'
<1>1. PICK asked \in R!SetToSeqs(R!Addressing) :
        gw' = [R!FreshGw EXCEPT !.queue = [i \in DOMAIN asked |-> [do |-> "start", of |-> asked[i]]]]
  BY DEF R!Anew
<1> DEFINE q == [i \in DOMAIN asked |-> [do |-> "start", of |-> asked[i]]]
           h == [R!FreshGw EXCEPT !.queue = q]
           v == [gw |-> h, ptt |-> R!FreshPtt(ptt.pin), rx |-> R!FreshRx, sess |-> sess', races |-> races']
<1>2. q \in Seq(Tasks) /\ R!Range(q) \subseteq Starts /\ (R!Addressing # {} => R!Range(q) \cap Starts # {})
  BY AskedEffect
<1> HIDE DEF q
<1>3. /\ h \in GwStates /\ h.queue = q /\ h.active = 0 /\ ~h.timer /\ h.threads = [x \in R!Threads |-> R!Idle]
  BY <1>2, ThreadTypes DEF GwStates, R!FreshGw
<1>4. ptt.pin \in BOOLEAN
  BY AsItIs, RadioParts DEF PttStates
<1>5. /\ R!FreshPtt(ptt.pin) \in PttStates /\ R!FreshPtt(ptt.pin).pin = ptt.pin
      /\ ~R!FreshPtt(ptt.pin).active /\ ~R!FreshPtt(ptt.pin).desired /\ R!FreshPtt(ptt.pin).stage = "idle"
      /\ R!FreshPtt(ptt.pin).waiting = 0
  BY <1>4 DEF PttStates, R!FreshPtt
<1>6. R!FreshRx \in RxStates /\ R!FreshRx.toggles = <<>> /\ ~R!FreshRx.active
  BY DEF RxStates, R!FreshRx
<1>7. R!Become(v) /\ inbox' = <<>> /\ delivered' = {} /\ phase' = "setup"
  BY <1>1 DEF R!Become, R!Anew, q
<1>8. v \in Worlds
  <2> HIDE DEF h
  <2> QED BY <1>3, <1>5, <1>6, Whole
<1> HIDE DEF h
<1>9. /\ v.gw = h /\ v.ptt = R!FreshPtt(ptt.pin) /\ v.rx = R!FreshRx /\ v.races = races' /\ v.sess = sess'
  OBVIOUS
<1> HIDE DEF v
<1>10. Queue(v).at = "idle" /\ v.gw.threads["rescue"].at = "idle"
  BY <1>3, <1>9 DEF Queue, R!Threads, R!Idle
<1>11. ASSUME Unfailed(races') PROVE PlayInv(v, "setup") /\ PinInv(v)
  <2>1. RadioSilent(v) /\ ~ptt.pin
    BY <1>9, <1>11, AsItIs DEF RadioSilent
  <2>2. Shutdown \notin R!Range(q)
    BY <1>2 DEF Starts, Shutdown
  <2>3. PlayInv(v, "setup")
    BY <1>3, <1>9, <1>10, <2>1, <2>2 DEF PlayInv, Stopping, RadioSilent
  <2>4. PinInv(v)
    BY <1>4, <1>5, <1>9, <2>1 DEF PinInv, PttStates
  <2> QED BY <2>3, <2>4
<1>12. KeyInv(v, talk, <<>>)
  <2>1. \A what, by : Followed(<<>>, what, by)
    BY DEF Followed
  <2>2. ~v.gw.timer /\ ~v.ptt.desired
    BY <1>3, <1>5, <1>9
  <2>3. (\E p \in Talkers : talk[p] = "radio") => RadioFirst(v)
    BY <1>2, <1>3, <1>5, <1>9, <1>10 DEF RadioFirst, R!Addressing
  <2> QED BY <2>1, <2>2, <2>3 DEF KeyInv
<1>13. RadioGood(v, talk', inbox', phase')
  <2>1. PttInv(v.ptt)
    BY <1>5, <1>9 DEF PttInv, PttStates
  <2>2. RxInv(v.rx, "setup", v.races)
    BY <1>6, <1>9 DEF RxInv
  <2> QED BY <1>7, <1>9, <1>11, <1>12, <2>1, <2>2 DEF RadioGood
<1>14. talk' \in [Talkers -> {"none", "radio", "else", "gone"}] /\ inbox' \in Seq(RadioEvents)
  BY <1>7 DEF RadioIInv, RadioTypes
<1> QED BY <1>7, <1>8, <1>13, <1>14, GoodNext

(* The next session of a gateway that was cleaned up.                      *)
LEMMA RenewKeeps == ASSUME RadioIInv, IsFiniteSet(Talkers), R!Renew PROVE RadioIInv'
<1>1. phase = "closing" /\ R!AtRest /\ R!Anew /\ UNCHANGED <<talk, sess, races>>
  BY DEF R!Renew
<1>2. ASSUME Unfailed(races) PROVE RadioSilent(R!World) /\ ~ptt.pin
  <2>1. PlayInv(R!World, phase) /\ PinInv(R!World)
    BY <1>2, AsItIs
  <2>2. Queue(R!World).at = "idle" /\ R!World.gw.queue = <<>> /\ ptt.stage = "idle"
    BY <1>1, AsItIs DEF R!AtRest, Queue, R!Threads, R!Idle
  <2>3. RadioSilent(R!World) /\ ~ptt.desired
    BY <1>1, <2>1, <2>2, AsItIs DEF PlayInv, Cleanup, Stopping
  <2>4. ptt \in PttStates
    BY AsItIs, RadioParts
  <2> QED BY <2>1, <2>2, <2>3, <2>4, AsItIs DEF PttInv, PinInv, PttStates
<1>3. sess \in [Sessions -> Playbacks] /\ races \in SUBSET RaceNames
  BY AsItIs, RadioParts
<1> QED BY <1>1, <1>2, <1>3, AnewEffect

(* A session that cannot be set up is one of the races.                    *)
LEMMA SetupFailsKeeps == ASSUME RadioIInv, IsFiniteSet(Talkers), R!SetupFails PROVE RadioIInv'
<1>1. /\ R!Anew /\ UNCHANGED talk /\ races' = races \cup {"abandoned"}
      /\ sess' = [n \in Sessions |-> [sess[n] EXCEPT !.consumer = "closed"]]
  BY DEF R!SetupFails
<1>2. sess \in [Sessions -> Playbacks] /\ races \in SUBSET RaceNames
  BY AsItIs, RadioParts
<1>3. \A b \in Playbacks : LET c == [b EXCEPT !.consumer = "closed"] IN c \in Playbacks /\ c.plays = b.plays
  BY DEF Playbacks
<1>4. sess' \in [Sessions -> Playbacks] /\ \A n \in Sessions : sess'[n].plays = sess[n].plays
  BY <1>1, <1>2, <1>3
<1>5. races' \in SUBSET RaceNames /\ ~Unfailed(races')
  BY <1>1, <1>2 DEF RaceNames, Unfailed
<1> QED BY <1>1, <1>4, <1>5, AnewEffect

(***************************************************************************)
(* The invariant.                                                          *)
(***************************************************************************)
(* It holds at first.                                                      *)
LEMMA Initially == R!Init => RadioIInv
<1> SUFFICES ASSUME R!Init PROVE RadioIInv
  OBVIOUS
<1>1. /\ talk = [p \in Talkers |-> "none"] /\ delivered = {} /\ inbox = <<>>
      /\ sess = [n \in Sessions |-> R!NoSession] /\ gw = R!FreshGw /\ ptt = R!FreshPtt(FALSE) /\ rx = R!FreshRx
      /\ phase = "running" /\ races = {}
  BY DEF R!Init
<1>2. R!FreshGw \in GwStates /\ R!FreshGw.queue = <<>> /\ R!FreshGw.active = 0 /\ ~R!FreshGw.timer
      /\ R!FreshGw.threads["queue"] = R!Idle /\ R!FreshGw.threads["rescue"] = R!Idle
  <2>1. <<>> \in Seq(Tasks)
    BY EmptySeq
  <2> QED BY <2>1, ThreadTypes DEF GwStates, R!FreshGw, R!Threads
<1>3. /\ R!FreshPtt(FALSE) \in PttStates /\ R!FreshPtt(FALSE).pin = FALSE /\ R!FreshPtt(FALSE).active = FALSE
      /\ R!FreshPtt(FALSE).desired = FALSE /\ R!FreshPtt(FALSE).stage = "idle" /\ R!FreshPtt(FALSE).waiting = 0
  BY DEF PttStates, R!FreshPtt
<1>4. R!FreshRx \in RxStates /\ R!FreshRx.toggles = <<>> /\ R!FreshRx.active = FALSE /\ R!FreshRx.live = FALSE
  BY DEF RxStates, R!FreshRx
<1>5. R!NoSession \in Playbacks /\ R!NoSession.plays = FALSE
  BY DEF Playbacks, R!NoSession
<1>6. sess \in [Sessions -> Playbacks] /\ \A n \in Sessions : ~sess[n].plays
  BY <1>1, <1>5
<1>7. R!World \in Worlds
  <2>1. {} \in SUBSET RaceNames
    OBVIOUS
  <2> QED BY <1>1, <1>2, <1>3, <1>4, <1>6, <2>1, Whole DEF R!World
<1>8. RadioTypes
  <2>1. <<>> \in Seq(RadioEvents)
    BY EmptySeq
  <2> QED BY <1>1, <1>7, <2>1 DEF RadioTypes
<1>9. /\ R!World.gw = R!FreshGw /\ R!World.ptt = R!FreshPtt(FALSE) /\ R!World.rx = R!FreshRx /\ R!World.races = {}
      /\ \A n \in Sessions : ~R!World.sess[n].plays
  BY <1>1, <1>6 DEF R!World
<1>10. PttInv(R!World.ptt) /\ PinInv(R!World) /\ RxInv(R!World.rx, phase, R!World.races)
  BY <1>1, <1>3, <1>4, <1>9 DEF PttInv, PinInv, RxInv
<1>11. PlayInv(R!World, phase)
  BY <1>1, <1>2, <1>9 DEF PlayInv, Queue, Stopping, RadioSilent, R!Idle, R!Range
<1>12. KeyInv(R!World, talk, inbox)
  <2>1. ~(\E p \in Talkers : talk[p] = "radio") /\ ~R!World.ptt.desired
    BY <1>1, <1>3, <1>9
  <2>2. Followed(inbox, Starts \cup {On}, Off)
    BY <1>1 DEF Followed
  <2> QED BY <2>1, <2>2 DEF KeyInv
<1> QED BY <1>8, <1>10, <1>11, <1>12 DEF RadioIInv, RadioGood

(* A step that changes nothing keeps it.                                   *)
LEMMA Stutters == RadioIInv /\ UNCHANGED R!vars => RadioIInv'
BY DEF RadioIInv, RadioTypes, RadioGood, R!World, R!vars

(* Every step keeps it.                                                    *)
LEMMA Inductive == ASSUME R!GatewayAssumption PROVE RadioIInv /\ [R!Next]_(R!vars) => RadioIInv'
<1> SUFFICES ASSUME RadioIInv, [R!Next]_(R!vars) PROVE RadioIInv'
  OBVIOUS
<1>1. IsFiniteSet(Talkers) /\ IsFiniteSet(Sessions) /\ 0 \notin Sessions
  BY DEF R!GatewayAssumption, R!IsFiniteSet, IsFiniteSet
<1>2. ASSUME R!Begin PROVE RadioIInv'
  BY <1>1, <1>2, BeginKeeps
<1>3. ASSUME R!PinSet PROVE RadioIInv'
  BY <1>3, PinSetKeeps
<1>4. ASSUME R!Release PROVE RadioIInv'
  BY <1>4, ReleaseKeeps
<1>5. ASSUME R!Receive PROVE RadioIInv'
  BY <1>5, ReceiveKeeps
<1>6. ASSUME R!Chunk \/ R!TailOver \/ R!Toggled \/ R!SetUp \/ R!WarmUp PROVE RadioIInv'
  BY <1>6, ChunkKeeps, TailOverKeeps, ToggledKeeps, SetUpKeeps, WarmUpKeeps
<1>7. ASSUME NEW x \in R!Threads, R!Consumed(x) \/ R!Keyed(x) \/ R!Finished(x) \/ R!Closed(x) \/ R!Killed(x) PROVE RadioIInv'
  BY <1>1, <1>7, ConsumedKeeps, KeyedKeeps, FinishedKeeps, RadioClosedKeeps, KilledKeeps
<1>8. ASSUME NEW n \in Sessions, R!Dies(n) PROVE RadioIInv'
  BY <1>8, DiesKeeps
<1>9. ASSUME NEW p \in Talkers, R!TalkToRadio(p) \/ R!TalkElsewhere(p) \/ R!EndTalk(p) \/ R!CloseProducer(p) PROVE RadioIInv'
  BY <1>1, <1>9, TalkToRadioKeeps, TalkElsewhereKeeps, EndTalkKeeps, RadioCloseProducerKeeps
<1>10. ASSUME R!Disconnect \/ R!Renew \/ R!SetupFails PROVE RadioIInv'
  BY <1>1, <1>10, RadioDisconnectKeeps, RenewKeeps, SetupFailsKeeps
<1>11. ASSUME UNCHANGED R!vars PROVE RadioIInv'
  BY <1>11, Stutters
<1> QED BY <1>2, <1>3, <1>4, <1>5, <1>6, <1>7, <1>8, <1>9, <1>10, <1>11 DEF R!Next

(* The inductive invariant holds always.                                   *)
THEOREM RadioInvariant == ASSUME R!GatewayAssumption PROVE R!Spec => []RadioIInv
<1>1. R!Init => RadioIInv
  BY Initially
<1>2. RadioIInv /\ [R!Next]_(R!vars) => RadioIInv'
  BY Inductive
<1> QED BY <1>1, <1>2, PTL DEF R!Spec

(* The values of the variables.                                            *)
THEOREM RadioTypesHold == ASSUME R!GatewayAssumption PROVE R!Spec => []R!TypeOK
<1>1. RadioIInv => R!TypeOK
  BY AsItIs, RadioParts DEF RadioIInv, RadioTypes, R!TypeOK, GwStates, PttStates
<1> QED BY <1>1, RadioInvariant, PTL

(* One playback runs at a time, unless a start failed or was given up.     *)
THEOREM OneAtATime == ASSUME R!GatewayAssumption PROVE R!Spec => []R!OnePlayback
<1>1. RadioIInv => R!OnePlayback
  BY AsItIs DEF R!OnePlayback, Unfailed, PlayInv
<1> QED BY <1>1, RadioInvariant, PTL

(* Once the gateway rests, the radio is keyed exactly while somebody talks *)
(* to it, and keyed it passes nothing on that it receives, unless one of   *)
(* the races happened of which the property speaks.                        *)
THEOREM KeyFollowsTalk == ASSUME R!GatewayAssumption PROVE R!Spec => []R!KeyedWhileAddressed
<1>1. ASSUME RadioIInv, R!Settled, races \subseteq {"unknown"}
      PROVE  /\ ptt.pin <=> R!Addressing # {}
             /\ ptt.pin => rx.muted = "tx" /\ (rx.toggles = <<>> /\ ~rx.active => ~rx.live)
  <2>1. /\ gw.queue = <<>> /\ gw.threads["queue"] = R!Idle /\ ptt.stage = "idle" /\ ~gw.timer /\ inbox = <<>>
        /\ phase = "running"
    BY <1>1 DEF R!Settled, R!AtRest, R!Threads
  <2>2. PinInv(R!World) /\ PttInv(ptt) /\ KeyInv(R!World, talk, inbox) /\ RxInv(rx, phase, races)
    BY <1>1, <2>1, AsItIs
  <2>3. ptt \in PttStates /\ rx \in RxStates
    BY <1>1, AsItIs, RadioParts
  <2>4. ptt.pin = ptt.desired
    BY <1>1, <2>1, <2>2, AsItIs DEF PinInv, PttInv
  <2>5. ~RadioFirst(R!World) /\ On \notin R!Range(inbox) /\ Off \notin R!Range(inbox) /\ Key \notin R!Range(R!World.gw.queue)
    BY <1>1, <2>1, AsItIs DEF RadioFirst, Queue, R!Idle, R!Range
  <2>6. ptt.pin <=> R!Addressing # {}
    BY <1>1, <2>1, <2>2, <2>3, <2>4, <2>5, AsItIs DEF KeyInv, R!Addressing, PttStates
  <2>7. ptt.pin => rx.muted = "tx" /\ (rx.toggles = <<>> /\ ~rx.active => ~rx.live)
    BY <1>1, <2>1, <2>2, <2>3, AsItIs DEF PinInv, RxInv, RxStates
  <2> QED BY <2>6, <2>7
<1>2. RadioIInv => R!KeyedWhileAddressed
  BY <1>1 DEF R!KeyedWhileAddressed
<1> QED BY <1>2, RadioInvariant, PTL

-----------------------------------------------------------------------------
(***************************************************************************)
(* Proofs about the audio of a user port of a bridge, for any producers    *)
(* and however often sessions, speakers and devices come and go: a port at *)
(* rest captures and plays what the server has of it.                      *)
(***************************************************************************)

MediaNames ==
  {"sid", "ready", "input", "outs", "known", "want", "main", "ev", "inp", "then", "todo", "cap", "nat", "lvl", "dev",
   "srv", "next", "path", "prod", "cons", "live", "queue", "deaf", "leaked"}
InStages == {"transport", "capture", "produce"}
OutStages == {"reserve", "create", "activate", "resume", "level"}
Before == {"register", "transport", "capture", "produce", "ready", "list"}
MediaEvents == [kind : {"new", "closed", "level"}, p : Voices]

\* Nothing but the fields in X differs.
MediaSameBut(w, v, X) == \A n \in MediaNames \ X : v[n] = w[n]

\* What the steps read and write.
Activity(a) == DOMAIN a = {"at", "p", "sid"}
MediaTypes(w) ==
  /\ DOMAIN w = MediaNames /\ Activity(w.main) /\ Activity(w.ev) /\ Activity(w.inp)
  /\ w.sid \in Nat /\ w.srv \in Nat /\ w.next \in Nat /\ w.inp.sid \in Nat
  /\ w.queue \in Seq(MediaEvents) /\ w.todo \in Seq(Voices)
  /\ w.outs \subseteq Voices /\ w.live \subseteq Voices
  /\ DOMAIN w.nat = Voices /\ DOMAIN w.lvl = Voices /\ DOMAIN w.want = Voices /\ DOMAIN w.cons = Voices

\* The activities, and the sessions they belong to.
MainOrder(w) ==
  /\ w.main.at \in {"idle"} \cup B!Starts \cup B!Stops
  /\ w.main.at \in OutStages => w.main.p \in Voices
  /\ w.main.at \in B!Starts \ {"register"} => w.sid # 0
  /\ w.main.at = "register" => w.sid = 0
EvOrder(w) == w.ev.at \in {"idle"} \cup OutStages /\ w.ev.p \in IF w.ev.at = "idle" THEN {0} ELSE Voices
InpOrder(w) ==
  /\ w.inp.at \in {"idle"} \cup InStages
  /\ w.inp.at = "idle" => w.inp = B!Idle
  /\ w.inp.at # "idle" => w.inp.sid # 0
  /\ w.main.at \in InStages /\ w.inp.at # "idle" => w.inp.sid # w.sid
SessionOrder(w) ==
  /\ w.ready => w.sid # 0
  /\ w.sid < w.next /\ w.srv < w.next /\ w.inp.sid < w.next /\ 0 < w.next
  /\ w.srv = 0 => w.queue = <<>>
  /\ w.sid = 0 => w.outs = {}
Orders(w) == MainOrder(w) /\ EvOrder(w) /\ InpOrder(w) /\ SessionOrder(w)

\* The capture.
Inputs(w) ==
  /\ w.cap => w.input = "on" \/ w.main.at = "produce" \/ w.inp.at = "produce"
  /\ w.cap /\ w.main.at = "delete" => w.inp.at \in {"produce", "idle"}
  /\ w.input = "on" => /\ w.sid # 0
                       /\ w.cap \/ w.main.at = "delete"
                       /\ B!Served(w) => w.prod
                       /\ w.main.at \notin InStages
                       /\ w.inp.at # "idle" => w.inp.sid # w.sid

\* What is last in the queue about a producer tells whether it is there.
MediaQueued(w, k, p) == \E i \in DOMAIN w.queue : w.queue[i] = B!Event(k, p)
After(w, i, k, p) == \E j \in DOMAIN w.queue : j > i /\ w.queue[j] = B!Event(k, p)
Ends(w) ==
  \A i \in DOMAIN w.queue, p \in Voices :
    /\ w.queue[i] = B!Event("new", p) /\ p \notin w.live => After(w, i, "closed", p)
    /\ w.queue[i] = B!Event("closed", p) /\ p \in w.live => After(w, i, "new", p)

\* The output of one producer.  An output nobody works on is as it should be,
\* and one that is about to be ready, unless the other activity is behind.
Works(w, who, p) == w[who].at \in OutStages /\ w[who].p = p
Worked(w, p) == Works(w, "main", p) \/ Works(w, "ev", p)
Heard(w, p) == w.cons[p] = "on" \/ MediaQueued(w, "closed", p)
Plays(w, p) ==
  B!Served(w) /\ p \in w.outs /\ ~Worked(w, p) => w.nat[p] = "active" /\ w.lvl[p] = w.want[p] /\ Heard(w, p)
Nearly(w, who, other, p) ==
  B!Served(w) /\ Works(w, who, p) /\ w[who].at = "level" /\ p \in w.outs /\ w.nat[p] = "active" =>
    Heard(w, p) \/ (Works(w, other, p) /\ w[other].at # "level")

\* Who is there has an output, or soon has; and nobody else.
InTodo(w, p) == \E i \in DOMAIN w.todo : w.todo[i] = p
Coming(w, p) == w.main.at \in Before \cup B!Stops \/ (w.main.at \in {"next"} \cup OutStages /\ InTodo(w, p))
Ending(w, p) ==
  B!Served(w) /\ p \in w.outs /\ p \notin w.live =>
    MediaQueued(w, "closed", p) \/ (Works(w, "main", p) /\ w.main.at \in {"reserve", "create"})
Missing(w, p) == B!Served(w) /\ p \in w.live /\ p \notin w.deaf /\ p \notin w.outs /\ ~MediaQueued(w, "new", p)

VoiceInv(w, p) ==
  /\ Plays(w, p) /\ Nearly(w, "main", "ev", p) /\ Nearly(w, "ev", "main", p) /\ Ending(w, p)
  /\ w.nat[p] # "none" => p \in w.outs \/ Worked(w, p)
  /\ p \in w.outs /\ p \in w.deaf => Worked(w, p)

MediaSound(w) ==
  /\ MediaTypes(w) /\ Orders(w) /\ Inputs(w) /\ Ends(w)
  /\ \A p \in Voices : VoiceInv(w, p) /\ (Missing(w, p) => Coming(w, p))

MediaIInv == ~world.leaked => MediaSound(world)

(***************************************************************************)
(* Sequences.                                                              *)
(***************************************************************************)
LEMMA ToSeqIs ==
  ASSUME NEW V, NEW X \in SUBSET V, IsFiniteSet(X)
  PROVE  B!SetToSeq(X) \in Seq(V) /\ \A x \in X : \E i \in DOMAIN B!SetToSeq(X) : B!SetToSeq(X)[i] = x
<1> DEFINE n == Cardinality(X)
           s == B!SetToSeq(X)
<1>1. n \in Nat /\ ExistsBijection(1 .. n, X)
  BY FS_CardinalityType
<1>2. \E f \in [1 .. n -> X] : IsInjective(f)
  BY <1>1 DEF ExistsBijection, Bijection, Injection, Surjection
<1>3. s \in [1 .. n -> X] /\ IsInjective(s)
  BY <1>2 DEF B!SetToSeq, B!IsInjective, IsInjective, B!Cardinality, Cardinality
<1>4. s \in Injection(1 .. n, X)
  BY <1>3 DEF Injection
<1>5. IsFiniteSet(1 .. n) /\ Cardinality(1 .. n) = n
  BY <1>1, FS_Interval
<1>6. s \in Surjection(1 .. n, X)
  BY <1>4, <1>5, FS_Injection
<1> HIDE DEF n, s
<1>7. s \in Seq(V) /\ DOMAIN s = 1 .. n
  BY <1>1, <1>3
<1> QED BY <1>6, <1>7 DEF Surjection, s

\* The first of a sequence is taken.
LEMMA MediaTailIs ==
  ASSUME NEW X, NEW s \in Seq(X), s # <<>>
  PROVE  /\ Head(s) \in X /\ Head(s) = s[1] /\ Tail(s) \in Seq(X) /\ 1 \in DOMAIN s
         /\ \A i \in DOMAIN s : i # 1 => i - 1 \in DOMAIN Tail(s) /\ Tail(s)[i - 1] = s[i] /\ i \in Nat /\ i > 1
         /\ \A i \in DOMAIN Tail(s) : i + 1 \in DOMAIN s /\ Tail(s)[i] = s[i + 1] /\ i \in Nat
  OBVIOUS

LEMMA MediaAppendIs ==
  ASSUME NEW X, NEW s \in Seq(X), NEW e \in X
  PROVE  /\ Append(s, e) \in Seq(X)
         /\ \A i \in DOMAIN s : i \in DOMAIN Append(s, e) /\ Append(s, e)[i] = s[i] /\ i < Len(s) + 1
         /\ Len(s) + 1 \in DOMAIN Append(s, e) /\ Append(s, e)[Len(s) + 1] = e
         /\ \A i \in DOMAIN Append(s, e) : i \in DOMAIN s \/ i = Len(s) + 1
  OBVIOUS
(***************************************************************************)
(* What a producer's output depends on.                                    *)
(***************************************************************************)
SameFor(w, v, p) ==
  /\ B!Served(v) => B!Served(w)
  /\ p \in v.outs <=> p \in w.outs
  /\ p \in v.live <=> p \in w.live
  /\ p \in v.deaf <=> p \in w.deaf
  /\ v.nat[p] = w.nat[p] /\ v.lvl[p] = w.lvl[p] /\ v.want[p] = w.want[p] /\ v.cons[p] = w.cons[p]
  /\ MediaQueued(v, "new", p) <=> MediaQueued(w, "new", p)
  /\ MediaQueued(v, "closed", p) <=> MediaQueued(w, "closed", p)
  /\ Works(v, "main", p) <=> Works(w, "main", p)
  /\ Works(v, "ev", p) <=> Works(w, "ev", p)
  /\ Works(w, "main", p) => v.main.at = w.main.at
  /\ Works(w, "ev", p) => v.ev.at = w.ev.at

LEMMA VoiceStays ==
  ASSUME NEW w, NEW v, NEW p, VoiceInv(w, p), SameFor(w, v, p)
  PROVE  VoiceInv(v, p) /\ (Missing(v, p) => Missing(w, p))
<1>1. Worked(v, p) <=> Worked(w, p)
  BY DEF Worked, SameFor
<1>2. Heard(v, p) <=> Heard(w, p)
  BY DEF Heard, SameFor
<1>3. Plays(v, p)
  BY <1>1, <1>2 DEF VoiceInv, Plays, SameFor
<1>4. Nearly(v, "main", "ev", p) /\ Nearly(v, "ev", "main", p)
  BY <1>2 DEF VoiceInv, Nearly, SameFor
<1>5. Ending(v, p)
  BY DEF VoiceInv, Ending, SameFor
<1> QED BY <1>1, <1>3, <1>4, <1>5 DEF VoiceInv, Missing, SameFor

\* Nothing is served: what is asked of an output is little.
LEMMA Unserved ==
  ASSUME NEW v, NEW p, ~B!Served(v), v.nat[p] # "none" => p \in v.outs \/ Worked(v, p),
         p \in v.outs /\ p \in v.deaf => Worked(v, p)
  PROVE  VoiceInv(v, p) /\ ~Missing(v, p)
  BY DEF VoiceInv, Plays, Nearly, Ending, Missing

\* Only the main activity, what it has to do, and what is no matter of outputs
\* changes, and it works on no output.
OutputFields == {"sid", "outs", "live", "deaf", "nat", "lvl", "want", "cons", "queue", "ev", "srv"}
LEMMA MainMoves ==
  ASSUME NEW w, NEW v, NEW p, VoiceInv(w, p), w.main.at \notin OutStages, v.main.at \notin OutStages,
         \A n \in OutputFields : v[n] = w[n]
  PROVE  VoiceInv(v, p) /\ (Missing(v, p) => Missing(w, p))
<1>1. ~Works(w, "main", p) /\ ~Works(v, "main", p)
  BY DEF Works
<1>2. /\ v.sid = w.sid /\ v.outs = w.outs /\ v.live = w.live /\ v.deaf = w.deaf /\ v.nat = w.nat /\ v.lvl = w.lvl
      /\ v.want = w.want /\ v.cons = w.cons /\ v.queue = w.queue /\ v.ev = w.ev /\ v.srv = w.srv
  BY DEF OutputFields
<1>3. SameFor(w, v, p)
  BY <1>1, <1>2 DEF SameFor, B!Served, MediaQueued, Works
<1> QED BY <1>3, VoiceStays

\* Nothing that outputs depend on changes.
LEMMA MediaAside ==
  ASSUME NEW w, NEW v, NEW p, VoiceInv(w, p), v.main = w.main, \A n \in OutputFields : v[n] = w[n]
  PROVE  VoiceInv(v, p) /\ (Missing(v, p) => Missing(w, p))
<1>2. /\ v.sid = w.sid /\ v.outs = w.outs /\ v.live = w.live /\ v.deaf = w.deaf /\ v.nat = w.nat /\ v.lvl = w.lvl
      /\ v.want = w.want /\ v.cons = w.cons /\ v.queue = w.queue /\ v.ev = w.ev /\ v.srv = w.srv
  BY DEF OutputFields
<1>3. SameFor(w, v, p)
  BY <1>2 DEF SameFor, B!Served, MediaQueued, Works
<1> QED BY <1>3, VoiceStays

LEMMA EndsStay ==
  ASSUME NEW w, NEW v, v.queue = w.queue, v.live = w.live, Ends(w)
  PROVE  Ends(v)
  BY DEF Ends, After

LEMMA VoicesFinite == ASSUME B!MediaAssumption PROVE IsFiniteSet(Voices)
  BY DEF B!MediaAssumption, B!IsFiniteSet, IsFiniteSet

(***************************************************************************)
(* The session stops.                                                      *)
(***************************************************************************)
LEMMA StopThenIs ==
  ASSUME B!MediaAssumption, NEW w, MediaTypes(w), NEW then
  PROVE  LET v == B!StopThen(w, then) IN
         /\ MediaTypes(v) /\ MediaSameBut(w, v, {"main", "todo", "then"}) /\ v.main.at = "stop outputs"
<1> DEFINE v == B!StopThen(w, then)
<1>1. /\ DOMAIN v = MediaNames /\ MediaSameBut(w, v, {"main", "todo", "then"}) /\ v.todo = B!SetToSeq(w.outs)
      /\ v.main = [B!Idle EXCEPT !.at = "stop outputs"]
  BY DEF B!StopThen, MediaTypes, MediaSameBut, MediaNames
<1>2. Activity(v.main) /\ v.main.at = "stop outputs"
  BY <1>1 DEF Activity, B!Idle
<1>3. v.todo \in Seq(Voices)
  <2>1. w.outs \in SUBSET Voices /\ IsFiniteSet(w.outs)
    BY VoicesFinite, FS_Subset DEF MediaTypes
  <2>2. B!SetToSeq(w.outs) \in Seq(Voices)
    BY <2>1, ToSeqIs
  <2> HIDE DEF v
  <2> QED BY <1>1, <2>2
<1> HIDE DEF v
<1>4. MediaTypes(v)
  BY <1>1, <1>2, <1>3 DEF MediaTypes, MediaSameBut, MediaNames
<1> QED BY <1>1, <1>2, <1>4 DEF v

LEMMA StopRest ==
  ASSUME B!MediaAssumption, NEW w, MediaTypes(w), Orders(w), Inputs(w), Ends(w), w.main.at # "delete",
         w.main.at = "produce" => ~w.cap, NEW then
  PROVE  LET v == B!StopThen(w, then) IN
         /\ MediaTypes(v) /\ Orders(v) /\ Inputs(v) /\ Ends(v)
         /\ MediaSameBut(w, v, {"main", "todo", "then"}) /\ v.main.at = "stop outputs"
<1> DEFINE v == B!StopThen(w, then)
<1>1. MediaTypes(v) /\ MediaSameBut(w, v, {"main", "todo", "then"}) /\ v.main.at = "stop outputs"
  BY StopThenIs
<1> HIDE DEF v
<1>2. Orders(v)
  BY <1>1 DEF Orders, MainOrder, EvOrder, InpOrder, SessionOrder, MediaSameBut, MediaNames, InStages, OutStages, B!Starts, B!Stops
<1>3. Inputs(v)
  BY <1>1 DEF Inputs, MediaSameBut, MediaNames, InStages, B!Served
<1>4. Ends(v)
  BY <1>1, EndsStay DEF MediaSameBut, MediaNames
<1> QED BY <1>1, <1>2, <1>3, <1>4 DEF v

LEMMA MediaStopKeeps ==
  ASSUME B!MediaAssumption, NEW w, MediaTypes(w), Orders(w), Inputs(w), Ends(w), w.main.at # "delete",
         w.main.at = "produce" => ~w.cap, w.main.at \notin OutStages, \A p \in Voices : VoiceInv(w, p), NEW then
  PROVE  MediaSound(B!StopThen(w, then))
<1> DEFINE v == B!StopThen(w, then)
<1>1. /\ MediaTypes(v) /\ Orders(v) /\ Inputs(v) /\ Ends(v)
      /\ MediaSameBut(w, v, {"main", "todo", "then"}) /\ v.main.at = "stop outputs"
  BY StopRest
<1> HIDE DEF v
<1>2. ASSUME NEW p \in Voices PROVE VoiceInv(v, p) /\ (Missing(v, p) => Coming(v, p))
  <2>1. \A n \in OutputFields : v[n] = w[n]
    BY <1>1 DEF MediaSameBut, MediaNames, OutputFields
  <2>2. v.main.at \notin OutStages
    BY <1>1 DEF OutStages
  <2>3. Coming(v, p)
    BY <1>1 DEF Coming, B!Stops
  <2> QED BY <2>1, <2>2, <2>3, MainMoves
<1> QED BY <1>1, <1>2 DEF MediaSound, v

(***************************************************************************)
(* Outputs.                                                                *)
(***************************************************************************)
\* The call of an activity for an output.
MediaCalls(w, who, p) == who \in {"main", "ev"} /\ p \in Voices /\ Works(w, who, p) /\ (who = "main" \/ w.sid \in {0, w.ev.sid})

\* An output that failed is gone.
LEMMA FailsKeeps ==
  ASSUME B!MediaAssumption, NEW w, MediaSound(w), NEW who, NEW p, MediaCalls(w, who, p),
         NEW x, DOMAIN x = MediaNames, MediaSameBut(w, x, {"cons"}), DOMAIN x.cons = Voices,
         \A q \in Voices \ {p} : x.cons[q] = w.cons[q]
  PROVE  MediaSound(B!OutputFails(x, who))
<1> DEFINE u == [x EXCEPT !.outs = @ \ {p}, !.nat[p] = "none",
                          !.cons[p] = B!Unconsumed(x, p), !.known = @ \ {p}]
           v == B!OutputFails(x, who)
<1>1. DOMAIN x = MediaNames /\ MediaSameBut(w, x, {"cons"}) /\ DOMAIN x.cons = Voices /\ DOMAIN x.nat = Voices
  BY DEF MediaSound, MediaTypes, MediaSameBut, MediaNames
<1>2. x[who].p = p
  BY <1>1 DEF MediaCalls, Works, MediaSameBut, MediaNames
<1>3. v = IF who = "main" THEN B!StartFails(u) ELSE [u EXCEPT !.ev = B!Idle, !.deaf = @ \cup {p}]
  BY <1>2 DEF B!OutputFails
<1> HIDE DEF v
<1>4. /\ DOMAIN u = MediaNames /\ MediaSameBut(x, u, {"outs", "nat", "cons", "known"})
      /\ u.outs = x.outs \ {p} /\ DOMAIN u.nat = DOMAIN x.nat /\ DOMAIN u.cons = DOMAIN x.cons
      /\ p \in Voices => u.nat[p] = "none"
      /\ \A q \in Voices \ {p} : u.nat[q] = x.nat[q] /\ u.cons[q] = x.cons[q]
  BY <1>1 DEF MediaSameBut, MediaNames
<1> HIDE DEF u
<1>5. /\ MediaSameBut(w, u, {"outs", "nat", "cons", "known"})
      /\ u.outs = w.outs \ {p} /\ DOMAIN u.nat = Voices /\ DOMAIN u.cons = Voices /\ u.nat[p] = "none"
      /\ \A q \in Voices \ {p} : u.nat[q] = w.nat[q] /\ u.cons[q] = w.cons[q]
  BY <1>1, <1>4 DEF MediaSound, MediaTypes, MediaCalls, MediaSameBut, MediaNames
<1>6. MediaTypes(u)
  BY <1>4, <1>5 DEF MediaSound, MediaTypes, MediaSameBut, MediaNames
<1>7. Orders(u) /\ Inputs(u) /\ Ends(u)
  <2>1. Orders(u)
    BY <1>5 DEF MediaSound, Orders, MainOrder, EvOrder, InpOrder, SessionOrder, MediaSameBut, MediaNames
  <2>2. Inputs(u)
    BY <1>5 DEF MediaSound, Inputs, B!Served, MediaSameBut, MediaNames
  <2>3. Ends(u)
    BY <1>5, EndsStay DEF MediaSound, MediaSameBut, MediaNames
  <2> QED BY <2>1, <2>2, <2>3
<1>8. CASE who = "main"
  <2>1. v = B!StopThen(u, "error")
    BY <1>3, <1>8 DEF B!StartFails
  <2>2. u.main = w.main /\ w.main.at \in OutStages
    BY <1>5, <1>8 DEF MediaCalls, Works, MediaSameBut, MediaNames
  <2>3. /\ MediaTypes(v) /\ Orders(v) /\ Inputs(v) /\ Ends(v)
        /\ MediaSameBut(u, v, {"main", "todo", "then"}) /\ v.main.at = "stop outputs"
    BY <1>6, <1>7, <2>1, <2>2, StopRest DEF OutStages
  <2>4. /\ v.sid = w.sid /\ v.srv = w.srv /\ v.outs = w.outs \ {p} /\ v.live = w.live /\ v.deaf = w.deaf
        /\ v.lvl = w.lvl /\ v.want = w.want /\ v.queue = w.queue /\ v.ev = w.ev /\ v.nat = u.nat /\ v.cons = u.cons
    BY <1>5, <2>3 DEF MediaSameBut, MediaNames
  <2>5. \A q : ~Works(v, "main", q) /\ Coming(v, q)
    BY <2>3 DEF Works, OutStages, Coming, B!Stops
  <2>6. ASSUME NEW q \in Voices PROVE VoiceInv(v, q)
    <3>1. CASE q = p
      BY <1>5, <2>4, <3>1 DEF VoiceInv, Plays, Nearly, Ending
    <3>2. CASE q # p
      <4>1. ~Works(w, "main", q)
        BY <1>8, <3>2 DEF MediaCalls, Works
      <4>2. SameFor(w, v, q)
        BY <1>5, <2>4, <2>5, <3>2, <4>1 DEF SameFor, B!Served, MediaQueued, Works
      <4> QED BY <4>2, VoiceStays DEF MediaSound
    <3> QED BY <3>1, <3>2
  <2> QED BY <2>3, <2>5, <2>6 DEF MediaSound, v
<1>9. CASE who = "ev"
  <2>1. v = [u EXCEPT !.ev = B!Idle, !.deaf = @ \cup {p}]
    BY <1>3, <1>9
  <2>2. /\ DOMAIN v = MediaNames /\ MediaSameBut(u, v, {"ev", "deaf"}) /\ v.ev = B!Idle /\ v.deaf = u.deaf \cup {p}
    BY <1>4, <2>1 DEF MediaSameBut, MediaNames
  <2>3. /\ v.sid = w.sid /\ v.srv = w.srv /\ v.outs = w.outs \ {p} /\ v.live = w.live /\ v.deaf = w.deaf \cup {p}
        /\ v.lvl = w.lvl /\ v.want = w.want /\ v.queue = w.queue /\ v.main = w.main /\ v.nat = u.nat
        /\ v.cons = u.cons /\ v.todo = w.todo
    BY <1>5, <2>2 DEF MediaSameBut, MediaNames
  <2>4. B!Idle.at = "idle" /\ B!Idle.p = 0 /\ Activity(B!Idle)
    BY DEF B!Idle, Activity
  <2>5. MediaTypes(v)
    BY <1>6, <2>2, <2>4 DEF MediaTypes, MediaSameBut, MediaNames
  <2>6. Orders(v)
    BY <1>7, <2>2, <2>4 DEF Orders, MainOrder, EvOrder, InpOrder, SessionOrder, MediaSameBut, MediaNames
  <2>7. Inputs(v)
    BY <1>7, <2>2 DEF Inputs, B!Served, MediaSameBut, MediaNames
  <2>8. Ends(v)
    BY <1>7, <2>2, EndsStay DEF MediaSameBut, MediaNames
  <2>9. \A q : ~Works(v, "ev", q)
    BY <2>2, <2>4 DEF Works, OutStages
  <2>10. ASSUME NEW q \in Voices PROVE VoiceInv(v, q) /\ (Missing(v, q) => Coming(v, q))
    <3>1. CASE q = p
      BY <1>5, <2>3, <3>1 DEF VoiceInv, Plays, Nearly, Ending, Missing
    <3>2. CASE q # p
      <4>1. ~Works(w, "ev", q)
        BY <1>9, <3>2 DEF MediaCalls, Works
      <4>2. SameFor(w, v, q)
        BY <1>5, <2>3, <2>9, <3>2, <4>1 DEF SameFor, B!Served, MediaQueued, Works
      <4>3. Coming(w, q) <=> Coming(v, q)
        BY <2>3 DEF Coming, InTodo
      <4> QED BY <4>2, <4>3, VoiceStays DEF MediaSound
    <3> QED BY <3>1, <3>2
  <2> QED BY <2>5, <2>6, <2>7, <2>8, <2>10 DEF MediaSound, v
<1> QED BY <1>8, <1>9 DEF MediaCalls
\* What a failure makes of the consumers.
LEMMA FailedCons ==
  ASSUME NEW w, MediaTypes(w), NEW who, NEW p, MediaCalls(w, who, p)
  PROVE  LET v == B!OutputFails(w, who) IN
         DOMAIN v.cons = Voices /\ \A q \in Voices \ {p} : v.cons[q] = w.cons[q]
<1> DEFINE u == [w EXCEPT !.outs = @ \ {p}, !.nat[p] = "none",
                          !.cons[p] = B!Unconsumed(w, p), !.known = @ \ {p}]
           v == B!OutputFails(w, who)
<1>1. w[who].p = p
  BY DEF MediaCalls, Works
<1>2. v = IF who = "main" THEN B!StartFails(u) ELSE [u EXCEPT !.ev = B!Idle, !.deaf = @ \cup {p}]
  BY <1>1 DEF B!OutputFails
<1> HIDE DEF v
<1>3. DOMAIN u = MediaNames /\ DOMAIN u.cons = Voices /\ \A q \in Voices \ {p} : u.cons[q] = w.cons[q]
  BY DEF MediaTypes, MediaNames
<1> HIDE DEF u
<1>4. v.cons = u.cons
  <2>1. CASE who = "main"
    BY <1>2, <1>3, <2>1 DEF B!StartFails, B!StopThen, MediaNames
  <2>2. CASE who # "main"
    BY <1>2, <1>3, <2>2 DEF MediaNames
  <2> QED BY <2>1, <2>2
<1> QED BY <1>3, <1>4 DEF v

\* A call for an output is answered, and the next one is due.
MediaGoesOn(w, v, who, p, at) ==
  /\ at \in OutStages /\ DOMAIN v = MediaNames /\ MediaSameBut(w, v, {who, "nat", "lvl", "cons", "known"})
  /\ v[who] = [w[who] EXCEPT !.at = at]
  /\ DOMAIN v.nat = Voices /\ DOMAIN v.lvl = Voices /\ DOMAIN v.cons = Voices
  /\ \A q \in Voices \ {p} : v.nat[q] = w.nat[q] /\ v.lvl[q] = w.lvl[q] /\ v.cons[q] = w.cons[q]
  /\ at = "level" => v.cons[p] = "on"
  /\ w[who].at \in {"reserve", "create"} => at \in {"reserve", "create"} \/ p \in w.live
LEMMA GoesOnKeeps ==
  ASSUME NEW w, MediaSound(w), NEW who, NEW p, MediaCalls(w, who, p), NEW at, NEW v, MediaGoesOn(w, v, who, p, at)
  PROVE  MediaSound(v)
<1> USE DEF MediaGoesOn
<1>1. /\ v.sid = w.sid /\ v.srv = w.srv /\ v.outs = w.outs /\ v.live = w.live /\ v.deaf = w.deaf
      /\ v.want = w.want /\ v.queue = w.queue /\ v.todo = w.todo /\ v.inp = w.inp /\ v.next = w.next
      /\ v.cap = w.cap /\ v.input = w.input /\ v.prod = w.prod /\ v.ready = w.ready
      /\ who # "main" => v.main = w.main
      /\ who # "ev" => v.ev = w.ev
  BY DEF MediaCalls, MediaSameBut, MediaNames
<1>2. Activity(v[who]) /\ v[who].at = at /\ v[who].p = p /\ w[who].p = p /\ w[who].at \in OutStages
  BY DEF MediaCalls, Works, MediaSound, MediaTypes, Activity
<1>8. \/ /\ who = "main" /\ v.main.at = at /\ v.main.p = p /\ w.main.at \in OutStages /\ w.main.p = p /\ v.ev = w.ev
         /\ Activity(v.main)
      \/ /\ who = "ev" /\ v.ev.at = at /\ v.ev.p = p /\ w.ev.at \in OutStages /\ w.ev.p = p /\ v.main = w.main
         /\ Activity(v.ev)
  BY <1>1, <1>2 DEF MediaCalls
<1>9. p \in Voices /\ at \notin InStages /\ at # "produce" /\ at # "delete" /\ at # "register" /\ at # "idle" /\ at \in B!Starts
  BY DEF MediaCalls, OutStages, InStages, B!Starts
<1>3. MediaTypes(v)
  BY <1>1, <1>8 DEF MediaSound, MediaTypes
<1>4. Orders(v)
  <2>1. MainOrder(v)
    BY <1>1, <1>8, <1>9 DEF MediaSound, Orders, MainOrder, OutStages, B!Starts
  <2>2. EvOrder(v)
    BY <1>1, <1>8, <1>9 DEF MediaSound, Orders, EvOrder
  <2>3. InpOrder(v)
    BY <1>1, <1>8, <1>9 DEF MediaSound, Orders, InpOrder
  <2>4. SessionOrder(v)
    BY <1>1 DEF MediaSound, Orders, SessionOrder
  <2> QED BY <2>1, <2>2, <2>3, <2>4 DEF Orders
<1>5. Inputs(v)
  BY <1>1, <1>8, <1>9 DEF MediaSound, Inputs, B!Served, OutStages, InStages
<1>6. Ends(v)
  BY <1>1, EndsStay DEF MediaSound
<1>7. ASSUME NEW q \in Voices PROVE VoiceInv(v, q) /\ (Missing(v, q) => Coming(v, q))
  <2>1. Coming(w, q) => Coming(v, q)
    <3>1. CASE v.main = w.main
      BY <1>1, <3>1 DEF Coming, InTodo
    <3>2. CASE w.main.at \in OutStages /\ v.main.at \in OutStages
      BY <1>1, <3>2 DEF Coming, InTodo, OutStages, Before, B!Stops
    <3> QED BY <1>8, <3>1, <3>2
  <2>2. CASE q # p
    <3>1. SameFor(w, v, q)
      BY <1>1, <1>8, <2>2 DEF SameFor, B!Served, MediaQueued, Works
    <3> QED BY <2>1, <3>1, VoiceStays DEF MediaSound
  <2>3. CASE q = p
    <3>1. Works(w, who, p) /\ Works(v, who, p) /\ Worked(v, p) /\ VoiceInv(w, p)
      BY <1>2 DEF Works, Worked, MediaCalls, MediaSound
    <3>2. MediaQueued(v, "closed", p) <=> MediaQueued(w, "closed", p)
      BY <1>1 DEF MediaQueued
    <3>3. Nearly(v, "main", "ev", p) /\ Nearly(v, "ev", "main", p)
      BY <1>8, <3>1 DEF Nearly, Heard, MediaCalls
    <3>4. Ending(v, p)
      BY <1>1, <1>8, <3>1, <3>2 DEF VoiceInv, Ending, Works, MediaCalls, B!Served
    <3>5. Missing(v, p) => Missing(w, p)
      BY <1>1 DEF Missing, B!Served, MediaQueued
    <3> QED BY <2>1, <2>3, <3>1, <3>3, <3>4, <3>5 DEF VoiceInv, Plays, MediaSound
  <2> QED BY <2>2, <2>3
<1> QED BY <1>3, <1>4, <1>5, <1>6, <1>7 DEF MediaSound

\* The last call.
LEMMA LevelledKeeps ==
  ASSUME B!MediaAssumption, NEW w, MediaSound(w), NEW who, NEW p, MediaCalls(w, who, p), w[who].at = "level", ~B!Levelled(w, who).leaked
  PROVE  MediaSound(B!Levelled(w, who))
<1> DEFINE x == [w EXCEPT !.lvl[p] = B!LevelOf(w, p), !.deaf = @ \ {p}, !.leaked = @ \/ p \notin w.outs]
           v == B!Levelled(w, who)
<1>1. w[who].p = p
  BY DEF MediaCalls, Works
<1>2. v = IF w.nat[p] # "active" THEN B!OutputFails(w, who)
          ELSE IF who = "main" THEN [x EXCEPT !.main.at = "next"] ELSE [x EXCEPT !.ev = B!Idle]
  BY <1>1 DEF B!Levelled
<1> HIDE DEF v
<1>3. CASE w.nat[p] # "active"
  <2>1. DOMAIN w = MediaNames /\ MediaSameBut(w, w, {"cons"}) /\ DOMAIN w.cons = Voices
    BY DEF MediaSound, MediaTypes, MediaSameBut
  <2> QED BY <1>2, <1>3, <2>1, FailsKeeps DEF v
<1>4. CASE w.nat[p] = "active"
  <2>1. /\ DOMAIN x = MediaNames /\ MediaSameBut(w, x, {"lvl", "deaf", "leaked"})
        /\ DOMAIN x.lvl = Voices /\ x.deaf = w.deaf \ {p} /\ x.leaked = (w.leaked \/ p \notin w.outs)
        /\ x.lvl[p] = w.want[p] /\ \A q \in Voices \ {p} : x.lvl[q] = w.lvl[q]
    BY DEF MediaSound, MediaTypes, MediaSameBut, MediaNames, B!LevelOf, MediaCalls
  <2> HIDE DEF x
  <2>2. /\ DOMAIN v = MediaNames /\ MediaSameBut(x, v, {who})
        /\ who = "main" => v.main = [w.main EXCEPT !.at = "next"]
        /\ who = "ev" => v.ev = B!Idle
    BY <1>2, <1>4, <2>1 DEF MediaSameBut, MediaNames, MediaCalls
  <2>3. /\ v.sid = w.sid /\ v.srv = w.srv /\ v.outs = w.outs /\ v.live = w.live /\ v.deaf = w.deaf \ {p}
        /\ v.want = w.want /\ v.queue = w.queue /\ v.todo = w.todo /\ v.inp = w.inp /\ v.next = w.next
        /\ v.cap = w.cap /\ v.input = w.input /\ v.prod = w.prod /\ v.ready = w.ready /\ v.lvl = x.lvl
        /\ v.nat = w.nat /\ v.cons = w.cons /\ v.leaked = x.leaked
        /\ who # "main" => v.main = w.main
        /\ who # "ev" => v.ev = w.ev
    BY <2>1, <2>2 DEF MediaCalls, MediaSameBut, MediaNames
  <2>4. B!Idle.at = "idle" /\ B!Idle.p = 0 /\ Activity(B!Idle)
    BY DEF B!Idle, Activity
  <2>5. who = "main" => Activity(v.main) /\ v.main.at = "next" /\ w.main.at = "level"
    BY <2>2 DEF MediaSound, MediaTypes, Activity
  <2>13. \/ /\ who = "main" /\ v.main.at = "next" /\ w.main.at = "level" /\ w.main.p = p /\ v.ev = w.ev
            /\ Activity(v.main)
         \/ who = "ev" /\ v.ev = B!Idle /\ w.ev.at = "level" /\ w.ev.p = p /\ v.main = w.main
    BY <1>1, <2>2, <2>3, <2>5 DEF MediaCalls
  <2>6. MediaTypes(v)
    BY <2>1, <2>2, <2>3, <2>4, <2>13 DEF MediaSound, MediaTypes
  <2>7. Orders(v)
    <3>1. MainOrder(v)
      BY <2>3, <2>13 DEF MediaSound, Orders, MainOrder, OutStages, B!Starts
    <3>2. EvOrder(v)
      BY <2>3, <2>4, <2>13 DEF MediaSound, Orders, EvOrder
    <3>3. InpOrder(v)
      BY <2>3, <2>13 DEF MediaSound, Orders, InpOrder, InStages
    <3>4. SessionOrder(v)
      BY <2>3 DEF MediaSound, Orders, SessionOrder
    <3> QED BY <3>1, <3>2, <3>3, <3>4 DEF Orders
  <2>8. Inputs(v)
    BY <2>3, <2>13 DEF MediaSound, Inputs, B!Served, OutStages, InStages
  <2>9. Ends(v)
    BY <2>3, EndsStay DEF MediaSound
  <2>10. p \in w.outs
    BY <2>1, <2>3 DEF v
  <2>11. \A q : ~Works(v, who, q)
    BY <2>2, <2>4, <2>5 DEF Works, OutStages, MediaCalls
  <2>12. ASSUME NEW q \in Voices PROVE VoiceInv(v, q) /\ (Missing(v, q) => Coming(v, q))
    <3>1. Coming(w, q) => Coming(v, q)
      BY <2>3, <2>13 DEF Coming, InTodo, OutStages, Before, B!Stops
    <3>2. CASE q # p
      <4>1. SameFor(w, v, q)
        BY <2>1, <2>3, <2>11, <2>13, <3>2 DEF SameFor, B!Served, MediaQueued, Works
      <4> QED BY <3>1, <4>1, VoiceStays DEF MediaSound
    <3>3. CASE q = p
      <4>1. Works(w, who, p) /\ VoiceInv(w, p)
        BY DEF MediaCalls, MediaSound
      <4>2. /\ MediaQueued(v, "closed", p) <=> MediaQueued(w, "closed", p)
            /\ Heard(v, p) <=> Heard(w, p)
            /\ B!Served(v) <=> B!Served(w)
        BY <2>3 DEF MediaQueued, Heard, B!Served
      <4>3. Plays(v, p)
        BY <1>4, <2>1, <2>3, <4>1, <4>2 DEF VoiceInv, Nearly, Plays, Worked, Works, MediaCalls
      <4>4. Nearly(v, "main", "ev", p) /\ Nearly(v, "ev", "main", p)
        BY <1>4, <2>3, <2>10, <2>11, <4>1, <4>2 DEF VoiceInv, Nearly, Works, MediaCalls
      <4>5. Ending(v, p)
        BY <2>3, <2>5, <4>1, <4>2 DEF VoiceInv, Ending, Works, MediaCalls
      <4>6. p \in v.outs /\ p \notin v.deaf
        BY <2>3, <2>10
      <4> QED BY <3>3, <4>3, <4>4, <4>5, <4>6 DEF VoiceInv, Missing
    <3> QED BY <3>2, <3>3
  <2> QED BY <2>6, <2>7, <2>8, <2>9, <2>12 DEF MediaSound, v
<1> QED BY <1>3, <1>4
\* Consumers of other producers stay.
ConsOf(w, v, p) == DOMAIN v.cons = Voices /\ \A q \in Voices \ {p} : v.cons[q] = w.cons[q]

LEMMA FailureKeeps ==
  ASSUME B!MediaAssumption, NEW w, MediaSound(w), NEW who, NEW p, MediaCalls(w, who, p)
  PROVE  MediaSound(B!OutputFails(w, who)) /\ ConsOf(w, B!OutputFails(w, who), p)
<1>1. DOMAIN w = MediaNames /\ MediaSameBut(w, w, {"cons"}) /\ DOMAIN w.cons = Voices /\ MediaTypes(w)
  BY DEF MediaSound, MediaTypes, MediaSameBut
<1>2. MediaSound(B!OutputFails(w, who))
  BY <1>1, FailsKeeps
<1>3. ConsOf(w, B!OutputFails(w, who), p)
  BY <1>1, FailedCons DEF ConsOf
<1> QED BY <1>2, <1>3

\* A step of a call, of which a field of its own is left to say.
LEMMA NextCall ==
  ASSUME NEW w, MediaSound(w), NEW who, NEW p, MediaCalls(w, who, p), NEW at \in OutStages,
         NEW x, DOMAIN x = MediaNames, MediaSameBut(w, x, {"nat", "lvl", "cons", "known"}),
         DOMAIN x.nat = Voices, DOMAIN x.lvl = Voices, DOMAIN x.cons = Voices,
         \A q \in Voices \ {p} : x.nat[q] = w.nat[q] /\ x.lvl[q] = w.lvl[q] /\ x.cons[q] = w.cons[q],
         at = "level" => x.cons[p] = "on",
         w[who].at \in {"reserve", "create"} => at \in {"reserve", "create"} \/ p \in w.live
  PROVE  LET v == B!OutputGoesOn(x, who, at) IN MediaSound(v) /\ ConsOf(w, v, p)
<1> DEFINE v == B!OutputGoesOn(x, who, at)
<1>1. x[who] = w[who] /\ who \in MediaNames /\ who \notin {"nat", "lvl", "cons", "known"}
  BY DEF MediaCalls, MediaSameBut, MediaNames
<1>2. v = [x EXCEPT ![who] = [w[who] EXCEPT !.at = at]]
  BY <1>1 DEF B!OutputGoesOn
<1> HIDE DEF v
<1>3. /\ DOMAIN v = MediaNames /\ v[who] = [w[who] EXCEPT !.at = at] /\ \A n \in MediaNames \ {who} : v[n] = x[n]
  BY <1>1, <1>2
<1>4. MediaSameBut(w, v, {who, "nat", "lvl", "cons", "known"})
  BY <1>3 DEF MediaSameBut
<1>5. v.nat = x.nat /\ v.lvl = x.lvl /\ v.cons = x.cons
  BY <1>1, <1>3 DEF MediaNames
<1>6. MediaGoesOn(w, v, who, p, at)
  BY <1>3, <1>4, <1>5 DEF MediaGoesOn
<1>8. MediaSound(v)
  BY <1>6, GoesOnKeeps
<1> QED BY <1>5, <1>8 DEF ConsOf, v

LEMMA ReservedKeeps ==
  ASSUME B!MediaAssumption, NEW w, MediaSound(w), NEW who, NEW p, MediaCalls(w, who, p), w[who].at = "reserve"
  PROVE  MediaSound(B!Reserved(w, who)) /\ ConsOf(w, B!Reserved(w, who), p)
<1> DEFINE x == [w EXCEPT !.nat[p] = "reserved"]
<1>1. B!Reserved(w, who) = IF B!Usable(w, "out") THEN B!OutputGoesOn(x, who, "create") ELSE B!OutputFails(w, who)
  BY DEF B!Reserved, MediaCalls, Works
<1>2. /\ DOMAIN x = MediaNames /\ MediaSameBut(w, x, {"nat", "lvl", "cons", "known"})
      /\ DOMAIN x.nat = Voices /\ x.lvl = w.lvl /\ x.cons = w.cons /\ \A q \in Voices \ {p} : x.nat[q] = w.nat[q]
  BY DEF MediaSound, MediaTypes, MediaSameBut, MediaNames
<1> HIDE DEF x
<1>3. "create" \in OutStages /\ DOMAIN w.lvl = Voices /\ DOMAIN w.cons = Voices
  BY DEF OutStages, MediaSound, MediaTypes
<1>4. MediaSound(B!OutputGoesOn(x, who, "create")) /\ ConsOf(w, B!OutputGoesOn(x, who, "create"), p)
  BY <1>2, <1>3, NextCall
<1> QED BY <1>1, <1>4, FailureKeeps

LEMMA CreatedKeeps ==
  ASSUME B!MediaAssumption, NEW w, MediaSound(w), NEW who, NEW p, MediaCalls(w, who, p), w[who].at = "create"
  PROVE  MediaSound(B!Created(w, who)) /\ ConsOf(w, B!Created(w, who), p)
<1> DEFINE x == [w EXCEPT !.cons[p] = "paused", !.known = IF p \in w.outs THEN @ \cup {p} ELSE @]
<1>1. B!Created(w, who) = IF B!Served(w) /\ p \in w.live THEN B!OutputGoesOn(x, who, "activate") ELSE B!OutputFails(w, who)
  BY DEF B!Created, MediaCalls, Works
<1>2. /\ DOMAIN x = MediaNames /\ MediaSameBut(w, x, {"nat", "lvl", "cons", "known"})
      /\ x.nat = w.nat /\ x.lvl = w.lvl /\ DOMAIN x.cons = Voices /\ \A q \in Voices \ {p} : x.cons[q] = w.cons[q]
  BY DEF MediaSound, MediaTypes, MediaSameBut, MediaNames
<1> HIDE DEF x
<1>3. "activate" \in OutStages /\ DOMAIN w.lvl = Voices /\ DOMAIN w.nat = Voices
  BY DEF OutStages, MediaSound, MediaTypes
<1>4. ASSUME p \in w.live
      PROVE  MediaSound(B!OutputGoesOn(x, who, "activate")) /\ ConsOf(w, B!OutputGoesOn(x, who, "activate"), p)
  BY <1>2, <1>3, <1>4, NextCall
<1> QED BY <1>1, <1>4, FailureKeeps

LEMMA ActivatedKeeps ==
  ASSUME B!MediaAssumption, NEW w, MediaSound(w), NEW who, NEW p, MediaCalls(w, who, p), w[who].at = "activate"
  PROVE  MediaSound(B!Activated(w, who)) /\ ConsOf(w, B!Activated(w, who), p)
<1> DEFINE x == [w EXCEPT !.nat[p] = "active", !.lvl[p] = 1]
<1>1. B!Activated(w, who) = IF w.nat[p] = "reserved" /\ B!Usable(w, "out") THEN B!OutputGoesOn(x, who, "resume")
                          ELSE B!OutputFails(w, who)
  BY DEF B!Activated, MediaCalls, Works
<1>2. /\ DOMAIN x = MediaNames /\ MediaSameBut(w, x, {"nat", "lvl", "cons", "known"})
      /\ DOMAIN x.nat = Voices /\ DOMAIN x.lvl = Voices /\ x.cons = w.cons
      /\ \A q \in Voices \ {p} : x.nat[q] = w.nat[q] /\ x.lvl[q] = w.lvl[q]
  BY DEF MediaSound, MediaTypes, MediaSameBut, MediaNames
<1> HIDE DEF x
<1>3. "resume" \in OutStages /\ DOMAIN w.cons = Voices
  BY DEF OutStages, MediaSound, MediaTypes
<1>4. MediaSound(B!OutputGoesOn(x, who, "resume")) /\ ConsOf(w, B!OutputGoesOn(x, who, "resume"), p)
  BY <1>2, <1>3, NextCall
<1> QED BY <1>1, <1>4, FailureKeeps

LEMMA ResumedKeeps ==
  ASSUME B!MediaAssumption, NEW w, MediaSound(w), NEW who, NEW p, MediaCalls(w, who, p), w[who].at = "resume"
  PROVE  MediaSound(B!Resumed(w, who)) /\ ConsOf(w, B!Resumed(w, who), p)
<1> DEFINE x == [w EXCEPT !.cons[p] = "on"]
<1>1. B!Resumed(w, who) = IF B!Served(w) /\ B!Shaken(w, p) THEN B!OutputGoesOn(x, who, "level") ELSE B!OutputFails(w, who)
  BY DEF B!Resumed, MediaCalls, Works
<1>2. /\ DOMAIN x = MediaNames /\ MediaSameBut(w, x, {"nat", "lvl", "cons", "known"})
      /\ x.nat = w.nat /\ x.lvl = w.lvl /\ DOMAIN x.cons = Voices /\ \A q \in Voices \ {p} : x.cons[q] = w.cons[q]
      /\ x.cons[p] = "on"
  BY DEF MediaSound, MediaTypes, MediaSameBut, MediaNames, MediaCalls
<1> HIDE DEF x
<1>3. "level" \in OutStages /\ DOMAIN w.lvl = Voices /\ DOMAIN w.nat = Voices
  BY DEF OutStages, MediaSound, MediaTypes
<1>4. MediaSound(B!OutputGoesOn(x, who, "level")) /\ ConsOf(w, B!OutputGoesOn(x, who, "level"), p)
  BY <1>2, <1>3, NextCall
<1> QED BY <1>1, <1>4, FailureKeeps

LEMMA LevelledCons ==
  ASSUME B!MediaAssumption, NEW w, MediaSound(w), NEW who, NEW p, MediaCalls(w, who, p)
  PROVE  ConsOf(w, B!Levelled(w, who), p)
<1> DEFINE v == B!Levelled(w, who)
<1>1. CASE w.nat[p] # "active"
  <2>1. v = B!OutputFails(w, who)
    BY <1>1 DEF B!Levelled, MediaCalls, Works
  <2> QED BY <2>1, FailureKeeps
<1>2. CASE w.nat[p] = "active"
  <2>1. v.cons = w.cons
    BY <1>2 DEF B!Levelled, MediaCalls, Works, MediaSound, MediaTypes, MediaNames
  <2> QED BY <2>1 DEF ConsOf, MediaSound, MediaTypes
<1> QED BY <1>1, <1>2

LEMMA OutputCallKeeps ==
  ASSUME B!MediaAssumption, MediaSound(world), NEW who \in {"main", "ev"}, B!OutputCall(who), ~world'.leaked
  PROVE  MediaSound(world')
<1> DEFINE at == world[who].at
           p == world[who].p
           done == CASE at = "reserve" -> B!Reserved(world, who)
                     [] at = "create" -> B!Created(world, who)
                     [] at = "activate" -> B!Activated(world, who)
                     [] at = "resume" -> B!Resumed(world, who)
                     [] at = "level" -> B!Levelled(world, who)
           lost == [world EXCEPT !.cons = done.cons]
<1>1. /\ at \in OutStages /\ B!Own(who)
      /\ world' = done \/ world' = B!OutputFails(world, who) \/ world' = B!OutputFails(lost, who)
  BY DEF B!OutputCall, OutStages
<1>2. MediaCalls(world, who, p)
  BY <1>1 DEF MediaCalls, Works, B!Own, MediaSound, Orders, MainOrder, EvOrder, OutStages
<1>3. ConsOf(world, done, p) /\ (~done.leaked => MediaSound(done))
  <2> HIDE DEF p
  <2>1. CASE at = "reserve"
    BY <1>2, <2>1, ReservedKeeps
  <2>2. CASE at = "create"
    BY <1>2, <2>2, CreatedKeeps
  <2>3. CASE at = "activate"
    BY <1>2, <2>3, ActivatedKeeps
  <2>4. CASE at = "resume"
    BY <1>2, <2>4, ResumedKeeps
  <2>5. CASE at = "level"
    BY <1>2, <2>5, LevelledCons, LevelledKeeps
  <2> QED BY <1>1, <2>1, <2>2, <2>3, <2>4, <2>5 DEF OutStages
<1> HIDE DEF done, at, p
<1>4. CASE world' = done
  BY <1>3, <1>4
<1>5. CASE world' = B!OutputFails(world, who)
  BY <1>2, <1>5, FailureKeeps
<1>6. CASE world' = B!OutputFails(lost, who)
  <2>1. DOMAIN lost = MediaNames /\ MediaSameBut(world, lost, {"cons"}) /\ lost.cons = done.cons
    BY DEF MediaSound, MediaTypes, MediaSameBut, MediaNames
  <2> HIDE DEF lost
  <2> QED BY <1>2, <1>3, <1>6, <2>1, FailsKeeps DEF ConsOf
<1> QED BY <1>1, <1>4, <1>5, <1>6

(***************************************************************************)
(* What is no matter of outputs.                                           *)
(***************************************************************************)
MainFields == {"main", "todo", "ready", "cap", "input", "path", "prod", "inp", "then", "dev", "leaked", "known", "next"}

\* The main activity goes from one step to another, and works on no output.
LEMMA MainKeeps ==
  ASSUME NEW w, MediaSound(w), NEW v, MediaTypes(v), Orders(v), Inputs(v), MediaSameBut(w, v, MainFields),
         w.main.at \notin OutStages, v.main.at \notin OutStages,
         \A p \in Voices : Missing(w, p) => Coming(v, p)
  PROVE  MediaSound(v)
<1>1. \A n \in OutputFields : v[n] = w[n]
  BY DEF MediaSameBut, MediaNames, OutputFields, MainFields
<1>2. Ends(v)
  BY <1>1, EndsStay DEF MediaSound, OutputFields
<1>3. \A p \in Voices : VoiceInv(v, p) /\ (Missing(v, p) => Missing(w, p))
  BY <1>1, MainMoves DEF MediaSound
<1> QED BY <1>2, <1>3 DEF MediaSound

\* The main activity does nothing.
SideFields == {"ready", "cap", "input", "path", "prod", "inp", "dev"}
LEMMA SideKeeps ==
  ASSUME NEW w, MediaSound(w), NEW v, MediaTypes(v), Orders(v), Inputs(v), MediaSameBut(w, v, SideFields)
  PROVE  MediaSound(v)
<1>1. (\A n \in OutputFields : v[n] = w[n]) /\ v.main = w.main /\ v.todo = w.todo
  BY DEF MediaSameBut, MediaNames, OutputFields, SideFields
<1>2. Ends(v)
  BY <1>1, EndsStay DEF MediaSound, OutputFields
<1>3. \A p \in Voices : VoiceInv(v, p) /\ (Missing(v, p) => Missing(w, p))
  BY <1>1, MediaAside DEF MediaSound
<1>4. \A p : Coming(w, p) => Coming(v, p)
  BY <1>1 DEF Coming, InTodo
<1> QED BY <1>2, <1>3, <1>4 DEF MediaSound

\* A step of the main activity alone.
LEMMA StepKeeps ==
  ASSUME NEW w, MediaSound(w), NEW v, DOMAIN v = MediaNames, MediaSameBut(w, v, {"main", "todo"}), Activity(v.main), MainOrder(v),
         v.todo \in Seq(Voices), w.main.at \notin OutStages \cup {"produce", "delete"},
         v.main.at \notin OutStages \cup InStages \cup {"delete"},
         \A p \in Voices : Missing(w, p) => Coming(v, p)
  PROVE  MediaSound(v)
<1>1. \A n \in MediaNames \ {"main", "todo"} : v[n] = w[n]
  BY DEF MediaSameBut
<1>2. /\ v.sid = w.sid /\ v.ready = w.ready /\ v.input = w.input /\ v.ev = w.ev /\ v.inp = w.inp /\ v.cap = w.cap
      /\ v.srv = w.srv /\ v.next = w.next /\ v.prod = w.prod /\ v.queue = w.queue /\ v.outs = w.outs
  BY <1>1 DEF MediaNames
<1>3. MediaTypes(v)
  BY <1>1 DEF MediaSound, MediaTypes, MediaNames
<1>4. Orders(v)
  BY <1>2 DEF MediaSound, Orders, EvOrder, InpOrder, SessionOrder
<1>5. Inputs(v)
  BY <1>2 DEF MediaSound, Inputs, B!Served
<1>6. MediaSameBut(w, v, MainFields)
  BY DEF MediaSameBut, MainFields
<1> QED BY <1>3, <1>4, <1>5, <1>6, MainKeeps

LEMMA MediaStartKeeps ==
  ASSUME B!MediaAssumption, MediaSound(world), B!Start
  PROVE  MediaSound(world')
<1> DEFINE w == world
           v == [w EXCEPT !.main = [B!Idle EXCEPT !.at = "register"]]
<1>0. w.main = B!Idle /\ w.main.at = "idle" /\ w.main.p = 0
  BY DEF B!Start, B!Idle
<1>1. CASE w.sid # 0 \/ w.outs # {}
  <2>1. world' = B!StopThen(w, "start")
    BY <1>1 DEF B!Start
  <2>2. MediaSound(B!StopThen(w, "start"))
    BY <1>0, MediaStopKeeps DEF MediaSound, OutStages
  <2> QED BY <2>1, <2>2
<1>2. CASE w.sid = 0 /\ w.outs = {}
  <2>1. world' = v
    BY <1>2 DEF B!Start
  <2>2. /\ DOMAIN v = MediaNames /\ MediaSameBut(w, v, {"main", "todo"}) /\ Activity(v.main) /\ v.todo \in Seq(Voices)
        /\ v.main.at = "register" /\ v.sid = 0
    BY <1>2 DEF MediaSound, MediaTypes, MediaSameBut, MediaNames, Activity, B!Idle
  <2> HIDE DEF v
  <2>3. MainOrder(v) /\ \A p : Coming(v, p)
    BY <2>2 DEF MainOrder, B!Starts, OutStages, Coming, Before
  <2>4. w.main.at \notin OutStages \cup {"produce", "delete"} /\ v.main.at \notin OutStages \cup InStages \cup {"delete"}
    BY <1>0, <2>2 DEF OutStages, InStages
  <2>5. MediaSound(v)
    BY <2>2, <2>3, <2>4, StepKeeps
  <2> QED BY <2>1, <2>5
<1> QED BY <1>1, <1>2

LEMMA ReadyKeeps ==
  ASSUME B!MediaAssumption, MediaSound(world), B!Ready
  PROVE  MediaSound(world')
<1> DEFINE w == world
           v == [w EXCEPT !.ready = TRUE, !.main.at = "list"]
<1>1. w.main.at = "ready" /\ world' = v
  BY DEF B!Ready
<1>2. /\ DOMAIN v = MediaNames /\ MediaSameBut(w, v, {"main", "ready"}) /\ Activity(v.main) /\ v.main.at = "list"
  BY DEF MediaSound, MediaTypes, MediaSameBut, MediaNames, Activity
<1> HIDE DEF v
<1>3. \A n \in MediaNames \ {"main", "ready"} : v[n] = w[n]
  BY <1>2 DEF MediaSameBut
<1>4. /\ v.sid = w.sid /\ v.input = w.input /\ v.ev = w.ev /\ v.inp = w.inp /\ v.cap = w.cap
      /\ v.srv = w.srv /\ v.next = w.next /\ v.prod = w.prod /\ v.queue = w.queue /\ v.outs = w.outs
  BY <1>3 DEF MediaNames
<1>5. MediaTypes(v)
  BY <1>2, <1>3 DEF MediaSound, MediaTypes, MediaNames
<1>6. Orders(v)
  BY <1>1, <1>2, <1>4 DEF MediaSound, Orders, MainOrder, EvOrder, InpOrder, SessionOrder, B!Starts, OutStages, InStages
<1>7. Inputs(v)
  BY <1>1, <1>2, <1>4 DEF MediaSound, Inputs, B!Served, InStages
<1>8. MediaSameBut(w, v, MainFields)
  BY <1>2 DEF MediaSameBut, MainFields
<1>9. w.main.at \notin OutStages /\ v.main.at \notin OutStages /\ \A p : Coming(v, p)
  BY <1>1, <1>2 DEF OutStages, Coming, Before
<1>10. MediaSound(v)
  BY <1>5, <1>6, <1>7, <1>8, <1>9, MainKeeps
<1> QED BY <1>1, <1>10

(***************************************************************************)
(* The outputs a session begins with.                                      *)
(***************************************************************************)
\* The main activity takes up the next producer.
LEMMA BeginsKeeps ==
  ASSUME NEW w, MediaSound(w), w.main.at \in {"list", "next"}, w.todo # <<>>, Head(w.todo) \notin w.outs,
         \A q \in Voices : Missing(w, q) => InTodo(w, q)
  PROVE  MediaSound(B!OutputBegins([w EXCEPT !.todo = Tail(@)], "main", Head(w.todo)))
<1> DEFINE p == Head(w.todo)
           t == Tail(w.todo)
           v == B!OutputBegins([w EXCEPT !.todo = Tail(@)], "main", p)
<1>0. /\ p \in Voices /\ p = w.todo[1] /\ t \in Seq(Voices)
      /\ \A i \in DOMAIN w.todo : i # 1 => i - 1 \in DOMAIN t /\ t[i - 1] = w.todo[i]
  BY MediaTailIs DEF MediaSound, MediaTypes
<1>1. /\ DOMAIN v = MediaNames /\ MediaSameBut(w, v, {"main", "todo", "outs", "known"})
      /\ v.main = [at |-> "reserve", p |-> p, sid |-> w.sid] /\ v.todo = t /\ v.outs = w.outs \cup {p}
  <2> HIDE DEF p, t
  <2>1. p \notin w.outs /\ DOMAIN w = MediaNames
    BY DEF p, MediaSound, MediaTypes
  <2>2. v = [[w EXCEPT !.todo = t] EXCEPT !.outs = @ \cup {p}, !.known = @ \ {p},
                                          !.main = [at |-> "reserve", p |-> p, sid |-> w.sid]]
    BY <2>1 DEF B!OutputBegins, t, MediaNames
  <2> QED BY <2>1, <2>2 DEF MediaSameBut, MediaNames
<1> HIDE DEF v, p, t
<1>2. Activity(v.main) /\ v.main.at = "reserve" /\ v.main.p = p
  BY <1>1 DEF Activity
<1>3. \A n \in MediaNames \ {"main", "todo", "outs", "known"} : v[n] = w[n]
  BY <1>1 DEF MediaSameBut
<1>4. /\ v.sid = w.sid /\ v.ready = w.ready /\ v.input = w.input /\ v.ev = w.ev /\ v.inp = w.inp /\ v.cap = w.cap
      /\ v.srv = w.srv /\ v.next = w.next /\ v.prod = w.prod /\ v.queue = w.queue
      /\ v.live = w.live /\ v.deaf = w.deaf /\ v.nat = w.nat /\ v.lvl = w.lvl /\ v.want = w.want /\ v.cons = w.cons
  BY <1>3 DEF MediaNames
<1>5. MediaTypes(v)
  BY <1>0, <1>1, <1>2, <1>4 DEF MediaSound, MediaTypes
<1>6. Orders(v)
  BY <1>0, <1>2, <1>4 DEF MediaSound, Orders, MainOrder, EvOrder, InpOrder, SessionOrder, B!Starts, OutStages, InStages
<1>7. Inputs(v)
  BY <1>2, <1>4 DEF MediaSound, Inputs, B!Served, InStages
<1>8. Ends(v)
  BY <1>4, EndsStay DEF MediaSound
<1>9. ASSUME NEW q \in Voices PROVE VoiceInv(v, q) /\ (Missing(v, q) => Coming(v, q))
  <2>1. Works(v, "main", q) <=> q = p
    BY <1>2 DEF Works, OutStages
  <2>2. CASE q = p
    <3>1. Works(v, "main", p) /\ v.main.at = "reserve" /\ p \in v.outs
      BY <1>1, <1>2, <2>1, <2>2
    <3> QED BY <2>2, <3>1 DEF VoiceInv, Plays, Nearly, Ending, Worked, Missing
  <2>3. CASE q # p
    <3>1. ~Works(w, "main", q)
      BY DEF Works, OutStages
    <3>2. SameFor(w, v, q)
      BY <1>1, <1>4, <2>1, <2>3, <3>1 DEF SameFor, B!Served, MediaQueued, Works
    <3>3. InTodo(w, q) => InTodo(v, q)
      BY <1>0, <1>1, <2>3 DEF InTodo
    <3>4. InTodo(v, q) => Coming(v, q)
      BY <1>2 DEF Coming, OutStages
    <3> QED BY <3>2, <3>3, <3>4, VoiceStays DEF MediaSound
  <2> QED BY <2>2, <2>3
<1> QED BY <1>5, <1>6, <1>7, <1>8, <1>9 DEF MediaSound, v, p

LEMMA MediaNextKeeps ==
  ASSUME NEW w, MediaSound(w), w.main.at \in {"list", "next"}, \A q \in Voices : Missing(w, q) => InTodo(w, q)
  PROVE  MediaSound(B!NextOutput(w))
<1>1. CASE w.todo = <<>>
  <2> DEFINE v == [w EXCEPT !.main = B!Idle]
  <2>1. B!NextOutput(w) = v
    BY <1>1 DEF B!NextOutput
  <2>2. /\ DOMAIN v = MediaNames /\ MediaSameBut(w, v, {"main", "todo"}) /\ Activity(v.main) /\ v.todo \in Seq(Voices)
        /\ v.main.at = "idle"
    BY DEF MediaSound, MediaTypes, MediaSameBut, MediaNames, Activity, B!Idle
  <2> HIDE DEF v
  <2>3. MainOrder(v)
    BY <2>2 DEF MainOrder, B!Starts, OutStages
  <2>4. w.main.at \notin OutStages \cup {"produce", "delete"} /\ v.main.at \notin OutStages \cup InStages \cup {"delete"}
    BY <2>2 DEF OutStages, InStages
  <2>5. \A p \in Voices : ~Missing(w, p)
    BY <1>1 DEF InTodo
  <2>6. MediaSound(v)
    BY <2>2, <2>3, <2>4, <2>5, StepKeeps
  <2> QED BY <2>1, <2>6
<1>2. CASE w.todo # <<>> /\ Head(w.todo) \notin w.outs
  <2>1. B!NextOutput(w) = B!OutputBegins([w EXCEPT !.todo = Tail(@)], "main", Head(w.todo))
    BY <1>2 DEF B!NextOutput
  <2> QED BY <1>2, <2>1, BeginsKeeps
<1>3. CASE w.todo # <<>> /\ Head(w.todo) \in w.outs
  <2> DEFINE u == [w EXCEPT !.todo = Tail(@)]
             v == [u EXCEPT !.main.at = "next"]
  <2>1. B!NextOutput(w) = v
    BY <1>3 DEF B!NextOutput, B!OutputBegins, MediaSound, MediaTypes, MediaNames
  <2>2. /\ Head(w.todo) = w.todo[1] /\ Tail(w.todo) \in Seq(Voices)
        /\ \A i \in DOMAIN w.todo : i # 1 => i - 1 \in DOMAIN Tail(w.todo) /\ Tail(w.todo)[i - 1] = w.todo[i]
    BY <1>3, MediaTailIs DEF MediaSound, MediaTypes
  <2>3. /\ DOMAIN v = MediaNames /\ MediaSameBut(w, v, {"main", "todo"}) /\ Activity(v.main) /\ v.todo = Tail(w.todo)
        /\ v.main.at = "next"
    BY DEF MediaSound, MediaTypes, MediaSameBut, MediaNames, Activity
  <2> HIDE DEF u, v
  <2>4. MainOrder(v)
    <3>1. v.sid = w.sid
      BY <2>3 DEF MediaSameBut, MediaNames
    <3> QED BY <2>3, <3>1 DEF MainOrder, B!Starts, OutStages, MediaSound, Orders
  <2>5. w.main.at \notin OutStages \cup {"produce", "delete"} /\ v.main.at \notin OutStages \cup InStages \cup {"delete"}
    BY <2>3 DEF OutStages, InStages
  <2>6. ASSUME NEW p \in Voices, Missing(w, p) PROVE Coming(v, p)
    <3>1. InTodo(w, p) /\ p \notin w.outs
      BY <2>6 DEF Missing
    <3>2. PICK i \in DOMAIN w.todo : w.todo[i] = p
      BY <3>1 DEF InTodo
    <3>3. i # 1
      BY <1>3, <2>2, <3>1, <3>2
    <3>4. i - 1 \in DOMAIN Tail(w.todo) /\ Tail(w.todo)[i - 1] = p
      BY <2>2, <3>2, <3>3
    <3>5. InTodo(v, p)
      BY <2>3, <3>4 DEF InTodo
    <3> QED BY <2>3, <3>5 DEF Coming
  <2>7. MediaSound(v)
    BY <2>2, <2>3, <2>4, <2>5, <2>6, StepKeeps
  <2> QED BY <2>1, <2>7
<1> QED BY <1>1, <1>2, <1>3

LEMMA ListKeeps ==
  ASSUME B!MediaAssumption, MediaSound(world), B!List
  PROVE  MediaSound(world')
<1> DEFINE w == world
           v == [w EXCEPT !.todo = B!SetToSeq(w.live)]
<1>1. w.main.at = "list" /\ (world' = B!StartFails(w) \/ world' = B!NextOutput(v))
  BY DEF B!List
<1>2. CASE world' = B!StartFails(w)
  BY <1>1, <1>2, MediaStopKeeps DEF B!StartFails, MediaSound, OutStages
<1>3. CASE world' = B!NextOutput(v)
  <2>1. w.live \in SUBSET Voices /\ IsFiniteSet(w.live)
    BY VoicesFinite, FS_Subset DEF MediaSound, MediaTypes
  <2>2. B!SetToSeq(w.live) \in Seq(Voices) /\ \A p \in w.live : \E i \in DOMAIN B!SetToSeq(w.live) : B!SetToSeq(w.live)[i] = p
    BY <2>1, ToSeqIs
  <2>3. /\ DOMAIN v = MediaNames /\ MediaSameBut(w, v, {"main", "todo"}) /\ v.main = w.main /\ v.todo = B!SetToSeq(w.live)
    BY DEF MediaSound, MediaTypes, MediaSameBut, MediaNames
  <2> HIDE DEF v
  <2>4. v.sid = w.sid /\ v.live = w.live
    BY <2>3 DEF MediaSameBut, MediaNames
  <2>5. Activity(v.main) /\ MainOrder(v)
    BY <2>3, <2>4 DEF MediaSound, MediaTypes, Orders, MainOrder
  <2>6. w.main.at \notin OutStages \cup {"produce", "delete"} /\ v.main.at \notin OutStages \cup InStages \cup {"delete"}
    BY <1>1, <2>3 DEF OutStages, InStages
  <2>7. \A p : Coming(v, p)
    BY <1>1, <2>3 DEF Coming, Before
  <2>8. MediaSound(v)
    BY <2>2, <2>3, <2>5, <2>6, <2>7, StepKeeps
  <2>9. \A p \in Voices : Missing(v, p) => InTodo(v, p)
    BY <2>2, <2>3, <2>4 DEF Missing, InTodo
  <2> QED BY <1>1, <1>3, <2>3, <2>8, <2>9, MediaNextKeeps
<1> QED BY <1>1, <1>2, <1>3

LEMMA NextProducerKeeps ==
  ASSUME MediaSound(world), B!NextProducer
  PROVE  MediaSound(world')
<1>1. world.main.at = "next" /\ world' = B!NextOutput(world)
  BY DEF B!NextProducer
<1>2. \A p \in Voices : Missing(world, p) => InTodo(world, p)
  BY <1>1 DEF MediaSound, Coming, Before, B!Stops
<1> QED BY <1>1, <1>2, MediaNextKeeps

(***************************************************************************)
(* Outputs that end.                                                       *)
(***************************************************************************)
LEMMA StopsIs ==
  ASSUME NEW w, MediaTypes(w), NEW p \in Voices, p \in w.outs
  PROVE  LET v == B!OutputStops(w, p) IN
         /\ DOMAIN v = MediaNames /\ MediaSameBut(w, v, {"outs", "nat", "cons", "known"})
         /\ v.outs = w.outs \ {p} /\ DOMAIN v.nat = Voices /\ DOMAIN v.cons = Voices /\ v.nat[p] = "none"
         /\ \A q \in Voices \ {p} : v.nat[q] = w.nat[q] /\ v.cons[q] = w.cons[q]
<1> DEFINE v == B!OutputStops(w, p)
<1>1. v = [w EXCEPT !.outs = @ \ {p}, !.nat[p] = "none", !.known = @ \ {p}, !.cons[p] = B!Unconsumed(w, p)]
  BY DEF B!OutputStops
<1> HIDE DEF v
<1>2. DOMAIN v = MediaNames /\ MediaSameBut(w, v, {"outs", "nat", "cons", "known"}) /\ v.outs = w.outs \ {p}
  BY <1>1 DEF MediaTypes, MediaSameBut, MediaNames
<1>3. v.nat = [w.nat EXCEPT ![p] = "none"] /\ v.cons = [w.cons EXCEPT ![p] = B!Unconsumed(w, p)]
  BY <1>1 DEF MediaTypes, MediaNames
<1>4. /\ DOMAIN v.nat = Voices /\ DOMAIN v.cons = Voices /\ v.nat[p] = "none"
      /\ \A q \in Voices \ {p} : v.nat[q] = w.nat[q] /\ v.cons[q] = w.cons[q]
  BY <1>3 DEF MediaTypes
<1> QED BY <1>2, <1>4 DEF v

\* An output ends, and with it what has to be said of its producer, if nobody
\* misses it.
LEMMA EndKeeps ==
  ASSUME NEW w, MediaSound(w), NEW p \in Voices, p \in w.outs,
         \A q \in Voices : Coming(w, q), NEW v, v = B!OutputStops(w, p)
  PROVE  MediaSound(v)
<1>1. /\ DOMAIN v = MediaNames /\ MediaSameBut(w, v, {"outs", "nat", "cons", "known"})
      /\ v.outs = w.outs \ {p} /\ DOMAIN v.nat = Voices /\ DOMAIN v.cons = Voices /\ v.nat[p] = "none"
      /\ \A q \in Voices \ {p} : v.nat[q] = w.nat[q] /\ v.cons[q] = w.cons[q]
  BY StopsIs DEF MediaSound
<1>2. \A n \in MediaNames \ {"outs", "nat", "cons", "known"} : v[n] = w[n]
  BY <1>1 DEF MediaSameBut
<1>3. /\ v.sid = w.sid /\ v.ready = w.ready /\ v.input = w.input /\ v.ev = w.ev /\ v.inp = w.inp /\ v.cap = w.cap
      /\ v.srv = w.srv /\ v.next = w.next /\ v.prod = w.prod /\ v.queue = w.queue /\ v.main = w.main /\ v.todo = w.todo
      /\ v.live = w.live /\ v.deaf = w.deaf /\ v.lvl = w.lvl /\ v.want = w.want
  BY <1>2 DEF MediaNames
<1>4. MediaTypes(v)
  BY <1>1, <1>3 DEF MediaSound, MediaTypes
<1>5. Orders(v)
  BY <1>1, <1>3 DEF MediaSound, Orders, MainOrder, EvOrder, InpOrder, SessionOrder
<1>6. Inputs(v)
  BY <1>3 DEF MediaSound, Inputs, B!Served
<1>7. Ends(v)
  BY <1>3, EndsStay DEF MediaSound
<1>8. ASSUME NEW q \in Voices PROVE VoiceInv(v, q)
  <2>1. CASE q = p
    BY <1>1, <2>1 DEF VoiceInv, Plays, Nearly, Ending
  <2>2. CASE q # p
    <3>1. SameFor(w, v, q)
      BY <1>1, <1>3, <2>2 DEF SameFor, B!Served, MediaQueued, Works
    <3> QED BY <3>1, VoiceStays DEF MediaSound
  <2> QED BY <2>1, <2>2
<1>9. \A q \in Voices : Coming(v, q)
  BY <1>3 DEF Coming, InTodo
<1> QED BY <1>4, <1>5, <1>6, <1>7, <1>8, <1>9 DEF MediaSound

LEMMA StopOutputKeeps ==
  ASSUME MediaSound(world), B!StopOutput
  PROVE  MediaSound(world')
<1> DEFINE w == world
<1>0. w.main.at = "stop outputs"
  BY DEF B!StopOutput
<1>1. CASE w.todo = <<>>
  <2> DEFINE v == [w EXCEPT !.main.at = "stop input"]
  <2>1. world' = v
    BY <1>1 DEF B!StopOutput
  <2>2. /\ DOMAIN v = MediaNames /\ MediaSameBut(w, v, {"main", "todo"}) /\ Activity(v.main) /\ v.todo \in Seq(Voices)
        /\ v.main.at = "stop input"
    BY DEF MediaSound, MediaTypes, MediaSameBut, MediaNames, Activity
  <2> HIDE DEF v
  <2>3. MainOrder(v)
    BY <2>2 DEF MainOrder, B!Starts, B!Stops, OutStages
  <2>4. w.main.at \notin OutStages \cup {"produce", "delete"} /\ v.main.at \notin OutStages \cup InStages \cup {"delete"}
    BY <1>0, <2>2 DEF OutStages, InStages
  <2>5. \A p : Coming(v, p)
    BY <2>2 DEF Coming, B!Stops
  <2>6. MediaSound(v)
    BY <2>2, <2>3, <2>4, <2>5, StepKeeps
  <2> QED BY <2>1, <2>6
<1>2. CASE w.todo # <<>>
  <2> DEFINE u == [w EXCEPT !.todo = Tail(@)]
             p == Head(w.todo)
  <2>1. world' = B!OutputStops(u, p)
    BY <1>2 DEF B!StopOutput
  <2>2. p \in Voices /\ Tail(w.todo) \in Seq(Voices)
    BY <1>2, MediaTailIs DEF MediaSound, MediaTypes
  <2>3. /\ DOMAIN u = MediaNames /\ MediaSameBut(w, u, {"main", "todo"}) /\ u.main = w.main /\ u.todo = Tail(w.todo)
    BY DEF MediaSound, MediaTypes, MediaSameBut, MediaNames
  <2> HIDE DEF u, p
  <2>4. Activity(u.main) /\ MainOrder(u)
    BY <2>3 DEF MediaSound, MediaTypes, Orders, MainOrder, MediaSameBut, MediaNames
  <2>5. w.main.at \notin OutStages \cup {"produce", "delete"} /\ u.main.at \notin OutStages \cup InStages \cup {"delete"}
    BY <1>0, <2>3 DEF OutStages, InStages
  <2>6. \A q : Coming(u, q)
    BY <1>0, <2>3 DEF Coming, B!Stops
  <2>7. MediaSound(u)
    BY <2>2, <2>3, <2>4, <2>5, <2>6, StepKeeps
  <2>8. CASE p \in u.outs
    BY <2>1, <2>2, <2>6, <2>7, <2>8, EndKeeps
  <2>9. CASE p \notin u.outs
    BY <2>1, <2>7, <2>9 DEF B!OutputStops
  <2> QED BY <2>8, <2>9
<1> QED BY <1>1, <1>2

LEMMA StopInputKeeps ==
  ASSUME MediaSound(world), B!StopInput
  PROVE  MediaSound(world')
<1> DEFINE w == world
           v == [w EXCEPT !.cap = FALSE, !.main.at = "delete"]
<1>1. w.main.at = "stop input" /\ world' = v
  BY DEF B!StopInput
<1>2. /\ DOMAIN v = MediaNames /\ MediaSameBut(w, v, {"cap", "main"}) /\ Activity(v.main) /\ v.main.at = "delete" /\ v.cap = FALSE
  BY DEF MediaSound, MediaTypes, MediaSameBut, MediaNames, Activity
<1> HIDE DEF v
<1>3. \A n \in MediaNames \ {"cap", "main"} : v[n] = w[n]
  BY <1>2 DEF MediaSameBut
<1>4. /\ v.sid = w.sid /\ v.ready = w.ready /\ v.input = w.input /\ v.ev = w.ev /\ v.inp = w.inp
      /\ v.srv = w.srv /\ v.next = w.next /\ v.prod = w.prod /\ v.queue = w.queue /\ v.outs = w.outs
  BY <1>3 DEF MediaNames
<1>5. MediaTypes(v)
  BY <1>2, <1>3 DEF MediaSound, MediaTypes, MediaNames
<1>6. Orders(v)
  BY <1>1, <1>2, <1>4 DEF MediaSound, Orders, MainOrder, EvOrder, InpOrder, SessionOrder, B!Starts, B!Stops, OutStages, InStages
<1>7. Inputs(v)
  BY <1>1, <1>2, <1>4 DEF MediaSound, Inputs, B!Served, InStages
<1>8. MediaSameBut(w, v, MainFields)
  BY <1>2 DEF MediaSameBut, MainFields
<1>9. w.main.at \notin OutStages /\ v.main.at \notin OutStages /\ \A p : Coming(v, p)
  BY <1>1, <1>2 DEF OutStages, Coming, B!Stops
<1>10. MediaSound(v)
  BY <1>5, <1>6, <1>7, <1>8, <1>9, MainKeeps
<1> QED BY <1>1, <1>10

(***************************************************************************)
(* The session of the server.                                              *)
(***************************************************************************)
\* Another session, or none, takes the place of the one there was.
LEMMA ReplaceKeeps ==
  ASSUME NEW w, MediaSound(w), NEW v, DOMAIN v = MediaNames, MediaSameBut(w, v, {"srv", "next", "path", "prod", "cons", "queue"}),
         v.srv \in Nat, v.next \in Nat, v.srv < v.next, w.next <= v.next, ~B!Served(v),
         DOMAIN v.cons = Voices, v.queue = <<>>
  PROVE  MediaSound(v)
<1>1. \A n \in MediaNames \ {"srv", "next", "path", "prod", "cons", "queue"} : v[n] = w[n]
  BY DEF MediaSameBut
<1>2. /\ v.sid = w.sid /\ v.ready = w.ready /\ v.input = w.input /\ v.ev = w.ev /\ v.inp = w.inp /\ v.cap = w.cap
      /\ v.main = w.main /\ v.outs = w.outs /\ v.deaf = w.deaf /\ v.nat = w.nat
  BY <1>1 DEF MediaNames
<1>3. MediaTypes(v)
  BY <1>1 DEF MediaSound, MediaTypes, MediaNames
<1>4. Orders(v)
  <2>1. MainOrder(v) /\ EvOrder(v) /\ InpOrder(v)
    BY <1>2 DEF MediaSound, Orders, MainOrder, EvOrder, InpOrder
  <2>2. SessionOrder(v)
    BY <1>2 DEF MediaSound, MediaTypes, Orders, SessionOrder
  <2> QED BY <2>1, <2>2 DEF Orders
<1>5. Inputs(v)
  BY <1>2 DEF MediaSound, Inputs
<1>6. Ends(v)
  BY DEF Ends
<1>7. \A p \in Voices : VoiceInv(v, p) /\ ~Missing(v, p)
  BY <1>2, Unserved DEF MediaSound, VoiceInv, Worked, Works
<1> QED BY <1>3, <1>4, <1>5, <1>6, <1>7 DEF MediaSound

LEMMA SessionEndsKeeps ==
  ASSUME MediaSound(world), B!SessionEnds
  PROVE  MediaSound(world')
<1> DEFINE w == world
           v == B!Replace(w, 0)
<1>1. /\ DOMAIN v = MediaNames /\ MediaSameBut(w, v, {"srv", "next", "path", "prod", "cons", "queue"})
      /\ v.srv = 0 /\ v.next = w.next /\ DOMAIN v.cons = Voices /\ v.queue = <<>>
  BY DEF B!Replace, MediaSound, MediaTypes, MediaSameBut, MediaNames
<1> HIDE DEF v
<1>2. v.srv \in Nat /\ v.next \in Nat /\ v.srv < v.next /\ w.next <= v.next /\ ~B!Served(v)
  BY <1>1 DEF MediaSound, MediaTypes, Orders, SessionOrder, B!Served
<1>3. MediaSound(v)
  BY <1>1, <1>2, ReplaceKeeps
<1> QED BY <1>3 DEF B!SessionEnds, v

\* The session begins with its input, or without it.
LEMMA InputBeginsIs ==
  ASSUME NEW w, DOMAIN w = MediaNames, Activity(w.main)
  PROVE  LET v == B!InputBegins(w, "main") IN
         /\ DOMAIN v = MediaNames /\ MediaSameBut(w, v, {"main", "input"}) /\ Activity(v.main)
         /\ \/ v.input = w.input /\ v.main.at = "ready"
            \/ w.input = "off" /\ v.input = "starting" /\ v.main.at = "transport"
<1> DEFINE v == B!InputBegins(w, "main")
           x == [w EXCEPT !.main.at = "ready"]
           y == [w EXCEPT !.input = "starting", !.main = [at |-> "transport", p |-> 0, sid |-> w.sid]]
<1>1. v = x \/ (w.input = "off" /\ v = y)
  BY DEF B!InputBegins, B!InputEnds
<1>2. DOMAIN x = MediaNames /\ MediaSameBut(w, x, {"main", "input"}) /\ Activity(x.main) /\ x.input = w.input /\ x.main.at = "ready"
  BY DEF MediaSameBut, MediaNames, Activity
<1>3. /\ DOMAIN y = MediaNames /\ MediaSameBut(w, y, {"main", "input"}) /\ Activity(y.main)
      /\ y.input = "starting" /\ y.main.at = "transport"
  BY DEF MediaSameBut, MediaNames, Activity
<1> HIDE DEF x, y, v
<1>4. /\ DOMAIN v = MediaNames /\ MediaSameBut(w, v, {"main", "input"}) /\ Activity(v.main)
      /\ \/ v.input = w.input /\ v.main.at = "ready"
         \/ w.input = "off" /\ v.input = "starting" /\ v.main.at = "transport"
  BY <1>1, <1>2, <1>3
<1> QED BY <1>4 DEF v

LEMMA MediaRegisterKeeps ==
  ASSUME B!MediaAssumption, MediaSound(world), B!Register
  PROVE  MediaSound(world')
<1> DEFINE w == world
           x == B!NewSession
           u == [x EXCEPT !.sid = w.next]
           v == B!InputBegins(u, "main")
<1>1. w.main.at = "register" /\ (world' = v \/ world' = B!StartFails(w) \/ world' = B!StartFails(x))
  BY DEF B!Register
<1>2. w.main.at = "register" /\ w.sid = 0 /\ w.outs = {} /\ w.main.at \notin OutStages /\ w.next \in Nat /\ 0 < w.next
  BY <1>1 DEF MediaSound, MediaTypes, Orders, MainOrder, SessionOrder, OutStages
<1>3. /\ DOMAIN x = MediaNames /\ MediaSameBut(w, x, {"srv", "next", "path", "prod", "cons", "queue"})
      /\ x.srv = w.next /\ x.next = w.next + 1 /\ DOMAIN x.cons = Voices /\ x.queue = <<>>
  BY DEF B!NewSession, B!Replace, MediaSound, MediaTypes, MediaSameBut, MediaNames
<1> HIDE DEF x
<1>4. x.sid = 0 /\ x.main = w.main
  BY <1>2, <1>3 DEF MediaSameBut, MediaNames
<1>5. MediaSound(x)
  <2>1. x.srv \in Nat /\ x.next \in Nat /\ x.srv < x.next /\ w.next <= x.next /\ ~B!Served(x)
    BY <1>2, <1>3, <1>4 DEF B!Served
  <2> QED BY <1>3, <2>1, ReplaceKeeps
<1>6. CASE world' = B!StartFails(w)
  BY <1>1, <1>2, <1>6, MediaStopKeeps DEF B!StartFails, MediaSound
<1>7. CASE world' = B!StartFails(x)
  BY <1>2, <1>4, <1>5, <1>7, MediaStopKeeps DEF B!StartFails, MediaSound
<1>8. CASE world' = v
  <2>1. DOMAIN u = MediaNames /\ MediaSameBut(x, u, {"sid"}) /\ u.sid = w.next
    BY <1>3 DEF MediaSameBut, MediaNames
  <2> HIDE DEF u
  <2>2. Activity(u.main)
    BY <1>4, <2>1 DEF MediaSameBut, MediaNames, MediaSound, MediaTypes
  <2>3. /\ DOMAIN v = MediaNames /\ MediaSameBut(u, v, {"main", "input"}) /\ Activity(v.main)
        /\ \/ v.input = u.input /\ v.main.at = "ready"
           \/ u.input = "off" /\ v.input = "starting" /\ v.main.at = "transport"
    BY <2>1, <2>2, InputBeginsIs
  <2> HIDE DEF v
  <2>4. \A n \in MediaNames \ {"sid", "main", "input"} : v[n] = x[n]
    BY <2>1, <2>3 DEF MediaSameBut
  <2>5. /\ v.sid = w.next /\ v.ready = x.ready /\ v.ev = x.ev /\ v.inp = x.inp /\ v.cap = x.cap
        /\ v.srv = x.srv /\ v.next = x.next /\ v.prod = x.prod /\ v.queue = x.queue /\ v.outs = x.outs
        /\ v.deaf = x.deaf /\ v.nat = x.nat /\ u.input = x.input /\ v.live = x.live
    BY <2>1, <2>3, <2>4 DEF MediaSameBut, MediaNames
  <2>6. v.outs = {} /\ x.ready = w.ready /\ x.inp = w.inp
    BY <1>2, <1>3, <2>5 DEF MediaSameBut, MediaNames
  <2>7. MediaTypes(v)
    BY <1>2, <1>5, <2>3, <2>4, <2>5 DEF MediaSound, MediaTypes, MediaNames
  <2>8. v.main.at \in {"ready", "transport"} /\ x.input # "on"
    BY <1>4, <1>5, <2>3 DEF MediaSound, Inputs
  <2>9. Orders(v)
    <3>0. v.sid # 0
      BY <1>2, <2>5
    <3>1. MainOrder(v)
      BY <2>8, <3>0 DEF MainOrder, B!Starts, B!Stops, OutStages
    <3>2. EvOrder(v)
      BY <1>5, <2>5 DEF MediaSound, Orders, EvOrder
    <3>3. w.inp.sid \in Nat /\ w.inp.sid < w.next
      BY DEF MediaSound, MediaTypes, Orders, SessionOrder
    <3>4. InpOrder(v)
      BY <1>2, <1>5, <2>5, <2>6, <3>3 DEF MediaSound, Orders, InpOrder
    <3>5. SessionOrder(v)
      BY <1>2, <1>3, <1>5, <2>5, <2>6, <3>3 DEF MediaSound, MediaTypes, Orders, SessionOrder
    <3> QED BY <3>1, <3>2, <3>4, <3>5 DEF Orders
  <2>10. Inputs(v)
    BY <1>2, <1>4, <1>5, <2>3, <2>5, <2>8 DEF MediaSound, Inputs
  <2>11. Ends(v)
    BY <1>5, <2>5, EndsStay DEF MediaSound
  <2>12. ASSUME NEW p \in Voices PROVE VoiceInv(v, p) /\ Coming(v, p)
    <3>1. Works(v, "ev", p) <=> Works(x, "ev", p)
      BY <2>5 DEF Works
    <3>2. ~Works(x, "main", p) /\ x.outs = {}
      BY <1>2, <1>4, <2>5, <2>6 DEF Works
    <3> QED BY <1>5, <2>5, <2>8, <3>1, <3>2 DEF MediaSound, VoiceInv, Plays, Nearly, Ending, Worked, Coming, Before
  <2> QED BY <1>8, <2>7, <2>9, <2>10, <2>11, <2>12 DEF MediaSound
<1> QED BY <1>1, <1>6, <1>7, <1>8

\* The session is over.
LEMMA DeleteKeeps ==
  ASSUME B!MediaAssumption, MediaSound(world), B!Delete, ~world'.leaked
  PROVE  MediaSound(world')
<1> DEFINE w == world
           x(deleted) == IF deleted /\ B!Served(w) THEN B!Replace(w, 0) ELSE w
<1>1. PICK deleted \in BOOLEAN : world' = B!Stopped(w, deleted)
  BY DEF B!Delete
<1> DEFINE y == x(deleted)
           u == [y EXCEPT !.sid = 0, !.input = "off", !.outs = {}, !.known = {}, !.ready = FALSE,
                          !.leaked = @ \/ (w.cap /\ w.inp = B!Idle) \/ \E p \in w.outs : w.ev.p # p /\ w.nat[p] # "none"]
           v == IF w.then = "start" THEN [u EXCEPT !.main = [B!Idle EXCEPT !.at = "register"]] ELSE [u EXCEPT !.main = B!Idle]
<1>2. world' = v
  BY <1>1 DEF B!Stopped
<1>3. w.main.at = "delete"
  BY DEF B!Delete
<1>4. MediaSound(y) /\ MediaSameBut(w, y, {"srv", "path", "prod", "cons", "queue"})
  <2>1. CASE deleted /\ B!Served(w)
    <3>1. /\ DOMAIN y = MediaNames /\ MediaSameBut(w, y, {"srv", "next", "path", "prod", "cons", "queue"})
          /\ y.srv = 0 /\ y.next = w.next /\ DOMAIN y.cons = Voices /\ y.queue = <<>>
          /\ MediaSameBut(w, y, {"srv", "path", "prod", "cons", "queue"})
      BY <2>1 DEF B!Replace, MediaSound, MediaTypes, MediaSameBut, MediaNames
    <3> HIDE DEF y
    <3>2. y.srv \in Nat /\ y.next \in Nat /\ y.srv < y.next /\ w.next <= y.next /\ ~B!Served(y)
      BY <3>1 DEF MediaSound, MediaTypes, Orders, SessionOrder, B!Served
    <3> QED BY <3>1, <3>2, ReplaceKeeps
  <2>2. CASE ~(deleted /\ B!Served(w))
    BY <2>2 DEF MediaSameBut
  <2> QED BY <2>1, <2>2
<1> HIDE DEF y
<1>5. DOMAIN y = MediaNames
  BY <1>4 DEF MediaSound, MediaTypes
<1>6. /\ DOMAIN u = MediaNames /\ MediaSameBut(y, u, {"sid", "input", "outs", "known", "ready", "leaked"})
      /\ u.sid = 0 /\ u.input = "off" /\ u.outs = {} /\ u.known = {} /\ u.ready = FALSE
      /\ (u.leaked <=> y.leaked \/ (w.cap /\ w.inp = B!Idle) \/ \E p \in w.outs : w.ev.p # p /\ w.nat[p] # "none")
  BY <1>5 DEF MediaSameBut, MediaNames
<1> HIDE DEF u
<1>7. /\ DOMAIN v = MediaNames /\ MediaSameBut(u, v, {"main"}) /\ Activity(v.main) /\ v.main.at \in {"register", "idle"}
  BY <1>6 DEF MediaSameBut, MediaNames, Activity, B!Idle
<1> HIDE DEF v
<1>8. \A n \in MediaNames \ {"main", "sid", "input", "outs", "known", "ready", "leaked"} : v[n] = y[n]
  BY <1>6, <1>7 DEF MediaSameBut
<1>9. /\ v.sid = 0 /\ v.input = "off" /\ v.outs = {} /\ v.ready = FALSE /\ v.leaked = u.leaked
      /\ v.ev = y.ev /\ v.inp = y.inp /\ v.cap = y.cap /\ v.srv = y.srv /\ v.next = y.next /\ v.prod = y.prod
      /\ v.queue = y.queue /\ v.deaf = y.deaf /\ v.nat = y.nat /\ v.live = y.live
      /\ y.ev = w.ev /\ y.inp = w.inp /\ y.cap = w.cap /\ y.main = w.main /\ y.outs = w.outs /\ y.nat = w.nat
  BY <1>4, <1>6, <1>7, <1>8 DEF MediaSameBut, MediaNames
<1>10. MediaTypes(v)
  <2>1. v.todo = y.todo /\ v.want = y.want /\ v.lvl = y.lvl /\ v.cons = y.cons
    BY <1>8 DEF MediaNames
  <2> QED BY <1>4, <1>7, <1>9, <2>1 DEF MediaSound, MediaTypes
<1>11. Orders(v)
  <2>1. MainOrder(v)
    BY <1>7, <1>9 DEF MainOrder, B!Starts, OutStages
  <2>2. EvOrder(v) /\ InpOrder(v)
    BY <1>4, <1>7, <1>9 DEF MediaSound, Orders, EvOrder, InpOrder, InStages
  <2>3. SessionOrder(v)
    BY <1>4, <1>9 DEF MediaSound, Orders, SessionOrder
  <2> QED BY <2>1, <2>2, <2>3 DEF Orders
<1>12. Inputs(v)
  <2>1. v.cap => v.inp.at = "produce"
    BY <1>2, <1>3, <1>4, <1>6, <1>9 DEF MediaSound, Orders, InpOrder, Inputs
  <2> QED BY <1>7, <1>9, <2>1 DEF Inputs
<1>13. Ends(v)
  BY <1>4, <1>9, EndsStay DEF MediaSound
<1>14. ASSUME NEW p \in Voices PROVE VoiceInv(v, p) /\ ~Missing(v, p)
  <2>1. v.nat[p] # "none" => Works(w, "ev", p)
    <3>1. ~Works(y, "main", p) /\ (Works(y, "ev", p) <=> Works(w, "ev", p))
      BY <1>3, <1>9 DEF Works, OutStages
    <3>2. p \in w.outs /\ w.nat[p] # "none" => w.ev.p = p
      BY <1>2, <1>6, <1>9
    <3>3. w.ev.p = p => Works(w, "ev", p)
      BY DEF MediaSound, Orders, EvOrder, Works, B!MediaAssumption
    <3> QED BY <1>4, <1>9, <3>1, <3>2, <3>3 DEF MediaSound, VoiceInv, Worked
  <2>2. Works(v, "ev", p) <=> Works(w, "ev", p)
    BY <1>9 DEF Works
  <2> QED BY <1>9, <2>1, <2>2, Unserved DEF B!Served, Worked
<1> QED BY <1>2, <1>10, <1>11, <1>12, <1>13, <1>14 DEF MediaSound

(***************************************************************************)
(* The input.                                                              *)
(***************************************************************************)
\* The call of an activity for the input.
Asks(w, who) == who \in {"main", "inp"} /\ w[who].at \in InStages /\ (who = "main" \/ w.sid \in {0, w.inp.sid})

\* The input that is asked for is not there yet.
LEMMA AsksIs ==
  ASSUME NEW w, MediaSound(w), NEW who, Asks(w, who)
  PROVE  /\ w.main.at \notin OutStages \/ who = "inp"
         /\ B!Served(w) => w.input # "on"
         /\ who = "inp" /\ B!Served(w) => w.main.at \notin InStages
         /\ who = "main" => w.main.at \in Before
         /\ w.inp.at # "idle" => w.inp.sid # 0
         /\ w.sid = 0 => w.input # "on"
  BY DEF Asks, MediaSound, Orders, InpOrder, MainOrder, Inputs, B!Served, InStages, OutStages, Before

\* It fails, whatever the server has done of it.
LEMMA InputFailsKeeps ==
  ASSUME B!MediaAssumption, NEW w, MediaSound(w), NEW who, Asks(w, who), NEW away,
         NEW x, DOMAIN x = MediaNames, MediaSameBut(w, x, {"path", "prod"})
  PROVE  MediaSound(B!InputFails(x, who, away))
<1> DEFINE u == [x EXCEPT !.cap = FALSE, !.input = "off"]
           a == [u EXCEPT !.main.at = "ready"]
           b == [u EXCEPT !.inp = B!Idle]
<1>1. /\ DOMAIN u = MediaNames /\ MediaSameBut(w, u, {"path", "prod", "cap", "input"}) /\ u.cap = FALSE /\ u.input = "off"
  BY DEF MediaSameBut, MediaNames
<1>2. \/ who = "main" /\ B!InputFails(x, who, away) = B!StartFails(u)
      \/ who = "main" /\ B!InputFails(x, who, away) = a
      \/ who = "inp" /\ B!InputFails(x, who, away) = b
  BY DEF B!InputFails, B!InputEnds, Asks
<1> HIDE DEF u
<1>3. \A n \in MediaNames \ {"path", "prod", "cap", "input"} : u[n] = w[n]
  BY <1>1 DEF MediaSameBut
<1>4. /\ u.sid = w.sid /\ u.ready = w.ready /\ u.ev = w.ev /\ u.inp = w.inp /\ u.main = w.main
      /\ u.srv = w.srv /\ u.next = w.next /\ u.queue = w.queue /\ u.outs = w.outs
  BY <1>3 DEF MediaNames
<1>5. MediaTypes(u)
  BY <1>1, <1>3 DEF MediaSound, MediaTypes, MediaNames
<1>6. Orders(u) /\ Inputs(u)
  BY <1>1, <1>4 DEF MediaSound, Orders, MainOrder, EvOrder, InpOrder, SessionOrder, Inputs
<1>7. MediaSound(u)
  <2>1. MediaSameBut(w, u, SideFields)
    BY <1>1 DEF MediaSameBut, SideFields
  <2> QED BY <1>5, <1>6, <2>1, SideKeeps
<1>8. CASE who = "main"
  <2>1. u.main.at \in InStages /\ u.main.at \notin OutStages /\ u.main.at # "delete" /\ u.sid # 0
    BY <1>4, <1>8 DEF Asks, InStages, OutStages, MediaSound, Orders, MainOrder, B!Starts
  <2>2. MediaSound(B!StartFails(u))
    BY <1>1, <1>7, <2>1, MediaStopKeeps DEF B!StartFails, MediaSound
  <2>3. /\ DOMAIN a = MediaNames /\ MediaSameBut(u, a, {"main"}) /\ Activity(a.main) /\ a.main.at = "ready"
    BY <1>1, <1>5 DEF MediaTypes, MediaSameBut, MediaNames, Activity
  <2> HIDE DEF a
  <2>4. \A n \in MediaNames \ {"main"} : a[n] = u[n]
    BY <2>3 DEF MediaSameBut
  <2>5. /\ a.sid = u.sid /\ a.ready = u.ready /\ a.ev = u.ev /\ a.inp = u.inp /\ a.cap = FALSE /\ a.input = "off"
        /\ a.srv = u.srv /\ a.next = u.next /\ a.queue = u.queue /\ a.outs = u.outs
    BY <1>1, <2>4 DEF MediaNames
  <2>6. MediaTypes(a)
    BY <1>5, <2>3, <2>4 DEF MediaTypes, MediaNames
  <2>7. MainOrder(a) /\ a.main.at \notin InStages /\ a.main.at \notin OutStages
    BY <2>1, <2>3, <2>5 DEF MainOrder, B!Starts, OutStages, InStages
  <2>8. EvOrder(a) /\ InpOrder(a) /\ SessionOrder(a)
    BY <1>6, <2>5, <2>7 DEF Orders, EvOrder, InpOrder, SessionOrder
  <2>9. Orders(a) /\ Inputs(a)
    BY <2>5, <2>7, <2>8 DEF Orders, Inputs
  <2>10. MediaSameBut(u, a, MainFields)
    BY <2>3 DEF MediaSameBut, MainFields
  <2>11. \A p : Coming(a, p)
    BY <2>3 DEF Coming, Before
  <2>12. MediaSound(a)
    BY <1>7, <2>1, <2>6, <2>7, <2>9, <2>10, <2>11, MainKeeps
  <2> QED BY <1>2, <1>8, <2>2, <2>12
<1>9. CASE who = "inp"
  <2>1. /\ DOMAIN b = MediaNames /\ MediaSameBut(u, b, {"inp"}) /\ b.inp = B!Idle /\ Activity(b.inp) /\ b.inp.at = "idle" /\ b.inp.sid = 0
    BY <1>1 DEF MediaSameBut, MediaNames, Activity, B!Idle
  <2> HIDE DEF b
  <2>2. \A n \in MediaNames \ {"inp"} : b[n] = u[n]
    BY <2>1 DEF MediaSameBut
  <2>3. /\ b.sid = u.sid /\ b.ready = u.ready /\ b.ev = u.ev /\ b.main = u.main /\ b.cap = FALSE /\ b.input = "off"
        /\ b.srv = u.srv /\ b.next = u.next /\ b.queue = u.queue /\ b.outs = u.outs
    BY <1>1, <2>2 DEF MediaNames
  <2>4. MediaTypes(b)
    BY <1>5, <2>1, <2>2 DEF MediaTypes, MediaNames
  <2>5. MainOrder(b) /\ EvOrder(b) /\ InpOrder(b) /\ SessionOrder(b)
    BY <1>6, <2>1, <2>3 DEF Orders, MainOrder, EvOrder, InpOrder, SessionOrder
  <2>6. Orders(b) /\ Inputs(b)
    BY <2>3, <2>5 DEF Orders, Inputs
  <2>7. MediaSameBut(u, b, SideFields)
    BY <2>1 DEF MediaSameBut, SideFields
  <2>8. MediaSound(b)
    BY <1>7, <2>4, <2>6, <2>7, SideKeeps
  <2> QED BY <1>2, <1>9, <2>8
<1> QED BY <1>8, <1>9 DEF Asks

\* It goes on: what is left is whether it is in order.
LEMMA AsksOn ==
  ASSUME NEW w, MediaSound(w), NEW who, Asks(w, who), NEW v, DOMAIN v = MediaNames,
         MediaSameBut(w, v, {who, "path", "prod", "cap", "input", "leaked"}), Activity(v[who]), who = "inp" => v.inp.sid \in Nat,
         Orders(v), Inputs(v), who = "main" => v.main.at \in Before
  PROVE  MediaSound(v)
<1>1. \A n \in MediaNames \ {who, "path", "prod", "cap", "input", "leaked"} : v[n] = w[n]
  BY DEF MediaSameBut
<1>2. CASE who = "main"
  <2>1. MediaTypes(v)
    BY <1>1, <1>2 DEF MediaSound, MediaTypes, MediaNames
  <2>2. MediaSameBut(w, v, MainFields)
    BY <1>2 DEF MediaSameBut, MainFields
  <2>3. w.main.at \notin OutStages /\ v.main.at \notin OutStages /\ \A p : Coming(v, p)
    BY <1>2 DEF Asks, InStages, OutStages, Before, Coming
  <2> QED BY <2>1, <2>2, <2>3, MainKeeps
<1>3. CASE who = "inp"
  <2>1. MediaTypes(v)
    BY <1>1, <1>3 DEF MediaSound, MediaTypes, MediaNames
  <2>2. (\A n \in OutputFields : v[n] = w[n]) /\ v.main = w.main /\ v.todo = w.todo
    BY <1>1, <1>3 DEF MediaNames, OutputFields
  <2>3. Ends(v)
    BY <2>2, EndsStay DEF MediaSound, OutputFields
  <2>4. \A p \in Voices : VoiceInv(v, p) /\ (Missing(v, p) => Missing(w, p))
    BY <2>2, MediaAside DEF MediaSound
  <2>5. \A p : Coming(w, p) => Coming(v, p)
    BY <2>2 DEF Coming, InTodo
  <2> QED BY <2>1, <2>3, <2>4, <2>5 DEF MediaSound
<1> QED BY <1>2, <1>3 DEF Asks

\* The other fields that matter stay.
Rest(w, v) ==
  /\ v.sid = w.sid /\ v.ready = w.ready /\ v.ev = w.ev /\ v.srv = w.srv /\ v.next = w.next /\ v.queue = w.queue
  /\ v.outs = w.outs

\* An activity goes on to another stage of the input.
LEMMA StageOrders ==
  ASSUME NEW w, MediaSound(w), NEW who, Asks(w, who), NEW v, Rest(w, v), NEW at \in InStages,
         \/ who = "main" /\ v.main.at = at /\ v.inp = w.inp
         \/ who = "inp" /\ v.inp.at = at /\ v.inp.sid = w.inp.sid /\ v.main = w.main
  PROVE  Orders(v)
<1>1. at \in B!Starts /\ at # "register" /\ at # "idle" /\ at \notin OutStages
  BY DEF InStages, B!Starts, OutStages
<1>2. MainOrder(v)
  BY <1>1 DEF MediaSound, Orders, MainOrder, Rest, Asks, InStages, B!Starts
<1>3. EvOrder(v) /\ SessionOrder(v)
  BY DEF MediaSound, Orders, EvOrder, SessionOrder, Rest
<1>4. InpOrder(v)
  BY <1>1 DEF MediaSound, Orders, InpOrder, Rest, Asks, InStages
<1> QED BY <1>2, <1>3, <1>4 DEF Orders

LEMMA RoutedKeeps ==
  ASSUME B!MediaAssumption, NEW w, MediaSound(w), NEW who, Asks(w, who), w[who].at = "transport"
  PROVE  MediaSound(B!Routed(w, who))
<1>0. DOMAIN w = MediaNames /\ MediaSameBut(w, w, {"path", "prod"})
  BY DEF MediaSound, MediaTypes, MediaSameBut
<1>1. CASE ~B!Served(w)
  BY <1>0, <1>1, InputFailsKeeps DEF B!Routed
<1>2. CASE B!Served(w)
  <2> DEFINE v == [w EXCEPT !.path = TRUE, !.prod = FALSE, ![who].at = "capture"]
  <2>1. B!Routed(w, who) = v
    BY <1>2 DEF B!Routed
  <2>2. /\ DOMAIN v = MediaNames /\ MediaSameBut(w, v, {who, "path", "prod"}) /\ v[who] = [w[who] EXCEPT !.at = "capture"]
    BY <1>0 DEF MediaSameBut, MediaNames, Asks
  <2> HIDE DEF v
  <2>3. Activity(v[who]) /\ v[who].at = "capture" /\ v[who].sid = w[who].sid
    BY <2>2 DEF MediaSound, MediaTypes, Activity, Asks
  <2>4. Rest(w, v) /\ v.cap = w.cap /\ v.input = w.input
    BY <2>2 DEF MediaSameBut, MediaNames, Rest, Asks
  <2>5. \/ who = "main" /\ v.main.at = "capture" /\ v.inp = w.inp /\ w.main.at = "transport"
        \/ /\ who = "inp" /\ v.inp.at = "capture" /\ v.inp.sid = w.inp.sid /\ v.main = w.main
           /\ w.inp.at = "transport"
    BY <2>2, <2>3 DEF MediaSameBut, MediaNames, Asks
  <2>6. Orders(v)
    BY <2>4, <2>5, StageOrders DEF InStages
  <2>7. w.input # "on"
    BY <1>2, AsksIs
  <2>8. Inputs(v)
    BY <2>4, <2>5, <2>7 DEF MediaSound, Inputs
  <2>9. who = "inp" => v.inp.sid \in Nat
    BY <2>5 DEF MediaSound, MediaTypes
  <2>10. MediaSameBut(w, v, {who, "path", "prod", "cap", "input", "leaked"}) /\ (who = "main" => v.main.at \in Before)
    BY <2>2, <2>3 DEF MediaSameBut, Before
  <2> QED BY <2>1, <2>2, <2>3, <2>6, <2>8, <2>9, <2>10, AsksOn
<1> QED BY <1>1, <1>2

LEMMA CapturedKeeps ==
  ASSUME B!MediaAssumption, NEW w, MediaSound(w), NEW who, Asks(w, who), w[who].at = "capture"
  PROVE  MediaSound(B!Captured(w, who))
<1>0. DOMAIN w = MediaNames /\ MediaSameBut(w, w, {"path", "prod"})
  BY DEF MediaSound, MediaTypes, MediaSameBut
<1>1. CASE ~B!Usable(w, "in")
  BY <1>0, <1>1, InputFailsKeeps DEF B!Captured
<1>2. CASE B!Usable(w, "in")
  <2> DEFINE v == [w EXCEPT !.cap = TRUE, ![who].at = "produce"]
  <2>1. B!Captured(w, who) = v
    BY <1>2 DEF B!Captured
  <2>2. /\ DOMAIN v = MediaNames /\ MediaSameBut(w, v, {who, "cap"}) /\ v[who] = [w[who] EXCEPT !.at = "produce"] /\ v.cap = TRUE
    BY <1>0 DEF MediaSameBut, MediaNames, Asks
  <2> HIDE DEF v
  <2>3. Activity(v[who]) /\ v[who].at = "produce" /\ v[who].sid = w[who].sid
    BY <2>2 DEF MediaSound, MediaTypes, Activity, Asks
  <2>4. Rest(w, v) /\ v.prod = w.prod /\ v.input = w.input
    BY <2>2 DEF MediaSameBut, MediaNames, Rest, Asks
  <2>5. \/ who = "main" /\ v.main.at = "produce" /\ v.inp = w.inp /\ w.main.at = "capture"
        \/ /\ who = "inp" /\ v.inp.at = "produce" /\ v.inp.sid = w.inp.sid /\ v.main = w.main
           /\ w.inp.at = "capture"
    BY <2>2, <2>3 DEF MediaSameBut, MediaNames, Asks
  <2>6. Orders(v)
    BY <2>4, <2>5, StageOrders DEF InStages
  <2>7. B!Served(v) <=> B!Served(w)
    BY <2>4 DEF B!Served, Rest
  <2>8. Inputs(v)
    BY <2>2, <2>4, <2>5, <2>7 DEF MediaSound, Inputs, Rest, InStages
  <2>9. who = "inp" => v.inp.sid \in Nat
    BY <2>5 DEF MediaSound, MediaTypes
  <2>10. MediaSameBut(w, v, {who, "path", "prod", "cap", "input", "leaked"}) /\ (who = "main" => v.main.at \in Before)
    BY <2>2, <2>3 DEF MediaSameBut, Before
  <2> QED BY <2>1, <2>2, <2>3, <2>6, <2>8, <2>9, <2>10, AsksOn
<1> QED BY <1>1, <1>2

LEMMA MediaProducedKeeps ==
  ASSUME B!MediaAssumption, NEW w, MediaSound(w), NEW who, Asks(w, who), w[who].at = "produce", ~B!Produced(w, who).leaked
  PROVE  MediaSound(B!Produced(w, who))
<1>0. DOMAIN w = MediaNames /\ MediaSameBut(w, w, {"path", "prod"})
  BY DEF MediaSound, MediaTypes, MediaSameBut
<1>1. CASE ~(B!Served(w) /\ w.path)
  BY <1>0, <1>1, InputFailsKeeps DEF B!Produced
<1>2. CASE B!Served(w) /\ w.path
  <2> DEFINE u == [w EXCEPT !.prod = TRUE, !.input = "on", !.leaked = @ \/ ~w.cap]
             a == [u EXCEPT !.main.at = "ready"]
             b == [u EXCEPT !.inp = B!Idle]
             v == B!Produced(w, who)
  <2>1. v = IF who = "main" THEN a ELSE b
    BY <1>2 DEF B!Produced, B!InputEnds
  <2>2. /\ DOMAIN u = MediaNames /\ MediaSameBut(w, u, {"prod", "input", "leaked"})
        /\ u.prod = TRUE /\ u.input = "on" /\ u.leaked = (w.leaked \/ ~w.cap)
    BY <1>0 DEF MediaSameBut, MediaNames
  <2> HIDE DEF u
  <2>3. /\ DOMAIN a = MediaNames /\ MediaSameBut(u, a, {"main"}) /\ a.main = [u.main EXCEPT !.at = "ready"]
        /\ DOMAIN b = MediaNames /\ MediaSameBut(u, b, {"inp"}) /\ b.inp = B!Idle
    BY <2>2 DEF MediaSameBut, MediaNames
  <2> HIDE DEF a, b, v
  <2>4. B!Idle.at = "idle" /\ B!Idle.sid = 0 /\ Activity(B!Idle)
    BY DEF B!Idle, Activity
  <2>5. \A n \in MediaNames \ {who, "prod", "input", "leaked"} : v[n] = w[n]
    BY <2>1, <2>2, <2>3 DEF MediaSameBut, Asks
  <2>6. v.prod = TRUE /\ v.input = "on" /\ v.leaked = u.leaked /\ DOMAIN v = MediaNames
    BY <2>1, <2>2, <2>3 DEF MediaSameBut, MediaNames
  <2>7. Rest(w, v) /\ v.cap = w.cap /\ u.main = w.main
    BY <2>2, <2>5 DEF MediaNames, Rest, Asks, MediaSameBut
  <2>8. \/ /\ who = "main" /\ v.main.at = "ready" /\ v.inp = w.inp /\ w.main.at = "produce"
           /\ Activity(v.main)
        \/ /\ who = "inp" /\ v.inp = B!Idle /\ v.main = w.main /\ w.inp.at = "produce"
    BY <2>1, <2>3, <2>5, <2>7 DEF MediaNames, Asks, MediaSound, MediaTypes, Activity
  <2>9. w.cap
    BY <2>2, <2>6 DEF v
  <2>10. /\ who = "inp" => w.main.at \notin InStages
         /\ w.sid # 0
    BY <1>2, AsksIs DEF B!Served
  <2>11. Orders(v)
    <3>1. MainOrder(v)
      BY <2>7, <2>8, <2>10 DEF MediaSound, Orders, MainOrder, Rest, B!Starts, OutStages
    <3>2. EvOrder(v) /\ SessionOrder(v)
      BY <2>4, <2>7, <2>8 DEF MediaSound, Orders, EvOrder, SessionOrder, Rest
    <3>3. InpOrder(v)
      BY <2>4, <2>7, <2>8 DEF MediaSound, Orders, InpOrder, Rest, InStages
    <3> QED BY <3>1, <3>2, <3>3 DEF Orders
  <2>12. w.main.at \in InStages /\ w.inp.at # "idle" => w.inp.sid # w.sid
    BY DEF MediaSound, Orders, InpOrder
  <2>13. Inputs(v)
    BY <2>4, <2>6, <2>7, <2>8, <2>9, <2>10, <2>12 DEF Inputs, Rest, InStages
  <2>14. MediaSameBut(w, v, {who, "path", "prod", "cap", "input", "leaked"}) /\ (who = "main" => v.main.at \in Before)
    BY <2>5, <2>8 DEF MediaSameBut, Before
  <2>15. Activity(v[who]) /\ (who = "inp" => v.inp.sid \in Nat)
    BY <2>4, <2>8
  <2>16. MediaSound(v)
    BY <2>6, <2>11, <2>13, <2>14, <2>15, AsksOn
  <2> QED BY <2>16 DEF v
<1> QED BY <1>1, <1>2

LEMMA InputCallKeeps ==
  ASSUME B!MediaAssumption, MediaSound(world), NEW who \in {"main", "inp"}, B!InputCall(who), ~world'.leaked
  PROVE  MediaSound(world')
<1> DEFINE at == world[who].at
           done == CASE at = "transport" -> B!Routed(world, who)
                     [] at = "capture" -> B!Captured(world, who)
                     [] at = "produce" -> B!Produced(world, who)
           lost == [world EXCEPT !.path = done.path, !.prod = done.prod]
<1>1. /\ at \in InStages /\ B!Own(who)
      /\ \/ world' = done
         \/ world' = B!InputFails(world, who, at # "capture")
         \/ world' = B!InputFails(lost, who, at # "capture")
  BY DEF B!InputCall, InStages
<1>2. Asks(world, who)
  BY <1>1 DEF Asks, B!Own
<1>3. ~done.leaked => MediaSound(done)
  <2>1. CASE at = "transport"
    BY <1>2, <2>1, RoutedKeeps
  <2>2. CASE at = "capture"
    BY <1>2, <2>2, CapturedKeeps
  <2>3. CASE at = "produce"
    BY <1>2, <2>3, MediaProducedKeeps
  <2> QED BY <1>1, <2>1, <2>2, <2>3 DEF InStages
<1> HIDE DEF done, at
<1>4. CASE world' = done
  BY <1>3, <1>4
<1>5. CASE world' = B!InputFails(world, who, at # "capture")
  <2>1. DOMAIN world = MediaNames /\ MediaSameBut(world, world, {"path", "prod"})
    BY DEF MediaSound, MediaTypes, MediaSameBut
  <2> QED BY <1>2, <1>5, <2>1, InputFailsKeeps
<1>6. CASE world' = B!InputFails(lost, who, at # "capture")
  <2>1. DOMAIN lost = MediaNames /\ MediaSameBut(world, lost, {"path", "prod"})
    BY DEF MediaSound, MediaTypes, MediaSameBut, MediaNames
  <2> HIDE DEF lost
  <2> QED BY <1>2, <1>6, <2>1, InputFailsKeeps
<1> QED BY <1>1, <1>4, <1>5, <1>6

LEMMA RetryKeeps ==
  ASSUME MediaSound(world), B!RetryInput
  PROVE  MediaSound(world')
<1> DEFINE w == world
           v == [w EXCEPT !.input = "starting", !.inp = [at |-> "transport", p |-> 0, sid |-> w.sid]]
<1>1. world' = v /\ w.main.at = "idle" /\ w.inp.at = "idle" /\ w.input = "off" /\ w.ready
  <2>1. /\ world' = B!InputBegins(w, "inp") /\ w.main = B!Idle /\ w.inp = B!Idle /\ w.input = "off" /\ w.ready
        /\ B!Usable(w, "in")
    BY DEF B!RetryInput, B!Usable
  <2>2. B!InputBegins(w, "inp") = v
    BY <2>1 DEF B!InputBegins
  <2> HIDE DEF v
  <2> QED BY <2>1, <2>2 DEF B!Idle
<1>2. /\ DOMAIN v = MediaNames /\ MediaSameBut(w, v, {"input", "inp"}) /\ v.input = "starting"
      /\ Activity(v.inp) /\ v.inp.at = "transport" /\ v.inp.sid = w.sid
  BY DEF MediaSound, MediaTypes, MediaSameBut, MediaNames, Activity
<1> HIDE DEF v
<1>3. \A n \in MediaNames \ {"input", "inp"} : v[n] = w[n]
  BY <1>2 DEF MediaSameBut
<1>4. Rest(w, v) /\ v.main = w.main /\ v.cap = w.cap
  BY <1>3 DEF MediaNames, Rest
<1>5. MediaTypes(v)
  BY <1>2, <1>3 DEF MediaSound, MediaTypes, MediaNames
<1>6. Orders(v)
  <2>1. MainOrder(v) /\ EvOrder(v) /\ SessionOrder(v)
    BY <1>2, <1>4 DEF MediaSound, Orders, MainOrder, EvOrder, SessionOrder, Rest
  <2>2. InpOrder(v)
    BY <1>1, <1>2, <1>4 DEF MediaSound, Orders, SessionOrder, InpOrder, InStages
  <2> QED BY <2>1, <2>2 DEF Orders
<1>7. Inputs(v)
  BY <1>1, <1>2, <1>4 DEF MediaSound, Inputs
<1>8. MediaSameBut(w, v, SideFields)
  BY <1>2 DEF MediaSameBut, SideFields
<1> QED BY <1>1, <1>5, <1>6, <1>7, <1>8, SideKeeps

(***************************************************************************)
(* What happens beside the activities.                                     *)
(***************************************************************************)
\* The capture ends.
LEMMA InputStopsKeeps ==
  ASSUME NEW w, MediaSound(w)
  PROVE  MediaSound(B!InputStops(w))
<1> DEFINE v == B!InputStops(w)
<1>1. DOMAIN v = MediaNames /\ MediaSameBut(w, v, {"cap", "input"}) /\ v.cap = FALSE /\ v.input = "off"
  BY DEF B!InputStops, MediaSound, MediaTypes, MediaSameBut, MediaNames
<1> HIDE DEF v
<1>2. \A n \in MediaNames \ {"cap", "input"} : v[n] = w[n]
  BY <1>1 DEF MediaSameBut
<1>3. Rest(w, v) /\ v.main = w.main /\ v.inp = w.inp
  BY <1>2 DEF MediaNames, Rest
<1>4. MediaTypes(v)
  BY <1>1, <1>2 DEF MediaSound, MediaTypes, MediaNames
<1>5. Orders(v)
  BY <1>3 DEF MediaSound, Orders, MainOrder, EvOrder, InpOrder, SessionOrder, Rest
<1>6. Inputs(v)
  BY <1>1 DEF Inputs
<1>7. MediaSameBut(w, v, SideFields)
  BY <1>1 DEF MediaSameBut, SideFields
<1> QED BY <1>4, <1>5, <1>6, <1>7, SideKeeps DEF v

\* The session is not ready, or the devices change.
LEMMA BesideKeeps ==
  ASSUME NEW w, MediaSound(w), NEW v, DOMAIN v = MediaNames, MediaSameBut(w, v, {"ready", "dev"}), v.ready => w.ready
  PROVE  MediaSound(v)
<1>2. \A n \in MediaNames \ {"ready", "dev"} : v[n] = w[n]
  BY DEF MediaSameBut
<1>3. /\ v.main = w.main /\ v.inp = w.inp /\ v.cap = w.cap /\ v.input = w.input /\ v.prod = w.prod
      /\ v.sid = w.sid /\ v.ev = w.ev /\ v.srv = w.srv /\ v.next = w.next /\ v.queue = w.queue
      /\ v.outs = w.outs
  BY <1>2 DEF MediaNames
<1>4. MediaTypes(v)
  BY <1>2 DEF MediaSound, MediaTypes, MediaNames
<1>5. Orders(v)
  BY <1>3 DEF MediaSound, Orders, MainOrder, EvOrder, InpOrder, SessionOrder
<1>6. Inputs(v)
  BY <1>3 DEF MediaSound, Inputs, B!Served
<1>7. MediaSameBut(w, v, SideFields)
  BY DEF MediaSameBut, SideFields
<1> QED BY <1>4, <1>5, <1>6, <1>7, SideKeeps

LEMMA IdleStops ==
  ASSUME B!MediaAssumption, NEW w, MediaSound(w), w.main = B!Idle, NEW then
  PROVE  MediaSound(B!StopThen(w, then))
<1>1. w.main.at = "idle"
  BY DEF B!Idle
<1> QED BY <1>1, MediaStopKeeps DEF MediaSound, OutStages

LEMMA FaultsKeep ==
  ASSUME B!MediaAssumption, MediaSound(world), B!Heartbeat \/ B!Audit \/ B!StreamFails
  PROVE  MediaSound(world')
<1> DEFINE v == [world EXCEPT !.ready = FALSE]
<1>1. \/ world' = v
      \/ world.main = B!Idle /\ world' = B!StopThen(world, "error")
      \/ world' = B!InputStops(world)
  BY DEF B!Heartbeat, B!Audit, B!StreamFails
<1>2. DOMAIN v = MediaNames /\ MediaSameBut(world, v, {"ready", "dev"}) /\ (v.ready => world.ready)
  BY DEF MediaSound, MediaTypes, MediaSameBut, MediaNames
<1> HIDE DEF v
<1> QED BY <1>1, <1>2, BesideKeeps, IdleStops, InputStopsKeeps

LEMMA PlugKeeps ==
  ASSUME MediaSound(world), NEW d, B!Unplug(d) \/ B!Plug(d)
  PROVE  MediaSound(world')
<1>1. PICK there \in BOOLEAN : world' = [world EXCEPT !.dev[d] = there]
  BY DEF B!Unplug, B!Plug
<1> DEFINE v == [world EXCEPT !.dev[d] = there]
<1>2. DOMAIN v = MediaNames /\ MediaSameBut(world, v, {"ready", "dev"}) /\ v.ready = world.ready
  BY DEF MediaSound, MediaTypes, MediaSameBut, MediaNames
<1> HIDE DEF v
<1>3. MediaSound(v)
  BY <1>2, BesideKeeps
<1> QED BY <1>1, <1>3 DEF v

(***************************************************************************)
(* Events.                                                                 *)
(***************************************************************************)
\* The first event is taken.
LEMMA MediaTakenIs ==
  ASSUME NEW w, MediaTypes(w), Ends(w), w.queue # <<>>, NEW v, v.queue = Tail(w.queue), v.live = w.live
  PROVE  /\ Head(w.queue) \in MediaEvents /\ v.queue \in Seq(MediaEvents) /\ Ends(v)
         /\ \A k, p : MediaQueued(v, k, p) => MediaQueued(w, k, p)
         /\ \A k, p : MediaQueued(w, k, p) /\ Head(w.queue) # B!Event(k, p) => MediaQueued(v, k, p)
         /\ \A p \in Voices : Head(w.queue) = B!Event("new", p) /\ p \notin w.live => MediaQueued(v, "closed", p)
         /\ \A p \in Voices : Head(w.queue) = B!Event("closed", p) /\ p \in w.live => MediaQueued(v, "new", p)
<1> DEFINE s == w.queue
           t == v.queue
<1>1. /\ Head(s) \in MediaEvents /\ Head(s) = s[1] /\ t \in Seq(MediaEvents) /\ 1 \in DOMAIN s
      /\ \A i \in DOMAIN s : i # 1 => i - 1 \in DOMAIN t /\ t[i - 1] = s[i] /\ i \in Nat /\ i > 1
      /\ \A i \in DOMAIN t : i + 1 \in DOMAIN s /\ t[i] = s[i + 1] /\ i \in Nat
  BY MediaTailIs DEF MediaTypes
<1>2. ASSUME NEW k, NEW p, NEW i \in DOMAIN t, After(w, i + 1, k, p)
      PROVE  After(v, i, k, p)
  <2>1. PICK j \in DOMAIN s : j > i + 1 /\ s[j] = B!Event(k, p)
    BY <1>2 DEF After
  <2>2. i \in Nat /\ j # 1
    BY <1>1, <2>1
  <2>3. j - 1 \in DOMAIN t /\ t[j - 1] = s[j] /\ j \in Nat
    BY <1>1, <2>1, <2>2
  <2>4. j - 1 > i
    BY <2>1, <2>2, <2>3
  <2> QED BY <2>1, <2>3, <2>4 DEF After
<1>3. ASSUME NEW k, NEW p, After(w, 1, k, p)
      PROVE  MediaQueued(v, k, p)
  <2>1. PICK j \in DOMAIN s : j > 1 /\ s[j] = B!Event(k, p)
    BY <1>3 DEF After
  <2>2. j - 1 \in DOMAIN t /\ t[j - 1] = s[j]
    BY <1>1, <2>1
  <2> QED BY <2>1, <2>2 DEF MediaQueued
<1>4. Ends(v)
  <2> SUFFICES ASSUME NEW i \in DOMAIN t, NEW p \in Voices
               PROVE  /\ t[i] = B!Event("new", p) /\ p \notin w.live => After(v, i, "closed", p)
                      /\ t[i] = B!Event("closed", p) /\ p \in w.live => After(v, i, "new", p)
    BY DEF Ends
  <2>1. i + 1 \in DOMAIN s /\ t[i] = s[i + 1]
    BY <1>1
  <2>2. /\ t[i] = B!Event("new", p) /\ p \notin w.live => After(w, i + 1, "closed", p)
        /\ t[i] = B!Event("closed", p) /\ p \in w.live => After(w, i + 1, "new", p)
    BY <2>1 DEF Ends
  <2> QED BY <1>2, <2>2
<1>5. ASSUME NEW k, NEW p PROVE MediaQueued(v, k, p) => MediaQueued(w, k, p)
  BY <1>1 DEF MediaQueued
<1>6. ASSUME NEW k, NEW p, MediaQueued(w, k, p), Head(s) # B!Event(k, p) PROVE MediaQueued(v, k, p)
  <2>1. PICK i \in DOMAIN s : s[i] = B!Event(k, p)
    BY <1>6 DEF MediaQueued
  <2>2. i - 1 \in DOMAIN t /\ t[i - 1] = s[i]
    BY <1>1, <1>6, <2>1
  <2> QED BY <2>1, <2>2 DEF MediaQueued
<1>7. \A p \in Voices : Head(s) = B!Event("new", p) /\ p \notin w.live => After(w, 1, "closed", p)
  BY <1>1 DEF Ends
<1>8. \A p \in Voices : Head(s) = B!Event("closed", p) /\ p \in w.live => After(w, 1, "new", p)
  BY <1>1 DEF Ends
<1> QED BY <1>1, <1>3, <1>4, <1>5, <1>6, <1>7, <1>8

LEMMA EventIs ==
  /\ \A k, p, l, q : B!Event(k, p) = B!Event(l, q) => k = l /\ p = q
  /\ \A e \in MediaEvents : e = B!Event(e.kind, e.p) /\ e.p \in Voices /\ e.kind \in {"new", "closed", "level"}
  /\ \A k \in {"new", "closed", "level"}, p \in Voices : B!Event(k, p) \in MediaEvents
<1>1. \A k, p : B!Event(k, p).kind = k /\ B!Event(k, p).p = p
  BY DEF B!Event
<1>2. \A e \in MediaEvents : e = B!Event(e.kind, e.p) /\ e.p \in Voices /\ e.kind \in {"new", "closed", "level"}
  BY DEF B!Event, MediaEvents
<1>3. \A k \in {"new", "closed", "level"}, p \in Voices : B!Event(k, p) \in MediaEvents
  BY DEF B!Event, MediaEvents
<1>4. \A k, p, l, q : B!Event(k, p) = B!Event(l, q) => k = l /\ p = q
  BY <1>1
<1> QED BY <1>2, <1>3, <1>4

\* An event comes, and it tells what holds.
LEMMA ToldIs ==
  ASSUME NEW w, MediaTypes(w), Ends(w), NEW e \in MediaEvents, NEW v, v.queue = Append(w.queue, e),
         \A q \in Voices : /\ e = B!Event("new", q) => q \in v.live
                           /\ e = B!Event("closed", q) => q \notin v.live
                           /\ e \notin {B!Event("new", q), B!Event("closed", q)} => (q \in v.live <=> q \in w.live)
  PROVE  /\ v.queue \in Seq(MediaEvents) /\ Ends(v)
         /\ \A k, p : MediaQueued(v, k, p) <=> MediaQueued(w, k, p) \/ e = B!Event(k, p)
<1> DEFINE s == w.queue
           t == v.queue
           n == Len(s) + 1
<1>1. /\ t \in Seq(MediaEvents)
      /\ \A i \in DOMAIN s : i \in DOMAIN t /\ t[i] = s[i] /\ i < n
      /\ n \in DOMAIN t /\ t[n] = e
      /\ \A i \in DOMAIN t : i \in DOMAIN s \/ i = n
  BY MediaAppendIs DEF MediaTypes
<1> HIDE DEF n
<1>2. ASSUME NEW i \in DOMAIN s, NEW k, NEW p, After(w, i, k, p) \/ e = B!Event(k, p)
      PROVE  After(v, i, k, p)
  BY <1>1, <1>2 DEF After
<1>3. Ends(v)
  <2> SUFFICES ASSUME NEW i \in DOMAIN t, NEW p \in Voices
               PROVE  /\ t[i] = B!Event("new", p) /\ p \notin v.live => After(v, i, "closed", p)
                      /\ t[i] = B!Event("closed", p) /\ p \in v.live => After(v, i, "new", p)
    BY DEF Ends
  <2>1. CASE i = n
    BY <1>1, <2>1
  <2>2. CASE i \in DOMAIN s
    <3>1. /\ s[i] = B!Event("new", p) /\ p \notin w.live => After(w, i, "closed", p)
          /\ s[i] = B!Event("closed", p) /\ p \in w.live => After(w, i, "new", p)
      BY <2>2 DEF Ends
    <3>2. CASE e = B!Event("new", p)
      BY <1>2, <2>2, <3>2
    <3>3. CASE e = B!Event("closed", p)
      BY <1>2, <2>2, <3>3
    <3>4. CASE e \notin {B!Event("new", p), B!Event("closed", p)}
      BY <1>1, <1>2, <2>2, <3>1, <3>4
    <3> QED BY <3>2, <3>3, <3>4
  <2> QED BY <1>1, <2>1, <2>2
<1>4. ASSUME NEW k, NEW p PROVE MediaQueued(v, k, p) <=> MediaQueued(w, k, p) \/ e = B!Event(k, p)
  BY <1>1 DEF MediaQueued
<1> QED BY <1>1, <1>3, <1>4

(***************************************************************************)
(* An event is handled: the world with it taken is u.                      *)
(***************************************************************************)
MediaTaken(w, u) ==
  /\ DOMAIN u = MediaNames /\ MediaSameBut(w, u, {"queue"}) /\ u.queue = Tail(w.queue) /\ w.queue # <<>>
  /\ w.ready /\ w.ev = B!Idle /\ B!Served(w)

\* But for the producer of the event nothing changes.
LEMMA OthersStay ==
  ASSUME NEW w, MediaSound(w), NEW u, MediaTaken(w, u), NEW q \in Voices, Head(w.queue).p # q,
         NEW v, v.main = w.main, v.todo = w.todo, v.queue = u.queue,
         v.sid = w.sid, v.srv = w.srv, v.live = w.live, v.deaf = w.deaf,
         q \in v.outs <=> q \in w.outs, v.ev = B!Idle \/ v.ev.p # q,
         v.nat[q] = w.nat[q], v.lvl[q] = w.lvl[q], v.want[q] = w.want[q], v.cons[q] = w.cons[q]
  PROVE  VoiceInv(v, q) /\ (Missing(v, q) => Coming(v, q))
<1>1. \A k : Head(w.queue) # B!Event(k, q)
  BY EventIs DEF B!Event
<1>2. u.live = w.live /\ u.queue = Tail(w.queue) /\ w.queue # <<>>
  BY DEF MediaTaken, MediaSameBut, MediaNames
<1>3. \A k : MediaQueued(u, k, q) <=> MediaQueued(w, k, q)
  BY <1>1, <1>2, MediaTakenIs DEF MediaSound
<1>4. \A k : MediaQueued(v, k, q) <=> MediaQueued(w, k, q)
  BY <1>3 DEF MediaQueued
<1>5. ~Works(v, "ev", q) /\ ~Works(w, "ev", q)
  BY DEF Works, MediaTaken, B!Idle, OutStages
<1>6. SameFor(w, v, q)
  BY <1>4, <1>5 DEF SameFor, B!Served, Works
<1>7. Coming(v, q) <=> Coming(w, q)
  BY DEF Coming, InTodo
<1> QED BY <1>6, <1>7, VoiceStays DEF MediaSound

\* What an event does not touch.
LEMMA TakenKeeps ==
  ASSUME NEW w, MediaSound(w), NEW u, MediaTaken(w, u), NEW v, DOMAIN v = MediaNames,
         MediaSameBut(w, v, {"queue", "ev", "outs", "known", "nat", "cons", "want", "lvl"}), v.queue = u.queue,
         v.outs \subseteq Voices, DOMAIN v.nat = Voices, DOMAIN v.lvl = Voices, DOMAIN v.want = Voices,
         DOMAIN v.cons = Voices, Activity(v.ev), EvOrder(v)
  PROVE  /\ MediaTypes(v) /\ Orders(v) /\ Inputs(v) /\ Ends(v)
         /\ v.main = w.main /\ v.todo = w.todo /\ v.sid = w.sid /\ v.srv = w.srv /\ v.live = w.live /\ v.deaf = w.deaf
<1>1. \A n \in MediaNames \ {"queue", "ev", "outs", "known", "nat", "cons", "want", "lvl"} : v[n] = w[n]
  BY DEF MediaSameBut
<1>2. /\ v.main = w.main /\ v.todo = w.todo /\ v.sid = w.sid /\ v.srv = w.srv /\ v.live = w.live /\ v.deaf = w.deaf
      /\ v.inp = w.inp /\ v.cap = w.cap /\ v.input = w.input /\ v.prod = w.prod /\ v.ready = w.ready
      /\ v.next = w.next
  BY <1>1 DEF MediaNames
<1>3. v.queue \in Seq(MediaEvents) /\ Ends(v)
  <2>1. v.queue = Tail(w.queue) /\ w.queue # <<>>
    BY DEF MediaTaken
  <2> QED BY <1>2, <2>1, MediaTakenIs DEF MediaSound
<1>4. MediaTypes(v)
  BY <1>2, <1>3 DEF MediaSound, MediaTypes
<1>5. w.sid # 0 /\ w.srv # 0
  BY DEF MediaTaken, B!Served
<1>6. Orders(v)
  BY <1>2, <1>5 DEF MediaSound, Orders, MainOrder, InpOrder, SessionOrder
<1>7. Inputs(v)
  BY <1>2 DEF MediaSound, Inputs, B!Served
<1> QED BY <1>2, <1>3, <1>4, <1>6, <1>7

LEMMA IdleIs == Activity(B!Idle) /\ B!Idle.at = "idle" /\ B!Idle.p = 0 /\ B!Idle.sid = 0 /\ \A v, p : v.ev = B!Idle => ~Works(v, "ev", p)
  BY DEF Activity, B!Idle, Works, OutStages

\* A producer has come.
LEMMA NewKeeps ==
  ASSUME NEW w, MediaSound(w), NEW u, MediaTaken(w, u), NEW p \in Voices, Head(w.queue) = B!Event("new", p)
  PROVE  MediaSound(B!OutputBegins(u, "ev", p))
<1> DEFINE v == B!OutputBegins(u, "ev", p)
<1>0. /\ DOMAIN u = MediaNames /\ MediaSameBut(w, u, {"queue"}) /\ u.outs = w.outs /\ u.sid = w.sid
      /\ Head(w.queue).p = p
  BY DEF MediaTaken, MediaSameBut, MediaNames, B!Event
<1>1. CASE p \in w.outs
  <2>1. v = [u EXCEPT !.ev = B!Idle]
    BY <1>0, <1>1 DEF B!OutputBegins
  <2> HIDE DEF v
  <2>2. /\ DOMAIN v = MediaNames /\ v.ev = B!Idle /\ v.queue = u.queue
        /\ MediaSameBut(w, v, {"queue", "ev"})
    BY <1>0, <2>1 DEF MediaSameBut, MediaNames
  <2>3. v.outs = w.outs /\ v.nat = w.nat /\ v.lvl = w.lvl /\ v.want = w.want /\ v.cons = w.cons
    BY <2>2 DEF MediaSameBut, MediaNames
  <2>4. MediaSameBut(w, v, {"queue", "ev", "outs", "known", "nat", "cons", "want", "lvl"})
    BY <2>2 DEF MediaSameBut
  <2>5. EvOrder(v) /\ Activity(v.ev)
    BY <2>2, IdleIs DEF EvOrder
  <2>6. /\ MediaTypes(v) /\ Orders(v) /\ Inputs(v) /\ Ends(v)
        /\ v.main = w.main /\ v.todo = w.todo /\ v.sid = w.sid /\ v.srv = w.srv /\ v.live = w.live /\ v.deaf = w.deaf
    BY <2>2, <2>3, <2>4, <2>5, TakenKeeps DEF MediaSound, MediaTypes
  <2>7. ASSUME NEW q \in Voices PROVE VoiceInv(v, q) /\ (Missing(v, q) => Coming(v, q))
    <3>1. CASE q # p
      BY <1>0, <2>2, <2>3, <2>6, <3>1, OthersStay
    <3>2. CASE q = p
      <4>1. MediaQueued(v, "closed", p) <=> MediaQueued(w, "closed", p)
        <5>1. v.queue = Tail(w.queue) /\ w.queue # <<>> /\ Head(w.queue) # B!Event("closed", p)
          BY <2>2, EventIs DEF MediaTaken
        <5> QED BY <2>6, <5>1, MediaTakenIs DEF MediaSound
      <4>2. VoiceInv(w, p) /\ ~Works(w, "ev", p) /\ ~Works(v, "ev", p)
        BY <2>2, IdleIs DEF MediaSound, MediaTaken
      <4>3. /\ Worked(v, p) <=> Worked(w, p)
            /\ Heard(v, p) <=> Heard(w, p)
            /\ B!Served(v) <=> B!Served(w)
            /\ Works(v, "main", p) <=> Works(w, "main", p)
        BY <2>3, <2>6, <4>1, <4>2 DEF Worked, Heard, B!Served, Works
      <4>4. Plays(v, p) /\ Nearly(v, "main", "ev", p) /\ Nearly(v, "ev", "main", p)
        BY <2>3, <2>6, <4>2, <4>3 DEF VoiceInv, Plays, Nearly
      <4>5. Ending(v, p)
        BY <2>3, <2>6, <4>1, <4>2, <4>3 DEF VoiceInv, Ending
      <4>6. ~Missing(v, p)
        BY <1>1, <2>3 DEF Missing
      <4> QED BY <2>3, <2>6, <3>2, <4>2, <4>3, <4>4, <4>5, <4>6 DEF VoiceInv
    <3> QED BY <3>1, <3>2
  <2> QED BY <2>6, <2>7 DEF MediaSound, v
<1>2. CASE p \notin w.outs
  <2>1. v = [u EXCEPT !.outs = @ \cup {p}, !.known = @ \ {p}, !.ev = [at |-> "reserve", p |-> p, sid |-> w.sid]]
    BY <1>0, <1>2 DEF B!OutputBegins
  <2> HIDE DEF v
  <2>2. /\ DOMAIN v = MediaNames /\ v.ev = [at |-> "reserve", p |-> p, sid |-> w.sid] /\ v.queue = u.queue
        /\ MediaSameBut(w, v, {"queue", "ev", "outs", "known"}) /\ v.outs = w.outs \cup {p}
    BY <1>0, <2>1 DEF MediaSameBut, MediaNames
  <2>3. v.nat = w.nat /\ v.lvl = w.lvl /\ v.want = w.want /\ v.cons = w.cons
    BY <2>2 DEF MediaSameBut, MediaNames
  <2>4. MediaSameBut(w, v, {"queue", "ev", "outs", "known", "nat", "cons", "want", "lvl"})
    BY <2>2 DEF MediaSameBut
  <2>5. EvOrder(v) /\ Activity(v.ev) /\ v.ev.p = p /\ Works(v, "ev", p) /\ v.ev.at = "reserve"
    BY <2>2 DEF EvOrder, OutStages, Activity, Works
  <2>6. /\ MediaTypes(v) /\ Orders(v) /\ Inputs(v) /\ Ends(v)
        /\ v.main = w.main /\ v.todo = w.todo /\ v.sid = w.sid /\ v.srv = w.srv /\ v.live = w.live /\ v.deaf = w.deaf
    BY <2>2, <2>3, <2>4, <2>5, TakenKeeps DEF MediaSound, MediaTypes
  <2>7. ASSUME NEW q \in Voices PROVE VoiceInv(v, q) /\ (Missing(v, q) => Coming(v, q))
    <3>1. CASE q # p
      BY <1>0, <2>2, <2>3, <2>5, <2>6, <3>1, OthersStay
    <3>2. CASE q = p
      <4>1. p \notin w.live => MediaQueued(v, "closed", p)
        <5>1. v.queue = Tail(w.queue) /\ w.queue # <<>>
          BY <2>2 DEF MediaTaken
        <5> QED BY <2>6, <5>1, MediaTakenIs DEF MediaSound
      <4>2. p \in v.outs /\ Works(v, "ev", p) /\ v.ev.at = "reserve"
        BY <2>2, <2>5
      <4> QED BY <2>6, <3>2, <4>1, <4>2 DEF VoiceInv, Plays, Nearly, Ending, Worked, Missing
    <3> QED BY <3>1, <3>2
  <2> QED BY <2>6, <2>7 DEF MediaSound, v
<1> QED BY <1>1, <1>2

\* A producer has gone.
LEMMA MediaClosedKeeps ==
  ASSUME NEW w, MediaSound(w), NEW u, MediaTaken(w, u), NEW p \in Voices, Head(w.queue) = B!Event("closed", p)
  PROVE  MediaSound(B!OutputStops(u, p))
<1> DEFINE v == B!OutputStops(u, p)
<1>0. /\ DOMAIN u = MediaNames /\ MediaSameBut(w, u, {"queue"}) /\ u.outs = w.outs /\ u.sid = w.sid /\ u.nat = w.nat
      /\ u.cons = w.cons /\ u.lvl = w.lvl /\ u.want = w.want /\ u.ev = w.ev /\ Head(w.queue).p = p
  BY DEF MediaTaken, MediaSameBut, MediaNames, B!Event
<1>1. /\ DOMAIN v = MediaNames /\ MediaSameBut(u, v, {"outs", "nat", "cons", "known"})
      /\ v.outs = w.outs \ {p} /\ DOMAIN v.nat = Voices /\ DOMAIN v.cons = Voices
      /\ p \in w.outs => v.nat[p] = "none"
      /\ p \notin w.outs => v.nat[p] = w.nat[p]
      /\ \A q \in Voices \ {p} : v.nat[q] = w.nat[q] /\ v.cons[q] = w.cons[q]
  <2>1. CASE p \in w.outs
    <3>1. v = [u EXCEPT !.outs = @ \ {p}, !.nat[p] = "none", !.known = @ \ {p}, !.cons[p] = B!Unconsumed(u, p)]
      BY <1>0, <2>1 DEF B!OutputStops
    <3> HIDE DEF v
    <3>2. DOMAIN v = MediaNames /\ MediaSameBut(u, v, {"outs", "nat", "cons", "known"}) /\ v.outs = w.outs \ {p}
      BY <1>0, <3>1 DEF MediaSameBut, MediaNames
    <3>3. v.nat = [w.nat EXCEPT ![p] = "none"] /\ v.cons = [w.cons EXCEPT ![p] = B!Unconsumed(u, p)]
      BY <1>0, <3>1 DEF MediaNames
    <3> QED BY <2>1, <3>2, <3>3 DEF MediaSound, MediaTypes
  <2>2. CASE p \notin w.outs
    BY <1>0, <2>2 DEF B!OutputStops, MediaSameBut, MediaSound, MediaTypes
  <2> QED BY <2>1, <2>2
<1> HIDE DEF v
<1>2. MediaSameBut(w, v, {"queue", "ev", "outs", "known", "nat", "cons", "want", "lvl"})
  BY <1>0, <1>1 DEF MediaSameBut
<1>3. v.ev = B!Idle /\ v.queue = u.queue /\ v.lvl = w.lvl /\ v.want = w.want
  BY <1>0, <1>1 DEF MediaSameBut, MediaNames, MediaTaken
<1>4. EvOrder(v) /\ Activity(v.ev)
  BY <1>3, IdleIs DEF EvOrder
<1>5. v.outs \subseteq Voices /\ DOMAIN v.lvl = Voices /\ DOMAIN v.want = Voices
  BY <1>1, <1>3 DEF MediaSound, MediaTypes
<1>6. /\ MediaTypes(v) /\ Orders(v) /\ Inputs(v) /\ Ends(v)
      /\ v.main = w.main /\ v.todo = w.todo /\ v.sid = w.sid /\ v.srv = w.srv /\ v.live = w.live /\ v.deaf = w.deaf
  BY <1>1, <1>2, <1>3, <1>4, <1>5, TakenKeeps
<1>7. ASSUME NEW q \in Voices PROVE VoiceInv(v, q) /\ (Missing(v, q) => Coming(v, q))
  <2>1. CASE q # p
    BY <1>0, <1>1, <1>3, <1>6, <2>1, OthersStay
  <2>2. CASE q = p
    <3>1. p \in w.live => MediaQueued(v, "new", p)
      <4>1. v.queue = Tail(w.queue) /\ w.queue # <<>>
        BY <1>3 DEF MediaTaken
      <4> QED BY <1>6, <4>1, MediaTakenIs DEF MediaSound
    <3>2. v.nat[p] # "none" => Worked(v, p)
      <4>1. ~Works(w, "ev", p) /\ VoiceInv(w, p)
        BY IdleIs DEF MediaSound, MediaTaken
      <4>2. Works(w, "main", p) => Works(v, "main", p)
        BY <1>6 DEF Works
      <4> QED BY <1>1, <4>1, <4>2 DEF VoiceInv, Worked
    <3> QED BY <1>1, <1>6, <2>2, <3>1, <3>2 DEF VoiceInv, Plays, Nearly, Ending, Missing
  <2> QED BY <2>1, <2>2
<1> QED BY <1>6, <1>7 DEF MediaSound, v

\* A volume is set.
LEMMA LevelKeeps ==
  ASSUME NEW w, MediaSound(w), NEW u, MediaTaken(w, u), NEW p \in Voices, Head(w.queue) = B!Event("level", p)
  PROVE  MediaSound(B!SetLevel(u, p))
<1> DEFINE v == B!SetLevel(u, p)
<1>0. /\ DOMAIN u = MediaNames /\ MediaSameBut(w, u, {"queue"}) /\ u.outs = w.outs /\ u.nat = w.nat
      /\ u.cons = w.cons /\ u.lvl = w.lvl /\ u.want = w.want /\ u.ev = w.ev /\ Head(w.queue).p = p
  BY DEF MediaTaken, MediaSameBut, MediaNames, B!Event
<1>1. /\ DOMAIN v = MediaNames /\ MediaSameBut(u, v, {"want", "lvl"}) /\ DOMAIN v.want = Voices /\ DOMAIN v.lvl = Voices
      /\ p \in w.outs /\ w.nat[p] = "active" => v.lvl[p] = v.want[p]
      /\ \A q \in Voices \ {p} : v.want[q] = w.want[q] /\ v.lvl[q] = w.lvl[q]
  <2>1. DOMAIN v = MediaNames /\ MediaSameBut(u, v, {"want", "lvl"})
    BY <1>0 DEF B!SetLevel, MediaSameBut, MediaNames
  <2>2. /\ v.want = [w.want EXCEPT ![p] = 1 - @]
        /\ v.lvl = [w.lvl EXCEPT ![p] = IF p \in w.outs /\ w.nat[p] = "active" THEN 1 - w.want[p] ELSE @]
    BY <1>0 DEF B!SetLevel, MediaNames
  <2> HIDE DEF v
  <2> QED BY <2>1, <2>2 DEF MediaSound, MediaTypes
<1> HIDE DEF v
<1>2. MediaSameBut(w, v, {"queue", "ev", "outs", "known", "nat", "cons", "want", "lvl"})
  BY <1>0, <1>1 DEF MediaSameBut
<1>3. v.ev = B!Idle /\ v.queue = u.queue /\ v.outs = w.outs /\ v.nat = w.nat /\ v.cons = w.cons
  BY <1>0, <1>1 DEF MediaSameBut, MediaNames, MediaTaken
<1>4. EvOrder(v) /\ Activity(v.ev)
  BY <1>3, IdleIs DEF EvOrder
<1>5. v.outs \subseteq Voices /\ DOMAIN v.nat = Voices /\ DOMAIN v.cons = Voices
  BY <1>3 DEF MediaSound, MediaTypes
<1>6. /\ MediaTypes(v) /\ Orders(v) /\ Inputs(v) /\ Ends(v)
      /\ v.main = w.main /\ v.todo = w.todo /\ v.sid = w.sid /\ v.srv = w.srv /\ v.live = w.live /\ v.deaf = w.deaf
  BY <1>1, <1>2, <1>3, <1>4, <1>5, TakenKeeps
<1>7. ASSUME NEW q \in Voices PROVE VoiceInv(v, q) /\ (Missing(v, q) => Coming(v, q))
  <2>1. CASE q # p
    BY <1>0, <1>1, <1>3, <1>6, <2>1, OthersStay
  <2>2. CASE q = p
    <3>1. \A k \in {"new", "closed"} : MediaQueued(v, k, p) <=> MediaQueued(w, k, p)
      <4>1. v.queue = Tail(w.queue) /\ w.queue # <<>> /\ \A k \in {"new", "closed"} : Head(w.queue) # B!Event(k, p)
        BY <1>3, EventIs DEF MediaTaken
      <4> QED BY <1>6, <4>1, MediaTakenIs DEF MediaSound
    <3>2. VoiceInv(w, p) /\ (Missing(w, p) => Coming(w, p)) /\ ~Works(w, "ev", p) /\ ~Works(v, "ev", p)
      BY <1>3, IdleIs DEF MediaSound, MediaTaken
    <3>3. /\ Worked(v, p) <=> Worked(w, p)
          /\ Heard(v, p) <=> Heard(w, p)
          /\ B!Served(v) <=> B!Served(w)
          /\ Works(v, "main", p) <=> Works(w, "main", p)
          /\ Coming(v, p) <=> Coming(w, p)
          /\ Missing(v, p) <=> Missing(w, p)
      BY <1>3, <1>6, <3>1, <3>2 DEF Worked, Heard, B!Served, Works, Coming, InTodo, Missing
    <3>4. Plays(v, p)
      BY <1>1, <1>3, <3>2, <3>3 DEF VoiceInv, Plays
    <3>5. Nearly(v, "main", "ev", p) /\ Nearly(v, "ev", "main", p) /\ Ending(v, p)
      BY <1>3, <1>6, <3>1, <3>2, <3>3 DEF VoiceInv, Nearly, Ending
    <3> QED BY <1>3, <1>6, <2>2, <3>2, <3>3, <3>4, <3>5 DEF VoiceInv
  <2> QED BY <2>1, <2>2
<1> QED BY <1>6, <1>7 DEF MediaSound, v

LEMMA MediaHandleKeeps ==
  ASSUME MediaSound(world), B!Handle
  PROVE  MediaSound(world')
<1> DEFINE w == world
           u == [w EXCEPT !.queue = Tail(@)]
           e == Head(w.queue)
<1>1. MediaTaken(w, u)
  BY DEF B!Handle, MediaTaken, MediaSound, MediaTypes, MediaSameBut, MediaNames
<1>2. e \in MediaEvents
  BY MediaTailIs DEF B!Handle, MediaSound, MediaTypes
<1>3. e = B!Event(e.kind, e.p) /\ e.p \in Voices /\ e.kind \in {"new", "closed", "level"}
  BY <1>2, EventIs
<1>4. /\ e.kind = "new" => world' = B!OutputBegins(u, "ev", e.p)
      /\ e.kind = "closed" => world' = B!OutputStops(u, e.p)
      /\ e.kind = "level" => world' = B!SetLevel(u, e.p)
  BY DEF B!Handle
<1> HIDE DEF u
<1>5. CASE e.kind = "new"
  BY <1>1, <1>3, <1>4, <1>5, NewKeeps
<1>6. CASE e.kind = "closed"
  BY <1>1, <1>3, <1>4, <1>6, MediaClosedKeeps
<1>7. CASE e.kind = "level"
  BY <1>1, <1>3, <1>4, <1>7, LevelKeeps
<1> QED BY <1>3, <1>5, <1>6, <1>7

(***************************************************************************)
(* Those who address the port come and go.                                 *)
(***************************************************************************)
\* An event is told, if there is a session to tell it.
Heeds(w, v, e) ==
  /\ DOMAIN v = MediaNames /\ MediaSameBut(w, v, {"queue", "live", "deaf", "cons"})
  /\ v.queue = IF w.srv # 0 THEN Append(w.queue, e) ELSE w.queue

LEMMA HeedsKeeps ==
  ASSUME NEW w, MediaSound(w), NEW e \in MediaEvents, NEW v, Heeds(w, v, e), DOMAIN v.cons = Voices, v.live \subseteq Voices,
         \A q \in Voices : /\ e = B!Event("new", q) => q \in v.live
                           /\ e = B!Event("closed", q) => q \notin v.live
                           /\ e \notin {B!Event("new", q), B!Event("closed", q)} => (q \in v.live <=> q \in w.live)
  PROVE  /\ MediaTypes(v) /\ Orders(v) /\ Inputs(v) /\ Ends(v)
         /\ v.main = w.main /\ v.todo = w.todo /\ v.sid = w.sid /\ v.srv = w.srv /\ v.outs = w.outs /\ v.ev = w.ev
         /\ v.nat = w.nat /\ v.lvl = w.lvl /\ v.want = w.want
         /\ B!Served(v) => \A k, p : MediaQueued(v, k, p) <=> MediaQueued(w, k, p) \/ e = B!Event(k, p)
<1>1. \A n \in MediaNames \ {"queue", "live", "deaf", "cons"} : v[n] = w[n]
  BY DEF Heeds, MediaSameBut
<1>2. /\ v.main = w.main /\ v.todo = w.todo /\ v.sid = w.sid /\ v.srv = w.srv /\ v.outs = w.outs /\ v.ev = w.ev
      /\ v.nat = w.nat /\ v.lvl = w.lvl /\ v.want = w.want
      /\ v.inp = w.inp /\ v.cap = w.cap /\ v.input = w.input /\ v.prod = w.prod /\ v.ready = w.ready
      /\ v.next = w.next
  BY <1>1 DEF MediaNames
<1>3. /\ v.queue \in Seq(MediaEvents) /\ Ends(v) /\ (v.srv = 0 => v.queue = <<>>)
      /\ B!Served(v) => \A k, p : MediaQueued(v, k, p) <=> MediaQueued(w, k, p) \/ e = B!Event(k, p)
  <2>1. CASE w.srv # 0
    <3>1. v.queue = Append(w.queue, e)
      BY <2>1 DEF Heeds
    <3>2. /\ v.queue \in Seq(MediaEvents) /\ Ends(v)
          /\ \A k, p : MediaQueued(v, k, p) <=> MediaQueued(w, k, p) \/ e = B!Event(k, p)
      BY <3>1, ToldIs DEF MediaSound
    <3> QED BY <1>2, <2>1, <3>2
  <2>2. CASE w.srv = 0
    <3>1. v.queue = <<>> /\ ~B!Served(v)
      BY <1>2, <2>2 DEF Heeds, B!Served, MediaSound, Orders, SessionOrder
    <3>2. Ends(v) /\ v.queue \in Seq(MediaEvents)
      BY <3>1 DEF Ends
    <3> QED BY <3>1, <3>2
  <2> QED BY <2>1, <2>2
<1>4. MediaTypes(v)
  BY <1>2, <1>3 DEF Heeds, MediaSound, MediaTypes
<1>5. Orders(v)
  BY <1>2, <1>3 DEF MediaSound, Orders, MainOrder, EvOrder, InpOrder, SessionOrder
<1>6. Inputs(v)
  BY <1>2 DEF MediaSound, Inputs, B!Served
<1> QED BY <1>2, <1>3, <1>4, <1>5, <1>6

\* Of a producer the event is not about.
LEMMA HeedsRest ==
  ASSUME NEW w, MediaSound(w), NEW v, NEW q \in Voices,
         v.main = w.main, v.todo = w.todo, v.sid = w.sid, v.srv = w.srv, v.outs = w.outs, v.ev = w.ev,
         v.nat = w.nat, v.lvl = w.lvl, v.want = w.want,
         v.cons[q] = w.cons[q], q \in v.live <=> q \in w.live, q \in v.deaf <=> q \in w.deaf,
         B!Served(v) => \A k \in {"new", "closed"} : MediaQueued(v, k, q) <=> MediaQueued(w, k, q)
  PROVE  VoiceInv(v, q) /\ (Missing(v, q) => Coming(v, q))
<1>0. Works(v, "main", q) <=> Works(w, "main", q)
  BY DEF Works
<1>1. Works(v, "ev", q) <=> Works(w, "ev", q)
  BY DEF Works
<1>2. CASE B!Served(v)
  <2>1. SameFor(w, v, q)
    BY <1>0, <1>1, <1>2 DEF SameFor, B!Served
  <2>2. Coming(v, q) <=> Coming(w, q)
    BY DEF Coming, InTodo
  <2> QED BY <2>1, <2>2, VoiceStays DEF MediaSound
<1>3. CASE ~B!Served(v)
  BY <1>0, <1>1, <1>3, Unserved DEF MediaSound, VoiceInv, Worked
<1> QED BY <1>2, <1>3

LEMMA CommandKeeps ==
  ASSUME MediaSound(world), NEW p \in Voices, B!Command(p)
  PROVE  MediaSound(world')
<1> DEFINE w == world
           e == B!Event("level", p)
           v == B!Tell(w, e)
<1>1. world' = v /\ e \in MediaEvents /\ \A q : e # B!Event("new", q) /\ e # B!Event("closed", q)
  BY EventIs DEF B!Command
<1> HIDE DEF e
<1>2. Heeds(w, v, e) /\ v.live = w.live /\ v.deaf = w.deaf /\ v.cons = w.cons
  BY DEF Heeds, B!Tell, MediaSound, MediaTypes, MediaSameBut, MediaNames
<1> HIDE DEF v
<1>3. DOMAIN v.cons = Voices /\ v.live \subseteq Voices
  BY <1>2 DEF MediaSound, MediaTypes
<1>4. /\ MediaTypes(v) /\ Orders(v) /\ Inputs(v) /\ Ends(v)
      /\ v.main = w.main /\ v.todo = w.todo /\ v.sid = w.sid /\ v.srv = w.srv /\ v.outs = w.outs /\ v.ev = w.ev
      /\ v.nat = w.nat /\ v.lvl = w.lvl /\ v.want = w.want
      /\ B!Served(v) => \A k, q : MediaQueued(v, k, q) <=> MediaQueued(w, k, q) \/ e = B!Event(k, q)
  BY <1>1, <1>2, <1>3, HeedsKeeps
<1>5. ASSUME NEW q \in Voices PROVE VoiceInv(v, q) /\ (Missing(v, q) => Coming(v, q))
  <2>1. B!Served(v) => \A k \in {"new", "closed"} : MediaQueued(v, k, q) <=> MediaQueued(w, k, q)
    BY <1>1, <1>4
  <2> QED BY <1>2, <1>4, <2>1, HeedsRest
<1> QED BY <1>1, <1>4, <1>5 DEF MediaSound

LEMMA SpeakKeeps ==
  ASSUME MediaSound(world), NEW p \in Voices, B!Speak(p)
  PROVE  MediaSound(world')
<1> DEFINE w == world
           e == B!Event("new", p)
           x == [w EXCEPT !.live = @ \cup {p}]
           v == B!Tell(x, e)
<1>1. world' = v /\ e \in MediaEvents /\ \A q : (e = B!Event("new", q) <=> q = p) /\ e # B!Event("closed", q)
  BY EventIs DEF B!Speak
<1> HIDE DEF e
<1>2. Heeds(w, v, e) /\ v.live = w.live \cup {p} /\ v.deaf = w.deaf /\ v.cons = w.cons
  BY DEF Heeds, B!Tell, MediaSound, MediaTypes, MediaSameBut, MediaNames
<1> HIDE DEF v, x
<1>3. /\ DOMAIN v.cons = Voices /\ v.live \subseteq Voices
      /\ \A q \in Voices : /\ e = B!Event("new", q) => q \in v.live
                           /\ e = B!Event("closed", q) => q \notin v.live
                           /\ e \notin {B!Event("new", q), B!Event("closed", q)} => (q \in v.live <=> q \in w.live)
  BY <1>1, <1>2 DEF MediaSound, MediaTypes
<1>4. /\ MediaTypes(v) /\ Orders(v) /\ Inputs(v) /\ Ends(v)
      /\ v.main = w.main /\ v.todo = w.todo /\ v.sid = w.sid /\ v.srv = w.srv /\ v.outs = w.outs /\ v.ev = w.ev
      /\ v.nat = w.nat /\ v.lvl = w.lvl /\ v.want = w.want
      /\ B!Served(v) => \A k, q : MediaQueued(v, k, q) <=> MediaQueued(w, k, q) \/ e = B!Event(k, q)
  BY <1>1, <1>2, <1>3, HeedsKeeps
<1>5. ASSUME NEW q \in Voices PROVE VoiceInv(v, q) /\ (Missing(v, q) => Coming(v, q))
  <2>1. CASE q # p
    <3>1. B!Served(v) => \A k \in {"new", "closed"} : MediaQueued(v, k, q) <=> MediaQueued(w, k, q)
      BY <1>1, <1>4, <2>1
    <3> QED BY <1>2, <1>4, <2>1, <3>1, HeedsRest
  <2>2. CASE q = p
    <3>1. VoiceInv(w, p)
      BY DEF MediaSound
    <3>2. Works(v, "main", p) <=> Works(w, "main", p)
      BY <1>4 DEF Works
    <3>3. Works(v, "ev", p) <=> Works(w, "ev", p)
      BY <1>4 DEF Works
    <3>4. /\ Worked(v, p) <=> Worked(w, p)
          /\ B!Served(v) <=> B!Served(w)
          /\ B!Served(v) => (MediaQueued(v, "closed", p) <=> MediaQueued(w, "closed", p)) /\ MediaQueued(v, "new", p)
          /\ B!Served(v) => (Heard(v, p) <=> Heard(w, p))
      BY <1>1, <1>2, <1>4, <3>2, <3>3 DEF Worked, B!Served, Heard
    <3>5. Plays(v, p)
      BY <1>4, <3>1, <3>4 DEF VoiceInv, Plays
    <3>6. Nearly(v, "main", "ev", p) /\ Nearly(v, "ev", "main", p)
      BY <1>4, <3>1, <3>2, <3>3, <3>4 DEF VoiceInv, Nearly
    <3>7. Ending(v, p) /\ ~Missing(v, p)
      BY <1>2, <3>4 DEF Ending, Missing
    <3> QED BY <1>2, <1>4, <2>2, <3>1, <3>4, <3>5, <3>6, <3>7 DEF VoiceInv
  <2> QED BY <2>1, <2>2
<1> QED BY <1>1, <1>4, <1>5 DEF MediaSound

LEMMA HushKeeps ==
  ASSUME MediaSound(world), NEW p \in Voices, B!Hush(p)
  PROVE  MediaSound(world')
<1> DEFINE w == world
           e == B!Event("closed", p)
           x == [w EXCEPT !.live = @ \ {p}, !.cons[p] = "none"]
           y == B!Tell(x, e)
           v == [y EXCEPT !.deaf = @ \ {p}]
<1>1. world' = v /\ e \in MediaEvents /\ \A q : (e = B!Event("closed", q) <=> q = p) /\ e # B!Event("new", q)
  BY EventIs DEF B!Hush
<1> HIDE DEF e
<1>2. /\ DOMAIN x = MediaNames /\ MediaSameBut(w, x, {"live", "cons"}) /\ x.live = w.live \ {p} /\ DOMAIN x.cons = Voices
      /\ \A q \in Voices \ {p} : x.cons[q] = w.cons[q]
  BY DEF MediaSound, MediaTypes, MediaSameBut, MediaNames
<1> HIDE DEF x
<1>3. /\ DOMAIN y = MediaNames /\ MediaSameBut(x, y, {"queue"})
      /\ y.queue = IF x.srv # 0 THEN Append(x.queue, e) ELSE x.queue
  BY <1>2 DEF B!Tell, MediaSameBut, MediaNames
<1> HIDE DEF y
<1>4. DOMAIN v = MediaNames /\ MediaSameBut(y, v, {"deaf"}) /\ v.deaf = y.deaf \ {p}
  BY <1>3 DEF MediaSameBut, MediaNames
<1> HIDE DEF v
<1>5. Heeds(w, v, e) /\ v.live = w.live \ {p} /\ v.deaf = w.deaf \ {p} /\ v.cons = x.cons
  <2>1. MediaSameBut(w, v, {"queue", "live", "deaf", "cons"})
    BY <1>2, <1>3, <1>4 DEF MediaSameBut
  <2>2. v.queue = y.queue /\ x.srv = w.srv /\ x.queue = w.queue /\ y.deaf = w.deaf /\ v.live = x.live /\ v.cons = x.cons
    BY <1>2, <1>3, <1>4 DEF MediaSameBut, MediaNames
  <2> QED BY <1>2, <1>3, <1>4, <2>1, <2>2 DEF Heeds
<1>6. /\ DOMAIN v.cons = Voices /\ v.live \subseteq Voices
      /\ \A q \in Voices : /\ e = B!Event("new", q) => q \in v.live
                           /\ e = B!Event("closed", q) => q \notin v.live
                           /\ e \notin {B!Event("new", q), B!Event("closed", q)} => (q \in v.live <=> q \in w.live)
  BY <1>1, <1>2, <1>5 DEF MediaSound, MediaTypes
<1>7. /\ MediaTypes(v) /\ Orders(v) /\ Inputs(v) /\ Ends(v)
      /\ v.main = w.main /\ v.todo = w.todo /\ v.sid = w.sid /\ v.srv = w.srv /\ v.outs = w.outs /\ v.ev = w.ev
      /\ v.nat = w.nat /\ v.lvl = w.lvl /\ v.want = w.want
      /\ B!Served(v) => \A k, q : MediaQueued(v, k, q) <=> MediaQueued(w, k, q) \/ e = B!Event(k, q)
  BY <1>1, <1>5, <1>6, HeedsKeeps
<1>8. ASSUME NEW q \in Voices PROVE VoiceInv(v, q) /\ (Missing(v, q) => Coming(v, q))
  <2>1. CASE q # p
    <3>1. B!Served(v) => \A k \in {"new", "closed"} : MediaQueued(v, k, q) <=> MediaQueued(w, k, q)
      BY <1>1, <1>7, <2>1
    <3>2. v.cons[q] = w.cons[q] /\ (q \in v.live <=> q \in w.live) /\ (q \in v.deaf <=> q \in w.deaf)
      BY <1>2, <1>5, <2>1
    <3> QED BY <1>7, <3>1, <3>2, HeedsRest
  <2>2. CASE q = p
    <3>1. VoiceInv(w, p)
      BY DEF MediaSound
    <3>2. Works(v, "main", p) <=> Works(w, "main", p)
      BY <1>7 DEF Works
    <3>3. Works(v, "ev", p) <=> Works(w, "ev", p)
      BY <1>7 DEF Works
    <3>4. /\ Worked(v, p) <=> Worked(w, p)
          /\ B!Served(v) <=> B!Served(w)
          /\ B!Served(v) => MediaQueued(v, "closed", p) /\ Heard(v, p)
      BY <1>1, <1>7, <3>2, <3>3 DEF Worked, B!Served, Heard
    <3>5. Plays(v, p)
      BY <1>7, <3>1, <3>4 DEF VoiceInv, Plays
    <3>6. Nearly(v, "main", "ev", p) /\ Nearly(v, "ev", "main", p) /\ Ending(v, p)
      BY <3>4 DEF Nearly, Ending
    <3>7. ~Missing(v, p)
      BY <1>5 DEF Missing
    <3> QED BY <1>5, <1>7, <2>2, <3>1, <3>4, <3>5, <3>6, <3>7 DEF VoiceInv
  <2> QED BY <2>1, <2>2
<1> QED BY <1>1, <1>7, <1>8 DEF MediaSound

(***************************************************************************)
(* The port is as served.                                                  *)
(***************************************************************************)
LEMMA Beginning ==
  ASSUME B!MediaAssumption, B!Init
  PROVE  MediaSound(world)
<1> DEFINE w == world
<1>1. /\ DOMAIN w = MediaNames /\ w.main = B!Idle /\ w.ev = B!Idle /\ w.inp = B!Idle /\ w.sid = 0 /\ w.srv = 0 /\ w.next = 1
      /\ w.queue = <<>> /\ w.todo = <<>> /\ w.outs = {} /\ w.live = {} /\ w.input = "off" /\ w.cap = FALSE /\ w.ready = FALSE
      /\ w.nat = [p \in Voices |-> "none"] /\ w.cons = [p \in Voices |-> "none"]
      /\ w.lvl = [p \in Voices |-> 1] /\ w.want = [p \in Voices |-> 1]
  BY DEF B!Init, MediaNames
<1>2. MediaTypes(w)
  BY <1>1, IdleIs DEF MediaTypes
<1>3. Orders(w)
  BY <1>1, IdleIs DEF Orders, MainOrder, EvOrder, InpOrder, SessionOrder, B!Starts, OutStages, InStages
<1>4. Inputs(w)
  BY <1>1 DEF Inputs
<1>5. Ends(w)
  BY <1>1 DEF Ends
<1>6. \A p \in Voices : VoiceInv(w, p) /\ ~Missing(w, p)
  <2>1. ~B!Served(w) /\ \A p \in Voices : w.nat[p] = "none" /\ p \notin w.outs
    BY <1>1 DEF B!Served
  <2> QED BY <2>1, Unserved
<1> QED BY <1>2, <1>3, <1>4, <1>5, <1>6 DEF MediaSound

LEMMA MediaKept ==
  ASSUME B!MediaAssumption, MediaIInv, [B!Next]_(B!vars)
  PROVE  MediaIInv'
<1> SUFFICES ASSUME ~world'.leaked PROVE MediaSound(world')
  BY DEF MediaIInv, MediaSound, MediaTypes, Activity, Orders, MainOrder, EvOrder, InpOrder, SessionOrder, Inputs, B!Served, Ends, After, VoiceInv, Plays, Nearly, Ending, Missing, Coming, InTodo, Heard, MediaQueued, Worked, Works
<1>1. CASE UNCHANGED B!vars
  BY <1>1 DEF MediaIInv, B!vars
<1>2. CASE B!Next
  <2>1. MediaSound(world)
    BY <1>2 DEF MediaIInv, B!Next, B!Start, B!Register, B!Ready, B!List, B!NextProducer, B!StopOutput, B!StopInput, B!Delete, B!Handle, B!Heartbeat,
           B!Audit, B!StreamFails, B!RetryInput, B!SessionEnds, B!InputCall, B!OutputCall, B!Speak, B!Hush, B!Command, B!Unplug, B!Plug,
           B!Free, B!Spend, B!Whole
  <2>2. CASE B!Start
    BY <2>1, <2>2, MediaStartKeeps
  <2>3. CASE B!Register
    BY <2>1, <2>3, MediaRegisterKeeps
  <2>4. CASE B!Ready
    BY <2>1, <2>4, ReadyKeeps
  <2>5. CASE B!List
    BY <2>1, <2>5, ListKeeps
  <2>6. CASE B!NextProducer
    BY <2>1, <2>6, NextProducerKeeps
  <2>7. CASE B!StopOutput
    BY <2>1, <2>7, StopOutputKeeps
  <2>8. CASE B!StopInput
    BY <2>1, <2>8, StopInputKeeps
  <2>9. CASE B!Delete
    BY <2>1, <2>9, DeleteKeeps
  <2>10. CASE B!Handle
    BY <2>1, <2>10, MediaHandleKeeps
  <2>11. CASE B!Heartbeat \/ B!Audit \/ B!StreamFails
    BY <2>1, <2>11, FaultsKeep
  <2>12. CASE B!RetryInput
    BY <2>1, <2>12, RetryKeeps
  <2>13. CASE B!SessionEnds
    BY <2>1, <2>13, SessionEndsKeeps
  <2>14. CASE \E who \in {"main", "inp"} : B!InputCall(who)
    BY <2>1, <2>14, InputCallKeeps
  <2>15. CASE \E who \in {"main", "ev"} : B!OutputCall(who)
    BY <2>1, <2>15, OutputCallKeeps
  <2>16. CASE \E p \in Voices : B!Speak(p) \/ B!Hush(p) \/ B!Command(p)
    BY <2>1, <2>16, SpeakKeeps, HushKeeps, CommandKeeps
  <2>17. CASE \E d \in {"in", "out"} : B!Unplug(d) \/ B!Plug(d)
    BY <2>1, <2>17, PlugKeeps
  <2> QED BY <1>2, <2>2, <2>3, <2>4, <2>5, <2>6, <2>7, <2>8, <2>9, <2>10, <2>11, <2>12, <2>13, <2>14, <2>15, <2>16,
             <2>17 DEF B!Next
<1> QED BY <1>1, <1>2

LEMMA SoundServed == MediaIInv => B!PortAsServed
<1> SUFFICES ASSUME MediaSound(world), B!Quiet PROVE B!PortAsServed
  BY DEF MediaIInv, B!PortAsServed, B!Settled, B!Quiet
<1> DEFINE w == world
<1>1. w.main.at = "idle" /\ w.ev.at = "idle" /\ w.inp.at = "idle" /\ \A p : ~Worked(w, p)
  BY DEF B!Quiet, B!Idle, Worked, Works, OutStages
<1>2. \A p \in Voices : ~Coming(w, p) /\ VoiceInv(w, p) /\ ~Missing(w, p)
  BY <1>1 DEF MediaSound, Coming, Before, B!Stops, OutStages
<1>3. ASSUME B!Settled
      PROVE  /\ IF w.input = "on" THEN w.cap /\ w.prod ELSE ~w.cap
             /\ w.outs = w.live \ w.deaf
             /\ \A p \in Voices : (w.nat[p] = "active") = (p \in w.outs)
             /\ \A p \in w.outs : w.cons[p] = "on" /\ w.lvl[p] = w.want[p]
  <2>1. B!Served(w) /\ w.queue = <<>> /\ \A k, p : ~MediaQueued(w, k, p)
    BY <1>3 DEF B!Settled, MediaQueued
  <2>2. IF w.input = "on" THEN w.cap /\ w.prod ELSE ~w.cap
    BY <1>1, <2>1 DEF MediaSound, Inputs
  <2>3. w.outs \subseteq Voices /\ w.live \subseteq Voices
    BY DEF MediaSound, MediaTypes
  <2>4. ASSUME NEW p \in Voices
        PROVE  /\ p \in w.outs <=> p \in w.live /\ p \notin w.deaf
               /\ w.nat[p] = "active" <=> p \in w.outs
               /\ p \in w.outs => w.cons[p] = "on" /\ w.lvl[p] = w.want[p]
    <3>1. p \in w.outs => p \in w.live
      BY <1>1, <1>2, <2>1 DEF VoiceInv, Ending, Worked
    <3>2. p \in w.outs => p \notin w.deaf
      BY <1>1, <1>2 DEF VoiceInv
    <3>3. p \in w.live /\ p \notin w.deaf => p \in w.outs
      BY <1>2, <2>1 DEF Missing
    <3>4. p \in w.outs => w.nat[p] = "active" /\ w.cons[p] = "on" /\ w.lvl[p] = w.want[p]
      BY <1>1, <1>2, <2>1 DEF VoiceInv, Plays, Heard
    <3>5. w.nat[p] = "active" => p \in w.outs
      BY <1>1, <1>2 DEF VoiceInv
    <3> QED BY <3>1, <3>2, <3>3, <3>4, <3>5
  <2> QED BY <2>2, <2>3, <2>4
<1>4. ASSUME w.sid = 0
      PROVE  ~w.cap /\ w.outs = {} /\ \A p \in Voices : w.nat[p] = "none"
  <2>1. w.outs = {} /\ ~w.cap
    BY <1>1, <1>4 DEF MediaSound, Orders, SessionOrder, Inputs
  <2> QED BY <1>1, <1>2, <2>1 DEF VoiceInv
<1> QED BY <1>3, <1>4 DEF B!PortAsServed

\* A port at rest captures exactly if the server has its producer and plays
\* every voice that addresses it, as loud as last asked for, and nothing else;
\* a port without a session uses no device.
THEOREM PortServed ==
  ASSUME B!MediaAssumption
  PROVE  B!Spec => []B!PortAsServed
<1>1. B!Init => MediaIInv
  BY Beginning DEF MediaIInv
<1>2. MediaIInv /\ [B!Next]_(B!vars) => MediaIInv'
  BY MediaKept
<1>3. MediaIInv => B!PortAsServed
  BY SoundServed
<1> QED BY <1>1, <1>2, <1>3, PTL DEF B!Spec

-----------------------------------------------------------------------------
(***************************************************************************)
(* Proofs about the server's configuration file, for any environment and   *)
(* any file to import, and however long the server runs: the hints of the  *)
(* settings page, the guest login and the automatic backups.               *)
(***************************************************************************)

CfgNames == {"file", "env", "up", "active", "profile", "half", "timer", "retryAt", "disk", "now"}

\* Nothing but the fields in X differs.
CfgSameBut(w, v, X) == \A n \in CfgNames \ X : v[n] = w[n]

\* A configuration that can be stored.
Formed(config) ==
  /\ DOMAIN config = C!Sections /\ config["media"] \in C!Media \cup {None}
  /\ config["guest"] = None \/ DOMAIN config["guest"] = {"on", "id"}
  /\ config["backup"] = None \/ config["backup"].days \in Nat

\* What the steps read and write.
CfgTypes(w) ==
  /\ DOMAIN w = CfgNames /\ (w.file = None \/ Formed(w.file))
  /\ w.env.media \in C!Media \cup {None}
  /\ w.timer \in Nat \cup {None} /\ w.disk \in Nat \cup {None} /\ w.retryAt \in Nat /\ w.now \in Nat

\* What the server runs with that its environment decided.
Fits(active, env) ==
  /\ active.media.route \in C!Media /\ (active.media.source = "env" <=> env.media # None)
  /\ env.media # None => active.media.route = env.media
  /\ active.rtc.source = "env" <=> env.rtc \in C!Ranges
  /\ env.rtc \in C!Ranges => active.rtc.range = env.rtc
Running(w) == w.up => Fits(w.active, w.env)

\* GuestReal of a world.
Guests(w) ==
  w.file # None /\ C!Guest(w.file).on /\ ~w.half => C!Guest(w.file).id # None /\ C!Guest(w.file).id = w.profile

\* The timer runs, and not beyond what it waits for.
Timed(w) ==
  w.up /\ C!On(w) =>
    /\ w.timer # None
    /\ \/ w.timer <= w.now
       \/ w.disk # None /\ w.timer <= w.disk + (C!Backup(w.file).days * C!Day)
       \/ w.timer <= w.retryAt

CfgInv(w) == CfgTypes(w) /\ Running(w) /\ Guests(w) /\ Timed(w)
CfgIInv == CfgInv(world)

(***************************************************************************)
(* Parts of a configuration.                                               *)
(***************************************************************************)
LEMMA SectionsAre ==
  /\ {"mdns", "media", "rtc", "guest", "clients", "multi", "backup"} = C!Sections
  /\ DOMAIN C!Blank = C!Sections /\ C!Blank["media"] = None /\ C!Blank["guest"] = None /\ C!Blank["backup"] = None
  BY DEF C!Sections, C!Blank

LEMMA BlankFormed == Formed(C!Blank)
  BY SectionsAre DEF Formed

LEMMA ConfigIs == ASSUME CfgIInv PROVE Formed(C!Config)
  BY BlankFormed DEF CfgIInv, CfgInv, CfgTypes, C!Config

LEMMA DaysIs ==
  ASSUME C!ConfigAssumption, NEW config, Formed(config)
  PROVE  C!Backup(config).days \in Nat /\ C!Day = 2
  BY DEF C!Backup, Formed, C!Day

\* One section is replaced.
LEMMA EditedFormed ==
  ASSUME NEW config, Formed(config), NEW section \in C!Sections, NEW value,
         section = "media" => value \in C!Media,
         section = "guest" => DOMAIN value = {"on", "id"},
         section = "backup" => value.days \in Nat
  PROVE  LET new == [config EXCEPT ![section] = value] IN
         /\ Formed(new) /\ new[section] = value
         /\ \A s \in C!Sections \ {section} : new[s] = config[s]
  BY SectionsAre DEF Formed

LEMMA MediaIs ==
  ASSUME C!ConfigAssumption, NEW media \in C!Media
  PROVE  /\ media.mode = "auto" => media = C!Auto
         /\ media.mode # "auto" => media.at # None
         /\ media.mode \in {"auto", "interface", "manual"}
         /\ media.mode = "manual" => media = [mode |-> "manual", at |-> media.at]
         /\ media.mode = "interface" => media = [mode |-> "interface", at |-> media.at]
         /\ C!Auto = [mode |-> "auto", at |-> None] /\ C!Auto \in C!Media
  BY DEF C!Media, C!Auto, C!ConfigAssumption

LEMMA SavedIs == ASSUME NEW config, Formed(config) PROVE C!SavedMedia(config) \in C!Media
  BY DEF Formed, C!SavedMedia, C!Media

\* The route a server has is that of its environment, or the saved one.
LEMMA RouteIs ==
  ASSUME C!ConfigAssumption, NEW config, Formed(config), NEW env, env.media \in C!Media \cup {None}
  PROVE  LET r == C!Route(C!Handed(config, env)) IN
         /\ r.route = IF env.media # None THEN env.media ELSE C!SavedMedia(config)
         /\ r.source = "env" <=> env.media # None
<1> DEFINE media == IF env.media # None THEN env.media ELSE C!SavedMedia(config)
           h == C!Handed(config, env)
           r == C!Route(h)
<1>1. media \in C!Media
  BY SavedIs
<1>2. /\ h.publicIp = (IF media.mode = "manual" THEN media.at ELSE None)
      /\ h.interface = (IF media.mode = "interface" THEN media.at ELSE None)
      /\ h.source = IF env.media # None THEN "env" ELSE IF media = C!Auto THEN "auto" ELSE "config"
  BY DEF C!Handed
<1>3. /\ r.route = (IF h.publicIp # None THEN [mode |-> "manual", at |-> h.publicIp]
                    ELSE IF h.interface # None THEN [mode |-> "interface", at |-> h.interface] ELSE C!Auto)
      /\ r.source = h.source
  BY DEF C!Route
<1> HIDE DEF media, h, r
<1>4. r.route = media
  BY <1>1, <1>2, <1>3, MediaIs
<1>5. r.source = "env" <=> env.media # None
  BY <1>2, <1>3
<1> QED BY <1>4, <1>5 DEF media, r, h

LEMMA BootedFits ==
  ASSUME C!ConfigAssumption, NEW config, Formed(config), NEW saved, NEW env, env.media \in C!Media \cup {None}
  PROVE  Fits(C!Booted(config, saved, env), env)
<1> DEFINE a == C!Booted(config, saved, env)
<1>1. a.media = C!Route(C!Handed(config, env)) /\ a.rtc = C!ActiveRtc(saved, env)
  BY DEF C!Booted
<1>2. /\ a.media.route = (IF env.media # None THEN env.media ELSE C!SavedMedia(config))
      /\ a.media.source = "env" <=> env.media # None
  BY <1>1, RouteIs
<1>3. /\ a.rtc.source = "env" <=> env.rtc \in C!Ranges
      /\ env.rtc \in C!Ranges => a.rtc.range = env.rtc
  BY <1>1 DEF C!ActiveRtc
<1> HIDE DEF a
<1>4. a.media.route \in C!Media
  BY <1>2, SavedIs
<1> QED BY <1>2, <1>3, <1>4 DEF Fits, a

(***************************************************************************)
(* The schedule.                                                           *)
(***************************************************************************)
LEMMA DueIs ==
  ASSUME C!ConfigAssumption, NEW w, CfgTypes(w), C!On(w), NEW ok \in BOOLEAN
  PROVE  /\ C!DueAt(w, ok) \in Nat
         /\ C!DueAt(w, ok) = w.now \/ (w.disk # None /\ C!DueAt(w, ok) = w.disk + (C!Backup(w.file).days * C!Day))
<1>1. C!Backup(w.file).days \in Nat /\ C!Day = 2
  BY DaysIs DEF CfgTypes, C!On
<1> QED BY <1>1 DEF C!DueAt, CfgTypes

LEMMA RunNowIs ==
  ASSUME NEW w, CfgTypes(w), NEW ok
  PROVE  CfgTypes(C!RunNow(w, ok)) /\ CfgSameBut(w, C!RunNow(w, ok), {"disk", "retryAt"})
<1> DEFINE v == C!RunNow(w, ok)
<1>1. /\ DOMAIN v = CfgNames /\ CfgSameBut(w, v, {"disk", "retryAt"})
      /\ v.disk \in {w.disk, w.now} /\ v.retryAt \in {0, w.now + C!Retry}
  BY DEF C!RunNow, CfgTypes, CfgSameBut, CfgNames
<1> HIDE DEF v
<1>2. CfgTypes(v)
  BY <1>1 DEF CfgTypes, CfgSameBut, CfgNames, C!Retry
<1> QED BY <1>1, <1>2 DEF v

\* A schedule does not look beyond what is waited for.
LEMMA ScheduleIs ==
  ASSUME C!ConfigAssumption, NEW w, CfgTypes(w), NEW ok \in BOOLEAN
  PROVE  LET v == C!Schedule(w, ok) IN
         CfgTypes(v) /\ CfgSameBut(w, v, {"timer", "retryAt"}) /\ Timed(v)
<1> DEFINE v == C!Schedule(w, ok)
           retry == IF ok THEN w.retryAt ELSE w.now + C!Retry
           at == C!Bigger(C!DueAt(w, ok), retry)
<1>1. CASE ~C!On(w)
  <2>1. v = [w EXCEPT !.timer = None]
    BY <1>1 DEF C!Schedule
  <2> HIDE DEF v
  <2>2. DOMAIN v = CfgNames /\ CfgSameBut(w, v, {"timer", "retryAt"}) /\ v.timer = None /\ v.retryAt = w.retryAt
    BY <2>1 DEF CfgTypes, CfgSameBut, CfgNames
  <2>3. CfgTypes(v)
    BY <2>2 DEF CfgTypes, CfgSameBut, CfgNames
  <2>4. ~C!On(v)
    BY <1>1, <2>2 DEF C!On, CfgSameBut, CfgNames
  <2> QED BY <2>2, <2>3, <2>4 DEF Timed, v
<1>2. CASE C!On(w)
  <2>1. v = [w EXCEPT !.retryAt = retry, !.timer = C!Smaller(C!Bigger(at, w.now), w.now + C!Day)]
    BY <1>2 DEF C!Schedule
  <2>2. retry \in Nat /\ (~ok => retry = w.now + 1)
    BY DEF CfgTypes, C!Retry
  <2>3. at \in Nat /\ (at = C!DueAt(w, ok) \/ at = retry) /\ at >= retry
    BY <1>2, <2>2, DueIs DEF C!Bigger
  <2>4. C!DueAt(w, ok) = w.now \/ (ok /\ w.disk # None /\ C!DueAt(w, ok) = w.disk + (C!Backup(w.file).days * C!Day))
    BY <1>2, DueIs DEF C!DueAt
  <2> HIDE DEF v, at, retry
  <2>5. /\ DOMAIN v = CfgNames /\ CfgSameBut(w, v, {"timer", "retryAt"})
        /\ v.timer = C!Smaller(C!Bigger(at, w.now), w.now + C!Day) /\ v.retryAt = retry
    BY <2>1 DEF CfgTypes, CfgSameBut, CfgNames
  <2>6. w.now \in Nat /\ w.now + C!Day \in Nat /\ w.now + C!Day > w.now
    BY DEF CfgTypes, C!Day
  <2>7. v.timer \in Nat /\ (v.timer <= w.now \/ v.timer <= at)
    BY <2>3, <2>5, <2>6 DEF C!Smaller, C!Bigger
  <2>8. CfgTypes(v)
    BY <2>2, <2>5, <2>7 DEF CfgTypes, CfgSameBut, CfgNames
  <2>9. v.now = w.now /\ v.disk = w.disk /\ v.file = w.file
    BY <2>5 DEF CfgSameBut, CfgNames
  <2>10. Timed(v)
    <3>1. v.timer # None
      BY <2>7 DEF C!ConfigAssumption
    <3>2. CASE at = retry
      BY <2>5, <2>7, <2>9, <3>1, <3>2 DEF Timed
    <3>3. CASE at = C!DueAt(w, ok)
      BY <2>4, <2>5, <2>7, <2>9, <3>1, <3>3 DEF Timed
    <3> QED BY <2>3, <3>2, <3>3
  <2> QED BY <2>5, <2>8, <2>10 DEF v
<1> QED BY <1>1, <1>2

\* What the schedule and a backup leave alone.
LEMMA Scheduled ==
  ASSUME C!ConfigAssumption, NEW w, CfgTypes(w), Running(w), Guests(w), NEW u, CfgTypes(u),
         CfgSameBut(w, u, {"disk", "retryAt", "timer"}), NEW ok \in BOOLEAN
  PROVE  CfgInv(C!Schedule(u, ok))
<1> DEFINE v == C!Schedule(u, ok)
<1>1. CfgTypes(v) /\ CfgSameBut(u, v, {"timer", "retryAt"}) /\ Timed(v)
  BY ScheduleIs
<1> HIDE DEF v
<1>2. v.up = w.up /\ v.active = w.active /\ v.env = w.env /\ v.file = w.file /\ v.half = w.half /\ v.profile = w.profile
  BY <1>1 DEF CfgSameBut, CfgNames
<1> QED BY <1>1, <1>2 DEF CfgInv, Running, Guests, v

LEMMA SettingsChangedIs ==
  ASSUME C!ConfigAssumption, NEW w, CfgTypes(w), Running(w), Guests(w), NEW now, NEW written, NEW ok \in BOOLEAN
  PROVE  CfgInv(C!SettingsChanged(w, now, written, ok))
<1> DEFINE reset == [w EXCEPT !.retryAt = 0]
           u == IF now /\ C!On(w) THEN C!RunNow(reset, written) ELSE reset
<1>1. CfgTypes(reset) /\ CfgSameBut(w, reset, {"retryAt"})
  BY DEF CfgTypes, CfgSameBut, CfgNames
<1>2. C!SettingsChanged(w, now, written, ok) = C!Schedule(u, ok)
  BY DEF C!SettingsChanged
<1> HIDE DEF reset
<1>3. CfgTypes(u) /\ CfgSameBut(w, u, {"disk", "retryAt", "timer"})
  <2>1. CfgTypes(C!RunNow(reset, written)) /\ CfgSameBut(reset, C!RunNow(reset, written), {"disk", "retryAt"})
    BY <1>1, RunNowIs
  <2> QED BY <1>1, <2>1 DEF CfgSameBut
<1> HIDE DEF u
<1> QED BY <1>2, <1>3, Scheduled

(***************************************************************************)
(* The file.                                                               *)
(***************************************************************************)
LEMMA StoredIs ==
  ASSUME NEW w, CfgTypes(w), NEW config, Formed(config), NEW fails
  PROVE  LET v == C!Stored(w, config, fails) IN
         /\ CfgTypes(v) /\ CfgSameBut(w, v, {"file"})
         /\ C!Done(fails) => v.file = config
         /\ ~C!Done(fails) => v.file \in {None, w.file}
<1> DEFINE v == C!Stored(w, config, fails)
<1>1. /\ DOMAIN v = CfgNames /\ CfgSameBut(w, v, {"file"})
      /\ C!Done(fails) => v.file = config
      /\ ~C!Done(fails) => v.file \in {None, w.file}
  BY DEF C!Stored, C!Done, CfgTypes, CfgSameBut, CfgNames
<1> HIDE DEF v
<1>2. CfgTypes(v)
  BY <1>1 DEF CfgTypes, CfgSameBut, CfgNames
<1> QED BY <1>1, <1>2 DEF v

\* The server forgets its file, or keeps it.
LEMMA FileGone ==
  ASSUME NEW w, CfgInv(w), NEW v, CfgTypes(v), CfgSameBut(w, v, {"file"}), v.file \in {None, w.file}
  PROVE  CfgInv(v)
<1>1. v.up = w.up /\ v.active = w.active /\ v.env = w.env /\ v.half = w.half /\ v.profile = w.profile
      /\ v.timer = w.timer /\ v.now = w.now /\ v.disk = w.disk /\ v.retryAt = w.retryAt
  BY DEF CfgSameBut, CfgNames
<1>2. CASE v.file = None
  BY <1>1, <1>2 DEF CfgInv, Running, Guests, Timed, C!On
<1>3. CASE v.file = w.file
  BY <1>1, <1>3 DEF CfgInv, Running, Guests, Timed, C!On
<1> QED BY <1>2, <1>3

\* A section that neither guests nor backups hang on is replaced.
LEMMA EditKeeps ==
  ASSUME C!ConfigAssumption, CfgIInv, NEW section \in C!Sections \ {"guest", "backup"}, NEW value,
         section = "media" => value \in C!Media, C!Edit(section, value)
  PROVE  CfgIInv'
<1> DEFINE new == [C!Config EXCEPT ![section] = value]
<1>1. PICK fails \in SUBSET {"save", "tear"} : world' = C!Stored(world, new, fails)
  BY DEF C!Edit
<1>2. Formed(new) /\ new["guest"] = C!Config["guest"] /\ new["backup"] = C!Config["backup"]
  BY ConfigIs, EditedFormed, SectionsAre
<1> HIDE DEF new
<1>3. /\ CfgTypes(world') /\ CfgSameBut(world, world', {"file"})
      /\ C!Done(fails) => world'.file = new
      /\ ~C!Done(fails) => world'.file \in {None, world.file}
  BY <1>1, <1>2, StoredIs DEF CfgIInv, CfgInv
<1>4. CASE ~C!Done(fails)
  BY <1>3, <1>4, FileGone DEF CfgIInv
<1>5. CASE C!Done(fails)
  <2>1. /\ world'.up = world.up /\ world'.active = world.active /\ world'.env = world.env
        /\ world'.half = world.half /\ world'.profile = world.profile /\ world'.timer = world.timer
        /\ world'.now = world.now /\ world'.disk = world.disk /\ world'.retryAt = world.retryAt
    BY <1>3 DEF CfgSameBut, CfgNames
  <2>2. C!Guest(new) = C!Guest(C!Config) /\ C!Backup(new) = C!Backup(C!Config)
    BY <1>2 DEF C!Guest, C!Backup
  <2>3. CASE world.file = None
    <3>1. ~C!Guest(C!Config).on /\ ~C!Backup(C!Config).on
      BY <2>3, SectionsAre DEF C!Config, C!Guest, C!Backup
    <3> QED BY <1>3, <1>5, <2>1, <2>2, <3>1 DEF CfgIInv, CfgInv, Running, Guests, Timed, C!On
  <2>4. CASE world.file # None
    BY <1>3, <1>5, <2>1, <2>2, <2>4 DEF CfgIInv, CfgInv, Running, Guests, Timed, C!On, C!Config
  <2> QED BY <2>3, <2>4
<1> QED BY <1>4, <1>5

\* The profile that is in the database is named by the file, or nobody may come in.
LEMMA GuestStored ==
  ASSUME C!ConfigAssumption, CfgIInv, NEW on, NEW id \in C!ProfileFor(world), NEW fails,
         world' = [C!Stored(world, [C!Config EXCEPT !["guest"] = [on |-> on, id |-> id]], fails)
                    EXCEPT !.profile = id, !.half = IF C!Done(fails) THEN FALSE ELSE @]
  PROVE  CfgIInv'
<1> DEFINE new == [C!Config EXCEPT !["guest"] = [on |-> on, id |-> id]]
           u == C!Stored(world, new, fails)
<1>1. id # None /\ (world.profile # None => id = world.profile)
  BY DEF C!ProfileFor, C!ConfigAssumption
<1>2. /\ Formed(new) /\ new["guest"] = [on |-> on, id |-> id] /\ new["backup"] = C!Config["backup"]
  BY ConfigIs, EditedFormed, SectionsAre
<1> HIDE DEF new
<1>3. /\ CfgTypes(u) /\ CfgSameBut(world, u, {"file"})
      /\ C!Done(fails) => u.file = new
      /\ ~C!Done(fails) => u.file \in {None, world.file}
  BY <1>2, StoredIs DEF CfgIInv, CfgInv
<1> HIDE DEF u
<1>4. /\ DOMAIN world' = CfgNames /\ CfgSameBut(u, world', {"profile", "half"}) /\ world'.profile = id
      /\ world'.half = IF C!Done(fails) THEN FALSE ELSE u.half
  BY <1>3 DEF CfgTypes, CfgSameBut, CfgNames, u, new
<1>5. CfgTypes(world')
  BY <1>3, <1>4 DEF CfgTypes, CfgSameBut, CfgNames
<1>6. /\ world'.up = world.up /\ world'.active = world.active /\ world'.env = world.env
      /\ world'.timer = world.timer /\ world'.file = u.file /\ u.half = world.half
      /\ world'.now = world.now /\ world'.disk = world.disk /\ world'.retryAt = world.retryAt
  BY <1>3, <1>4 DEF CfgSameBut, CfgNames
<1>7. CASE C!Done(fails)
  <2>1. C!Guest(new) = [on |-> on, id |-> id] \/ new["guest"] = None
    BY <1>2 DEF C!Guest
  <2>2. C!Guest(new).on => C!Guest(new).id = id
    BY <1>2 DEF C!Guest
  <2>3. C!Backup(new) = C!Backup(C!Config)
    BY <1>2 DEF C!Backup
  <2>4. Guests(world')
    BY <1>1, <1>3, <1>4, <1>6, <1>7, <2>2 DEF Guests
  <2>5. Timed(world')
    <3>1. world.file = None => ~C!Backup(C!Config).on
      BY SectionsAre DEF C!Config, C!Backup
    <3>2. world.file # None => C!Config = world.file
      BY DEF C!Config
    <3> QED BY <1>3, <1>6, <1>7, <2>3, <3>1, <3>2 DEF CfgIInv, CfgInv, Timed, C!On
  <2> QED BY <1>5, <1>6, <2>4, <2>5 DEF CfgIInv, CfgInv, Running
<1>8. CASE ~C!Done(fails)
  <2>1. CfgInv(u)
    BY <1>3, <1>8, FileGone DEF CfgIInv
  <2>2. world'.half = u.half
    BY <1>4, <1>8
  <2>3. Guests(world')
    <3>1. u.profile = world.profile
      BY <1>3 DEF CfgSameBut, CfgNames
    <3> QED BY <1>1, <1>4, <1>6, <2>1, <2>2, <3>1 DEF CfgInv, Guests
  <2>4. Timed(world') /\ Running(world')
    BY <1>4, <2>1 DEF CfgInv, Timed, C!On, Running, CfgSameBut, CfgNames
  <2> QED BY <1>5, <2>3, <2>4 DEF CfgIInv, CfgInv
<1> QED BY <1>7, <1>8

LEMMA GuestKeeps == ASSUME C!ConfigAssumption, CfgIInv, C!SubmitGuest \/ C!LoadGuest PROVE CfgIInv'
<1>1. CASE C!SubmitGuest
  <2>1. PICK on \in BOOLEAN : C!PutGuest(on)
    BY <1>1 DEF C!SubmitGuest
  <2>2. PICK id \in C!ProfileFor(world), fails \in SUBSET {"save", "tear"} :
          world' = [C!Stored(world, [C!Config EXCEPT !["guest"] = [on |-> on, id |-> id]], fails)
                      EXCEPT !.profile = id, !.half = IF C!Done(fails) THEN FALSE ELSE @]
    BY <2>1 DEF C!PutGuest
  <2> QED BY <2>2, GuestStored
<1>2. CASE C!LoadGuest
  <2>1. PICK id \in C!ProfileFor(world), fails \in SUBSET {"save", "tear"} :
          world' = [C!Stored(world, [C!Config EXCEPT !["guest"] = [on |-> C!Guest(C!Config).on, id |-> id]], fails)
                      EXCEPT !.profile = id, !.half = IF C!Done(fails) THEN FALSE ELSE @]
    BY <1>2 DEF C!LoadGuest
  <2> QED BY <2>1, GuestStored
<1> QED BY <1>1, <1>2

LEMMA BackupKeeps == ASSUME C!ConfigAssumption, CfgIInv, C!SubmitBackup PROVE CfgIInv'
<1>1. PICK on \in BOOLEAN, days \in C!Intervals : C!PutBackup(on, days)
  BY DEF C!SubmitBackup
<1> DEFINE new == [C!Config EXCEPT !["backup"] = [on |-> on, days |-> days]]
<1>2. PICK fails \in C!Outcomes :
        world' = IF C!Done(fails)
                 THEN C!SettingsChanged(C!Stored(world, new, fails), on /\ ~C!Backup(C!Config).on,
                                      C!Good(fails, "write"), C!Good(fails, "inspect"))
                 ELSE C!Stored(world, new, fails)
  BY <1>1 DEF C!PutBackup
<1>3. Formed(new) /\ new["guest"] = C!Config["guest"]
  BY ConfigIs, EditedFormed, SectionsAre DEF C!Intervals
<1> DEFINE u == C!Stored(world, new, fails)
<1> HIDE DEF new
<1>4. /\ CfgTypes(u) /\ CfgSameBut(world, u, {"file"})
      /\ C!Done(fails) => u.file = new
      /\ ~C!Done(fails) => u.file \in {None, world.file}
  BY <1>3, StoredIs DEF CfgIInv, CfgInv
<1> HIDE DEF u
<1>5. CASE ~C!Done(fails)
  BY <1>2, <1>4, <1>5, FileGone DEF CfgIInv, u
<1>6. CASE C!Done(fails)
  <2>1. C!Guest(new) = C!Guest(C!Config)
    BY <1>3 DEF C!Guest
  <2>2. Guests(u)
    <3>1. world.file = None => ~C!Guest(C!Config).on
      BY SectionsAre DEF C!Config, C!Guest
    <3>2. world.file # None => C!Config = world.file
      BY DEF C!Config
    <3>3. u.half = world.half /\ u.profile = world.profile
      BY <1>4 DEF CfgSameBut, CfgNames
    <3> QED BY <1>4, <1>6, <2>1, <3>1, <3>2, <3>3 DEF CfgIInv, CfgInv, Guests
  <2>3. Running(u)
    BY <1>4 DEF CfgIInv, CfgInv, Running, CfgSameBut, CfgNames
  <2>4. C!Good(fails, "inspect") \in BOOLEAN
    BY DEF C!Good
  <2>5. world' = C!SettingsChanged(u, on /\ ~C!Backup(C!Config).on, C!Good(fails, "write"), C!Good(fails, "inspect"))
    BY <1>2, <1>6 DEF u
  <2> QED BY <1>4, <2>2, <2>3, <2>4, <2>5, SettingsChangedIs DEF CfgIInv
<1> QED BY <1>5, <1>6

LEMMA ImportKeeps == ASSUME C!ConfigAssumption, CfgIInv, C!Import PROVE CfgIInv'
<1>1. PICK bundle \in Imports, fails \in C!Outcomes :
        LET config == C!Imported(C!Config, bundle.config)
            loaded == [world EXCEPT !.profile = bundle.profile]
        IN \E id \in IF config["guest"] # None THEN C!ProfileFor(loaded) ELSE {bundle.profile} :
             LET saved == C!Stored([loaded EXCEPT !.profile = id, !.half = ~C!Done(fails)], C!WithProfile(config, id), fails)
             IN  world' = IF C!Done(fails)
                          THEN C!SettingsChanged(saved, TRUE, C!Good(fails, "write"), C!Good(fails, "inspect"))
                          ELSE saved
  BY DEF C!Import
<1> DEFINE config == C!Imported(C!Config, bundle.config)
           loaded == [world EXCEPT !.profile = bundle.profile]
<1>2. PICK id \in IF config["guest"] # None THEN C!ProfileFor(loaded) ELSE {bundle.profile} :
        LET saved == C!Stored([loaded EXCEPT !.profile = id, !.half = ~C!Done(fails)], C!WithProfile(config, id), fails)
        IN  world' = IF C!Done(fails)
                     THEN C!SettingsChanged(saved, TRUE, C!Good(fails, "write"), C!Good(fails, "inspect"))
                     ELSE saved
  BY <1>1
<1> DEFINE w == [loaded EXCEPT !.profile = id, !.half = ~C!Done(fails)]
           new == C!WithProfile(config, id)
           u == C!Stored(w, new, fails)
<1>3. Formed(config)
  BY ConfigIs, SectionsAre DEF C!Imported, Formed, C!ConfigAssumption
<1>4. config["guest"] # None => id # None
  BY <1>2 DEF C!ProfileFor, C!ConfigAssumption
<1>5. /\ DOMAIN w = CfgNames /\ CfgSameBut(world, w, {"profile", "half"}) /\ w.profile = id /\ w.half = ~C!Done(fails)
  BY DEF CfgIInv, CfgInv, CfgTypes, CfgSameBut, CfgNames
<1>6. /\ Formed(new)
      /\ config["guest"] = None => new = config
      /\ config["guest"] # None => new["guest"].id = id /\ new["guest"].on = config["guest"].on
  <2> HIDE DEF config
  <2>1. CASE config["guest"] = None
    BY <1>3, <2>1 DEF C!WithProfile
  <2>2. CASE config["guest"] # None
    <3> DEFINE g == [config["guest"] EXCEPT !.id = id]
    <3>1. new = [config EXCEPT !["guest"] = g]
      BY <2>2 DEF C!WithProfile
    <3>2. DOMAIN g = {"on", "id"} /\ g.id = id /\ g.on = config["guest"].on
      BY <1>3, <2>2 DEF Formed
    <3> HIDE DEF g, new
    <3>3. Formed(new) /\ new["guest"] = g
      <4>1. "guest" \in C!Sections /\ "guest" # "media" /\ "guest" # "backup"
        BY SectionsAre
      <4>2. /\ Formed([config EXCEPT !["guest"] = g])
            /\ [config EXCEPT !["guest"] = g]["guest"] = g
        BY <1>3, <3>2, <4>1, EditedFormed
      <4> QED BY <3>1, <4>2
    <3> QED BY <2>2, <3>2, <3>3
  <2> QED BY <2>1, <2>2
<1> HIDE DEF config, loaded, w, new
<1>7. CfgTypes(w)
  BY <1>5 DEF CfgIInv, CfgInv, CfgTypes, CfgSameBut, CfgNames
<1>8. /\ CfgTypes(u) /\ CfgSameBut(w, u, {"file"})
      /\ C!Done(fails) => u.file = new
      /\ ~C!Done(fails) => u.file \in {None, w.file}
  BY <1>6, <1>7, StoredIs
<1> HIDE DEF u
<1>9. Running(u)
  BY <1>5, <1>8 DEF CfgIInv, CfgInv, Running, CfgSameBut, CfgNames
<1>10. world' = IF C!Done(fails)
                THEN C!SettingsChanged(u, TRUE, C!Good(fails, "write"), C!Good(fails, "inspect"))
                ELSE u
  BY <1>2 DEF u, w, new, config, loaded
<1>11. u.half = ~C!Done(fails) /\ u.profile = id
  BY <1>5, <1>8 DEF CfgSameBut, CfgNames
<1>12. Guests(u)
  <2>1. CASE ~C!Done(fails)
    BY <1>11, <2>1 DEF Guests
  <2>2. CASE C!Done(fails)
    <3>1. u.file = new
      BY <1>8, <2>2
    <3>2. CASE config["guest"] = None
      BY <1>6, <3>1, <3>2 DEF Guests, C!Guest
    <3>3. CASE config["guest"] # None
      <4>1. C!Guest(new).on => C!Guest(new).id = id
        BY <1>6, <3>3 DEF C!Guest
      <4> QED BY <1>4, <1>11, <3>1, <3>3, <4>1 DEF Guests
    <3> QED BY <3>2, <3>3
  <2> QED BY <2>1, <2>2
<1>13. CASE C!Done(fails)
  <2>1. C!Good(fails, "inspect") \in BOOLEAN
    BY DEF C!Good
  <2> QED BY <1>8, <1>9, <1>10, <1>12, <1>13, <2>1, SettingsChangedIs DEF CfgIInv
<1>14. CASE ~C!Done(fails)
  <2>1. u.file \in {None, world.file} /\ u.up = world.up /\ u.timer = world.timer /\ u.now = world.now
        /\ u.disk = world.disk /\ u.retryAt = world.retryAt
    BY <1>5, <1>8, <1>14 DEF CfgSameBut, CfgNames
  <2>2. Timed(u)
    BY <2>1 DEF CfgIInv, CfgInv, Timed, C!On
  <2> QED BY <1>8, <1>9, <1>10, <1>12, <1>14, <2>2 DEF CfgIInv, CfgInv
<1> QED BY <1>13, <1>14

LEMMA TimerKeeps == ASSUME C!ConfigAssumption, CfgIInv, C!TimerRuns PROVE CfgIInv'
<1>1. PICK fails \in SUBSET {"write", "inspect"}, seen \in BOOLEAN :
        world' = C!Schedule([(IF C!On(world) /\ C!NextAt(world, seen) <= world.now
                            THEN C!RunNow(world, C!Good(fails, "write")) ELSE world) EXCEPT !.timer = None],
                          C!Good(fails, "inspect"))
  BY DEF C!TimerRuns
<1> DEFINE ran == IF C!On(world) /\ C!NextAt(world, seen) <= world.now
                  THEN C!RunNow(world, C!Good(fails, "write")) ELSE world
           u == [ran EXCEPT !.timer = None]
<1>2. CfgTypes(ran) /\ CfgSameBut(world, ran, {"disk", "retryAt"})
  <2>1. CfgTypes(C!RunNow(world, C!Good(fails, "write")))
        /\ CfgSameBut(world, C!RunNow(world, C!Good(fails, "write")), {"disk", "retryAt"})
    BY RunNowIs DEF CfgIInv, CfgInv
  <2> QED BY <2>1 DEF CfgIInv, CfgInv, CfgSameBut
<1>3. world' = C!Schedule(u, C!Good(fails, "inspect"))
  BY <1>1
<1> HIDE DEF ran
<1>4. DOMAIN u = CfgNames /\ CfgSameBut(ran, u, {"timer"}) /\ u.timer = None
  BY <1>2 DEF CfgTypes, CfgSameBut, CfgNames
<1> HIDE DEF u
<1>5. CfgTypes(u) /\ CfgSameBut(world, u, {"disk", "retryAt", "timer"})
  BY <1>2, <1>4 DEF CfgTypes, CfgSameBut, CfgNames
<1>6. C!Good(fails, "inspect") \in BOOLEAN
  BY DEF C!Good
<1> QED BY <1>3, <1>5, <1>6, Scheduled DEF CfgIInv, CfgInv

LEMMA CfgTickKeeps == ASSUME C!ConfigAssumption, CfgIInv, C!Tick PROVE CfgIInv'
<1>1. world' = [world EXCEPT !.now = @ + 1] /\ ~C!TimerDue
  BY DEF C!Tick
<1>2. DOMAIN world' = CfgNames /\ CfgSameBut(world, world', {"now"}) /\ world'.now = world.now + 1
  BY <1>1 DEF CfgIInv, CfgInv, CfgTypes, CfgSameBut, CfgNames
<1>3. CfgTypes(world')
  BY <1>2 DEF CfgIInv, CfgInv, CfgTypes, CfgSameBut, CfgNames
<1>4. Running(world') /\ Guests(world')
  BY <1>2 DEF CfgIInv, CfgInv, Running, Guests, CfgSameBut, CfgNames
<1>5. /\ world'.up = world.up /\ world'.file = world.file /\ world'.timer = world.timer
      /\ world'.disk = world.disk /\ world'.retryAt = world.retryAt
  BY <1>2 DEF CfgSameBut, CfgNames
<1>6. Timed(world')
  <2> SUFFICES ASSUME world.up, C!On(world) PROVE Timed(world')
    BY <1>5 DEF Timed, C!On
  <2>1. /\ world.timer # None /\ world.timer \in Nat /\ world.now \in Nat
        /\ \/ world.timer <= world.now
           \/ world.disk # None /\ world.timer <= world.disk + (C!Backup(world.file).days * C!Day)
           \/ world.timer <= world.retryAt
    BY DEF CfgIInv, CfgInv, Timed, CfgTypes
  <2>2. world.timer <= world.now => world'.timer <= world'.now
    BY <1>2, <1>5, <2>1
  <2> QED BY <1>5, <2>1, <2>2 DEF Timed
<1> QED BY <1>3, <1>4, <1>6 DEF CfgIInv, CfgInv

LEMMA CfgStopKeeps == ASSUME CfgIInv, C!Stop PROVE CfgIInv'
<1>1. PICK torn \in BOOLEAN :
        world' = [world EXCEPT !.up = FALSE, !.active = None, !.timer = None, !.retryAt = 0,
                               !.file = IF torn THEN None ELSE @]
  BY DEF C!Stop
<1>2. /\ DOMAIN world' = CfgNames /\ CfgSameBut(world, world', {"up", "active", "timer", "retryAt", "file"})
      /\ world'.up = FALSE /\ world'.timer = None /\ world'.retryAt = 0 /\ world'.file \in {None, world.file}
  BY <1>1 DEF CfgIInv, CfgInv, CfgTypes, CfgSameBut, CfgNames
<1>3. CfgTypes(world')
  BY <1>2 DEF CfgIInv, CfgInv, CfgTypes, CfgSameBut, CfgNames
<1>4. Guests(world')
  BY <1>2 DEF CfgIInv, CfgInv, Guests, CfgSameBut, CfgNames
<1> QED BY <1>2, <1>3, <1>4 DEF CfgIInv, CfgInv, Running, Timed

\* A start, with the wizard or without.
LEMMA BootIs ==
  ASSUME C!ConfigAssumption, CfgIInv, NEW config, Formed(config), NEW saved, saved = None \/ Formed(saved),
         NEW ok \in BOOLEAN, saved = world.file \/ (saved # None => ~C!Guest(saved).on)
  PROVE  CfgInv(C!BootWith(config, saved, ok))
<1> DEFINE a == C!Booted(config, IF saved = None THEN C!Blank ELSE saved, world.env)
           u == [world EXCEPT !.up = TRUE, !.file = saved, !.active = a]
<1>1. C!BootWith(config, saved, ok) = C!Schedule(u, ok)
  BY DEF C!BootWith
<1>2. Fits(a, world.env)
  BY BootedFits DEF CfgIInv, CfgInv, CfgTypes
<1> HIDE DEF a
<1>3. /\ DOMAIN u = CfgNames /\ CfgSameBut(world, u, {"up", "file", "active"}) /\ u.up = TRUE /\ u.file = saved
      /\ u.active = a
  BY DEF CfgIInv, CfgInv, CfgTypes, CfgSameBut, CfgNames
<1> HIDE DEF u
<1>4. CfgTypes(u)
  BY <1>3 DEF CfgIInv, CfgInv, CfgTypes, CfgSameBut, CfgNames
<1>5. Running(u) /\ Guests(u)
  BY <1>2, <1>3 DEF CfgIInv, CfgInv, Running, Guests, CfgSameBut, CfgNames
<1> QED BY <1>1, <1>4, <1>5, Scheduled DEF CfgSameBut

LEMMA CfgStartKeeps == ASSUME C!ConfigAssumption, CfgIInv, C!Start PROVE CfgIInv'
<1>1. PICK fails \in SUBSET {"save", "inspect", "busy"} :
        \/ \E host \in C!Hosts \cup {C!Odd}, media \in C!PromptMedia, range \in C!PromptRtc :
             LET chosen == C!Wizard(host, media, range)
             IN  world' = C!BootWith(chosen, IF "save" \in fails THEN world.file ELSE chosen, C!Good(fails, "inspect"))
        \/ world' = C!BootWith(C!Config, world.file, C!Good(fails, "inspect"))
  BY DEF C!Start
<1>2. C!Good(fails, "inspect") \in BOOLEAN
  BY DEF C!Good
<1>3. ASSUME NEW host \in C!Hosts \cup {C!Odd}, NEW media \in C!PromptMedia, NEW range \in C!PromptRtc,
             LET chosen == C!Wizard(host, media, range)
             IN  world' = C!BootWith(chosen, IF "save" \in fails THEN world.file ELSE chosen, C!Good(fails, "inspect"))
      PROVE  CfgIInv'
  <2> DEFINE chosen == C!Wizard(host, media, range)
             saved == IF "save" \in fails THEN world.file ELSE chosen
  <2>1. /\ Formed(chosen) /\ ~C!Guest(chosen).on
    <3>1. /\ DOMAIN chosen = C!Sections /\ chosen["media"] = media /\ chosen["guest"] = None /\ chosen["backup"] = None
      BY SectionsAre DEF C!Wizard
    <3> HIDE DEF chosen
    <3> QED BY <3>1 DEF Formed, C!Guest, C!PromptMedia
  <2> HIDE DEF chosen
  <2>2. /\ saved = None \/ Formed(saved)
        /\ saved = world.file \/ (saved # None => ~C!Guest(saved).on)
    BY <2>1 DEF CfgIInv, CfgInv, CfgTypes
  <2>3. world' = C!BootWith(chosen, saved, C!Good(fails, "inspect"))
    BY <1>3 DEF chosen
  <2> HIDE DEF saved
  <2> QED BY <1>2, <2>1, <2>2, <2>3, BootIs DEF CfgIInv
<1>4. CASE world' = C!BootWith(C!Config, world.file, C!Good(fails, "inspect"))
  <2>1. Formed(C!Config) /\ (world.file = None \/ Formed(world.file))
    BY ConfigIs DEF CfgIInv, CfgInv, CfgTypes
  <2> QED BY <1>2, <1>4, <2>1, BootIs DEF CfgIInv
<1> QED BY <1>1, <1>3, <1>4

LEMMA InitFormed == ASSUME C!ConfigAssumption, C!Init PROVE CfgIInv
<1>1. PICK env \in Environments :
        world = [file |-> None, env |-> env, up |-> FALSE, active |-> None, profile |-> None, half |-> FALSE,
                 timer |-> None, retryAt |-> 0, disk |-> None, now |-> 0]
  BY DEF C!Init
<1> QED BY <1>1 DEF C!ConfigAssumption, CfgIInv, CfgInv, CfgTypes, Running, Guests, Timed, CfgNames

LEMMA CfgKept == ASSUME C!ConfigAssumption, CfgIInv, [C!Next]_(C!vars) PROVE CfgIInv'
<1>1. CASE UNCHANGED C!vars
  BY <1>1 DEF C!vars, CfgIInv
<1>2. CASE C!SubmitMdns \/ C!SubmitRtc \/ C!SubmitClients \/ C!PutMulti
  <2>1. \E section \in {"mdns", "rtc", "clients", "multi"} : \E value : C!Edit(section, value)
    BY <1>2 DEF C!SubmitMdns, C!SubmitRtc, C!SubmitClients, C!PutMulti, C!PutMdns, C!PutRtc, C!PutClients
  <2> QED BY <2>1, EditKeeps, SectionsAre
<1>3. CASE C!SubmitMedia
  <2>1. \E value \in C!Media : C!Edit("media", value)
    BY <1>3 DEF C!SubmitMedia, C!PutMedia
  <2> QED BY <2>1, EditKeeps, SectionsAre
<1>4. CASE C!SubmitGuest \/ C!LoadGuest
  BY <1>4, GuestKeeps
<1>5. CASE C!SubmitBackup
  BY <1>5, BackupKeeps
<1>6. CASE C!Import
  BY <1>6, ImportKeeps
<1>7. CASE C!TimerRuns \/ C!Tick
  BY <1>7, TimerKeeps, CfgTickKeeps
<1>8. CASE C!Stop \/ C!Start
  BY <1>8, CfgStopKeeps, CfgStartKeeps
<1> QED BY <1>1, <1>2, <1>3, <1>4, <1>5, <1>6, <1>7, <1>8 DEF C!Next

(***************************************************************************)
(* What the settings page says, who may come in, what was backed up.       *)
(***************************************************************************)
LEMMA HintsHold == ASSUME C!ConfigAssumption, CfgIInv PROVE C!HintsTrue
<1> SUFFICES ASSUME world.up PROVE C!HintsTrue
  BY DEF C!HintsTrue
<1> DEFINE next == C!Booted(C!Config, C!Config, world.env)
           saved == C!SavedMedia(C!Config)
<1>1. /\ Formed(C!Config) /\ Fits(world.active, world.env) /\ world.env.media \in C!Media \cup {None}
  BY ConfigIs DEF CfgIInv, CfgInv, Running, CfgTypes
<1>2. /\ next.media = C!Route(C!Handed(C!Config, world.env)) /\ next.rtc = C!ActiveRtc(C!Config, world.env)
      /\ next.mdns = C!ActiveMdns(C!Config, world.env)
  BY DEF C!Booted
<1>3. next.media.route = IF world.env.media # None THEN world.env.media ELSE saved
  BY <1>1, <1>2, RouteIs
<1>4. next.rtc.range = IF world.env.rtc \in C!Ranges THEN world.env.rtc ELSE C!SavedRtc(C!Config)
  BY <1>2 DEF C!ActiveRtc
<1>5. next.mdns = IF world.env.mdns # None THEN world.env.mdns
                  ELSE IF C!Config["mdns"] # None THEN C!Config["mdns"] ELSE "intercom"
  BY <1>2 DEF C!ActiveMdns
<1> HIDE DEF next
<1>6. (C!MediaHint = "restart") = (next.media.route # world.active.media.route)
  <2> DEFINE route == world.active.media.route
             override == world.active.media.source = "env"
             differ == saved.mode # route.mode \/ (saved.mode # "auto" /\ saved.at # route.at)
  <2>1. C!MediaAnswer.override = override /\ C!MediaAnswer.restart = (~override /\ differ)
    BY DEF C!MediaAnswer
  <2>2. (C!MediaHint = "restart") = (~override /\ differ)
    BY <2>1 DEF C!MediaHint
  <2>3. saved \in C!Media /\ route \in C!Media
    BY <1>1, SavedIs DEF Fits
  <2> HIDE DEF saved
  <2>4. differ <=> saved # route
    BY <2>3, MediaIs
  <2>5. CASE world.env.media # None
    BY <1>1, <1>3, <2>2, <2>5 DEF Fits
  <2>6. CASE world.env.media = None
    BY <1>1, <1>3, <2>2, <2>4, <2>6 DEF Fits
  <2> QED BY <2>5, <2>6
<1>7. (C!RtcHint = "restart") = (next.rtc.range # world.active.rtc.range)
  <2> DEFINE override == world.active.rtc.source = "env"
  <2>1. /\ C!RtcAnswer.override = override
        /\ C!RtcAnswer.restart = (~override /\ C!SavedRtc(C!Config) # world.active.rtc.range)
    BY DEF C!RtcAnswer
  <2>2. (C!RtcHint = "restart") = (~override /\ C!SavedRtc(C!Config) # world.active.rtc.range)
    BY <2>1 DEF C!RtcHint
  <2> QED BY <1>1, <1>4, <2>2 DEF Fits
<1>8. (world.env.mdns = None /\ C!Config["mdns"] # C!Odd) => (C!MdnsHint = "restart") = (next.mdns # world.active.mdns)
  <2> SUFFICES ASSUME world.env.mdns = None, C!Config["mdns"] # C!Odd
               PROVE  (C!MdnsHint = "restart") = (next.mdns # world.active.mdns)
    OBVIOUS
  <2>1. C!SavedMdns(C!Config) = next.mdns
    BY <1>5 DEF C!SavedMdns
  <2>2. C!MdnsAnswer.restart = (C!SavedMdns(C!Config) # world.active.mdns)
    BY DEF C!MdnsAnswer
  <2> QED BY <2>1, <2>2 DEF C!MdnsHint
<1> QED BY <1>6, <1>7, <1>8 DEF C!HintsTrue, next

LEMMA BackupsHold == ASSUME C!ConfigAssumption, CfgIInv PROVE C!BackupDue
<1> SUFFICES ASSUME world.up, C!On(world), ~C!TimerDue
             PROVE  \/ world.disk # None /\ world.disk + (C!Backup(world.file).days * C!Day) > world.now
                    \/ world.retryAt > world.now
  BY DEF C!BackupDue
<1>1. /\ world.timer # None
      /\ \/ world.timer <= world.now
         \/ world.disk # None /\ world.timer <= world.disk + (C!Backup(world.file).days * C!Day)
         \/ world.timer <= world.retryAt
      /\ world.timer \in Nat /\ world.now \in Nat /\ world.retryAt \in Nat /\ world.disk \in Nat \cup {None}
      /\ C!Backup(world.file).days \in Nat /\ C!Day = 2
  BY DaysIs DEF CfgIInv, CfgInv, Timed, CfgTypes, C!On
<1>2. ~(world.timer <= world.now)
  BY <1>1 DEF C!TimerDue
<1> QED BY <1>1, <1>2

\* What the settings page says of a restart is what a restart would do, guests
\* come in where the page says so, and backups are young (SettingsHold).
THEOREM ConfigHolds == ASSUME C!ConfigAssumption PROVE C!Spec => []C!SettingsHold
<1>1. C!Init => CfgIInv
  BY InitFormed
<1>2. CfgIInv /\ [C!Next]_(C!vars) => CfgIInv'
  BY CfgKept
<1>3. CfgIInv => C!SettingsHold
  <2>1. CfgIInv => C!GuestReal
    BY DEF CfgIInv, CfgInv, Guests, C!GuestReal, C!GuestLoginOpen
  <2> QED BY <2>1, HintsHold, BackupsHold DEF C!SettingsHold
<1> QED BY <1>1, <1>2, <1>3, PTL DEF C!Spec

-----------------------------------------------------------------------------
(***************************************************************************)
(* Proofs about what companions and pages are told of the users, for any   *)
(* number of accounts and productions: whoever is told of anything was told*)
(* what holds, and a page is red exactly while its user is on air.         *)
(***************************************************************************)

TallyNames ==
  {"at", "mic", "watched", "ptt", "to", "locked", "waits", "prods", "memb", "conf", "multi", "tally", "page",
   "open", "told", "answered", "untold"}

\* Nothing but the fields in S differs.
TallySameBut(w, v, fields) == \A f \in TallyNames \ fields : v[f] = w[f]

\* What the steps read and write: the productions that are left are some of
\* those of the beginning, and there is always one.
TallyTypes(w) ==
  /\ DOMAIN w = TallyNames
  /\ w.at \in [Accounts -> {T!Off, T!Null} \cup Numbers] /\ w.mic \in [Accounts -> {"none", "paused", "live"}]
  /\ w.ptt \in [Accounts -> BOOLEAN] /\ w.waits \in [Accounts -> {"no", "own", "former"}]
  /\ DOMAIN w.to = Accounts /\ DOMAIN w.locked = Accounts /\ DOMAIN w.watched = Accounts
  /\ DOMAIN w.conf = Accounts /\ DOMAIN w.page = Accounts
  /\ w.prods \subseteq Numbers /\ w.prods # {} /\ w.open \subseteq Numbers
  /\ w.tally \in [Numbers -> Accounts \cup {T!Null}] /\ w.untold \in BOOLEAN
  /\ DOMAIN w.told = Numbers /\ \A p \in Numbers : DOMAIN w.told[p] = Accounts

\* The first half of ToldWhatHolds, which a broadcast brings about.
Known(w) ==
  \A p \in w.open \cap w.prods : \A u \in Accounts : T!InProduction(w, u, p) => T!Knows(w, p, u)
Awaits(w) == \E u \in Accounts : w.waits[u] # "no"
KnownUnless(w) == w.untold \/ Awaits(w) \/ Known(w)

\* The second half.
RightlyRed(w, u) == w.at[u] \notin {T!Off, T!Null} => (w.page[u] <=> w.tally[w.at[u]] = u)
Red(w) == \A u \in Accounts : RightlyRed(w, u)

TallyInv(w) == TallyTypes(w) /\ KnownUnless(w) /\ Red(w)
TallyIInv == TallyInv(world)

LEMMA TypesBut ==
  ASSUME NEW w, NEW v, TallyTypes(w), DOMAIN v = TallyNames, TallySameBut(w, v, {"untold"}), v.untold \in BOOLEAN
  PROVE  TallyTypes(v)
  BY DEF TallyTypes, TallySameBut, TallyNames

(***************************************************************************)
(* What a companion is told depends on what the server knows, not on what  *)
(* others were told.                                                       *)
(***************************************************************************)
LEMMA TallyLeast == ASSUME NEW ns, ns \subseteq Nat, ns # {} PROVE \E n \in ns : \A m \in ns : n <= m
<1> DEFINE below == {ss \in Nat \X Nat : ss[1] < ss[2]}
<1>1. OpToRel(<, Nat) = below
  BY DEF OpToRel
<1>2. IsWellFoundedOn(below, Nat)
  BY <1>1, NatLessThanWellFounded
<1>3. PICK n \in ns : \A m \in ns : <<m, n>> \notin below
  <2> HIDE DEF below
  <2> QED BY <1>2, WFMin
<1>4. ASSUME NEW m \in ns PROVE n <= m
  <2>1. m \in Nat /\ n \in Nat /\ <<m, n>> \in Nat \X Nat
    OBVIOUS
  <2>2. m < n => <<m, n>> \in below
    BY <2>1
  <2> HIDE DEF below
  <2> QED BY <1>3, <2>1, <2>2
<1> QED BY <1>4

(* The first of some productions is one of them.                           *)
LEMMA MinIs == ASSUME T!TallyAssumption, NEW ns, ns \subseteq Numbers, ns # {} PROVE T!Min(ns) \in ns
<1>1. ns \subseteq Nat
  BY DEF T!TallyAssumption
<1>2. \E n \in ns : \A m \in ns : n <= m
  BY <1>1, TallyLeast
<1> QED BY <1>2 DEF T!Min

LEMMA AddressedIs ==
  ASSUME NEW w, NEW u, NEW e
  PROVE  e \in T!AddressedNow(w, u) <=>
           \E v \in Accounts : \E t \in T!ActiveTargets(w, v) : T!Reaches(w, v, t, u) /\ e = T!EntryOf(v, t)
  BY DEF T!AddressedNow

LEMMA StateDepends ==
  ASSUME NEW w, NEW v, TallySameBut(w, v, {"told", "answered", "untold", "page", "waits", "watched", "open"}), NEW p, NEW u
  PROVE  T!StateOf(v, p, u) = T!StateOf(w, p, u)
<1>1. /\ v.at = w.at /\ v.mic = w.mic /\ v.ptt = w.ptt /\ v.to = w.to /\ v.locked = w.locked
      /\ v.prods = w.prods /\ v.conf = w.conf /\ v.multi = w.multi /\ v.tally = w.tally
  BY DEF TallySameBut, TallyNames
<1>2. \A x : T!On(v, x) = T!On(w, x) /\ T!Effective(v, x) = T!Effective(w, x)
  BY <1>1 DEF T!On, T!Effective, T!Primary
<1>3. \A x : T!Member(v, x) = T!Member(w, x)
  BY <1>1, <1>2 DEF T!Member
<1>4. \A x, t : T!MayTalk(v, x, t) = T!MayTalk(w, x, t)
  BY <1>1, <1>3 DEF T!MayTalk
<1>5. \A x : T!ActiveTargets(v, x) = T!ActiveTargets(w, x)
  BY <1>1, <1>2, <1>4 DEF T!ActiveTargets
<1>6. \A x, y, t : T!Reaches(v, x, t, y) = T!Reaches(w, x, t, y)
  BY <1>1, <1>2, <1>3 DEF T!Reaches, T!SameProduction
<1>7. T!AddressedNow(v, u) = T!AddressedNow(w, u)
  <2>1. \A e : e \in T!AddressedNow(v, u) <=> e \in T!AddressedNow(w, u)
    BY <1>5, <1>6, AddressedIs
  <2>2. T!AddressedNow(v, u) = UNION {T!AddressedNow(v, u)} /\ T!AddressedNow(w, u) = UNION {T!AddressedNow(w, u)}
    OBVIOUS
  <2> QED BY <2>1, <2>2, Zenon
<1> QED BY <1>1, <1>2, <1>5, <1>7 DEF T!StateOf

(***************************************************************************)
(* Telling.                                                                *)
(***************************************************************************)
LEMMA ToldKnows ==
  ASSUME NEW w, NEW p, NEW u, w.told[p][u] = T!StateOf(w, p, u)
  PROVE  T!Knows(w, p, u)
  BY DEF T!Knows

LEMMA KnowsStill ==
  ASSUME NEW w, NEW v, NEW p, NEW u, T!Knows(w, p, u), v.told[p][u] = w.told[p][u],
         T!StateOf(v, p, u) = T!StateOf(w, p, u), v.prods = w.prods,
         <<p, u>> \in w.answered => <<p, u>> \in v.answered
  PROVE  T!Knows(v, p, u)
<1>1. T!Primary(v) = T!Primary(w)
  BY DEF T!Primary
<1> QED BY <1>1 DEF T!Knows

LEMMA EmitIs ==
  ASSUME NEW w, TallyTypes(w), NEW us
  PROVE  LET v == T!Emit(w, us) IN
         /\ TallyTypes(v) /\ TallySameBut(w, v, {"told", "answered"})
         /\ \A p \in Numbers, u \in Accounts :
              /\ v.told[p][u] = IF p \in w.open /\ u \in us /\ T!InProduction(w, u, p) THEN T!StateOf(w, p, u)
                                ELSE w.told[p][u]
              /\ ~(p \in w.open /\ u \in us /\ T!InProduction(w, u, p)) =>
                   (<<p, u>> \in w.answered => <<p, u>> \in v.answered)
<1> DEFINE v == T!Emit(w, us)
           told == [p \in Numbers |-> [u \in Accounts |->
                     IF u \in us /\ T!Hears(w, p, u) THEN T!StateOf(w, p, u) ELSE w.told[p][u]]]
           answered == {pu \in w.answered : ~(pu[2] \in us /\ T!Hears(w, pu[1], pu[2]))}
<1>1. v = [w EXCEPT !.told = told, !.answered = answered]
  BY DEF T!Emit
<1> HIDE DEF v
<1>2. /\ DOMAIN told = Numbers
      /\ \A p \in Numbers : DOMAIN told[p] = Accounts
      /\ \A p \in Numbers, u \in Accounts :
           /\ told[p][u] = IF p \in w.open /\ u \in us /\ T!InProduction(w, u, p) THEN T!StateOf(w, p, u) ELSE w.told[p][u]
           /\ ~(p \in w.open /\ u \in us /\ T!InProduction(w, u, p)) =>
                (<<p, u>> \in w.answered => <<p, u>> \in answered)
  BY DEF T!Hears
<1> HIDE DEF told, answered
<1>3. TallySameBut(w, v, {"told", "answered"}) /\ v.told = told /\ v.answered = answered /\ DOMAIN v = TallyNames
  BY <1>1 DEF TallyTypes, TallySameBut, TallyNames
<1>4. TallyTypes(v)
  BY <1>2, <1>3 DEF TallyTypes, TallySameBut, TallyNames
<1> QED BY <1>2, <1>3, <1>4 DEF v

(* After a broadcast everybody knows.                                      *)
LEMMA BroadcastIs ==
  ASSUME NEW w, TallyTypes(w)
  PROVE  LET v == T!Broadcast(w) IN TallyTypes(v) /\ TallySameBut(w, v, {"told", "answered", "untold"}) /\ Known(v) /\ v.untold = FALSE
<1> DEFINE e == T!Emit(w, Accounts)
           v == T!Broadcast(w)
<1>1. v = [e EXCEPT !.untold = FALSE]
  BY DEF T!Broadcast
<1>2. /\ TallyTypes(e) /\ TallySameBut(w, e, {"told", "answered"})
      /\ \A p \in Numbers, u \in Accounts :
           e.told[p][u] = IF p \in w.open /\ u \in Accounts /\ T!InProduction(w, u, p) THEN T!StateOf(w, p, u)
                          ELSE w.told[p][u]
  <2>1. /\ TallyTypes(e) /\ TallySameBut(w, e, {"told", "answered"})
        /\ \A p \in Numbers, u \in Accounts :
             /\ e.told[p][u] = IF p \in w.open /\ u \in Accounts /\ T!InProduction(w, u, p) THEN T!StateOf(w, p, u)
                               ELSE w.told[p][u]
             /\ ~(p \in w.open /\ u \in Accounts /\ T!InProduction(w, u, p)) =>
                  (<<p, u>> \in w.answered => <<p, u>> \in e.answered)
    BY EmitIs
  <2> HIDE DEF e, v
  <2> QED BY <2>1
<1> HIDE DEF e, v
<1>3. DOMAIN v = TallyNames /\ TallySameBut(e, v, {"untold"}) /\ v.untold = FALSE
  BY <1>1, <1>2 DEF TallyTypes, TallySameBut, TallyNames
<1>4. TallyTypes(v) /\ TallySameBut(w, v, {"told", "answered", "untold"})
  <2>1. TallySameBut(w, v, {"told", "answered", "untold"})
    BY <1>2, <1>3 DEF TallySameBut, TallyNames
  <2>2. TallyTypes(e)
    BY <1>2
  <2>3. TallyTypes(v)
    BY <1>3, <2>2, TypesBut
  <2> QED BY <2>1, <2>3
<1>5. ASSUME NEW p \in v.open \cap v.prods, NEW u \in Accounts, T!InProduction(v, u, p)
      PROVE  v.told[p][u] = T!StateOf(v, p, u)
  <2>1. p \in Numbers /\ p \in w.open /\ T!InProduction(w, u, p) /\ v.told = e.told
    BY <1>3, <1>4, <1>5 DEF TallyTypes, TallySameBut, TallyNames, T!InProduction
  <2>2. TallySameBut(w, v, {"told", "answered", "untold", "page", "waits", "watched", "open"})
    BY <1>4 DEF TallySameBut, TallyNames
  <2>3. T!StateOf(v, p, u) = T!StateOf(w, p, u)
    BY <2>2, StateDepends
  <2> QED BY <1>2, <2>1, <2>3
<1>6. Known(v)
  <2>1. ASSUME NEW p \in v.open \cap v.prods, NEW u \in Accounts, T!InProduction(v, u, p) PROVE T!Knows(v, p, u)
    BY <1>5, <2>1, ToldKnows
  <2> QED BY <2>1 DEF Known
<1> QED BY <1>3, <1>4, <1>6 DEF v

LEMMA SyncIs ==
  ASSUME NEW w, TallyTypes(w), NEW u \in Accounts
  PROVE  TallyTypes(T!Sync(w, u)) /\ TallySameBut(w, T!Sync(w, u), {"told", "answered", "locked"})
<1> DEFINE l == [w EXCEPT !.locked[u] = @ /\ T!ActiveTargets(w, u) # {}]
           v == T!Sync(w, u)
<1>1. TallyTypes(l) /\ TallySameBut(w, l, {"locked"})
  BY DEF TallyTypes, TallySameBut, TallyNames
<1>2. v = T!Emit(l, {u})
  BY DEF T!Sync
<1> HIDE DEF l, v
<1>3. TallyTypes(v) /\ TallySameBut(l, v, {"told", "answered"})
  BY <1>1, <1>2, EmitIs
<1>4. TallySameBut(w, v, {"told", "answered", "locked"})
  BY <1>1, <1>3 DEF TallySameBut, TallyNames
<1> QED BY <1>3, <1>4 DEF v

(* The pages of the users in us are told, if they have one.                *)
LEMMA TellPagesIs ==
  ASSUME T!TallyAssumption, NEW w, TallyTypes(w), NEW us
  PROVE  LET v == T!TellPages(w, us) IN
         /\ TallyTypes(v) /\ TallySameBut(w, v, {"page"})
         /\ \A u \in Accounts : u \in us \/ RightlyRed(w, u) => RightlyRed(v, u)
<1> DEFINE v == T!TellPages(w, us)
           red == [u \in Accounts |-> IF u \in us /\ T!On(w, u) THEN T!PageTally(w, u) ELSE w.page[u]]
<1>1. v = [w EXCEPT !.page = red]
  BY DEF T!TellPages
<1> HIDE DEF v
<1>2. TallyTypes(v) /\ TallySameBut(w, v, {"page"}) /\ v.page = red
  BY <1>1 DEF TallyTypes, TallySameBut, TallyNames
<1>3. v.at = w.at /\ v.tally = w.tally
  BY <1>2 DEF TallySameBut, TallyNames
<1>4. ASSUME NEW u \in Accounts, u \in us \/ RightlyRed(w, u) PROVE RightlyRed(v, u)
  <2>1. SUFFICES ASSUME w.at[u] \notin {T!Off, T!Null} PROVE v.page[u] <=> w.tally[w.at[u]] = u
    BY <1>3 DEF RightlyRed
  <2>2. v.page[u] = IF u \in us /\ T!On(w, u) THEN T!PageTally(w, u) ELSE w.page[u]
    BY <1>2
  <2>3. T!On(w, u) /\ T!PageTally(w, u) = (w.tally[w.at[u]] = u)
    BY <2>1 DEF T!On, T!PageTally, T!Effective
  <2> QED BY <1>4, <2>1, <2>2, <2>3 DEF RightlyRed
<1> QED BY <1>2, <1>4 DEF v

(* A handler that ends with a broadcast.                                   *)
LEMMA EndsToldIs ==
  ASSUME NEW w, TallyTypes(w), Red(w)
  PROVE  TallyInv(T!Broadcast(w))
<1> DEFINE v == T!Broadcast(w)
<1>1. TallyTypes(v) /\ TallySameBut(w, v, {"told", "answered", "untold"}) /\ Known(v)
  BY BroadcastIs
<1> HIDE DEF v
<1>2. Red(v)
  BY <1>1 DEF Red, RightlyRed, TallySameBut, TallyNames
<1> QED BY <1>1, <1>2 DEF TallyInv, KnownUnless, v

LEMMA Steady ==
  ASSUME NEW w, NEW v, Red(w), TallySameBut(w, v, TallyNames \ {"at", "tally", "page"})
  PROVE  Red(v)
  BY DEF Red, RightlyRed, TallySameBut, TallyNames

(***************************************************************************)
(* Pages.                                                                  *)
(***************************************************************************)
(* Whoever is moved, or whose production has another tally, is told.       *)
LEMMA MovedIs ==
  ASSUME T!TallyAssumption, NEW w, Red(w), NEW a, TallyTypes(a), NEW us,
         \A u \in Accounts \ us : /\ a.at[u] = w.at[u] /\ a.page[u] = w.page[u]
                                  /\ a.at[u] \notin {T!Off, T!Null} => a.tally[a.at[u]] = w.tally[a.at[u]]
  PROVE  LET v == T!TellPages(a, us) IN TallyTypes(v) /\ TallySameBut(a, v, {"page"}) /\ Red(v)
<1>1. \A u \in Accounts : u \in us \/ RightlyRed(a, u)
  BY DEF Red, RightlyRed
<1> DEFINE v == T!TellPages(a, us)
<1>2. TallyTypes(v) /\ TallySameBut(a, v, {"page"}) /\ \A u \in Accounts : u \in us \/ RightlyRed(a, u) => RightlyRed(v, u)
  BY TellPagesIs
<1> HIDE DEF v
<1>3. Red(v)
  BY <1>1, <1>2 DEF Red
<1> QED BY <1>2, <1>3 DEF v

(* A page in another production, or with another peer.                     *)
LEMMA EntersIs ==
  ASSUME T!TallyAssumption, NEW w, TallyTypes(w), Red(w), NEW u \in Accounts, NEW p \in w.prods
  PROVE  LET v == T!TellPages([w EXCEPT !.at[u] = p], {u}) IN TallyTypes(v) /\ Red(v)
<1> DEFINE a == [w EXCEPT !.at[u] = p]
<1>1. TallyTypes(a) /\ TallySameBut(w, a, {"at"}) /\ a.at = [w.at EXCEPT ![u] = p]
  BY DEF TallyTypes, TallySameBut, TallyNames
<1> HIDE DEF a
<1>2. \A x \in Accounts \ {u} : /\ a.at[x] = w.at[x] /\ a.page[x] = w.page[x]
                                /\ a.at[x] \notin {T!Off, T!Null} => a.tally[a.at[x]] = w.tally[a.at[x]]
  BY <1>1 DEF TallyTypes, TallySameBut, TallyNames
<1>3. TallyTypes(T!TellPages(a, {u})) /\ Red(T!TellPages(a, {u}))
  BY <1>1, <1>2, MovedIs
<1> QED BY <1>3 DEF a

LEMMA EmitRed == ASSUME NEW w, TallyTypes(w), Red(w), NEW us PROVE TallyTypes(T!Emit(w, us)) /\ Red(T!Emit(w, us))
<1> DEFINE v == T!Emit(w, us)
<1>1. TallyTypes(v) /\ TallySameBut(w, v, {"told", "answered"})
  BY EmitIs
<1> HIDE DEF v
<1>2. Red(v)
  BY <1>1, Steady DEF TallySameBut, TallyNames
<1> QED BY <1>1, <1>2 DEF v

LEMMA SyncRed ==
  ASSUME NEW w, TallyTypes(w), Red(w), NEW u \in Accounts PROVE TallyTypes(T!Sync(w, u)) /\ Red(T!Sync(w, u))
<1> DEFINE v == T!Sync(w, u)
<1>1. TallyTypes(v) /\ TallySameBut(w, v, {"told", "answered", "locked"})
  BY SyncIs
<1> HIDE DEF v
<1>2. Red(v)
  BY <1>1, Steady DEF TallySameBut, TallyNames
<1> QED BY <1>1, <1>2 DEF v

LEMMA TallyRegisterKeeps ==
  ASSUME T!TallyAssumption, NEW w, TallyInv(w), NEW u \in Accounts, NEW p \in w.prods
  PROVE  TallyInv(T!Register(w, u, p))
<1> DEFINE v == T!TellPages([w EXCEPT !.at[u] = p], {u})
<1>1. TallyTypes(v) /\ Red(v)
  BY EntersIs DEF TallyInv
<1>2. T!Register(w, u, p) = T!Broadcast(T!Sync(T!Emit(v, {u}), u))
  BY DEF T!Register
<1> HIDE DEF v
<1>3. TallyTypes(T!Emit(v, {u})) /\ Red(T!Emit(v, {u}))
  BY <1>1, EmitRed
<1>4. TallyTypes(T!Sync(T!Emit(v, {u}), u)) /\ Red(T!Sync(T!Emit(v, {u}), u))
  BY <1>3, SyncRed
<1> QED BY <1>2, <1>4, EndsToldIs

LEMMA SetActiveProductionKeeps ==
  ASSUME T!TallyAssumption, NEW w, TallyInv(w), NEW u \in Accounts, NEW p \in w.prods
  PROVE  TallyInv(T!SetActiveProduction(w, u, p))
  BY EntersIs, EndsToldIs DEF T!SetActiveProduction, TallyInv

LEMMA PttStateKeeps ==
  ASSUME NEW w, TallyInv(w), NEW u \in Accounts, NEW ts, NEW lock
  PROVE  TallyInv(T!PttState(w, u, ts, lock))
<1> DEFINE v == [w EXCEPT !.ptt[u] = ts # {}, !.to[u] = IF ts # {} THEN ts ELSE @, !.locked[u] = lock]
<1>1. TallyTypes(v) /\ TallySameBut(w, v, {"ptt", "to", "locked"})
  BY DEF TallyInv, TallyTypes, TallySameBut, TallyNames
<1>2. T!PttState(w, u, ts, lock) = T!Broadcast(T!Emit(v, {u}))
  BY DEF T!PttState
<1> HIDE DEF v
<1>3. Red(v)
  BY <1>1, Steady DEF TallyInv, TallySameBut, TallyNames
<1> QED BY <1>1, <1>2, <1>3, EmitRed, EndsToldIs

LEMMA TallyProduceKeeps ==
  ASSUME NEW w, TallyInv(w), NEW u \in Accounts, NEW slow
  PROVE  TallyInv(T!Produce(w, u, slow))
<1> DEFINE v == [w EXCEPT !.mic[u] = "live", !.watched[u] = ~slow]
<1>1. TallyTypes(v) /\ TallySameBut(w, v, {"mic", "watched"})
  BY DEF TallyInv, TallyTypes, TallySameBut, TallyNames
<1>2. T!Produce(w, u, slow) = T!Broadcast(T!Sync(v, u))
  BY DEF T!Produce
<1> HIDE DEF v
<1>3. Red(v)
  BY <1>1, Steady DEF TallyInv, TallySameBut, TallyNames
<1> QED BY <1>1, <1>2, <1>3, SyncRed, EndsToldIs

LEMMA TallyCloseProducerKeeps == ASSUME NEW w, TallyInv(w), NEW u \in Accounts PROVE TallyInv(T!CloseProducer(w, u))
<1> DEFINE v == [w EXCEPT !.mic[u] = "none", !.watched[u] = FALSE]
<1>1. TallyTypes(v) /\ TallySameBut(w, v, {"mic", "watched"})
  BY DEF TallyInv, TallyTypes, TallySameBut, TallyNames
<1>2. T!CloseProducer(w, u) = T!Broadcast(T!Sync(v, u))
  BY DEF T!CloseProducer
<1> HIDE DEF v
<1>3. Red(v)
  BY <1>1, Steady DEF TallyInv, TallySameBut, TallyNames
<1> QED BY <1>1, <1>2, <1>3, SyncRed, EndsToldIs

(* Something that nobody is told of, as the world says.                    *)
LEMMA UntoldIs == ASSUME NEW w, TallyTypes(w), Red(w), w.untold PROVE TallyInv(w)
  BY DEF TallyInv, KnownUnless

LEMMA SetPausedKeeps ==
  ASSUME NEW w, TallyInv(w), NEW u \in Accounts, NEW state \in {"paused", "live"}
  PROVE  TallyInv(T!SetPaused(w, u, state))
<1> DEFINE v == [w EXCEPT !.mic[u] = state]
           x == [v EXCEPT !.untold = TRUE]
<1>1. TallyTypes(v) /\ TallySameBut(w, v, {"mic"}) 
  BY DEF TallyInv, TallyTypes, TallySameBut, TallyNames
<1>2. T!SetPaused(w, u, state) = IF w.watched[u] THEN T!Broadcast(T!Sync(v, u)) ELSE x
  BY DEF T!SetPaused
<1> HIDE DEF v
<1>3. Red(v)
  BY <1>1, Steady DEF TallyInv, TallySameBut, TallyNames
<1>4. DOMAIN x = TallyNames /\ TallySameBut(v, x, {"untold"}) /\ x.untold = TRUE
  BY <1>1 DEF TallyTypes, TallySameBut, TallyNames
<1> HIDE DEF x
<1>5. TallyTypes(x)
  BY <1>1, <1>4, TypesBut
<1>6. Red(x)
  BY <1>3, <1>4, Steady DEF TallySameBut, TallyNames
<1>7. TallyInv(x)
  BY <1>4, <1>5, <1>6, UntoldIs
<1>8. TallyInv(T!Broadcast(T!Sync(v, u)))
  BY <1>1, <1>3, SyncRed, EndsToldIs
<1> QED BY <1>2, <1>7, <1>8

LEMMA TallyDisconnectKeeps == ASSUME NEW w, TallyInv(w), NEW u \in Accounts PROVE TallyInv(T!Disconnect(w, u))
<1> DEFINE v == [w EXCEPT !.at[u] = T!Off, !.mic[u] = "none", !.watched[u] = FALSE, !.ptt[u] = FALSE,
                          !.to[u] = {}, !.locked[u] = FALSE, !.page[u] = FALSE,
                          !.waits[u] = IF @ = "no" THEN @ ELSE "former"]
<1>1. /\ TallySameBut(w, v, {"at", "mic", "watched", "ptt", "to", "locked", "page", "waits"})
      /\ v.at = [w.at EXCEPT ![u] = T!Off] /\ v.page = [w.page EXCEPT ![u] = FALSE]
  BY DEF TallyInv, TallyTypes, TallySameBut, TallyNames
<1>2. TallyTypes(v)
  BY DEF TallyInv, TallyTypes, TallyNames
<1>3. T!Disconnect(w, u) = T!Broadcast(T!Emit(v, {u}))
  BY DEF T!Disconnect
<1> HIDE DEF v
<1>4. ASSUME NEW x \in Accounts PROVE RightlyRed(v, x)
  <2>1. v.tally = w.tally /\ RightlyRed(w, x)
    BY <1>1 DEF TallyInv, Red, TallySameBut, TallyNames
  <2>2. CASE x = u
    BY <1>1, <2>2 DEF RightlyRed, TallyInv, TallyTypes
  <2>3. CASE x # u
    BY <1>1, <2>1, <2>3 DEF RightlyRed, TallyInv, TallyTypes
  <2> QED BY <2>2, <2>3
<1>5. Red(v)
  BY <1>4 DEF Red
<1> QED BY <1>2, <1>3, <1>5, EmitRed, EndsToldIs

(* Without a producer, and not announced as talking, a user addresses      *)
(* nobody, whatever its targets are: nobody else's state changes with them.*)
LEMMA SilentTargets ==
  ASSUME NEW w, NEW v, NEW u \in Accounts, TallySameBut(w, v, {"to", "told", "answered", "untold"}),
         \A x \in Accounts \ {u} : v.to[x] = w.to[x], ~w.ptt[u], w.mic[u] = "none"
  PROVE  \A p, x : x \in Accounts \ {u} => T!StateOf(v, p, x) = T!StateOf(w, p, x)
<1>1. /\ v.at = w.at /\ v.mic = w.mic /\ v.ptt = w.ptt /\ v.locked = w.locked
      /\ v.prods = w.prods /\ v.conf = w.conf /\ v.multi = w.multi /\ v.tally = w.tally
  BY DEF TallySameBut, TallyNames
<1>2. \A x : T!On(v, x) = T!On(w, x) /\ T!Effective(v, x) = T!Effective(w, x)
  BY <1>1 DEF T!On, T!Effective, T!Primary
<1>3. \A x : T!Member(v, x) = T!Member(w, x)
  BY <1>1, <1>2 DEF T!Member
<1>4. \A x, t : T!MayTalk(v, x, t) = T!MayTalk(w, x, t)
  BY <1>1, <1>3 DEF T!MayTalk
<1>5. \A x \in Accounts : T!ActiveTargets(v, x) = T!ActiveTargets(w, x)
  BY <1>1, <1>2, <1>4 DEF T!ActiveTargets
<1>6. \A x, y, t : T!Reaches(v, x, t, y) = T!Reaches(w, x, t, y)
  BY <1>1, <1>2, <1>3 DEF T!Reaches, T!SameProduction
<1>7. \A x : T!AddressedNow(v, x) = T!AddressedNow(w, x)
  <2> SUFFICES ASSUME NEW x PROVE T!AddressedNow(v, x) = T!AddressedNow(w, x)
    OBVIOUS
  <2>1. \A e : e \in T!AddressedNow(v, x) <=> e \in T!AddressedNow(w, x)
    BY <1>5, <1>6, AddressedIs
  <2>2. T!AddressedNow(v, x) = UNION {T!AddressedNow(v, x)} /\ T!AddressedNow(w, x) = UNION {T!AddressedNow(w, x)}
    OBVIOUS
  <2> QED BY <2>1, <2>2, Zenon
<1> QED BY <1>1, <1>2, <1>5, <1>7 DEF T!StateOf

LEMMA TallyTargetsUpdatedKeeps ==
  ASSUME NEW w, TallyInv(w), NEW u \in Accounts, NEW ts, NEW slow
  PROVE  TallyInv(T!TargetsUpdated(w, u, ts, slow))
<1> DEFINE a == [w EXCEPT !.to[u] = ts]
           v == T!Emit(a, {u})
           x == [v EXCEPT !.untold = @ \/ w.ptt[u]]
           y == [v EXCEPT !.waits[u] = "own"]
<1>1. TallyTypes(a) /\ TallySameBut(w, a, {"to"}) /\ a.to = [w.to EXCEPT ![u] = ts]
  BY DEF TallyInv, TallyTypes, TallySameBut, TallyNames
<1>2. /\ TallyTypes(v) /\ TallySameBut(a, v, {"told", "answered"})
      /\ \A p \in Numbers, z \in Accounts :
           /\ v.told[p][z] = IF p \in a.open /\ z \in {u} /\ T!InProduction(a, z, p) THEN T!StateOf(a, p, z)
                             ELSE a.told[p][z]
           /\ ~(p \in a.open /\ z \in {u} /\ T!InProduction(a, z, p)) =>
                (<<p, z>> \in a.answered => <<p, z>> \in v.answered)
  <2> HIDE DEF a
  <2> QED BY <1>1, EmitIs
<1>3. T!TargetsUpdated(w, u, ts, slow) =
        IF w.mic[u] = "none" THEN x
        ELSE IF slow /\ w.mic[u] = "live" /\ ts # {} THEN y ELSE T!Broadcast(T!Sync(v, u))
  BY DEF T!TargetsUpdated
<1> HIDE DEF a, v
<1>4. Red(v)
  BY <1>1, <1>2, Steady DEF TallyInv, TallySameBut, TallyNames
<1>5. ASSUME w.mic[u] = "none" PROVE TallyInv(x)
  <2>1. w.untold \in BOOLEAN /\ w.ptt[u] \in BOOLEAN /\ v.untold = w.untold
    BY <1>1, <1>2 DEF TallyInv, TallyTypes, TallySameBut, TallyNames
  <2>2. DOMAIN x = TallyNames /\ TallySameBut(v, x, {"untold"}) /\ x.untold = (w.untold \/ w.ptt[u])
    BY <1>2, <2>1 DEF TallyTypes, TallySameBut, TallyNames
  <2> HIDE DEF x
  <2>3. TallyTypes(x)
    <3>1. x.untold \in BOOLEAN
      BY <2>2
    <3> QED BY <1>2, <2>2, <3>1, TypesBut
  <2>4. Red(x)
    BY <1>4, <2>2, Steady DEF TallySameBut, TallyNames
  <2>5. ASSUME ~w.untold, ~w.ptt[u], Known(w) PROVE Known(x)
    <3>1. /\ TallySameBut(w, x, {"to", "told", "answered", "untold"}) /\ x.to = [w.to EXCEPT ![u] = ts] /\ x.told = v.told
          /\ x.answered = v.answered
      BY <1>1, <1>2, <2>2 DEF TallySameBut, TallyNames
    <3>2. TallySameBut(a, x, {"told", "answered", "untold", "page", "waits", "watched", "open"})
      BY <1>2, <2>2 DEF TallySameBut, TallyNames
    <3>3. \A z \in Accounts \ {u} : x.to[z] = w.to[z]
      BY <3>1 DEF TallyInv, TallyTypes
    <3>4. \A p, z : z \in Accounts \ {u} => T!StateOf(x, p, z) = T!StateOf(w, p, z)
      <4>1. TallySameBut(w, x, {"to", "told", "answered", "untold"}) /\ ~w.ptt[u] /\ w.mic[u] = "none"
        BY <1>5, <2>5, <3>1
      <4> HIDE DEF y
      <4>2. u \in Accounts /\ \A z \in Accounts \ {u} : x.to[z] = w.to[z]
        BY <3>3
      <4>3. SUFFICES ASSUME NEW p, NEW z, z \in Accounts \ {u} PROVE T!StateOf(x, p, z) = T!StateOf(w, p, z)
        OBVIOUS
      <4> QED BY <4>1, <4>2, <4>3, SilentTargets
    <3>5. SUFFICES ASSUME NEW p \in x.open \cap x.prods, NEW z \in Accounts, T!InProduction(x, z, p)
                   PROVE  T!Knows(x, p, z)
      BY DEF Known
    <3>6. p \in Numbers /\ p \in w.open \cap w.prods /\ p \in a.open /\ T!InProduction(w, z, p) /\ T!InProduction(a, z, p)
      BY <1>1, <3>1, <3>5 DEF TallyInv, TallyTypes, TallySameBut, TallyNames, T!InProduction
    <3>7. CASE z = u
      <4>1. x.told[p][z] = T!StateOf(a, p, z)
        BY <1>2, <3>1, <3>6, <3>7
      <4>2. T!StateOf(x, p, z) = T!StateOf(a, p, z)
        BY <3>2, StateDepends
      <4> QED BY <4>1, <4>2, ToldKnows
    <3>8. CASE z # u
      <4>1. x.told[p][z] = w.told[p][z] /\ (<<p, z>> \in w.answered => <<p, z>> \in x.answered)
        BY <1>1, <1>2, <3>1, <3>6, <3>8 DEF TallySameBut, TallyNames
      <4>2. T!StateOf(x, p, z) = T!StateOf(w, p, z) /\ T!Knows(w, p, z)
        BY <2>5, <3>4, <3>6, <3>8 DEF Known
      <4>3. x.prods = w.prods
        BY <3>1 DEF TallySameBut, TallyNames
      <4> QED BY <4>1, <4>2, <4>3, KnowsStill
    <3> QED BY <3>7, <3>8
  <2>6. Awaits(w) => Awaits(x)
    BY <1>1, <1>2, <2>2 DEF Awaits, TallySameBut, TallyNames
  <2>7. KnownUnless(x)
    BY <2>1, <2>2, <2>5, <2>6 DEF TallyInv, KnownUnless
  <2> QED BY <2>3, <2>4, <2>7 DEF TallyInv
<1>6. TallyInv(y)
  <2>1. TallyTypes(y) /\ TallySameBut(v, y, {"waits"}) /\ y.waits[u] = "own"
    BY <1>2 DEF TallyTypes, TallySameBut, TallyNames
  <2> HIDE DEF y
  <2>2. Red(y)
    BY <1>4, <2>1, Steady DEF TallySameBut, TallyNames
  <2> QED BY <2>1, <2>2 DEF TallyInv, KnownUnless, Awaits
<1>7. TallyInv(T!Broadcast(T!Sync(v, u)))
  BY <1>2, <1>4, SyncRed, EndsToldIs
<1> QED BY <1>3, <1>5, <1>6, <1>7

LEMMA PushedKeeps ==
  ASSUME NEW w, TallyInv(w), NEW u \in Accounts, NEW keeps \in BOOLEAN
  PROVE  TallyInv(T!Pushed(w, u, keeps))
<1> DEFINE v == [w EXCEPT !.waits[u] = "no"]
           l == [v EXCEPT !.locked[u] = @ /\ keeps]
<1>1. TallyTypes(v) /\ TallySameBut(w, v, {"waits"})
  BY DEF TallyInv, TallyTypes, TallySameBut, TallyNames
<1>2. T!Pushed(w, u, keeps) = T!Broadcast(IF w.waits[u] = "own" THEN T!Sync(v, u) ELSE T!Emit(l, {u}))
  BY DEF T!Pushed
<1> HIDE DEF v
<1>3. Red(v)
  BY <1>1, Steady DEF TallyInv, TallySameBut, TallyNames
<1>4. TallyTypes(l) /\ TallySameBut(v, l, {"locked"})
  BY <1>1 DEF TallyTypes, TallySameBut, TallyNames
<1> HIDE DEF l
<1>5. Red(l)
  BY <1>3, <1>4, Steady DEF TallySameBut, TallyNames
<1>6. TallyInv(T!Broadcast(T!Sync(v, u)))
  BY <1>1, <1>3, SyncRed, EndsToldIs
<1>7. TallyInv(T!Broadcast(T!Emit(l, {u})))
  BY <1>4, <1>5, EmitRed, EndsToldIs
<1> QED BY <1>2, <1>6, <1>7

LEMMA WatchedKeeps ==
  ASSUME NEW w, TallyInv(w), NEW u \in Accounts
  PROVE  TallyInv([w EXCEPT !.watched[u] = TRUE])
<1> DEFINE v == [w EXCEPT !.watched[u] = TRUE]
<1>1. TallyTypes(v) /\ TallySameBut(w, v, {"watched"})
  BY DEF TallyInv, TallyTypes, TallySameBut, TallyNames
<1> HIDE DEF v
<1>2. Red(v)
  BY <1>1, Steady DEF TallyInv, TallySameBut, TallyNames
<1>3. \A p, x : T!StateOf(v, p, x) = T!StateOf(w, p, x)
  BY <1>1, StateDepends DEF TallySameBut, TallyNames
<1>4. v.untold = w.untold /\ v.waits = w.waits /\ v.told = w.told /\ v.open = w.open /\ v.prods = w.prods /\ v.memb = w.memb
  BY <1>1 DEF TallySameBut, TallyNames
<1>5. ASSUME Known(w) PROVE Known(v)
  <2>1. SUFFICES ASSUME NEW p \in v.open \cap v.prods, NEW z \in Accounts, T!InProduction(v, z, p) PROVE T!Knows(v, p, z)
    BY DEF Known
  <2>2. T!Knows(w, p, z)
    BY <1>4, <1>5, <2>1 DEF Known, T!InProduction
  <2>3. v.answered = w.answered
    BY <1>1 DEF TallySameBut, TallyNames
  <2> QED BY <1>3, <1>4, <2>2, <2>3, KnowsStill
<1>6. KnownUnless(v)
  BY <1>4, <1>5 DEF TallyInv, KnownUnless, Awaits
<1> QED BY <1>1, <1>2, <1>6 DEF TallyInv, v

(***************************************************************************)
(* Companions, and the video mixer.                                        *)
(***************************************************************************)
LEMMA SnapshotKeeps ==
  ASSUME NEW w, TallyInv(w), NEW p \in w.prods
  PROVE  TallyInv(T!Snapshot(w, p))
<1> DEFINE v == [w EXCEPT !.open = @ \cup {p}]
           row == [u \in Accounts |-> IF T!InProduction(w, u, p) THEN T!StateOf(v, p, u) ELSE T!Unknown]
           x == [v EXCEPT !.told[p] = row, !.answered = {pu \in @ : pu[1] # p}]
<1>1. TallyTypes(v) /\ TallySameBut(w, v, {"open"}) /\ v.open = w.open \cup {p} /\ p \in Numbers
  BY DEF TallyInv, TallyTypes, TallySameBut, TallyNames
<1>2. T!Snapshot(w, p) = x
  BY DEF T!Snapshot
<1>3. DOMAIN row = Accounts /\ \A u \in Accounts : row[u] = IF T!InProduction(w, u, p) THEN T!StateOf(v, p, u) ELSE T!Unknown
  OBVIOUS
<1> HIDE DEF v, row
<1>4. /\ TallyTypes(x) /\ TallySameBut(v, x, {"told", "answered"}) /\ x.told = [v.told EXCEPT ![p] = row]
      /\ x.answered = {pu \in v.answered : pu[1] # p}
  BY <1>1, <1>3 DEF TallyTypes, TallySameBut, TallyNames
<1> HIDE DEF x
<1>5. Red(x)
  BY <1>1, <1>4, Steady DEF TallyInv, TallySameBut, TallyNames
<1>6. \A q, z : T!StateOf(x, q, z) = T!StateOf(v, q, z) /\ T!StateOf(v, q, z) = T!StateOf(w, q, z)
  BY <1>1, <1>4, StateDepends DEF TallySameBut, TallyNames
<1>7. ASSUME Known(w) PROVE Known(x)
  <2>1. SUFFICES ASSUME NEW q \in x.open \cap x.prods, NEW z \in Accounts, T!InProduction(x, z, q)
                 PROVE  T!Knows(x, q, z)
    BY DEF Known
  <2>2. /\ q \in Numbers /\ q \in w.open \cup {p} /\ q \in w.prods /\ T!InProduction(w, z, q)
        /\ DOMAIN v.told = Numbers /\ v.told = w.told /\ v.answered = w.answered /\ x.prods = w.prods
    BY <1>1, <1>4, <2>1 DEF TallyInv, TallyTypes, TallySameBut, TallyNames, T!InProduction
  <2>3. CASE q = p
    <3>1. x.told[q][z] = T!StateOf(x, q, z)
      BY <1>3, <1>4, <1>6, <2>2, <2>3
    <3> QED BY <3>1, ToldKnows
  <2>4. CASE q # p
    <3>1. T!Knows(w, q, z) /\ x.told[q][z] = w.told[q][z] /\ T!StateOf(x, q, z) = T!StateOf(w, q, z)
      BY <1>4, <1>6, <1>7, <2>2, <2>4 DEF Known
    <3>2. <<q, z>> \in w.answered => <<q, z>> \in x.answered
      BY <1>4, <2>2, <2>4
    <3> QED BY <2>2, <3>1, <3>2, KnowsStill
  <2> QED BY <2>3, <2>4
<1>8. x.untold = w.untold /\ (Awaits(w) => Awaits(x))
  BY <1>1, <1>4 DEF Awaits, TallySameBut, TallyNames
<1>9. KnownUnless(x)
  BY <1>7, <1>8 DEF TallyInv, KnownUnless
<1> QED BY <1>2, <1>4, <1>5, <1>9 DEF TallyInv

(* A lock is told of its user alone.                                       *)
LEMMA LockStates ==
  ASSUME NEW w, NEW v, TallySameBut(w, v, {"locked", "told", "answered"}), NEW p, NEW u, v.locked[u] = w.locked[u]
  PROVE  T!StateOf(v, p, u) = T!StateOf(w, p, u)
<1>1. /\ v.at = w.at /\ v.mic = w.mic /\ v.ptt = w.ptt /\ v.to = w.to
      /\ v.prods = w.prods /\ v.conf = w.conf /\ v.multi = w.multi /\ v.tally = w.tally
  BY DEF TallySameBut, TallyNames
<1>2. \A y : T!On(v, y) = T!On(w, y) /\ T!Effective(v, y) = T!Effective(w, y)
  BY <1>1 DEF T!On, T!Effective, T!Primary
<1>3. \A y : T!Member(v, y) = T!Member(w, y)
  BY <1>1, <1>2 DEF T!Member
<1>4. \A y, t : T!MayTalk(v, y, t) = T!MayTalk(w, y, t)
  BY <1>1, <1>3 DEF T!MayTalk
<1>5. \A y : T!ActiveTargets(v, y) = T!ActiveTargets(w, y)
  BY <1>1, <1>2, <1>4 DEF T!ActiveTargets
<1>6. \A y, z, t : T!Reaches(v, y, t, z) = T!Reaches(w, y, t, z)
  BY <1>1, <1>2, <1>3 DEF T!Reaches, T!SameProduction
<1>7. T!AddressedNow(v, u) = T!AddressedNow(w, u)
  <2>1. \A e : e \in T!AddressedNow(v, u) <=> e \in T!AddressedNow(w, u)
    BY <1>5, <1>6, AddressedIs
  <2>2. T!AddressedNow(v, u) = UNION {T!AddressedNow(v, u)} /\ T!AddressedNow(w, u) = UNION {T!AddressedNow(w, u)}
    OBVIOUS
  <2> QED BY <2>1, <2>2, Zenon
<1> QED BY <1>1, <1>2, <1>5, <1>7 DEF T!StateOf

(* The result of a command: the primary production's companions know the   *)
(* user as ever, the others all but the tally.                             *)
LEMMA CommandResultKeeps ==
  ASSUME NEW w, TallyInv(w), NEW u \in Accounts, NEW lock \in BOOLEAN
  PROVE  TallyInv(T!CommandResult(w, u, lock))
<1> DEFINE a == [w EXCEPT !.locked[u] = lock]
           v == T!Emit(a, {u})
           told == [p \in Numbers |-> [z \in Accounts |->
                     IF z = u /\ T!Hears(v, p, u) THEN T!StateOf(v, T!Primary(v), u) ELSE v.told[p][z]]]
           answered == v.answered \cup {pu \in Numbers \X {u} : T!Hears(v, pu[1], u)}
           x == [v EXCEPT !.told = told, !.answered = answered]
<1>1. T!CommandResult(w, u, lock) = x
  BY DEF T!CommandResult
<1>2. TallyTypes(a) /\ TallySameBut(w, a, {"locked"}) /\ a.locked = [w.locked EXCEPT ![u] = lock]
  BY DEF TallyInv, TallyTypes, TallySameBut, TallyNames
<1> HIDE DEF a
<1>3. /\ TallyTypes(v) /\ TallySameBut(a, v, {"told", "answered"})
      /\ \A p \in Numbers, z \in Accounts :
           /\ v.told[p][z] = IF p \in a.open /\ z \in {u} /\ T!InProduction(a, z, p) THEN T!StateOf(a, p, z)
                             ELSE a.told[p][z]
           /\ ~(p \in a.open /\ z \in {u} /\ T!InProduction(a, z, p)) =>
                (<<p, z>> \in a.answered => <<p, z>> \in v.answered)
  BY <1>2, EmitIs
<1> HIDE DEF v
<1>4. /\ DOMAIN told = Numbers /\ \A p \in Numbers : DOMAIN told[p] = Accounts
      /\ \A p \in Numbers, z \in Accounts :
           told[p][z] = IF z = u /\ T!Hears(v, p, u) THEN T!StateOf(v, T!Primary(v), u) ELSE v.told[p][z]
      /\ \A p \in Numbers : T!Hears(v, p, u) => <<p, u>> \in answered
      /\ \A pu \in v.answered : pu \in answered
  OBVIOUS
<1> HIDE DEF told, answered
<1>5. DOMAIN x = TallyNames /\ TallySameBut(v, x, {"told", "answered"}) /\ x.told = told /\ x.answered = answered
  BY <1>3 DEF TallyTypes, TallySameBut, TallyNames
<1> HIDE DEF x
<1>6. TallyTypes(x)
  BY <1>3, <1>4, <1>5 DEF TallyTypes, TallySameBut, TallyNames
<1>7. TallySameBut(w, x, {"locked", "told", "answered"}) /\ x.locked = [w.locked EXCEPT ![u] = lock]
  BY <1>2, <1>3, <1>5 DEF TallySameBut, TallyNames
<1>8. Red(x)
  BY <1>7, Steady DEF TallyInv, TallySameBut, TallyNames
<1>9. ASSUME Known(w) PROVE Known(x)
  <2>1. SUFFICES ASSUME NEW q \in x.open \cap x.prods, NEW z \in Accounts, T!InProduction(x, z, q)
                 PROVE  T!Knows(x, q, z)
    BY DEF Known
  <2>2. /\ q \in Numbers /\ q \in w.open \cap w.prods /\ T!InProduction(w, z, q)
        /\ x.prods = w.prods /\ v.open = w.open /\ v.memb = w.memb /\ a.told = w.told /\ a.answered = w.answered
    BY <1>2, <1>3, <1>6, <1>7, <2>1 DEF TallyTypes, TallySameBut, TallyNames, T!InProduction
  <2>3. \A p, y : T!StateOf(x, p, y) = T!StateOf(v, p, y)
    BY <1>5, StateDepends DEF TallySameBut, TallyNames
  <2>4. CASE z = u
    <3>1. T!Hears(v, q, u)
      BY <2>2, <2>4 DEF T!Hears, T!InProduction
    <3>2. x.told[q][z] = T!StateOf(x, T!Primary(x), z) /\ <<q, z>> \in x.answered
      <4>1. T!Primary(x) = T!Primary(v)
        BY <1>5 DEF T!Primary, TallySameBut, TallyNames
      <4>2. told[q][z] = T!StateOf(v, T!Primary(v), u) /\ <<q, z>> \in answered
        BY <1>4, <2>2, <2>4, <3>1
      <4> QED BY <1>5, <2>3, <2>4, <4>1, <4>2
    <3>3. \A f \in {"on", "to", "by", "locked"} : T!StateOf(x, T!Primary(x), z)[f] = T!StateOf(x, q, z)[f]
      BY DEF T!StateOf
    <3>4. q = T!Primary(x) => x.told[q][z] = T!StateOf(x, q, z)
      BY <3>2
    <3> QED BY <3>2, <3>3, <3>4 DEF T!Knows
  <2>5. CASE z # u
    <3>1. x.told[q][z] = w.told[q][z]
      BY <1>3, <1>4, <1>5, <2>2, <2>5
    <3>2. <<q, z>> \in w.answered => <<q, z>> \in x.answered
      BY <1>3, <1>4, <1>5, <2>2, <2>5
    <3>3. T!StateOf(x, q, z) = T!StateOf(w, q, z)
      <4>1. x.locked[z] = w.locked[z]
        <5>1. DOMAIN w.locked = Accounts
          BY DEF TallyInv, TallyTypes
        <5>2. [w.locked EXCEPT ![u] = lock][z] = w.locked[z]
          BY <2>5, <5>1
        <5> QED BY <1>7, <5>2
      <4>2. TallySameBut(w, x, {"locked", "told", "answered"})
        BY <1>7
      <4>3. \A p : T!StateOf(x, p, z) = T!StateOf(w, p, z)
        BY <4>1, <4>2, LockStates
      <4> QED BY <4>3
    <3>4. T!Knows(w, q, z)
      BY <1>9, <2>2 DEF Known
    <3> QED BY <2>2, <3>1, <3>2, <3>3, <3>4, KnowsStill
  <2> QED BY <2>4, <2>5
<1>10. x.untold = w.untold /\ (Awaits(w) => Awaits(x))
  BY <1>7 DEF Awaits, TallySameBut, TallyNames
<1>11. KnownUnless(x)
  BY <1>9, <1>10 DEF TallyInv, KnownUnless
<1> QED BY <1>1, <1>6, <1>8, <1>11 DEF TallyInv

(* What a cut changes of the state of a user, for a companion of p.        *)
LEMMA CutStates ==
  ASSUME NEW w, NEW v, TallySameBut(w, v, {"tally", "told", "answered", "page"}), NEW p, NEW u,
         (v.tally[p] = u) <=> (w.tally[p] = u)
  PROVE  T!StateOf(v, p, u) = T!StateOf(w, p, u)
<1> DEFINE x == [v EXCEPT !.tally = w.tally]
<1>1. /\ v.at = w.at /\ v.mic = w.mic /\ v.ptt = w.ptt /\ v.to = w.to /\ v.locked = w.locked
      /\ v.prods = w.prods /\ v.conf = w.conf /\ v.multi = w.multi
  BY DEF TallySameBut, TallyNames
<1>2. \A y : T!On(v, y) = T!On(w, y) /\ T!Effective(v, y) = T!Effective(w, y)
  BY <1>1 DEF T!On, T!Effective, T!Primary
<1>3. \A y : T!Member(v, y) = T!Member(w, y)
  BY <1>1, <1>2 DEF T!Member
<1>4. \A y, t : T!MayTalk(v, y, t) = T!MayTalk(w, y, t)
  BY <1>1, <1>3 DEF T!MayTalk
<1>5. \A y : T!ActiveTargets(v, y) = T!ActiveTargets(w, y)
  BY <1>1, <1>2, <1>4 DEF T!ActiveTargets
<1>6. \A y, z, t : T!Reaches(v, y, t, z) = T!Reaches(w, y, t, z)
  BY <1>1, <1>2, <1>3 DEF T!Reaches, T!SameProduction
<1>7. T!AddressedNow(v, u) = T!AddressedNow(w, u)
  <2>1. \A e : e \in T!AddressedNow(v, u) <=> e \in T!AddressedNow(w, u)
    BY <1>5, <1>6, AddressedIs
  <2>2. T!AddressedNow(v, u) = UNION {T!AddressedNow(v, u)} /\ T!AddressedNow(w, u) = UNION {T!AddressedNow(w, u)}
    OBVIOUS
  <2> QED BY <2>1, <2>2, Zenon
<1>8. (v.tally[p] = u) = (w.tally[p] = u)
  OBVIOUS
<1> QED BY <1>1, <1>2, <1>5, <1>7, <1>8 DEF T!StateOf

(* The users the cut concerns are told anew; of the others nothing changes.*)
LEMMA CutCameraKeeps ==
  ASSUME T!TallyAssumption, NEW w, TallyInv(w), NEW p \in w.prods, NEW c \in Accounts \cup {T!Null}
  PROVE  TallyInv(T!CutCamera(w, p, c))
<1> DEFINE a == [w EXCEPT !.tally[p] = c]
           us == {u \in Accounts : w.at[u] = p}
           touched == {u \in {w.tally[p], c} \ {T!Null} : w.tally[p] # c /\ T!InProduction(w, u, p)}
           v == T!TellPages(a, us)
           x == T!Emit(v, touched)
<1>1. T!CutCamera(w, p, c) = x
  BY DEF T!CutCamera
<1>2. TallyTypes(a) /\ TallySameBut(w, a, {"tally"}) /\ a.tally = [w.tally EXCEPT ![p] = c] /\ p \in Numbers
  BY DEF TallyInv, TallyTypes, TallySameBut, TallyNames
<1> HIDE DEF a
<1>3. \A u \in Accounts \ us : /\ a.at[u] = w.at[u] /\ a.page[u] = w.page[u]
                               /\ a.at[u] \notin {T!Off, T!Null} => a.tally[a.at[u]] = w.tally[a.at[u]]
  BY <1>2 DEF TallyInv, TallyTypes, TallySameBut, TallyNames
<1>4. TallyTypes(v) /\ TallySameBut(a, v, {"page"}) /\ Red(v)
  <2> HIDE DEF us
  <2> QED BY <1>2, <1>3, MovedIs DEF TallyInv
<1> HIDE DEF v
<1>5. /\ TallyTypes(x) /\ TallySameBut(v, x, {"told", "answered"})
      /\ \A q \in Numbers, u \in Accounts :
           /\ x.told[q][u] = IF q \in v.open /\ u \in touched /\ T!InProduction(v, u, q) THEN T!StateOf(v, q, u)
                             ELSE v.told[q][u]
           /\ ~(q \in v.open /\ u \in touched /\ T!InProduction(v, u, q)) =>
                (<<q, u>> \in v.answered => <<q, u>> \in x.answered)
  <2> HIDE DEF touched
  <2> QED BY <1>4, EmitIs
<1>6. Red(x)
  BY <1>4, EmitRed
<1> HIDE DEF x
<1>7. /\ TallySameBut(w, x, {"tally", "told", "answered", "page"}) /\ x.tally = [w.tally EXCEPT ![p] = c]
      /\ \A q \in Numbers, u \in Accounts :
           /\ x.told[q][u] = IF q \in w.open /\ u \in touched /\ T!InProduction(w, u, q) THEN T!StateOf(v, q, u)
                             ELSE w.told[q][u]
           /\ u \notin touched => (<<q, u>> \in w.answered => <<q, u>> \in x.answered)
  <2>1. TallySameBut(w, x, {"tally", "told", "answered", "page"}) /\ x.tally = [w.tally EXCEPT ![p] = c]
    BY <1>2, <1>4, <1>5 DEF TallySameBut, TallyNames
  <2>2. v.open = w.open /\ v.told = w.told /\ v.memb = w.memb /\ v.answered = w.answered
    BY <1>2, <1>4 DEF TallySameBut, TallyNames
  <2>3. \A q, u : T!InProduction(v, u, q) = T!InProduction(w, u, q)
    BY <2>2 DEF T!InProduction
  <2> HIDE DEF touched
  <2> QED BY <1>5, <2>1, <2>2, <2>3
<1>8. ASSUME Known(w) PROVE Known(x)
  <2>1. SUFFICES ASSUME NEW q \in x.open \cap x.prods, NEW z \in Accounts, T!InProduction(x, z, q)
                 PROVE  T!Knows(x, q, z)
    BY DEF Known
  <2>2. q \in Numbers /\ q \in w.open \cap w.prods /\ T!InProduction(w, z, q) /\ z # T!Null
    BY <1>7, <2>1 DEF TallyInv, TallyTypes, TallySameBut, TallyNames, T!InProduction, T!TallyAssumption, T!Null
  <2>3. CASE z \in touched
    <3>1. TallySameBut(v, x, {"told", "answered", "untold", "page", "waits", "watched", "open"})
      BY <1>5 DEF TallySameBut, TallyNames
    <3>2. T!StateOf(x, q, z) = T!StateOf(v, q, z)
      BY <3>1, StateDepends
    <3> HIDE DEF touched
    <3>3. x.told[q][z] = T!StateOf(x, q, z)
      BY <1>7, <2>2, <2>3, <3>2
    <3> QED BY <3>3, ToldKnows
  <2>4. CASE z \notin touched
    <3>1. (x.tally[q] = z) <=> (w.tally[q] = z)
      BY <1>7, <2>2, <2>4 DEF TallyInv, TallyTypes
    <3>2. T!StateOf(x, q, z) = T!StateOf(w, q, z)
      <4>1. TallySameBut(w, x, {"tally", "told", "answered", "page"})
        BY <1>7
      <4> QED BY <3>1, <4>1, CutStates
    <3>3. T!Knows(w, q, z) /\ x.prods = w.prods
      BY <1>7, <1>8, <2>2 DEF Known, TallySameBut, TallyNames
    <3> HIDE DEF touched
    <3>4. x.told[q][z] = w.told[q][z] /\ (<<q, z>> \in w.answered => <<q, z>> \in x.answered)
      BY <1>7, <2>2, <2>4
    <3> QED BY <3>2, <3>3, <3>4, KnowsStill
  <2> QED BY <2>3, <2>4
<1>9. x.untold = w.untold /\ (Awaits(w) => Awaits(x))
  BY <1>7 DEF Awaits, TallySameBut, TallyNames
<1>10. KnownUnless(x)
  BY <1>8, <1>9 DEF TallyInv, KnownUnless
<1> QED BY <1>1, <1>5, <1>6, <1>10 DEF TallyInv

(***************************************************************************)
(* The matrix.                                                             *)
(***************************************************************************)
LEMMA TypesAt ==
  ASSUME NEW w, NEW v, TallyTypes(w), DOMAIN v = TallyNames, TallySameBut(w, v, {"at", "untold"}), v.untold = TRUE,
         v.at \in [Accounts -> {T!Off, T!Null} \cup Numbers]
  PROVE  TallyTypes(v)
<1>1. /\ v.mic = w.mic /\ v.ptt = w.ptt /\ v.waits = w.waits /\ v.to = w.to /\ v.locked = w.locked
      /\ v.watched = w.watched /\ v.conf = w.conf /\ v.page = w.page /\ v.prods = w.prods /\ v.open = w.open
      /\ v.tally = w.tally /\ v.told = w.told
  BY DEF TallySameBut, TallyNames
<1> QED BY <1>1 DEF TallyTypes

(* Whoever was in production p is somewhere else, or nowhere, and is told. *)
LEMMA ResetPeersIs ==
  ASSUME T!TallyAssumption, NEW w, Red(w), NEW b, TallyTypes(b), NEW p, NEW us \in SUBSET Accounts,
         b.at = w.at, b.page = w.page,
         \A u \in Accounts : (u \in us /\ w.at[u] = p) \/ (w.at[u] \notin {T!Off, T!Null} => b.tally[w.at[u]] = w.tally[w.at[u]])
  PROVE  TallyInv(T!ResetPeers(b, p, us))
<1> DEFINE gone == {u \in us : b.at[u] = p}
           at == [u \in Accounts |-> IF u \in gone THEN T!FirstOf(b, u) ELSE b.at[u]]
           a == [b EXCEPT !.at = at, !.untold = TRUE]
           v == T!TellPages(a, gone)
<1>1. T!ResetPeers(b, p, us) = v
  BY DEF T!ResetPeers
<1>2. ASSUME NEW u PROVE T!FirstOf(b, u) \in {T!Null} \cup Numbers
  <2>1. T!Productions_Of(b, u) \subseteq Numbers
    BY DEF T!Productions_Of, TallyTypes
  <2> QED BY <2>1, MinIs DEF T!FirstOf
<1>3. at \in [Accounts -> {T!Off, T!Null} \cup Numbers]
  BY <1>2 DEF TallyTypes
<1>4. /\ \A u \in Accounts \ gone : at[u] = b.at[u]
      /\ gone = {u \in us : b.at[u] = p}
  OBVIOUS
<1> HIDE DEF at, gone
<1>5. DOMAIN a = TallyNames /\ TallySameBut(b, a, {"at", "untold"}) /\ a.at = at /\ a.untold = TRUE
  BY DEF TallyTypes, TallySameBut, TallyNames
<1> HIDE DEF a
<1>6. TallyTypes(a)
  BY <1>3, <1>5, TypesAt
<1>7. \A u \in Accounts \ gone : /\ a.at[u] = w.at[u] /\ a.page[u] = w.page[u]
                                 /\ a.at[u] \notin {T!Off, T!Null} => a.tally[a.at[u]] = w.tally[a.at[u]]
  BY <1>4, <1>5 DEF TallySameBut, TallyNames
<1>8. TallyTypes(v) /\ TallySameBut(a, v, {"page"}) /\ Red(v)
  BY <1>6, <1>7, MovedIs
<1> HIDE DEF v
<1>9. v.untold = TRUE
  BY <1>5, <1>8 DEF TallySameBut, TallyNames
<1> QED BY <1>1, <1>8, <1>9, UntoldIs

LEMMA RemoveMemberKeeps ==
  ASSUME T!TallyAssumption, NEW w, TallyInv(w), NEW u \in Accounts, NEW p
  PROVE  TallyInv(T!RemoveMember(w, u, p))
<1> DEFINE b == [w EXCEPT !.memb = @ \ {<<u, p>>}, !.conf[u] = IF p = 1 THEN "none" ELSE @]
<1>1. TallyTypes(b) /\ TallySameBut(w, b, {"memb", "conf"})
  BY DEF TallyInv, TallyTypes, TallySameBut, TallyNames
<1>2. T!RemoveMember(w, u, p) = T!ResetPeers(b, p, {u})
  BY DEF T!RemoveMember
<1> HIDE DEF b
<1>3. b.at = w.at /\ b.page = w.page /\ b.tally = w.tally
  BY <1>1 DEF TallySameBut, TallyNames
<1>4. {u} \in SUBSET Accounts
  OBVIOUS
<1> QED BY <1>1, <1>2, <1>3, <1>4, ResetPeersIs DEF TallyInv

LEMMA DeleteProductionKeeps ==
  ASSUME T!TallyAssumption, NEW w, TallyInv(w), NEW p \in w.prods, T!Cardinality(w.prods) > 1
  PROVE  TallyInv(T!DeleteProduction(w, p))
<1> DEFINE b == [w EXCEPT !.prods = @ \ {p}, !.memb = {m \in @ : m[2] # p}, !.tally[p] = T!Null,
                          !.conf = IF p = 1 THEN [u \in Accounts |-> "none"] ELSE @]
<1>1. w.prods \ {p} # {}
  <2>1. ASSUME w.prods = {p} PROVE FALSE
    <3>1. Cardinality({p}) = 1 /\ T!Cardinality({p}) = Cardinality({p})
      BY FS_Singleton DEF Cardinality, T!Cardinality
    <3> QED BY <2>1, <3>1
  <2> QED BY <2>1
<1>2. /\ DOMAIN b = TallyNames /\ TallySameBut(w, b, {"prods", "memb", "tally", "conf"}) /\ b.prods = w.prods \ {p}
      /\ b.tally = [w.tally EXCEPT ![p] = T!Null] /\ DOMAIN b.conf = Accounts
  BY DEF TallyInv, TallyTypes, TallySameBut, TallyNames
<1>3. T!DeleteProduction(w, p) = T!ResetPeers(b, p, Accounts)
  BY DEF T!DeleteProduction
<1> HIDE DEF b
<1>4. TallyTypes(b)
  BY <1>1, <1>2 DEF TallyInv, TallyTypes, TallySameBut, TallyNames
<1>5. /\ b.at = w.at /\ b.page = w.page
      /\ \A u \in Accounts : (u \in Accounts /\ w.at[u] = p) \/ (w.at[u] \notin {T!Off, T!Null} => b.tally[w.at[u]] = w.tally[w.at[u]])
  BY <1>2 DEF TallyInv, TallyTypes, TallySameBut, TallyNames
<1>6. Accounts \in SUBSET Accounts
  OBVIOUS
<1> QED BY <1>3, <1>4, <1>5, <1>6, ResetPeersIs DEF TallyInv

LEMMA AddMemberKeeps == ASSUME NEW w, TallyInv(w), NEW u, NEW p PROVE TallyInv(T!AddMember(w, u, p))
<1> DEFINE v == [w EXCEPT !.memb = @ \cup {<<u, p>>}, !.untold = TRUE]
<1>1. TallyTypes(v) /\ TallySameBut(w, v, {"memb", "untold"}) /\ v.untold = TRUE
  BY DEF TallyInv, TallyTypes, TallySameBut, TallyNames
<1>2. T!AddMember(w, u, p) = v
  BY DEF T!AddMember
<1> HIDE DEF v
<1>3. Red(v)
  BY <1>1, Steady DEF TallyInv, TallySameBut, TallyNames
<1> QED BY <1>1, <1>2, <1>3, UntoldIs

LEMMA SetConferenceKeeps ==
  ASSUME NEW w, TallyInv(w), NEW u \in Accounts, NEW mode
  PROVE  TallyInv(T!SetConference(w, u, mode)) /\ TallyInv(T!SetConferenceSingle(w, u, mode))
<1> DEFINE b == [w EXCEPT !.conf[u] = mode]
           v == [w EXCEPT !.conf[u] = mode, !.untold = TRUE]
<1>1. /\ TallyTypes(v) /\ TallySameBut(w, v, {"conf", "untold"}) /\ v.untold = TRUE
      /\ TallyTypes(b) /\ TallySameBut(w, b, {"conf"})
  BY DEF TallyInv, TallyTypes, TallySameBut, TallyNames
<1>2. T!SetConference(w, u, mode) = v /\ T!SetConferenceSingle(w, u, mode) = T!Broadcast(b)
  BY DEF T!SetConference, T!SetConferenceSingle
<1> HIDE DEF b, v
<1>3. Red(v) /\ Red(b)
  BY <1>1, Steady DEF TallyInv, TallySameBut, TallyNames
<1> QED BY <1>1, <1>2, <1>3, UntoldIs, EndsToldIs

LEMMA SetMultipleKeeps ==
  ASSUME T!TallyAssumption, NEW w, TallyInv(w), NEW on \in BOOLEAN
  PROVE  TallyInv(T!SetMultiple(w, on))
<1> DEFINE all == {u \in Accounts : T!On(w, u)}
           v == [w EXCEPT !.multi = on]
           x == [v EXCEPT !.untold = TRUE]
           at == [u \in Accounts |-> IF T!On(w, u) THEN T!Primary(w) ELSE T!Off]
           y == [v EXCEPT !.at = at]
<1>1. TallyTypes(v) /\ TallySameBut(w, v, {"multi"})
  BY DEF TallyInv, TallyTypes, TallySameBut, TallyNames
<1>2. T!SetMultiple(w, on) = IF on THEN x ELSE T!Broadcast(T!TellPages(y, all))
  BY DEF T!SetMultiple
<1> HIDE DEF v
<1>3. TallyInv(x)
  <2>1. DOMAIN x = TallyNames /\ TallySameBut(v, x, {"untold"}) /\ x.untold = TRUE
    BY <1>1 DEF TallyTypes, TallySameBut, TallyNames
  <2> HIDE DEF x
  <2>2. TallyTypes(x)
    BY <1>1, <2>1, TypesBut
  <2>3. Red(x)
    BY <1>1, <2>1, Steady DEF TallyInv, TallySameBut, TallyNames
  <2> QED BY <2>1, <2>2, <2>3, UntoldIs
<1>4. TallyInv(T!Broadcast(T!TellPages(y, all)))
  <2>1. T!Primary(w) \in Numbers
    BY MinIs DEF T!Primary, TallyInv, TallyTypes
  <2>2. /\ at \in [Accounts -> {T!Off, T!Null} \cup Numbers]
        /\ \A u \in Accounts \ all : at[u] = T!Off
    BY <2>1
  <2> HIDE DEF at, all
  <2>3. DOMAIN y = TallyNames /\ TallySameBut(v, y, {"at"}) /\ y.at = at
    BY <1>1 DEF TallyTypes, TallySameBut, TallyNames
  <2> HIDE DEF y
  <2>4. TallyTypes(y)
    BY <1>1, <2>2, <2>3 DEF TallyTypes, TallySameBut, TallyNames
  <2>5. \A u \in Accounts : u \in all \/ RightlyRed(y, u)
    BY <2>2, <2>3 DEF RightlyRed
  <2>6. TallyTypes(T!TellPages(y, all)) /\ \A u \in Accounts : u \in all \/ RightlyRed(y, u) => RightlyRed(T!TellPages(y, all), u)
    BY <2>4, TellPagesIs
  <2>7. Red(T!TellPages(y, all))
    BY <2>5, <2>6 DEF Red
  <2> QED BY <2>6, <2>7, EndsToldIs
<1> QED BY <1>2, <1>3, <1>4

(***************************************************************************)
(* The theorems.                                                           *)
(***************************************************************************)
LEMMA TallyInitIs == ASSUME T!TallyAssumption, T!Init PROVE TallyIInv
<1>1. PICK m \in BOOLEAN : world = T!Fresh(m)
  BY DEF T!Init
<1>2. TallyTypes(world)
  BY <1>1 DEF TallyTypes, TallyNames, T!Fresh, T!TallyAssumption, T!Unknown
<1>3. Known(world)
  BY <1>1 DEF Known, T!Fresh
<1>4. Red(world)
  BY <1>1 DEF Red, RightlyRed, T!Fresh
<1> QED BY <1>2, <1>3, <1>4 DEF TallyIInv, TallyInv, KnownUnless

LEMMA TallyNextKeeps == ASSUME T!TallyAssumption, TallyIInv, T!Next PROVE TallyIInv'
<1>0. TallyInv(world)
  BY DEF TallyIInv
<1> SUFFICES TallyInv(world')
  BY DEF TallyIInv
<1>1. CASE T!Comes
  BY <1>0, <1>1, TallyRegisterKeeps DEF T!Comes
<1>2. CASE T!Goes
  BY <1>0, <1>2, TallyDisconnectKeeps DEF T!Goes
<1>3. CASE T!Switches
  BY <1>0, <1>3, SetActiveProductionKeeps DEF T!Switches
<1>4. CASE T!Announces
  BY <1>0, <1>4, PttStateKeeps DEF T!Announces
<1>5. CASE T!Retargets
  BY <1>0, <1>5, TallyTargetsUpdatedKeeps DEF T!Retargets
<1>6. CASE T!Speaks
  BY <1>0, <1>6, TallyProduceKeeps DEF T!Speaks
<1>7. CASE T!Turns
  BY <1>0, <1>7, SetPausedKeeps, TallyCloseProducerKeeps DEF T!Turns
<1>8. CASE T!Pushes
  BY <1>0, <1>8, PushedKeeps, WatchedKeeps DEF T!Pushes
<1>9. CASE T!Connects
  BY <1>0, <1>9, SnapshotKeeps DEF T!Connects
<1>10. CASE T!Cuts
  BY <1>0, <1>10, CutCameraKeeps DEF T!Cuts
<1>11. CASE T!EditsMembers
  BY <1>0, <1>11, RemoveMemberKeeps, AddMemberKeeps DEF T!EditsMembers
<1>12. CASE T!Deletes
  BY <1>0, <1>12, DeleteProductionKeeps DEF T!Deletes
<1>13. CASE T!EditsConference
  BY <1>0, <1>13, SetConferenceKeeps DEF T!EditsConference
<1>14. CASE T!TurnsMultiple
  <2>1. (~world.multi) \in BOOLEAN
    OBVIOUS
  <2> QED BY <1>0, <1>14, <2>1, SetMultipleKeeps DEF T!TurnsMultiple
<1>15. CASE T!Answers
  BY <1>0, <1>15, CommandResultKeeps DEF T!Answers
<1> QED BY <1>1, <1>2, <1>3, <1>4, <1>5, <1>6, <1>7, <1>8, <1>9, <1>10, <1>11, <1>12, <1>13, <1>14, <1>15 DEF T!Next

(* What the matrix, the pages, the companions and the mixer know of one    *)
(* another is kept by every handler.                                       *)
THEOREM TallyInvariant == ASSUME T!TallyAssumption PROVE T!Spec => []TallyIInv
<1>1. T!Init => TallyIInv
  BY TallyInitIs
<1>2. TallyIInv /\ [T!Next]_(T!vars) => TallyIInv'
  <2>1. CASE T!Next
    BY <2>1, TallyNextKeeps
  <2>2. CASE UNCHANGED T!vars
    <3>1. world' = world
      BY <2>2 DEF T!vars
    <3> QED BY <3>1 DEF TallyIInv
  <2> QED BY <2>1, <2>2
<1> QED BY <1>1, <1>2, PTL DEF T!Spec

(* The values of the variables.                                            *)
THEOREM TallyTypesHold == ASSUME T!TallyAssumption PROVE T!Spec => []T!TypeOK
<1>1. TallyIInv => T!TypeOK
  BY DEF TallyIInv, TallyInv, TallyTypes, T!TypeOK
<1> QED BY <1>1, TallyInvariant, PTL

(* Companions and pages were told what holds (ToldWhatHolds): a companion  *)
(* of another than the primary production may have a wrong camera of a     *)
(* user, but only from the result of a command and until it hears of the   *)
(* user again.                                                             *)
THEOREM ToldHolds == ASSUME T!TallyAssumption PROVE T!Spec => []T!ToldWhatHolds
<1>1. TallyIInv => T!ToldWhatHolds
  BY DEF TallyIInv, TallyInv, KnownUnless, Known, Awaits, Red, RightlyRed, T!ToldWhatHolds
<1> QED BY <1>1, TallyInvariant, PTL
=============================================================================
