-------------------------- MODULE BridgeTalk_proofs --------------------------
(***************************************************************************)
(* Proofs about the talk of a bridge, for every set of targets and every   *)
(* budget of commands, edits and faults.                                   *)
(***************************************************************************)
EXTENDS BridgeTalk, SequenceTheorems, TLAPS

(***************************************************************************)
(* The inductive invariant.                                                *)
(***************************************************************************)
\* The operations that callers queue: only commands lock, only the trigger's
\* start and retarget and a command begin a talk.
Operations ==
  {op \in [by : {"command", "level", "sync", "save", "edit"},
           kind : {"command", "start", "undo", "release", "off", "retarget"},
           to : Targets \cup {None}, lock : BOOLEAN] :
     /\ op.kind = "command" <=> op.by = "command"
     /\ op.kind = "start" => op.by = "level"
     /\ op.kind \in {"undo", "release", "off"} => op.to = None
     /\ op.kind \in {"start", "retarget"} => op.to # None
     /\ op.lock => op.kind = "command"}

Callers == {"command", "level", "sync", "save"}

\* A caller that awaits its operation has one at most.
OneEach(q) ==
  \A by \in Callers : \A i, j \in DOMAIN q : q[i].by = by /\ q[j].by = by => i = j

\* Nor has it one while it is still to learn what to do.
Idle ==
  /\ polling => ~Busy("level")
  /\ fetched # None => ~Busy("sync")
  /\ saving.stage # "applying" => ~Busy("save")

Has(q, by) == \E i \in DOMAIN q : q[i].by = by

\* How far the requests of the first operation have come on the server.
Progress ==
  /\ step = 0 /\ ~failed => talking = ~paused /\ aim = to
  /\ step = 1 => LET op == Head(queue) IN IF op.to = None THEN paused ELSE to = op.to
  /\ step = 2 => to = Head(queue).to /\ paused = (Head(queue).to = None)

\* What the port's card and its saves are to the server.
Types ==
  /\ queue \in Seq(Operations)
  /\ saving \in [stage : {"no", "asked", "answered", "applying"}, put : Settings \cup {None}]
  /\ saving.stage # "no" => saving.put # None
  /\ {bumped, polling, failed, loud, lock, revised, timer, again, faulty} \subseteq BOOLEAN

\* What a draft, the save under way and the timer know of the user's choice.
ChoiceInv ==
  /\ IF draft = None THEN config = chosen ELSE draft = chosen /\ card = chosen
  /\ saving.stage \in {"asked", "answered"} => draft # None
  /\ saving.stage \in {"asked", "answered"} /\ ~revised => saving.put = chosen /\ ~timer /\ ~again
  /\ saving.stage = "answered" /\ ~revised => config = chosen
  /\ timer \/ again => draft # None
  /\ again => saving.stage # "no"

IInv == TypeOK /\ Types /\ Idle /\ Progress /\ HotOnlyAddressed /\ ChoiceInv

Triggers == [active : BOOLEAN, pending : BOOLEAN, must : BOOLEAN]

(***************************************************************************)
(* Lemmas about the queue.                                                 *)
(***************************************************************************)
(* A caller that has no operation in the queue may append one.             *)
LEMMA Appending ==
  ASSUME NEW q \in Seq(Operations), NEW op \in Operations,
         OneEach(q), op.by \in Callers => ~Has(q, op.by)
  PROVE  /\ Append(q, op) \in Seq(Operations) /\ OneEach(Append(q, op))
         /\ Append(q, op) # <<>> /\ (q # <<>> => Head(Append(q, op)) = Head(q))
         /\ \A by : Has(Append(q, op), by) => Has(q, by) \/ by = op.by
<1>1. /\ Append(q, op) \in Seq(Operations) /\ Append(q, op) # <<>>
      /\ Len(Append(q, op)) = Len(q) + 1 /\ Append(q, op)[Len(q) + 1] = op
      /\ \A i \in 1 .. Len(q) : Append(q, op)[i] = q[i]
  BY AppendProperties
<1>2. Len(q) \in Nat /\ DOMAIN q = 1 .. Len(q) /\ DOMAIN Append(q, op) = 1 .. Len(q) + 1
  BY <1>1, LenProperties
<1>3. \A i \in DOMAIN Append(q, op) : i \in DOMAIN q \/ i = Len(q) + 1
  BY <1>2
<1>4. OneEach(Append(q, op))
  BY <1>1, <1>2, <1>3 DEF OneEach, Has
<1>5. q # <<>> => Head(Append(q, op)) = Head(q)
  BY HeadTailAppend
<1>6. \A by : Has(Append(q, op), by) => Has(q, by) \/ by = op.by
  BY <1>1, <1>2, <1>3 DEF Has
<1> QED BY <1>1, <1>4, <1>5, <1>6

(* Once the first operation is over its caller has none left.              *)
LEMMA Taking ==
  ASSUME NEW q \in Seq(Operations), q # <<>>, OneEach(q)
  PROVE  /\ Head(q) \in Operations /\ Tail(q) \in Seq(Operations) /\ OneEach(Tail(q))
         /\ \A by : Has(Tail(q), by) => Has(q, by)
         /\ Head(q).by \in Callers => ~Has(Tail(q), Head(q).by)
         /\ Has(q, Head(q).by)
<1>1. /\ Head(q) \in Operations /\ Tail(q) \in Seq(Operations)
      /\ Len(Tail(q)) = Len(q) - 1 /\ \A i \in 1 .. Len(Tail(q)) : Tail(q)[i] = q[i + 1]
  BY HeadTailProperties
<1>2. /\ Len(q) \in Nat \ {0} /\ DOMAIN q = 1 .. Len(q) /\ DOMAIN Tail(q) = 1 .. Len(q) - 1
      /\ Head(q) = q[1]
  BY <1>1, LenProperties, EmptySeq
<1>3. \A i \in DOMAIN Tail(q) : i + 1 \in DOMAIN q /\ i + 1 # 1 /\ Tail(q)[i] = q[i + 1]
  BY <1>1, <1>2
<1>4. OneEach(Tail(q))
  <2> SUFFICES ASSUME NEW by \in Callers, NEW i \in DOMAIN Tail(q), NEW j \in DOMAIN Tail(q),
                      Tail(q)[i].by = by, Tail(q)[j].by = by
               PROVE  i = j
    BY DEF OneEach
  <2>1. i + 1 = j + 1
    BY <1>3 DEF OneEach
  <2> QED BY <1>2, <2>1
<1>5. 1 \in DOMAIN q
  BY <1>2
<1> QED BY <1>1, <1>2, <1>3, <1>4, <1>5 DEF Has, OneEach

(* What the caller does when its operation is over keeps the queue in      *)
(* order: a start that is undone is followed by an operation of the same   *)
(* caller, which takes its place.                                          *)
LEMMA Settled ==
  ASSUME queue \in Seq(Operations), OneEach(queue), queue # <<>>,
         NEW outcome, NEW t \in Triggers, NEW speaks \in BOOLEAN,
         Settle(Head(queue), outcome, t, speaks)
  PROVE  /\ queue' \in Seq(Operations) /\ OneEach(queue') /\ trig' \in Triggers
         /\ \A by : Has(queue', by) => Has(queue, by)
<1> DEFINE undo == Op("level", "undo", None, FALSE)
<1>1. \/ queue' = Tail(queue)
      \/ Head(queue).kind = "start" /\ queue' = Append(Tail(queue), undo)
  BY DEF Settle
<1>2. trig' \in Triggers
  <2>1. /\ [t EXCEPT !.pending = FALSE] \in Triggers
        /\ \A b \in BOOLEAN : /\ [[t EXCEPT !.pending = FALSE] EXCEPT !.active = b] \in Triggers
                              /\ [[t EXCEPT !.pending = FALSE] EXCEPT !.must = b] \in Triggers
    BY DEF Triggers
  <2>2. (outcome = "done" /\ Effective # External /\ ~bumped) \in BOOLEAN
    OBVIOUS
  <2> QED BY <2>1, <2>2 DEF Settle
<1>3. CASE queue' = Tail(queue)
  BY <1>2, <1>3, Taking
<1>4. CASE Head(queue).kind = "start" /\ queue' = Append(Tail(queue), undo)
  <2>1. undo \in Operations /\ undo.by = "level"
    BY DEF Op, Operations
  <2>2. Head(queue).by = "level"
    BY <1>4, Taking DEF Operations
  <2>3. /\ Tail(queue) \in Seq(Operations) /\ OneEach(Tail(queue)) /\ ~Has(Tail(queue), "level")
        /\ \A by : Has(Tail(queue), by) => Has(queue, by)
        /\ Has(queue, "level")
    BY <2>2, Taking DEF Callers
  <2> HIDE DEF undo
  <2>4. /\ Append(Tail(queue), undo) \in Seq(Operations) /\ OneEach(Append(Tail(queue), undo))
        /\ \A by : Has(Append(Tail(queue), undo), by) => Has(Tail(queue), by) \/ by = "level"
    BY <2>1, <2>3, Appending
  <2> QED BY <1>2, <1>4, <2>3, <2>4
<1> QED BY <1>1, <1>3, <1>4

\* A caller queues one operation at most.
Enqueues(by) == queue' = queue \/ \E op \in Operations : op.by = by /\ queue' = Append(queue, op)

(* What is queued behind the others leaves the first one as it is.         *)
LEMMA Enqueued ==
  ASSUME queue \in Seq(Operations), OneEach(queue), NEW by,
         by \in Callers => ~Has(queue, by), Enqueues(by)
  PROVE  /\ queue' \in Seq(Operations) /\ OneEach(queue')
         /\ queue # <<>> => queue' # <<>> /\ Head(queue') = Head(queue)
         /\ \A c : Has(queue', c) => Has(queue, c) \/ c = by
<1>1. CASE queue' = queue
  BY <1>1
<1>2. ASSUME NEW op \in Operations, op.by = by, queue' = Append(queue, op)
      PROVE  /\ queue' \in Seq(Operations) /\ OneEach(queue')
             /\ queue # <<>> => queue' # <<>> /\ Head(queue') = Head(queue)
             /\ \A c : Has(queue', c) => Has(queue, c) \/ c = by
  BY <1>2, Appending
<1> QED BY <1>1, <1>2 DEF Enqueues

(* Switching the trigger off.                                              *)
LEMMA Disabling ==
  ASSUME IInv, NEW by \in {"level", "sync", "save", "edit"}, NEW force \in BOOLEAN,
         Disable(by, force)
  PROVE  Enqueues(by) /\ trig' \in Triggers /\ bumped' = TRUE
<1>1. Op(by, "off", None, FALSE) \in Operations /\ Op(by, "off", None, FALSE).by = by
  BY DEF Op, Operations
<1>2. trig \in Triggers
  BY DEF IInv, TypeOK, Triggers
<1> QED BY <1>1, <1>2 DEF Disable, Append1, Enqueues, Triggers

(* Taking a configuration over.                                            *)
LEMMA Reconciling ==
  ASSUME IInv, NEW by \in {"sync", "save"}, NEW cfg \in Settings, Reconcile(by, cfg)
  PROVE  Enqueues(by) /\ trig' \in Triggers /\ bumped' \in BOOLEAN /\ port' \in Settings
<1> DEFINE level == talking /\ source = "level"
<1>1. trig \in Triggers /\ bumped \in BOOLEAN
  BY DEF IInv, TypeOK, Types, Triggers
<1>2. CASE cfg = External /\ (port # External \/ trig.must \/ level)
  <2>1. (port # External \/ trig.must) \in BOOLEAN
    OBVIOUS
  <2> QED BY <1>2, <2>1, Disabling DEF Reconcile
<1>3. CASE cfg # External /\ level /\ aim # cfg
  <2>1. /\ Op(by, "retarget", cfg, FALSE) \in Operations
        /\ Op(by, "retarget", cfg, FALSE).by = by
    BY <1>3, TalkAssumption DEF Op, Operations, Settings
  <2>2. [trig EXCEPT !.pending = TRUE] \in Triggers
    BY <1>1 DEF Triggers
  <2> QED BY <1>1, <1>3, <2>1, <2>2 DEF Reconcile, Append1, Enqueues
<1>4. CASE UNCHANGED <<queue, trig, bumped>>
  BY <1>1, <1>4 DEF Reconcile, Enqueues
<1> QED BY <1>2, <1>3, <1>4 DEF Reconcile

(* Spending of the budget.                                                 *)
LEMMA Spending ==
  ASSUME IInv, NEW c \in {"commands", "edits", "faults", "loud"}, Spend(c)
  PROVE  left' \in [commands : Nat, edits : Nat, faults : Nat, loud : Nat] /\ faulty' \in BOOLEAN
BY DEF Spend, IInv, TypeOK, Types

(* The queue's part of the type invariant.                                 *)
LEMMA QueueTyped ==
  ASSUME NEW q \in Seq(Operations), OneEach(q)
  PROVE  /\ \A i \in DOMAIN q : q[i].kind \in {"command", "start", "undo", "release", "off", "retarget"}
         /\ \A by \in {"command", "level", "sync", "save"} :
              \A i, j \in DOMAIN q : q[i].by = by /\ q[j].by = by => i = j
<1>1. \A i \in DOMAIN q : q[i] \in Operations
  BY LenProperties, ElementOfSeq
<1> QED BY <1>1 DEF OneEach, Callers, Operations

(* As long as the server, the session's talk and the first operation stay  *)
(* as they are, the progress of that operation does.                       *)
LEMMA Standing ==
  ASSUME IInv, UNCHANGED <<server, talk, step, failed>>, queue # <<>> => Head(queue') = Head(queue)
  PROVE  Progress' /\ HotOnlyAddressed'
<1>1. step # 0 => queue # <<>>
  BY DEF IInv, TypeOK
<1> QED BY <1>1 DEF IInv, Progress, HotOnlyAddressed, server, talk

(***************************************************************************)
(* The invariant holds at first, and every action keeps it.                *)
(***************************************************************************)
LEMMA InitIInv == Init => IInv
<1> SUFFICES ASSUME Init PROVE IInv
  OBVIOUS
<1> USE TalkAssumption DEF Init
<1>1. TypeOK
  <2>1. talking = (aim # None)
    BY Zenon
  <2>2. /\ left \in [commands : Nat, edits : Nat, faults : Nat, loud : Nat]
        /\ trig \in [active : BOOLEAN, pending : BOOLEAN, must : BOOLEAN]
    OBVIOUS
  <2>3. DOMAIN queue = {}
    OBVIOUS
  <2> QED BY <2>1, <2>2, <2>3 DEF TypeOK, Settings, NotSaving
<1>2. Types
  <2>1. <<>> \in Seq(Operations)
    OBVIOUS
  <2> QED BY <2>1 DEF Types, NotSaving
<1>3. Idle /\ Progress /\ HotOnlyAddressed
  <2>1. talking = ~paused
    BY Zenon
  <2>2. \A by : ~Busy(by)
    BY DEF Busy
  <2> QED BY <2>1, <2>2 DEF Idle, Progress, HotOnlyAddressed, NotSaving
<1>4. ChoiceInv
  BY DEF ChoiceInv, NotSaving
<1> QED BY <1>1, <1>2, <1>3, <1>4 DEF IInv

(* What the operations of the queue ask and how they end.                  *)
LEMMA PerformKeeps == ASSUME IInv, Perform PROVE IInv'
<1> DEFINE op == Head(queue)
<1>1. op \in Operations
  BY Taking, HeadTailProperties DEF IInv, Types, Perform
<1>2. op.to \in Targets \cup {None} /\ step \in 0 .. 1
  BY <1>1 DEF Operations, IInv, TypeOK, Perform
<1>3. to' \in Targets \cup {None} /\ paused' \in BOOLEAN /\ owner' \in {"level", "external", None}
  BY <1>2 DEF Perform, Request, IInv, TypeOK
<1>4. Progress'
  <2>1. queue' = queue /\ step' = step + 1
    BY DEF Perform
  <2>2. CASE step = 0
    BY <2>1, <2>2 DEF Perform, Request, Progress
  <2>3. CASE step = 1
    <3>1. IF op.to = None THEN paused ELSE to = op.to
      BY <2>3 DEF IInv, Progress
    <3>2. CASE op.to = None
      <4>1. to' = None /\ paused' = paused /\ paused = TRUE
        <5>1. paused
          BY <3>1, <3>2
        <5>2. paused = TRUE
          BY <5>1 DEF IInv, TypeOK
        <5>3. to' = None /\ paused' = paused
          BY <2>3, <3>2 DEF Perform, Request
        <5> QED BY <5>2, <5>3
      <4>2. paused' = (op.to = None)
        BY <3>2, <4>1, Zenon
      <4> QED BY <2>1, <2>3, <3>2, <4>1, <4>2 DEF Progress
    <3>3. CASE op.to # None
      <4>1. to' = op.to /\ paused' = FALSE
        BY <2>3, <3>1, <3>3 DEF Perform, Request
      <4>2. paused' = (op.to = None)
        BY <3>3, <4>1, Zenon
      <4> QED BY <2>1, <2>3, <4>1, <4>2 DEF Progress
    <3> QED BY <3>2, <3>3
  <2> QED BY <1>2, <2>2, <2>3
<1>5. HotOnlyAddressed'
  BY <1>2 DEF Perform, Request, IInv, Progress, HotOnlyAddressed
<1>6. step' \in 0 .. 2 /\ queue' # <<>>
  BY <1>2 DEF Perform
<1>7. TypeOK'
  BY <1>3, <1>6 DEF IInv, TypeOK, Perform, Settings, card_, talk, spent
<1>8. Types' /\ Idle' /\ ChoiceInv'
  BY DEF IInv, Types, Idle, Busy, ChoiceInv, Perform, card_, talk, spent
<1> QED BY <1>4, <1>5, <1>7, <1>8 DEF IInv

LEMMA FinishKeeps == ASSUME IInv, Finish PROVE IInv'
<1> DEFINE op == Head(queue)
<1>1. queue \in Seq(Operations) /\ OneEach(queue) /\ queue # <<>> /\ op \in Operations
  BY Taking DEF IInv, TypeOK, Types, Finish, OneEach, Callers
<1>2. PICK t \in Triggers, speaks \in BOOLEAN : Settle(op, "done", t, speaks)
  <2>1. trig \in Triggers /\ [active |-> FALSE, pending |-> FALSE, must |-> FALSE] \in Triggers
    BY DEF IInv, TypeOK, Triggers
  <2> QED BY <2>1 DEF Finish
<1>3. /\ queue' \in Seq(Operations) /\ OneEach(queue') /\ trig' \in Triggers
      /\ \A by : Has(queue', by) => Has(queue, by)
  BY <1>1, <1>2, Settled
<1>4. op.to \in Targets \cup {None} /\ (op.lock => op.kind = "command")
  BY <1>1 DEF Operations
<1>5. /\ talking' = (op.to # None) /\ aim' = op.to /\ step' = 0 /\ failed' = FALSE
      /\ source' = IF op.to = None THEN None ELSE IF ByLevel(op) THEN "level" ELSE "external"
      /\ lock' = LockAfter(op) /\ bumped' = (bumped \/ ~ByLevel(op))
      /\ UNCHANGED <<config, server, card_, port, fetched, polling, loud, spent>>
  BY DEF Finish
<1>6. TypeOK'
  <2>1. talking' = (aim' # None) /\ aim' \in Targets \cup {None}
    BY <1>4, <1>5, Zenon
  <2>2. source' \in {"level", "external", None} /\ (lock' => source' = "external")
    BY <1>4, <1>5 DEF LockAfter, ByLevel
  <2>3. queue' = <<>> => step' = 0
    BY <1>5
  <2> HIDE DEF op
  <2> QED BY <1>3, <1>5, <2>1, <2>2, <2>3, QueueTyped
          DEF IInv, TypeOK, Settings, Triggers, server, card_, spent
<1>7. Types'
  BY <1>3, <1>4, <1>5 DEF IInv, Types, card_, spent, LockAfter
<1>8. Idle'
  BY <1>3, <1>5 DEF IInv, Idle, Busy, Has, card_
<1>9. Progress' /\ HotOnlyAddressed'
  <2>1. to = op.to /\ paused = (op.to = None) /\ to' = to /\ paused' = paused
    BY <1>5 DEF IInv, Progress, Finish, server
  <2>2. talking' = ~paused' /\ aim' = to'
    BY <1>5, <2>1, Zenon
  <2>3. ~paused' => to' # None
    BY <2>1
  <2> QED BY <1>5, <2>2, <2>3 DEF Progress, HotOnlyAddressed
<1>10. ChoiceInv'
  BY <1>5 DEF IInv, ChoiceInv, card_
<1> QED BY <1>6, <1>7, <1>8, <1>9, <1>10 DEF IInv

LEMMA SkipKeeps == ASSUME IInv, Skip PROVE IInv'
<1>1. queue \in Seq(Operations) /\ OneEach(queue) /\ queue # <<>>
  BY DEF IInv, TypeOK, Types, Skip, OneEach, Callers
<1>2. /\ queue' \in Seq(Operations) /\ OneEach(queue') /\ trig' \in Triggers
      /\ \A by : Has(queue', by) => Has(queue, by)
  <2>1. trig \in Triggers /\ (talking /\ source = "level") \in BOOLEAN
    BY DEF IInv, TypeOK, Triggers
  <2> QED BY <1>1, <2>1, Settled DEF Skip
<1>3. /\ step = 0
      /\ UNCHANGED <<config, server, card_, port, fetched, talk, bumped, polling, step, failed, missed, loud, spent>>
  BY DEF Skip
<1>4. TypeOK'
  BY <1>2, <1>3, QueueTyped DEF IInv, TypeOK, Settings, Triggers, server, card_, talk, spent
<1>5. Types' /\ Idle' /\ ChoiceInv'
  BY <1>2, <1>3 DEF IInv, Types, Idle, Busy, Has, ChoiceInv, card_, talk, spent
<1>6. Progress' /\ HotOnlyAddressed'
  BY <1>3 DEF IInv, Progress, HotOnlyAddressed, server, talk
<1> QED BY <1>4, <1>5, <1>6 DEF IInv

LEMMA FailKeeps == ASSUME IInv, Fail PROVE IInv'
<1>1. queue \in Seq(Operations) /\ OneEach(queue) /\ queue # <<>>
  BY DEF IInv, TypeOK, Types, Fail, OneEach, Callers
<1>2. /\ queue' \in Seq(Operations) /\ OneEach(queue') /\ trig' \in Triggers
      /\ \A by : Has(queue', by) => Has(queue, by)
  <2>1. trig \in Triggers
    BY DEF IInv, TypeOK, Triggers
  <2> QED BY <1>1, <2>1, Settled DEF Fail
<1>3. /\ step' = 0 /\ failed' = TRUE
      /\ UNCHANGED <<config, server, card_, port, fetched, talk, bumped, polling, loud>>
  BY DEF Fail
<1>4. left' \in [commands : Nat, edits : Nat, faults : Nat, loud : Nat] /\ faulty' \in BOOLEAN
  BY Spending DEF Fail
<1>5. TypeOK'
  BY <1>2, <1>3, <1>4, QueueTyped DEF IInv, TypeOK, Settings, Triggers, server, card_, talk
<1>6. Types' /\ Idle' /\ ChoiceInv'
  BY <1>2, <1>3, <1>4 DEF IInv, Types, Idle, Busy, Has, ChoiceInv, card_, talk
<1>7. Progress' /\ HotOnlyAddressed'
  BY <1>3 DEF IInv, Progress, HotOnlyAddressed, server, talk
<1> QED BY <1>5, <1>6, <1>7 DEF IInv

(* What the callers queue.                                                 *)
LEMMA CommandKeeps == ASSUME IInv, Command PROVE IInv'
<1>1. Enqueues("command") /\ ~Has(queue, "command")
  <2>1. Op("command", "command", None, FALSE) \in Operations
    BY DEF Op, Operations
  <2>2. ASSUME NEW t \in Targets
        PROVE  Op("command", "command", t, FALSE) \in Operations /\ Op("command", "command", t, TRUE) \in Operations
    BY DEF Op, Operations
  <2>3. \A t, lk : Op("command", "command", t, lk).by = "command"
    BY DEF Op
  <2> QED BY <2>1, <2>2, <2>3 DEF Command, Append1, Enqueues, Busy, Has
<1>2. queue \in Seq(Operations) /\ OneEach(queue)
  BY DEF IInv, TypeOK, Types, OneEach, Callers
<1>3. /\ queue' \in Seq(Operations) /\ OneEach(queue')
      /\ queue # <<>> => queue' # <<>> /\ Head(queue') = Head(queue)
      /\ \A c : Has(queue', c) => Has(queue, c) \/ c = "command"
  BY <1>1, <1>2, Enqueued
<1>4. left' \in [commands : Nat, edits : Nat, faults : Nat, loud : Nat] /\ faulty' \in BOOLEAN
  BY Spending DEF Command
<1>5. UNCHANGED <<config, server, card_, port, fetched, talk, trig, bumped, polling, step, failed, missed, loud>>
  BY DEF Command
<1>6. TypeOK'
  BY <1>3, <1>4, <1>5, QueueTyped DEF IInv, TypeOK, Settings, server, card_, talk
<1>7. Types' /\ Idle' /\ ChoiceInv'
  BY <1>3, <1>4, <1>5 DEF IInv, Types, Idle, Busy, Has, ChoiceInv, card_, talk
<1>8. Progress' /\ HotOnlyAddressed'
  BY <1>3, <1>5, Standing
<1> QED BY <1>6, <1>7, <1>8 DEF IInv

LEMMA PollLevelsKeeps == ASSUME IInv, PollLevels PROVE IInv'
<1>1. /\ UNCHANGED <<config, server, card_, port, fetched, talk, trig, bumped, ops, loud, spent>>
      /\ polling' = TRUE /\ ~Busy("level")
  BY DEF PollLevels
<1>2. TypeOK' /\ Types'
  BY <1>1 DEF IInv, TypeOK, Types, Settings, server, card_, talk, ops, spent
<1>3. Idle' /\ ChoiceInv'
  BY <1>1 DEF IInv, Idle, Busy, ChoiceInv, card_, ops
<1>4. Progress' /\ HotOnlyAddressed'
  BY <1>1, Standing DEF ops
<1> QED BY <1>2, <1>3, <1>4 DEF IInv

LEMMA LevelsKnownKeeps == ASSUME IInv, LevelsKnown PROVE IInv'
<1>1. /\ Effective \in Settings /\ trig \in Triggers /\ bumped \in BOOLEAN
      /\ queue \in Seq(Operations) /\ OneEach(queue)
  BY DEF Effective, IInv, TypeOK, Types, Triggers, OneEach, Callers
<1>2. Enqueues("level") /\ trig' \in Triggers /\ bumped' \in BOOLEAN
  <2>1. ASSUME Disable("level", FALSE) PROVE Enqueues("level") /\ trig' \in Triggers /\ bumped' \in BOOLEAN
    BY <2>1, Disabling
  <2>2. ASSUME NEW b \in BOOLEAN
        PROVE  [trig EXCEPT !.pending = b] \in Triggers /\ [trig EXCEPT !.active = b] \in Triggers
    BY <1>1 DEF Triggers
  <2>3. /\ Op("level", "release", None, FALSE) \in Operations /\ Op("level", "release", None, FALSE).by = "level"
        /\ Effective # External => /\ Op("level", "start", Effective, FALSE) \in Operations
                                   /\ Op("level", "start", Effective, FALSE).by = "level"
    BY <1>1, TalkAssumption DEF Op, Operations, Settings
  <2> QED BY <1>1, <2>1, <2>2, <2>3 DEF LevelsKnown, Append1, Enqueues
<1>3. polling' = FALSE /\ ~Has(queue, "level")
  BY DEF LevelsKnown, IInv, Idle, Busy, Has
<1>4. /\ queue' \in Seq(Operations) /\ OneEach(queue')
      /\ queue # <<>> => queue' # <<>> /\ Head(queue') = Head(queue)
      /\ \A c : Has(queue', c) => Has(queue, c) \/ c = "level"
  BY <1>1, <1>2, <1>3, Enqueued
<1>5. UNCHANGED <<config, server, card_, port, fetched, talk, step, failed, missed, loud, spent>>
  BY DEF LevelsKnown
<1>6. TypeOK'
  BY <1>2, <1>4, <1>5, QueueTyped DEF IInv, TypeOK, Settings, Triggers, server, card_, talk, spent
<1>7. Types' /\ Idle' /\ ChoiceInv'
  BY <1>2, <1>3, <1>4, <1>5 DEF IInv, Types, Idle, Busy, Has, ChoiceInv, card_, talk, spent
<1>8. Progress' /\ HotOnlyAddressed'
  BY <1>4, <1>5, Standing
<1> QED BY <1>6, <1>7, <1>8 DEF IInv

LEMMA FetchKeeps == ASSUME IInv, Fetch PROVE IInv'
<1>1. /\ UNCHANGED <<config, server, card_, port, talk, trig, bumped, polling, ops, loud, spent>>
      /\ fetched' = config /\ ~Busy("sync")
  BY DEF Fetch
<1>2. TypeOK' /\ Types'
  BY <1>1 DEF IInv, TypeOK, Types, Settings, server, card_, talk, ops, spent
<1>3. Idle' /\ ChoiceInv'
  BY <1>1 DEF IInv, Idle, Busy, ChoiceInv, card_, ops
<1>4. Progress' /\ HotOnlyAddressed'
  BY <1>1, Standing DEF ops
<1> QED BY <1>2, <1>3, <1>4 DEF IInv

LEMMA FetchedKeeps == ASSUME IInv, Fetched PROVE IInv'
<1>1. /\ fetched \in Settings /\ ~Has(queue, "sync")
      /\ queue \in Seq(Operations) /\ OneEach(queue)
  BY DEF Fetched, IInv, TypeOK, Types, Idle, Busy, Has, OneEach, Callers
<1>2. Enqueues("sync") /\ trig' \in Triggers /\ bumped' \in BOOLEAN /\ port' \in Settings
  BY <1>1, Reconciling DEF Fetched
<1>3. /\ queue' \in Seq(Operations) /\ OneEach(queue')
      /\ queue # <<>> => queue' # <<>> /\ Head(queue') = Head(queue)
      /\ \A c : Has(queue', c) => Has(queue, c) \/ c = "sync"
  BY <1>1, <1>2, Enqueued
<1>4. /\ fetched' = None
      /\ UNCHANGED <<config, server, card_, talk, polling, step, failed, missed, loud, spent>>
  BY DEF Fetched
<1>5. TypeOK'
  BY <1>2, <1>3, <1>4, QueueTyped DEF IInv, TypeOK, Settings, Triggers, server, card_, talk, spent
<1>6. Types' /\ Idle' /\ ChoiceInv'
  BY <1>2, <1>3, <1>4 DEF IInv, Types, Idle, Busy, Has, ChoiceInv, card_, talk, spent
<1>7. Progress' /\ HotOnlyAddressed'
  BY <1>3, <1>4, Standing
<1> QED BY <1>5, <1>6, <1>7 DEF IInv

(* The card of the port and its saves.                                     *)
LEMMA EditKeeps == ASSUME IInv, NEW m \in Settings, Edit(m) PROVE IInv'
<1>1. queue \in Seq(Operations) /\ OneEach(queue) /\ trig \in Triggers /\ bumped \in BOOLEAN
  BY DEF IInv, TypeOK, Types, Triggers, OneEach, Callers
<1>2. Enqueues("edit") /\ trig' \in Triggers /\ bumped' \in BOOLEAN /\ port' \in Settings
  <2>1. CASE port' = External /\ Disable("edit", TRUE)
    BY <2>1, Disabling DEF Settings
  <2>2. CASE UNCHANGED <<port, queue, trig, bumped>>
    BY <1>1, <2>2 DEF Enqueues, IInv, TypeOK
  <2> QED BY <2>1, <2>2 DEF Edit
<1>3. /\ queue' \in Seq(Operations) /\ OneEach(queue')
      /\ queue # <<>> => queue' # <<>> /\ Head(queue') = Head(queue)
      /\ \A c : Has(queue', c) => Has(queue, c) \/ c = "edit"
  BY <1>1, <1>2, Enqueued DEF Callers
<1>4. left' \in [commands : Nat, edits : Nat, faults : Nat, loud : Nat] /\ faulty' \in BOOLEAN
  BY Spending DEF Edit
<1>5. /\ card' = m /\ chosen' = m /\ draft' = m /\ revised' = TRUE /\ timer' = TRUE
      /\ UNCHANGED <<config, server, again, saving, fetched, talk, polling, step, failed, missed, loud>>
  BY DEF Edit
<1>6. TypeOK'
  BY <1>2, <1>3, <1>4, <1>5, QueueTyped DEF IInv, TypeOK, Settings, Triggers, server, talk
<1>7. Types' /\ Idle'
  BY <1>2, <1>3, <1>4, <1>5 DEF IInv, Types, Idle, Busy, Has, talk
<1>8. ChoiceInv'
  BY <1>5, TalkAssumption DEF IInv, ChoiceInv, Settings
<1>9. Progress' /\ HotOnlyAddressed'
  BY <1>3, <1>5, Standing
<1> QED BY <1>6, <1>7, <1>8, <1>9 DEF IInv

LEMMA SaveKeeps == ASSUME IInv, Save PROVE IInv'
<1>1. UNCHANGED <<config, server, card, chosen, port, fetched, talk, trig, bumped, polling, ops, loud, spent>>
  BY DEF Save
<1>2. TypeOK' /\ Types'
  <2>1. CASE saving.stage # "no"
    <3>1. timer' = FALSE /\ again' = TRUE /\ UNCHANGED <<draft, revised, saving>>
      BY <2>1 DEF Save
    <3>2. TypeOK'
      BY <1>1, <3>1 DEF IInv, TypeOK, Settings, server, talk, ops, spent
    <3>3. Types'
      BY <1>1, <3>1 DEF IInv, Types, talk, ops, spent
    <3> QED BY <3>2, <3>3
  <2>2. CASE saving.stage = "no"
    <3>1. /\ draft' = card /\ revised' = FALSE /\ timer' = FALSE /\ again' = again
          /\ saving' = [stage |-> "asked", put |-> card]
      BY <2>2 DEF Save
    <3>2. card \in Settings /\ card # None
      BY TalkAssumption DEF IInv, TypeOK, Settings
    <3>3. /\ saving' \in [stage : {"no", "asked", "answered", "applying"}, put : Settings \cup {None}]
          /\ saving'.stage = "asked" /\ saving'.put # None
      BY <3>1, <3>2
    <3>4. TypeOK'
      BY <1>1, <3>1, <3>2, <3>3 DEF IInv, TypeOK, Settings, server, talk, ops, spent
    <3>5. Types'
      BY <1>1, <3>1, <3>3 DEF IInv, Types, talk, ops, spent
    <3> QED BY <3>4, <3>5
  <2> QED BY <2>1, <2>2
<1>3. Idle'
  BY <1>1 DEF IInv, Idle, Busy, ops, Save
<1>4. ChoiceInv'
  BY <1>1, TalkAssumption DEF IInv, TypeOK, Types, ChoiceInv, Settings, Save
<1>5. Progress' /\ HotOnlyAddressed'
  BY <1>1, Standing DEF ops
<1> QED BY <1>2, <1>3, <1>4, <1>5 DEF IInv

LEMMA PutKeeps == ASSUME IInv, Put PROVE IInv'
<1>1. /\ saving.stage = "asked" /\ saving' = [saving EXCEPT !.stage = "answered"] /\ config' = saving.put
      /\ UNCHANGED <<server, card, chosen, draft, revised, timer, again, port, fetched, talk, trig, bumped,
                     polling, ops, loud, spent>>
  BY DEF Put
<1>2. /\ saving'.stage = "answered" /\ saving'.put = saving.put /\ saving.put \in Settings
      /\ saving' \in [stage : {"no", "asked", "answered", "applying"}, put : Settings \cup {None}]
  BY <1>1 DEF IInv, TypeOK, Types
<1>3. TypeOK' /\ Types'
  BY <1>1, <1>2 DEF IInv, TypeOK, Types, Settings, server, talk, ops, spent
<1>4. Idle' /\ ChoiceInv'
  BY <1>1, <1>2 DEF IInv, Idle, Busy, ChoiceInv, ops
<1>5. Progress' /\ HotOnlyAddressed'
  BY <1>1, Standing DEF ops
<1> QED BY <1>3, <1>4, <1>5 DEF IInv

LEMMA SavedKeeps == ASSUME IInv, Saved PROVE IInv'
<1>1. /\ saving.put \in Settings /\ ~Has(queue, "save")
      /\ queue \in Seq(Operations) /\ OneEach(queue)
  BY DEF Saved, IInv, TypeOK, Types, Idle, Busy, Has, OneEach, Callers
<1>2. Enqueues("save") /\ trig' \in Triggers /\ bumped' \in BOOLEAN /\ port' \in Settings
  BY <1>1, Reconciling DEF Saved
<1>3. /\ queue' \in Seq(Operations) /\ OneEach(queue')
      /\ queue # <<>> => queue' # <<>> /\ Head(queue') = Head(queue)
      /\ \A c : Has(queue', c) => Has(queue, c) \/ c = "save"
  BY <1>1, <1>2, Enqueued
<1>4. /\ saving.stage = "answered" /\ saving' = [saving EXCEPT !.stage = "applying"]
      /\ draft' = IF revised THEN draft ELSE None
      /\ UNCHANGED <<config, server, card, chosen, revised, timer, again, fetched, talk, polling, step, failed,
                     missed, loud, spent>>
  BY DEF Saved
<1>5. /\ saving'.stage = "applying" /\ saving'.put = saving.put
      /\ saving' \in [stage : {"no", "asked", "answered", "applying"}, put : Settings \cup {None}]
  BY <1>4 DEF IInv, Types
<1>6. TypeOK'
  BY <1>2, <1>3, <1>4, <1>5, QueueTyped DEF IInv, TypeOK, Settings, Triggers, server, talk, spent
<1>7. Types' /\ Idle'
  BY <1>1, <1>2, <1>3, <1>4, <1>5 DEF IInv, Types, Idle, Busy, Has, talk, spent
<1>8. ChoiceInv'
  BY <1>4, <1>5 DEF IInv, ChoiceInv
<1>9. Progress' /\ HotOnlyAddressed'
  BY <1>3, <1>4, Standing
<1> QED BY <1>6, <1>7, <1>8, <1>9 DEF IInv

LEMMA SaveEndsKeeps == ASSUME IInv, SaveEnds PROVE IInv'
<1>1. /\ saving' = NotSaving /\ timer' = (timer \/ again) /\ again' = FALSE /\ ~Busy("save")
      /\ saving.stage # "no"
      /\ UNCHANGED <<config, server, card, chosen, draft, revised, port, fetched, talk, trig, bumped, polling,
                     ops, loud>>
  BY DEF SaveEnds, IInv, Idle
<1>2. left' \in [commands : Nat, edits : Nat, faults : Nat, loud : Nat] /\ faulty' \in BOOLEAN
  BY Spending DEF SaveEnds, IInv, TypeOK, Types, spent
<1>3. TypeOK' /\ Types'
  <2>1. /\ saving' \in [stage : {"no", "asked", "answered", "applying"}, put : Settings \cup {None}]
        /\ saving'.stage = "no"
    BY <1>1 DEF NotSaving
  <2>2. timer' \in BOOLEAN /\ again' \in BOOLEAN
    BY <1>1
  <2> QED BY <1>1, <1>2, <2>1, <2>2 DEF IInv, TypeOK, Types, Settings, server, talk, ops
<1>4. Idle' /\ ChoiceInv'
  BY <1>1 DEF IInv, Idle, Busy, ChoiceInv, NotSaving, ops
<1>5. Progress' /\ HotOnlyAddressed'
  BY <1>1, Standing DEF ops
<1> QED BY <1>3, <1>4, <1>5 DEF IInv

LEMMA RenderKeeps == ASSUME IInv, Render PROVE IInv'
<1>1. /\ card' = Effective
      /\ UNCHANGED <<config, server, chosen, draft, revised, timer, again, saving, port, fetched, talk, trig, bumped,
                     polling, ops, loud, spent>>
  BY DEF Render
<1>2. Effective \in Settings /\ (draft # None => Effective = draft)
  BY DEF Effective, IInv, TypeOK
<1>3. TypeOK' /\ Types'
  BY <1>1, <1>2 DEF IInv, TypeOK, Types, server, talk, ops, spent
<1>4. Idle' /\ ChoiceInv'
  BY <1>1, <1>2 DEF IInv, Idle, Busy, ChoiceInv, ops
<1>5. Progress' /\ HotOnlyAddressed'
  BY <1>1, Standing DEF ops
<1> QED BY <1>3, <1>4, <1>5 DEF IInv

LEMMA SoundKeeps == ASSUME IInv, Sound PROVE IInv'
<1>1. UNCHANGED <<config, server, card_, port, fetched, talk, trig, bumped, polling, ops>> /\ loud' = ~loud
  BY DEF Sound
<1>2. left' \in [commands : Nat, edits : Nat, faults : Nat, loud : Nat] /\ faulty' \in BOOLEAN
  BY Spending DEF Sound, IInv, TypeOK, Types, spent
<1>3. TypeOK' /\ Types'
  BY <1>1, <1>2 DEF IInv, TypeOK, Types, server, card_, talk, ops
<1>4. Idle' /\ ChoiceInv'
  BY <1>1 DEF IInv, Idle, Busy, ChoiceInv, card_, ops
<1>5. Progress' /\ HotOnlyAddressed'
  BY <1>1, Standing DEF ops
<1> QED BY <1>3, <1>4, <1>5 DEF IInv

LEMMA NextKeeps == IInv /\ [Next]_vars => IInv'
<1> SUFFICES ASSUME IInv, [Next]_vars PROVE IInv'
  OBVIOUS
<1>1. CASE UNCHANGED vars
  <2>1. UNCHANGED <<config, server, card_, port, fetched, talk, trig, bumped, polling, ops, loud, spent>>
    BY <1>1 DEF vars
  <2>2. TypeOK' /\ Types' /\ Idle' /\ ChoiceInv'
    BY <2>1 DEF IInv, TypeOK, Types, Idle, Busy, ChoiceInv, server, card_, talk, ops, spent
  <2>3. Progress' /\ HotOnlyAddressed'
    BY <2>1, Standing DEF ops
  <2> QED BY <2>2, <2>3 DEF IInv
<1> QED
  BY <1>1, PerformKeeps, FinishKeeps, SkipKeeps, FailKeeps, CommandKeeps, PollLevelsKeeps,
     LevelsKnownKeeps, FetchKeeps, FetchedKeeps, EditKeeps, SaveKeeps, PutKeeps, SavedKeeps,
     SaveEndsKeeps, RenderKeeps, SoundKeeps DEF Next

(* The inductive invariant holds.                                          *)
THEOREM InvariantHolds == Spec => []IInv
BY InitIInv, NextKeeps, PTL DEF Spec

(* Every variable of the talk has its type, and a caller that awaits its   *)
(* operation never has two of them in the queue.                           *)
THEOREM TypesHold == Spec => []TypeOK
<1>1. IInv => TypeOK
  BY DEF IInv
<1> QED BY InvariantHolds, <1>1, PTL

(* The producer of a bridge runs only while the server has a target for    *)
(* it, whichever requests fail and in whatever order the commands, the     *)
(* trigger and the settings queue their operations.                        *)
THEOREM NeverHotForNobody == Spec => []HotOnlyAddressed
<1>1. IInv => HotOnlyAddressed
  BY DEF IInv
<1> QED BY InvariantHolds, <1>1, PTL

(* The session and the server agree on the talk whenever no operation is   *)
(* under way and the last one did not fail.                                *)
THEOREM SessionAgreesWithServer == Spec => []Agreement
<1>1. IInv => Agreement
  BY DEF IInv, TypeOK, Progress, Agreement
<1> QED BY InvariantHolds, <1>1, PTL

(* A choice of the user is given up by the card only when the server has   *)
(* it: until then the draft is the choice, and the card shows it.          *)
THEOREM ChoiceOnCardOrSaved ==
  Spec => [](IF draft = None THEN config = chosen ELSE draft = chosen /\ card = chosen)
<1>1. IInv => IF draft = None THEN config = chosen ELSE draft = chosen /\ card = chosen
  BY DEF IInv, ChoiceInv
<1> QED BY InvariantHolds, <1>1, PTL
=============================================================================
