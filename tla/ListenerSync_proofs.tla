------------------------- MODULE ListenerSync_proofs -------------------------
(***************************************************************************)
(* What the routing and the listeners guarantee for every value of their   *)
(* constants: first the invariants of TalkRouting, then that the           *)
(* composition of listeners and server implements TalkRouting, so that     *)
(* what is proved about the routing holds under its clients too, and what  *)
(* the composition guarantees itself.                                      *)
(***************************************************************************)
EXTENDS ListenerSync, FiniteSetTheorems, SequenceTheorems, WellFoundedInduction, TLAPS

(***************************************************************************)
(* TalkRouting.  The inductive invariant is IInv, the types, the           *)
(* bookkeeping and ConsumersHaveLiveEnds together.  The bookkeeping needs  *)
(* the types; that a stored consumer has live ends needs that the          *)
(* bookkeeping held while its request was in flight (Live(p), an open      *)
(* link), for the step that stores it looks at none of that again.         *)
(*                                                                         *)
(* The recorded deliveries are then followed step by step: each is either  *)
(* freshly resolved or kept together with all it depends on (FreshOrKept). *)
(***************************************************************************)

(* Every non-empty set of naturals has a least element.                    *)
LEMMA LeastNatural ==
  ASSUME NEW S \in SUBSET Nat, S # {}
  PROVE  \E n \in S : \A m \in S : n <= m
<1> DEFINE R == OpToRel(<, Nat)
<1>1. IsWellFoundedOn(R, Nat)
  BY NatLessThanWellFounded, Zenon
<1>2. \A x, y \in Nat : x < y => <<x, y>> \in R
  BY DEF OpToRel
<1> HIDE DEF R
<1>3. PICK n \in S : \A m \in S : ~ (<<m, n>> \in R)
  BY <1>1, WFMin
<1>4. \A m \in S : ~ (m < n)
  BY <1>2, <1>3
<1> QED
  BY <1>4

(* Resolving a recipient yields one of the speaker's targets that reaches  *)
(* it, or none.                                                            *)
LEMMA FirstReachingLeads ==
  talkTargets \in [Sockets -> TalkLists] => \A a \in Sockets, s \in Sockets :
    FirstReaching(a, s) # None =>
      /\ FirstReaching(a, s) \in Targets
      /\ Reaches(a, FirstReaching(a, s), s)
<1> SUFFICES ASSUME talkTargets \in [Sockets -> TalkLists],
                    NEW a \in Sockets, NEW s \in Sockets,
                    FirstReaching(a, s) # None
             PROVE  /\ FirstReaching(a, s) \in Targets
                    /\ Reaches(a, FirstReaching(a, s), s)
  OBVIOUS
<1> DEFINE hits == {i \in DOMAIN talkTargets[a] : Reaches(a, talkTargets[a][i], s)}
           first == CHOOSE i \in hits : \A j \in hits : i <= j
<1>1. talkTargets[a] \in Seq(Targets)
  BY RoutingAssumption
<1>2. hits \subseteq Nat /\ hits # {}
  BY <1>1 DEF FirstReaching
<1>3. \E i \in hits : \A j \in hits : i <= j
  <2> HIDE DEF hits
  <2> QED  BY <1>2, LeastNatural
<1>4. first \in hits
  <2> HIDE DEF hits
  <2> QED  BY <1>3
<1>5. FirstReaching(a, s) = talkTargets[a][first]
  BY <1>2 DEF FirstReaching
<1>6. first \in DOMAIN talkTargets[a] /\ Reaches(a, talkTargets[a][first], s)
  <2> HIDE DEF first
  <2> QED  BY <1>4
<1>7. talkTargets[a][first] \in Targets
  <2> HIDE DEF first
  <2> QED  BY <1>1, <1>6
<1> QED
  <2> HIDE DEF first
  <2> QED  BY <1>5, <1>6, <1>7

(* The same in the state after a step.                                     *)
LEMMA FirstReachingLeadsNext ==
  (talkTargets \in [Sockets -> TalkLists])' => (\A a \in Sockets, s \in Sockets :
    FirstReaching(a, s) # None =>
      /\ FirstReaching(a, s) \in Targets
      /\ Reaches(a, FirstReaching(a, s), s))'
BY FirstReachingLeads, PTL

(* What is routed anew goes to a recipient a target of the speaker reaches *)
(* in the state after the step, and nothing else is touched.               *)
LEMMA SyncRoutes ==
  ASSUME TypeOK, (talkTargets \in [Sockets -> TalkLists])',
         NEW P \in SUBSET Producers, \A p \in P : owner'[p] \in Sockets, Sync(P)
  PROVE  /\ deliveries' \in [Producers -> [Sockets -> Targets \cup {None}]]
         /\ \A p \in P, s \in Sockets : deliveries'[p][s] # None =>
              (Reaches(owner[p], deliveries[p][s], s))'
         /\ \A p \in Producers \ P : deliveries'[p] = deliveries[p]
         /\ consumers' \subseteq consumers
<1> DEFINE next(p, s) == FirstReaching(owner[p], s)'
<1>1. \A p \in P, s \in Sockets : next(p, s) # None =>
        next(p, s) \in Targets /\ (Reaches(owner[p], FirstReaching(owner[p], s), s))'
  BY FirstReachingLeadsNext
<1>2. \A p \in P : deliveries'[p] = [s \in Sockets |-> next(p, s)]
  BY DEF Sync, Deliveries
<1>3. \A p \in Producers \ P : deliveries'[p] = deliveries[p]
  BY DEF Sync
<1>4. consumers' \subseteq consumers
  BY DEF Sync
<1>5. \A p \in P, s \in Sockets : deliveries'[p][s] = next(p, s)
  BY <1>2
<1> HIDE DEF next
<1>6. deliveries' \in [Producers -> [Sockets -> Targets \cup {None}]]
  <2>1. \A p \in P : deliveries'[p] \in [Sockets -> Targets \cup {None}]
    BY <1>1, <1>2
  <2>2. \A p \in Producers \ P : deliveries'[p] \in [Sockets -> Targets \cup {None}]
    BY <1>3 DEF TypeOK
  <2>3. deliveries' = [p \in Producers |-> IF p \in P THEN Deliveries(p)' ELSE deliveries[p]]
    BY DEF Sync
  <2> QED
    BY <2>1, <2>2, <2>3
<1>7. \A p \in P, s \in Sockets : deliveries'[p][s] # None =>
        (Reaches(owner[p], deliveries[p][s], s))'
  BY <1>1, <1>5 DEF next
<1> QED
  BY <1>3, <1>4, <1>6, <1>7

(***************************************************************************)
(* The inductive invariant.                                                *)
(***************************************************************************)
USE DEF peerVars, producerVars, mediaVars, adminVars

IInv == TypeOK /\ Bookkeeping /\ ConsumersHaveLiveEnds

(* A producer that can be heard belongs to a socket. *)
LEMMA LiveOwners ==
  Bookkeeping => \A p \in LiveProducers : p \in Producers /\ owner[p] \in Sockets
BY DEF Bookkeeping, LiveProducers

(* Every step keeps the types.  That the owner of a live producer is a     *)
(* socket comes from the bookkeeping.                                      *)
LEMMA TypeStep == TypeOK /\ Bookkeeping /\ [Next]_vars => TypeOK'
<1> SUFFICES ASSUME TypeOK, Bookkeeping, [Next]_vars PROVE TypeOK'
  OBVIOUS
<1>1. ASSUME NEW s \in Sockets, Connect(s)
      PROVE  TypeOK'
  BY <1>1, RoutingAssumption DEF TypeOK, Connect
<1>2. ASSUME NEW s \in Sockets, Disconnect(s)
      PROVE  TypeOK'
  BY <1>2, RoutingAssumption DEF TypeOK, Disconnect, DropMedia, Stages
<1>3. ASSUME NEW s \in Sockets, NEW u \in Users, NEW q \in Productions, RegisterUser(s, u, q)
      PROVE  TypeOK'
  BY <1>3, RoutingAssumption DEF TypeOK, RegisterUser, DropMedia, Stages
<1>4. ASSUME NEW s \in Sockets, NEW q \in Productions, SetActiveProduction(s, q)
      PROVE  TypeOK'
  BY <1>4, LiveOwners, SyncRoutes DEF TypeOK, SetActiveProduction
<1>5. ASSUME NEW s \in Sockets, NEW list \in TalkLists, TalkTargetsUpdated(s, list)
      PROVE  TypeOK'
  <2>1. (talkTargets \in [Sockets -> TalkLists])'
    BY <1>5 DEF TypeOK, TalkTargetsUpdated
  <2>2. CASE list = <<>>
    BY <1>5, <2>1, <2>2 DEF TypeOK, TalkTargetsUpdated
  <2>3. CASE list # <<>>
    <3>1. Sync(TalkProducersOf(s)) /\ owner' = owner
      BY <1>5, <2>3 DEF TalkTargetsUpdated
    <3>2. TalkProducersOf(s) \in SUBSET Producers
          /\ \A p \in TalkProducersOf(s) : owner'[p] \in Sockets
      BY <3>1, LiveOwners DEF TalkProducersOf
    <3>3. deliveries' \in [Producers -> [Sockets -> Targets \cup {None}]]
          /\ consumers' \subseteq consumers
      BY <2>1, <3>1, <3>2, SyncRoutes
    <3> QED
      BY <1>5, <2>1, <3>3 DEF TypeOK, TalkTargetsUpdated
  <2> QED
    BY <2>2, <2>3
<1>6. ASSUME NEW s \in Sockets, NEW list \in TalkLists, PttState(s, list)
      PROVE  TypeOK'
  BY <1>6, RoutingAssumption DEF TypeOK, PttState
<1>7. ASSUME NEW s \in Sockets, ForceStopBegin(s)
      PROVE  TypeOK'
  BY <1>7, RoutingAssumption DEF TypeOK, ForceStopBegin, TalkProducersOf, LiveProducers
<1>8. ASSUME NEW s \in Sockets, ForceStopEnd(s)
      PROVE  TypeOK'
  BY <1>8, LiveOwners, SyncRoutes DEF TypeOK, ForceStopEnd
<1>9. ASSUME NEW p \in Producers, NEW s \in Sockets, ProduceStart(s, p)
      PROVE  TypeOK'
  BY <1>9, RoutingAssumption DEF TypeOK, ProduceStart, Stages
<1>10. ASSUME NEW p \in Producers, ProduceDone(p)
      PROVE  TypeOK'
  <2>1. Sync({p}) /\ owner' = owner /\ (talkTargets \in [Sockets -> TalkLists])'
    BY <1>10 DEF ProduceDone, TypeOK
  <2>2. owner'[p] \in Sockets
    BY <1>10, <2>1 DEF ProduceDone, Bookkeeping
  <2>3. deliveries' \in [Producers -> [Sockets -> Targets \cup {None}]]
        /\ consumers' \subseteq consumers
    BY <2>1, <2>2, SyncRoutes
  <2> QED
    BY <1>10, <2>3 DEF TypeOK, ProduceDone, Stages
<1>11. ASSUME NEW p \in Producers, HookListeners(p)
      PROVE  TypeOK'
  BY <1>11, RoutingAssumption DEF TypeOK, HookListeners, Stages
<1>12. ASSUME NEW p \in Producers, PauseProducer(p)
      PROVE  TypeOK'
  BY <1>12, RoutingAssumption DEF TypeOK, PauseProducer
<1>13. ASSUME NEW p \in Producers, ResumeProducer(p)
      PROVE  TypeOK'
  <2>1. CASE stage[p] = "hooked" /\ paused[p]
    <3>1. Sync({p}) /\ owner' = owner /\ (talkTargets \in [Sockets -> TalkLists])'
      BY <1>13, <2>1 DEF ResumeProducer, TypeOK
    <3>2. owner'[p] \in Sockets
      BY <1>13, <3>1 DEF ResumeProducer, Bookkeeping
    <3>3. deliveries' \in [Producers -> [Sockets -> Targets \cup {None}]]
          /\ consumers' \subseteq consumers
      BY <3>1, <3>2, SyncRoutes
    <3> QED
      BY <1>13, <3>3 DEF TypeOK, ResumeProducer
  <2>2. CASE ~ (stage[p] = "hooked" /\ paused[p])
    BY <1>13, <2>2 DEF TypeOK, ResumeProducer
  <2> QED
    BY <2>1, <2>2
<1>14. ASSUME NEW p \in Producers, ProducerClose(p)
      PROVE  TypeOK'
  BY <1>14, RoutingAssumption DEF TypeOK, ProducerClose, DropMedia, Stages
<1>15. ASSUME NEW p \in Producers, NEW s \in Sockets, ConsumeStart(s, p)
      PROVE  TypeOK'
  BY <1>15, RoutingAssumption DEF TypeOK, ConsumeStart
<1>16. ASSUME NEW p \in Producers, NEW s \in Sockets, NEW id \in ConsumerIds, ConsumeDone(s, p, id)
      PROVE  TypeOK'
  BY <1>16, RoutingAssumption DEF TypeOK, ConsumeDone, Consumer
<1>17. ASSUME NEW c \in consumers, CloseConsumer(c)
      PROVE  TypeOK'
  BY <1>17, RoutingAssumption DEF TypeOK, CloseConsumer
<1>18. ASSUME NEW m \in Matrices, EditMatrix(m)
      PROVE  TypeOK'
  BY <1>18, LiveOwners, SyncRoutes DEF TypeOK, EditMatrix
<1>19. ASSUME NEW on \in Modes, SetMultipleProductions(on)
      PROVE  TypeOK'
  <2>1. CASE on
    BY <1>19, <2>1 DEF TypeOK, SetMultipleProductions
  <2>2. CASE ~ on
    <3>1. Sync(LiveProducers) /\ owner' = owner /\ (talkTargets \in [Sockets -> TalkLists])'
      BY <1>19, <2>2 DEF SetMultipleProductions, TypeOK
    <3>2. LiveProducers \in SUBSET Producers
      BY DEF LiveProducers
    <3>3. deliveries' \in [Producers -> [Sockets -> Targets \cup {None}]]
          /\ consumers' \subseteq consumers
      BY <3>1, <3>2, LiveOwners, SyncRoutes
    <3>4. production' \in [Sockets -> Productions \cup {None}]
      BY <1>19, <2>2, RoutingAssumption DEF SetMultipleProductions, TypeOK
    <3> QED
      BY <1>19, <3>3, <3>4 DEF TypeOK, SetMultipleProductions
  <2> QED
    BY <2>1, <2>2
<1>20. CASE UNCHANGED vars
  BY <1>20 DEF vars, TypeOK
<1> QED
  BY <1>1, <1>2, <1>3, <1>4, <1>5, <1>6, <1>7, <1>8, <1>9, <1>10, <1>11, <1>12, <1>13, <1>14, <1>15, <1>16, <1>17, <1>18, <1>19, <1>20
  DEF Next, PeerStep, MediaStep

(* Routing anew keeps recorded deliveries with live producers and with     *)
(* recipients that connected.                                              *)
LEMMA SyncKeepsRoutes ==
  ASSUME TypeOK, TypeOK', Bookkeeping, NEW P \in SUBSET Producers, Sync(P),
         UNCHANGED <<link, user, owner>>, \A r \in Producers : Live(r) => Live(r)',
         \A r \in P : owner[r] \in Sockets /\ Live(r)'
  PROVE  \A r \in Producers, x \in Sockets :
           deliveries'[r][x] # None => Live(r)' /\ (Registered(x)' \/ link'[x] = "gone")
<1> SUFFICES ASSUME NEW r \in Producers, NEW x \in Sockets, deliveries'[r][x] # None
             PROVE  Live(r)' /\ (Registered(x)' \/ link'[x] = "gone")
  OBVIOUS
<1>1. CASE r \in P
  <2>1. (talkTargets \in [Sockets -> TalkLists])'
    BY DEF TypeOK
  <2>2. (Reaches(owner[r], deliveries[r][x], x))'
    BY <1>1, <2>1, SyncRoutes
  <2>3. Registered(x)'
    BY <2>2 DEF Reaches
  <2> QED
    BY <1>1, <2>3 DEF Registered
<1>2. CASE r \notin P
  <2>1. deliveries'[r] = deliveries[r]
    BY <1>2 DEF Sync
  <2> QED
    BY <2>1 DEF Bookkeeping, Registered
<1> QED
  BY <1>1, <1>2


(* Every step keeps the bookkeeping.                                       *)
LEMMA BookkeepingStep == TypeOK /\ Bookkeeping /\ [Next]_vars => Bookkeeping'
<1> SUFFICES ASSUME TypeOK, Bookkeeping, [Next]_vars, TypeOK' PROVE Bookkeeping'
  BY TypeStep
<1>1. ASSUME NEW s \in Sockets, Connect(s)
      PROVE  Bookkeeping'
  BY <1>1, RoutingAssumption DEF TypeOK, Bookkeeping, Registered, Live, Connect
<1>2. ASSUME NEW s \in Sockets, Disconnect(s)
      PROVE  Bookkeeping'
  BY <1>2, RoutingAssumption DEF TypeOK, Bookkeeping, Registered, Live, Disconnect, DropMedia, ProducersOf
<1>3. ASSUME NEW s \in Sockets, NEW u \in Users, NEW q \in Productions, RegisterUser(s, u, q)
      PROVE  Bookkeeping'
  BY <1>3, RoutingAssumption DEF TypeOK, Bookkeeping, Registered, Live, RegisterUser, DropMedia, ProducersOf
<1>4. ASSUME NEW s \in Sockets, NEW q \in Productions, SetActiveProduction(s, q)
      PROVE  Bookkeeping'
  <2>1. Sync(LiveProducers) /\ UNCHANGED <<link, user, owner>> /\ (\A r \in Producers : Live(r) => Live(r)')
    BY <1>4 DEF SetActiveProduction, Live
  <2>2. LiveProducers \in SUBSET Producers /\ \A r \in LiveProducers : owner[r] \in Sockets /\ Live(r)'
    BY <1>4, <2>1, LiveOwners DEF SetActiveProduction, Bookkeeping, TypeOK, Live, LiveProducers, TalkProducersOf
  <2>3. \A r \in Producers, x \in Sockets :
         deliveries'[r][x] # None => Live(r)' /\ (Registered(x)' \/ link'[x] = "gone")
    BY <2>1, <2>2, SyncKeepsRoutes
  <2> QED
    BY <1>4, <2>1, <2>3 DEF SetActiveProduction, Bookkeeping, Registered, Live, TypeOK
<1>5. ASSUME NEW s \in Sockets, NEW list \in TalkLists, TalkTargetsUpdated(s, list)
      PROVE  Bookkeeping'
  <2>1. CASE list # <<>>
    <3>1. Sync(TalkProducersOf(s)) /\ UNCHANGED <<link, user, owner>> /\ (\A r \in Producers : Live(r) => Live(r)')
      BY <1>5, <2>1 DEF TalkTargetsUpdated, Live
    <3>2. TalkProducersOf(s) \in SUBSET Producers /\ \A r \in TalkProducersOf(s) : owner[r] \in Sockets /\ Live(r)'
      BY <1>5, <3>1, LiveOwners DEF TalkTargetsUpdated, Bookkeeping, TypeOK, Live, LiveProducers, TalkProducersOf
    <3>3. \A r \in Producers, x \in Sockets :
           deliveries'[r][x] # None => Live(r)' /\ (Registered(x)' \/ link'[x] = "gone")
      BY <3>1, <3>2, SyncKeepsRoutes
    <3> QED
      BY <1>5, <3>1, <3>3 DEF TalkTargetsUpdated, Bookkeeping, Registered, Live, TypeOK
  <2>2. CASE ~ (list # <<>>)
    BY <1>5, <2>2 DEF TalkTargetsUpdated, Bookkeeping, Registered, Live, TypeOK
  <2> QED
    BY <2>1, <2>2
<1>6. ASSUME NEW s \in Sockets, NEW list \in TalkLists, PttState(s, list)
      PROVE  Bookkeeping'
  BY <1>6, RoutingAssumption DEF TypeOK, Bookkeeping, Registered, Live, PttState
<1>7. ASSUME NEW s \in Sockets, ForceStopBegin(s)
      PROVE  Bookkeeping'
  BY <1>7, RoutingAssumption DEF TypeOK, Bookkeeping, Registered, Live, ForceStopBegin, TalkProducersOf, LiveProducers
<1>8. ASSUME NEW s \in Sockets, ForceStopEnd(s)
      PROVE  Bookkeeping'
  <2>1. Sync((stopping[s] \cap LiveProducers)) /\ UNCHANGED <<link, user, owner>> /\ (\A r \in Producers : Live(r) => Live(r)')
    BY <1>8 DEF ForceStopEnd, Live
  <2>2. (stopping[s] \cap LiveProducers) \in SUBSET Producers /\ \A r \in (stopping[s] \cap LiveProducers) : owner[r] \in Sockets /\ Live(r)'
    BY <1>8, <2>1, LiveOwners DEF ForceStopEnd, Bookkeeping, TypeOK, Live, LiveProducers, TalkProducersOf
  <2>3. \A r \in Producers, x \in Sockets :
         deliveries'[r][x] # None => Live(r)' /\ (Registered(x)' \/ link'[x] = "gone")
    BY <2>1, <2>2, SyncKeepsRoutes
  <2> QED
    BY <1>8, <2>1, <2>3 DEF ForceStopEnd, Bookkeeping, Registered, Live, TypeOK
<1>9. ASSUME NEW p \in Producers, NEW s \in Sockets, ProduceStart(s, p)
      PROVE  Bookkeeping'
  BY <1>9, RoutingAssumption DEF TypeOK, Bookkeeping, Registered, Live, ProduceStart
<1>10. ASSUME NEW p \in Producers, ProduceDone(p)
      PROVE  Bookkeeping'
  <2>1. Sync({p}) /\ UNCHANGED <<link, user, owner>> /\ (\A r \in Producers : Live(r) => Live(r)')
    BY <1>10 DEF ProduceDone, Live
  <2>2. {p} \in SUBSET Producers /\ \A r \in {p} : owner[r] \in Sockets /\ Live(r)'
    BY <1>10, <2>1, LiveOwners DEF ProduceDone, Bookkeeping, TypeOK, Live, LiveProducers, TalkProducersOf
  <2>3. \A r \in Producers, x \in Sockets :
         deliveries'[r][x] # None => Live(r)' /\ (Registered(x)' \/ link'[x] = "gone")
    BY <2>1, <2>2, SyncKeepsRoutes
  <2> QED
    BY <1>10, <2>1, <2>3 DEF ProduceDone, Bookkeeping, Registered, Live, TypeOK
<1>11. ASSUME NEW p \in Producers, HookListeners(p)
      PROVE  Bookkeeping'
  BY <1>11, RoutingAssumption DEF TypeOK, Bookkeeping, Registered, Live, HookListeners
<1>12. ASSUME NEW p \in Producers, PauseProducer(p)
      PROVE  Bookkeeping'
  BY <1>12, RoutingAssumption DEF TypeOK, Bookkeeping, Registered, Live, PauseProducer
<1>13. ASSUME NEW p \in Producers, ResumeProducer(p)
      PROVE  Bookkeeping'
  <2>1. CASE stage[p] = "hooked" /\ paused[p]
    <3>1. Sync({p}) /\ UNCHANGED <<link, user, owner>> /\ (\A r \in Producers : Live(r) => Live(r)')
      BY <1>13, <2>1 DEF ResumeProducer, Live
    <3>2. {p} \in SUBSET Producers /\ \A r \in {p} : owner[r] \in Sockets /\ Live(r)'
      BY <1>13, <3>1, LiveOwners DEF ResumeProducer, Bookkeeping, TypeOK, Live, LiveProducers, TalkProducersOf
    <3>3. \A r \in Producers, x \in Sockets :
           deliveries'[r][x] # None => Live(r)' /\ (Registered(x)' \/ link'[x] = "gone")
      BY <3>1, <3>2, SyncKeepsRoutes
    <3> QED
      BY <1>13, <3>1, <3>3 DEF ResumeProducer, Bookkeeping, Registered, Live, TypeOK
  <2>2. CASE ~ (stage[p] = "hooked" /\ paused[p])
    BY <1>13, <2>2 DEF ResumeProducer, Bookkeeping, Registered, Live, TypeOK
  <2> QED
    BY <2>1, <2>2
<1>14. ASSUME NEW p \in Producers, ProducerClose(p)
      PROVE  Bookkeeping'
  BY <1>14, RoutingAssumption DEF TypeOK, Bookkeeping, Registered, Live, ProducerClose, DropMedia, ProducersOf
<1>15. ASSUME NEW p \in Producers, NEW s \in Sockets, ConsumeStart(s, p)
      PROVE  Bookkeeping'
  BY <1>15, RoutingAssumption DEF TypeOK, Bookkeeping, Registered, Live, ConsumeStart
<1>16. ASSUME NEW p \in Producers, NEW s \in Sockets, NEW id \in ConsumerIds, ConsumeDone(s, p, id)
      PROVE  Bookkeeping'
  BY <1>16, RoutingAssumption DEF TypeOK, Bookkeeping, Registered, Live, ConsumeDone
<1>17. ASSUME NEW c \in consumers, CloseConsumer(c)
      PROVE  Bookkeeping'
  BY <1>17, RoutingAssumption DEF TypeOK, Bookkeeping, Registered, Live, CloseConsumer
<1>18. ASSUME NEW m \in Matrices, EditMatrix(m)
      PROVE  Bookkeeping'
  <2>1. Sync(LiveProducers) /\ UNCHANGED <<link, user, owner>> /\ (\A r \in Producers : Live(r) => Live(r)')
    BY <1>18 DEF EditMatrix, Live
  <2>2. LiveProducers \in SUBSET Producers /\ \A r \in LiveProducers : owner[r] \in Sockets /\ Live(r)'
    BY <1>18, <2>1, LiveOwners DEF EditMatrix, Bookkeeping, TypeOK, Live, LiveProducers, TalkProducersOf
  <2>3. \A r \in Producers, x \in Sockets :
         deliveries'[r][x] # None => Live(r)' /\ (Registered(x)' \/ link'[x] = "gone")
    BY <2>1, <2>2, SyncKeepsRoutes
  <2> QED
    BY <1>18, <2>1, <2>3 DEF EditMatrix, Bookkeeping, Registered, Live, TypeOK
<1>19. ASSUME NEW on \in Modes, SetMultipleProductions(on)
      PROVE  Bookkeeping'
  <2>1. CASE ~ on
    <3>1. Sync(LiveProducers) /\ UNCHANGED <<link, user, owner>> /\ (\A r \in Producers : Live(r) => Live(r)')
      BY <1>19, <2>1 DEF SetMultipleProductions, Live
    <3>2. LiveProducers \in SUBSET Producers /\ \A r \in LiveProducers : owner[r] \in Sockets /\ Live(r)'
      BY <1>19, <3>1, LiveOwners DEF SetMultipleProductions, Bookkeeping, TypeOK, Live, LiveProducers, TalkProducersOf
    <3>3. \A r \in Producers, x \in Sockets :
           deliveries'[r][x] # None => Live(r)' /\ (Registered(x)' \/ link'[x] = "gone")
      BY <3>1, <3>2, SyncKeepsRoutes
    <3> QED
      BY <1>19, <3>1, <3>3 DEF SetMultipleProductions, Bookkeeping, Registered, Live, TypeOK
  <2>2. CASE ~ (~ on)
    BY <1>19, <2>2 DEF SetMultipleProductions, Bookkeeping, Registered, Live, TypeOK
  <2> QED
    BY <2>1, <2>2
<1>20. CASE UNCHANGED vars
  BY <1>20 DEF vars, Bookkeeping, Registered, Live
<1> QED
  BY <1>1, <1>2, <1>3, <1>4, <1>5, <1>6, <1>7, <1>8, <1>9, <1>10, <1>11, <1>12, <1>13, <1>14, <1>15, <1>16, <1>17, <1>18, <1>19, <1>20
  DEF Next, PeerStep, MediaStep

(* Every step keeps the ends of stored consumers live.                     *)
LEMMA ConsumersStep == IInv /\ [Next]_vars => ConsumersHaveLiveEnds'
<1> SUFFICES ASSUME TypeOK, Bookkeeping, ConsumersHaveLiveEnds, [Next]_vars
             PROVE  ConsumersHaveLiveEnds'
  BY DEF IInv
<1>1. ASSUME NEW s \in Sockets, Connect(s)
      PROVE  ConsumersHaveLiveEnds'
  BY <1>1, RoutingAssumption DEF TypeOK, Consumer, Bookkeeping, ConsumersHaveLiveEnds, Registered, Live, Connect
<1>2. ASSUME NEW s \in Sockets, Disconnect(s)
      PROVE  ConsumersHaveLiveEnds'
  BY <1>2, RoutingAssumption DEF TypeOK, Consumer, Bookkeeping, ConsumersHaveLiveEnds, Registered, Live, Disconnect, DropMedia, ProducersOf
<1>3. ASSUME NEW s \in Sockets, NEW u \in Users, NEW q \in Productions, RegisterUser(s, u, q)
      PROVE  ConsumersHaveLiveEnds'
  BY <1>3, RoutingAssumption DEF TypeOK, Consumer, Bookkeeping, ConsumersHaveLiveEnds, Registered, Live, RegisterUser, DropMedia, ProducersOf
<1>4. ASSUME NEW s \in Sockets, NEW q \in Productions, SetActiveProduction(s, q)
      PROVE  ConsumersHaveLiveEnds'
  BY <1>4, RoutingAssumption DEF TypeOK, Consumer, Bookkeeping, ConsumersHaveLiveEnds, Registered, Live, SetActiveProduction, Sync
<1>5. ASSUME NEW s \in Sockets, NEW list \in TalkLists, TalkTargetsUpdated(s, list)
      PROVE  ConsumersHaveLiveEnds'
  BY <1>5, RoutingAssumption DEF TypeOK, Consumer, Bookkeeping, ConsumersHaveLiveEnds, Registered, Live, TalkTargetsUpdated, Sync
<1>6. ASSUME NEW s \in Sockets, NEW list \in TalkLists, PttState(s, list)
      PROVE  ConsumersHaveLiveEnds'
  BY <1>6, RoutingAssumption DEF TypeOK, Consumer, Bookkeeping, ConsumersHaveLiveEnds, Registered, Live, PttState
<1>7. ASSUME NEW s \in Sockets, ForceStopBegin(s)
      PROVE  ConsumersHaveLiveEnds'
  BY <1>7, RoutingAssumption DEF TypeOK, Consumer, Bookkeeping, ConsumersHaveLiveEnds, Registered, Live, ForceStopBegin
<1>8. ASSUME NEW s \in Sockets, ForceStopEnd(s)
      PROVE  ConsumersHaveLiveEnds'
  BY <1>8, RoutingAssumption DEF TypeOK, Consumer, Bookkeeping, ConsumersHaveLiveEnds, Registered, Live, ForceStopEnd, Sync
<1>9. ASSUME NEW p \in Producers, NEW s \in Sockets, ProduceStart(s, p)
      PROVE  ConsumersHaveLiveEnds'
  BY <1>9, RoutingAssumption DEF TypeOK, Consumer, Bookkeeping, ConsumersHaveLiveEnds, Registered, Live, ProduceStart
<1>10. ASSUME NEW p \in Producers, ProduceDone(p)
      PROVE  ConsumersHaveLiveEnds'
  BY <1>10, RoutingAssumption DEF TypeOK, Consumer, Bookkeeping, ConsumersHaveLiveEnds, Registered, Live, ProduceDone, Sync
<1>11. ASSUME NEW p \in Producers, HookListeners(p)
      PROVE  ConsumersHaveLiveEnds'
  BY <1>11, RoutingAssumption DEF TypeOK, Consumer, Bookkeeping, ConsumersHaveLiveEnds, Registered, Live, HookListeners
<1>12. ASSUME NEW p \in Producers, PauseProducer(p)
      PROVE  ConsumersHaveLiveEnds'
  BY <1>12, RoutingAssumption DEF TypeOK, Consumer, Bookkeeping, ConsumersHaveLiveEnds, Registered, Live, PauseProducer
<1>13. ASSUME NEW p \in Producers, ResumeProducer(p)
      PROVE  ConsumersHaveLiveEnds'
  BY <1>13, RoutingAssumption DEF TypeOK, Consumer, Bookkeeping, ConsumersHaveLiveEnds, Registered, Live, ResumeProducer, Sync
<1>14. ASSUME NEW p \in Producers, ProducerClose(p)
      PROVE  ConsumersHaveLiveEnds'
  BY <1>14, RoutingAssumption DEF TypeOK, Consumer, Bookkeeping, ConsumersHaveLiveEnds, Registered, Live, ProducerClose, DropMedia, ProducersOf
<1>15. ASSUME NEW p \in Producers, NEW s \in Sockets, ConsumeStart(s, p)
      PROVE  ConsumersHaveLiveEnds'
  BY <1>15, RoutingAssumption DEF TypeOK, Consumer, Bookkeeping, ConsumersHaveLiveEnds, Registered, Live, ConsumeStart
<1>16. ASSUME NEW p \in Producers, NEW s \in Sockets, NEW id \in ConsumerIds, ConsumeDone(s, p, id)
      PROVE  ConsumersHaveLiveEnds'
  BY <1>16, RoutingAssumption DEF TypeOK, Consumer, Bookkeeping, ConsumersHaveLiveEnds, Registered, Live, ConsumeDone
<1>17. ASSUME NEW c \in consumers, CloseConsumer(c)
      PROVE  ConsumersHaveLiveEnds'
  BY <1>17, RoutingAssumption DEF TypeOK, Consumer, Bookkeeping, ConsumersHaveLiveEnds, Registered, Live, CloseConsumer
<1>18. ASSUME NEW m \in Matrices, EditMatrix(m)
      PROVE  ConsumersHaveLiveEnds'
  BY <1>18, RoutingAssumption DEF TypeOK, Consumer, Bookkeeping, ConsumersHaveLiveEnds, Registered, Live, EditMatrix, Sync
<1>19. ASSUME NEW on \in Modes, SetMultipleProductions(on)
      PROVE  ConsumersHaveLiveEnds'
  BY <1>19, RoutingAssumption DEF TypeOK, Consumer, Bookkeeping, ConsumersHaveLiveEnds, Registered, Live, SetMultipleProductions, Sync
<1>20. CASE UNCHANGED vars
  BY <1>20 DEF vars, Consumer, Bookkeeping, ConsumersHaveLiveEnds, Registered, Live
<1> QED
  BY <1>1, <1>2, <1>3, <1>4, <1>5, <1>6, <1>7, <1>8, <1>9, <1>10, <1>11, <1>12, <1>13, <1>14, <1>15, <1>16, <1>17, <1>18, <1>19, <1>20
  DEF Next, PeerStep, MediaStep

(* Every reachable state is well typed, its bookkeeping is right and every *)
(* open consumer has live ends: the inductive invariant.                   *)
THEOREM RoutingInvariant == Spec => []IInv
<1>1. Init => IInv
  BY RoutingAssumption DEF Init, IInv, TypeOK, Bookkeeping, ConsumersHaveLiveEnds, Live, Stages
<1>2. IInv /\ [Next]_vars => IInv'
  BY TypeStep, BookkeepingStep, ConsumersStep DEF IInv
<1> QED
  BY <1>1, <1>2, PTL DEF Spec

(* The types of all variables, for any number of sockets and producers.    *)
THEOREM TypeCorrectness == Spec => []TypeOK
<1>1. IInv => TypeOK
  BY DEF IInv
<1> QED
  BY <1>1, RoutingInvariant, PTL

(* The bookkeeping of serverCore.js between peers, producers, recorded     *)
(* deliveries, pending consume requests and forced stops is consistent.    *)
THEOREM BookkeepingCorrectness == Spec => []Bookkeeping
<1>1. IInv => Bookkeeping
  BY DEF IInv
<1> QED
  BY <1>1, RoutingInvariant, PTL

(* No consumer outlives its recipient, its producer or its speaker.        *)
THEOREM NoOrphanedConsumer == Spec => []ConsumersHaveLiveEnds
<1>1. IInv => ConsumersHaveLiveEnds
  BY DEF IInv
<1> QED
  BY <1>1, RoutingInvariant, PTL

(***************************************************************************)
(* Recorded deliveries stay in scope.                                      *)
(***************************************************************************)
(* What a delivery depends on is as it was. *)
Kept(p, s) ==
  /\ deliveries'[p][s] = deliveries[p][s]
  /\ owner'[p] = owner[p]
  /\ user'[s] = user[s]
  /\ production'[s] = production[s]
  /\ production'[owner[p]] = production[owner[p]]
  /\ matrix' = matrix

FreshOrKept ==
  \A p \in Producers, s \in Sockets :
    Routed(p, s)' => \/ (Reaches(owner[p], deliveries[p][s], s))'
                     \/ Routed(p, s) /\ Kept(p, s)

(* Routing some producers anew leaves each recorded delivery fresh or kept. *)
LEMMA SyncIsFreshOrKept ==
  ASSUME TypeOK, TypeOK', Bookkeeping, NEW P \in SUBSET Producers, Sync(P),
         UNCHANGED <<link, user, owner>>, \A r \in P : owner[r] \in Sockets,
         \A r \in Producers \ P : Live(r)' => Live(r),
         \/ \A r \in Producers : Live(r)' => r \in P
         \/ UNCHANGED <<production, matrix>>
  PROVE  FreshOrKept
<1> SUFFICES ASSUME NEW p \in Producers, NEW s \in Sockets, Routed(p, s)'
             PROVE  \/ (Reaches(owner[p], deliveries[p][s], s))'
                    \/ Routed(p, s) /\ Kept(p, s)
  BY DEF FreshOrKept
<1>1. CASE p \in P
  <2>1. (talkTargets \in [Sockets -> TalkLists])'
    BY DEF TypeOK
  <2>2. deliveries'[p][s] # None
    BY DEF Routed
  <2> QED
    BY <1>1, <2>1, <2>2, SyncRoutes
<1>2. CASE p \notin P
  <2>1. deliveries'[p] = deliveries[p]
    BY <1>2 DEF Sync
  <2> QED
    BY <1>2, <2>1 DEF Routed, Kept
<1> QED
  BY <1>1, <1>2

(* So does every step: whoever changes what a delivery depends on, routes   *)
(* it anew, closes its producer or loses its recipient.                    *)
LEMMA RoutesAreFreshOrKept == TypeOK /\ Bookkeeping /\ [Next]_vars => FreshOrKept
<1> SUFFICES ASSUME TypeOK, Bookkeeping, [Next]_vars, TypeOK' PROVE FreshOrKept
  BY TypeStep
<1>1. ASSUME NEW s \in Sockets, Connect(s)
      PROVE  FreshOrKept
  BY <1>1 DEF Connect, FreshOrKept, Kept, Routed, Registered, Live, Bookkeeping, TypeOK
<1>2. ASSUME NEW s \in Sockets, Disconnect(s)
      PROVE  FreshOrKept
  BY <1>2 DEF Disconnect, FreshOrKept, Kept, Routed, Registered, Live, Bookkeeping, TypeOK, DropMedia, ProducersOf
<1>3. ASSUME NEW s \in Sockets, NEW u \in Users, NEW q \in Productions, RegisterUser(s, u, q)
      PROVE  FreshOrKept
  BY <1>3 DEF RegisterUser, FreshOrKept, Kept, Routed, Registered, Live, Bookkeeping, TypeOK, DropMedia, ProducersOf
<1>4. ASSUME NEW s \in Sockets, NEW q \in Productions, SetActiveProduction(s, q)
      PROVE  FreshOrKept
  <2>1. Sync(LiveProducers) /\ UNCHANGED <<link, user, owner>> /\ (\A r \in Producers : Live(r)' => r \in LiveProducers)
    BY <1>4 DEF SetActiveProduction, Live, LiveProducers
  <2>2. LiveProducers \in SUBSET Producers /\ \A r \in LiveProducers : owner[r] \in Sockets
    BY <1>4, <2>1, LiveOwners DEF SetActiveProduction, Live, LiveProducers, TalkProducersOf, Bookkeeping, TypeOK
  <2>3. \A r \in Producers \ LiveProducers : Live(r)' => Live(r)
    BY <1>4 DEF SetActiveProduction, Live, LiveProducers, TypeOK
  <2> QED
    BY <2>1, <2>2, <2>3, SyncIsFreshOrKept DEF LiveProducers
<1>5. ASSUME NEW s \in Sockets, NEW list \in TalkLists, TalkTargetsUpdated(s, list)
      PROVE  FreshOrKept
  <2>1. CASE list # <<>>
    <3>1. Sync(TalkProducersOf(s)) /\ UNCHANGED <<link, user, owner>> /\ UNCHANGED <<production, matrix>>
      BY <1>5, <2>1 DEF TalkTargetsUpdated, Live, LiveProducers
    <3>2. TalkProducersOf(s) \in SUBSET Producers /\ \A r \in TalkProducersOf(s) : owner[r] \in Sockets
      BY <1>5, <3>1, LiveOwners DEF TalkTargetsUpdated, Live, LiveProducers, TalkProducersOf, Bookkeeping, TypeOK
    <3>3. \A r \in Producers \ TalkProducersOf(s) : Live(r)' => Live(r)
      BY <1>5, <2>1 DEF TalkTargetsUpdated, Live, LiveProducers, TypeOK
    <3> QED
      BY <3>1, <3>2, <3>3, SyncIsFreshOrKept DEF LiveProducers
  <2>2. CASE ~ (list # <<>>)
    BY <1>5, <2>2 DEF TalkTargetsUpdated, FreshOrKept, Kept, Routed, Registered, Live, Bookkeeping, TypeOK
  <2> QED
    BY <2>1, <2>2
<1>6. ASSUME NEW s \in Sockets, NEW list \in TalkLists, PttState(s, list)
      PROVE  FreshOrKept
  BY <1>6 DEF PttState, FreshOrKept, Kept, Routed, Registered, Live, Bookkeeping, TypeOK
<1>7. ASSUME NEW s \in Sockets, ForceStopBegin(s)
      PROVE  FreshOrKept
  BY <1>7 DEF ForceStopBegin, FreshOrKept, Kept, Routed, Registered, Live, Bookkeeping, TypeOK
<1>8. ASSUME NEW s \in Sockets, ForceStopEnd(s)
      PROVE  FreshOrKept
  <2>1. Sync((stopping[s] \cap LiveProducers)) /\ UNCHANGED <<link, user, owner>> /\ UNCHANGED <<production, matrix>>
    BY <1>8 DEF ForceStopEnd, Live, LiveProducers
  <2>2. (stopping[s] \cap LiveProducers) \in SUBSET Producers /\ \A r \in (stopping[s] \cap LiveProducers) : owner[r] \in Sockets
    BY <1>8, <2>1, LiveOwners DEF ForceStopEnd, Live, LiveProducers, TalkProducersOf, Bookkeeping, TypeOK
  <2>3. \A r \in Producers \ (stopping[s] \cap LiveProducers) : Live(r)' => Live(r)
    BY <1>8 DEF ForceStopEnd, Live, LiveProducers, TypeOK
  <2> QED
    BY <2>1, <2>2, <2>3, SyncIsFreshOrKept DEF LiveProducers
<1>9. ASSUME NEW p \in Producers, NEW s \in Sockets, ProduceStart(s, p)
      PROVE  FreshOrKept
  BY <1>9 DEF ProduceStart, FreshOrKept, Kept, Routed, Registered, Live, Bookkeeping, TypeOK
<1>10. ASSUME NEW p \in Producers, ProduceDone(p)
      PROVE  FreshOrKept
  <2>1. Sync({p}) /\ UNCHANGED <<link, user, owner>> /\ UNCHANGED <<production, matrix>>
    BY <1>10 DEF ProduceDone, Live, LiveProducers
  <2>2. {p} \in SUBSET Producers /\ \A r \in {p} : owner[r] \in Sockets
    BY <1>10, <2>1, LiveOwners DEF ProduceDone, Live, LiveProducers, TalkProducersOf, Bookkeeping, TypeOK
  <2>3. \A r \in Producers \ {p} : Live(r)' => Live(r)
    BY <1>10 DEF ProduceDone, Live, LiveProducers, TypeOK
  <2> QED
    BY <2>1, <2>2, <2>3, SyncIsFreshOrKept DEF LiveProducers
<1>11. ASSUME NEW p \in Producers, HookListeners(p)
      PROVE  FreshOrKept
  BY <1>11 DEF HookListeners, FreshOrKept, Kept, Routed, Registered, Live, Bookkeeping, TypeOK
<1>12. ASSUME NEW p \in Producers, PauseProducer(p)
      PROVE  FreshOrKept
  BY <1>12 DEF PauseProducer, FreshOrKept, Kept, Routed, Registered, Live, Bookkeeping, TypeOK
<1>13. ASSUME NEW p \in Producers, ResumeProducer(p)
      PROVE  FreshOrKept
  <2>1. CASE stage[p] = "hooked" /\ paused[p]
    <3>1. Sync({p}) /\ UNCHANGED <<link, user, owner>> /\ UNCHANGED <<production, matrix>>
      BY <1>13, <2>1 DEF ResumeProducer, Live, LiveProducers
    <3>2. {p} \in SUBSET Producers /\ \A r \in {p} : owner[r] \in Sockets
      BY <1>13, <3>1, LiveOwners DEF ResumeProducer, Live, LiveProducers, TalkProducersOf, Bookkeeping, TypeOK
    <3>3. \A r \in Producers \ {p} : Live(r)' => Live(r)
      BY <1>13, <2>1 DEF ResumeProducer, Live, LiveProducers, TypeOK
    <3> QED
      BY <3>1, <3>2, <3>3, SyncIsFreshOrKept DEF LiveProducers
  <2>2. CASE ~ (stage[p] = "hooked" /\ paused[p])
    BY <1>13, <2>2 DEF ResumeProducer, FreshOrKept, Kept, Routed, Registered, Live, Bookkeeping, TypeOK
  <2> QED
    BY <2>1, <2>2
<1>14. ASSUME NEW p \in Producers, ProducerClose(p)
      PROVE  FreshOrKept
  BY <1>14 DEF ProducerClose, FreshOrKept, Kept, Routed, Registered, Live, Bookkeeping, TypeOK, DropMedia, ProducersOf
<1>15. ASSUME NEW p \in Producers, NEW s \in Sockets, ConsumeStart(s, p)
      PROVE  FreshOrKept
  BY <1>15 DEF ConsumeStart, FreshOrKept, Kept, Routed, Registered, Live, Bookkeeping, TypeOK
<1>16. ASSUME NEW p \in Producers, NEW s \in Sockets, NEW id \in ConsumerIds, ConsumeDone(s, p, id)
      PROVE  FreshOrKept
  BY <1>16 DEF ConsumeDone, FreshOrKept, Kept, Routed, Registered, Live, Bookkeeping, TypeOK
<1>17. ASSUME NEW c \in consumers, CloseConsumer(c)
      PROVE  FreshOrKept
  BY <1>17 DEF CloseConsumer, FreshOrKept, Kept, Routed, Registered, Live, Bookkeeping, TypeOK
<1>18. ASSUME NEW m \in Matrices, EditMatrix(m)
      PROVE  FreshOrKept
  <2>1. Sync(LiveProducers) /\ UNCHANGED <<link, user, owner>> /\ (\A r \in Producers : Live(r)' => r \in LiveProducers)
    BY <1>18 DEF EditMatrix, Live, LiveProducers
  <2>2. LiveProducers \in SUBSET Producers /\ \A r \in LiveProducers : owner[r] \in Sockets
    BY <1>18, <2>1, LiveOwners DEF EditMatrix, Live, LiveProducers, TalkProducersOf, Bookkeeping, TypeOK
  <2>3. \A r \in Producers \ LiveProducers : Live(r)' => Live(r)
    BY <1>18 DEF EditMatrix, Live, LiveProducers, TypeOK
  <2> QED
    BY <2>1, <2>2, <2>3, SyncIsFreshOrKept DEF LiveProducers
<1>19. ASSUME NEW on \in Modes, SetMultipleProductions(on)
      PROVE  FreshOrKept
  <2>1. CASE ~ on
    <3>1. Sync(LiveProducers) /\ UNCHANGED <<link, user, owner>> /\ (\A r \in Producers : Live(r)' => r \in LiveProducers)
      BY <1>19, <2>1 DEF SetMultipleProductions, Live, LiveProducers
    <3>2. LiveProducers \in SUBSET Producers /\ \A r \in LiveProducers : owner[r] \in Sockets
      BY <1>19, <3>1, LiveOwners DEF SetMultipleProductions, Live, LiveProducers, TalkProducersOf, Bookkeeping, TypeOK
    <3>3. \A r \in Producers \ LiveProducers : Live(r)' => Live(r)
      BY <1>19, <2>1 DEF SetMultipleProductions, Live, LiveProducers, TypeOK
    <3> QED
      BY <3>1, <3>2, <3>3, SyncIsFreshOrKept DEF LiveProducers
  <2>2. CASE ~ (~ on)
    BY <1>19, <2>2 DEF SetMultipleProductions, FreshOrKept, Kept, Routed, Registered, Live, Bookkeeping, TypeOK
  <2> QED
    BY <2>1, <2>2
<1>20. CASE UNCHANGED vars
  BY <1>20 DEF vars, FreshOrKept, Kept, Routed, Live
<1> QED
  BY <1>1, <1>2, <1>3, <1>4, <1>5, <1>6, <1>7, <1>8, <1>9, <1>10, <1>11, <1>12, <1>13, <1>14, <1>15, <1>16, <1>17, <1>18, <1>19, <1>20
  DEF Next, PeerStep, MediaStep

(* A recorded delivery goes to the addressed user or to a member of the    *)
(* addressed conference, whatever was switched, edited or taken over.      *)
THEOREM DeliveriesReach == Spec => []DeliveriesReachTheAddressed
<1>1. Init => DeliveriesReachTheAddressed
  BY DEF Init, DeliveriesReachTheAddressed, Routed
<1>2. IInv /\ DeliveriesReachTheAddressed /\ [Next]_vars => DeliveriesReachTheAddressed'
  <2> SUFFICES ASSUME IInv, DeliveriesReachTheAddressed, FreshOrKept
               PROVE  DeliveriesReachTheAddressed'
    BY RoutesAreFreshOrKept DEF IInv
  <2> SUFFICES ASSUME NEW p \in Producers, NEW s \in Sockets, Routed(p, s)'
               PROVE  \/ deliveries'[p][s].type = "user" /\ user'[s] = deliveries'[p][s].id
                      \/ deliveries'[p][s].type = "conference" /\ Member(s, deliveries[p][s].id)'
    BY DEF DeliveriesReachTheAddressed
  <2>1. CASE (Reaches(owner[p], deliveries[p][s], s))'
    BY <2>1 DEF Reaches
  <2>2. CASE Routed(p, s) /\ Kept(p, s)
    BY <2>2 DEF DeliveriesReachTheAddressed, Kept, Member, EffectiveProduction
  <2> QED
    BY <2>1, <2>2 DEF FreshOrKept
<1> QED
  BY <1>1, <1>2, RoutingInvariant, PTL DEF Spec

(* While multipleProductions is never switched, a recorded direct delivery *)
(* stays within one production.                                            *)
THEOREM DirectAudioScoped ==
  ASSUME \A x, y \in Modes : x = y
  PROVE  Spec => []DirectAudioStaysInProduction
<1>1. Init => DirectAudioStaysInProduction
  BY DEF Init, DirectAudioStaysInProduction, Routed
<1>2. IInv /\ DirectAudioStaysInProduction /\ [Next]_vars => DirectAudioStaysInProduction'
  <2> SUFFICES ASSUME IInv, DirectAudioStaysInProduction, [Next]_vars, IInv', FreshOrKept
               PROVE  DirectAudioStaysInProduction'
    BY RoutesAreFreshOrKept, TypeStep, BookkeepingStep, ConsumersStep DEF IInv
  <2> SUFFICES ASSUME NEW p \in Producers, NEW s \in Sockets, Routed(p, s)',
                      deliveries'[p][s].type = "user"
               PROVE  SameProduction(owner[p], s)'
    BY DEF DirectAudioStaysInProduction
  <2>1. multi' = multi
    BY DEF IInv, TypeOK
  <2>2. CASE (Reaches(owner[p], deliveries[p][s], s))'
    BY <2>2 DEF Reaches
  <2>3. CASE Routed(p, s) /\ Kept(p, s)
    BY <2>1, <2>3 DEF DirectAudioStaysInProduction, Kept, SameProduction
  <2> QED
    BY <2>2, <2>3 DEF FreshOrKept
<1> QED
  BY <1>1, <1>2, RoutingInvariant, PTL DEF Spec

(***************************************************************************)
(* What a step never does.                                                 *)
(***************************************************************************)
(* Every step that changes a delivery closes what was opened under it.     *)
LEMMA ChangeClosesStep == TypeOK /\ Bookkeeping /\ [Next]_vars => ChangeCloses
<1> SUFFICES ASSUME TypeOK, Bookkeeping, [Next]_vars PROVE ChangeCloses
  OBVIOUS
<1>1. ASSUME NEW s \in Sockets, Connect(s)
      PROVE  ChangeCloses
  BY <1>1 DEF ChangeCloses, TypeOK, Consumer, Connect
<1>2. ASSUME NEW s \in Sockets, Disconnect(s)
      PROVE  ChangeCloses
  BY <1>2 DEF ChangeCloses, TypeOK, Consumer, Disconnect, DropMedia, ProducersOf
<1>3. ASSUME NEW s \in Sockets, NEW u \in Users, NEW q \in Productions, RegisterUser(s, u, q)
      PROVE  ChangeCloses
  BY <1>3 DEF ChangeCloses, TypeOK, Consumer, RegisterUser, DropMedia, ProducersOf
<1>4. ASSUME NEW s \in Sockets, NEW q \in Productions, SetActiveProduction(s, q)
      PROVE  ChangeCloses
  BY <1>4 DEF ChangeCloses, TypeOK, Consumer, SetActiveProduction, Sync, Withdrawn
<1>5. ASSUME NEW s \in Sockets, NEW list \in TalkLists, TalkTargetsUpdated(s, list)
      PROVE  ChangeCloses
  BY <1>5 DEF ChangeCloses, TypeOK, Consumer, TalkTargetsUpdated, Sync, Withdrawn
<1>6. ASSUME NEW s \in Sockets, NEW list \in TalkLists, PttState(s, list)
      PROVE  ChangeCloses
  BY <1>6 DEF ChangeCloses, TypeOK, Consumer, PttState
<1>7. ASSUME NEW s \in Sockets, ForceStopBegin(s)
      PROVE  ChangeCloses
  BY <1>7 DEF ChangeCloses, TypeOK, Consumer, ForceStopBegin
<1>8. ASSUME NEW s \in Sockets, ForceStopEnd(s)
      PROVE  ChangeCloses
  BY <1>8 DEF ChangeCloses, TypeOK, Consumer, ForceStopEnd, Sync, Withdrawn
<1>9. ASSUME NEW p \in Producers, NEW s \in Sockets, ProduceStart(s, p)
      PROVE  ChangeCloses
  BY <1>9 DEF ChangeCloses, TypeOK, Consumer, ProduceStart
<1>10. ASSUME NEW p \in Producers, ProduceDone(p)
      PROVE  ChangeCloses
  BY <1>10 DEF ChangeCloses, TypeOK, Consumer, ProduceDone, Sync, Withdrawn
<1>11. ASSUME NEW p \in Producers, HookListeners(p)
      PROVE  ChangeCloses
  BY <1>11 DEF ChangeCloses, TypeOK, Consumer, HookListeners
<1>12. ASSUME NEW p \in Producers, PauseProducer(p)
      PROVE  ChangeCloses
  BY <1>12 DEF ChangeCloses, TypeOK, Consumer, PauseProducer
<1>13. ASSUME NEW p \in Producers, ResumeProducer(p)
      PROVE  ChangeCloses
  BY <1>13 DEF ChangeCloses, TypeOK, Consumer, ResumeProducer, Sync, Withdrawn
<1>14. ASSUME NEW p \in Producers, ProducerClose(p)
      PROVE  ChangeCloses
  BY <1>14 DEF ChangeCloses, TypeOK, Consumer, ProducerClose, DropMedia, ProducersOf
<1>15. ASSUME NEW p \in Producers, NEW s \in Sockets, ConsumeStart(s, p)
      PROVE  ChangeCloses
  BY <1>15 DEF ChangeCloses, TypeOK, Consumer, ConsumeStart
<1>16. ASSUME NEW p \in Producers, NEW s \in Sockets, NEW id \in ConsumerIds, ConsumeDone(s, p, id)
      PROVE  ChangeCloses
  BY <1>16 DEF ChangeCloses, TypeOK, Consumer, ConsumeDone
<1>17. ASSUME NEW c \in consumers, CloseConsumer(c)
      PROVE  ChangeCloses
  BY <1>17 DEF ChangeCloses, TypeOK, Consumer, CloseConsumer
<1>18. ASSUME NEW m \in Matrices, EditMatrix(m)
      PROVE  ChangeCloses
  BY <1>18 DEF ChangeCloses, TypeOK, Consumer, EditMatrix, Sync, Withdrawn
<1>19. ASSUME NEW on \in Modes, SetMultipleProductions(on)
      PROVE  ChangeCloses
  BY <1>19 DEF ChangeCloses, TypeOK, Consumer, SetMultipleProductions, Sync, Withdrawn
<1>20. CASE UNCHANGED vars
  BY <1>20 DEF vars, ChangeCloses
<1> QED
  BY <1>1, <1>2, <1>3, <1>4, <1>5, <1>6, <1>7, <1>8, <1>9, <1>10, <1>11, <1>12, <1>13, <1>14, <1>15, <1>16, <1>17, <1>18, <1>19, <1>20
  DEF Next, PeerStep, MediaStep

(* A listener moved to another target never keeps hearing the speaker      *)
(* through the consumer it had.                                            *)
THEOREM TargetChangeIsClean == Spec => ChangedDeliveryClosesConsumers
<1>1. IInv /\ [Next]_vars => [ChangeCloses]_vars
  BY ChangeClosesStep DEF IInv
<1> QED
  BY <1>1, RoutingInvariant, PTL DEF Spec, ChangedDeliveryClosesConsumers

(* Every step that closes a consumer has one of the reasons.               *)
LEMMA TeardownHasReasonStep == TypeOK /\ Bookkeeping /\ [Next]_vars => TeardownHasReason
<1> SUFFICES ASSUME TypeOK, Bookkeeping, [Next]_vars PROVE TeardownHasReason
  OBVIOUS
<1>1. ASSUME NEW s \in Sockets, Connect(s)
      PROVE  TeardownHasReason
  BY <1>1, RoutingAssumption DEF TeardownHasReason, TypeOK, Consumer, Connect
<1>2. ASSUME NEW s \in Sockets, Disconnect(s)
      PROVE  TeardownHasReason
  BY <1>2, RoutingAssumption DEF TeardownHasReason, TypeOK, Consumer, Disconnect, DropMedia, ProducersOf, Bookkeeping, Registered
<1>3. ASSUME NEW s \in Sockets, NEW u \in Users, NEW q \in Productions, RegisterUser(s, u, q)
      PROVE  TeardownHasReason
  BY <1>3, RoutingAssumption DEF TeardownHasReason, TypeOK, Consumer, RegisterUser, DropMedia, ProducersOf, Bookkeeping, Registered
<1>4. ASSUME NEW s \in Sockets, NEW q \in Productions, SetActiveProduction(s, q)
      PROVE  TeardownHasReason
  BY <1>4, RoutingAssumption DEF TeardownHasReason, TypeOK, Consumer, SetActiveProduction, Sync, Withdrawn
<1>5. ASSUME NEW s \in Sockets, NEW list \in TalkLists, TalkTargetsUpdated(s, list)
      PROVE  TeardownHasReason
  BY <1>5, RoutingAssumption DEF TeardownHasReason, TypeOK, Consumer, TalkTargetsUpdated, Sync, Withdrawn
<1>6. ASSUME NEW s \in Sockets, NEW list \in TalkLists, PttState(s, list)
      PROVE  TeardownHasReason
  BY <1>6, RoutingAssumption DEF TeardownHasReason, TypeOK, Consumer, PttState
<1>7. ASSUME NEW s \in Sockets, ForceStopBegin(s)
      PROVE  TeardownHasReason
  BY <1>7, RoutingAssumption DEF TeardownHasReason, TypeOK, Consumer, ForceStopBegin
<1>8. ASSUME NEW s \in Sockets, ForceStopEnd(s)
      PROVE  TeardownHasReason
  BY <1>8, RoutingAssumption DEF TeardownHasReason, TypeOK, Consumer, ForceStopEnd, Sync, Withdrawn
<1>9. ASSUME NEW p \in Producers, NEW s \in Sockets, ProduceStart(s, p)
      PROVE  TeardownHasReason
  BY <1>9, RoutingAssumption DEF TeardownHasReason, TypeOK, Consumer, ProduceStart
<1>10. ASSUME NEW p \in Producers, ProduceDone(p)
      PROVE  TeardownHasReason
  BY <1>10, RoutingAssumption DEF TeardownHasReason, TypeOK, Consumer, ProduceDone, Sync, Withdrawn
<1>11. ASSUME NEW p \in Producers, HookListeners(p)
      PROVE  TeardownHasReason
  BY <1>11, RoutingAssumption DEF TeardownHasReason, TypeOK, Consumer, HookListeners
<1>12. ASSUME NEW p \in Producers, PauseProducer(p)
      PROVE  TeardownHasReason
  BY <1>12, RoutingAssumption DEF TeardownHasReason, TypeOK, Consumer, PauseProducer
<1>13. ASSUME NEW p \in Producers, ResumeProducer(p)
      PROVE  TeardownHasReason
  BY <1>13, RoutingAssumption DEF TeardownHasReason, TypeOK, Consumer, ResumeProducer, Sync, Withdrawn
<1>14. ASSUME NEW p \in Producers, ProducerClose(p)
      PROVE  TeardownHasReason
  BY <1>14, RoutingAssumption DEF TeardownHasReason, TypeOK, Consumer, ProducerClose, DropMedia, ProducersOf
<1>15. ASSUME NEW p \in Producers, NEW s \in Sockets, ConsumeStart(s, p)
      PROVE  TeardownHasReason
  <2>1. \A c \in consumers \ consumers' : c.to = s /\ c.of = p
    BY <1>15 DEF ConsumeStart
  <2> QED
    BY <1>15, <2>1 DEF TeardownHasReason
<1>16. ASSUME NEW p \in Producers, NEW s \in Sockets, NEW id \in ConsumerIds, ConsumeDone(s, p, id)
      PROVE  TeardownHasReason
  BY <1>16, RoutingAssumption DEF TeardownHasReason, TypeOK, Consumer, ConsumeDone
<1>17. ASSUME NEW c \in consumers, CloseConsumer(c)
      PROVE  TeardownHasReason
  <2>1. \A d \in consumers \ consumers' : d = c
    BY <1>17 DEF CloseConsumer
  <2> QED
    BY <1>17, <2>1 DEF TeardownHasReason
<1>18. ASSUME NEW m \in Matrices, EditMatrix(m)
      PROVE  TeardownHasReason
  BY <1>18, RoutingAssumption DEF TeardownHasReason, TypeOK, Consumer, EditMatrix, Sync, Withdrawn
<1>19. ASSUME NEW on \in Modes, SetMultipleProductions(on)
      PROVE  TeardownHasReason
  BY <1>19, RoutingAssumption DEF TeardownHasReason, TypeOK, Consumer, SetMultipleProductions, Sync, Withdrawn
<1>20. CASE UNCHANGED vars
  BY <1>20 DEF vars, TeardownHasReason
<1> QED
  BY <1>1, <1>2, <1>3, <1>4, <1>5, <1>6, <1>7, <1>8, <1>9, <1>10, <1>11, <1>12, <1>13, <1>14, <1>15, <1>16, <1>17, <1>18, <1>19, <1>20
  DEF Next, PeerStep, MediaStep

(* A consumer whose ends stay closes only with its delivery or on its      *)
(* client's request.                                                       *)
THEOREM ListenersAreKept == Spec => NoSpuriousTeardown
<1>1. IInv /\ [Next]_vars => [TeardownHasReason]_vars
  BY TeardownHasReasonStep DEF IInv
<1> QED
  BY <1>1, RoutingInvariant, PTL DEF Spec, NoSpuriousTeardown

(* Only the end of a forced stop empties stopping while the peer stays, and *)
(* it routes the producers of a peer without targets to nobody.            *)
LEMMA StopSilencesStep == TypeOK /\ Bookkeeping /\ [Next]_vars => StopSilences
<1> SUFFICES ASSUME TypeOK, Bookkeeping, [Next]_vars PROVE StopSilences
  OBVIOUS
<1>1. ASSUME NEW s \in Sockets, Connect(s)
      PROVE  StopSilences
  BY <1>1 DEF StopSilences, TypeOK, Connect
<1>2. ASSUME NEW s \in Sockets, Disconnect(s)
      PROVE  StopSilences
  BY <1>2 DEF StopSilences, TypeOK, Disconnect, DropMedia, ProducersOf, Bookkeeping
<1>3. ASSUME NEW s \in Sockets, NEW u \in Users, NEW q \in Productions, RegisterUser(s, u, q)
      PROVE  StopSilences
  BY <1>3 DEF StopSilences, TypeOK, RegisterUser, DropMedia, ProducersOf, Bookkeeping
<1>4. ASSUME NEW s \in Sockets, NEW q \in Productions, SetActiveProduction(s, q)
      PROVE  StopSilences
  BY <1>4 DEF StopSilences, TypeOK, SetActiveProduction
<1>5. ASSUME NEW s \in Sockets, NEW list \in TalkLists, TalkTargetsUpdated(s, list)
      PROVE  StopSilences
  BY <1>5 DEF StopSilences, TypeOK, TalkTargetsUpdated
<1>6. ASSUME NEW s \in Sockets, NEW list \in TalkLists, PttState(s, list)
      PROVE  StopSilences
  BY <1>6 DEF StopSilences, TypeOK, PttState
<1>7. ASSUME NEW s \in Sockets, ForceStopBegin(s)
      PROVE  StopSilences
  BY <1>7 DEF StopSilences, TypeOK, ForceStopBegin
<1>8. ASSUME NEW s \in Sockets, ForceStopEnd(s)
      PROVE  StopSilences
  <2> SUFFICES ASSUME NEW x \in Sockets, stopping[x] # {}, stopping'[x] = {},
                      talkTargets'[x] = <<>>, NEW p \in stopping[x]
               PROVE  /\ stage'[p] = "closed" \/ paused'[p]
                      /\ \A r \in Sockets : deliveries'[p][r] = None
                      /\ \A c \in consumers' : c.of = p => deliveries[p][c.to] = None
    BY DEF StopSilences
  <2>1. x = s /\ p \in Producers
    BY <1>8 DEF ForceStopEnd, TypeOK
  <2>2. Sync(stopping[s] \cap LiveProducers) /\ UNCHANGED <<owner, stage>>
        /\ (talkTargets \in [Sockets -> TalkLists])'
    BY <1>8 DEF ForceStopEnd, TypeOK
  <2>3. owner[p] = s /\ stage[p] \in {"unhooked", "hooked", "closed"}
    BY <2>1 DEF Bookkeeping
  <2>4. \A r \in Sockets : deliveries'[p][r] = None
    <3>1. CASE p \in LiveProducers
      <4>1. \A r \in Sockets : deliveries'[p][r] = FirstReaching(owner[p], r)'
        BY <2>1, <2>2, <3>1 DEF Sync, Deliveries
      <4>2. \A r \in Sockets : FirstReaching(owner[p], r)' = None
        BY <2>1, <2>2, <2>3 DEF FirstReaching
      <4> QED
        BY <4>1, <4>2
    <3>2. CASE p \notin LiveProducers
      BY <2>1, <2>2, <3>2 DEF Sync, LiveProducers, Bookkeeping
    <3> QED
      BY <3>1, <3>2
  <2>5. stage'[p] = "closed" \/ paused'[p]
    BY <1>8, <2>1, <2>2, <2>3 DEF ForceStopEnd, LiveProducers, Live, TypeOK
  <2>6. \A c \in consumers' : c.of = p => deliveries[p][c.to] = None
    BY <2>2, <2>4 DEF Sync, Withdrawn, TypeOK, Consumer
  <2> QED
    BY <2>4, <2>5, <2>6
<1>9. ASSUME NEW p \in Producers, NEW s \in Sockets, ProduceStart(s, p)
      PROVE  StopSilences
  BY <1>9 DEF StopSilences, TypeOK, ProduceStart
<1>10. ASSUME NEW p \in Producers, ProduceDone(p)
      PROVE  StopSilences
  BY <1>10 DEF StopSilences, TypeOK, ProduceDone
<1>11. ASSUME NEW p \in Producers, HookListeners(p)
      PROVE  StopSilences
  BY <1>11 DEF StopSilences, TypeOK, HookListeners
<1>12. ASSUME NEW p \in Producers, PauseProducer(p)
      PROVE  StopSilences
  BY <1>12 DEF StopSilences, TypeOK, PauseProducer
<1>13. ASSUME NEW p \in Producers, ResumeProducer(p)
      PROVE  StopSilences
  BY <1>13 DEF StopSilences, TypeOK, ResumeProducer
<1>14. ASSUME NEW p \in Producers, ProducerClose(p)
      PROVE  StopSilences
  BY <1>14 DEF StopSilences, TypeOK, ProducerClose, DropMedia, ProducersOf, Bookkeeping
<1>15. ASSUME NEW p \in Producers, NEW s \in Sockets, ConsumeStart(s, p)
      PROVE  StopSilences
  BY <1>15 DEF StopSilences, TypeOK, ConsumeStart
<1>16. ASSUME NEW p \in Producers, NEW s \in Sockets, NEW id \in ConsumerIds, ConsumeDone(s, p, id)
      PROVE  StopSilences
  BY <1>16 DEF StopSilences, TypeOK, ConsumeDone
<1>17. ASSUME NEW c \in consumers, CloseConsumer(c)
      PROVE  StopSilences
  BY <1>17 DEF StopSilences, TypeOK, CloseConsumer
<1>18. ASSUME NEW m \in Matrices, EditMatrix(m)
      PROVE  StopSilences
  BY <1>18 DEF StopSilences, TypeOK, EditMatrix
<1>19. ASSUME NEW on \in Modes, SetMultipleProductions(on)
      PROVE  StopSilences
  BY <1>19 DEF StopSilences, TypeOK, SetMultipleProductions
<1>20. CASE UNCHANGED vars
  BY <1>20 DEF vars, StopSilences
<1> QED
  BY <1>1, <1>2, <1>3, <1>4, <1>5, <1>6, <1>7, <1>8, <1>9, <1>10, <1>11, <1>12, <1>13, <1>14, <1>15, <1>16, <1>17, <1>18, <1>19, <1>20
  DEF Next, PeerStep, MediaStep

(* A forced stop that no new press overtakes leaves no route behind.       *)
THEOREM ForcedStopIsComplete == Spec => ForcedStopSilences
<1>1. IInv /\ [Next]_vars => [StopSilences]_vars
  BY StopSilencesStep DEF IInv
<1> QED
  BY <1>1, RoutingInvariant, PTL DEF Spec, ForcedStopSilences

(***************************************************************************)
(* ListenerSync: the clients put the server through no step that           *)
(* TalkRouting does not have.                                              *)
(***************************************************************************)

(* A sequence made of a finite set of messages is a sequence of them. *)
LEMMA SetToSeqType ==
  ASSUME NEW M, IsFiniteSet(M), NEW S \in SUBSET M
  PROVE  SetToSeq(S) \in Seq(M)
<1>1. IsFiniteSet(S)
  BY FS_Subset
<1>2. Cardinality(S) \in Nat /\ ExistsBijection(1 .. Cardinality(S), S)
  BY <1>1, FS_CardinalityType
<1>3. PICK f \in [1 .. Cardinality(S) -> S] : IsInjective(f)
  BY <1>2 DEF ExistsBijection, Bijection, Injection
<1>4. SetToSeq(S) \in [1 .. Cardinality(S) -> S]
  BY <1>3 DEF SetToSeq
<1> QED
  BY <1>2, <1>4

(* A request to consume names a stream. *)
LEMMA RequestsNameStreams ==
  ASSUME SyncTypeOK, NEW s \in Listeners, toServer[s] # <<>>
  PROVE  /\ Head(toServer[s]) \in ToServer
         /\ Head(toServer[s]).type \in {"consume", "resume-consumer"} =>
              Head(toServer[s]).stream \in Streams
<1>1. Head(toServer[s]) \in ToServer
  BY DEF SyncTypeOK
<1> QED
  BY <1>1 DEF ToServer

(* Every step of the composition is a step of the routing or leaves its    *)
(* variables alone.                                                        *)
LEMMA StepRefines == SyncTypeOK /\ [SyncNextState]_allVars => [Next]_vars
<1> SUFFICES ASSUME SyncTypeOK, [SyncNextState]_allVars PROVE [Next]_vars
  OBVIOUS
<1> Listeners \subseteq Sockets
  BY RolesAssumption
<1>1. ASSUME NEW s \in Sockets, Connecting(s) PROVE Next
  BY <1>1 DEF Connecting, Next, PeerStep
<1>2. ASSUME NEW s \in Sockets, Registering(s) PROVE Next
  BY <1>2, RolesAssumption DEF Registering, Next, PeerStep
<1>3. ASSUME NEW s \in Sockets, SwitchingProduction(s) PROVE Next
  BY <1>3 DEF SwitchingProduction, Next, PeerStep
<1>4. ASSUME NEW s \in Sockets, Talking(s) PROVE Next
  <2>1. ASSUME NEW p \in Producers, ProduceStart(s, p) PROVE Next
    BY <2>1 DEF Next, MediaStep
  <2> QED
    BY <1>4, <2>1 DEF Talking, Next, PeerStep
<1>5. ASSUME NEW p \in Producers, Producing(p) \/ Resuming(p) PROVE Next
  BY <1>5 DEF Producing, Resuming, Next, MediaStep
<1>6. ASSUME Administering PROVE Next
  <2>1. ASSUME NEW m \in Matrices, EditMatrix(m) PROVE Next
    BY <2>1 DEF Next
  <2>2. ASSUME NEW on \in Modes, SetMultipleProductions(on) PROVE Next
    BY <2>2 DEF Next
  <2> QED
    BY <1>6, <2>1, <2>2 DEF Administering
<1>7. ASSUME NEW s \in Listeners, ServeConsume(s) PROVE Next \/ UNCHANGED vars
  <2>1. Head(toServer[s]).stream[2] \in Producers
    BY <1>7, RequestsNameStreams DEF ServeConsume, Streams
  <2>2. ConsumeStart(s, Head(toServer[s]).stream[2]) \/ UNCHANGED vars
    BY <1>7 DEF ServeConsume
  <2> QED
    BY <2>1, <2>2 DEF Next, MediaStep
<1>8. ASSUME NEW s \in Listeners, ServeClose(s) PROVE Next \/ UNCHANGED vars
  BY <1>8 DEF ServeClose, Next
<1>9. ASSUME NEW s \in Listeners, FinishConsume(s) PROVE Next
  <2>1. PICK x \in serving[s], id \in ConsumerIds : ConsumeDone(s, x[2], id)
    BY <1>9 DEF FinishConsume
  <2>2. x[2] \in Producers
    BY DEF SyncTypeOK, Streams
  <2> QED
    BY <2>1, <2>2 DEF Next, MediaStep
<1>10. ASSUME NEW s \in Listeners,
              \/ ServeResume(s) \/ ServeList(s) \/ ClientTurn(s)
              \/ OpenStream(s) \/ StartSync(s) \/ SyncOn(s)
       PROVE  UNCHANGED vars
  BY <1>10 DEF ServeResume, ServeList, ClientTurn, NewProducer, ConsumerClosed, ListAnswered,
       ConsumeAnswered, ConsumeRefused, ConsumerResumed, Receive, OpenStream, StartSync, SyncOn
<1>11. CASE UNCHANGED allVars
  BY <1>11 DEF allVars
<1> QED
  BY <1>1, <1>2, <1>3, <1>4, <1>5, <1>6, <1>7, <1>8, <1>9, <1>10, <1>11
     DEF SyncNextState, Environment, ServerTurn

(* What a step of the server emits is typed, and so is what is left of the *)
(* clients whose connection it ends.                                       *)
LEMMA ServerTyped ==
  ASSUME TypeOK, TypeOK', SyncTypeOK, NEW forced, Server(forced)
  PROVE  SyncTypeOK'
<1>1. ASSUME NEW s \in Listeners PROVE Closings(s) \in SUBSET ToClient
  BY DEF Closings, Closed, ToClient, TypeOK, Consumer
<1>2. ASSUME NEW s \in Listeners PROVE Offers(s, forced) \in SUBSET ToClient
  <2>1. ASSUME NEW r \in Producers, deliveries'[r][s] # None
        PROVE  <<deliveries'[r][s], r>> \in Streams
    BY <2>1, RolesAssumption DEF TypeOK, Streams
  <2> QED
    BY <2>1 DEF Offers, Offer, ToClient
<1>3. ASSUME NEW s \in Listeners PROVE {Refusal(x) : x \in Refused(s)} \in SUBSET ToClient
  BY DEF Refused, Refusal, ToClient, SyncTypeOK
<1>4. ASSUME NEW s \in Listeners
      PROVE  /\ SetToSeq(Closings(s)) \in Seq(ToClient)
             /\ SetToSeq(Offers(s, forced)) \in Seq(ToClient)
             /\ SetToSeq({Refusal(x) : x \in Refused(s)}) \in Seq(ToClient)
  BY <1>1, <1>2, <1>3, SetToSeqType, MessagesAssumption
<1>5. toClient' \in [Listeners -> Seq(ToClient)]
  <2> DEFINE said(s) == toClient[s] \o SetToSeq(Closings(s)) \o SetToSeq(Offers(s, forced))
                          \o SetToSeq({Refusal(x) : x \in Refused(s)})
  <2>1. ASSUME NEW s \in Listeners PROVE said(s) \in Seq(ToClient)
    <3>1. ASSUME NEW a \in Seq(ToClient), NEW b \in Seq(ToClient), NEW c \in Seq(ToClient),
                 NEW d \in Seq(ToClient)
          PROVE  a \o b \o c \o d \in Seq(ToClient)
      OBVIOUS
    <3>2. toClient[s] \in Seq(ToClient)
      BY DEF SyncTypeOK
    <3> QED
      BY <1>4, <3>1, <3>2
  <2>2. toClient' = [s \in Listeners |-> IF link'[s] = "open" THEN said(s) ELSE <<>>]
    BY DEF Server, Emit
  <2>3. <<>> \in Seq(ToClient)
    OBVIOUS
  <2> HIDE DEF said
  <2> QED
    BY <2>1, <2>2, <2>3
<1>6. serving' \in [Listeners -> SUBSET Streams]
  BY DEF Server, Emit, SyncTypeOK
<1>7. /\ toServer' \in [Listeners -> Seq(ToServer)]
      /\ early' \in [Listeners -> SUBSET ConsumerIds]
      /\ sync' \in [Listeners -> Runs]
  BY DEF Server, DropClients, SyncTypeOK, NoSync, Runs
<1>8. DOMAIN streams' = Listeners /\ DOMAIN pending' = Listeners
  BY DEF Server, DropClients
<1>9. ASSUME NEW s \in Listeners
      PROVE  /\ streams'[s] = streams[s] \/ streams'[s] = <<>>
             /\ pending'[s] = pending[s] \/ pending'[s] = <<>>
  BY DEF Server, DropClients
<1>10. DOMAIN <<>> = {} /\ Range(<<>>) = {}
  BY DEF Range
<1> QED
  BY <1>5, <1>6, <1>7, <1>8, <1>9, <1>10 DEF SyncTypeOK

(* A client's record of streams stays one when a stream is put in or taken *)
(* out.                                                                    *)
LEMMA PutForgetTyped ==
  ASSUME NEW f, NEW X, NEW V, DOMAIN f \subseteq X, Range(f) \subseteq V
  PROVE  /\ \A x \in X, v \in V : DOMAIN Put(f, x, v) \subseteq X /\ Range(Put(f, x, v)) \subseteq V
         /\ \A Y : DOMAIN Forget(f, Y) \subseteq X /\ Range(Forget(f, Y)) \subseteq V
BY DEF Put, Forget, Range

(* Requests that are sent keep the type of what is on its way. *)
LEMMA SendTyped ==
  ASSUME SyncTypeOK, NEW s \in Listeners, NEW q \in Seq(ToServer), Send(s, q)
  PROVE  toServer' \in [Listeners -> Seq(ToServer)]
BY DEF SyncTypeOK, Send

(* What a listener receives is a message, and the rest stays typed. *)
LEMMA ReceiveTyped ==
  ASSUME SyncTypeOK, NEW s \in Listeners, NEW type, Receive(s, type)
  PROVE  /\ Head(toClient[s]) \in ToClient /\ Head(toClient[s]).type = type
         /\ toClient' \in [Listeners -> Seq(ToClient)]
         /\ serving' = serving
BY DEF SyncTypeOK, Receive

(* A stream put among the pending ones, or taken out, keeps them typed. *)
LEMMA PendingTyped ==
  ASSUME SyncTypeOK, NEW s \in Listeners, NEW x \in Streams,
         NEW v \in ConsumerIds \cup {"asked", "resuming"}, NEW Y,
         \/ pending' = [pending EXCEPT ![s] = Put(@, x, v)]
         \/ pending' = [pending EXCEPT ![s] = Forget(@, Y)]
  PROVE  /\ DOMAIN pending' = Listeners
         /\ \A l \in Listeners : /\ DOMAIN pending'[l] \subseteq Streams
                                 /\ Range(pending'[l]) \subseteq ConsumerIds \cup {"asked", "resuming"}
<1> DEFINE V == ConsumerIds \cup {"asked", "resuming"}
<1>1. DOMAIN pending[s] \subseteq Streams /\ Range(pending[s]) \subseteq V /\ v \in V
  BY DEF SyncTypeOK
<1>2. \A l \in Listeners : DOMAIN pending[l] \subseteq Streams /\ Range(pending[l]) \subseteq V
  BY DEF SyncTypeOK
<1> HIDE DEF V
<1>3. DOMAIN Put(pending[s], x, v) \subseteq Streams /\ Range(Put(pending[s], x, v)) \subseteq V
  BY <1>1, PutForgetTyped
<1>4. DOMAIN Forget(pending[s], Y) \subseteq Streams /\ Range(Forget(pending[s], Y)) \subseteq V
  BY <1>1, PutForgetTyped
<1>5. DOMAIN pending = Listeners
  BY DEF SyncTypeOK
<1> QED
  BY <1>2, <1>3, <1>4, <1>5 DEF V

(* Asking for a stream keeps requests and pending streams typed. *)
LEMMA AskTyped ==
  ASSUME SyncTypeOK, NEW s \in Listeners, NEW x \in Streams, AskFor(s, x)
  PROVE  /\ toServer' \in [Listeners -> Seq(ToServer)]
         /\ DOMAIN pending' = Listeners
         /\ \A l \in Listeners : /\ DOMAIN pending'[l] \subseteq Streams
                                 /\ Range(pending'[l]) \subseteq ConsumerIds \cup {"asked", "resuming"}
<1>1. <<Consume(x)>> \in Seq(ToServer)
  BY DEF Consume, ToServer
<1>2. toServer' \in [Listeners -> Seq(ToServer)]
  BY <1>1, SendTyped DEF AskFor
<1>3. pending' = [pending EXCEPT ![s] = Put(@, x, "asked")]
  BY DEF AskFor
<1> QED
  BY <1>2, <1>3, PendingTyped

(* So does the loop of a reconciliation, which also keeps the streams.     *)
LEMMA AdvanceTyped ==
  ASSUME SyncTypeOK, NEW s \in Listeners, NEW todo \in SUBSET Streams,
         NEW expected \in SUBSET Streams, Advance(s, todo, expected)
  PROVE  /\ toServer' \in [Listeners -> Seq(ToServer)]
         /\ sync' \in [Listeners -> Runs] /\ early' = early
         /\ DOMAIN streams' = Listeners /\ DOMAIN pending' = Listeners
         /\ \A l \in Listeners :
              /\ DOMAIN streams'[l] \subseteq Streams /\ Range(streams'[l]) \subseteq ConsumerIds
              /\ DOMAIN pending'[l] \subseteq Streams
              /\ Range(pending'[l]) \subseteq ConsumerIds \cup {"asked", "resuming"}
<1> DEFINE unlisted == DOMAIN streams[s] \ expected
           Typed == /\ toServer' \in [Listeners -> Seq(ToServer)]
                    /\ sync' \in [Listeners -> Runs] /\ early' = early
                    /\ DOMAIN streams' = Listeners /\ DOMAIN pending' = Listeners
                    /\ \A l \in Listeners :
                         /\ DOMAIN streams'[l] \subseteq Streams /\ Range(streams'[l]) \subseteq ConsumerIds
                         /\ DOMAIN pending'[l] \subseteq Streams
                         /\ Range(pending'[l]) \subseteq ConsumerIds \cup {"asked", "resuming"}
<1>1. ASSUME NEW x \in todo, NEW skipped,
             sync' = [sync EXCEPT ![s] = Working(todo \ (skipped \cup {x}), expected, {x})],
             AskFor(s, x), UNCHANGED <<early, streams>>
      PROVE  Typed
  <2>1. Working(todo \ (skipped \cup {x}), expected, {x}) \in Runs
    BY DEF Working, Runs
  <2>2. sync' \in [Listeners -> Runs]
    BY <1>1, <2>1 DEF SyncTypeOK
  <2>3. x \in Streams
    OBVIOUS
  <2> QED
    BY <1>1, <2>2, <2>3, AskTyped DEF SyncTypeOK
<1>2. ASSUME sync' = [sync EXCEPT ![s] = NoSync],
             streams' = [streams EXCEPT ![s] = Forget(@, unlisted)],
             Send(s, SetToSeq({Close(streams[s][x]) : x \in unlisted})),
             UNCHANGED <<early, pending>>
      PROVE  Typed
  <2>1. {Close(streams[s][x]) : x \in unlisted} \in SUBSET ToServer
    BY DEF Close, ToServer, SyncTypeOK, Range
  <2>2. SetToSeq({Close(streams[s][x]) : x \in unlisted}) \in Seq(ToServer)
    BY <2>1, SetToSeqType, MessagesAssumption
  <2>3. toServer' \in [Listeners -> Seq(ToServer)]
    BY <1>2, <2>2, SendTyped
  <2>4. NoSync \in Runs
    BY DEF NoSync, Runs
  <2>5. sync' \in [Listeners -> Runs]
    BY <1>2, <2>4 DEF SyncTypeOK
  <2> HIDE DEF unlisted
  <2>6. DOMAIN Forget(streams[s], unlisted) \subseteq Streams /\ Range(Forget(streams[s], unlisted)) \subseteq ConsumerIds
    BY PutForgetTyped DEF SyncTypeOK
  <2> QED
    BY <1>2, <2>3, <2>5, <2>6 DEF SyncTypeOK
<1> HIDE DEF Typed
<1>3. Typed
  BY <1>1, <1>2 DEF Advance
<1> QED
  BY <1>3 DEF Typed

(* Every step keeps what is on its way, and what the clients keep, typed.  *)
LEMMA SyncTypeStep ==
  TypeOK /\ TypeOK' /\ Bookkeeping /\ SyncTypeOK /\ [SyncNextState]_allVars => SyncTypeOK'
<1> SUFFICES ASSUME TypeOK, TypeOK', Bookkeeping, SyncTypeOK, [SyncNextState]_allVars PROVE SyncTypeOK'
  OBVIOUS
<1>1. ASSUME Environment PROVE SyncTypeOK'
  BY <1>1, ServerTyped DEF Environment, Connecting, Registering, SwitchingProduction, Talking,
       Producing, Resuming, Administering
<1>2. ASSUME NEW s \in Listeners, ServeConsume(s) PROVE SyncTypeOK'
  <2>1. Head(toServer[s]).stream \in Streams
    BY <1>2, RequestsNameStreams DEF ServeConsume
  <2>2. Refusal(Head(toServer[s]).stream) \in ToClient
    BY <2>1 DEF Refusal, ToClient
  <2>3. toServer' \in [Listeners -> Seq(ToServer)]
    BY <1>2 DEF ServeConsume, SyncTypeOK
  <2>4. toClient' \in [Listeners -> Seq(ToClient)]
    <3> DEFINE answered == Append(toClient[s], Refusal(Head(toServer[s]).stream))
    <3>1. answered \in Seq(ToClient)
      BY <2>2 DEF SyncTypeOK
    <3>2. UNCHANGED toClient \/ toClient' = [toClient EXCEPT ![s] = answered]
      BY <1>2 DEF ServeConsume
    <3>3. toClient \in [Listeners -> Seq(ToClient)]
      BY DEF SyncTypeOK
    <3> HIDE DEF answered
    <3> QED
      BY <3>1, <3>2, <3>3
  <2>5. serving' \in [Listeners -> SUBSET Streams]
    <3>1. \/ serving' = serving
          \/ serving' = [serving EXCEPT ![s] = @ \cup {Head(toServer[s]).stream}]
      BY <1>2 DEF ServeConsume
    <3>2. serving \in [Listeners -> SUBSET Streams]
      BY DEF SyncTypeOK
    <3> QED
      BY <2>1, <3>1, <3>2
  <2> QED
    BY <1>2, <2>3, <2>4, <2>5 DEF ServeConsume, SyncTypeOK, clientVars
<1>3. ASSUME NEW s \in Listeners, ServeResume(s) PROVE SyncTypeOK'
  <2>1. Resumed(Head(toServer[s]).stream) \in ToClient
    BY <1>3, RequestsNameStreams DEF ServeResume, Resumed, ToClient
  <2>2. toServer' \in [Listeners -> Seq(ToServer)] /\ toClient' \in [Listeners -> Seq(ToClient)]
    BY <1>3, <2>1 DEF ServeResume, SyncTypeOK
  <2> QED
    BY <1>3, <2>2 DEF ServeResume, SyncTypeOK, clientVars
<1>4. ASSUME NEW s \in Listeners, ServeClose(s) PROVE SyncTypeOK'
  <2>1. toServer' \in [Listeners -> Seq(ToServer)]
    BY <1>4 DEF ServeClose, SyncTypeOK
  <2> QED
    BY <1>4, <2>1 DEF ServeClose, SyncTypeOK, clientVars
<1>5. ASSUME NEW s \in Listeners, ServeList(s) PROVE SyncTypeOK'
  <2>1. ASSUME NEW r \in Producers PROVE Entry(r, s) \subseteq Entries
    <3>1. s \in Sockets
      BY RolesAssumption
    <3>2. ActiveTarget(r, s) \in Targets \cup {None}
      <4>1. Live(r) => owner[r] \in Sockets
        BY DEF Bookkeeping
      <4>2. Live(r) => FirstReaching(owner[r], s) \in Targets \cup {None}
        BY <3>1, <4>1, FirstReachingLeads DEF TypeOK
      <4> QED
        BY <4>2 DEF ActiveTarget
    <3>3. deliveries[r][s] \in Targets \cup {None}
      BY <3>1 DEF TypeOK
    <3>4. ASSUME NEW u \in Targets, NEW b \in BOOLEAN
          PROVE  [stream |-> <<u, r>>, retain |-> b] \in Entries
      BY DEF Entries, Streams
    <3> QED
      BY <3>2, <3>3, <3>4 DEF Entry
  <2>2. Active(UNION {Entry(r, s) : r \in Producers}) \in ToClient
    BY <2>1 DEF Active, ToClient
  <2>3. toServer' \in [Listeners -> Seq(ToServer)] /\ toClient' \in [Listeners -> Seq(ToClient)]
    BY <1>5, <2>2 DEF ServeList, SyncTypeOK
  <2> QED
    BY <1>5, <2>3 DEF ServeList, SyncTypeOK, clientVars
<1>6. ASSUME NEW s \in Listeners, FinishConsume(s) PROVE SyncTypeOK'
  <2>1. PICK x \in serving[s], id \in ConsumerIds :
          /\ toClient' = [toClient EXCEPT ![s] = Append(@, Answer(x, id))]
          /\ serving' = [serving EXCEPT ![s] = @ \ {x}]
          /\ UNCHANGED <<toServer, clientVars>>
    BY <1>6 DEF FinishConsume
  <2>2. Answer(x, id) \in ToClient
    BY DEF Answer, ToClient, SyncTypeOK
  <2>3. toClient' \in [Listeners -> Seq(ToClient)] /\ serving' \in [Listeners -> SUBSET Streams]
    BY <2>1, <2>2 DEF SyncTypeOK
  <2> QED
    BY <2>1, <2>3 DEF SyncTypeOK, clientVars
<1>7. ASSUME NEW s \in Listeners, NewProducer(s) PROVE SyncTypeOK'
  <2>1. Receive(s, "new-producer")
    BY <1>7 DEF NewProducer
  <2>2. Head(toClient[s]).stream \in Streams
    BY <2>1, ReceiveTyped DEF ToClient
  <2>3. CASE UNCHANGED <<pending, toServer>>
    BY <1>7, <2>1, <2>3, ReceiveTyped DEF NewProducer, SyncTypeOK
  <2>4. CASE AskFor(s, Head(toClient[s]).stream)
    BY <1>7, <2>1, <2>2, <2>4, ReceiveTyped, AskTyped DEF NewProducer, SyncTypeOK
  <2> QED
    BY <1>7, <2>3, <2>4 DEF NewProducer
<1>8. ASSUME NEW s \in Listeners, ConsumerClosed(s) PROVE SyncTypeOK'
  <2> DEFINE id == Head(toClient[s]).id
             gone == {x \in DOMAIN streams[s] : streams[s][x] = id}
  <2>1. Receive(s, "consumer-closed") /\ UNCHANGED pending
    BY <1>8 DEF ConsumerClosed
  <2>2. id \in ConsumerIds
    BY <2>1, ReceiveTyped DEF ToClient
  <2>3. <<Close(id)>> \in Seq(ToServer) /\ <<ListRequest>> \in Seq(ToServer)
    BY <2>2 DEF Close, ListRequest, ToServer
  <2>4. CASE gone # {}
    <3>1. /\ streams' = [streams EXCEPT ![s] = Forget(@, gone)]
          /\ Send(s, <<Close(id)>>)
          /\ UNCHANGED <<early, sync>>
      BY <1>8, <2>4 DEF ConsumerClosed
    <3>2. toServer' \in [Listeners -> Seq(ToServer)]
      BY <2>3, <3>1, SendTyped
    <3> HIDE DEF gone
    <3>3. DOMAIN Forget(streams[s], gone) \subseteq Streams /\ Range(Forget(streams[s], gone)) \subseteq ConsumerIds
      BY PutForgetTyped DEF SyncTypeOK
    <3> QED
      BY <2>1, <3>1, <3>2, <3>3, ReceiveTyped DEF SyncTypeOK
  <2>5. CASE gone = {}
    <3>1. /\ early' = [early EXCEPT ![s] = @ \cup ({id} \cap Range(pending[s]))]
          /\ UNCHANGED streams
          /\ \/ sync' = [sync EXCEPT ![s] = Asked] /\ Send(s, <<ListRequest>>)
             \/ UNCHANGED <<sync, toServer>>
      BY <1>8, <2>5 DEF ConsumerClosed
    <3>2. toServer' \in [Listeners -> Seq(ToServer)]
      BY <2>3, <3>1, SendTyped DEF SyncTypeOK
    <3>3. Asked \in Runs
      BY DEF Asked, NoSync, Runs
    <3>4. sync' \in [Listeners -> Runs]
      BY <3>1, <3>3 DEF SyncTypeOK
    <3>5. early' \in [Listeners -> SUBSET ConsumerIds]
      BY <2>2, <3>1 DEF SyncTypeOK
    <3> QED
      BY <2>1, <3>1, <3>2, <3>4, <3>5, ReceiveTyped DEF SyncTypeOK
  <2> QED
    BY <2>4, <2>5
<1>9. ASSUME NEW s \in Listeners, ListAnswered(s) PROVE SyncTypeOK'
  <2>1. Receive(s, "active-producers")
    BY <1>9 DEF ListAnswered
  <2>2. Head(toClient[s]).entries \in SUBSET Entries
    BY <2>1, ReceiveTyped DEF ToClient
  <2>3. PICK todo \in SUBSET Streams, expected \in SUBSET Streams : Advance(s, todo, expected)
    BY <1>9, <2>2 DEF ListAnswered, Entries
  <2> QED
    BY <2>1, <2>3, AdvanceTyped, ReceiveTyped DEF SyncTypeOK
<1>10. ASSUME NEW s \in Listeners, ConsumeAnswered(s) PROVE SyncTypeOK'
  <2> DEFINE answer == Head(toClient[s])
  <2>1. /\ Receive(s, "consumed")
        /\ pending' = [pending EXCEPT ![s] = Put(@, answer.stream, answer.id)]
        /\ UNCHANGED <<toServer, streams, early, sync>>
    BY <1>10 DEF ConsumeAnswered
  <2>2. answer.stream \in Streams /\ answer.id \in ConsumerIds
    BY <2>1, ReceiveTyped DEF ToClient
  <2> HIDE DEF answer
  <2>3. /\ DOMAIN pending' = Listeners
        /\ \A l \in Listeners : /\ DOMAIN pending'[l] \subseteq Streams
                                /\ Range(pending'[l]) \subseteq ConsumerIds \cup {"asked", "resuming"}
    BY <2>1, <2>2, PendingTyped
  <2> QED
    BY <2>1, <2>3, ReceiveTyped DEF SyncTypeOK
<1>11. ASSUME NEW s \in Listeners, ConsumeRefused(s) \/ ConsumerResumed(s) PROVE SyncTypeOK'
  <2>1. /\ Receive(s, "refused") \/ Receive(s, "resumed")
        /\ pending' = [pending EXCEPT ![s] = Forget(@, {Head(toClient[s]).stream})]
        /\ UNCHANGED <<toServer, streams, early, sync>>
    BY <1>11 DEF ConsumeRefused, ConsumerResumed
  <2>2. /\ DOMAIN pending' = Listeners
        /\ \A l \in Listeners : /\ DOMAIN pending'[l] \subseteq Streams
                                /\ Range(pending'[l]) \subseteq ConsumerIds \cup {"asked", "resuming"}
    <3>1. Head(toClient[s]).stream \in Streams
      BY <2>1, ReceiveTyped DEF ToClient
    <3> QED
      BY <2>1, <3>1, PendingTyped
  <2> QED
    BY <2>1, <2>2, ReceiveTyped DEF SyncTypeOK
<1>12. ASSUME NEW s \in Listeners, OpenStream(s) PROVE SyncTypeOK'
  <2>1. PICK x \in Opening(s) :
          /\ early' = [early EXCEPT ![s] = @ \ {pending[s][x]}]
          /\ UNCHANGED <<sync, toClient, serving>>
          /\ \/ /\ pending' = [pending EXCEPT ![s] = Forget(@, {x})]
                /\ UNCHANGED streams
                /\ Send(s, <<Close(pending[s][x])>>)
             \/ /\ pending' = [pending EXCEPT ![s] = Put(@, x, "resuming")]
                /\ streams' = [streams EXCEPT ![s] = Put(@, x, pending[s][x])]
                /\ Send(s, <<Resume(x)>>)
    BY <1>12 DEF OpenStream
  <2>2. x \in Streams /\ pending[s][x] \in ConsumerIds
    BY DEF Opening, SyncTypeOK
  <2>3. <<Close(pending[s][x])>> \in Seq(ToServer) /\ <<Resume(x)>> \in Seq(ToServer)
    BY <2>2 DEF Close, Resume, ToServer
  <2>4. toServer' \in [Listeners -> Seq(ToServer)]
    BY <2>1, <2>3, SendTyped
  <2>5. /\ DOMAIN pending' = Listeners
        /\ \A l \in Listeners : /\ DOMAIN pending'[l] \subseteq Streams
                                /\ Range(pending'[l]) \subseteq ConsumerIds \cup {"asked", "resuming"}
    BY <2>1, <2>2, PendingTyped
  <2>6. /\ DOMAIN Put(streams[s], x, pending[s][x]) \subseteq Streams
        /\ Range(Put(streams[s], x, pending[s][x])) \subseteq ConsumerIds
    <3>1. DOMAIN streams[s] \subseteq Streams /\ Range(streams[s]) \subseteq ConsumerIds
      BY DEF SyncTypeOK
    <3> QED
      BY <2>2, <3>1, PutForgetTyped
  <2>7. early' \in [Listeners -> SUBSET ConsumerIds]
    BY <2>1 DEF SyncTypeOK
  <2> QED
    BY <2>1, <2>4, <2>5, <2>6, <2>7 DEF SyncTypeOK
<1>13. ASSUME NEW s \in Listeners, StartSync(s) PROVE SyncTypeOK'
  <2>1. <<ListRequest>> \in Seq(ToServer) /\ Asked \in Runs
    BY DEF ListRequest, ToServer, Asked, NoSync, Runs
  <2>2. toServer' \in [Listeners -> Seq(ToServer)] /\ sync' \in [Listeners -> Runs]
    BY <1>13, <2>1, SendTyped DEF StartSync, SyncTypeOK
  <2> QED
    BY <1>13, <2>2 DEF StartSync, SyncTypeOK
<1>14. ASSUME NEW s \in Listeners, SyncOn(s) PROVE SyncTypeOK'
  <2>1. sync[s].todo \in SUBSET Streams /\ sync[s].expected \in SUBSET Streams
    BY DEF SyncTypeOK, Runs
  <2>2. Advance(s, sync[s].todo, sync[s].expected) /\ UNCHANGED <<toClient, serving>>
    BY <1>14 DEF SyncOn
  <2> QED
    BY <2>1, <2>2, AdvanceTyped DEF SyncTypeOK
<1>15. CASE UNCHANGED allVars
  BY <1>15 DEF allVars, netVars, clientVars, SyncTypeOK
<1> QED
  BY <1>1, <1>2, <1>3, <1>4, <1>5, <1>6, <1>7, <1>8, <1>9, <1>10, <1>11, <1>12, <1>13, <1>14, <1>15
     DEF SyncNextState, ServerTurn, ClientTurn

(* What is on the way between server and listeners, and what the listeners *)
(* remember, is always typed.  A step keeps it so because the routing is   *)
(* typed before and after, and because the owner of a live producer is a   *)
(* socket: the invariant to carry is SyncTypeOK with that of the routing.  *)
LEMMA SyncInvariant == SyncSpec => [](IInv /\ SyncTypeOK)
<1>1. SyncInit => IInv /\ SyncTypeOK
  <2> SUFFICES ASSUME SyncInit PROVE IInv /\ SyncTypeOK
    OBVIOUS
  <2>1. IInv
    BY RoutingAssumption DEF SyncInit, Init, IInv, TypeOK, Bookkeeping, ConsumersHaveLiveEnds, Live, Stages
  <2>2. DOMAIN <<>> = {} /\ Range(<<>>) = {}
    BY DEF Range
  <2>3. NoSync \in Runs
    BY DEF NoSync, Runs
  <2>4. /\ toClient \in [Listeners -> Seq(ToClient)] /\ toServer \in [Listeners -> Seq(ToServer)]
        /\ serving \in [Listeners -> SUBSET Streams] /\ early \in [Listeners -> SUBSET ConsumerIds]
        /\ sync \in [Listeners -> Runs]
    BY <2>3 DEF SyncInit
  <2>5. /\ DOMAIN streams = Listeners /\ DOMAIN pending = Listeners
        /\ \A s \in Listeners : streams[s] = <<>> /\ pending[s] = <<>>
    BY DEF SyncInit
  <2> QED
    BY <2>1, <2>2, <2>4, <2>5 DEF SyncTypeOK
<1>2. IInv /\ SyncTypeOK /\ [SyncNextState]_allVars => (IInv /\ SyncTypeOK)'
  <2> SUFFICES ASSUME IInv, SyncTypeOK, [SyncNextState]_allVars PROVE (IInv /\ SyncTypeOK)'
    OBVIOUS
  <2>1. [Next]_vars
    BY StepRefines
  <2>2. IInv'
    BY <2>1, TypeStep, BookkeepingStep, ConsumersStep DEF IInv
  <2>3. SyncTypeOK'
    BY <2>2, SyncTypeStep DEF IInv
  <2> QED
    BY <2>2, <2>3
<1> QED
  BY <1>1, <1>2, PTL DEF SyncSpec

(* Messages, pending requests and registered streams keep their types, for *)
(* any number of listeners, speakers and consumer ids.                     *)
THEOREM ListenerTypes == SyncSpec => []SyncTypeOK
<1>1. IInv /\ SyncTypeOK => SyncTypeOK
  OBVIOUS
<1> QED
  BY <1>1, SyncInvariant, PTL

(* With any number of listeners that consume, resume, close and reconcile  *)
(* in their own time, the server behaves as TalkRouting allows.            *)
THEOREM ImplementsRouting == SyncSpec => Spec
<1>1. SyncInit => Init
  BY DEF SyncInit
<1>2. IInv /\ SyncTypeOK /\ [SyncNextState]_allVars => [Next]_vars
  BY StepRefines
<1> QED
  BY <1>1, <1>2, SyncInvariant, PTL DEF SyncSpec, Spec

(* So what is proved about the routing holds whatever the clients do: a    *)
(* forced stop silences, a changed target closes the consumers of the old  *)
(* one, and nobody is cut off without a reason.                            *)
THEOREM ListenersCannotBreakRouting ==
  SyncSpec => []ConsumersHaveLiveEnds /\ []DeliveriesReachTheAddressed
              /\ ChangedDeliveryClosesConsumers /\ NoSpuriousTeardown /\ ForcedStopSilences
BY ImplementsRouting, NoOrphanedConsumer, DeliveriesReach, TargetChangeIsClean, ListenersAreKept,
   ForcedStopIsComplete

(***************************************************************************)
(* No consumer leaks, for any number of listeners, speakers, targets and   *)
(* consumers: whatever runs on the server for a listener is in the         *)
(* listener's hands or on the way there or back.                           *)
(***************************************************************************)

(***************************************************************************)
(* The inductive invariant.  A request to consume or to resume a stream,   *)
(* its work on the server and its answer are one token that travels; there *)
(* is one at most for each stream, and the client has the stream pending   *)
(* with what the token stands for.  Otherwise an answer would overwrite    *)
(* the id of a consumer that is being opened, and nobody would close it.   *)
(***************************************************************************)
Token(m) == m.type \in {"consume", "consumed", "refused", "resume-consumer", "resumed"}

AwaitedAs(m) == IF m.type \in {"consume", "consumed", "refused"} THEN "asked" ELSE "resuming"

(* The streams the tokens in q are about, at most one token for each. *)
About(q) == {m.stream : m \in {n \in Range(q) : Token(n)}}

Single(q) ==
  \A i, j \in DOMAIN q : Token(q[i]) /\ Token(q[j]) /\ q[i].stream = q[j].stream => i = j

OneToken(s) ==
  /\ Single(toServer[s]) /\ Single(toClient[s])
  /\ About(toServer[s]) \cap About(toClient[s]) = {}
  /\ serving[s] \cap (About(toServer[s]) \cup About(toClient[s])) = {}

Awaited(s) ==
  /\ \A m \in Range(toServer[s]) \cup Range(toClient[s]) :
       Token(m) => m.stream \in DOMAIN pending[s] /\ pending[s][m.stream] = AwaitedAs(m)
  /\ \A x \in serving[s] : x \in DOMAIN pending[s] /\ pending[s][x] = "asked"

(* The consumers a listener knows, is opening, is about to be told of or   *)
(* has asked the server to close.                                          *)
Answered(q)  == {m.id : m \in {n \in Range(q) : n.type = "consumed"}}
Closing(q)   == {m.id : m \in {n \in Range(q) : n.type = "close-consumer"}}
Traceable(s) == Range(streams[s]) \cup Range(pending[s]) \cup Answered(toClient[s]) \cup Closing(toServer[s])

Traced(s) == \A c \in consumers : c.to = s => c.id \in Traceable(s)

Good(s) == OneToken(s) /\ Awaited(s) /\ Traced(s)

UniqueIds == \A c, d \in consumers : c.id = d.id => c = d

LeakInv == UniqueIds /\ \A s \in Listeners : Good(s)

(***************************************************************************)
(* Lemmas about sequences of messages.                                     *)
(***************************************************************************)
(* A sequence and its elements.                                            *)
LEMMA Elements ==
  ASSUME NEW S, NEW q \in Seq(S)
  PROVE  /\ \A i \in DOMAIN q : q[i] \in Range(q) /\ q[i] \in S
         /\ \A m \in Range(q) : m \in S /\ \E i \in DOMAIN q : q[i] = m
         /\ Len(q) \in Nat /\ DOMAIN q = 1 .. Len(q)
<1>1. Len(q) \in Nat /\ DOMAIN q = 1 .. Len(q) /\ Range(q) = {q[i] : i \in 1 .. Len(q)}
  BY LenProperties, RangeEquality
<1>2. \A i \in 1 .. Len(q) : q[i] \in S
  BY ElementOfSeq
<1> QED BY <1>1, <1>2

(* The streams of a sequence are those of its tokens.                      *)
LEMMA AboutRange ==
  ASSUME NEW q, NEW r, NEW R, Range(r) \subseteq Range(q) \cup R
  PROVE  About(r) \subseteq About(q) \cup {m.stream : m \in {n \in R : Token(n)}}
BY DEF About

(* The ids that messages name.                                             *)
LEMMA NamedIn ==
  ASSUME NEW q, NEW m \in Range(q)
  PROVE  /\ m.type = "consumed" => m.id \in Answered(q)
         /\ m.type = "close-consumer" => m.id \in Closing(q)
BY DEF Answered, Closing

(* A message is taken from the front.                                      *)
LEMMA TakeHead ==
  ASSUME NEW S, NEW q \in Seq(S), q # <<>>, Single(q)
  PROVE  /\ Single(Tail(q)) /\ Range(q) = Range(Tail(q)) \cup {Head(q)}
         /\ Head(q) \in S /\ Tail(q) \in Seq(S)
         /\ About(Tail(q)) \subseteq About(q)
         /\ Token(Head(q)) => Head(q).stream \in About(q) \ About(Tail(q))
<1>1. /\ Tail(q) \in Seq(S) /\ Len(Tail(q)) = Len(q) - 1 /\ Head(q) \in S
      /\ \A i \in 1 .. Len(Tail(q)) : Tail(q)[i] = q[i + 1]
  BY HeadTailProperties
<1> DEFINE t == Tail(q)
<1>2. Len(q) \in Nat \ {0} /\ DOMAIN q = 1 .. Len(q) /\ Head(q) = q[1] /\ 1 \in DOMAIN q
  BY EmptySeq, LenProperties
<1>3. /\ \A i \in DOMAIN q : q[i] \in Range(q)
      /\ \A m \in Range(q) : \E i \in DOMAIN q : q[i] = m
  BY Elements
<1> HIDE DEF t
<1>4. /\ DOMAIN t = 1 .. Len(q) - 1 /\ \A i \in DOMAIN t : t[i] \in Range(t)
      /\ \A m \in Range(t) : \E i \in DOMAIN t : t[i] = m
  <2>1. t \in Seq(S) /\ Len(t) = Len(q) - 1
    BY <1>1 DEF t
  <2>2. /\ DOMAIN t = 1 .. Len(t) /\ \A i \in DOMAIN t : t[i] \in Range(t)
        /\ \A m \in Range(t) : \E i \in DOMAIN t : t[i] = m
    BY <2>1, Elements
  <2> QED BY <2>1, <2>2
<1>5. \A i \in DOMAIN t : i + 1 \in DOMAIN q /\ i + 1 # 1 /\ t[i] = q[i + 1]
  BY <1>1, <1>2, <1>4 DEF t
<1>6. Single(t)
  <2> SUFFICES ASSUME NEW i \in DOMAIN t, NEW j \in DOMAIN t, Token(t[i]), Token(t[j]), t[i].stream = t[j].stream
               PROVE  i = j
    BY DEF Single
  <2>1. i + 1 = j + 1
    BY <1>5 DEF Single
  <2> QED BY <1>2, <1>4, <2>1
<1>7. Range(q) = Range(t) \cup {Head(q)}
  <2>1. ASSUME NEW m \in Range(q) PROVE m \in Range(t) \cup {Head(q)}
    <3>1. PICK i \in DOMAIN q : q[i] = m
      BY <1>3
    <3>2. CASE i = 1
      BY <1>2, <3>1, <3>2
    <3>3. CASE i # 1
      <4>1. i - 1 \in DOMAIN t /\ t[i - 1] = q[(i - 1) + 1] /\ (i - 1) + 1 = i
        BY <1>2, <1>4, <1>5, <3>3
      <4> QED BY <1>4, <3>1, <4>1
    <3> QED BY <3>2, <3>3
  <2>2. \A m \in Range(t) : m \in Range(q)
    BY <1>3, <1>4, <1>5
  <2> QED BY <1>2, <1>3, <2>1, <2>2
<1>8. About(t) \subseteq About(q)
  BY <1>7 DEF About
<1>9. ASSUME Token(Head(q)) PROVE Head(q).stream \in About(q) \ About(t)
  <2>1. Head(q).stream \in About(q)
    BY <1>7, <1>9 DEF About
  <2>2. ASSUME NEW m \in Range(t), Token(m), m.stream = Head(q).stream PROVE FALSE
    <3>1. PICK i \in DOMAIN t : t[i] = m
      BY <1>4
    <3>2. i + 1 \in DOMAIN q /\ i + 1 # 1 /\ q[i + 1] = m
      BY <1>5, <3>1
    <3> QED BY <1>2, <1>9, <2>2, <3>2 DEF Single
  <2> QED BY <2>1, <2>2 DEF About
<1> QED BY <1>1, <1>6, <1>7, <1>8, <1>9 DEF t

(* Messages are put at the end, tokens for streams that had none.          *)
LEMMA PutAtEnd ==
  ASSUME NEW S, NEW q \in Seq(S), NEW r \in Seq(S), Single(q), Single(r), About(q) \cap About(r) = {}
  PROVE  /\ q \o r \in Seq(S) /\ Single(q \o r) /\ Range(q \o r) = Range(q) \cup Range(r)
         /\ About(q \o r) = About(q) \cup About(r)
<1> DEFINE v == q \o r
<1>1. /\ v \in Seq(S) /\ Len(v) = Len(q) + Len(r)
      /\ \A i \in 1 .. Len(q) + Len(r) : v[i] = IF i <= Len(q) THEN q[i] ELSE r[i - Len(q)]
  BY ConcatProperties
<1>2. /\ Len(q) \in Nat /\ DOMAIN q = 1 .. Len(q) /\ \A i \in DOMAIN q : q[i] \in Range(q)
      /\ \A m \in Range(q) : \E i \in DOMAIN q : q[i] = m
  BY Elements
<1>3. /\ Len(r) \in Nat /\ DOMAIN r = 1 .. Len(r) /\ \A i \in DOMAIN r : r[i] \in Range(r)
      /\ \A m \in Range(r) : \E i \in DOMAIN r : r[i] = m
  BY Elements
<1> HIDE DEF v
<1>4. /\ DOMAIN v = 1 .. Len(q) + Len(r) /\ \A i \in DOMAIN v : v[i] \in Range(v)
      /\ \A m \in Range(v) : \E i \in DOMAIN v : v[i] = m
  <2>1. /\ DOMAIN v = 1 .. Len(v) /\ \A i \in DOMAIN v : v[i] \in Range(v)
        /\ \A m \in Range(v) : \E i \in DOMAIN v : v[i] = m
    <3>1. v \in Seq(S)
      BY <1>1
    <3> QED BY <3>1, Elements
  <2> QED BY <1>1, <2>1
<1>5. \A i \in DOMAIN v : \/ i \in DOMAIN q /\ v[i] = q[i]
                          \/ i > Len(q) /\ i - Len(q) \in DOMAIN r /\ v[i] = r[i - Len(q)]
  <2> SUFFICES ASSUME NEW i \in DOMAIN v
               PROVE  \/ i \in DOMAIN q /\ v[i] = q[i]
                      \/ i > Len(q) /\ i - Len(q) \in DOMAIN r /\ v[i] = r[i - Len(q)]
    OBVIOUS
  <2>1. CASE i <= Len(q)
    BY <1>1, <1>2, <1>4, <2>1
  <2>2. CASE ~(i <= Len(q))
    <3>1. i \in 1 .. Len(q) + Len(r) /\ i > Len(q) /\ i - Len(q) \in 1 .. Len(r)
      BY <1>2, <1>3, <1>4, <2>2
    <3>2. v[i] = r[i - Len(q)]
      BY <1>1, <2>2, <3>1
    <3> QED BY <1>3, <3>1, <3>2
  <2> QED BY <2>1, <2>2
<1>6. \A i \in DOMAIN q : Token(q[i]) => q[i].stream \in About(q)
  BY <1>2 DEF About
<1>7. \A i \in DOMAIN r : Token(r[i]) => r[i].stream \in About(r)
  BY <1>3 DEF About
<1>8. Single(v)
  <2> SUFFICES ASSUME NEW i \in DOMAIN v, NEW j \in DOMAIN v, Token(v[i]), Token(v[j]), v[i].stream = v[j].stream
               PROVE  i = j
    BY DEF Single
  <2>1. CASE i \in DOMAIN q /\ v[i] = q[i]
    <3>1. CASE j \in DOMAIN q /\ v[j] = q[j]
      BY <2>1, <3>1 DEF Single
    <3>2. CASE j > Len(q) /\ j - Len(q) \in DOMAIN r /\ v[j] = r[j - Len(q)]
      BY <1>6, <1>7, <2>1, <3>2
    <3> QED BY <1>5, <3>1, <3>2
  <2>2. CASE i > Len(q) /\ i - Len(q) \in DOMAIN r /\ v[i] = r[i - Len(q)]
    <3>1. CASE j \in DOMAIN q /\ v[j] = q[j]
      BY <1>6, <1>7, <2>2, <3>1
    <3>2. CASE j > Len(q) /\ j - Len(q) \in DOMAIN r /\ v[j] = r[j - Len(q)]
      <4>1. i - Len(q) = j - Len(q)
        BY <2>2, <3>2 DEF Single
      <4> QED BY <1>2, <1>3, <1>4, <4>1
    <3> QED BY <1>5, <3>1, <3>2
  <2> QED BY <1>5, <2>1, <2>2
<1>9. Range(v) = Range(q) \cup Range(r)
  <2>1. \A m \in Range(v) : m \in Range(q) \cup Range(r)
    BY <1>2, <1>3, <1>4, <1>5
  <2>2. ASSUME NEW m \in Range(q) PROVE m \in Range(v)
    <3>1. PICK i \in DOMAIN q : q[i] = m
      BY <1>2
    <3>2. i \in DOMAIN v /\ v[i] = q[i]
      BY <1>1, <1>2, <1>3, <1>4
    <3> QED BY <1>4, <3>1, <3>2
  <2>3. ASSUME NEW m \in Range(r) PROVE m \in Range(v)
    <3>1. PICK i \in DOMAIN r : r[i] = m
      BY <1>3
    <3>2. /\ Len(q) + i \in DOMAIN v /\ ~(Len(q) + i <= Len(q)) /\ Len(q) + i - Len(q) = i
          /\ Len(q) + i \in 1 .. Len(q) + Len(r)
      BY <1>2, <1>3, <1>4
    <3>3. v[Len(q) + i] = r[i]
      BY <1>1, <3>2
    <3> QED BY <1>4, <3>1, <3>2, <3>3
  <2> QED BY <2>1, <2>2, <2>3
<1>10. About(v) = About(q) \cup About(r)
  BY <1>9 DEF About
<1> QED BY <1>1, <1>8, <1>9, <1>10 DEF v

(* One message.                                                            *)
LEMMA OneMessage ==
  ASSUME NEW S, NEW m \in S
  PROVE  /\ <<m>> \in Seq(S) /\ Single(<<m>>) /\ Range(<<m>>) = {m}
         /\ About(<<m>>) = {n.stream : n \in {k \in {m} : Token(k)}}
<1>1. <<m>> \in Seq(S) /\ DOMAIN <<m>> = {1} /\ <<m>>[1] = m
  OBVIOUS
<1>2. Range(<<m>>) = {m}
  BY <1>1 DEF Range
<1> QED BY <1>1, <1>2 DEF Single, About

(* The messages of a finite set, in any order.                             *)
LEMMA MessagesOf ==
  ASSUME NEW M, IsFiniteSet(M), NEW S \in SUBSET M,
         \A m, n \in S : Token(m) /\ Token(n) /\ m.stream = n.stream => m = n
  PROVE  SetToSeq(S) \in Seq(M) /\ Single(SetToSeq(S)) /\ Range(SetToSeq(S)) = S
<1> DEFINE q == SetToSeq(S)
           n == Cardinality(S)
<1>1. IsFiniteSet(S) /\ n \in Nat /\ ExistsBijection(1 .. n, S)
  BY FS_Subset, FS_CardinalityType
<1>2. PICK f \in [1 .. n -> S] : IsInjective(f)
  BY <1>1 DEF ExistsBijection, Bijection, Injection
<1>3. q \in [1 .. n -> S] /\ IsInjective(q)
  BY <1>2 DEF SetToSeq
<1> HIDE DEF q
<1>4. q \in Injection(1 .. n, S)
  BY <1>3 DEF Injection
<1>5. Cardinality(1 .. n) = n
  BY <1>1, FS_Interval
<1>6. q \in Surjection(1 .. n, S)
  BY <1>1, <1>4, <1>5, FS_Injection
<1>7. Range(q) = S
  BY <1>3, <1>6 DEF Surjection, Range
<1>8. q \in Seq(M)
  BY SetToSeqType DEF q
<1>9. Single(q)
  BY <1>3 DEF Single, IsInjective
<1> QED BY <1>7, <1>8, <1>9 DEF q

(***************************************************************************)
(* Lemmas about what is on the way.                                        *)
(***************************************************************************)
(* A stream with a token is pending, and no consumer is opened for it.     *)
LEMMA TokensPending ==
  ASSUME NEW s \in Listeners, Awaited(s)
  PROVE  \A x \in About(toServer[s]) \cup About(toClient[s]) \cup serving[s] :
           x \in DOMAIN pending[s] /\ pending[s][x] \in {"asked", "resuming"}
<1>1. ASSUME NEW m \in Range(toServer[s]) \cup Range(toClient[s]), Token(m)
      PROVE  m.stream \in DOMAIN pending[s] /\ pending[s][m.stream] \in {"asked", "resuming"}
  BY <1>1 DEF Awaited, AwaitedAs
<1> QED BY <1>1 DEF Awaited, About

(* What a received message leaves.                                         *)
LEMMA Received ==
  ASSUME SyncTypeOK, NEW s \in Listeners, Good(s), NEW type, Receive(s, type)
  PROVE  /\ Head(toClient[s]) \in ToClient /\ Head(toClient[s]).type = type
         /\ Head(toClient[s]) \in Range(toClient[s])
         /\ toClient'[s] \in Seq(ToClient) /\ Single(toClient'[s])
         /\ Range(toClient[s]) = Range(toClient'[s]) \cup {Head(toClient[s])}
         /\ About(toClient'[s]) \subseteq About(toClient[s])
         /\ Token(Head(toClient[s])) => Head(toClient[s]).stream \in About(toClient[s]) \ About(toClient'[s])
         /\ \A id \in Answered(toClient[s]) : id \in Answered(toClient'[s]) \/ (type = "consumed" /\ id = Head(toClient[s]).id)
         /\ serving' = serving /\ consumers' = consumers
         /\ \A l \in Listeners \ {s} : toClient'[l] = toClient[l]
<1> DEFINE q == toClient[s]
<1>1. /\ q \in Seq(ToClient) /\ q # <<>> /\ Single(q) /\ Head(q).type = type
      /\ toClient' = [toClient EXCEPT ![s] = Tail(q)] /\ toClient \in [Listeners -> Seq(ToClient)]
      /\ serving' = serving /\ consumers' = consumers
  BY DEF SyncTypeOK, Receive, Good, OneToken, vars, mediaVars
<1> HIDE DEF q
<1>2. /\ Single(Tail(q)) /\ Range(q) = Range(Tail(q)) \cup {Head(q)}
      /\ Head(q) \in ToClient /\ Tail(q) \in Seq(ToClient)
      /\ About(Tail(q)) \subseteq About(q)
      /\ Token(Head(q)) => Head(q).stream \in About(q) \ About(Tail(q))
  BY <1>1, TakeHead
<1>3. toClient'[s] = Tail(q) /\ \A l \in Listeners \ {s} : toClient'[l] = toClient[l]
  BY <1>1
<1>4. \A id \in Answered(q) : id \in Answered(Tail(q)) \/ (type = "consumed" /\ id = Head(q).id)
  <2>1. ASSUME NEW m \in Range(q), m.type = "consumed"
        PROVE  m.id \in Answered(Tail(q)) \/ (type = "consumed" /\ m.id = Head(q).id)
    <3>1. CASE m = Head(q)
      BY <1>1, <2>1, <3>1
    <3>2. CASE m \in Range(Tail(q))
      BY <2>1, <3>2, NamedIn
    <3> QED BY <1>2, <3>1, <3>2
  <2> QED BY <2>1 DEF Answered
<1> QED BY <1>1, <1>2, <1>3, <1>4 DEF q

(* What sent requests add.                                                 *)
LEMMA Sent ==
  ASSUME SyncTypeOK, NEW s \in Listeners, Good(s), NEW q \in Seq(ToServer), Send(s, q),
         Single(q), About(toServer[s]) \cap About(q) = {}
  PROVE  /\ Single(toServer'[s]) /\ Range(toServer'[s]) = Range(toServer[s]) \cup Range(q)
         /\ About(toServer'[s]) = About(toServer[s]) \cup About(q)
         /\ \A l \in Listeners \ {s} : toServer'[l] = toServer[l]
<1>1. /\ toServer[s] \in Seq(ToServer) /\ Single(toServer[s])
      /\ toServer'[s] = toServer[s] \o q /\ \A l \in Listeners \ {s} : toServer'[l] = toServer[l]
  BY DEF SyncTypeOK, Send, Good, OneToken
<1> DEFINE p == toServer[s]
<1> HIDE DEF p
<1>2. p \in Seq(ToServer) /\ Single(p) /\ About(p) \cap About(q) = {}
  BY <1>1 DEF p
<1>3. /\ Single(p \o q) /\ Range(p \o q) = Range(p) \cup Range(q)
      /\ About(p \o q) = About(p) \cup About(q)
  BY <1>2, PutAtEnd
<1> QED BY <1>1, <1>3 DEF p

(* One request.                                                            *)
LEMMA SentOne ==
  ASSUME SyncTypeOK, NEW s \in Listeners, Good(s), NEW m \in ToServer, Send(s, <<m>>),
         Token(m) => m.stream \notin About(toServer[s])
  PROVE  /\ Single(toServer'[s]) /\ Range(toServer'[s]) = Range(toServer[s]) \cup {m}
         /\ About(toServer'[s]) = About(toServer[s]) \cup {n.stream : n \in {k \in {m} : Token(k)}}
         /\ \A l \in Listeners \ {s} : toServer'[l] = toServer[l]
<1>1. /\ <<m>> \in Seq(ToServer) /\ Single(<<m>>) /\ Range(<<m>>) = {m}
      /\ About(<<m>>) = {n.stream : n \in {k \in {m} : Token(k)}}
  BY OneMessage
<1>2. About(toServer[s]) \cap About(<<m>>) = {}
  BY <1>1
<1> DEFINE r == <<m>>
<1> HIDE DEF r
<1>3. r \in Seq(ToServer) /\ Single(r) /\ About(toServer[s]) \cap About(r) = {} /\ Send(s, r)
  BY <1>1, <1>2 DEF r
<1>4. /\ Single(toServer'[s]) /\ Range(toServer'[s]) = Range(toServer[s]) \cup Range(r)
      /\ About(toServer'[s]) = About(toServer[s]) \cup About(r)
      /\ \A l \in Listeners \ {s} : toServer'[l] = toServer[l]
  BY <1>3, Sent
<1> QED BY <1>1, <1>4 DEF r

(* A listener nothing happens to stays good, whoever else closes or opens  *)
(* consumers.                                                              *)
LEMMA Untouched ==
  ASSUME NEW l \in Listeners, Good(l),
         toServer'[l] = toServer[l], toClient'[l] = toClient[l], serving'[l] = serving[l],
         streams'[l] = streams[l], pending'[l] = pending[l],
         \A c \in consumers' : c.to = l => c \in consumers
  PROVE  Good(l)'
<1>1. OneToken(l)'
  BY DEF Good, OneToken
<1>2. Awaited(l)'
  BY DEF Good, Awaited
<1>3. Traced(l)'
  BY DEF Good, Traced, Traceable
<1> QED BY <1>1, <1>2, <1>3 DEF Good

(* A stream becomes pending, or waits for something else.                  *)
LEMMA PendingPut ==
  ASSUME SyncTypeOK, NEW s \in Listeners, NEW x, NEW v,
         pending' = [pending EXCEPT ![s] = Put(@, x, v)]
  PROVE  /\ DOMAIN pending'[s] = DOMAIN pending[s] \cup {x} /\ pending'[s][x] = v /\ v \in Range(pending'[s])
         /\ \A y \in DOMAIN pending[s] \ {x} :
              pending'[s][y] = pending[s][y] /\ pending[s][y] \in Range(pending'[s])
         /\ \A l \in Listeners \ {s} : pending'[l] = pending[l]
<1>1. /\ pending'[s] = Put(pending[s], x, v)
      /\ \A l \in Listeners \ {s} : pending'[l] = pending[l]
  BY DEF SyncTypeOK
<1>2. DOMAIN pending'[s] = DOMAIN pending[s] \cup {x}
  BY <1>1 DEF Put
<1>3. pending'[s][x] = v
  BY <1>1 DEF Put
<1>4. v \in Range(pending'[s])
  BY <1>2, <1>3 DEF Range
<1>5. ASSUME NEW y \in DOMAIN pending[s] \ {x}
      PROVE  pending'[s][y] = pending[s][y] /\ pending[s][y] \in Range(pending'[s])
  <2>1. pending'[s][y] = pending[s][y] /\ y \in DOMAIN pending'[s]
    BY <1>1, <1>2 DEF Put
  <2> QED BY <2>1 DEF Range
<1> QED BY <1>1, <1>2, <1>3, <1>4, <1>5

(* A stream is no longer pending.                                          *)
LEMMA PendingForgotten ==
  ASSUME SyncTypeOK, NEW s \in Listeners, NEW x,
         pending' = [pending EXCEPT ![s] = Forget(@, {x})]
  PROVE  /\ DOMAIN pending'[s] = DOMAIN pending[s] \ {x}
         /\ \A y \in DOMAIN pending[s] \ {x} :
              pending'[s][y] = pending[s][y] /\ pending[s][y] \in Range(pending'[s])
         /\ \A l \in Listeners \ {s} : pending'[l] = pending[l]
<1>1. /\ pending'[s] = Forget(pending[s], {x})
      /\ \A l \in Listeners \ {s} : pending'[l] = pending[l]
  BY DEF SyncTypeOK
<1>2. DOMAIN pending'[s] = DOMAIN pending[s] \ {x}
  BY <1>1 DEF Forget
<1>3. ASSUME NEW y \in DOMAIN pending[s] \ {x}
      PROVE  pending'[s][y] = pending[s][y] /\ pending[s][y] \in Range(pending'[s])
  <2>1. pending'[s][y] = pending[s][y] /\ y \in DOMAIN pending'[s]
    BY <1>1, <1>2 DEF Forget
  <2> QED BY <2>1 DEF Range
<1> QED BY <1>1, <1>2, <1>3

(* A stream that was not open is opened.                                   *)
LEMMA StreamOpened ==
  ASSUME SyncTypeOK, NEW s \in Listeners, NEW x, NEW v, x \notin DOMAIN streams[s],
         streams' = [streams EXCEPT ![s] = Put(@, x, v)]
  PROVE  /\ v \in Range(streams'[s]) /\ Range(streams[s]) \subseteq Range(streams'[s])
         /\ \A l \in Listeners \ {s} : streams'[l] = streams[l]
<1>1. /\ streams'[s] = Put(streams[s], x, v)
      /\ \A l \in Listeners \ {s} : streams'[l] = streams[l]
  BY DEF SyncTypeOK
<1>2. DOMAIN streams'[s] = DOMAIN streams[s] \cup {x}
  BY <1>1 DEF Put
<1>3. streams'[s][x] = v
  BY <1>1 DEF Put
<1>4. v \in Range(streams'[s])
  BY <1>2, <1>3 DEF Range
<1>5. ASSUME NEW y \in DOMAIN streams[s] PROVE streams[s][y] \in Range(streams'[s])
  <2>1. streams'[s][y] = streams[s][y] /\ y \in DOMAIN streams'[s]
    BY <1>1, <1>2 DEF Put
  <2> QED BY <2>1 DEF Range
<1> QED BY <1>1, <1>4, <1>5 DEF Range

(* Streams are closed.                                                     *)
LEMMA StreamsForgotten ==
  ASSUME SyncTypeOK, NEW s \in Listeners, NEW X,
         streams' = [streams EXCEPT ![s] = Forget(@, X)]
  PROVE  /\ \A y \in DOMAIN streams[s] \ X : streams[s][y] \in Range(streams'[s])
         /\ \A l \in Listeners \ {s} : streams'[l] = streams[l]
<1>1. /\ streams'[s] = Forget(streams[s], X)
      /\ \A l \in Listeners \ {s} : streams'[l] = streams[l]
  BY DEF SyncTypeOK
<1>2. DOMAIN streams'[s] = DOMAIN streams[s] \ X
  BY <1>1 DEF Forget
<1>3. ASSUME NEW y \in DOMAIN streams[s] \ X PROVE streams[s][y] \in Range(streams'[s])
  <2>1. streams'[s][y] = streams[s][y] /\ y \in DOMAIN streams'[s]
    BY <1>1, <1>2 DEF Forget
  <2> QED BY <2>1 DEF Range
<1> QED BY <1>1, <1>3

(***************************************************************************)
(* The steps of a client.                                                  *)
(***************************************************************************)
(* What an unknown stream is asked for is new on the way.                  *)
LEMMA AskingIsGood ==
  ASSUME SyncTypeOK, NEW s \in Listeners, Good(s), NEW x \in Streams, ~ Known(s, x), AskFor(s, x),
         streams' = streams, serving' = serving, consumers' = consumers,
         Single(toClient'[s]), Range(toClient'[s]) \subseteq Range(toClient[s]),
         Answered(toClient[s]) \subseteq Answered(toClient'[s])
  PROVE  Good(s)' /\ \A l \in Listeners \ {s} : toServer'[l] = toServer[l] /\ pending'[l] = pending[l]
<1> DEFINE m == Consume(x)
<1>1. m \in ToServer /\ Token(m) /\ m.stream = x /\ AwaitedAs(m) = "asked"
  BY DEF Consume, ToServer, Token, AwaitedAs
<1>2. x \notin About(toServer[s]) \cup About(toClient[s]) \cup serving[s]
  BY TokensPending DEF Known, Good
<1> HIDE DEF m
<1>3. /\ Single(toServer'[s]) /\ Range(toServer'[s]) = Range(toServer[s]) \cup {m}
      /\ About(toServer'[s]) = About(toServer[s]) \cup {x}
      /\ \A l \in Listeners \ {s} : toServer'[l] = toServer[l]
  <2>1. Send(s, <<m>>)
    BY DEF AskFor, m
  <2>2. /\ Single(toServer'[s]) /\ Range(toServer'[s]) = Range(toServer[s]) \cup {m}
        /\ About(toServer'[s]) = About(toServer[s]) \cup {n.stream : n \in {k \in {m} : Token(k)}}
        /\ \A l \in Listeners \ {s} : toServer'[l] = toServer[l]
    BY <1>1, <1>2, <2>1, SentOne
  <2>3. {n.stream : n \in {k \in {m} : Token(k)}} = {x}
    BY <1>1
  <2> QED BY <2>2, <2>3
<1>4. About(toClient'[s]) \subseteq About(toClient[s])
  BY DEF About
<1>5. x \notin DOMAIN pending[s] /\ pending' = [pending EXCEPT ![s] = Put(@, x, "asked")]
  BY DEF Known, AskFor
<1>6. /\ DOMAIN pending'[s] = DOMAIN pending[s] \cup {x} /\ pending'[s][x] = "asked"
      /\ \A y \in DOMAIN pending[s] : pending'[s][y] = pending[s][y] /\ pending[s][y] \in Range(pending'[s])
      /\ \A l \in Listeners \ {s} : pending'[l] = pending[l]
  BY <1>5, PendingPut
<1>7. OneToken(s)'
  BY <1>2, <1>3, <1>4 DEF OneToken, Good
<1>8. Awaited(s)'
  <2>1. ASSUME NEW n \in Range(toServer'[s]) \cup Range(toClient'[s]), Token(n)
        PROVE  n.stream \in DOMAIN pending'[s] /\ pending'[s][n.stream] = AwaitedAs(n)
    <3>1. CASE n = m
      BY <1>1, <1>6, <3>1
    <3>2. CASE n \in Range(toServer[s]) \cup Range(toClient[s])
      BY <1>6, <2>1, <3>2 DEF Awaited, Good
    <3> QED BY <1>3, <3>1, <3>2
  <2>2. \A y \in serving'[s] : y \in DOMAIN pending'[s] /\ pending'[s][y] = "asked"
    BY <1>6 DEF Awaited, Good
  <2> QED BY <2>1, <2>2 DEF Awaited
<1>9. Traced(s)'
  <2>1. Range(pending[s]) \subseteq Range(pending'[s])
    BY <1>6 DEF Range
  <2>2. Closing(toServer[s]) \subseteq Closing(toServer'[s])
    BY <1>3 DEF Closing
  <2> QED BY <2>1, <2>2 DEF Traced, Traceable, Good
<1> QED BY <1>3, <1>6, <1>7, <1>8, <1>9 DEF Good

(* An announcement.                                                        *)
LEMMA NewProducerIsGood ==
  ASSUME SyncTypeOK, \A l \in Listeners : Good(l), NEW s \in Listeners, NewProducer(s)
  PROVE  \A l \in Listeners : Good(l)'
<1> DEFINE m == Head(toClient[s])
<1>1. Receive(s, "new-producer") /\ UNCHANGED <<streams, early, sync>> /\ Good(s)
  BY DEF NewProducer
<1>2. /\ m \in ToClient /\ m.type = "new-producer" /\ Single(toClient'[s])
      /\ Range(toClient[s]) = Range(toClient'[s]) \cup {m}
      /\ About(toClient'[s]) \subseteq About(toClient[s])
      /\ Answered(toClient[s]) \subseteq Answered(toClient'[s])
      /\ serving' = serving /\ consumers' = consumers
      /\ \A l \in Listeners \ {s} : toClient'[l] = toClient[l]
  BY <1>1, Received
<1>3. m.stream \in Streams
  BY <1>2 DEF ToClient
<1>4. CASE UNCHANGED <<pending, toServer>>
  <2>1. OneToken(s)'
    BY <1>1, <1>2, <1>4 DEF OneToken, Good
  <2>2. Awaited(s)'
    BY <1>1, <1>2, <1>4 DEF Awaited, Good
  <2>3. Traced(s)'
    BY <1>1, <1>2, <1>4 DEF Traced, Traceable, Good
  <2>4. Good(s)'
    BY <2>1, <2>2, <2>3 DEF Good
  <2> QED BY <1>1, <1>2, <1>4, <2>4, Untouched
<1>5. CASE ~ Known(s, m.stream) /\ AskFor(s, m.stream)
  <2>1. Good(s)' /\ \A l \in Listeners \ {s} : toServer'[l] = toServer[l] /\ pending'[l] = pending[l]
    BY <1>1, <1>2, <1>3, <1>5, AskingIsGood
  <2> QED BY <1>1, <1>2, <2>1, Untouched
<1> QED BY <1>4, <1>5 DEF NewProducer

(* Requests that carry no token leave the tokens as they were.             *)
LEMMA OtherRequests ==
  ASSUME SyncTypeOK, NEW s \in Listeners, Good(s), NEW q \in Seq(ToServer), Send(s, q),
         \A m \in Range(q) : ~ Token(m),
         pending' = pending, serving' = serving,
         Single(toClient'[s]), Range(toClient'[s]) \subseteq Range(toClient[s])
  PROVE  /\ OneToken(s)' /\ Awaited(s)'
         /\ Range(toServer'[s]) = Range(toServer[s]) \cup Range(q)
         /\ Closing(toServer[s]) \subseteq Closing(toServer'[s])
         /\ \A m \in Range(q) : m.type = "close-consumer" => m.id \in Closing(toServer'[s])
         /\ \A l \in Listeners \ {s} : toServer'[l] = toServer[l]
<1>1. About(q) = {} /\ Single(q)
  BY DEF About, Single, Range
<1>2. /\ Single(toServer'[s]) /\ Range(toServer'[s]) = Range(toServer[s]) \cup Range(q)
      /\ About(toServer'[s]) = About(toServer[s]) \cup About(q)
      /\ \A l \in Listeners \ {s} : toServer'[l] = toServer[l]
  BY <1>1, Sent
<1>3. About(toClient'[s]) \subseteq About(toClient[s])
  BY DEF About
<1>4. OneToken(s)'
  BY <1>1, <1>2, <1>3 DEF OneToken, Good
<1>5. Awaited(s)'
  BY <1>2 DEF Awaited, Good
<1>6. /\ Closing(toServer[s]) \subseteq Closing(toServer'[s])
      /\ \A m \in Range(q) : m.type = "close-consumer" => m.id \in Closing(toServer'[s])
  BY <1>2 DEF Closing
<1> QED BY <1>2, <1>4, <1>5, <1>6

(* A withdrawn consumer: the client closes what it registered under it.    *)
LEMMA ConsumerClosedIsGood ==
  ASSUME SyncTypeOK, \A l \in Listeners : Good(l), NEW s \in Listeners, ConsumerClosed(s)
  PROVE  \A l \in Listeners : Good(l)'
<1> DEFINE m == Head(toClient[s])
           closed == {x \in DOMAIN streams[s] : streams[s][x] = m.id}
<1>1. Receive(s, "consumer-closed") /\ pending' = pending /\ Good(s)
  BY DEF ConsumerClosed
<1>2. /\ m \in ToClient /\ m.type = "consumer-closed" /\ Single(toClient'[s])
      /\ Range(toClient'[s]) \subseteq Range(toClient[s])
      /\ About(toClient'[s]) \subseteq About(toClient[s])
      /\ Answered(toClient[s]) \subseteq Answered(toClient'[s])
      /\ serving' = serving /\ consumers' = consumers
      /\ \A l \in Listeners \ {s} : toClient'[l] = toClient[l]
  BY <1>1, Received
<1>3. m.id \in ConsumerIds
  BY <1>2 DEF ToClient
<1>4. CASE closed # {}
  <2> DEFINE n == Close(m.id)
  <2>1. /\ streams' = [streams EXCEPT ![s] = Forget(@, closed)] /\ Send(s, <<n>>)
    BY <1>4 DEF ConsumerClosed
  <2>2. n \in ToServer /\ ~ Token(n) /\ n.type = "close-consumer" /\ n.id = m.id
    BY <1>3 DEF Close, ToServer, Token
  <2> HIDE DEF n
  <2>3. <<n>> \in Seq(ToServer) /\ Range(<<n>>) = {n}
    BY <2>2, OneMessage
  <2> DEFINE q == <<n>>
  <2> HIDE DEF q
  <2>4. q \in Seq(ToServer) /\ Range(q) = {n} /\ Send(s, q)
    BY <2>1, <2>3 DEF q
  <2>5. \A k \in Range(q) : ~ Token(k)
    BY <2>2, <2>4
  <2>6. /\ OneToken(s)' /\ Awaited(s)'
        /\ Closing(toServer[s]) \subseteq Closing(toServer'[s])
        /\ \A k \in Range(q) : k.type = "close-consumer" => k.id \in Closing(toServer'[s])
        /\ \A l \in Listeners \ {s} : toServer'[l] = toServer[l]
    BY <1>1, <1>2, <2>4, <2>5, OtherRequests
  <2>7. m.id \in Closing(toServer'[s])
    BY <2>2, <2>4, <2>6
  <2>8. /\ \A y \in DOMAIN streams[s] \ closed : streams[s][y] \in Range(streams'[s])
        /\ \A l \in Listeners \ {s} : streams'[l] = streams[l]
    <3> HIDE DEF closed
    <3> QED BY <2>1, StreamsForgotten
  <2>9. Range(streams[s]) \subseteq Range(streams'[s]) \cup {m.id}
    BY <2>8 DEF Range
  <2>10. Traced(s)'
    BY <1>1, <1>2, <2>6, <2>7, <2>9 DEF Traced, Traceable, Good
  <2>11. Good(s)'
    BY <2>6, <2>10 DEF Good
  <2> QED BY <1>1, <1>2, <2>6, <2>8, <2>11, Untouched
<1>5. CASE closed = {} /\ UNCHANGED toServer
  <2>1. streams' = streams
    BY <1>5 DEF ConsumerClosed
  <2>2. OneToken(s)'
    BY <1>1, <1>2, <1>5 DEF OneToken, Good
  <2>3. Awaited(s)'
    BY <1>1, <1>2, <1>5 DEF Awaited, Good
  <2>4. Traced(s)'
    BY <1>1, <1>2, <1>5, <2>1 DEF Traced, Traceable, Good
  <2>5. Good(s)'
    BY <2>2, <2>3, <2>4 DEF Good
  <2> QED BY <1>1, <1>2, <1>5, <2>1, <2>5, Untouched
<1>6. CASE closed = {} /\ Send(s, <<ListRequest>>)
  <2>1. streams' = streams
    BY <1>6 DEF ConsumerClosed
  <2> DEFINE n == ListRequest
  <2>2. n \in ToServer /\ ~ Token(n)
    BY DEF ListRequest, ToServer, Token
  <2> HIDE DEF n
  <2>3. <<n>> \in Seq(ToServer) /\ Range(<<n>>) = {n}
    BY <2>2, OneMessage
  <2> DEFINE q == <<n>>
  <2> HIDE DEF q
  <2>4. q \in Seq(ToServer) /\ Range(q) = {n} /\ Send(s, q)
    BY <1>6, <2>3 DEF q, n
  <2>5. \A k \in Range(q) : ~ Token(k)
    BY <2>2, <2>4
  <2>6. /\ OneToken(s)' /\ Awaited(s)'
        /\ Closing(toServer[s]) \subseteq Closing(toServer'[s])
        /\ \A l \in Listeners \ {s} : toServer'[l] = toServer[l]
    BY <1>1, <1>2, <2>4, <2>5, OtherRequests
  <2>7. Traced(s)'
    BY <1>1, <1>2, <2>1, <2>6 DEF Traced, Traceable, Good
  <2>8. Good(s)'
    BY <2>6, <2>7 DEF Good
  <2> QED BY <1>1, <1>2, <2>1, <2>6, <2>8, Untouched
<1>7. closed # {} \/ UNCHANGED toServer \/ Send(s, <<ListRequest>>)
  BY DEF ConsumerClosed
<1> QED BY <1>4, <1>5, <1>6, <1>7

(* An answer is taken: the stream waits for nothing else, and the id of a  *)
(* consumer goes from the answer to the pending stream.                    *)
LEMMA TakenAnswerIsGood ==
  ASSUME TypeOK, SyncTypeOK, NEW s \in Listeners, Good(s), NEW type, Receive(s, type), Token(Head(toClient[s])),
         toServer' = toServer, streams' = streams,
         \A y \in DOMAIN pending[s] \ {Head(toClient[s]).stream} :
           /\ y \in DOMAIN pending'[s] /\ pending'[s][y] = pending[s][y]
           /\ pending[s][y] \in Range(pending'[s]),
         type = "consumed" => Head(toClient[s]).id \in Range(pending'[s])
  PROVE  Good(s)'
<1> DEFINE m == Head(toClient[s])
           x == m.stream
<1>1. /\ m \in Range(toClient[s]) /\ Single(toClient'[s])
      /\ Range(toClient[s]) = Range(toClient'[s]) \cup {m}
      /\ About(toClient'[s]) \subseteq About(toClient[s])
      /\ x \in About(toClient[s]) \ About(toClient'[s])
      /\ \A id \in Answered(toClient[s]) : id \in Answered(toClient'[s]) \/ (type = "consumed" /\ id = m.id)
      /\ serving' = serving /\ consumers' = consumers
  BY Received
<1>2. x \in DOMAIN pending[s] /\ pending[s][x] \in {"asked", "resuming"}
  BY <1>1, TokensPending DEF Good
<1>3. x \notin About(toServer[s]) \cup About(toClient'[s]) \cup serving[s]
  BY <1>1 DEF Good, OneToken
<1>4. OneToken(s)'
  BY <1>1 DEF OneToken, Good
<1> HIDE DEF x
<1>5. \A y \in DOMAIN pending[s] \ {x} :
        /\ y \in DOMAIN pending'[s] /\ pending'[s][y] = pending[s][y]
        /\ pending[s][y] \in Range(pending'[s])
  BY DEF x
<1>6. Awaited(s)'
  <2>1. ASSUME NEW n \in Range(toServer'[s]) \cup Range(toClient'[s]), Token(n)
        PROVE  n.stream \in DOMAIN pending'[s] /\ pending'[s][n.stream] = AwaitedAs(n)
    <3>1. n \in Range(toServer[s]) \cup Range(toClient[s])
      BY <1>1, <2>1
    <3>2. n.stream # x
      BY <1>3, <2>1 DEF About
    <3>3. n.stream \in DOMAIN pending[s] /\ pending[s][n.stream] = AwaitedAs(n)
      BY <2>1, <3>1 DEF Awaited, Good
    <3> QED BY <1>5, <3>2, <3>3
  <2>2. ASSUME NEW y \in serving'[s] PROVE y \in DOMAIN pending'[s] /\ pending'[s][y] = "asked"
    <3>1. y # x /\ y \in DOMAIN pending[s] /\ pending[s][y] = "asked"
      BY <1>1, <1>3, <2>2 DEF Awaited, Good
    <3> QED BY <1>5, <3>1
  <2> QED BY <2>1, <2>2 DEF Awaited
<1>7. Traced(s)'
  <2> SUFFICES ASSUME NEW c \in consumers, c.to = s PROVE c.id \in Traceable(s)'
    BY <1>1 DEF Traced
  <2>1. c.id \in ConsumerIds /\ c.id \notin {"asked", "resuming"}
    BY IdsAssumption DEF TypeOK, Consumer
  <2>2. c.id \in Traceable(s)
    BY DEF Traced, Good
  <2>3. CASE c.id \in Range(pending[s])
    <3>1. PICK y \in DOMAIN pending[s] : c.id = pending[s][y]
      BY <2>3 DEF Range
    <3>2. y # x
      BY <1>2, <2>1, <3>1
    <3>3. c.id \in Range(pending'[s])
      BY <1>5, <3>1, <3>2
    <3> QED BY <3>3 DEF Traceable
  <2>4. CASE c.id \in Answered(toClient[s])
    <3>1. c.id \in Answered(toClient'[s]) \cup Range(pending'[s])
      BY <1>1, <2>4
    <3> QED BY <3>1 DEF Traceable
  <2>5. CASE c.id \in Range(streams[s]) \cup Closing(toServer[s])
    BY <2>5 DEF Traceable
  <2> QED BY <2>2, <2>3, <2>4, <2>5 DEF Traceable
<1> QED BY <1>4, <1>6, <1>7 DEF Good

(* The answer to a request to consume, its refusal and the answer to a     *)
(* request to resume.                                                      *)
LEMMA AnswersAreGood ==
  ASSUME TypeOK, SyncTypeOK, \A l \in Listeners : Good(l), NEW s \in Listeners,
         ConsumeAnswered(s) \/ ConsumeRefused(s) \/ ConsumerResumed(s)
  PROVE  \A l \in Listeners : Good(l)'
<1> DEFINE m == Head(toClient[s])
           x == m.stream
<1>1. PICK type \in {"consumed", "refused", "resumed"} : Receive(s, type)
  BY DEF ConsumeAnswered, ConsumeRefused, ConsumerResumed
<1>2. Good(s) /\ toServer' = toServer /\ streams' = streams
  BY DEF ConsumeAnswered, ConsumeRefused, ConsumerResumed
<1>3. /\ m.type = type /\ serving' = serving /\ consumers' = consumers
      /\ \A l \in Listeners \ {s} : toClient'[l] = toClient[l]
  BY <1>1, <1>2, Received
<1>4. Token(m)
  BY <1>3 DEF Token
<1>5. /\ \A y \in DOMAIN pending[s] \ {x} :
           /\ y \in DOMAIN pending'[s] /\ pending'[s][y] = pending[s][y]
           /\ pending[s][y] \in Range(pending'[s])
      /\ type = "consumed" => m.id \in Range(pending'[s])
      /\ \A l \in Listeners \ {s} : pending'[l] = pending[l]
  <2>1. CASE ConsumeAnswered(s)
    <3>1. pending' = [pending EXCEPT ![s] = Put(@, x, m.id)]
      BY <2>1 DEF ConsumeAnswered
    <3> HIDE DEF m, x
    <3> QED BY <3>1, PendingPut
  <2>2. CASE ConsumeRefused(s) \/ ConsumerResumed(s)
    <3>1. pending' = [pending EXCEPT ![s] = Forget(@, {x})] /\ m.type # "consumed"
      BY <2>2 DEF ConsumeRefused, ConsumerResumed, Receive
    <3> HIDE DEF m, x
    <3>2. /\ DOMAIN pending'[s] = DOMAIN pending[s] \ {x}
          /\ \A y \in DOMAIN pending[s] \ {x} :
               pending'[s][y] = pending[s][y] /\ pending[s][y] \in Range(pending'[s])
          /\ \A l \in Listeners \ {s} : pending'[l] = pending[l]
      BY <3>1, PendingForgotten
    <3> QED BY <1>3, <3>1, <3>2
  <2> QED BY <2>1, <2>2
<1>6. Good(s)'
  BY <1>1, <1>2, <1>4, <1>5, TakenAnswerIsGood
<1> QED BY <1>2, <1>3, <1>5, <1>6, Untouched

(* A consumer is opened: it is registered and to be resumed, or, when it   *)
(* is no longer wanted, to be closed.                                      *)
LEMMA OpenStreamIsGood ==
  ASSUME SyncTypeOK, \A l \in Listeners : Good(l), NEW s \in Listeners, OpenStream(s)
  PROVE  \A l \in Listeners : Good(l)'
<1>1. PICK x \in Opening(s) :
        /\ \/ /\ pending' = [pending EXCEPT ![s] = Forget(@, {x})]
              /\ UNCHANGED streams
              /\ Send(s, <<Close(pending[s][x])>>)
           \/ /\ x \notin DOMAIN streams[s]
              /\ pending' = [pending EXCEPT ![s] = Put(@, x, "resuming")]
              /\ streams' = [streams EXCEPT ![s] = Put(@, x, pending[s][x])]
              /\ Send(s, <<Resume(x)>>)
        /\ UNCHANGED <<toClient, serving, vars>>
  BY DEF OpenStream
<1> DEFINE id == pending[s][x]
<1>2. x \in Streams /\ x \in DOMAIN pending[s] /\ id \in ConsumerIds /\ id \notin {"asked", "resuming"}
  BY IdsAssumption DEF Opening, SyncTypeOK
<1>3. Good(s) /\ toClient' = toClient /\ serving' = serving /\ consumers' = consumers
  BY <1>1 DEF vars, mediaVars
<1>4. x \notin About(toServer[s]) \cup About(toClient[s]) \cup serving[s]
  BY <1>2, <1>3, TokensPending DEF Good
<1> HIDE DEF id
<1>5. CASE pending' = [pending EXCEPT ![s] = Forget(@, {x})] /\ streams' = streams /\ Send(s, <<Close(id)>>)
  <2> DEFINE m == Close(id)
  <2>1. m \in ToServer /\ ~ Token(m) /\ m.type = "close-consumer" /\ m.id = id
    BY <1>2 DEF Close, ToServer, Token
  <2> HIDE DEF m
  <2>2. /\ Single(toServer'[s]) /\ Range(toServer'[s]) = Range(toServer[s]) \cup {m}
        /\ About(toServer'[s]) = About(toServer[s])
        /\ \A l \in Listeners \ {s} : toServer'[l] = toServer[l]
    <3>1. Send(s, <<m>>)
      BY <1>5 DEF m
    <3>2. /\ Single(toServer'[s]) /\ Range(toServer'[s]) = Range(toServer[s]) \cup {m}
          /\ About(toServer'[s]) = About(toServer[s]) \cup {n.stream : n \in {k \in {m} : Token(k)}}
          /\ \A l \in Listeners \ {s} : toServer'[l] = toServer[l]
      BY <1>3, <2>1, <3>1, SentOne
    <3>3. {n.stream : n \in {k \in {m} : Token(k)}} = {}
      BY <2>1
    <3> QED BY <3>2, <3>3
  <2>3. /\ DOMAIN pending'[s] = DOMAIN pending[s] \ {x}
        /\ \A y \in DOMAIN pending[s] \ {x} :
             pending'[s][y] = pending[s][y] /\ pending[s][y] \in Range(pending'[s])
        /\ \A l \in Listeners \ {s} : pending'[l] = pending[l]
    BY <1>5, PendingForgotten
  <2>4. OneToken(s)'
    BY <1>3, <2>2 DEF OneToken, Good
  <2>5. Awaited(s)'
    <3>1. ASSUME NEW n \in Range(toServer'[s]) \cup Range(toClient'[s]), Token(n)
          PROVE  n.stream \in DOMAIN pending'[s] /\ pending'[s][n.stream] = AwaitedAs(n)
      <4>1. n \in Range(toServer[s]) \cup Range(toClient[s])
        BY <1>3, <2>1, <2>2, <3>1
      <4>2. n.stream # x
        BY <1>4, <3>1, <4>1 DEF About
      <4>3. n.stream \in DOMAIN pending[s] /\ pending[s][n.stream] = AwaitedAs(n)
        BY <1>3, <3>1, <4>1 DEF Awaited, Good
      <4> QED BY <2>3, <4>2, <4>3
    <3>2. ASSUME NEW y \in serving'[s] PROVE y \in DOMAIN pending'[s] /\ pending'[s][y] = "asked"
      <4>1. y # x /\ y \in DOMAIN pending[s] /\ pending[s][y] = "asked"
        BY <1>3, <1>4, <3>2 DEF Awaited, Good
      <4> QED BY <2>3, <4>1
    <3> QED BY <3>1, <3>2 DEF Awaited
  <2>6. Traced(s)'
    <3>1. Range(pending[s]) \subseteq Range(pending'[s]) \cup {id}
      BY <2>3 DEF Range, id
    <3>2. Closing(toServer[s]) \cup {id} \subseteq Closing(toServer'[s])
      BY <2>1, <2>2 DEF Closing
    <3> QED BY <1>3, <1>5, <3>1, <3>2 DEF Traced, Traceable, Good
  <2>7. Good(s)'
    BY <2>4, <2>5, <2>6 DEF Good
  <2> QED BY <1>3, <1>5, <2>2, <2>3, <2>7, Untouched
<1>6. CASE /\ x \notin DOMAIN streams[s]
           /\ pending' = [pending EXCEPT ![s] = Put(@, x, "resuming")]
           /\ streams' = [streams EXCEPT ![s] = Put(@, x, id)]
           /\ Send(s, <<Resume(x)>>)
  <2> DEFINE m == Resume(x)
  <2>1. m \in ToServer /\ Token(m) /\ m.stream = x /\ AwaitedAs(m) = "resuming" /\ m.type # "close-consumer"
    BY <1>2 DEF Resume, ToServer, Token, AwaitedAs
  <2> HIDE DEF m
  <2>2. /\ Single(toServer'[s]) /\ Range(toServer'[s]) = Range(toServer[s]) \cup {m}
        /\ About(toServer'[s]) = About(toServer[s]) \cup {x}
        /\ \A l \in Listeners \ {s} : toServer'[l] = toServer[l]
    <3>1. Send(s, <<m>>)
      BY <1>6 DEF m
    <3>2. /\ Single(toServer'[s]) /\ Range(toServer'[s]) = Range(toServer[s]) \cup {m}
          /\ About(toServer'[s]) = About(toServer[s]) \cup {n.stream : n \in {k \in {m} : Token(k)}}
          /\ \A l \in Listeners \ {s} : toServer'[l] = toServer[l]
      BY <1>3, <1>4, <2>1, <3>1, SentOne
    <3>3. {n.stream : n \in {k \in {m} : Token(k)}} = {x}
      BY <2>1
    <3> QED BY <3>2, <3>3
  <2>3. /\ DOMAIN pending'[s] = DOMAIN pending[s] \cup {x} /\ pending'[s][x] = "resuming"
        /\ \A y \in DOMAIN pending[s] \ {x} :
             pending'[s][y] = pending[s][y] /\ pending[s][y] \in Range(pending'[s])
        /\ \A l \in Listeners \ {s} : pending'[l] = pending[l]
    <3>1. pending' = [pending EXCEPT ![s] = Put(@, x, "resuming")]
      BY <1>6
    <3>2. /\ DOMAIN pending'[s] = DOMAIN pending[s] \cup {x}
          /\ \A y \in DOMAIN pending[s] \ {x} :
               pending'[s][y] = pending[s][y] /\ pending[s][y] \in Range(pending'[s])
          /\ \A l \in Listeners \ {s} : pending'[l] = pending[l]
      BY <3>1, PendingPut
    <3>3. pending'[s] = Put(pending[s], x, "resuming")
      BY <3>1 DEF SyncTypeOK
    <3>4. pending'[s][x] = "resuming"
      BY <3>3 DEF Put
    <3> QED BY <3>2, <3>4
  <2>4. /\ id \in Range(streams'[s]) /\ Range(streams[s]) \subseteq Range(streams'[s])
        /\ \A l \in Listeners \ {s} : streams'[l] = streams[l]
    BY <1>6, StreamOpened
  <2>5. OneToken(s)'
    BY <1>3, <1>4, <2>2 DEF OneToken, Good
  <2>6. Awaited(s)'
    <3>1. ASSUME NEW n \in Range(toServer'[s]) \cup Range(toClient'[s]), Token(n)
          PROVE  n.stream \in DOMAIN pending'[s] /\ pending'[s][n.stream] = AwaitedAs(n)
      <4>1. CASE n = m
        BY <2>1, <2>3, <4>1
      <4>2. CASE n \in Range(toServer[s]) \cup Range(toClient[s])
        <5>1. n.stream # x
          BY <1>4, <3>1, <4>2 DEF About
        <5>2. n.stream \in DOMAIN pending[s] /\ pending[s][n.stream] = AwaitedAs(n)
          BY <1>3, <3>1, <4>2 DEF Awaited, Good
        <5> QED BY <2>3, <5>1, <5>2
      <4> QED BY <1>3, <2>2, <4>1, <4>2
    <3>2. ASSUME NEW y \in serving'[s] PROVE y \in DOMAIN pending'[s] /\ pending'[s][y] = "asked"
      <4>1. y # x /\ y \in DOMAIN pending[s] /\ pending[s][y] = "asked"
        BY <1>3, <1>4, <3>2 DEF Awaited, Good
      <4> QED BY <2>3, <4>1
    <3> QED BY <3>1, <3>2 DEF Awaited
  <2>7. Traced(s)'
    <3>1. Range(pending[s]) \subseteq Range(pending'[s]) \cup {id}
      BY <2>3 DEF Range, id
    <3>2. Closing(toServer[s]) \subseteq Closing(toServer'[s])
      BY <2>2 DEF Closing
    <3> QED BY <1>3, <2>4, <3>1, <3>2 DEF Traced, Traceable, Good
  <2>8. Good(s)'
    BY <2>5, <2>6, <2>7 DEF Good
  <2> QED BY <1>3, <2>2, <2>3, <2>4, <2>8, Untouched
<1> QED BY <1>1, <1>5, <1>6 DEF id

(* A reconciliation: it asks for one more stream, or ends with a request   *)
(* to close for each stream it drops.                                      *)
LEMMA AdvanceIsGood ==
  ASSUME SyncTypeOK, NEW s \in Listeners, Good(s), NEW todo \in SUBSET Streams, NEW expected,
         Advance(s, todo, expected), serving' = serving, consumers' = consumers,
         Single(toClient'[s]), Range(toClient'[s]) \subseteq Range(toClient[s]),
         Answered(toClient[s]) \subseteq Answered(toClient'[s])
  PROVE  /\ Good(s)'
         /\ \A l \in Listeners \ {s} :
              toServer'[l] = toServer[l] /\ pending'[l] = pending[l] /\ streams'[l] = streams[l]
<1> DEFINE unlisted == DOMAIN streams[s] \ expected
           closes == {Close(streams[s][x]) : x \in unlisted}
<1>1. CASE \E x \in todo : ~ Known(s, x) /\ AskFor(s, x) /\ UNCHANGED streams
  <2>1. PICK x \in todo : ~ Known(s, x) /\ AskFor(s, x) /\ UNCHANGED streams
    BY <1>1
  <2>2. x \in Streams /\ streams' = streams
    BY <2>1
  <2>3. Good(s)' /\ \A l \in Listeners \ {s} : toServer'[l] = toServer[l] /\ pending'[l] = pending[l]
    BY <2>1, <2>2, AskingIsGood
  <2> QED BY <2>2, <2>3
<1>2. CASE /\ streams' = [streams EXCEPT ![s] = Forget(@, unlisted)]
           /\ Send(s, SetToSeq(closes))
           /\ UNCHANGED pending
  <2>1. ASSUME NEW x \in unlisted
        PROVE  /\ Close(streams[s][x]) \in ToServer /\ ~ Token(Close(streams[s][x]))
               /\ Close(streams[s][x]).type = "close-consumer" /\ Close(streams[s][x]).id = streams[s][x]
    <3>1. streams[s][x] \in ConsumerIds
      BY DEF SyncTypeOK, Range
    <3> QED BY <3>1 DEF Close, ToServer, Token
  <2>2. closes \in SUBSET ToServer /\ \A m \in closes : ~ Token(m)
    BY <2>1
  <2>3. \A x \in unlisted : \E m \in closes : m.type = "close-consumer" /\ m.id = streams[s][x]
    BY <2>1
  <2> DEFINE q == SetToSeq(closes)
  <2>4. Send(s, q) /\ pending' = pending
    BY <1>2
  <2> HIDE DEF unlisted, closes
  <2>5. q \in Seq(ToServer) /\ Range(q) = closes
    BY <2>2, MessagesOf, MessagesAssumption
  <2> HIDE DEF q
  <2>6. \A m \in Range(q) : ~ Token(m)
    BY <2>2, <2>5
  <2>7. /\ OneToken(s)' /\ Awaited(s)'
        /\ Closing(toServer[s]) \subseteq Closing(toServer'[s])
        /\ \A m \in Range(q) : m.type = "close-consumer" => m.id \in Closing(toServer'[s])
        /\ \A l \in Listeners \ {s} : toServer'[l] = toServer[l]
    BY <2>4, <2>5, <2>6, OtherRequests
  <2>8. /\ \A y \in DOMAIN streams[s] \ unlisted : streams[s][y] \in Range(streams'[s])
        /\ \A l \in Listeners \ {s} : streams'[l] = streams[l]
    BY <1>2, StreamsForgotten
  <2>9. \A x \in unlisted : streams[s][x] \in Closing(toServer'[s])
    BY <2>3, <2>5, <2>7
  <2>10. Range(streams[s]) \subseteq Range(streams'[s]) \cup Closing(toServer'[s])
    BY <2>8, <2>9 DEF Range
  <2>11. Traced(s)'
    BY <2>4, <2>7, <2>10 DEF Traced, Traceable, Good
  <2>12. Good(s)'
    BY <2>7, <2>11 DEF Good
  <2> QED BY <2>4, <2>7, <2>8, <2>12
<1> QED BY <1>1, <1>2 DEF Advance

(* It starts with the answer to a list request, ...                        *)
LEMMA ListAnsweredIsGood ==
  ASSUME SyncTypeOK, \A l \in Listeners : Good(l), NEW s \in Listeners, ListAnswered(s)
  PROVE  \A l \in Listeners : Good(l)'
<1>1. Receive(s, "active-producers") /\ Good(s)
  BY DEF ListAnswered
<1>2. /\ Head(toClient[s]) \in ToClient /\ Head(toClient[s]).type = "active-producers"
      /\ Single(toClient'[s])
      /\ Range(toClient'[s]) \subseteq Range(toClient[s])
      /\ Answered(toClient[s]) \subseteq Answered(toClient'[s])
      /\ serving' = serving /\ consumers' = consumers
      /\ \A l \in Listeners \ {s} : toClient'[l] = toClient[l]
  BY <1>1, Received
<1>3. Head(toClient[s]).entries \in SUBSET Entries
  BY <1>2 DEF ToClient
<1>4. PICK todo \in SUBSET Streams, expected \in SUBSET Streams : Advance(s, todo, expected)
  BY <1>3 DEF ListAnswered, Entries
<1>5. /\ Good(s)'
      /\ \A l \in Listeners \ {s} :
           toServer'[l] = toServer[l] /\ pending'[l] = pending[l] /\ streams'[l] = streams[l]
  BY <1>1, <1>2, <1>4, AdvanceIsGood
<1> QED BY <1>2, <1>5, Untouched

(* ... goes on when what it awaited is settled, ...                        *)
LEMMA SyncOnIsGood ==
  ASSUME SyncTypeOK, \A l \in Listeners : Good(l), NEW s \in Listeners, SyncOn(s)
  PROVE  \A l \in Listeners : Good(l)'
<1>1. /\ Advance(s, sync[s].todo, sync[s].expected) /\ Good(s)
      /\ toClient' = toClient /\ serving' = serving /\ consumers' = consumers
  BY DEF SyncOn, vars, mediaVars
<1>2. sync[s].todo \in SUBSET Streams
  BY DEF SyncTypeOK, Runs
<1>3. Single(toClient'[s])
  BY <1>1 DEF Good, OneToken
<1>4. /\ Good(s)'
      /\ \A l \in Listeners \ {s} :
           toServer'[l] = toServer[l] /\ pending'[l] = pending[l] /\ streams'[l] = streams[l]
  BY <1>1, <1>2, <1>3, AdvanceIsGood
<1> QED BY <1>1, <1>4, Untouched

(* ... and is asked for by the interval timer.                             *)
LEMMA StartSyncIsGood ==
  ASSUME SyncTypeOK, \A l \in Listeners : Good(l), NEW s \in Listeners, StartSync(s)
  PROVE  \A l \in Listeners : Good(l)'
<1> DEFINE n == ListRequest
           q == <<n>>
<1>1. /\ Send(s, q) /\ Good(s)
      /\ toClient' = toClient /\ serving' = serving /\ consumers' = consumers
      /\ streams' = streams /\ pending' = pending
  BY DEF StartSync, vars, mediaVars
<1>2. n \in ToServer /\ ~ Token(n)
  BY DEF ListRequest, ToServer, Token
<1> HIDE DEF n
<1>3. q \in Seq(ToServer) /\ Range(q) = {n}
  BY <1>2, OneMessage
<1> HIDE DEF q
<1>4. \A m \in Range(q) : ~ Token(m)
  BY <1>2, <1>3
<1>5. Single(toClient'[s])
  BY <1>1 DEF Good, OneToken
<1>6. /\ OneToken(s)' /\ Awaited(s)'
      /\ Closing(toServer[s]) \subseteq Closing(toServer'[s])
      /\ \A l \in Listeners \ {s} : toServer'[l] = toServer[l]
  BY <1>1, <1>3, <1>4, <1>5, OtherRequests
<1>7. Traced(s)'
  BY <1>1, <1>6 DEF Traced, Traceable, Good
<1>8. Good(s)'
  BY <1>6, <1>7 DEF Good
<1> QED BY <1>1, <1>6, <1>8, Untouched

(***************************************************************************)
(* The steps of the server for one listener.                               *)
(***************************************************************************)
(* What a request that is served leaves.                                   *)
LEMMA Served ==
  ASSUME SyncTypeOK, NEW s \in Listeners, Good(s), toServer[s] # <<>>,
         toServer' = [toServer EXCEPT ![s] = Tail(@)]
  PROVE  /\ Head(toServer[s]) \in ToServer /\ Head(toServer[s]) \in Range(toServer[s])
         /\ Single(toServer'[s])
         /\ Range(toServer[s]) = Range(toServer'[s]) \cup {Head(toServer[s])}
         /\ About(toServer'[s]) \subseteq About(toServer[s])
         /\ Token(Head(toServer[s])) => Head(toServer[s]).stream \in About(toServer[s]) \ About(toServer'[s])
         /\ \A id \in Closing(toServer[s]) :
              id \in Closing(toServer'[s]) \/ (Head(toServer[s]).type = "close-consumer" /\ id = Head(toServer[s]).id)
         /\ \A l \in Listeners \ {s} : toServer'[l] = toServer[l]
<1> DEFINE q == toServer[s]
<1>1. /\ q \in Seq(ToServer) /\ q # <<>> /\ Single(q)
      /\ toServer' = [toServer EXCEPT ![s] = Tail(q)] /\ toServer \in [Listeners -> Seq(ToServer)]
  BY DEF SyncTypeOK, Good, OneToken
<1> HIDE DEF q
<1>2. /\ Single(Tail(q)) /\ Range(q) = Range(Tail(q)) \cup {Head(q)}
      /\ Head(q) \in ToServer /\ Tail(q) \in Seq(ToServer)
      /\ About(Tail(q)) \subseteq About(q)
      /\ Token(Head(q)) => Head(q).stream \in About(q) \ About(Tail(q))
  BY <1>1, TakeHead
<1>3. toServer'[s] = Tail(q) /\ \A l \in Listeners \ {s} : toServer'[l] = toServer[l]
  BY <1>1
<1>4. \A id \in Closing(q) : id \in Closing(Tail(q)) \/ (Head(q).type = "close-consumer" /\ id = Head(q).id)
  <2>1. ASSUME NEW m \in Range(q), m.type = "close-consumer"
        PROVE  m.id \in Closing(Tail(q)) \/ (Head(q).type = "close-consumer" /\ m.id = Head(q).id)
    <3>1. CASE m = Head(q)
      BY <1>1, <2>1, <3>1
    <3>2. CASE m \in Range(Tail(q))
      BY <2>1, <3>2 DEF Closing
    <3> QED BY <1>2, <3>1, <3>2
  <2> QED BY <2>1 DEF Closing
<1> QED BY <1>1, <1>2, <1>3, <1>4 DEF q

(* What an answer adds.                                                    *)
Says(s, m) == toClient' = [toClient EXCEPT ![s] = Append(@, m)]

LEMMA Told ==
  ASSUME SyncTypeOK, NEW s \in Listeners, Good(s), NEW m \in ToClient, Says(s, m),
         Token(m) => m.stream \notin About(toClient[s])
  PROVE  /\ Single(toClient'[s]) /\ Range(toClient'[s]) = Range(toClient[s]) \cup {m}
         /\ Token(m) => About(toClient'[s]) = About(toClient[s]) \cup {m.stream}
         /\ ~ Token(m) => About(toClient'[s]) = About(toClient[s])
         /\ Answered(toClient[s]) \subseteq Answered(toClient'[s])
         /\ m.type = "consumed" => m.id \in Answered(toClient'[s])
         /\ \A l \in Listeners \ {s} : toClient'[l] = toClient[l]
<1> DEFINE q == toClient[s]
           r == <<m>>
<1>1. /\ q \in Seq(ToClient) /\ Single(q) /\ toClient'[s] = Append(q, m)
      /\ \A l \in Listeners \ {s} : toClient'[l] = toClient[l]
  BY DEF SyncTypeOK, Good, OneToken, Says
<1>2. toClient'[s] = q \o r
  BY <1>1, AppendIsConcat
<1>3. /\ r \in Seq(ToClient) /\ Single(r) /\ Range(r) = {m}
      /\ About(r) = {n.stream : n \in {k \in {m} : Token(k)}}
  BY OneMessage
<1>4. (Token(m) => About(r) = {m.stream}) /\ (~ Token(m) => About(r) = {})
  BY <1>3
<1>5. About(q) \cap About(r) = {}
  BY <1>4
<1> HIDE DEF q, r
<1>6. /\ Single(q \o r) /\ Range(q \o r) = Range(q) \cup Range(r)
      /\ About(q \o r) = About(q) \cup About(r)
  BY <1>1, <1>3, <1>5, PutAtEnd
<1>7. Range(toClient'[s]) = Range(q) \cup {m}
  BY <1>2, <1>3, <1>6
<1>8. Answered(q) \subseteq Answered(toClient'[s]) /\ (m.type = "consumed" => m.id \in Answered(toClient'[s]))
  BY <1>7 DEF Answered
<1> QED BY <1>1, <1>2, <1>4, <1>6, <1>7, <1>8 DEF q

(* The token moves on: from the request to the server's work or to its     *)
(* refusal, and from the request to resume to its answer.                  *)
LEMMA TokenMovesOn ==
  ASSUME SyncTypeOK, NEW s \in Listeners, Good(s), NEW m \in ToServer, NEW n \in ToClient,
         m = Head(toServer[s]), toServer[s] # <<>>, toServer' = [toServer EXCEPT ![s] = Tail(@)],
         Token(m), Token(n), m.stream = n.stream, AwaitedAs(m) = AwaitedAs(n),
         Says(s, n),
         serving' = serving, pending' = pending, streams' = streams, consumers' = consumers
  PROVE  \A l \in Listeners : Good(l) => Good(l)'
<1> DEFINE x == m.stream
<1>1. /\ m \in Range(toServer[s]) /\ Single(toServer'[s])
      /\ Range(toServer'[s]) \subseteq Range(toServer[s])
      /\ About(toServer'[s]) \subseteq About(toServer[s])
      /\ x \in About(toServer[s]) \ About(toServer'[s])
      /\ \A id \in Closing(toServer[s]) : id \in Closing(toServer'[s]) \/ m.type = "close-consumer"
      /\ \A l \in Listeners \ {s} : toServer'[l] = toServer[l]
  BY Served
<1>2. x \notin About(toClient[s]) \cup serving[s]
  BY <1>1 DEF Good, OneToken
<1>3. /\ Single(toClient'[s]) /\ Range(toClient'[s]) = Range(toClient[s]) \cup {n}
      /\ About(toClient'[s]) = About(toClient[s]) \cup {x}
      /\ Answered(toClient[s]) \subseteq Answered(toClient'[s])
      /\ \A l \in Listeners \ {s} : toClient'[l] = toClient[l]
  <2>1. n.stream = x /\ x \notin About(toClient[s])
    BY <1>2
  <2> HIDE DEF x
  <2> QED BY <2>1, Told
<1>4. x \in DOMAIN pending[s] /\ pending[s][x] = AwaitedAs(n)
  BY <1>1 DEF Good, Awaited
<1>5. Closing(toServer[s]) \subseteq Closing(toServer'[s])
  <2>1. m.type # "close-consumer"
    BY DEF Token
  <2> QED BY <1>1, <2>1
<1>6. OneToken(s)'
  BY <1>1, <1>2, <1>3 DEF OneToken, Good
<1>7. Awaited(s)'
  <2>1. ASSUME NEW k \in Range(toServer'[s]) \cup Range(toClient'[s]), Token(k)
        PROVE  k.stream \in DOMAIN pending'[s] /\ pending'[s][k.stream] = AwaitedAs(k)
    <3>1. CASE k = n
      BY <1>4, <3>1
    <3>2. CASE k \in Range(toServer[s]) \cup Range(toClient[s])
      BY <2>1, <3>2 DEF Awaited, Good
    <3> QED BY <1>1, <1>3, <3>1, <3>2
  <2> QED BY <2>1 DEF Awaited, Good
<1>8. Traced(s)'
  BY <1>3, <1>5 DEF Traced, Traceable, Good
<1>9. Good(s)'
  BY <1>6, <1>7, <1>8 DEF Good
<1> QED BY <1>1, <1>3, <1>9, Untouched

(* A request to consume is refused, or taken up: the token goes to the     *)
(* server's work, which closes the consumer the listener had.              *)
LEMMA ServeConsumeIsGood ==
  ASSUME SyncTypeOK, \A l \in Listeners : Good(l), NEW s \in Listeners, ServeConsume(s)
  PROVE  \A l \in Listeners : Good(l)'
<1> DEFINE m == Head(toServer[s])
           x == m.stream
<1>1. /\ toServer[s] # <<>> /\ m.type = "consume" /\ Good(s)
      /\ toServer' = [toServer EXCEPT ![s] = Tail(@)]
      /\ pending' = pending /\ streams' = streams
  BY DEF ServeConsume, clientVars
<1>2. x \in Streams /\ m \in ToServer
  BY <1>1, RequestsNameStreams
<1>3. Token(m) /\ AwaitedAs(m) = "asked"
  BY <1>1 DEF Token, AwaitedAs
<1>4. CASE Says(s, Refusal(x)) /\ serving' = serving /\ UNCHANGED vars
  <2> DEFINE n == Refusal(x)
  <2>1. n \in ToClient /\ Token(n) /\ n.stream = x /\ AwaitedAs(n) = "asked"
    BY <1>2 DEF Refusal, ToClient, Token, AwaitedAs
  <2>2. consumers' = consumers /\ Says(s, n)
    BY <1>4 DEF vars, mediaVars
  <2> HIDE DEF n, m
  <2>3. m = Head(toServer[s])
    BY DEF m
  <2>4. \A l \in Listeners : Good(l) => Good(l)'
    BY <1>1, <1>2, <1>3, <1>4, <2>1, <2>2, <2>3, TokenMovesOn
  <2> QED BY <2>4
<1>5. CASE /\ ConsumeStart(s, x[2]) /\ toClient' = toClient
           /\ serving' = [serving EXCEPT ![s] = @ \cup {x}]
  <2>1. consumers' \subseteq consumers
    BY <1>5 DEF ConsumeStart
  <2>2. serving'[s] = serving[s] \cup {x} /\ \A l \in Listeners \ {s} : serving'[l] = serving[l]
    BY <1>5 DEF SyncTypeOK
  <2>3. /\ m \in Range(toServer[s]) /\ Single(toServer'[s])
        /\ Range(toServer'[s]) \subseteq Range(toServer[s])
        /\ About(toServer'[s]) \subseteq About(toServer[s])
        /\ x \in About(toServer[s]) \ About(toServer'[s])
        /\ Closing(toServer[s]) \subseteq Closing(toServer'[s])
        /\ \A l \in Listeners \ {s} : toServer'[l] = toServer[l]
    BY <1>1, <1>3, Served
  <2>4. x \notin About(toClient[s])
    BY <2>3 DEF Good, OneToken
  <2>5. x \in DOMAIN pending[s] /\ pending[s][x] = "asked"
    BY <1>1, <1>3, <2>3 DEF Good, Awaited
  <2>6. OneToken(s)'
    BY <1>1, <1>5, <2>2, <2>3, <2>4 DEF OneToken, Good
  <2>7. Awaited(s)'
    BY <1>1, <1>5, <2>2, <2>3, <2>5 DEF Awaited, Good
  <2>8. Traced(s)'
    BY <1>1, <1>5, <2>1, <2>3 DEF Traced, Traceable, Good
  <2>9. Good(s)'
    BY <2>6, <2>7, <2>8 DEF Good
  <2> QED BY <1>1, <1>5, <2>1, <2>2, <2>3, <2>9, Untouched
<1> QED BY <1>4, <1>5 DEF ServeConsume, Says

(* A consumer is resumed.                                                  *)
LEMMA ServeResumeIsGood ==
  ASSUME SyncTypeOK, \A l \in Listeners : Good(l), NEW s \in Listeners, ServeResume(s)
  PROVE  \A l \in Listeners : Good(l)'
<1> DEFINE m == Head(toServer[s])
           n == Resumed(m.stream)
<1>1. /\ toServer[s] # <<>> /\ m.type = "resume-consumer" /\ Good(s)
      /\ toServer' = [toServer EXCEPT ![s] = Tail(@)] /\ Says(s, n)
      /\ serving' = serving /\ pending' = pending /\ streams' = streams /\ consumers' = consumers
  BY DEF ServeResume, clientVars, vars, mediaVars, Says
<1>2. m.stream \in Streams /\ m \in ToServer
  BY <1>1, RequestsNameStreams
<1>3. Token(m) /\ AwaitedAs(m) = "resuming"
  BY <1>1 DEF Token, AwaitedAs
<1>4. n \in ToClient /\ Token(n) /\ n.stream = m.stream /\ AwaitedAs(n) = "resuming"
  BY <1>2 DEF Resumed, ToClient, Token, AwaitedAs
<1> HIDE DEF n, m
<1>5. m = Head(toServer[s])
  BY DEF m
<1>6. \A l \in Listeners : Good(l) => Good(l)'
  BY <1>1, <1>2, <1>3, <1>4, <1>5, TokenMovesOn
<1> QED BY <1>6

(* A consumer is closed: it is the only one with its id.                   *)
LEMMA ServeCloseIsGood ==
  ASSUME SyncTypeOK, UniqueIds, \A l \in Listeners : Good(l), NEW s \in Listeners, ServeClose(s)
  PROVE  (\A l \in Listeners : Good(l)') /\ consumers' \subseteq consumers
<1> DEFINE m == Head(toServer[s])
<1>1. /\ toServer[s] # <<>> /\ m.type = "close-consumer" /\ Good(s)
      /\ toServer' = [toServer EXCEPT ![s] = Tail(@)]
      /\ toClient' = toClient /\ serving' = serving /\ pending' = pending /\ streams' = streams
  BY DEF ServeClose, clientVars
<1>2. /\ Single(toServer'[s]) /\ Range(toServer'[s]) \subseteq Range(toServer[s])
      /\ About(toServer'[s]) \subseteq About(toServer[s])
      /\ \A id \in Closing(toServer[s]) : id \in Closing(toServer'[s]) \/ id = m.id
      /\ \A l \in Listeners \ {s} : toServer'[l] = toServer[l]
  BY <1>1, Served
<1>3. consumers' \subseteq consumers /\ \A c \in consumers' : c.to = s => c.id # m.id
  <2>1. CASE \E c \in consumers : c.to = s /\ c.id = m.id
    <3>1. PICK d \in consumers : d.to = s /\ d.id = m.id /\ consumers' = consumers \ {d}
      BY <2>1 DEF ServeClose, CloseConsumer
    <3> QED BY <3>1 DEF UniqueIds
  <2>2. CASE ~ \E c \in consumers : c.to = s /\ c.id = m.id
    <3>1. consumers' = consumers
      BY <2>2 DEF ServeClose, vars, mediaVars
    <3> QED BY <2>2, <3>1
  <2> QED BY <2>1, <2>2
<1>4. OneToken(s)'
  BY <1>1, <1>2 DEF OneToken, Good
<1>5. Awaited(s)'
  BY <1>1, <1>2 DEF Awaited, Good
<1>6. Traced(s)'
  BY <1>1, <1>2, <1>3 DEF Traced, Traceable, Good
<1>7. Good(s)'
  BY <1>4, <1>5, <1>6 DEF Good
<1> QED BY <1>1, <1>2, <1>3, <1>7, Untouched

(* The active streams are listed.                                          *)
LEMMA ServeListIsGood ==
  ASSUME SyncTypeOK, SyncTypeOK', \A l \in Listeners : Good(l), NEW s \in Listeners, ServeList(s)
  PROVE  \A l \in Listeners : Good(l)'
<1> DEFINE m == Head(toServer[s])
           n == Active(UNION {Entry(p, s) : p \in Producers})
<1>1. /\ toServer[s] # <<>> /\ m.type = "request-active-producers" /\ Good(s)
      /\ toServer' = [toServer EXCEPT ![s] = Tail(@)] /\ Says(s, n)
      /\ serving' = serving /\ pending' = pending /\ streams' = streams /\ consumers' = consumers
  BY DEF ServeList, clientVars, vars, mediaVars, Says
<1>2. /\ Single(toServer'[s]) /\ Range(toServer'[s]) \subseteq Range(toServer[s])
      /\ About(toServer'[s]) \subseteq About(toServer[s])
      /\ Closing(toServer[s]) \subseteq Closing(toServer'[s])
      /\ \A l \in Listeners \ {s} : toServer'[l] = toServer[l]
  BY <1>1, Served
<1>3. n.type = "active-producers" /\ ~ Token(n)
  BY DEF Active, Token
<1> HIDE DEF n
<1>4. n \in ToClient
  <2> DEFINE q == toClient[s]
  <2>1. q \in Seq(ToClient) /\ toClient'[s] = Append(q, n) /\ toClient'[s] \in Seq(ToClient)
    BY <1>1 DEF SyncTypeOK, Says
  <2> HIDE DEF q
  <2>2. Append(q, n) \in Seq(ToClient) /\ Len(q) + 1 \in 1 .. Len(Append(q, n)) /\ Append(q, n)[Len(q) + 1] = n
    BY <2>1
  <2> QED BY <2>2, ElementOfSeq
<1>5. /\ Single(toClient'[s]) /\ Range(toClient'[s]) = Range(toClient[s]) \cup {n}
      /\ About(toClient'[s]) = About(toClient[s])
      /\ Answered(toClient[s]) \subseteq Answered(toClient'[s])
      /\ \A l \in Listeners \ {s} : toClient'[l] = toClient[l]
  BY <1>1, <1>3, <1>4, Told
<1>6. OneToken(s)'
  BY <1>1, <1>2, <1>5 DEF OneToken, Good
<1>7. Awaited(s)'
  BY <1>1, <1>2, <1>3, <1>5 DEF Awaited, Good
<1>8. Traced(s)'
  BY <1>1, <1>2, <1>5 DEF Traced, Traceable, Good
<1>9. Good(s)'
  BY <1>6, <1>7, <1>8 DEF Good
<1> QED BY <1>1, <1>2, <1>5, <1>9, Untouched

(* The server's work ends in an answer, for a consumer with a new id.      *)
LEMMA FinishConsumeIsGood ==
  ASSUME SyncTypeOK, UniqueIds, \A l \in Listeners : Good(l), NEW s \in Listeners, FinishConsume(s)
  PROVE  (\A l \in Listeners : Good(l)') /\ UniqueIds'
<1>1. PICK x \in serving[s], id \in ConsumerIds :
        /\ ConsumeDone(s, x[2], id)
        /\ Says(s, Answer(x, id))
        /\ serving' = [serving EXCEPT ![s] = @ \ {x}]
        /\ UNCHANGED <<toServer, clientVars>>
  BY DEF FinishConsume, Says
<1> DEFINE d == [id |-> id, to |-> s, of |-> x[2]]
           n == Answer(x, id)
<1>2. consumers' = consumers \cup {d} /\ d.id = id /\ d.to = s /\ \A c \in consumers : c.id # id
  BY <1>1 DEF ConsumeDone
<1>3. UniqueIds'
  BY <1>2 DEF UniqueIds
<1>4. /\ Good(s) /\ toServer' = toServer /\ streams' = streams /\ pending' = pending
      /\ serving'[s] = serving[s] \ {x} /\ \A l \in Listeners \ {s} : serving'[l] = serving[l]
  BY <1>1 DEF SyncTypeOK, clientVars
<1>5. n \in ToClient /\ Token(n) /\ AwaitedAs(n) = "asked" /\ n.stream = x /\ n.type = "consumed" /\ n.id = id
  BY DEF SyncTypeOK, Answer, ToClient, Token, AwaitedAs
<1>6. x \notin About(toClient[s]) \cup About(toServer[s]) /\ x \in DOMAIN pending[s] /\ pending[s][x] = "asked"
  BY <1>4 DEF Good, OneToken, Awaited
<1> HIDE DEF d, n
<1>7. /\ Single(toClient'[s]) /\ Range(toClient'[s]) = Range(toClient[s]) \cup {n}
      /\ About(toClient'[s]) = About(toClient[s]) \cup {x}
      /\ Answered(toClient[s]) \cup {id} \subseteq Answered(toClient'[s])
      /\ \A l \in Listeners \ {s} : toClient'[l] = toClient[l]
  <2>1. Says(s, n)
    BY <1>1 DEF n
  <2> QED BY <1>4, <1>5, <1>6, <2>1, Told
<1>8. OneToken(s)'
  BY <1>4, <1>6, <1>7 DEF OneToken, Good
<1>9. Awaited(s)'
  BY <1>4, <1>5, <1>6, <1>7 DEF Awaited, Good
<1>10. Traced(s)'
  BY <1>2, <1>4, <1>7 DEF Traced, Traceable, Good
<1>11. Good(s)'
  BY <1>8, <1>9, <1>10 DEF Good
<1>12. \A l \in Listeners \ {s} : \A c \in consumers' : c.to = l => c \in consumers
  BY <1>2
<1> QED BY <1>3, <1>4, <1>7, <1>11, <1>12, Untouched

(***************************************************************************)
(* The other steps of the server.                                          *)
(***************************************************************************)
(* They open no consumer.                                                  *)
LEMMA EnvironmentOpensNothing == Environment => consumers' \subseteq consumers
<1> USE DEF Sync, DropMedia, mediaVars, vars
<1>1. ASSUME NEW s \in Sockets, Connecting(s) PROVE consumers' \subseteq consumers
  BY <1>1 DEF Connecting, Connect, Disconnect
<1>2. ASSUME NEW s \in Sockets, Registering(s) PROVE consumers' \subseteq consumers
  BY <1>2 DEF Registering, RegisterUser
<1>3. ASSUME NEW s \in Sockets, SwitchingProduction(s) PROVE consumers' \subseteq consumers
  BY <1>3 DEF SwitchingProduction, SetActiveProduction
<1>4. ASSUME NEW s \in Sockets, Talking(s) PROVE consumers' \subseteq consumers
  BY <1>4 DEF Talking, TalkTargetsUpdated, PttState, ForceStopBegin, ForceStopEnd, ProduceStart
<1>5. ASSUME NEW p \in Producers, Producing(p) \/ Resuming(p) PROVE consumers' \subseteq consumers
  BY <1>5 DEF Producing, Resuming, ProduceDone, HookListeners, PauseProducer, ProducerClose, ResumeProducer
<1>6. ASSUME Administering PROVE consumers' \subseteq consumers
  BY <1>6 DEF Administering, EditMatrix, SetMultipleProductions
<1> QED BY <1>1, <1>2, <1>3, <1>4, <1>5, <1>6 DEF Environment

(* A listener that stays connected is told of closed consumers, of new     *)
(* deliveries and of the requests that failed.                             *)
LEMMA ConnectedIsGood ==
  ASSUME TypeOK, TypeOK', SyncTypeOK, NEW forced, Server(forced), consumers' \subseteq consumers,
         NEW s \in Listeners, Good(s), link'[s] = "open"
  PROVE  Good(s)'
<1> DEFINE a == SetToSeq(Closings(s))
           b == SetToSeq(Offers(s, forced))
           R == {Refusal(x) : x \in Refused(s)}
           c == SetToSeq(R)
           q == toClient[s]
<1>1. /\ toClient'[s] = q \o a \o b \o c /\ serving'[s] = serving[s] \ Refused(s)
      /\ toServer'[s] = toServer[s] /\ streams'[s] = streams[s] /\ pending'[s] = pending[s]
  BY DEF Server, Emit, DropClients
<1>2. Closings(s) \in SUBSET ToClient /\ \A m \in Closings(s) : ~ Token(m)
  BY DEF Closings, Closed, ToClient, TypeOK, Consumer, Token
<1>3. Offers(s, forced) \in SUBSET ToClient /\ \A m \in Offers(s, forced) : ~ Token(m)
  <2>1. ASSUME NEW r \in Producers, deliveries'[r][s] # None
        PROVE  <<deliveries'[r][s], r>> \in Streams
    BY <2>1, RolesAssumption DEF TypeOK, Streams
  <2> QED BY <2>1 DEF Offers, Offer, ToClient, Token
<1>4. Refused(s) \subseteq serving[s] /\ Refused(s) \subseteq Streams
  BY DEF Refused, SyncTypeOK
<1>5. \A x \in Refused(s) : /\ Refusal(x) \in ToClient /\ Token(Refusal(x)) /\ Refusal(x).stream = x
                            /\ AwaitedAs(Refusal(x)) = "asked"
  BY <1>4 DEF Refusal, ToClient, Token, AwaitedAs
<1>6. R \in SUBSET ToClient /\ \A m, n \in R : m.stream = n.stream => m = n
  BY <1>5
<1>7. /\ \A m \in R : m.stream \in Refused(s) /\ AwaitedAs(m) = "asked" /\ Token(m)
  BY <1>5
<1> HIDE DEF R
<1>8. a \in Seq(ToClient) /\ Single(a) /\ Range(a) = Closings(s)
  BY <1>2, MessagesOf, MessagesAssumption
<1>9. b \in Seq(ToClient) /\ Single(b) /\ Range(b) = Offers(s, forced)
  BY <1>3, MessagesOf, MessagesAssumption
<1>10. c \in Seq(ToClient) /\ Single(c) /\ Range(c) = R
  BY <1>6, MessagesOf, MessagesAssumption
<1>11. q \in Seq(ToClient) /\ Single(q)
  BY DEF SyncTypeOK, Good, OneToken
<1> HIDE DEF a, b, c, q
<1>12. About(a) = {} /\ About(b) = {} /\ About(c) \subseteq Refused(s)
  BY <1>2, <1>3, <1>7, <1>8, <1>9, <1>10 DEF About
<1>13. About(q) \cap Refused(s) = {} /\ About(toServer[s]) \cap Refused(s) = {}
  BY <1>4 DEF Good, OneToken, q
<1>14. /\ q \o a \in Seq(ToClient) /\ Single(q \o a) /\ Range(q \o a) = Range(q) \cup Range(a)
       /\ About(q \o a) = About(q) \cup About(a)
  <2>1. About(q) \cap About(a) = {}
    BY <1>12
  <2> QED BY <1>8, <1>11, <2>1, PutAtEnd
<1> DEFINE qa == q \o a
<1> HIDE DEF qa
<1>15. qa \in Seq(ToClient) /\ Single(qa) /\ Range(qa) = Range(q) \cup Range(a) /\ About(qa) = About(q)
  BY <1>12, <1>14 DEF qa
<1>16. /\ qa \o b \in Seq(ToClient) /\ Single(qa \o b) /\ Range(qa \o b) = Range(qa) \cup Range(b)
       /\ About(qa \o b) = About(qa) \cup About(b)
  <2>1. About(qa) \cap About(b) = {}
    BY <1>12
  <2> QED BY <1>9, <1>15, <2>1, PutAtEnd
<1> DEFINE qab == qa \o b
<1> HIDE DEF qab
<1>17. /\ qab \in Seq(ToClient) /\ Single(qab) /\ Range(qab) = Range(q) \cup Range(a) \cup Range(b)
       /\ About(qab) = About(q)
  BY <1>12, <1>15, <1>16 DEF qab
<1>18. About(qab) \cap About(c) = {}
  BY <1>12, <1>13, <1>17
<1>19. /\ Single(qab \o c) /\ Range(qab \o c) = Range(qab) \cup Range(c)
       /\ About(qab \o c) = About(qab) \cup About(c)
  BY <1>10, <1>17, <1>18, PutAtEnd
<1>20. /\ Single(toClient'[s]) /\ Range(toClient'[s]) = Range(q) \cup Closings(s) \cup Offers(s, forced) \cup R
       /\ About(toClient'[s]) = About(q) \cup About(c)
  BY <1>1, <1>8, <1>9, <1>10, <1>17, <1>19 DEF qab, qa
<1>21. OneToken(s)'
  BY <1>1, <1>12, <1>13, <1>20 DEF OneToken, Good, q
<1>22. Awaited(s)'
  <2>1. ASSUME NEW m \in Range(toServer'[s]) \cup Range(toClient'[s]), Token(m)
        PROVE  m.stream \in DOMAIN pending'[s] /\ pending'[s][m.stream] = AwaitedAs(m)
    <3>1. CASE m \in R
      <4>1. m.stream \in serving[s] /\ AwaitedAs(m) = "asked"
        BY <1>4, <1>7, <3>1
      <4> QED BY <1>1, <4>1 DEF Awaited, Good
    <3>2. CASE m \in Range(toServer[s]) \cup Range(q)
      BY <1>1, <2>1, <3>2 DEF Awaited, Good, q
    <3>3. CASE m \in Closings(s) \cup Offers(s, forced)
      BY <1>2, <1>3, <2>1, <3>3
    <3> QED BY <1>1, <1>20, <3>1, <3>2, <3>3
  <2>2. \A y \in serving'[s] : y \in DOMAIN pending'[s] /\ pending'[s][y] = "asked"
    BY <1>1 DEF Awaited, Good
  <2> QED BY <2>1, <2>2 DEF Awaited
<1>23. Traced(s)'
  <2>1. Answered(q) \subseteq Answered(toClient'[s])
    BY <1>20 DEF Answered
  <2> QED BY <1>1, <2>1 DEF Traced, Traceable, Good, q
<1> QED BY <1>21, <1>22, <1>23 DEF Good

(* One that is not connected has nothing left.                             *)
LEMMA DisconnectedIsGood ==
  ASSUME TypeOK', Bookkeeping', ConsumersHaveLiveEnds', SyncTypeOK, NEW forced, Server(forced),
         NEW s \in Listeners, link'[s] # "open"
  PROVE  Good(s)'
<1>1. /\ toClient'[s] = <<>> /\ toServer'[s] = <<>> /\ streams'[s] = <<>> /\ pending'[s] = <<>>
      /\ serving'[s] = serving[s] \ Refused(s)
  BY DEF Server, Emit, DropClients
<1>2. ASSUME NEW x \in serving[s] PROVE x \in Refused(s)
  <2>1. x[2] \in Producers /\ s \in Sockets
    BY RolesAssumption DEF SyncTypeOK, Streams
  <2>2. consuming'[x[2]][s] \in 0 .. MaxPending /\ ~ (consuming'[x[2]][s] > 0)
    BY <2>1 DEF TypeOK, Bookkeeping
  <2>3. consuming'[x[2]][s] = 0
    BY <2>2, RoutingAssumption
  <2> QED BY <2>3 DEF Refused
<1>3. serving'[s] = {}
  BY <1>1, <1>2
<1>4. \A c \in consumers' : c.to # s
  BY DEF ConsumersHaveLiveEnds
<1>5. Range(<<>>) = {} /\ DOMAIN <<>> = {}
  BY DEF Range
<1>6. OneToken(s)'
  BY <1>1, <1>3, <1>5 DEF OneToken, Single, About
<1>7. Awaited(s)'
  BY <1>1, <1>3, <1>5 DEF Awaited
<1>8. Traced(s)'
  BY <1>4 DEF Traced
<1> QED BY <1>6, <1>7, <1>8 DEF Good

(***************************************************************************)
(* The invariant and the theorem.                                          *)
(***************************************************************************)
(* Every step keeps every token single and every consumer traceable.       *)
LEMMA LeakStep ==
  IInv /\ IInv' /\ SyncTypeOK /\ SyncTypeOK' /\ LeakInv /\ [SyncNextState]_allVars => LeakInv'
<1> SUFFICES ASSUME IInv, IInv', SyncTypeOK, SyncTypeOK', LeakInv, [SyncNextState]_allVars
             PROVE  LeakInv'
  OBVIOUS
<1> USE DEF LeakInv
<1>1. UniqueIds /\ \A l \in Listeners : Good(l)
  OBVIOUS
<1>2. TypeOK /\ TypeOK' /\ Bookkeeping' /\ ConsumersHaveLiveEnds'
  BY DEF IInv
<1>3. ASSUME consumers' \subseteq consumers PROVE UniqueIds'
  BY <1>1, <1>3 DEF UniqueIds
<1>4. ASSUME Environment PROVE LeakInv'
  <2>1. PICK forced : Server(forced)
    BY <1>4 DEF Environment, Connecting, Registering, SwitchingProduction, Talking, Producing,
         Resuming, Administering
  <2>2. consumers' \subseteq consumers
    BY <1>4, EnvironmentOpensNothing
  <2>3. \A l \in Listeners : Good(l)'
    BY <1>1, <1>2, <2>1, <2>2, ConnectedIsGood, DisconnectedIsGood
  <2> QED BY <1>3, <2>2, <2>3
<1>5. ASSUME NEW s \in Listeners, ServerTurn(s) PROVE LeakInv'
  <2>1. CASE ServeConsume(s)
    <3>1. consumers' \subseteq consumers
      BY <2>1 DEF ServeConsume, ConsumeStart, vars, mediaVars
    <3> QED BY <1>1, <1>3, <2>1, <3>1, ServeConsumeIsGood
  <2>2. CASE ServeResume(s)
    <3>1. consumers' = consumers
      BY <2>2 DEF ServeResume, vars, mediaVars
    <3> QED BY <1>1, <1>3, <2>2, <3>1, ServeResumeIsGood
  <2>3. CASE ServeClose(s)
    BY <1>1, <1>3, <2>3, ServeCloseIsGood
  <2>4. CASE ServeList(s)
    <3>1. consumers' = consumers
      BY <2>4 DEF ServeList, vars, mediaVars
    <3> QED BY <1>1, <1>3, <2>4, <3>1, ServeListIsGood
  <2> QED BY <1>5, <2>1, <2>2, <2>3, <2>4 DEF ServerTurn
<1>6. ASSUME NEW s \in Listeners, FinishConsume(s) PROVE LeakInv'
  BY <1>1, <1>6, FinishConsumeIsGood
<1>7. ASSUME NEW s \in Listeners, ClientTurn(s) \/ OpenStream(s) \/ StartSync(s) \/ SyncOn(s)
      PROVE  LeakInv'
  <2>1. consumers' = consumers
    BY <1>7 DEF ClientTurn, NewProducer, ConsumerClosed, ListAnswered, ConsumeAnswered, ConsumeRefused,
         ConsumerResumed, Receive, OpenStream, StartSync, SyncOn, vars, mediaVars
  <2>2. \A l \in Listeners : Good(l)'
    BY <1>1, <1>2, <1>7, NewProducerIsGood, ConsumerClosedIsGood, ListAnsweredIsGood, AnswersAreGood,
       OpenStreamIsGood, StartSyncIsGood, SyncOnIsGood DEF ClientTurn
  <2> QED BY <1>3, <2>1, <2>2
<1>8. CASE UNCHANGED allVars
  <2>1. /\ UNCHANGED <<consumers, toClient, toServer, serving, streams, pending>>
    BY <1>8 DEF allVars, netVars, clientVars, vars, mediaVars
  <2>2. \A l \in Listeners : Good(l)'
    BY <1>1, <2>1, Untouched
  <2> QED BY <1>3, <2>1, <2>2
<1> QED BY <1>4, <1>5, <1>6, <1>7, <1>8 DEF SyncNextState

(* No consumer leaks, for any number of listeners, speakers, targets,      *)
(* consumer ids and messages on their way: once nothing of a listener is   *)
(* on its way, its client knows every consumer the server runs for it      *)
(* (requestActiveProducers, closeConsumer in public/client.js against      *)
(* consume and close-consumer of serverCore.js).                           *)
THEOREM NoConsumerLeaks == SyncSpec => []NothingLeaks
<1>1. SyncInit => LeakInv
  <2> SUFFICES ASSUME SyncInit PROVE LeakInv
    OBVIOUS
  <2>1. consumers = {}
    BY DEF SyncInit, Init
  <2>2. ASSUME NEW s \in Listeners PROVE Good(s)
    <3>1. /\ toClient[s] = <<>> /\ toServer[s] = <<>> /\ serving[s] = {}
      BY DEF SyncInit
    <3>2. Range(<<>>) = {} /\ DOMAIN <<>> = {}
      BY DEF Range
    <3>3. OneToken(s)
      BY <3>1, <3>2 DEF OneToken, Single, About
    <3>4. Awaited(s)
      BY <3>1, <3>2 DEF Awaited
    <3> QED BY <2>1, <3>3, <3>4 DEF Good, Traced
  <2> QED BY <2>1, <2>2 DEF LeakInv, UniqueIds
<1>2. LeakInv => NothingLeaks
  <2> SUFFICES ASSUME LeakInv, NEW s \in Listeners, Quiet(s), NEW c \in consumers, c.to = s
               PROVE  c.id \in Range(streams[s])
    BY DEF NothingLeaks
  <2>1. c.id \in Traceable(s)
    BY DEF LeakInv, Good, Traced
  <2>2. Range(<<>>) = {}
    BY DEF Range
  <2> QED BY <2>1, <2>2 DEF Traceable, Quiet, Answered, Closing
<1> QED BY <1>1, <1>2, SyncInvariant, LeakStep, PTL DEF SyncSpec

==============================================================================
