----------------------- MODULE AtomicExecutor_proofs -----------------------
(***************************************************************************)
(* Proofs about the executor for every number of executions and exchanges, *)
(* every route, amount, price, budget and threshold: type correctness, the *)
(* mutual exclusion of two executions on one exchange, and what an         *)
(* execution has done when it returns.                                     *)
(***************************************************************************)
EXTENDS AtomicExecutor, TLAPS

-----------------------------------------------------------------------------
(* Lemmas about the operators the executor is built from.                  *)

\* The legs of an execution trade on exchanges the engine knows.
LEMMA VenuesType ==
  ASSUME NEW e \in Executions
  PROVE  Venues(e) \subseteq Exchanges /\ \A l \in Legs : Venue[e][l] \in Venues(e)
  BY ConstantsAssumption DEF Venues, Legs

\* A product of natural numbers is one.
LEMMA ProductNat == ASSUME NEW a \in Nat, NEW b \in Nat PROVE a * b \in Nat
  OBVIOUS

\* Flooring an amount to a lot step leaves a natural number.
LEMMA FlooredNat ==
  ASSUME NEW a \in Nat, NEW s \in Nat, s > 0
  PROVE  (a \div s) * s \in Nat
  OBVIOUS

\* What an execution reserves is a natural number.
LEMMA NeedType == ASSUME NEW e \in Executions PROVE Need(e) \in Nat
<1>1. Amount[e] \in Nat /\ Price[e] \in Nat
  BY ConstantsAssumption
<1>2. (IF e \in Cross THEN 1 ELSE 2) * Amount[e] \in Nat
  BY <1>1, ProductNat
<1>3. (IF e \in Cross THEN 1 ELSE 2) * Amount[e] * Price[e] \in Nat
  BY <1>1, <1>2, ProductNat
<1> QED BY <1>3 DEF Need

\* release() leaves a sequence of reservations, whether or not it pops one.
LEMMA WithoutReservationType ==
  ASSUME NEW m \in Seq(Nat), NEW usd \in Nat
  PROVE  WithoutReservation(m, usd) \in Seq(Nat)
<1> DEFINE popped(k) == \E j \in 1..k : m[j] = usd
           rest == [k \in 1..(Len(m) - 1) |-> IF popped(k) THEN m[k + 1] ELSE m[k]]
<1>1. CASE popped(Len(m))
  <2>1. Len(m) \in Nat /\ Len(m) # 0
    BY <1>1
  <2>2. \A k \in 1..(Len(m) - 1) : rest[k] \in Nat
    BY <2>1
  <2>3. rest \in [1..(Len(m) - 1) -> Nat]
    BY <2>2
  <2>4. rest \in Seq(Nat)
    BY <2>1, <2>3
  <2> QED BY <1>1, <2>4 DEF WithoutReservation
<1>2. CASE ~popped(Len(m))
  BY <1>2 DEF WithoutReservation
<1> QED BY <1>1, <1>2

\* check_and_reserve() leaves a sequence of reservations.
LEMMA WithReservationType ==
  ASSUME NEW m \in Seq(Nat), NEW usd \in Nat
  PROVE  WithReservation(m, usd) \in Seq(Nat)
  BY DEF WithReservation

\* An order is filled by a natural number of units.
LEMMA FillableType ==
  ASSUME NEW e \in Executions, NEW l \in Legs, legs[e][l] \in LegRecord
  PROVE  Fillable(e, l) \subseteq Nat
<1>1. legs[e][l].qty \in Nat
  BY DEF LegRecord
<1>2. Fills(legs[e][l].qty) \subseteq Nat
  BY <1>1, ConstantsAssumption DEF Fills
<1>3. \A f \in Fillable(e, l) : f \in Fills(legs[e][l].qty) \/ f = 0
  BY Zenon DEF Fillable
<1> QED BY <1>2, <1>3

\* A leg stays well formed under the changes an answer makes to it.
LEMMA AnsweredType ==
  ASSUME NEW leg \in LegRecord, NEW res \in {"trade", "failed"},
         NEW f \in Nat, NEW rep \in Nat, NEW w \in BOOLEAN
  PROVE  /\ Answered(leg, res, f, rep, w) \in LegRecord
         /\ Answered(leg, res, f, rep, w).res = res
  BY DEF LegRecord, Answered

\* A leg stays well formed under the changes a rollback makes to it.
LEMMA UndoneLegType ==
  ASSUME NEW leg \in LegRecord, NEW undo \in {"ok", "failed", "benign"}, NEW x \in Nat
  PROVE  [leg EXCEPT !.undo = undo, !.unwound = @ + x] \in LegRecord
<1>1. leg.unwound + x \in Nat
  BY DEF LegRecord
<1>2. \A y \in Nat : [leg EXCEPT !.undo = undo, !.unwound = y] \in LegRecord
  BY DEF LegRecord
<1>3. [leg EXCEPT !.undo = undo, !.unwound = leg.unwound + x] \in LegRecord
  BY <1>1, <1>2
<1> QED BY <1>3

\* Every answer to an order leaves a well-formed leg.
LEMMA PlacementsType ==
  ASSUME NEW e \in Executions, NEW l \in Legs, legs[e][l] \in LegRecord,
         NEW o \in Placements(e, l)
  PROVE  o \in LegRecord /\ o.res \in {"trade", "failed"}
<1>1. legs[e][l].qty \in Nat
  BY DEF LegRecord
<1>2. \E res \in {"trade", "failed"}, f \in Nat, rep \in Nat, w \in BOOLEAN :
          o = Answered(legs[e][l], res, f, rep, w)
  <2> DEFINE leg == legs[e][l]
             fates == {p \in Fillable(e, l) \X BOOLEAN : p[2] => p[1] < leg.qty}
             halves == {p \in Fillable(e, l) \X Fillable(e, l) :
                            e \in Split /\ 0 < p[2] /\ p[2] < p[1]}
  <2>1. \/ o \in {Answered(leg, "trade", p[1], p[1], p[2]) : p \in fates}
        \/ o \in {Answered(leg, "failed", p[1], 0, p[2]) : p \in fates}
        \/ o \in {Answered(leg, "trade", p[1], p[2], FALSE) : p \in halves}
        \/ o = Answered(leg, "trade", 0, leg.qty, FALSE)
    BY Zenon DEF Placements
  <2>2. \A f \in Fillable(e, l) : f \in Nat
    BY FillableType
  <2>3. /\ \A p \in fates : p[1] \in Nat /\ p[2] \in BOOLEAN
        /\ \A p \in halves : p[1] \in Nat /\ p[2] \in Nat
    BY <2>2
  <2> HIDE DEF fates, halves
  <2> QED BY <1>1, <2>1, <2>2, <2>3
<1> QED BY <1>2, AnsweredType

\* A rollback leaves a well-formed leg and a residual that is a natural number.
LEMMA RollbackType ==
  ASSUME NEW e \in Executions, NEW l \in Legs, legs[e][l] \in LegRecord,
         NEW u \in Nat, NEW o \in RollbackOutcomes(e, l, u)
  PROVE  o.leg \in LegRecord /\ o.residual \in Nat
<1> DEFINE leg == legs[e][l]
<1>1. CASE u > 0
  <2> DEFINE held == Position(Venue[e][l], Closes(Opposite(LegSide(e, l))))
             done(x, undo, res) ==
                 [leg |-> [leg EXCEPT !.undo = undo, !.unwound = @ + x],
                  residual |-> res]
             fillable == {x \in 0..u : x <= held /\ (x \in {0, u, held} \cup FillGrid)}
             enough(x) == 20 * x >= 19 * u
  <2>1. o \in UnwindOutcomes(e, l, u)
    BY <1>1 DEF RollbackOutcomes
  <2>2. \E x \in Nat, undo \in {"ok", "failed", "benign"}, res \in Nat :
            o = done(x, undo, res)
    <3>1. CASE held <= 0
      <4>1. o \in {done(0, "ok", 0), done(0, "benign", 0), done(0, "failed", 0)}
        BY <2>1, <3>1 DEF UnwindOutcomes
      <4> HIDE DEF done
      <4> QED BY <4>1
    <3>2. CASE ~(held <= 0)
      <4>1. \/ \E x \in fillable : o = done(x, IF enough(x) THEN "ok" ELSE "failed",
                                               IF enough(x) THEN 0 ELSE u - x)
            \/ \E x \in fillable : o = done(x, "failed", 0)
        BY <2>1, <3>2, Zenon DEF UnwindOutcomes
      <4>2. \A x \in fillable : x \in Nat /\ u - x \in Nat
        OBVIOUS
      <4> HIDE DEF done, fillable, enough
      <4> QED BY <4>1, <4>2
    <3> QED BY <3>1, <3>2
  <2>3. PICK x \in Nat, undo \in {"ok", "failed", "benign"}, res \in Nat :
            o = done(x, undo, res)
    BY <2>2
  <2>4. o.leg = [leg EXCEPT !.undo = undo, !.unwound = @ + x] /\ o.residual = res
    BY <2>3
  <2>5. [leg EXCEPT !.undo = undo, !.unwound = @ + x] \in LegRecord
    BY UndoneLegType
  <2> QED BY ONLY <2>3, <2>4, <2>5
<1>2. CASE ~(u > 0)
  <2>1. \/ \E w \in {FALSE, leg.resting} :
               o = [leg |-> [leg EXCEPT !.undo = "ok", !.resting = w], residual |-> 0]
        \/ o = [leg |-> [leg EXCEPT !.undo = "failed"], residual |-> 0]
    BY <1>2, Zenon DEF RollbackOutcomes, CancelOutcomes
  <2>2. \/ \E w \in {FALSE, leg.resting} :
               o.leg = [leg EXCEPT !.undo = "ok", !.resting = w]
        \/ o.leg = [leg EXCEPT !.undo = "failed"]
    BY <2>1
  <2>3. o.residual = 0
    BY <2>1
  <2>4. /\ \A w \in BOOLEAN : [leg EXCEPT !.undo = "ok", !.resting = w] \in LegRecord
        /\ [leg EXCEPT !.undo = "failed"] \in LegRecord
        /\ leg.resting \in BOOLEAN
    BY DEF LegRecord
  <2>5. o.leg \in LegRecord
    <3> HIDE DEF leg
    <3> QED BY ONLY <2>2, <2>4, Zenon
  <2> QED BY ONLY <2>3, <2>5
<1> QED BY <1>1, <1>2

\* The stranded tracker stays well formed when something is registered with it.
LEMMA RegisterType ==
  ASSUME NEW t \in [usd : Nat, recent : SUBSET (Exchanges \X Sides)],
         NEW key \in Exchanges \X Sides, NEW usd \in Nat, NEW benign \in BOOLEAN
  PROVE  Register(t, key, usd, benign) \in [usd : Nat, recent : SUBSET (Exchanges \X Sides)]
  BY DEF Register

\* The keys of the stranded tracker are an exchange and a side.
LEMMA KeyType ==
  ASSUME NEW e \in Executions, NEW l \in Legs
  PROVE  /\ LegSide(e, l) \in Sides
         /\ \A s \in Sides : Opposite(s) \in Sides /\ StrandedKey(e, l, s) \in Exchanges \X Sides
  BY ConstantsAssumption, VenuesType DEF LegSide, Opposite, Sides, StrandedKey, Legs, Venues

-----------------------------------------------------------------------------
(* Type correctness.  ControlType is about the progress of the executions  *)
(* and the resources they share, FaultType about orders and exposure.      *)

Pcs == {"idle", "locking", "done"} \cup InTry
TrackerRecord == [usd : Nat, recent : SUBSET (Exchanges \X Sides)]

ControlType ==
  /\ pc \in [Executions -> Pcs]
  /\ result \in [Executions -> Statuses]
  /\ locked \in [Exchanges -> BOOLEAN]
  /\ queue \in [Exchanges -> Seq(Executions)]
  /\ got \in [Executions -> SUBSET Exchanges]
  /\ margin \in [Exchanges -> Seq(Nat)]
  /\ lapsed \subseteq Exchanges
  /\ recentKeys \subseteq {DedupKey[e] : e \in Executions}

FaultType ==
  /\ halted \in BOOLEAN
  /\ tracker \in TrackerRecord
  /\ legs \in [Executions -> [Legs -> LegRecord]]
  /\ deferred \in [Executions -> BOOLEAN]

\* The two halves make up the type invariant.
LEMMA TypeSplit == TypeOK <=> ControlType /\ FaultType
  BY DEF TypeOK, ControlType, FaultType, Pcs, TrackerRecord

\* The tracker stays well formed when the residual of an unwind is registered.
LEMMA AfterResidualType ==
  ASSUME NEW t \in TrackerRecord, NEW e \in Executions, NEW l \in Legs,
         NEW o, o.residual \in Nat
  PROVE  AfterResidual(t, e, l, o) \in TrackerRecord
<1>1. o.residual * Price[e] \in Nat
  BY ConstantsAssumption, ProductNat
<1>2. StrandedKey(e, l, Opposite(LegSide(e, l))) \in Exchanges \X Sides
  BY KeyType
<1> QED BY <1>1, <1>2, RegisterType DEF AfterResidual, TrackerRecord

\* The return of an execution keeps the control state well formed: unlocking,
\* giving back the reservations.
LEMMA LeaveType ==
  ASSUME ControlType, NEW e \in Executions, NEW r \in Statuses, Leave(e, r)
  PROVE  ControlType'
<1>1. \A x \in Exchanges : WithoutReservation(margin[x], Need(e)) \in Seq(Nat)
  BY NeedType, WithoutReservationType DEF ControlType
<1>2. margin' \in [Exchanges -> Seq(Nat)]
  BY <1>1 DEF ControlType, Leave
<1> QED BY <1>2 DEF ControlType, Leave, Pcs

\* So does the move of an execution to another suspension point.
LEMMA GotoType ==
  ASSUME ControlType, NEW e \in Executions, NEW where \in Pcs, Goto(e, where)
  PROVE  ControlType'
  BY DEF ControlType, Goto, resources

\* So does the queueing of its lock requests.
LEMMA EnqueueType ==
  ASSUME ControlType, NEW e \in Executions, Enqueue(e),
         margin' \in [Exchanges -> Seq(Nat)],
         recentKeys' \subseteq {DedupKey[f] : f \in Executions}
  PROVE  ControlType'
<1>1. queue' \in [Exchanges -> Seq(Executions)]
  BY DEF ControlType, Enqueue
<1> QED BY <1>1 DEF ControlType, Enqueue, Pcs

\* So does a rejection before the locks.
LEMMA RejectType ==
  ASSUME ControlType, NEW e \in Executions, Reject(e),
         margin' \in [Exchanges -> Seq(Nat)],
         recentKeys' \subseteq {DedupKey[f] : f \in Executions}
  PROVE  ControlType'
  BY DEF ControlType, Reject, Pcs, Statuses

\* The grant of a lock keeps the control state well formed.
LEMMA GrantType ==
  ASSUME ControlType, NEW x \in Exchanges, Grant(x)
  PROVE  ControlType'
<1>1. queue[x] \in Seq(Executions) /\ queue[x] # <<>>
  BY DEF ControlType, Grant
<1>2. Head(queue[x]) \in Executions /\ Tail(queue[x]) \in Seq(Executions)
  BY <1>1
<1> QED BY <1>2 DEF ControlType, Grant

\* An execution starts: the checks before the locks.
LEMMA StartType ==
  ASSUME TypeOK, NEW e \in Executions, Start(e)
  PROVE  TypeOK'
<1>1. ControlType /\ FaultType
  BY TypeSplit
<1>2. (recentKeys \cup {DedupKey[e]}) \subseteq {DedupKey[f] : f \in Executions}
  BY <1>1 DEF ControlType
<1>3. \A x \in Exchanges :
          /\ WithReservation(margin[x], Need(e)) \in Seq(Nat)
          /\ WithoutReservation(WithReservation(margin[x], Need(e)), Need(e)) \in Seq(Nat)
  BY <1>1, NeedType, WithReservationType, WithoutReservationType DEF ControlType
<1>4. CASE e \in Cross
  <2>1. CrossStart(e)
    BY <1>4 DEF Start
  <2>2. recentKeys' \subseteq {DedupKey[f] : f \in Executions}
    BY <1>1, <1>2, <2>1 DEF CrossStart, ControlType
  <2>3. margin' \in [Exchanges -> Seq(Nat)]
    <3> DEFINE v == Venue[e][1]
    <3>1. \/ margin' = margin
          \/ margin' = [margin EXCEPT ![v] =
                 WithoutReservation(WithReservation(margin[v], Need(e)), Need(e))]
          \/ margin' = [x \in Exchanges |->
                 IF x \in Venues(e) THEN WithReservation(margin[x], Need(e)) ELSE margin[x]]
      BY <2>1 DEF CrossStart
    <3>2. v \in Exchanges
      BY VenuesType DEF Legs
    <3>3. WithoutReservation(WithReservation(margin[v], Need(e)), Need(e)) \in Seq(Nat)
      BY <1>3, <3>2
    <3>4. margin \in [Exchanges -> Seq(Nat)]
      BY <1>1 DEF ControlType
    <3> HIDE DEF v
    <3> DEFINE kept == WithoutReservation(WithReservation(margin[v], Need(e)), Need(e))
               held(x) == WithReservation(margin[x], Need(e))
    <3>5. kept \in Seq(Nat) /\ \A x \in Exchanges : held(x) \in Seq(Nat)
      BY <1>3, <3>3
    <3>6. \/ margin' = margin
          \/ margin' = [margin EXCEPT ![v] = kept]
          \/ margin' = [x \in Exchanges |-> IF x \in Venues(e) THEN held(x) ELSE margin[x]]
      BY <3>1
    <3> HIDE DEF kept, held
    <3> QED BY <3>2, <3>4, <3>5, <3>6
  <2>4. /\ Reject(e) \/ Enqueue(e)
        /\ UNCHANGED <<halted, tracker, legs, deferred>>
    BY <2>1 DEF CrossStart, Reject, Enqueue
  <2>5. ControlType'
    BY <1>1, <2>2, <2>3, <2>4, RejectType, EnqueueType
  <2>6. FaultType'
    BY <1>1, <2>4 DEF FaultType
  <2> QED BY <2>5, <2>6, TypeSplit, PTL
<1>5. CASE e \notin Cross
  <2>1. SameStart(e)
    BY <1>5 DEF Start
  <2>2. recentKeys' \subseteq {DedupKey[f] : f \in Executions}
    BY <1>1, <1>2, <2>1 DEF SameStart, ControlType
  <2>3. margin' \in [Exchanges -> Seq(Nat)]
    <3> DEFINE v == Venue[e][1]
    <3>1. \/ margin' = margin
          \/ margin' = [margin EXCEPT ![v] = WithReservation(margin[v], Need(e))]
      BY <2>1 DEF SameStart
    <3>2. v \in Exchanges
      BY VenuesType DEF Legs
    <3> HIDE DEF v
    <3> QED BY <1>1, <1>3, <3>1, <3>2 DEF ControlType
  <2>4. /\ Reject(e) \/ Enqueue(e)
        /\ UNCHANGED <<halted, tracker, legs, deferred>>
    BY <2>1 DEF SameStart, Reject, Enqueue
  <2>5. ControlType'
    BY <1>1, <2>2, <2>3, <2>4, RejectType, EnqueueType
  <2>6. FaultType'
    BY <1>1, <2>4 DEF FaultType
  <2> QED BY <2>5, <2>6, TypeSplit, PTL
<1> QED BY <1>4, <1>5

\* The environment: late fills, halts, lapsing reservations and dedup windows.
LEMMA EnvironmentType ==
  ASSUME TypeOK, Environment
  PROVE  TypeOK'
<1>1. ControlType /\ FaultType
  BY TypeSplit
<1>2. ASSUME NEW e \in Executions, NEW l \in Legs, LateFill(e, l) PROVE TypeOK'
  <2>1. legs[e][l] \in LegRecord
    BY <1>1 DEF FaultType
  <2>2. [legs[e][l] EXCEPT !.filled = legs[e][l].qty, !.resting = FALSE] \in LegRecord
    BY <2>1 DEF LegRecord
  <2>3. legs' = [legs EXCEPT ![e] = [legs[e] EXCEPT ![l] =
                    [legs[e][l] EXCEPT !.filled = legs[e][l].qty, !.resting = FALSE]]]
    BY <1>1, <1>2 DEF LateFill, FaultType
  <2>4. legs' \in [Executions -> [Legs -> LegRecord]]
    BY <1>1, <2>2, <2>3 DEF FaultType
  <2> QED BY <1>2, <2>4 DEF TypeOK, LateFill, resources
<1>3. CASE ExternalHalt
  BY <1>3 DEF TypeOK, ExternalHalt, resources
<1>4. ASSUME NEW x \in Exchanges, ReservationLapses(x) PROVE TypeOK'
  <2>1. Tail(margin[x]) \in Seq(Nat)
    BY <1>1, <1>4 DEF ControlType, ReservationLapses
  <2> QED BY <1>4, <2>1 DEF TypeOK, ReservationLapses
<1>5. ASSUME NEW k \in recentKeys, DedupWindowPasses(k) PROVE TypeOK'
  BY <1>5 DEF TypeOK, DedupWindowPasses
<1>6. ASSUME NEW k \in tracker.recent, StrandedKeyAges(k) PROVE TypeOK'
  BY <1>6 DEF TypeOK, StrandedKeyAges, resources
<1> QED BY <1>2, <1>3, <1>4, <1>5, <1>6 DEF Environment

\* A leg of an execution is replaced by a well-formed one.
LEMMA LegsType ==
  ASSUME NEW ls \in [Executions -> [Legs -> LegRecord]],
         NEW e \in Executions, NEW l \in Legs, NEW leg \in LegRecord
  PROVE  [ls EXCEPT ![e][l] = leg] \in [Executions -> [Legs -> LegRecord]]
  OBVIOUS

\* An execution across exchanges takes its next step.
LEMMA CrossStepType ==
  ASSUME TypeOK, NEW e \in Executions, CrossStep(e)
  PROVE  TypeOK'
<1>0. /\ ControlType /\ FaultType
      /\ 1 \in Legs /\ 2 \in Legs
      /\ \A l \in Legs : legs[e][l] \in LegRecord
  BY TypeSplit DEF FaultType, Legs
<1>L. \A l \in Legs : \A leg \in LegRecord :
          [legs EXCEPT ![e][l] = leg] \in [Executions -> [Legs -> LegRecord]]
  BY <1>0, LegsType DEF FaultType
<1> SUFFICES ControlType' /\ FaultType'
  BY TypeSplit, PTL
<1>1. ASSUME NEW o, o.residual \in Nat, o.leg \in LegRecord, StrandLeg1(e, o),
             UNCHANGED deferred
      PROVE  ControlType' /\ FaultType'
  <2> DEFINE key == StrandedKey(e, 1, LegSide(e, 1))
             usd == legs[e][1].qty * Price[e]
             benign == o.leg.undo = "benign"
             before == AfterResidual(tracker, e, 1, o)
  <2>1. before \in TrackerRecord
    BY <1>0, <1>1, AfterResidualType DEF FaultType
  <2>2. usd \in Nat
    <3>1. legs[e][1].qty \in Nat
      BY <1>0 DEF LegRecord
    <3> QED BY <3>1, ProductNat, ConstantsAssumption
  <2>3. key \in Exchanges \X Sides
    BY <1>0, KeyType
  <2>4. Register(before, key, usd, benign) \in TrackerRecord
    <3>1. benign \in BOOLEAN
      OBVIOUS
    <3> HIDE DEF before, key, usd, benign
    <3> QED BY <2>1, <2>2, <2>3, <3>1, RegisterType DEF TrackerRecord
  <2>5. [o.leg EXCEPT !.registered = TRUE] \in LegRecord
    BY <1>1 DEF LegRecord
  <2>6. legs' \in [Executions -> [Legs -> LegRecord]]
    BY <1>0, <1>1, <2>5, <1>L DEF StrandLeg1, FaultType
  <2>7. halted' \in BOOLEAN /\ tracker' \in TrackerRecord
    BY <1>1, <2>4 DEF StrandLeg1
  <2>8. Leave(e, "rollback_failed")
    BY <1>1 DEF StrandLeg1
  <2> QED BY <1>0, <1>1, <2>6, <2>7, <2>8, LeaveType DEF FaultType, Statuses
<1>2. CASE CrossSync(e)
  <2>1. UNCHANGED <<halted, tracker, deferred>>
    BY <1>2 DEF CrossSync
  <2>2. \/ Leave(e, "rejected") /\ UNCHANGED legs
        \/ /\ Goto(e, "place1")
           /\ \E n \in Nat : legs' = [legs EXCEPT ![e] =
                                 [l \in Legs |-> [legs[e][l] EXCEPT !.qty = n]]]
    <3> DEFINE synced(s) == IF s = 0 THEN Amount[e] ELSE (Amount[e] \div s) * s
    <3>1. \/ Leave(e, "rejected") /\ UNCHANGED legs
          \/ \E a, b \in LotSteps :
                /\ Goto(e, "place1")
                /\ legs' = [legs EXCEPT ![e] =
                       [l \in Legs |-> [legs[e][l] EXCEPT
                                            !.qty = synced(IF a > b THEN a ELSE b)]]]
      BY <1>0, <1>2, Zenon DEF CrossSync
    <3>2. \A s \in Nat : synced(s) \in Nat
      <4> TAKE s \in Nat
      <4>1. Amount[e] \in Nat
        BY ConstantsAssumption
      <4>2. CASE s = 0
        BY <4>1, <4>2
      <4>3. CASE s > 0
        BY <4>1, <4>3, FlooredNat
      <4> QED BY <4>2, <4>3
    <3>3. \A a, b \in LotSteps : (IF a > b THEN a ELSE b) \in Nat
      BY ConstantsAssumption
    <3> HIDE DEF synced
    <3>4. ASSUME NEW a \in LotSteps, NEW b \in LotSteps, Goto(e, "place1"),
                 legs' = [legs EXCEPT ![e] = [l \in Legs |->
                     [legs[e][l] EXCEPT !.qty = synced(IF a > b THEN a ELSE b)]]]
          PROVE  /\ Goto(e, "place1")
                 /\ \E n \in Nat : legs' = [legs EXCEPT ![e] =
                                      [l \in Legs |-> [legs[e][l] EXCEPT !.qty = n]]]
      <4> DEFINE n == synced(IF a > b THEN a ELSE b)
      <4>1. n \in Nat
        BY ONLY <3>2, <3>3, a \in LotSteps, b \in LotSteps, Zenon
      <4>2. legs' = [legs EXCEPT ![e] = [l \in Legs |-> [legs[e][l] EXCEPT !.qty = n]]]
        BY ONLY <3>4
      <4> HIDE DEF n
      <4> QED BY ONLY <3>4, <4>1, <4>2, Zenon
    <3> QED BY ONLY <3>1, <3>4, Zenon
  <2>3. CASE Leave(e, "rejected") /\ UNCHANGED legs
    BY <1>0, <2>1, <2>3, LeaveType DEF FaultType, Statuses
  <2>4. ASSUME NEW n \in Nat, Goto(e, "place1"),
               legs' = [legs EXCEPT ![e] = [l \in Legs |-> [legs[e][l] EXCEPT !.qty = n]]]
        PROVE  ControlType' /\ FaultType'
    <3>1. \A l \in Legs : [legs[e][l] EXCEPT !.qty = n] \in LegRecord
      BY <1>0 DEF LegRecord
    <3>2. [l \in Legs |-> [legs[e][l] EXCEPT !.qty = n]] \in [Legs -> LegRecord]
      BY <3>1, Zenon
    <3>3. legs' \in [Executions -> [Legs -> LegRecord]]
      BY <1>0, <2>4, <3>2, Zenon DEF FaultType
    <3> QED BY <1>0, <2>1, <2>4, <3>3, GotoType DEF FaultType, Pcs, InTry, CrossPcs
  <2> QED BY <2>2, <2>3, <2>4
<1>3. CASE CrossPlace1(e)
  <2>1. PICK leg \in Placements(e, 1) :
            \/ /\ Goto(e, "cancel1") \/ Goto(e, "undo1")
               /\ legs' = [legs EXCEPT ![e][1] = leg]
            \/ /\ Goto(e, "edge")
               /\ legs' = [legs EXCEPT ![e][1] = leg, ![e][2].qty = leg.reported]
    BY <1>3 DEF CrossPlace1
  <2>2. leg \in LegRecord
    BY <1>0, PlacementsType
  <2>4. leg.reported \in Nat
    BY <2>2 DEF LegRecord
  <2>5. ASSUME legs' = [legs EXCEPT ![e][1] = leg]
        PROVE  legs' \in [Executions -> [Legs -> LegRecord]]
    BY <1>0, <2>2, <2>5, <1>L DEF FaultType
  <2>6. ASSUME legs' = [legs EXCEPT ![e][1] = leg, ![e][2].qty = leg.reported]
        PROVE  legs' \in [Executions -> [Legs -> LegRecord]]
    <3> DEFINE m == [legs EXCEPT ![e][1] = leg]
    <3>1. legs' = [m EXCEPT ![e][2].qty = leg.reported]
      BY <2>6, Zenon
    <3>2. m \in [Executions -> [Legs -> LegRecord]]
      BY <1>0, <2>2, <1>L DEF FaultType
    <3> HIDE DEF m
    <3>3. m[e][2] \in LegRecord
      BY <1>0, <3>2
    <3>4. [m[e][2] EXCEPT !.qty = leg.reported] \in LegRecord
      BY <2>4, <3>3 DEF LegRecord
    <3>5. [m EXCEPT ![e][2] = [m[e][2] EXCEPT !.qty = leg.reported]]
              \in [Executions -> [Legs -> LegRecord]]
      BY <1>0, <3>2, <3>4, LegsType, Zenon
    <3> QED BY <3>1, <3>5, Zenon
  <2>7. legs' \in [Executions -> [Legs -> LegRecord]]
    BY <2>1, <2>5, <2>6
  <2>8. ControlType'
    BY <1>0, <2>1, GotoType DEF Pcs, InTry, CrossPcs
  <2> QED BY <1>0, <1>3, <2>7, <2>8 DEF CrossPlace1, FaultType
<1>4. CASE CrossCancel1(e)
  <2>1. PICK o \in RollbackOutcomes(e, 1, 0) :
            /\ legs' = [legs EXCEPT ![e][1] = o.leg]
            /\ Goto(e, "unwind1") \/ Leave(e, "rolled_back")
    BY <1>4 DEF CrossCancel1
  <2>2. o.leg \in LegRecord
    BY <1>0, RollbackType
  <2>3. legs' \in [Executions -> [Legs -> LegRecord]]
    BY <1>0, <2>1, <2>2, <1>L DEF FaultType
  <2>4. ControlType'
    BY <1>0, <2>1, GotoType, LeaveType DEF Pcs, InTry, CrossPcs, Statuses
  <2> QED BY <1>0, <1>4, <2>3, <2>4 DEF CrossCancel1, FaultType
<1>5. CASE CrossUnwind1(e)
  <2>1. PICK o \in RollbackOutcomes(e, 1, legs[e][1].qty) :
            \/ StrandLeg1(e, o)
            \/ /\ legs' = [legs EXCEPT ![e][1] = o.leg]
               /\ Leave(e, "rolled_back")
               /\ UNCHANGED <<halted, tracker>>
    BY <1>5 DEF CrossUnwind1
  <2>2. legs[e][1].qty \in Nat
    BY <1>0 DEF LegRecord
  <2>3. o.leg \in LegRecord /\ o.residual \in Nat
    BY <1>0, <2>2, RollbackType
  <2>4. CASE StrandLeg1(e, o)
    BY <1>1, <1>5, <2>3, <2>4 DEF CrossUnwind1
  <2>5. CASE ~StrandLeg1(e, o)
    <3>1. legs' \in [Executions -> [Legs -> LegRecord]]
      BY <1>0, <2>1, <2>3, <2>5, <1>L DEF FaultType
    <3>2. ControlType'
      BY <1>0, <2>1, <2>5, LeaveType DEF Statuses
    <3> QED BY <1>0, <1>5, <2>1, <2>5, <3>1, <3>2 DEF CrossUnwind1, FaultType
  <2> QED BY <2>4, <2>5
<1>6. CASE CrossEdge(e)
  BY <1>0, <1>6, GotoType DEF CrossEdge, FaultType, Pcs, InTry, CrossPcs
<1>7. CASE CrossPlace2(e)
  <2>1. PICK leg \in Placements(e, 2) :
            /\ legs' = [legs EXCEPT ![e][2] = leg]
            /\ Goto(e, "undo2") \/ Leave(e, "success")
    BY <1>7 DEF CrossPlace2
  <2>2. leg \in LegRecord
    BY <1>0, PlacementsType
  <2>3. legs' \in [Executions -> [Legs -> LegRecord]]
    BY <1>0, <2>1, <2>2, <1>L DEF FaultType
  <2>4. ControlType'
    BY <1>0, <2>1, GotoType, LeaveType DEF Pcs, InTry, CrossPcs, Statuses
  <2> QED BY <1>0, <1>7, <2>3, <2>4 DEF CrossPlace2, FaultType
<1>8. CASE CrossUndo2(e)
  <2> DEFINE key == StrandedKey(e, 2, LegSide(e, 2))
             filled2 == legs[e][2].reported
             strands(o) == filled2 > 0 /\ o.leg.undo # "ok"
             benign(o) == o.leg.undo = "benign"
             before(o) == AfterResidual(tracker, e, 2, o)
             after(o) == IF strands(o)
                         THEN Register(before(o), key, filled2 * Price[e], benign(o))
                         ELSE before(o)
             usd1 == legs[e][1].reported * Price[e]
  <2>1. PICK o \in Leg2Outcomes(e) :
            /\ legs' = [legs EXCEPT ![e][2] =
                            [o.leg EXCEPT !.registered = strands(o) \/ HalfClosed(e)]]
            /\ deferred' = [deferred EXCEPT ![e] = strands(o)
                   /\ ShouldHalt(before(o), key, filled2 * Price[e], benign(o))]
            /\ \/ /\ tracker' = Register(after(o), key, usd1, FALSE)
                  /\ halted' = (halted \/ ShouldHalt(after(o), key, usd1, FALSE))
                  /\ Leave(e, "rollback_failed")
               \/ tracker' = after(o) /\ UNCHANGED halted /\ Goto(e, "undo1")
    BY <1>8, Zenon DEF CrossUndo2
  <2>2. legs[e][1].reported \in Nat /\ legs[e][2].reported \in Nat
    BY <1>0 DEF LegRecord
  <2>3. o.leg \in LegRecord /\ o.residual \in Nat
    <3>1. o \in RollbackOutcomes(e, 2, legs[e][2].reported)
          \/ o = [leg |-> legs[e][2], residual |-> 0]
      BY <2>1, Zenon DEF Leg2Outcomes
    <3> QED BY <1>0, <2>2, <3>1, RollbackType
  <2>4. key \in Exchanges \X Sides /\ usd1 \in Nat /\ filled2 * Price[e] \in Nat
    BY <1>0, <2>2, KeyType, ProductNat, ConstantsAssumption
  <2>5. before(o) \in TrackerRecord
    BY <1>0, <2>3, AfterResidualType DEF FaultType
  <2>6. after(o) \in TrackerRecord
    <3>1. benign(o) \in BOOLEAN
      OBVIOUS
    <3> HIDE DEF before, key, benign, strands
    <3> QED BY <2>4, <2>5, <3>1, RegisterType DEF TrackerRecord
  <2>7. tracker' \in TrackerRecord /\ halted' \in BOOLEAN
    <3> HIDE DEF after, key, usd1
    <3>1. Register(after(o), key, usd1, FALSE) \in TrackerRecord
      BY <2>4, <2>6, RegisterType DEF TrackerRecord
    <3> QED BY <1>0, <2>1, <2>6, <3>1 DEF FaultType
  <2>8. deferred' \in [Executions -> BOOLEAN]
    BY <1>0, <2>1, Zenon DEF FaultType
  <2>9. legs' \in [Executions -> [Legs -> LegRecord]]
    <3>1. \A r \in BOOLEAN : [o.leg EXCEPT !.registered = r] \in LegRecord
      BY <2>3 DEF LegRecord
    <3>2. (strands(o) \/ HalfClosed(e)) \in BOOLEAN
      OBVIOUS
    <3> QED BY <1>0, <2>1, <3>1, <3>2, <1>L, Zenon DEF FaultType
  <2>10. ControlType'
    BY <1>0, <2>1, GotoType, LeaveType DEF Pcs, InTry, CrossPcs, Statuses
  <2> QED BY <2>7, <2>8, <2>9, <2>10 DEF FaultType
<1>9. CASE CrossUndo1(e)
  <2>1. PICK o \in RollbackOutcomes(e, 1, legs[e][1].reported) :
            \/ StrandLeg1(e, o)
            \/ /\ legs' = [legs EXCEPT ![e][1] = o.leg]
               /\ halted' = (halted \/ deferred[e])
               /\ Leave(e, "rollback_failed") \/ Leave(e, "rolled_back")
               /\ UNCHANGED tracker
    BY <1>9 DEF CrossUndo1
  <2>2. legs[e][1].reported \in Nat
    BY <1>0 DEF LegRecord
  <2>3. o.leg \in LegRecord /\ o.residual \in Nat
    BY <1>0, <2>2, RollbackType
  <2>4. CASE StrandLeg1(e, o)
    BY <1>1, <1>9, <2>3, <2>4 DEF CrossUndo1
  <2>5. CASE ~StrandLeg1(e, o)
    <3>1. legs' \in [Executions -> [Legs -> LegRecord]]
      BY <1>0, <2>1, <2>3, <2>5, <1>L DEF FaultType
    <3>2. ControlType'
      BY <1>0, <2>1, <2>5, LeaveType DEF Statuses
    <3> QED BY <1>0, <1>9, <2>1, <2>5, <3>1, <3>2 DEF CrossUndo1, FaultType
  <2> QED BY <2>4, <2>5
<1> QED
  BY <1>2, <1>3, <1>4, <1>5, <1>6, <1>7, <1>8, <1>9 DEF CrossStep

\* An execution on one exchange takes its next step.
LEMMA SameStepType ==
  ASSUME TypeOK, NEW e \in Executions, SameStep(e)
  PROVE  TypeOK'
<1>0. /\ ControlType /\ FaultType
      /\ 1 \in Legs /\ 2 \in Legs
      /\ \A l \in Legs : legs[e][l] \in LegRecord /\ legs[e][l].reported \in Nat
  BY TypeSplit DEF FaultType, Legs, LegRecord
<1>L. \A l \in Legs : \A leg \in LegRecord :
          [legs EXCEPT ![e][l] = leg] \in [Executions -> [Legs -> LegRecord]]
  BY <1>0, LegsType DEF FaultType
<1> SUFFICES ControlType' /\ FaultType'
  BY TypeSplit, PTL
<1>1. CASE SameRecheck(e)
  <2>1. Amount[e] \in Nat
    BY ConstantsAssumption
  <2>2. \A l \in Legs : [legs[e][l] EXCEPT !.qty = Amount[e]] \in LegRecord
    BY <1>0, <2>1 DEF LegRecord
  <2>3. [l \in Legs |-> [legs[e][l] EXCEPT !.qty = Amount[e]]] \in [Legs -> LegRecord]
    BY <2>2, Zenon
  <2>4. \/ Leave(e, "rejected") /\ UNCHANGED legs
        \/ /\ Goto(e, "placing")
           /\ legs' = [legs EXCEPT ![e] =
                           [l \in Legs |-> [legs[e][l] EXCEPT !.qty = Amount[e]]]]
    BY <1>0, <1>1, Zenon DEF SameRecheck, FaultType
  <2>5. legs' \in [Executions -> [Legs -> LegRecord]]
    BY <1>0, <2>3, <2>4, Zenon DEF FaultType
  <2>6. ControlType'
    BY <1>0, <2>4, GotoType, LeaveType DEF Pcs, InTry, SamePcs, Statuses
  <2> QED BY <1>0, <1>1, <2>5, <2>6 DEF SameRecheck, FaultType
<1>2. ASSUME NEW l \in Legs, SamePlace(e, l) PROVE ControlType' /\ FaultType'
  <2>1. legs' \in [Executions -> [Legs -> LegRecord]]
    BY <1>0, <1>2, PlacementsType, <1>L DEF SamePlace, FaultType
  <2> QED BY <1>0, <1>2, <2>1 DEF SamePlace, ControlType, FaultType, resources
<1>3. CASE SameEvaluate(e)
  <2>1. Goto(e, "sundo1") \/ Leave(e, "success")
    BY <1>3 DEF SameEvaluate
  <2>2. ControlType'
    BY <1>0, <2>1, GotoType, LeaveType DEF Pcs, InTry, SamePcs, Statuses
  <2> QED BY <1>0, <1>3, <2>2 DEF SameEvaluate, FaultType
<1>4. CASE SameUndo1(e)
  <2>1. PICK o \in RollbackOutcomes(e, 1, legs[e][1].reported) :
            /\ legs' = [legs EXCEPT ![e][1] = o.leg]
            /\ tracker' = AfterResidual(tracker, e, 1, o)
    BY <1>4 DEF SameUndo1
  <2>2. o.leg \in LegRecord /\ o.residual \in Nat
    BY <1>0, RollbackType
  <2>3. legs' \in [Executions -> [Legs -> LegRecord]]
    BY <1>0, <2>1, <2>2, <1>L DEF FaultType
  <2>4. tracker' \in TrackerRecord
    BY <1>0, <2>1, <2>2, AfterResidualType DEF FaultType
  <2>5. ControlType'
    BY <1>0, <1>4, GotoType DEF SameUndo1, Pcs, InTry, SamePcs
  <2> QED BY <1>0, <1>4, <2>3, <2>4, <2>5 DEF SameUndo1, FaultType
<1>5. CASE SameUndo2(e)
  <2> DEFINE undo(o) == [l \in Legs |-> IF l = 1 THEN legs[e][1].undo ELSE o.leg.undo]
             key(l) == StrandedKey(e, l, LegSide(e, l))
             usd == Amount[e] * Price[e]
             t0(o) == AfterResidual(tracker, e, 2, o)
             add(t, l, o) == IF undo(o)[l] = "ok" THEN t
                             ELSE Register(t, key(l), usd, undo(o)[l] = "benign")
             halts(t, l, o) == undo(o)[l] # "ok"
                               /\ ShouldHalt(t, key(l), usd, undo(o)[l] = "benign")
  <2>1. PICK o \in RollbackOutcomes(e, 2, legs[e][2].reported) :
            /\ legs' = [legs EXCEPT ![e][1].registered = undo(o)[1] # "ok",
                            ![e][2] = [o.leg EXCEPT !.registered = undo(o)[2] # "ok"]]
            /\ tracker' = add(add(t0(o), 1, o), 2, o)
            /\ halted' = (halted \/ halts(t0(o), 1, o) \/ halts(add(t0(o), 1, o), 2, o))
            /\ Leave(e, "rolled_back") \/ Leave(e, "rollback_failed")
    BY <1>5, Zenon DEF SameUndo2
  <2>2. o.leg \in LegRecord /\ o.residual \in Nat
    BY <1>0, RollbackType
  <2>3. t0(o) \in TrackerRecord
    BY <1>0, <2>2, AfterResidualType DEF FaultType
  <2>4. \A t \in TrackerRecord, l \in Legs : add(t, l, o) \in TrackerRecord
    <3> TAKE t \in TrackerRecord, l \in Legs
    <3>1. key(l) \in Exchanges \X Sides /\ usd \in Nat
      BY KeyType, ProductNat, ConstantsAssumption
    <3>2. (undo(o)[l] = "benign") \in BOOLEAN
      OBVIOUS
    <3> HIDE DEF key, usd, undo
    <3> QED BY <3>1, <3>2, RegisterType DEF TrackerRecord
  <2>5. tracker' \in TrackerRecord /\ halted' \in BOOLEAN
    <3> HIDE DEF add, halts, t0
    <3>1. add(t0(o), 1, o) \in TrackerRecord
      BY <1>0, <2>3, <2>4
    <3>2. add(add(t0(o), 1, o), 2, o) \in TrackerRecord
      BY <1>0, <2>4, <3>1
    <3> QED BY <2>1, <3>2
  <2>6. legs' \in [Executions -> [Legs -> LegRecord]]
    <3> DEFINE b1 == undo(o)[1] # "ok"
               leg2 == [o.leg EXCEPT !.registered = undo(o)[2] # "ok"]
               m == [legs EXCEPT ![e][1].registered = b1]
    <3>1. legs' = [m EXCEPT ![e][2] = leg2]
      BY <2>1, Zenon
    <3>2. b1 \in BOOLEAN /\ (undo(o)[2] # "ok") \in BOOLEAN
      OBVIOUS
    <3>3. leg2 \in LegRecord
      <4>1. \A b \in BOOLEAN : [o.leg EXCEPT !.registered = b] \in LegRecord
        BY <2>2 DEF LegRecord
      <4> QED BY <3>2, <4>1, Zenon
    <3> HIDE DEF b1, leg2
    <3>4. [legs[e][1] EXCEPT !.registered = b1] \in LegRecord
      BY <1>0, <3>2 DEF LegRecord
    <3>5. [legs EXCEPT ![e][1] = [legs[e][1] EXCEPT !.registered = b1]]
              \in [Executions -> [Legs -> LegRecord]]
      BY <1>0, <3>4, <1>L, Zenon DEF FaultType
    <3>6. m \in [Executions -> [Legs -> LegRecord]]
      BY <3>5, Zenon
    <3> HIDE DEF m
    <3> QED BY <1>0, <3>1, <3>3, <3>6, LegsType
  <2>7. ControlType'
    BY <1>0, <2>1, LeaveType DEF Statuses
  <2> QED BY <1>0, <1>5, <2>5, <2>6, <2>7 DEF SameUndo2, FaultType
<1> QED BY <1>1, <1>2, <1>3, <1>4, <1>5 DEF SameStep

\* Type correctness: no step of any execution, and nothing that happens around
\* the executions, takes a variable out of its type.
THEOREM TypeCorrect == Spec => []TypeOK
<1>1. Init => TypeOK
  <2>1. NewLeg \in LegRecord
    BY DEF NewLeg, LegRecord
  <2>2. Init => ControlType
    BY DEF Init, ControlType, Pcs, Statuses
  <2>3. Init => FaultType
    <3>1. [e \in Executions |-> [l \in Legs |-> NewLeg]]
              \in [Executions -> [Legs -> LegRecord]]
      BY <2>1, Zenon
    <3>2. [usd |-> 0, recent |-> {}] \in TrackerRecord
      BY DEF TrackerRecord
    <3> QED BY <3>1, <3>2 DEF Init, FaultType
  <2> QED BY <2>2, <2>3, TypeSplit
<1>2. TypeOK /\ [Next]_vars => TypeOK'
  <2> SUFFICES ASSUME TypeOK, [Next]_vars PROVE TypeOK'
    OBVIOUS
  <2>1. CASE UNCHANGED vars
    BY <2>1 DEF TypeOK, vars, resources
  <2>2. ASSUME NEW e \in Executions, Start(e) PROVE TypeOK'
    BY <2>2, StartType
  <2>3. ASSUME NEW e \in Executions, Step(e) PROVE TypeOK'
    BY <2>3, CrossStepType, SameStepType DEF Step
  <2>4. ASSUME NEW x \in Exchanges, Grant(x) PROVE TypeOK'
    <3>1. ControlType /\ FaultType
      BY TypeSplit
    <3>2. ControlType'
      BY <2>4, <3>1, GrantType
    <3>3. FaultType'
      BY <2>4, <3>1 DEF Grant, FaultType
    <3> QED BY <3>2, <3>3, TypeSplit, PTL
  <2>5. CASE Environment
    BY <2>5, EnvironmentType
  <2>6. CASE Terminated
    BY <2>1, <2>6 DEF Terminated
  <2> QED BY <2>1, <2>2, <2>3, <2>4, <2>5, <2>6 DEF Next
<1> QED BY <1>1, <1>2, PTL DEF Spec

-----------------------------------------------------------------------------
(* Mutual exclusion.  _release_lock unlocks a lock without asking who      *)
(* holds it, so exclusion rests on who may call it when: only an execution *)
(* whose acquire() calls have all returned.  LockInv says what is true of  *)
(* queues, locks and program counters at every suspension point.           *)

\* A task in a queue waits for that lock, is suspended in acquire() and has
\* not been given it.
QueuedWait ==
  \A x \in Exchanges : \A i \in 1..Len(queue[x]) :
      /\ pc[queue[x][i]] = "locking"
      /\ x \in Venues(queue[x][i])
      /\ x \notin got[queue[x][i]]

\* No task is twice in a queue.
QueuedOnce ==
  \A x \in Exchanges : \A i, j \in 1..Len(queue[x]) :
      queue[x][i] = queue[x][j] => i = j

\* A lock that acquire() returned to a task is locked, and to that task alone.
OneOwner ==
  /\ \A e \in Executions : \A x \in got[e] : locked[x] /\ x \in Venues(e)
  /\ \A e, f \in Executions : \A x \in got[e] \cap got[f] : e = f

\* Inside its try block an execution has all its locks; before it asks for
\* them and after it returns it has none.
OwnsInTry ==
  \A e \in Executions :
      /\ pc[e] \in InTry => Owns(e)
      /\ pc[e] \in {"idle", "done"} => got[e] = {}

LockInv == QueuedWait /\ QueuedOnce /\ OneOwner /\ OwnsInTry

\* what InCritical says of e, without the exchange
Holds(e) == pc[e] \in InTry \/ (pc[e] = "locking" /\ Owns(e))

\* To the locks every step of the executor is one of six: nothing, a start that
\* asks for the locks or gives up, a move inside the try block, the return from
\* it, and the grant of a free lock.
LockStep ==
  \/ UNCHANGED <<pc, locked, queue, got>>
  \/ \E e \in Executions : pc[e] = "idle" /\ (Reject(e) \/ Enqueue(e))
  \/ \E e \in Executions : Holds(e) /\ \E where \in InTry : Goto(e, where)
  \/ \E e \in Executions : Holds(e) /\ \E r \in Statuses : Leave(e, r)
  \/ \E x \in Exchanges : Grant(x)

\* A start is a lock step.
LEMMA StartIsLockStep ==
  ASSUME NEW e \in Executions, Start(e)
  PROVE  pc[e] = "idle" /\ (Reject(e) \/ Enqueue(e))
  BY DEF Start, CrossStart, SameStart

\* A step across exchanges is taken by a holder of the locks, which stays
\* inside its try block or returns.
LEMMA CrossIsLockStep ==
  ASSUME NEW e \in Executions, CrossStep(e)
  PROVE  /\ Holds(e)
         /\ (\E where \in InTry : Goto(e, where)) \/ (\E r \in Statuses : Leave(e, r))
<1> USE DEF Holds, InTry, CrossPcs, Statuses
<1>1. CASE CrossSync(e)
  BY <1>1, Zenon DEF CrossSync
<1>2. CASE CrossPlace1(e)
  BY <1>2, Zenon DEF CrossPlace1
<1>3. CASE CrossCancel1(e)
  BY <1>3, Zenon DEF CrossCancel1
<1>4. CASE CrossUnwind1(e)
  BY <1>4, Zenon DEF CrossUnwind1, StrandLeg1
<1>5. CASE CrossEdge(e)
  BY <1>5, Zenon DEF CrossEdge
<1>6. CASE CrossPlace2(e)
  BY <1>6, Zenon DEF CrossPlace2
<1>7. CASE CrossUndo2(e)
  BY <1>7, Zenon DEF CrossUndo2
<1>8. CASE CrossUndo1(e)
  BY <1>8, Zenon DEF CrossUndo1, StrandLeg1
<1> QED BY <1>1, <1>2, <1>3, <1>4, <1>5, <1>6, <1>7, <1>8 DEF CrossStep

\* So is a step on one exchange, unless it is the answer to one leg.
LEMMA SameIsLockStep ==
  ASSUME NEW e \in Executions, SameStep(e)
  PROVE  \/ UNCHANGED <<pc, resources>>
         \/ /\ Holds(e)
            /\ (\E where \in InTry : Goto(e, where)) \/ (\E r \in Statuses : Leave(e, r))
<1> USE DEF Holds, InTry, SamePcs, Statuses
<1>1. CASE SameRecheck(e)
  BY <1>1, Zenon DEF SameRecheck
<1>2. ASSUME NEW l \in Legs, SamePlace(e, l) PROVE UNCHANGED <<pc, resources>>
  BY <1>2 DEF SamePlace
<1>3. CASE SameEvaluate(e)
  BY <1>3, Zenon DEF SameEvaluate
<1>4. CASE SameUndo1(e)
  BY <1>4, Zenon DEF SameUndo1
<1>5. CASE SameUndo2(e)
  BY <1>5, Zenon DEF SameUndo2
<1> QED BY <1>1, <1>2, <1>3, <1>4, <1>5 DEF SameStep

\* Every step of the executor is a lock step.
LEMMA NextIsLockStep == [Next]_vars => LockStep
<1> SUFFICES ASSUME [Next]_vars PROVE LockStep
  OBVIOUS
<1>1. CASE UNCHANGED vars \/ Terminated
  BY <1>1 DEF LockStep, vars, resources, Terminated
<1>2. ASSUME NEW e \in Executions, Start(e) PROVE LockStep
  BY <1>2, StartIsLockStep DEF LockStep
<1>3. ASSUME NEW e \in Executions, Step(e) PROVE LockStep
  BY <1>3, CrossIsLockStep, SameIsLockStep, Zenon DEF LockStep, Step, resources
<1>4. ASSUME NEW x \in Exchanges, Grant(x) PROVE LockStep
  BY <1>4 DEF LockStep
<1>5. CASE Environment
  <2>1. UNCHANGED <<pc, locked, queue, got>>
    BY <1>5 DEF Environment, LateFill, ExternalHalt, ReservationLapses,
                DedupWindowPasses, StrandedKeyAges, resources
  <2> QED BY <2>1 DEF LockStep
<1> QED BY <1>1, <1>2, <1>3, <1>4, <1>5 DEF Next

\* What a lock step needs of the types.
LockType ==
  /\ pc \in [Executions -> Pcs]
  /\ locked \in [Exchanges -> BOOLEAN]
  /\ queue \in [Exchanges -> Seq(Executions)]
  /\ got \in [Executions -> SUBSET Exchanges]

\* The names of the suspension points are different.
LEMMA InTryPcs ==
  /\ InTry \subseteq Pcs
  /\ "idle" \notin InTry /\ "locking" \notin InTry /\ "done" \notin InTry
  BY DEF InTry, CrossPcs, SamePcs, Pcs

\* A holder of its locks waits in no queue.
LEMMA HolderNotQueued ==
  ASSUME LockType, LockInv, NEW e \in Executions, Holds(e)
  PROVE  \A x \in Exchanges : \A i \in 1..Len(queue[x]) : queue[x][i] # e
  BY InTryPcs DEF LockInv, QueuedWait, Holds, Owns

\* A move of a holder inside its try block preserves the lock invariant.
LEMMA GotoKeepsLocks ==
  ASSUME LockType, LockInv, NEW e \in Executions, Holds(e),
         NEW where \in InTry, Goto(e, where)
  PROVE  LockInv'
<1>1. Owns(e)
  BY DEF Holds, LockInv, OwnsInTry
<1>2. UNCHANGED <<locked, queue, got>> /\ pc' = [pc EXCEPT ![e] = where]
  BY DEF Goto, resources
<1>3. QueuedWait'
  <2>1. \A x \in Exchanges : \A i \in 1..Len(queue[x]) :
            queue[x][i] # e /\ queue[x][i] \in Executions
    BY HolderNotQueued DEF LockType
  <2> QED BY <1>2, <2>1 DEF LockType, LockInv, QueuedWait
<1>4. QueuedOnce' /\ OneOwner'
  BY <1>2 DEF LockInv, QueuedOnce, OneOwner
<1>5. OwnsInTry'
  BY <1>1, <1>2, InTryPcs DEF LockType, LockInv, OwnsInTry, Owns
<1> QED BY <1>3, <1>4, <1>5 DEF LockInv

\* So does the return of a holder: what it unlocks is its own.
LEMMA LeaveKeepsLocks ==
  ASSUME LockType, LockInv, NEW e \in Executions, Holds(e),
         NEW r \in Statuses, Leave(e, r)
  PROVE  LockInv'
<1>1. got[e] = Venues(e)
  BY DEF Holds, LockInv, OwnsInTry, Owns
<1>2. /\ pc' = [pc EXCEPT ![e] = "done"]
      /\ got' = [got EXCEPT ![e] = {}]
      /\ locked' = [x \in Exchanges |-> locked[x] /\ x \notin Venues(e)]
      /\ UNCHANGED queue
  BY DEF Leave, ReleasedBy
<1>3. QueuedWait'
  <2>1. \A x \in Exchanges : \A i \in 1..Len(queue[x]) :
            queue[x][i] # e /\ queue[x][i] \in Executions
    BY HolderNotQueued DEF LockType
  <2> QED BY <1>2, <2>1 DEF LockType, LockInv, QueuedWait
<1>4. QueuedOnce'
  BY <1>2 DEF LockInv, QueuedOnce
<1>5. OneOwner'
  <2>1. \A f \in Executions : \A x \in got'[f] : f # e /\ x \in got[f] /\ x \in Exchanges
    BY <1>2 DEF LockType
  <2>2. \A f \in Executions : \A x \in got'[f] : x \notin Venues(e)
    BY <1>1, <2>1 DEF LockInv, OneOwner
  <2> QED BY <1>2, <2>1, <2>2 DEF LockInv, OneOwner
<1>6. OwnsInTry'
  BY <1>2, InTryPcs DEF LockType, LockInv, OwnsInTry, Owns
<1> QED BY <1>3, <1>4, <1>5, <1>6 DEF LockInv

\* So does a start that gives up,
LEMMA RejectKeepsLocks ==
  ASSUME LockType, LockInv, NEW e \in Executions, pc[e] = "idle", Reject(e)
  PROVE  LockInv'
<1>1. UNCHANGED <<locked, queue, got>> /\ pc' = [pc EXCEPT ![e] = "done"]
  BY DEF Reject
<1>2. QueuedWait'
  <2>1. \A x \in Exchanges : \A i \in 1..Len(queue[x]) :
            queue[x][i] # e /\ queue[x][i] \in Executions
    BY DEF LockType, LockInv, QueuedWait
  <2> QED BY <1>1, <2>1 DEF LockType, LockInv, QueuedWait
<1>3. QueuedOnce' /\ OneOwner'
  BY <1>1 DEF LockInv, QueuedOnce, OneOwner
<1>4. OwnsInTry'
  BY <1>1, InTryPcs DEF LockType, LockInv, OwnsInTry, Owns
<1> QED BY <1>2, <1>3, <1>4 DEF LockInv

\* and a start that asks for the locks: it is new to every queue.
LEMMA EnqueueKeepsLocks ==
  ASSUME LockType, LockInv, NEW e \in Executions, pc[e] = "idle", Enqueue(e)
  PROVE  LockInv'
<1>1. /\ UNCHANGED <<locked, got>>
      /\ pc' = [pc EXCEPT ![e] = "locking"]
      /\ queue' = [x \in Exchanges |-> IF x \in Venues(e) THEN Append(queue[x], e)
                                       ELSE queue[x]]
  BY DEF Enqueue
<1>2. got[e] = {}
  BY DEF LockInv, OwnsInTry
<1>3. \A x \in Exchanges : \A i \in 1..Len(queue[x]) :
          queue[x][i] # e /\ queue[x][i] \in Executions
  BY DEF LockType, LockInv, QueuedWait
<1>4. ASSUME NEW x \in Exchanges, x \in Venues(e)
      PROVE  /\ Len(queue'[x]) = Len(queue[x]) + 1 /\ Len(queue[x]) \in Nat
             /\ queue'[x][Len(queue[x]) + 1] = e
             /\ \A i \in 1..Len(queue[x]) : queue'[x][i] = queue[x][i]
  <2>1. queue[x] \in Seq(Executions) /\ queue'[x] = Append(queue[x], e)
    BY <1>1, <1>4 DEF LockType
  <2> QED BY <2>1
<1>5. QueuedWait'
  <2> SUFFICES ASSUME NEW x \in Exchanges, NEW i \in 1..Len(queue'[x])
               PROVE  /\ pc'[queue'[x][i]] = "locking"
                      /\ x \in Venues(queue'[x][i])
                      /\ x \notin got'[queue'[x][i]]
    BY DEF QueuedWait
  <2>1. CASE x \notin Venues(e)
    BY <1>1, <1>3, <2>1 DEF LockType, LockInv, QueuedWait
  <2>2. CASE x \in Venues(e) /\ i \in 1..Len(queue[x])
    BY <1>1, <1>3, <1>4, <2>2 DEF LockType, LockInv, QueuedWait
  <2>3. CASE x \in Venues(e) /\ i = Len(queue[x]) + 1
    BY <1>1, <1>2, <1>4, <2>3 DEF LockType
  <2> QED BY <1>4, <2>1, <2>2, <2>3
<1>6. QueuedOnce'
  <2> SUFFICES ASSUME NEW x \in Exchanges,
                      NEW i \in 1..Len(queue'[x]), NEW j \in 1..Len(queue'[x]),
                      queue'[x][i] = queue'[x][j]
               PROVE  i = j
    BY DEF QueuedOnce
  <2>1. CASE x \notin Venues(e)
    BY <1>1, <2>1 DEF LockType, LockInv, QueuedOnce
  <2>2. CASE x \in Venues(e)
    <3>1. /\ i \in 1..Len(queue[x]) \/ i = Len(queue[x]) + 1
          /\ j \in 1..Len(queue[x]) \/ j = Len(queue[x]) + 1
      BY <1>4, <2>2
    <3>2. CASE i \in 1..Len(queue[x]) /\ j \in 1..Len(queue[x])
      <4>1. queue[x][i] = queue[x][j]
        BY <1>4, <2>2, <3>2
      <4> QED BY <3>2, <4>1 DEF LockInv, QueuedOnce
    <3>3. CASE i = Len(queue[x]) + 1 /\ j \in 1..Len(queue[x])
      BY <1>3, <1>4, <2>2, <3>3
    <3>4. CASE i \in 1..Len(queue[x]) /\ j = Len(queue[x]) + 1
      BY <1>3, <1>4, <2>2, <3>4
    <3> QED BY <3>1, <3>2, <3>3, <3>4
  <2> QED BY <2>1, <2>2
<1>7. OneOwner'
  BY <1>1 DEF LockInv, OneOwner
<1>8. OwnsInTry'
  BY <1>1, InTryPcs DEF LockType, LockInv, OwnsInTry, Owns
<1> QED BY <1>5, <1>6, <1>7, <1>8 DEF LockInv

\* The grant of a free lock preserves it: nobody had that lock, and the task
\* that gets it waits nowhere else for it.
LEMMA GrantKeepsLocks ==
  ASSUME LockType, LockInv, NEW x \in Exchanges, Grant(x)
  PROVE  LockInv'
<1> DEFINE h == Head(queue[x])
<1>1. /\ ~locked[x] /\ queue[x] # <<>>
      /\ locked' = [locked EXCEPT ![x] = TRUE]
      /\ got' = [got EXCEPT ![h] = got[h] \cup {x}]
      /\ queue' = [queue EXCEPT ![x] = Tail(queue[x])]
      /\ UNCHANGED pc
  BY DEF Grant
<1>2. /\ queue[x] \in Seq(Executions) /\ Len(queue[x]) \in Nat /\ Len(queue[x]) > 0
      /\ h = queue[x][1] /\ h \in Executions
      /\ Len(Tail(queue[x])) = Len(queue[x]) - 1
      /\ \A i \in 1..(Len(queue[x]) - 1) : Tail(queue[x])[i] = queue[x][i + 1]
  BY <1>1 DEF LockType
<1>3. pc[h] = "locking" /\ x \in Venues(h) /\ x \notin got[h]
  BY <1>2 DEF LockInv, QueuedWait
<1>4. \A f \in Executions : x \notin got[f]
  BY <1>1 DEF LockInv, OneOwner
<1> HIDE DEF h
<1>5. \A y \in Exchanges : \A i \in 1..Len(queue'[y]) :
          \E j \in 1..Len(queue[y]) : /\ queue'[y][i] = queue[y][j]
                                      /\ j = (IF y = x THEN i + 1 ELSE i)
  <2> TAKE y \in Exchanges
  <2>1. CASE y = x
    <3>1. queue'[y] = Tail(queue[x])
      BY <1>1, <2>1 DEF LockType
    <3> QED BY <1>2, <2>1, <3>1
  <2>2. CASE y # x
    <3>1. queue'[y] = queue[y]
      BY <1>1, <2>2 DEF LockType
    <3> QED BY <2>2, <3>1
  <2> QED BY <2>1, <2>2
<1>6. QueuedOnce'
  <2> SUFFICES ASSUME NEW y \in Exchanges,
                      NEW i \in 1..Len(queue'[y]), NEW j \in 1..Len(queue'[y]),
                      queue'[y][i] = queue'[y][j]
               PROVE  i = j
    BY DEF QueuedOnce
  <2> QED BY <1>5 DEF LockInv, QueuedOnce
<1>7. QueuedWait'
  <2> SUFFICES ASSUME NEW y \in Exchanges, NEW i \in 1..Len(queue'[y])
               PROVE  /\ pc'[queue'[y][i]] = "locking"
                      /\ y \in Venues(queue'[y][i])
                      /\ y \notin got'[queue'[y][i]]
    BY DEF QueuedWait
  <2>1. PICK j \in 1..Len(queue[y]) : /\ queue'[y][i] = queue[y][j]
                                      /\ j = (IF y = x THEN i + 1 ELSE i)
    BY <1>5
  <2>2. /\ pc[queue[y][j]] = "locking" /\ y \in Venues(queue[y][j])
        /\ y \notin got[queue[y][j]] /\ queue[y][j] \in Executions
    BY DEF LockType, LockInv, QueuedWait
  <2>3. CASE y # x
    BY <1>1, <2>1, <2>2, <2>3 DEF LockType
  <2>4. CASE y = x
    <3>1. queue[x][j] # h
      <4>1. j # 1
        BY <2>1, <2>4
      <4>2. 1 \in 1..Len(queue[x]) /\ j \in 1..Len(queue[x])
        BY <1>2, <2>4
      <4> QED BY <1>2, <4>1, <4>2 DEF LockInv, QueuedOnce
    <3> QED BY <1>1, <2>1, <2>2, <2>4, <3>1 DEF LockType
  <2> QED BY <2>3, <2>4
<1>8. OneOwner'
  <2>1. \A f \in Executions : got'[f] = IF f = h THEN got[h] \cup {x} ELSE got[f]
    BY <1>1, <1>2 DEF LockType
  <2>2. \A y \in Exchanges : locked'[y] = (y = x \/ locked[y])
    BY <1>1 DEF LockType
  <2>3. ASSUME NEW f \in Executions, NEW y \in got'[f]
        PROVE  locked'[y] /\ y \in Venues(f)
    <3>1. y \in got[f] \/ (f = h /\ y = x)
      BY <2>1, <2>3
    <3>2. CASE y \in got[f]
      <4>1. y \in Exchanges
        BY <3>2 DEF LockType
      <4>2. locked[y] /\ y \in Venues(f)
        BY <3>2 DEF LockInv, OneOwner
      <4> QED BY <2>2, <4>1, <4>2
    <3>3. CASE f = h /\ y = x
      BY <1>3, <2>2, <3>3
    <3> QED BY <3>1, <3>2, <3>3
  <2>4. ASSUME NEW f \in Executions, NEW g \in Executions, NEW y \in got'[f] \cap got'[g]
        PROVE  f = g
    BY <1>4, <2>1, <2>4 DEF LockInv, OneOwner
  <2> QED BY <2>3, <2>4 DEF OneOwner
<1>9. OwnsInTry'
  <2>1. \A f \in Executions : f # h => got'[f] = got[f]
    BY <1>1 DEF LockType
  <2> QED BY <1>1, <1>3, <2>1, InTryPcs DEF LockInv, OwnsInTry, Owns
<1> QED BY <1>6, <1>7, <1>8, <1>9 DEF LockInv

\* No two executions work on one exchange at a time, whatever the executions,
\* their exchanges and their outcomes: the locks held by a task are its own
\* until it unlocks them itself.
THEOREM ExchangesExclusive == Spec => []MutualExclusion
<1>1. Init => LockInv
  BY InTryPcs DEF Init, LockInv, QueuedWait, QueuedOnce, OneOwner, OwnsInTry
<1>2. TypeOK => LockType
  BY DEF TypeOK, LockType, Pcs
<1>3. TypeOK /\ LockInv /\ [Next]_vars => LockInv'
  <2> SUFFICES ASSUME LockType, LockInv, LockStep PROVE LockInv'
    BY <1>2, NextIsLockStep
  <2>1. CASE UNCHANGED <<pc, locked, queue, got>>
    <3>1. QueuedWait' /\ QueuedOnce'
      BY <2>1 DEF LockInv, QueuedWait, QueuedOnce
    <3>2. OneOwner' /\ OwnsInTry'
      BY <2>1 DEF LockInv, OneOwner, OwnsInTry, Owns
    <3> QED BY <3>1, <3>2 DEF LockInv
  <2>2. ASSUME NEW e \in Executions, pc[e] = "idle", Reject(e) \/ Enqueue(e)
        PROVE  LockInv'
    BY <2>2, RejectKeepsLocks, EnqueueKeepsLocks
  <2>3. ASSUME NEW e \in Executions, Holds(e), NEW where \in InTry, Goto(e, where)
        PROVE  LockInv'
    BY <2>3, GotoKeepsLocks
  <2>4. ASSUME NEW e \in Executions, Holds(e), NEW r \in Statuses, Leave(e, r)
        PROVE  LockInv'
    BY <2>4, LeaveKeepsLocks
  <2>5. ASSUME NEW x \in Exchanges, Grant(x) PROVE LockInv'
    BY <2>5, GrantKeepsLocks
  <2> QED BY <2>1, <2>2, <2>3, <2>4, <2>5 DEF LockStep
<1>4. LockInv => MutualExclusion
  <2> SUFFICES ASSUME LockInv, NEW x \in Exchanges, NEW e \in Executions,
                      NEW f \in Executions, InCritical(e, x), InCritical(f, x)
               PROVE  e = f
    BY DEF MutualExclusion
  <2>1. x \in got[e] /\ x \in got[f]
    BY DEF InCritical, LockInv, OwnsInTry, Owns
  <2> QED BY <2>1 DEF LockInv, OneOwner
<1> QED BY <1>1, <1>3, <1>4, TypeCorrect, PTL DEF Spec

-----------------------------------------------------------------------------
(***************************************************************************)
(* What an execution has done when it returns, for every amount, price and *)
(* lot step and every answer an exchange may give: a success is hedged,    *)
(* and whatever else was reported filled, closed or lost has been dealt    *)
(* with.  The invariant says for every suspension point what the records   *)
(* of both legs look like there.                                           *)
(***************************************************************************)

(* What the executor knows of a leg, and how an answer or a rollback       *)
(* changes it.  What the exchange does behind its back (filled, unwound,   *)
(* resting) is not part of it.                                             *)

SameBook(a, b) ==
  /\ a.res = b.res /\ a.qty = b.qty /\ a.reported = b.reported
  /\ a.undo = b.undo /\ a.registered = b.registered

Fresh(leg) == leg.res = "unsent" /\ leg.reported = 0 /\ leg.undo = "none" /\ ~leg.registered

\* the order was placed and answered
Replied(a, b) ==
  /\ b.qty = a.qty /\ b.undo = a.undo /\ b.registered = a.registered
  /\ b.res \in {"trade", "failed"} /\ b.reported \in Nat /\ b.reported <= b.qty
  /\ b.res = "failed" => b.reported = 0

\* its rollback was attempted
Undone(a, b) ==
  /\ b.res = a.res /\ b.qty = a.qty /\ b.reported = a.reported
  /\ b.undo \in {"ok", "failed", "benign"} /\ b.registered = a.registered

\* A placement is a reply: no answer reports more than was ordered, and a lost
\* answer reports nothing.
LEMMA PlacementReplies ==
  ASSUME NEW e \in Executions, NEW l \in Legs, legs[e][l] \in LegRecord,
         NEW o \in Placements(e, l)
  PROVE  Replied(legs[e][l], o)
<1> DEFINE leg == legs[e][l]
           fates == {p \in Fillable(e, l) \X BOOLEAN : p[2] => p[1] < leg.qty}
           halves == {p \in Fillable(e, l) \X Fillable(e, l) :
                          e \in Split /\ 0 < p[2] /\ p[2] < p[1]}
<1>1. leg.qty \in Nat
  BY DEF LegRecord
<1>2. \A f \in Fillable(e, l) : f \in Nat /\ f <= leg.qty
  <2>1. \A q \in Nat : \A f \in Fills(q) : f \in Nat /\ f <= q
    BY ConstantsAssumption DEF Fills
  <2>2. \A f \in Fillable(e, l) : f \in Fills(leg.qty) \/ f = 0
    BY Zenon DEF Fillable
  <2> QED BY <1>1, <2>1, <2>2
<1>3. \/ o \in {Answered(leg, "trade", p[1], p[1], p[2]) : p \in fates}
      \/ o \in {Answered(leg, "failed", p[1], 0, p[2]) : p \in fates}
      \/ o \in {Answered(leg, "trade", p[1], p[2], FALSE) : p \in halves}
      \/ o = Answered(leg, "trade", 0, leg.qty, FALSE)
  BY Zenon DEF Placements
<1>4. /\ \A p \in fates : p[1] \in Fillable(e, l) /\ p[2] \in BOOLEAN
      /\ \A p \in halves : p[1] \in Fillable(e, l) /\ p[2] \in Fillable(e, l)
  OBVIOUS
<1> HIDE DEF fates, halves
<1>5. \E res \in {"trade", "failed"}, f \in Nat, rep \in Nat, w \in BOOLEAN :
          /\ o = Answered(leg, res, f, rep, w)
          /\ rep <= leg.qty /\ (res = "failed" => rep = 0)
  <2> DEFINE Good(res, f, rep, w) ==
                 /\ o = Answered(leg, res, f, rep, w)
                 /\ rep <= leg.qty /\ (res = "failed" => rep = 0)
  <2>1. CASE o \in {Answered(leg, "trade", p[1], p[1], p[2]) : p \in fates}
    <3>1. PICK p \in fates : o = Answered(leg, "trade", p[1], p[1], p[2])
      BY <2>1
    <3>2. Good("trade", p[1], p[1], p[2]) /\ p[1] \in Nat /\ p[2] \in BOOLEAN
      BY <1>2, <1>4, <3>1
    <3> HIDE DEF Good
    <3>3. \E res \in {"trade", "failed"}, f \in Nat, rep \in Nat, w \in BOOLEAN :
              Good(res, f, rep, w)
      BY <3>2
    <3> QED BY <3>3 DEF Good
  <2>2. CASE o \in {Answered(leg, "failed", p[1], 0, p[2]) : p \in fates}
    <3>1. PICK p \in fates : o = Answered(leg, "failed", p[1], 0, p[2])
      BY <2>2
    <3>2. Good("failed", p[1], 0, p[2]) /\ p[1] \in Nat /\ p[2] \in BOOLEAN
      BY <1>1, <1>2, <1>4, <3>1
    <3> HIDE DEF Good
    <3>3. \E res \in {"trade", "failed"}, f \in Nat, rep \in Nat, w \in BOOLEAN :
              Good(res, f, rep, w)
      BY <3>2
    <3> QED BY <3>3 DEF Good
  <2>3. CASE o \in {Answered(leg, "trade", p[1], p[2], FALSE) : p \in halves}
    <3>1. PICK p \in halves : o = Answered(leg, "trade", p[1], p[2], FALSE)
      BY <2>3
    <3>2. Good("trade", p[1], p[2], FALSE) /\ p[1] \in Nat /\ p[2] \in Nat
      BY <1>2, <1>4, <3>1
    <3> HIDE DEF Good
    <3>3. \E res \in {"trade", "failed"}, f \in Nat, rep \in Nat, w \in BOOLEAN :
              Good(res, f, rep, w)
      BY <3>2
    <3> QED BY <3>3 DEF Good
  <2>4. CASE o = Answered(leg, "trade", 0, leg.qty, FALSE)
    <3>1. Good("trade", 0, leg.qty, FALSE)
      BY <1>1, <2>4
    <3> HIDE DEF Good
    <3>2. \E res \in {"trade", "failed"}, f \in Nat, rep \in Nat, w \in BOOLEAN :
              Good(res, f, rep, w)
      BY <1>1, <3>1
    <3> QED BY <3>2 DEF Good
  <2> QED BY <1>3, <2>1, <2>2, <2>3, <2>4
<1>6. PICK res \in {"trade", "failed"}, f \in Nat, rep \in Nat, w \in BOOLEAN :
          /\ o = Answered(leg, res, f, rep, w)
          /\ rep <= leg.qty /\ (res = "failed" => rep = 0)
  BY <1>5
<1>7. /\ o.res = res /\ o.reported = rep /\ o.qty = leg.qty
      /\ o.undo = leg.undo /\ o.registered = leg.registered
  BY <1>6 DEF Answered, LegRecord
<1> QED BY <1>6, <1>7 DEF Replied

\* An attempt to roll a leg back records its outcome and leaves the rest.
LEMMA RollbackUndoes ==
  ASSUME NEW e \in Executions, NEW l \in Legs, legs[e][l] \in LegRecord,
         NEW u \in Nat, NEW o \in RollbackOutcomes(e, l, u)
  PROVE  Undone(legs[e][l], o.leg)
<1> DEFINE leg == legs[e][l]
<1>1. CASE u > 0
  <2> DEFINE held == Position(Venue[e][l], Closes(Opposite(LegSide(e, l))))
             done(x, undo, res) ==
                 [leg |-> [leg EXCEPT !.undo = undo, !.unwound = @ + x],
                  residual |-> res]
             fillable == {x \in 0..u : x <= held /\ (x \in {0, u, held} \cup FillGrid)}
             enough(x) == 20 * x >= 19 * u
  <2>1. o \in UnwindOutcomes(e, l, u)
    BY <1>1 DEF RollbackOutcomes
  <2>2. \E x \in Nat, undo \in {"ok", "failed", "benign"}, res \in Nat :
            o = done(x, undo, res)
    <3>1. CASE held <= 0
      <4>1. o \in {done(0, "ok", 0), done(0, "benign", 0), done(0, "failed", 0)}
        BY <2>1, <3>1 DEF UnwindOutcomes
      <4> HIDE DEF done
      <4> QED BY <4>1
    <3>2. CASE ~(held <= 0)
      <4>1. \/ \E x \in fillable : o = done(x, IF enough(x) THEN "ok" ELSE "failed",
                                               IF enough(x) THEN 0 ELSE u - x)
            \/ \E x \in fillable : o = done(x, "failed", 0)
        BY <2>1, <3>2, Zenon DEF UnwindOutcomes
      <4>2. \A x \in fillable : x \in Nat /\ u - x \in Nat
        OBVIOUS
      <4> HIDE DEF done, fillable, enough
      <4> QED BY <4>1, <4>2
    <3> QED BY <3>1, <3>2
  <2>3. PICK x \in Nat, undo \in {"ok", "failed", "benign"}, res \in Nat :
            o = done(x, undo, res)
    BY <2>2
  <2>4. o.leg = [leg EXCEPT !.undo = undo, !.unwound = @ + x]
    BY <2>3
  <2> QED BY <2>4 DEF Undone, LegRecord
<1>2. CASE ~(u > 0)
  <2>1. \/ \E w \in {FALSE, leg.resting} :
               o = [leg |-> [leg EXCEPT !.undo = "ok", !.resting = w], residual |-> 0]
        \/ o = [leg |-> [leg EXCEPT !.undo = "failed"], residual |-> 0]
    BY <1>2, Zenon DEF RollbackOutcomes, CancelOutcomes
  <2>2. \/ \E w \in {FALSE, leg.resting} :
               o.leg = [leg EXCEPT !.undo = "ok", !.resting = w]
        \/ o.leg = [leg EXCEPT !.undo = "failed"]
    BY <2>1
  <2> QED BY <2>2 DEF Undone, LegRecord
<1> QED BY <1>1, <1>2

-----------------------------------------------------------------------------
(* The invariant.                                                          *)

\* a lost answer was chased
Chased(leg) == leg.res = "failed" => leg.undo # "none"
\* a reported fill was taken back or handed to the stranded tracker
Unwound(leg) == leg.reported > 0 => leg.undo = "ok" \/ leg.registered

Hedged(e) ==
  IF e \in Cross
  THEN /\ legs[e][2].reported <= legs[e][1].reported
       /\ 5 * legs[e][2].reported >= 4 * legs[e][1].reported
  ELSE \A l \in Legs : 5 * legs[e][l].reported >= 4 * Amount[e]

\* The records of an execution's legs at the point where it is suspended.
Stage(e) ==
  /\ pc[e] \in {"idle", "locking", "place1"} => \A l \in Legs : Fresh(legs[e][l])
  /\ pc[e] = "place1" => legs[e][1].qty > 0
  /\ pc[e] \in {"cancel1", "unwind1"} => legs[e][1].reported = 0 /\ Fresh(legs[e][2])
  /\ pc[e] \in {"edge", "place2", "undo2"} =>
        legs[e][1].res = "trade" /\ legs[e][1].reported > 0
  /\ pc[e] \in {"edge", "place2"} =>
        Fresh(legs[e][2]) /\ legs[e][2].qty = legs[e][1].reported
  /\ pc[e] = "undo1" =>
        /\ legs[e][1].res = "trade" /\ Chased(legs[e][2]) /\ Unwound(legs[e][2])
        /\ e \in Closing => legs[e][2].res = "unsent"
  /\ pc[e] = "placing" => \A l \in Legs : legs[e][l].qty = Amount[e]
  /\ pc[e] = "sundo2" => legs[e][1].undo # "none"

\* What it has to show when it has returned.
Returned(e) ==
  /\ pc[e] # "done" => result[e] = "none"
  /\ pc[e] = "done" => \A l \in Legs : Chased(legs[e][l])
  /\ result[e] = "success" => Hedged(e)
  /\ result[e] \in {"rolled_back", "rollback_failed"} /\ e \notin Closing =>
        \A l \in Legs : Unwound(legs[e][l])
  /\ pc[e] = "done" /\ e \in Closing \cap Cross /\ legs[e][2].res # "unsent"
        /\ result[e] # "success"
     => legs[e][2].registered /\ result[e] = "rollback_failed"

OutcomeInv == \A e \in Executions : Stage(e) /\ Returned(e)

\* TLC's four properties are consequences of what Returned says.
LEMMA OutcomeInvImplies ==
  OutcomeInv => /\ SuccessIsHedged /\ KnownFillUnwoundOrRegistered
                /\ HalfExitRegistered /\ LostAnswerChased
<1> SUFFICES ASSUME OutcomeInv
             PROVE  /\ SuccessIsHedged /\ KnownFillUnwoundOrRegistered
                    /\ HalfExitRegistered /\ LostAnswerChased
  OBVIOUS
<1>1. \A e \in Executions : Returned(e)
  BY DEF OutcomeInv
<1>2. SuccessIsHedged
  BY <1>1, Zenon DEF Returned, SuccessIsHedged, Hedged
<1>3. KnownFillUnwoundOrRegistered
  <2> SUFFICES ASSUME NEW e \in Executions \ Closing, NEW l \in Legs,
                      result[e] \in {"rolled_back", "rollback_failed"},
                      legs[e][l].reported > 0
               PROVE  legs[e][l].undo = "ok" \/ legs[e][l].registered
    BY DEF KnownFillUnwoundOrRegistered
  <2> QED BY <1>1 DEF Returned, Unwound
<1>4. HalfExitRegistered
  <2>1. \A e \in Closing \cap Cross : Returned(e)
    BY <1>1 DEF Cross
  <2> QED BY <2>1, Zenon DEF Returned, HalfExitRegistered
<1>5. LostAnswerChased
  BY <1>1 DEF Returned, LostAnswerChased, Chased
<1> QED BY <1>2, <1>3, <1>4, <1>5

-----------------------------------------------------------------------------
(* Steps.                                                                  *)

\* the step is e's: the others stay where they are
Others(e) ==
  \A f \in Executions \ {e} :
      pc'[f] = pc[f] /\ result'[f] = result[f] /\ legs'[f] = legs[f]

\* An execution keeps its part of the invariant as long as it does not move
\* and the books of its legs do not change.
LEMMA Unmoved ==
  ASSUME NEW e \in Executions, Stage(e), Returned(e),
         pc'[e] = pc[e], result'[e] = result[e],
         \A l \in Legs : SameBook(legs[e][l], legs'[e][l])
  PROVE  Stage(e)' /\ Returned(e)'
<1>0. 1 \in Legs /\ 2 \in Legs
  BY DEF Legs
<1>1. \A l \in Legs :
          /\ Fresh(legs[e][l]) <=> Fresh(legs'[e][l])
          /\ Chased(legs[e][l]) <=> Chased(legs'[e][l])
          /\ Unwound(legs[e][l]) <=> Unwound(legs'[e][l])
  BY DEF SameBook, Fresh, Chased, Unwound
<1>2. Stage(e)'
  BY <1>0, <1>1, Zenon DEF Stage, SameBook
<1>3. Hedged(e) <=> Hedged(e)'
  BY <1>0 DEF Hedged, SameBook
<1>4. Returned(e)'
  BY <1>0, <1>1, <1>3, Zenon DEF Returned, SameBook
<1> QED BY <1>2, <1>4

\* A task that returns or moves on does so alone.
LEMMA MovesAlone ==
  ASSUME TypeOK, NEW e \in Executions
  PROVE  /\ \A r : Leave(e, r) => /\ pc'[e] = "done" /\ result'[e] = r
                                  /\ \A f \in Executions \ {e} :
                                         pc'[f] = pc[f] /\ result'[f] = result[f]
         /\ \A where : Goto(e, where) => /\ pc'[e] = where /\ result'[e] = result[e]
                                         /\ \A f \in Executions \ {e} :
                                                pc'[f] = pc[f] /\ result'[f] = result[f]
  BY DEF TypeOK, Leave, Goto

\* A change to one leg is a change to that leg only.
LEMMA ChangesLeg ==
  ASSUME TypeOK, NEW e \in Executions, NEW l \in Legs, NEW leg,
         legs' = [legs EXCEPT ![e][l] = leg]
  PROVE  /\ legs'[e][l] = leg
         /\ \A k \in Legs \ {l} : legs'[e][k] = legs[e][k]
         /\ \A f \in Executions \ {e} : legs'[f] = legs[f]
  BY DEF TypeOK

\* What StrandLeg1 leaves behind.
LEMMA StrandedOutcome ==
  ASSUME TypeOK, NEW e \in Executions, NEW o, o.leg \in LegRecord,
         StrandLeg1(e, o), Undone(legs[e][1], o.leg)
  PROVE  /\ Others(e) /\ pc'[e] = "done" /\ result'[e] = "rollback_failed"
         /\ legs'[e][2] = legs[e][2]
         /\ legs'[e][1].registered /\ legs'[e][1].undo # "none"
         /\ legs'[e][1].reported = legs[e][1].reported
<1>1. Leave(e, "rollback_failed") /\ legs' = [legs EXCEPT ![e][1] = [o.leg EXCEPT !.registered = TRUE]]
  BY DEF StrandLeg1
<1>2. 1 \in Legs /\ 2 \in Legs \ {1}
  BY DEF Legs
<1>3. /\ legs'[e][1] = [o.leg EXCEPT !.registered = TRUE]
      /\ legs'[e][2] = legs[e][2]
      /\ \A f \in Executions \ {e} : legs'[f] = legs[f]
  <2> DEFINE leg == [o.leg EXCEPT !.registered = TRUE]
  <2>1. legs' = [legs EXCEPT ![e][1] = leg]
    BY <1>1
  <2> HIDE DEF leg
  <2>2. /\ legs'[e][1] = leg
        /\ \A k \in Legs \ {1} : legs'[e][k] = legs[e][k]
        /\ \A f \in Executions \ {e} : legs'[f] = legs[f]
    BY <1>2, <2>1, ChangesLeg
  <2> QED BY <1>2, <2>2 DEF leg
<1>4. /\ legs'[e][1].registered = TRUE /\ legs'[e][1].undo = o.leg.undo
      /\ legs'[e][1].reported = o.leg.reported
  BY <1>3 DEF LegRecord
<1>5. Others(e) /\ pc'[e] = "done" /\ result'[e] = "rollback_failed"
  BY <1>1, <1>3, MovesAlone DEF Others
<1> QED BY <1>3, <1>4, <1>5 DEF Undone

\* Setting the amount of a leg keeps it fresh.
LEMMA FreshWithAmount ==
  ASSUME NEW leg \in LegRecord, Fresh(leg), NEW n
  PROVE  Fresh([leg EXCEPT !.qty = n]) /\ [leg EXCEPT !.qty = n].qty = n
<1> DEFINE b == [leg EXCEPT !.qty = n]
<1>1. b.res = leg.res /\ b.reported = leg.reported /\ b.undo = leg.undo
  BY DEF LegRecord
<1>2. b.registered = leg.registered /\ b.qty = n
  BY DEF LegRecord
<1> QED BY <1>1, <1>2 DEF Fresh

\* Syncing the lots moves on with a positive amount or gives up before any order.
LEMMA SyncOutcome ==
  ASSUME TypeOK, NEW e \in Executions, Stage(e), Returned(e), CrossSync(e)
  PROVE  Others(e) /\ Stage(e)' /\ Returned(e)'
<1> DEFINE synced(s) == IF s = 0 THEN Amount[e] ELSE (Amount[e] \div s) * s
           refused(s) == \/ s > 0 /\ synced(s) = 0
                         \/ /\ s > 0 /\ synced(s) * Price[e] > 0
                            /\ synced(s) * Price[e] < MinNotional
<1>0. /\ 1 \in Legs /\ 2 \in Legs /\ pc[e] = "locking"
      /\ \A l \in Legs : Fresh(legs[e][l]) /\ legs[e][l] \in LegRecord
  BY DEF Legs, CrossSync, Stage, TypeOK
<1>1. \/ Leave(e, "rejected") /\ UNCHANGED legs
      \/ \E n \in Nat \ {0} : /\ Goto(e, "place1")
                             /\ legs' = [legs EXCEPT ![e] =
                                    [l \in Legs |-> [legs[e][l] EXCEPT !.qty = n]]]
  <2>1. \/ Leave(e, "rejected") /\ UNCHANGED legs
        \/ \E a, b \in LotSteps :
              /\ ~refused(IF a > b THEN a ELSE b)
              /\ Goto(e, "place1")
              /\ legs' = [legs EXCEPT ![e] =
                     [l \in Legs |-> [legs[e][l] EXCEPT
                                          !.qty = synced(IF a > b THEN a ELSE b)]]]
    BY Zenon DEF CrossSync
  <2>2. ASSUME NEW s \in Nat, ~refused(s) PROVE synced(s) \in Nat \ {0}
    <3>1. Amount[e] \in Nat \ {0}
      BY ConstantsAssumption
    <3>2. CASE s = 0
      BY <3>1, <3>2
    <3>3. CASE s > 0
      <4>1. (Amount[e] \div s) * s \in Nat
        BY <3>1, <3>3, FlooredNat
      <4> QED BY <2>2, <3>3, <4>1
    <3> QED BY <3>2, <3>3
  <2>3. \A a, b \in LotSteps : (IF a > b THEN a ELSE b) \in Nat
    BY ConstantsAssumption
  <2> HIDE DEF synced, refused
  <2>4. ASSUME NEW a \in LotSteps, NEW b \in LotSteps,
               ~refused(IF a > b THEN a ELSE b), Goto(e, "place1"),
               legs' = [legs EXCEPT ![e] = [l \in Legs |->
                   [legs[e][l] EXCEPT !.qty = synced(IF a > b THEN a ELSE b)]]]
        PROVE  \E n \in Nat \ {0} : /\ Goto(e, "place1")
                                  /\ legs' = [legs EXCEPT ![e] =
                                        [l \in Legs |-> [legs[e][l] EXCEPT !.qty = n]]]
    <3> DEFINE n == synced(IF a > b THEN a ELSE b)
    <3>1. n \in Nat \ {0}
      BY <2>2, <2>3, <2>4
    <3>2. legs' = [legs EXCEPT ![e] = [l \in Legs |-> [legs[e][l] EXCEPT !.qty = n]]]
      BY ONLY <2>4
    <3> QED BY <2>4, <3>1, <3>2
  <2> QED BY <2>1, <2>4
<1>2. CASE Leave(e, "rejected") /\ UNCHANGED legs
  <2>1. Others(e) /\ pc'[e] = "done" /\ result'[e] = "rejected" /\ legs'[e] = legs[e]
    BY <1>2, MovesAlone DEF Others
  <2>2. Stage(e)'
    BY <2>1, Zenon DEF Stage
  <2>3. Returned(e)'
    BY <1>0, <2>1 DEF Returned, Fresh, Chased
  <2> QED BY <2>1, <2>2, <2>3
<1>3. ASSUME NEW n \in Nat \ {0}, Goto(e, "place1"),
             legs' = [legs EXCEPT ![e] = [l \in Legs |-> [legs[e][l] EXCEPT !.qty = n]]]
      PROVE  Others(e) /\ Stage(e)' /\ Returned(e)'
  <2>1. /\ pc'[e] = "place1" /\ result'[e] = result[e]
        /\ \A l \in Legs : legs'[e][l] = [legs[e][l] EXCEPT !.qty = n]
        /\ Others(e)
    BY <1>3, MovesAlone DEF Others, TypeOK
  <2>2. \A l \in Legs : Fresh(legs'[e][l]) /\ legs'[e][l].qty = n
    <3> TAKE l \in Legs
    <3> DEFINE leg == legs[e][l]
    <3>1. leg \in LegRecord /\ Fresh(leg) /\ legs'[e][l] = [leg EXCEPT !.qty = n]
      BY <1>0, <2>1
    <3> HIDE DEF leg
    <3>2. Fresh([leg EXCEPT !.qty = n]) /\ [leg EXCEPT !.qty = n].qty = n
      BY <3>1, FreshWithAmount
    <3> QED BY <3>1, <3>2
  <2>3. Stage(e)'
    <3>1. legs'[e][1].qty = n
      BY <1>0, <2>2
    <3>2. legs'[e][1].qty > 0
      BY <3>1
    <3> QED BY <2>1, <2>2, <3>2 DEF Stage
  <2>4. Returned(e)'
    BY <1>0, <2>1 DEF Returned
  <2> QED BY <2>1, <2>3, <2>4
<1> QED BY <1>1, <1>2, <1>3

\* The first leg's answer decides where the execution goes on.
LEMMA Place1Outcome ==
  ASSUME TypeOK, NEW e \in Executions, Stage(e), Returned(e), CrossPlace1(e)
  PROVE  Others(e) /\ Stage(e)' /\ Returned(e)'
<1>z. 1 \in Legs /\ 2 \in Legs \ {1}
  BY DEF Legs
<1>0. /\ 1 \in Legs /\ 2 \in Legs \ {1} /\ pc[e] = "place1" /\ result[e] = "none"
      /\ \A l \in Legs : Fresh(legs[e][l]) /\ legs[e][l] \in LegRecord
      /\ legs[e][1].qty > 0 /\ legs[e][1].qty \in Nat
  BY DEF Legs, CrossPlace1, Stage, Returned, TypeOK, LegRecord
<1>1. PICK leg \in Placements(e, 1) :
          \/ /\ leg.res = "failed" /\ Goto(e, "cancel1")
             /\ legs' = [legs EXCEPT ![e][1] = leg]
          \/ /\ leg.res # "failed" /\ BelowThreshold(leg) /\ Goto(e, "undo1")
             /\ legs' = [legs EXCEPT ![e][1] = leg]
          \/ /\ leg.res # "failed" /\ ~BelowThreshold(leg) /\ Goto(e, "edge")
             /\ legs' = [legs EXCEPT ![e][1] = leg, ![e][2].qty = leg.reported]
  BY Zenon DEF CrossPlace1
<1>2. Replied(legs[e][1], leg)
  BY <1>0, PlacementReplies
<1>3. CASE leg.res = "failed" /\ Goto(e, "cancel1") /\ legs' = [legs EXCEPT ![e][1] = leg]
  <2>0. /\ legs'[e][1] = leg /\ legs'[e][2] = legs[e][2]
        /\ \A f \in Executions \ {e} : legs'[f] = legs[f]
    BY <1>z, <1>3 DEF TypeOK
  <2>1. /\ Others(e) /\ pc'[e] = "cancel1" /\ result'[e] = "none"
        /\ legs'[e][1] = leg /\ legs'[e][2] = legs[e][2]
    BY <1>0, <1>3, <2>0, MovesAlone DEF Others
  <2>2. Stage(e)'
    BY <1>0, <1>2, <1>3, <2>1 DEF Stage, Replied
  <2>3. Returned(e)'
    BY <2>1 DEF Returned
  <2> QED BY <2>1, <2>2, <2>3
<1>4. CASE leg.res # "failed" /\ Goto(e, "undo1") /\ legs' = [legs EXCEPT ![e][1] = leg]
  <2>0. /\ legs'[e][1] = leg /\ legs'[e][2] = legs[e][2]
        /\ \A f \in Executions \ {e} : legs'[f] = legs[f]
    BY <1>z, <1>4 DEF TypeOK
  <2>1. /\ Others(e) /\ pc'[e] = "undo1" /\ result'[e] = "none"
        /\ legs'[e][1] = leg /\ legs'[e][2] = legs[e][2]
    BY <1>0, <1>4, <2>0, MovesAlone DEF Others
  <2>2. Stage(e)'
    BY <1>0, <1>2, <1>4, <2>1 DEF Stage, Replied, Fresh, Chased, Unwound
  <2>3. Returned(e)'
    BY <2>1 DEF Returned
  <2> QED BY <2>1, <2>2, <2>3
<1>5. CASE /\ leg.res # "failed" /\ ~BelowThreshold(leg) /\ Goto(e, "edge")
           /\ legs' = [legs EXCEPT ![e][1] = leg, ![e][2].qty = leg.reported]
  <2>0. /\ legs'[e][1] = leg /\ legs'[e][2] = [legs[e][2] EXCEPT !.qty = leg.reported]
        /\ \A f \in Executions \ {e} : legs'[f] = legs[f]
    BY <1>z, <1>5 DEF TypeOK
  <2>1. /\ Others(e) /\ pc'[e] = "edge" /\ result'[e] = "none"
        /\ legs'[e][1] = leg /\ legs'[e][2] = [legs[e][2] EXCEPT !.qty = leg.reported]
    BY <1>0, <1>5, <2>0, MovesAlone DEF Others
  <2>2. leg.reported > 0
    BY <1>0, <1>2, <1>5 DEF BelowThreshold, Replied
  <2>3. Fresh(legs'[e][2]) /\ legs'[e][2].qty = leg.reported
    BY <1>0, <2>1 DEF Fresh, LegRecord
  <2>4. Stage(e)'
    BY <1>2, <1>5, <2>1, <2>2, <2>3 DEF Stage, Replied
  <2>5. Returned(e)'
    BY <2>1 DEF Returned
  <2> QED BY <2>1, <2>4, <2>5
<1> QED BY <1>1, <1>3, <1>4, <1>5

\* Cancelling a lost first leg: an exit returns, an entry may go on to unwind it.
LEMMA Cancel1Outcome ==
  ASSUME TypeOK, NEW e \in Executions, Stage(e), Returned(e), CrossCancel1(e)
  PROVE  Others(e) /\ Stage(e)' /\ Returned(e)'
<1>0. 1 \in Legs /\ 2 \in Legs \ {1} /\ legs[e][1] \in LegRecord
  BY DEF Legs, TypeOK
<1>1. pc[e] = "cancel1" /\ result[e] = "none" /\ legs[e][1].reported = 0 /\ Fresh(legs[e][2])
  BY DEF CrossCancel1, Stage, Returned
<1>2. PICK o \in RollbackOutcomes(e, 1, 0) :
          /\ legs' = [legs EXCEPT ![e][1] = o.leg]
          /\ Goto(e, "unwind1") \/ Leave(e, "rolled_back")
  BY Zenon DEF CrossCancel1
<1>3. Undone(legs[e][1], o.leg)
  BY <1>0, RollbackUndoes
<1>4. /\ legs'[e][1] = o.leg /\ legs'[e][2] = legs[e][2]
      /\ \A f \in Executions \ {e} : legs'[f] = legs[f]
  BY <1>0, <1>2 DEF TypeOK
<1>5. Fresh(legs'[e][2]) /\ legs'[e][1].reported = 0 /\ legs'[e][1].undo # "none"
  BY <1>1, <1>3, <1>4 DEF Undone
<1>6. CASE Goto(e, "unwind1")
  <2>1. Others(e) /\ pc'[e] = "unwind1" /\ result'[e] = "none"
    BY <1>1, <1>4, <1>6, MovesAlone DEF Others
  <2> QED BY <1>5, <2>1 DEF Stage, Returned
<1>7. CASE Leave(e, "rolled_back")
  <2>1. Others(e) /\ pc'[e] = "done" /\ result'[e] = "rolled_back"
    BY <1>4, <1>7, MovesAlone DEF Others
  <2>2. \A l \in Legs : Chased(legs'[e][l]) /\ Unwound(legs'[e][l])
    BY <1>5 DEF Legs, Fresh, Chased, Unwound
  <2>3. legs'[e][2].res = "unsent"
    BY <1>5 DEF Fresh
  <2> QED BY <2>1, <2>2, <2>3 DEF Stage, Returned
<1> QED BY <1>2, <1>6, <1>7

\* Unwinding a lost first leg: it succeeds, or the leg is registered.
LEMMA Unwind1Outcome ==
  ASSUME TypeOK, NEW e \in Executions, Stage(e), Returned(e), CrossUnwind1(e)
  PROVE  Others(e) /\ Stage(e)' /\ Returned(e)'
<1>0. 1 \in Legs /\ 2 \in Legs \ {1} /\ legs[e][1] \in LegRecord /\ legs[e][1].qty \in Nat
  BY DEF Legs, TypeOK, LegRecord
<1>1. pc[e] = "unwind1" /\ result[e] = "none" /\ legs[e][1].reported = 0 /\ Fresh(legs[e][2])
  BY DEF CrossUnwind1, Stage, Returned
<1>2. PICK o \in RollbackOutcomes(e, 1, legs[e][1].qty) :
          \/ StrandLeg1(e, o)
          \/ legs' = [legs EXCEPT ![e][1] = o.leg] /\ Leave(e, "rolled_back")
  BY Zenon DEF CrossUnwind1
<1>3. Undone(legs[e][1], o.leg) /\ o.leg \in LegRecord
  BY <1>0, RollbackUndoes, RollbackType
<1>4. \E r \in {"rolled_back", "rollback_failed"} :
          /\ Others(e) /\ pc'[e] = "done" /\ result'[e] = r
          /\ legs'[e][2] = legs[e][2]
          /\ legs'[e][1].reported = 0 /\ legs'[e][1].undo # "none"
  <2>1. CASE StrandLeg1(e, o)
    BY <1>1, <1>3, <2>1, StrandedOutcome
  <2>2. CASE legs' = [legs EXCEPT ![e][1] = o.leg] /\ Leave(e, "rolled_back")
    <3>1. /\ legs'[e][1] = o.leg /\ legs'[e][2] = legs[e][2]
          /\ \A f \in Executions \ {e} : legs'[f] = legs[f]
      BY <1>0, <2>2 DEF TypeOK
    <3>2. Others(e) /\ pc'[e] = "done" /\ result'[e] = "rolled_back"
      BY <2>2, <3>1, MovesAlone DEF Others
    <3> QED BY <1>1, <1>3, <3>1, <3>2 DEF Undone
  <2> QED BY <1>2, <2>1, <2>2
<1>5. \A l \in Legs : Chased(legs'[e][l]) /\ Unwound(legs'[e][l])
  BY <1>1, <1>4 DEF Legs, Fresh, Chased, Unwound
<1>6. legs'[e][2].res = "unsent"
  BY <1>1, <1>4 DEF Fresh
<1> QED BY <1>4, <1>5, <1>6 DEF Stage, Returned

\* The edge check goes one way or the other; leg 2 has not been sent yet.
LEMMA EdgeOutcome ==
  ASSUME TypeOK, NEW e \in Executions, Stage(e), Returned(e), CrossEdge(e)
  PROVE  Others(e) /\ Stage(e)' /\ Returned(e)'
<1>1. /\ pc[e] = "edge" /\ result[e] = "none" /\ legs' = legs
      /\ legs[e][1].res = "trade" /\ legs[e][1].reported > 0
      /\ Fresh(legs[e][2]) /\ legs[e][2].qty = legs[e][1].reported
  BY DEF CrossEdge, Stage, Returned
<1>2. /\ Others(e) /\ result'[e] = "none"
      /\ pc'[e] \in {"undo1", "place2"}
  BY <1>1, MovesAlone DEF CrossEdge, Others
<1>3. Chased(legs[e][2]) /\ Unwound(legs[e][2]) /\ legs[e][2].res = "unsent"
  BY <1>1 DEF Fresh, Chased, Unwound
<1>4. Stage(e)'
  BY <1>1, <1>2, <1>3 DEF Stage
<1> QED BY <1>2, <1>4 DEF Returned

\* The second leg's answer: hedged to 80% of the first, or taken back.
LEMMA Place2Outcome ==
  ASSUME TypeOK, NEW e \in Executions, Stage(e), Returned(e), CrossPlace2(e), e \in Cross
  PROVE  Others(e) /\ Stage(e)' /\ Returned(e)'
<1>0. 1 \in Legs /\ 2 \in Legs /\ \A l \in Legs : legs[e][l] \in LegRecord
  BY DEF Legs, TypeOK
<1>1. /\ pc[e] = "place2" /\ result[e] = "none"
      /\ legs[e][1].res = "trade" /\ legs[e][1].reported > 0 /\ legs[e][1].reported \in Nat
      /\ Fresh(legs[e][2]) /\ legs[e][2].qty = legs[e][1].reported
  BY <1>0 DEF CrossPlace2, Stage, Returned, LegRecord
<1>2. PICK leg \in Placements(e, 2) :
          /\ legs' = [legs EXCEPT ![e][2] = leg]
          /\ IF leg.res = "failed" \/ BelowThreshold(leg)
             THEN Goto(e, "undo2") ELSE Leave(e, "success")
  BY Zenon DEF CrossPlace2
<1>3. Replied(legs[e][2], leg)
  BY <1>0, PlacementReplies
<1>4. /\ legs'[e][2] = leg /\ legs'[e][1] = legs[e][1]
      /\ \A f \in Executions \ {e} : legs'[f] = legs[f]
  BY <1>0, <1>2 DEF TypeOK, Legs
<1>5. CASE Goto(e, "undo2")
  <2>1. Others(e) /\ pc'[e] = "undo2" /\ result'[e] = "none"
    BY <1>1, <1>4, <1>5, MovesAlone DEF Others
  <2> QED BY <1>1, <1>4, <2>1 DEF Stage, Returned
<1>6. CASE leg.res # "failed" /\ ~BelowThreshold(leg) /\ Leave(e, "success")
  <2>1. Others(e) /\ pc'[e] = "done" /\ result'[e] = "success"
    BY <1>4, <1>6, MovesAlone DEF Others
  <2>2. Hedged(e)'
    BY <1>1, <1>3, <1>4, <1>6 DEF Hedged, Replied, BelowThreshold
  <2>3. \A l \in Legs : Chased(legs'[e][l])
    BY <1>1, <1>4, <1>6 DEF Legs, Chased
  <2> QED BY <2>1, <2>2, <2>3 DEF Stage, Returned
<1> QED BY <1>2, <1>5, <1>6

\* leg is what is left of leg 2 after the rollback o, registered or not
Leg2Book(e, o, b, leg) ==
  /\ leg.res = legs[e][2].res /\ leg.reported = legs[e][2].reported
  /\ leg.undo = o.leg.undo /\ leg.registered = b
  /\ leg.res = "failed" => leg.undo # "none"

\* The rollback of leg 2 chases a lost answer and keeps what was reported.
LEMMA Leg2Undone ==
  ASSUME TypeOK, NEW e \in Executions, NEW o \in Leg2Outcomes(e), NEW b \in BOOLEAN
  PROVE  Leg2Book(e, o, b, [o.leg EXCEPT !.registered = b])
<1>0. /\ 2 \in Legs /\ legs[e][2] \in LegRecord /\ legs[e][2].reported \in Nat
  BY DEF Legs, TypeOK, LegRecord
<1>1. CASE legs[e][2].res = "failed" \/ legs[e][2].reported > 0
  <2>1. o \in RollbackOutcomes(e, 2, legs[e][2].reported)
    BY <1>1, Zenon DEF Leg2Outcomes
  <2>2. Undone(legs[e][2], o.leg) /\ o.leg \in LegRecord
    BY <1>0, <2>1, RollbackUndoes, RollbackType
  <2> QED BY <2>2 DEF Undone, LegRecord, Leg2Book
<1>2. CASE ~(legs[e][2].res = "failed" \/ legs[e][2].reported > 0)
  <2>1. o = [leg |-> legs[e][2], residual |-> 0]
    BY <1>2, Zenon DEF Leg2Outcomes
  <2>2. o.leg = legs[e][2]
    BY <2>1
  <2> QED BY <1>0, <1>2, <2>2 DEF LegRecord, Leg2Book
<1> QED BY <1>1, <1>2

\* The rollback of leg 2: an exit whose leg 1 is closed registers it and
\* returns, an entry goes on to leg 1 with leg 2 dealt with.
LEMMA Undo2Outcome ==
  ASSUME TypeOK, NEW e \in Executions, Stage(e), Returned(e), CrossUndo2(e)
  PROVE  Others(e) /\ Stage(e)' /\ Returned(e)'
<1>0. 1 \in Legs /\ 2 \in Legs /\ 1 # 2 /\ \A l \in Legs : legs[e][l] \in LegRecord
  BY DEF Legs, TypeOK
<1>1. /\ pc[e] = "undo2" /\ result[e] = "none"
      /\ legs[e][1].res = "trade" /\ legs[e][1].reported > 0
  BY DEF CrossUndo2, Stage, Returned
<1>2. PICK o \in Leg2Outcomes(e) :
          /\ legs' = [legs EXCEPT ![e][2] = [o.leg EXCEPT !.registered =
                (legs[e][2].reported > 0 /\ o.leg.undo # "ok") \/ HalfClosed(e)]]
          /\ IF HalfClosed(e) THEN Leave(e, "rollback_failed") ELSE Goto(e, "undo1")
  BY Zenon DEF CrossUndo2
<1> DEFINE b == (legs[e][2].reported > 0 /\ o.leg.undo # "ok") \/ HalfClosed(e)
<1>3. b \in BOOLEAN /\ legs' = [legs EXCEPT ![e][2] = [o.leg EXCEPT !.registered = b]]
  BY <1>2
<1>b. /\ b = TRUE <=> (legs[e][2].reported > 0 /\ o.leg.undo # "ok") \/ HalfClosed(e)
  OBVIOUS
<1> HIDE DEF b
<1>4. /\ legs'[e][2] = [o.leg EXCEPT !.registered = b] /\ legs'[e][1] = legs[e][1]
      /\ \A f \in Executions \ {e} : legs'[f] = legs[f]
  BY <1>0, <1>3 DEF TypeOK
<1>5. /\ legs'[e][2].reported = legs[e][2].reported
      /\ legs'[e][2].undo = o.leg.undo /\ legs'[e][2].registered = b
      /\ Chased(legs'[e][2]) /\ Chased(legs'[e][1])
  <2>1. Leg2Book(e, o, b, [o.leg EXCEPT !.registered = b])
    BY <1>3, Leg2Undone
  <2>2. Leg2Book(e, o, b, legs'[e][2])
    BY <1>4, <2>1
  <2> QED BY <1>1, <1>4, <2>2 DEF Chased, Leg2Book
<1>6. CASE HalfClosed(e)
  <2>1. Leave(e, "rollback_failed") /\ e \in Closing
    BY <1>2, <1>6 DEF HalfClosed
  <2>2. Others(e) /\ pc'[e] = "done" /\ result'[e] = "rollback_failed"
    BY <1>4, <2>1, MovesAlone DEF Others
  <2>3. legs'[e][2].registered = TRUE
    BY <1>3, <1>5, <1>6, <1>b
  <2>4. Stage(e)'
    BY <2>2, Zenon DEF Stage
  <2>5. \A l \in Legs : Chased(legs'[e][l])
    BY <1>5 DEF Legs
  <2> QED BY <2>1, <2>2, <2>3, <2>4, <2>5 DEF Returned
<1>7. CASE ~HalfClosed(e)
  <2>1. Goto(e, "undo1") /\ e \notin Closing
    BY <1>1, <1>2, <1>7 DEF HalfClosed
  <2>2. Others(e) /\ pc'[e] = "undo1" /\ result'[e] = "none"
    BY <1>1, <1>4, <2>1, MovesAlone DEF Others
  <2>3. legs'[e][2].reported > 0 => legs'[e][2].undo = "ok" \/ legs'[e][2].registered = TRUE
    BY <1>3, <1>5, <1>b
  <2>4. Unwound(legs'[e][2])
    BY <2>3 DEF Unwound
  <2>5. Stage(e)'
    BY <1>1, <1>4, <1>5, <2>1, <2>2, <2>4 DEF Stage
  <2> QED BY <2>2, <2>5 DEF Returned
<1> QED BY <1>6, <1>7

\* The rollback of leg 1 closes the case: it succeeds, or the leg is registered.
LEMMA Undo1Outcome ==
  ASSUME TypeOK, NEW e \in Executions, Stage(e), Returned(e), CrossUndo1(e)
  PROVE  Others(e) /\ Stage(e)' /\ Returned(e)'
<1>0. 1 \in Legs /\ 2 \in Legs /\ 1 # 2 /\ legs[e][1] \in LegRecord /\ legs[e][1].reported \in Nat
  BY DEF Legs, TypeOK, LegRecord
<1>1. /\ pc[e] = "undo1" /\ result[e] = "none"
      /\ legs[e][1].res = "trade" /\ Chased(legs[e][2]) /\ Unwound(legs[e][2])
      /\ e \in Closing => legs[e][2].res = "unsent"
  BY DEF CrossUndo1, Stage, Returned
<1>2. PICK o \in RollbackOutcomes(e, 1, legs[e][1].reported) :
          \/ StrandLeg1(e, o)
          \/ /\ o.leg.undo = "ok" /\ legs' = [legs EXCEPT ![e][1] = o.leg]
             /\ Leave(e, IF deferred[e] THEN "rollback_failed" ELSE "rolled_back")
  BY Zenon DEF CrossUndo1
<1>3. Undone(legs[e][1], o.leg) /\ o.leg \in LegRecord
  BY <1>0, RollbackUndoes, RollbackType
<1>4. \E r \in {"rolled_back", "rollback_failed"} :
          /\ Others(e) /\ pc'[e] = "done" /\ result'[e] = r
          /\ legs'[e][2] = legs[e][2]
          /\ legs'[e][1].undo # "none" /\ Unwound(legs'[e][1])
  <2>1. CASE StrandLeg1(e, o)
    <3>1. /\ Others(e) /\ pc'[e] = "done" /\ result'[e] = "rollback_failed"
          /\ legs'[e][2] = legs[e][2]
          /\ legs'[e][1].registered /\ legs'[e][1].undo # "none"
      BY <1>3, <2>1, StrandedOutcome
    <3> QED BY <3>1 DEF Unwound
  <2>2. CASE /\ o.leg.undo = "ok" /\ legs' = [legs EXCEPT ![e][1] = o.leg]
             /\ Leave(e, IF deferred[e] THEN "rollback_failed" ELSE "rolled_back")
    <3>1. /\ legs'[e][1] = o.leg /\ legs'[e][2] = legs[e][2]
          /\ \A f \in Executions \ {e} : legs'[f] = legs[f]
      BY <1>0, <2>2 DEF TypeOK
    <3>2. PICK r \in {"rolled_back", "rollback_failed"} : Leave(e, r)
      BY <2>2
    <3>3. Others(e) /\ pc'[e] = "done" /\ result'[e] = r
      BY <3>1, <3>2, MovesAlone DEF Others
    <3>4. legs'[e][1].undo # "none" /\ Unwound(legs'[e][1])
      BY <2>2, <3>1 DEF Unwound
    <3> QED BY <3>1, <3>3, <3>4
  <2> QED BY <1>2, <2>1, <2>2
<1>5. \A l \in Legs : Chased(legs'[e][l]) /\ Unwound(legs'[e][l])
  BY <1>1, <1>4 DEF Legs, Chased
<1>6. e \in Closing => legs'[e][2].res = "unsent"
  BY <1>1, <1>4
<1> QED BY <1>4, <1>5, <1>6 DEF Stage, Returned

\* On one exchange: nothing is sent before the second halt check.
LEMMA RecheckOutcome ==
  ASSUME TypeOK, NEW e \in Executions, Stage(e), Returned(e), SameRecheck(e)
  PROVE  Others(e) /\ Stage(e)' /\ Returned(e)'
<1>0. /\ pc[e] = "locking" /\ result[e] = "none"
      /\ \A l \in Legs : Fresh(legs[e][l]) /\ legs[e][l] \in LegRecord
  BY DEF SameRecheck, Stage, Returned, TypeOK
<1>1. CASE Leave(e, "rejected") /\ UNCHANGED legs
  <2>1. Others(e) /\ pc'[e] = "done" /\ result'[e] = "rejected" /\ legs'[e] = legs[e]
    BY <1>1, MovesAlone DEF Others
  <2>2. Stage(e)'
    BY <2>1, Zenon DEF Stage
  <2>3. Returned(e)'
    BY <1>0, <2>1 DEF Returned, Fresh, Chased, Cross, Legs
  <2> QED BY <2>1, <2>2, <2>3
<1>2. CASE /\ Goto(e, "placing")
           /\ legs' = [legs EXCEPT ![e] =
                  [l \in Legs |-> [legs[e][l] EXCEPT !.qty = Amount[e]]]]
  <2>1. /\ pc'[e] = "placing" /\ result'[e] = "none" /\ Others(e)
        /\ \A l \in Legs : legs'[e][l] = [legs[e][l] EXCEPT !.qty = Amount[e]]
    BY <1>0, <1>2, MovesAlone DEF Others, TypeOK
  <2>2. \A l \in Legs : legs'[e][l].qty = Amount[e]
    BY <1>0, <2>1 DEF LegRecord
  <2> QED BY <2>1, <2>2 DEF Stage, Returned
<1> QED BY <1>1, <1>2 DEF SameRecheck

\* A leg that answers keeps its amount.
LEMMA SamePlaceOutcome ==
  ASSUME TypeOK, NEW e \in Executions, Stage(e), Returned(e),
         NEW l \in Legs, SamePlace(e, l)
  PROVE  Others(e) /\ Stage(e)' /\ Returned(e)'
<1>1. /\ pc[e] = "placing" /\ result[e] = "none"
      /\ \A k \in Legs : legs[e][k].qty = Amount[e] /\ legs[e][k] \in LegRecord
      /\ UNCHANGED <<pc, result>>
  BY DEF SamePlace, Stage, Returned, TypeOK
<1>2. PICK leg \in Placements(e, l) : legs' = [legs EXCEPT ![e][l] = leg]
  BY Zenon DEF SamePlace
<1>3. leg.qty = Amount[e]
  BY <1>1, PlacementReplies DEF Replied
<1>4. /\ legs'[e][l] = leg /\ \A k \in Legs \ {l} : legs'[e][k] = legs[e][k]
      /\ \A f \in Executions \ {e} : legs'[f] = legs[f]
  BY <1>2 DEF TypeOK
<1>5. \A k \in Legs : legs'[e][k].qty = Amount[e]
  BY <1>1, <1>3, <1>4
<1>6. Stage(e)' /\ Returned(e)'
  BY <1>1, <1>5 DEF Stage, Returned
<1> QED BY <1>1, <1>4, <1>6 DEF Others

\* Both legs are in: filled to the threshold, or both are taken back.
LEMMA EvaluateOutcome ==
  ASSUME TypeOK, NEW e \in Same, Stage(e), Returned(e), SameEvaluate(e)
  PROVE  Others(e) /\ Stage(e)' /\ Returned(e)'
<1>1. /\ e \in Executions /\ e \notin Cross
      /\ pc[e] = "placing" /\ result[e] = "none" /\ legs' = legs
      /\ \A l \in Legs : legs[e][l].qty = Amount[e]
  BY DEF Same, SameEvaluate, Stage, Returned
<1>2. CASE Goto(e, "sundo1")
  <2>1. Others(e) /\ pc'[e] = "sundo1" /\ result'[e] = "none"
    BY <1>1, <1>2, MovesAlone DEF Others
  <2> QED BY <2>1 DEF Stage, Returned
<1>3. CASE /\ Leave(e, "success")
           /\ \A l \in Legs : legs[e][l].res # "failed" /\ ~BelowThreshold(legs[e][l])
  <2>1. Others(e) /\ pc'[e] = "done" /\ result'[e] = "success"
    BY <1>1, <1>3, MovesAlone DEF Others
  <2>2. \A l \in Legs : /\ legs[e][l].reported \in Nat /\ Amount[e] \in Nat
    BY <1>1, ConstantsAssumption DEF TypeOK, LegRecord
  <2>3. \A l \in Legs : 5 * legs[e][l].reported >= 4 * Amount[e]
    BY <1>1, <1>3, <2>2 DEF BelowThreshold
  <2>4. Hedged(e)'
    BY <1>1, <2>3 DEF Hedged
  <2>5. \A l \in Legs : Chased(legs'[e][l])
    BY <1>1, <1>3 DEF Chased
  <2> QED BY <1>1, <2>1, <2>4, <2>5 DEF Stage, Returned
<1> QED BY <1>2, <1>3 DEF SameEvaluate

\* The rollback of leg 1 is on record when that of leg 2 starts.
LEMMA SameUndo1Outcome ==
  ASSUME TypeOK, NEW e \in Executions, Stage(e), Returned(e), SameUndo1(e)
  PROVE  Others(e) /\ Stage(e)' /\ Returned(e)'
<1>0. /\ 1 \in Legs /\ legs[e][1] \in LegRecord /\ legs[e][1].reported \in Nat
      /\ pc[e] = "sundo1" /\ result[e] = "none"
  BY DEF Legs, TypeOK, LegRecord, SameUndo1, Returned
<1>1. PICK o \in RollbackOutcomes(e, 1, legs[e][1].reported) :
          legs' = [legs EXCEPT ![e][1] = o.leg] /\ Goto(e, "sundo2")
  BY Zenon DEF SameUndo1
<1>2. Undone(legs[e][1], o.leg)
  BY <1>0, RollbackUndoes
<1>3. legs'[e][1] = o.leg /\ \A f \in Executions \ {e} : legs'[f] = legs[f]
  BY <1>0, <1>1 DEF TypeOK
<1>4. Others(e) /\ pc'[e] = "sundo2" /\ result'[e] = "none"
  BY <1>0, <1>1, <1>3, MovesAlone DEF Others
<1> QED BY <1>2, <1>3, <1>4 DEF Stage, Returned, Undone

\* After that of leg 2 every leg is taken back or registered.
LEMMA SameUndo2Outcome ==
  ASSUME TypeOK, NEW e \in Same, Stage(e), Returned(e), SameUndo2(e)
  PROVE  Others(e) /\ Stage(e)' /\ Returned(e)'
<1>0. /\ 1 \in Legs /\ 2 \in Legs /\ 1 # 2 /\ e \in Executions /\ e \notin Cross
      /\ legs[e][1] \in LegRecord /\ legs[e][2] \in LegRecord
      /\ legs[e][2].reported \in Nat
      /\ pc[e] = "sundo2" /\ result[e] = "none" /\ legs[e][1].undo # "none"
  BY DEF Legs, Same, TypeOK, LegRecord, SameUndo2, Stage, Returned
<1>1. PICK o \in RollbackOutcomes(e, 2, legs[e][2].reported) :
          /\ legs' = [legs EXCEPT
                ![e][1].registered = legs[e][1].undo # "ok",
                ![e][2] = [o.leg EXCEPT !.registered = o.leg.undo # "ok"]]
          /\ Leave(e, IF legs[e][1].undo = "ok" /\ o.leg.undo = "ok"
                      THEN "rolled_back" ELSE "rollback_failed")
  <2>1. \A o : [l \in Legs |-> IF l = 1 THEN legs[e][1].undo ELSE o.leg.undo][1]
                   = legs[e][1].undo
    BY <1>0
  <2>2. \A o : [l \in Legs |-> IF l = 1 THEN legs[e][1].undo ELSE o.leg.undo][2]
                   = o.leg.undo
    BY <1>0
  <2> QED BY <2>1, <2>2, ZenonT(30) DEF SameUndo2
<1> DEFINE b1 == legs[e][1].undo # "ok"
           b2 == o.leg.undo # "ok"
<1>2. Undone(legs[e][2], o.leg) /\ o.leg \in LegRecord
  BY <1>0, RollbackUndoes, RollbackType
<1>3. PICK r \in {"rolled_back", "rollback_failed"} : Leave(e, r)
  BY <1>1
<1>4. /\ b1 \in BOOLEAN /\ b2 \in BOOLEAN
      /\ legs[e][1].undo # "ok" => b1 = TRUE
      /\ o.leg.undo # "ok" => b2 = TRUE
      /\ legs' = [legs EXCEPT ![e][1].registered = b1,
                              ![e][2] = [o.leg EXCEPT !.registered = b2]]
  BY <1>1
<1> HIDE DEF b1, b2
<1>5. /\ legs'[e][1] = [legs[e][1] EXCEPT !.registered = b1]
      /\ legs'[e][2] = [o.leg EXCEPT !.registered = b2]
      /\ \A f \in Executions \ {e} : legs'[f] = legs[f]
  BY <1>0, <1>4 DEF TypeOK
<1>6. /\ legs'[e][1].undo = legs[e][1].undo /\ legs'[e][1].registered = b1
      /\ legs'[e][2].undo = o.leg.undo /\ legs'[e][2].registered = b2
  BY <1>0, <1>2, <1>5 DEF LegRecord
<1>7. \A l \in Legs : Chased(legs'[e][l])
  BY <1>0, <1>2, <1>6 DEF Legs, Chased, Undone
<1>8. \A l \in Legs : legs'[e][l].undo = "ok" \/ legs'[e][l].registered = TRUE
  BY <1>4, <1>6 DEF Legs
<1>9. \A l \in Legs : Unwound(legs'[e][l])
  BY <1>8 DEF Unwound
<1>10. Others(e) /\ pc'[e] = "done" /\ result'[e] = r
  BY <1>0, <1>3, <1>5, MovesAlone DEF Others
<1> QED BY <1>0, <1>7, <1>9, <1>10 DEF Stage, Returned

\* A start sends nothing, whether it asks for the locks or gives up.
LEMMA StartOutcome ==
  ASSUME TypeOK, NEW e \in Executions, Stage(e), Returned(e), Start(e)
  PROVE  Others(e) /\ Stage(e)' /\ Returned(e)'
<1>1. /\ pc[e] = "idle" /\ result[e] = "none" /\ legs' = legs
      /\ Reject(e) \/ Enqueue(e)
  BY DEF Start, CrossStart, SameStart, Reject, Enqueue, Returned
<1>2. \A l \in Legs : Fresh(legs[e][l])
  BY <1>1 DEF Stage
<1>3. CASE Reject(e)
  <2>1. Others(e) /\ pc'[e] = "done" /\ result'[e] = "rejected"
    BY <1>1, <1>3 DEF Reject, Others, TypeOK
  <2> QED BY <1>1, <1>2, <2>1 DEF Stage, Returned, Fresh, Chased, Cross, Legs
<1>4. CASE Enqueue(e)
  <2>1. Others(e) /\ pc'[e] = "locking" /\ result'[e] = "none"
    BY <1>1, <1>4 DEF Enqueue, Others, TypeOK
  <2> QED BY <1>1, <1>2, <2>1 DEF Stage, Returned
<1> QED BY <1>1, <1>3, <1>4

\* Every step of an execution is its own and keeps its part of the invariant.
LEMMA StepOutcome ==
  ASSUME TypeOK, NEW e \in Executions, Stage(e), Returned(e), Start(e) \/ Step(e)
  PROVE  Others(e) /\ Stage(e)' /\ Returned(e)'
<1>1. CASE Start(e)
  BY <1>1, StartOutcome
<1>2. CASE e \in Cross /\ CrossStep(e)
  BY <1>2, SyncOutcome, Place1Outcome, Cancel1Outcome, Unwind1Outcome,
     EdgeOutcome, Place2Outcome, Undo2Outcome, Undo1Outcome DEF CrossStep
<1>3. CASE e \in Same /\ SameStep(e)
  BY <1>3, RecheckOutcome, SamePlaceOutcome, EvaluateOutcome,
     SameUndo1Outcome, SameUndo2Outcome DEF SameStep
<1> QED BY <1>1, <1>2, <1>3 DEF Step, Same

\* A grant and the environment change no book: a late fill is news to nobody.
LEMMA QuietSteps ==
  ASSUME TypeOK, Environment \/ \E x \in Exchanges : Grant(x)
  PROVE  /\ UNCHANGED <<pc, result>>
         /\ \A f \in Executions, l \in Legs : SameBook(legs[f][l], legs'[f][l])
<1>1. CASE \E e \in Executions, k \in Legs : LateFill(e, k)
  <2>1. PICK e \in Executions, k \in Legs : LateFill(e, k)
    BY <1>1
  <2> DEFINE leg == [legs[e][k] EXCEPT !.filled = legs[e][k].qty, !.resting = FALSE]
  <2>2. /\ legs' = [legs EXCEPT ![e][k].filled = legs[e][k].qty, ![e][k].resting = FALSE]
        /\ UNCHANGED <<pc, result>>
    BY <2>1 DEF LateFill
  <2>3. \A f \in Executions, l \in Legs :
            legs'[f][l] = IF f = e /\ l = k THEN leg ELSE legs[f][l]
    BY <2>2 DEF TypeOK
  <2>4. legs[e][k] \in LegRecord
    BY DEF TypeOK
  <2>5. SameBook(legs[e][k], leg)
    BY <2>4 DEF SameBook, LegRecord
  <2>6. \A f \in Executions, l \in Legs : SameBook(legs[f][l], legs[f][l])
    BY DEF SameBook
  <2> HIDE DEF leg
  <2>7. ASSUME NEW f \in Executions, NEW l \in Legs
        PROVE  SameBook(legs[f][l], legs'[f][l])
    <3>1. CASE f = e /\ l = k
      <4>1. legs'[f][l] = leg
        BY <2>3, <3>1
      <4> QED BY <2>5, <3>1, <4>1
    <3>2. CASE ~(f = e /\ l = k)
      <4>1. legs'[f][l] = legs[f][l]
        BY <2>3, <3>2
      <4> QED BY <2>6, <4>1
    <3> QED BY <3>1, <3>2
  <2> QED BY <2>2, <2>7
<1>2. CASE ~\E e \in Executions, k \in Legs : LateFill(e, k)
  <2>1. UNCHANGED <<pc, result, legs>>
    BY <1>2 DEF Environment, ExternalHalt, ReservationLapses, DedupWindowPasses,
                StrandedKeyAges, resources, Grant
  <2> QED BY <2>1 DEF SameBook
<1> QED BY <1>1, <1>2

-----------------------------------------------------------------------------
(* The theorems.                                                           *)

LEMMA OutcomeInvInit == Init => OutcomeInv
<1> SUFFICES ASSUME Init, NEW e \in Executions PROVE Stage(e) /\ Returned(e)
  BY DEF OutcomeInv
<1>1. pc[e] = "idle" /\ result[e] = "none" /\ \A l \in Legs : Fresh(legs[e][l])
  BY DEF Init, NewLeg, Fresh
<1> QED BY <1>1 DEF Stage, Returned

LEMMA OutcomeInvStep == TypeOK /\ OutcomeInv /\ [Next]_vars => OutcomeInv'
<1> SUFFICES ASSUME TypeOK, OutcomeInv, [Next]_vars PROVE OutcomeInv'
  OBVIOUS
<1>1. \A f \in Executions : Stage(f) /\ Returned(f)
  BY DEF OutcomeInv
<1>2. \A f \in Executions, l \in Legs : SameBook(legs[f][l], legs[f][l])
  BY DEF SameBook
<1>3. ASSUME NEW e \in Executions, Start(e) \/ Step(e)
      PROVE  OutcomeInv'
  <2>1. Others(e) /\ Stage(e)' /\ Returned(e)'
    BY <1>1, <1>3, StepOutcome
  <2>2. ASSUME NEW f \in Executions, f # e PROVE Stage(f)' /\ Returned(f)'
    <3>1. pc'[f] = pc[f] /\ result'[f] = result[f] /\ legs'[f] = legs[f]
      BY <2>1, <2>2 DEF Others
    <3>2. \A l \in Legs : SameBook(legs[f][l], legs'[f][l])
      BY <1>2, <3>1
    <3> QED BY <1>1, <3>1, <3>2, Unmoved
  <2> QED BY <2>1, <2>2 DEF OutcomeInv
<1>4. ASSUME /\ UNCHANGED <<pc, result>>
             /\ \A f \in Executions, l \in Legs : SameBook(legs[f][l], legs'[f][l])
      PROVE  OutcomeInv'
  <2>1. ASSUME NEW f \in Executions PROVE Stage(f)' /\ Returned(f)'
    BY <1>1, <1>4, Unmoved
  <2> QED BY <2>1 DEF OutcomeInv
<1>5. CASE Environment \/ \E x \in Exchanges : Grant(x)
  BY <1>4, <1>5, QuietSteps
<1>6. CASE UNCHANGED vars
  BY <1>2, <1>4, <1>6 DEF vars
<1> QED BY <1>3, <1>5, <1>6 DEF Next, Terminated

LEMMA OutcomesKept == Spec => []OutcomeInv
BY OutcomeInvInit, OutcomeInvStep, TypeCorrect, PTL DEF Spec

\* A success is hedged as far as the exchanges reported, whatever the amounts,
\* the lot steps and the answers.
THEOREM SuccessHedges == Spec => []SuccessIsHedged
BY OutcomesKept, OutcomeInvImplies, PTL

\* An entry that returns without success has unwound or registered every leg
\* that reported a fill.
THEOREM KnownFillsSettled == Spec => []KnownFillUnwoundOrRegistered
BY OutcomesKept, OutcomeInvImplies, PTL

\* An exit that closed one exchange only is registered and reported as failed.
THEOREM HalfExitsReported == Spec => []HalfExitRegistered
BY OutcomesKept, OutcomeInvImplies, PTL

\* No execution returns with a lost answer that nobody followed up.
THEOREM LostAnswersChased == Spec => []LostAnswerChased
BY OutcomesKept, OutcomeInvImplies, PTL

-----------------------------------------------------------------------------
(* The halt.                                                               *)

\* the flag is up and e has not placed an order, nor is it about to
Stopped(e) == halted /\ pc[e] \in {"idle", "locking", "done"} /\ Unsent(e)

\* Nobody in the executor lowers the flag.
LEMMA HaltStays == halted /\ [Next]_vars => halted'
<1> SUFFICES ASSUME halted, [Next]_vars PROVE halted'
  OBVIOUS
<1>1. ASSUME NEW e \in Executions, Start(e) PROVE halted'
  BY <1>1 DEF Start, CrossStart, SameStart, Reject, Enqueue
<1>2. ASSUME NEW e \in Executions, CrossStep(e) PROVE halted'
  <2>1. CASE CrossSync(e) \/ CrossPlace1(e) \/ CrossCancel1(e) \/ CrossEdge(e) \/ CrossPlace2(e)
    BY <2>1 DEF CrossSync, CrossPlace1, CrossCancel1, CrossEdge, CrossPlace2
  <2>2. ASSUME NEW o, StrandLeg1(e, o) PROVE halted'
    BY <2>2 DEF StrandLeg1
  <2>3. CASE CrossUnwind1(e) \/ CrossUndo1(e)
    BY <2>2, <2>3, Zenon DEF CrossUnwind1, CrossUndo1
  <2>4. CASE CrossUndo2(e)
    BY <2>4, Zenon DEF CrossUndo2
  <2> QED BY <1>2, <2>1, <2>3, <2>4 DEF CrossStep
<1>3. ASSUME NEW e \in Executions, SameStep(e) PROVE halted'
  <2>1. CASE SameUndo2(e)
    BY <2>1, Zenon DEF SameUndo2
  <2> QED BY <1>3, <2>1 DEF SameStep, SameRecheck, SamePlace, SameEvaluate, SameUndo1
<1>4. CASE Environment \/ \E x \in Exchanges : Grant(x)
  BY <1>4 DEF Environment, LateFill, ExternalHalt, ReservationLapses, DedupWindowPasses,
              StrandedKeyAges, Grant
<1>5. CASE UNCHANGED vars
  BY <1>5 DEF vars
<1> QED BY <1>1, <1>2, <1>3, <1>4, <1>5 DEF Next, Step, Terminated

\* An execution that is stopped stays so: it can be queued, given its locks and
\* sent away, no more.
LEMMA StoppedStays ==
  ASSUME NEW e \in Executions
  PROVE  TypeOK /\ OutcomeInv /\ Stopped(e) /\ [Next]_vars => Stopped(e)'
<1> SUFFICES ASSUME TypeOK, OutcomeInv, Stopped(e), [Next]_vars PROVE Stopped(e)'
  OBVIOUS
<1>1. halted' /\ halted
  BY HaltStays DEF Stopped
<1>2. ASSUME legs'[e] = legs[e], pc'[e] \in {"idle", "locking", "done"}
      PROVE  Stopped(e)'
  BY <1>1, <1>2 DEF Stopped, Unsent
<1>3. CASE Start(e)
  <2>1. legs'[e] = legs[e] /\ pc'[e] \in {"locking", "done"}
    BY <1>3 DEF Start, CrossStart, SameStart, Reject, Enqueue, TypeOK
  <2> QED BY <1>2, <2>1
<1>4. CASE Step(e)
  <2>1. CrossSync(e) \/ SameRecheck(e)
    BY <1>4 DEF Stopped, Step, CrossStep, SameStep, CrossPlace1, CrossCancel1, CrossUnwind1,
                CrossEdge, CrossPlace2, CrossUndo2, CrossUndo1, SamePlace, SameEvaluate,
                SameUndo1, SameUndo2
  <2>2. Leave(e, "rejected") /\ UNCHANGED legs
    BY <1>1, <2>1, Zenon DEF CrossSync, SameRecheck, HaltRecheck
  <2>3. legs'[e] = legs[e] /\ pc'[e] = "done"
    BY <2>2, MovesAlone
  <2> QED BY <1>2, <2>3
<1>5. ASSUME NEW f \in Executions \ {e}, Start(f) \/ Step(f) PROVE Stopped(e)'
  <2>1. Others(f)
    BY <1>5, StepOutcome DEF OutcomeInv
  <2>2. legs'[e] = legs[e] /\ pc'[e] = pc[e]
    BY <1>5, <2>1 DEF Others
  <2> QED BY <1>2, <2>2 DEF Stopped
<1>6. CASE Environment \/ \E x \in Exchanges : Grant(x)
  <2>1. /\ pc' = pc
        /\ \A l \in Legs : SameBook(legs[e][l], legs'[e][l])
    BY <1>6, QuietSteps
  <2> QED BY <1>1, <2>1 DEF Stopped, Unsent, SameBook
<1>7. CASE UNCHANGED vars
  BY <1>2, <1>7 DEF Stopped, vars
<1> QED BY <1>3, <1>4, <1>5, <1>6, <1>7 DEF Next, Terminated

\* An execution that has not passed its second halt check when the flag is set
\* sends no order, however long it waits and whatever the others do.
THEOREM HaltStopsWaiting == Spec => HaltStopsQueued
<1> SUFFICES ASSUME NEW e \in Executions
             PROVE  Spec => [](halted /\ pc[e] \in {"idle", "locking"} => []Unsent(e))
  BY DEF HaltStopsQueued
<1> DEFINE P == halted /\ pc[e] \in {"idle", "locking"}
           I == TypeOK /\ OutcomeInv
<1>1. I /\ P => Stopped(e)
  BY DEF OutcomeInv, Stage, Stopped, Unsent, Fresh
<1>2. I /\ Stopped(e) /\ [Next]_vars => Stopped(e)'
  BY StoppedStays
<1>3. Stopped(e) => Unsent(e)
  BY DEF Stopped
<1>4. Spec => []I
  BY TypeCorrect, OutcomesKept, PTL
<1>5. Spec => [](P => []Unsent(e))
  BY <1>1, <1>2, <1>3, <1>4, PTL DEF Spec
<1> QED BY <1>5
=============================================================================
