---------------------------- MODULE SameExchange ---------------------------
(***************************************************************************)
(* AtomicExecutor.execute_same_exchange: both legs are placed in parallel  *)
(* on one exchange and, unless both are filled to the threshold, rolled    *)
(* back one after the other.                                               *)
(*                                                                         *)
(*   idle -> locking -> placing -> done                                    *)
(*                         +-> sundo1 -> sundo2 -> done                    *)
(***************************************************************************)
EXTENDS ExecutorState

SameStart(e) ==
    LET x == Venue[e][1]
    IN  /\ pc[e] = "idle"
        /\ \/ /\ halted \/ DedupKey[e] \in recentKeys
              /\ UNCHANGED <<margin, recentKeys>>
              /\ Reject(e)
           \/ /\ ~halted /\ DedupKey[e] \notin recentKeys
              /\ recentKeys' = recentKeys \cup {DedupKey[e]}
              /\ \/ /\ UNCHANGED margin       \* unhealthy, or no margin left
                    /\ Reject(e)
                 \/ /\ Fits(e, x)
                    /\ margin' = [margin EXCEPT ![x] = WithReservation(@, Need(e))]
                    /\ Enqueue(e)

\* The lock is there: the halt flag is read again.
SameRecheck(e) ==
    /\ pc[e] = "locking" /\ Owns(e)
    /\ IF HaltRecheck THEN Leave(e, "rejected") /\ UNCHANGED legs
       ELSE /\ legs' = [legs EXCEPT ![e] =
                           [l \in Legs |-> [@[l] EXCEPT !.qty = Amount[e]]]]
            /\ Goto(e, "placing")
    /\ UNCHANGED <<halted, tracker, deferred>>

\* One leg of asyncio.gather answers.
SamePlace(e, l) ==
    /\ pc[e] = "placing" /\ legs[e][l].res = "unsent"
    /\ \E leg \in Placements(e, l) : legs' = [legs EXCEPT ![e][l] = leg]
    /\ UNCHANGED <<pc, result, halted, resources, tracker, deferred>>

\* gather() returns: each leg failed, is below the threshold, or is good.
SameEvaluate(e) ==
    /\ pc[e] = "placing" /\ \A l \in Legs : legs[e][l].res # "unsent"
    /\ IF \E l \in Legs : legs[e][l].res = "failed" \/ BelowThreshold(legs[e][l])
       THEN Goto(e, "sundo1") ELSE Leave(e, "success")
    /\ UNCHANGED <<halted, tracker, legs, deferred>>

\* The rollback of leg 1: unwound by what it reported, cancelled if nothing.
SameUndo1(e) ==
    /\ pc[e] = "sundo1"
    /\ \E o \in RollbackOutcomes(e, 1, legs[e][1].reported) :
          /\ legs' = [legs EXCEPT ![e][1] = o.leg]
          /\ tracker' = AfterResidual(tracker, e, 1, o)
    /\ Goto(e, "sundo2")
    /\ UNCHANGED <<halted, deferred>>

\* The rollback of leg 2, then every leg whose rollback failed is registered.
SameUndo2(e) ==
    /\ pc[e] = "sundo2"
    /\ \E o \in RollbackOutcomes(e, 2, legs[e][2].reported) :
        LET undo == [l \in Legs |-> IF l = 1 THEN legs[e][1].undo ELSE o.leg.undo]
            key(l) == StrandedKey(e, l, LegSide(e, l))
            usd == Amount[e] * Price[e]
            t0 == AfterResidual(tracker, e, 2, o)
            add(t, l) == IF undo[l] = "ok" THEN t
                         ELSE Register(t, key(l), usd, undo[l] = "benign")
            halts(t, l) == undo[l] # "ok"
                           /\ ShouldHalt(t, key(l), usd, undo[l] = "benign")
        IN  /\ legs' = [legs EXCEPT
                   ![e][1].registered = undo[1] # "ok",
                   ![e][2] = [o.leg EXCEPT !.registered = undo[2] # "ok"]]
            /\ tracker' = add(add(t0, 1), 2)
            /\ halted' = (halted \/ halts(t0, 1) \/ halts(add(t0, 1), 2))
            /\ Leave(e, IF undo[1] = "ok" /\ undo[2] = "ok"
                        THEN "rolled_back" ELSE "rollback_failed")
    /\ UNCHANGED deferred

SameStep(e) ==
    \/ SameRecheck(e) \/ (\E l \in Legs : SamePlace(e, l))
    \/ SameEvaluate(e) \/ SameUndo1(e) \/ SameUndo2(e)
=============================================================================
