--------------------------- MODULE CrossExchange ---------------------------
(***************************************************************************)
(* AtomicExecutor.execute_cross_exchange: leg 1 on one exchange, then leg  *)
(* 2 on another, with the rollback of whatever was placed.  An action ends *)
(* where the coroutine next suspends, and stands for the answer that woke  *)
(* it and all the code up to there.  The timeout and the exception handler *)
(* of a placement do the same, so both are the answer "failed".            *)
(*                                                                         *)
(*   idle -> locking -> place1 -> edge -> place2 -> done                   *)
(*                        |        |        +-> undo2 -> undo1 -> done     *)
(*                        |        +-> undo1 -> done                       *)
(*                        +-> undo1 -> done   (filled below the threshold) *)
(*                        +-> cancel1 -> [unwind1 ->] done       (failed)  *)
(***************************************************************************)
EXTENDS ExecutorState

\* Halt check, dedup gate, health of both exchanges, both reservations; the
\* coroutine does not suspend before the lock requests are queued.  A rejected
\* start keeps its dedup key; a reservation on leg 1's venue is given back.
CrossStart(e) ==
    /\ pc[e] = "idle"
    /\ \/ /\ halted \/ DedupKey[e] \in recentKeys
          /\ UNCHANGED <<margin, recentKeys>>
          /\ Reject(e)
       \/ /\ ~halted /\ DedupKey[e] \notin recentKeys
          /\ recentKeys' = recentKeys \cup {DedupKey[e]}
          /\ \/ /\ UNCHANGED margin   \* unhealthy, or no margin left for leg 1
                /\ Reject(e)
             \/ /\ Fits(e, Venue[e][1]) /\ ~Fits(e, Venue[e][2])
                /\ margin' = [margin EXCEPT ![Venue[e][1]] =
                       WithoutReservation(WithReservation(@, Need(e)), Need(e))]
                /\ Reject(e)
             \/ /\ \A x \in Venues(e) : Fits(e, x)
                /\ margin' = [x \in Exchanges |->
                       IF x \in Venues(e) THEN WithReservation(margin[x], Need(e))
                       ELSE margin[x]]
                /\ Enqueue(e)

\* With both locks: the lot steps arrive (or fail to), both legs are floored to
\* the coarser one, and the halt flag is read again.
CrossSync(e) ==
    LET synced(s) == IF s = 0 THEN Amount[e] ELSE (Amount[e] \div s) * s
        refused(s) == \/ s > 0 /\ synced(s) = 0
                      \/ /\ s > 0 /\ synced(s) * Price[e] > 0
                         /\ synced(s) * Price[e] < MinNotional
    IN  /\ pc[e] = "locking" /\ Owns(e)
        /\ \/ /\ Leave(e, "rejected")           \* get_lot_step failed
              /\ UNCHANGED legs
           \/ \E a, b \in LotSteps :
                LET step == IF a > b THEN a ELSE b
                IN  IF refused(step) \/ HaltRecheck
                    THEN Leave(e, "rejected") /\ UNCHANGED legs
                    ELSE /\ legs' = [legs EXCEPT ![e] =
                                [l \in Legs |-> [@[l] EXCEPT !.qty = synced(step)]]]
                         /\ Goto(e, "place1")
        /\ UNCHANGED <<halted, tracker, deferred>>

\* Leg 1 is placed and answers.  At 80% or more leg 2 is cut to what was filled.
CrossPlace1(e) ==
    /\ pc[e] = "place1"
    /\ \E leg \in Placements(e, 1) :
          IF leg.res = "failed"
          THEN Goto(e, "cancel1") /\ legs' = [legs EXCEPT ![e][1] = leg]
          ELSE IF BelowThreshold(leg)
          THEN Goto(e, "undo1") /\ legs' = [legs EXCEPT ![e][1] = leg]
          ELSE /\ Goto(e, "edge")
               /\ legs' = [legs EXCEPT ![e][1] = leg, ![e][2].qty = leg.reported]
    /\ UNCHANGED <<halted, tracker, deferred>>

\* Leg 1 timed out or raised: cancel it.  If that fails, an exit is taken for
\* filled and an entry is unwound in full.
CrossCancel1(e) ==
    /\ pc[e] = "cancel1"
    /\ \E o \in RollbackOutcomes(e, 1, 0) :
          /\ legs' = [legs EXCEPT ![e][1] = o.leg]
          /\ IF o.leg.undo # "ok" /\ e \notin Closing
             THEN Goto(e, "unwind1") ELSE Leave(e, "rolled_back")
    /\ UNCHANGED <<halted, tracker, deferred>>

StrandLeg1_Unregistered(e, o) ==
    /\ legs' = [legs EXCEPT ![e][1] = o.leg]
    /\ UNCHANGED <<halted, tracker>>
    /\ Leave(e, "rollback_failed")

\* A failed rollback of leg 1 registers the leg's full amount and may halt.
StrandLeg1(e, o) ==
    LET key == StrandedKey(e, 1, LegSide(e, 1))
        usd == legs[e][1].qty * Price[e]
        benign == o.leg.undo = "benign"
        before == AfterResidual(tracker, e, 1, o)
    IN  /\ legs' = [legs EXCEPT ![e][1] = [o.leg EXCEPT !.registered = TRUE]]
        /\ tracker' = Register(before, key, usd, benign)
        /\ halted' = (halted \/ ShouldHalt(before, key, usd, benign))
        /\ Leave(e, "rollback_failed")

CrossUnwind1(e) ==
    /\ pc[e] = "unwind1"
    /\ \E o \in RollbackOutcomes(e, 1, legs[e][1].qty) :
          IF o.leg.undo # "ok" THEN StrandLeg1(e, o)
          ELSE /\ legs' = [legs EXCEPT ![e][1] = o.leg]
               /\ Leave(e, "rolled_back")
               /\ UNCHANGED <<halted, tracker>>
    /\ UNCHANGED deferred

\* The spread is read again: evaporated, or still there (or unreadable, or the
\* caller sets no min_edge).  Exits are not excepted.
CrossEdge(e) ==
    /\ pc[e] = "edge"
    /\ \/ Goto(e, "undo1")
       \/ Goto(e, "place2")
    /\ UNCHANGED <<halted, tracker, legs, deferred>>

\* Leg 2 is placed and answers; the halt flag is not read in between.
CrossPlace2(e) ==
    /\ pc[e] = "place2"
    /\ \E leg \in Placements(e, 2) :
          /\ legs' = [legs EXCEPT ![e][2] = leg]
          /\ IF leg.res = "failed" \/ BelowThreshold(leg)
             THEN Goto(e, "undo2") ELSE Leave(e, "success")
    /\ UNCHANGED <<halted, tracker, deferred>>

Leg2Outcomes_OnlyFilled(e) ==
    LET leg == legs[e][2]
    IN  IF leg.reported > 0 THEN RollbackOutcomes(e, 2, leg.reported)
        ELSE {[leg |-> leg, residual |-> 0]}

\* The rollback of leg 2: cancelled when it failed (the answer is dropped),
\* unwound when it was filled in part, left alone when acknowledged unfilled.
Leg2Outcomes(e) ==
    LET leg == legs[e][2]
    IN  IF leg.res = "failed" \/ leg.reported > 0
        THEN RollbackOutcomes(e, 2, leg.reported)
        ELSE {[leg |-> leg, residual |-> 0]}

HalfClosed_Never(e) == FALSE
\* an exit whose leg 1 was filled: its position on that exchange is closed
HalfClosed(e) == e \in Closing /\ legs[e][1].reported > 0

\* _do_rollback_cross up to the rollback of leg 1.  A stranded leg 2 defers its
\* halt; an exit whose leg 1 was filled strands leg 2's side and returns.
CrossUndo2(e) ==
    /\ pc[e] = "undo2"
    /\ \E o \in Leg2Outcomes(e) :
        LET key == StrandedKey(e, 2, LegSide(e, 2))
            filled2 == legs[e][2].reported
            strands == filled2 > 0 /\ o.leg.undo # "ok"
            benign == o.leg.undo = "benign"
            before == AfterResidual(tracker, e, 2, o)
            after == IF strands THEN Register(before, key, filled2 * Price[e], benign)
                     ELSE before
            usd1 == legs[e][1].reported * Price[e]
        IN  /\ legs' = [legs EXCEPT ![e][2] =
                            [o.leg EXCEPT !.registered = strands \/ HalfClosed(e)]]
            /\ deferred' = [deferred EXCEPT ![e] =
                   strands /\ ShouldHalt(before, key, filled2 * Price[e], benign)]
            /\ IF HalfClosed(e)
               THEN /\ tracker' = Register(after, key, usd1, FALSE)
                    /\ halted' = (halted \/ ShouldHalt(after, key, usd1, FALSE))
                    /\ Leave(e, "rollback_failed")
               ELSE /\ tracker' = after
                    /\ UNCHANGED halted
                    /\ Goto(e, "undo1")

\* The rollback of leg 1 after a partial fill, a lost edge or a failed leg 2: an
\* unwind of what it reported, a cancel if that is nothing.  When it succeeds
\* the halt leg 2 deferred is fired.
CrossUndo1(e) ==
    /\ pc[e] = "undo1"
    /\ \E o \in RollbackOutcomes(e, 1, legs[e][1].reported) :
          IF o.leg.undo # "ok" THEN StrandLeg1(e, o)
          ELSE /\ legs' = [legs EXCEPT ![e][1] = o.leg]
               /\ halted' = (halted \/ deferred[e])
               /\ Leave(e, IF deferred[e] THEN "rollback_failed" ELSE "rolled_back")
               /\ UNCHANGED tracker
    /\ UNCHANGED deferred

CrossStep(e) ==
    \/ CrossSync(e) \/ CrossPlace1(e) \/ CrossCancel1(e) \/ CrossUnwind1(e)
    \/ CrossEdge(e) \/ CrossPlace2(e) \/ CrossUndo2(e) \/ CrossUndo1(e)
=============================================================================
