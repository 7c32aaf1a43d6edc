--------------------------- MODULE ExecutorState ---------------------------
(***************************************************************************)
(* State of AtomicExecutor (src/engine/src/execution/executor.py) and of   *)
(* the collaborators every execution shares: the per-exchange asyncio      *)
(* locks, MarginTracker, DeduplicationGate, StrandedPositionTracker and    *)
(* the process-wide halt flag.  One asyncio task runs one execution; an    *)
(* execution has two legs and is either cross-exchange (sequential legs)   *)
(* or same-exchange (parallel legs).  The orders live on the exchanges,    *)
(* whose answers the executor may lose.                                    *)
(***************************************************************************)
EXTENDS Integers, Sequences, FiniteSets, FiniteSetsExt, SequencesExt

CONSTANTS
    Executions,   \* execution tasks; each runs once
    Exchanges,
    Venue,        \* Venue[e][l]: exchange_id of leg l of execution e
    Side,         \* Side[e]: side of leg 1; leg 2 has the opposite side
    Closing,      \* executions whose legs are both reduceOnly
    Split,        \* executions whose legs are placed in several chunks
    DedupKey,     \* DedupKey[e]: "strategy:symbol:open|close"
    Amount,       \* Amount[e]: requested amount of either leg
    Price,        \* Price[e]: limit price, 0 for an order without one
    Budget,       \* per_exchange_budget_usd, buffer of 15% taken out
    HaltUsd,      \* threshold of StrandedPositionTracker
    Opening,      \* Opening[x][d]: position held on x in direction d at start
    LotSteps,     \* lot steps an exchange may report; 0 means unknown
    MinNotional,  \* execution.min_trade_notional_usd
    FillGrid      \* amounts an order may be filled by, besides all of it

Legs == {1, 2}
Sides == {"buy", "sell"}
Directions == {"long", "short"}

ASSUME ConstantsAssumption ==
    /\ IsFiniteSet(Executions) /\ IsFiniteSet(Exchanges)
    /\ Venue \in [Executions -> [Legs -> Exchanges]]
    /\ Side \in [Executions -> Sides]
    /\ Closing \subseteq Executions /\ Split \subseteq Executions
    /\ Amount \in [Executions -> Nat \ {0}] /\ Price \in [Executions -> Nat]
    /\ Budget \in Nat /\ HaltUsd \in Nat /\ MinNotional \in Nat
    /\ Opening \in [Exchanges -> [Directions -> Nat]]
    /\ LotSteps \subseteq Nat /\ LotSteps # {}
    /\ FillGrid \subseteq Nat

VARIABLES
    pc,         \* pc[e]: where task e is suspended
    result,     \* result[e]: ExecutionResult.status, "none" until it returns
    halted,     \* _HALT_FLAG
    locked,     \* locked[x]: asyncio.Lock of exchange x is held (it has no owner)
    queue,      \* queue[x]: tasks waiting for that lock, oldest first
    got,        \* got[e]: locks whose acquire() has returned in task e
    margin,     \* margin[x]: live MarginTracker entries of x, oldest first
    lapsed,     \* history: exchanges on which a reservation reached its TTL
    recentKeys, \* DeduplicationGate keys inside their window
    tracker,    \* StrandedPositionTracker: total value, keys seen in the last 5 s
    legs,       \* legs[e][l]: the order of leg l, at the exchange and as reported
    deferred    \* deferred[e]: _leg2_halt of _do_rollback_cross

resources == <<locked, queue, got, margin, lapsed, recentKeys>>
vars == <<pc, result, halted, resources, tracker, legs, deferred>>

-----------------------------------------------------------------------------
(* Orders and positions.                                                   *)

Opposite(s) == IF s = "buy" THEN "sell" ELSE "buy"
LegSide(e, l) == IF l = 1 THEN Side[e] ELSE Opposite(Side[e])
Opens(s) == IF s = "buy" THEN "long" ELSE "short"
Closes(s) == Opens(Opposite(s))
Venues(e) == {Venue[e][l] : l \in Legs}
Cross == {e \in Executions : Venue[e][1] # Venue[e][2]}
Same == Executions \ Cross

\* What leg l of execution e has added to the position of direction d: an entry
\* opens a position and its unwind closes it again; an exit closes one, and
\* its "unwind" (also reduceOnly) would close the opposite direction.
Contribution(e, l, d) ==
    IF e \in Closing
    THEN (IF d = Closes(LegSide(e, l)) THEN -legs[e][l].filled ELSE 0)
         - (IF d = Opens(LegSide(e, l)) THEN legs[e][l].unwound ELSE 0)
    ELSE IF d = Opens(LegSide(e, l))
         THEN legs[e][l].filled - legs[e][l].unwound ELSE 0

LegsOn(x) == {el \in Executions \X Legs : Venue[el[1]][el[2]] = x}

\* The position the exchange holds: what a reduceOnly order can close.
Position(x, d) ==
    Opening[x][d]
    + MapThenSumSet(LAMBDA el : Contribution(el[1], el[2], d), LegsOn(x))

NewLeg == [res |-> "unsent", qty |-> 0, filled |-> 0, resting |-> FALSE,
           reported |-> 0, undo |-> "none", unwound |-> 0, registered |-> FALSE]

LegRecord ==
    [res : {"unsent", "trade", "failed"},       \* what place_order gave back
     qty : Nat, filled : Nat, resting : BOOLEAN,  \* the order at the exchange
     reported : Nat,                            \* LegResult.filled_amount
     undo : {"none", "ok", "failed", "benign"}, \* last _rollback_order
     unwound : Nat,                             \* closed again at the exchange
     registered : BOOLEAN]                      \* handed to the stranded tracker

Fills(q) == {f \in FillGrid : f <= q} \cup {q}

\* What the exchange may fill of leg l: no more of an exit than the position.
Fillable(e, l) ==
    LET q == legs[e][l].qty
        held == Position(Venue[e][l], Closes(LegSide(e, l)))
    IN  IF e \in Closing THEN {f \in Fills(q) : f <= held} \cup {0} ELSE Fills(q)

Answered(leg, res, filled, reported, resting) ==
    [leg EXCEPT !.res = res, !.filled = filled, !.reported = reported,
                !.resting = resting]

\* _place_maybe_split: a Trade (perhaps partial, perhaps with the remainder
\* resting: limit orders are good-till-cancelled) or an exception, after which
\* the order may be filled, resting or unknown to the exchange.  When a chunk
\* of a split order fails after another was filled, the Trade leaves out what
\* the failed chunk bought.  A reduceOnly order without a position to reduce
\* is reported as completely filled.
Placements(e, l) ==
    LET leg == legs[e][l]
        ghost == e \in Closing /\ Position(Venue[e][l], Closes(LegSide(e, l))) <= 0
        \* how much is filled, and whether the remainder rests
        fates == {p \in Fillable(e, l) \X BOOLEAN : p[2] => p[1] < leg.qty}
    IN  {Answered(leg, "trade", p[1], p[1], p[2]) : p \in fates}
        \cup {Answered(leg, "failed", p[1], 0, p[2]) : p \in fates}
        \cup {Answered(leg, "trade", p[1], p[2], FALSE) :
                  p \in {p \in Fillable(e, l) \X Fillable(e, l) :
                             e \in Split /\ 0 < p[2] /\ p[2] < p[1]}}
        \cup (IF ghost THEN {Answered(leg, "trade", 0, leg.qty, FALSE)} ELSE {})

BelowThreshold_Unfilled(leg) == leg.reported = 0 /\ leg.qty > 0

\* fill_ratio < partial_fill_threshold (0.80)
BelowThreshold(leg) == 5 * leg.reported < 4 * leg.qty

-----------------------------------------------------------------------------
(* StrandedPositionTracker.register.  Entries outlive the model (TTL 1 h); *)
(* a benign reason or a key seen within 5 s leaves the tracker alone, and  *)
(* only an entry that is appended can report that the threshold is passed. *)

StrandedKey(e, l, s) == <<Venue[e][l], s>>
Appends(t, key, benign) == ~benign /\ key \notin t.recent

Register(t, key, usd, benign) ==
    IF Appends(t, key, benign)
    THEN [usd |-> t.usd + usd, recent |-> t.recent \cup {key}] ELSE t

ShouldHalt(t, key, usd, benign) ==
    Appends(t, key, benign) /\ t.usd + usd > HaltUsd

-----------------------------------------------------------------------------
(* _rollback_order.  An outcome is the leg as it is left and the residual  *)
(* that a short unwind registers under the unwinding order's side; the     *)
(* answer of that registration is dropped.                                 *)

\* cancel_order answers True for an order that is cancelled, and as well for
\* one that is filled or unknown; False (network error) leaves it as it was.
CancelOutcomes(e, l) ==
    LET leg == legs[e][l]
    IN  {[leg |-> [leg EXCEPT !.undo = "ok", !.resting = w], residual |-> 0] :
            w \in {FALSE, leg.resting}}
        \cup {[leg |-> [leg EXCEPT !.undo = "failed"], residual |-> 0]}

\* A reduceOnly market order for u in the opposite direction: filled as far as
\* the position goes (95% counts as all), or lost with its effect unknown.
\* Without a position it is a ghost close, reported as complete, or refused
\* with a code the tracker takes for benign.
UnwindOutcomes(e, l, u) ==
    LET leg == legs[e][l]
        held == Position(Venue[e][l], Closes(Opposite(LegSide(e, l))))
        done(x, undo, res) ==
            [leg |-> [leg EXCEPT !.undo = undo, !.unwound = @ + x], residual |-> res]
    IN  IF held <= 0
        THEN {done(0, "ok", 0), done(0, "benign", 0), done(0, "failed", 0)}
        ELSE LET fillable == {x \in 0..u : x <= held /\ (x \in {0, u, held} \cup FillGrid)}
                 enough(x) == 20 * x >= 19 * u
             IN  {done(x, IF enough(x) THEN "ok" ELSE "failed",
                       IF enough(x) THEN 0 ELSE u - x) : x \in fillable}
                 \cup {done(x, "failed", 0) : x \in fillable}

\* filled=True exactly when an amount to unwind is given
RollbackOutcomes(e, l, u) ==
    IF u > 0 THEN UnwindOutcomes(e, l, u) ELSE CancelOutcomes(e, l)

AfterResidual(t, e, l, o) ==
    IF o.residual = 0 THEN t
    ELSE Register(t, StrandedKey(e, l, Opposite(LegSide(e, l))),
                  o.residual * Price[e], FALSE)

-----------------------------------------------------------------------------
(* Locks and reservations.                                                 *)

\* What execution e reserves on each of its venues: nothing for an exit or an
\* order without a price, both legs together on a single venue.
Need(e) ==
    IF e \in Closing THEN 0
    ELSE (IF e \in Cross THEN 1 ELSE 2) * Amount[e] * Price[e]

Reserved(x) == FoldLeft(LAMBDA a, b : a + b, 0, margin[x])
Fits_Alone(e, x) == Need(e) <= Budget
Fits(e, x) == Need(e) = 0 \/ Reserved(x) + Need(e) <= Budget
WithReservation(m, usd) == IF usd = 0 THEN m ELSE Append(m, usd)
WithoutReservation_All(m, usd) == Remove(m, usd)

\* release() pops the oldest entry of that size, whoever made it.
WithoutReservation(m, usd) ==
    LET popped(k) == \E j \in 1..k : m[j] = usd
    IN  IF popped(Len(m))
        THEN [k \in 1..(Len(m) - 1) |-> IF popped(k) THEN m[k + 1] ELSE m[k]]
        ELSE m

Owns(e) == got[e] = Venues(e)

Reject(e) ==
    /\ pc' = [pc EXCEPT ![e] = "done"]
    /\ result' = [result EXCEPT ![e] = "rejected"]
    /\ UNCHANGED <<halted, locked, queue, got, lapsed, tracker, legs, deferred>>

Enqueue_Barging(e) ==
    /\ pc' = [pc EXCEPT ![e] = "locking"]
    /\ queue' = [x \in Exchanges |-> IF x \notin Venues(e) THEN queue[x]
                                     ELSE IF locked[x] THEN Append(queue[x], e)
                                     ELSE <<e>> \o queue[x]]
    /\ UNCHANGED <<result, halted, locked, got, lapsed, tracker, legs, deferred>>

\* _acquire_lock of every venue: the requests are queued with no other task
\* running in between.
Enqueue(e) ==
    /\ pc' = [pc EXCEPT ![e] = "locking"]
    /\ queue' = [x \in Exchanges |-> IF x \in Venues(e) THEN Append(queue[x], e)
                                     ELSE queue[x]]
    /\ UNCHANGED <<result, halted, locked, got, lapsed, tracker, legs, deferred>>

ReleasedBy_Leg1(e) == {Venue[e][1]}
ReleasedBy(e) == Venues(e)

\* The finally block: _release_lock unlocks whatever is locked, then the
\* reservations go; the task returns r.
Leave(e, r) ==
    /\ pc' = [pc EXCEPT ![e] = "done"]
    /\ result' = [result EXCEPT ![e] = r]
    /\ locked' = [x \in Exchanges |-> locked[x] /\ x \notin ReleasedBy(e)]
    /\ got' = [got EXCEPT ![e] = {}]
    /\ margin' = [x \in Exchanges |-> IF x \in Venues(e)
                                      THEN WithoutReservation(margin[x], Need(e))
                                      ELSE margin[x]]
    /\ UNCHANGED <<queue, lapsed, recentKeys>>

HaltRecheck_Skipped == FALSE
\* the halt check made again under the locks, before the first order
HaltRecheck == halted

Goto(e, where) ==
    /\ pc' = [pc EXCEPT ![e] = where]
    /\ UNCHANGED <<result, resources>>

Grant_Held(x) ==
    /\ queue[x] # <<>>
    /\ locked' = [locked EXCEPT ![x] = TRUE]
    /\ got' = [got EXCEPT ![Head(queue[x])] = @ \cup {x}]
    /\ queue' = [queue EXCEPT ![x] = Tail(@)]
    /\ UNCHANGED <<pc, result, halted, margin, lapsed, recentKeys, tracker, legs, deferred>>

\* asyncio.Lock hands a free lock to the task that has waited longest.
Grant(x) ==
    /\ ~locked[x] /\ queue[x] # <<>>
    /\ locked' = [locked EXCEPT ![x] = TRUE]
    /\ got' = [got EXCEPT ![Head(queue[x])] = @ \cup {x}]
    /\ queue' = [queue EXCEPT ![x] = Tail(@)]
    /\ UNCHANGED <<pc, result, halted, margin, lapsed, recentKeys, tracker, legs, deferred>>

-----------------------------------------------------------------------------
(* What happens around the executions.                                     *)

\* The remainder of a limit order fills after the executor looked at it.
LateFill(e, l) ==
    LET leg == legs[e][l]
    IN  /\ leg.resting
        /\ e \in Closing => Position(Venue[e][l], Closes(LegSide(e, l)))
                                >= leg.qty - leg.filled
        /\ legs' = [legs EXCEPT ![e][l].filled = leg.qty, ![e][l].resting = FALSE]
        /\ UNCHANGED <<pc, result, halted, resources, tracker, deferred>>

\* halt_local() by the kill switch, an operator, a watchdog or the guardian.
ExternalHalt ==
    /\ ~halted
    /\ halted' = TRUE
    /\ UNCHANGED <<pc, result, resources, tracker, legs, deferred>>

\* The oldest reservation on x turns 60 s old and is pruned.
ReservationLapses(x) ==
    /\ margin[x] # <<>>
    /\ margin' = [margin EXCEPT ![x] = Tail(@)]
    /\ lapsed' = lapsed \cup {x}
    /\ UNCHANGED <<pc, result, halted, locked, queue, got, recentKeys, tracker, legs, deferred>>

\* The dedup window of a key passes.
DedupWindowPasses(k) ==
    /\ k \in recentKeys
    /\ recentKeys' = recentKeys \ {k}
    /\ UNCHANGED <<pc, result, halted, locked, queue, got, margin, lapsed, tracker, legs, deferred>>

\* A stranded entry turns 5 s old.
StrandedKeyAges(k) ==
    /\ k \in tracker.recent
    /\ tracker' = [tracker EXCEPT !.recent = @ \ {k}]
    /\ UNCHANGED <<pc, result, halted, resources, legs, deferred>>
=============================================================================
