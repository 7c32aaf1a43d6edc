--------------------------- MODULE AtomicExecutor --------------------------
(***************************************************************************)
(* The executor as one asyncio process: any number of cross-exchange and   *)
(* same-exchange executions interleaved at their suspension points, on     *)
(* exchanges that lose answers and fill orders late.                       *)
(***************************************************************************)
EXTENDS CrossExchange, SameExchange

Init ==
    /\ pc = [e \in Executions |-> "idle"]
    /\ result = [e \in Executions |-> "none"]
    /\ halted = FALSE
    /\ locked = [x \in Exchanges |-> FALSE]
    /\ queue = [x \in Exchanges |-> <<>>]
    /\ got = [e \in Executions |-> {}]
    /\ margin = [x \in Exchanges |-> <<>>]
    /\ lapsed = {}
    /\ recentKeys = {}
    /\ tracker = [usd |-> 0, recent |-> {}]
    /\ legs = [e \in Executions |-> [l \in Legs |-> NewLeg]]
    /\ deferred = [e \in Executions |-> FALSE]

\* _route_to_executor: legs on one exchange or on two.
Start(e) == IF e \in Cross THEN CrossStart(e) ELSE SameStart(e)
Step(e) == IF e \in Cross THEN CrossStep(e) ELSE SameStep(e)

Environment ==
    \/ \E e \in Executions, l \in Legs : LateFill(e, l)
    \/ ExternalHalt
    \/ \E x \in Exchanges : ReservationLapses(x)
    \/ \E k \in recentKeys : DedupWindowPasses(k)
    \/ \E k \in tracker.recent : StrandedKeyAges(k)

AllDone == \A e \in Executions : pc[e] = "done"
Terminated == AllDone /\ UNCHANGED vars

Next ==
    \/ \E e \in Executions : Start(e) \/ Step(e)
    \/ \E x \in Exchanges : Grant(x)
    \/ Environment
    \/ Terminated

\* The event loop runs every task that is ready, and every adapter call returns
\* or is cut off by its timeout.  Nothing obliges a request or a fill to come.
Fairness ==
    /\ \A e \in Executions : WF_vars(Step(e))
    /\ \A x \in Exchanges : WF_vars(Grant(x))

Spec == Init /\ [][Next]_vars /\ Fairness

-----------------------------------------------------------------------------
(* Types.                                                                  *)

CrossPcs == {"place1", "cancel1", "unwind1", "edge", "place2", "undo2", "undo1"}
SamePcs == {"placing", "sundo1", "sundo2"}
InTry == CrossPcs \cup SamePcs
Statuses == {"none", "success", "rejected", "rolled_back", "rollback_failed"}

\* Every variable has its type: program counters of the right method, orders
\* as the exchanges and LegResult describe them.
TypeOK ==
    /\ pc \in [Executions -> {"idle", "locking", "done"} \cup InTry]
    /\ result \in [Executions -> Statuses]
    /\ halted \in BOOLEAN
    /\ locked \in [Exchanges -> BOOLEAN]
    /\ queue \in [Exchanges -> Seq(Executions)]
    /\ got \in [Executions -> SUBSET Exchanges]
    /\ margin \in [Exchanges -> Seq(Nat)]
    /\ lapsed \subseteq Exchanges
    /\ recentKeys \subseteq {DedupKey[e] : e \in Executions}
    /\ tracker \in [usd : Nat, recent : SUBSET (Exchanges \X Sides)]
    /\ legs \in [Executions -> [Legs -> LegRecord]]
    /\ deferred \in [Executions -> BOOLEAN]

-----------------------------------------------------------------------------
(* Locks and reservations.                                                 *)

\* e is between the return of its last acquire() and its release
InCritical(e, x) ==
    x \in Venues(e) /\ (pc[e] \in InTry \/ (pc[e] = "locking" /\ Owns(e)))

\* No two executions place, cancel or unwind orders on one exchange at a time,
\* although _release_lock unlocks a lock whoever holds it.
MutualExclusion ==
    \A x \in Exchanges : \A e, f \in Executions :
        InCritical(e, x) /\ InCritical(f, x) => e = f

InFlight(e) == pc[e] \in {"locking"} \cup InTry
Holders(x, usd) ==
    {e \in Executions : InFlight(e) /\ x \in Venues(e) /\ Need(e) = usd}
Entries(x, usd) == {i \in DOMAIN margin[x] : margin[x][i] = usd}

\* The tracker never holds more reservations of a size than there are
\* executions in flight that made one, and no fewer until one has lapsed: no
\* path of the executor keeps a reservation or returns another's early.
MarginBacked ==
    \A x \in Exchanges : \A usd \in {Need(e) : e \in Executions} \ {0} :
        /\ Cardinality(Entries(x, usd)) <= Cardinality(Holders(x, usd))
        /\ x \notin lapsed =>
              Cardinality(Entries(x, usd)) = Cardinality(Holders(x, usd))

\* Until a reservation lapses, what the executions in flight on an exchange
\* have committed stays within its budget.
InFlightWithinBudget ==
    \A x \in Exchanges \ lapsed :
        MapThenSumSet(Need, {e \in Executions : InFlight(e) /\ x \in Venues(e)})
            <= Budget

-----------------------------------------------------------------------------
(* Admission.  An execution holds its exchanges once all its locks are     *)
(* granted; until then it waits for whoever holds a lock it is queued for  *)
(* and for whoever is queued before it.                                    *)

Phase(e) ==
    CASE pc[e] = "idle" -> "out"
      [] pc[e] = "done" -> "returned"
      [] pc[e] = "locking" /\ ~Owns(e) -> "waiting"
      [] OTHER -> "inside"

Ahead(e) ==
    {f \in Executions : \E x \in Exchanges : \E j \in 1..Len(queue[x]) :
        /\ queue[x][j] = e
        /\ x \in got[f] \/ \E i \in 1..(j - 1) : queue[x][i] = f}

Admission == INSTANCE ExchangeAdmission WITH
    Uses <- [e \in Executions |-> Venues(e)],
    phase <- [e \in Executions |-> Phase(e)],
    after <- [e \in Executions |-> Ahead(e)]

\* The locks admit executions in the order they asked, each to both of its
\* exchanges at once: two locks taken one by one are as good as one admission,
\* nobody overtakes a rival, and nobody waits for one that asked later.
AdmittedInTurn == Admission!Spec

-----------------------------------------------------------------------------
(* The halt.                                                               *)

Unsent(e) == \A l \in Legs : legs[e][l].res = "unsent"

\* An execution that has not passed its second halt check when the flag is set
\* never places an order: waiting for a lock does not carry it past a halt.
HaltStopsQueued ==
    \A e \in Executions :
        [](halted /\ pc[e] \in {"idle", "locking"} => []Unsent(e))

\* Once every execution has returned, an exposure in the tracker above its
\* threshold has halted the engine (stranded.py: "return True if total >
\* threshold", _do_rollback_cross: "we must halt regardless of leg1 outcome").
StrandedThresholdHalts == AllDone /\ tracker.usd > HaltUsd => halted

-----------------------------------------------------------------------------
(* What the caller is told.                                                *)

\* A success is hedged as far as the exchanges reported: leg 2 never exceeds
\* leg 1 and covers 80% of it across exchanges; on one exchange each leg is
\* filled to 80%.
SuccessIsHedged ==
    \A e \in Executions : result[e] = "success" =>
        IF e \in Cross
        THEN /\ legs[e][2].reported <= legs[e][1].reported
             /\ 5 * legs[e][2].reported >= 4 * legs[e][1].reported
        ELSE \A l \in Legs : 5 * legs[e][l].reported >= 4 * Amount[e]

\* When an entry returns without success, every leg that reported a fill was
\* unwound or handed to the stranded tracker, on every path.
KnownFillUnwoundOrRegistered ==
    \A e \in Executions \ Closing : \A l \in Legs :
        /\ result[e] \in {"rolled_back", "rollback_failed"}
        /\ legs[e][l].reported > 0
        => legs[e][l].undo = "ok" \/ legs[e][l].registered

\* When an exit returns with leg 1 closed and leg 2 not, across exchanges, the
\* open side is handed to the stranded tracker and the caller hears of it.
HalfExitRegistered ==
    \A e \in Closing \cap Cross :
        pc[e] = "done" /\ legs[e][2].res # "unsent" /\ result[e] # "success"
        => legs[e][2].registered /\ result[e] = "rollback_failed"

\* No execution returns with an order whose answer was lost and that nobody
\* tried to cancel or unwind.
LostAnswerChased ==
    \A e \in Executions : \A l \in Legs :
        pc[e] = "done" /\ legs[e][l].res = "failed" => legs[e][l].undo # "none"

\* rolled_back means "orders placed then cancelled successfully": no leg that
\* reported a fill is left with an unwind that failed.
RolledBackIsUnwound ==
    \A e \in Executions : \A l \in Legs :
        result[e] = "rolled_back" /\ legs[e][l].reported > 0
        => legs[e][l].undo = "ok"

\* An exit whose leg 1 was filled is never taken back: "do NOT unwind leg1
\* (already closed)".
FilledExitNotUnwound ==
    \A e \in Closing \cap Cross :
        legs[e][1].reported > 0 /\ ~BelowThreshold(legs[e][1])
        => legs[e][1].undo = "none"

-----------------------------------------------------------------------------
(* Progress.                                                               *)

\* An execution that asked for its locks returns: no two executions wait for
\* each other's exchange, and no path keeps a lock.
Termination == \A e \in Executions : pc[e] = "locking" ~> pc[e] = "done"
=============================================================================
