----------------------------- MODULE Reconciler ----------------------------
(***************************************************************************)
(* The periodic comparison of the engine's positions with the exchanges'   *)
(* (src/engine/src/execution/reconciler.py), the loop that runs it         *)
(* (runtime/background_loops.py) and the callback that alerts the operator *)
(* (runtime/risk_execution.py).  Both guard against the race between a     *)
(* fill and its registration: what is seen once is not reported.           *)
(***************************************************************************)
EXTENDS Integers, FiniteSets

CONSTANTS
    Exchanges,
    Keys,         \* "{exchange}:{symbol}"
    ExchangeOf,   \* the exchange of a key
    MayStrand,    \* keys mark_stranded may be called for
    MaxChanges,   \* bound on changes of the world and of the index
    MaxFailures,  \* bound on failed fetches
    Flaky         \* TRUE: failed fetches are not bounded

ASSUME ReconcilerAssumption ==
    /\ ExchangeOf \in [Keys -> Exchanges] /\ MayStrand \subseteq Keys /\ MaxChanges \in Nat
    /\ MaxFailures \in Nat /\ Flaky \in BOOLEAN

\* Sizes: none; one the exchange reports without an entry price and worth less
\* than a cent; a real one.
Sizes == 0..2
Dust == 1

VARIABLES
    held,      \* held[k]: the size on the exchange
    engine,    \* engine[k]: the size in PositionManager, 0 for no record
    stranded,  \* PositionReconciler._stranded
    prev,      \* _prev_unrecorded_keys
    orphans,   \* engine._prev_reconciler_orphans
    todo,      \* exchanges the running cycle has not asked yet
    running,   \* a cycle runs
    snap,      \* engine_positions of the cycle
    seen,      \* exchange_positions of the cycle
    lost,      \* fetch_failed_exchanges of the cycle
    escalated, \* keys the last comparison reported as unrecorded
    alerted,   \* keys the last comparison alerted the operator to
    changes, failures,
    \* history
    run,       \* run[k]: successful comparisons in a row that found k unrecorded
    orphanRun  \* the same, dust included

envVars == <<held, engine>>
cycleVars == <<todo, running, snap, seen, lost>>
reconcilerVars == <<envVars, stranded, prev, orphans, cycleVars, escalated, alerted, changes,
          failures, run, orphanRun>>

Nothing == [k \in Keys |-> 0]

ReconcilerInit ==
    /\ held \in [Keys -> Sizes] /\ engine = Nothing
    /\ stranded = {} /\ prev = {} /\ orphans = {}
    /\ todo = {} /\ running = FALSE /\ snap = Nothing /\ seen = Nothing /\ lost = {}
    /\ escalated = {} /\ alerted = {} /\ changes = 0 /\ failures = 0
    /\ run = Nothing /\ orphanRun = Nothing

-----------------------------------------------------------------------------
(* The world: fills and liquidations; their registration.                  *)

Trade(k) ==
    /\ changes < MaxChanges /\ changes' = changes + 1
    /\ held' \in {[held EXCEPT ![k] = n] : n \in Sizes \ {held[k]}}
    /\ UNCHANGED <<engine, stranded, prev, orphans, cycleVars, escalated, alerted,
                   failures, run, orphanRun>>

Register(k) ==
    /\ changes < MaxChanges /\ changes' = changes + 1
    /\ engine' \in {[engine EXCEPT ![k] = n] : n \in {0, held[k]} \ {engine[k]}}
    /\ UNCHANGED <<held, stranded, prev, orphans, cycleVars, escalated, alerted,
                   failures, run, orphanRun>>

\* mark_stranded and clear_stranded.
Strand(k) ==
    /\ changes < MaxChanges /\ changes' = changes + 1
    /\ stranded' = IF k \in stranded THEN stranded \ {k} ELSE stranded \cup {k}
    /\ UNCHANGED <<envVars, prev, orphans, cycleVars, escalated, alerted, failures,
                   run, orphanRun>>

-----------------------------------------------------------------------------
(* One cycle.                                                              *)

\* reconcile_loop copies the index, unless it is empty: then it skips.
Begin ==
    /\ ~running /\ engine # Nothing
    /\ running' = TRUE /\ todo' = Exchanges
    /\ snap' = engine /\ seen' = Nothing /\ lost' = {}
    /\ UNCHANGED <<envVars, stranded, prev, orphans, escalated, alerted, changes, failures,
                   run, orphanRun>>

\* get_positions_strict answers.
FetchOk(x) ==
    /\ running /\ x \in todo /\ todo' = todo \ {x}
    /\ seen' = [k \in Keys |-> IF ExchangeOf[k] = x THEN held[k] ELSE seen[k]]
    /\ UNCHANGED <<envVars, stranded, prev, orphans, running, snap, lost, escalated,
                   alerted, changes, failures, run, orphanRun>>

\* It raises: the exchange contributes nothing.
FetchFails(x) ==
    /\ running /\ x \in todo /\ todo' = todo \ {x}
    /\ IF Flaky THEN UNCHANGED failures
       ELSE failures < MaxFailures /\ failures' = failures + 1
    /\ lost' = lost \cup {x}
    /\ UNCHANGED <<envVars, stranded, prev, orphans, running, snap, seen, escalated,
                   alerted, changes, run, orphanRun>>

Fetched(k) == ExchangeOf[k] \notin lost

\* The exchange has it, the engine does not.
Orphan(k) == seen[k] # 0 /\ snap[k] = 0

Unrecorded == {k \in Keys : Orphan(k) /\ seen[k] # Dust}

\* The engine has it and the exchange does not, or in another size; exchanges
\* that did not answer are left out.
Mismatched == {k \in Keys : Fetched(k) /\ snap[k] # 0 /\ snap[k] # seen[k]}

RollForward_Overwrite == Unrecorded

\* _prev_unrecorded_keys keeps what it knew of exchanges that did not answer.
RollForward == Unrecorded \cup {k \in prev : ~Fetched(k)}

\* _on_reconcile_discrepancy alerts to what it saw the last time it was called.
Alerts(now) == now \cap orphans

\* The length of a run of comparisons, two and more being one.
Longer(again, n) == IF ~again THEN 0 ELSE IF n = 0 THEN 1 ELSE 2

Discrepancy_MismatchOnly == Mismatched # {} \/ stranded # {}
Discrepancy == Unrecorded \cap prev # {} \/ Mismatched # {} \/ stranded # {}

Compare ==
    LET now == {k \in Keys : Orphan(k)} IN
    /\ running /\ todo = {}
    /\ running' = FALSE
    /\ escalated' = Unrecorded \cap prev
    /\ prev' = RollForward
    /\ IF Discrepancy
       THEN alerted' = Alerts(now) /\ orphans' = now
       ELSE alerted' = {} /\ UNCHANGED orphans
    /\ run' = [k \in Keys |->
          IF Fetched(k) THEN Longer(k \in Unrecorded, run[k]) ELSE run[k]]
    /\ orphanRun' = [k \in Keys |->
          IF Fetched(k) THEN Longer(k \in now, orphanRun[k]) ELSE orphanRun[k]]
    /\ UNCHANGED <<envVars, stranded, todo, snap, seen, lost, changes, failures>>

-----------------------------------------------------------------------------
ReconcilerNext ==
    \/ \E k \in Keys : Trade(k) \/ Register(k)
    \/ \E k \in MayStrand : Strand(k)
    \/ Begin \/ Compare
    \/ \E x \in Exchanges : FetchOk(x) \/ FetchFails(x)

\* Safety only; the model of the two loops adds the fairness.
ReconcilerSpec == ReconcilerInit /\ [][ReconcilerNext]_reconcilerVars

-----------------------------------------------------------------------------
ReconcilerTypeOK ==
    /\ held \in [Keys -> Sizes] /\ engine \in [Keys -> Sizes]
    /\ stranded \subseteq MayStrand /\ prev \subseteq Keys /\ orphans \subseteq Keys
    /\ todo \subseteq Exchanges /\ running \in BOOLEAN
    /\ snap \in [Keys -> Sizes] /\ seen \in [Keys -> Sizes] /\ lost \subseteq Exchanges
    /\ escalated \subseteq Keys /\ alerted \subseteq Keys /\ failures \in 0..MaxFailures
    /\ changes \in 0..MaxChanges
    /\ run \in [Keys -> 0..2] /\ orphanRun \in [Keys -> 0..2]

\* A position is reported as unrecorded exactly when its exchange answered and
\* it was unrecorded at the last comparison before for which that exchange had
\* answered as well, whatever failed in between.
EscalatesSecondSighting ==
    ~running => escalated = {k \in Keys : Fetched(k) /\ run[k] = 2}

\* A real position the engine has no record of, while it has others, is
\* reported to the operator again and again.
StandingOrphanAlerted ==
    \A k \in Keys :
        <>[](held[k] > Dust /\ engine[k] = 0 /\ engine # Nothing) => []<>(k \in alerted)
=============================================================================
