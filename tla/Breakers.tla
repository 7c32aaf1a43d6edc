------------------------------ MODULE Breakers -----------------------------
(***************************************************************************)
(* The global circuit breaker (src/engine/src/risk/circuit_breaker.py),    *)
(* the per-strategy one (risk/per_strategy_cb.py) and the two checks of    *)
(* the risk guardian that tie them together (risk/guardian.py): no trade   *)
(* while the global breaker is open, and it is opened when as many         *)
(* strategies are halted as are active.  Losses, wins and triggers reach   *)
(* the global breaker as tasks.  Nothing in the engine calls record_trade  *)
(* of the per-strategy breaker, record_api_* or update_drawdown, so that a *)
(* strategy is active or halted and the API error rate is zero.            *)
(***************************************************************************)
EXTENDS Integers, Sequences, FiniteSets

CONSTANTS
    Traders,    \* strategies
    LossLimit,  \* consecutive_loss_limit
    TestWins,   \* half_open_test_count
    Cooldown,   \* cooldown_seconds, in ticks
    HaltTicks,  \* _HALTED_DURATION_S, in ticks
    MaxHalts,   \* bound on forced halts
    MaxTasks,   \* bound on feedback tasks that have not run
    MaxTrades   \* bound on a strategy's trades in flight

ASSUME BreakersAssumption ==
    /\ IsFiniteSet(Traders)
    /\ LossLimit \in Nat \ {0} /\ TestWins \in Nat \ {0}
    /\ Cooldown \in Nat \ {0} /\ HaltTicks \in Nat \ {0}
    /\ MaxHalts \in Nat /\ MaxTasks \in Nat /\ MaxTrades \in Nat

VARIABLES
    breaker,    \* CircuitBreaker._state
    losses,     \* consecutive_losses, no further than the limit
    deep,       \* current_drawdown_pct exceeds the threshold
    successes,  \* half_open_successes
    sleeps,     \* ticks the cooldown task still sleeps
    cb,         \* cb[s]: PerStrategyCB state, "unknown" until first looked up
    haltAge,    \* haltAge[s]: ticks since it was halted
    inFlight,   \* inFlight[s]: approved trades without a result
    booking,    \* strategies with a success that live mode has not booked
    tasks,      \* calls of the global breaker that were scheduled, oldest first
    halts,      \* forced halts so far
    wins        \* history: wins in a row since it last turned HALF_OPEN

breakerVars == <<breaker, losses, deep, successes, sleeps, cb, haltAge, inFlight,
                 booking, tasks, halts, wins>>

Calls == {"win", "shallow loss", "deep loss", "rollback", "trigger"}

BreakerInit ==
    /\ breaker = "CLOSED" /\ losses = 0 /\ deep = FALSE /\ successes = 0 /\ sleeps = 0
    /\ cb = [s \in Traders |-> "unknown"] /\ haltAge = [s \in Traders |-> 0]
    /\ inFlight = [s \in Traders |-> 0] /\ booking = {}
    /\ tasks = <<>> /\ halts = 0 /\ wins = 0

-----------------------------------------------------------------------------
(* The guardian.  A request has two legs, checked one after the other with *)
(* nothing in between; the checks that look at sizes may refuse either.    *)

\* all states are looked up as they are stored: neither count recovers anyone
AllHalted(c) ==
    LET count(st) == Cardinality({s \in Traders : c[s] = st})
    IN  count("ACTIVE") > 0 /\ count("HALTED") >= count("ACTIVE")

\* is_allowed: a halt of 300 s is over when the strategy asks
LookedUp(s) ==
    IF cb[s] = "unknown" \/ (cb[s] = "HALTED" /\ haltAge[s] >= HaltTicks)
    THEN [cb EXCEPT ![s] = "ACTIVE"] ELSE cb

LetsIn_AfterTrigger(s) == IF AllHalted(cb) THEN cb ELSE LookedUp(s)
LetsIn(s) == LookedUp(s)

\* A trade request reaches the last check with one leg or two, and is refused
\* there or goes on to trade or to other gates.  While the breaker is OPEN check
\* #4 refuses it before anything is changed.
Request(s) ==
    /\ breaker # "OPEN"
    /\ cb' = LetsIn(s)
    /\ \E legs \in {1, 2} :
          /\ legs = 2 => cb'[s] = "ACTIVE"
          /\ LET first == IF AllHalted(cb) THEN <<"trigger">> ELSE <<>>
                 second == IF legs = 2 /\ AllHalted(cb') THEN <<"trigger">> ELSE <<>>
             IN  /\ Len(tasks \o first \o second) <= MaxTasks
                 /\ tasks' = tasks \o first \o second
    /\ \/ UNCHANGED inFlight
       \/ /\ cb'[s] = "ACTIVE" /\ inFlight[s] < MaxTrades
          /\ inFlight' = [inFlight EXCEPT ![s] = @ + 1]
    /\ UNCHANGED <<breaker, losses, deep, successes, sleeps, haltAge, booking, halts, wins>>

\* The result of a trade: feedback for the global breaker, none for a rejection.
Result(s) ==
    /\ inFlight[s] > 0 /\ inFlight' = [inFlight EXCEPT ![s] = @ - 1]
    /\ \/ UNCHANGED <<tasks, booking>>
       \/ \E call \in Calls \ {"trigger"} :
            /\ Len(tasks) < MaxTasks /\ tasks' = Append(tasks, call)
            /\ booking' = IF call = "rollback" THEN booking ELSE booking \cup {s}
    /\ UNCHANGED <<breaker, losses, deep, successes, sleeps, cb, haltAge, halts, wins>>

\* A success is booked, and may bring its strategy's slippage over the limit.
Book(s) ==
    /\ s \in booking /\ booking' = booking \ {s}
    /\ \/ UNCHANGED <<cb, haltAge, halts>>
       \/ /\ cb[s] # "HALTED" /\ halts < MaxHalts /\ halts' = halts + 1
          /\ cb' = [cb EXCEPT ![s] = "HALTED"] /\ haltAge' = [haltAge EXCEPT ![s] = 0]
    /\ UNCHANGED <<breaker, losses, deep, successes, sleeps, inFlight, tasks, wins>>

-----------------------------------------------------------------------------
(* The global breaker.  No method suspends while it holds the lock.        *)

\* _transition_to_open_locked: a new cooldown task, the old one is cancelled
Open == breaker' = "OPEN" /\ sleeps' = Cooldown /\ UNCHANGED successes
Stay == UNCHANGED <<breaker, sleeps, successes>>

RecordLoss(call) ==
    /\ call \in {"shallow loss", "deep loss", "rollback"}
    /\ losses' = IF losses < LossLimit THEN losses + 1 ELSE losses
    /\ deep' = IF call = "rollback" THEN deep ELSE call = "deep loss"
    /\ wins' = 0
    /\ IF breaker = "HALF_OPEN" \/ (breaker = "CLOSED" /\ (deep' \/ losses' = LossLimit))
       THEN Open ELSE Stay

RecordWin(call) ==
    /\ call = "win" /\ losses' = 0 /\ UNCHANGED deep
    /\ wins' = IF wins < TestWins THEN wins + 1 ELSE wins
    /\ IF breaker = "HALF_OPEN"
       THEN /\ successes' = successes + 1
            /\ breaker' = IF successes + 1 >= TestWins THEN "CLOSED" ELSE breaker
            /\ UNCHANGED sleeps
       ELSE Stay

TriggerManual(call) ==
    /\ call = "trigger" /\ UNCHANGED <<losses, deep, wins>>
    /\ IF breaker # "OPEN" THEN Open ELSE Stay

RunTask ==
    /\ tasks # <<>> /\ tasks' = Tail(tasks)
    /\ RecordLoss(Head(tasks)) \/ RecordWin(Head(tasks)) \/ TriggerManual(Head(tasks))
    /\ UNCHANGED <<cb, haltAge, inFlight, booking, halts>>

HalfOpen_KeepsSuccesses == breaker' = "HALF_OPEN" /\ wins' = 0 /\ UNCHANGED successes
HalfOpen == breaker' = "HALF_OPEN" /\ successes' = 0 /\ wins' = 0

\* A tick passes; the cooldown task wakes when it has slept long enough.
BreakerTick ==
    /\ haltAge' = [s \in Traders |->
          IF cb[s] = "HALTED" /\ haltAge[s] < HaltTicks THEN haltAge[s] + 1 ELSE haltAge[s]]
    /\ sleeps' = IF sleeps > 0 THEN sleeps - 1 ELSE 0
    /\ IF breaker = "OPEN" /\ sleeps' = 0 THEN HalfOpen
       ELSE UNCHANGED <<breaker, successes, wins>>
    /\ UNCHANGED <<losses, deep, cb, inFlight, booking, tasks, halts>>

BreakerNext ==
    \/ \E s \in Traders : Request(s) \/ Result(s) \/ Book(s)
    \/ RunTask \/ BreakerTick

\* Safety only; the model of the two loops adds the fairness.
BreakerSpec == BreakerInit /\ [][BreakerNext]_breakerVars

-----------------------------------------------------------------------------
BreakerTypeOK ==
    /\ breaker \in {"CLOSED", "OPEN", "HALF_OPEN"} /\ losses \in 0..LossLimit
    /\ deep \in BOOLEAN /\ successes \in 0..TestWins /\ sleeps \in 0..Cooldown
    /\ cb \in [Traders -> {"unknown", "ACTIVE", "HALTED"}]
    /\ haltAge \in [Traders -> 0..HaltTicks] /\ inFlight \in [Traders -> 0..MaxTrades]
    /\ tasks \in Seq(Calls) /\ Len(tasks) <= MaxTasks /\ halts \in 0..MaxHalts
    /\ wins \in 0..TestWins /\ booking \subseteq Traders

\* The breaker closes only after as many wins as it asks for, in a row and all
\* reported since it last turned HALF_OPEN: a test phase that was cut short by
\* a loss or a trigger counts for nothing.
ClosesAfterTest ==
    [][breaker # "CLOSED" /\ breaker' = "CLOSED" => wins' >= TestWins]_breakerVars

\* A halted strategy whose requests keep reaching the guardian's last check is
\* let in again, although its halt keeps reopening the global breaker.
HaltedLetInAgain ==
    \A s \in Traders :
        ([]<><<Request(s)>>_breakerVars) => []<>(cb[s] # "HALTED")
=============================================================================
