---------------------------- MODULE BudgetLedger ---------------------------
(***************************************************************************)
(* The daily loss budget of each strategy (src/engine/src/risk/            *)
(* strategy_budget_ledger.py): income events, delivered more than once,    *)
(* are counted under a lock against a balance that is written through to   *)
(* the database, or to a JSON file when that fails; UTC midnight and       *)
(* reset_daily() start a new window; a restart loads what was written.     *)
(***************************************************************************)
EXTENDS Integers, FiniteSets, FiniteSetsExt

CONSTANTS
    Strategies,  \* _strategy_ids
    First,       \* the first of them
    Events,      \* tran_ids
    StrategyOf,  \* the strategy an event is attributed to
    Amount,      \* its amount, negative for a loss
    Copies,      \* deliveries of an event that is delivered again
    Budget,      \* daily_loss_budget_usd
    LastDay,     \* bound on days
    MaxResets,   \* bound on calls of reset_daily()
    MaxRestarts,  \* bound on restarts
    FaultSets    \* what may go wrong together in one behaviour

Faults == {"redelivered", "overlapping", "reset", "database", "crash"}

ASSUME BudgetLedgerAssumption ==
    /\ First \in Strategies /\ StrategyOf \in [Events -> Strategies]
    /\ Amount \in [Events -> Int] /\ Copies \in Nat
    /\ Budget \in Nat \ {0} /\ LastDay \in Nat \ {0} /\ MaxResets \in Nat
    /\ MaxRestarts \in Nat /\ FaultSets \subseteq SUBSET Faults

Deliveries == Events \X (1..Copies)
NoOne == <<>>

VARIABLES
    faults,  \* those of this behaviour
    today,   \* the UTC day
    bal,     \* _budgets[s].daily_pnl_balance_usd
    spent,   \* _budgets[s].is_halted
    window,  \* _budgets[s].reset_ts_utc
    seen,    \* _seen_tran_ids
    at,      \* at[d]: "new", "checked", "locked", "written" or "done"
    lock,    \* who holds _lock: a delivery, "reset", or NoOne
    rolling, \* strategies the holder has yet to give a fresh budget
    newDay,  \* the day it read before the first of them
    db, json, \* the row of each strategy: [window, bal, halted]; window 0 for none
    resets, restarts,
    \* history
    counted, \* events the balances of the current window hold
    durable  \* durable[s]: the budget as it was when its last write returned

budgets == <<bal, spent, window>>
ledgerVars == <<faults, today, budgets, seen, at, lock, rolling, newDay, db, json, resets,
          restarts, counted, durable>>

\* The budget at the start of window w; a row that is not there has window 0.
FreshRow(w) == [window |-> w, bal |-> 0, halted |-> FALSE]
NoRow == FreshRow(0)

LedgerInit ==
    /\ faults \in FaultSets /\ today = 1
    /\ bal = [s \in Strategies |-> 0] /\ spent = [s \in Strategies |-> FALSE]
    /\ window = [s \in Strategies |-> 1]
    /\ seen = {} /\ at = [d \in Deliveries |-> "new"] /\ lock = NoOne
    /\ rolling = {} /\ newDay = 1
    /\ db = [s \in Strategies |-> NoRow] /\ json = db /\ durable = db
    /\ resets = 0 /\ restarts = 0 /\ counted = {}

-----------------------------------------------------------------------------
(* on_exchange_income_event and update_pnl.                                *)

\* Deliveries come one by one, and once each, unless they overlap or repeat.
Comes(d) ==
    /\ d[2] > 1 => "redelivered" \in faults
    /\ "overlapping" \in faults \/ \A c \in Deliveries : at[c] \in {"new", "done"}

Check_Blind(d) ==
    /\ at[d] = "new" /\ Comes(d)
    /\ at' = [at EXCEPT ![d] = "checked"]
    /\ UNCHANGED <<faults, today, budgets, seen, lock, rolling, newDay, db, json, resets,
                   restarts, counted, durable>>

\* The duplicate test; the attribution is awaited after it.
Check(d) ==
    /\ at[d] = "new" /\ Comes(d)
    /\ at' = [at EXCEPT ![d] = IF d[1] \in seen THEN "done" ELSE "checked"]
    /\ UNCHANGED <<faults, today, budgets, seen, lock, rolling, newDay, db, json, resets,
                   restarts, counted, durable>>

RollsOver_Own(d) == IF window[First] < today THEN {StrategyOf[d[1]]} ELSE {}
\* _maybe_roll_day looks at the first budget only, and rolls them all.
RollsOver(d) == IF window[First] < today THEN Strategies ELSE {}

Lock(d) ==
    /\ at[d] = "checked" /\ lock = NoOne /\ lock' = d
    /\ at' = [at EXCEPT ![d] = "locked"]
    /\ rolling' = RollsOver(d) /\ newDay' = today
    /\ seen' = IF RollsOver(d) # {} THEN {} ELSE seen
    /\ counted' = IF RollsOver(d) # {} THEN {} ELSE counted
    /\ UNCHANGED <<faults, today, budgets, db, json, resets, restarts, durable>>

Row(s, b, h) == [window |-> window[s], bal |-> b, halted |-> h]

\* _persist: the database, or the file when the write raises.
Persist(s, row) ==
    /\ \/ db' = [db EXCEPT ![s] = row] /\ UNCHANGED json
       \/ "database" \in faults /\ json' = [json EXCEPT ![s] = row] /\ UNCHANGED db
    /\ durable' = [durable EXCEPT ![s] =
                      [window |-> window'[s], bal |-> bal'[s], halted |-> spent'[s]]]

\* A fresh budget for one strategy, written before the next one's turn.
Fresh(s) ==
    /\ s \in rolling /\ rolling' = rolling \ {s}
    /\ bal' = [bal EXCEPT ![s] = 0] /\ spent' = [spent EXCEPT ![s] = FALSE]
    /\ window' = [window EXCEPT ![s] = newDay]
    /\ Persist(s, FreshRow(newDay))
    /\ lock' = IF lock = <<"reset">> /\ rolling' = {} THEN NoOne ELSE lock
    /\ UNCHANGED <<faults, today, seen, at, newDay, resets, restarts, counted>>

\* The halt is evaluated on the new balance, and it stays.
Halts(s, b) == spent[s] \/ b <= -Budget

Count(d) ==
    LET s == StrategyOf[d[1]] IN
    /\ at[d] = "locked" /\ rolling = {}
    /\ bal' = [bal EXCEPT ![s] = @ + Amount[d[1]]]
    /\ spent' = [spent EXCEPT ![s] = Halts(s, bal'[s])]
    /\ seen' = seen \cup {d[1]} /\ counted' = counted \cup {d[1]}
    /\ at' = [at EXCEPT ![d] = "written"]
    /\ UNCHANGED <<faults, today, window, lock, rolling, newDay, db, json, resets, restarts,
                   durable>>

Release_Recomputed(d) ==
    LET s == StrategyOf[d[1]] IN
    /\ at[d] = "written" /\ at' = [at EXCEPT ![d] = "done"]
    /\ UNCHANGED budgets /\ Persist(s, Row(s, bal[s], bal[s] <= -Budget))
    /\ lock' = NoOne
    /\ UNCHANGED <<faults, today, seen, rolling, newDay, resets, restarts, counted>>

\* The balance is written and the lock released.
Release(d) ==
    LET s == StrategyOf[d[1]] IN
    /\ at[d] = "written" /\ at' = [at EXCEPT ![d] = "done"]
    /\ UNCHANGED budgets /\ Persist(s, Row(s, bal[s], spent[s]))
    /\ lock' = NoOne
    /\ UNCHANGED <<faults, today, seen, rolling, newDay, resets, restarts, counted>>

-----------------------------------------------------------------------------
\* reset_daily(), by the scheduler or by hand.
ResetDaily ==
    /\ "reset" \in faults /\ resets < MaxResets /\ resets' = resets + 1
    /\ lock = NoOne /\ lock' = <<"reset">>
    /\ seen' = {} /\ counted' = {} /\ rolling' = Strategies /\ newDay' = today
    /\ UNCHANGED <<faults, today, budgets, at, db, json, restarts, durable>>

Midnight ==
    /\ today < LastDay /\ today' = today + 1
    /\ UNCHANGED <<faults, budgets, seen, at, lock, rolling, newDay, db, json, resets, restarts,
                   counted, durable>>

\* start(): today's rows of the database, or else of the file, or else fresh
\* budgets.
Loaded ==
    LET rows == IF \E s \in Strategies : db[s].window = today THEN db ELSE json
    IN [s \in Strategies |->
            IF rows[s].window = today THEN rows[s] ELSE FreshRow(today)]

\* A crash and a start; the deliveries the crash cuts off come again.
LedgerRestart ==
    /\ "crash" \in faults /\ restarts < MaxRestarts /\ restarts' = restarts + 1
    /\ bal' = [s \in Strategies |-> Loaded[s].bal]
    /\ spent' = [s \in Strategies |-> Loaded[s].halted]
    /\ window' = [s \in Strategies |-> Loaded[s].window]
    /\ seen' = {} /\ lock' = NoOne /\ rolling' = {}
    /\ at' = [d \in Deliveries |-> IF at[d] = "done" THEN "done" ELSE "new"]
    /\ counted' = {e \in counted : durable[StrategyOf[e]].window = today
                       /\ \E c \in 1..Copies : at[<<e, c>>] = "done"}
    /\ UNCHANGED <<faults, today, newDay, db, json, resets, durable>>

-----------------------------------------------------------------------------
LedgerNext ==
    \/ \E d \in Deliveries : Check(d) \/ Lock(d) \/ Count(d) \/ Release(d)
    \/ \E s \in Strategies : Fresh(s)
    \/ ResetDaily \/ Midnight \/ LedgerRestart

LedgerSpec == LedgerInit /\ [][LedgerNext]_ledgerVars

-----------------------------------------------------------------------------
\* Every variable has its type.
LedgerTypeOK ==
    /\ faults \in FaultSets /\ today \in 1..LastDay /\ bal \in [Strategies -> Int]
    /\ spent \in [Strategies -> BOOLEAN] /\ window \in [Strategies -> 1..LastDay]
    /\ seen \subseteq Events /\ counted \subseteq Events
    /\ at \in [Deliveries -> {"new", "checked", "locked", "written", "done"}]
    /\ lock \in Deliveries \cup {<<"reset">>, NoOne}
    /\ rolling \subseteq Strategies /\ newDay \in 1..LastDay
    /\ \A rows \in {db, json, durable} : rows \in
          [Strategies -> [window : 0..LastDay, bal : Int, halted : BOOLEAN]]
    /\ resets \in 0..MaxResets /\ restarts \in 0..MaxRestarts

\* "Duplicate tran_id values within the current reset window are skipped": a
\* balance is the sum of the events of its window, each counted once.
BalanceIsSum ==
    rolling = {} => \A s \in Strategies :
        bal[s] = MapThenSumSet(LAMBDA e : Amount[e], {e \in counted : StrategyOf[e] = s})

\* No cascading halt: within one window a strategy is halted only by its own
\* losses, and the window of all strategies begins together.
OneWindow == lock = NoOne => \A s, t \in Strategies : window[s] = window[t]

\* "restarts do not lose the running daily balance": start() finds each
\* strategy as the last write of today left it.
RestartKeepsBalance ==
    [][restarts' # restarts => \A s \in Strategies :
        durable[s].window = today => bal'[s] = durable[s].bal /\ spent'[s] = durable[s].halted]_ledgerVars
=============================================================================
