--------------------------- MODULE Records_proofs --------------------------
(***************************************************************************)
(* What the records hold, for every set of strategies and positions and    *)
(* every pattern of deliveries, resets, midnights, failing writes and      *)
(* crashes.  The budgets share one window, count each event once and are   *)
(* found again by a restart; the index, the table and the Redis hashes of  *)
(* positions agree as far as the code can make them, and recovery restores *)
(* what the table holds.                                                   *)
(***************************************************************************)
EXTENDS PositionStore, BudgetLedger, CollectionLemmas, TLAPS

BudgetRow == [window : 0..LastDay, bal : Int, halted : BOOLEAN]

\* A delivery holds the lock from when it has it to its last write, and has
\* given every strategy the window it should have before it counts.
HolderInv ==
  /\ \A d \in Deliveries : at[d] \in {"locked", "written"} <=> lock = d
  /\ \A d \in Deliveries : at[d] = "written" => rolling = {}

\* While windows are being given, those who have theirs have the new day's.
WindowInv ==
  /\ rolling = {} => \A s, t \in Strategies : window[s] = window[t]
  /\ rolling # {} => /\ lock # NoOne
                     /\ \A s \in Strategies \ rolling : window[s] = newDay

LedgerInv == LedgerTypeOK /\ HolderInv /\ WindowInv

\* Nobody is neither a delivery nor the reset.
LEMMA Holders ==
  /\ \A d \in Deliveries : d # NoOne /\ d # <<"reset">>
  /\ NoOne # <<"reset">>
BY DEF Deliveries, NoOne

\* What is loaded at a start is of today.
LEMMA LoadedToday ==
  ASSUME LedgerTypeOK, NEW s \in Strategies
  PROVE  Loaded[s] \in BudgetRow /\ Loaded[s].window = today
<1>1. /\ db \in [Strategies -> BudgetRow] /\ json \in [Strategies -> BudgetRow]
      /\ today \in 1..LastDay
  <2>1. db \in [Strategies -> BudgetRow] /\ json \in [Strategies -> BudgetRow]
    BY DEF LedgerTypeOK, BudgetRow
  <2> QED BY <2>1 DEF LedgerTypeOK
<1>2. LastDay \in Nat \ {0}
  BY BudgetLedgerAssumption
<1>3. FreshRow(today) \in BudgetRow /\ FreshRow(today).window = today
  BY <1>1, <1>2 DEF BudgetRow, FreshRow
<1>4. \/ Loaded[s] = FreshRow(today)
      \/ Loaded[s] = db[s] /\ db[s].window = today
      \/ Loaded[s] = json[s] /\ json[s].window = today
  BY DEF Loaded
<1>5. Loaded[s] \in BudgetRow
  BY <1>1, <1>3, <1>4
<1>6. Loaded[s].window = today
  BY <1>3, <1>4
<1> QED BY <1>5, <1>6

\* The rows keep their type when a budget is written.
LEMMA PersistTypes ==
  ASSUME LedgerTypeOK, NEW s \in Strategies, NEW row \in BudgetRow, Persist(s, row),
         window' \in [Strategies -> 1..LastDay], bal' \in [Strategies -> Int],
         spent' \in [Strategies -> BOOLEAN]
  PROVE  /\ db' \in [Strategies -> BudgetRow] /\ json' \in [Strategies -> BudgetRow]
         /\ durable' \in [Strategies -> BudgetRow]
<1>1. /\ db \in [Strategies -> BudgetRow] /\ json \in [Strategies -> BudgetRow]
      /\ durable \in [Strategies -> BudgetRow]
  BY DEF LedgerTypeOK, BudgetRow
<1>2. [window |-> window'[s], bal |-> bal'[s], halted |-> spent'[s]] \in BudgetRow
  BY BudgetLedgerAssumption DEF BudgetRow
<1> QED BY <1>1, <1>2 DEF Persist

\* A check of a delivery, and one that gets the lock.
LEMMA CheckStep ==
  ASSUME LedgerInv, NEW d \in Deliveries, Check(d)
  PROVE  LedgerInv'
<1>1. at' \in [Deliveries -> {"new", "checked", "locked", "written", "done"}]
  BY DEF Check, LedgerInv, LedgerTypeOK
<1>2. LedgerTypeOK'
  BY <1>1 DEF Check, LedgerInv, LedgerTypeOK, budgets
<1>3. HolderInv'
  BY DEF Check, LedgerInv, LedgerTypeOK, HolderInv
<1>4. WindowInv'
  BY DEF Check, LedgerInv, WindowInv, budgets
<1> QED BY <1>2, <1>3, <1>4 DEF LedgerInv

LEMMA LockStep ==
  ASSUME LedgerInv, NEW d \in Deliveries, Lock(d)
  PROVE  LedgerInv'
<1>0. d # NoOne /\ rolling' \in {{}, Strategies}
  BY Holders DEF Lock, RollsOver
<1>1. LedgerTypeOK'
  BY <1>0 DEF Lock, LedgerInv, LedgerTypeOK, budgets
<1>2. HolderInv'
  BY Holders, <1>0 DEF Lock, LedgerInv, LedgerTypeOK, HolderInv
<1>3. WindowInv'
  BY <1>0 DEF Lock, LedgerInv, WindowInv, budgets
<1> QED BY <1>1, <1>2, <1>3 DEF LedgerInv

\* One strategy gets a fresh budget: the last of them frees a reset's lock.
LEMMA FreshStep ==
  ASSUME LedgerInv, NEW s \in Strategies, Fresh(s)
  PROVE  LedgerInv'
<1>1. /\ bal' \in [Strategies -> Int] /\ spent' \in [Strategies -> BOOLEAN]
      /\ window' \in [Strategies -> 1..LastDay]
  BY DEF Fresh, LedgerInv, LedgerTypeOK
<1>2. FreshRow(newDay) \in BudgetRow
  BY BudgetLedgerAssumption DEF FreshRow, LedgerInv, LedgerTypeOK, BudgetRow
<1>3. /\ db' \in [Strategies -> BudgetRow] /\ json' \in [Strategies -> BudgetRow]
      /\ durable' \in [Strategies -> BudgetRow]
  BY <1>1, <1>2, PersistTypes DEF Fresh, LedgerInv
<1>4. LedgerTypeOK'
  BY <1>1, <1>3 DEF Fresh, LedgerInv, LedgerTypeOK, BudgetRow
<1>5. HolderInv'
  BY Holders DEF Fresh, LedgerInv, LedgerTypeOK, HolderInv
<1>6. WindowInv'
  <2>1. /\ s \in rolling /\ rolling' = rolling \ {s} /\ newDay' = newDay
        /\ window' = [window EXCEPT ![s] = newDay]
        /\ lock' = IF lock = <<"reset">> /\ rolling' = {} THEN NoOne ELSE lock
    BY DEF Fresh
  <2>2. lock # NoOne /\ \A t \in Strategies \ rolling : window[t] = newDay
    BY <2>1 DEF LedgerInv, WindowInv
  <2>3. \A t \in Strategies \ rolling' : window'[t] = newDay'
    BY <2>1, <2>2 DEF LedgerInv, LedgerTypeOK
  <2>4. rolling' # {} => lock' # NoOne
    BY <2>1, <2>2
  <2> QED BY <2>3, <2>4 DEF WindowInv
<1> QED BY <1>4, <1>5, <1>6 DEF LedgerInv

\* A delivery counts, and writes.
LEMMA CountStep ==
  ASSUME LedgerInv, NEW d \in Deliveries, Count(d)
  PROVE  LedgerInv'
<1>0. d[1] \in Events /\ StrategyOf[d[1]] \in Strategies /\ Amount[d[1]] \in Int
  BY BudgetLedgerAssumption DEF Deliveries
<1>1. bal' \in [Strategies -> Int]
  BY <1>0 DEF Count, LedgerInv, LedgerTypeOK
<1>2. spent' \in [Strategies -> BOOLEAN]
  <2>1. Halts(StrategyOf[d[1]], bal'[StrategyOf[d[1]]]) \in BOOLEAN
    BY <1>0, Zenon DEF Halts, LedgerInv, LedgerTypeOK
  <2>2. spent' = [spent EXCEPT ![StrategyOf[d[1]]] =
                     Halts(StrategyOf[d[1]], bal'[StrategyOf[d[1]]])]
    BY DEF Count
  <2> HIDE DEF Halts
  <2> QED BY <1>0, <2>1, <2>2, Zenon DEF LedgerInv, LedgerTypeOK
<1>3. /\ at' \in [Deliveries -> {"new", "checked", "locked", "written", "done"}]
      /\ seen' \subseteq Events /\ counted' \subseteq Events
  BY <1>0 DEF Count, LedgerInv, LedgerTypeOK
<1>4. LedgerTypeOK'
  BY <1>1, <1>2, <1>3 DEF Count, LedgerInv, LedgerTypeOK
<1>5. HolderInv'
  BY DEF Count, LedgerInv, LedgerTypeOK, HolderInv
<1>6. WindowInv'
  BY DEF Count, LedgerInv, WindowInv
<1> QED BY <1>4, <1>5, <1>6 DEF LedgerInv

LEMMA ReleaseStep ==
  ASSUME LedgerInv, NEW d \in Deliveries, Release(d)
  PROVE  LedgerInv'
<1> DEFINE s == StrategyOf[d[1]]
<1>0. s \in Strategies
  BY BudgetLedgerAssumption DEF Deliveries
<1>1. /\ bal' \in [Strategies -> Int] /\ spent' \in [Strategies -> BOOLEAN]
      /\ window' \in [Strategies -> 1..LastDay]
  BY DEF Release, LedgerInv, LedgerTypeOK, budgets
<1>2. Row(s, bal[s], spent[s]) \in BudgetRow
  BY <1>0, BudgetLedgerAssumption DEF Row, LedgerInv, LedgerTypeOK, BudgetRow
<1>3. /\ db' \in [Strategies -> BudgetRow] /\ json' \in [Strategies -> BudgetRow]
      /\ durable' \in [Strategies -> BudgetRow]
  BY <1>0, <1>1, <1>2, PersistTypes DEF Release, LedgerInv
<1>4. LedgerTypeOK'
  BY <1>1, <1>3 DEF Release, LedgerInv, LedgerTypeOK, BudgetRow
<1>5. HolderInv'
  BY Holders DEF Release, LedgerInv, LedgerTypeOK, HolderInv
<1>6. WindowInv'
  BY DEF Release, LedgerInv, HolderInv, WindowInv, budgets
<1> QED BY <1>4, <1>5, <1>6 DEF LedgerInv

\* A reset takes the lock; a restart forgets who had it.
LEMMA ResetStep ==
  ASSUME LedgerInv, ResetDaily
  PROVE  LedgerInv'
<1>1. LedgerTypeOK'
  BY BudgetLedgerAssumption DEF ResetDaily, LedgerInv, LedgerTypeOK, budgets
<1>2. HolderInv'
  BY Holders DEF ResetDaily, LedgerInv, HolderInv
<1>3. WindowInv'
  BY Holders DEF ResetDaily, WindowInv, LedgerInv, budgets
<1> QED BY <1>1, <1>2, <1>3 DEF LedgerInv

LEMMA RestartStep ==
  ASSUME LedgerInv, LedgerRestart
  PROVE  LedgerInv'
<1>0. \A s \in Strategies : Loaded[s] \in BudgetRow /\ Loaded[s].window = today
  BY LoadedToday DEF LedgerInv
<1>1. /\ bal' \in [Strategies -> Int] /\ spent' \in [Strategies -> BOOLEAN]
      /\ window' \in [Strategies -> 1..LastDay]
      /\ \A s \in Strategies : window'[s] = today
  BY <1>0 DEF LedgerRestart, BudgetRow, LedgerInv, LedgerTypeOK
<1>2. /\ at' \in [Deliveries -> {"new", "checked", "locked", "written", "done"}]
      /\ counted' \subseteq Events
  BY DEF LedgerRestart, LedgerInv, LedgerTypeOK
<1>3. restarts' \in 0..MaxRestarts
  BY BudgetLedgerAssumption DEF LedgerRestart, LedgerInv, LedgerTypeOK
<1>4. LedgerTypeOK'
  BY <1>1, <1>2, <1>3 DEF LedgerRestart, LedgerInv, LedgerTypeOK
<1>5. HolderInv'
  BY Holders DEF LedgerRestart, HolderInv
<1>6. WindowInv'
  BY <1>1 DEF LedgerRestart, WindowInv
<1> QED BY <1>4, <1>5, <1>6 DEF LedgerInv

\* The invariant holds at the start and is preserved.
LEMMA LedgerInvInit == LedgerInit => LedgerInv
<1> SUFFICES ASSUME LedgerInit PROVE LedgerInv
  OBVIOUS
<1>0. LastDay \in Nat \ {0} /\ MaxResets \in Nat /\ MaxRestarts \in Nat
  BY BudgetLedgerAssumption
<1>1. db \in [Strategies -> BudgetRow] /\ json = db /\ durable = db
  BY <1>0 DEF LedgerInit, NoRow, FreshRow, BudgetRow
<1>2. /\ bal \in [Strategies -> Int] /\ window \in [Strategies -> 1..LastDay]
      /\ today \in 1..LastDay /\ newDay \in 1..LastDay
      /\ resets \in 0..MaxResets /\ restarts \in 0..MaxRestarts
  BY <1>0 DEF LedgerInit
<1>3. LedgerTypeOK
  BY <1>1, <1>2 DEF LedgerInit, LedgerTypeOK, BudgetRow
<1>4. HolderInv
  BY Holders DEF LedgerInit, HolderInv
<1>5. WindowInv
  BY DEF LedgerInit, WindowInv
<1> QED BY <1>3, <1>4, <1>5 DEF LedgerInv

LEMMA LedgerInvStep == LedgerInv /\ [LedgerNext]_ledgerVars => LedgerInv'
<1> SUFFICES ASSUME LedgerInv, [LedgerNext]_ledgerVars PROVE LedgerInv'
  OBVIOUS
<1>1. CASE Midnight
  <2>1. today' \in 1..LastDay
    BY <1>1, BudgetLedgerAssumption DEF Midnight, LedgerInv, LedgerTypeOK
  <2> QED BY <1>1, <2>1 DEF Midnight, LedgerInv, LedgerTypeOK, HolderInv, WindowInv, budgets
<1>2. CASE UNCHANGED ledgerVars
  BY <1>2 DEF ledgerVars, budgets, LedgerInv, LedgerTypeOK, HolderInv, WindowInv
<1> QED BY <1>1, <1>2, CheckStep, LockStep, FreshStep, CountStep, ReleaseStep, ResetStep,
           RestartStep DEF LedgerNext

\* Every variable of the budgets has its type.
THEOREM LedgerTypes == LedgerSpec => []LedgerTypeOK
BY LedgerInvInit, LedgerInvStep, PTL DEF LedgerSpec, LedgerInv

\* No two strategies are in different windows unless the ledger is just giving
\* them theirs, whatever rolls the day over: a delivery, a reset or a restart.
THEOREM BudgetsShareTheirWindow == LedgerSpec => []OneWindow
<1>1. LedgerInv => OneWindow
  BY DEF LedgerInv, WindowInv, OneWindow
<1> QED BY <1>1, LedgerInvInit, LedgerInvStep, PTL DEF LedgerSpec

-----------------------------------------------------------------------------
(* The balances.                                                           *)

\* The events of a strategy that its balance holds, and those of them whose
\* balance was written since.
CountedFor(s) == {e \in counted : StrategyOf[e] = s}
SettledFor(s) == {e \in CountedFor(s) : at[<<e, 1>>] = "done"}

\* Windows begin today or before, and what is written is not ahead of them.
TimeInv ==
  /\ newDay <= today
  /\ \A s \in Strategies : window[s] <= today /\ durable[s].window <= window[s]

\* Without a failing database its rows are what was last written.
RowsInv == "database" \notin faults => db = durable /\ \A s \in Strategies : json[s].window = 0

\* Deliveries that come once each: a counted event's one is past its count.
\* Deliveries that repeat come one by one, and the one that is there is of an
\* event that is not counted.
OnceInv ==
  /\ seen \subseteq counted /\ ("crash" \notin faults => seen = counted)
  /\ "redelivered" \notin faults =>
       /\ \A d \in Deliveries : d[2] # 1 => at[d] = "new"
       /\ \A e \in counted : <<e, 1>> \in Deliveries /\ at[<<e, 1>>] \in {"written", "done"}
  /\ "redelivered" \in faults =>
       /\ \A c, d \in Deliveries : c = d \/ at[c] \in {"new", "done"} \/ at[d] \in {"new", "done"}
       /\ \A d \in Deliveries : at[d] \in {"checked", "locked"} => d[1] \notin counted

SumInv ==
  /\ IsFiniteSet(counted) /\ (rolling # {} => counted = {})
  /\ \A s \in Strategies \ rolling : bal[s] = Total(Amount, CountedFor(s))

\* What a crash leaves of today.
SettledInv ==
  "crash" \in faults =>
    \A s \in Strategies : durable[s].window = today => durable[s].bal = Total(Amount, SettledFor(s))

BalanceInv == TimeInv /\ RowsInv /\ OnceInv /\ SumInv /\ SettledInv

\* A crash does not meet an event delivered again, for start() forgets which it
\* has seen; nor a reset, half of which it would undo; nor a failing database,
\* whose rows of today hide those of the file.  And the deliveries of an event
\* that comes again do not overlap, for both would pass the check.
FaultsApart ==
  \A f \in FaultSets : /\ "crash" \in f => f \subseteq {"overlapping", "crash"}
                       /\ ~({"redelivered", "overlapping"} \subseteq f)

LEMMA NumbersAndDays ==
  ASSUME LedgerTypeOK
  PROVE  /\ newDay \in Int /\ today \in Int /\ \A s \in Strategies : window[s] \in Int
         /\ \A s \in Strategies : durable[s].window \in Int
  BY BudgetLedgerAssumption DEF LedgerTypeOK

\* A row that is written is the one a restart shall find.
LEMMA PersistRows ==
  ASSUME LedgerInv, RowsInv, NEW s \in Strategies, NEW row, Persist(s, row), faults' = faults,
         row = [window |-> window'[s], bal |-> bal'[s], halted |-> spent'[s]]
  PROVE  /\ RowsInv' /\ \A t \in Strategies \ {s} : durable'[t] = durable[t]
         /\ durable'[s] = row
<1>1. durable \in [Strategies -> BudgetRow] /\ json \in [Strategies -> BudgetRow]
  BY DEF LedgerInv, LedgerTypeOK, BudgetRow
<1>2. durable' = [durable EXCEPT ![s] = row]
  BY DEF Persist
<1>3. ASSUME "database" \notin faults PROVE db' = durable' /\ json' = json /\ db = durable
                         /\ \A t \in Strategies : json[t].window = 0
  BY <1>2, <1>3 DEF Persist, RowsInv
<1>4. RowsInv'
  BY <1>3 DEF RowsInv
<1> QED BY <1>1, <1>2, <1>4

LEMMA FreshRows ==
  ASSUME LedgerInv, RowsInv, NEW s \in Strategies, Fresh(s)
  PROVE  /\ RowsInv' /\ \A t \in Strategies \ {s} : durable'[t] = durable[t] /\ bal'[t] = bal[t]
                                                    /\ window'[t] = window[t]
         /\ durable'[s] = FreshRow(newDay) /\ window'[s] = newDay /\ bal'[s] = 0
<1>1. /\ bal' = [bal EXCEPT ![s] = 0] /\ spent' = [spent EXCEPT ![s] = FALSE]
      /\ window' = [window EXCEPT ![s] = newDay] /\ Persist(s, FreshRow(newDay))
      /\ faults' = faults
  BY DEF Fresh
<1>2. /\ bal'[s] = 0 /\ spent'[s] = FALSE /\ window'[s] = newDay
      /\ \A t \in Strategies \ {s} : bal'[t] = bal[t] /\ window'[t] = window[t]
  BY <1>1 DEF LedgerInv, LedgerTypeOK
<1>3. FreshRow(newDay) = [window |-> window'[s], bal |-> bal'[s], halted |-> spent'[s]]
  BY <1>2 DEF FreshRow
<1> QED BY <1>1, <1>2, <1>3, PersistRows

LEMMA ReleaseRows ==
  ASSUME LedgerInv, RowsInv, NEW d \in Deliveries, Release(d)
  PROVE  LET s == StrategyOf[d[1]]
         IN /\ RowsInv' /\ \A t \in Strategies \ {s} : durable'[t] = durable[t]
            /\ durable'[s] = Row(s, bal[s], spent[s])
<1> DEFINE s == StrategyOf[d[1]]
<1>1. s \in Strategies
  BY BudgetLedgerAssumption DEF Deliveries
<1>2. /\ bal' = bal /\ spent' = spent /\ window' = window /\ Persist(s, Row(s, bal[s], spent[s]))
      /\ faults' = faults
  BY DEF Release, budgets
<1>3. Row(s, bal[s], spent[s]) = [window |-> window'[s], bal |-> bal'[s], halted |-> spent'[s]]
  BY <1>2 DEF Row
<1> HIDE DEF s
<1>4. /\ RowsInv' /\ \A t \in Strategies \ {s} : durable'[t] = durable[t]
      /\ durable'[s] = Row(s, bal[s], spent[s])
  BY <1>1, <1>2, <1>3, PersistRows
<1> QED BY <1>4 DEF s

\* The steps that write nothing.
LEMMA RowsKept ==
  ASSUME RowsInv, UNCHANGED <<faults, db, json, durable>>
  PROVE  RowsInv'
BY DEF RowsInv

LEMMA RowsStep == LedgerInv /\ RowsInv /\ [LedgerNext]_ledgerVars => RowsInv'
<1> SUFFICES ASSUME LedgerInv, RowsInv, [LedgerNext]_ledgerVars PROVE RowsInv'
  OBVIOUS
<1>1. ASSUME NEW d \in Deliveries, Check(d) \/ Lock(d) \/ Count(d) PROVE RowsInv'
  BY <1>1, RowsKept DEF Check, Lock, Count
<1>2. CASE ResetDaily \/ Midnight \/ LedgerRestart \/ UNCHANGED ledgerVars
  BY <1>2, RowsKept DEF ResetDaily, Midnight, LedgerRestart, ledgerVars
<1> QED BY <1>1, <1>2, FreshRows, ReleaseRows DEF LedgerNext

LEMMA TimeStep == LedgerInv /\ RowsInv /\ TimeInv /\ [LedgerNext]_ledgerVars => TimeInv'
<1> SUFFICES ASSUME LedgerInv, RowsInv, TimeInv, [LedgerNext]_ledgerVars PROVE TimeInv'
  OBVIOUS
<1>0. /\ newDay \in Int /\ today \in Int /\ \A s \in Strategies : window[s] \in Int
      /\ \A s \in Strategies : durable[s].window \in Int
  BY NumbersAndDays DEF LedgerInv
<1>1. ASSUME NEW d \in Deliveries, Check(d) \/ Lock(d) \/ Count(d) PROVE TimeInv'
  BY <1>0, <1>1 DEF Check, Lock, Count, TimeInv, budgets
<1>2. ASSUME NEW s \in Strategies, Fresh(s) PROVE TimeInv'
  <2>1. /\ \A t \in Strategies \ {s} : durable'[t] = durable[t] /\ window'[t] = window[t]
        /\ durable'[s].window = newDay /\ window'[s] = newDay
    BY <1>2, FreshRows DEF FreshRow
  <2>2. UNCHANGED <<today, newDay>>
    BY <1>2 DEF Fresh
  <2> QED BY <1>0, <2>1, <2>2 DEF TimeInv
<1>3. ASSUME NEW d \in Deliveries, Release(d) PROVE TimeInv'
  <2> DEFINE s == StrategyOf[d[1]]
  <2>0. durable'[s] = Row(s, bal[s], spent[s]) /\ \A t \in Strategies \ {s} : durable'[t] = durable[t]
    BY <1>3, ReleaseRows
  <2>1. durable'[s].window = window[s] /\ \A t \in Strategies \ {s} : durable'[t] = durable[t]
    BY <2>0 DEF Row
  <2>2. UNCHANGED <<today, newDay, window>>
    BY <1>3 DEF Release, budgets
  <2> QED BY <1>0, <2>1, <2>2 DEF TimeInv
<1>4. CASE ResetDaily \/ UNCHANGED ledgerVars
  BY <1>0, <1>4 DEF ResetDaily, ledgerVars, TimeInv, budgets
<1>5. CASE Midnight
  BY <1>0, <1>5 DEF Midnight, TimeInv, budgets
<1>6. CASE LedgerRestart
  <2>1. UNCHANGED <<today, newDay, durable>> /\ \A s \in Strategies : window'[s] = today
    BY <1>6, LoadedToday DEF LedgerRestart, LedgerInv
  <2> QED BY <1>0, <2>1 DEF TimeInv
<1> QED BY <1>1, <1>2, <1>3, <1>4, <1>5, <1>6 DEF LedgerNext

LEMMA DeliveryParts ==
  ASSUME NEW d \in Deliveries
  PROVE  /\ d[1] \in Events /\ d = <<d[1], d[2]>> /\ d[2] \in Nat /\ d[2] >= 1
         /\ StrategyOf[d[1]] \in Strategies /\ Amount[d[1]] \in Int
  BY BudgetLedgerAssumption DEF Deliveries

\* What has the lock to be counted is not counted yet.
LEMMA LockedIsNew ==
  ASSUME OnceInv, NEW d \in Deliveries, at[d] = "locked"
  PROVE  d[1] \notin counted
<1>1. CASE "redelivered" \in faults
  BY <1>1 DEF OnceInv
<1>2. CASE "redelivered" \notin faults
  <2>1. d = <<d[1], 1>>
    BY <1>2, DeliveryParts DEF OnceInv
  <2> QED BY <1>2, <2>1 DEF OnceInv
<1> QED BY <1>1, <1>2

LEMMA CheckOnce ==
  ASSUME LedgerInv, OnceInv, FaultsApart, NEW d \in Deliveries, Check(d)
  PROVE  OnceInv'
<1>0. /\ UNCHANGED <<faults, seen, counted>> /\ at[d] = "new" /\ Comes(d)
      /\ at' = [at EXCEPT ![d] = IF d[1] \in seen THEN "done" ELSE "checked"]
  BY DEF Check
<1>1. /\ at'[d] = (IF d[1] \in seen THEN "done" ELSE "checked")
      /\ \A c \in Deliveries \ {d} : at'[c] = at[c]
  BY <1>0 DEF LedgerInv, LedgerTypeOK
<1>2. ASSUME "redelivered" \notin faults
      PROVE  /\ \A c \in Deliveries : c[2] # 1 => at'[c] = "new"
             /\ \A e \in counted : <<e, 1>> \in Deliveries /\ at'[<<e, 1>>] \in {"written", "done"}
  <2>1. d[2] = 1
    BY <1>0, <1>2, DeliveryParts DEF Comes
  <2> QED BY <1>0, <1>1, <1>2, <2>1 DEF OnceInv
<1>3. ASSUME "redelivered" \in faults
      PROVE  /\ \A b, c \in Deliveries : b = c \/ at'[b] \in {"new", "done"} \/ at'[c] \in {"new", "done"}
             /\ \A c \in Deliveries : at'[c] \in {"checked", "locked"} => c[1] \notin counted
  <2>1. "overlapping" \notin faults /\ "crash" \notin faults
    BY <1>3 DEF FaultsApart, LedgerInv, LedgerTypeOK
  <2>2. seen = counted /\ \A c \in Deliveries : at[c] \in {"new", "done"}
    BY <1>0, <2>1 DEF Comes, OnceInv
  <2> QED BY <1>1, <2>2
<1> QED BY <1>0, <1>2, <1>3 DEF OnceInv

LEMMA LockOnce ==
  ASSUME LedgerInv, OnceInv, NEW d \in Deliveries, Lock(d)
  PROVE  OnceInv'
<1>0. /\ faults' = faults /\ at[d] = "checked" /\ at' = [at EXCEPT ![d] = "locked"]
      /\ \/ seen' = {} /\ counted' = {}
         \/ UNCHANGED <<seen, counted>>
  BY DEF Lock
<1>1. /\ at'[d] = "locked" /\ \A c \in Deliveries \ {d} : at'[c] = at[c]
      /\ counted' \subseteq counted
  BY <1>0 DEF LedgerInv, LedgerTypeOK
<1>2. /\ seen' \subseteq counted' /\ ("crash" \notin faults' => seen' = counted')
  BY <1>0 DEF OnceInv
<1>3. ASSUME "redelivered" \notin faults
      PROVE  /\ \A c \in Deliveries : c[2] # 1 => at'[c] = "new"
             /\ \A e \in counted' : <<e, 1>> \in Deliveries /\ at'[<<e, 1>>] \in {"written", "done"}
  BY <1>0, <1>1, <1>3 DEF OnceInv
<1>4. ASSUME "redelivered" \in faults
      PROVE  /\ \A b, c \in Deliveries : b = c \/ at'[b] \in {"new", "done"} \/ at'[c] \in {"new", "done"}
             /\ \A c \in Deliveries : at'[c] \in {"checked", "locked"} => c[1] \notin counted'
  BY <1>0, <1>1, <1>4 DEF OnceInv
<1> QED BY <1>0, <1>2, <1>3, <1>4 DEF OnceInv

LEMMA CountOnce ==
  ASSUME LedgerInv, OnceInv, NEW d \in Deliveries, Count(d)
  PROVE  OnceInv'
<1>0. /\ faults' = faults /\ at[d] = "locked" /\ at' = [at EXCEPT ![d] = "written"]
      /\ seen' = seen \cup {d[1]} /\ counted' = counted \cup {d[1]}
  BY DEF Count
<1>1. at'[d] = "written" /\ \A c \in Deliveries \ {d} : at'[c] = at[c]
  BY <1>0 DEF LedgerInv, LedgerTypeOK
<1>2. /\ seen' \subseteq counted' /\ ("crash" \notin faults' => seen' = counted')
  BY <1>0 DEF OnceInv
<1>3. ASSUME "redelivered" \notin faults
      PROVE  /\ \A c \in Deliveries : c[2] # 1 => at'[c] = "new"
             /\ \A e \in counted' : <<e, 1>> \in Deliveries /\ at'[<<e, 1>>] \in {"written", "done"}
  <2>1. d[2] = 1 /\ d = <<d[1], 1>>
    BY <1>0, <1>3, DeliveryParts DEF OnceInv
  <2> QED BY <1>0, <1>1, <1>3, <2>1 DEF OnceInv
<1>4. ASSUME "redelivered" \in faults
      PROVE  /\ \A b, c \in Deliveries : b = c \/ at'[b] \in {"new", "done"} \/ at'[c] \in {"new", "done"}
             /\ \A c \in Deliveries : at'[c] \in {"checked", "locked"} => c[1] \notin counted'
  <2>1. \A c \in Deliveries \ {d} : at[c] \in {"new", "done"}
    BY <1>0, <1>4 DEF OnceInv
  <2> QED BY <1>1, <2>1
<1> QED BY <1>0, <1>2, <1>3, <1>4 DEF OnceInv

LEMMA ReleaseOnce ==
  ASSUME LedgerInv, OnceInv, NEW d \in Deliveries, Release(d)
  PROVE  OnceInv'
<1>0. /\ UNCHANGED <<faults, seen, counted>> /\ at[d] = "written" /\ at' = [at EXCEPT ![d] = "done"]
  BY DEF Release
<1>1. at'[d] = "done" /\ \A c \in Deliveries \ {d} : at'[c] = at[c]
  BY <1>0 DEF LedgerInv, LedgerTypeOK
<1>3. ASSUME "redelivered" \notin faults
      PROVE  /\ \A c \in Deliveries : c[2] # 1 => at'[c] = "new"
             /\ \A e \in counted : <<e, 1>> \in Deliveries /\ at'[<<e, 1>>] \in {"written", "done"}
  BY <1>0, <1>1, <1>3 DEF OnceInv
<1>4. ASSUME "redelivered" \in faults
      PROVE  /\ \A b, c \in Deliveries : b = c \/ at'[b] \in {"new", "done"} \/ at'[c] \in {"new", "done"}
             /\ \A c \in Deliveries : at'[c] \in {"checked", "locked"} => c[1] \notin counted
  BY <1>0, <1>1, <1>4 DEF OnceInv
<1> QED BY <1>0, <1>3, <1>4 DEF OnceInv

LEMMA RestartOnce ==
  ASSUME LedgerInv, OnceInv, FaultsApart, LedgerRestart
  PROVE  OnceInv'
<1>0. /\ faults' = faults /\ "crash" \in faults /\ seen' = {} /\ counted' \subseteq counted
      /\ at' = [d \in Deliveries |-> IF at[d] = "done" THEN "done" ELSE "new"]
      /\ \A e \in counted' : \E c \in 1..Copies : at[<<e, c>>] = "done"
  BY DEF LedgerRestart
<1>1. "redelivered" \notin faults
  BY <1>0 DEF FaultsApart, LedgerInv, LedgerTypeOK
<1>2. \A d \in Deliveries : d[2] # 1 => at[d] = "new" /\ at'[d] = "new"
  BY <1>0, <1>1 DEF OnceInv
<1>3. ASSUME NEW e \in counted' PROVE <<e, 1>> \in Deliveries /\ at'[<<e, 1>>] = "done"
  <2>1. <<e, 1>> \in Deliveries /\ e \in Events
    BY <1>0, <1>1 DEF OnceInv, Deliveries
  <2>2. PICK c \in 1..Copies : at[<<e, c>>] = "done"
    BY <1>0
  <2>3. <<e, c>> \in Deliveries
    BY <2>1 DEF Deliveries
  <2>4. c = 1
    BY <1>2, <2>2, <2>3
  <2> QED BY <1>0, <2>1, <2>2, <2>4
<1> QED BY <1>0, <1>1, <1>2, <1>3 DEF OnceInv

LEMMA OnceStep == LedgerInv /\ OnceInv /\ FaultsApart /\ [LedgerNext]_ledgerVars => OnceInv'
<1> SUFFICES ASSUME LedgerInv, OnceInv, FaultsApart, [LedgerNext]_ledgerVars PROVE OnceInv'
  OBVIOUS
<1>1. ASSUME NEW s \in Strategies, Fresh(s) PROVE OnceInv'
  BY <1>1 DEF Fresh, OnceInv
<1>2. CASE ResetDaily
  BY <1>2 DEF ResetDaily, OnceInv
<1>3. CASE Midnight \/ UNCHANGED ledgerVars
  BY <1>3 DEF Midnight, ledgerVars, OnceInv
<1> QED BY <1>1, <1>2, <1>3, CheckOnce, LockOnce, CountOnce, ReleaseOnce, RestartOnce DEF LedgerNext

\* What a start loads of a strategy where the database never fails.
LEMMA LoadedRows ==
  ASSUME LedgerInv, RowsInv, "database" \notin faults, NEW s \in Strategies
  PROVE  Loaded[s] = IF durable[s].window = today THEN durable[s] ELSE FreshRow(today)
<1>1. db = durable /\ json[s].window = 0 /\ today # 0
  BY DEF RowsInv, LedgerInv, LedgerTypeOK
<1>2. CASE \E t \in Strategies : db[t].window = today
  BY <1>1, <1>2 DEF Loaded
<1>3. CASE ~\E t \in Strategies : db[t].window = today
  BY <1>1, <1>3 DEF Loaded
<1> QED BY <1>2, <1>3

\* Nothing is counted, so that the sums are 0.
LEMMA NothingCounted ==
  ASSUME counted = {}, NEW s
  PROVE  Total(Amount, CountedFor(s)) = 0 /\ Total(Amount, SettledFor(s)) = 0
<1>1. CountedFor(s) = {} /\ SettledFor(s) = {}
  BY DEF CountedFor, SettledFor
<1> QED BY <1>1, TotalOfNothing

\* A delivery with the lock adds its event's amount to one balance.
LEMMA CountSum ==
  ASSUME LedgerInv, OnceInv, SumInv, NEW d \in Deliveries, Count(d)
  PROVE  SumInv'
<1> DEFINE r == StrategyOf[d[1]]
<1>0. /\ at[d] = "locked" /\ rolling = {} /\ rolling' = {}
      /\ counted' = counted \cup {d[1]} /\ bal' = [bal EXCEPT ![r] = @ + Amount[d[1]]]
  BY DEF Count
<1>1. /\ d[1] \in Events /\ r \in Strategies /\ Amount[d[1]] \in Int /\ d[1] \notin counted
      /\ counted \subseteq Events /\ \A e \in Events : Amount[e] \in Int
  BY <1>0, DeliveryParts, LockedIsNew, BudgetLedgerAssumption DEF LedgerInv, LedgerTypeOK
<1>2. /\ bal'[r] = bal[r] + Amount[d[1]] /\ \A s \in Strategies \ {r} : bal'[s] = bal[s]
  BY <1>0, <1>1 DEF LedgerInv, LedgerTypeOK
<1>3. /\ CountedFor(r)' = CountedFor(r) \cup {d[1]} /\ d[1] \notin CountedFor(r)
      /\ \A s \in Strategies \ {r} : CountedFor(s)' = CountedFor(s)
  BY <1>0, <1>1 DEF CountedFor
<1>4. IsFiniteSet(counted') /\ IsFiniteSet(CountedFor(r)) /\ \A e \in CountedFor(r) : Amount[e] \in Int
  <2>1. CountedFor(r) \subseteq counted
    BY DEF CountedFor
  <2> QED BY <1>0, <1>1, <2>1, FS_Subset, FS_AddElement DEF SumInv
<1>5. Total(Amount, CountedFor(r) \cup {d[1]}) = Total(Amount, CountedFor(r)) + Amount[d[1]]
  BY <1>1, <1>3, <1>4, TotalWith
<1>6. \A s \in Strategies : bal[s] = Total(Amount, CountedFor(s))
  BY <1>0 DEF SumInv
<1> HIDE DEF r
<1>7. bal'[r] = Total(Amount, CountedFor(r)')
  BY <1>1, <1>2, <1>3, <1>5, <1>6
<1>8. \A s \in Strategies \ {r} : bal'[s] = Total(Amount, CountedFor(s)')
  BY <1>2, <1>3, <1>6
<1>9. \A s \in Strategies : bal'[s] = Total(Amount, CountedFor(s)')
  BY <1>7, <1>8
<1> QED BY <1>0, <1>4, <1>9 DEF SumInv

\* A restart finds what was written, of the events whose balance was.
LEMMA RestartSum ==
  ASSUME LedgerInv, RowsInv, OnceInv, SumInv, SettledInv, FaultsApart, LedgerRestart
  PROVE  SumInv' /\ SettledInv'
<1>0. /\ UNCHANGED <<faults, today, durable>> /\ "crash" \in faults /\ rolling' = {}
      /\ bal' = [s \in Strategies |-> Loaded[s].bal]
      /\ at' = [d \in Deliveries |-> IF at[d] = "done" THEN "done" ELSE "new"]
      /\ counted' = {e \in counted : durable[StrategyOf[e]].window = today
                         /\ \E c \in 1..Copies : at[<<e, c>>] = "done"}
  BY DEF LedgerRestart
<1>1. "redelivered" \notin faults /\ "database" \notin faults
  BY <1>0 DEF FaultsApart, LedgerInv, LedgerTypeOK
<1>2. counted' = {e \in counted : durable[StrategyOf[e]].window = today /\ at[<<e, 1>>] = "done"}
  <2>1. ASSUME NEW e \in counted
        PROVE  (\E c \in 1..Copies : at[<<e, c>>] = "done") <=> at[<<e, 1>>] = "done"
    <3>1. <<e, 1>> \in Deliveries /\ e \in Events /\ 1 \in 1..Copies
      BY <1>1 DEF OnceInv, Deliveries
    <3>2. \A c \in 1..Copies : at[<<e, c>>] = "done" => c = 1
      BY <1>1, <3>1 DEF OnceInv, Deliveries
    <3> QED BY <3>1, <3>2
  <2> QED BY <1>0, <2>1
<1>3. IsFiniteSet(counted')
  BY <1>2, FS_Subset DEF SumInv
<1>4. \A e \in counted' : at'[<<e, 1>>] = "done"
  BY <1>0, <1>1, <1>2 DEF OnceInv
<1>5. \A s : SettledFor(s)' = CountedFor(s)'
  BY <1>4 DEF SettledFor, CountedFor
<1>6. ASSUME NEW s \in Strategies, durable[s].window = today
      PROVE  CountedFor(s)' = SettledFor(s) /\ bal'[s] = durable[s].bal
  BY <1>0, <1>1, <1>2, <1>6, LoadedRows DEF CountedFor, SettledFor
<1>7. ASSUME NEW s \in Strategies, durable[s].window # today
      PROVE  bal'[s] = 0 /\ CountedFor(s)' = {}
  BY <1>0, <1>1, <1>2, <1>7, LoadedRows DEF CountedFor, FreshRow
<1>8. ASSUME NEW s \in Strategies PROVE bal'[s] = Total(Amount, CountedFor(s)')
  <2>1. CASE durable[s].window = today
    BY <1>0, <1>6, <2>1 DEF SettledInv
  <2>2. CASE durable[s].window # today
    BY <1>7, <2>2, TotalOfNothing
  <2> QED BY <2>1, <2>2
<1>9. SumInv'
  BY <1>0, <1>3, <1>8 DEF SumInv
<1>10. ASSUME NEW s \in Strategies, durable'[s].window = today'
       PROVE  durable'[s].bal = Total(Amount, SettledFor(s)')
  BY <1>0, <1>5, <1>6, <1>8, <1>10
<1> QED BY <1>9, <1>10 DEF SettledInv

LEMMA SumStep ==
  LedgerInv /\ RowsInv /\ OnceInv /\ SumInv /\ SettledInv /\ FaultsApart /\ [LedgerNext]_ledgerVars
     => SumInv'
<1> SUFFICES ASSUME LedgerInv, RowsInv, OnceInv, SumInv, SettledInv, FaultsApart,
                    [LedgerNext]_ledgerVars
             PROVE  SumInv'
  OBVIOUS
<1>1. ASSUME NEW d \in Deliveries, Check(d) \/ Release(d) PROVE SumInv'
  BY <1>1 DEF Check, Release, budgets, SumInv, CountedFor
<1>2. ASSUME NEW d \in Deliveries, Lock(d) PROVE SumInv'
  <2>0. rolling = {}
    BY <1>2 DEF Lock, LedgerInv, WindowInv
  <2>1. CASE RollsOver(d) # {}
    <3>1. counted' = {} /\ rolling' = Strategies
      BY <1>2, <2>1 DEF Lock, RollsOver
    <3> QED BY <3>1, FS_EmptySet DEF SumInv
  <2>2. CASE RollsOver(d) = {}
    BY <1>2, <2>0, <2>2 DEF Lock, budgets, SumInv, CountedFor
  <2> QED BY <2>1, <2>2
<1>3. ASSUME NEW s \in Strategies, Fresh(s) PROVE SumInv'
  <2>1. counted = {} /\ counted' = {} /\ rolling' = rolling \ {s}
    BY <1>3 DEF Fresh, SumInv
  <2>2. bal'[s] = 0 /\ \A t \in Strategies \ {s} : bal'[t] = bal[t]
    BY <1>3, FreshRows
  <2>3. \A t : CountedFor(t)' = CountedFor(t) /\ Total(Amount, CountedFor(t)) = 0
    BY <2>1, NothingCounted DEF CountedFor
  <2>4. \A t \in Strategies \ rolling' : bal'[t] = Total(Amount, CountedFor(t)')
    BY <2>1, <2>2, <2>3 DEF SumInv
  <2> QED BY <2>1, <2>4, FS_EmptySet DEF SumInv
<1>4. CASE ResetDaily
  <2>1. counted' = {} /\ rolling' = Strategies
    BY <1>4 DEF ResetDaily
  <2> QED BY <2>1, FS_EmptySet DEF SumInv
<1>5. CASE Midnight \/ UNCHANGED ledgerVars
  BY <1>5 DEF Midnight, ledgerVars, budgets, SumInv, CountedFor
<1> QED BY <1>1, <1>2, <1>3, <1>4, <1>5, CountSum, RestartSum DEF LedgerNext

LEMMA ReleaseSettled ==
  ASSUME LedgerInv, RowsInv, OnceInv, SumInv, SettledInv, FaultsApart, NEW d \in Deliveries,
         Release(d)
  PROVE  SettledInv'
<1> SUFFICES ASSUME "crash" \in faults', NEW s \in Strategies, durable'[s].window = today'
             PROVE  durable'[s].bal = Total(Amount, SettledFor(s)')
  BY DEF SettledInv
<1> DEFINE r == StrategyOf[d[1]]
<1>0. /\ UNCHANGED <<faults, today, counted>> /\ at[d] = "written" /\ at' = [at EXCEPT ![d] = "done"]
  BY DEF Release
<1>1. /\ "crash" \in faults /\ "redelivered" \notin faults /\ d = <<d[1], 1>>
  <2>1. "crash" \in faults /\ faults \in FaultSets
    BY <1>0 DEF LedgerInv, LedgerTypeOK
  <2>2. "redelivered" \notin faults
    BY <2>1 DEF FaultsApart
  <2>3. d[2] = 1
    BY <1>0, <2>2 DEF OnceInv
  <2> QED BY <2>1, <2>2, <2>3, DeliveryParts
<1>2. at'[d] = "done" /\ \A c \in Deliveries \ {d} : at'[c] = at[c] /\ at[c] # "written"
  BY <1>0 DEF LedgerInv, LedgerTypeOK, HolderInv
<1>3. \A t \in Strategies \ {r} : durable'[t] = durable[t]
  BY ReleaseRows
<1>4. durable'[r].bal = bal[r]
  <2>1. durable'[r] = Row(r, bal[r], spent[r])
    BY ReleaseRows
  <2> QED BY <2>1 DEF Row
<1>5. CASE s = r
  <2>1. \A e \in counted : at'[<<e, 1>>] = "done"
    BY <1>1, <1>2 DEF OnceInv
  <2>2. SettledFor(s)' = CountedFor(s)
    BY <1>0, <2>1 DEF SettledFor, CountedFor
  <2>3. bal[s] = Total(Amount, CountedFor(s))
    BY <1>0 DEF SumInv, LedgerInv, HolderInv
  <2> QED BY <1>4, <1>5, <2>2, <2>3
<1>6. CASE s # r
  <2>1. SettledFor(s)' = SettledFor(s)
    <3>1. \A e \in counted : StrategyOf[e] = s => <<e, 1>> \in Deliveries \ {d}
      BY <1>1, <1>6 DEF OnceInv
    <3> QED BY <1>0, <1>2, <3>1 DEF SettledFor, CountedFor
  <2>2. durable'[s] = durable[s]
    BY <1>3, <1>6
  <2> QED BY <1>0, <1>1, <2>1, <2>2 DEF SettledInv
<1> QED BY <1>5, <1>6

\* What is settled stays so when what is written does.
LEMMA SettledKept ==
  ASSUME SettledInv, UNCHANGED <<faults, today, durable>>,
         "crash" \in faults => \A s \in Strategies : SettledFor(s)' = SettledFor(s)
  PROVE  SettledInv'
<1>1. ASSUME "crash" \in faults', NEW s \in Strategies, durable'[s].window = today'
      PROVE  durable'[s].bal = Total(Amount, SettledFor(s)')
  BY <1>1 DEF SettledInv
<1> QED BY <1>1 DEF SettledInv

LEMMA CheckSettled ==
  ASSUME LedgerInv, OnceInv, SettledInv, FaultsApart, NEW d \in Deliveries, Check(d)
  PROVE  SettledInv'
<1>0. /\ UNCHANGED <<faults, today, durable, counted>> /\ at[d] = "new"
      /\ \A c \in Deliveries \ {d} : at'[c] = at[c]
  BY DEF Check, LedgerInv, LedgerTypeOK
<1>1. ASSUME "crash" \in faults, NEW s \in Strategies PROVE SettledFor(s)' = SettledFor(s)
  <2>1. "redelivered" \notin faults
    BY <1>1 DEF FaultsApart, LedgerInv, LedgerTypeOK
  <2>2. \A e \in counted : <<e, 1>> \in Deliveries \ {d}
    BY <1>0, <2>1 DEF OnceInv
  <2> QED BY <1>0, <2>2 DEF SettledFor, CountedFor
<1> QED BY <1>0, <1>1, SettledKept

LEMMA LockSettled ==
  ASSUME LedgerInv, TimeInv, OnceInv, SettledInv, FaultsApart, NEW d \in Deliveries, Lock(d)
  PROVE  SettledInv'
<1>0. /\ UNCHANGED <<faults, today, durable>> /\ at[d] = "checked" /\ rolling = {}
      /\ \A c \in Deliveries \ {d} : at'[c] = at[c]
  BY DEF Lock, LedgerInv, LedgerTypeOK, WindowInv
<1>1. CASE RollsOver(d) = {}
  <2>0. counted' = counted
    BY <1>1 DEF Lock
  <2>1. ASSUME "crash" \in faults, NEW s \in Strategies PROVE SettledFor(s)' = SettledFor(s)
    <3>1. "redelivered" \notin faults
      BY <2>1 DEF FaultsApart, LedgerInv, LedgerTypeOK
    <3>2. \A e \in counted : <<e, 1>> \in Deliveries \ {d}
      BY <1>0, <3>1 DEF OnceInv
    <3> QED BY <1>0, <2>0, <3>2 DEF SettledFor, CountedFor
  <2> QED BY <1>0, <2>1, SettledKept
<1>2. CASE RollsOver(d) # {}
  <2>1. window[First] < today /\ First \in Strategies
    BY <1>2, BudgetLedgerAssumption DEF RollsOver
  <2>2. ASSUME NEW s \in Strategies PROVE durable[s].window # today
    <3>1. window[s] = window[First]
      BY <1>0, <2>1 DEF LedgerInv, WindowInv
    <3> QED BY <2>1, <3>1, NumbersAndDays DEF TimeInv, LedgerInv
  <2> QED BY <1>0, <2>2 DEF SettledInv
<1> QED BY <1>1, <1>2

LEMMA CountSettled ==
  ASSUME LedgerInv, OnceInv, SettledInv, FaultsApart, NEW d \in Deliveries, Count(d)
  PROVE  SettledInv'
<1>0. /\ UNCHANGED <<faults, today, durable>> /\ at[d] = "locked" /\ at'[d] = "written"
      /\ \A c \in Deliveries \ {d} : at'[c] = at[c]
      /\ counted' = counted \cup {d[1]}
  BY DEF Count, LedgerInv, LedgerTypeOK
<1>1. ASSUME "crash" \in faults, NEW s \in Strategies PROVE SettledFor(s)' = SettledFor(s)
  <2>1. "redelivered" \notin faults
    BY <1>1 DEF FaultsApart, LedgerInv, LedgerTypeOK
  <2>2. \A e \in counted : <<e, 1>> \in Deliveries \ {d}
    BY <1>0, <2>1 DEF OnceInv
  <2>3. d = <<d[1], 1>>
    BY <1>0, <2>1, DeliveryParts DEF OnceInv
  <2> QED BY <1>0, <2>2, <2>3 DEF SettledFor, CountedFor
<1> QED BY <1>0, <1>1, SettledKept

LEMMA SettledStep ==
  LedgerInv /\ TimeInv /\ RowsInv /\ OnceInv /\ SumInv /\ SettledInv /\ FaultsApart
     /\ [LedgerNext]_ledgerVars => SettledInv'
<1> SUFFICES ASSUME LedgerInv, TimeInv, RowsInv, OnceInv, SumInv, SettledInv, FaultsApart,
                    [LedgerNext]_ledgerVars
             PROVE  SettledInv'
  OBVIOUS
<1>1. ASSUME NEW s \in Strategies, Fresh(s) PROVE SettledInv'
  <2>0. /\ UNCHANGED <<faults, today, at, counted>> /\ counted = {}
        /\ \A t : SettledFor(t)' = SettledFor(t)
    BY <1>1 DEF Fresh, SumInv, SettledFor, CountedFor
  <2>1. /\ durable'[s].bal = 0 /\ \A t \in Strategies \ {s} : durable'[t] = durable[t]
    BY <1>1, FreshRows DEF FreshRow
  <2>2. ASSUME "crash" \in faults', NEW t \in Strategies, durable'[t].window = today'
        PROVE  durable'[t].bal = Total(Amount, SettledFor(t)')
    <3>1. CASE t = s
      BY <2>0, <2>1, <3>1, NothingCounted
    <3>2. CASE t # s
      BY <2>0, <2>1, <2>2, <3>2 DEF SettledInv
    <3> QED BY <3>1, <3>2
  <2> QED BY <2>2 DEF SettledInv
<1>2. CASE ResetDaily
  BY <1>2 DEF ResetDaily, FaultsApart, SettledInv, LedgerInv, LedgerTypeOK
<1>3. CASE Midnight
  <2>1. \A s \in Strategies : durable'[s].window # today'
    BY <1>3, NumbersAndDays DEF Midnight, TimeInv, LedgerInv
  <2> QED BY <2>1 DEF SettledInv
<1>4. CASE UNCHANGED ledgerVars
  BY <1>4, SettledKept DEF ledgerVars, SettledFor, CountedFor
<1> QED BY <1>1, <1>2, <1>3, <1>4, CheckSettled, LockSettled, CountSettled, ReleaseSettled,
           RestartSum DEF LedgerNext

LEMMA RowsInit == LedgerInit => RowsInv
BY DEF LedgerInit, RowsInv, NoRow, FreshRow

LEMMA BalanceInit == LedgerInit => BalanceInv
<1> SUFFICES ASSUME LedgerInit PROVE BalanceInv
  OBVIOUS
<1>1. TimeInv
  BY DEF LedgerInit, TimeInv, NoRow, FreshRow
<1>2. OnceInv
  BY DeliveryParts DEF LedgerInit, OnceInv
<1>3. SumInv
  BY NothingCounted, FS_EmptySet DEF LedgerInit, SumInv
<1>4. SettledInv
  BY BudgetLedgerAssumption DEF LedgerInit, SettledInv, NoRow, FreshRow
<1> QED BY <1>1, <1>2, <1>3, <1>4, RowsInit DEF BalanceInv

LEMMA BalanceStep ==
  LedgerInv /\ BalanceInv /\ FaultsApart /\ [LedgerNext]_ledgerVars => BalanceInv'
BY RowsStep, TimeStep, OnceStep, SumStep, SettledStep DEF BalanceInv

\* A balance is the sum of the events of its window, each counted once, however
\* deliveries overlap, repeat or are cut off, over midnights, resets, a failing
\* database and crashes.
THEOREM EventsCountedOnce ==
  ASSUME FaultsApart
  PROVE  LedgerSpec => []BalanceIsSum
<1>1. BalanceInv => BalanceIsSum
  BY DEF BalanceInv, SumInv, BalanceIsSum, Total, CountedFor
<1>2. LedgerInv /\ BalanceInv /\ [LedgerNext]_ledgerVars => BalanceInv'
  BY BalanceStep
<1> QED BY <1>1, <1>2, LedgerInvInit, LedgerInvStep, BalanceInit, PTL DEF LedgerSpec

\* A start finds each strategy as the last write of today left it.
THEOREM StartFindsTheBalance ==
  ASSUME \A f \in FaultSets : ~({"database", "crash"} \subseteq f)
  PROVE  LedgerSpec => RestartKeepsBalance
<1> DEFINE Keeps == restarts' # restarts =>
                      \A s \in Strategies :
                        durable[s].window = today =>
                          bal'[s] = durable[s].bal /\ spent'[s] = durable[s].halted
<1>1. LedgerInv /\ RowsInv /\ [LedgerNext]_ledgerVars => [Keeps]_ledgerVars
  <2> SUFFICES ASSUME LedgerInv, RowsInv, LedgerNext, restarts' # restarts PROVE Keeps
    OBVIOUS
  <2>1. LedgerRestart
    BY DEF LedgerNext, Check, Lock, Count, Release, Fresh, ResetDaily, Midnight
  <2>2. "database" \notin faults
    BY <2>1 DEF LedgerRestart, LedgerInv, LedgerTypeOK
  <2> QED BY <2>1, <2>2, LoadedRows DEF LedgerRestart
<1>2. LedgerSpec => [][Keeps]_ledgerVars
  BY <1>1, LedgerInvInit, LedgerInvStep, RowsInit, RowsStep, PTL DEF LedgerSpec
<1> QED BY <1>2 DEF RestartKeepsBalance

-----------------------------------------------------------------------------
(* The position store.                                                     *)

\* Only drained operations of a key that no task ever wrote work on it, and one
\* that waits for Redis carries the last row the database answered for.
RowInv ==
  /\ \A t \in Tasks : work[t] # Idle => work[t].op.key \in tasked
  /\ \A w \in Workers : work[w] # Idle => work[w].row \in 0..Len(wal)
  /\ work[Drain] # Idle /\ work[Drain].at = "redis" =>
        \/ work[Drain].op.key \in tasked
        \/ work[Drain].row = acked[work[Drain].op.key]

\* The hash of such a key is up to date, unless it is about to be written.
HashInv ==
  \A k \in Keys \ tasked :
     \/ hash[k] = acked[k]
     \/ halted
     \/ work[Drain] # Idle /\ work[Drain].at = "redis" /\ work[Drain].op.key = k

StoreInv == StoreTypeOK /\ RowInv /\ HashInv

\* An operation that runs is one.
LEMMA WorkingTypes ==
  ASSUME StoreTypeOK, NEW w \in Workers, work[w] # Idle
  PROVE  /\ work[w] \in Working /\ work[w].op \in Ops /\ work[w].op.key \in Keys
         /\ work[w].row \in Nat /\ work[w].read \in Int
<1>1. work[w] \in Working
  BY DEF StoreTypeOK
<1>2. work[w].op \in Ops /\ work[w].row \in Nat /\ work[w].read \in Int
  BY <1>1 DEF Working
<1> QED BY <1>1, <1>2 DEF Ops

\* What an operation starts as.
LEMMA BeginsTypes ==
  ASSUME NEW o \in Ops
  PROVE  /\ Begins(o) \in Working \cup {Idle}
         /\ Begins(o) # Idle => /\ Begins(o).op = o /\ Begins(o).row = 0
                                /\ Begins(o).at = "pg"
         /\ [at |-> "new", op |-> o, row |-> 0, read |-> 0] \in Working
BY DEF Begins, Working

\* A fill starts a task of its own, or joins the queue.
LEMMA FillStep ==
  ASSUME StoreInv, NEW k \in Keys, Fill(k)
  PROVE  StoreInv'
<1> DEFINE o == [op |-> IF held[k] THEN "close" ELSE "open", key |-> k]
<1>0. o \in Ops /\ o.key = k /\ QueueMax \in Nat \ {0} /\ MaxFills \in Nat
  BY PositionStoreAssumption DEF Ops
<1>1. /\ fills < MaxFills /\ fills' = fills + 1 /\ held' = [held EXCEPT ![k] = ~@]
      /\ forgotten' = forgotten \ {k}
      /\ UNCHANGED <<wal, hash, exposure, halted, crashes, acked, failed, recovered>>
      /\ \/ index' = [index EXCEPT ![k] = ~held[k]] /\ Enqueue(o)
         \/ Spawn(o) /\ UNCHANGED <<index, queue>>
  BY DEF Fill
<1> HIDE DEF o
<1>2. /\ Spawn(o) /\ UNCHANGED queue
      \/ /\ queue' = Append(queue, o) /\ Len(queue) < QueueMax /\ UNCHANGED <<work, tasked>>
  BY <1>1 DEF Enqueue
<1>3. index' \in [Keys -> BOOLEAN] /\ held' \in [Keys -> BOOLEAN] /\ fills' \in 0..MaxFills
  <2>1. held[k] \in BOOLEAN /\ (~held[k]) \in BOOLEAN
    BY Zenon DEF StoreInv, StoreTypeOK
  <2>2. index' \in [Keys -> BOOLEAN]
    BY <1>1, <2>1, Zenon DEF StoreInv, StoreTypeOK
  <2>3. held' \in [Keys -> BOOLEAN]
    BY <1>1, <2>1, Zenon DEF StoreInv, StoreTypeOK
  <2>4. fills' \in 0..MaxFills
    BY <1>0, <1>1 DEF StoreInv, StoreTypeOK
  <2> QED BY <2>2, <2>3, <2>4
<1>4. CASE Spawn(o) /\ UNCHANGED queue
  <2>1. PICK t \in Tasks :
          /\ work[t] = Idle
          /\ work' = [work EXCEPT ![t] = [at |-> "new", op |-> o, row |-> 0, read |-> 0]]
          /\ tasked' = tasked \cup {k}
    BY <1>0, <1>4 DEF Spawn
  <2>2. t \in Workers /\ t # Drain /\ Drain \in Workers
    BY PositionStoreAssumption DEF Workers
  <2>3. work' \in [Workers -> Working \cup {Idle}]
    BY <1>0, <2>1, <2>2, BeginsTypes DEF StoreInv, StoreTypeOK
  <2>4. tasked' \cup forgotten' \subseteq Keys
    BY <1>1, <2>1 DEF StoreInv, StoreTypeOK
  <2>5. StoreTypeOK'
    BY <1>1, <1>3, <1>4, <2>3, <2>4 DEF StoreInv, StoreTypeOK
  <2>6. work'[Drain] = work[Drain]
    BY <2>1, <2>2 DEF StoreInv, StoreTypeOK
  <2>7. \A w \in Workers : w # t => work'[w] = work[w]
    BY <2>1 DEF StoreInv, StoreTypeOK
  <2>8. work'[t].op.key = k /\ work'[t].row = 0
    BY <1>0, <2>1, <2>2 DEF StoreInv, StoreTypeOK
  <2>9. RowInv'
    <3>1. \A u \in Tasks : work'[u] # Idle => work'[u].op.key \in tasked'
      BY <2>1, <2>7, <2>8 DEF StoreInv, RowInv, Workers
    <3>2. \A w \in Workers : work'[w] # Idle => work'[w].row \in 0..Len(wal')
      <4>1. Len(wal) \in Nat /\ wal' = wal
        BY <1>1 DEF StoreInv, StoreTypeOK
      <4> QED BY <2>7, <2>8, <4>1 DEF StoreInv, RowInv
    <3> QED BY <1>1, <2>1, <2>6, <3>1, <3>2 DEF StoreInv, RowInv
  <2> QED BY <1>1, <2>1, <2>5, <2>6, <2>9 DEF StoreInv, HashInv
<1>5. CASE queue' = Append(queue, o) /\ Len(queue) < QueueMax /\ UNCHANGED <<work, tasked>>
  <2>1. queue' \in Seq(Ops) /\ Len(queue') <= QueueMax
    BY <1>0, <1>5 DEF StoreInv, StoreTypeOK
  <2>2. StoreTypeOK'
    BY <1>1, <1>3, <1>5, <2>1 DEF StoreInv, StoreTypeOK
  <2> QED BY <1>1, <1>5, <2>2 DEF StoreInv, RowInv, HashInv
<1> QED BY <1>2, <1>4, <1>5

\* A worker that neither waits for Redis nor begins to leaves what Redis has to
\* the others.
Moves(w, v) ==
  /\ v \in Working \cup {Idle} /\ work' = [work EXCEPT ![w] = v]
  /\ UNCHANGED <<hash, acked, halted, tasked>>
  /\ wal' \in Seq(Ops) /\ Len(wal) <= Len(wal')
  /\ v # Idle => v.at # "redis" /\ v.row \in 0..Len(wal)
  /\ v # Idle /\ w \in Tasks => v.op.key \in tasked
  /\ ~(work[w] # Idle /\ work[w].at = "redis")

LEMMA WorkerMoves ==
  ASSUME StoreInv, NEW w \in Workers, NEW v, Moves(w, v)
  PROVE  work' \in [Workers -> Working \cup {Idle}] /\ RowInv' /\ HashInv'
<1> USE DEF Moves
<1>1. work' \in [Workers -> Working \cup {Idle}]
  BY DEF StoreInv, StoreTypeOK
<1>2. \A u \in Workers : work'[u] = IF u = w THEN v ELSE work[u]
  BY DEF StoreInv, StoreTypeOK
<1>3. Drain \in Workers /\ Tasks \subseteq Workers
  BY DEF Workers
<1>4. Len(wal) \in Nat /\ Len(wal') \in Nat
  BY DEF StoreInv, StoreTypeOK
<1>5. RowInv'
  <2>1. \A t \in Tasks : work'[t] # Idle => work'[t].op.key \in tasked'
    BY <1>2, <1>3 DEF StoreInv, RowInv
  <2>2. \A u \in Workers : work'[u] # Idle => work'[u].row \in 0..Len(wal')
    BY <1>2, <1>4 DEF StoreInv, RowInv
  <2>3. work'[Drain] # Idle /\ work'[Drain].at = "redis" => work'[Drain] = work[Drain]
    BY <1>2, <1>3
  <2> QED BY <2>1, <2>2, <2>3 DEF StoreInv, RowInv
<1>6. HashInv'
  <2>1. work[Drain] # Idle /\ work[Drain].at = "redis" => work'[Drain] = work[Drain]
    BY <1>2, <1>3
  <2> QED BY <2>1 DEF StoreInv, HashInv
<1> QED BY <1>1, <1>5, <1>6

\* The steps of an operation that are none of the two writes.
LEMMA StartTaskStep ==
  ASSUME StoreInv, NEW w \in Workers, StartTask(w)
  PROVE  StoreInv'
<1>0. StoreTypeOK /\ RowInv
  BY DEF StoreInv
<1>1. work[w].op \in Ops /\ work[w].op.key \in Keys
  BY <1>0, WorkingTypes DEF StartTask
<1>2. work' = [work EXCEPT ![w] = Begins(work[w].op)]
  BY DEF StartTask
<1>3. wal' = wal /\ Len(wal) \in Nat
  BY <1>0 DEF StartTask, StoreTypeOK
<1>4. work' \in [Workers -> Working \cup {Idle}] /\ RowInv' /\ HashInv'
  <2> DEFINE v == Begins(work[w].op)
  <2>1. v \in Working \cup {Idle} /\ (v # Idle => v.at = "pg" /\ v.op = work[w].op /\ v.row = 0)
    BY <1>1, BeginsTypes
  <2>2. w \in Tasks => work[w].op.key \in tasked
    BY <1>0 DEF StartTask, RowInv
  <2> HIDE DEF v
  <2>3. Moves(w, v)
    BY <1>0, <1>2, <1>3, <2>1, <2>2 DEF StartTask, StoreTypeOK, Moves, v
  <2> QED BY <2>3, WorkerMoves
<1> QED BY <1>4 DEF StartTask, StoreInv, StoreTypeOK

LEMMA TakeStep ==
  ASSUME StoreInv, Take
  PROVE  StoreInv'
<1>0. StoreTypeOK /\ RowInv /\ Drain \in Workers /\ Drain \notin Tasks
  BY PositionStoreAssumption DEF StoreInv, Workers
<1>1. Head(queue) \in Ops /\ queue' \in Seq(Ops) /\ Len(queue') <= QueueMax
  BY <1>0, PositionStoreAssumption DEF Take, StoreTypeOK
<1>2. work' = [work EXCEPT ![Drain] = Begins(Head(queue))] /\ work[Drain] = Idle
  BY DEF Take
<1>3. wal' = wal /\ Len(wal) \in Nat /\ wal \in Seq(Ops)
  BY <1>0 DEF Take, StoreTypeOK
<1>4. work' \in [Workers -> Working \cup {Idle}] /\ RowInv' /\ HashInv'
  <2> DEFINE v == Begins(Head(queue))
  <2>1. v \in Working \cup {Idle} /\ (v # Idle => v.at = "pg" /\ v.row = 0)
    BY <1>1, BeginsTypes
  <2> HIDE DEF v
  <2>2. Moves(Drain, v)
    BY <1>0, <1>2, <1>3, <2>1 DEF Take, Moves, v
  <2> QED BY <1>0, <2>2, WorkerMoves
<1> QED BY <1>1, <1>4 DEF Take, StoreInv, StoreTypeOK

LEMMA ExposureStep ==
  ASSUME StoreInv, NEW w \in Workers, ReadExposure(w) \/ WriteExposure(w)
  PROVE  StoreInv'
<1>0. /\ StoreTypeOK /\ RowInv /\ work[w] # Idle /\ work[w].at # "redis"
      /\ wal' = wal /\ Len(wal) \in Nat /\ wal \in Seq(Ops)
      /\ UNCHANGED <<hash, acked, halted, tasked>>
  BY DEF StoreInv, StoreTypeOK, ReadExposure, WriteExposure
<1>1. /\ work[w].op \in Ops /\ work[w].op.key \in Keys
      /\ work[w].row \in 0..Len(wal) /\ work[w].read \in Int
      /\ w \in Tasks => work[w].op.key \in tasked
  BY <1>0, WorkingTypes DEF RowInv
<1>2. AccountOf[work[w].op.key] \in Accounts
  BY <1>1, PositionStoreAssumption
<1>3. CASE ReadExposure(w)
  <2> DEFINE n == exposure[AccountOf[work[w].op.key]]
             v == [work[w] EXCEPT !.at = "set", !.read = n]
  <2>1. n \in Int
    BY <1>0, <1>2 DEF StoreTypeOK
  <2>2. work' = [work EXCEPT ![w] = v]
    BY <1>3 DEF ReadExposure
  <2> HIDE DEF n
  <2>3. v \in Working /\ v.at = "set" /\ v.op = work[w].op /\ v.row = work[w].row
    BY <1>0, <1>1, <2>1, WorkingTypes DEF Working
  <2> HIDE DEF v
  <2>4. work' \in [Workers -> Working \cup {Idle}] /\ RowInv' /\ HashInv'
    <3>1. Moves(w, v)
      BY <1>0, <1>1, <2>2, <2>3 DEF Moves
    <3> QED BY <3>1, WorkerMoves
  <2> QED BY <1>3, <2>4 DEF ReadExposure, StoreInv, StoreTypeOK
<1>4. CASE WriteExposure(w)
  <2> DEFINE v == IF work[w].op.op = "open" THEN Idle ELSE [work[w] EXCEPT !.at = "del"]
  <2>1. work' = [work EXCEPT ![w] = v]
    BY <1>4 DEF WriteExposure
  <2>2. /\ v \in Working \cup {Idle}
        /\ v # Idle => v.at = "del" /\ v.op = work[w].op /\ v.row = work[w].row
    BY <1>0, <1>1, WorkingTypes DEF Working
  <2> HIDE DEF v
  <2>3. work' \in [Workers -> Working \cup {Idle}] /\ RowInv' /\ HashInv'
    <3>1. Moves(w, v)
      BY <1>0, <1>1, <2>1, <2>2 DEF Moves
    <3> QED BY <3>1, WorkerMoves
  <2>4. exposure' \in [Accounts -> Int]
    <3>1. Delta(work[w].op) \in Int
      BY <1>1, PositionStoreAssumption DEF Delta
    <3> QED BY <1>0, <1>1, <1>2, <1>4, <3>1 DEF WriteExposure, StoreTypeOK
  <2> QED BY <1>4, <2>3, <2>4 DEF WriteExposure, StoreInv, StoreTypeOK
<1> QED BY <1>3, <1>4

LEMMA EndStep ==
  ASSUME StoreInv, NEW w \in Workers, ExposureRaises(w) \/ Delete(w)
  PROVE  StoreInv'
<1>0. /\ StoreTypeOK /\ work[w] # Idle /\ work[w].at # "redis"
      /\ wal' = wal /\ Len(wal) \in Nat /\ wal \in Seq(Ops)
      /\ work' = [work EXCEPT ![w] = Idle] /\ UNCHANGED <<hash, acked, halted, tasked>>
  BY DEF StoreInv, StoreTypeOK, ExposureRaises, Delete
<1>1. work[w].op.key \in Keys
  BY <1>0, WorkingTypes
<1>2. work' \in [Workers -> Working \cup {Idle}] /\ RowInv' /\ HashInv'
  <2>1. Moves(w, Idle)
    BY <1>0 DEF Moves
  <2> QED BY <2>1, WorkerMoves
<1>3. index' \in [Keys -> BOOLEAN] /\ failed' \subseteq Keys
  BY <1>0, <1>1 DEF ExposureRaises, Delete, StoreTypeOK
<1> QED BY <1>2, <1>3 DEF ExposureRaises, Delete, StoreInv, StoreTypeOK

\* The row of an operation is inserted, and answered for or not.
LEMMA PgStep ==
  ASSUME StoreInv, NEW w \in Workers, Pg(w)
  PROVE  StoreInv'
<1> DEFINE k == work[w].op.key
<1>0. /\ StoreTypeOK /\ RowInv /\ HashInv /\ work[w] # Idle /\ work[w].at = "pg"
      /\ wal \in Seq(Ops) /\ Len(wal) \in Nat /\ UNCHANGED <<hash, halted, tasked>>
  BY DEF StoreInv, StoreTypeOK, Pg
<1>1. /\ work[w].op \in Ops /\ k \in Keys /\ work[w].row \in 0..Len(wal)
      /\ w \in Tasks => k \in tasked
  BY <1>0, WorkingTypes DEF RowInv
<1>2. ASSUME InsertRow(w)
      PROVE  wal' \in Seq(Ops) /\ Len(wal') = Len(wal) + 1
  BY <1>0, <1>1, <1>2 DEF InsertRow
<1>3. wal' \in Seq(Ops) /\ Len(wal') \in Nat /\ Len(wal) <= Len(wal')
  BY <1>0, <1>2 DEF Pg
<1>4. CASE /\ InsertRow(w)
           /\ work' = [work EXCEPT ![w].at = "redis", ![w].row = Len(wal) + 1]
           /\ acked' = [acked EXCEPT ![work[w].op.key] = Len(wal) + 1]
           /\ UNCHANGED index
  <2> DEFINE v == [work[w] EXCEPT !.at = "redis", !.row = Len(wal) + 1]
  <2>1. v \in Working /\ v.at = "redis" /\ v.op = work[w].op /\ v.row = Len(wal) + 1
    <3>1. work[w] \in Working
      BY <1>0, WorkingTypes
    <3>2. Len(wal) + 1 \in Nat
      BY <1>0
    <3> QED BY <3>1, <3>2 DEF Working
  <2>2. work' = [work EXCEPT ![w] = v]
    BY <1>4
  <2> HIDE DEF v
  <2>3. /\ work' \in [Workers -> Working \cup {Idle}]
        /\ \A u \in Workers : work'[u] = IF u = w THEN v ELSE work[u]
    BY <1>0, <2>1, <2>2 DEF StoreTypeOK
  <2>4. /\ hash' \in [Keys -> 0..Len(wal')] /\ acked' \in [Keys -> 0..Len(wal')]
        /\ acked'[k] = Len(wal) + 1 /\ \A j \in Keys \ {k} : acked'[j] = acked[j]
    BY <1>0, <1>1, <1>2, <1>4 DEF StoreTypeOK
  <2>5. Drain \in Workers /\ Tasks \subseteq Workers /\ Idle \notin {v}
    BY <1>0, <2>1, WorkingTypes DEF Workers, Idle, Working
  <2>6. RowInv'
    <3>1. \A t \in Tasks : work'[t] # Idle => work'[t].op.key \in tasked'
      BY <1>0, <1>1, <2>1, <2>3, <2>5 DEF RowInv
    <3>2. \A u \in Workers : work'[u] # Idle => work'[u].row \in 0..Len(wal')
      BY <1>0, <1>2, <1>4, <2>1, <2>3 DEF RowInv
    <3>3. work'[Drain] # Idle /\ work'[Drain].at = "redis" =>
             \/ work'[Drain].op.key \in tasked'
             \/ work'[Drain].row = acked'[work'[Drain].op.key]
      <4>1. CASE w = Drain
        BY <2>1, <2>3, <2>4, <2>5, <4>1
      <4>2. CASE w # Drain
        <5>1. w \in Tasks /\ work'[Drain] = work[Drain]
          BY <2>3, <2>5, <4>2 DEF Workers
        <5>2. SUFFICES ASSUME work[Drain] # Idle, work[Drain].at = "redis",
                              work[Drain].op.key \notin tasked
                       PROVE  work[Drain].row = acked'[work[Drain].op.key]
          BY <1>0, <5>1
        <5>3. work[Drain].op.key \in Keys
          BY <1>0, <2>5, <5>2, WorkingTypes
        <5> QED BY <1>0, <1>1, <2>4, <5>1, <5>2, <5>3 DEF RowInv
      <4> QED BY <4>1, <4>2
    <3> QED BY <3>1, <3>2, <3>3 DEF RowInv
  <2>7. HashInv'
    <3> SUFFICES ASSUME NEW j \in Keys \ tasked
                 PROVE  \/ hash'[j] = acked'[j]
                        \/ halted'
                        \/ /\ work'[Drain] # Idle /\ work'[Drain].at = "redis"
                           /\ work'[Drain].op.key = j
      BY <1>0 DEF HashInv
    <3>1. CASE j = k
      <4>1. w = Drain
        BY <1>1, <3>1 DEF Workers
      <4> QED BY <2>1, <2>3, <2>5, <3>1, <4>1
    <3>2. CASE j # k
      <4>1. work[Drain] # Idle /\ work[Drain].at = "redis" => work'[Drain] = work[Drain]
        BY <1>0, <2>3, <2>5
      <4> QED BY <1>0, <2>4, <3>2, <4>1 DEF HashInv
    <3> QED BY <3>1, <3>2
  <2> QED BY <1>3, <1>4, <2>3, <2>4, <2>6, <2>7 DEF Pg, StoreInv, StoreTypeOK
<1>5. CASE Written(w) /\ UNCHANGED acked
  <2> DEFINE v == [work[w] EXCEPT !.at = "get"]
  <2>1. v \in Working /\ v.at = "get" /\ v.op = work[w].op /\ v.row = work[w].row
    BY <1>0, WorkingTypes DEF Working
  <2>2. work' = [work EXCEPT ![w] = v]
    BY <1>5 DEF Written
  <2> HIDE DEF v
  <2>3. Moves(w, v)
    BY <1>0, <1>1, <1>3, <1>5, <2>1, <2>2 DEF Moves
  <2>4. work' \in [Workers -> Working \cup {Idle}] /\ RowInv' /\ HashInv'
    BY <2>3, WorkerMoves
  <2>5. index' \in [Keys -> BOOLEAN]
    BY <1>0, <1>1, <1>5 DEF Written, StoreTypeOK
  <2>6. hash' \in [Keys -> 0..Len(wal')] /\ acked' \in [Keys -> 0..Len(wal')]
    BY <1>0, <1>3, <1>5 DEF StoreTypeOK
  <2> QED BY <1>3, <1>5, <2>4, <2>5, <2>6 DEF Pg, StoreInv, StoreTypeOK
<1> QED BY <1>4, <1>5 DEF Pg

\* Redis is written, or the engine halts.
LEMMA RedisStep ==
  ASSUME StoreInv, NEW w \in Workers, Redis(w)
  PROVE  StoreInv'
<1> DEFINE k == work[w].op.key
           v == [work[w] EXCEPT !.at = "get"]
           applied == [hash EXCEPT ![k] = work[w].row]
<1>0. /\ StoreTypeOK /\ RowInv /\ HashInv /\ work[w] # Idle /\ work[w].at = "redis"
      /\ Len(wal) \in Nat /\ UNCHANGED <<wal, acked, tasked>> /\ Written(w)
  BY DEF StoreInv, StoreTypeOK, Redis
<1>1. /\ work[w].op \in Ops /\ k \in Keys /\ work[w].row \in 0..Len(wal)
      /\ w \in Tasks => k \in tasked
  BY <1>0, WorkingTypes DEF RowInv
<1>2. v \in Working /\ v.at = "get" /\ v.op = work[w].op /\ v.row = work[w].row
  BY <1>0, WorkingTypes DEF Working
<1>3. work' = [work EXCEPT ![w] = v]
  BY <1>0 DEF Written
<1>4. \/ hash' = applied /\ UNCHANGED halted
      \/ hash' \in {hash, applied} /\ halted'
  BY DEF Redis
<1> HIDE DEF v
<1>5. /\ work' \in [Workers -> Working \cup {Idle}]
      /\ \A u \in Workers : work'[u] = IF u = w THEN v ELSE work[u]
  BY <1>0, <1>2, <1>3 DEF StoreTypeOK
<1>6. /\ hash' \in [Keys -> 0..Len(wal)] /\ halted' \in BOOLEAN
      /\ applied[k] = work[w].row /\ \A j \in Keys \ {k} : hash'[j] = hash[j]
  BY <1>0, <1>1, <1>4 DEF StoreTypeOK, Redis
<1>7. Drain \in Workers /\ Tasks \subseteq Workers
  BY DEF Workers
<1>8. RowInv'
  <2>1. \A t \in Tasks : work'[t] # Idle => work'[t].op.key \in tasked'
    BY <1>0, <1>1, <1>2, <1>5, <1>7 DEF RowInv
  <2>2. \A u \in Workers : work'[u] # Idle => work'[u].row \in 0..Len(wal')
    BY <1>0, <1>1, <1>2, <1>5 DEF RowInv
  <2>3. work'[Drain] # Idle /\ work'[Drain].at = "redis" => work'[Drain] = work[Drain]
    BY <1>2, <1>5, <1>7
  <2> QED BY <1>0, <2>1, <2>2, <2>3 DEF RowInv
<1>9. HashInv'
  <2> SUFFICES ASSUME NEW j \in Keys \ tasked
               PROVE  \/ hash'[j] = acked'[j]
                      \/ halted'
                      \/ /\ work'[Drain] # Idle /\ work'[Drain].at = "redis"
                         /\ work'[Drain].op.key = j
    BY <1>0 DEF HashInv
  <2>1. CASE j = k
    <3>1. w = Drain
      BY <1>1, <2>1 DEF Workers
    <3>2. work[w].row = acked[k]
      BY <1>0, <2>1, <3>1 DEF RowInv
    <3> QED BY <1>0, <1>4, <1>6, <2>1, <3>2
  <2>2. CASE j # k
    <3>1. work[Drain] # Idle /\ work[Drain].at = "redis" /\ work[Drain].op.key = j
            => work'[Drain] = work[Drain]
      BY <1>5, <1>7, <2>2
    <3>2. halted => halted'
      BY <1>4
    <3> QED BY <1>0, <1>6, <2>2, <3>1, <3>2 DEF HashInv
  <2> QED BY <2>1, <2>2
<1>10. index' \in [Keys -> BOOLEAN]
  BY <1>0, <1>1 DEF Written, StoreTypeOK
<1> QED BY <1>0, <1>5, <1>6, <1>8, <1>9, <1>10 DEF Redis, StoreInv, StoreTypeOK

\* A restart starts from what recover() leaves in Redis.
LEMMA StoreRestartStep ==
  ASSUME StoreInv, StoreRestart
  PROVE  StoreInv'
<1>0. StoreTypeOK /\ wal \in Seq(Ops) /\ Len(wal) \in Nat /\ wal' = wal
  BY DEF StoreInv, StoreTypeOK, StoreRestart
<1>1. ASSUME NEW k \in Keys, OpenInWal(k) PROVE Latest(k) \in 1..Len(wal)
  <2>1. RowsOf(k) # {} /\ RowsOf(k) \subseteq 1..Len(wal)
    BY <1>0, <1>1 DEF OpenInWal, RowsOf
  <2>2. \E i \in RowsOf(k) : \A j \in RowsOf(k) : j <= i
    BY <1>0, <2>1, LastIndex
  <2> QED BY <2>1, <2>2 DEF Latest
<1>2. Recovered \in [Keys -> 0..Len(wal)]
  BY <1>0, <1>1 DEF Recovered, StoreTypeOK
<1>3. hash' \in [Keys -> 0..Len(wal')] /\ acked' = hash'
  BY <1>0, <1>2 DEF StoreRestart, StoreTypeOK
<1>4. /\ work' = [w \in Workers |-> Idle] /\ queue' = <<>> /\ Drain \in Workers
      /\ Tasks \subseteq Workers
  BY DEF StoreRestart, Workers
<1>5. /\ crashes' \in 0..MaxCrashes /\ recovered' \in BOOLEAN /\ halted' \in BOOLEAN
      /\ index' \in [Keys -> BOOLEAN] /\ failed' \subseteq Keys
      /\ tasked' \cup forgotten' \subseteq Keys
  <2>1. crashes' \in 0..MaxCrashes
    BY <1>0, PositionStoreAssumption DEF StoreRestart, StoreTypeOK
  <2>2. recovered' \in BOOLEAN /\ halted' \in BOOLEAN /\ index' \in [Keys -> BOOLEAN]
    BY DEF StoreRestart
  <2>3. failed' \subseteq Keys /\ tasked' \cup forgotten' \subseteq Keys
    BY DEF StoreRestart
  <2> QED BY <2>1, <2>2, <2>3
<1>6. queue' \in Seq(Ops) /\ Len(queue') <= QueueMax
  BY <1>4, PositionStoreAssumption
<1>7. StoreTypeOK'
  BY <1>0, <1>3, <1>4, <1>5, <1>6 DEF StoreRestart, StoreTypeOK
<1>8. RowInv' /\ HashInv'
  BY <1>3, <1>4 DEF RowInv, HashInv
<1> QED BY <1>7, <1>8 DEF StoreInv

LEMMA StoreInvInit == StoreInit => StoreInv
<1> SUFFICES ASSUME StoreInit PROVE StoreInv
  OBVIOUS
<1>1. /\ wal \in Seq(Ops) /\ Len(wal) = 0 /\ queue \in Seq(Ops) /\ Len(queue) <= QueueMax
  BY PositionStoreAssumption DEF StoreInit
<1>2. /\ hash \in [Keys -> 0..Len(wal)] /\ acked \in [Keys -> 0..Len(wal)] /\ hash = acked
      /\ exposure \in [Accounts -> Int] /\ fills \in 0..MaxFills /\ crashes \in 0..MaxCrashes
  BY <1>1, PositionStoreAssumption DEF StoreInit
<1>3. /\ index \in [Keys -> BOOLEAN] /\ held \in [Keys -> BOOLEAN]
      /\ work \in [Workers -> Working \cup {Idle}] /\ \A w \in Workers : work[w] = Idle
      /\ Drain \in Workers /\ Tasks \subseteq Workers
  BY DEF StoreInit, Workers
<1>4. StoreTypeOK
  BY <1>1, <1>2, <1>3 DEF StoreInit, StoreTypeOK
<1>5. RowInv /\ HashInv
  BY <1>2, <1>3 DEF RowInv, HashInv
<1> QED BY <1>4, <1>5 DEF StoreInv

LEMMA StoreInvStep == StoreInv /\ [StoreNext]_storeVars => StoreInv'
<1> SUFFICES ASSUME StoreInv, [StoreNext]_storeVars PROVE StoreInv'
  OBVIOUS
<1>1. CASE UNCHANGED storeVars
  BY <1>1 DEF storeVars, StoreInv, StoreTypeOK, RowInv, HashInv
<1>2. ASSUME NEW w \in Workers, Run(w) PROVE StoreInv'
  BY <1>2, StartTaskStep, PgStep, RedisStep, ExposureStep, EndStep DEF Run
<1> QED BY <1>1, <1>2, FillStep, TakeStep, StoreRestartStep DEF StoreNext

\* Every variable of the position store has its type.
THEOREM StoreTypes == StoreSpec => []StoreTypeOK
BY StoreInvInit, StoreInvStep, PTL DEF StoreSpec, StoreInv

\* The Redis hash of a key that only the drain loop writes carries the last row
\* the database answered for, or the engine is halted, whatever is lost,
\* answered late or cut off by a crash.
THEOREM ShadowsKeepStep == StoreSpec => []ShadowInStepOrHalted
<1>1. StoreInv => ShadowInStepOrHalted
  <2> SUFFICES ASSUME StoreInv, NEW k \in Keys \ tasked, ~Busy(k)
               PROVE  hash[k] = acked[k] \/ halted
    BY DEF ShadowInStepOrHalted
  <2>1. Drain \in Workers
    BY DEF Workers
  <2> QED BY <2>1 DEF StoreInv, HashInv, Busy
<1> QED BY <1>1, StoreInvInit, StoreInvStep, PTL DEF StoreSpec

(***************************************************************************)
(* The index settles.                                                      *)
(***************************************************************************)

\* The queued operations of a key, and whether the drain loop has one of it.
Pending(k) == {i \in DOMAIN queue : queue[i].key = k}
Draining(k) == work[Drain] # Idle /\ work[Drain].op.key = k

\* The drain loop deletes for a close only.
DrainInv ==
  work[Drain] # Idle =>
    work[Drain].at # "new" /\ (work[Drain].at = "del" => work[Drain].op.op = "close")

\* The operation that will be the last to write the index for a key says what
\* the key is; with none on the way the index does.
KeyInv(k) ==
  /\ Pending(k) # {} \/ Draining(k) => k \notin forgotten
  /\ \A i \in Pending(k) :
       (\A j \in Pending(k) : j <= i) => (queue[i].op = "open" <=> held[k])
  /\ Pending(k) = {} /\ Draining(k) =>
       /\ work[Drain].op.op = "open" <=> held[k]
       /\ work[Drain].op.op = "open" /\ work[Drain].at \in {"get", "set"} => index[k]
  /\ Pending(k) = {} /\ ~Draining(k) => (index[k] <=> held[k] /\ k \notin forgotten)

IndexInv == DrainInv /\ \A k \in Keys \ (failed \cup tasked) : KeyInv(k)

\* A step leaves what is known of k as it is.
Same(k) ==
  /\ Pending(k)' = Pending(k) /\ \A i \in Pending(k) : queue'[i] = queue[i]
  /\ (Draining(k)' <=> Draining(k)) /\ (Draining(k) => work'[Drain] = work[Drain])
  /\ index'[k] = index[k] /\ held'[k] = held[k] /\ (k \in forgotten' <=> k \in forgotten)

LEMMA SameKeeps ==
  ASSUME NEW k, Same(k), KeyInv(k)
  PROVE  KeyInv(k)'
BY DEF Same, KeyInv

\* The drain loop goes on with the operation of k, or is done with it.
LEMMA DrainGoesOn ==
  ASSUME NEW k, KeyInv(k), Draining(k), UNCHANGED <<queue, held, forgotten>>,
         work'[Drain] # Idle, work'[Drain].op = work[Drain].op,
         Pending(k) = {} /\ work[Drain].op.op = "open" /\ work'[Drain].at \in {"get", "set"}
           => index'[k]
  PROVE  KeyInv(k)'
<1>1. Pending(k)' = Pending(k) /\ Draining(k)'
  BY DEF Pending, Draining
<1> QED BY <1>1 DEF KeyInv

LEMMA DrainIsDone ==
  ASSUME NEW k, KeyInv(k), Draining(k), UNCHANGED <<queue, held, forgotten>>,
         work'[Drain] = Idle, Pending(k) = {} => (index'[k] <=> work[Drain].op.op = "open")
  PROVE  KeyInv(k)'
<1>1. Pending(k)' = Pending(k) /\ ~Draining(k)'
  BY DEF Pending, Draining
<1> QED BY <1>1 DEF KeyInv

\* An operation of a worker touches the index of its own key only.
LEMMA RunKeepsIndex ==
  ASSUME StoreInv, IndexInv, NEW w \in Workers, Run(w)
  PROVE  IndexInv'
<1>0. /\ work[w] # Idle /\ work[w] \in Working /\ work[w].op \in Ops
      /\ UNCHANGED <<queue, held, forgotten, tasked>> /\ failed \subseteq failed'
      /\ \A u \in Workers \ {w} : work'[u] = work[u]
      /\ \A j \in Keys : j # work[w].op.key => index'[j] = index[j]
  <2>1. work[w] # Idle /\ StoreTypeOK
    BY DEF Run, StartTask, Pg, Redis, ReadExposure, WriteExposure, ExposureRaises, Delete,
           StoreInv
  <2>2. UNCHANGED <<queue, held, forgotten, tasked>> /\ failed \subseteq failed'
    BY DEF Run, StartTask, Pg, Redis, ReadExposure, WriteExposure, ExposureRaises, Delete
  <2>3. \E v : work' = [work EXCEPT ![w] = v]
    BY DEF Run, StartTask, Pg, Redis, ReadExposure, WriteExposure, ExposureRaises, Delete,
           Written
  <2>4. \A j \in Keys : j # work[w].op.key => index'[j] = index[j]
    BY <2>1 DEF Run, StartTask, Pg, Redis, ReadExposure, WriteExposure, ExposureRaises, Delete,
                Written, StoreTypeOK
  <2> QED BY <2>1, <2>2, <2>3, <2>4, WorkingTypes DEF StoreTypeOK
<1>1. Drain \in Workers /\ Tasks \subseteq Workers /\ (w # Drain => w \in Tasks)
  BY DEF Workers
<1>2. CASE w # Drain
  <2>1. work[w].op.key \in tasked /\ work'[Drain] = work[Drain]
    BY <1>0, <1>1, <1>2 DEF StoreInv, RowInv
  <2>2. DrainInv'
    BY <2>1 DEF IndexInv, DrainInv
  <2>3. ASSUME NEW k \in Keys \ (failed' \cup tasked') PROVE KeyInv(k)'
    <3>1. Same(k)
      BY <1>0, <2>1 DEF Same, Pending, Draining
    <3> QED BY <1>0, <3>1, SameKeeps DEF IndexInv
  <2> QED BY <2>2, <2>3 DEF IndexInv
<1>3. CASE w = Drain
  <2> DEFINE o == work[Drain].op
             Goes(call) == work'[Drain] # Idle /\ work'[Drain].op = o /\ work'[Drain].at = call
  <2>0. /\ work[Drain] \in Working /\ work[Drain] # Idle /\ work[Drain].at # "new"
        /\ work[Drain].at = "del" => o.op = "close"
        /\ o.op \in {"open", "close"} /\ o.key \in Keys
    BY <1>0, <1>3 DEF IndexInv, DrainInv, Ops
  <2>1. \/ Goes("redis") /\ index' = index
        \/ Goes("get") /\ (o.op = "open" => index'[o.key])
        \/ Goes("set") /\ index' = index /\ work[Drain].at = "get"
        \/ Goes("del") /\ o.op = "close"
        \/ work'[Drain] = Idle /\ o.key \in failed'
        \/ work'[Drain] = Idle /\ index' = index /\ work[Drain].at = "set" /\ o.op = "open"
        \/ work'[Drain] = Idle /\ ~index'[o.key] /\ o.op = "close"
    <3>1. ASSUME NEW v, work' = [work EXCEPT ![Drain] = v] PROVE work'[Drain] = v
      BY <1>1, <3>1 DEF StoreInv, StoreTypeOK
    <3>2. \A v \in Working : v # Idle
      BY DEF Working, Idle
    <3>4. ASSUME Written(w) PROVE Goes("get") /\ (o.op = "open" => index'[o.key])
      <4> DEFINE v == [work[Drain] EXCEPT !.at = "get"]
      <4>1. v \in Working /\ v.op = o /\ v.at = "get"
        BY <2>0 DEF Working
      <4>2. work' = [work EXCEPT ![Drain] = v]
        BY <1>3, <3>4 DEF Written
      <4>3. o.op = "open" => index'[o.key]
        BY <1>3, <2>0, <3>4 DEF Written, StoreInv, StoreTypeOK
      <4> HIDE DEF v
      <4> QED BY <3>1, <3>2, <4>1, <4>2, <4>3
    <3>3. CASE Pg(w)
      <4>1. CASE UNCHANGED index /\ work' = [work EXCEPT ![w].at = "redis", ![w].row = Len(wal) + 1]
        <5> DEFINE v == [work[Drain] EXCEPT !.at = "redis", !.row = Len(wal) + 1]
        <5>1. v \in Working /\ v.op = o /\ v.at = "redis"
          <6>1. Len(wal) + 1 \in Nat
            BY DEF StoreInv, StoreTypeOK
          <6> QED BY <2>0, <6>1 DEF Working
        <5>2. work' = [work EXCEPT ![Drain] = v]
          BY <1>3, <4>1
        <5> HIDE DEF v
        <5> QED BY <3>1, <3>2, <4>1, <5>1, <5>2
      <4>2. CASE Written(w)
        BY <3>4, <4>2
      <4> QED BY <3>3, <4>1, <4>2 DEF Pg
    <3>5. CASE Redis(w)
      BY <3>4, <3>5 DEF Redis
    <3>6. CASE ReadExposure(w)
      <4> DEFINE n == exposure[AccountOf[o.key]]
                 v == [work[Drain] EXCEPT !.at = "set", !.read = n]
      <4>1. n \in Int
        BY <2>0, PositionStoreAssumption DEF StoreInv, StoreTypeOK
      <4>2. v \in Working /\ v.op = o /\ v.at = "set"
        BY <2>0, <4>1 DEF Working
      <4>3. work' = [work EXCEPT ![Drain] = v]
        BY <1>3, <3>6 DEF ReadExposure
      <4>4. index' = index /\ work[Drain].at = "get"
        BY <1>3, <3>6 DEF ReadExposure
      <4> HIDE DEF v
      <4> QED BY <3>1, <3>2, <4>2, <4>3, <4>4
    <3>7. CASE WriteExposure(w)
      <4> DEFINE v == [work[Drain] EXCEPT !.at = "del"]
      <4>1. v \in Working /\ v.op = o /\ v.at = "del"
        BY <2>0 DEF Working
      <4>2. /\ work' = [work EXCEPT ![Drain] = IF o.op = "open" THEN Idle ELSE v]
            /\ index' = index /\ work[Drain].at = "set"
        BY <1>3, <3>7 DEF WriteExposure
      <4> HIDE DEF v
      <4> QED BY <2>0, <3>1, <3>2, <4>1, <4>2
    <3>8. CASE ExposureRaises(w)
      BY <1>3, <3>1, <3>8 DEF ExposureRaises
    <3>9. CASE Delete(w)
      BY <1>3, <2>0, <3>1, <3>9 DEF Delete, StoreInv, StoreTypeOK
    <3>10. ~StartTask(w)
      BY <1>3, <2>0 DEF StartTask
    <3> QED BY <3>3, <3>5, <3>6, <3>7, <3>8, <3>9, <3>10 DEF Run
  <2>2. DrainInv'
    BY <2>1 DEF DrainInv
  <2>3. ASSUME NEW k \in Keys \ (failed' \cup tasked') PROVE KeyInv(k)'
    <3>0. KeyInv(k)
      BY <1>0 DEF IndexInv
    <3>1. CASE k = o.key
      <4>1. Draining(k)
        BY <2>0, <3>1 DEF Draining
      <4>2. CASE work'[Drain] = Idle
        <5>1. Pending(k) = {} => (index'[k] <=> o.op = "open")
          BY <2>1, <3>0, <3>1, <4>1, <4>2 DEF KeyInv
        <5> QED BY <1>0, <3>0, <4>1, <4>2, <5>1, DrainIsDone
      <4>3. CASE work'[Drain] # Idle
        <5> QED BY <1>0, <2>1, <3>0, <3>1, <4>1, <4>3, DrainGoesOn DEF KeyInv
      <4> QED BY <4>2, <4>3
    <3>2. CASE k # o.key
      <4>1. Same(k)
        BY <1>0, <1>3, <2>1, <3>2 DEF Same, Pending, Draining
      <4> QED BY <3>0, <4>1, SameKeeps
    <3> QED BY <3>1, <3>2
  <2> QED BY <2>2, <2>3 DEF IndexInv
<1> QED BY <1>2, <1>3

\* A fill is the last operation of its key, in the queue or as a task.
LEMMA FillKeepsIndex ==
  ASSUME StoreInv, IndexInv, NEW c \in Keys, Fill(c)
  PROVE  IndexInv'
<1> DEFINE o == [op |-> IF held[c] THEN "close" ELSE "open", key |-> c]
<1>0. /\ o \in Ops /\ o.key = c /\ held[c] \in BOOLEAN
      /\ \A k \in Keys \ {c} : held'[k] = held[k] /\ (k \in forgotten' <=> k \in forgotten)
      /\ held'[c] = ~held[c] /\ c \notin forgotten' /\ failed' = failed
      /\ \A k \in Keys \ {c} : index'[k] = index[k]
      /\ \/ Spawn(o) /\ UNCHANGED queue
         \/ queue' = Append(queue, o) /\ UNCHANGED <<work, tasked>>
  BY DEF Fill, Enqueue, StoreInv, StoreTypeOK, Ops
<1>1. Drain \in Workers /\ Drain \notin Tasks /\ Tasks \subseteq Workers
  BY PositionStoreAssumption DEF Workers
<1> HIDE DEF o
<1>2. CASE Spawn(o) /\ UNCHANGED queue
  <2>1. work'[Drain] = work[Drain] /\ tasked' = tasked \cup {c}
    BY <1>0, <1>1, <1>2 DEF Spawn, StoreInv, StoreTypeOK
  <2>2. DrainInv'
    BY <2>1 DEF IndexInv, DrainInv
  <2>3. ASSUME NEW k \in Keys \ (failed' \cup tasked') PROVE KeyInv(k)'
    <3>1. Same(k)
      BY <1>0, <1>2, <2>1 DEF Same, Pending, Draining
    <3> QED BY <1>0, <2>1, <3>1, SameKeeps DEF IndexInv
  <2> QED BY <2>2, <2>3 DEF IndexInv
<1>3. CASE queue' = Append(queue, o) /\ UNCHANGED <<work, tasked>>
  <2>1. /\ queue \in Seq(Ops) /\ Len(queue) \in Nat /\ DOMAIN queue = 1..Len(queue)
        /\ DOMAIN queue' = 1..(Len(queue) + 1)
        /\ \A i \in DOMAIN queue : queue'[i] = queue[i]
        /\ queue'[Len(queue) + 1] = o
    BY <1>0, <1>3 DEF StoreInv, StoreTypeOK
  <2>2. DrainInv'
    BY <1>3 DEF IndexInv, DrainInv
  <2>3. ASSUME NEW k \in Keys \ (failed' \cup tasked') PROVE KeyInv(k)'
    <3>1. CASE k # c
      <4>1. Same(k)
        BY <1>0, <1>3, <2>1, <3>1 DEF Same, Pending, Draining
      <4> QED BY <1>0, <1>3, <4>1, SameKeeps DEF IndexInv
    <3>2. CASE k = c
      <4>1. Len(queue) + 1 \in Pending(k)'
        BY <1>0, <2>1, <3>2 DEF Pending
      <4>2. \A i \in Pending(k)' :
              (\A j \in Pending(k)' : j <= i) => (queue'[i].op = "open" <=> held'[k])
        <5> SUFFICES ASSUME NEW i \in Pending(k)', \A j \in Pending(k)' : j <= i
                     PROVE  queue'[i].op = "open" <=> held'[k]
          OBVIOUS
        <5>1. i = Len(queue) + 1
          BY <2>1, <4>1 DEF Pending
        <5>2. queue'[i].op = "open" <=> ~held[c]
          BY <1>0, <2>1, <5>1 DEF o
        <5> QED BY <1>0, <3>2, <5>2
      <4> QED BY <1>0, <3>2, <4>1, <4>2 DEF KeyInv
    <3> QED BY <3>1, <3>2
  <2> QED BY <2>2, <2>3 DEF IndexInv
<1> QED BY <1>0, <1>2, <1>3

\* What the drain loop takes was the first of its key, and may be the last.
LEMMA TakeKeepsIndex ==
  ASSUME StoreInv, IndexInv, Take
  PROVE  IndexInv'
<1> DEFINE o == Head(queue)
           v == Begins(o)
<1>0. /\ work[Drain] = Idle /\ UNCHANGED <<index, held, tasked, forgotten, failed>>
      /\ queue \in Seq(Ops) /\ queue # <<>> /\ queue' = Tail(queue)
  BY DEF Take, StoreInv, StoreTypeOK
<1>1. /\ o \in Ops /\ o = queue[1] /\ 1 \in DOMAIN queue
      /\ \A i \in DOMAIN queue : i \in Nat /\ (i # 1 => i - 1 \in DOMAIN queue')
      /\ \A i \in DOMAIN queue' : i \in Nat /\ i + 1 \in DOMAIN queue /\ queue'[i] = queue[i + 1]
  <2>1. o \in Ops
    BY <1>0
  <2> QED BY <1>0, <2>1, TailElements
<1>2. work'[Drain] = v
  BY DEF Take, StoreInv, StoreTypeOK, Workers
<1>3. /\ v # Idle => v.op = o /\ v.at = "pg"
      /\ v = Idle <=> o.op = "close" /\ ~index[o.key]
  BY <1>1, BeginsTypes DEF Begins, Idle
<1> HIDE DEF o, v
<1>4. DrainInv'
  BY <1>2, <1>3 DEF DrainInv
<1>5. ASSUME NEW k \in Keys \ (failed' \cup tasked') PROVE KeyInv(k)'
  <2>0. KeyInv(k)
    BY <1>0 DEF IndexInv
  <2>1. ~Draining(k) /\ (Draining(k)' <=> v # Idle /\ o.key = k)
    BY <1>0, <1>2, <1>3 DEF Draining
  <2>2. /\ \A i \in Pending(k)' : i \in Nat /\ i + 1 \in Pending(k) /\ queue'[i] = queue[i + 1]
        /\ \A i \in Pending(k) : i \in Nat /\ (i # 1 => i - 1 \in Pending(k)')
        /\ 1 \in Pending(k) <=> o.key = k
    BY <1>1 DEF Pending
  <2>3. Pending(k)' # {} \/ Draining(k)' => k \notin forgotten'
    BY <1>0, <2>0, <2>1, <2>2 DEF KeyInv
  <2>4. \A i \in Pending(k)' :
          (\A j \in Pending(k)' : j <= i) => (queue'[i].op = "open" <=> held'[k])
    <3> SUFFICES ASSUME NEW i \in Pending(k)', \A j \in Pending(k)' : j <= i
                 PROVE  queue'[i].op = "open" <=> held'[k]
      OBVIOUS
    <3>1. \A j \in Pending(k) : j <= i + 1
      BY <2>2
    <3> QED BY <1>0, <2>0, <2>2, <3>1 DEF KeyInv
  <2>5. CASE Pending(k)' = {} /\ o.key = k
    <3>1. o.op = "open" <=> held[k]
      <4>1. \A j \in Pending(k) : j <= 1
        BY <2>2, <2>5
      <4> QED BY <1>1, <2>0, <2>2, <2>5, <4>1 DEF KeyInv
    <3>2. o.op \in {"open", "close"}
      BY <1>1 DEF Ops
    <3>3. Draining(k)' => /\ work'[Drain].op.op = "open" <=> held'[k]
                          /\ work'[Drain].at \notin {"get", "set"}
      BY <1>0, <1>2, <1>3, <2>1, <3>1
    <3>4. ~Draining(k)' => ~index'[k] /\ ~held'[k]
      BY <1>0, <1>3, <2>1, <2>5, <3>1, <3>2
    <3> QED BY <2>3, <2>4, <3>3, <3>4 DEF KeyInv
  <2>6. CASE Pending(k)' = {} /\ o.key # k
    <3>1. Pending(k) = {}
      BY <2>2, <2>6
    <3> QED BY <1>0, <2>0, <2>1, <2>3, <2>4, <2>6, <3>1 DEF KeyInv
  <2>7. CASE Pending(k)' # {}
    BY <2>3, <2>4, <2>7 DEF KeyInv
  <2> QED BY <2>5, <2>6, <2>7
<1> QED BY <1>4, <1>5 DEF IndexInv

\* A new process knows nothing, and of no position.
LEMMA NothingOnTheWay ==
  ASSUME queue = <<>>, work[Drain] = Idle, \A k \in Keys : ~index[k],
         \A k \in Keys : held[k] => k \in forgotten
  PROVE  IndexInv
BY DEF IndexInv, DrainInv, KeyInv, Pending, Draining

LEMMA StoreInitIndex == StoreInit => IndexInv
BY NothingOnTheWay DEF StoreInit, Workers

LEMMA RestartKeepsIndex ==
  ASSUME StoreRestart
  PROVE  IndexInv'
<1>1. /\ queue' = <<>> /\ work'[Drain] = Idle /\ \A k \in Keys : ~index'[k]
      /\ \A k \in Keys : held'[k] => k \in forgotten'
  BY DEF StoreRestart, Workers
<1> QED BY <1>1 DEF IndexInv, DrainInv, KeyInv, Pending, Draining

LEMMA IndexInvStep == StoreInv /\ IndexInv /\ [StoreNext]_storeVars => IndexInv'
<1> SUFFICES ASSUME StoreInv, IndexInv, [StoreNext]_storeVars PROVE IndexInv'
  OBVIOUS
<1>1. CASE UNCHANGED storeVars
  BY <1>1 DEF storeVars, IndexInv, DrainInv, KeyInv, Pending, Draining
<1> QED
  BY <1>1, RunKeepsIndex, FillKeepsIndex, TakeKeepsIndex, RestartKeepsIndex DEF StoreNext

\* For any positions, queue, tasks, failures and crashes: once nothing is queued
\* or running, the index holds what this process saw opened and not closed, of
\* the keys that only the drain loop wrote and nothing was raised for.
THEOREM IndexHolds == StoreSpec => []IndexSettles
<1>1. IndexInv => IndexSettles
  <2> SUFFICES ASSUME IndexInv, Quiet, NEW k \in Keys \ (failed \cup tasked)
               PROVE  index[k] <=> held[k] /\ k \notin forgotten
    BY DEF IndexSettles
  <2>1. Pending(k) = {} /\ ~Draining(k)
    BY DEF Quiet, Pending, Draining, Workers
  <2> QED BY <2>1 DEF IndexInv, KeyInv
<1> QED BY <1>1, StoreInvInit, StoreInvStep, StoreInitIndex, IndexInvStep, PTL DEF StoreSpec

\* A restart whose recovery succeeds puts the last row of every position, however
\* many there are, into its hash unless it is a CLOSE.
THEOREM RecoveryRestores == StoreSpec => RecoverRestores
<1>1. ASSUME StoreInv, [StoreNext]_storeVars, crashes' # crashes, recovered', NEW k \in Keys,
             RowsOf(k) # {}, wal[Latest(k)].op = "open"
      PROVE  hash'[k] = Latest(k)
  <2>1. StoreRestart
    BY <1>1 DEF StoreNext, storeVars, Fill, Take, Run, StartTask, Pg, Redis, ReadExposure,
                WriteExposure, ExposureRaises, Delete
  <2> QED BY <1>1, <2>1 DEF StoreRestart, Recovered, OpenInWal
<1> DEFINE Restored ==
      crashes' # crashes /\ recovered' =>
        \A k \in Keys : RowsOf(k) # {} =>
            LET last == CHOOSE i \in RowsOf(k) : \A j \in RowsOf(k) : j <= i
            IN wal[last].op = "open" => hash'[k] = last
<1>2. StoreInv /\ [StoreNext]_storeVars => [Restored]_storeVars
  BY <1>1 DEF Latest
<1> QED BY <1>2, StoreInvInit, StoreInvStep, PTL DEF StoreSpec, RecoverRestores
=============================================================================
