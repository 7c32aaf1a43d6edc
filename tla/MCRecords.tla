----------------------------- MODULE MCRecords -----------------------------
(***************************************************************************)
(* Small instances of what the engine keeps across a restart.  A behaviour *)
(* is one of PositionStore or one of BudgetLedger, as part says: the two   *)
(* share no state, so that their interleavings show nothing new.           *)
(*                                                                         *)
(* PositionStore: a long and a short position of one exchange and asset,   *)
(* as the two legs of a spot-futures trade are.  BudgetLedger: a loss that *)
(* uses up the budget of a strategy, a gain of it, and a loss of the       *)
(* uncategorized one.                                                      *)
(***************************************************************************)
EXTENDS PositionStore, BudgetLedger

CONSTANTS long, short, acc, drain, t1, strategy, uncategorized, loss, gain, other

MCAccountOf == [k \in Keys |-> acc]
MCSign == [k \in Keys |-> IF k = long THEN 1 ELSE -1]
MCStrategyOf == [e \in Events |-> IF e = other THEN uncategorized ELSE strategy]
MCAmount == [e \in Events |-> IF e = loss THEN -2 ELSE IF e = gain THEN 1 ELSE -1]
MCFaultSets == {{"redelivered", "reset", "database"}, {"overlapping", "crash"}}

VARIABLE part
vars == <<part, storeVars, ledgerVars>>

Init ==
    /\ part \in {"positions", "budgets"} /\ StoreInit /\ LedgerInit
    /\ part = "positions" => faults = CHOOSE f \in FaultSets : TRUE

InStore(A) == part = "positions" /\ A /\ UNCHANGED <<part, ledgerVars>>
InLedger(A) == part = "budgets" /\ A /\ UNCHANGED <<part, storeVars>>

Next == InStore(StoreNext) \/ InLedger(LedgerNext)

Spec ==
    /\ Init /\ [][Next]_vars
    /\ WF_vars(InStore(Take)) /\ \A w \in Workers : WF_vars(InStore(Run(w)))
=============================================================================
