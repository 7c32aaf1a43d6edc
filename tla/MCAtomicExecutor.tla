-------------------------- MODULE MCAtomicExecutor -------------------------
(***************************************************************************)
(* Small instances of AtomicExecutor: two exchanges, at most three         *)
(* executions, amounts of five units so that fills lie on both sides of    *)
(* the 80% a leg must reach and the 95% an unwind must reach.              *)
(***************************************************************************)
EXTENDS AtomicExecutor

CONSTANTS A, B,                  \* exchanges
          entry, counter, exit,  \* cross-exchange executions
          basis                  \* same-exchange execution

\* entry and exit go from A to B, counter from B to A (the opposite lock order)
MCVenue == [e \in Executions |->
    CASE e = counter -> <<B, A>>
      [] e = basis -> <<A, A>>
      [] OTHER -> <<A, B>>]
MCSide == [e \in Executions |-> IF e \in {exit, counter} THEN "sell" ELSE "buy"]
MCClosing == Executions \cap {exit}
MCSplit == Executions \cap {entry}
\* entry and basis are two signals of one strategy on one symbol
MCDedupKey == [e \in Executions |-> IF e \in {entry, basis} THEN "entry" ELSE e]
MCAmount == [e \in Executions |-> IF e = exit THEN 2 ELSE 5]
MCFive == [e \in Executions |-> 5]
MCPrice == [e \in Executions |-> 1]
MCOpening == [x \in Exchanges |->
    [d \in Directions |-> IF <<x, d>> \in {<<A, "long">>, <<B, "short">>} THEN 5 ELSE 0]]
=============================================================================
