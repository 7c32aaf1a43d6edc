------------------------------- MODULE MultiLeg -----------------------------
(***************************************************************************)
(* AtomicExecutor.execute_multi_leg (src/engine/src/execution/executor.py):*)
(* legs sent one after the other on one exchange, under its lock, and      *)
(* unwound in reverse order when one fails or fills too little; with the   *)
(* halt flag, the stranded tracker, lost answers and cancelled tasks.      *)
(***************************************************************************)
EXTENDS Integers, Sequences, SequencesExt, FiniteSets, FiniteSetsExt

CONSTANTS
    Calls,      \* calls of execute_multi_leg, all on one exchange
    LegCount,   \* LegCount[c]: the number of its orders
    Tolerated   \* strandings the tracker takes before it asks for a halt

ASSUME MultiLegAssumption ==
    /\ LegCount \in [Calls -> Nat \ {0}] /\ Tolerated \in Nat

VARIABLES
    stopped,   \* is_halted()
    line,      \* the exchange's lock: its holder, then those who wait for it
    stage,     \* stage[c]: "new", "queued", "placing", "unwinding", "returned"
    completed, \* completed[c]: legs that were answered, so far
    unwound,   \* while unwinding: the leg whose turn it is
    trouble,   \* all_rb_ok and last_rb_reason: the last unwinding that failed
    verdict,   \* result[c]
    entries,   \* the tracker's entries of the last 5 s, a leg and a side each
    strandings, \* all its entries, up to one more than Tolerated
    fill,      \* fill[c][i]: what the exchange reported of leg i
    held       \* held[c][i]: leg i left a position on the exchange

legState == <<stage, completed, unwound, trouble, verdict, fill, held>>
legsVars == <<stopped, line, entries, strandings, legState>>

Verdicts == {"none", "rejected", "success", "rolled_back", "rollback_failed", "cancelled"}
Legs(c) == 1..LegCount[c]
AllLegs == UNION {Legs(c) : c \in Calls}

LegsInit ==
    /\ stopped = FALSE /\ line = <<>>
    /\ stage = [c \in Calls |-> "new"] /\ verdict = [c \in Calls |-> "none"]
    /\ completed = [c \in Calls |-> 0] /\ unwound = [c \in Calls |-> 0]
    /\ trouble = [c \in Calls |-> "none"]
    /\ entries = {} /\ strandings = 0
    /\ fill = [c \in Calls |-> [i \in Legs(c) |-> "none"]]
    /\ held = [c \in Calls |-> [i \in Legs(c) |-> FALSE]]

-----------------------------------------------------------------------------
Return(c, what) ==
    /\ stage' = [stage EXCEPT ![c] = "returned"]
    /\ verdict' = [verdict EXCEPT ![c] = what]

Holds(c) == line # <<>> /\ Head(line) = c

\* The halt flag and the health score, and then the queue for the lock.
Enter(c) ==
    /\ stage[c] = "new"
    /\ \/ Return(c, "rejected") /\ UNCHANGED line
       \/ /\ ~stopped
          /\ stage' = [stage EXCEPT ![c] = "queued"] /\ line' = Append(line, c)
          /\ UNCHANGED verdict
    /\ UNCHANGED <<stopped, completed, unwound, trouble, entries, strandings, fill, held>>

\* The lock is granted; the halt flag is not looked at again.
Granted(c) ==
    /\ stage[c] = "queued" /\ Holds(c)
    /\ stage' = [stage EXCEPT ![c] = "placing"]
    /\ UNCHANGED <<stopped, line, completed, unwound, trouble, verdict, entries, strandings,
                   fill, held>>

\* The legs 1..k are to be unwound, the last first; with none of them left the
\* call is over.
StartUnwinding(c, k) ==
    /\ unwound' = [unwound EXCEPT ![c] = k]
    /\ IF k = 0
       THEN Return(c, "rolled_back") /\ line' = Tail(line)
       ELSE stage' = [stage EXCEPT ![c] = "unwinding"] /\ UNCHANGED <<line, verdict>>

\* The next leg is answered: filled to the threshold, or below it.
Answered(c) ==
    LET i == completed[c] + 1 IN
    /\ stage[c] = "placing"
    /\ completed' = [completed EXCEPT ![c] = i]
    /\ \/ /\ fill' = [fill EXCEPT ![c][i] = "most"] /\ held' = [held EXCEPT ![c][i] = TRUE]
          /\ IF i = LegCount[c]
             THEN Return(c, "success") /\ line' = Tail(line)
             ELSE UNCHANGED <<stage, verdict, line>>
          /\ UNCHANGED unwound
       \/ /\ fill' = [fill EXCEPT ![c][i] = "little"]
          /\ held' \in {held, [held EXCEPT ![c][i] = TRUE]}
          /\ StartUnwinding(c, i)
    /\ UNCHANGED <<stopped, trouble, entries, strandings>>

\* The next leg times out or is refused.  Its order is left to itself: it may
\* have been filled.
Failed(c) ==
    LET i == completed[c] + 1 IN
    /\ stage[c] = "placing"
    /\ held' \in {held, [held EXCEPT ![c][i] = TRUE]}
    /\ StartUnwinding(c, completed[c])
    /\ UNCHANGED <<stopped, completed, trouble, entries, strandings, fill>>

-----------------------------------------------------------------------------
(* _rollback_order for a filled leg, and StrandedPositionTracker.register. *)

\* register() for each of new; one for the same leg and side within 5 s is
\* dropped.
Registers(new) ==
    /\ entries' = entries \cup new
    /\ strandings' = Min({strandings + Cardinality(new \ entries), Tolerated + 1})

Trouble_Last(c, outcome) == outcome
\* all_rb_ok goes down once, last_rb_reason follows the last failure.
Trouble(c, outcome) == IF outcome = "none" THEN trouble[c] ELSE outcome

\* The next leg's turn, or the return.  Only the last completed leg is
\* registered, whichever failed, not if the last failure was a benign one, and
\* only this registration may halt.
UnwindNext(c, outcome, residual) ==
    LET last == unwound[c] = 1
        own == IF last /\ Trouble(c, outcome) = "real" THEN {<<completed[c], "own">>} ELSE {}
    IN  /\ trouble' = [trouble EXCEPT ![c] = Trouble(c, outcome)]
        /\ unwound' = [unwound EXCEPT ![c] = @ - 1]
        /\ Registers(residual \cup own)
        /\ stopped' = (stopped \/ (~(own \subseteq entries) /\ strandings' > Tolerated))
        /\ IF last
           THEN /\ Return(c, IF trouble'[c] = "none" THEN "rolled_back" ELSE "rollback_failed")
                /\ line' = Tail(line)
           ELSE UNCHANGED <<stage, verdict, line>>
        /\ UNCHANGED <<completed, fill>>

\* A market order the other way: done to 95%, or to less, which registers the
\* residual; refused or lost; or refused because there is no position.
Unwind(c) ==
    LET k == unwound[c]
        flat == [held EXCEPT ![c][k] = FALSE]
    IN  /\ stage[c] = "unwinding"
        /\ \/ held' = flat /\ UnwindNext(c, "none", {})
           \/ held' = held /\ UnwindNext(c, "real", {<<k, "opposite">>})
           \/ held' \in {held, flat} /\ UnwindNext(c, "real", {})
           \/ ~held[c][k] /\ held' = held /\ UnwindNext(c, "benign", {})

-----------------------------------------------------------------------------
\* TradeRequestConsumer.stop() cancels the task: the lock is released, and the
\* legs are left as they are, the one that was under way included.
CancelCall(c) ==
    /\ stage[c] \in {"queued", "placing", "unwinding"}
    /\ Return(c, "cancelled")
    /\ line' = SelectSeq(line, LAMBDA d : d # c)
    /\ \/ held' = held
       \/ stage[c] = "placing" /\ held' = [held EXCEPT ![c][completed[c] + 1] = TRUE]
       \/ stage[c] = "unwinding" /\ held' = [held EXCEPT ![c][unwound[c]] = FALSE]
    /\ UNCHANGED <<stopped, completed, unwound, trouble, entries, strandings, fill>>

\* Everyone else sets and clears the flag; entries grow older than 5 s.
FlagMoves ==
    /\ stopped' = ~stopped
    /\ UNCHANGED <<line, entries, strandings, legState>>

EntryAges ==
    /\ \E e \in entries : entries' = entries \ {e}
    /\ UNCHANGED <<stopped, line, strandings, legState>>

LegsNext ==
    \/ \E c \in Calls :
          Enter(c) \/ Granted(c) \/ Answered(c) \/ Failed(c) \/ Unwind(c) \/ CancelCall(c)
    \/ FlagMoves \/ EntryAges

LegsSpec == LegsInit /\ [][LegsNext]_legsVars

-----------------------------------------------------------------------------
\* "On any failure or partial fill below threshold, all previously completed
\* legs are rolled back": an execution that says it was rolled back left at
\* most the order whose answer it lost, one that says it was rejected nothing,
\* and one that succeeded every leg.
LegsTellTheTruth ==
    \A c \in Calls :
        /\ verdict[c] = "success" => \A i \in Legs(c) : fill[c][i] = "most" /\ held[c][i]
        /\ verdict[c] = "rolled_back" => \A i \in 1..completed[c] : ~held[c][i]
        /\ verdict[c] = "rejected" => \A i \in Legs(c) : ~held[c][i]
=============================================================================
