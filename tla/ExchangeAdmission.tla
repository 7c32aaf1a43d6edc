------------------------- MODULE ExchangeAdmission -------------------------
(***************************************************************************)
(* What the executor's exchange locks promise its executions: one that     *)
(* asks is admitted to all its exchanges at once, as soon as every         *)
(* execution that asked before it for one of them has returned.  There are *)
(* no locks and no queues here; AtomicExecutor implements this with one    *)
(* asyncio.Lock per exchange.                                              *)
(***************************************************************************)
CONSTANTS
    Executions,
    Uses          \* Uses[e]: the exchanges execution e trades on

VARIABLES
    phase,        \* phase[e]: "out", "waiting", "inside" or "returned"
    after         \* after[e]: who has to return before e is admitted

vars == <<phase, after>>

Init ==
    /\ phase = [e \in Executions |-> "out"]
    /\ after = [e \in Executions |-> {}]

\* The others that wait for, or trade on, an exchange of e.
Rivals(e) ==
    {f \in Executions \ {e} :
        phase[f] \in {"waiting", "inside"} /\ Uses[e] \cap Uses[f] # {}}

\* Halted, a duplicate, an unhealthy exchange or no margin.
TurnAway(e) ==
    /\ phase[e] = "out"
    /\ phase' = [phase EXCEPT ![e] = "returned"]
    /\ UNCHANGED after

Ask(e) ==
    /\ phase[e] = "out"
    /\ phase' = [phase EXCEPT ![e] = "waiting"]
    /\ after' = [after EXCEPT ![e] = Rivals(e)]

Admit(e) ==
    /\ phase[e] = "waiting" /\ after[e] = {}
    /\ phase' = [phase EXCEPT ![e] = "inside"]
    /\ UNCHANGED after

Return(e) ==
    /\ phase[e] = "inside"
    /\ phase' = [phase EXCEPT ![e] = "returned"]
    /\ after' = [f \in Executions |-> after[f] \ {e}]

Next == \E e \in Executions : TurnAway(e) \/ Ask(e) \/ Admit(e) \/ Return(e)

Spec == Init /\ [][Next]_vars
=============================================================================
