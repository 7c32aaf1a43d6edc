----------------------------- MODULE MCRiskLoops ---------------------------
(***************************************************************************)
(* Small instances of the two loops that watch the engine's risk.  A       *)
(* behaviour is one of Reconciler or one of Breakers, as part says: the    *)
(* two share no state.                                                     *)
(*                                                                         *)
(* Reconciler: one position on each of two exchanges, so that one exchange *)
(* may fail while the other reports a discrepancy.  Breakers: two          *)
(* strategies, of which one halted is as many as are active.               *)
(***************************************************************************)
EXTENDS Reconciler, Breakers

CONSTANTS A, B, a, b, s1, s2

MCExchangeOf == [k \in Keys |-> IF k = a THEN A ELSE B]

VARIABLE part
vars == <<part, reconcilerVars, breakerVars>>

Init ==
    /\ part \in {"reconciler", "breakers"} /\ ReconcilerInit /\ BreakerInit
    /\ part = "breakers" => held = Nothing

InReconciler(Act) == part = "reconciler" /\ Act /\ UNCHANGED <<part, breakerVars>>
InBreakers(Act) == part = "breakers" /\ Act /\ UNCHANGED <<part, reconcilerVars>>

Next == InReconciler(ReconcilerNext) \/ InBreakers(BreakerNext)

\* The reconciler's loop keeps its interval, every fetch returns or raises, and
\* an exchange that is asked again and again answers again and again.  Tasks of
\* the breaker run and time passes.
Spec ==
    /\ Init /\ [][Next]_vars
    /\ WF_vars(InReconciler(Begin)) /\ WF_vars(InReconciler(Compare))
    /\ \A x \in Exchanges : /\ WF_vars(InReconciler(FetchOk(x) \/ FetchFails(x)))
                            /\ SF_vars(InReconciler(FetchOk(x)))
    /\ WF_vars(InBreakers(RunTask)) /\ WF_vars(InBreakers(BreakerTick))
=============================================================================
