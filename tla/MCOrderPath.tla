---------------------------- MODULE MCOrderPath ----------------------------
(***************************************************************************)
(* Small instances of what lies before, behind and around the two-leg      *)
(* executor.  A behaviour is one of TradeRequests, MultiLeg, OrderEntry or *)
(* EngineRun, as part says: the four share no state, so that their         *)
(* interleavings show nothing new.                                         *)
(*                                                                         *)
(* TradeRequests: an entry and an exit of one pair of exchanges and        *)
(* symbols, and a request for it that raises.  MultiLeg: a triangle and a  *)
(* call of one leg, of one exchange.  OrderEntry: two orders of one        *)
(* adapter, and three connections, one of which the network drops.         *)
(* EngineRun: an entry and an exit on an exchange that lists its orders,   *)
(* and a position an earlier run left on one that does not.                *)
(***************************************************************************)
EXTENDS TradeRequests, MultiLeg, OrderEntry, EngineRun

CONSTANTS entry, exit, bad, pair, triangle, single, o1, o2, A, B, e1, x1, old

MCTradeKey == [r \in Requests |-> pair]
MCLegCount == [c \in Calls |-> IF c = triangle THEN 3 ELSE 1]
MCVenueOf == [p \in Entries \cup ExitTasks \cup Leftovers |-> IF p = old THEN B ELSE A]

VARIABLE part
vars == <<part, requestVars, legsVars, orderVars, engineVars>>

Init ==
    /\ part \in {"requests", "legs", "orders", "engine"}
    /\ RequestsInit /\ LegsInit /\ OrderInit /\ EngineInit
    /\ part # "requests" => bus = "redis"
    /\ part # "engine" => open = {} /\ autoClose

InRequests(Act) == part = "requests" /\ Act /\ UNCHANGED <<part, legsVars, orderVars, engineVars>>
InLegs(Act) == part = "legs" /\ Act /\ UNCHANGED <<part, requestVars, orderVars, engineVars>>
InOrders(Act) == part = "orders" /\ Act /\ UNCHANGED <<part, requestVars, legsVars, engineVars>>
InEngine(Act) == part = "engine" /\ Act /\ UNCHANGED <<part, requestVars, legsVars, orderVars>>

Next ==
    \/ InRequests(RequestsNext) \/ InLegs(LegsNext)
    \/ InOrders(OrderNext) \/ InEngine(EngineNext)

\* The consumer's loop goes on, the executor and the bus answer or raise, an
\* engine that went down starts again, and halts are lifted.
Spec ==
    /\ Init /\ [][Next]_vars
    /\ WF_vars(InRequests(Poll)) /\ WF_vars(InRequests(Process))
    /\ WF_vars(InRequests(Execute)) /\ WF_vars(InRequests(Ack))
    /\ WF_vars(InRequests(Start)) /\ WF_vars(InRequests(Resume))
=============================================================================
