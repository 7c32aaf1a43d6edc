------------------------------ MODULE EngineRun -----------------------------
(***************************************************************************)
(* The engine in live mode from its start to its shutdown: LiveMode.start  *)
(* with the preflight check (modes/live.py), the tasks that execute        *)
(* trades, and Engine.stop (main.py) with the cancelling of orders and the *)
(* closing of positions (runtime/background_loops.py).  An execution is    *)
(* one order here: an entry in a collector's task, or a settlement exit in *)
(* a task of its own.                                                      *)
(***************************************************************************)
EXTENDS Integers, FiniteSets

CONSTANTS
    Venues,      \* futures exchanges
    ListsOrders, \* those whose adapter has get_open_orders
    Entries, ExitTasks, \* executions
    Leftovers,   \* positions an earlier run may have left
    VenueOf,     \* the exchange of each of these
    Retries,     \* _PREFLIGHT_RETRIES
    AutoCloses   \* settings of execution.preflight_auto_close_enabled

ASSUME EngineRunAssumption ==
    /\ ListsOrders \subseteq Venues /\ Retries \in Nat \ {0} /\ AutoCloses \subseteq BOOLEAN
    /\ VenueOf \in [Entries \cup ExitTasks \cup Leftovers -> Venues]

VARIABLES
    autoClose, \* the setting of this run
    mode,      \* where LiveMode.start is
    attempt, unread, seen, \* preflight: exchanges to read, and found with positions
    blind,     \* exchanges whose read failed in this attempt
    blocked,   \* the halt flag
    trading,   \* LiveMode._running
    active,    \* the strategies are
    loops,     \* the loop that drains exit requests is there
    trade,     \* trade[t]: an execution's task
    open,      \* positions, by the entry or the leftover they come from
    resting,   \* orders that rest on an exchange
    rested,    \* those that ever did
    stop, todo, \* where Engine.stop is, and exchanges it has still to visit there
    connected, \* adapters that are not disconnected
    dirty,     \* exchanges with a call of the clean-up that failed
    late       \* LiveMode began to run after Engine.stop had found it idle

preflight == <<autoClose, attempt, unread, seen, blind>>
cleanup == <<stop, todo, connected, dirty>>
live == <<trading, active, loops>>
orders == <<open, resting, rested>>
engineVars == <<mode, preflight, blocked, live, trade, orders, cleanup, late>>

Trades == Entries \cup ExitTasks
Modes == {"gate", "preflight", "waiting", "starting", "running", "failed", "over"}
Stops == {"no", "live", "loops", "drain", "collectors", "cancel", "close", "disconnect",
          "tasks", "over"}
At(S, x) == {p \in S : VenueOf[p] = x}

EngineInit ==
    /\ mode = "gate" /\ autoClose \in AutoCloses /\ attempt = 1
    /\ unread = {} /\ seen = {} /\ blind = {}
    /\ blocked = FALSE /\ trading = FALSE /\ active = FALSE /\ loops = FALSE
    /\ trade = [t \in Trades |-> "idle"]
    /\ open \in SUBSET Leftovers /\ resting = {} /\ rested = {}
    /\ stop = "no" /\ todo = {} /\ connected = Venues /\ dirty = {} /\ late = FALSE

-----------------------------------------------------------------------------
(* LiveMode.start.                                                         *)

StartReading(n) ==
    /\ mode' = "preflight" /\ attempt' = n
    /\ unread' = Venues /\ seen' = {} /\ blind' = {} /\ UNCHANGED autoClose

\* The live gate and the approval.
PassGate ==
    /\ mode = "gate"
    /\ StartReading(1) \/ (mode' = "failed" /\ UNCHANGED preflight)
    /\ UNCHANGED <<blocked, live, trade, orders, cleanup, late>>

\* get_positions of the next exchange: it fails, which is passed over; it is
\* right; or it still shows what was closed.
ReadPositions(x) ==
    /\ mode = "preflight" /\ x \in unread /\ unread' = unread \ {x}
    /\ \/ blind' = blind \cup {x} /\ UNCHANGED seen
       \/ /\ seen' \in {seen \cup {x}} \cup IF At(open, x) = {} THEN {seen} ELSE {}
          /\ UNCHANGED blind
    /\ UNCHANGED <<autoClose, mode, attempt, blocked, live, trade, orders, cleanup, late>>

\* _running goes up and the strategies are started.
BeginTrading ==
    /\ mode' = "starting" /\ trading' = TRUE /\ active' = TRUE
    /\ late' = (stop \notin {"no", "live"})
    /\ UNCHANGED preflight

\* The first attempt tries to close what it has found, each call for itself.
CloseStale ==
    IF attempt = 1 /\ autoClose
    THEN \E closed \in SUBSET open : open' = open \ closed
    ELSE UNCHANGED open

AttemptOver_Paused ==
    /\ mode = "preflight" /\ unread = {}
    /\ \/ seen = {} /\ BeginTrading /\ UNCHANGED <<blocked, open>>
       \/ /\ seen # {} /\ attempt < Retries /\ mode' = "waiting" /\ CloseStale
          /\ UNCHANGED <<preflight, blocked, trading, active, late>>
       \/ seen # {} /\ attempt = Retries /\ BeginTrading /\ UNCHANGED <<blocked, open>>
    /\ UNCHANGED <<loops, trade, resting, rested, cleanup>>

\* All flat: trading begins.  Something left: another attempt, or, after the
\* last one, the start is given up, or goes on under a halt.
AttemptOver ==
    /\ mode = "preflight" /\ unread = {}
    /\ \/ seen = {} /\ BeginTrading /\ UNCHANGED <<blocked, open>>
       \/ /\ seen # {} /\ attempt < Retries /\ mode' = "waiting" /\ CloseStale
          /\ UNCHANGED <<preflight, blocked, trading, active, late>>
       \/ /\ seen # {} /\ attempt = Retries
          /\ IF autoClose
             THEN mode' = "failed" /\ UNCHANGED <<preflight, blocked, trading, active,
                                                  late>>
             ELSE blocked' = TRUE /\ BeginTrading
          /\ UNCHANGED open
    /\ UNCHANGED <<loops, trade, resting, rested, cleanup>>

\* Twenty seconds, given up when a halt is seen.
WaitOver ==
    /\ mode = "waiting"
    /\ IF blocked THEN mode' = "failed" /\ UNCHANGED preflight ELSE StartReading(attempt + 1)
    /\ UNCHANGED <<blocked, live, trade, orders, cleanup, late>>

\* The collectors and the loops are started, however _running stands by now.
StartLoops ==
    /\ mode = "starting" /\ mode' = "running" /\ loops' = trading
    /\ UNCHANGED <<preflight, blocked, trading, active, trade, orders, cleanup, late>>

-----------------------------------------------------------------------------
(* Executions.                                                             *)

\* Entries that were filled or rest, and exits that closed their exchange.
Land(filled, rests, closing) ==
    /\ open' = {p \in open : VenueOf[p] \notin {VenueOf[e] : e \in closing}} \cup filled
    /\ resting' = resting \cup rests /\ rested' = rested \cup rests

\* _on_orderbook looks at _running once and asks the active strategies.
Signal(t) ==
    /\ t \in Entries /\ trade[t] = "idle" /\ mode = "running" /\ trading /\ active
    /\ trade' = [trade EXCEPT ![t] = "queued"]
    /\ UNCHANGED <<mode, preflight, blocked, live, orders, cleanup, late>>

\* _dedup_cleanup_loop: an exit request becomes a task.
ExitRequest(t) ==
    /\ t \in ExitTasks /\ trade[t] = "idle" /\ loops
    /\ trade' = [trade EXCEPT ![t] = "queued"]
    /\ UNCHANGED <<mode, preflight, blocked, live, orders, cleanup, late>>

\* The order leaves; a halt refuses an entry, and a client that was closed
\* raises.
Send(t) ==
    /\ trade[t] = "queued"
    /\ trade' = [trade EXCEPT ![t] =
          IF VenueOf[t] \notin connected \/ (blocked /\ t \in Entries) THEN "done" ELSE "sent"]
    /\ UNCHANGED <<mode, preflight, blocked, live, orders, cleanup, late>>

Executed(t) ==
    /\ trade[t] = "sent" /\ trade' = [trade EXCEPT ![t] = "done"]
    /\ \/ Land({}, {}, {})
       \/ t \in Entries /\ (Land({t}, {}, {}) \/ Land({}, {t}, {}))
       \/ t \in ExitTasks /\ Land({}, {}, {t})
    /\ UNCHANGED <<mode, preflight, blocked, live, cleanup, late>>

\* An order that rests is filled.
Fill(t) ==
    /\ t \in resting /\ resting' = resting \ {t} /\ open' = open \cup {t}
    /\ UNCHANGED <<mode, preflight, blocked, live, trade, rested, cleanup, late>>

FlagSet ==
    /\ blocked' = ~blocked
    /\ UNCHANGED <<mode, preflight, live, trade, orders, cleanup, late>>

-----------------------------------------------------------------------------
(* Engine.stop.                                                            *)

CancelTasks_StopOnly(S) == UNCHANGED <<trade, orders>>

\* Tasks are cancelled and end; of the orders that were under way some had
\* reached the exchange.
CancelTasks(S) ==
    LET sent == {t \in S : trade[t] = "sent"} IN
    /\ trade' = [t \in Trades |->
          IF t \in S /\ trade[t] \in {"queued", "sent"} THEN "done" ELSE trade[t]]
    /\ \E landed \in SUBSET sent : \E rests \in SUBSET (landed \cap Entries) :
          Land((landed \cap Entries) \ rests, rests, landed \cap ExitTasks)

StopAt(s) == stop' = s /\ todo' = IF s \in {"cancel", "close", "disconnect"} THEN Venues ELSE {}

\* A signal, or a start that raised: the strategy manager and the consumer are
\* stopped first.
StopBegins ==
    /\ stop = "no" /\ StopAt("live") /\ active' = FALSE
    /\ UNCHANGED <<mode, preflight, blocked, trading, loops, trade, orders, connected,
                   dirty, late>>

\* LiveMode.stop returns at once when it is not trading.
StopLive ==
    /\ stop = "live" /\ StopAt(IF trading THEN "loops" ELSE "cancel") /\ trading' = FALSE
    /\ UNCHANGED <<mode, preflight, blocked, active, loops, trade, orders, connected,
                   dirty, late>>

StopLoops ==
    /\ stop = "loops" /\ StopAt("drain") /\ loops' = FALSE
    /\ UNCHANGED <<mode, preflight, blocked, trading, active, trade, orders, connected,
                   dirty, late>>

\* Settlement exits have ten seconds to end, and are cancelled then.
Drain ==
    /\ stop = "drain" /\ StopAt("collectors")
    /\ CancelTasks(ExitTasks)
    /\ UNCHANGED <<mode, preflight, blocked, live, connected, dirty, late>>

StopCollectors ==
    /\ stop = "collectors" /\ StopAt("cancel")
    /\ CancelTasks(Entries)
    /\ UNCHANGED <<mode, preflight, blocked, live, connected, dirty, late>>

\* After the last exchange, the next part of the clean-up.
Visited(x, next) ==
    /\ x \in todo
    /\ IF todo = {x} THEN StopAt(next) ELSE stop' = stop /\ todo' = todo \ {x}

\* cancel_open_orders: each call may fail.
CancelOrders(x) ==
    /\ stop = "cancel" /\ Visited(x, "close")
    /\ \/ resting' = resting \ At(resting, x) /\ x \in ListsOrders /\ UNCHANGED dirty
       \/ /\ \E kept \in SUBSET At(resting, x) : resting' = (resting \ At(resting, x)) \cup kept
          /\ x \in ListsOrders /\ dirty' = dirty \cup {x}
       \/ x \notin ListsOrders /\ UNCHANGED <<resting, dirty>>
    /\ UNCHANGED <<mode, preflight, blocked, live, trade, open, rested, connected, late>>

\* close_all_positions_on_shutdown: each call may fail.
ClosePositions(x) ==
    /\ stop = "close" /\ Visited(x, "disconnect")
    /\ \/ open' = open \ At(open, x) /\ UNCHANGED dirty
       \/ /\ \E kept \in SUBSET At(open, x) : open' = (open \ At(open, x)) \cup kept
          /\ dirty' = dirty \cup {x}
    /\ UNCHANGED <<mode, preflight, blocked, live, trade, resting, rested, connected,
                   late>>

Disconnect(x) ==
    /\ stop = "disconnect" /\ Visited(x, "tasks")
    /\ connected' = connected \ {x}
    /\ UNCHANGED <<mode, preflight, blocked, live, trade, orders, dirty, late>>

\* The background tasks are cancelled, the live mode's with all it has begun.
CancelBackground ==
    /\ stop = "tasks" /\ StopAt("over")
    /\ mode' = "over" /\ trading' = FALSE /\ loops' = FALSE /\ CancelTasks(Trades)
    /\ UNCHANGED <<preflight, blocked, active, connected, dirty, late>>

EngineNext ==
    \/ PassGate \/ AttemptOver \/ WaitOver \/ StartLoops \/ FlagSet
    \/ \E x \in Venues :
          ReadPositions(x) \/ CancelOrders(x) \/ ClosePositions(x) \/ Disconnect(x)
    \/ \E t \in Trades : Signal(t) \/ ExitRequest(t) \/ Send(t) \/ Executed(t) \/ Fill(t)
    \/ StopBegins \/ StopLive \/ StopLoops \/ Drain \/ StopCollectors \/ CancelBackground

EngineSpec == EngineInit /\ [][EngineNext]_engineVars

-----------------------------------------------------------------------------
\* Every variable has its type.
EngineTypeOK ==
    /\ autoClose \in AutoCloses /\ mode \in Modes /\ attempt \in 1..Retries
    /\ unread \subseteq Venues /\ seen \subseteq Venues /\ blind \subseteq Venues
    /\ blocked \in BOOLEAN /\ trading \in BOOLEAN /\ active \in BOOLEAN /\ loops \in BOOLEAN
    /\ trade \in [Trades -> {"idle", "queued", "sent", "done"}]
    /\ open \subseteq Entries \cup Leftovers
    /\ resting \subseteq Entries /\ rested \subseteq Entries
    /\ stop \in Stops /\ todo \subseteq Venues /\ connected \subseteq Venues
    /\ dirty \subseteq Venues /\ late \in BOOLEAN

\* "Preflight position check - MUST run before starting strategies": trading
\* begins without a position left by an earlier run on any exchange that could
\* be read, or under a halt, whatever was closed, reread and halted before.
StartsFlatOrHalted ==
    [][trading' /\ ~trading => blocked' \/ \A p \in open' : VenueOf[p] \in blind]_engineVars

\* Live mode stops before orders are cancelled, "avoids race where new orders
\* open during shutdown cleanup", and positions are closed after that: an
\* exchange whose calls went through keeps no order and no position, whatever
\* was under way, but for orders of an adapter that cannot list them.
LeavesNothingBehind ==
    stop = "over" /\ ~late =>
        \A t \in open \cup resting :
            \/ VenueOf[t] \in dirty
            \/ t \in rested /\ VenueOf[t] \notin ListsOrders
=============================================================================
