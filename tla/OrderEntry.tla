------------------------------ MODULE OrderEntry ----------------------------
(***************************************************************************)
(* A market order on Binance futures with execution.ws_order_enabled:      *)
(* place_order of the adapter (infra/exchange/native_adapter.py,           *)
(* native_binance.py), the WebSocket it is sent over and reconnects        *)
(* (ws_trade/binance_ws_trade.py), the user data stream that reports fills *)
(* (ws_trade/binance_user_data.py), and the REST call it falls back to.    *)
(* Several executions place orders at once over the one adapter.           *)
(***************************************************************************)
EXTENDS Integers

CONSTANTS
    Orders,     \* orders placed on the adapter
    MaxSockets, \* bound on connections opened
    MaxDrops    \* bound on connections the network drops

ASSUME OrderEntryAssumption == MaxSockets \in Nat /\ MaxDrops \in Nat

VARIABLES
    made,      \* the adapter's _ws_trade is there
    ws,        \* _ws, a connection by its number; 0 for None
    task,      \* _listener_task, by the connection it was made for; 0 for None
    running,   \* _running
    alive,     \* connections that are up
    listening, \* connections whose _listen() goes on
    opened, drops, \* connections opened, and dropped, so far
    futures,   \* _futures: orders whose answer is awaited
    answers,   \* answers under way: [order, socket, accepted]
    step,      \* step[o]: where place_order is
    events,    \* the user data stream: "none", "down" or "up"
    buffer,    \* _fill_buffer
    placed,    \* placed[o]: times the exchange took o
    filled,    \* filled[o]: the order of the WebSocket is filled
    \* history
    answeredBy, \* answeredBy[o]: the orders whose answers resolved o's future
    noticed,   \* orders whose fill was dispatched before their wait was over
    report     \* report[o]: what the Trade that was returned rests on

socketState == <<made, ws, task, running, alive, listening, opened, drops>>
orderVars == <<socketState, futures, answers, step, events, buffer, placed, filled,
          answeredBy, noticed, report>>

Steps == {"new", "closing", "connecting", "asked", "waiting", "polling", "rest", "done"}
Reports == {"none", "answer", "event", "poll", "assumed", "rest", "error"}

OrderInit ==
    /\ made = FALSE /\ ws = 0 /\ task = 0 /\ running = FALSE
    /\ alive = {} /\ listening = {} /\ opened = 0 /\ drops = 0
    /\ futures = {} /\ answers = {} /\ step = [o \in Orders |-> "new"]
    /\ events = "none" /\ buffer = {}
    /\ placed = [o \in Orders |-> 0] /\ filled = [o \in Orders |-> FALSE]
    /\ answeredBy = [o \in Orders |-> {}] /\ noticed = {}
    /\ report = [o \in Orders |-> "none"]

-----------------------------------------------------------------------------
Goto(o, s) == step' = [step EXCEPT ![o] = s]

Done(o, what) == Goto(o, "done") /\ report' = [report EXCEPT ![o] = what]

fills == <<events, buffer, filled, noticed>>

\* The request goes out on socket n.  The send raises, which leaves the future
\* behind, or the exchange takes the order, or rejects it, or never sees it.
SendOn(o, n) ==
    LET answered(ok) == answers' = answers \cup {[order |-> o, socket |-> n, accepted |-> ok]}
    IN  /\ futures' = futures \cup {o}
        /\ \/ Goto(o, "rest") /\ UNCHANGED <<answers, placed>>
           \/ /\ Goto(o, "asked")
              /\ \/ placed' = [placed EXCEPT ![o] = @ + 1] /\ answered(TRUE)
                 \/ answered(FALSE) /\ UNCHANGED placed
                 \/ UNCHANGED <<answers, placed>>

Stale == ws = 0 \/ ~running \/ ws \notin alive

\* place_order up to the first suspension: the client is made and connects, a
\* stale one closes its socket and its listener, or the request goes out.
Begin(o) ==
    /\ step[o] = "new"
    /\ made' = TRUE
    /\ \/ /\ ~made /\ Goto(o, "connecting")
          /\ UNCHANGED <<ws, task, running, alive, listening, opened, drops, futures, answers,
                         placed>>
       \/ /\ made /\ Stale
          /\ running' = FALSE /\ listening' = listening \ {task} /\ alive' = alive \ {ws}
          /\ Goto(o, IF ws = 0 THEN "connecting" ELSE "closing")
          /\ UNCHANGED <<ws, task, opened, drops, futures, answers, placed>>
       \/ /\ made /\ ~Stale /\ UNCHANGED <<ws, task, running, alive, listening, opened, drops>>
          /\ SendOn(o, ws)
    /\ UNCHANGED <<fills, answeredBy, report>>

\* The old socket is closed, _ws is cleared, whichever it is by now, and
\* connect() begins.
Closed(o) ==
    /\ step[o] = "closing" /\ Goto(o, "connecting")
    /\ ws' = 0
    /\ UNCHANGED <<made, task, running, alive, listening, opened, drops, futures, answers,
                   fills, placed, answeredBy, report>>

\* connect() returns and the request goes out at once, or it raises.
Connected(o) ==
    /\ step[o] = "connecting"
    /\ \/ /\ opened < MaxSockets /\ opened' = opened + 1
          /\ ws' = opened' /\ task' = opened' /\ running' = TRUE
          /\ alive' = alive \cup {opened'} /\ listening' = listening \cup {opened'}
          /\ SendOn(o, opened')
       \/ /\ Goto(o, "rest")
          /\ UNCHANGED <<ws, task, running, alive, listening, opened, futures, answers, placed>>
    /\ UNCHANGED <<made, drops, fills, answeredBy, report>>

\* A socket breaks, and its listener, whether it is still the client's or not,
\* marks the client as not running.
Drop(n) ==
    /\ n \in alive /\ drops < MaxDrops /\ drops' = drops + 1
    /\ alive' = alive \ {n} /\ listening' = listening \ {n}
    /\ running' = (running /\ n \notin listening)
    /\ UNCHANGED <<made, ws, task, opened, futures, answers, step, fills, placed, answeredBy,
                   report>>

-----------------------------------------------------------------------------
(* The answer, and how the fill is confirmed.                              *)

\* wait_for_order_fill: the buffer, or a waiter; without a stream, which is
\* started first and may fail to, the order is polled.
AwaitFill(o) ==
    \/ /\ events = "none" /\ Goto(o, "polling") /\ UNCHANGED <<events, buffer, report>>
    \/ /\ events = "none" /\ events' = "down" /\ Goto(o, "waiting") /\ UNCHANGED <<buffer, report>>
    \/ /\ events # "none" /\ o \in buffer
       /\ buffer' = buffer \ {o} /\ Done(o, "event") /\ UNCHANGED events
    \/ /\ events # "none" /\ o \notin buffer
       /\ Goto(o, "waiting") /\ UNCHANGED <<events, buffer, report>>

\* The orders whose future an answer may resolve: it is looked up by its id.
Addressed(a) == {a.order} \cap futures

\* An answer is read: accepted and filled, accepted and not filled yet, or
\* rejected, which falls back to REST.
Answer(a) ==
    /\ a \in answers /\ answers' = answers \ {a}
    /\ a.socket \in listening
    /\ IF Addressed(a) = {}
       THEN UNCHANGED <<futures, step, events, buffer, answeredBy, report>>
       ELSE \E o \in Addressed(a) :
               /\ futures' = futures \ {o}
               /\ answeredBy' = [answeredBy EXCEPT ![o] = @ \cup {a.order}]
               /\ \/ a.accepted /\ filled[o] /\ Done(o, "answer") /\ UNCHANGED <<events, buffer>>
                  \/ a.accepted /\ AwaitFill(o)
                  \/ ~a.accepted /\ Goto(o, "rest") /\ UNCHANGED <<events, buffer, report>>
    /\ UNCHANGED <<socketState, placed, filled, noticed>>

\* Five seconds without an answer.
NoAnswer(o) ==
    /\ step[o] = "asked" /\ Goto(o, "rest") /\ futures' = futures \ {o}
    /\ UNCHANGED <<socketState, answers, fills, placed, answeredBy, report>>

DispatchEvent_Unbuffered(o) ==
    IF step[o] = "waiting"
    THEN Done(o, "event") /\ UNCHANGED buffer
    ELSE UNCHANGED <<step, buffer, report>>

\* _dispatch_event: to the waiter, or into the buffer.  (An event stays good
\* for five seconds, as long as an answer is waited for.)
DispatchEvent(o) ==
    IF step[o] = "waiting"
    THEN Done(o, "event") /\ UNCHANGED buffer
    ELSE buffer' = buffer \cup {o} /\ UNCHANGED <<step, report>>

\* The exchange fills the order; the event is lost while the stream is down.
Filled(o) ==
    /\ placed[o] > 0 /\ ~filled[o] /\ filled' = [filled EXCEPT ![o] = TRUE]
    /\ IF events = "up"
       THEN /\ DispatchEvent(o)
            /\ noticed' = IF step[o] \in {"asked", "waiting"} THEN noticed \cup {o} ELSE noticed
       ELSE UNCHANGED <<step, buffer, report, noticed>>
    /\ UNCHANGED <<socketState, futures, answers, events, placed, answeredBy>>

\* 300 ms without an event: the order is polled twice.
NoEvent(o) ==
    /\ step[o] = "waiting" /\ Goto(o, "polling")
    /\ UNCHANGED <<socketState, futures, answers, fills, placed, answeredBy, report>>

\* The polls see it filled, or do not, or fail: then the quantity that was
\* ordered is reported as filled.
Polled(o) ==
    /\ step[o] = "polling"
    /\ (filled[o] /\ Done(o, "poll")) \/ Done(o, "assumed")
    /\ UNCHANGED <<socketState, futures, answers, fills, placed, answeredBy>>

\* _rest_place_order: the same order again, under no common id.
Rest(o) ==
    /\ step[o] = "rest"
    /\ \/ Done(o, "rest") /\ placed' = [placed EXCEPT ![o] = @ + 1]
       \/ Done(o, "error") /\ placed' \in {placed, [placed EXCEPT ![o] = @ + 1]}
    /\ UNCHANGED <<socketState, futures, answers, fills, answeredBy>>

\* The user data stream loses its connection, or is connected (again).
StreamMoves ==
    /\ events # "none" /\ events' = IF events = "up" THEN "down" ELSE "up"
    /\ UNCHANGED <<socketState, futures, answers, step, buffer, placed, filled, answeredBy,
                   noticed, report>>

OrderNext ==
    \/ \E o \in Orders :
          \/ Begin(o) \/ Closed(o) \/ Connected(o) \/ NoAnswer(o) \/ Filled(o) \/ NoEvent(o)
          \/ Polled(o) \/ Rest(o)
    \/ \E n \in alive : Drop(n)
    \/ \E a \in answers : Answer(a)
    \/ StreamMoves

OrderSpec == OrderInit /\ [][OrderNext]_orderVars

-----------------------------------------------------------------------------
\* An order reports its own fill: its future is resolved by no other order's
\* answer, whatever sockets are opened, closed and dropped meanwhile, and a fill
\* that was dispatched before its wait was over is the one it reports, however
\* the event and the answer cross.
ReportsOwnFill ==
    \A o \in Orders :
        /\ answeredBy[o] \subseteq {o}
        /\ o \in noticed => report[o] \notin {"poll", "assumed"}
=============================================================================
