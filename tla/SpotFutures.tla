----------------------------- MODULE SpotFutures -----------------------------
(***************************************************************************)
(* The spot-futures strategy (src/engine/src/strategies/spot_futures.py)   *)
(* in live mode, with enable_holding_timeout: a position counts as open    *)
(* when it is asked for, and its exit is asked for by the first signal     *)
(* after max_holding_hours.                                                *)
(***************************************************************************)
EXTENDS Integers, FiniteSets

CONSTANTS Symbols, Ids, Slots

VARIABLES strat, req, draining, cooling, deduped, long, short, reported, room, faults

\* open: _open_positions; closing: _pending_close_symbols; queue:
\* _pending_timeout_requests.
Fresh == [open |-> {}, closing |-> {}, queue |-> {}]

EntryRollback(st, s) == [st EXCEPT !.open = @ \ {s}]
ExitRollback_Forget(st, s) == [st EXCEPT !.closing = @ \ {s}, !.open = @ \ {s}]
ExitRollback(st, s) == [st EXCEPT !.closing = @ \ {s}]
Closed(st, s) == [st EXCEPT !.closing = @ \ {s}, !.open = @ \ {s}]
Success(st, s, isExit) == IF isExit \/ s \in st.closing THEN Closed(st, s) ELSE st
ClearGhost(st, s) == Closed(st, s)
ClearPending(st, s) == st

Tracks(st, s) == s \in st.open
\* An exit's first leg is the spot leg.
FirstLegHeld(onLong, onShort) == onLong > 0

INSTANCE LiveMode

-----------------------------------------------------------------------------
Init == LiveInit /\ strat = Fresh

\* Positions older than max_holding_hours whose close is not queued yet; the
\* collision window of the last close has passed by then.
Expirable_Requeued == {s \in strat.open : s \notin strat.queue}
Expirable == {s \in strat.open \ strat.closing : Idle(s) /\ <<"exit", s>> \notin deduped}
Expired(due) == [strat EXCEPT !.closing = @ \cup due, !.queue = @ \cup due]

\* on_signal without an entry: the expired positions are queued all the same.
Queue(due) ==
    /\ due # {} /\ strat' = Expired(due)
    /\ UNCHANGED <<req, draining, cooling, deduped, long, short, reported>>

\* Nothing looks whether the symbol is held already.
OnSignal(s, due) ==
    /\ room[s] > 0
    /\ "repeats" \in faults \/ (s \notin strat.open /\ Idle(s))
    /\ Signal("entry", s, [Expired(due) EXCEPT !.open = @ \cup {s}])

PopExits == Drain([strat EXCEPT !.queue = {}])

Next ==
    \/ \E due \in SUBSET Expirable : Queue(due) \/ \E s \in Symbols : OnSignal(s, due)
    \/ PopExits \/ LiveNext

-----------------------------------------------------------------------------
\* BUG-91 ("skip already-queued"): one close at a time is on its way.
OneClose ==
    \A s \in Symbols :
        Cardinality({r \in Alive : req[r].sym = s /\ ~IsEntry(r) /\ req[r].pc # "post"})
            + Cardinality({s} \cap draining) + Cardinality({s} \cap strat.queue) <= 1
=============================================================================
