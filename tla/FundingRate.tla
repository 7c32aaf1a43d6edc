----------------------------- MODULE FundingRate -----------------------------
(***************************************************************************)
(* The funding-rate strategy (src/engine/src/strategies/funding_rate.py)   *)
(* in live mode: it enters before a settlement hour, counts the position   *)
(* as open at once, and asks for the exit of all of them when the hour     *)
(* begins.                                                                 *)
(***************************************************************************)
EXTENDS Integers, FiniteSets

CONSTANTS
    Symbols, Ids, Slots,
    MaxPositions     \* strategy_filters.funding_rate_max_positions

VARIABLES strat, req, draining, cooling, deduped, long, short, reported, room, faults

\* open: _open_positions; settling: _pending_settlement_positions; queue:
\* _pending_exit_requests; routed: _settlement_routed_at > 0; blocked: the
\* settlement cooldown; hour: a settlement hour not yet seen.
Fresh == [open |-> {}, settling |-> {}, queue |-> {},
          routed |-> FALSE, blocked |-> FALSE, hour |-> FALSE]

EntryRollback(st, s) == [st EXCEPT !.open = @ \ {s}]

\* handle_exit_rollback: restored, so that the next hour asks for it again.
ExitRollback(st, s) ==
    IF s \notin st.settling THEN st
    ELSE [st EXCEPT !.settling = @ \ {s}, !.open = @ \cup {s}, !.routed = FALSE]

Success(st, s, isExit) == IF isExit THEN [st EXCEPT !.settling = @ \ {s}] ELSE st
ClearGhost(st, s) == [st EXCEPT !.open = @ \ {s}, !.settling = @ \ {s}]
ClearPending(st, s) == st

Tracks(st, s) == s \in st.open \/ s \in st.queue
\* An exit's first leg buys on the exchange of the short position.
FirstLegHeld(onLong, onShort) == onShort > 0

INSTANCE LiveMode

-----------------------------------------------------------------------------
Init == LiveInit /\ strat = Fresh

\* _check_settlement_release
Released ==
    IF ~strat.hour \/ strat.open = {} THEN [strat EXCEPT !.hour = FALSE]
    ELSE [strat EXCEPT !.hour = FALSE, !.open = {}, !.blocked = TRUE,
                       !.queue = @ \cup strat.open, !.settling = @ \cup strat.open]

Accepts_Stacked(s) == ~Released.blocked /\ Cardinality(Released.open) < MaxPositions
                          /\ s \notin Released.open
\* What is open or settling is not entered again.
Accepts(s) ==
    /\ Released.queue = {} /\ ~Released.blocked
    /\ Cardinality(Released.open) < MaxPositions
    /\ s \notin Released.open \cup Released.settling

\* on_signal: an exit that is due goes first; it takes the place of the entry.
SignalExit(s) ==
    /\ s \in Released.queue
    /\ Signal("exit", s, [Released EXCEPT !.queue = @ \ {s}, !.routed = TRUE])

OnSignal(s) ==
    /\ room[s] > 0 /\ Accepts(s)
    /\ Signal("entry", s, [Released EXCEPT !.open = @ \cup {s}])

Filter ==
    /\ strat # Released /\ Released.queue = {} /\ strat' = Released
    /\ UNCHANGED <<req, draining, cooling, deduped, long, short, reported>>

\* Eight hours after the last; entries are on their way only if it is early.
HourBegins ==
    /\ ~strat.hour /\ strat.queue = {} /\ draining = {} /\ deduped = {}
    /\ "early" \in faults \/ \A r \in Alive : ~IsEntry(r)
    /\ \A r \in Alive : IsEntry(r)
    /\ strat' = [strat EXCEPT !.hour = TRUE]
    /\ UNCHANGED <<req, draining, cooling, deduped, long, short, reported>>

\* 120 s after the release; exits are still on their way only if they are slow.
CooldownEnds ==
    /\ strat.blocked /\ strat.queue = {} /\ draining = {}
    /\ "slow" \in faults \/ \A r \in Alive : IsEntry(r)
    /\ strat' = [strat EXCEPT !.blocked = FALSE]
    /\ UNCHANGED <<req, draining, cooling, deduped, long, short, reported>>

\* pop_exit_requests: what was not answered after 120 s counts as closed.
TimedOut ==
    /\ strat.queue = {} /\ strat.settling # {} /\ strat.routed
    /\ "slow" \in faults \/ (draining = {} /\ \A r \in Alive : IsEntry(r))
PopExits ==
    \/ /\ strat.queue # {}
       /\ Drain([strat EXCEPT !.queue = {}, !.routed = TRUE])
    \/ TimedOut /\ Drain([strat EXCEPT !.settling = {}, !.routed = FALSE])

Next ==
    \/ \E s \in Symbols : OnSignal(s) \/ SignalExit(s)
    \/ Filter \/ HourBegins \/ CooldownEnds \/ PopExits \/ LiveNext

-----------------------------------------------------------------------------
\* US-239: "a new entry would stack on top": no entry is on its way for a
\* position that is being settled.
NoStacking ==
    \A r \in Alive : IsEntry(r) => req[r].sym \notin strat.settling
=============================================================================
