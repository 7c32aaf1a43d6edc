--------------------------- MODULE FuturesFutures ---------------------------
(***************************************************************************)
(* The futures-futures strategy (src/engine/src/strategies/                *)
(* futures_futures.py) in live mode: what it believes to hold, the monitor *)
(* that asks for exits and reaps orphans, the callbacks of live mode, and  *)
(* the synchronisation with the exchanges after a restart.                 *)
(***************************************************************************)
EXTENDS Integers, FiniteSets

CONSTANTS
    Symbols, Ids, Slots,
    MaxConcurrent    \* futures_max_concurrent_positions

VARIABLES strat, req, draining, cooling, deduped, long, short, reported, room, faults

\* open: _open_positions; meta: _pending_position_metadata; exits:
\* _pending_exits; exiting: _exiting_symbols; queue: _pending_exit_requests.
Fresh == [open |-> {}, meta |-> {}, exits |-> {}, exiting |-> {}, queue |-> {}]

\* handle_entry_rollback: the position was never opened.
EntryRollback(st, s) ==
    [st EXCEPT !.meta = @ \ {s}, !.open = @ \ {s}, !.exiting = @ \ {s}]

ExitRollback_Stuck(st, s) ==
    [st EXCEPT !.exits = @ \ {s}, !.open = IF s \in st.exits THEN @ \cup {s} ELSE @]
\* handle_exit_rollback: the position is still there, and is tracked again.
ExitRollback(st, s) ==
    [st EXCEPT !.exiting = @ \ {s}, !.exits = @ \ {s},
               !.open = IF s \in st.exits THEN @ \cup {s} ELSE @]

\* on_execution_success promotes whatever is pending and drops the snapshot of
\* an exit, whichever of the two has succeeded.
Success(st, s, isExit) ==
    [st EXCEPT !.exiting = @ \ {s}, !.meta = @ \ {s}, !.exits = @ \ {s},
               !.open = IF s \in st.meta THEN @ \cup {s} ELSE @]

ClearGhost(st, s) ==
    [st EXCEPT !.meta = @ \ {s}, !.exits = @ \ {s}, !.open = @ \ {s}, !.exiting = @ \ {s}]
ClearPending(st, s) == [st EXCEPT !.meta = @ \ {s}]

Tracks(st, s) == s \in st.open \/ s \in st.queue
\* An exit's first leg sells on the exchange of the long position.
FirstLegHeld(onLong, onShort) == onLong > 0

INSTANCE LiveMode

-----------------------------------------------------------------------------
Init == LiveInit /\ strat = Fresh

Taken == Cardinality(strat.open) + Cardinality(strat.exits) + Cardinality(strat.meta)
Accepts_Open(s) == Cardinality(strat.open) < MaxConcurrent /\ s \notin strat.open
\* on_signal: the limit, then the symbol; an exit in flight counts for the
\* limit only.
Accepts(s) == Taken < MaxConcurrent /\ s \notin strat.open \cup strat.meta

OnSignal_Optimistic(s) ==
    room[s] > 0 /\ Accepts(s) /\ Signal("entry", s, [strat EXCEPT !.meta = @ \cup {s}, !.open = @ \cup {s}])
OnSignal(s) ==
    /\ room[s] > 0 /\ Accepts(s) /\ ("reenters" \in faults \/ s \notin strat.exits)
    /\ Signal("entry", s, [strat EXCEPT !.meta = @ \cup {s}])

\* What the monitor may find too old, 60 s after it was asked for: a request
\* that still waits for a slot or an answer only if it is slow.
Orphans(pending) ==
    {s \in pending \ (strat.queue \cup draining) :
         \A r \in Alive : req[r].sym = s => "slow" \in faults /\ req[r].pc # "new"}

\* Every 60 s: reap, then ask for the exit of what is due.  The collision
\* window of the last exit has passed by then.
Monitor(reapedMeta, reapedExits, due) ==
    /\ reapedMeta \subseteq Orphans(strat.meta)
    /\ reapedExits \subseteq Orphans(strat.exits)
    /\ due \subseteq strat.open \ (strat.exiting \ reapedExits)
    /\ \A s \in due : <<"exit", s>> \notin deduped
    /\ strat' = [open    |-> strat.open \ due,
                 meta    |-> strat.meta \ reapedMeta,
                 exits   |-> (strat.exits \ reapedExits) \cup due,
                 exiting |-> (strat.exiting \ reapedExits) \cup due,
                 queue   |-> strat.queue \cup due]
    /\ UNCHANGED <<req, draining, cooling, deduped, long, short, reported>>

PopExits == Drain([strat EXCEPT !.queue = {}])

\* _reconcile_positions_on_startup: pairs are injected, one-sided ones skipped.
Injected == {s \in Symbols : long[s] > 0 /\ short[s] > 0}

\* A crash loses what was in memory; the orders on their way are filled or not,
\* as Execute says, before the engine is up again.
Restart ==
    /\ "crash" \in faults /\ At("executing") = {} /\ strat # Fresh
    /\ strat' \in {[Fresh EXCEPT !.open = Injected]}
                    \cup (IF "positions" \in faults THEN {Fresh} ELSE {})
    /\ req' = [r \in Ids |-> None] /\ draining' = {} /\ cooling' = {} /\ deduped' = {}
    /\ UNCHANGED <<long, short, reported>>

Next ==
    \/ \E s \in Symbols : OnSignal(s)
    \/ \E m, x, d \in SUBSET Symbols : Monitor(m, x, d)
    \/ PopExits \/ LiveNext \/ Restart

-----------------------------------------------------------------------------
\* BUG-94 ("Ghost=0"): what the strategy counts as a confirmed position is held
\* on an exchange, once every request for it has been answered, unless the
\* operator was alerted.
TrackedIsHeld ==
    \A s \in strat.open \ reported : Idle(s) => long[s] > 0 \/ short[s] > 0

\* BUG-72, BUG-94, BUG-116: positions that are held, being opened or being
\* closed never exceed the limit, however they interleave.  An entry whose answer
\* was handled counts for what it has opened.
WithinLimit ==
    Cardinality({s \in Symbols : s \notin reported /\
                     (Hedged(s) \/ \E r \in Alive : req[r].sym = s /\ IsEntry(r)
                                                    /\ req[r].pc \notin {"new", "post"})})
        <= MaxConcurrent
=============================================================================
