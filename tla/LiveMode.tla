------------------------------ MODULE LiveMode ------------------------------
(***************************************************************************)
(* A strategy's requests on their way through live mode (src/engine/src/   *)
(* modes/live.py, execution/pre_trade_validator.py): the gates, the        *)
(* semaphore, the executor's answer and what the strategy is told of it,   *)
(* and the loop that drains the strategy's exits.  The strategy is a       *)
(* parameter: the callbacks below map its state, strat, and a symbol to    *)
(* its next state.                                                         *)
(*                                                                         *)
(*   new -> queued -> executing -> answered -> post -> none                *)
(***************************************************************************)
EXTENDS Integers, FiniteSets, FiniteSetsExt

CONSTANTS
    Symbols,
    Ids,                 \* bound: requests alive at once
    Slots,               \* execution.max_concurrent_trades
    EntryRollback(_, _), ExitRollback(_, _), ClearGhost(_, _), ClearPending(_, _),
    Success(_, _, _),    \* on_execution_success, then handle_{entry,exit}_success
    Tracks(_, _),        \* the strategy knows that it holds the symbol
    FirstLegHeld(_, _)   \* from the lots of both legs: the exchange of an exit's
                         \* first leg reports a position

VARIABLES
    strat,               \* the strategy; strat.queue is its exit requests
    req,                 \* the live requests
    draining,            \* popped exits that the loop has yet to check
    cooling,             \* symbols traded within symbol_cooldown_s
    deduped,             \* keys <<kind, symbol>> within the collision window
    long, short,         \* lots each exchange really holds
    reported,            \* history: symbols with a ROLLBACK_FAILED, alerted
    room,                \* fixed: lots of each symbol the executor has margin
                         \* for; signals come for those that have any
    faults               \* fixed: what may go wrong (module Strategies)

exchange == <<long, short, reported>>

Answers == {"SUCCESS", "ROLLED_BACK", "REJECTED", "ROLLBACK_FAILED", "raised"}
None == [pc |-> "none"]
Request(kind, s) == [pc |-> "new", kind |-> kind, sym |-> s]

Alive == {r \in Ids : req[r].pc # "none"}
At(pc) == {r \in Alive : req[r].pc = pc}
IsEntry(r) == req[r].kind = "entry"

LiveInit ==
    /\ req = [r \in Ids |-> None] /\ draining = {} /\ cooling = {} /\ deduped = {}
    /\ long = [s \in Symbols |-> 0] /\ short = long /\ reported = {}

-----------------------------------------------------------------------------
\* A request enters the pipeline.
Spawn(kind, s) ==
    /\ Alive # Ids
    /\ req' = [req EXCEPT ![CHOOSE r \in Ids \ Alive : TRUE] = Request(kind, s)]

\* A signal the strategy answers with a request and the state it moves to.
Signal(kind, s, after) ==
    /\ Spawn(kind, s) /\ strat' = after
    /\ UNCHANGED <<draining, cooling, deduped, exchange>>

\* The loop pops the exits, every ten seconds.
Drain(after) ==
    /\ draining = {} /\ draining' = strat.queue /\ strat' = after
    /\ UNCHANGED <<req, cooling, deduped, exchange>>

\* What get_positions() shows of the first leg.
Listed(s) == "unlisted" \notin faults /\ FirstLegHeld(long[s], short[s])

\* A popped exit is sent if its first leg's exchange reports a position.
SendExit(s) ==
    /\ s \in draining /\ draining' = draining \ {s}
    /\ Listed(s)
    /\ Spawn("exit", s)
    /\ UNCHANGED <<strat, cooling, deduped, exchange>>

\* A failed call looks like an empty account.
Unseen(s) == "positions" \in faults \/ ~Listed(s)

DropGhost(s) ==
    /\ s \in draining /\ draining' = draining \ {s}
    /\ Unseen(s)
    /\ strat' = ClearGhost(strat, s)
    /\ UNCHANGED <<req, cooling, deduped, exchange>>

-----------------------------------------------------------------------------
\* _notify_pre_exec_rollback: the request never reached the exchange.
Notify(r) ==
    IF IsEntry(r) THEN EntryRollback(strat, req[r].sym) ELSE ExitRollback(strat, req[r].sym)

End(r) == req' = [req EXCEPT ![r] = None]
Key(r) == <<req[r].kind, req[r].sym>>

\* A gate that looks at the state of the engine: halt, circuit breaker, rate
\* limit, flash guard, session loss, guardian; for entries also the filter
\* and the cooldown of the strategy.
GateRefuses(r) ==
    /\ r \in At("new") /\ End(r) /\ strat' = Notify(r)
    /\ UNCHANGED <<draining, cooling, deduped, exchange>>

CoolingRefuses(r) ==
    /\ r \in At("new") /\ IsEntry(r) /\ req[r].sym \in cooling
    /\ End(r) /\ strat' = Notify(r)
    /\ UNCHANGED <<draining, cooling, deduped, exchange>>

\* Entries pass the symbol cooldown, which stamps the symbol whatever the next
\* gates say.
Stamped(r) == IF IsEntry(r) THEN cooling \cup {req[r].sym} ELSE cooling
PastCooldown(r) ==
    /\ r \in At("new") /\ (IsEntry(r) => req[r].sym \notin cooling)
    /\ cooling' = Stamped(r)

\* Short of margin: the strategy is not told of a rollback.
MarginRefuses(r) ==
    /\ PastCooldown(r) /\ IsEntry(r) /\ End(r)
    /\ strat' = ClearPending(strat, req[r].sym)
    /\ UNCHANGED <<draining, deduped, exchange>>

\* A duplicate: an exit's strategy is not told of it.
DedupRefuses(r) ==
    /\ PastCooldown(r) /\ Key(r) \in deduped /\ End(r)
    /\ strat' = IF IsEntry(r) THEN Notify(r) ELSE strat
    /\ UNCHANGED <<draining, deduped, exchange>>

\* Too small, and the bump is over the risk cap; exits carry no price.
NotionalRefuses(r) ==
    /\ PastCooldown(r) /\ IsEntry(r) /\ Key(r) \notin deduped
    /\ deduped' = deduped \cup {Key(r)} /\ End(r) /\ strat' = Notify(r)
    /\ UNCHANGED <<draining, exchange>>

Admit(r) ==
    /\ PastCooldown(r) /\ Key(r) \notin deduped
    /\ deduped' = deduped \cup {Key(r)}
    /\ req' = [req EXCEPT ![r].pc = "queued"]
    /\ UNCHANGED <<strat, draining, exchange>>

Expire ==
    \/ \E s \in cooling : cooling' = cooling \ {s}
           /\ UNCHANGED <<strat, req, draining, deduped, exchange>>
    \/ \E k \in deduped : deduped' = deduped \ {k}
           /\ UNCHANGED <<strat, req, draining, cooling, exchange>>

-----------------------------------------------------------------------------
HasSlot == Cardinality(At("executing") \cup At("answered") \cup At("post")) < Slots

Start(r) ==
    /\ r \in At("queued") /\ HasSlot /\ req' = [req EXCEPT ![r].pc = "executing"]
    /\ UNCHANGED <<strat, draining, cooling, deduped, exchange>>

\* The book is too thin for an entry.
ImpactRefuses(r) ==
    /\ r \in At("queued") /\ HasSlot /\ IsEntry(r) /\ End(r) /\ strat' = Notify(r)
    /\ UNCHANGED <<draining, cooling, deduped, exchange>>

\* The legs an answer says were filled.
Filled(a) ==
    CASE a = "SUCCESS" -> {{"long", "short"}}
      [] a = "ROLLBACK_FAILED" -> {{"long"}, {"short"}}
      [] OTHER -> {{}}

\* An exit is reduceOnly: with nothing to close it is a ghost and succeeds.
After(r, legs, leg, lots) ==
    IF leg \notin legs THEN lots
    ELSE [lots EXCEPT ![req[r].sym] =
              IF IsEntry(r) THEN @ + 1 ELSE IF @ > 0 THEN @ - 1 ELSE 0]

\* The executor places, unwinds and answers.
Execute(r, a) ==
    \E legs \in Filled(a) :
        /\ r \in At("executing")
        /\ IsEntry(r) /\ legs # {} =>
               long[req[r].sym] < room[req[r].sym] /\ short[req[r].sym] < room[req[r].sym]
        /\ long' = After(r, legs, "long", long) /\ short' = After(r, legs, "short", short)
        /\ req' = [req EXCEPT ![r] = [pc |-> "answered", kind |-> @.kind,
                                      sym |-> @.sym, ans |-> a]]
        /\ UNCHANGED <<strat, draining, cooling, deduped, reported>>

\* The strategy is told; a stranded entry is left as it is, so that it blocks.
Told(r) ==
    CASE req[r].ans = "SUCCESS" -> Success(strat, req[r].sym, ~IsEntry(r))
      [] req[r].ans = "ROLLBACK_FAILED" /\ IsEntry(r) -> strat
      [] OTHER -> Notify(r)

Handle(r) ==
    /\ r \in At("answered")
    /\ strat' = Told(r)
    /\ IF req[r].ans = "SUCCESS" THEN req' = [req EXCEPT ![r].pc = "post"] ELSE End(r)
    /\ cooling' = IF req[r].ans \in {"ROLLED_BACK", "ROLLBACK_FAILED"}
                  THEN cooling \cup {req[r].sym} ELSE cooling
    /\ reported' = IF req[r].ans = "ROLLBACK_FAILED"
                   THEN reported \cup {req[r].sym} ELSE reported
    /\ UNCHANGED <<draining, deduped, long, short>>

\* The result is booked and published; then the slot is released.
Post(r) ==
    /\ r \in At("post") /\ End(r)
    /\ UNCHANGED <<strat, draining, cooling, deduped, exchange>>

Settle(r) == Start(r) \/ Handle(r) \/ Post(r)
Refuse(r) == GateRefuses(r) \/ CoolingRefuses(r) \/ MarginRefuses(r)
                 \/ DedupRefuses(r) \/ NotionalRefuses(r) \/ ImpactRefuses(r)

LiveNext ==
    \/ \E s \in Symbols : SendExit(s) \/ DropGhost(s)
    \/ \E r \in Ids : Refuse(r) \/ Admit(r) \/ Settle(r)
    \/ \E r \in Ids, a \in Answers : Execute(r, a)
    \/ Expire

-----------------------------------------------------------------------------
\* Nothing is on its way for the symbol.
Idle(s) == s \notin draining /\ \A r \in Alive : req[r].sym # s
Hedged(s) == long[s] > 0 /\ short[s] > 0

\* A position the exchanges hold is one the strategy knows of, once every
\* request for it has been answered, unless the operator was alerted: what is
\* not tracked is never closed.
HeldIsTracked ==
    \A s \in Symbols : Idle(s) /\ Hedged(s) /\ s \notin reported => Tracks(strat, s)

=============================================================================
