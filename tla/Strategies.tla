----------------------------- MODULE Strategies -----------------------------
(***************************************************************************)
(* Live mode with one of the three strategies it runs (src/engine/src/     *)
(* modes/live.py, _route_signal_to_strategies): each has its own record of *)
(* what it holds, and all share the pipeline of LiveMode.                  *)
(*                                                                         *)
(* A behaviour is one of the scenes: a strategy, how many lots of a symbol *)
(* there is room for, and what may go wrong.                               *)
(*                                                                         *)
(*   positions  get_positions() may fail, and then returns []              *)
(*   unlisted   the adapter of an exit's first leg lists no positions      *)
(*   slow       what is on its way may outlast the strategy's patience     *)
(*   crash      the engine may crash and restart                           *)
(*   reenters   signals come for symbols whose exit is on its way          *)
(*   repeats    signals come for symbols that are held already             *)
(*   early      a settlement hour may begin under an entry                 *)
(***************************************************************************)
EXTENDS Integers, FiniteSets

CONSTANTS
    Symbols, Ids, Slots,
    MaxConcurrent,       \* futures_max_concurrent_positions
    MaxPositions,        \* strategy_filters.funding_rate_max_positions
    Scenes

Names == {"futures", "funding", "spot"}
Faults == {"positions", "unlisted", "slow", "crash", "reenters", "repeats", "early"}

ASSUME StrategiesAssumption ==
    /\ IsFiniteSet(Symbols) /\ MaxConcurrent \in Nat
    /\ Scenes \subseteq [strategy : Names, room : [Symbols -> Nat], faults : SUBSET Faults]

VARIABLES scene, strat, req, draining, cooling, deduped, long, short, reported

liveVars == <<strat, req, draining, cooling, deduped, long, short, reported>>
strategiesVars == <<scene, liveVars>>

Futures == INSTANCE FuturesFutures WITH room <- scene.room, faults <- scene.faults
Funding == INSTANCE FundingRate WITH room <- scene.room, faults <- scene.faults
Spot == INSTANCE SpotFutures WITH room <- scene.room, faults <- scene.faults

Runs(name) == scene.strategy = name

StrategiesInit ==
    /\ scene \in Scenes
    /\ \/ Runs("futures") /\ Futures!Init
       \/ Runs("funding") /\ Funding!Init
       \/ Runs("spot") /\ Spot!Init

StrategiesNext ==
    /\ UNCHANGED scene
    /\ \/ Runs("futures") /\ Futures!Next
       \/ Runs("funding") /\ Funding!Next
       \/ Runs("spot") /\ Spot!Next

StrategiesSpec == StrategiesInit /\ [][StrategiesNext]_strategiesVars

-----------------------------------------------------------------------------
\* Nothing that the strategy is known not to cope with may go wrong.
Spared(what) == scene.faults \cap (what \cup {"positions", "unlisted"}) = {}
FuturesCopes == Spared({"slow"}) /\ ("reenters" \in scene.faults => MaxConcurrent = 1)
FundingCopes == Spared({"slow", "early"})
SpotCopes == Spared({"repeats"})

\* A position the exchanges hold is one the strategy knows of, once every
\* request for it has been answered, unless the operator was alerted: what is
\* not tracked is never closed.  Crashes and restarts included.
HeldIsTracked ==
    /\ Runs("futures") /\ FuturesCopes => Futures!HeldIsTracked
    /\ Runs("funding") /\ FundingCopes => Funding!HeldIsTracked
    /\ Runs("spot") /\ SpotCopes => Spot!HeldIsTracked

\* BUG-94 ("Ghost=0"): what futures-futures counts as a confirmed position is
\* held on an exchange, once every request for it has been answered.
TrackedIsHeld == Runs("futures") /\ FuturesCopes => Futures!TrackedIsHeld

\* BUG-72, BUG-94, BUG-116: positions that are held, being opened or being
\* closed never exceed the limit, however they interleave.
WithinLimit == Runs("futures") /\ FuturesCopes => Futures!WithinLimit

\* US-239: "a new entry would stack on top": no entry is on its way for a
\* position that is being settled, however slow its exit is.
NoStacking == Runs("funding") /\ "early" \notin scene.faults => Funding!NoStacking

\* BUG-91 ("skip already-queued"): one close at a time is on its way, whatever
\* goes wrong.
OneClose == Runs("spot") => Spot!OneClose
=============================================================================
