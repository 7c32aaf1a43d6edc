----------------------------- MODULE KillSwitch ----------------------------
(***************************************************************************)
(* The emergency stop (src/engine/src/risk/kill_switch.py): the in-process *)
(* halt flag, KillSwitch with its three tiers, the Redis HALT key and the  *)
(* loop that polls it (runtime/background_loops.py), everyone who clears   *)
(* the flag, and, on each exchange, one trader that reads the flag before  *)
(* it sends an order.                                                      *)
(***************************************************************************)
EXTENDS Integers, FiniteSets

CONSTANTS
    Triggers,    \* calls of KillSwitch.trigger(), each a task of its own
    Exchanges,   \* KillSwitch._exchanges, with tier 3 enabled
    MaxClears    \* bound on clear_halt() and reset() together

ASSUME KillSwitchAssumption ==
    IsFiniteSet(Triggers) /\ IsFiniteSet(Exchanges) /\ MaxClears \in Nat

VARIABLES
    halted,     \* _HALT_FLAG
    redisHalt,  \* "leviathan:halt" is present in Redis
    triggered,  \* KillSwitch._triggered
    call,       \* call[t]: where trigger call t is
    left,       \* left[t]: exchanges whose answer the current tier awaits
    watching,   \* redis_halt_watch_loop is running
    trader,     \* trader[x]: "idle", or "checked" the flag and about to send
    resting,    \* resting[x]: an order of the trader rests on exchange x
    position,   \* position[x]: the exchange holds a position
    clears,     \* clear_halt() and reset() calls so far
    resets,     \* of these, the calls of reset()
    \* history
    cleared,    \* the flag was cleared since tier 1 last set it
    stragglers, \* stragglers[x]: orders sent to x while halted
    cancelledBy, \* exchanges call t cancelled in tier 2, no order sent since
    closedBy     \* exchanges call t closed in tier 3, no order sent since

exchangeVars == <<trader, resting, position, stragglers>>
tierHistory == <<cancelledBy, closedBy>>
vars == <<halted, redisHalt, triggered, call, left, watching, clears, resets,
          cleared, tierHistory, exchangeVars>>

Phases == {"idle", "spawned", "redis", "tier2", "tier3", "done", "refused"}
Running(t) == call[t] \in {"redis", "tier2", "tier3"}

Init ==
    /\ halted = FALSE /\ redisHalt = FALSE /\ triggered = FALSE
    /\ call = [t \in Triggers |-> "idle"]
    /\ left = [t \in Triggers |-> {}]
    /\ watching = TRUE
    /\ trader = [x \in Exchanges |-> "idle"]
    /\ resting = [x \in Exchanges |-> FALSE]
    /\ position = [x \in Exchanges |-> FALSE]
    /\ clears = 0 /\ resets = 0
    /\ cleared = FALSE
    /\ stragglers = [x \in Exchanges |-> 0]
    /\ cancelledBy = [t \in Triggers |-> {}]
    /\ closedBy = [t \in Triggers |-> {}]

SetHalt_Missing == UNCHANGED <<halted, stragglers>>

\* The flag goes up; it starts a new count of the orders sent despite it.
SetHalt ==
    /\ halted' = TRUE
    /\ stragglers' = IF halted THEN stragglers ELSE [x \in Exchanges |-> 0]

-----------------------------------------------------------------------------
(* KillSwitch.trigger                                                      *)

AlreadyTriggered_Ignored == FALSE
AlreadyTriggered == triggered

\* The test of _triggered under the lock, and halt_local(): no suspension
\* between them.  A second call is turned away and leaves the flag alone.
Trigger(t) ==
    /\ call[t] \in {"idle", "spawned"}
    /\ IF AlreadyTriggered
       THEN /\ call' = [call EXCEPT ![t] = "refused"]
            /\ UNCHANGED <<halted, triggered, cleared, stragglers>>
       ELSE /\ triggered' = TRUE
            /\ SetHalt
            /\ cleared' = FALSE
            /\ call' = [call EXCEPT ![t] = "redis"]
    /\ UNCHANGED <<redisHalt, left, watching, trader, resting, position,
                   clears, resets, tierHistory>>

NextPhase_CloseFirst == [redis |-> "tier3", tier3 |-> "tier2", tier2 |-> "done"]
\* The tiers in order; each ends when every exchange has answered.
NextPhase == [redis |-> "tier2", tier2 |-> "tier3", tier3 |-> "done"]

EnterNextPhase(t) ==
    /\ call' = [call EXCEPT ![t] = NextPhase[@]]
    /\ left' = [left EXCEPT ![t] = Exchanges]

Tier1Redis_Raises(t) ==
    /\ call[t] = "redis"
    /\ \/ redisHalt' = TRUE /\ EnterNextPhase(t)
       \/ call' = [call EXCEPT ![t] = "raised"] /\ UNCHANGED <<redisHalt, left>>
    /\ UNCHANGED <<halted, triggered, watching, clears, resets, cleared,
                   tierHistory, exchangeVars>>

\* The Redis HALT key is set, or the write fails, which is not fatal.
Tier1Redis(t) ==
    /\ call[t] = "redis"
    /\ redisHalt' \in {redisHalt, TRUE}
    /\ EnterNextPhase(t)
    /\ UNCHANGED <<halted, triggered, watching, clears, resets, cleared,
                   tierHistory, exchangeVars>>

\* cancel_exchange on one exchange: everything resting is cancelled, or the
\* call fails (its retry included) and nothing is.
Tier2Cancel(t, x) ==
    /\ call[t] = "tier2" /\ x \in left[t]
    /\ left' = [left EXCEPT ![t] = @ \ {x}]
    /\ \/ /\ resting' = [resting EXCEPT ![x] = FALSE]
          /\ cancelledBy' = [cancelledBy EXCEPT ![t] = @ \cup {x}]
       \/ UNCHANGED <<resting, cancelledBy>>
    /\ UNCHANGED <<halted, redisHalt, triggered, call, watching, trader, position,
                   clears, resets, cleared, stragglers, closedBy>>

\* close_exchange on one exchange: the position is closed at market, or not.
Tier3Close(t, x) ==
    /\ call[t] = "tier3" /\ x \in left[t]
    /\ left' = [left EXCEPT ![t] = @ \ {x}]
    /\ \/ /\ position' = [position EXCEPT ![x] = FALSE]
          /\ closedBy' = [closedBy EXCEPT ![t] = @ \cup {x}]
       \/ UNCHANGED <<position, closedBy>>
    /\ UNCHANGED <<halted, redisHalt, triggered, call, watching, trader, resting,
                   clears, resets, cleared, stragglers, cancelledBy>>

TierDone(t) ==
    /\ call[t] \in {"tier2", "tier3"} /\ left[t] = {}
    /\ EnterNextPhase(t)
    /\ UNCHANGED <<halted, redisHalt, triggered, watching, clears, resets, cleared,
                   tierHistory, exchangeVars>>

\* reset(): the lock it takes is not held by tiers 2 and 3.
Reset ==
    /\ clears < MaxClears
    /\ halted' = FALSE /\ triggered' = FALSE /\ cleared' = TRUE
    /\ clears' = clears + 1 /\ resets' = resets + 1
    /\ UNCHANGED <<redisHalt, call, left, watching, tierHistory, exchangeVars>>

-----------------------------------------------------------------------------
(* Everyone else who sets or clears the flag.                              *)

\* clear_halt() by /resume, RecoveryManager, the live gate's self-test or the
\* paper loop.  None of them looks at Redis.
ClearHalt ==
    /\ clears < MaxClears
    /\ halted' = FALSE /\ cleared' = TRUE
    /\ clears' = clears + 1
    /\ UNCHANGED <<redisHalt, triggered, call, left, watching, resets, tierHistory,
                   exchangeVars>>

\* halt_local() by the API, the guardian, a reconciler or the executor.
HaltLocal ==
    /\ ~halted /\ SetHalt
    /\ UNCHANGED <<redisHalt, triggered, call, left, watching, trader, resting,
                   position, clears, resets, cleared, tierHistory>>

\* The InfraBot process sets the key; after 24 h Redis drops it.
RemoteHalt ==
    /\ redisHalt' \in BOOLEAN \ {redisHalt}
    /\ UNCHANGED <<halted, triggered, call, left, watching, clears, resets, cleared,
                   tierHistory, exchangeVars>>

WatchLoop_OncePerTrigger ==
    /\ watching /\ redisHalt /\ ~halted /\ ~triggered
    /\ SetHalt
    /\ watching' = FALSE
    /\ \/ \E t \in Triggers : call[t] = "idle" /\ call' = [call EXCEPT ![t] = "spawned"]
       \/ /\ \A t \in Triggers : call[t] # "idle"    \* bound: calls used up
          /\ UNCHANGED call
    /\ UNCHANGED <<redisHalt, triggered, left, trader, resting, position, clears,
                   resets, cleared, tierHistory>>

\* redis_halt_watch_loop finds the key and no halt: it halts, spawns a trigger
\* call and stops the engine's loops, itself included.
WatchLoop ==
    /\ watching /\ redisHalt /\ ~halted
    /\ SetHalt
    /\ watching' = FALSE
    /\ \/ \E t \in Triggers : call[t] = "idle" /\ call' = [call EXCEPT ![t] = "spawned"]
       \/ /\ \A t \in Triggers : call[t] # "idle"    \* bound: calls used up
          /\ UNCHANGED call
    /\ UNCHANGED <<redisHalt, triggered, left, trader, resting, position, clears,
                   resets, cleared, tierHistory>>

-----------------------------------------------------------------------------
(* Traders and exchanges.                                                  *)

TraderCheck_NoFlag(x) ==
    /\ trader[x] = "idle"
    /\ trader' = [trader EXCEPT ![x] = "checked"]
    /\ UNCHANGED <<halted, redisHalt, triggered, call, left, watching, resting,
                   position, clears, resets, cleared, stragglers, tierHistory>>

\* _check_halt() right before the exchange I/O; the order leaves later.
TraderCheck(x) ==
    /\ trader[x] = "idle" /\ ~halted
    /\ trader' = [trader EXCEPT ![x] = "checked"]
    /\ UNCHANGED <<halted, redisHalt, triggered, call, left, watching, resting,
                   position, clears, resets, cleared, stragglers, tierHistory>>

\* The order reaches the exchange and rests, or is filled at once.
TraderSend(x) ==
    /\ trader[x] = "checked"
    /\ trader' = [trader EXCEPT ![x] = "idle"]
    /\ \/ resting' = [resting EXCEPT ![x] = TRUE] /\ UNCHANGED position
       \/ position' = [position EXCEPT ![x] = TRUE] /\ UNCHANGED resting
    /\ stragglers' = IF halted THEN [stragglers EXCEPT ![x] = @ + 1] ELSE stragglers
    /\ cancelledBy' = [t \in Triggers |-> cancelledBy[t] \ {x}]
    /\ closedBy' = [t \in Triggers |-> closedBy[t] \ {x}]
    /\ UNCHANGED <<halted, redisHalt, triggered, call, left, watching, clears,
                   resets, cleared>>

Fill(x) ==
    /\ resting[x]
    /\ resting' = [resting EXCEPT ![x] = FALSE]
    /\ position' = [position EXCEPT ![x] = TRUE]
    /\ UNCHANGED <<halted, redisHalt, triggered, call, left, watching, trader, clears,
                   resets, cleared, stragglers, tierHistory>>

-----------------------------------------------------------------------------
Advance(t) ==
    \/ call[t] = "spawned" /\ Trigger(t)
    \/ Tier1Redis(t) \/ TierDone(t)
    \/ \E x \in Exchanges : Tier2Cancel(t, x) \/ Tier3Close(t, x)

Next ==
    \/ \E t \in Triggers : Trigger(t) \/ Advance(t)
    \/ Reset \/ ClearHalt \/ HaltLocal \/ RemoteHalt \/ WatchLoop
    \/ \E x \in Exchanges : TraderCheck(x) \/ TraderSend(x) \/ Fill(x)

\* A spawned task runs, every tier call has a timeout, the loop polls every 5 s.
Spec ==
    /\ Init /\ [][Next]_vars
    /\ \A t \in Triggers : WF_vars(Advance(t))
    /\ WF_vars(WatchLoop)

-----------------------------------------------------------------------------
\* Every variable has its type.
TypeOK ==
    /\ halted \in BOOLEAN /\ redisHalt \in BOOLEAN /\ triggered \in BOOLEAN
    /\ call \in [Triggers -> Phases]
    /\ left \in [Triggers -> SUBSET Exchanges]
    /\ watching \in BOOLEAN /\ cleared \in BOOLEAN
    /\ trader \in [Exchanges -> {"idle", "checked"}]
    /\ resting \in [Exchanges -> BOOLEAN] /\ position \in [Exchanges -> BOOLEAN]
    /\ clears \in 0..MaxClears /\ resets \in 0..clears
    /\ stragglers \in [Exchanges -> Nat]
    /\ cancelledBy \in [Triggers -> SUBSET Exchanges]
    /\ closedBy \in [Triggers -> SUBSET Exchanges]

\* Once the kill switch has been triggered the engine stays halted until
\* somebody clears the flag, whatever tiers 2 and 3 do.
TriggeredStaysHalted == triggered /\ ~cleared => halted

\* After the flag goes up each trader gets at most one more order out: the one
\* it had already checked.  (kill_switch.py says none.)
OneStraggler == \A x \in Exchanges : stragglers[x] <= 1

\* Without a reset one call only walks the tiers: concurrent triggers never
\* cancel and close twice.
OneWalkPerReset ==
    Cardinality({t \in Triggers : Running(t) \/ call[t] = "done"}) <= 1 + resets

\* An exchange on which one call's tiers both succeeded, with no order sent
\* there since the first of them, holds neither an order nor a position:
\* nothing that rested before the call is filled behind its close.
CancelledAndClosedIsFlat ==
    \A t \in Triggers : \A x \in cancelledBy[t] \cap closedBy[t] :
        ~resting[x] /\ ~position[x]

\* clear_halt: "Both in-process flag AND Redis HALT key must agree before
\* resuming" -- the flag never comes down while the Redis key is up.
ResumeNeedsBoth == [][halted /\ ~halted' => ~redisHalt]_vars

\* A HALT key in Redis halts a running engine, whoever cleared the flag.
RedisHaltTakesHold == redisHalt /\ watching ~> halted \/ ~redisHalt

\* Every trigger call the watch loop spawns or that begins its tiers returns.
TriggerReturns ==
    \A t \in Triggers :
        call[t] = "spawned" \/ Running(t) ~> call[t] \in {"done", "refused"}
=============================================================================
