-------------------------- MODULE KillSwitch_proofs ------------------------
(***************************************************************************)
(* The emergency stop, for any number of trigger calls, exchanges and      *)
(* resets: types, the flag, the orders that still leave, the walks through *)
(* the tiers, and what is left of an exchange that was cancelled and       *)
(* closed.                                                                 *)
(***************************************************************************)
EXTENDS KillSwitch, FiniteSetTheorems, TLAPS

\* The flag goes up; a new count starts unless it was up.
LEMMA SetHaltType ==
  ASSUME TypeOK, SetHalt
  PROVE  halted' = TRUE /\ stragglers' \in [Exchanges -> Nat]
BY DEF TypeOK, SetHalt

\* The tiers follow each other and end.
LEMMA NextPhaseType ==
  /\ NextPhase["redis"] = "tier2" /\ NextPhase["tier2"] = "tier3"
  /\ NextPhase["tier3"] = "done"
BY DEF NextPhase

\* A call that goes on to its next tier.
LEMMA EnterNextPhaseType ==
  ASSUME TypeOK, NEW t \in Triggers, Running(t), EnterNextPhase(t)
  PROVE  /\ call' \in [Triggers -> Phases] /\ left' \in [Triggers -> SUBSET Exchanges]
         /\ \A u \in Triggers \ {t} : call'[u] = call[u]
         /\ \/ call[t] \in {"redis"} /\ call'[t] = "tier2"
            \/ call[t] = "tier2" /\ call'[t] = "tier3"
            \/ call[t] = "tier3" /\ call'[t] = "done"
<1>1. /\ call' = [call EXCEPT ![t] = NextPhase[call[t]]]
      /\ left' = [left EXCEPT ![t] = Exchanges]
  BY DEF EnterNextPhase
<1>2. call'[t] = NextPhase[call[t]] /\ \A u \in Triggers \ {t} : call'[u] = call[u]
  BY <1>1 DEF TypeOK
<1>3. \/ call[t] \in {"redis"} /\ call'[t] = "tier2"
      \/ call[t] = "tier2" /\ call'[t] = "tier3"
      \/ call[t] = "tier3" /\ call'[t] = "done"
  BY <1>2, NextPhaseType DEF Running
<1>4. call' \in [Triggers -> Phases]
  <2>1. NextPhase[call[t]] \in Phases
    BY <1>2, <1>3 DEF Phases
  <2> QED BY <1>1, <2>1 DEF TypeOK
<1> QED BY <1>1, <1>2, <1>3, <1>4 DEF TypeOK

-----------------------------------------------------------------------------
(* Types.                                                                  *)

\* The type invariant in three parts: flags and counters, calls, exchanges.
FlagTypes ==
  /\ halted \in BOOLEAN /\ redisHalt \in BOOLEAN /\ triggered \in BOOLEAN
  /\ watching \in BOOLEAN /\ cleared \in BOOLEAN
  /\ clears \in 0..MaxClears /\ resets \in 0..clears
CallTypes ==
  /\ call \in [Triggers -> Phases]
  /\ left \in [Triggers -> SUBSET Exchanges]
  /\ cancelledBy \in [Triggers -> SUBSET Exchanges]
  /\ closedBy \in [Triggers -> SUBSET Exchanges]
ExchangeTypes ==
  /\ trader \in [Exchanges -> {"idle", "checked"}]
  /\ resting \in [Exchanges -> BOOLEAN] /\ position \in [Exchanges -> BOOLEAN]
  /\ stragglers \in [Exchanges -> Nat]

LEMMA TypeParts == TypeOK <=> FlagTypes /\ CallTypes /\ ExchangeTypes
BY DEF TypeOK, FlagTypes, CallTypes, ExchangeTypes

LEMMA KillInit == Init => TypeOK
<1> SUFFICES ASSUME Init PROVE TypeOK
  OBVIOUS
<1>1. FlagTypes
  <2>1. 0 \in 0..MaxClears /\ 0 \in 0..0
    BY KillSwitchAssumption
  <2> QED BY <2>1 DEF Init, FlagTypes
<1>2. CallTypes
  BY DEF Init, CallTypes, Phases
<1>3. ExchangeTypes
  BY DEF Init, ExchangeTypes
<1> QED BY <1>1, <1>2, <1>3, TypeParts

\* Every step keeps every variable in its type.
LEMMA KillStep == TypeOK /\ [Next]_vars => TypeOK'
<1> SUFFICES ASSUME TypeOK, [Next]_vars PROVE TypeOK'
  OBVIOUS
<1>a. FlagTypes /\ CallTypes /\ ExchangeTypes
  BY TypeParts
<1>b. ASSUME FlagTypes', CallTypes', ExchangeTypes' PROVE TypeOK'
  BY <1>b DEF TypeOK, FlagTypes, CallTypes, ExchangeTypes
<1>f. ASSUME UNCHANGED <<halted, redisHalt, triggered, watching, cleared, clears, resets>>
      PROVE FlagTypes'
  BY <1>a, <1>f DEF FlagTypes
<1>c. ASSUME UNCHANGED <<call, left, cancelledBy, closedBy>> PROVE CallTypes'
  BY <1>a, <1>c DEF CallTypes
<1>x. ASSUME UNCHANGED <<trader, resting, position, stragglers>> PROVE ExchangeTypes'
  BY <1>a, <1>x DEF ExchangeTypes
<1>s. ASSUME SetHalt PROVE halted' = TRUE /\ stragglers' \in [Exchanges -> Nat]
  BY <1>s, SetHaltType
<1>1. ASSUME NEW t \in Triggers, Trigger(t) PROVE TypeOK'
  <2>1. UNCHANGED <<redisHalt, left, watching, trader, resting, position, clears, resets,
                    cancelledBy, closedBy>>
    BY <1>1 DEF Trigger, tierHistory
  <2>2. CASE triggered
    <3>1. call' = [call EXCEPT ![t] = "refused"]
          /\ UNCHANGED <<halted, triggered, cleared, stragglers>>
      BY <1>1, <2>2 DEF Trigger, AlreadyTriggered
    <3>2. CallTypes'
      BY <1>a, <2>1, <3>1 DEF CallTypes, Phases
    <3> QED BY <1>b, <1>f, <1>x, <2>1, <3>1, <3>2
  <2>3. CASE ~triggered
    <3>1. triggered' = TRUE /\ SetHalt /\ cleared' = FALSE
          /\ call' = [call EXCEPT ![t] = "redis"]
      BY <1>1, <2>3 DEF Trigger, AlreadyTriggered
    <3>2. FlagTypes'
      BY <1>a, <1>s, <2>1, <3>1 DEF FlagTypes
    <3>3. CallTypes'
      BY <1>a, <2>1, <3>1 DEF CallTypes, Phases
    <3>4. ExchangeTypes'
      BY <1>a, <1>s, <2>1, <3>1 DEF ExchangeTypes
    <3> QED BY <1>b, <3>2, <3>3, <3>4
  <2> QED BY <2>2, <2>3
<1>2. ASSUME NEW t \in Triggers, Tier1Redis(t) \/ TierDone(t) PROVE TypeOK'
  <2>1. call' \in [Triggers -> Phases] /\ left' \in [Triggers -> SUBSET Exchanges]
    BY <1>2, EnterNextPhaseType DEF Tier1Redis, TierDone, Running
  <2>2. /\ redisHalt' \in {redisHalt, TRUE}
        /\ UNCHANGED <<halted, triggered, watching, clears, resets, cleared, cancelledBy,
                       closedBy, trader, resting, position, stragglers>>
    BY <1>2 DEF Tier1Redis, TierDone, tierHistory, exchangeVars
  <2>3. FlagTypes'
    BY <1>a, <2>2 DEF FlagTypes
  <2>4. CallTypes'
    BY <1>a, <2>1, <2>2 DEF CallTypes
  <2> QED BY <1>b, <1>x, <2>2, <2>3, <2>4
<1>3. ASSUME NEW t \in Triggers, NEW x \in Exchanges, Tier2Cancel(t, x) PROVE TypeOK'
  <2>1. /\ left' = [left EXCEPT ![t] = left[t] \ {x}]
        /\ \/ resting' = [resting EXCEPT ![x] = FALSE]
              /\ cancelledBy' = [cancelledBy EXCEPT ![t] = cancelledBy[t] \cup {x}]
           \/ UNCHANGED <<resting, cancelledBy>>
        /\ UNCHANGED <<halted, redisHalt, triggered, call, watching, trader, position,
                       clears, resets, cleared, stragglers, closedBy>>
    BY <1>3 DEF Tier2Cancel
  <2>2. CallTypes'
    BY <1>a, <2>1 DEF CallTypes
  <2>3. ExchangeTypes'
    BY <1>a, <2>1 DEF ExchangeTypes
  <2> QED BY <1>b, <1>f, <2>1, <2>2, <2>3
<1>4. ASSUME NEW t \in Triggers, NEW x \in Exchanges, Tier3Close(t, x) PROVE TypeOK'
  <2>1. /\ left' = [left EXCEPT ![t] = left[t] \ {x}]
        /\ \/ position' = [position EXCEPT ![x] = FALSE]
              /\ closedBy' = [closedBy EXCEPT ![t] = closedBy[t] \cup {x}]
           \/ UNCHANGED <<position, closedBy>>
        /\ UNCHANGED <<halted, redisHalt, triggered, call, watching, trader, resting,
                       clears, resets, cleared, stragglers, cancelledBy>>
    BY <1>4 DEF Tier3Close
  <2>2. CallTypes'
    BY <1>a, <2>1 DEF CallTypes
  <2>3. ExchangeTypes'
    BY <1>a, <2>1 DEF ExchangeTypes
  <2> QED BY <1>b, <1>f, <2>1, <2>2, <2>3
<1>5. CASE Reset \/ ClearHalt
  <2>1. /\ clears < MaxClears /\ clears' = clears + 1
        /\ resets' \in {resets, resets + 1}
        /\ halted' = FALSE /\ cleared' = TRUE /\ triggered' \in {triggered, FALSE}
        /\ UNCHANGED <<redisHalt, watching, call, left, cancelledBy, closedBy, trader,
                       resting, position, stragglers>>
    BY <1>5 DEF Reset, ClearHalt, tierHistory, exchangeVars
  <2>2. MaxClears \in Nat
    BY KillSwitchAssumption
  <2>3. clears' \in 0..MaxClears /\ resets' \in 0..clears'
    BY <1>a, <2>1, <2>2 DEF FlagTypes
  <2>4. FlagTypes'
    BY <1>a, <2>1, <2>3 DEF FlagTypes
  <2> QED BY <1>b, <1>c, <1>x, <2>1, <2>4
<1>6. CASE HaltLocal \/ WatchLoop
  <2>1. SetHalt /\ UNCHANGED <<redisHalt, triggered, left, trader, resting, position,
                               clears, resets, cleared, cancelledBy, closedBy>>
    BY <1>6 DEF HaltLocal, WatchLoop, tierHistory
  <2>2. watching' \in {watching, FALSE}
        /\ \/ UNCHANGED call
           \/ \E t \in Triggers : call' = [call EXCEPT ![t] = "spawned"]
    BY <1>6 DEF HaltLocal, WatchLoop
  <2>3. FlagTypes'
    BY <1>a, <1>s, <2>1, <2>2 DEF FlagTypes
  <2>4. CallTypes'
    BY <1>a, <2>1, <2>2 DEF CallTypes, Phases
  <2>5. ExchangeTypes'
    BY <1>a, <1>s, <2>1 DEF ExchangeTypes
  <2> QED BY <1>b, <2>3, <2>4, <2>5
<1>7. CASE RemoteHalt
  <2>1. FlagTypes'
    BY <1>a, <1>7 DEF RemoteHalt, FlagTypes
  <2> QED BY <1>b, <1>c, <1>x, <1>7, <2>1 DEF RemoteHalt, tierHistory, exchangeVars
<1>8. ASSUME NEW x \in Exchanges, TraderCheck(x) \/ Fill(x) PROVE TypeOK'
  <2>1. ExchangeTypes'
    BY <1>a, <1>8 DEF TraderCheck, Fill, ExchangeTypes
  <2> QED BY <1>b, <1>c, <1>f, <1>8, <2>1 DEF TraderCheck, Fill, tierHistory
<1>9. ASSUME NEW x \in Exchanges, TraderSend(x) PROVE TypeOK'
  <2>1. ExchangeTypes'
    <3>1. stragglers' \in [Exchanges -> Nat]
      BY <1>a, <1>9 DEF TraderSend, ExchangeTypes
    <3>2. trader' \in [Exchanges -> {"idle", "checked"}]
      BY <1>a, <1>9 DEF TraderSend, ExchangeTypes
    <3>3. resting' \in [Exchanges -> BOOLEAN] /\ position' \in [Exchanges -> BOOLEAN]
      BY <1>a, <1>9 DEF TraderSend, ExchangeTypes
    <3> QED BY <3>1, <3>2, <3>3 DEF ExchangeTypes
  <2>2. CallTypes'
    BY <1>a, <1>9 DEF TraderSend, CallTypes
  <2> QED BY <1>b, <1>f, <1>9, <2>1, <2>2 DEF TraderSend
<1>10. CASE UNCHANGED vars
  BY <1>b, <1>c, <1>f, <1>x, <1>10 DEF vars, tierHistory, exchangeVars
<1> QED BY <1>1, <1>2, <1>3, <1>4, <1>5, <1>6, <1>7, <1>8, <1>9, <1>10 DEF Next, Advance

\* Type correctness of the emergency stop.
THEOREM KillTypes == Spec => []TypeOK
BY KillInit, KillStep, PTL DEF Spec

-----------------------------------------------------------------------------
(* The flag.                                                               *)

\* The flag comes down only with the mark that says so, and tier 1 takes the
\* mark away together with raising it.
LEMMA FlagStep == TriggeredStaysHalted /\ [Next]_vars => TriggeredStaysHalted'
<1> SUFFICES ASSUME TriggeredStaysHalted, [Next]_vars PROVE TriggeredStaysHalted'
  OBVIOUS
<1>1. ASSUME UNCHANGED <<triggered, cleared, halted>> PROVE TriggeredStaysHalted'
  BY <1>1 DEF TriggeredStaysHalted
<1>2. ASSUME NEW t \in Triggers, Trigger(t) PROVE TriggeredStaysHalted'
  BY <1>1, <1>2 DEF Trigger, SetHalt, TriggeredStaysHalted
<1>3. ASSUME NEW t \in Triggers, Advance(t) PROVE TriggeredStaysHalted'
  BY <1>1, <1>2, <1>3 DEF Advance, Tier1Redis, TierDone, Tier2Cancel, Tier3Close
<1>4. CASE Reset \/ ClearHalt
  BY <1>4 DEF Reset, ClearHalt, TriggeredStaysHalted
<1>5. CASE HaltLocal \/ WatchLoop
  BY <1>5 DEF HaltLocal, WatchLoop, SetHalt, TriggeredStaysHalted
<1>6. CASE RemoteHalt \/ \E x \in Exchanges : TraderCheck(x) \/ TraderSend(x) \/ Fill(x)
  BY <1>1, <1>6 DEF RemoteHalt, TraderCheck, TraderSend, Fill
<1>7. CASE UNCHANGED vars
  BY <1>1, <1>7 DEF vars
<1> QED BY <1>2, <1>3, <1>4, <1>5, <1>6, <1>7 DEF Next

\* A triggered engine stays halted until somebody clears the flag.
THEOREM TriggerHolds == Spec => []TriggeredStaysHalted
<1>1. Init => TriggeredStaysHalted
  BY DEF Init, TriggeredStaysHalted
<1> QED BY <1>1, FlagStep, PTL DEF Spec

-----------------------------------------------------------------------------
(* Orders that still leave.                                                *)

\* While halted, a trader whose order left despite the flag has none checked.
StragglerInv ==
  \A x \in Exchanges :
      stragglers[x] <= 1 /\ (halted /\ stragglers[x] = 1 => trader[x] = "idle")

LEMMA StragglerStep == TypeOK /\ StragglerInv /\ [Next]_vars => StragglerInv'
<1> SUFFICES ASSUME TypeOK, StragglerInv, [Next]_vars PROVE StragglerInv'
  OBVIOUS
<1>1. ASSUME UNCHANGED <<stragglers, halted, trader>> PROVE StragglerInv'
  BY <1>1 DEF StragglerInv
<1>2. ASSUME SetHalt, UNCHANGED trader PROVE StragglerInv'
  <2>1. CASE halted
    BY <1>1, <1>2, <2>1 DEF SetHalt, TypeOK
  <2>2. CASE ~halted
    <3>1. \A x \in Exchanges : stragglers'[x] = 0
      BY <1>2, <2>2 DEF SetHalt
    <3> QED BY <3>1 DEF StragglerInv
  <2> QED BY <2>1, <2>2
<1>3. ASSUME NEW t \in Triggers, Trigger(t) PROVE StragglerInv'
  <2>1. UNCHANGED trader /\ (SetHalt \/ UNCHANGED <<halted, stragglers>>)
    BY <1>3 DEF Trigger
  <2> QED BY <1>1, <1>2, <2>1
<1>4. ASSUME NEW t \in Triggers, Advance(t) PROVE StragglerInv'
  BY <1>1, <1>3, <1>4
  DEF Advance, Tier1Redis, TierDone, Tier2Cancel, Tier3Close, exchangeVars
<1>5. CASE Reset \/ ClearHalt
  BY <1>5 DEF Reset, ClearHalt, exchangeVars, StragglerInv
<1>6. CASE HaltLocal \/ WatchLoop
  BY <1>2, <1>6 DEF HaltLocal, WatchLoop
<1>7. ASSUME NEW x \in Exchanges, TraderCheck(x) PROVE StragglerInv'
  BY <1>7 DEF TraderCheck, StragglerInv
<1>8. ASSUME NEW x \in Exchanges, TraderSend(x) PROVE StragglerInv'
  <2>1. /\ trader[x] = "checked" /\ trader' = [trader EXCEPT ![x] = "idle"]
        /\ stragglers' = IF halted THEN [stragglers EXCEPT ![x] = stragglers[x] + 1]
                                   ELSE stragglers
        /\ halted' = halted
    BY <1>8 DEF TraderSend
  <2>2. CASE halted
    <3>1. stragglers[x] = 0
      BY <2>1, <2>2 DEF StragglerInv, TypeOK
    <3>2. stragglers'[x] = 1 /\ trader'[x] = "idle"
      BY <2>1, <2>2, <3>1 DEF TypeOK
    <3>3. \A y \in Exchanges \ {x} : stragglers'[y] = stragglers[y] /\ trader'[y] = trader[y]
      BY <2>1, <2>2 DEF TypeOK
    <3> QED BY <2>1, <3>2, <3>3 DEF StragglerInv
  <2>3. CASE ~halted
    BY <2>1, <2>3 DEF StragglerInv
  <2> QED BY <2>2, <2>3
<1>9. CASE RemoteHalt \/ \E x \in Exchanges : Fill(x)
  BY <1>1, <1>9 DEF RemoteHalt, Fill, exchangeVars
<1>10. CASE UNCHANGED vars
  BY <1>1, <1>10 DEF vars, exchangeVars
<1> QED BY <1>3, <1>4, <1>5, <1>6, <1>7, <1>8, <1>9, <1>10 DEF Next

\* However many traders there are, each gets out at most the one order it had
\* checked when the flag went up.
THEOREM AtMostOneStraggler == Spec => []OneStraggler
<1>1. Init => StragglerInv
  BY DEF Init, StragglerInv
<1>2. StragglerInv => OneStraggler
  BY DEF StragglerInv, OneStraggler
<1> QED BY <1>1, <1>2, KillTypes, StragglerStep, PTL DEF Spec

-----------------------------------------------------------------------------
(* Walks through the tiers.                                                *)

Walkers == {t \in Triggers : Running(t) \/ call[t] = "done"}

\* Each walk used up one fall of _triggered: a reset's, or the first.
WalkInv == Cardinality(Walkers) <= resets + (IF triggered THEN 1 ELSE 0)

LEMMA WalkStep == TypeOK /\ WalkInv /\ [Next]_vars => WalkInv'
<1> SUFFICES ASSUME TypeOK, WalkInv, [Next]_vars PROVE WalkInv'
  OBVIOUS
<1>0. IsFiniteSet(Walkers) /\ Cardinality(Walkers) \in Nat /\ resets \in Int
      /\ triggered \in BOOLEAN
  <2>1. IsFiniteSet(Walkers)
    BY KillSwitchAssumption, FS_Subset DEF Walkers
  <2> QED BY <2>1, FS_CardinalityType DEF TypeOK
<1>1. ASSUME Walkers' = Walkers, UNCHANGED <<resets, triggered>> PROVE WalkInv'
  BY <1>1 DEF WalkInv
<1>2. ASSUME NEW t \in Triggers, Trigger(t) PROVE WalkInv'
  <2>1. call[t] \in {"idle", "spawned"} /\ UNCHANGED resets
    BY <1>2 DEF Trigger
  <2>2. CASE triggered
    <3>1. call' = [call EXCEPT ![t] = "refused"] /\ UNCHANGED triggered
      BY <1>2, <2>2 DEF Trigger, AlreadyTriggered
    <3>2. Walkers' = Walkers
      BY <2>1, <3>1 DEF Walkers, Running, TypeOK
    <3> QED BY <1>1, <2>1, <3>1, <3>2
  <2>3. CASE ~triggered
    <3>1. call' = [call EXCEPT ![t] = "redis"] /\ triggered' = TRUE
      BY <1>2, <2>3 DEF Trigger, AlreadyTriggered
    <3>2. Walkers' = Walkers \cup {t}
      BY <2>1, <3>1 DEF Walkers, Running, TypeOK
    <3>3. t \notin Walkers
      BY <2>1 DEF Walkers, Running
    <3>4. Cardinality(Walkers') = Cardinality(Walkers) + 1
      BY <1>0, <3>2, <3>3, FS_AddElement
    <3>5. Cardinality(Walkers) <= resets
      BY <1>0, <2>3 DEF WalkInv
    <3>6. Cardinality(Walkers') <= resets + 1
      BY <1>0, <3>4, <3>5
    <3> QED BY <2>1, <3>1, <3>6 DEF WalkInv
  <2> QED BY <2>2, <2>3
<1>3. ASSUME NEW t \in Triggers, Advance(t) PROVE WalkInv'
  <2>1. CASE Tier1Redis(t) \/ TierDone(t)
    <3>1. Running(t) /\ EnterNextPhase(t)
      BY <2>1 DEF Tier1Redis, TierDone, Running
    <3>2. call'[t] \in {"tier2", "tier3", "done"} /\ \A u \in Triggers \ {t} : call'[u] = call[u]
      BY <3>1, EnterNextPhaseType
    <3>3. Walkers' = Walkers
      BY <3>1, <3>2 DEF Walkers, Running
    <3> QED BY <1>1, <2>1, <3>3 DEF Tier1Redis, TierDone
  <2>2. CASE \E x \in Exchanges : Tier2Cancel(t, x) \/ Tier3Close(t, x)
    <3>1. UNCHANGED <<call, resets, triggered>>
      BY <2>2 DEF Tier2Cancel, Tier3Close
    <3> QED BY <1>1, <3>1 DEF Walkers, Running
  <2> QED BY <1>2, <1>3, <2>1, <2>2 DEF Advance
<1>4. CASE Reset
  <2>1. resets' = resets + 1 /\ triggered' = FALSE /\ UNCHANGED call
    BY <1>4 DEF Reset
  <2>2. Walkers' = Walkers
    BY <2>1 DEF Walkers, Running
  <2>3. Cardinality(Walkers) <= resets + 1
    BY <1>0 DEF WalkInv
  <2> QED BY <1>0, <2>1, <2>2, <2>3 DEF WalkInv
<1>5. CASE WatchLoop
  <2>1. UNCHANGED <<resets, triggered>>
    BY <1>5 DEF WatchLoop
  <2>2. \/ UNCHANGED call
        \/ \E t \in Triggers : call[t] = "idle" /\ call' = [call EXCEPT ![t] = "spawned"]
    BY <1>5 DEF WatchLoop
  <2>3. Walkers' = Walkers
    BY <2>2 DEF Walkers, Running, TypeOK
  <2> QED BY <1>1, <2>1, <2>3
<1>6. CASE UNCHANGED <<call, resets, triggered>>
  BY <1>1, <1>6 DEF Walkers, Running
<1>7. CASE ClearHalt \/ HaltLocal \/ RemoteHalt
  BY <1>6, <1>7 DEF ClearHalt, HaltLocal, RemoteHalt
<1>8. CASE \E x \in Exchanges : TraderCheck(x) \/ TraderSend(x) \/ Fill(x)
  BY <1>6, <1>8 DEF TraderCheck, TraderSend, Fill
<1>9. CASE UNCHANGED vars
  BY <1>6, <1>9 DEF vars
<1> QED BY <1>2, <1>3, <1>4, <1>5, <1>7, <1>8, <1>9 DEF Next

\* However many triggers run at once, the exchanges are cancelled and closed
\* once, and once more for each reset.
THEOREM OneWalk == Spec => []OneWalkPerReset
<1>1. Init => WalkInv
  <2>1. Init => Walkers = {} /\ resets = 0 /\ ~triggered
    BY DEF Init, Walkers, Running
  <2> QED BY <2>1, FS_EmptySet DEF WalkInv
<1>2. TypeOK /\ WalkInv => OneWalkPerReset
  <2> SUFFICES ASSUME TypeOK, WalkInv PROVE OneWalkPerReset
    OBVIOUS
  <2>1. IsFiniteSet(Walkers)
    BY KillSwitchAssumption, FS_Subset DEF Walkers
  <2>2. Cardinality(Walkers) \in Nat /\ resets \in Int
    BY <2>1, FS_CardinalityType DEF TypeOK
  <2>3. Cardinality(Walkers) <= 1 + resets
    BY <2>2 DEF WalkInv
  <2> QED BY <2>3 DEF OneWalkPerReset, Walkers
<1> QED BY <1>1, <1>2, KillTypes, WalkStep, PTL DEF Spec

-----------------------------------------------------------------------------
(* Cancelled and closed.                                                   *)

\* Tier 3 closes nothing before tier 2 is over, and what tier 2 cancelled
\* cannot be filled behind the close.
FlatInv ==
  /\ \A t \in Triggers : call[t] \notin {"tier3", "done"} => closedBy[t] = {}
  /\ \A t \in Triggers : \A x \in cancelledBy[t] : ~resting[x]
  /\ \A t \in Triggers : \A x \in cancelledBy[t] \cap closedBy[t] : ~position[x]

LEMMA FlatStep == TypeOK /\ FlatInv /\ [Next]_vars => FlatInv'
<1> SUFFICES ASSUME TypeOK, FlatInv, [Next]_vars PROVE FlatInv'
  OBVIOUS
<1>1. ASSUME UNCHANGED <<call, closedBy, cancelledBy, resting, position>> PROVE FlatInv'
  BY <1>1 DEF FlatInv
<1>2. ASSUME UNCHANGED <<closedBy, cancelledBy, resting, position>>, NEW t \in Triggers,
             \A u \in Triggers \ {t} : call'[u] = call[u],
             call[t] \in {"tier3", "done"} => call'[t] \in {"tier3", "done"}
      PROVE  FlatInv'
  BY <1>2 DEF FlatInv
<1>3. ASSUME NEW t \in Triggers, Trigger(t) PROVE FlatInv'
  <2>1. call[t] \in {"idle", "spawned"} /\ UNCHANGED <<closedBy, cancelledBy, resting, position>>
    BY <1>3 DEF Trigger, tierHistory
  <2>2. \A u \in Triggers \ {t} : call'[u] = call[u]
    BY <1>3 DEF Trigger, TypeOK
  <2> QED BY <1>2, <2>1, <2>2
<1>4. ASSUME NEW t \in Triggers, Tier1Redis(t) \/ TierDone(t) PROVE FlatInv'
  <2>1. Running(t) /\ EnterNextPhase(t)
    BY <1>4 DEF Tier1Redis, TierDone, Running
  <2>2. /\ call[t] \in {"tier3", "done"} => call'[t] \in {"tier3", "done"}
        /\ \A u \in Triggers \ {t} : call'[u] = call[u]
    BY <2>1, EnterNextPhaseType DEF Running
  <2> QED BY <1>2, <1>4, <2>2 DEF Tier1Redis, TierDone, tierHistory, exchangeVars
<1>5. ASSUME NEW t \in Triggers, NEW x \in Exchanges, Tier2Cancel(t, x) PROVE FlatInv'
  <2>1. call[t] = "tier2" /\ UNCHANGED <<call, closedBy, position>>
    BY <1>5 DEF Tier2Cancel
  <2>2. CASE UNCHANGED <<resting, cancelledBy>>
    BY <1>1, <2>1, <2>2
  <2>3. CASE /\ resting' = [resting EXCEPT ![x] = FALSE]
             /\ cancelledBy' = [cancelledBy EXCEPT ![t] = cancelledBy[t] \cup {x}]
    <3>1. closedBy[t] = {}
      BY <2>1 DEF FlatInv
    <3>2. \A u \in Triggers : \A y \in cancelledBy'[u] : ~resting'[y]
      BY <2>3 DEF FlatInv, TypeOK
    <3>3. \A u \in Triggers : cancelledBy'[u] \cap closedBy[u] = cancelledBy[u] \cap closedBy[u]
      BY <2>3, <3>1 DEF TypeOK
    <3> QED BY <2>1, <3>2, <3>3 DEF FlatInv
  <2> QED BY <1>5, <2>2, <2>3 DEF Tier2Cancel
<1>6. ASSUME NEW t \in Triggers, NEW x \in Exchanges, Tier3Close(t, x) PROVE FlatInv'
  <2>1. call[t] = "tier3" /\ UNCHANGED <<call, cancelledBy, resting>>
    BY <1>6 DEF Tier3Close
  <2>2. CASE UNCHANGED <<position, closedBy>>
    BY <1>1, <2>1, <2>2
  <2>3. CASE /\ position' = [position EXCEPT ![x] = FALSE]
             /\ closedBy' = [closedBy EXCEPT ![t] = closedBy[t] \cup {x}]
    <3>1. \A u \in Triggers : call[u] \notin {"tier3", "done"} => closedBy'[u] = {}
      BY <2>1, <2>3 DEF FlatInv, TypeOK
    <3>2. \A u \in Triggers : \A y \in cancelledBy[u] \cap closedBy'[u] : ~position'[y]
      BY <2>3 DEF FlatInv, TypeOK
    <3> QED BY <2>1, <3>1, <3>2 DEF FlatInv
  <2> QED BY <1>6, <2>2, <2>3 DEF Tier3Close
<1>7. CASE WatchLoop
  <2>1. UNCHANGED <<closedBy, cancelledBy, resting, position>>
    BY <1>7 DEF WatchLoop, tierHistory
  <2>2. CASE UNCHANGED call
    BY <1>1, <2>1, <2>2
  <2>3. ASSUME NEW t \in Triggers, call[t] = "idle", call' = [call EXCEPT ![t] = "spawned"]
        PROVE  FlatInv'
    BY <1>2, <2>1, <2>3 DEF TypeOK
  <2> QED BY <1>7, <2>2, <2>3 DEF WatchLoop
<1>8. ASSUME NEW x \in Exchanges, TraderSend(x) PROVE FlatInv'
  <2>1. /\ UNCHANGED call
        /\ cancelledBy' = [t \in Triggers |-> cancelledBy[t] \ {x}]
        /\ closedBy' = [t \in Triggers |-> closedBy[t] \ {x}]
    BY <1>8 DEF TraderSend
  <2>2. \A y \in Exchanges \ {x} : resting'[y] = resting[y] /\ position'[y] = position[y]
    BY <1>8 DEF TraderSend, TypeOK
  <2>3. \A t \in Triggers : cancelledBy'[t] = cancelledBy[t] \ {x} /\ closedBy'[t] = closedBy[t] \ {x}
    BY <2>1
  <2>4. \A t \in Triggers : cancelledBy[t] \subseteq Exchanges /\ closedBy[t] \subseteq Exchanges
    BY DEF TypeOK
  <2> QED BY <2>1, <2>2, <2>3, <2>4 DEF FlatInv
<1>9. ASSUME NEW x \in Exchanges, Fill(x) PROVE FlatInv'
  <2>1. /\ resting[x] = TRUE /\ resting' = [resting EXCEPT ![x] = FALSE]
        /\ position' = [position EXCEPT ![x] = TRUE]
        /\ UNCHANGED <<call, closedBy, cancelledBy>>
    BY <1>9 DEF Fill, tierHistory, TypeOK
  <2>2. \A t \in Triggers : x \notin cancelledBy[t]
    BY <2>1 DEF FlatInv
  <2>3. \A y \in Exchanges \ {x} : resting'[y] = resting[y] /\ position'[y] = position[y]
    BY <2>1 DEF TypeOK
  <2>4. \A t \in Triggers : cancelledBy[t] \subseteq Exchanges \ {x}
    BY <2>2 DEF TypeOK
  <2> QED BY <2>1, <2>3, <2>4 DEF FlatInv
<1>10. CASE Reset \/ ClearHalt \/ HaltLocal \/ RemoteHalt
  BY <1>1, <1>10 DEF Reset, ClearHalt, HaltLocal, RemoteHalt, tierHistory, exchangeVars
<1>11. ASSUME NEW x \in Exchanges, TraderCheck(x) PROVE FlatInv'
  BY <1>1, <1>11 DEF TraderCheck, tierHistory
<1>12. CASE UNCHANGED vars
  BY <1>1, <1>12 DEF vars, tierHistory, exchangeVars
<1> QED BY <1>3, <1>4, <1>5, <1>6, <1>7, <1>8, <1>9, <1>10, <1>11, <1>12 DEF Next, Advance

\* Where both tiers of a call succeeded nothing is left, however the calls and
\* the fills interleave.
THEOREM CancelledAndClosed == Spec => []CancelledAndClosedIsFlat
<1>1. Init => FlatInv
  BY DEF Init, FlatInv
<1>2. FlatInv => CancelledAndClosedIsFlat
  BY DEF FlatInv, CancelledAndClosedIsFlat
<1> QED BY <1>1, <1>2, KillTypes, FlatStep, PTL DEF Spec
=============================================================================
