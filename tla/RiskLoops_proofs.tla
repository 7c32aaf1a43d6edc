--------------------------- MODULE RiskLoops_proofs -------------------------
(***************************************************************************)
(* What the loops that watch the risk promise: when the reconciler reports *)
(* a position as unrecorded, for every set of exchanges and positions and  *)
(* every pattern of failed fetches; and that the global circuit breaker    *)
(* closes only after a complete test phase, for every set of strategies    *)
(* and every limit.                                                        *)
(***************************************************************************)
EXTENDS Reconciler, Breakers, TLAPS

-----------------------------------------------------------------------------
(* The reconciler.                                                         *)

\* run counts comparisons, two and more being one
RunType == run \in [Keys -> 0..2]

\* the memory of the reconciler is what the last answers of every exchange say
PrevInv == prev = {k \in Keys : run[k] > 0}

\* an exchange is asked once per cycle, and a cycle knows of a position only from
\* an exchange that answered
SeenInv ==
  running => /\ lost \cap todo = {}
             /\ \A k \in Keys : seen[k] # 0 => ExchangeOf[k] \notin lost \cup todo

SightingInv == RunType /\ PrevInv /\ SeenInv /\ EscalatesSecondSighting

\* The invariant holds at the start,
LEMMA SightingInit == ReconcilerInit => SightingInv
BY DEF ReconcilerInit, SightingInv, RunType, PrevInv, SeenInv, EscalatesSecondSighting,
       Nothing, Fetched

\* is preserved by the comparison,
LEMMA CompareSights == SightingInv /\ Compare => SightingInv'
<1> SUFFICES ASSUME SightingInv, Compare PROVE SightingInv'
  OBVIOUS
<1>1. /\ running /\ todo = {} /\ ~running'
      /\ escalated' = Unrecorded \cap prev
      /\ prev' = Unrecorded \cup {k \in prev : ~Fetched(k)}
      /\ run' = [k \in Keys |->
             IF Fetched(k) THEN Longer(k \in Unrecorded, run[k]) ELSE run[k]]
      /\ UNCHANGED lost
  BY DEF Compare, RollForward
<1>2. Unrecorded \subseteq {k \in Keys : Fetched(k)}
  BY <1>1 DEF SightingInv, SeenInv, Unrecorded, Orphan, Fetched
<1>3. ASSUME NEW k \in Keys, Fetched(k)
      PROVE  run'[k] = IF k \notin Unrecorded THEN 0 ELSE IF run[k] = 0 THEN 1 ELSE 2
  BY <1>1, <1>3 DEF Longer
<1>4. ASSUME NEW k \in Keys, ~Fetched(k) PROVE run'[k] = run[k]
  BY <1>1, <1>4
<1>5. \A k \in Keys : run[k] \in 0..2 /\ (k \in prev <=> run[k] > 0)
  BY DEF SightingInv, RunType, PrevInv
<1>6. RunType'
  <2>1. \A k \in Keys : run'[k] \in 0..2
    BY <1>3, <1>4, <1>5
  <2> QED BY <1>1, <2>1 DEF RunType
<1>7. PrevInv'
  <2>1. \A k \in Keys : k \in prev' <=> run'[k] > 0
    BY <1>1, <1>2, <1>3, <1>4, <1>5
  <2>2. prev' \subseteq Keys
    BY <1>1, <1>2 DEF SightingInv, PrevInv
  <2> QED BY <2>1, <2>2 DEF PrevInv
<1>8. EscalatesSecondSighting'
  <2>1. \A k \in Keys : k \in escalated' <=> Fetched(k) /\ run'[k] = 2
    BY <1>1, <1>2, <1>3, <1>5
  <2>2. escalated' \subseteq Keys /\ \A k : Fetched(k)' <=> Fetched(k)
    BY <1>1, <1>2 DEF Fetched
  <2> QED BY <2>1, <2>2 DEF EscalatesSecondSighting
<1> QED BY <1>1, <1>6, <1>7, <1>8 DEF SightingInv, SeenInv

\* and by everything else: an exchange is asked once per cycle, and the start of
\* a cycle forgets what the last one saw but not what it remembered.
LEMMA SightingStep == SightingInv /\ [ReconcilerNext]_reconcilerVars => SightingInv'
<1> SUFFICES ASSUME SightingInv, [ReconcilerNext]_reconcilerVars PROVE SightingInv'
  OBVIOUS
<1>1. ASSUME UNCHANGED <<prev, run, running, seen, lost, todo, escalated>>
      PROVE  SightingInv'
  BY <1>1 DEF SightingInv, RunType, PrevInv, SeenInv, EscalatesSecondSighting, Fetched
<1>2. CASE (\E k \in Keys : Trade(k) \/ Register(k)) \/ (\E k \in MayStrand : Strand(k))
  BY <1>1, <1>2 DEF Trade, Register, Strand, cycleVars
<1>3. CASE Begin
  <2>1. running' /\ seen' = Nothing /\ lost' = {} /\ UNCHANGED <<prev, run>>
    BY <1>3 DEF Begin
  <2> QED BY <2>1 DEF SightingInv, RunType, PrevInv, SeenInv, EscalatesSecondSighting, Nothing
<1>4. ASSUME NEW x \in Exchanges, FetchOk(x) PROVE SightingInv'
  <2>1. /\ running /\ running' /\ x \in todo /\ todo' = todo \ {x}
        /\ \A k \in Keys : seen'[k] = IF ExchangeOf[k] = x THEN held[k] ELSE seen[k]
        /\ UNCHANGED <<prev, run, lost>>
    BY <1>4 DEF FetchOk
  <2>2. x \notin lost
    BY <2>1 DEF SightingInv, SeenInv
  <2> QED BY <2>1, <2>2 DEF SightingInv, RunType, PrevInv, SeenInv, EscalatesSecondSighting
<1>5. ASSUME NEW x \in Exchanges, FetchFails(x) PROVE SightingInv'
  <2>1. /\ running /\ running' /\ x \in todo /\ todo' = todo \ {x} /\ lost' = lost \cup {x}
        /\ UNCHANGED <<prev, run, seen>>
    BY <1>5 DEF FetchFails
  <2> QED BY <2>1 DEF SightingInv, RunType, PrevInv, SeenInv, EscalatesSecondSighting
<1>6. CASE Compare
  BY <1>6, CompareSights
<1>7. CASE UNCHANGED reconcilerVars
  BY <1>1, <1>7 DEF reconcilerVars, cycleVars
<1> QED BY <1>2, <1>3, <1>4, <1>5, <1>6, <1>7 DEF ReconcilerNext

\* A position is reported as unrecorded exactly when the last two answers of its
\* exchange both found it without a record, however many fetches failed between.
THEOREM SecondSightingsReported == ReconcilerSpec => []EscalatesSecondSighting
BY SightingInit, SightingStep, PTL DEF ReconcilerSpec, SightingInv

\* Every variable has its type.
THEOREM ReconcilerTypes == ReconcilerSpec => []ReconcilerTypeOK
<1>0. /\ ExchangeOf \in [Keys -> Exchanges] /\ MayStrand \subseteq Keys /\ MaxChanges \in Nat
      /\ MaxFailures \in Nat /\ Flaky \in BOOLEAN
  BY ReconcilerAssumption
<1>1. ReconcilerInit => ReconcilerTypeOK
  <2> SUFFICES ASSUME ReconcilerInit PROVE ReconcilerTypeOK
    OBVIOUS
  <2>1. Nothing \in [Keys -> Sizes] /\ Nothing \in [Keys -> 0..2]
    BY DEF Nothing, Sizes
  <2>2. held \in [Keys -> Sizes] /\ changes \in 0..MaxChanges /\ failures \in 0..MaxFailures
    BY <1>0 DEF ReconcilerInit
  <2>3. /\ stranded \subseteq MayStrand /\ prev \subseteq Keys /\ orphans \subseteq Keys
        /\ todo \subseteq Exchanges /\ running \in BOOLEAN /\ lost \subseteq Exchanges
        /\ escalated \subseteq Keys /\ alerted \subseteq Keys
    BY DEF ReconcilerInit
  <2>4. /\ engine = Nothing /\ snap = Nothing /\ seen = Nothing
        /\ run = Nothing /\ orphanRun = Nothing
    BY DEF ReconcilerInit
  <2> QED BY <2>1, <2>2, <2>3, <2>4 DEF ReconcilerTypeOK
<1>2. ReconcilerTypeOK /\ [ReconcilerNext]_reconcilerVars => ReconcilerTypeOK'
  <2> SUFFICES ASSUME ReconcilerTypeOK, [ReconcilerNext]_reconcilerVars
               PROVE  ReconcilerTypeOK'
    OBVIOUS
  <2>1. ASSUME NEW k \in Keys, Trade(k) PROVE ReconcilerTypeOK'
    BY <1>0, <2>1 DEF Trade, ReconcilerTypeOK, cycleVars, Sizes
  <2>2. ASSUME NEW k \in Keys, Register(k) PROVE ReconcilerTypeOK'
    BY <1>0, <2>2 DEF Register, ReconcilerTypeOK, cycleVars, Sizes
  <2>3. ASSUME NEW k \in MayStrand, Strand(k) PROVE ReconcilerTypeOK'
    BY <1>0, <2>3 DEF Strand, ReconcilerTypeOK, cycleVars, envVars
  <2>4. CASE Begin
    BY <2>4 DEF Begin, ReconcilerTypeOK, envVars, Nothing, Sizes
  <2>5. ASSUME NEW x \in Exchanges, FetchOk(x) PROVE ReconcilerTypeOK'
    BY <2>5 DEF FetchOk, ReconcilerTypeOK, envVars
  <2>6. ASSUME NEW x \in Exchanges, FetchFails(x) PROVE ReconcilerTypeOK'
    BY <1>0, <2>6 DEF FetchFails, ReconcilerTypeOK, envVars
  <2>7. CASE Compare
    <3>1. /\ escalated' \subseteq Keys /\ prev' \subseteq Keys
          /\ alerted' \subseteq Keys /\ orphans' \subseteq Keys /\ running' = FALSE
      BY <2>7 DEF Compare, ReconcilerTypeOK, RollForward, Unrecorded, Alerts
    <3>2. run' \in [Keys -> 0..2] /\ orphanRun' \in [Keys -> 0..2]
      BY <2>7 DEF Compare, ReconcilerTypeOK, Longer
    <3> QED BY <2>7, <3>1, <3>2 DEF Compare, ReconcilerTypeOK, envVars
  <2>8. CASE UNCHANGED reconcilerVars
    BY <2>8 DEF reconcilerVars, envVars, cycleVars, ReconcilerTypeOK
  <2> QED BY <2>1, <2>2, <2>3, <2>4, <2>5, <2>6, <2>7, <2>8 DEF ReconcilerNext
<1> QED BY <1>1, <1>2, PTL DEF ReconcilerSpec

-----------------------------------------------------------------------------
(* The circuit breaker.                                                    *)

\* While the breaker tests, it has counted the wins since it last turned
\* HALF_OPEN and no others.
TestInv ==
  /\ successes \in Nat /\ wins \in 0..TestWins
  /\ breaker = "HALF_OPEN" => successes = wins /\ wins < TestWins

\* The invariant holds at the start,
LEMMA TestInvInit == BreakerInit => TestInv
BY BreakersAssumption DEF BreakerInit, TestInv

\* and every step preserves it: a call of the breaker, whose closing is the only
\* step that leaves the test phase upwards, and a tick, which starts a new one.
LEMMA TestInvStep == TestInv /\ [BreakerNext]_breakerVars => TestInv'
<1> SUFFICES ASSUME TestInv, [BreakerNext]_breakerVars PROVE TestInv'
  OBVIOUS
<1>0. TestWins \in Nat \ {0}
  BY BreakersAssumption
<1>1. ASSUME UNCHANGED <<breaker, successes, wins>> PROVE TestInv'
  BY <1>1 DEF TestInv
<1>2. ASSUME NEW s \in Traders, Request(s) \/ Result(s) \/ Book(s) PROVE TestInv'
  BY <1>1, <1>2 DEF Request, Result, Book
<1>3. ASSUME NEW call, RecordLoss(call) PROVE TestInv'
  <2>1. wins' = 0 /\ (Open \/ (Stay /\ breaker # "HALF_OPEN"))
    BY <1>3, Zenon DEF RecordLoss
  <2> QED BY <1>0, <2>1 DEF Open, Stay, TestInv
<1>4. ASSUME NEW call, RecordWin(call) PROVE TestInv'
  BY <1>0, <1>4 DEF RecordWin, Stay, TestInv
<1>5. ASSUME NEW call, TriggerManual(call) PROVE TestInv'
  BY <1>5 DEF TriggerManual, Open, Stay, TestInv
<1>6. CASE RunTask
  BY <1>3, <1>4, <1>5, <1>6 DEF RunTask
<1>7. CASE BreakerTick
  BY <1>0, <1>7 DEF BreakerTick, HalfOpen, TestInv
<1>8. CASE UNCHANGED breakerVars
  BY <1>1, <1>8 DEF breakerVars
<1> QED BY <1>2, <1>6, <1>7, <1>8 DEF BreakerNext

\* A step that closes the breaker is the win that completes the test phase.
LEMMA ClosingStep ==
  TestInv /\ [BreakerNext]_breakerVars
    => [breaker # "CLOSED" /\ breaker' = "CLOSED" => wins' >= TestWins]_breakerVars
<1> SUFFICES ASSUME TestInv, BreakerNext, breaker # "CLOSED", breaker' = "CLOSED"
             PROVE  wins' >= TestWins
  OBVIOUS
<1>1. TestWins \in Nat \ {0}
  BY BreakersAssumption
<1>2. ~\E s \in Traders : Request(s) \/ Result(s) \/ Book(s)
  BY DEF Request, Result, Book
<1>3. ~BreakerTick
  BY DEF BreakerTick, HalfOpen
<1>4. \A call : ~RecordLoss(call) /\ ~TriggerManual(call)
  BY DEF RecordLoss, TriggerManual, Open, Stay
<1>5. \E call : RecordWin(call)
  BY <1>2, <1>3, <1>4 DEF BreakerNext, RunTask
<1> QED BY <1>1, <1>5 DEF RecordWin, Stay, TestInv

\* The breaker closes only after as many wins in a row as it asks for, all of
\* them reported since it last turned HALF_OPEN.
THEOREM ClosingIsTested == BreakerSpec => ClosesAfterTest
BY TestInvInit, TestInvStep, ClosingStep, PTL DEF BreakerSpec, ClosesAfterTest

-----------------------------------------------------------------------------
(* Types.                                                                  *)

TypeInv == BreakerTypeOK /\ TestInv

\* Every step of a strategy's requests and results keeps the types,
LEMMA StrategyTypes ==
  ASSUME TypeInv, NEW s \in Traders, Request(s) \/ Result(s) \/ Book(s)
  PROVE  BreakerTypeOK'
<1>0. MaxTasks \in Nat /\ MaxTrades \in Nat /\ MaxHalts \in Nat /\ HaltTicks \in Nat \ {0}
  BY BreakersAssumption
<1>1. CASE Request(s)
  <2>1. cb' \in [Traders -> {"unknown", "ACTIVE", "HALTED"}]
    BY <1>1 DEF Request, LetsIn, LookedUp, TypeInv, BreakerTypeOK
  <2>2. inFlight' \in [Traders -> 0..MaxTrades]
    BY <1>0, <1>1 DEF Request, TypeInv, BreakerTypeOK
  <2>3. tasks' \in Seq(Calls) /\ Len(tasks') <= MaxTasks
    <3>1. PICK legs \in {1, 2} :
            LET first == IF AllHalted(cb) THEN <<"trigger">> ELSE <<>>
                second == IF legs = 2 /\ AllHalted(cb') THEN <<"trigger">> ELSE <<>>
            IN  /\ Len(tasks \o first \o second) <= MaxTasks
                /\ tasks' = tasks \o first \o second
      BY <1>1, Zenon DEF Request
    <3>2. tasks \in Seq(Calls) /\ <<"trigger">> \in Seq(Calls) /\ <<>> \in Seq(Calls)
      <4>1. "trigger" \in Calls
        BY DEF Calls
      <4>2. tasks \in Seq(Calls)
        BY DEF TypeInv, BreakerTypeOK
      <4> QED BY <4>1, <4>2
    <3> DEFINE first == IF AllHalted(cb) THEN <<"trigger">> ELSE <<>>
               second == IF legs = 2 /\ AllHalted(cb') THEN <<"trigger">> ELSE <<>>
    <3>3. first \in Seq(Calls) /\ second \in Seq(Calls)
      BY <3>2
    <3>4. tasks' = tasks \o first \o second /\ Len(tasks') <= MaxTasks
      BY <3>1
    <3> HIDE DEF first, second
    <3>5. tasks' \in Seq(Calls)
      BY <3>2, <3>3, <3>4
    <3> QED BY <3>4, <3>5
  <2> QED BY <1>1, <2>1, <2>2, <2>3 DEF Request, TypeInv, BreakerTypeOK
<1>2. CASE Result(s)
  <2>1. inFlight' \in [Traders -> 0..MaxTrades]
    BY <1>0, <1>2 DEF Result, TypeInv, BreakerTypeOK
  <2>2. tasks' \in Seq(Calls) /\ Len(tasks') <= MaxTasks /\ booking' \subseteq Traders
    <3>1. CASE UNCHANGED <<tasks, booking>>
      BY <3>1 DEF TypeInv, BreakerTypeOK
    <3>2. ASSUME NEW call \in Calls, Len(tasks) < MaxTasks, tasks' = Append(tasks, call),
                 booking' = IF call = "rollback" THEN booking ELSE booking \cup {s}
          PROVE  tasks' \in Seq(Calls) /\ Len(tasks') <= MaxTasks /\ booking' \subseteq Traders
      <4>1. tasks \in Seq(Calls)
        BY DEF TypeInv, BreakerTypeOK
      <4>2. tasks' \in Seq(Calls) /\ Len(tasks') <= MaxTasks
        BY <1>0, <3>2, <4>1
      <4> QED BY <3>2, <4>2 DEF TypeInv, BreakerTypeOK
    <3> QED BY <1>2, <3>1, <3>2 DEF Result
  <2> QED BY <1>2, <2>1, <2>2 DEF Result, TypeInv, BreakerTypeOK
<1>3. CASE Book(s)
  <2>1. /\ cb' \in [Traders -> {"unknown", "ACTIVE", "HALTED"}] /\ halts' \in 0..MaxHalts
        /\ haltAge' \in [Traders -> 0..HaltTicks]
    <3>1. CASE UNCHANGED <<cb, haltAge, halts>>
      BY <3>1 DEF TypeInv, BreakerTypeOK
    <3>2. CASE /\ halts < MaxHalts /\ halts' = halts + 1
               /\ cb' = [cb EXCEPT ![s] = "HALTED"] /\ haltAge' = [haltAge EXCEPT ![s] = 0]
      BY <1>0, <3>2 DEF TypeInv, BreakerTypeOK
    <3> QED BY <1>3, <3>1, <3>2 DEF Book
  <2>2. booking' \subseteq Traders
    BY <1>3 DEF Book, TypeInv, BreakerTypeOK
  <2> QED BY <1>3, <2>1, <2>2 DEF Book, TypeInv, BreakerTypeOK
<1> QED BY <1>1, <1>2, <1>3

\* so does a call of the breaker,
LEMMA CallTypes ==
  ASSUME TypeInv, RunTask
  PROVE  BreakerTypeOK'
<1>0. LossLimit \in Nat \ {0} /\ TestWins \in Nat \ {0} /\ Cooldown \in Nat \ {0}
      /\ MaxTasks \in Nat
  BY BreakersAssumption
<1>1. tasks' \in Seq(Calls) /\ Len(tasks') <= MaxTasks
  BY <1>0 DEF RunTask, TypeInv, BreakerTypeOK
<1> DEFINE Own ==
      /\ breaker' \in {"CLOSED", "OPEN", "HALF_OPEN"} /\ losses' \in 0..LossLimit
      /\ deep' \in BOOLEAN /\ successes' \in 0..TestWins /\ sleeps' \in 0..Cooldown
      /\ wins' \in 0..TestWins
<1>2. ASSUME NEW call, RecordLoss(call) PROVE Own
  <2>1. losses' \in 0..LossLimit /\ wins' = 0
    <3>1. losses' = IF losses < LossLimit THEN losses + 1 ELSE losses
      BY <1>2, Zenon DEF RecordLoss
    <3>2. wins' = 0
      BY <1>2, Zenon DEF RecordLoss
    <3> QED BY <1>0, <3>1, <3>2 DEF TypeInv, BreakerTypeOK
  <2>2. deep' \in BOOLEAN
    BY <1>2, Zenon DEF RecordLoss, TypeInv, BreakerTypeOK
  <2>3. Open \/ Stay
    BY <1>2, Zenon DEF RecordLoss
  <2>4. /\ breaker' \in {"CLOSED", "OPEN", "HALF_OPEN"} /\ sleeps' \in 0..Cooldown
        /\ successes' \in 0..TestWins
    BY <1>0, <2>3 DEF Open, Stay, TypeInv, BreakerTypeOK
  <2> QED BY <1>0, <2>1, <2>2, <2>4
<1>3. ASSUME NEW call, RecordWin(call) PROVE Own
  <2>1. UNCHANGED deep /\ losses' = 0
    BY <1>3 DEF RecordWin
  <2>2. /\ breaker' \in {"CLOSED", "OPEN", "HALF_OPEN"} /\ sleeps' \in 0..Cooldown
        /\ successes' \in 0..TestWins /\ wins' \in 0..TestWins
    BY <1>0, <1>3 DEF RecordWin, Stay, TypeInv, TestInv, BreakerTypeOK
  <2> QED BY <1>0, <2>1, <2>2 DEF TypeInv, BreakerTypeOK
<1>4. ASSUME NEW call, TriggerManual(call) PROVE Own
  BY <1>0, <1>4 DEF TriggerManual, Open, Stay, TypeInv, BreakerTypeOK
<1>5. Own
  BY <1>2, <1>3, <1>4 DEF RunTask
<1> QED BY <1>1, <1>5 DEF RunTask, TypeInv, BreakerTypeOK

\* and so does a tick.
LEMMA TickTypes ==
  ASSUME TypeInv, BreakerTick
  PROVE  BreakerTypeOK'
<1>0. Cooldown \in Nat \ {0} /\ HaltTicks \in Nat \ {0} /\ TestWins \in Nat \ {0}
  BY BreakersAssumption
<1>1. haltAge' \in [Traders -> 0..HaltTicks]
  BY <1>0 DEF BreakerTick, TypeInv, BreakerTypeOK
<1>2. sleeps' \in 0..Cooldown
  BY <1>0 DEF BreakerTick, TypeInv, BreakerTypeOK
<1>3. /\ breaker' \in {"CLOSED", "OPEN", "HALF_OPEN"}
      /\ successes' \in 0..TestWins /\ wins' \in 0..TestWins
  BY <1>0 DEF BreakerTick, HalfOpen, TypeInv, BreakerTypeOK
<1> QED BY <1>1, <1>2, <1>3 DEF BreakerTick, TypeInv, BreakerTypeOK

\* Every variable of the breakers has its type: the counted wins of a test phase
\* stop at the number that ends it.
THEOREM BreakerTypes == BreakerSpec => []BreakerTypeOK
<1>1. BreakerInit => TypeInv
  <2> SUFFICES ASSUME BreakerInit PROVE BreakerTypeOK
    BY TestInvInit DEF TypeInv
  <2>1. tasks \in Seq(Calls) /\ Len(tasks) = 0
    BY DEF BreakerInit
  <2>2. /\ cb \in [Traders -> {"unknown", "ACTIVE", "HALTED"}]
        /\ haltAge \in [Traders -> 0..HaltTicks] /\ inFlight \in [Traders -> 0..MaxTrades]
    BY BreakersAssumption DEF BreakerInit
  <2>3. /\ losses \in 0..LossLimit /\ successes \in 0..TestWins /\ sleeps \in 0..Cooldown
        /\ Len(tasks) <= MaxTasks /\ halts \in 0..MaxHalts /\ wins \in 0..TestWins
    BY <2>1, BreakersAssumption DEF BreakerInit
  <2>4. /\ breaker \in {"CLOSED", "OPEN", "HALF_OPEN"} /\ deep \in BOOLEAN
        /\ booking \subseteq Traders
    BY DEF BreakerInit
  <2> QED BY <2>1, <2>2, <2>3, <2>4 DEF BreakerTypeOK
<1>2. TypeInv /\ [BreakerNext]_breakerVars => TypeInv'
  <2> SUFFICES ASSUME TypeInv, [BreakerNext]_breakerVars PROVE BreakerTypeOK'
    BY TestInvStep DEF TypeInv
  <2>1. CASE UNCHANGED breakerVars
    BY <2>1 DEF breakerVars, TypeInv, BreakerTypeOK
  <2> QED BY <2>1, StrategyTypes, CallTypes, TickTypes DEF BreakerNext
<1> QED BY <1>1, <1>2, PTL DEF BreakerSpec, TypeInv
=============================================================================
