-------------------------- MODULE OrderPath_proofs --------------------------
(***************************************************************************)
(* Theorems about what lies before, behind and around the two-leg          *)
(* executor, for any requests, calls, orders, exchanges and executions:    *)
(* OrderEntry, MultiLeg, TradeRequests and EngineRun, one after the other. *)
(***************************************************************************)
EXTENDS TradeRequests, MultiLeg, OrderEntry, EngineRun, CollectionLemmas, TLAPS

(***************************************************************************)
(* OrderEntry.                                                             *)
(***************************************************************************)

EntryTypes ==
  /\ step \in [Orders -> Steps] /\ report \in [Orders -> Reports]
  /\ answeredBy \in [Orders -> SUBSET Orders] /\ noticed \subseteq Orders
  /\ \A a \in answers : a.order \in Orders

\* Only an order that waits for its answer has a future an answer can resolve:
\* a future that a failed send left behind gets none.
AwaitedInv ==
  \A a \in answers :
    /\ step[a.order] \notin {"new", "closing", "connecting"}
    /\ a.order \in futures => step[a.order] = "asked"

\* A fill that was dispatched early lies in the buffer until the answer comes,
\* or the order has gone to REST, or it is what was reported.
NoticedInv ==
  \A o \in Orders :
    /\ step[o] # "done" => report[o] = "none"
    /\ o \in noticed =>
         \/ step[o] = "asked" /\ o \in buffer /\ events # "none"
         \/ step[o] = "rest"
         \/ step[o] = "done" /\ report[o] \notin {"poll", "assumed"}

EntryInv ==
  EntryTypes /\ AwaitedInv /\ NoticedInv /\ \A o \in Orders : answeredBy[o] \subseteq {o}

LEMMA EntryInit == OrderInit => EntryInv
BY DEF OrderInit, EntryInv, EntryTypes, AwaitedInv, NoticedInv, Steps, Reports

\* What a step of order o does to the others: nothing.
Alone(o) ==
  /\ \A q \in Orders \ {o} : step'[q] = step[q] /\ report'[q] = report[q]
  /\ \A q \in Orders \ {o} : answeredBy'[q] = answeredBy[q] /\ (q \in futures' <=> q \in futures)
  /\ \A q \in Orders \ {o} : (q \in buffer' <=> q \in buffer) /\ (q \in noticed' <=> q \in noticed)
  /\ \A a \in answers' : a \in answers \/ a.order = o
  /\ events # "none" => events' # "none"

\* An invariant of the single order is all there is to show.
EntryOf(o) ==
  /\ step'[o] \in Steps /\ report'[o] \in Reports /\ answeredBy'[o] \subseteq {o}
  /\ \A a \in answers' : a.order = o =>
        /\ step'[o] \notin {"new", "closing", "connecting"}
        /\ o \in futures' => step'[o] = "asked"
  /\ step'[o] # "done" => report'[o] = "none"
  /\ o \in noticed' =>
       \/ step'[o] = "asked" /\ o \in buffer' /\ events' # "none"
       \/ step'[o] = "rest"
       \/ step'[o] = "done" /\ report'[o] \notin {"poll", "assumed"}

LEMMA EntryStep ==
  ASSUME EntryInv, NEW o \in Orders, Alone(o), EntryOf(o), noticed' \subseteq Orders,
         step' = [step EXCEPT ![o] = step'[o]],
         report' = [report EXCEPT ![o] = report'[o]],
         answeredBy' = [answeredBy EXCEPT ![o] = answeredBy'[o]]
  PROVE  EntryInv'
<1>1. EntryTypes'
  BY DEF EntryInv, EntryTypes, EntryOf, Alone
<1>2. AwaitedInv'
  BY DEF EntryInv, EntryTypes, AwaitedInv, EntryOf, Alone
<1>3. NoticedInv'
  BY DEF EntryInv, EntryTypes, NoticedInv, EntryOf, Alone
<1>4. \A q \in Orders : answeredBy'[q] \subseteq {q}
  BY DEF EntryInv, EntryTypes, EntryOf, Alone
<1> QED BY <1>1, <1>2, <1>3, <1>4 DEF EntryInv

\* The request leaves, or its send raises.
LEMMA SendKeeps ==
  ASSUME EntryInv, NEW o \in Orders, NEW n, SendOn(o, n),
         step[o] \in {"new", "connecting"}, UNCHANGED <<fills, answeredBy, report>>
  PROVE  EntryInv'
<1> USE DEF EntryInv, EntryTypes
<1>1. /\ step' = [step EXCEPT ![o] = step'[o]] /\ step'[o] \in {"rest", "asked"}
      /\ futures' = futures \cup {o}
      /\ \A a \in answers' : a \in answers \/ (a.order = o /\ step'[o] = "asked")
  BY DEF SendOn, Goto
<1>2. o \notin noticed /\ \A a \in answers : a.order # o
  BY DEF NoticedInv, AwaitedInv
<1>3. Alone(o)
  BY <1>1 DEF Alone, fills
<1>4. EntryOf(o)
  BY <1>1, <1>2 DEF EntryOf, fills, Steps, Reports, NoticedInv
<1> QED BY <1>1, <1>3, <1>4, EntryStep DEF fills

\* An order that goes on without a word from the exchange.
LEMMA GotoKeeps ==
  ASSUME EntryInv, NEW o \in Orders, NEW s \in {"closing", "connecting"}, Goto(o, s),
         step[o] \in {"new", "closing"}, UNCHANGED <<fills, futures, answers, answeredBy, report>>
  PROVE  EntryInv'
<1> USE DEF EntryInv, EntryTypes, Goto, fills
<1>1. o \notin noticed /\ \A a \in answers : a.order # o
  BY DEF NoticedInv, AwaitedInv
<1>2. Alone(o)
  BY DEF Alone
<1>3. EntryOf(o)
  BY <1>1 DEF EntryOf, Steps, Reports, NoticedInv
<1> QED BY <1>2, <1>3, EntryStep

LEMMA ConnectionKeeps ==
  ASSUME EntryInv, NEW o \in Orders, Begin(o) \/ Closed(o) \/ Connected(o)
  PROVE  EntryInv'
<1>1. CASE Begin(o)
  <2>1. CASE \E s \in {"closing", "connecting"} : Goto(o, s) /\ UNCHANGED <<futures, answers>>
    BY <1>1, <2>1, GotoKeeps DEF Begin
  <2>2. CASE SendOn(o, ws)
    BY <1>1, <2>2, SendKeeps DEF Begin
  <2> QED BY <1>1, <2>1, <2>2 DEF Begin
<1>2. CASE Closed(o)
  BY <1>2, GotoKeeps DEF Closed
<1>3. CASE Connected(o)
  <2>1. CASE SendOn(o, opened')
    BY <1>3, <2>1, SendKeeps DEF Connected
  <2>2. CASE Goto(o, "rest") /\ UNCHANGED <<futures, answers>>
    <3> USE DEF EntryInv, EntryTypes, Goto, fills
    <3>1. step[o] = "connecting" /\ UNCHANGED <<fills, answeredBy, report>>
      BY <1>3 DEF Connected
    <3>2. o \notin noticed /\ \A a \in answers : a.order # o
      BY <3>1 DEF NoticedInv, AwaitedInv
    <3>3. Alone(o)
      BY <2>2, <3>1 DEF Alone
    <3>4. EntryOf(o)
      BY <2>2, <3>1, <3>2 DEF EntryOf, Steps, Reports, NoticedInv
    <3> QED BY <2>2, <3>1, <3>3, <3>4, EntryStep
  <2> QED BY <1>3, <2>1, <2>2 DEF Connected
<1> QED BY <1>1, <1>2, <1>3

\* An answer resolves the future of its own order, which then reports the fill
\* that came before it, or waits for the event.
LEMMA AnswerKeeps ==
  ASSUME EntryInv, NEW a \in answers, Answer(a)
  PROVE  EntryInv'
<1> USE DEF EntryInv, EntryTypes
<1>1. CASE Addressed(a) = {}
  BY <1>1 DEF Answer, AwaitedInv, NoticedInv
<1>2. CASE Addressed(a) # {}
  <2>1. PICK o \in Addressed(a) :
          /\ futures' = futures \ {o}
          /\ answeredBy' = [answeredBy EXCEPT ![o] = @ \cup {a.order}]
          /\ \/ a.accepted /\ filled[o] /\ Done(o, "answer") /\ UNCHANGED <<events, buffer>>
             \/ a.accepted /\ AwaitFill(o)
             \/ ~a.accepted /\ Goto(o, "rest") /\ UNCHANGED <<events, buffer, report>>
    BY <1>2 DEF Answer
  <2>2. o \in Orders /\ o = a.order /\ step[o] = "asked" /\ report[o] = "none"
    BY <2>1 DEF Addressed, AwaitedInv, NoticedInv
  <2>3. answers' = answers \ {a} /\ UNCHANGED noticed
    BY DEF Answer
  <2>4. \/ Goto(o, "rest") /\ UNCHANGED <<events, buffer, report>>
        \/ /\ \E what \in {"answer", "event"} : Done(o, what)
           /\ buffer \ {o} \subseteq buffer' /\ buffer' \subseteq buffer /\ UNCHANGED events
        \/ /\ \E s \in {"polling", "waiting"} : Goto(o, s)
           /\ UNCHANGED <<buffer, report>> /\ (events # "none" => events' # "none")
           /\ o \notin buffer \/ events = "none"
    BY <2>1 DEF AwaitFill
  <2>5. o \in noticed => o \in buffer /\ events # "none"
    BY <2>2 DEF NoticedInv
  <2>6. answeredBy'[o] \subseteq {o} /\ answeredBy' = [answeredBy EXCEPT ![o] = answeredBy'[o]]
    BY <2>1, <2>2
  <2>7. /\ step' = [step EXCEPT ![o] = step'[o]] /\ report' = [report EXCEPT ![o] = report'[o]]
        /\ step'[o] \in {"rest", "done", "polling", "waiting"}
        /\ report'[o] = "none" \/ (step'[o] = "done" /\ report'[o] \in {"answer", "event"})
    BY <2>2, <2>4 DEF Goto, Done
  <2>8. Alone(o)
    BY <2>1, <2>3, <2>4, <2>6, <2>7 DEF Alone
  <2>9. o \in noticed => step'[o] \in {"rest", "done"}
    BY <2>2, <2>4, <2>5 DEF Goto, Done
  <2>10. EntryOf(o)
    BY <2>1, <2>2, <2>3, <2>4, <2>6, <2>7, <2>9 DEF EntryOf, Steps, Reports, Goto, Done
  <2> QED BY <2>2, <2>3, <2>6, <2>7, <2>8, <2>10, EntryStep
<1> QED BY <1>1, <1>2

LEMMA ConfirmationKeeps ==
  ASSUME EntryInv, NEW o \in Orders, NoAnswer(o) \/ NoEvent(o) \/ Polled(o) \/ Rest(o)
  PROVE  EntryInv'
<1> USE DEF EntryInv, EntryTypes, Goto, Done
<1>1. /\ UNCHANGED <<answers, answeredBy, fills>> /\ futures' \in {futures, futures \ {o}}
      /\ step' = [step EXCEPT ![o] = step'[o]] /\ report' = [report EXCEPT ![o] = report'[o]]
  BY DEF NoAnswer, NoEvent, Polled, Rest
<1>2. Alone(o)
  BY <1>1 DEF Alone, fills
<1>3. EntryOf(o)
  BY <1>1 DEF EntryOf, NoAnswer, NoEvent, Polled, Rest, AwaitedInv, NoticedInv, Steps, Reports, fills
<1> QED BY <1>1, <1>2, <1>3, EntryStep DEF fills

LEMMA FilledKeeps ==
  ASSUME EntryInv, NEW o \in Orders, Filled(o)
  PROVE  EntryInv'
<1> USE DEF EntryInv, EntryTypes, Goto, Done
<1>1. /\ UNCHANGED <<answers, answeredBy, futures, events>>
      /\ step' = [step EXCEPT ![o] = step'[o]] /\ report' = [report EXCEPT ![o] = report'[o]]
      /\ noticed \subseteq noticed' /\ noticed' \subseteq noticed \cup {o}
      /\ buffer \subseteq buffer' /\ buffer' \subseteq buffer \cup {o}
  BY DEF Filled, DispatchEvent
<1>2. Alone(o)
  BY <1>1 DEF Alone, Filled, DispatchEvent
<1>3. EntryOf(o)
  BY <1>1 DEF EntryOf, Filled, DispatchEvent, AwaitedInv, NoticedInv, Steps, Reports
<1> QED BY <1>1, <1>2, <1>3, EntryStep

LEMMA EntryNext ==
  ASSUME EntryInv, [OrderNext]_orderVars
  PROVE  EntryInv'
<1>1. CASE \E n \in alive : Drop(n)
  BY <1>1 DEF Drop, fills, EntryInv, EntryTypes, AwaitedInv, NoticedInv
<1>2. CASE StreamMoves
  BY <1>2 DEF StreamMoves, EntryInv, EntryTypes, AwaitedInv, NoticedInv
<1>3. CASE UNCHANGED orderVars
  BY <1>3 DEF orderVars, socketState, EntryInv, EntryTypes, AwaitedInv, NoticedInv
<1> QED
  BY <1>1, <1>2, <1>3, ConnectionKeeps, AnswerKeeps, ConfirmationKeeps, FilledKeeps DEF OrderNext

\* However many orders share the adapter and whatever happens to its sockets, an
\* order's future is resolved by its own answer only, and a fill dispatched
\* before its wait was over is what place_order reports.
THEOREM OwnFillReported == OrderSpec => []ReportsOwnFill
<1>1. EntryInv => ReportsOwnFill
  BY DEF EntryInv, EntryTypes, NoticedInv, ReportsOwnFill
<1> QED BY <1>1, EntryInit, EntryNext, PTL DEF OrderSpec

(***************************************************************************)
(* MultiLeg.                                                               *)
(***************************************************************************)

Troubles == {"none", "real", "benign"}
Stages == {"new", "queued", "placing", "unwinding", "returned"}

LegsTypes ==
  /\ stage \in [Calls -> Stages] /\ verdict \in [Calls -> Verdicts]
  /\ trouble \in [Calls -> Troubles]
  /\ completed \in [Calls -> Nat] /\ unwound \in [Calls -> Nat]
  /\ DOMAIN fill = Calls /\ DOMAIN held = Calls
  /\ \A c \in Calls : completed[c] <= LegCount[c]
  /\ \A c \in Calls : fill[c] \in [Legs(c) -> {"none", "most", "little"}]
  /\ \A c \in Calls : held[c] \in [Legs(c) -> BOOLEAN]

\* What a call has to show at each stage: the legs placed so far are held, and
\* of those unwound so far none is, unless an unwinding failed.
CallInv(c) ==
  /\ stage[c] # "returned" => verdict[c] = "none"
  /\ stage[c] \in {"new", "queued"} =>
       completed[c] = 0 /\ trouble[c] = "none" /\ \A i \in Legs(c) : ~held[c][i]
  /\ stage[c] = "placing" =>
       /\ completed[c] < LegCount[c] /\ trouble[c] = "none"
       /\ \A i \in 1..completed[c] : fill[c][i] = "most" /\ held[c][i]
  /\ stage[c] = "unwinding" =>
       /\ unwound[c] \in 1..completed[c]
       /\ trouble[c] = "none" => \A i \in (unwound[c] + 1)..completed[c] : ~held[c][i]
  /\ verdict[c] = "success" => \A i \in Legs(c) : fill[c][i] = "most" /\ held[c][i]
  /\ verdict[c] = "rolled_back" => \A i \in 1..completed[c] : ~held[c][i]
  /\ verdict[c] = "rejected" => \A i \in Legs(c) : ~held[c][i]

LegsInv == LegsTypes /\ \A c \in Calls : CallInv(c)

LEMMA LegsInitInv == LegsInit => LegsInv
BY MultiLegAssumption
   DEF LegsInit, LegsInv, LegsTypes, CallInv, Legs, Stages, Verdicts, Troubles

\* A step of call c leaves the other calls as they are.
Others(c) ==
  \A d \in Calls \ {c} :
    /\ stage'[d] = stage[d] /\ verdict'[d] = verdict[d] /\ trouble'[d] = trouble[d]
    /\ completed'[d] = completed[d] /\ unwound'[d] = unwound[d]
    /\ fill'[d] = fill[d] /\ held'[d] = held[d]

LEMMA CallStep ==
  ASSUME LegsInv, NEW c \in Calls, LegsTypes', Others(c), CallInv(c)'
  PROVE  LegsInv'
BY DEF LegsInv, CallInv, Others

\* What is held after the step is what was, but for leg i of call c.
LEMMA HeldAfter ==
  ASSUME LegsTypes, NEW c \in Calls, NEW i \in Legs(c), NEW b \in BOOLEAN,
         held' = [held EXCEPT ![c][i] = b]
  PROVE  /\ DOMAIN held' = Calls /\ \A d \in Calls : held'[d] \in [Legs(d) -> BOOLEAN]
         /\ \A d \in Calls \ {c} : held'[d] = held[d]
         /\ \A j \in Legs(c) : held'[c][j] = IF j = i THEN b ELSE held[c][j]
<1>1. held' = [held EXCEPT ![c] = [held[c] EXCEPT ![i] = b]]
  OBVIOUS
<1>2. held[c] \in [Legs(c) -> BOOLEAN] /\ DOMAIN held = Calls
  BY DEF LegsTypes
<1>3. held'[c] = [held[c] EXCEPT ![i] = b] /\ \A d \in Calls \ {c} : held'[d] = held[d]
  BY <1>1, <1>2
<1> QED BY <1>1, <1>2, <1>3 DEF LegsTypes

LEMMA FillAfter ==
  ASSUME LegsTypes, NEW c \in Calls, NEW i \in Legs(c), NEW f \in {"most", "little"},
         fill' = [fill EXCEPT ![c][i] = f]
  PROVE  /\ DOMAIN fill' = Calls
         /\ \A d \in Calls : fill'[d] \in [Legs(d) -> {"none", "most", "little"}]
         /\ \A d \in Calls \ {c} : fill'[d] = fill[d]
         /\ \A j \in Legs(c) : fill'[c][j] = IF j = i THEN f ELSE fill[c][j]
<1>1. fill' = [fill EXCEPT ![c] = [fill[c] EXCEPT ![i] = f]]
  OBVIOUS
<1>2. fill[c] \in [Legs(c) -> {"none", "most", "little"}] /\ DOMAIN fill = Calls
  BY DEF LegsTypes
<1>3. fill'[c] = [fill[c] EXCEPT ![i] = f] /\ \A d \in Calls \ {c} : fill'[d] = fill[d]
  BY <1>1, <1>2
<1> QED BY <1>1, <1>2, <1>3 DEF LegsTypes

LEMMA EnterKeeps ==
  ASSUME LegsInv, NEW c \in Calls, Enter(c) \/ Granted(c)
  PROVE  LegsInv'
<1> USE DEF LegsInv, LegsTypes, Return, Stages, Verdicts
<1>1. LegsTypes'
  BY DEF Enter, Granted
<1>2. Others(c)
  BY DEF Enter, Granted, Others
<1>3. CallInv(c)'
  <2>1. CASE Enter(c)
    BY <2>1 DEF Enter, CallInv, Legs
  <2>2. CASE Granted(c)
    <3>1. /\ stage'[c] = "placing" /\ verdict'[c] = "none" /\ trouble'[c] = "none"
          /\ completed'[c] = 0
      BY <2>2 DEF Granted, CallInv
    <3>2. LegCount[c] > 0
      BY MultiLegAssumption
    <3> QED BY <3>1, <3>2 DEF CallInv
  <2> QED BY <2>1, <2>2
<1> QED BY <1>1, <1>2, <1>3, CallStep

\* A call that places legs has answers for the first of them, all filled.
LEMMA Placing ==
  ASSUME LegsInv, NEW c \in Calls, stage[c] = "placing"
  PROVE  /\ completed[c] \in Nat /\ LegCount[c] \in Nat /\ completed[c] < LegCount[c]
         /\ completed[c] + 1 \in Legs(c)
         /\ verdict[c] = "none" /\ trouble[c] = "none"
         /\ \A j \in 1..completed[c] : fill[c][j] = "most" /\ held[c][j]
<1>1. CallInv(c) /\ completed[c] \in Nat /\ LegCount[c] \in Nat
  BY MultiLegAssumption DEF LegsInv, LegsTypes
<1>2. /\ completed[c] < LegCount[c] /\ verdict[c] = "none" /\ trouble[c] = "none"
      /\ \A j \in 1..completed[c] : fill[c][j] = "most" /\ held[c][j]
  BY <1>1 DEF CallInv
<1> QED BY <1>1, <1>2 DEF Legs

\* One that unwinds has the turn of a leg that was answered.
LEMMA Unwinding ==
  ASSUME LegsInv, NEW c \in Calls, stage[c] = "unwinding"
  PROVE  /\ completed[c] \in Nat /\ LegCount[c] \in Nat /\ completed[c] <= LegCount[c]
         /\ unwound[c] \in 1..completed[c] /\ unwound[c] \in Nat /\ unwound[c] \in Legs(c)
         /\ verdict[c] = "none"
<1>1. /\ CallInv(c) /\ completed[c] \in Nat /\ LegCount[c] \in Nat
      /\ completed[c] <= LegCount[c] /\ unwound[c] \in Nat
  BY MultiLegAssumption DEF LegsInv, LegsTypes
<1>2. unwound[c] \in 1..completed[c] /\ verdict[c] = "none"
  BY <1>1 DEF CallInv
<1> QED BY <1>1, <1>2 DEF Legs

\* The unwinding begins with the last completed leg, or there is none.
LEMMA StartsUnwinding ==
  ASSUME LegsTypes, NEW c \in Calls, NEW k \in Nat, StartUnwinding(c, k)
  PROVE  /\ stage' \in [Calls -> Stages] /\ verdict' \in [Calls -> Verdicts]
         /\ unwound' \in [Calls -> Nat] /\ unwound'[c] = k
         /\ k = 0 => stage'[c] = "returned" /\ verdict'[c] = "rolled_back"
         /\ k # 0 => stage'[c] = "unwinding" /\ verdict'[c] = verdict[c]
         /\ \A d \in Calls \ {c} : /\ stage'[d] = stage[d] /\ verdict'[d] = verdict[d]
                                   /\ unwound'[d] = unwound[d]
<1>1. CASE k = 0
  BY <1>1 DEF LegsTypes, StartUnwinding, Return, Stages, Verdicts
<1>2. CASE k # 0
  BY <1>2 DEF LegsTypes, StartUnwinding, Return, Stages, Verdicts
<1> QED BY <1>1, <1>2

LEMMA AnsweredKeeps ==
  ASSUME LegsInv, NEW c \in Calls, Answered(c)
  PROVE  LegsInv'
<1> DEFINE i == completed[c] + 1
<1>0. /\ i \in Legs(c) /\ i \in Nat /\ i # 0 /\ LegCount[c] \in Nat
      /\ completed' = [completed EXCEPT ![c] = i] /\ trouble' = trouble
      /\ completed[c] \in Nat /\ stage[c] = "placing" /\ verdict[c] = "none"
      /\ i <= LegCount[c]
  BY Placing DEF Answered
<1>1. CASE /\ fill' = [fill EXCEPT ![c][i] = "most"] /\ held' = [held EXCEPT ![c][i] = TRUE]
           /\ IF i = LegCount[c] THEN Return(c, "success") /\ line' = Tail(line)
              ELSE UNCHANGED <<stage, verdict, line>>
           /\ UNCHANGED unwound
  <2>1. /\ DOMAIN held' = Calls /\ \A d \in Calls : held'[d] \in [Legs(d) -> BOOLEAN]
        /\ \A d \in Calls \ {c} : held'[d] = held[d]
        /\ \A j \in Legs(c) : held'[c][j] = IF j = i THEN TRUE ELSE held[c][j]
    BY <1>0, <1>1, HeldAfter DEF LegsInv
  <2>2. /\ DOMAIN fill' = Calls
        /\ \A d \in Calls : fill'[d] \in [Legs(d) -> {"none", "most", "little"}]
        /\ \A d \in Calls \ {c} : fill'[d] = fill[d]
        /\ \A j \in Legs(c) : fill'[c][j] = IF j = i THEN "most" ELSE fill[c][j]
    BY <1>0, <1>1, FillAfter DEF LegsInv
  <2>3. \A j \in 1..i : fill'[c][j] = "most" /\ held'[c][j]
    <3> SUFFICES ASSUME NEW j \in 1..i PROVE fill'[c][j] = "most" /\ held'[c][j]
      OBVIOUS
    <3>1. j \in Legs(c) /\ (j = i \/ j \in 1..completed[c])
      BY <1>0 DEF Legs
    <3>2. CASE j = i
      BY <2>1, <2>2, <3>1, <3>2
    <3>3. CASE j # i
      <4>1. fill[c][j] = "most" /\ held[c][j]
        BY <1>0, <3>1, <3>3, Placing
      <4> QED BY <2>1, <2>2, <3>1, <3>3, <4>1
    <3> QED BY <3>2, <3>3
  <2>4. /\ stage' \in [Calls -> Stages] /\ verdict' \in [Calls -> Verdicts]
        /\ \A d \in Calls \ {c} : stage'[d] = stage[d] /\ verdict'[d] = verdict[d]
        /\ i = LegCount[c] => stage'[c] = "returned" /\ verdict'[c] = "success"
        /\ i # LegCount[c] => stage'[c] = "placing" /\ verdict'[c] = "none"
    BY <1>0, <1>1 DEF LegsInv, LegsTypes, Return, Stages, Verdicts
  <2> HIDE DEF i
  <2>5. LegsTypes'
    BY <1>0, <1>1, <2>1, <2>2, <2>4 DEF LegsInv, LegsTypes, Legs
  <2>6. Others(c)
    BY <1>0, <1>1, <2>1, <2>2, <2>4 DEF LegsInv, LegsTypes, Others
  <2>7. completed'[c] = i /\ trouble'[c] = "none"
    BY <1>0 DEF LegsInv, LegsTypes, CallInv
  <2>8. CallInv(c)'
    BY <1>0, <2>3, <2>4, <2>7 DEF CallInv, Legs
  <2> QED BY <2>5, <2>6, <2>8, CallStep
<1>2. CASE /\ fill' = [fill EXCEPT ![c][i] = "little"]
           /\ held' \in {held, [held EXCEPT ![c][i] = TRUE]}
           /\ StartUnwinding(c, i)
  <2>1. /\ DOMAIN held' = Calls /\ \A d \in Calls : held'[d] \in [Legs(d) -> BOOLEAN]
        /\ \A d \in Calls \ {c} : held'[d] = held[d]
    BY <1>0, <1>2, HeldAfter DEF LegsInv, LegsTypes
  <2>2. /\ DOMAIN fill' = Calls
        /\ \A d \in Calls : fill'[d] \in [Legs(d) -> {"none", "most", "little"}]
        /\ \A d \in Calls \ {c} : fill'[d] = fill[d]
    BY <1>0, <1>2, FillAfter DEF LegsInv
  <2>3. /\ stage' \in [Calls -> Stages] /\ verdict' \in [Calls -> Verdicts]
        /\ unwound' \in [Calls -> Nat] /\ unwound'[c] = i
        /\ stage'[c] = "unwinding" /\ verdict'[c] = "none"
        /\ \A d \in Calls \ {c} : /\ stage'[d] = stage[d] /\ verdict'[d] = verdict[d]
                                  /\ unwound'[d] = unwound[d]
    BY <1>0, <1>2, StartsUnwinding DEF LegsInv
  <2> HIDE DEF i
  <2>4. LegsTypes'
    <3>1. /\ completed' \in [Calls -> Nat] /\ trouble' \in [Calls -> Troubles]
          /\ \A d \in Calls : completed'[d] <= LegCount[d]
      BY <1>0 DEF LegsInv, LegsTypes
    <3> QED BY <2>1, <2>2, <2>3, <3>1 DEF LegsTypes
  <2>5. Others(c)
    BY <1>0, <2>1, <2>2, <2>3 DEF LegsInv, LegsTypes, Others
  <2>6. completed'[c] = i
    BY <1>0 DEF LegsInv, LegsTypes
  <2>7. CallInv(c)'
    BY <1>0, <2>3, <2>6 DEF CallInv
  <2> QED BY <2>4, <2>5, <2>7, CallStep
<1> QED BY <1>1, <1>2 DEF Answered

LEMMA FailedKeeps ==
  ASSUME LegsInv, NEW c \in Calls, Failed(c)
  PROVE  LegsInv'
<1> DEFINE i == completed[c] + 1
<1>0. /\ i \in Legs(c) /\ completed[c] \in Nat /\ LegCount[c] \in Nat
      /\ UNCHANGED <<completed, trouble, fill>> /\ verdict[c] = "none"
      /\ held' \in {held, [held EXCEPT ![c][i] = TRUE]}
      /\ StartUnwinding(c, completed[c])
  BY Placing DEF Failed
<1> HIDE DEF i
<1>1. /\ DOMAIN held' = Calls /\ \A d \in Calls : held'[d] \in [Legs(d) -> BOOLEAN]
      /\ \A d \in Calls \ {c} : held'[d] = held[d]
  BY <1>0, HeldAfter DEF LegsInv, LegsTypes
<1>2. /\ stage' \in [Calls -> Stages] /\ verdict' \in [Calls -> Verdicts]
      /\ unwound' \in [Calls -> Nat] /\ unwound'[c] = completed[c]
      /\ completed[c] = 0 => stage'[c] = "returned" /\ verdict'[c] = "rolled_back"
      /\ completed[c] # 0 => stage'[c] = "unwinding" /\ verdict'[c] = "none"
      /\ \A d \in Calls \ {c} : /\ stage'[d] = stage[d] /\ verdict'[d] = verdict[d]
                                /\ unwound'[d] = unwound[d]
  BY <1>0, StartsUnwinding DEF LegsInv
<1>3. LegsTypes'
  BY <1>0, <1>1, <1>2 DEF LegsInv, LegsTypes
<1>4. Others(c)
  BY <1>0, <1>1, <1>2 DEF LegsInv, LegsTypes, Others
<1>5. CallInv(c)'
  BY <1>0, <1>2 DEF CallInv
<1> QED BY <1>3, <1>4, <1>5, CallStep

\* The turn of one leg: with nothing gone wrong it is no longer held.
LEMMA UnwindKeeps ==
  ASSUME LegsInv, NEW c \in Calls, Unwind(c)
  PROVE  LegsInv'
<1> DEFINE k == unwound[c]
<1>0. /\ k \in Legs(c) /\ k \in 1..completed[c] /\ completed[c] \in Nat /\ k \in Nat
      /\ LegCount[c] \in Nat /\ stage[c] = "unwinding" /\ verdict[c] = "none"
      /\ completed[c] <= LegCount[c]
  BY Unwinding DEF Unwind
<1>1. PICK outcome \in Troubles, residual \in {{}, {<<k, "opposite">>}} :
        /\ UnwindNext(c, outcome, residual)
        /\ held' \in {held, [held EXCEPT ![c][k] = FALSE]}
        /\ outcome = "none" => held' = [held EXCEPT ![c][k] = FALSE]
  BY DEF Unwind, Troubles
<1>2. /\ DOMAIN held' = Calls /\ \A d \in Calls : held'[d] \in [Legs(d) -> BOOLEAN]
      /\ \A d \in Calls \ {c} : held'[d] = held[d]
      /\ \A j \in Legs(c) : ~held[c][j] => ~held'[c][j]
      /\ outcome = "none" => ~held'[c][k]
  BY <1>0, <1>1, HeldAfter DEF LegsInv, LegsTypes
<1> DEFINE t == Trouble(c, outcome)
<1>3. /\ UNCHANGED <<completed, fill>>
      /\ trouble' = [trouble EXCEPT ![c] = t] /\ unwound' = [unwound EXCEPT ![c] = k - 1]
      /\ IF k = 1 THEN Return(c, IF trouble'[c] = "none" THEN "rolled_back" ELSE "rollback_failed")
         ELSE UNCHANGED <<stage, verdict>>
  BY <1>1 DEF UnwindNext
<1>4. t \in Troubles /\ (t = "none" => outcome = "none" /\ trouble[c] = "none")
  BY DEF Trouble, LegsInv, LegsTypes, Troubles
<1> HIDE DEF k, t
<1>5. /\ trouble' \in [Calls -> Troubles] /\ unwound' \in [Calls -> Nat]
      /\ trouble'[c] = t /\ unwound'[c] = k - 1
      /\ \A d \in Calls \ {c} : trouble'[d] = trouble[d] /\ unwound'[d] = unwound[d]
  BY <1>0, <1>3, <1>4 DEF LegsInv, LegsTypes
<1>6. /\ stage' \in [Calls -> Stages] /\ verdict' \in [Calls -> Verdicts]
      /\ k = 1 => /\ stage'[c] = "returned"
                  /\ verdict'[c] = IF t = "none" THEN "rolled_back" ELSE "rollback_failed"
      /\ k # 1 => stage'[c] = "unwinding" /\ verdict'[c] = "none"
      /\ \A d \in Calls \ {c} : stage'[d] = stage[d] /\ verdict'[d] = verdict[d]
  <2>1. CASE k = 1
    BY <1>0, <1>3, <1>5, <2>1 DEF LegsInv, LegsTypes, Return, Stages, Verdicts
  <2>2. CASE k # 1
    BY <1>0, <1>3, <2>2 DEF LegsInv, LegsTypes
  <2> QED BY <2>1, <2>2
<1>7. LegsTypes'
  BY <1>2, <1>3, <1>5, <1>6 DEF LegsInv, LegsTypes
<1>8. Others(c)
  BY <1>2, <1>3, <1>5, <1>6 DEF Others
<1>9. t = "none" => \A j \in k..completed[c] : ~held'[c][j]
  <2>1. t = "none" => \A j \in (k + 1)..completed[c] : ~held[c][j]
    BY <1>0, <1>4 DEF LegsInv, CallInv, k
  <2> QED BY <1>0, <1>2, <1>4, <2>1 DEF Legs
<1>10. CallInv(c)'
  BY <1>0, <1>3, <1>5, <1>6, <1>9 DEF CallInv
<1> QED BY <1>7, <1>8, <1>10, CallStep

\* A cancelled call tells its caller nothing of its legs.
LEMMA CancelKeeps ==
  ASSUME LegsInv, NEW c \in Calls, CancelCall(c)
  PROVE  LegsInv'
<1>0. /\ UNCHANGED <<completed, unwound, trouble, fill>> /\ Return(c, "cancelled")
      /\ \/ held' = held
         \/ \E i \in Legs(c), b \in BOOLEAN : held' = [held EXCEPT ![c][i] = b]
  BY Placing, Unwinding DEF CancelCall
<1>1. /\ DOMAIN held' = Calls /\ \A d \in Calls : held'[d] \in [Legs(d) -> BOOLEAN]
      /\ \A d \in Calls \ {c} : held'[d] = held[d]
  BY <1>0, HeldAfter DEF LegsInv, LegsTypes
<1>2. LegsTypes'
  BY <1>0, <1>1 DEF LegsInv, LegsTypes, Return, Stages, Verdicts
<1>3. Others(c)
  BY <1>0, <1>1 DEF LegsInv, LegsTypes, Return, Others
<1>4. CallInv(c)'
  BY <1>0 DEF LegsInv, LegsTypes, Return, CallInv
<1> QED BY <1>2, <1>3, <1>4, CallStep

LEMMA LegsNextInv ==
  ASSUME LegsInv, [LegsNext]_legsVars
  PROVE  LegsInv'
<1>1. CASE UNCHANGED legState
  BY <1>1 DEF legState, LegsInv, LegsTypes, CallInv
<1> QED
  BY <1>1, EnterKeeps, AnsweredKeeps, FailedKeeps, UnwindKeeps, CancelKeeps
     DEF LegsNext, FlagMoves, EntryAges, legsVars

\* With any number of legs and calls, whichever unwindings fail, for whatever
\* reason and in whatever order: success means that every leg stands, rolled back
\* that none of those that were answered does, rejected that none was sent.
THEOREM MultiLegTellsTheTruth == LegsSpec => []LegsTellTheTruth
<1>1. LegsInv => LegsTellTheTruth
  BY DEF LegsInv, CallInv, LegsTellTheTruth
<1> QED BY <1>1, LegsInitInv, LegsNextInv, PTL DEF LegsSpec

(***************************************************************************)
(* TradeRequests.                                                          *)
(***************************************************************************)

\* q was published before r.
Earlier(q, r) ==
  \E m, n \in DOMAIN published : m < n /\ published[m] = q /\ published[n] = r

Ordered(s) == \A i, j \in DOMAIN s : i < j => Earlier(s[i], s[j])
Precedes(s, t) == \A i \in DOMAIN s, j \in DOMAIN t : Earlier(s[i], t[j])
Known(s) == \A i \in DOMAIN s : \E m \in DOMAIN published : published[m] = s[i]

\* What the consumer has still to hand to the executor of its batch.
Ahead == IF phase = "ack" THEN Tail(batch) ELSE batch

RequestTypes ==
  /\ published \in Seq(Requests) /\ stream \in Seq(Requests)
  /\ batch \in Seq(Requests) /\ executed \in Seq(Requests)
  /\ phase \in {"process", "execute", "ack"} => batch # <<>>

\* Nothing is published twice.
PublishedOnce ==
  /\ \A m, n \in DOMAIN published : published[m] = published[n] => m = n
  /\ \A m \in DOMAIN published : published[m] \notin unpublished

\* What was executed was published before all that is ahead, and that before
\* all that was not delivered yet, whatever is pending.
QueueInv ==
  /\ Known(stream) /\ Known(batch) /\ Known(executed)
  /\ Ordered(stream) /\ Ordered(batch) /\ Ordered(executed)
  /\ Precedes(batch, stream) /\ Precedes(executed, stream) /\ Precedes(executed, Ahead)

RequestsInv == RequestTypes /\ PublishedOnce /\ QueueInv

LEMMA RequestsInitInv == RequestsInit => RequestsInv
<1> SUFFICES ASSUME RequestsInit PROVE RequestsInv
  OBVIOUS
<1>1. /\ published = <<>> /\ stream = <<>> /\ batch = <<>> /\ executed = <<>> /\ phase = "poll"
  BY DEF RequestsInit
<1>2. Ahead = <<>>
  BY <1>1 DEF Ahead
<1> QED
  BY <1>1, <1>2
     DEF RequestsInv, RequestTypes, PublishedOnce, QueueInv, Known, Ordered, Precedes

\* s is a part of t without gaps.
Within(s, t) == \E k \in Nat : \A i \in DOMAIN s : i + k \in DOMAIN t /\ s[i] = t[i + k]

LEMMA WithinKeeps ==
  ASSUME NEW S, NEW s \in Seq(S), NEW t \in Seq(S), Within(s, t)
  PROVE  /\ Known(t) => Known(s)
         /\ Ordered(t) => Ordered(s)
         /\ \A u : Precedes(u, t) => Precedes(u, s)
         /\ \A u : Precedes(t, u) => Precedes(s, u)
<1>1. PICK k \in Nat : \A i \in DOMAIN s : i + k \in DOMAIN t /\ s[i] = t[i + k]
  BY DEF Within
<1>2. Known(t) => Known(s)
  BY <1>1 DEF Known
<1>3. \A i, j \in DOMAIN s : i < j => i + k < j + k
  OBVIOUS
<1>4. Ordered(t) => Ordered(s)
  BY <1>1, <1>3 DEF Ordered
<1>5. \A u : Precedes(u, t) => Precedes(u, s)
  BY <1>1 DEF Precedes
<1>6. \A u : Precedes(t, u) => Precedes(s, u)
  BY <1>1 DEF Precedes
<1> QED BY <1>2, <1>4, <1>5, <1>6

LEMMA WithinTrivially ==
  ASSUME NEW S, NEW s \in Seq(S)
  PROVE  Within(s, s) /\ Within(<<>>, s) /\ (s # <<>> => Within(Tail(s), s))
<1>1. \A i \in DOMAIN s : i \in Nat /\ i + 0 = i
  OBVIOUS
<1>2. Within(s, s) /\ Within(<<>>, s)
  BY <1>1 DEF Within
<1>3. s # <<>> => Within(Tail(s), s)
  BY TailElements DEF Within
<1> QED BY <1>2, <1>3

\* A step that neither publishes nor delivers nor executes, and at most lets
\* go of what is waiting.
LEMMA LetsGo ==
  ASSUME RequestsInv, RequestTypes', Ahead \in Seq(Requests), Ahead' \in Seq(Requests),
         UNCHANGED <<published, unpublished, executed>>,
         Within(stream', stream), Within(batch', batch), Within(Ahead', Ahead)
  PROVE  RequestsInv'
<1>1. /\ Known(stream') /\ Known(batch') /\ Known(executed)
      /\ Ordered(stream') /\ Ordered(batch') /\ Ordered(executed)
  BY WithinKeeps DEF RequestsInv, RequestTypes, QueueInv
<1>2. Precedes(batch, stream') /\ Precedes(executed, stream') /\ Precedes(executed, Ahead')
  BY WithinKeeps DEF RequestsInv, RequestTypes, QueueInv
<1>3. Precedes(batch', stream')
  BY <1>2, WithinKeeps DEF RequestsInv, RequestTypes
<1>4. QueueInv'
  BY <1>1, <1>2, <1>3 DEF QueueInv, Known, Ordered, Precedes, Earlier
<1>5. PublishedOnce'
  BY DEF RequestsInv, PublishedOnce
<1> QED BY <1>4, <1>5 DEF RequestsInv

LEMMA AheadWithin ==
  ASSUME RequestTypes
  PROVE  /\ Ahead \in Seq(Requests) /\ Within(Ahead, batch)
         /\ phase = "process" => Ahead = batch
         /\ phase = "ack" => Ahead = Tail(batch)
         /\ phase \in {"process", "ack"} =>
              Tail(batch) \in Seq(Requests) /\ Within(Tail(batch), batch)
<1>1. phase \in {"process", "ack"} =>
        Tail(batch) \in Seq(Requests) /\ Within(Tail(batch), batch)
  BY TailElements, WithinTrivially DEF RequestTypes
<1>2. Within(batch, batch)
  BY WithinTrivially DEF RequestTypes
<1> QED BY <1>1, <1>2 DEF Ahead, RequestTypes

LEMMA ProcessKeeps == ASSUME RequestsInv, Process PROVE RequestsInv'
<1> USE DEF RequestsInv
<1>1. /\ phase = "process" /\ UNCHANGED <<published, unpublished, stream, executed>>
      /\ \/ batch' = batch /\ phase' \in {"ack", "execute"}
         \/ \E rest \in {<<>>, Tail(batch)} : NextMessage(rest)
         \/ batch' = <<>> /\ phase' = "down"
  BY DEF Process, Decide
<1>2. batch' \in Seq(Requests) /\ Within(batch', batch) /\ Ahead' \in {batch', Tail(batch)}
  <2>1. batch' \in {batch, <<>>, Tail(batch)} /\ (phase' = "ack" => batch' = batch)
    BY <1>1 DEF NextMessage
  <2>2. /\ batch \in Seq(Requests) /\ <<>> \in Seq(Requests) /\ Tail(batch) \in Seq(Requests)
        /\ Within(batch, batch) /\ Within(<<>>, batch) /\ Within(Tail(batch), batch)
    BY <1>1, AheadWithin, WithinTrivially, EmptySeq DEF RequestTypes
  <2> QED BY <2>1, <2>2 DEF Ahead
<1>3. phase' \in {"process", "execute", "ack"} => batch' # <<>>
  BY <1>1 DEF NextMessage, RequestTypes
<1>4. RequestTypes'
  BY <1>1, <1>2, <1>3 DEF RequestTypes
<1>5. Ahead' \in Seq(Requests) /\ Within(Ahead', Ahead) /\ Within(stream', stream)
  BY <1>1, <1>2, AheadWithin, WithinTrivially DEF RequestTypes
<1> QED BY <1>1, <1>2, <1>4, <1>5, AheadWithin, LetsGo

LEMMA AckKeeps == ASSUME RequestsInv, Ack PROVE RequestsInv'
<1> USE DEF RequestsInv
<1>1. /\ phase = "ack" /\ UNCHANGED <<published, unpublished, stream, executed>>
      /\ NextMessage(Tail(batch))
  BY DEF Ack
<1>2. batch' = Tail(batch) /\ Ahead' = batch' /\ Ahead = Tail(batch)
  BY <1>1 DEF NextMessage, Ahead
<1>3. RequestTypes'
  BY <1>1, <1>2, AheadWithin DEF RequestTypes, NextMessage
<1>4. Within(batch', batch) /\ Within(Ahead', Ahead) /\ Within(stream', stream)
  BY <1>1, <1>2, AheadWithin, WithinTrivially DEF RequestTypes
<1> QED BY <1>1, <1>2, <1>3, <1>4, AheadWithin, LetsGo

\* The engine stops, or crashes, or starts again, with or without the stream.
LEMMA RestartKeeps == ASSUME RequestsInv, Down \/ Start PROVE RequestsInv'
<1> USE DEF RequestsInv
<1>1. /\ UNCHANGED <<published, unpublished, executed>> /\ stream' \in {stream, <<>>}
      /\ \/ batch' = <<>> /\ phase' = "down"
         \/ batch' = batch /\ phase = "down" /\ phase' = "poll"
  BY DEF Down, Start
<1>2. Ahead' = batch' /\ (batch' = <<>> \/ Ahead' = Ahead)
  BY <1>1 DEF Ahead
<1>3. RequestTypes'
  BY <1>1, EmptySeq DEF RequestTypes
<1>4. Within(batch', batch) /\ Within(Ahead', Ahead) /\ Within(stream', stream)
  BY <1>1, <1>2, AheadWithin, WithinTrivially DEF RequestTypes
<1>5. Ahead' \in Seq(Requests)
  BY <1>2, <1>3 DEF RequestTypes
<1> QED BY <1>1, <1>3, <1>4, <1>5, AheadWithin, LetsGo

LEMMA WorldKeeps ==
  ASSUME RequestsInv, UNCHANGED <<published, unpublished, stream, phase, batch, executed>>
  PROVE  RequestsInv'
<1>1. RequestTypes' /\ Ahead' = Ahead
  BY DEF RequestsInv, RequestTypes, Ahead
<1>2. Within(stream', stream) /\ Within(batch', batch) /\ Within(Ahead', Ahead)
  BY <1>1, AheadWithin, WithinTrivially DEF RequestsInv, RequestTypes
<1> QED BY <1>1, <1>2, AheadWithin, LetsGo DEF RequestsInv

\* A batch is the beginning of the stream: it precedes what stays there.
LEMMA PollKeeps == ASSUME RequestsInv, Poll PROVE RequestsInv'
<1> USE DEF RequestsInv
<1>1. /\ phase = "poll" /\ phase' = "process" /\ batch' = Delivered /\ batch' # <<>>
      /\ stream' = SubSeq(stream, Taken + 1, Len(stream))
      /\ UNCHANGED <<published, unpublished, executed>>
  BY DEF Poll
<1>2. stream \in Seq(Requests) /\ Len(stream) \in Nat /\ Taken \in 0..Len(stream)
  BY TradeRequestsAssumption DEF RequestTypes, Taken
<1>3. /\ batch' \in Seq(Requests)
      /\ \A i \in DOMAIN batch' :
           i \in Nat /\ i \in DOMAIN stream /\ i <= Taken /\ batch'[i] = stream[i]
  BY <1>1, <1>2, PartElements DEF Delivered
<1>4. /\ stream' \in Seq(Requests)
      /\ \A i \in DOMAIN stream' :
           i \in Nat /\ i > 0 /\ Taken + i \in DOMAIN stream /\ stream'[i] = stream[Taken + i]
  <2>1. Taken + 1 \in 1..(Len(stream) + 1) /\ Len(stream) \in 0..Len(stream)
    BY <1>2
  <2>2. \A i : Taken + 1 \in Nat /\ (i \in Nat => Taken + 1 + i - 1 = Taken + i)
    BY <1>2
  <2> QED BY <1>1, <1>2, <2>1, <2>2, PartElements
<1>5. Within(batch', stream) /\ Within(stream', stream)
  <2>1. Taken \in Nat /\ \A i \in Nat : i + 0 = i /\ i + Taken = Taken + i
    BY <1>2
  <2>2. \A i \in DOMAIN batch' : i + 0 \in DOMAIN stream /\ batch'[i] = stream[i + 0]
    BY <1>3, <2>1
  <2>3. \A i \in DOMAIN stream' : i + Taken \in DOMAIN stream /\ stream'[i] = stream[i + Taken]
    BY <1>4, <2>1
  <2> HIDE DEF Taken
  <2> QED BY <2>1, <2>2, <2>3 DEF Within
<1>6. Precedes(batch', stream')
  <2> SUFFICES ASSUME NEW i \in DOMAIN batch', NEW j \in DOMAIN stream'
               PROVE  Earlier(batch'[i], stream'[j])
    BY DEF Precedes
  <2>1. i \in DOMAIN stream /\ Taken + j \in DOMAIN stream /\ i < Taken + j
    BY <1>2, <1>3, <1>4
  <2> QED BY <1>3, <1>4, <2>1 DEF QueueInv, Ordered
<1>7. /\ Known(stream') /\ Known(batch') /\ Ordered(stream') /\ Ordered(batch')
      /\ Precedes(executed, stream') /\ Precedes(executed, batch')
  BY <1>2, <1>3, <1>4, <1>5, WithinKeeps DEF QueueInv
<1>8. Ahead' = batch'
  BY <1>1 DEF Ahead
<1>9. QueueInv'
  <2>0. published' = published /\ executed' = executed
    BY <1>1
  <2>1. Known(executed) /\ Ordered(executed)
    BY DEF QueueInv
  <2>2. (Known(stream) /\ Known(batch) /\ Known(executed))'
    BY <2>0, <1>7, <2>1 DEF Known
  <2>3. (Ordered(stream) /\ Ordered(batch) /\ Ordered(executed))'
    <3>1. Ordered(stream)'
      BY <2>0, <1>7 DEF Ordered, Earlier
    <3>2. Ordered(batch)'
      BY <2>0, <1>7 DEF Ordered, Earlier
    <3>3. Ordered(executed)'
      BY <2>0, <2>1 DEF Ordered, Earlier
    <3> QED BY <3>1, <3>2, <3>3
  <2>4. (Precedes(batch, stream) /\ Precedes(executed, stream) /\ Precedes(executed, Ahead))'
    <3>1. Precedes(batch, stream)'
      BY <2>0, <1>6 DEF Precedes, Earlier
    <3>2. Precedes(executed, stream)'
      BY <2>0, <1>7 DEF Precedes, Earlier
    <3>3. Precedes(executed, Ahead)'
      BY <2>0, <1>7, <1>8 DEF Precedes, Earlier
    <3> QED BY <3>1, <3>2, <3>3
  <2> QED BY <2>2, <2>3, <2>4 DEF QueueInv
<1>10. RequestTypes' /\ PublishedOnce'
  BY <1>1, <1>3, <1>4 DEF RequestTypes, PublishedOnce
<1> QED BY <1>9, <1>10

\* What is executed is the first message of the batch: it was published before
\* the others and before the stream.
LEMMA ExecuteKeeps == ASSUME RequestsInv, Execute PROVE RequestsInv'
<1> USE DEF RequestsInv
<1> DEFINE r == Head(batch)
<1>1. /\ phase = "execute" /\ phase' = "ack" /\ executed' = Append(executed, r)
      /\ UNCHANGED <<published, unpublished, stream, batch>>
  BY DEF Execute
<1>2. /\ batch \in Seq(Requests) /\ batch # <<>> /\ 1 \in DOMAIN batch /\ r = batch[1]
      /\ r \in Requests
  BY <1>1 DEF RequestTypes
<1>3. /\ executed' \in Seq(Requests) /\ Len(executed) \in Nat
      /\ DOMAIN executed = 1..Len(executed) /\ DOMAIN executed' = 1..(Len(executed) + 1)
      /\ \A i \in DOMAIN executed : executed'[i] = executed[i]
      /\ \A i \in DOMAIN executed' :
           i \in DOMAIN executed \/ (i = Len(executed) + 1 /\ executed'[i] = r)
  BY <1>1, <1>2, AppendElements DEF RequestTypes
<1>4. Ahead = batch /\ Ahead' = Tail(batch)
  BY <1>1 DEF Ahead
<1> HIDE DEF r
<1>5. Known(executed')
  BY <1>2, <1>3 DEF Known, QueueInv
<1>6. Ordered(executed')
  <2> SUFFICES ASSUME NEW i \in DOMAIN executed', NEW j \in DOMAIN executed', i < j
               PROVE  Earlier(executed'[i], executed'[j])
    BY DEF Ordered
  <2>1. i \in DOMAIN executed /\ executed'[i] = executed[i]
    BY <1>3
  <2>2. CASE j \in DOMAIN executed
    BY <1>3, <2>1, <2>2 DEF QueueInv, Ordered
  <2>3. CASE executed'[j] = batch[1]
    BY <1>2, <1>4, <2>1, <2>3 DEF QueueInv, Precedes
  <2> QED BY <1>2, <1>3, <2>2, <2>3
<1>7. Precedes(executed', stream)
  BY <1>2, <1>3 DEF QueueInv, Precedes
<1>8. Precedes(executed', Tail(batch))
  <2> SUFFICES ASSUME NEW i \in DOMAIN executed', NEW j \in DOMAIN Tail(batch)
               PROVE  Earlier(executed'[i], Tail(batch)[j])
    BY DEF Precedes
  <2>1. j + 1 \in DOMAIN batch /\ Tail(batch)[j] = batch[j + 1] /\ 1 < j + 1
    BY <1>2, TailElements
  <2>2. CASE i \in DOMAIN executed
    BY <1>3, <1>4, <2>1, <2>2 DEF QueueInv, Precedes
  <2>3. CASE executed'[i] = batch[1]
    BY <1>2, <2>1, <2>3 DEF QueueInv, Ordered
  <2> QED BY <1>2, <1>3, <2>2, <2>3
<1>9. QueueInv'
  <2>0. published' = published /\ stream' = stream /\ batch' = batch
    BY <1>1
  <2>1. (Known(stream) /\ Known(batch) /\ Known(executed))'
    BY <2>0, <1>5 DEF Known, QueueInv
  <2>2. Ordered(stream)' /\ Ordered(batch)' /\ Precedes(batch, stream)'
    BY <2>0 DEF Ordered, Precedes, Earlier, QueueInv
  <2>3. Ordered(executed)'
    BY <2>0, <1>6 DEF Ordered, Earlier
  <2>4. Precedes(executed, stream)'
    BY <2>0, <1>7 DEF Precedes, Earlier
  <2>5. Precedes(executed, Ahead)'
    BY <2>0, <1>4, <1>8 DEF Precedes, Earlier
  <2> QED BY <2>1, <2>2, <2>3, <2>4, <2>5 DEF QueueInv
<1>10. RequestTypes' /\ PublishedOnce'
  BY <1>1, <1>3 DEF RequestTypes, PublishedOnce
<1> QED BY <1>9, <1>10

\* What is published last is behind everything published before.
LEMMA PublishKeeps == ASSUME RequestsInv, NEW r \in Requests, Publish(r) PROVE RequestsInv'
<1> USE DEF RequestsInv
<1>1. /\ r \in unpublished /\ unpublished' = unpublished \ {r}
      /\ stream' = Push(r) /\ published' = Append(published, r)
      /\ UNCHANGED <<phase, batch, executed>> /\ Ahead' = Ahead
  BY DEF Publish, Ahead
<1>2. /\ published' \in Seq(Requests) /\ Len(published) \in Nat
      /\ DOMAIN published = 1..Len(published)
      /\ DOMAIN published' = 1..(Len(published) + 1) /\ published'[Len(published) + 1] = r
      /\ \A m \in DOMAIN published : published'[m] = published[m]
  BY <1>1, AppendElements DEF RequestTypes
<1>3. PICK old \in {stream, Tail(stream)} :
        /\ old \in Seq(Requests) /\ Within(old, stream) /\ stream' = Append(old, r)
  <2>1. CASE InMemory /\ Len(stream) = MaxLen
    <3>1. stream # <<>>
      BY <2>1, TradeRequestsAssumption DEF RequestTypes
    <3> QED BY <1>1, <2>1, <3>1, TailElements, WithinTrivially DEF Push, RequestTypes
  <2>2. CASE ~(InMemory /\ Len(stream) = MaxLen)
    BY <1>1, <2>2, WithinTrivially DEF Push, RequestTypes
  <2> QED BY <2>1, <2>2
<1>4. /\ stream' \in Seq(Requests) /\ Len(old) \in Nat
      /\ DOMAIN old = 1..Len(old) /\ DOMAIN stream' = 1..(Len(old) + 1)
      /\ \A i \in DOMAIN old : stream'[i] = old[i]
      /\ \A i \in DOMAIN stream' : i \in DOMAIN old \/ (i = Len(old) + 1 /\ stream'[i] = r)
  BY <1>3, AppendElements
<1>5. /\ Known(old) /\ Ordered(old) /\ Precedes(batch, old) /\ Precedes(executed, old)
  BY <1>3, WithinKeeps DEF QueueInv, RequestTypes
<1> DEFINE Since(p, q) == \E m, n \in DOMAIN published' :
                             m < n /\ published'[m] = p /\ published'[n] = q
<1>6. \A p, q : Earlier(p, q) => Since(p, q)
  BY <1>2 DEF Earlier
<1>7. \A m \in DOMAIN published : Since(published[m], r)
  <2> SUFFICES ASSUME NEW m \in DOMAIN published PROVE Since(published[m], r)
    OBVIOUS
  <2>1. m \in DOMAIN published' /\ Len(published) + 1 \in DOMAIN published' /\ m < Len(published) + 1
    BY <1>2
  <2> QED BY <1>2, <2>1
<1> HIDE DEF Since
<1>8. RequestTypes'
  BY <1>1, <1>2, <1>4 DEF RequestTypes
<1>9. PublishedOnce'
  <2>1. \A m \in DOMAIN published : published[m] # r
    BY <1>1 DEF PublishedOnce
  <2>2. \A m \in DOMAIN published' : m \in DOMAIN published \/ m = Len(published) + 1
    BY <1>2
  <2> QED BY <1>1, <1>2, <2>1, <2>2 DEF PublishedOnce
<1>10. \A s : Known(s) => \A i \in DOMAIN s : Since(s[i], r)
  BY <1>7 DEF Known
<1>11. \A i, j \in DOMAIN stream' : i < j => Since(stream'[i], stream'[j])
  <2> SUFFICES ASSUME NEW i \in DOMAIN stream', NEW j \in DOMAIN stream', i < j
               PROVE  Since(stream'[i], stream'[j])
    OBVIOUS
  <2>1. i \in DOMAIN old
    BY <1>4
  <2>2. CASE j \in DOMAIN old
    BY <1>4, <1>5, <1>6, <2>1, <2>2 DEF Ordered
  <2>3. CASE stream'[j] = r
    BY <1>4, <1>5, <1>10, <2>1, <2>3
  <2> QED BY <1>4, <2>2, <2>3
<1>12. ASSUME NEW s, Known(s), Precedes(s, old)
       PROVE  \A i \in DOMAIN s, j \in DOMAIN stream' : Since(s[i], stream'[j])
  <2> SUFFICES ASSUME NEW i \in DOMAIN s, NEW j \in DOMAIN stream'
               PROVE  Since(s[i], stream'[j])
    OBVIOUS
  <2>1. CASE j \in DOMAIN old
    BY <1>4, <1>6, <1>12, <2>1 DEF Precedes
  <2>2. CASE stream'[j] = r
    BY <1>10, <1>12, <2>2
  <2> QED BY <1>4, <2>1, <2>2
<1>13. QueueInv'
  <2>0. batch' = batch /\ executed' = executed /\ Ahead' = Ahead
    BY <1>1
  <2>1. \A s : Known(s) => \A i \in DOMAIN s : \E m \in DOMAIN published' : published'[m] = s[i]
    BY <1>2 DEF Known
  <2>2. Known(stream)'
    <3> SUFFICES ASSUME NEW i \in DOMAIN stream'
                 PROVE  \E m \in DOMAIN published' : published'[m] = stream'[i]
      BY DEF Known
    <3>1. CASE i \in DOMAIN old
      BY <1>4, <1>5, <2>1, <3>1
    <3>2. CASE stream'[i] = r
      BY <1>2, <3>2
    <3> QED BY <1>4, <3>1, <3>2
  <2>3. Known(batch)' /\ Known(executed)'
    BY <2>0, <2>1 DEF Known, QueueInv
  <2>4. Ordered(stream)'
    BY <1>11 DEF Ordered, Earlier, Since
  <2>5. Ordered(batch)' /\ Ordered(executed)'
    <3>1. /\ \A i, j \in DOMAIN batch : i < j => Since(batch[i], batch[j])
          /\ \A i, j \in DOMAIN executed : i < j => Since(executed[i], executed[j])
      BY <1>6 DEF Ordered, QueueInv
    <3> QED BY <2>0, <3>1 DEF Ordered, Earlier, Since
  <2>6. Precedes(batch, stream)' /\ Precedes(executed, stream)'
    BY <2>0, <1>5, <1>12 DEF Precedes, Earlier, Since, QueueInv
  <2>7. Precedes(executed, Ahead)'
    <3>1. \A i \in DOMAIN executed, j \in DOMAIN Ahead : Since(executed[i], Ahead[j])
      BY <1>6 DEF Precedes, QueueInv
    <3> QED BY <2>0, <3>1 DEF Precedes, Earlier, Since
  <2> QED BY <2>2, <2>3, <2>4, <2>5, <2>6, <2>7 DEF QueueInv
<1> QED BY <1>8, <1>9, <1>13

LEMMA RequestsNextInv == RequestsInv /\ [RequestsNext]_requestVars => RequestsInv'
<1> SUFFICES ASSUME RequestsInv, [RequestsNext]_requestVars PROVE RequestsInv'
  OBVIOUS
<1>1. CASE Halt \/ Resume \/ (\E k \in recent : Expire(k)) \/ UNCHANGED requestVars
  BY <1>1, WorldKeeps DEF Halt, Resume, Expire, requestVars
<1> QED
  BY <1>1, PublishKeeps, PollKeeps, ProcessKeeps, ExecuteKeeps, AckKeeps, RestartKeeps
     DEF RequestsNext

LEMMA AlwaysRequestsInv == RequestsSpec => []RequestsInv
BY RequestsInitInv, RequestsNextInv, PTL DEF RequestsSpec

\* Over either bus, with any batch size and queue length, whatever
\* acknowledgements fail and however often the engine stops or crashes:
\* requests reach the executor in the order in which they were published.
THEOREM RequestsExecutedInOrder == RequestsSpec => []ExecutedInOrder
<1>1. RequestsInv => ExecutedInOrder
  BY DEF RequestsInv, QueueInv, Ordered, Earlier, ExecutedInOrder
<1> QED BY <1>1, AlwaysRequestsInv, PTL

\* And each at most once: neither a restart nor an entry that stays pending
\* hands a request to the executor again.
THEOREM RequestsExecutedOnce ==
  RequestsSpec => [](\A i, j \in DOMAIN executed : executed[i] = executed[j] => i = j)
<1> DEFINE Once == \A i, j \in DOMAIN executed : executed[i] = executed[j] => i = j
<1>1. RequestsInv => Once
  <2> SUFFICES ASSUME RequestsInv, NEW i \in DOMAIN executed, NEW j \in DOMAIN executed,
                      i < j, executed[i] = executed[j]
               PROVE  FALSE
    BY DEF RequestsInv, RequestTypes
  <2>1. PICK m, n \in DOMAIN published :
          m < n /\ published[m] = executed[i] /\ published[n] = executed[j]
    BY DEF RequestsInv, QueueInv, Ordered, Earlier
  <2>2. m = n /\ m \in Nat
    BY <2>1 DEF RequestsInv, PublishedOnce, RequestTypes
  <2> QED BY <2>1, <2>2
<1> QED BY <1>1, AlwaysRequestsInv, PTL

(***************************************************************************)
(* EngineRun.                                                              *)
(***************************************************************************)

Before == {"gate", "preflight", "waiting", "failed"}
Cancelling == {"cancel", "close", "disconnect", "tasks", "over"}

\* Before trading begins there is no task and no order; before the loops are
\* started no execution.
NotBegun ==
    /\ mode \in Before => ~trading
    /\ mode \notin {"running", "over"} =>
          ~loops /\ resting = {} /\ \A t \in Trades : trade[t] = "idle"
    /\ mode = "over" => stop = "over"
    /\ stop \in {"no", "live"} /\ ~trading => mode \in Before

\* What each stage of the shutdown has stopped.
Stopped ==
    ~late =>
        /\ stop \notin {"no", "live"} => ~trading
        /\ stop \notin {"no", "live", "loops"} => ~loops
        /\ stop \in Cancelling \cup {"collectors"} =>
              \A t \in ExitTasks : trade[t] \in {"idle", "done"}
        /\ stop \in Cancelling => \A t \in Trades : trade[t] \in {"idle", "done"}

\* What the visited exchanges keep.
Cleaned ==
    ~late =>
        /\ \A t \in resting :
              stop \in Cancelling /\ (stop = "cancel" => VenueOf[t] \notin todo) =>
                  VenueOf[t] \in dirty \/ VenueOf[t] \notin ListsOrders
        /\ \A p \in open :
              stop \in Cancelling \ {"cancel"} /\ (stop = "close" => VenueOf[p] \notin todo) =>
                  \/ VenueOf[p] \in dirty
                  \/ p \in rested /\ VenueOf[p] \notin ListsOrders

\* The preflight has read every exchange or has it still to read, and waits
\* only when another attempt is left.
Read ==
    /\ mode = "preflight" => \A p \in open : VenueOf[p] \in unread \cup seen \cup blind
    /\ mode = "waiting" => attempt < Retries

EngineInv ==
    EngineTypeOK /\ resting \subseteq rested /\ NotBegun /\ Stopped /\ Cleaned /\ Read

-----------------------------------------------------------------------------
LEMMA EngineInitInv == EngineInit => EngineInv
<1> SUFFICES ASSUME EngineInit PROVE EngineInv
  OBVIOUS
<1> USE EngineRunAssumption DEF EngineInit
<1>1. EngineTypeOK
  <2>1. attempt \in 1..Retries
    OBVIOUS
  <2>2. trade \in [Trades -> {"idle", "queued", "sent", "done"}]
    BY DEF Trades
  <2> QED BY <2>1, <2>2 DEF EngineTypeOK, Modes, Stops
<1>2. resting \subseteq rested /\ NotBegun /\ Stopped /\ Cleaned /\ Read
  BY DEF NotBegun, Stopped, Cleaned, Read, Before, Cancelling
<1> QED BY <1>1, <1>2 DEF EngineInv

-----------------------------------------------------------------------------
(* One lemma for each action.                                              *)

LEMMA PassGateInv == ASSUME EngineInv, PassGate PROVE EngineInv'
<1> USE EngineRunAssumption
    DEF EngineInv, EngineTypeOK, PassGate, StartReading, preflight, cleanup, live,
        orders, Trades
<1>1. EngineTypeOK'
  BY DEF Modes, Stops
<1>2. (resting \subseteq rested)'
  OBVIOUS
<1>3. NotBegun'
  BY DEF NotBegun, Before
<1>4. Stopped'
  BY DEF Stopped, Cancelling, NotBegun, Before
<1>5. Cleaned'
  BY DEF Cleaned, Stopped, Cancelling, NotBegun, Before
<1>6. Read'
  BY DEF Read, NotBegun
<1> QED BY <1>1, <1>2, <1>3, <1>4, <1>5, <1>6

LEMMA ReadPositionsInv == ASSUME EngineInv, NEW x \in Venues, ReadPositions(x) PROVE EngineInv'
<1> USE EngineRunAssumption
    DEF EngineInv, EngineTypeOK, ReadPositions, At, preflight, cleanup, live,
        orders, Trades
<1>1. EngineTypeOK'
  BY DEF Modes, Stops
<1>2. (resting \subseteq rested)'
  OBVIOUS
<1>3. NotBegun'
  BY DEF NotBegun, Before
<1>4. Stopped'
  BY DEF Stopped, Cancelling, NotBegun, Before
<1>5. Cleaned'
  BY DEF Cleaned, Stopped, Cancelling, NotBegun, Before
<1>6. Read'
  BY DEF Read, NotBegun
<1> QED BY <1>1, <1>2, <1>3, <1>4, <1>5, <1>6

LEMMA AttemptOverInv == ASSUME EngineInv, AttemptOver PROVE EngineInv'
<1> USE EngineRunAssumption
    DEF EngineInv, EngineTypeOK, AttemptOver, BeginTrading, CloseStale, preflight,
        cleanup, live, orders, Trades
<1>1. EngineTypeOK'
  BY DEF Modes, Stops
<1>2. (resting \subseteq rested)'
  OBVIOUS
<1>3. NotBegun'
  BY DEF NotBegun, Before
<1>4. Stopped'
  BY DEF Stopped, Cancelling, NotBegun, Before
<1>5. Cleaned'
  BY DEF Cleaned, Stopped, Cancelling, NotBegun, Before
<1>6. Read'
  BY DEF Read, NotBegun
<1> QED BY <1>1, <1>2, <1>3, <1>4, <1>5, <1>6

LEMMA WaitOverInv == ASSUME EngineInv, WaitOver PROVE EngineInv'
<1> USE EngineRunAssumption
    DEF EngineInv, EngineTypeOK, WaitOver, StartReading, preflight, cleanup, live,
        orders, Trades
<1>1. EngineTypeOK'
  BY DEF Modes, Stops, Read
<1>2. (resting \subseteq rested)'
  OBVIOUS
<1>3. NotBegun'
  BY DEF NotBegun, Before
<1>4. Stopped'
  BY DEF Stopped, Cancelling, NotBegun, Before
<1>5. Cleaned'
  BY DEF Cleaned, Stopped, Cancelling, NotBegun, Before
<1>6. Read'
  BY DEF Read, NotBegun
<1> QED BY <1>1, <1>2, <1>3, <1>4, <1>5, <1>6

LEMMA StartLoopsInv == ASSUME EngineInv, StartLoops PROVE EngineInv'
<1> USE EngineRunAssumption
    DEF EngineInv, EngineTypeOK, StartLoops, preflight, cleanup, live, orders, Trades
<1>1. EngineTypeOK'
  BY DEF Modes, Stops
<1>2. (resting \subseteq rested)'
  OBVIOUS
<1>3. NotBegun'
  BY DEF NotBegun, Before
<1>4. Stopped'
  BY DEF Stopped, Cancelling, NotBegun, Before
<1>5. Cleaned'
  BY DEF Cleaned, Stopped, Cancelling, NotBegun, Before
<1>6. Read'
  BY DEF Read, NotBegun
<1> QED BY <1>1, <1>2, <1>3, <1>4, <1>5, <1>6

LEMMA FlagSetInv == ASSUME EngineInv, FlagSet PROVE EngineInv'
<1> USE EngineRunAssumption
    DEF EngineInv, EngineTypeOK, FlagSet, preflight, cleanup, live, orders, Trades
<1>1. EngineTypeOK'
  BY DEF Modes, Stops
<1>2. (resting \subseteq rested)'
  OBVIOUS
<1>3. NotBegun'
  BY DEF NotBegun, Before
<1>4. Stopped'
  BY DEF Stopped, Cancelling, NotBegun, Before
<1>5. Cleaned'
  BY DEF Cleaned, Stopped, Cancelling, NotBegun, Before
<1>6. Read'
  BY DEF Read, NotBegun
<1> QED BY <1>1, <1>2, <1>3, <1>4, <1>5, <1>6

LEMMA SignalInv == ASSUME EngineInv, NEW t \in Trades, Signal(t) PROVE EngineInv'
<1> USE EngineRunAssumption
    DEF EngineInv, EngineTypeOK, Signal, preflight, cleanup, live, orders, Trades
<1>1. EngineTypeOK'
  BY DEF Modes, Stops
<1>2. (resting \subseteq rested)'
  OBVIOUS
<1>3. NotBegun'
  BY DEF NotBegun, Before
<1>4. Stopped'
  BY DEF Stopped, Cancelling, NotBegun, Before
<1>5. Cleaned'
  BY DEF Cleaned, Stopped, Cancelling, NotBegun, Before
<1>6. Read'
  BY DEF Read, NotBegun
<1> QED BY <1>1, <1>2, <1>3, <1>4, <1>5, <1>6

LEMMA ExitRequestInv == ASSUME EngineInv, NEW t \in Trades, ExitRequest(t) PROVE EngineInv'
<1> USE EngineRunAssumption
    DEF EngineInv, EngineTypeOK, ExitRequest, preflight, cleanup, live, orders, Trades
<1>1. EngineTypeOK'
  BY DEF Modes, Stops
<1>2. (resting \subseteq rested)'
  OBVIOUS
<1>3. NotBegun'
  BY DEF NotBegun, Before
<1>4. Stopped'
  BY DEF Stopped, Cancelling, NotBegun, Before
<1>5. Cleaned'
  BY DEF Cleaned, Stopped, Cancelling, NotBegun, Before
<1>6. Read'
  BY DEF Read, NotBegun
<1> QED BY <1>1, <1>2, <1>3, <1>4, <1>5, <1>6

LEMMA SendInv == ASSUME EngineInv, NEW t \in Trades, Send(t) PROVE EngineInv'
<1> USE EngineRunAssumption
    DEF EngineInv, EngineTypeOK, Send, preflight, cleanup, live, orders, Trades
<1>1. EngineTypeOK'
  BY DEF Modes, Stops
<1>2. (resting \subseteq rested)'
  OBVIOUS
<1>3. NotBegun'
  BY DEF NotBegun, Before
<1>4. Stopped'
  BY DEF Stopped, Cancelling, NotBegun, Before
<1>5. Cleaned'
  BY DEF Cleaned, Stopped, Cancelling, NotBegun, Before
<1>6. Read'
  BY DEF Read, NotBegun
<1> QED BY <1>1, <1>2, <1>3, <1>4, <1>5, <1>6

LEMMA ExecutedInv == ASSUME EngineInv, NEW t \in Trades, Executed(t) PROVE EngineInv'
<1> USE EngineRunAssumption
    DEF EngineInv, EngineTypeOK, Executed, Land, preflight, cleanup, live, orders, Trades
<1>1. EngineTypeOK'
  BY DEF Modes, Stops
<1>2. (resting \subseteq rested)'
  OBVIOUS
<1>3. NotBegun'
  BY DEF NotBegun, Before
<1>4. Stopped'
  BY DEF Stopped, Cancelling, NotBegun, Before
<1>5. Cleaned'
  BY DEF Cleaned, Stopped, Cancelling, NotBegun, Before
<1>6. Read'
  BY DEF Read, NotBegun
<1> QED BY <1>1, <1>2, <1>3, <1>4, <1>5, <1>6

LEMMA FillInv == ASSUME EngineInv, NEW t \in Trades, Fill(t) PROVE EngineInv'
<1> USE EngineRunAssumption
    DEF EngineInv, EngineTypeOK, Fill, preflight, cleanup, live, orders, Trades
<1>1. EngineTypeOK'
  BY DEF Modes, Stops
<1>2. (resting \subseteq rested)'
  OBVIOUS
<1>3. NotBegun'
  BY DEF NotBegun, Before
<1>4. Stopped'
  BY DEF Stopped, Cancelling, NotBegun, Before
<1>5. Cleaned'
  BY DEF Cleaned, Stopped, Cancelling, NotBegun, Before
<1>6. Read'
  BY DEF Read, NotBegun
<1> QED BY <1>1, <1>2, <1>3, <1>4, <1>5, <1>6

LEMMA StopBeginsInv == ASSUME EngineInv, StopBegins PROVE EngineInv'
<1> USE EngineRunAssumption
    DEF EngineInv, EngineTypeOK, StopBegins, StopAt, preflight, cleanup, live,
        orders, Trades
<1>1. EngineTypeOK'
  BY DEF Modes, Stops
<1>2. (resting \subseteq rested)'
  OBVIOUS
<1>3. NotBegun'
  BY DEF NotBegun, Before
<1>4. Stopped'
  BY DEF Stopped, Cancelling, NotBegun, Before
<1>5. Cleaned'
  BY DEF Cleaned, Stopped, Cancelling, NotBegun, Before
<1>6. Read'
  BY DEF Read, NotBegun
<1> QED BY <1>1, <1>2, <1>3, <1>4, <1>5, <1>6

LEMMA StopLiveInv == ASSUME EngineInv, StopLive PROVE EngineInv'
<1> USE EngineRunAssumption
    DEF EngineInv, EngineTypeOK, StopLive, StopAt, preflight, cleanup, live,
        orders, Trades
<1>1. EngineTypeOK'
  BY DEF Modes, Stops
<1>2. (resting \subseteq rested)'
  OBVIOUS
<1>3. NotBegun'
  BY DEF NotBegun, Before
<1>4. Stopped'
  BY DEF Stopped, Cancelling, NotBegun, Before
<1>5. Cleaned'
  BY DEF Cleaned, Stopped, Cancelling, NotBegun, Before
<1>6. Read'
  BY DEF Read, NotBegun
<1> QED BY <1>1, <1>2, <1>3, <1>4, <1>5, <1>6

LEMMA StopLoopsInv == ASSUME EngineInv, StopLoops PROVE EngineInv'
<1> USE EngineRunAssumption
    DEF EngineInv, EngineTypeOK, StopLoops, StopAt, preflight, cleanup, live,
        orders, Trades
<1>1. EngineTypeOK'
  BY DEF Modes, Stops
<1>2. (resting \subseteq rested)'
  OBVIOUS
<1>3. NotBegun'
  BY DEF NotBegun, Before
<1>4. Stopped'
  BY DEF Stopped, Cancelling, NotBegun, Before
<1>5. Cleaned'
  BY DEF Cleaned, Stopped, Cancelling, NotBegun, Before
<1>6. Read'
  BY DEF Read, NotBegun
<1> QED BY <1>1, <1>2, <1>3, <1>4, <1>5, <1>6

LEMMA DrainInv == ASSUME EngineInv, Drain PROVE EngineInv'
<1> USE EngineRunAssumption
    DEF EngineInv, EngineTypeOK, Drain, StopAt, CancelTasks, Land, preflight,
        cleanup, live, orders, Trades
<1>1. EngineTypeOK'
  BY DEF Modes, Stops
<1>2. (resting \subseteq rested)'
  OBVIOUS
<1>3. NotBegun'
  BY DEF NotBegun, Before
<1>4. Stopped'
  BY DEF Stopped, Cancelling, NotBegun, Before
<1>5. Cleaned'
  BY DEF Cleaned, Stopped, Cancelling, NotBegun, Before
<1>6. Read'
  BY DEF Read, NotBegun
<1> QED BY <1>1, <1>2, <1>3, <1>4, <1>5, <1>6

LEMMA StopCollectorsInv == ASSUME EngineInv, StopCollectors PROVE EngineInv'
<1> USE EngineRunAssumption
    DEF EngineInv, EngineTypeOK, StopCollectors, StopAt, CancelTasks, Land,
        preflight, cleanup, live, orders, Trades
<1>1. EngineTypeOK'
  BY DEF Modes, Stops
<1>2. (resting \subseteq rested)'
  OBVIOUS
<1>3. NotBegun'
  BY DEF NotBegun, Before
<1>4. Stopped'
  BY DEF Stopped, Cancelling, NotBegun, Before
<1>5. Cleaned'
  BY DEF Cleaned, Stopped, Cancelling, NotBegun, Before
<1>6. Read'
  BY DEF Read, NotBegun
<1> QED BY <1>1, <1>2, <1>3, <1>4, <1>5, <1>6

LEMMA CancelOrdersInv == ASSUME EngineInv, NEW x \in Venues, CancelOrders(x) PROVE EngineInv'
<1> USE EngineRunAssumption
    DEF EngineInv, EngineTypeOK, CancelOrders, Visited, StopAt, At, preflight,
        cleanup, live, orders, Trades
<1>1. EngineTypeOK'
  BY DEF Modes, Stops
<1>2. (resting \subseteq rested)'
  OBVIOUS
<1>3. NotBegun'
  BY DEF NotBegun, Before
<1>4. Stopped'
  BY DEF Stopped, Cancelling, NotBegun, Before
<1>5. Cleaned'
  BY DEF Cleaned, Stopped, Cancelling, NotBegun, Before
<1>6. Read'
  BY DEF Read, NotBegun
<1> QED BY <1>1, <1>2, <1>3, <1>4, <1>5, <1>6

LEMMA ClosePositionsInv == ASSUME EngineInv, NEW x \in Venues, ClosePositions(x) PROVE EngineInv'
<1> USE EngineRunAssumption
    DEF EngineInv, EngineTypeOK, ClosePositions, Visited, StopAt, At, preflight,
        cleanup, live, orders, Trades
<1>1. EngineTypeOK'
  BY DEF Modes, Stops
<1>2. (resting \subseteq rested)'
  OBVIOUS
<1>3. NotBegun'
  BY DEF NotBegun, Before
<1>4. Stopped'
  BY DEF Stopped, Cancelling, NotBegun, Before
<1>5. Cleaned'
  BY DEF Cleaned, Stopped, Cancelling, NotBegun, Before
<1>6. Read'
  BY DEF Read, NotBegun
<1> QED BY <1>1, <1>2, <1>3, <1>4, <1>5, <1>6

LEMMA DisconnectInv == ASSUME EngineInv, NEW x \in Venues, Disconnect(x) PROVE EngineInv'
<1> USE EngineRunAssumption
    DEF EngineInv, EngineTypeOK, Disconnect, Visited, StopAt, preflight, cleanup,
        live, orders, Trades
<1>1. EngineTypeOK'
  BY DEF Modes, Stops
<1>2. (resting \subseteq rested)'
  OBVIOUS
<1>3. NotBegun'
  BY DEF NotBegun, Before
<1>4. Stopped'
  BY DEF Stopped, Cancelling, NotBegun, Before
<1>5. Cleaned'
  BY DEF Cleaned, Stopped, Cancelling, NotBegun, Before
<1>6. Read'
  BY DEF Read, NotBegun
<1> QED BY <1>1, <1>2, <1>3, <1>4, <1>5, <1>6

LEMMA CancelBackgroundInv == ASSUME EngineInv, CancelBackground PROVE EngineInv'
<1> USE EngineRunAssumption
    DEF EngineInv, EngineTypeOK, CancelBackground, StopAt, CancelTasks, Land,
        preflight, cleanup, live, orders, Trades
<1>1. EngineTypeOK'
  BY DEF Modes, Stops
<1>2. (resting \subseteq rested)'
  OBVIOUS
<1>3. NotBegun'
  BY DEF NotBegun, Before
<1>4. Stopped'
  BY DEF Stopped, Cancelling, NotBegun, Before
<1>5. Cleaned'
  BY DEF Cleaned, Stopped, Cancelling, NotBegun, Before
<1>6. Read'
  BY DEF Read, NotBegun
<1> QED BY <1>1, <1>2, <1>3, <1>4, <1>5, <1>6

-----------------------------------------------------------------------------
LEMMA EngineStepInv == EngineInv /\ [EngineNext]_engineVars => EngineInv'
<1> SUFFICES ASSUME EngineInv, [EngineNext]_engineVars PROVE EngineInv'
  OBVIOUS
<1>1. CASE PassGate
  BY <1>1, PassGateInv
<1>2. ASSUME NEW x \in Venues, ReadPositions(x) PROVE EngineInv'
  BY <1>2, ReadPositionsInv
<1>3. CASE AttemptOver
  BY <1>3, AttemptOverInv
<1>4. CASE WaitOver
  BY <1>4, WaitOverInv
<1>5. CASE StartLoops
  BY <1>5, StartLoopsInv
<1>6. CASE FlagSet
  BY <1>6, FlagSetInv
<1>7. ASSUME NEW t \in Trades, Signal(t) PROVE EngineInv'
  BY <1>7, SignalInv
<1>8. ASSUME NEW t \in Trades, ExitRequest(t) PROVE EngineInv'
  BY <1>8, ExitRequestInv
<1>9. ASSUME NEW t \in Trades, Send(t) PROVE EngineInv'
  BY <1>9, SendInv
<1>10. ASSUME NEW t \in Trades, Executed(t) PROVE EngineInv'
  BY <1>10, ExecutedInv
<1>11. ASSUME NEW t \in Trades, Fill(t) PROVE EngineInv'
  BY <1>11, FillInv
<1>12. CASE StopBegins
  BY <1>12, StopBeginsInv
<1>13. CASE StopLive
  BY <1>13, StopLiveInv
<1>14. CASE StopLoops
  BY <1>14, StopLoopsInv
<1>15. CASE Drain
  BY <1>15, DrainInv
<1>16. CASE StopCollectors
  BY <1>16, StopCollectorsInv
<1>17. ASSUME NEW x \in Venues, CancelOrders(x) PROVE EngineInv'
  BY <1>17, CancelOrdersInv
<1>18. ASSUME NEW x \in Venues, ClosePositions(x) PROVE EngineInv'
  BY <1>18, ClosePositionsInv
<1>19. ASSUME NEW x \in Venues, Disconnect(x) PROVE EngineInv'
  BY <1>19, DisconnectInv
<1>20. CASE CancelBackground
  BY <1>20, CancelBackgroundInv
<1>21. CASE UNCHANGED engineVars
  BY <1>21
  DEF engineVars, preflight, cleanup, live, orders, EngineInv, EngineTypeOK, NotBegun,
      Stopped, Cleaned, Read
<1> QED
  BY <1>1, <1>2, <1>3, <1>4, <1>5, <1>6, <1>7, <1>8, <1>9, <1>10, <1>11,
     <1>12, <1>13, <1>14, <1>15, <1>16, <1>17, <1>18, <1>19, <1>20, <1>21 DEF EngineNext

LEMMA AlwaysEngineInv == EngineSpec => []EngineInv
  BY EngineInitInv, EngineStepInv, PTL DEF EngineSpec

\* Every variable of the engine's run keeps its type: LiveMode.start with its
\* preflight, and Engine.stop.
THEOREM EngineTypes == EngineSpec => []EngineTypeOK
<1>1. EngineInv => EngineTypeOK
  BY DEF EngineInv
<1> QED BY AlwaysEngineInv, <1>1, PTL

\* Trading begins flat, as far as the exchanges could be read, or halted:
\* LiveMode.start, with any number of attempts and whatever was closed between
\* them.
THEOREM TradingStartsFlatOrHalted == EngineSpec => StartsFlatOrHalted
<1> DEFINE Flat == blocked' \/ \A p \in open' : VenueOf[p] \in blind
<1>1. ASSUME EngineInv, [EngineNext]_engineVars, trading', ~trading PROVE Flat
  <2>1. CASE AttemptOver
    BY <2>1, <1>1 DEF AttemptOver, BeginTrading, CloseStale, EngineInv, Read
  <2>2. CASE ~AttemptOver
    BY <2>2, <1>1
    DEF EngineNext, engineVars, live, PassGate, ReadPositions, WaitOver, StartLoops,
        FlagSet, Signal, ExitRequest, Send, Executed, Fill, StopBegins, StopLive,
        StopLoops, Drain, StopCollectors, CancelOrders, ClosePositions, Disconnect,
        CancelBackground
  <2> QED BY <2>1, <2>2
<1>2. EngineInv /\ [EngineNext]_engineVars => [trading' /\ ~trading => Flat]_engineVars
  BY <1>1
<1> QED BY AlwaysEngineInv, <1>2, PTL DEF EngineSpec, StartsFlatOrHalted

\* Engine.stop leaves no order and no position on an exchange whose calls went
\* through, unless it cannot list its orders: whatever was under way.
THEOREM ShutdownLeavesNothing == EngineSpec => []LeavesNothingBehind
<1>1. EngineInv => LeavesNothingBehind
  BY DEF EngineInv, Cleaned, LeavesNothingBehind, Cancelling
<1> QED BY AlwaysEngineInv, <1>1, PTL
=============================================================================
