-------------------------- MODULE Strategies_proofs -------------------------
(***************************************************************************)
(* What the strategies know of their positions, for every set of symbols   *)
(* and any number of requests, slots, lots and signals, and whatever may   *)
(* go wrong but for what the properties of module Strategies except.       *)
(***************************************************************************)
EXTENDS Strategies, FiniteSetTheorems, TLAPS

\* What may go wrong, and what of it each strategy is spared.
Blind == "positions" \in scene.faults \/ "unlisted" \in scene.faults
Slow == "slow" \in scene.faults
Early == "early" \in scene.faults
Reenters == "reenters" \in scene.faults
Repeats == "repeats" \in scene.faults

LEMMA Excepted ==
  /\ FuturesCopes => ~Blind /\ ~Slow /\ (Reenters => MaxConcurrent = 1)
  /\ FundingCopes => ~Blind /\ ~Slow /\ ~Early
  /\ SpotCopes => ~Blind /\ ~Repeats
BY DEF FuturesCopes, FundingCopes, SpotCopes, Spared, Blind, Slow, Early, Reenters, Repeats

-----------------------------------------------------------------------------
(* What a request is, and where a symbol's exit stands.  A request whose   *)
(* success the strategy was told of (post) no longer counts.               *)

Kinds == {"entry", "exit"}
Answers == {"SUCCESS", "ROLLED_BACK", "REJECTED", "ROLLBACK_FAILED", "raised"}
Gone == [pc |-> "none"]
Requests ==
  {Gone} \cup [pc : {"new", "queued", "executing"}, kind : Kinds, sym : Symbols]
         \cup [pc : {"answered", "post"}, kind : Kinds, sym : Symbols, ans : Answers]

\* The variables of live mode have their types.
LiveType ==
  /\ req \in [Ids -> Requests] /\ draining \subseteq Symbols
  /\ long \in [Symbols -> Nat] /\ short \in [Symbols -> Nat]

Counts(r) == req[r].pc \in {"new", "queued", "executing", "answered"}
Of(r, s) == Counts(r) /\ req[r].sym = s
Entry(r, s) == Of(r, s) /\ req[r].kind = "entry"
Exit(r, s) == Of(r, s) /\ req[r].kind = "exit"

Waits(s) == s \in strat.queue \/ s \in draining
Leaves(s) == Waits(s) \/ \E r \in Ids : Exit(r, s)
Enters(s) == \E r \in Ids : Entry(r, s)

\* At most one exit of the symbol is on its way, in one place.
OneExit(s) ==
  /\ s \in strat.queue => s \notin draining
  /\ Waits(s) => \A r \in Ids : ~Exit(r, s)
  /\ \A q, r \in Ids : Exit(q, s) /\ Exit(r, s) => q = r

\* So is at most one entry, and not beside an exit.
OneWay(s) ==
  /\ OneExit(s)
  /\ Leaves(s) => ~Enters(s)
  /\ \A q, r \in Ids : Entry(q, s) /\ Entry(r, s) => q = r

\* An exit that is still to be admitted is not in the collision window.
Fresh(s) ==
  Waits(s) \/ (\E r \in Ids : Exit(r, s) /\ req[r].pc = "new") => <<"exit", s>> \notin deduped

Hedged(s) == long[s] > 0 /\ short[s] > 0

\* What the answer of a request says is not there: an entry that is not
\* filled, an exit that is.
Empty(r) ==
  IF req[r].kind = "entry" THEN req[r].pc = "answered" => req[r].ans \notin {"SUCCESS", "ROLLBACK_FAILED"}
  ELSE req[r].pc = "answered" /\ req[r].ans = "SUCCESS"

\* What the exchanges hold of a symbol that nobody was alerted to.
Lots(s) ==
  s \notin reported =>
    /\ long[s] <= 1 \/ short[s] <= 1
    /\ \A r \in Ids : Of(r, s) /\ Empty(r) => ~Hedged(s)

Good(s) == OneWay(s) /\ Fresh(s) /\ Lots(s)

\* A pair is one the strategy counts as open, or about to be closed or opened.
Known(s) ==
  Hedged(s) /\ s \notin reported => s \in strat.open \/ Leaves(s) \/ Enters(s)

-----------------------------------------------------------------------------
(* The steps of live mode, apart from what the strategy makes of them.     *)

Others(r) == \A q \in Ids \ {r} : req'[q] = req[q]
Held == UNCHANGED <<long, short, reported>>

\* A request of the kind for the symbol is there.
Appears(r, kind, s) ==
  /\ req[r].pc = "none" /\ Others(r)
  /\ req'[r].pc = "new" /\ req'[r].kind = kind /\ req'[r].sym = s

\* r does not count any more.
Vanishes(r) ==
  /\ Counts(r) /\ Others(r) /\ req'[r].pc \in {"none", "post"}
  /\ req'[r].pc = "post" => req'[r].kind = req[r].kind /\ req'[r].sym = req[r].sym

\* r goes on.
Proceeds(r) ==
  /\ Counts(r) /\ Others(r) /\ req'[r].kind = req[r].kind /\ req'[r].sym = req[r].sym

Sends(s) ==
  /\ s \in draining /\ draining' = draining \ {s} /\ UNCHANGED <<strat, deduped>> /\ Held
  /\ \E r \in Ids : Appears(r, "exit", s)

Drops(s) ==
  /\ s \in draining /\ draining' = draining \ {s} /\ UNCHANGED <<req, deduped>> /\ Held

Refused(r) ==
  /\ req[r].pc \in {"new", "queued"} /\ Vanishes(r) /\ UNCHANGED draining /\ Held
  /\ \/ deduped' = deduped
     \/ req[r].kind = "entry" /\ deduped' = deduped \cup {<<"entry", req[r].sym>>}

Admitted(r) ==
  /\ req[r].pc = "new" /\ Proceeds(r) /\ req'[r].pc = "queued"
  /\ deduped' = deduped \cup {<<req[r].kind, req[r].sym>>} /\ UNCHANGED <<strat, draining>> /\ Held

Started(r) ==
  /\ req[r].pc = "queued" /\ Proceeds(r) /\ req'[r].pc = "executing"
  /\ UNCHANGED <<strat, draining, deduped>> /\ Held

\* What an order does to the lots of its leg.
Moved(kind, n) == IF kind = "entry" THEN n + 1 ELSE IF n > 0 THEN n - 1 ELSE 0

Answered(r) ==
  /\ req[r].pc = "executing" /\ Proceeds(r) /\ req'[r].pc = "answered"
  /\ UNCHANGED <<strat, draining, deduped, reported>>
  /\ \A t \in Symbols \ {req[r].sym} : long'[t] = long[t] /\ short'[t] = short[t]
  /\ LET s == req[r].sym
         onLong == long'[s] = Moved(req[r].kind, long[s])
         onShort == short'[s] = Moved(req[r].kind, short[s])
     IN  CASE req'[r].ans = "SUCCESS" -> onLong /\ onShort
           [] req'[r].ans = "ROLLBACK_FAILED" ->
                (onLong /\ short'[s] = short[s]) \/ (onShort /\ long'[s] = long[s])
           [] OTHER -> long'[s] = long[s] /\ short'[s] = short[s]

Handled(r) ==
  /\ req[r].pc = "answered" /\ Vanishes(r) /\ UNCHANGED <<draining, deduped, long, short>>
  /\ reported' = IF req[r].ans = "ROLLBACK_FAILED" THEN reported \cup {req[r].sym} ELSE reported

Quiet ==
  /\ UNCHANGED <<strat, draining>> /\ Held /\ deduped' \subseteq deduped
  /\ \/ req' = req
     \/ \E r \in Ids : req[r].pc = "post" /\ req'[r].pc = "none" /\ Others(r)

-----------------------------------------------------------------------------
(* What a step leaves of the exits and the entries.                        *)

\* All of them,
Stays == \A t \in Symbols : (Leaves(t)' <=> Leaves(t)) /\ (Enters(t)' <=> Enters(t))

\* or all but that of the kind for the symbol.
Ends(kind, s) ==
  \A t \in Symbols :
    /\ Leaves(t)' <=> Leaves(t) /\ ~(kind = "exit" /\ t = s)
    /\ Enters(t)' <=> Enters(t) /\ ~(kind = "entry" /\ t = s)


-----------------------------------------------------------------------------
(* Each of the three brings a Cardinality of its own.                      *)

LEMMA SameSize ==
  ASSUME NEW S
  PROVE  /\ Funding!Cardinality(S) = Cardinality(S) /\ Spot!Cardinality(S) = Cardinality(S)
         /\ Futures!Cardinality(S) = Cardinality(S)
  BY DEF Funding!Cardinality, Spot!Cardinality, Futures!Cardinality, Cardinality

\* The steps of live mode in which the strategy has no part are the same for
\* all of them.
LEMMA RequestShape ==
  ASSUME LiveType, NEW r \in Ids, req[r].pc # "none"
  PROVE  /\ req[r] \in Requests \ {Gone} /\ req[r].kind \in Kinds /\ req[r].sym \in Symbols
         /\ req[r].pc \in {"new", "queued", "executing", "answered", "post"}
  BY DEF LiveType, Requests, Gone

LEMMA SpawnStep ==
  ASSUME LiveType, NEW kind \in Kinds, NEW s \in Symbols, Funding!Spawn(kind, s)
  PROVE  req' \in [Ids -> Requests] /\ \E r \in Ids : Appears(r, kind, s)
<1> DEFINE r == CHOOSE r \in Ids \ Funding!Alive : TRUE
<1>1. r \in Ids /\ req[r].pc = "none" /\ req' = [req EXCEPT ![r] = Funding!Request(kind, s)]
  BY DEF Funding!Spawn, Funding!Alive
<1> HIDE DEF r
<1>2. Funding!Request(kind, s) \in Requests
  BY DEF Funding!Request, Requests, Kinds
<1> QED BY <1>1, <1>2 DEF LiveType, Appears, Others, Funding!Request

LEMMA EndStep ==
  ASSUME LiveType, NEW r \in Ids, req[r].pc # "none", Funding!End(r)
  PROVE  req' \in [Ids -> Requests] /\ Others(r) /\ req'[r].pc = "none"
  BY DEF Funding!End, Funding!None, Requests, Gone, Others, LiveType

LEMMA AdmitStep ==
  ASSUME LiveType, NEW r \in Ids, Funding!Admit(r)
  PROVE  LiveType' /\ Admitted(r)
<1>1. /\ req[r].pc = "new" /\ req' = [req EXCEPT ![r].pc = "queued"]
      /\ deduped' = deduped \cup {<<req[r].kind, req[r].sym>>} /\ UNCHANGED <<strat, draining>>
      /\ Held
  BY DEF Funding!Admit, Funding!PastCooldown, Funding!At, Funding!Key, Funding!exchange, Held
<1>2. req' \in [Ids -> Requests] /\ Proceeds(r) /\ req'[r].pc = "queued"
  <2>1. req[r] \in [pc : {"new", "queued", "executing"}, kind : Kinds, sym : Symbols]
    BY RequestShape, <1>1 DEF Requests
  <2>2. [req[r] EXCEPT !.pc = "queued"] \in Requests
    BY <2>1 DEF Requests
  <2> QED BY <1>1, <2>1, <2>2 DEF Proceeds, Counts, Others, LiveType
<1> QED BY <1>1, <1>2 DEF Admitted, LiveType, Held

LEMMA StartStep ==
  ASSUME LiveType, NEW r \in Ids, Funding!Start(r)
  PROVE  LiveType' /\ Started(r)
<1>1. /\ req[r].pc = "queued" /\ req' = [req EXCEPT ![r].pc = "executing"]
      /\ UNCHANGED <<strat, draining, deduped>> /\ Held
  BY DEF Funding!Start, Funding!At, Funding!exchange, Held
<1>2. req' \in [Ids -> Requests] /\ Proceeds(r) /\ req'[r].pc = "executing"
  <2>1. req[r] \in [pc : {"new", "queued", "executing"}, kind : Kinds, sym : Symbols]
    BY RequestShape, <1>1 DEF Requests
  <2>2. [req[r] EXCEPT !.pc = "executing"] \in Requests
    BY <2>1 DEF Requests
  <2> QED BY <1>1, <2>1, <2>2 DEF Proceeds, Counts, Others, LiveType
<1> QED BY <1>1, <1>2 DEF Started, LiveType, Held

LEMMA PostStep ==
  ASSUME LiveType, NEW r \in Ids, Funding!Post(r)
  PROVE  LiveType' /\ Quiet
<1>1. req[r].pc = "post" /\ Funding!End(r) /\ UNCHANGED <<strat, draining, deduped>> /\ Held
  BY DEF Funding!Post, Funding!At, Funding!exchange, Held
<1> QED BY EndStep, <1>1 DEF Quiet, LiveType, Held

LEMMA ExpireStep ==
  ASSUME LiveType, Funding!Expire
  PROVE  LiveType' /\ Quiet
  BY DEF Funding!Expire, Funding!exchange, Quiet, Held, LiveType

LEMMA ExecuteStep ==
  ASSUME LiveType, NEW r \in Ids, NEW a \in Answers, Funding!Execute(r, a)
  PROVE  LiveType' /\ Answered(r)
<1> DEFINE s == req[r].sym
<1>1. PICK legs \in Funding!Filled(a) :
        /\ req[r].pc = "executing"
        /\ long' = Funding!After(r, legs, "long", long) /\ short' = Funding!After(r, legs, "short", short)
        /\ req' = [req EXCEPT ![r] = [pc |-> "answered", kind |-> @.kind, sym |-> @.sym, ans |-> a]]
        /\ UNCHANGED <<strat, draining, deduped, reported>>
  BY DEF Funding!Execute, Funding!At
<1>2. s \in Symbols /\ req[r].kind \in Kinds /\ a \in Answers
  BY RequestShape, <1>1
<1>3. [pc |-> "answered", kind |-> req[r].kind, sym |-> s, ans |-> a] \in Requests
  BY <1>2 DEF Requests
<1>4. /\ req' \in [Ids -> Requests] /\ Proceeds(r) /\ req'[r].pc = "answered" /\ req'[r].ans = a
  BY <1>1, <1>3 DEF LiveType, Proceeds, Counts, Others
<1>5. ASSUME NEW lots \in [Symbols -> Nat], NEW leg, NEW new, new = Funding!After(r, legs, leg, lots)
      PROVE  /\ new \in [Symbols -> Nat]
             /\ \A t \in Symbols \ {s} : new[t] = lots[t]
             /\ new[s] = IF leg \in legs THEN Moved(req[r].kind, lots[s]) ELSE lots[s]
  BY <1>2, <1>5 DEF Funding!After, Moved, Funding!IsEntry, Kinds
<1>6. /\ long' \in [Symbols -> Nat] /\ short' \in [Symbols -> Nat]
      /\ \A t \in Symbols \ {s} : long'[t] = long[t] /\ short'[t] = short[t]
      /\ long'[s] = IF "long" \in legs THEN Moved(req[r].kind, long[s]) ELSE long[s]
      /\ short'[s] = IF "short" \in legs THEN Moved(req[r].kind, short[s]) ELSE short[s]
  <2>1. long \in [Symbols -> Nat] /\ short \in [Symbols -> Nat]
    BY DEF LiveType
  <2> HIDE DEF s
  <2>2. /\ long' \in [Symbols -> Nat]
        /\ \A t \in Symbols \ {s} : long'[t] = long[t]
        /\ long'[s] = IF "long" \in legs THEN Moved(req[r].kind, long[s]) ELSE long[s]
    BY <1>1, <1>5, <2>1
  <2>3. /\ short' \in [Symbols -> Nat]
        /\ \A t \in Symbols \ {s} : short'[t] = short[t]
        /\ short'[s] = IF "short" \in legs THEN Moved(req[r].kind, short[s]) ELSE short[s]
    BY <1>1, <1>5, <2>1
  <2> QED BY <2>2, <2>3
<1>7. /\ a = "SUCCESS" => "long" \in legs /\ "short" \in legs
      /\ a = "ROLLBACK_FAILED" => ("long" \in legs <=> "short" \notin legs)
      /\ a \notin {"SUCCESS", "ROLLBACK_FAILED"} => "long" \notin legs /\ "short" \notin legs
  BY <1>1 DEF Funding!Filled
<1>8. CASE a = "SUCCESS"
  BY <1>1, <1>4, <1>6, <1>7, <1>8 DEF Answered, LiveType
<1>9. CASE a = "ROLLBACK_FAILED"
  BY <1>1, <1>4, <1>6, <1>7, <1>9 DEF Answered, LiveType
<1>10. CASE a \notin {"SUCCESS", "ROLLBACK_FAILED"}
  BY <1>1, <1>4, <1>6, <1>7, <1>10 DEF Answered, LiveType
<1> QED BY <1>8, <1>9, <1>10


LEMMA SendsExits ==
  ASSUME NEW s \in Symbols, Sends(s), NEW t \in Symbols, OneExit(t)
  PROVE  OneExit(t)' /\ (Leaves(t)' <=> Leaves(t)) /\ (Enters(t)' <=> Enters(t))
<1>1. PICK n \in Ids : Appears(n, "exit", s)
  BY DEF Sends
<1>2. \A r \in Ids : Exit(r, t)' <=> Exit(r, t) \/ (r = n /\ t = s)
  BY <1>1 DEF Appears, Others, Exit, Of, Counts
<1>3. \A r \in Ids : Entry(r, t)' <=> Entry(r, t)
  BY <1>1 DEF Appears, Others, Entry, Of, Counts
<1>4. /\ s \in draining /\ draining' = draining \ {s} /\ strat' = strat
  BY DEF Sends
<1> QED BY <1>2, <1>3, <1>4 DEF OneExit, Leaves, Enters, Waits

LEMMA DropsExits ==
  ASSUME NEW s \in Symbols, Drops(s), strat'.queue = strat.queue, NEW t \in Symbols, OneExit(t)
  PROVE  /\ OneExit(t)' /\ (t = s => Leaves(t))
         /\ (Leaves(t)' <=> Leaves(t) /\ t # s) /\ (Enters(t)' <=> Enters(t))
<1>1. \A r \in Ids : (Exit(r, t)' <=> Exit(r, t)) /\ (Entry(r, t)' <=> Entry(r, t))
  BY DEF Drops, Exit, Entry, Of, Counts
<1>2. s \in draining /\ draining' = draining \ {s}
  BY DEF Drops
<1> QED BY <1>1, <1>2 DEF OneExit, Leaves, Enters, Waits

LEMMA VanishesExits ==
  ASSUME NEW r \in Ids, Vanishes(r), UNCHANGED draining, strat'.queue = strat.queue,
         NEW t \in Symbols, OneExit(t)
  PROVE  /\ OneExit(t)'
         /\ t = req[r].sym /\ req[r].kind = "exit" => Leaves(t)
         /\ t = req[r].sym /\ req[r].kind = "entry" => Enters(t)
         /\ Leaves(t)' <=> Leaves(t) /\ ~(req[r].kind = "exit" /\ t = req[r].sym)
         /\ OneWay(t) =>
              (Enters(t)' <=> Enters(t) /\ ~(req[r].kind = "entry" /\ t = req[r].sym))
<1>1. \A q \in Ids : (Exit(q, t)' <=> Exit(q, t) /\ q # r) /\ (Entry(q, t)' <=> Entry(q, t) /\ q # r)
  BY DEF Vanishes, Others, Exit, Entry, Of, Counts
<1>2. /\ Exit(r, t) <=> req[r].kind = "exit" /\ t = req[r].sym
      /\ Entry(r, t) <=> req[r].kind = "entry" /\ t = req[r].sym
  BY DEF Vanishes, Exit, Entry, Of
<1>3. Waits(t)' <=> Waits(t)
  BY DEF Waits
<1>4. OneExit(t)'
  BY <1>1, <1>3 DEF OneExit, Waits
<1>5. Leaves(t)' <=> Leaves(t) /\ ~(req[r].kind = "exit" /\ t = req[r].sym)
  BY <1>1, <1>2, <1>3 DEF OneExit, Leaves
<1>6. OneWay(t) => (Enters(t)' <=> Enters(t) /\ ~(req[r].kind = "entry" /\ t = req[r].sym))
  BY <1>1, <1>2 DEF OneWay, Enters
<1> QED BY <1>2, <1>4, <1>5, <1>6 DEF Leaves, Enters

LEMMA ProceedsExits ==
  ASSUME NEW r \in Ids, Proceeds(r), req'[r].pc \in {"queued", "executing", "answered"},
         UNCHANGED <<draining, strat>>, NEW t \in Symbols, OneExit(t)
  PROVE  OneExit(t)' /\ (Leaves(t)' <=> Leaves(t)) /\ (Enters(t)' <=> Enters(t))
<1>1. \A q \in Ids : (Exit(q, t)' <=> Exit(q, t)) /\ (Entry(q, t)' <=> Entry(q, t))
  BY DEF Proceeds, Others, Exit, Entry, Of, Counts
<1> QED BY <1>1 DEF OneExit, Leaves, Enters, Waits

LEMMA QuietExits ==
  ASSUME Quiet, NEW t \in Symbols, OneExit(t)
  PROVE  OneExit(t)' /\ (Leaves(t)' <=> Leaves(t)) /\ (Enters(t)' <=> Enters(t))
<1>1. \A q \in Ids : (Exit(q, t)' <=> Exit(q, t)) /\ (Entry(q, t)' <=> Entry(q, t))
  BY DEF Quiet, Others, Exit, Entry, Of, Counts
<1> QED BY <1>1 DEF Quiet, OneExit, Leaves, Enters, Waits

AllGood == \A t \in Symbols : Good(t)

LEMMA SendsKeeps ==
  ASSUME LiveType, AllGood, NEW s \in Symbols, Sends(s)
  PROVE  AllGood' /\ Stays
<1>1. PICK n \in Ids : Appears(n, "exit", s)
  BY DEF Sends
<1> SUFFICES ASSUME NEW t \in Symbols
             PROVE  Good(t)' /\ (Leaves(t)' <=> Leaves(t)) /\ (Enters(t)' <=> Enters(t))
  BY DEF AllGood, Stays
<1>2. Good(t) /\ OneExit(t)
  BY DEF AllGood, Good, OneWay
<1>3. OneExit(t)' /\ (Leaves(t)' <=> Leaves(t)) /\ (Enters(t)' <=> Enters(t))
  BY <1>2, SendsExits
<1>4. \A q \in Ids : (Entry(q, t)' <=> Entry(q, t)) /\ (Exit(q, t)' <=> Exit(q, t) \/ (q = n /\ t = s))
  BY <1>1 DEF Appears, Others, Entry, Exit, Of, Counts
<1>5. OneWay(t)'
  BY <1>2, <1>3, <1>4 DEF Good, OneWay
<1>6. Fresh(t)'
  <2>1. UNCHANGED <<strat, deduped>> /\ s \in draining /\ draining' = draining \ {s}
    BY DEF Sends
  <2>2. \A q \in Ids : q # n => req'[q] = req[q]
    BY <1>1 DEF Appears, Others
  <2>3. CASE t = s
    BY <1>2, <2>1, <2>3 DEF Good, Fresh, Waits
  <2>4. CASE t # s
    BY <1>2, <1>1, <1>4, <2>1, <2>2, <2>4 DEF Good, Fresh, Waits, Appears, Exit, Of, Counts
  <2> QED BY <2>3, <2>4
<1>7. Lots(t)'
  BY <1>1, <1>2 DEF Sends, Held, Good, Lots, Hedged, Of, Counts, Empty, Appears, Others
<1> QED BY <1>3, <1>5, <1>6, <1>7 DEF Good

LEMMA DropsKeeps ==
  ASSUME LiveType, AllGood, NEW s \in Symbols, Drops(s), strat'.queue = strat.queue
  PROVE  AllGood' /\ Ends("exit", s) /\ Leaves(s)
<1> SUFFICES ASSUME NEW t \in Symbols
             PROVE  /\ Good(t)' /\ (t = s => Leaves(t))
                    /\ (Leaves(t)' <=> Leaves(t) /\ t # s) /\ (Enters(t)' <=> Enters(t))
  BY DEF AllGood, Ends
<1>1. Good(t) /\ OneExit(t)
  BY DEF AllGood, Good, OneWay
<1>2. /\ OneExit(t)' /\ (t = s => Leaves(t))
      /\ (Leaves(t)' <=> Leaves(t) /\ t # s) /\ (Enters(t)' <=> Enters(t))
  BY <1>1, DropsExits
<1>3. OneWay(t)'
  BY <1>1, <1>2 DEF Drops, Good, OneWay, Entry, Of, Counts
<1>4. Fresh(t)'
  BY <1>1 DEF Drops, Good, Fresh, Waits, Exit, Of, Counts
<1>5. Lots(t)'
  BY <1>1 DEF Drops, Held, Good, Lots, Hedged, Of, Counts, Empty
<1> QED BY <1>2, <1>3, <1>4, <1>5 DEF Good

LEMMA VanishesKeeps ==
  ASSUME LiveType, AllGood, NEW r \in Ids, Refused(r) \/ Handled(r), strat'.queue = strat.queue
  PROVE  /\ AllGood' /\ Ends(req[r].kind, req[r].sym)
         /\ req[r].kind = "exit" => Leaves(req[r].sym)
         /\ req[r].kind = "entry" => Enters(req[r].sym)
<1>1. Vanishes(r) /\ UNCHANGED <<draining, long, short>> /\ reported \subseteq reported'
  BY DEF Refused, Handled, Held
<1>2. req[r].sym \in Symbols
  BY <1>1, RequestShape DEF Vanishes, Counts
<1> SUFFICES ASSUME NEW t \in Symbols
             PROVE  /\ Good(t)'
                    /\ t = req[r].sym /\ req[r].kind = "exit" => Leaves(t)
                    /\ t = req[r].sym /\ req[r].kind = "entry" => Enters(t)
                    /\ Leaves(t)' <=> Leaves(t) /\ ~(req[r].kind = "exit" /\ t = req[r].sym)
                    /\ Enters(t)' <=> Enters(t) /\ ~(req[r].kind = "entry" /\ t = req[r].sym)
  BY <1>2 DEF AllGood, Ends
<1>3. Good(t) /\ OneWay(t) /\ OneExit(t)
  BY DEF AllGood, Good, OneWay
<1>4. /\ OneExit(t)'
      /\ t = req[r].sym /\ req[r].kind = "exit" => Leaves(t)
      /\ t = req[r].sym /\ req[r].kind = "entry" => Enters(t)
      /\ Leaves(t)' <=> Leaves(t) /\ ~(req[r].kind = "exit" /\ t = req[r].sym)
      /\ Enters(t)' <=> Enters(t) /\ ~(req[r].kind = "entry" /\ t = req[r].sym)
  BY <1>1, <1>3, VanishesExits
<1>5. \A q \in Ids : /\ Exit(q, t)' <=> Exit(q, t) /\ q # r
                     /\ Entry(q, t)' <=> Entry(q, t) /\ q # r
                     /\ q # r => req'[q] = req[q]
  BY <1>1 DEF Vanishes, Others, Exit, Entry, Of, Counts
<1>6. OneWay(t)'
  BY <1>3, <1>4, <1>5 DEF OneWay
<1>7. Fresh(t)'
  <2>1. <<"exit", t>> \in deduped' => <<"exit", t>> \in deduped
    BY DEF Refused, Handled
  <2> QED BY <1>1, <1>3, <1>5, <2>1 DEF Good, Fresh, Waits
<1>8. Lots(t)'
  BY <1>1, <1>3 DEF Good, Lots, Hedged, Of, Counts, Empty, Vanishes, Others
<1> QED BY <1>4, <1>6, <1>7, <1>8 DEF Good

LEMMA ProceedsKeeps ==
  ASSUME LiveType, LiveType', AllGood, NEW r \in Ids, Admitted(r) \/ Started(r) \/ Answered(r)
  PROVE  AllGood' /\ Stays
<1>1. /\ Proceeds(r) /\ req'[r].pc \in {"queued", "executing", "answered"}
      /\ UNCHANGED <<draining, strat, reported>>
  BY DEF Admitted, Started, Answered, Held
<1> SUFFICES ASSUME NEW t \in Symbols
             PROVE  Good(t)' /\ (Leaves(t)' <=> Leaves(t)) /\ (Enters(t)' <=> Enters(t))
  BY DEF AllGood, Stays
<1>2. Good(t) /\ OneWay(t) /\ OneExit(t)
  BY DEF AllGood, Good, OneWay
<1>3. OneExit(t)' /\ (Leaves(t)' <=> Leaves(t)) /\ (Enters(t)' <=> Enters(t))
  BY <1>1, <1>2, ProceedsExits
<1>4. \A q \in Ids : (Exit(q, t)' <=> Exit(q, t)) /\ (Entry(q, t)' <=> Entry(q, t))
                     /\ (q # r => req'[q] = req[q])
  BY <1>1 DEF Proceeds, Others, Exit, Entry, Of, Counts
<1>5. OneWay(t)'
  BY <1>2, <1>3, <1>4 DEF OneWay
<1>6. Fresh(t)'
  <2>1. CASE Admitted(r)
    <3>1. deduped' = deduped \cup {<<req[r].kind, req[r].sym>>} /\ Counts(r)
      BY <2>1 DEF Admitted, Proceeds
    <3>2. CASE Exit(r, t)
      BY <1>1, <1>2, <1>4, <2>1, <3>2 DEF OneExit, Fresh, Waits, Admitted
    <3>3. CASE ~Exit(r, t)
      <4>1. <<"exit", t>> \in deduped' => <<"exit", t>> \in deduped
        BY <3>1, <3>3 DEF Exit, Of
      <4> QED BY <1>1, <1>2, <1>4, <3>3, <4>1 DEF Good, Fresh, Waits
    <3> QED BY <3>2, <3>3
  <2>2. CASE Started(r) \/ Answered(r)
    <3>1. deduped' = deduped /\ req'[r].pc # "new"
      BY <2>2 DEF Started, Answered
    <3> QED BY <1>1, <1>2, <1>4, <3>1 DEF Good, Fresh, Waits
  <2> QED BY <2>1, <2>2
<1>7. Lots(t)'
  <2> SUFFICES ASSUME t \notin reported
               PROVE  /\ (long[t] <= 1 \/ short[t] <= 1)'
                      /\ \A q \in Ids : Of(q, t)' /\ Empty(q)' => ~Hedged(t)'
    BY <1>1 DEF Lots
  <2>1. \A q \in Ids : Of(q, t)' <=> Of(q, t)
    BY <1>1 DEF Proceeds, Others, Of, Counts
  <2>2. \A q \in Ids \ {r} : Empty(q)' <=> Empty(q)
    BY <1>1 DEF Proceeds, Others, Empty
  <2>3. /\ long[t] <= 1 \/ short[t] <= 1
        /\ \A q \in Ids : Of(q, t) /\ Empty(q) => ~Hedged(t)
    BY <1>2 DEF Good, Lots
  <2>4. CASE Admitted(r) \/ Started(r) \/ t # req[r].sym
    <3>1. long'[t] = long[t] /\ short'[t] = short[t]
      BY <2>4 DEF Admitted, Started, Answered, Held
    <3>2. Of(r, t) => (Empty(r)' => Empty(r))
      BY <1>1, <2>4 DEF Admitted, Started, Empty, Proceeds, Of
    <3> QED BY <2>1, <2>2, <2>3, <3>1, <3>2 DEF Hedged
  <2>5. CASE Answered(r) /\ t = req[r].sym
    <3>1. long[t] \in Nat /\ short[t] \in Nat /\ req[r].kind \in Kinds /\ Of(r, t)
      BY <1>1, <2>5, RequestShape DEF LiveType, Proceeds, Counts, Of
    <3>2. \A q \in Ids \ {r} : Of(q, t) => Entry(q, t) \/ Exit(q, t)
      BY RequestShape DEF Of, Counts, Kinds, Entry, Exit
    <3>3. \A q \in Ids : Of(q, t) => q = r
      BY <1>2, <3>1, <3>2 DEF OneWay, OneExit, Leaves, Enters, Kinds, Entry, Exit
    <3>4. /\ req'[r].pc = "answered" /\ req'[r].kind = req[r].kind /\ req[r].pc = "executing"
      BY <2>5 DEF Answered, Proceeds
    <3>5. CASE req[r].kind = "entry"
      <4>1. ~(long[t] > 0 /\ short[t] > 0)
        BY <2>3, <3>1, <3>4, <3>5 DEF Empty, Hedged
      <4>2. (long[t] <= 1 \/ short[t] <= 1)'
        BY <2>5, <3>1, <3>5, <4>1 DEF Answered, Moved
      <4>3. Empty(r)' => ~Hedged(t)'
        BY <2>5, <3>4, <3>5, <4>1 DEF Answered, Empty, Hedged
      <4> QED BY <2>1, <3>3, <4>2, <4>3
    <3>6. CASE req[r].kind = "exit"
      <4>1. (long[t] <= 1 \/ short[t] <= 1)'
        BY <2>3, <2>5, <3>1, <3>6 DEF Answered, Moved
      <4>2. Empty(r)' => ~Hedged(t)'
        BY <2>3, <2>5, <3>1, <3>4, <3>6 DEF Answered, Empty, Hedged, Moved
      <4> QED BY <2>1, <3>3, <4>1, <4>2
    <3> QED BY <3>1, <3>5, <3>6 DEF Kinds
  <2> QED BY <2>4, <2>5
<1> QED BY <1>3, <1>5, <1>6, <1>7 DEF Good

LEMMA QuietKeeps ==
  ASSUME LiveType, AllGood, Quiet
  PROVE  AllGood' /\ Stays
<1> SUFFICES ASSUME NEW t \in Symbols
             PROVE  Good(t)' /\ (Leaves(t)' <=> Leaves(t)) /\ (Enters(t)' <=> Enters(t))
  BY DEF AllGood, Stays
<1>1. Good(t) /\ OneWay(t) /\ OneExit(t)
  BY DEF AllGood, Good, OneWay
<1>2. OneExit(t)' /\ (Leaves(t)' <=> Leaves(t)) /\ (Enters(t)' <=> Enters(t))
  BY <1>1, QuietExits
<1>3. \A q \in Ids : /\ Exit(q, t)' <=> Exit(q, t)
                     /\ Entry(q, t)' <=> Entry(q, t)
                     /\ Of(q, t)' <=> Of(q, t)
                     /\ Of(q, t) => req'[q] = req[q]
  BY DEF Quiet, Others, Exit, Entry, Of, Counts
<1>4. OneWay(t)'
  BY <1>1, <1>2, <1>3 DEF OneWay
<1>5. Fresh(t)'
  BY <1>1, <1>3 DEF Good, Quiet, Fresh, Waits, Exit
<1>6. Lots(t)'
  BY <1>1, <1>3 DEF Good, Quiet, Held, Lots, Hedged, Empty
<1> QED BY <1>2, <1>4, <1>5, <1>6 DEF Good

-----------------------------------------------------------------------------
(* The strategy asks for exits and entries.                                *)

\* Exits are queued.
Queues(due) ==
  /\ strat'.queue = strat.queue \cup due /\ UNCHANGED <<draining, deduped>> /\ Held

\* Nothing of the symbols is on its way as an exit.
NoExit(due) == \A t \in due : t \notin draining /\ \A r \in Ids : ~Exit(r, t)

\* Nothing at all is, and their exits are not in the collision window.
Free(due) == \A t \in due : ~Leaves(t) /\ ~Enters(t) /\ <<"exit", t>> \notin deduped

LEMMA QueuesExits ==
  ASSUME NEW due, Queues(due), NoExit(due),
         req' = req \/ \E n \in Ids, s \in Symbols : Appears(n, "entry", s),
         NEW t \in Symbols, OneExit(t)
  PROVE  /\ OneExit(t)'
         /\ Leaves(t)' <=> Leaves(t) \/ t \in due
<1>1. \A q \in Ids : Exit(q, t)' <=> Exit(q, t)
  BY DEF Appears, Others, Exit, Of, Counts
<1>2. OneExit(t)'
  BY <1>1 DEF Queues, NoExit, OneExit, Waits
<1>3. Leaves(t)' <=> Leaves(t) \/ t \in due
  BY <1>1 DEF Queues, Leaves, Waits
<1> QED BY <1>2, <1>3

LEMMA DrainExits ==
  ASSUME draining = {}, draining' = strat.queue, strat'.queue = {}, req' = req,
         NEW t \in Symbols, OneExit(t)
  PROVE  OneExit(t)' /\ (Leaves(t)' <=> Leaves(t)) /\ (Enters(t)' <=> Enters(t))
<1>1. \A q \in Ids : (Exit(q, t)' <=> Exit(q, t)) /\ (Entry(q, t)' <=> Entry(q, t))
  BY DEF Exit, Entry, Of, Counts
<1> QED BY <1>1 DEF OneExit, Leaves, Enters, Waits

LEMMA QueuesKeeps ==
  ASSUME AllGood, NEW due, Queues(due), Free(due), req' = req
  PROVE  /\ AllGood'
         /\ \A t \in Symbols : /\ Leaves(t)' <=> Leaves(t) \/ t \in due
                               /\ Enters(t)' <=> Enters(t)
<1> SUFFICES ASSUME NEW t \in Symbols
             PROVE  /\ Good(t)' /\ (Leaves(t)' <=> Leaves(t) \/ t \in due)
                    /\ Enters(t)' <=> Enters(t)
  BY DEF AllGood
<1>1. Good(t) /\ OneWay(t) /\ OneExit(t)
  BY DEF AllGood, Good, OneWay
<1>2. NoExit(due)
  BY DEF Free, NoExit, Leaves, Waits
<1>3. OneExit(t)' /\ (Leaves(t)' <=> Leaves(t) \/ t \in due)
  BY <1>1, <1>2, QueuesExits
<1>4. Enters(t)' <=> Enters(t)
  BY DEF Enters, Entry, Of, Counts
<1>5. OneWay(t)'
  BY <1>1, <1>3, <1>4 DEF Free, OneWay, Entry, Of, Counts
<1>6. Fresh(t)'
  BY <1>1 DEF Queues, Free, Good, Fresh, Waits, Exit, Of, Counts
<1>7. Lots(t)'
  BY <1>1 DEF Queues, Held, Good, Lots, Of, Counts, Empty, Hedged
<1> QED BY <1>3, <1>4, <1>5, <1>6, <1>7 DEF Good

LEMMA EntryKeeps ==
  ASSUME AllGood, NEW due, Queues(due), Free(due),
         NEW s \in Symbols, s \notin due, ~Leaves(s), ~Enters(s), Hedged(s) => s \in reported,
         \E n \in Ids : Appears(n, "entry", s)
  PROVE  /\ AllGood'
         /\ \A t \in Symbols : /\ Leaves(t)' <=> Leaves(t) \/ t \in due
                               /\ Enters(t)' <=> Enters(t) \/ t = s
<1> SUFFICES ASSUME NEW t \in Symbols
             PROVE  /\ Good(t)' /\ (Leaves(t)' <=> Leaves(t) \/ t \in due)
                    /\ Enters(t)' <=> Enters(t) \/ t = s
  BY DEF AllGood
<1>1. Good(t) /\ OneWay(t) /\ OneExit(t)
  BY DEF AllGood, Good, OneWay
<1>2. NoExit(due)
  BY DEF Free, NoExit, Leaves, Waits
<1>3. OneExit(t)' /\ (Leaves(t)' <=> Leaves(t) \/ t \in due)
  BY <1>1, <1>2, QueuesExits
<1>4. PICK n \in Ids : Appears(n, "entry", s)
  OBVIOUS
<1>5. \A q \in Ids : /\ Entry(q, t)' <=> Entry(q, t) \/ (q = n /\ t = s)
                     /\ Exit(q, t)' <=> Exit(q, t)
                     /\ Of(q, t)' <=> Of(q, t) \/ (q = n /\ t = s)
                     /\ q # n => req'[q] = req[q]
  BY <1>4 DEF Appears, Others, Entry, Exit, Of, Counts
<1>6. Enters(t)' <=> Enters(t) \/ t = s
  BY <1>5 DEF Enters
<1>7. OneWay(t)'
  BY <1>1, <1>3, <1>5, <1>6 DEF Free, OneWay, Enters
<1>8. Fresh(t)'
  <2>1. \A q \in Ids : Exit(q, t)' => Exit(q, t) /\ req'[q] = req[q]
    BY <1>4, <1>5 DEF Appears, Exit, Of, Counts
  <2> QED BY <1>1, <2>1 DEF Queues, Free, Good, Fresh, Waits
<1>9. Lots(t)'
  <2>1. ~Of(n, t)
    BY <1>4 DEF Appears, Of, Counts
  <2>2. CASE t = s
    BY <2>2 DEF Queues, Held, Lots, Hedged, Good, AllGood
  <2>3. CASE t # s
    BY <1>1, <1>5, <2>1, <2>3 DEF Queues, Held, Good, Lots, Empty, Hedged
  <2> QED BY <2>2, <2>3
<1> QED BY <1>3, <1>6, <1>7, <1>8, <1>9 DEF Good

LEMMA DrainKeeps ==
  ASSUME AllGood, draining = {}, draining' = strat.queue, strat'.queue = {},
         UNCHANGED <<req, deduped>>, Held
  PROVE  AllGood' /\ Stays
<1> SUFFICES ASSUME NEW t \in Symbols
             PROVE  Good(t)' /\ (Leaves(t)' <=> Leaves(t)) /\ (Enters(t)' <=> Enters(t))
  BY DEF AllGood, Stays
<1>1. Good(t) /\ OneWay(t) /\ OneExit(t)
  BY DEF AllGood, Good, OneWay
<1>2. OneExit(t)' /\ (Leaves(t)' <=> Leaves(t)) /\ (Enters(t)' <=> Enters(t))
  BY <1>1, DrainExits
<1>3. OneWay(t)'
  BY <1>1, <1>2 DEF OneWay, Entry, Of, Counts
<1>4. Fresh(t)'
  BY <1>1 DEF Good, Fresh, Waits, Exit, Of, Counts
<1>5. Lots(t)'
  BY <1>1 DEF Held, Good, Lots, Of, Counts, Empty, Hedged
<1> QED BY <1>2, <1>3, <1>4, <1>5 DEF Good

\* A queued exit, or one that is due, is sent at once.
LEMMA RoutedKeeps ==
  ASSUME AllGood, NEW due, Free(due), NEW s \in Symbols, s \in strat.queue \cup due,
         strat'.queue = (strat.queue \cup due) \ {s}, UNCHANGED <<draining, deduped>>, Held,
         \E n \in Ids : Appears(n, "exit", s)
  PROVE  /\ AllGood'
         /\ \A t \in Symbols : /\ Leaves(t)' <=> Leaves(t) \/ t \in due
                               /\ Enters(t)' <=> Enters(t)
<1> SUFFICES ASSUME NEW t \in Symbols
             PROVE  /\ Good(t)' /\ (Leaves(t)' <=> Leaves(t) \/ t \in due)
                    /\ Enters(t)' <=> Enters(t)
  BY DEF AllGood
<1>1. Good(t) /\ OneWay(t) /\ OneExit(t)
  BY DEF AllGood, Good, OneWay
<1>2. PICK n \in Ids : Appears(n, "exit", s)
  OBVIOUS
<1>3. \A q \in Ids : /\ Exit(q, t)' <=> Exit(q, t) \/ (q = n /\ t = s)
                     /\ Entry(q, t)' <=> Entry(q, t)
                     /\ Of(q, t)' <=> Of(q, t) \/ (q = n /\ t = s)
                     /\ q # n => req'[q] = req[q]
  BY <1>2 DEF Appears, Others, Entry, Exit, Of, Counts
<1>4. (Leaves(t)' <=> Leaves(t) \/ t \in due) /\ (Enters(t)' <=> Enters(t))
  BY <1>3 DEF Leaves, Enters, Waits
<1>5. OneExit(t)'
  BY <1>1, <1>3 DEF Free, OneExit, Leaves, Waits
<1>6. OneWay(t)'
  BY <1>1, <1>3, <1>4, <1>5 DEF Free, OneWay
<1>7. Fresh(t)'
  <2>1. CASE t = s
    BY <1>1, <2>1 DEF Free, Good, Fresh, Waits
  <2>2. CASE t # s
    <3>1. ~Exit(n, t)
      BY <1>2 DEF Appears, Exit, Of, Counts
    <3> QED BY <1>1, <1>3, <2>2, <3>1 DEF Free, Good, Fresh, Waits
  <2> QED BY <2>1, <2>2
<1>8. Lots(t)'
  BY <1>1, <1>2, <1>3 DEF Held, Good, Lots, Empty, Hedged, Appears
<1> QED BY <1>4, <1>6, <1>7, <1>8 DEF Good

-----------------------------------------------------------------------------
(* What a step leaves of what is known.                                    *)

AllKnown == \A t \in Symbols : Known(t)

LEMMA HeldKnown ==
  ASSUME AllKnown, Held,
         \A t \in Symbols : t \in strat.open \/ Leaves(t) \/ Enters(t)
                              => t \in strat'.open \/ Leaves(t)' \/ Enters(t)'
  PROVE  AllKnown'
  BY DEF AllKnown, Known, Held, Hedged

LEMMA AnsweredKnown ==
  ASSUME LiveType, AllKnown, NEW r \in Ids, Answered(r), Stays
  PROVE  AllKnown'
<1> SUFFICES ASSUME NEW t \in Symbols PROVE Known(t)'
  BY DEF AllKnown
<1>1. strat' = strat /\ reported' = reported /\ Counts(r) /\ Proceeds(r)
  BY DEF Answered, Proceeds
<1>2. CASE t = req[r].sym
  <2>1. Entry(r, t) \/ Exit(r, t)
    BY <1>1, <1>2, RequestShape DEF Kinds, Entry, Exit, Of, Counts
  <2>2. Leaves(t)' \/ Enters(t)'
    BY <2>1 DEF Leaves, Enters, Stays
  <2> QED BY <2>2 DEF Known
<1>3. CASE t # req[r].sym
  <2>1. long'[t] = long[t] /\ short'[t] = short[t]
    BY <1>3 DEF Answered
  <2> QED BY <1>1, <2>1 DEF AllKnown, Known, Hedged, Stays
<1> QED BY <1>2, <1>3

\* The answer of the request is that nothing is there, or the operator is told.
Over(r) ==
  \/ req[r].kind = "entry" /\ (req[r].pc = "answered" => req[r].ans # "SUCCESS")
  \/ req[r].pc = "answered" /\ req[r].ans = "ROLLBACK_FAILED"
  \/ req[r].kind = "exit" /\ req[r].pc = "answered" /\ req[r].ans = "SUCCESS"

LEMMA OverEmpty ==
  ASSUME LiveType, AllGood, NEW r \in Ids, Refused(r) \/ Handled(r), Over(r)
  PROVE  Hedged(req[r].sym) => req[r].sym \in reported'
<1> DEFINE s == req[r].sym
<1>1. Of(r, s) /\ s \in Symbols /\ reported \subseteq reported'
  BY RequestShape DEF Refused, Handled, Vanishes, Of, Counts, Held
<1>2. CASE Empty(r)
  BY <1>1, <1>2 DEF AllGood, Good, Lots
<1>3. CASE ~Empty(r)
  <2>1. req[r].pc = "answered" /\ req[r].ans = "ROLLBACK_FAILED"
    BY <1>3 DEF Over, Empty
  <2> QED BY <2>1 DEF Refused, Handled
<1> QED BY <1>2, <1>3

LEMMA VanishesKnown ==
  ASSUME LiveType, AllGood, AllKnown, NEW r \in Ids, Refused(r) \/ Handled(r),
         Ends(req[r].kind, req[r].sym), req[r].sym \in strat'.open \/ Over(r),
         \A t \in Symbols \ {req[r].sym} : t \in strat.open => t \in strat'.open
  PROVE  AllKnown'
<1> SUFFICES ASSUME NEW t \in Symbols PROVE Known(t)'
  BY DEF AllKnown
<1>1. UNCHANGED <<long, short>> /\ reported \subseteq reported'
  BY DEF Refused, Handled, Held
<1>2. CASE t = req[r].sym
  BY <1>1, <1>2, OverEmpty DEF Known, Hedged
<1>3. CASE t # req[r].sym
  BY <1>1, <1>3 DEF AllKnown, Known, Hedged, Ends
<1> QED BY <1>2, <1>3
LEMMA FundingLive ==
  ASSUME LiveType, Funding!LiveNext
  PROVE  /\ LiveType'
         /\ \/ \E s \in Symbols : Sends(s)
            \/ \E s \in Symbols :
                 /\ Drops(s) /\ strat' = Funding!ClearGhost(strat, s)
                 /\ Blind \/ ~Funding!FirstLegHeld(long[s], short[s])
            \/ \E r \in Ids :
                 /\ Refused(r)
                 /\ \/ strat' = Funding!Notify(r)
                    \/ req[r].kind = "entry" /\ strat' = Funding!ClearPending(strat, req[r].sym)
                    \/ /\ req[r].kind = "exit" /\ req[r].pc = "new"
                       /\ <<"exit", req[r].sym>> \in deduped /\ strat' = strat
            \/ \E r \in Ids : Admitted(r) \/ Started(r) \/ Answered(r)
            \/ \E r \in Ids : Handled(r) /\ strat' = Funding!Told(r)
            \/ Quiet
<1>1. ASSUME NEW s \in Symbols, Funding!SendExit(s) PROVE LiveType' /\ Sends(s)
  <2>1. Funding!Spawn("exit", s) /\ "exit" \in Kinds
    BY <1>1 DEF Funding!SendExit, Kinds
  <2>2. req' \in [Ids -> Requests] /\ \E r \in Ids : Appears(r, "exit", s)
    BY <2>1, SpawnStep
  <2> QED BY <1>1, <2>2 DEF Funding!SendExit, Sends, Held, Funding!exchange, LiveType
<1>2. ASSUME NEW s \in Symbols, Funding!DropGhost(s)
      PROVE  /\ LiveType' /\ Drops(s) /\ strat' = Funding!ClearGhost(strat, s)
             /\ Blind \/ ~Funding!FirstLegHeld(long[s], short[s])
  BY <1>2 DEF Funding!DropGhost, Funding!Unseen, Funding!Listed, Blind, Drops, Held, Funding!exchange, LiveType
<1>3. ASSUME NEW r \in Ids, Funding!Refuse(r)
      PROVE  /\ LiveType' /\ Refused(r)
             /\ \/ strat' = Funding!Notify(r)
                \/ req[r].kind = "entry" /\ strat' = Funding!ClearPending(strat, req[r].sym)
                \/ /\ req[r].kind = "exit" /\ req[r].pc = "new"
                   /\ <<"exit", req[r].sym>> \in deduped /\ strat' = strat
  <2>1. /\ req[r].pc \in {"new", "queued"} /\ Funding!End(r) /\ UNCHANGED draining /\ Held
        /\ \/ deduped' = deduped
           \/ req[r].kind = "entry" /\ deduped' = deduped \cup {<<req[r].kind, req[r].sym>>}
    BY <1>3 DEF Funding!Refuse, Funding!GateRefuses, Funding!CoolingRefuses, Funding!MarginRefuses, Funding!DedupRefuses,
                Funding!NotionalRefuses, Funding!ImpactRefuses, Funding!At, Funding!PastCooldown, Funding!IsEntry, Funding!Key,
                Funding!exchange, Held
  <2>2. req' \in [Ids -> Requests] /\ Others(r) /\ req'[r].pc = "none"
    BY <2>1, EndStep
  <2>3. LiveType' /\ Refused(r)
    BY <2>1, <2>2 DEF Refused, Vanishes, Counts, Held, LiveType
  <2>4. req[r].kind \in Kinds
    BY <2>1, RequestShape
  <2>5. \/ strat' = Funding!Notify(r)
        \/ req[r].kind = "entry" /\ strat' = Funding!ClearPending(strat, req[r].sym)
        \/ /\ req[r].kind = "exit" /\ req[r].pc = "new"
           /\ <<"exit", req[r].sym>> \in deduped /\ strat' = strat
    BY <1>3, <2>4 DEF Funding!Refuse, Funding!GateRefuses, Funding!CoolingRefuses, Funding!MarginRefuses, Funding!DedupRefuses,
                Funding!NotionalRefuses, Funding!ImpactRefuses, Funding!At, Funding!PastCooldown, Funding!IsEntry, Funding!Key, Kinds
  <2> QED BY <2>3, <2>5
<1>4. ASSUME NEW r \in Ids, Funding!Handle(r)
      PROVE  LiveType' /\ Handled(r) /\ strat' = Funding!Told(r)
  <2>1. /\ req[r].pc = "answered" /\ strat' = Funding!Told(r)
        /\ reported' = IF req[r].ans = "ROLLBACK_FAILED" THEN reported \cup {req[r].sym} ELSE reported
        /\ UNCHANGED <<draining, deduped, long, short>>
    BY <1>4 DEF Funding!Handle, Funding!At
  <2>2. /\ req' \in [Ids -> Requests] /\ Others(r) /\ req'[r].pc \in {"none", "post"}
        /\ req'[r].pc = "post" => req'[r].kind = req[r].kind /\ req'[r].sym = req[r].sym
    <3>1. CASE Funding!End(r)
      BY <2>1, <3>1, EndStep
    <3>2. CASE req' = [req EXCEPT ![r].pc = "post"]
      <4>1. req[r] \in [pc : {"answered", "post"}, kind : Kinds, sym : Symbols, ans : Answers]
        BY <2>1, RequestShape DEF Requests
      <4>2. [req[r] EXCEPT !.pc = "post"] \in Requests
        BY <4>1 DEF Requests
      <4> QED BY <3>2, <4>1, <4>2 DEF Others, LiveType
    <3> QED BY <1>4, <3>1, <3>2 DEF Funding!Handle
  <2> QED BY <2>1, <2>2 DEF Handled, Vanishes, Counts, LiveType
<1>5. ASSUME NEW r \in Ids, NEW a \in Funding!Answers, Funding!Execute(r, a)
      PROVE  LiveType' /\ Answered(r)
  <2>1. a \in Answers
    BY DEF Funding!Answers, Answers
  <2> QED BY <1>5, <2>1, ExecuteStep
<1> QED
  BY <1>1, <1>2, <1>3, <1>4, <1>5, AdmitStep, StartStep, PostStep, ExpireStep
     DEF Funding!LiveNext, Funding!Settle


-----------------------------------------------------------------------------
(* The funding-rate strategy.                                              *)

FundingStates ==
  [open : SUBSET Symbols, settling : SUBSET Symbols, queue : SUBSET Symbols,
   routed : BOOLEAN, blocked : BOOLEAN, hour : BOOLEAN]
FundingType == strat \in FundingStates

\* What the callbacks of live mode make of the strategy.
FundingClosed(s) == [strat EXCEPT !.settling = @ \ {s}]

LEMMA FundingCallbacks ==
  ASSUME FundingType, NEW s \in Symbols
  PROVE  \A st \in {Funding!EntryRollback(strat, s), Funding!ExitRollback(strat, s),
                    FundingClosed(s), Funding!ClearGhost(strat, s)} :
           /\ st \in FundingStates /\ st.queue = strat.queue /\ st.hour = strat.hour
           /\ st.settling \subseteq strat.settling
           /\ \A t \in Symbols \ {s} : (t \in st.open <=> t \in strat.open)
                                       /\ (t \in st.settling <=> t \in strat.settling)
<1> DEFINE Kept(st) ==
             /\ st \in FundingStates /\ st.queue = strat.queue /\ st.hour = strat.hour
             /\ st.settling \subseteq strat.settling
             /\ \A t \in Symbols \ {s} : (t \in st.open <=> t \in strat.open)
                                         /\ (t \in st.settling <=> t \in strat.settling)
<1>1. Kept(strat)
  BY DEF FundingType
<1>2. Kept(Funding!EntryRollback(strat, s)) /\ Kept(FundingClosed(s)) /\ Kept(Funding!ClearGhost(strat, s))
  BY DEF FundingType, FundingStates, Funding!EntryRollback, FundingClosed, Funding!ClearGhost
<1>3. Kept([strat EXCEPT !.settling = @ \ {s}, !.open = @ \cup {s}, !.routed = FALSE])
  BY DEF FundingType, FundingStates
<1> QED BY <1>1, <1>2, <1>3 DEF Funding!ExitRollback

LEMMA FundingAnswers ==
  ASSUME LiveType, FundingType, NEW r \in Ids, req[r].pc # "none"
  PROVE  /\ Funding!Notify(r) = IF req[r].kind = "exit" THEN Funding!ExitRollback(strat, req[r].sym)
                                ELSE Funding!EntryRollback(strat, req[r].sym)
         /\ req[r].pc = "answered" =>
              Funding!Told(r) =
                IF req[r].kind = "exit"
                THEN IF req[r].ans = "SUCCESS" THEN FundingClosed(req[r].sym)
                     ELSE Funding!ExitRollback(strat, req[r].sym)
                ELSE IF req[r].ans \in {"SUCCESS", "ROLLBACK_FAILED"} THEN strat
                ELSE Funding!EntryRollback(strat, req[r].sym)
  BY RequestShape DEF Funding!Notify, Funding!Told, Funding!IsEntry, Funding!Success, FundingClosed, Kinds

LEMMA FundingTypes ==
  ASSUME LiveType, FundingType, Funding!LiveNext
  PROVE  /\ FundingType' /\ strat'.queue = strat.queue /\ strat'.hour = strat.hour
         /\ strat'.settling \subseteq strat.settling
<1> DEFINE Kept == /\ FundingType' /\ strat'.queue = strat.queue /\ strat'.hour = strat.hour
                   /\ strat'.settling \subseteq strat.settling
<1>1. ASSUME NEW r \in Ids, req[r].pc # "none",
             \/ strat' \in {strat, Funding!Notify(r), Funding!ClearPending(strat, req[r].sym)}
             \/ req[r].pc = "answered" /\ strat' = Funding!Told(r)
      PROVE  Kept
  <2>1. req[r].sym \in Symbols
    BY <1>1, RequestShape
  <2>2. strat' \in {strat, Funding!EntryRollback(strat, req[r].sym),
                   Funding!ExitRollback(strat, req[r].sym), FundingClosed(req[r].sym)}
    BY <1>1, FundingAnswers DEF Funding!ClearPending
  <2> QED BY <2>1, <2>2, FundingCallbacks DEF FundingType
<1>2. ASSUME NEW s \in Symbols, strat' = Funding!ClearGhost(strat, s)
      PROVE  Kept
  BY <1>2, FundingCallbacks DEF FundingType
<1>3. CASE strat' = strat
  BY <1>3 DEF FundingType
<1> QED BY <1>1, <1>2, <1>3, FundingLive DEF Sends, Refused, Handled, Admitted, Started, Answered, Quiet

\* The positions that are to be settled now.
Due == IF strat.hour THEN strat.open ELSE {}

LEMMA FundingReleased ==
  ASSUME FundingType
  PROVE  /\ Funding!Released \in FundingStates /\ ~Funding!Released.hour
         /\ Funding!Released.open = strat.open \ Due
         /\ Funding!Released.settling = strat.settling \cup Due
         /\ Funding!Released.queue = strat.queue \cup Due
  BY DEF FundingType, FundingStates, Funding!Released, Due

\* What the strategy does by itself: a signal, the filter, the hour, the pause.
FundingEnters(s) ==
  /\ Due = {} /\ s \notin strat.open /\ s \notin strat.settling
  /\ \E n \in Ids : Appears(n, "entry", s)
  /\ strat'.open = strat.open \cup {s} /\ strat'.settling = strat.settling
  /\ strat'.queue = strat.queue /\ ~strat'.hour /\ UNCHANGED <<draining, deduped>> /\ Held

FundingRoutes(s) ==
  /\ s \in strat.queue \cup Due /\ \E n \in Ids : Appears(n, "exit", s)
  /\ strat'.open = strat.open \ Due /\ strat'.settling = strat.settling \cup Due
  /\ strat'.queue = (strat.queue \cup Due) \ {s} /\ ~strat'.hour
  /\ UNCHANGED <<draining, deduped>> /\ Held

FundingTurns ==
  /\ strat'.open = strat.open /\ strat'.settling = strat.settling /\ strat'.queue = strat.queue
  /\ UNCHANGED <<req, draining, deduped>> /\ Held
  /\ strat'.hour => strat.hour \/ Funding!HourBegins

LEMMA FundingAlone ==
  ASSUME LiveType, FundingType,
         \/ \E s \in Symbols : Funding!OnSignal(s) \/ Funding!SignalExit(s)
         \/ Funding!Filter \/ Funding!HourBegins \/ Funding!CooldownEnds
  PROVE  /\ LiveType' /\ FundingType'
         /\ FundingTurns \/ \E s \in Symbols : FundingEnters(s) \/ FundingRoutes(s)
<1>1. ASSUME NEW s \in Symbols, Funding!OnSignal(s)
      PROVE  LiveType' /\ FundingType' /\ FundingEnters(s)
  <2>1. /\ Funding!Spawn("entry", s) /\ UNCHANGED <<draining, deduped>> /\ Held
        /\ strat' = [Funding!Released EXCEPT !.open = @ \cup {s}]
        /\ Funding!Released.queue = {} /\ s \notin Funding!Released.open \cup Funding!Released.settling
    BY <1>1 DEF Funding!OnSignal, Funding!Accepts, Funding!Signal, Funding!exchange, Held
  <2>2. req' \in [Ids -> Requests] /\ \E n \in Ids : Appears(n, "entry", s)
    BY <2>1, SpawnStep DEF Kinds
  <2> QED BY <2>1, <2>2, FundingReleased DEF FundingEnters, FundingType, FundingStates, LiveType, Held
<1>2. ASSUME NEW s \in Symbols, Funding!SignalExit(s)
      PROVE  LiveType' /\ FundingType' /\ FundingRoutes(s)
  <2>1. /\ Funding!Spawn("exit", s) /\ UNCHANGED <<draining, deduped>> /\ Held
        /\ strat' = [Funding!Released EXCEPT !.queue = @ \ {s}, !.routed = TRUE]
        /\ s \in Funding!Released.queue
    BY <1>2 DEF Funding!SignalExit, Funding!Signal, Funding!exchange, Held
  <2>2. req' \in [Ids -> Requests] /\ \E n \in Ids : Appears(n, "exit", s)
    BY <2>1, SpawnStep DEF Kinds
  <2>3. /\ strat' \in FundingStates /\ ~strat'.hour
        /\ strat'.open = Funding!Released.open /\ strat'.settling = Funding!Released.settling
        /\ strat'.queue = Funding!Released.queue \ {s}
    BY <2>1, FundingReleased DEF FundingStates
  <2> QED BY <2>1, <2>2, <2>3, FundingReleased DEF FundingRoutes, FundingType, LiveType, Held
<1>3. CASE Funding!Filter
  BY <1>3, FundingReleased DEF Funding!Filter, FundingTurns, FundingType, LiveType, Held
<1>4. CASE Funding!HourBegins \/ Funding!CooldownEnds
  <2>1. /\ strat' \in {[strat EXCEPT !.hour = TRUE], [strat EXCEPT !.blocked = FALSE]}
        /\ UNCHANGED <<req, draining, deduped>> /\ Held
        /\ strat'.hour => strat.hour \/ Funding!HourBegins
    BY <1>4 DEF Funding!HourBegins, Funding!CooldownEnds, Held, FundingType, FundingStates
  <2> QED BY <2>1 DEF FundingTurns, FundingType, FundingStates, LiveType, Held
<1> QED BY <1>1, <1>2, <1>3, <1>4

LEMMA FundingDrain ==
  ASSUME LiveType, FundingType, Funding!PopExits
  PROVE  /\ LiveType' /\ FundingType' /\ draining = {} /\ draining' = strat.queue
         /\ strat'.queue = {} /\ strat'.open = strat.open /\ strat'.hour = strat.hour
         /\ strat'.settling = strat.settling \/ (strat'.settling = {} /\ Funding!TimedOut)
         /\ UNCHANGED <<req, deduped>> /\ Held
  BY DEF Funding!PopExits, Funding!TimedOut, Funding!Drain, Funding!exchange, FundingType, FundingStates,
         LiveType, Held

-----------------------------------------------------------------------------
(* No entry on top of an exit, with any requests and exits of any length.  *)

\* No entry is on its way when the hour has begun.
NoStackingInv ==
  /\ LiveType /\ FundingType /\ Funding!NoStacking
  /\ strat.hour => \A r \in Ids : req[r].pc # "none" => req[r].kind # "entry"

LEMMA NoStackingStep ==
  ASSUME ~Early, NoStackingInv, Funding!Next
  PROVE  NoStackingInv'
<1>1. \A r \in Ids : req[r].pc # "none" /\ req[r].kind = "entry" =>
        req[r].sym \in Symbols /\ req[r].sym \notin strat.settling /\ ~strat.hour
  BY RequestShape DEF NoStackingInv, Funding!NoStacking, Funding!Alive, Funding!IsEntry
<1>2. ASSUME LiveType', FundingType', strat'.settling \subseteq strat.settling, strat'.hour => strat.hour,
             \A r \in Ids : req'[r].pc # "none" /\ req'[r].kind = "entry" =>
               req[r].pc # "none" /\ req[r].kind = "entry" /\ req'[r].sym = req[r].sym
      PROVE  NoStackingInv'
  BY <1>1, <1>2 DEF NoStackingInv, Funding!NoStacking, Funding!Alive, Funding!IsEntry
<1>3. CASE Funding!LiveNext
  <2>1. /\ LiveType' /\ FundingType' /\ strat'.settling \subseteq strat.settling
        /\ strat'.hour = strat.hour
    BY <1>3, FundingLive, FundingTypes DEF NoStackingInv
  <2>2. ASSUME NEW r \in Ids, req'[r].pc # "none", req'[r].kind = "entry"
        PROVE  req[r].pc # "none" /\ req[r].kind = "entry" /\ req'[r].sym = req[r].sym
    <3>1. CASE \E s \in Symbols : Sends(s) \/ Drops(s)
      BY <2>2, <3>1 DEF Sends, Drops, Appears, Others
    <3>2. CASE \E q \in Ids : Vanishes(q) \/ Proceeds(q)
      BY <2>2, <3>2 DEF Vanishes, Proceeds, Others, Counts
    <3>3. CASE Quiet
      BY <2>2, <3>3 DEF Quiet, Others
    <3> QED
      BY <1>3, <3>1, <3>2, <3>3, FundingLive
         DEF NoStackingInv, Refused, Admitted, Started, Answered, Handled
  <2> QED BY <1>2, <2>1, <2>2
<1>4. CASE Funding!PopExits
  BY <1>2, <1>4, FundingDrain DEF NoStackingInv
<1>5. CASE FundingTurns /\ LiveType' /\ FundingType'
  <2>1. Funding!HourBegins => \A r \in Ids : req[r].pc # "none" => req[r].kind # "entry"
    BY DEF Early, Funding!HourBegins, Funding!Alive, Funding!IsEntry
  <2> QED BY <1>1, <1>5, <2>1 DEF FundingTurns, NoStackingInv, Funding!NoStacking, Funding!Alive,
                                  Funding!IsEntry
<1>6. ASSUME NEW s \in Symbols, FundingEnters(s), LiveType', FundingType' PROVE NoStackingInv'
  BY <1>1, <1>6 DEF FundingEnters, Appears, Others, NoStackingInv, Funding!NoStacking,
                    Funding!Alive, Funding!IsEntry
<1>7. ASSUME NEW s \in Symbols, FundingRoutes(s), LiveType', FundingType' PROVE NoStackingInv'
  <2>1. \A r \in Ids : req'[r].pc # "none" /\ req'[r].kind = "entry" => req'[r] = req[r]
    BY <1>7 DEF FundingRoutes, Appears, Others
  <2> QED BY <1>1, <1>7, <2>1 DEF FundingRoutes, Due, NoStackingInv, Funding!NoStacking,
                                  Funding!Alive, Funding!IsEntry
<1> QED
  BY <1>3, <1>4, <1>5, <1>6, <1>7, FundingAlone DEF Funding!Next, NoStackingInv

LEMMA NoStackingBasis ==
  /\ Funding!Init => NoStackingInv
  /\ NoStackingInv /\ UNCHANGED liveVars => NoStackingInv'
  /\ NoStackingInv => Funding!NoStacking
<1>1. Funding!Init => NoStackingInv
  BY DEF Funding!Init, Funding!LiveInit, Funding!None, Funding!Fresh, Funding!NoStacking, Funding!Alive,
         NoStackingInv, LiveType, Requests, Gone, FundingType, FundingStates
<1>2. NoStackingInv /\ UNCHANGED liveVars => NoStackingInv'
  BY DEF liveVars, NoStackingInv, LiveType, FundingType, Funding!NoStacking, Funding!Alive,
         Funding!IsEntry
<1>3. NoStackingInv => Funding!NoStacking
  BY DEF NoStackingInv
<1> QED BY <1>1, <1>2, <1>3

-----------------------------------------------------------------------------
(* What the exchanges hold is tracked, with exits of less than 120 s.      *)

\* A position is being settled as long as its exit is on its way.
FundingPlace(t) ==
  /\ t \in strat.settling <=> Leaves(t)
  /\ t \in strat.open => t \notin strat.settling
  /\ Enters(t) => t \in strat.open

\* The hour begins when nothing is on its way, and the next signal ends it.
HourStill ==
  strat.hour =>
    /\ \A r \in Ids : req[r].pc = "none"
    /\ draining = {} /\ strat.queue = {} /\ deduped = {}

FundingInv ==
  /\ LiveType /\ FundingType /\ AllGood /\ AllKnown /\ HourStill
  /\ \A t \in Symbols : FundingPlace(t)

LEMMA FundingVanishes ==
  ASSUME FundingInv, NEW r \in Ids, FundingType', strat'.queue = strat.queue,
         \/ /\ Refused(r)
            /\ \/ strat' = Funding!Notify(r)
               \/ req[r].kind = "entry" /\ strat' = Funding!ClearPending(strat, req[r].sym)
               \/ /\ req[r].kind = "exit" /\ req[r].pc = "new"
                  /\ <<"exit", req[r].sym>> \in deduped /\ strat' = strat
         \/ Handled(r) /\ strat' = Funding!Told(r)
  PROVE  AllGood' /\ AllKnown' /\ \A t \in Symbols : FundingPlace(t)'
<1>1. PICK s \in Symbols : s = req[r].sym /\ req[r].pc # "none" /\ req[r].kind \in Kinds
  BY RequestShape DEF FundingInv, Refused, Handled
<1>2. /\ AllGood' /\ Ends(req[r].kind, s)
      /\ req[r].kind = "exit" => Leaves(s)
      /\ req[r].kind = "entry" => Enters(s)
  BY <1>1, VanishesKeeps DEF FundingInv
<1>3. strat' \in {strat, Funding!EntryRollback(strat, s), Funding!ExitRollback(strat, s), FundingClosed(s)}
  BY <1>1, FundingAnswers DEF FundingInv, Funding!ClearPending, Handled
<1>4. \A t \in Symbols \ {s} : (t \in strat'.open <=> t \in strat.open)
                               /\ (t \in strat'.settling <=> t \in strat.settling)
  BY <1>1, <1>3, FundingCallbacks DEF FundingInv
<1>5. FundingPlace(s)
  BY <1>1 DEF FundingInv
<1>6. CASE req[r].kind = "exit"
  <2>1. s \notin strat.open /\ s \in strat.settling /\ ~Enters(s) /\ ~Leaves(s)' /\ ~Enters(s)'
    BY <1>1, <1>2, <1>5, <1>6 DEF FundingPlace, Ends
  <2>2. ~(req[r].pc = "new" /\ <<"exit", s>> \in deduped)
    BY <1>1, <1>6 DEF FundingInv, AllGood, Good, Fresh, Exit, Of, Counts
  <2>3. \/ strat' = Funding!ExitRollback(strat, s)
        \/ strat' = FundingClosed(s) /\ Over(r)
    BY <1>1, <1>6, <2>2, FundingAnswers DEF FundingInv, Over, Handled
  <2>4. /\ s \in strat'.open \/ Over(r)
        /\ s \notin strat'.settling
    BY <2>1, <2>3 DEF FundingInv, FundingType, FundingStates, Funding!ExitRollback, FundingClosed
  <2>5. AllKnown'
    BY <1>1, <1>2, <1>4, <2>4, VanishesKnown DEF FundingInv
  <2> QED BY <1>2, <1>4, <2>1, <2>4, <2>5 DEF FundingInv, FundingPlace, Ends
<1>7. CASE req[r].kind = "entry"
  <2>1. s \in strat.open /\ s \notin strat.settling /\ ~Leaves(s)' /\ ~Enters(s)'
    BY <1>1, <1>2, <1>5, <1>7 DEF FundingPlace, Ends
  <2>2. \/ strat' = strat
        \/ strat' = Funding!EntryRollback(strat, s) /\ Over(r)
    BY <1>1, <1>7, <2>1, FundingAnswers DEF FundingInv, Over, Handled, Refused, Funding!ClearPending
  <2>3. /\ s \in strat'.open \/ Over(r)
        /\ s \notin strat'.settling
    BY <2>1, <2>2 DEF FundingInv, FundingType, FundingStates, Funding!EntryRollback
  <2>4. AllKnown'
    BY <1>1, <1>2, <1>4, <2>3, VanishesKnown DEF FundingInv
  <2> QED BY <1>2, <1>4, <2>1, <2>3, <2>4 DEF FundingInv, FundingPlace, Ends
<1> QED BY <1>1, <1>6, <1>7 DEF Kinds

LEMMA FundingLiveStep ==
  ASSUME ~Blind, FundingInv, Funding!LiveNext
  PROVE  FundingInv'
<1>1. /\ LiveType' /\ FundingType' /\ strat'.queue = strat.queue /\ strat'.hour = strat.hour
  BY FundingLive, FundingTypes DEF FundingInv
<1>2. ASSUME AllGood' /\ Stays /\ strat' = strat, Held \/ \E r \in Ids : Answered(r), HourStill'
      PROVE  FundingInv'
  <2>1. AllKnown'
    BY <1>2, HeldKnown, AnsweredKnown DEF FundingInv, Stays
  <2> QED BY <1>1, <1>2, <2>1 DEF FundingInv, FundingPlace, Stays
<1>3. ASSUME NEW s \in Symbols, Sends(s) PROVE FundingInv'
  <2>1. HourStill'
    BY <1>1, <1>3 DEF FundingInv, HourStill, Sends
  <2> QED BY <1>2, <1>3, <2>1, SendsKeeps DEF FundingInv, Sends
<1>4. ASSUME NEW s \in Symbols, Drops(s), strat' = Funding!ClearGhost(strat, s),
             Blind \/ ~Funding!FirstLegHeld(long[s], short[s])
      PROVE  FundingInv'
  <2>1. AllGood' /\ Ends("exit", s) /\ Leaves(s)
    BY <1>1, <1>4, DropsKeeps DEF FundingInv
  <2>2. ~Hedged(s) /\ Held
    BY <1>4 DEF Funding!FirstLegHeld, Hedged, Drops
  <2>3. /\ s \notin strat'.open /\ s \notin strat'.settling
        /\ \A t \in Symbols \ {s} : (t \in strat'.open <=> t \in strat.open)
                                    /\ (t \in strat'.settling <=> t \in strat.settling)
    BY <1>4 DEF Funding!ClearGhost, FundingInv, FundingType, FundingStates
  <2>4. ~Enters(s)
    BY <2>1 DEF FundingInv, FundingPlace
  <2>5. AllKnown'
    BY <2>1, <2>2, <2>3 DEF FundingInv, AllKnown, Known, Held, Hedged, Ends
  <2>6. \A t \in Symbols : FundingPlace(t)'
    BY <2>1, <2>3, <2>4 DEF FundingInv, FundingPlace, Ends
  <2>7. HourStill'
    BY <1>1, <1>4 DEF FundingInv, HourStill, Drops
  <2> QED BY <1>1, <2>1, <2>5, <2>6, <2>7 DEF FundingInv
<1>5. ASSUME NEW r \in Ids, Admitted(r) \/ Started(r) \/ Answered(r) PROVE FundingInv'
  <2>1. HourStill'
    BY <1>1, <1>5 DEF FundingInv, HourStill, Admitted, Started, Answered
  <2> QED BY <1>1, <1>2, <1>5, <2>1, ProceedsKeeps DEF FundingInv, Admitted, Started, Answered
<1>6. ASSUME NEW r \in Ids,
             \/ /\ Refused(r)
                /\ \/ strat' = Funding!Notify(r)
                   \/ req[r].kind = "entry" /\ strat' = Funding!ClearPending(strat, req[r].sym)
                   \/ /\ req[r].kind = "exit" /\ req[r].pc = "new"
                      /\ <<"exit", req[r].sym>> \in deduped /\ strat' = strat
             \/ Handled(r) /\ strat' = Funding!Told(r)
      PROVE  FundingInv'
  <2>1. HourStill'
    BY <1>1, <1>6 DEF FundingInv, HourStill, Refused, Handled
  <2> QED BY <1>1, <1>6, <2>1, FundingVanishes DEF FundingInv
<1>7. CASE Quiet
  <2>1. HourStill'
    BY <1>7 DEF FundingInv, HourStill, Quiet, Others
  <2> QED BY <1>2, <1>7, <2>1, QuietKeeps DEF FundingInv, Quiet
<1> QED BY <1>3, <1>4, <1>5, <1>6, <1>7, FundingLive DEF FundingInv

LEMMA FundingAloneStep ==
  ASSUME ~Early, FundingInv, LiveType', FundingType',
         FundingTurns \/ \E s \in Symbols : FundingEnters(s) \/ FundingRoutes(s)
  PROVE  FundingInv'
<1>1. Due \subseteq Symbols /\ Free(Due)
  <2>1. ASSUME strat.hour, NEW t \in Symbols PROVE ~Leaves(t) /\ ~Enters(t)
    BY <2>1 DEF FundingInv, HourStill, Leaves, Enters, Waits, Exit, Entry, Of, Counts
  <2> QED BY <2>1 DEF FundingInv, FundingType, FundingStates, HourStill, Due, Free
<1>2. CASE FundingTurns
  <2>1. Queues({}) /\ Free({})
    BY <1>2 DEF FundingTurns, Queues, Free
  <2>2. /\ AllGood' /\ Held /\ strat'.open = strat.open /\ strat'.settling = strat.settling
        /\ \A t \in Symbols : (Leaves(t)' <=> Leaves(t)) /\ (Enters(t)' <=> Enters(t))
    BY <1>2, <2>1, QueuesKeeps DEF FundingInv, FundingTurns
  <2>3. AllKnown'
    BY <2>2, HeldKnown DEF FundingInv
  <2>4. Funding!HourBegins =>
          (\A r \in Ids : req[r].pc = "none") /\ draining = {} /\ strat.queue = {} /\ deduped = {}
    BY DEF Early, Funding!HourBegins, Funding!Alive, Funding!IsEntry
  <2>5. HourStill'
    BY <1>2, <2>4 DEF FundingInv, FundingTurns, HourStill
  <2> QED BY <2>2, <2>3, <2>5 DEF FundingInv, FundingPlace
<1>3. ASSUME NEW s \in Symbols, FundingEnters(s) PROVE FundingInv'
  <2>1. /\ Queues({}) /\ Free({}) /\ Held /\ strat'.open = strat.open \cup {s}
        /\ strat'.settling = strat.settling /\ HourStill'
    BY <1>3 DEF FundingEnters, Queues, Free, HourStill
  <2>2. ~Leaves(s) /\ ~Enters(s) /\ (Hedged(s) => s \in reported)
    BY <1>3 DEF FundingEnters, FundingInv, FundingPlace, AllKnown, Known
  <2>3. /\ AllGood'
        /\ \A t \in Symbols : (Leaves(t)' <=> Leaves(t)) /\ (Enters(t)' <=> Enters(t) \/ t = s)
    BY <1>3, <2>1, <2>2, EntryKeeps DEF FundingInv, FundingEnters
  <2>4. AllKnown'
    BY <2>1, <2>3, HeldKnown DEF FundingInv
  <2> QED BY <1>3, <2>1, <2>3, <2>4 DEF FundingInv, FundingPlace, FundingEnters
<1>4. ASSUME NEW s \in Symbols, FundingRoutes(s) PROVE FundingInv'
  <2>1. /\ Held /\ strat'.open = strat.open \ Due /\ strat'.settling = strat.settling \cup Due
        /\ HourStill'
    BY <1>4 DEF FundingRoutes, HourStill
  <2>2. /\ AllGood'
        /\ \A t \in Symbols : (Leaves(t)' <=> Leaves(t) \/ t \in Due) /\ (Enters(t)' <=> Enters(t))
    BY <1>1, <1>4, RoutedKeeps DEF FundingInv, FundingRoutes
  <2>3. AllKnown'
    BY <1>1, <2>1, <2>2, HeldKnown DEF FundingInv
  <2> QED BY <1>1, <2>1, <2>2, <2>3 DEF FundingInv, FundingPlace, Free
<1> QED BY <1>2, <1>3, <1>4

LEMMA FundingStep ==
  ASSUME FundingCopes, FundingInv, Funding!Next
  PROVE  FundingInv'
<1>1. CASE Funding!PopExits
  <2>1. /\ LiveType' /\ FundingType' /\ draining = {} /\ draining' = strat.queue
        /\ strat'.queue = {} /\ strat'.open = strat.open /\ strat'.hour = strat.hour
        /\ UNCHANGED <<req, deduped>> /\ Held
    BY <1>1, FundingDrain DEF FundingInv
  <2>2. strat'.settling = strat.settling
    <3>1. ASSUME Funding!TimedOut PROVE FALSE
      <4>1. PICK t \in strat.settling : TRUE
        BY <3>1 DEF Funding!TimedOut
      <4>2. Leaves(t) /\ ~Waits(t)
        BY <3>1, <4>1, Excepted DEF Slow, Funding!TimedOut, FundingInv, FundingType, FundingStates, FundingPlace, Waits
      <4> QED BY <3>1, <4>2, Excepted DEF Slow, Funding!TimedOut, Funding!Alive, Funding!IsEntry, Leaves, Exit, Of, Counts
    <3> QED BY <1>1, <3>1, FundingDrain DEF FundingInv
  <2>3. AllGood' /\ Stays
    BY <2>1, DrainKeeps DEF FundingInv
  <2>4. AllKnown'
    BY <2>1, <2>3, HeldKnown DEF FundingInv, Stays
  <2>5. HourStill'
    BY <2>1 DEF FundingInv, HourStill
  <2> QED BY <2>1, <2>2, <2>3, <2>4, <2>5 DEF FundingInv, FundingPlace, Stays
<1>2. CASE \/ \E s \in Symbols : Funding!OnSignal(s) \/ Funding!SignalExit(s)
           \/ Funding!Filter \/ Funding!HourBegins \/ Funding!CooldownEnds
  BY <1>2, Excepted, FundingAlone, FundingAloneStep DEF FundingInv
<1> QED BY <1>1, <1>2, Excepted, FundingLiveStep DEF Funding!Next

LEMMA FundingBasis ==
  /\ Funding!Init => FundingInv
  /\ FundingInv /\ UNCHANGED liveVars => FundingInv'
  /\ FundingInv => Funding!HeldIsTracked
<1>1. Funding!Init => FundingInv
  <2> SUFFICES ASSUME Funding!Init PROVE FundingInv
    OBVIOUS
  <2>1. LiveType
    BY DEF Funding!Init, Funding!LiveInit, Funding!None, LiveType, Requests, Gone
  <2>2. FundingType /\ HourStill
    BY DEF Funding!Init, Funding!Fresh, FundingType, FundingStates, HourStill
  <2>3. /\ \A r \in Ids : ~Counts(r)
        /\ strat.open = {} /\ strat.settling = {} /\ strat.queue = {} /\ draining = {}
        /\ \A t \in Symbols : long[t] = 0 /\ short[t] = 0
    BY DEF Funding!Init, Funding!LiveInit, Funding!None, Funding!Fresh, Counts
  <2>4. ASSUME NEW t \in Symbols PROVE ~Leaves(t) /\ ~Enters(t) /\ OneExit(t) /\ ~Hedged(t)
    BY <2>3 DEF Leaves, Enters, Waits, OneExit, Exit, Entry, Of, Hedged
  <2>5. AllGood
    BY <2>3, <2>4 DEF AllGood, Good, OneWay, Fresh, Lots, Waits, Exit, Entry, Of
  <2> QED BY <2>1, <2>2, <2>3, <2>4, <2>5 DEF FundingInv, AllKnown, Known, FundingPlace
<1>2. FundingInv /\ UNCHANGED liveVars => FundingInv'
  BY DEF liveVars, FundingInv, LiveType, FundingType, FundingPlace, HourStill, AllGood, Good, OneWay,
         OneExit, Fresh, Lots, Empty, AllKnown, Known, Hedged, Leaves, Enters, Waits, Exit, Entry,
         Of, Counts
<1>3. FundingInv => Funding!HeldIsTracked
  <2> SUFFICES ASSUME FundingInv, NEW s \in Symbols, Funding!Idle(s), Funding!Hedged(s), s \notin reported
               PROVE  s \in strat.open \/ s \in strat.queue
    BY DEF Funding!HeldIsTracked, Funding!Tracks
  <2>1. ~Enters(s) /\ (Leaves(s) => s \in strat.queue)
    BY DEF Funding!Idle, Funding!Alive, Leaves, Enters, Waits, Exit, Entry, Of, Counts
  <2> QED BY <2>1 DEF FundingInv, AllKnown, Known, Hedged, Funding!Hedged
<1> QED BY <1>1, <1>2, <1>3

LEMMA SpotShared ==
  /\ Spot!Expire => Funding!Expire
  /\ \A r, a : Spot!Execute(r, a) => Funding!Execute(r, a)
  /\ \A r : /\ Spot!Admit(r) => Funding!Admit(r)
            /\ Spot!Start(r) => Funding!Start(r)
            /\ Spot!Post(r) => Funding!Post(r)
            /\ Spot!End(r) => Funding!End(r)
  /\ \A kind, s : Spot!Spawn(kind, s) => Funding!Spawn(kind, s)
<1>1. /\ Spot!Alive = Funding!Alive
      /\ \A pc : Spot!At(pc) = Funding!At(pc)
      /\ \A r : Spot!IsEntry(r) = Funding!IsEntry(r)
      /\ \A kind, s : Spot!Request(kind, s) = Funding!Request(kind, s)
  BY DEF Spot!Alive, Funding!Alive, Spot!At, Funding!At,
         Spot!IsEntry, Funding!IsEntry, Spot!Request, Funding!Request
<1>2. Spot!Expire => Funding!Expire
  BY <1>1 DEF Spot!Expire, Funding!Expire, Spot!exchange, Funding!exchange
<1>3. \A r, a : Spot!Execute(r, a) => Funding!Execute(r, a)
  BY DEF Spot!Execute, Funding!Execute, Spot!After, Funding!After, Spot!Filled, Funding!Filled,
         Spot!At, Funding!At, Spot!Alive, Funding!Alive, Spot!IsEntry, Funding!IsEntry
<1>4. \A r : Spot!Admit(r) => Funding!Admit(r)
  BY <1>1 DEF Spot!Admit, Funding!Admit, Spot!PastCooldown, Funding!PastCooldown, Spot!Stamped,
              Funding!Stamped, Spot!Key, Funding!Key, Spot!exchange, Funding!exchange
<1>5. \A r : Spot!Start(r) => Funding!Start(r)
  <2>1. Spot!At("executing") \cup Spot!At("answered") \cup Spot!At("post")
          = Funding!At("executing") \cup Funding!At("answered") \cup Funding!At("post")
    BY <1>1
  <2>2. Spot!HasSlot => Funding!HasSlot
    BY <2>1, SameSize DEF Spot!HasSlot, Funding!HasSlot
  <2> QED BY <1>1, <2>2 DEF Spot!Start, Funding!Start, Spot!exchange, Funding!exchange
<1>6. \A r : Spot!End(r) => Funding!End(r)
  BY DEF Spot!End, Funding!End, Spot!None, Funding!None
<1>7. \A r : Spot!Post(r) => Funding!Post(r)
  BY <1>1, <1>6 DEF Spot!Post, Funding!Post, Spot!exchange, Funding!exchange
<1>8. \A kind, s : Spot!Spawn(kind, s) => Funding!Spawn(kind, s)
  BY <1>1 DEF Spot!Spawn, Funding!Spawn
<1> QED BY <1>2, <1>3, <1>4, <1>5, <1>6, <1>7, <1>8

LEMMA SpotLive ==
  ASSUME LiveType, Spot!LiveNext
  PROVE  /\ LiveType'
         /\ \/ \E s \in Symbols : Sends(s)
            \/ \E s \in Symbols :
                 /\ Drops(s) /\ strat' = Spot!ClearGhost(strat, s)
                 /\ Blind \/ ~Spot!FirstLegHeld(long[s], short[s])
            \/ \E r \in Ids :
                 /\ Refused(r)
                 /\ \/ strat' = Spot!Notify(r)
                    \/ req[r].kind = "entry" /\ strat' = Spot!ClearPending(strat, req[r].sym)
                    \/ /\ req[r].kind = "exit" /\ req[r].pc = "new"
                       /\ <<"exit", req[r].sym>> \in deduped /\ strat' = strat
            \/ \E r \in Ids : Admitted(r) \/ Started(r) \/ Answered(r)
            \/ \E r \in Ids : Handled(r) /\ strat' = Spot!Told(r)
            \/ Quiet
<1>1. ASSUME NEW s \in Symbols, Spot!SendExit(s) PROVE LiveType' /\ Sends(s)
  <2>1. Spot!Spawn("exit", s) /\ "exit" \in Kinds
    BY <1>1 DEF Spot!SendExit, Kinds
  <2>2. req' \in [Ids -> Requests] /\ \E r \in Ids : Appears(r, "exit", s)
    BY <2>1, SpotShared, SpawnStep
  <2> QED BY <1>1, <2>2 DEF Spot!SendExit, Sends, Held, Spot!exchange, LiveType
<1>2. ASSUME NEW s \in Symbols, Spot!DropGhost(s)
      PROVE  /\ LiveType' /\ Drops(s) /\ strat' = Spot!ClearGhost(strat, s)
             /\ Blind \/ ~Spot!FirstLegHeld(long[s], short[s])
  BY <1>2 DEF Spot!DropGhost, Spot!Unseen, Spot!Listed, Blind, Drops, Held, Spot!exchange, LiveType
<1>3. ASSUME NEW r \in Ids, Spot!Refuse(r)
      PROVE  /\ LiveType' /\ Refused(r)
             /\ \/ strat' = Spot!Notify(r)
                \/ req[r].kind = "entry" /\ strat' = Spot!ClearPending(strat, req[r].sym)
                \/ /\ req[r].kind = "exit" /\ req[r].pc = "new"
                   /\ <<"exit", req[r].sym>> \in deduped /\ strat' = strat
  <2>1. /\ req[r].pc \in {"new", "queued"} /\ Spot!End(r) /\ UNCHANGED draining /\ Held
        /\ \/ deduped' = deduped
           \/ req[r].kind = "entry" /\ deduped' = deduped \cup {<<req[r].kind, req[r].sym>>}
    BY <1>3 DEF Spot!Refuse, Spot!GateRefuses, Spot!CoolingRefuses, Spot!MarginRefuses, Spot!DedupRefuses,
                Spot!NotionalRefuses, Spot!ImpactRefuses, Spot!At, Spot!PastCooldown, Spot!IsEntry, Spot!Key,
                Spot!exchange, Held
  <2>2. req' \in [Ids -> Requests] /\ Others(r) /\ req'[r].pc = "none"
    BY <2>1, SpotShared, EndStep
  <2>3. LiveType' /\ Refused(r)
    BY <2>1, <2>2 DEF Refused, Vanishes, Counts, Held, LiveType
  <2>4. req[r].kind \in Kinds
    BY <2>1, RequestShape
  <2>5. \/ strat' = Spot!Notify(r)
        \/ req[r].kind = "entry" /\ strat' = Spot!ClearPending(strat, req[r].sym)
        \/ /\ req[r].kind = "exit" /\ req[r].pc = "new"
           /\ <<"exit", req[r].sym>> \in deduped /\ strat' = strat
    BY <1>3, <2>4 DEF Spot!Refuse, Spot!GateRefuses, Spot!CoolingRefuses, Spot!MarginRefuses, Spot!DedupRefuses,
                Spot!NotionalRefuses, Spot!ImpactRefuses, Spot!At, Spot!PastCooldown, Spot!IsEntry, Spot!Key, Kinds
  <2> QED BY <2>3, <2>5
<1>4. ASSUME NEW r \in Ids, Spot!Handle(r)
      PROVE  LiveType' /\ Handled(r) /\ strat' = Spot!Told(r)
  <2>1. /\ req[r].pc = "answered" /\ strat' = Spot!Told(r)
        /\ reported' = IF req[r].ans = "ROLLBACK_FAILED" THEN reported \cup {req[r].sym} ELSE reported
        /\ UNCHANGED <<draining, deduped, long, short>>
    BY <1>4 DEF Spot!Handle, Spot!At
  <2>2. /\ req' \in [Ids -> Requests] /\ Others(r) /\ req'[r].pc \in {"none", "post"}
        /\ req'[r].pc = "post" => req'[r].kind = req[r].kind /\ req'[r].sym = req[r].sym
    <3>1. CASE Spot!End(r)
      BY <2>1, <3>1, SpotShared, EndStep
    <3>2. CASE req' = [req EXCEPT ![r].pc = "post"]
      <4>1. req[r] \in [pc : {"answered", "post"}, kind : Kinds, sym : Symbols, ans : Answers]
        BY <2>1, RequestShape DEF Requests
      <4>2. [req[r] EXCEPT !.pc = "post"] \in Requests
        BY <4>1 DEF Requests
      <4> QED BY <3>2, <4>1, <4>2 DEF Others, LiveType
    <3> QED BY <1>4, <3>1, <3>2 DEF Spot!Handle
  <2> QED BY <2>1, <2>2 DEF Handled, Vanishes, Counts, LiveType
<1>5. ASSUME NEW r \in Ids, NEW a \in Spot!Answers, Spot!Execute(r, a)
      PROVE  LiveType' /\ Answered(r)
  <2>1. a \in Answers
    BY DEF Spot!Answers, Answers
  <2> QED BY <1>5, <2>1, SpotShared, ExecuteStep
<1> QED
  BY <1>1, <1>2, <1>3, <1>4, <1>5, SpotShared, AdmitStep, StartStep, PostStep, ExpireStep
     DEF Spot!LiveNext, Spot!Settle


-----------------------------------------------------------------------------
(* The spot-futures strategy.                                              *)

SpotType == strat \in [open : SUBSET Symbols, closing : SUBSET Symbols, queue : SUBSET Symbols]

LEMMA SpotCallbacks ==
  ASSUME SpotType, NEW s \in Symbols
  PROVE  \A st \in {Spot!EntryRollback(strat, s), Spot!ExitRollback(strat, s), Spot!Closed(strat, s)} :
           /\ st \in [open : SUBSET Symbols, closing : SUBSET Symbols, queue : SUBSET Symbols]
           /\ st.queue = strat.queue
           /\ \A t \in Symbols \ {s} : (t \in st.open <=> t \in strat.open)
                                       /\ (t \in st.closing <=> t \in strat.closing)
  BY DEF SpotType, Spot!EntryRollback, Spot!ExitRollback, Spot!Closed

\* A signal, or an expired position: nothing is on its way for what is queued.
SpotAsks(due) ==
  /\ due \in SUBSET Spot!Expirable /\ strat'.queue = strat.queue \cup due
  /\ strat'.closing = strat.closing \cup due
  /\ UNCHANGED <<draining, deduped>> /\ Held
  /\ \/ req' = req /\ strat'.open = strat.open
     \/ \E s \in Symbols :
          /\ Repeats \/ (s \notin strat.open /\ Spot!Idle(s))
          /\ strat'.open = strat.open \cup {s} /\ \E n \in Ids : Appears(n, "entry", s)

LEMMA SpotAsking ==
  ASSUME LiveType, SpotType, NEW due \in SUBSET Spot!Expirable,
         Spot!Queue(due) \/ \E s \in Symbols : Spot!OnSignal(s, due)
  PROVE  LiveType' /\ SpotType' /\ SpotAsks(due)
<1>1. due \subseteq Symbols
  BY DEF Spot!Expirable, SpotType
<1>2. /\ Spot!Expired(due) \in [open : SUBSET Symbols, closing : SUBSET Symbols, queue : SUBSET Symbols]
      /\ Spot!Expired(due).open = strat.open
      /\ Spot!Expired(due).closing = strat.closing \cup due
      /\ Spot!Expired(due).queue = strat.queue \cup due
  BY <1>1 DEF SpotType, Spot!Expired
<1>3. CASE Spot!Queue(due)
  BY <1>2, <1>3 DEF Spot!Queue, SpotAsks, SpotType, LiveType, Held
<1>4. ASSUME NEW s \in Symbols, Spot!OnSignal(s, due)
      PROVE  LiveType' /\ SpotType' /\ SpotAsks(due)
  <2>1. /\ Spot!Spawn("entry", s) /\ UNCHANGED <<draining, deduped>> /\ Held
        /\ strat' = [Spot!Expired(due) EXCEPT !.open = @ \cup {s}]
        /\ Repeats \/ (s \notin strat.open /\ Spot!Idle(s))
    BY <1>4 DEF Repeats, Spot!OnSignal, Spot!Signal, Spot!exchange, Held
  <2>2. req' \in [Ids -> Requests] /\ \E n \in Ids : Appears(n, "entry", s)
    BY <2>1, SpotShared, SpawnStep DEF Kinds
  <2>3. LiveType'
    BY <2>1, <2>2 DEF LiveType, Held
  <2>4. /\ SpotType' /\ strat'.open = strat.open \cup {s}
        /\ strat'.closing = strat.closing \cup due /\ strat'.queue = strat.queue \cup due
    BY <1>2, <2>1 DEF SpotType
  <2> QED BY <2>1, <2>2, <2>3, <2>4 DEF SpotAsks
<1> QED BY <1>3, <1>4

LEMMA SpotDrain ==
  ASSUME LiveType, SpotType, Spot!PopExits
  PROVE  /\ LiveType' /\ SpotType' /\ draining = {} /\ draining' = strat.queue
         /\ strat'.queue = {} /\ strat'.open = strat.open /\ strat'.closing = strat.closing
         /\ UNCHANGED <<req, deduped>> /\ Held
  BY DEF Spot!PopExits, Spot!Drain, Spot!exchange, SpotType, LiveType, Held

\* The strategy's next state in the steps of live mode.
LEMMA SpotAnswers ==
  ASSUME LiveType, SpotType, NEW r \in Ids, req[r].pc # "none"
  PROVE  /\ Spot!Notify(r) = IF req[r].kind = "exit" THEN Spot!ExitRollback(strat, req[r].sym)
                             ELSE Spot!EntryRollback(strat, req[r].sym)
         /\ req[r].pc = "answered" =>
              Spot!Told(r) =
                IF req[r].ans = "SUCCESS"
                THEN IF req[r].kind = "exit" \/ req[r].sym \in strat.closing
                     THEN Spot!Closed(strat, req[r].sym) ELSE strat
                ELSE IF req[r].kind = "exit" THEN Spot!ExitRollback(strat, req[r].sym)
                ELSE IF req[r].ans = "ROLLBACK_FAILED" THEN strat
                ELSE Spot!EntryRollback(strat, req[r].sym)
  BY RequestShape DEF Spot!Notify, Spot!Told, Spot!IsEntry, Spot!Success, Kinds

\* What a step of live mode makes of the strategy.
LEMMA SpotTypes ==
  ASSUME LiveType, SpotType, Spot!LiveNext
  PROVE  SpotType' /\ strat'.queue = strat.queue
<1>1. ASSUME NEW r \in Ids, req[r].pc # "none",
             \/ strat' \in {strat, Spot!Notify(r), Spot!ClearPending(strat, req[r].sym)}
             \/ req[r].pc = "answered" /\ strat' = Spot!Told(r)
      PROVE  SpotType' /\ strat'.queue = strat.queue
  <2>1. req[r].sym \in Symbols
    BY <1>1, RequestShape
  <2>2. strat' \in {strat, Spot!EntryRollback(strat, req[r].sym),
                   Spot!ExitRollback(strat, req[r].sym), Spot!Closed(strat, req[r].sym)}
    BY <1>1, SpotAnswers DEF Spot!ClearPending
  <2> QED BY <2>1, <2>2, SpotCallbacks DEF SpotType
<1>2. ASSUME NEW s \in Symbols, strat' = Spot!ClearGhost(strat, s)
      PROVE  SpotType' /\ strat'.queue = strat.queue
  BY <1>2, SpotCallbacks DEF SpotType, Spot!ClearGhost
<1>3. CASE strat' = strat
  BY <1>3 DEF SpotType
<1> QED BY <1>1, <1>2, <1>3, SpotLive DEF Sends, Refused, Handled, Admitted, Started, Answered, Quiet

OneCloseInv == LiveType /\ SpotType /\ \A t \in Symbols : OneExit(t)

LEMMA OneCloseStep ==
  ASSUME OneCloseInv, Spot!Next
  PROVE  OneCloseInv'
<1>1. CASE Spot!LiveNext
  <2>1. LiveType' /\ SpotType' /\ strat'.queue = strat.queue
    BY <1>1, SpotLive, SpotTypes DEF OneCloseInv
  <2> SUFFICES ASSUME NEW t \in Symbols PROVE OneExit(t)'
    BY <2>1 DEF OneCloseInv
  <2>2. OneExit(t)
    BY DEF OneCloseInv
  <2>3. ASSUME NEW r \in Ids, Refused(r) \/ Handled(r) PROVE OneExit(t)'
    <3>1. Vanishes(r) /\ UNCHANGED draining
      BY <2>3 DEF Refused, Handled
    <3> QED BY <2>1, <2>2, <3>1, VanishesExits
  <2>4. ASSUME NEW r \in Ids, Admitted(r) \/ Started(r) \/ Answered(r) PROVE OneExit(t)'
    <3>1. Proceeds(r) /\ req'[r].pc \in {"queued", "executing", "answered"} /\ UNCHANGED <<draining, strat>>
      BY <2>4 DEF Admitted, Started, Answered
    <3> QED BY <2>2, <3>1, ProceedsExits
  <2> QED BY <1>1, <2>1, <2>2, <2>3, <2>4, SpotLive, SendsExits, DropsExits, QuietExits DEF OneCloseInv
<1>2. CASE Spot!PopExits
  BY <1>2, SpotDrain, DrainExits DEF OneCloseInv
<1>3. ASSUME NEW due \in SUBSET Spot!Expirable,
             Spot!Queue(due) \/ \E s \in Symbols : Spot!OnSignal(s, due)
      PROVE  OneCloseInv'
  <2>1. LiveType' /\ SpotType' /\ SpotAsks(due)
    BY <1>3, SpotAsking DEF OneCloseInv
  <2>2. Queues(due) /\ (req' = req \/ \E n \in Ids, s \in Symbols : Appears(n, "entry", s))
    BY <2>1 DEF SpotAsks, Queues
  <2>3. NoExit(due)
    BY DEF Spot!Expirable, Spot!Idle, Spot!Alive, NoExit, Exit, Of, Counts
  <2>4. ASSUME NEW t \in Symbols PROVE OneExit(t)'
    <3>1. OneExit(t)
      BY DEF OneCloseInv
    <3> QED BY <2>2, <2>3, <3>1, QueuesExits
  <2> QED BY <2>1, <2>4 DEF OneCloseInv
<1> QED BY <1>1, <1>2, <1>3 DEF Spot!Next

LEMMA OneCloseBasis ==
  /\ Spot!Init => OneCloseInv
  /\ OneCloseInv /\ UNCHANGED liveVars => OneCloseInv'
  /\ OneCloseInv => Spot!OneClose
<1>1. Spot!Init => OneCloseInv
  <2> SUFFICES ASSUME Spot!Init PROVE OneCloseInv
    OBVIOUS
  <2>1. LiveType
    BY DEF Spot!Init, Spot!LiveInit, Spot!None, LiveType, Requests, Gone
  <2>2. SpotType
    BY DEF Spot!Init, Spot!Fresh, SpotType
  <2>3. \A t \in Symbols : OneExit(t)
    BY DEF Spot!Init, Spot!LiveInit, Spot!None, Spot!Fresh, OneExit, Waits, Exit, Of, Counts
  <2> QED BY <2>1, <2>2, <2>3 DEF OneCloseInv
<1>2. OneCloseInv /\ UNCHANGED liveVars => OneCloseInv'
  BY DEF liveVars, OneCloseInv, LiveType, SpotType, OneExit, Waits, Exit, Of, Counts
<1>3. OneCloseInv => Spot!OneClose
  <2> SUFFICES ASSUME OneCloseInv, NEW s \in Symbols
               PROVE  Cardinality({r \in Spot!Alive : req[r].sym = s /\ ~Spot!IsEntry(r) /\ req[r].pc # "post"})
                        + Cardinality({s} \cap draining) + Cardinality({s} \cap strat.queue) <= 1
    BY SameSize DEF Spot!OneClose
  <2> DEFINE exits == {r \in Spot!Alive : req[r].sym = s /\ ~Spot!IsEntry(r) /\ req[r].pc # "post"}
  <2>1. \A r \in exits : Exit(r, s) /\ r \in Ids
    BY RequestShape DEF OneCloseInv, Spot!Alive, Spot!IsEntry, Kinds, Exit, Of, Counts
  <2>2. OneExit(s)
    BY DEF OneCloseInv
  <2> SUFFICES Cardinality(exits) + Cardinality({s} \cap draining)
                 + Cardinality({s} \cap strat.queue) <= 1
    OBVIOUS
  <2> HIDE DEF exits
  <2>3. Cardinality({}) = 0 /\ \A x : Cardinality({x}) = 1
    BY FS_EmptySet, FS_Singleton
  <2>4. CASE Waits(s)
    <3>1. exits = {}
      BY <2>1, <2>2, <2>4 DEF OneExit
    <3>2. CASE s \in draining
      <4>1. {s} \cap draining = {s} /\ {s} \cap strat.queue = {}
        BY <2>2, <3>2 DEF OneExit
      <4>2. Cardinality({s}) = 1
        BY <2>3
      <4> QED BY <2>3, <3>1, <4>1, <4>2
    <3>3. CASE s \notin draining
      <4>1. {s} \cap draining = {} /\ {s} \cap strat.queue = {s}
        BY <2>4, <3>3 DEF Waits
      <4>2. Cardinality({s}) = 1
        BY <2>3
      <4> QED BY <2>3, <3>1, <4>1, <4>2
    <3> QED BY <3>2, <3>3
  <2>5. CASE ~Waits(s)
    <3>1. {s} \cap draining = {} /\ {s} \cap strat.queue = {}
      BY <2>5 DEF Waits
    <3>2. exits = {} \/ \E r : exits = {r}
      BY <2>1, <2>2 DEF OneExit
    <3>3. Cardinality(exits) \in {0, 1}
      BY <2>3, <3>2
    <3> QED BY <2>3, <3>1, <3>3
  <2> QED BY <2>4, <2>5
<1> QED BY <1>1, <1>2, <1>3


\* An exit that is on its way is for a position that is open and being closed, an
\* entry for one that is not.
SpotPlace(t) ==
  /\ Leaves(t) => t \in strat.closing
  /\ t \in strat.closing => t \in strat.open
  /\ Enters(t) => t \in strat.open /\ t \notin strat.closing

SpotInv == LiveType /\ SpotType /\ AllGood /\ AllKnown /\ \A t \in Symbols : SpotPlace(t)

LEMMA SpotVanishes ==
  ASSUME SpotInv, NEW r \in Ids, SpotType', strat'.queue = strat.queue,
         \/ /\ Refused(r)
            /\ \/ strat' = Spot!Notify(r)
               \/ req[r].kind = "entry" /\ strat' = Spot!ClearPending(strat, req[r].sym)
               \/ /\ req[r].kind = "exit" /\ req[r].pc = "new"
                  /\ <<"exit", req[r].sym>> \in deduped /\ strat' = strat
         \/ Handled(r) /\ strat' = Spot!Told(r)
  PROVE  AllGood' /\ AllKnown' /\ \A t \in Symbols : SpotPlace(t)'
<1>1. PICK s \in Symbols : s = req[r].sym /\ req[r].pc # "none" /\ req[r].kind \in Kinds
  BY RequestShape DEF SpotInv, Refused, Handled
<1>2. /\ AllGood' /\ Ends(req[r].kind, s)
      /\ req[r].kind = "exit" => Leaves(s)
      /\ req[r].kind = "entry" => Enters(s)
  BY <1>1, VanishesKeeps DEF SpotInv
<1>3. strat' \in {strat, Spot!EntryRollback(strat, s), Spot!ExitRollback(strat, s), Spot!Closed(strat, s)}
  BY <1>1, SpotAnswers DEF SpotInv, Spot!ClearPending, Handled
<1>4. \A t \in Symbols \ {s} : (t \in strat'.open <=> t \in strat.open)
                               /\ (t \in strat'.closing <=> t \in strat.closing)
  BY <1>1, <1>3, SpotCallbacks DEF SpotInv
<1>5. SpotPlace(s)
  BY <1>1 DEF SpotInv
<1>6. CASE req[r].kind = "exit"
  <2>1. s \in strat.open /\ s \in strat.closing /\ ~Enters(s) /\ ~Leaves(s)' /\ ~Enters(s)'
    BY <1>1, <1>2, <1>5, <1>6 DEF SpotPlace, Ends
  <2>2. \/ strat' = strat \/ strat' = Spot!ExitRollback(strat, s)
        \/ strat' = Spot!Closed(strat, s) /\ Over(r)
    BY <1>1, <1>6, SpotAnswers DEF SpotInv, Over, Handled
  <2>3. /\ s \in strat'.open \/ Over(r)
        /\ s \in strat'.closing => s \in strat'.open
    BY <2>1, <2>2 DEF SpotInv, SpotType, Spot!ExitRollback, Spot!Closed
  <2>4. AllKnown'
    BY <1>1, <1>2, <1>4, <2>3, VanishesKnown DEF SpotInv
  <2> QED BY <1>2, <1>4, <2>1, <2>3, <2>4 DEF SpotInv, SpotPlace, Ends
<1>7. CASE req[r].kind = "entry"
  <2>1. s \in strat.open /\ s \notin strat.closing /\ ~Leaves(s)' /\ ~Enters(s)'
    BY <1>1, <1>2, <1>5, <1>7 DEF SpotPlace, Ends
  <2>2. \/ strat' = strat
        \/ strat' = Spot!EntryRollback(strat, s) /\ Over(r)
    BY <1>1, <1>7, <2>1, SpotAnswers DEF SpotInv, Over, Handled, Refused, Spot!ClearPending
  <2>3. /\ s \in strat'.open \/ Over(r)
        /\ s \notin strat'.closing
    BY <2>1, <2>2 DEF SpotInv, SpotType, Spot!EntryRollback
  <2>4. AllKnown'
    BY <1>1, <1>2, <1>4, <2>3, VanishesKnown DEF SpotInv
  <2> QED BY <1>2, <1>4, <2>1, <2>3, <2>4 DEF SpotInv, SpotPlace, Ends
<1> QED BY <1>1, <1>6, <1>7 DEF Kinds

LEMMA SpotStep ==
  ASSUME SpotCopes, SpotInv, Spot!Next
  PROVE  SpotInv'
<1>1. CASE Spot!LiveNext
  <2>1. LiveType' /\ SpotType' /\ strat'.queue = strat.queue
    BY <1>1, SpotLive, SpotTypes DEF SpotInv
  <2>2. ASSUME AllGood' /\ Stays /\ strat' = strat, Held \/ \E r \in Ids : Answered(r)
        PROVE  SpotInv'
    <3>1. AllKnown'
      BY <2>2, HeldKnown, AnsweredKnown DEF SpotInv, Stays
    <3> QED BY <2>1, <2>2, <3>1 DEF SpotInv, SpotPlace, Stays
  <2>3. ASSUME NEW s \in Symbols, Sends(s) PROVE SpotInv'
    BY <2>2, <2>3, SendsKeeps DEF SpotInv, Sends
  <2>4. ASSUME NEW s \in Symbols, Drops(s), strat' = Spot!ClearGhost(strat, s),
               Blind \/ ~Spot!FirstLegHeld(long[s], short[s])
        PROVE  SpotInv'
    <3>1. AllGood' /\ Ends("exit", s) /\ Leaves(s)
      BY <2>1, <2>4, DropsKeeps DEF SpotInv
    <3>2. ~Hedged(s) /\ Held
      BY <2>4, Excepted DEF Spot!FirstLegHeld, Hedged, Drops
    <3>3. /\ s \notin strat'.open /\ s \notin strat'.closing
          /\ \A t \in Symbols \ {s} : (t \in strat'.open <=> t \in strat.open)
                                      /\ (t \in strat'.closing <=> t \in strat.closing)
      BY <2>4 DEF Spot!ClearGhost, Spot!Closed, SpotInv, SpotType
    <3>4. ~Enters(s) /\ SpotPlace(s)
      BY <3>1 DEF SpotInv, SpotPlace
    <3>5. AllKnown'
      BY <3>1, <3>2, <3>3 DEF SpotInv, AllKnown, Known, Held, Hedged, Ends
    <3>6. \A t \in Symbols : SpotPlace(t)'
      BY <3>1, <3>3, <3>4 DEF SpotInv, SpotPlace, Ends
    <3> QED BY <2>1, <3>1, <3>5, <3>6 DEF SpotInv
  <2>5. ASSUME NEW r \in Ids, Admitted(r) \/ Started(r) \/ Answered(r) PROVE SpotInv'
    BY <2>1, <2>2, <2>5, ProceedsKeeps DEF SpotInv, Admitted, Started, Answered
  <2>6. CASE Quiet
    BY <2>2, <2>6, QuietKeeps DEF SpotInv, Quiet
  <2> QED BY <1>1, <2>1, <2>3, <2>4, <2>5, <2>6, SpotLive, SpotVanishes DEF SpotInv
<1>2. CASE Spot!PopExits
  <2>1. /\ LiveType' /\ SpotType' /\ AllGood' /\ Stays /\ Held
        /\ strat'.open = strat.open /\ strat'.closing = strat.closing
    BY <1>2, SpotDrain, DrainKeeps DEF SpotInv
  <2>2. AllKnown'
    BY <2>1, HeldKnown DEF SpotInv, Stays
  <2> QED BY <2>1, <2>2 DEF SpotInv, SpotPlace, Stays
<1>3. ASSUME NEW due \in SUBSET Spot!Expirable,
             Spot!Queue(due) \/ \E s \in Symbols : Spot!OnSignal(s, due)
      PROVE  SpotInv'
  <2>1. LiveType' /\ SpotType' /\ SpotAsks(due)
    BY <1>3, SpotAsking DEF SpotInv
  <2>2. Queues(due) /\ due \subseteq Symbols /\ due \subseteq strat.open \ strat.closing
    BY <2>1 DEF SpotAsks, Queues, Spot!Expirable, SpotInv, SpotType
  <2>3. ASSUME NEW t \in Symbols, Spot!Idle(t)
        PROVE  ~Enters(t) /\ (t \notin strat.closing => ~Leaves(t))
    BY <2>3 DEF SpotInv, SpotPlace, Spot!Idle, Spot!Alive, Enters, Entry, Of, Counts
  <2>4. Free(due)
    BY <2>2, <2>3 DEF Free, Spot!Expirable
  <2>5. CASE req' = req /\ strat'.open = strat.open
    <3>1. /\ AllGood'
          /\ \A t \in Symbols : (Leaves(t)' <=> Leaves(t) \/ t \in due) /\ (Enters(t)' <=> Enters(t))
      BY <2>2, <2>4, <2>5, QueuesKeeps DEF SpotInv
    <3>2. AllKnown'
      BY <2>1, <2>5, <3>1, HeldKnown DEF SpotInv, SpotAsks
    <3> QED BY <2>1, <2>2, <2>4, <2>5, <3>1, <3>2 DEF SpotInv, SpotPlace, SpotAsks, Free
  <2>6. ASSUME NEW s \in Symbols, s \notin strat.open, Spot!Idle(s),
               strat'.open = strat.open \cup {s}, \E n \in Ids : Appears(n, "entry", s)
        PROVE  SpotInv'
    <3>1. SpotPlace(s) /\ ~Enters(s) /\ ~Leaves(s) /\ s \notin due /\ s \notin strat.closing
      BY <2>2, <2>3, <2>6 DEF SpotInv, SpotPlace
    <3>2. Hedged(s) => s \in reported
      BY <2>6, <3>1 DEF SpotInv, AllKnown, Known
    <3>3. /\ AllGood'
          /\ \A t \in Symbols : /\ Leaves(t)' <=> Leaves(t) \/ t \in due
                                /\ Enters(t)' <=> Enters(t) \/ t = s
      BY <2>2, <2>4, <2>6, <3>1, <3>2, EntryKeeps DEF SpotInv
    <3>4. AllKnown'
      BY <2>1, <2>6, <3>3, HeldKnown DEF SpotInv, SpotAsks
    <3> QED BY <2>1, <2>2, <2>4, <2>6, <3>1, <3>3, <3>4 DEF SpotInv, SpotPlace, SpotAsks, Free
  <2> QED BY <2>1, <2>5, <2>6, Excepted DEF SpotAsks
<1> QED BY <1>1, <1>2, <1>3 DEF Spot!Next

LEMMA SpotBasis ==
  /\ Spot!Init => SpotInv
  /\ SpotInv /\ UNCHANGED liveVars => SpotInv'
  /\ SpotInv => Spot!HeldIsTracked
<1>1. Spot!Init => SpotInv
  <2> SUFFICES ASSUME Spot!Init PROVE SpotInv
    OBVIOUS
  <2>1. LiveType
    BY DEF Spot!Init, Spot!LiveInit, Spot!None, LiveType, Requests, Gone
  <2>2. SpotType
    BY DEF Spot!Init, Spot!Fresh, SpotType
  <2>3. /\ \A r \in Ids : ~Counts(r)
        /\ strat.open = {} /\ strat.closing = {} /\ strat.queue = {} /\ draining = {}
        /\ \A t \in Symbols : long[t] = 0 /\ short[t] = 0
    BY DEF Spot!Init, Spot!LiveInit, Spot!None, Spot!Fresh, Counts
  <2>4. ASSUME NEW t \in Symbols PROVE ~Leaves(t) /\ ~Enters(t) /\ OneExit(t) /\ ~Hedged(t)
    BY <2>3 DEF Leaves, Enters, Waits, OneExit, Exit, Entry, Of, Hedged
  <2>5. AllGood
    BY <2>3, <2>4 DEF AllGood, Good, OneWay, Fresh, Lots, Waits, Exit, Entry, Of
  <2> QED BY <2>1, <2>2, <2>3, <2>4, <2>5 DEF SpotInv, AllKnown, Known, SpotPlace
<1>2. SpotInv /\ UNCHANGED liveVars => SpotInv'
  BY DEF liveVars, SpotInv, LiveType, SpotType, SpotPlace, AllGood, Good, OneWay, OneExit, Fresh,
         Lots, Empty, AllKnown, Known, Hedged, Leaves, Enters, Waits, Exit, Entry, Of, Counts
<1>3. SpotInv => Spot!HeldIsTracked
  <2> SUFFICES ASSUME SpotInv, NEW s \in Symbols, Spot!Idle(s), Spot!Hedged(s), s \notin reported
               PROVE  s \in strat.open
    BY DEF Spot!HeldIsTracked, Spot!Tracks
  <2> QED BY DEF SpotInv, AllKnown, Known, SpotPlace, Hedged, Spot!Hedged
<1> QED BY <1>1, <1>2, <1>3

LEMMA FuturesShared ==
  /\ Futures!Expire => Funding!Expire
  /\ \A r, a : Futures!Execute(r, a) => Funding!Execute(r, a)
  /\ \A r : /\ Futures!Admit(r) => Funding!Admit(r)
            /\ Futures!Start(r) => Funding!Start(r)
            /\ Futures!Post(r) => Funding!Post(r)
            /\ Futures!End(r) => Funding!End(r)
  /\ \A kind, s : Futures!Spawn(kind, s) => Funding!Spawn(kind, s)
<1>1. /\ Futures!Alive = Funding!Alive
      /\ \A pc : Futures!At(pc) = Funding!At(pc)
      /\ \A r : Futures!IsEntry(r) = Funding!IsEntry(r)
      /\ \A kind, s : Futures!Request(kind, s) = Funding!Request(kind, s)
  BY DEF Futures!Alive, Funding!Alive, Futures!At, Funding!At,
         Futures!IsEntry, Funding!IsEntry, Futures!Request, Funding!Request
<1>2. Futures!Expire => Funding!Expire
  BY <1>1 DEF Futures!Expire, Funding!Expire, Futures!exchange, Funding!exchange
<1>3. \A r, a : Futures!Execute(r, a) => Funding!Execute(r, a)
  BY DEF Futures!Execute, Funding!Execute, Futures!After, Funding!After, Futures!Filled, Funding!Filled,
         Futures!At, Funding!At, Futures!Alive, Funding!Alive, Futures!IsEntry, Funding!IsEntry
<1>4. \A r : Futures!Admit(r) => Funding!Admit(r)
  BY <1>1 DEF Futures!Admit, Funding!Admit, Futures!PastCooldown, Funding!PastCooldown, Futures!Stamped,
              Funding!Stamped, Futures!Key, Funding!Key, Futures!exchange, Funding!exchange
<1>5. \A r : Futures!Start(r) => Funding!Start(r)
  <2>1. Futures!At("executing") \cup Futures!At("answered") \cup Futures!At("post")
          = Funding!At("executing") \cup Funding!At("answered") \cup Funding!At("post")
    BY <1>1
  <2>2. Futures!HasSlot => Funding!HasSlot
    BY <2>1, SameSize DEF Futures!HasSlot, Funding!HasSlot
  <2> QED BY <1>1, <2>2 DEF Futures!Start, Funding!Start, Futures!exchange, Funding!exchange
<1>6. \A r : Futures!End(r) => Funding!End(r)
  BY DEF Futures!End, Funding!End, Futures!None, Funding!None
<1>7. \A r : Futures!Post(r) => Funding!Post(r)
  BY <1>1, <1>6 DEF Futures!Post, Funding!Post, Futures!exchange, Funding!exchange
<1>8. \A kind, s : Futures!Spawn(kind, s) => Funding!Spawn(kind, s)
  BY <1>1 DEF Futures!Spawn, Funding!Spawn
<1> QED BY <1>2, <1>3, <1>4, <1>5, <1>6, <1>7, <1>8

LEMMA FuturesLive ==
  ASSUME LiveType, Futures!LiveNext
  PROVE  /\ LiveType'
         /\ \/ \E s \in Symbols : Sends(s)
            \/ \E s \in Symbols :
                 /\ Drops(s) /\ strat' = Futures!ClearGhost(strat, s)
                 /\ Blind \/ ~Futures!FirstLegHeld(long[s], short[s])
            \/ \E r \in Ids :
                 /\ Refused(r)
                 /\ \/ strat' = Futures!Notify(r)
                    \/ req[r].kind = "entry" /\ strat' = Futures!ClearPending(strat, req[r].sym)
                    \/ /\ req[r].kind = "exit" /\ req[r].pc = "new"
                       /\ <<"exit", req[r].sym>> \in deduped /\ strat' = strat
            \/ \E r \in Ids : Admitted(r) \/ Started(r) \/ Answered(r)
            \/ \E r \in Ids : Handled(r) /\ strat' = Futures!Told(r)
            \/ Quiet
<1>1. ASSUME NEW s \in Symbols, Futures!SendExit(s) PROVE LiveType' /\ Sends(s)
  <2>1. Futures!Spawn("exit", s) /\ "exit" \in Kinds
    BY <1>1 DEF Futures!SendExit, Kinds
  <2>2. req' \in [Ids -> Requests] /\ \E r \in Ids : Appears(r, "exit", s)
    BY <2>1, FuturesShared, SpawnStep
  <2> QED BY <1>1, <2>2 DEF Futures!SendExit, Sends, Held, Futures!exchange, LiveType
<1>2. ASSUME NEW s \in Symbols, Futures!DropGhost(s)
      PROVE  /\ LiveType' /\ Drops(s) /\ strat' = Futures!ClearGhost(strat, s)
             /\ Blind \/ ~Futures!FirstLegHeld(long[s], short[s])
  BY <1>2 DEF Futures!DropGhost, Futures!Unseen, Futures!Listed, Blind, Drops, Held, Futures!exchange, LiveType
<1>3. ASSUME NEW r \in Ids, Futures!Refuse(r)
      PROVE  /\ LiveType' /\ Refused(r)
             /\ \/ strat' = Futures!Notify(r)
                \/ req[r].kind = "entry" /\ strat' = Futures!ClearPending(strat, req[r].sym)
                \/ /\ req[r].kind = "exit" /\ req[r].pc = "new"
                   /\ <<"exit", req[r].sym>> \in deduped /\ strat' = strat
  <2>1. /\ req[r].pc \in {"new", "queued"} /\ Futures!End(r) /\ UNCHANGED draining /\ Held
        /\ \/ deduped' = deduped
           \/ req[r].kind = "entry" /\ deduped' = deduped \cup {<<req[r].kind, req[r].sym>>}
    BY <1>3 DEF Futures!Refuse, Futures!GateRefuses, Futures!CoolingRefuses, Futures!MarginRefuses, Futures!DedupRefuses,
                Futures!NotionalRefuses, Futures!ImpactRefuses, Futures!At, Futures!PastCooldown, Futures!IsEntry, Futures!Key,
                Futures!exchange, Held
  <2>2. req' \in [Ids -> Requests] /\ Others(r) /\ req'[r].pc = "none"
    BY <2>1, FuturesShared, EndStep
  <2>3. LiveType' /\ Refused(r)
    BY <2>1, <2>2 DEF Refused, Vanishes, Counts, Held, LiveType
  <2>4. req[r].kind \in Kinds
    BY <2>1, RequestShape
  <2>5. \/ strat' = Futures!Notify(r)
        \/ req[r].kind = "entry" /\ strat' = Futures!ClearPending(strat, req[r].sym)
        \/ /\ req[r].kind = "exit" /\ req[r].pc = "new"
           /\ <<"exit", req[r].sym>> \in deduped /\ strat' = strat
    BY <1>3, <2>4 DEF Futures!Refuse, Futures!GateRefuses, Futures!CoolingRefuses, Futures!MarginRefuses, Futures!DedupRefuses,
                Futures!NotionalRefuses, Futures!ImpactRefuses, Futures!At, Futures!PastCooldown, Futures!IsEntry, Futures!Key, Kinds
  <2> QED BY <2>3, <2>5
<1>4. ASSUME NEW r \in Ids, Futures!Handle(r)
      PROVE  LiveType' /\ Handled(r) /\ strat' = Futures!Told(r)
  <2>1. /\ req[r].pc = "answered" /\ strat' = Futures!Told(r)
        /\ reported' = IF req[r].ans = "ROLLBACK_FAILED" THEN reported \cup {req[r].sym} ELSE reported
        /\ UNCHANGED <<draining, deduped, long, short>>
    BY <1>4 DEF Futures!Handle, Futures!At
  <2>2. /\ req' \in [Ids -> Requests] /\ Others(r) /\ req'[r].pc \in {"none", "post"}
        /\ req'[r].pc = "post" => req'[r].kind = req[r].kind /\ req'[r].sym = req[r].sym
    <3>1. CASE Futures!End(r)
      BY <2>1, <3>1, FuturesShared, EndStep
    <3>2. CASE req' = [req EXCEPT ![r].pc = "post"]
      <4>1. req[r] \in [pc : {"answered", "post"}, kind : Kinds, sym : Symbols, ans : Answers]
        BY <2>1, RequestShape DEF Requests
      <4>2. [req[r] EXCEPT !.pc = "post"] \in Requests
        BY <4>1 DEF Requests
      <4> QED BY <3>2, <4>1, <4>2 DEF Others, LiveType
    <3> QED BY <1>4, <3>1, <3>2 DEF Futures!Handle
  <2> QED BY <2>1, <2>2 DEF Handled, Vanishes, Counts, LiveType
<1>5. ASSUME NEW r \in Ids, NEW a \in Futures!Answers, Futures!Execute(r, a)
      PROVE  LiveType' /\ Answered(r)
  <2>1. a \in Answers
    BY DEF Futures!Answers, Answers
  <2> QED BY <1>5, <2>1, FuturesShared, ExecuteStep
<1> QED
  BY <1>1, <1>2, <1>3, <1>4, <1>5, FuturesShared, AdmitStep, StartStep, PostStep, ExpireStep
     DEF Futures!LiveNext, Futures!Settle


-----------------------------------------------------------------------------
(* The futures-futures strategy.                                           *)

FuturesStates ==
  [open : SUBSET Symbols, meta : SUBSET Symbols, exits : SUBSET Symbols,
   exiting : SUBSET Symbols, queue : SUBSET Symbols]
FuturesType == strat \in FuturesStates

LEMMA FuturesCallbacks ==
  ASSUME FuturesType, NEW s \in Symbols
  PROVE  \A st \in {Futures!EntryRollback(strat, s), Futures!ExitRollback(strat, s),
                    Futures!Success(strat, s, TRUE), Futures!ClearGhost(strat, s),
                    Futures!ClearPending(strat, s)} :
           /\ st \in FuturesStates /\ st.queue = strat.queue
           /\ \A t \in Symbols \ {s} : /\ t \in st.open <=> t \in strat.open
                                       /\ t \in st.meta <=> t \in strat.meta
                                       /\ t \in st.exits <=> t \in strat.exits
<1> DEFINE Kept(st) ==
             /\ st \in FuturesStates /\ st.queue = strat.queue
             /\ \A t \in Symbols \ {s} : /\ t \in st.open <=> t \in strat.open
                                         /\ t \in st.meta <=> t \in strat.meta
                                         /\ t \in st.exits <=> t \in strat.exits
<1>1. Kept(Futures!EntryRollback(strat, s)) /\ Kept(Futures!ClearGhost(strat, s))
  BY DEF FuturesType, FuturesStates, Futures!EntryRollback, Futures!ClearGhost
<1>2. Kept(Futures!ClearPending(strat, s)) /\ Kept(Futures!ExitRollback(strat, s))
  BY DEF FuturesType, FuturesStates, Futures!ClearPending, Futures!ExitRollback
<1>3. Kept(Futures!Success(strat, s, TRUE))
  BY DEF FuturesType, FuturesStates, Futures!Success
<1> QED BY <1>1, <1>2, <1>3

LEMMA FuturesAnswers ==
  ASSUME LiveType, FuturesType, NEW r \in Ids, req[r].pc # "none"
  PROVE  /\ Futures!Notify(r) = IF req[r].kind = "exit" THEN Futures!ExitRollback(strat, req[r].sym)
                                ELSE Futures!EntryRollback(strat, req[r].sym)
         /\ req[r].pc = "answered" =>
              Futures!Told(r) =
                IF req[r].ans = "SUCCESS" THEN Futures!Success(strat, req[r].sym, TRUE)
                ELSE IF req[r].kind = "exit" THEN Futures!ExitRollback(strat, req[r].sym)
                ELSE IF req[r].ans = "ROLLBACK_FAILED" THEN strat
                ELSE Futures!EntryRollback(strat, req[r].sym)
  BY RequestShape DEF Futures!Notify, Futures!Told, Futures!IsEntry, Futures!Success, Kinds

LEMMA FuturesTypes ==
  ASSUME LiveType, FuturesType, Futures!LiveNext
  PROVE  FuturesType' /\ strat'.queue = strat.queue
<1>1. ASSUME NEW r \in Ids, req[r].pc # "none",
             \/ strat' \in {strat, Futures!Notify(r), Futures!ClearPending(strat, req[r].sym)}
             \/ req[r].pc = "answered" /\ strat' = Futures!Told(r)
      PROVE  FuturesType' /\ strat'.queue = strat.queue
  <2>1. req[r].sym \in Symbols
    BY <1>1, RequestShape
  <2>2. strat' \in {strat, Futures!EntryRollback(strat, req[r].sym),
                   Futures!ExitRollback(strat, req[r].sym), Futures!Success(strat, req[r].sym, TRUE),
                   Futures!ClearPending(strat, req[r].sym)}
    BY <1>1, FuturesAnswers
  <2>3. CASE strat' = strat
    BY <2>3 DEF FuturesType
  <2>4. CASE strat' # strat
    <3>1. \A st \in {Futures!EntryRollback(strat, req[r].sym), Futures!ExitRollback(strat, req[r].sym),
                    Futures!Success(strat, req[r].sym, TRUE), Futures!ClearGhost(strat, req[r].sym),
                    Futures!ClearPending(strat, req[r].sym)} :
            st \in FuturesStates /\ st.queue = strat.queue
      BY <2>1, FuturesCallbacks
    <3> QED BY <2>2, <2>4, <3>1 DEF FuturesType
  <2> QED BY <2>3, <2>4
<1>2. ASSUME NEW s \in Symbols, strat' = Futures!ClearGhost(strat, s)
      PROVE  FuturesType' /\ strat'.queue = strat.queue
  BY <1>2, FuturesCallbacks DEF FuturesType
<1>3. CASE strat' = strat
  BY <1>3 DEF FuturesType
<1> QED BY <1>1, <1>2, <1>3, FuturesLive DEF Sends, Refused, Handled, Admitted, Started, Answered, Quiet

\* With a limit of one there is no room beside an exit.
LEMMA NoRoomBesideAnExit ==
  ASSUME FuturesType, MaxConcurrent = 1, Futures!Taken < MaxConcurrent
  PROVE  strat.exits = {}
<1>1. /\ strat.open \subseteq Symbols /\ strat.exits \subseteq Symbols
      /\ strat.meta \subseteq Symbols
  BY DEF FuturesType, FuturesStates
<1>2. /\ IsFiniteSet(strat.exits) /\ Cardinality(strat.open) \in Nat
      /\ Cardinality(strat.exits) \in Nat /\ Cardinality(strat.meta) \in Nat
  BY <1>1, StrategiesAssumption, FS_Subset, FS_CardinalityType
<1>3. Cardinality(strat.exits) = 0
  BY <1>2, SameSize DEF Futures!Taken
<1> QED BY <1>2, <1>3, FS_EmptySet

\* A signal for a symbol that nothing is known of.
FuturesEnters(s) ==
  /\ s \notin strat.open /\ s \notin strat.meta /\ s \notin strat.exits
  /\ Futures!Taken < MaxConcurrent /\ \E n \in Ids : Appears(n, "entry", s)
  /\ strat'.open = strat.open /\ strat'.meta = strat.meta \cup {s} /\ strat'.exits = strat.exits
  /\ strat'.queue = strat.queue /\ UNCHANGED <<draining, deduped>> /\ Held

\* The monitor drops what is pending and asks for the exits of what is due.
FuturesMonitors(lostEntries, lostExits, due) ==
  /\ lostEntries \subseteq Futures!Orphans(strat.meta)
  /\ lostExits \subseteq Futures!Orphans(strat.exits)
  /\ due \subseteq strat.open /\ \A t \in due : <<"exit", t>> \notin deduped
  /\ strat'.open = strat.open \ due /\ strat'.meta = strat.meta \ lostEntries
  /\ strat'.exits = (strat.exits \ lostExits) \cup due /\ strat'.queue = strat.queue \cup due
  /\ UNCHANGED <<req, draining, deduped>> /\ Held

\* After a crash the pairs the exchanges hold are all that is known.
FuturesRestarts ==
  /\ \A r \in Ids : req'[r].pc = "none"
  /\ strat'.open = Futures!Injected /\ strat'.meta = {} /\ strat'.exits = {} /\ strat'.queue = {}
  /\ draining' = {} /\ deduped' = {} /\ Held

LEMMA FuturesAlone ==
  ASSUME FuturesCopes, LiveType, FuturesType
  PROVE  /\ \A s \in Symbols : Futures!OnSignal(s) => LiveType' /\ FuturesType' /\ FuturesEnters(s)
         /\ \A m, x, d \in SUBSET Symbols :
              Futures!Monitor(m, x, d) => LiveType' /\ FuturesType' /\ FuturesMonitors(m, x, d)
         /\ Futures!Restart => LiveType' /\ FuturesType' /\ FuturesRestarts
         /\ Futures!PopExits =>
              /\ LiveType' /\ FuturesType' /\ draining = {} /\ draining' = strat.queue
              /\ strat'.queue = {} /\ strat'.open = strat.open /\ strat'.meta = strat.meta
              /\ strat'.exits = strat.exits /\ UNCHANGED <<req, deduped>> /\ Held
<1>1. ASSUME NEW s \in Symbols, Futures!OnSignal(s)
      PROVE  LiveType' /\ FuturesType' /\ FuturesEnters(s)
  <2>1. /\ Futures!Spawn("entry", s) /\ UNCHANGED <<draining, deduped>> /\ Held
        /\ strat' = [strat EXCEPT !.meta = @ \cup {s}] /\ Futures!Taken < MaxConcurrent
        /\ s \notin strat.open /\ s \notin strat.meta /\ (Reenters \/ s \notin strat.exits)
    BY <1>1 DEF Reenters, Futures!OnSignal, Futures!Accepts, Futures!Signal, Futures!exchange, Held
  <2>2. s \notin strat.exits
    BY <2>1, Excepted, NoRoomBesideAnExit
  <2>3. req' \in [Ids -> Requests] /\ \E n \in Ids : Appears(n, "entry", s)
    BY <2>1, FuturesShared, SpawnStep DEF Kinds
  <2>4. LiveType'
    BY <2>1, <2>3 DEF LiveType, Held
  <2>5. /\ FuturesType' /\ strat'.open = strat.open /\ strat'.meta = strat.meta \cup {s}
        /\ strat'.exits = strat.exits /\ strat'.queue = strat.queue
    BY <2>1 DEF FuturesType, FuturesStates
  <2> QED BY <2>1, <2>3, <2>4, <2>5, <2>2 DEF FuturesEnters
<1>2. ASSUME NEW m \in SUBSET Symbols, NEW x \in SUBSET Symbols, NEW d \in SUBSET Symbols,
             Futures!Monitor(m, x, d)
      PROVE  LiveType' /\ FuturesType' /\ FuturesMonitors(m, x, d)
  BY <1>2 DEF Futures!Monitor, FuturesMonitors, FuturesType, FuturesStates, LiveType, Held
<1>3. ASSUME Futures!Restart PROVE LiveType' /\ FuturesType' /\ FuturesRestarts
  <2>1. /\ strat' = [Futures!Fresh EXCEPT !.open = Futures!Injected]
        /\ req' = [r \in Ids |-> Gone] /\ draining' = {} /\ deduped' = {} /\ Held
    BY <1>3, Excepted DEF Blind, Futures!Restart, Futures!None, Gone, Held
  <2>2. Futures!Injected \subseteq Symbols
    BY DEF Futures!Injected
  <2> QED BY <2>1, <2>2 DEF Futures!Fresh, FuturesRestarts, FuturesType, FuturesStates, LiveType, Requests,
                            Gone, Held
<1>4. ASSUME Futures!PopExits
      PROVE  /\ LiveType' /\ FuturesType' /\ draining = {} /\ draining' = strat.queue
             /\ strat'.queue = {} /\ strat'.open = strat.open /\ strat'.meta = strat.meta
             /\ strat'.exits = strat.exits /\ UNCHANGED <<req, deduped>> /\ Held
  BY <1>4 DEF Futures!PopExits, Futures!Drain, Futures!exchange, FuturesType, FuturesStates, LiveType, Held
<1> QED BY <1>1, <1>2, <1>3, <1>4

-----------------------------------------------------------------------------
(* What is held is tracked, what is tracked is held, and how much of it.   *)

\* An exit is pending as long as it is on its way; a symbol is open, or its exit
\* or its entry pending, and nothing else.
FuturesPlace(t) ==
  /\ t \in strat.exits <=> Leaves(t)
  /\ t \in strat.open => t \notin strat.meta /\ t \notin strat.exits
  /\ t \in strat.meta => t \notin strat.exits
  /\ Enters(t) => t \in strat.meta

Present(t) == long[t] > 0 \/ short[t] > 0

\* The exit of the symbol, or its entry, was answered with something done.
Closed(t) ==
  \E r \in Ids : Exit(r, t) /\ req[r].pc = "answered" /\ req[r].ans \in {"SUCCESS", "ROLLBACK_FAILED"}
Opened(t) == \E r \in Ids : Entry(r, t) /\ req[r].pc = "answered" /\ req[r].ans = "SUCCESS"

\* What is open is held, by one exchange at least, until its exit is done.
Backed(t) ==
  t \notin reported =>
    /\ t \in strat.open \/ Opened(t) => Present(t)
    /\ t \in strat.exits => Closed(t) \/ Present(t)

FuturesInv ==
  /\ LiveType /\ FuturesType /\ AllGood /\ AllKnown
  /\ \A t \in Symbols : FuturesPlace(t) /\ Backed(t)

\* What may still be counted: the operator was not told of it.
Tracked == (strat.open \cup strat.exits \cup strat.meta) \ reported

LEMMA SameAnswers ==
  ASSUME NEW t \in Symbols,
         \A q \in Ids : \/ req'[q] = req[q]
                        \/ req[q].pc # "answered" /\ req'[q].pc # "answered"
                        \/ req[q].sym # t /\ (req'[q].pc = "answered" => req'[q].sym # t)
  PROVE  (Closed(t)' <=> Closed(t)) /\ (Opened(t)' <=> Opened(t))
<1>1. ASSUME NEW q \in Ids
      PROVE  /\ Exit(q, t)' /\ req'[q].pc = "answered" /\ req'[q].ans \in {"SUCCESS", "ROLLBACK_FAILED"}
                  <=> Exit(q, t) /\ req[q].pc = "answered" /\ req[q].ans \in {"SUCCESS", "ROLLBACK_FAILED"}
             /\ Entry(q, t)' /\ req'[q].pc = "answered" /\ req'[q].ans = "SUCCESS"
                  <=> Entry(q, t) /\ req[q].pc = "answered" /\ req[q].ans = "SUCCESS"
  BY DEF Exit, Entry, Of, Counts
<1> QED BY <1>1 DEF Closed, Opened

\* The steps that leave the answers and the lots alone, and what is tracked.
LEMMA SameBacked ==
  ASSUME FuturesInv, Held, strat'.open = strat.open, strat'.exits = strat.exits,
         \A q \in Ids : req'[q] = req[q] \/ (req[q].pc # "answered" /\ req'[q].pc # "answered")
  PROVE  \A t \in Symbols : Backed(t)'
  BY SameAnswers DEF FuturesInv, Backed, Present, Held

LEMMA AnsweredBacked ==
  ASSUME FuturesInv, LiveType', NEW r \in Ids, Answered(r)
  PROVE  \A t \in Symbols : Backed(t)'
<1> SUFFICES ASSUME NEW t \in Symbols PROVE Backed(t)'
  OBVIOUS
<1>1. /\ Others(r) /\ req[r].pc = "executing" /\ req'[r].sym = req[r].sym /\ req'[r].kind = req[r].kind
      /\ req'[r].pc = "answered" /\ strat' = strat /\ reported' = reported
  BY DEF Answered, Proceeds
<1>2. Backed(t) /\ FuturesPlace(t) /\ OneWay(t) /\ OneExit(t)
  BY DEF FuturesInv, AllGood, Good, OneWay
<1>3. CASE t # req[r].sym
  <2>1. (Closed(t)' <=> Closed(t)) /\ (Opened(t)' <=> Opened(t))
    BY <1>1, <1>3, SameAnswers DEF Others
  <2>2. long'[t] = long[t] /\ short'[t] = short[t]
    BY <1>3 DEF Answered
  <2> QED BY <1>1, <1>2, <2>1, <2>2 DEF Backed, Present
<1>4. CASE t = req[r].sym
  <2>1. /\ long[t] \in Nat /\ short[t] \in Nat /\ long'[t] \in Nat /\ short'[t] \in Nat
        /\ req[r].kind \in Kinds
    BY <1>1, RequestShape DEF FuturesInv, LiveType
  <2>2. /\ CASE req'[r].ans = "SUCCESS" ->
                  long'[t] = Moved(req[r].kind, long[t]) /\ short'[t] = Moved(req[r].kind, short[t])
             [] req'[r].ans = "ROLLBACK_FAILED" -> TRUE
             [] OTHER -> long'[t] = long[t] /\ short'[t] = short[t]
    BY <1>4 DEF Answered
  <2>3. CASE req[r].kind = "entry"
    <3>1. Entry(r, t) /\ Enters(t) /\ t \notin strat.open /\ t \notin strat.exits
      BY <1>1, <1>2, <1>4, <2>3 DEF Enters, Entry, Of, Counts, FuturesPlace
    <3>2. Opened(t)' => req'[r].ans = "SUCCESS"
      <4>1. \A q \in Ids : Entry(q, t)' => q = r
        BY <1>1, <1>2, <3>1 DEF OneWay, Entry, Of, Counts, Others
      <4> QED BY <4>1 DEF Opened
    <3>3. Opened(t)' => Present(t)'
      BY <2>1, <2>2, <2>3, <3>2 DEF Present, Moved
    <3> QED BY <1>1, <3>1, <3>3 DEF Backed
  <2>4. CASE req[r].kind = "exit"
    <3>1. Exit(r, t) /\ Leaves(t) /\ ~Enters(t) /\ t \notin strat.open
      BY <1>1, <1>2, <1>4, <2>4 DEF Leaves, Exit, Of, Counts, FuturesPlace, OneWay
    <3>2. ~Opened(t)'
      BY <1>1, <2>4, <3>1 DEF Opened, Enters, Entry, Of, Counts, Others
    <3>3. Exit(r, t)'
      BY <1>1, <1>4, <2>4 DEF Exit, Of, Counts
    <3>4. CASE req'[r].ans \in {"SUCCESS", "ROLLBACK_FAILED"}
      BY <1>1, <3>1, <3>2, <3>3, <3>4 DEF Backed, Closed
    <3>5. CASE req'[r].ans \notin {"SUCCESS", "ROLLBACK_FAILED"}
      <4>1. ~Closed(t)
        BY <1>1, <1>2, <3>1 DEF Closed, OneExit
      <4>2. long'[t] = long[t] /\ short'[t] = short[t]
        BY <2>2, <3>5
      <4> QED BY <1>1, <1>2, <3>1, <3>2, <4>1, <4>2 DEF Backed, Present
    <3> QED BY <3>4, <3>5
  <2> QED BY <2>1, <2>3, <2>4 DEF Kinds
<1> QED BY <1>3, <1>4

LEMMA FuturesVanishes ==
  ASSUME FuturesInv, NEW r \in Ids, FuturesType', strat'.queue = strat.queue,
         \/ /\ Refused(r)
            /\ \/ strat' = Futures!Notify(r)
               \/ req[r].kind = "entry" /\ strat' = Futures!ClearPending(strat, req[r].sym)
               \/ /\ req[r].kind = "exit" /\ req[r].pc = "new"
                  /\ <<"exit", req[r].sym>> \in deduped /\ strat' = strat
         \/ Handled(r) /\ strat' = Futures!Told(r)
  PROVE  /\ AllGood' /\ AllKnown' /\ \A t \in Symbols : FuturesPlace(t)' /\ Backed(t)'
         /\ Tracked' \subseteq Tracked
<1>1. PICK s \in Symbols : s = req[r].sym /\ req[r].pc # "none" /\ req[r].kind \in Kinds
  BY RequestShape DEF FuturesInv, Refused, Handled
<1>2. /\ AllGood' /\ Ends(req[r].kind, s)
      /\ req[r].kind = "exit" => Leaves(s)
      /\ req[r].kind = "entry" => Enters(s)
  BY <1>1, VanishesKeeps DEF FuturesInv
<1>3. \/ strat' = strat
      \/ strat' \in {Futures!EntryRollback(strat, s), Futures!ExitRollback(strat, s),
                     Futures!Success(strat, s, TRUE), Futures!ClearPending(strat, s)}
  BY <1>1, FuturesAnswers DEF FuturesInv, Handled
<1>4. \A t \in Symbols \ {s} : /\ t \in strat'.open <=> t \in strat.open
                               /\ t \in strat'.meta <=> t \in strat.meta
                               /\ t \in strat'.exits <=> t \in strat.exits
  <2>1. CASE strat' = strat
    BY <2>1
  <2>2. CASE strat' # strat
    BY <1>3, <2>2, FuturesCallbacks DEF FuturesInv
  <2> QED BY <2>1, <2>2
<1>5. /\ FuturesPlace(s) /\ Backed(s) /\ OneWay(s) /\ OneExit(s)
      /\ reported \subseteq reported' /\ UNCHANGED <<long, short>>
      /\ Others(r) /\ req'[r].pc # "answered"
      /\ req[r].pc # "answered" => reported' = reported
  BY <1>1 DEF FuturesInv, AllGood, Good, OneWay, Refused, Handled, Vanishes, Held
<1>6. \A t \in Symbols \ {s} : Backed(t)'
  <2>1. ASSUME NEW t \in Symbols \ {s} PROVE Backed(t)'
    <3>1. \A q \in Ids : \/ req'[q] = req[q]
                         \/ req[q].pc # "answered" /\ req'[q].pc # "answered"
                         \/ req[q].sym # t /\ (req'[q].pc = "answered" => req'[q].sym # t)
      BY <1>1, <1>5, <2>1 DEF Others, Refused, Handled, Vanishes
    <3>2. (Closed(t)' <=> Closed(t)) /\ (Opened(t)' <=> Opened(t))
      BY <3>1, SameAnswers
    <3> QED BY <1>4, <1>5, <2>1, <3>2 DEF FuturesInv, Backed, Present
  <2> QED BY <2>1
<1>7. CASE req[r].kind = "exit"
  <2>1. /\ s \notin strat.open /\ s \in strat.exits /\ s \notin strat.meta
        /\ ~Enters(s) /\ ~Leaves(s)' /\ ~Enters(s)' /\ Exit(r, s)
    BY <1>1, <1>2, <1>5, <1>7 DEF FuturesPlace, Ends, Exit, Of, Refused, Handled, Vanishes
  <2>2. ~(req[r].pc = "new" /\ <<"exit", s>> \in deduped)
    BY <1>1, <2>1 DEF FuturesInv, AllGood, Good, Fresh
  <2>3. \/ /\ strat' = Futures!ExitRollback(strat, s)
           /\ req[r].pc = "answered" => req[r].ans # "SUCCESS"
        \/ strat' = Futures!Success(strat, s, TRUE) /\ Over(r)
    BY <1>1, <1>7, <2>2, FuturesAnswers DEF FuturesInv, Over, Handled, Refused
  <2>4. /\ s \in strat'.open \/ (s \notin strat'.open /\ Over(r))
        /\ s \notin strat'.meta /\ s \notin strat'.exits
        /\ s \in strat'.open => (req[r].pc = "answered" => req[r].ans # "SUCCESS")
    BY <2>1, <2>3 DEF FuturesInv, FuturesType, FuturesStates, Futures!ExitRollback, Futures!Success
  <2>5. AllKnown'
    BY <1>1, <1>2, <1>4, <2>4, VanishesKnown DEF FuturesInv
  <2>6. ~Opened(s)'
    BY <2>1 DEF Opened, Enters
  <2>7. ASSUME s \in strat'.open, s \notin reported' PROVE Present(s)
    <3>1. req[r].pc = "answered" => req[r].ans # "ROLLBACK_FAILED"
      BY <1>1, <2>7 DEF Handled, Refused
    <3>2. ~Closed(s)
      BY <1>5, <2>1, <2>4, <2>7, <3>1 DEF Closed, OneExit
    <3> QED BY <1>5, <2>1, <2>7, <3>2 DEF Backed
  <2>8. Backed(s)'
    BY <1>5, <2>4, <2>6, <2>7 DEF Backed, Present
  <2>9. Tracked' \subseteq Tracked
    BY <1>4, <1>5, <2>1 DEF FuturesInv, FuturesType, FuturesStates, Tracked
  <2> QED BY <1>2, <1>4, <1>6, <2>1, <2>4, <2>5, <2>8, <2>9 DEF FuturesInv, FuturesPlace, Ends
<1>8. CASE req[r].kind = "entry"
  <2>1. /\ s \notin strat.open /\ s \in strat.meta /\ s \notin strat.exits
        /\ ~Leaves(s)' /\ ~Enters(s)' /\ Entry(r, s)
    BY <1>1, <1>2, <1>5, <1>8 DEF FuturesPlace, Ends, Entry, Of, Refused, Handled, Vanishes
  <2>2. \/ strat' \in {strat, Futures!EntryRollback(strat, s), Futures!ClearPending(strat, s)} /\ Over(r)
        \/ /\ strat' = Futures!Success(strat, s, TRUE)
           /\ req[r].pc = "answered" /\ req[r].ans = "SUCCESS"
    BY <1>1, <1>8, FuturesAnswers DEF FuturesInv, Over, Handled, Refused
  <2>3. /\ s \in strat'.open => req[r].pc = "answered" /\ req[r].ans = "SUCCESS" /\ s \notin strat'.meta
        /\ s \in strat'.open \/ Over(r)
        /\ s \notin strat'.exits
    <3>1. strat \in FuturesStates
      BY DEF FuturesInv, FuturesType
    <3>2. CASE strat' \in {strat, Futures!EntryRollback(strat, s), Futures!ClearPending(strat, s)} /\ Over(r)
      <4>1. s \notin strat'.open /\ s \notin strat'.exits
        BY <2>1, <3>1, <3>2 DEF FuturesStates, Futures!EntryRollback, Futures!ClearPending
      <4> QED BY <3>2, <4>1
    <3>3. CASE /\ strat' = Futures!Success(strat, s, TRUE)
               /\ req[r].pc = "answered" /\ req[r].ans = "SUCCESS"
      BY <2>1, <3>1, <3>3 DEF FuturesStates, Futures!Success
    <3> QED BY <2>2, <3>2, <3>3
  <2>4. AllKnown'
    BY <1>1, <1>2, <1>4, <2>3, VanishesKnown DEF FuturesInv
  <2>5. ~Opened(s)'
    BY <2>1 DEF Opened, Enters
  <2>6. Backed(s)'
    <3>1. s \in strat'.open => Opened(s)
      BY <2>1, <2>3 DEF Opened
    <3> QED BY <1>5, <2>3, <2>5, <3>1 DEF Backed, Present
  <2>7. Tracked' \subseteq Tracked
    BY <1>4, <1>5, <2>1 DEF FuturesInv, FuturesType, FuturesStates, Tracked
  <2> QED BY <1>2, <1>4, <1>6, <2>1, <2>3, <2>4, <2>6, <2>7 DEF FuturesInv, FuturesPlace, Ends
<1> QED BY <1>1, <1>7, <1>8 DEF Kinds

LEMMA FuturesLiveStep ==
  ASSUME ~Blind, FuturesInv, Futures!LiveNext
  PROVE  FuturesInv' /\ Tracked' \subseteq Tracked
<1>1. LiveType' /\ FuturesType' /\ strat'.queue = strat.queue
  BY FuturesLive, FuturesTypes DEF FuturesInv
<1>2. ASSUME AllGood' /\ Stays /\ strat' = strat, \A t \in Symbols : Backed(t)', reported' = reported,
             Held \/ \E r \in Ids : Answered(r)
      PROVE  FuturesInv' /\ Tracked' \subseteq Tracked
  <2>1. AllKnown'
    BY <1>2, HeldKnown, AnsweredKnown DEF FuturesInv, Stays
  <2> QED BY <1>1, <1>2, <2>1 DEF FuturesInv, FuturesPlace, Stays, Tracked
<1>3. ASSUME NEW s \in Symbols, Sends(s) PROVE FuturesInv' /\ Tracked' \subseteq Tracked
  <2>1. \A t \in Symbols : Backed(t)'
    BY <1>3, SameBacked DEF Sends, Appears, Others
  <2> QED BY <1>2, <1>3, <2>1, SendsKeeps DEF FuturesInv, Sends, Held
<1>4. ASSUME NEW s \in Symbols, Drops(s), strat' = Futures!ClearGhost(strat, s),
             Blind \/ ~Futures!FirstLegHeld(long[s], short[s])
      PROVE  FuturesInv' /\ Tracked' \subseteq Tracked
  <2>1. AllGood' /\ Ends("exit", s) /\ Leaves(s)
    BY <1>1, <1>4, DropsKeeps DEF FuturesInv
  <2>2. ~Hedged(s) /\ Held /\ req' = req
    BY <1>4 DEF Futures!FirstLegHeld, Hedged, Drops
  <2>3. /\ s \notin strat'.open /\ s \notin strat'.meta /\ s \notin strat'.exits
        /\ \A t \in Symbols \ {s} : /\ t \in strat'.open <=> t \in strat.open
                                    /\ t \in strat'.meta <=> t \in strat.meta
                                    /\ t \in strat'.exits <=> t \in strat.exits
    BY <1>4 DEF Futures!ClearGhost, FuturesInv, FuturesType, FuturesStates
  <2>4. ~Enters(s)
    BY <2>1 DEF FuturesInv, FuturesPlace
  <2>5. AllKnown'
    BY <2>1, <2>2, <2>3 DEF FuturesInv, AllKnown, Known, Held, Hedged, Ends
  <2>6. \A t \in Symbols : FuturesPlace(t)'
    BY <2>1, <2>3, <2>4 DEF FuturesInv, FuturesPlace, Ends
  <2>7. ASSUME NEW t \in Symbols PROVE Backed(t)'
    <3>1. (Closed(t)' <=> Closed(t)) /\ (Opened(t)' <=> Opened(t))
      BY <2>2, SameAnswers
    <3>2. t = s => ~Opened(t)
      BY <2>4 DEF Opened, Enters
    <3> QED BY <2>2, <2>3, <3>1, <3>2 DEF FuturesInv, Backed, Present, Held
  <2>8. Tracked' \subseteq Tracked
    BY <1>1, <2>2, <2>3 DEF FuturesInv, FuturesType, FuturesStates, Tracked, Held
  <2> QED BY <1>1, <2>1, <2>5, <2>6, <2>7, <2>8 DEF FuturesInv
<1>5. ASSUME NEW r \in Ids, Admitted(r) \/ Started(r) PROVE FuturesInv' /\ Tracked' \subseteq Tracked
  <2>1. \A t \in Symbols : Backed(t)'
    <3>1. \A q \in Ids : req'[q] = req[q] \/ (req[q].pc # "answered" /\ req'[q].pc # "answered")
      BY <1>5 DEF Admitted, Started, Proceeds, Others
    <3> QED BY <1>5, <3>1, SameBacked DEF Admitted, Started
  <2> QED BY <1>1, <1>2, <1>5, <2>1, ProceedsKeeps DEF FuturesInv, Admitted, Started, Held
<1>6. ASSUME NEW r \in Ids, Answered(r) PROVE FuturesInv' /\ Tracked' \subseteq Tracked
  BY <1>1, <1>2, <1>6, ProceedsKeeps, AnsweredBacked DEF FuturesInv, Answered
<1>7. CASE Quiet
  <2>1. \A t \in Symbols : Backed(t)'
    <3>1. \A q \in Ids : req'[q] = req[q] \/ (req[q].pc # "answered" /\ req'[q].pc # "answered")
      BY <1>7 DEF Quiet, Others
    <3> QED BY <1>7, <3>1, SameBacked DEF Quiet
  <2> QED BY <1>2, <1>7, <2>1, QuietKeeps DEF FuturesInv, Quiet, Held
<1>8. ASSUME NEW r \in Ids,
             \/ /\ Refused(r)
                /\ \/ strat' = Futures!Notify(r)
                   \/ req[r].kind = "entry" /\ strat' = Futures!ClearPending(strat, req[r].sym)
                   \/ /\ req[r].kind = "exit" /\ req[r].pc = "new"
                      /\ <<"exit", req[r].sym>> \in deduped /\ strat' = strat
             \/ Handled(r) /\ strat' = Futures!Told(r)
      PROVE  FuturesInv' /\ Tracked' \subseteq Tracked
  BY <1>1, <1>8, FuturesVanishes DEF FuturesInv
<1> QED BY <1>3, <1>4, <1>5, <1>6, <1>7, <1>8, FuturesLive DEF FuturesInv

LEMMA FuturesEntersStep ==
  ASSUME FuturesInv, NEW s \in Symbols, FuturesEnters(s), LiveType', FuturesType'
  PROVE  FuturesInv'
<1>1. Queues({}) /\ Free({}) /\ Held
  BY DEF FuturesEnters, Queues, Free
<1>2. ~Leaves(s) /\ ~Enters(s) /\ (Hedged(s) => s \in reported)
  BY DEF FuturesEnters, FuturesInv, FuturesPlace, AllKnown, Known
<1>3. /\ AllGood'
      /\ \A t \in Symbols : (Leaves(t)' <=> Leaves(t)) /\ (Enters(t)' <=> Enters(t) \/ t = s)
  BY <1>1, <1>2, EntryKeeps DEF FuturesInv, FuturesEnters
<1>4. AllKnown'
  BY <1>1, <1>3, HeldKnown DEF FuturesInv, FuturesEnters
<1>5. \A t \in Symbols : Backed(t)'
  BY SameBacked DEF FuturesEnters, Appears, Others
<1> QED BY <1>3, <1>4, <1>5 DEF FuturesInv, FuturesPlace, FuturesEnters

LEMMA FuturesMonitorsStep ==
  ASSUME ~Slow, FuturesInv, NEW m, NEW x, NEW d \in SUBSET Symbols, FuturesMonitors(m, x, d),
         LiveType', FuturesType'
  PROVE  FuturesInv' /\ Tracked' \subseteq Tracked
<1>1. /\ Held /\ req' = req /\ strat'.open = strat.open \ d /\ strat'.meta = strat.meta \ m
      /\ strat'.exits = (strat.exits \ x) \cup d /\ strat'.queue = strat.queue \cup d
      /\ Queues(d) /\ d \subseteq strat.open
  BY DEF FuturesMonitors, Queues
\* No request is on its way for what the monitor takes for an orphan.
<1>2. ASSUME NEW t \in m PROVE ~Enters(t)
  BY <1>2 DEF Slow, FuturesMonitors, Futures!Orphans, Futures!Alive, Enters, Entry, Of, Counts
<1>3. ASSUME NEW t \in x PROVE FALSE
  <2>1. t \in strat.exits /\ ~Waits(t) /\ \A r \in Ids : ~Exit(r, t)
    BY <1>3 DEF Slow, FuturesMonitors, Futures!Orphans, Futures!Alive, Waits, Exit, Of, Counts
  <2> QED BY <2>1 DEF FuturesInv, FuturesType, FuturesStates, FuturesPlace, Leaves
<1>4. Free(d)
  BY <1>1 DEF FuturesMonitors, FuturesInv, FuturesPlace, Free
<1>5. /\ AllGood'
      /\ \A t \in Symbols : (Leaves(t)' <=> Leaves(t) \/ t \in d) /\ (Enters(t)' <=> Enters(t))
  BY <1>1, <1>4, QueuesKeeps DEF FuturesInv
<1>6. AllKnown'
  BY <1>1, <1>5, HeldKnown DEF FuturesInv
<1>7. ASSUME NEW t \in Symbols PROVE Backed(t)'
  <2>1. (Closed(t)' <=> Closed(t)) /\ (Opened(t)' <=> Opened(t))
    BY <1>1, SameAnswers
  <2> QED BY <1>1, <2>1 DEF FuturesInv, Backed, Present, Held
<1>8. \A t \in Symbols : FuturesPlace(t)'
  BY <1>1, <1>2, <1>3, <1>4, <1>5 DEF FuturesInv, FuturesPlace, Free
<1>9. Tracked' \subseteq Tracked
  BY <1>1 DEF Tracked, Held
<1> QED BY <1>5, <1>6, <1>7, <1>8, <1>9 DEF FuturesInv

\* What the exchanges hold after a crash was known before, or the operator told.
LEMMA FuturesRestartsStep ==
  ASSUME FuturesInv, FuturesRestarts, LiveType', FuturesType'
  PROVE  FuturesInv' /\ Tracked' \subseteq Tracked
<1>1. /\ \A t \in Symbols : t \in strat'.open <=> Hedged(t)
      /\ strat'.open \subseteq Symbols
      /\ strat'.meta = {} /\ strat'.exits = {} /\ strat'.queue = {} /\ draining' = {} /\ Held
      /\ \A r \in Ids : ~Counts(r)' /\ req'[r].pc = "none"
  BY DEF FuturesRestarts, Futures!Injected, Hedged, Counts
<1>2. ASSUME NEW t \in Symbols
      PROVE  ~Leaves(t)' /\ ~Enters(t)' /\ OneExit(t)' /\ (Hedged(t)' <=> Hedged(t))
  BY <1>1 DEF Leaves, Enters, Waits, OneExit, Exit, Entry, Of, Held, Hedged
<1>3. AllGood'
  <2>1. ASSUME NEW t \in Symbols PROVE OneWay(t)' /\ Fresh(t)'
    BY <1>1, <1>2 DEF OneWay, Fresh, Waits, Exit, Entry, Of
  <2>2. ASSUME NEW t \in Symbols PROVE Lots(t)'
    BY <1>1 DEF FuturesInv, AllGood, Good, Lots, Of, Held
  <2> QED BY <2>1, <2>2 DEF AllGood, Good
<1>4. \A t \in Symbols : Known(t)' /\ FuturesPlace(t)'
  BY <1>1, <1>2 DEF Known, FuturesPlace
<1>5. \A t \in Symbols : Backed(t)'
  BY <1>1, <1>2 DEF Backed, Opened, Entry, Of, Present, Hedged, Held
<1>6. Tracked' \subseteq Tracked
  BY <1>1 DEF FuturesInv, FuturesPlace, AllKnown, Known, Tracked, Held
<1> QED BY <1>3, <1>4, <1>5, <1>6 DEF FuturesInv, AllKnown

\* Only a signal makes more tracked.
LEMMA FuturesStep ==
  ASSUME FuturesCopes, FuturesInv, Futures!Next
  PROVE  /\ FuturesInv'
         /\ Tracked' \subseteq Tracked \/ \E s \in Symbols : FuturesEnters(s)
<1>1. CASE Futures!LiveNext
  BY <1>1, Excepted, FuturesLiveStep
<1>2. ASSUME NEW s \in Symbols, Futures!OnSignal(s)
      PROVE  FuturesInv' /\ FuturesEnters(s)
  <2>1. LiveType' /\ FuturesType' /\ FuturesEnters(s)
    BY <1>2, FuturesAlone DEF FuturesInv
  <2> QED BY <2>1, FuturesEntersStep
<1>3. ASSUME NEW m \in SUBSET Symbols, NEW x \in SUBSET Symbols, NEW d \in SUBSET Symbols,
             Futures!Monitor(m, x, d)
      PROVE  FuturesInv' /\ Tracked' \subseteq Tracked
  <2>1. LiveType' /\ FuturesType' /\ FuturesMonitors(m, x, d)
    BY <1>3, FuturesAlone DEF FuturesInv
  <2> QED BY <2>1, Excepted, FuturesMonitorsStep
<1>4. CASE Futures!PopExits
  <2>1. /\ LiveType' /\ FuturesType' /\ draining = {} /\ draining' = strat.queue
        /\ strat'.queue = {} /\ strat'.open = strat.open /\ strat'.meta = strat.meta
        /\ strat'.exits = strat.exits /\ UNCHANGED <<req, deduped>> /\ Held
    BY <1>4, FuturesAlone DEF FuturesInv
  <2>2. AllGood' /\ Stays
    BY <2>1, DrainKeeps DEF FuturesInv
  <2>3. AllKnown'
    BY <2>1, <2>2, HeldKnown DEF FuturesInv, Stays
  <2>4. \A t \in Symbols : Backed(t)'
    BY <2>1, SameBacked
  <2>5. Tracked' = Tracked
    BY <2>1 DEF Tracked, Held
  <2> QED BY <2>1, <2>2, <2>3, <2>4, <2>5 DEF FuturesInv, FuturesPlace, Stays
<1>5. CASE Futures!Restart
  BY <1>5, FuturesAlone, FuturesRestartsStep DEF FuturesInv
<1> QED BY <1>1, <1>2, <1>3, <1>4, <1>5 DEF Futures!Next

LEMMA FuturesStart ==
  ASSUME Futures!Init
  PROVE  FuturesInv /\ Tracked = {}
<1>1. LiveType
  BY DEF Futures!Init, Futures!LiveInit, Futures!None, LiveType, Requests, Gone
<1>2. FuturesType
  BY DEF Futures!Init, Futures!Fresh, FuturesType, FuturesStates
<1>3. /\ \A r \in Ids : ~Counts(r)
      /\ strat.open = {} /\ strat.meta = {} /\ strat.exits = {} /\ strat.queue = {} /\ draining = {}
      /\ \A t \in Symbols : long[t] = 0 /\ short[t] = 0
  BY DEF Futures!Init, Futures!LiveInit, Futures!None, Futures!Fresh, Counts
<1>4. ASSUME NEW t \in Symbols PROVE ~Leaves(t) /\ ~Enters(t) /\ OneExit(t) /\ ~Hedged(t)
  BY <1>3 DEF Leaves, Enters, Waits, OneExit, Exit, Entry, Of, Hedged
<1>5. AllGood
  BY <1>3, <1>4 DEF AllGood, Good, OneWay, Fresh, Lots, Waits, Exit, Entry, Of
<1> QED
  BY <1>1, <1>2, <1>3, <1>4, <1>5
     DEF FuturesInv, AllKnown, Known, FuturesPlace, Backed, Opened, Enters, Tracked

LEMMA FuturesStutter ==
  ASSUME FuturesInv, UNCHANGED liveVars
  PROVE  FuturesInv'
  BY DEF liveVars, FuturesInv, LiveType, FuturesType, FuturesPlace, AllGood, Good, OneWay, OneExit, Fresh,
         Lots, Empty, AllKnown, Known, Hedged, Leaves, Enters, Waits, Exit, Entry, Of, Counts, Backed,
         Closed, Opened, Present

LEMMA FuturesBasis ==
  /\ FuturesInv => Futures!HeldIsTracked
  /\ FuturesInv => Futures!TrackedIsHeld
<1>1. FuturesInv => Futures!HeldIsTracked
  <2> SUFFICES ASSUME FuturesInv, NEW s \in Symbols, Futures!Idle(s), Futures!Hedged(s), s \notin reported
               PROVE  s \in strat.open \/ s \in strat.queue
    BY DEF Futures!HeldIsTracked, Futures!Tracks
  <2>1. ~Enters(s) /\ (Leaves(s) => s \in strat.queue)
    BY DEF Futures!Idle, Futures!Alive, Leaves, Enters, Waits, Exit, Entry, Of, Counts
  <2> QED BY <2>1 DEF FuturesInv, AllKnown, Known, Hedged, Futures!Hedged
<1>2. FuturesInv => Futures!TrackedIsHeld
  BY DEF FuturesInv, FuturesType, FuturesStates, Backed, Present, Futures!TrackedIsHeld
<1> QED BY <1>1, <1>2

LEMMA UnionSize ==
  ASSUME NEW S, NEW T, IsFiniteSet(S), IsFiniteSet(T)
  PROVE  /\ IsFiniteSet(S \cup T)
         /\ Cardinality(S \cup T) \in Nat /\ Cardinality(S) \in Nat /\ Cardinality(T) \in Nat
         /\ Cardinality(S \cup T) <= Cardinality(S) + Cardinality(T)
<1>1. IsFiniteSet(S \cap T)
  BY FS_Intersection
<1>2. /\ IsFiniteSet(S \cup T)
      /\ Cardinality(S \cup T) = Cardinality(S) + Cardinality(T) - Cardinality(S \cap T)
  BY FS_Union
<1>3. /\ Cardinality(S \cup T) \in Nat /\ Cardinality(S) \in Nat /\ Cardinality(T) \in Nat
      /\ Cardinality(S \cap T) \in Nat
  BY <1>1, <1>2, FS_CardinalityType
<1> QED BY <1>2, <1>3

\* The limit holds of what is tracked.
LimitInv == FuturesInv /\ Cardinality(Tracked) <= MaxConcurrent

LEMMA LimitStep ==
  ASSUME FuturesCopes, LimitInv, Futures!Next
  PROVE  LimitInv'
<1>1. /\ FuturesInv /\ FuturesInv'
      /\ Tracked' \subseteq Tracked \/ \E s \in Symbols : FuturesEnters(s)
      /\ IsFiniteSet(Symbols) /\ MaxConcurrent \in Nat
  BY FuturesStep, StrategiesAssumption DEF LimitInv
<1>2. /\ strat.open \subseteq Symbols /\ strat.exits \subseteq Symbols /\ strat.meta \subseteq Symbols
      /\ IsFiniteSet(Tracked) /\ Cardinality(Tracked) \in Nat
      /\ IsFiniteSet(strat.open) /\ IsFiniteSet(strat.exits) /\ IsFiniteSet(strat.meta)
  BY <1>1, FS_Subset, FS_CardinalityType DEF FuturesInv, FuturesType, FuturesStates, Tracked
<1>3. CASE Tracked' \subseteq Tracked
  <2>1. IsFiniteSet(Tracked') /\ Cardinality(Tracked') \in Nat /\ Cardinality(Tracked') <= Cardinality(Tracked)
    BY <1>2, <1>3, FS_Subset, FS_CardinalityType
  <2> QED BY <1>1, <1>2, <2>1 DEF LimitInv
<1>4. ASSUME NEW s \in Symbols, FuturesEnters(s) PROVE LimitInv'
  <2> DEFINE all == (strat.open \cup strat.exits) \cup strat.meta
  <2>1. Cardinality(strat.open) + Cardinality(strat.exits) + Cardinality(strat.meta) < MaxConcurrent
    BY <1>4, SameSize DEF FuturesEnters, Futures!Taken
  <2>2. /\ IsFiniteSet(all) /\ Cardinality(all) \in Nat
        /\ Cardinality(all) <= Cardinality(strat.open) + Cardinality(strat.exits) + Cardinality(strat.meta)
    <3>1. /\ IsFiniteSet(strat.open \cup strat.exits)
          /\ Cardinality(strat.open \cup strat.exits) <= Cardinality(strat.open) + Cardinality(strat.exits)
      BY <1>2, UnionSize
    <3>2. /\ IsFiniteSet(all)
          /\ Cardinality(all) <= Cardinality(strat.open \cup strat.exits) + Cardinality(strat.meta)
      BY <1>2, <3>1, UnionSize
    <3>3. /\ Cardinality(all) \in Nat /\ Cardinality(strat.open \cup strat.exits) \in Nat
          /\ Cardinality(strat.open) \in Nat /\ Cardinality(strat.exits) \in Nat
          /\ Cardinality(strat.meta) \in Nat
      BY <1>2, <3>1, <3>2, FS_CardinalityType
    <3> QED BY <3>1, <3>2, <3>3
  <2>3. IsFiniteSet(all \cup {s}) /\ Cardinality(all \cup {s}) <= Cardinality(all) + 1
    <3>1. IsFiniteSet({s}) /\ Cardinality({s}) = 1
      BY FS_Singleton
    <3> HIDE DEF all
    <3> QED BY <2>2, <3>1, UnionSize
  <2>4. Tracked' \subseteq all \cup {s}
    BY <1>4 DEF FuturesEnters, Held, Tracked
  <2>5. Cardinality(Tracked') \in Nat /\ Cardinality(Tracked') <= Cardinality(all \cup {s})
    BY <2>3, <2>4, FS_Subset, FS_CardinalityType
  <2> HIDE DEF all
  <2>6. Cardinality(Tracked') <= MaxConcurrent
    BY <1>1, <1>2, <2>1, <2>2, <2>3, <2>5, FS_CardinalityType
  <2> QED BY <1>1, <2>6 DEF LimitInv
<1> QED BY <1>1, <1>3, <1>4

LEMMA LimitBasis ==
  /\ Futures!Init => LimitInv
  /\ LimitInv /\ UNCHANGED liveVars => LimitInv'
  /\ LimitInv => Futures!WithinLimit
<1>1. Futures!Init => LimitInv
  BY FuturesStart, FS_EmptySet, StrategiesAssumption DEF LimitInv
<1>2. LimitInv /\ UNCHANGED liveVars => LimitInv'
  <2>1. UNCHANGED liveVars => Tracked' = Tracked
    BY DEF liveVars, Tracked
  <2> QED BY <2>1, FuturesStutter DEF LimitInv
<1>3. LimitInv => Futures!WithinLimit
  <2> DEFINE counted == {s \in Symbols : s \notin reported /\
                            (Futures!Hedged(s) \/ \E r \in Futures!Alive :
                               req[r].sym = s /\ Futures!IsEntry(r) /\ req[r].pc \notin {"new", "post"})}
  <2> SUFFICES ASSUME LimitInv PROVE Cardinality(counted) <= MaxConcurrent
    BY SameSize DEF Futures!WithinLimit
  <2>1. counted \subseteq Tracked
    <3>1. ASSUME NEW s \in counted PROVE s \in strat.open \/ Leaves(s) \/ Enters(s)
      <4>1. CASE Futures!Hedged(s)
        BY <3>1, <4>1 DEF LimitInv, FuturesInv, AllKnown, Known, Hedged, Futures!Hedged
      <4>2. CASE \E r \in Futures!Alive :
                    req[r].sym = s /\ Futures!IsEntry(r) /\ req[r].pc \notin {"new", "post"}
        BY <4>2, RequestShape DEF LimitInv, FuturesInv, Futures!Alive, Futures!IsEntry, Enters, Entry, Of, Counts
      <4> QED BY <3>1, <4>1, <4>2
    <3> QED BY <3>1 DEF LimitInv, FuturesInv, FuturesPlace, Tracked
  <2>2. IsFiniteSet(Tracked)
    BY StrategiesAssumption, FS_Subset DEF LimitInv, FuturesInv, FuturesType, FuturesStates, Tracked
  <2> HIDE DEF counted
  <2> QED BY <2>1, <2>2, StrategiesAssumption, FS_Subset, FS_CardinalityType DEF LimitInv
<1> QED BY <1>1, <1>2, <1>3

-----------------------------------------------------------------------------
(* The properties of live mode with any of the three.                      *)

\* The scene, and so what may go wrong in it, stays as it is.
LEMMA SceneStays ==
  ASSUME [StrategiesNext]_strategiesVars
  PROVE  /\ scene' = scene /\ (FuturesCopes' <=> FuturesCopes) /\ (FundingCopes' <=> FundingCopes)
         /\ (SpotCopes' <=> SpotCopes) /\ (Early' <=> Early)
         /\ \A name : Runs(name)' <=> Runs(name)
         /\ UNCHANGED liveVars \/ /\ Runs("futures") => Futures!Next
                                  /\ Runs("funding") => Funding!Next
                                  /\ Runs("spot") => Spot!Next
<1>1. scene' = scene
  BY DEF StrategiesNext, strategiesVars
<1> QED
  BY <1>1 DEF StrategiesNext, strategiesVars, Runs, FuturesCopes, FundingCopes, SpotCopes, Spared, Early

LEMMA SceneStarts ==
  ASSUME StrategiesInit
  PROVE  /\ Runs("futures") => Futures!Init
         /\ Runs("funding") => Funding!Init
         /\ Runs("spot") => Spot!Init
BY DEF StrategiesInit, Runs

\* With each of the strategies, whatever goes wrong but for what it is known
\* not to cope with, a pair the exchanges hold is tracked once nothing is on
\* its way for it, unless the operator was alerted: over refusals, rollbacks,
\* stranded legs, crashes and restarts.
THEOREM HeldAreTracked == StrategiesSpec => []HeldIsTracked
<1> DEFINE Inv == /\ Runs("futures") /\ FuturesCopes => FuturesInv
                  /\ Runs("funding") /\ FundingCopes => FundingInv
                  /\ Runs("spot") /\ SpotCopes => SpotInv
<1>1. StrategiesInit => Inv
  BY SceneStarts, FuturesStart, FundingBasis, SpotBasis
<1>2. Inv /\ [StrategiesNext]_strategiesVars => Inv'
  BY SceneStays, FuturesStep, FuturesStutter, FundingStep, FundingBasis, SpotStep, SpotBasis
<1>3. Inv => HeldIsTracked
  BY FuturesBasis, FundingBasis, SpotBasis DEF HeldIsTracked
<1> QED BY <1>1, <1>2, <1>3, PTL DEF StrategiesSpec

\* BUG-94 ("Ghost=0"): what futures-futures counts as a confirmed position is
\* held on one of the exchanges at least.
THEOREM TrackedAreHeld == StrategiesSpec => []TrackedIsHeld
<1> DEFINE Inv == Runs("futures") /\ FuturesCopes => FuturesInv
<1>1. StrategiesInit => Inv
  BY SceneStarts, FuturesStart
<1>2. Inv /\ [StrategiesNext]_strategiesVars => Inv'
  BY SceneStays, FuturesStep, FuturesStutter
<1>3. Inv => TrackedIsHeld
  BY FuturesBasis DEF TrackedIsHeld
<1> QED BY <1>1, <1>2, <1>3, PTL DEF StrategiesSpec

\* BUG-72, BUG-94, BUG-116: for any limit, the positions that are held, being
\* opened or being closed never exceed it, however they interleave.
THEOREM LimitHolds == StrategiesSpec => []WithinLimit
<1> DEFINE Inv == Runs("futures") /\ FuturesCopes => LimitInv
<1>1. StrategiesInit => Inv
  BY SceneStarts, LimitBasis
<1>2. Inv /\ [StrategiesNext]_strategiesVars => Inv'
  BY SceneStays, LimitStep, LimitBasis
<1>3. Inv => WithinLimit
  BY LimitBasis DEF WithinLimit
<1> QED BY <1>1, <1>2, <1>3, PTL DEF StrategiesSpec

\* US-239 ("a new entry would stack on top"): no entry is on its way for a
\* position that is being settled, however slow its exit is and whatever calls
\* fail, unless a settlement hour begins under an entry.
THEOREM NeverStacks == StrategiesSpec => []NoStacking
<1> DEFINE Inv == Runs("funding") /\ ~Early => NoStackingInv
<1>1. StrategiesInit => Inv
  BY SceneStarts, NoStackingBasis
<1>2. Inv /\ [StrategiesNext]_strategiesVars => Inv'
  BY SceneStays, NoStackingStep, NoStackingBasis
<1>3. Inv => NoStacking
  BY NoStackingBasis DEF NoStacking, Early
<1> QED BY <1>1, <1>2, <1>3, PTL DEF StrategiesSpec

\* BUG-91 ("skip already-queued"): with spot-futures one close of a position at
\* a time is on its way, whatever goes wrong.
THEOREM ClosesOnce == StrategiesSpec => []OneClose
<1> DEFINE Inv == Runs("spot") => OneCloseInv
<1>1. StrategiesInit => Inv
  BY SceneStarts, OneCloseBasis
<1>2. Inv /\ [StrategiesNext]_strategiesVars => Inv'
  BY SceneStays, OneCloseStep, OneCloseBasis
<1>3. Inv => OneClose
  BY OneCloseBasis DEF OneClose
<1> QED BY <1>1, <1>2, <1>3, PTL DEF StrategiesSpec
=============================================================================
