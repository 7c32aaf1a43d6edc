----------------------------- MODULE MarketFeed -----------------------------
(***************************************************************************)
(* One symbol's order book on its way from Bithumb to live mode:           *)
(* BithumbCollector (the accumulated book, the price guard with its        *)
(* two-step verification and blacklist, the stale watch), the connection   *)
(* of BaseCollector, and LiveMode._on_orderbook up to the book it stores.  *)
(*                                                                         *)
(* Live mode keeps a second book of the symbol, converted to USDT, which   *)
(* takes every delivery as a delta; it is not modelled.                    *)
(*                                                                         *)
(* The exchange is external: it streams its changes to whoever listens,    *)
(* may stream a price it never had (the guard's "corrupt" delta), forgets  *)
(* what a dropped connection missed, and answers a REST request with the   *)
(* book of some moment while it was in flight.  Of the two sides of a book *)
(* the model keeps one, as a set of prices; its best price stands for the  *)
(* mid price.  Times are choices: a symbol may become stale at any moment. *)
(*                                                                         *)
(* A book is delivered by one of four activities: the first snapshot, the  *)
(* resync of the stale watch, the refresh that ends a verification, and    *)
(* the listener of the stream.  Each awaits live mode's callback, which    *)
(* yields before it stores the KRW book: deliveries overtake one another.  *)
(***************************************************************************)
EXTENDS Integers, Sequences, FiniteSetsExt

CONSTANTS
    Prices,        \* Prices a level may have: numbers above 0.
    FakeThreshold, \* _FAKE_BLACKLIST_THRESHOLD: 3.
    MaxMoves,      \* Bound: changes of the exchange's book.
    MaxFakes,      \* Bound: corrupt messages.
    MaxDrops,      \* Bound: connections lost.
    MaxWire        \* Bound: messages of the stream not yet received.

VARIABLES
    market,   \* The exchange's own book.
    wire,     \* Messages of the stream that have not been received.
    socket,   \* The stream is connected and subscribed.
    levels,   \* _books[symbol] of the collector.
    mid,      \* _last_valid_mid[symbol]; 0 when there is none.
    fresh,    \* _last_update[symbol] is within the threshold.
    doing,    \* What each activity is doing.
    carried,  \* The book it carries; NoBook while it has none.
    suspect,  \* last_mid of the verification.
    fakes,    \* _fake_confirm_count[symbol].
    silenced, \* _fake_blacklist_expiry[symbol] lies ahead.
    shown,    \* Live mode's book of the /KRW symbol.
    spent     \* Moves, fakes and drops so far.

feedVars == <<market, wire, socket, levels, mid, fresh, doing, carried, suspect,
              fakes, silenced, shown, spent>>
exchangeVars == <<market, wire, socket, spent>>
guardVars == <<mid, suspect, fakes, silenced>>

NoBook == {0}  \* No price is 0.
Fetchers == {"snapshot", "resync", "verify"}
Activities == Fetchers \cup {"stream"}

Best(b) == Max(b)
\* The price guard: more than half away from the last valid one.
Far(price, last) == 2 * (IF price > last THEN price - last ELSE last - price) > last

\* __init__, and start() up to the first request.
FeedInit ==
    /\ market \in SUBSET Prices \ {{}} /\ wire = <<>> /\ socket = FALSE
    /\ levels = {} /\ mid = 0 /\ fresh = FALSE
    /\ doing = [a \in Activities |-> IF a = "snapshot" THEN "fetching" ELSE "idle"]
    /\ carried = [a \in Activities |-> NoBook]
    /\ suspect = 0 /\ fakes = 0 /\ silenced = FALSE
    /\ shown = {}
    /\ spent = [moves |-> 0, fakes |-> 0, drops |-> 0]

Goto(a, where, b) ==
    /\ doing' = [doing EXCEPT ![a] = where]
    /\ carried' = [carried EXCEPT ![a] = b]

Spend(what, bound) ==
    /\ spent[what] < bound
    /\ spent' = [spent EXCEPT ![what] = @ + 1]

-----------------------------------------------------------------------------
\* The exchange: a level appears or goes; whoever is subscribed is told.
Told(price, on) ==
    /\ socket => Len(wire) < MaxWire
    /\ wire' = IF socket THEN Append(wire, [price |-> price, on |-> on]) ELSE wire

Move(price) ==
    /\ Spend("moves", MaxMoves)
    /\ market' = IF price \in market THEN market \ {price} ELSE market \cup {price}
    /\ Told(price, price \notin market)
    /\ UNCHANGED <<socket, levels, fresh, doing, carried, guardVars, shown>>

\* A corrupt message: a level the exchange does not have.
Fake(price) ==
    /\ socket /\ price \notin market
    /\ Spend("fakes", MaxFakes)
    /\ Told(price, TRUE)
    /\ UNCHANGED <<market, socket, levels, fresh, doing, carried, guardVars, shown>>

\* The connection is lost: what had not been received is not sent again, and
\* the accumulated book stays.  That a connection is dead without closing is
\* never found out, as neither pings nor silence are timed (BUG-69).
Disconnect ==
    /\ socket /\ Spend("drops", MaxDrops)
    /\ socket' = FALSE /\ wire' = <<>>
    /\ UNCHANGED <<market, levels, fresh, doing, carried, guardVars, shown>>

\* start() connects after the snapshots, and again after every loss.
Connect ==
    /\ ~socket /\ doing["snapshot"] = "idle" /\ doing["stream"] = "idle"
    /\ socket' = TRUE
    /\ UNCHANGED <<market, wire, levels, fresh, doing, carried, guardVars, shown, spent>>

-----------------------------------------------------------------------------
\* _parse_message: the change goes into the book whatever the guard then says.
Changed(d) == IF d.on THEN levels \cup {d.price} ELSE levels \ {d.price}
Plausible(b) == b # {} /\ mid # 0 => ~Far(Best(b), mid)

Receive ==
    /\ wire # <<>> /\ doing["stream"] = "idle"
    /\ wire' = Tail(wire)
    /\ levels' = Changed(Head(wire))

\* _handle_message hands the book to live mode.
Accept ==
    /\ Receive /\ Plausible(levels')
    /\ mid' = IF levels' = {} THEN mid ELSE Best(levels')
    /\ fresh' = TRUE
    /\ Goto("stream", "delivering", levels')
    /\ UNCHANGED <<market, socket, spent, suspect, fakes, silenced, shown>>

\* The guard: a blacklisted symbol is silently refused, any other verified
\* once at a time (BUG-70).
Refuse ==
    /\ Receive /\ ~Plausible(levels')
    /\ IF silenced \/ doing["verify"] # "idle"
       THEN UNCHANGED <<doing, carried, suspect>>
       ELSE Goto("verify", "checking", NoBook) /\ suspect' = mid
    /\ UNCHANGED <<market, socket, spent, fresh, mid, fakes, silenced, shown>>

\* The ten minutes of the blacklist pass.
BlacklistEnds ==
    /\ silenced /\ silenced' = FALSE
    /\ UNCHANGED <<exchangeVars, levels, fresh, doing, carried, mid, suspect, fakes, shown>>

-----------------------------------------------------------------------------
\* The exchange answers a REST request.
Serve(a) ==
    /\ doing[a] \in {"fetching", "checking"} /\ carried[a] = NoBook
    /\ carried' = [carried EXCEPT ![a] = market]
    /\ UNCHANGED <<exchangeVars, levels, fresh, doing, guardVars, shown>>

Answered(a) == carried[a] \notin {NoBook, {}}

\* _two_step_verify: the REST price tells a move from a corrupt message, and
\* either way the book is fetched anew.
Verified ==
    /\ doing["verify"] = "checking" /\ Answered("verify")
    /\ mid' = Best(carried["verify"])
    /\ IF Far(Best(carried["verify"]), suspect)
       THEN fakes' = 0 /\ silenced' = FALSE
       ELSE /\ fakes' = Min({fakes + 1, FakeThreshold})
            /\ silenced' = (silenced \/ fakes + 1 >= FakeThreshold)
    /\ Goto("verify", "fetching", NoBook)
    /\ UNCHANGED <<exchangeVars, levels, fresh, suspect, shown>>

\* refresh_symbols and _fetch_initial_snapshots: the answer replaces the book.
\* Only the first snapshot counts as an update, and as a valid price, no
\* sooner than live mode has it.
Fetched_Merges(a) ==
    /\ doing[a] = "fetching" /\ Answered(a)
    /\ levels' = levels \cup carried[a]
    /\ fresh' = (fresh \/ a # "snapshot")
    /\ Goto(a, "delivering", levels \cup carried[a])
    /\ UNCHANGED <<exchangeVars, guardVars, shown>>
Fetched(a) ==
    /\ doing[a] = "fetching" /\ Answered(a)
    /\ levels' = carried[a]
    /\ fresh' = (fresh \/ a # "snapshot")
    /\ Goto(a, "delivering", carried[a])
    /\ UNCHANGED <<exchangeVars, guardVars, shown>>

\* No answer, an error, an empty side, or prices that make no sense.
FetchFails(a) ==
    /\ doing[a] \in {"fetching", "checking"}
    /\ Goto(a, "idle", NoBook)
    /\ UNCHANGED <<exchangeVars, levels, fresh, guardVars, shown>>

\* The answer is used, or has an empty side.
Returns(a) == Fetched(a) \/ (carried[a] = {} /\ FetchFails(a))

\* _stale_watch_loop
Age ==
    /\ fresh /\ fresh' = FALSE
    /\ UNCHANGED <<exchangeVars, levels, doing, carried, guardVars, shown>>

Resync ==
    /\ doing["snapshot"] = "idle" /\ doing["resync"] = "idle" /\ ~fresh
    /\ Goto("resync", "fetching", NoBook)
    /\ UNCHANGED <<exchangeVars, levels, fresh, guardVars, shown>>

-----------------------------------------------------------------------------
\* What the activity does once live mode's callback is back.
Done(a) ==
    /\ doing[a] = "delivering"
    /\ Goto(a, "idle", NoBook)
    /\ fresh' = (fresh \/ a = "snapshot")
    /\ mid' = IF a = "snapshot" THEN Best(carried[a]) ELSE mid
    /\ UNCHANGED <<exchangeVars, levels, suspect, fakes, silenced>>

\* _on_orderbook, BUG-209: the KRW book is a snapshot of what was delivered.
Dispatch(a) == Done(a) /\ shown' = carried[a]

\* Without a KRW rate, by the data quality check, in the warm-up and by an
\* exception the callback ends before.
Reject(a) == Done(a) /\ UNCHANGED shown

FeedNext ==
    \/ \E p \in Prices : Move(p) \/ Fake(p)
    \/ Disconnect \/ Connect
    \/ Accept \/ Refuse \/ BlacklistEnds
    \/ \E a \in Fetchers : Serve(a) \/ Fetched(a) \/ FetchFails(a)
    \/ Verified \/ Age \/ Resync
    \/ \E a \in Activities : Dispatch(a) \/ Reject(a)

-----------------------------------------------------------------------------
\* Once the exchange's book no longer changes, the collector's book and the
\* /KRW book of live mode end up the same, whatever was lost, corrupt, refused
\* or overtaken before, and whether or not the stream ever comes back: the
\* stale watch is enough.  A side without levels is not fetched.
SettlesOnMarket == <>[](market # {} => levels = market /\ shown = market)
=============================================================================
