---------------------------- MODULE MCStrategies ---------------------------
(***************************************************************************)
(* A small instance of the strategies in live mode, and of the order book  *)
(* their signals come from: a behaviour is one of the scenes below, or the *)
(* feed, one symbol of Bithumb with two prices near one another and one    *)
(* far from both.                                                          *)
(*                                                                         *)
(*   futures-futures  two symbols, over restarts; one symbol, without      *)
(*   funding-rate     exits that take less than 120 s, or longer           *)
(*   spot-futures     adapters that list what is held                      *)
(***************************************************************************)
EXTENDS Strategies

CONSTANTS btc, eth

VARIABLES market, wire, socket, levels, mid, fresh, doing, carried, suspect, fakes,
          silenced, shown, spent

feedVars == <<market, wire, socket, levels, mid, fresh, doing, carried, suspect,
              fakes, silenced, shown, spent>>
vars == <<strategiesVars, feedVars>>

Scene(name, lots, what) == [strategy |-> name, room |-> lots, faults |-> what]
OneOfEach == [s \in Symbols |-> 1]
TwoOfOne == [s \in Symbols |-> IF s = btc THEN 2 ELSE 0]
MCScenes ==
    {Scene("futures", OneOfEach, {"crash", "reenters"}), Scene("futures", TwoOfOne, {"reenters"}),
     Scene("funding", TwoOfOne, {}), Scene("funding", TwoOfOne, {"slow"}),
     Scene("spot", TwoOfOne, {})}
Quotes == Scene("feed", TwoOfOne, {})

Feed == INSTANCE MarketFeed WITH Prices <- {10, 12, 30}, FakeThreshold <- 2,
    MaxMoves <- 1, MaxFakes <- 1, MaxDrops <- 1, MaxWire <- 2

\* The strategies leave the feed alone.
Still == Feed!FeedInit /\ market = {10, 12}
\* What of the feed is to go on: the one ends before the other begins.
Lasting == {"snapshot", "resync"}
Feeds(Act) == Runs("feed") /\ Act /\ UNCHANGED <<scene, liveVars>>

Init == Still /\ (StrategiesInit \/ (scene = Quotes /\ Spot!Init))

Next ==
    \/ StrategiesNext /\ UNCHANGED feedVars
    \/ Feeds(Feed!FeedNext)

-----------------------------------------------------------------------------
\* The fairness of the scenes in which a position is to be closed, and of the
\* feed, put together action by action, as only one of them goes on.
Closing == scene.faults \cap {"crash", "slow"} = {}
Fair(futures, funding, spot, feed) ==
    \/ /\ Closing /\ UNCHANGED <<scene, feedVars>>
       /\ \/ Runs("futures") /\ futures
          \/ Runs("funding") /\ funding
          \/ Runs("spot") /\ spot
    \/ Feeds(feed)

Asks ==
    Fair(\E d \in SUBSET {btc} : btc \in d /\ Futures!Monitor({}, {}, d),
         Funding!HourBegins, \E d \in SUBSET Spot!Expirable : Spot!Queue(d),
         \E a \in Lasting : Feed!Serve(a))
Seen == Fair(FALSE, Funding!Filter \/ Funding!SignalExit(btc), FALSE, Feed!Age)
Cooled == Fair(FALSE, Funding!CooldownEnds, FALSE, Feed!Resync)
Pops == Fair(Futures!PopExits, Funding!PopExits, Spot!PopExits, FALSE)
Checks ==
    Fair(Futures!SendExit(btc) \/ Futures!DropGhost(btc),
         Funding!SendExit(btc) \/ Funding!DropGhost(btc),
         Spot!SendExit(btc) \/ Spot!DropGhost(btc), FALSE)
Admits(r) ==
    Fair(Futures!Admit(r), Funding!Admit(r), Spot!Admit(r),
         \E a \in Lasting : Feed!Returns(a))
Settles(r) == Fair(Futures!Settle(r), Funding!Settle(r), Spot!Settle(r), FALSE)
Answers(r) ==
    Fair(\E a \in Futures!Answers : Futures!Execute(r, a),
         \E a \in Funding!Answers : Funding!Execute(r, a),
         \E a \in Spot!Answers : Spot!Execute(r, a), FALSE)
Succeeds(r) ==
    Fair(Futures!Execute(r, "SUCCESS"), Funding!Execute(r, "SUCCESS"),
         Spot!Execute(r, "SUCCESS"), \E a \in Lasting : Feed!Dispatch(a))
Expires == Fair(Futures!Expire, Funding!Expire, Spot!Expire, FALSE)

\* Loops, timers and tasks go on; positions get old and hours begin; no gate
\* refuses and no executor fails for ever.  Of the feed only the first
\* snapshot and then the stale watch go on, and neither REST nor live mode
\* refuses for ever.
Spec ==
    /\ Init /\ [][Next]_vars
    /\ SF_vars(Asks) /\ WF_vars(Seen) /\ WF_vars(Cooled) /\ WF_vars(Pops)
    /\ WF_vars(Checks) /\ WF_vars(Expires)
    /\ \A r \in {1, 2} :
           /\ SF_vars(Admits(r)) /\ WF_vars(Settles(r))
           /\ WF_vars(Answers(r)) /\ SF_vars(Succeeds(r))

-----------------------------------------------------------------------------
\* A held position is closed in the end, whatever was refused or rolled back
\* before, unless the operator was alerted to the symbol.
Kept == long[btc] > 0 /\ short[btc] > 0 /\ btc \notin reported
EventuallyClosed == ~Runs("feed") /\ Closing /\ Kept ~> ~Kept

\* Once Bithumb's book no longer changes, the collector's book and live mode's
\* /KRW book end up the same: a bounded number of changes is made.
SettlesOnMarket == Runs("feed") => Feed!SettlesOnMarket
=============================================================================
