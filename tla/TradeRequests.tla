---------------------------- MODULE TradeRequests --------------------------
(***************************************************************************)
(* From a strategy to the executor: strategy_exit_poll_loop and other      *)
(* publishers, the event bus (Redis streams, infra/redis/event_bus.py, or  *)
(* the in-memory one, infra/redis/memory_bus.py) and TradeRequestConsumer  *)
(* (execution/trade_consumer.py), with the halt flag, an engine that       *)
(* stops or crashes and starts again, and acknowledgements that fail.      *)
(***************************************************************************)
EXTENDS Integers, Sequences, SequencesExt, FiniteSets

CONSTANTS
    Requests,    \* trade requests; each is published at most once
    Exits,       \* those of them whose legs are all reduceOnly
    TradeKey,    \* (symbols, exchanges) of a request
    Malformed,   \* those no TradeRequest or no orders can be made of
    Buses,       \* "redis" and/or "memory" (InMemoryEventBus)
    MaxLen,      \* the in-memory queue's maxsize
    BatchSize,   \* _BATCH_SIZE
    MaxHalts,    \* bound on halts
    MaxRestarts  \* bound on stops and crashes

ASSUME TradeRequestsAssumption ==
    /\ Exits \subseteq Requests /\ Malformed \subseteq Requests
    /\ Buses \subseteq {"redis", "memory"} /\ MaxLen \in Nat \ {0} /\ BatchSize \in Nat \ {0}
    /\ MaxHalts \in Nat /\ MaxRestarts \in Nat
    /\ DOMAIN TradeKey = Requests

VARIABLES
    bus,         \* the one the engine was started with
    unpublished, \* requests no strategy has made yet
    stream,      \* published, not delivered to the consumer group
    pending,     \* the group's pending entries list (Redis only)
    phase,       \* the consumer: "down", "poll", "process", "execute" or "ack"
    batch,       \* messages of the current batch; the first one is being handled
    recent,      \* _recent_trades: keys seen less than 10 s ago
    halted, halts, restarts,
    \* history
    published,   \* requests in the order of publication
    executed,    \* requests handed to the executor, in order
    fate         \* fate[r]: what has become of r

requestVars == <<bus, unpublished, stream, pending, phase, batch, recent, halted, halts,
          restarts, published, executed, fate>>

Fates == {"none", "dropped", "flushed", "blocked", "rejected",
          "executed", "halted", "broken"}

RequestsInit ==
    /\ bus \in Buses /\ unpublished = Requests /\ stream = <<>> /\ pending = {}
    /\ phase = "poll" /\ batch = <<>> /\ recent = {}
    /\ halted = FALSE /\ halts = 0 /\ restarts = 0
    /\ published = <<>> /\ executed = <<>> /\ fate = [r \in Requests |-> "none"]

-----------------------------------------------------------------------------
(* The bus.                                                                *)

InMemory == bus = "memory"

\* The in-memory queue drops its oldest message when it is full.
Push(r) ==
    IF InMemory /\ Len(stream) = MaxLen THEN Append(Tail(stream), r) ELSE Append(stream, r)

Publish(r) ==
    /\ r \in unpublished /\ unpublished' = unpublished \ {r}
    /\ stream' = Push(r)
    /\ published' = Append(published, r)
    /\ fate' = [q \in Requests |->
          IF q \in (ToSet(stream) \cup {r}) \ ToSet(stream') THEN "dropped" ELSE fate[q]]
    /\ UNCHANGED <<bus, pending, phase, batch, recent, halted, halts, restarts, executed>>

\* subscribe(">"): messages never delivered before, up to the batch size.
Taken == IF Len(stream) < BatchSize THEN Len(stream) ELSE BatchSize

Delivered_Reread == SetToSeq(pending) \o SubSeq(stream, 1, Taken)

Delivered == SubSeq(stream, 1, Taken)

-----------------------------------------------------------------------------
(* TradeRequestConsumer._consume_loop.                                     *)

\* While halted the loop sleeps.  Reading moves the batch to the pending list.
Poll ==
    /\ phase = "poll" /\ ~halted /\ Delivered # <<>>
    /\ batch' = Delivered /\ phase' = "process"
    /\ stream' = SubSeq(stream, Taken + 1, Len(stream))
    /\ pending' = IF InMemory THEN pending ELSE pending \cup ToSet(batch')
    /\ UNCHANGED <<bus, unpublished, recent, halted, halts, restarts, published,
                   executed, fate>>

NextMessage(rest) == batch' = rest /\ phase' = IF rest = <<>> THEN "poll" ELSE "process"

Collides(r) == r \notin Exits /\ TradeKey[r] \in recent

Note(r) == recent' = IF r \in Exits THEN recent ELSE recent \cup {TradeKey[r]}

Fate(r, f) == fate' = [fate EXCEPT ![r] = f]

\* The risk check and the size filters decide, or the conversion to orders
\* raises, which the loop catches: the rest of the batch is dropped.
Decide_Stops(r) ==
    \/ Fate(r, "rejected") /\ phase' = "ack" /\ UNCHANGED batch
    \/ r \in Malformed /\ Fate(r, "broken") /\ batch' = <<>> /\ phase' = "down"
    \/ r \notin Malformed /\ phase' = "execute" /\ UNCHANGED <<fate, batch>>

Decide(r) ==
    \/ Fate(r, "rejected") /\ phase' = "ack" /\ UNCHANGED batch
    \/ r \in Malformed /\ Fate(r, "broken") /\ NextMessage(<<>>)
    \/ r \notin Malformed /\ phase' = "execute" /\ UNCHANGED <<fate, batch>>

\* _process_message up to the executor, without a suspension: what is no trade
\* request is acknowledged; the collision window notes the key before the halt
\* flag is looked at.
Process ==
    LET r == Head(batch) IN
    /\ phase = "process"
    /\ \/ /\ r \in Malformed \/ Collides(r)
          /\ Fate(r, IF Collides(r) THEN "blocked" ELSE "rejected")
          /\ phase' = "ack" /\ UNCHANGED <<recent, batch>>
       \/ /\ ~Collides(r)
          /\ Note(r)
          /\ IF halted THEN Fate(r, "halted") /\ NextMessage(Tail(batch)) ELSE Decide(r)
    /\ UNCHANGED <<bus, unpublished, stream, pending, halted, halts, restarts, published,
                   executed>>

\* The executor is called and returns or raises; on_result is called.
Execute ==
    LET r == Head(batch) IN
    /\ phase = "execute" /\ phase' = "ack"
    /\ executed' = Append(executed, r)
    /\ Fate(r, "executed")
    /\ UNCHANGED <<bus, unpublished, stream, pending, batch, recent, halted, halts,
                   restarts, published>>

\* ack_message; its failure is logged and the entry stays pending.
Ack ==
    /\ phase = "ack"
    /\ pending' \in {pending, pending \ {Head(batch)}}
    /\ NextMessage(Tail(batch))
    /\ UNCHANGED <<bus, unpublished, stream, recent, halted, halts, restarts, published,
                   executed, fate>>

\* The process stops or crashes, and the next one prepares its bus before any
\* other task runs: a new in-memory queue, or the Redis stream, which it
\* deletes with its group; a failure of that is logged and leaves both.
Down ==
    /\ phase # "down" /\ restarts < MaxRestarts /\ restarts' = restarts + 1
    /\ phase' = "down" /\ batch' = <<>> /\ recent' = {} /\ halted' = FALSE
    /\ \/ /\ stream' = <<>> /\ pending' = {}
          /\ fate' = [r \in Requests |-> IF r \in ToSet(stream) THEN "flushed" ELSE fate[r]]
       \/ ~InMemory /\ UNCHANGED <<stream, pending, fate>>
    /\ UNCHANGED <<bus, unpublished, halts, published, executed>>

\* create_consumer_group and the loop; strategies may have published before.
Start ==
    /\ phase = "down" /\ restarts > 0 /\ phase' = "poll"
    /\ UNCHANGED <<bus, unpublished, stream, pending, batch, recent, halted, halts,
                   restarts, published, executed, fate>>

-----------------------------------------------------------------------------
(* The world.                                                              *)

Halt ==
    /\ ~halted /\ halts < MaxHalts /\ halts' = halts + 1 /\ halted' = TRUE
    /\ UNCHANGED <<bus, unpublished, stream, pending, phase, batch, recent, restarts,
                   published, executed, fate>>

Resume ==
    /\ halted /\ halted' = FALSE
    /\ UNCHANGED <<bus, unpublished, stream, pending, phase, batch, recent, halts,
                   restarts, published, executed, fate>>

\* Ten seconds have passed since the key was noted.
Expire(k) ==
    /\ k \in recent /\ recent' = recent \ {k}
    /\ UNCHANGED <<bus, unpublished, stream, pending, phase, batch, halted, halts,
                   restarts, published, executed, fate>>

-----------------------------------------------------------------------------
RequestsNext ==
    \/ \E r \in Requests : Publish(r)
    \/ Poll \/ Process \/ Execute \/ Ack \/ Down \/ Start \/ Halt \/ Resume
    \/ \E k \in recent : Expire(k)

RequestsSpec == RequestsInit /\ [][RequestsNext]_requestVars

-----------------------------------------------------------------------------
\* A request is handed to the executor at most once, and requests in the order
\* of their publication, whatever acknowledgements fail and however often the
\* consumer restarts: an exit never overtakes the entry published before it.
ExecutedInOrder ==
    \A i, j \in DOMAIN executed : i < j =>
        \E m, n \in DOMAIN published :
            m < n /\ published[m] = executed[i] /\ published[n] = executed[j]

\* Whatever a message raises, each published request is taken from the stream.
StreamDrains == \A r \in Requests : r \in ToSet(stream) ~> r \notin ToSet(stream)
=============================================================================
