---------------------------- MODULE PositionStore --------------------------
(***************************************************************************)
(* What the engine knows of its open positions, in three copies: the       *)
(* in-memory index of PositionManager (src/engine/src/risk/                *)
(* position_manager.py), the position_wal table and the Redis hashes that  *)
(* DualWriter keeps (infra/db/dual_write.py), and the net exposure per     *)
(* exchange and asset in Redis.  Fills reach it over a queue with one      *)
(* drain task, or as a task each (LiveMode, and a full queue).  A crash    *)
(* loses the memory; recover() rebuilds the hashes from the table.         *)
(***************************************************************************)
EXTENDS Integers, Sequences, SequencesExt, FiniteSets

CONSTANTS
    Keys,       \* (strategy, exchange, symbol)
    Accounts,   \* (exchange, base asset)
    AccountOf,  \* the account of a key
    Sign,       \* 1 for a long position of one unit, -1 for a short one
    Drain,      \* pm_drain_loop
    Tasks,      \* bound: tasks started by ensure_future at one time
    Paths,      \* how fills arrive: "queue" (listener) and/or "task" (LiveMode)
    QueueMax,   \* _pm_queue.maxsize
    MaxFills,   \* bound on fills
    MaxCrashes  \* bound on crashes

ASSUME PositionStoreAssumption ==
    /\ AccountOf \in [Keys -> Accounts] /\ Sign \in [Keys -> {-1, 1}]
    /\ Drain \notin Tasks /\ Paths \subseteq {"queue", "task"}
    /\ QueueMax \in Nat \ {0} /\ MaxFills \in Nat /\ MaxCrashes \in Nat

Workers == Tasks \cup {Drain}
Ops == [op : {"open", "close"}, key : Keys]

VARIABLES
    index,     \* PositionManager._positions: the key has a record
    wal,       \* position_wal: its rows, in the order they were inserted
    hash,      \* leviathan:position:<key>: the wal_id it carries, 0 for none
    exposure,  \* exposure:<account>
    queue,     \* _pm_queue
    work,      \* work[w]: the operation worker w runs, or Idle
    halted,    \* halt_local() was called since the process started
    fills, crashes,
    \* history
    held,      \* the fills so far leave the key open on the exchange
    tasked,    \* keys with a fill that was given a task of its own
    forgotten, \* keys whose open fill an earlier process saw
    acked,     \* acked[k]: last row of k whose insert was answered in time
    failed,    \* keys of an operation that ended in a logged exception
    recovered  \* recover() succeeded at the last restart

storeVars == <<index, wal, hash, exposure, queue, work, halted, fills, crashes,
          held, tasked, forgotten, acked, failed, recovered>>

Idle == [at |-> "idle"]
Working == [at : {"new", "pg", "redis", "get", "set", "del"}, op : Ops,
            row : Nat, read : Int]
Busy(k) == \E w \in Workers : work[w] # Idle /\ work[w].op.key = k

\* Nothing is queued and nothing runs.
Quiet == queue = <<>> /\ \A w \in Workers : work[w] = Idle

StoreInit ==
    /\ index = [k \in Keys |-> FALSE] /\ wal = <<>>
    /\ hash = [k \in Keys |-> 0] /\ exposure = [a \in Accounts |-> 0]
    /\ queue = <<>> /\ work = [w \in Workers |-> Idle]
    /\ halted = FALSE /\ fills = 0 /\ crashes = 0
    /\ held = [k \in Keys |-> FALSE] /\ tasked = {} /\ forgotten = {}
    /\ acked = [k \in Keys |-> 0] /\ failed = {} /\ recovered = FALSE

-----------------------------------------------------------------------------
(* A leg of a successful execution is filled: it opens or closes its key.  *)

Spawn(o) ==
    \E t \in Tasks :
        /\ work[t] = Idle
        /\ work' = [work EXCEPT ![t] = [at |-> "new", op |-> o, row |-> 0, read |-> 0]]
        /\ tasked' = tasked \cup {o.key}

Enqueue_Lifo(o) ==
    IF Len(queue) < QueueMax
    THEN queue' = <<o>> \o queue /\ UNCHANGED <<work, tasked>>
    ELSE Spawn(o) /\ UNCHANGED queue

\* put_nowait; a full queue falls back to a task of its own.
Enqueue(o) ==
    IF Len(queue) < QueueMax
    THEN queue' = Append(queue, o) /\ UNCHANGED <<work, tasked>>
    ELSE Spawn(o) /\ UNCHANGED queue

Fill(k) ==
    LET o == [op |-> IF held[k] THEN "close" ELSE "open", key |-> k] IN
    /\ fills < MaxFills /\ fills' = fills + 1
    /\ held' = [held EXCEPT ![k] = ~@]
    /\ forgotten' = forgotten \ {k}
    /\ \/ /\ "queue" \in Paths        \* update_index_sync, then the queue
          /\ index' = [index EXCEPT ![k] = ~held[k]]
          /\ Enqueue(o)
       \/ /\ "task" \in Paths         \* LiveMode
          /\ Spawn(o)
          /\ UNCHANGED <<index, queue>>
    /\ UNCHANGED <<wal, hash, exposure, halted, crashes, acked, failed, recovered>>

-----------------------------------------------------------------------------
(* open_position and close_position, a step per suspension.                *)

\* A close whose key has no record returns at once.
Begins(o) ==
    IF o.op = "close" /\ ~index[o.key] THEN Idle
    ELSE [at |-> "pg", op |-> o, row |-> 0, read |-> 0]

StartTask(w) ==
    /\ work[w] # Idle /\ work[w].at = "new"
    /\ work' = [work EXCEPT ![w] = Begins(@.op)]
    /\ UNCHANGED <<index, wal, hash, exposure, queue, halted, fills, crashes,
                   held, tasked, forgotten, acked, failed, recovered>>

\* pm_drain_loop takes the next operation when it is done with the last.
Take ==
    /\ queue # <<>> /\ work[Drain] = Idle
    /\ queue' = Tail(queue)
    /\ work' = [work EXCEPT ![Drain] = Begins(Head(queue))]
    /\ UNCHANGED <<index, wal, hash, exposure, halted, fills, crashes,
                   held, tasked, forgotten, acked, failed, recovered>>

\* The dual write is over, well or not: an open sets the record only now.
Written(w) ==
    /\ work' = [work EXCEPT ![w].at = "get"]
    /\ index' = IF work[w].op.op = "open"
                THEN [index EXCEPT ![work[w].op.key] = TRUE] ELSE index

InsertRow(w) == wal' = Append(wal, work[w].op)

\* Step 1: the row is in and answered; or it is not in; or it is in and the
\* answer comes after the timeout.  Without an answer Redis is not written.
Pg(w) ==
    /\ work[w] # Idle /\ work[w].at = "pg"
    /\ \/ /\ InsertRow(w)
          /\ work' = [work EXCEPT ![w].at = "redis", ![w].row = Len(wal) + 1]
          /\ acked' = [acked EXCEPT ![work[w].op.key] = Len(wal) + 1]
          /\ UNCHANGED index
       \/ /\ InsertRow(w) \/ UNCHANGED wal
          /\ Written(w) /\ UNCHANGED acked
    /\ UNCHANGED <<hash, exposure, queue, halted, fills, crashes, held, tasked, forgotten,
                   failed, recovered>>

Redis_NoHalt(w) ==
    /\ work[w] # Idle /\ work[w].at = "redis"
    /\ hash' \in {hash, [hash EXCEPT ![work[w].op.key] = work[w].row]}
    /\ UNCHANGED halted
    /\ Written(w)
    /\ UNCHANGED <<wal, exposure, queue, fills, crashes, held, tasked, forgotten, acked,
                   failed, recovered>>

\* Step 2: the hash is written; or the write fails or times out, applied or
\* not, and the engine halts.
Redis(w) ==
    /\ work[w] # Idle /\ work[w].at = "redis"
    /\ \/ /\ hash' = [hash EXCEPT ![work[w].op.key] = work[w].row]
          /\ UNCHANGED halted
       \/ /\ hash' \in {hash, [hash EXCEPT ![work[w].op.key] = work[w].row]}
          /\ halted' = TRUE
    /\ Written(w)
    /\ UNCHANGED <<wal, exposure, queue, fills, crashes, held, tasked, forgotten, acked,
                   failed, recovered>>

\* _update_redis_exposure: read ...
ReadExposure(w) ==
    /\ work[w] # Idle /\ work[w].at = "get"
    /\ work' = [work EXCEPT ![w].at = "set",
                            ![w].read = exposure[AccountOf[work[w].op.key]]]
    /\ UNCHANGED <<index, wal, hash, exposure, queue, halted, fills, crashes,
                   held, tasked, forgotten, acked, failed, recovered>>

Delta(o) == IF o.op = "open" THEN Sign[o.key] ELSE -Sign[o.key]

\* ... and write back.
WriteExposure(w) ==
    LET o == work[w].op IN
    /\ work[w] # Idle /\ work[w].at = "set"
    /\ exposure' = [exposure EXCEPT ![AccountOf[o.key]] = work[w].read + Delta(o)]
    /\ work' = [work EXCEPT ![w] = IF o.op = "open" THEN Idle ELSE [@ EXCEPT !.at = "del"]]
    /\ UNCHANGED <<index, wal, hash, queue, halted, fills, crashes, held, tasked, forgotten,
                   acked, failed, recovered>>

ExposureRaises_Retried(w) ==
    /\ work[w] # Idle /\ work[w].at \in {"get", "set"}
    /\ work' = [work EXCEPT ![w].at = "get", ![w].read = 0]
    /\ failed' = failed \cup {work[w].op.key}
    /\ UNCHANGED <<index, wal, hash, exposure, queue, halted, fills, crashes,
                   held, tasked, forgotten, acked, recovered>>

\* The exposure read or write raises: the operation ends there, the record of
\* a close stays.
ExposureRaises(w) ==
    /\ work[w] # Idle /\ work[w].at \in {"get", "set"}
    /\ work' = [work EXCEPT ![w] = Idle]
    /\ failed' = failed \cup {work[w].op.key}
    /\ UNCHANGED <<index, wal, hash, exposure, queue, halted, fills, crashes,
                   held, tasked, forgotten, acked, recovered>>

\* del self._positions[key]: a KeyError when it was popped meanwhile, which
\* the drain loop logs and survives.
Delete(w) ==
    LET k == work[w].op.key IN
    /\ work[w] # Idle /\ work[w].at = "del"
    /\ index' = [index EXCEPT ![k] = FALSE]
    /\ failed' = IF index[k] THEN failed ELSE failed \cup {k}
    /\ work' = [work EXCEPT ![w] = Idle]
    /\ UNCHANGED <<wal, hash, exposure, queue, halted, fills, crashes, held, tasked, forgotten,
                   acked, recovered>>

-----------------------------------------------------------------------------
(* Crash and restart.                                                      *)

RowsOf(k) == {i \in DOMAIN wal : wal[i].key = k}
Latest_Oldest(k) == CHOOSE i \in RowsOf(k) : \A j \in RowsOf(k) : i <= j
Latest(k) == CHOOSE i \in RowsOf(k) : \A j \in RowsOf(k) : j <= i
OpenInWal(k) == RowsOf(k) # {} /\ wal[Latest(k)].op = "open"

\* RecoveryManager.recover() at start, before any other task: the latest row of
\* each key, unless it is a CLOSE, goes to Redis.  It may fail as a whole.
Recovered == [k \in Keys |-> IF OpenInWal(k) THEN Latest(k) ELSE hash[k]]

StoreRestart ==
    /\ crashes < MaxCrashes /\ crashes' = crashes + 1
    /\ index' = [k \in Keys |-> FALSE]
    /\ queue' = <<>> /\ work' = [w \in Workers |-> Idle]
    /\ halted' = FALSE /\ failed' = {}
    /\ tasked' = {} /\ forgotten' = {k \in Keys : held[k]}
    /\ recovered' \in BOOLEAN
    /\ hash' = IF recovered' THEN Recovered ELSE hash
    /\ acked' = hash'
    /\ UNCHANGED <<wal, exposure, fills, held>>

-----------------------------------------------------------------------------
Run(w) ==
    \/ StartTask(w) \/ Pg(w) \/ Redis(w) \/ ReadExposure(w) \/ WriteExposure(w)
    \/ ExposureRaises(w) \/ Delete(w)

StoreNext ==
    \/ \E k \in Keys : Fill(k)
    \/ Take \/ StoreRestart
    \/ \E w \in Workers : Run(w)

\* Every database and Redis call is answered, fails or times out; a task that
\* can go on does; the drain loop takes what is queued.
StoreSpec == StoreInit /\ [][StoreNext]_storeVars /\ WF_storeVars(Take) /\ \A w \in Workers : WF_storeVars(Run(w))

-----------------------------------------------------------------------------
\* Every variable has its type.
StoreTypeOK ==
    /\ index \in [Keys -> BOOLEAN] /\ wal \in Seq(Ops)
    /\ hash \in [Keys -> 0..Len(wal)] /\ acked \in [Keys -> 0..Len(wal)]
    /\ exposure \in [Accounts -> Int]
    /\ queue \in Seq(Ops) /\ Len(queue) <= QueueMax
    /\ work \in [Workers -> Working \cup {Idle}]
    /\ halted \in BOOLEAN /\ fills \in 0..MaxFills /\ crashes \in 0..MaxCrashes
    /\ held \in [Keys -> BOOLEAN] /\ tasked \cup forgotten \subseteq Keys /\ failed \subseteq Keys
    /\ recovered \in BOOLEAN

\* The index is changed at the fill and again by the drained operation, later
\* fills of the key lying between: once nothing is queued or running it holds
\* exactly the keys this process saw opened and not closed, but for keys a task
\* wrote past the queue or on which an exception was logged.
IndexSettles ==
    Quiet =>
        \A k \in Keys \ (failed \cup tasked) : index[k] <=> held[k] /\ k \notin forgotten

\* The hash of a key that only the drain loop writes carries the last row the
\* database acknowledged for it, while nothing of the key is being written,
\* unless the engine was halted.
ShadowInStepOrHalted ==
    \A k \in Keys \ tasked : ~Busy(k) => hash[k] = acked[k] \/ halted

\* A restart whose recovery succeeds finds every position whose last row is
\* not a CLOSE in its hash, also when the row was inserted by a write that
\* timed out.
RecoverRestores ==
    [][crashes' # crashes /\ recovered' =>
        \A k \in Keys : RowsOf(k) # {} =>
            LET last == CHOOSE i \in RowsOf(k) : \A j \in RowsOf(k) : j <= i
            IN wal[last].op = "open" => hash'[k] = last]_storeVars

\* Whatever an operation runs into, the loop comes back for the next: every
\* queued operation is taken in the end.
QueueDrains == queue # <<>> ~> queue = <<>>
=============================================================================
