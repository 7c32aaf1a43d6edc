---------------------- MODULE ExchangeAdmission_proofs ---------------------
(***************************************************************************)
(* What an execution has of its exchanges while it is in flight, whatever  *)
(* the executions: its locks, which implement ExchangeAdmission, as every  *)
(* lock step (AtomicExecutor_proofs) is a step of the abstract             *)
(* specification or none under the mapping of AtomicExecutor; and its      *)
(* margin, which the MarginTracker holds in one entry per execution.       *)
(***************************************************************************)
EXTENDS AtomicExecutor_proofs, CollectionLemmas

-----------------------------------------------------------------------------
(* The invariant.  LockInv says that a task in a queue still waits for     *)
(* that lock; the mapping needs the converse as well.                      *)

\* An execution suspended in acquire() has each of its locks or is queued
\* for it.
GotOrQueued ==
  \A e \in Executions : \A x \in Venues(e) :
      pc[e] = "locking" =>
          x \in got[e] \/ \E i \in 1..Len(queue[x]) : queue[x][i] = e

AdmissionInv == LockInv /\ GotOrQueued

\* A move inside the try block or a return does not concern who waits.
LEMMA HolderKeepsQueued ==
  ASSUME LockType, AdmissionInv, NEW e \in Executions, Holds(e),
         \/ \E where \in InTry : Goto(e, where)
         \/ \E r \in Statuses : Leave(e, r)
  PROVE  GotOrQueued'
<1>1. /\ UNCHANGED queue
      /\ \A f \in Executions \ {e} : pc'[f] = pc[f] /\ got'[f] = got[f]
      /\ pc'[e] # "locking"
  BY InTryPcs DEF Goto, Leave, resources, LockType
<1> QED BY <1>1 DEF AdmissionInv, GotOrQueued

\* A start asks for every lock or for none.
LEMMA StartKeepsQueued ==
  ASSUME LockType, AdmissionInv, NEW e \in Executions, Reject(e) \/ Enqueue(e)
  PROVE  GotOrQueued'
<1>1. CASE Reject(e)
  <2>1. /\ UNCHANGED <<queue, got>>
        /\ \A f \in Executions : pc'[f] = "locking" => pc[f] = "locking"
    BY <1>1 DEF Reject, LockType
  <2> QED BY <2>1 DEF AdmissionInv, GotOrQueued
<1>2. CASE Enqueue(e)
  <2>1. /\ UNCHANGED got
        /\ \A f \in Executions \ {e} : pc'[f] = pc[f]
        /\ \A x \in Exchanges : queue'[x] = IF x \in Venues(e) THEN Append(queue[x], e)
                                            ELSE queue[x]
    BY <1>2 DEF Enqueue, LockType
  <2>2. \A x \in Exchanges : \A i \in 1..Len(queue[x]) :
            i \in 1..Len(queue'[x]) /\ queue'[x][i] = queue[x][i]
    <3> TAKE x \in Exchanges
    <3>1. queue[x] \in Seq(Executions)
      BY DEF LockType
    <3>2. CASE x \in Venues(e)
      <4>1. queue'[x] = Append(queue[x], e)
        BY <2>1, <3>2
      <4> QED BY <3>1, <4>1
    <3>3. CASE x \notin Venues(e)
      BY <2>1, <3>3
    <3> QED BY <3>2, <3>3
  <2>3. \A x \in Venues(e) : \E i \in 1..Len(queue'[x]) : queue'[x][i] = e
    <3> TAKE x \in Venues(e)
    <3>1. x \in Exchanges
      BY VenuesType
    <3>2. queue'[x] = Append(queue[x], e) /\ queue[x] \in Seq(Executions)
      BY <2>1, <3>1 DEF LockType
    <3>3. Len(queue'[x]) \in 1..Len(queue'[x]) /\ queue'[x][Len(queue'[x])] = e
      BY <3>2
    <3> QED BY <3>3
  <2>4. \A f \in Executions : Venues(f) \subseteq Exchanges
    BY VenuesType
  <2> QED BY <2>1, <2>2, <2>3, <2>4 DEF AdmissionInv, GotOrQueued
<1> QED BY <1>1, <1>2

\* The head of a queue leaves it for the holders of the lock.
LEMMA GrantKeepsQueued ==
  ASSUME LockType, AdmissionInv, NEW x \in Exchanges, Grant(x)
  PROVE  GotOrQueued'
<1> SUFFICES ASSUME NEW f \in Executions, NEW y \in Venues(f), pc'[f] = "locking",
                    y \notin got'[f]
             PROVE  \E i \in 1..Len(queue'[y]) : queue'[y][i] = f
  BY DEF GotOrQueued
<1> DEFINE h == Head(queue[x])
<1>1. /\ queue[x] # <<>>
      /\ got' = [got EXCEPT ![h] = got[h] \cup {x}]
      /\ queue' = [queue EXCEPT ![x] = Tail(queue[x])]
      /\ UNCHANGED pc
  BY DEF Grant
<1>2. y \in Exchanges
  BY VenuesType
<1>3. /\ queue[x] \in Seq(Executions) /\ Len(queue[x]) \in Nat /\ Len(queue[x]) > 0
      /\ h = queue[x][1] /\ h \in Executions
      /\ Len(Tail(queue[x])) = Len(queue[x]) - 1
      /\ \A i \in 1..(Len(queue[x]) - 1) : Tail(queue[x])[i] = queue[x][i + 1]
  BY <1>1 DEF LockType
<1> HIDE DEF h
<1>4. y \notin got[f] /\ (y = x => f # h)
  BY <1>1, <1>3 DEF LockType
<1>5. PICK i \in 1..Len(queue[y]) : queue[y][i] = f
  BY <1>1, <1>4 DEF AdmissionInv, GotOrQueued
<1>6. CASE y # x
  BY <1>1, <1>2, <1>5, <1>6 DEF LockType
<1>7. CASE y = x
  <2>1. i # 1
    BY <1>3, <1>4, <1>5, <1>7
  <2>2. i - 1 \in 1..Len(Tail(queue[x])) /\ Tail(queue[x])[i - 1] = f
    BY <1>3, <1>5, <1>7, <2>1
  <2>3. queue'[y] = Tail(queue[x])
    BY <1>1, <1>7 DEF LockType
  <2> QED BY <2>2, <2>3
<1> QED BY <1>6, <1>7

\* The invariant holds initially and every lock step preserves it.
LEMMA AdmissionInvStep ==
  ASSUME LockType, AdmissionInv, LockStep
  PROVE  AdmissionInv'
<1>1. CASE UNCHANGED <<pc, locked, queue, got>>
  <2>1. QueuedWait' /\ QueuedOnce' /\ OneOwner' /\ OwnsInTry'
    BY <1>1 DEF AdmissionInv, LockInv, QueuedWait, QueuedOnce, OneOwner, OwnsInTry, Owns
  <2>2. GotOrQueued'
    BY <1>1 DEF AdmissionInv, GotOrQueued
  <2> QED BY <2>1, <2>2 DEF AdmissionInv, LockInv
<1>2. ASSUME NEW e \in Executions, pc[e] = "idle", Reject(e) \/ Enqueue(e)
      PROVE  AdmissionInv'
  BY <1>2, RejectKeepsLocks, EnqueueKeepsLocks, StartKeepsQueued DEF AdmissionInv
<1>3. ASSUME NEW e \in Executions, Holds(e), NEW where \in InTry, Goto(e, where)
      PROVE  AdmissionInv'
  BY <1>3, GotoKeepsLocks, HolderKeepsQueued DEF AdmissionInv
<1>4. ASSUME NEW e \in Executions, Holds(e), NEW r \in Statuses, Leave(e, r)
      PROVE  AdmissionInv'
  BY <1>4, LeaveKeepsLocks, HolderKeepsQueued DEF AdmissionInv
<1>5. ASSUME NEW x \in Exchanges, Grant(x) PROVE AdmissionInv'
  BY <1>5, GrantKeepsLocks, GrantKeepsQueued DEF AdmissionInv
<1> QED BY <1>1, <1>2, <1>3, <1>4, <1>5 DEF LockStep

-----------------------------------------------------------------------------
(* The mapping, step by step.                                              *)

\* Whoever is ahead of e holds a lock e is queued for, or is queued before e.
LEMMA AheadUnchanged ==
  ASSUME UNCHANGED <<queue, got>>, NEW e \in Executions
  PROVE  Ahead(e)' = Ahead(e)
  BY DEF Ahead

\* The phase of an execution is a matter of its program counter and its locks.
LEMMA PhaseUnchanged ==
  ASSUME UNCHANGED <<pc, got>>, NEW e \in Executions
  PROVE  Phase(e)' = Phase(e)
  BY DEF Phase, Owns

\* A holder of its exchanges is inside, and inside it has nobody ahead.
LEMMA HolderInside ==
  ASSUME LockType, AdmissionInv, NEW e \in Executions, Holds(e)
  PROVE  Phase(e) = "inside" /\ Ahead(e) = {} /\ got[e] = Venues(e)
<1>1. Phase(e) = "inside"
  BY InTryPcs DEF Holds, Phase
<1>2. Ahead(e) = {}
  BY HolderNotQueued DEF AdmissionInv, Ahead
<1>3. got[e] = Venues(e)
  BY DEF Holds, AdmissionInv, LockInv, OwnsInTry, Owns
<1> QED BY <1>1, <1>2, <1>3

\* A start that gives up is turned away.
LEMMA RejectMaps ==
  ASSUME LockType, AdmissionInv, NEW e \in Executions, pc[e] = "idle", Reject(e)
  PROVE  Admission!TurnAway(e)
<1>1. UNCHANGED <<queue, got>> /\ pc' = [pc EXCEPT ![e] = "done"]
  BY DEF Reject
<1>2. \A f \in Executions : Ahead(f)' = Ahead(f)
  BY <1>1, AheadUnchanged
<1>3. \A f \in Executions : Phase(f)' = IF f = e THEN "returned" ELSE Phase(f)
  BY <1>1 DEF Phase, Owns, LockType
<1>4. Phase(e) = "out"
  BY DEF Phase
<1> QED BY <1>2, <1>3, <1>4 DEF Admission!TurnAway

\* A start that asks for its locks waits for exactly its rivals: each of them
\* has a lock it asks for or is queued for it, and nobody else is.
LEMMA EnqueueMaps ==
  ASSUME LockType, AdmissionInv, NEW e \in Executions, pc[e] = "idle", Enqueue(e)
  PROVE  Admission!Ask(e)
<1>1. /\ UNCHANGED got
      /\ pc' = [pc EXCEPT ![e] = "locking"]
      /\ \A x \in Exchanges : queue'[x] = IF x \in Venues(e) THEN Append(queue[x], e)
                                          ELSE queue[x]
  BY DEF Enqueue, LockType
<1>2. got[e] = {} /\ Phase(e) = "out"
  BY DEF AdmissionInv, LockInv, OwnsInTry, Phase
<1>3. \A x \in Exchanges : \A i \in 1..Len(queue[x]) :
          queue[x][i] # e /\ queue[x][i] \in Executions
  BY DEF LockType, AdmissionInv, LockInv, QueuedWait
<1>4. ASSUME NEW x \in Exchanges
      PROVE  /\ Len(queue[x]) \in Nat
             /\ Len(queue'[x]) = IF x \in Venues(e) THEN Len(queue[x]) + 1 ELSE Len(queue[x])
             /\ x \in Venues(e) => queue'[x][Len(queue[x]) + 1] = e
             /\ \A i \in 1..Len(queue[x]) : queue'[x][i] = queue[x][i]
  <2>1. queue[x] \in Seq(Executions)
    BY DEF LockType
  <2>2. CASE x \in Venues(e)
    <3>1. queue'[x] = Append(queue[x], e)
      BY <1>1, <2>2
    <3> QED BY <2>1, <2>2, <3>1
  <2>3. CASE x \notin Venues(e)
    BY <1>1, <2>1, <2>3
  <2> QED BY <2>2, <2>3
<1>5. \A f \in Executions : Phase(f)' = IF f = e THEN "waiting" ELSE Phase(f)
  <2>1. Venues(e) # {}
    BY DEF Venues, Legs
  <2> QED BY <1>1, <1>2, <2>1 DEF Phase, Owns, LockType
<1>6. ASSUME NEW g \in Executions, g # e
      PROVE  Ahead(g)' = Ahead(g)
  <2>1. ASSUME NEW x \in Exchanges, NEW j \in 1..Len(queue'[x]), queue'[x][j] = g
        PROVE  j \in 1..Len(queue[x])
    BY <1>4, <1>6, <2>1
  <2>2. ASSUME NEW f \in Executions, f \in Ahead(g)
        PROVE  f \in Ahead(g)'
    <3>1. PICK x \in Exchanges : \E j \in 1..Len(queue[x]) :
              /\ queue[x][j] = g
              /\ x \in got[f] \/ \E i \in 1..(j - 1) : queue[x][i] = f
      BY <2>2 DEF Ahead
    <3>2. PICK j \in 1..Len(queue[x]) :
              /\ queue[x][j] = g
              /\ x \in got[f] \/ \E i \in 1..(j - 1) : queue[x][i] = f
      BY <3>1
    <3>3. /\ Len(queue[x]) \in Nat
          /\ Len(queue'[x]) = IF x \in Venues(e) THEN Len(queue[x]) + 1 ELSE Len(queue[x])
          /\ \A i \in 1..Len(queue[x]) : queue'[x][i] = queue[x][i]
      BY <1>4
    <3>4. j \in 1..Len(queue'[x]) /\ queue'[x][j] = g
      BY <3>2, <3>3
    <3>5. x \in got'[f] \/ \E i \in 1..(j - 1) : queue'[x][i] = f
      BY <1>1, <3>2, <3>3
    <3> QED BY <2>2, <3>4, <3>5 DEF Ahead
  <2>3. ASSUME NEW f \in Executions, f \in Ahead(g)'
        PROVE  f \in Ahead(g)
    <3>1. PICK x \in Exchanges : \E j \in 1..Len(queue'[x]) :
              /\ queue'[x][j] = g
              /\ x \in got'[f] \/ \E i \in 1..(j - 1) : queue'[x][i] = f
      BY <2>3 DEF Ahead
    <3>2. PICK j \in 1..Len(queue'[x]) :
              /\ queue'[x][j] = g
              /\ x \in got'[f] \/ \E i \in 1..(j - 1) : queue'[x][i] = f
      BY <3>1
    <3>3. Len(queue[x]) \in Nat /\ \A i \in 1..Len(queue[x]) : queue'[x][i] = queue[x][i]
      BY <1>4
    <3>4. j \in 1..Len(queue[x]) /\ queue[x][j] = g
      BY <2>1, <3>2, <3>3
    <3>5. x \in got[f] \/ \E i \in 1..(j - 1) : queue[x][i] = f
      BY <1>1, <3>2, <3>3, <3>4
    <3> QED BY <2>3, <3>4, <3>5 DEF Ahead
  <2> QED BY <2>2, <2>3 DEF Ahead
<1>7. Ahead(e)' = Admission!Rivals(e)
  <2> DEFINE Before(f) == \E x \in Venues(e) :
                 x \in got[f] \/ \E i \in 1..Len(queue[x]) : queue[x][i] = f
  <2>1. \A f \in Executions : f \in Ahead(e)' <=> Before(f)
    <3> TAKE f \in Executions
    <3>1. ASSUME f \in Ahead(e)' PROVE Before(f)
      <4>0. PICK x \in Exchanges : \E j \in 1..Len(queue'[x]) :
                /\ queue'[x][j] = e
                /\ x \in got[f] \/ \E i \in 1..(j - 1) : queue'[x][i] = f
        BY <1>1, <3>1 DEF Ahead
      <4>1. PICK j \in 1..Len(queue'[x]) :
                /\ queue'[x][j] = e
                /\ x \in got[f] \/ \E i \in 1..(j - 1) : queue'[x][i] = f
        BY <4>0
      <4>2. x \in Venues(e) /\ j = Len(queue[x]) + 1
        BY <1>3, <1>4, <4>1
      <4> QED BY <1>4, <4>1, <4>2
    <3>2. ASSUME Before(f) PROVE f \in Ahead(e)'
      <4>1. PICK x \in Venues(e) :
                x \in got[f] \/ \E i \in 1..Len(queue[x]) : queue[x][i] = f
        BY <3>2
      <4>2. x \in Exchanges
        BY VenuesType
      <4> DEFINE j == Len(queue[x]) + 1
      <4>3. /\ j \in 1..Len(queue'[x]) /\ queue'[x][j] = e
            /\ \A i \in 1..Len(queue[x]) : i \in 1..(j - 1) /\ queue'[x][i] = queue[x][i]
        BY <1>4, <4>2
      <4>4. x \in got'[f] \/ \E i \in 1..(j - 1) : queue'[x][i] = f
        BY <1>1, <4>1, <4>3
      <4> HIDE DEF j
      <4> QED BY <4>2, <4>3, <4>4 DEF Ahead
    <3> QED BY <3>1, <3>2
  <2>2. \A f \in Executions : Before(f) <=> f \in Admission!Rivals(e)
    <3> TAKE f \in Executions
    <3>1. ASSUME Before(f)
          PROVE  f # e /\ Phase(f) \in {"waiting", "inside"} /\ Venues(e) \cap Venues(f) # {}
      <4>1. PICK x \in Venues(e) :
                x \in got[f] \/ \E i \in 1..Len(queue[x]) : queue[x][i] = f
        BY <3>1
      <4>2. x \in Exchanges
        BY VenuesType
      <4>3. x \in Venues(f) /\ f # e /\ pc[f] \notin {"idle", "done"}
        BY <1>2, <1>3, <4>1, <4>2, InTryPcs DEF AdmissionInv, LockInv, OneOwner, OwnsInTry, QueuedWait
      <4> QED BY <4>1, <4>3 DEF Phase
    <3>2. ASSUME f # e, Phase(f) \in {"waiting", "inside"}, Venues(e) \cap Venues(f) # {}
          PROVE  Before(f)
      <4>1. PICK x \in Venues(e) : x \in Venues(f)
        BY <3>2
      <4>2. pc[f] \in {"locking"} \cup InTry
        BY <3>2 DEF Phase, LockType, Pcs
      <4>3. x \in got[f] \/ \E i \in 1..Len(queue[x]) : queue[x][i] = f
        BY <4>1, <4>2 DEF AdmissionInv, GotOrQueued, LockInv, OwnsInTry, Owns
      <4> QED BY <4>3
    <3> QED BY <3>1, <3>2 DEF Admission!Rivals
  <2> QED BY <2>1, <2>2 DEF Ahead, Admission!Rivals
<1> QED BY <1>2, <1>5, <1>6, <1>7 DEF Admission!Ask

\* The return of a holder frees everyone that waited for it, and only of it.
LEMMA LeaveMaps ==
  ASSUME LockType, AdmissionInv, NEW e \in Executions, Holds(e),
         NEW r \in Statuses, Leave(e, r)
  PROVE  Admission!Return(e)
<1>1. /\ pc' = [pc EXCEPT ![e] = "done"]
      /\ got' = [got EXCEPT ![e] = {}]
      /\ UNCHANGED queue
  BY DEF Leave
<1>2. \A f \in Executions : Phase(f)' = IF f = e THEN "returned" ELSE Phase(f)
  BY <1>1 DEF Phase, Owns, LockType
<1>3. \A x \in Exchanges : \A i \in 1..Len(queue[x]) : queue[x][i] # e
  BY HolderNotQueued DEF AdmissionInv
<1>4. ASSUME NEW g \in Executions PROVE Ahead(g)' = Ahead(g) \ {e}
  <2>1. ASSUME NEW f \in Executions, NEW x \in Exchanges, NEW j \in 1..Len(queue[x])
        PROVE  (x \in got'[f] \/ \E i \in 1..(j - 1) : queue[x][i] = f)
               <=> f # e /\ (x \in got[f] \/ \E i \in 1..(j - 1) : queue[x][i] = f)
    <3>1. \A i \in 1..(j - 1) : i \in 1..Len(queue[x])
      BY DEF LockType
    <3> QED BY <1>1, <1>3, <3>1 DEF LockType
  <2>2. \A f \in Executions : f \in Ahead(g)' <=> f \in Ahead(g) /\ f # e
    BY <1>1, <2>1 DEF Ahead
  <2> QED BY <2>2 DEF Ahead
<1> QED BY <1>2, <1>4, HolderInside DEF Admission!Return

\* A grant changes nothing for who waits for whom: its receiver was ahead of
\* all the others in that queue and stays ahead of them as the holder.  With
\* the last of its locks the receiver is admitted.
LEMMA GrantMaps ==
  ASSUME LockType, AdmissionInv, NEW x \in Exchanges, Grant(x)
  PROVE  /\ \A g \in Executions : Ahead(g)' = Ahead(g)
         /\ \/ \A g \in Executions : Phase(g)' = Phase(g)
            \/ \E h \in Executions : Admission!Admit(h)
<1>0. PICK h \in Executions : queue[x] # <<>> /\ h = Head(queue[x])
  <2>1. queue[x] # <<>> /\ queue[x] \in Seq(Executions)
    BY DEF Grant, LockType
  <2>2. Head(queue[x]) \in Executions
    BY <2>1
  <2> QED BY <2>1, <2>2
<1>1. /\ ~locked[x] /\ queue[x] # <<>>
      /\ got' = [got EXCEPT ![h] = got[h] \cup {x}]
      /\ queue' = [queue EXCEPT ![x] = Tail(queue[x])]
      /\ UNCHANGED pc
  BY <1>0 DEF Grant
<1>2. /\ queue[x] \in Seq(Executions) /\ Len(queue[x]) \in Nat /\ Len(queue[x]) > 0
      /\ h = queue[x][1]
      /\ Len(Tail(queue[x])) = Len(queue[x]) - 1
      /\ \A i \in 1..(Len(queue[x]) - 1) : Tail(queue[x])[i] = queue[x][i + 1]
  BY <1>0, <1>1 DEF LockType
<1>3. pc[h] = "locking" /\ x \in Venues(h) /\ x \notin got[h]
  BY <1>2 DEF AdmissionInv, LockInv, QueuedWait
<1>4. \A f \in Executions : x \notin got[f]
  BY <1>1 DEF AdmissionInv, LockInv, OneOwner
<1>5. /\ \A f \in Executions : got'[f] = IF f = h THEN got[h] \cup {x} ELSE got[f]
      /\ \A y \in Exchanges : queue'[y] = IF y = x THEN Tail(queue[x]) ELSE queue[y]
  BY <1>1 DEF LockType
<1>6. ASSUME NEW g \in Executions PROVE Ahead(g)' = Ahead(g)
  <2> DEFINE Waits(f, y, j) == /\ queue[y][j] = g
                               /\ y \in got[f] \/ \E i \in 1..(j - 1) : queue[y][i] = f
             WaitsNext(f, y, j) == /\ queue'[y][j] = g
                                   /\ y \in got'[f] \/ \E i \in 1..(j - 1) : queue'[y][i] = f
  <2>1. ASSUME NEW f \in Executions, NEW y \in Exchanges, y # x
        PROVE  (\E j \in 1..Len(queue[y]) : Waits(f, y, j))
               <=> (\E j \in 1..Len(queue'[y]) : WaitsNext(f, y, j))
    <3>1. queue'[y] = queue[y] /\ (y \in got'[f] <=> y \in got[f])
      BY <1>5, <2>1
    <3> QED BY <3>1
  <2>2. ASSUME NEW f \in Executions
        PROVE  (\E j \in 1..Len(queue[x]) : Waits(f, x, j))
               <=> (\E j \in 1..Len(queue'[x]) : WaitsNext(f, x, j))
    <3>1. /\ Len(queue'[x]) = Len(queue[x]) - 1
          /\ \A i \in 1..(Len(queue[x]) - 1) : queue'[x][i] = queue[x][i + 1]
      BY <1>2, <1>5
    <3>2. x \notin got[f] /\ (x \in got'[f] <=> f = h)
      BY <1>4, <1>5
    <3>3. ASSUME NEW j \in 1..Len(queue[x]), Waits(f, x, j)
          PROVE  \E k \in 1..Len(queue'[x]) : WaitsNext(f, x, k)
      <4>1. PICK i \in 1..(j - 1) : queue[x][i] = f
        BY <3>2, <3>3
      <4>2. j - 1 \in 1..Len(queue'[x]) /\ queue'[x][j - 1] = g
        BY <1>2, <3>1, <3>3, <4>1
      <4>3. CASE i = 1
        <5>1. WaitsNext(f, x, j - 1)
          BY <1>2, <3>2, <4>1, <4>2, <4>3
        <5> QED BY <4>2, <5>1
      <4>4. CASE i # 1
        <5>1. i - 1 \in 1..((j - 1) - 1) /\ queue'[x][i - 1] = f
          BY <1>2, <3>1, <4>1, <4>4
        <5>2. WaitsNext(f, x, j - 1)
          BY <4>2, <5>1
        <5> QED BY <4>2, <5>2
      <4> QED BY <4>3, <4>4
    <3>4. ASSUME NEW k \in 1..Len(queue'[x]), WaitsNext(f, x, k)
          PROVE  \E j \in 1..Len(queue[x]) : Waits(f, x, j)
      <4>1. k + 1 \in 1..Len(queue[x]) /\ queue[x][k + 1] = g
        BY <1>2, <3>1, <3>4
      <4>2. CASE x \in got'[f]
        <5>1. 1 \in 1..((k + 1) - 1) /\ queue[x][1] = f
          BY <1>2, <3>2, <3>4, <4>2
        <5>2. Waits(f, x, k + 1)
          BY <4>1, <5>1
        <5> QED BY <4>1, <5>2
      <4>3. CASE x \notin got'[f]
        <5>1. PICK i \in 1..(k - 1) : queue'[x][i] = f
          BY <3>4, <4>3
        <5>2. i + 1 \in 1..((k + 1) - 1) /\ queue[x][i + 1] = f
          BY <1>2, <3>1, <5>1
        <5>3. Waits(f, x, k + 1)
          BY <4>1, <5>2
        <5> QED BY <4>1, <5>3
      <4> QED BY <4>2, <4>3
    <3> QED BY <3>3, <3>4
  <2>3. \A f \in Executions :
            /\ f \in Ahead(g) <=> \E y \in Exchanges : \E j \in 1..Len(queue[y]) : Waits(f, y, j)
            /\ f \in Ahead(g)' <=> \E y \in Exchanges : \E j \in 1..Len(queue'[y]) : WaitsNext(f, y, j)
    BY DEF Ahead
  <2> HIDE DEF Waits, WaitsNext
  <2>4. \A f \in Executions : f \in Ahead(g) <=> f \in Ahead(g)'
    BY <2>1, <2>2, <2>3
  <2> QED BY <2>4 DEF Ahead
<1>7. \A g \in Executions : g # h => Phase(g)' = Phase(g)
  BY <1>1, <1>5 DEF Phase, Owns
<1>8. Phase(h) = "waiting"
  BY <1>3 DEF Phase, Owns
<1>9. CASE ~Owns(h)'
  <2>1. Phase(h)' = "waiting"
    BY <1>1, <1>3, <1>9 DEF Phase
  <2> QED BY <1>6, <1>7, <1>8, <2>1
<1>10. CASE Owns(h)'
  <2>1. Phase(h)' = "inside"
    BY <1>1, <1>3, <1>10 DEF Phase
  <2>2. Ahead(h) = {}
    <3> SUFFICES ASSUME NEW y \in Exchanges, NEW j \in 1..Len(queue[y]), queue[y][j] = h,
                        NEW f \in Executions,
                        y \in got[f] \/ \E i \in 1..(j - 1) : queue[y][i] = f
                 PROVE  FALSE
      BY DEF Ahead
    <3>1. y \in Venues(h) /\ y \notin got[h]
      BY DEF AdmissionInv, LockInv, QueuedWait
    <3>2. y = x
      BY <1>2, <1>5, <1>10, <3>1 DEF Owns
    <3>3. j = 1
      <4>1. 1 \in 1..Len(queue[x]) /\ queue[x][j] = queue[x][1]
        BY <1>2, <3>2
      <4> QED BY <3>2, <4>1 DEF AdmissionInv, LockInv, QueuedOnce
    <3> QED BY <1>4, <3>2, <3>3
  <2>3. Admission!Admit(h)
    BY <1>6, <1>7, <1>8, <2>1, <2>2 DEF Admission!Admit
  <2> QED BY <1>6, <2>3
<1> QED BY <1>9, <1>10

\* Every lock step is a step of ExchangeAdmission or none.
LEMMA LockStepMaps ==
  ASSUME LockType, AdmissionInv, LockStep
  PROVE  [Admission!Next]_(Admission!vars)
<1> DEFINE Stutter == UNCHANGED Admission!vars
<1>0. ASSUME \A g \in Executions : Phase(g)' = Phase(g) /\ Ahead(g)' = Ahead(g)
      PROVE  Stutter
  BY <1>0 DEF Admission!vars
<1> HIDE DEF Stutter
<1>1. CASE UNCHANGED <<pc, locked, queue, got>>
  BY <1>0, <1>1, AheadUnchanged, PhaseUnchanged DEF Stutter
<1>2. ASSUME NEW e \in Executions, pc[e] = "idle", Reject(e) \/ Enqueue(e)
      PROVE  Admission!Next
  BY <1>2, RejectMaps, EnqueueMaps DEF Admission!Next
<1>3. ASSUME NEW e \in Executions, Holds(e), NEW where \in InTry, Goto(e, where)
      PROVE  Stutter
  <2>1. UNCHANGED <<queue, got>> /\ pc' = [pc EXCEPT ![e] = where]
    BY <1>3 DEF Goto, resources
  <2>2. \A g \in Executions : Ahead(g)' = Ahead(g)
    BY <2>1, AheadUnchanged
  <2>3. \A g \in Executions : Phase(g)' = Phase(g)
    <3>1. Phase(e) = "inside"
      BY <1>3, HolderInside
    <3>2. Phase(e)' = "inside"
      BY <2>1, InTryPcs DEF Phase, LockType
    <3>3. \A g \in Executions : g # e => Phase(g)' = Phase(g)
      BY <2>1 DEF Phase, Owns, LockType
    <3> QED BY <3>1, <3>2, <3>3
  <2> QED BY <1>0, <2>2, <2>3
<1>4. ASSUME NEW e \in Executions, Holds(e), NEW r \in Statuses, Leave(e, r)
      PROVE  Admission!Next
  BY <1>4, LeaveMaps DEF Admission!Next
<1>5. ASSUME NEW x \in Exchanges, Grant(x)
      PROVE  Stutter \/ Admission!Next
  BY <1>0, <1>5, GrantMaps DEF Admission!Next
<1> QED BY <1>1, <1>2, <1>3, <1>4, <1>5 DEF LockStep, Stutter

-----------------------------------------------------------------------------
\* The executor's locks implement the admission of executions in turn: for all
\* executions, exchanges, amounts and outcomes each execution is admitted to
\* all its exchanges at once, after exactly the rivals that asked before it.
THEOREM LocksAdmitInTurn == Spec => AdmittedInTurn
<1>1. Init => Admission!Init
  BY DEF Init, Admission!Init, Phase, Ahead
<1>2. Init => AdmissionInv
  BY InTryPcs DEF Init, AdmissionInv, LockInv, QueuedWait, QueuedOnce, OneOwner,
                  OwnsInTry, GotOrQueued
<1>3. TypeOK => LockType
  BY DEF TypeOK, LockType, Pcs
<1>4. TypeOK /\ AdmissionInv /\ [Next]_vars => AdmissionInv'
  BY <1>3, NextIsLockStep, AdmissionInvStep
<1>5. TypeOK /\ AdmissionInv /\ [Next]_vars => [Admission!Next]_(Admission!vars)
  BY <1>3, NextIsLockStep, LockStepMaps
<1> QED BY <1>1, <1>2, <1>4, <1>5, TypeCorrect, PTL DEF Spec, AdmittedInTurn, Admission!Spec

-----------------------------------------------------------------------------
(* The reservations.                                                       *)

\* What each execution needs, who is in flight on an exchange, and which of
\* them need v.
NeedOf == [e \in Executions |-> Need(e)]
Flying(x) == {e \in Executions : InFlight(e) /\ x \in Venues(e)}
Needing(F, v) == {e \in F : Need(e) = v}

\* The reservations m of an exchange on which the executions of F are in
\* flight, where gone says whether one has lapsed: those of a size are as many
\* as the executions that need it, and together they are what F needs, within
\* the budget; fewer may be left once one has lapsed.
Backed(m, F, gone) ==
  /\ Cardinality(Places(m, 0)) = 0
  /\ \A v \in Nat \ {0} :
       /\ Cardinality(Places(m, v)) <= Cardinality(Needing(F, v))
       /\ ~gone => Cardinality(Places(m, v)) = Cardinality(Needing(F, v))
  /\ ~gone => SeqTotal(m) = Total(NeedOf, F) /\ SeqTotal(m) <= Budget

\* The invariant: so it is on every exchange.
ReservedInv == \A x \in Exchanges : Backed(margin[x], Flying(x), x \in lapsed)

\* reserve() adds an entry, unless it is of nothing.
LEMMA ReserveAdds ==
  ASSUME NEW m \in Seq(Nat), NEW n \in Nat
  PROVE  /\ WithReservation(m, n) \in Seq(Nat)
         /\ SeqTotal(WithReservation(m, n)) = SeqTotal(m) + n /\ SeqTotal(m) \in Int
         /\ Cardinality(Places(WithReservation(m, n), 0)) = Cardinality(Places(m, 0))
         /\ \A v \in Nat \ {0} : Cardinality(Places(WithReservation(m, n), v)) =
                                   Cardinality(Places(m, v)) + (IF n = v THEN 1 ELSE 0)
<1>1. m \in Seq(Int) /\ n \in Int
  OBVIOUS
<1>2. /\ SeqTotal(Append(m, n)) = SeqTotal(m) + n
      /\ \A v \in Nat : Cardinality(Places(Append(m, n), v)) =
                  Cardinality(Places(m, v)) + (IF n = v THEN 1 ELSE 0)
  BY <1>1, AppendedElement
<1>3. SeqTotal(m) \in Int /\ \A v \in Nat : Cardinality(Places(m, v)) \in Nat
  BY <1>1, PlacesFinite, SeqTotalType
<1>4. WithReservation(m, n) = IF n = 0 THEN m ELSE Append(m, n)
  BY DEF WithReservation
<1>5. WithReservation(m, n) \in Seq(Nat)
  BY WithReservationType
<1>6. CASE n = 0
  <2>1. WithReservation(m, n) = m
    BY <1>4, <1>6
  <2> QED BY <1>3, <1>5, <1>6, <2>1
<1>7. CASE n # 0
  <2>1. WithReservation(m, n) = Append(m, n)
    BY <1>4, <1>7
  <2>2. /\ SeqTotal(WithReservation(m, n)) = SeqTotal(m) + n
        /\ \A v \in Nat : Cardinality(Places(WithReservation(m, n), v)) =
                             Cardinality(Places(m, v)) + (IF n = v THEN 1 ELSE 0)
    BY <1>2, <2>1
  <2>3. Cardinality(Places(WithReservation(m, n), 0)) = Cardinality(Places(m, 0))
    <3>1. Cardinality(Places(WithReservation(m, n), 0)) =
             Cardinality(Places(m, 0)) + (IF n = 0 THEN 1 ELSE 0)
      BY <2>2
    <3>2. Cardinality(Places(m, 0)) \in Nat
      BY <1>3
    <3> QED BY <1>7, <3>1, <3>2
  <2> QED BY <1>3, <1>5, <2>2, <2>3
<1> QED BY <1>6, <1>7

\* release() takes one of that size away, if there is one.
LEMMA ReleaseTakes ==
  ASSUME NEW m \in Seq(Nat), NEW n \in Nat
  PROVE  /\ WithoutReservation(m, n) \in Seq(Nat)
         /\ Places(m, n) = {} => WithoutReservation(m, n) = m
         /\ Places(m, n) # {} =>
              /\ SeqTotal(WithoutReservation(m, n)) = SeqTotal(m) - n /\ SeqTotal(m) \in Int
              /\ \A v \in Nat : Cardinality(Places(m, v)) =
                          Cardinality(Places(WithoutReservation(m, n), v))
                            + (IF n = v THEN 1 ELSE 0)
<1>0. WithoutReservation(m, n) \in Seq(Nat)
  BY WithoutReservationType
<1> DEFINE popped(k) == \E j \in 1..k : m[j] = n
<1>1. CASE Places(m, n) = {}
  <2>1. ~popped(Len(m))
    BY <1>1 DEF Places
  <2> QED BY <1>0, <1>1, <2>1 DEF WithoutReservation
<1>2. CASE Places(m, n) # {}
  <2>1. /\ Len(m) \in Nat /\ DOMAIN m = 1..Len(m) /\ m \in Seq(Int)
    OBVIOUS
  <2>2. PICK k \in Places(m, n) : \A j \in Places(m, n) : k <= j
    BY <1>2, <2>1, FirstIndex DEF Places
  <2>0. k \in 1..Len(m) /\ m[k] = n /\ \A j \in 1..Len(m) : m[j] = n => k <= j
    BY <2>1, <2>2 DEF Places
  <2>3. popped(Len(m)) /\ \A i \in 1..(Len(m) - 1) : popped(i) <=> k <= i
    <3>1. ASSUME NEW i \in 1..(Len(m) - 1), k <= i PROVE popped(i)
      <4>1. k \in 1..i
        BY <2>0, <2>1, <3>1
      <4> QED BY <2>0, <4>1
    <3>2. ASSUME NEW i \in 1..(Len(m) - 1), popped(i) PROVE k <= i
      <4>1. PICK j \in 1..i : m[j] = n
        BY <3>2
      <4>2. j \in 1..Len(m) /\ k <= j
        BY <2>0, <2>1, <4>1
      <4> QED BY <2>0, <2>1, <4>2
    <3>3. popped(Len(m))
      BY <2>0
    <3> HIDE DEF popped
    <3> QED BY <3>1, <3>2, <3>3
  <2>4. WithoutReservation(m, n) = [i \in 1..(Len(m) - 1) |-> IF popped(i) THEN m[i + 1] ELSE m[i]]
    BY <2>3 DEF WithoutReservation
  <2> HIDE DEF popped
  <2>5. WithoutReservation(m, n) = Without(m, k)
    BY <2>3, <2>4 DEF Without
  <2>6. k \in DOMAIN m /\ m[k] = n
    BY DEF Places
  <2> QED BY <1>0, <1>2, <2>1, <2>5, <2>6, WithoutElement
<1> QED BY <1>1, <1>2

LEMMA NeedsFinite ==
  ASSUME NEW F \in SUBSET Executions
  PROVE  /\ IsFiniteSet(F) /\ \A e \in F : NeedOf[e] \in Int
         /\ \A v : IsFiniteSet(Needing(F, v)) /\ Cardinality(Needing(F, v)) \in Nat
<1>1. IsFiniteSet(F)
  BY ConstantsAssumption, FS_Subset
<1>2. \A v : IsFiniteSet(Needing(F, v)) /\ Cardinality(Needing(F, v)) \in Nat
  BY <1>1, FS_Subset, FS_CardinalityType DEF Needing
<1>3. ASSUME NEW e \in F PROVE NeedOf[e] \in Int
  BY NeedType DEF NeedOf
<1> QED BY <1>1, <1>2, <1>3

\* An execution that fits reserves and takes off.
LEMMA BackedMore ==
  ASSUME NEW m \in Seq(Nat), NEW F \in SUBSET Executions, NEW gone \in BOOLEAN,
         Backed(m, F, gone), NEW e \in Executions \ F,
         Need(e) = 0 \/ SeqTotal(m) + Need(e) <= Budget
  PROVE  Backed(WithReservation(m, Need(e)), F \cup {e}, gone)
<1> DEFINE n == Need(e)
           r == WithReservation(m, n)
           G == F \cup {e}
<1>1. n \in Nat /\ NeedOf[e] = n
  BY NeedType DEF NeedOf
<1> HIDE DEF n, r
<1>2. /\ SeqTotal(r) = SeqTotal(m) + n /\ SeqTotal(m) \in Int
      /\ Cardinality(Places(r, 0)) = Cardinality(Places(m, 0))
      /\ \A v \in Nat \ {0} : Cardinality(Places(r, v)) =
                                Cardinality(Places(m, v)) + (IF n = v THEN 1 ELSE 0)
  BY <1>1, ReserveAdds DEF r
<1>3. ASSUME NEW v \in Nat \ {0}
      PROVE  Cardinality(Needing(G, v)) =
               Cardinality(Needing(F, v)) + (IF n = v THEN 1 ELSE 0)
  <2>1. IsFiniteSet(Needing(F, v)) /\ Cardinality(Needing(F, v)) \in Nat
    BY NeedsFinite
  <2>2. CASE n = v
    <3>1. Needing(G, v) = Needing(F, v) \cup {e} /\ e \notin Needing(F, v)
      BY <2>2 DEF n, Needing
    <3> QED BY <2>1, <2>2, <3>1, FS_AddElement
  <2>3. CASE n # v
    <3>1. Needing(G, v) = Needing(F, v)
      BY <2>3 DEF n, Needing
    <3> QED BY <2>1, <2>3, <3>1
  <2> QED BY <2>2, <2>3
<1>4. Total(NeedOf, G) = Total(NeedOf, F) + n /\ Total(NeedOf, F) \in Int
  BY <1>1, NeedsFinite, TotalWith
<1>5. n = 0 \/ SeqTotal(m) + n <= Budget
  BY DEF n
<1>6. Cardinality(Places(r, 0)) = 0
  BY <1>2 DEF Backed
<1>7. ASSUME NEW v \in Nat \ {0}
      PROVE  /\ Cardinality(Places(r, v)) <= Cardinality(Needing(G, v))
             /\ ~gone => Cardinality(Places(r, v)) = Cardinality(Needing(G, v))
  <2>1. Cardinality(Needing(F, v)) \in Nat /\ Cardinality(Places(m, v)) \in Nat
    BY NeedsFinite, PlacesFinite
  <2>2. /\ Cardinality(Places(m, v)) <= Cardinality(Needing(F, v))
        /\ ~gone => Cardinality(Places(m, v)) = Cardinality(Needing(F, v))
    BY DEF Backed
  <2>3. Cardinality(Places(r, v)) = Cardinality(Places(m, v)) + (IF n = v THEN 1 ELSE 0)
    BY <1>2
  <2>4. Cardinality(Needing(G, v)) = Cardinality(Needing(F, v)) + (IF n = v THEN 1 ELSE 0)
    BY <1>3
  <2> HIDE DEF G
  <2>5. CASE n = v
    BY <2>1, <2>2, <2>3, <2>4, <2>5
  <2>6. CASE n # v
    BY <2>1, <2>2, <2>3, <2>4, <2>6
  <2> QED BY <2>5, <2>6
<1>8. ~gone => SeqTotal(r) = Total(NeedOf, G) /\ SeqTotal(r) <= Budget
  <2>1. ~gone => SeqTotal(m) = Total(NeedOf, F) /\ SeqTotal(m) <= Budget
    BY DEF Backed
  <2> HIDE DEF G
  <2> QED BY <1>1, <1>2, <1>4, <1>5, <2>1
<1> QED BY <1>6, <1>7, <1>8 DEF Backed, r, n

\* An execution gives its reservation back and lands.
LEMMA BackedLess ==
  ASSUME NEW m \in Seq(Nat), NEW F \in SUBSET Executions, NEW gone \in BOOLEAN,
         Backed(m, F, gone), NEW e \in F
  PROVE  Backed(WithoutReservation(m, Need(e)), F \ {e}, gone)
<1> DEFINE n == Need(e)
           r == WithoutReservation(m, n)
           G == F \ {e}
<1>1. n \in Nat /\ NeedOf[e] = n /\ F = G \cup {e} /\ e \notin G /\ G \subseteq Executions
  BY NeedType DEF NeedOf
<1>2. Total(NeedOf, F) = Total(NeedOf, G) + n /\ Total(NeedOf, G) \in Int
  <2> HIDE DEF G, n
  <2>1. Total(NeedOf, G \cup {e}) = Total(NeedOf, G) + NeedOf[e] /\ Total(NeedOf, G) \in Int
    BY <1>1, NeedsFinite, TotalWith
  <2> QED BY <1>1, <2>1
<1> HIDE DEF n, r
<1>3. ASSUME NEW v \in Nat \ {0}
      PROVE  Cardinality(Needing(F, v)) =
               Cardinality(Needing(G, v)) + (IF n = v THEN 1 ELSE 0)
  <2>1. IsFiniteSet(Needing(G, v)) /\ Cardinality(Needing(G, v)) \in Nat
    BY NeedsFinite
  <2>2. CASE n = v
    <3>1. Needing(F, v) = Needing(G, v) \cup {e} /\ e \notin Needing(G, v)
      BY <2>2 DEF n, Needing
    <3> QED BY <2>1, <2>2, <3>1, FS_AddElement
  <2>3. CASE n # v
    <3>1. Needing(F, v) = Needing(G, v)
      BY <2>3 DEF n, Needing
    <3> QED BY <2>1, <2>3, <3>1
  <2> QED BY <2>2, <2>3
<1>4. /\ Places(m, n) = {} => r = m
      /\ Places(m, n) # {} =>
           /\ SeqTotal(r) = SeqTotal(m) - n /\ SeqTotal(m) \in Int
           /\ \A v \in Nat : Cardinality(Places(m, v)) = Cardinality(Places(r, v)) + (IF n = v THEN 1 ELSE 0)
      /\ r \in Seq(Nat)
  BY <1>1, ReleaseTakes DEF r
<1>5. \A v \in Nat :
         /\ Cardinality(Places(m, v)) \in Nat /\ Cardinality(Places(r, v)) \in Nat
         /\ Places(m, v) = {} <=> Cardinality(Places(m, v)) = 0
         /\ Cardinality(Needing(G, v)) \in Nat /\ Cardinality(Needing(F, v)) \in Nat
  BY <1>1, <1>4, PlacesFinite, NeedsFinite, FS_EmptySet
<1>6. /\ Cardinality(Places(m, 0)) = 0
      /\ \A v \in Nat \ {0} :
           /\ Cardinality(Places(m, v)) <= Cardinality(Needing(F, v))
           /\ ~gone => Cardinality(Places(m, v)) = Cardinality(Needing(F, v))
      /\ ~gone => SeqTotal(m) = Total(NeedOf, F) /\ SeqTotal(m) <= Budget
  BY DEF Backed
<1> HIDE DEF G
<1>7. ASSUME NEW v \in Nat \ {0}
      PROVE  /\ Cardinality(Places(r, v)) <= Cardinality(Needing(G, v))
             /\ ~gone => Cardinality(Places(r, v)) = Cardinality(Needing(G, v))
  <2>1. /\ Cardinality(Places(m, v)) \in Nat /\ Cardinality(Places(r, v)) \in Nat
        /\ Cardinality(Needing(G, v)) \in Nat /\ Cardinality(Needing(F, v)) \in Nat
        /\ Places(m, v) = {} <=> Cardinality(Places(m, v)) = 0
    BY <1>5
  <2>2. /\ Cardinality(Places(m, v)) <= Cardinality(Needing(F, v))
        /\ ~gone => Cardinality(Places(m, v)) = Cardinality(Needing(F, v))
    BY <1>6
  <2>3. Cardinality(Needing(F, v)) = Cardinality(Needing(G, v)) + (IF n = v THEN 1 ELSE 0)
    BY <1>3
  <2>4. CASE Places(m, n) = {}
    <3>1. r = m
      BY <1>4, <2>4
    <3>2. CASE n = v
      BY <2>1, <2>2, <2>3, <2>4, <3>1, <3>2
    <3>3. CASE n # v
      BY <2>1, <2>2, <2>3, <3>1, <3>3
    <3> QED BY <3>2, <3>3
  <2>5. CASE Places(m, n) # {}
    <3>1. Cardinality(Places(m, v)) = Cardinality(Places(r, v)) + (IF n = v THEN 1 ELSE 0)
      BY <1>4, <2>5
    <3>2. CASE n = v
      BY <2>1, <2>2, <2>3, <3>1, <3>2
    <3>3. CASE n # v
      BY <2>1, <2>2, <2>3, <3>1, <3>3
    <3> QED BY <3>2, <3>3
  <2> QED BY <2>4, <2>5
<1>8. Places(m, 0) = {} /\ Cardinality(Places(r, 0)) = 0
  <2>1. Places(m, 0) = {} /\ Cardinality(Places(r, 0)) \in Nat
    BY <1>5, <1>6
  <2>2. CASE Places(m, n) = {}
    <3>1. r = m
      BY <1>4, <2>2
    <3> QED BY <1>6, <2>1, <3>1
  <2>3. CASE Places(m, n) # {}
    <3>1. n # 0
      BY <2>1, <2>3
    <3>2. Cardinality(Places(m, 0)) = Cardinality(Places(r, 0)) + (IF n = 0 THEN 1 ELSE 0)
      BY <1>4, <2>3
    <3> QED BY <1>6, <2>1, <3>1, <3>2
  <2> QED BY <2>2, <2>3
<1>9. ASSUME ~gone PROVE SeqTotal(r) = Total(NeedOf, G) /\ SeqTotal(r) <= Budget
  <2>0. Budget \in Nat /\ SeqTotal(m) = Total(NeedOf, F) /\ SeqTotal(m) <= Budget
    BY <1>6, <1>9, ConstantsAssumption
  <2>1. CASE Places(m, n) # {}
    <3>1. SeqTotal(r) = SeqTotal(m) - n
      BY <1>4, <2>1
    <3> QED BY <1>1, <1>2, <2>0, <3>1
  <2>2. CASE Places(m, n) = {}
    <3>1. r = m
      BY <1>4, <2>2
    <3>2. n = 0
      <4> SUFFICES ASSUME n # 0 PROVE FALSE
        OBVIOUS
      <4>1. Cardinality(Needing(F, n)) = Cardinality(Needing(G, n)) + 1
        BY <1>1, <1>3
      <4>2. Cardinality(Needing(G, n)) \in Nat /\ Cardinality(Places(m, n)) = 0
        BY <1>1, <1>5, <2>2
      <4>3. Cardinality(Places(m, n)) = Cardinality(Needing(F, n))
        BY <1>1, <1>6, <1>9
      <4> QED BY <4>1, <4>2, <4>3
    <3> QED BY <1>2, <2>0, <3>1, <3>2
  <2> QED BY <2>1, <2>2
<1> QED BY <1>7, <1>8, <1>9 DEF Backed, r, n, G

\* A reservation made and given back leaves things as they were, if not in
\* their order; and one that lapses is missed by nobody's count but its own.
LEMMA BackedSame ==
  ASSUME NEW m \in Seq(Nat), NEW F \in SUBSET Executions, NEW gone \in BOOLEAN,
         Backed(m, F, gone), NEW n \in Nat \ {0}
  PROVE  Backed(WithoutReservation(WithReservation(m, n), n), F, gone)
<1> DEFINE a == WithReservation(m, n)
           r == WithoutReservation(a, n)
<1> HIDE DEF a, r
<1>1. /\ a \in Seq(Nat) /\ SeqTotal(a) = SeqTotal(m) + n /\ SeqTotal(m) \in Int
      /\ Cardinality(Places(a, 0)) = Cardinality(Places(m, 0))
      /\ \A v \in Nat \ {0} : Cardinality(Places(a, v)) =
                                Cardinality(Places(m, v)) + (IF n = v THEN 1 ELSE 0)
  BY ReserveAdds DEF a
<1>2. \A v \in Nat : Cardinality(Places(m, v)) \in Nat /\ Cardinality(Places(a, v)) \in Nat
  BY <1>1, PlacesFinite
<1>3. Places(a, n) # {}
  <2>1. Cardinality(Places(a, n)) # 0
    BY <1>1, <1>2
  <2> QED BY <2>1, FS_EmptySet
<1>4. /\ r \in Seq(Nat) /\ SeqTotal(r) = SeqTotal(a) - n
      /\ \A v \in Nat : Cardinality(Places(a, v)) = Cardinality(Places(r, v)) + (IF n = v THEN 1 ELSE 0)
  BY <1>1, <1>3, ReleaseTakes DEF r
<1>5. \A v \in Nat : Cardinality(Places(r, v)) \in Nat
  BY <1>4, PlacesFinite
<1>6. SeqTotal(r) = SeqTotal(m)
  <2>1. SeqTotal(r) = (SeqTotal(m) + n) - n
    BY <1>1, <1>4
  <2> QED BY <1>1, <2>1
<1>7. ASSUME NEW v \in Nat PROVE Cardinality(Places(r, v)) = Cardinality(Places(m, v))
  <2>1. Cardinality(Places(r, v)) \in Nat /\ Cardinality(Places(m, v)) \in Nat
    BY <1>2, <1>5
  <2>2. Cardinality(Places(a, v)) = Cardinality(Places(r, v)) + (IF n = v THEN 1 ELSE 0)
    BY <1>4
  <2>3. CASE v = 0
    BY <1>1, <2>1, <2>2, <2>3
  <2>4. CASE v # 0
    <3>1. Cardinality(Places(a, v)) = Cardinality(Places(m, v)) + (IF n = v THEN 1 ELSE 0)
      BY <1>1, <2>4
    <3> QED BY <2>1, <2>2, <3>1
  <2> QED BY <2>3, <2>4
<1> QED BY <1>6, <1>7 DEF Backed, a, r

LEMMA BackedLapse ==
  ASSUME NEW m \in Seq(Nat), NEW F \in SUBSET Executions, NEW gone \in BOOLEAN,
         Backed(m, F, gone), m # <<>>
  PROVE  Backed(Tail(m), F, TRUE)
<1>1. /\ m \in Seq(Int) /\ 1 \in DOMAIN m /\ Tail(m) \in Seq(Int) /\ Tail(m) = Without(m, 1)
  <2>1. /\ m \in Seq(Int) /\ Tail(m) \in Seq(Int) /\ Len(Tail(m)) = Len(m) - 1
        /\ DOMAIN Tail(m) = 1..Len(Tail(m)) /\ 1 \in DOMAIN m
        /\ \A i \in DOMAIN Tail(m) : i \in Nat /\ 1 <= i /\ Tail(m)[i] = m[i + 1]
    BY TailElements
  <2>2. Tail(m) = [i \in 1..Len(Tail(m)) |-> Tail(m)[i]]
    <3>1. \A t \in Seq(Int) : t = [i \in 1..Len(t) |-> t[i]]
      OBVIOUS
    <3> QED BY <2>1, <3>1
  <2>3. Without(m, 1) = [i \in 1..Len(Tail(m)) |-> IF 1 <= i THEN m[i + 1] ELSE m[i]]
    BY <2>1 DEF Without
  <2> QED BY <2>1, <2>2, <2>3
<1>2. \A v \in Nat : Cardinality(Places(m, v)) = Cardinality(Places(Tail(m), v)) + (IF m[1] = v THEN 1 ELSE 0)
  <2>1. \A v : Cardinality(Places(m, v)) = Cardinality(Places(Without(m, 1), v)) + (IF m[1] = v THEN 1 ELSE 0)
    BY <1>1, WithoutElement
  <2> QED BY <1>1, <2>1
<1>3. \A v \in Nat :
         /\ Cardinality(Places(m, v)) \in Nat /\ Cardinality(Places(Tail(m), v)) \in Nat
         /\ Cardinality(Needing(F, v)) \in Nat
  BY <1>1, PlacesFinite, NeedsFinite
<1>4. ASSUME NEW v \in Nat
      PROVE  /\ Cardinality(Places(Tail(m), v)) <= Cardinality(Places(m, v))
             /\ Cardinality(Places(Tail(m), v)) \in Nat
             /\ Cardinality(Places(Tail(m), v)) <= Cardinality(Needing(F, v)) \/ v = 0
  <2>1. /\ Cardinality(Places(m, v)) \in Nat /\ Cardinality(Places(Tail(m), v)) \in Nat
        /\ Cardinality(Needing(F, v)) \in Nat
    BY <1>3
  <2>2. Cardinality(Places(m, v)) = Cardinality(Places(Tail(m), v)) + (IF m[1] = v THEN 1 ELSE 0)
    BY <1>2
  <2>3. Cardinality(Places(Tail(m), v)) <= Cardinality(Places(m, v))
    BY <2>1, <2>2
  <2>4. v = 0 \/ Cardinality(Places(m, v)) <= Cardinality(Needing(F, v))
    BY DEF Backed
  <2> QED BY <2>1, <2>3, <2>4
<1>5. Cardinality(Places(Tail(m), 0)) = 0
  <2>1. /\ Cardinality(Places(Tail(m), 0)) \in Nat
        /\ Cardinality(Places(Tail(m), 0)) <= Cardinality(Places(m, 0))
    BY <1>4
  <2> QED BY <2>1 DEF Backed
<1> QED BY <1>4, <1>5 DEF Backed

\* To the reservations every step of the executor is one of five: nothing that
\* changes who is in flight, a start that gives back what it reserved, one that
\* reserves on all its exchanges, a return, and a lapse.
Stays == UNCHANGED lapsed /\ \A f \in Executions : InFlight(f)' = InFlight(f)

GivesBack(e) ==
  /\ Stays
  /\ \/ UNCHANGED margin
     \/ \E x \in Exchanges :
          /\ Need(e) # 0
          /\ margin' = [margin EXCEPT ![x] =
                           WithoutReservation(WithReservation(@, Need(e)), Need(e))]

TakesOff(e) ==
  /\ UNCHANGED lapsed /\ ~InFlight(e) /\ InFlight(e)'
  /\ \A f \in Executions \ {e} : InFlight(f)' = InFlight(f)
  /\ \A x \in Venues(e) : Fits(e, x)
  /\ margin' = [x \in Exchanges |-> IF x \in Venues(e) THEN WithReservation(margin[x], Need(e))
                                    ELSE margin[x]]

Lands(e) ==
  /\ UNCHANGED lapsed /\ InFlight(e) /\ ~InFlight(e)'
  /\ \A f \in Executions \ {e} : InFlight(f)' = InFlight(f)
  /\ margin' = [x \in Exchanges |-> IF x \in Venues(e) THEN WithoutReservation(margin[x], Need(e))
                                    ELSE margin[x]]

ReserveStep ==
  \/ Stays /\ UNCHANGED margin
  \/ \E e \in Executions : GivesBack(e) \/ TakesOff(e) \/ Lands(e)
  \/ \E x \in Exchanges :
       /\ margin[x] # <<>> /\ margin' = [margin EXCEPT ![x] = Tail(@)]
       /\ lapsed' = lapsed \cup {x} /\ \A f \in Executions : InFlight(f)' = InFlight(f)

LEMMA InFlightSame ==
  ASSUME pc' = pc, NEW f
  PROVE  InFlight(f)' = InFlight(f)
  BY DEF InFlight

LEMMA StartReserves ==
  ASSUME LockType, margin \in [Exchanges -> Seq(Nat)], NEW e \in Executions, Start(e)
  PROVE  GivesBack(e) \/ TakesOff(e)
<1>1. ASSUME Reject(e), pc[e] = "idle" PROVE Stays
  <2>1. UNCHANGED lapsed /\ \A f \in Executions \ {e} : pc'[f] = pc[f]
    BY <1>1 DEF Reject, LockType
  <2>2. pc'[e] = "done"
    BY <1>1 DEF Reject, LockType
  <2>3. InFlight(e)' = InFlight(e)
    BY <1>1, <2>2, InTryPcs DEF InFlight
  <2> QED BY <2>1, <2>3 DEF Stays, InFlight
<1>2. ASSUME Enqueue(e), pc[e] = "idle"
      PROVE  /\ UNCHANGED lapsed /\ ~InFlight(e) /\ InFlight(e)'
             /\ \A f \in Executions \ {e} : InFlight(f)' = InFlight(f)
  BY <1>2, InTryPcs DEF Enqueue, InFlight, LockType
<1>3. \A l \in Legs : Venue[e][l] \in Exchanges
  BY ConstantsAssumption
<1>4. CASE e \in Cross
  <2>0. CrossStart(e)
    BY <1>4 DEF Start
  <2>1. CASE UNCHANGED margin /\ Reject(e)
    BY <1>1, <2>0, <2>1 DEF CrossStart, GivesBack
  <2>2. CASE /\ Fits(e, Venue[e][1]) /\ ~Fits(e, Venue[e][2])
             /\ margin' = [margin EXCEPT ![Venue[e][1]] =
                       WithoutReservation(WithReservation(@, Need(e)), Need(e))]
             /\ Reject(e)
    <3>1. Need(e) # 0
      BY <2>2 DEF Fits
    <3>2. Venue[e][1] \in Exchanges
      BY <1>3 DEF Legs
    <3> QED BY <1>1, <2>0, <2>2, <3>1, <3>2 DEF CrossStart, GivesBack
  <2>3. CASE /\ \A x \in Venues(e) : Fits(e, x)
             /\ margin' = [x \in Exchanges |->
                       IF x \in Venues(e) THEN WithReservation(margin[x], Need(e))
                       ELSE margin[x]]
             /\ Enqueue(e)
    BY <1>2, <2>0, <2>3 DEF CrossStart, TakesOff
  <2> QED BY <2>0, <2>1, <2>2, <2>3 DEF CrossStart
<1>5. CASE e \notin Cross
  <2> DEFINE x == Venue[e][1]
  <2>0. SameStart(e)
    BY <1>5 DEF Start
  <2>1. CASE UNCHANGED margin /\ Reject(e)
    BY <1>1, <2>0, <2>1 DEF SameStart, GivesBack
  <2>2. CASE /\ Fits(e, x) /\ margin' = [margin EXCEPT ![x] = WithReservation(@, Need(e))]
             /\ Enqueue(e)
    <3>1. Venues(e) = {x}
      BY <1>5 DEF Venues, Cross, Legs
    <3>2. margin' = [y \in Exchanges |-> IF y \in Venues(e) THEN WithReservation(margin[y], Need(e))
                                         ELSE margin[y]]
      BY <1>3, <2>2, <3>1 DEF Legs
    <3> QED BY <1>2, <2>0, <2>2, <3>1, <3>2 DEF SameStart, TakesOff
  <2> QED BY <2>0, <2>1, <2>2 DEF SameStart
<1> QED BY <1>4, <1>5

LEMMA StepReserves ==
  ASSUME LockType, NEW e \in Executions, Step(e)
  PROVE  (Stays /\ UNCHANGED margin) \/ Lands(e)
<1>1. CASE UNCHANGED <<pc, resources>>
  BY <1>1, InFlightSame DEF resources, Stays
<1>2. ASSUME Holds(e), NEW where \in InTry, Goto(e, where) PROVE Stays /\ UNCHANGED margin
  <2>1. UNCHANGED <<margin, lapsed>> /\ \A f \in Executions \ {e} : pc'[f] = pc[f]
    BY <1>2 DEF Goto, resources, LockType
  <2>2. pc'[e] = where
    BY <1>2 DEF Goto, LockType
  <2>3. InFlight(e) /\ InFlight(e)'
    BY <1>2, <2>2 DEF Holds, InFlight
  <2> QED BY <2>1, <2>3 DEF Stays, InFlight
<1>3. ASSUME Holds(e), NEW r \in Statuses, Leave(e, r) PROVE Lands(e)
  <2>1. pc'[e] = "done" /\ \A f \in Executions \ {e} : pc'[f] = pc[f]
    BY <1>3 DEF Leave, LockType
  <2>2. InFlight(e) /\ ~InFlight(e)'
    BY <1>3, <2>1, InTryPcs DEF Holds, InFlight
  <2> QED BY <1>3, <2>1, <2>2 DEF Leave, Lands, InFlight
<1> QED BY <1>1, <1>2, <1>3, CrossIsLockStep, SameIsLockStep DEF Step

LEMMA NextReserves ==
  ASSUME LockType, margin \in [Exchanges -> Seq(Nat)], [Next]_vars
  PROVE  ReserveStep
<1>1. CASE UNCHANGED <<pc, margin, lapsed>>
  BY <1>1, InFlightSame DEF ReserveStep, Stays
<1>2. ASSUME NEW x \in Exchanges, Grant(x) PROVE UNCHANGED <<pc, margin, lapsed>>
  BY <1>2 DEF Grant
<1>3. CASE UNCHANGED vars \/ Terminated
  BY <1>1, <1>3 DEF vars, resources, Terminated
<1>4. CASE Environment
  <2>1. ASSUME NEW x \in Exchanges, ReservationLapses(x) PROVE ReserveStep
    BY <2>1, InFlightSame DEF ReservationLapses, ReserveStep
  <2>2. CASE ~\E x \in Exchanges : ReservationLapses(x)
    BY <1>1, <1>4, <2>2 DEF Environment, LateFill, ExternalHalt, DedupWindowPasses, StrandedKeyAges,
                            resources
  <2> QED BY <2>1, <2>2
<1> QED BY <1>1, <1>2, <1>3, <1>4, StartReserves, StepReserves DEF Next, ReserveStep

LEMMA ReservedStep ==
  ASSUME margin \in [Exchanges -> Seq(Nat)], ReservedInv, ReserveStep
  PROVE  ReservedInv'
<1> SUFFICES ASSUME NEW x \in Exchanges PROVE Backed(margin'[x], Flying(x)', x \in lapsed')
  BY DEF ReservedInv
<1>0. /\ Backed(margin[x], Flying(x), x \in lapsed) /\ margin[x] \in Seq(Nat)
      /\ Flying(x) \in SUBSET Executions /\ (x \in lapsed) \in BOOLEAN
  BY DEF ReservedInv, Flying
<1>1. CASE Stays /\ UNCHANGED margin
  <2>1. Flying(x)' = Flying(x)
    BY <1>1 DEF Stays, Flying
  <2> QED BY <1>0, <1>1, <2>1 DEF Stays
<1>2. ASSUME NEW e \in Executions, GivesBack(e)
      PROVE  Backed(margin'[x], Flying(x)', x \in lapsed')
  <2>1. Flying(x)' = Flying(x) /\ lapsed' = lapsed
    BY <1>2 DEF GivesBack, Stays, Flying
  <2>2. \/ margin'[x] = margin[x]
        \/ /\ Need(e) \in Nat \ {0}
           /\ margin'[x] = WithoutReservation(WithReservation(margin[x], Need(e)), Need(e))
    BY <1>2, NeedType DEF GivesBack
  <2>3. Need(e) \in Nat \ {0} =>
          Backed(WithoutReservation(WithReservation(margin[x], Need(e)), Need(e)), Flying(x), x \in lapsed)
    BY <1>0, BackedSame
  <2> QED BY <1>0, <2>1, <2>2, <2>3
<1>3. ASSUME NEW e \in Executions, TakesOff(e)
      PROVE  Backed(margin'[x], Flying(x)', x \in lapsed')
  <2>0. lapsed' = lapsed
    BY <1>3 DEF TakesOff
  <2>1. CASE x \in Venues(e)
    <3>1. Flying(x)' = Flying(x) \cup {e} /\ e \in Executions \ Flying(x)
      BY <1>3, <2>1 DEF TakesOff, Flying
    <3>2. margin'[x] = WithReservation(margin[x], Need(e))
      BY <1>3, <2>1 DEF TakesOff
    <3>3. Need(e) = 0 \/ SeqTotal(margin[x]) + Need(e) <= Budget
      BY <1>3, <2>1 DEF TakesOff, Fits, Reserved, SeqTotal
    <3>4. Backed(WithReservation(margin[x], Need(e)), Flying(x) \cup {e}, x \in lapsed)
      BY <1>0, <3>1, <3>3, BackedMore
    <3> QED BY <2>0, <3>1, <3>2, <3>4
  <2>2. CASE x \notin Venues(e)
    <3>1. Flying(x)' = Flying(x) /\ margin'[x] = margin[x]
      BY <1>3, <2>2 DEF TakesOff, Flying
    <3> QED BY <1>0, <2>0, <3>1
  <2> QED BY <2>1, <2>2
<1>4. ASSUME NEW e \in Executions, Lands(e)
      PROVE  Backed(margin'[x], Flying(x)', x \in lapsed')
  <2>0. lapsed' = lapsed
    BY <1>4 DEF Lands
  <2>1. CASE x \in Venues(e)
    <3>1. Flying(x)' = Flying(x) \ {e} /\ e \in Flying(x)
      BY <1>4, <2>1 DEF Lands, Flying
    <3>2. margin'[x] = WithoutReservation(margin[x], Need(e))
      BY <1>4, <2>1 DEF Lands
    <3>4. Backed(WithoutReservation(margin[x], Need(e)), Flying(x) \ {e}, x \in lapsed)
      BY <1>0, <3>1, BackedLess
    <3> QED BY <2>0, <3>1, <3>2, <3>4
  <2>2. CASE x \notin Venues(e)
    <3>1. Flying(x)' = Flying(x) /\ margin'[x] = margin[x]
      BY <1>4, <2>2 DEF Lands, Flying
    <3> QED BY <1>0, <2>0, <3>1
  <2> QED BY <2>1, <2>2
<1>5. ASSUME NEW y \in Exchanges, margin[y] # <<>>, margin' = [margin EXCEPT ![y] = Tail(@)],
             lapsed' = lapsed \cup {y}, \A f \in Executions : InFlight(f)' = InFlight(f)
      PROVE  Backed(margin'[x], Flying(x)', x \in lapsed')
  <2>1. Flying(x)' = Flying(x)
    BY <1>5 DEF Flying
  <2>2. CASE x = y
    <3>1. Backed(Tail(margin[x]), Flying(x), TRUE)
      BY <1>0, <1>5, <2>2, BackedLapse
    <3>2. margin'[x] = Tail(margin[x]) /\ (x \in lapsed') = TRUE
      BY <1>5, <2>2
    <3> QED BY <2>1, <3>1, <3>2
  <2>3. CASE x # y
    <3>1. margin'[x] = margin[x] /\ (x \in lapsed') = (x \in lapsed)
      BY <1>5, <2>3
    <3> QED BY <1>0, <2>1, <3>1
  <2> QED BY <2>2, <2>3
<1> QED BY <1>1, <1>2, <1>3, <1>4, <1>5 DEF ReserveStep

\* The sum InFlightWithinBudget states is the one of the invariant.
LEMMA NeedsTotal ==
  ASSUME NEW S \in SUBSET Executions
  PROVE  MapThenSumSet(Need, S) = Total(NeedOf, S)
<1> DEFINE p == [s \in SUBSET S |-> CHOOSE y \in s : TRUE]
           F == CHOOSE iter :
                  iter = [s \in SUBSET S |->
                            IF s = {} THEN 0
                            ELSE Need(CHOOSE y \in s : TRUE) + iter[s \ {CHOOSE y \in s : TRUE}]]
<1>1. IsFiniteSet(S) /\ \A e \in S : NeedOf[e] \in Int
  BY NeedsFinite
<1>2. Picks(p, S)
  BY DEF Picks
<1>3. PICK H : IsSum(H, NeedOf, p, S)
  <2> HIDE DEF p
  <2> QED BY <1>1, <1>2, SumExists
<1>4. \A s \in SUBSET S : s # {} =>
         p[s] = (CHOOSE y \in s : TRUE) /\ NeedOf[p[s]] = Need(CHOOSE y \in s : TRUE)
  BY DEF NeedOf
<1>5. \A G : IsSum(G, NeedOf, p, S) <=>
         G = [s \in SUBSET S |->
                IF s = {} THEN 0
                ELSE Need(CHOOSE y \in s : TRUE) + G[s \ {CHOOSE y \in s : TRUE}]]
  <2> TAKE G
  <2>1. [s \in SUBSET S |-> IF s = {} THEN 0 ELSE NeedOf[p[s]] + G[s \ {p[s]}]]
          = [s \in SUBSET S |->
                IF s = {} THEN 0
                ELSE Need(CHOOSE y \in s : TRUE) + G[s \ {CHOOSE y \in s : TRUE}]]
    <3> HIDE DEF p
    <3> QED BY <1>4
  <2> HIDE DEF p
  <2> QED BY <2>1 DEF IsSum
<1>6. IsSum(F, NeedOf, p, S)
  <2>1. F = [s \in SUBSET S |->
               IF s = {} THEN 0
               ELSE Need(CHOOSE y \in s : TRUE) + F[s \ {CHOOSE y \in s : TRUE}]]
    <3>1. H = [s \in SUBSET S |->
                 IF s = {} THEN 0
                 ELSE Need(CHOOSE y \in s : TRUE) + H[s \ {CHOOSE y \in s : TRUE}]]
      <4> HIDE DEF p, F
      <4> QED BY <1>3, <1>5
    <3> QED BY <3>1
  <2> HIDE DEF p, F
  <2> QED BY <1>5, <2>1
<1>7. MapThenSumSet(Need, S) = F[S]
  BY DEF MapThenSumSet, MapThenFoldSet
<1> HIDE DEF p, F
<1>8. PICK K, q : IsSum(K, NeedOf, q, S) /\ Picks(q, S) /\ Total(NeedOf, S) = K[S]
  BY <1>1, TotalIsSum
<1>9. F[S] = K[S]
  BY <1>1, <1>2, <1>6, <1>8, SumsEqual
<1> QED BY <1>7, <1>8, <1>9

\* Nothing is reserved and nobody is in flight when the engine starts.
LEMMA ReservedInit == Init => ReservedInv
<1> SUFFICES ASSUME Init, NEW x \in Exchanges
             PROVE  Backed(margin[x], Flying(x), x \in lapsed)
  BY DEF ReservedInv
<1>1. margin[x] = <<>> /\ Flying(x) = {}
  BY InTryPcs DEF Init, Flying, InFlight
<1>2. \A v : Places(<<>>, v) = {} /\ Needing({}, v) = {}
  BY DEF Places, Needing
<1>3. Cardinality({}) = 0
  BY FS_EmptySet
<1>4. SeqTotal(<<>>) = 0
  <2>1. <<>> \in Seq(Int) /\ DOMAIN <<>> = {}
    OBVIOUS
  <2> QED BY <2>1, SeqTotalIsTotal, TotalOfNothing
<1>5. Total(NeedOf, {}) = 0 /\ Budget \in Nat
  BY TotalOfNothing, ConstantsAssumption
<1>6. \A v : Cardinality(Places(<<>>, v)) = 0 /\ Cardinality(Needing({}, v)) = 0
  BY <1>2, <1>3
<1>7. Backed(<<>>, {}, x \in lapsed)
  <2>1. SeqTotal(<<>>) = Total(NeedOf, {}) /\ SeqTotal(<<>>) <= Budget
    BY <1>4, <1>5
  <2> QED BY <1>6, <2>1 DEF Backed
<1> QED BY <1>1, <1>7

\* Every step keeps the invariant.
THEOREM ReservedAlways == Spec => []ReservedInv
<1>1. TypeOK => LockType /\ margin \in [Exchanges -> Seq(Nat)]
  BY DEF TypeOK, LockType, Pcs
<1>2. TypeOK /\ ReservedInv /\ [Next]_vars => ReservedInv'
  BY <1>1, NextReserves, ReservedStep
<1> QED BY <1>2, ReservedInit, TypeCorrect, PTL DEF Spec

\* The MarginTracker holds one entry for every execution in flight that
\* reserved, by size and by exchange, and never more, whatever the executions,
\* their amounts and outcomes (release() in atomic.py's finally blocks).
THEOREM ReservationsBacked == Spec => []MarginBacked
<1>1. ReservedInv => MarginBacked
  <2> SUFFICES ASSUME ReservedInv, NEW x \in Exchanges,
                      NEW usd \in {Need(e) : e \in Executions} \ {0}
               PROVE  /\ Cardinality(Entries(x, usd)) <= Cardinality(Holders(x, usd))
                      /\ x \notin lapsed =>
                            Cardinality(Entries(x, usd)) = Cardinality(Holders(x, usd))
    BY DEF MarginBacked
  <2>1. usd \in Nat \ {0}
    BY NeedType
  <2>2. Entries(x, usd) = Places(margin[x], usd)
    BY DEF Entries, Places
  <2>3. Holders(x, usd) = Needing(Flying(x), usd)
    BY DEF Holders, Needing, Flying
  <2> QED BY <2>1, <2>2, <2>3 DEF ReservedInv, Backed
<1> QED BY <1>1, ReservedAlways, PTL

\* What the executions in flight on an exchange have committed there stays
\* within its budget until a reservation lapses: reserve() checks the sum of
\* the entries, and the entries sum to what is in flight.
THEOREM CommitmentsWithinBudget == Spec => []InFlightWithinBudget
<1>1. ReservedInv => InFlightWithinBudget
  <2> SUFFICES ASSUME ReservedInv, NEW x \in Exchanges \ lapsed
               PROVE  MapThenSumSet(Need, {e \in Executions : InFlight(e) /\ x \in Venues(e)})
                         <= Budget
    BY DEF InFlightWithinBudget
  <2>1. Flying(x) = {e \in Executions : InFlight(e) /\ x \in Venues(e)}
    BY DEF Flying
  <2>2. MapThenSumSet(Need, Flying(x)) = Total(NeedOf, Flying(x))
    <3>1. Flying(x) \in SUBSET Executions
      BY DEF Flying
    <3> HIDE DEF Flying
    <3> QED BY <3>1, NeedsTotal
  <2>3. Total(NeedOf, Flying(x)) <= Budget
    BY DEF ReservedInv, Backed
  <2> QED BY <2>1, <2>2, <2>3
<1> QED BY <1>1, ReservedAlways, PTL
=============================================================================
