------------------------- MODULE AsyncHandlerProofs -------------------------
(***************************************************************************)
(* Proofs about AsyncHandler for any number of producers, jobs and calls   *)
(* of stop: the type invariant, the absence of races on the queue, the     *)
(* absence of lost wake-ups from add_job, the order of handling, the end   *)
(* of the worker when stop returns, and the implementation of JobQueue.    *)
(***************************************************************************)
EXTENDS AsyncHandler, TLAPS

(***************************************************************************)
(* The inductive invariant.  LockInv ties the mutex to the program         *)
(* counters; SleepInv adds to NoSleepOverAJob what the worker knows after  *)
(* the predicate of cv.wait; StopInv says how far stop has come.           *)
(***************************************************************************)
InCritical(p) == pc[p] \in {"push", "notify", "unlock"}
WorkerInCritical == pcW \in {"pred", "toSleep", "test", "handling"}

LockInv ==
  /\ \A p \in Producers : InCritical(p) <=> msg_qm = p
  /\ WorkerInCritical <=> msg_qm = Worker

SleepInv ==
  /\ NoSleepOverAJob
  /\ pcW = "toSleep" => msg_q = <<>>

StopInv ==
  /\ ~joinable => pcW = "exit"
  /\ pcS = "returned" => ~joinable
  /\ pcS = "none" => run /\ joinable
  /\ pcS # "none" => ~run /\ \A p \in Producers : pc[p] = "idle"

IInv == TypeOK /\ LockInv /\ SleepInv /\ Fifo /\ StopInv

-----------------------------------------------------------------------------

\* What Append returns: one more element, the others where they were.
LEMMA AppendFacts ==
  ASSUME NEW S, NEW s \in Seq(S), NEW e \in S
  PROVE  /\ Append(s, e) \in Seq(S)
         /\ Len(Append(s, e)) = Len(s) + 1
         /\ \A i \in 1 .. Len(s) : Append(s, e)[i] = s[i]
         /\ Append(s, e)[Len(s) + 1] = e
         /\ Append(s, e) # <<>>
  OBVIOUS

\* What Head and Tail return for a sequence that is not empty.
LEMMA TailFacts ==
  ASSUME NEW S, NEW s \in Seq(S), s # <<>>
  PROVE  /\ Head(s) \in S
         /\ Head(s) = s[1]
         /\ Tail(s) \in Seq(S)
         /\ Len(Tail(s)) = Len(s) - 1
         /\ Len(s) > 0
         /\ \A i \in 1 .. Len(Tail(s)) : Tail(s)[i] = s[i + 1]
  OBVIOUS

LEMMA InitInvariant == Init => IInv
  <1> SUFFICES ASSUME Init PROVE IInv
    OBVIOUS
  <1> USE DEF Init
  <1>1. TypeOK
    BY BoundsAssumption DEF TypeOK, WorkerPcs, ProducerPcs, StopperPcs
  <1>2. LockInv
    BY ThreadsAssumption DEF LockInv, InCritical, WorkerInCritical
  <1>3. SleepInv /\ Fifo /\ StopInv
    BY DEF SleepInv, NoSleepOverAJob, Fifo, Taken, StopInv
  <1> QED
    BY <1>1, <1>2, <1>3 DEF IInv

-----------------------------------------------------------------------------
(* Each action preserves the invariant. *)

LEMMA StutterInvariant ==
  ASSUME IInv, UNCHANGED vars
  PROVE  IInv'
  BY DEF IInv, TypeOK, LockInv, InCritical, WorkerInCritical, SleepInv,
         NoSleepOverAJob, Fifo, Taken, StopInv, vars

\* add_job: only the push touches the queue, and only under the mutex.
LEMMA AddJobInvariant ==
  ASSUME IInv, NEW p \in Producers, AddJob(p)
  PROVE  IInv'
  <1> USE DEF IInv
  <1>1. CASE AddCall(p)
    <2> USE <1>1 DEF AddCall, worker, stopper
    <2>1. PICK j \in Jobs : arg' = [arg EXCEPT ![p] = j]
      OBVIOUS
    <2>2. TypeOK'
      BY <2>1, JobsAssumption DEF TypeOK, ProducerPcs
    <2>3. LockInv' /\ SleepInv' /\ Fifo' /\ StopInv'
      BY DEF TypeOK, LockInv, InCritical, WorkerInCritical, SleepInv,
             NoSleepOverAJob, Fifo, Taken, StopInv
    <2> QED
      BY <2>2, <2>3
  <1>2. CASE AddLock(p)
    <2> USE <1>2 DEF AddLock, worker, stopper
    <2>1. TypeOK'
      BY DEF TypeOK, ProducerPcs
    <2>2. LockInv'
      BY ThreadsAssumption DEF TypeOK, LockInv, InCritical, WorkerInCritical
    <2>3. SleepInv' /\ Fifo' /\ StopInv'
      BY DEF TypeOK, SleepInv, NoSleepOverAJob, Fifo, Taken, StopInv
    <2> QED
      BY <2>1, <2>2, <2>3
  <1>3. CASE AddPush(p)
    <2> USE <1>3 DEF AddPush, worker, stopper
    <2>1. arg[p] \in Jobs
      BY DEF TypeOK
    <2>2. /\ msg_q' \in Seq(Jobs)
          /\ Len(msg_q') = Len(msg_q) + 1
          /\ \A i \in 1 .. Len(msg_q) : msg_q'[i] = msg_q[i]
          /\ msg_q'[Len(msg_q) + 1] = arg[p]
      BY <2>1, AppendFacts DEF TypeOK
    <2>3. /\ added' \in Seq(Jobs)
          /\ Len(added') = Len(added) + 1
          /\ \A i \in 1 .. Len(added) : added'[i] = added[i]
          /\ added'[Len(added) + 1] = arg[p]
      BY <2>1, AppendFacts DEF TypeOK
    <2>4. TypeOK'
      BY <2>2, <2>3 DEF TypeOK, ProducerPcs
    <2>5. LockInv'
      BY DEF TypeOK, LockInv, InCritical, WorkerInCritical
    <2>6. SleepInv'
      BY ThreadsAssumption
         DEF TypeOK, SleepInv, NoSleepOverAJob, LockInv, InCritical, WorkerInCritical
    <2>7. Fifo'
      <3>1. /\ Taken' = Taken
            /\ Taken \in Nat
            /\ Len(handled) \in Nat
            /\ Len(msg_q) \in Nat
            /\ Len(handled) <= Taken
        BY DEF TypeOK, Taken
      <3>2. current # NoJob => Taken = Len(handled) + 1
        BY DEF Taken
      <3>3. handled' = handled /\ current' = current
        OBVIOUS
      <3>4. Len(added) = Taken + Len(msg_q)
        BY DEF Fifo
      <3>5. Len(added') = Taken' + Len(msg_q')
        BY <2>2, <2>3, <3>1, <3>4
      <3>6. \A i \in 1 .. Len(handled') : handled'[i] = added'[i]
        <4>1. \A i \in 1 .. Len(handled) : i \in 1 .. Len(added) /\ handled[i] = added[i]
          BY <3>1, <3>4 DEF Fifo
        <4> QED
          BY <2>3, <3>3, <4>1
      <3>7. current' # NoJob => current' = added'[Len(handled') + 1]
        <4>1. current # NoJob => /\ Len(handled) + 1 \in 1 .. Len(added)
                                 /\ current = added[Len(handled) + 1]
          BY <3>1, <3>2, <3>4 DEF Fifo
        <4> QED
          BY <2>3, <3>3, <4>1
      <3>8. \A i \in 1 .. Len(msg_q') : msg_q'[i] = added'[Taken' + i]
        <4>1. \A i \in 1 .. Len(msg_q) : Taken + i \in 1 .. Len(added) /\ msg_q[i] = added[Taken + i]
          BY <3>1, <3>4 DEF Fifo
        <4>2. msg_q'[Len(msg_q) + 1] = added'[Taken + (Len(msg_q) + 1)]
          BY <2>2, <2>3, <3>1, <3>4
        <4>3. ASSUME NEW i \in 1 .. Len(msg_q')
              PROVE  msg_q'[i] = added'[Taken + i]
          <5>1. CASE i = Len(msg_q) + 1
            BY <4>2, <5>1
          <5>2. CASE i \in 1 .. Len(msg_q)
            <6>1. msg_q'[i] = msg_q[i] /\ added'[Taken + i] = added[Taken + i]
              BY <2>2, <2>3, <4>1, <5>2
            <6> QED
              BY <4>1, <5>2, <6>1
          <5>3. i \in 1 .. Len(msg_q) \/ i = Len(msg_q) + 1
            <6> HIDE <1>3 DEF AddPush, worker, stopper
            <6>1. Len(msg_q) \in Nat /\ i \in 1 .. Len(msg_q) + 1
              BY <2>2, <3>1
            <6> QED
              BY <6>1
          <5> QED
            BY <5>1, <5>2, <5>3
        <4> QED
          BY <3>1, <4>3
      <3> QED
        BY <3>5, <3>6, <3>7, <3>8 DEF Fifo
    <2>8. StopInv'
      BY DEF TypeOK, StopInv
    <2> QED
      BY <2>4, <2>5, <2>6, <2>7, <2>8
  <1>4. CASE AddNotify(p)
    <2> USE <1>4 DEF AddNotify, Notify, stopper
    <2>1. TypeOK'
      BY DEF TypeOK, ProducerPcs, WorkerPcs
    <2>2. LockInv'
      BY DEF TypeOK, LockInv, InCritical, WorkerInCritical
    <2>3. SleepInv' /\ Fifo' /\ StopInv'
      BY DEF TypeOK, SleepInv, NoSleepOverAJob, Fifo, Taken, StopInv
    <2> QED
      BY <2>1, <2>2, <2>3
  <1>5. CASE AddUnlock(p)
    <2> USE <1>5 DEF AddUnlock, worker, stopper
    <2>1. TypeOK'
      BY JobsAssumption DEF TypeOK, ProducerPcs
    <2>2. LockInv'
      BY ThreadsAssumption DEF TypeOK, LockInv, InCritical, WorkerInCritical
    <2>3. SleepInv' /\ Fifo' /\ StopInv'
      BY DEF TypeOK, SleepInv, NoSleepOverAJob, Fifo, Taken, StopInv
    <2> QED
      BY <2>1, <2>2, <2>3
  <1> QED
    BY <1>1, <1>2, <1>3, <1>4, <1>5 DEF AddJob

\* The worker: it looks at the queue only while it owns the mutex.
LEMMA WorkerInvariant ==
  ASSUME IInv, WorkerStep
  PROVE  IInv'
  <1> USE DEF IInv
  <1>1. CASE WorkerLoop
    BY <1>1 DEF WorkerLoop, producers, stopper, TypeOK, WorkerPcs, LockInv,
                InCritical, WorkerInCritical, SleepInv, NoSleepOverAJob, Fifo,
                Taken, StopInv
  <1>2. CASE WorkerLock
    BY <1>2, ThreadsAssumption
       DEF WorkerLock, producers, stopper, TypeOK, WorkerPcs, LockInv,
           InCritical, WorkerInCritical, SleepInv, NoSleepOverAJob, Fifo,
           Taken, StopInv
  <1>3. CASE WorkerPred
    BY <1>3 DEF WorkerPred, producers, stopper, TypeOK, WorkerPcs, LockInv,
                InCritical, WorkerInCritical, SleepInv, NoSleepOverAJob, Fifo,
                Taken, StopInv
  <1>4. CASE WorkerSleep
    BY <1>4, ThreadsAssumption
       DEF WorkerSleep, producers, stopper, TypeOK, WorkerPcs, LockInv,
           InCritical, WorkerInCritical, SleepInv, NoSleepOverAJob, Fifo,
           Taken, StopInv
  <1>5. CASE WorkerTake
    <2> USE <1>5 DEF WorkerTake, producers, stopper
    <2>1. /\ current' \in Jobs
          /\ current' = msg_q[1]
          /\ msg_q' \in Seq(Jobs)
          /\ Len(msg_q') = Len(msg_q) - 1
          /\ Len(msg_q) > 0
          /\ \A i \in 1 .. Len(msg_q') : msg_q'[i] = msg_q[i + 1]
      BY TailFacts DEF TypeOK
    <2>2. TypeOK'
      BY <2>1, JobsAssumption DEF TypeOK, WorkerPcs
    <2>3. LockInv' /\ SleepInv' /\ StopInv'
      BY DEF TypeOK, LockInv, InCritical, WorkerInCritical, SleepInv,
             NoSleepOverAJob, StopInv
    <2>4. Fifo'
      <3>1. Taken = Len(handled) /\ Taken' = Len(handled) + 1
        BY <2>1, JobsAssumption DEF TypeOK, Taken
      <3>2. Len(handled) \in Nat /\ Len(msg_q) \in Nat
        BY DEF TypeOK
      <3>3. Len(added') = Taken' + Len(msg_q')
        <4>1. added' = added
          OBVIOUS
        <4>2. Len(added) = Taken + Len(msg_q)
          BY DEF Fifo
        <4>3. Len(msg_q') = Len(msg_q) - 1
          BY <2>1
        <4> QED
          BY <3>1, <3>2, <4>1, <4>2, <4>3
      <3>4. \A i \in 1 .. Len(handled) : handled'[i] = added'[i]
        BY DEF Fifo
      <3>5. current' = added'[Len(handled) + 1]
        BY <2>1, <3>1, <3>2 DEF Fifo
      <3>6. ASSUME NEW i \in 1 .. Len(msg_q') PROVE msg_q'[i] = added'[Taken' + i]
        <4>1. i + 1 \in 1 .. Len(msg_q) /\ i \in Nat
          BY <2>1, <3>2
        <4>2. msg_q[i + 1] = added[Taken + (i + 1)]
          BY <4>1 DEF Fifo
        <4>3. Taken + (i + 1) = Taken' + i
          BY <3>1, <3>2, <4>1
        <4> QED
          BY <2>1, <4>2, <4>3
      <3> QED
        BY <3>3, <3>4, <3>5, <3>6 DEF Fifo
    <2> QED
      BY <2>2, <2>3, <2>4
  <1>6. CASE WorkerSkip
    BY <1>6, ThreadsAssumption
       DEF WorkerSkip, producers, stopper, TypeOK, WorkerPcs, LockInv,
           InCritical, WorkerInCritical, SleepInv, NoSleepOverAJob, Fifo,
           Taken, StopInv
  <1>7. CASE WorkerFinish
    <2> USE <1>7 DEF WorkerFinish, producers, stopper
    <2>1. current \in Jobs /\ current # NoJob
      BY DEF TypeOK
    <2>2. /\ handled' \in Seq(Jobs)
          /\ Len(handled') = Len(handled) + 1
          /\ \A i \in 1 .. Len(handled) : handled'[i] = handled[i]
          /\ handled'[Len(handled) + 1] = current
      BY <2>1, AppendFacts DEF TypeOK
    <2>3. TypeOK'
      BY <2>2 DEF TypeOK, WorkerPcs
    <2>4. LockInv' /\ SleepInv' /\ StopInv'
      BY ThreadsAssumption
         DEF TypeOK, LockInv, InCritical, WorkerInCritical, SleepInv,
             NoSleepOverAJob, StopInv
    <2>5. Fifo'
      <3>1. Taken = Len(handled) + 1 /\ Taken' = Len(handled) + 1
        BY <2>1, <2>2 DEF Taken
      <3>2. Len(handled) \in Nat /\ Len(msg_q) \in Nat
        BY DEF TypeOK
      <3> QED
        BY <2>1, <2>2, <3>1, <3>2 DEF Fifo
    <2> QED
      BY <2>3, <2>4, <2>5
  <1> QED
    BY <1>1, <1>2, <1>3, <1>4, <1>5, <1>6, <1>7 DEF WorkerStep

LEMMA SpuriousInvariant ==
  ASSUME IInv, SpuriousWakeup
  PROVE  IInv'
  BY DEF IInv, SpuriousWakeup, producers, stopper, TypeOK, WorkerPcs, LockInv,
         InCritical, WorkerInCritical, SleepInv, NoSleepOverAJob, Fifo, Taken,
         StopInv

\* stop: the join is what makes a returned stop mean that the worker is gone.
LEMMA StopInvariant ==
  ASSUME IInv, StopStep
  PROVE  IInv'
  <1> USE DEF IInv
  <1>1. CASE StopFlag
    <2>1. TypeOK'
      <3>1. stops' \in 0 .. MaxStops
        BY <1>1, BoundsAssumption DEF StopFlag, TypeOK
      <3> QED
        BY <1>1, <3>1 DEF StopFlag, worker, producers, TypeOK, StopperPcs
    <2>2. LockInv' /\ SleepInv' /\ Fifo' /\ StopInv'
      BY <1>1 DEF StopFlag, worker, producers, TypeOK, LockInv, InCritical,
                  WorkerInCritical, SleepInv, NoSleepOverAJob, Fifo, Taken, StopInv
    <2> QED
      BY <2>1, <2>2
  <1>2. CASE StopNotify
    BY <1>2 DEF StopNotify, Notify, producers, TypeOK, WorkerPcs, StopperPcs,
                LockInv, InCritical, WorkerInCritical, SleepInv, NoSleepOverAJob,
                Fifo, Taken, StopInv
  <1>3. CASE StopJoin
    BY <1>3 DEF StopJoin, worker, producers, TypeOK, StopperPcs, LockInv,
                InCritical, WorkerInCritical, SleepInv, NoSleepOverAJob, Fifo,
                Taken, StopInv
  <1> QED
    BY <1>1, <1>2, <1>3 DEF StopStep

\* The inductive invariant holds in every reachable state.
THEOREM Invariance == Spec => []IInv
  <1>1. IInv /\ [Next]_vars => IInv'
    BY StutterInvariant, AddJobInvariant, WorkerInvariant, SpuriousInvariant,
       StopInvariant
       DEF Next
  <1> QED
    BY <1>1, InitInvariant, PTL DEF Spec

-----------------------------------------------------------------------------

\* TypeOK, for any number of threads and jobs.
THEOREM TypeCorrect == Spec => []TypeOK
  BY Invariance, PTL DEF IInv

\* The producers and the worker never access msg_q at the same time.
THEOREM RaceFree == Spec => []NoRaceOnQueue
  <1>1. IInv => NoRaceOnQueue
    BY ThreadsAssumption
       DEF IInv, LockInv, InCritical, WorkerInCritical, NoRaceOnQueue, Touching
  <1> QED
    BY <1>1, Invariance, PTL

\* add_job loses no wake-up of the worker.
THEOREM NoLostWakeup == Spec => []NoSleepOverAJob
  BY Invariance, PTL DEF IInv, SleepInv

\* Jobs are handled in the order they were added, none lost or duplicated.
THEOREM FirstInFirstOut == Spec => []Fifo
  BY Invariance, PTL DEF IInv

\* When stop has returned the worker thread has ended.
THEOREM StopEndsWorker == Spec => []ReturnedMeansGone
  <1>1. IInv => ReturnedMeansGone
    BY DEF IInv, StopInv, ReturnedMeansGone
  <1> QED
    BY <1>1, Invariance, PTL

-----------------------------------------------------------------------------
(***************************************************************************)
(* The refinement.  A push is Add, the worker's take is Begin, the end of  *)
(* handle is End, the first stop is Close, the join is Closed; GiveUp is   *)
(* the worker reading a cleared flag or finding no job after stop.         *)
(***************************************************************************)
QueueStep == [Queue!Next]_(Queue!vars)

LEMMA AddJobImplements ==
  ASSUME IInv, NEW p \in Producers, AddJob(p)
  PROVE  QueueStep
  <1> USE DEF IInv
  <1>1. CASE AddPush(p)
    <2>1. arg[p] \in Jobs /\ run
      BY <1>1 DEF AddPush, TypeOK, StopInv
    <2>2. Queue!Add(arg[p])
      BY <1>1, <2>1 DEF AddPush, worker, stopper, Queue!Add
    <2> QED
      BY <2>1, <2>2 DEF QueueStep, Queue!Next
  <1>2. CASE AddCall(p) \/ AddLock(p) \/ AddUnlock(p)
    BY <1>2 DEF AddCall, AddLock, AddUnlock, worker, stopper, QueueStep, Queue!vars
  <1>3. CASE AddNotify(p)
    BY <1>3 DEF AddNotify, Notify, worker, stopper, QueueStep, Queue!vars
  <1> QED
    BY <1>1, <1>2, <1>3 DEF AddJob

LEMMA WorkerImplements ==
  ASSUME IInv, WorkerStep
  PROVE  QueueStep
  <1> USE DEF IInv
  <1>1. CASE WorkerTake
    <2>1. Len(handled) < Len(added)
      <3>1. Len(msg_q) > 0 /\ Len(msg_q) \in Nat /\ Len(handled) \in Nat
        BY <1>1, TailFacts DEF WorkerTake, TypeOK
      <3>2. Len(added) = Len(handled) + Len(msg_q)
        BY <1>1, <3>1 DEF WorkerTake, TypeOK, Fifo, Taken
      <3> QED
        BY <3>1, <3>2
    <2>2. Queue!Begin
      BY <1>1, <2>1 DEF WorkerTake, producers, stopper, StopInv, Queue!Begin
    <2> QED
      BY <2>2 DEF QueueStep, Queue!Next
  <1>2. CASE WorkerFinish
    <2>1. current = added[Len(handled) + 1]
      BY <1>2 DEF WorkerFinish, TypeOK, Fifo
    <2>2. Queue!End
      BY <1>2, <2>1 DEF WorkerFinish, producers, stopper, Queue!End
    <2> QED
      BY <2>2 DEF QueueStep, Queue!Next
  <1>3. CASE WorkerLoop \/ WorkerSkip
    <2>1. CASE run
      BY <1>3, <2>1 DEF WorkerLoop, WorkerSkip, producers, stopper, QueueStep,
                        Queue!vars
    <2>2. CASE ~run
      BY <1>3, <2>2 DEF WorkerLoop, WorkerSkip, producers, stopper, StopInv,
                        QueueStep, Queue!vars, Queue!Next, Queue!GiveUp
    <2> QED
      BY <2>1, <2>2 DEF TypeOK
  <1>4. CASE WorkerLock \/ WorkerPred \/ WorkerSleep
    BY <1>4 DEF WorkerLock, WorkerPred, WorkerSleep, producers, stopper,
                QueueStep, Queue!vars
  <1> QED
    BY <1>1, <1>2, <1>3, <1>4 DEF WorkerStep

LEMMA SpuriousImplements ==
  ASSUME IInv, SpuriousWakeup
  PROVE  QueueStep
  BY DEF SpuriousWakeup, producers, stopper, QueueStep, Queue!vars

LEMMA StopImplements ==
  ASSUME IInv, StopStep
  PROVE  QueueStep
  <1> USE DEF IInv
  <1>1. CASE StopFlag
    <2>1. CASE pcS = "none"
      <3>1. run /\ joinable
        BY <2>1 DEF StopInv
      <3>2. Queue!Close
        BY <1>1, <3>1 DEF StopFlag, worker, producers, Queue!Close
      <3> QED
        BY <3>2 DEF QueueStep, Queue!Next
    <2>2. CASE pcS # "none"
      BY <1>1, <2>2 DEF StopFlag, worker, producers, StopInv, QueueStep, Queue!vars
    <2> QED
      BY <2>1, <2>2
  <1>2. CASE StopNotify
    BY <1>2 DEF StopNotify, Notify, producers, QueueStep, Queue!vars
  <1>3. CASE StopJoin
    <2>1. pcW = "exit" /\ ~run
      BY <1>3 DEF StopJoin, StopInv
    <2>2. CASE joinable
      <3>1. Queue!Closed
        BY <1>3, <2>1, <2>2 DEF StopJoin, worker, producers, Queue!Closed
      <3> QED
        BY <3>1 DEF QueueStep, Queue!Next
    <2>3. CASE ~joinable
      BY <1>3, <2>1, <2>3 DEF StopJoin, worker, producers, TypeOK, QueueStep, Queue!vars
    <2> QED
      BY <2>2, <2>3
  <1> QED
    BY <1>1, <1>2, <1>3 DEF StopStep

\* async_handler implements JobQueue: one job at a time, in order, at most one
\* begun after stop was called and none after it returned.
THEOREM Implementation == Spec => ImplementsJobQueue
  <1>1. Init => Queue!Init
    BY DEF Init, Queue!Init
  <1>2. IInv /\ [Next]_vars => QueueStep
    <2>1. ASSUME IInv, UNCHANGED vars PROVE QueueStep
      BY <2>1 DEF vars, QueueStep, Queue!vars
    <2> QED
      BY <2>1, AddJobImplements, WorkerImplements, SpuriousImplements,
         StopImplements
         DEF Next
  <1> QED
    BY <1>1, <1>2, Invariance, PTL DEF Spec, ImplementsJobQueue, Queue!Spec, QueueStep

=============================================================================
