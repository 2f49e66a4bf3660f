---------------------------- MODULE AsyncHandler ----------------------------
(***************************************************************************)
(* async_handler<T>: a worker thread, a queue of jobs, a mutex and a       *)
(* condition variable.  Any thread adds jobs; the worker handles them, and *)
(* handles them while it holds the mutex.  stop() orders the worker to end *)
(* and joins it.  One step of this module is one access to shared state    *)
(* (the mutex, the queue, the flag, the wait set of the condition          *)
(* variable): everything between two such accesses is invisible.           *)
(*                                                                         *)
(* Definitions introduced as a Variant are used by no action: each is the  *)
(* action below it with a plausible mistake, and shows which property      *)
(* notices it.                                                             *)
(*                                                                         *)
(* stop() is called by destructors only, so no add_job overlaps it: every  *)
(* caller of add_job holds a shared_ptr to the handler.  The destructor of *)
(* the vehicle detector calls it a second time, from the base class.       *)
(***************************************************************************)
EXTENDS Naturals, Sequences

CONSTANTS
  Producers,   \* threads that call add_job
  Worker,      \* the handler thread
  NoThread,    \* the owner of a free mutex
  Jobs,        \* values of T
  NoJob,       \* the worker's local j outside the handling of a job
  MaxJobs,     \* bound on the calls of add_job
  MaxStops     \* bound on the calls of stop

ASSUME ThreadsAssumption ==
  /\ Worker \notin Producers
  /\ NoThread \notin Producers \cup {Worker}
ASSUME JobsAssumption == NoJob \notin Jobs
ASSUME BoundsAssumption == MaxJobs \in Nat /\ MaxStops \in Nat

VARIABLES
  run,        \* atomic flag
  msg_q,      \* the queue
  msg_qm,     \* owner of the mutex
  pcW,        \* the worker's next step
  current,    \* its local j
  pc,         \* the next step of each producer
  arg,        \* the job each producer adds
  pcS,        \* the next step of the thread that calls stop
  stops,      \* calls of stop so far
  joinable,   \* handler->joinable()
  added,      \* history: the jobs pushed
  handled     \* history: the jobs handled

vars == <<run, msg_q, msg_qm, pcW, current, pc, arg, pcS, stops, joinable,
          added, handled>>

worker == <<pcW, current, handled>>
producers == <<pc, arg, added>>
stopper == <<run, pcS, stops, joinable>>

Init ==
  /\ run = TRUE
  /\ msg_q = <<>>
  /\ msg_qm = NoThread
  /\ pcW = "loop"
  /\ current = NoJob
  /\ pc = [p \in Producers |-> "idle"]
  /\ arg = [p \in Producers |-> NoJob]
  /\ pcS = "none"
  /\ stops = 0
  /\ joinable = TRUE
  /\ added = <<>>
  /\ handled = <<>>

-----------------------------------------------------------------------------
(* add_job *)

AddCall(p) ==
  /\ pc[p] = "idle"
  /\ pcS = "none"
  /\ Len(added) < MaxJobs
  /\ \E j \in Jobs : arg' = [arg EXCEPT ![p] = j]
  /\ pc' = [pc EXCEPT ![p] = "lock"]
  /\ UNCHANGED <<msg_q, msg_qm, added, worker, stopper>>

\* Variant: add_job without its lock.
AddUnlocked(p) ==
  /\ pc[p] = "lock"
  /\ pc' = [pc EXCEPT ![p] = "push"]
  /\ UNCHANGED <<msg_q, msg_qm, arg, added, worker, stopper>>

AddLock(p) ==
  /\ pc[p] = "lock"
  /\ msg_qm = NoThread
  /\ msg_qm' = p
  /\ pc' = [pc EXCEPT ![p] = "push"]
  /\ UNCHANGED <<msg_q, arg, added, worker, stopper>>

AddPush(p) ==
  /\ pc[p] = "push"
  /\ msg_q' = Append(msg_q, arg[p])
  /\ added' = Append(added, arg[p])
  /\ pc' = [pc EXCEPT ![p] = "notify"]
  /\ UNCHANGED <<msg_qm, arg, worker, stopper>>

\* notify_one: wakes the worker if it waits, else has no effect.
Notify == pcW' = IF pcW = "asleep" THEN "woken" ELSE pcW

\* Variant: add_job without notify_one.
AddSilent(p) ==
  /\ pc[p] = "notify"
  /\ pc' = [pc EXCEPT ![p] = "unlock"]
  /\ UNCHANGED <<msg_q, msg_qm, arg, added, worker, stopper>>

AddNotify(p) ==
  /\ pc[p] = "notify"
  /\ Notify
  /\ pc' = [pc EXCEPT ![p] = "unlock"]
  /\ UNCHANGED <<msg_q, msg_qm, current, handled, arg, added, stopper>>

AddUnlock(p) ==
  /\ pc[p] = "unlock"
  /\ msg_qm' = NoThread
  /\ pc' = [pc EXCEPT ![p] = "idle"]
  /\ arg' = [arg EXCEPT ![p] = NoJob]
  /\ UNCHANGED <<msg_q, added, worker, stopper>>

AddJob(p) ==
  AddCall(p) \/ AddLock(p) \/ AddPush(p) \/ AddNotify(p) \/ AddUnlock(p)

-----------------------------------------------------------------------------
(* The worker *)

\* Variant: the worker drains the queue before it looks at the flag.
WorkerDrain ==
  /\ pcW = "loop"
  /\ pcW' = IF run \/ msg_q # <<>> THEN "lock" ELSE "exit"
  /\ UNCHANGED <<msg_q, msg_qm, current, handled, producers, stopper>>

WorkerLoop ==
  /\ pcW = "loop"
  /\ pcW' = IF run THEN "lock" ELSE "exit"
  /\ UNCHANGED <<msg_q, msg_qm, current, handled, producers, stopper>>

\* The mutex is taken at the top of the loop, and again after a wake-up.
WorkerLock ==
  /\ pcW \in {"lock", "woken"}
  /\ msg_qm = NoThread
  /\ msg_qm' = Worker
  /\ pcW' = "pred"
  /\ UNCHANGED <<msg_q, current, handled, producers, stopper>>

\* The predicate of cv.wait.
WorkerPred ==
  /\ pcW = "pred"
  /\ pcW' = IF msg_q # <<>> \/ ~run THEN "test" ELSE "toSleep"
  /\ UNCHANGED <<msg_q, msg_qm, current, handled, producers, stopper>>

\* Releasing the mutex and joining the wait set are one atomic step.
WorkerSleep ==
  /\ pcW = "toSleep"
  /\ msg_qm' = NoThread
  /\ pcW' = "asleep"
  /\ UNCHANGED <<msg_q, current, handled, producers, stopper>>

\* The standard lets wait return without a notification.
SpuriousWakeup ==
  /\ pcW = "asleep"
  /\ pcW' = "woken"
  /\ UNCHANGED <<msg_q, msg_qm, current, handled, producers, stopper>>

WorkerTake ==
  /\ pcW = "test"
  /\ msg_q # <<>>
  /\ current' = Head(msg_q)
  /\ msg_q' = Tail(msg_q)
  /\ pcW' = "handling"
  /\ UNCHANGED <<msg_qm, handled, producers, stopper>>

WorkerSkip ==
  /\ pcW = "test"
  /\ msg_q = <<>>
  /\ msg_qm' = NoThread
  /\ pcW' = "loop"
  /\ UNCHANGED <<msg_q, current, handled, producers, stopper>>

\* Variants: j outlives its scope; the lock outlives the iteration.
WorkerKeepsJob ==
  /\ pcW = "handling"
  /\ handled' = Append(handled, current)
  /\ msg_qm' = NoThread
  /\ pcW' = "loop"
  /\ UNCHANGED <<msg_q, current, producers, stopper>>

WorkerKeepsLock ==
  /\ pcW = "handling"
  /\ handled' = Append(handled, current)
  /\ current' = NoJob
  /\ pcW' = "loop"
  /\ UNCHANGED <<msg_q, msg_qm, producers, stopper>>

\* handle(j) returns, then the scope of the lock ends.
WorkerFinish ==
  /\ pcW = "handling"
  /\ handled' = Append(handled, current)
  /\ current' = NoJob
  /\ msg_qm' = NoThread
  /\ pcW' = "loop"
  /\ UNCHANGED <<msg_q, producers, stopper>>

WorkerStep ==
  \/ WorkerLoop \/ WorkerLock \/ WorkerPred \/ WorkerSleep
  \/ WorkerTake \/ WorkerSkip \/ WorkerFinish

-----------------------------------------------------------------------------
(* stop: the flag and the notification are not under the mutex. *)

StopFlag ==
  /\ pcS \in {"none", "returned"}
  /\ stops < MaxStops
  /\ \A p \in Producers : pc[p] = "idle"
  /\ run' = FALSE
  /\ stops' = stops + 1
  /\ pcS' = "flagged"
  /\ UNCHANGED <<msg_q, msg_qm, joinable, worker, producers>>

StopNotify ==
  /\ pcS = "flagged"
  /\ Notify
  /\ pcS' = "joining"
  /\ UNCHANGED <<run, msg_q, msg_qm, current, handled, stops, joinable, producers>>

\* Variant: the worker is detached instead of joined.
StopDetach ==
  /\ pcS = "joining"
  /\ joinable' = FALSE
  /\ pcS' = "returned"
  /\ UNCHANGED <<run, msg_q, msg_qm, stops, worker, producers>>

StopJoin ==
  /\ pcS = "joining"
  /\ joinable => pcW = "exit"
  /\ joinable' = FALSE
  /\ pcS' = "returned"
  /\ UNCHANGED <<run, msg_q, msg_qm, stops, worker, producers>>

StopStep == StopFlag \/ StopNotify \/ StopJoin

-----------------------------------------------------------------------------

Next ==
  \/ \E p \in Producers : AddJob(p)
  \/ WorkerStep
  \/ SpuriousWakeup
  \/ StopStep

(***************************************************************************)
(* Every thread that can take a step takes one; nobody has to call add_job *)
(* or stop, and no spurious wake-up has to come.                           *)
(***************************************************************************)
Fairness ==
  /\ WF_vars(WorkerStep)
  /\ \A p \in Producers :
       WF_vars(AddLock(p) \/ AddPush(p) \/ AddNotify(p) \/ AddUnlock(p))
  /\ WF_vars(StopNotify \/ StopJoin)

Spec == Init /\ [][Next]_vars
FairSpec == Spec /\ Fairness

-----------------------------------------------------------------------------
(* Properties *)

WorkerPcs == {"loop", "lock", "pred", "toSleep", "asleep", "woken", "test",
              "handling", "exit"}
ProducerPcs == {"idle", "lock", "push", "notify", "unlock"}
StopperPcs == {"none", "flagged", "joining", "returned"}

\* Type invariant: the worker has a job exactly while it handles one, and a
\* producer exactly between the call of add_job and its return.
TypeOK ==
  /\ run \in BOOLEAN
  /\ msg_q \in Seq(Jobs)
  /\ msg_qm \in Producers \cup {Worker, NoThread}
  /\ pcW \in WorkerPcs
  /\ current \in Jobs \cup {NoJob}
  /\ (current = NoJob) <=> (pcW # "handling")
  /\ pc \in [Producers -> ProducerPcs]
  /\ arg \in [Producers -> Jobs \cup {NoJob}]
  /\ \A p \in Producers : (arg[p] = NoJob) <=> (pc[p] = "idle")
  /\ pcS \in StopperPcs
  /\ stops \in 0 .. MaxStops
  /\ joinable \in BOOLEAN
  /\ added \in Seq(Jobs)
  /\ handled \in Seq(Jobs)

\* The threads whose next step reads or writes msg_q.
Touching ==
  {p \in Producers : pc[p] = "push"}
    \cup (IF pcW \in {"pred", "test"} THEN {Worker} ELSE {})

\* No data race on msg_q: of all the producers and the worker at most one is
\* about to touch the queue, although stop changes what they wait for without
\* the mutex.
NoRaceOnQueue == \A s, t \in Touching : s = t

\* No wake-up is lost by add_job: a worker asleep over a queued job is about to
\* be notified by the producer that queued it.
NoSleepOverAJob ==
  pcW = "asleep" /\ msg_q # <<>> => \E p \in Producers : pc[p] = "notify"

Taken == Len(handled) + (IF current = NoJob THEN 0 ELSE 1)

\* First in, first out, and nothing dropped or duplicated: what was handled, is
\* being handled and is queued is what was added, in that order.
Fifo ==
  /\ Len(added) = Taken + Len(msg_q)
  /\ \A i \in 1 .. Len(handled) : handled[i] = added[i]
  /\ current # NoJob => current = added[Len(handled) + 1]
  /\ \A i \in 1 .. Len(msg_q) : msg_q[i] = added[Taken + i]

\* When a stop has returned the worker thread is gone, whatever it was doing
\* when the flag was cleared: no handle() runs on a destroyed object.
ReturnedMeansGone == pcS = "returned" => pcW = "exit" /\ ~joinable

\* Every job that was added is handled in the end, unless stop comes first.
EveryJobHandled ==
  \A n \in 1 .. MaxJobs : Len(added) >= n ~> (Len(handled) >= n \/ ~run)

\* A stop that was called returns: "Stopping server." ends with the server
\* stopped (the signal handler of DDS.cpp logs it, and the destructors of the
\* clients then call stop).
StopReturns == pcS = "flagged" ~> pcS = "returned"

-----------------------------------------------------------------------------
(* The refinement: the worker may begin a job as long as it has not yet read *)
(* a cleared flag at the top of its loop.                                    *)

Queue == INSTANCE JobQueue WITH
  busy <- pcW = "handling",
  phase <- IF run THEN "open" ELSE IF joinable THEN "closing" ELSE "closed",
  grace <- run \/ pcW \notin {"loop", "handling", "exit"}

\* async_handler keeps its promise to its users: jobs are handled one at a time
\* in order, at most one more begins after stop, and none after it returned.
ImplementsJobQueue == Queue!Spec
=============================================================================
