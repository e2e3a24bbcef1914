-------------------------- MODULE Lifecycle_proof ---------------------------
(***************************************************************************)
(* Proofs about the thread pool, for every set of workers and tasks and    *)
(* every number of submissions; and about the life of a Server around it,  *)
(* for every configuration file and every moment at which start() returns: *)
(* the pool keeps its promises there, tasks that run see every member but  *)
(* those declared behind the pool, and the file that loadConfig writes     *)
(* says what Config{} says.                                                *)
(***************************************************************************)
EXTENDS Lifecycle, FiniteSetTheorems, SequenceTheorems, TLAPS

USE NoTaskIsNoTask, MaxSubmitsNat

\* Every step preserves the type invariant, so the pool is type-correct: in
\* particular a worker holds a task exactly while it runs it.
THEOREM TypeCorrect == Spec => []TypeOK
<1>1. Init => TypeOK
  <2>1. Init => stop \in BOOLEAN
    BY Zenon DEF Init
  <2> QED
    BY <2>1 DEF Init, TypeOK, WorkerPc, OwnerPc
<1>2. TypeOK /\ [Next]_vars => TypeOK'
  <2> SUFFICES ASSUME TypeOK, [Next]_vars
               PROVE  TypeOK'
    OBVIOUS
  <2> USE DEF TypeOK, WorkerPc, OwnerPc, hist, Goto
  <2>1. ASSUME NEW t \in Tasks, Submit(t)
        PROVE  TypeOK'
    BY <2>1 DEF Submit, Push
  <2>2. CASE NotifyOne
    BY <2>2 DEF NotifyOne, WakeOne, At
  <2>3. CASE Destroy
    BY <2>3 DEF Destroy
  <2>4. CASE NotifyAll
    BY <2>4 DEF NotifyAll, WakeAll
  <2>5. CASE Join
    BY <2>5 DEF Join
  <2>6. ASSUME NEW w \in Workers, Sleep(w) \/ SpuriousWakeup(w) \/ Exit(w)
        PROVE  TypeOK'
    <3>1. wpc[w] \in {"ready", "asleep"} /\ UNCHANGED <<tasks, stop, cur, opc, hist>>
      BY <2>6 DEF Sleep, SpuriousWakeup, Exit
    <3>2. \E pc \in {"asleep", "ready", "exited"} : Goto(w, pc)
      BY <2>6 DEF Sleep, SpuriousWakeup, Exit
    <3> QED
      BY <3>1, <3>2
  <2>7. ASSUME NEW w \in Workers, Take(w)
        PROVE  TypeOK'
    <3>1. tasks # <<>>
      BY <2>7 DEF Take, MayProceed, MayExit
    <3>2. Head(tasks) \in Tasks /\ Tail(tasks) \in Seq(Tasks)
      BY <3>1, HeadTailProperties
    <3> QED
      BY <2>7, <3>2 DEF Take, Pop
  <2>8. ASSUME NEW w \in Workers, Return(w)
        PROVE  TypeOK'
    BY <2>8 DEF Return, AfterTask
  <2>9. ASSUME NEW w \in Workers, Throw(w)
        PROVE  TypeOK'
    BY <2>9 DEF Throw
  <2>10. CASE UNCHANGED vars
    BY <2>10 DEF vars
  <2> QED
    BY <2>1, <2>2, <2>3, <2>4, <2>5, <2>6, <2>7, <2>8, <2>9, <2>10
       DEF Next, Owner, Worker, Ended
<1> QED
  BY <1>1, <1>2, PTL DEF Spec

\* What a worker that passes the predicate and does not exit finds in the
\* queue: at least one task.
LEMMA TakeFindsATask ==
    ASSUME TypeOK, NEW w \in Workers, Take(w)
    PROVE  /\ Head(tasks) \in Tasks
           /\ Tail(tasks) \in Seq(Tasks)
           /\ Len(tasks) > 0
           /\ Len(Tail(tasks)) = Len(tasks) - 1
           /\ tasks = <<Head(tasks)>> \o Tail(tasks)
<1>1. tasks \in Seq(Tasks) /\ tasks # <<>>
  BY DEF Take, MayProceed, MayExit, TypeOK
<1> QED
  BY <1>1, HeadTailProperties, SMT

\* Moving the front of the queue to the end of what has been started leaves
\* their concatenation as it was.
LEMMA TakeKeepsOrder ==
    ASSUME TypeOK, FifoExactlyOnce, NEW w \in Workers, Take(w)
    PROVE  submitted = Append(started, Head(tasks)) \o Tail(tasks)
<1>1. /\ started \in Seq(Tasks) /\ Head(tasks) \in Tasks /\ Tail(tasks) \in Seq(Tasks)
      /\ tasks = <<Head(tasks)>> \o Tail(tasks)
  BY TakeFindsATask DEF TypeOK
<1>2. started \o (<<Head(tasks)>> \o Tail(tasks))
        = (started \o <<Head(tasks)>>) \o Tail(tasks)
  BY <1>1, ConcatAssociative
<1>3. started \o <<Head(tasks)>> = Append(started, Head(tasks))
  BY <1>1, AppendIsConcat
<1> QED
  BY <1>1, <1>2, <1>3 DEF FifoExactlyOnce

\* No task is lost, duplicated or overtaken, for any number of workers and
\* submissions: the invariant FifoExactlyOnce of the run Lifecycle.
THEOREM Fifo == Spec => []FifoExactlyOnce
<1>1. Init => FifoExactlyOnce
  BY DEF Init, FifoExactlyOnce
<1>2. TypeOK /\ FifoExactlyOnce /\ [Next]_vars => FifoExactlyOnce'
  <2> SUFFICES ASSUME TypeOK, FifoExactlyOnce, [Next]_vars
               PROVE  FifoExactlyOnce'
    OBVIOUS
  <2>1. ASSUME NEW t \in Tasks, Submit(t)
        PROVE  FifoExactlyOnce'
    <3>1. started \in Seq(Tasks) /\ tasks \in Seq(Tasks) /\ <<t>> \in Seq(Tasks)
          /\ started \o tasks \in Seq(Tasks)
      BY <2>1 DEF TypeOK
    <3>2. Append(started \o tasks, t) = (started \o tasks) \o <<t>>
      BY <3>1, AppendIsConcat
    <3>3. Append(tasks, t) = tasks \o <<t>>
      BY <3>1, AppendIsConcat
    <3>4. (started \o tasks) \o <<t>> = started \o (tasks \o <<t>>)
      BY <3>1, ConcatAssociative
    <3> QED
      BY <2>1, <3>2, <3>3, <3>4 DEF Submit, Push, FifoExactlyOnce
  <2>2. ASSUME NEW w \in Workers, Take(w)
        PROVE  FifoExactlyOnce'
    BY <2>2, TakeKeepsOrder DEF Take, Pop, FifoExactlyOnce
  <2>3. CASE UNCHANGED <<tasks, submitted, started>>
    BY <2>3 DEF FifoExactlyOnce
  <2> QED
    BY <2>1, <2>2, <2>3
       DEF Next, Owner, Worker, Ended, vars, hist, NotifyOne, Destroy, NotifyAll, Join,
           Sleep, SpuriousWakeup, Exit, Return, Throw
<1> QED
  BY <1>1, <1>2, TypeCorrect, PTL DEF Spec

\* Hiding threads, the mutex and wake-ups, the pool is the FIFO executor the
\* server is built on: pushing refines Submit, a worker's critical section
\* that takes a task refines Start, the return of the task refines Finish,
\* and every other step changes nothing the executor shows.
THEOREM Refinement == Spec => ImplementsExecutor
<1>1. Init => Pool!Init
  BY DEF Init, Pool!Init
<1>2. TypeOK /\ [Next]_vars => [Pool!Next]_Pool!vars
  <2> SUFFICES ASSUME TypeOK, [Next]_vars
               PROVE  [Pool!Next]_Pool!vars
    OBVIOUS
  <2>1. ASSUME NEW t \in Tasks, Submit(t)
        PROVE  Pool!Submit(t)
    BY <2>1 DEF Submit, Push, Pool!Submit
  <2>2. ASSUME NEW w \in Workers, Take(w)
        PROVE  Pool!Start(w)
    <3>1. tasks # <<>>
      BY <2>2 DEF Take, MayProceed, MayExit
    <3>2. cur[w] = NoTask
      BY <2>2 DEF Take, TypeOK
    <3> QED
      BY <2>2, <3>1, <3>2 DEF Take, Pop, Pool!Start
  <2>3. ASSUME NEW w \in Workers, Return(w)
        PROVE  Pool!Finish(w)
    BY <2>3 DEF Return, AfterTask, TypeOK, Pool!Finish
  <2>4. CASE UNCHANGED <<tasks, cur>>
    BY <2>4 DEF Pool!vars
  <2> QED
    BY <2>1, <2>2, <2>3, <2>4
       DEF Next, Owner, Worker, Ended, vars, hist, NotifyOne, Destroy, NotifyAll, Join,
           Sleep, SpuriousWakeup, Exit, Throw, Pool!Next
<1> QED
  BY <1>1, <1>2, TypeCorrect, PTL DEF Spec, ImplementsExecutor, Pool!Spec

-----------------------------------------------------------------------------
\* The set of workers at the mutex, when one worker joins or leaves it.
LEMMA ReadyCount ==
    /\ IsFiniteSet(At("ready")) /\ Cardinality(At("ready")) \in Nat
    /\ \A w \in Workers \ At("ready") :
          Cardinality(At("ready") \cup {w}) = Cardinality(At("ready")) + 1
    /\ \A w \in At("ready") :
          Cardinality(At("ready") \ {w}) = Cardinality(At("ready")) - 1
<1>1. IsFiniteSet(At("ready"))
  BY WorkersFinite, FS_Subset DEF At
<1> QED
  BY <1>1, FS_CardinalityType, FS_AddElement, FS_RemoveElement

\* No wake-up is lost, for any number of workers: the invariant
\* WorkConserving of the run Lifecycle.  While submit() is between
\* its push and its notify_one the queue may be one task ahead of the workers
\* that are awake, and no further; that is what makes the invariant inductive.
THEOREM NoLostWakeup == Spec => []WorkConserving
<1> DEFINE Pending == IF opc = "notify" THEN 1 ELSE 0
           IInv == At("asleep") # {} => Cardinality(At("ready")) + Pending >= Len(tasks)
<1>1. Init => IInv
  BY DEF Init, At
<1>2. TypeOK /\ IInv /\ [Next]_vars => IInv'
  <2> SUFFICES ASSUME TypeOK, IInv, [Next]_vars
               PROVE  IInv'
    OBVIOUS
  <2> USE ReadyCount
  <2>0. Len(tasks) \in Nat
    BY DEF TypeOK
  <2>1. ASSUME NEW t \in Tasks, Submit(t)
        PROVE  IInv'
    <3>1. Len(tasks') = Len(tasks) + 1
      BY <2>1 DEF Submit, Push, TypeOK
    <3>2. Pending = 0 /\ Pending' = 1 /\ At("asleep")' = At("asleep") /\ At("ready")' = At("ready")
      BY <2>1 DEF Submit, At
    <3> QED
      BY <2>0, <3>1, <3>2
  <2>2. CASE NotifyOne
    <3>1. CASE At("asleep") = {} /\ UNCHANGED wpc
      BY <3>1 DEF At
    <3>2. ASSUME NEW w \in At("asleep"), Goto(w, "ready")
          PROVE  IInv'
      <4>1. At("ready")' = At("ready") \cup {w} /\ w \in Workers \ At("ready")
        BY <3>2 DEF At, Goto, TypeOK
      <4>2. Pending = 1 /\ Pending' = 0 /\ tasks' = tasks
        BY <2>2 DEF NotifyOne
      <4> QED
        BY <2>0, <4>1, <4>2
    <3> QED
      BY <2>2, <3>1, <3>2 DEF NotifyOne, WakeOne
  <2>3. CASE NotifyAll
    BY <2>3 DEF NotifyAll, WakeAll, At
  <2>4. ASSUME NEW w \in Workers, Sleep(w) \/ Exit(w)
        PROVE  IInv'
    <3>1. Len(tasks') = 0
      BY <2>4 DEF Sleep, Exit, MayProceed, MayExit
    <3>2. At("ready")' = At("ready") \ {w} /\ w \in At("ready")
      BY <2>4 DEF Sleep, Exit, At, Goto, TypeOK
    <3>3. Pending' \in {0, 1}
      OBVIOUS
    <3>4. Cardinality(At("ready") \ {w}) \in Nat
      BY FS_Subset, FS_CardinalityType
    <3> QED
      BY <3>1, <3>2, <3>3, <3>4
  <2>5. ASSUME NEW w \in Workers, SpuriousWakeup(w) \/ Return(w)
        PROVE  IInv'
    <3>1. At("ready")' = At("ready") \cup {w} /\ w \in Workers \ At("ready")
      BY <2>5 DEF SpuriousWakeup, Return, At, Goto, TypeOK
    <3>2. At("asleep")' \subseteq At("asleep")
      BY <2>5 DEF SpuriousWakeup, Return, At, Goto, TypeOK
    <3>3. tasks' = tasks /\ Pending' = Pending
      BY <2>5 DEF SpuriousWakeup, Return
    <3> QED
      BY <2>0, <3>1, <3>2, <3>3
  <2>6. ASSUME NEW w \in Workers, Take(w)
        PROVE  IInv'
    <3>1. Len(tasks') = Len(tasks) - 1
      BY <2>6, TakeFindsATask DEF Take, Pop
    <3>2. At("ready")' = At("ready") \ {w} /\ w \in At("ready")
      BY <2>6 DEF Take, At, Goto, TypeOK
    <3>3. At("asleep")' = At("asleep") /\ Pending' = Pending
      BY <2>6 DEF Take, At, Goto, TypeOK
    <3> QED
      BY <2>0, <3>1, <3>2, <3>3
  <2>7. ASSUME NEW w \in Workers, Throw(w)
        PROVE  IInv'
    <3>1. At("asleep")' = At("asleep") /\ At("ready")' = At("ready")
      BY <2>7 DEF Throw, At, Goto, TypeOK
    <3> QED
      BY <2>7, <3>1 DEF Throw
  <2>8. CASE Destroy \/ Join \/ UNCHANGED vars
    BY <2>8 DEF Destroy, Join, vars, At
  <2> QED
    BY <2>1, <2>2, <2>3, <2>4, <2>5, <2>6, <2>7, <2>8 DEF Next, Owner, Worker, Ended
<1>3. TypeOK /\ IInv => WorkConserving
  BY ReadyCount DEF WorkConserving, TypeOK
<1> QED
  BY <1>1, <1>2, <1>3, TypeCorrect, PTL DEF Spec

-----------------------------------------------------------------------------
\* A pool that has at least one worker and has been destroyed has run every
\* submitted task to its end: the invariant DrainedOnDestroy of the run
\* Lifecycle.  A worker exits only when it has seen `stop' and an empty
\* queue, nothing is submitted after `stop', and every task that was started
\* has returned or is held by a worker.  (A pool of no workers, which
\* hardware_concurrency() = 0 would give, runs nothing.)
THEOREM Drained == Workers # {} => (Spec => []DrainedOnDestroy)
<1> SUFFICES ASSUME Workers # {}
             PROVE  Spec => []DrainedOnDestroy
  OBVIOUS
<1> DEFINE Busy == {w \in Workers : wpc[w] \in {"running", "threw"}}
           IInv == /\ \A w \in Workers : wpc[w] = "exited" => stop /\ tasks = <<>>
                   /\ opc = "destroyed" => At("exited") = Workers
                   /\ Len(started) = finished + Cardinality(Busy)
<1>0. /\ IsFiniteSet(Busy) /\ Cardinality(Busy) \in Nat
      /\ \A w \in Workers \ Busy : Cardinality(Busy \cup {w}) = Cardinality(Busy) + 1
      /\ \A w \in Busy : Cardinality(Busy \ {w}) = Cardinality(Busy) - 1
  <2>1. IsFiniteSet(Busy)
    BY WorkersFinite, FS_Subset
  <2> QED
    BY <2>1, FS_CardinalityType, FS_AddElement, FS_RemoveElement
<1>1. Init => IInv
  <2> SUFFICES ASSUME Init PROVE IInv
    OBVIOUS
  <2>1. Busy = {}
    BY DEF Init
  <2>2. Cardinality(Busy) = 0
    BY <2>1, FS_EmptySet
  <2> QED
    BY <2>2 DEF Init
<1>2. TypeOK /\ IInv /\ [Next]_vars => IInv'
  <2> SUFFICES ASSUME TypeOK, IInv, [Next]_vars
               PROVE  IInv'
    OBVIOUS
  <2>0. Len(started) \in Nat /\ finished \in Nat
    BY DEF TypeOK
  <2>1. ASSUME NEW t \in Tasks, Submit(t)
        PROVE  IInv'
    <3>1. ~stop /\ UNCHANGED <<wpc, stop, started, finished>> /\ opc' # "destroyed"
      BY <2>1 DEF Submit, TypeOK
    <3> QED
      BY <3>1
  <2>2. CASE NotifyOne \/ NotifyAll
    <3>1. \A w \in Workers : wpc'[w] = wpc[w] \/ (wpc[w] = "asleep" /\ wpc'[w] = "ready")
      BY <2>2 DEF NotifyOne, NotifyAll, WakeOne, WakeAll, Goto, At, TypeOK
    <3>2. Busy' = Busy
      BY <3>1
    <3>3. UNCHANGED <<tasks, stop, started, finished>> /\ opc' # "destroyed"
      BY <2>2 DEF NotifyOne, NotifyAll, hist
    <3> QED
      BY <3>1, <3>2, <3>3
  <2>3. CASE Destroy
    <3>1. UNCHANGED <<tasks, wpc, started, finished>> /\ stop' = TRUE /\ opc' # "destroyed"
      BY <2>3 DEF Destroy, hist
    <3> QED
      BY <3>1
  <2>4. CASE Join \/ UNCHANGED vars
    <3>1. UNCHANGED <<tasks, stop, wpc, started, finished>>
      BY <2>4 DEF Join, vars, hist
    <3>2. opc' = "destroyed" => At("exited") = Workers
      BY <2>4 DEF Join, vars
    <3> QED
      BY <3>1, <3>2 DEF At
  <2>5. ASSUME NEW w \in Workers, Sleep(w) \/ SpuriousWakeup(w) \/ Exit(w)
        PROVE  IInv'
    <3>1. /\ wpc[w] \in {"ready", "asleep"}
          /\ \E pc \in {"asleep", "ready", "exited"} :
                /\ wpc' = [wpc EXCEPT ![w] = pc]
                /\ pc = "exited" => stop /\ tasks = <<>>
          /\ UNCHANGED <<tasks, stop, opc, started, finished>>
      BY <2>5 DEF Sleep, SpuriousWakeup, Exit, MayExit, Goto, hist
    <3>2. Busy' = Busy
      BY <3>1 DEF TypeOK
    <3>3. opc # "destroyed"
      BY <3>1 DEF At
    <3>4. \A v \in Workers : wpc'[v] = "exited" => wpc[v] = "exited" \/ (stop /\ tasks = <<>>)
      BY <3>1 DEF TypeOK
    <3> QED
      BY <3>1, <3>2, <3>3, <3>4
  <2>6. ASSUME NEW w \in Workers, Take(w)
        PROVE  IInv'
    <3>1. /\ wpc[w] = "ready" /\ wpc' = [wpc EXCEPT ![w] = "running"]
          /\ UNCHANGED <<stop, opc, finished>>
          /\ Len(started') = Len(started) + 1
      BY <2>6, TakeFindsATask DEF Take, Goto, TypeOK
    <3>2. \A v \in Workers : wpc[v] # "exited"
      BY <2>6 DEF Take, MayProceed, MayExit
    <3>3. Busy' = Busy \cup {w} /\ w \in Workers \ Busy
      BY <3>1 DEF TypeOK
    <3>4. opc' # "destroyed"
      BY <3>1, <3>2 DEF At
    <3>5. \A v \in Workers : wpc'[v] # "exited"
      BY <3>1, <3>2 DEF TypeOK
    <3>6. Len(started') = finished' + Cardinality(Busy')
      BY <1>0, <2>0, <3>1, <3>3
    <3> QED
      BY <3>4, <3>5, <3>6
  <2>7. ASSUME NEW w \in Workers, Return(w)
        PROVE  IInv'
    <3>1. /\ wpc[w] = "running" /\ wpc' = [wpc EXCEPT ![w] = "ready"]
          /\ UNCHANGED <<tasks, stop, opc, started>> /\ finished' = finished + 1
      BY <2>7 DEF Return, Goto
    <3>2. Busy' = Busy \ {w} /\ w \in Busy
      BY <3>1 DEF TypeOK
    <3>3. opc # "destroyed"
      BY <3>1 DEF At
    <3>4. Len(started') = finished' + Cardinality(Busy')
      BY <1>0, <2>0, <3>1, <3>2
    <3> QED
      BY <3>1, <3>3, <3>4 DEF TypeOK
  <2>8. ASSUME NEW w \in Workers, Throw(w)
        PROVE  IInv'
    <3>1. /\ wpc[w] = "running" /\ wpc' = [wpc EXCEPT ![w] = "threw"]
          /\ UNCHANGED <<tasks, stop, opc, started, finished>>
      BY <2>8 DEF Throw, Goto, hist
    <3>2. Busy' = Busy
      BY <3>1 DEF TypeOK
    <3>3. opc # "destroyed"
      BY <3>1 DEF At
    <3> QED
      BY <3>1, <3>2, <3>3 DEF TypeOK
  <2> QED
    BY <2>1, <2>2, <2>3, <2>4, <2>5, <2>6, <2>7, <2>8 DEF Next, Owner, Worker, Ended
<1>3. TypeOK /\ FifoExactlyOnce /\ IInv => DrainedOnDestroy
  <2> SUFFICES ASSUME TypeOK, FifoExactlyOnce, IInv, opc = "destroyed"
               PROVE  started = submitted /\ finished = Len(submitted)
    BY DEF DrainedOnDestroy
  <2>1. tasks = <<>> /\ Busy = {}
    BY DEF At
  <2>2. started = submitted
    BY <2>1, ConcatEmptySeq DEF FifoExactlyOnce, TypeOK
  <2>3. Cardinality(Busy) = 0
    BY <2>1, FS_EmptySet
  <2> QED
    BY <2>2, <2>3 DEF TypeOK
<1> QED
  BY <1>1, <1>2, <1>3, TypeCorrect, Fifo, PTL DEF Spec

-----------------------------------------------------------------------------
(* The life of a Server. *)

\* Every step of a process that runs a Server is a step of its pool, or
\* leaves the pool alone.
LEMMA LifeSteps == [LNext]_allvars => [Next]_vars
<1> SUFFICES ASSUME [LNext]_allvars PROVE [Next]_vars
  OBVIOUS
<1>1. CASE Over \/ UNCHANGED allvars
  BY <1>1 DEF Over, allvars
<1>2. CASE ~Terminated /\ Main
  <2>1. CASE FileSystemThrows \/ loadConfig \/ Construct \/ StartFails \/ Start \/ StartReturns \/ DestroyMember
    BY <2>1 DEF FileSystemThrows, loadConfig, Construct, StartFails, Start, StartReturns, DestroyMember
  <2>2. CASE Serve \/ DestroyPool
    BY <1>2, <2>2 DEF Serve, DestroyPool, Next, Owner
  <2> QED
    BY <1>2, <2>1, <2>2 DEF Main
<1>3. CASE Stop
  BY <1>3 DEF Stop
<1>4. ASSUME NEW w \in Workers, ~Terminated, PoolWorker(w) PROVE [Next]_vars
  BY <1>4 DEF PoolWorker, Next
<1> QED
  BY <1>1, <1>2, <1>3, <1>4 DEF LNext

\* A Server's pool is a ThreadPool: whoever starts, stops and destroys the
\* Server, the pool takes only the steps that ThreadPool describes.
THEOREM LifeUsesThePool == LSpec => Spec
<1>1. LInit => Init
  BY DEF LInit
<1> QED
  BY <1>1, LifeSteps, PTL DEF LSpec, Spec

\* In a Server's life too no task is lost, duplicated or overtaken, no wake-up
\* is lost, and the pool is the FIFO executor that Server.tla builds on: the
\* properties FifoExactlyOnce, WorkConserving and ImplementsExecutor of the
\* run Lifecycle.
THEOREM RequestsAreNotLost ==
    LSpec => [](FifoExactlyOnce /\ WorkConserving) /\ ImplementsExecutor
BY LifeUsesThePool, Fifo, NoLostWakeup, Refinement, PTL

\* However start() came to its end, a Server that is destroyed has run every
\* request it had accepted: the invariant DrainedOnDestroy of the run
\* Lifecycle, for a pool that has a worker.
THEOREM DestroyedIsDrained == Workers # {} => (LSpec => []DrainedOnDestroy)
BY LifeUsesThePool, Drained, PTL

-----------------------------------------------------------------------------
(* The order of destruction. *)

\* How many members go before the pool.
BeforePool == IF app THEN 6 ELSE 5

\* A Server by itself loses nothing but what is declared behind the pool
\* before the pool.
LEMMA PoolGoesFirst ==
    ASSUME app \in BOOLEAN
    PROVE  /\ Members[BeforePool + 1] = "tp"
           /\ ~app => \A i \in 1..BeforePool : Members[i] \in BehindPool
           /\ BeforePool \in Nat
<1>1. CASE app
  <2>1. Members[7] = "tp"
    BY <1>1 DEF Members, ServerMembers
  <2> QED
    BY <1>1, <2>1 DEF BeforePool
<1>2. CASE ~app
  <2>1. /\ Members[1] = "running" /\ Members[2] = "error_handlers"
        /\ Members[3] = "static_files" /\ Members[4] = "ws_routes" /\ Members[5] = "conn_mtx"
        /\ Members[6] = "tp"
    BY <1>2 DEF Members, ServerMembers
  <2>2. BeforePool = 5 /\ \A i \in 1..5 : i \in {1, 2, 3, 4, 5}
    BY <1>2 DEF BeforePool
  <2> QED
    BY <2>1, <2>2 DEF BehindPool
<1> QED
  BY <1>1, <1>2

\* Until the pool is gone, no member after it is, and the pool is gone only
\* when its workers have returned.
PoolOutlives ==
    /\ app \in BOOLEAN /\ gone \in Nat
    /\ opc = "destroyed" => At("exited") = Workers
    /\ opc # "destroyed" => gone <= BeforePool

\* Nobody stops an App's Server: what is not serving has never served, and the
\* pool has nothing to run.
NeverStopped ==
    /\ app => running
    /\ app /\ life # "serving" => tasks = <<>> /\ At("running") = {}
    /\ life # "returned" => gone = 0

\* Every step keeps NeverStopped.
LEMMA NeverStoppedStep ==
    ASSUME TypeOK, app \in BOOLEAN, NeverStopped, [LNext]_allvars
    PROVE  NeverStopped'
<1> USE DEF NeverStopped
<1>0. app' = app
  BY DEF LNext, Main, FileSystemThrows, loadConfig, Construct, StartFails, Start, Serve, Stop, StartReturns,
         DestroyMember, DestroyPool, PoolWorker, Over, allvars, lvars
<1>1. CASE FileSystemThrows \/ loadConfig \/ Construct \/ StartFails \/ Start
  <2>1. UNCHANGED <<tasks, wpc, running, gone>> /\ life \notin {"serving", "returned"}
    BY <1>1 DEF FileSystemThrows, loadConfig, Construct, StartFails, Start, vars
  <2> QED
    BY <1>0, <2>1 DEF At
<1>2. CASE Serve
  <2>1. life = "serving" /\ life' = "serving" /\ running' = running /\ gone' = gone
    BY <1>2 DEF Serve, lvars
  <2> QED
    BY <1>0, <2>1
<1>3. CASE Stop \/ StartReturns
  <2>1. ~app /\ gone' = gone /\ life = "serving" /\ life' \in {"serving", "returned"}
    BY <1>3 DEF Stop, StartReturns
  <2> QED
    BY <1>0, <2>1
<1>4. CASE DestroyMember \/ DestroyPool
  <2>1. life = "returned" /\ life' = "returned" /\ running' = running /\ tasks' = tasks
    BY <1>4 DEF DestroyMember, DestroyPool, Destroy, NotifyAll, Join, vars
  <2>2. At("running")' = At("running")
    BY <1>4 DEF DestroyMember, DestroyPool, Destroy, NotifyAll, WakeAll, Join, vars, At, TypeOK
  <2> QED
    BY <1>0, <2>1, <2>2
<1>5. ASSUME NEW w \in Workers, PoolWorker(w) PROVE NeverStopped'
  <2>1. UNCHANGED <<life, running, gone>>
    BY <1>5 DEF PoolWorker, lvars
  <2>2. ASSUME app, life # "serving" PROVE tasks' = <<>> /\ At("running")' = {}
    <3>1. tasks = <<>> /\ At("running") = {}
      BY <2>2
    <3>2. Sleep(w) \/ SpuriousWakeup(w) \/ Exit(w)
      BY <1>5, <3>1 DEF PoolWorker, Worker, Take, Return, Throw, MayProceed, MayExit, At
    <3> QED
      BY <3>1, <3>2 DEF Sleep, SpuriousWakeup, Exit, Goto, At, TypeOK
  <2> QED
    BY <1>0, <2>1, <2>2
<1>6. CASE Over \/ UNCHANGED allvars
  BY <1>0, <1>6 DEF Over, allvars, lvars, vars, At
<1> QED
  BY <1>1, <1>2, <1>3, <1>4, <1>5, <1>6 DEF LNext, Main

\* What tasks may find destroyed: the invariant TasksSeeTheServer of the run
\* Lifecycle, for every number of workers.  In an App nothing, as it is
\* destroyed only if it has never served.  In a Server that was stopped only
\* what the headers declare behind `tp': the destructor of `tp', which waits for
\* the workers, runs before those of the members declared before it.
THEOREM TasksOutlivedByServer == LSpec => []TasksSeeTheServer
<1>1. LInit => PoolOutlives /\ NeverStopped
  <2> SUFFICES ASSUME LInit PROVE PoolOutlives /\ NeverStopped
    OBVIOUS
  <2>1. app \in BOOLEAN
    BY DEF LInit
  <2> QED
    BY <2>1, PoolGoesFirst DEF LInit, Init, PoolOutlives, NeverStopped, At
<1>2. TypeOK /\ PoolOutlives /\ [LNext]_allvars => PoolOutlives'
  <2> SUFFICES ASSUME TypeOK, PoolOutlives, [LNext]_allvars PROVE PoolOutlives'
    OBVIOUS
  <2>0. app' = app
    BY DEF LNext, Main, FileSystemThrows, loadConfig, Construct, StartFails, Start, Serve, Stop, StartReturns, DestroyMember,
           DestroyPool, PoolWorker, Over, allvars, lvars
  <2>1. ASSUME opc' = "destroyed" PROVE At("exited")' = Workers
    <3>1. [Next]_vars
      BY LifeSteps
    <3>2. CASE opc = "destroyed"
      <4>1. \A w \in Workers : wpc[w] = "exited"
        BY <3>2 DEF PoolOutlives, At
      <4>2. wpc' = wpc
        BY <3>1, <3>2, <4>1 DEF Next, Owner, Submit, NotifyOne, Destroy, NotifyAll, Join, Worker, Sleep,
           SpuriousWakeup, Exit, Take, Return, Throw, Ended, vars
      <4> QED
        BY <4>1, <4>2 DEF At
    <3>3. CASE opc # "destroyed"
      <4>1. Join
        BY <2>1, <3>1, <3>3 DEF Next, Owner, Submit, NotifyOne, Destroy, NotifyAll, Worker, Sleep,
           SpuriousWakeup, Exit, Take, Return, Throw, Ended, vars, hist
      <4> QED
        BY <4>1 DEF Join, At
    <3> QED
      BY <3>2, <3>3
  <2>2. gone' \in Nat /\ (opc' # "destroyed" => gone' <= BeforePool')
    <3>1. BeforePool' = BeforePool /\ BeforePool \in Nat
      BY <2>0, PoolGoesFirst DEF BeforePool, PoolOutlives
    <3>2. CASE DestroyMember
      <4>1. opc' = opc /\ gone' = gone + 1 /\ Members[gone + 1] # "tp"
        BY <3>2 DEF DestroyMember, vars
      <4>2. opc # "destroyed" => gone # BeforePool
        BY <4>1, PoolGoesFirst DEF PoolOutlives
      <4> QED
        BY <3>1, <4>1, <4>2 DEF PoolOutlives
    <3>3. CASE DestroyPool
      BY <3>1, <3>3 DEF DestroyPool, Destroy, NotifyAll, Join, PoolOutlives
    <3>4. CASE ~DestroyMember /\ ~DestroyPool
      <4>1. gone' = gone
        BY <3>4 DEF LNext, Main, FileSystemThrows, loadConfig, Construct, StartFails, Start, Serve, Stop, StartReturns,
           PoolWorker, Over, allvars, lvars
      <4>2. opc' # "destroyed" => opc # "destroyed"
        BY LifeSteps DEF Next, Owner, Submit, NotifyOne, Destroy, NotifyAll, Join, Worker, Sleep,
           SpuriousWakeup, Exit, Take, Return, Throw, Ended, vars
      <4> QED
        BY <3>1, <4>1, <4>2 DEF PoolOutlives
    <3> QED
      BY <3>2, <3>3, <3>4
  <2> QED
    BY <2>0, <2>1, <2>2 DEF PoolOutlives
<1>3. PoolOutlives /\ NeverStopped => TasksSeeTheServer
  <2> SUFFICES ASSUME PoolOutlives, NeverStopped, At("running") # {}
               PROVE  Dead \subseteq IF app THEN {} ELSE BehindPool
    BY DEF TasksSeeTheServer
  <2>1. opc # "destroyed"
    BY DEF PoolOutlives, At
  <2>2. gone \in Nat /\ gone <= BeforePool /\ app \in BOOLEAN
    BY <2>1 DEF PoolOutlives
  <2>3. CASE app
    <3>1. gone = 0
      BY <2>3 DEF NeverStopped
    <3> QED
      BY <2>3, <3>1 DEF Dead
  <2>4. CASE ~app
    <3>1. \A i \in 1..gone : Members[i] \in BehindPool
      BY <2>2, <2>4, PoolGoesFirst
    <3> QED
      BY <2>4, <3>1 DEF Dead
  <2> QED
    BY <2>2, <2>3, <2>4
<1>4. TypeOK /\ PoolOutlives /\ NeverStopped /\ [LNext]_allvars => NeverStopped'
  BY NeverStoppedStep DEF PoolOutlives
<1> QED
  BY <1>1, <1>2, <1>3, <1>4, LifeUsesThePool, TypeCorrect, PTL DEF LSpec

-----------------------------------------------------------------------------
(* The configuration of a start that nobody has edited. *)

\* The sizes of the generated file are below the modulus, as 10 MB is below 2^64.
SizesFit == 10 * Kilo * Kilo < SizeMod /\ 1024 < SizeMod

\* A configuration with the values of Config{} except for paths.
AsDefault(c) ==
    /\ c = [field \in DOMAIN Defaults |-> c[field]]
    /\ \A field \in DOMAIN Defaults \ Paths : c[field] = Defaults[field]

\* What a field has already can be stored in it.
LEMMA SameValue ==
    ASSUME NEW c, AsDefault(c), NEW field \in DOMAIN Defaults \ Paths
    PROVE  [c EXCEPT ![field] = Defaults[field]] = c
BY DEF AsDefault

\* Storing a path changes nothing else.
LEMMA PathStored ==
    ASSUME NEW c, AsDefault(c), NEW field \in Paths, NEW v
    PROVE  AsDefault([c EXCEPT ![field] = v])
<1>1. PICK D : D = DOMAIN Defaults
  OBVIOUS
<1>2. c = [x \in D |-> c[x]] /\ \A x \in D \ Paths : c[x] = Defaults[x]
  BY <1>1 DEF AsDefault
<1>3. PICK e : e = [c EXCEPT ![field] = v]
  OBVIOUS
<1>4. e = [x \in D |-> e[x]] /\ \A x \in D \ Paths : e[x] = c[x]
  BY <1>2, <1>3
<1> QED
  BY <1>1, <1>2, <1>3, <1>4 DEF AsDefault

\* A line that names the default of the field it is for changes nothing.
LEMMA DefaultLine ==
    ASSUME NEW c, AsDefault(c), NEW k \in DOMAIN FieldOf, NEW t, FieldOf[k] \in DOMAIN Defaults \ Paths,
           Values(k, t) = {Defaults[FieldOf[k]]}
    PROVE  Assign(c, Line(k, t)) = {c}
<1>1. PICK v : v = Defaults[FieldOf[k]]
  OBVIOUS
<1>2. PICK f : f = FieldOf[k]
  OBVIOUS
<1>3. Values(k, t) = {v}
  BY <1>1
<1>4. Assign(c, Line(k, t)) = {[c EXCEPT ![f] = v]}
  BY <1>2, <1>3 DEF Assign, Line
<1>5. [c EXCEPT ![f] = v] = c
  BY <1>1, <1>2, SameValue
<1> QED
  BY <1>4, <1>5

\* The sizes that are generated do not wrap.
LEMMA SizesKept ==
    ASSUME SizesFit
    PROVE  /\ (1 * (Kilo * Kilo)) % SizeMod = Kilo * Kilo
           /\ (10 * (Kilo * Kilo)) % SizeMod = 10 * Kilo * Kilo
           /\ (8 * Kilo) % SizeMod = 8 * Kilo
           /\ 1024 % SizeMod = 1024
<1>1. PICK k \in Nat : k = Kilo * Kilo /\ Kilo <= k
  BY ScalePositive
<1>2. 10 * Kilo * Kilo = 10 * k /\ 10 * k < SizeMod /\ 1024 < SizeMod /\ SizeMod \in Nat
  BY <1>1, ScalePositive DEF SizesFit
<1>3. \A n \in Nat : n < SizeMod => n % SizeMod = n
  BY ScalePositive
<1>4. 8 * Kilo \in Nat /\ 8 * Kilo < SizeMod
  BY <1>1, <1>2, ScalePositive
<1> QED
  BY <1>1, <1>2, <1>3, <1>4, ScalePositive

\* The lines that are generated.
LEMMA GeneratedIs ==
    /\ Len(Generated) = 14
    /\ Generated[1] = Comment
    /\ Generated[2] = Line("port", Num(8080))
    /\ Generated[3] = Line("bind", Word("0.0.0.0"))
    /\ Generated[4] = Line("tls", Word("off"))
    /\ Generated[5] = Line("cert", Word("cert.pem"))
    /\ Generated[6] = Line("key", Word("key.pem"))
    /\ Generated[7] = Line("max_body", Size(1, "MB"))
    /\ Generated[8] = Line("max_upload", Size(10, "MB"))
    /\ Generated[9] = Line("max_header", Size(8, "KB"))
    /\ Generated[10] = Line("max_headers", Num(64))
    /\ Generated[11] = Line("header_timeout", Num(5000))
    /\ Generated[12] = Line("body_timeout", Num(10000))
    /\ Generated[13] = Line("max_connections", Num(1024))
    /\ Generated[14] = Line("max_cache", Num(1024))
BY DEF Generated, UploadLine

\* What the keys of these lines are for.
LEMMA FieldsAre ==
    /\ "port" \in DOMAIN FieldOf /\ FieldOf["port"] = "port" /\ "port" \in DOMAIN Defaults \ Paths
    /\ "bind" \in DOMAIN FieldOf /\ FieldOf["bind"] = "bind_addr" /\ "bind_addr" \in DOMAIN Defaults \ Paths
    /\ "tls" \in DOMAIN FieldOf /\ FieldOf["tls"] = "use_tls" /\ "use_tls" \in DOMAIN Defaults \ Paths
    /\ "max_body" \in DOMAIN FieldOf /\ FieldOf["max_body"] = "max_body_size" /\ "max_body_size" \in DOMAIN Defaults \ Paths
    /\ "max_upload" \in DOMAIN FieldOf /\ FieldOf["max_upload"] = "max_upload_size" /\ "max_upload_size" \in DOMAIN Defaults \ Paths
    /\ "max_header" \in DOMAIN FieldOf /\ FieldOf["max_header"] = "max_header_size" /\ "max_header_size" \in DOMAIN Defaults \ Paths
    /\ "max_headers" \in DOMAIN FieldOf /\ FieldOf["max_headers"] = "max_headers" /\ "max_headers" \in DOMAIN Defaults \ Paths
    /\ "header_timeout" \in DOMAIN FieldOf /\ FieldOf["header_timeout"] = "header_timeout_ms" /\ "header_timeout_ms" \in DOMAIN Defaults \ Paths
    /\ "body_timeout" \in DOMAIN FieldOf /\ FieldOf["body_timeout"] = "body_timeout_ms" /\ "body_timeout_ms" \in DOMAIN Defaults \ Paths
    /\ "max_connections" \in DOMAIN FieldOf /\ FieldOf["max_connections"] = "max_connections" /\ "max_connections" \in DOMAIN Defaults \ Paths
    /\ "max_cache" \in DOMAIN FieldOf /\ FieldOf["max_cache"] = "max_cache_entries" /\ "max_cache_entries" \in DOMAIN Defaults \ Paths
BY DEF FieldOf, Defaults, Paths

\* Every line that loadConfig generates, except those of the paths, holds the
\* value that Config{} has.
LEMMA GeneratedLines ==
    ASSUME SizesFit, NEW c, AsDefault(c)
    PROVE  \A i \in 1..14 : i # 5 /\ i # 6 => Assign(c, Generated[i]) = {c}
<1>1. Assign(c, Generated[1]) = {c}
  BY GeneratedIs DEF Comment, Bare, Assign, FieldOf
<1>2. Assign(c, Generated[2]) = {c}
  <2>1. Defaults["port"] = 8080
    BY DEF Defaults
  <2>2. Values("port", Num(8080)) = {8080}
    BY DEF Values, Num, Size, stoi, PortMod
  <2> QED
    BY <2>1, <2>2, FieldsAre, DefaultLine, GeneratedIs
<1>3. Assign(c, Generated[3]) = {c}
  <2>1. Defaults["bind_addr"] = "0.0.0.0"
    BY DEF Defaults
  <2>2. Values("bind", Word("0.0.0.0")) = {"0.0.0.0"}
    BY DEF Values, Word
  <2> QED
    BY <2>1, <2>2, FieldsAre, DefaultLine, GeneratedIs
<1>4. Assign(c, Generated[4]) = {c}
  <2>1. Defaults["use_tls"] = FALSE
    BY DEF Defaults
  <2>2. Values("tls", Word("off")) = {FALSE}
    BY DEF Values, Word
  <2>3. Values("tls", Word("off")) = {Defaults[FieldOf["tls"]]}
    BY <2>1, <2>2, FieldsAre, Zenon
  <2> QED
    BY <2>3, FieldsAre, DefaultLine, GeneratedIs
<1>7. Assign(c, Generated[7]) = {c}
  <2>1. Defaults["max_body_size"] = Kilo * Kilo
    BY DEF Defaults
  <2>2. Values("max_body", Size(1, "MB")) = {Kilo * Kilo}
    BY SizesKept, ScalePositive DEF Values, Size, parseSize
  <2> QED
    BY <2>1, <2>2, FieldsAre, DefaultLine, GeneratedIs
<1>8. Assign(c, Generated[8]) = {c}
  <2>1. Defaults["max_upload_size"] = 10 * Kilo * Kilo
    BY DEF Defaults
  <2>2. Values("max_upload", Size(10, "MB")) = {10 * Kilo * Kilo}
    BY SizesKept, ScalePositive DEF Values, Size, parseSize
  <2> QED
    BY <2>1, <2>2, FieldsAre, DefaultLine, GeneratedIs
<1>9. Assign(c, Generated[9]) = {c}
  <2>1. Defaults["max_header_size"] = 8 * Kilo
    BY DEF Defaults
  <2>2. Values("max_header", Size(8, "KB")) = {8 * Kilo}
    BY SizesKept, ScalePositive DEF Values, Size, parseSize
  <2> QED
    BY <2>1, <2>2, FieldsAre, DefaultLine, GeneratedIs
<1>10. Assign(c, Generated[10]) = {c}
  <2>1. Defaults["max_headers"] = 64
    BY DEF Defaults
  <2>2. Values("max_headers", Num(64)) = {64}
    BY DEF Values, Num, Size, stoi
  <2> QED
    BY <2>1, <2>2, FieldsAre, DefaultLine, GeneratedIs
<1>11. Assign(c, Generated[11]) = {c}
  <2>1. Defaults["header_timeout_ms"] = 5000
    BY DEF Defaults
  <2>2. Values("header_timeout", Num(5000)) = {5000}
    BY DEF Values, Num, Size, stoi
  <2> QED
    BY <2>1, <2>2, FieldsAre, DefaultLine, GeneratedIs
<1>12. Assign(c, Generated[12]) = {c}
  <2>1. Defaults["body_timeout_ms"] = 10000
    BY DEF Defaults
  <2>2. Values("body_timeout", Num(10000)) = {10000}
    BY DEF Values, Num, Size, stoi
  <2> QED
    BY <2>1, <2>2, FieldsAre, DefaultLine, GeneratedIs
<1>13. Assign(c, Generated[13]) = {c}
  <2>1. Defaults["max_connections"] = 1024
    BY DEF Defaults
  <2>2. Values("max_connections", Num(1024)) = {1024}
    BY DEF Values, Num, Size, stoi
  <2> QED
    BY <2>1, <2>2, FieldsAre, DefaultLine, GeneratedIs
<1>14. Assign(c, Generated[14]) = {c}
  <2>1. Defaults["max_cache_entries"] = 1024
    BY DEF Defaults
  <2>2. Values("max_cache", Num(1024)) = {1024}
    BY SizesKept, ScalePositive DEF Values, Num, Size, stoi
  <2> QED
    BY <2>1, <2>2, FieldsAre, DefaultLine, GeneratedIs
<1> QED
  BY <1>1, <1>2, <1>3, <1>4, <1>7, <1>8, <1>9, <1>10, <1>11, <1>12, <1>13, <1>14

\* The two other lines store a path.
LEMMA PathLines ==
    ASSUME NEW c, AsDefault(c), NEW i \in {5, 6}
    PROVE  \E d : AsDefault(d) /\ Assign(c, Generated[i]) = {d}
<1>1. /\ "cert" \in DOMAIN FieldOf /\ FieldOf["cert"] = "cert_path"
      /\ "key" \in DOMAIN FieldOf /\ FieldOf["key"] = "key_path"
  BY DEF FieldOf
<1>2. PICK k, w : k \in {"cert", "key"} /\ Generated[i] = Line(k, Word(w))
  BY GeneratedIs
<1>3. k \in DOMAIN FieldOf /\ FieldOf[k] \in Paths
  BY <1>1, <1>2 DEF Paths
<1>4. PICK v : Values(k, Word(w)) = {v}
  BY <1>2 DEF Values, Word
<1>5. PICK f \in Paths : f = FieldOf[k]
  BY <1>3
<1>6. Assign(c, Line(k, Word(w))) = {[c EXCEPT ![f] = v]}
  BY <1>3, <1>4, <1>5 DEF Assign, Line
<1>7. AsDefault([c EXCEPT ![f] = v])
  BY <1>5, PathStored
<1> QED
  BY <1>2, <1>6, <1>7

\* An empty file leaves Config{} as it is.
LEMMA EmptyParsed == ParseLines(<<>>) = {Defaults}
<1> DEFINE Rec(h) == h = [i \in 0..0 |-> IF i = 0 THEN {Defaults} ELSE NextLine(h[i - 1], <<>>[i])]
           F == CHOOSE h : Rec(h)
           g == [i \in 0..0 |-> {Defaults}]
<1>1. Rec(g)
  OBVIOUS
<1>2. Rec(F)
  <2> HIDE DEF Rec, g
  <2> QED
    BY <1>1
<1>3. F[0] = {Defaults}
  <2> HIDE DEF F
  <2> QED
    BY <1>2
<1>4. Len(<<>>) = 0
  OBVIOUS
<1> QED
  BY <1>3, <1>4, Zenon DEF ParseLines

\* A set that holds one configuration goes through a line as that does.
LEMMA NextOfOne ==
    ASSUME NEW c, NEW d, NEW line, Assign(c, line) = {d}
    PROVE  NextLine({c}, line) = {d}
BY DEF NextLine

\* The generated file gives what Config{} has, but for the paths.
LEMMA GeneratedParsed ==
    ASSUME SizesFit
    PROVE  \E c : AsDefault(c) /\ ParseLines(Generated) = {c}
<1>0. AsDefault(Defaults)
  BY DEF AsDefault, Defaults
<1>1. PICK c1 : AsDefault(c1) /\ Assign(Defaults, Generated[5]) = {c1}
  BY <1>0, PathLines
<1>2. PICK c2 : AsDefault(c2) /\ Assign(c1, Generated[6]) = {c2}
  BY <1>1, PathLines
<1> DEFINE after(i) == IF i < 5 THEN Defaults ELSE IF i = 5 THEN c1 ELSE c2
           g == [i \in 0..14 |-> {after(i)}]
           Rec(h) == h = [i \in 0..14 |-> IF i = 0 THEN {Defaults} ELSE NextLine(h[i - 1], Generated[i])]
           F == CHOOSE h : Rec(h)
<1>3. \A i \in 0..14 : AsDefault(after(i))
  BY <1>0, <1>1, <1>2
<1>4. \A i \in 1..14 : Assign(after(i - 1), Generated[i]) = {after(i)}
  <2> TAKE i \in 1..14
  <2>1. CASE i = 5
    <3>1. after(i - 1) = Defaults /\ after(i) = c1
      BY <2>1
    <3> QED
      BY <2>1, <3>1, <1>1
  <2>2. CASE i = 6
    <3>1. after(i - 1) = c1 /\ after(i) = c2
      BY <2>2
    <3> QED
      BY <2>2, <3>1, <1>2
  <2>3. CASE i # 5 /\ i # 6
    <3>1. after(i - 1) = after(i) /\ i \in 0..14
      BY <2>3
    <3>2. PICK c : c = after(i)
      OBVIOUS
    <3> HIDE DEF after
    <3>3. AsDefault(c)
      BY <1>3, <3>1, <3>2
    <3>4. Assign(c, Generated[i]) = {c}
      BY <2>3, <3>3, GeneratedLines
    <3> QED
      BY <3>1, <3>2, <3>4
  <2> QED
    BY <2>1, <2>2, <2>3
<1>5. \A i \in 1..14 : NextLine({after(i - 1)}, Generated[i]) = {after(i)}
  <2> HIDE DEF after
  <2> QED
    BY <1>4, NextOfOne
<1>6. after(0) = Defaults /\ after(14) = c2
  OBVIOUS
<1>7. \A h : Rec(h) => \A i \in 0..14 : h[i] = {after(i)}
  <2> HIDE DEF after
  <2> SUFFICES ASSUME NEW h, Rec(h) PROVE \A i \in 0..14 : h[i] = {after(i)}
    OBVIOUS
  <2>a. h[0] = {Defaults} /\ \A i \in 1..14 : h[i] = NextLine(h[i - 1], Generated[i])
    OBVIOUS
  <2>0. h[0] = {after(0)}
    BY <2>a, <1>6
  <2>b. \A i \in 1..14 : h[i - 1] = {after(i - 1)} => h[i] = {after(i)}
    BY <2>a, <1>5
  <2>1. h[1] = {after(1)}
    BY <2>0, <2>b
  <2>2. h[2] = {after(2)}
    BY <2>1, <2>b
  <2>3. h[3] = {after(3)}
    BY <2>2, <2>b
  <2>4. h[4] = {after(4)}
    BY <2>3, <2>b
  <2>5. h[5] = {after(5)}
    BY <2>4, <2>b
  <2>6. h[6] = {after(6)}
    BY <2>5, <2>b
  <2>7. h[7] = {after(7)}
    BY <2>6, <2>b
  <2>8. h[8] = {after(8)}
    BY <2>7, <2>b
  <2>9. h[9] = {after(9)}
    BY <2>8, <2>b
  <2>10. h[10] = {after(10)}
    BY <2>9, <2>b
  <2>11. h[11] = {after(11)}
    BY <2>10, <2>b
  <2>12. h[12] = {after(12)}
    BY <2>11, <2>b
  <2>13. h[13] = {after(13)}
    BY <2>12, <2>b
  <2>14. h[14] = {after(14)}
    BY <2>13, <2>b
  <2> QED
    BY <2>0, <2>1, <2>2, <2>3, <2>4, <2>5, <2>6, <2>7, <2>8, <2>9, <2>10, <2>11, <2>12, <2>13, <2>14
<1>8. Rec(g)
  <2> HIDE DEF after
  <2>1. \A i \in 0..14 : g[i] = IF i = 0 THEN {Defaults} ELSE NextLine(g[i - 1], Generated[i])
    <3> TAKE i \in 0..14
    <3>1. CASE i = 0
      BY <3>1, <1>6
    <3>2. CASE i # 0
      <4>1. PICK j \in 0..14 : j = i - 1
        BY <3>2
      <4>2. g[i] = {after(i)} /\ g[j] = {after(j)}
        OBVIOUS
      <4>a. i \in 1..14
        BY <3>2
      <4>3. NextLine({after(i - 1)}, Generated[i]) = {after(i)}
        BY <4>a, <1>5, Zenon
      <4>4. g[i - 1] = {after(i - 1)}
        BY <4>1, <4>2
      <4> HIDE DEF g
      <4> QED
        BY <3>2, <4>2, <4>3, <4>4
    <3> QED
      BY <3>1, <3>2
  <2> QED
    BY <2>1
<1>9. F[14] = {c2}
  <2>1. Rec(F)
    <3> HIDE DEF Rec, g
    <3> QED
      BY <1>8
  <2>2. F[14] = {after(14)}
    <3> HIDE DEF F, Rec, after
    <3> QED
      BY <2>1, <1>7
  <2> HIDE DEF F, after
  <2> QED
    BY <2>2, <1>6
<1>10. ParseLines(Generated) = F[14]
  <2>1. Len(Generated) = 14
    BY GeneratedIs
  <2> QED
    BY <2>1, Zenon DEF ParseLines
<1> HIDE DEF F
<1> QED
  BY <1>2, <1>9, <1>10

\* What is known before the file is read: without an edit there is none, an
\* empty one, or the one that loadConfig writes.
UneditedFile == life = "load" /\ ~edited => file \in {Absent, <<>>, Generated}

\* Whatever the numbers of workers and tasks and the edits that operators make,
\* a start with an unedited file that gets past the file system uses the
\* values of Config{}.
THEOREM UneditedConfig == ASSUME SizesFit PROVE LSpec => []UneditedIsDefault
<1>1. LInit => UneditedFile /\ UneditedIsDefault
  BY DEF LInit, UneditedFile, UneditedIsDefault
<1>2. UneditedFile /\ UneditedIsDefault /\ [LNext]_allvars => UneditedFile' /\ UneditedIsDefault'
  <2> SUFFICES ASSUME UneditedFile, UneditedIsDefault, [LNext]_allvars
               PROVE  UneditedFile' /\ UneditedIsDefault'
    OBVIOUS
  <2>1. CASE loadConfig
    <3>1. life = "load" /\ life' # "load" /\ edited' = edited
      BY <2>1 DEF loadConfig
    <3>2. CASE edited
      BY <3>1, <3>2, Zenon DEF UneditedFile, UneditedIsDefault
    <3>3. CASE ~edited
      <4>1. FileRead \in {Absent, <<>>, Generated}
        BY <3>1, <3>3 DEF FileRead, UneditedFile
      <4>2. \E c \in config' : AsDefault(c)
        <5>1. config' = IF FileRead = Absent \/ place = "denied" THEN {Defaults} ELSE ParseLines(FileRead)
          BY <2>1 DEF loadConfig
        <5>2. AsDefault(Defaults)
          BY DEF AsDefault, Defaults
        <5>3. config' = {Defaults} \/ config' = ParseLines(<<>>) \/ config' = ParseLines(Generated)
          BY <4>1, <5>1
        <5> QED
          BY <5>2, <5>3, EmptyParsed, GeneratedParsed
      <4> QED
        BY <3>1, <4>2 DEF AsDefault, UneditedFile, UneditedIsDefault
    <3> QED
      BY <3>2, <3>3
  <2>2. CASE FileSystemThrows
    BY <2>2 DEF FileSystemThrows, UneditedFile, UneditedIsDefault
  <2>3. CASE ~loadConfig /\ ~FileSystemThrows
    <3>1. \/ UNCHANGED <<life, file, edited, config>>
          \/ /\ life \notin {"load", "refused"} /\ life' \notin {"load", "refused"}
             /\ UNCHANGED <<file, edited, config>>
      BY <2>3 DEF LNext, Main, Construct, StartFails, Start, Serve, Stop, StartReturns, DestroyMember, DestroyPool,
                  PoolWorker, Over, allvars, lvars
    <3> QED
      BY <3>1 DEF UneditedFile, UneditedIsDefault
  <2> QED
    BY <2>1, <2>2, <2>3
<1> QED
  BY <1>1, <1>2, PTL DEF LSpec
=============================================================================
