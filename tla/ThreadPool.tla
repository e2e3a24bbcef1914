----------------------------- MODULE ThreadPool -----------------------------
(***************************************************************************)
(* The thread pool of src/net/thread_pool.cpp.                             *)
(*                                                                         *)
(* `tasks' and `stop' are only touched with `mtx' held, so each critical   *)
(* section is one step: a worker's evaluation of the wait predicate with   *)
(* what follows it up to unlock() (or up to going to sleep, which releases *)
(* the mutex atomically), the push in submit(), the assignment of `stop'   *)
(* in the destructor.  The notifications are sent after the unlock and are *)
(* steps of their own.  The pool has one owner thread (the event loop,     *)
(* which submits, and whose thread later destroys the Server).             *)
(***************************************************************************)
EXTENDS Naturals, Sequences, FiniteSets

CONSTANTS
    Workers,        \* the threads of the vector `workers'
    Tasks,          \* the closures the owner submits, repeatedly if it likes
    Lasting,        \* those that last as long as a client likes: WebSockets
    NoTask,         \* not a task
    MaxSubmits      \* bound of the model: calls of submit() in a behaviour

ASSUME WorkersFinite == IsFiniteSet(Workers)
ASSUME NoTaskIsNoTask == NoTask \notin Tasks
ASSUME LastingAreTasks == Lasting \subseteq Tasks
ASSUME MaxSubmitsNat == MaxSubmits \in Nat

VARIABLES
    tasks,      \* the queue `tasks'
    stop,       \* the flag `stop'
    wpc,        \* where each worker is
    cur,        \* the closure each worker has moved out of the queue
    opc,        \* where the owner thread is
    submitted,  \* history: every task submitted, in order
    started,    \* history: every task taken by a worker, in order
    finished    \* history: how many tasks have returned

vars == <<tasks, stop, wpc, cur, opc, submitted, started, finished>>

WorkerPc == {"ready",     \* at the mutex, about to evaluate the predicate
             "asleep",    \* blocked in cv.wait
             "running",   \* executing task()
             "exited",    \* returned from the thread function
             "threw"}     \* an exception left the thread function

OwnerPc == {"run",        \* between calls
            "notify",     \* in submit(), after unlock, before notify_one
            "notifyall",  \* in the destructor, after unlock
            "joining",    \* in the destructor, joining the workers
            "destroyed"}

hist == <<submitted, started, finished>>

At(pc) == {w \in Workers : wpc[w] = pc}
Goto(w, pc) == wpc' = [wpc EXCEPT ![w] = pc]

\* An exception that leaves a thread function calls std::terminate.
Terminated == At("threw") # {}

Init ==
    /\ tasks = <<>>
    /\ stop = FALSE
    /\ wpc = [w \in Workers |-> "ready"]
    /\ cur = [w \in Workers |-> NoTask]
    /\ opc = "run"
    /\ submitted = <<>> /\ started = <<>> /\ finished = 0

-----------------------------------------------------------------------------
(* The owner thread. *)

PushFront(q, t) == <<t>> \o q           \* mutant
Push(q, t) == Append(q, t)

\* submit(): lock, push, unlock.
Submit(t) ==
    /\ opc = "run"
    /\ Len(submitted) < MaxSubmits
    /\ tasks' = Push(tasks, t)
    /\ submitted' = Append(submitted, t)
    /\ opc' = "notify"
    /\ UNCHANGED <<stop, wpc, cur, started, finished>>

WakeNobody == UNCHANGED wpc              \* mutant

\* cv.notify_one(): one sleeper, if there is one, goes for the mutex.
WakeOne ==
    \/ At("asleep") = {} /\ UNCHANGED wpc
    \/ \E w \in At("asleep") : Goto(w, "ready")

WakeFirst == WakeOne                     \* mutant

\* cv.notify_all()
WakeAll == wpc' = [w \in Workers |-> IF wpc[w] = "asleep" THEN "ready" ELSE wpc[w]]

\* submit(), after the unlock.
NotifyOne ==
    /\ opc = "notify"
    /\ opc' = "run"
    /\ WakeOne
    /\ UNCHANGED <<tasks, stop, cur, hist>>

\* ~ThreadPool(): lock, stop = true, unlock.
Destroy ==
    /\ opc = "run"
    /\ stop' = TRUE
    /\ opc' = "notifyall"
    /\ UNCHANGED <<tasks, wpc, cur, hist>>

\* ~ThreadPool(), after the unlock.
NotifyAll ==
    /\ opc = "notifyall"
    /\ opc' = "joining"
    /\ WakeAll
    /\ UNCHANGED <<tasks, stop, cur, hist>>

\* ~ThreadPool(): the loop over w.join().
Join ==
    /\ opc = "joining"
    /\ At("exited") = Workers
    /\ opc' = "destroyed"
    /\ UNCHANGED <<tasks, stop, wpc, cur, hist>>

-----------------------------------------------------------------------------
(* Worker w. *)

MayProceedOnStop == stop                 \* mutant
MayExitOnStop == stop                    \* mutant
PopNothing(q) == q                       \* mutant

MayProceed == stop \/ tasks # <<>>     \* the predicate of cv.wait
MayExit == stop /\ tasks = <<>>
Pop(q) == Tail(q)

\* The predicate is false: release the mutex and sleep.
Sleep(w) ==
    /\ wpc[w] = "ready" /\ ~MayProceed
    /\ Goto(w, "asleep")
    /\ UNCHANGED <<tasks, stop, cur, opc, hist>>

\* cv.wait may wake without a notification; it evaluates the predicate again.
SpuriousWakeup(w) ==
    /\ wpc[w] = "asleep"
    /\ Goto(w, "ready")
    /\ UNCHANGED <<tasks, stop, cur, opc, hist>>

\* if(stop && tasks.empty()) return
Exit(w) ==
    /\ wpc[w] = "ready" /\ MayProceed /\ MayExit
    /\ Goto(w, "exited")
    /\ UNCHANGED <<tasks, stop, cur, opc, hist>>

\* Move the front task out, pop, unlock.
Take(w) ==
    /\ wpc[w] = "ready" /\ MayProceed /\ ~MayExit
    /\ cur' = [cur EXCEPT ![w] = Head(tasks)]
    /\ tasks' = Pop(tasks)
    /\ started' = Append(started, Head(tasks))
    /\ Goto(w, "running")
    /\ UNCHANGED <<stop, opc, submitted, finished>>

\* What the worker holds when it reaches the end of the loop body, where the
\* local `task' is destroyed.
AfterTask(w) == NoTask

\* task() returns.
Return(w) ==
    /\ wpc[w] = "running"
    /\ cur' = [cur EXCEPT ![w] = AfterTask(w)]
    /\ Goto(w, "ready")
    /\ finished' = finished + 1
    /\ UNCHANGED <<tasks, stop, opc, submitted, started>>

\* task() throws: nothing in the thread function catches.
Throw(w) ==
    /\ wpc[w] = "running"
    /\ Goto(w, "threw")
    /\ UNCHANGED <<tasks, stop, cur, opc, hist>>

-----------------------------------------------------------------------------
Owner == (\E t \in Tasks : Submit(t)) \/ NotifyOne \/ Destroy \/ NotifyAll \/ Join

Worker(w) ==
    Sleep(w) \/ SpuriousWakeup(w) \/ Exit(w) \/ Take(w) \/ Return(w) \/ Throw(w)

\* The process has ended, or the pool is gone.
Ended == (Terminated \/ opc = "destroyed") /\ UNCHANGED vars

Next ==
    \/ ~Terminated /\ (Owner \/ \E w \in Workers : Worker(w))
    \/ Ended

Spec == Init /\ [][Next]_vars

-----------------------------------------------------------------------------
(* Properties. *)

\* Types; a worker holds a task exactly while it runs it (or died in it).
TypeOK ==
    /\ tasks \in Seq(Tasks)
    /\ stop \in BOOLEAN
    /\ wpc \in [Workers -> WorkerPc]
    /\ cur \in [Workers -> Tasks \cup {NoTask}]
    /\ \A w \in Workers : cur[w] # NoTask <=> wpc[w] \in {"running", "threw"}
    /\ opc \in OwnerPc
    /\ stop <=> opc \in {"notifyall", "joining", "destroyed"}
    /\ submitted \in Seq(Tasks)
    /\ started \in Seq(Tasks)
    /\ finished \in Nat

\* No task is lost, duplicated or overtaken: what the workers have taken so
\* far, followed by what is still queued, is exactly what submit() was
\* given, in that order, whatever the workers and wake-ups did in between.
FifoExactlyOnce == submitted = started \o tasks

\* No lost wake-up.  Between two calls of the owner, if some worker is
\* asleep then at least as many workers are on their way to the queue as
\* there are tasks in it: submit() pushes before it notifies, and no worker
\* goes to sleep without having seen the queue empty.
WorkConserving ==
    (opc # "notify" /\ At("asleep") # {}) => Cardinality(At("ready")) >= Len(tasks)

\* A pool that has been destroyed has run, to the end, everything that was
\* submitted: workers drain the queue before they exit.
DrainedOnDestroy ==
    opc = "destroyed" => started = submitted /\ finished = Len(submitted)

\* The pool's promise: hiding threads and wake-ups, it is one FIFO executor.
Pool == INSTANCE Executor WITH queue <- tasks, running <- cur
ImplementsExecutor == Pool!Spec

\* The workers that a WebSocket's client keeps.
Kept == {w \in Workers : wpc[w] = "running" /\ cur[w] \in Lasting}

\* Every submitted task is eventually taken by a worker, unless a task's
\* exception ends the process, or the clients of WebSockets, whose handlers
\* run until they leave, keep all workers for ever.
EverySubmittedTaskStarts ==
    \A n \in 1..MaxSubmits :
        Len(submitted) >= n ~> (Len(started) >= n \/ Terminated \/ [](Kept = Workers))
=============================================================================
