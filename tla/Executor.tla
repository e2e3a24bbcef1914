------------------------------ MODULE Executor ------------------------------
(***************************************************************************)
(* What yNet's thread pool promises the code that uses it: a task that is  *)
(* handed to submit() joins the end of one queue, an idle worker starts    *)
(* the task at its front, and a worker runs one task at a time.  Threads,  *)
(* the mutex, the condition variable and wake-ups do not appear.           *)
(*                                                                         *)
(* ThreadPool implements this specification; Server is built on it.        *)
(***************************************************************************)
EXTENDS Sequences

CONSTANTS
    Workers,    \* the worker threads
    Tasks,      \* the closures that can be submitted
    NoTask      \* what an idle worker runs

VARIABLES
    queue,      \* submitted and not yet started, oldest first
    running     \* running[w] is the task worker w executes

vars == <<queue, running>>

Init ==
    /\ queue = <<>>
    /\ running = [w \in Workers |-> NoTask]

Submit(t) ==
    /\ queue' = Append(queue, t)
    /\ UNCHANGED running

Start(w) ==
    /\ running[w] = NoTask
    /\ queue # <<>>
    /\ running' = [running EXCEPT ![w] = Head(queue)]
    /\ queue' = Tail(queue)

Finish(w) ==
    /\ running[w] # NoTask
    /\ running' = [running EXCEPT ![w] = NoTask]
    /\ UNCHANGED queue

Next ==
    \/ \E t \in Tasks : Submit(t)
    \/ \E w \in Workers : Start(w) \/ Finish(w)

Spec == Init /\ [][Next]_vars
=============================================================================
