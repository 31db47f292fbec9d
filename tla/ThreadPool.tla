----------------------------- MODULE ThreadPool -----------------------------
(***************************************************************************)
(* util::ThreadPool: a bounded FIFO of jobs, workers that sleep on one     *)
(* condition variable, and a shutdown that joins them.                     *)
(*                                                                         *)
(* What the code does under mutex_ is one step; a notify, which it does    *)
(* after the unlock, is another.  A worker inside cv_.wait is `waiting';   *)
(* woken, or spuriously awake, it is back at `check' to take the lock and  *)
(* evaluate the predicate.  Jobs are numbered in the order of submission.  *)
(***************************************************************************)
EXTENDS Naturals, Sequences, FiniteSets

CONSTANTS
  Workers, Clients,
  max_queue_size,
  NoJob,           \* what an idle worker runs
  MaxJobs          \* bound: jobs accepted in a behaviour

ASSUME PoolAssumption ==
  /\ Workers # {} /\ IsFiniteSet(Workers) /\ IsFiniteSet(Clients)
  /\ max_queue_size \in Nat \ {0} /\ MaxJobs \in Nat
  /\ NoJob \notin Nat

Job == Nat

VARIABLES
  jobs_, stopping_,
  worker,     \* where each worker is in worker_main
  running,    \* the job each worker is running
  client,     \* where each client is in try_submit or shutdown
  accepted,   \* history: jobs try_submit returned true for, in order
  started     \* history: jobs handed to a worker, in order

vars == <<jobs_, stopping_, worker, running, client, accepted, started>>

Init ==
  /\ jobs_ = <<>> /\ stopping_ = FALSE
  /\ worker = [w \in Workers |-> "check"]
  /\ running = [w \in Workers |-> NoJob]
  /\ client = [c \in Clients |-> "idle"]
  /\ accepted = <<>> /\ started = <<>>

-----------------------------------------------------------------------------
(* try_submit.                                                             *)

Push(c, limit) ==
  /\ client[c] = "idle" /\ Len(accepted) < MaxJobs
  /\ ~stopping_ /\ Len(jobs_) < limit      \* else it returns false at once
  /\ jobs_' = Append(jobs_, Len(accepted) + 1)
  /\ accepted' = Append(accepted, Len(accepted) + 1)
  /\ client' = [client EXCEPT ![c] = "notify_one"]
  /\ UNCHANGED <<stopping_, worker, running, started>>

\* Fault: the limit is checked with > instead of >=.
PushPastLimit(c) == Push(c, max_queue_size + 1)

try_submit(c) == Push(c, max_queue_size)

Waiting == {w \in Workers : worker[w] = "waiting"}

\* Fault: the condition variable is not signalled.
NotifyNobody(c) ==
  /\ client[c] = "notify_one"
  /\ client' = [client EXCEPT ![c] = "idle"]
  /\ UNCHANGED <<jobs_, stopping_, worker, running, accepted, started>>

notify_one(c) ==
  /\ client[c] = "notify_one"
  /\ client' = [client EXCEPT ![c] = "idle"]
  /\ IF Waiting = {} THEN UNCHANGED worker
     ELSE \E w \in Waiting : worker' = [worker EXCEPT ![w] = "check"]
  /\ UNCHANGED <<jobs_, stopping_, running, accepted, started>>

-----------------------------------------------------------------------------
(* worker_main.                                                            *)

Wait(w) ==
  /\ worker[w] = "check" /\ ~stopping_ /\ jobs_ = <<>>
  /\ worker' = [worker EXCEPT ![w] = "waiting"]
  /\ UNCHANGED <<jobs_, stopping_, running, client, accepted, started>>

SpuriousWakeup(w) ==
  /\ worker[w] = "waiting"
  /\ worker' = [worker EXCEPT ![w] = "check"]
  /\ UNCHANGED <<jobs_, stopping_, running, client, accepted, started>>

Leave(w, may) ==
  /\ worker[w] = "check" /\ stopping_ /\ may
  /\ worker' = [worker EXCEPT ![w] = "exited"]
  /\ UNCHANGED <<jobs_, stopping_, running, client, accepted, started>>

\* Fault: a worker returns on stopping_ whatever is queued.
ExitEarly(w) == Leave(w, TRUE)

Exit(w) == Leave(w, jobs_ = <<>>)

Take(w) ==
  /\ worker[w] = "check" /\ jobs_ # <<>>
  /\ running' = [running EXCEPT ![w] = Head(jobs_)]
  /\ started' = Append(started, Head(jobs_))
  /\ jobs_' = Tail(jobs_)
  /\ worker' = [worker EXCEPT ![w] = "running"]
  /\ UNCHANGED <<stopping_, client, accepted>>

FinishJob(w) ==
  /\ worker[w] = "running"
  /\ running' = [running EXCEPT ![w] = NoJob]
  /\ worker' = [worker EXCEPT ![w] = "check"]
  /\ UNCHANGED <<jobs_, stopping_, client, accepted, started>>

-----------------------------------------------------------------------------
(* shutdown; a call that finds stopping_ set returns at once.              *)

shutdown(c) ==
  /\ client[c] = "idle" /\ ~stopping_
  /\ stopping_' = TRUE
  /\ client' = [client EXCEPT ![c] = "notify_all"]
  /\ UNCHANGED <<jobs_, worker, running, accepted, started>>

Wake(c, woken) ==
  /\ client[c] = "notify_all"
  /\ client' = [client EXCEPT ![c] = "join"]
  /\ worker' = [w \in Workers |-> IF w \in woken THEN "check" ELSE worker[w]]
  /\ UNCHANGED <<jobs_, stopping_, running, accepted, started>>

\* Fault: shutdown signals one worker only.
NotifyOneForAll(c) ==
  IF Waiting = {} THEN Wake(c, {}) ELSE \E w \in Waiting : Wake(c, {w})

notify_all(c) == Wake(c, Waiting)

\* Every worker joined; the queue is then swapped with an empty one.
JoinAndClear(c) ==
  /\ client[c] = "join" /\ \A w \in Workers : worker[w] = "exited"
  /\ client' = [client EXCEPT ![c] = "done"]
  /\ jobs_' = <<>>
  /\ UNCHANGED <<stopping_, worker, running, accepted, started>>

-----------------------------------------------------------------------------
WorkerStep(w) == Wait(w) \/ Exit(w) \/ Take(w) \/ FinishJob(w)
ClientStep(c) == notify_one(c) \/ notify_all(c) \/ JoinAndClear(c)

Next ==
  \/ \E w \in Workers : WorkerStep(w) \/ SpuriousWakeup(w)
  \/ \E c \in Clients : try_submit(c) \/ shutdown(c) \/ ClientStep(c)

Spec == Init /\ [][Next]_vars

\* Threads are scheduled and jobs return; nobody has to submit or shut down,
\* and no wakeup is spurious on demand.
FairSpec ==
  /\ Spec
  /\ \A w \in Workers : WF_vars(WorkerStep(w))
  /\ \A c \in Clients : WF_vars(ClientStep(c))

-----------------------------------------------------------------------------
TypeOK ==
  /\ jobs_ \in Seq(Job) /\ accepted \in Seq(Job) /\ started \in Seq(Job)
  /\ stopping_ \in BOOLEAN
  /\ worker \in [Workers -> {"check", "waiting", "running", "exited"}]
  /\ running \in [Workers -> Job \cup {NoJob}]
  /\ client \in [Clients -> {"idle", "notify_one", "notify_all", "join", "done"}]
  /\ Len(jobs_) <= max_queue_size

\* A job try_submit accepted is handed to exactly one worker, in the order of
\* submission, and the queue shutdown throws away at the end is always empty.
AcceptedRunInOrder == accepted = started \o jobs_

Checking == {w \in Workers : worker[w] = "check"}
Signalling == {c \in Clients : client[c] = "notify_one"}

\* No lost wakeup: while some worker sleeps, the workers on their way to the
\* queue and the signals still to be sent are at least as many as its jobs.
NoLostWakeup ==
  Waiting # {} /\ ~stopping_ =>
    Len(jobs_) <= Cardinality(Checking) + Cardinality(Signalling)

\* Every accepted job is run, shutdown or not.
AcceptedJobsRun == \A j \in 1 .. MaxJobs : Len(accepted) = j ~> Len(started) >= j

\* A shutdown returns: every worker leaves its wait and its loop.
ShutdownReturns == \A c \in Clients : client[c] = "notify_all" ~> client[c] = "done"

=============================================================================
