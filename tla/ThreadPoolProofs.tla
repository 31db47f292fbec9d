-------------------------- MODULE ThreadPoolProofs --------------------------
(***************************************************************************)
(* Theorems about ThreadPool, for every number of workers and clients and  *)
(* every queue limit.                                                      *)
(***************************************************************************)
EXTENDS ThreadPool, SequenceTheorems, FiniteSetTheorems, TLAPS

-----------------------------------------------------------------------------
(* Sequences.                                                              *)

\* Popping the queue moves its head to the end of what was started.
LEMMA ShiftHead ==
  ASSUME NEW S, NEW s \in Seq(S), NEW t \in Seq(S), t # <<>>
  PROVE  Append(s, Head(t)) \o Tail(t) = s \o t
<1>1. Head(t) \in S /\ Tail(t) \in Seq(S) /\ <<Head(t)>> \in Seq(S)
  BY HeadTailProperties
<1>2. t = <<Head(t)>> \o Tail(t)
  <2>1. Len(t) \in Nat /\ Len(t) >= 1 /\ Head(t) = t[1]
    OBVIOUS
  <2>2. /\ Len(Tail(t)) = Len(t) - 1
        /\ \A i \in 1 .. Len(Tail(t)) : Tail(t)[i] = t[i + 1]
    BY HeadTailProperties, Zenon
  <2>3. /\ <<Head(t)>> \o Tail(t) \in Seq(S)
        /\ Len(<<Head(t)>> \o Tail(t)) = Len(t)
        /\ \A i \in 1 .. Len(t) : (<<Head(t)>> \o Tail(t))[i] =
                                    IF i <= 1 THEN <<Head(t)>>[i] ELSE Tail(t)[i - 1]
    BY <1>1, <2>1, <2>2, ConcatProperties
  <2>4. \A i \in 1 .. Len(t) : (<<Head(t)>> \o Tail(t))[i] = t[i]
    BY <2>1, <2>2, <2>3
  <2> QED
    BY <2>1, <2>3, <2>4, SeqEqual, Zenon
<1>3. Append(s, Head(t)) = s \o <<Head(t)>>
  BY <1>1, AppendIsConcat, Zenon
<1> QED
  BY <1>1, <1>2, <1>3, ConcatAssociative

-----------------------------------------------------------------------------
(* Type correctness, and the bound on the queue.                           *)

\* A new pool has its types and an empty queue.
LEMMA TypeInit == Init => TypeOK
<1> SUFFICES ASSUME Init PROVE TypeOK
  BY Zenon
<1>1. stopping_ \in BOOLEAN
  BY Zenon DEF Init
<1> QED
  BY <1>1, PoolAssumption DEF Init, TypeOK

\* Every step preserves the types and the limit of the queue.
LEMMA TypeNext == TypeOK /\ [Next]_vars => TypeOK'
<1> SUFFICES ASSUME TypeOK, [Next]_vars PROVE TypeOK'
  BY Zenon
<1> USE PoolAssumption DEF TypeOK
<1>1. ASSUME NEW c \in Clients, try_submit(c) PROVE TypeOK'
  <2>1. Len(accepted) + 1 \in Job
    BY DEF Job
  <2>2. jobs_' \in Seq(Job) /\ accepted' \in Seq(Job) /\ Len(jobs_') = Len(jobs_) + 1
    BY <1>1, <2>1 DEF try_submit, Push
  <2> QED
    BY <1>1, <2>2 DEF try_submit, Push
<1>2. ASSUME NEW c \in Clients, notify_one(c) PROVE TypeOK'
  BY <1>2, Zenon DEF notify_one, Waiting
<1>3. ASSUME NEW w \in Workers, Wait(w) \/ SpuriousWakeup(w) \/ Exit(w) PROVE TypeOK'
  BY <1>3, Zenon DEF Wait, SpuriousWakeup, Exit, Leave
<1>4. ASSUME NEW w \in Workers, Take(w) PROVE TypeOK'
  <2>1. Head(jobs_) \in Job /\ Tail(jobs_) \in Seq(Job) /\ Len(Tail(jobs_)) = Len(jobs_) - 1
    BY <1>4, HeadTailProperties, Zenon DEF Take
  <2>2. Append(started, Head(jobs_)) \in Seq(Job)
    BY <2>1
  <2> QED
    BY <1>4, <2>1, <2>2 DEF Take
<1>5. ASSUME NEW w \in Workers, FinishJob(w) PROVE TypeOK'
  BY <1>5, Zenon DEF FinishJob
<1>6. ASSUME NEW c \in Clients, shutdown(c) PROVE TypeOK'
  <2>1. stopping_' \in BOOLEAN
    BY <1>6, Zenon DEF shutdown
  <2> QED
    BY <1>6, <2>1, Zenon DEF shutdown
<1>7. ASSUME NEW c \in Clients, notify_all(c) PROVE TypeOK'
  BY <1>7, Zenon DEF notify_all, Wake, Waiting
<1>8. ASSUME NEW c \in Clients, JoinAndClear(c) PROVE TypeOK'
  BY <1>8 DEF JoinAndClear
<1>9. CASE UNCHANGED vars
  BY <1>9, Zenon DEF vars
<1> QED
  BY <1>1, <1>2, <1>3, <1>4, <1>5, <1>6, <1>7, <1>8, <1>9, Zenon DEF Next, WorkerStep, ClientStep

\* The queue never exceeds its limit and the variables keep their types.
THEOREM TypeCorrect == Spec => []TypeOK
BY TypeInit, TypeNext, PTL DEF Spec

-----------------------------------------------------------------------------
(* Accepted jobs are neither lost, nor repeated, nor reordered.            *)

\* Inductive: a worker leaves only when nothing is queued and nothing can be
\* queued any more, so what JoinAndClear discards is empty.
OrderInv ==
  /\ AcceptedRunInOrder
  /\ \A w \in Workers : worker[w] = "exited" => stopping_ /\ jobs_ = <<>>

\* A new pool has accepted nothing.
LEMMA OrderInit == Init => OrderInv
BY DEF Init, OrderInv, AcceptedRunInOrder

\* Every step keeps what was accepted in order.
LEMMA OrderNext == TypeOK /\ OrderInv /\ [Next]_vars => OrderInv'
<1> SUFFICES ASSUME TypeOK, OrderInv, [Next]_vars PROVE OrderInv'
  BY Zenon
<1>a. jobs_ \in Seq(Job) /\ started \in Seq(Job) /\ accepted \in Seq(Job)
      /\ worker \in [Workers -> {"check", "waiting", "running", "exited"}]
  BY Zenon DEF TypeOK
<1>b. ASSUME NEW e \in Job PROVE Append(accepted, e) = started \o Append(jobs_, e)
  <2>1. Append(accepted, e) = accepted \o <<e>> /\ Append(jobs_, e) = jobs_ \o <<e>>
    BY <1>a, AppendIsConcat, Zenon
  <2>2. <<e>> \in Seq(Job)
    OBVIOUS
  <2>3. (started \o jobs_) \o <<e>> = started \o (jobs_ \o <<e>>)
    BY <1>a, <2>2, ConcatAssociative
  <2> QED
    BY <2>1, <2>3, Zenon DEF OrderInv, AcceptedRunInOrder
<1> USE DEF OrderInv, AcceptedRunInOrder
<1>1. ASSUME NEW c \in Clients, try_submit(c) PROVE OrderInv'
  <2>1. Len(accepted) + 1 \in Job
    BY <1>a DEF Job
  <2>2. PICK e \in Job : jobs_' = Append(jobs_, e) /\ accepted' = Append(accepted, e)
    BY <1>1, <2>1, Zenon DEF try_submit, Push
  <2>3. accepted' = started' \o jobs_'
    BY <1>1, <1>b, <2>2, Zenon DEF try_submit, Push
  <2> QED
    BY <1>1, <2>3, Zenon DEF try_submit, Push
<1>2. ASSUME NEW c \in Clients, notify_one(c) PROVE OrderInv'
  BY <1>2, <1>a, Zenon DEF notify_one, Waiting
<1>3. ASSUME NEW w \in Workers, Wait(w) \/ SpuriousWakeup(w) \/ Exit(w) PROVE OrderInv'
  <2>1. CASE Wait(w) \/ SpuriousWakeup(w)
    <3>1. \A v \in Workers : worker'[v] = "exited" => worker[v] = "exited"
      BY <2>1, <1>a, Zenon DEF Wait, SpuriousWakeup
    <3>2. /\ stopping_' = stopping_ /\ jobs_' = jobs_
          /\ accepted' = accepted /\ started' = started
      BY <2>1, Zenon DEF Wait, SpuriousWakeup
    <3> QED
      BY <3>1, <3>2, Zenon
  <2>2. CASE Exit(w)
    <3>1. /\ stopping_ /\ stopping_' = stopping_ /\ jobs_ = <<>> /\ jobs_' = <<>>
          /\ accepted' = accepted /\ started' = started
      BY <2>2, Zenon DEF Exit, Leave
    <3> QED
      BY <3>1, Zenon
  <2> QED
    BY <1>3, <2>1, <2>2, Zenon
<1>4. ASSUME NEW w \in Workers, Take(w) PROVE OrderInv'
  <2>1. accepted' = started' \o jobs_'
    BY <1>4, <1>a, ShiftHead, Zenon DEF Take
  <2>2. \A v \in Workers : worker'[v] # "exited"
    BY <1>4, <1>a, Zenon DEF Take
  <2> QED
    BY <2>1, <2>2, Zenon
<1>5. ASSUME NEW w \in Workers, FinishJob(w) PROVE OrderInv'
  BY <1>5, <1>a, Zenon DEF FinishJob
<1>6. ASSUME NEW c \in Clients, shutdown(c) PROVE OrderInv'
  BY <1>6, Zenon DEF shutdown
<1>7. ASSUME NEW c \in Clients, notify_all(c) PROVE OrderInv'
  BY <1>7, <1>a, Zenon DEF notify_all, Wake
<1>8. ASSUME NEW c \in Clients, JoinAndClear(c) PROVE OrderInv'
  <2>1. jobs_ = <<>>
    BY <1>8, PoolAssumption, Zenon DEF JoinAndClear
  <2> QED
    BY <1>8, <2>1, Zenon DEF JoinAndClear
<1>9. CASE UNCHANGED vars
  BY <1>9, Zenon DEF vars
<1> QED
  BY <1>1, <1>2, <1>3, <1>4, <1>5, <1>6, <1>7, <1>8, <1>9, Zenon DEF Next, WorkerStep, ClientStep

\* Every job try_submit accepted is handed to one worker, in submission order;
\* shutdown never discards one.
THEOREM JobsRunOnceInOrder == Spec => []AcceptedRunInOrder
<1>1. OrderInv => AcceptedRunInOrder
  BY Zenon DEF OrderInv
<1> QED
  BY <1>1, TypeInit, TypeNext, OrderInit, OrderNext, PTL DEF Spec

-----------------------------------------------------------------------------
(* No lost wakeup.                                                         *)

\* Only a shutdown has signals for everyone to send or workers to join.
ShutdownInv ==
  \A c \in Clients : client[c] \in {"notify_all", "join", "done"} => stopping_

\* Nobody has called shutdown on a new pool.
LEMMA ShutdownInit == Init => ShutdownInv
BY Zenon DEF Init, ShutdownInv

\* Every step keeps stopping_ set once shutdown has set it.
LEMMA ShutdownNext == TypeOK /\ ShutdownInv /\ [Next]_vars => ShutdownInv'
<1> SUFFICES ASSUME TypeOK, ShutdownInv, [Next]_vars PROVE ShutdownInv'
  OBVIOUS
<1>a. client \in [Clients -> {"idle", "notify_one", "notify_all", "join", "done"}]
  BY Zenon DEF TypeOK
<1>1. ASSUME NEW c \in Clients, shutdown(c) PROVE ShutdownInv'
  BY <1>1, Zenon DEF shutdown, ShutdownInv
<1>2. ASSUME NEW c \in Clients, try_submit(c) \/ ClientStep(c) PROVE ShutdownInv'
  BY <1>2, <1>a
     DEF ShutdownInv, try_submit, Push, ClientStep, notify_one, notify_all, Wake, JoinAndClear
<1>3. ASSUME NEW w \in Workers, WorkerStep(w) \/ SpuriousWakeup(w) PROVE ShutdownInv'
  BY <1>3 DEF ShutdownInv, WorkerStep, Wait, SpuriousWakeup, Exit, Leave, Take, FinishJob
<1>4. CASE UNCHANGED vars
  BY <1>4, Zenon DEF vars, ShutdownInv
<1> QED
  BY <1>1, <1>2, <1>3, <1>4, Zenon DEF Next

\* The sets that are counted are finite.
LEMMA CountsAreNat ==
  /\ IsFiniteSet(Checking) /\ Cardinality(Checking) \in Nat
  /\ IsFiniteSet(Signalling) /\ Cardinality(Signalling) \in Nat
<1>1. Checking \in SUBSET Workers /\ Signalling \in SUBSET Clients
  BY Zenon DEF Checking, Signalling
<1>2. IsFiniteSet(Checking) /\ IsFiniteSet(Signalling)
  BY <1>1, FS_Subset, PoolAssumption, Zenon
<1> QED
  BY <1>2, FS_CardinalityType, Zenon

\* A worker that starts to check is one more, one that stops one fewer.
LEMMA CheckingCount ==
  ASSUME TypeOK, NEW w \in Workers
  PROVE  /\ (worker[w] # "check" /\ worker' = [worker EXCEPT ![w] = "check"]) =>
              Cardinality(Checking)' = Cardinality(Checking) + 1
         /\ \A to \in {"running", "waiting", "exited"} :
              (worker[w] = "check" /\ worker' = [worker EXCEPT ![w] = to]) =>
                Cardinality(Checking)' = Cardinality(Checking) - 1
         /\ worker' = worker => Cardinality(Checking)' = Cardinality(Checking)
<1>1. ASSUME worker[w] # "check", worker' = [worker EXCEPT ![w] = "check"]
      PROVE  Cardinality(Checking)' = Cardinality(Checking) + 1
  <2>1. Checking' = Checking \cup {w} /\ w \notin Checking
    BY <1>1, Zenon DEF Checking, TypeOK
  <2> QED
    BY <2>1, CountsAreNat, FS_AddElement, Zenon
<1>2. ASSUME NEW to \in {"running", "waiting", "exited"},
             worker[w] = "check", worker' = [worker EXCEPT ![w] = to]
      PROVE  Cardinality(Checking)' = Cardinality(Checking) - 1
  <2>1. Checking' = Checking \ {w} /\ w \in Checking
    BY <1>2, Zenon DEF Checking, TypeOK
  <2> QED
    BY <2>1, CountsAreNat, FS_RemoveElement, Zenon
<1>3. ASSUME worker' = worker PROVE Cardinality(Checking)' = Cardinality(Checking)
  BY <1>3, Zenon DEF Checking
<1> QED
  BY <1>1, <1>2, <1>3, Zenon

\* Every step keeps each queued job matched by a worker or a signal.
LEMMA WakeupNext ==
  TypeOK /\ ShutdownInv /\ NoLostWakeup /\ [Next]_vars => NoLostWakeup'
<1> SUFFICES ASSUME TypeOK, ShutdownInv, NoLostWakeup, [Next]_vars,
                    Waiting' # {}, ~stopping_'
             PROVE  Len(jobs_)' <= Cardinality(Checking)' + Cardinality(Signalling)'
  BY Zenon DEF NoLostWakeup
<1>a. /\ Len(jobs_) \in Nat /\ jobs_ \in Seq(Job) /\ accepted \in Seq(Job)
      /\ worker \in [Workers -> {"check", "waiting", "running", "exited"}]
      /\ client \in [Clients -> {"idle", "notify_one", "notify_all", "join", "done"}]
  BY DEF TypeOK
<1>b. /\ Cardinality(Checking) \in Nat /\ Cardinality(Signalling) \in Nat
      /\ IsFiniteSet(Signalling)
  BY CountsAreNat, Zenon
<1>c. client' = client => Cardinality(Signalling)' = Cardinality(Signalling)
  BY Zenon DEF Signalling
<1>d. (Cardinality(Checking) \in Nat)' /\ (Cardinality(Signalling) \in Nat)'
  <2>1. /\ Checking' \in SUBSET Workers /\ Signalling' \in SUBSET Clients
    BY Zenon DEF Checking, Signalling
  <2>2. IsFiniteSet(Checking') /\ IsFiniteSet(Signalling')
    BY <2>1, FS_Subset, PoolAssumption, Zenon
  <2> QED
    BY <2>2, FS_CardinalityType, Zenon
<1>1. ASSUME NEW c \in Clients, try_submit(c)
      PROVE  Len(jobs_)' <= Cardinality(Checking)' + Cardinality(Signalling)'
  <2>1. Signalling' = Signalling \cup {c} /\ c \notin Signalling
    BY <1>1, <1>a, Zenon DEF try_submit, Push, Signalling
  <2>2. Cardinality(Signalling)' = Cardinality(Signalling) + 1
    BY <1>b, <2>1, FS_AddElement, Zenon
  <2>3. Len(jobs_)' = Len(jobs_) + 1
    BY <1>1, <1>a DEF try_submit, Push
  <2>4. worker' = worker /\ ~stopping_ /\ Waiting # {}
    BY <1>1, Zenon DEF try_submit, Push, Waiting
  <2>5. Cardinality(Checking)' = Cardinality(Checking)
    BY <2>4, Zenon DEF Checking
  <2> QED
    BY <1>a, <1>b, <2>2, <2>3, <2>4, <2>5 DEF NoLostWakeup
<1>2. ASSUME NEW c \in Clients, notify_one(c)
      PROVE  Len(jobs_)' <= Cardinality(Checking)' + Cardinality(Signalling)'
  <2>1. Waiting # {}
    BY <1>2, Zenon DEF notify_one, Waiting
  <2>2. PICK w \in Waiting : worker' = [worker EXCEPT ![w] = "check"]
    BY <1>2, <2>1, Zenon DEF notify_one
  <2>3. Cardinality(Checking)' = Cardinality(Checking) + 1
    BY <2>2, CheckingCount, Zenon DEF Waiting
  <2>4. Signalling' = Signalling \ {c} /\ c \in Signalling
    BY <1>2, <1>a, Zenon DEF notify_one, Signalling
  <2>5. Cardinality(Signalling)' = Cardinality(Signalling) - 1
    BY <1>b, <2>4, FS_RemoveElement, Zenon
  <2>6. jobs_' = jobs_ /\ ~stopping_
    BY <1>2, Zenon DEF notify_one
  <2> QED
    BY <1>a, <1>b, <2>1, <2>3, <2>5, <2>6 DEF NoLostWakeup
<1>3. ASSUME NEW w \in Workers, Wait(w)
      PROVE  Len(jobs_)' <= Cardinality(Checking)' + Cardinality(Signalling)'
  <2>1. Len(jobs_)' = 0
    BY <1>3, Zenon DEF Wait
  <2> QED
    BY <1>d, <2>1
<1>4. ASSUME NEW w \in Workers, SpuriousWakeup(w) \/ FinishJob(w)
      PROVE  Len(jobs_)' <= Cardinality(Checking)' + Cardinality(Signalling)'
  <2>1. Cardinality(Checking)' = Cardinality(Checking) + 1
    BY <1>4, CheckingCount, Zenon DEF SpuriousWakeup, FinishJob
  <2>2. Waiting # {} /\ ~stopping_ /\ jobs_' = jobs_ /\ client' = client
    BY <1>4, <1>a DEF SpuriousWakeup, FinishJob, Waiting
  <2> QED
    BY <1>a, <1>b, <1>c, <2>1, <2>2 DEF NoLostWakeup
<1>5. ASSUME NEW w \in Workers, Take(w)
      PROVE  Len(jobs_)' <= Cardinality(Checking)' + Cardinality(Signalling)'
  <2>1. Cardinality(Checking)' = Cardinality(Checking) - 1
    BY <1>5, CheckingCount, Zenon DEF Take
  <2>2. Len(jobs_)' = Len(jobs_) - 1
    BY <1>5, <1>a, HeadTailProperties, Zenon DEF Take
  <2>3. Waiting # {} /\ ~stopping_ /\ client' = client
    BY <1>5, <1>a, Zenon DEF Take, Waiting
  <2> QED
    BY <1>a, <1>b, <1>c, <2>1, <2>2, <2>3 DEF NoLostWakeup
<1>6. \A w \in Workers : ~Exit(w)
  BY DEF Exit, Leave
<1>7. \A c \in Clients : ~shutdown(c)
  BY Zenon DEF shutdown
<1>8. \A c \in Clients : ~notify_all(c) /\ ~JoinAndClear(c)
  BY DEF notify_all, Wake, JoinAndClear, ShutdownInv
<1>9. CASE UNCHANGED vars
  BY <1>9, Zenon DEF vars, NoLostWakeup, Waiting, Checking, Signalling
<1> QED
  BY <1>1, <1>2, <1>3, <1>4, <1>5, <1>6, <1>7, <1>8, <1>9, Zenon DEF Next, WorkerStep, ClientStep

\* The condition variable loses no wakeup: whenever a worker sleeps, every
\* queued job has a worker on its way or a signal still to be sent.
THEOREM WakeupsAreNotLost == Spec => []NoLostWakeup
<1>1. Init => NoLostWakeup
  BY Zenon DEF Init, NoLostWakeup, Waiting
<1> QED
  BY <1>1, TypeInit, TypeNext, ShutdownInit, ShutdownNext, WakeupNext, PTL DEF Spec

=============================================================================
