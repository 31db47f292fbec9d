---------------------------- MODULE ServerProofs ----------------------------
(***************************************************************************)
(* Proofs about Server, for any number of clients and descriptors, every   *)
(* configuration and every input.                                          *)
(***************************************************************************)
EXTENDS Server, TLAPS

\* A reply, to a command or to a protocol error.
ReplyType == [client : Clients, seq : Nat \cup {-1}]
\* A command of a connection on its way through the pool.
Job == [id : Nat \ {0}, client : Clients, seq : Nat]
\* The fields of a Connection.
Connection ==
  [id : Nat \ {0}, client : Clients, parser : Seq(config_.messages),
   interest : SUBSET Interests, read_closed : BOOLEAN, closing : BOOLEAN,
   inflight : Nat, command_queue : Seq(Nat), strand_running : BOOLEAN,
   pending_responses : SUBSET Nat, next_request_seq : Nat,
   next_response_seq : Nat, output : Seq(ReplyType)]

\* A client and the two directions of its socket.
Socket ==
  [state : {"new", "backlog", "accepted", "closed"}, in : Seq(config_.messages),
   eof : BOOLEAN, reset : BOOLEAN, asked : Seq(config_.messages),
   sent : Seq(ReplyType), unread : 0 .. SendRoom]

\* The frames of a function that works on one connection.
Working == {"read", "parse", "interest"}
\* The frames at the bottom of the stack.
Bottom == {"wait", "idle", "ended", "threw"}
\* The frames: those that carry nothing, those of one connection, the end of an event.
FrameType ==
  [pc : {"drain", "events", "accept"} \cup Bottom, fd : {Listener}, ready : {{}}]
    \cup [pc : Working, fd : Fds, ready : {{}}]
    \cup [pc : {"finish"}, fd : Fds, ready : SUBSET Interests]

\* The types of the connections, the pool and the kernel, and of the I/O thread.
CoreType ==
  /\ config_ \in Configs
  /\ connections_ \in [Fds -> Connection \cup {NoConnection}]
  /\ next_connection_id_ \in Nat \ {0}
  /\ jobs \in Seq(Job) /\ Len(jobs) <= config_.worker_queue_limit
  /\ running \in SUBSET Job
  /\ completions_ \in Seq(Job)
  /\ edges \in [Fds \cup {Listener} -> SUBSET Interests]
  /\ sock \in [Clients -> Socket]
  /\ backlog \in Seq(Clients)
  /\ ran \in [Clients -> Seq(Nat)]

\* The types of all that changes.
TypeInv ==
  /\ CoreType
  /\ batch \in [Fds \cup {Listener} -> SUBSET Interests]
  /\ stack \in Seq(FrameType)
  /\ stopping_ \in BOOLEAN

\* Somebody on the stack s is going to look at the output of fd.
Visits(s, fd) == \E f \in Range(s) : f.pc \in {"interest", "finish"} /\ f.fd = fd

\* The work on one connection comes before everything else on the stack s,
\* where open are the connections and shut those that are closing.
Shape(s, open, shut) ==
  /\ s # <<>>
  /\ \A i \in DOMAIN s :
       /\ s[i].pc \in Bottom <=> i = Len(s)
       /\ s[i].pc \in Working => /\ s[i].fd \in open
                                 /\ \A j \in 1 .. i - 1 : s[j].pc \in {"read", "parse"}
       /\ s[i].pc = "parse" => i = 1 /\ s[i].fd \notin shut
       /\ s[i].pc \in {"read", "parse"} => Visits(s, s[i].fd)

\* The connections that are only flushed.
Closing == {fd \in Open : connections_[fd].closing}
\* The stack has the shape the calls of run() give it.
StackInv == Shape(stack, Open, Closing)

\* The jobs in the queue js, at the workers rs and among the completions cs.
JobsIn(js, rs, cs) == Range(js) \cup rs \cup Range(cs)
\* Every job between launch_strand and apply_completion.
Jobs == JobsIn(jobs, running, completions_)

\* Connections, clients and jobs know each other.
IdInv ==
  /\ \A fd \in Open : /\ connections_[fd].id < next_connection_id_
                      /\ sock[connections_[fd].client].state = "accepted"
  /\ \A fd, g \in Open :
       connections_[fd].client = connections_[g].client \/ connections_[fd].id = connections_[g].id
         => fd = g
  /\ \A i \in DOMAIN backlog : sock[backlog[i]].state = "backlog"
  /\ \A i, j \in DOMAIN backlog : backlog[i] = backlog[j] => i = j
  /\ \A job \in Jobs : /\ job.id < next_connection_id_
                       /\ sock[job.client].state \in {"accepted", "closed"}
                       /\ \A fd \in Open : connections_[fd].id = job.id
                                             <=> connections_[fd].client = job.client
  /\ \A n \in Clients : sock[n].state \in {"new", "backlog"} => ran[n] = <<>> /\ sock[n].sent = <<>>

\* A client has one job at most, and the jobs js, rs, cs and what ran agree.
Orderly(js, rs, cs, rn) ==
  /\ \A i, j \in DOMAIN js : js[i].client = js[j].client => i = j
  /\ \A i, j \in DOMAIN cs : cs[i].client = cs[j].client => i = j
  /\ \A a, b \in rs : a.client = b.client => a = b
  /\ \A a \in Range(js) : \A b \in rs : a.client # b.client
  /\ \A a \in Range(js) \cup rs : \A b \in Range(cs) : a.client # b.client
  /\ \A a \in Range(js) \cup rs : Len(rn[a.client]) = a.seq
  /\ \A a \in Range(cs) : Len(rn[a.client]) = a.seq + 1
  /\ \A n \in Clients : \A i \in DOMAIN rn[n] : rn[n][i] = i - 1

\* The commands of a connection that went to the pool, and those whose
\* completion was applied.
Launched(c) == c.next_request_seq - Len(c.command_queue)
\* How many commands of c were launched and have returned.
Applied(c) == IF c.strand_running THEN Launched(c) - 1 ELSE Launched(c)

\* The queue of a connection holds the commands that follow.
QueueOf(c) ==
  /\ Len(c.command_queue) <= c.next_request_seq
  /\ \A i \in DOMAIN c.command_queue : c.command_queue[i] = Launched(c) + i - 1

\* The strand of a connection among the jobs all.
StrandOf(c, all, rn) ==
  /\ QueueOf(c)
  /\ IF c.strand_running
     THEN /\ c.inflight = Len(c.command_queue) + 1
          /\ \E job \in all : job.client = c.client /\ job.seq = Launched(c) - 1
     ELSE /\ c.inflight = 0 /\ c.command_queue = <<>>
          /\ Len(rn[c.client]) = c.next_request_seq
          /\ \A job \in all : job.client # c.client

\* The replies of a connection.
ReplyOf(c) ==
  /\ c.next_response_seq <= Applied(c)
  /\ c.pending_responses \subseteq c.next_response_seq + 1 .. Applied(c) - 1
  /\ Len(c.output) <= config_.max_output_buffer + 1
  /\ ~c.closing => Len(c.output) <= config_.max_output_buffer

\* Every connection has its strand and its replies in order.
StrandInv ==
  /\ Orderly(jobs, running, completions_, ran)
  /\ \A fd \in Open : StrandOf(connections_[fd], Jobs, ran) /\ ReplyOf(connections_[fd])

\* The replies of a sequence are those to the first commands of n, in order.
Sound(n, replies) ==
  \A i \in DOMAIN replies :
    replies[i] \in {ErrorReply(n), Reply(n, Cardinality(CommandReplies(SubSeq(replies, 1, i - 1))))}

\* Every client gets the replies to its first commands, none before the command ran.
ReplyInv ==
  /\ \A n \in Clients : Sound(n, Written(n)) /\ Answered(n) <= Len(ran[n])
  /\ \A fd \in Open : Answered(connections_[fd].client) = connections_[fd].next_response_seq

\* A write event of fd is pending, reported, or being handled.
WriteEvent(fd) ==
  \/ "write" \in edges[fd] \cup batch[fd]
  \/ \E f \in Range(stack) : f.pc = "finish" /\ f.fd = fd /\ "write" \in f.ready

\* An interest in writing waits for an event that comes; without it somebody looks again.
WriteOf(fd) ==
  LET c == connections_[fd]
  IN  /\ "write" \in c.interest =>
           c.output # <<>> /\ (sock[c.client].unread < SendRoom => WriteEvent(fd))
      /\ c.output # <<>> /\ "write" \notin c.interest => Visits(stack, fd)

\* While run() loops, the output of a connection has a write event to come.
WriteInv ==
  (\E f \in Range(stack) : f.pc \in {"wait", "idle"}) =>
    /\ \/ \E f \in Range(stack) : f.pc = "events"
       \/ \A fd \in DOMAIN batch : batch[fd] = {}
    /\ \A fd \in Open : WriteOf(fd)


-----------------------------------------------------------------------------
(* Sequences, and the jobs of the pool.                                    *)

\* The length and the domain of a sequence.
LEMMA LenFacts ==
  ASSUME NEW S, NEW s \in Seq(S)
  PROVE  Len(s) \in Nat /\ DOMAIN s = 1 .. Len(s)
OBVIOUS

\* Sequences with the same elements are the same.
LEMMA SameElements ==
  ASSUME NEW S, NEW s \in Seq(S), NEW t \in Seq(S), Len(s) = Len(t), \A i \in 1 .. Len(s) : s[i] = t[i]
  PROVE  s = t
OBVIOUS

\* Concatenation.
LEMMA ConcatType ==
  ASSUME NEW S, NEW s \in Seq(S), NEW t \in Seq(S)
  PROVE  s \o t \in Seq(S)
OBVIOUS

\* It does not matter which concatenation comes first.
LEMMA ConcatAssoc ==
  ASSUME NEW S, NEW s \in Seq(S), NEW t \in Seq(S), NEW u \in Seq(S)
  PROVE  (s \o t) \o u = s \o (t \o u)
OBVIOUS

\* Appending to a sequence.
LEMMA AppendFacts ==
  ASSUME NEW S, NEW s \in Seq(S), NEW x \in S
  PROVE  /\ Append(s, x) \in Seq(S) /\ Len(Append(s, x)) = Len(s) + 1
         /\ \A i \in 1 .. Len(s) : Append(s, x)[i] = s[i]
         /\ Append(s, x)[Len(s) + 1] = x
         /\ DOMAIN Append(s, x) = 1 .. Len(s) + 1 /\ DOMAIN s = 1 .. Len(s) /\ Len(s) \in Nat
         /\ Range(Append(s, x)) = Range(s) \cup {x}
<1>1. /\ Append(s, x) \in Seq(S) /\ Len(Append(s, x)) = Len(s) + 1
      /\ \A i \in 1 .. Len(s) : Append(s, x)[i] = s[i]
      /\ Append(s, x)[Len(s) + 1] = x
      /\ DOMAIN Append(s, x) = 1 .. Len(s) + 1 /\ DOMAIN s = 1 .. Len(s) /\ Len(s) \in Nat
  OBVIOUS
<1>2. DOMAIN Append(s, x) = DOMAIN s \cup {Len(s) + 1}
  BY <1>1
<1>3. Range(Append(s, x)) = Range(s) \cup {x}
  BY <1>1, <1>2 DEF Range
<1> QED
  BY <1>1, <1>3, Zenon

\* Removing the head of a sequence.
LEMMA TailFacts ==
  ASSUME NEW S, NEW s \in Seq(S), s # <<>>
  PROVE  /\ Tail(s) \in Seq(S) /\ Len(Tail(s)) = Len(s) - 1 /\ Len(Tail(s)) \in Nat
         /\ Head(s) = s[1] /\ Head(s) \in S
         /\ \A i \in 1 .. Len(s) - 1 : Tail(s)[i] = s[i + 1]
         /\ DOMAIN Tail(s) = 1 .. Len(s) - 1 /\ DOMAIN s = 1 .. Len(s) /\ Len(s) \in Nat \ {0}
         /\ Range(s) = {Head(s)} \cup Range(Tail(s))
<1>1. /\ Tail(s) \in Seq(S) /\ Len(Tail(s)) = Len(s) - 1 /\ Len(Tail(s)) \in Nat
      /\ Head(s) = s[1] /\ Head(s) \in S
      /\ \A i \in 1 .. Len(s) - 1 : Tail(s)[i] = s[i + 1]
      /\ DOMAIN Tail(s) = 1 .. Len(s) - 1 /\ DOMAIN s = 1 .. Len(s) /\ Len(s) \in Nat \ {0}
  OBVIOUS
<1>2. ASSUME NEW y \in Range(s) PROVE y = Head(s) \/ y \in Range(Tail(s))
  <2>1. PICK i \in 1 .. Len(s) : y = s[i]
    BY <1>1, Zenon DEF Range
  <2>2. i = 1 \/ i - 1 \in 1 .. Len(s) - 1
    BY <1>1
  <2>3. i - 1 \in 1 .. Len(s) - 1 => y = Tail(s)[i - 1]
    BY <1>1, <2>1
  <2> QED
    BY <1>1, <2>1, <2>2, <2>3, Zenon DEF Range
<1>3. ASSUME NEW y \in Range(Tail(s)) PROVE y \in Range(s)
  <2>1. PICK i \in 1 .. Len(s) - 1 : y = Tail(s)[i]
    BY <1>1, Zenon DEF Range
  <2>2. i + 1 \in 1 .. Len(s) /\ y = s[i + 1]
    BY <1>1, <2>1
  <2> QED
    BY <1>1, <2>2, Zenon DEF Range
<1>4. Head(s) \in Range(s)
  BY <1>1 DEF Range
<1> QED
  BY <1>1, <1>2, <1>3, <1>4, Zenon

\* What a sequence of records of a set holds are such records.
LEMMA RangeFacts ==
  ASSUME NEW S, NEW s \in Seq(S)
  PROVE  /\ Range(s) \subseteq S /\ DOMAIN s = 1 .. Len(s) /\ Len(s) \in Nat
         /\ \A i \in DOMAIN s : s[i] \in Range(s)
         /\ \A x \in Range(s) : \E i \in DOMAIN s : x = s[i]
BY DEF Range

\* A job of a client that has none may be queued, or run at once.
LEMMA PoolLaunch ==
  ASSUME NEW js \in Seq(Job), NEW rs \in SUBSET Job, NEW cs \in Seq(Job),
         NEW rn \in [Clients -> Seq(Nat)], NEW job \in Job,
         Orderly(js, rs, cs, rn), Len(rn[job.client]) = job.seq,
         \A a \in JobsIn(js, rs, cs) : a.client # job.client
  PROVE  LET rn2 == [rn EXCEPT ![job.client] = Append(rn[job.client], job.seq)]
         IN  /\ Orderly(Append(js, job), rs, cs, rn)
             /\ Orderly(js, rs, Append(cs, job), rn2)
             /\ JobsIn(Append(js, job), rs, cs) = JobsIn(js, rs, cs) \cup {job}
             /\ JobsIn(js, rs, Append(cs, job)) = JobsIn(js, rs, cs) \cup {job}
<1> DEFINE rn2 == [rn EXCEPT ![job.client] = Append(rn[job.client], job.seq)]
<1>1. /\ Append(js, job) \in Seq(Job) /\ Len(Append(js, job)) = Len(js) + 1
      /\ \A i \in 1 .. Len(js) : Append(js, job)[i] = js[i]
      /\ Append(js, job)[Len(js) + 1] = job
      /\ DOMAIN Append(js, job) = 1 .. Len(js) + 1 /\ DOMAIN js = 1 .. Len(js) /\ Len(js) \in Nat
      /\ Range(Append(js, job)) = Range(js) \cup {job}
  BY AppendFacts
<1>2. /\ Append(cs, job) \in Seq(Job) /\ Len(Append(cs, job)) = Len(cs) + 1
      /\ \A i \in 1 .. Len(cs) : Append(cs, job)[i] = cs[i]
      /\ Append(cs, job)[Len(cs) + 1] = job
      /\ DOMAIN Append(cs, job) = 1 .. Len(cs) + 1 /\ DOMAIN cs = 1 .. Len(cs) /\ Len(cs) \in Nat
      /\ Range(Append(cs, job)) = Range(cs) \cup {job}
  BY AppendFacts
<1>3. /\ \A i \in DOMAIN js : js[i] \in Range(js)
      /\ \A i \in DOMAIN cs : cs[i] \in Range(cs)
      /\ Range(js) \subseteq Job /\ Range(cs) \subseteq Job
  BY RangeFacts, Zenon
<1>4. /\ \A a \in Range(js) : a.client # job.client
      /\ \A a \in rs : a.client # job.client
      /\ \A a \in Range(cs) : a.client # job.client
  BY Zenon DEF JobsIn
<1>5. /\ rn2[job.client] = Append(rn[job.client], job.seq) /\ job.client \in Clients /\ job.seq \in Nat
      /\ \A n \in Clients : n # job.client => rn2[n] = rn[n]
  BY Zenon DEF Job
<1>6. /\ Len(rn2[job.client]) = job.seq + 1
      /\ \A i \in DOMAIN rn2[job.client] : rn2[job.client][i] = i - 1
  <2>1. rn[job.client] \in Seq(Nat) /\ job.seq \in Nat
    BY <1>5, Zenon
  <2>2. \A i \in 1 .. job.seq : rn[job.client][i] = i - 1
    BY <1>5, <2>1 DEF Orderly
  <2>3. \A s \in Seq(Nat) :
          /\ Len(Append(s, job.seq)) = Len(s) + 1
          /\ DOMAIN Append(s, job.seq) = 1 .. Len(s) + 1
          /\ \A i \in 1 .. Len(s) : Append(s, job.seq)[i] = s[i]
          /\ Append(s, job.seq)[Len(s) + 1] = job.seq
    BY <2>1
  <2> HIDE DEF rn2
  <2> QED
    BY <1>5, <2>1, <2>2, <2>3
<1>7. \A i, j \in DOMAIN Append(js, job) : Append(js, job)[i].client = Append(js, job)[j].client => i = j
  <2>1. \A i, j \in 1 .. Len(js) : js[i].client = js[j].client => i = j
    BY <1>1, Zenon DEF Orderly
  <2>2. \A i \in 1 .. Len(js) : js[i].client # job.client
    BY <1>1, <1>3, <1>4, Zenon
  <2> QED
    BY <1>1, <2>1, <2>2
<1>8. \A i, j \in DOMAIN Append(cs, job) : Append(cs, job)[i].client = Append(cs, job)[j].client => i = j
  <2>1. \A i, j \in 1 .. Len(cs) : cs[i].client = cs[j].client => i = j
    BY <1>2, Zenon DEF Orderly
  <2>2. \A i \in 1 .. Len(cs) : cs[i].client # job.client
    BY <1>2, <1>3, <1>4, Zenon
  <2> QED
    BY <1>2, <2>1, <2>2
<1>9. Orderly(Append(js, job), rs, cs, rn)
  BY <1>1, <1>4, <1>7, Zenon DEF Orderly
<1>10. Orderly(js, rs, Append(cs, job), rn2)
  <2>1. \A a \in Range(js) \cup rs \cup Range(cs) : rn2[a.client] = rn[a.client]
    BY <1>3, <1>4, <1>5, Zenon DEF Job
  <2>2. \A a \in Range(js) \cup rs : Len(rn2[a.client]) = a.seq
    BY <2>1, Zenon DEF Orderly
  <2>3. \A a \in Range(Append(cs, job)) : Len(rn2[a.client]) = a.seq + 1
    BY <2>1, <1>2, <1>6, ZenonT(30) DEF Orderly
  <2>4. \A n \in Clients : \A i \in DOMAIN rn2[n] : rn2[n][i] = i - 1
    BY <1>5, <1>6, Zenon DEF Orderly
  <2>5. \A a \in Range(js) \cup rs : \A b \in Range(Append(cs, job)) : a.client # b.client
    BY <1>2, <1>4, Zenon DEF Orderly
  <2> HIDE DEF rn2
  <2> QED
    BY <1>8, <2>2, <2>3, <2>4, <2>5, Zenon DEF Orderly
<1> QED
  BY <1>1, <1>2, <1>9, <1>10, Zenon DEF JobsIn

\* A completion that is taken from the queue was the only job of its client.
LEMMA PoolDone ==
  ASSUME NEW js \in Seq(Job), NEW rs \in SUBSET Job, NEW cs \in Seq(Job),
         NEW rn \in [Clients -> Seq(Nat)], Orderly(js, rs, cs, rn), cs # <<>>
  PROVE  /\ Orderly(js, rs, Tail(cs), rn)
         /\ JobsIn(js, rs, Tail(cs)) = JobsIn(js, rs, cs) \ {Head(cs)}
         /\ \A a \in JobsIn(js, rs, cs) : a.client = Head(cs).client => a = Head(cs)
<1>1. /\ Tail(cs) \in Seq(Job) /\ Len(Tail(cs)) = Len(cs) - 1 /\ Len(Tail(cs)) \in Nat
      /\ Head(cs) = cs[1] /\ Head(cs) \in Job
      /\ \A i \in 1 .. Len(cs) - 1 : Tail(cs)[i] = cs[i + 1]
      /\ DOMAIN Tail(cs) = 1 .. Len(cs) - 1 /\ DOMAIN cs = 1 .. Len(cs) /\ Len(cs) \in Nat \ {0}
      /\ Range(cs) = {Head(cs)} \cup Range(Tail(cs))
  BY TailFacts, Zenon
<1>2. \A i, j \in 1 .. Len(cs) : cs[i].client = cs[j].client => i = j
  BY <1>1, Zenon DEF Orderly
<1>3. \A a \in Range(Tail(cs)) : a.client # Head(cs).client
  <2> SUFFICES ASSUME NEW i \in 1 .. Len(cs) - 1 PROVE Tail(cs)[i].client # Head(cs).client
    BY <1>1, Zenon DEF Range
  <2> QED
    BY <1>1, <1>2
<1>4. \A a \in Range(js) \cup rs : a.client # Head(cs).client
  BY <1>1, Zenon DEF Orderly
<1>5. \A i, j \in DOMAIN Tail(cs) : Tail(cs)[i].client = Tail(cs)[j].client => i = j
  BY <1>1, <1>2
<1>6. Orderly(js, rs, Tail(cs), rn)
  BY <1>1, <1>5, Zenon DEF Orderly
<1> QED
  BY <1>1, <1>3, <1>4, <1>6, Zenon DEF JobsIn

\* A worker takes the first job of the queue.
LEMMA PoolTake ==
  ASSUME NEW js \in Seq(Job), NEW rs \in SUBSET Job, NEW cs \in Seq(Job),
         NEW rn \in [Clients -> Seq(Nat)], Orderly(js, rs, cs, rn), js # <<>>
  PROVE  /\ Orderly(Tail(js), rs \cup {Head(js)}, cs, rn) /\ Head(js) \notin rs
         /\ JobsIn(Tail(js), rs \cup {Head(js)}, cs) = JobsIn(js, rs, cs)
<1>1. /\ Tail(js) \in Seq(Job) /\ Len(Tail(js)) = Len(js) - 1 /\ Len(Tail(js)) \in Nat
      /\ Head(js) = js[1] /\ Head(js) \in Job
      /\ \A i \in 1 .. Len(js) - 1 : Tail(js)[i] = js[i + 1]
      /\ DOMAIN Tail(js) = 1 .. Len(js) - 1 /\ DOMAIN js = 1 .. Len(js) /\ Len(js) \in Nat \ {0}
      /\ Range(js) = {Head(js)} \cup Range(Tail(js))
  BY TailFacts, Zenon
<1>2. \A i, j \in 1 .. Len(js) : js[i].client = js[j].client => i = j
  BY <1>1, Zenon DEF Orderly
<1>3. \A a \in Range(Tail(js)) : a.client # Head(js).client
  <2> SUFFICES ASSUME NEW i \in 1 .. Len(js) - 1 PROVE Tail(js)[i].client # Head(js).client
    BY <1>1, Zenon DEF Range
  <2> QED
    BY <1>1, <1>2
<1>4. \A i, j \in DOMAIN Tail(js) : Tail(js)[i].client = Tail(js)[j].client => i = j
  BY <1>1, <1>2
<1>5. Orderly(Tail(js), rs \cup {Head(js)}, cs, rn) /\ Head(js) \notin rs
  BY <1>1, <1>3, <1>4 DEF Orderly
<1> QED
  BY <1>1, <1>5, Zenon DEF JobsIn

\* A worker runs its job.
LEMMA PoolRun ==
  ASSUME NEW js \in Seq(Job), NEW rs \in SUBSET Job, NEW cs \in Seq(Job),
         NEW rn \in [Clients -> Seq(Nat)], Orderly(js, rs, cs, rn), NEW job \in rs
  PROVE  LET rn2 == [rn EXCEPT ![job.client] = Append(rn[job.client], job.seq)]
         IN  /\ Orderly(js, rs \ {job}, Append(cs, job), rn2)
             /\ JobsIn(js, rs \ {job}, Append(cs, job)) = JobsIn(js, rs, cs)
<1> DEFINE rest == rs \ {job}
           rn2 == [rn EXCEPT ![job.client] = Append(rn[job.client], job.seq)]
<1>1. Orderly(js, rest, cs, rn) /\ Len(rn[job.client]) = job.seq
  BY Zenon DEF Orderly
<1>2. \A a \in JobsIn(js, rest, cs) : a.client # job.client
  BY Zenon DEF Orderly, JobsIn
<1>3. JobsIn(js, rs, cs) = JobsIn(js, rest, cs) \cup {job}
  BY Zenon DEF JobsIn
<1>4. job \in Job /\ rest \in SUBSET Job
  BY Zenon
<1> HIDE DEF rest
<1>5. Orderly(js, rest, Append(cs, job), rn2)
  BY <1>1, <1>2, <1>4, PoolLaunch, Zenon
<1>6. Range(Append(cs, job)) = Range(cs) \cup {job}
  BY <1>4, AppendFacts
<1>7. JobsIn(js, rest, Append(cs, job)) = JobsIn(js, rs, cs)
  BY <1>3, <1>6, Zenon DEF JobsIn
<1> QED
  BY <1>5, <1>7, Zenon DEF rest

-----------------------------------------------------------------------------
(* What the handlers do to a connection and what is around it.             *)

\* What a handler works on.
WorldType ==
  [c : Connection, s : Socket, e : SUBSET Interests, jobs : Seq(Job),
   completions : Seq(Job), ran : [Clients -> Seq(Nat)]]

\* The commands of a connection are left alone.
SameStrand(c, d) ==
  /\ d.id = c.id /\ d.client = c.client /\ d.command_queue = c.command_queue
  /\ d.strand_running = c.strand_running /\ d.inflight = c.inflight
  /\ d.next_request_seq = c.next_request_seq

\* The replies of a connection are left alone.
SameReplies(c, d) ==
  d.next_response_seq = c.next_response_seq /\ d.pending_responses = c.pending_responses

\* The pool is left alone.
SamePool(w, v) == v.jobs = w.jobs /\ v.completions = w.completions /\ v.ran = w.ran

\* The constants as the provers use them.
LEMMA Constants ==
  ASSUME TypeInv
  PROVE  /\ Chunk \in Nat \ {0} /\ SendRoom \in Nat \ {0}
         /\ config_.worker_queue_limit \in Nat \ {0} /\ config_.max_output_buffer \in Nat \ {0}
         /\ config_.worker_threads \in Nat \ {0} /\ config_.messages \subseteq {"cmd", "bad", "part"}
         /\ Listener \notin Fds /\ Clients \subseteq Nat \ {0}
BY ServerAssumption, Zenon DEF TypeInv, CoreType, Config, Listener

\* The smaller of two numbers.
LEMMA MinFacts ==
  ASSUME NEW a \in Int, NEW b \in Int
  PROVE  Min({a, b}) \in {a, b} /\ Min({a, b}) <= a /\ Min({a, b}) <= b
<1>1. \E x \in {a, b} : \A y \in {a, b} : x <= y
  OBVIOUS
<1> QED
  BY <1>1, Zenon DEF Min

\* The fields of a connection.
LEMMA ConnectionFields ==
  ASSUME NEW c \in Connection
  PROVE  /\ c.id \in Nat /\ c.id # 0 /\ c.client \in Clients /\ c.parser \in Seq(config_.messages)
         /\ c.interest \subseteq Interests /\ c.read_closed \in BOOLEAN /\ c.closing \in BOOLEAN
         /\ c.inflight \in Nat /\ c.command_queue \in Seq(Nat) /\ c.strand_running \in BOOLEAN
         /\ c.pending_responses \subseteq Nat /\ c.next_request_seq \in Nat
         /\ c.next_response_seq \in Nat /\ c.output \in Seq(ReplyType)
BY Zenon DEF Connection

\* The fields of a socket.
LEMMA SocketFields ==
  ASSUME NEW s \in Socket
  PROVE  /\ s.state \in {"new", "backlog", "accepted", "closed"} /\ s.in \in Seq(config_.messages)
         /\ s.eof \in BOOLEAN /\ s.reset \in BOOLEAN /\ s.asked \in Seq(config_.messages)
         /\ s.sent \in Seq(ReplyType) /\ s.unread \in 0 .. SendRoom
BY Zenon DEF Socket

\* The parts of a world.
LEMMA WorldFields ==
  ASSUME NEW w \in WorldType
  PROVE  /\ w.c \in Connection /\ w.s \in Socket /\ w.e \subseteq Interests
         /\ w.jobs \in Seq(Job) /\ w.completions \in Seq(Job) /\ w.ran \in [Clients -> Seq(Nat)]
BY Zenon DEF WorldType

\* An error reply.
LEMMA ErrorFacts ==
  ASSUME NEW w \in WorldType
  PROVE  LET v == ProtocolError(w)
         IN  /\ v \in WorldType /\ SameStrand(w.c, v.c) /\ SameReplies(w.c, v.c)
             /\ SamePool(w, v) /\ v.s = w.s /\ v.e = w.e /\ v.c.interest = w.c.interest
             /\ v.c.output = Append(w.c.output, ErrorReply(w.c.client)) /\ v.c.closing
<1>1. Append(w.c.output, ErrorReply(w.c.client)) \in Seq(ReplyType)
  <2>1. w.c.output \in Seq(ReplyType) /\ w.c.client \in Clients
    BY WorldFields, ConnectionFields, Zenon
  <2>2. ErrorReply(w.c.client) \in ReplyType
    BY <2>1, Zenon DEF ErrorReply, Reply, ReplyType
  <2> QED
    BY <2>1, <2>2
<1> DEFINE out == Append(w.c.output, ErrorReply(w.c.client))
<1>2. ProtocolError(w) = [w EXCEPT !.c = [w.c EXCEPT !.output = out, !.closing = TRUE, !.read_closed = TRUE]]
  BY Zenon DEF ProtocolError, WorldType
<1> HIDE DEF out
<1>3. out \in Seq(ReplyType)
  BY <1>1, Zenon DEF out
<1> DEFINE d == [w.c EXCEPT !.output = out, !.closing = TRUE, !.read_closed = TRUE]
<1>4. d \in Connection /\ d.output = out /\ d.closing /\ d.interest = w.c.interest
  BY <1>3, WorldFields, ZenonT(30) DEF Connection
<1>5. SameStrand(w.c, d) /\ SameReplies(w.c, d)
  BY WorldFields, Zenon DEF Connection, SameStrand, SameReplies
<1> HIDE DEF d
<1>6. /\ [w EXCEPT !.c = d] \in WorldType /\ SamePool(w, [w EXCEPT !.c = d])
      /\ [w EXCEPT !.c = d].c = d /\ [w EXCEPT !.c = d].s = w.s /\ [w EXCEPT !.c = d].e = w.e
  BY <1>4, Zenon DEF WorldType, SamePool
<1> QED
  BY <1>2, <1>4, <1>5, <1>6, Zenon DEF d, out

\* The end of the input: an error reply, or nothing but flags.
LEMMA EndFacts ==
  ASSUME NEW w \in WorldType
  PROVE  LET v == EndOfInput(w)
         IN  /\ v \in WorldType /\ SameStrand(w.c, v.c) /\ SameReplies(w.c, v.c)
             /\ SamePool(w, v) /\ v.s = w.s /\ v.e = w.e /\ v.c.interest = w.c.interest
             /\ \/ v.c.output = w.c.output /\ (w.c.closing => v.c.closing)
                \/ v.c.output = Append(w.c.output, ErrorReply(w.c.client)) /\ v.c.closing
<1>1. CASE w.c.parser # <<>>
  <2>1. EndOfInput(w) = ProtocolError(w)
    BY <1>1, Zenon DEF EndOfInput
  <2> QED
    BY <2>1, ErrorFacts, Zenon
<1>2. CASE w.c.parser = <<>>
  <2> DEFINE b == w.c.closing \/ (w.c.inflight = 0 /\ w.c.output = <<>>)
             d == [w.c EXCEPT !.read_closed = TRUE, !.closing = b]
  <2>1. EndOfInput(w) = [w EXCEPT !.c = d]
    BY <1>2, Zenon DEF EndOfInput, WorldType, Connection
  <2>2. b \in BOOLEAN /\ (w.c.closing => b)
    BY Zenon
  <2> HIDE DEF b
  <2>3. d \in Connection /\ d.output = w.c.output /\ d.closing = b /\ d.interest = w.c.interest
    BY <2>2, WorldFields, ZenonT(30) DEF Connection
  <2>4. SameStrand(w.c, d) /\ SameReplies(w.c, d)
    BY WorldFields, Zenon DEF Connection, SameStrand, SameReplies
  <2> HIDE DEF d
  <2>5. /\ [w EXCEPT !.c = d] \in WorldType /\ SamePool(w, [w EXCEPT !.c = d])
        /\ [w EXCEPT !.c = d].c = d /\ [w EXCEPT !.c = d].s = w.s /\ [w EXCEPT !.c = d].e = w.e
    BY <2>3, Zenon DEF WorldType, SamePool
  <2> QED
    BY <2>1, <2>2, <2>3, <2>4, <2>5, Zenon
<1> QED
  BY <1>1, <1>2, Zenon

\* A sequence in two parts.
LEMMA SplitFacts ==
  ASSUME NEW S, NEW s \in Seq(S), NEW n \in 0 .. Len(s)
  PROVE  /\ SubSeq(s, 1, n) \in Seq(S) /\ Len(SubSeq(s, 1, n)) = n
         /\ SubSeq(s, n + 1, Len(s)) \in Seq(S) /\ Len(SubSeq(s, n + 1, Len(s))) = Len(s) - n
         /\ SubSeq(s, 1, n) \o SubSeq(s, n + 1, Len(s)) = s
<1>1. Len(s) \in Nat /\ 1 \in 1 .. Len(s) + 1 /\ n \in 1 - 1 .. Len(s) /\ Len(s) \in n .. Len(s)
  OBVIOUS
<1> DEFINE a == SubSeq(s, 1, n)
           b == SubSeq(s, n + 1, Len(s))
<1>2. /\ a \in Seq(S) /\ Len(a) = n
      /\ \A i \in 1 .. n : a[i] = s[i]
  BY <1>1
<1>3. /\ b \in Seq(S) /\ Len(b) = Len(s) - n
      /\ \A i \in 1 .. Len(s) - n : b[i] = s[n + i]
  BY <1>1
<1> HIDE DEF a, b
<1>4. a \o b \in Seq(S) /\ Len(a \o b) = Len(s)
  <2>0. a \in Seq(S) /\ b \in Seq(S)
    BY <1>2, <1>3, Zenon
  <2>1. a \o b \in Seq(S)
    BY <2>0, ConcatType, Zenon
  <2>2. Len(a \o b) = Len(a) + Len(b)
    BY <2>0
  <2> QED
    BY <1>1, <1>2, <1>3, <2>1, <2>2
<1>5. \A i \in 1 .. Len(s) : (a \o b)[i] = s[i]
  <2>1. ASSUME NEW i \in 1 .. n PROVE (a \o b)[i] = s[i]
    BY <1>1, <1>2, <1>3
  <2>2. ASSUME NEW i \in n + 1 .. Len(s) PROVE (a \o b)[i] = s[i]
    <3>1. i - n \in 1 .. Len(s) - n /\ n + (i - n) = i
      BY <1>1
    <3>2. (a \o b)[i] = b[i - n]
      BY <1>1, <1>2, <1>3
    <3> QED
      BY <1>3, <3>1, <3>2, Zenon
  <2>3. \A i \in 1 .. Len(s) : i \in 1 .. n \/ i \in n + 1 .. Len(s)
    BY <1>1
  <2> QED
    BY <2>1, <2>2, <2>3, Zenon
<1>6. a \o b = s
  BY <1>4, <1>5, SameElements, Zenon
<1> QED
  BY <1>2, <1>3, <1>6, Zenon DEF a, b

\* A receive moves input from the socket to the parser.
LEMMA ReceiveFacts ==
  ASSUME NEW w \in WorldType, NEW n \in 1 .. Len(w.s.in)
  PROVE  LET v == [w EXCEPT !.s.in = SubSeq(@, n + 1, Len(@)),
                            !.c.parser = @ \o SubSeq(w.s.in, 1, n)]
         IN  /\ v \in WorldType /\ SameStrand(w.c, v.c) /\ SameReplies(w.c, v.c)
             /\ SamePool(w, v) /\ v.e = w.e /\ v.c.interest = w.c.interest
             /\ v.c.output = w.c.output /\ v.c.closing = w.c.closing
             /\ v.s.state = w.s.state /\ v.s.sent = w.s.sent /\ v.s.unread = w.s.unread
<1> DEFINE in == SubSeq(w.s.in, n + 1, Len(w.s.in))
           parser == w.c.parser \o SubSeq(w.s.in, 1, n)
           t == [w.s EXCEPT !.in = in]
           d == [w.c EXCEPT !.parser = parser]
           v == [w EXCEPT !.s = t, !.c = d]
<1>1. in \in Seq(config_.messages) /\ parser \in Seq(config_.messages)
  <2>1. w.s.in \in Seq(config_.messages) /\ w.c.parser \in Seq(config_.messages)
    BY WorldFields, ConnectionFields, SocketFields, Zenon
  <2>2. n \in 0 .. Len(w.s.in)
    BY <2>1
  <2>3. in \in Seq(config_.messages) /\ SubSeq(w.s.in, 1, n) \in Seq(config_.messages)
    BY <2>1, <2>2, SplitFacts, Zenon
  <2> QED
    BY <2>1, <2>3, ConcatType, Zenon
<1>2. v = [w EXCEPT !.s.in = SubSeq(@, n + 1, Len(@)), !.c.parser = @ \o SubSeq(w.s.in, 1, n)]
  BY Zenon DEF WorldType
<1> HIDE DEF in, parser
<1>3. t \in Socket /\ t.state = w.s.state /\ t.sent = w.s.sent /\ t.unread = w.s.unread
  BY <1>1, WorldFields, Zenon DEF Socket
<1>4. /\ d \in Connection /\ d.interest = w.c.interest /\ d.output = w.c.output
      /\ d.closing = w.c.closing
  BY <1>1, WorldFields, ZenonT(30) DEF Connection
<1>5. SameStrand(w.c, d) /\ SameReplies(w.c, d)
  BY WorldFields, Zenon DEF Connection, SameStrand, SameReplies
<1> HIDE DEF t, d
<1>6. v \in WorldType /\ SamePool(w, v) /\ v.c = d /\ v.s = t /\ v.e = w.e
  BY <1>3, <1>4, Zenon DEF WorldType, SamePool
<1> QED
  BY <1>2, <1>3, <1>4, <1>5, <1>6, Zenon DEF v

\* Sending moves output to the socket; what stays did not fit.
LEMMA WriteFacts ==
  ASSUME TypeInv, NEW w \in WorldType
  PROVE  LET v == WriteConnection(w)
         IN  /\ v \in WorldType /\ SameStrand(w.c, v.c) /\ SameReplies(w.c, v.c)
             /\ SamePool(w, v) /\ v.e = w.e /\ v.c.interest = w.c.interest
             /\ v.c.closing = w.c.closing /\ v.s.state = w.s.state
             /\ v.s.sent \o v.c.output = w.s.sent \o w.c.output
             /\ Len(v.c.output) <= Len(w.c.output)
             /\ v.c.output # <<>> => v.s.unread = SendRoom
<1> DEFINE n == TrySend(w.s, w.c.output)
           out == SubSeq(w.c.output, n + 1, Len(w.c.output))
           unread == w.s.unread + n
           sent == w.s.sent \o SubSeq(w.c.output, 1, n)
           t == [w.s EXCEPT !.unread = unread, !.sent = sent]
           d == [w.c EXCEPT !.output = out]
           v == [w EXCEPT !.c = d, !.s = t]
<1>1. /\ w.c.output \in Seq(ReplyType) /\ w.s.sent \in Seq(ReplyType) /\ SendRoom \in Nat
      /\ w.s.unread \in 0 .. SendRoom /\ Len(w.c.output) \in Nat
  BY WorldFields, ConnectionFields, SocketFields, Constants
<1>2. n \in 0 .. Len(w.c.output) /\ n <= SendRoom - w.s.unread
      /\ (n = Len(w.c.output) \/ n = SendRoom - w.s.unread)
  <2> DEFINE a == SendRoom - w.s.unread
             b == Len(w.c.output)
  <2>1. a \in Int /\ a >= 0 /\ b \in Nat /\ n = Min({a, b})
    BY <1>1 DEF TrySend
  <2> HIDE DEF a, b, n
  <2>2. n \in {a, b} /\ n <= a /\ n <= b
    BY <2>1, MinFacts
  <2> QED
    BY <2>1, <2>2 DEF a, b
<1> HIDE DEF n
<1>3. /\ out \in Seq(ReplyType) /\ sent \in Seq(ReplyType) /\ unread \in 0 .. SendRoom
      /\ Len(out) = Len(w.c.output) - n
  <2>1. /\ SubSeq(w.c.output, 1, n) \in Seq(ReplyType) /\ out \in Seq(ReplyType)
        /\ Len(out) = Len(w.c.output) - n
    BY <1>1, <1>2, SplitFacts, Zenon
  <2>2. sent \in Seq(ReplyType)
    BY <1>1, <2>1, ConcatType, Zenon
  <2>3. unread \in 0 .. SendRoom
    BY <1>1, <1>2
  <2> QED
    BY <2>1, <2>2, <2>3, Zenon
<1>4. sent \o out = w.s.sent \o w.c.output
  <2>1. SubSeq(w.c.output, 1, n) \in Seq(ReplyType) /\ SubSeq(w.c.output, 1, n) \o out = w.c.output
    BY <1>1, <1>2, SplitFacts, Zenon
  <2> DEFINE a == SubSeq(w.c.output, 1, n)
             b == w.s.sent
  <2>2. a \in Seq(ReplyType) /\ out \in Seq(ReplyType) /\ b \in Seq(ReplyType)
    BY <1>1, <1>3, <2>1, Zenon
  <2> HIDE DEF a, b, out, sent
  <2>3. (b \o a) \o out = b \o (a \o out)
    BY <2>2, ConcatAssoc
  <2> QED
    BY <2>1, <2>3, Zenon DEF a, b, sent
<1>5. out # <<>> => unread = SendRoom
  BY <1>1, <1>2, <1>3, SMTT(30)
<1>6. Len(out) <= Len(w.c.output)
  BY <1>1, <1>2, <1>3
<1>7. WriteConnection(w) = v
  BY Zenon DEF WriteConnection, WorldType, Socket, n
<1> HIDE DEF out, unread, sent
<1>8. t \in Socket /\ t.state = w.s.state /\ t.sent = sent /\ t.unread = unread
  BY <1>3, WorldFields, Zenon DEF Socket
<1>9. /\ d \in Connection /\ d.interest = w.c.interest /\ d.output = out
      /\ d.closing = w.c.closing
  BY <1>3, WorldFields, ZenonT(30) DEF Connection
<1>10. SameStrand(w.c, d) /\ SameReplies(w.c, d)
  BY WorldFields, Zenon DEF Connection, SameStrand, SameReplies
<1> HIDE DEF t, d
<1>11. v \in WorldType /\ SamePool(w, v) /\ v.c = d /\ v.s = t /\ v.e = w.e
  BY <1>8, <1>9, Zenon DEF WorldType, SamePool
<1> QED
  BY <1>4, <1>5, <1>6, <1>7, <1>8, <1>9, <1>10, <1>11, Zenon DEF v

\* A registration changes the filters and what they report.
LEMMA ModifyFacts ==
  ASSUME NEW w \in WorldType
  PROVE  LET v == Modify(w, WantedInterest(w))
         IN  /\ v \in WorldType /\ SameStrand(w.c, v.c) /\ SameReplies(w.c, v.c)
             /\ SamePool(w, v) /\ v.s = w.s
             /\ v.c.output = w.c.output /\ v.c.closing = w.c.closing
             /\ "write" \in v.c.interest <=> w.c.output # <<>>
             /\ "write" \in v.c.interest /\ "write" \in w.e => "write" \in v.e
             /\ "write" \in v.c.interest /\ "write" \notin w.c.interest /\ w.s.unread < SendRoom
                  => "write" \in v.e
<1> DEFINE i == WantedInterest(w)
           e == (w.e \cap Reported(w.s, i))
                  \cup {x \in Reported(w.s, i \ w.c.interest) : IsReady(w.s, x)}
           d == [w.c EXCEPT !.interest = i]
           v == [w EXCEPT !.c = d, !.e = e]
<1>1. i \subseteq Interests /\ ("write" \in i <=> w.c.output # <<>>)
  BY Zenon DEF WantedInterest, Interests
<1>2. Modify(w, i) = v
  BY Zenon DEF Modify, WorldType
<1> HIDE DEF i
<1>3. /\ e \subseteq Interests
      /\ "write" \in i /\ "write" \in w.e => "write" \in e
      /\ "write" \in i /\ "write" \notin w.c.interest /\ w.s.unread < SendRoom => "write" \in e
  BY <1>1, WorldFields, Zenon DEF IsReady, Reported, Interests
<1> HIDE DEF e
<1>4. /\ d \in Connection /\ d.interest = i /\ d.output = w.c.output
      /\ d.closing = w.c.closing
  BY <1>1, WorldFields, ZenonT(30) DEF Connection
<1>5. SameStrand(w.c, d) /\ SameReplies(w.c, d)
  BY WorldFields, Zenon DEF Connection, SameStrand, SameReplies
<1> HIDE DEF d
<1>6. v \in WorldType /\ SamePool(w, v) /\ v.c = d /\ v.s = w.s /\ v.e = e
  BY <1>3, <1>4, Zenon DEF WorldType, SamePool
<1> QED
  BY <1>1, <1>2, <1>3, <1>4, <1>5, <1>6, Zenon DEF v, i

\* What the pool's side keeps of the other clients when a handler works for c.
PoolOf(w) == JobsIn(w.jobs, running, w.completions)
\* A handler adds jobs of its own connection and changes nothing of the other clients.
OthersKept(w, v) ==
  /\ PoolOf(v) \ {a \in PoolOf(v) : a.client = w.c.client}
       = PoolOf(w) \ {a \in PoolOf(w) : a.client = w.c.client}
  /\ \A n \in Clients \ {w.c.client} : v.ran[n] = w.ran[n]
  /\ Len(v.ran[w.c.client]) >= Len(w.ran[w.c.client])
  /\ \A a \in PoolOf(v) \ PoolOf(w) : a.id = w.c.id /\ a.client = w.c.client

\* The strand of w.c is between two commands.
BetweenCommands(w) ==
  /\ Orderly(w.jobs, running, w.completions, w.ran)
  /\ QueueOf(w.c) /\ w.c.inflight = Len(w.c.command_queue)
  /\ Len(w.ran[w.c.client]) = Launched(w.c)
  /\ \A a \in PoolOf(w) : a.client # w.c.client

\* The strand of w.c is as it is between two steps.
Settled(w) ==
  /\ Orderly(w.jobs, running, w.completions, w.ran) /\ StrandOf(w.c, PoolOf(w), w.ran)

\* Appending a job, or the number of a command.
LEMMA JobAppend ==
  ASSUME NEW js \in Seq(Job), NEW job \in Job
  PROVE  /\ Append(js, job) \in Seq(Job) /\ Len(Append(js, job)) = Len(js) + 1
         /\ Range(Append(js, job)) = Range(js) \cup {job}
BY AppendFacts

\* Append, on sequence numbers.
LEMMA SeqAppend ==
  ASSUME NEW s \in Seq(Nat), NEW k \in Nat
  PROVE  Append(s, k) \in Seq(Nat) /\ Len(Append(s, k)) = Len(s) + 1
OBVIOUS

\* launch_strand with nothing to launch.
LEMMA LaunchNothing ==
  ASSUME TypeInv, NEW w \in WorldType, BetweenCommands(w), w.c.command_queue = <<>>
  PROVE  LET v == LaunchStrand(w)
         IN  /\ v \in WorldType /\ SamePool(w, v) /\ v.s = w.s /\ v.e = w.e
             /\ SameReplies(w.c, v.c) /\ v.c.interest = w.c.interest /\ v.c.closing = w.c.closing
             /\ v.c.output = w.c.output /\ v.c.id = w.c.id /\ v.c.client = w.c.client
             /\ v.c.inflight = w.c.inflight /\ v.c.next_request_seq = w.c.next_request_seq
             /\ Settled(v) /\ Applied(v.c) = Launched(w.c)
<1> DEFINE d == [w.c EXCEPT !.strand_running = FALSE]
           v == [w EXCEPT !.c = d]
<1>1. LaunchStrand(w) = v
  BY Zenon DEF LaunchStrand, WorldType
<1>2. /\ d \in Connection /\ d.interest = w.c.interest /\ d.closing = w.c.closing
      /\ d.output = w.c.output /\ d.id = w.c.id /\ d.client = w.c.client
      /\ d.inflight = w.c.inflight /\ d.next_request_seq = w.c.next_request_seq
      /\ d.command_queue = w.c.command_queue /\ d.strand_running = FALSE
      /\ d.next_response_seq = w.c.next_response_seq
      /\ d.pending_responses = w.c.pending_responses
  BY WorldFields, Zenon DEF Connection
<1> HIDE DEF d
<1>3. v \in WorldType /\ SamePool(w, v) /\ v.c = d /\ v.s = w.s /\ v.e = w.e
  BY <1>2, Zenon DEF WorldType, SamePool
<1> HIDE DEF v
<1>4. PoolOf(v) = PoolOf(w)
  BY <1>3, Zenon DEF SamePool, PoolOf
<1>5. /\ Orderly(v.jobs, running, v.completions, v.ran) /\ v.ran = w.ran
  BY <1>3, Zenon DEF SamePool, BetweenCommands
<1>6. Launched(d) = Launched(w.c) /\ Applied(d) = Launched(w.c) /\ QueueOf(d)
  BY <1>2, Zenon DEF Launched, Applied, BetweenCommands, QueueOf
<1>7. w.c.next_request_seq \in Nat /\ Len(<<>>) = 0
  BY WorldFields, ConnectionFields, Zenon
<1>8. w.c.inflight = 0 /\ Len(w.ran[w.c.client]) = w.c.next_request_seq
  BY <1>7 DEF BetweenCommands, Launched
<1>9. \A a \in PoolOf(w) : a.client # w.c.client
  BY Zenon DEF BetweenCommands
<1>10. StrandOf(d, PoolOf(w), w.ran)
  BY <1>2, <1>6, <1>8, <1>9, Zenon DEF StrandOf
<1>11. Settled(v)
  BY <1>3, <1>4, <1>5, <1>10, Zenon DEF Settled
<1> QED
  BY <1>1, <1>2, <1>3, <1>6, <1>11, Zenon DEF SameReplies

\* launch_strand with a command.
LEMMA LaunchOne ==
  ASSUME TypeInv, NEW w \in WorldType, BetweenCommands(w), w.c.command_queue # <<>>
  PROVE  LET v == LaunchStrand(w)
         IN  /\ v \in WorldType /\ v.s = w.s /\ v.e = w.e
             /\ SameReplies(w.c, v.c) /\ v.c.interest = w.c.interest /\ v.c.closing = w.c.closing
             /\ v.c.output = w.c.output /\ v.c.id = w.c.id /\ v.c.client = w.c.client
             /\ v.c.inflight = w.c.inflight /\ v.c.next_request_seq = w.c.next_request_seq
             /\ Settled(v) /\ Applied(v.c) = Launched(w.c)
             /\ OthersKept(w, v)
             /\ Len(w.jobs) <= config_.worker_queue_limit => Len(v.jobs) <= config_.worker_queue_limit
<1> DEFINE q == w.c.command_queue
           job == [id |-> w.c.id, client |-> w.c.client, seq |-> Head(w.c.command_queue)]
           d == [w.c EXCEPT !.command_queue = Tail(w.c.command_queue), !.strand_running = TRUE]
           rn == [w.ran EXCEPT ![job.client] = Append(w.ran[job.client], job.seq)]
           v == LaunchStrand(w)
<1>1. /\ w.c.id \in Nat \ {0} /\ w.c.client \in Clients /\ w.c.command_queue \in Seq(Nat)
      /\ w.c.next_request_seq \in Nat /\ w.c \in Connection
      /\ w.jobs \in Seq(Job) /\ w.completions \in Seq(Job) /\ w.ran \in [Clients -> Seq(Nat)]
      /\ running \in SUBSET Job
  BY WorldFields, ConnectionFields, Zenon DEF TypeInv, CoreType
<1>2. /\ Tail(q) \in Seq(Nat) /\ Len(Tail(q)) = Len(q) - 1 /\ Head(q) = q[1] /\ Head(q) \in Nat
      /\ \A i \in 1 .. Len(q) - 1 : Tail(q)[i] = q[i + 1]
      /\ DOMAIN Tail(q) = 1 .. Len(q) - 1 /\ DOMAIN q = 1 .. Len(q) /\ Len(q) \in Nat \ {0}
  BY <1>1, TailFacts, Zenon
<1>3. /\ Launched(w.c) \in Int /\ Launched(w.c) = w.c.next_request_seq - Len(q)
      /\ Head(q) = Launched(w.c) /\ Len(w.ran[w.c.client]) = Head(q)
  <2>1. /\ \A i \in DOMAIN q : q[i] = Launched(w.c) + i - 1
        /\ Len(w.ran[w.c.client]) = Launched(w.c)
    BY Zenon DEF BetweenCommands, QueueOf
  <2>2. Launched(w.c) \in Int /\ Launched(w.c) = w.c.next_request_seq - Len(q)
    BY <1>1, <1>2 DEF Launched
  <2>3. 1 \in DOMAIN q
    BY <1>2
  <2> HIDE DEF q
  <2>4. q[1] = Launched(w.c) + 1 - 1
    BY <2>1, <2>3, Zenon
  <2> QED
    BY <1>2, <2>1, <2>2, <2>4
<1>4. job \in Job /\ job.id = w.c.id /\ job.client = w.c.client /\ job.seq = Head(q)
  BY <1>1, <1>2, Zenon DEF Job
<1>5. /\ d \in Connection /\ d.interest = w.c.interest /\ d.closing = w.c.closing
      /\ d.output = w.c.output /\ d.id = w.c.id /\ d.client = w.c.client
      /\ d.inflight = w.c.inflight /\ d.next_request_seq = w.c.next_request_seq
      /\ d.command_queue = Tail(q) /\ d.strand_running = TRUE
      /\ d.next_response_seq = w.c.next_response_seq
      /\ d.pending_responses = w.c.pending_responses
  BY <1>1, <1>2, Zenon DEF Connection
<1> HIDE DEF q
<1>6. /\ Orderly(Append(w.jobs, job), running, w.completions, w.ran)
      /\ Orderly(w.jobs, running, Append(w.completions, job), rn)
      /\ JobsIn(Append(w.jobs, job), running, w.completions) = PoolOf(w) \cup {job}
      /\ JobsIn(w.jobs, running, Append(w.completions, job)) = PoolOf(w) \cup {job}
  <2>1. /\ Orderly(w.jobs, running, w.completions, w.ran)
        /\ \A a \in PoolOf(w) : a.client # job.client
        /\ Len(w.ran[job.client]) = job.seq
    BY <1>3, <1>4, Zenon DEF BetweenCommands
  <2> HIDE DEF job
  <2>2. /\ Orderly(Append(w.jobs, job), running, w.completions, w.ran)
        /\ Orderly(w.jobs, running, Append(w.completions, job), rn)
    BY <1>1, <1>4, <2>1, PoolLaunch, Zenon DEF PoolOf
  <2>3. /\ Range(Append(w.jobs, job)) = Range(w.jobs) \cup {job}
        /\ Range(Append(w.completions, job)) = Range(w.completions) \cup {job}
    BY <1>1, <1>4, JobAppend, Zenon
  <2> QED
    BY <2>2, <2>3, Zenon DEF PoolOf, JobsIn
<1>7. Append(w.jobs, job) \in Seq(Job) /\ Append(w.completions, job) \in Seq(Job)
  BY <1>1, <1>4, AppendFacts, Zenon
<1>8. rn \in [Clients -> Seq(Nat)] /\ rn[w.c.client] = Append(w.ran[w.c.client], Head(q))
      /\ Len(rn[w.c.client]) = Len(w.ran[w.c.client]) + 1
      /\ \A n \in Clients \ {w.c.client} : rn[n] = w.ran[n]
  <2>1. w.ran[w.c.client] \in Seq(Nat)
    BY <1>1, Zenon
  <2>2. /\ Append(w.ran[w.c.client], Head(q)) \in Seq(Nat)
        /\ Len(Append(w.ran[w.c.client], Head(q))) = Len(w.ran[w.c.client]) + 1
    BY <1>2, <2>1, SeqAppend, Zenon
  <2>3. rn = [w.ran EXCEPT ![w.c.client] = Append(w.ran[w.c.client], Head(q))]
    BY <1>4, Zenon
  <2> DEFINE x == Append(w.ran[w.c.client], Head(q))
             r == w.ran
             n == w.c.client
  <2> HIDE DEF x, r, n, rn
  <2>4. rn = [r EXCEPT ![n] = x] /\ r \in [Clients -> Seq(Nat)] /\ n \in Clients /\ x \in Seq(Nat)
    BY <1>1, <2>2, <2>3, Zenon DEF x, r, n
  <2>5. /\ rn \in [Clients -> Seq(Nat)] /\ rn[n] = x
        /\ \A m \in Clients \ {n} : rn[m] = r[m]
    BY <2>4, Zenon
  <2> QED
    BY <2>2, <2>5, Zenon DEF x, r, n
<1>9. QueueSaturated(w.jobs) => v = [w EXCEPT !.c = d, !.completions = Append(w.completions, job), !.ran = rn]
  BY Zenon DEF LaunchStrand, WorldType, q
<1>10. ~QueueSaturated(w.jobs) => v = [w EXCEPT !.c = d, !.jobs = Append(w.jobs, job)]
  BY Zenon DEF LaunchStrand, WorldType, q
<1> HIDE DEF job, d, v, rn
<1>11. v \in WorldType /\ v.s = w.s /\ v.e = w.e /\ v.c = d
  BY <1>5, <1>7, <1>8, <1>9, <1>10, Zenon DEF WorldType
<1>12. /\ QueueSaturated(w.jobs) => /\ v.completions = Append(w.completions, job) /\ v.ran = rn
                                    /\ v.jobs = w.jobs
       /\ ~QueueSaturated(w.jobs) => /\ v.completions = w.completions /\ v.ran = w.ran
                                     /\ v.jobs = Append(w.jobs, job)
  BY <1>5, <1>7, <1>8, <1>9, <1>10, Zenon DEF WorldType
<1>13. Orderly(v.jobs, running, v.completions, v.ran) /\ PoolOf(v) = PoolOf(w) \cup {job}
  BY <1>6, <1>12, Zenon DEF PoolOf
<1>14. /\ \A n \in Clients \ {w.c.client} : v.ran[n] = w.ran[n]
       /\ Len(v.ran[w.c.client]) >= Len(w.ran[w.c.client])
  <2>1. Len(w.ran[w.c.client]) \in Nat
    BY <1>1, SMTT(30)
  <2>2. CASE QueueSaturated(w.jobs)
    BY <1>8, <1>12, <2>1, <2>2
  <2>3. CASE ~QueueSaturated(w.jobs)
    BY <1>12, <2>1, <2>3
  <2> QED
    BY <2>2, <2>3, Zenon
<1>15. OthersKept(w, v)
  <2>1. \A a \in PoolOf(v) \ PoolOf(w) : a.id = w.c.id /\ a.client = w.c.client
    BY <1>4, <1>13, Zenon
  <2>2. PoolOf(v) \ {a \in PoolOf(v) : a.client = w.c.client}
          = PoolOf(w) \ {a \in PoolOf(w) : a.client = w.c.client}
    BY <1>4, <1>13, Zenon
  <2> QED
    BY <1>14, <2>1, <2>2, Zenon DEF OthersKept
<1>16. Len(w.jobs) <= config_.worker_queue_limit => Len(v.jobs) <= config_.worker_queue_limit
  <2>1. Len(w.jobs) \in Nat /\ config_.worker_queue_limit \in Nat
    BY <1>1, Constants, SMTT(30)
  <2>2. CASE ~QueueSaturated(w.jobs)
    <3>1. Len(Append(w.jobs, job)) = Len(w.jobs) + 1
      BY <1>1, <1>4, JobAppend, Zenon
    <3> QED
      BY <1>12, <2>1, <2>2, <3>1 DEF QueueSaturated
  <2> QED
    BY <1>12, <2>2, Zenon
<1>17. /\ Len(d.command_queue) <= d.next_request_seq /\ Launched(d) = Launched(w.c) + 1
       /\ \A i \in DOMAIN d.command_queue : d.command_queue[i] = Launched(d) + i - 1
       /\ d.inflight = Len(d.command_queue) + 1
  <2>1. /\ \A i \in 1 .. Len(q) : q[i] = Launched(w.c) + i - 1
        /\ Len(q) <= w.c.next_request_seq /\ w.c.inflight = Len(q)
    BY <1>2, Zenon DEF BetweenCommands, QueueOf, q
  <2>2. Launched(d) = Launched(w.c) + 1
    BY <1>1, <1>2, <1>3, <1>5 DEF Launched
  <2>3. \A i \in 1 .. Len(q) - 1 : Tail(q)[i] = Launched(d) + i - 1
    <3> SUFFICES ASSUME NEW i \in 1 .. Len(q) - 1 PROVE Tail(q)[i] = Launched(d) + i - 1
      BY Zenon
    <3>1. Tail(q)[i] = q[i + 1] /\ i + 1 \in 1 .. Len(q)
      BY <1>2
    <3>2. q[i + 1] = Launched(w.c) + (i + 1) - 1
      BY <2>1, <3>1, Zenon
    <3> QED
      BY <1>3, <2>2, <3>1, <3>2, SMTT(30)
  <2>4. /\ DOMAIN d.command_queue = 1 .. Len(q) - 1 /\ Len(d.command_queue) = Len(q) - 1
        /\ d.inflight = Len(q)
    BY <1>2, <1>5, <2>1, Zenon
  <2>5. Len(d.command_queue) <= d.next_request_seq /\ d.inflight = Len(d.command_queue) + 1
    BY <1>1, <1>2, <1>5, <2>1, <2>4
  <2>6. \A i \in DOMAIN d.command_queue : d.command_queue[i] = Launched(d) + i - 1
    BY <1>5, <2>3, <2>4, Zenon
  <2> QED
    BY <2>2, <2>5, <2>6, Zenon
<1>18. StrandOf(d, PoolOf(v), v.ran) /\ Applied(d) = Launched(w.c)
  <2>1. QueueOf(d)
    BY <1>17, Zenon DEF QueueOf
  <2>2. job \in PoolOf(v) /\ job.client = d.client /\ job.seq = Launched(d) - 1
    BY <1>3, <1>4, <1>5, <1>13, <1>17
  <2>3. Applied(d) = Launched(w.c)
    BY <1>3, <1>5, <1>17 DEF Applied
  <2> QED
    BY <1>5, <1>17, <2>1, <2>2, <2>3, Zenon DEF StrandOf
<1> QED
  BY <1>5, <1>11, <1>13, <1>15, <1>16, <1>18, Zenon DEF v, Settled, SameReplies

\* A command joins the queue of its connection, and is launched if it is alone.
LEMMA EnqueueFacts ==
  ASSUME TypeInv, NEW w \in WorldType, Settled(w)
  PROVE  LET v == EnqueueCommand(w)
         IN  /\ v \in WorldType /\ v.s = w.s /\ v.e = w.e
             /\ SameReplies(w.c, v.c) /\ v.c.interest = w.c.interest /\ v.c.closing = w.c.closing
             /\ v.c.output = w.c.output /\ v.c.id = w.c.id /\ v.c.client = w.c.client
             /\ Settled(v) /\ Applied(v.c) = Applied(w.c) /\ OthersKept(w, v)
             /\ Len(w.jobs) <= config_.worker_queue_limit => Len(v.jobs) <= config_.worker_queue_limit
<1> DEFINE q == w.c.command_queue
           k == w.c.next_request_seq
           d == [w.c EXCEPT !.next_request_seq = k + 1, !.inflight = w.c.inflight + 1,
                            !.command_queue = Append(q, k)]
           u == [w EXCEPT !.c = d]
           v == EnqueueCommand(w)
<1>1. /\ q \in Seq(Nat) /\ k \in Nat /\ w.c.inflight \in Nat /\ w.c \in Connection
      /\ w.c.client \in Clients /\ w.c.strand_running \in BOOLEAN
      /\ w.ran \in [Clients -> Seq(Nat)]
  BY WorldFields, ConnectionFields, Zenon
<1>2. /\ Append(q, k) \in Seq(Nat) /\ Len(Append(q, k)) = Len(q) + 1
      /\ \A i \in 1 .. Len(q) : Append(q, k)[i] = q[i]
      /\ Append(q, k)[Len(q) + 1] = k
      /\ DOMAIN Append(q, k) = 1 .. Len(q) + 1 /\ DOMAIN q = 1 .. Len(q) /\ Len(q) \in Nat
      /\ k + 1 \in Nat /\ w.c.inflight + 1 \in Nat
  <2>1. q \in Seq(Nat) /\ k \in Nat /\ k + 1 \in Nat /\ w.c.inflight + 1 \in Nat
    BY <1>1
  <2> HIDE DEF q, k
  <2>2. /\ Append(q, k) \in Seq(Nat) /\ Len(Append(q, k)) = Len(q) + 1
        /\ DOMAIN Append(q, k) = 1 .. Len(q) + 1 /\ DOMAIN q = 1 .. Len(q) /\ Len(q) \in Nat
    BY <2>1
  <2>3. /\ \A i \in 1 .. Len(q) : Append(q, k)[i] = q[i]
        /\ Append(q, k)[Len(q) + 1] = k
    BY <2>1
  <2> QED
    BY <2>1, <2>2, <2>3, Zenon
<1>3. v = IF w.c.strand_running THEN u ELSE LaunchStrand(u)
  BY Zenon DEF EnqueueCommand, WorldType
<1>4. /\ d \in Connection /\ d.interest = w.c.interest /\ d.closing = w.c.closing
      /\ d.output = w.c.output /\ d.id = w.c.id /\ d.client = w.c.client
      /\ d.inflight = w.c.inflight + 1 /\ d.next_request_seq = k + 1
      /\ d.command_queue = Append(q, k) /\ d.strand_running = w.c.strand_running
      /\ d.next_response_seq = w.c.next_response_seq
      /\ d.pending_responses = w.c.pending_responses
  BY <1>1, <1>2, Zenon DEF Connection
<1> HIDE DEF q, k, d, v
<1>5. u \in WorldType /\ SamePool(w, u) /\ u.c = d /\ u.s = w.s /\ u.e = w.e
  BY <1>4, Zenon DEF WorldType, SamePool
<1> HIDE DEF u
<1>6. PoolOf(u) = PoolOf(w) /\ u.ran = w.ran /\ u.jobs = w.jobs /\ u.completions = w.completions
  BY <1>5, Zenon DEF SamePool, PoolOf
<1>7. Orderly(u.jobs, running, u.completions, u.ran)
  BY <1>6, Zenon DEF Settled
<1>8. /\ Len(q) <= k /\ Launched(w.c) = k - Len(q)
      /\ \A i \in 1 .. Len(q) : q[i] = Launched(w.c) + i - 1
  BY <1>2, Zenon DEF Settled, StrandOf, QueueOf, Launched, q, k
<1>9. Launched(d) = Launched(w.c) /\ Launched(w.c) \in Int
  <2>1. Launched(d) = (k + 1) - (Len(q) + 1)
    BY <1>2, <1>4, Zenon DEF Launched
  <2> QED
    BY <1>1, <1>2, <1>8, <2>1
<1>10. QueueOf(d)
  <2>1. Len(d.command_queue) <= d.next_request_seq
    BY <1>1, <1>2, <1>4, <1>8
  <2>2. ASSUME NEW i \in 1 .. Len(q) + 1 PROVE Append(q, k)[i] = Launched(w.c) + i - 1
    <3>1. CASE i = Len(q) + 1
      BY <1>1, <1>2, <1>8, <3>1
    <3>2. CASE i # Len(q) + 1
      <4>1. i \in 1 .. Len(q)
        BY <1>2, <3>2
      <4> QED
        BY <1>2, <1>8, <4>1, Zenon
    <3> QED
      BY <3>1, <3>2, Zenon
  <2>3. \A i \in DOMAIN d.command_queue : d.command_queue[i] = Launched(d) + i - 1
    BY <1>2, <1>4, <1>9, <2>2, Zenon
  <2> QED
    BY <2>1, <2>3, Zenon DEF QueueOf
<1>11. CASE w.c.strand_running
  <2>1. /\ w.c.inflight = Len(q) + 1
        /\ \E job \in PoolOf(w) : job.client = w.c.client /\ job.seq = Launched(w.c) - 1
    BY <1>11, Zenon DEF Settled, StrandOf, q
  <2>2. d.inflight = Len(d.command_queue) + 1
    BY <1>2, <1>4, <2>1, Zenon
  <2>3. \E job \in PoolOf(w) : job.client = d.client /\ job.seq = Launched(d) - 1
    BY <1>4, <1>9, <2>1, Zenon
  <2>4. StrandOf(d, PoolOf(u), u.ran)
    BY <1>4, <1>6, <1>10, <1>11, <2>2, <2>3, Zenon DEF StrandOf
  <2>5. Settled(u) /\ v = u
    BY <1>3, <1>5, <1>7, <1>11, <2>4, Zenon DEF Settled
  <2>6. Applied(d) = Applied(w.c)
    BY <1>4, <1>9, <1>11, Zenon DEF Applied
  <2>7. w.ran[w.c.client] \in Seq(Nat)
    BY <1>1, Zenon
  <2>8. Len(w.ran[w.c.client]) >= Len(w.ran[w.c.client])
    BY <2>7
  <2>9. OthersKept(w, u)
    BY <1>6, <2>8, Zenon DEF OthersKept
  <2> QED
    BY <1>4, <1>5, <1>6, <2>5, <2>6, <2>9, Zenon DEF v, SameReplies
<1>12. CASE ~w.c.strand_running
  <2>1. /\ w.c.inflight = 0 /\ q = <<>> /\ Len(w.ran[w.c.client]) = k
        /\ \A job \in PoolOf(w) : job.client # w.c.client
    BY <1>12, Zenon DEF Settled, StrandOf, q, k
  <2>2. d.inflight = Len(d.command_queue) /\ Launched(d) = k /\ d.command_queue # <<>>
    BY <1>1, <1>2, <1>4, <1>8, <1>9, <2>1
  <2>3. BetweenCommands(u) /\ u.c.command_queue # <<>>
    BY <1>4, <1>5, <1>6, <1>7, <1>10, <2>1, <2>2, Zenon DEF BetweenCommands
  <2> DEFINE x == LaunchStrand(u)
  <2>4. /\ x \in WorldType /\ x.s = u.s /\ x.e = u.e
        /\ SameReplies(u.c, x.c) /\ x.c.interest = u.c.interest /\ x.c.closing = u.c.closing
        /\ x.c.output = u.c.output /\ x.c.id = u.c.id /\ x.c.client = u.c.client
        /\ Settled(x) /\ Applied(x.c) = Launched(u.c) /\ OthersKept(u, x)
        /\ Len(u.jobs) <= config_.worker_queue_limit => Len(x.jobs) <= config_.worker_queue_limit
    BY <1>5, <2>3, LaunchOne, Zenon
  <2> HIDE DEF x
  <2>5. v = x
    BY <1>3, <1>12, Zenon DEF x
  <2>6. Launched(d) = Applied(w.c)
    BY <1>9, <1>12, Zenon DEF Applied
  <2>7. OthersKept(w, x)
    BY <1>4, <1>5, <1>6, <2>4, Zenon DEF OthersKept
  <2> QED
    BY <1>4, <1>5, <1>6, <2>4, <2>5, <2>6, <2>7, Zenon DEF v, SameReplies
<1> QED
  BY <1>1, <1>11, <1>12, Zenon DEF v

\* The cardinalities that Flush meets.
LEMMA SmallSets ==
  /\ Cardinality({}) = 0
  /\ \A x : Cardinality({x}) = 1
<1>1. Cardinality({}) = 0
  <2> DEFINE P(CS) == CS = [T \in SUBSET {} |-> IF T = {} THEN 0 ELSE 1 + CS[T \ {CHOOSE x : x \in T}]]
  <2>1. P([T \in SUBSET {} |-> 0])
    BY Zenon
  <2>2. \A CS : P(CS) => CS[{}] = 0
    BY Zenon
  <2>3. Cardinality({}) = (CHOOSE CS : P(CS))[{}]
    BY Zenon DEF Cardinality
  <2> QED
    BY <2>1, <2>2, <2>3, Zenon
<1>2. ASSUME NEW x PROVE Cardinality({x}) = 1
  <2> DEFINE P(CS) == CS = [T \in SUBSET {x} |-> IF T = {} THEN 0 ELSE 1 + CS[T \ {CHOOSE y : y \in T}]]
             f == [T \in SUBSET {x} |-> IF T = {} THEN 0 ELSE 1 + 0]
  <2>0. \A T \in SUBSET {x} : T = {} \/ T = {x}
    BY Zenon
  <2>a. (CHOOSE y : y \in {x}) = x
    BY Zenon
  <2>b. {x} \ {x} = {} /\ {x} # {} /\ {} \in SUBSET {x} /\ {x} \in SUBSET {x}
    BY Zenon
  <2>1. P(f)
    <3>1. f[{}] = 0
      BY <2>b, Zenon
    <3>2. ASSUME NEW T \in SUBSET {x}, T # {} PROVE f[T \ {CHOOSE y : y \in T}] = 0
      <4>0. T = {x}
        BY <2>0, <3>2, Zenon
      <4>1. T \ {CHOOSE y : y \in T} = {}
        BY <2>a, <2>b, <4>0, Zenon
      <4> HIDE DEF f
      <4> QED
        BY <3>1, <4>1, Zenon
    <3>3. \A T \in SUBSET {x} : f[T] = IF T = {} THEN 0 ELSE 1 + f[T \ {CHOOSE y : y \in T}]
      <4>1. \A T \in SUBSET {x} : f[T] = IF T = {} THEN 0 ELSE 1 + 0
        BY Zenon
      <4> HIDE DEF f
      <4> QED
        BY <3>2, <4>1, Zenon
    <3>4. f = [T \in SUBSET {x} |-> f[T]]
      BY Zenon
    <3> HIDE DEF f
    <3> QED
      BY <3>3, <3>4, Zenon
  <2>2. ASSUME NEW CS, P(CS) PROVE CS[{x}] = 1
    <3>1. CS[{}] = 0
      BY <2>2, <2>b, Zenon
    <3>2. CS[{x}] = 1 + CS[{x} \ {CHOOSE y : y \in {x}}]
      BY <2>2, <2>b, Zenon
    <3>3. CS[{x}] = 1 + CS[{}]
      BY <3>2, <2>a, <2>b, Zenon
    <3>4. CS[{x}] = 1 + 0
      BY <3>1, <3>3, Zenon
    <3> QED
      BY <3>4
  <2>3. Cardinality({x}) = (CHOOSE CS : P(CS))[{x}]
    BY Zenon DEF Cardinality
  <2> HIDE DEF P
  <2> QED
    BY <2>1, <2>2, <2>3, Zenon
<1> QED
  BY <1>1, <1>2, Zenon

\* Replies that join the output: none, or one.
LEMMA AppendNone ==
  ASSUME NEW c \in Connection
  PROVE  LET d == AppendReplies(c, {})
         IN  /\ d \in Connection /\ SameStrand(c, d) /\ SameReplies(c, d)
             /\ d.interest = c.interest /\ d.closing = c.closing /\ d.output = c.output
<1> DEFINE out == c.output \o [i \in 1 .. 0 |-> Reply(c.client, c.next_response_seq + i - 1)]
<1>1. out = c.output /\ c.next_response_seq + 0 = c.next_response_seq
      /\ c.pending_responses \ {} = c.pending_responses
  <2>1. c.output \in Seq(ReplyType) /\ c.next_response_seq \in Nat
    BY ConnectionFields, Zenon
  <2>2. [i \in 1 .. 0 |-> Reply(c.client, c.next_response_seq + i - 1)] = <<>>
    OBVIOUS
  <2>3. c.output \o <<>> = c.output
    BY <2>1
  <2>4. c.next_response_seq + 0 = c.next_response_seq
    BY <2>1
  <2> QED
    BY <2>2, <2>3, <2>4, Zenon
<1>2. AppendReplies(c, {}) = [c EXCEPT !.output = out, !.pending_responses = c.pending_responses \ {},
                                       !.next_response_seq = c.next_response_seq + 0]
  BY SmallSets, Zenon DEF AppendReplies, Connection
<1> HIDE DEF out
<1>3. AppendReplies(c, {}) = [c EXCEPT !.output = c.output, !.pending_responses = c.pending_responses,
                                       !.next_response_seq = c.next_response_seq]
  BY <1>1, <1>2, Zenon
<1> QED
  BY <1>3, Zenon DEF Connection, SameStrand, SameReplies

\* One reply that is next in sequence goes to the output.
LEMMA AppendOne ==
  ASSUME NEW c \in Connection, NEW a \in Nat
  PROVE  LET d == AppendReplies(c, {a})
         IN  /\ d \in Connection /\ SameStrand(c, d)
             /\ d.interest = c.interest /\ d.closing = c.closing
             /\ d.output = Append(c.output, Reply(c.client, c.next_response_seq))
             /\ d.next_response_seq = c.next_response_seq + 1
             /\ d.pending_responses = c.pending_responses \ {a}
<1> DEFINE r == Reply(c.client, c.next_response_seq)
           out == Append(c.output, r)
           p == c.pending_responses \ {a}
           k == c.next_response_seq + 1
           one == [i \in 1 .. 1 |-> Reply(c.client, c.next_response_seq + i - 1)]
<1>1. /\ c.output \in Seq(ReplyType) /\ c.next_response_seq \in Nat /\ c.client \in Clients
      /\ c.pending_responses \subseteq Nat
  BY ConnectionFields, Zenon
<1>2. r \in ReplyType /\ p \subseteq Nat /\ k \in Nat
  BY <1>1 DEF Reply, ReplyType
<1>3. one = <<r>>
  <2>1. \A i \in 1 .. 1 : i = 1
    OBVIOUS
  <2>2. c.next_response_seq + 1 - 1 = c.next_response_seq
    BY <1>1
  <2>3. one \in Seq({r}) /\ Len(one) = 1 /\ one[1] = r
    BY <1>1, <2>1, <2>2
  <2> HIDE DEF one, r
  <2> QED
    BY <2>3
<1>4. out \in Seq(ReplyType) /\ c.output \o <<r>> = out
  <2> HIDE DEF r
  <2> QED
    BY <1>1, <1>2
<1>5. AppendReplies(c, {a}) = [c EXCEPT !.output = c.output \o one, !.pending_responses = p,
                                        !.next_response_seq = k]
  BY SmallSets, Zenon DEF AppendReplies, Connection
<1> HIDE DEF r, out, p, k, one
<1>6. AppendReplies(c, {a}) = [c EXCEPT !.output = out, !.pending_responses = p, !.next_response_seq = k]
  BY <1>3, <1>4, <1>5, Zenon
<1> DEFINE d == [c EXCEPT !.output = out, !.pending_responses = p, !.next_response_seq = k]
<1>7. /\ d \in Connection /\ SameStrand(c, d) /\ d.interest = c.interest /\ d.closing = c.closing
      /\ d.output = out /\ d.pending_responses = p /\ d.next_response_seq = k
  BY <1>2, <1>4, Zenon DEF Connection, SameStrand
<1> HIDE DEF d
<1> QED
  BY <1>6, <1>7, Zenon DEF d, out, r, k, p

\* The loop over the responses, when the one that has just come is a and only
\* responses after the next one are waiting.
LEMMA FlushFacts ==
  ASSUME TypeInv, NEW c \in Connection, NEW a \in Nat, c.next_response_seq <= a,
         a \in c.pending_responses,
         c.pending_responses \subseteq (c.next_response_seq + 1 .. a - 1) \cup {a}
  PROVE  LET d == Flush(c)
         IN  /\ d \in Connection /\ SameStrand(c, d) /\ d.interest = c.interest
             /\ c.closing => d.closing
             /\ d.next_response_seq <= a + 1
             /\ d.pending_responses \subseteq d.next_response_seq + 1 .. a
             /\ \/ d.output = c.output /\ d.next_response_seq = c.next_response_seq
                \/ /\ d.output = Append(c.output, Reply(c.client, c.next_response_seq))
                   /\ d.next_response_seq = c.next_response_seq + 1
                   /\ Len(c.output) < config_.max_output_buffer
<1> DEFINE next == c.next_response_seq
           d == Flush(c)
<1>1. /\ c.output \in Seq(ReplyType) /\ next \in Nat /\ c.client \in Clients
      /\ c.pending_responses \subseteq Nat /\ config_.max_output_buffer \in Nat
      /\ Len(c.output) \in Nat
  BY ConnectionFields, Constants
<1>2. CASE next < a
  <2>1. next \notin c.pending_responses
    BY <1>1, <1>2
  <2>2. \A s \in c.pending_responses : next \in next .. s
    BY <1>1, <1>2
  <2>3. InSequence(c) = {}
    BY <2>1, <2>2, Zenon DEF InSequence
  <2>4. Fitting(c) = {}
    BY <2>3, Zenon DEF Fitting
  <2>5. d = AppendReplies(c, {})
    BY <2>3, <2>4, Zenon DEF Flush
  <2> HIDE DEF d
  <2>6. /\ d \in Connection /\ SameStrand(c, d) /\ SameReplies(c, d)
        /\ d.interest = c.interest /\ d.closing = c.closing /\ d.output = c.output
    BY <2>5, AppendNone, Zenon
  <2>7. d.next_response_seq = next /\ d.pending_responses = c.pending_responses
    BY <2>6, Zenon DEF SameReplies
  <2>8. next <= a + 1 /\ c.pending_responses \subseteq next + 1 .. a
    BY <1>1, <1>2
  <2> QED
    BY <2>6, <2>7, <2>8, Zenon DEF d
<1>3. CASE next = a
  <2>1. c.pending_responses = {a}
    BY <1>1, <1>3
  <2>2. a .. a = {a}
    OBVIOUS
  <2>3. InSequence(c) = {a}
    BY <1>3, <2>1, <2>2, Zenon DEF InSequence
  <2>4. Len(c.output) + (a - next) = Len(c.output)
    BY <1>1, <1>3
  <2>5. Fitting(c) = {s \in {a} : Len(c.output) + (s - next) < config_.max_output_buffer}
    BY <2>3, Zenon DEF Fitting
  <2>6. CASE Len(c.output) < config_.max_output_buffer
    <3>1. Fitting(c) = {a}
      BY <2>4, <2>5, <2>6, Zenon
    <3>2. d = AppendReplies(c, {a})
      BY <2>3, <3>1, Zenon DEF Flush
    <3> HIDE DEF d
    <3>3. /\ d \in Connection /\ SameStrand(c, d)
          /\ d.interest = c.interest /\ d.closing = c.closing
          /\ d.output = Append(c.output, Reply(c.client, next))
          /\ d.next_response_seq = next + 1 /\ d.pending_responses = c.pending_responses \ {a}
      BY <3>2, AppendOne, Zenon
    <3>4. d.pending_responses = {} /\ next + 1 <= a + 1
      BY <1>1, <1>3, <2>1, <3>3
    <3> QED
      BY <2>6, <3>3, <3>4, Zenon DEF d
  <2>7. CASE ~(Len(c.output) < config_.max_output_buffer)
    <3>1. Fitting(c) = {}
      BY <2>4, <2>5, <2>7, Zenon
    <3> DEFINE x == AppendReplies(c, {})
    <3>2. d = [x EXCEPT !.closing = TRUE, !.read_closed = TRUE, !.pending_responses = {}]
      <4>1. Fitting(c) # InSequence(c)
        BY <2>3, <3>1, Zenon
      <4> QED
        BY <3>1, <4>1, Zenon DEF Flush
    <3>3. /\ x \in Connection /\ SameStrand(c, x) /\ SameReplies(c, x)
          /\ x.interest = c.interest /\ x.output = c.output
      BY AppendNone, Zenon
    <3> HIDE DEF d, x
    <3>4. /\ d \in Connection /\ SameStrand(x, d) /\ d.interest = x.interest /\ d.closing
          /\ d.output = x.output /\ d.pending_responses = {}
          /\ d.next_response_seq = x.next_response_seq
      BY <3>2, <3>3, Zenon DEF Connection, SameStrand
    <3>5. SameStrand(c, d) /\ d.next_response_seq = next
      BY <3>3, <3>4, Zenon DEF SameStrand, SameReplies
    <3>6. next <= a + 1
      BY <1>1, <1>3
    <3> QED
      BY <3>3, <3>4, <3>5, <3>6, Zenon DEF d
  <2> QED
    BY <2>6, <2>7, Zenon
<1> QED
  BY <1>1, <1>2, <1>3

\* The completion of the job at the head of the queue: it is the one job of
\* the connection, and the strand is between two commands afterwards.
LEMMA CompletedFacts ==
  ASSUME TypeInv, NEW w \in WorldType, Settled(w), ReplyOf(w.c),
         w.completions # <<>>, Head(w.completions).client = w.c.client
  PROVE  LET done == Head(w.completions)
             v == Completed(w, done.seq)
         IN  /\ v \in WorldType /\ v.s = w.s /\ v.e = w.e
             /\ v.jobs = w.jobs /\ v.ran = w.ran /\ PoolOf(v) = PoolOf(w) \ {done}
             /\ v.c.id = w.c.id /\ v.c.client = w.c.client /\ v.c.interest = w.c.interest
             /\ w.c.closing => v.c.closing
             /\ BetweenCommands(v)
             /\ v.c.next_response_seq <= Launched(v.c)
             /\ v.c.pending_responses \subseteq v.c.next_response_seq + 1 .. Launched(v.c) - 1
             /\ \/ v.c.output = w.c.output /\ v.c.next_response_seq = w.c.next_response_seq
                \/ /\ v.c.output = Append(w.c.output, Reply(w.c.client, w.c.next_response_seq))
                   /\ v.c.next_response_seq = w.c.next_response_seq + 1
                   /\ Len(w.c.output) < config_.max_output_buffer
<1> DEFINE done == Head(w.completions)
           a == done.seq
           q == w.c.command_queue
           p == w.c.pending_responses \cup {a}
           c1 == [w.c EXCEPT !.pending_responses = p, !.inflight = Len(q)]
           d == Flush(c1)
           v == [w EXCEPT !.completions = Tail(w.completions), !.c = d]
<1>1. /\ w.jobs \in Seq(Job) /\ w.completions \in Seq(Job) /\ w.ran \in [Clients -> Seq(Nat)]
      /\ running \in SUBSET Job /\ w.c \in Connection /\ w.c.client \in Clients
      /\ q \in Seq(Nat) /\ w.c.next_request_seq \in Nat /\ w.c.next_response_seq \in Nat
      /\ w.c.pending_responses \subseteq Nat /\ w.c.inflight \in Nat /\ w.c.strand_running \in BOOLEAN
  BY WorldFields, ConnectionFields, Zenon DEF TypeInv, CoreType
<1>2. /\ Tail(w.completions) \in Seq(Job) /\ done \in Job /\ done \in Range(w.completions)
      /\ Len(q) \in Nat
  BY <1>1, TailFacts
<1>3. a \in Nat /\ done.client = w.c.client
  BY <1>2, Zenon DEF Job
<1>4. /\ Orderly(w.jobs, running, Tail(w.completions), w.ran)
      /\ JobsIn(w.jobs, running, Tail(w.completions)) = PoolOf(w) \ {done}
      /\ \A b \in PoolOf(w) : b.client = done.client => b = done
  BY <1>1, PoolDone, Zenon DEF Settled, PoolOf
<1>5. Len(w.ran[w.c.client]) = a + 1
  BY <1>2, Zenon DEF Settled, Orderly
<1>6. done \in PoolOf(w)
  BY <1>2, Zenon DEF PoolOf, JobsIn
<1> HIDE DEF done, q
<1>7. w.c.strand_running
  BY <1>3, <1>6, Zenon DEF Settled, StrandOf
<1>8. /\ QueueOf(w.c) /\ w.c.inflight = Len(q) + 1
      /\ \E job \in PoolOf(w) : job.client = w.c.client /\ job.seq = Launched(w.c) - 1
  BY <1>7, Zenon DEF Settled, StrandOf, q
<1>9. a = Launched(w.c) - 1 /\ Launched(w.c) \in Int /\ Launched(w.c) = a + 1
  <2>1. a = Launched(w.c) - 1
    BY <1>3, <1>4, <1>8, Zenon
  <2>2. Launched(w.c) \in Int
    BY <1>1, <1>2 DEF Launched, q
  <2> QED
    BY <1>3, <2>1, <2>2
<1>10. w.c.next_response_seq <= a /\ w.c.pending_responses \subseteq w.c.next_response_seq + 1 .. a - 1
  BY <1>7, <1>9, Zenon DEF ReplyOf, Applied
<1>11. (IF w.c.inflight > 0 THEN w.c.inflight - 1 ELSE w.c.inflight) = Len(q)
  BY <1>2, <1>8
<1>12. Completed(w, a) = [w EXCEPT !.completions = Tail(w.completions),
          !.c = Flush([w.c EXCEPT !.pending_responses = p,
                          !.inflight = IF w.c.inflight > 0 THEN w.c.inflight - 1 ELSE w.c.inflight])]
  BY <1>1, Zenon DEF Completed, WorldType, Connection
<1>13. Completed(w, a) = v
  BY <1>11, <1>12, Zenon
<1>14. p \subseteq Nat /\ a \in p
  BY <1>1, <1>3, Zenon
<1>15. p \subseteq (w.c.next_response_seq + 1 .. a - 1) \cup {a}
  BY <1>10, Zenon
<1> HIDE DEF p
<1>16. /\ c1 \in Connection /\ c1.inflight = Len(q) /\ c1.pending_responses = p
       /\ c1.id = w.c.id /\ c1.client = w.c.client /\ c1.command_queue = q
       /\ c1.strand_running = w.c.strand_running /\ c1.next_request_seq = w.c.next_request_seq
       /\ c1.next_response_seq = w.c.next_response_seq /\ c1.output = w.c.output
       /\ c1.interest = w.c.interest /\ c1.closing = w.c.closing
  BY <1>1, <1>2, <1>14, Zenon DEF Connection, q
<1> HIDE DEF c1
<1>17. /\ c1.next_response_seq <= a /\ a \in c1.pending_responses
       /\ c1.pending_responses \subseteq (c1.next_response_seq + 1 .. a - 1) \cup {a}
  BY <1>10, <1>14, <1>15, <1>16, Zenon
<1>18. /\ d \in Connection /\ SameStrand(c1, d) /\ d.interest = c1.interest
       /\ c1.closing => d.closing
       /\ d.next_response_seq <= a + 1
       /\ d.pending_responses \subseteq d.next_response_seq + 1 .. a
       /\ \/ d.output = c1.output /\ d.next_response_seq = c1.next_response_seq
          \/ /\ d.output = Append(c1.output, Reply(c1.client, c1.next_response_seq))
             /\ d.next_response_seq = c1.next_response_seq + 1
             /\ Len(c1.output) < config_.max_output_buffer
  BY <1>3, <1>16, <1>17, FlushFacts, Zenon
<1> HIDE DEF d
<1>19. /\ v \in WorldType /\ v.c = d /\ v.s = w.s /\ v.e = w.e /\ v.jobs = w.jobs /\ v.ran = w.ran
       /\ v.completions = Tail(w.completions)
  BY <1>2, <1>18, Zenon DEF WorldType
<1> HIDE DEF v
<1>20. /\ d.id = w.c.id /\ d.client = w.c.client /\ d.command_queue = q
       /\ d.inflight = Len(q) /\ d.next_request_seq = w.c.next_request_seq
  BY <1>16, <1>18, Zenon DEF SameStrand
<1>21. PoolOf(v) = PoolOf(w) \ {done}
  BY <1>4, <1>19, Zenon DEF PoolOf
<1>22. Launched(d) = Launched(w.c) /\ QueueOf(d)
  BY <1>8, <1>20, Zenon DEF Launched, QueueOf, q
<1>23. BetweenCommands(v)
  <2>1. Orderly(v.jobs, running, v.completions, v.ran)
    BY <1>4, <1>19, Zenon
  <2>2. Len(v.ran[v.c.client]) = Launched(v.c)
    BY <1>5, <1>9, <1>19, <1>20, <1>22, Zenon
  <2>3. \A b \in PoolOf(v) : b.client # v.c.client
    BY <1>3, <1>4, <1>19, <1>20, <1>21, Zenon
  <2> QED
    BY <1>19, <1>20, <1>22, <2>1, <2>2, <2>3, Zenon DEF BetweenCommands
<1>24. d.next_response_seq <= Launched(d) /\ a = Launched(d) - 1
  BY <1>9, <1>18, <1>22, Zenon
<1> QED
  BY <1>13, <1>16, <1>18, <1>19, <1>20, <1>21, <1>23, <1>24, Zenon DEF done, a

-----------------------------------------------------------------------------
(* What every handler does to a connection and what is around it.          *)

\* What joined the replies to the client: nothing, an error reply, or the
\* reply to the next command.
Replied(w, v) ==
  LET before == w.s.sent \o w.c.output
      after == v.s.sent \o v.c.output
      k == w.c.next_response_seq
  IN  \/ after = before /\ v.c.next_response_seq = k
      \/ after = Append(before, ErrorReply(w.c.client)) /\ v.c.next_response_seq = k
      \/ after = Append(before, Reply(w.c.client, k)) /\ v.c.next_response_seq = k + 1

\* What every handler leaves behind.
Handled(w, v) ==
  /\ v \in WorldType /\ v.c.id = w.c.id /\ v.c.client = w.c.client /\ v.s.state = w.s.state
  /\ Len(v.jobs) <= config_.worker_queue_limit
  /\ Settled(v) /\ OthersKept(w, v) /\ ReplyOf(v.c) /\ Replied(w, v)

\* A handler that leaves the strand alone.
LEMMA SameStrandKept ==
  ASSUME TypeInv, NEW w \in WorldType, NEW v \in WorldType, Settled(w),
         SameStrand(w.c, v.c), SamePool(w, v)
  PROVE  /\ Settled(v) /\ OthersKept(w, v) /\ Applied(v.c) = Applied(w.c)
         /\ Launched(v.c) = Launched(w.c) /\ PoolOf(v) = PoolOf(w)
<1>1. PoolOf(v) = PoolOf(w) /\ v.ran = w.ran
  BY Zenon DEF SamePool, PoolOf
<1>2. Launched(v.c) = Launched(w.c) /\ Applied(v.c) = Applied(w.c)
  BY Zenon DEF SameStrand, Launched, Applied
<1>3. StrandOf(v.c, PoolOf(v), v.ran)
  BY <1>1, <1>2, Zenon DEF Settled, StrandOf, QueueOf, SameStrand
<1>4. Settled(v)
  BY <1>3, Zenon DEF Settled, SamePool
<1>5. w.ran \in [Clients -> Seq(Nat)] /\ w.c.client \in Clients
  BY WorldFields, ConnectionFields, Zenon
<1>6. w.ran[w.c.client] \in Seq(Nat)
  BY <1>5, Zenon
<1>7. Len(w.ran[w.c.client]) >= Len(w.ran[w.c.client])
  BY <1>6
<1>8. OthersKept(w, v)
  BY <1>1, <1>7, Zenon DEF OthersKept
<1> QED
  BY <1>1, <1>2, <1>4, <1>8, Zenon

\* What a handler finds.
Found(w) ==
  /\ w \in WorldType /\ Settled(w) /\ ReplyOf(w.c) /\ Len(w.jobs) <= config_.worker_queue_limit

\* A handler that does nothing.
LEMMA HandledSelf ==
  ASSUME TypeInv, NEW w, Found(w)
  PROVE  Handled(w, w)
<1>1. OthersKept(w, w)
  BY SameStrandKept, Zenon DEF Found, SameStrand, SamePool
<1> QED
  BY <1>1, Zenon DEF Found, Handled, Replied

\* Followed by something that leaves the strand and the numbers alone.
LEMMA HandledThen ==
  ASSUME TypeInv, NEW w, NEW v, NEW u \in WorldType, w \in WorldType, Handled(w, v),
         SameStrand(v.c, u.c), SameReplies(v.c, u.c), SamePool(v, u), u.s.state = v.s.state,
         u.s.sent \o u.c.output = v.s.sent \o v.c.output,
         Len(u.c.output) <= Len(v.c.output), v.c.closing => u.c.closing
  PROVE  Handled(w, u)
<1>1. v \in WorldType /\ Settled(v)
  BY Zenon DEF Handled
<1>2. Settled(u) /\ Applied(u.c) = Applied(v.c) /\ PoolOf(u) = PoolOf(v)
  BY <1>1, SameStrandKept, Zenon
<1>3. u.ran = v.ran /\ u.jobs = v.jobs /\ u.c.id = v.c.id /\ u.c.client = v.c.client
      /\ u.c.next_response_seq = v.c.next_response_seq
      /\ u.c.pending_responses = v.c.pending_responses
  BY Zenon DEF SamePool, SameStrand, SameReplies
<1>4. OthersKept(w, u)
  BY <1>2, <1>3, Zenon DEF Handled, OthersKept
<1>5. /\ u.c.output \in Seq(ReplyType) /\ v.c.output \in Seq(ReplyType)
      /\ config_.max_output_buffer \in Nat
  BY <1>1, WorldFields, ConnectionFields, Constants, Zenon
<1>6. /\ Len(v.c.output) <= config_.max_output_buffer + 1
      /\ ~v.c.closing => Len(v.c.output) <= config_.max_output_buffer
  BY Zenon DEF Handled, ReplyOf
<1>7. /\ Len(u.c.output) <= config_.max_output_buffer + 1
      /\ ~u.c.closing => Len(u.c.output) <= config_.max_output_buffer
  BY <1>5, <1>6, SMTT(30)
<1>8. ReplyOf(u.c)
  BY <1>2, <1>3, <1>7, Zenon DEF Handled, ReplyOf
<1>9. Replied(w, u)
  BY <1>3, Zenon DEF Handled, Replied
<1> QED
  BY <1>2, <1>3, <1>4, <1>8, <1>9, Zenon DEF Handled

\* Bytes move from the socket to the parser.
LEMMA HandledReceive ==
  ASSUME TypeInv, NEW w, Found(w), NEW n \in 1 .. Len(w.s.in)
  PROVE  Handled(w, [w EXCEPT !.s.in = SubSeq(@, n + 1, Len(@)),
                              !.c.parser = @ \o SubSeq(w.s.in, 1, n)])
<1> DEFINE v == [w EXCEPT !.s.in = SubSeq(@, n + 1, Len(@)),
                          !.c.parser = @ \o SubSeq(w.s.in, 1, n)]
<1>1. w \in WorldType /\ Handled(w, w)
  BY HandledSelf, Zenon DEF Found
<1>2. /\ v \in WorldType /\ SameStrand(w.c, v.c) /\ SameReplies(w.c, v.c)
      /\ SamePool(w, v) /\ v.e = w.e /\ v.c.interest = w.c.interest
      /\ v.c.output = w.c.output /\ v.c.closing = w.c.closing
      /\ v.s.state = w.s.state /\ v.s.sent = w.s.sent
  BY <1>1, ReceiveFacts, Zenon
<1> HIDE DEF v
<1>3. w.c.output \in Seq(ReplyType)
  BY <1>1, WorldFields, ConnectionFields, Zenon
<1>4. Len(v.c.output) <= Len(w.c.output)
  BY <1>2, <1>3
<1>5. Handled(w, v)
  BY <1>1, <1>2, <1>4, HandledThen, Zenon
<1> QED
  BY <1>5, Zenon DEF v

\* write_connection, and update_interest after anything.
LEMMA HandledWrite ==
  ASSUME TypeInv, NEW w, Found(w)
  PROVE  Handled(w, WriteConnection(w))
<1>1. w \in WorldType /\ Handled(w, w)
  BY HandledSelf, Zenon DEF Found
<1> QED
  BY <1>1, WriteFacts, HandledThen, Zenon

\* update_interest.
LEMMA HandledModify ==
  ASSUME TypeInv, NEW w \in WorldType, NEW v, Handled(w, v)
  PROVE  Handled(w, Modify(v, WantedInterest(v)))
<1> DEFINE u == Modify(v, WantedInterest(v))
<1>1. v \in WorldType
  BY Zenon DEF Handled
<1>2. /\ u \in WorldType /\ SameStrand(v.c, u.c) /\ SameReplies(v.c, u.c)
      /\ SamePool(v, u) /\ u.s = v.s /\ u.c.output = v.c.output /\ u.c.closing = v.c.closing
  BY <1>1, ModifyFacts, Zenon
<1> HIDE DEF u
<1>3. v.c.output \in Seq(ReplyType)
  BY <1>1, WorldFields, ConnectionFields, Zenon
<1>4. Len(u.c.output) <= Len(v.c.output)
  BY <1>2, <1>3
<1>5. Handled(w, u)
  BY <1>1, <1>2, <1>4, HandledThen, Zenon
<1> QED
  BY <1>5, Zenon DEF u

\* An error reply on a connection that is not closing.
LEMMA HandledError ==
  ASSUME TypeInv, NEW w, Found(w), ~w.c.closing,
         NEW v \in WorldType, SameStrand(w.c, v.c), SameReplies(w.c, v.c), SamePool(w, v),
         v.s = w.s, v.c.output = Append(w.c.output, ErrorReply(w.c.client)), v.c.closing
  PROVE  Handled(w, v)
<1> DEFINE r == ErrorReply(w.c.client)
           out == w.c.output
           sent == w.s.sent
<1>1. w \in WorldType /\ Settled(w)
  BY Zenon DEF Found
<1>2. /\ out \in Seq(ReplyType) /\ sent \in Seq(ReplyType) /\ w.c.client \in Clients
      /\ config_.max_output_buffer \in Nat
  BY <1>1, WorldFields, ConnectionFields, SocketFields, Constants, Zenon
<1>3. r \in ReplyType
  BY <1>2, Zenon DEF ErrorReply, Reply, ReplyType
<1>4. Len(out) <= config_.max_output_buffer
  BY Zenon DEF Found, ReplyOf
<1> HIDE DEF r, out, sent
<1>5. Len(Append(out, r)) <= config_.max_output_buffer + 1
  BY <1>2, <1>3, <1>4
<1>6. sent \o Append(out, r) = Append(sent \o out, r)
  BY <1>2, <1>3, SMTT(30)
<1>7. Settled(v) /\ OthersKept(w, v) /\ Applied(v.c) = Applied(w.c)
  BY <1>1, SameStrandKept, Zenon
<1>8. ReplyOf(v.c)
  BY <1>5, <1>7, Zenon DEF Found, ReplyOf, SameReplies, out, r
<1>9. Replied(w, v)
  BY <1>6, Zenon DEF Replied, SameReplies, out, r, sent
<1> QED
  BY <1>7, <1>8, <1>9, Zenon DEF Handled, Found, SameStrand, SamePool

\* A message that does not parse: the error reply, and the connection closes.
LEMMA HandledProtocolError ==
  ASSUME TypeInv, NEW w, Found(w), ~w.c.closing
  PROVE  Handled(w, ProtocolError(w))
<1>1. w \in WorldType
  BY Zenon DEF Found
<1> QED
  BY <1>1, ErrorFacts, HandledError, Zenon

\* Bytes that the parser refuses: the error reply, and they are gone from the socket.
LEMMA HandledOverflow ==
  ASSUME TypeInv, NEW w, Found(w), ~w.c.closing, NEW n \in 1 .. Len(w.s.in)
  PROVE  LET v == [ProtocolError(w) EXCEPT !.s.in = SubSeq(@, n + 1, Len(@))]
         IN  /\ Handled(w, v) /\ v.e = w.e /\ v.c.interest = w.c.interest
             /\ v.c.output = Append(w.c.output, ErrorReply(w.c.client))
             /\ v.s.unread = w.s.unread
<1> DEFINE u == ProtocolError(w)
           in == SubSeq(w.s.in, n + 1, Len(w.s.in))
           t == [w.s EXCEPT !.in = in]
           v == [u EXCEPT !.s = t]
<1>1. w \in WorldType
  BY Zenon DEF Found
<1>2. /\ u \in WorldType /\ u.s = w.s /\ u.e = w.e /\ u.c.interest = w.c.interest
      /\ u.c.output = Append(w.c.output, ErrorReply(w.c.client))
  BY <1>1, ErrorFacts, Zenon
<1>3. Handled(w, u)
  BY HandledProtocolError, Zenon
<1> HIDE DEF u
<1>4. in \in Seq(config_.messages)
  <2>1. w.s.in \in Seq(config_.messages)
    BY <1>1, WorldFields, SocketFields, Zenon
  <2>2. n \in 0 .. Len(w.s.in)
    BY <2>1
  <2> QED
    BY <2>1, <2>2, SplitFacts, Zenon
<1>5. [u EXCEPT !.s.in = SubSeq(@, n + 1, Len(@))] = v
  BY <1>2, Zenon DEF WorldType
<1> HIDE DEF in
<1>6. t \in Socket /\ t.state = w.s.state /\ t.sent = w.s.sent /\ t.unread = w.s.unread
  BY <1>1, <1>4, WorldFields, Zenon DEF Socket
<1> HIDE DEF t
<1>7. v \in WorldType /\ SamePool(u, v) /\ v.c = u.c /\ v.s = t /\ v.e = u.e
  BY <1>2, <1>6, Zenon DEF WorldType, SamePool
<1> HIDE DEF v
<1>8. SameStrand(u.c, v.c) /\ SameReplies(u.c, v.c)
  BY <1>7, Zenon DEF SameStrand, SameReplies
<1>9. Len(v.c.output) <= Len(u.c.output)
  <2>1. u.c.output \in Seq(ReplyType)
    BY <1>2, WorldFields, ConnectionFields, Zenon
  <2> QED
    BY <1>7, <2>1
<1>10. Handled(w, v)
  BY <1>1, <1>2, <1>3, <1>6, <1>7, <1>8, <1>9, HandledThen, Zenon
<1> QED
  BY <1>2, <1>5, <1>6, <1>7, <1>10, Zenon DEF u

\* The end of the input: an unfinished message is a protocol error.
LEMMA HandledEnd ==
  ASSUME TypeInv, NEW w, Found(w), ~w.c.closing
  PROVE  Handled(w, EndOfInput(w))
<1> DEFINE v == EndOfInput(w)
<1>1. w \in WorldType /\ Handled(w, w)
  BY HandledSelf, Zenon DEF Found
<1>2. /\ v \in WorldType /\ SameStrand(w.c, v.c) /\ SameReplies(w.c, v.c)
      /\ SamePool(w, v) /\ v.s = w.s /\ v.e = w.e /\ v.c.interest = w.c.interest
      /\ \/ v.c.output = w.c.output /\ (w.c.closing => v.c.closing)
         \/ v.c.output = Append(w.c.output, ErrorReply(w.c.client)) /\ v.c.closing
  BY <1>1, EndFacts, Zenon
<1> HIDE DEF v
<1>3. CASE v.c.output = w.c.output /\ (w.c.closing => v.c.closing)
  <2>1. w.c.output \in Seq(ReplyType)
    BY <1>1, WorldFields, ConnectionFields, Zenon
  <2>2. Len(v.c.output) <= Len(w.c.output)
    BY <1>3, <2>1
  <2>3. Handled(w, v)
    BY <1>1, <1>2, <1>3, <2>2, HandledThen, Zenon
  <2> QED
    BY <2>3, Zenon DEF v
<1>4. CASE v.c.output = Append(w.c.output, ErrorReply(w.c.client)) /\ v.c.closing
  <2>1. Handled(w, v)
    BY <1>2, <1>4, HandledError, Zenon
  <2> QED
    BY <2>1 DEF v
<1> QED
  BY <1>2, <1>3, <1>4, Zenon

\* A command that was parsed.
LEMMA HandledCommand ==
  ASSUME TypeInv, NEW w, Found(w), w.c.parser # <<>>
  PROVE  LET v == EnqueueCommand([w EXCEPT !.c.parser = Tail(@)])
         IN  /\ Handled(w, v) /\ v.s = w.s /\ v.e = w.e /\ v.c.interest = w.c.interest
             /\ v.c.closing = w.c.closing /\ v.c.output = w.c.output
<1> DEFINE parser == Tail(w.c.parser)
           d == [w.c EXCEPT !.parser = parser]
           u == [w EXCEPT !.c = d]
           v == EnqueueCommand(u)
<1>1. w \in WorldType /\ Settled(w) /\ Len(w.jobs) <= config_.worker_queue_limit
  BY Zenon DEF Found
<1>2. parser \in Seq(config_.messages)
  <2>1. w.c.parser \in Seq(config_.messages)
    BY <1>1, WorldFields, ConnectionFields, Zenon
  <2> QED
    BY <2>1, TailFacts, Zenon
<1>3. [w EXCEPT !.c.parser = Tail(@)] = u
  BY <1>1, Zenon DEF WorldType, Connection
<1> HIDE DEF parser
<1>4. /\ d \in Connection /\ SameStrand(w.c, d) /\ SameReplies(w.c, d)
      /\ d.interest = w.c.interest /\ d.closing = w.c.closing /\ d.output = w.c.output
  BY <1>1, <1>2, WorldFields, Zenon DEF Connection, SameStrand, SameReplies
<1> HIDE DEF d
<1>5. u \in WorldType /\ u.c = d /\ SamePool(w, u) /\ u.s = w.s /\ u.e = w.e
  BY <1>1, <1>4, Zenon DEF WorldType, SamePool
<1> HIDE DEF u
<1>6. Settled(u) /\ Applied(u.c) = Applied(w.c) /\ PoolOf(u) = PoolOf(w)
  BY <1>1, <1>4, <1>5, SameStrandKept, Zenon
<1>7. /\ v \in WorldType /\ v.s = u.s /\ v.e = u.e
      /\ SameReplies(u.c, v.c) /\ v.c.interest = u.c.interest /\ v.c.closing = u.c.closing
      /\ v.c.output = u.c.output /\ v.c.id = u.c.id /\ v.c.client = u.c.client
      /\ Settled(v) /\ Applied(v.c) = Applied(u.c) /\ OthersKept(u, v)
      /\ Len(u.jobs) <= config_.worker_queue_limit => Len(v.jobs) <= config_.worker_queue_limit
  BY <1>5, <1>6, EnqueueFacts, Zenon
<1> HIDE DEF v
<1>8. /\ v.c.id = w.c.id /\ v.c.client = w.c.client /\ v.s = w.s /\ v.e = w.e
      /\ v.c.interest = w.c.interest /\ v.c.closing = w.c.closing /\ v.c.output = w.c.output
      /\ v.c.next_response_seq = w.c.next_response_seq
      /\ v.c.pending_responses = w.c.pending_responses
      /\ Len(v.jobs) <= config_.worker_queue_limit /\ Applied(v.c) = Applied(w.c)
  BY <1>1, <1>4, <1>5, <1>6, <1>7, Zenon DEF SameStrand, SameReplies, SamePool
<1>9. OthersKept(w, v)
  BY <1>4, <1>5, <1>6, <1>7, Zenon DEF OthersKept, SameStrand, SamePool
<1>10. ReplyOf(v.c) /\ Replied(w, v)
  BY <1>8, Zenon DEF Found, ReplyOf, Replied
<1> QED
  BY <1>3, <1>7, <1>8, <1>9, <1>10, Zenon DEF Handled, v

\* launch_strand, whatever the queue holds.
LEMMA LaunchFacts ==
  ASSUME TypeInv, NEW w \in WorldType, BetweenCommands(w)
  PROVE  LET v == LaunchStrand(w)
         IN  /\ v \in WorldType /\ v.s = w.s /\ v.e = w.e
             /\ SameReplies(w.c, v.c) /\ v.c.interest = w.c.interest /\ v.c.closing = w.c.closing
             /\ v.c.output = w.c.output /\ v.c.id = w.c.id /\ v.c.client = w.c.client
             /\ Settled(v) /\ Applied(v.c) = Launched(w.c) /\ OthersKept(w, v)
             /\ Len(w.jobs) <= config_.worker_queue_limit => Len(v.jobs) <= config_.worker_queue_limit
<1>1. CASE w.c.command_queue = <<>>
  <2> DEFINE v == LaunchStrand(w)
  <2>1. /\ v \in WorldType /\ SamePool(w, v) /\ v.s = w.s /\ v.e = w.e
        /\ SameReplies(w.c, v.c) /\ v.c.interest = w.c.interest /\ v.c.closing = w.c.closing
        /\ v.c.output = w.c.output /\ v.c.id = w.c.id /\ v.c.client = w.c.client
        /\ Settled(v) /\ Applied(v.c) = Launched(w.c)
    BY <1>1, LaunchNothing, Zenon
  <2> HIDE DEF v
  <2>2. w.ran \in [Clients -> Seq(Nat)] /\ w.c.client \in Clients
    BY WorldFields, ConnectionFields, Zenon
  <2>3. w.ran[w.c.client] \in Seq(Nat)
    BY <2>2, Zenon
  <2>4. Len(w.ran[w.c.client]) >= Len(w.ran[w.c.client])
    BY <2>3
  <2>5. OthersKept(w, v)
    BY <2>1, <2>4, Zenon DEF OthersKept, SamePool, PoolOf
  <2> QED
    BY <2>1, <2>5, Zenon DEF SamePool, v
<1>2. CASE w.c.command_queue # <<>>
  BY <1>2, LaunchOne, Zenon
<1> QED
  BY <1>1, <1>2, Zenon

\* apply_completion, up to close_connection or update_interest.
LEMMA HandledCompletion ==
  ASSUME TypeInv, NEW w, Found(w), w.completions # <<>>, Head(w.completions).client = w.c.client
  PROVE  LET v == LaunchStrand(WriteConnection(Completed(w, Head(w.completions).seq)))
         IN  /\ Handled(w, v) /\ v.c.interest = w.c.interest /\ v.e = w.e
             /\ v.c.output # <<>> => v.s.unread = SendRoom
<1> DEFINE done == Head(w.completions)
           v1 == Completed(w, done.seq)
           v2 == WriteConnection(v1)
           v == LaunchStrand(v2)
<1>1. /\ w \in WorldType /\ Settled(w) /\ ReplyOf(w.c) /\ Len(w.jobs) <= config_.worker_queue_limit
  BY Zenon DEF Found
<1>2. /\ v1 \in WorldType /\ v1.s = w.s /\ v1.e = w.e
      /\ v1.jobs = w.jobs /\ v1.ran = w.ran /\ PoolOf(v1) = PoolOf(w) \ {done}
      /\ v1.c.id = w.c.id /\ v1.c.client = w.c.client /\ v1.c.interest = w.c.interest
      /\ w.c.closing => v1.c.closing
      /\ BetweenCommands(v1)
      /\ v1.c.next_response_seq <= Launched(v1.c)
      /\ v1.c.pending_responses \subseteq v1.c.next_response_seq + 1 .. Launched(v1.c) - 1
      /\ \/ v1.c.output = w.c.output /\ v1.c.next_response_seq = w.c.next_response_seq
         \/ /\ v1.c.output = Append(w.c.output, Reply(w.c.client, w.c.next_response_seq))
            /\ v1.c.next_response_seq = w.c.next_response_seq + 1
            /\ Len(w.c.output) < config_.max_output_buffer
  BY <1>1, CompletedFacts, Zenon
<1> HIDE DEF v1
<1>3. /\ v2 \in WorldType /\ SameStrand(v1.c, v2.c) /\ SameReplies(v1.c, v2.c)
      /\ SamePool(v1, v2) /\ v2.e = v1.e /\ v2.c.interest = v1.c.interest
      /\ v2.c.closing = v1.c.closing /\ v2.s.state = v1.s.state
      /\ v2.s.sent \o v2.c.output = v1.s.sent \o v1.c.output
      /\ Len(v2.c.output) <= Len(v1.c.output)
      /\ v2.c.output # <<>> => v2.s.unread = SendRoom
  BY <1>2, WriteFacts, Zenon
<1> HIDE DEF v2
<1>4. PoolOf(v2) = PoolOf(v1) /\ v2.ran = v1.ran /\ Launched(v2.c) = Launched(v1.c)
  BY <1>3, Zenon DEF SamePool, PoolOf, SameStrand, Launched
<1>5. BetweenCommands(v2)
  BY <1>2, <1>3, <1>4, Zenon DEF BetweenCommands, SamePool, SameStrand, QueueOf
<1>6. /\ v \in WorldType /\ v.s = v2.s /\ v.e = v2.e
      /\ SameReplies(v2.c, v.c) /\ v.c.interest = v2.c.interest /\ v.c.closing = v2.c.closing
      /\ v.c.output = v2.c.output /\ v.c.id = v2.c.id /\ v.c.client = v2.c.client
      /\ Settled(v) /\ Applied(v.c) = Launched(v2.c) /\ OthersKept(v2, v)
      /\ Len(v2.jobs) <= config_.worker_queue_limit => Len(v.jobs) <= config_.worker_queue_limit
  BY <1>3, <1>5, LaunchFacts, Zenon
<1> HIDE DEF v
<1>7. /\ v.c.id = w.c.id /\ v.c.client = w.c.client /\ v2.c.client = w.c.client /\ v2.c.id = w.c.id
      /\ v.s.state = w.s.state /\ v.c.closing = v1.c.closing
      /\ v.c.interest = w.c.interest /\ v.e = w.e /\ v2.ran = w.ran
      /\ Len(v.jobs) <= config_.worker_queue_limit
      /\ v.c.next_response_seq = v1.c.next_response_seq
      /\ v.c.pending_responses = v1.c.pending_responses
      /\ v.s.sent \o v.c.output = w.s.sent \o v1.c.output
      /\ Applied(v.c) = Launched(v1.c)
      /\ v.c.output # <<>> => v.s.unread = SendRoom
  BY <1>1, <1>2, <1>3, <1>4, <1>6, Zenon DEF SameStrand, SameReplies, SamePool
<1>8. OthersKept(w, v)
  <2>1. done.client = w.c.client /\ PoolOf(v2) = PoolOf(w) \ {done}
    BY <1>2, <1>4, Zenon
  <2> HIDE DEF done
  <2>2. PoolOf(v) \ {a \in PoolOf(v) : a.client = w.c.client}
          = PoolOf(v2) \ {a \in PoolOf(v2) : a.client = w.c.client}
    BY <1>6, <1>7, Zenon DEF OthersKept
  <2>3. PoolOf(v2) \ {a \in PoolOf(v2) : a.client = w.c.client}
          = PoolOf(w) \ {a \in PoolOf(w) : a.client = w.c.client}
    BY <2>1, Zenon
  <2>4. \A a \in PoolOf(v) \ PoolOf(w) : a.id = w.c.id /\ a.client = w.c.client
    BY <1>6, <1>7, <2>1, Zenon DEF OthersKept
  <2> QED
    BY <1>6, <1>7, <2>2, <2>3, <2>4, ZenonT(30) DEF OthersKept
<1> DEFINE out == w.c.output
           sent == w.s.sent
           r == Reply(w.c.client, w.c.next_response_seq)
<1>9. /\ out \in Seq(ReplyType) /\ sent \in Seq(ReplyType) /\ w.c.client \in Clients
      /\ config_.max_output_buffer \in Nat /\ w.c.next_response_seq \in Nat
      /\ v.c.output \in Seq(ReplyType) /\ v1.c.output \in Seq(ReplyType)
  BY <1>1, <1>2, <1>6, WorldFields, ConnectionFields, SocketFields, Constants, Zenon
<1>10. r \in ReplyType
  BY <1>9, Zenon DEF Reply, ReplyType
<1>11. Len(v.c.output) <= Len(v1.c.output)
  BY <1>3, <1>6, Zenon
<1>12. /\ Len(out) <= config_.max_output_buffer + 1
       /\ ~w.c.closing => Len(out) <= config_.max_output_buffer
  BY <1>1, Zenon DEF ReplyOf
<1> HIDE DEF out, sent, r
<1>13. \/ v1.c.output = out /\ v1.c.next_response_seq = w.c.next_response_seq
       \/ /\ v1.c.output = Append(out, r) /\ Len(out) < config_.max_output_buffer
          /\ v1.c.next_response_seq = w.c.next_response_seq + 1
  BY <1>2, Zenon DEF out, r
<1>14. /\ Len(v.c.output) <= config_.max_output_buffer + 1
       /\ ~v.c.closing => Len(v.c.output) <= config_.max_output_buffer
  <2>1. Len(Append(out, r)) = Len(out) + 1
    BY <1>9, <1>10
  <2>2. ~v.c.closing => ~w.c.closing
    BY <1>2, <1>7, Zenon
  <2>3. Len(v.c.output) \in Nat /\ Len(v1.c.output) \in Nat /\ Len(out) \in Nat
    BY <1>9
  <2>4. CASE v1.c.output = out
    <3>1. Len(v1.c.output) = Len(out)
      BY <2>4, Zenon
    <3> QED
      BY <1>9, <1>11, <1>12, <2>2, <2>3, <3>1
  <2>5. CASE v1.c.output = Append(out, r) /\ Len(out) < config_.max_output_buffer
    <3>1. Len(v1.c.output) = Len(out) + 1
      BY <2>1, <2>5, Zenon
    <3> QED
      BY <1>9, <1>11, <2>3, <2>5, <3>1
  <2> QED
    BY <1>13, <2>4, <2>5, Zenon
<1>15. ReplyOf(v.c)
  BY <1>2, <1>7, <1>14, Zenon DEF ReplyOf
<1>16. sent \o Append(out, r) = Append(sent \o out, r)
  BY <1>9, <1>10
<1>17. Replied(w, v)
  BY <1>7, <1>13, <1>16, Zenon DEF Replied, out, sent, r
<1> QED
  BY <1>6, <1>7, <1>8, <1>15, <1>17, Zenon DEF Handled, v, v1, v2, done

-----------------------------------------------------------------------------
(* The connections, the clients and the pool, over the steps.              *)

\* An open connection, its client and its socket.
LEMMA OpenFacts ==
  ASSUME TypeInv, NEW fd \in Open
  PROVE  /\ fd \in Fds /\ connections_[fd] \in Connection /\ connections_[fd].client \in Clients
         /\ sock[connections_[fd].client] \in Socket /\ edges[fd] \subseteq Interests
<1>1. fd \in Fds /\ connections_[fd] \in Connection
  BY Zenon DEF Open, TypeInv, CoreType
<1>2. connections_[fd].client \in Clients
  BY <1>1, ConnectionFields, Zenon
<1>3. sock \in [Clients -> Socket] /\ edges \in [Fds \cup {Listener} -> SUBSET Interests]
  BY Zenon DEF TypeInv, CoreType
<1> QED
  BY <1>1, <1>2, <1>3, Zenon

\* What the handler of an open connection works on.
LEMMA WorldFacts ==
  ASSUME TypeInv, NEW fd \in Open
  PROVE  LET w == World(fd)
         IN  /\ w \in WorldType /\ w.c = connections_[fd] /\ w.s = sock[connections_[fd].client]
             /\ w.e = edges[fd] /\ w.jobs = jobs /\ w.completions = completions_ /\ w.ran = ran
             /\ PoolOf(w) = Jobs
<1> DEFINE w == World(fd)
           c == connections_[fd]
           s == sock[connections_[fd].client]
           e == edges[fd]
<1>1. c \in Connection /\ s \in Socket /\ e \subseteq Interests
  BY OpenFacts, Zenon
<1>2. jobs \in Seq(Job) /\ completions_ \in Seq(Job) /\ ran \in [Clients -> Seq(Nat)]
  BY Zenon DEF TypeInv, CoreType
<1>3. w = [c |-> c, s |-> s, e |-> e, jobs |-> jobs, completions |-> completions_, ran |-> ran]
  BY Zenon DEF World
<1> HIDE DEF w, c, s, e
<1>4. /\ w \in WorldType /\ w.c = c /\ w.s = s /\ w.e = e
      /\ w.jobs = jobs /\ w.completions = completions_ /\ w.ran = ran
  BY <1>1, <1>2, <1>3, Zenon DEF WorldType
<1>5. PoolOf(w) = Jobs
  BY <1>4, Zenon DEF PoolOf, Jobs
<1> QED
  BY <1>4, <1>5, Zenon DEF w, c, s, e

\* The invariant, as the handler of a connection finds it.
LEMMA FoundFacts ==
  ASSUME TypeInv, StrandInv, NEW fd \in Open
  PROVE  Found(World(fd))
<1> DEFINE w == World(fd)
<1>1. /\ w \in WorldType /\ w.c = connections_[fd] /\ w.jobs = jobs
      /\ w.completions = completions_ /\ w.ran = ran /\ PoolOf(w) = Jobs
  BY WorldFacts, Zenon
<1> HIDE DEF w
<1>2. Len(w.jobs) <= config_.worker_queue_limit
  BY <1>1, Zenon DEF TypeInv, CoreType
<1>3. Settled(w) /\ ReplyOf(w.c)
  BY <1>1, Zenon DEF Settled, StrandInv
<1>4. Found(w)
  BY <1>1, <1>2, <1>3, Zenon DEF Found
<1> QED
  BY <1>4, Zenon DEF w

\* A connection is put back, or closed.
Touch(fd, v) ==
  /\ Put(fd, v) \/ CloseConnection(fd, v)
  /\ UNCHANGED <<next_connection_id_, backlog, config_>>

\* What a handler writes back changes one connection, or closes it.
LEMMA TouchFacts ==
  ASSUME TypeInv, NEW fd \in Open, NEW v \in WorldType, Touch(fd, v),
         Len(v.jobs) <= config_.worker_queue_limit
  PROVE  LET n == connections_[fd].client
         IN  /\ CoreType'
             /\ Open' \subseteq Open /\ Open \subseteq Open' \cup {fd}
             /\ \A g \in Open' : connections_'[g] = IF g = fd THEN v.c ELSE connections_[g]
             /\ fd \in Open' => sock'[n] = v.s
             /\ sock'[n].state \in {v.s.state, "closed"} /\ sock'[n].sent = v.s.sent
             /\ \A m \in Clients \ {n} : sock'[m] = sock[m]
             /\ jobs' = v.jobs /\ completions_' = v.completions /\ ran' = v.ran
             /\ running' = running /\ Jobs' = PoolOf(v)
             /\ \A g \in Fds \cup {Listener} : g # fd => edges'[g] = edges[g]
             /\ fd \in Open' => edges'[fd] = v.e
<1> DEFINE n == connections_[fd].client
<1>1. /\ config_ \in Configs /\ connections_ \in [Fds -> Connection \cup {NoConnection}]
      /\ next_connection_id_ \in Nat \ {0} /\ running \in SUBSET Job
      /\ edges \in [Fds \cup {Listener} -> SUBSET Interests] /\ sock \in [Clients -> Socket]
      /\ backlog \in Seq(Clients)
  BY Zenon DEF TypeInv, CoreType
<1>2. fd \in Fds /\ n \in Clients
  BY OpenFacts, Zenon
<1>3. /\ config_' = config_ /\ next_connection_id_' = next_connection_id_ /\ backlog' = backlog
  BY Zenon DEF Touch
<1>4. /\ v.c \in Connection /\ v.s \in Socket /\ v.e \subseteq Interests
      /\ v.jobs \in Seq(Job) /\ v.completions \in Seq(Job) /\ v.ran \in [Clients -> Seq(Nat)]
  BY WorldFields, Zenon
<1>5. v.c # NoConnection /\ NoConnection \notin Connection
  <2>1. \A c \in Connection : c.id # 0
    BY ConnectionFields, Zenon
  <2>2. NoConnection.id = 0
    BY Zenon DEF NoConnection
  <2> QED
    BY <1>4, <2>1, <2>2, Zenon
<1>6. Connection' = Connection /\ Socket' = Socket
  BY <1>3, Zenon DEF Connection, Socket
<1> HIDE DEF n
<1>7. CASE Put(fd, v)
  <2>1. /\ connections_' = [connections_ EXCEPT ![fd] = v.c] /\ sock' = [sock EXCEPT ![n] = v.s]
        /\ edges' = [edges EXCEPT ![fd] = v.e] /\ running' = running
        /\ jobs' = v.jobs /\ completions_' = v.completions /\ ran' = v.ran
    BY <1>7, Zenon DEF Put, n
  <2>2. /\ connections_' \in [Fds -> Connection \cup {NoConnection}] /\ connections_'[fd] = v.c
        /\ \A g \in Fds : g # fd => connections_'[g] = connections_[g]
        /\ sock' \in [Clients -> Socket] /\ sock'[n] = v.s
        /\ \A m \in Clients \ {n} : sock'[m] = sock[m]
        /\ edges' \in [Fds \cup {Listener} -> SUBSET Interests] /\ edges'[fd] = v.e
        /\ \A g \in Fds \cup {Listener} : g # fd => edges'[g] = edges[g]
    BY <1>1, <1>2, <1>4, <2>1, Zenon
  <2>3. Open' = Open
    BY <1>5, <2>2, Zenon DEF Open
  <2>4. CoreType'
    BY <1>1, <1>3, <1>4, <1>6, <2>1, <2>2, Zenon DEF CoreType
  <2>5. Jobs' = PoolOf(v)
    BY <2>1, Zenon DEF Jobs, JobsIn, PoolOf
  <2>6. \A g \in Open' : g \in Fds
    BY <2>3, Zenon DEF Open
  <2> QED
    BY <2>1, <2>2, <2>3, <2>4, <2>5, <2>6, Zenon DEF n
<1>8. CASE CloseConnection(fd, v)
  <2> DEFINE t == [v.s EXCEPT !.state = "closed"]
             x == [v EXCEPT !.c = NoConnection, !.e = {}, !.s = t]
  <2>1. Put(fd, x)
    <3>1. [v EXCEPT !.c = NoConnection, !.e = {}, !.s.state = "closed"] = x
      BY <1>4, Zenon DEF WorldType, Socket
    <3> QED
      BY <1>8, <3>1, Zenon DEF CloseConnection
  <2>2. t \in Socket /\ t.state = "closed" /\ t.sent = v.s.sent
    BY <1>4, Zenon DEF Socket
  <2> HIDE DEF t
  <2>3. /\ x.c = NoConnection /\ x.e = {} /\ x.s = t /\ x.jobs = v.jobs
        /\ x.completions = v.completions /\ x.ran = v.ran
    BY Zenon DEF WorldType
  <2> HIDE DEF x
  <2>4. /\ connections_' = [connections_ EXCEPT ![fd] = NoConnection] /\ sock' = [sock EXCEPT ![n] = t]
        /\ edges' = [edges EXCEPT ![fd] = {}] /\ running' = running
        /\ jobs' = v.jobs /\ completions_' = v.completions /\ ran' = v.ran
    BY <2>1, <2>3, Zenon DEF Put, n
  <2>5. /\ connections_' \in [Fds -> Connection \cup {NoConnection}] /\ connections_'[fd] = NoConnection
        /\ \A g \in Fds : g # fd => connections_'[g] = connections_[g]
        /\ sock' \in [Clients -> Socket] /\ sock'[n] = t
        /\ \A m \in Clients \ {n} : sock'[m] = sock[m]
        /\ edges' \in [Fds \cup {Listener} -> SUBSET Interests]
        /\ \A g \in Fds \cup {Listener} : g # fd => edges'[g] = edges[g]
    BY <1>1, <1>2, <2>2, <2>4, Zenon
  <2>6. Open' = Open \ {fd}
    BY <1>5, <2>5, Zenon DEF Open
  <2>7. CoreType'
    BY <1>1, <1>3, <1>4, <1>6, <2>4, <2>5, Zenon DEF CoreType
  <2>8. Jobs' = PoolOf(v)
    BY <2>4, Zenon DEF Jobs, JobsIn, PoolOf
  <2>9. \A g \in Open' : g \in Fds /\ g # fd
    BY <2>6, Zenon DEF Open
  <2> QED
    BY <2>2, <2>4, <2>5, <2>6, <2>7, <2>8, <2>9, Zenon DEF n
<1> QED
  BY <1>7, <1>8, Zenon DEF Touch

\* The strand of a connection whose client the step is not about.
LEMMA OtherStrand ==
  ASSUME NEW c, NEW all, NEW all2, NEW rn, NEW rn2, StrandOf(c, all, rn),
         \A job \in all : job.client = c.client => job \in all2,
         \A job \in all2 : job.client = c.client => job \in all,
         (\A job \in all : job.client # c.client) => rn2[c.client] = rn[c.client]
  PROVE  StrandOf(c, all2, rn2)
BY Zenon DEF StrandOf

\* A step of a handler.
HandlerStep(fd, v) == Handled(World(fd), v) /\ Touch(fd, v)

\* A handler keeps the invariant.
LEMMA HandlerStepKeeps ==
  ASSUME TypeInv, IdInv, StrandInv, NEW fd \in Open, NEW v, HandlerStep(fd, v)
  PROVE  CoreType' /\ IdInv' /\ StrandInv'
<1> DEFINE w == World(fd)
           n == connections_[fd].client
<1>1. /\ w \in WorldType /\ w.c = connections_[fd] /\ w.s = sock[n]
      /\ w.ran = ran /\ PoolOf(w) = Jobs
  BY WorldFacts, Zenon
<1>2. /\ v \in WorldType /\ v.c.id = w.c.id /\ v.c.client = w.c.client /\ v.s.state = w.s.state
      /\ Len(v.jobs) <= config_.worker_queue_limit
      /\ Settled(v) /\ OthersKept(w, v) /\ ReplyOf(v.c) /\ Touch(fd, v)
  BY Zenon DEF HandlerStep, Handled
<1>3. /\ CoreType'
      /\ Open' \subseteq Open /\ Open \subseteq Open' \cup {fd}
      /\ \A g \in Open' : connections_'[g] = IF g = fd THEN v.c ELSE connections_[g]
      /\ fd \in Open' => sock'[n] = v.s
      /\ sock'[n].state \in {v.s.state, "closed"} /\ sock'[n].sent = v.s.sent
      /\ \A m \in Clients \ {n} : sock'[m] = sock[m]
      /\ jobs' = v.jobs /\ completions_' = v.completions /\ ran' = v.ran
      /\ running' = running /\ Jobs' = PoolOf(v)
  BY <1>2, TouchFacts
<1>4. next_connection_id_' = next_connection_id_ /\ backlog' = backlog /\ config_' = config_
  BY <1>2, Zenon DEF Touch
<1>5. n \in Clients /\ sock[n].state = "accepted" /\ backlog \in Seq(Clients)
  BY OpenFacts, Zenon DEF IdInv, TypeInv, CoreType
<1>a. /\ \A g \in Open : /\ connections_[g].id < next_connection_id_
                         /\ sock[connections_[g].client].state = "accepted"
      /\ \A g, h \in Open :
           connections_[g].client = connections_[h].client \/ connections_[g].id = connections_[h].id
             => g = h
      /\ \A i \in DOMAIN backlog : sock[backlog[i]].state = "backlog"
      /\ \A i, j \in DOMAIN backlog : backlog[i] = backlog[j] => i = j
  BY Zenon DEF IdInv
<1>b. /\ \A job \in Jobs : /\ job.id < next_connection_id_
                           /\ sock[job.client].state \in {"accepted", "closed"}
                           /\ \A g \in Open : connections_[g].id = job.id
                                                 <=> connections_[g].client = job.client
      /\ \A m \in Clients : sock[m].state \in {"new", "backlog"} => ran[m] = <<>> /\ sock[m].sent = <<>>
  BY Zenon DEF IdInv
<1> HIDE DEF w
<1>6. \A g \in Open' : /\ g \in Open /\ connections_'[g].id = connections_[g].id
                       /\ connections_'[g].client = connections_[g].client
                       /\ connections_[g].client \in Clients
                       /\ g # fd => connections_[g].client # n /\ connections_[g].id # connections_[fd].id
  <2> SUFFICES ASSUME NEW g \in Open'
               PROVE  /\ g \in Open /\ connections_'[g].id = connections_[g].id
                      /\ connections_'[g].client = connections_[g].client
                      /\ connections_[g].client \in Clients
                      /\ g # fd => connections_[g].client # n /\ connections_[g].id # connections_[fd].id
    BY Zenon
  <2>1. g \in Open /\ connections_'[g] = IF g = fd THEN v.c ELSE connections_[g]
    BY <1>3, Zenon
  <2>2. connections_[g].client \in Clients
    BY <2>1, OpenFacts, Zenon
  <2>3. v.c.id = connections_[fd].id /\ v.c.client = connections_[fd].client
    BY <1>1, <1>2, Zenon
  <2>4. g # fd => connections_[g].client # n /\ connections_[g].id # connections_[fd].id
    BY <1>a, <2>1, Zenon
  <2> QED
    BY <2>1, <2>2, <2>3, <2>4, Zenon
<1>7. /\ \A a \in Jobs' : a \in Jobs \/ (a.id = connections_[fd].id /\ a.client = n)
      /\ \A a \in Jobs : a \in Jobs' \/ a.client = n
      /\ \A m \in Clients \ {n} : ran'[m] = ran[m]
  BY <1>1, <1>2, <1>3, Zenon DEF OthersKept
<1> HIDE DEF n
<1>8. IdInv'
  <2>1. ASSUME NEW g \in Open'
        PROVE  /\ connections_'[g].id < next_connection_id_'
               /\ sock'[connections_'[g].client].state = "accepted"
    <3>1. connections_'[g].id < next_connection_id_'
      BY <1>4, <1>6, <1>a, <2>1, Zenon
    <3>2. CASE g = fd
      <4>1. connections_'[g].client = n /\ sock'[n] = v.s
        BY <1>3, <1>6, <3>2, Zenon DEF n
      <4>2. v.s.state = "accepted"
        BY <1>1, <1>2, <1>5, Zenon
      <4> QED
        BY <3>1, <4>1, <4>2, Zenon
    <3>3. CASE g # fd
      <4>1. sock'[connections_[g].client] = sock[connections_[g].client]
        BY <1>3, <1>6, <3>3, Zenon
      <4> QED
        <5>1. g \in Open /\ connections_'[g].client = connections_[g].client
          BY <1>6, Zenon
        <5>2. sock[connections_[g].client].state = "accepted"
          BY <1>a, <5>1, Zenon
        <5> QED
          BY <3>1, <4>1, <5>1, <5>2, Zenon
    <3> QED
      BY <3>1, <3>2, <3>3, Zenon
  <2>2. ASSUME NEW g \in Open', NEW h \in Open',
               connections_'[g].client = connections_'[h].client \/ connections_'[g].id = connections_'[h].id
        PROVE  g = h
    <3>1. /\ g \in Open /\ connections_'[g].id = connections_[g].id
          /\ connections_'[g].client = connections_[g].client
      BY <1>6, Zenon
    <3>2. /\ h \in Open /\ connections_'[h].id = connections_[h].id
          /\ connections_'[h].client = connections_[h].client
      BY <1>6, Zenon
    <3> QED
      BY <1>a, <2>2, <3>1, <3>2, ZenonT(30)
  <2>3. ASSUME NEW i \in DOMAIN backlog' PROVE sock'[backlog'[i]].state = "backlog"
    <3>1. sock[backlog[i]].state = "backlog" /\ backlog[i] \in Clients
      <4>1. \A j \in DOMAIN backlog : backlog[j] \in Clients
        BY <1>5, RangeFacts, Zenon
      <4> QED
        BY <1>4, <1>a, <4>1, Zenon
    <3>2. backlog[i] # n
      BY <1>5, <3>1, Zenon
    <3> QED
      BY <1>3, <1>4, <3>1, <3>2, Zenon
  <2>4. \A i, j \in DOMAIN backlog' : backlog'[i] = backlog'[j] => i = j
    BY <1>4, <1>a, Zenon
  <2>5. ASSUME NEW a \in Jobs'
        PROVE  /\ a.id < next_connection_id_' /\ sock'[a.client].state \in {"accepted", "closed"}
               /\ \A g \in Open' : connections_'[g].id = a.id <=> connections_'[g].client = a.client
    <3>1. sock'[n].state \in {"accepted", "closed"}
      BY <1>1, <1>2, <1>3, <1>5, Zenon
    <3>2. CASE a \in Jobs
      <4>1. a.client \in Clients
        <5>1. jobs \in Seq(Job) /\ running \in SUBSET Job /\ completions_ \in Seq(Job)
          BY Zenon DEF TypeInv, CoreType
        <5>2. a \in Job
          BY <3>2, <5>1, RangeFacts, Zenon DEF Jobs, JobsIn
        <5> QED
          BY <5>2, Zenon DEF Job
      <4>2. sock'[a.client].state \in {"accepted", "closed"}
        <5>1. CASE a.client = n
          BY <3>1, <5>1, Zenon
        <5>2. CASE a.client # n
          BY <1>3, <1>b, <3>2, <4>1, <5>2, Zenon
        <5> QED
          BY <5>1, <5>2, Zenon
      <4> QED
        <5>1. a.id < next_connection_id_'
          BY <1>4, <1>b, <3>2, Zenon
        <5>2. ASSUME NEW g \in Open'
              PROVE  connections_'[g].id = a.id <=> connections_'[g].client = a.client
          <6>1. /\ g \in Open /\ connections_'[g].id = connections_[g].id
                /\ connections_'[g].client = connections_[g].client
            BY <1>6, Zenon
          <6>2. connections_[g].id = a.id <=> connections_[g].client = a.client
            BY <1>b, <3>2, <6>1, Zenon
          <6> QED
            BY <6>1, <6>2, Zenon
        <5> QED
          BY <4>2, <5>1, <5>2, Zenon
    <3>3. CASE a.id = connections_[fd].id /\ a.client = n
      <4>1. a.id < next_connection_id_'
        BY <1>4, <1>a, <3>3, Zenon
      <4>2. \A g \in Open' : connections_'[g].id = a.id <=> connections_'[g].client = a.client
        BY <1>6, <3>3, Zenon DEF n
      <4> QED
        BY <3>1, <3>3, <4>1, <4>2, Zenon
    <3> QED
      BY <1>7, <3>2, <3>3, Zenon
  <2>6. ASSUME NEW m \in Clients, sock'[m].state \in {"new", "backlog"}
        PROVE  ran'[m] = <<>> /\ sock'[m].sent = <<>>
    <3>1. m # n
      <4>1. sock'[n].state \in {"accepted", "closed"}
        BY <1>1, <1>2, <1>3, <1>5, Zenon
      <4> QED
        BY <2>6, <4>1, Zenon
    <3> QED
      BY <1>3, <1>7, <1>b, <2>6, <3>1, Zenon
  <2> QED
    BY <2>1, <2>2, <2>3, <2>4, <2>5, <2>6, Zenon DEF IdInv
<1>9. StrandInv'
  <2>1. Orderly(jobs', running', completions_', ran')
    BY <1>2, <1>3, Zenon DEF Settled
  <2>2. ASSUME NEW g \in Open'
        PROVE  StrandOf(connections_'[g], Jobs', ran') /\ ReplyOf(connections_[g])'
    <3>1. CASE g = fd
      <4>1. StrandOf(v.c, PoolOf(v), v.ran) /\ ReplyOf(v.c) /\ connections_'[g] = v.c
        BY <1>2, <1>3, <3>1, Zenon DEF Settled
      <4> QED
        BY <1>3, <1>4, <4>1, Zenon DEF ReplyOf
    <3>2. CASE g # fd
      <4> DEFINE c == connections_[g]
      <4>1. /\ c.client # n /\ c.client \in Clients /\ StrandOf(c, Jobs, ran) /\ ReplyOf(c)
            /\ connections_'[g] = c
        BY <1>3, <1>6, <3>2, Zenon DEF StrandInv
      <4> HIDE DEF c
      <4>2. /\ \A job \in Jobs : job.client = c.client => job \in Jobs'
            /\ \A job \in Jobs' : job.client = c.client => job \in Jobs
            /\ ran'[c.client] = ran[c.client]
        BY <1>7, <4>1, Zenon
      <4>3. StrandOf(c, Jobs', ran')
        BY <4>1, <4>2, OtherStrand, Zenon
      <4> QED
        BY <1>4, <4>1, <4>3, Zenon DEF ReplyOf
    <3> QED
      BY <3>1, <3>2, Zenon
  <2> QED
    BY <2>1, <2>2, Zenon DEF StrandInv
<1> QED
  BY <1>3, <1>8, <1>9, Zenon

\* Steps that accept nobody, and give no connection a new job.
LEMMA IdStays ==
  ASSUME TypeInv, IdInv, next_connection_id_' = next_connection_id_, backlog' = backlog,
         Open' \subseteq Open, Jobs' \subseteq Jobs,
         \A g \in Open' : connections_'[g] = connections_[g],
         \A g \in Open' : sock'[connections_[g].client].state = "accepted",
         \A m \in Clients : \/ sock'[m].state = sock[m].state /\ sock'[m].sent = sock[m].sent
                            \/ sock[m].state = "accepted" /\ sock'[m].state = "closed",
         \A m \in Clients : sock[m].state \in {"new", "backlog"} => ran'[m] = ran[m]
  PROVE  IdInv'
<1>1. /\ \A g \in Open : connections_[g].id < next_connection_id_
      /\ \A g, h \in Open :
           connections_[g].client = connections_[h].client \/ connections_[g].id = connections_[h].id
             => g = h
      /\ \A i \in DOMAIN backlog : sock[backlog[i]].state = "backlog"
      /\ \A i, j \in DOMAIN backlog : backlog[i] = backlog[j] => i = j
  BY Zenon DEF IdInv
<1>2. /\ \A job \in Jobs : /\ job.id < next_connection_id_
                           /\ sock[job.client].state \in {"accepted", "closed"}
                           /\ \A g \in Open : connections_[g].id = job.id
                                                 <=> connections_[g].client = job.client
      /\ \A m \in Clients : sock[m].state \in {"new", "backlog"} => ran[m] = <<>> /\ sock[m].sent = <<>>
  BY Zenon DEF IdInv
<1>3. \A g \in Open' : g \in Open
  BY Zenon
<1>4. ASSUME NEW g \in Open'
      PROVE  /\ connections_'[g].id < next_connection_id_'
             /\ sock'[connections_'[g].client].state = "accepted"
  BY <1>1, <1>3, Zenon
<1>5. ASSUME NEW g \in Open', NEW h \in Open',
             connections_'[g].client = connections_'[h].client \/ connections_'[g].id = connections_'[h].id
      PROVE  g = h
  <2>1. connections_'[g] = connections_[g] /\ connections_'[h] = connections_[h] /\ g \in Open /\ h \in Open
    BY <1>3, Zenon
  <2> QED
    <3>1. connections_[g].client = connections_[h].client \/ connections_[g].id = connections_[h].id
      BY <1>5, <2>1, Zenon
    <3>2. connections_[g].client = connections_[h].client => g = h
      BY <1>1, <2>1, Zenon
    <3>3. connections_[g].id = connections_[h].id => g = h
      BY <1>1, <2>1, Zenon
    <3> QED
      BY <3>1, <3>2, <3>3, Zenon
<1>6. ASSUME NEW i \in DOMAIN backlog' PROVE sock'[backlog'[i]].state = "backlog"
  <2>1. backlog \in Seq(Clients)
    BY Zenon DEF TypeInv, CoreType
  <2>2. \A j \in DOMAIN backlog : backlog[j] \in Clients
    BY <2>1, RangeFacts, Zenon
  <2>3. backlog[i] \in Clients /\ sock[backlog[i]].state = "backlog" /\ backlog'[i] = backlog[i]
    BY <1>1, <2>2, Zenon
  <2>4. sock[backlog[i]].state # "accepted"
    BY <2>3, Zenon
  <2> QED
    BY <2>3, <2>4, Zenon
<1>7. ASSUME NEW a \in Jobs'
      PROVE  /\ a.id < next_connection_id_' /\ sock'[a.client].state \in {"accepted", "closed"}
             /\ \A g \in Open' : connections_'[g].id = a.id <=> connections_'[g].client = a.client
  <2>1. a \in Jobs
    BY Zenon
  <2>2. a.client \in Clients
    <3>1. jobs \in Seq(Job) /\ running \in SUBSET Job /\ completions_ \in Seq(Job)
      BY Zenon DEF TypeInv, CoreType
    <3>2. a \in Job
      BY <2>1, <3>1, RangeFacts, Zenon DEF Jobs, JobsIn
    <3> QED
      BY <3>2, Zenon DEF Job
  <2>3. sock'[a.client].state \in {"accepted", "closed"}
    BY <1>2, <2>1, <2>2, Zenon
  <2>4. ASSUME NEW g \in Open' PROVE connections_'[g].id = a.id <=> connections_'[g].client = a.client
    <3>a. g \in Open
      BY <1>3, Zenon
    <3>b. \A h \in Open : connections_[h].id = a.id <=> connections_[h].client = a.client
      BY <1>2, <2>1, Zenon
    <3>1. connections_[g].id = a.id <=> connections_[g].client = a.client
      BY <3>a, <3>b, Zenon
    <3>2. connections_'[g] = connections_[g]
      BY Zenon
    <3> QED
      BY <3>1, <3>2, Zenon
  <2> QED
    BY <1>2, <2>1, <2>3, <2>4, Zenon
<1>8. ASSUME NEW m \in Clients, sock'[m].state \in {"new", "backlog"}
      PROVE  ran'[m] = <<>> /\ sock'[m].sent = <<>>
  <2>1. sock'[m].state # "closed"
    BY <1>8, Zenon
  <2>2. sock'[m].state = sock[m].state /\ sock'[m].sent = sock[m].sent
    BY <2>1, Zenon
  <2>3. sock[m].state \in {"new", "backlog"}
    BY <1>8, <2>2, Zenon
  <2>4. ran'[m] = ran[m]
    BY <2>3, Zenon
  <2> QED
    BY <1>2, <2>2, <2>3, <2>4, Zenon
<1>9. \A i, j \in DOMAIN backlog' : backlog'[i] = backlog'[j] => i = j
  BY <1>1, Zenon
<1> QED
  BY <1>4, <1>5, <1>6, <1>7, <1>8, <1>9, Zenon DEF IdInv

\* The strands of connections that a step leaves alone.
LEMMA StrandStays ==
  ASSUME StrandInv, config_' = config_, Open' \subseteq Open, Jobs' \subseteq Jobs,
         Orderly(jobs', running', completions_', ran'),
         \A g \in Open' : connections_'[g] = connections_[g],
         \A g \in Open' : \A job \in Jobs : job.client = connections_[g].client => job \in Jobs',
         \A g \in Open' : (\A job \in Jobs : job.client # connections_[g].client)
                             => ran'[connections_[g].client] = ran[connections_[g].client]
  PROVE  StrandInv'
<1>1. ASSUME NEW g \in Open'
      PROVE  StrandOf(connections_'[g], Jobs', ran') /\ ReplyOf(connections_[g])'
  <2> DEFINE c == connections_[g]
  <2>1. StrandOf(c, Jobs, ran) /\ ReplyOf(c) /\ connections_'[g] = c
    BY Zenon DEF StrandInv
  <2>2. /\ \A job \in Jobs : job.client = c.client => job \in Jobs'
        /\ (\A job \in Jobs : job.client # c.client) => ran'[c.client] = ran[c.client]
    BY Zenon
  <2> HIDE DEF c
  <2>3. \A job \in Jobs' : job.client = c.client => job \in Jobs
    BY Zenon
  <2>4. StrandOf(c, Jobs', ran')
    BY <2>1, <2>2, <2>3, OtherStrand, Zenon
  <2> QED
    BY <2>1, <2>4, Zenon DEF ReplyOf
<1> QED
  BY <1>1, Zenon DEF StrandInv

\* Nothing but the clients' ends of the sockets and the events changes.
SocketsOnly ==
  /\ UNCHANGED <<connections_, next_connection_id_, pool, backlog, config_>>
  /\ sock' \in [Clients -> Socket] /\ edges' \in [Fds \cup {Listener} -> SUBSET Interests]
  /\ \A m \in Clients : sock'[m].state = sock[m].state /\ sock'[m].sent = sock[m].sent

\* A step of a client, or of the kernel, keeps the invariant.
LEMMA SocketsOnlyKeeps ==
  ASSUME TypeInv, IdInv, StrandInv, SocketsOnly
  PROVE  CoreType' /\ IdInv' /\ StrandInv'
<1>1. /\ config_' = config_ /\ connections_' = connections_ /\ backlog' = backlog
      /\ next_connection_id_' = next_connection_id_ /\ jobs' = jobs /\ running' = running
      /\ completions_' = completions_ /\ ran' = ran
      /\ sock' \in [Clients -> Socket] /\ edges' \in [Fds \cup {Listener} -> SUBSET Interests]
      /\ \A m \in Clients : sock'[m].state = sock[m].state /\ sock'[m].sent = sock[m].sent
  BY Zenon DEF SocketsOnly, pool
<1>2. Open' = Open /\ Jobs' = Jobs /\ Connection' = Connection /\ Socket' = Socket
  BY <1>1, Zenon DEF Open, Jobs, JobsIn, Connection, Socket
<1>3. CoreType'
  BY <1>1, <1>2, Zenon DEF CoreType, TypeInv
<1>4. \A g \in Open : /\ sock[connections_[g].client].state = "accepted"
                      /\ connections_[g].client \in Clients
  BY OpenFacts, Zenon DEF IdInv
<1>5. IdInv'
  BY <1>1, <1>2, <1>4, IdStays, Zenon
<1>6. Orderly(jobs', running', completions_', ran')
  BY <1>1, Zenon DEF StrandInv
<1>7. StrandInv'
  BY <1>1, <1>2, <1>6, StrandStays, Zenon
<1> QED
  BY <1>3, <1>5, <1>7, Zenon

\* Some connections are closed at once.
CloseAll(S) ==
  /\ connections_' = [fd \in Fds |-> IF fd \in S THEN NoConnection ELSE connections_[fd]]
  /\ sock' = [m \in Clients |-> IF \E fd \in S : connections_[fd].client = m
                                THEN [sock[m] EXCEPT !.state = "closed"] ELSE sock[m]]
  /\ edges' \in [Fds \cup {Listener} -> SUBSET Interests]
  /\ UNCHANGED <<next_connection_id_, pool, backlog, config_>>

\* Closing some connections keeps the invariant of the others.
LEMMA CloseAllKeeps ==
  ASSUME TypeInv, IdInv, StrandInv, NEW S \in SUBSET Open, CloseAll(S)
  PROVE  /\ CoreType' /\ IdInv' /\ StrandInv' /\ Open' = Open \ S
         /\ \A g \in Open' : /\ connections_'[g] = connections_[g]
                             /\ sock'[connections_[g].client] = sock[connections_[g].client]
         /\ \A m \in Clients : sock'[m].sent = sock[m].sent
<1>1. /\ connections_ \in [Fds -> Connection \cup {NoConnection}] /\ sock \in [Clients -> Socket]
  BY Zenon DEF TypeInv, CoreType
<1>2. /\ config_' = config_ /\ backlog' = backlog
      /\ next_connection_id_' = next_connection_id_ /\ jobs' = jobs /\ running' = running
      /\ completions_' = completions_ /\ ran' = ran
      /\ edges' \in [Fds \cup {Listener} -> SUBSET Interests]
  BY Zenon DEF CloseAll, pool
<1>3. /\ connections_' \in [Fds -> Connection \cup {NoConnection}]
      /\ \A g \in Fds : connections_'[g] = IF g \in S THEN NoConnection ELSE connections_[g]
  BY <1>1, Zenon DEF CloseAll
<1>4. Open' = Open \ S
  BY <1>3, Zenon DEF Open
<1>5. ASSUME NEW m \in Clients
      PROVE  LET t == [sock[m] EXCEPT !.state = "closed"]
             IN  t \in Socket /\ t.state = "closed" /\ t.sent = sock[m].sent
  BY <1>1, Zenon DEF Socket
<1>6. ASSUME NEW m \in Clients
      PROVE  sock'[m] = IF \E fd \in S : connections_[fd].client = m
                        THEN [sock[m] EXCEPT !.state = "closed"] ELSE sock[m]
  BY Zenon DEF CloseAll
<1>7. sock' \in [Clients -> Socket]
  <2>1. \A m \in Clients : sock[m] \in Socket /\ [sock[m] EXCEPT !.state = "closed"] \in Socket
    BY <1>1, <1>5, Zenon
  <2> QED
    BY <2>1, Zenon DEF CloseAll
<1>8. \A m \in Clients : /\ sock'[m].sent = sock[m].sent
                         /\ \/ sock'[m] = sock[m]
                            \/ sock'[m].state = "closed" /\ \E fd \in S : connections_[fd].client = m
  BY <1>5, <1>6, Zenon
<1>9. \A g \in Open : /\ sock[connections_[g].client].state = "accepted"
                      /\ connections_[g].client \in Clients
  BY OpenFacts, Zenon DEF IdInv
<1>10. \A g \in Open' : /\ connections_'[g] = connections_[g]
                        /\ sock'[connections_[g].client] = sock[connections_[g].client]
  <2>1. ASSUME NEW g \in Open' PROVE sock'[connections_[g].client] = sock[connections_[g].client]
    <3>1. \A fd \in S : connections_[fd].client # connections_[g].client
      <4>1. \A fd, h \in Open : connections_[fd].client = connections_[h].client => fd = h
        BY Zenon DEF IdInv
      <4> QED
        BY <1>4, <4>1, Zenon
    <3> QED
      BY <1>4, <1>6, <1>9, <3>1, Zenon
  <2>2. ASSUME NEW g \in Open' PROVE connections_'[g] = connections_[g]
    BY <1>3, <1>4, Zenon DEF Open
  <2> QED
    BY <2>1, <2>2, Zenon
<1>11. Jobs' = Jobs /\ Connection' = Connection /\ Socket' = Socket
  BY <1>2, Zenon DEF Jobs, JobsIn, Connection, Socket
<1>12. CoreType'
  BY <1>2, <1>3, <1>7, <1>11, Zenon DEF CoreType, TypeInv
<1>13. IdInv'
  <2>1. \A g \in Open' : sock'[connections_[g].client].state = "accepted"
    BY <1>4, <1>9, <1>10, Zenon
  <2>2. ASSUME NEW m \in Clients
        PROVE  \/ sock'[m].state = sock[m].state /\ sock'[m].sent = sock[m].sent
               \/ sock[m].state = "accepted" /\ sock'[m].state = "closed"
    <3>1. CASE sock'[m] = sock[m]
      BY <3>1, Zenon
    <3>2. ASSUME sock'[m].state = "closed", NEW fd \in S, connections_[fd].client = m
          PROVE  sock[m].state = "accepted" /\ sock'[m].state = "closed"
      <4>1. fd \in Open
        BY Zenon
      <4>2. sock[connections_[fd].client].state = "accepted"
        BY <1>9, <4>1, Zenon
      <4> QED
        BY <3>2, <4>2, Zenon
    <3> QED
      BY <1>8, <3>1, <3>2, Zenon
  <2> HIDE DEF CloseAll
  <2> QED
    BY <1>2, <1>4, <1>10, <1>11, <2>1, <2>2, IdStays, Zenon
<1>14. Orderly(jobs', running', completions_', ran')
  BY <1>2, Zenon DEF StrandInv
<1>15. StrandInv'
  BY <1>2, <1>4, <1>10, <1>11, <1>14, StrandStays, Zenon
<1> QED
  BY <1>4, <1>8, <1>10, <1>12, <1>13, <1>15, Zenon

\* A worker takes a job, or has run it; a completion finds no connection.
WorkerStep ==
  /\ \/ TakeJob \/ \E job \in running : RunJob(job)
     \/ /\ completions_ # <<>> /\ Owner(Head(completions_)) = {}
        /\ completions_' = Tail(completions_)
        /\ UNCHANGED <<conns, jobs, running, ran, next_connection_id_, backlog>>
  /\ config_' = config_

\* A worker that takes a job, or finishes one, keeps the invariant.
LEMMA WorkerStepKeeps ==
  ASSUME TypeInv, IdInv, StrandInv, WorkerStep
  PROVE  /\ CoreType' /\ IdInv' /\ StrandInv' /\ connections_' = connections_ /\ sock' = sock
         /\ edges' = edges /\ \A m \in Clients : Len(ran'[m]) >= Len(ran[m])
<1>1. /\ jobs \in Seq(Job) /\ running \in SUBSET Job /\ completions_ \in Seq(Job)
      /\ ran \in [Clients -> Seq(Nat)] /\ Orderly(jobs, running, completions_, ran)
      /\ Len(jobs) <= config_.worker_queue_limit /\ config_.worker_queue_limit \in Nat
  BY Constants, Zenon DEF TypeInv, CoreType, StrandInv
<1>2. /\ config_' = config_ /\ connections_' = connections_ /\ backlog' = backlog
      /\ next_connection_id_' = next_connection_id_ /\ sock' = sock /\ edges' = edges
  BY Zenon DEF WorkerStep, TakeJob, RunJob, conns, accepting
<1>3. Open' = Open /\ Connection' = Connection /\ Socket' = Socket
  BY <1>2, Zenon DEF Open, Connection, Socket
<1>4. /\ jobs' \in Seq(Job) /\ running' \in SUBSET Job /\ completions_' \in Seq(Job)
      /\ ran' \in [Clients -> Seq(Nat)] /\ Len(jobs') <= config_.worker_queue_limit
      /\ Orderly(jobs', running', completions_', ran') /\ Jobs' \subseteq Jobs
      /\ \A g \in Open : \A job \in Jobs : job.client = connections_[g].client => job \in Jobs'
      /\ \A m \in Clients : (\A job \in Jobs : job.client # m) => ran'[m] = ran[m]
      /\ \A m \in Clients : Len(ran'[m]) >= Len(ran[m])
  <2>1. \A m \in Clients : Len(ran[m]) >= Len(ran[m])
    <3>1. \A m \in Clients : Len(ran[m]) \in Nat
      BY <1>1
    <3> QED
      BY <3>1
  <2>2. CASE TakeJob
    <3>1. /\ jobs # <<>> /\ running' = running \cup {Head(jobs)} /\ jobs' = Tail(jobs)
          /\ completions_' = completions_ /\ ran' = ran
      BY <2>2, Zenon DEF TakeJob
    <3>2. Tail(jobs) \in Seq(Job) /\ Len(Tail(jobs)) <= config_.worker_queue_limit /\ Head(jobs) \in Job
      BY <1>1, <3>1, TailFacts
    <3>3. /\ Orderly(Tail(jobs), running \cup {Head(jobs)}, completions_, ran)
          /\ JobsIn(Tail(jobs), running \cup {Head(jobs)}, completions_) = Jobs
      BY <1>1, <3>1, PoolTake, ZenonT(30) DEF Jobs
    <3>4. Jobs' = Jobs
      BY <3>1, <3>3, Zenon DEF Jobs
    <3> QED
      BY <1>1, <2>1, <3>1, <3>2, <3>3, <3>4, Zenon
  <2>3. ASSUME NEW job \in running, RunJob(job)
        PROVE  /\ jobs' \in Seq(Job) /\ running' \in SUBSET Job /\ completions_' \in Seq(Job)
               /\ ran' \in [Clients -> Seq(Nat)] /\ Len(jobs') <= config_.worker_queue_limit
               /\ Orderly(jobs', running', completions_', ran') /\ Jobs' = Jobs
               /\ \A m \in Clients : (\A a \in Jobs : a.client # m) => ran'[m] = ran[m]
               /\ \A m \in Clients : Len(ran'[m]) >= Len(ran[m])
    <3> DEFINE rn == [ran EXCEPT ![job.client] = Append(ran[job.client], job.seq)]
    <3>1. /\ running' = running \ {job} /\ completions_' = Append(completions_, job) /\ jobs' = jobs
          /\ ran' = rn
      BY <2>3, Zenon DEF RunJob
    <3>2. job \in Job /\ job.client \in Clients /\ job.seq \in Nat /\ job \in Jobs
      <4>1. job \in Job /\ job \in Jobs
        BY <1>1, Zenon DEF Jobs, JobsIn
      <4> QED
        BY <4>1, Zenon DEF Job
    <3>3. /\ rn \in [Clients -> Seq(Nat)] /\ \A m \in Clients : m # job.client => rn[m] = ran[m]
          /\ rn[job.client] = Append(ran[job.client], job.seq)
      BY <1>1, <3>2
    <3>4. /\ Orderly(jobs, running \ {job}, Append(completions_, job), rn)
          /\ JobsIn(jobs, running \ {job}, Append(completions_, job)) = Jobs
      BY <1>1, PoolRun, Zenon DEF Jobs
    <3>5. Append(completions_, job) \in Seq(Job)
      BY <1>1, <3>2, JobAppend, Zenon
    <3> HIDE DEF rn
    <3>6. ASSUME NEW m \in Clients PROVE Len(rn[m]) >= Len(ran[m])
      <4>1. CASE m = job.client
        <5>1. ran[job.client] \in Seq(Nat)
          BY <1>1, <3>2, Zenon
        <5>2. Len(Append(ran[job.client], job.seq)) >= Len(ran[job.client])
          BY <3>2, <5>1
        <5> QED
          BY <3>3, <4>1, <5>2, Zenon
      <4>2. CASE m # job.client
        BY <2>1, <3>3, <4>2, Zenon
      <4> QED
        BY <4>1, <4>2, Zenon
    <3>7. Jobs' = Jobs
      BY <3>1, <3>4, Zenon DEF Jobs
    <3>8. \A m \in Clients : (\A a \in Jobs : a.client # m) => rn[m] = ran[m]
      BY <3>2, <3>3, Zenon
    <3> QED
      BY <1>1, <3>1, <3>3, <3>4, <3>5, <3>6, <3>7, <3>8, Zenon
  <2>4. CASE /\ completions_ # <<>> /\ Owner(Head(completions_)) = {}
             /\ completions_' = Tail(completions_) /\ UNCHANGED <<jobs, running, ran>>
    <3> DEFINE done == Head(completions_)
    <3>1. /\ completions_ # <<>> /\ Owner(done) = {} /\ completions_' = Tail(completions_)
          /\ jobs' = jobs /\ running' = running /\ ran' = ran
      BY <2>4, Zenon
    <3>2. Tail(completions_) \in Seq(Job) /\ done \in Range(completions_)
      BY <1>1, <3>1, TailFacts, Zenon
    <3>3. /\ Orderly(jobs, running, Tail(completions_), ran)
          /\ JobsIn(jobs, running, Tail(completions_)) = Jobs \ {done}
      BY <1>1, <3>1, PoolDone, Zenon DEF Jobs
    <3>4. done \in Jobs
      BY <3>2, Zenon DEF Jobs, JobsIn
    <3> HIDE DEF done
    <3>5. \A g \in Open : connections_[g].client # done.client
      <4>1. \A g \in Open : connections_[g].id # done.id
        BY <3>1, Zenon DEF Owner
      <4> QED
        BY <3>4, <4>1, Zenon DEF IdInv
    <3>6. Jobs' = Jobs \ {done}
      BY <3>1, <3>3, Zenon DEF Jobs
    <3> QED
      BY <1>1, <2>1, <3>1, <3>2, <3>3, <3>5, <3>6, Zenon
  <2> QED
    BY <2>2, <2>3, <2>4, Zenon DEF WorkerStep
<1>5. CoreType'
  BY <1>2, <1>3, <1>4, Zenon DEF CoreType, TypeInv
<1>6. \A g \in Open : /\ sock[connections_[g].client].state = "accepted"
                      /\ connections_[g].client \in Clients
  BY OpenFacts, Zenon DEF IdInv
<1>7. IdInv'
  <2>1. \A m \in Clients : sock[m].state \in {"new", "backlog"} => ran'[m] = ran[m]
    <3>1. ASSUME NEW m \in Clients, sock[m].state \in {"new", "backlog"} PROVE ran'[m] = ran[m]
      <4>1. \A job \in Jobs : sock[job.client].state \in {"accepted", "closed"}
        BY Zenon DEF IdInv
      <4>2. \A job \in Jobs : job.client # m
        BY <3>1, <4>1, Zenon
      <4> QED
        BY <1>4, <4>2, Zenon
    <3> QED
      BY <3>1, Zenon
  <2> QED
    BY <1>2, <1>3, <1>4, <1>6, <2>1, IdStays, Zenon
<1>8. StrandInv'
  BY <1>2, <1>3, <1>4, <1>6, StrandStays, Zenon
<1> QED
  BY <1>2, <1>4, <1>5, <1>7, <1>8, Zenon

\* A new connection.
AcceptStep(fd) ==
  LET n == Head(backlog)
  IN  /\ backlog # <<>> /\ fd \in Fds \ Open
      /\ connections_' = [connections_ EXCEPT ![fd] = NewConnection(next_connection_id_, n)]
      /\ next_connection_id_' = next_connection_id_ + 1
      /\ edges' = [edges EXCEPT ![fd] = {i \in {"read"} : IsReady(sock[n], i)}]
      /\ sock' = [sock EXCEPT ![n].state = "accepted"]
      /\ backlog' = Tail(backlog)
      /\ UNCHANGED <<pool, config_>>

\* A connection as accept_ready makes it.
LEMMA NewFacts ==
  ASSUME NEW id \in Nat \ {0}, NEW n \in Clients
  PROVE  LET c == NewConnection(id, n)
         IN  /\ c \in Connection /\ c.id = id /\ c.client = n /\ c.output = <<>> /\ ~c.closing
             /\ c.interest = {"read"} /\ c.next_response_seq = 0 /\ c.next_request_seq = 0
             /\ c.command_queue = <<>> /\ c.inflight = 0 /\ ~c.strand_running
             /\ c.pending_responses = {}
<1> DEFINE c == NewConnection(id, n)
<1>1. /\ <<>> \in Seq(config_.messages) /\ <<>> \in Seq(Nat) /\ <<>> \in Seq(ReplyType)
      /\ 0 \in Nat /\ {"read"} \in SUBSET Interests /\ {} \in SUBSET Nat /\ FALSE \in BOOLEAN
  BY DEF Interests
<1>2. c = [id |-> id, client |-> n, parser |-> <<>>, interest |-> {"read"},
           read_closed |-> FALSE, closing |-> FALSE, inflight |-> 0,
           command_queue |-> <<>>, strand_running |-> FALSE,
           pending_responses |-> {}, next_request_seq |-> 0,
           next_response_seq |-> 0, output |-> <<>>]
  BY Zenon DEF NewConnection
<1> HIDE DEF c
<1>3. c \in Connection
  BY <1>1, <1>2, Zenon DEF Connection
<1>4. /\ c.id = id /\ c.client = n /\ c.output = <<>> /\ c.closing = FALSE
      /\ c.interest = {"read"} /\ c.next_response_seq = 0 /\ c.next_request_seq = 0
      /\ c.command_queue = <<>> /\ c.inflight = 0 /\ c.strand_running = FALSE
      /\ c.pending_responses = {}
  BY <1>2, Zenon
<1> QED
  BY <1>3, <1>4, Zenon DEF c

\* What accept_ready changes.
LEMMA AcceptFacts ==
  ASSUME TypeInv, NEW fd, AcceptStep(fd)
  PROVE  LET n == Head(backlog)
             c == NewConnection(next_connection_id_, n)
         IN  /\ CoreType' /\ n \in Clients /\ fd \in Fds /\ fd \notin Open /\ c \in Connection
             /\ Open' = Open \cup {fd} /\ connections_'[fd] = c
             /\ \A g \in Open : connections_'[g] = connections_[g]
             /\ sock'[n].state = "accepted" /\ sock'[n].sent = sock[n].sent
             /\ sock'[n].unread = sock[n].unread
             /\ \A m \in Clients \ {n} : sock'[m] = sock[m]
             /\ \A g \in Open : edges'[g] = edges[g]
             /\ Jobs' = Jobs /\ jobs' = jobs /\ running' = running
             /\ completions_' = completions_ /\ ran' = ran /\ config_' = config_
<1> DEFINE n == Head(backlog)
           c == NewConnection(next_connection_id_, n)
           t == [sock[n] EXCEPT !.state = "accepted"]
           e == {i \in {"read"} : IsReady(sock[n], i)}
<1>1. /\ connections_ \in [Fds -> Connection \cup {NoConnection}]
      /\ next_connection_id_ \in Nat \ {0} /\ backlog \in Seq(Clients)
      /\ edges \in [Fds \cup {Listener} -> SUBSET Interests] /\ sock \in [Clients -> Socket]
  BY Zenon DEF TypeInv, CoreType
<1>2. /\ backlog # <<>> /\ fd \in Fds /\ fd \notin Open
      /\ connections_' = [connections_ EXCEPT ![fd] = c]
      /\ next_connection_id_' = next_connection_id_ + 1
      /\ edges' = [edges EXCEPT ![fd] = e] /\ backlog' = Tail(backlog)
      /\ jobs' = jobs /\ running' = running
      /\ completions_' = completions_ /\ ran' = ran /\ config_' = config_
  BY Zenon DEF AcceptStep, pool
<1>3. n \in Clients /\ Tail(backlog) \in Seq(Clients)
  BY <1>1, <1>2, TailFacts, Zenon
<1>4. sock' = [sock EXCEPT ![n] = t]
  BY <1>1, <1>3, Zenon DEF AcceptStep
<1>5. t \in Socket /\ t.state = "accepted" /\ t.sent = sock[n].sent /\ t.unread = sock[n].unread
  BY <1>1, <1>3, Zenon DEF Socket
<1>6. c \in Connection
  BY <1>1, <1>3, NewFacts, Zenon
<1>7. e \subseteq Interests
  BY Zenon DEF Interests
<1> HIDE DEF n, c, t, e
<1>8. NoConnection \notin Connection
  <2>1. \A x \in Connection : x.id # 0
    BY ConnectionFields, Zenon
  <2>2. NoConnection.id = 0
    BY Zenon DEF NoConnection
  <2> QED
    BY <2>1, <2>2, Zenon
<1>9. /\ connections_' \in [Fds -> Connection \cup {NoConnection}] /\ connections_'[fd] = c
      /\ \A g \in Fds : g # fd => connections_'[g] = connections_[g]
      /\ sock' \in [Clients -> Socket] /\ sock'[n] = t
      /\ \A m \in Clients \ {n} : sock'[m] = sock[m]
      /\ edges' \in [Fds \cup {Listener} -> SUBSET Interests]
      /\ \A g \in Fds : g # fd => edges'[g] = edges[g]
      /\ next_connection_id_' \in Nat \ {0}
  BY <1>1, <1>2, <1>3, <1>4, <1>5, <1>6, <1>7, SMTT(30)
<1>10. Open' = Open \cup {fd}
  BY <1>2, <1>6, <1>8, <1>9, Zenon DEF Open
<1>11. Jobs' = Jobs /\ Connection' = Connection /\ Socket' = Socket
  BY <1>2, Zenon DEF Jobs, JobsIn, Connection, Socket
<1>12. CoreType'
  BY <1>2, <1>3, <1>9, <1>11, Zenon DEF CoreType, TypeInv
<1>13. \A g \in Open : g \in Fds /\ g # fd
  BY <1>2, Zenon DEF Open
<1> QED
  BY <1>2, <1>3, <1>5, <1>6, <1>9, <1>10, <1>11, <1>12, <1>13, Zenon DEF n, c

\* A new connection keeps the invariant: its id is fresh, its client had no other.
LEMMA AcceptKeeps ==
  ASSUME TypeInv, IdInv, StrandInv, NEW fd, AcceptStep(fd)
  PROVE  IdInv' /\ StrandInv'
<1> DEFINE n == Head(backlog)
           c == NewConnection(next_connection_id_, n)
<1>1. /\ CoreType' /\ n \in Clients /\ fd \in Fds /\ fd \notin Open /\ c \in Connection
      /\ Open' = Open \cup {fd} /\ connections_'[fd] = c
      /\ \A g \in Open : connections_'[g] = connections_[g]
      /\ sock'[n].state = "accepted" /\ sock'[n].sent = sock[n].sent
      /\ \A m \in Clients \ {n} : sock'[m] = sock[m]
      /\ Jobs' = Jobs /\ jobs' = jobs /\ running' = running
      /\ completions_' = completions_ /\ ran' = ran /\ config_' = config_
  BY AcceptFacts, Zenon
<1>2. /\ backlog # <<>> /\ backlog' = Tail(backlog) /\ backlog \in Seq(Clients)
      /\ next_connection_id_' = next_connection_id_ + 1 /\ next_connection_id_ \in Nat \ {0}
  BY Zenon DEF AcceptStep, TypeInv, CoreType
<1>3. /\ c.id = next_connection_id_ /\ c.client = n /\ c.output = <<>> /\ ~c.closing
      /\ c.next_response_seq = 0 /\ c.next_request_seq = 0
      /\ c.command_queue = <<>> /\ c.inflight = 0 /\ ~c.strand_running
      /\ c.pending_responses = {}
  BY <1>1, <1>2, NewFacts, Zenon
<1>4. /\ DOMAIN Tail(backlog) = 1 .. Len(backlog) - 1 /\ DOMAIN backlog = 1 .. Len(backlog)
      /\ \A i \in 1 .. Len(backlog) - 1 : Tail(backlog)[i] = backlog[i + 1]
      /\ n = backlog[1] /\ Len(backlog) \in Nat \ {0}
      /\ \A i \in DOMAIN backlog : backlog[i] \in Clients
  BY <1>2, TailFacts, RangeFacts, Zenon
<1>5. /\ \A g \in Open : connections_[g].id < next_connection_id_
      /\ \A g \in Open : sock[connections_[g].client].state = "accepted"
      /\ \A g, h \in Open : connections_[g].client = connections_[h].client => g = h
      /\ \A g, h \in Open : connections_[g].id = connections_[h].id => g = h
      /\ \A i \in DOMAIN backlog : sock[backlog[i]].state = "backlog"
      /\ \A i, j \in DOMAIN backlog : backlog[i] = backlog[j] => i = j
      /\ \A job \in Jobs : /\ job.id < next_connection_id_
                           /\ sock[job.client].state \in {"accepted", "closed"}
      /\ \A job \in Jobs : \A g \in Open :
           connections_[g].id = job.id <=> connections_[g].client = job.client
      /\ \A m \in Clients : sock[m].state \in {"new", "backlog"} => ran[m] = <<>> /\ sock[m].sent = <<>>
  BY Zenon DEF IdInv
<1> HIDE DEF n, c
<1>6. sock[n].state = "backlog"
  <2>1. 1 \in DOMAIN backlog
    BY <1>4
  <2> QED
    BY <1>4, <1>5, <2>1, Zenon
<1>7. ran[n] = <<>> /\ sock[n].sent = <<>>
  BY <1>1, <1>5, <1>6, Zenon
<1>8. \A g \in Open : /\ connections_[g].client # n /\ connections_[g].client \in Clients
                      /\ connections_[g].id # next_connection_id_
                      /\ connections_[g].id \in Nat
  <2>1. ASSUME NEW g \in Open
        PROVE  /\ connections_[g].client # n /\ connections_[g].client \in Clients
               /\ connections_[g].id # next_connection_id_ /\ connections_[g].id \in Nat
    <3>1. connections_[g].client \in Clients /\ connections_[g] \in Connection
      BY OpenFacts, Zenon
    <3>2. connections_[g].id \in Nat
      BY <3>1, ConnectionFields, Zenon
    <3>3. connections_[g].id < next_connection_id_ /\ sock[connections_[g].client].state = "accepted"
      BY <1>5, Zenon
    <3>4. connections_[g].id # next_connection_id_
      BY <1>2, <3>2, <3>3
    <3>5. connections_[g].client # n
      BY <1>6, <3>3, Zenon
    <3> QED
      BY <3>1, <3>2, <3>4, <3>5, Zenon
  <2> QED
    BY <2>1, Zenon
<1>9. \A job \in Jobs : /\ job.client # n /\ job.client \in Clients /\ job.id # next_connection_id_
                        /\ job.id \in Nat
  <2>1. ASSUME NEW job \in Jobs
        PROVE  /\ job.client # n /\ job.client \in Clients /\ job.id # next_connection_id_
               /\ job.id \in Nat
    <3>1. jobs \in Seq(Job) /\ running \in SUBSET Job /\ completions_ \in Seq(Job)
      BY Zenon DEF TypeInv, CoreType
    <3>2. job \in Job
      BY <3>1, RangeFacts, Zenon DEF Jobs, JobsIn
    <3>3. job.client \in Clients /\ job.id \in Nat
      BY <3>2, Zenon DEF Job
    <3>4. job.id < next_connection_id_ /\ sock[job.client].state \in {"accepted", "closed"}
      BY <1>5, Zenon
    <3>5. job.id # next_connection_id_
      BY <1>2, <3>3, <3>4
    <3>6. job.client # n
      BY <1>6, <3>4, Zenon
    <3> QED
      BY <3>3, <3>5, <3>6, Zenon
  <2> QED
    BY <2>1, Zenon
<1>10. IdInv'
  <2>1. ASSUME NEW g \in Open'
        PROVE  /\ connections_'[g].id < next_connection_id_'
               /\ sock'[connections_'[g].client].state = "accepted"
    <3>1. CASE g = fd
      <4>1. next_connection_id_ < next_connection_id_ + 1
        BY <1>2
      <4> QED
        BY <1>1, <1>2, <1>3, <3>1, <4>1, Zenon
    <3>2. CASE g \in Open
      <4>1. connections_'[g] = connections_[g] /\ connections_[g].client \in Clients \ {n}
        BY <1>1, <1>8, <3>2, Zenon
      <4>2. connections_[g].id < next_connection_id_ /\ sock[connections_[g].client].state = "accepted"
        BY <1>5, <3>2, Zenon
      <4>3. connections_[g].id < next_connection_id_ + 1
        BY <1>2, <1>8, <3>2, <4>2
      <4> QED
        BY <1>1, <1>2, <4>1, <4>2, <4>3, Zenon
    <3> QED
      BY <1>1, <3>1, <3>2, Zenon
  <2>2. ASSUME NEW g \in Open', NEW h \in Open',
               connections_'[g].client = connections_'[h].client \/ connections_'[g].id = connections_'[h].id
        PROVE  g = h
    <3>1. CASE g \in Open /\ h \in Open
      <4>1. connections_'[g] = connections_[g] /\ connections_'[h] = connections_[h]
        BY <1>1, <3>1, Zenon
      <4>2. connections_[g].client = connections_[h].client => g = h
        BY <1>5, <3>1, Zenon
      <4>3. connections_[g].id = connections_[h].id => g = h
        BY <1>5, <3>1, Zenon
      <4> QED
        BY <2>2, <4>1, <4>2, <4>3, Zenon
    <3>2. CASE g = fd /\ h \in Open
      BY <1>1, <1>3, <1>8, <2>2, <3>2, Zenon
    <3>3. CASE g \in Open /\ h = fd
      BY <1>1, <1>3, <1>8, <2>2, <3>3, Zenon
    <3> QED
      BY <1>1, <3>1, <3>2, <3>3, Zenon
  <2>3. ASSUME NEW i \in DOMAIN backlog' PROVE sock'[backlog'[i]].state = "backlog"
    <3>1. i + 1 \in DOMAIN backlog /\ i + 1 # 1 /\ 1 \in DOMAIN backlog /\ backlog'[i] = backlog[i + 1]
      BY <1>2, <1>4
    <3>2. backlog[i + 1] # n /\ backlog[i + 1] \in Clients /\ sock[backlog[i + 1]].state = "backlog"
      BY <1>4, <1>5, <3>1, Zenon
    <3> QED
      BY <1>1, <3>1, <3>2, Zenon
  <2>4. ASSUME NEW i \in DOMAIN backlog', NEW j \in DOMAIN backlog', backlog'[i] = backlog'[j]
        PROVE  i = j
    <3>1. /\ i + 1 \in DOMAIN backlog /\ backlog'[i] = backlog[i + 1] /\ i \in Int
          /\ j + 1 \in DOMAIN backlog /\ backlog'[j] = backlog[j + 1] /\ j \in Int
      BY <1>2, <1>4
    <3>a. backlog[i + 1] = backlog[j + 1]
      BY <2>4, <3>1, Zenon
    <3>b. \A a, b \in DOMAIN backlog : backlog[a] = backlog[b] => a = b
      BY <1>5, Zenon
    <3>2. i + 1 = j + 1
      BY <3>1, <3>a, <3>b, Zenon
    <3> QED
      BY <3>1, <3>2
  <2>5. ASSUME NEW a \in Jobs'
        PROVE  /\ a.id < next_connection_id_' /\ sock'[a.client].state \in {"accepted", "closed"}
               /\ \A g \in Open' : connections_'[g].id = a.id <=> connections_'[g].client = a.client
    <3>1. /\ a \in Jobs /\ a.client \in Clients \ {n} /\ a.id # next_connection_id_ /\ a.id \in Nat
          /\ a.id < next_connection_id_ /\ sock[a.client].state \in {"accepted", "closed"}
      BY <1>1, <1>5, <1>9, Zenon
    <3>2. a.id < next_connection_id_'
      BY <1>2, <3>1
    <3>3. sock'[a.client].state \in {"accepted", "closed"}
      BY <1>1, <3>1, Zenon
    <3>4. ASSUME NEW g \in Open' PROVE connections_'[g].id = a.id <=> connections_'[g].client = a.client
      <4>1. CASE g = fd
        BY <1>1, <1>3, <3>1, <4>1, Zenon
      <4>2. CASE g \in Open
        <5>1. connections_'[g] = connections_[g]
          BY <1>1, <4>2, Zenon
        <5>2. connections_[g].id = a.id <=> connections_[g].client = a.client
          BY <1>5, <3>1, <4>2, Zenon
        <5> QED
          BY <5>1, <5>2, Zenon
      <4> QED
        BY <1>1, <4>1, <4>2, Zenon
    <3> QED
      BY <3>2, <3>3, <3>4, Zenon
  <2>6. ASSUME NEW m \in Clients, sock'[m].state \in {"new", "backlog"}
        PROVE  ran'[m] = <<>> /\ sock'[m].sent = <<>>
    <3>1. m # n
      BY <1>1, <2>6, Zenon
    <3> QED
      <4>1. sock'[m] = sock[m] /\ ran' = ran
        BY <1>1, <3>1, Zenon
      <4>2. sock[m].state \in {"new", "backlog"}
        BY <2>6, <4>1, Zenon
      <4>3. ran[m] = <<>> /\ sock[m].sent = <<>>
        BY <1>5, <4>2, Zenon
      <4> QED
        BY <4>1, <4>3, Zenon
  <2> QED
    BY <2>1, <2>2, <2>3, <2>4, <2>5, <2>6, Zenon DEF IdInv
<1>11. StrandInv'
  <2>1. Orderly(jobs', running', completions_', ran')
    BY <1>1, Zenon DEF StrandInv
  <2>2. ASSUME NEW g \in Open'
        PROVE  StrandOf(connections_'[g], Jobs', ran') /\ ReplyOf(connections_[g])'
    <3>1. CASE g = fd
      <4>1. Launched(c) = 0 /\ Applied(c) = 0
        <5>1. Len(<<>>) = 0 /\ 0 - 0 = 0
          OBVIOUS
        <5>2. Launched(c) = 0 - Len(<<>>)
          BY <1>3, Zenon DEF Launched
        <5>3. Launched(c) = 0
          BY <5>1, <5>2, Zenon
        <5> QED
          BY <1>3, <5>3, Zenon DEF Applied
      <4>2. QueueOf(c)
        <5>1. Len(<<>>) <= 0 /\ DOMAIN <<>> = {}
          OBVIOUS
        <5> QED
          BY <1>3, <5>1, Zenon DEF QueueOf
      <4>3. Len(ran[n]) = 0
        BY <1>7
      <4>4. StrandOf(c, Jobs, ran)
        BY <1>3, <1>9, <4>2, <4>3, Zenon DEF StrandOf
      <4>5. config_.max_output_buffer \in Nat \ {0}
        BY Constants, Zenon
      <4>6. Len(<<>>) <= config_.max_output_buffer + 1 /\ Len(<<>>) <= config_.max_output_buffer /\ 0 <= 0
        BY <4>5
      <4>7. ReplyOf(c)
        BY <1>3, <4>1, <4>6, Zenon DEF ReplyOf
      <4> QED
        BY <1>1, <3>1, <4>4, <4>7, Zenon DEF ReplyOf
    <3>2. CASE g \in Open
      BY <1>1, <3>2, Zenon DEF StrandInv, ReplyOf
    <3> QED
      BY <1>1, <3>1, <3>2, Zenon
  <2> QED
    BY <2>1, <2>2, Zenon DEF StrandInv
<1> QED
  BY <1>10, <1>11, Zenon

\* A client that connects joins the backlog.
LEMMA ConnectKeeps ==
  ASSUME TypeInv, IdInv, StrandInv, NEW n \in Clients, Connect(n), config_' = config_
  PROVE  /\ CoreType' /\ IdInv' /\ StrandInv' /\ Open' = Open /\ connections_' = connections_
         /\ ran' = ran /\ \A g \in Fds : edges'[g] = edges[g]
         /\ \A m \in Clients : sock'[m].sent = sock[m].sent /\ sock'[m].unread = sock[m].unread
<1> DEFINE t == [sock[n] EXCEPT !.state = "backlog"]
<1>1. /\ sock \in [Clients -> Socket] /\ backlog \in Seq(Clients)
      /\ edges \in [Fds \cup {Listener} -> SUBSET Interests] /\ Listener \notin Fds
  BY Constants, Zenon DEF TypeInv, CoreType
<1>2. /\ sock[n].state = "new" /\ backlog' = Append(backlog, n)
      /\ edges' = [edges EXCEPT ![Listener] = {"read"}] /\ connections_' = connections_
      /\ next_connection_id_' = next_connection_id_ /\ jobs' = jobs /\ running' = running
      /\ completions_' = completions_ /\ ran' = ran
  BY Zenon DEF Connect, pool
<1>3. sock' = [sock EXCEPT ![n] = t]
  BY <1>1, Zenon DEF Connect
<1>4. t \in Socket /\ t.state = "backlog" /\ t.sent = sock[n].sent /\ t.unread = sock[n].unread
  BY <1>1, Zenon DEF Socket
<1> HIDE DEF t
<1>5. /\ sock' \in [Clients -> Socket] /\ sock'[n] = t
      /\ \A m \in Clients \ {n} : sock'[m] = sock[m]
      /\ edges' \in [Fds \cup {Listener} -> SUBSET Interests]
      /\ \A g \in Fds : edges'[g] = edges[g]
  <2>1. {"read"} \subseteq Interests
    BY Zenon DEF Interests
  <2> QED
    BY <1>1, <1>2, <1>3, <1>4, <2>1, Zenon
<1>6. /\ Append(backlog, n) \in Seq(Clients) /\ DOMAIN Append(backlog, n) = 1 .. Len(backlog) + 1
      /\ \A i \in 1 .. Len(backlog) : Append(backlog, n)[i] = backlog[i]
      /\ Append(backlog, n)[Len(backlog) + 1] = n /\ DOMAIN backlog = 1 .. Len(backlog)
      /\ Len(backlog) \in Nat /\ \A i \in DOMAIN backlog : backlog[i] \in Clients
  BY <1>1, AppendFacts, RangeFacts
<1>7. Open' = Open /\ Jobs' = Jobs /\ Connection' = Connection /\ Socket' = Socket
  BY <1>2, Zenon DEF Open, Jobs, JobsIn, Connection, Socket
<1>8. CoreType'
  BY <1>2, <1>5, <1>6, <1>7, Zenon DEF CoreType, TypeInv
<1>9. \A m \in Clients : sock'[m].sent = sock[m].sent /\ sock'[m].unread = sock[m].unread
  BY <1>4, <1>5, Zenon
<1>10. Orderly(jobs', running', completions_', ran')
  BY <1>2, Zenon DEF StrandInv
<1>11. StrandInv'
  BY <1>2, <1>7, <1>10, StrandStays, Zenon
<1>12. IdInv'
  <2>1. /\ \A g \in Open : /\ connections_[g].id < next_connection_id_
                           /\ sock[connections_[g].client].state = "accepted"
                           /\ connections_[g].client \in Clients
        /\ \A g, h \in Open :
             connections_[g].client = connections_[h].client \/ connections_[g].id = connections_[h].id
               => g = h
    BY OpenFacts, Zenon DEF IdInv
  <2>2. /\ \A i \in DOMAIN backlog : sock[backlog[i]].state = "backlog"
        /\ \A i, j \in DOMAIN backlog : backlog[i] = backlog[j] => i = j
    BY Zenon DEF IdInv
  <2>3. /\ \A job \in Jobs : /\ job.id < next_connection_id_
                             /\ sock[job.client].state \in {"accepted", "closed"}
                             /\ \A g \in Open : connections_[g].id = job.id
                                                   <=> connections_[g].client = job.client
    BY Zenon DEF IdInv
  <2>4. \A m \in Clients : sock[m].state \in {"new", "backlog"} => ran[m] = <<>> /\ sock[m].sent = <<>>
    BY Zenon DEF IdInv
  <2>5. ASSUME NEW m \in Clients, sock[m].state \in {"accepted", "closed", "backlog"}
        PROVE  sock'[m] = sock[m]
    <3>1. m # n
      BY <1>2, <2>5, Zenon
    <3> QED
      BY <1>5, <3>1, Zenon
  <2>6. ASSUME NEW g \in Open'
        PROVE  /\ connections_'[g].id < next_connection_id_'
               /\ sock'[connections_'[g].client].state = "accepted"
    BY <1>2, <1>7, <2>1, <2>5, Zenon
  <2>7. ASSUME NEW i \in DOMAIN backlog' PROVE sock'[backlog'[i]].state = "backlog"
    <3>1. CASE i = Len(backlog) + 1
      BY <1>2, <1>4, <1>5, <1>6, <3>1, Zenon
    <3>2. CASE i \in 1 .. Len(backlog)
      <4>1. backlog'[i] = backlog[i] /\ backlog[i] \in Clients /\ sock[backlog[i]].state = "backlog"
        BY <1>2, <1>6, <2>2, <3>2, Zenon
      <4> QED
        BY <2>5, <4>1, Zenon
    <3> QED
      BY <1>2, <1>6, <3>1, <3>2
  <2>8. ASSUME NEW i \in DOMAIN backlog', NEW j \in DOMAIN backlog', backlog'[i] = backlog'[j]
        PROVE  i = j
    <3>1. \A k \in DOMAIN backlog : backlog[k] # n
      BY <1>2, <2>2, Zenon
    <3>2. \A k \in DOMAIN backlog' : k = Len(backlog) + 1 \/ k \in DOMAIN backlog
      BY <1>2, <1>6
    <3>3. /\ \A k \in DOMAIN backlog : backlog'[k] = backlog[k]
          /\ backlog'[Len(backlog) + 1] = n
      BY <1>2, <1>6, Zenon
    <3> QED
      BY <2>2, <2>8, <3>1, <3>2, <3>3, Zenon
  <2>9. ASSUME NEW a \in Jobs'
        PROVE  /\ a.id < next_connection_id_' /\ sock'[a.client].state \in {"accepted", "closed"}
               /\ \A g \in Open' : connections_'[g].id = a.id <=> connections_'[g].client = a.client
    <3>1. jobs \in Seq(Job) /\ running \in SUBSET Job /\ completions_ \in Seq(Job)
      BY Zenon DEF TypeInv, CoreType
    <3>2. a \in Jobs /\ a \in Job
      BY <1>7, <3>1, RangeFacts, Zenon DEF Jobs, JobsIn
    <3>3. a.client \in Clients
      BY <3>2, Zenon DEF Job
    <3>4. sock'[a.client].state \in {"accepted", "closed"}
      <4>1. sock[a.client].state \in {"accepted", "closed"}
        BY <2>3, <3>2, Zenon
      <4>2. a.client # n
        BY <1>2, <4>1, Zenon
      <4> QED
        BY <1>5, <3>3, <4>1, <4>2, Zenon
    <3> QED
      BY <1>2, <1>7, <2>3, <3>2, <3>4, Zenon
  <2>10. ASSUME NEW m \in Clients, sock'[m].state \in {"new", "backlog"}
         PROVE  ran'[m] = <<>> /\ sock'[m].sent = <<>>
    <3>1. sock[m].state \in {"new", "backlog"}
      BY <1>2, <1>5, <2>10, Zenon
    <3> QED
      BY <1>2, <1>9, <2>4, <3>1, Zenon
  <2>11. \A g, h \in Open' :
           connections_'[g].client = connections_'[h].client \/ connections_'[g].id = connections_'[h].id
             => g = h
    BY <1>2, <1>7, <2>1, Zenon
  <2> QED
    BY <2>6, <2>7, <2>8, <2>9, <2>10, <2>11, Zenon DEF IdInv
<1> QED
  BY <1>2, <1>5, <1>7, <1>8, <1>9, <1>11, <1>12, Zenon

\* The initial state.
LEMMA InitCore ==
  ASSUME Init
  PROVE  TypeInv /\ IdInv /\ StrandInv
<1>1. Open = {}
  BY Zenon DEF Init, Open
<1>2. Jobs = {}
  <2>1. jobs = <<>> /\ running = {} /\ completions_ = <<>>
    BY Zenon DEF Init
  <2>2. Range(<<>>) = {}
    BY DEF Range
  <2> QED
    BY <2>1, <2>2, Zenon DEF Jobs, JobsIn
<1>3. NewSocket \in Socket /\ NewSocket.state = "new" /\ NewSocket.sent = <<>>
  <2>1. 0 \in 0 .. SendRoom
    BY ServerAssumption
  <2>2. <<>> \in Seq(config_.messages) /\ <<>> \in Seq(ReplyType)
    OBVIOUS
  <2>3. NewSocket = [state |-> "new", in |-> <<>>, eof |-> FALSE, reset |-> FALSE,
                     asked |-> <<>>, sent |-> <<>>, unread |-> 0]
    BY Zenon DEF NewSocket
  <2> QED
    BY <2>1, <2>2, <2>3, Zenon DEF Socket
<1>4. CoreType
  <2>1. /\ config_ \in Configs /\ connections_ = [fd \in Fds |-> NoConnection]
        /\ next_connection_id_ = 1 /\ jobs = <<>> /\ running = {} /\ completions_ = <<>>
        /\ edges = [fd \in Fds \cup {Listener} |-> {}] /\ sock = [n \in Clients |-> NewSocket]
        /\ backlog = <<>> /\ ran = [n \in Clients |-> <<>>]
    BY Zenon DEF Init
  <2>2. /\ <<>> \in Seq(Job) /\ <<>> \in Seq(Clients) /\ <<>> \in Seq(Nat) /\ 1 \in Nat \ {0}
        /\ Len(<<>>) = 0
    OBVIOUS
  <2>3. 0 <= config_.worker_queue_limit
    BY <2>1, ServerAssumption DEF Config
  <2> QED
    BY <1>3, <2>1, <2>2, <2>3, Zenon DEF CoreType
<1>5. TypeInv
  <2>1. Frame("wait", Listener) \in FrameType
    BY Zenon DEF Frame, FrameType, Bottom
  <2>2. <<Frame("wait", Listener)>> \in Seq(FrameType)
    BY <2>1
  <2> QED
    BY <1>4, <2>2, Zenon DEF Init, TypeInv
<1>6. IdInv
  <2>1. DOMAIN <<>> = {}
    OBVIOUS
  <2> QED
    BY <1>1, <1>2, <1>3, <2>1, Zenon DEF Init, IdInv
<1>7. StrandInv
  <2>1. DOMAIN <<>> = {} /\ Range(<<>>) = {}
    BY DEF Range
  <2>2. jobs = <<>> /\ running = {} /\ completions_ = <<>> /\ ran = [n \in Clients |-> <<>>]
    BY Zenon DEF Init
  <2>3. Orderly(jobs, running, completions_, ran)
    BY <2>1, <2>2, Zenon DEF Orderly
  <2> QED
    BY <1>1, <2>3, Zenon DEF StrandInv
<1> QED
  BY <1>5, <1>6, <1>7, Zenon

-----------------------------------------------------------------------------
(* The kinds of steps.                                                     *)

\* The invariant without the replies and the pending output.
CoreInv == TypeInv /\ StackInv /\ IdInv /\ StrandInv

\* What a step may do to the connections, the sockets and the pool.
Kind ==
  \/ SocketsOnly
  \/ \E fd \in Open : \E v \in WorldType : HandlerStep(fd, v)
  \/ \E S \in SUBSET Open : CloseAll(S)
  \/ WorkerStep
  \/ \E fd \in Fds : AcceptStep(fd)
  \/ \E n \in Clients : Connect(n) /\ config_' = config_

\* Every kind of step keeps the invariant of the connections and the pool.
LEMMA KindKeeps ==
  ASSUME TypeInv, IdInv, StrandInv, Kind
  PROVE  CoreType' /\ IdInv' /\ StrandInv'
<1>1. CASE SocketsOnly
  BY <1>1, SocketsOnlyKeeps, Zenon
<1>2. CASE \E fd \in Open : \E v \in WorldType : HandlerStep(fd, v)
  BY <1>2, HandlerStepKeeps, Zenon
<1>3. CASE \E S \in SUBSET Open : CloseAll(S)
  BY <1>3, CloseAllKeeps, Zenon
<1>4. CASE WorkerStep
  BY <1>4, WorkerStepKeeps, Zenon
<1>5. CASE \E fd \in Fds : AcceptStep(fd)
  BY <1>5, AcceptFacts, AcceptKeeps, Zenon
<1>6. CASE \E n \in Clients : Connect(n) /\ config_' = config_
  BY <1>6, ConnectKeeps, Zenon
<1> QED
  BY <1>1, <1>2, <1>3, <1>4, <1>5, <1>6, Zenon DEF Kind

=============================================================================
