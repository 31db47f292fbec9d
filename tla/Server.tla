------------------------------- MODULE Server -------------------------------
(***************************************************************************)
(* The event loop of src/src/server/server.cpp: one I/O thread that        *)
(* accepts, reads, parses and writes, a pool of workers that execute       *)
(* commands, and the queue of completions between them.                    *)
(*                                                                         *)
(* The I/O thread is a stack of frames, one per function that is waiting   *)
(* for a call to return; a frame is executed down to the next point where  *)
(* it looks at state a worker or a client may change.  So the workers and  *)
(* the clients interleave with every iteration of the read and the parse   *)
(* loop and with every completion that is applied.                         *)
(*                                                                         *)
(* What is abstracted:                                                     *)
(*  - A message is a complete command ("cmd"), bytes that are not a        *)
(*    command ("bad"), or an unfinished command ("part", which is the last *)
(*    thing a client sends).  One receive returns up to Chunk messages.    *)
(*  - A reply names the client that asked and the number of the request,   *)
(*    so that a reply that reaches somebody else can be told apart.        *)
(*  - A buffer is measured in replies, and last_activity is not kept: any  *)
(*    connection with nothing in flight may be found idle.                 *)
(*  - The pool is its queue and the jobs being run (ThreadPool has the     *)
(*    rest); the store, expiry and snapshots are in the other modules.     *)
(***************************************************************************)
EXTENDS Integers, Sequences, FiniteSets, FiniteSetsExt, Functions

CONSTANTS
    Clients,                \* the connections that are ever attempted
    Fds,                    \* descriptors the kernel hands out again
    Chunk,                  \* messages one receive returns at most
    SendRoom,               \* replies the kernel buffers for a client
    Configs                 \* the configurations to consider, see Config

(* A ServerConfig, and what the clients do under it: how many there are,   *)
(* what each may send and how much, and the faults that may happen.        *)
Config ==
    [worker_threads : Nat \ {0}, worker_queue_limit : Nat \ {0},
     max_connections : 1..Cardinality(Fds), max_output_buffer : Nat \ {0},
     idle_timeout : BOOLEAN, clients : SUBSET Clients,
     messages : SUBSET {"cmd", "bad", "part"}, max_sends : Nat,
     faults : SUBSET {"eof", "reset", "error", "stop", "accept", "overflow"}]

ASSUME ServerAssumption ==
    /\ Clients \subseteq Nat \ {0} /\ IsFiniteSet(Clients)
    /\ IsFiniteSet(Fds) /\ 0 \notin Fds
    /\ {Chunk, SendRoom} \subseteq Nat \ {0}
    /\ Configs \subseteq Config

VARIABLES
    config_,                \* chosen once
    connections_,           \* descriptor -> connection, or NoConnection
    next_connection_id_,
    jobs,                   \* queue of the pool
    running,                \* jobs taken by workers
    completions_,
    edges,                  \* descriptor -> readiness not yet reported
    batch,                  \* descriptor -> events of the last wait()
    stack,                  \* frames of the I/O thread
    stopping_,
    sock,                   \* client -> its socket, as the kernel sees it
    backlog,                \* clients connected and not yet accepted
    ran                     \* ghost: client -> requests executed, in order

vars == <<connections_, next_connection_id_, jobs, running, completions_,
          edges, batch, stack, stopping_, sock, backlog, ran>>
pool == <<jobs, running, completions_, ran>>
conns == <<connections_, edges, sock>>
accepting == <<next_connection_id_, backlog, stopping_>>

Listener == 0
Interests == {"read", "write"}
NoConnection == [id |-> 0]
NewConnection(id, n) ==
    [id |-> id, client |-> n, parser |-> <<>>, interest |-> {"read"},
     read_closed |-> FALSE, closing |-> FALSE, inflight |-> 0,
     command_queue |-> <<>>, strand_running |-> FALSE,
     pending_responses |-> {}, next_request_seq |-> 0,
     next_response_seq |-> 0, output |-> <<>>]
NewSocket ==
    [state |-> "new", in |-> <<>>, eof |-> FALSE, reset |-> FALSE,
     asked |-> <<>>, sent |-> <<>>, unread |-> 0]

Open == {fd \in Fds : connections_[fd] # NoConnection}
Frame(pc, fd) == [pc |-> pc, fd |-> fd, ready |-> {}]
Reply(n, seq) == [client |-> n, seq |-> seq]
ErrorReply(n) == Reply(n, -1)

Init ==
    /\ config_ \in Configs
    /\ connections_ = [fd \in Fds |-> NoConnection]
    /\ next_connection_id_ = 1
    /\ jobs = <<>> /\ running = {} /\ completions_ = <<>>
    /\ edges = [fd \in Fds \cup {Listener} |-> {}]
    /\ batch = [fd \in Fds \cup {Listener} |-> {}]
    /\ stack = <<Frame("wait", Listener)>>
    /\ stopping_ = FALSE
    /\ sock = [n \in Clients |-> NewSocket]
    /\ backlog = <<>>
    /\ ran = [n \in Clients |-> <<>>]

-----------------------------------------------------------------------------
(***************************************************************************)
(* A handler computes on the connection c, its socket s, its pending       *)
(* readiness e, and the pool's side of the world.                          *)
(***************************************************************************)
World(fd) ==
    [c |-> connections_[fd], s |-> sock[connections_[fd].client],
     e |-> edges[fd], jobs |-> jobs, completions |-> completions_,
     ran |-> ran]

Put(fd, w) ==
    /\ connections_' = [connections_ EXCEPT ![fd] = w.c]
    /\ sock' = [sock EXCEPT ![connections_[fd].client] = w.s]
    /\ edges' = [edges EXCEPT ![fd] = w.e]
    /\ jobs' = w.jobs /\ completions_' = w.completions /\ ran' = w.ran
    /\ UNCHANGED running

QueueSaturated(queue) == Len(queue) >= config_.worker_queue_limit

(* Fault: the strand takes the newest command of the queue.                *)
LaunchNewest(w) ==
    IF w.c.command_queue = <<>>
    THEN [w EXCEPT !.c.strand_running = FALSE]
    ELSE LET job == [id |-> w.c.id, client |-> w.c.client,
                     seq |-> w.c.command_queue[Len(w.c.command_queue)]]
         IN [w EXCEPT !.c.command_queue = SubSeq(@, 1, Len(@) - 1),
                      !.c.strand_running = TRUE,
                      !.jobs = Append(@, job)]

(* Fault: the strand stays marked as running when its queue is empty.      *)
LaunchKeepingStrand(w) ==
    IF w.c.command_queue = <<>> THEN w
    ELSE LET job == [id |-> w.c.id, client |-> w.c.client,
                     seq |-> Head(w.c.command_queue)]
         IN [w EXCEPT !.c.command_queue = Tail(@), !.c.strand_running = TRUE,
                      !.jobs = Append(@, job)]

(* launch_strand: the next command of the connection goes to the pool, or  *)
(* is run here and now when the pool refuses it.                           *)
LaunchStrand(w) ==
    IF w.c.command_queue = <<>>
    THEN [w EXCEPT !.c.strand_running = FALSE]
    ELSE LET job == [id |-> w.c.id, client |-> w.c.client,
                     seq |-> Head(w.c.command_queue)]
             w1 == [w EXCEPT !.c.command_queue = Tail(@),
                             !.c.strand_running = TRUE]
         IN IF QueueSaturated(w.jobs)
            THEN [w1 EXCEPT !.completions = Append(@, job),
                            !.ran[job.client] = Append(@, job.seq)]
            ELSE [w1 EXCEPT !.jobs = Append(@, job)]

EnqueueCommand(w) ==
    LET w1 == [w EXCEPT !.c.next_request_seq = @ + 1,
                        !.c.inflight = @ + 1,
                        !.c.command_queue = Append(@, w.c.next_request_seq)]
    IN IF w.c.strand_running THEN w1 ELSE LaunchStrand(w1)

(* The error reply of read_connection and queue_parsed_commands goes       *)
(* straight into the output, past the sequence numbers.                    *)
ProtocolError(w) ==
    [w EXCEPT !.c.output = Append(@, ErrorReply(w.c.client)),
              !.c.closing = TRUE, !.c.read_closed = TRUE]

(* The closed branch of read_connection.                                   *)
EndOfInput(w) ==
    IF w.c.parser # <<>> THEN ProtocolError(w)
    ELSE [w EXCEPT !.c.read_closed = TRUE,
                   !.c.closing = @ \/ (w.c.inflight = 0 /\ w.c.output = <<>>)]

(* How much one call of try_receive returns and try_send accepts; 0 is     *)
(* "would block".                                                          *)
TryReceive(s) == Min({Chunk, Len(s.in)})
TrySend(s, output) == Min({SendRoom - s.unread, Len(output)})

(* write_connection: the kernel takes what fits, then try_send would block.*)
(* Its branch for a connection found closed is dead: send() of a non-empty *)
(* output does not return 0, and on a broken connection it fails, so that  *)
(* try_send throws (FinishEvent, ApplyCompletion).                         *)
WriteConnection(w) ==
    LET n == TrySend(w.s, w.c.output)
    IN [w EXCEPT !.c.output = SubSeq(@, n + 1, Len(@)),
                 !.s.unread = @ + n,
                 !.s.sent = @ \o SubSeq(w.c.output, 1, n)]

(* The responses that are next in sequence, and those of them that fit.    *)
InSequence(c) ==
    {seq \in c.pending_responses :
        c.next_response_seq..seq \subseteq c.pending_responses}

Fitting(c) ==
    {seq \in InSequence(c) :
        Len(c.output) + (seq - c.next_response_seq) < config_.max_output_buffer}

AppendReplies(c, seqs) ==
    LET n == Cardinality(seqs)
    IN [c EXCEPT !.output = @ \o [i \in 1..n |->
                                    Reply(c.client, c.next_response_seq + i - 1)],
                 !.pending_responses = @ \ seqs,
                 !.next_response_seq = @ + n]

(* Fault: the output may grow without limit.                               *)
FlushUnbounded(c) == AppendReplies(c, InSequence(c))

(* Fault: replies that do not fit are skipped.                             *)
FlushSkipping(c) ==
    [AppendReplies(c, Fitting(c)) EXCEPT
        !.pending_responses = @ \ InSequence(c),
        !.next_response_seq = c.next_response_seq + Cardinality(InSequence(c))]

(* apply_completion's loop over pending_responses: they go to the output   *)
(* in sequence, up to the first that does not fit, which ends the          *)
(* connection.                                                             *)
Flush(c) ==
    IF Fitting(c) = InSequence(c) THEN AppendReplies(c, InSequence(c))
    ELSE [AppendReplies(c, Fitting(c)) EXCEPT
             !.closing = TRUE, !.read_closed = TRUE, !.pending_responses = {}]

(* Fault: completions of a closing connection are not counted.             *)
CompletedUnlessClosing(w, seq) ==
    [w EXCEPT !.completions = Tail(@),
              !.c = IF w.c.closing THEN @
                    ELSE Flush([w.c EXCEPT !.pending_responses = @ \cup {seq},
                                           !.inflight = @ - 1])]

(* apply_completion up to its write.                                       *)
Completed(w, seq) ==
    [w EXCEPT !.completions = Tail(@),
              !.c = Flush([w.c EXCEPT !.pending_responses = @ \cup {seq},
                                      !.inflight = IF @ > 0 THEN @ - 1 ELSE @])]

(* Fault: the write filter is only wanted next to the read filter.         *)
InterestOfReaders(w) ==
    IF w.c.read_closed \/ w.c.closing \/ QueueSaturated(w.jobs) THEN {}
    ELSE {"read"} \cup (IF w.c.output # <<>> THEN {"write"} ELSE {})

(* compute_interest of update_interest, and the reactor's registration: a  *)
(* filter that is added reports a condition that already holds, one that   *)
(* is deleted takes its pending event with it.  Either filter reports a    *)
(* hang-up, which is handled like readable input.                          *)
WantedInterest(w) ==
    (IF /\ ~w.c.read_closed /\ ~w.c.closing /\ ~QueueSaturated(w.jobs)
        /\ Len(w.c.output) < config_.max_output_buffer
     THEN {"read"} ELSE {})
    \cup (IF w.c.output # <<>> THEN {"write"} ELSE {})

IsReady(s, i) ==
    IF i = "read" THEN s.in # <<>> \/ s.eof \/ s.reset
    ELSE s.reset \/ s.unread < SendRoom

Reported(s, filters) ==
    filters \cup {i \in {"read"} : s.reset /\ filters # {}}

Modify(w, interest) ==
    [w EXCEPT !.c.interest = interest,
              !.e = (@ \cap Reported(w.s, interest))
                    \cup {i \in Reported(w.s, interest \ w.c.interest) :
                              IsReady(w.s, i)}]

(* Fault: a connection waits for the replies that were given up.           *)
FinishedInSequence(c) ==
    /\ c.closing /\ c.output = <<>>
    /\ c.next_response_seq = c.next_request_seq

Finished(c) == c.closing /\ c.output = <<>> /\ c.inflight = 0

(* close_connection: the descriptor is free again, what the kernel still   *)
(* holds for the client stays readable.                                    *)
CloseConnection(fd, w) ==
    Put(fd, [w EXCEPT !.c = NoConnection, !.e = {}, !.s.state = "closed"])

(* How accept_ready, handle_connection_event and apply_completion end:     *)
(* close_connection, or update_interest up to the read it may make.        *)
CloseOrUpdateInterest(fd, w, rest) ==
    IF Finished(w.c) THEN CloseConnection(fd, w) /\ stack' = rest
    ELSE LET w1 == Modify(w, WantedInterest(w))
         IN /\ Put(fd, w1)
            /\ stack' = IF "read" \in w1.c.interest \ w.c.interest
                        THEN <<Frame("read", fd), Frame("interest", fd)>>
                             \o rest
                        ELSE rest

-----------------------------------------------------------------------------
(***************************************************************************)
(* The I/O thread.                                                         *)
(***************************************************************************)
At(pc) == Head(stack).pc = pc
Rest == Tail(stack)
Throw == stack' = <<Frame("threw", Listener)>>

(* run(): wait, and the loop's end when stop() was called.  A wait that    *)
(* times out with nothing to do changes nothing.                           *)
Wait ==
    /\ At("wait") /\ ~stopping_
    /\ \/ \E fd \in DOMAIN edges : edges[fd] # {}
       \/ completions_ # <<>>
       \/ config_.idle_timeout /\ Open # {}
    /\ batch' = edges
    /\ edges' = [fd \in DOMAIN edges |-> {}]
    /\ stack' = <<Frame("drain", Listener), Frame("events", Listener),
                  Frame("drain", Listener), Frame("idle", Listener)>>
    /\ UNCHANGED <<accepting, connections_, pool, sock>>

EndOfRun ==
    /\ At("wait") /\ stopping_
    /\ connections_' = [fd \in Fds |-> NoConnection]
    /\ edges' = [fd \in DOMAIN edges |-> {}]
    /\ sock' = [n \in Clients |->
                   IF \E fd \in Open : connections_[fd].client = n
                   THEN [sock[n] EXCEPT !.state = "closed"] ELSE sock[n]]
    /\ stack' = <<Frame("ended", Listener)>>
    /\ UNCHANGED <<accepting, pool, batch>>

(* handle_connection_event, up to the first read or the write.  An event   *)
(* may be about a connection that was closed since, or about the previous  *)
(* owner of a descriptor that was accepted again since.                    *)
HandleConnectionEvent(fd) ==
    /\ At("events") /\ batch[fd] # {}
    /\ batch' = [batch EXCEPT ![fd] = {}]
    /\ stack' = (IF connections_[fd] = NoConnection THEN <<>>
                 ELSE (IF "read" \in batch[fd]
                       THEN <<Frame("read", fd), Frame("drain", Listener)>>
                       ELSE <<>>)
                      \o <<[Frame("finish", fd) EXCEPT !.ready = batch[fd]]>>)
                \o stack
    /\ UNCHANGED <<conns, accepting, pool>>

(* The same, for an event that carries the error flag: the connection is   *)
(* closed whatever it has in flight.                                       *)
HandleErrorEvent(fd) ==
    /\ "error" \in config_.faults
    /\ At("events") /\ batch[fd] # {} /\ fd \in Open
    /\ batch' = [batch EXCEPT ![fd] = {}]
    /\ CloseConnection(fd, World(fd))
    /\ UNCHANGED <<accepting, stack>>

AcceptEvent ==
    /\ At("events") /\ batch[Listener] # {}
    /\ batch' = [batch EXCEPT ![Listener] = {}]
    /\ stack' = <<Frame("accept", Listener)>> \o stack
    /\ UNCHANGED <<conns, accepting, pool>>

EventsDone ==
    /\ At("events") /\ \A fd \in DOMAIN batch : batch[fd] = {}
    /\ stack' = Rest
    /\ UNCHANGED <<conns, accepting, pool, batch>>

(* accept_ready: one turn of its loop.                                     *)
AcceptReady ==
    /\ At("accept")
    /\ ~stopping_ /\ backlog # <<>>
    /\ Cardinality(Open) < config_.max_connections
    /\ \E fd \in Fds \ Open :
          LET n == Head(backlog)
          IN /\ connections_' = [connections_ EXCEPT ![fd] =
                                    NewConnection(next_connection_id_, n)]
             /\ next_connection_id_' = next_connection_id_ + 1
             /\ edges' = [edges EXCEPT ![fd] =
                             {i \in {"read"} : IsReady(sock[n], i)}]
             /\ sock' = [sock EXCEPT ![n].state = "accepted"]
             /\ stack' = <<Frame("read", fd), Frame("drain", Listener),
                           Frame("finish", fd)>> \o stack
    /\ backlog' = Tail(backlog)
    /\ UNCHANGED <<pool, batch, stopping_>>

AcceptDone ==
    /\ At("accept")
    /\ \/ stopping_ \/ backlog = <<>>
       \/ Cardinality(Open) >= config_.max_connections
    /\ stack' = Rest
    /\ UNCHANGED <<conns, accepting, pool, batch>>

(* try_accept throws on every other error, whatever is in the backlog: the *)
(* process may be out of descriptors below max_connections.  Nothing       *)
(* between accept_ready and run() catches it.                              *)
AcceptThrows ==
    /\ At("accept") /\ "accept" \in config_.faults
    /\ ~stopping_ /\ Cardinality(Open) < config_.max_connections
    /\ Throw
    /\ UNCHANGED <<conns, accepting, pool, batch>>

(* read_connection: one turn of its loop.  try_receive throws on every     *)
(* error but "would block", and nothing between here and run() catches it. *)
(* feed refuses bytes that would exceed the parser's buffer, which has no  *)
(* size here: any may be too many when the configuration says so.          *)
ReadConnection ==
    /\ At("read")
    /\ LET fd == Head(stack).fd
           w == World(fd)
           n == TryReceive(w.s)
           done == w.c.read_closed \/ w.c.closing \/ QueueSaturated(jobs)
       IN \/ /\ ~done /\ w.s.reset
             /\ Throw
             /\ UNCHANGED <<conns, pool>>
          \/ /\ ~done /\ ~w.s.reset /\ n > 0
             /\ Put(fd, [w EXCEPT !.s.in = SubSeq(@, n + 1, Len(@)),
                                  !.c.parser = @ \o SubSeq(w.s.in, 1, n)])
             /\ stack' = <<Frame("parse", fd)>> \o stack
          \/ /\ ~done /\ ~w.s.reset /\ n > 0
             /\ "overflow" \in config_.faults
             /\ Put(fd, [ProtocolError(w) EXCEPT
                            !.s.in = SubSeq(@, n + 1, Len(@))])
             /\ stack' = Rest
          \/ /\ ~done /\ ~w.s.reset /\ n = 0 /\ w.s.eof
             /\ Put(fd, EndOfInput(w))
             /\ stack' = Rest
          \/ /\ done \/ (~w.s.reset /\ n = 0 /\ ~w.s.eof)
             /\ stack' = Rest
             /\ UNCHANGED <<conns, pool>>
    /\ UNCHANGED <<accepting, batch>>

(* Parser::next: what the buffer starts with.                              *)
ParserNext(parser) == IF parser = <<>> THEN "part" ELSE Head(parser)

(* queue_parsed_commands: one turn of its loop.                            *)
QueueParsedCommands ==
    /\ At("parse")
    /\ LET fd == Head(stack).fd
           w == World(fd)
           paused == QueueSaturated(jobs) /\ w.c.inflight > 0
           next == ParserNext(w.c.parser)
       IN \/ /\ paused \/ next = "part"
             /\ stack' = Rest
             /\ UNCHANGED <<conns, pool>>
          \/ /\ ~paused /\ next = "bad"
             /\ Put(fd, ProtocolError(w))
             /\ stack' = Rest
          \/ /\ ~paused /\ next = "cmd"
             /\ Put(fd, EnqueueCommand([w EXCEPT !.c.parser = Tail(@)]))
             /\ UNCHANGED stack
    /\ UNCHANGED <<accepting, batch>>

(* The second half of update_interest, after the read it made.             *)
UpdateInterestAgain ==
    /\ At("interest")
    /\ LET fd == Head(stack).fd
           w == World(fd)
       IN Put(fd, Modify(w, WantedInterest(w)))
    /\ stack' = Rest
    /\ UNCHANGED <<accepting, batch>>

(* The end of handle_connection_event and of a turn of accept_ready.       *)
FinishEvent ==
    /\ At("finish")
    /\ LET fd == Head(stack).fd
           w == World(fd)
           writes == "write" \in Head(stack).ready /\ w.c.output # <<>>
       IN IF connections_[fd] = NoConnection
          THEN stack' = Rest /\ UNCHANGED <<conns, pool>>
          ELSE IF writes /\ w.s.reset
          THEN Throw /\ UNCHANGED <<conns, pool>>
          ELSE CloseOrUpdateInterest(fd, IF writes THEN WriteConnection(w)
                                         ELSE w, Rest)
    /\ UNCHANGED <<accepting, batch>>

(* apply_completion, for the first completion of the queue.                *)
Owner(done) == {fd \in Open : connections_[fd].id = done.id}

ApplyCompletion ==
    /\ At("drain") /\ completions_ # <<>>
    /\ LET done == Head(completions_)
       IN \/ /\ Owner(done) = {}
             /\ completions_' = Tail(completions_)
             /\ UNCHANGED <<conns, jobs, running, ran, stack>>
          \/ \E fd \in Owner(done) : \E w \in {Completed(World(fd), done.seq)} :
                IF w.c.output # <<>> /\ w.s.reset
                THEN Throw /\ UNCHANGED <<conns, pool>>
                ELSE \E w1 \in {LaunchStrand(WriteConnection(w))} :
                        CloseOrUpdateInterest(fd, w1, stack)
    /\ UNCHANGED <<accepting, batch>>

DrainDone ==
    /\ At("drain") /\ completions_ = <<>>
    /\ stack' = Rest
    /\ UNCHANGED <<conns, accepting, pool, batch>>

(* close_idle_connections, then back to the top of run()'s loop.           *)
CloseIdleConnections ==
    /\ At("idle")
    /\ \E idle \in SUBSET {fd \in Open : connections_[fd].inflight = 0} :
          /\ config_.idle_timeout \/ idle = {}
          /\ connections_' = [fd \in Fds |-> IF fd \in idle THEN NoConnection
                                             ELSE connections_[fd]]
          /\ edges' = [fd \in DOMAIN edges |-> IF fd \in idle THEN {}
                                               ELSE edges[fd]]
          /\ sock' = [n \in Clients |->
                         IF \E fd \in idle : connections_[fd].client = n
                         THEN [sock[n] EXCEPT !.state = "closed"] ELSE sock[n]]
    /\ stack' = <<Frame("wait", Listener)>>
    /\ UNCHANGED <<accepting, pool, batch>>

IOThread ==
    \/ Wait \/ EndOfRun \/ AcceptEvent \/ EventsDone \/ AcceptReady
    \/ AcceptDone \/ AcceptThrows \/ ReadConnection \/ QueueParsedCommands
    \/ UpdateInterestAgain \/ FinishEvent \/ ApplyCompletion \/ DrainDone
    \/ CloseIdleConnections
    \/ \E fd \in Fds : HandleConnectionEvent(fd) \/ HandleErrorEvent(fd)

-----------------------------------------------------------------------------
(***************************************************************************)
(* The workers, the clients, and stop().                                   *)
(***************************************************************************)
TakeJob ==
    /\ jobs # <<>> /\ Cardinality(running) < config_.worker_threads
    /\ running' = running \cup {Head(jobs)}
    /\ jobs' = Tail(jobs)
    /\ UNCHANGED <<conns, accepting, completions_, batch, stack, ran>>

RunJob(job) ==
    /\ job \in running
    /\ running' = running \ {job}
    /\ ran' = [ran EXCEPT ![job.client] = Append(@, job.seq)]
    /\ completions_' = Append(completions_, job)
    /\ UNCHANGED <<conns, accepting, jobs, batch, stack>>

(* The kernel reports that the socket of client n is now s, on the         *)
(* descriptor it was accepted as, by those of the given filters that are   *)
(* registered.                                                             *)
Notify(n, s, filters) ==
    edges' = [fd \in DOMAIN edges |->
                 IF fd \in Open /\ connections_[fd].client = n
                 THEN edges[fd] \cup
                      {i \in Reported(s, connections_[fd].interest \cap filters) :
                          IsReady(s, i)}
                 ELSE edges[fd]]

ClientStep(n, s, filters) ==
    /\ sock' = [sock EXCEPT ![n] = s]
    /\ Notify(n, s, filters)
    /\ UNCHANGED <<accepting, connections_, pool, batch, stack>>

Connect(n) ==
    /\ n \in config_.clients /\ sock[n].state = "new"
    /\ \A m \in config_.clients : m < n => sock[m].state # "new"
    /\ sock' = [sock EXCEPT ![n].state = "backlog"]
    /\ backlog' = Append(backlog, n)
    /\ edges' = [edges EXCEPT ![Listener] = {"read"}]
    /\ UNCHANGED <<connections_, next_connection_id_, pool, batch, stack,
                   stopping_>>

CanSend(n) ==
    /\ sock[n].state \in {"backlog", "accepted"}
    /\ ~sock[n].eof /\ ~sock[n].reset

Send(n, m) ==
    /\ CanSend(n) /\ Len(sock[n].asked) < config_.max_sends
    /\ "part" \notin Range(sock[n].asked)
    /\ ClientStep(n, [sock[n] EXCEPT !.in = Append(@, m),
                                     !.asked = Append(@, m)], {"read"})

HalfClose(n) ==
    /\ "eof" \in config_.faults /\ CanSend(n)
    /\ ClientStep(n, [sock[n] EXCEPT !.eof = TRUE], {"read"})

(* A hang-up: whichever filters are registered report it.                  *)
Reset(n) ==
    /\ "reset" \in config_.faults /\ CanSend(n)
    /\ ClientStep(n, [sock[n] EXCEPT !.reset = TRUE, !.in = <<>>], Interests)

Receive(n) ==
    /\ sock[n].unread > 0
    /\ ClientStep(n, [sock[n] EXCEPT !.unread = 0], {"write"})

Stop ==
    /\ "stop" \in config_.faults /\ ~stopping_
    /\ stopping_' = TRUE
    /\ UNCHANGED <<conns, next_connection_id_, pool, batch, stack, backlog>>

Client(n) ==
    \/ Connect(n) \/ HalfClose(n) \/ Reset(n) \/ Receive(n)
    \/ \E m \in config_.messages : Send(n, m)

Next ==
    /\ \/ IOThread \/ TakeJob \/ Stop
       \/ \E job \in running : RunJob(job)
       \/ \E n \in Clients : Client(n)
    /\ UNCHANGED config_

Spec == Init /\ [][Next]_<<vars, config_>>

(* The operating system runs the I/O thread and the workers, and every     *)
(* client reads its replies; nobody has to connect or send.                *)
FairSpec ==
    /\ Spec
    /\ WF_vars(IOThread) /\ WF_vars(TakeJob)
    /\ WF_vars(\E job \in running : RunJob(job))
    /\ \A n \in Clients : WF_vars(Receive(n))
-----------------------------------------------------------------------------
(***************************************************************************)
(* Properties.                                                             *)
(***************************************************************************)
JobsOf(c) ==
    {job \in Range(jobs) \cup running \cup Range(completions_) : job.id = c.id}

(* Everything written for client n, the places of the replies to commands  *)
(* in a sequence of replies, and how many commands of n were answered.     *)
Written(n) ==
    LET own == {fd \in Open : connections_[fd].client = n}
    IN sock[n].sent \o (IF own = {} THEN <<>>
                        ELSE connections_[CHOOSE fd \in own : TRUE].output)
CommandReplies(replies) == {i \in DOMAIN replies : replies[i].seq >= 0}
Answered(n) == Cardinality(CommandReplies(Written(n)))

(* The state has the shape of the code's: a connection's fields, the       *)
(* frames of the I/O thread, and readiness only of known descriptors.      *)
TypeOK ==
    /\ \A fd \in Open :
          LET c == connections_[fd]
          IN /\ c.id \in 1..(next_connection_id_ - 1) /\ c.client \in Clients
             /\ c.interest \subseteq Interests
             /\ {c.closing, c.read_closed, c.strand_running} \subseteq BOOLEAN
             /\ {c.inflight, c.next_request_seq, c.next_response_seq} \subseteq Nat
             /\ Range(c.parser) \subseteq config_.messages
             /\ c.pending_responses \subseteq 0..(c.next_request_seq - 1)
             /\ Len(c.output) <= config_.max_output_buffer + 1
    /\ edges \in [Fds \cup {Listener} -> SUBSET Interests]
    /\ batch \in [Fds \cup {Listener} -> SUBSET Interests]
    /\ Len(jobs) <= config_.worker_queue_limit
    /\ Cardinality(running) <= config_.worker_threads
    /\ \A i \in DOMAIN stack :
          stack[i].pc \in {"wait", "drain", "events", "idle", "accept", "read",
                           "parse", "interest", "finish", "ended", "threw"}
    /\ stopping_ \in BOOLEAN
    /\ \A n \in Clients : sock[n].unread \in 0..SendRoom

(* Replies reach the client that asked, each once and in the order of the  *)
(* requests, and only for commands that were executed, although fds are    *)
(* recycled and completions outlive their connections: the connection ids  *)
(* and the sequence numbers of apply_completion.                           *)
RepliesMatchRequests ==
    \A n \in Clients :
        /\ Answered(n) <= Len(ran[n])
        /\ \A i \in DOMAIN Written(n) :
              LET earlier == CommandReplies(SubSeq(Written(n), 1, i - 1))
              IN Written(n)[i] \in {ErrorReply(n), Reply(n, Cardinality(earlier))}

(* The commands of a connection are executed one at a time and in the      *)
(* order they were sent, although any worker, or the I/O thread when the   *)
(* pool is full, may run them: launch_strand and strand_running.           *)
CommandsRunInWireOrder ==
    \A n \in Clients : \A i \in DOMAIN ran[n] : ran[n][i] = i - 1

(* inflight counts exactly the commands that are queued or whose           *)
(* completion is still to come, and strand_running says whether there is   *)
(* one of the latter.  A connection is closed, and found idle, on the      *)
(* strength of inflight being 0.                                           *)
InflightIsExact ==
    \A fd \in Open :
        LET c == connections_[fd]
        IN /\ c.inflight = Len(c.command_queue) + Cardinality(JobsOf(c))
           /\ c.strand_running <=> Cardinality(JobsOf(c)) = 1

(* When the I/O thread goes to wait, no reply sits in an output buffer     *)
(* without a write event that is pending or that the client's next read    *)
(* will raise: with edge-triggered events nobody would ever send it.       *)
NoStrandedOutput ==
    At("wait") =>
        \A fd \in Open :
            LET c == connections_[fd]
            IN c.output # <<>> =>
                  /\ "write" \in c.interest
                  /\ sock[c.client].unread < SendRoom => "write" \in edges[fd]

(* What is sent after the error reply to a malformed request: nothing, if  *)
(* replies keep the order of the requests they answer (the requests after  *)
(* a malformed one are never parsed).                                      *)
ErrorReplyIsLast ==
    \A n \in Clients : \A i \in DOMAIN Written(n) :
        Written(n)[i] = ErrorReply(n) => i = Len(Written(n))

MaxSends == Max({c.max_sends : c \in Configs})

(* The commands of client n up to the first thing that is not one.         *)
CommandsAsked(n) ==
    Min({i \in 1..(Len(sock[n].asked) + 1) :
            i > Len(sock[n].asked) \/ sock[n].asked[i] # "cmd"}) - 1

IsAnswered(n, k) == Answered(n) >= k \/ sock[n].state = "closed"

(* Every command a client has sent before anything malformed is answered,  *)
(* or its connection is closed.                                            *)
EveryCommandIsAnswered ==
    \A n \in Clients : \A k \in 1..MaxSends :
        CommandsAsked(n) >= k ~> IsAnswered(n, k)

(* The same, for configurations in which the commands of all clients fit   *)
(* into the pool's queue, so that reading and parsing never pause.         *)
QueueNeverFills ==
    config_.worker_queue_limit
        > Cardinality(config_.clients) * config_.max_sends

AnsweredWhileQueueHasRoom ==
    \A n \in Clients : \A k \in 1..MaxSends :
        QueueNeverFills /\ CommandsAsked(n) >= k ~> IsAnswered(n, k)

(* After a protocol error, or an output buffer that overflowed, the        *)
(* connection is closed once what it owes is sent.                         *)
Owes(n) ==
    \E fd \in Open : /\ connections_[fd].client = n
                     /\ connections_[fd].closing
                     /\ connections_[fd].output # <<>>

ProtocolErrorCloses ==
    \A n \in Clients : Owes(n) ~> (sock[n].state = "closed")
=============================================================================
