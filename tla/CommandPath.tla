---------------------------- MODULE CommandPath ----------------------------
(***************************************************************************)
(* One connection, end to end: the bytes a client sends, in pieces of any  *)
(* size; the parser; the commands one after the other; the log they write  *)
(* and the snapshot; the replies and the client that reads them; a crash   *)
(* that damages what was not synced, and the recovery that reads the files.*)
(*                                                                         *)
(* Server models the loop around this path (several connections, the pool, *)
(* closing, limits of output and queue), PersistenceEngine the files' part *)
(* in longer histories, Store the commands inside.  Of the pool's queue,   *)
(* which all connections share, this module has what queue_saturated()     *)
(* returns: reading and parsing pause on it.                               *)
(*                                                                         *)
(* A scenario is what one behaviour starts from: script, the commands the  *)
(* client wants; stream, the bytes that really arrive; pieces, the most    *)
(* bytes a receive may return; busy, whether the pool's queue may fill up; *)
(* map, the contents that recovery imported; mode, off (no engine), none   *)
(* or always; time, the bound of the clock.                                *)
(***************************************************************************)
EXTENDS Registry, DiskFormat

CONSTANT Scenarios

ASSUME CommandPathAssumption ==
  \A s \in Scenarios : s.pieces # {} /\ s.pieces \subseteq Nat \ {0}

VARIABLES
  scenario, now,
  \* Connection
  fed, parser, queue, closing, closed,
  pool,                \* room: the pool's queue was never full; full; relieved: it was
  job,                 \* the write being executed: step, handler, arguments, deadline, and
                       \* (ghost) since when its arguments are checked
  map,
  \* PersistenceEngine and its files
  file, synced, last_offset_, snapshot, rotating,
  \* Client
  output, taken, client_parser, client,
  \* The process: up, dead (an exception left a worker), down, recovered
  server, recovered,
  \* Ghosts: parsed requests, replies, what the client has read, mutations
  \* logged and how many of them were answered, contents of the snapshot
  parsed, sent, got, logged, answered, exported

connection == <<fed, parser, queue, closing, parsed>>
engine == <<file, synced, last_offset_, logged>>
rotation == <<snapshot, rotating, exported>>
reader == <<taken, client_parser, client, got>>
replies == <<output, sent>>
process == <<server, recovered>>
vars == <<scenario, now, connection, closed, pool, job, map, engine, rotation, reader, replies,
          process, answered>>

persistence == scenario.mode # "off"
Idle == [step |-> "idle"]

make_request(args) == Array([i \in DOMAIN args |-> Bulk(args[i])])

Init ==
  /\ scenario \in Scenarios /\ now = 0
  /\ fed = 0 /\ parser = NewParser /\ queue = <<>> /\ closing = FALSE /\ closed = FALSE
  /\ pool = "room"
  /\ job = Idle /\ map = scenario.map
  /\ file = write_header /\ synced = 0 /\ last_offset_ = 0
  /\ snapshot = <<>> /\ rotating = FALSE /\ exported = {}
  /\ output = <<>> /\ taken = 0 /\ client_parser = NewParser /\ client = "waiting"
  /\ server = "up" /\ recovered = nullopt
  /\ parsed = <<>> /\ sent = <<>> /\ got = <<>> /\ logged = <<>> /\ answered = 0

Tick ==
  /\ server = "up" /\ now < scenario.time /\ now' = now + 1
  /\ UNCHANGED <<scenario, connection, closed, pool, job, map, engine, rotation, reader, replies,
                 process, answered>>

-----------------------------------------------------------------------------
(* read_connection and queue_parsed_commands.                              *)

\* The loop over next(): the requests, what is left, whether it refused, and whether it
\* paused after so many requests because the pool's queue was full then.
RECURSIVE ParseUpTo(_, _, _)
ParseUpTo(p, requests, most) ==
  IF Len(requests) = most
  THEN [parser |-> p, requests |-> requests, refused |-> FALSE, paused |-> TRUE]
  ELSE With(next(p), LAMBDA r :
         IF IsComplete(r) /\ is_command_request(r.value)
         THEN With(Erased(p, r), LAMBDA rest : ParseUpTo(rest, Append(requests, r.value), most))
         ELSE [parser |-> Erased(p, r), requests |-> requests,
               refused |-> r.status # "incomplete", paused |-> FALSE])

NoPause == Len(scenario.stream) + 1
ParseAll(p, requests) == ParseUpTo(p, requests, NoPause)

strand_running == job # Idle \/ queue # <<>>

\* After how many requests the loop may pause.  The queue had room before the receive,
\* and the I/O thread adds one job to it in the loop: when the first request starts
\* the strand.  That job may fill it, and a worker may make room again at any time.
PausePoints == IF scenario.busy /\ ~strand_running THEN 1 .. Len(scenario.script) ELSE {}

\* A reply is appended to the output.
Emit(v) == output' = output \o encode(v) /\ sent' = Append(sent, v)

\* try_receive returns what is there, up to the size of the buffer.
Received(n, all, done) == SubSeq(all, done + 1, Min({done + n, Len(all)}))

ReceiveInto(p, n) ==
  LET bytes == Received(n, scenario.stream, fed)
  IN  /\ server = "up" /\ ~closing /\ fed < Len(scenario.stream) /\ pool # "full"
      /\ fed' = fed + Len(bytes)
      /\ \E most \in PausePoints \cup {NoPause} :
         \E all \in {With(feed(p, bytes), LAMBDA fresh : ParseUpTo(fresh, <<>>, most))} :
           /\ parser' = all.parser
           /\ parsed' = parsed \o all.requests /\ queue' = queue \o all.requests
           /\ closing' = all.refused
           /\ pool' = IF all.paused THEN "full" ELSE pool
           /\ \/ all.refused /\ Emit(ProtocolError)
              \/ ~all.refused /\ UNCHANGED replies
      /\ UNCHANGED <<scenario, now, closed, job, map, engine, rotation, reader, process, answered>>

\* Fault: a request that is not complete is parsed from its second piece on.
ReceiveForgetting(n) == ReceiveInto([parser EXCEPT !.buffer_ = <<>>], n)

Receive(n) == ReceiveInto(parser, n)

\* Jobs, of other connections too, fill the pool's queue; workers make room.  Neither makes
\* this connection look at its parser again.
ShareThePool ==
  /\ server = "up" /\ scenario.busy
  /\ pool' = IF pool = "full" THEN "relieved" ELSE "full"
  /\ UNCHANGED <<scenario, now, connection, closed, job, map, engine, rotation, reader, replies,
                 process, answered>>

CloseWhen(ready) ==
  /\ server = "up" /\ closing /\ ~closed /\ ready
  /\ closed' = TRUE
  /\ UNCHANGED <<scenario, now, connection, pool, job, map, engine, rotation, reader, replies,
                 process, answered>>

\* Fault: a connection that no longer reads is to read all of its input first.
CloseDrained ==
  CloseWhen(queue = <<>> /\ job = Idle /\ fed = Len(scenario.stream))

\* The connection is closed once everything accepted is answered.
Close == CloseWhen(queue = <<>> /\ job = Idle)

-----------------------------------------------------------------------------
(* The strand: execute(), one command at a time.                           *)

\* The job answers: encode() in the worker throws on what it cannot encode.
Answer(v) ==
  /\ job' = Idle /\ sent' = Append(sent, v)
  /\ IF Encodable(v) THEN output' = output \o encode(v) /\ UNCHANGED process
     ELSE server' = "dead" /\ UNCHANGED <<output, recovered>>

NextArguments == extract_arguments(Head(queue))

\* The next command is taken; the ones without a handler or a write end here.
Execute ==
  LET args == NextArguments
      found == Lookup(args)
      c == found.handler
  IN  /\ server = "up" /\ job = Idle /\ queue # <<>>
      /\ queue' = Tail(queue)
      /\ \/ "refusal" \in DOMAIN found /\ Answer(found.refusal)
         \/ /\ "handler" \in DOMAIN found /\ ~commands_[c].write
            /\ Answer(ReadOnly(c, args, map, now))
         \/ /\ "handler" \in DOMAIN found /\ commands_[c].write
            /\ job' = [step |-> "begin", handler |-> c, args |-> args, at |-> nullopt, since |-> now]
            /\ UNCHANGED <<replies, process>>
      /\ UNCHANGED <<scenario, now, fed, parser, closing, closed, pool, parsed, map, engine, rotation,
                     reader, answered>>

Seconds == parse_int64(job.args[3])

\* EXPIRE checks its argument before anything is written.
RejectIf(bad) ==
  /\ job.handler = "expire" /\ bad
  /\ Answer(InvalidInteger)
  /\ UNCHANGED <<scenario, now, connection, closed, pool, map, engine, rotation, reader, answered>>

BadSeconds == Seconds # nullopt => ~expiration_is_representable(Seconds, now)

\* Fault: the range is checked again after the record is written.
RejectLate == server = "up" /\ job.step \in {"begin", "apply"} /\ RejectIf(BadSeconds)

Reject == server = "up" /\ job.step = "begin" /\ RejectIf(BadSeconds)

Accept ==
  /\ server = "up" /\ job.step = "begin"
  /\ job.handler = "expire" => ~BadSeconds
  /\ job' = [job EXCEPT !.step = "log", !.since = now]
  /\ UNCHANGED <<scenario, now, connection, closed, pool, map, engine, rotation, reader, replies,
                 process, answered>>

ExpiresAt == IF job.handler = "expire" THEN Deadline(Seconds, now) ELSE nullopt

\* durable_set, durable_del, durable_expire up to the append; then the engine's
\* mutex_ is held until the reply.  Without an engine EXPIRE reads the clock here.
LogWith(applied) ==
  LET m == CASE job.handler = "set" -> Mutation("set", <<job.args[2]>>, job.args[3], nullopt)
             [] job.handler = "del" -> Mutation("del", Tail(job.args), nullopt, nullopt)
             [] OTHER -> Mutation("expire", <<job.args[2]>>, nullopt, to_unix_ms(ExpiresAt))
  IN  /\ server = "up" /\ job.step = "log" /\ (persistence => ~rotating)
      /\ job' = [job EXCEPT !.step = "apply", !.at = applied]
      /\ IF persistence
         THEN /\ last_offset_' = last_offset_ + 1
              /\ file' = file \o encode_record(last_offset_', m)
              /\ logged' = Append(logged, m)
              /\ UNCHANGED synced
         ELSE UNCHANGED engine
      /\ UNCHANGED <<scenario, now, connection, closed, pool, map, rotation, reader, replies, process,
                     answered>>

\* Fault: the store is given the deadline as it was before the log rounded it.
LogUnrounded == LogWith(ExpiresAt)

Log ==
  LogWith(IF persistence /\ job.handler = "expire" THEN from_unix_ms(to_unix_ms(ExpiresAt))
          ELSE ExpiresAt)

\* durability_action, the store, the reply.
Apply ==
  LET done == Write(job.handler, job.args, map, job.at, now)
  IN  /\ server = "up" /\ job.step = "apply"
      /\ map' = done.map
      /\ Answer(done.reply)
      /\ synced' = IF scenario.mode = "always" THEN Len(file) ELSE synced
      /\ answered' = Len(logged)
      /\ UNCHANGED <<scenario, now, connection, closed, pool, file, last_offset_, logged, rotation, reader>>

-----------------------------------------------------------------------------
(* snapshot_now on the I/O thread, under mutex_: the file, then the log.   *)

ExportedEntries ==
  {[key |-> k, value |-> map[k].value, at |-> map[k].at] : k \in Live(map, now)}

WriteSnapshot ==
  /\ server = "up" /\ persistence /\ snapshot = <<>> /\ job.step # "apply"
  /\ synced' = IF scenario.mode = "always" THEN Len(file) ELSE synced
  /\ exported' = ExportedEntries
  /\ snapshot' = SnapshotBytes(last_offset_, SetToSeq(ExportedEntries))
  /\ rotating' = TRUE
  /\ UNCHANGED <<scenario, now, connection, closed, pool, job, map, file, last_offset_, logged, reader,
                 replies, process, answered>>

truncate_after ==
  /\ server = "up" /\ rotating
  /\ file' = write_header /\ synced' = Len(write_header) /\ rotating' = FALSE
  /\ UNCHANGED <<scenario, now, connection, closed, pool, job, map, last_offset_, logged, snapshot,
                 exported, reader, replies, process, answered>>

-----------------------------------------------------------------------------
(* The client: novacache-cli's loop, for as many replies as commands.      *)

\* What next() yields until the client has the replies it waits for.
RECURSIVE ReadReplies(_, _)
ReadReplies(p, values) ==
  IF Len(got) + Len(values) = Len(scenario.script)
  THEN [parser |-> p, values |-> values, end |-> "done"]
  ELSE With(next(p), LAMBDA r :
         IF IsComplete(r)
         THEN With(Erased(p, r), LAMBDA rest : ReadReplies(rest, Append(values, r.value)))
         ELSE [parser |-> p, values |-> values,
               end |-> IF r.status = "incomplete" THEN "waiting"
                       ELSE IF r.status = "oversized" /\ p.buffer_oversized_ THEN "oversized"
                       ELSE "malformed"])

ClientReceive(n) ==
  /\ client = "waiting" /\ taken < Len(output)
  /\ \E bytes \in {Received(n, output, taken)} :
     \E all \in {With(feed(client_parser, bytes), LAMBDA fresh : ReadReplies(fresh, <<>>))} :
       /\ taken' = taken + Len(bytes)
       /\ client' = all.end /\ client_parser' = all.parser /\ got' = got \o all.values
  /\ UNCHANGED <<scenario, now, connection, closed, pool, job, map, engine, rotation, replies, process,
                 answered>>

\* receive() returns 0.
ClientEnd ==
  /\ client = "waiting" /\ closed /\ taken = Len(output)
  /\ client' = "closed"
  /\ UNCHANGED <<scenario, now, connection, closed, pool, job, map, engine, rotation, taken,
                 client_parser, got, replies, process, answered>>

-----------------------------------------------------------------------------
(* A crash, and recover_into.                                              *)

\* What the log may hold then: a prefix, or a stretch of zeros that was never
\* written, the header with all of its sector or not at all.  What was synced is safe.
Holes ==
  {hole \in (synced + 1 .. Len(file)) \X (synced + 1 .. Len(file)) :
     \/ hole[1] > HeaderSize
     \/ hole[1] = 1 /\ hole[2] >= HeaderSize}
CrashImages ==
  {SubSeq(file, 1, end) : end \in synced .. Len(file)}
  \cup {[i \in DOMAIN file |-> IF i \in hole[1] .. hole[2] THEN 0 ELSE file[i]] : hole \in Holes}

Crash ==
  /\ server = "up" /\ persistence /\ server' = "down"
  /\ file' \in CrashImages
  /\ synced' = Len(file') /\ last_offset_' = 0
  /\ fed' = 0 /\ parser' = NewParser /\ queue' = <<>> /\ closing' = TRUE /\ parsed' = <<>>
  /\ closed' = TRUE /\ pool' = "room" /\ job' = Idle /\ map' = <<>> /\ rotating' = FALSE
  /\ output' = <<>> /\ sent' = <<>>
  /\ taken' = 0 /\ client_parser' = NewParser /\ client' = "reset" /\ got' = <<>>
  /\ UNCHANGED <<scenario, now, logged, answered, snapshot, exported, recovered>>

\* The snapshot, then the records past its offset, decoded as apply_record does.
Recover ==
  LET opened == open_and_recover(file)
      loaded == IF snapshot = <<>> THEN nullopt ELSE ReadSnapshot(snapshot)
      fresh == SelectSeq(opened.records,
                         LAMBDA r : loaded = nullopt \/ r.offset > loaded.wal_offset)
  IN  /\ server = "down" /\ server' = "recovered"
      /\ file' = opened.file /\ synced' = Len(opened.file)
      /\ recovered' = [threw |-> opened.threw,
                       entries |-> IF loaded = nullopt THEN {} ELSE loaded.entries,
                       mutations |-> [i \in DOMAIN fresh |->
                                        decode_payload(fresh[i].opcode, fresh[i].payload).value]]
      /\ UNCHANGED <<scenario, now, connection, closed, pool, job, map, last_offset_, logged, rotation,
                     reader, replies, answered>>

-----------------------------------------------------------------------------
Work == Execute \/ Reject \/ Accept \/ Log \/ Apply

Next ==
  \/ \E n \in scenario.pieces : Receive(n) \/ ClientReceive(n)
  \/ ShareThePool
  \/ Work \/ Close \/ ClientEnd
  \/ WriteSnapshot \/ truncate_after \/ Tick
  \/ Crash \/ Recover

CanReceive == server = "up" /\ ~closing /\ fed < Len(scenario.stream) /\ pool = "room"
CanWork ==
  /\ server = "up"
  /\ IF job = Idle THEN queue # <<>> ELSE job.step = "log" /\ persistence => ~rotating
CanRead == client = "waiting" /\ taken < Len(output)

\* Bytes that were sent arrive, the pool's workers run, a snapshot ends; the
\* clock, snapshots, crashes and room in the pool's queue are not owed.  Once the
\* queue was full, neither is a receive: the event that announced the bytes may have
\* been spent on it.  The first three are weak fairness of Receive, Work and
\* ClientReceive, with what enables them spelled out.
Fairness ==
  /\ []<>~CanReceive \/ []<><<fed' # fed>>_vars
  /\ []<>~CanWork \/ []<><<job' # job \/ Len(queue') < Len(queue)>>_vars
  /\ []<>~CanRead \/ []<><<taken' # taken>>_vars
  /\ WF_vars(Close) /\ WF_vars(ClientEnd) /\ WF_vars(truncate_after)

Spec == Init /\ [][Next]_vars /\ Fairness

-----------------------------------------------------------------------------
Requests == [i \in DOMAIN scenario.script |-> make_request(scenario.script[i])]
Undamaged ==
  scenario.stream = FlattenSeq([i \in DOMAIN Requests |-> encode(Requests[i])])

\* Types; no buffer exceeds ParserLimits, the log is never shorter than what is
\* synced of it, and no offset is without its record.
TypeOK ==
  /\ fed \in 0 .. Len(scenario.stream) /\ taken \in 0 .. Len(output) /\ now \in 0 .. scenario.time
  /\ \A p \in {parser, client_parser} : Len(p.buffer_) <= max_buffer_size
  /\ job.step \in {"idle", "begin", "log", "apply"}
  /\ client \in {"waiting", "done", "malformed", "oversized", "closed", "reset"}
  /\ server \in {"up", "dead", "down", "recovered"}
  /\ Range(file) \subseteq Byte /\ Range(snapshot) \subseteq Byte
  /\ synced \in 0 .. Len(file) /\ {last_offset_, answered} \subseteq 0 .. Len(logged)
  /\ {closing, closed, rotating} \subseteq BOOLEAN /\ pool \in {"room", "full", "relieved"}

\* Parser, "must distinguish incomplete data from malformed or oversized data"
\* (docs/PROTOCOL.md): whatever the pieces the bytes came in, the requests are
\* those of the whole stream read at once, and a refusal is never one that
\* further bytes would have lifted.  Where parsing paused, going on with what is
\* left in the buffer would complete them.
SplitIndependent ==
  LET whole == ParseAll([NewParser EXCEPT !.buffer_ = scenario.stream], <<>>)
  IN  server = "up" /\ ~parser.buffer_oversized_ =>
        /\ IsPrefix(parsed, whole.requests)
        /\ closing => whole.refused /\ parsed = whole.requests
        /\ fed = Len(scenario.stream) /\ ~closing => ParseAll(parser, parsed) = whole
        /\ fed = Len(scenario.stream) /\ pool = "room" =>
             closing = whole.refused /\ parsed = whole.requests

\* A value within the limits of the buffer, however it is cut and whatever follows it.
FitsTheBuffer(v) == Len(encode(v)) + Max(scenario.pieces) - 1 <= max_buffer_size

Fits(v) ==
  /\ v.array # <<>> /\ Len(v.array) <= max_array_size
  /\ \A i \in DOMAIN v.array : Len(v.array[i].bulk) <= max_bulk_size
  /\ FitsTheBuffer(v)

\* What make_request and encode() send, feed() and next() deliver: the same
\* arguments, CR, LF and empty strings included, in order, and no byte of what is
\* not parsed yet is lost, also while parsing pauses for the pool.  Unless the pool's
\* queue was full, all that arrived is parsed and only a request beyond the limits is
\* refused; after a pause the buffer may overflow with requests that each fit.
DeliversWhatWasSent ==
  server = "up" /\ Undamaged =>
    /\ IsPrefix(parsed, Requests)
    /\ ~closing => FlattenSeq([i \in DOMAIN parsed |-> encode(parsed[i])]) \o parser.buffer_
                     = SubSeq(scenario.stream, 1, fed)
    /\ closing /\ pool = "room" => \E i \in DOMAIN Requests : i > Len(parsed) /\ ~Fits(Requests[i])
    /\ fed = Len(scenario.stream) /\ ~closing /\ pool = "room" => parsed = Requests

\* Every reply can be encoded, whatever it quotes (a worker would end the
\* process otherwise), and the client reads the replies as they were meant; it
\* gives up only on an array of more elements than its own parser accepts, or on a
\* reply that may not fit its buffer.
RepliesReachTheClient ==
  /\ server # "dead"
  /\ IsPrefix(got, sent)
  /\ client \in {"malformed", "oversized"} =>
       LET v == sent[Len(got) + 1]
       IN  IF client = "malformed" THEN Holds(v, "array") /\ Len(v.array) > max_array_size
           ELSE ~FitsTheBuffer(v)

\* Neither a read nor a rejected write leaves a record, and an accepted write
\* leaves one: the log has a record for each reply of a write that is no error.
LogMatchesReplies ==
  server = "up" /\ persistence /\ ~closing /\ job = Idle =>
    Len(logged) = Cardinality({i \in DOMAIN sent :
      /\ ~Holds(sent[i], "error")
      /\ commands_[Lookup(extract_arguments(parsed[i])).handler].write})

\* EXPIRE checks that the deadline fits the steady clock, and counts it from a
\* later reading: it can exceed the clock's range by no more than the time that
\* went by since the check.
DeadlinesFitTheClock ==
  job.step = "apply" /\ job.at # nullopt => job.at - WallOffset <= SteadyMax + (now - job.since)

ApplyMutation(m, t, contents) ==
  Write(m.op, <<nullopt>> \o m.keys \o <<m.val>>, contents,
        IF m.at = nullopt THEN nullopt ELSE from_unix_ms(m.at), t).map

\* A deadline of a key that a later EXPIRE replaced has passed: the deadline of the
\* mutation before that EXPIRE, or the one the key had to begin with.
OutlivedADeadline(key) ==
  LET of == {i \in DOMAIN logged : key \in Range(logged[i].keys)}
      DeadlineBefore(e) ==
        LET earlier == {i \in of : i < e}
        IN  CASE earlier # {} -> logged[Max(earlier)].at
              [] key \in DOMAIN scenario.map /\ scenario.map[key].at # nullopt ->
                   to_unix_ms(scenario.map[key].at)
              [] OTHER -> nullopt
  IN  \E e \in of :
        /\ logged[e].op = "expire" /\ DeadlineBefore(e) # nullopt
        /\ from_unix_ms(DeadlineBefore(e)) <= wall(now)

\* Whenever no mutation is half done, replaying the log on what the server started
\* from restores each key, its deadline to the tick, though the log keeps deadlines in
\* milliseconds; the exception is a key with a replaced deadline that has passed,
\* which apply_record deletes by it: such a key may be missing, it is never wrong.
ReplayRestoresTheStore ==
  server = "up" /\ persistence /\ job.step # "apply" =>
    LET replayed == FoldLeft(LAMBDA contents, m : ApplyMutation(m, now, contents),
                             scenario.map, logged)
        Kept(contents, key) == IF key \in Live(contents, now) THEN contents[key] ELSE nullopt
    IN  \A key \in DOMAIN replayed \cup DOMAIN map :
          \/ Kept(replayed, key) = Kept(map, key)
          \/ OutlivedADeadline(key) /\ Kept(replayed, key) = nullopt

\* "An incomplete or corrupt WAL tail is truncated; earlier intact records are
\* kept" (docs/PERSISTENCE.md): what the bytes on disk decode to after a crash
\* is the snapshot that was exported and a prefix of the mutations logged since,
\* with fsync=always all that were answered, and recovery never refuses to start.
RecoveryReadsWhatWasLogged ==
  server = "recovered" =>
    LET from == IF snapshot = <<>> THEN 0 ELSE ReadSnapshot(snapshot).wal_offset
    IN  /\ ~recovered.threw
        /\ recovered.entries = exported
        /\ IsPrefix(recovered.mutations, SubSeq(logged, from + 1, Len(logged)))
        /\ scenario.mode = "always" => from + Len(recovered.mutations) >= answered

\* novacache-cli returns: a client whose requests arrive, or are refused, is
\* answered or cut off.  It may wait longer only if the pool's queue was full, and then
\* only for requests that are still in the parser's buffer or the socket: every request
\* that was parsed is answered even so.
ClientIsAnswered ==
  (Undamaged \/ closing) ~>
     \/ client # "waiting"
     \/ pool # "room" /\ ~closing /\ Len(got) = Len(parsed)

=============================================================================
