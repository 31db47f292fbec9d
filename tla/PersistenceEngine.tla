------------------------- MODULE PersistenceEngine -------------------------
(***************************************************************************)
(* The durability path of NovaCache: PersistenceEngine, the write-ahead    *)
(* log (WalWriter), the snapshot file (SnapshotStore) and what recovery    *)
(* does with them after the process is killed or the machine loses power.  *)
(*                                                                         *)
(* The engine mutex serialises the mutating commands, the snapshot and     *)
(* recovery, so one program counter `pc' stands for whichever of them      *)
(* holds it, the fsync thread of everysec excepted; that thread, the       *)
(* clock, expiry in the store, and crashes interleave with every step.     *)
(*                                                                         *)
(* Abstractions.  A WAL file is the sequence of records a scan of it       *)
(* returns (walRecs), whether it starts with a valid header (walHdr) and   *)
(* whether a partial or corrupt record follows (walTorn); checksums and    *)
(* byte layout are what makes those three observable.  The wall clock      *)
(* never steps back.  A deadline is a time; Never stands for nullopt.      *)
(*                                                                         *)
(* Ghost state.  Every record carries the version and the abstract state   *)
(* it establishes (ver, post) and the time it was logged; every snapshot   *)
(* the version and abstract state it stands for (ver, base).  The code     *)
(* never reads them.                                                       *)
(***************************************************************************)
EXTENDS Integers, Sequences

CONSTANTS
  Keys, Values,
  Ttls,          \* seconds an EXPIRE may ask for; 0 stands for every ttl <= 0
  FsyncMode,     \* PersistenceConfig::fsync
  Periodic,      \* snapshot_interval_seconds > 0
  Absent,        \* no entry for a key
  NoRecord,      \* no mutation in progress
  Never,         \* a deadline later than any the clock reaches
  MaxTime, MaxOps, MaxCrashes, MaxFaults   \* bounds

ASSUME ConstantsAssumption ==
  /\ FsyncMode \in {"always", "everysec", "none"}
  /\ Periodic \in BOOLEAN
  /\ Ttls \subseteq Nat
  /\ {MaxTime, MaxOps, MaxCrashes, MaxFaults, Never} \subseteq Nat
  /\ \A d \in Ttls : MaxTime + d < Never
  /\ MaxTime < Never

(***************************************************************************)
(* An entry of the store; its abstract counterpart also remembers `low',   *)
(* the earliest deadline the key was ever given since it was last SET or   *)
(* covered by a completed snapshot.                                        *)
(***************************************************************************)
Entry == [val : Values, exp : 0 .. Never]
AbsEntry == {e \in [val : Values, exp : 0 .. Never, low : 0 .. Never] : e.low <= e.exp}

ASSUME AbsentAssumption == Absent \notin Values \cup Entry \cup AbsEntry

StoreMap == [Keys -> Entry \cup {Absent}]
AbsMap == [Keys -> AbsEntry \cup {Absent}]
EmptyMap == [k \in Keys |-> Absent]

Record == {r \in [off : Nat, kind : {"set", "del", "expire"}, keys : SUBSET Keys,
                  val : Values \cup {Absent}, at : 0 .. Never,
                  time : 0 .. MaxTime, ver : Nat, post : AbsMap] :
             r.kind = "set" => r.val # Absent}

Snapshot == [off : Nat, map : StoreMap, ver : Nat, base : AbsMap]
NoSnapshot == [off |-> 0, map |-> EmptyMap, ver |-> 0, base |-> EmptyMap]

VARIABLES
  now,          \* the wall clock
  phase,        \* life of the process
  pc,           \* step of whoever holds the engine mutex
  stopping,     \* stopping_: shutdown() has asked the fsync thread to stop
  fsync_thread, \* where the fsync thread is
  store,        \* Store: key -> entry
  last_offset,  \* WalWriter::last_offset_
  job,          \* the record of the mutating command in progress
  pend,         \* the snapshot being written
  pos,          \* records already replayed by recover_into
  walRecs, walHdr, walTorn,   \* the WAL file as the kernel shows it
  walSynced,    \* its first walSynced records are on stable storage
  shadow,       \* older contents power loss may bring back: truncation not synced
  snap,         \* dump.ncs as the kernel shows it
  snapDisk,     \* dump.ncs on stable storage
  cur,          \* ghost: abstract state after the last acknowledged mutation
  ver,          \* ghost: version of the last logged mutation
  unsure,       \* ghost: keys of mutations whose reply was not yet sent
  synced,       \* ghost: version the last completed fsync covers
  exposed,      \* ghost: will recovery miss a mutation?  "pending": the next one
                \* logged; "yes": one that was logged, or the truncated ones
  lost,         \* ghost: power was lost since the engine last came up
  ops, crashes, faults   \* bounded counters

clockVars == <<now>>
memVars == <<phase, pc, stopping, fsync_thread, store, last_offset, job, pend, pos>>
walVars == <<walRecs, walHdr, walTorn, walSynced, shadow>>
snapVars == <<snap, snapDisk>>
ghostVars == <<cur, ver, unsure, synced, exposed, lost>>
bounds == <<ops, crashes, faults>>
vars == <<now, phase, pc, stopping, fsync_thread, store, last_offset, job, pend, pos,
          walRecs, walHdr, walTorn, walSynced, shadow, snap, snapDisk,
          cur, ver, unsure, synced, exposed, lost, ops, crashes, faults>>

-----------------------------------------------------------------------------
(* What a record does to the store, at run time and on replay.             *)

Live(e, t) == e # Absent /\ e.exp > t

\* Store::set, del_many and expire_at on one of the keys of the record.
ApplyKey(e, r, t) ==
  IF r.kind = "set" THEN [val |-> r.val, exp |-> Never]
  ELSE IF r.kind = "expire" /\ Live(e, t) /\ r.at > t THEN [val |-> e.val, exp |-> r.at]
  ELSE Absent

apply_record(m, r, t) ==
  [k \in Keys |-> IF k \in r.keys THEN ApplyKey(m[k], r, t) ELSE m[k]]

\* export_snapshot_entries, and import_snapshot_entry: entries not yet due.
Unexpired(m, t) == [k \in Keys |-> IF Live(m[k], t) THEN m[k] ELSE Absent]

Earlier(a, b) == IF a <= b THEN a ELSE b

\* The abstract meaning of a mutation acknowledged at time r.time.
AbsKey(e, r) ==
  IF r.kind = "set" THEN [val |-> r.val, exp |-> Never, low |-> Never]
  ELSE IF r.kind = "expire" /\ Live(e, r.time) /\ r.at > r.time
    THEN [val |-> e.val, exp |-> r.at, low |-> Earlier(e.low, r.at)]
  ELSE Absent

AbsApply(m, r) == [k \in Keys |-> IF k \in r.keys THEN AbsKey(m[k], r) ELSE m[k]]

\* The abstract state a store contents stands for when nothing older matters.
Lift(m) == [k \in Keys |-> IF m[k] = Absent THEN Absent
                           ELSE [val |-> m[k].val, exp |-> m[k].exp, low |-> m[k].exp]]

(***************************************************************************)
(* Contents m is faithful to abstract state a at time t: it holds nothing  *)
(* a does not hold, and every key of a none of whose deadlines has passed. *)
(***************************************************************************)
Faithful(m, a, t) ==
  \A k \in Keys :
    /\ m[k] # Absent => /\ a[k] # Absent
                        /\ m[k].val = a[k].val
                        /\ m[k].exp = a[k].exp
    /\ (a[k] # Absent /\ a[k].low > t) => m[k] # Absent

\* The version and the abstract state that log rs on top of snapshot s reach.
Covers(rs, s) == rs # <<>> /\ rs[Len(rs)].off > s.off
LatestVer(rs, s) == IF Covers(rs, s) THEN rs[Len(rs)].ver ELSE s.ver
LatestState(rs, s) == IF Covers(rs, s) THEN rs[Len(rs)].post ELSE s.base

Prefix(rs, n) == SubSeq(rs, 1, n)

-----------------------------------------------------------------------------
Init ==
  /\ now = 0 /\ phase = "down" /\ pc = "idle" /\ stopping = FALSE
  /\ fsync_thread = "none" /\ store = EmptyMap /\ last_offset = 0 /\ job = NoRecord
  /\ pend = NoSnapshot /\ pos = 0
  /\ walRecs = <<>> /\ walHdr = FALSE /\ walTorn = FALSE /\ walSynced = 0
  /\ shadow = {} /\ snap = NoSnapshot /\ snapDisk = NoSnapshot
  /\ cur = EmptyMap /\ ver = 0 /\ unsure = {} /\ synced = 0
  /\ exposed = "no" /\ lost = FALSE
  /\ ops = 0 /\ crashes = 0 /\ faults = 0

\* What a power loss may leave of the WAL file.
WalImages == shadow \cup {Prefix(walRecs, n) : n \in walSynced .. Len(walRecs)}

\* fsync(2) of the WAL file: everything written so far is on stable storage.
SyncWal ==
  /\ walSynced' = Len(walRecs)
  /\ shadow' = {}
  /\ synced' = ver

NoSync == UNCHANGED <<walSynced, shadow, synced>>

-----------------------------------------------------------------------------
(* Recovery: the constructor and recover_into.                             *)

\* store.clear(), SnapshotStore::read and the import loop.  The file can be read.
Load(m) ==
  /\ phase = "down"
  /\ phase' = "loaded"
  /\ store' = m
  /\ UNCHANGED <<now, pc, stopping, fsync_thread, last_offset, job, pend, pos>>
  /\ UNCHANGED walVars /\ UNCHANGED snapVars /\ UNCHANGED ghostVars /\ UNCHANGED bounds

\* Fault: the reader ignores the deadline of an entry.
LoadWithoutDeadlines ==
  Load([k \in Keys |-> IF Live(snap.map[k], now) THEN [snap.map[k] EXCEPT !.exp = Never]
                                                ELSE Absent])

LoadSnapshot == Load(Unexpired(snap.map, now))

\* A file without a valid header is emptied and given one; a torn tail is cut
\* off and the file fsynced.
OpenLog(torn) ==
  /\ phase = "loaded"
  /\ phase' = "replay"
  /\ pos' = 0
  /\ walHdr' = TRUE
  /\ walTorn' = torn
  /\ last_offset' = IF walRecs = <<>> THEN 0 ELSE walRecs[Len(walRecs)].off
  /\ IF walHdr /\ walTorn
       THEN walSynced' = Len(walRecs) /\ shadow' = {}
       ELSE UNCHANGED <<walSynced, shadow>>
  /\ UNCHANGED <<now, pc, stopping, fsync_thread, store, job, pend, walRecs>>
  /\ UNCHANGED snapVars /\ UNCHANGED ghostVars /\ UNCHANGED bounds

\* Fault: the corrupt tail stays in the file.
OpenKeepingTail == OpenLog(walTorn)

open_and_recover == OpenLog(FALSE)

\* One turn of the replay loop: records the snapshot covers are skipped.
ReplayRecord ==
  /\ phase = "replay"
  /\ pos < Len(walRecs)
  /\ pos' = pos + 1
  /\ store' = IF walRecs[pos + 1].off <= snap.off THEN store
              ELSE apply_record(store, walRecs[pos + 1], now)
  /\ UNCHANGED <<now, phase, pc, stopping, fsync_thread, last_offset, job, pend>>
  /\ UNCHANGED walVars /\ UNCHANGED snapVars /\ UNCHANGED ghostVars /\ UNCHANGED bounds

\* Fault: recover_into starts the thread in the wrong mode.
StartForAlways == IF FsyncMode = "always" THEN "loop" ELSE "none"

start_fsync_thread == IF FsyncMode = "everysec" THEN "loop" ELSE "none"

\* The end of recover_into: the server starts to serve what was recovered.
\* last_offset_ is what the WAL scan left, whatever offset the snapshot has.
Serve ==
  /\ phase = "replay"
  /\ pos = Len(walRecs)
  /\ phase' = "up"
  /\ pos' = 0
  /\ ver' = LatestVer(walRecs, snap)
  /\ cur' = IF exposed = "yes" THEN Lift(store) ELSE LatestState(walRecs, snap)
  /\ exposed' = IF exposed = "yes" THEN "yes"
                ELSE IF last_offset < snap.off \/ last_offset < snapDisk.off THEN "pending"
                ELSE "no"
  /\ lost' = FALSE
  /\ fsync_thread' = start_fsync_thread
  /\ UNCHANGED <<now, pc, stopping, store, last_offset, job, pend, unsure, synced>>
  /\ UNCHANGED walVars /\ UNCHANGED snapVars /\ UNCHANGED bounds

-----------------------------------------------------------------------------
(* The mutating commands: append, durability_action, store, reply.         *)

\* The fsync thread holds the engine mutex from its lock to its wait.
MutexFree == pc = "idle" /\ fsync_thread # "locked"

NewRecord(kind, keys, val, at) ==
  LET blank == [off |-> last_offset + 1, kind |-> kind, keys |-> keys, val |-> val,
                at |-> at, time |-> now, ver |-> ver + 1, post |-> EmptyMap]
  IN  [blank EXCEPT !.post = AbsApply(cur, blank)]

\* WalWriter::append at the end of the file.  Where no scan will find it
\* (no header, or bytes after a torn record) it does not join walRecs.
AppendAt(r, off) ==
  /\ phase = "up" /\ MutexFree /\ ops < MaxOps
  /\ pc' = "appended"
  /\ job' = r
  /\ last_offset' = off
  /\ walRecs' = IF walHdr /\ ~walTorn THEN Append(walRecs, r) ELSE walRecs
  /\ ver' = r.ver
  /\ unsure' = unsure \cup r.keys
  /\ exposed' = IF exposed = "pending" THEN "yes" ELSE exposed
  /\ ops' = ops + 1
  /\ UNCHANGED <<now, phase, stopping, fsync_thread, store, pend, pos, walHdr, walTorn,
                 walSynced, shadow, cur, synced, lost, crashes, faults>>
  /\ UNCHANGED snapVars

\* Fault: last_offset_ is not advanced.
AppendKeepingOffset(r) == AppendAt(r, last_offset)

append(r) == AppendAt(r, r.off)

durable_set(k, v) == append(NewRecord("set", {k}, v, Never))
durable_del(ks) == append(NewRecord("del", ks, Absent, Never))
durable_expire(k, ttl) == append(NewRecord("expire", {k}, Absent, now + ttl))

Durability(modes) ==
  /\ pc = "appended"
  /\ pc' = "logged"
  /\ IF FsyncMode \in modes THEN SyncWal ELSE NoSync
  /\ UNCHANGED <<now, phase, stopping, fsync_thread, store, last_offset, job, pend, pos>>
  /\ UNCHANGED <<walRecs, walHdr, walTorn, cur, ver, unsure, exposed, lost>>
  /\ UNCHANGED snapVars /\ UNCHANGED bounds

\* Fault: the record is left to the page cache in every mode.
DurabilityNever == Durability({})

durability_action == Durability({"always"})

\* The store mutation, at the clock it then reads, and the reply.
Reply(next) ==
  /\ pc = "logged"
  /\ pc' = "idle"
  /\ store' = apply_record(store, job, now)
  /\ cur' = job.post
  /\ unsure' = {}
  /\ job' = next
  /\ UNCHANGED <<now, phase, stopping, fsync_thread, last_offset, pend, pos, ver, synced, exposed, lost>>
  /\ UNCHANGED walVars /\ UNCHANGED snapVars /\ UNCHANGED bounds

\* Fault: the finished command still owns the engine.
ReplyKeepingJob == Reply(job)

ApplyAndReply == Reply(NoRecord)

\* Lazy expiry by a read, or the active expiry cycle: no engine mutex, no log.
ExpireKey(k) ==
  /\ phase = "up"
  /\ store[k] # Absent /\ ~Live(store[k], now)
  /\ store' = [store EXCEPT ![k] = Absent]
  /\ UNCHANGED <<now, phase, pc, stopping, fsync_thread, last_offset, job, pend, pos>>
  /\ UNCHANGED walVars /\ UNCHANGED snapVars /\ UNCHANGED ghostVars /\ UNCHANGED bounds

-----------------------------------------------------------------------------
(* The thread of start_fsync_thread, and how shutdown stops it.            *)

ThreadStep(from, to) ==
  /\ phase = "up"
  /\ fsync_thread = from
  /\ fsync_thread' = to
  /\ UNCHANGED <<phase, pc, stopping, store, last_offset, job, pend, pos>>
  /\ UNCHANGED walVars /\ UNCHANGED ghostVars
  /\ UNCHANGED clockVars /\ UNCHANGED snapVars /\ UNCHANGED bounds

\* The loop condition, then the lock and the predicate of wait_for.
TestStop ==
  \/ stopping /\ ThreadStep("loop", "done")
  \/ ~stopping /\ MutexFree /\ ThreadStep("loop", "locked")

\* wait_for gives the mutex up and blocks.
Block == ThreadStep("locked", "waiting")

\* wait_for returns, with the mutex, after a notification or a timeout.
Awake(from) == MutexFree /\ ThreadStep(from, IF stopping THEN "done" ELSE "sync")

\* Fault: a wait without a timeout.
WakeWhenNotified == Awake("woken")

Wake == Awake("woken") \/ Awake("waiting")

\* wal_->sync(); it takes the WAL mutex, which truncate_after holds from its
\* ftruncate to its fsync.
BackgroundSync ==
  /\ phase = "up" /\ fsync_thread = "sync"
  /\ pc \notin {"truncated", "header"}
  /\ fsync_thread' = "loop"
  /\ SyncWal
  /\ UNCHANGED <<phase, pc, stopping, store, last_offset, job, pend, pos>>
  /\ UNCHANGED <<walRecs, walHdr, walTorn, cur, ver, unsure, exposed, lost>>
  /\ UNCHANGED clockVars /\ UNCHANGED snapVars /\ UNCHANGED bounds

FsyncThread == TestStop \/ Block \/ Wake \/ BackgroundSync

\* The first half of shutdown: stopping_ is set and the condition notified, both
\* without the mutex.  The thread that calls it is the one that runs snapshots.
stop_fsync_thread ==
  /\ phase = "up" /\ ~stopping
  /\ pc \in {"idle", "appended", "logged"}
  /\ stopping' = TRUE
  /\ fsync_thread' = IF fsync_thread = "waiting" THEN "woken" ELSE fsync_thread
  /\ UNCHANGED <<now, phase, pc, store, last_offset, job, pend, pos>>
  /\ UNCHANGED walVars /\ UNCHANGED snapVars /\ UNCHANGED ghostVars /\ UNCHANGED bounds

\* join() has returned, or there is nothing to join.
Joined == fsync_thread \in {"none", "done"}

-----------------------------------------------------------------------------
(* snapshot_now and shutdown: export, SnapshotStore::write, truncate_after. *)

\* wal_->sync() unless the mode is none, then export_snapshot_entries, which
\* also erases what is due.
SnapshotBegin(stop) ==
  /\ phase = "up" /\ MutexFree /\ stopping = stop
  /\ IF stop THEN Joined ELSE Periodic
  /\ pc' = "exported"
  /\ store' = Unexpired(store, now)
  /\ pend' = [off |-> last_offset, map |-> Unexpired(store, now), ver |-> ver, base |-> cur]
  /\ IF FsyncMode # "none" THEN SyncWal ELSE NoSync
  /\ UNCHANGED <<now, phase, stopping, fsync_thread, last_offset, job, pos>>
  /\ UNCHANGED <<walRecs, walHdr, walTorn, cur, ver, unsure, exposed, lost>>
  /\ UNCHANGED snapVars /\ UNCHANGED bounds

snapshot_now == SnapshotBegin(FALSE)
shutdown == SnapshotBegin(TRUE)

\* Records of an un-synced truncation that recovery would replay over s, because
\* s was given a smaller offset than the snapshot that covered them.
Resurfacing(s) == \E rs \in shadow : Covers(rs, s)

\* dump.ncs.tmp is complete and fsynced; the rename makes it dump.ncs.
Rename(next) ==
  /\ pc = "exported"
  /\ pc' = next
  /\ snap' = pend
  /\ exposed' = IF Resurfacing(pend) THEN "yes" ELSE exposed
  /\ UNCHANGED <<now, phase, stopping, fsync_thread, store, last_offset, job, pend, pos, snapDisk>>
  /\ UNCHANGED <<cur, ver, unsure, synced, lost>>
  /\ UNCHANGED walVars /\ UNCHANGED bounds

\* Fault: the directory is not fsynced before the WAL is truncated.
RenameUnsynced == Rename("dirsynced")

RenameSnapshot == Rename("renamed")

\* fsync_parent_directory: the rename is on stable storage.  From here every
\* recovery starts from this snapshot, and the abstract state with it.
SyncDirectory ==
  /\ pc = "renamed"
  /\ pc' = "dirsynced"
  /\ snap' = [snap EXCEPT !.base = Lift(snap.map)]
  /\ snapDisk' = [snap EXCEPT !.base = Lift(snap.map)]
  /\ cur' = Lift(snap.map)
  /\ unsure' = {}
  /\ synced' = ver
  /\ exposed' = IF Resurfacing(snap) THEN "yes" ELSE IF walHdr THEN "no" ELSE "pending"
  /\ UNCHANGED <<now, phase, stopping, fsync_thread, store, last_offset, job, pend, pos, ver, lost>>
  /\ UNCHANGED walVars /\ UNCHANGED bounds

\* fsync_parent_directory ignores a failed open or fsync.
SyncDirectoryFails ==
  /\ pc = "renamed" /\ faults < MaxFaults
  /\ pc' = "dirsynced"
  /\ faults' = faults + 1
  /\ exposed' = "yes"
  /\ UNCHANGED <<now, phase, stopping, fsync_thread, store, last_offset, job, pend, pos>>
  /\ UNCHANGED <<cur, ver, unsure, synced, lost, ops, crashes>>
  /\ UNCHANGED walVars /\ UNCHANGED snapVars

\* truncate_after, first step: ftruncate(fd, 0).  Until the next fsync of the
\* file a power loss may bring back what it held.
TruncateWal ==
  /\ pc = "dirsynced"
  /\ pc' = "truncated"
  /\ walRecs' = <<>> /\ walHdr' = FALSE /\ walTorn' = FALSE /\ walSynced' = 0
  /\ shadow' = WalImages
  /\ UNCHANGED <<now, phase, stopping, fsync_thread, store, last_offset, job, pend, pos>>
  /\ UNCHANGED <<cur, ver, unsure, synced, exposed, lost>>
  /\ UNCHANGED snapVars /\ UNCHANGED bounds

RestartLog(off) ==
  /\ pc = "truncated"
  /\ pc' = "header"
  /\ walHdr' = TRUE
  /\ last_offset' = off
  /\ UNCHANGED <<now, phase, stopping, fsync_thread, store, job, pend, pos>>
  /\ UNCHANGED <<walRecs, walTorn, walSynced, shadow>>
  /\ UNCHANGED snapVars /\ UNCHANGED ghostVars /\ UNCHANGED bounds

\* Fault: the offsets start again.
RestartLogAtZero == RestartLog(0)

write_header == RestartLog(pend.off)

\* The end of snapshot_now, or of shutdown, after which the process exits.
SnapshotEnd ==
  /\ pc' = "idle"
  /\ phase' = IF stopping THEN "down" ELSE "up"
  /\ store' = IF stopping THEN EmptyMap ELSE store
  /\ stopping' = FALSE
  /\ fsync_thread' = IF stopping THEN "none" ELSE fsync_thread
  /\ pend' = NoSnapshot

FinishSnapshot ==
  /\ pc = "header"
  /\ SnapshotEnd
  /\ SyncWal
  /\ exposed' = IF snapDisk = snap THEN "no" ELSE exposed
  /\ UNCHANGED <<now, last_offset, job, pos, walRecs, walHdr, walTorn>>
  /\ UNCHANGED <<cur, ver, unsure, lost>>
  /\ UNCHANGED snapVars /\ UNCHANGED bounds

\* The write or rename of the snapshot, the ftruncate, the header write or the
\* last fsync throws; Server::run and ~Server swallow the exception.
SnapshotFails ==
  /\ pc \in {"exported", "dirsynced", "truncated", "header"} /\ faults < MaxFaults
  /\ faults' = faults + 1
  /\ SnapshotEnd
  /\ exposed' = IF pc = "truncated" /\ exposed = "no" THEN "pending" ELSE exposed
  /\ UNCHANGED <<now, last_offset, job, pos, ops, crashes>>
  /\ UNCHANGED <<cur, ver, unsure, synced, lost>>
  /\ UNCHANGED walVars /\ UNCHANGED snapVars

-----------------------------------------------------------------------------
(* The environment: time and crashes.                                      *)

Tick ==
  /\ now < MaxTime
  /\ now' = now + 1
  /\ UNCHANGED memVars /\ UNCHANGED walVars /\ UNCHANGED snapVars
  /\ UNCHANGED ghostVars /\ UNCHANGED bounds

ProcessGone ==
  /\ phase # "down" /\ crashes < MaxCrashes
  /\ crashes' = crashes + 1
  /\ phase' = "down" /\ pc' = "idle" /\ stopping' = FALSE
  /\ fsync_thread' = "none" /\ store' = EmptyMap
  /\ job' = NoRecord /\ pend' = NoSnapshot /\ pos' = 0 /\ last_offset' = 0
  /\ UNCHANGED <<now, cur, ver, unsure, synced, exposed, ops, faults>>

\* A command may be inside append's write whenever it could have finished it.
Appending == phase = "up" /\ MutexFree

\* The process is killed, or an exception ends it: the kernel keeps the files.
\* A kill inside append's write leaves a partial record.
Kill ==
  /\ ProcessGone
  /\ walTorn' \in {walTorn, walTorn \/ Appending}
  /\ UNCHANGED <<walRecs, walHdr, walSynced, shadow, lost>>
  /\ UNCHANGED snapVars

\* Power loss: of each file some state between the last fsync and the latest
\* write remains.
PowerLoss ==
  /\ ProcessGone
  /\ lost' = TRUE
  /\ \E rs \in WalImages :
       /\ walRecs' = rs
       /\ walSynced' = Len(rs)
       /\ walHdr' \in (IF rs = <<>> THEN {walHdr, FALSE} ELSE {TRUE})
       /\ walTorn' \in {FALSE, walTorn \/ Appending \/ rs # walRecs}
  /\ shadow' = {}
  /\ \E s \in {snap, snapDisk} : snap' = s /\ snapDisk' = s

Next ==
  \/ LoadSnapshot \/ open_and_recover \/ ReplayRecord \/ Serve
  \/ \E k \in Keys, v \in Values : durable_set(k, v)
  \/ \E ks \in SUBSET Keys \ {{}} : durable_del(ks)
  \/ \E k \in Keys, ttl \in Ttls : durable_expire(k, ttl)
  \/ durability_action \/ ApplyAndReply
  \/ \E k \in Keys : ExpireKey(k)
  \/ TestStop \/ Block \/ Wake \/ BackgroundSync \/ stop_fsync_thread
  \/ snapshot_now \/ shutdown \/ RenameSnapshot
  \/ SyncDirectory \/ SyncDirectoryFails
  \/ TruncateWal \/ write_header \/ FinishSnapshot \/ SnapshotFails
  \/ Tick \/ Kill \/ PowerLoss

Spec == Init /\ [][Next]_vars

(***************************************************************************)
(* The fsync thread goes on (its wait times out, it swallows errors), so   *)
(* does whoever holds the engine mutex, and shutdown once it has joined.   *)
(* Crashes, time, clients and the decision to stop are free.               *)
(***************************************************************************)
EngineStep ==
  \/ durability_action \/ ApplyAndReply \/ RenameSnapshot \/ SyncDirectory
  \/ TruncateWal \/ write_header \/ FinishSnapshot \/ shutdown

FairSpec == Spec /\ WF_vars(FsyncThread) /\ WF_vars(EngineStep)

-----------------------------------------------------------------------------
(* Properties.                                                             *)

\* Types; every abstract entry remembers a deadline no later than its own.
TypeOK ==
  /\ now \in 0 .. MaxTime
  /\ phase \in {"down", "loaded", "replay", "up"}
  /\ pc \in {"idle", "appended", "logged", "exported", "renamed", "dirsynced",
             "truncated", "header"}
  /\ stopping \in BOOLEAN
  /\ fsync_thread \in {"none", "loop", "locked", "waiting", "woken", "sync", "done"}
  /\ store \in StoreMap
  /\ last_offset \in Nat
  /\ IF pc \in {"appended", "logged"} THEN job \in Record ELSE job = NoRecord
  /\ pend \in Snapshot
  /\ pos \in 0 .. Len(walRecs)
  /\ walRecs \in Seq(Record)
  /\ walHdr \in BOOLEAN /\ walTorn \in BOOLEAN
  /\ walSynced \in 0 .. Len(walRecs)
  /\ shadow \subseteq Seq(Record)
  /\ snap \in Snapshot /\ snapDisk \in Snapshot
  /\ cur \in AbsMap /\ ver \in Nat /\ synced \in Nat
  /\ unsure \subseteq Keys
  /\ exposed \in {"no", "pending", "yes"}
  /\ lost \in BOOLEAN
  /\ {ops, crashes, faults} \subseteq Nat

\* recover_into has replayed its last record and is about to return.
Recovered == phase = "replay" /\ pos = Len(walRecs)

\* open_and_recover throws on offsets that do not increase, and the server then
\* never starts again: no contents the WAL can have after a crash makes it throw.
ScanNeverThrows ==
  \A rs \in WalImages :
    \A i, j \in 1 .. Len(rs) : i < j => rs[i].off < rs[j].off

\* Every mutation is in the snapshot or in the log: whatever a crash leaves of
\* the WAL starts no later than right after whichever snapshot recovery may
\* load, and the next append is one that snapshot does not hide.
LogContinuesSnapshot ==
  exposed = "no" =>
    \A s \in {snap, snapDisk} :
      /\ \A rs \in WalImages : rs # <<>> => rs[1].off <= s.off + 1
      /\ phase = "up" => last_offset >= s.off

\* Recovery yields the state of one moment of the history, none older than the
\* last completed fsync, and invents nothing: each recovered entry is of that
\* state, and each of its entries none of whose deadlines passed is recovered.
RecoveredStateIsAPrefix ==
  Recovered /\ exposed # "yes" =>
    /\ LatestVer(walRecs, snap) >= synced
    /\ Faithful(store, LatestState(walRecs, snap), now)

\* With fsync=always after any crash, and in every mode after a mere kill of the
\* process, recovery restores each key as the last acknowledged reply left it,
\* except keys of a mutation not yet replied to and keys one of whose deadlines
\* has passed meanwhile.
AckedWritesSurviveAligned ==
  Recovered /\ exposed # "yes" /\ (FsyncMode = "always" \/ ~lost) =>
    \A k \in Keys \ unsure :
      /\ store[k] # Absent => /\ cur[k] # Absent
                              /\ store[k].val = cur[k].val /\ store[k].exp = cur[k].exp
      /\ cur[k] # Absent /\ cur[k].low > now => store[k] # Absent

\* README: recovery restores acknowledged writes under fsync=always.
AckedWritesSurvive ==
  Recovered /\ FsyncMode = "always" =>
    \A k \in Keys \ unsure :
      Live(cur[k], now) => store[k] # Absent /\ store[k].val = cur[k].val

\* PERSISTENCE.md, everysec: an appended record is fsynced about a second later,
\* unless the process stops first.
AppendedIsFsynced ==
  \A v \in 1 .. MaxOps : (phase = "up" /\ ver = v) ~> (synced >= v \/ phase = "down")

\* shutdown returns: the notification of stop_fsync_thread, sent without the
\* mutex, may miss a thread between its test and its wait, and the join would
\* then wait for ever but for the timeout of that wait.
EngineShutdownReturns == (phase = "up" /\ stopping) ~> (phase = "down")

=============================================================================
