---------------------- MODULE PersistenceEngineProofs ----------------------
(***************************************************************************)
(* Theorems about PersistenceEngine, for every set of keys and values,     *)
(* every fsync mode and every bound.                                       *)
(***************************************************************************)
EXTENDS PersistenceEngine, SequenceTheorems, TLAPS

USE DEF clockVars, memVars, walVars, snapVars, ghostVars, bounds

-----------------------------------------------------------------------------
(* The operators of the model preserve types.                              *)

\* No entry of the store and no abstract entry is the value Absent.
LEMMA EmptyMapTypes == EmptyMap \in StoreMap /\ EmptyMap \in AbsMap
BY Zenon DEF EmptyMap, StoreMap, AbsMap

\* Applying a record to store contents yields store contents.
LEMMA ApplyRecordType ==
  ASSUME NEW m \in StoreMap, NEW r \in Record, NEW t \in Nat
  PROVE  apply_record(m, r, t) \in StoreMap
<1>1. SUFFICES ASSUME NEW k \in Keys
               PROVE  ApplyKey(m[k], r, t) \in Entry \cup {Absent} /\ m[k] \in Entry \cup {Absent}
  BY Zenon DEF apply_record, StoreMap
<1>2. m[k] \in Entry \cup {Absent}
  BY Zenon DEF StoreMap
<1>3. Never \in 0 .. Never
  BY ConstantsAssumption
<1>4. CASE r.kind = "set"
  BY <1>2, <1>3, <1>4, Zenon DEF ApplyKey, Entry, Record
<1>5. CASE r.kind = "del"
  BY <1>2, <1>5, Zenon DEF ApplyKey
<1>6. CASE r.kind = "expire"
  BY <1>2, <1>6, Zenon DEF ApplyKey, Live, Entry, Record
<1> QED
  BY <1>4, <1>5, <1>6, Zenon DEF Record

\* Dropping what is due leaves store contents.
LEMMA UnexpiredType ==
  ASSUME NEW m \in StoreMap, NEW t \in Nat
  PROVE  Unexpired(m, t) \in StoreMap
BY Zenon DEF Unexpired, StoreMap

\* Lifted store contents are an abstract state.
LEMMA LiftType ==
  ASSUME NEW m \in StoreMap
  PROVE  Lift(m) \in AbsMap
<1>1. SUFFICES ASSUME NEW k \in Keys, m[k] # Absent
               PROVE  [val |-> m[k].val, exp |-> m[k].exp, low |-> m[k].exp] \in AbsEntry
  BY Zenon DEF Lift, AbsMap
<1>2. m[k] \in Entry
  BY <1>1, Zenon DEF StoreMap
<1> QED
  BY <1>2, ConstantsAssumption DEF Entry, AbsEntry

\* A logged mutation maps an abstract state to an abstract state.
LEMMA AbsApplyType ==
  ASSUME NEW m \in AbsMap, NEW r,
         r.kind \in {"set", "del", "expire"}, r.kind = "set" => r.val \in Values,
         r.at \in 0 .. Never, r.time \in Nat
  PROVE  AbsApply(m, r) \in AbsMap
<1>1. SUFFICES ASSUME NEW k \in Keys
               PROVE  AbsKey(m[k], r) \in AbsEntry \cup {Absent} /\ m[k] \in AbsEntry \cup {Absent}
  BY Zenon DEF AbsApply, AbsMap
<1>2. m[k] \in AbsEntry \cup {Absent}
  BY Zenon DEF AbsMap
<1>3. Never \in 0 .. Never
  BY ConstantsAssumption
<1>4. CASE r.kind = "set"
  BY <1>2, <1>3, <1>4 DEF AbsKey, AbsEntry
<1>5. CASE r.kind = "del"
  BY <1>2, <1>5, Zenon DEF AbsKey
<1>6. CASE r.kind = "expire"
  <2>1. CASE Live(m[k], r.time) /\ r.at > r.time
    <3>1. m[k] \in AbsEntry
      BY <1>2, <2>1, Zenon DEF Live
    <3>2. Earlier(m[k].low, r.at) \in 0 .. Never /\ Earlier(m[k].low, r.at) <= r.at
      BY <3>1, ConstantsAssumption DEF Earlier, AbsEntry
    <3> QED
      BY <1>2, <1>6, <2>1, <3>1, <3>2, Zenon DEF AbsKey, AbsEntry
  <2>2. CASE ~(Live(m[k], r.time) /\ r.at > r.time)
    BY <1>2, <1>6, <2>2, Zenon DEF AbsKey
  <2> QED
    BY <2>1, <2>2, Zenon
<1> QED
  BY <1>4, <1>5, <1>6, Zenon

\* A record built by a mutating command is well formed.
LEMMA NewRecordType ==
  ASSUME NEW kind \in {"set", "del", "expire"}, NEW keys \in SUBSET Keys,
         NEW val \in Values \cup {Absent}, kind = "set" => val # Absent,
         NEW at \in 0 .. Never, last_offset \in Nat, now \in 0 .. MaxTime,
         ver \in Nat, cur \in AbsMap
  PROVE  /\ NewRecord(kind, keys, val, at) \in Record
         /\ NewRecord(kind, keys, val, at).off = last_offset + 1
         /\ NewRecord(kind, keys, val, at).ver = ver + 1
         /\ NewRecord(kind, keys, val, at).keys = keys
<1> DEFINE blank == [off |-> last_offset + 1, kind |-> kind, keys |-> keys, val |-> val,
                     at |-> at, time |-> now, ver |-> ver + 1, post |-> EmptyMap]
<1>1. AbsApply(cur, blank) \in AbsMap
  BY AbsApplyType, ConstantsAssumption
<1> QED
  BY <1>1, ConstantsAssumption DEF NewRecord, Record

\* A prefix of a log is a log with the same first records.
LEMMA PrefixFacts ==
  ASSUME NEW S, NEW rs \in Seq(S), NEW n \in 0 .. Len(rs)
  PROVE  /\ Prefix(rs, n) \in Seq(S)
         /\ Len(Prefix(rs, n)) = n
         /\ \A i \in 1 .. n : Prefix(rs, n)[i] = rs[i]
BY SubSeqProperties DEF Prefix

\* Offsets are natural numbers.
LEMMA LogOffsets ==
  ASSUME NEW rs \in Seq(Record), NEW i \in 1 .. Len(rs)
  PROVE  rs[i] \in Record /\ rs[i].off \in Nat
<1>1. rs[i] \in Record
  OBVIOUS
<1> QED
  BY <1>1, Zenon DEF Record

\* Everything a power loss may leave of the WAL is a log.
LEMMA WalImagesType ==
  ASSUME walRecs \in Seq(Record), shadow \subseteq Seq(Record),
         walSynced \in 0 .. Len(walRecs)
  PROVE  WalImages \subseteq Seq(Record)
BY PrefixFacts DEF WalImages

-----------------------------------------------------------------------------
(* Type correctness.                                                       *)

\* What the type invariant needs to be inductive: only a running engine is in
\* the middle of an operation, and only recovery has a replay position.
Control ==
  /\ pc # "idle" => phase = "up"
  /\ phase # "replay" => pos = 0

\* The types, made inductive.
TypeInv == TypeOK /\ Control

\* The files of a new data directory have their types.
LEMMA TypeInit == Init => TypeInv
<1> SUFFICES ASSUME Init PROVE TypeInv
  BY Zenon
<1>1. NoSnapshot \in Snapshot
  BY EmptyMapTypes, Zenon DEF NoSnapshot, Snapshot
<1>2. <<>> \in Seq(Record) /\ Len(<<>>) = 0
  OBVIOUS
<1>3. stopping \in BOOLEAN /\ walHdr \in BOOLEAN /\ walTorn \in BOOLEAN /\ lost \in BOOLEAN
  BY Zenon DEF Init
<1>4. walRecs \in Seq(Record) /\ Len(walRecs) = 0
  BY <1>2, Zenon DEF Init
<1> QED
  BY <1>1, <1>3, <1>4, EmptyMapTypes, ConstantsAssumption DEF Init, TypeInv, TypeOK, Control

\* The three mutating commands differ in the record they append.
LEMMA TypeAppend ==
  ASSUME TypeInv, NEW r \in Record, append(r)
  PROVE  TypeInv'
<1>1. walRecs' \in Seq(Record) /\ Len(walRecs') \in Nat /\ Len(walRecs) \in Nat
      /\ Len(walRecs) <= Len(walRecs')
  BY DEF TypeInv, TypeOK, append, AppendAt
<1>2. r.off \in Nat /\ r.ver \in Nat /\ r.keys \subseteq Keys
  BY Zenon DEF Record
<1> QED
  BY <1>1, <1>2 DEF TypeInv, TypeOK, Control, append, AppendAt

\* The record of each mutating command carries the next offset.
LEMMA CommandsAppend ==
  ASSUME TypeInv,
         \/ \E k \in Keys, v \in Values : durable_set(k, v)
         \/ \E ks \in SUBSET Keys \ {{}} : durable_del(ks)
         \/ \E k \in Keys, ttl \in Ttls : durable_expire(k, ttl)
  PROVE  \E r \in Record : r.off = last_offset + 1 /\ append(r)
<1>1. /\ last_offset \in Nat /\ now \in 0 .. MaxTime /\ ver \in Nat /\ cur \in AbsMap
      /\ Never \in 0 .. Never /\ \A d \in Ttls : now + d \in 0 .. Never
  BY ConstantsAssumption, SMTT(30) DEF TypeInv, TypeOK
<1>2. ASSUME NEW k \in Keys, NEW v \in Values, durable_set(k, v)
      PROVE  \E r \in Record : r.off = last_offset + 1 /\ append(r)
  <2>1. /\ NewRecord("set", {k}, v, Never) \in Record
        /\ NewRecord("set", {k}, v, Never).off = last_offset + 1
    BY <1>1, NewRecordType, AbsentAssumption
  <2> QED
    BY <1>2, <2>1, Zenon DEF durable_set
<1>3. ASSUME NEW ks \in SUBSET Keys, durable_del(ks)
      PROVE  \E r \in Record : r.off = last_offset + 1 /\ append(r)
  <2>1. /\ NewRecord("del", ks, Absent, Never) \in Record
        /\ NewRecord("del", ks, Absent, Never).off = last_offset + 1
    BY <1>1, NewRecordType
  <2> QED
    BY <1>3, <2>1, Zenon DEF durable_del
<1>4. ASSUME NEW k \in Keys, NEW ttl \in Ttls, durable_expire(k, ttl)
      PROVE  \E r \in Record : r.off = last_offset + 1 /\ append(r)
  <2>1. /\ NewRecord("expire", {k}, Absent, now + ttl) \in Record
        /\ NewRecord("expire", {k}, Absent, now + ttl).off = last_offset + 1
    BY <1>1, NewRecordType
  <2> QED
    BY <1>4, <2>1, Zenon DEF durable_expire
<1> QED
  BY <1>2, <1>3, <1>4, Zenon

\* The values of fsync_thread.
ThreadStates == {"none", "loop", "locked", "waiting", "woken", "sync", "done"}

\* How the fsync thread waits and is stopped.
Handshake == TestStop \/ Block \/ Wake \/ stop_fsync_thread

\* The stop protocol of the fsync thread touches nothing but its own two variables.
LEMMA HandshakeIsLocal ==
  ASSUME stopping \in BOOLEAN, fsync_thread \in ThreadStates, Handshake
  PROVE  /\ stopping' \in BOOLEAN /\ fsync_thread' \in ThreadStates
         /\ UNCHANGED <<phase, pc, store, last_offset, job, pend, pos>>
         /\ UNCHANGED <<now, walVars, snapVars, ghostVars, bounds>>
<1>1. CASE TestStop
  BY <1>1, Zenon DEF TestStop, ThreadStep, ThreadStates
<1>2. CASE Block
  BY <1>2, Zenon DEF Block, ThreadStep, ThreadStates
<1>3. CASE Wake
  BY <1>3, Zenon DEF Wake, Awake, ThreadStep, ThreadStates
<1>4. CASE stop_fsync_thread
  <2>1. stopping' \in BOOLEAN
    BY <1>4, Zenon DEF stop_fsync_thread
  <2> QED
    BY <1>4, <2>1, Zenon DEF stop_fsync_thread, ThreadStates
<1> QED
  BY <1>1, <1>2, <1>3, <1>4, Zenon DEF Handshake

\* Every step preserves the types.
LEMMA TypeNext == TypeInv /\ [Next]_vars => TypeInv'
<1> SUFFICES ASSUME TypeInv, [Next]_vars PROVE TypeInv'
  BY Zenon
<1> USE DEF TypeInv, TypeOK, Control
<1>a. now \in Nat /\ now \in 0 .. MaxTime
  BY ConstantsAssumption
<1>b. NoSnapshot \in Snapshot
  BY EmptyMapTypes, Zenon DEF NoSnapshot, Snapshot
<1>c. Len(walRecs) \in Nat
  OBVIOUS
<1>d. snap.map \in StoreMap /\ snap.off \in Nat /\ snap.ver \in Nat /\ snap.base \in AbsMap
  BY Zenon DEF Snapshot
<1>e. <<>> \in Seq(Record) /\ Len(<<>>) = 0
  OBVIOUS
<1>f. \A i \in 1 .. Len(walRecs) : walRecs[i] \in Record
  OBVIOUS
<1>1. CASE LoadSnapshot
  BY <1>1, <1>a, <1>d, UnexpiredType, Zenon DEF LoadSnapshot, Load
<1>2. CASE open_and_recover
  <2>1. walRecs # <<>> => walRecs[Len(walRecs)] \in Record
    BY <1>c, <1>f
  <2>2. last_offset' \in Nat
    BY <1>2, <2>1, Zenon DEF open_and_recover, OpenLog, Record
  <2>3. walHdr' \in BOOLEAN /\ walTorn' \in BOOLEAN
    BY <1>2, Zenon DEF open_and_recover, OpenLog
  <2> QED
    BY <1>2, <1>c, <2>2, <2>3 DEF open_and_recover, OpenLog
<1>3. CASE ReplayRecord
  <2>1. walRecs[pos + 1] \in Record
    BY <1>3, <1>c, <1>f DEF ReplayRecord
  <2>2. apply_record(store, walRecs[pos + 1], now) \in StoreMap
    BY <2>1, <1>a, ApplyRecordType, Zenon
  <2> QED
    BY <1>3, <1>c, <2>2 DEF ReplayRecord
<1>4. CASE Serve
  <2>1. Covers(walRecs, snap) => walRecs[Len(walRecs)] \in Record
    BY <1>c, <1>f DEF Covers
  <2>2. LatestVer(walRecs, snap) \in Nat /\ LatestState(walRecs, snap) \in AbsMap
    BY <2>1, <1>d, Zenon DEF LatestVer, LatestState, Record
  <2>3. Lift(store) \in AbsMap
    BY LiftType, Zenon
  <2>4. lost' \in BOOLEAN
    BY <1>4, Zenon DEF Serve
  <2> QED
    BY <1>4, <1>c, <2>2, <2>3, <2>4 DEF Serve, start_fsync_thread
<1>5. CASE \/ \E k \in Keys, v \in Values : durable_set(k, v)
           \/ \E ks \in SUBSET Keys \ {{}} : durable_del(ks)
           \/ \E k \in Keys, ttl \in Ttls : durable_expire(k, ttl)
  BY <1>5, CommandsAppend, TypeAppend, Zenon
<1>8. CASE durability_action
  BY <1>8, <1>c DEF durability_action, Durability, SyncWal, NoSync
<1>9. CASE ApplyAndReply
  <2>1. apply_record(store, job, now) \in StoreMap /\ job.post \in AbsMap
    BY <1>9, <1>a, ApplyRecordType, Zenon DEF ApplyAndReply, Reply, Record
  <2> QED
    BY <1>9, <2>1, Zenon DEF ApplyAndReply, Reply
<1>10. ASSUME NEW k \in Keys, ExpireKey(k) PROVE TypeInv'
  <2>1. store' \in StoreMap
    BY <1>10, Zenon DEF ExpireKey, StoreMap
  <2> QED
    BY <1>10, <2>1 DEF ExpireKey
<1>6. CASE Handshake
  BY <1>6, HandshakeIsLocal, SMTT(30) DEF ThreadStates
<1>11. CASE BackgroundSync
  BY <1>11, <1>c DEF BackgroundSync, SyncWal
<1>12. ASSUME NEW stop \in BOOLEAN, SnapshotBegin(stop) PROVE TypeInv'
  <2>1. Unexpired(store, now) \in StoreMap
    BY <1>a, UnexpiredType, Zenon
  <2>2. pend' \in Snapshot
    BY <1>12, <2>1, Zenon DEF SnapshotBegin, Snapshot
  <2> QED
    BY <1>12, <1>c, <2>1, <2>2 DEF SnapshotBegin, MutexFree, SyncWal, NoSync
<1>13. CASE RenameSnapshot
  BY <1>13, Zenon DEF RenameSnapshot, Rename
<1>14. CASE SyncDirectory
  <2>1. Lift(snap.map) \in AbsMap
    BY <1>d, LiftType, Zenon
  <2>2. [snap EXCEPT !.base = Lift(snap.map)] \in Snapshot
    BY <2>1, Zenon DEF Snapshot
  <2> QED
    BY <1>14, <2>1, <2>2, Zenon DEF SyncDirectory
<1>15. CASE SyncDirectoryFails
  BY <1>15 DEF SyncDirectoryFails
<1>16. CASE TruncateWal
  <2>1. walHdr' \in BOOLEAN /\ walTorn' \in BOOLEAN
    BY <1>16, Zenon DEF TruncateWal
  <2> QED
    BY <1>16, <1>e, <2>1, WalImagesType DEF TruncateWal
<1>17. CASE write_header
  BY <1>17, Zenon DEF write_header, RestartLog, Snapshot
<1>18. CASE FinishSnapshot
  <2>1. stopping' \in BOOLEAN
    BY <1>18, Zenon DEF FinishSnapshot, SnapshotEnd
  <2> QED
    BY <1>18, <1>b, <1>c, <2>1, EmptyMapTypes DEF FinishSnapshot, SnapshotEnd, SyncWal
<1>19. CASE SnapshotFails
  <2>1. stopping' \in BOOLEAN
    BY <1>19, Zenon DEF SnapshotFails, SnapshotEnd
  <2> QED
    BY <1>19, <1>b, <1>c, <2>1, EmptyMapTypes DEF SnapshotFails, SnapshotEnd
<1>20. CASE Tick
  BY <1>20, ConstantsAssumption DEF Tick
<1>21. CASE Kill
  <2>1. stopping' \in BOOLEAN /\ walTorn' \in BOOLEAN
    BY <1>21, Zenon DEF Kill, ProcessGone, Appending
  <2> QED
    BY <1>21, <1>b, <1>c, <2>1, EmptyMapTypes DEF Kill, ProcessGone
<1>22. CASE PowerLoss
  <2>1. PICK rs \in WalImages :
          /\ walRecs' = rs
          /\ walSynced' = Len(rs)
          /\ walHdr' \in (IF rs = <<>> THEN {walHdr, FALSE} ELSE {TRUE})
          /\ walTorn' \in {FALSE, walTorn \/ Appending \/ rs # walRecs}
    BY <1>22, Zenon DEF PowerLoss
  <2>2. walRecs' \in Seq(Record) /\ Len(walRecs') \in Nat /\ walSynced' = Len(walRecs')
    BY <2>1, WalImagesType
  <2>3. walHdr' \in BOOLEAN /\ walTorn' \in BOOLEAN
    BY <2>1, Zenon DEF Appending
  <2>4. snap' \in Snapshot /\ snapDisk' \in Snapshot
    BY <1>22, Zenon DEF PowerLoss
  <2>5. stopping' \in BOOLEAN /\ lost' \in BOOLEAN
    BY <1>22, Zenon DEF PowerLoss, ProcessGone
  <2> QED
    BY <1>22, <1>b, <2>2, <2>3, <2>4, <2>5, EmptyMapTypes DEF PowerLoss, ProcessGone
<1>23. CASE UNCHANGED vars
  BY <1>23 DEF vars
<1> QED
  BY <1>1, <1>2, <1>3, <1>4, <1>5, <1>6, <1>8, <1>9, <1>10, <1>11, <1>12, <1>13,
     <1>14, <1>15, <1>16, <1>17, <1>18, <1>19, <1>20, <1>21, <1>22, <1>23, Zenon
     DEF Next, Handshake, snapshot_now, shutdown

\* The variables keep their types whatever the constants are.
THEOREM TypeCorrect == Spec => []TypeOK
<1>1. TypeInv => TypeOK
  BY Zenon DEF TypeInv
<1> QED
  BY <1>1, TypeInit, TypeNext, PTL DEF Spec

-----------------------------------------------------------------------------
(* The offsets of the log.                                                 *)

\* The offsets of a log increase.
Increasing(rs) == \A i, j \in 1 .. Len(rs) : i < j => rs[i].off < rs[j].off

\* The contents of the WAL file from whose prefixes every crash image comes.
Logs == shadow \cup {walRecs}

\* Offsets increase in every log, an open log ends no later than last_offset,
\* and the log is empty between its truncation and the end of the snapshot.
OffsetInv ==
  /\ \A rs \in Logs : Increasing(rs)
  /\ phase \in {"replay", "up"} =>
       \A i \in 1 .. Len(walRecs) : walRecs[i].off <= last_offset
  /\ pc \in {"truncated", "header"} => walRecs = <<>>

\* A log that starts no later than snapshot s ends.
Starts(rs, s) == rs # <<>> => rs[1].off <= s.off + 1

\* Unless a mutation is already known to be missed, every log continues every
\* snapshot; and while nothing is wrong the log is writable and, when empty,
\* resumes exactly where the snapshots end.
ContinuityInv ==
  /\ pc \in {"exported", "renamed", "dirsynced", "truncated", "header"} =>
       pend.off = last_offset
  /\ pc \in {"renamed", "dirsynced", "truncated", "header"} => snap.off = last_offset
  /\ pc \in {"dirsynced", "truncated", "header"} /\ exposed # "yes" => snapDisk.off = last_offset
  /\ pc = "header" => walHdr
  /\ phase = "replay" => /\ walHdr
                         /\ walRecs = <<>> => last_offset = 0
  /\ phase \in {"replay", "up"} => ~walTorn
  /\ exposed # "yes" => \A s \in {snap, snapDisk}, rs \in Logs : Starts(rs, s)
  /\ exposed = "no" /\ phase = "up" =>
       /\ pc # "truncated" => walHdr
       /\ \A s \in {snap, snapDisk} : /\ s.off <= last_offset
                                      /\ walRecs = <<>> => s.off = last_offset

\* An empty log is in order.
LEMMA OffsetInit == Init => OffsetInv
<1> SUFFICES ASSUME Init PROVE OffsetInv
  OBVIOUS
<1>1. walRecs = <<>> /\ shadow = {} /\ Len(walRecs) = 0
  BY Zenon DEF Init
<1> QED
  BY <1>1 DEF Init, OffsetInv, Logs, Increasing

\* A prefix of an increasing log is increasing, so every crash image is.
LEMMA PrefixIncreasing ==
  ASSUME NEW rs \in Seq(Record), Increasing(rs), NEW n \in 0 .. Len(rs)
  PROVE  Increasing(Prefix(rs, n))
<1>1. Len(rs) \in Nat
  OBVIOUS
<1>2. /\ Len(Prefix(rs, n)) = n
      /\ \A i \in 1 .. n : Prefix(rs, n)[i] = rs[i]
  BY PrefixFacts, Zenon
<1> QED
  BY <1>1, <1>2 DEF Increasing

\* Every crash image of the log is increasing.
LEMMA ImagesIncreasing ==
  ASSUME TypeInv, OffsetInv
  PROVE  \A rs \in WalImages : Increasing(rs)
BY PrefixIncreasing DEF TypeInv, TypeOK, OffsetInv, WalImages, Logs

\* Appending the next offset keeps a log increasing.
LEMMA AppendIncreasing ==
  ASSUME NEW rs \in Seq(Record), Increasing(rs), NEW r \in Record,
         \A i \in 1 .. Len(rs) : rs[i].off < r.off
  PROVE  /\ Append(rs, r) \in Seq(Record)
         /\ Len(Append(rs, r)) = Len(rs) + 1
         /\ Increasing(Append(rs, r))
         /\ \A i \in 1 .. Len(rs) : Append(rs, r)[i] = rs[i]
         /\ Append(rs, r)[Len(rs) + 1] = r
<1>1. /\ Append(rs, r) \in Seq(Record)
      /\ Len(rs) \in Nat
      /\ Len(Append(rs, r)) = Len(rs) + 1
      /\ \A i \in 1 .. Len(rs) : Append(rs, r)[i] = rs[i]
      /\ Append(rs, r)[Len(rs) + 1] = r
  OBVIOUS
<1> QED
  BY <1>1 DEF Increasing

\* Logging a mutation keeps the offsets in order.
LEMMA OffsetAppend ==
  ASSUME TypeInv, OffsetInv, NEW r \in Record, r.off = last_offset + 1, append(r)
  PROVE  OffsetInv'
<1>1. /\ phase = "up" /\ phase' = "up" /\ pc = "idle" /\ pc' = "appended"
      /\ last_offset' = last_offset + 1 /\ shadow' = shadow
      /\ walRecs' = walRecs \/ walRecs' = Append(walRecs, r)
  BY Zenon DEF append, AppendAt, MutexFree
<1>2. /\ walRecs \in Seq(Record) /\ Len(walRecs) \in Nat /\ last_offset \in Nat
      /\ \A i \in 1 .. Len(walRecs) : walRecs[i].off \in Nat
  BY LogOffsets DEF TypeInv, TypeOK
<1>3. /\ Increasing(walRecs)
      /\ \A i \in 1 .. Len(walRecs) : walRecs[i].off <= last_offset
  BY <1>1, Zenon DEF OffsetInv, Logs
<1>4. CASE walRecs' = walRecs
  BY <1>1, <1>2, <1>3, <1>4 DEF OffsetInv, Logs
<1>5. CASE walRecs' = Append(walRecs, r)
  <2>1. \A i \in 1 .. Len(walRecs) : walRecs[i].off < r.off
    BY <1>2, <1>3
  <2>2. /\ Len(walRecs') = Len(walRecs) + 1
        /\ Increasing(walRecs')
        /\ \A i \in 1 .. Len(walRecs) : walRecs'[i] = walRecs[i]
        /\ walRecs'[Len(walRecs) + 1] = r
    BY <1>2, <1>3, <1>5, <2>1, AppendIncreasing, Zenon
  <2>3. \A i \in 1 .. Len(walRecs') : walRecs'[i].off <= last_offset'
    BY <1>1, <1>2, <1>3, <2>2
  <2>4. \A rs \in shadow' : Increasing(rs)
    BY <1>1, Zenon DEF OffsetInv, Logs
  <2> QED
    BY <1>1, <2>2, <2>3, <2>4, Zenon DEF OffsetInv, Logs
<1> QED
  BY <1>1, <1>4, <1>5, Zenon

\* Every step preserves the order of the offsets.
LEMMA OffsetNext == TypeInv /\ OffsetInv /\ [Next]_vars => OffsetInv'
<1> SUFFICES ASSUME TypeInv, OffsetInv, [Next]_vars PROVE OffsetInv'
  BY Zenon
<1>a. /\ pc # "idle" => phase = "up"
      /\ walRecs \in Seq(Record) /\ Len(walRecs) \in Nat
      /\ \A i \in 1 .. Len(walRecs) : walRecs[i].off \in Nat
  BY LogOffsets DEF TypeInv, TypeOK, Control
<1>b. <<>> \in Seq(Record) /\ Len(<<>>) = 0 /\ Increasing(<<>>)
  BY DEF Increasing
<1>c. Increasing(walRecs) /\ \A rs \in shadow : Increasing(rs)
  BY Zenon DEF OffsetInv, Logs
<1> USE DEF OffsetInv, Logs
<1>1. CASE LoadSnapshot
  BY <1>1, <1>a, Zenon DEF LoadSnapshot, Load
<1>2. CASE open_and_recover
  <2>1. \A i \in 1 .. Len(walRecs) : walRecs[i].off <= last_offset'
    BY <1>2, <1>a, <1>c DEF open_and_recover, OpenLog, Increasing
  <2> QED
    BY <1>2, <1>a, <1>c, <2>1, Zenon DEF open_and_recover, OpenLog
<1>3. CASE ReplayRecord
  BY <1>3, Zenon DEF ReplayRecord
<1>4. CASE Serve
  BY <1>4, <1>a, Zenon DEF Serve
<1>5. CASE \/ \E k \in Keys, v \in Values : durable_set(k, v)
           \/ \E ks \in SUBSET Keys \ {{}} : durable_del(ks)
           \/ \E k \in Keys, ttl \in Ttls : durable_expire(k, ttl)
  BY <1>5, CommandsAppend, OffsetAppend, Zenon
<1>8. CASE durability_action
  BY <1>8, <1>c, Zenon DEF durability_action, Durability, SyncWal, NoSync
<1>9. CASE ApplyAndReply
  BY <1>9, Zenon DEF ApplyAndReply, Reply
<1>10. ASSUME NEW k \in Keys, ExpireKey(k) PROVE OffsetInv'
  BY <1>10, Zenon DEF ExpireKey
<1>6. CASE Handshake
  BY <1>6, HandshakeIsLocal, Zenon DEF ThreadStates, TypeInv, TypeOK
<1>11. CASE BackgroundSync
  BY <1>11, <1>c, Zenon DEF BackgroundSync, SyncWal
<1>12. ASSUME NEW stop \in BOOLEAN, SnapshotBegin(stop) PROVE OffsetInv'
  BY <1>12, <1>c, Zenon DEF SnapshotBegin, SyncWal, NoSync
<1>13. CASE RenameSnapshot
  BY <1>13, Zenon DEF RenameSnapshot, Rename
<1>14. CASE SyncDirectory
  BY <1>14, Zenon DEF SyncDirectory
<1>15. CASE SyncDirectoryFails
  BY <1>15, Zenon DEF SyncDirectoryFails
<1>16. CASE TruncateWal
  BY <1>16, <1>b, ImagesIncreasing DEF TruncateWal
<1>17. CASE write_header
  BY <1>17, <1>a, <1>b DEF write_header, RestartLog
<1>18. CASE FinishSnapshot
  BY <1>18, <1>a, <1>b, <1>c, Zenon DEF FinishSnapshot, SnapshotEnd, SyncWal
<1>19. CASE SnapshotFails
  BY <1>19, <1>a, <1>c, Zenon DEF SnapshotFails, SnapshotEnd
<1>20. CASE Tick
  BY <1>20, Zenon DEF Tick
<1>21. CASE Kill
  BY <1>21, Zenon DEF Kill, ProcessGone
<1>22. CASE PowerLoss
  BY <1>22, ImagesIncreasing, Zenon DEF PowerLoss, ProcessGone
<1>23. CASE UNCHANGED vars
  BY <1>23, Zenon DEF vars
<1> QED
  BY <1>1, <1>2, <1>3, <1>4, <1>5, <1>6, <1>8, <1>9, <1>10, <1>11, <1>12, <1>13,
     <1>14, <1>15, <1>16, <1>17, <1>18, <1>19, <1>20, <1>21, <1>22, <1>23, Zenon
     DEF Next, Handshake, snapshot_now, shutdown

\* No crash, in any fsync mode, leaves a WAL on which open_and_recover throws
\* "WAL offsets are not strictly increasing".
THEOREM LogIsReadable == Spec => []ScanNeverThrows
<1>1. TypeInv /\ OffsetInv => ScanNeverThrows
  BY ImagesIncreasing, Zenon DEF ScanNeverThrows, Increasing
<1> QED
  BY <1>1, TypeInit, TypeNext, OffsetInit, OffsetNext, PTL DEF Spec

-----------------------------------------------------------------------------
(* The log continues the snapshot.                                         *)

\* Without a snapshot, an empty log continues it.
LEMMA ContinuityInit == Init => ContinuityInv
<1> SUFFICES ASSUME Init PROVE ContinuityInv
  OBVIOUS
<1>1. walTorn = FALSE /\ walHdr = FALSE /\ phase = "down" /\ pc = "idle"
  BY Zenon DEF Init
<1>2. walRecs = <<>> /\ shadow = {}
  BY Zenon DEF Init
<1> QED
  BY <1>1, <1>2, Zenon DEF ContinuityInv, Logs, Starts

\* A prefix starts where the log it comes from starts, so a crash image does.
LEMMA ImagesStart ==
  ASSUME TypeInv, NEW s \in Snapshot, \A rs \in Logs : Starts(rs, s)
  PROVE  \A rs \in WalImages : Starts(rs, s)
<1> SUFFICES ASSUME NEW n \in walSynced .. Len(walRecs), Prefix(walRecs, n) # <<>>
             PROVE  Prefix(walRecs, n)[1].off <= s.off + 1
  BY Zenon DEF WalImages, Logs, Starts
<1>1. walRecs \in Seq(Record) /\ n \in 0 .. Len(walRecs)
  BY DEF TypeInv, TypeOK
<1>2. n # 0 /\ Prefix(walRecs, n)[1] = walRecs[1] /\ walRecs # <<>>
  BY <1>1, PrefixFacts
<1> QED
  BY <1>2, Zenon DEF Logs, Starts

\* An increasing log that ends no later than the snapshot starts no later.
LEMMA CoveredStarts ==
  ASSUME NEW rs \in Seq(Record), Increasing(rs), NEW s \in Snapshot, ~Covers(rs, s)
  PROVE  Starts(rs, s)
<1> SUFFICES ASSUME rs # <<>> PROVE rs[1].off <= s.off + 1
  BY Zenon DEF Starts
<1>1. Len(rs) \in Nat /\ Len(rs) >= 1 /\ s.off \in Nat
  BY DEF Snapshot
<1>2. rs[1].off \in Nat /\ rs[Len(rs)].off \in Nat
  BY <1>1, LogOffsets
<1>3. rs[Len(rs)].off <= s.off
  BY <1>1, <1>2 DEF Covers
<1>4. rs[1].off <= rs[Len(rs)].off
  BY <1>1, <1>2 DEF Increasing
<1> QED
  BY <1>1, <1>2, <1>3, <1>4

\* A mutation that is logged continues every snapshot.
LEMMA ContinuityAppend ==
  ASSUME TypeInv, ContinuityInv, NEW r \in Record, r.off = last_offset + 1, append(r)
  PROVE  ContinuityInv'
<1>1. /\ phase = "up" /\ phase' = "up" /\ pc = "idle" /\ pc' = "appended"
      /\ last_offset' = last_offset + 1 /\ shadow' = shadow
      /\ walHdr' = walHdr /\ walTorn' = walTorn /\ snap' = snap /\ snapDisk' = snapDisk
      /\ exposed' = (IF exposed = "pending" THEN "yes" ELSE exposed)
      /\ walRecs' = (IF walHdr /\ ~walTorn THEN Append(walRecs, r) ELSE walRecs)
  BY Zenon DEF append, AppendAt, MutexFree
<1>2. /\ walRecs \in Seq(Record) /\ last_offset \in Nat
      /\ snap.off \in Nat /\ snapDisk.off \in Nat
      /\ exposed \in {"no", "pending", "yes"}
  BY Zenon DEF TypeInv, TypeOK, Snapshot
<1>3. CASE exposed' = "yes"
  BY <1>1, <1>3, Zenon DEF ContinuityInv
<1>4. CASE exposed' = "no"
  <2>1. exposed = "no"
    BY <1>1, <1>2, <1>4, Zenon
  <2>2. walHdr /\ ~walTorn /\ walRecs' = Append(walRecs, r)
    BY <1>1, <2>1, Zenon DEF ContinuityInv
  <2>3. walRecs' # <<>>
    BY <1>2, <2>2
  <2>4. walRecs'[1] = IF walRecs = <<>> THEN r ELSE walRecs[1]
    BY <1>2, <2>2
  <2>5. \A s \in {snap, snapDisk} : Starts(walRecs', s)
    BY <1>1, <1>2, <2>1, <2>4 DEF ContinuityInv, Starts, Logs
  <2>6. \A s \in {snap, snapDisk}, rs \in shadow : Starts(rs, s)
    BY <2>1, Zenon DEF ContinuityInv, Logs
  <2>7. \A s \in {snap, snapDisk} : s.off <= last_offset'
    BY <1>1, <1>2, <2>1 DEF ContinuityInv
  <2> QED
    BY <1>1, <2>2, <2>3, <2>5, <2>6, <2>7, Zenon DEF ContinuityInv, Logs
<1> QED
  BY <1>1, <1>2, <1>3, <1>4, Zenon

\* Every step keeps the log continuing the snapshot.
LEMMA ContinuityNext ==
  TypeInv /\ OffsetInv /\ ContinuityInv /\ [Next]_vars => ContinuityInv'
<1> SUFFICES ASSUME TypeInv, OffsetInv, ContinuityInv, [Next]_vars PROVE ContinuityInv'
  BY Zenon
<1>a. /\ pc # "idle" => phase = "up"
      /\ walRecs \in Seq(Record) /\ Len(walRecs) \in Nat /\ last_offset \in Nat
      /\ \A rs \in Logs : rs \in Seq(Record)
      /\ snap \in Snapshot /\ snapDisk \in Snapshot /\ pend \in Snapshot
      /\ exposed \in {"no", "pending", "yes"}
  BY DEF TypeInv, TypeOK, Control, Logs
<1>b. snap.off \in Nat /\ snapDisk.off \in Nat /\ pend.off \in Nat
  BY <1>a, Zenon DEF Snapshot
<1>c. \A s : Starts(<<>>, s)
  BY Zenon DEF Starts
<1>d. phase = "up" => \A s \in Snapshot : s.off = last_offset => Starts(walRecs, s)
  <2>1. SUFFICES ASSUME phase = "up", NEW s \in Snapshot, s.off = last_offset, walRecs # <<>>
                 PROVE  walRecs[1].off <= s.off + 1
    BY Zenon DEF Starts
  <2>2. 1 \in 1 .. Len(walRecs)
    BY <1>a, <2>1
  <2>3. walRecs[1].off <= last_offset /\ walRecs[1].off \in Nat
    BY <1>a, <2>1, <2>2, LogOffsets, Zenon DEF OffsetInv
  <2> QED
    BY <1>a, <2>1, <2>3
<1>e. \A s \in Snapshot : ~Resurfacing(s) => \A rs \in shadow : Starts(rs, s)
  BY <1>a, CoveredStarts, Zenon DEF Resurfacing, OffsetInv, Logs
<1>1. CASE LoadSnapshot
  BY <1>1, <1>a, Zenon DEF LoadSnapshot, Load, ContinuityInv, Logs
<1>2. CASE open_and_recover
  <2>1. walHdr' /\ ~walTorn' /\ pc' = pc /\ phase' = "replay" /\ pc = "idle"
    BY <1>2, <1>a, Zenon DEF open_and_recover, OpenLog
  <2>2. Logs' \subseteq Logs
    BY <1>2, Zenon DEF open_and_recover, OpenLog, Logs
  <2> QED
    BY <1>2, <2>1, <2>2, Zenon DEF open_and_recover, OpenLog, ContinuityInv
<1>3. CASE ReplayRecord
  BY <1>3, Zenon DEF ReplayRecord, ContinuityInv, Logs
<1>4. CASE Serve
  <2>1. exposed' = "no" => /\ exposed # "yes"
                           /\ snap.off <= last_offset /\ snapDisk.off <= last_offset
    BY <1>4, <1>a, <1>b DEF Serve
  <2>2. exposed' # "yes" => exposed # "yes"
    BY <1>4, Zenon DEF Serve
  <2>3. walRecs = <<>> => last_offset = 0
    BY <1>4, Zenon DEF Serve, ContinuityInv
  <2> QED
    BY <1>4, <1>a, <1>b, <2>1, <2>2, <2>3 DEF Serve, ContinuityInv, Logs
<1>5. CASE \/ \E k \in Keys, v \in Values : durable_set(k, v)
           \/ \E ks \in SUBSET Keys \ {{}} : durable_del(ks)
           \/ \E k \in Keys, ttl \in Ttls : durable_expire(k, ttl)
  BY <1>5, CommandsAppend, ContinuityAppend, Zenon
<1>6. CASE durability_action
  BY <1>6, Zenon DEF durability_action, Durability, SyncWal, NoSync, ContinuityInv, Logs
<1>7. CASE ApplyAndReply
  BY <1>7, Zenon DEF ApplyAndReply, Reply, ContinuityInv, Logs
<1>8. ASSUME NEW k \in Keys, ExpireKey(k) PROVE ContinuityInv'
  BY <1>8, Zenon DEF ExpireKey, ContinuityInv, Logs
<1>22. CASE Handshake
  BY <1>22, HandshakeIsLocal DEF ThreadStates, TypeInv, TypeOK, ContinuityInv, Logs
<1>9. CASE BackgroundSync
  BY <1>9, Zenon DEF BackgroundSync, SyncWal, ContinuityInv, Logs
<1>10. ASSUME NEW stop \in BOOLEAN, SnapshotBegin(stop) PROVE ContinuityInv'
  <2>1. pend'.off = last_offset'
    BY <1>10, Zenon DEF SnapshotBegin
  <2>2. Logs' \subseteq Logs /\ walRecs' = walRecs
    BY <1>10, Zenon DEF SnapshotBegin, SyncWal, NoSync, Logs
  <2> QED
    BY <1>10, <2>1, <2>2, Zenon DEF SnapshotBegin, MutexFree, ContinuityInv
<1>11. CASE RenameSnapshot
  <2>1. pend.off = last_offset /\ phase = "up"
    BY <1>11, <1>a, Zenon DEF RenameSnapshot, Rename, ContinuityInv
  <2>2. exposed' # "yes" => exposed # "yes" /\ exposed' = exposed /\ ~Resurfacing(pend)
    BY <1>11, Zenon DEF RenameSnapshot, Rename
  <2>3. exposed' # "yes" => \A rs \in Logs : Starts(rs, pend)
    BY <1>a, <1>d, <1>e, <2>1, <2>2, Zenon DEF Logs
  <2> QED
    BY <1>11, <1>a, <1>b, <2>1, <2>2, <2>3 DEF RenameSnapshot, Rename, ContinuityInv, Logs
<1>12. CASE SyncDirectory
  <2>1. snap.off = last_offset /\ phase = "up" /\ phase' = "up" /\ pc' = "dirsynced"
    BY <1>12, <1>a, Zenon DEF SyncDirectory, ContinuityInv
  <2>2. snap'.off = snap.off /\ snapDisk'.off = snap.off
    BY <1>12, <1>a, Zenon DEF SyncDirectory, Snapshot
  <2>3. exposed' # "yes" => ~Resurfacing(snap)
    BY <1>12, Zenon DEF SyncDirectory
  <2>4. exposed' = "no" => walHdr'
    BY <1>12, Zenon DEF SyncDirectory
  <2>5. exposed' # "yes" => \A rs \in Logs : Starts(rs, snap)
    BY <1>a, <1>d, <1>e, <2>1, <2>3, Zenon DEF Logs
  <2>6. exposed' # "yes" => \A s \in {snap', snapDisk'}, rs \in Logs' : Starts(rs, s)
    BY <1>12, <2>2, <2>5, Zenon DEF SyncDirectory, Starts, Logs
  <2> QED
    BY <1>12, <1>b, <2>1, <2>2, <2>4, <2>6 DEF SyncDirectory, ContinuityInv
<1>13. CASE SyncDirectoryFails
  BY <1>13, Zenon DEF SyncDirectoryFails, ContinuityInv
<1>14. CASE TruncateWal
  <2>1. snap.off = last_offset /\ phase = "up" /\ phase' = "up" /\ pc' = "truncated"
    BY <1>14, <1>a, Zenon DEF TruncateWal, ContinuityInv
  <2>2. exposed # "yes" => \A s \in {snap, snapDisk}, rs \in WalImages : Starts(rs, s)
    BY <1>a, ImagesStart, Zenon DEF ContinuityInv
  <2>3. exposed # "yes" => \A s \in {snap, snapDisk}, rs \in Logs' : Starts(rs, s)
    BY <1>14, <1>c, <2>2, Zenon DEF TruncateWal, Logs
  <2>4. ~walTorn'
    BY <1>14, Zenon DEF TruncateWal
  <2>5. exposed = "no" => snapDisk.off = last_offset
    BY <1>14, Zenon DEF TruncateWal, ContinuityInv
  <2> QED
    BY <1>14, <1>b, <2>1, <2>3, <2>4, <2>5, Zenon DEF TruncateWal, ContinuityInv
<1>15. CASE write_header
  <2>1. walHdr' /\ pend.off = last_offset /\ last_offset' = last_offset
    BY <1>15, Zenon DEF write_header, RestartLog, ContinuityInv
  <2> QED
    BY <1>15, <2>1, Zenon DEF write_header, RestartLog, ContinuityInv, Logs
<1>16. CASE FinishSnapshot
  <2>1. snap.off = last_offset /\ walRecs = <<>> /\ walHdr /\ ~walTorn /\ phase = "up"
    BY <1>16, <1>a, Zenon DEF FinishSnapshot, ContinuityInv, OffsetInv
  <2>2. Logs' = {<<>>}
    BY <1>16, <2>1, Zenon DEF FinishSnapshot, SyncWal, Logs
  <2>3. exposed' = "no" => snapDisk.off = last_offset
    BY <1>16, <1>a, <2>1, Zenon DEF FinishSnapshot, ContinuityInv
  <2> QED
    BY <1>16, <1>b, <1>c, <2>1, <2>2, <2>3 DEF FinishSnapshot, SnapshotEnd, ContinuityInv
<1>17. CASE SnapshotFails
  <2>1. phase = "up" /\ phase' \in {"up", "down"} /\ pc' = "idle" /\ Logs' = Logs
    BY <1>17, <1>a, Zenon DEF SnapshotFails, SnapshotEnd, Logs
  <2>2. exposed' = "no" => exposed = "no" /\ pc # "truncated"
    BY <1>17, Zenon DEF SnapshotFails
  <2>3. exposed' # "yes" => exposed # "yes"
    BY <1>17, Zenon DEF SnapshotFails
  <2> QED
    BY <1>17, <2>1, <2>2, <2>3, Zenon DEF SnapshotFails, ContinuityInv
<1>18. CASE Tick
  BY <1>18, Zenon DEF Tick, ContinuityInv, Logs
<1>19. CASE Kill
  BY <1>19, Zenon DEF Kill, ProcessGone, ContinuityInv, Logs
<1>20. CASE PowerLoss
  <2>1. phase' = "down" /\ pc' = "idle" /\ exposed' = exposed
    BY <1>20, Zenon DEF PowerLoss, ProcessGone
  <2>2. \A rs \in Logs' : rs \in WalImages
    BY <1>20, Zenon DEF PowerLoss, Logs
  <2>3. snap' \in {snap, snapDisk} /\ snapDisk' \in {snap, snapDisk}
    BY <1>20, Zenon DEF PowerLoss
  <2>4. exposed # "yes" => \A s \in {snap, snapDisk}, rs \in WalImages : Starts(rs, s)
    BY <1>a, ImagesStart DEF ContinuityInv
  <2> QED
    BY <2>1, <2>2, <2>3, <2>4, Zenon DEF ContinuityInv
<1>21. CASE UNCHANGED vars
  BY <1>21, Zenon DEF vars, ContinuityInv, Logs
<1> QED
  BY <1>1, <1>2, <1>3, <1>4, <1>5, <1>6, <1>7, <1>8, <1>9, <1>10, <1>11, <1>12, <1>13,
     <1>14, <1>15, <1>16, <1>17, <1>18, <1>19, <1>20, <1>21, <1>22, Zenon
     DEF Next, Handshake, snapshot_now, shutdown

\* While recovery is not already bound to miss a mutation, whatever a crash
\* leaves of the WAL starts right after, or inside, whichever snapshot survives
\* it, and the next append is one no snapshot hides.
THEOREM EveryMutationIsInSnapshotOrLog == Spec => []LogContinuesSnapshot
<1>1. ASSUME TypeInv, ContinuityInv, exposed = "no" PROVE LogContinuesSnapshot
  <2>1. /\ snap \in Snapshot /\ snapDisk \in Snapshot
        /\ snap.off \in Nat /\ snapDisk.off \in Nat /\ last_offset \in Nat
    BY <1>1, Zenon DEF TypeInv, TypeOK, Snapshot
  <2>2. \A s \in {snap, snapDisk}, rs \in WalImages : Starts(rs, s)
    BY <1>1, <2>1, ImagesStart, Zenon DEF ContinuityInv
  <2> QED
    BY <1>1, <2>1, <2>2, Zenon DEF LogContinuesSnapshot, Starts, ContinuityInv
<1>2. TypeInv /\ ContinuityInv => LogContinuesSnapshot
  BY <1>1, Zenon DEF LogContinuesSnapshot
<1> QED
  BY <1>2, TypeInit, TypeNext, OffsetInit, OffsetNext, ContinuityInit, ContinuityNext, PTL
     DEF Spec

-----------------------------------------------------------------------------
(* Recovery ends with a state the engine was in, no older than the last     *)
(* fsync, and keeps the acknowledged mutations.  First the invariant, then  *)
(* the facts about replay, logs and crash images its proof rests on.        *)

\* What loading snapshot s at time t gives is faithful to what s stands for.
Stands(s, t) == Faithful(Unexpired(s.map, t), s.base, t)

\* What is served, and what the snapshot being written holds, is faithful to
\* the acknowledged state; the mutation in progress leads from it to the next.
ServeInv ==
  /\ \A rs \in WalImages : \A i \in 1 .. Len(rs) : rs[i].time <= now
  /\ pc \in {"appended", "logged"} => /\ job.time <= now
                                      /\ job.post = AbsApply(cur, job)
  /\ phase = "up" => Faithful(store, cur, now)
  /\ Stands(snap, now) /\ Stands(snapDisk, now)
  /\ pc = "exported" => /\ Stands(pend, now)
                        /\ pend.base = cur /\ pend.ver = ver
                        /\ Faithful(store, Lift(pend.map), now)
  /\ pc = "renamed" => Faithful(store, Lift(snap.map), now)
  /\ pc \in {"renamed", "dirsynced", "truncated", "header"} => snap.ver = ver /\ snap.base = cur
  /\ pc \in {"dirsynced", "truncated", "header"} /\ exposed # "yes" => snapDisk = snap

\* The state that the first n records of log rs reach on top of snapshot s.
StateAt(rs, n, s) == IF n > 0 /\ rs[n].off > s.off THEN rs[n].post ELSE s.base

\* Each record of rs that snapshot s does not cover leads from the state before
\* it to its own.
Chained(rs, s) ==
  \A i \in 1 .. Len(rs) :
    rs[i].off > s.off => rs[i].post = AbsApply(StateAt(rs, i - 1, s), rs[i])

\* Where the running engine is in its history.
CurrentState == IF pc \in {"appended", "logged"} THEN job.post ELSE cur

\* Unless a mutation is already known to be missed: every log a crash may leave
\* is a run of mutations from every snapshot it may leave, at least as long as
\* what was fsynced; and the files as the kernel shows them lead to the present.
HistoryInv ==
  exposed # "yes" =>
    /\ \A s \in {snap, snapDisk}, rs \in WalImages :
         Chained(rs, s) /\ LatestVer(rs, s) >= synced
    /\ LatestVer(walRecs, snap) = LatestVer(walRecs, snapDisk)
    /\ LatestState(walRecs, snap) = LatestState(walRecs, snapDisk)
    /\ phase = "up" => /\ LatestVer(walRecs, snap) = ver
                       /\ LatestState(walRecs, snap) = CurrentState

\* Recovery follows the chain.
ReplayInv ==
  exposed # "yes" =>
    /\ phase = "loaded" => Faithful(store, snap.base, now)
    /\ phase = "replay" => Faithful(store, StateAt(walRecs, pos, snap), now)

\* a and b give the same to every key outside ks.
AgreeExcept(ks, a, b) == \A k \in Keys \ ks : a[k] = b[k]

\* What a crash may leave leads to the acknowledged state, outside the keys of
\* mutations not yet replied to.  Of a power loss that holds in mode always only,
\* where a record is on stable storage before the reply.
AckInv ==
  /\ pc \in {"appended", "logged"} => job.keys \subseteq unsure
  /\ pc = "logged" /\ FsyncMode = "always" => WalImages = {walRecs}
  /\ exposed # "yes" /\ FsyncMode = "always" =>
       \A s \in {snap, snapDisk}, rs \in WalImages :
         AgreeExcept(unsure, LatestState(rs, s), cur)
  /\ exposed # "yes" /\ ~lost => AgreeExcept(unsure, LatestState(walRecs, snap), cur)

\* The invariant, but for AckInv.
RecoveryInv == ServeInv /\ HistoryInv /\ ReplayInv

\* What the proofs below know of the state before a step.
Before == TypeInv /\ OffsetInv /\ ContinuityInv /\ RecoveryInv

-----------------------------------------------------------------------------
(* Faithfulness survives what the store and recovery do.                   *)

\* Replaying a record later than it was logged is faithful to the mutation: an
\* entry due meanwhile is gone, and no other is.
LEMMA ReplayIsFaithful ==
  ASSUME NEW m \in StoreMap, NEW a \in AbsMap, NEW r \in Record, NEW t \in Nat,
         r.time <= t, Faithful(m, a, t)
  PROVE  Faithful(apply_record(m, r, t), AbsApply(a, r), t)
<1> SUFFICES ASSUME NEW k \in Keys, k \in r.keys
             PROVE  /\ ApplyKey(m[k], r, t) # Absent =>
                         /\ AbsKey(a[k], r) # Absent
                         /\ ApplyKey(m[k], r, t).val = AbsKey(a[k], r).val
                         /\ ApplyKey(m[k], r, t).exp = AbsKey(a[k], r).exp
                    /\ AbsKey(a[k], r) # Absent /\ AbsKey(a[k], r).low > t =>
                         ApplyKey(m[k], r, t) # Absent
  BY Zenon DEF Faithful, apply_record, AbsApply
<1>1. /\ m[k] \in Entry \cup {Absent} /\ a[k] \in AbsEntry \cup {Absent}
      /\ r.at \in 0 .. Never /\ r.time \in Nat /\ Never \in Nat
      /\ r.kind \in {"set", "del", "expire"}
      /\ r.kind = "set" => r.val \in Values
  BY ConstantsAssumption DEF StoreMap, AbsMap, Record
<1>2. /\ m[k] # Absent => a[k] # Absent /\ m[k].val = a[k].val /\ m[k].exp = a[k].exp
      /\ a[k] # Absent /\ a[k].low > t => m[k] # Absent
  BY Zenon DEF Faithful
<1>3. CASE r.kind = "set"
  <2>1. [val |-> r.val, exp |-> Never] \in Entry
    BY <1>1, <1>3 DEF Entry
  <2>2. [val |-> r.val, exp |-> Never, low |-> Never] \in AbsEntry
    BY <1>1, <1>3 DEF AbsEntry
  <2> QED
    BY <1>3, <2>1, <2>2, AbsentAssumption, Zenon DEF ApplyKey, AbsKey
<1>4. CASE r.kind = "del"
  BY <1>4, Zenon DEF ApplyKey, AbsKey
<1>5. CASE r.kind = "expire"
  <2>1. m[k] # Absent => m[k] \in Entry /\ m[k].exp \in Nat
    BY <1>1 DEF Entry
  <2>2. a[k] # Absent => /\ a[k] \in AbsEntry /\ a[k].exp \in Nat /\ a[k].low \in Nat
                         /\ a[k].low <= a[k].exp /\ a[k].val \in Values
    BY <1>1 DEF AbsEntry
  <2>3. CASE Live(m[k], t) /\ r.at > t
    <3>1. Live(a[k], r.time) /\ r.at > r.time
      BY <1>1, <1>2, <2>1, <2>2, <2>3 DEF Live
    <3>2. AbsKey(a[k], r) = [val |-> a[k].val, exp |-> r.at, low |-> Earlier(a[k].low, r.at)]
      BY <1>5, <3>1, Zenon DEF AbsKey
    <3>3. Earlier(a[k].low, r.at) \in 0 .. Never /\ Earlier(a[k].low, r.at) <= r.at
      BY <1>1, <2>2, <3>1 DEF Earlier, Live
    <3>4. AbsKey(a[k], r) \in AbsEntry
      BY <1>1, <2>2, <3>1, <3>2, <3>3 DEF AbsEntry, Live
    <3>5. ApplyKey(m[k], r, t) = [val |-> m[k].val, exp |-> r.at]
      BY <1>5, <2>3, Zenon DEF ApplyKey
    <3>6. ApplyKey(m[k], r, t) \in Entry
      BY <1>1, <2>1, <2>3, <3>5 DEF Entry, Live
    <3> QED
      BY <1>2, <2>3, <3>2, <3>4, <3>5, <3>6, AbsentAssumption DEF Live
  <2>4. CASE ~(Live(m[k], t) /\ r.at > t)
    <3>1. ApplyKey(m[k], r, t) = Absent
      BY <1>5, <2>4, Zenon DEF ApplyKey
    <3>2. CASE Live(a[k], r.time) /\ r.at > r.time
      <4>1. AbsKey(a[k], r).low = Earlier(a[k].low, r.at)
        BY <1>5, <3>2, Zenon DEF AbsKey
      <4>2. Earlier(a[k].low, r.at) > t => a[k].low > t /\ r.at > t
        BY <1>1, <2>2, <3>2 DEF Earlier, Live
      <4>3. ~(a[k].low > t /\ r.at > t)
        BY <1>1, <1>2, <2>1, <2>2, <2>4, <3>2 DEF Live
      <4> QED
        BY <3>1, <4>1, <4>2, <4>3, Zenon
    <3>3. CASE ~(Live(a[k], r.time) /\ r.at > r.time)
      BY <1>5, <3>1, <3>3, Zenon DEF AbsKey
    <3> QED
      BY <3>2, <3>3, Zenon
  <2> QED
    BY <2>3, <2>4, Zenon
<1> QED
  BY <1>1, <1>3, <1>4, <1>5, Zenon

\* Time alone does not make contents unfaithful.
LEMMA FaithfulLater ==
  ASSUME NEW m, NEW a \in AbsMap, NEW t \in Nat, NEW u \in Nat, t <= u, Faithful(m, a, t)
  PROVE  Faithful(m, a, u)
<1> SUFFICES ASSUME NEW k \in Keys, a[k] # Absent, a[k].low > u PROVE a[k].low > t
  BY Zenon DEF Faithful
<1>1. a[k].low \in Nat
  BY DEF AbsMap, AbsEntry
<1> QED
  BY <1>1

\* Nor does dropping what is due.
LEMMA ExportIsFaithful ==
  ASSUME NEW m \in StoreMap, NEW a \in AbsMap, NEW t \in Nat, Faithful(m, a, t)
  PROVE  Faithful(Unexpired(m, t), a, t)
<1> SUFFICES ASSUME NEW k \in Keys, a[k] # Absent, a[k].low > t PROVE Live(m[k], t)
  BY Zenon DEF Faithful, Unexpired
<1>1. a[k].low \in Nat /\ a[k].exp \in Nat /\ a[k].low <= a[k].exp
  BY DEF AbsMap, AbsEntry
<1>2. m[k] # Absent /\ m[k].exp = a[k].exp
  BY Zenon DEF Faithful
<1> QED
  BY <1>1, <1>2 DEF Live

\* Nor lazy expiry of one key.
LEMMA ExpiryIsFaithful ==
  ASSUME NEW m \in StoreMap, NEW a \in AbsMap, NEW t \in Nat, Faithful(m, a, t),
         NEW k \in Keys, m[k] # Absent, ~Live(m[k], t)
  PROVE  Faithful([m EXCEPT ![k] = Absent], a, t)
<1>1. m \in [Keys -> Entry \cup {Absent}] /\ m[k] \in Entry /\ m[k].exp \in Nat
  BY DEF StoreMap, Entry
<1>2. a[k] # Absent /\ m[k].exp = a[k].exp
  BY Zenon DEF Faithful
<1>3. a[k].low \in Nat /\ a[k].exp \in Nat /\ a[k].low <= a[k].exp
  BY <1>2 DEF AbsMap, AbsEntry
<1>4. ~(a[k].low > t)
  BY <1>1, <1>2, <1>3 DEF Live
<1> QED
  BY <1>1, <1>4, Zenon DEF Faithful

\* Contents are faithful to the state they are lifted to.
LEMMA LiftIsFaithful ==
  ASSUME NEW m \in StoreMap, NEW t \in Nat
  PROVE  Faithful(m, Lift(m), t)
<1>1. \A k \in Keys : m[k] # Absent =>
        [val |-> m[k].val, exp |-> m[k].exp, low |-> m[k].exp] # Absent
  <2> SUFFICES ASSUME NEW k \in Keys, m[k] # Absent
               PROVE  [val |-> m[k].val, exp |-> m[k].exp, low |-> m[k].exp] \in AbsEntry
    BY AbsentAssumption, Zenon
  <2>1. m[k] \in Entry /\ m[k].val \in Values /\ m[k].exp \in 0 .. Never
    BY Zenon DEF StoreMap, Entry
  <2> QED
    BY <2>1, ConstantsAssumption DEF AbsEntry
<1> QED
  BY <1>1, Zenon DEF Faithful, Lift

\* A snapshot goes on standing for its state.
LEMMA StandsLater ==
  ASSUME NEW s \in Snapshot, NEW t \in Nat, NEW u \in Nat, t <= u, Stands(s, t)
  PROVE  Stands(s, u)
<1>1. s.map \in StoreMap /\ s.base \in AbsMap
  BY Zenon DEF Snapshot
<1> SUFFICES ASSUME NEW k \in Keys
             PROVE  /\ Live(s.map[k], u) => /\ s.base[k] # Absent
                                            /\ s.map[k].val = s.base[k].val
                                            /\ s.map[k].exp = s.base[k].exp
                    /\ s.base[k] # Absent /\ s.base[k].low > u => Live(s.map[k], u)
  BY Zenon DEF Stands, Faithful, Unexpired, Live
<1>2. s.map[k] # Absent => s.map[k].exp \in Nat
  BY <1>1 DEF StoreMap, Entry
<1>3. s.base[k] # Absent => /\ s.base[k].low \in Nat /\ s.base[k].exp \in Nat
                            /\ s.base[k].low <= s.base[k].exp
  BY <1>1 DEF AbsMap, AbsEntry
<1>4. /\ Live(s.map[k], t) => /\ s.map[k] # Absent /\ s.base[k] # Absent
                              /\ s.map[k].val = s.base[k].val
                              /\ s.map[k].exp = s.base[k].exp
      /\ s.base[k] # Absent /\ s.base[k].low > t => Live(s.map[k], t)
  BY Zenon DEF Stands, Faithful, Unexpired, Live
<1>5. Live(s.map[k], u) => Live(s.map[k], t)
  BY <1>2 DEF Live
<1>6. s.base[k] # Absent /\ s.base[k].low > u => s.base[k].low > t
  BY <1>3
<1> QED
  BY <1>2, <1>3, <1>4, <1>5, <1>6 DEF Live

-----------------------------------------------------------------------------
(* Logs, and what a crash may leave of them.                               *)

\* The state a whole log reaches.
LEMMA LatestIsStateAt ==
  ASSUME NEW rs \in Seq(Record), NEW s \in Snapshot
  PROVE  LatestState(rs, s) = StateAt(rs, Len(rs), s)
<1>1. Len(rs) \in Nat /\ (rs # <<>> <=> Len(rs) > 0)
  OBVIOUS
<1> QED
  BY <1>1, Zenon DEF LatestState, Covers, StateAt

\* A log that ends before the snapshot does adds nothing to it.
LEMMA Uncovered ==
  ASSUME NEW rs \in Seq(Record), Increasing(rs), NEW s \in Snapshot, ~Covers(rs, s)
  PROVE  Chained(rs, s) /\ LatestVer(rs, s) = s.ver /\ LatestState(rs, s) = s.base
<1>1. SUFFICES ASSUME NEW i \in 1 .. Len(rs) PROVE ~(rs[i].off > s.off)
  BY Zenon DEF Chained, LatestVer, LatestState
<1>2. Len(rs) \in Nat /\ s.off \in Nat /\ rs # <<>> /\ Len(rs) \in 1 .. Len(rs)
  BY DEF Snapshot
<1>3. rs[i].off \in Nat /\ rs[Len(rs)].off \in Nat
  BY <1>2, LogOffsets, Zenon
<1>4. ~(rs[Len(rs)].off > s.off)
  BY <1>2, Zenon DEF Covers
<1>5. i = Len(rs) \/ rs[i].off < rs[Len(rs)].off
  BY <1>2 DEF Increasing
<1> QED
  BY <1>2, <1>3, <1>4, <1>5

\* Nor does an empty one.
LEMMA EmptyLog ==
  ASSUME NEW s \in Snapshot
  PROVE  Chained(<<>>, s) /\ LatestVer(<<>>, s) = s.ver /\ LatestState(<<>>, s) = s.base
BY DEF Chained, LatestVer, LatestState, Covers

\* One more mutation continues the chain.
LEMMA ChainAppend ==
  ASSUME NEW rs \in Seq(Record), NEW s \in Snapshot, NEW r \in Record, Chained(rs, s),
         r.off > s.off, r.post = AbsApply(LatestState(rs, s), r)
  PROVE  /\ Chained(Append(rs, r), s)
         /\ LatestVer(Append(rs, r), s) = r.ver
         /\ LatestState(Append(rs, r), s) = r.post
<1> DEFINE new == Append(rs, r)
<1>1. /\ Len(rs) \in Nat /\ Len(new) = Len(rs) + 1 /\ new # <<>>
      /\ \A i \in 1 .. Len(rs) : new[i] = rs[i]
      /\ new[Len(rs) + 1] = r
  OBVIOUS
<1>2. \A n \in 0 .. Len(rs) : StateAt(new, n, s) = StateAt(rs, n, s)
  BY <1>1 DEF StateAt
<1>3. LatestVer(new, s) = r.ver /\ LatestState(new, s) = r.post
  BY <1>1, Zenon DEF LatestVer, LatestState, Covers
<1>4. ASSUME NEW i \in 1 .. Len(new), new[i].off > s.off
      PROVE  new[i].post = AbsApply(StateAt(new, i - 1, s), new[i])
  <2>1. CASE i = Len(rs) + 1
    <3>1. StateAt(new, i - 1, s) = LatestState(rs, s)
      BY <1>1, <1>2, <2>1, LatestIsStateAt
    <3> QED
      BY <1>1, <2>1, <3>1, Zenon
  <2>2. CASE i \in 1 .. Len(rs)
    <3>1. StateAt(new, i - 1, s) = StateAt(rs, i - 1, s) /\ new[i] = rs[i]
      BY <1>1, <1>2, <2>2
    <3> QED
      BY <1>4, <2>2, <3>1, Zenon DEF Chained
  <2> QED
    BY <1>1, <2>1, <2>2
<1> QED
  BY <1>3, <1>4, Zenon DEF Chained

\* The whole log is one of its prefixes.
LEMMA WholePrefix ==
  ASSUME NEW S, NEW rs \in Seq(S)
  PROVE  Prefix(rs, Len(rs)) = rs
<1>1. Len(rs) \in 0 .. Len(rs)
  OBVIOUS
<1>2. /\ Prefix(rs, Len(rs)) \in Seq(S) /\ Len(Prefix(rs, Len(rs))) = Len(rs)
      /\ \A i \in 1 .. Len(rs) : Prefix(rs, Len(rs))[i] = rs[i]
  BY <1>1, PrefixFacts, Zenon
<1> QED
  BY <1>2

\* The file as the kernel shows it may be what a power loss leaves.
LEMMA WalIsImage ==
  ASSUME TypeInv
  PROVE  walRecs \in WalImages /\ WalImages \subseteq Seq(Record)
<1>1. /\ walRecs \in Seq(Record) /\ shadow \subseteq Seq(Record)
      /\ walSynced \in 0 .. Len(walRecs) /\ Len(walRecs) \in walSynced .. Len(walRecs)
  BY DEF TypeInv, TypeOK
<1>2. walRecs = Prefix(walRecs, Len(walRecs))
  BY <1>1, WholePrefix, Zenon
<1>3. walRecs \in WalImages
  BY <1>1, <1>2, Zenon DEF WalImages
<1> QED
  BY <1>1, <1>3, WalImagesType, Zenon

\* After an fsync it is all that one can leave.
LEMMA SyncImages ==
  ASSUME TypeInv, walRecs' \in Seq(Record), walSynced' = Len(walRecs'), shadow' = {}
  PROVE  WalImages' = {walRecs'}
<1>1. walSynced' .. Len(walRecs') = {Len(walRecs')}
  <2>1. Len(walRecs') \in Nat
    OBVIOUS
  <2> QED
    BY <2>1
<1>2. Prefix(walRecs', Len(walRecs')) = walRecs'
  BY WholePrefix, Zenon
<1> QED
  BY <1>1, <1>2, Zenon DEF WalImages

\* An append adds the one longer log to what a power loss may leave.
LEMMA AppendImages ==
  ASSUME TypeInv, NEW r \in Record, append(r)
  PROVE  WalImages' \subseteq WalImages \cup {walRecs'}
<1>1. /\ walRecs \in Seq(Record) /\ Len(walRecs) \in Nat /\ walSynced \in 0 .. Len(walRecs)
      /\ walSynced' = walSynced /\ shadow' = shadow
      /\ walRecs' = walRecs \/ walRecs' = Append(walRecs, r)
  BY DEF TypeInv, TypeOK, append, AppendAt
<1>2. CASE walRecs' = walRecs
  BY <1>1, <1>2, Zenon DEF WalImages
<1>3. CASE walRecs' = Append(walRecs, r)
  <2>1. /\ walRecs' \in Seq(Record) /\ Len(walRecs') = Len(walRecs) + 1
        /\ \A i \in 1 .. Len(walRecs) : walRecs'[i] = walRecs[i]
    BY <1>1, <1>3
  <2>2. ASSUME NEW n \in 0 .. Len(walRecs) PROVE Prefix(walRecs', n) = Prefix(walRecs, n)
    <3>1. /\ Prefix(walRecs, n) \in Seq(Record) /\ Len(Prefix(walRecs, n)) = n
          /\ \A i \in 1 .. n : Prefix(walRecs, n)[i] = walRecs[i]
      BY <1>1, PrefixFacts, Zenon
    <3>2. /\ Prefix(walRecs', n) \in Seq(Record) /\ Len(Prefix(walRecs', n)) = n
          /\ \A i \in 1 .. n : Prefix(walRecs', n)[i] = walRecs'[i]
      <4>1. n \in 0 .. Len(walRecs')
        BY <1>1, <2>1
      <4> QED
        BY <2>1, <4>1, PrefixFacts, Zenon
    <3>3. ASSUME NEW i \in 1 .. n PROVE Prefix(walRecs', n)[i] = Prefix(walRecs, n)[i]
      <4>1. i \in 1 .. Len(walRecs)
        BY <1>1
      <4>2. walRecs'[i] = walRecs[i]
        BY <2>1, <4>1, Zenon
      <4>3. Prefix(walRecs', n)[i] = walRecs'[i] /\ Prefix(walRecs, n)[i] = walRecs[i]
        BY <3>1, <3>2, Zenon
      <4> QED
        BY <4>2, <4>3, Zenon
    <3> QED
      BY <3>1, <3>2, <3>3, SeqEqual, Zenon
  <2>3. Prefix(walRecs', Len(walRecs')) = walRecs'
    BY <2>1, WholePrefix, Zenon
  <2>4. ASSUME NEW n \in walSynced .. Len(walRecs')
        PROVE  Prefix(walRecs', n) \in WalImages \cup {walRecs'}
    <3>1. n = Len(walRecs') \/ n \in walSynced .. Len(walRecs)
      BY <1>1, <2>1
    <3> QED
      BY <1>1, <2>2, <2>3, <3>1 DEF WalImages
  <2> QED
    BY <1>1, <2>4, Zenon DEF WalImages
<1> QED
  BY <1>1, <1>2, <1>3, Zenon

\* A truncation adds the empty log.
LEMMA TruncateImages ==
  ASSUME TypeInv, TruncateWal
  PROVE  WalImages' = WalImages \cup {<<>>}
<1>1. shadow' = WalImages /\ walRecs' = <<>> /\ walSynced' = 0 /\ Len(<<>>) = 0
  BY Zenon DEF TruncateWal
<1>2. <<>> \in Seq(Record)
  OBVIOUS
<1>3. Prefix(<<>>, 0) = <<>>
  BY <1>1, <1>2, WholePrefix, Zenon
<1> QED
  BY <1>1, <1>3 DEF WalImages

\* After a power loss one of them is the file.
LEMMA PowerLossImages ==
  ASSUME TypeInv, PowerLoss
  PROVE  walRecs' \in WalImages /\ WalImages' = {walRecs'}
<1>1. walRecs' \in WalImages /\ walSynced' = Len(walRecs') /\ shadow' = {}
  BY Zenon DEF PowerLoss
<1>2. walRecs' \in Seq(Record)
  BY <1>1, WalIsImage, Zenon
<1> QED
  BY <1>1, <1>2, SyncImages, Zenon

\* What a mutating command appends is the next mutation of the history.
LEMMA CommandsExtendHistory ==
  ASSUME TypeInv,
         \/ \E k \in Keys, v \in Values : durable_set(k, v)
         \/ \E ks \in SUBSET Keys \ {{}} : durable_del(ks)
         \/ \E k \in Keys, ttl \in Ttls : durable_expire(k, ttl)
  PROVE  \E r \in Record : /\ r.off = last_offset + 1 /\ r.ver = ver + 1 /\ r.time = now
                           /\ r.post = AbsApply(cur, r)
                           /\ append(r)
<1>1. /\ last_offset \in Nat /\ now \in 0 .. MaxTime /\ ver \in Nat /\ cur \in AbsMap
      /\ Never \in 0 .. Never /\ \A d \in Ttls : now + d \in 0 .. Never
  BY ConstantsAssumption, SMTT(30) DEF TypeInv, TypeOK
<1>2. ASSUME NEW kind \in {"set", "del", "expire"}, NEW keys \in SUBSET Keys,
             NEW val \in Values \cup {Absent}, kind = "set" => val # Absent,
             NEW at \in 0 .. Never, append(NewRecord(kind, keys, val, at))
      PROVE  \E r \in Record : /\ r.off = last_offset + 1 /\ r.ver = ver + 1 /\ r.time = now
                               /\ r.post = AbsApply(cur, r)
                               /\ append(r)
  <2> DEFINE blank == [off |-> last_offset + 1, kind |-> kind, keys |-> keys, val |-> val,
                       at |-> at, time |-> now, ver |-> ver + 1, post |-> EmptyMap]
             r == [blank EXCEPT !.post = AbsApply(cur, blank)]
  <2>1. NewRecord(kind, keys, val, at) = r
    BY Zenon DEF NewRecord
  <2>2. r \in Record /\ r.off = last_offset + 1 /\ r.ver = ver + 1
    BY <1>1, <1>2, <2>1, NewRecordType
  <2>3. r.time = now /\ r.keys = keys /\ r.kind = kind /\ r.val = val /\ r.at = at
    BY Zenon
  <2>4. \A e : AbsKey(e, r) = AbsKey(e, blank)
    BY <2>3, Zenon DEF AbsKey
  <2>5. AbsApply(cur, r) = AbsApply(cur, blank) /\ r.post = AbsApply(cur, blank)
    BY <2>3, <2>4, Zenon DEF AbsApply
  <2> HIDE DEF r
  <2> QED
    BY <1>2, <2>1, <2>2, <2>3, <2>5, Zenon
<1>3. ASSUME NEW k \in Keys, NEW v \in Values, durable_set(k, v)
      PROVE  append(NewRecord("set", {k}, v, Never)) /\ v # Absent
  BY <1>3, AbsentAssumption, Zenon DEF durable_set
<1>4. ASSUME NEW ks \in SUBSET Keys, durable_del(ks)
      PROVE  append(NewRecord("del", ks, Absent, Never))
  BY <1>4, Zenon DEF durable_del
<1>5. ASSUME NEW k \in Keys, NEW ttl \in Ttls, durable_expire(k, ttl)
      PROVE  append(NewRecord("expire", {k}, Absent, now + ttl)) /\ now + ttl \in 0 .. Never
  BY <1>1, <1>5, Zenon DEF durable_expire
<1> QED
  BY <1>1, <1>2, <1>3, <1>4, <1>5, Zenon

-----------------------------------------------------------------------------
(* The initial state.                                                     *)

\* An empty data directory stands for the empty state.
LEMMA RecoveryInit == Init => RecoveryInv /\ AckInv
<1> SUFFICES ASSUME Init PROVE RecoveryInv /\ AckInv
  BY Zenon
<1>1. /\ phase = "down" /\ pc = "idle" /\ now = 0 /\ exposed = "no" /\ synced = 0
      /\ snap = NoSnapshot /\ snapDisk = NoSnapshot /\ cur = EmptyMap
      /\ walRecs = <<>> /\ walSynced = 0 /\ shadow = {}
  BY Zenon DEF Init
<1>2. NoSnapshot \in Snapshot /\ NoSnapshot.ver = 0 /\ NoSnapshot.base = EmptyMap
  BY EmptyMapTypes, Zenon DEF NoSnapshot, Snapshot
<1>3. <<>> \in Seq(Record) /\ Len(<<>>) = 0
  OBVIOUS
<1>4. Prefix(<<>>, 0) = <<>>
  BY <1>3, WholePrefix, Zenon
<1>5. WalImages = {<<>>}
  BY <1>1, <1>3, <1>4 DEF WalImages
<1>6. Stands(NoSnapshot, 0)
  BY Zenon DEF Stands, Faithful, Unexpired, Live, NoSnapshot, EmptyMap
<1>7. ServeInv
  BY <1>1, <1>3, <1>5, <1>6 DEF ServeInv
<1>8. HistoryInv
  BY <1>1, <1>2, <1>5, EmptyLog DEF HistoryInv
<1>9. ReplayInv
  BY <1>1, Zenon DEF ReplayInv
<1>10. AckInv
  BY <1>1, <1>2, <1>5, EmptyLog, Zenon DEF AckInv, AgreeExcept
<1> QED
  BY <1>7, <1>8, <1>9, <1>10, Zenon DEF RecoveryInv

-----------------------------------------------------------------------------
(* What is served and what snapshots hold is faithful.                     *)

\* Every step keeps what is served, and what the snapshots hold, faithful.
LEMMA ServeNext == Before /\ [Next]_vars => ServeInv'
<1> SUFFICES ASSUME Before, [Next]_vars PROVE ServeInv'
  BY Zenon
<1>a. TypeInv /\ ServeInv
  BY Zenon DEF Before, RecoveryInv
<1>b. /\ pc # "idle" => phase = "up"
      /\ now \in Nat /\ now \in 0 .. MaxTime
      /\ store \in StoreMap /\ cur \in AbsMap
      /\ snap \in Snapshot /\ snapDisk \in Snapshot /\ pend \in Snapshot
      /\ walRecs \in Seq(Record) /\ Len(walRecs) \in Nat
  <2>1. /\ pc # "idle" => phase = "up"
        /\ now \in 0 .. MaxTime
        /\ store \in StoreMap /\ cur \in AbsMap
        /\ snap \in Snapshot /\ snapDisk \in Snapshot /\ pend \in Snapshot
        /\ walRecs \in Seq(Record)
    BY <1>a, Zenon DEF TypeInv, TypeOK, Control
  <2>2. now \in Nat /\ Len(walRecs) \in Nat
    BY <2>1, ConstantsAssumption
  <2> QED
    BY <2>1, <2>2, Zenon
<1>c. /\ snap.map \in StoreMap /\ pend.map \in StoreMap
      /\ Lift(snap.map) \in AbsMap /\ Lift(pend.map) \in AbsMap
  BY <1>b, LiftType, Zenon DEF Snapshot
<1>d. walRecs \in WalImages /\ WalImages \subseteq Seq(Record)
  BY <1>a, WalIsImage, Zenon
<1>e. walRecs' = walRecs /\ SyncWal => WalImages' = {walRecs}
  BY <1>a, <1>b, SyncImages, Zenon DEF SyncWal
<1>f. walRecs' = walRecs /\ UNCHANGED <<walSynced, shadow>> => WalImages' = WalImages
  BY Zenon DEF WalImages
<1> USE DEF ServeInv
<1>1. CASE LoadSnapshot
  BY <1>1, <1>a, <1>b, <1>f, Zenon DEF LoadSnapshot, Load
<1>2. CASE open_and_recover
  <2>1. WalImages' \subseteq WalImages
    BY <1>2, <1>a, <1>b, <1>d, <1>f, SyncImages, Zenon DEF open_and_recover, OpenLog
  <2> QED
    BY <1>2, <1>a, <1>b, <2>1, Zenon DEF open_and_recover, OpenLog
<1>3. CASE ReplayRecord
  BY <1>3, <1>a, <1>b, <1>f, Zenon DEF ReplayRecord
<1>4. CASE Serve
  <2>1. exposed = "yes" => Faithful(store, Lift(store), now)
    BY <1>b, LiftIsFaithful, Zenon
  <2>2. exposed # "yes" => Faithful(store, LatestState(walRecs, snap), now)
    BY <1>4, <1>b, LatestIsStateAt, Zenon DEF Serve, Before, RecoveryInv, ReplayInv
  <2>3. Faithful(store', cur', now')
    BY <1>4, <2>1, <2>2, Zenon DEF Serve
  <2> QED
    BY <1>4, <1>a, <1>b, <1>f, <2>3, Zenon DEF Serve
<1>5. CASE \/ \E k \in Keys, v \in Values : durable_set(k, v)
           \/ \E ks \in SUBSET Keys \ {{}} : durable_del(ks)
           \/ \E k \in Keys, ttl \in Ttls : durable_expire(k, ttl)
  <2>1. PICK r \in Record : r.time = now /\ r.post = AbsApply(cur, r) /\ append(r)
    BY <1>5, <1>a, CommandsExtendHistory, Zenon
  <2>2. /\ phase = "up" /\ phase' = "up" /\ pc = "idle" /\ pc' = "appended" /\ job' = r
        /\ walRecs' = walRecs \/ walRecs' = Append(walRecs, r)
        /\ UNCHANGED <<now, store, cur, snap, snapDisk>>
    BY <2>1, Zenon DEF append, AppendAt, MutexFree
  <2>3. \A i \in 1 .. Len(walRecs') : walRecs'[i].time <= now
    <3>1. CASE walRecs' = walRecs
      BY <1>a, <1>d, <3>1, Zenon
    <3>2. CASE walRecs' = Append(walRecs, r)
      <4>1. /\ Len(walRecs') = Len(walRecs) + 1 /\ walRecs'[Len(walRecs) + 1] = r
            /\ \A i \in 1 .. Len(walRecs) : walRecs'[i] = walRecs[i]
        BY <1>b, <3>2
      <4> QED
        BY <1>a, <1>b, <1>d, <2>1, <4>1
    <3> QED
      BY <2>2, <3>1, <3>2, Zenon
  <2>4. WalImages' \subseteq WalImages \cup {walRecs'}
    BY <1>a, <2>1, AppendImages, Zenon
  <2>5. \A rs \in WalImages' : \A i \in 1 .. Len(rs) : rs[i].time <= now'
    BY <1>a, <2>2, <2>3, <2>4, Zenon
  <2>6. job'.time <= now' /\ job'.post = AbsApply(cur', job')
    BY <1>b, <2>1, <2>2
  <2> QED
    BY <1>a, <2>2, <2>5, <2>6, Zenon
<1>6. CASE Handshake
  BY <1>6, <1>a, <1>f, HandshakeIsLocal, Zenon DEF ThreadStates, TypeInv, TypeOK
<1>7. CASE durability_action
  <2>1. WalImages' \subseteq WalImages
    BY <1>7, <1>d, <1>e, <1>f, Zenon DEF durability_action, Durability, NoSync
  <2> QED
    BY <1>7, <1>a, <2>1, Zenon DEF durability_action, Durability
<1>8. CASE ApplyAndReply
  <2>1. job \in Record /\ phase = "up"
    BY <1>8, <1>a, <1>b, Zenon DEF ApplyAndReply, Reply, TypeInv, TypeOK
  <2>2. Faithful(apply_record(store, job, now), job.post, now)
    BY <1>8, <1>a, <1>b, <2>1, ReplayIsFaithful, Zenon DEF ApplyAndReply, Reply
  <2> QED
    BY <1>8, <1>a, <1>f, <2>2, Zenon DEF ApplyAndReply, Reply
<1>9. ASSUME NEW k \in Keys, ExpireKey(k) PROVE ServeInv'
  <2>1. /\ store[k] # Absent /\ ~Live(store[k], now) /\ phase = "up"
        /\ store' = [store EXCEPT ![k] = Absent]
    BY <1>9, Zenon DEF ExpireKey
  <2>2. Faithful(store', cur, now)
    BY <1>a, <1>b, <2>1, ExpiryIsFaithful, Zenon
  <2>3. pc = "exported" => Faithful(store', Lift(pend.map), now)
    BY <1>a, <1>b, <1>c, <2>1, ExpiryIsFaithful, Zenon
  <2>4. pc = "renamed" => Faithful(store', Lift(snap.map), now)
    BY <1>a, <1>b, <1>c, <2>1, ExpiryIsFaithful, Zenon
  <2> QED
    BY <1>9, <1>a, <1>f, <2>2, <2>3, <2>4, Zenon DEF ExpireKey
<1>10. CASE BackgroundSync
  BY <1>10, <1>a, <1>d, <1>e, Zenon DEF BackgroundSync
<1>11. ASSUME NEW stop \in BOOLEAN, SnapshotBegin(stop) PROVE ServeInv'
  <2>1. WalImages' \subseteq WalImages
    BY <1>11, <1>d, <1>e, <1>f, Zenon DEF SnapshotBegin, NoSync
  <2>2. /\ store' = Unexpired(store, now) /\ store' \in StoreMap
        /\ pend'.map = store' /\ pend'.base = cur /\ pend'.ver = ver
    BY <1>11, <1>b, UnexpiredType, Zenon DEF SnapshotBegin
  <2>3. Faithful(store', cur, now)
    BY <1>11, <1>a, <1>b, <2>2, ExportIsFaithful, Zenon DEF SnapshotBegin
  <2>4. Stands(pend', now)
    BY <1>b, <2>2, <2>3, ExportIsFaithful, Zenon DEF Stands
  <2>5. Faithful(store', Lift(pend'.map), now)
    BY <1>b, <2>2, LiftIsFaithful, Zenon
  <2> QED
    BY <1>11, <1>a, <2>1, <2>2, <2>3, <2>4, <2>5, Zenon DEF SnapshotBegin, MutexFree
<1>12. CASE RenameSnapshot
  BY <1>12, <1>a, <1>f, Zenon DEF RenameSnapshot, Rename
<1>13. CASE SyncDirectory
  <2>1. /\ snap' = snapDisk' /\ snap'.map = snap.map /\ snap'.base = Lift(snap.map)
        /\ snap'.ver = snap.ver /\ cur' = Lift(snap.map)
    BY <1>13, <1>b, Zenon DEF SyncDirectory, Snapshot
  <2>2. Stands(snap', now)
    BY <1>b, <1>c, <2>1, LiftIsFaithful, ExportIsFaithful, Zenon DEF Stands
  <2> QED
    BY <1>13, <1>a, <1>f, <2>1, <2>2, Zenon DEF SyncDirectory
<1>14. CASE SyncDirectoryFails
  BY <1>14, <1>a, <1>f, Zenon DEF SyncDirectoryFails
<1>15. CASE TruncateWal
  <2>1. WalImages' = WalImages \cup {<<>>} /\ Len(<<>>) = 0
    BY <1>15, <1>a, TruncateImages, Zenon
  <2> QED
    BY <1>15, <1>a, <2>1 DEF TruncateWal
<1>16. CASE write_header
  BY <1>16, <1>a, <1>f, Zenon DEF write_header, RestartLog
<1>17. CASE FinishSnapshot
  BY <1>17, <1>a, <1>b, <1>d, <1>e, Zenon DEF FinishSnapshot, SnapshotEnd
<1>18. CASE SnapshotFails
  BY <1>18, <1>a, <1>b, <1>f, Zenon DEF SnapshotFails, SnapshotEnd
<1>19. CASE Tick
  <2>1. now' \in Nat /\ now <= now'
    BY <1>19, <1>b DEF Tick
  <2>2. \A s \in {snap, snapDisk, pend} : Stands(s, now) => Stands(s, now')
    BY <1>b, <2>1, StandsLater, Zenon
  <2>3. \A a \in AbsMap : Faithful(store, a, now) => Faithful(store, a, now')
    BY <1>b, <2>1, FaithfulLater, Zenon
  <2>4. /\ \A rs \in WalImages : \A i \in 1 .. Len(rs) : rs[i].time \in Nat
        /\ pc \in {"appended", "logged"} => job.time \in Nat
    <3>1. ASSUME NEW rs \in WalImages, NEW i \in 1 .. Len(rs) PROVE rs[i] \in Record
      BY <1>d, <3>1
    <3>2. \A r \in Record : r.time \in Nat
      BY DEF Record
    <3>3. pc \in {"appended", "logged"} => job \in Record
      BY <1>a, Zenon DEF TypeInv, TypeOK
    <3> QED
      BY <3>1, <3>2, <3>3, Zenon
  <2>5. /\ \A rs \in WalImages : \A i \in 1 .. Len(rs) : rs[i].time <= now'
        /\ pc \in {"appended", "logged"} => job.time <= now'
    <3>1. \A u \in Nat : u <= now => u <= now'
      BY <1>b, <2>1
    <3> QED
      BY <1>a, <2>4, <3>1, Zenon
  <2> QED
    BY <1>19, <1>a, <1>b, <1>c, <1>f, <2>2, <2>3, <2>5, Zenon DEF Tick
<1>20. CASE Kill
  BY <1>20, <1>a, <1>f, Zenon DEF Kill, ProcessGone
<1>21. CASE PowerLoss
  <2>1. walRecs' \in WalImages /\ WalImages' = {walRecs'}
    BY <1>21, <1>a, PowerLossImages, Zenon
  <2> QED
    BY <1>21, <1>a, <2>1, Zenon DEF PowerLoss, ProcessGone
<1>22. CASE UNCHANGED vars
  BY <1>22, <1>a, <1>f, Zenon DEF vars
<1> QED
  BY <1>1, <1>2, <1>3, <1>4, <1>5, <1>6, <1>7, <1>8, <1>9, <1>10, <1>11, <1>12, <1>13,
     <1>14, <1>15, <1>16, <1>17, <1>18, <1>19, <1>20, <1>21, <1>22, Zenon
     DEF Next, Handshake, snapshot_now, shutdown

-----------------------------------------------------------------------------
(* What a crash leaves on disk leads to the present of the engine.         *)

\* A snapshot of the present covers whatever a power loss may leave of the log.
LEMMA SnapshotCovers ==
  ASSUME TypeInv, OffsetInv, phase = "up",
         NEW s \in Snapshot, s.off = last_offset, ~Resurfacing(s)
  PROVE  \A rs \in WalImages : /\ Chained(rs, s)
                               /\ LatestVer(rs, s) = s.ver /\ LatestState(rs, s) = s.base
<1> SUFFICES ASSUME NEW rs \in WalImages PROVE ~Covers(rs, s)
  BY WalIsImage, ImagesIncreasing, Uncovered, Zenon
<1>1. CASE rs \in shadow
  BY <1>1, Zenon DEF Resurfacing
<1>2. ASSUME NEW n \in walSynced .. Len(walRecs), rs = Prefix(walRecs, n) PROVE ~Covers(rs, s)
  <2>1. /\ walRecs \in Seq(Record) /\ n \in 0 .. Len(walRecs) /\ last_offset \in Nat
    BY DEF TypeInv, TypeOK
  <2>2. Len(rs) = n /\ rs \in Seq(Record) /\ \A i \in 1 .. n : rs[i] = walRecs[i]
    BY <1>2, <2>1, PrefixFacts, Zenon
  <2>3. ASSUME rs # <<>> PROVE ~(rs[Len(rs)].off > s.off)
    <3>1. n \in 1 .. n /\ n \in 1 .. Len(walRecs)
      BY <2>1, <2>2, <2>3
    <3>2. rs[n].off <= last_offset /\ rs[n].off \in Nat
      BY <2>1, <2>2, <3>1, LogOffsets, Zenon DEF OffsetInv
    <3> QED
      BY <2>1, <2>2, <3>2
  <2> QED
    BY <2>3, Zenon DEF Covers
<1> QED
  BY <1>1, <1>2, Zenon DEF WalImages

\* Every step keeps the files leading to the present.
LEMMA HistoryNext == Before /\ [Next]_vars => HistoryInv'
<1> SUFFICES ASSUME Before, [Next]_vars, exposed' # "yes" PROVE HistoryInv'
  BY Zenon DEF HistoryInv
<1>a. TypeInv /\ OffsetInv /\ ContinuityInv /\ ServeInv /\ HistoryInv
  BY Zenon DEF Before, RecoveryInv
<1>b. /\ pc # "idle" => phase = "up"
      /\ ver \in Nat /\ synced \in Nat /\ last_offset \in Nat
      /\ snap \in Snapshot /\ snapDisk \in Snapshot /\ pend \in Snapshot
      /\ walRecs \in Seq(Record) /\ Len(walRecs) \in Nat
      /\ exposed \in {"no", "pending", "yes"}
  BY <1>a DEF TypeInv, TypeOK, Control
<1>c. snap.off \in Nat /\ snapDisk.off \in Nat
  BY <1>b, Zenon DEF Snapshot
<1>d. walRecs \in WalImages /\ WalImages \subseteq Seq(Record)
  BY <1>a, WalIsImage, Zenon
<1>e. walRecs' = walRecs /\ SyncWal => WalImages' = {walRecs}
  BY <1>a, <1>b, SyncImages, Zenon DEF SyncWal
<1>f. walRecs' = walRecs /\ UNCHANGED <<walSynced, shadow>> => WalImages' = WalImages
  BY Zenon DEF WalImages
<1>g. phase = "up" /\ exposed # "yes" =>
        \A s \in {snap, snapDisk} : /\ LatestVer(walRecs, s) = ver /\ ver >= synced
                                    /\ LatestState(walRecs, s) = CurrentState
  BY <1>a, <1>d, Zenon DEF HistoryInv
<1>h. ver >= ver
  BY <1>b
<1> USE DEF HistoryInv
<1>1. CASE LoadSnapshot
  BY <1>1, <1>a, <1>f, Zenon DEF LoadSnapshot, Load
<1>2. CASE open_and_recover
  <2>1. WalImages' \subseteq WalImages
    BY <1>2, <1>a, <1>b, <1>d, <1>f, SyncImages, Zenon DEF open_and_recover, OpenLog
  <2> QED
    BY <1>2, <1>a, <2>1, Zenon DEF open_and_recover, OpenLog
<1>3. CASE ReplayRecord
  BY <1>3, <1>a, <1>f, Zenon DEF ReplayRecord
<1>4. CASE Serve
  <2>1. exposed # "yes" /\ pc' = "idle"
    BY <1>4, <1>b, Zenon DEF Serve
  <2> QED
    BY <1>4, <1>a, <1>f, <2>1, Zenon DEF Serve, CurrentState
<1>5. CASE \/ \E k \in Keys, v \in Values : durable_set(k, v)
           \/ \E ks \in SUBSET Keys \ {{}} : durable_del(ks)
           \/ \E k \in Keys, ttl \in Ttls : durable_expire(k, ttl)
  <2>1. PICK r \in Record : /\ r.off = last_offset + 1 /\ r.ver = ver + 1
                            /\ r.post = AbsApply(cur, r) /\ append(r)
    BY <1>5, <1>a, CommandsExtendHistory, Zenon
  <2>2. /\ phase = "up" /\ pc = "idle" /\ pc' = "appended" /\ job' = r /\ ver' = r.ver
        /\ exposed' = (IF exposed = "pending" THEN "yes" ELSE exposed)
        /\ UNCHANGED <<snap, snapDisk, synced>>
    BY <2>1, Zenon DEF append, AppendAt, MutexFree
  <2>3. exposed = "no" /\ walHdr /\ ~walTorn
    BY <1>a, <1>b, <2>2, Zenon DEF ContinuityInv
  <2>4. walRecs' = Append(walRecs, r)
    BY <2>1, <2>3, Zenon DEF append, AppendAt
  <2>5. \A s \in {snap, snapDisk} : r.off > s.off
    BY <1>a, <1>b, <1>c, <2>1, <2>2, <2>3 DEF ContinuityInv
  <2>6. \A s \in {snap, snapDisk} : Chained(walRecs, s) /\ LatestState(walRecs, s) = cur
    BY <1>a, <1>d, <1>g, <2>2, <2>3, Zenon DEF CurrentState
  <2>7. \A s \in {snap, snapDisk} : /\ Chained(walRecs', s)
                                    /\ LatestVer(walRecs', s) = r.ver
                                    /\ LatestState(walRecs', s) = r.post
    BY <1>b, <2>1, <2>4, <2>5, <2>6, ChainAppend
  <2>8. r.ver >= synced
    BY <1>b, <1>g, <2>1, <2>2, <2>3
  <2>9. WalImages' \subseteq WalImages \cup {walRecs'}
    BY <1>a, <2>1, AppendImages, Zenon
  <2> QED
    BY <1>a, <2>2, <2>3, <2>7, <2>8, <2>9, Zenon DEF CurrentState
<1>6. CASE Handshake
  BY <1>6, <1>a, <1>f, HandshakeIsLocal, Zenon DEF ThreadStates, TypeInv, TypeOK, CurrentState
<1>7. CASE durability_action
  <2>1. /\ phase = "up" /\ phase' = "up" /\ exposed # "yes" /\ CurrentState' = CurrentState
        /\ UNCHANGED <<walRecs, snap, snapDisk, ver>>
    BY <1>7, <1>b, Zenon DEF durability_action, Durability, CurrentState
  <2>2. CASE SyncWal
    BY <1>a, <1>d, <1>e, <1>g, <1>h, <2>1, <2>2, Zenon DEF SyncWal
  <2>3. CASE NoSync
    BY <1>a, <1>f, <2>1, <2>3, Zenon DEF NoSync
  <2> QED
    BY <1>7, <2>2, <2>3, Zenon DEF durability_action, Durability
<1>8. CASE ApplyAndReply
  BY <1>8, <1>a, <1>f, Zenon DEF ApplyAndReply, Reply, CurrentState
<1>9. ASSUME NEW k \in Keys, ExpireKey(k) PROVE HistoryInv'
  BY <1>9, <1>a, <1>f, Zenon DEF ExpireKey, CurrentState
<1>10. CASE BackgroundSync
  <2>1. /\ phase = "up" /\ phase' = "up" /\ exposed # "yes" /\ CurrentState' = CurrentState
        /\ UNCHANGED <<walRecs, snap, snapDisk, ver>> /\ SyncWal
    BY <1>10, Zenon DEF BackgroundSync, CurrentState
  <2> QED
    BY <1>a, <1>d, <1>e, <1>g, <1>h, <2>1, Zenon DEF SyncWal
<1>11. ASSUME NEW stop \in BOOLEAN, SnapshotBegin(stop) PROVE HistoryInv'
  <2>1. /\ phase = "up" /\ phase' = "up" /\ exposed # "yes" /\ CurrentState' = CurrentState
        /\ UNCHANGED <<walRecs, snap, snapDisk, ver>>
    BY <1>11, Zenon DEF SnapshotBegin, MutexFree, CurrentState
  <2>2. CASE SyncWal
    BY <1>a, <1>d, <1>e, <1>g, <1>h, <2>1, <2>2, Zenon DEF SyncWal
  <2>3. CASE NoSync
    BY <1>a, <1>f, <2>1, <2>3, Zenon DEF NoSync
  <2> QED
    BY <1>11, <2>2, <2>3, Zenon DEF SnapshotBegin
<1>12. CASE RenameSnapshot
  <2>1. /\ phase = "up" /\ exposed # "yes" /\ ~Resurfacing(pend) /\ WalImages' = WalImages
        /\ snap' = pend /\ pc = "exported" /\ pc' = "renamed"
        /\ UNCHANGED <<walRecs, snapDisk, ver, synced, cur, phase>>
    BY <1>12, <1>b, <1>f, Zenon DEF RenameSnapshot, Rename
  <2>2. pend.off = last_offset /\ pend.ver = ver /\ pend.base = cur
    BY <1>a, <2>1, Zenon DEF ContinuityInv, ServeInv
  <2>3. \A rs \in WalImages : /\ Chained(rs, pend)
                              /\ LatestVer(rs, pend) = ver /\ LatestState(rs, pend) = cur
    BY <1>a, <1>b, <2>1, <2>2, SnapshotCovers, Zenon
  <2> QED
    BY <1>a, <1>d, <1>g, <2>1, <2>3, Zenon DEF CurrentState
<1>13. CASE SyncDirectory
  <2>1. /\ phase = "up" /\ ~Resurfacing(snap) /\ WalImages' = WalImages
        /\ pc = "renamed" /\ pc' = "dirsynced" /\ synced' = ver /\ cur' = Lift(snap.map)
        /\ UNCHANGED <<walRecs, ver>>
    BY <1>13, <1>b, <1>f DEF SyncDirectory
  <2>2. /\ snap' = snapDisk' /\ snap' \in Snapshot
        /\ snap'.off = last_offset /\ snap'.ver = ver /\ snap'.base = cur'
    <3>1. snap.off = last_offset /\ snap.ver = ver /\ Lift(snap.map) \in AbsMap
      BY <1>a, <1>b, <2>1, LiftType, Zenon DEF ContinuityInv, ServeInv, Snapshot
    <3> QED
      BY <1>13, <1>b, <2>1, <3>1, Zenon DEF SyncDirectory, Snapshot
  <2>3. ~Resurfacing(snap')
    BY <1>a, <1>b, <2>1, <2>2, Zenon DEF Resurfacing, Covers, ContinuityInv
  <2>4. \A rs \in WalImages : /\ Chained(rs, snap')
                              /\ LatestVer(rs, snap') = ver /\ LatestState(rs, snap') = cur'
    BY <1>a, <2>1, <2>2, <2>3, SnapshotCovers, Zenon
  <2> QED
    BY <1>d, <1>h, <2>1, <2>2, <2>4, Zenon DEF CurrentState
<1>14. CASE SyncDirectoryFails
  BY <1>14, Zenon DEF SyncDirectoryFails
<1>15. CASE TruncateWal
  <2>1. /\ phase = "up" /\ exposed # "yes" /\ pc = "dirsynced" /\ pc' = "truncated"
        /\ walRecs' = <<>> /\ UNCHANGED <<snap, snapDisk, ver, synced, cur, phase>>
    BY <1>15, <1>b, Zenon DEF TruncateWal
  <2>2. snapDisk = snap /\ snap.ver = ver /\ snap.base = cur
    BY <1>a, <2>1, Zenon DEF ServeInv
  <2>3. Chained(<<>>, snap) /\ LatestVer(<<>>, snap) = ver /\ LatestState(<<>>, snap) = cur
    BY <1>b, <2>2, EmptyLog, Zenon
  <2>4. WalImages' = WalImages \cup {<<>>}
    BY <1>15, <1>a, TruncateImages, Zenon
  <2> QED
    BY <1>a, <1>g, <2>1, <2>2, <2>3, <2>4, Zenon DEF CurrentState
<1>16. CASE write_header
  BY <1>16, <1>a, <1>f, Zenon DEF write_header, RestartLog, CurrentState
<1>17. CASE FinishSnapshot
  <2>1. /\ pc = "header" /\ pc' = "idle" /\ walRecs = <<>> /\ WalImages' = {<<>>}
        /\ synced' = ver /\ UNCHANGED <<walRecs, snap, snapDisk, ver, cur>>
    BY <1>17, <1>a, <1>e, Zenon DEF FinishSnapshot, SnapshotEnd, OffsetInv, SyncWal
  <2>2. snapDisk = snap /\ snap.ver = ver /\ snap.base = cur
    BY <1>17, <1>a, <2>1, Zenon DEF FinishSnapshot, ServeInv
  <2>3. Chained(<<>>, snap) /\ LatestVer(<<>>, snap) = ver /\ LatestState(<<>>, snap) = cur
    BY <1>b, <2>2, EmptyLog
  <2> QED
    BY <1>h, <2>1, <2>2, <2>3, Zenon DEF CurrentState
<1>18. CASE SnapshotFails
  <2>1. exposed # "yes" /\ phase = "up" /\ CurrentState = cur /\ CurrentState' = cur
    BY <1>18, <1>b, Zenon DEF SnapshotFails, SnapshotEnd, CurrentState
  <2> QED
    BY <1>18, <1>a, <1>f, <2>1, Zenon DEF SnapshotFails
<1>19. CASE Tick
  BY <1>19, <1>a, <1>f, Zenon DEF Tick, CurrentState
<1>20. CASE Kill
  BY <1>20, <1>a, <1>f, Zenon DEF Kill, ProcessGone
<1>21. CASE PowerLoss
  <2>1. walRecs' \in WalImages /\ WalImages' = {walRecs'}
    BY <1>21, <1>a, PowerLossImages, Zenon
  <2> QED
    BY <1>21, <1>a, <2>1, Zenon DEF PowerLoss, ProcessGone
<1>22. CASE UNCHANGED vars
  BY <1>22, <1>a, <1>f, Zenon DEF vars, CurrentState
<1> QED
  BY <1>1, <1>2, <1>3, <1>4, <1>5, <1>6, <1>7, <1>8, <1>9, <1>10, <1>11, <1>12, <1>13,
     <1>14, <1>15, <1>16, <1>17, <1>18, <1>19, <1>20, <1>21, <1>22, Zenon
     DEF Next, Handshake, snapshot_now, shutdown

-----------------------------------------------------------------------------
(* Recovery follows the history.                                           *)

\* Every step of recovery keeps the store faithful to the records replayed.
LEMMA ReplayNext == Before /\ [Next]_vars => ReplayInv'
<1> SUFFICES ASSUME Before, [Next]_vars, exposed' # "yes" PROVE ReplayInv'
  BY Zenon DEF ReplayInv
<1>a. TypeInv /\ OffsetInv /\ ServeInv /\ HistoryInv /\ ReplayInv
  BY Zenon DEF Before, RecoveryInv
<1>b. /\ pc # "idle" => phase = "up"
      /\ now \in Nat /\ now \in 0 .. MaxTime
      /\ store \in StoreMap /\ snap \in Snapshot /\ snap.base \in AbsMap /\ snap.off \in Nat
      /\ walRecs \in Seq(Record) /\ Len(walRecs) \in Nat /\ pos \in 0 .. Len(walRecs)
  BY <1>a, ConstantsAssumption DEF TypeInv, TypeOK, Control, Snapshot
<1>c. walRecs \in WalImages
  BY <1>a, WalIsImage, Zenon
<1>d. StateAt(walRecs, pos, snap) \in AbsMap
  <2>1. pos > 0 => walRecs[pos] \in Record
    BY <1>b
  <2> QED
    BY <1>b, <2>1, Zenon DEF StateAt, Record
<1> USE DEF ReplayInv
<1>1. CASE LoadSnapshot
  BY <1>1, <1>a, Zenon DEF LoadSnapshot, Load, ServeInv, Stands
<1>2. CASE open_and_recover
  <2>1. StateAt(walRecs, 0, snap) = snap.base
    BY DEF StateAt
  <2> QED
    BY <1>2, <1>a, <2>1, Zenon DEF open_and_recover, OpenLog
<1>3. CASE ReplayRecord
  <2>1. /\ phase = "replay" /\ phase' = "replay" /\ pos < Len(walRecs) /\ pos' = pos + 1
        /\ exposed # "yes" /\ UNCHANGED <<now, walRecs, snap>>
        /\ store' = (IF walRecs[pos + 1].off <= snap.off THEN store
                     ELSE apply_record(store, walRecs[pos + 1], now))
    BY <1>3, Zenon DEF ReplayRecord
  <2>2. /\ pos + 1 \in 1 .. Len(walRecs) /\ walRecs[pos + 1] \in Record
        /\ walRecs[pos + 1].off \in Nat
    BY <1>b, <2>1, LogOffsets
  <2>3. Faithful(store, StateAt(walRecs, pos, snap), now)
    BY <1>a, <2>1, Zenon
  <2>4. CASE walRecs[pos + 1].off <= snap.off
    <3>1. StateAt(walRecs, pos + 1, snap) = snap.base
      BY <1>b, <2>2, <2>4 DEF StateAt
    <3>2. pos > 0 => walRecs[pos].off \in Nat /\ walRecs[pos].off < walRecs[pos + 1].off
      BY <1>a, <1>b, <2>2, LogOffsets DEF OffsetInv, Logs, Increasing
    <3>3. StateAt(walRecs, pos, snap) = snap.base
      BY <1>b, <2>2, <2>4, <3>2 DEF StateAt
    <3> QED
      BY <2>1, <2>3, <2>4, <3>1, <3>3, Zenon
  <2>5. CASE ~(walRecs[pos + 1].off <= snap.off)
    <3>1. walRecs[pos + 1].off > snap.off
      BY <1>b, <2>2, <2>5
    <3>2. walRecs[pos + 1].post = AbsApply(StateAt(walRecs, pos, snap), walRecs[pos + 1])
      <4>1. (pos + 1) - 1 = pos
        BY <1>b
      <4>2. Chained(walRecs, snap)
        BY <1>a, <1>c, <2>1, Zenon DEF HistoryInv
      <4> QED
        BY <2>2, <3>1, <4>1, <4>2, Zenon DEF Chained
    <3>3. StateAt(walRecs, pos + 1, snap) = walRecs[pos + 1].post
      BY <1>b, <3>1 DEF StateAt
    <3>4. walRecs[pos + 1].time <= now
      BY <1>a, <1>c, <2>2, Zenon DEF ServeInv
    <3>5. Faithful(store', walRecs[pos + 1].post, now)
      BY <1>b, <1>d, <2>1, <2>2, <2>3, <2>5, <3>2, <3>4, ReplayIsFaithful, Zenon
    <3> QED
      BY <2>1, <3>3, <3>5, Zenon
  <2> QED
    BY <2>4, <2>5, Zenon
<1>4. CASE Serve
  BY <1>4, Zenon DEF Serve
<1>5. CASE \/ \E k \in Keys, v \in Values : durable_set(k, v)
           \/ \E ks \in SUBSET Keys \ {{}} : durable_del(ks)
           \/ \E k \in Keys, ttl \in Ttls : durable_expire(k, ttl)
  <2>1. PICK r \in Record : append(r)
    BY <1>5, <1>a, CommandsAppend, Zenon
  <2> QED
    BY <2>1, Zenon DEF append, AppendAt
<1>6. CASE Handshake
  BY <1>6, <1>a, HandshakeIsLocal, Zenon DEF ThreadStates, TypeInv, TypeOK
<1>7. CASE durability_action \/ ApplyAndReply \/ BackgroundSync
  BY <1>7, <1>b, Zenon DEF durability_action, Durability, ApplyAndReply, Reply, BackgroundSync
<1>8. ASSUME NEW k \in Keys, ExpireKey(k) PROVE ReplayInv'
  BY <1>8, Zenon DEF ExpireKey
<1>9. ASSUME NEW stop \in BOOLEAN, SnapshotBegin(stop) PROVE ReplayInv'
  BY <1>9, Zenon DEF SnapshotBegin
<1>10. CASE RenameSnapshot \/ SyncDirectory \/ SyncDirectoryFails \/ TruncateWal \/ write_header
  BY <1>10, <1>b, Zenon DEF RenameSnapshot, Rename, SyncDirectory, SyncDirectoryFails, TruncateWal,
     write_header, RestartLog
<1>11. CASE FinishSnapshot \/ SnapshotFails
  BY <1>11, Zenon DEF FinishSnapshot, SnapshotFails, SnapshotEnd
<1>12. CASE Tick
  <2>1. now' \in Nat /\ now <= now'
    BY <1>12, <1>b DEF Tick
  <2>2. \A a \in AbsMap : Faithful(store, a, now) => Faithful(store, a, now')
    BY <1>b, <2>1, FaithfulLater, Zenon
  <2> QED
    BY <1>12, <1>a, <1>b, <1>d, <2>2, Zenon DEF Tick
<1>13. CASE Kill \/ PowerLoss
  BY <1>13, Zenon DEF Kill, PowerLoss, ProcessGone
<1>14. CASE UNCHANGED vars
  BY <1>14, <1>a, Zenon DEF vars
<1> QED
  BY <1>1, <1>2, <1>3, <1>4, <1>5, <1>6, <1>7, <1>8, <1>9, <1>10, <1>11, <1>12, <1>13, <1>14, Zenon
     DEF Next, Handshake, snapshot_now, shutdown

\* The invariant holds in every reachable state.
LEMMA RecoveryAlways == Spec => []Before
<1>1. Init => Before
  BY TypeInit, OffsetInit, ContinuityInit, RecoveryInit, Zenon DEF Before
<1>2. Before /\ [Next]_vars => Before'
  <2> SUFFICES ASSUME Before, [Next]_vars PROVE Before'
    OBVIOUS
  <2>1. TypeInv' /\ OffsetInv' /\ ContinuityInv'
    BY TypeNext, OffsetNext, ContinuityNext, Zenon DEF Before
  <2>2. RecoveryInv'
    BY ServeNext, HistoryNext, ReplayNext, Zenon DEF RecoveryInv
  <2> QED
    BY <2>1, <2>2, Zenon DEF Before
<1> QED
  BY <1>1, <1>2, PTL DEF Spec

\* recover_into ends with the state of one moment of the history, none older
\* than the last completed fsync, in every fsync mode and after any sequence of
\* kills, power losses and failed snapshots.
THEOREM RecoveryYieldsAPrefix == Spec => []RecoveredStateIsAPrefix
<1>1. ASSUME Before PROVE RecoveredStateIsAPrefix
  <2> SUFFICES ASSUME Recovered, exposed # "yes"
               PROVE  /\ LatestVer(walRecs, snap) >= synced
                      /\ Faithful(store, LatestState(walRecs, snap), now)
    BY Zenon DEF RecoveredStateIsAPrefix
  <2>1. TypeInv /\ HistoryInv /\ ReplayInv
    BY <1>1, Zenon DEF Before, RecoveryInv
  <2>2. walRecs \in WalImages /\ walRecs \in Seq(Record) /\ snap \in Snapshot
    BY <2>1, WalIsImage, Zenon DEF TypeInv, TypeOK
  <2> QED
    BY <2>1, <2>2, LatestIsStateAt, Zenon DEF HistoryInv, ReplayInv, Recovered
<1> QED
  BY <1>1, RecoveryAlways, PTL

-----------------------------------------------------------------------------
(* Recovery keeps the acknowledged mutations.                              *)

\* A mutation changes nothing but its own keys.
LEMMA MutationIsLocal ==
  ASSUME NEW a \in AbsMap, NEW r \in Record, NEW ks, r.keys \subseteq ks
  PROVE  AgreeExcept(ks, AbsApply(a, r), a)
BY Zenon DEF AgreeExcept, AbsApply

\* What agrees with the same agrees, and agreement survives further exceptions.
LEMMA AgreeRules ==
  ASSUME NEW ks, NEW a, NEW b, NEW c, AgreeExcept(ks, a, b)
  PROVE  /\ AgreeExcept(ks, a, a)
         /\ AgreeExcept(ks, c, b) => AgreeExcept(ks, c, a)
         /\ \A more : AgreeExcept(ks \cup more, a, b)
BY Zenon DEF AgreeExcept

\* Every step keeps the acknowledged state in reach.
LEMMA AckNext == Before /\ AckInv /\ [Next]_vars => AckInv'
<1> SUFFICES ASSUME Before, AckInv, [Next]_vars PROVE AckInv'
  BY Zenon
<1>a. TypeInv /\ OffsetInv /\ ContinuityInv /\ ServeInv /\ HistoryInv
  BY Zenon DEF Before, RecoveryInv
<1>b. /\ pc # "idle" => phase = "up"
      /\ cur \in AbsMap /\ ver \in Nat /\ last_offset \in Nat
      /\ snap \in Snapshot /\ snapDisk \in Snapshot /\ pend \in Snapshot
      /\ walRecs \in Seq(Record) /\ Len(walRecs) \in Nat
      /\ exposed \in {"no", "pending", "yes"}
      /\ pc \in {"appended", "logged"} => job \in Record
  BY <1>a DEF TypeInv, TypeOK, Control
<1>d. walRecs \in WalImages /\ WalImages \subseteq Seq(Record)
  BY <1>a, WalIsImage, Zenon
<1>e. walRecs' = walRecs /\ SyncWal => WalImages' = {walRecs}
  BY <1>a, <1>b, SyncImages, Zenon DEF SyncWal
<1>f. walRecs' = walRecs /\ UNCHANGED <<walSynced, shadow>> => WalImages' = WalImages
  BY Zenon DEF WalImages
<1>g. \A ks, a : AgreeExcept(ks, a, a)
  BY Zenon DEF AgreeExcept
<1> USE DEF AckInv
<1>1. CASE LoadSnapshot
  BY <1>1, <1>b, <1>f, Zenon DEF LoadSnapshot, Load
<1>2. CASE open_and_recover
  <2>1. WalImages' \subseteq WalImages /\ pc' = "idle"
    BY <1>2, <1>a, <1>b, <1>d, <1>f, SyncImages, Zenon DEF open_and_recover, OpenLog
  <2> QED
    BY <1>2, <2>1, Zenon DEF open_and_recover, OpenLog
<1>3. CASE ReplayRecord
  BY <1>3, <1>b, <1>f, Zenon DEF ReplayRecord
<1>4. CASE Serve
  <2>1. /\ pc' = "idle" /\ WalImages' = WalImages /\ UNCHANGED <<walRecs, snap, snapDisk, unsure>>
        /\ exposed' # "yes" => exposed # "yes" /\ cur' = LatestState(walRecs, snap)
    BY <1>4, <1>b, <1>f, Zenon DEF Serve
  <2>2. exposed' # "yes" /\ FsyncMode = "always" =>
          \A s \in {snap, snapDisk}, rs \in WalImages :
            AgreeExcept(unsure, LatestState(rs, s), cur')
    BY <1>d, <2>1, AgreeRules, Zenon
  <2> QED
    BY <1>g, <2>1, <2>2, Zenon
<1>5. CASE \/ \E k \in Keys, v \in Values : durable_set(k, v)
           \/ \E ks \in SUBSET Keys \ {{}} : durable_del(ks)
           \/ \E k \in Keys, ttl \in Ttls : durable_expire(k, ttl)
  <2>1. PICK r \in Record : r.post = AbsApply(cur, r) /\ append(r)
    BY <1>5, <1>a, CommandsExtendHistory, Zenon
  <2>2. /\ phase = "up" /\ phase' = "up" /\ pc' = "appended" /\ job' = r
        /\ unsure' = unsure \cup r.keys /\ UNCHANGED <<snap, snapDisk, cur, lost>>
        /\ exposed' # "yes" => exposed # "yes"
    BY <2>1, Zenon DEF append, AppendAt
  <2>3. WalImages' \subseteq WalImages \cup {walRecs'}
    BY <1>a, <2>1, AppendImages, Zenon
  <2>4. exposed' # "yes" => \A s \in {snap, snapDisk} : LatestState(walRecs', s) = r.post
    BY <2>2, HistoryNext, Zenon DEF HistoryInv, CurrentState
  <2>5. AgreeExcept(unsure', r.post, cur)
    <3>1. r.keys \subseteq unsure'
      BY <2>2, Zenon
    <3> QED
      BY <1>b, <2>1, <3>1, MutationIsLocal, Zenon
  <2>6. \A a : AgreeExcept(unsure, a, cur) => AgreeExcept(unsure', a, cur)
    BY <2>2, AgreeRules, Zenon
  <2> QED
    BY <2>2, <2>3, <2>4, <2>5, <2>6, Zenon
<1>6. CASE Handshake
  BY <1>6, <1>a, <1>f, HandshakeIsLocal, Zenon DEF ThreadStates, TypeInv, TypeOK
<1>7. CASE durability_action
  <2>1. WalImages' \subseteq WalImages
    BY <1>7, <1>d, <1>e, <1>f, Zenon DEF durability_action, Durability, NoSync
  <2>2. FsyncMode = "always" => WalImages' = {walRecs'}
    BY <1>7, <1>e, Zenon DEF durability_action, Durability
  <2> QED
    BY <1>7, <2>1, <2>2, Zenon DEF durability_action, Durability
<1>8. CASE ApplyAndReply
  <2>1. /\ pc = "logged" /\ pc' = "idle" /\ phase = "up" /\ cur' = job.post
        /\ WalImages' = WalImages /\ UNCHANGED <<walRecs, snap, snapDisk, exposed, lost>>
    BY <1>8, <1>b, <1>f, Zenon DEF ApplyAndReply, Reply
  <2>2. exposed # "yes" => \A s \in {snap, snapDisk} : LatestState(walRecs, s) = cur'
    BY <1>a, <2>1, Zenon DEF HistoryInv, CurrentState
  <2> QED
    BY <1>g, <2>1, <2>2, Zenon
<1>9. ASSUME NEW k \in Keys, ExpireKey(k) PROVE AckInv'
  BY <1>9, <1>f, Zenon DEF ExpireKey
<1>10. CASE BackgroundSync
  <2>1. WalImages' = {walRecs} /\ walRecs' = walRecs
    BY <1>10, <1>e, Zenon DEF BackgroundSync
  <2> QED
    BY <1>10, <1>d, <2>1, Zenon DEF BackgroundSync
<1>11. ASSUME NEW stop \in BOOLEAN, SnapshotBegin(stop) PROVE AckInv'
  <2>1. WalImages' \subseteq WalImages
    BY <1>11, <1>d, <1>e, <1>f, Zenon DEF SnapshotBegin, NoSync
  <2> QED
    BY <1>11, <2>1, Zenon DEF SnapshotBegin
<1>12. CASE RenameSnapshot
  <2>1. /\ phase = "up" /\ pc = "exported" /\ pc' = "renamed" /\ WalImages' = WalImages
        /\ snap' = pend /\ UNCHANGED <<walRecs, snapDisk, cur, unsure, lost>>
        /\ exposed' # "yes" => exposed # "yes" /\ ~Resurfacing(pend)
    BY <1>12, <1>b, <1>f, Zenon DEF RenameSnapshot, Rename
  <2>2. pend.off = last_offset /\ pend.base = cur
    BY <1>a, <2>1, Zenon DEF ContinuityInv, ServeInv
  <2>3. exposed' # "yes" => \A rs \in WalImages : LatestState(rs, pend) = cur
    BY <1>a, <1>b, <2>1, <2>2, SnapshotCovers, Zenon
  <2> QED
    BY <1>d, <1>g, <2>1, <2>3, Zenon
<1>13. CASE SyncDirectory
  <2>1. /\ phase = "up" /\ pc = "renamed" /\ pc' = "dirsynced" /\ WalImages' = WalImages
        /\ cur' = Lift(snap.map) /\ walRecs' = walRecs
        /\ exposed' # "yes" => ~Resurfacing(snap)
    BY <1>13, <1>b, <1>f, Zenon DEF SyncDirectory
  <2>2. /\ snap' = snapDisk' /\ snap' \in Snapshot
        /\ snap'.off = last_offset /\ snap'.off = snap.off /\ snap'.base = cur'
    <3>1. snap.off = last_offset /\ Lift(snap.map) \in AbsMap
      BY <1>a, <1>b, <2>1, LiftType, Zenon DEF ContinuityInv, Snapshot
    <3> QED
      BY <1>13, <1>b, <2>1, <3>1, Zenon DEF SyncDirectory, Snapshot
  <2>3. exposed' # "yes" => ~Resurfacing(snap')
    BY <2>1, <2>2, Zenon DEF Resurfacing, Covers
  <2>4. exposed' # "yes" => \A rs \in WalImages : LatestState(rs, snap') = cur'
    BY <1>a, <2>1, <2>2, <2>3, SnapshotCovers, Zenon
  <2> QED
    BY <1>d, <1>g, <2>1, <2>2, <2>4, Zenon
<1>14. CASE SyncDirectoryFails
  BY <1>14, <1>f, Zenon DEF SyncDirectoryFails
<1>15. CASE TruncateWal
  <2>1. /\ phase = "up" /\ pc = "dirsynced" /\ pc' = "truncated" /\ walRecs' = <<>>
        /\ UNCHANGED <<snap, snapDisk, cur, unsure, lost, exposed>>
    BY <1>15, <1>b, Zenon DEF TruncateWal
  <2>2. exposed # "yes" => snapDisk = snap /\ snap.base = cur
    BY <1>a, <2>1, Zenon DEF ServeInv
  <2>3. exposed # "yes" => LatestState(<<>>, snap) = cur
    BY <1>b, <2>2, EmptyLog, Zenon
  <2>4. WalImages' = WalImages \cup {<<>>}
    BY <1>15, <1>a, TruncateImages, Zenon
  <2> QED
    BY <1>g, <2>1, <2>2, <2>3, <2>4, Zenon
<1>16. CASE write_header
  BY <1>16, <1>f, Zenon DEF write_header, RestartLog
<1>17. CASE FinishSnapshot
  <2>1. /\ pc = "header" /\ pc' = "idle" /\ walRecs = <<>> /\ WalImages' = {<<>>}
        /\ UNCHANGED <<walRecs, snap, snapDisk, cur, unsure>>
    BY <1>17, <1>a, <1>e, Zenon DEF FinishSnapshot, SnapshotEnd, OffsetInv, SyncWal
  <2>2. exposed' # "yes" => snapDisk = snap /\ snap.base = cur
    BY <1>17, <1>a, <2>1, Zenon DEF FinishSnapshot, ServeInv
  <2>3. exposed' # "yes" => LatestState(<<>>, snap) = cur
    BY <1>b, <2>2, EmptyLog, Zenon
  <2> QED
    BY <1>g, <2>1, <2>2, <2>3, Zenon
<1>18. CASE SnapshotFails
  BY <1>18, <1>f, Zenon DEF SnapshotFails, SnapshotEnd
<1>19. CASE Tick
  BY <1>19, <1>f, Zenon DEF Tick
<1>20. CASE Kill
  BY <1>20, <1>f, Zenon DEF Kill, ProcessGone
<1>21. CASE PowerLoss
  <2>1. walRecs' \in WalImages /\ WalImages' = {walRecs'}
    BY <1>21, <1>a, PowerLossImages, Zenon
  <2>2. lost' = TRUE
    BY <1>21, Zenon DEF PowerLoss
  <2> QED
    BY <1>21, <2>1, <2>2, Zenon DEF PowerLoss, ProcessGone
<1>22. CASE UNCHANGED vars
  BY <1>22, <1>f, Zenon DEF vars
<1> QED
  BY <1>1, <1>2, <1>3, <1>4, <1>5, <1>6, <1>7, <1>8, <1>9, <1>10, <1>11, <1>12, <1>13,
     <1>14, <1>15, <1>16, <1>17, <1>18, <1>19, <1>20, <1>21, <1>22, Zenon
     DEF Next, Handshake, snapshot_now, shutdown

\* With fsync=always after any crash, and in every mode after a mere kill,
\* recover_into restores each key as its last acknowledged reply left it, but
\* for keys of a mutation in flight and deadlines that passed.
THEOREM AcknowledgedWritesSurvive == Spec => []AckedWritesSurviveAligned
<1>1. ASSUME Before, AckInv PROVE AckedWritesSurviveAligned
  <2> SUFFICES ASSUME Recovered, exposed # "yes", FsyncMode = "always" \/ ~lost,
                      NEW k \in Keys \ unsure
               PROVE  /\ store[k] # Absent => /\ cur[k] # Absent
                                              /\ store[k].val = cur[k].val
                                              /\ store[k].exp = cur[k].exp
                      /\ cur[k] # Absent /\ cur[k].low > now => store[k] # Absent
    BY Zenon DEF AckedWritesSurviveAligned
  <2>1. TypeInv /\ ReplayInv
    BY <1>1, Zenon DEF Before, RecoveryInv
  <2>2. walRecs \in WalImages /\ walRecs \in Seq(Record) /\ snap \in Snapshot
    BY <2>1, WalIsImage, Zenon DEF TypeInv, TypeOK
  <2>3. Faithful(store, LatestState(walRecs, snap), now)
    BY <2>1, <2>2, LatestIsStateAt, Zenon DEF ReplayInv, Recovered
  <2>4. LatestState(walRecs, snap)[k] = cur[k]
    BY <1>1, <2>2, Zenon DEF AckInv, AgreeExcept
  <2> QED
    BY <2>3, <2>4, Zenon DEF Faithful
<1>2. Before /\ AckInv => AckedWritesSurviveAligned
  BY <1>1, Zenon
<1>3. Init => AckInv
  BY RecoveryInit, Zenon
<1> QED
  BY <1>2, <1>3, AckNext, RecoveryAlways, PTL DEF Spec

=============================================================================
