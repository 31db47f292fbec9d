---------------------------- MODULE StoreProofs ----------------------------
(***************************************************************************)
(* Proofs about Store, for any number of threads, shards and keys: the     *)
(* invariant of entries and calls, what the steps do to the entries, and   *)
(* the counter of expired keys.                                            *)
(***************************************************************************)
EXTENDS Store, FiniteSetTheorems, TLAPS

\* A call has the fields of Inactive.
IsCall(c) ==
  c = [pc |-> c.pc, req |-> c.req, t |-> c.t, todo |-> c.todo, res |-> c.res,
       since |-> c.since, taken |-> c.taken]

\* Which commands are where; a scan has shards to visit until it is done.
CallInv(c) ==
  /\ IsCall(c)
  /\ c.pc \in {"idle", "called", "recheck", "work", "done"} /\ c.t \in 0 .. now
  /\ IF c.pc = "idle" THEN c.req = NoRequest
                      ELSE c.req \in Requests /\ c.req.op \in config_.commands
  /\ c.pc = "recheck" => c.req.op \in Reads
  /\ c.pc = "work" => c.req.op \in Locking /\ c.todo \subseteq Keys
  /\ c.pc = "called" /\ c.req.op \in Scans => c.todo # {} /\ c.todo \subseteq Shards
  /\ c.pc = "done" /\ c.req.op \in Scans => c.todo = {}

\* Types, without the memory counter.
StoreInv ==
  /\ config_ \in Configs /\ now \in 0 .. MaxTime
  /\ entries \in [Keys -> Entry \cup {Absent}] /\ cut \in [Keys -> Entry \cup {Absent}]
  /\ expired_keys_ \in Nat /\ created \in Nat /\ removed \in Nat
  /\ call = [p \in Threads |-> call[p]]
  /\ \A p \in Threads : CallInv(call[p])

-----------------------------------------------------------------------------
(* Types, and the two ways in which a step changes the entries.            *)

\* What a request consists of.
LEMMA RequestFacts ==
  ASSUME NEW r \in Requests
  PROVE  /\ r.op \in Reads \cup Locking \cup {"set", "expire"} \cup Scans
         /\ r.keys \subseteq Keys
         /\ r.op \in Reads \cup {"set", "expire"} => \E k \in Keys : r.keys = {k}
         /\ r.op = "set" => r.val \in Values
         /\ r.op = "expire" => r.ttl \in Ttls
BY Zenon DEF Requests, Reads, Locking, Scans

\* The key of a command with one key.
LEMMA KeyOfCall ==
  ASSUME StoreInv, NEW p \in Threads, call[p].pc # "idle",
         call[p].req.op \in Reads \cup {"set", "expire"}
  PROVE  Key(p) \in Keys /\ call[p].req.keys = {Key(p)}
<1>1. call[p].req \in Requests
  BY Zenon DEF StoreInv, CallInv
<1>2. PICK k \in Keys : call[p].req.keys = {k}
  BY <1>1, RequestFacts, Zenon
<1> QED
  BY <1>2, Zenon DEF Key

\* The constants that are numbers.
LEMMA NaturalConstants ==
  /\ samples_per_shard \in Nat /\ EntrySize \in Nat /\ Never \in Nat
  /\ MaxTime \in Nat /\ MaxCalls \in Nat
BY StoreAssumption, Zenon

\* A new entry is an entry.
LEMMA NewEntryType ==
  ASSUME NEW v \in Values
  PROVE  NewEntry(v, Never) \in Entry
<1>1. v \in Nat
  BY StoreAssumption, Zenon
<1>2. estimate_bytes(v) \in Nat /\ Never \in 0 .. Never
  BY <1>1, NaturalConstants DEF estimate_bytes
<1> QED
  BY <1>2, Zenon DEF NewEntry, Entry

\* No deadline EXPIRE sets is Never.
LEMMA DeadlineType ==
  ASSUME NEW t \in 0 .. MaxTime, NEW d \in Ttls
  PROVE  t + d \in 0 .. Never
<1>1. d \in Nat /\ MaxTime + d < Never
  BY StoreAssumption, Zenon
<1> QED
  BY <1>1, NaturalConstants

\* Erasing entries leaves entries.
LEMMA DropType ==
  ASSUME NEW m \in [Keys -> Entry \cup {Absent}], NEW ks
  PROVE  Drop(m, ks) \in [Keys -> Entry \cup {Absent}]
BY Zenon DEF Drop

\* What was expired some time ago is expired now.
LEMMA ExpiredLater ==
  ASSUME NEW m \in [Keys -> Entry \cup {Absent}], NEW t \in Int, NEW u \in Int, t <= u
  PROVE  Expired(m, t) \subseteq Expired(m, u)
<1> SUFFICES ASSUME NEW k \in Keys, m[k] # Absent, m[k].expires_at <= t
             PROVE  m[k].expires_at <= u
  BY Zenon DEF Expired, Present, is_expired
<1>1. m[k].expires_at \in 0 .. Never
  BY Zenon DEF Entry
<1> QED
  BY <1>1, StoreAssumption

\* A step by which expired entries disappear and are counted.
Erases == \E ks \in SUBSET Expired(entries, now) : erase_expired_locked(ks)

\* The entry of k, and no other, changes, and that is counted.
Rewrites(k) ==
  /\ \A j \in Keys \ {k} : entries'[j] = entries[j]
  /\ \/ /\ entries[k] = Absent /\ entries'[k] # Absent
        /\ created' = created + 1 /\ UNCHANGED <<removed, expired_keys_>>
     \/ /\ entries[k] # Absent /\ entries'[k] # Absent
        /\ UNCHANGED <<created, removed, expired_keys_>>
     \/ /\ entries[k] # Absent /\ entries'[k] # Absent
        /\ created' = created + 1 /\ expired_keys_' = expired_keys_ + 1 /\ UNCHANGED removed
     \/ /\ entries[k] # Absent /\ entries'[k] = Absent
        /\ removed' = removed + 1 /\ UNCHANGED <<created, expired_keys_>>

\* A step by which the command of p changes one entry.
Writes(p) ==
  /\ call[p].pc # "idle" /\ call[p].req.op \in {"set", "del", "expire"}
  /\ entries' \in [Keys -> Entry \cup {Absent}]
  /\ \E k \in Keys : Rewrites(k)

\* Taking out a live entry is a write.
LEMMA TakeOut ==
  ASSUME StoreInv, NEW p \in Threads, NEW k \in Keys, NEW t,
         call[p].pc # "idle", call[p].req.op \in {"del", "expire"},
         k \in Live(entries, t), entries' = Drop(entries, {k}),
         removed' = removed + 1, UNCHANGED <<expired_keys_, created>>
  PROVE  Writes(p)
<1>1. entries' \in [Keys -> Entry \cup {Absent}]
  BY DropType, Zenon DEF StoreInv
<1> QED
  BY <1>1, Zenon DEF Writes, Rewrites, Live, Present, Drop

\* SET is a write.
LEMMA SetWrites ==
  ASSUME StoreInv, NEW p \in Threads, set(p)
  PROVE  Writes(p)
<1> DEFINE k == Key(p)
<1>1. call[p].pc = "called" /\ call[p].req.op = "set" /\ call[p].req \in Requests
  BY Zenon DEF set, Overwrite, StoreInv, CallInv
<1>2. k \in Keys /\ call[p].req.val \in Values
  BY <1>1, KeyOfCall, RequestFacts, Zenon
<1>3. NewEntry(call[p].req.val, Never) \in Entry
  BY <1>2, NewEntryType, Zenon
<1>4. entries' = [entries EXCEPT ![k] = NewEntry(call[p].req.val, Never)]
  BY Zenon DEF set, Overwrite
<1>5. /\ entries' \in [Keys -> Entry \cup {Absent}] /\ entries'[k] # Absent
      /\ \A j \in Keys \ {k} : entries'[j] = entries[j]
  BY <1>2, <1>3, <1>4, DistinctValues, Zenon DEF StoreInv
<1>6. /\ expired_keys_' = expired_keys_ + Cardinality(Expired(entries, now) \cap {k})
      /\ created' = IF k \in Live(entries, now) THEN created ELSE created + 1
      /\ removed' = removed
  BY Zenon DEF set, Overwrite
<1>7. expired_keys_ \in Nat
  BY Zenon DEF StoreInv
<1>8. CASE k \in Expired(entries, now)
  <2>1. Expired(entries, now) \cap {k} = {k} /\ Cardinality({k}) = 1
    BY Zenon, <1>8, FS_Singleton
  <2>2. entries[k] # Absent /\ k \notin Live(entries, now)
    BY <1>8, Zenon DEF Expired, Live, Present
  <2>3. created' = created + 1 /\ expired_keys_' = expired_keys_ + 1
    BY <1>6, <2>1, <2>2, Zenon
  <2> QED
    BY <1>1, <1>2, <1>5, <1>6, <2>2, <2>3, Zenon DEF Writes, Rewrites
<1>9. CASE k \notin Expired(entries, now)
  <2>1. Expired(entries, now) \cap {k} = {} /\ Cardinality({}) = 0
    BY <1>9, FS_EmptySet, Zenon
  <2>2. expired_keys_' = expired_keys_
    BY <1>6, <1>7, <2>1
  <2>3. k \in Live(entries, now) <=> entries[k] # Absent
    BY <1>2, <1>9, Zenon DEF Live, Present
  <2> QED
    BY <1>1, <1>2, <1>5, <1>6, <2>2, <2>3, Zenon DEF Writes, Rewrites
<1> QED
  BY <1>8, <1>9, Zenon

\* EXPIRE writes, meets an expired entry, or leaves the store alone.
LEMMA ExpireWrites ==
  ASSUME StoreInv, NEW p \in Threads, expire_at(p)
  PROVE  UnchangedStore \/ Erases \/ Writes(p)
<1> DEFINE k == Key(p)
           at == call[p].t + call[p].req.ttl
<1>1. /\ call[p].pc = "called" /\ call[p].req.op = "expire" /\ call[p].req \in Requests
      /\ call[p].t \in 0 .. now /\ now \in 0 .. MaxTime
  BY Zenon DEF expire_at, StoreInv, CallInv
<1>2. k \in Keys /\ call[p].req.ttl \in Ttls
  BY <1>1, KeyOfCall, RequestFacts, Zenon
<1>3. at \in 0 .. Never
  <2>1. call[p].t \in 0 .. MaxTime
    BY <1>1, NaturalConstants
  <2> QED
    BY <1>2, <2>1, DeadlineType, Zenon
<1>4. CASE UnchangedStore
  BY <1>4, Zenon
<1>5. CASE k \in Expired(entries, now) /\ erase_expired_locked({k})
  BY <1>5, Zenon DEF Erases
<1>6. CASE /\ k \in Live(entries, now) /\ entries' = Drop(entries, {k})
           /\ removed' = removed + 1 /\ UNCHANGED <<expired_keys_, created>>
  BY <1>1, <1>2, <1>6, TakeOut, Zenon
<1>7. CASE /\ k \in Live(entries, now) /\ entries' = [entries EXCEPT ![k].expires_at = at]
           /\ UNCHANGED <<expired_keys_, created, removed>>
  <2>1. entries[k] # Absent /\ entries[k] \in Entry
    BY <1>2, <1>7, Zenon DEF Live, Present, StoreInv
  <2>2. [entries[k] EXCEPT !.expires_at = at] \in Entry
    BY <1>3, <2>1, Zenon DEF Entry
  <2>3. entries' = [entries EXCEPT ![k] = [entries[k] EXCEPT !.expires_at = at]]
    BY <1>7, Zenon
  <2>4. /\ entries' \in [Keys -> Entry \cup {Absent}] /\ entries'[k] # Absent
        /\ \A j \in Keys \ {k} : entries'[j] = entries[j]
    BY <1>2, <2>2, <2>3, DistinctValues, Zenon DEF StoreInv
  <2> QED
    BY <1>1, <1>2, <1>7, <2>1, <2>4, Zenon DEF Writes, Rewrites
<1> QED
  BY <1>4, <1>5, <1>6, <1>7, Zenon DEF expire_at

\* A step of EXISTS or DEL on one key.
LEMMA WorkWrites ==
  ASSUME StoreInv, NEW p \in Threads, NEW k \in Keys, WorkOnKey(p, k)
  PROVE  UnchangedStore \/ Erases \/ Writes(p)
<1>1. /\ call[p].pc = "work" /\ call[p].t \in 0 .. now /\ now \in 0 .. MaxTime
      /\ entries \in [Keys -> Entry \cup {Absent}]
  BY Zenon DEF WorkOnKey, StoreInv, CallInv
<1>2. Expired(entries, call[p].t) \subseteq Expired(entries, now)
  BY <1>1, ExpiredLater, StoreAssumption
<1>3. CASE UnchangedStore
  BY <1>3, Zenon
<1>4. CASE k \in Expired(entries, call[p].t) /\ erase_expired_locked({k})
  BY <1>2, <1>4, Zenon DEF Erases
<1>5. CASE /\ k \in Live(entries, call[p].t) /\ call[p].req.op = "del"
           /\ entries' = Drop(entries, {k})
           /\ removed' = removed + 1 /\ UNCHANGED <<expired_keys_, created>>
  BY <1>1, <1>5, TakeOut, Zenon
<1> QED
  BY <1>3, <1>4, <1>5, Zenon DEF WorkOnKey

\* A step of p that may change one entry.
MayWrite(p) == set(p) \/ expire_at(p) \/ \E k \in Keys : WorkOnKey(p, k)

\* Every other step leaves the entries alone or erases expired ones.
LEMMA StoreCases ==
  ASSUME StoreInv, Next
  PROVE  UnchangedStore \/ Erases \/ \E p \in Threads : MayWrite(p)
<1>1. CASE Tick
  BY <1>1, Zenon DEF Tick
<1>2. ASSUME NEW p \in Threads, NEW r \in Requests, Begin(p, r)
      PROVE  UnchangedStore
  BY <1>2, Zenon DEF Begin, Start
<1>3. ASSUME NEW p \in Threads, Progress(p)
      PROVE  UnchangedStore \/ Erases \/ MayWrite(p)
  <2>a. /\ call[p].t \in 0 .. now /\ now \in 0 .. MaxTime
        /\ entries \in [Keys -> Entry \cup {Absent}]
    BY Zenon DEF StoreInv, CallInv
  <2>b. Expired(entries, call[p].t) \subseteq Expired(entries, now)
    BY <2>a, ExpiredLater, StoreAssumption
  <2>1. CASE ReadShared(p)
    BY <2>1, Zenon DEF ReadShared
  <2>2. CASE ReadUnique(p)
    BY <2>2, <2>b, Zenon DEF ReadUnique, Recheck, Erases
  <2>3. CASE set(p) \/ expire_at(p)
    BY <2>3, Zenon DEF MayWrite
  <2>5. CASE lock_mutexes_in_order(p)
    BY <2>5, Zenon DEF lock_mutexes_in_order, LockOne
  <2>6. CASE AllLocked(p)
    BY <2>6, Zenon DEF AllLocked, ReadClock
  <2>7. CASE \E k \in Keys : WorkOnKey(p, k)
    BY <2>7, Zenon DEF MayWrite
  <2>8. CASE keys(p) \/ export_snapshot_entries(p)
    BY <2>8, <2>b, Zenon DEF keys, export_snapshot_entries, Collect, VisitShard, Erases
  <2>9. CASE active_expire_cycle(p)
    BY <2>9, <2>b, Zenon DEF active_expire_cycle, VisitShard, Erases
  <2>10. CASE Return(p)
    BY <2>10, Zenon DEF Return
  <2> QED
    BY <1>3, <2>1, <2>2, <2>3, <2>5, <2>6, <2>7, <2>8, <2>9, <2>10, Zenon DEF Progress
<1> QED
  BY <1>1, <1>2, <1>3, Zenon DEF Next

\* Every step leaves the entries alone, erases expired ones, or is a write.
LEMMA StoreEffect ==
  ASSUME StoreInv, Next
  PROVE  UnchangedStore \/ Erases \/ \E p \in Threads : Writes(p)
BY StoreCases, SetWrites, ExpireWrites, WorkWrites, Zenon DEF MayWrite

\* The store is well formed in the beginning.
LEMMA StoreInit == Init => StoreInv
<1> SUFFICES ASSUME Init PROVE StoreInv
  BY Zenon
<1>1. ASSUME NEW v \in Values, NEW at \in {1, Never}, 1 <= Never PROVE NewEntry(v, at) \in Entry
  <2>1. v \in Nat
    BY StoreAssumption, Zenon
  <2>2. estimate_bytes(v) \in Nat /\ at \in 0 .. Never
    BY <1>1, <2>1, NaturalConstants DEF estimate_bytes
  <2> QED
    BY <2>2, Zenon DEF NewEntry, Entry
<1>2. entries \in [Keys -> Entry \cup {Absent}] /\ cut = entries
  <2>1. 1 <= Never
    BY StoreAssumption
  <2> QED
    BY <1>1, <2>1 DEF Init
<1>3. Cardinality(Present(entries)) \in Nat
  BY DistinctValues, FS_Subset, FS_CardinalityType, Zenon DEF Present
<1>4. call = [p \in Threads |-> Inactive] /\ \A p \in Threads : CallInv(call[p])
  <2>1. call = [p \in Threads |-> Inactive] /\ now = 0
    BY Zenon DEF Init
  <2>2. CallInv(Inactive)
    <3>1. /\ IsCall(Inactive) /\ Inactive.pc = "idle" /\ Inactive.req = NoRequest
          /\ Inactive.t = 0
      BY Zenon DEF IsCall, Inactive
    <3> QED
      BY <2>1, <3>1 DEF CallInv
  <2> QED
    BY <2>1, <2>2, Zenon
<1> QED
  BY <1>2, <1>3, <1>4, NaturalConstants DEF Init, StoreInv

\* A call that does not move stays well formed.
LEMMA CallStays ==
  ASSUME StoreInv, now' \in {now, now + 1}, config_' = config_,
         NEW p \in Threads, call'[p] = call[p]
  PROVE  CallInv(call[p])'
BY DEF StoreInv, CallInv, IsCall

\* The step that moves the call of one thread.
Moves(p) == call' = [call EXCEPT ![p] = call'[p]]

\* Every step moves the call of one thread and keeps it well formed.
LEMMA ProgressKeepsCall ==
  ASSUME StoreInv, NEW p \in Threads, config_' = config_, Progress(p)
  PROVE  Moves(p) /\ CallInv(call[p])' /\ now' = now
<1> USE DEF Moves, CallInv, IsCall
<1>a. /\ call = [q \in Threads |-> call[q]] /\ CallInv(call[p]) /\ now \in Nat
      /\ \A r \in Requests : r.keys \subseteq Keys
  BY RequestFacts DEF StoreInv
<1>1. CASE ReadShared(p)
  BY <1>1, <1>a DEF ReadShared, Finish, Reads, Scans
<1>2. CASE ReadUnique(p)
  BY <1>2, <1>a DEF ReadUnique, Recheck, Finish, Reads, Scans
<1>3. CASE set(p)
  BY <1>3, <1>a, Zenon DEF set, Overwrite, Finish, Scans
<1>4. CASE expire_at(p)
  BY <1>4, <1>a DEF expire_at, Finish, Scans
<1>5. CASE lock_mutexes_in_order(p)
  BY <1>5, <1>a, ZenonT(30) DEF lock_mutexes_in_order, LockOne, Locking, Scans
<1>6. CASE AllLocked(p)
  <2>1. /\ call[p].pc = "called" /\ call[p].req.op \in Locking /\ now' = now
        /\ call' = [call EXCEPT ![p].pc = "work", ![p].t = now, ![p].todo = call[p].req.keys,
                                ![p].res = 0]
    BY <1>6, Zenon DEF AllLocked, ReadClock
  <2>2. /\ Moves(p) /\ IsCall(call'[p]) /\ call'[p].req = call[p].req
        /\ call'[p].pc = "work" /\ call'[p].t = now /\ call'[p].todo = call[p].req.keys
    BY Zenon, <1>a, <2>1
  <2>3. call[p].req \in Requests /\ call[p].req.keys \subseteq Keys
    BY <1>a, <2>1, Zenon
  <2> HIDE DEF IsCall, Moves
  <2> QED
    BY <1>a, <2>1, <2>2, <2>3
<1>7. ASSUME NEW k \in Keys, WorkOnKey(p, k) PROVE Moves(p) /\ CallInv(call[p])' /\ now' = now
  BY <1>7, <1>a, ZenonT(30) DEF WorkOnKey, Locking, Scans
<1>8. ASSUME NEW gone, NEW result, call[p].pc = "called", call[p].req.op \in Scans,
             VisitShard(p, gone, result, call[p].todo \ {NextShard(p)})
      PROVE  Moves(p) /\ CallInv(call[p])' /\ now' = now
  <2> DEFINE rest == call[p].todo \ {NextShard(p)}
  <2>1. /\ call' = [call EXCEPT ![p].todo = rest, ![p].res = result,
                                ![p].pc = IF rest = {} THEN "done" ELSE "called"]
        /\ now' = now
    BY <1>8, Zenon DEF VisitShard
  <2> HIDE DEF rest
  <2>2. /\ Moves(p) /\ IsCall(call'[p]) /\ call'[p].req = call[p].req
        /\ call'[p].pc = (IF rest = {} THEN "done" ELSE "called")
        /\ call'[p].t = call[p].t /\ call'[p].todo = rest
    BY Zenon, <1>a, <2>1
  <2>3. rest \subseteq Shards
    BY <1>8, <1>a, Zenon DEF rest
  <2> QED
    BY <1>8, <1>a, <2>1, <2>2, <2>3, Zenon
<1>9. CASE keys(p) \/ export_snapshot_entries(p) \/ active_expire_cycle(p)
  BY <1>8, <1>9, Zenon DEF keys, export_snapshot_entries, active_expire_cycle, Collect, Scans
<1>10. CASE Return(p)
  <2>1. call' = [call EXCEPT ![p] = Inactive] /\ now' = now
    BY <1>10, Zenon DEF Return
  <2>2. Moves(p) /\ call'[p] = Inactive
    BY <1>a, <2>1, Zenon
  <2>3. IsCall(Inactive) /\ Inactive.pc = "idle" /\ Inactive.req = NoRequest /\ Inactive.t = 0
    BY Zenon DEF Inactive
  <2> HIDE DEF IsCall, Moves
  <2> QED
    BY <1>a, <2>1, <2>2, <2>3
<1> QED
  BY <1>1, <1>2, <1>3, <1>4, <1>5, <1>6, <1>7, <1>8, <1>9, <1>10, Zenon DEF Progress

\* The beginning of a call.
LEMMA BeginKeepsCall ==
  ASSUME StoreInv, NEW p \in Threads, NEW r \in Requests, config_' = config_, Begin(p, r)
  PROVE  Moves(p) /\ CallInv(call[p])' /\ now' = now
<1>1. Shards # {}
  BY StoreAssumption DEF Shards
<1>2. /\ call[p].pc = "idle" /\ r.op \in config_.commands /\ now' = now
      /\ \E todo, res :
           /\ r.op \in Scans => todo = Shards
           /\ call' = [call EXCEPT ![p] =
                [pc |-> "called", req |-> r, t |-> now, since |-> now, taken |-> {},
                 todo |-> todo, res |-> res]]
  BY Zenon DEF Begin, Start
<1>3. /\ Moves(p) /\ IsCall(call'[p]) /\ call'[p].req = r /\ call'[p].pc = "called"
      /\ call'[p].t = now /\ (r.op \in Scans => call'[p].todo = Shards)
  <2>1. PICK todo, res :
          /\ r.op \in Scans => todo = Shards
          /\ call' = [call EXCEPT ![p] =
               [pc |-> "called", req |-> r, t |-> now, since |-> now, taken |-> {},
                todo |-> todo, res |-> res]]
    BY <1>2, Zenon
  <2> DEFINE c == [pc |-> "called", req |-> r, t |-> now, since |-> now, taken |-> {},
                   todo |-> todo, res |-> res]
  <2>2. Moves(p) /\ call'[p] = c
    BY <2>1, Zenon DEF Moves, StoreInv
  <2>3. /\ IsCall(c) /\ c.req = r /\ c.pc = "called" /\ c.t = now /\ c.todo = todo
    BY Zenon DEF IsCall
  <2> HIDE DEF c
  <2> QED
    BY <2>1, <2>2, <2>3, Zenon
<1> QED
  BY <1>1, <1>2, <1>3 DEF StoreInv, CallInv

\* Every step keeps the store well formed.
LEMMA StoreNext == StoreInv /\ [Next]_vars => StoreInv'
<1> SUFFICES ASSUME StoreInv, [Next]_vars PROVE StoreInv'
  BY Zenon
<1>1. CASE UNCHANGED vars
  BY <1>1, Zenon DEF vars, StoreInv, CallInv
<1>2. CASE Next
  <2>1. config_' = config_ /\ cut' \in {cut, entries}
    BY <1>2, Zenon DEF Next, Track
  <2>2. /\ call' = [p \in Threads |-> call'[p]] /\ \A p \in Threads : CallInv(call[p])'
        /\ now' \in 0 .. MaxTime
    <3>1. CASE Tick
      <4>1. call' = call /\ now' = now + 1 /\ now < MaxTime
        BY <3>1, Zenon DEF Tick
      <4> QED
        BY <2>1, <4>1, CallStays, NaturalConstants DEF StoreInv
    <3>2. ASSUME NEW p \in Threads, Moves(p), CallInv(call[p])', now' = now
          PROVE  <2>2!:
      <4>1. \A q \in Threads \ {p} : call'[q] = call[q]
        BY <3>2, Zenon DEF Moves, StoreInv
      <4> QED
        BY <2>1, <3>2, <4>1, CallStays, Zenon DEF Moves, StoreInv
    <3> QED
      BY <1>2, <2>1, <3>1, <3>2, ProgressKeepsCall, BeginKeepsCall, Zenon DEF Next
  <2>3. /\ entries' \in [Keys -> Entry \cup {Absent}]
        /\ expired_keys_' \in Nat /\ created' \in Nat /\ removed' \in Nat
    <3>1. CASE UnchangedStore
      BY <3>1, Zenon DEF UnchangedStore, StoreInv
    <3>2. CASE Erases
      <4>1. PICK ks \in SUBSET Expired(entries, now) : erase_expired_locked(ks)
        BY <3>2, Zenon DEF Erases
      <4>2. Cardinality(ks) \in Nat
        BY DistinctValues, FS_Subset, FS_CardinalityType, Zenon DEF Expired, Present
      <4> QED
        BY <4>1, <4>2, DropType DEF erase_expired_locked, StoreInv
    <3>3. ASSUME NEW p \in Threads, Writes(p) PROVE <2>3!:
      BY <3>3 DEF Writes, Rewrites, StoreInv
    <3> QED
      BY <1>2, <3>1, <3>2, <3>3, StoreEffect, Zenon
  <2> QED
    BY <2>1, <2>2, <2>3, Zenon DEF StoreInv
<1> QED
  BY <1>1, <1>2, Zenon

-----------------------------------------------------------------------------
(* Expired entries are counted once.                                       *)

\* Every step keeps the books of created, deleted and expired entries.
LEMMA CountNext ==
  StoreInv /\ EachExpiryCountedOnce /\ [Next]_vars => EachExpiryCountedOnce'
<1> SUFFICES ASSUME StoreInv, EachExpiryCountedOnce, [Next]_vars PROVE EachExpiryCountedOnce'
  BY Zenon
<1> DEFINE here == Present(entries)
<1>a. /\ IsFiniteSet(here) /\ Cardinality(here) \in Nat
      /\ expired_keys_ \in Nat /\ created \in Nat /\ removed \in Nat
  BY DistinctValues, FS_Subset, FS_CardinalityType, Zenon DEF Present, StoreInv
<1>1. CASE UnchangedStore
  BY <1>1, Zenon DEF UnchangedStore, EachExpiryCountedOnce, Present
<1>2. CASE Erases
  <2>1. PICK ks \in SUBSET Expired(entries, now) : erase_expired_locked(ks)
    BY <1>2, Zenon DEF Erases
  <2>2. ks \subseteq here /\ IsFiniteSet(ks) /\ Cardinality(ks) \in Nat
    BY <1>a, FS_Subset, FS_CardinalityType, Zenon DEF Expired
  <2>3. Present(entries') = here \ ks
    BY <2>1, Zenon DEF erase_expired_locked, Drop, Present
  <2>4. here \cap ks = ks
    BY <2>2, Zenon
  <2>5. Cardinality(here \ ks) = Cardinality(here) - Cardinality(ks)
    BY Zenon, <1>a, <2>4, FS_Difference
  <2> QED
    BY <1>a, <2>1, <2>2, <2>3, <2>5 DEF erase_expired_locked, EachExpiryCountedOnce
<1>3. ASSUME NEW p \in Threads, Writes(p) PROVE EachExpiryCountedOnce'
  <2>1. PICK k \in Keys : Rewrites(k)
    BY <1>3, Zenon DEF Writes
  <2>2. CASE entries[k] = Absent /\ entries'[k] # Absent
    <3>1. Present(entries') = here \cup {k} /\ k \notin here
      BY <2>1, <2>2 DEF Present, Rewrites
    <3>2. Cardinality(Present(entries')) = Cardinality(here) + 1
      BY <1>a, <3>1, FS_AddElement, Zenon
    <3> QED
      BY <1>a, <2>1, <2>2, <3>2 DEF EachExpiryCountedOnce, Rewrites
  <2>3. CASE entries[k] # Absent /\ entries'[k] = Absent
    <3>1. Present(entries') = here \ {k} /\ k \in here
      BY <2>1, <2>3, Zenon DEF Present, Rewrites
    <3>2. Cardinality(Present(entries')) = Cardinality(here) - 1
      BY Zenon, <1>a, <3>1, FS_RemoveElement
    <3> QED
      BY <1>a, <2>1, <2>3, <3>2 DEF EachExpiryCountedOnce, Rewrites
  <2>4. CASE entries[k] # Absent /\ entries'[k] # Absent
    <3>1. Present(entries') = here
      BY <2>1, <2>4, Zenon DEF Present, Rewrites
    <3> QED
      BY <1>a, <2>1, <2>4, <3>1 DEF EachExpiryCountedOnce, Rewrites
  <2> QED
    BY <2>1, <2>2, <2>3, <2>4, Zenon DEF Rewrites
<1>4. CASE UNCHANGED vars
  BY <1>1, <1>4, Zenon DEF vars, UnchangedStore
<1> QED
  BY <1>1, <1>2, <1>3, <1>4, StoreEffect, Zenon

\* However many threads meet an expired entry, under whichever locks, it is
\* counted by one of them.
THEOREM ExpiriesAreCountedOnce == Spec => []EachExpiryCountedOnce
<1>1. Init => EachExpiryCountedOnce
  <2> SUFFICES ASSUME Init PROVE EachExpiryCountedOnce
    OBVIOUS
  <2>1. Cardinality(Present(entries)) \in Nat
    BY DistinctValues, FS_Subset, FS_CardinalityType DEF Present
  <2> QED
    BY <2>1 DEF Init, EachExpiryCountedOnce
<1> QED
  BY <1>1, StoreInit, StoreNext, CountNext, PTL DEF Spec

=============================================================================
