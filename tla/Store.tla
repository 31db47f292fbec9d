------------------------------- MODULE Store -------------------------------
(***************************************************************************)
(* store::Store: entries in shards, each behind a shared_mutex, used by    *)
(* concurrent worker threads and by the active expiry of the I/O thread.   *)
(*                                                                         *)
(* What a command does under the lock of one shard is one step.  Steps of  *)
(* other threads and of the clock come between the clock reading of a read *)
(* and its shared lock, between its shared and its unique lock, between    *)
(* the locks and the keys of a multi-key command and between the shards of *)
(* a scan.                                                                 *)
(*                                                                         *)
(* With persistence, mutations and snapshot exports come from durable_set, *)
(* durable_del, durable_expire and snapshot_now, which hold mutex_ of the  *)
(* PersistenceEngine from the clock reading to the return.                 *)
(*                                                                         *)
(* Abstractions.  A value is known by its length.  Steady and wall clock   *)
(* advance together, so one deadline stands for expires_at and             *)
(* expires_at_wall; Never is nullopt.  A multi-key command names each key  *)
(* once; del and del_many of one key are the same.  The initial entries    *)
(* are what recovery imported.                                             *)
(***************************************************************************)
EXTENDS Integers, FiniteSets, FiniteSetsExt

CONSTANTS
  Threads, Keys,
  Values,              \* lengths
  Ttls, Sec,           \* in clock units; 0 stands for every ttl <= 0
  shard_count, shard_index,
  samples_per_shard,
  EntrySize,           \* sizeof(Entry) and the key
  Configs,             \* is there a PersistenceEngine, and which commands are called?
  Absent, Nobody, NoRequest, NoResult, Never,
  MaxTime, MaxCalls    \* bounds

Shards == 1 .. shard_count

ASSUME StoreAssumption ==
  /\ shard_count \in Nat \ {0} /\ shard_index \in [Keys -> Shards]
  /\ Values \subseteq Nat /\ Ttls \subseteq Nat /\ Sec \in Nat \ {0}
  /\ {samples_per_shard, EntrySize, Never, MaxTime, MaxCalls} \subseteq Nat
  /\ \A d \in Ttls \cup {0} : MaxTime + d < Never
  /\ Nobody \notin Threads
  /\ \A c \in Configs : c.persistence \in BOOLEAN /\ ("export" \in c.commands => c.persistence)

Reads == {"get", "contains", "ttl", "deadline"}  \* contains: exists; deadline: expiry_wall_time
Locking == {"exists", "del"}                     \* exists_many, del_many
Scans == {"keys", "export", "cycle"}

Requests ==
  [op : Reads, keys : {{k} : k \in Keys}]
  \cup [op : Locking, keys : SUBSET Keys \ {{}}]
  \cup [op : {"set"}, keys : {{k} : k \in Keys}, val : Values]
  \cup [op : {"expire"}, keys : {{k} : k \in Keys}, ttl : Ttls]
  \cup [op : Scans, keys : {{}}]

VARIABLES
  config_,             \* never changes
  now,
  entries,             \* all shards together: key -> Entry
  lock,                \* who holds a shard's mutex from one step to the next
  call,                \* per thread: the command it executes
  approximate_memory_, expired_keys_,
  created, removed,    \* ghost: entries that came to be, and that were deleted
  steady, seen,        \* ghost, per call: keys alive all along, and at some time
  cut,                 \* ghost: the entries when the export began
  calls                \* bounded counter

vars == <<config_, now, entries, lock, call, approximate_memory_, expired_keys_,
          created, removed, steady, seen, cut, calls>>

estimate_bytes(v) == EntrySize + v
is_expired(e, t) == e.expires_at <= t

Entry == [val : Values, expires_at : 0 .. Never, stored_bytes : Nat]
NewEntry(v, at) == [val |-> v, expires_at |-> at, stored_bytes |-> estimate_bytes(v)]

ASSUME DistinctValues ==
  /\ Absent \notin Entry \cup [val : Values, exp : 0 .. Never]
  /\ NoRequest \notin Requests /\ IsFiniteSet(Keys)

Present(m) == {k \in Keys : m[k] # Absent}
Expired(m, t) == {k \in Present(m) : is_expired(m[k], t)}
Live(m, t) == Present(m) \ Expired(m, t)
Drop(m, ks) == [k \in Keys |-> IF k \in ks THEN Absent ELSE m[k]]
\* The stored_bytes of the keys ks, added up by counting the bytes.
BytesOf(m, ks) == Cardinality(UNION {{k} \X (1 .. m[k].stored_bytes) : k \in ks})

\* todo: shards to lock or to visit, then keys to work on.  Two fields are
\* ghosts: since, and what a del_many in progress has taken out so far.
Inactive ==
  [pc |-> "idle", req |-> NoRequest, t |-> 0, todo |-> {}, res |-> NoResult,
   since |-> 0, taken |-> {}]

Init ==
  /\ config_ \in Configs /\ now = 0
  /\ entries \in [Keys -> {NewEntry(v, at) : v \in Values, at \in {1, Never}} \cup {Absent}]
  /\ lock = [s \in Shards |-> Nobody]
  /\ call = [p \in Threads |-> Inactive]
  /\ approximate_memory_ = BytesOf(entries, Present(entries))
  /\ expired_keys_ = 0 /\ created = Cardinality(Present(entries)) /\ removed = 0
  /\ steady = [p \in Threads |-> {}] /\ seen = [p \in Threads |-> {}]
  /\ cut = entries
  /\ calls = 0

-----------------------------------------------------------------------------
Key(p) == CHOOSE k \in call[p].req.keys : TRUE
shard_for(p) == shard_index[Key(p)]
Unlocked(s) == lock[s] = Nobody
InShard(s) == {k \in Keys : shard_index[k] = s}

Finish(p, result) == call' = [call EXCEPT ![p].pc = "done", ![p].res = result]

\* erase_expired_locked on the keys of ks, all expired.
erase_expired_locked(ks) ==
  /\ entries' = Drop(entries, ks)
  /\ approximate_memory_' = approximate_memory_ - BytesOf(entries, ks)
  /\ expired_keys_' = expired_keys_ + Cardinality(ks)
  /\ UNCHANGED <<created, removed>>

UnchangedStore ==
  UNCHANGED <<entries, approximate_memory_, expired_keys_, created, removed>>

\* The commands that hold mutex_ of the engine while they run.
Durable(r) == config_.persistence /\ r.op \in {"set", "del", "expire", "export"}
EngineFree == \A q \in Threads : call[q].pc # "idle" => ~Durable(call[q].req)

\* A thread begins a command; reads, EXPIRE and scans read the clock here.
Start(p, r) ==
  /\ call[p].pc = "idle" /\ calls < MaxCalls /\ r.op \in config_.commands
  /\ call' = [call EXCEPT ![p] =
       [pc |-> "called", req |-> r, t |-> now, since |-> now, taken |-> {},
        todo |-> IF r.op \in Scans THEN Shards ELSE {shard_index[k] : k \in r.keys},
        res |-> IF r.op = "keys" THEN {} ELSE IF r.op = "export" THEN Drop(entries, Keys)
                ELSE NoResult]]
  /\ calls' = calls + 1
  /\ UNCHANGED <<now, lock>> /\ UnchangedStore

\* Fault: snapshot_now does not take the mutex.
BeginUnguarded(p, r) == (Durable(r) /\ r.op # "export" => EngineFree) /\ Start(p, r)

Begin(p, r) == (Durable(r) => EngineFree) /\ Start(p, r)

\* What a read answers for an entry that is absent or not expired at t.
Answer(r, e, t) ==
  IF r.op = "contains" THEN e # Absent
  ELSE IF r.op = "ttl" THEN IF e = Absent THEN -2 ELSE IF e.expires_at = Never THEN -1
                            ELSE (e.expires_at - t) \div Sec
  ELSE IF e = Absent THEN Absent
  ELSE IF r.op = "get" THEN e.val ELSE e.expires_at

\* The reads under the shared lock.
ReadShared(p) ==
  /\ call[p].pc = "called" /\ call[p].req.op \in Reads /\ Unlocked(shard_for(p))
  /\ IF Key(p) \in Expired(entries, call[p].t)
       THEN call' = [call EXCEPT ![p].pc = "recheck"]
       ELSE Finish(p, Answer(call[p].req, entries[Key(p)], call[p].t))
  /\ UNCHANGED <<now, lock, calls>> /\ UnchangedStore

\* The reads again, under the unique lock; doomed are the keys they erase.
Recheck(p, doomed) ==
  /\ call[p].pc = "recheck" /\ Unlocked(shard_for(p))
  /\ \/ /\ Key(p) \in doomed
        /\ Finish(p, Answer(call[p].req, Absent, call[p].t))
        /\ erase_expired_locked({Key(p)})
     \/ /\ Key(p) \notin doomed
        /\ Finish(p, Answer(call[p].req, entries[Key(p)], call[p].t))
        /\ UnchangedStore
  /\ UNCHANGED <<now, lock, calls>>

\* Fault: what was expired under the shared lock is erased unseen.
ReadUniqueBlind(p) == Recheck(p, Present(entries))

ReadUnique(p) == Recheck(p, Expired(entries, call[p].t))

Overwrite(p, freed, added, counted) ==
  LET k == Key(p) IN
  /\ call[p].pc = "called" /\ call[p].req.op = "set" /\ Unlocked(shard_for(p))
  /\ entries' = [entries EXCEPT ![k] = NewEntry(call[p].req.val, Never)]
  /\ approximate_memory_' = approximate_memory_ - BytesOf(entries, freed \cap {k}) + added
  /\ expired_keys_' = expired_keys_ + Cardinality(counted \cap {k})
  /\ created' = IF k \in Live(entries, now) THEN created ELSE created + 1
  /\ Finish(p, TRUE)
  /\ UNCHANGED <<now, lock, removed, calls>>

\* Fault: the size of the entry that is replaced stays counted.
SetKeepingBytes(p) ==
  Overwrite(p, {}, estimate_bytes(call[p].req.val), Expired(entries, now))

\* Fault: the new entry's size is never added.
SetAddingNothing(p) == Overwrite(p, Present(entries), 0, Expired(entries, now))

\* Fault: an expired entry that is replaced is not counted.
SetUncounted(p) == Overwrite(p, Present(entries), estimate_bytes(call[p].req.val), {})

set(p) ==
  Overwrite(p, Present(entries), estimate_bytes(call[p].req.val), Expired(entries, now))

\* expire, then expire_at: the deadline counts from the clock read before the lock.
\* The readings under the lock are one: the clock does not tick between them.
expire_at(p) ==
  LET k == Key(p)
      at == call[p].t + call[p].req.ttl
  IN  /\ call[p].pc = "called" /\ call[p].req.op = "expire" /\ Unlocked(shard_for(p))
      /\ \/ /\ entries[k] = Absent
            /\ Finish(p, FALSE) /\ UnchangedStore
         \/ /\ k \in Expired(entries, now)
            /\ Finish(p, FALSE) /\ erase_expired_locked({k})
         \/ /\ k \in Live(entries, now) /\ at <= now
            /\ Finish(p, TRUE)
            /\ entries' = Drop(entries, {k})
            /\ approximate_memory_' = approximate_memory_ - entries[k].stored_bytes
            /\ removed' = removed + 1
            /\ UNCHANGED <<expired_keys_, created>>
         \/ /\ k \in Live(entries, now) /\ at > now
            /\ Finish(p, TRUE)
            /\ entries' = [entries EXCEPT ![k].expires_at = at]
            /\ UNCHANGED <<approximate_memory_, expired_keys_, created, removed>>
      /\ UNCHANGED <<now, lock, calls>>

-----------------------------------------------------------------------------
(* exists_many and del_many: all the mutexes, then the work, then unlock.  *)

LockOne(p, candidates) ==
  /\ call[p].pc = "called" /\ call[p].req.op \in Locking
  /\ \E s \in candidates :
       /\ Unlocked(s)
       /\ lock' = [lock EXCEPT ![s] = p]
       /\ call' = [call EXCEPT ![p].todo = @ \ {s}]
  /\ UNCHANGED <<now, calls>> /\ UnchangedStore

\* Fault: the mutexes are locked in the order of the arguments.
LockUnsorted(p) == LockOne(p, call[p].todo)

lock_mutexes_in_order(p) ==
  LockOne(p, {s \in call[p].todo : \A u \in call[p].todo : s <= u})

ReadClock(p) ==
  /\ call[p].pc = "called" /\ call[p].req.op \in Locking
  /\ call' = [call EXCEPT ![p].pc = "work", ![p].t = now, ![p].todo = call[p].req.keys,
                          ![p].res = 0]
  /\ UNCHANGED <<now, lock, calls>> /\ UnchangedStore

AllLocked(p) == call[p].todo = {} /\ ReadClock(p)

\* One key of the loop; the locks are released after the last one.
WorkOnKey(p, k) ==
  LET hit == k \in Live(entries, call[p].t)
      last == call[p].todo = {k}
  IN  /\ call[p].pc = "work" /\ k \in call[p].todo
      /\ \/ /\ entries[k] = Absent \/ (hit /\ call[p].req.op = "exists")
            /\ UnchangedStore
         \/ /\ k \in Expired(entries, call[p].t)
            /\ erase_expired_locked({k})
         \/ /\ hit /\ call[p].req.op = "del"
            /\ entries' = Drop(entries, {k})
            /\ approximate_memory_' = approximate_memory_ - entries[k].stored_bytes
            /\ removed' = removed + 1
            /\ UNCHANGED <<expired_keys_, created>>
      /\ call' = [call EXCEPT
           ![p].todo = @ \ {k}, ![p].pc = IF last THEN "done" ELSE "work",
           ![p].res = IF hit THEN @ + 1 ELSE @,
           ![p].taken = IF last THEN {}
                        ELSE IF hit /\ call[p].req.op = "del" THEN @ \cup {<<k, entries[k]>>}
                        ELSE @]
      /\ lock' = IF last THEN [s \in Shards |-> IF lock[s] = p THEN Nobody ELSE lock[s]]
                 ELSE lock
      /\ UNCHANGED <<now, calls>>

-----------------------------------------------------------------------------
(* Scans, one shard after the other.                                       *)

NextShard(p) == Min(call[p].todo)

VisitShard(p, gone, result, rest) ==
  /\ Unlocked(NextShard(p))
  /\ erase_expired_locked(gone)
  /\ call' = [call EXCEPT ![p].todo = rest, ![p].res = result,
                          ![p].pc = IF rest = {} THEN "done" ELSE "called"]
  /\ UNCHANGED <<now, lock, calls>>

\* One shard of keys or of export_snapshot_entries.
Collect(p, rest) ==
  LET here == Present(entries) \cap InShard(NextShard(p))
      gone == Expired(entries, call[p].t) \cap here
      found == here \ gone
  IN  VisitShard(p, gone,
                 IF call[p].req.op = "keys" THEN call[p].res \cup found
                 ELSE [k \in Keys |-> IF k \in found THEN entries[k] ELSE call[p].res[k]],
                 rest)

\* Fault: the last shard is left out.
KeysSkippingLast(p) ==
  /\ call[p].pc = "called" /\ call[p].req.op = "keys"
  /\ Collect(p, call[p].todo \ {NextShard(p), shard_count})

keys(p) ==
  /\ call[p].pc = "called" /\ call[p].req.op = "keys"
  /\ Collect(p, call[p].todo \ {NextShard(p)})

export_snapshot_entries(p) ==
  /\ call[p].pc = "called" /\ call[p].req.op = "export"
  /\ Collect(p, call[p].todo \ {NextShard(p)})

\* Random samples: any expired entries, at most samples_per_shard of them.
active_expire_cycle(p) ==
  /\ call[p].pc = "called" /\ call[p].req.op = "cycle"
  /\ \E gone \in SUBSET (Expired(entries, call[p].t) \cap InShard(NextShard(p))) :
       /\ Cardinality(gone) <= samples_per_shard
       /\ VisitShard(p, gone, NoResult, call[p].todo \ {NextShard(p)})

Return(p) ==
  /\ call[p].pc = "done"
  /\ call' = [call EXCEPT ![p] = Inactive]
  /\ UNCHANGED <<now, lock, calls>> /\ UnchangedStore

Tick ==
  /\ now < MaxTime /\ now' = now + 1
  /\ UNCHANGED <<lock, call, calls>> /\ UnchangedStore

\* The ghosts of the calls in progress.
Track ==
  /\ UNCHANGED config_
  /\ steady' = [p \in Threads |->
       IF call'[p].req = NoRequest THEN {}
       ELSE IF call[p].pc = "idle" THEN Live(entries', now')
       ELSE steady[p] \cap Live(entries', now')]
  /\ seen' = [p \in Threads |->
       IF call'[p].req = NoRequest THEN {} ELSE seen[p] \cup Present(entries')]
  /\ cut' = IF \E p \in Threads : call[p].pc # "idle" /\ call[p].req.op = "export"
            THEN cut ELSE entries

Progress(p) ==
  \/ ReadShared(p) \/ ReadUnique(p) \/ set(p) \/ expire_at(p)
  \/ lock_mutexes_in_order(p) \/ AllLocked(p) \/ (\E k \in Keys : WorkOnKey(p, k))
  \/ keys(p) \/ export_snapshot_entries(p) \/ active_expire_cycle(p) \/ Return(p)

Next ==
  /\ \/ \E p \in Threads : (\E r \in Requests : Begin(p, r)) \/ Progress(p)
     \/ Tick
  /\ Track

Spec == Init /\ [][Next]_vars

\* A thread that can take a step takes one; nobody has to call.
FairSpec == Spec /\ \A p \in Threads : WF_vars(Progress(p) /\ Track)

-----------------------------------------------------------------------------
TypeOK ==
  /\ now \in 0 .. MaxTime
  /\ entries \in [Keys -> Entry \cup {Absent}]
  /\ lock \in [Shards -> Threads \cup {Nobody}]
  /\ \A p \in Threads :
       /\ call[p].pc \in {"idle", "called", "recheck", "work", "done"}
       /\ call[p].req \in Requests \cup {NoRequest}
       /\ call[p].t \in 0 .. now /\ call[p].todo \subseteq Shards \cup Keys
  /\ {approximate_memory_, expired_keys_, created, removed, calls} \subseteq Nat

\* used_memory: the atomic counter is the size of what is stored, whatever the
\* interleaving, so no subtraction makes the unsigned counter wrap around.
MemoryIsAccounted == approximate_memory_ = BytesOf(entries, Present(entries))

\* expired_keys: each entry that came to be is present, was deleted, or is
\* counted as expired, exactly once, however many threads meet it expired.
EachExpiryCountedOnce ==
  created = Cardinality(Present(entries)) + removed + expired_keys_

\* KEYS * reports every key that was there all along the scan, and none that
\* was not there at some time during it.
ScanIsSound ==
  \A p \in Threads :
    call[p].pc = "done" /\ call[p].req.op = "keys" =>
      steady[p] \subseteq call[p].res /\ call[p].res \subseteq seen[p]

\* A snapshot is one state of the store, not a mixture: although it is exported
\* shard by shard among running reads and expiry, it holds exactly the entries
\* at its beginning, up to entries that are due when it ends.
ExportIsACut ==
  \A p \in Threads :
    call[p].pc = "done" /\ call[p].req.op = "export" =>
      \A k \in Keys : call[p].res[k] # cut[k] =>
        call[p].res[k] = Absent /\ is_expired(cut[k], now)

\* A del_many in progress takes effect when it ends: until then its keys are
\* still in the abstract map.
AbstractEntry(k) ==
  LET taken == UNION {call[p].taken : p \in Threads}
      e == IF \E x \in taken : x[1] = k THEN (CHOOSE x \in taken : x[1] = k)[2] ELSE entries[k]
  IN  IF e = Absent THEN Absent ELSE [val |-> e.val, exp |-> e.expires_at]

PendingOf(c) ==
  IF c.pc = "idle" \/ c.req.op \in Scans THEN [state |-> "idle"]
  ELSE IF c.pc = "done" THEN [state |-> "done", res |-> c.res]
  ELSE [state |-> "called", req |-> c.req, since |-> c.since]

Map == [k \in Keys |-> AbstractEntry(k)]
Pending == [p \in Threads |-> PendingOf(call[p])]
Abstract == INSTANCE AbstractStore WITH map <- Map, pending <- Pending

\* Every single- and multi-key command takes effect atomically between its call
\* and its return, at a clock reading from in between, and nothing but a due
\* entry ever disappears by itself.
Linearizable == Abstract!AbsSpec

\* The mutex that the next step of p waits for, if it needs one.
Awaited(p) ==
  IF call[p].pc = "called" /\ call[p].req.op \in Locking \cup Scans
  THEN {s \in call[p].todo : \A u \in call[p].todo : s <= u}
  ELSE IF call[p].pc \in {"called", "recheck"} THEN {shard_for(p)} ELSE {}

\* Ascending order in lock_mutexes_in_order: however many commands hold mutexes
\* and wait for others, one of those in progress finds its next mutex free.
NoCyclicWait ==
  \/ \A p \in Threads : call[p].pc = "idle"
  \/ \E p \in Threads : call[p].pc # "idle" /\ \A s \in Awaited(p) : Unlocked(s)

\* The lock order excludes deadlock: every command called returns.
EveryCallReturns == \A p \in Threads : call[p].pc = "called" ~> call[p].pc = "idle"

=============================================================================
