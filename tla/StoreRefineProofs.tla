------------------------- MODULE StoreRefineProofs --------------------------
(***************************************************************************)
(* Proof that Store implements AbstractStore, for any number of threads,   *)
(* shards and keys: first the invariant about the locks and what a DEL in  *)
(* progress has taken out, and what changes of the calls and the entries   *)
(* mean for the abstract map; then, step by step, that a command takes     *)
(* effect on that map in the step in which it decides its answer, that an  *)
(* entry erased by another command's clock vanishes, and that every other  *)
(* step is invisible.                                                      *)
(***************************************************************************)
EXTENDS StoreProofs

\* An entry as AbstractStore has it.
Lift(e) == IF e = Absent THEN Absent ELSE [val |-> e.val, exp |-> e.expires_at]

\* The abstract entry of k, given the calls c and the entries m.
ValueOf(c, m, k) ==
  LET taken == UNION {c[p].taken : p \in Threads}
      e == IF \E x \in taken : x[1] = k THEN (CHOOSE x \in taken : x[1] = k)[2] ELSE m[k]
  IN  IF e = Absent THEN Absent ELSE [val |-> e.val, exp |-> e.expires_at]

\* The keys a multi-key command is done with.
Processed(p) == call[p].req.keys \ call[p].todo

\* The locks p holds are those of its multi-key command.
LocksOf(p) ==
  /\ call[p].pc = "called" /\ call[p].req.op \in Locking =>
       /\ call[p].todo \subseteq Shards
       /\ \A k \in call[p].req.keys : shard_index[k] \in call[p].todo \/ lock[shard_index[k]] = p
  /\ call[p].pc = "work" => /\ call[p].todo \subseteq call[p].req.keys
                            /\ \A k \in call[p].req.keys : lock[shard_index[k]] = p
  /\ call[p].pc \in {"idle", "recheck", "done"} \/ call[p].req.op \notin Locking =>
       \A s \in Shards : lock[s] # p
  /\ call[p].since \in 0 .. call[p].t

\* What a DEL in progress has taken out was live, is gone, and stays away.
TakenOf(p) ==
  /\ call[p].taken # {} => call[p].pc = "work" /\ call[p].req.op = "del"
  /\ \A x \in call[p].taken :
       /\ x = <<x[1], x[2]>> /\ x[1] \in Processed(p)
       /\ x[2] \in Entry /\ x[2].expires_at > call[p].t
  /\ \A x, y \in call[p].taken : x[1] = y[1] => x = y
  /\ call[p].pc = "work" /\ call[p].req.op = "del" =>
       \A k \in Processed(p) : entries[k] = Absent

\* The keys a multi-key command has counted.
Counted(p) ==
  IF call[p].req.op = "del" THEN {x[1] : x \in call[p].taken}
  ELSE {k \in Processed(p) : k \in Live(entries, call[p].t)}

\* The result so far is their number.
CountOf(p) == call[p].pc = "work" => call[p].res = Cardinality(Counted(p))

\* The invariant of the locks and of the multi-key commands in progress.
LinearInv ==
  /\ lock \in [Shards -> Threads \cup {Nobody}]
  /\ \A p \in Threads : LocksOf(p) /\ TakenOf(p) /\ CountOf(p)

-----------------------------------------------------------------------------
(* The locks protect what a multi-key command has counted and taken out.   *)

\* A step of p leaves alone the locks of others and what they protect.
Respects(p) ==
  /\ lock' \in [Shards -> Threads \cup {Nobody}]
  /\ \A s \in Shards, q \in Threads \ {p} : lock'[s] = q <=> lock[s] = q
  /\ \A k \in Keys : entries'[k] # entries[k] => lock[shard_index[k]] \in {Nobody, p}

\* The shard of a key is a shard.
LEMMA ShardOfKey == \A k \in Keys : shard_index[k] \in Shards
BY StoreAssumption, Zenon

\* A step that changes only entries of one unlocked shard and no lock.
LEMMA RespectsUnlocked ==
  ASSUME StoreInv, LinearInv, NEW p \in Threads, lock' = lock,
         \A k \in Keys : entries'[k] # entries[k] => lock[shard_index[k]] = Nobody
  PROVE  Respects(p)
BY Zenon DEF Respects, LinearInv

\* The key of a command that works under the lock of its shard.
LEMMA OnlyKeyChanges ==
  ASSUME StoreInv, NEW k \in Keys, NEW ks, ks \subseteq {k}, erase_expired_locked(ks)
  PROVE  \A j \in Keys : entries'[j] # entries[j] => j = k
BY Zenon DEF erase_expired_locked, Drop, StoreInv

\* Every step of a thread respects the locks of the others.
LEMMA StepRespects ==
  ASSUME StoreInv, LinearInv, NEW p \in Threads, Progress(p)
  PROVE  Respects(p)
<1>a. CASE lock' = lock /\ UnchangedStore
  BY <1>a, RespectsUnlocked, Zenon DEF UnchangedStore
<1>1. CASE ReadShared(p) \/ AllLocked(p) \/ Return(p)
  BY <1>a, <1>1, Zenon DEF ReadShared, AllLocked, ReadClock, Return
<1>2. CASE ReadUnique(p)
  <2>1. /\ lock' = lock /\ lock[shard_index[Key(p)]] = Nobody /\ call[p].pc = "recheck"
        /\ UnchangedStore \/ erase_expired_locked({Key(p)})
    BY <1>2, Zenon DEF ReadUnique, Recheck, Unlocked, shard_for
  <2>2. Key(p) \in Keys
    BY <2>1, KeyOfCall, Zenon DEF StoreInv, CallInv
  <2>3. CASE erase_expired_locked({Key(p)})
    BY <2>1, <2>2, <2>3, OnlyKeyChanges, RespectsUnlocked, Zenon
  <2> QED
    BY <1>a, <2>1, <2>3, Zenon
<1>3. CASE set(p)
  <2>1. /\ lock' = lock /\ lock[shard_index[Key(p)]] = Nobody
        /\ \E e : entries' = [entries EXCEPT ![Key(p)] = e]
    BY <1>3, Zenon DEF set, Overwrite, Unlocked, shard_for
  <2>2. \A k \in Keys : entries'[k] # entries[k] => k = Key(p)
    BY <2>1, Zenon DEF StoreInv
  <2> QED
    BY <2>1, <2>2, RespectsUnlocked, Zenon
<1>4. CASE expire_at(p)
  <2>1. /\ lock' = lock /\ lock[shard_index[Key(p)]] = Nobody
        /\ \/ UnchangedStore \/ entries' = Drop(entries, {Key(p)})
           \/ \E at : entries' = [entries EXCEPT ![Key(p)].expires_at = at]
    BY <1>4, Zenon DEF expire_at, Unlocked, shard_for, erase_expired_locked
  <2>2. \A k \in Keys : entries'[k] # entries[k] => k = Key(p)
    BY <2>1, Zenon DEF StoreInv, UnchangedStore, Drop
  <2> QED
    BY <2>1, <2>2, RespectsUnlocked, Zenon
<1>5. CASE lock_mutexes_in_order(p)
  <2>1. PICK s \in call[p].todo : lock[s] = Nobody /\ lock' = [lock EXCEPT ![s] = p]
    BY <1>5, Zenon DEF lock_mutexes_in_order, LockOne, Unlocked
  <2>2. entries' = entries
    BY <1>5, Zenon DEF lock_mutexes_in_order, LockOne, UnchangedStore
  <2>3. Nobody \notin Threads
    BY StoreAssumption, Zenon
  <2> QED
    BY <2>1, <2>2, <2>3, Zenon DEF Respects, LinearInv
<1>6. ASSUME NEW k \in Keys, WorkOnKey(p, k) PROVE Respects(p)
  <2>1. /\ call[p].pc = "work" /\ k \in call[p].todo
        /\ lock' = lock \/ lock' = [s \in Shards |-> IF lock[s] = p THEN Nobody ELSE lock[s]]
        /\ UnchangedStore \/ entries' = Drop(entries, {k})
    BY <1>6, Zenon DEF WorkOnKey, erase_expired_locked
  <2>2. lock[shard_index[k]] = p
    BY <2>1, Zenon DEF LinearInv, LocksOf
  <2>3. \A j \in Keys : entries'[j] # entries[j] => j = k
    BY <2>1, Zenon DEF StoreInv, UnchangedStore, Drop
  <2>4. Nobody \notin Threads
    BY StoreAssumption, Zenon
  <2> QED
    BY <2>1, <2>2, <2>3, <2>4 DEF Respects, LinearInv
<1>7. ASSUME NEW gone, NEW result, NEW rest, gone \subseteq InShard(NextShard(p)),
             VisitShard(p, gone, result, rest)
      PROVE  Respects(p)
  <2>1. lock' = lock /\ lock[NextShard(p)] = Nobody /\ entries' = Drop(entries, gone)
    BY <1>7, Zenon DEF VisitShard, Unlocked, erase_expired_locked
  <2>2. \A k \in Keys : entries'[k] # entries[k] => shard_index[k] = NextShard(p)
    BY <1>7, <2>1, Zenon DEF StoreInv, Drop, InShard
  <2> QED
    BY <2>1, <2>2, RespectsUnlocked, Zenon
<1>8. CASE keys(p) \/ export_snapshot_entries(p)
  BY <1>7, <1>8, Zenon DEF keys, export_snapshot_entries, Collect
<1>9. CASE active_expire_cycle(p)
  BY <1>7, <1>9, Zenon DEF active_expire_cycle
<1> QED
  BY <1>1, <1>2, <1>3, <1>4, <1>5, <1>6, <1>8, <1>9, Zenon DEF Progress

\* So what holds of another thread's command still holds.
LEMMA OthersStay ==
  ASSUME StoreInv, LinearInv, NEW p \in Threads, NEW q \in Threads, p # q,
         Respects(p), call'[q] = call[q]
  PROVE  LocksOf(q)' /\ TakenOf(q)' /\ CountOf(q)'
<1>1. \A s \in Shards : lock'[s] = q <=> lock[s] = q
  BY Zenon DEF Respects
<1>2. call[q].pc \in {"called", "work"} => call[q].req.keys \subseteq Keys
  BY RequestFacts, Zenon DEF StoreInv, CallInv
<1>3. LocksOf(q)'
  BY <1>1, <1>2, ShardOfKey, Zenon DEF LinearInv, LocksOf
<1>4. ASSUME call[q].pc = "work", NEW k \in call[q].req.keys PROVE entries'[k] = entries[k]
  <2>1. k \in Keys /\ lock[shard_index[k]] = q
    BY <1>2, <1>4, Zenon DEF LinearInv, LocksOf
  <2>2. q # Nobody
    BY StoreAssumption, Zenon
  <2> QED
    BY <2>1, <2>2, Zenon DEF Respects
<1>5. TakenOf(q)'
  BY <1>4, Zenon DEF LinearInv, TakenOf, Processed
<1>6. CountOf(q)'
  <2> SUFFICES ASSUME call[q].pc = "work" PROVE Counted(q)' = Counted(q)
    BY Zenon DEF CountOf, LinearInv
  <2>1. \A k \in Processed(q) : k \in Live(entries, call[q].t)' <=> k \in Live(entries, call[q].t)
    BY <1>4, Zenon DEF Processed, Live, Expired, Present
  <2> QED
    BY <2>1, Zenon DEF Counted, Processed
<1> QED
  BY <1>3, <1>5, <1>6, Zenon

\* A thread that holds no lock and has nothing taken out.
LEMMA Unburdened ==
  ASSUME NEW p \in Threads, call'[p].taken = {}, call'[p].pc # "work",
         call'[p].pc \in {"idle", "recheck", "done"} \/ call'[p].req.op \notin Locking,
         \A s \in Shards : lock'[s] # p, call'[p].since \in 0 .. call'[p].t
  PROVE  LocksOf(p)' /\ TakenOf(p)' /\ CountOf(p)'
BY Zenon DEF LocksOf, TakenOf, CountOf

\* The new fields of the calling thread.
LEMMA WorkFields ==
  ASSUME StoreInv, NEW p \in Threads, NEW k \in Keys, WorkOnKey(p, k)
  PROVE  LET hit == k \in Live(entries, call[p].t)
             last == call[p].todo = {k}
         IN  /\ call'[p].req = call[p].req /\ call'[p].t = call[p].t
             /\ call'[p].since = call[p].since
             /\ call'[p].todo = call[p].todo \ {k}
             /\ call'[p].pc = (IF last THEN "done" ELSE "work")
             /\ call'[p].res = (IF hit THEN call[p].res + 1 ELSE call[p].res)
             /\ call'[p].taken = (IF last THEN {}
                                  ELSE IF hit /\ call[p].req.op = "del"
                                       THEN call[p].taken \cup {<<k, entries[k]>>}
                                       ELSE call[p].taken)
<1> DEFINE hit == k \in Live(entries, call[p].t)
           last == call[p].todo = {k}
           todo == call[p].todo \ {k}
           pc == IF last THEN "done" ELSE "work"
           res == IF hit THEN call[p].res + 1 ELSE call[p].res
           taken == IF last THEN {}
                    ELSE IF hit /\ call[p].req.op = "del"
                         THEN call[p].taken \cup {<<k, entries[k]>>} ELSE call[p].taken
<1>1. call' = [call EXCEPT ![p].todo = todo, ![p].pc = pc, ![p].res = res, ![p].taken = taken]
  BY Zenon DEF WorkOnKey
<1> HIDE DEF todo, pc, res, taken
<1>2. /\ call'[p].req = call[p].req /\ call'[p].t = call[p].t /\ call'[p].since = call[p].since
      /\ call'[p].todo = todo /\ call'[p].pc = pc /\ call'[p].res = res /\ call'[p].taken = taken
  BY <1>1 DEF StoreInv, CallInv, IsCall
<1> QED
  BY <1>2, Zenon DEF todo, pc, res, taken

\* One key of an EXISTS or a DEL.
LEMMA WorkLinear ==
  ASSUME StoreInv, LinearInv, NEW p \in Threads, NEW k \in Keys, WorkOnKey(p, k)
  PROVE  LocksOf(p)' /\ TakenOf(p)' /\ CountOf(p)'
<1> DEFINE hit == k \in Live(entries, call[p].t)
<1>1. /\ call[p].pc = "work" /\ k \in call[p].todo /\ call[p].req.op \in Locking
      /\ call[p].req \in Requests /\ call[p].todo \subseteq call[p].req.keys
      /\ call[p].req.keys \subseteq Keys /\ call[p].since \in 0 .. call[p].t
  BY RequestFacts, Zenon DEF WorkOnKey, StoreInv, CallInv, LinearInv, LocksOf
<1>2. CASE call[p].todo = {k}
  <2>1. /\ call'[p].taken = {} /\ call'[p].pc = "done" /\ call'[p].since = call[p].since
        /\ call'[p].t = call[p].t
    BY <1>2, WorkFields, Zenon
  <2>2. \A s \in Shards : lock'[s] # p
    <3>1. lock' = [s \in Shards |-> IF lock[s] = p THEN Nobody ELSE lock[s]]
      BY <1>2, Zenon DEF WorkOnKey
    <3> QED
      BY <3>1, StoreAssumption, Zenon
  <2> QED
    BY <1>1, <2>1, <2>2, Unburdened, Zenon
<1>3. CASE call[p].todo # {k}
  <2>1. /\ call'[p].req = call[p].req /\ call'[p].t = call[p].t
        /\ call'[p].since = call[p].since /\ call'[p].todo = call[p].todo \ {k}
        /\ call'[p].pc = "work"
        /\ call'[p].res = (IF hit THEN call[p].res + 1 ELSE call[p].res)
        /\ call'[p].taken = (IF hit /\ call[p].req.op = "del"
                             THEN call[p].taken \cup {<<k, entries[k]>>} ELSE call[p].taken)
    BY <1>3, WorkFields, Zenon
  <2>a. lock' = lock
    BY <1>3, Zenon DEF WorkOnKey
  <2>2. Processed(p)' = Processed(p) \cup {k} /\ k \notin Processed(p)
    BY <1>1, <2>1, Zenon DEF Processed
  <2>3. /\ \A j \in Keys \ {k} : entries'[j] = entries[j]
        /\ hit /\ call[p].req.op = "exists" => entries'[k] = entries[k]
        /\ ~hit \/ call[p].req.op = "del" => entries'[k] = Absent
    BY Zenon DEF WorkOnKey, StoreInv, UnchangedStore, erase_expired_locked, Drop, Live, Expired,
       Present
  <2>4. LocksOf(p)'
    BY <1>1, <2>1, <2>a, Zenon DEF LinearInv, LocksOf
  <2>5. ASSUME hit PROVE entries[k] \in Entry /\ entries[k].expires_at > call[p].t
    <3>1. entries[k] \in Entry /\ ~(entries[k].expires_at <= call[p].t)
      BY <2>5, Zenon DEF Live, Expired, Present, is_expired, StoreInv
    <3>2. entries[k].expires_at \in 0 .. Never /\ call[p].t \in 0 .. now /\ now \in 0 .. MaxTime
      BY <3>1, Zenon DEF Entry, StoreInv, CallInv
    <3> QED
      BY <3>1, <3>2, NaturalConstants
  <2>6. TakenOf(p)'
    <3>1. TakenOf(p)
      BY Zenon DEF LinearInv
    <3>2. \A x \in call[p].taken : x[1] # k
      BY <2>2, <3>1, Zenon DEF TakenOf
    <3>3. call[p].req.op = "del" => \A j \in Processed(p)' : entries'[j] = Absent
      BY <1>1, <2>2, <2>3, <3>1, Zenon DEF TakenOf, Processed
    <3>4. CASE hit /\ call[p].req.op = "del"
      <4> DEFINE new == <<k, entries[k]>>
      <4>1. call'[p].taken = call[p].taken \cup {new} /\ new[1] = k /\ new[2] = entries[k]
        BY <2>1, <3>4, Zenon
      <4> HIDE DEF new
      <4>2. new = <<new[1], new[2]>>
        BY <4>1, Zenon DEF new
      <4> QED
        BY <2>1, <2>2, <2>5, <3>1, <3>2, <3>3, <3>4, <4>1, <4>2, Zenon DEF TakenOf
    <3>5. CASE ~(hit /\ call[p].req.op = "del")
      <4>1. call'[p].taken = call[p].taken
        BY <2>1, <3>5, Zenon
      <4> QED
        BY <2>1, <2>2, <3>1, <3>3, <4>1, Zenon DEF TakenOf
    <3> QED
      BY <3>4, <3>5, Zenon
  <2>7. Counted(p)' = (IF hit THEN Counted(p) \cup {k} ELSE Counted(p)) /\ k \notin Counted(p)
    <3>1. CASE call[p].req.op = "del"
      <4>1. Counted(p) = {x[1] : x \in call[p].taken} /\ Counted(p)' = {x[1] : x \in call'[p].taken}
        BY <2>1, <3>1, Zenon DEF Counted
      <4>2. \A x \in call[p].taken : x[1] # k
        BY <2>2, Zenon DEF LinearInv, TakenOf
      <4>3. k \notin Counted(p)
        BY <4>1, <4>2, Zenon
      <4>4. CASE hit
        <5>1. call'[p].taken = call[p].taken \cup {<<k, entries[k]>>}
          BY <2>1, <3>1, <4>4, Zenon
        <5>2. <<k, entries[k]>>[1] = k
          BY Zenon
        <5>3. \A y : y \in Counted(p)' <=> y \in Counted(p) \/ y = k
          BY <4>1, <5>1, <5>2, Zenon
        <5> QED
          BY <4>3, <4>4, <5>3, Zenon
      <4>5. CASE ~hit
        BY <2>1, <3>1, <4>1, <4>3, <4>5, Zenon
      <4> QED
        BY <4>4, <4>5, Zenon
    <3>2. CASE call[p].req.op # "del"
      <4>1. \A j \in Processed(p) : j \in Live(entries', call[p].t) <=> j \in Live(entries, call[p].t)
        BY <1>1, <2>2, <2>3, Zenon DEF Live, Expired, Present, Processed
      <4>2. k \in Live(entries', call[p].t) <=> hit
        BY <1>1, <2>3, <3>2, Zenon DEF Live, Expired, Present, Locking
      <4>3. /\ Counted(p) = {j \in Processed(p) : j \in Live(entries, call[p].t)}
            /\ Counted(p)' = {j \in Processed(p)' : j \in Live(entries', call[p].t)}
        BY <2>1, <3>2, Zenon DEF Counted
      <4>4. Counted(p)' = {j \in Processed(p) \cup {k} : j \in Live(entries', call[p].t)}
        BY <2>2, <4>3, Zenon
      <4> HIDE DEF hit
      <4> QED
        BY <2>2, <4>1, <4>2, <4>3, <4>4, Zenon
    <3> QED
      BY <3>1, <3>2, Zenon
  <2>8. CountOf(p)'
    <3>1. IsFiniteSet(Counted(p)) /\ Cardinality(Counted(p)) \in Nat
      <4>1. Counted(p) \subseteq Keys
        BY <1>1 DEF Counted, Processed, LinearInv, TakenOf
      <4> QED
        BY <4>1, DistinctValues, FS_Subset, FS_CardinalityType, Zenon
    <3>2. Cardinality(Counted(p) \cup {k}) = Cardinality(Counted(p)) + 1
      BY <2>7, <3>1, FS_AddElement, Zenon
    <3>3. call[p].res = Cardinality(Counted(p))
      BY <1>1, Zenon DEF LinearInv, CountOf
    <3> QED
      BY <2>1, <2>7, <3>2, <3>3, Zenon DEF CountOf
  <2> QED
    BY <2>4, <2>6, <2>8, Zenon
<1> QED
  BY <1>2, <1>3, Zenon

\* The steps of the other commands.
LEMMA MoverLinear ==
  ASSUME StoreInv, LinearInv, NEW p \in Threads, Progress(p)
  PROVE  LocksOf(p)' /\ TakenOf(p)' /\ CountOf(p)'
<1>a. /\ call = [q \in Threads |-> call[q]] /\ CallInv(call[p]) /\ IsCall(call[p])
      /\ LocksOf(p) /\ TakenOf(p) /\ now \in 0 .. MaxTime
  BY Zenon DEF StoreInv, LinearInv, CallInv
<1>b. call[p].taken # {} => call[p].pc = "work"
  BY <1>a, Zenon DEF TakenOf
<1>c. call[p].since \in 0 .. call[p].t /\ call[p].t \in 0 .. now
  BY <1>a, Zenon DEF LocksOf, CallInv
<1>d. ASSUME call[p].pc # "work", call[p].req.op \notin Locking, lock' = lock,
             call'[p].req = call[p].req, call'[p].taken = call[p].taken,
             call'[p].t = call[p].t, call'[p].since = call[p].since, call'[p].pc # "work"
      PROVE  LocksOf(p)' /\ TakenOf(p)' /\ CountOf(p)'
  BY <1>a, <1>b, <1>c, <1>d, Unburdened, Zenon DEF LocksOf
<1>1. CASE ReadShared(p) \/ ReadUnique(p) \/ set(p) \/ expire_at(p)
  <2>1. /\ call[p].pc # "work" /\ call[p].req.op \notin Locking /\ lock' = lock
        /\ \/ call' = [call EXCEPT ![p].pc = "recheck"]
           \/ \E res : call' = [call EXCEPT ![p].pc = "done", ![p].res = res]
    BY <1>1, <1>a, Zenon DEF ReadShared, ReadUnique, Recheck, set, Overwrite, expire_at, Finish,
                      CallInv, Reads, Locking
  <2> QED
    BY <1>a, <1>d, <2>1, ZenonT(30) DEF IsCall
<1>2. CASE keys(p) \/ export_snapshot_entries(p) \/ active_expire_cycle(p)
  <2>1. /\ call[p].pc # "work" /\ call[p].req.op \notin Locking
        /\ \E gone, result, rest : VisitShard(p, gone, result, rest)
    BY <1>2, Zenon DEF keys, export_snapshot_entries, active_expire_cycle, Collect, Locking
  <2>2. /\ lock' = lock
        /\ \E result, rest, pc :
             /\ pc \in {"done", "called"}
             /\ call' = [call EXCEPT ![p].todo = rest, ![p].res = result, ![p].pc = pc]
    BY <2>1, Zenon DEF VisitShard
  <2> QED
    BY <1>a, <1>d, <2>1, <2>2 DEF IsCall
<1>3. CASE Return(p)
  <2>1. call'[p] = Inactive /\ lock' = lock /\ call[p].pc = "done"
    BY <1>a, <1>3, Zenon DEF Return
  <2> QED
    BY <1>a, <2>1, Unburdened DEF LocksOf, Inactive
<1>4. CASE lock_mutexes_in_order(p)
  <2>1. PICK s \in call[p].todo : /\ lock' = [lock EXCEPT ![s] = p]
                                  /\ call' = [call EXCEPT ![p].todo = call[p].todo \ {s}]
    BY <1>4, Zenon DEF lock_mutexes_in_order, LockOne
  <2>2. call[p].pc = "called" /\ call[p].req.op \in Locking /\ call[p].req.keys \subseteq Keys
    BY <1>4, <1>a, RequestFacts, Zenon DEF lock_mutexes_in_order, LockOne, CallInv
  <2>3. /\ call'[p].todo = call[p].todo \ {s} /\ call'[p].pc = "called"
        /\ call'[p].req = call[p].req /\ call'[p].taken = {} /\ call'[p].t = call[p].t
        /\ call'[p].since = call[p].since
    BY <1>a, <1>b, <2>1, <2>2, Zenon DEF IsCall
  <2>4. s \in Shards /\ lock \in [Shards -> Threads \cup {Nobody}]
    BY <1>a, <2>2, Zenon DEF LocksOf, LinearInv
  <2>5. LocksOf(p)'
    BY <1>a, <2>1, <2>2, <2>3, <2>4, ShardOfKey, Zenon DEF LocksOf
  <2> QED
    BY <2>3, <2>5, Zenon DEF TakenOf, CountOf
<1>5. CASE AllLocked(p)
  <2>1. /\ call[p].pc = "called" /\ call[p].req.op \in Locking /\ call[p].todo = {}
        /\ lock' = lock
        /\ call' = [call EXCEPT ![p].pc = "work", ![p].t = now, ![p].todo = call[p].req.keys,
                                ![p].res = 0]
    BY <1>5, Zenon DEF AllLocked, ReadClock
  <2>2. /\ call'[p].todo = call[p].req.keys /\ call'[p].pc = "work" /\ call'[p].res = 0
        /\ call'[p].req = call[p].req /\ call'[p].taken = {} /\ call'[p].t = now
        /\ call'[p].since = call[p].since
    BY <1>a, <1>b, <2>1, Zenon DEF IsCall
  <2>3. Processed(p)' = {} /\ Counted(p)' = {}
    BY <2>2, Zenon DEF Processed, Counted
  <2>4. call'[p].since \in 0 .. call'[p].t
    BY <1>a, <1>c, <2>2, NaturalConstants
  <2>5. LocksOf(p)'
    BY <1>a, <2>1, <2>2, <2>4, Zenon DEF LocksOf
  <2>6. TakenOf(p)' /\ CountOf(p)'
    BY <2>2, <2>3, FS_EmptySet, Zenon DEF TakenOf, CountOf
  <2> QED
    BY <2>5, <2>6, Zenon
<1> QED
  BY <1>1, <1>2, <1>3, <1>4, <1>5, WorkLinear, Zenon DEF Progress

\* Every step keeps the locks, what is taken out, and the counts.
LEMMA LinearNext == StoreInv /\ LinearInv /\ [Next]_vars => LinearInv'
<1> SUFFICES ASSUME StoreInv, LinearInv, [Next]_vars PROVE LinearInv'
  BY Zenon
<1>0. ASSUME UNCHANGED <<call, lock, entries>> PROVE LinearInv'
  <2>1. ASSUME NEW p \in Threads PROVE LocksOf(p)' /\ TakenOf(p)' /\ CountOf(p)'
    <3>1. LocksOf(p) /\ TakenOf(p) /\ CountOf(p)
      BY <2>1, Zenon DEF LinearInv
    <3>2. Counted(p)' = Counted(p)
      BY <1>0, Zenon DEF Counted, Processed
    <3> QED
      BY <1>0, <3>1, <3>2, Zenon DEF LocksOf, TakenOf, CountOf, Processed
  <2> QED
    BY <1>0, <2>1, Zenon DEF LinearInv
<1>1. CASE UNCHANGED vars
  BY <1>0, <1>1, Zenon DEF vars
<1>2. CASE Next
  <2>a. config_' = config_
    BY <1>2, Zenon DEF Next, Track
  <2>1. CASE Tick
    BY <1>0, <2>1, Zenon DEF Tick, UnchangedStore
  <2>2. ASSUME NEW p \in Threads, Moves(p), Respects(p),
               LocksOf(p)' /\ TakenOf(p)' /\ CountOf(p)'
        PROVE  LinearInv'
    <3>1. \A q \in Threads \ {p} : call'[q] = call[q]
      BY <2>2, Zenon DEF Moves, StoreInv
    <3>2. \A q \in Threads : LocksOf(q)' /\ TakenOf(q)' /\ CountOf(q)'
      BY <2>2, <3>1, OthersStay, Zenon
    <3> QED
      BY <2>2, <3>2, Zenon DEF LinearInv, Respects
  <2>3. ASSUME NEW p \in Threads, Progress(p) PROVE LinearInv'
    BY <2>a, <2>2, <2>3, ProgressKeepsCall, StepRespects, MoverLinear, Zenon
  <2>4. ASSUME NEW p \in Threads, NEW r \in Requests, Begin(p, r) PROVE LinearInv'
    <3>1. /\ call[p].pc = "idle" /\ call'[p].pc = "called" /\ call'[p].req = r
          /\ call'[p].taken = {} /\ call'[p].t = now /\ call'[p].since = now
          /\ r.op \notin Scans => call'[p].todo = {shard_index[k] : k \in r.keys}
          /\ lock' = lock /\ UnchangedStore
      BY <2>4, Zenon DEF Begin, Start, StoreInv
    <3>2. Respects(p)
      BY <3>1, RespectsUnlocked, Zenon DEF UnchangedStore
    <3>3. /\ \A s \in Shards : lock'[s] # p
          /\ call'[p].since \in 0 .. call'[p].t
      BY <3>1, NaturalConstants DEF LinearInv, LocksOf, StoreInv
    <3>4. r.op \in Locking => call'[p].todo = {shard_index[k] : k \in r.keys}
      BY <3>1, Zenon DEF Locking, Scans
    <3>5. LocksOf(p)'
      BY <3>1, <3>3, <3>4, RequestFacts, ShardOfKey DEF LocksOf
    <3>6. TakenOf(p)' /\ CountOf(p)'
      BY <3>1, Zenon DEF TakenOf, CountOf
    <3> QED
      BY <2>a, <2>2, <2>4, <3>2, <3>5, <3>6, BeginKeepsCall, Zenon
  <2> QED
    BY <1>2, <2>1, <2>3, <2>4, Zenon DEF Next
<1> QED
  BY <1>1, <1>2, Zenon

-----------------------------------------------------------------------------
(* The abstract map.                                                       *)

\* The entry that a DEL has taken out is the abstract entry.
LEMMA ValueTaken ==
  ASSUME NEW c, NEW m, NEW k, NEW p \in Threads, NEW e, <<k, e>> \in c[p].taken,
         \A q \in Threads : \A x \in c[q].taken : x[1] = k => x = <<k, e>>
  PROVE  ValueOf(c, m, k) = Lift(e)
<1> DEFINE taken == UNION {c[q].taken : q \in Threads}
<1>1. <<k, e>> \in taken /\ <<k, e>>[1] = k /\ <<k, e>>[2] = e
  BY Zenon
<1>2. \A x \in taken : x[1] = k => x = <<k, e>>
  BY Zenon
<1> HIDE DEF taken
<1>3. (CHOOSE x \in taken : x[1] = k) = <<k, e>>
  BY <1>1, <1>2, Zenon
<1>4. ValueOf(c, m, k) =
        LET d == IF \E x \in taken : x[1] = k THEN (CHOOSE x \in taken : x[1] = k)[2] ELSE m[k]
        IN  IF d = Absent THEN Absent ELSE [val |-> d.val, exp |-> d.expires_at]
  BY Zenon DEF ValueOf, taken
<1> QED
  BY <1>1, <1>3, <1>4, Zenon DEF Lift

\* Without one, it is the stored entry.
LEMMA ValueStored ==
  ASSUME NEW c, NEW m, NEW k, \A q \in Threads : \A x \in c[q].taken : x[1] # k
  PROVE  ValueOf(c, m, k) = Lift(m[k])
<1> DEFINE taken == UNION {c[q].taken : q \in Threads}
<1>1. ~ \E x \in taken : x[1] = k
  BY Zenon
<1> HIDE DEF taken
<1>2. ValueOf(c, m, k) =
        LET d == IF \E x \in taken : x[1] = k THEN (CHOOSE x \in taken : x[1] = k)[2] ELSE m[k]
        IN  IF d = Absent THEN Absent ELSE [val |-> d.val, exp |-> d.expires_at]
  BY Zenon DEF ValueOf, taken
<1> QED
  BY <1>1, <1>2, Zenon DEF Lift

\* The abstract map before and after a step, as a function of calls and entries.
LEMMA MapIsValue ==
  /\ \A k \in Keys : Map[k] = ValueOf(call, entries, k)
  /\ \A k \in Keys : Map'[k] = ValueOf(call', entries', k)
BY Zenon DEF Map, AbstractEntry, ValueOf

\* Nobody has taken out a key whose lock is free, nor an EXISTS one of its own.
LEMMA NotTaken ==
  ASSUME LinearInv, StoreInv, NEW k \in Keys, NEW p \in Threads,
         lock[shard_index[k]] \in {Nobody, p}, \A x \in call[p].taken : x[1] # k
  PROVE  \A q \in Threads : \A x \in call[q].taken : x[1] # k
<1> SUFFICES ASSUME NEW q \in Threads, q # p, NEW x \in call[q].taken, x[1] = k PROVE FALSE
  BY Zenon
<1>1. call[q].pc = "work" /\ x[1] \in Processed(q)
  BY Zenon DEF LinearInv, TakenOf
<1>2. lock[shard_index[k]] = q
  BY <1>1, Zenon DEF LinearInv, LocksOf, Processed
<1> QED
  BY <1>2, StoreAssumption, Zenon

\* A key is in the calls of one thread, once.
LEMMA TakenOnce ==
  ASSUME LinearInv, StoreInv, NEW p \in Threads, NEW y \in call[p].taken
  PROVE  /\ y = <<y[1], y[2]>> /\ y[1] \in Keys /\ y[2] \in Entry
         /\ \A q \in Threads : \A x \in call[q].taken : x[1] = y[1] => x = y
<1>1. /\ call[p].pc = "work" /\ y = <<y[1], y[2]>> /\ y[1] \in Processed(p) /\ y[2] \in Entry
  BY Zenon DEF LinearInv, TakenOf
<1>2. lock[shard_index[y[1]]] = p
  BY <1>1, Zenon DEF LinearInv, LocksOf, Processed
<1>3. y[1] \in Keys
  BY <1>1, RequestFacts, Zenon DEF Processed, StoreInv, CallInv
<1>4. ASSUME NEW q \in Threads, NEW x \in call[q].taken, x[1] = y[1] PROVE x = y
  <2>1. call[q].pc = "work" /\ x[1] \in Processed(q)
    BY <1>4, Zenon DEF LinearInv, TakenOf
  <2>2. lock[shard_index[y[1]]] = q
    BY <1>4, <2>1, Zenon DEF LinearInv, LocksOf, Processed
  <2>3. p = q
    BY <1>2, <2>2, Zenon
  <2> QED
    BY <1>4, <2>3, Zenon DEF LinearInv, TakenOf
<1> QED
  BY <1>1, <1>3, <1>4, Zenon

\* The abstract entry of a key that nobody has taken out is the stored one.
LEMMA MapStored ==
  ASSUME LinearInv, StoreInv, NEW k \in Keys,
         \A q \in Threads : \A x \in call[q].taken : x[1] # k
  PROVE  Map[k] = Lift(entries[k])
BY MapIsValue, ValueStored

\* The abstract entry of a key that a DEL has taken out is the one it took.
LEMMA MapTaken ==
  ASSUME LinearInv, StoreInv, NEW p \in Threads, NEW y \in call[p].taken
  PROVE  Map[y[1]] = Lift(y[2])
<1>1. /\ y = <<y[1], y[2]>> /\ y[1] \in Keys
      /\ \A q \in Threads : \A x \in call[q].taken : x[1] = y[1] => x = y
  BY TakenOnce, Zenon
<1> DEFINE k == y[1]
           e == y[2]
<1>2. <<k, e>> \in call[p].taken /\ \A q \in Threads : \A x \in call[q].taken : x[1] = k => x = <<k, e>>
  BY <1>1, Zenon
<1>3. k \in Keys
  BY <1>1, Zenon
<1> HIDE DEF k, e
<1>4. Map[k] = Lift(e)
  BY <1>2, <1>3, MapIsValue, ValueTaken
<1> QED
  BY <1>4, Zenon DEF k, e

\* A key whose entry and whose taken entry stay keeps its abstract entry.
LEMMA MapStays ==
  ASSUME LinearInv, StoreInv, NEW k \in Keys, entries'[k] = entries[k],
         \A q \in Threads : \A x : x[1] = k => (x \in call'[q].taken <=> x \in call[q].taken)
  PROVE  Map'[k] = Map[k]
<1>1. CASE \A q \in Threads : \A x \in call[q].taken : x[1] # k
  <2>1. \A q \in Threads : \A x \in call'[q].taken : x[1] # k
    BY <1>1, Zenon
  <2> QED
    BY <1>1, <2>1, MapIsValue, ValueStored
<1>2. ASSUME NEW p \in Threads, NEW y \in call[p].taken, y[1] = k PROVE Map'[k] = Map[k]
  <2> DEFINE e == y[2]
  <2>1. /\ y = <<k, e>> /\ \A q \in Threads : \A x \in call[q].taken : x[1] = k => x = y
    BY <1>2, TakenOnce, Zenon
  <2>2. /\ <<k, e>> \in call'[p].taken
        /\ \A q \in Threads : \A x \in call'[q].taken : x[1] = k => x = <<k, e>>
    BY <1>2, <2>1, Zenon
  <2>3. Map[k] = Lift(e)
    BY <1>2, MapTaken, Zenon
  <2> HIDE DEF e
  <2>4. ValueOf(call', entries', k) = Lift(e)
    BY <2>2, ValueTaken
  <2> QED
    BY <2>3, <2>4, MapIsValue, Zenon
<1> QED
  BY <1>1, <1>2, Zenon

-----------------------------------------------------------------------------
(* The steps of AbstractStore.                                             *)

\* A call that goes on inside, or that no abstract command stands for.
LEMMA PendingStays ==
  ASSUME StoreInv, NEW p \in Threads, Moves(p), PendingOf(call'[p]) = PendingOf(call[p])
  PROVE  Pending' = Pending
BY Zenon DEF Pending, Moves, StoreInv

\* A step nobody sees.
LEMMA Stutters ==
  ASSUME Pending' = Pending, Map' = Map, now' = now
  PROVE  [Abstract!AbsNext]_(Abstract!absVars)
BY Zenon DEF Abstract!absVars

\* Entries that are due disappear.
LEMMA Vanishes ==
  ASSUME Pending' = Pending, now' = now, NEW gone \in SUBSET Abstract!Due(Map, now),
         Map' = Abstract!Without(Map, gone)
  PROVE  [Abstract!AbsNext]_(Abstract!absVars)
BY Zenon DEF Abstract!AbsNext, Abstract!Vanish

\* A command takes effect.
LEMMA TakesEffect ==
  ASSUME StoreInv, NEW p \in Threads, Moves(p), now' = now,
         call[p].pc \in {"called", "recheck", "work"}, call[p].req.op \notin Scans,
         call'[p].pc = "done", call'[p].req = call[p].req,
         NEW t \in call[p].since .. now, call[p].req.op \in {"set", "expire"} => t = now,
         NEW start \in call[p].since .. now,
         NEW gone \in SUBSET Abstract!Due(Map, now),
         call'[p].res = Abstract!Answer(call[p].req, Map, t),
         Map' = Abstract!After(call[p].req, Abstract!Without(Map, gone), start, t)
  PROVE  [Abstract!AbsNext]_(Abstract!absVars)
<1>1. Pending[p] = [state |-> "called", req |-> call[p].req, since |-> call[p].since]
  BY Zenon DEF Pending, PendingOf
<1>2. Pending' = [Pending EXCEPT ![p] = [state |-> "done", res |-> call'[p].res]]
  BY Zenon DEF Pending, PendingOf, Moves, StoreInv
<1>3. /\ Pending[p].state = "called" /\ Pending[p].req = call[p].req
      /\ Pending[p].since = call[p].since
  BY <1>1
<1>4. Abstract!Effect(p)
  BY <1>2, <1>3, Zenon DEF Abstract!Effect
<1> QED
  BY <1>4, Zenon DEF Abstract!AbsNext

\* The abstract value of an entry.
LEMMA LiftFacts ==
  ASSUME NEW e \in Entry
  PROVE  /\ Lift(e) # Absent /\ Lift(e) = [val |-> e.val, exp |-> e.expires_at]
         /\ Lift(e).val = e.val /\ Lift(e).exp = e.expires_at /\ e.expires_at \in 0 .. Never
<1>1. e # Absent /\ e.val \in Values /\ e.expires_at \in 0 .. Never
  BY DistinctValues, Zenon DEF Entry
<1>2. [val |-> e.val, exp |-> e.expires_at] \in [val : Values, exp : 0 .. Never]
  BY <1>1, Zenon
<1>3. [val |-> e.val, exp |-> e.expires_at] # Absent
  BY <1>2, DistinctValues, Zenon
<1> QED
  BY <1>1, <1>3, Zenon DEF Lift

\* An abstract entry is alive when the stored one is.
LEMMA AliveIsLive ==
  ASSUME StoreInv, NEW k \in Keys, Map[k] = Lift(entries[k]), NEW t \in Int
  PROVE  /\ Abstract!Alive(Map[k], t) <=> k \in Live(entries, t)
         /\ k \in Expired(entries, t) <=> Map[k] # Absent /\ Map[k].exp <= t
         /\ entries[k] = Absent <=> Map[k] = Absent
<1>1. CASE entries[k] = Absent
  BY <1>1, Zenon DEF Lift, Abstract!Alive, Live, Expired, Present
<1>2. CASE entries[k] # Absent
  <2>1. entries[k] \in Entry
    BY <1>2, Zenon DEF StoreInv
  <2>2. Map[k] # Absent /\ Map[k].exp = entries[k].expires_at /\ entries[k].expires_at \in 0 .. Never
    BY <2>1, LiftFacts, Zenon
  <2>3. k \in Expired(entries, t) <=> entries[k].expires_at <= t
    BY <1>2, Zenon DEF Expired, Present, is_expired
  <2>4. k \in Live(entries, t) <=> ~(entries[k].expires_at <= t)
    BY <1>2, <2>3, Zenon DEF Live, Present
  <2>5. Abstract!Alive(Map[k], t) <=> entries[k].expires_at > t
    BY <2>2, Zenon DEF Abstract!Alive
  <2> QED
    BY <1>2, <2>2, <2>3, <2>4, <2>5, NaturalConstants
<1> QED
  BY <1>1, <1>2, Zenon

\* The abstract map is determined by its entries.
LEMMA MapExt ==
  ASSUME NEW f, f = [k \in Keys |-> f[k]], \A k \in Keys : Map'[k] = f[k]
  PROVE  Map' = f
<1>1. Map' = [k \in Keys |-> Map'[k]]
  BY Zenon DEF Map
<1> QED
  BY <1>1, Zenon

\* A step that changes neither the entries nor what is taken out keeps the map.
LEMMA MapSame ==
  ASSUME LinearInv, StoreInv, entries' = entries,
         \A q \in Threads : call'[q].taken = call[q].taken
  PROVE  Map' = Map
<1>1. \A k \in Keys : Map'[k] = Map[k]
  BY MapStays, Zenon
<1>2. Map = [k \in Keys |-> Map[k]]
  BY Zenon DEF Map
<1> QED
  BY <1>1, <1>2, MapExt, Zenon

\* Expired entries that nobody holds disappear from the abstract map.
LEMMA MapDrops ==
  ASSUME LinearInv, StoreInv, NEW gone, gone \subseteq Expired(entries, now),
         entries' = Drop(entries, gone),
         \A q \in Threads : call'[q].taken = call[q].taken,
         \A k \in gone : \A q \in Threads : \A x \in call[q].taken : x[1] # k
  PROVE  Map' = Abstract!Without(Map, gone) /\ gone \in SUBSET Abstract!Due(Map, now)
<1>1. gone \subseteq Keys /\ now \in Int
  BY NaturalConstants DEF Expired, Present, StoreInv
<1>2. ASSUME NEW k \in Keys \ gone PROVE Map'[k] = Map[k]
  <2>1. entries'[k] = entries[k]
    BY <1>2, Zenon DEF Drop
  <2> QED
    BY <2>1, MapStays, Zenon
<1>3. ASSUME NEW k \in gone PROVE Map'[k] = Absent /\ k \in Abstract!Due(Map, now)
  <2>1. k \in Keys /\ entries'[k] = Absent
    BY <1>1, <1>3, Zenon DEF Drop
  <2>2. \A q \in Threads : \A x \in call'[q].taken : x[1] # k
    BY <1>3, Zenon
  <2>3. Map'[k] = Lift(entries'[k])
    BY <2>1, <2>2, MapIsValue, ValueStored
  <2>4. Map[k] = Lift(entries[k])
    BY <1>3, <2>1, MapStored, Zenon
  <2>5. Map[k] # Absent /\ Map[k].exp <= now
    BY <1>1, <1>3, <2>1, <2>4, AliveIsLive, Zenon
  <2> QED
    BY <2>1, <2>3, <2>5, Zenon DEF Lift, Abstract!Due
<1> DEFINE f == Abstract!Without(Map, gone)
<1>4. f = [k \in Keys |-> IF k \in gone THEN Absent ELSE Map[k]]
  BY Zenon DEF Abstract!Without
<1> HIDE DEF f
<1>5. f = [k \in Keys |-> f[k]] /\ \A k \in Keys : Map'[k] = f[k]
  BY <1>1, <1>2, <1>3, <1>4, Zenon
<1>6. Map' = f
  BY <1>5, MapExt, Zenon
<1> QED
  BY <1>3, <1>6, Zenon DEF f

\* Taking nothing out changes nothing.
LEMMA WithoutNothing == Abstract!Without(Map, {}) = Map
BY Zenon DEF Abstract!Without, Map

\* Commands that do not mutate leave the map.
LEMMA AfterRead ==
  ASSUME NEW r, r.op \in Reads \cup {"exists"}, NEW m, NEW start, NEW t
  PROVE  Abstract!After(r, m, start, t) = m
BY Zenon DEF Abstract!After, Reads

\* The reads agree on the answer.
LEMMA ReadAnswers ==
  ASSUME StoreInv, NEW p \in Threads, call[p].pc # "idle", call[p].req.op \in Reads,
         Map[Key(p)] = Lift(entries[Key(p)])
  PROVE  /\ Key(p) \notin Expired(entries, call[p].t) =>
              Answer(call[p].req, entries[Key(p)], call[p].t) = Abstract!Answer(call[p].req, Map, call[p].t)
         /\ Key(p) \in Expired(entries, call[p].t) =>
              Answer(call[p].req, Absent, call[p].t) = Abstract!Answer(call[p].req, Map, call[p].t)
<1> DEFINE k == Key(p)
           t == call[p].t
           r == call[p].req
<1>1. k \in Keys /\ t \in Int /\ Abstract!Only(r.keys) = k
  <2>1. t \in 0 .. now /\ now \in 0 .. MaxTime
    BY Zenon DEF StoreInv, CallInv
  <2>2. Abstract!Only(r.keys) = k
    BY Zenon DEF Abstract!Only, Key
  <2> QED
    BY <2>1, <2>2, KeyOfCall, NaturalConstants
<1>2. Map[k] = Lift(entries[k])
  BY Zenon
<1>3. /\ Abstract!Alive(Map[k], t) <=> k \in Live(entries, t)
      /\ entries[k] = Absent <=> Map[k] = Absent
  BY <1>1, <1>2, AliveIsLive, Zenon
<1>4. k \in Live(entries, t) <=> entries[k] # Absent /\ k \notin Expired(entries, t)
  BY <1>1, Zenon DEF Live, Present
<1>5. entries[k] # Absent => Map[k].val = entries[k].val /\ Map[k].exp = entries[k].expires_at
  BY <1>1, <1>2, LiftFacts, Zenon DEF StoreInv
<1>6. r.op \in {"get", "contains", "ttl", "deadline"}
  BY Zenon DEF Reads
<1> DEFINE e == IF k \in Expired(entries, t) THEN Absent ELSE entries[k]
<1>a. /\ Abstract!Alive(Map[k], t) <=> e # Absent
      /\ e # Absent => Map[k].val = e.val /\ Map[k].exp = e.expires_at
  BY <1>3, <1>4, <1>5, Zenon
<1>7. Answer(r, e, t) = Abstract!Answer(r, Map, t)
  <2>1. CASE r.op = "get"
    <3>1. Abstract!Answer(r, Map, t) = IF Abstract!Alive(Map[k], t) THEN Map[k].val ELSE Absent
      BY <1>1, <2>1, Zenon DEF Abstract!Answer
    <3>2. Answer(r, e, t) = IF e = Absent THEN Absent ELSE e.val
      BY <2>1, Zenon DEF Answer
    <3> HIDE DEF e, k, t, r
    <3> QED
      BY <1>a, <3>1, <3>2, Zenon
  <2>2. CASE r.op = "deadline"
    <3>1. Abstract!Answer(r, Map, t) = IF Abstract!Alive(Map[k], t) THEN Map[k].exp ELSE Absent
      BY <1>1, <2>2, Zenon DEF Abstract!Answer
    <3>2. Answer(r, e, t) = IF e = Absent THEN Absent ELSE e.expires_at
      BY <2>2, Zenon DEF Answer
    <3> HIDE DEF e, k, t, r
    <3> QED
      BY <1>a, <3>1, <3>2, Zenon
  <2>3. CASE r.op = "ttl"
    <3>1. Abstract!Answer(r, Map, t) = IF ~Abstract!Alive(Map[k], t) THEN -2 ELSE IF Map[k].exp = Never THEN -1
                                ELSE (Map[k].exp - t) \div Sec
      BY <1>1, <2>3, Zenon DEF Abstract!Answer
    <3>2. Answer(r, e, t) = IF e = Absent THEN -2 ELSE IF e.expires_at = Never THEN -1
                            ELSE (e.expires_at - t) \div Sec
      BY <2>3, Zenon DEF Answer
    <3> HIDE DEF e, k, t, r
    <3> QED
      BY <1>a, <3>1, <3>2
  <2>4. CASE r.op = "contains"
    <3>1. Abstract!Answer(r, Map, t) = Abstract!Alive(Map[k], t)
      BY <1>1, <2>4, Zenon DEF Abstract!Answer
    <3>2. Answer(r, e, t) = (e # Absent)
      BY <2>4, Zenon DEF Answer
    <3>3. Abstract!Alive(Map[k], t) \in BOOLEAN
      BY Zenon DEF Abstract!Alive
    <3> HIDE DEF e, k, t, r
    <3> QED
      BY <1>a, <3>1, <3>2, <3>3, Zenon
  <2> QED
    BY <1>6, <2>1, <2>2, <2>3, <2>4, Zenon
<1> QED
  BY <1>7, Zenon

-----------------------------------------------------------------------------
(* Commands of one key.                                                    *)

\* A command that returns a result.
LEMMA Finishes ==
  ASSUME StoreInv, NEW p \in Threads, NEW result, Finish(p, result)
  PROVE  /\ Moves(p) /\ call'[p].pc = "done" /\ call'[p].res = result
         /\ call'[p].req = call[p].req
         /\ \A q \in Threads : call'[q].taken = call[q].taken
<1>1. /\ call = [q \in Threads |-> call[q]] /\ IsCall(call[p])
      /\ call' = [call EXCEPT ![p].pc = "done", ![p].res = result]
  BY Zenon DEF Finish, StoreInv, CallInv
<1>2. /\ call'[p].pc = "done" /\ call'[p].res = result /\ call'[p].req = call[p].req
      /\ call'[p].taken = call[p].taken
  BY <1>1, Zenon DEF IsCall
<1>3. Moves(p) /\ \A q \in Threads \ {p} : call'[q] = call[q]
  BY <1>1, Zenon DEF Moves
<1> QED
  BY <1>2, <1>3, Zenon

\* The clock of a command lies between its call and now.
LEMMA ClockOfCall ==
  ASSUME StoreInv, LinearInv, NEW p \in Threads
  PROVE  /\ call[p].t \in call[p].since .. now /\ now \in call[p].since .. now
         /\ call[p].t \in Int /\ now \in Int /\ call[p].t <= now
BY NaturalConstants DEF StoreInv, CallInv, LinearInv, LocksOf

\* The key of a single-key command whose shard is unlocked.
LEMMA FreeKey ==
  ASSUME StoreInv, LinearInv, NEW p \in Threads, call[p].pc # "idle",
         call[p].req.op \in Reads \cup {"set", "expire"}, Unlocked(shard_for(p))
  PROVE  /\ Key(p) \in Keys /\ call[p].req.keys = {Key(p)} /\ Abstract!Only(call[p].req.keys) = Key(p)
         /\ \A q \in Threads : \A x \in call[q].taken : x[1] # Key(p)
         /\ Map[Key(p)] = Lift(entries[Key(p)])
<1>1. Key(p) \in Keys /\ call[p].req.keys = {Key(p)}
  BY KeyOfCall, Zenon
<1>2. Abstract!Only(call[p].req.keys) = Key(p)
  BY Zenon DEF Abstract!Only, Key
<1>3. lock[shard_index[Key(p)]] = Nobody
  BY Zenon DEF Unlocked, shard_for
<1>4. call[p].taken = {}
  BY Zenon DEF LinearInv, TakenOf, Reads
<1>5. \A q \in Threads : \A x \in call[q].taken : x[1] # Key(p)
  BY <1>1, <1>3, <1>4, NotTaken, Zenon
<1> QED
  BY <1>1, <1>2, <1>5, MapStored, Zenon

\* GET, EXISTS, TTL and the expiry time of a key.
LEMMA ReadRefines ==
  ASSUME StoreInv, LinearInv, NEW p \in Threads, ReadShared(p) \/ ReadUnique(p)
  PROVE  [Abstract!AbsNext]_(Abstract!absVars)
<1>1. /\ call[p].pc \in {"called", "recheck"} /\ call[p].req.op \in Reads
      /\ Unlocked(shard_for(p)) /\ now' = now
  BY Zenon DEF ReadShared, ReadUnique, Recheck, StoreInv, CallInv
<1>2. /\ Key(p) \in Keys
      /\ \A q \in Threads : \A x \in call[q].taken : x[1] # Key(p)
      /\ Map[Key(p)] = Lift(entries[Key(p)])
  BY <1>1, FreeKey, Zenon
<1>3. /\ call[p].t \in call[p].since .. now /\ call[p].t \in Int /\ now \in Int /\ call[p].t <= now
  BY ClockOfCall, Zenon
<1>4. call[p].req.op \notin Scans /\ call[p].req.op \notin {"set", "expire"}
  BY <1>1, Zenon DEF Reads, Scans
<1>5. CASE call' = [call EXCEPT ![p].pc = "recheck"] /\ call[p].pc = "called" /\ UnchangedStore
  <2>1. /\ Moves(p) /\ call'[p].pc = "recheck" /\ call'[p].req = call[p].req
        /\ call'[p].since = call[p].since /\ \A q \in Threads : call'[q].taken = call[q].taken
    BY <1>5 DEF Moves, StoreInv, CallInv, IsCall
  <2>2. Pending' = Pending
    BY <1>4, <1>5, <2>1, PendingStays, Zenon DEF PendingOf
  <2>3. Map' = Map
    BY <1>5, <2>1, MapSame, Zenon DEF UnchangedStore
  <2> QED
    BY <1>1, <2>2, <2>3, Stutters, Zenon
<1>6. ASSUME Key(p) \notin Expired(entries, call[p].t), UnchangedStore,
             Finish(p, Answer(call[p].req, entries[Key(p)], call[p].t))
      PROVE  [Abstract!AbsNext]_(Abstract!absVars)
  <2>1. /\ Moves(p) /\ call'[p].pc = "done" /\ call'[p].req = call[p].req
        /\ call'[p].res = Answer(call[p].req, entries[Key(p)], call[p].t)
        /\ \A q \in Threads : call'[q].taken = call[q].taken
    BY <1>6, Finishes, Zenon
  <2>2. Map' = Map
    BY <1>6, <2>1, MapSame, Zenon DEF UnchangedStore
  <2>3. call'[p].res = Abstract!Answer(call[p].req, Map, call[p].t)
    BY <1>1, <1>2, <1>6, <2>1, ReadAnswers, Zenon
  <2>4. Map' = Abstract!After(call[p].req, Abstract!Without(Map, {}), call[p].t, call[p].t)
    BY <1>1, <2>2, WithoutNothing, AfterRead
  <2>5. {} \in SUBSET Abstract!Due(Map, now) /\ call[p].pc \in {"called", "recheck", "work"}
    BY <1>1, Zenon
  <2> QED
    BY <1>1, <1>3, <1>4, <2>1, <2>3, <2>4, <2>5, TakesEffect, Zenon
<1>7. ASSUME Key(p) \in Expired(entries, call[p].t), erase_expired_locked({Key(p)}),
             Finish(p, Answer(call[p].req, Absent, call[p].t))
      PROVE  [Abstract!AbsNext]_(Abstract!absVars)
  <2>1. /\ Moves(p) /\ call'[p].pc = "done" /\ call'[p].req = call[p].req
        /\ call'[p].res = Answer(call[p].req, Absent, call[p].t)
        /\ \A q \in Threads : call'[q].taken = call[q].taken
    BY <1>7, Finishes, Zenon
  <2>2. {Key(p)} \subseteq Expired(entries, now) /\ entries' = Drop(entries, {Key(p)})
    BY <1>3, <1>7, ExpiredLater, Zenon DEF StoreInv, erase_expired_locked
  <2>3. Map' = Abstract!Without(Map, {Key(p)}) /\ {Key(p)} \in SUBSET Abstract!Due(Map, now)
    BY <1>2, <2>1, <2>2, MapDrops, Zenon
  <2>4. call'[p].res = Abstract!Answer(call[p].req, Map, call[p].t)
    BY <1>1, <1>2, <1>7, <2>1, ReadAnswers, Zenon
  <2>5. Map' = Abstract!After(call[p].req, Abstract!Without(Map, {Key(p)}), call[p].t, call[p].t)
    <3> DEFINE m == Abstract!Without(Map, {Key(p)})
    <3>1. Map' = m
      BY <2>3, Zenon
    <3> HIDE DEF m
    <3>2. call[p].req.op \in Reads \cup {"exists"}
      BY <1>1, Zenon
    <3>3. Abstract!After(call[p].req, m, call[p].t, call[p].t) = m
      BY <3>2, AfterRead
    <3> QED
      BY <3>1, <3>3, Zenon DEF m
  <2>6. call[p].pc \in {"called", "recheck", "work"}
    BY <1>1, Zenon
  <2> QED
    BY <1>1, <1>3, <1>4, <2>1, <2>3, <2>4, <2>5, <2>6, TakesEffect, Zenon
<1> QED
  BY <1>5, <1>6, <1>7, Zenon DEF ReadShared, ReadUnique, Recheck

\* SET.
LEMMA SetRefines ==
  ASSUME StoreInv, LinearInv, NEW p \in Threads, set(p)
  PROVE  [Abstract!AbsNext]_(Abstract!absVars)
<1> DEFINE k == Key(p)
           r == call[p].req
           new == NewEntry(r.val, Never)
<1>1. /\ call[p].pc = "called" /\ r.op = "set" /\ Unlocked(shard_for(p)) /\ now' = now
      /\ entries' = [entries EXCEPT ![k] = new] /\ Finish(p, TRUE)
  BY Zenon DEF set, Overwrite
<1>2. /\ k \in Keys /\ Abstract!Only(r.keys) = k
      /\ \A q \in Threads : \A x \in call[q].taken : x[1] # k
  BY <1>1, FreeKey, Zenon
<1>3. /\ Moves(p) /\ call'[p].pc = "done" /\ call'[p].req = r /\ call'[p].res = TRUE
      /\ \A q \in Threads : call'[q].taken = call[q].taken
  BY <1>1, Finishes, Zenon
<1>4. r.val \in Values
  BY <1>1, RequestFacts, Zenon DEF StoreInv, CallInv
<1>5. new \in Entry /\ Lift(new) = [val |-> r.val, exp |-> Never]
  <2>1. new \in Entry
    BY <1>4, NewEntryType, Zenon
  <2> QED
    BY <2>1, LiftFacts, Zenon DEF NewEntry
<1>6. Map' = Abstract!After(r, Abstract!Without(Map, {}), now, now)
  <2>1. Abstract!After(r, Map, now, now) = [Map EXCEPT ![k] = [val |-> r.val, exp |-> Never]]
    BY <1>1, <1>2, Zenon DEF Abstract!After
  <2>2. entries'[k] = new /\ \A j \in Keys \ {k} : entries'[j] = entries[j]
    BY <1>1, <1>2, Zenon DEF StoreInv
  <2>3. Map'[k] = Lift(new)
    <3>1. \A q \in Threads : \A x \in call'[q].taken : x[1] # k
      BY <1>2, <1>3, Zenon
    <3>2. ValueOf(call', entries', k) = Lift(entries'[k])
      BY <3>1, ValueStored, Zenon
    <3> QED
      BY <1>2, <2>2, <3>2, MapIsValue, Zenon
  <2>4. \A j \in Keys \ {k} : Map'[j] = Map[j]
    BY <1>3, <2>2, MapStays, Zenon
  <2> DEFINE f == [Map EXCEPT ![k] = [val |-> r.val, exp |-> Never]]
  <2>5. f = [j \in Keys |-> f[j]] /\ \A j \in Keys : Map'[j] = f[j]
    <3>1. Map = [j \in Keys |-> Map[j]]
      BY Zenon DEF Map
    <3> HIDE DEF new
    <3> QED
      BY <1>2, <1>5, <2>3, <2>4, <3>1, Zenon
  <2> HIDE DEF f
  <2>6. Map' = f
    BY <2>5, MapExt, Zenon
  <2> QED
    BY <2>1, <2>6, WithoutNothing, Zenon DEF f
<1>7. Abstract!Answer(r, Map, now) = TRUE
  BY <1>1, Zenon DEF Abstract!Answer
<1>8. /\ now \in call[p].since .. now /\ {} \in SUBSET Abstract!Due(Map, now)
      /\ call[p].pc \in {"called", "recheck", "work"} /\ r.op \notin Scans
  BY <1>1, ClockOfCall, Zenon DEF Scans
<1> QED
  BY <1>1, <1>3, <1>6, <1>7, <1>8, TakesEffect, Zenon

-----------------------------------------------------------------------------
(* EXPIRE.                                                                 *)

\* Taking out the live entry of a key that nobody has taken.
LEMMA MapWithout ==
  ASSUME LinearInv, StoreInv, NEW k \in Keys, entries' = Drop(entries, {k}),
         \A q \in Threads : call'[q].taken = call[q].taken,
         \A q \in Threads : \A x \in call[q].taken : x[1] # k
  PROVE  Map' = Abstract!Without(Map, {k})
<1>1. entries'[k] = Absent /\ \A j \in Keys \ {k} : entries'[j] = entries[j]
  BY Zenon DEF Drop
<1>2. \A j \in Keys \ {k} : Map'[j] = Map[j]
  BY <1>1, MapStays, Zenon
<1>3. Map'[k] = Absent
  <2>1. \A q \in Threads : \A x \in call'[q].taken : x[1] # k
    BY Zenon
  <2>2. ValueOf(call', entries', k) = Lift(entries'[k])
    BY <2>1, ValueStored, Zenon
  <2> QED
    BY <1>1, <2>2, MapIsValue, Zenon DEF Lift
<1> DEFINE f == Abstract!Without(Map, {k})
<1>4. f = [j \in Keys |-> IF j \in {k} THEN Absent ELSE Map[j]]
  BY Zenon DEF Abstract!Without
<1> HIDE DEF f
<1>5. f = [j \in Keys |-> f[j]] /\ \A j \in Keys : Map'[j] = f[j]
  BY <1>2, <1>3, <1>4, Zenon
<1> QED
  BY <1>5, MapExt, Zenon DEF f

\* EXPIRE of an absent, an expired and a live key; with a deadline that has passed
\* it deletes.
LEMMA ExpireRefines ==
  ASSUME StoreInv, LinearInv, NEW p \in Threads, expire_at(p)
  PROVE  [Abstract!AbsNext]_(Abstract!absVars)
<1> DEFINE k == Key(p)
           r == call[p].req
           at == call[p].t + r.ttl
<1>1. call[p].pc = "called" /\ r.op = "expire" /\ Unlocked(shard_for(p)) /\ now' = now
  BY Zenon DEF expire_at
<1>2. /\ k \in Keys /\ Abstract!Only(r.keys) = k /\ r.keys = {k}
      /\ \A q \in Threads : \A x \in call[q].taken : x[1] # k
      /\ Map[k] = Lift(entries[k])
  BY <1>1, FreeKey, Zenon
<1>3. /\ now \in call[p].since .. now /\ call[p].t \in call[p].since .. now /\ now \in Int
      /\ call[p].pc \in {"called", "recheck", "work"} /\ r.op \notin Scans
      /\ {} \in SUBSET Abstract!Due(Map, now)
  BY <1>1, ClockOfCall, Zenon DEF Scans
<1>4. Abstract!Alive(Map[k], now) <=> k \in Live(entries, now)
  BY <1>2, <1>3, AliveIsLive, Zenon
<1>5. Abstract!Answer(r, Map, now) = Abstract!Alive(Map[k], now)
  BY <1>1, <1>2, Zenon DEF Abstract!Answer
<1>6. Abstract!Alive(Map[k], now) \in BOOLEAN
  BY Zenon DEF Abstract!Alive
<1>7. ASSUME NEW b \in BOOLEAN, Finish(p, b), b <=> k \in Live(entries, now)
      PROVE  /\ Moves(p) /\ call'[p].pc = "done" /\ call'[p].req = r
             /\ call'[p].res = Abstract!Answer(r, Map, now)
             /\ \A q \in Threads : call'[q].taken = call[q].taken
  <2>1. b = Abstract!Answer(r, Map, now)
    BY <1>4, <1>5, <1>6, <1>7, Zenon
  <2> QED
    BY <1>7, <2>1, Finishes, Zenon
<1>8. CASE entries[k] = Absent /\ Finish(p, FALSE) /\ UnchangedStore
  <2>1. k \notin Live(entries, now)
    BY <1>8, Zenon DEF Live, Present
  <2>2. /\ Moves(p) /\ call'[p].pc = "done" /\ call'[p].req = r
        /\ call'[p].res = Abstract!Answer(r, Map, now)
        /\ \A q \in Threads : call'[q].taken = call[q].taken
    BY <1>7, <1>8, <2>1, Zenon
  <2>3. Map' = Map
    BY <1>8, <2>2, MapSame, Zenon DEF UnchangedStore
  <2>4. Abstract!After(r, Map, now, now) = Map
    BY <1>1, <1>2, <1>4, <2>1, Zenon DEF Abstract!After
  <2>5. Map' = Abstract!After(r, Abstract!Without(Map, {}), now, now)
    BY <2>3, <2>4, WithoutNothing, Zenon
  <2> QED
    BY <1>1, <1>3, <2>2, <2>5, TakesEffect, Zenon
<1>9. CASE k \in Expired(entries, now) /\ Finish(p, FALSE) /\ erase_expired_locked({k})
  <2>1. k \notin Live(entries, now)
    BY <1>9, Zenon DEF Live
  <2>2. /\ Moves(p) /\ call'[p].pc = "done" /\ call'[p].req = r
        /\ call'[p].res = Abstract!Answer(r, Map, now)
        /\ \A q \in Threads : call'[q].taken = call[q].taken
    BY <1>7, <1>9, <2>1, Zenon
  <2>3. Map' = Abstract!Without(Map, {k}) /\ {k} \in SUBSET Abstract!Due(Map, now)
    <3>1. {k} \subseteq Expired(entries, now) /\ entries' = Drop(entries, {k})
      BY <1>9, Zenon DEF erase_expired_locked
    <3> QED
      BY <1>2, <2>2, <3>1, MapDrops, Zenon
  <2>4. Abstract!After(r, Abstract!Without(Map, {k}), now, now) = Abstract!Without(Map, {k})
    <3>1. Abstract!Without(Map, {k})[k] = Absent
      BY <1>2, Zenon DEF Abstract!Without
    <3>2. ~Abstract!Alive(Abstract!Without(Map, {k})[k], now)
      BY <3>1, Zenon DEF Abstract!Alive
    <3> QED
      BY <1>1, <1>2, <3>2, Zenon DEF Abstract!After
  <2>5. Map' = Abstract!After(r, Abstract!Without(Map, {k}), now, now)
    BY <2>3, <2>4, Zenon
  <2> QED
    BY <1>1, <1>3, <2>2, <2>3, <2>5, TakesEffect, Zenon
<1>10. CASE k \in Live(entries, now) /\ at <= now /\ Finish(p, TRUE) /\ entries' = Drop(entries, {k})
  <2>2. /\ Moves(p) /\ call'[p].pc = "done" /\ call'[p].req = r
        /\ call'[p].res = Abstract!Answer(r, Map, now)
        /\ \A q \in Threads : call'[q].taken = call[q].taken
    BY <1>7, <1>10, Zenon
  <2>3. Map' = Abstract!Without(Map, {k})
    BY <1>2, <1>10, <2>2, MapWithout, Zenon
  <2>4. Abstract!After(r, Map, call[p].t, now) = Abstract!Without(Map, {k})
    <3>1. ~(call[p].t + r.ttl > now)
      <4>1. call[p].t \in Int /\ r.ttl \in Int
        BY <1>1, ClockOfCall, RequestFacts, StoreAssumption DEF StoreInv, CallInv
      <4> QED
        BY <1>3, <1>10, <4>1
    <3> QED
      BY <1>1, <1>2, <1>4, <1>10, <3>1, Zenon DEF Abstract!After
  <2>5. Map' = Abstract!After(r, Abstract!Without(Map, {}), call[p].t, now)
    BY <2>3, <2>4, WithoutNothing, Zenon
  <2> QED
    BY <1>1, <1>3, <2>2, <2>5, TakesEffect, Zenon
<1>11. CASE /\ k \in Live(entries, now) /\ at > now /\ Finish(p, TRUE)
            /\ entries' = [entries EXCEPT ![k].expires_at = at]
  <2>2. /\ Moves(p) /\ call'[p].pc = "done" /\ call'[p].req = r
        /\ call'[p].res = Abstract!Answer(r, Map, now)
        /\ \A q \in Threads : call'[q].taken = call[q].taken
    BY <1>7, <1>11, Zenon
  <2>3. Abstract!After(r, Map, call[p].t, now) = [Map EXCEPT ![k].exp = at]
    BY <1>1, <1>2, <1>4, <1>11, Zenon DEF Abstract!After
  <2>4. entries[k] \in Entry
    BY <1>2, <1>11, Zenon DEF Live, Present, StoreInv
  <2>5. /\ entries'[k] = [entries[k] EXCEPT !.expires_at = at]
        /\ \A j \in Keys \ {k} : entries'[j] = entries[j]
    BY <1>2, <1>11, Zenon DEF StoreInv
  <2>6. entries'[k] \in Entry
    <3>1. call[p].t \in 0 .. MaxTime /\ r.ttl \in Ttls
      <4>1. call[p].t \in 0 .. now /\ now \in 0 .. MaxTime /\ r \in Requests
        BY <1>1, Zenon DEF StoreInv, CallInv
      <4> QED
        BY <1>1, <4>1, RequestFacts, NaturalConstants
    <3>2. at \in 0 .. Never
      BY <3>1, DeadlineType, Zenon
    <3> HIDE DEF at
    <3> QED
      BY <2>4, <2>5, <3>2, Zenon DEF Entry
  <2>7. Map'[k] = Lift(entries'[k])
    <3>1. \A q \in Threads : \A x \in call'[q].taken : x[1] # k
      BY <1>2, <2>2, Zenon
    <3>2. ValueOf(call', entries', k) = Lift(entries'[k])
      BY <3>1, ValueStored
    <3> QED
      BY <1>2, <3>2, MapIsValue, Zenon
  <2>8. Map'[k] = [Map[k] EXCEPT !.exp = at]
    <3>1. Map'[k] = [val |-> entries'[k].val, exp |-> entries'[k].expires_at]
      BY <2>6, <2>7, LiftFacts, Zenon
    <3>2. Map[k] = [val |-> entries[k].val, exp |-> entries[k].expires_at]
      BY <1>2, <2>4, LiftFacts, Zenon
    <3>3. entries'[k].val = entries[k].val /\ entries'[k].expires_at = at
      BY <2>4, <2>5, Zenon DEF Entry
    <3> HIDE DEF at, k, r
    <3> QED
      BY <3>1, <3>2, <3>3
  <2>9. \A j \in Keys \ {k} : Map'[j] = Map[j]
    BY <2>2, <2>5, MapStays, Zenon
  <2> DEFINE f == [Map EXCEPT ![k].exp = at]
  <2>10. f = [j \in Keys |-> f[j]] /\ \A j \in Keys : Map'[j] = f[j]
    <3>1. Map = [j \in Keys |-> Map[j]]
      BY DEF Map
    <3> HIDE DEF at
    <3> QED
      BY <1>2, <2>8, <2>9, <3>1, Zenon
  <2> HIDE DEF f
  <2>11. Map' = f
    BY <2>10, MapExt
  <2>12. Map' = Abstract!After(r, Abstract!Without(Map, {}), call[p].t, now)
    BY <2>3, <2>11, WithoutNothing, Zenon DEF f
  <2> QED
    BY <1>1, <1>3, <2>2, <2>12, TakesEffect
<1> QED
  BY <1>8, <1>9, <1>10, <1>11, Zenon DEF expire_at

-----------------------------------------------------------------------------
(* Scans.                                                                  *)

\* The steps of a scan: its caller stays idle, expired entries vanish.
LEMMA ScanRefines ==
  ASSUME StoreInv, LinearInv, NEW p \in Threads, config_' = config_,
         keys(p) \/ export_snapshot_entries(p) \/ active_expire_cycle(p)
  PROVE  [Abstract!AbsNext]_(Abstract!absVars)
<1>1. /\ call[p].pc = "called" /\ call[p].req.op \in Scans
      /\ \E gone, result, rest : /\ gone \subseteq Expired(entries, call[p].t)
                                 /\ gone \subseteq InShard(NextShard(p))
                                 /\ VisitShard(p, gone, result, rest)
  BY Zenon DEF keys, export_snapshot_entries, active_expire_cycle, Collect, Scans
<1>2. PICK gone, result, rest : /\ gone \subseteq Expired(entries, call[p].t)
                                /\ gone \subseteq InShard(NextShard(p))
                                /\ VisitShard(p, gone, result, rest)
  BY <1>1, Zenon
<1>3. /\ lock[NextShard(p)] = Nobody /\ entries' = Drop(entries, gone) /\ now' = now
      /\ \E pc : call' = [call EXCEPT ![p].todo = rest, ![p].res = result, ![p].pc = pc]
  BY <1>2, Zenon DEF VisitShard, Unlocked, erase_expired_locked
<1>4. /\ Moves(p) /\ call'[p].req = call[p].req
      /\ \A q \in Threads : call'[q].taken = call[q].taken
  <2>1. call = [q \in Threads |-> call[q]] /\ IsCall(call[p])
    BY Zenon DEF StoreInv, CallInv
  <2>2. PICK pc : call' = [call EXCEPT ![p].todo = rest, ![p].res = result, ![p].pc = pc]
    BY <1>3, Zenon
  <2>3. call'[p].req = call[p].req /\ call'[p].taken = call[p].taken
    BY <2>1, <2>2, Zenon DEF IsCall
  <2>4. Moves(p) /\ \A q \in Threads \ {p} : call'[q] = call[q]
    BY <2>1, <2>2, Zenon DEF Moves
  <2> QED
    BY <2>3, <2>4, Zenon
<1>5. Pending' = Pending
  <2>1. PendingOf(call'[p]) = [state |-> "idle"] /\ PendingOf(call[p]) = [state |-> "idle"]
    BY <1>1, <1>4, Zenon DEF PendingOf
  <2> QED
    BY <1>4, <2>1, PendingStays, Zenon
<1>6. gone \subseteq Expired(entries, now)
  BY <1>2, ClockOfCall, ExpiredLater, Zenon DEF StoreInv
<1>7. \A k \in gone : \A q \in Threads : \A x \in call[q].taken : x[1] # k
  <2>1. ASSUME NEW k \in gone PROVE k \in Keys /\ lock[shard_index[k]] = Nobody
    BY <1>2, <1>3, <2>1, Zenon DEF InShard
  <2>2. call[p].taken = {}
    BY <1>1, Zenon DEF LinearInv, TakenOf
  <2> QED
    BY <2>1, <2>2, NotTaken, Zenon
<1>8. Map' = Abstract!Without(Map, gone) /\ gone \in SUBSET Abstract!Due(Map, now)
  BY <1>3, <1>4, <1>6, <1>7, MapDrops, Zenon
<1> QED
  BY <1>3, <1>5, <1>8, Vanishes, Zenon

-----------------------------------------------------------------------------
(* EXISTS and DEL of several keys.                                         *)

\* A multi-key command at work: its clock, its keys, and what it has counted.
LEMMA AtWork ==
  ASSUME StoreInv, LinearInv, NEW p \in Threads, call[p].pc = "work"
  PROVE  /\ call[p].req.op \in Locking /\ call[p].req.keys \subseteq Keys
         /\ call[p].todo \subseteq call[p].req.keys
         /\ \A j \in call[p].req.keys : lock[shard_index[j]] = p
         /\ call[p].req.op # "del" => call[p].taken = {}
         /\ \A x \in call[p].taken : x[1] \in Processed(p)
         /\ Counted(p) \subseteq Processed(p) /\ call[p].res = Cardinality(Counted(p))
<1>1. /\ call[p].req.op \in Locking /\ call[p].req.keys \subseteq Keys
  BY RequestFacts, Zenon DEF StoreInv, CallInv
<1>2. LocksOf(p) /\ TakenOf(p) /\ CountOf(p)
  BY Zenon DEF LinearInv
<1>3. /\ call[p].todo \subseteq call[p].req.keys
      /\ \A j \in call[p].req.keys : lock[shard_index[j]] = p
  BY <1>2, Zenon DEF LocksOf
<1>4. /\ call[p].req.op # "del" => call[p].taken = {}
      /\ \A x \in call[p].taken : x[1] \in Processed(p)
  BY <1>2, Zenon DEF TakenOf
<1>5. Counted(p) \subseteq Processed(p)
  BY <1>4, Zenon DEF Counted
<1> QED
  BY <1>1, <1>2, <1>3, <1>4, <1>5, Zenon DEF CountOf

\* A key of its that it has not taken out is as it is stored.
LEMMA OwnKey ==
  ASSUME StoreInv, LinearInv, NEW p \in Threads, call[p].pc = "work",
         NEW j \in call[p].req.keys, \A x \in call[p].taken : x[1] # j
  PROVE  /\ j \in Keys /\ Map[j] = Lift(entries[j])
         /\ \A q \in Threads : \A x \in call[q].taken : x[1] # j
<1>1. j \in Keys /\ lock[shard_index[j]] = p
  BY AtWork, Zenon
<1>2. \A q \in Threads : \A x \in call[q].taken : x[1] # j
  BY <1>1, NotTaken, Zenon
<1> QED
  BY <1>1, <1>2, MapStored, Zenon

\* It has counted the keys that are alive in the abstract map.
LEMMA CountedAlive ==
  ASSUME StoreInv, LinearInv, NEW p \in Threads, call[p].pc = "work", NEW j \in Processed(p)
  PROVE  Abstract!Alive(Map[j], call[p].t) <=> j \in Counted(p)
<1>0. j \in call[p].req.keys /\ j \in Keys /\ call[p].t \in Int
  BY AtWork, ClockOfCall, Zenon DEF Processed
<1>1. ASSUME NEW y \in call[p].taken, y[1] = j
      PROVE  Abstract!Alive(Map[j], call[p].t) /\ j \in Counted(p)
  <2>1. y[2] \in Entry /\ y[2].expires_at > call[p].t /\ call[p].req.op = "del"
    BY <1>1, Zenon DEF LinearInv, TakenOf
  <2>2. Map[j] = Lift(y[2])
    BY <1>1, MapTaken, Zenon
  <2>3. Map[j] # Absent /\ Map[j].exp = y[2].expires_at
    BY <2>1, <2>2, LiftFacts, Zenon
  <2>4. j \in Counted(p)
    BY <1>1, <2>1, Zenon DEF Counted
  <2> QED
    BY <2>1, <2>3, <2>4, Zenon DEF Abstract!Alive
<1>2. CASE \A x \in call[p].taken : x[1] # j
  <2>1. Map[j] = Lift(entries[j])
    BY <1>0, <1>2, OwnKey, Zenon
  <2>2. Abstract!Alive(Map[j], call[p].t) <=> j \in Live(entries, call[p].t)
    BY <1>0, <2>1, AliveIsLive, Zenon
  <2>3. CASE call[p].req.op = "del"
    <3>1. entries[j] = Absent
      BY <2>3, Zenon DEF LinearInv, TakenOf
    <3>2. j \notin Live(entries, call[p].t)
      BY <3>1, Zenon DEF Live, Present
    <3>3. j \notin Counted(p)
      BY <1>2, <2>3, Zenon DEF Counted
    <3> QED
      BY <2>2, <3>2, <3>3, Zenon
  <2>4. CASE call[p].req.op # "del"
    BY <2>2, <2>4, Zenon DEF Counted
  <2> QED
    BY <2>3, <2>4, Zenon
<1> QED
  BY <1>1, <1>2, Zenon

\* What a multi-key command answers.
LEMMA AnswerOfMany ==
  ASSUME NEW r, NEW m, NEW t, r.op \in {"exists", "del"}
  PROVE  Abstract!Answer(r, m, t) = Cardinality({j \in r.keys : Abstract!Alive(m[j], t)})
<1>1. Abstract!Answer(r, m, t) = Abstract!Cardinality({j \in r.keys : Abstract!Alive(m[j], t)})
  BY Zenon DEF Abstract!Answer
<1>2. \A S : Abstract!Cardinality(S) = Cardinality(S)
  BY Zenon DEF Abstract!Cardinality, Cardinality
<1> QED
  BY <1>1, <1>2, Zenon

\* What it answers after its last key is the number of its keys that are alive
\* in the abstract map.
LEMMA LastAnswer ==
  ASSUME StoreInv, LinearInv, NEW p \in Threads, call[p].pc = "work",
         NEW k \in call[p].req.keys, call[p].todo = {k}
  PROVE  Abstract!Answer(call[p].req, Map, call[p].t)
           = IF k \in Live(entries, call[p].t) THEN call[p].res + 1 ELSE call[p].res
<1> DEFINE t == call[p].t
           alive == {j \in call[p].req.keys : Abstract!Alive(Map[j], t)}
           counted == Counted(p)
           hit == k \in Live(entries, t)
<1>1. Processed(p) = call[p].req.keys \ {k}
  BY Zenon DEF Processed
<1>2. \A j \in Processed(p) : j \in alive <=> j \in counted
  BY <1>1, CountedAlive, Zenon
<1>3. k \in alive <=> hit
  <2>1. \A x \in call[p].taken : x[1] # k
    BY <1>1, AtWork, Zenon
  <2>2. k \in Keys /\ Map[k] = Lift(entries[k]) /\ t \in Int
    BY <2>1, OwnKey, ClockOfCall, Zenon
  <2> QED
    BY <2>2, AliveIsLive, Zenon
<1>4. counted \subseteq Processed(p) /\ call[p].res = Cardinality(counted) /\ counted \subseteq Keys
  BY AtWork, Zenon DEF Processed
<1>5. Abstract!Answer(call[p].req, Map, t) = Cardinality(alive)
  <2>1. call[p].req.op \in {"exists", "del"}
    BY AtWork, Zenon DEF Locking
  <2> QED
    BY <2>1, AnswerOfMany
<1>6. alive \subseteq call[p].req.keys
  BY Zenon
<1> HIDE DEF alive, counted, hit, t
<1>7. alive = IF hit THEN counted \cup {k} ELSE counted
  BY <1>1, <1>2, <1>3, <1>4, <1>6
<1>8. k \notin counted /\ IsFiniteSet(counted)
  BY <1>1, <1>4, DistinctValues, FS_Subset, Zenon
<1>9. Cardinality(counted \cup {k}) = Cardinality(counted) + 1
  BY <1>8, FS_AddElement, Zenon
<1>10. Abstract!Answer(call[p].req, Map, t) = IF hit THEN call[p].res + 1 ELSE call[p].res
  BY <1>4, <1>5, <1>7, <1>9, Zenon
<1> QED
  BY <1>10, Zenon DEF hit, t

\* What WorkOnKey does to the entries.
LEMMA WorkEffect ==
  ASSUME StoreInv, NEW p \in Threads, NEW k \in Keys, WorkOnKey(p, k)
  PROVE  /\ call[p].pc = "work" /\ k \in call[p].todo /\ now' = now
         /\ \A j \in Keys \ {k} : entries'[j] = entries[j]
         /\ \/ entries' = entries /\ (entries[k] = Absent
                                      \/ (k \in Live(entries, call[p].t) /\ call[p].req.op # "del"))
            \/ k \in Expired(entries, call[p].t) /\ entries' = Drop(entries, {k})
            \/ /\ k \in Live(entries, call[p].t) /\ call[p].req.op = "del"
               /\ entries' = Drop(entries, {k})
<1>1. /\ call[p].pc = "work" /\ k \in call[p].todo /\ now' = now
      /\ \/ entries' = entries /\ (entries[k] = Absent
                                   \/ (k \in Live(entries, call[p].t) /\ call[p].req.op = "exists"))
         \/ k \in Expired(entries, call[p].t) /\ entries' = Drop(entries, {k})
         \/ /\ k \in Live(entries, call[p].t) /\ call[p].req.op = "del"
            /\ entries' = Drop(entries, {k})
  BY Zenon DEF WorkOnKey, UnchangedStore, erase_expired_locked
<1>2. \A j \in Keys \ {k} : entries'[j] = entries[j]
  BY <1>1, Zenon DEF Drop
<1> QED
  BY <1>1, <1>2, Zenon

\* One key of an EXISTS or a DEL, the last one excepted.
LEMMA WorkGoesOn ==
  ASSUME StoreInv, LinearInv, NEW p \in Threads, NEW k \in Keys, WorkOnKey(p, k),
         Moves(p), call[p].todo # {k}
  PROVE  [Abstract!AbsNext]_(Abstract!absVars)
<1> DEFINE hit == k \in Live(entries, call[p].t)
<1>1. call[p].pc = "work" /\ k \in call[p].todo /\ now' = now
  BY WorkEffect, Zenon
<1>2. k \in call[p].req.keys /\ \A x \in call[p].taken : x[1] # k
  BY <1>1, AtWork DEF Processed
<1>3. /\ Map[k] = Lift(entries[k])
      /\ \A q \in Threads : \A x \in call[q].taken : x[1] # k
  BY <1>1, <1>2, OwnKey, Zenon
<1>4. /\ call'[p].req = call[p].req /\ call'[p].since = call[p].since /\ call'[p].pc = "work"
      /\ call'[p].taken = (IF hit /\ call[p].req.op = "del"
                           THEN call[p].taken \cup {<<k, entries[k]>>} ELSE call[p].taken)
  BY WorkFields, Zenon
<1>5. Pending' = Pending
  <2>1. PendingOf(call'[p]) = PendingOf(call[p])
    BY <1>1, <1>4, Zenon DEF PendingOf
  <2> QED
    BY <2>1, PendingStays, Zenon
<1>6. \A q \in Threads \ {p} : call'[q] = call[q]
  BY Zenon DEF Moves, StoreInv
<1>7. ASSUME ~(hit /\ call[p].req.op = "del")
      PROVE  \A q \in Threads : call'[q].taken = call[q].taken
  BY <1>4, <1>6, <1>7, Zenon
<1>8. CASE entries' = entries /\ (entries[k] = Absent \/ (hit /\ call[p].req.op # "del"))
  <2>1. ~(hit /\ call[p].req.op = "del")
    BY <1>8, Zenon DEF Live, Present
  <2>2. Map' = Map
    BY <1>7, <1>8, <2>1, MapSame, Zenon
  <2> QED
    BY <1>1, <1>5, <2>2, Stutters, Zenon
<1>9. CASE k \in Expired(entries, call[p].t) /\ entries' = Drop(entries, {k})
  <2>1. ~hit
    BY <1>9, Zenon DEF Live
  <2>2. {k} \subseteq Expired(entries, now)
    BY <1>9, ClockOfCall, ExpiredLater, Zenon DEF StoreInv
  <2>3. Map' = Abstract!Without(Map, {k}) /\ {k} \in SUBSET Abstract!Due(Map, now)
    BY <1>3, <1>7, <1>9, <2>1, <2>2, MapDrops, Zenon
  <2> QED
    BY <1>1, <1>5, <2>3, Vanishes, Zenon
<1>10. CASE hit /\ call[p].req.op = "del" /\ entries' = Drop(entries, {k})
  <2> DEFINE e == entries[k]
  <2>1. call'[p].taken = call[p].taken \cup {<<k, e>>}
    BY <1>4, <1>10, Zenon
  <2>2. /\ <<k, e>> \in call'[p].taken
        /\ \A q \in Threads : \A x \in call'[q].taken : x[1] = k => x = <<k, e>>
    BY <1>3, <1>6, <2>1, Zenon
  <2>3. Map'[k] = Map[k]
    <3> HIDE DEF e
    <3>1. Map'[k] = Lift(e)
      BY <2>2, MapIsValue, ValueTaken
    <3> QED
      BY <1>3, <3>1, Zenon DEF e
  <2>4. ASSUME NEW j \in Keys \ {k} PROVE Map'[j] = Map[j]
    <3>1. <<k, e>>[1] = k
      BY Zenon
    <3>2. \A q \in Threads : \A x : x[1] = j => (x \in call'[q].taken <=> x \in call[q].taken)
      BY <1>6, <2>1, <2>4, <3>1, Zenon
    <3>3. entries'[j] = entries[j]
      BY <1>10, Zenon DEF Drop
    <3> QED
      BY <3>2, <3>3, MapStays, Zenon
  <2>5. Map = [j \in Keys |-> Map[j]]
    BY Zenon DEF Map
  <2>6. Map' = Map
    BY <2>3, <2>4, <2>5, MapExt, Zenon
  <2> QED
    BY <1>1, <1>5, <2>6, Stutters
<1> QED
  BY <1>8, <1>9, <1>10, WorkEffect, Zenon

\* The last key: the command takes effect.
LEMMA WorkEnds ==
  ASSUME StoreInv, LinearInv, NEW p \in Threads, NEW k \in Keys, WorkOnKey(p, k),
         Moves(p), call[p].todo = {k}
  PROVE  [Abstract!AbsNext]_(Abstract!absVars)
<1> DEFINE hit == k \in Live(entries, call[p].t)
           r == call[p].req
<1>1. call[p].pc = "work" /\ k \in call[p].todo /\ now' = now /\ k \in r.keys
  BY WorkEffect, AtWork, Zenon
<1>2. \A x \in call[p].taken : x[1] # k
  BY <1>1, AtWork, Zenon DEF Processed
<1>3. /\ Map[k] = Lift(entries[k])
      /\ \A q \in Threads : \A x \in call[q].taken : x[1] # k
  BY <1>1, <1>2, OwnKey, Zenon
<1>4. /\ call'[p].req = r /\ call'[p].pc = "done" /\ call'[p].taken = {}
      /\ call'[p].res = (IF hit THEN call[p].res + 1 ELSE call[p].res)
  BY WorkFields, Zenon
<1>5. call'[p].res = Abstract!Answer(r, Map, call[p].t)
  BY <1>1, <1>4, LastAnswer, Zenon
<1>6. \A q \in Threads \ {p} : call'[q] = call[q]
  BY Zenon DEF Moves, StoreInv
<1>7. /\ call[p].t \in call[p].since .. now /\ r.op \in Locking
      /\ r.op \notin Scans /\ r.op \notin {"set", "expire"} /\ {} \in SUBSET Abstract!Due(Map, now)
      /\ call[p].pc \in {"called", "recheck", "work"}
  BY <1>1, ClockOfCall, AtWork, Zenon DEF Scans, Locking
<1>8. CASE r.op # "del"
  <2>1. \A q \in Threads : call'[q].taken = call[q].taken
    BY <1>1, <1>4, <1>6, <1>8, AtWork, Zenon
  <2>2. \A m : Abstract!After(r, m, call[p].t, call[p].t) = m
    <3>1. r.op \in Reads \cup {"exists"}
      BY <1>7, <1>8, Zenon DEF Locking
    <3> QED
      BY <3>1, AfterRead
  <2>3. \E gone \in SUBSET Abstract!Due(Map, now) : Map' = Abstract!Without(Map, gone)
    <3>1. CASE entries' = entries
      <4>1. Map' = Map
        BY <2>1, <3>1, MapSame, Zenon
      <4> QED
        BY <1>7, <4>1, WithoutNothing, Zenon
    <3>2. CASE k \in Expired(entries, call[p].t) /\ entries' = Drop(entries, {k})
      <4>1. {k} \subseteq Expired(entries, now)
        BY <3>2, ClockOfCall, ExpiredLater, Zenon DEF StoreInv
      <4> QED
        BY <1>3, <2>1, <3>2, <4>1, MapDrops, Zenon
    <3> QED
      BY <1>8, <3>1, <3>2, WorkEffect, Zenon
  <2>4. PICK gone \in SUBSET Abstract!Due(Map, now) : Map' = Abstract!Without(Map, gone)
    BY <2>3, Zenon
  <2>5. Map' = Abstract!After(r, Abstract!Without(Map, gone), call[p].t, call[p].t)
    BY <2>2, <2>4, Zenon
  <2> QED
    BY <1>1, <1>4, <1>5, <1>7, <2>5, TakesEffect, Zenon
<1>9. CASE r.op = "del"
  <2>1. ASSUME NEW j \in r.keys PROVE Map'[j] = Absent /\ j \in Keys
    <3>1. j \in Keys /\ lock[shard_index[j]] = p
      BY <1>1, <2>1, AtWork, Zenon
    <3>2. entries'[j] = Absent
      <4>1. CASE j = k
        BY <1>9, <3>1, <4>1, WorkEffect, Zenon DEF Drop
      <4>2. CASE j # k
        <5>1. j \in Processed(p)
          BY <2>1, <4>2, Zenon DEF Processed
        <5>2. entries[j] = Absent
          BY <1>1, <1>9, <5>1 DEF LinearInv, TakenOf
        <5> QED
          BY <3>1, <4>2, <5>2, WorkEffect, Zenon
      <4> QED
        BY <4>1, <4>2, Zenon
    <3>3. \A q \in Threads : \A x \in call'[q].taken : x[1] # j
      <4> SUFFICES ASSUME NEW q \in Threads, q # p, NEW x \in call[q].taken, x[1] = j PROVE FALSE
        BY <1>4, <1>6, Zenon
      <4>1. call[q].pc = "work" /\ x[1] \in Processed(q)
        BY Zenon DEF LinearInv, TakenOf
      <4>2. lock[shard_index[j]] = q
        BY <4>1, Zenon DEF LinearInv, LocksOf, Processed
      <4> QED
        BY <3>1, <4>2, Zenon
    <3>4. Map'[j] = Lift(entries'[j])
      BY <3>1, <3>3, MapIsValue, ValueStored
    <3> QED
      BY <3>1, <3>2, <3>4, Zenon DEF Lift
  <2>2. ASSUME NEW j \in Keys \ r.keys PROVE Map'[j] = Map[j]
    <3>1. entries'[j] = entries[j]
      BY <1>1, <2>2, WorkEffect, Zenon
    <3>2. \A x \in call[p].taken : x[1] # j
      BY <1>1, <2>2, AtWork DEF Processed
    <3>3. \A q \in Threads : \A x : x[1] = j => (x \in call'[q].taken <=> x \in call[q].taken)
      BY <1>4, <1>6, <3>2, Zenon
    <3> QED
      BY <3>1, <3>3, MapStays, Zenon
  <2> DEFINE f == Abstract!Without(Map, r.keys)
  <2>3. f = [j \in Keys |-> IF j \in r.keys THEN Absent ELSE Map[j]]
    BY Zenon DEF Abstract!Without
  <2> HIDE DEF f
  <2>4. f = [j \in Keys |-> f[j]] /\ \A j \in Keys : Map'[j] = f[j]
    BY <2>1, <2>2, <2>3, Zenon
  <2>5. Map' = f
    BY <2>4, MapExt, Zenon
  <2>6. Abstract!After(r, Map, call[p].t, call[p].t) = Abstract!Without(Map, r.keys)
    BY <1>9, Zenon DEF Abstract!After
  <2>7. Map' = Abstract!After(r, Abstract!Without(Map, {}), call[p].t, call[p].t)
    BY <2>5, <2>6, WithoutNothing, Zenon DEF f
  <2> QED
    BY <1>1, <1>4, <1>5, <1>7, <2>7, TakesEffect, Zenon
<1> QED
  BY <1>8, <1>9, Zenon

-----------------------------------------------------------------------------
(* The other steps, and the theorem.                                       *)

\* Locking a mutex, reading the clock, and everything else about a call that
\* its caller does not see.
LEMMA UnseenStep ==
  ASSUME StoreInv, LinearInv, NEW p \in Threads, lock_mutexes_in_order(p) \/ AllLocked(p)
  PROVE  [Abstract!AbsNext]_(Abstract!absVars)
<1>1. /\ call = [q \in Threads |-> call[q]] /\ IsCall(call[p])
  BY Zenon DEF StoreInv, CallInv
<1>2. /\ call[p].pc = "called" /\ call[p].req.op \in Locking /\ now' = now /\ entries' = entries
      /\ \/ \E todo : call' = [call EXCEPT ![p].todo = todo]
         \/ \E t, todo : call' = [call EXCEPT ![p].pc = "work", ![p].t = t, ![p].todo = todo,
                                              ![p].res = 0]
  BY Zenon DEF lock_mutexes_in_order, LockOne, AllLocked, ReadClock, UnchangedStore
<1>3. /\ call'[p].pc \in {"called", "work"} /\ call'[p].req = call[p].req
      /\ call'[p].since = call[p].since /\ call'[p].taken = call[p].taken
  <2>1. CASE \E todo : call' = [call EXCEPT ![p].todo = todo]
    BY <1>1, <1>2, <2>1, Zenon DEF IsCall
  <2>2. CASE \E t, todo : call' = [call EXCEPT ![p].pc = "work", ![p].t = t, ![p].todo = todo,
                                              ![p].res = 0]
    BY <1>1, <2>2 DEF IsCall
  <2> QED
    BY <1>2, <2>1, <2>2, Zenon
<1>4. Moves(p) /\ \A q \in Threads \ {p} : call'[q] = call[q]
  BY <1>1, <1>2, Zenon DEF Moves
<1>5. Pending' = Pending
  <2>1. PendingOf(call'[p]) = PendingOf(call[p])
    BY <1>2, <1>3, Zenon DEF PendingOf
  <2> QED
    BY <1>4, <2>1, PendingStays, Zenon
<1>6. Map' = Map
  BY <1>2, <1>3, <1>4, MapSame, Zenon
<1> QED
  BY <1>2, <1>5, <1>6, Stutters, Zenon

\* A command begins: the caller of a scan stays idle.
LEMMA BeginRefines ==
  ASSUME StoreInv, LinearInv, NEW p \in Threads, NEW r \in Requests, Begin(p, r)
  PROVE  [Abstract!AbsNext]_(Abstract!absVars)
<1>1. /\ call = [q \in Threads |-> call[q]] /\ call[p].pc = "idle" /\ now' = now
      /\ entries' = entries
  BY Zenon DEF Begin, Start, UnchangedStore, StoreInv
<1>2. /\ Moves(p) /\ call'[p].pc = "called" /\ call'[p].req = r /\ call'[p].since = now
      /\ call'[p].taken = {}
  <2>1. PICK todo, res :
          call' = [call EXCEPT ![p] = [pc |-> "called", req |-> r, t |-> now, since |-> now,
                                       taken |-> {}, todo |-> todo, res |-> res]]
    BY Zenon DEF Begin, Start
  <2> QED
    BY <1>1, <2>1, Zenon DEF Moves
<1>3. call[p].taken = {}
  BY <1>1, Zenon DEF LinearInv, TakenOf
<1>4. Map' = Map
  <2>1. \A q \in Threads : call'[q].taken = call[q].taken
    BY <1>1, <1>2, <1>3, Zenon DEF Moves
  <2> QED
    BY <1>1, <2>1, MapSame, Zenon
<1>5. Pending[p] = [state |-> "idle"] /\ Pending[p] = PendingOf(call[p])
  BY <1>1, Zenon DEF Pending, PendingOf
<1>6. CASE r.op \in Scans
  <2>1. PendingOf(call'[p]) = PendingOf(call[p])
    BY <1>2, <1>5, <1>6, Zenon DEF PendingOf
  <2>2. Pending' = Pending
    BY <1>2, <2>1, PendingStays, Zenon
  <2> QED
    BY <1>1, <1>4, <2>2, Stutters, Zenon
<1>7. CASE r.op \notin Scans
  <2>1. PendingOf(call'[p]) = [state |-> "called", req |-> r, since |-> now]
    BY <1>2, <1>7, Zenon DEF PendingOf
  <2>2. Pending' = [Pending EXCEPT ![p] = PendingOf(call'[p])]
    BY <1>1, <1>2, Zenon DEF Pending, Moves
  <2>3. Abstract!Call(p, r)
    BY <1>1, <1>4, <1>5, <2>1, <2>2, Zenon DEF Abstract!Call, Abstract!Idle
  <2> QED
    BY <2>3, Zenon DEF Abstract!AbsNext
<1> QED
  BY <1>6, <1>7, Zenon

\* A command returns.
LEMMA ReturnRefines ==
  ASSUME StoreInv, LinearInv, NEW p \in Threads, Return(p)
  PROVE  [Abstract!AbsNext]_(Abstract!absVars)
<1>1. /\ call = [q \in Threads |-> call[q]] /\ call[p].pc = "done" /\ now' = now
      /\ entries' = entries /\ call' = [call EXCEPT ![p] = Inactive]
  BY Zenon DEF Return, UnchangedStore, StoreInv
<1>2. Moves(p) /\ call'[p].pc = "idle" /\ call'[p].taken = {}
  BY <1>1, Zenon DEF Moves, Inactive
<1>3. call[p].taken = {}
  BY <1>1, Zenon DEF LinearInv, TakenOf
<1>4. Map' = Map
  <2>1. \A q \in Threads : call'[q].taken = call[q].taken
    BY <1>1, <1>2, <1>3, Zenon
  <2> QED
    BY <1>1, <2>1, MapSame, Zenon
<1>5. PendingOf(call'[p]) = [state |-> "idle"]
  BY <1>2, Zenon DEF PendingOf
<1>6. CASE call[p].req.op \in Scans
  <2>1. PendingOf(call'[p]) = PendingOf(call[p])
    BY <1>5, <1>6, Zenon DEF PendingOf
  <2>2. Pending' = Pending
    BY <1>2, <2>1, PendingStays, Zenon
  <2> QED
    BY <1>1, <1>4, <2>2, Stutters, Zenon
<1>7. CASE call[p].req.op \notin Scans
  <2>1. Pending[p].state = "done"
    BY <1>1, <1>7, Zenon DEF Pending, PendingOf
  <2>2. Pending' = [Pending EXCEPT ![p] = PendingOf(call'[p])]
    BY <1>1, <1>2, Zenon DEF Pending, Moves
  <2>3. Abstract!Return(p)
    BY <1>1, <1>4, <1>5, <2>1, <2>2, Zenon DEF Abstract!Return, Abstract!Idle
  <2> QED
    BY <2>3, Zenon DEF Abstract!AbsNext
<1> QED
  BY <1>6, <1>7, Zenon

\* Every step implements a step of the abstract store, or none.
LEMMA StepRefines ==
  StoreInv /\ LinearInv /\ [Next]_vars => [Abstract!AbsNext]_(Abstract!absVars)
<1> SUFFICES ASSUME StoreInv, LinearInv, [Next]_vars PROVE [Abstract!AbsNext]_(Abstract!absVars)
  BY Zenon
<1>1. ASSUME UNCHANGED <<call, entries>> PROVE Pending' = Pending /\ Map' = Map
  <2>1. Pending' = Pending
    BY <1>1, Zenon DEF Pending
  <2> QED
    BY <1>1, <2>1, MapSame, Zenon
<1>2. CASE UNCHANGED vars
  BY <1>1, <1>2, Stutters, Zenon DEF vars
<1>3. CASE Tick
  <2>1. Pending' = Pending /\ Map' = Map
    BY <1>1, <1>3, Zenon DEF Tick, UnchangedStore
  <2>2. Abstract!AbsTick
    BY <1>3, <2>1, Zenon DEF Tick, Abstract!AbsTick
  <2> QED
    BY <2>2, Zenon DEF Abstract!AbsNext
<1>4. ASSUME NEW p \in Threads, Progress(p), config_' = config_ PROVE [Abstract!AbsNext]_(Abstract!absVars)
  <2>1. Moves(p)
    BY <1>4, ProgressKeepsCall, Zenon
  <2>2. ASSUME NEW k \in Keys, WorkOnKey(p, k) PROVE [Abstract!AbsNext]_(Abstract!absVars)
    BY <2>1, <2>2, WorkGoesOn, WorkEnds, Zenon
  <2> QED
    BY <1>4, <2>2, ReadRefines, SetRefines, ExpireRefines, UnseenStep, ScanRefines, ReturnRefines, SMTT(30)
    DEF Progress
<1>5. ASSUME NEW p \in Threads, NEW r \in Requests, Begin(p, r) PROVE [Abstract!AbsNext]_(Abstract!absVars)
  BY <1>5, BeginRefines, Zenon
<1> QED
  BY <1>2, <1>3, <1>4, <1>5, Zenon DEF Next, Track

\* At the start nothing is locked or taken out.
LEMMA LinearInit == Init => LinearInv
<1> SUFFICES ASSUME Init PROVE LinearInv
  BY Zenon
<1>1. lock = [s \in Shards |-> Nobody] /\ call = [p \in Threads |-> Inactive]
  BY Zenon DEF Init
<1>2. ASSUME NEW p \in Threads PROVE LocksOf(p) /\ TakenOf(p) /\ CountOf(p)
  <2>1. /\ call[p].pc = "idle" /\ call[p].taken = {} /\ call[p].since = 0 /\ call[p].t = 0
    BY <1>1, Zenon DEF Inactive
  <2>2. \A s \in Shards : lock[s] # p
    BY <1>1, StoreAssumption, Zenon
  <2> QED
    BY <2>1, <2>2 DEF LocksOf, TakenOf, CountOf
<1> QED
  BY <1>1, <1>2, Zenon DEF LinearInv

\* The entries that recovery imported are an abstract map.
LEMMA InitRefines == Init => Abstract!AbsInit
<1> SUFFICES ASSUME Init PROVE Abstract!AbsInit
  OBVIOUS
<1>1. StoreInv /\ LinearInv
  BY StoreInit, LinearInit, Zenon
<1>2. Pending = [p \in Threads |-> [state |-> "idle"]]
  BY Zenon DEF Init, Pending, PendingOf, Inactive
<1>3. ASSUME NEW k \in Keys PROVE Map[k] \in [val : Nat, exp : 1 .. Never] \cup {Absent}
  <2>1. \A q \in Threads : \A x \in call[q].taken : x[1] # k
    BY Zenon DEF Init, Inactive
  <2>2. Map[k] = Lift(entries[k])
    BY <1>1, <2>1, MapStored, Zenon
  <2>3. CASE entries[k] = Absent
    BY <2>2, <2>3, Zenon DEF Lift
  <2>4. ASSUME NEW v \in Values, NEW at \in {1, Never}, entries[k] = NewEntry(v, at),
               entries[k] # Absent
        PROVE  Map[k] \in [val : Nat, exp : 1 .. Never] \cup {Absent}
    <3>1. Lift(entries[k]) = [val |-> v, exp |-> at]
      BY <2>4 DEF Lift, NewEntry
    <3>2. v \in Nat /\ at \in 1 .. Never
      BY StoreAssumption
    <3> QED
      BY <2>2, <3>1, <3>2
  <2> QED
    BY <2>3, <2>4 DEF Init
<1>4. Map \in [Keys -> [val : Nat, exp : 1 .. Never] \cup {Absent}]
  <2>1. Map = [k \in Keys |-> Map[k]]
    BY Zenon DEF Map
  <2> QED
    BY <1>3, <2>1, Zenon
<1> QED
  BY <1>2, <1>4, Zenon DEF Abstract!AbsInit, Abstract!Idle, Init

\* Every single- and multi-key command takes effect atomically between its call
\* and its return, at a clock reading from in between, whatever the number of
\* threads, shards and keys, the deadlines and the interleaving.
THEOREM StoreIsLinearizable == Spec => Linearizable
<1>1. Init => StoreInv /\ LinearInv /\ Abstract!AbsInit
  BY StoreInit, LinearInit, InitRefines, Zenon
<1>2. StoreInv /\ LinearInv /\ [Next]_vars => StoreInv' /\ LinearInv'
  BY StoreNext, LinearNext, Zenon
<1>3. StoreInv /\ LinearInv /\ [Next]_vars => [Abstract!AbsNext]_(Abstract!absVars)
  BY StepRefines, Zenon
<1> QED
  BY <1>1, <1>2, <1>3, PTL DEF Spec, Linearizable, Abstract!AbsSpec

=============================================================================
