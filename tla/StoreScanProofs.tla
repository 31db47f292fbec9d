-------------------------- MODULE StoreScanProofs ---------------------------
(***************************************************************************)
(* Proofs about Store, for any number of threads, shards and keys: the     *)
(* counter of memory and the types, the scans KEYS and export, and the     *)
(* order in which mutexes are locked.                                      *)
(***************************************************************************)
EXTENDS StoreProofs, WellFoundedInduction

-----------------------------------------------------------------------------
(* used_memory is the size of the entries.                                 *)

\* The bytes of the entries ks of m, one by one.
Cells(m, ks) == UNION {{k} \X (1 .. m[k].stored_bytes) : k \in ks}

\* They are finitely many.
LEMMA CellsFinite ==
  ASSUME NEW m \in [Keys -> Entry \cup {Absent}], NEW ks \in SUBSET Present(m)
  PROVE  /\ IsFiniteSet(Cells(m, ks)) /\ BytesOf(m, ks) = Cardinality(Cells(m, ks))
         /\ BytesOf(m, ks) \in Nat
<1>1. IsFiniteSet(ks) /\ ks \subseteq Keys
  BY DistinctValues, FS_Subset, Zenon DEF Present
<1> DEFINE f == [k \in ks |-> {k} \X (1 .. m[k].stored_bytes)]
           T == {{k} \X (1 .. m[k].stored_bytes) : k \in ks}
<1>2. f \in Surjection(ks, T)
  <2>1. f \in [ks -> T]
    BY Zenon
  <2>2. \A t \in T : \E k \in ks : f[k] = t
    BY Zenon
  <2> QED
    BY <2>1, <2>2, Zenon DEF Surjection
<1>3. IsFiniteSet(T)
  <2> HIDE DEF f, T
  <2> QED
    BY <1>1, <1>2, FS_Surjection, Zenon
<1>4. ASSUME NEW k \in ks PROVE IsFiniteSet({k} \X (1 .. m[k].stored_bytes))
  <2>1. m[k].stored_bytes \in Int /\ 1 \in Int
    BY <1>1 DEF Present, Entry
  <2>2. IsFiniteSet(1 .. m[k].stored_bytes) /\ IsFiniteSet({k})
    BY <2>1, FS_Interval, FS_Singleton, Zenon
  <2> QED
    BY <2>2, FS_Product, Zenon
<1>5. \A t \in T : IsFiniteSet(t)
  BY <1>4, Zenon
<1>6. Cells(m, ks) = UNION T
  BY Zenon DEF Cells
<1>7. IsFiniteSet(Cells(m, ks))
  <2> HIDE DEF T
  <2> QED
    BY <1>3, <1>5, <1>6, FS_UNION, Zenon
<1>8. BytesOf(m, ks) = Cardinality(Cells(m, ks))
  BY Zenon DEF BytesOf, Cells
<1> QED
  BY <1>7, <1>8, FS_CardinalityType, Zenon

\* The size of one entry, and of none.
LEMMA BytesOfOne ==
  ASSUME NEW m \in [Keys -> Entry \cup {Absent}]
  PROVE  /\ BytesOf(m, {}) = 0
         /\ \A k \in Present(m) : BytesOf(m, {k}) = m[k].stored_bytes
<1>1. BytesOf(m, {}) = 0
  <2>1. UNION {{k} \X (1 .. m[k].stored_bytes) : k \in {}} = {}
    BY Zenon
  <2> QED
    BY <2>1, FS_EmptySet, Zenon DEF BytesOf
<1>2. ASSUME NEW k \in Present(m) PROVE BytesOf(m, {k}) = m[k].stored_bytes
  <2> DEFINE n == m[k].stored_bytes
  <2>1. n \in Nat
    BY Zenon DEF Present, Entry
  <2>2. UNION {{j} \X (1 .. m[j].stored_bytes) : j \in {k}} = {k} \X (1 .. n)
    BY Zenon
  <2>3. BytesOf(m, {k}) = Cardinality({k} \X (1 .. n))
    BY <2>2, Zenon DEF BytesOf
  <2> HIDE DEF n
  <2>4. 1 \in Int /\ n \in Int
    BY <2>1
  <2>5. IsFiniteSet(1 .. n) /\ Cardinality(1 .. n) = IF 1 > n THEN 0 ELSE n - 1 + 1
    BY <2>4, FS_Interval, Zenon
  <2>6. Cardinality(1 .. n) = n
    BY <2>1, <2>5
  <2>7. IsFiniteSet({k}) /\ Cardinality({k}) = 1
    BY FS_Singleton, Zenon
  <2>8. Cardinality({k} \X (1 .. n)) = Cardinality({k}) * Cardinality(1 .. n)
    BY <2>5, <2>7, FS_Product, Zenon
  <2>9. Cardinality({k}) * Cardinality(1 .. n) = n
    BY <2>1, <2>6, <2>7
  <2> QED
    BY <2>3, <2>8, <2>9, Zenon DEF n
<1> QED
  BY <1>1, <1>2, Zenon

\* The sizes of two parts add up.
LEMMA BytesSplit ==
  ASSUME NEW m \in [Keys -> Entry \cup {Absent}], NEW ks \in SUBSET Present(m), NEW js \in SUBSET ks
  PROVE  BytesOf(m, ks) = BytesOf(m, js) + BytesOf(m, ks \ js)
<1> DEFINE A == Cells(m, js)
           B == Cells(m, ks \ js)
<1>1. IsFiniteSet(A) /\ IsFiniteSet(B)
  BY CellsFinite, Zenon
<1>2. Cells(m, ks) = A \cup B
  BY Zenon DEF Cells
<1>3. A \cap B = {}
  <2>1. ASSUME NEW x \in A, x \in B PROVE FALSE
    <3>1. PICK i \in js : x \in {i} \X (1 .. m[i].stored_bytes)
      BY Zenon DEF Cells
    <3>2. PICK j \in ks \ js : x \in {j} \X (1 .. m[j].stored_bytes)
      BY <2>1, Zenon DEF Cells
    <3> QED
      BY <3>1, <3>2, Zenon
  <2> QED
    BY <2>1, Zenon
<1>4. /\ BytesOf(m, ks) = Cardinality(A \cup B) /\ BytesOf(m, js) = Cardinality(A)
      /\ BytesOf(m, ks \ js) = Cardinality(B)
      /\ BytesOf(m, js) \in Nat /\ BytesOf(m, ks \ js) \in Nat
  BY <1>2, CellsFinite, Zenon
<1> HIDE DEF A, B
<1>5. Cardinality(A \cup B) = Cardinality(A) + Cardinality(B) - Cardinality({})
  BY <1>1, <1>3, FS_Union, Zenon
<1>6. Cardinality({}) = 0
  BY FS_EmptySet, Zenon
<1> QED
  BY <1>4, <1>5, <1>6

\* The size of entries that stay the same.
LEMMA BytesSame ==
  ASSUME NEW m, NEW n, NEW ks, \A k \in ks : m[k] = n[k]
  PROVE  BytesOf(m, ks) = BytesOf(n, ks)
<1>1. {{k} \X (1 .. m[k].stored_bytes) : k \in ks} = {{k} \X (1 .. n[k].stored_bytes) : k \in ks}
  BY Zenon
<1> QED
  BY <1>1, Zenon DEF BytesOf

\* The size of the entry of k, if there is one.
Size(m, k) == IF m[k] = Absent THEN 0 ELSE m[k].stored_bytes

\* It is a number, the size of what m has of k.
LEMMA SizeFacts ==
  ASSUME NEW m \in [Keys -> Entry \cup {Absent}], NEW k \in Keys
  PROVE  Size(m, k) \in Nat /\ BytesOf(m, Present(m) \cap {k}) = Size(m, k)
<1>1. CASE m[k] = Absent
  <2>1. Present(m) \cap {k} = {} /\ Size(m, k) = 0
    BY <1>1, Zenon DEF Present, Size
  <2>2. BytesOf(m, {}) = 0 /\ 0 \in Nat
    BY BytesOfOne, Zenon
  <2> QED
    BY <2>1, <2>2, Zenon
<1>2. CASE m[k] # Absent
  <2>1. Present(m) \cap {k} = {k} /\ k \in Present(m) /\ Size(m, k) = m[k].stored_bytes
    BY <1>2 DEF Present, Size
  <2>2. m[k].stored_bytes \in Nat
    BY <1>2, Zenon DEF Entry
  <2>3. BytesOf(m, {k}) = m[k].stored_bytes
    BY <2>1, BytesOfOne, Zenon
  <2> QED
    BY <2>1, <2>2, <2>3, Zenon
<1> QED
  BY <1>1, <1>2, Zenon

\* The entry of k, and no other, changes, and the counter by as much.
Resizes(k) ==
  /\ entries' \in [Keys -> Entry \cup {Absent}]
  /\ \A j \in Keys \ {k} : entries'[j] = entries[j]
  /\ approximate_memory_' = approximate_memory_ - Size(entries, k) + Size(entries', k)

\* Taking out a live entry.
LEMMA TakeOutResizes ==
  ASSUME StoreInv, approximate_memory_ \in Nat, NEW k \in Keys, NEW t,
         k \in Live(entries, t), entries' = Drop(entries, {k}),
         approximate_memory_' = approximate_memory_ - entries[k].stored_bytes
  PROVE  Resizes(k)
<1>1. entries' \in [Keys -> Entry \cup {Absent}] /\ entries \in [Keys -> Entry \cup {Absent}]
  BY DropType, Zenon DEF StoreInv
<1>2. /\ \A j \in Keys \ {k} : entries'[j] = entries[j]
      /\ entries'[k] = Absent /\ entries[k] # Absent
  BY Zenon DEF Drop, Live, Present
<1>3. Size(entries, k) = entries[k].stored_bytes /\ Size(entries', k) = 0
  BY <1>2, Zenon DEF Size
<1>4. Size(entries, k) \in Nat
  BY <1>1, SizeFacts, Zenon
<1>5. approximate_memory_ - Size(entries, k) + 0 = approximate_memory_ - Size(entries, k)
  BY <1>4
<1> QED
  BY <1>1, <1>2, <1>3, <1>5, Zenon DEF Resizes

\* SET.
LEMMA SetResizes ==
  ASSUME StoreInv, NEW p \in Threads, set(p)
  PROVE  \E k \in Keys : Resizes(k)
<1> DEFINE k == Key(p)
           v == call[p].req.val
<1>1. call[p].pc = "called" /\ call[p].req.op = "set" /\ call[p].req \in Requests
  BY Zenon DEF set, Overwrite, StoreInv, CallInv
<1>2. k \in Keys /\ v \in Values
  BY <1>1, KeyOfCall, RequestFacts, Zenon
<1>3. NewEntry(v, Never) \in Entry
  BY <1>2, NewEntryType, Zenon
<1>4. /\ entries' = [entries EXCEPT ![k] = NewEntry(v, Never)]
      /\ approximate_memory_' =
           approximate_memory_ - BytesOf(entries, Present(entries) \cap {k}) + estimate_bytes(v)
  BY Zenon DEF set, Overwrite
<1> HIDE DEF k, v
<1>5. entries \in [Keys -> Entry \cup {Absent}]
  BY Zenon DEF StoreInv
<1>6. /\ entries' \in [Keys -> Entry \cup {Absent}] /\ entries'[k] = NewEntry(v, Never)
      /\ entries'[k] # Absent /\ \A j \in Keys \ {k} : entries'[j] = entries[j]
  BY <1>2, <1>3, <1>4, <1>5, DistinctValues, Zenon
<1>7. BytesOf(entries, Present(entries) \cap {k}) = Size(entries, k)
  BY <1>2, <1>5, SizeFacts, Zenon
<1>8. Size(entries', k) = estimate_bytes(v)
  <2>1. NewEntry(v, Never).stored_bytes = estimate_bytes(v)
    BY Zenon DEF NewEntry
  <2> QED
    BY <1>6, <2>1, Zenon DEF Size
<1> QED
  BY <1>2, <1>4, <1>6, <1>7, <1>8, Zenon DEF Resizes

\* EXPIRE.
LEMMA ExpireResizes ==
  ASSUME StoreInv, approximate_memory_ \in Nat, NEW p \in Threads, expire_at(p)
  PROVE  UnchangedStore \/ Erases \/ \E k \in Keys : Resizes(k)
<1> DEFINE k == Key(p)
           at == call[p].t + call[p].req.ttl
<1>1. /\ call[p].pc = "called" /\ call[p].req.op = "expire" /\ call[p].req \in Requests
      /\ call[p].t \in 0 .. now /\ now \in 0 .. MaxTime
  BY Zenon DEF expire_at, StoreInv, CallInv
<1>2. k \in Keys /\ call[p].req.ttl \in Ttls
  BY <1>1, KeyOfCall, RequestFacts, Zenon
<1>3. at \in 0 .. Never
  <2>1. call[p].t \in 0 .. MaxTime
    BY <1>1, NaturalConstants
  <2> QED
    BY <1>2, <2>1, DeadlineType, Zenon
<1>4. CASE UnchangedStore
  BY <1>4, Zenon
<1>5. CASE k \in Expired(entries, now) /\ erase_expired_locked({k})
  BY <1>5, Zenon DEF Erases
<1>6. CASE /\ k \in Live(entries, now) /\ entries' = Drop(entries, {k})
           /\ approximate_memory_' = approximate_memory_ - entries[k].stored_bytes
  <2> HIDE DEF k
  <2> QED
    BY <1>2, <1>6, TakeOutResizes, Zenon
<1>7. CASE /\ k \in Live(entries, now) /\ entries' = [entries EXCEPT ![k].expires_at = at]
           /\ approximate_memory_' = approximate_memory_
  <2> HIDE DEF k, at
  <2>1. /\ entries[k] # Absent /\ entries[k] \in Entry
        /\ entries \in [Keys -> Entry \cup {Absent}]
    BY <1>2, <1>7, Zenon DEF Live, Present, StoreInv
  <2>2. /\ [entries[k] EXCEPT !.expires_at = at] \in Entry
        /\ [entries[k] EXCEPT !.expires_at = at].stored_bytes = entries[k].stored_bytes
    BY <1>3, <2>1, Zenon DEF Entry
  <2>3. entries' = [entries EXCEPT ![k] = [entries[k] EXCEPT !.expires_at = at]]
    BY <1>7, Zenon
  <2>4. /\ entries' \in [Keys -> Entry \cup {Absent}] /\ entries'[k] # Absent
        /\ entries'[k].stored_bytes = entries[k].stored_bytes
        /\ \A j \in Keys \ {k} : entries'[j] = entries[j]
    BY <1>2, <2>1, <2>2, <2>3, DistinctValues, Zenon
  <2>5. Size(entries', k) = Size(entries, k) /\ Size(entries, k) \in Nat
    BY <1>2, <2>1, <2>4, SizeFacts, Zenon DEF Size
  <2>6. approximate_memory_' = approximate_memory_ - Size(entries, k) + Size(entries', k)
    BY <1>7, <2>5
  <2> QED
    BY <1>2, <2>4, <2>6, Zenon DEF Resizes
<1> QED
  BY <1>4, <1>5, <1>6, <1>7, Zenon DEF expire_at

\* EXISTS and DEL on one key.
LEMMA WorkResizes ==
  ASSUME StoreInv, approximate_memory_ \in Nat, NEW p \in Threads, NEW k \in Keys, WorkOnKey(p, k)
  PROVE  UnchangedStore \/ Erases \/ Resizes(k)
<1>1. /\ call[p].t \in 0 .. now /\ now \in 0 .. MaxTime
      /\ entries \in [Keys -> Entry \cup {Absent}]
  BY Zenon DEF WorkOnKey, StoreInv, CallInv
<1>2. Expired(entries, call[p].t) \subseteq Expired(entries, now)
  BY <1>1, ExpiredLater, StoreAssumption
<1>3. CASE UnchangedStore
  BY <1>3, Zenon
<1>4. CASE k \in Expired(entries, call[p].t) /\ erase_expired_locked({k})
  BY <1>2, <1>4, Zenon DEF Erases
<1>5. CASE /\ k \in Live(entries, call[p].t) /\ entries' = Drop(entries, {k})
           /\ approximate_memory_' = approximate_memory_ - entries[k].stored_bytes
  BY <1>5, TakeOutResizes, Zenon
<1> QED
  BY <1>3, <1>4, <1>5, Zenon DEF WorkOnKey

\* Every step keeps the counter equal to the size of the entries.
LEMMA MemoryNext ==
  StoreInv /\ MemoryIsAccounted /\ [Next]_vars => MemoryIsAccounted'
<1> SUFFICES ASSUME StoreInv, MemoryIsAccounted, [Next]_vars PROVE MemoryIsAccounted'
  BY Zenon
<1> DEFINE here == Present(entries)
<1>1. entries \in [Keys -> Entry \cup {Absent}]
  BY Zenon DEF StoreInv
<1>2. approximate_memory_ = BytesOf(entries, here) /\ approximate_memory_ \in Nat
  BY <1>1, CellsFinite, Zenon DEF MemoryIsAccounted
<1>3. CASE UnchangedStore
  BY <1>2, <1>3, Zenon DEF UnchangedStore, MemoryIsAccounted, Present
<1>4. CASE Erases
  <2>1. PICK ks \in SUBSET Expired(entries, now) : erase_expired_locked(ks)
    BY <1>4, Zenon DEF Erases
  <2>2. ks \in SUBSET here
    BY Zenon DEF Expired
  <2>3. /\ entries' = Drop(entries, ks)
        /\ approximate_memory_' = approximate_memory_ - BytesOf(entries, ks)
    BY <2>1, Zenon DEF erase_expired_locked
  <2>4. Present(entries') = here \ ks /\ \A k \in here \ ks : entries'[k] = entries[k]
    BY <1>1, <2>3, Zenon DEF Drop, Present
  <2>5. BytesOf(entries, here) = BytesOf(entries, ks) + BytesOf(entries, here \ ks)
    <3>1. here \in SUBSET Present(entries)
      BY Zenon
    <3> QED
      BY <1>1, <2>2, <3>1, BytesSplit, Zenon
  <2>6. BytesOf(entries', here \ ks) = BytesOf(entries, here \ ks)
    BY <2>4, BytesSame, ZenonT(30)
  <2>7. BytesOf(entries, ks) \in Nat /\ BytesOf(entries, here \ ks) \in Nat
    <3>1. here \ ks \in SUBSET here
      BY Zenon
    <3> QED
      BY <1>1, <2>2, <3>1, CellsFinite, Zenon
  <2>8. approximate_memory_' = BytesOf(entries, here \ ks)
    BY <1>2, <2>3, <2>5, <2>7
  <2> QED
    BY <2>4, <2>6, <2>8, Zenon DEF MemoryIsAccounted
<1>5. ASSUME NEW k \in Keys, Resizes(k) PROVE MemoryIsAccounted'
  <2> DEFINE there == Present(entries')
             rest == here \ {k}
  <2>1. /\ entries' \in [Keys -> Entry \cup {Absent}]
        /\ \A j \in Keys \ {k} : entries'[j] = entries[j]
        /\ approximate_memory_' = approximate_memory_ - Size(entries, k) + Size(entries', k)
    BY <1>5, Zenon DEF Resizes
  <2>2. /\ here \ (here \cap {k}) = rest /\ there \ (there \cap {k}) = rest
        /\ rest \in SUBSET here /\ rest \subseteq Keys
        /\ here \cap {k} \in SUBSET here /\ there \cap {k} \in SUBSET there
        /\ here \in SUBSET Present(entries) /\ there \in SUBSET Present(entries')
        /\ \A j \in rest : entries'[j] = entries[j]
    BY <2>1, Zenon DEF Present
  <2>3. BytesOf(entries, here) = BytesOf(entries, here \cap {k}) + BytesOf(entries, rest)
    <3> HIDE DEF here, there, rest
    <3>1. BytesOf(entries, here)
            = BytesOf(entries, here \cap {k}) + BytesOf(entries, here \ (here \cap {k}))
      BY <1>1, <2>2, BytesSplit
    <3> QED
      BY <2>2, <3>1, Zenon
  <2>4. BytesOf(entries', there) = BytesOf(entries', there \cap {k}) + BytesOf(entries', rest)
    <3> HIDE DEF here, there, rest
    <3>1. BytesOf(entries', there)
            = BytesOf(entries', there \cap {k}) + BytesOf(entries', there \ (there \cap {k}))
      BY <2>1, <2>2, BytesSplit
    <3> QED
      BY <2>2, <3>1, Zenon
  <2>5. BytesOf(entries', rest) = BytesOf(entries, rest)
    BY <2>2, BytesSame, ZenonT(30)
  <2>6. /\ BytesOf(entries, here \cap {k}) = Size(entries, k) /\ Size(entries, k) \in Nat
        /\ BytesOf(entries', there \cap {k}) = Size(entries', k) /\ Size(entries', k) \in Nat
    BY <1>1, <2>1, SizeFacts, Zenon
  <2>7. BytesOf(entries, rest) \in Nat
    BY <1>1, <2>2, CellsFinite, Zenon
  <2> HIDE DEF here, there, rest
  <2>8. approximate_memory_' = BytesOf(entries', there)
    BY <1>2, <2>1, <2>3, <2>4, <2>5, <2>6, <2>7
  <2> QED
    BY <2>8, Zenon DEF MemoryIsAccounted, there
<1>6. CASE UNCHANGED vars
  BY <1>3, <1>6, Zenon DEF vars, UnchangedStore
<1>7. CASE Next
  <2>1. ASSUME NEW p \in Threads, MayWrite(p) PROVE MemoryIsAccounted'
    <3>1. UnchangedStore \/ Erases \/ \E k \in Keys : Resizes(k)
      BY <1>2, <2>1, SetResizes, ExpireResizes, WorkResizes, Zenon DEF MayWrite
    <3> QED
      BY <1>3, <1>4, <1>5, <3>1, Zenon
  <2> QED
    BY <1>3, <1>4, <1>7, <2>1, StoreCases, Zenon
<1> QED
  BY <1>6, <1>7, Zenon

\* used_memory is the size of the entries at all times, so the subtractions
\* from the unsigned counter never wrap around.
THEOREM MemoryIsExact == Spec => []MemoryIsAccounted
<1>1. Init => MemoryIsAccounted
  BY DEF Init, MemoryIsAccounted
<1> QED
  BY <1>1, StoreInit, StoreNext, MemoryNext, PTL DEF Spec

-----------------------------------------------------------------------------
(* The types of all the state.                                             *)

\* The locks, the work that is left of a call, and the number of calls.
LockType ==
  /\ lock \in [Shards -> Threads \cup {Nobody}] /\ calls \in Nat
  /\ \A p \in Threads : call[p].todo \subseteq Shards \cup Keys

\* A call has less and less to do, until it starts over with its keys.
LEMMA ProgressLockType ==
  ASSUME StoreInv, LockType, NEW p \in Threads, Progress(p)
  PROVE  /\ lock' \in [Shards -> Threads \cup {Nobody}] /\ calls' = calls
         /\ call'[p].todo \subseteq Shards \cup Keys
<1>a. /\ call = [q \in Threads |-> call[q]] /\ IsCall(call[p])
      /\ call[p].todo \subseteq Shards \cup Keys /\ lock \in [Shards -> Threads \cup {Nobody}]
      /\ call[p].pc # "idle" => call[p].req.keys \subseteq Keys
  BY RequestFacts, Zenon DEF StoreInv, CallInv, LockType
<1>1. CASE ReadShared(p)
  <2>1. lock' = lock /\ calls' = calls /\ call'[p].todo = call[p].todo
    BY <1>1, <1>a DEF ReadShared, Finish, IsCall
  <2> QED
    BY <1>a, <2>1, Zenon
<1>2. CASE ReadUnique(p)
  <2>1. lock' = lock /\ calls' = calls /\ call'[p].todo = call[p].todo
    BY <1>2, <1>a DEF ReadUnique, Recheck, Finish, IsCall
  <2> QED
    BY <1>a, <2>1
<1>3. CASE set(p)
  <2>1. lock' = lock /\ calls' = calls /\ call'[p].todo = call[p].todo
    BY <1>3, <1>a, Zenon DEF set, Overwrite, Finish, IsCall
  <2> QED
    BY <1>a, <2>1
<1>4. CASE expire_at(p)
  <2>1. lock' = lock /\ calls' = calls /\ call'[p].todo = call[p].todo
    BY <1>4, <1>a DEF expire_at, Finish, IsCall
  <2> QED
    BY <1>a, <2>1
<1>5. CASE lock_mutexes_in_order(p)
  <2>1. PICK s : /\ lock' = [lock EXCEPT ![s] = p] /\ calls' = calls
                 /\ call' = [call EXCEPT ![p].todo = @ \ {s}]
    BY <1>5, Zenon DEF lock_mutexes_in_order, LockOne
  <2>2. call'[p].todo = call[p].todo \ {s}
    BY <1>a, <2>1, Zenon DEF IsCall
  <2> QED
    BY <1>a, <2>1, <2>2, Zenon
<1>6. CASE AllLocked(p)
  <2>1. /\ call[p].pc # "idle" /\ lock' = lock /\ calls' = calls
        /\ call' = [call EXCEPT ![p].pc = "work", ![p].t = now, ![p].todo = call[p].req.keys,
                                ![p].res = 0]
    BY <1>6, Zenon DEF AllLocked, ReadClock
  <2>2. call'[p].todo = call[p].req.keys
    BY <1>a, <2>1, Zenon DEF IsCall
  <2> QED
    BY <1>a, <2>1, <2>2, Zenon
<1>7. ASSUME NEW k \in Keys, WorkOnKey(p, k)
      PROVE  /\ lock' \in [Shards -> Threads \cup {Nobody}] /\ calls' = calls
             /\ call'[p].todo \subseteq Shards \cup Keys
  <2>1. call'[p].todo = call[p].todo \ {k} /\ calls' = calls
    BY <1>7, <1>a, Zenon DEF WorkOnKey, IsCall
  <2>2. \/ lock' = lock
        \/ lock' = [s \in Shards |-> IF lock[s] = p THEN Nobody ELSE lock[s]]
    BY <1>7, Zenon DEF WorkOnKey
  <2> QED
    BY <1>a, <2>1, <2>2, Zenon
<1>8. ASSUME NEW gone, NEW result, VisitShard(p, gone, result, call[p].todo \ {NextShard(p)})
      PROVE  lock' = lock /\ calls' = calls /\ call'[p].todo = call[p].todo \ {NextShard(p)}
  BY <1>8, <1>a, Zenon DEF VisitShard, IsCall
<1>9. CASE keys(p) \/ export_snapshot_entries(p) \/ active_expire_cycle(p)
  <2>1. lock' = lock /\ calls' = calls /\ call'[p].todo = call[p].todo \ {NextShard(p)}
    BY <1>8, <1>9, Zenon DEF keys, export_snapshot_entries, active_expire_cycle, Collect
  <2> QED
    BY <1>a, <2>1, Zenon
<1>10. CASE Return(p)
  <2>1. lock' = lock /\ calls' = calls /\ call'[p] = Inactive
    BY <1>10, <1>a, Zenon DEF Return
  <2>2. Inactive.todo = {}
    BY Zenon DEF Inactive
  <2> QED
    BY <1>a, <2>1, <2>2, Zenon
<1> QED
  BY <1>1, <1>2, <1>3, <1>4, <1>5, <1>6, <1>7, <1>9, <1>10, Zenon DEF Progress

\* Every step keeps these types.
LEMMA LockTypeNext == StoreInv /\ LockType /\ [Next]_vars => LockType'
<1> SUFFICES ASSUME StoreInv, LockType, [Next]_vars PROVE LockType'
  BY Zenon
<1>1. CASE UNCHANGED vars
  BY <1>1, Zenon DEF vars, LockType
<1>2. CASE Tick
  BY <1>2, Zenon DEF Tick, LockType
<1>3. ASSUME NEW p \in Threads, Moves(p), lock' \in [Shards -> Threads \cup {Nobody}],
             calls' \in Nat, call'[p].todo \subseteq Shards \cup Keys
      PROVE  LockType'
  <2>1. \A q \in Threads \ {p} : call'[q] = call[q]
    BY <1>3, Zenon DEF Moves, StoreInv
  <2> QED
    BY <1>3, <2>1, Zenon DEF LockType
<1>4. ASSUME NEW p \in Threads, NEW r \in Requests, Begin(p, r), config_' = config_
      PROVE  LockType'
  <2>1. /\ lock' = lock /\ calls' = calls + 1
        /\ call' = [call EXCEPT ![p] =
             [pc |-> "called", req |-> r, t |-> now, since |-> now, taken |-> {},
              todo |-> IF r.op \in Scans THEN Shards ELSE {shard_index[k] : k \in r.keys},
              res |-> IF r.op = "keys" THEN {} ELSE IF r.op = "export" THEN Drop(entries, Keys)
                      ELSE NoResult]]
    BY <1>4, Zenon DEF Begin, Start
  <2>2. call'[p].todo = (IF r.op \in Scans THEN Shards ELSE {shard_index[k] : k \in r.keys})
    BY <2>1, Zenon DEF StoreInv
  <2>3. {shard_index[k] : k \in r.keys} \subseteq Shards
    BY RequestFacts, StoreAssumption
  <2>4. Moves(p)
    BY <1>4, BeginKeepsCall, Zenon
  <2> QED
    BY <1>3, <2>1, <2>2, <2>3, <2>4 DEF LockType
<1>5. ASSUME NEW p \in Threads, Progress(p), config_' = config_ PROVE LockType'
  <2>1. calls \in Nat
    BY Zenon DEF LockType
  <2> QED
    BY <1>3, <1>5, <2>1, ProgressLockType, ProgressKeepsCall, Zenon
<1>6. CASE Next
  <2>1. config_' = config_
    BY <1>6, Zenon DEF Next, Track
  <2> QED
    BY <1>2, <1>4, <1>5, <1>6, <2>1, Zenon DEF Next
<1> QED
  BY <1>1, <1>6, Zenon

\* All the state keeps its type; what is counted never falls below zero.
THEOREM StoreIsWellTyped == Spec => []TypeOK
<1>1. Init => LockType /\ MemoryIsAccounted
  <2> SUFFICES ASSUME Init PROVE LockType /\ MemoryIsAccounted
    BY Zenon
  <2>1. Inactive.todo = {}
    BY Zenon DEF Inactive
  <2> QED
    BY <2>1, Zenon DEF Init, LockType, MemoryIsAccounted
<1>2. StoreInv /\ LockType /\ MemoryIsAccounted => TypeOK
  <2> SUFFICES ASSUME StoreInv, LockType, MemoryIsAccounted PROVE TypeOK
    BY Zenon
  <2>1. approximate_memory_ \in Nat
    <3>1. entries \in [Keys -> Entry \cup {Absent}] /\ Present(entries) \in SUBSET Present(entries)
      BY Zenon DEF StoreInv
    <3> QED
      BY <3>1, CellsFinite, Zenon DEF MemoryIsAccounted
  <2>2. \A p \in Threads :
          /\ call[p].pc \in {"idle", "called", "recheck", "work", "done"}
          /\ call[p].req \in Requests \cup {NoRequest}
          /\ call[p].t \in 0 .. now /\ call[p].todo \subseteq Shards \cup Keys
    BY Zenon DEF StoreInv, CallInv, LockType
  <2> QED
    BY <2>1, <2>2, Zenon DEF TypeOK, StoreInv, LockType
<1> QED
  BY <1>1, <1>2, StoreInit, StoreNext, LockTypeNext, MemoryNext, PTL DEF Spec

-----------------------------------------------------------------------------
(* Scans among running commands.                                           *)

\* A KEYS in progress has reported the keys that stay, in the shards it has visited.
ScanInv ==
  \A p \in Threads :
    call[p].pc \in {"called", "done"} /\ call[p].req.op = "keys" =>
      /\ call[p].res \subseteq seen[p]
      /\ \A k \in steady[p] : k \in call[p].res \/ shard_index[k] \in call[p].todo

\* The engine mutex admits one command.
MutexInv ==
  \A p, q \in Threads :
    call[p].pc # "idle" /\ call[q].pc # "idle" /\ Durable(call[p].req) /\ Durable(call[q].req)
      => p = q

\* What an export has collected, and will collect, of a key.
Exported(p, k) == IF shard_index[k] \in call[p].todo THEN entries[k] ELSE call[p].res[k]

\* It is what was there at the beginning, or an expired entry is missing.
ExportInv ==
  \A p \in Threads :
    call[p].pc \in {"called", "done"} /\ call[p].req.op = "export" =>
      \A k \in Keys :
        /\ Exported(p, k) # cut[k] => Exported(p, k) = Absent /\ is_expired(cut[k], now)
        /\ shard_index[k] \in call[p].todo => call[p].res[k] = Absent

\* Only its own steps change a KEYS or an export.
LEMMA OtherCommands ==
  ASSUME StoreInv, NEW p \in Threads, Progress(p)
  PROVE  \/ keys(p) \/ export_snapshot_entries(p) \/ (Return(p) /\ call'[p].pc = "idle")
         \/ call'[p].req = call[p].req /\ call[p].req.op \notin {"keys", "export"}
<1>a. call = [q \in Threads |-> call[q]] /\ CallInv(call[p])
  BY Zenon DEF StoreInv
<1> USE DEF CallInv, IsCall
<1>1. CASE ReadShared(p)
  BY <1>1, <1>a DEF ReadShared, Finish, Reads
<1>2. CASE ReadUnique(p)
  BY <1>2, <1>a DEF ReadUnique, Recheck, Finish, Reads
<1>3. CASE set(p)
  BY <1>3, <1>a, Zenon DEF set, Overwrite, Finish
<1>4. CASE expire_at(p)
  BY <1>4, <1>a DEF expire_at, Finish
<1>5. CASE lock_mutexes_in_order(p)
  BY <1>5, <1>a, Zenon DEF lock_mutexes_in_order, LockOne, Locking
<1>6. CASE AllLocked(p)
  BY <1>6, <1>a, Zenon DEF AllLocked, ReadClock, Locking
<1>7. ASSUME NEW k \in Keys, WorkOnKey(p, k)
      PROVE  call'[p].req = call[p].req /\ call[p].req.op \notin {"keys", "export"}
  BY <1>7, <1>a, Zenon DEF WorkOnKey, Locking
<1>8. CASE active_expire_cycle(p)
  BY <1>8, <1>a DEF active_expire_cycle, VisitShard
<1>9. CASE Return(p)
  BY <1>9, <1>a, Zenon DEF Return, Inactive
<1> QED
  BY <1>1, <1>2, <1>3, <1>4, <1>5, <1>6, <1>7, <1>8, <1>9, Zenon DEF Progress

\* What a scan meets in the shard it visits: expired entries and others.
Gone(p) == Expired(entries, call[p].t) \cap (Present(entries) \cap InShard(NextShard(p)))
\* The keys that a scan reports of its next shard.
Found(p) == (Present(entries) \cap InShard(NextShard(p))) \ Gone(p)

\* One shard of a scan.
LEMMA CollectStep ==
  ASSUME StoreInv, NEW p \in Threads, Collect(p, call[p].todo \ {NextShard(p)})
  PROVE  /\ entries' = Drop(entries, Gone(p)) /\ now' = now
         /\ call'[p].req = call[p].req /\ call'[p].todo = call[p].todo \ {NextShard(p)}
         /\ call[p].req.op = "keys" => call'[p].res = call[p].res \cup Found(p)
         /\ call[p].req.op = "export" =>
              call'[p].res = [k \in Keys |-> IF k \in Found(p) THEN entries[k] ELSE call[p].res[k]]
<1> DEFINE rest == call[p].todo \ {NextShard(p)}
           result == IF call[p].req.op = "keys" THEN call[p].res \cup Found(p)
                     ELSE [k \in Keys |-> IF k \in Found(p) THEN entries[k] ELSE call[p].res[k]]
<1>1. VisitShard(p, Gone(p), result, rest)
  BY Zenon DEF Collect, Gone, Found
<1> HIDE DEF rest, result
<1>2. /\ call' = [call EXCEPT ![p].todo = rest, ![p].res = result,
                              ![p].pc = IF rest = {} THEN "done" ELSE "called"]
      /\ entries' = Drop(entries, Gone(p)) /\ now' = now
  BY <1>1, Zenon DEF VisitShard, erase_expired_locked
<1>3. call'[p].req = call[p].req /\ call'[p].todo = rest /\ call'[p].res = result
  BY <1>2 DEF StoreInv, CallInv, IsCall
<1> QED
  BY <1>2, <1>3, Zenon DEF rest, result

\* What one KEYS in progress promises.
ScanOf(p) ==
  call[p].pc \in {"called", "done"} /\ call[p].req.op = "keys" =>
    /\ call[p].res \subseteq seen[p]
    /\ \A k \in steady[p] : k \in call[p].res \/ shard_index[k] \in call[p].todo

\* Other commands take keys from those that stay, and add to those seen.
LEMMA ScanStays ==
  ASSUME StoreInv, Track, NEW p \in Threads, ScanOf(p), call'[p] = call[p]
  PROVE  ScanOf(p)'
<1> SUFFICES ASSUME call[p].pc \in {"called", "done"}, call[p].req.op = "keys" PROVE ScanOf(p)'
  BY Zenon DEF ScanOf
<1>1. call[p].req # NoRequest /\ call[p].pc # "idle"
  BY DistinctValues, Zenon DEF StoreInv, CallInv
<1>2. steady'[p] \subseteq steady[p] /\ seen[p] \subseteq seen'[p]
  BY <1>1, Zenon DEF Track
<1> QED
  BY <1>2, Zenon DEF ScanOf

\* A KEYS finds every key that stays in the shard it visits.
LEMMA ScanVisits ==
  ASSUME StoreInv, Track, NEW p \in Threads, ScanOf(p), keys(p)
  PROVE  ScanOf(p)'
<1>1. call[p].pc = "called" /\ call[p].req.op = "keys" /\ Collect(p, call[p].todo \ {NextShard(p)})
  BY Zenon DEF keys
<1>2. /\ entries' = Drop(entries, Gone(p)) /\ call'[p].req = call[p].req
      /\ call'[p].todo = call[p].todo \ {NextShard(p)}
      /\ call'[p].res = call[p].res \cup Found(p)
  BY Zenon, <1>1, CollectStep
<1>3. call[p].req # NoRequest
  BY <1>1, DistinctValues, Zenon DEF StoreInv, CallInv
<1>4. /\ steady'[p] \subseteq steady[p] \cap Present(entries')
      /\ seen'[p] = seen[p] \cup Present(entries')
  BY <1>1, <1>2, <1>3, Zenon DEF Track, Live
<1>5. Found(p) \subseteq Present(entries')
  BY <1>2, Zenon DEF Found, Drop, Present
<1>6. ASSUME NEW k \in Present(entries'), shard_index[k] = NextShard(p) PROVE k \in Found(p)
  BY <1>2, <1>6, Zenon DEF Found, Gone, Drop, Present, InShard
<1> QED
  BY <1>1, <1>2, <1>4, <1>5, <1>6, Zenon DEF ScanOf

\* A KEYS begins with all shards to visit.
LEMMA ScanBegins ==
  ASSUME StoreInv, Track, NEW p \in Threads, NEW r \in Requests, Begin(p, r)
  PROVE  ScanOf(p)'
<1> SUFFICES ASSUME r.op = "keys" PROVE ScanOf(p)'
  BY Zenon DEF Begin, Start, StoreInv, ScanOf
<1>1. /\ call[p].pc = "idle" /\ call'[p].res = {} /\ call'[p].todo = Shards /\ call'[p].req = r
  BY Zenon DEF Begin, Start, StoreInv, Scans
<1>2. steady'[p] \subseteq Keys
  BY <1>1, Zenon DEF Track, Live, Present
<1> QED
  BY <1>1, <1>2, StoreAssumption, Zenon DEF ScanOf

\* Every step keeps the promise of every KEYS in progress.
LEMMA ScanNext == StoreInv /\ ScanInv /\ [Next]_vars => ScanInv'
<1> SUFFICES ASSUME StoreInv, ScanInv, [Next]_vars, NEW q \in Threads PROVE ScanOf(q)'
  BY Zenon DEF ScanInv, ScanOf
<1>a. ScanOf(q)
  BY Zenon DEF ScanInv, ScanOf
<1>1. CASE UNCHANGED vars
  BY <1>1, <1>a, Zenon DEF vars, ScanOf
<1>2. CASE Next
  <2>a. Track /\ config_' = config_
    BY <1>2, Zenon DEF Next, Track
  <2>1. CASE Tick
    BY <2>1, <2>a, <1>a, ScanStays, Zenon DEF Tick
  <2>2. ASSUME NEW p \in Threads, Moves(p), p # q PROVE ScanOf(q)'
    <3>1. call'[q] = call[q]
      BY <2>2, Zenon DEF Moves, StoreInv
    <3> QED
      BY <2>a, <3>1, <1>a, ScanStays, Zenon
  <2>3. ASSUME NEW r \in Requests, Begin(q, r) PROVE ScanOf(q)'
    BY <2>a, <2>3, ScanBegins, Zenon
  <2>4. CASE Progress(q)
    <3>1. CASE keys(q)
      BY <2>a, <3>1, <1>a, ScanVisits, Zenon
    <3>2. CASE export_snapshot_entries(q)
      <4>1. call[q].req.op = "export" /\ call'[q].req = call[q].req
        BY <3>2, CollectStep, Zenon DEF export_snapshot_entries
      <4> QED
        BY <4>1, Zenon DEF ScanOf
    <3> QED
      BY <2>4, <3>1, <3>2, OtherCommands, Zenon DEF ScanOf
  <2> QED
    BY <1>2, <2>a, <2>1, <2>2, <2>3, <2>4, ProgressKeepsCall, BeginKeepsCall, Zenon DEF Next
<1> QED
  BY <1>1, <1>2, Zenon

\* KEYS *, taking one shard lock after the other, reports every key that was
\* there all along, and no key that was never there.
THEOREM KeysAreSound == Spec => []ScanIsSound
<1>1. Init => ScanInv
  BY DEF Init, ScanInv, Inactive
<1>2. StoreInv /\ ScanInv => ScanIsSound
  BY Zenon DEF StoreInv, CallInv, ScanInv, ScanIsSound, Scans
<1> QED
  BY <1>1, <1>2, StoreInit, StoreNext, ScanNext, PTL DEF Spec

-----------------------------------------------------------------------------
(* A snapshot export among running commands.                               *)

\* A non-empty set of numbers has a least element.
LEMMA LeastShard ==
  ASSUME NEW T \in SUBSET Nat, T # {}
  PROVE  Min(T) \in T
<1> DEFINE R == {ss \in Nat \X Nat : ss[1] < ss[2]}
<1>1. IsWellFoundedOn(R, Nat)
  BY NatLessThanWellFounded, Zenon DEF OpToRel
<1>2. PICK x \in T : \A y \in T : ~ (<<y, x>> \in R)
  <2> HIDE DEF R
  <2> QED
    BY Zenon, <1>1, WFMin
<1>3. ASSUME NEW y \in T PROVE x <= y
  <2>1. x \in Nat /\ y \in Nat /\ <<y, x>> \in Nat \X Nat
    BY Zenon
  <2>2. ~ (y < x)
    BY <1>2, <2>1, Zenon
  <2> QED
    BY <2>1, <2>2
<1> QED
  BY <1>3, Zenon DEF Min

\* A thread that moves is inside a command, and the command stays or ends.
LEMMA SameCommand ==
  ASSUME StoreInv, NEW p \in Threads, Progress(p)
  PROVE  call[p].pc # "idle" /\ (call'[p].req = call[p].req \/ call'[p].pc = "idle")
<1>1. call[p].pc # "idle"
  BY Zenon DEF Progress, ReadShared, ReadUnique, Recheck, set, Overwrite, expire_at,
         lock_mutexes_in_order, LockOne, AllLocked, ReadClock, WorkOnKey, keys,
         export_snapshot_entries, active_expire_cycle, Return
<1>2. CASE keys(p) \/ export_snapshot_entries(p)
  BY <1>1, <1>2, CollectStep, Zenon DEF keys, export_snapshot_entries
<1> QED
  BY <1>1, <1>2, OtherCommands, Zenon

\* Every step leaves at most one command holding the engine mutex.
LEMMA MutexNext == StoreInv /\ MutexInv /\ [Next]_vars => MutexInv'
<1> SUFFICES ASSUME StoreInv, MutexInv, [Next]_vars PROVE MutexInv'
  OBVIOUS
<1>1. CASE UNCHANGED vars
  BY <1>1, Zenon DEF vars, MutexInv, Durable
<1>2. CASE Next
  <2>1. config_' = config_
    BY <1>2 DEF Next, Track
  <2>2. CASE Tick
    BY <2>1, <2>2, Zenon DEF Tick, MutexInv, Durable
  <2>3. ASSUME NEW p \in Threads, NEW r \in Requests, Begin(p, r) PROVE MutexInv'
    <3>1. /\ \A q \in Threads \ {p} : call'[q] = call[q]
          /\ call'[p].req = r
          /\ Durable(r) => \A q \in Threads : call[q].pc # "idle" => ~Durable(call[q].req)
      BY <2>3, Zenon DEF Begin, Start, EngineFree, StoreInv
    <3> QED
      BY <2>1, <3>1 DEF MutexInv, Durable
  <2>4. ASSUME NEW p \in Threads, Progress(p) PROVE MutexInv'
    <3>1. Moves(p) /\ call[p].pc # "idle" /\ (call'[p].req = call[p].req \/ call'[p].pc = "idle")
      BY <2>1, <2>4, ProgressKeepsCall, SameCommand, Zenon
    <3>2. \A q \in Threads \ {p} : call'[q] = call[q]
      BY <3>1, Zenon DEF Moves, StoreInv
    <3> QED
      BY <2>1, <3>1, <3>2 DEF MutexInv, Durable
  <2> QED
    BY <1>2, <2>2, <2>3, <2>4, Zenon DEF Next
<1> QED
  BY <1>1, <1>2

\* What one export in progress promises.
ExportOf(p) ==
  call[p].pc \in {"called", "done"} /\ call[p].req.op = "export" =>
    \A k \in Keys :
      /\ Exported(p, k) # cut[k] => Exported(p, k) = Absent /\ is_expired(cut[k], now)
      /\ shard_index[k] \in call[p].todo => call[p].res[k] = Absent

\* An export holds the engine mutex.
LEMMA ExportIsDurable ==
  ASSUME StoreInv, NEW p \in Threads, call[p].pc # "idle", call[p].req.op = "export"
  PROVE  Durable(call[p].req)
<1>1. config_ \in Configs /\ "export" \in config_.commands
  BY Zenon DEF StoreInv, CallInv
<1>2. config_.persistence
  BY <1>1, StoreAssumption, Zenon
<1> QED
  BY <1>2, Zenon DEF Durable

\* Expiry does not come undone while the clock runs on.
LEMMA StaysExpired ==
  ASSUME StoreInv, NEW k \in Keys, cut[k] # Absent, is_expired(cut[k], now),
         now' \in {now, now + 1}
  PROVE  is_expired(cut[k], now')
<1>1. cut[k].expires_at \in 0 .. Never /\ now \in 0 .. MaxTime
  BY Zenon DEF StoreInv, Entry
<1> QED
  BY <1>1, NaturalConstants DEF is_expired

\* While an export is in progress nobody writes; expired entries may go.
LEMMA ExportStays ==
  ASSUME StoreInv, MutexInv, Next, now' \in {now, now + 1},
         NEW p \in Threads, ExportOf(p), call'[p] = call[p]
  PROVE  ExportOf(p)'
<1> SUFFICES ASSUME call[p].pc \in {"called", "done"}, call[p].req.op = "export",
                    NEW k \in Keys
             PROVE  /\ (Exported(p, k) # cut[k])' =>
                          Exported(p, k)' = Absent /\ is_expired(cut[k], now)'
                    /\ shard_index[k] \in call[p].todo => call[p].res[k] = Absent
  BY Zenon DEF ExportOf
<1>1. cut' = cut
  BY Zenon DEF Next, Track
<1>2. /\ Exported(p, k) # cut[k] => Exported(p, k) = Absent /\ is_expired(cut[k], now)
      /\ shard_index[k] \in call[p].todo => call[p].res[k] = Absent
  BY Zenon DEF ExportOf
<1>3. ASSUME NEW q \in Threads, Writes(q) PROVE FALSE
  <2>1. Durable(call[p].req)
    BY ExportIsDurable, Zenon
  <2>2. Durable(call[q].req) /\ call[q].pc # "idle" /\ q # p
    BY <1>3, <2>1, Zenon DEF Writes, Durable
  <2> QED
    BY <2>1, <2>2, Zenon DEF MutexInv
<1>4. entries'[k] = entries[k] \/ (entries'[k] = Absent /\ k \in Expired(entries, now))
  <2>1. CASE UnchangedStore
    BY <2>1, Zenon DEF UnchangedStore
  <2>2. CASE Erases
    BY <2>2, Zenon DEF Erases, erase_expired_locked, Drop
  <2> QED
    BY <1>3, <2>1, <2>2, StoreEffect, Zenon
<1>5. CASE Exported(p, k)' = Exported(p, k)
  <2>1. CASE Exported(p, k) = cut[k]
    BY <1>1, <1>2, <1>5, <2>1, Zenon
  <2>2. CASE Exported(p, k) # cut[k]
    BY <1>1, <1>2, <1>5, <2>2, StaysExpired, Zenon
  <2> QED
    BY <2>1, <2>2, Zenon
<1>6. CASE /\ shard_index[k] \in call[p].todo /\ entries'[k] = Absent
           /\ k \in Expired(entries, now)
  <2>1. Exported(p, k) = entries[k] /\ Exported(p, k)' = Absent /\ entries[k] # Absent
        /\ is_expired(entries[k], now)
    BY <1>6, Zenon DEF Exported, Expired, Present
  <2>2. entries[k] = cut[k]
    BY <1>2, <2>1, Zenon
  <2> QED
    BY <1>1, <1>2, <2>1, <2>2, StaysExpired, Zenon
<1> QED
  BY <1>4, <1>5, <1>6, Zenon DEF Exported

\* An export collects the shard it visits.
LEMMA ExportVisits ==
  ASSUME StoreInv, Next, NEW p \in Threads, ExportOf(p), export_snapshot_entries(p)
  PROVE  ExportOf(p)'
<1> DEFINE s == NextShard(p)
<1>1. call[p].pc = "called" /\ call[p].req.op = "export" /\ Collect(p, call[p].todo \ {s})
  BY Zenon DEF export_snapshot_entries
<1>2. /\ entries' = Drop(entries, Gone(p)) /\ now' = now
      /\ call'[p].todo = call[p].todo \ {s}
      /\ call'[p].res = [k \in Keys |-> IF k \in Found(p) THEN entries[k] ELSE call[p].res[k]]
  BY <1>1, CollectStep, Zenon
<1>3. s \in call[p].todo
  <2>1. call[p].todo # {} /\ call[p].todo \in SUBSET Nat
    BY <1>1, StoreAssumption DEF StoreInv, CallInv, Scans, Shards
  <2> QED
    BY <2>1, LeastShard, Zenon DEF NextShard
<1>4. cut' = cut
  BY <1>1, Zenon DEF Next, Track
<1>5. Gone(p) \subseteq Expired(entries, now)
  <2>1. call[p].t \in 0 .. now /\ now \in 0 .. MaxTime /\ entries \in [Keys -> Entry \cup {Absent}]
    BY Zenon DEF StoreInv, CallInv
  <2>2. call[p].t \in Int /\ now \in Int /\ call[p].t <= now
    BY <2>1, NaturalConstants
  <2> QED
    BY <2>1, <2>2, ExpiredLater, Zenon DEF Gone
<1> HIDE DEF s
<1> SUFFICES ASSUME NEW k \in Keys
             PROVE  /\ (Exported(p, k) # cut[k])' =>
                          Exported(p, k)' = Absent /\ is_expired(cut[k], now)'
                    /\ shard_index[k] \in call'[p].todo => call'[p].res[k] = Absent
  BY Zenon DEF ExportOf
<1>6. /\ Exported(p, k) # cut[k] => Exported(p, k) = Absent /\ is_expired(cut[k], now)
      /\ shard_index[k] \in call[p].todo => call[p].res[k] = Absent
  BY <1>1, Zenon DEF ExportOf
<1>7. CASE shard_index[k] # s
  <2>1. k \notin Found(p) /\ k \notin Gone(p)
    BY <1>7, Zenon DEF Found, Gone, InShard, s
  <2>2. /\ entries'[k] = entries[k] /\ call'[p].res[k] = call[p].res[k]
        /\ shard_index[k] \in call'[p].todo <=> shard_index[k] \in call[p].todo
    BY <1>2, <1>7, <2>1, Zenon DEF Drop
  <2>3. Exported(p, k)' = Exported(p, k)
    BY <2>2, Zenon DEF Exported
  <2> QED
    BY Zenon, <1>2, <1>4, <1>6, <2>2, <2>3
<1>8. CASE shard_index[k] = s
  <2>1. /\ Exported(p, k) = entries[k] /\ call[p].res[k] = Absent
        /\ shard_index[k] \notin call'[p].todo /\ Exported(p, k)' = call'[p].res[k]
    BY <1>2, <1>3, <1>6, <1>8, Zenon DEF Exported
  <2>2. CASE k \in Found(p) \/ entries[k] = Absent
    <3>1. call'[p].res[k] = entries[k]
      BY Zenon, <1>2, <2>1, <2>2
    <3> QED
      BY Zenon, <1>2, <1>4, <1>6, <2>1, <3>1
  <2>3. CASE k \notin Found(p) /\ entries[k] # Absent
    <3>1. k \in Expired(entries, now) /\ call'[p].res[k] = Absent
      BY <1>2, <1>5, <1>8, <2>1, <2>3, Zenon DEF Found, Present, InShard, s
    <3>2. entries[k] = cut[k] /\ is_expired(cut[k], now)
      BY <1>6, <2>1, <2>3, <3>1, Zenon DEF Expired
    <3> QED
      BY Zenon, <1>2, <1>4, <2>1, <3>1, <3>2
  <2> QED
    BY <2>2, <2>3, Zenon
<1> QED
  BY <1>7, <1>8, Zenon

\* An export begins with everything to collect; nobody else exports.
LEMMA ExportBegins ==
  ASSUME StoreInv, Next, NEW p \in Threads, NEW r \in Requests, Begin(p, r)
  PROVE  ExportOf(p)'
<1> SUFFICES ASSUME r.op = "export" PROVE ExportOf(p)'
  BY Zenon DEF Begin, Start, StoreInv, ExportOf
<1>1. /\ call'[p].todo = Shards /\ call'[p].req = r /\ call'[p].res = Drop(entries, Keys)
      /\ entries' = entries
  BY Zenon DEF Begin, Start, StoreInv, Scans, UnchangedStore
<1>2. Durable(r)
  <2>1. config_ \in Configs /\ "export" \in config_.commands
    BY Zenon DEF Begin, Start, StoreInv
  <2>2. config_.persistence
    BY <2>1, StoreAssumption, Zenon
  <2> QED
    BY <2>2, Zenon DEF Durable
<1>3. ~ \E q \in Threads : call[q].pc # "idle" /\ call[q].req.op = "export"
  BY <1>2, ExportIsDurable, Zenon DEF Begin, EngineFree
<1>4. cut' = entries
  BY <1>3, Zenon DEF Next, Track
<1>5. \A k \in Keys : shard_index[k] \in Shards
  BY StoreAssumption, Zenon
<1> QED
  BY <1>1, <1>4, <1>5, Zenon DEF ExportOf, Exported, Drop

\* Every step keeps the promise of every export in progress.
LEMMA ExportNext == StoreInv /\ MutexInv /\ ExportInv /\ [Next]_vars => ExportInv'
<1> SUFFICES ASSUME StoreInv, MutexInv, ExportInv, [Next]_vars, NEW q \in Threads
             PROVE  ExportOf(q)'
  BY Zenon DEF ExportInv, ExportOf
<1>a. ExportOf(q)
  BY Zenon DEF ExportInv, ExportOf
<1>1. CASE UNCHANGED vars
  BY <1>1, <1>a, Zenon DEF vars, ExportOf, Exported
<1>2. CASE Next
  <2>a. config_' = config_
    BY <1>2, Zenon DEF Next, Track
  <2>1. CASE Tick
    BY <1>2, <2>1, <1>a, ExportStays, Zenon DEF Tick
  <2>2. ASSUME NEW p \in Threads, Moves(p), now' = now, p # q PROVE ExportOf(q)'
    <3>1. call'[q] = call[q]
      BY <2>2, Zenon DEF Moves, StoreInv
    <3> QED
      BY <1>2, <2>2, <3>1, <1>a, ExportStays, Zenon
  <2>3. ASSUME NEW r \in Requests, Begin(q, r) PROVE ExportOf(q)'
    BY <1>2, <2>3, ExportBegins, Zenon
  <2>4. CASE Progress(q)
    <3>1. CASE export_snapshot_entries(q)
      BY <1>2, <3>1, <1>a, ExportVisits, Zenon
    <3>2. CASE keys(q)
      <4>1. call[q].req.op = "keys" /\ call'[q].req = call[q].req
        BY <3>2, CollectStep, Zenon DEF keys
      <4> QED
        BY <4>1, Zenon DEF ExportOf
    <3> QED
      BY <2>4, <3>1, <3>2, OtherCommands, Zenon DEF ExportOf
  <2> QED
    BY <1>2, <2>a, <2>1, <2>2, <2>3, <2>4, ProgressKeepsCall, BeginKeepsCall, Zenon DEF Next
<1> QED
  BY <1>1, <1>2, Zenon

\* A snapshot is one state of the store: the engine mutex keeps every mutation
\* out while it is exported, and expiry takes only entries that are due.
THEOREM SnapshotIsACut == Spec => []ExportIsACut
<1>1. Init => MutexInv /\ ExportInv
  <2>1. Init => \A p \in Threads : call[p].pc = "idle"
    BY DEF Init, Inactive
  <2> QED
    BY <2>1, Zenon DEF MutexInv, ExportInv
<1>2. StoreInv /\ ExportInv => ExportIsACut
  BY Zenon DEF StoreInv, CallInv, ExportInv, ExportIsACut, Exported, Scans
<1> QED
  BY <1>1, <1>2, StoreInit, StoreNext, MutexNext, ExportNext, PTL DEF Spec

-----------------------------------------------------------------------------
(* The mutexes are locked in ascending order, so nobody waits in a circle.  *)

\* The mutexes p holds come before those it still has to lock.
HoldsInOrder(p) ==
  /\ call[p].pc = "called" /\ call[p].req.op \in Locking => call[p].todo \subseteq Shards
  /\ \A s \in Shards : lock[s] = p =>
       \/ call[p].pc = "work"
       \/ /\ call[p].pc = "called" /\ call[p].req.op \in Locking
          /\ \A u \in call[p].todo : s < u

LockInv ==
  /\ lock \in [Shards -> Threads \cup {Nobody}]
  /\ \A p \in Threads : HoldsInOrder(p)

\* A finite set of positive numbers has a greatest one.
LEMMA GreatestExists ==
  ASSUME NEW n \in Nat, NEW S \in SUBSET (1 .. n), S # {}
  PROVE  \E m \in S : \A s \in S : s <= m
<1> DEFINE R == OpToRel(<, Nat)
           T == {n - s : s \in S}
<1>1. R = {ss \in Nat \X Nat : ss[1] < ss[2]}
  BY DEF OpToRel
<1>2. IsWellFoundedOn(R, Nat)
  BY NatLessThanWellFounded, Zenon
<1> HIDE DEF R
<1>3. T \subseteq Nat /\ T # {}
  <2>1. \A s \in S : n - s \in Nat
    OBVIOUS
  <2> QED
    BY <2>1, Zenon
<1>4. PICK x \in T : \A y \in T : ~ (<<y, x>> \in R)
  <2> HIDE DEF T
  <2> QED
    BY <1>2, <1>3, WFMin, Zenon
<1>5. \A y \in T : x <= y
  <2> SUFFICES ASSUME NEW y \in T PROVE x <= y
    OBVIOUS
  <2>1. x \in Nat /\ y \in Nat
    BY <1>3
  <2>2. ~ (y < x)
    <3>1. y < x => <<y, x>> \in {ss \in Nat \X Nat : ss[1] < ss[2]}
      BY <2>1
    <3> QED
      BY <1>1, <1>4, <3>1, Zenon
  <2> QED
    BY <2>1, <2>2
<1>6. PICK m \in S : x = n - m
  OBVIOUS
<1>7. \A s \in S : n - m <= n - s
  BY <1>5, <1>6, Zenon
<1> QED
  BY <1>7

\* What a step of p does to the mutexes: it takes and releases only its own.
LockStep(p) ==
  /\ lock' \in [Shards -> Threads \cup {Nobody}]
  /\ \A s \in Shards, q \in Threads \ {p} : lock'[s] = q => lock[s] = q
  /\ HoldsInOrder(p)'

\* The steps of single-key commands and scans, and the return.
LEMMA UnlockedStep ==
  ASSUME LockInv, NEW p \in Threads, lock' = lock, call[p].pc # "work",
         ~ (call[p].pc = "called" /\ call[p].req.op \in Locking),
         ~ (call'[p].pc = "called" /\ call'[p].req.op \in Locking)
  PROVE  LockStep(p)
<1>1. \A s \in Shards : lock[s] # p
  BY Zenon DEF LockInv, HoldsInOrder
<1> QED
  BY <1>1, Zenon DEF LockInv, LockStep, HoldsInOrder

\* Locking the smallest mutex that is left.
LEMMA LockingStep ==
  ASSUME StoreInv, LockInv, NEW p \in Threads, lock_mutexes_in_order(p)
  PROVE  LockStep(p)
<1>1. /\ call[p].pc = "called" /\ call[p].req.op \in Locking
      /\ call = [q \in Threads |-> call[q]] /\ IsCall(call[p])
  BY Zenon DEF lock_mutexes_in_order, LockOne, StoreInv, CallInv
<1>2. PICK s \in call[p].todo :
        /\ \A u \in call[p].todo : s <= u
        /\ lock' = [lock EXCEPT ![s] = p]
        /\ call' = [call EXCEPT ![p].todo = @ \ {s}]
  BY Zenon DEF lock_mutexes_in_order, LockOne
<1>3. /\ call'[p].pc = "called" /\ call'[p].req = call[p].req
      /\ call'[p].todo = call[p].todo \ {s}
  BY <1>1, <1>2, Zenon DEF IsCall
<1>4. /\ lock \in [Shards -> Threads \cup {Nobody}] /\ call[p].todo \subseteq Shards
      /\ \A r \in Shards : lock[r] = p => \A u \in call[p].todo : r < u
  BY <1>1, Zenon DEF LockInv, HoldsInOrder
<1>5. \A u \in call[p].todo \ {s} : s < u
  BY <1>2, <1>4 DEF Shards
<1>6. \A r \in Shards : lock'[r] = p => \A u \in call'[p].todo : r < u
  BY <1>2, <1>3, <1>4, <1>5, Zenon
<1> QED
  BY <1>1, <1>2, <1>3, <1>4, <1>6, Zenon DEF LockStep, HoldsInOrder

\* The clock is read under all the mutexes, which the last key releases.
LEMMA WorkingStep ==
  ASSUME StoreInv, LockInv, NEW p \in Threads, AllLocked(p) \/ \E k \in Keys : WorkOnKey(p, k)
  PROVE  LockStep(p)
<1>1. call = [q \in Threads |-> call[q]] /\ IsCall(call[p])
  BY Zenon DEF StoreInv, CallInv
<1>2. lock \in [Shards -> Threads \cup {Nobody}]
  BY Zenon DEF LockInv
<1>3. CASE call'[p].pc = "work" /\ lock' = lock
  BY <1>2, <1>3, Zenon DEF LockStep, HoldsInOrder
<1>4. CASE /\ call'[p].pc = "done"
           /\ lock' = [s \in Shards |-> IF lock[s] = p THEN Nobody ELSE lock[s]]
  <2>1. \A s \in Shards : lock'[s] # p
    <3>1. Nobody # p
      BY StoreAssumption
    <3> QED
      BY <1>4, <3>1, Zenon
  <2>2. lock' \in [Shards -> Threads \cup {Nobody}]
    BY <1>2, <1>4
  <2>3. \A s \in Shards, q \in Threads \ {p} : lock'[s] = q => lock[s] = q
    BY <1>4, StoreAssumption
  <2> QED
    BY <1>4, <2>1, <2>2, <2>3, Zenon DEF LockStep, HoldsInOrder
<1>5. CASE AllLocked(p)
  <2>1. /\ lock' = lock
        /\ call' = [call EXCEPT ![p].pc = "work", ![p].t = now, ![p].todo = call[p].req.keys,
                                ![p].res = 0]
    BY <1>5, Zenon DEF AllLocked, ReadClock
  <2> QED
    BY <1>1, <1>3, <2>1, Zenon DEF IsCall
<1>6. ASSUME NEW k \in Keys, WorkOnKey(p, k) PROVE LockStep(p)
  <2>1. \/ call'[p].pc = "work" /\ lock' = lock
        \/ /\ call'[p].pc = "done"
           /\ lock' = [s \in Shards |-> IF lock[s] = p THEN Nobody ELSE lock[s]]
    BY <1>1, <1>6, Zenon DEF WorkOnKey, IsCall
  <2> QED
    BY <1>3, <1>4, <2>1
<1> QED
  BY <1>5, <1>6

\* Every step of a command in progress.
LEMMA ProgressLocks ==
  ASSUME StoreInv, LockInv, NEW p \in Threads, Progress(p)
  PROVE  LockStep(p)
<1>a. call = [q \in Threads |-> call[q]] /\ IsCall(call[p])
  BY Zenon DEF StoreInv, CallInv
<1>b. Reads \cap Locking = {} /\ Scans \cap Locking = {} /\ {"set", "expire"} \cap Locking = {}
  BY Zenon DEF Reads, Locking, Scans
<1>1. CASE ReadShared(p)
  <2>1. /\ lock' = lock /\ call[p].pc = "called" /\ call[p].req.op \in Reads
        /\ call'[p].pc \in {"recheck", "done"}
    BY <1>1, <1>a, Zenon DEF ReadShared, Finish, IsCall
  <2> QED
    BY <1>b, <2>1, UnlockedStep, Zenon
<1>2. CASE ReadUnique(p)
  <2>1. lock' = lock /\ call[p].pc = "recheck" /\ call'[p].pc = "done"
    BY <1>2, <1>a, Zenon DEF ReadUnique, Recheck, Finish, IsCall
  <2> QED
    BY <2>1, UnlockedStep, Zenon
<1>3. CASE set(p) \/ expire_at(p)
  <2>1. /\ lock' = lock /\ call[p].pc = "called" /\ call[p].req.op \in {"set", "expire"}
        /\ call'[p].pc = "done"
    BY <1>3, <1>a, ZenonT(30) DEF set, Overwrite, expire_at, Finish, IsCall
  <2> QED
    BY <1>b, <2>1, UnlockedStep, Zenon
<1>4. CASE keys(p) \/ export_snapshot_entries(p) \/ active_expire_cycle(p)
  <2>1. PICK gone, result, rest :
          /\ call[p].pc = "called" /\ call[p].req.op \in Scans
          /\ VisitShard(p, gone, result, rest)
    BY <1>4, Zenon DEF keys, export_snapshot_entries, active_expire_cycle, Collect, Scans
  <2>2. lock' = lock /\ call'[p].req = call[p].req
    BY <1>a, <2>1, Zenon DEF VisitShard, IsCall
  <2> QED
    BY <1>b, <2>1, <2>2, UnlockedStep, Zenon
<1>5. CASE Return(p)
  <2>1. lock' = lock /\ call[p].pc = "done" /\ call'[p] = Inactive
    BY <1>5, <1>a, Zenon DEF Return
  <2>2. Inactive.pc = "idle"
    BY Zenon DEF Inactive
  <2> QED
    BY <2>1, <2>2, UnlockedStep, Zenon
<1> QED
  BY <1>1, <1>2, <1>3, <1>4, <1>5, LockingStep, WorkingStep, Zenon DEF Progress

\* A command that begins holds no mutex.
LEMMA BeginLocks ==
  ASSUME StoreInv, LockInv, NEW p \in Threads, NEW r \in Requests, Begin(p, r)
  PROVE  LockStep(p)
<1> DEFINE todo == IF r.op \in Scans THEN Shards ELSE {shard_index[k] : k \in r.keys}
<1>1. /\ lock' = lock /\ call[p].pc = "idle" /\ call = [q \in Threads |-> call[q]]
      /\ \E res : call' = [call EXCEPT ![p] =
           [pc |-> "called", req |-> r, t |-> now, since |-> now, taken |-> {},
            todo |-> todo, res |-> res]]
  BY Zenon DEF Begin, Start, StoreInv
<1>2. todo \subseteq Shards
  <2>1. r.keys \subseteq Keys
    BY RequestFacts, Zenon
  <2>2. shard_index \in [Keys -> Shards]
    BY StoreAssumption
  <2> QED
    BY <2>1, <2>2, Zenon
<1> HIDE DEF todo
<1>3. call'[p].todo \subseteq Shards
  <2>1. call'[p].todo = todo
    BY <1>1
  <2> QED
    BY <1>2, <2>1, Zenon
<1>4. \A s \in Shards : lock[s] # p
  BY <1>1, Zenon DEF LockInv, HoldsInOrder
<1> QED
  BY <1>1, <1>3, <1>4, Zenon DEF LockInv, LockStep, HoldsInOrder

\* Every step keeps the order.
LEMMA LockNext == StoreInv /\ LockInv /\ [Next]_vars => LockInv'
<1> SUFFICES ASSUME StoreInv, LockInv, [Next]_vars PROVE LockInv'
  OBVIOUS
<1>1. CASE UNCHANGED <<lock, call>>
  BY <1>1, Zenon DEF LockInv, HoldsInOrder
<1>2. ASSUME NEW p \in Threads, LockStep(p), Moves(p) PROVE LockInv'
  <2>1. ASSUME NEW q \in Threads, q # p PROVE HoldsInOrder(q)'
    <3>1. call'[q] = call[q]
      BY <1>2, <2>1, Zenon DEF Moves, StoreInv
    <3>2. HoldsInOrder(q) /\ \A s \in Shards : lock'[s] = q => lock[s] = q
      BY <1>2, <2>1, Zenon DEF LockInv, LockStep
    <3> QED
      BY <3>1, <3>2, Zenon DEF HoldsInOrder
  <2> QED
    BY <1>2, <2>1, Zenon DEF LockInv, LockStep
<1>3. CASE Next
  <2>1. config_' = config_
    BY <1>3, Zenon DEF Next, Track
  <2>2. CASE Tick
    BY <1>1, <2>2, Zenon DEF Tick
  <2> QED
    BY <1>2, <1>3, <2>1, <2>2, ProgressLocks, BeginLocks, ProgressKeepsCall, BeginKeepsCall,
       Zenon DEF Next
<1> QED
  BY <1>1, <1>3, Zenon DEF vars

\* In the beginning nobody holds a mutex.
LEMMA LockInit == Init => LockInv
<1> SUFFICES ASSUME Init PROVE LockInv
  OBVIOUS
<1>1. lock = [s \in Shards |-> Nobody] /\ call = [p \in Threads |-> Inactive]
  BY Zenon DEF Init
<1>2. Inactive.pc = "idle"
  BY Zenon DEF Inactive
<1>3. \A p \in Threads : Nobody # p
  BY StoreAssumption, Zenon
<1> QED
  BY <1>1, <1>2, <1>3, Zenon DEF LockInv, HoldsInOrder

\* A command waits for one of the mutexes.
LEMMA AwaitedShard ==
  ASSUME StoreInv, LockInv, NEW p \in Threads, NEW s \in Awaited(p)
  PROVE  s \in Shards
<1>1. CallInv(call[p]) /\ HoldsInOrder(p)
  BY Zenon DEF StoreInv, LockInv
<1>2. CASE call[p].pc = "called" /\ call[p].req.op \in Locking \cup Scans
  <2>1. call[p].todo \subseteq Shards
    BY <1>1, <1>2, Zenon DEF CallInv, HoldsInOrder
  <2>2. s \in call[p].todo
    BY <1>2, Zenon DEF Awaited
  <2> QED
    BY <2>1, <2>2, Zenon
<1>3. CASE ~ (call[p].pc = "called" /\ call[p].req.op \in Locking \cup Scans)
  <2>1. call[p].pc \in {"called", "recheck"} /\ s = shard_index[Key(p)]
    BY <1>3, Zenon DEF Awaited, shard_for
  <2>2. call[p].req.op \in Reads \cup {"set", "expire"} /\ call[p].pc # "idle"
    <3>1. call[p].req \in Requests /\ (call[p].pc = "recheck" => call[p].req.op \in Reads)
      BY <1>1, <2>1, Zenon DEF CallInv
    <3>2. call[p].req.op \in Reads \cup Locking \cup {"set", "expire"} \cup Scans
      BY <3>1, RequestFacts, Zenon
    <3> QED
      BY <1>3, <2>1, <3>1, <3>2, Zenon
  <2>3. Key(p) \in Keys
    BY <2>2, KeyOfCall, Zenon
  <2>4. shard_index \in [Keys -> Shards]
    BY StoreAssumption
  <2> QED
    BY <2>1, <2>3, <2>4, Zenon
<1> QED
  BY <1>2, <1>3, Zenon

\* The holder of the greatest mutex that is locked waits for none.
LEMMA OrderExcludesCycles ==
  ASSUME StoreInv, LockInv
  PROVE  NoCyclicWait
<1> SUFFICES ASSUME NEW p \in Threads, call[p].pc # "idle"
             PROVE  \E q \in Threads : call[q].pc # "idle" /\ \A s \in Awaited(q) : Unlocked(s)
  BY Zenon DEF NoCyclicWait
<1> DEFINE held == {s \in Shards : lock[s] # Nobody}
<1>1. CASE held = {}
  BY <1>1, AwaitedShard, Zenon DEF Unlocked
<1>2. CASE held # {}
  <2>1. PICK m \in held : \A s \in held : s <= m
    <3>1. held \subseteq 1 .. shard_count
      BY Zenon DEF Shards
    <3>2. shard_count \in Nat
      BY StoreAssumption
    <3> HIDE DEF held
    <3> QED
      BY <1>2, <3>1, <3>2, GreatestExists, Zenon
  <2>2. PICK q \in Threads : lock[m] = q
    BY <2>1, Zenon DEF LockInv
  <2>3. \/ call[q].pc = "work"
        \/ /\ call[q].pc = "called" /\ call[q].req.op \in Locking
           /\ \A u \in call[q].todo : m < u
    BY <2>1, <2>2, Zenon DEF LockInv, HoldsInOrder
  <2>4. CASE call[q].pc = "work"
    BY <2>4, Zenon DEF Awaited
  <2>5. CASE /\ call[q].pc = "called" /\ call[q].req.op \in Locking
             /\ \A u \in call[q].todo : m < u
    <3>1. ASSUME NEW s \in Awaited(q) PROVE Unlocked(s)
      <4>1. s \in Shards /\ m \in Shards
        BY <2>1, <3>1, AwaitedShard, Zenon
      <4>2. m < s
        BY <2>5, <3>1, Zenon DEF Awaited
      <4>3. ~ (s <= m)
        BY <4>1, <4>2 DEF Shards
      <4> QED
        BY <2>1, <4>1, <4>3, Zenon DEF Unlocked
    <3> QED
      BY <2>5, <3>1, Zenon
  <2> QED
    BY <2>3, <2>4, <2>5, Zenon
<1> QED
  BY <1>1, <1>2, Zenon

\* lock_mutexes_in_order never lets commands wait for each other in a circle,
\* for any number of threads, shards and keys: the safety half of the claim
\* that every command returns.
THEOREM WaitingIsAcyclic == Spec => []NoCyclicWait
BY StoreInit, StoreNext, LockInit, LockNext, OrderExcludesCycles, PTL DEF Spec

=============================================================================
