------------------------- MODULE ServerReplyProofs --------------------------
(***************************************************************************)
(* The replies the clients of Server get, and the types of its state.      *)
(***************************************************************************)
EXTENDS ServerStackProofs, FiniteSetTheorems

\* How many replies to commands a sequence holds.
Count(s) == Cardinality(CommandReplies(s))

\* The replies to commands in a sequence are finitely many.
LEMMA CountFacts ==
  ASSUME NEW s \in Seq(ReplyType)
  PROVE  IsFiniteSet(CommandReplies(s)) /\ Count(s) \in Nat
<1>1. CommandReplies(s) \subseteq 1 .. Len(s) /\ 1 \in Int /\ Len(s) \in Int
  BY DEF CommandReplies
<1>2. IsFiniteSet(1 .. Len(s))
  BY <1>1, FS_Interval, Zenon
<1>3. IsFiniteSet(CommandReplies(s))
  BY <1>1, <1>2, FS_Subset, Zenon
<1> QED
  BY <1>3, FS_CardinalityType, Zenon DEF Count

\* Appending a reply.
LEMMA ReplyAppend ==
  ASSUME NEW s \in Seq(ReplyType), NEW r \in ReplyType
  PROVE  LET t == Append(s, r)
         IN  /\ t \in Seq(ReplyType) /\ DOMAIN t = 1 .. Len(s) + 1 /\ DOMAIN s = 1 .. Len(s)
             /\ Len(s) \in Nat /\ Len(t) = Len(s) + 1
             /\ \A i \in 1 .. Len(s) : t[i] = s[i]
             /\ t[Len(s) + 1] = r
<1> DEFINE S == ReplyType
<1>1. s \in Seq(S) /\ r \in S
  BY Zenon
<1> HIDE DEF S
<1>2. /\ Append(s, r) \in Seq(S) /\ Len(Append(s, r)) = Len(s) + 1
      /\ \A i \in 1 .. Len(s) : Append(s, r)[i] = s[i]
      /\ Append(s, r)[Len(s) + 1] = r
      /\ DOMAIN Append(s, r) = 1 .. Len(s) + 1 /\ DOMAIN s = 1 .. Len(s) /\ Len(s) \in Nat
  BY <1>1, AppendFacts
<1> QED
  BY <1>2, Zenon DEF S

\* A reply more.
LEMMA CountAppend ==
  ASSUME NEW s \in Seq(ReplyType), NEW r \in ReplyType
  PROVE  Count(Append(s, r)) = IF r.seq >= 0 THEN Count(s) + 1 ELSE Count(s)
<1> DEFINE t == Append(s, r)
           k == Len(s) + 1
<1>1. /\ t \in Seq(ReplyType) /\ DOMAIN t = 1 .. Len(s) + 1 /\ DOMAIN s = 1 .. Len(s) /\ Len(s) \in Nat
      /\ \A i \in 1 .. Len(s) : t[i] = s[i]
      /\ t[k] = r
  BY ReplyAppend, Zenon
<1>2. k \notin DOMAIN s /\ DOMAIN t = DOMAIN s \cup {k}
  BY <1>1
<1> HIDE DEF t, k
<1>3. \A i \in DOMAIN s : t[i] = s[i]
  BY <1>1, Zenon
<1>4. CASE r.seq >= 0
  <2>1. CommandReplies(t) = CommandReplies(s) \cup {k}
    BY <1>1, <1>2, <1>3, <1>4, Zenon DEF CommandReplies
  <2>2. k \notin CommandReplies(s)
    BY <1>2, Zenon DEF CommandReplies
  <2>3. Cardinality(CommandReplies(s) \cup {k}) = Cardinality(CommandReplies(s)) + 1
    BY <2>2, CountFacts, FS_AddElement, Zenon
  <2> QED
    BY <1>4, <2>1, <2>3, Zenon DEF Count, t
<1>5. CASE ~(r.seq >= 0)
  <2>1. CommandReplies(t) = CommandReplies(s)
    BY <1>1, <1>2, <1>3, <1>5, Zenon DEF CommandReplies
  <2> QED
    BY <1>5, <2>1, Zenon DEF Count, t
<1> QED
  BY <1>4, <1>5, Zenon

\* The beginning of a sequence of replies.
LEMMA PrefixFacts ==
  ASSUME NEW n \in Clients, NEW s \in Seq(ReplyType), NEW t \in Seq(ReplyType), Len(s) <= Len(t),
         \A i \in 1 .. Len(s) : t[i] = s[i], Sound(n, t)
  PROVE  Sound(n, s) /\ Count(s) <= Count(t)
<1>1. DOMAIN s = 1 .. Len(s) /\ DOMAIN t = 1 .. Len(t) /\ Len(s) \in Nat /\ Len(t) \in Nat
  OBVIOUS
<1>2. \A i \in DOMAIN s : i \in DOMAIN t /\ t[i] = s[i]
  BY <1>1
<1>3. ASSUME NEW i \in DOMAIN s PROVE SubSeq(t, 1, i - 1) = SubSeq(s, 1, i - 1)
  <2>1. i \in 1 .. Len(s) /\ i - 1 \in 0 .. Len(s) /\ i - 1 \in 0 .. Len(t)
    BY <1>1, <1>3, SMTT(30)
  <2>2. /\ SubSeq(t, 1, i - 1) \in Seq(ReplyType) /\ Len(SubSeq(t, 1, i - 1)) = i - 1
        /\ SubSeq(s, 1, i - 1) \in Seq(ReplyType) /\ Len(SubSeq(s, 1, i - 1)) = i - 1
    BY <2>1
  <2>3. \A j \in 1 .. i - 1 : SubSeq(t, 1, i - 1)[j] = SubSeq(s, 1, i - 1)[j]
    BY <1>1, <2>1
  <2> QED
    BY <2>1, <2>2, <2>3, SameElements, SMTT(30)
<1>4. Sound(n, s)
  BY <1>2, <1>3, Zenon DEF Sound
<1>5. CommandReplies(s) \subseteq CommandReplies(t)
  BY <1>2, Zenon DEF CommandReplies
<1>6. Count(s) <= Count(t)
  BY <1>5, CountFacts, FS_Subset, Zenon DEF Count
<1> QED
  BY <1>4, <1>6, Zenon

\* A reply more, to the next command or to a malformed request.
LEMMA SoundAppend ==
  ASSUME NEW n \in Clients, NEW s \in Seq(ReplyType), Sound(n, s),
         NEW r \in {ErrorReply(n), Reply(n, Count(s))}
  PROVE  Sound(n, Append(s, r)) /\ Append(s, r) \in Seq(ReplyType)
<1> DEFINE t == Append(s, r)
           k == Len(s) + 1
<1>1. Count(s) \in Nat
  BY CountFacts, Zenon
<1>2. r \in ReplyType
  BY <1>1 DEF ErrorReply, Reply, ReplyType
<1>3. /\ t \in Seq(ReplyType) /\ DOMAIN t = 1 .. Len(s) + 1 /\ DOMAIN s = 1 .. Len(s) /\ Len(s) \in Nat
      /\ \A i \in 1 .. Len(s) : t[i] = s[i]
      /\ t[k] = r
  BY <1>2, ReplyAppend, Zenon
<1>4. Len(t) = Len(s) + 1
  BY <1>2
<1> HIDE DEF t
<1>5. ASSUME NEW i \in DOMAIN t PROVE SubSeq(t, 1, i - 1) = SubSeq(s, 1, i - 1)
  <2>1. i - 1 \in 0 .. Len(s) /\ i - 1 \in 0 .. Len(t)
    BY <1>3, <1>4, <1>5, SMTT(30)
  <2>2. /\ SubSeq(t, 1, i - 1) \in Seq(ReplyType) /\ Len(SubSeq(t, 1, i - 1)) = i - 1
        /\ SubSeq(s, 1, i - 1) \in Seq(ReplyType) /\ Len(SubSeq(s, 1, i - 1)) = i - 1
    BY <1>3, <2>1
  <2>3. \A j \in 1 .. i - 1 : SubSeq(t, 1, i - 1)[j] = SubSeq(s, 1, i - 1)[j]
    BY <1>3, <1>4, <2>1, SMTT(30)
  <2> QED
    BY <2>1, <2>2, <2>3, SameElements, SMTT(30)
<1>6. SubSeq(s, 1, k - 1) = s
  <2>1. /\ SubSeq(s, 1, k - 1) \in Seq(ReplyType) /\ Len(SubSeq(s, 1, k - 1)) = Len(s)
        /\ \A j \in 1 .. Len(s) : SubSeq(s, 1, k - 1)[j] = s[j]
    BY <1>3
  <2> QED
    BY <2>1, SameElements, SMTT(30)
<1>7. \A i \in DOMAIN t : i \in DOMAIN s \/ i = k
  BY <1>3
<1> HIDE DEF k
<1>8. ASSUME NEW i \in DOMAIN t
      PROVE  t[i] \in {ErrorReply(n), Reply(n, Cardinality(CommandReplies(SubSeq(t, 1, i - 1))))}
  <2>1. CASE i \in DOMAIN s
    BY <1>3, <1>5, <1>8, <2>1, Zenon DEF Sound
  <2>2. CASE i = k
    <3>1. SubSeq(t, 1, k - 1) = s
      BY <1>5, <1>6, <1>8, <2>2, Zenon
    <3> QED
      BY <1>3, <2>2, <3>1, Zenon DEF Count
  <2> QED
    BY <1>7, <1>8, <2>1, <2>2, Zenon
<1> QED
  BY <1>3, <1>8, Zenon DEF Sound, t

\* Everything written for client n, when the connections are cs and the sockets ss.
WrittenIn(cs, ss, n) ==
  LET own == {fd \in {g \in Fds : cs[g] # NoConnection} : cs[fd].client = n}
  IN  ss[n].sent \o (IF own = {} THEN <<>> ELSE cs[CHOOSE fd \in own : TRUE].output)

\* Now and after a step.
LEMMA WrittenNow ==
  ASSUME NEW n
  PROVE  Written(n) = WrittenIn(connections_, sock, n) /\ Written(n)' = WrittenIn(connections_', sock', n)
<1>1. Written(n) = WrittenIn(connections_, sock, n)
  BY Zenon DEF Written, WrittenIn, Open
<1>2. Written(n)' = WrittenIn(connections_', sock', n)
  BY Zenon DEF Written, WrittenIn, Open
<1> QED
  BY <1>1, <1>2, Zenon

\* A client with one connection.
LEMMA WrittenOne ==
  ASSUME NEW cs, NEW ss, NEW n, NEW fd \in Fds, cs[fd] # NoConnection, cs[fd].client = n,
         \A g \in Fds : cs[g] # NoConnection /\ cs[g].client = n => g = fd
  PROVE  WrittenIn(cs, ss, n) = ss[n].sent \o cs[fd].output
<1> DEFINE own == {g \in {h \in Fds : cs[h] # NoConnection} : cs[g].client = n}
<1>1. own = {fd}
  BY Zenon
<1>2. (CHOOSE g \in {fd} : TRUE) = fd
  BY Zenon
<1>3. {fd} # {}
  BY Zenon
<1>4. WrittenIn(cs, ss, n) = ss[n].sent \o (IF own = {} THEN <<>> ELSE cs[CHOOSE g \in own : TRUE].output)
  BY Zenon DEF WrittenIn
<1> HIDE DEF own
<1>5. (CHOOSE g \in own : TRUE) = fd /\ own # {}
  BY <1>1, <1>2, <1>3, Zenon
<1> QED
  BY <1>4, <1>5, Zenon

\* A client without one.
LEMMA WrittenNone ==
  ASSUME NEW cs, NEW ss, NEW n, ss[n].sent \in Seq(ReplyType),
         \A g \in Fds : ~(cs[g] # NoConnection /\ cs[g].client = n)
  PROVE  WrittenIn(cs, ss, n) = ss[n].sent
<1> DEFINE own == {g \in {h \in Fds : cs[h] # NoConnection} : cs[g].client = n}
           s == ss[n].sent
           T == ReplyType
<1>1. own = {}
  BY Zenon
<1>2. WrittenIn(cs, ss, n) = s \o (IF own = {} THEN <<>> ELSE cs[CHOOSE g \in own : TRUE].output)
  BY Zenon DEF WrittenIn
<1> HIDE DEF own
<1>3. WrittenIn(cs, ss, n) = s \o <<>>
  BY <1>1, <1>2, Zenon
<1>4. s \in Seq(T)
  BY Zenon
<1> HIDE DEF s, T
<1>5. s \o <<>> = s
  BY <1>4
<1> QED
  BY <1>3, <1>5, Zenon DEF s

\* A client whose connection and socket are left alone.
LEMMA WrittenSame ==
  ASSUME NEW cs, NEW ss, NEW cs2, NEW ss2, NEW n, ss2[n].sent = ss[n].sent,
         \A g \in Fds : cs[g] # NoConnection /\ cs[g].client = n => cs2[g] = cs[g],
         \A g \in Fds : cs2[g] # NoConnection /\ cs2[g].client = n => cs2[g] = cs[g]
  PROVE  WrittenIn(cs2, ss2, n) = WrittenIn(cs, ss, n)
<1> DEFINE own == {g \in {h \in Fds : cs[h] # NoConnection} : cs[g].client = n}
           own2 == {g \in {h \in Fds : cs2[h] # NoConnection} : cs2[g].client = n}
<1>1. own2 = own /\ \A g \in own : cs2[g] = cs[g]
  BY Zenon
<1>2. WrittenIn(cs, ss, n) = ss[n].sent \o (IF own = {} THEN <<>> ELSE cs[CHOOSE g \in own : TRUE].output)
  BY Zenon DEF WrittenIn
<1>3. WrittenIn(cs2, ss2, n) = ss2[n].sent \o (IF own2 = {} THEN <<>> ELSE cs2[CHOOSE g \in own2 : TRUE].output)
  BY Zenon DEF WrittenIn
<1> HIDE DEF own, own2
<1> DEFINE x == CHOOSE g \in own : TRUE
<1>4. own # {} => x \in own
  BY Zenon
<1>5. WrittenIn(cs2, ss2, n) = ss[n].sent \o (IF own = {} THEN <<>> ELSE cs2[x].output)
  BY <1>1, <1>3, SMTT(30)
<1> HIDE DEF x
<1>6. CASE own = {}
  BY <1>2, <1>5, <1>6, Zenon
<1>7. CASE own # {}
  <2>1. cs2[x] = cs[x]
    BY <1>1, <1>4, <1>7, Zenon
  <2>2. WrittenIn(cs, ss, n) = ss[n].sent \o cs[x].output
    BY <1>2, <1>7, Zenon DEF x
  <2> QED
    BY <1>5, <1>7, <2>1, <2>2, Zenon
<1> QED
  BY <1>6, <1>7, Zenon

\* The replies a client got, and the commands of it that ran.
GoodReplies(n, s, r) == Sound(n, s) /\ Count(s) <= Len(r)

\* ReplyInv in terms of GoodReplies and Count, before and after a step.
LEMMA ReplyInvFacts ==
  /\ ReplyInv <=> /\ \A n \in Clients : GoodReplies(n, Written(n), ran[n])
                  /\ \A fd \in Open : Count(Written(connections_[fd].client)) = connections_[fd].next_response_seq
  /\ ReplyInv' <=> /\ \A n \in Clients : GoodReplies(n, Written(n)', ran'[n])
                   /\ \A fd \in Open' : Count(Written(connections_[fd].client)') = connections_'[fd].next_response_seq
<1>1. ReplyInv <=> /\ \A n \in Clients : GoodReplies(n, Written(n), ran[n])
                   /\ \A fd \in Open : Count(Written(connections_[fd].client)) = connections_[fd].next_response_seq
  BY Zenon DEF ReplyInv, GoodReplies, Answered, Count
<1>2. ReplyInv' <=> /\ \A n \in Clients : GoodReplies(n, Written(n)', ran'[n])
                    /\ \A fd \in Open' : Count(Written(connections_[fd].client)') = connections_'[fd].next_response_seq
  BY Zenon DEF ReplyInv, GoodReplies, Answered, Count, Sound
<1> QED
  BY <1>1, <1>2, Zenon

\* The length of what ran.
LEMMA GoodGrows ==
  ASSUME NEW n, NEW s \in Seq(ReplyType), NEW r \in Seq(Nat), NEW r2 \in Seq(Nat), GoodReplies(n, s, r),
         Len(r) <= Len(r2)
  PROVE  GoodReplies(n, s, r2)
<1>1. Count(s) \in Nat /\ Len(r) \in Nat /\ Len(r2) \in Nat
  BY CountFacts, LenFacts, Zenon
<1>2. Count(s) <= Len(r)
  BY Zenon DEF GoodReplies
<1>3. Count(s) <= Len(r2)
  BY <1>1, <1>2, SMTT(30)
<1> QED
  BY <1>3, Zenon DEF GoodReplies

\* The client of an open connection, and one that has none.
LEMMA WrittenFacts ==
  ASSUME TypeInv, IdInv
  PROVE  /\ \A fd \in Open : Written(connections_[fd].client)
                               = sock[connections_[fd].client].sent \o connections_[fd].output
         /\ \A n \in Clients : (\A fd \in Open : connections_[fd].client # n) => Written(n) = sock[n].sent
         /\ \A n \in Clients : Written(n) \in Seq(ReplyType)
<1>1. \A n \in Clients : sock[n].sent \in Seq(ReplyType)
  <2>1. \A n \in Clients : sock[n] \in Socket
    BY Zenon DEF TypeInv, CoreType
  <2> QED
    BY <2>1, SocketFields, Zenon
<1>2. ASSUME NEW fd \in Open
      PROVE  LET n == connections_[fd].client IN Written(n) = sock[n].sent \o connections_[fd].output
  <2>1. \A g \in Open : connections_[g].client = connections_[fd].client => g = fd
    BY Zenon DEF IdInv
  <2>2. fd \in Fds /\ connections_[fd] # NoConnection
        /\ \A g \in Fds : connections_[g] # NoConnection /\ connections_[g].client = connections_[fd].client => g = fd
    BY <2>1, ZenonT(30) DEF Open
  <2>3. WrittenIn(connections_, sock, connections_[fd].client)
          = sock[connections_[fd].client].sent \o connections_[fd].output
    BY <2>2, WrittenOne, Zenon
  <2> QED
    BY <2>3, WrittenNow, Zenon
<1>3. ASSUME NEW n \in Clients, \A fd \in Open : connections_[fd].client # n
      PROVE  Written(n) = sock[n].sent
  <2>1. \A g \in Fds : ~(connections_[g] # NoConnection /\ connections_[g].client = n)
    BY <1>3, Zenon DEF Open
  <2>2. WrittenIn(connections_, sock, n) = sock[n].sent
    BY <1>1, <2>1, WrittenNone, SMTT(30)
  <2> QED
    BY <2>2, WrittenNow, Zenon
<1>4. ASSUME NEW n \in Clients PROVE Written(n) \in Seq(ReplyType)
  <2>1. CASE \A fd \in Open : connections_[fd].client # n
    BY <1>1, <1>3, <2>1, Zenon
  <2>2. ASSUME NEW fd \in Open, connections_[fd].client = n PROVE Written(n) \in Seq(ReplyType)
    <3> DEFINE a == sock[n].sent
               b == connections_[fd].output
               S == ReplyType
    <3>1. a \in Seq(S)
      BY <1>1, Zenon
    <3>2. b \in Seq(S)
      BY OpenFacts, ConnectionFields, Zenon
    <3>3. Written(n) = a \o b
      BY <1>2, <2>2, ZenonT(30)
    <3> HIDE DEF a, b, S
    <3>4. a \o b \in Seq(S)
      BY <3>1, <3>2, SMTT(30)
    <3> QED
      BY <3>3, <3>4, Zenon DEF S
  <2> QED
    BY <2>1, <2>2, Zenon
<1> QED
  BY <1>2, <1>3, <1>4, Zenon

\* What was sent is the beginning of what was written.
LEMMA ConcatPrefix ==
  ASSUME NEW a \in Seq(ReplyType), NEW b \in Seq(ReplyType)
  PROVE  LET t == a \o b IN Len(a) <= Len(t) /\ (\A i \in 1 .. Len(a) : t[i] = a[i]) /\ t \in Seq(ReplyType)
<1> DEFINE S == ReplyType
<1>1. a \in Seq(S) /\ b \in Seq(S)
  BY Zenon
<1> HIDE DEF S
<1>2. Len(a) <= Len(a \o b) /\ (\A i \in 1 .. Len(a) : (a \o b)[i] = a[i]) /\ a \o b \in Seq(S)
  BY <1>1
<1> QED
  BY <1>2, Zenon DEF S

\* A client whose connection is left alone keeps its replies.
LEMMA UnmovedClient ==
  ASSUME TypeInv, IdInv, ReplyInv, NEW n \in Clients, ran' \in [Clients -> Seq(Nat)],
         sock'[n].sent = sock[n].sent, Len(ran[n]) <= Len(ran'[n]),
         \A g \in Open : connections_[g].client = n => connections_'[g] = connections_[g],
         \A g \in Open' : connections_'[g].client = n => connections_'[g] = connections_[g]
  PROVE  Written(n)' = Written(n) /\ GoodReplies(n, Written(n)', ran'[n])
<1>1. /\ \A g \in Fds : connections_[g] # NoConnection /\ connections_[g].client = n => connections_'[g] = connections_[g]
      /\ \A g \in Fds : connections_'[g] # NoConnection /\ connections_'[g].client = n => connections_'[g] = connections_[g]
  BY Zenon DEF Open
<1>2. WrittenIn(connections_', sock', n) = WrittenIn(connections_, sock, n)
  BY <1>1, WrittenSame, SMTT(30)
<1>3. Written(n)' = Written(n)
  BY <1>2, WrittenNow, Zenon
<1>4. GoodReplies(n, Written(n), ran[n])
  BY ReplyInvFacts, Zenon
<1>5. Written(n) \in Seq(ReplyType) /\ ran[n] \in Seq(Nat) /\ ran'[n] \in Seq(Nat)
  BY WrittenFacts, Zenon DEF TypeInv, CoreType
<1>6. GoodReplies(n, Written(n), ran'[n])
  BY <1>4, <1>5, GoodGrows, Zenon
<1> QED
  BY <1>3, <1>6, Zenon

\* A step that leaves the connections alone keeps the replies.
LEMMA SameConnectionsReply ==
  ASSUME TypeInv, IdInv, ReplyInv, connections_' = connections_, ran' \in [Clients -> Seq(Nat)],
         \A n \in Clients : sock'[n].sent = sock[n].sent /\ Len(ran[n]) <= Len(ran'[n])
  PROVE  ReplyInv'
<1>1. \A n \in Clients : Written(n)' = Written(n) /\ GoodReplies(n, Written(n)', ran'[n])
  BY UnmovedClient, Zenon
<1>2. Open' = Open
  BY Zenon DEF Open
<1>3. ASSUME NEW fd \in Open PROVE Count(Written(connections_[fd].client)') = connections_'[fd].next_response_seq
  <2> DEFINE n == connections_[fd].client
  <2>1. n \in Clients /\ connections_'[fd] = connections_[fd]
    BY OpenFacts, Zenon
  <2>2. Count(Written(n)) = connections_[fd].next_response_seq
    BY ReplyInvFacts, Zenon
  <2>3. Written(n)' = Written(n)
    BY <1>1, <2>1, Zenon
  <2> QED
    BY <2>1, <2>2, <2>3, Zenon
<1> QED
  BY <1>1, <1>2, <1>3, ReplyInvFacts, Zenon

\* Connections are closed: what was not sent is lost.
LEMMA CloseAllReply ==
  ASSUME TypeInv, IdInv, StrandInv, ReplyInv, NEW S \in SUBSET Open, CloseAll(S)
  PROVE  ReplyInv'
<1>1. /\ CoreType' /\ Open' = Open \ S
      /\ \A g \in Open' : connections_'[g] = connections_[g]
      /\ \A m \in Clients : sock'[m].sent = sock[m].sent
  BY CloseAllKeeps, Zenon
<1>2. ran' = ran /\ ran \in [Clients -> Seq(Nat)]
  BY Zenon DEF CloseAll, pool, TypeInv, CoreType
<1>3. \A m \in Clients : Len(ran[m]) <= Len(ran'[m])
  <2>1. \A m \in Clients : Len(ran[m]) \in Nat
    BY <1>2, LenFacts, ZenonT(30)
  <2>2. \A m \in Clients : Len(ran[m]) <= Len(ran[m])
    BY <2>1
  <2> QED
    BY <1>2, <2>2, Zenon
<1>4. ASSUME NEW n \in Clients, \A g \in S : connections_[g].client # n
      PROVE  Written(n)' = Written(n) /\ GoodReplies(n, Written(n)', ran'[n])
  <2>1. /\ \A g \in Open : connections_[g].client = n => connections_'[g] = connections_[g]
        /\ \A g \in Open' : connections_'[g].client = n => connections_'[g] = connections_[g]
    BY <1>1, <1>4, Zenon
  <2> QED
    BY <1>1, <1>2, <1>3, <2>1, UnmovedClient, Zenon
<1>5. ASSUME NEW n \in Clients, NEW fd \in S, connections_[fd].client = n
      PROVE  GoodReplies(n, Written(n)', ran'[n])
  <2> DEFINE a == sock[n].sent
             t == Written(n)
  <2>1. fd \in Open
    BY Zenon
  <2>2. t = a \o connections_[fd].output
    BY <1>5, <2>1, WrittenFacts, Zenon
  <2>3. \A g \in Fds : ~(connections_'[g] # NoConnection /\ connections_'[g].client = n)
    <3>a. \A g \in Open : connections_[fd].client = connections_[g].client => fd = g
      BY <2>1, Zenon DEF IdInv
    <3>b. \A g \in Open' : g \in Open /\ g # fd
      BY <1>1, Zenon
    <3>1. \A g \in Open' : connections_[g].client # n
      BY <1>5, <3>a, <3>b, Zenon
    <3> QED
      BY <1>1, <3>1, Zenon DEF Open
  <2>4. a \in Seq(ReplyType) /\ sock'[n].sent = a
    <3>1. sock[n] \in Socket
      BY Zenon DEF TypeInv, CoreType
    <3> QED
      BY <1>1, <3>1, SocketFields, Zenon
  <2>5. Written(n)' = a
    <3>1. sock'[n].sent \in Seq(ReplyType)
      BY <2>4, Zenon
    <3>2. WrittenIn(connections_', sock', n) = sock'[n].sent
      BY <2>3, <3>1, WrittenNone, SMTT(30)
    <3> QED
      BY <2>4, <3>2, WrittenNow, Zenon
  <2>6. connections_[fd].output \in Seq(ReplyType) /\ t \in Seq(ReplyType)
    BY <2>1, OpenFacts, ConnectionFields, WrittenFacts, Zenon
  <2>7. Len(a) <= Len(t) /\ \A i \in 1 .. Len(a) : t[i] = a[i]
    <3> DEFINE b == connections_[fd].output
    <3>1. t = a \o b /\ a \in Seq(ReplyType) /\ b \in Seq(ReplyType)
      BY <2>2, <2>4, <2>6, ZenonT(30)
    <3> HIDE DEF a, b, t
    <3> QED
      BY <3>1, ConcatPrefix, Zenon
  <2>8. Sound(n, t) /\ Count(t) <= Len(ran[n])
    BY ReplyInvFacts, Zenon DEF GoodReplies
  <2> HIDE DEF a, t
  <2>9. Sound(n, a) /\ Count(a) <= Count(t)
    BY <2>4, <2>6, <2>7, <2>8, PrefixFacts, ZenonT(30)
  <2>10. Count(a) \in Nat /\ Count(t) \in Nat /\ Len(ran[n]) \in Nat
    BY <1>2, <2>4, <2>6, CountFacts, LenFacts, ZenonT(30)
  <2>11. Count(a) <= Len(ran[n])
    BY <2>8, <2>9, <2>10, SMTT(30)
  <2> QED
    BY <1>2, <2>5, <2>9, <2>11, Zenon DEF GoodReplies
<1>6. \A n \in Clients : GoodReplies(n, Written(n)', ran'[n])
  BY <1>4, <1>5, ZenonT(30)
<1>7. ASSUME NEW fd \in Open', NEW n \in Clients, connections_[fd].client = n
      PROVE  Count(Written(n)') = connections_'[fd].next_response_seq
  <2>1. fd \in Open /\ connections_'[fd] = connections_[fd]
    BY <1>1, Zenon
  <2>3. Count(Written(n)) = connections_[fd].next_response_seq
    BY <1>7, <2>1, ReplyInvFacts, Zenon
  <2>4. \A g \in S : connections_[g].client # n
    BY <1>1, <1>7, <2>1, ZenonT(30) DEF IdInv
  <2>5. Written(n)' = Written(n)
    BY <1>4, <2>4, Zenon
  <2> QED
    BY <2>1, <2>3, <2>5, ZenonT(30)
<1>8. \A fd \in Open' : connections_'[fd].client \in Clients /\ connections_[fd].client = connections_'[fd].client
  BY <1>1, OpenFacts, ZenonT(30)
<1>9. \A fd \in Open' : Count(Written(connections_[fd].client)') = connections_'[fd].next_response_seq
  BY <1>7, <1>8, Zenon
<1> QED
  BY <1>6, <1>9, ReplyInvFacts, Zenon

\* The commands of a connection whose completion was applied have run.
LEMMA AppliedRan ==
  ASSUME NEW v \in WorldType, Settled(v)
  PROVE  Applied(v.c) \in Int /\ Applied(v.c) <= Len(v.ran[v.c.client])
<1> DEFINE c == v.c
           n == v.c.client
           q == c.command_queue
           k == c.next_request_seq
           r == Len(v.ran[n])
<1>1. /\ c \in Connection /\ n \in Clients /\ q \in Seq(Nat) /\ k \in Nat /\ c.strand_running \in BOOLEAN
      /\ v.ran \in [Clients -> Seq(Nat)]
  BY WorldFields, ConnectionFields, SMTT(30)
<1>2. r \in Nat /\ Len(q) \in Nat
  BY <1>1
<1>3. Applied(c) = IF c.strand_running THEN k - Len(q) - 1 ELSE k - Len(q)
  BY Zenon DEF Applied, Launched
<1>4. CASE ~c.strand_running
  <2>1. q = <<>> /\ r = k
    BY <1>4, Zenon DEF Settled, StrandOf
  <2>2. Len(q) = 0
    BY <2>1
  <2> HIDE DEF c, n, q, k, r
  <2>3. Applied(c) = r /\ r \in Int /\ r <= r
    BY <1>1, <1>2, <1>3, <1>4, <2>1, <2>2, SMTT(30)
  <2> QED
    BY <2>3, Zenon DEF c, n, r
<1>5. CASE c.strand_running
  <2>1. PICK job \in PoolOf(v) : job.client = n /\ job.seq = k - Len(q) - 1
    BY <1>5, Zenon DEF Settled, StrandOf, Launched
  <2>2. job \in Range(v.jobs) \cup running \cup Range(v.completions)
    BY <2>1, Zenon DEF PoolOf, JobsIn
  <2>3. r = job.seq \/ r = job.seq + 1
    BY <2>1, <2>2, Zenon DEF Settled, Orderly
  <2> DEFINE x == job.seq
  <2>4. x = k - Len(q) - 1 /\ (r = x \/ r = x + 1)
    BY <2>1, <2>3, ZenonT(30)
  <2> HIDE DEF c, n, q, k, r, x
  <2>5. Applied(c) \in Int /\ Applied(c) <= r
    BY <1>1, <1>2, <1>3, <1>5, <2>4, SMTT(30)
  <2> QED
    BY <2>5, Zenon DEF c, n, r
<1> QED
  BY <1>1, <1>4, <1>5, ZenonT(30)

\* What a handler writes.
LEMMA RepliedFacts ==
  ASSUME NEW w \in WorldType, NEW v \in WorldType, Replied(w, v),
         Sound(w.c.client, w.s.sent \o w.c.output), Count(w.s.sent \o w.c.output) = w.c.next_response_seq
  PROVE  LET after == v.s.sent \o v.c.output
         IN  /\ after \in Seq(ReplyType) /\ Sound(w.c.client, after)
             /\ Count(after) = v.c.next_response_seq
<1> DEFINE n == w.c.client
           k == w.c.next_response_seq
           before == w.s.sent \o w.c.output
           after == v.s.sent \o v.c.output
<1>1. n \in Clients /\ k \in Nat
  BY WorldFields, ConnectionFields, SMTT(30)
<1>2. before \in Seq(ReplyType)
  <2>1. w.s.sent \in Seq(ReplyType) /\ w.c.output \in Seq(ReplyType)
    BY WorldFields, ConnectionFields, SocketFields, ZenonT(30)
  <2> QED
    BY <2>1, ConcatPrefix, ZenonT(30)
<1>3. Sound(n, before) /\ Count(before) = k
  BY Zenon
<1>4. \/ after = before /\ v.c.next_response_seq = k
      \/ after = Append(before, ErrorReply(n)) /\ v.c.next_response_seq = k
      \/ after = Append(before, Reply(n, k)) /\ v.c.next_response_seq = k + 1
  BY Zenon DEF Replied
<1> DEFINE m == v.c.next_response_seq
<1>5. \/ after = before /\ m = k
      \/ after = Append(before, ErrorReply(n)) /\ m = k
      \/ after = Append(before, Reply(n, k)) /\ m = k + 1
  BY <1>4, Zenon
<1>6. after \in Seq(ReplyType) /\ Sound(n, after) /\ Count(after) = m
  <2> HIDE DEF n, k, before, after, m
  <2>1. CASE after = before /\ m = k
    BY <1>2, <1>3, <2>1, Zenon
  <2>2. CASE after = Append(before, ErrorReply(n)) /\ m = k
    <3>1. ErrorReply(n) \in ReplyType /\ ErrorReply(n).seq = -1
      BY <1>1, Zenon DEF ErrorReply, Reply, ReplyType
    <3>2. Sound(n, after) /\ after \in Seq(ReplyType)
      BY <1>1, <1>2, <1>3, <2>2, SoundAppend, Zenon
    <3>3. Count(after) = IF ErrorReply(n).seq >= 0 THEN Count(before) + 1 ELSE Count(before)
      BY <1>2, <2>2, <3>1, CountAppend, Zenon
    <3>4. ~(ErrorReply(n).seq >= 0)
      BY <3>1
    <3> QED
      BY <1>3, <2>2, <3>2, <3>3, <3>4, Zenon
  <2>3. CASE after = Append(before, Reply(n, k)) /\ m = k + 1
    <3>1. Reply(n, k) \in ReplyType /\ Reply(n, k).seq = k
      BY <1>1, Zenon DEF Reply, ReplyType
    <3>2. Sound(n, after) /\ after \in Seq(ReplyType)
      BY <1>1, <1>2, <1>3, <2>3, SoundAppend, Zenon
    <3>3. Count(after) = IF Reply(n, k).seq >= 0 THEN Count(before) + 1 ELSE Count(before)
      BY <1>2, <2>3, <3>1, CountAppend, ZenonT(30)
    <3>4. Reply(n, k).seq >= 0
      BY <1>1, <3>1, SMTT(30)
    <3> QED
      BY <1>3, <2>3, <3>2, <3>3, <3>4, Zenon
  <2> QED
    BY <1>5, <2>1, <2>2, <2>3, Zenon
<1> QED
  BY <1>6, Zenon

\* A handler of fd writes replies of the client of fd only.
LEMMA HandlerReply ==
  ASSUME TypeInv, IdInv, StrandInv, ReplyInv, NEW fd \in Open, NEW v \in WorldType, HandlerStep(fd, v)
  PROVE  ReplyInv'
<1> DEFINE w == World(fd)
<1>0. PICK n \in Clients : n = connections_[fd].client
  BY OpenFacts, Zenon
<1>17. \A g \in Open : connections_[g].client = n => g = fd
  <2>1. \A f, g \in Open : connections_[f].client = connections_[g].client => f = g
    BY Zenon DEF IdInv
  <2> QED
    BY <1>0, <2>1, Zenon
<1>1. /\ w \in WorldType /\ w.c = connections_[fd] /\ w.s = sock[n] /\ w.ran = ran
  BY <1>0, WorldFacts, Zenon
<1>2. /\ v.c.id = w.c.id /\ v.c.client = w.c.client
      /\ Len(v.jobs) <= config_.worker_queue_limit
      /\ Settled(v) /\ OthersKept(w, v) /\ ReplyOf(v.c) /\ Replied(w, v) /\ Touch(fd, v)
  BY Zenon DEF HandlerStep, Handled
<1>3. /\ CoreType'
      /\ Open' \subseteq Open /\ Open \subseteq Open' \cup {fd}
      /\ \A g \in Open' : connections_'[g] = IF g = fd THEN v.c ELSE connections_[g]
      /\ sock'[n].sent = v.s.sent
      /\ \A m \in Clients \ {n} : sock'[m] = sock[m]
      /\ ran' = v.ran
  BY <1>0, <1>2, TouchFacts, SMTT(30)
<1>4. ran' \in [Clients -> Seq(Nat)] /\ ran \in [Clients -> Seq(Nat)]
  BY <1>3, WorldFields, Zenon DEF TypeInv, CoreType
<1> DEFINE before == w.s.sent \o w.c.output
           after == v.s.sent \o v.c.output
<1>5. before = Written(n)
  BY <1>0, <1>1, WrittenFacts, Zenon
<1>6. w.c.client = n /\ v.c.client = n
  BY <1>0, <1>1, <1>2, Zenon
<1>7. Sound(n, before) /\ Count(before) = w.c.next_response_seq
  BY <1>0, <1>1, <1>5, ReplyInvFacts, Zenon DEF GoodReplies
<1>8. after \in Seq(ReplyType) /\ Sound(n, after) /\ Count(after) = v.c.next_response_seq
  <2>1. Sound(w.c.client, w.s.sent \o w.c.output) /\ Count(w.s.sent \o w.c.output) = w.c.next_response_seq
    BY <1>6, <1>7, Zenon
  <2>2. Replied(w, v)
    BY <1>2, Zenon
  <2> HIDE DEF w
  <2> QED
    BY <1>1, <1>6, <2>1, <2>2, RepliedFacts, ZenonT(30)
<1>9. GoodReplies(n, after, ran'[n])
  <2>1. Applied(v.c) \in Int /\ Applied(v.c) <= Len(ran'[n])
    BY <1>2, <1>3, <1>6, AppliedRan, Zenon
  <2>2. v.c.next_response_seq <= Applied(v.c) /\ v.c.next_response_seq \in Nat
    BY <1>2, WorldFields, ConnectionFields, Zenon DEF ReplyOf
  <2>3. Len(ran'[n]) \in Nat
    BY <1>4, LenFacts, Zenon
  <2>4. Count(after) <= Len(ran'[n])
    <3> DEFINE a == Applied(v.c)
               b == v.c.next_response_seq
               l == Len(ran'[n])
    <3>1. a \in Int /\ a <= l /\ b <= a /\ b \in Nat /\ l \in Nat
      BY <2>1, <2>2, <2>3, Zenon
    <3> HIDE DEF a, b, l
    <3>2. b <= l
      BY <3>1
    <3> QED
      BY <1>8, <3>2, Zenon DEF b, l
  <2> QED
    BY <1>8, <2>4, ZenonT(30) DEF GoodReplies
<1> HIDE DEF before, w
<1>10. ASSUME fd \in Open' PROVE Written(n)' = after
  <2>1. fd \in Fds /\ connections_'[fd] # NoConnection /\ connections_'[fd] = v.c
    BY <1>3, <1>10, Zenon DEF Open
  <2>2. \A g \in Open' : connections_'[g].client = n => g = fd
    BY <1>3, <1>17, Zenon
  <2>3. \A g \in Fds : connections_'[g] # NoConnection /\ connections_'[g].client = n => g = fd
    BY <2>2, Zenon DEF Open
  <2>4. connections_'[fd].client = n
    BY <1>6, <2>1, ZenonT(30)
  <2>5. WrittenIn(connections_', sock', n) = sock'[n].sent \o connections_'[fd].output
    BY <2>1, <2>3, <2>4, WrittenOne, Zenon
  <2> QED
    BY <1>3, <2>1, <2>5, WrittenNow, Zenon
<1>11. ASSUME fd \notin Open' PROVE GoodReplies(n, Written(n)', ran'[n])
  <2> DEFINE a == v.s.sent
             b == v.c.output
  <2>1. a \in Seq(ReplyType) /\ b \in Seq(ReplyType)
    BY WorldFields, ConnectionFields, SocketFields, Zenon
  <2>2. \A g \in Fds : ~(connections_'[g] # NoConnection /\ connections_'[g].client = n)
    <3>1. \A g \in Open' : g \in Open /\ g # fd /\ connections_'[g] = connections_[g]
      BY <1>3, <1>11, ZenonT(30)
    <3>2. \A g \in Open' : connections_'[g].client # n
      BY <1>17, <3>1, ZenonT(30)
    <3> QED
      BY <3>2, Zenon DEF Open
  <2>3. sock'[n].sent \in Seq(ReplyType)
    BY <1>3, <2>1, ZenonT(30)
  <2>4. WrittenIn(connections_', sock', n) = sock'[n].sent
    BY <2>2, <2>3, WrittenNone, SMTT(30)
  <2>5. Written(n)' = a
    BY <1>3, <2>4, WrittenNow, Zenon
  <2>6. after = a \o b
    BY Zenon
  <2> HIDE DEF a, b, after
  <2>7. Len(a) <= Len(after) /\ \A i \in 1 .. Len(a) : after[i] = a[i]
    BY <2>1, <2>6, ConcatPrefix, Zenon
  <2>8. Sound(n, a) /\ Count(a) <= Count(after)
    BY <1>8, <2>1, <2>7, PrefixFacts, ZenonT(30)
  <2>9. Count(after) <= Len(ran'[n]) /\ Count(a) \in Nat /\ Count(after) \in Nat /\ Len(ran'[n]) \in Nat
    BY <1>4, <1>8, <1>9, <2>1, CountFacts, LenFacts, ZenonT(30) DEF GoodReplies
  <2>10. Count(a) <= Len(ran'[n])
    BY <2>8, <2>9, SMTT(30)
  <2> QED
    BY <2>5, <2>8, <2>10, Zenon DEF GoodReplies
<1> HIDE DEF after
<1>12. ASSUME NEW m \in Clients \ {n}
       PROVE  Written(m)' = Written(m) /\ GoodReplies(m, Written(m)', ran'[m])
  <2>1. sock'[m].sent = sock[m].sent
    BY <1>3, Zenon
  <2>2. ran'[m] = ran[m]
    BY <1>1, <1>2, <1>3, <1>6, Zenon DEF OthersKept
  <2>3. Len(ran[m]) <= Len(ran'[m])
    <3>1. Len(ran[m]) \in Nat
      BY <1>4, LenFacts, Zenon
    <3>2. Len(ran[m]) <= Len(ran[m])
      BY <3>1
    <3> QED
      BY <2>2, <3>2, Zenon
  <2>4. \A g \in Open : connections_[g].client = m => connections_'[g] = connections_[g]
    <3>1. \A g \in Open : connections_[g].client = m => g # fd
      BY <1>0, Zenon
    <3> QED
      BY <1>3, <3>1, Zenon
  <2>5. \A g \in Open' : connections_'[g].client = m => connections_'[g] = connections_[g]
    <3>1. \A g \in Open' : connections_'[g].client = m => g # fd
      BY <1>3, <1>6, Zenon
    <3> QED
      BY <1>3, <3>1, Zenon
  <2> QED
    BY <1>4, <2>1, <2>3, <2>4, <2>5, UnmovedClient, Zenon
<1>13. \A m \in Clients : GoodReplies(m, Written(m)', ran'[m])
  <2>1. GoodReplies(n, Written(n)', ran'[n])
    BY <1>9, <1>10, <1>11, Zenon
  <2> QED
    BY <1>12, <2>1, Zenon
<1>14. ASSUME NEW g \in Open', NEW m \in Clients, connections_'[g].client = m
       PROVE  Count(Written(m)') = connections_'[g].next_response_seq
  <2>1. CASE g = fd
    BY <1>3, <1>6, <1>8, <1>10, <1>14, <2>1, Zenon
  <2>2. CASE g # fd
    <3>1. g \in Open /\ connections_'[g] = connections_[g]
      BY <1>3, <2>2, Zenon
    <3>2. m # n
      BY <1>14, <1>17, <2>2, <3>1, ZenonT(30)
    <3>3. Count(Written(m)) = connections_[g].next_response_seq
      BY <1>14, <3>1, ReplyInvFacts, Zenon
    <3>4. Written(m)' = Written(m)
      BY <1>12, <3>2, ZenonT(30)
    <3> QED
      BY <3>1, <3>3, <3>4, Zenon
  <2> QED
    BY <2>1, <2>2, Zenon
<1>15. \A g \in Open' : connections_'[g].client \in Clients
  BY <1>3, <1>6, OpenFacts, Zenon
<1>16. \A g \in Open' : Count(Written(connections_[g].client)') = connections_'[g].next_response_seq
  BY <1>14, <1>15, Zenon
<1> QED
  BY <1>13, <1>16, ReplyInvFacts, Zenon

\* A client that is accepted has no reply yet.
LEMMA AcceptReply ==
  ASSUME TypeInv, IdInv, StrandInv, ReplyInv, NEW fd \in Fds, AcceptStep(fd)
  PROVE  ReplyInv'
<1>0. PICK n \in Clients : n = Head(backlog)
  BY AcceptFacts, Zenon
<1>1. /\ fd \notin Open /\ Open' = Open \cup {fd}
      /\ connections_'[fd] = NewConnection(next_connection_id_, n)
      /\ \A g \in Open : connections_'[g] = connections_[g]
      /\ sock'[n].sent = sock[n].sent
      /\ \A m \in Clients \ {n} : sock'[m] = sock[m]
      /\ ran' = ran
  BY <1>0, AcceptFacts, Zenon
<1>2. ran \in [Clients -> Seq(Nat)] /\ next_connection_id_ \in Nat \ {0} /\ backlog \in Seq(Clients)
  BY Zenon DEF TypeInv, CoreType
<1>3. /\ connections_'[fd].client = n /\ connections_'[fd].output = <<>>
      /\ connections_'[fd].next_response_seq = 0
  <2> DEFINE c == NewConnection(next_connection_id_, n)
  <2>1. c.client = n /\ c.output = <<>> /\ c.next_response_seq = 0
    BY <1>2, NewFacts, Zenon
  <2> HIDE DEF c
  <2>2. connections_'[fd] = c
    BY <1>1, Zenon DEF c
  <2> QED
    BY <2>1, <2>2, Zenon
<1>4. sock[n].state = "backlog"
  <2>1. 1 \in DOMAIN backlog /\ backlog[1] = n
    <3>1. backlog # <<>>
      BY Zenon DEF AcceptStep
    <3> QED
      BY <1>0, <1>2, <3>1, SMTT(30)
  <2> QED
    BY <2>1, Zenon DEF IdInv
<1>5. ran[n] = <<>> /\ sock[n].sent = <<>>
  BY <1>4, Zenon DEF IdInv
<1>6. \A g \in Open : connections_[g].client # n
  <2>1. \A g \in Open : sock[connections_[g].client].state = "accepted"
    BY Zenon DEF IdInv
  <2> QED
    BY <1>4, <2>1, ZenonT(30)
<1>7. Written(n)' = <<>>
  <2>1. \A g \in Fds : connections_'[g] # NoConnection /\ connections_'[g].client = n => g = fd
    <3>1. \A g \in Open' : connections_'[g].client = n => g = fd
      BY <1>1, <1>6, Zenon
    <3> QED
      BY <3>1, Zenon DEF Open
  <2>2. connections_'[fd] # NoConnection
    BY <1>1, ZenonT(30) DEF Open
  <2>3. WrittenIn(connections_', sock', n) = sock'[n].sent \o connections_'[fd].output
    BY <1>3, <2>1, <2>2, WrittenOne, Zenon
  <2>4. WrittenIn(connections_', sock', n) = <<>> \o <<>>
    BY <1>1, <1>3, <1>5, <2>3, Zenon
  <2>5. <<>> \o <<>> = <<>>
    OBVIOUS
  <2> QED
    BY <2>4, <2>5, WrittenNow, Zenon
<1>8. Written(n) = <<>>
  BY <1>5, <1>6, WrittenFacts, ZenonT(30)
<1>9. Count(<<>>) = 0
  <2>1. CommandReplies(<<>>) = {}
    BY DEF CommandReplies
  <2> QED
    BY <2>1, FS_EmptySet, Zenon DEF Count
<1>10. GoodReplies(n, Written(n)', ran'[n])
  <2>1. GoodReplies(n, Written(n), ran[n])
    BY ReplyInvFacts, Zenon
  <2> QED
    BY <1>1, <1>7, <1>8, <2>1, ZenonT(30)
<1>11. ASSUME NEW m \in Clients \ {n}
       PROVE  Written(m)' = Written(m) /\ GoodReplies(m, Written(m)', ran'[m])
  <2>1. sock'[m].sent = sock[m].sent /\ ran' \in [Clients -> Seq(Nat)]
    BY <1>1, <1>2, Zenon
  <2>2. Len(ran[m]) <= Len(ran'[m])
    <3>1. Len(ran[m]) \in Nat
      BY <1>2, LenFacts, Zenon
    <3>2. Len(ran[m]) <= Len(ran[m])
      BY <3>1
    <3> QED
      BY <1>1, <3>2, Zenon
  <2>3. \A g \in Open : connections_[g].client = m => connections_'[g] = connections_[g]
    BY <1>1, Zenon
  <2>4. \A g \in Open' : connections_'[g].client = m => connections_'[g] = connections_[g]
    BY <1>1, <1>3, Zenon
  <2> QED
    BY <2>1, <2>2, <2>3, <2>4, UnmovedClient, Zenon
<1>12. \A m \in Clients : GoodReplies(m, Written(m)', ran'[m])
  BY <1>10, <1>11, Zenon
<1>13. ASSUME NEW g \in Open', NEW m \in Clients, connections_'[g].client = m
       PROVE  Count(Written(m)') = connections_'[g].next_response_seq
  <2>1. CASE g = fd
    BY <1>3, <1>7, <1>9, <1>13, <2>1, Zenon
  <2>2. CASE g # fd
    <3>1. g \in Open /\ connections_'[g] = connections_[g]
      BY <1>1, <2>2, Zenon
    <3>2. m # n
      BY <1>6, <1>13, <3>1, Zenon
    <3>3. Count(Written(m)) = connections_[g].next_response_seq
      BY <1>13, <3>1, ReplyInvFacts, Zenon
    <3>4. Written(m)' = Written(m)
      BY <1>11, <3>2, Zenon
    <3> QED
      BY <3>1, <3>3, <3>4, Zenon
  <2> QED
    BY <2>1, <2>2, Zenon
<1>14. \A g \in Open' : connections_'[g].client \in Clients
  BY <1>1, <1>3, OpenFacts, Zenon
<1>15. \A g \in Open' : Count(Written(connections_[g].client)') = connections_'[g].next_response_seq
  BY <1>13, <1>14, Zenon
<1> QED
  BY <1>12, <1>15, ReplyInvFacts, Zenon

\* The replies stay those of the commands whatever a step does.
LEMMA KindReply ==
  ASSUME TypeInv, IdInv, StrandInv, ReplyInv, Kind
  PROVE  ReplyInv'
<1>1. ran \in [Clients -> Seq(Nat)] /\ \A m \in Clients : Len(ran[m]) <= Len(ran[m])
  <2>1. ran \in [Clients -> Seq(Nat)]
    BY Zenon DEF TypeInv, CoreType
  <2>2. \A m \in Clients : Len(ran[m]) \in Nat
    BY <2>1, LenFacts, Zenon
  <2> QED
    BY <2>1, <2>2, SMTT(30)
<1>2. CASE SocketsOnly
  <2>1. connections_' = connections_ /\ ran' = ran /\ \A m \in Clients : sock'[m].sent = sock[m].sent
    BY <1>2, Zenon DEF SocketsOnly, pool
  <2> QED
    BY <1>1, <2>1, SameConnectionsReply, Zenon
<1>3. CASE \E fd \in Open : \E v \in WorldType : HandlerStep(fd, v)
  BY <1>3, HandlerReply, Zenon
<1>4. CASE \E S \in SUBSET Open : CloseAll(S)
  BY <1>4, CloseAllReply, Zenon
<1>5. CASE WorkerStep
  <2>1. /\ CoreType' /\ connections_' = connections_ /\ sock' = sock
        /\ \A m \in Clients : Len(ran'[m]) >= Len(ran[m])
    BY <1>5, WorkerStepKeeps, Zenon
  <2>2. ran' \in [Clients -> Seq(Nat)]
    BY <2>1, Zenon DEF CoreType
  <2>3. \A m \in Clients : Len(ran[m]) \in Nat /\ Len(ran'[m]) \in Nat
    BY <1>1, <2>2, LenFacts, Zenon
  <2>4. \A m \in Clients : Len(ran[m]) <= Len(ran'[m])
    BY <2>1, <2>3, SMTT(30)
  <2> QED
    BY <2>1, <2>2, <2>4, SameConnectionsReply, Zenon
<1>6. CASE \E fd \in Fds : AcceptStep(fd)
  BY <1>6, AcceptReply, Zenon
<1>7. CASE \E n \in Clients : Connect(n) /\ config_' = config_
  <2>1. connections_' = connections_ /\ ran' = ran /\ \A m \in Clients : sock'[m].sent = sock[m].sent
    BY <1>7, ConnectKeeps, Zenon
  <2> QED
    BY <1>1, <2>1, SameConnectionsReply, Zenon
<1> QED
  BY <1>2, <1>3, <1>4, <1>5, <1>6, <1>7, Zenon DEF Kind

-----------------------------------------------------------------------------
(* The pool, and the theorems.                                             *)

\* No more jobs run than there are workers.
RunInv == IsFiniteSet(running) /\ Cardinality(running) <= config_.worker_threads

\* A worker takes a job only when fewer than worker_threads are taken.
LEMMA KindRun ==
  ASSUME TypeInv, RunInv, Kind
  PROVE  RunInv'
<1>1. CASE running' = running /\ config_' = config_
  BY <1>1, Zenon DEF RunInv
<1>2. CASE WorkerStep
  <2>1. config_' = config_ /\ config_.worker_threads \in Nat
    BY <1>2, Constants, Zenon DEF WorkerStep
  <2>2. IsFiniteSet(running) /\ Cardinality(running) \in Nat /\ Cardinality(running) <= config_.worker_threads
    BY FS_CardinalityType, Zenon DEF RunInv
  <2>3. CASE TakeJob
    <3>1. running' = running \cup {Head(jobs)} /\ Cardinality(running) < config_.worker_threads
      BY <2>3, Zenon DEF TakeJob
    <3>2. /\ IsFiniteSet(running')
          /\ Cardinality(running') = Cardinality(running) \/ Cardinality(running') = Cardinality(running) + 1
      BY <2>2, <3>1, FS_AddElement, Zenon
    <3>3. Cardinality(running') <= config_.worker_threads
      BY <2>1, <2>2, <3>1, <3>2, SMTT(30)
    <3> QED
      BY <2>1, <3>2, <3>3, Zenon DEF RunInv
  <2>4. CASE \E job \in running : RunJob(job)
    <3>1. PICK job \in running : running' = running \ {job}
      BY <2>4, Zenon DEF RunJob
    <3>2. IsFiniteSet(running') /\ Cardinality(running') = Cardinality(running) - 1
      BY <2>2, <3>1, FS_RemoveElement, Zenon
    <3>3. Cardinality(running') <= config_.worker_threads
      BY <2>1, <2>2, <3>2, SMTT(30)
    <3> QED
      BY <2>1, <3>2, <3>3, Zenon DEF RunInv
  <2> QED
    BY <1>1, <1>2, <2>1, <2>3, <2>4, Zenon DEF WorkerStep
<1>3. CASE SocketsOnly
  BY <1>1, <1>3, Zenon DEF SocketsOnly, pool
<1>4. CASE \E fd \in Open : \E v \in WorldType : HandlerStep(fd, v)
  <2>1. PICK fd \in Open, v \in WorldType : HandlerStep(fd, v)
    BY <1>4, Zenon
  <2>2. Touch(fd, v) /\ Len(v.jobs) <= config_.worker_queue_limit
    BY <2>1, Zenon DEF HandlerStep, Handled
  <2>3. running' = running /\ config_' = config_
    BY <2>2, TouchFacts, Zenon DEF Touch
  <2> QED
    BY <1>1, <2>3, Zenon
<1>5. CASE \E S \in SUBSET Open : CloseAll(S)
  BY <1>1, <1>5, Zenon DEF CloseAll, pool
<1>6. CASE \E fd \in Fds : AcceptStep(fd)
  BY <1>1, <1>6, Zenon DEF AcceptStep, pool
<1>7. CASE \E n \in Clients : Connect(n) /\ config_' = config_
  BY <1>1, <1>7, Zenon DEF Connect, pool
<1> QED
  BY <1>2, <1>3, <1>4, <1>5, <1>6, <1>7, Zenon DEF Kind

\* Nothing is written, and nothing runs, at the start.
LEMMA InitReply ==
  ASSUME Init
  PROVE  ReplyInv /\ RunInv
<1>1. /\ connections_ = [fd \in Fds |-> NoConnection] /\ running = {}
      /\ sock = [n \in Clients |-> NewSocket] /\ ran = [n \in Clients |-> <<>>]
  BY Zenon DEF Init
<1>2. TypeInv /\ IdInv
  BY InitInv, Zenon DEF CoreInv
<1>3. Open = {}
  BY <1>1, Zenon DEF Open
<1>4. ASSUME NEW n \in Clients PROVE GoodReplies(n, Written(n), ran[n])
  <2>1. sock[n].sent = <<>> /\ ran[n] = <<>>
    BY <1>1, Zenon DEF NewSocket
  <2>2. Written(n) = <<>>
    BY <1>2, <1>3, <2>1, WrittenFacts, Zenon
  <2>3. CommandReplies(<<>>) = {}
    BY DEF CommandReplies
  <2>4. Count(<<>>) = 0
    BY <2>3, FS_EmptySet, Zenon DEF Count
  <2>5. Count(<<>>) <= Len(<<>>)
    BY <2>4, SMTT(30)
  <2>6. Sound(n, <<>>)
    BY DEF Sound
  <2> QED
    BY <2>1, <2>2, <2>5, <2>6, Zenon DEF GoodReplies
<1>5. ReplyInv
  BY <1>3, <1>4, ReplyInvFacts, ZenonT(30)
<1>6. RunInv
  <2>1. IsFiniteSet({}) /\ Cardinality({}) = 0
    BY FS_EmptySet, Zenon
  <2>2. config_.worker_threads \in Nat
    BY <1>2, Constants, Zenon
  <2>3. Cardinality({}) <= config_.worker_threads
    BY <2>1, <2>2, SMTT(30)
  <2> QED
    BY <1>1, <2>1, <2>3, Zenon DEF RunInv
<1> QED
  BY <1>5, <1>6, ZenonT(30)

\* The replies and the running jobs are always as the invariants say.
THEOREM ServerKeepsItsReplies == Spec => [](CoreInv /\ WriteInv /\ ReplyInv /\ RunInv)
<1> DEFINE I == CoreInv /\ WriteInv /\ ReplyInv /\ RunInv
<1>1. Init => I
  BY InitInv, InitReply, ZenonT(30)
<1>2. I /\ [Next]_<<vars, config_>> => I'
  <2>1. SUFFICES ASSUME CoreInv, WriteInv, ReplyInv, RunInv, [Next]_<<vars, config_>>
                 PROVE  CoreInv' /\ WriteInv' /\ ReplyInv' /\ RunInv'
    BY Zenon
  <2>2. Leads
    BY <2>1, NextLeads, Zenon
  <2>3. Kind /\ TypeInv /\ IdInv /\ StrandInv
    BY <2>1, <2>2, ZenonT(30) DEF Leads, CoreInv
  <2>4. ReplyInv' /\ RunInv'
    BY <2>1, <2>3, KindReply, KindRun, Zenon
  <2> QED
    BY <2>1, <2>2, <2>4, LeadsKeeps, Zenon
<1> QED
  BY <1>1, <1>2, PTL DEF Spec

\* Replies reach the client that asked, each once and in the order of the
\* requests, and only for commands that were executed: apply_completion, for
\* any number of clients, descriptors and workers.
THEOREM RepliesAreInOrder == Spec => []RepliesMatchRequests
<1>1. ReplyInv => RepliesMatchRequests
  BY Zenon DEF ReplyInv, Sound, RepliesMatchRequests
<1> QED
  BY <1>1, ServerKeepsItsReplies, PTL

\* The state always has the shape of the code's, the queue of jobs and the
\* output of a connection within their limits.
THEOREM ServerIsWellTyped == Spec => []TypeOK
<1>1. ASSUME CoreInv, RunInv PROVE TypeOK
  <2>1. TypeInv /\ CoreType /\ IdInv /\ StrandInv
    BY <1>1, Zenon DEF CoreInv, TypeInv
  <2>2. ASSUME NEW fd \in Open
        PROVE  LET c == connections_[fd]
               IN  /\ c.id \in 1..(next_connection_id_ - 1) /\ c.client \in Clients
                   /\ c.interest \subseteq Interests
                   /\ {c.closing, c.read_closed, c.strand_running} \subseteq BOOLEAN
                   /\ {c.inflight, c.next_request_seq, c.next_response_seq} \subseteq Nat
                   /\ Range(c.parser) \subseteq config_.messages
                   /\ c.pending_responses \subseteq 0..(c.next_request_seq - 1)
                   /\ Len(c.output) <= config_.max_output_buffer + 1
    <3> DEFINE c == connections_[fd]
    <3>1. c \in Connection
      BY <2>1, OpenFacts, Zenon
    <3>2. /\ c.id < next_connection_id_ /\ QueueOf(c) /\ ReplyOf(c)
          /\ next_connection_id_ \in Nat /\ config_.max_output_buffer \in Nat
      BY <2>1, Constants, ZenonT(30) DEF IdInv, StrandInv, StrandOf, CoreType
    <3>3. /\ c.id \in Nat /\ c.id # 0 /\ c.client \in Clients /\ c.parser \in Seq(config_.messages)
          /\ c.interest \subseteq Interests /\ c.read_closed \in BOOLEAN /\ c.closing \in BOOLEAN
          /\ c.inflight \in Nat /\ c.command_queue \in Seq(Nat) /\ c.strand_running \in BOOLEAN
          /\ c.pending_responses \subseteq Nat /\ c.next_request_seq \in Nat
          /\ c.next_response_seq \in Nat /\ c.output \in Seq(ReplyType)
      BY <3>1, ConnectionFields, Zenon
    <3> HIDE DEF c
    <3>4. c.id \in 1..(next_connection_id_ - 1)
      BY <3>2, <3>3, SMTT(30)
    <3>5. {c.closing, c.read_closed, c.strand_running} \subseteq BOOLEAN
      BY <3>3, Zenon
    <3>6. {c.inflight, c.next_request_seq, c.next_response_seq} \subseteq Nat
      BY <3>3, Zenon
    <3>7. Range(c.parser) \subseteq config_.messages
      BY <3>3, SMTT(30) DEF Range
    <3>8. Len(c.output) <= config_.max_output_buffer + 1
      BY <3>2, Zenon DEF ReplyOf
    <3>9. c.pending_responses \subseteq 0..(c.next_request_seq - 1)
      <4>1. /\ c.pending_responses \subseteq c.next_response_seq + 1 .. Applied(c) - 1
            /\ Applied(c) = IF c.strand_running THEN c.next_request_seq - Len(c.command_queue) - 1
                            ELSE c.next_request_seq - Len(c.command_queue)
        BY <3>2, Zenon DEF ReplyOf, Applied, Launched
      <4>2. Len(c.command_queue) \in Nat
        BY <3>3, LenFacts, ZenonT(30)
      <4>3. Applied(c) \in Int /\ Applied(c) <= c.next_request_seq
        BY <3>3, <4>1, <4>2, SMTT(30)
      <4> QED
        BY <3>3, <4>1, <4>3, SMTT(30)
    <3> QED
      BY <3>3, <3>4, <3>5, <3>6, <3>7, <3>8, <3>9, ZenonT(30) DEF c
  <2>3. ASSUME NEW i \in DOMAIN stack
        PROVE  stack[i].pc \in {"wait", "drain", "events", "idle", "accept", "read",
                                "parse", "interest", "finish", "ended", "threw"}
    <3>1. stack[i] \in FrameType
      BY <2>1 DEF TypeInv
    <3> QED
      BY <3>1, Zenon DEF FrameType, Working, Bottom
  <2>4. \A n \in Clients : sock[n].unread \in 0..SendRoom
    BY <2>1, SocketFields, Zenon DEF CoreType
  <2> QED
    BY <1>1, <2>1, <2>2, <2>3, <2>4, Zenon DEF TypeOK, TypeInv, CoreType, RunInv
<1>2. CoreInv /\ WriteInv /\ ReplyInv /\ RunInv => TypeOK
  BY <1>1, Zenon
<1> QED
  BY <1>2, ServerKeepsItsReplies, PTL

=============================================================================
