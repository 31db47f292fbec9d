------------------------- MODULE ServerStackProofs --------------------------
(***************************************************************************)
(* The steps of the I/O thread of Server, one lemma per action, and the    *)
(* invariant they keep: the order of the commands, the count of the        *)
(* commands in flight, and the events that output waits for.               *)
(***************************************************************************)
EXTENDS ServerProofs

-----------------------------------------------------------------------------
(* The stack of the I/O thread.                                            *)

\* A frame on top of a stack.
LEMMA ConsFacts ==
  ASSUME NEW S, NEW s \in Seq(S), NEW f \in S
  PROVE  LET t == <<f>> \o s
         IN  /\ t \in Seq(S) /\ Len(t) = Len(s) + 1 /\ Len(s) \in Nat /\ t[1] = f /\ Head(t) = f
             /\ \A i \in 1 .. Len(s) : t[i + 1] = s[i]
             /\ DOMAIN t = 1 .. Len(s) + 1 /\ DOMAIN s = 1 .. Len(s) /\ t # <<>>
             /\ Range(t) = {f} \cup Range(s)
<1> DEFINE t == <<f>> \o s
<1>1. /\ t \in Seq(S) /\ Len(t) = Len(s) + 1 /\ Len(s) \in Nat /\ t[1] = f
      /\ \A i \in 1 .. Len(s) : t[i + 1] = s[i]
      /\ DOMAIN t = 1 .. Len(s) + 1 /\ DOMAIN s = 1 .. Len(s)
  OBVIOUS
<1> HIDE DEF t
<1>2. t # <<>> /\ Head(t) = f
  BY <1>1
<1>3. ASSUME NEW x \in Range(t) PROVE x \in {f} \cup Range(s)
  <2>1. PICK i \in DOMAIN t : x = t[i]
    BY <1>3, Zenon DEF Range
  <2>2. CASE i = 1
    BY <1>1, <2>1, <2>2, Zenon
  <2>3. CASE i # 1
    <3>1. i - 1 \in 1 .. Len(s) /\ i = (i - 1) + 1
      BY <1>1, <2>1, <2>3
    <3>2. x = s[i - 1] /\ i - 1 \in DOMAIN s
      BY <1>1, <2>1, <3>1, Zenon
    <3> QED
      BY <3>2, Zenon DEF Range
  <2> QED
    BY <2>2, <2>3, Zenon
<1>4. f \in Range(t)
  <2>1. 1 \in DOMAIN t
    BY <1>1
  <2> QED
    BY <1>1, <2>1, Zenon DEF Range
<1>5. ASSUME NEW x \in Range(s) PROVE x \in Range(t)
  <2>1. PICK i \in DOMAIN s : x = s[i]
    BY <1>5, Zenon DEF Range
  <2>2. i + 1 \in DOMAIN t /\ x = t[i + 1]
    BY <1>1, <2>1
  <2> QED
    BY <2>2, Zenon DEF Range
<1>6. Range(t) = {f} \cup Range(s)
  BY <1>3, <1>4, <1>5, Zenon
<1> QED
  BY <1>1, <1>2, <1>6, Zenon DEF t

\* Two frames are pushed at once.
LEMMA ConsTwo ==
  ASSUME NEW s \in Seq(FrameType), NEW f \in FrameType, NEW g \in FrameType
  PROVE  <<f, g>> \o s = <<f>> \o (<<g>> \o s)
<1> DEFINE S == FrameType
<1>0. s \in Seq(S) /\ f \in S /\ g \in S
  BY Zenon
<1> HIDE DEF S
<1>1. <<f>> \in Seq(S) /\ <<g>> \in Seq(S)
  BY <1>0
<1>2. <<f, g>> = <<f>> \o <<g>>
  <2>1. /\ Len(<<f, g>>) = 2 /\ Len(<<f>> \o <<g>>) = 2
        /\ <<f, g>> \in Seq(S) /\ <<f>> \o <<g>> \in Seq(S)
    BY <1>0
  <2>2. \A i \in 1 .. 2 : <<f, g>>[i] = (<<f>> \o <<g>>)[i]
    BY <1>0
  <2> QED
    BY <2>1, <2>2, SameElements, Zenon
<1>3. (<<f>> \o <<g>>) \o s = <<f>> \o (<<g>> \o s)
  BY <1>0, <1>1, ConcatAssoc
<1> QED
  BY <1>2, <1>3, Zenon

\* Three frames are pushed at once.
LEMMA ConsThree ==
  ASSUME NEW s \in Seq(FrameType), NEW f \in FrameType, NEW g \in FrameType, NEW h \in FrameType
  PROVE  <<f, g, h>> \o s = <<f>> \o (<<g>> \o (<<h>> \o s))
<1> DEFINE S == FrameType
<1>0. s \in Seq(S) /\ f \in S /\ g \in S /\ h \in S
  BY Zenon
<1>a. <<g, h>> \o s = <<g>> \o (<<h>> \o s)
  BY ConsTwo, Zenon
<1> HIDE DEF S
<1>1. <<f>> \in Seq(S) /\ <<g, h>> \in Seq(S)
  BY <1>0
<1>2. <<f, g, h>> = <<f>> \o <<g, h>>
  <2>1. /\ Len(<<f, g, h>>) = 3 /\ Len(<<f>> \o <<g, h>>) = 3
        /\ <<f, g, h>> \in Seq(S) /\ <<f>> \o <<g, h>> \in Seq(S)
    BY <1>0
  <2>2. \A i \in 1 .. 3 : <<f, g, h>>[i] = (<<f>> \o <<g, h>>)[i]
    BY <1>0
  <2> QED
    BY <2>1, <2>2, SameElements, Zenon
<1>3. (<<f>> \o <<g, h>>) \o s = <<f>> \o (<<g, h>> \o s)
  BY <1>0, <1>1, ConcatAssoc
<1> QED
  BY <1>2, <1>3, <1>a, Zenon

\* With a frame on top that works on no connection, no frame does.
LEMMA QuietTop ==
  ASSUME NEW s \in Seq(FrameType), NEW open, NEW shut, Shape(s, open, shut),
         Head(s).pc \notin {"read", "parse"}
  PROVE  /\ \A i \in 2 .. Len(s) : s[i].pc \notin Working
         /\ Head(s).pc \notin Working => \A i \in DOMAIN s : s[i].pc \notin Working
         /\ Head(s) = s[1] /\ DOMAIN s = 1 .. Len(s) /\ Len(s) \in Nat \ {0}
<1>1. Head(s) = s[1] /\ DOMAIN s = 1 .. Len(s) /\ Len(s) \in Nat \ {0}
  BY TailFacts, Zenon DEF Shape
<1>2. ASSUME NEW i \in 2 .. Len(s), s[i].pc \in Working PROVE FALSE
  <2>1. i \in DOMAIN s /\ 1 \in 1 .. i - 1
    BY <1>1
  <2>2. s[1].pc \in {"read", "parse"}
    BY <1>2, <2>1, Zenon DEF Shape
  <2> QED
    BY <1>1, <2>2, Zenon
<1>3. \A i \in DOMAIN s : i = 1 \/ i \in 2 .. Len(s)
  BY <1>1
<1> QED
  BY <1>1, <1>2, <1>3, Zenon

\* A change of the connections that the stack allows.
LEMMA Change ==
  ASSUME NEW s \in Seq(FrameType), NEW open, NEW shut, Shape(s, open, shut), NEW open2, NEW shut2,
         \/ Head(s).pc \notin Working
         \/ open \subseteq open2 /\ (Head(s).pc = "parse" => Head(s).fd \notin shut2)
  PROVE  Shape(s, open2, shut2)
<1>1. CASE Head(s).pc \notin Working
  <2>1. Head(s).pc \notin {"read", "parse"}
    BY <1>1, Zenon DEF Working
  <2>2. \A i \in DOMAIN s : s[i].pc \notin Working
    BY <1>1, <2>1, QuietTop, Zenon
  <2>3. \A i \in DOMAIN s : s[i].pc # "parse"
    BY <2>2, Zenon DEF Working
  <2> QED
    BY <2>2, <2>3, Zenon DEF Shape
<1>2. CASE open \subseteq open2 /\ (Head(s).pc = "parse" => Head(s).fd \notin shut2)
  <2>1. s # <<>>
    BY Zenon DEF Shape
  <2>2. Head(s) = s[1]
    BY <2>1, TailFacts, Zenon
  <2> QED
    BY <1>2, <2>2, Zenon DEF Shape
<1> QED
  BY <1>1, <1>2, Zenon

\* A function returns.
LEMMA Pop ==
  ASSUME NEW s \in Seq(FrameType), NEW open, NEW shut, Shape(s, open, shut),
         Head(s).pc \notin Bottom, NEW open2, NEW shut2,
         open \subseteq open2 \/ Head(s).pc \notin {"read", "parse"}
  PROVE  Tail(s) \in Seq(FrameType) /\ Shape(Tail(s), open2, shut2) /\ Range(s) = {Head(s)} \cup Range(Tail(s))
<1> DEFINE t == Tail(s)
<1>0. s # <<>>
  BY Zenon DEF Shape
<1>1. /\ t \in Seq(FrameType) /\ Len(t) = Len(s) - 1 /\ Len(t) \in Nat
      /\ Head(s) = s[1] /\ Head(s) \in FrameType
      /\ \A i \in 1 .. Len(s) - 1 : t[i] = s[i + 1]
      /\ DOMAIN t = 1 .. Len(s) - 1 /\ DOMAIN s = 1 .. Len(s) /\ Len(s) \in Nat \ {0}
      /\ Range(s) = {Head(s)} \cup Range(t)
  BY <1>0, TailFacts, Zenon
<1> HIDE DEF t
<1>2. Len(s) # 1
  <2>1. 1 \in DOMAIN s
    BY <1>1
  <2> QED
    BY <1>1, <2>1, Zenon DEF Shape
<1>3. t # <<>>
  BY <1>1, <1>2
<1>4. ASSUME NEW i \in DOMAIN t
      PROVE  /\ t[i].pc \in Bottom <=> i = Len(t)
             /\ t[i].pc \in Working => /\ t[i].fd \in open2
                                       /\ \A j \in 1 .. i - 1 : t[j].pc \in {"read", "parse"}
             /\ t[i].pc # "parse"
             /\ t[i].pc \in {"read", "parse"} => Visits(t, t[i].fd)
  <2>1. i + 1 \in DOMAIN s /\ t[i] = s[i + 1] /\ i + 1 # 1 /\ (i = Len(t) <=> i + 1 = Len(s)) /\ 1 \in 1 .. (i + 1) - 1
    BY <1>1
  <2>2. \A j \in 1 .. i - 1 : j + 1 \in 1 .. (i + 1) - 1 /\ t[j] = s[j + 1]
    BY <1>1
  <2>3. /\ s[i + 1].pc \in Bottom <=> i + 1 = Len(s)
        /\ s[i + 1].pc \in Working => /\ s[i + 1].fd \in open
                                      /\ \A j \in 1 .. (i + 1) - 1 : s[j].pc \in {"read", "parse"}
        /\ s[i + 1].pc = "parse" => i + 1 = 1
        /\ s[i + 1].pc \in {"read", "parse"} => Visits(s, s[i + 1].fd)
    BY <2>1, Zenon DEF Shape
  <2>4. t[i].pc \in Bottom <=> i = Len(t)
    BY <2>1, <2>3, Zenon
  <2>5. t[i].pc # "parse"
    BY <2>1, <2>3, Zenon
  <2>6. ASSUME t[i].pc \in Working
        PROVE  t[i].fd \in open2 /\ \A j \in 1 .. i - 1 : t[j].pc \in {"read", "parse"}
    <3>1. s[1].pc \in {"read", "parse"}
      BY <2>1, <2>3, <2>6, Zenon
    <3>2. open \subseteq open2
      BY <1>1, <3>1, Zenon
    <3> QED
      BY <2>1, <2>2, <2>3, <2>6, <3>2, Zenon
  <2>7. ASSUME t[i].pc \in {"read", "parse"} PROVE Visits(t, t[i].fd)
    <3>1. s[i + 1].pc \in Working
      BY <2>1, <2>7, Zenon DEF Working
    <3>2. s[1].pc \in {"read", "parse"}
      BY <2>1, <2>3, <3>1, Zenon
    <3>3. Head(s).pc \notin {"interest", "finish"}
      BY <1>1, <3>2, Zenon
    <3>4. Visits(s, t[i].fd)
      BY <2>1, <2>3, <2>7, Zenon
    <3> QED
      BY <1>1, <3>3, <3>4, Zenon DEF Visits
  <2> QED
    BY <2>4, <2>5, <2>6, <2>7, Zenon
<1>5. Shape(t, open2, shut2)
  BY <1>3, <1>4, Zenon DEF Shape
<1> QED
  BY <1>1, <1>5, Zenon DEF t

\* A function is called.
LEMMA Push ==
  ASSUME NEW s \in Seq(FrameType), NEW open, NEW shut, Shape(s, open, shut),
         NEW f \in FrameType, f.pc \notin Bottom, Head(s).pc # "parse",
         f.pc \in {"read", "parse"} \/ Head(s).pc \notin Working,
         f.pc \in Working => f.fd \in open, f.pc = "parse" => f.fd \notin shut,
         f.pc \in {"read", "parse"} => Visits(s, f.fd)
  PROVE  LET t == <<f>> \o s
         IN  t \in Seq(FrameType) /\ Shape(t, open, shut) /\ Range(t) = {f} \cup Range(s) /\ Head(t) = f
<1> DEFINE t == <<f>> \o s
<1>0. s # <<>>
  BY Zenon DEF Shape
<1>1. /\ t \in Seq(FrameType) /\ Len(t) = Len(s) + 1 /\ Len(s) \in Nat /\ t[1] = f /\ Head(t) = f
      /\ \A i \in 1 .. Len(s) : t[i + 1] = s[i]
      /\ DOMAIN t = 1 .. Len(s) + 1 /\ DOMAIN s = 1 .. Len(s) /\ t # <<>>
      /\ Range(t) = {f} \cup Range(s)
  BY ConsFacts
<1>2. Len(s) # 0 /\ Head(s) = s[1]
  BY <1>0, TailFacts, Zenon
<1> HIDE DEF t
<1>3. \A fd : Visits(s, fd) => Visits(t, fd)
  BY <1>1, Zenon DEF Visits
<1>4. ASSUME NEW i \in DOMAIN t
      PROVE  /\ t[i].pc \in Bottom <=> i = Len(t)
             /\ t[i].pc \in Working => /\ t[i].fd \in open
                                       /\ \A j \in 1 .. i - 1 : t[j].pc \in {"read", "parse"}
             /\ t[i].pc = "parse" => i = 1 /\ t[i].fd \notin shut
             /\ t[i].pc \in {"read", "parse"} => Visits(t, t[i].fd)
  <2>1. CASE i = 1
    <3>1. 1 # Len(t) /\ \A j \in 1 .. i - 1 : FALSE
      BY <1>1, <1>2, <2>1
    <3> QED
      BY <1>1, <1>3, <2>1, <3>1, Zenon
  <2>2. CASE i # 1
    <3> DEFINE k == i - 1
    <3>1. k \in DOMAIN s /\ i = k + 1 /\ t[i] = s[k] /\ (i = Len(t) <=> k = Len(s))
      BY <1>1, <2>2
    <3>2. \A j \in 1 .. i - 1 : j = 1 \/ (j - 1 \in 1 .. k - 1 /\ t[j] = s[j - 1])
      BY <1>1, <2>2
    <3>a. 1 = k \/ 1 \in 1 .. k - 1
      BY <1>1, <2>2
    <3> HIDE DEF k
    <3>3. /\ s[k].pc \in Bottom <=> k = Len(s)
          /\ s[k].pc \in Working => /\ s[k].fd \in open
                                    /\ \A j \in 1 .. k - 1 : s[j].pc \in {"read", "parse"}
          /\ s[k].pc = "parse" => k = 1 /\ s[k].fd \notin shut
          /\ s[k].pc \in {"read", "parse"} => Visits(s, s[k].fd)
      BY <3>1, Zenon DEF Shape
    <3>4. s[k].pc # "parse"
      BY <1>2, <3>3, Zenon
    <3>5. ASSUME s[k].pc \in Working PROVE \A j \in 1 .. i - 1 : t[j].pc \in {"read", "parse"}
      <4>1. s[1].pc \in Working
        <5>1. CASE k = 1
          BY <3>5, <5>1, Zenon
        <5>2. CASE 1 \in 1 .. k - 1
          <6>1. s[1].pc \in {"read", "parse"}
            BY <3>3, <3>5, <5>2, Zenon
          <6> QED
            BY <6>1, Zenon DEF Working
        <5> QED
          BY <3>a, <5>1, <5>2, Zenon
      <4>2. f.pc \in {"read", "parse"}
        BY <1>2, <4>1, Zenon
      <4> QED
        BY <1>1, <3>2, <3>3, <3>5, <4>2, Zenon
    <3> QED
      BY <1>3, <3>1, <3>3, <3>4, <3>5, Zenon
  <2> QED
    BY <2>1, <2>2, Zenon
<1>5. Shape(t, open, shut)
  BY <1>1, <1>4, Zenon DEF Shape
<1> QED
  BY <1>1, <1>5, Zenon DEF t

-----------------------------------------------------------------------------
(* The steps of the I/O thread.                                            *)

\* A step leads to a state that is as it should be.
Leads ==
  /\ Kind /\ batch' \in [Fds \cup {Listener} -> SUBSET Interests]
  /\ stack' \in Seq(FrameType) /\ stopping_' \in BOOLEAN
  /\ Shape(stack', Open', Closing') /\ WriteInv'

\* The frame on top, and the frames below it.
LEMMA TopFacts ==
  ASSUME CoreInv
  PROVE  LET f == Head(stack)
         IN  /\ stack # <<>> /\ stack \in Seq(FrameType) /\ f \in FrameType
             /\ Tail(stack) \in Seq(FrameType) /\ Range(stack) = {f} \cup Range(Tail(stack))
             /\ f.pc \in Working => f.fd \in Open
             /\ f.pc = "parse" => f.fd \notin Closing
             /\ f.pc \in {"read", "parse"} => Visits(Tail(stack), f.fd)
             /\ f.pc \in Bottom => Range(stack) = {f}
             /\ f.pc \notin Bottom => \A g \in Range(stack) : g.pc \in Bottom => g \in Range(Tail(stack))
<1> DEFINE f == Head(stack)
<1>1. stack # <<>> /\ stack \in Seq(FrameType) /\ Shape(stack, Open, Closing)
  BY Zenon DEF CoreInv, TypeInv, StackInv, Shape
<1>2. /\ f \in FrameType /\ Tail(stack) \in Seq(FrameType) /\ Range(stack) = {f} \cup Range(Tail(stack))
      /\ f = stack[1] /\ DOMAIN stack = 1 .. Len(stack) /\ Len(stack) \in Nat \ {0}
  BY <1>1, TailFacts, Zenon
<1>3. 1 \in DOMAIN stack
  BY <1>2
<1> HIDE DEF f
<1>4. /\ f.pc \in Bottom <=> 1 = Len(stack)
      /\ f.pc \in Working => f.fd \in Open
      /\ f.pc = "parse" => f.fd \notin Closing
      /\ f.pc \in {"read", "parse"} => Visits(stack, f.fd)
  BY <1>1, <1>2, <1>3, Zenon DEF Shape
<1>5. f.pc \in {"read", "parse"} => Visits(Tail(stack), f.fd)
  <2>1. f.pc \in {"read", "parse"} => f.pc \notin {"interest", "finish"}
    BY Zenon
  <2> QED
    BY <1>2, <1>4, <2>1, Zenon DEF Visits
<1>6. f.pc \in Bottom => Range(stack) = {f}
  <2>1. ASSUME 1 = Len(stack), NEW i \in DOMAIN stack PROVE i = 1
    <3>1. i \in 1 .. 1
      BY <1>2, <2>1, Zenon
    <3> QED
      BY <3>1
  <2> QED
    BY <1>2, <1>3, <1>4, <2>1, Zenon DEF Range
<1> QED
  BY <1>1, <1>2, <1>4, <1>5, <1>6, Zenon DEF f

\* The frames that are pushed.
LEMMA FrameFacts ==
  /\ \A pc, fd : Frame(pc, fd).pc = pc /\ Frame(pc, fd).fd = fd /\ Frame(pc, fd).ready = {}
  /\ \A pc \in {"drain", "events", "accept"} \cup Bottom : Frame(pc, Listener) \in FrameType
  /\ \A fd \in Fds : \A pc \in Working : Frame(pc, fd) \in FrameType
<1>1. \A pc, fd : Frame(pc, fd).pc = pc /\ Frame(pc, fd).fd = fd /\ Frame(pc, fd).ready = {}
  BY Zenon DEF Frame
<1>2. ASSUME NEW pc \in {"drain", "events", "accept"} \cup Bottom PROVE Frame(pc, Listener) \in FrameType
  BY Zenon DEF Frame, FrameType
<1>3. ASSUME NEW fd \in Fds, NEW pc \in Working PROVE Frame(pc, fd) \in FrameType
  BY Zenon DEF Frame, FrameType
<1> QED
  BY <1>1, <1>2, <1>3, Zenon

\* The frame of the end of an event.
LEMMA FinishFrame ==
  ASSUME NEW fd \in Fds, NEW r \in SUBSET Interests
  PROVE  LET f == [Frame("finish", fd) EXCEPT !.ready = r]
         IN  f \in FrameType /\ f.pc = "finish" /\ f.fd = fd /\ f.ready = r
<1> DEFINE f == [Frame("finish", fd) EXCEPT !.ready = r]
<1>1. f = [pc |-> "finish", fd |-> fd, ready |-> r]
  BY DEF Frame
<1> HIDE DEF f
<1>2. f \in FrameType /\ f.pc = "finish" /\ f.fd = fd /\ f.ready = r
  BY <1>1, Zenon DEF FrameType
<1> QED
  BY <1>2, Zenon DEF f

\* What each frame is about.
LEMMA FrameFields ==
  ASSUME NEW f \in FrameType
  PROVE  /\ f.pc \in Working => f.fd \in Fds
         /\ f.pc = "finish" => f.fd \in Fds /\ f.ready \subseteq Interests
         /\ f.fd \in Fds \cup {Listener}
<1>1. "finish" \notin Working /\ "finish" \notin {"drain", "events", "accept"} \cup Bottom
      /\ \A x \in Working : x \notin {"drain", "events", "accept"} \cup Bottom
  BY Zenon DEF Working, Bottom
<1> QED
  BY <1>1, Zenon DEF FrameType

\* The condition on the bottom frame and the batch.
LEMMA WriteFrame ==
  ASSUME WriteInv,
         \A f \in Range(stack') : f.pc \in {"wait", "idle"} => f \in Range(stack),
         \A f \in Range(stack) : f.pc = "events" => f \in Range(stack'),
         batch' = batch,
         (\A fd \in Open : WriteOf(fd)) => \A fd \in Open' : WriteOf(fd)'
  PROVE  WriteInv'
<1> SUFFICES ASSUME \E f \in Range(stack') : f.pc \in {"wait", "idle"}
             PROVE  /\ \/ \E f \in Range(stack') : f.pc = "events"
                       \/ \A fd \in DOMAIN batch' : batch'[fd] = {}
                    /\ \A fd \in Open' : WriteOf(fd)'
  BY Zenon DEF WriteInv
<1>1. \E f \in Range(stack) : f.pc \in {"wait", "idle"}
  BY Zenon
<1>2. /\ \/ \E f \in Range(stack) : f.pc = "events"
         \/ \A fd \in DOMAIN batch : batch[fd] = {}
      /\ \A fd \in Open : WriteOf(fd)
  BY <1>1, Zenon DEF WriteInv
<1> QED
  BY <1>2, Zenon

\* Steps that change nothing but the stack and the batch.
Quiet == UNCHANGED <<conns, next_connection_id_, backlog, pool, config_>>

\* A quiet step changes the stack only.
LEMMA QuietFacts ==
  ASSUME TypeInv, Quiet
  PROVE  /\ Kind /\ Open' = Open /\ Closing' = Closing
         /\ connections_' = connections_ /\ edges' = edges /\ sock' = sock
<1>1. /\ config_' = config_ /\ connections_' = connections_ /\ sock' = sock /\ edges' = edges
      /\ next_connection_id_' = next_connection_id_ /\ backlog' = backlog /\ UNCHANGED pool
  BY Zenon DEF Quiet, conns
<1>2. sock \in [Clients -> Socket] /\ edges \in [Fds \cup {Listener} -> SUBSET Interests]
  BY Zenon DEF TypeInv, CoreType
<1>3. SocketsOnly
  BY <1>1, <1>2, Zenon DEF SocketsOnly
<1>4. Open' = Open
  BY <1>1, Zenon DEF Open
<1>5. Closing' = Closing
  BY <1>1, <1>4, Zenon DEF Closing
<1> QED
  BY <1>1, <1>3, <1>4, <1>5, Zenon DEF Kind

\* The output of a connection over a quiet step.
LEMMA QuietWrite ==
  ASSUME TypeInv, Quiet, NEW fd \in Open, WriteOf(fd),
         Visits(stack, fd) => Visits(stack', fd), WriteEvent(fd) => WriteEvent(fd)'
  PROVE  WriteOf(fd)'
<1>1. connections_' = connections_ /\ sock' = sock
  BY QuietFacts, Zenon
<1> QED
  BY <1>1, Zenon DEF WriteOf

\* The frames of a connection that stay on the stack.
LEMMA FramesStay ==
  ASSUME NEW fd, \A f \in Range(stack) : f.pc \in {"interest", "finish"} /\ f.fd = fd => f \in Range(stack')
  PROVE  /\ Visits(stack, fd) => Visits(stack', fd)
         /\ edges'[fd] = edges[fd] /\ batch' = batch => (WriteEvent(fd) => WriteEvent(fd)')
<1>1. "finish" \in {"interest", "finish"}
  BY Zenon
<1> QED
  BY <1>1, Zenon DEF Visits, WriteEvent

\* A stack of one frame.
LEMMA SingleShape ==
  ASSUME NEW pc \in Bottom, NEW open, NEW shut
  PROVE  LET s == <<Frame(pc, Listener)>>
         IN  s \in Seq(FrameType) /\ Shape(s, open, shut) /\ Range(s) = {Frame(pc, Listener)}
<1> DEFINE f == Frame(pc, Listener)
           s == <<f>>
<1>1. f \in FrameType /\ f.pc = pc
  BY FrameFacts, Zenon
<1> HIDE DEF f
<1>2. s \in Seq(FrameType) /\ Len(s) = 1 /\ s[1] = f /\ DOMAIN s = 1 .. 1 /\ s # <<>>
  BY <1>1
<1>3. \A i \in 1 .. 1 : i = 1
  OBVIOUS
<1>4. 1 \in 1 .. 1
  OBVIOUS
<1> HIDE DEF s
<1>5. Range(s) = {f}
  BY <1>2, <1>3, <1>4, Zenon DEF Range
<1>6. pc \notin Working /\ pc \notin {"read", "parse"} /\ pc # "parse"
  BY Zenon DEF Working, Bottom
<1>7. Shape(s, open, shut)
  BY <1>1, <1>2, <1>3, <1>6, Zenon DEF Shape
<1> QED
  BY <1>2, <1>5, <1>7, Zenon DEF s, f

\* An exception leaves run().
LEMMA ThrowLeads ==
  ASSUME CoreInv, Quiet, Throw, UNCHANGED <<batch, stopping_>>
  PROVE  Leads
<1> DEFINE f == Frame("threw", Listener)
<1>1. "threw" \in Bottom /\ "threw" \notin {"wait", "idle"}
  BY Zenon DEF Bottom
<1>2. stack' = <<f>>
  BY Zenon DEF Throw
<1>3. stack' \in Seq(FrameType) /\ Shape(stack', Open', Closing') /\ Range(stack') = {f}
  BY <1>1, <1>2, SingleShape, Zenon
<1>4. f.pc = "threw"
  BY FrameFacts, Zenon
<1> HIDE DEF f
<1>5. WriteInv'
  BY <1>1, <1>3, <1>4, Zenon DEF WriteInv
<1>6. TypeInv
  BY Zenon DEF CoreInv
<1>7. batch' \in [Fds \cup {Listener} -> SUBSET Interests] /\ stopping_' \in BOOLEAN
  BY <1>6, Zenon DEF TypeInv
<1> QED
  BY <1>3, <1>5, <1>6, <1>7, QuietFacts, Zenon DEF Leads

\* A function returns, and nothing else changes.
LEMMA PopLeads ==
  ASSUME CoreInv, WriteInv, Quiet, stack' = Rest, UNCHANGED <<batch, stopping_>>,
         Head(stack).pc \notin Bottom \cup {"events"},
         Head(stack).pc \in {"interest", "finish"} => Head(stack).fd \notin Open
  PROVE  Leads
<1>1. TypeInv /\ Shape(stack, Open, Closing)
  BY Zenon DEF CoreInv, StackInv
<1>2. /\ stack \in Seq(FrameType) /\ Range(stack) = {Head(stack)} \cup Range(Tail(stack))
      /\ stack' = Tail(stack)
  BY TopFacts, Zenon DEF Rest
<1>3. Kind /\ Open' = Open /\ Closing' = Closing /\ edges' = edges
  BY <1>1, QuietFacts, Zenon
<1>31. Head(stack).pc \notin Bottom /\ (Open \subseteq Open' \/ Head(stack).pc \notin {"read", "parse"})
  BY <1>3, Zenon
<1>4. stack' \in Seq(FrameType) /\ Shape(stack', Open', Closing')
  <2>1. Tail(stack) \in Seq(FrameType) /\ Shape(Tail(stack), Open', Closing')
    BY <1>1, <1>2, <1>31, Pop, Zenon
  <2> QED
    BY <1>2, <2>1, Zenon
<1>5. ASSUME NEW fd \in Open, WriteOf(fd) PROVE WriteOf(fd)'
  <2>1. \A f \in Range(stack) : f.pc \in {"interest", "finish"} /\ f.fd = fd => f \in Range(stack')
    BY <1>2, Zenon
  <2>2. /\ Visits(stack, fd) => Visits(stack', fd)
        /\ WriteEvent(fd) => WriteEvent(fd)'
    BY <1>3, <2>1, FramesStay, Zenon
  <2> QED
    BY <1>1, <1>5, <2>2, QuietWrite, Zenon
<1>6. WriteInv'
  <2>1. \A f \in Range(stack') : f \in Range(stack)
    BY <1>2, Zenon
  <2>2. \A f \in Range(stack) : f.pc = "events" => f \in Range(stack')
    BY <1>2, Zenon
  <2> QED
    BY <1>3, <1>5, <2>1, <2>2, WriteFrame, Zenon
<1>7. batch' \in [Fds \cup {Listener} -> SUBSET Interests] /\ stopping_' \in BOOLEAN
  BY <1>1, Zenon DEF TypeInv
<1> QED
  BY <1>3, <1>4, <1>6, <1>7, Zenon DEF Leads

\* The events of a wait are all handled.
LEMMA EventsDoneLeads ==
  ASSUME CoreInv, WriteInv, EventsDone, config_' = config_
  PROVE  Leads
<1>1. TypeInv /\ Shape(stack, Open, Closing)
  BY Zenon DEF CoreInv, StackInv
<1>2. /\ Quiet /\ stack' = Rest /\ batch' = batch /\ stopping_' = stopping_
      /\ Head(stack).pc = "events" /\ \A fd \in DOMAIN batch : batch[fd] = {}
  BY Zenon DEF EventsDone, At, Quiet, accepting, conns, pool
<1>3. /\ stack \in Seq(FrameType) /\ Range(stack) = {Head(stack)} \cup Range(Tail(stack))
      /\ stack' = Tail(stack)
  BY <1>2, TopFacts, Zenon DEF Rest
<1>4. Kind /\ Open' = Open /\ Closing' = Closing /\ edges' = edges
  BY <1>1, <1>2, QuietFacts, Zenon
<1>5. Head(stack).pc \notin Bottom /\ Head(stack).pc \notin {"interest", "finish"}
      /\ Head(stack).pc \notin {"read", "parse"}
  BY <1>2, Zenon DEF Bottom
<1>6. stack' \in Seq(FrameType) /\ Shape(stack', Open', Closing')
  BY <1>1, <1>3, <1>4, <1>5, Pop, Zenon
<1>7. ASSUME NEW fd \in Open, WriteOf(fd) PROVE WriteOf(fd)'
  <2>1. \A f \in Range(stack) : f.pc \in {"interest", "finish"} /\ f.fd = fd => f \in Range(stack')
    BY <1>3, <1>5, Zenon
  <2>2. /\ Visits(stack, fd) => Visits(stack', fd)
        /\ WriteEvent(fd) => WriteEvent(fd)'
    BY <1>2, <1>4, <2>1, FramesStay, Zenon
  <2> QED
    BY <1>1, <1>2, <1>7, <2>2, QuietWrite, Zenon
<1>8. WriteInv'
  <2>1. \A f \in Range(stack') : f \in Range(stack)
    BY <1>3, Zenon
  <2>2. \A fd \in DOMAIN batch' : batch'[fd] = {}
    BY <1>2, Zenon
  <2> QED
    BY <1>4, <1>7, <2>1, <2>2, Zenon DEF WriteInv
<1>9. batch' \in [Fds \cup {Listener} -> SUBSET Interests] /\ stopping_' \in BOOLEAN
  BY <1>1, <1>2, Zenon DEF TypeInv
<1> QED
  BY <1>4, <1>6, <1>8, <1>9, Zenon DEF Leads

\* The backlog is empty, or as many connections are open as may be.
LEMMA AcceptDoneLeads ==
  ASSUME CoreInv, WriteInv, AcceptDone, config_' = config_
  PROVE  Leads
<1>1. Quiet /\ stack' = Rest /\ UNCHANGED <<batch, stopping_>> /\ Head(stack).pc = "accept"
  BY Zenon DEF AcceptDone, At, Quiet, accepting, conns, pool
<1>2. Head(stack).pc \notin Bottom \cup {"events"} /\ Head(stack).pc \notin {"interest", "finish"}
  BY <1>1, Zenon DEF Bottom
<1> QED
  BY <1>1, <1>2, PopLeads, Zenon

\* accept() failed otherwise, and the exception leaves run().
LEMMA AcceptThrowsLeads ==
  ASSUME CoreInv, WriteInv, AcceptThrows, config_' = config_
  PROVE  Leads
<1>1. Quiet /\ Throw /\ UNCHANGED <<batch, stopping_>>
  BY Zenon DEF AcceptThrows, Quiet, accepting, conns, pool
<1> QED
  BY <1>1, ThrowLeads, Zenon

\* There is no completion left.
LEMMA DrainDoneLeads ==
  ASSUME CoreInv, WriteInv, DrainDone, config_' = config_
  PROVE  Leads
<1>1. Quiet /\ stack' = Rest /\ UNCHANGED <<batch, stopping_>> /\ Head(stack).pc = "drain"
  BY Zenon DEF DrainDone, At, Quiet, accepting, conns, pool
<1>2. Head(stack).pc \notin Bottom \cup {"events"} /\ Head(stack).pc \notin {"interest", "finish"}
  BY <1>1, Zenon DEF Bottom
<1> QED
  BY <1>1, <1>2, PopLeads, Zenon

\* The handler of an event starts, and takes the event with it.
LEMMA GrowLeads ==
  ASSUME CoreInv, WriteInv, Quiet, stopping_' = stopping_, At("events"),
         stack' \in Seq(FrameType), Shape(stack', Open, Closing),
         \A f \in Range(stack) : f \in Range(stack'),
         \A f \in Range(stack') : f.pc \in {"wait", "idle"} => f \in Range(stack),
         NEW fd \in Fds \cup {Listener}, batch' = [batch EXCEPT ![fd] = {}],
         (fd \in Open /\ "write" \in batch[fd]) =>
            \E f \in Range(stack') : f.pc = "finish" /\ f.fd = fd /\ "write" \in f.ready
  PROVE  Leads
<1>1. TypeInv
  BY Zenon DEF CoreInv
<1>2. Kind /\ Open' = Open /\ Closing' = Closing /\ edges' = edges
  BY <1>1, QuietFacts, Zenon
<1>3. batch \in [Fds \cup {Listener} -> SUBSET Interests] /\ stopping_ \in BOOLEAN
  BY <1>1, Zenon DEF TypeInv
<1>4. batch' \in [Fds \cup {Listener} -> SUBSET Interests]
  BY <1>3, Zenon
<1>5. \A g \in Open : g # fd => batch'[g] = batch[g]
  BY <1>3, Zenon DEF Open
<1>6. ASSUME NEW g \in Open, WriteOf(g) PROVE WriteOf(g)'
  <2>1. Visits(stack, g) => Visits(stack', g)
    BY Zenon DEF Visits
  <2>2. WriteEvent(g) => WriteEvent(g)'
    BY <1>2, <1>5, Zenon DEF WriteEvent
  <2> QED
    BY <1>1, <1>6, <2>1, <2>2, QuietWrite, Zenon
<1>7. \E f \in Range(stack') : f.pc = "events"
  BY TopFacts, Zenon DEF At
<1>8. WriteInv'
  BY <1>2, <1>6, <1>7, Zenon DEF WriteInv
<1> QED
  BY <1>2, <1>3, <1>4, <1>8, Zenon DEF Leads

\* A read event of the listener.
LEMMA AcceptEventLeads ==
  ASSUME CoreInv, WriteInv, AcceptEvent, config_' = config_
  PROVE  Leads
<1> DEFINE f == Frame("accept", Listener)
<1>1. /\ Quiet /\ stopping_' = stopping_ /\ At("events") /\ batch' = [batch EXCEPT ![Listener] = {}]
      /\ stack' = <<f>> \o stack
  BY Zenon DEF AcceptEvent, Quiet, accepting, conns, pool
<1>2. f \in FrameType /\ f.pc = "accept"
  BY FrameFacts, Zenon
<1>3. f.pc \notin Bottom /\ f.pc \notin Working /\ f.pc \notin {"read", "parse"} /\ f.pc # "parse"
      /\ f.pc \notin {"wait", "idle"}
  BY <1>2, Zenon DEF Bottom, Working
<1> HIDE DEF f
<1>4. Head(stack).pc # "parse" /\ Head(stack).pc \notin Working
  BY <1>1, Zenon DEF At, Working
<1>5. stack \in Seq(FrameType) /\ Shape(stack, Open, Closing)
  BY Zenon DEF CoreInv, StackInv, TypeInv
<1>6. stack' \in Seq(FrameType) /\ Shape(stack', Open, Closing) /\ Range(stack') = {f} \cup Range(stack)
  BY <1>1, <1>2, <1>3, <1>4, <1>5, Push, Zenon
<1>7. Listener \notin Open
  BY ServerAssumption, Zenon DEF Open, Listener
<1> QED
  BY <1>1, <1>3, <1>6, <1>7, GrowLeads, Zenon

\* An event of a connection.
LEMMA HandleConnectionEventLeads ==
  ASSUME CoreInv, WriteInv, NEW fd \in Fds, HandleConnectionEvent(fd), config_' = config_
  PROVE  Leads
<1> DEFINE r == Frame("read", fd)
           d == Frame("drain", Listener)
           f == [Frame("finish", fd) EXCEPT !.ready = batch[fd]]
<1>1. /\ Quiet /\ stopping_' = stopping_ /\ At("events") /\ batch' = [batch EXCEPT ![fd] = {}]
      /\ stack' = (IF connections_[fd] = NoConnection THEN <<>>
                   ELSE (IF "read" \in batch[fd] THEN <<r, d>> ELSE <<>>) \o <<f>>) \o stack
  BY Zenon DEF HandleConnectionEvent, Quiet, accepting, conns, pool
<1>2. r \in FrameType /\ r.pc = "read" /\ r.fd = fd /\ d \in FrameType /\ d.pc = "drain"
  BY FrameFacts, Zenon DEF Working
<1>3. batch[fd] \in SUBSET Interests
  BY Zenon DEF CoreInv, TypeInv
<1>4. f \in FrameType /\ f.pc = "finish" /\ f.fd = fd /\ f.ready = batch[fd]
  BY <1>3, FinishFrame, SMT
<1> HIDE DEF r, d, f
<1>5. stack \in Seq(FrameType) /\ Shape(stack, Open, Closing)
  BY Zenon DEF CoreInv, StackInv, TypeInv
<1>6. fd \in Open <=> connections_[fd] # NoConnection
  BY Zenon DEF Open
<1>7. CASE connections_[fd] = NoConnection
  <2>1. stack' = <<>> \o stack
    BY <1>1, <1>7, Zenon
  <2>2. stack' = stack
    BY <1>5, <2>1
  <2> QED
    BY <1>1, <1>5, <1>6, <1>7, <2>2, GrowLeads, Zenon
<1> DEFINE t == <<f>> \o stack
<1>8. /\ t \in Seq(FrameType) /\ Shape(t, Open, Closing) /\ Range(t) = {f} \cup Range(stack)
      /\ Head(t) = f
  <2>1. f.pc \notin Bottom /\ f.pc \notin Working /\ f.pc \notin {"read", "parse"} /\ f.pc # "parse"
    BY <1>4, Zenon DEF Bottom, Working
  <2>2. Head(stack).pc # "parse" /\ Head(stack).pc \notin Working
    BY <1>1, Zenon DEF At, Working
  <2> QED
    BY <1>4, <1>5, <2>1, <2>2, Push, Zenon
<1>9. f.pc \notin {"wait", "idle"} /\ d.pc \notin {"wait", "idle"} /\ r.pc \notin {"wait", "idle"}
  BY <1>2, <1>4, Zenon
<1>10. CASE connections_[fd] # NoConnection /\ "read" \notin batch[fd]
  <2>1. stack' = (<<>> \o <<f>>) \o stack
    BY <1>1, <1>10, Zenon
  <2>2. stack' = t
    BY <1>4, <1>5, <2>1
  <2> HIDE DEF t
  <2>3. \E h \in Range(stack') : h.pc = "finish" /\ h.fd = fd /\ h.ready = batch[fd]
    BY <1>4, <1>8, <2>2, Zenon
  <2> QED
    BY <1>1, <1>8, <1>9, <2>2, <2>3, GrowLeads, Zenon
<1>11. CASE connections_[fd] # NoConnection /\ "read" \in batch[fd]
  <2>1. stack' = (<<r, d>> \o <<f>>) \o stack
    BY <1>1, <1>11, Zenon
  <2>2. <<r, d>> \in Seq(FrameType) /\ <<f>> \in Seq(FrameType)
    BY <1>2, <1>4, SMTT(30)
  <2>3. stack' = <<r, d>> \o t
    BY <1>5, <2>1, <2>2, ConcatAssoc, SMTT(30)
  <2> HIDE DEF t
  <2> DEFINE u == <<d>> \o t
             v == <<r>> \o u
  <2>4. stack' = v
    BY <1>2, <1>8, <2>3, ConsTwo, Zenon
  <2>5. /\ u \in Seq(FrameType) /\ Shape(u, Open, Closing) /\ Range(u) = {d} \cup Range(t)
        /\ Head(u) = d
    <3>1. d.pc \notin Bottom /\ d.pc \notin Working /\ d.pc \notin {"read", "parse"} /\ d.pc # "parse"
      BY <1>2, Zenon DEF Bottom, Working
    <3>2. Head(t).pc # "parse" /\ Head(t).pc \notin Working
      BY <1>4, <1>8, Zenon DEF Working
    <3> QED
      BY <1>2, <1>8, <3>1, <3>2, Push, Zenon
  <2> HIDE DEF u
  <2>6. v \in Seq(FrameType) /\ Shape(v, Open, Closing) /\ Range(v) = {r} \cup Range(u)
    <3>1. r.pc \notin Bottom /\ r.pc \in {"read", "parse"} /\ r.pc # "parse"
      BY <1>2, Zenon DEF Bottom
    <3>2. Head(u).pc # "parse"
      BY <1>2, <2>5, Zenon
    <3>3. Visits(u, r.fd)
      BY <1>2, <1>4, <1>8, <2>5, Zenon DEF Visits
    <3>4. r.fd \in Open
      BY <1>2, <1>6, <1>11, Zenon
    <3> QED
      BY <1>2, <2>5, <3>1, <3>2, <3>3, <3>4, Push, Zenon
  <2> HIDE DEF v
  <2>7. Range(stack') = {r, d, f} \cup Range(stack)
    BY <1>8, <2>4, <2>5, <2>6, Zenon
  <2>8. \E h \in Range(stack') : h.pc = "finish" /\ h.fd = fd /\ h.ready = batch[fd]
    BY <1>4, <2>7, Zenon
  <2>9. stack' \in Seq(FrameType) /\ Shape(stack', Open, Closing)
    BY <2>4, <2>6, Zenon
  <2> QED
    BY <1>1, <1>9, <2>7, <2>8, <2>9, GrowLeads, Zenon
<1> QED
  BY <1>7, <1>10, <1>11, Zenon

\* stop().
LEMMA StopLeads ==
  ASSUME CoreInv, WriteInv, Stop, config_' = config_
  PROVE  Leads
<1>1. Quiet /\ stack' = stack /\ batch' = batch /\ stopping_' = TRUE
  BY Zenon DEF Stop, Quiet
<1>2. TypeInv /\ Shape(stack, Open, Closing)
  BY Zenon DEF CoreInv, StackInv
<1>3. Kind /\ Open' = Open /\ Closing' = Closing /\ edges' = edges
  BY <1>1, <1>2, QuietFacts, Zenon
<1>4. ASSUME NEW g \in Open, WriteOf(g) PROVE WriteOf(g)'
  <2>1. Visits(stack, g) => Visits(stack', g)
    BY <1>1, Zenon
  <2>2. WriteEvent(g) => WriteEvent(g)'
    BY <1>1, <1>3, Zenon DEF WriteEvent
  <2> QED
    BY <1>1, <1>2, <1>4, <2>1, <2>2, QuietWrite, Zenon
<1>5. WriteInv'
  BY <1>1, <1>3, <1>4, WriteFrame, Zenon
<1>6. /\ batch' \in [Fds \cup {Listener} -> SUBSET Interests] /\ stopping_' \in BOOLEAN
      /\ stack' \in Seq(FrameType) /\ Shape(stack', Open', Closing')
  BY <1>1, <1>2, <1>3, Zenon DEF TypeInv
<1> QED
  BY <1>3, <1>5, <1>6, Zenon DEF Leads

\* Steps of the others: the I/O thread does not move.
LEMMA StillLeads ==
  ASSUME CoreInv, WriteInv, Kind, stack' = stack, batch' = batch, stopping_' = stopping_,
         connections_' = connections_, \A g \in Open : WriteOf(g) => WriteOf(g)'
  PROVE  Leads
<1>1. Open' = Open
  BY Zenon DEF Open
<1>2. Closing' = Closing
  BY <1>1, Zenon DEF Closing
<1>3. /\ batch' \in [Fds \cup {Listener} -> SUBSET Interests] /\ stopping_' \in BOOLEAN
      /\ stack' \in Seq(FrameType) /\ Shape(stack', Open', Closing')
  BY <1>1, <1>2, Zenon DEF CoreInv, TypeInv, StackInv
<1>4. (\A g \in Open : WriteOf(g)) => \A g \in Open' : WriteOf(g)'
  BY <1>1, Zenon
<1>5. WriteInv'
  BY <1>4, WriteFrame, Zenon
<1> QED
  BY <1>3, <1>5, Zenon DEF Leads

\* A step of a worker leaves the I/O thread where it is.
LEMMA WorkerLeads ==
  ASSUME CoreInv, WriteInv, WorkerStep, stack' = stack, batch' = batch, stopping_' = stopping_
  PROVE  Leads
<1>1. connections_' = connections_ /\ sock' = sock /\ edges' = edges
  BY WorkerStepKeeps, Zenon DEF CoreInv
<1>2. ASSUME NEW g \in Open, WriteOf(g) PROVE WriteOf(g)'
  BY <1>1, <1>2, Zenon DEF WriteOf, WriteEvent
<1>3. Kind
  BY Zenon DEF Kind
<1> QED
  BY <1>1, <1>2, <1>3, StillLeads, Zenon

\* A step of a client on its socket raises an edge.
LEMMA ClientStepLeads ==
  ASSUME CoreInv, WriteInv, NEW n \in Clients, NEW s \in Socket, NEW filters,
         ClientStep(n, s, filters), s.state = sock[n].state, s.sent = sock[n].sent,
         s.unread = sock[n].unread \/ (s.unread < SendRoom /\ filters = {"write"}), config_' = config_
  PROVE  Leads
<1>1. /\ sock' = [sock EXCEPT ![n] = s] /\ Notify(n, s, filters)
      /\ connections_' = connections_ /\ next_connection_id_' = next_connection_id_
      /\ backlog' = backlog /\ UNCHANGED pool
      /\ stack' = stack /\ batch' = batch /\ stopping_' = stopping_
  BY Zenon DEF ClientStep, accepting
<1>2. TypeInv
  BY Zenon DEF CoreInv
<1>3. sock \in [Clients -> Socket] /\ edges \in [Fds \cup {Listener} -> SUBSET Interests]
  BY <1>2, Zenon DEF TypeInv, CoreType
<1>4. sock' \in [Clients -> Socket] /\ sock'[n] = s /\ \A m \in Clients \ {n} : sock'[m] = sock[m]
  BY <1>1, <1>3, Zenon
<1>5. /\ edges' \in [Fds \cup {Listener} -> SUBSET Interests]
      /\ \A g \in Fds \cup {Listener} : edges[g] \subseteq edges'[g]
      /\ s.unread < SendRoom /\ filters = {"write"} =>
           \A g \in Open : connections_[g].client = n /\ "write" \in connections_[g].interest
                              => "write" \in edges'[g]
  <2> DEFINE new(fd) == {i \in Reported(s, connections_[fd].interest \cap filters) : IsReady(s, i)}
  <2>1. edges' = [fd \in Fds \cup {Listener} |->
                    IF fd \in Open /\ connections_[fd].client = n
                    THEN edges[fd] \cup new(fd) ELSE edges[fd]]
    BY <1>1, <1>3, Zenon DEF Notify
  <2>2. \A g \in Open : g \in Fds \cup {Listener} /\ connections_[g].interest \subseteq Interests
    BY <1>2, OpenFacts, ConnectionFields, Zenon DEF Open
  <2>3. \A g \in Open : new(g) \subseteq Interests
    BY <2>2, Zenon DEF Reported, Interests
  <2>4. s.unread < SendRoom /\ filters = {"write"} =>
          \A g \in Open : "write" \in connections_[g].interest => "write" \in new(g)
    BY Zenon DEF Reported, IsReady
  <2> HIDE DEF new
  <2>5. ASSUME NEW g \in Fds \cup {Listener}
        PROVE  edges'[g] = IF g \in Open /\ connections_[g].client = n
                           THEN edges[g] \cup new(g) ELSE edges[g]
    BY <2>1, <2>5, Zenon
  <2>6. ASSUME NEW g \in Fds \cup {Listener}
        PROVE  edges'[g] \subseteq Interests /\ edges[g] \subseteq edges'[g]
    <3>1. edges[g] \subseteq Interests
      BY <1>3, <2>6, Zenon
    <3> QED
      BY <2>3, <2>5, <2>6, <3>1, Zenon
  <2>7. edges' \in [Fds \cup {Listener} -> SUBSET Interests]
    BY <2>1, <2>5, <2>6, Zenon
  <2>8. s.unread < SendRoom /\ filters = {"write"} =>
          \A g \in Open : connections_[g].client = n /\ "write" \in connections_[g].interest
                             => "write" \in edges'[g]
    BY <2>2, <2>4, <2>5, Zenon
  <2> QED
    BY <2>6, <2>7, <2>8, Zenon
<1>6. SocketsOnly
  BY <1>1, <1>4, <1>5, Zenon DEF SocketsOnly
<1>7. ASSUME NEW g \in Open, WriteOf(g) PROVE WriteOf(g)'
  <2> DEFINE c == connections_[g]
  <2>1. g \in Fds \cup {Listener} /\ c.client \in Clients
    BY <1>2, OpenFacts, Zenon
  <2>2. WriteEvent(g) => WriteEvent(g)'
    BY <1>1, <1>5, <2>1, Zenon DEF WriteEvent
  <2>3. Visits(stack, g) => Visits(stack', g)
    BY <1>1, Zenon
  <2>4. sock'[c.client].unread = sock[c.client].unread \/ ("write" \in c.interest => WriteEvent(g)')
    <3>1. CASE c.client # n
      BY <1>4, <2>1, <3>1, Zenon
    <3>2. CASE c.client = n /\ s.unread = sock[n].unread
      BY <1>4, <3>2, Zenon
    <3>3. CASE /\ c.client = n /\ s.unread < SendRoom /\ filters = {"write"}
                 /\ "write" \in c.interest
      <4>1. "write" \in edges'[g]
        BY <1>5, <3>3, Zenon
      <4> QED
        BY <4>1, Zenon DEF WriteEvent
    <3> QED
      BY <3>1, <3>2, <3>3, Zenon
  <2> QED
    BY <1>1, <1>7, <2>2, <2>3, <2>4, Zenon DEF WriteOf
<1>8. Kind
  BY <1>6, Zenon DEF Kind
<1> QED
  BY <1>1, <1>7, <1>8, StillLeads, Zenon

\* What the clients do to their sockets.
LEMMA SocketSteps ==
  ASSUME NEW s \in Socket
  PROVE  /\ \A m \in config_.messages :
              LET t == [s EXCEPT !.in = Append(@, m), !.asked = Append(@, m)]
              IN  t \in Socket /\ t.state = s.state /\ t.sent = s.sent /\ t.unread = s.unread
         /\ LET t == [s EXCEPT !.eof = TRUE]
            IN  t \in Socket /\ t.state = s.state /\ t.sent = s.sent /\ t.unread = s.unread
         /\ LET t == [s EXCEPT !.reset = TRUE, !.in = <<>>]
            IN  t \in Socket /\ t.state = s.state /\ t.sent = s.sent /\ t.unread = s.unread
         /\ SendRoom \in Nat =>
              LET t == [s EXCEPT !.unread = 0]
              IN  t \in Socket /\ t.state = s.state /\ t.sent = s.sent /\ t.unread = 0
<1>1. s.in \in Seq(config_.messages) /\ s.asked \in Seq(config_.messages)
  BY Zenon DEF Socket
<1>2. ASSUME NEW m \in config_.messages
      PROVE  LET t == [s EXCEPT !.in = Append(@, m), !.asked = Append(@, m)]
             IN  t \in Socket /\ t.state = s.state /\ t.sent = s.sent /\ t.unread = s.unread
  <2> DEFINE a == Append(s.in, m)
             b == Append(s.asked, m)
  <2>1. a \in Seq(config_.messages) /\ b \in Seq(config_.messages)
    BY <1>1, <1>2, AppendFacts, Zenon
  <2>2. [s EXCEPT !.in = Append(@, m), !.asked = Append(@, m)] = [s EXCEPT !.in = a, !.asked = b]
    BY Zenon
  <2> HIDE DEF a, b
  <2> QED
    BY <2>1, <2>2, Zenon DEF Socket
<1>3. <<>> \in Seq(config_.messages)
  OBVIOUS
<1>4. ASSUME SendRoom \in Nat PROVE 0 \in 0 .. SendRoom
  BY <1>4
<1> DEFINE t1 == [s EXCEPT !.eof = TRUE]
           t2 == [s EXCEPT !.reset = TRUE, !.in = <<>>]
           t3 == [s EXCEPT !.unread = 0]
<1>5. t1 \in Socket /\ t1.state = s.state /\ t1.sent = s.sent /\ t1.unread = s.unread
  BY Zenon DEF Socket
<1>6. t2 \in Socket /\ t2.state = s.state /\ t2.sent = s.sent /\ t2.unread = s.unread
  BY <1>3, Zenon DEF Socket
<1>7. SendRoom \in Nat => t3 \in Socket /\ t3.state = s.state /\ t3.sent = s.sent /\ t3.unread = 0
  BY <1>4, Zenon DEF Socket
<1> QED
  BY <1>2, <1>5, <1>6, <1>7, Zenon

\* The steps of a client.
LEMMA ClientLeads ==
  ASSUME CoreInv, WriteInv, NEW n \in Clients, Client(n), config_' = config_
  PROVE  Leads
<1>1. TypeInv
  BY Zenon DEF CoreInv
<1>2. sock[n] \in Socket /\ SendRoom \in Nat /\ 0 < SendRoom
  <2>1. sock[n] \in Socket /\ SendRoom \in Nat
    BY <1>1, Constants, Zenon DEF TypeInv, CoreType
  <2>2. SendRoom \in Nat \ {0}
    BY ServerAssumption, Zenon
  <2> QED
    BY <2>1, <2>2
<1>3. CASE Connect(n)
  <2>1. /\ connections_' = connections_ /\ \A g \in Fds : edges'[g] = edges[g]
        /\ \A m \in Clients : sock'[m].unread = sock[m].unread
    BY <1>3, ConnectKeeps, Zenon DEF CoreInv
  <2>2. stack' = stack /\ batch' = batch /\ stopping_' = stopping_
    BY <1>3, Zenon DEF Connect
  <2>3. ASSUME NEW g \in Open, WriteOf(g) PROVE WriteOf(g)'
    <3>1. g \in Fds /\ connections_[g].client \in Clients
      BY <1>1, OpenFacts, Zenon
    <3> QED
      BY <2>1, <2>2, <2>3, <3>1, Zenon DEF WriteOf, WriteEvent
  <2>4. Kind
    BY <1>3, Zenon DEF Kind
  <2> QED
    BY <2>1, <2>2, <2>3, <2>4, StillLeads, Zenon
<1>4. CASE HalfClose(n)
  BY <1>2, <1>4, SocketSteps, ClientStepLeads, Zenon DEF HalfClose
<1>5. CASE Reset(n)
  BY <1>2, <1>5, SocketSteps, ClientStepLeads, Zenon DEF Reset
<1>6. CASE Receive(n)
  BY <1>2, <1>6, SocketSteps, ClientStepLeads, Zenon DEF Receive
<1>7. CASE \E m \in config_.messages : Send(n, m)
  BY <1>2, <1>7, SocketSteps, ClientStepLeads, Zenon DEF Send
<1> QED
  BY <1>3, <1>4, <1>5, <1>6, <1>7, Zenon DEF Client

\* The frames of a first read: read_connection, the drain and the end after it.
LEMMA PushRead ==
  ASSUME NEW s \in Seq(FrameType), NEW open, NEW shut, Shape(s, open, shut),
         Head(s).pc \notin Working, NEW fd \in Fds, fd \in open,
         NEW f \in FrameType, f.pc = "finish", f.fd = fd
  PROVE  LET r == Frame("read", fd)
             d == Frame("drain", Listener)
             t == <<r, d, f>> \o s
         IN  t \in Seq(FrameType) /\ Shape(t, open, shut) /\ Range(t) = {r, d, f} \cup Range(s)
<1> DEFINE r == Frame("read", fd)
           d == Frame("drain", Listener)
           t1 == <<f>> \o s
           t2 == <<d>> \o t1
           t3 == <<r>> \o t2
<1>1. r \in FrameType /\ r.pc = "read" /\ r.fd = fd /\ d \in FrameType /\ d.pc = "drain"
  BY FrameFacts, ZenonT(30) DEF Working
<1> HIDE DEF r, d
<1>2. t1 \in Seq(FrameType) /\ Shape(t1, open, shut) /\ Range(t1) = {f} \cup Range(s) /\ Head(t1) = f
  <2>1. f.pc \notin Bottom /\ f.pc \notin Working /\ f.pc \notin {"read", "parse"} /\ f.pc # "parse"
    BY Zenon DEF Bottom, Working
  <2>2. Head(s).pc # "parse" /\ Head(s).pc \notin Working
    BY Zenon DEF Working
  <2> QED
    BY <2>1, <2>2, Push, Zenon
<1>3. <<r, d, f>> \o s = t3
  <2>1. s \in Seq(FrameType) /\ r \in FrameType /\ d \in FrameType /\ f \in FrameType
    BY <1>1, Zenon
  <2>2. <<r, d, f>> \o s = <<r>> \o (<<d>> \o (<<f>> \o s))
    BY <2>1, ConsThree, SMTT(30)
  <2> QED
    BY <2>2, Zenon
<1> HIDE DEF t1
<1>4. t2 \in Seq(FrameType) /\ Shape(t2, open, shut) /\ Range(t2) = {d} \cup Range(t1) /\ Head(t2) = d
  <2>1. d.pc \notin Bottom /\ d.pc \notin Working /\ d.pc \notin {"read", "parse"} /\ d.pc # "parse"
    BY <1>1, Zenon DEF Bottom, Working
  <2>2. Head(t1).pc # "parse" /\ Head(t1).pc \notin Working
    BY <1>2, Zenon DEF Working
  <2> QED
    BY <1>1, <1>2, <2>1, <2>2, Push, Zenon
<1> HIDE DEF t2
<1>5. t3 \in Seq(FrameType) /\ Shape(t3, open, shut) /\ Range(t3) = {r} \cup Range(t2)
  <2>1. /\ r.pc \notin Bottom /\ r.pc \in {"read", "parse"} /\ (r.pc = "parse" => r.fd \notin shut)
        /\ (r.pc \in {"read", "parse"} \/ Head(t2).pc \notin Working)
    BY <1>1, Zenon DEF Bottom
  <2>4. r.pc \in Working => r.fd \in open
    BY <1>1, Zenon
  <2>2. Head(t2).pc # "parse"
    BY <1>1, <1>4, Zenon
  <2>3. Visits(t2, r.fd)
    BY <1>1, <1>2, <1>4, Zenon DEF Visits
  <2> QED
    BY <1>1, <1>4, <2>1, <2>2, <2>3, <2>4, Push, Zenon
<1> HIDE DEF t3
<1>6. Range(t3) = {r, d, f} \cup Range(s)
  BY <1>2, <1>4, <1>5, Zenon
<1> QED
  BY <1>3, <1>5, <1>6, Zenon DEF r, d

\* One round of the loop of accept_ready.
LEMMA AcceptReadyLeads ==
  ASSUME CoreInv, WriteInv, AcceptReady, config_' = config_
  PROVE  Leads
<1>1. PICK fd \in Fds : /\ AcceptStep(fd) /\ At("accept")
                        /\ stack' = <<Frame("read", fd), Frame("drain", Listener), Frame("finish", fd)>> \o stack
                        /\ batch' = batch /\ stopping_' = stopping_
  BY Zenon DEF AcceptReady, AcceptStep
<1> DEFINE n == Head(backlog)
           f == Frame("finish", fd)
           r == Frame("read", fd)
           d == Frame("drain", Listener)
<1>2. TypeInv /\ Shape(stack, Open, Closing) /\ stack \in Seq(FrameType)
  BY Zenon DEF CoreInv, StackInv, TypeInv
<1>3. /\ n \in Clients /\ fd \notin Open /\ Open' = Open \cup {fd}
      /\ connections_'[fd] = NewConnection(next_connection_id_, n)
      /\ \A g \in Open : connections_'[g] = connections_[g]
      /\ sock'[n].unread = sock[n].unread
      /\ \A m \in Clients \ {n} : sock'[m] = sock[m]
      /\ \A g \in Open : edges'[g] = edges[g]
  BY <1>1, <1>2, AcceptFacts, Zenon
<1>4. f \in FrameType /\ f.pc = "finish" /\ f.fd = fd
  <2>1. f = [pc |-> "finish", fd |-> fd, ready |-> {}]
    BY Zenon DEF Frame
  <2> HIDE DEF f
  <2> QED
    BY <2>1, Zenon DEF FrameType
<1>5. r.pc = "read" /\ d.pc = "drain"
  BY FrameFacts, Zenon
<1>6. Head(stack).pc \notin Working
  BY <1>1, Zenon DEF At, Working
<1>7. Shape(stack, Open', Closing')
  BY <1>2, <1>6, Change, Zenon
<1>8. fd \in Open'
  BY <1>3, Zenon
<1> HIDE DEF f
<1>9. stack' = <<r, d, f>> \o stack
  BY <1>1, Zenon DEF f
<1>10. stack' \in Seq(FrameType) /\ Shape(stack', Open', Closing') /\ Range(stack') = {r, d, f} \cup Range(stack)
  <2> DEFINE t == <<r, d, f>> \o stack
  <2>1. t \in Seq(FrameType) /\ Shape(t, Open', Closing') /\ Range(t) = {r, d, f} \cup Range(stack)
    <3>1. stack \in Seq(FrameType)
      BY <1>2, Zenon
    <3> QED
      BY <1>4, <1>6, <1>7, <1>8, <3>1, PushRead, SMTT(30)
  <2> HIDE DEF t
  <2>2. stack' = t
    BY <1>9, Zenon DEF t
  <2> QED
    BY <2>1, <2>2, Zenon
<1>11. r.pc \notin {"wait", "idle"} /\ d.pc \notin {"wait", "idle"} /\ f.pc \notin {"wait", "idle"}
  BY <1>4, <1>5, Zenon
<1> HIDE DEF r, d
<1>12. ASSUME NEW g \in Open, WriteOf(g) PROVE WriteOf(g)'
  <2>1. connections_[g].client \in Clients
    BY <1>2, OpenFacts, Zenon
  <2>2. sock'[connections_[g].client].unread = sock[connections_[g].client].unread
    BY <1>3, <2>1, Zenon
  <2>3. Visits(stack, g) => Visits(stack', g)
    BY <1>10, Zenon DEF Visits
  <2>4. WriteEvent(g) => WriteEvent(g)'
    BY <1>1, <1>3, <1>10, Zenon DEF WriteEvent
  <2>5. connections_'[g] = connections_[g]
    BY <1>3, Zenon
  <2> QED
    BY <1>12, <2>2, <2>3, <2>4, <2>5, Zenon DEF WriteOf
<1>13. WriteOf(fd)'
  <2>1. next_connection_id_ \in Nat \ {0}
    BY <1>2, Zenon DEF TypeInv, CoreType
  <2>2. connections_'[fd].output = <<>> /\ connections_'[fd].interest = {"read"}
    <3> DEFINE c == NewConnection(next_connection_id_, n)
    <3>1. n \in Clients /\ connections_'[fd] = c
      BY <1>3, Zenon
    <3>2. c.output = <<>> /\ c.interest = {"read"}
      BY <2>1, <3>1, NewFacts, Zenon
    <3> HIDE DEF c
    <3> QED
      BY <3>1, <3>2, Zenon
  <2>3. "write" \notin connections_'[fd].interest
    BY <2>2, Zenon
  <2> QED
    BY <2>2, <2>3, Zenon DEF WriteOf
<1>14. WriteInv'
  <2>1. \A h \in Range(stack') : h.pc \in {"wait", "idle"} => h \in Range(stack)
    BY <1>10, <1>11, Zenon
  <2>2. \A h \in Range(stack) : h.pc = "events" => h \in Range(stack')
    BY <1>10, Zenon
  <2>3. (\A g \in Open : WriteOf(g)) => \A g \in Open' : WriteOf(g)'
    BY <1>3, <1>12, <1>13, Zenon
  <2> QED
    BY <1>1, <2>1, <2>2, <2>3, WriteFrame, Zenon
<1>15. batch' \in [Fds \cup {Listener} -> SUBSET Interests] /\ stopping_' \in BOOLEAN
  BY <1>1, <1>2, Zenon DEF TypeInv
<1>16. Kind
  BY <1>1, Zenon DEF Kind
<1> QED
  BY <1>10, <1>14, <1>15, <1>16, Zenon DEF Leads

\* Between two turns of run()'s loop nothing of the turn is left.
LEMMA TurnFacts ==
  ASSUME CoreInv, WriteInv, Head(stack).pc \in {"wait", "idle"}
  PROVE  /\ \A fd \in DOMAIN batch : batch[fd] = {}
         /\ \A fd \in Open : /\ WriteOf(fd) /\ ~Visits(stack, fd)
                             /\ WriteEvent(fd) => "write" \in edges[fd]
<1>1. Range(stack) = {Head(stack)}
  BY TopFacts, Zenon DEF Bottom
<1>2. Head(stack).pc # "events" /\ Head(stack).pc \notin {"interest", "finish"} /\ Head(stack).pc # "finish"
  BY Zenon
<1>3. /\ \A fd \in DOMAIN batch : batch[fd] = {}
      /\ \A fd \in Open : WriteOf(fd)
  BY <1>1, <1>2, Zenon DEF WriteInv
<1>4. batch \in [Fds \cup {Listener} -> SUBSET Interests]
  BY Zenon DEF CoreInv, TypeInv
<1>5. ASSUME NEW fd \in Open PROVE ~Visits(stack, fd) /\ (WriteEvent(fd) => "write" \in edges[fd])
  <2>1. fd \in DOMAIN batch
    BY <1>4, Zenon DEF Open
  <2>2. batch[fd] = {}
    BY <1>3, <2>1, Zenon
  <2> QED
    BY <1>1, <1>2, <2>2, Zenon DEF Visits, WriteEvent
<1> QED
  BY <1>3, <1>5, Zenon

\* The reactor waits and reports events.
LEMMA WaitLeads ==
  ASSUME CoreInv, WriteInv, Wait, config_' = config_
  PROVE  Leads
<1> DEFINE d == Frame("drain", Listener)
           e == Frame("events", Listener)
           i == Frame("idle", Listener)
           s == <<i>>
           t1 == <<d>> \o s
           t2 == <<e>> \o t1
           t3 == <<d>> \o t2
<1>1. /\ Head(stack).pc \in {"wait", "idle"}
      /\ batch' = edges /\ edges' = [fd \in DOMAIN edges |-> {}]
      /\ stack' = <<d, e, d, i>>
      /\ connections_' = connections_ /\ next_connection_id_' = next_connection_id_
      /\ backlog' = backlog /\ stopping_' = stopping_ /\ UNCHANGED pool /\ sock' = sock
  BY Zenon DEF Wait, At, accepting
<1>2. /\ d \in FrameType /\ d.pc = "drain" /\ e \in FrameType /\ e.pc = "events"
      /\ i \in FrameType /\ i.pc = "idle"
  BY FrameFacts, Zenon DEF Bottom
<1>3. s \in Seq(FrameType) /\ Shape(s, Open, Closing) /\ Range(s) = {i} /\ Head(s) = i
  <2>1. Head(s) = i
    OBVIOUS
  <2>2. "idle" \in Bottom
    BY Zenon DEF Bottom
  <2> QED
    BY <2>1, <2>2, SingleShape, Zenon
<1> HIDE DEF d, e, i
<1>4. stack' = t3
  <2>1. <<d, e, d, i>> = <<d, e, d>> \o <<i>>
    <3>1. /\ Len(<<d, e, d, i>>) = 4 /\ Len(<<d, e, d>> \o <<i>>) = 4
          /\ <<d, e, d, i>> \in Seq({d, e, i}) /\ <<d, e, d>> \o <<i>> \in Seq({d, e, i})
      OBVIOUS
    <3>2. \A k \in 1 .. 4 : <<d, e, d, i>>[k] = (<<d, e, d>> \o <<i>>)[k]
      OBVIOUS
    <3> QED
      BY <3>1, <3>2, SameElements, Zenon
  <2>2. <<d, e, d>> \o s = t3
    <3>1. s \in Seq(FrameType)
      BY <1>3, Zenon
    <3> HIDE DEF s
    <3> QED
      BY <1>2, <3>1, ConsThree, SMTT(30)
  <2> QED
    BY <1>1, <2>1, <2>2, Zenon
<1> HIDE DEF s
<1>5. /\ d.pc \notin Bottom /\ d.pc \notin Working /\ d.pc \notin {"read", "parse"} /\ d.pc # "parse"
      /\ e.pc \notin Bottom /\ e.pc \notin Working /\ e.pc \notin {"read", "parse"} /\ e.pc # "parse"
      /\ i.pc \notin Working /\ i.pc # "parse"
  BY <1>2, Zenon DEF Bottom, Working
<1>6. t1 \in Seq(FrameType) /\ Shape(t1, Open, Closing) /\ Range(t1) = {d} \cup Range(s) /\ Head(t1) = d
  BY <1>2, <1>3, <1>5, Push, Zenon
<1> HIDE DEF t1
<1>7. t2 \in Seq(FrameType) /\ Shape(t2, Open, Closing) /\ Range(t2) = {e} \cup Range(t1) /\ Head(t2) = e
  BY <1>2, <1>5, <1>6, Push, Zenon
<1> HIDE DEF t2
<1>8. t3 \in Seq(FrameType) /\ Shape(t3, Open, Closing) /\ Range(t3) = {d} \cup Range(t2)
  BY <1>2, <1>5, <1>7, Push, Zenon
<1> HIDE DEF t3
<1>9. e \in Range(stack')
  BY <1>4, <1>7, <1>8, Zenon
<1>10. sock \in [Clients -> Socket] /\ edges \in [Fds \cup {Listener} -> SUBSET Interests] /\ stopping_ \in BOOLEAN
  BY Zenon DEF CoreInv, TypeInv, CoreType
<1>11. edges' \in [Fds \cup {Listener} -> SUBSET Interests] /\ batch' \in [Fds \cup {Listener} -> SUBSET Interests]
  BY <1>1, <1>10, Zenon
<1>12. SocketsOnly
  BY <1>1, <1>10, <1>11, Zenon DEF SocketsOnly
<1>13. Open' = Open
  BY <1>1, Zenon DEF Open
<1>14. Closing' = Closing
  BY <1>1, <1>13, Zenon DEF Closing
<1>15. ASSUME NEW g \in Open PROVE WriteOf(g)'
  <2>1. WriteOf(g) /\ ~Visits(stack, g) /\ (WriteEvent(g) => "write" \in edges[g])
    BY <1>1, TurnFacts, Zenon
  <2>2. WriteEvent(g) => WriteEvent(g)'
    BY <1>1, <2>1, Zenon DEF WriteEvent
  <2> QED
    BY <1>1, <2>1, <2>2, Zenon DEF WriteOf
<1>16. WriteInv'
  BY <1>2, <1>9, <1>13, <1>15, Zenon DEF WriteInv
<1>17. Kind
  BY <1>12, Zenon DEF Kind
<1>18. stack' \in Seq(FrameType) /\ Shape(stack', Open', Closing')
  BY <1>4, <1>8, <1>13, <1>14, Zenon
<1> QED
  BY <1>1, <1>10, <1>11, <1>16, <1>17, <1>18, Zenon DEF Leads

\* run() leaves its loop and closes every connection.
LEMMA EndOfRunLeads ==
  ASSUME CoreInv, WriteInv, EndOfRun, config_' = config_
  PROVE  Leads
<1> DEFINE f == Frame("ended", Listener)
<1>1. /\ connections_' = [fd \in Fds |-> NoConnection] /\ edges' = [fd \in DOMAIN edges |-> {}]
      /\ sock' = [m \in Clients |-> IF \E fd \in Open : connections_[fd].client = m
                                    THEN [sock[m] EXCEPT !.state = "closed"] ELSE sock[m]]
      /\ stack' = <<f>> /\ next_connection_id_' = next_connection_id_ /\ backlog' = backlog
      /\ UNCHANGED pool /\ batch' = batch /\ stopping_' = stopping_
  BY Zenon DEF EndOfRun, accepting
<1>2. /\ edges \in [Fds \cup {Listener} -> SUBSET Interests] /\ stopping_ \in BOOLEAN
      /\ batch \in [Fds \cup {Listener} -> SUBSET Interests]
  BY Zenon DEF CoreInv, TypeInv, CoreType
<1>3. edges' \in [Fds \cup {Listener} -> SUBSET Interests]
  BY <1>1, <1>2, Zenon
<1>4. connections_' = [fd \in Fds |-> IF fd \in Open THEN NoConnection ELSE connections_[fd]]
  BY <1>1, Zenon DEF Open
<1>5. CloseAll(Open)
  BY <1>1, <1>3, <1>4, Zenon DEF CloseAll
<1>6. Kind
  BY <1>5, Zenon DEF Kind
<1>7. "ended" \in Bottom /\ "ended" \notin {"wait", "idle"}
  BY Zenon DEF Bottom
<1>8. stack' \in Seq(FrameType) /\ Shape(stack', Open', Closing') /\ Range(stack') = {f}
  BY <1>1, <1>7, SingleShape, Zenon
<1>9. f.pc = "ended"
  BY FrameFacts, Zenon
<1> HIDE DEF f
<1>10. WriteInv'
  BY <1>7, <1>8, <1>9, Zenon DEF WriteInv
<1> QED
  BY <1>1, <1>2, <1>6, <1>8, <1>10, Zenon DEF Leads

\* close_idle_connections ends a round of the loop.
LEMMA CloseIdleConnectionsLeads ==
  ASSUME CoreInv, WriteInv, CloseIdleConnections, config_' = config_
  PROVE  Leads
<1> DEFINE f == Frame("wait", Listener)
<1>1. /\ Head(stack).pc \in {"wait", "idle"} /\ stack' = <<f>>
      /\ next_connection_id_' = next_connection_id_ /\ backlog' = backlog
      /\ UNCHANGED pool /\ batch' = batch /\ stopping_' = stopping_
  BY Zenon DEF CloseIdleConnections, At, accepting
<1>2. PICK S \in SUBSET Open :
         /\ connections_' = [fd \in Fds |-> IF fd \in S THEN NoConnection ELSE connections_[fd]]
         /\ edges' = [fd \in DOMAIN edges |-> IF fd \in S THEN {} ELSE edges[fd]]
         /\ sock' = [m \in Clients |-> IF \E fd \in S : connections_[fd].client = m
                                       THEN [sock[m] EXCEPT !.state = "closed"] ELSE sock[m]]
  BY Zenon DEF CloseIdleConnections
<1>3. /\ edges \in [Fds \cup {Listener} -> SUBSET Interests] /\ stopping_ \in BOOLEAN
      /\ batch \in [Fds \cup {Listener} -> SUBSET Interests]
  BY Zenon DEF CoreInv, TypeInv, CoreType
<1>4. /\ edges' \in [Fds \cup {Listener} -> SUBSET Interests]
      /\ \A g \in Fds : g \notin S => edges'[g] = edges[g]
  BY <1>2, <1>3, Zenon
<1>5. CloseAll(S)
  BY <1>1, <1>2, <1>4, Zenon DEF CloseAll
<1>6. Kind
  BY <1>5, Zenon DEF Kind
<1>7. /\ Open' = Open \ S
      /\ \A g \in Open' : /\ connections_'[g] = connections_[g]
                          /\ sock'[connections_[g].client] = sock[connections_[g].client]
  BY <1>5, CloseAllKeeps, Zenon DEF CoreInv
<1>8. "wait" \in Bottom
  BY Zenon DEF Bottom
<1>9. stack' \in Seq(FrameType) /\ Shape(stack', Open', Closing')
  BY <1>1, <1>8, SingleShape, Zenon
<1>10. \A fd \in DOMAIN batch : batch[fd] = {}
  BY <1>1, TurnFacts, Zenon
<1>11. ASSUME NEW g \in Open' PROVE WriteOf(g)'
  <2>1. g \in Open /\ g \notin S /\ g \in Fds
    BY <1>7, Zenon DEF Open
  <2>2. WriteOf(g) /\ ~Visits(stack, g) /\ (WriteEvent(g) => "write" \in edges[g])
    BY <1>1, <2>1, TurnFacts, Zenon
  <2>3. edges'[g] = edges[g]
    BY <1>4, <2>1, Zenon
  <2>4. WriteEvent(g) => WriteEvent(g)'
    BY <2>2, <2>3, Zenon DEF WriteEvent
  <2>5. connections_'[g] = connections_[g] /\ sock'[connections_[g].client] = sock[connections_[g].client]
    BY <1>7, Zenon
  <2> QED
    BY <2>2, <2>4, <2>5, Zenon DEF WriteOf
<1>12. WriteInv'
  BY <1>1, <1>10, <1>11, Zenon DEF WriteInv
<1> QED
  BY <1>1, <1>3, <1>6, <1>9, <1>12, Zenon DEF Leads

\* A connection that is put back is open.
LEMMA PutFacts ==
  ASSUME TypeInv, NEW fd \in Open, NEW v \in WorldType, Put(fd, v)
  PROVE  /\ Open' = Open /\ connections_'[fd] = v.c
         /\ v.c.closing = connections_[fd].closing => Closing' = Closing
<1>1. connections_ \in [Fds -> Connection \cup {NoConnection}] /\ fd \in Fds
  BY Zenon DEF TypeInv, CoreType, Open
<1>2. connections_' = [connections_ EXCEPT ![fd] = v.c]
  BY Zenon DEF Put
<1>3. v.c \in Connection
  BY WorldFields, Zenon
<1>4. v.c # NoConnection
  <2>1. v.c.id \in Nat \ {0}
    BY <1>3, Zenon DEF Connection
  <2>2. NoConnection.id = 0
    BY Zenon DEF NoConnection
  <2> QED
    BY <2>1, <2>2, Zenon
<1>5. connections_'[fd] = v.c /\ \A g \in Fds \ {fd} : connections_'[g] = connections_[g]
  BY <1>1, <1>2, Zenon
<1>6. Open' = Open
  BY <1>4, <1>5, Zenon DEF Open
<1>7. ASSUME v.c.closing = connections_[fd].closing PROVE Closing' = Closing
  <2>1. \A g \in Open : connections_'[g].closing = connections_[g].closing
    BY <1>5, <1>7, Zenon DEF Open
  <2> QED
    BY <1>6, <2>1, Zenon DEF Closing
<1> QED
  BY <1>5, <1>6, <1>7, Zenon

\* The connections a handler does not work on.
LEMMA TouchOthers ==
  ASSUME TypeInv, NEW fd \in Open, NEW v, HandlerStep(fd, v)
  PROVE  /\ Open' \subseteq Open
         /\ \A g \in Open' : g # fd => connections_'[g] = connections_[g]
         /\ \A m \in Clients \ {connections_[fd].client} : sock'[m] = sock[m]
         /\ \A g \in Fds \cup {Listener} : g # fd => edges'[g] = edges[g]
<1>1. v \in WorldType /\ Touch(fd, v) /\ Len(v.jobs) <= config_.worker_queue_limit
  BY Zenon DEF HandlerStep, Handled
<1> QED
  BY <1>1, TouchFacts, ZenonT(30)

\* A connection that is closed is not open.
LEMMA CloseFacts ==
  ASSUME TypeInv, NEW fd \in Open, NEW v \in WorldType, CloseConnection(fd, v)
  PROVE  fd \notin Open'
<1> DEFINE x == [v EXCEPT !.c = NoConnection, !.e = {}, !.s.state = "closed"]
<1>1. Put(fd, x)
  BY Zenon DEF CloseConnection
<1>2. x.c = NoConnection
  BY Zenon DEF WorldType
<1> HIDE DEF x
<1>3. connections_ \in [Fds -> Connection \cup {NoConnection}] /\ fd \in Fds
  BY Zenon DEF TypeInv, CoreType, Open
<1>4. connections_'[fd] = NoConnection
  BY <1>1, <1>2, <1>3, Zenon DEF Put
<1> QED
  BY <1>4, Zenon DEF Open

\* A handler works on the connection fd, and leaves the others alone.
LEMMA HandlerLeads ==
  ASSUME CoreInv, WriteInv, NEW fd \in Open, NEW v, HandlerStep(fd, v),
         stopping_' = stopping_, batch' = batch,
         stack' \in Seq(FrameType), Shape(stack', Open', Closing'),
         \A f \in Range(stack') : f.pc \in {"wait", "idle"} => f \in Range(stack),
         \A f \in Range(stack) : f.pc = "events" => f \in Range(stack'),
         \A f \in Range(stack) : f.pc \in {"interest", "finish"} /\ f.fd # fd => f \in Range(stack'),
         fd \in Open' /\ WriteOf(fd) => WriteOf(fd)'
  PROVE  Leads
<1>1. TypeInv
  BY Zenon DEF CoreInv
<1>2. v \in WorldType
  BY Zenon DEF HandlerStep, Handled
<1>3. /\ Open' \subseteq Open
      /\ \A g \in Open' : g # fd => connections_'[g] = connections_[g]
      /\ \A m \in Clients \ {connections_[fd].client} : sock'[m] = sock[m]
      /\ \A g \in Fds \cup {Listener} : g # fd => edges'[g] = edges[g]
  BY <1>1, TouchOthers, Zenon
<1>4. ASSUME NEW g \in Open', g # fd, WriteOf(g) PROVE WriteOf(g)'
  <2>1. g \in Open /\ connections_'[g] = connections_[g]
    BY <1>3, <1>4, Zenon
  <2>2. connections_[g].client \in Clients /\ g \in Fds
    BY <1>1, <2>1, OpenFacts, Zenon
  <2>3. connections_[g].client # connections_[fd].client
    BY <1>4, <2>1, Zenon DEF CoreInv, IdInv
  <2>4. sock'[connections_[g].client] = sock[connections_[g].client] /\ edges'[g] = edges[g]
    BY <1>3, <1>4, <2>2, <2>3, Zenon
  <2>5. \A f \in Range(stack) : f.pc \in {"interest", "finish"} /\ f.fd = g => f \in Range(stack')
    BY <1>4, Zenon
  <2>6. (Visits(stack, g) => Visits(stack', g)) /\ (WriteEvent(g) => WriteEvent(g)')
    BY <2>4, <2>5, FramesStay, Zenon
  <2> QED
    BY <1>4, <2>1, <2>4, <2>6, Zenon DEF WriteOf
<1>5. (\A g \in Open : WriteOf(g)) => \A g \in Open' : WriteOf(g)'
  BY <1>3, <1>4, Zenon
<1>6. WriteInv'
  BY <1>5, WriteFrame, Zenon
<1>7. batch' \in [Fds \cup {Listener} -> SUBSET Interests] /\ stopping_' \in BOOLEAN
  BY <1>1, Zenon DEF TypeInv
<1>8. Kind
  BY <1>2, Zenon DEF Kind
<1> QED
  BY <1>6, <1>7, <1>8, Zenon DEF Leads

\* A handler that does not write.
LEMMA KeepWrite ==
  ASSUME CoreInv, NEW fd \in Open, NEW v \in WorldType, Put(fd, v), WriteOf(fd), batch' = batch,
         v.c.client = connections_[fd].client, v.c.interest = connections_[fd].interest,
         v.e = edges[fd], v.s.unread = sock[connections_[fd].client].unread,
         connections_[fd].output # <<>> => v.c.output # <<>>,
         Visits(stack', fd), \A f \in Range(stack) : f.pc = "finish" => f \in Range(stack')
  PROVE  WriteOf(fd)'
<1>1. TypeInv
  BY Zenon DEF CoreInv
<1>2. fd \in Fds /\ connections_[fd].client \in Clients /\ sock \in [Clients -> Socket]
      /\ edges \in [Fds \cup {Listener} -> SUBSET Interests]
  BY <1>1, OpenFacts, Zenon DEF TypeInv, CoreType
<1>3. /\ connections_'[fd] = v.c /\ sock'[connections_[fd].client] = v.s /\ edges'[fd] = v.e
  BY <1>1, <1>2, PutFacts, Zenon DEF Put
<1>4. WriteEvent(fd) => WriteEvent(fd)'
  BY <1>3, Zenon DEF WriteEvent
<1> QED
  BY <1>3, <1>4, Zenon DEF WriteOf

\* A handler that ends with the registration of its interest.
LEMMA ModifyLeads ==
  ASSUME CoreInv, WriteInv, NEW fd \in Open, NEW u, Handled(World(fd), u),
         u.c.interest = connections_[fd].interest, u.e = edges[fd],
         Put(fd, Modify(u, WantedInterest(u))), UNCHANGED <<accepting, batch, config_>>,
         stack' \in Seq(FrameType), Shape(stack', Open', Closing'),
         \A f \in Range(stack') : f.pc \in {"wait", "idle"} => f \in Range(stack),
         \A f \in Range(stack) : f.pc = "events" => f \in Range(stack'),
         \A f \in Range(stack) : f.pc \in {"interest", "finish"} /\ f.fd # fd => f \in Range(stack'),
         u.c.output # <<>> /\ u.s.unread < SendRoom =>
            /\ u = World(fd)
            /\ \A f \in Range(stack) : f.pc = "finish" /\ f.fd = fd /\ "write" \in f.ready => f \in Range(stack')
  PROVE  Leads
<1> DEFINE v == Modify(u, WantedInterest(u))
           n == connections_[fd].client
<1>1. TypeInv
  BY Zenon DEF CoreInv
<1>2. World(fd) \in WorldType /\ World(fd).c = connections_[fd] /\ World(fd).s = sock[n]
  BY <1>1, WorldFacts, Zenon
<1>3. u \in WorldType /\ u.c.client = n
  BY <1>2, Zenon DEF Handled
<1>4. Handled(World(fd), v)
  BY <1>1, <1>2, HandledModify, Zenon
<1>5. /\ v \in WorldType /\ v.s = u.s /\ v.c.output = u.c.output
      /\ "write" \in v.c.interest <=> u.c.output # <<>>
      /\ "write" \in v.c.interest /\ "write" \in u.e => "write" \in v.e
      /\ "write" \in v.c.interest /\ "write" \notin u.c.interest /\ u.s.unread < SendRoom => "write" \in v.e
  BY <1>3, ModifyFacts, Zenon
<1>51. v.c.client = n
  BY <1>2, <1>4, Zenon DEF Handled
<1> HIDE DEF v
<1>6. Put(fd, v)
  BY Zenon DEF v
<1>7. HandlerStep(fd, v)
  BY <1>4, <1>6, Zenon DEF HandlerStep, Touch, accepting
<1>8. fd \in Fds /\ n \in Clients /\ sock \in [Clients -> Socket]
      /\ edges \in [Fds \cup {Listener} -> SUBSET Interests]
  BY <1>1, OpenFacts, Zenon DEF TypeInv, CoreType
<1>9. /\ connections_'[fd] = v.c /\ sock'[n] = v.s /\ edges'[fd] = v.e
  BY <1>1, <1>5, <1>6, <1>8, PutFacts, ZenonT(30) DEF Put
<1>10. ASSUME WriteOf(fd), u.c.output # <<>>, u.s.unread < SendRoom PROVE WriteEvent(fd)'
  <2>1. "write" \in v.c.interest
    BY <1>5, <1>10, Zenon
  <2>2. CASE "write" \notin u.c.interest
    BY <1>5, <1>9, <1>10, <2>1, <2>2, Zenon DEF WriteEvent
  <2>3. CASE "write" \in connections_[fd].interest
    <3>1. WriteEvent(fd)
      BY <1>2, <1>10, <2>3, Zenon DEF WriteOf
    <3>2. "write" \in edges[fd] => "write" \in edges'[fd]
      BY <1>5, <1>9, <2>1, Zenon
    <3>3. \A f \in Range(stack) : f.pc = "finish" /\ f.fd = fd /\ "write" \in f.ready => f \in Range(stack')
      BY <1>10, Zenon
    <3> QED
      BY <3>1, <3>2, <3>3, Zenon DEF WriteEvent
  <2> QED
    BY <2>2, <2>3, Zenon
<1>11. WriteOf(fd) => WriteOf(fd)'
  BY <1>5, <1>51, <1>9, <1>10, Zenon DEF WriteOf
<1> QED
  BY <1>7, <1>11, HandlerLeads, Zenon DEF accepting

\* A handler of one connection that returns, or goes on, without a write.
LEMMA KeepLeads ==
  ASSUME CoreInv, WriteInv, NEW fd \in Open, NEW v, Handled(World(fd), v), Put(fd, v),
         UNCHANGED <<accepting, batch, config_>>,
         v.c.interest = connections_[fd].interest, v.e = edges[fd],
         v.s.unread = sock[connections_[fd].client].unread,
         connections_[fd].output # <<>> => v.c.output # <<>>,
         stack' \in Seq(FrameType), Shape(stack', Open', Closing'), Visits(stack', fd),
         \A f \in Range(stack') : f.pc \in {"wait", "idle"} => f \in Range(stack),
         \A f \in Range(stack) : f.pc \notin {"read", "parse"} => f \in Range(stack')
  PROVE  Leads
<1>1. HandlerStep(fd, v) /\ v \in WorldType /\ stopping_' = stopping_ /\ batch' = batch
  BY Zenon DEF HandlerStep, Touch, Handled, accepting
<1>2. v.c.client = connections_[fd].client
  <2>1. World(fd).c = connections_[fd]
    BY WorldFacts, Zenon DEF CoreInv
  <2> QED
    BY <2>1, Zenon DEF Handled
<1>3. /\ \A f \in Range(stack) : f.pc = "finish" => f \in Range(stack')
      /\ \A f \in Range(stack) : f.pc = "events" => f \in Range(stack')
      /\ \A f \in Range(stack) : f.pc \in {"interest", "finish"} /\ f.fd # fd => f \in Range(stack')
  <2>1. "finish" \notin {"read", "parse"} /\ "events" \notin {"read", "parse"}
        /\ \A x \in {"interest", "finish"} : x \notin {"read", "parse"}
    BY Zenon
  <2> QED
    BY <2>1, Zenon
<1>4. WriteOf(fd) => WriteOf(fd)'
  BY <1>1, <1>2, <1>3, KeepWrite, Zenon
<1> QED
  BY <1>1, <1>3, <1>4, HandlerLeads, Zenon

\* The connection that read_connection or queue_parsed_commands works on.
LEMMA WorkFacts ==
  ASSUME CoreInv, Head(stack).pc \in {"read", "parse"}
  PROVE  LET fd == Head(stack).fd
         IN  /\ fd \in Open /\ fd \in Fds /\ Found(World(fd)) /\ Visits(Tail(stack), fd) /\ Visits(stack, fd)
             /\ World(fd).c = connections_[fd] /\ World(fd).s = sock[connections_[fd].client]
             /\ World(fd).e = edges[fd] /\ World(fd) \in WorldType
             /\ (Head(stack).pc = "parse" => fd \notin Closing)
             /\ TypeInv /\ stack \in Seq(FrameType) /\ Shape(stack, Open, Closing)
             /\ Tail(stack) \in Seq(FrameType) /\ Range(stack) = {Head(stack)} \cup Range(Tail(stack))
<1> DEFINE fd == Head(stack).fd
<1>1. TypeInv /\ StrandInv /\ Shape(stack, Open, Closing)
  BY Zenon DEF CoreInv, StackInv
<1>2. Head(stack).pc \in Working
  BY Zenon DEF Working
<1>3. /\ fd \in Open /\ Visits(Tail(stack), fd) /\ (Head(stack).pc = "parse" => fd \notin Closing)
      /\ stack \in Seq(FrameType) /\ Tail(stack) \in Seq(FrameType)
      /\ Range(stack) = {Head(stack)} \cup Range(Tail(stack))
  BY <1>2, TopFacts, Zenon
<1>4. Found(World(fd))
  BY <1>1, <1>3, FoundFacts, Zenon
<1>5. /\ World(fd).c = connections_[fd] /\ World(fd).s = sock[connections_[fd].client]
      /\ World(fd).e = edges[fd] /\ World(fd) \in WorldType
  BY <1>1, <1>3, WorldFacts, Zenon
<1>6. Visits(stack, fd)
  BY <1>3, Zenon DEF Visits
<1>7. fd \in Fds
  BY <1>3, Zenon DEF Open
<1> QED
  BY <1>1, <1>3, <1>4, <1>5, <1>6, <1>7, Zenon

\* The same, when it returns.
LEMMA ReturnLeads ==
  ASSUME CoreInv, WriteInv, Head(stack).pc \in {"read", "parse"}, NEW v,
         Handled(World(Head(stack).fd), v), Put(Head(stack).fd, v),
         UNCHANGED <<accepting, batch, config_>>, stack' = Rest,
         v.c.interest = connections_[Head(stack).fd].interest, v.e = edges[Head(stack).fd],
         v.s.unread = sock[connections_[Head(stack).fd].client].unread,
         connections_[Head(stack).fd].output # <<>> => v.c.output # <<>>
  PROVE  Leads
<1> DEFINE fd == Head(stack).fd
<1>1. /\ fd \in Open /\ Visits(Tail(stack), fd)
      /\ TypeInv /\ stack \in Seq(FrameType) /\ Shape(stack, Open, Closing)
      /\ Tail(stack) \in Seq(FrameType) /\ Range(stack) = {Head(stack)} \cup Range(Tail(stack))
  BY WorkFacts, Zenon
<1>2. v \in WorldType
  BY Zenon DEF Handled
<1>3. Open' = Open
  BY <1>1, <1>2, PutFacts, Zenon
<1>4. Head(stack).pc \notin Bottom /\ (Open \subseteq Open' \/ Head(stack).pc \notin {"read", "parse"})
  BY <1>3, Zenon DEF Bottom
<1>5. Shape(Tail(stack), Open', Closing')
  BY <1>1, <1>4, Pop, Zenon
<1>6. stack' = Tail(stack)
  BY Zenon DEF Rest
<1>7. v.s.unread = sock[connections_[fd].client].unread
  BY Zenon
<1>8. /\ stack' \in Seq(FrameType) /\ Shape(stack', Open', Closing') /\ Visits(stack', fd)
      /\ \A f \in Range(stack') : f.pc \in {"wait", "idle"} => f \in Range(stack)
      /\ \A f \in Range(stack) : f.pc \notin {"read", "parse"} => f \in Range(stack')
  BY <1>1, <1>5, <1>6, Zenon
<1> HIDE DEF fd
<1> QED
  BY <1>1, <1>7, <1>8, KeepLeads, Zenon DEF fd

\* An error reply makes an output longer.
LEMMA ErrorKeeps ==
  ASSUME NEW w \in WorldType
  PROVE  Append(w.c.output, ErrorReply(w.c.client)) # <<>>
<1>1. w.c.output \in Seq(ReplyType) /\ w.c.client \in Clients
  BY WorldFields, ConnectionFields, Zenon
<1>2. ErrorReply(w.c.client) \in ReplyType
  BY <1>1, Zenon DEF ErrorReply, Reply, ReplyType
<1> DEFINE o == w.c.output
           e == ErrorReply(w.c.client)
           S == ReplyType
<1>3. o \in Seq(S) /\ e \in S
  BY <1>1, <1>2, Zenon
<1> HIDE DEF o, e, S
<1>4. Append(o, e) # <<>>
  BY <1>3, SMTT(30)
<1> QED
  BY <1>4, Zenon DEF o, e

\* The end of the input, and an error, leave the interest and the output.
LEMMA EndKeeps ==
  ASSUME NEW w \in WorldType
  PROVE  LET u == EndOfInput(w)
         IN  /\ u.s = w.s /\ u.e = w.e /\ u.c.interest = w.c.interest
             /\ w.c.output # <<>> => u.c.output # <<>>
BY EndFacts, ErrorKeeps, Zenon


\* One round of the loop of read_connection.
LEMMA ReadConnectionLeads ==
  ASSUME CoreInv, WriteInv, ReadConnection, config_' = config_
  PROVE  Leads
<1> DEFINE fd == Head(stack).fd
           w == World(fd)
           n == TryReceive(w.s)
           v == [w EXCEPT !.s.in = SubSeq(@, n + 1, Len(@)), !.c.parser = @ \o SubSeq(w.s.in, 1, n)]
           x == [ProtocolError(w) EXCEPT !.s.in = SubSeq(@, n + 1, Len(@))]
           p == Frame("parse", fd)
<1>1. Head(stack).pc = "read" /\ UNCHANGED <<accepting, batch, config_>>
  BY Zenon DEF ReadConnection, At
<1>2. Head(stack).pc \in {"read", "parse"}
  BY <1>1, Zenon
<1>3. /\ fd \in Open /\ fd \in Fds /\ Found(w) /\ Visits(stack, fd)
      /\ w.c = connections_[fd] /\ w.s = sock[connections_[fd].client] /\ w.e = edges[fd] /\ w \in WorldType
      /\ TypeInv /\ stack \in Seq(FrameType) /\ Shape(stack, Open, Closing)
  BY <1>2, WorkFacts, Zenon
<1>4. \/ Throw /\ UNCHANGED <<conns, pool>>
      \/ ~w.c.closing /\ n > 0 /\ Put(fd, v) /\ stack' = <<p>> \o stack
      \/ ~w.c.closing /\ n > 0 /\ Put(fd, x) /\ stack' = Rest
      \/ ~w.c.closing /\ Put(fd, EndOfInput(w)) /\ stack' = Rest
      \/ stack' = Rest /\ UNCHANGED <<conns, pool>>
  BY Zenon DEF ReadConnection
<1> HIDE DEF w, fd
<1>5. CASE Throw /\ UNCHANGED <<conns, pool>>
  <2>1. Quiet /\ UNCHANGED <<batch, stopping_>>
    BY <1>1, <1>5, Zenon DEF Quiet, accepting
  <2> QED
    BY <1>5, <2>1, ThrowLeads, Zenon
<1>6. CASE stack' = Rest /\ UNCHANGED <<conns, pool>>
  <2>1. Quiet /\ UNCHANGED <<batch, stopping_>>
    BY <1>1, <1>6, Zenon DEF Quiet, accepting
  <2>2. Head(stack).pc \notin Bottom \cup {"events"} /\ Head(stack).pc \notin {"interest", "finish"}
    BY <1>1, Zenon DEF Bottom
  <2> QED
    BY <1>6, <2>1, <2>2, PopLeads, Zenon
<1>7. CASE ~w.c.closing /\ Put(fd, EndOfInput(w)) /\ stack' = Rest
  <2> DEFINE u == EndOfInput(w)
  <2>1. Handled(w, u)
    BY <1>3, <1>7, HandledEnd, Zenon
  <2>2. /\ u.s = w.s /\ u.e = w.e /\ u.c.interest = w.c.interest
        /\ w.c.output # <<>> => u.c.output # <<>>
    BY <1>3, EndKeeps, Zenon
  <2> HIDE DEF u
  <2>3. /\ Handled(World(Head(stack).fd), u) /\ Put(Head(stack).fd, u)
        /\ u.c.interest = connections_[Head(stack).fd].interest /\ u.e = edges[Head(stack).fd]
        /\ u.s.unread = sock[connections_[Head(stack).fd].client].unread
        /\ connections_[Head(stack).fd].output # <<>> => u.c.output # <<>>
    BY <1>3, <1>7, <2>1, <2>2, Zenon DEF w, fd, u
  <2> QED
    BY <1>1, <1>2, <1>7, <2>3, ReturnLeads, Zenon
<1>a. ASSUME n > 0 PROVE n \in 1 .. Len(w.s.in)
  <2>1. Len(w.s.in) \in Nat
    <3>1. w.s.in \in Seq(config_.messages)
      BY <1>3, WorldFields, SocketFields, Zenon
    <3> QED
      BY <3>1, LenFacts, Zenon
  <2>2. Chunk \in Nat
    BY <1>3, Constants, Zenon
  <2>3. Chunk \in Int /\ Len(w.s.in) \in Int
    BY <2>1, <2>2
  <2>4. n \in {Chunk, Len(w.s.in)} /\ n <= Chunk /\ n <= Len(w.s.in)
    BY <2>3, MinFacts, Zenon DEF TryReceive
  <2> HIDE DEF n
  <2> QED
    BY <1>a, <2>1, <2>2, <2>4, SMTT(30)
<1>9. CASE ~w.c.closing /\ n > 0 /\ Put(fd, x) /\ stack' = Rest
  <2>1. /\ Handled(w, x) /\ x.e = w.e /\ x.c.interest = w.c.interest
        /\ x.c.output = Append(w.c.output, ErrorReply(w.c.client))
        /\ x.s.unread = w.s.unread
    BY <1>3, <1>9, <1>a, HandledOverflow, Zenon
  <2>2. Append(w.c.output, ErrorReply(w.c.client)) # <<>>
    BY <1>3, ErrorKeeps, Zenon
  <2> HIDE DEF x
  <2>3. /\ Handled(World(Head(stack).fd), x) /\ Put(Head(stack).fd, x)
        /\ x.c.interest = connections_[Head(stack).fd].interest /\ x.e = edges[Head(stack).fd]
        /\ x.s.unread = sock[connections_[Head(stack).fd].client].unread
        /\ x.c.output # <<>>
    BY <1>3, <1>9, <2>1, <2>2, Zenon DEF w, fd
  <2> QED
    BY <1>1, <1>2, <1>9, <2>3, ReturnLeads, Zenon
<1>8. CASE ~w.c.closing /\ n > 0 /\ Put(fd, v) /\ stack' = <<p>> \o stack
  <2>1. n \in 1 .. Len(w.s.in)
    BY <1>8, <1>a, Zenon
  <2>2. Handled(w, v)
    BY <1>3, <2>1, HandledReceive, Zenon
  <2>3. /\ v.e = w.e /\ v.c.interest = w.c.interest /\ v.c.output = w.c.output
        /\ v.c.closing = w.c.closing /\ v.s.unread = w.s.unread /\ v \in WorldType
    BY <1>3, <2>1, ReceiveFacts, Zenon
  <2> HIDE DEF v
  <2>4. Open' = Open /\ Closing' = Closing
    <3>1. v.c.closing = connections_[fd].closing
      BY <1>3, <2>3, Zenon
    <3> QED
      BY <1>3, <1>8, <2>3, <3>1, PutFacts, Zenon
  <2>5. p \in FrameType /\ p.pc = "parse" /\ p.fd = fd
    BY <1>3, FrameFacts, Zenon DEF Working
  <2> HIDE DEF p
  <2>6. /\ p.pc \notin Bottom /\ Head(stack).pc # "parse" /\ p.pc \in {"read", "parse"}
        /\ p.pc \notin {"wait", "idle"}
        /\ (p.pc \in {"read", "parse"} \/ Head(stack).pc \notin Working)
    BY <1>1, <2>5, Zenon DEF Bottom
  <2>7. p.fd \in Open /\ p.fd \notin Closing /\ Visits(stack, p.fd)
    BY <1>3, <1>8, <2>5, Zenon DEF Closing
  <2>8. stack' \in Seq(FrameType) /\ Shape(stack', Open, Closing) /\ Range(stack') = {p} \cup Range(stack)
    BY <1>3, <1>8, <2>5, <2>6, <2>7, Push, Zenon
  <2>9. /\ Visits(stack', fd)
        /\ \A f \in Range(stack') : f.pc \in {"wait", "idle"} => f \in Range(stack)
        /\ \A f \in Range(stack) : f \in Range(stack')
    BY <1>3, <2>6, <2>8, Zenon DEF Visits
  <2>10. /\ Handled(World(fd), v) /\ v.c.interest = connections_[fd].interest /\ v.e = edges[fd]
         /\ v.s.unread = sock[connections_[fd].client].unread
         /\ connections_[fd].output # <<>> => v.c.output # <<>>
    BY <1>3, <2>2, <2>3, Zenon DEF w
  <2>11. Shape(stack', Open', Closing')
    BY <2>4, <2>8, Zenon
  <2> QED
    BY <1>1, <1>3, <1>8, <2>8, <2>9, <2>10, <2>11, KeepLeads, Zenon
<1> QED
  BY <1>4, <1>5, <1>6, <1>7, <1>8, <1>9, Zenon

\* One round of the loop that parses the input.
LEMMA QueueParsedCommandsLeads ==
  ASSUME CoreInv, WriteInv, QueueParsedCommands, config_' = config_
  PROVE  Leads
<1> DEFINE fd == Head(stack).fd
           w == World(fd)
           v == EnqueueCommand([w EXCEPT !.c.parser = Tail(@)])
<1>1. Head(stack).pc = "parse" /\ UNCHANGED <<accepting, batch, config_>>
  BY Zenon DEF QueueParsedCommands, At
<1>2. Head(stack).pc \in {"read", "parse"}
  BY <1>1, Zenon
<1>3. /\ fd \in Open /\ fd \in Fds /\ Found(w) /\ Visits(stack, fd) /\ fd \notin Closing
      /\ w.c = connections_[fd] /\ w.s = sock[connections_[fd].client] /\ w.e = edges[fd] /\ w \in WorldType
      /\ TypeInv /\ stack \in Seq(FrameType) /\ Shape(stack, Open, Closing)
  BY <1>1, <1>2, WorkFacts, Zenon
<1>4. ~w.c.closing
  BY <1>3, Zenon DEF Closing
<1>5. \/ stack' = Rest /\ UNCHANGED <<conns, pool>>
      \/ Put(fd, ProtocolError(w)) /\ stack' = Rest
      \/ ParserNext(w.c.parser) = "cmd" /\ Put(fd, v) /\ stack' = stack
  BY Zenon DEF QueueParsedCommands
<1> HIDE DEF w, fd
<1>6. CASE stack' = Rest /\ UNCHANGED <<conns, pool>>
  <2>1. Quiet /\ UNCHANGED <<batch, stopping_>>
    BY <1>1, <1>6, Zenon DEF Quiet, accepting
  <2>2. Head(stack).pc \notin Bottom \cup {"events"} /\ Head(stack).pc \notin {"interest", "finish"}
    BY <1>1, Zenon DEF Bottom
  <2> QED
    BY <1>6, <2>1, <2>2, PopLeads, Zenon
<1>7. CASE Put(fd, ProtocolError(w)) /\ stack' = Rest
  <2> DEFINE u == ProtocolError(w)
  <2>1. Handled(w, u)
    BY <1>3, <1>4, HandledProtocolError, Zenon
  <2>2. u.s = w.s /\ u.e = w.e /\ u.c.interest = w.c.interest /\ u.c.output # <<>>
    BY <1>3, ErrorFacts, ErrorKeeps, Zenon
  <2> HIDE DEF u
  <2>3. /\ Handled(World(Head(stack).fd), u) /\ Put(Head(stack).fd, u)
        /\ u.c.interest = connections_[Head(stack).fd].interest /\ u.e = edges[Head(stack).fd]
        /\ u.s.unread = sock[connections_[Head(stack).fd].client].unread
        /\ connections_[Head(stack).fd].output # <<>> => u.c.output # <<>>
    BY <1>3, <1>7, <2>1, <2>2, Zenon DEF w, fd, u
  <2> QED
    BY <1>1, <1>2, <1>7, <2>3, ReturnLeads, Zenon
<1>8. CASE ParserNext(w.c.parser) = "cmd" /\ Put(fd, v) /\ stack' = stack
  <2>1. w.c.parser # <<>>
    BY <1>8, Zenon DEF ParserNext
  <2>2. /\ Handled(w, v) /\ v.s = w.s /\ v.e = w.e /\ v.c.interest = w.c.interest
        /\ v.c.closing = w.c.closing /\ v.c.output = w.c.output
    BY <1>3, <2>1, HandledCommand, Zenon
  <2> HIDE DEF v
  <2>3. v \in WorldType
    BY <2>2, Zenon DEF Handled
  <2>4. Open' = Open /\ Closing' = Closing
    <3>1. v.c.closing = connections_[fd].closing
      BY <1>3, <2>2, Zenon
    <3> QED
      BY <1>3, <1>8, <2>3, <3>1, PutFacts, Zenon
  <2>5. /\ stack' \in Seq(FrameType) /\ Shape(stack', Open', Closing') /\ Visits(stack', fd)
        /\ \A f \in Range(stack') : f \in Range(stack)
        /\ \A f \in Range(stack) : f \in Range(stack')
    BY <1>3, <1>8, <2>4, Zenon
  <2>6. /\ Handled(World(fd), v) /\ v.c.interest = connections_[fd].interest /\ v.e = edges[fd]
        /\ v.s.unread = sock[connections_[fd].client].unread
        /\ connections_[fd].output # <<>> => v.c.output # <<>>
    BY <1>3, <2>2, Zenon DEF w
  <2> QED
    BY <1>1, <1>3, <1>8, <2>5, <2>6, KeepLeads, Zenon
<1> QED
  BY <1>5, <1>6, <1>7, <1>8, Zenon

\* update_interest after queue_parsed_commands.
LEMMA UpdateInterestAgainLeads ==
  ASSUME CoreInv, WriteInv, UpdateInterestAgain, config_' = config_
  PROVE  Leads
<1> DEFINE fd == Head(stack).fd
           w == World(fd)
<1>1. /\ Head(stack).pc = "interest" /\ UNCHANGED <<accepting, batch, config_>> /\ stack' = Tail(stack)
      /\ Put(fd, Modify(w, WantedInterest(w)))
  BY Zenon DEF UpdateInterestAgain, At, Rest
<1>2. Head(stack).pc \in Working /\ Head(stack).pc \notin Bottom /\ Head(stack).pc \notin {"read", "parse"}
      /\ Head(stack).pc # "finish" /\ Head(stack).pc # "events"
  BY <1>1, Zenon DEF Working, Bottom
<1>3. TypeInv /\ StrandInv /\ Shape(stack, Open, Closing)
  BY Zenon DEF CoreInv, StackInv
<1>4. /\ fd \in Open /\ stack \in Seq(FrameType) /\ Tail(stack) \in Seq(FrameType)
      /\ Range(stack) = {Head(stack)} \cup Range(Tail(stack))
  BY <1>2, TopFacts, Zenon
<1>5. Found(w) /\ w.c = connections_[fd] /\ w.e = edges[fd]
  BY <1>3, <1>4, FoundFacts, WorldFacts, Zenon
<1>6. Handled(w, w)
  BY <1>3, <1>5, HandledSelf, Zenon
<1>7. Shape(Tail(stack), Open', Closing')
  BY <1>2, <1>3, <1>4, Pop, Zenon
<1>8. /\ stack' \in Seq(FrameType) /\ Shape(stack', Open', Closing')
      /\ \A f \in Range(stack') : f.pc \in {"wait", "idle"} => f \in Range(stack)
      /\ \A f \in Range(stack) : f.pc = "events" => f \in Range(stack')
      /\ \A f \in Range(stack) : f.pc \in {"interest", "finish"} /\ f.fd # fd => f \in Range(stack')
      /\ \A f \in Range(stack) : f.pc = "finish" => f \in Range(stack')
  BY <1>1, <1>2, <1>4, <1>7, Zenon
<1>9. w.c.interest = connections_[fd].interest
  BY <1>5, Zenon
<1> HIDE DEF fd
<1> QED
  BY <1>1, <1>4, <1>5, <1>6, <1>8, <1>9, ModifyLeads, Zenon

\* The frames of the read that update_interest makes.
LEMMA PushInterest ==
  ASSUME NEW s \in Seq(FrameType), NEW open, NEW shut, Shape(s, open, shut),
         Head(s).pc \notin Working, NEW fd \in Fds, fd \in open
  PROVE  LET r == Frame("read", fd)
             i == Frame("interest", fd)
             t == <<r, i>> \o s
         IN  /\ t \in Seq(FrameType) /\ Shape(t, open, shut) /\ Range(t) = {r, i} \cup Range(s)
             /\ r.pc \notin {"wait", "idle"} /\ i.pc \notin {"wait", "idle"}
<1> DEFINE r == Frame("read", fd)
           i == Frame("interest", fd)
           t1 == <<i>> \o s
           t2 == <<r>> \o t1
<1>1. r \in FrameType /\ r.pc = "read" /\ r.fd = fd /\ i \in FrameType /\ i.pc = "interest" /\ i.fd = fd
  BY FrameFacts, Zenon DEF Working
<1> HIDE DEF r, i
<1>2. <<r, i>> \o s = t2
  BY <1>1, ConsTwo, Zenon
<1>3. t1 \in Seq(FrameType) /\ Shape(t1, open, shut) /\ Range(t1) = {i} \cup Range(s) /\ Head(t1) = i
  <2>1. /\ i.pc \notin Bottom /\ i.pc \notin {"read", "parse"} /\ i.pc # "parse" /\ Head(s).pc # "parse"
    BY <1>1, Zenon DEF Bottom, Working
  <2>2. /\ (i.pc \in {"read", "parse"} \/ Head(s).pc \notin Working)
        /\ (i.pc \in Working => i.fd \in open)
    BY <1>1, Zenon
  <2> QED
    BY <1>1, <2>1, <2>2, Push, Zenon
<1> HIDE DEF t1
<1>4. t2 \in Seq(FrameType) /\ Shape(t2, open, shut) /\ Range(t2) = {r} \cup Range(t1)
  <2>1. /\ r.pc \notin Bottom /\ r.pc \in {"read", "parse"} /\ (r.pc = "parse" => r.fd \notin shut)
        /\ (r.pc \in {"read", "parse"} \/ Head(t1).pc \notin Working)
    BY <1>1, Zenon DEF Bottom
  <2>2. r.pc \in Working => r.fd \in open
    BY <1>1, Zenon
  <2>3. Head(t1).pc # "parse"
    BY <1>1, <1>3, Zenon
  <2>4. Visits(t1, r.fd)
    BY <1>1, <1>3, Zenon DEF Visits
  <2> QED
    BY <1>1, <1>3, <2>1, <2>2, <2>3, <2>4, Push, Zenon
<1> HIDE DEF t2
<1>5. Range(t2) = {r, i} \cup Range(s)
  BY <1>3, <1>4, Zenon
<1>6. r.pc \notin {"wait", "idle"} /\ i.pc \notin {"wait", "idle"}
  BY <1>1, Zenon
<1> QED
  BY <1>2, <1>4, <1>5, <1>6, Zenon DEF r, i

\* How a handler ends: the connection is closed, or its interest registered.
LEMMA CloseOrUpdateLeads ==
  ASSUME CoreInv, WriteInv, NEW fd \in Open, NEW u, Handled(World(fd), u),
         u.c.interest = connections_[fd].interest, u.e = edges[fd],
         NEW rest \in Seq(FrameType), CloseOrUpdateInterest(fd, u, rest),
         UNCHANGED <<accepting, batch, config_>>,
         Shape(rest, Open', Closing'), Head(rest).pc \notin Working,
         \A f \in Range(rest) : f \in Range(stack),
         \A f \in Range(stack) : (f.pc = "finish" /\ f.fd = fd) \/ f \in Range(rest),
         u.c.output # <<>> /\ u.s.unread < SendRoom =>
            /\ u = World(fd)
            /\ \A f \in Range(stack) : f.pc = "finish" /\ f.fd = fd /\ "write" \in f.ready => f \in Range(rest)
  PROVE  Leads
<1>1. TypeInv
  BY Zenon DEF CoreInv
<1>2. u \in WorldType
  BY Zenon DEF Handled
<1>3. "events" # "finish"
  BY Zenon
<1>4. /\ \A f \in Range(rest) : f.pc \in {"wait", "idle"} => f \in Range(stack)
      /\ \A f \in Range(stack) : f.pc = "events" => f \in Range(rest)
      /\ \A f \in Range(stack) : f.pc \in {"interest", "finish"} /\ f.fd # fd => f \in Range(rest)
  BY <1>3, Zenon
<1>5. CASE Finished(u.c)
  <2>1. CloseConnection(fd, u) /\ stack' = rest
    BY <1>5, Zenon DEF CloseOrUpdateInterest
  <2>2. fd \notin Open'
    BY <1>1, <1>2, <2>1, CloseFacts, Zenon
  <2>3. HandlerStep(fd, u)
    BY <2>1, Zenon DEF HandlerStep, Touch, accepting
  <2>4. stopping_' = stopping_ /\ batch' = batch
    BY Zenon DEF accepting
  <2> QED
    BY <1>4, <2>1, <2>2, <2>3, <2>4, HandlerLeads, Zenon
<1>6. CASE ~Finished(u.c)
  <2> DEFINE v == Modify(u, WantedInterest(u))
             r == Frame("read", fd)
             i == Frame("interest", fd)
             t == <<r, i>> \o rest
  <2>1. Put(fd, v) /\ stack' \in {t, rest}
    BY <1>6, Zenon DEF CloseOrUpdateInterest
  <2>2. /\ stack' \in Seq(FrameType) /\ Shape(stack', Open', Closing')
        /\ \A f \in Range(stack') : f.pc \in {"wait", "idle"} => f \in Range(rest)
        /\ \A f \in Range(rest) : f \in Range(stack')
    <3>1. CASE stack' = rest
      BY <3>1, Zenon
    <3>2. CASE stack' = t
      <4>1. v \in WorldType
        BY <1>2, ModifyFacts, Zenon
      <4> HIDE DEF v
      <4>2. Open' = Open
        BY <1>1, <2>1, <4>1, PutFacts, Zenon
      <4>3. fd \in Fds /\ fd \in Open'
        BY <4>2, Zenon DEF Open
      <4>4. /\ t \in Seq(FrameType) /\ Shape(t, Open', Closing') /\ Range(t) = {r, i} \cup Range(rest)
            /\ r.pc \notin {"wait", "idle"} /\ i.pc \notin {"wait", "idle"}
        BY <4>3, PushInterest, Zenon
      <4> HIDE DEF t, r, i
      <4> QED
        BY <3>2, <4>4, Zenon
    <3> QED
      BY <2>1, <3>1, <3>2, Zenon
  <2> HIDE DEF t
  <2>3. /\ \A f \in Range(stack') : f.pc \in {"wait", "idle"} => f \in Range(stack)
        /\ \A f \in Range(stack) : f.pc = "events" => f \in Range(stack')
        /\ \A f \in Range(stack) : f.pc \in {"interest", "finish"} /\ f.fd # fd => f \in Range(stack')
    BY <1>4, <2>2, Zenon
  <2>4. u.c.output # <<>> /\ u.s.unread < SendRoom =>
            /\ u = World(fd)
            /\ \A f \in Range(stack) : f.pc = "finish" /\ f.fd = fd /\ "write" \in f.ready => f \in Range(stack')
    BY <2>2, Zenon
  <2> QED
    BY <2>1, <2>2, <2>3, <2>4, ModifyLeads, Zenon
<1> QED
  BY <1>5, <1>6, Zenon

\* The end of handle_connection_event: writing, then closing or the interest.
LEMMA FinishEventLeads ==
  ASSUME CoreInv, WriteInv, FinishEvent, config_' = config_
  PROVE  Leads
<1> DEFINE fd == Head(stack).fd
           w == World(fd)
           writes == "write" \in Head(stack).ready /\ w.c.output # <<>>
           u == IF writes THEN WriteConnection(w) ELSE w
<1>1. Head(stack).pc = "finish" /\ UNCHANGED <<accepting, batch, config_>>
  BY Zenon DEF FinishEvent, At
<1>2. \/ connections_[fd] = NoConnection /\ stack' = Rest /\ UNCHANGED <<conns, pool>>
      \/ Throw /\ UNCHANGED <<conns, pool>>
      \/ connections_[fd] # NoConnection /\ CloseOrUpdateInterest(fd, u, Tail(stack))
  BY Zenon DEF FinishEvent, Rest
<1>3. TypeInv /\ StrandInv /\ Shape(stack, Open, Closing)
  BY Zenon DEF CoreInv, StackInv
<1>4. /\ stack \in Seq(FrameType) /\ Tail(stack) \in Seq(FrameType) /\ Head(stack) \in FrameType
      /\ Range(stack) = {Head(stack)} \cup Range(Tail(stack))
  BY TopFacts, Zenon
<1>5. fd \in Fds
  BY <1>1, <1>4, FrameFields, Zenon
<1>6. /\ Head(stack).pc \notin Working /\ Head(stack).pc \notin Bottom /\ Head(stack).pc \notin {"read", "parse"}
      /\ Head(stack).pc \notin Bottom \cup {"events"}
  BY <1>1, Zenon DEF Working, Bottom
<1>7. CASE connections_[fd] = NoConnection /\ stack' = Rest /\ UNCHANGED <<conns, pool>>
  <2>1. Quiet /\ UNCHANGED <<batch, stopping_>>
    BY <1>1, <1>7, Zenon DEF Quiet, accepting
  <2>2. fd \notin Open
    BY <1>7, Zenon DEF Open
  <2> QED
    BY <1>6, <1>7, <2>1, <2>2, PopLeads, Zenon
<1>8. CASE Throw /\ UNCHANGED <<conns, pool>>
  <2>1. Quiet /\ UNCHANGED <<batch, stopping_>>
    BY <1>1, <1>8, Zenon DEF Quiet, accepting
  <2> QED
    BY <1>8, <2>1, ThrowLeads, Zenon
<1>9. CASE connections_[fd] # NoConnection /\ CloseOrUpdateInterest(fd, u, Tail(stack))
  <2>1. fd \in Open
    BY <1>5, <1>9, Zenon DEF Open
  <2>2. Found(w) /\ w \in WorldType /\ w.c = connections_[fd] /\ w.e = edges[fd]
    BY <1>3, <2>1, FoundFacts, WorldFacts, Zenon
  <2> HIDE DEF w
  <2>3. /\ Handled(w, u) /\ u.c.interest = w.c.interest /\ u.e = w.e
        /\ u = w \/ (u.c.output # <<>> => u.s.unread = SendRoom)
        /\ u.c.output # <<>> /\ u = w => "write" \notin Head(stack).ready \/ (u.c.output # <<>> => u.s.unread = SendRoom)
    <3>1. CASE writes
      <4>1. Handled(w, WriteConnection(w))
        BY <1>3, <2>2, HandledWrite, Zenon
      <4>2. /\ WriteConnection(w).c.interest = w.c.interest /\ WriteConnection(w).e = w.e
            /\ WriteConnection(w).c.output # <<>> => WriteConnection(w).s.unread = SendRoom
        BY <1>3, <2>2, WriteFacts, Zenon
      <4> QED
        BY <3>1, <4>1, <4>2, Zenon
    <3>2. CASE ~writes
      <4>1. Handled(w, w)
        BY <1>3, <2>2, HandledSelf, Zenon
      <4> QED
        BY <3>2, <4>1, Zenon
    <3> QED
      BY <3>1, <3>2, Zenon
  <2> HIDE DEF u
  <2>4. SendRoom \in Nat
    BY <1>3, Constants, Zenon
  <2>5. (u.c.output # <<>> => u.s.unread = SendRoom) => ~(u.c.output # <<>> /\ u.s.unread < SendRoom)
    BY <2>4
  <2>6. u.c.output # <<>> /\ u.s.unread < SendRoom =>
            /\ u = w
            /\ \A f \in Range(stack) : f.pc = "finish" /\ f.fd = fd /\ "write" \in f.ready => f \in Range(Tail(stack))
    BY <1>4, <2>3, <2>5, Zenon
  <2>7. Shape(Tail(stack), Open', Closing')
    BY <1>3, <1>4, <1>6, Pop, Zenon
  <2>8. Head(Tail(stack)).pc \notin Working
    <3>1. /\ \A i \in DOMAIN stack : stack[i].pc \notin Working
          /\ DOMAIN stack = 1 .. Len(stack) /\ Len(stack) \in Nat \ {0}
      BY <1>3, <1>4, <1>6, QuietTop, Zenon
    <3>2. Tail(stack) # <<>>
      BY <2>7, Zenon DEF Shape
    <3>3. Len(stack) >= 2 /\ Head(Tail(stack)) = stack[2]
      BY <1>4, <3>1, <3>2
    <3>4. 2 \in DOMAIN stack
      BY <3>1, <3>3
    <3> QED
      BY <3>1, <3>3, <3>4, Zenon
  <2>9. /\ \A f \in Range(Tail(stack)) : f \in Range(stack)
        /\ \A f \in Range(stack) : (f.pc = "finish" /\ f.fd = fd) \/ f \in Range(Tail(stack))
    BY <1>1, <1>4, Zenon
  <2>10. /\ Handled(World(fd), u) /\ u.c.interest = connections_[fd].interest /\ u.e = edges[fd]
         /\ u.c.output # <<>> /\ u.s.unread < SendRoom => u = World(fd)
    BY <2>2, <2>3, <2>6, Zenon DEF w
  <2> HIDE DEF fd
  <2> QED
    BY <1>1, <1>4, <1>9, <2>1, <2>6, <2>7, <2>8, <2>9, <2>10, CloseOrUpdateLeads, Zenon
<1> QED
  BY <1>2, <1>7, <1>8, <1>9, Zenon

\* apply_completion.
LEMMA ApplyCompletionLeads ==
  ASSUME CoreInv, WriteInv, ApplyCompletion, config_' = config_
  PROVE  Leads
<1> DEFINE done == Head(completions_)
<1>1. Head(stack).pc = "drain" /\ completions_ # <<>> /\ UNCHANGED <<accepting, batch, config_>>
  BY Zenon DEF ApplyCompletion, At
<1>2. TypeInv /\ StrandInv /\ IdInv /\ Shape(stack, Open, Closing)
  BY Zenon DEF CoreInv, StackInv
<1>3. stack \in Seq(FrameType) /\ completions_ \in Seq(Job)
  BY <1>2, Zenon DEF TypeInv, CoreType
<1>4. \/ Owner(done) = {} /\ completions_' = Tail(completions_) /\ UNCHANGED <<conns, jobs, running, ran, stack>>
      \/ Throw /\ UNCHANGED <<conns, pool>>
      \/ \E fd \in Owner(done) :
            CloseOrUpdateInterest(fd, LaunchStrand(WriteConnection(Completed(World(fd), done.seq))), stack)
  BY Zenon DEF ApplyCompletion
<1>5. CASE Owner(done) = {} /\ completions_' = Tail(completions_) /\ UNCHANGED <<conns, jobs, running, ran, stack>>
  <2>1. WorkerStep /\ stack' = stack /\ batch' = batch /\ stopping_' = stopping_
    BY <1>1, <1>5, Zenon DEF WorkerStep, accepting
  <2> QED
    BY <2>1, WorkerLeads, Zenon
<1>6. CASE Throw /\ UNCHANGED <<conns, pool>>
  <2>1. Quiet /\ UNCHANGED <<batch, stopping_>>
    BY <1>1, <1>6, Zenon DEF Quiet, accepting
  <2> QED
    BY <1>6, <2>1, ThrowLeads, Zenon
<1>7. ASSUME NEW fd \in Owner(done),
             CloseOrUpdateInterest(fd, LaunchStrand(WriteConnection(Completed(World(fd), done.seq))), stack)
      PROVE  Leads
  <2> DEFINE w == World(fd)
             u == LaunchStrand(WriteConnection(Completed(w, Head(w.completions).seq)))
  <2>1. fd \in Open /\ connections_[fd].id = done.id
    BY Zenon DEF Owner
  <2>2. done \in Jobs
    <3>1. done \in Range(completions_)
      BY <1>1, <1>3, TailFacts, Zenon
    <3> QED
      BY <3>1, Zenon DEF Jobs, JobsIn
  <2>3. connections_[fd].client = done.client
    BY <1>2, <2>1, <2>2, Zenon DEF IdInv
  <2>4. Found(w) /\ w \in WorldType /\ w.c = connections_[fd] /\ w.e = edges[fd] /\ w.completions = completions_
    BY <1>2, <2>1, FoundFacts, WorldFacts, Zenon
  <2>5. w.completions # <<>> /\ Head(w.completions).client = w.c.client
    BY <1>1, <2>3, <2>4, Zenon
  <2>6. CloseOrUpdateInterest(fd, u, stack)
    BY <1>7, <2>4, Zenon
  <2> HIDE DEF w
  <2>7. /\ Handled(w, u) /\ u.c.interest = w.c.interest /\ u.e = w.e
        /\ u.c.output # <<>> => u.s.unread = SendRoom
    BY <1>2, <2>4, <2>5, HandledCompletion, Zenon
  <2> HIDE DEF u
  <2>8. SendRoom \in Nat
    BY <1>2, Constants, Zenon
  <2>9. ~(u.c.output # <<>> /\ u.s.unread < SendRoom)
    BY <2>7, <2>8
  <2>10. Head(stack).pc \notin Working
    BY <1>1, Zenon DEF Working
  <2>11. Shape(stack, Open', Closing')
    BY <1>2, <1>3, <2>10, Change, Zenon
  <2>12. Handled(World(fd), u) /\ u.c.interest = connections_[fd].interest /\ u.e = edges[fd]
    BY <2>4, <2>7, Zenon DEF w
  <2> QED
    BY <1>1, <1>3, <2>1, <2>6, <2>9, <2>10, <2>11, <2>12, CloseOrUpdateLeads, Zenon
<1> QED
  BY <1>4, <1>5, <1>6, <1>7, Zenon

\* An error event closes the connection.
LEMMA HandleErrorEventLeads ==
  ASSUME CoreInv, WriteInv, NEW fd \in Fds, HandleErrorEvent(fd), config_' = config_
  PROVE  Leads
<1> DEFINE w == World(fd)
<1>1. /\ Head(stack).pc = "events" /\ fd \in Open /\ batch' = [batch EXCEPT ![fd] = {}]
      /\ CloseConnection(fd, w) /\ UNCHANGED <<accepting, stack, config_>>
  BY Zenon DEF HandleErrorEvent, At
<1>2. TypeInv /\ StrandInv /\ IdInv /\ Shape(stack, Open, Closing)
  BY Zenon DEF CoreInv, StackInv
<1>3. Found(w) /\ w \in WorldType
  BY <1>1, <1>2, FoundFacts, WorldFacts, Zenon
<1>4. Handled(w, w)
  BY <1>2, <1>3, HandledSelf, Zenon
<1>5. HandlerStep(fd, w)
  BY <1>1, <1>4, Zenon DEF HandlerStep, Touch, accepting
<1>6. fd \notin Open'
  BY <1>1, <1>2, <1>3, CloseFacts, Zenon
<1>7. /\ Open' \subseteq Open
      /\ \A g \in Open' : g # fd => connections_'[g] = connections_[g]
      /\ \A m \in Clients \ {connections_[fd].client} : sock'[m] = sock[m]
      /\ \A g \in Fds \cup {Listener} : g # fd => edges'[g] = edges[g]
  BY <1>1, <1>2, <1>5, TouchOthers, Zenon
<1>8. batch \in [Fds \cup {Listener} -> SUBSET Interests] /\ stopping_ \in BOOLEAN /\ stack \in Seq(FrameType)
  BY <1>2, Zenon DEF TypeInv
<1>9. batch' \in [Fds \cup {Listener} -> SUBSET Interests] /\ \A g \in Fds : g # fd => batch'[g] = batch[g]
  BY <1>1, <1>8, Zenon
<1>10. Head(stack).pc \notin Working
  BY <1>1, Zenon DEF Working
<1>11. Shape(stack, Open', Closing')
  BY <1>2, <1>8, <1>10, Change, Zenon
<1>12. ASSUME NEW g \in Open', WriteOf(g) PROVE WriteOf(g)'
  <2>1. g \in Open /\ g # fd /\ connections_'[g] = connections_[g]
    BY <1>6, <1>7, Zenon
  <2>2. connections_[g].client \in Clients /\ g \in Fds
    BY <1>2, <2>1, OpenFacts, Zenon
  <2>3. connections_[g].client # connections_[fd].client
    BY <1>1, <1>2, <2>1, Zenon DEF IdInv
  <2>4. sock'[connections_[g].client] = sock[connections_[g].client] /\ edges'[g] = edges[g] /\ batch'[g] = batch[g]
    BY <1>7, <1>9, <2>1, <2>2, <2>3, Zenon
  <2>5. stack' = stack
    BY <1>1, Zenon
  <2>6. WriteEvent(g) => WriteEvent(g)'
    BY <2>4, <2>5, Zenon DEF WriteEvent
  <2> QED
    BY <1>12, <2>1, <2>4, <2>5, <2>6, Zenon DEF WriteOf
<1>13. \E f \in Range(stack) : f.pc = "events"
  BY <1>1, TopFacts, Zenon
<1>14. WriteInv'
  BY <1>1, <1>7, <1>12, <1>13, Zenon DEF WriteInv
<1>15. Kind
  BY <1>1, <1>3, <1>5, Zenon DEF Kind
<1> QED
  BY <1>1, <1>8, <1>9, <1>11, <1>14, <1>15, Zenon DEF Leads, accepting

-----------------------------------------------------------------------------
(* The inductive invariant, and what follows from it.                      *)

\* A step that leads somewhere keeps the invariant.
LEMMA LeadsKeeps ==
  ASSUME CoreInv, Leads
  PROVE  CoreInv' /\ WriteInv'
<1>1. CoreType' /\ IdInv' /\ StrandInv'
  BY KindKeeps, Zenon DEF CoreInv, Leads
<1>2. TypeInv'
  BY <1>1, Zenon DEF TypeInv, Leads
<1>3. StackInv'
  BY Zenon DEF StackInv, Leads
<1> QED
  BY <1>1, <1>2, <1>3, Zenon DEF CoreInv, Leads

\* The server starts as it should be.
LEMMA InitInv ==
  ASSUME Init
  PROVE  CoreInv /\ WriteInv
<1>1. TypeInv /\ IdInv /\ StrandInv
  BY InitCore, Zenon
<1>2. /\ stack = <<Frame("wait", Listener)>> /\ connections_ = [fd \in Fds |-> NoConnection]
      /\ batch = [fd \in Fds \cup {Listener} |-> {}]
  BY Zenon DEF Init
<1>3. "wait" \in Bottom
  BY Zenon DEF Bottom
<1>4. StackInv
  BY <1>2, <1>3, SingleShape, Zenon DEF StackInv
<1>5. Open = {}
  BY <1>2, Zenon DEF Open
<1>6. WriteInv
  BY <1>2, <1>5, Zenon DEF WriteInv
<1> QED
  BY <1>1, <1>4, <1>6, Zenon DEF CoreInv

\* A step of the I/O thread keeps the invariant.
LEMMA IOThreadLeads ==
  ASSUME CoreInv, WriteInv, IOThread, config_' = config_
  PROVE  Leads
<1>1. CASE Wait \/ EndOfRun \/ AcceptEvent \/ EventsDone
  BY <1>1, WaitLeads, EndOfRunLeads, AcceptEventLeads, EventsDoneLeads, Zenon
<1>2. CASE AcceptReady \/ AcceptDone \/ AcceptThrows \/ ReadConnection \/ QueueParsedCommands
  BY <1>2, AcceptReadyLeads, AcceptDoneLeads, AcceptThrowsLeads, ReadConnectionLeads, QueueParsedCommandsLeads, Zenon
<1>3. CASE UpdateInterestAgain \/ FinishEvent \/ ApplyCompletion \/ DrainDone \/ CloseIdleConnections
  BY <1>3, UpdateInterestAgainLeads, FinishEventLeads, ApplyCompletionLeads, DrainDoneLeads,
     CloseIdleConnectionsLeads, Zenon
<1>4. CASE \E fd \in Fds : HandleConnectionEvent(fd) \/ HandleErrorEvent(fd)
  BY <1>4, HandleConnectionEventLeads, HandleErrorEventLeads, Zenon
<1> QED
  BY <1>1, <1>2, <1>3, <1>4, Zenon DEF IOThread

\* A step of anybody leads to a state that is as it should be.
LEMMA NextLeads ==
  ASSUME CoreInv, WriteInv, [Next]_<<vars, config_>>
  PROVE  Leads
<1>1. CASE UNCHANGED <<vars, config_>>
  <2>1. Quiet /\ stack' = stack /\ batch' = batch /\ stopping_' = stopping_
    BY <1>1, Zenon DEF Quiet, vars, conns, pool
  <2>2. Kind /\ connections_' = connections_ /\ edges' = edges
    BY <2>1, QuietFacts, Zenon DEF CoreInv
  <2>3. ASSUME NEW g \in Open, WriteOf(g) PROVE WriteOf(g)'
    <3>1. (Visits(stack, g) => Visits(stack', g)) /\ (WriteEvent(g) => WriteEvent(g)')
      BY <2>1, <2>2, Zenon DEF WriteEvent
    <3> QED
      BY <2>1, <2>3, <3>1, QuietWrite, Zenon DEF CoreInv
  <2> QED
    BY <2>1, <2>2, <2>3, StillLeads, Zenon
<1>2. CASE Next
  <2>1. config_' = config_
    BY <1>2, Zenon DEF Next
  <2>2. CASE IOThread
    BY <2>1, <2>2, IOThreadLeads, Zenon
  <2>3. CASE Stop
    BY <2>1, <2>3, StopLeads, Zenon
  <2>4. CASE TakeJob \/ \E job \in running : RunJob(job)
    <3>1. WorkerStep /\ stack' = stack /\ batch' = batch /\ stopping_' = stopping_
      BY <2>1, <2>4, Zenon DEF WorkerStep, TakeJob, RunJob, accepting
    <3> QED
      BY <3>1, WorkerLeads, Zenon
  <2>5. CASE \E n \in Clients : Client(n)
    BY <2>1, <2>5, ClientLeads, Zenon
  <2> QED
    BY <1>2, <2>2, <2>3, <2>4, <2>5, Zenon DEF Next
<1> QED
  BY <1>1, <1>2, Zenon

\* The connections, the stack, the ids, the strands and the write events of
\* the server are always as the invariants say.
THEOREM ServerKeepsItsInvariant == Spec => [](CoreInv /\ WriteInv)
<1>1. Init => CoreInv /\ WriteInv
  BY InitInv, Zenon
<1>2. CoreInv /\ WriteInv /\ [Next]_<<vars, config_>> => (CoreInv /\ WriteInv)'
  BY NextLeads, LeadsKeeps, Zenon
<1> QED
  BY <1>1, <1>2, PTL DEF Spec

\* The commands of a connection run one at a time and in the order they were
\* sent, for any number of clients, workers and descriptors: launch_strand.
THEOREM CommandsRunInOrder == Spec => []CommandsRunInWireOrder
<1>1. CoreInv /\ WriteInv => CommandsRunInWireOrder
  BY Zenon DEF CoreInv, StrandInv, Orderly, CommandsRunInWireOrder
<1> QED
  BY <1>1, ServerKeepsItsInvariant, PTL

\* When the I/O thread goes to wait, a reply that is not sent yet has a write
\* event that is pending or will be raised: update_interest, although events
\* are edge-triggered and handlers run inside each other.
THEOREM OutputIsNeverStranded == Spec => []NoStrandedOutput
<1>1. ASSUME CoreInv, WriteInv PROVE NoStrandedOutput
  <2> SUFFICES ASSUME At("wait"), NEW fd \in Open, connections_[fd].output # <<>>
               PROVE  /\ "write" \in connections_[fd].interest
                      /\ sock[connections_[fd].client].unread < SendRoom => "write" \in edges[fd]
    BY Zenon DEF NoStrandedOutput
  <2>1. Head(stack).pc \in {"wait", "idle"}
    BY Zenon DEF At
  <2>2. WriteOf(fd) /\ ~Visits(stack, fd) /\ (WriteEvent(fd) => "write" \in edges[fd])
    BY <1>1, <2>1, TurnFacts, Zenon
  <2> QED
    BY <2>2, Zenon DEF WriteOf
<1> QED
  BY <1>1, ServerKeepsItsInvariant, PTL

\* A client has one job at a time.
LEMMA OneJob ==
  ASSUME StrandInv, NEW a \in Jobs, NEW b \in Jobs, a.client = b.client
  PROVE  a = b
<1>1. /\ \A i, j \in DOMAIN jobs : jobs[i].client = jobs[j].client => i = j
      /\ \A i, j \in DOMAIN completions_ : completions_[i].client = completions_[j].client => i = j
      /\ \A x, y \in running : x.client = y.client => x = y
      /\ \A x \in Range(jobs) : \A y \in running : x.client # y.client
      /\ \A x \in Range(jobs) \cup running : \A y \in Range(completions_) : x.client # y.client
  BY Zenon DEF StrandInv, Orderly
<1>2. \A x, y \in Range(jobs) : x.client = y.client => x = y
  BY <1>1, Zenon DEF Range
<1>3. \A x, y \in Range(completions_) : x.client = y.client => x = y
  BY <1>1, Zenon DEF Range
<1>4. /\ a \in Range(jobs) \/ a \in running \/ a \in Range(completions_)
      /\ b \in Range(jobs) \/ b \in running \/ b \in Range(completions_)
  BY Zenon DEF Jobs, JobsIn
<1> QED
  BY <1>1, <1>2, <1>3, <1>4, Zenon

\* inflight is the number of commands that are queued or whose completion is
\* still to come: enqueue_command, launch_strand and apply_completion.
THEOREM InflightCountsCommands == Spec => []InflightIsExact
<1>1. ASSUME CoreInv PROVE InflightIsExact
  <2> SUFFICES ASSUME NEW fd \in Open
               PROVE  LET c == connections_[fd]
                      IN  /\ c.inflight = Len(c.command_queue) + Cardinality(JobsOf(c))
                          /\ c.strand_running <=> Cardinality(JobsOf(c)) = 1
    BY Zenon DEF InflightIsExact
  <2> DEFINE c == connections_[fd]
  <2>1. TypeInv /\ IdInv /\ StrandInv
    BY <1>1, Zenon DEF CoreInv
  <2>2. JobsOf(c) = {job \in Jobs : job.client = c.client}
    <3>1. \A job \in Jobs : job.id = c.id <=> job.client = c.client
      BY <2>1, Zenon DEF IdInv
    <3> QED
      BY <3>1, Zenon DEF JobsOf, Jobs, JobsIn
  <2>3. StrandOf(c, Jobs, ran)
    BY <2>1, Zenon DEF StrandInv
  <2> HIDE DEF c
  <2>4. CASE c.strand_running
    <3>1. c.inflight = Len(c.command_queue) + 1
      BY <2>3, <2>4, Zenon DEF StrandOf
    <3>2. PICK job \in Jobs : job.client = c.client
      BY <2>3, <2>4, Zenon DEF StrandOf
    <3>3. JobsOf(c) = {job}
      BY <2>1, <2>2, <3>2, OneJob, Zenon
    <3>4. Cardinality(JobsOf(c)) = 1
      BY <3>3, SmallSets, Zenon
    <3> QED
      BY <2>4, <3>1, <3>4, Zenon DEF c
  <2>5. CASE ~c.strand_running
    <3>1. c.inflight = 0 /\ c.command_queue = <<>> /\ \A job \in Jobs : job.client # c.client
      BY <2>3, <2>5, Zenon DEF StrandOf
    <3>2. JobsOf(c) = {}
      BY <2>2, <3>1, Zenon
    <3>3. Cardinality(JobsOf(c)) = 0
      BY <3>2, SmallSets, Zenon
    <3>4. Len(c.command_queue) = 0
      BY <3>1, Zenon
    <3>5. c.inflight = Len(c.command_queue) + Cardinality(JobsOf(c)) /\ Cardinality(JobsOf(c)) # 1
      BY <3>1, <3>3, <3>4, SMTT(30)
    <3> QED
      BY <2>5, <3>5, Zenon DEF c
  <2> QED
    BY <2>4, <2>5, Zenon
<1>2. CoreInv /\ WriteInv => InflightIsExact
  BY <1>1, Zenon
<1> QED
  BY <1>2, ServerKeepsItsInvariant, PTL

=============================================================================
