--------------------------- MODULE AbstractStore ---------------------------
(***************************************************************************)
(* What the Store promises to concurrent callers: one map from keys to     *)
(* values with deadlines, on which every command takes effect atomically   *)
(* at some moment between its call and its return.  The clock a command    *)
(* goes by is that of some moment in between, too.  An entry may disappear *)
(* by itself only once its deadline has passed.                            *)
(***************************************************************************)
EXTENDS Integers, FiniteSets

CONSTANTS Threads, Keys, Requests, Absent, NoResult, Never, Sec, MaxTime

VARIABLES now, map, pending
absVars == <<now, map, pending>>

Idle == [state |-> "idle"]

Alive(e, t) == e # Absent /\ e.exp > t
Only(ks) == CHOOSE k \in ks : TRUE

\* The map without the keys of ks.
Without(m, ks) == [k \in Keys |-> IF k \in ks THEN Absent ELSE m[k]]
Due(m, t) == {k \in Keys : m[k] # Absent /\ m[k].exp <= t}

\* What a command answers when it sees map m at time t.
Answer(r, m, t) ==
  LET e == m[Only(r.keys)] IN
  CASE r.op = "get" -> IF Alive(e, t) THEN e.val ELSE Absent
    [] r.op = "deadline" -> IF Alive(e, t) THEN e.exp ELSE Absent
    [] r.op = "ttl" -> IF ~Alive(e, t) THEN -2 ELSE IF e.exp = Never THEN -1
                       ELSE (e.exp - t) \div Sec
    [] r.op \in {"exists", "del"} -> Cardinality({k \in r.keys : Alive(m[k], t)})
    [] r.op \in {"contains", "expire"} -> Alive(e, t)
    [] r.op = "set" -> TRUE

\* The map it leaves, if the deadline it asks for counts from time start.
After(r, m, start, t) ==
  CASE r.op = "set" -> [m EXCEPT ![Only(r.keys)] = [val |-> r.val, exp |-> Never]]
    [] r.op = "del" -> Without(m, r.keys)
    [] r.op = "expire" /\ Alive(m[Only(r.keys)], t) ->
         IF start + r.ttl > t THEN [m EXCEPT ![Only(r.keys)].exp = start + r.ttl]
                              ELSE Without(m, r.keys)
    [] OTHER -> m

AbsInit ==
  /\ now = 0
  /\ map \in [Keys -> [val : Nat, exp : 1 .. Never] \cup {Absent}]
  /\ pending = [p \in Threads |-> Idle]

Call(p, r) ==
  /\ pending[p] = Idle
  /\ pending' = [pending EXCEPT ![p] = [state |-> "called", req |-> r, since |-> now]]
  /\ UNCHANGED <<now, map>>

Effect(p) ==
  /\ pending[p].state = "called"
  /\ \E t \in pending[p].since .. now, gone \in SUBSET Due(map, now) :
       LET r == pending[p].req IN
       /\ r.op \in {"set", "expire"} => t = now
       /\ pending' = [pending EXCEPT ![p] = [state |-> "done", res |-> Answer(r, map, t)]]
       /\ \E start \in pending[p].since .. now :
            map' = After(r, Without(map, gone), start, t)
  /\ UNCHANGED now

Return(p) ==
  /\ pending[p].state = "done"
  /\ pending' = [pending EXCEPT ![p] = Idle]
  /\ UNCHANGED <<now, map>>

Vanish ==
  /\ \E gone \in SUBSET Due(map, now) : map' = Without(map, gone)
  /\ UNCHANGED <<now, pending>>

AbsTick == now < MaxTime /\ now' = now + 1 /\ UNCHANGED <<map, pending>>

AbsNext ==
  \/ Vanish \/ AbsTick
  \/ \E p \in Threads : Return(p) \/ Effect(p) \/ (\E r \in Requests : Call(p, r))

AbsSpec == AbsInit /\ [][AbsNext]_absVars

=============================================================================
