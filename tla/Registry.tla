------------------------------ MODULE Registry ------------------------------
(***************************************************************************)
(* commands::Registry: what a request is, which command it names, and what *)
(* the command answers and changes, as functions of the store's contents   *)
(* and of the clock.                                                       *)
(*                                                                         *)
(* Abstractions.  A command's name and a fixed reply text are one byte.    *)
(* The store is a function from its keys to [value, at]: a value of        *)
(* store::Value and the wall-clock deadline or nullopt.  An expired entry  *)
(* stays until something replaces it and nobody sees it.  Both clocks      *)
(* advance together, the wall clock WallOffset ahead.                      *)
(***************************************************************************)
EXTENDS Resp, Functions

CONSTANTS
  Sec,                 \* clock ticks per second
  SteadyMax,           \* steady_clock::time_point::max()
  WallOffset

ASSUME RegistryAssumption == Sec \in Nat \ {0} /\ {SteadyMax, WallOffset} \subseteq Nat

wall(t) == t + WallOffset

OK == Simple(<<79>>)
PONG == Simple(<<80>>)
ProtocolError == Error(<<112>>)
UnknownCommand == Error(<<117>>)
WrongArity == Error(<<97>>)
InvalidInteger == Error(<<105>>)
WrongType == Error(<<119>>)
UnsupportedPattern == Error(<<107>>)
InfoText == <<73>> \o CRLF
Unlimited == Int64Max

\* The table: access and arity of the commands, and their names' bytes.
commands_ ==
  [ping |-> [name |-> <<80>>, least |-> 1, most |-> 2, write |-> FALSE],
   echo |-> [name |-> <<69>>, least |-> 2, most |-> 2, write |-> FALSE],
   set |-> [name |-> <<83>>, least |-> 3, most |-> 3, write |-> TRUE],
   get |-> [name |-> <<71>>, least |-> 2, most |-> 2, write |-> FALSE],
   del |-> [name |-> <<68>>, least |-> 2, most |-> Unlimited, write |-> TRUE],
   exists |-> [name |-> <<88>>, least |-> 2, most |-> Unlimited, write |-> FALSE],
   expire |-> [name |-> <<82>>, least |-> 3, most |-> 3, write |-> TRUE],
   ttl |-> [name |-> <<84>>, least |-> 2, most |-> 2, write |-> FALSE],
   keys |-> [name |-> <<75>>, least |-> 2, most |-> 2, write |-> FALSE],
   info |-> [name |-> <<73>>, least |-> 1, most |-> 2, write |-> FALSE]]

normalize(name) == [i \in DOMAIN name |-> IF name[i] \in 97 .. 122 THEN name[i] - 32 ELSE name[i]]

\* is_command_request and extract_arguments: a non-empty array of bulk strings.
is_command_request(v) ==
  /\ Holds(v, "array") /\ v.array # nullopt /\ v.array # <<>>
  /\ \A i \in DOMAIN v.array : Holds(v.array[i], "bulk") /\ v.array[i].bulk # nullopt
extract_arguments(v) == [i \in DOMAIN v.array |-> v.array[i].bulk]

\* How execute() ends without a handler: an error; or the command to handle.
Lookup(args) ==
  LET found == {c \in DOMAIN commands_ : commands_[c].name = normalize(args[1])}
      c == CHOOSE f \in found : TRUE
  IN  IF found = {} THEN [refusal |-> UnknownCommand]
      ELSE IF Len(args) < commands_[c].least \/ Len(args) > commands_[c].most
      THEN [refusal |-> WrongArity]
      ELSE [handler |-> c]

-----------------------------------------------------------------------------
(* The store as the handlers see it at time t.                             *)

Live(map, t) == {k \in DOMAIN map : map[k].at = nullopt \/ map[k].at > wall(t)}
Set(map, k, e) == [x \in DOMAIN map \cup {k} |-> IF x = k THEN e ELSE map[x]]
Without(map, ks) == Restrict(map, DOMAIN map \ ks)
Lexicographic(a, b) ==
  \E i \in 1 .. Len(b) :
    /\ IsPrefix(SubSeq(b, 1, i - 1), a)
    /\ Len(a) = i - 1 \/ (Len(a) >= i /\ a[i] < b[i])

parse_int64(text) == parse_integer(text)

RepresentableFrom(seconds, now) == seconds <= 0 \/ seconds <= (SteadyMax - now) \div Sec

\* Fault: the room is taken to be that of a clock at zero.
RepresentableFromZero(seconds, now) == RepresentableFrom(seconds, 0)

expiration_is_representable(seconds, now) == RepresentableFrom(seconds, now)

\* The deadline that durable_expire and Store::expire ask for.
Deadline(seconds, now) == wall(now) + (IF seconds > 0 THEN seconds * Sec ELSE 0)

\* Store::expire_at: what it answers and what it leaves.
ExpireAt(map, k, at, t) ==
  IF k \notin Live(map, t) THEN [reply |-> Integer(0), map |-> map]
  ELSE [reply |-> Integer(1),
        map |-> IF at <= wall(t) THEN Without(map, {k}) ELSE [map EXCEPT ![k].at = at]]

ping(args) == IF Len(args) = 1 THEN PONG ELSE Bulk(args[2])

\* Fault: the argument is sent as a line.
EchoLine(args) == Simple(args[2])

echo(args) == Bulk(args[2])

get(map, k, t) ==
  IF k \notin Live(map, t) THEN Bulk(nullopt)
  ELSE IF DOMAIN map[k].value = {"string"} THEN Bulk(map[k].value.string) ELSE WrongType

exists(args, map, t) == Integer(Cardinality({i \in 2 .. Len(args) : args[i] \in Live(map, t)}))

ttl(map, k, t) ==
  IF k \notin Live(map, t) THEN -2
  ELSE IF map[k].at = nullopt THEN -1 ELSE (map[k].at - wall(t)) \div Sec

keys(map, pattern, t) ==
  IF pattern # <<Star>> THEN UnsupportedPattern
  ELSE LET found == SetToSortSeq(Live(map, t), Lexicographic)
       IN  Array([i \in DOMAIN found |-> Bulk(found[i])])

info == Bulk(InfoText)

set(args, map) ==
  [reply |-> OK, map |-> Set(map, args[2], [value |-> [string |-> args[3]], at |-> nullopt])]

del(args, map, t) ==
  [reply |-> Integer(Cardinality(Range(Tail(args)) \cap Live(map, t))),
   map |-> Without(map, Range(Tail(args)))]

\* The handlers of the commands that only read.
ReadOnly(c, args, map, t) ==
  CASE c = "ping" -> ping(args)
    [] c = "echo" -> echo(args)
    [] c = "get" -> get(map, args[2], t)
    [] c = "exists" -> exists(args, map, t)
    [] c = "ttl" -> Integer(ttl(map, args[2], t))
    [] c = "keys" -> keys(map, args[2], t)
    [] c = "info" -> info

\* The handlers that write, once the mutation is logged: EXPIRE at a deadline.
Write(c, args, map, at, t) ==
  CASE c = "set" -> set(args, map)
    [] c = "del" -> del(args, map, t)
    [] c = "expire" -> ExpireAt(map, args[2], at, t)

=============================================================================
