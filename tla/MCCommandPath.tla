--------------------------- MODULE MCCommandPath ---------------------------
(* Scenarios of CommandPath for TLC.  Keys and values are a byte or a few.  *)
EXTENDS CommandPath, TLC

k == <<107>>
j == <<106>>
v == <<118>>
Digits(n) == Numeral(n)
Name(c) == commands_[c].name
LowerCase(c) == [i \in DOMAIN Name(c) |-> Name(c)[i] + 32]

Magic1 == <<78, 87>>
Magic2 == <<78, 83>>

Plain(value) == [value |-> value, at |-> nullopt]
String(s) == Plain([string |-> s])
NoKeys == <<>>
\* Values of every type, one with a deadline; a fifth key for longer replies.
Mixed ==
  (k :> String(v)) @@ (j :> [value |-> [int64 |-> -5], at |-> from_unix_ms(1)])
  @@ (<<108>> :> Plain([list |-> <<v, <<>>, v>>])) @@ (<<115>> :> Plain([set |-> {v, k}]))
Five == Mixed @@ (<<107, 107>> :> String(<<>>))
\* Keys whose names, as one reply, exceed the client's buffer.
Wide == [key \in {<<107, 107>>, <<107, 106>>, <<106, 107>>, <<106, 106>>} |-> String(<<>>)]

Bytes(script) == FlattenSeq([i \in DOMAIN script |-> encode(make_request(script[i]))])
Whole(script, contents, mode, time) ==
  [script |-> script, stream |-> Bytes(script), pieces |-> 1 .. 3, busy |-> FALSE,
   map |-> contents, mode |-> mode, time |-> time]

Writes ==
  {Whole(<<<<Name("set"), k, v>>, <<LowerCase("get"), k>>>>, NoKeys, mode, 0) :
     mode \in {"off", "none", "always"}}
  \cup {Whole(<<<<Name("del"), k, j, k>>, <<Name("exists"), k, k, <<108>>>>>>, Mixed, mode, 1) :
          mode \in {"off", "none"}}
  \cup {Whole(<<<<Name("set"), k, v>>, <<Name("del"), k>>, <<Name("set"), j, <<>>>>>>, NoKeys, "always", 0)}

\* EXPIRE around the deadline, and with arguments out of every range.
Expires ==
  LET Expire(s) == <<Name("expire"), k, s>>
      Of(script, mode, time) ==
        [Whole(script, k :> String(v), mode, time) EXCEPT !.pieces = {3}]
  IN  {Of(<<Expire(Digits(1))>>, "none", 4), Of(<<Expire(Digits(4))>>, "none", 3)}
      \cup {Of(<<Expire(s), <<Name("ttl"), k>>>>, "off", 5) :
              s \in {Digits(1), <<Plus>> \o Digits(1), Digits(0), Digits(5), Digits(-1),
                     Digits(Int64Max + 1)}}

\* Deadlines that a later EXPIRE replaces, of the log and of the initial contents, and one
\* that a SET removes before; a receive returns about a request.
Extends ==
  LET Expire(s) == <<Name("expire"), k, Digits(s)>>
      Of(script, at, time) ==
        [Whole(script, k :> [value |-> [string |-> v], at |-> at], "always", time)
         EXCEPT !.pieces = {Len(Bytes(<<Head(script)>>))}]
  IN  {Of(<<Expire(1), Expire(2)>>, nullopt, 4), Of(<<Expire(2)>>, from_unix_ms(1), 2),
       Of(<<<<Name("set"), k, v>>, Expire(2)>>, from_unix_ms(1), 2)}

Reads ==
  {Whole(<<c>>, contents, "off", 1) :
     c \in {<<Name("keys"), <<Star>>>>, <<Name("keys"), k>>, <<Name("get"), k>>, <<Name("get"), j>>,
            <<Name("ping")>>, <<Name("ping"), v>>, <<Name("echo"), CRLF>>, <<Name("info")>>,
            <<Name("echo")>>, <<<<90>>>>, <<Name("set"), k, v, v, v>>,
            <<Name("echo"), [i \in 1 .. max_bulk_size + 1 |-> 120]>>},
     contents \in {NoKeys, Five}}
  \cup {Whole(<<<<Name("keys"), <<Star>>>>>>, Wide, "off", 0)}

\* A request that fits the parser's buffer or not, depending on what comes with it, and
\* one that never does.
Long == [i \in 1 .. max_bulk_size |-> 120]
Pipelined ==
  {Whole(<<c, <<Name("get"), Long>>>>, NoKeys, "off", 0) :
     c \in {<<Name("set"), Long, Long>>, <<Name("del"), Long, Long, k>>}}

\* Several requests in one receive, with a pool whose queue may be full: the last pipeline
\* overflows the buffer when parsing pauses, in the one before the second request is no
\* array.
Busy ==
  LET Ping == <<Name("ping")>>
      one == Len(Bytes(<<Ping>>))
      Of(script, pieces) ==
        [Whole(script, NoKeys, "off", 0) EXCEPT !.busy = TRUE, !.pieces = pieces]
  IN  {Of(<<Ping, Ping, Ping>>, {one, 2 * one, 3 * one}),
       Of(<<Ping, <<Name("del"), k>>>>, {one + 3, 3 * one}),
       Of(<<<<Name("set"), k, v>>, <<Name("get"), k>>, Ping>>, {3 * one}),
       [Of(<<Ping, Ping>>, {one, 2 * one}) EXCEPT !.stream[one + 1] = LF],
       Of(<<Ping, Ping, Ping, Ping, Ping, Ping>>, {3 * one})}

\* One byte of two pipelined requests is wrong.
Noise == {LF, CR, Star, Minus, Zero + 9}
Damaged ==
  LET whole == Whole(<<<<Name("get"), k>>, <<Name("ping")>>>>, NoKeys, "off", 0)
  IN  {[whole EXCEPT !.stream[i] = b] : i \in DOMAIN whole.stream, b \in Noise}

\* Requests that are no commands: nested, null and empty arrays, null strings, other values.
Odd ==
  LET Raw(value) == [Whole(<<<<Name("ping")>>>>, NoKeys, "off", 0) EXCEPT !.stream = encode(value)]
      Nest(value) == Array(<<value>>)
  IN  {Raw(x) : x \in {Nest(Nest(Nest(PONG))), Nest(Nest(Bulk(v))), Array(nullopt), Array(<<>>),
                       Nest(Bulk(nullopt)), Nest(Integer(-7)), Error(v), Bulk(v)}}

AllScenarios ==
  Writes \cup Expires \cup Extends \cup Reads \cup Pipelined \cup Busy \cup Damaged \cup Odd
=============================================================================
