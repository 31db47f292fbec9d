-------------------------------- MODULE Resp --------------------------------
(***************************************************************************)
(* RESP2: protocol::RespValue, encode() and the incremental Parser, over   *)
(* real byte values.  The limits of ParserLimits and the range of int64    *)
(* are constants.  A value of the variant is a record whose one field      *)
(* names the alternative; messages of ParseResult are left out.            *)
(***************************************************************************)
EXTENDS Integers, Sequences, FiniteSets, SequencesExt, FiniteSetsExt, Common

CONSTANTS
  max_bulk_size, max_array_size, max_depth, max_buffer_size,  \* ParserLimits
  Int64Max

ASSUME RespAssumption ==
  {max_bulk_size, max_array_size, max_depth, max_buffer_size, Int64Max} \subseteq Nat

LF == 10
CR == 13
Dollar == 36
Star == 42
Plus == 43
Minus == 45
Zero == 48
Colon == 58
CRLF == <<CR, LF>>

Simple(s) == [simple |-> s]
Error(s) == [error |-> s]
Integer(n) == [integer |-> n]
Bulk(s) == [bulk |-> s]
Array(vs) == [array |-> vs]
Holds(v, alternative) == alternative \in DOMAIN v

-----------------------------------------------------------------------------
(* encode().                                                               *)

\* std::to_chars.
RECURSIVE Numeral(_)
Numeral(n) ==
  IF n < 0 THEN <<Minus>> \o Numeral(-n)
  ELSE IF n < 10 THEN <<Zero + n>> ELSE Append(Numeral(n \div 10), Zero + (n % 10))

\* append_line throws on a line that holds a CR or an LF.
RECURSIVE encode(_), Encodable(_)
Encodable(v) ==
  LET Line(s) == Range(s) \cap Range(CRLF) = {} IN
  /\ Holds(v, "simple") => Line(v.simple)
  /\ Holds(v, "error") => Line(v.error)
  /\ Holds(v, "array") /\ v.array # nullopt => \A i \in DOMAIN v.array : Encodable(v.array[i])

encode(v) ==
  IF Holds(v, "simple") THEN <<Plus>> \o v.simple \o CRLF
  ELSE IF Holds(v, "error") THEN <<Minus>> \o v.error \o CRLF
  ELSE IF Holds(v, "integer") THEN <<Colon>> \o Numeral(v.integer) \o CRLF
  ELSE IF Holds(v, "bulk") THEN
    <<Dollar>> \o (IF v.bulk = nullopt THEN Numeral(-1)
                   ELSE Numeral(Len(v.bulk)) \o CRLF \o v.bulk) \o CRLF
  ELSE <<Star>> \o (IF v.array = nullopt THEN Numeral(-1) ELSE Numeral(Len(v.array))) \o CRLF
       \o FlattenSeq(IF v.array = nullopt THEN <<>>
                     ELSE [i \in DOMAIN v.array |-> encode(v.array[i])])

-----------------------------------------------------------------------------
(* The parser: what is at position `at' of the input, and where it ends.   *)

Status(s) == [status |-> s, value |-> nullopt, next |-> 0]
Complete(v, next) == [status |-> "complete", value |-> v, next |-> next]
IsComplete(r) == r.status = "complete"

LineUpTo(in, start, atEnd) ==
  LET ends == {i \in start .. Len(in) : in[i] \in {CR, LF}}
      i == Min(ends)
  IN  IF ends = {} THEN Status("incomplete")
      ELSE IF in[i] = LF THEN Status("malformed")
      ELSE IF i = Len(in) THEN Status(atEnd)
      ELSE IF in[i + 1] # LF THEN Status("malformed")
      ELSE Complete(SubSeq(in, start, i - 1), i + 2)

\* Fault: a CR that ends the buffer is taken for one without its LF.
ReadLineHasty(in, start) == LineUpTo(in, start, "malformed")

read_line(in, start) == LineUpTo(in, start, "incomplete")

\* std::from_chars on all of the text, without a plus sign, within int64.
DigitsOf(text) == IF text # <<>> /\ text[1] = Minus THEN Tail(text) ELSE text
Magnitude(digits) == FoldLeft(LAMBDA n, d : 10 * n + (d - Zero), 0, digits)
parse_integer(text) ==
  LET n == (IF text # DigitsOf(text) THEN -1 ELSE 1) * Magnitude(DigitsOf(text))
  IN  IF /\ DigitsOf(text) # <<>> /\ Range(DigitsOf(text)) \subseteq Zero .. Zero + 9
         /\ n \in -Int64Max - 1 .. Int64Max
      THEN n ELSE nullopt

parse_line_value(in, at, is_error) ==
  With(read_line(in, at + 1), LAMBDA line :
    IF ~IsComplete(line) THEN line
    ELSE Complete(IF is_error THEN Error(line.value) ELSE Simple(line.value), line.next))

parse_resp_integer(in, at) ==
  With(read_line(in, at + 1), LAMBDA line :
    IF ~IsComplete(line) THEN line
    ELSE With(parse_integer(line.value), LAMBDA number :
           IF number = nullopt THEN Status("malformed")
           ELSE Complete(Integer(number), line.next)))

\* The payload of a bulk string that starts at `start' and its CR LF.
PayloadAt(in, start, size) ==
  LET end == start + size
  IN  IF end > Len(in) THEN Status("incomplete")
      ELSE IF in[end] # CR THEN Status("malformed")
      ELSE IF end = Len(in) THEN Status("incomplete")
      ELSE IF in[end + 1] # LF THEN Status("malformed")
      ELSE Complete(Bulk(SubSeq(in, start, end - 1)), end + 2)

parse_bulk(in, at) ==
  With(parse_resp_integer(in, at), LAMBDA length :
    IF ~IsComplete(length) THEN length
    ELSE IF length.value.integer = -1 THEN Complete(Bulk(nullopt), length.next)
    ELSE IF length.value.integer < 0 THEN Status("malformed")
    ELSE IF length.value.integer > max_bulk_size THEN Status("oversized")
    ELSE PayloadAt(in, length.next, length.value.integer))

RECURSIVE parse_value(_, _, _), parse_items(_, _, _, _, _)

\* The loop of parse_array over the elements that are left.
parse_items(in, at, depth, left, values) ==
  IF left = 0 THEN Complete(Array(values), at)
  ELSE With(parse_value(in, at, depth), LAMBDA item :
         IF IsComplete(item)
         THEN parse_items(in, item.next, depth, left - 1, Append(values, item.value))
         ELSE item)

parse_array(in, at, depth) ==
  With(parse_resp_integer(in, at), LAMBDA length :
    IF ~IsComplete(length) THEN length
    ELSE IF length.value.integer < -1 THEN Status("malformed")
    ELSE IF depth >= max_depth THEN Status("too_deep")
    ELSE IF length.value.integer = -1 THEN Complete(Array(nullopt), length.next)
    ELSE IF length.value.integer > max_array_size THEN Status("oversized")
    ELSE parse_items(in, length.next, depth + 1, length.value.integer, <<>>))

parse_value(in, at, depth) ==
  IF at > Len(in) THEN Status("incomplete")
  ELSE CASE in[at] = Plus -> parse_line_value(in, at, FALSE)
         [] in[at] = Minus -> parse_line_value(in, at, TRUE)
         [] in[at] = Colon -> parse_resp_integer(in, at)
         [] in[at] = Dollar -> parse_bulk(in, at)
         [] in[at] = Star -> parse_array(in, at, depth)
         [] OTHER -> Status("malformed")

-----------------------------------------------------------------------------
(* class Parser.                                                           *)

NewParser == [buffer_ |-> <<>>, buffer_oversized_ |-> FALSE]

\* Fault: the limit of the buffer is not enforced.
FeedUnbounded(p, bytes) == [p EXCEPT !.buffer_ = @ \o bytes]

feed(p, bytes) ==
  IF p.buffer_oversized_ \/ Len(bytes) > max_buffer_size - Len(p.buffer_)
  THEN [p EXCEPT !.buffer_oversized_ = TRUE]
  ELSE [p EXCEPT !.buffer_ = @ \o bytes]

next(p) == IF p.buffer_oversized_ THEN Status("oversized") ELSE parse_value(p.buffer_, 1, 0)

\* What next() leaves in the buffer.
Erased(p, r) ==
  IF IsComplete(r) THEN [p EXCEPT !.buffer_ = SubSeq(@, r.next, Len(@))] ELSE p

=============================================================================
