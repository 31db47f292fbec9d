----------------------------- MODULE DiskFormat -----------------------------
(***************************************************************************)
(* The bytes of the write-ahead log and of the snapshot file: the binary   *)
(* codec, the checksum, the records and their payloads, and what reading   *)
(* the files back returns.  Bytes are 0 .. 255.                            *)
(*                                                                         *)
(* Scaling.  Integers of 16, 32 and 64 bits are U16, U32 and U64 bytes     *)
(* wide, the checksum has 16 bits in two bytes, and the eight bytes of a   *)
(* magic number are the constants' two or more.                            *)
(*                                                                         *)
(* A reader is a function of the input that returns what it read and the   *)
(* rest, or Throw.                                                         *)
(***************************************************************************)
EXTENDS Integers, Sequences, FiniteSets, SequencesExt, Bitwise, Common

CONSTANTS
  U16, U32, U64,
  WalMagic, SnapshotMagic, version,
  Ms                   \* clock ticks per millisecond

ASSUME DiskFormatAssumption ==
  /\ {U16, U64, Ms} \subseteq Nat \ {0} /\ U32 = 2
  /\ WalMagic # <<>> /\ SnapshotMagic # <<>>

Byte == 0 .. 255

-----------------------------------------------------------------------------
(* binary.hpp: little-endian integers and strings with their length.       *)

append_uint(n, width) == [i \in 1 .. width |-> (n \div 256 ^ (i - 1)) % 256]
UintOf(bytes) == FoldRight(LAMBDA b, n : 256 * n + b, bytes, 0)

append_i64(n) == append_uint(n % 256 ^ U64, U64)
append_bytes(s) == append_uint(Len(s), U32) \o s

Throw == [value |-> nullopt, rest |-> nullopt]
Got(value, rest) == [value |-> value, rest |-> rest]
Then(r, Continue(_, _)) ==
  With(r, LAMBDA got : IF got = Throw THEN Throw ELSE Continue(got.value, got.rest))

Take(n, in) ==
  IF Len(in) < n THEN Throw ELSE Got(SubSeq(in, 1, n), SubSeq(in, n + 1, Len(in)))
read_uint(width, in) == Then(Take(width, in), LAMBDA bytes, rest : Got(UintOf(bytes), rest))
read_i64(in) ==
  Then(read_uint(U64, in),
       LAMBDA n, rest : Got(IF 2 * n >= 256 ^ U64 THEN n - 256 ^ U64 ELSE n, rest))
read_bytes(in) == Then(read_uint(U32, in), LAMBDA length, rest : Take(length, rest))

\* A loop that reads n items.
ReadTimes(n, Read(_), in) ==
  FoldLeft(LAMBDA r, i : Then(r, LAMBDA items, left :
                         Then(Read(left), LAMBDA item, rest : Got(Append(items, item), rest))),
           Got(<<>>, in), [i \in 1 .. n |-> i])
ReadStrings(in) ==
  Then(read_uint(U32, in), LAMBDA count, rest : ReadTimes(count, read_bytes, rest))

-----------------------------------------------------------------------------
(* crc32.cpp, with the reversed polynomial of CRC-16.                      *)

Polynomial == 40961
Ones == 65535

\* Exclusive or of two 16-bit numbers, by a table for four bits at a time.
NibbleTable == [a \in 0 .. 15, b \in 0 .. 15 |-> a ^^ b]
XorBits(a, b) ==
  NibbleTable[a % 16, b % 16] + 16 * NibbleTable[(a \div 16) % 16, (b \div 16) % 16]
  + 256 * NibbleTable[(a \div 256) % 16, (b \div 256) % 16]
  + 4096 * NibbleTable[a \div 4096, b \div 4096]

ShiftBit(crc) == IF crc % 2 = 1 THEN XorBits(Polynomial, crc \div 2) ELSE crc \div 2
crc_table ==
  [index \in Byte |-> FoldLeft(LAMBDA crc, bit : ShiftBit(crc), index, [bit \in 1 .. 8 |-> bit])]

\* One turn of the loop of crc32_update.
CrcStep(crc, byte) == XorBits(crc_table[XorBits(crc, byte) % 256], crc \div 256)

\* The loop, over the first half of the data and from its value over the second.
RECURSIVE CrcLoop(_, _)
CrcLoop(crc, data) ==
  LET half == Len(data) \div 2
  IN  IF half = 0 THEN CrcStep(crc, data[1])
      ELSE With(CrcLoop(crc, SubSeq(data, 1, half)),
                LAMBDA mid : CrcLoop(mid, SubSeq(data, half + 1, Len(data))))

crc32(data) == IF data = <<>> THEN 0 ELSE Ones - CrcLoop(Ones, data)

-----------------------------------------------------------------------------
(* The log: a mutation, its record, and what a scan of the file returns.   *)

to_unix_ms(time) == time \div Ms
from_unix_ms(millis) == millis * Ms

\* A mutation as the engine logs it: durable_set never has a deadline.
Mutation(op, keys, val, at) == [op |-> op, keys |-> keys, val |-> val, at |-> at]
Opcode == [set |-> 1, del |-> 2, expire |-> 3]

encode_payload(m) ==
  CASE m.op = "set" ->
         append_bytes(m.keys[1]) \o append_bytes(m.val)
         \o (IF m.at = nullopt THEN <<0>> ELSE <<1>> \o append_i64(m.at))
    [] m.op = "del" ->
         append_uint(Len(m.keys), U32)
         \o FlattenSeq([i \in DOMAIN m.keys |-> append_bytes(m.keys[i])])
    [] m.op = "expire" -> append_bytes(m.keys[1]) \o append_i64(m.at)

encode_record_body(offset, m) ==
  append_uint(offset, U64) \o append_uint(Opcode[m.op], U16) \o encode_payload(m)

\* The bytes that append() writes.
encode_record(offset, m) ==
  With(encode_record_body(offset, m), LAMBDA body :
    append_uint(Len(body), U32) \o body \o append_uint(crc32(body), U32))

\* What apply_record reads from a payload before it changes the store.
decode_payload(opcode, payload) ==
  CASE opcode = Opcode.set ->
         Then(read_bytes(payload), LAMBDA key, r1 :
         Then(read_bytes(r1), LAMBDA val, r2 :
         Then(Take(1, r2), LAMBDA flag, r3 :
           IF flag = <<0>> THEN Got(Mutation("set", <<key>>, val, nullopt), r3)
           ELSE Then(read_i64(r3), LAMBDA at, r4 : Got(Mutation("set", <<key>>, val, at), r4)))))
    [] opcode = Opcode.del ->
         Then(ReadStrings(payload), LAMBDA keys, rest :
           Got(Mutation("del", keys, nullopt, nullopt), rest))
    [] opcode = Opcode.expire ->
         Then(read_bytes(payload), LAMBDA key, r1 :
         Then(read_i64(r1), LAMBDA at, r2 : Got(Mutation("expire", <<key>>, nullopt, at), r2)))
    [] OTHER -> Throw

write_header == WalMagic \o append_uint(version, U32) \o append_uint(0, U32)
HeaderSize == Len(WalMagic) + 2 * U32

\* The loop of open_and_recover: records, the bytes they take up, and whether it threw.
RECURSIVE ScanRecords(_, _, _, _)
ScanRecords(cursor, records, last_offset_, checked) ==
  LET probe == read_uint(U32, cursor)
      length == probe.value
      body == SubSeq(probe.rest, 1, length)
      crc == UintOf(SubSeq(probe.rest, length + 1, length + U32))
      offset == UintOf(SubSeq(body, 1, U64))
      record == [offset |-> offset, opcode |-> UintOf(SubSeq(body, U64 + 1, U64 + U16)),
                 payload |-> SubSeq(body, U64 + U16 + 1, length)]
      Stop(threw) == [records |-> records, tail |-> Len(cursor), threw |-> threw]
  IN  IF probe = Throw THEN Stop(FALSE)
      ELSE IF length < U64 + U16 \/ Len(probe.rest) < (length + U32) % 256 ^ U32 THEN Stop(FALSE)
      ELSE IF Len(probe.rest) < length + U32 THEN Stop(TRUE)
      ELSE IF checked /\ crc # crc32(body) THEN Stop(FALSE)
      ELSE IF offset <= last_offset_ THEN Stop(TRUE)
      ELSE ScanRecords(SubSeq(probe.rest, length + U32 + 1, Len(probe.rest)),
                       Append(records, record), offset, checked)

\* Fault: the checksum of a record is not compared.
ScanTrusting(cursor) == ScanRecords(cursor, <<>>, 0, FALSE)

Scan(cursor) == ScanRecords(cursor, <<>>, 0, TRUE)

\* The file that open_and_recover leaves and the records it returns.
open_and_recover(file) ==
  IF Len(file) < HeaderSize \/ ~IsPrefix(WalMagic, file)
  THEN [file |-> write_header, records |-> <<>>, threw |-> FALSE]
  ELSE LET scan == Scan(SubSeq(file, HeaderSize + 1, Len(file)))
           found == UintOf(SubSeq(file, Len(WalMagic) + 1, Len(WalMagic) + U32))
       IN  IF found # version THEN [file |-> file, records |-> <<>>, threw |-> TRUE]
           ELSE [file |-> SubSeq(file, 1, Len(file) - scan.tail), records |-> scan.records,
                 threw |-> scan.threw]

-----------------------------------------------------------------------------
(* The snapshot: entries [key, value, at], a value a record of one field.  *)

append_value(v) ==
  LET Strings(items) ==
        append_uint(Len(items), U32) \o FlattenSeq([i \in DOMAIN items |-> append_bytes(items[i])])
  IN  CASE DOMAIN v = {"string"} -> <<0>> \o append_bytes(v.string)
        [] DOMAIN v = {"int64"} -> <<1>> \o append_i64(v.int64)
        [] DOMAIN v = {"list"} -> <<2>> \o Strings(v.list)
        [] DOMAIN v = {"set"} -> <<3>> \o Strings(SetToSeq(v.set))

read_value(in) ==
  Then(Take(1, in), LAMBDA type, rest :
    CASE type = <<0>> -> Then(read_bytes(rest), LAMBDA s, r : Got([string |-> s], r))
      [] type = <<1>> -> Then(read_i64(rest), LAMBDA n, r : Got([int64 |-> n], r))
      [] type = <<2>> -> Then(ReadStrings(rest), LAMBDA items, r : Got([list |-> items], r))
      [] type = <<3>> -> Then(ReadStrings(rest), LAMBDA items, r : Got([set |-> ToSet(items)], r))
      [] OTHER -> Throw)

append_entry(e) ==
  append_bytes(e.key) \o append_value(e.value)
  \o (IF e.at = nullopt THEN <<0>> ELSE <<1>> \o append_i64(to_unix_ms(e.at)))

read_entry(in) ==
  Then(read_bytes(in), LAMBDA key, r1 :
  Then(read_value(r1), LAMBDA value, r2 :
  Then(Take(1, r2), LAMBDA flag, r3 :
    IF flag = <<0>> THEN Got([key |-> key, value |-> value, at |-> nullopt], r3)
    ELSE Then(read_i64(r3), LAMBDA at, r4 :
           Got([key |-> key, value |-> value, at |-> from_unix_ms(at)], r4)))))

\* SnapshotStore::write of entries in some order.
SnapshotBytes(wal_offset, entries) ==
  LET body == SnapshotMagic \o append_uint(version, U32) \o append_uint(wal_offset, U64)
              \o append_uint(Len(entries), U64)
              \o FlattenSeq([i \in DOMAIN entries |-> append_entry(entries[i])])
  IN  body \o append_uint(crc32(body), U32)

\* SnapshotStore::read: nullopt for whatever is not a whole, intact snapshot.
ReadSnapshot(file) ==
  LET start == Len(SnapshotMagic)
      content == SubSeq(file, 1, Len(file) - U32)
      header == Take(start + U32, content)
      body == Then(read_uint(U64, header.rest), LAMBDA wal_offset, r1 :
              Then(read_uint(U64, r1), LAMBDA count, r2 :
              Then(ReadTimes(count, read_entry, r2), LAMBDA entries, r3 :
                Got([wal_offset |-> wal_offset, entries |-> ToSet(entries)], r3))))
  IN  IF \/ Len(file) < start + 2 * U32 + 2 * U64 \/ ~IsPrefix(SnapshotMagic, file)
         \/ crc32(content) # UintOf(SubSeq(file, Len(content) + 1, Len(file)))
         \/ UintOf(SubSeq(file, start + 1, start + U32)) # version
         \/ body = Throw
      THEN nullopt
      ELSE IF body.rest # <<>> THEN nullopt ELSE body.value

=============================================================================
