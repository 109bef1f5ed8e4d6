----------------------------- MODULE ByteBuffer -----------------------------
(***************************************************************************)
(* server-5204/util/bytes.cpp: Buffer, a growing piece of memory of which  *)
(* the bytes from data_ on are in use.  off is data_ - buf, data the bytes *)
(* in use (size_ is their number), total the size of the memory; over says *)
(* whether bytes were written behind its end.                              *)
(***************************************************************************)
EXTENDS Integers, Sequences

CONSTANTS
  Char,        \* the bytes, with digits as the numbers they stand for
  InitSize,    \* INIT_BUFFER_SIZE
  SmallSize,   \* 8 * 1024
  BigSize,     \* 512 * 1024
  HeaderRoom   \* 16, "the maximum length of literal string of s.size()"

ASSUME BufferAssumption ==
  /\ {InitSize, SmallSize, BigSize, HeaderRoom} \subseteq Nat
  /\ 0 < InitSize /\ InitSize < SmallSize /\ SmallSize < BigSize
  /\ HeaderRoom >= 2

NL == 10

Digit == 0..9

ByteBuffers == [off : Nat, data : Seq(Char), total : Nat, over : BOOLEAN]

NewBuffer == [off |-> 0, data |-> <<>>, total |-> InitSize, over |-> FALSE]

space(b) == b.total - b.off - Len(b.data)

(* memcpy() to the front; the bytes in use do not overlap the free half. *)
nice(b) == IF b.off > b.total \div 2 THEN [b EXCEPT !.off = 0] ELSE b

GrownTotal(total) ==
  IF total < SmallSize THEN SmallSize
  ELSE IF total < BigSize THEN 8 * total ELSE 2 * total

grow(b) == [b EXCEPT !.total = GrownTotal(@)]

(* A buffer that was never used is enlarged first. *)
Prepared(b) == IF b.total = InitSize THEN grow(b) ELSE b

(* The size of the memory after k calls of grow(). *)
Totals(b, size) ==
  LET total[k \in 0..size] == IF k = 0 THEN b.total ELSE GrownTotal(total[k - 1])
  IN  total

(* while(size > space()) grow() *)
RoomFor(b, size) ==
  LET total   == Totals(b, size)
      fits(k) == size <= total[k] - b.off - Len(b.data)
      rounds  == CHOOSE k \in 0..size : fits(k) /\ \A i \in 0..k - 1 : ~ fits(i)
  IN  [b EXCEPT !.total = total[rounds]]

(* Variant: the terminating newline is not reckoned with. *)
SizeWithoutEnd(record) == HeaderRoom + Len(record)

RecordSize(record) == HeaderRoom + Len(record) + 1

(* memcpy() to slot() *)
incr(b, chars) ==
  [b EXCEPT !.data = @ \o chars, !.over = @ \/ Len(chars) > space(b)]

append_record(b, record) ==
  incr(RoomFor(b, RecordSize(record)), <<Len(record), NL>> \o record \o <<NL>>)

append(b, char) == incr(RoomFor(b, 1), <<char>>)

decr(b, num) == [b EXCEPT !.off = @ + num, !.data = SubSeq(@, num + 1, Len(@))]

=============================================================================
