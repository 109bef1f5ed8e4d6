----------------------------- MODULE RecordLink -----------------------------
(***************************************************************************)
(* server-5204/link.cpp: the record protocol between two Links.  send()    *)
(* appends each record of a packet with its length, and an empty line;     *)
(* flush() writes the output buffer to the socket; response() reads what   *)
(* has arrived into the input buffer until parse() finds a whole packet    *)
(* there.  The sockets are blocking, as Link() leaves them.                *)
(*                                                                         *)
(* Records are short enough for a length of one digit, and have no line    *)
(* that ends in \r\n.                                                      *)
(***************************************************************************)
EXTENDS ByteBuffer

CONSTANTS
  Packets,        \* what is sent: sequences of records
  MaxPacketSize,  \* MAX_PACKET_SIZE
  WireCap,        \* bytes on their way that the sockets hold
  MaxSent,        \* bound: packets sent
  MayClose        \* may the sender close before all is written

ASSUME LinkAssumption ==
  /\ Packets \subseteq Seq(Seq(Char))
  /\ \A p \in Packets : \A i \in DOMAIN p : Len(p[i]) \in Digit
  /\ Digit \cup {NL} \subseteq Char
  /\ MaxPacketSize \in Nat
  /\ WireCap \in Nat \ {0}
  /\ MaxSent \in Nat
  /\ MayClose \in BOOLEAN

VARIABLES
  output,    \* the sender's output buffer
  input,     \* the receiver's input buffer
  wire,      \* bytes written and not read
  tx,        \* the sender: "idle", "flush", or "closed"
  rx,        \* the receiver's response(): "parse", "read", or what it returned
  sent,      \* the packets sent
  received   \* the packets response() returned

vars == <<output, input, wire, tx, rx, sent, received>>

TypeOK ==
  /\ output \in ByteBuffers
  /\ input \in ByteBuffers
  /\ wire \in Seq(Char)
  /\ tx \in {"idle", "flush", "closed"}
  /\ rx \in {"parse", "read", "error", "closed"}
  /\ sent \in Seq(Packets)
  /\ received \in Seq(Packets)

Init ==
  /\ output = NewBuffer
  /\ input = NewBuffer
  /\ wire = <<>>
  /\ tx = "idle"
  /\ rx = "parse"
  /\ sent = <<>>
  /\ received = <<>>

-----------------------------------------------------------------------------
(* The sender. *)

(* The buffer after i records of the packet. *)
Records(b, packet) ==
  LET after[i \in 0..Len(packet)] ==
        IF i = 0 THEN b ELSE append_record(after[i - 1], packet[i])
  IN  after

Packed(b, packet) == append(Records(b, packet)[Len(packet)], NL)

(* A packet without records is an empty line. *)
Send ==
  /\ tx = "idle"
  /\ Len(sent) < MaxSent
  /\ \E p \in Packets :
       /\ output' = Packed(output, p)
       /\ sent' = Append(sent, p)
  /\ UNCHANGED <<input, wire, tx, rx, received>>

Flush ==
  /\ tx = "idle"
  /\ output.data # <<>>
  /\ tx' = "flush"
  /\ UNCHANGED <<output, input, wire, rx, sent, received>>

(* while(!output->empty()) *)
Written(b) == IF b.data = <<>> THEN "idle" ELSE "flush"

(* One write(), of as much as the socket takes. *)
Write ==
  /\ tx = "flush"
  /\ \E n \in 1..Len(output.data) :
       LET rest == nice(decr(Prepared(output), n))
       IN  /\ Len(wire) + n <= WireCap
           /\ wire' = wire \o SubSeq(output.data, 1, n)
           /\ output' = rest
           /\ tx' = Written(rest)
  /\ UNCHANGED <<input, rx, sent, received>>

(* ~Link() *)
Close ==
  /\ MayClose
  /\ tx # "closed"
  /\ tx' = "closed"
  /\ UNCHANGED <<output, input, wire, rx, sent, received>>

-----------------------------------------------------------------------------
(* parse(): the packet at the front of s, the bytes it takes, or why there *)
(* is none.                                                                *)

NotReady  == [result |-> "not ready", records |-> <<>>, used |-> 0]
BadFormat == [result |-> "error", records |-> <<>>, used |-> 0]

(* Variant: a record ends with its line. *)
BodyLine(s, p, body) ==
  IF \E q \in body..Len(s) : s[q] = NL
    THEN CHOOSE q \in body..Len(s) : s[q] = NL /\ \A r \in body..q - 1 : s[r] # NL
    ELSE Len(s) + 2

(* The position behind the record whose length is at p. *)
BodyEnd(s, p, body) == body + s[p]

(* The line that begins at p ends at eol. *)
LineEnds(s, p) == {q \in p..Len(s) : s[q] = NL}

Eol(s, p) == CHOOSE q \in LineEnds(s, p) : \A r \in LineEnds(s, p) : q <= r

RecordEnd(s, p) == BodyEnd(s, p, Eol(s, p) + 1)

(* What is at p, if the bytes behind the record there parse as rest. *)
FrontAt(s, p, rest) ==
  LET end == RecordEnd(s, p)
  IN  IF LineEnds(s, p) = {} THEN NotReady
      ELSE IF Eol(s, p) = p THEN [result |-> "packet", records |-> <<>>, used |-> p]
      ELSE IF s[p] \notin Digit THEN BadFormat
      ELSE IF end > Len(s) THEN NotReady
      ELSE IF s[end] # NL THEN NotReady
      ELSE IF end > MaxPacketSize THEN BadFormat
      ELSE IF rest.result # "packet" THEN rest
      ELSE [rest EXCEPT !.records = <<SubSeq(s, Eol(s, p) + 1, end - 1)>> \o @]

Fronts(s) ==
  LET front[p \in 1..Len(s) + 1] == FrontAt(s, p, front[RecordEnd(s, p) + 1])
  IN  front

(* Empty lines before a packet are skipped. *)
Start(s) ==
  CHOOSE p \in 1..Len(s) + 1 : /\ p <= Len(s) => s[p] # NL
                               /\ \A q \in 1..p - 1 : s[q] = NL

Parsed(s) == Fronts(s)[Start(s)]

(* Variant: a full buffer is only compacted. *)
NiceOnly(b) == nice(b)

(* Room for read() to go on, made when a packet is not complete. *)
Enlarged(b) ==
  IF space(b) > 0 THEN b
  ELSE IF space(nice(b)) > 0 THEN nice(b) ELSE grow(nice(b))

ParsePacket ==
  /\ rx = "parse"
  /\ Parsed(input.data).result = "packet"
  /\ received' = Append(received, Parsed(input.data).records)
  /\ input' = decr(input, Parsed(input.data).used)
  /\ UNCHANGED <<output, wire, tx, rx, sent>>

ParseNothing ==
  /\ rx = "parse"
  /\ Parsed(input.data).result = "not ready"
  /\ input' = IF input.data = <<>> THEN input ELSE Enlarged(input)
  /\ rx' = "read"
  /\ UNCHANGED <<output, wire, tx, sent, received>>

ParseError ==
  /\ rx = "parse"
  /\ Parsed(input.data).result = "error"
  /\ rx' = "error"
  /\ UNCHANGED <<output, input, wire, tx, sent, received>>

(* read(): what has arrived and there is room for. *)
ToRead == nice(Prepared(input))

ReadSome ==
  /\ rx = "read"
  /\ wire # <<>>
  /\ space(ToRead) > 0
  /\ LET n == IF Len(wire) < space(ToRead) THEN Len(wire) ELSE space(ToRead)
     IN  /\ input' = incr(ToRead, SubSeq(wire, 1, n))
         /\ wire' = SubSeq(wire, n + 1, Len(wire))
  /\ rx' = "parse"
  /\ UNCHANGED <<output, tx, sent, received>>

(* read() returns 0: at the end of the stream, and for want of room. *)
ReadNothing ==
  /\ rx = "read"
  /\ space(ToRead) <= 0 \/ (wire = <<>> /\ tx = "closed")
  /\ input' = ToRead
  /\ rx' = "closed"
  /\ UNCHANGED <<output, wire, tx, sent, received>>

-----------------------------------------------------------------------------

Response == ParsePacket \/ ParseNothing \/ ParseError \/ ReadSome \/ ReadNothing

Next == Send \/ Flush \/ Write \/ Close \/ Response

(* request() flushes what it has sent; response() is called again for the  *)
(* next packet.                                                            *)
Spec == Init /\ [][Next]_vars /\ WF_vars(Flush) /\ WF_vars(Write) /\ WF_vars(Response)

-----------------------------------------------------------------------------
(* No record is written behind the end of a buffer, and nice() never       *)
(* copies over bytes that it has still to copy.                            *)
Within(b) ==
  /\ ~ b.over
  /\ b.off > b.total \div 2 => Len(b.data) <= b.off

InvRoom == Within(output) /\ Within(input)

(* An empty packet is an empty line, and parse() skips it. *)
Kept(s) ==
  LET kept[i \in 0..Len(s)] ==
        IF i = 0 THEN <<>>
        ELSE IF s[i] = <<>> THEN kept[i - 1] ELSE Append(kept[i - 1], s[i])
  IN  kept

Expected == Kept(sent)[Len(sent)]

Size(packet) == Len(Packed(NewBuffer, packet).data)

(* However the stream is cut, and whatever the records hold, the packets   *)
(* that come out are those that went in; and parse() finds an error only   *)
(* in a packet that is, with the empty lines before it, too long.          *)
InvPackets ==
  LET next  == Len(received) + 1
      empty == Len(sent) - Len(Expected)
  IN  /\ Len(received) <= Len(Expected)
      /\ \A i \in DOMAIN received : received[i] = Expected[i]
      /\ rx = "error" => /\ next \in DOMAIN Expected
                         /\ Size(Expected[next]) + empty > MaxPacketSize

(* response() returns NULL for the end of the stream only when it has      *)
(* returned every packet that was written, never for want of room.         *)
InvEnd ==
  rx = "closed" =>
    /\ tx = "closed"
    /\ wire = <<>>
    /\ output.data = <<>> => received = Expected

(* Every packet arrives, unless one is too long or the sender closes.      *)
Delivered ==
  \A k \in 1..MaxSent :
    Len(Expected) >= k ~> Len(received) >= k \/ rx = "error" \/ tx = "closed"

=============================================================================
