-------------------------- MODULE RecordLink_proofs --------------------------
(***************************************************************************)
(* Proofs about RecordLink, for any packets, buffer sizes and cuts of the  *)
(* stream: TypeOK, InvRoom, InvPackets and InvEnd are invariants.          *)
(***************************************************************************)
EXTENDS RecordLink, SequenceTheorems, NatInduction

-----------------------------------------------------------------------------
(* Buffer. *)

(* The bytes in use are inside the memory, and always were. *)
Sound(b) ==
  /\ b \in ByteBuffers
  /\ b.total > 0
  /\ b.off + Len(b.data) <= b.total
  /\ ~ b.over

LEMMA SoundIsWithin == ASSUME NEW b, Sound(b) PROVE Within(b)
  BY DEF Sound, Within, ByteBuffers

LEMMA NewIsSound == Sound(NewBuffer) /\ NewBuffer.data = <<>>
  BY BufferAssumption DEF Sound, NewBuffer, ByteBuffers

LEMMA GrownIsMore ==
  ASSUME NEW total \in Nat, total > 0 PROVE GrownTotal(total) \in Nat /\ GrownTotal(total) > total
  BY BufferAssumption DEF GrownTotal

LEMMA GrowIsSound ==
  ASSUME NEW b, Sound(b)
  PROVE  /\ Sound(grow(b)) /\ space(grow(b)) > space(b)
         /\ grow(b).data = b.data
  BY GrownIsMore DEF Sound, grow, space, ByteBuffers

LEMMA NiceIsSound ==
  ASSUME NEW b, Sound(b)
  PROVE  /\ Sound(nice(b)) /\ space(nice(b)) >= space(b)
         /\ nice(b).data = b.data
         /\ b.data = <<>> => space(nice(b)) > 0
  BY DEF Sound, nice, space, ByteBuffers

LEMMA PreparedIsSound ==
  ASSUME NEW b, Sound(b)
  PROVE  Sound(Prepared(b)) /\ space(Prepared(b)) >= space(b) /\ Prepared(b).data = b.data
<1>1. space(b) \in Int /\ space(grow(b)) \in Int
  BY GrownIsMore DEF Sound, grow, space, ByteBuffers
<1> QED
  BY <1>1, GrowIsSound DEF Prepared

LEMMA DecrIsSound ==
  ASSUME NEW b, Sound(b), NEW num \in 0..Len(b.data)
  PROVE  Sound(decr(b, num)) /\ decr(b, num).data = SubSeq(b.data, num + 1, Len(b.data))
<1> DEFINE rest == SubSeq(b.data, num + 1, Len(b.data))
<1>1. b.data \in Seq(Char) /\ b.off \in Nat /\ b.total \in Nat /\ Len(b.data) \in Nat
  BY DEF Sound, ByteBuffers
<1>2. rest \in Seq(Char) /\ Len(rest) = Len(b.data) - num
  BY <1>1
<1>3. decr(b, num) = [b EXCEPT !.off = b.off + num, !.data = rest]
  BY DEF decr
<1> HIDE DEF rest
<1>4. /\ decr(b, num).data = rest /\ decr(b, num).off = b.off + num
      /\ decr(b, num).total = b.total /\ decr(b, num).over = b.over
      /\ decr(b, num) \in ByteBuffers
  <2>1. b \in ByteBuffers /\ b.off + num \in Nat
    BY <1>1 DEF Sound
  <2> QED
    BY <1>2, <1>3, <2>1 DEF ByteBuffers
<1>5. Sound(decr(b, num))
  BY <1>1, <1>2, <1>4 DEF Sound
<1> QED
  BY <1>4, <1>5 DEF rest

(* What is appended where there is room. *)
LEMMA IncrIsSound ==
  ASSUME NEW b, Sound(b), NEW chars \in Seq(Char), Len(chars) <= space(b)
  PROVE  Sound(incr(b, chars)) /\ incr(b, chars).data = b.data \o chars
<1>1. b.data \in Seq(Char) /\ b.off \in Nat /\ b.total \in Nat /\ Len(b.data) \in Nat
  BY DEF Sound, ByteBuffers
<1>2. b.data \o chars \in Seq(Char) /\ Len(b.data \o chars) = Len(b.data) + Len(chars)
  BY <1>1
<1>3. incr(b, chars) = [b EXCEPT !.data = b.data \o chars, !.over = b.over \/ Len(chars) > space(b)]
  BY DEF incr
<1>4. Len(chars) \in Nat /\ ~ (Len(chars) > space(b))
  BY <1>1 DEF space
<1>5. (b.over \/ Len(chars) > space(b)) = FALSE
  BY <1>4 DEF Sound
<1>6. incr(b, chars) = [b EXCEPT !.data = b.data \o chars, !.over = FALSE]
  BY <1>3, <1>5
<1>7. /\ incr(b, chars).data = b.data \o chars /\ incr(b, chars).off = b.off
      /\ incr(b, chars).total = b.total /\ incr(b, chars).over = FALSE
      /\ incr(b, chars) \in ByteBuffers
  BY <1>1, <1>2, <1>6 DEF Sound, ByteBuffers
<1>8. b.off + Len(b.data \o chars) <= b.total
  BY <1>1, <1>2 DEF space
<1> QED
  BY <1>7, <1>8 DEF Sound

-----------------------------------------------------------------------------
(* The loop of grow() ends. *)
AreTotals(total, b, n) ==
  /\ total \in [0..n -> Nat]
  /\ total[0] = b.total
  /\ \A i \in 0..n - 1 : total[i + 1] = GrownTotal(total[i])
  /\ \A i \in 0..n : total[i] >= b.total + i

LEMMA TotalsExist ==
  ASSUME NEW b, Sound(b), NEW n \in Nat
  PROVE  \E total : AreTotals(total, b, n)
<1> DEFINE T == {m \in Nat : \E total : AreTotals(total, b, m)}
<1>1. b.total \in Nat /\ b.total > 0
  BY DEF Sound, ByteBuffers
<1>2. 0 \in T
  <2>1. AreTotals([i \in 0..0 |-> b.total], b, 0)
    BY <1>1 DEF AreTotals
  <2> QED
    BY <2>1
<1>3. ASSUME NEW m \in Nat, m \in T PROVE m + 1 \in T
  <2>1. PICK f : AreTotals(f, b, m)
    BY <1>3
  <2>2. f[m] \in Nat /\ f[m] >= b.total + m
    BY <2>1 DEF AreTotals
  <2>3. GrownTotal(f[m]) \in Nat /\ GrownTotal(f[m]) >= b.total + m + 1
    BY <1>1, <2>2, GrownIsMore
  <2> DEFINE g == [i \in 0..m + 1 |-> IF i = m + 1 THEN GrownTotal(f[m]) ELSE f[i]]
  <2>4. AreTotals(g, b, m + 1)
    BY <1>1, <2>1, <2>3 DEF AreTotals
  <2> QED
    BY <2>4
<1>4. \A m \in Nat : m \in T
  <2> HIDE DEF T
  <2> QED
    BY <1>2, <1>3, Induction
<1> QED
  BY <1>4

LEMMA TotalsGrow ==
  ASSUME NEW b, Sound(b), NEW n \in Nat
  PROVE  \A k \in 0..n : Totals(b, n)[k] \in Nat /\ Totals(b, n)[k] >= b.total + k
<1> DEFINE Is(g) == g = [k \in 0..n |-> IF k = 0 THEN b.total ELSE GrownTotal(g[k - 1])]
           total == Totals(b, n)
<1>1. PICK f : AreTotals(f, b, n)
  BY TotalsExist
<1>2. Is(f)
  <2>1. ASSUME NEW k \in 0..n PROVE f[k] = IF k = 0 THEN b.total ELSE GrownTotal(f[k - 1])
    BY <1>1 DEF AreTotals
  <2> QED
    BY <1>1, <2>1 DEF AreTotals
<1>3. Is(total)
  <2>1. total = CHOOSE g : Is(g)
    BY DEF Totals
  <2> HIDE DEF Is, total
  <2> QED
    BY <1>2, <2>1, Zenon
<1>4. \A k \in 0..n : total[k] = IF k = 0 THEN b.total ELSE GrownTotal(total[k - 1])
  BY <1>3
<1> HIDE DEF total, Is
<1> DEFINE T == {m \in Nat : m <= n => total[m] \in Nat /\ total[m] >= b.total + m}
<1>5. b.total \in Nat /\ b.total > 0
  BY DEF Sound, ByteBuffers
<1>6. 0 \in T
  BY <1>4, <1>5
<1>7. ASSUME NEW m \in Nat, m \in T PROVE m + 1 \in T
  <2> SUFFICES ASSUME m + 1 <= n PROVE total[m + 1] \in Nat /\ total[m + 1] >= b.total + (m + 1)
    OBVIOUS
  <2>1. total[m + 1] = GrownTotal(total[m])
    BY <1>4
  <2>2. total[m] \in Nat /\ total[m] >= b.total + m
    BY <1>7
  <2>3. GrownTotal(total[m]) \in Nat /\ GrownTotal(total[m]) > total[m]
    BY <1>5, <2>2, GrownIsMore
  <2> QED
    BY <1>5, <2>1, <2>2, <2>3
<1>8. \A m \in Nat : m \in T
  <2> HIDE DEF T
  <2> QED
    BY <1>6, <1>7, Induction
<1> QED
  BY <1>8 DEF total

LEMMA RoomForIsSound ==
  ASSUME NEW b, Sound(b), NEW size \in Nat
  PROVE  /\ Sound(RoomFor(b, size)) /\ space(RoomFor(b, size)) >= size
         /\ RoomFor(b, size).data = b.data
<1> DEFINE total == Totals(b, size)
           fits(k) == size <= total[k] - b.off - Len(b.data)
           Is(k) == k \in 0..size /\ fits(k) /\ \A i \in 0..k - 1 : ~ fits(i)
           rounds == CHOOSE k \in 0..size : fits(k) /\ \A i \in 0..k - 1 : ~ fits(i)
<1>1. b.off \in Nat /\ Len(b.data) \in Nat /\ b.total \in Nat /\ b.off + Len(b.data) <= b.total
  BY DEF Sound, ByteBuffers
<1>2. \A k \in 0..size : total[k] \in Nat /\ total[k] >= b.total + k
  BY TotalsGrow
<1> HIDE DEF total
<1>3. fits(size)
  BY <1>1, <1>2
<1>4. \E k \in 0..size : fits(k) /\ \A i \in 0..k - 1 : ~ fits(i)
  <2> DEFINE S == {k \in 0..size : fits(k)}
  <2>1. S \subseteq Nat /\ S # {}
    BY <1>3
  <2>2. PICK k \in S : \A i \in S : ~ (i < k)
    <3> HIDE DEF S
    <3> QED
      BY <2>1, LeastExists
  <2>3. \A i \in 0..k - 1 : ~ fits(i)
    BY <2>2
  <2> QED
    BY <2>2, <2>3
<1>5. rounds \in 0..size /\ fits(rounds)
  <2> HIDE DEF fits
  <2> QED
    BY <1>4
<1>6. RoomFor(b, size) = [b EXCEPT !.total = total[rounds]]
  BY DEF RoomFor, total
<1>7. total[rounds] \in Nat /\ total[rounds] >= b.total /\ size <= total[rounds] - b.off - Len(b.data)
  BY <1>1, <1>2, <1>5
<1> HIDE DEF rounds, fits
<1> QED
  BY <1>1, <1>6, <1>7 DEF Sound, ByteBuffers, space

-----------------------------------------------------------------------------
(* How a packet lies in a sequence of bytes S: at[i] is where its record i *)
(* begins, and the position after the last record is that of the empty     *)
(* line.                                                                   *)
LiesRecord(S, p, r) ==
  /\ p + Len(r) + 2 <= Len(S)
  /\ S[p] = Len(r) /\ S[p + 1] = NL /\ S[p + 2 + Len(r)] = NL
  /\ \A j \in 1..Len(r) : S[p + 1 + j] = r[j]

Lies(S, at, packet) ==
  /\ at \in [1..Len(packet) + 1 -> Nat \ {0}]
  /\ \A i \in 1..Len(packet) : /\ LiesRecord(S, at[i], packet[i])
                               /\ at[i + 1] = at[i] + Len(packet[i]) + 3
  /\ at[Len(packet) + 1] <= Len(S) /\ S[at[Len(packet) + 1]] = NL

(* The packet begins at p, and ends before e. *)
LiesPacket(S, p, packet, e) ==
  \E at : Lies(S, at, packet) /\ at[1] = p /\ e = at[Len(packet) + 1] + 1

Extends(S, S2) == Len(S) <= Len(S2) /\ \A j \in 1..Len(S) : S2[j] = S[j]

Packet(packet) == packet \in Seq(Seq(Char)) /\ \A i \in DOMAIN packet : Len(packet[i]) \in Digit

LEMMA PacketsArePackets == \A packet \in Packets : Packet(packet)
  BY LinkAssumption DEF Packet

LEMMA Joined ==
  ASSUME NEW s \in Seq(Char), NEW t \in Seq(Char)
  PROVE  /\ s \o t \in Seq(Char) /\ Len(s \o t) = Len(s) + Len(t) /\ Extends(s, s \o t)
         /\ \A j \in 1..Len(t) : (s \o t)[Len(s) + j] = t[j]
  BY DEF Extends

LEMMA AppendRecordLies ==
  ASSUME NEW b, Sound(b), NEW r \in Seq(Char), Len(r) \in Digit
  PROVE  LET c == append_record(b, r)
         IN  /\ Sound(c) /\ Len(c.data) = Len(b.data) + Len(r) + 3
             /\ Extends(b.data, c.data)
             /\ LiesRecord(c.data, Len(b.data) + 1, r)
<1> DEFINE room == RoomFor(b, RecordSize(r))
           chars == <<Len(r), NL>> \o r \o <<NL>>
           c == append_record(b, r)
<1>1. RecordSize(r) \in Nat /\ RecordSize(r) >= Len(r) + 3
  BY BufferAssumption DEF RecordSize
<1>2. Sound(room) /\ space(room) >= RecordSize(r) /\ room.data = b.data
  BY <1>1, RoomForIsSound
<1>3. b.data \in Seq(Char) /\ space(room) \in Int
  BY <1>2 DEF Sound, ByteBuffers, space
<1>4. /\ chars \in Seq(Char) /\ Len(chars) = Len(r) + 3
      /\ chars[1] = Len(r) /\ chars[2] = NL /\ chars[3 + Len(r)] = NL
      /\ \A j \in 1..Len(r) : chars[2 + j] = r[j]
  <2>1. <<Len(r), NL>> \in Seq(Char) /\ <<NL>> \in Seq(Char) /\ NL \in Char
    BY LinkAssumption
  <2> DEFINE front == <<Len(r), NL>> \o r
  <2>2. /\ front \in Seq(Char) /\ Len(front) = Len(r) + 2
        /\ front[1] = Len(r) /\ front[2] = NL
        /\ \A j \in 1..Len(r) : front[2 + j] = r[j]
    BY <2>1
  <2> HIDE DEF front
  <2> DEFINE all == front \o <<NL>>
  <2>3. /\ all \in Seq(Char) /\ Len(all) = Len(r) + 3
        /\ \A j \in 1..Len(r) + 2 : all[j] = front[j]
        /\ all[Len(r) + 3] = NL
    BY <2>1, <2>2
  <2>4. chars = all
    BY DEF front
  <2> HIDE DEF all
  <2> QED
    BY <2>2, <2>3, <2>4
<1> HIDE DEF chars, room
<1>5. Sound(incr(room, chars)) /\ incr(room, chars).data = b.data \o chars
  <2>1. Len(chars) <= space(room)
    BY <1>1, <1>2, <1>3, <1>4
  <2> QED
    BY <1>2, <1>4, <2>1, IncrIsSound
<1>6. c = incr(room, chars)
  BY DEF append_record, room, chars
<1>7. c.data = b.data \o chars /\ Sound(c)
  BY <1>5, <1>6
<1> DEFINE d == b.data
           e == c.data
<1> HIDE DEF c
<1>8. /\ Len(e) = Len(d) + Len(r) + 3 /\ Extends(d, e)
      /\ \A j \in 1..Len(r) + 3 : e[Len(d) + j] = chars[j]
      /\ Len(d) \in Nat /\ Len(r) \in Nat
  <2>1. d \in Seq(Char) /\ e = d \o chars
    BY <1>3, <1>7
  <2> HIDE DEF d, e
  <2>2. Len(chars) = Len(r) + 3 /\ Len(r) \in Nat
    BY <1>4
  <2>3. /\ Len(d \o chars) = Len(d) + Len(chars) /\ Extends(d, d \o chars)
        /\ \A j \in 1..Len(chars) : (d \o chars)[Len(d) + j] = chars[j]
    BY <1>4, <2>1, Joined
  <2>4. Len(d) \in Nat
    BY <2>1
  <2> QED
    BY <2>1, <2>2, <2>3, <2>4
<1>9. LiesRecord(e, Len(d) + 1, r)
  <2> HIDE DEF d, e
  <2>1. ASSUME NEW j \in 1..Len(r) PROVE e[(Len(d) + 1) + 1 + j] = r[j]
    <3>1. e[Len(d) + (2 + j)] = chars[2 + j]
      BY <1>8
    <3>2. Len(d) + (2 + j) = (Len(d) + 1) + 1 + j
      BY <1>8
    <3> QED
      BY <1>4, <3>1, <3>2
  <2>2. e[Len(d) + 1] = chars[1] /\ e[(Len(d) + 1) + 1] = chars[2]
    <3>1. e[Len(d) + 1] = chars[1] /\ e[Len(d) + 2] = chars[2] /\ Len(d) + 2 = (Len(d) + 1) + 1
      BY <1>8
    <3> QED
      BY <3>1
  <2>3. e[(Len(d) + 1) + 2 + Len(r)] = chars[3 + Len(r)]
    <3>1. e[Len(d) + (3 + Len(r))] = chars[3 + Len(r)]
      BY <1>8
    <3>2. Len(d) + (3 + Len(r)) = (Len(d) + 1) + 2 + Len(r)
      BY <1>8
    <3> QED
      BY <3>1, <3>2
  <2>4. (Len(d) + 1) + Len(r) + 2 <= Len(e)
    BY <1>8
  <2> QED
    BY <1>4, <2>1, <2>2, <2>3, <2>4 DEF LiesRecord
<1> QED
  BY <1>7, <1>8, <1>9 DEF c

LEMMA AppendLies ==
  ASSUME NEW b, Sound(b)
  PROVE  LET c == append(b, NL)
         IN  /\ Sound(c) /\ Len(c.data) = Len(b.data) + 1
             /\ Extends(b.data, c.data) /\ c.data[Len(b.data) + 1] = NL
<1> DEFINE room == RoomFor(b, 1)
<1>1. Sound(room) /\ space(room) >= 1 /\ room.data = b.data
  BY RoomForIsSound
<1>2. b.data \in Seq(Char) /\ <<NL>> \in Seq(Char)
  BY LinkAssumption DEF Sound, ByteBuffers
<1> HIDE DEF room
<1>3. Sound(incr(room, <<NL>>)) /\ incr(room, <<NL>>).data = b.data \o <<NL>>
  BY <1>1, <1>2, IncrIsSound
<1>4. append(b, NL) = incr(room, <<NL>>)
  BY DEF append, room
<1> QED
  BY <1>2, <1>3, <1>4 DEF Extends

LEMMA ExtendsTransitive ==
  ASSUME NEW s \in Seq(Char), NEW t \in Seq(Char), NEW u \in Seq(Char), Extends(s, t), Extends(t, u)
  PROVE  Extends(s, u)
<1>1. Len(s) \in Nat /\ Len(t) \in Nat /\ Len(u) \in Nat
  OBVIOUS
<1> QED
  BY <1>1 DEF Extends

LEMMA RecordStays ==
  ASSUME NEW s \in Seq(Char), NEW t \in Seq(Char), Extends(s, t),
         NEW p \in Nat \ {0}, NEW r \in Seq(Char), LiesRecord(s, p, r)
  PROVE  LiesRecord(t, p, r)
<1>1. Len(s) \in Nat /\ Len(t) \in Nat /\ Len(r) \in Nat
  OBVIOUS
<1>2. \A j \in 1..Len(r) : p + 1 + j \in 1..Len(s)
  BY <1>1 DEF LiesRecord
<1>3. \A j \in 1..Len(r) : t[p + 1 + j] = r[j]
  BY <1>2 DEF LiesRecord, Extends
<1>4. p \in 1..Len(s) /\ p + 1 \in 1..Len(s) /\ p + 2 + Len(r) \in 1..Len(s)
  BY <1>1 DEF LiesRecord
<1> QED
  BY <1>1, <1>3, <1>4 DEF LiesRecord, Extends

(* The buffers that Packed() goes through. *)
AreRecords(after, b, packet, n) ==
  /\ after \in [0..n -> ByteBuffers]
  /\ after[0] = b
  /\ \A i \in 0..n : Sound(after[i])
  /\ \A i \in 0..n - 1 : after[i + 1] = append_record(after[i], packet[i + 1])

LEMMA RecordsExist ==
  ASSUME NEW b, Sound(b), NEW packet, Packet(packet)
  PROVE  \E after : AreRecords(after, b, packet, Len(packet))
<1> DEFINE T == {m \in Nat : m <= Len(packet) => \E after : AreRecords(after, b, packet, m)}
<1>1. packet \in Seq(Seq(Char)) /\ Len(packet) \in Nat
  BY DEF Packet
<1>2. 0 \in T
  <2>1. AreRecords([i \in 0..0 |-> b], b, packet, 0)
    BY DEF AreRecords, Sound
  <2> QED
    BY <2>1
<1>3. ASSUME NEW m \in Nat, m \in T PROVE m + 1 \in T
  <2> SUFFICES ASSUME m + 1 <= Len(packet) PROVE \E after : AreRecords(after, b, packet, m + 1)
    OBVIOUS
  <2>1. PICK f : AreRecords(f, b, packet, m)
    BY <1>1, <1>3
  <2>2. packet[m + 1] \in Seq(Char) /\ Len(packet[m + 1]) \in Digit
    BY <1>1 DEF Packet
  <2> DEFINE c == append_record(f[m], packet[m + 1])
  <2>3. Sound(f[m])
    BY <2>1 DEF AreRecords
  <2>4. Sound(c)
    BY <2>2, <2>3, AppendRecordLies
  <2> HIDE DEF c
  <2> DEFINE g == [i \in 0..m + 1 |-> IF i = m + 1 THEN c ELSE f[i]]
  <2>5. g \in [0..m + 1 -> ByteBuffers] /\ g[0] = b /\ \A i \in 0..m + 1 : Sound(g[i])
    BY <2>1, <2>4 DEF AreRecords, Sound
  <2>6. ASSUME NEW i \in 0..m PROVE g[i + 1] = append_record(g[i], packet[i + 1])
    <3>1. CASE i = m
      BY <3>1 DEF c
    <3>2. CASE i # m
      BY <2>1, <3>2 DEF AreRecords
    <3> QED
      BY <3>1, <3>2
  <2>7. AreRecords(g, b, packet, m + 1)
    <3> HIDE DEF g
    <3> QED
      BY <2>5, <2>6 DEF AreRecords
  <2> QED
    BY <2>7
<1>4. \A m \in Nat : m \in T
  <2> HIDE DEF T
  <2> QED
    BY <1>2, <1>3, Induction
<1> QED
  BY <1>1, <1>4

LEMMA RecordsAreRecords ==
  ASSUME NEW b, Sound(b), NEW packet, Packet(packet)
  PROVE  AreRecords(Records(b, packet), b, packet, Len(packet))
<1> DEFINE n == Len(packet)
           Is(g) == g = [i \in 0..n |-> IF i = 0 THEN b ELSE append_record(g[i - 1], packet[i])]
           after == Records(b, packet)
<1>1. PICK f : AreRecords(f, b, packet, n)
  BY RecordsExist
<1>2. packet \in Seq(Seq(Char)) /\ n \in Nat
  BY DEF Packet
<1>3. Is(f)
  <2> HIDE DEF n
  <2>1. ASSUME NEW i \in 0..n PROVE f[i] = IF i = 0 THEN b ELSE append_record(f[i - 1], packet[i])
    <3>1. CASE i = 0
      BY <1>1, <3>1 DEF AreRecords
    <3>2. CASE i # 0
      <4>1. i - 1 \in 0..n - 1 /\ (i - 1) + 1 = i
        BY <1>2, <3>2
      <4>2. f[(i - 1) + 1] = append_record(f[i - 1], packet[(i - 1) + 1])
        BY <1>1, <4>1 DEF AreRecords
      <4> QED
        BY <3>2, <4>1, <4>2
    <3> QED
      BY <3>1, <3>2
  <2> QED
    BY <1>1, <2>1 DEF AreRecords
<1>4. Is(after)
  <2>1. after = CHOOSE g : Is(g)
    BY DEF Records
  <2> HIDE DEF Is, after
  <2> QED
    BY <1>3, <2>1, Zenon
<1>5. /\ \A i \in 0..n : after[i] = IF i = 0 THEN b ELSE append_record(after[i - 1], packet[i])
      /\ DOMAIN after = 0..n /\ after = [i \in 0..n |-> after[i]]
  <2> HIDE DEF after
  <2>1. after = [i \in 0..n |-> IF i = 0 THEN b ELSE append_record(after[i - 1], packet[i])]
    BY <1>4
  <2> HIDE DEF Is
  <2>2. DOMAIN after = 0..n
    BY <2>1
  <2>3. ASSUME NEW i \in 0..n PROVE after[i] = IF i = 0 THEN b ELSE append_record(after[i - 1], packet[i])
    BY <2>1
  <2>4. after = [i \in 0..n |-> after[i]]
    BY <2>1, <2>3
  <2> QED
    BY <2>2, <2>3, <2>4
<1> HIDE DEF after, Is, n
<1> DEFINE T == {m \in Nat : m <= n => Sound(after[m])}
<1>6. 0 \in T
  BY <1>2, <1>5
<1>7. ASSUME NEW i \in 0..n - 1 PROVE after[i + 1] = append_record(after[i], packet[i + 1])
  <2>1. i + 1 \in 0..n /\ i + 1 # 0 /\ (i + 1) - 1 = i
    BY <1>2
  <2> QED
    BY <1>5, <2>1
<1>8. ASSUME NEW m \in Nat, m \in T PROVE m + 1 \in T
  <2> SUFFICES ASSUME m + 1 <= n PROVE Sound(after[m + 1])
    OBVIOUS
  <2>1. Sound(after[m])
    BY <1>2, <1>8
  <2>2. packet[m + 1] \in Seq(Char) /\ Len(packet[m + 1]) \in Digit
    BY <1>2 DEF Packet, n
  <2>3. Sound(append_record(after[m], packet[m + 1]))
    BY <2>1, <2>2, AppendRecordLies
  <2>4. m \in 0..n - 1
    BY <1>2
  <2> QED
    BY <1>7, <2>3, <2>4
<1>9. \A m \in Nat : m \in T
  <2> HIDE DEF T
  <2> QED
    BY <1>6, <1>8, Induction
<1>10. \A i \in 0..n : Sound(after[i])
  BY <1>2, <1>9
<1>11. after \in [0..n -> ByteBuffers]
  BY <1>5, <1>10 DEF Sound
<1>12. after[0] = b
  BY <1>2, <1>5
<1> QED
  BY <1>7, <1>10, <1>11, <1>12 DEF AreRecords, after, n

(* send() appends the packet behind what the buffer holds.                 *)
LEMMA PackedLies ==
  ASSUME NEW b, Sound(b), NEW packet, Packet(packet)
  PROVE  LET c == Packed(b, packet)
         IN  /\ Sound(c) /\ Extends(b.data, c.data) /\ Len(c.data) > Len(b.data)
             /\ LiesPacket(c.data, Len(b.data) + 1, packet, Len(c.data) + 1)
<1> DEFINE n == Len(packet)
           after == Records(b, packet)
           c == Packed(b, packet)
           data(i) == after[i].data
<1>1. packet \in Seq(Seq(Char)) /\ n \in Nat
  BY DEF Packet
<1>2. AreRecords(after, b, packet, n)
  BY RecordsAreRecords
<1>3. c = append(after[n], NL)
  BY DEF Packed
<1> HIDE DEF after, c, n
<1>4. /\ after[0] = b /\ \A i \in 0..n : Sound(after[i])
      /\ \A i \in 0..n - 1 : after[i + 1] = append_record(after[i], packet[i + 1])
  BY <1>2 DEF AreRecords
<1>5. \A i \in 0..n : data(i) \in Seq(Char) /\ Len(data(i)) \in Nat
  <2> TAKE i \in 0..n
  <2>1. data(i) \in Seq(Char)
    BY <1>4 DEF Sound, ByteBuffers
  <2> HIDE DEF data
  <2> QED
    BY <2>1
<1>6. ASSUME NEW i \in 0..n - 1
      PROVE  /\ Len(data(i + 1)) = Len(data(i)) + Len(packet[i + 1]) + 3
             /\ Extends(data(i), data(i + 1))
             /\ LiesRecord(data(i + 1), Len(data(i)) + 1, packet[i + 1])
  <2>1. i \in 0..n /\ i + 1 \in 1..Len(packet)
    BY <1>1 DEF n
  <2>2. packet[i + 1] \in Seq(Char) /\ Len(packet[i + 1]) \in Digit
    BY <1>1, <2>1 DEF Packet
  <2> QED
    BY <1>4, <2>1, <2>2, AppendRecordLies
<1>7. Sound(c) /\ Len(c.data) = Len(data(n)) + 1 /\ Extends(data(n), c.data) /\ c.data[Len(data(n)) + 1] = NL
  BY <1>1, <1>3, <1>4, AppendLies
<1>8. c.data \in Seq(Char) /\ Len(c.data) \in Nat
  <2>1. c.data \in Seq(Char)
    BY <1>7 DEF Sound, ByteBuffers
  <2> QED
    BY <2>1
<1> DEFINE e == c.data
<1> HIDE DEF data, e
<1> DEFINE T == {m \in Nat : m <= n => \A i \in 0..m : Extends(data(i), data(m))}
<1>9. 0 \in T
  BY <1>1, <1>5 DEF Extends
<1>10. ASSUME NEW m \in Nat, m \in T PROVE m + 1 \in T
  <2> SUFFICES ASSUME m + 1 <= n, NEW i \in 0..m + 1 PROVE Extends(data(i), data(m + 1))
    OBVIOUS
  <2>0. m \in 0..n /\ m + 1 \in 0..n /\ i \in 0..n /\ m \in 0..n - 1
    BY <1>1
  <2>1. CASE i = m + 1
    BY <1>5, <2>0, <2>1 DEF Extends
  <2>2. CASE i # m + 1
    <3>1. Extends(data(i), data(m))
      BY <1>1, <1>10, <2>2
    <3>2. Extends(data(m), data(m + 1))
      BY <1>6, <2>0
    <3> QED
      BY <1>5, <2>0, <3>1, <3>2, ExtendsTransitive
  <2> QED
    BY <2>1, <2>2
<1>11. \A m \in Nat : m \in T
  <2> HIDE DEF T
  <2> QED
    BY <1>9, <1>10, Induction
<1>12. ASSUME NEW i \in 0..n PROVE Extends(data(i), e)
  <2>1. Extends(data(i), data(n)) /\ n \in 0..n
    BY <1>1, <1>11
  <2> QED
    BY <1>5, <1>7, <1>8, <2>1, ExtendsTransitive DEF e
<1> DEFINE at == [i \in 1..n + 1 |-> Len(data(i - 1)) + 1]
<1>13. at \in [1..n + 1 -> Nat \ {0}] /\ at[1] = Len(data(0)) + 1 /\ at[n + 1] = Len(data(n)) + 1
  <2>1. \A i \in 1..n + 1 : i - 1 \in 0..n
    BY <1>1
  <2> QED
    BY <1>1, <1>5, <2>1
<1>14. ASSUME NEW i \in 1..n
       PROVE  LiesRecord(e, at[i], packet[i]) /\ at[i + 1] = at[i] + Len(packet[i]) + 3
  <2>1. i - 1 \in 0..n - 1 /\ (i - 1) + 1 = i /\ i \in 1..n + 1 /\ i + 1 \in 1..n + 1 /\ (i + 1) - 1 = i /\ i \in 0..n
        /\ i - 1 \in 0..n
    BY <1>1
  <2>2. /\ Len(data(i)) = Len(data(i - 1)) + Len(packet[i]) + 3
        /\ LiesRecord(data(i), Len(data(i - 1)) + 1, packet[i])
    BY <1>6, <2>1
  <2>3. packet[i] \in Seq(Char) /\ Len(packet[i]) \in Nat
    BY <1>1 DEF n
  <2>4. LiesRecord(e, Len(data(i - 1)) + 1, packet[i])
    BY <1>5, <1>8, <1>12, <2>1, <2>2, <2>3, RecordStays DEF e
  <2>5. at[i] = Len(data(i - 1)) + 1 /\ at[i + 1] = Len(data(i)) + 1
    BY <2>1
  <2>6. Len(data(i - 1)) \in Nat /\ Len(data(i)) \in Nat
    BY <1>5, <2>1
  <2> HIDE DEF at
  <2>7. LiesRecord(e, at[i], packet[i])
    BY <2>4, <2>5
  <2>8. at[i + 1] = at[i] + Len(packet[i]) + 3
    <3> DEFINE x == Len(data(i - 1))
               y == Len(data(i))
               z == Len(packet[i])
    <3>1. y = x + z + 3 /\ at[i] = x + 1 /\ at[i + 1] = y + 1 /\ {x, y, z} \subseteq Nat
      BY <2>2, <2>3, <2>5, <2>6
    <3> HIDE DEF x, y, z
    <3>2. at[i + 1] = at[i] + z + 3
      BY <3>1
    <3> QED
      BY <3>2 DEF z
  <2> QED
    BY <2>7, <2>8
<1> HIDE DEF at
<1>15. Lies(e, at, packet)
  <2>1. Len(e) = Len(data(n)) + 1 /\ e[Len(data(n)) + 1] = NL
    BY <1>7 DEF e
  <2>2. at[n + 1] <= Len(e) /\ e[at[n + 1]] = NL
    BY <1>1, <1>5, <1>13, <2>1
  <2> QED
    BY <1>13, <1>14, <2>2 DEF Lies, n
<1>16. LiesPacket(e, Len(b.data) + 1, packet, Len(e) + 1)
  <2>1. at[1] = Len(b.data) + 1
    BY <1>4, <1>13 DEF data
  <2>2. Len(e) + 1 = at[n + 1] + 1
    BY <1>7, <1>13 DEF e
  <2> QED
    BY <1>15, <2>1, <2>2 DEF LiesPacket, n
<1>17. Extends(b.data, e) /\ Len(e) > Len(b.data)
  <2>1. data(0) = b.data /\ 0 \in 0..n /\ n \in 0..n
    BY <1>1, <1>4 DEF data
  <2>2. Extends(data(0), data(n)) /\ Extends(data(0), e)
    BY <1>1, <1>11, <1>12, <2>1
  <2>3. Len(e) = Len(data(n)) + 1
    BY <1>7 DEF e
  <2>4. Len(e) > Len(data(0))
    BY <1>5, <2>1, <2>2, <2>3 DEF Extends
  <2> QED
    BY <2>1, <2>2, <2>4
<1> QED
  BY <1>7, <1>16, <1>17 DEF c, e

(* A packet has the same length wherever it lies.                          *)
LEMMA LengthIsFixed ==
  ASSUME NEW packet, Packet(packet), NEW S, NEW p, NEW e, LiesPacket(S, p, packet, e),
         NEW S2, NEW p2, NEW e2, LiesPacket(S2, p2, packet, e2)
  PROVE  e - p = e2 - p2 /\ e > p /\ e2 > p2 /\ {p, e, p2, e2} \subseteq Nat
<1> DEFINE n == Len(packet)
<1>1. packet \in Seq(Seq(Char)) /\ n \in Nat /\ \A i \in 1..n : Len(packet[i]) \in Nat
  BY DEF Packet
<1>2. PICK at : Lies(S, at, packet) /\ at[1] = p /\ e = at[n + 1] + 1
  BY DEF LiesPacket
<1>3. PICK at2 : Lies(S2, at2, packet) /\ at2[1] = p2 /\ e2 = at2[n + 1] + 1
  BY DEF LiesPacket
<1> HIDE DEF n
<1>4. at \in [1..n + 1 -> Nat \ {0}] /\ \A i \in 1..n : at[i + 1] = at[i] + Len(packet[i]) + 3
  BY <1>2 DEF Lies, n
<1>5. at2 \in [1..n + 1 -> Nat \ {0}] /\ \A i \in 1..n : at2[i + 1] = at2[i] + Len(packet[i]) + 3
  BY <1>3 DEF Lies, n
<1> DEFINE T == {m \in Nat : m <= n => at[m + 1] - p = at2[m + 1] - p2 /\ at[m + 1] >= p /\ at2[m + 1] >= p2}
<1>6. 0 \in T
  BY <1>1, <1>2, <1>3, <1>4, <1>5
<1>7. ASSUME NEW m \in Nat, m \in T PROVE m + 1 \in T
  <2> SUFFICES ASSUME m + 1 <= n
               PROVE  /\ at[(m + 1) + 1] - p = at2[(m + 1) + 1] - p2
                      /\ at[(m + 1) + 1] >= p /\ at2[(m + 1) + 1] >= p2
    OBVIOUS
  <2>1. m + 1 \in 1..n /\ m + 1 \in 1..n + 1 /\ 1 \in 1..n + 1
    BY <1>1
  <2>2. /\ at[(m + 1) + 1] = at[m + 1] + Len(packet[m + 1]) + 3
        /\ at2[(m + 1) + 1] = at2[m + 1] + Len(packet[m + 1]) + 3
    BY <1>4, <1>5, <2>1
  <2>3. /\ at[m + 1] - p = at2[m + 1] - p2 /\ at[m + 1] >= p /\ at2[m + 1] >= p2
    BY <1>1, <1>7
  <2>4. at[m + 1] \in Nat /\ at2[m + 1] \in Nat /\ p \in Nat /\ p2 \in Nat /\ Len(packet[m + 1]) \in Nat
    BY <1>1, <1>2, <1>3, <1>4, <1>5, <2>1
  <2> DEFINE d == at[m + 1]
             d2 == at2[m + 1]
             l == Len(packet[m + 1])
  <2>5. at[(m + 1) + 1] = d + l + 3 /\ at2[(m + 1) + 1] = d2 + l + 3
    BY <2>2
  <2>6. d - p = d2 - p2 /\ d >= p /\ d2 >= p2 /\ {d, d2, p, p2, l} \subseteq Nat
    BY <2>3, <2>4
  <2> HIDE DEF d, d2, l
  <2>7. (d + l + 3) - p = (d2 + l + 3) - p2 /\ d + l + 3 >= p /\ d2 + l + 3 >= p2
    BY <2>6
  <2> QED
    BY <2>5, <2>7
<1>8. n \in T
  <2> HIDE DEF T
  <2> QED
    BY <1>1, <1>6, <1>7, Induction
<1>9. {p, at[n + 1], p2, at2[n + 1]} \subseteq Nat
  BY <1>1, <1>2, <1>3, <1>4, <1>5
<1> DEFINE d == at[n + 1]
           d2 == at2[n + 1]
<1>10. d - p = d2 - p2 /\ d >= p /\ d2 >= p2 /\ e = d + 1 /\ e2 = d2 + 1
  BY <1>1, <1>2, <1>3, <1>8
<1>11. p \in Nat /\ d \in Nat /\ p2 \in Nat /\ d2 \in Nat
  BY <1>9
<1> HIDE DEF d, d2
<1> QED
  BY <1>10, <1>11

-----------------------------------------------------------------------------
(* parse(). *)

LEMMA EolIsFirst ==
  ASSUME NEW s \in Seq(Char), NEW p \in 1..Len(s) + 1, LineEnds(s, p) # {}
  PROVE  Eol(s, p) \in p..Len(s) /\ s[Eol(s, p)] = NL /\ \A q \in p..Eol(s, p) - 1 : s[q] # NL
<1> DEFINE ends == LineEnds(s, p)
           eol == Eol(s, p)
<1>1. Len(s) \in Nat /\ ends \subseteq Nat /\ ends = {q \in p..Len(s) : s[q] = NL}
  BY DEF LineEnds
<1> HIDE DEF ends
<1>2. PICK q \in ends : \A r \in ends : ~ (r < q)
  BY <1>1, LeastExists DEF ends
<1>3. \A r \in ends : q <= r
  BY <1>1, <1>2
<1>4. eol = CHOOSE e \in ends : \A r \in ends : e <= r
  BY DEF Eol, ends
<1>5. eol \in ends /\ \A r \in ends : eol <= r
  BY <1>3, <1>4
<1> HIDE DEF eol
<1>6. \A r \in p..eol - 1 : s[r] # NL
  BY <1>1, <1>5
<1> QED
  BY <1>1, <1>5, <1>6 DEF eol

(* What is behind a record counts only if the record is complete.          *)
LEMMA FrontNeeds ==
  ASSUME NEW s \in Seq(Char), NEW p \in 1..Len(s) + 1, NEW x, NEW y,
         RecordEnd(s, p) + 1 \in p + 1..Len(s) + 1 => x = y
  PROVE  FrontAt(s, p, x) = FrontAt(s, p, y)
<1> DEFINE end == RecordEnd(s, p)
<1>1. CASE LineEnds(s, p) = {}
  BY <1>1 DEF FrontAt
<1>2. CASE Eol(s, p) = p
  BY <1>2 DEF FrontAt
<1>3. CASE s[p] \notin Digit
  BY <1>3 DEF FrontAt
<1>4. CASE end > Len(s)
  BY <1>4 DEF FrontAt
<1>5. CASE LineEnds(s, p) # {} /\ s[p] \in Digit /\ ~ (end > Len(s))
  <2>1. Eol(s, p) \in p..Len(s) /\ Len(s) \in Nat
    BY <1>5, EolIsFirst
  <2>2. end = Eol(s, p) + 1 + s[p] /\ s[p] \in Nat
    BY <1>5 DEF RecordEnd, BodyEnd, Digit
  <2> HIDE DEF end
  <2>3. end + 1 \in p + 1..Len(s) + 1
    BY <1>5, <2>1, <2>2
  <2> QED
    BY <2>3 DEF end
<1> QED
  BY <1>1, <1>2, <1>3, <1>4, <1>5

AreFronts(front, s, m) ==
  /\ front = [p \in m..Len(s) + 1 |-> front[p]]
  /\ \A p \in m..Len(s) + 1 : front[p] = FrontAt(s, p, front[RecordEnd(s, p) + 1])

LEMMA FrontsExist ==
  ASSUME NEW s \in Seq(Char) PROVE \E front : AreFronts(front, s, 1)
<1> DEFINE n == Len(s)
           T == {d \in Nat : d <= n + 1 => \E front : AreFronts(front, s, n + 2 - d)}
<1>1. n \in Nat
  OBVIOUS
<1> HIDE DEF n
<1>2. 0 \in T
  <2>1. AreFronts([p \in n + 2..n + 1 |-> NotReady], s, n + 2)
    BY <1>1 DEF AreFronts, n
  <2> QED
    BY <1>1, <2>1
<1>3. ASSUME NEW d \in Nat, d \in T PROVE d + 1 \in T
  <2> SUFFICES ASSUME d + 1 <= n + 1 PROVE \E front : AreFronts(front, s, n + 2 - (d + 1))
    OBVIOUS
  <2> DEFINE m == n + 2 - (d + 1)
  <2>1. PICK f : AreFronts(f, s, n + 2 - d)
    BY <1>1, <1>3
  <2>2. m \in 1..n + 1 /\ n + 2 - d = m + 1
    BY <1>1
  <2> HIDE DEF m
  <2> DEFINE top == FrontAt(s, m, f[RecordEnd(s, m) + 1])
             g == [p \in m..n + 1 |-> IF p = m THEN top ELSE f[p]]
  <2>3. ASSUME NEW p \in m..n + 1 PROVE g[p] = FrontAt(s, p, g[RecordEnd(s, p) + 1])
    <3> DEFINE next == RecordEnd(s, p) + 1
    <3>1. p \in 1..Len(s) + 1 /\ (next \in p + 1..n + 1 => f[next] = g[next])
      BY <1>1, <2>2 DEF n
    <3>2. FrontAt(s, p, f[next]) = FrontAt(s, p, g[next])
      <4> HIDE DEF g
      <4> QED
        BY <3>1, FrontNeeds DEF n
    <3>3. g[p] = FrontAt(s, p, f[next])
      <4>1. CASE p = m
        BY <4>1
      <4>2. CASE p # m
        <5>1. p \in m + 1..n + 1
          BY <1>1, <2>2, <4>2
        <5>2. f[p] = FrontAt(s, p, f[next])
          BY <2>1, <2>2, <5>1 DEF AreFronts, n
        <5>3. g[p] = f[p]
          BY <4>2
        <5> HIDE DEF g, next
        <5> QED
          BY <5>2, <5>3
      <4> QED
        BY <4>1, <4>2
    <3> HIDE DEF g, next
    <3> QED
      BY <3>2, <3>3 DEF next
  <2>4. AreFronts(g, s, m)
    <3>1. g = [p \in m..n + 1 |-> g[p]]
      OBVIOUS
    <3> HIDE DEF g
    <3> QED
      BY <2>3, <3>1 DEF AreFronts, n
  <2> HIDE DEF g
  <2> QED
    BY <2>4 DEF m
<1>4. n + 1 \in T
  <2> HIDE DEF T
  <2>1. \A d \in Nat : d \in T
    BY <1>2, <1>3, Induction
  <2> QED
    BY <1>1, <2>1
<1>5. PICK front : AreFronts(front, s, n + 2 - (n + 1))
  BY <1>1, <1>4
<1>6. n + 2 - (n + 1) = 1
  BY <1>1
<1> QED
  BY <1>5, <1>6

LEMMA FrontsUnfold ==
  ASSUME NEW s \in Seq(Char), NEW p \in 1..Len(s) + 1
  PROVE  Fronts(s)[p] = FrontAt(s, p, Fronts(s)[RecordEnd(s, p) + 1])
<1> DEFINE Is(g) == g = [q \in 1..Len(s) + 1 |-> FrontAt(s, q, g[RecordEnd(s, q) + 1])]
           front == Fronts(s)
<1>1. PICK f : AreFronts(f, s, 1)
  BY FrontsExist
<1>2. Is(f)
  BY <1>1 DEF AreFronts
<1>3. Is(front)
  <2>1. front = CHOOSE g : Is(g)
    BY DEF Fronts
  <2> HIDE DEF Is, front
  <2> QED
    BY <1>2, <2>1, Zenon
<1> HIDE DEF front
<1> QED
  BY <1>3 DEF front

(* s are the bytes of S behind the first c. *)
Window(s, S, c) ==
  /\ c + Len(s) <= Len(S)
  /\ \A j \in 1..Len(s) : s[j] = S[c + j]

LEMMA SamePart ==
  ASSUME NEW s \in Seq(Char), NEW r \in Seq(Char), NEW p \in Nat, p + Len(r) <= Len(s),
         \A j \in 1..Len(r) : s[p + j] = r[j]
  PROVE  SubSeq(s, p + 1, p + Len(r)) = r
<1> DEFINE part == SubSeq(s, p + 1, p + Len(r))
<1>1. Len(r) \in Nat /\ Len(s) \in Nat
  OBVIOUS
<1>2. part \in Seq(Char) /\ Len(part) = Len(r) /\ \A j \in 1..Len(r) : part[j] = s[p + j]
  <2>1. \A j \in p + 1..p + Len(r) : s[j] \in Char
    BY <1>1
  <2>2. /\ part \in Seq(Char)
        /\ Len(part) = IF p + 1 <= p + Len(r) THEN p + Len(r) - (p + 1) + 1 ELSE 0
        /\ \A j \in 1..p + Len(r) - (p + 1) + 1 : part[j] = s[(p + 1) + j - 1]
    <3>1. p + 1 \in Int /\ p + Len(r) \in Int
      BY <1>1
    <3> QED
      BY <2>1, <3>1, SubSeqProperties, SMTT(30)
  <2> HIDE DEF part
  <2>3. Len(part) = Len(r)
    BY <1>1, <2>2
  <2>4. ASSUME NEW j \in 1..Len(r) PROVE part[j] = s[p + j]
    <3>1. (p + 1) + j - 1 = p + j /\ j \in 1..p + Len(r) - (p + 1) + 1
      BY <1>1
    <3> QED
      BY <2>2, <3>1
  <2> QED
    BY <2>2, <2>3, <2>4
<1> HIDE DEF part
<1>3. \A j \in 1..Len(part) : part[j] = r[j]
  BY <1>1, <1>2
<1> QED
  BY <1>1, <1>2, <1>3, SeqEqual DEF part

(* What parse() makes of the record r at p.                                *)
ReadsRecord(s, p, r, rest) ==
  LET end == p + Len(r) + 2
  IN  /\ end > Len(s) => FrontAt(s, p, rest) = NotReady
      /\ end <= Len(s) =>
           /\ RecordEnd(s, p) = end
           /\ FrontAt(s, p, rest) =
                IF end > MaxPacketSize THEN BadFormat
                ELSE IF rest.result # "packet" THEN rest
                ELSE [rest EXCEPT !.records = <<r>> \o rest.records]

LEMMA FrontOfRecord ==
  ASSUME NEW s \in Seq(Char), NEW S \in Seq(Char), NEW c \in Nat, Window(s, S, c),
         NEW p \in 1..Len(s) + 1, NEW r \in Seq(Char), Len(r) \in Digit, LiesRecord(S, c + p, r),
         NEW rest
  PROVE  ReadsRecord(s, p, r, rest)
<1> DEFINE end == p + Len(r) + 2
           n == Len(s)
           l == Len(r)
<1> SUFFICES /\ end > Len(s) => FrontAt(s, p, rest) = NotReady
             /\ end <= Len(s) =>
                  /\ RecordEnd(s, p) = end
                  /\ FrontAt(s, p, rest) =
                       IF end > MaxPacketSize THEN BadFormat
                       ELSE IF rest.result # "packet" THEN rest
                       ELSE [rest EXCEPT !.records = <<r>> \o rest.records]
  BY Zenon DEF ReadsRecord
<1>1. n \in Nat /\ l \in Nat /\ l \in Digit /\ l # NL /\ p \in Nat
  <2>1. n \in Nat /\ l \in Nat
    OBVIOUS
  <2>2. l # NL
    <3>1. \A x \in Digit : x # NL
      BY DEF Digit, NL
    <3>2. l \in Digit
      OBVIOUS
    <3> QED
      BY <3>1, <3>2
  <2> HIDE DEF n
  <2>3. p \in Nat
    BY <2>1 DEF n
  <2> QED
    BY <2>1, <2>2, <2>3
<1>2. /\ c + p + l + 2 <= Len(S)
      /\ S[c + p] = l /\ S[c + p + 1] = NL /\ S[c + p + 2 + l] = NL
      /\ \A j \in 1..l : S[c + p + 1 + j] = r[j]
  BY DEF LiesRecord
<1>3. \A j \in 1..n : s[j] = S[c + j]
  BY DEF Window
<1> HIDE DEF n, l
<1>4. p <= n => s[p] = l
  BY <1>1, <1>2, <1>3
<1>5. p + 1 <= n => s[p + 1] = NL
  <2> SUFFICES ASSUME p + 1 <= n PROVE s[p + 1] = NL
    OBVIOUS
  <2>1. s[p + 1] = S[c + (p + 1)] /\ c + (p + 1) = c + p + 1
    BY <1>1, <1>3
  <2> QED
    BY <1>2, <2>1
<1>6. CASE p + 1 > n
  <2>1. LineEnds(s, p) = {}
    BY <1>1, <1>4, <1>6 DEF LineEnds, n
  <2>2. FrontAt(s, p, rest) = NotReady
    BY <2>1 DEF FrontAt
  <2>3. end > n
    BY <1>1, <1>6 DEF l
  <2> QED
    BY <1>1, <2>2, <2>3 DEF n
<1>7. CASE p + 1 <= n
  <2>1. LineEnds(s, p) # {}
    <3>1. p + 1 \in LineEnds(s, p)
      BY <1>1, <1>5, <1>7 DEF LineEnds, n
    <3> QED
      BY <3>1
  <2>2. Eol(s, p) \in p..n /\ s[Eol(s, p)] = NL /\ \A q \in p..Eol(s, p) - 1 : s[q] # NL
    BY <2>1, EolIsFirst DEF n
  <2>3. Eol(s, p) = p + 1
    <3>1. Eol(s, p) # p
      BY <1>1, <1>4, <1>7, <2>2
    <3>2. ~ (Eol(s, p) > p + 1)
      BY <1>1, <1>5, <1>7, <2>2
    <3> QED
      BY <1>1, <2>2, <3>1, <3>2
  <2>4. RecordEnd(s, p) = end
    BY <1>1, <1>4, <1>7, <2>3 DEF RecordEnd, BodyEnd, l
  <2>5. s[p] \in Digit /\ Eol(s, p) # p
    BY <1>1, <1>4, <1>7, <2>3
  <2>6. CASE end > n
    <3>1. FrontAt(s, p, rest) = NotReady
      BY <2>1, <2>4, <2>5, <2>6 DEF FrontAt, n
    <3> QED
      BY <1>1, <2>6, <3>1 DEF n, l
  <2>7. CASE end <= n
    <3>1. s[end] = NL
      <4>1. s[end] = S[c + end] /\ c + end = c + p + 2 + l
        BY <1>1, <1>3, <2>7 DEF l
      <4> QED
        BY <1>2, <4>1
    <3>2. SubSeq(s, Eol(s, p) + 1, end - 1) = r
      <4>1. \A j \in 1..l : s[(p + 1) + j] = r[j]
        <5> TAKE j \in 1..l
        <5>1. (p + 1) + j \in 1..n /\ c + ((p + 1) + j) = c + p + 1 + j
          BY <1>1, <2>7 DEF l
        <5>2. s[(p + 1) + j] = S[c + ((p + 1) + j)]
          BY <1>3, <5>1
        <5> QED
          BY <1>2, <5>1, <5>2
      <4>2. p + 1 \in Nat /\ (p + 1) + l <= n
        BY <1>1, <2>7 DEF l
      <4>3. SubSeq(s, (p + 1) + 1, (p + 1) + l) = r
        BY <4>1, <4>2, SamePart DEF n, l
      <4>4. end - 1 = (p + 1) + l
        BY <1>1 DEF l
      <4> QED
        BY <2>3, <4>3, <4>4
    <3>3. FrontAt(s, p, rest) =
            IF end > MaxPacketSize THEN BadFormat
            ELSE IF rest.result # "packet" THEN rest
            ELSE [rest EXCEPT !.records = <<r>> \o rest.records]
      <4>1. ~ (end > n)
        BY <1>1, <2>7 DEF l
      <4> QED
        BY <2>1, <2>4, <2>5, <3>1, <3>2, <4>1 DEF FrontAt, n
    <3>4. ~ (end > n)
      BY <1>1, <2>7 DEF l
    <3> QED
      BY <2>4, <3>3, <3>4 DEF n
  <2>8. end \in Nat
    BY <1>1 DEF l
  <2> QED
    BY <1>1, <2>6, <2>7, <2>8
<1> QED
  BY <1>1, <1>6, <1>7

(* What parse() makes of an empty line. *)
LEMMA FrontOfEnd ==
  ASSUME NEW s \in Seq(Char), NEW p \in 1..Len(s) + 1, p <= Len(s) => s[p] = NL, NEW rest
  PROVE  FrontAt(s, p, rest) =
           IF p <= Len(s) THEN [result |-> "packet", records |-> <<>>, used |-> p] ELSE NotReady
<1>1. Len(s) \in Nat
  OBVIOUS
<1>2. CASE p <= Len(s)
  <2>1. p \in LineEnds(s, p)
    BY <1>1, <1>2 DEF LineEnds
  <2>2. LineEnds(s, p) # {}
    BY <2>1
  <2>3. Eol(s, p) = p
    BY <1>1, <1>2, <2>2, EolIsFirst
  <2> QED
    BY <1>2, <2>2, <2>3 DEF FrontAt
<1>3. CASE p > Len(s)
  <2>1. LineEnds(s, p) = {} /\ ~ (p <= Len(s))
    BY <1>1, <1>3 DEF LineEnds
  <2> QED
    BY <2>1 DEF FrontAt
<1> QED
  BY <1>1, <1>2, <1>3

LEMMA StartIsFirst ==
  ASSUME NEW s \in Seq(Char), NEW p \in 1..Len(s) + 1,
         p <= Len(s) => s[p] # NL, \A q \in 1..p - 1 : s[q] = NL
  PROVE  Start(s) = p
<1> DEFINE First(x) == (x <= Len(s) => s[x] # NL) /\ \A q \in 1..x - 1 : s[q] = NL
           start == Start(s)
<1>1. Len(s) \in Nat
  OBVIOUS
<1>2. start = CHOOSE x \in 1..Len(s) + 1 : First(x)
  BY DEF Start
<1>3. start \in 1..Len(s) + 1 /\ First(start)
  <2>1. First(p)
    OBVIOUS
  <2> HIDE DEF First, start
  <2> QED
    BY <1>2, <2>1
<1> HIDE DEF start
<1>4. ~ (start < p)
  BY <1>1, <1>3
<1>5. ~ (p < start)
  BY <1>1, <1>3
<1> QED
  BY <1>1, <1>3, <1>4, <1>5 DEF start

(* What parse() may make of records that lie in S up to the empty line at  *)
(* last: the packet if it has all of it, an error only if it is too long.  *)
Outcome(s, front, records, last) ==
  \/ last <= Len(s) /\ front = [result |-> "packet", records |-> records, used |-> last]
  \/ last > Len(s) /\ front = NotReady
  \/ last > MaxPacketSize /\ front = BadFormat

LEMMA InFront ==
  ASSUME NEW X, NEW x \in X, NEW t \in Seq(X)
  PROVE  /\ <<x>> \o t \in Seq(X) /\ Len(<<x>> \o t) = Len(t) + 1 /\ (<<x>> \o t)[1] = x
         /\ \A j \in 1..Len(t) : (<<x>> \o t)[j + 1] = t[j]
  OBVIOUS

LEMMA RestOfPacket ==
  ASSUME NEW packet, Packet(packet), NEW i \in 1..Len(packet)
  PROVE  <<packet[i]>> \o SubSeq(packet, i + 1, Len(packet)) = SubSeq(packet, i, Len(packet))
<1> DEFINE n == Len(packet)
           rest == SubSeq(packet, i + 1, n)
           both == SubSeq(packet, i, n)
<1>1. packet \in Seq(Seq(Char)) /\ n \in Nat /\ i \in Nat /\ i >= 1 /\ i <= n
  BY DEF Packet
<1>2. rest \in Seq(Seq(Char)) /\ Len(rest) = n - i /\ \A j \in 1..n - i : rest[j] = packet[i + j]
  BY <1>1
<1>3. both \in Seq(Seq(Char)) /\ Len(both) = n - i + 1 /\ \A j \in 1..n - i + 1 : both[j] = packet[i + j - 1]
  BY <1>1
<1>4. packet[i] \in Seq(Char)
  BY <1>1
<1> HIDE DEF rest, both, n
<1> DEFINE front == <<packet[i]>> \o rest
<1>5. /\ front \in Seq(Seq(Char)) /\ Len(front) = Len(rest) + 1 /\ front[1] = packet[i]
      /\ \A j \in 1..Len(rest) : front[j + 1] = rest[j]
  BY <1>2, <1>4, InFront
<1>6. Len(front) = n - i + 1 /\ \A j \in 1..n - i : front[j + 1] = rest[j]
  BY <1>1, <1>2, <1>5
<1> HIDE DEF front
<1>7. ASSUME NEW j \in 1..Len(front) PROVE front[j] = both[j]
  <2>1. CASE j = 1
    <3>1. both[1] = packet[i + 1 - 1] /\ i + 1 - 1 = i
      BY <1>1, <1>3
    <3> QED
      BY <1>5, <2>1, <3>1
  <2>2. CASE j # 1
    <3>1. j - 1 \in 1..n - i /\ (j - 1) + 1 = j /\ i + (j - 1) = i + j - 1 /\ j \in 1..n - i + 1
      BY <1>1, <1>6, <2>2
    <3>2. front[(j - 1) + 1] = rest[j - 1]
      BY <1>6, <3>1
    <3>3. rest[j - 1] = packet[i + (j - 1)]
      BY <1>2, <3>1
    <3>4. both[j] = packet[i + j - 1]
      BY <1>3, <3>1
    <3> QED
      BY <3>1, <3>2, <3>3, <3>4
  <2> QED
    BY <2>1, <2>2
<1>8. front = both
  BY <1>3, <1>5, <1>6, <1>7, SeqEqual
<1> QED
  BY <1>8 DEF front, both, rest, n

LEMMA ParseOfPacket ==
  ASSUME NEW s \in Seq(Char), NEW S \in Seq(Char), NEW c \in Nat, Window(s, S, c),
         NEW packet, Packet(packet), NEW p \in 1..Len(s) + 1, NEW e, LiesPacket(S, c + p, packet, e)
  PROVE  Outcome(s, Fronts(s)[p], packet, e - 1 - c)
<1> DEFINE n == Len(packet)
           l == Len(s)
           front == Fronts(s)
<1>1. packet \in Seq(Seq(Char)) /\ n \in Nat /\ l \in Nat
      /\ \A i \in 1..n : packet[i] \in Seq(Char) /\ Len(packet[i]) \in Digit /\ Len(packet[i]) \in Nat
  BY DEF Packet
<1>2. PICK at : Lies(S, at, packet) /\ at[1] = c + p /\ e = at[n + 1] + 1
  BY DEF LiesPacket
<1>3. /\ at \in [1..n + 1 -> Nat \ {0}]
      /\ \A i \in 1..n : LiesRecord(S, at[i], packet[i]) /\ at[i + 1] = at[i] + Len(packet[i]) + 3
      /\ at[n + 1] <= Len(S) /\ S[at[n + 1]] = NL
  BY <1>2 DEF Lies
<1>4. /\ \A j \in 1..l : s[j] = S[c + j]
      /\ c + l <= Len(S)
  BY DEF Window
<1>5. \A q \in 1..l + 1 : front[q] = FrontAt(s, q, front[RecordEnd(s, q) + 1])
  BY FrontsUnfold
<1> HIDE DEF n, l, front
<1> DEFINE part(i) == SubSeq(packet, i, n)
           last == at[n + 1] - c
           P(i) == /\ at[i] <= at[n + 1]
                   /\ at[i] - c \in 1..l + 1 => Outcome(s, front[at[i] - c], part(i), last)
           T == {d \in Nat : d <= n => P(n + 1 - d)}
<1>6. 0 \in T
  <2>1. n + 1 - 0 = n + 1
    BY <1>1
  <2> SUFFICES P(n + 1)
    BY <2>1
  <2>2. at[n + 1] \in Nat
    BY <1>1, <1>3
  <2>3. ASSUME last \in 1..l + 1 PROVE Outcome(s, front[last], part(n + 1), last)
    <3>1. c + last = at[n + 1]
      BY <2>2
    <3> HIDE DEF last
    <3>2. last <= l => s[last] = NL
      <4>1. last <= l => last \in 1..l
        BY <1>1, <2>3
      <4>2. last <= l => s[last] = S[c + last]
        BY <1>4, <4>1
      <4> QED
        BY <1>3, <3>1, <4>2
    <3>3. front[last] = IF last <= l THEN [result |-> "packet", records |-> <<>>, used |-> last] ELSE NotReady
      BY <1>5, <2>3, <3>2, FrontOfEnd DEF l
    <3>4. part(n + 1) = <<>>
      BY <1>1 DEF n
    <3> HIDE DEF part
    <3>5. last <= l \/ last > l
      BY <1>1, <2>3
    <3> QED
      BY <3>3, <3>4, <3>5 DEF Outcome, l
  <2> QED
    BY <2>2, <2>3
<1>7. ASSUME NEW d \in Nat, d \in T PROVE d + 1 \in T
  <2> SUFFICES ASSUME d + 1 <= n PROVE P(n + 1 - (d + 1))
    OBVIOUS
  <2> DEFINE i == n + 1 - (d + 1)
  <2>1. i \in 1..n /\ i + 1 = n + 1 - d /\ i \in 1..n + 1 /\ i + 1 \in 1..n + 1
    BY <1>1
  <2>2. P(i + 1)
    BY <1>1, <1>7, <2>1
  <2> HIDE DEF i
  <2> DEFINE r == packet[i]
             q == at[i] - c
             end == q + Len(r) + 2
  <2>3. r \in Seq(Char) /\ Len(r) \in Digit /\ Len(r) \in Nat
    BY <1>1, <2>1
  <2>4. at[i] \in Nat /\ at[i + 1] \in Nat /\ at[n + 1] \in Nat /\ at[i + 1] = at[i] + Len(r) + 3
    BY <1>1, <1>3, <2>1
  <2>5. at[i] <= at[n + 1]
    BY <2>2, <2>3, <2>4
  <2> DEFINE a == at[i]
             b == at[i + 1]
             z == at[n + 1]
             m == Len(r)
  <2>11. {a, b, z, m} \subseteq Nat /\ b = a + m + 3 /\ b <= z
    BY <2>2, <2>3, <2>4
  <2> HIDE DEF a, b, z, m
  <2>6. q \in Int /\ last \in Int /\ end \in Int /\ at[i + 1] - c = end + 1 /\ end + 1 <= last /\ c + q = at[i] /\ end > q
    <3>1. q = a - c /\ end = q + m + 2 /\ last = z - c
      BY DEF a, z, m
    <3>2. at[i + 1] = b /\ at[i] = a
      BY DEF a, b
    <3>3. a \in Nat /\ b \in Nat /\ z \in Nat /\ m \in Nat
      BY <2>11
    <3> HIDE DEF q, end, last
    <3>4. q \in Int /\ last \in Int /\ c + q = a
      BY <3>1, <3>3
    <3>5. end \in Int /\ b - c = end + 1 /\ end > q
      BY <2>11, <3>1, <3>3, <3>4
    <3>6. end + 1 <= last
      BY <2>11, <3>1, <3>3, <3>5
    <3> QED
      BY <3>2, <3>4, <3>5, <3>6
  <2>7. LiesRecord(S, c + q, r)
    BY <1>3, <2>1, <2>6
  <2>8. part(i) = <<r>> \o part(i + 1)
    BY <2>1, RestOfPacket DEF n
  <2>9. end + 1 \in 1..l + 1 => Outcome(s, front[end + 1], part(i + 1), last)
    BY <2>2, <2>6
  <2> HIDE DEF q, r, end, last, part
  <2>10. ASSUME q \in 1..l + 1 PROVE Outcome(s, front[q], part(i), last)
    <3> DEFINE rest == front[RecordEnd(s, q) + 1]
    <3>1. front[q] = FrontAt(s, q, rest)
      BY <1>5, <2>10
    <3>2. /\ end > l => FrontAt(s, q, rest) = NotReady
          /\ end <= l =>
               /\ RecordEnd(s, q) = end
               /\ FrontAt(s, q, rest) =
                    IF end > MaxPacketSize THEN BadFormat
                    ELSE IF rest.result # "packet" THEN rest
                    ELSE [rest EXCEPT !.records = <<r>> \o rest.records]
      <4>1. q \in 1..Len(s) + 1
        BY <2>10 DEF l
      <4> HIDE DEF rest
      <4>2. ReadsRecord(s, q, r, rest)
        BY <2>3, <2>7, <4>1, FrontOfRecord
      <4> QED
        BY <4>2 DEF ReadsRecord, end, l
    <3>3. CASE end > l
      <4>1. last > l
        BY <1>1, <2>6, <3>3
      <4> QED
        BY <3>1, <3>2, <3>3, <4>1 DEF Outcome, l
    <3>4. CASE end <= l
      <4>1. rest = front[end + 1]
        BY <3>2, <3>4
      <4>2. end + 1 \in 1..l + 1
        BY <1>1, <2>6, <2>10, <3>4
      <4>3. Outcome(s, rest, part(i + 1), last)
        BY <2>9, <4>1, <4>2
      <4>4. front[q] = IF end > MaxPacketSize THEN BadFormat
                       ELSE IF rest.result # "packet" THEN rest
                       ELSE [rest EXCEPT !.records = <<r>> \o rest.records]
        BY <3>1, <3>2, <3>4
      <4> HIDE DEF rest
      <4>5. CASE end > MaxPacketSize
        <5>1. last > MaxPacketSize
          BY <2>6, <4>5, LinkAssumption
        <5>2. front[q] = BadFormat
          BY <4>4, <4>5
        <5> QED
          BY <5>1, <5>2 DEF Outcome
      <4>6. CASE ~ (end > MaxPacketSize)
        <5>1. CASE rest = [result |-> "packet", records |-> part(i + 1), used |-> last] /\ last <= Len(s)
          <6>1. rest.result = "packet"
            BY <5>1
          <6>2. front[q] = [rest EXCEPT !.records = <<r>> \o rest.records]
            BY <4>4, <4>6, <6>1
          <6>3. front[q] = [result |-> "packet", records |-> <<r>> \o part(i + 1), used |-> last]
            BY <5>1, <6>2
          <6> QED
            BY <2>8, <5>1, <6>3 DEF Outcome
        <5>3. CASE \/ rest = NotReady /\ last > Len(s)
                   \/ rest = BadFormat /\ last > MaxPacketSize
          <6>1. rest.result # "packet"
            <7>1. NotReady.result = "not ready" /\ BadFormat.result = "error"
              BY DEF NotReady, BadFormat
            <7> HIDE DEF rest
            <7> QED
              BY <5>3, <7>1
          <6>2. front[q] = rest
            BY <4>4, <4>6, <6>1
          <6> QED
            BY <5>3, <6>2 DEF Outcome
        <5> QED
          BY <4>3, <5>1, <5>3 DEF Outcome
      <4> QED
        BY <4>5, <4>6
    <3> QED
      BY <1>1, <2>6, <3>3, <3>4
  <2> QED
    BY <2>5, <2>10 DEF i, q
<1>8. n \in T
  <2> HIDE DEF T
  <2> QED
    BY <1>1, <1>6, <1>7, Induction
<1>9. P(1)
  <2>1. n + 1 - n = 1
    BY <1>1
  <2> QED
    BY <1>1, <1>8, <2>1
<1>10. part(1) = packet
  BY <1>1 DEF n
<1>11. at[1] - c = p /\ e - 1 - c = last
  BY <1>1, <1>2, <1>3
<1>12. p \in 1..l + 1
  BY DEF l
<1> HIDE DEF part, last
<1> QED
  BY <1>9, <1>10, <1>11, <1>12 DEF front

-----------------------------------------------------------------------------
(* How the packets of s lie in S, one behind the other: s[i] begins at     *)
(* pos[i].                                                                 *)
LiesAll(S, pos, s) ==
  /\ pos \in [1..Len(s) + 1 -> Nat \ {0}]
  /\ pos[1] = 1 /\ pos[Len(s) + 1] = Len(S) + 1
  /\ \A i \in 1..Len(s) : LiesPacket(S, pos[i], s[i], pos[i + 1])

LEMMA PositionsGrow ==
  ASSUME NEW s \in Seq(Packets), NEW S, NEW pos, LiesAll(S, pos, s),
         NEW i \in 1..Len(s) + 1, NEW j \in 1..Len(s) + 1, i <= j
  PROVE  pos[i] <= pos[j]
<1> DEFINE n == Len(s)
           T == {m \in Nat : i + m <= n + 1 => pos[i] <= pos[i + m]}
<1>1. n \in Nat /\ \A m \in 1..n : Packet(s[m])
  BY PacketsArePackets
<1>2. pos \in [1..n + 1 -> Nat \ {0}] /\ \A m \in 1..n : LiesPacket(S, pos[m], s[m], pos[m + 1])
  BY DEF LiesAll
<1>3. ASSUME NEW m \in 1..n PROVE pos[m + 1] > pos[m]
  BY <1>1, <1>2, LengthIsFixed
<1> HIDE DEF n
<1>4. i \in Nat /\ j \in Nat /\ i \in 1..n + 1 /\ j \in 1..n + 1
  BY <1>1 DEF n
<1>5. 0 \in T
  BY <1>2, <1>4
<1>6. ASSUME NEW m \in Nat, m \in T PROVE m + 1 \in T
  <2> SUFFICES ASSUME i + (m + 1) <= n + 1 PROVE pos[i] <= pos[i + (m + 1)]
    OBVIOUS
  <2>1. i + m \in 1..n /\ (i + m) + 1 = i + (m + 1) /\ i + m \in 1..n + 1 /\ i + (m + 1) \in 1..n + 1
    BY <1>1, <1>4
  <2>2. pos[i] <= pos[i + m]
    BY <1>1, <1>4, <1>6, <2>1
  <2>3. pos[i + (m + 1)] > pos[i + m]
    BY <1>3, <2>1
  <2>4. pos[i] \in Nat /\ pos[i + m] \in Nat /\ pos[i + (m + 1)] \in Nat
    BY <1>2, <1>4, <2>1
  <2> QED
    BY <2>2, <2>3, <2>4
<1>7. \A m \in Nat : m \in T
  <2> HIDE DEF T
  <2> QED
    BY <1>5, <1>6, Induction
<1>8. j - i \in Nat /\ i + (j - i) = j /\ j - i \in T
  BY <1>4, <1>7
<1> QED
  BY <1>4, <1>8

(* Packets without records are empty lines. *)
LEMMA EmptyLines ==
  ASSUME NEW s \in Seq(Packets), NEW S \in Seq(Char), NEW pos, LiesAll(S, pos, s),
         NEW k \in 0..Len(s), NEW m \in k + 1..Len(s) + 1,
         \A i \in k + 1..m - 1 : s[i] = <<>>
  PROVE  pos[m] = pos[k + 1] + (m - 1 - k) /\ \A j \in pos[k + 1]..pos[m] - 1 : S[j] = NL
<1> DEFINE n == Len(s)
           first == pos[k + 1]
           Blank(x) == \A j \in first..x - 1 : S[j] = NL
           T == {d \in Nat : k + 1 + d <= m => pos[k + 1 + d] = first + d /\ Blank(first + d)}
<1>1. n \in Nat /\ k \in Nat /\ m \in Nat /\ k <= n /\ m <= n + 1 /\ k + 1 <= m
  OBVIOUS
<1>2. pos \in [1..n + 1 -> Nat \ {0}] /\ \A i \in 1..n : LiesPacket(S, pos[i], s[i], pos[i + 1])
  BY DEF LiesAll
<1> HIDE DEF n
<1>3. first \in Nat \ {0}
  BY <1>1, <1>2
<1>4. ASSUME NEW i \in k + 1..m - 1 PROVE pos[i + 1] = pos[i] + 1 /\ S[pos[i]] = NL
  <2>1. i \in 1..n /\ s[i] = <<>>
    BY <1>1
  <2>2. LiesPacket(S, pos[i], <<>>, pos[i + 1])
    BY <1>2, <2>1
  <2>3. PICK at : Lies(S, at, <<>>) /\ at[1] = pos[i] /\ pos[i + 1] = at[0 + 1] + 1
    BY <2>2 DEF LiesPacket
  <2>4. S[at[0 + 1]] = NL
    BY <2>3 DEF Lies
  <2> QED
    BY <2>3, <2>4
<1> HIDE DEF first
<1>5. 0 \in T
  <2>1. k + 1 + 0 = k + 1 /\ first + 0 = first /\ pos[k + 1 + 0] = first + 0
    BY <1>1, <1>3 DEF first
  <2>2. Blank(first + 0)
    BY <1>3
  <2> HIDE DEF Blank
  <2> QED
    BY <2>1, <2>2
<1>6. ASSUME NEW d \in Nat, d \in T PROVE d + 1 \in T
  <2> SUFFICES ASSUME k + 1 + (d + 1) <= m
               PROVE  pos[k + 1 + (d + 1)] = first + (d + 1) /\ Blank(first + (d + 1))
    <3> HIDE DEF Blank
    <3> QED
      OBVIOUS
  <2>1. k + 1 + d \in k + 1..m - 1 /\ k + 1 + (d + 1) = (k + 1 + d) + 1 /\ k + 1 + d <= m
    BY <1>1
  <2>2. pos[k + 1 + d] = first + d /\ Blank(first + d)
    <3> HIDE DEF Blank
    <3> QED
      BY <1>6, <2>1
  <2>3. pos[(k + 1 + d) + 1] = pos[k + 1 + d] + 1 /\ S[pos[k + 1 + d]] = NL
    BY <1>4, <2>1
  <2>4. pos[k + 1 + (d + 1)] = first + (d + 1)
    <3> HIDE DEF Blank
    <3>1. pos[k + 1 + (d + 1)] = (first + d) + 1
      BY <2>1, <2>2, <2>3
    <3> QED
      BY <1>3, <3>1
  <2>5. S[first + d] = NL
    BY <2>2, <2>3, Zenon
  <2>6. ASSUME NEW j \in first..(first + (d + 1)) - 1 PROVE S[j] = NL
    <3>1. j = first + d \/ j \in first..(first + d) - 1
      BY <1>3
    <3>2. \A x \in first..(first + d) - 1 : S[x] = NL
      BY <2>2
    <3> QED
      BY <2>5, <3>1, <3>2, Zenon
  <2>7. Blank(first + (d + 1))
    BY <2>6
  <2> HIDE DEF Blank
  <2> QED
    BY <2>4, <2>7
<1>7. \A d \in Nat : d \in T
  <2> HIDE DEF T
  <2> QED
    BY <1>5, <1>6, Induction
<1> DEFINE d == m - 1 - k
<1>8. d \in Nat /\ k + 1 + d = m
  BY <1>1
<1> HIDE DEF d
<1>9. d \in T
  <2> HIDE DEF T
  <2> QED
    BY <1>7, <1>8
<1>10. pos[m] = first + d /\ Blank(first + d)
  <2>1. k + 1 + d <= m
    BY <1>1, <1>8
  <2> HIDE DEF Blank
  <2>2. pos[k + 1 + d] = first + d /\ Blank(first + d)
    BY <1>9, <2>1
  <2> QED
    BY <1>8, <2>2, Zenon
<1>11. pos[m] = first + d /\ Blank(pos[m])
  <2> HIDE DEF Blank
  <2> QED
    BY <1>10, Zenon
<1> QED
  BY <1>11 DEF first, d

(* Where a packet lies. *)
LEMMA PacketWithin ==
  ASSUME NEW packet, Packet(packet), NEW S, NEW p, NEW e, LiesPacket(S, p, packet, e), Len(S) \in Nat
  PROVE  p \in Nat \ {0} /\ p < e /\ e \in Nat /\ e <= Len(S) + 1
<1>1. p < e /\ {p, e} \subseteq Nat
  BY LengthIsFixed
<1>2. PICK at : Lies(S, at, packet) /\ at[1] = p /\ e = at[Len(packet) + 1] + 1
  BY DEF LiesPacket
<1>3. at[Len(packet) + 1] <= Len(S) /\ 1 \in 1..Len(packet) + 1 /\ Len(packet) + 1 \in 1..Len(packet) + 1
  BY <1>2 DEF Lies, Packet
<1>4. at[1] \in Nat \ {0} /\ at[Len(packet) + 1] \in Nat
  BY <1>2, <1>3 DEF Lies
<1> QED
  BY <1>1, <1>2, <1>3, <1>4

(* A packet with records begins with a length. *)
LEMMA PacketBegins ==
  ASSUME NEW packet, Packet(packet), packet # <<>>, NEW S, NEW p, NEW e, LiesPacket(S, p, packet, e)
  PROVE  S[p] # NL
<1>1. packet \in Seq(Seq(Char)) /\ 1 \in 1..Len(packet) /\ Len(packet[1]) \in Digit
  BY DEF Packet
<1>2. PICK at : Lies(S, at, packet) /\ at[1] = p
  BY DEF LiesPacket
<1>3. S[p] = Len(packet[1])
  BY <1>1, <1>2 DEF Lies, LiesRecord
<1>4. \A x \in Digit : x # NL
  BY DEF Digit, NL
<1> QED
  BY <1>1, <1>3, <1>4

(* parse() skips the empty packets behind the first c bytes, and returns   *)
(* the next one, if it is there and not too long.                          *)
LEMMA ParsedPacket ==
  ASSUME NEW s \in Seq(Packets), NEW S \in Seq(Char), NEW pos, LiesAll(S, pos, s),
         NEW k \in 0..Len(s), NEW m \in k + 1..Len(s),
         \A i \in k + 1..m - 1 : s[i] = <<>>, s[m] # <<>>,
         NEW data \in Seq(Char), Window(data, S, pos[k + 1] - 1)
  PROVE  Outcome(data, Parsed(data), s[m], pos[m + 1] - pos[k + 1])
<1> DEFINE n == Len(s)
           l == Len(data)
           c == pos[k + 1] - 1
           p == pos[m] - c
           e == pos[m + 1]
<1>1. n \in Nat /\ l \in Nat /\ k \in Nat /\ m \in Nat /\ k < m /\ m <= n
      /\ m \in 1..n /\ m \in 1..n + 1 /\ m + 1 \in 1..n + 1 /\ k + 1 \in 1..n + 1 /\ m \in k + 1..n + 1
  OBVIOUS
<1>2. pos \in [1..n + 1 -> Nat \ {0}] /\ LiesPacket(S, pos[m], s[m], pos[m + 1])
  BY <1>1 DEF LiesAll
<1>3. Packet(s[m])
  BY PacketsArePackets
<1>4. pos[m] = pos[k + 1] + (m - 1 - k) /\ \A j \in pos[k + 1]..pos[m] - 1 : S[j] = NL
  BY <1>1, EmptyLines
<1>5. pos[m] < pos[m + 1] /\ S[pos[m]] # NL
  BY <1>2, <1>3, PacketWithin, PacketBegins
<1>6. /\ pos[k + 1] \in Nat \ {0} /\ pos[m] \in Nat \ {0} /\ e \in Nat
      /\ pos[k + 1] <= pos[m]
  <2>1. pos[k + 1] \in Nat \ {0} /\ pos[m] \in Nat \ {0} /\ e \in Nat
    BY <1>1, <1>2
  <2>2. m - 1 - k \in Nat
    BY <1>1
  <2> QED
    BY <1>4, <2>1, <2>2
<1>7. c \in Nat /\ p \in Nat \ {0} /\ c + p = pos[m] /\ e > c + p /\ e - 1 - c = e - pos[k + 1]
  <2> DEFINE a == pos[k + 1]
             b == pos[m]
             z == pos[m + 1]
  <2>1. a \in Nat \ {0} /\ b \in Nat \ {0} /\ z \in Nat /\ a <= b /\ b < z
    BY <1>5, <1>6
  <2> HIDE DEF a, b, z
  <2>2. a - 1 \in Nat /\ b - (a - 1) \in Nat \ {0} /\ (a - 1) + (b - (a - 1)) = b /\ z - 1 - (a - 1) = z - a
    BY <2>1
  <2> QED
    BY <2>1, <2>2 DEF a, b, z
<1>8. \A j \in 1..l : data[j] = S[c + j]
  BY DEF Window
<1>9. ASSUME NEW j \in 1..p - 1, j <= l PROVE data[j] = NL
  <2> DEFINE a == pos[k + 1]
             b == pos[m]
  <2>3. a \in Nat \ {0} /\ b \in Nat \ {0} /\ p = b - (a - 1) /\ c = a - 1
    BY <1>6
  <2> HIDE DEF a, b, p, c
  <2>4. c + j \in a..b - 1 /\ j \in 1..l
    BY <1>1, <1>9, <2>3
  <2>1. c + j \in pos[k + 1]..pos[m] - 1 /\ j \in 1..l
    BY <2>4 DEF a, b
  <2>2. data[j] = S[c + j]
    BY <1>8, <2>1
  <2> QED
    BY <1>4, <2>1, <2>2
<1> HIDE DEF n, l, p, e
<1>10. CASE p <= l
  <2>1. p \in 1..l + 1 /\ p \in 1..l
    BY <1>1, <1>7, <1>10
  <2>2. data[p] = S[c + p]
    BY <1>8, <2>1
  <2>3. data[p] # NL
    BY <1>5, <1>7, <2>2
  <2>4. \A j \in 1..p - 1 : data[j] = NL
    <3> TAKE j \in 1..p - 1
    <3>1. j <= l
      BY <1>1, <1>7, <1>10
    <3> QED
      BY <1>9, <3>1
  <2>5. Start(data) = p
    BY <2>1, <2>3, <2>4, StartIsFirst DEF l
  <2>6. LiesPacket(S, c + p, s[m], e)
    BY <1>2, <1>7 DEF e
  <2>7. Window(data, S, c)
    OBVIOUS
  <2> HIDE DEF c
  <2>8. Outcome(data, Fronts(data)[p], s[m], e - 1 - c)
    BY <1>3, <1>7, <2>1, <2>6, <2>7, ParseOfPacket DEF l
  <2> QED
    BY <1>7, <2>5, <2>8 DEF Parsed, e
<1>11. CASE p > l
  <2>1. l + 1 \in 1..l + 1 /\ ~ (l + 1 <= l)
    BY <1>1
  <2>2. \A j \in 1..(l + 1) - 1 : data[j] = NL
    <3> TAKE j \in 1..(l + 1) - 1
    <3>1. j \in 1..p - 1 /\ j <= l
      BY <1>1, <1>7, <1>11
    <3> QED
      BY <1>9, <3>1
  <2>3. Start(data) = l + 1
    BY <2>1, <2>2, StartIsFirst DEF l
  <2>4. Fronts(data)[l + 1] = NotReady
    BY <2>1, FrontsUnfold, FrontOfEnd DEF l
  <2>5. e - pos[k + 1] > l
    <3> DEFINE a == pos[k + 1]
    <3>1. e \in Nat /\ c \in Nat /\ p \in Nat /\ l \in Nat /\ e > c + p /\ p > l
      BY <1>1, <1>6, <1>7, <1>11
    <3>2. e - 1 - c = e - a
      BY <1>7
    <3> HIDE DEF a, c
    <3>3. e - 1 - c > l
      BY <3>1
    <3> QED
      BY <3>2, <3>3 DEF a
  <2> QED
    BY <2>3, <2>4, <2>5 DEF Parsed, Outcome, l, e
<1> QED
  BY <1>1, <1>7, <1>10, <1>11

LEMMA ParsedEmpty ==
  ASSUME NEW s \in Seq(Packets), NEW S \in Seq(Char), NEW pos, LiesAll(S, pos, s),
         NEW k \in 0..Len(s), \A i \in k + 1..Len(s) : s[i] = <<>>,
         NEW data \in Seq(Char), Window(data, S, pos[k + 1] - 1)
  PROVE  Parsed(data) = NotReady
<1> DEFINE n == Len(s)
           l == Len(data)
           c == pos[k + 1] - 1
<1>1. n \in Nat /\ l \in Nat /\ k \in Nat /\ k <= n /\ n + 1 \in k + 1..n + 1 /\ k + 1 \in 1..n + 1 /\ (n + 1) - 1 = n
  OBVIOUS
<1>2. pos[n + 1] = Len(S) + 1 /\ pos[k + 1] \in Nat \ {0} /\ Len(S) \in Nat
  BY <1>1 DEF LiesAll
<1>3. \A j \in pos[k + 1]..pos[n + 1] - 1 : S[j] = NL
  <2> DEFINE m == n + 1
  <2>1. m \in k + 1..Len(s) + 1 /\ \A i \in k + 1..m - 1 : s[i] = <<>>
    BY <1>1 DEF n
  <2> HIDE DEF m
  <2>2. \A j \in pos[k + 1]..pos[m] - 1 : S[j] = NL
    BY <2>1, EmptyLines
  <2> QED
    BY <2>2 DEF m
<1>4. (\A j \in 1..l : data[j] = S[c + j]) /\ c + l <= Len(S)
  BY DEF Window
<1> HIDE DEF n, l
<1>5. ASSUME NEW j \in 1..l PROVE data[j] = NL
  <2>1. c + j \in pos[k + 1]..pos[n + 1] - 1
    <3> DEFINE a == pos[k + 1]
               b == pos[n + 1]
               z == Len(S)
    <3>1. b = z + 1 /\ a \in Nat \ {0} /\ z \in Nat /\ c = a - 1 /\ c + l <= z /\ l \in Nat
      BY <1>1, <1>2, <1>4
    <3> HIDE DEF a, b, c, z
    <3>2. c + j \in a..b - 1
      BY <3>1
    <3> QED
      BY <3>2 DEF a, b
  <2> QED
    BY <1>3, <1>4, <2>1
<1>6. l + 1 \in 1..l + 1 /\ ~ (l + 1 <= l) /\ (l + 1) - 1 = l
  BY <1>1
<1>7. Start(data) = l + 1
  BY <1>5, <1>6, StartIsFirst DEF l
<1>8. Fronts(data)[l + 1] = NotReady
  BY <1>6, FrontsUnfold, FrontOfEnd DEF l
<1> QED
  BY <1>7, <1>8 DEF Parsed

-----------------------------------------------------------------------------
(* Kept: the packets with records among the first i. *)
AreKept(kept, s, m) ==
  /\ kept = [i \in 0..m |-> kept[i]]
  /\ kept[0] = <<>>
  /\ \A i \in 1..m : kept[i] = IF s[i] = <<>> THEN kept[i - 1] ELSE Append(kept[i - 1], s[i])

LEMMA KeptExists ==
  ASSUME NEW s, NEW n \in Nat PROVE \E kept : AreKept(kept, s, n)
<1> DEFINE T == {m \in Nat : \E kept : AreKept(kept, s, m)}
<1>1. 0 \in T
  <2>1. AreKept([i \in 0..0 |-> <<>>], s, 0)
    BY DEF AreKept
  <2> QED
    BY <2>1
<1>2. ASSUME NEW m \in Nat, m \in T PROVE m + 1 \in T
  <2>1. PICK f : AreKept(f, s, m)
    BY <1>2
  <2> DEFINE top == IF s[m + 1] = <<>> THEN f[m] ELSE Append(f[m], s[m + 1])
             g == [i \in 0..m + 1 |-> IF i = m + 1 THEN top ELSE f[i]]
  <2>2. g[0] = <<>> /\ g = [i \in 0..m + 1 |-> g[i]] /\ g[m + 1] = top
        /\ \A i \in 0..m : g[i] = f[i]
    <3> HIDE DEF top
    <3> QED
      BY <2>1 DEF AreKept
  <2> HIDE DEF g
  <2>3. ASSUME NEW i \in 1..m + 1
        PROVE  g[i] = IF s[i] = <<>> THEN g[i - 1] ELSE Append(g[i - 1], s[i])
    <3>1. i - 1 \in 0..m /\ g[i - 1] = f[i - 1]
      BY <2>2
    <3>2. CASE i = m + 1
      <4>1. i - 1 = m
        BY <3>2
      <4> QED
        BY <2>2, <3>1, <3>2, <4>1
    <3>3. CASE i # m + 1
      <4>1. i \in 1..m /\ i \in 0..m
        BY <3>3
      <4>2. f[i] = IF s[i] = <<>> THEN f[i - 1] ELSE Append(f[i - 1], s[i])
        BY <2>1, <4>1 DEF AreKept
      <4> QED
        BY <2>2, <3>1, <4>1, <4>2
    <3> QED
      BY <3>2, <3>3
  <2>4. AreKept(g, s, m + 1)
    BY <2>2, <2>3 DEF AreKept
  <2> QED
    BY <2>4
<1> HIDE DEF T
<1>3. \A m \in Nat : m \in T
  BY <1>1, <1>2, Induction
<1> QED
  BY <1>3 DEF T

LEMMA KeptUnfolds ==
  ASSUME NEW s \in Seq(Packets)
  PROVE  AreKept(Kept(s), s, Len(s))
<1> DEFINE n == Len(s)
           Is(g) == g = [i \in 0..n |-> IF i = 0 THEN <<>>
                                        ELSE IF s[i] = <<>> THEN g[i - 1] ELSE Append(g[i - 1], s[i])]
           kept == Kept(s)
<1>1. n \in Nat
  OBVIOUS
<1> HIDE DEF n
<1>2. PICK f : AreKept(f, s, n)
  BY <1>1, KeptExists
<1>3. Is(f)
  <2>1. ASSUME NEW i \in 0..n
        PROVE f[i] = IF i = 0 THEN <<>> ELSE IF s[i] = <<>> THEN f[i - 1] ELSE Append(f[i - 1], s[i])
    <3>1. CASE i = 0
      BY <1>2, <3>1 DEF AreKept
    <3>2. CASE i # 0
      <4>1. i \in 1..n
        BY <1>1, <3>2
      <4>2. f[i] = IF s[i] = <<>> THEN f[i - 1] ELSE Append(f[i - 1], s[i])
        BY <1>2, <4>1, Zenon DEF AreKept
      <4> QED
        BY <3>2, <4>2
    <3> QED
      BY <3>1, <3>2
  <2> QED
    BY <1>2, <2>1 DEF AreKept
<1>4. Is(kept)
  <2>1. kept = CHOOSE g : Is(g)
    BY DEF Kept, n
  <2> HIDE DEF Is, kept
  <2> QED
    BY <1>3, <2>1, Zenon
<1> HIDE DEF kept
<1>5. \A i \in 0..n : kept[i] = IF i = 0 THEN <<>>
                                ELSE IF s[i] = <<>> THEN kept[i - 1] ELSE Append(kept[i - 1], s[i])
  BY <1>4
<1>6. kept = [i \in 0..n |-> kept[i]]
  BY <1>4, <1>5
<1> HIDE DEF Is
<1>7. kept[0] = <<>>
  BY <1>1, <1>5
<1>8. \A i \in 1..n : i \in 0..n /\ i # 0
  BY <1>1
<1> QED
  BY <1>5, <1>6, <1>7, <1>8 DEF AreKept, kept, n

LEMMA KeptIsPackets ==
  ASSUME NEW s \in Seq(Packets)
  PROVE  \A i \in 0..Len(s) : Kept(s)[i] \in Seq(Packets) /\ Len(Kept(s)[i]) <= i
<1> DEFINE n == Len(s)
           kept == Kept(s)
           T == {i \in Nat : i <= n => kept[i] \in Seq(Packets) /\ Len(kept[i]) <= i}
<1>1. AreKept(kept, s, n)
  BY KeptUnfolds
<1>2. n \in Nat /\ \A i \in 1..n : s[i] \in Packets
  OBVIOUS
<1> HIDE DEF n, kept
<1>3. 0 \in T
  <2>1. kept[0] = <<>>
    BY <1>1 DEF AreKept
  <2>2. kept[0] \in Seq(Packets) /\ Len(kept[0]) = 0
    BY <2>1
  <2>3. Len(kept[0]) <= 0
    BY <2>2
  <2> QED
    BY <2>2, <2>3, Zenon
<1>4. ASSUME NEW i \in Nat, i \in T PROVE i + 1 \in T
  <2> SUFFICES ASSUME i + 1 <= n PROVE kept[i + 1] \in Seq(Packets) /\ Len(kept[i + 1]) <= i + 1
    OBVIOUS
  <2>1. i + 1 \in 1..n /\ (i + 1) - 1 = i /\ i <= n
    BY <1>2
  <2>2. kept[i] \in Seq(Packets) /\ Len(kept[i]) <= i
    BY <1>4, <2>1
  <2>3. kept[i + 1] = IF s[i + 1] = <<>> THEN kept[i] ELSE Append(kept[i], s[i + 1])
    BY <1>1, <2>1 DEF AreKept
  <2>4. s[i + 1] \in Packets
    BY <1>2, <2>1
  <2> DEFINE a == kept[i]
             x == s[i + 1]
  <2> HIDE DEF a, x
  <2>5. Append(a, x) \in Seq(Packets) /\ Len(Append(a, x)) = Len(a) + 1 /\ Len(a) \in Nat
    BY <2>2, <2>4 DEF a, x
  <2> QED
    BY <2>2, <2>3, <2>5 DEF a, x
<1>5. \A i \in Nat : i \in T
  <2> HIDE DEF T
  <2> QED
    BY <1>3, <1>4, Induction
<1>6. \A i \in 0..n : i \in T /\ i <= n
  BY <1>2, <1>5
<1> QED
  BY <1>6 DEF kept, n

(* One packet more, or none. *)
LEMMA KeptGrows ==
  ASSUME NEW s \in Seq(Packets), NEW i \in 0..Len(s), NEW j \in 0..Len(s), i <= j
  PROVE  /\ Len(Kept(s)[i]) <= Len(Kept(s)[j])
         /\ Len(Kept(s)[j]) <= Len(Kept(s)[i]) + (j - i)
         /\ \A x \in 1..Len(Kept(s)[i]) : Kept(s)[j][x] = Kept(s)[i][x]
<1> DEFINE n == Len(s)
           kept == Kept(s)
           Grows(a, b, d) == /\ Len(a) <= Len(b) /\ Len(b) <= Len(a) + d
                             /\ \A x \in 1..Len(a) : b[x] = a[x]
           T == {d \in Nat : i + d <= n => Grows(kept[i], kept[i + d], d)}
<1>1. AreKept(kept, s, n)
  BY KeptUnfolds
<1>2. n \in Nat /\ (\A x \in 1..n : s[x] \in Packets) /\ i \in 0..n /\ j \in 0..n /\ i \in Nat /\ j \in Nat
  OBVIOUS
<1>3. \A x \in 0..n : kept[x] \in Seq(Packets)
  BY KeptIsPackets
<1> HIDE DEF n, kept
<1>4. \A x \in 0..n : Len(kept[x]) \in Nat
  BY <1>3
<1>5. 0 \in T
  <2>1. i + 0 = i /\ Len(kept[i]) \in Nat
    BY <1>2, <1>4
  <2>2. Grows(kept[i], kept[i], 0)
    BY <2>1
  <2> HIDE DEF Grows
  <2> QED
    BY <2>1, <2>2
<1>6. ASSUME NEW d \in Nat, d \in T PROVE d + 1 \in T
  <2> SUFFICES ASSUME i + (d + 1) <= n PROVE Grows(kept[i], kept[i + (d + 1)], d + 1)
    <3> HIDE DEF Grows
    <3> QED
      OBVIOUS
  <2>1. i + (d + 1) \in 1..n /\ (i + (d + 1)) - 1 = i + d /\ i + d <= n /\ i + d \in 0..n
    BY <1>2
  <2> DEFINE a == kept[i]
             b == kept[i + d]
             c == kept[i + (d + 1)]
             x == s[i + (d + 1)]
  <2>2. Grows(a, b, d)
    <3> HIDE DEF Grows
    <3> QED
      BY <1>6, <2>1
  <2>3. c = IF x = <<>> THEN b ELSE Append(b, x)
    BY <1>1, <2>1 DEF AreKept
  <2>4. x \in Packets /\ a \in Seq(Packets) /\ b \in Seq(Packets) /\ Len(a) \in Nat
    BY <1>2, <1>3, <1>4, <2>1
  <2> HIDE DEF a, b, c, x
  <2>5. Len(b) \in Nat /\ Len(a) <= Len(b) /\ Len(b) <= Len(a) + d /\ \A y \in 1..Len(a) : b[y] = a[y]
    BY <2>2, <2>4
  <2>8. Grows(a, c, d + 1)
    <3>1. CASE x = <<>>
      BY <2>3, <2>4, <2>5, <3>1
    <3>2. CASE x # <<>>
      <4>1. c = Append(b, x)
        BY <2>3, <3>2
      <4>2. Len(c) = Len(b) + 1 /\ \A y \in 1..Len(b) : c[y] = b[y]
        BY <2>4, <4>1
      <4>3. \A y \in 1..Len(a) : y \in 1..Len(b)
        BY <2>4, <2>5
      <4> QED
        BY <2>4, <2>5, <4>2, <4>3
    <3> QED
      BY <3>1, <3>2
  <2> HIDE DEF Grows
  <2> QED
    BY <2>8 DEF a, c
<1>7. \A d \in Nat : d \in T
  <2> HIDE DEF T
  <2> QED
    BY <1>5, <1>6, Induction
<1> DEFINE d == j - i
<1>8. d \in Nat /\ i + d = j /\ j <= n
  BY <1>2
<1> HIDE DEF d
<1>9. Grows(kept[i], kept[j], d)
  <2>1. d \in T
    <3> HIDE DEF T
    <3> QED
      BY <1>7, <1>8
  <2> HIDE DEF Grows
  <2> QED
    BY <1>8, <2>1
<1> QED
  BY <1>9 DEF kept, d

LEMMA KeptOfMore ==
  ASSUME NEW s \in Seq(Packets), NEW packet \in Packets
  PROVE  \A i \in 0..Len(s) : Kept(Append(s, packet))[i] = Kept(s)[i]
<1> DEFINE n == Len(s)
           s2 == Append(s, packet)
           kept == Kept(s)
           kept2 == Kept(s2)
           T == {i \in Nat : i <= n => kept2[i] = kept[i]}
<1>1. n \in Nat /\ s2 \in Seq(Packets) /\ Len(s2) = n + 1 /\ \A i \in 1..n : s2[i] = s[i]
  OBVIOUS
<1>2. AreKept(kept, s, n) /\ AreKept(kept2, s2, n + 1)
  BY <1>1, KeptUnfolds
<1> HIDE DEF n, s2, kept, kept2
<1>3. 0 \in T
  BY <1>2 DEF AreKept
<1>4. ASSUME NEW i \in Nat, i \in T PROVE i + 1 \in T
  <2> SUFFICES ASSUME i + 1 <= n PROVE kept2[i + 1] = kept[i + 1]
    OBVIOUS
  <2>1. i + 1 \in 1..n /\ i + 1 \in 1..n + 1 /\ (i + 1) - 1 = i /\ i <= n
    BY <1>1
  <2>2. kept2[i] = kept[i] /\ s2[i + 1] = s[i + 1]
    BY <1>1, <1>4, <2>1
  <2>3. kept[i + 1] = IF s[i + 1] = <<>> THEN kept[i] ELSE Append(kept[i], s[i + 1])
    BY <1>2, <2>1 DEF AreKept
  <2>4. kept2[i + 1] = IF s2[i + 1] = <<>> THEN kept2[i] ELSE Append(kept2[i], s2[i + 1])
    BY <1>2, <2>1 DEF AreKept
  <2> QED
    BY <2>2, <2>3, <2>4, Zenon
<1>5. \A i \in Nat : i \in T
  <2> HIDE DEF T
  <2> QED
    BY <1>3, <1>4, Induction
<1>6. \A i \in 0..n : i \in T /\ i <= n
  BY <1>1, <1>5
<1> QED
  BY <1>6 DEF n, s2, kept, kept2

LEMMA KeptSkips ==
  ASSUME NEW s \in Seq(Packets), NEW k \in 0..Len(s), NEW m \in k..Len(s),
         \A i \in k + 1..m : s[i] = <<>>
  PROVE  Kept(s)[m] = Kept(s)[k]
<1> DEFINE kept == Kept(s)
           T == {d \in Nat : k + d <= m => kept[k + d] = kept[k]}
<1>1. Len(s) \in Nat /\ k \in Nat /\ m \in Nat /\ k <= m /\ m <= Len(s)
  OBVIOUS
<1>2. AreKept(kept, s, Len(s))
  BY KeptUnfolds
<1> HIDE DEF kept
<1>3. 0 \in T
  BY <1>1
<1>4. ASSUME NEW d \in Nat, d \in T PROVE d + 1 \in T
  <2> SUFFICES ASSUME k + (d + 1) <= m PROVE kept[k + (d + 1)] = kept[k]
    OBVIOUS
  <2>1. k + (d + 1) \in 1..Len(s) /\ (k + (d + 1)) - 1 = k + d /\ k + d <= m /\ k + (d + 1) \in k + 1..m
    BY <1>1
  <2>2. kept[k + d] = kept[k]
    BY <1>4, <2>1
  <2>3. s[k + (d + 1)] = <<>>
    BY <2>1
  <2>4. kept[k + (d + 1)] = IF s[k + (d + 1)] = <<>> THEN kept[(k + (d + 1)) - 1]
                            ELSE Append(kept[(k + (d + 1)) - 1], s[k + (d + 1)])
    BY <1>2, <2>1 DEF AreKept
  <2> QED
    BY <2>1, <2>2, <2>3, <2>4, Zenon
<1>5. \A d \in Nat : d \in T
  <2> HIDE DEF T
  <2> QED
    BY <1>3, <1>4, Induction
<1> DEFINE d == m - k
<1>6. d \in Nat /\ k + d = m /\ k + d <= m
  BY <1>1
<1> HIDE DEF d
<1>7. d \in T
  <2> HIDE DEF T
  <2> QED
    BY <1>5, <1>6
<1> QED
  BY <1>6, <1>7 DEF kept

-----------------------------------------------------------------------------
(* The bytes of S behind the first c, on their way from the sender. *)
Carried(S, c, front, middle, back) ==
  /\ c + Len(front) + Len(middle) + Len(back) = Len(S)
  /\ Window(front, S, c)
  /\ Window(middle, S, c + Len(front))
  /\ Window(back, S, c + Len(front) + Len(middle))

LEMMA PacketShifts ==
  ASSUME NEW s \in Seq(Char), NEW S \in Seq(Char), NEW c \in Nat, Window(s, S, c),
         NEW packet, Packet(packet), NEW p, NEW e, LiesPacket(s, p, packet, e)
  PROVE  LiesPacket(S, c + p, packet, c + e)
<1> DEFINE n == Len(packet)
<1>1. packet \in Seq(Seq(Char)) /\ n \in Nat /\ \A i \in 1..n : Len(packet[i]) \in Nat
  BY DEF Packet
<1>2. PICK at : Lies(s, at, packet) /\ at[1] = p /\ e = at[n + 1] + 1
  BY DEF LiesPacket
<1> HIDE DEF n
<1>3. /\ at \in [1..n + 1 -> Nat \ {0}]
      /\ \A i \in 1..n : LiesRecord(s, at[i], packet[i]) /\ at[i + 1] = at[i] + Len(packet[i]) + 3
      /\ at[n + 1] <= Len(s) /\ s[at[n + 1]] = NL
  BY <1>2 DEF Lies, n
<1>4. Len(s) \in Nat /\ Len(S) \in Nat /\ c + Len(s) <= Len(S) /\ \A j \in 1..Len(s) : S[c + j] = s[j]
  BY DEF Window
<1> DEFINE at2 == [i \in 1..n + 1 |-> c + at[i]]
<1>5. at2 \in [1..n + 1 -> Nat \ {0}] /\ \A i \in 1..n + 1 : at2[i] = c + at[i]
  BY <1>3
<1> HIDE DEF at2
<1>6. ASSUME NEW i \in 1..n
      PROVE  LiesRecord(S, at2[i], packet[i]) /\ at2[i + 1] = at2[i] + Len(packet[i]) + 3
  <2> DEFINE a == at[i]
             r == packet[i]
             l == Len(packet[i])
  <2>1. i \in 1..n + 1 /\ i + 1 \in 1..n + 1
    BY <1>1
  <2>2. a \in Nat \ {0} /\ l \in Nat /\ at[i + 1] = a + l + 3 /\ at2[i] = c + a /\ at2[i + 1] = c + at[i + 1]
    BY <1>1, <1>3, <1>5, <2>1
  <2>3. LiesRecord(s, a, r)
    BY <1>3
  <2> HIDE DEF a
  <2>4. /\ a + l + 2 <= Len(s) /\ s[a] = l /\ s[a + 1] = NL /\ s[a + 2 + l] = NL
        /\ \A j \in 1..l : s[a + 1 + j] = r[j]
    BY <2>3 DEF LiesRecord
  <2> HIDE DEF r, l
  <2>5. a \in 1..Len(s) /\ a + 1 \in 1..Len(s) /\ a + 2 + l \in 1..Len(s)
    BY <1>4, <2>2, <2>4
  <2>6. S[c + a] = l /\ S[c + (a + 1)] = NL /\ S[c + (a + 2 + l)] = NL
    BY <1>4, <2>4, <2>5
  <2>7. c + (a + 1) = (c + a) + 1 /\ c + (a + 2 + l) = (c + a) + 2 + l /\ (c + a) + l + 2 <= Len(S)
    BY <1>4, <2>2, <2>4
  <2>8. ASSUME NEW j \in 1..l PROVE S[(c + a) + 1 + j] = r[j]
    <3>1. a + 1 + j \in 1..Len(s) /\ c + (a + 1 + j) = (c + a) + 1 + j
      BY <1>4, <2>2, <2>4
    <3>2. S[c + (a + 1 + j)] = s[a + 1 + j]
      BY <1>4, <3>1
    <3> QED
      BY <2>4, <3>1, <3>2
  <2>9. LiesRecord(S, c + a, r)
    BY <2>6, <2>7, <2>8 DEF LiesRecord, r, l
  <2>10. c + (a + l + 3) = (c + a) + l + 3
    BY <2>2
  <2> QED
    BY <2>2, <2>9, <2>10 DEF r, l
<1>7. at2[n + 1] <= Len(S) /\ S[at2[n + 1]] = NL
  <2>1. n + 1 \in 1..n + 1
    BY <1>1
  <2>2. at[n + 1] \in 1..Len(s) /\ at2[n + 1] = c + at[n + 1]
    BY <1>3, <1>4, <1>5, <2>1
  <2>3. S[c + at[n + 1]] = s[at[n + 1]]
    BY <1>4, <2>2
  <2> QED
    BY <1>3, <1>4, <2>2, <2>3
<1>8. Lies(S, at2, packet)
  BY <1>5, <1>6, <1>7 DEF Lies, n
<1>9. at2[1] = c + p /\ c + e = at2[n + 1] + 1
  <2>1. 1 \in 1..n + 1 /\ n + 1 \in 1..n + 1
    BY <1>1
  <2>2. at[n + 1] \in Nat
    BY <1>3, <2>1
  <2> QED
    BY <1>2, <1>5, <2>1, <2>2
<1> QED
  BY <1>8, <1>9 DEF LiesPacket, n

(* Bytes move from the front of v to the back of u.                        *)
LEMMA WindowMoves ==
  ASSUME NEW u \in Seq(Char), NEW v \in Seq(Char), NEW S \in Seq(Char), NEW x \in Nat,
         Window(u, S, x), Window(v, S, x + Len(u)), NEW n \in 0..Len(v)
  PROVE  LET u2 == u \o SubSeq(v, 1, n)
             v2 == SubSeq(v, n + 1, Len(v))
         IN  /\ u2 \in Seq(Char) /\ v2 \in Seq(Char)
             /\ Len(u2) = Len(u) + n /\ Len(v2) = Len(v) - n
             /\ Window(u2, S, x) /\ Window(v2, S, x + Len(u2))
<1> DEFINE w == SubSeq(v, 1, n)
           u2 == u \o w
           v2 == SubSeq(v, n + 1, Len(v))
<1>1. Len(u) \in Nat /\ Len(v) \in Nat /\ n \in Nat /\ n <= Len(v)
  OBVIOUS
<1>2. w \in Seq(Char) /\ Len(w) = n /\ \A j \in 1..n : w[j] = v[j]
  BY <1>1
<1>3. v2 \in Seq(Char) /\ Len(v2) = Len(v) - n /\ \A j \in 1..Len(v) - n : v2[j] = v[n + j]
  BY <1>1
<1> HIDE DEF w, v2
<1>4. /\ u2 \in Seq(Char) /\ Len(u2) = Len(u) + n
      /\ \A j \in 1..Len(u) : u2[j] = u[j]
      /\ \A j \in 1..n : u2[Len(u) + j] = w[j]
  BY <1>2, Joined DEF Extends
<1> HIDE DEF u2
<1>5. /\ \A j \in 1..Len(u) : u[j] = S[x + j]
      /\ x + Len(u) + Len(v) <= Len(S)
      /\ \A j \in 1..Len(v) : v[j] = S[x + Len(u) + j]
  BY DEF Window
<1>6. ASSUME NEW j \in 1..Len(u2) PROVE u2[j] = S[x + j]
  <2>1. CASE j <= Len(u)
    BY <1>1, <1>4, <1>5, <2>1
  <2>2. CASE j > Len(u)
    <3> DEFINE i == j - Len(u)
    <3>1. i \in 1..n /\ i \in 1..Len(v) /\ Len(u) + i = j /\ x + Len(u) + i = x + j
      BY <1>1, <1>4, <2>2
    <3> HIDE DEF i
    <3> QED
      BY <1>2, <1>4, <1>5, <3>1
  <2> QED
    BY <1>1, <2>1, <2>2
<1>7. ASSUME NEW j \in 1..Len(v2) PROVE v2[j] = S[x + Len(u2) + j]
  <2>1. n + j \in 1..Len(v) /\ x + Len(u) + (n + j) = x + Len(u2) + j /\ j \in 1..Len(v) - n
    BY <1>1, <1>3, <1>4
  <2> QED
    BY <1>3, <1>5, <2>1
<1>8. x + Len(u2) <= Len(S) /\ x + Len(u2) + Len(v2) <= Len(S)
  <2>1. Len(S) \in Nat
    OBVIOUS
  <2> QED
    BY <1>1, <1>3, <1>4, <1>5, <2>1
<1> QED
  BY <1>3, <1>4, <1>6, <1>7, <1>8 DEF Window, u2, v2, w

-----------------------------------------------------------------------------
(* The inductive invariant: the bytes that are still on their way are those *)
(* of the stream S behind the k packets that parse() has taken.            *)
Stream(S, pos, k) ==
  /\ S \in Seq(Char)
  /\ LiesAll(S, pos, sent)
  /\ k \in 0..Len(sent)
  /\ received = Kept(sent)[k]
  /\ Carried(S, pos[k + 1] - 1, input.data, wire, output.data)

InvStates ==
  /\ tx \in {"idle", "flush", "closed"}
  /\ rx \in {"parse", "read", "error", "closed"}
  /\ sent \in Seq(Packets)
  /\ wire \in Seq(Char)
  /\ Sound(output)
  /\ Sound(input)

InvStream == \E S, pos, k : Stream(S, pos, k)

(* What response() knows of the input when it reads or returns.            *)
InvResponse ==
  /\ rx = "read" => space(ToRead) > 0
  /\ rx \in {"read", "closed"} => Parsed(input.data).result = "not ready"
  /\ rx = "error" => Parsed(input.data).result = "error"
  /\ rx = "closed" => tx = "closed" /\ wire = <<>>

LinkInv == InvStates /\ InvStream /\ InvResponse

LEMMA DataIsChars ==
  ASSUME NEW b, Sound(b)
  PROVE  b.data \in Seq(Char) /\ Len(b.data) \in Nat /\ space(b) \in Int /\ b.off \in Nat /\ b.total \in Nat
<1>1. b.data \in Seq(Char) /\ b.off \in Nat /\ b.total \in Nat
  BY DEF Sound, ByteBuffers
<1> QED
  BY <1>1 DEF space

(* Where the stream is. *)
LEMMA StreamTypes ==
  ASSUME InvStates, NEW S, NEW pos, NEW k, Stream(S, pos, k)
  PROVE  /\ S \in Seq(Char) /\ Len(S) \in Nat
         /\ Len(sent) \in Nat /\ k \in 0..Len(sent) /\ k + 1 \in 1..Len(sent) + 1 /\ k \in Nat
         /\ pos \in [1..Len(sent) + 1 -> Nat \ {0}]
         /\ pos[k + 1] \in Nat \ {0} /\ pos[k + 1] - 1 \in Nat
         /\ input.data \in Seq(Char) /\ output.data \in Seq(Char) /\ wire \in Seq(Char)
         /\ Len(input.data) \in Nat /\ Len(output.data) \in Nat /\ Len(wire) \in Nat
<1>1. Len(sent) \in Nat /\ k \in 0..Len(sent) /\ S \in Seq(Char)
  BY DEF InvStates, Stream
<1>2. k + 1 \in 1..Len(sent) + 1 /\ k \in Nat /\ Len(S) \in Nat
  BY <1>1
<1>3. pos \in [1..Len(sent) + 1 -> Nat \ {0}]
  BY DEF Stream, LiesAll
<1>4. pos[k + 1] \in Nat \ {0} /\ pos[k + 1] - 1 \in Nat
  BY <1>2, <1>3
<1>5. input.data \in Seq(Char) /\ output.data \in Seq(Char) /\ wire \in Seq(Char)
  BY DataIsChars DEF InvStates
<1> QED
  BY <1>1, <1>2, <1>3, <1>4, <1>5

LEMMA InitIsInv == Init => LinkInv
<1> SUFFICES ASSUME Init PROVE LinkInv
  OBVIOUS
<1>1. InvStates
  BY NewIsSound DEF Init, InvStates
<1>2. InvResponse
  BY DEF Init, InvResponse
<1>3. InvStream
  <2> DEFINE pos == [i \in 1..1 |-> 1]
  <2>1. input.data = <<>> /\ output.data = <<>> /\ wire = <<>> /\ sent = <<>> /\ received = <<>>
    BY NewIsSound DEF Init
  <2>2. pos \in [1..1 -> Nat \ {0}] /\ pos[1] = 1
    OBVIOUS
  <2> HIDE DEF pos
  <2>3. Len(<<>>) = 0 /\ Len(<<>>) + 1 = 1 /\ 1..0 = {} /\ <<>> \in Seq(Char) /\ <<>> \in Seq(Packets)
    OBVIOUS
  <2>4. LiesAll(<<>>, pos, <<>>)
    BY <2>2, <2>3 DEF LiesAll
  <2>5. Kept(<<>>)[0] = <<>>
    BY <2>3, KeptUnfolds DEF AreKept
  <2>6. Carried(<<>>, 0, <<>>, <<>>, <<>>)
    BY DEF Carried, Window
  <2>7. Stream(<<>>, pos, 0)
    <3>1. pos[0 + 1] - 1 = 0
      BY <2>2
    <3> QED
      BY <2>1, <2>3, <2>4, <2>5, <2>6, <3>1 DEF Stream
  <2> QED
    BY <2>7 DEF InvStream
<1> QED
  BY <1>1, <1>2, <1>3 DEF LinkInv

LEMMA WindowStays ==
  ASSUME NEW S \in Seq(Char), NEW S2 \in Seq(Char), Extends(S, S2),
         NEW u \in Seq(Char), NEW x \in Nat, Window(u, S, x)
  PROVE  Window(u, S2, x)
<1>1. Len(S) \in Nat /\ Len(S2) \in Nat /\ Len(u) \in Nat
  OBVIOUS
<1>2. \A j \in 1..Len(u) : x + j \in 1..Len(S)
  BY <1>1 DEF Window
<1>3. \A j \in 1..Len(u) : u[j] = S2[x + j]
  BY <1>2 DEF Window, Extends
<1> QED
  BY <1>1, <1>3 DEF Window, Extends

(* The stream with a packet more, when the buffer d has become e. *)
LEMMA StreamGrows ==
  ASSUME NEW S \in Seq(Char), NEW d \in Seq(Char), NEW e \in Seq(Char), Extends(d, e),
         NEW base \in Nat, Window(d, S, base), base + Len(d) = Len(S)
  PROVE  \E S2 \in Seq(Char) : /\ Extends(S, S2) /\ Len(S2) = base + Len(e)
                               /\ Window(e, S2, base)
<1> DEFINE part == SubSeq(e, Len(d) + 1, Len(e))
           S2 == S \o part
<1>1. Len(S) \in Nat /\ Len(d) \in Nat /\ Len(e) \in Nat /\ Len(d) <= Len(e)
  BY DEF Extends
<1>2. part \in Seq(Char) /\ Len(part) = Len(e) - Len(d) /\ \A j \in 1..Len(e) - Len(d) : part[j] = e[Len(d) + j]
  BY <1>1
<1> HIDE DEF part
<1>3. /\ S2 \in Seq(Char) /\ Len(S2) = Len(S) + Len(part) /\ Extends(S, S2)
      /\ \A j \in 1..Len(part) : S2[Len(S) + j] = part[j]
  BY <1>2, Joined
<1> HIDE DEF S2
<1> DEFINE x == Len(d)
           y == Len(e)
           z == Len(part)
<1>7. x \in Nat /\ y \in Nat /\ z \in Nat /\ z = y - x /\ Len(S) = base + x /\ Len(S2) = base + x + z
  <2>1. x \in Nat /\ y \in Nat /\ z \in Nat
    BY <1>1, <1>2
  <2>2. z = y - x
    BY <1>2
  <2>3. Len(S) = base + x
    OBVIOUS
  <2>4. Len(S2) = Len(S) + z
    BY <1>3
  <2> QED
    BY <2>1, <2>2, <2>3, <2>4, Zenon
<1> HIDE DEF x, y, z
<1>4. Len(S2) = base + Len(e)
  <2>1. base + x + z = base + y
    BY <1>7
  <2> QED
    BY <1>7, <2>1 DEF y
<1>5. ASSUME NEW j \in 1..Len(e) PROVE e[j] = S2[base + j]
  <2>1. CASE j <= Len(d)
    <3>1. j \in 1..Len(d) /\ base + j \in 1..Len(S)
      BY <1>1, <2>1
    <3>2. e[j] = d[j]
      BY <3>1 DEF Extends
    <3>3. d[j] = S[base + j]
      BY <3>1 DEF Window
    <3>4. S2[base + j] = S[base + j]
      BY <1>3, <3>1 DEF Extends
    <3> QED
      BY <3>2, <3>3, <3>4
  <2>2. CASE j > Len(d)
    <3> DEFINE i == j - Len(d)
    <3>1. i \in 1..Len(part) /\ i \in 1..Len(e) - Len(d) /\ Len(d) + i = j /\ Len(S) + i = base + j
      <4>1. j \in 1..y /\ j > x
        BY <2>2 DEF x, y
      <4>2. j - x \in 1..z /\ j - x \in 1..y - x /\ x + (j - x) = j /\ base + x + (j - x) = base + j
        <5>1. j \in Nat
          BY <4>1
        <5>2. j - x \in Nat \ {0} /\ j - x <= z /\ j - x <= y - x
          BY <1>7, <4>1, <5>1
        <5>3. x + (j - x) = j /\ base + x + (j - x) = base + j
          BY <1>7, <5>1
        <5>4. j - x \in 1..z /\ j - x \in 1..y - x
          BY <1>7, <5>2
        <5> QED
          BY <5>3, <5>4
      <4> QED
        BY <1>7, <4>2 DEF x, y, z
    <3> HIDE DEF i
    <3>2. S2[Len(S) + i] = part[i] /\ part[i] = e[Len(d) + i]
      BY <1>2, <1>3, <3>1
    <3> QED
      BY <3>1, <3>2
  <2> QED
    BY <1>1, <2>1, <2>2
<1>6. Window(e, S2, base)
  BY <1>1, <1>4, <1>5 DEF Window
<1> QED
  BY <1>3, <1>4, <1>6

LEMMA LiesOneMore ==
  ASSUME NEW s \in Seq(Packets), NEW S \in Seq(Char), NEW pos, LiesAll(S, pos, s),
         NEW S2 \in Seq(Char), Extends(S, S2), NEW packet \in Packets,
         LiesPacket(S2, Len(S) + 1, packet, Len(S2) + 1)
  PROVE  \E pos2 : /\ LiesAll(S2, pos2, Append(s, packet))
                   /\ \A i \in 1..Len(s) + 1 : pos2[i] = pos[i]
<1> DEFINE n == Len(s)
           s2 == Append(s, packet)
           pos2 == [i \in 1..(n + 1) + 1 |-> IF i = n + 2 THEN Len(S2) + 1 ELSE pos[i]]
<1>1. n \in Nat /\ Len(S) \in Nat /\ Len(S2) \in Nat /\ Len(S) <= Len(S2)
  BY DEF Extends
<1>2. Len(s2) = n + 1 /\ s2[n + 1] = packet /\ \A i \in 1..n : s2[i] = s[i] /\ s[i] \in Packets
  OBVIOUS
<1>3. /\ pos \in [1..n + 1 -> Nat \ {0}] /\ pos[1] = 1 /\ pos[n + 1] = Len(S) + 1
      /\ \A i \in 1..n : LiesPacket(S, pos[i], s[i], pos[i + 1])
  BY DEF LiesAll
<1> HIDE DEF n, s2
<1>4. /\ pos2 \in [1..(n + 1) + 1 -> Nat \ {0}] /\ pos2[(n + 1) + 1] = Len(S2) + 1
      /\ \A i \in 1..n + 1 : pos2[i] = pos[i]
  <2>1. ASSUME NEW i \in 1..(n + 1) + 1 PROVE (IF i = n + 2 THEN Len(S2) + 1 ELSE pos[i]) \in Nat \ {0}
    <3>1. CASE i = n + 2
      BY <1>1, <3>1
    <3>2. CASE i # n + 2
      <4>1. i \in 1..n + 1
        BY <1>1, <3>2
      <4> QED
        BY <1>3, <3>2, <4>1
    <3> QED
      BY <3>1, <3>2
  <2>2. pos2 \in [1..(n + 1) + 1 -> Nat \ {0}]
    BY <2>1
  <2>3. (n + 1) + 1 = n + 2 /\ n + 2 \in 1..(n + 1) + 1 /\ \A i \in 1..n + 1 : i \in 1..(n + 1) + 1 /\ i # n + 2
    BY <1>1
  <2> QED
    BY <2>2, <2>3
<1> HIDE DEF pos2
<1>5. Window(S, S2, 0)
  BY <1>1 DEF Extends, Window
<1>6. ASSUME NEW i \in 1..n + 1 PROVE LiesPacket(S2, pos2[i], s2[i], pos2[i + 1])
  <2>1. CASE i = n + 1
    <3>1. pos2[i] = Len(S) + 1 /\ pos2[i + 1] = Len(S2) + 1 /\ s2[i] = packet
      BY <1>1, <1>2, <1>3, <1>4, <2>1
    <3> QED
      BY <3>1
  <2>2. CASE i # n + 1
    <3>1. i \in 1..n /\ i + 1 \in 1..n + 1
      BY <1>1, <2>2
    <3>2. LiesPacket(S, pos[i], s[i], pos[i + 1]) /\ Packet(s[i])
      BY <1>2, <1>3, <3>1, PacketsArePackets
    <3>3. LiesPacket(S2, 0 + pos[i], s[i], 0 + pos[i + 1])
      BY <1>5, <3>2, PacketShifts
    <3>4. 0 + pos[i] = pos2[i] /\ 0 + pos[i + 1] = pos2[i + 1] /\ s2[i] = s[i]
      <4>1. pos[i] \in Nat /\ pos[i + 1] \in Nat
        BY <1>3, <3>1
      <4> QED
        BY <1>2, <1>4, <3>1, <4>1
    <3> QED
      BY <3>3, <3>4
  <2> QED
    BY <2>1, <2>2
<1>7. pos2[1] = 1
  BY <1>1, <1>3, <1>4
<1>8. LiesAll(S2, pos2, s2)
  BY <1>2, <1>4, <1>6, <1>7 DEF LiesAll
<1> QED
  BY <1>4, <1>8 DEF s2, n

LEMMA SendKeepsStream ==
  ASSUME InvStates, InvStream, NEW packet \in Packets,
         output' = Packed(output, packet), sent' = Append(sent, packet),
         UNCHANGED <<input, wire, received>>
  PROVE  Sound(output)' /\ InvStream'
<1>1. PICK S, pos, k : Stream(S, pos, k)
  BY DEF InvStream
<1> DEFINE c == pos[k + 1] - 1
           d == output.data
           e == Packed(output, packet).data
           base == c + Len(input.data) + Len(wire)
           n == Len(sent)
<1>2. Packet(packet) /\ Sound(output) /\ sent \in Seq(Packets)
  BY PacketsArePackets DEF InvStates
<1>3. /\ Sound(Packed(output, packet)) /\ Extends(d, e)
      /\ LiesPacket(e, Len(d) + 1, packet, Len(e) + 1)
  BY <1>2, PackedLies
<1>4. e \in Seq(Char) /\ Len(e) \in Nat
  BY <1>3, DataIsChars
<1>5. /\ S \in Seq(Char) /\ Len(S) \in Nat /\ n \in Nat /\ k \in 0..n /\ c \in Nat
      /\ d \in Seq(Char) /\ Len(d) \in Nat /\ Len(input.data) \in Nat /\ Len(wire) \in Nat
      /\ k + 1 \in 1..n + 1 /\ input.data \in Seq(Char) /\ wire \in Seq(Char)
  BY <1>1, StreamTypes
<1>6. /\ LiesAll(S, pos, sent) /\ received = Kept(sent)[k]
      /\ base + Len(d) = Len(S) /\ Window(input.data, S, c)
      /\ Window(wire, S, c + Len(input.data)) /\ Window(d, S, base)
  BY <1>1 DEF Stream, Carried
<1> HIDE DEF e, d, n
<1>7. base \in Nat /\ c + Len(input.data) \in Nat
  BY <1>5
<1> HIDE DEF c, base
<1>8. PICK S2 \in Seq(Char) : /\ Extends(S, S2) /\ Len(S2) = base + Len(e)
                              /\ Window(e, S2, base)
  BY <1>3, <1>4, <1>5, <1>6, <1>7, StreamGrows
<1>9. LiesPacket(S2, Len(S) + 1, packet, Len(S2) + 1)
  <2>1. LiesPacket(S2, base + (Len(d) + 1), packet, base + (Len(e) + 1))
    BY <1>2, <1>3, <1>4, <1>7, <1>8, PacketShifts
  <2>2. base + (Len(d) + 1) = Len(S) + 1 /\ base + (Len(e) + 1) = Len(S2) + 1
    BY <1>4, <1>5, <1>6, <1>7, <1>8
  <2> QED
    BY <2>1, <2>2
<1>10. PICK pos2 : LiesAll(S2, pos2, Append(sent, packet)) /\ \A i \in 1..n + 1 : pos2[i] = pos[i]
  BY <1>2, <1>5, <1>6, <1>8, <1>9, LiesOneMore DEF n
<1>11. pos2[k + 1] - 1 = c
  BY <1>5, <1>10 DEF c
<1>12. Carried(S2, c, input.data, wire, e)
  <2>1. Window(input.data, S2, c) /\ Window(wire, S2, c + Len(input.data))
    BY <1>5, <1>6, <1>7, <1>8, WindowStays
  <2> QED
    BY <1>8, <2>1 DEF Carried, base
<1>13. Kept(Append(sent, packet))[k] = received
  BY <1>2, <1>5, <1>6, KeptOfMore DEF n
<1>14. k \in 0..Len(Append(sent, packet))
  <2>1. Len(Append(sent, packet)) = n + 1
    BY <1>2 DEF n
  <2> QED
    BY <1>5, <2>1
<1>15. output'.data = e
  BY DEF e
<1>16. Stream(S2, pos2, k)'
  BY <1>8, <1>10, <1>11, <1>12, <1>13, <1>14, <1>15 DEF Stream
<1> QED
  BY <1>3, <1>16 DEF InvStream

LEMMA WriteKeepsInv ==
  ASSUME LinkInv, Write PROVE LinkInv'
<1> USE DEF LinkInv
<1>1. PICK n \in 1..Len(output.data) :
        /\ wire' = wire \o SubSeq(output.data, 1, n)
        /\ output' = nice(decr(Prepared(output), n))
        /\ tx' = Written(output')
  BY DEF Write
<1>2. tx = "flush" /\ UNCHANGED <<input, rx, sent, received>>
  BY DEF Write
<1>3. PICK S, pos, k : Stream(S, pos, k)
  BY DEF InvStream
<1> DEFINE c == pos[k + 1] - 1
           d == output.data
<1>4. Sound(output) /\ d \in Seq(Char) /\ Len(d) \in Nat
  BY DataIsChars DEF InvStates
<1>5. Sound(output)' /\ output'.data = SubSeq(d, n + 1, Len(d))
  <2>1. Sound(Prepared(output)) /\ Prepared(output).data = d
    BY <1>4, PreparedIsSound
  <2>2. n \in 0..Len(Prepared(output).data)
    BY <1>4, <2>1
  <2>3. /\ Sound(decr(Prepared(output), n))
        /\ decr(Prepared(output), n).data = SubSeq(d, n + 1, Len(d))
    BY <2>1, <2>2, DecrIsSound
  <2>4. Sound(nice(decr(Prepared(output), n))) /\ nice(decr(Prepared(output), n)).data = SubSeq(d, n + 1, Len(d))
    BY <2>3, NiceIsSound
  <2> QED
    BY <1>1, <2>4
<1>6. /\ c \in Nat /\ S \in Seq(Char) /\ wire \in Seq(Char) /\ Len(input.data) \in Nat /\ Len(wire) \in Nat
  BY <1>3, StreamTypes
<1>7. /\ c + Len(input.data) + Len(wire) + Len(d) = Len(S)
      /\ Window(input.data, S, c) /\ Window(wire, S, c + Len(input.data))
      /\ Window(d, S, c + Len(input.data) + Len(wire))
  BY <1>3 DEF Stream, Carried
<1> HIDE DEF c, d
<1> DEFINE x == c + Len(input.data)
<1>8. x \in Nat /\ n \in 0..Len(d)
  BY <1>4, <1>6 DEF d
<1>9. /\ wire' \in Seq(Char) /\ Len(wire') = Len(wire) + n /\ Len(output'.data) = Len(d) - n
      /\ Window(wire', S, x) /\ Window(output'.data, S, x + Len(wire'))
  <2> HIDE DEF x
  <2>1. Window(wire, S, x) /\ Window(d, S, x + Len(wire))
    BY <1>7 DEF x
  <2> DEFINE u2 == wire \o SubSeq(d, 1, n)
             v2 == SubSeq(d, n + 1, Len(d))
  <2>2. wire' = u2 /\ output'.data = v2
    BY <1>1, <1>5 DEF d
  <2>3. /\ u2 \in Seq(Char) /\ Len(u2) = Len(wire) + n /\ Len(v2) = Len(d) - n
        /\ Window(u2, S, x) /\ Window(v2, S, x + Len(u2))
    BY <1>4, <1>6, <1>8, <2>1, WindowMoves, SMTT(30)
  <2> HIDE DEF u2, v2
  <2> QED
    BY <2>2, <2>3
<1>10. Carried(S, c, input.data, wire', output'.data)
  <2>1. x + (Len(wire) + n) + (Len(d) - n) = x + Len(wire) + Len(d)
    <3> DEFINE y == Len(wire)
               z == Len(d)
    <3>1. x \in Nat /\ y \in Nat /\ z \in Nat /\ n \in Nat
      BY <1>4, <1>6, <1>8
    <3> HIDE DEF x, y, z
    <3>2. x + (y + n) + (z - n) = x + y + z
      BY <3>1
    <3> QED
      BY <3>2 DEF y, z
  <2> QED
    BY <1>7, <1>9, <2>1 DEF Carried
<1>11. Stream(S, pos, k)'
  BY <1>2, <1>3, <1>10 DEF Stream, c
<1>12. InvStates'
  BY <1>1, <1>2, <1>5, <1>9 DEF InvStates, Written
<1>13. InvResponse'
  BY <1>2 DEF InvResponse, ToRead
<1> QED
  BY <1>11, <1>12, <1>13 DEF InvStream

LEMMA SendKeepsInv ==
  ASSUME LinkInv, Send PROVE LinkInv'
<1> USE DEF LinkInv
<1>1. PICK packet \in Packets : output' = Packed(output, packet) /\ sent' = Append(sent, packet)
  BY DEF Send
<1>2. tx = "idle" /\ UNCHANGED <<input, wire, tx, rx, received>>
  BY DEF Send
<1>3. Sound(output)' /\ InvStream'
  BY <1>1, <1>2, SendKeepsStream
<1>4. sent' \in Seq(Packets)
  BY <1>1 DEF InvStates
<1>5. InvStates'
  BY <1>2, <1>3, <1>4 DEF InvStates
<1>6. InvResponse'
  BY <1>2 DEF InvResponse, ToRead
<1> QED
  BY <1>3, <1>5, <1>6

LEMMA EnlargedIsSound ==
  ASSUME NEW b, Sound(b)
  PROVE  Sound(Enlarged(b)) /\ Enlarged(b).data = b.data /\ space(Enlarged(b)) > 0
<1>1. Sound(nice(b)) /\ nice(b).data = b.data
  BY NiceIsSound
<1>2. Sound(grow(nice(b))) /\ grow(nice(b)).data = b.data /\ space(grow(nice(b))) > space(nice(b))
  BY <1>1, GrowIsSound
<1>3. space(b) \in Int /\ space(nice(b)) \in Int /\ space(grow(nice(b))) \in Int /\ space(nice(b)) >= 0
  <2>1. space(nice(b)) >= 0
    BY <1>1 DEF Sound, space, ByteBuffers
  <2> QED
    BY <1>1, <1>2, <2>1, DataIsChars
<1> QED
  BY <1>1, <1>2, <1>3 DEF Enlarged

(* read() has room, when the buffer has, or is empty. *)
LEMMA RoomToRead ==
  ASSUME NEW b, Sound(b), space(b) > 0 \/ b.data = <<>>
  PROVE  space(nice(Prepared(b))) > 0
<1>1. Sound(Prepared(b)) /\ space(Prepared(b)) >= space(b) /\ Prepared(b).data = b.data
  BY PreparedIsSound
<1>2. /\ Sound(nice(Prepared(b))) /\ space(nice(Prepared(b))) >= space(Prepared(b))
      /\ b.data = <<>> => space(nice(Prepared(b))) > 0
  BY <1>1, NiceIsSound
<1>3. space(b) \in Int /\ space(Prepared(b)) \in Int /\ space(nice(Prepared(b))) \in Int
  BY <1>1, <1>2, DataIsChars
<1> QED
  BY <1>1, <1>2, <1>3

LEMMA ParseNothingKeepsInv ==
  ASSUME LinkInv, ParseNothing PROVE LinkInv'
<1> USE DEF LinkInv
<1>1. /\ Parsed(input.data).result = "not ready"
      /\ input' = IF input.data = <<>> THEN input ELSE Enlarged(input)
      /\ rx' = "read" /\ UNCHANGED <<output, wire, tx, sent, received>>
  BY DEF ParseNothing
<1>2. Sound(input)' /\ input'.data = input.data /\ (space(input') > 0 \/ input'.data = <<>>)
  BY <1>1, EnlargedIsSound DEF InvStates
<1>3. space(ToRead)' > 0
  BY <1>2, RoomToRead DEF ToRead
<1>4. InvStates'
  BY <1>1, <1>2 DEF InvStates
<1>5. InvStream'
  BY <1>1, <1>2 DEF InvStream, Stream
<1>6. InvResponse'
  BY <1>1, <1>2, <1>3 DEF InvResponse
<1> QED
  BY <1>4, <1>5, <1>6

LEMMA ReadSomeKeepsInv ==
  ASSUME LinkInv, ReadSome PROVE LinkInv'
<1> USE DEF LinkInv
<1> DEFINE n == IF Len(wire) < space(ToRead) THEN Len(wire) ELSE space(ToRead)
           d == input.data
<1>1. /\ space(ToRead) > 0 /\ wire # <<>>
      /\ input' = incr(ToRead, SubSeq(wire, 1, n)) /\ wire' = SubSeq(wire, n + 1, Len(wire))
      /\ rx' = "parse" /\ UNCHANGED <<output, tx, sent, received>>
  BY DEF ReadSome
<1>2. Sound(ToRead) /\ ToRead.data = d
  <2>1. Sound(Prepared(input)) /\ Prepared(input).data = d
    BY PreparedIsSound DEF InvStates
  <2> QED
    BY <2>1, NiceIsSound DEF ToRead
<1>3. PICK S, pos, k : Stream(S, pos, k)
  BY DEF InvStream
<1> DEFINE c == pos[k + 1] - 1
<1>4. /\ c \in Nat /\ S \in Seq(Char) /\ wire \in Seq(Char) /\ d \in Seq(Char)
      /\ Len(d) \in Nat /\ Len(wire) \in Nat /\ Len(output.data) \in Nat
  BY <1>3, StreamTypes
<1>5. n \in 0..Len(wire) /\ n <= space(ToRead)
  <2>1. space(ToRead) \in Int
    BY <1>2, DataIsChars
  <2> QED
    BY <1>1, <1>4, <2>1
<1>6. /\ c + Len(d) + Len(wire) + Len(output.data) = Len(S)
      /\ Window(d, S, c) /\ Window(wire, S, c + Len(d))
      /\ Window(output.data, S, c + Len(d) + Len(wire))
  BY <1>3 DEF Stream, Carried
<1> HIDE DEF n, c
<1>7. SubSeq(wire, 1, n) \in Seq(Char) /\ Len(SubSeq(wire, 1, n)) = n
  BY <1>4, <1>5
<1>8. Sound(input)' /\ input'.data = d \o SubSeq(wire, 1, n)
  BY <1>1, <1>2, <1>5, <1>7, IncrIsSound
<1> HIDE DEF d
<1>9. /\ wire' \in Seq(Char) /\ Len(input'.data) = Len(d) + n /\ Len(wire') = Len(wire) - n
      /\ Window(input'.data, S, c) /\ Window(wire', S, c + Len(input'.data))
  <2> DEFINE u2 == d \o SubSeq(wire, 1, n)
             v2 == SubSeq(wire, n + 1, Len(wire))
  <2>1. /\ u2 \in Seq(Char) /\ v2 \in Seq(Char)
        /\ Len(u2) = Len(d) + n /\ Len(v2) = Len(wire) - n
        /\ Window(u2, S, c) /\ Window(v2, S, c + Len(u2))
    BY <1>4, <1>5, <1>6, WindowMoves
  <2> QED
    BY <1>1, <1>8, <2>1
<1>10. Carried(S, c, input'.data, wire', output.data)
  <2>1. c + (Len(d) + n) + (Len(wire) - n) = c + Len(d) + Len(wire)
    BY <1>4, <1>5
  <2> QED
    BY <1>6, <1>9, <2>1 DEF Carried
<1>11. Stream(S, pos, k)'
  BY <1>1, <1>3, <1>10 DEF Stream, c
<1>12. InvStates'
  BY <1>1, <1>8, <1>9 DEF InvStates
<1>13. InvResponse'
  BY <1>1 DEF InvResponse
<1> QED
  BY <1>11, <1>12, <1>13 DEF InvStream

LEMMA ReadNothingKeepsInv ==
  ASSUME LinkInv, ReadNothing PROVE LinkInv'
<1> USE DEF LinkInv
<1>1. /\ rx = "read" /\ (space(ToRead) <= 0 \/ (wire = <<>> /\ tx = "closed"))
      /\ input' = ToRead /\ rx' = "closed" /\ UNCHANGED <<output, wire, tx, sent, received>>
  BY DEF ReadNothing
<1>2. Sound(input)' /\ input'.data = input.data
  <2>1. Sound(Prepared(input)) /\ Prepared(input).data = input.data
    BY PreparedIsSound DEF InvStates
  <2> QED
    BY <1>1, <2>1, NiceIsSound DEF ToRead
<1>3. wire = <<>> /\ tx = "closed"
  <2>1. space(ToRead) > 0 /\ space(ToRead) \in Int
    BY <1>1, <1>2, DataIsChars DEF InvResponse
  <2> QED
    BY <1>1, <2>1
<1>4. InvStates'
  BY <1>1, <1>2 DEF InvStates
<1>5. InvStream'
  BY <1>1, <1>2 DEF InvStream, Stream
<1>6. InvResponse'
  BY <1>1, <1>2, <1>3 DEF InvResponse
<1> QED
  BY <1>4, <1>5, <1>6

LEMMA WindowDrops ==
  ASSUME NEW v \in Seq(Char), NEW S \in Seq(Char), NEW x \in Nat, Window(v, S, x), NEW n \in 0..Len(v)
  PROVE  LET v2 == SubSeq(v, n + 1, Len(v))
         IN  Len(v2) = Len(v) - n /\ Window(v2, S, x + n)
<1> DEFINE v2 == SubSeq(v, n + 1, Len(v))
<1>1. Len(v) \in Nat /\ n \in Nat /\ n <= Len(v) /\ Len(S) \in Nat
  OBVIOUS
<1>2. v2 \in Seq(Char) /\ Len(v2) = Len(v) - n /\ \A j \in 1..Len(v) - n : v2[j] = v[n + j]
  BY <1>1
<1>3. x + Len(v) <= Len(S) /\ \A j \in 1..Len(v) : v[j] = S[x + j]
  BY DEF Window
<1> HIDE DEF v2
<1>4. ASSUME NEW j \in 1..Len(v2) PROVE v2[j] = S[(x + n) + j]
  <2>1. n + j \in 1..Len(v) /\ x + (n + j) = (x + n) + j /\ j \in 1..Len(v) - n
    BY <1>1, <1>2
  <2> QED
    BY <1>2, <1>3, <2>1
<1>5. (x + n) + Len(v2) <= Len(S)
  BY <1>1, <1>2, <1>3
<1> QED
  BY <1>2, <1>4, <1>5 DEF Window, v2

(* The next packet with records that is behind the first k, if any.        *)
LEMMA NextPacket ==
  ASSUME NEW s \in Seq(Packets), NEW k \in 0..Len(s)
  PROVE  \/ \A i \in k + 1..Len(s) : s[i] = <<>>
         \/ \E m \in k + 1..Len(s) : s[m] # <<>> /\ \A i \in k + 1..m - 1 : s[i] = <<>>
<1> DEFINE T == {i \in k + 1..Len(s) : s[i] # <<>>}
<1>1. Len(s) \in Nat /\ k \in Nat
  OBVIOUS
<1>2. SUFFICES ASSUME T # {}
      PROVE  \E m \in k + 1..Len(s) : s[m] # <<>> /\ \A i \in k + 1..m - 1 : s[i] = <<>>
  OBVIOUS
<1>3. T \subseteq Nat
  BY <1>1
<1>4. PICK m \in T : \A u \in T : ~ (u < m)
  <2> HIDE DEF T
  <2> QED
    BY <1>2, <1>3, LeastExists
<1>5. ASSUME NEW i \in k + 1..m - 1 PROVE s[i] = <<>>
  <2>1. m \in Nat /\ m <= Len(s)
    BY <1>1, <1>4
  <2>2. i \in k + 1..Len(s) /\ i < m
    BY <1>1, <2>1
  <2> QED
    BY <1>4, <2>2
<1> QED
  BY <1>4, <1>5

LEMMA ParsePacketKeepsInv ==
  ASSUME LinkInv, ParsePacket PROVE LinkInv'
<1> USE DEF LinkInv
<1> DEFINE d == input.data
           f == Parsed(d)
<1>1. /\ f.result = "packet" /\ received' = Append(received, f.records)
      /\ input' = decr(input, f.used) /\ UNCHANGED <<output, wire, tx, rx, sent>> /\ rx = "parse"
  BY DEF ParsePacket
<1>2. PICK S, pos, k : Stream(S, pos, k)
  BY DEF InvStream
<1> DEFINE c == pos[k + 1] - 1
           n == Len(sent)
<1>3. /\ c \in Nat /\ S \in Seq(Char) /\ wire \in Seq(Char) /\ d \in Seq(Char)
      /\ Len(d) \in Nat /\ Len(wire) \in Nat /\ Len(output.data) \in Nat
      /\ n \in Nat /\ k \in 0..n /\ k \in Nat /\ pos \in [1..n + 1 -> Nat \ {0}]
      /\ pos[k + 1] \in Nat \ {0} /\ sent \in Seq(Packets)
  BY <1>2, StreamTypes DEF InvStates
<1>4. /\ c + Len(d) + Len(wire) + Len(output.data) = Len(S)
      /\ Window(d, S, c) /\ Window(wire, S, c + Len(d))
      /\ Window(output.data, S, c + Len(d) + Len(wire))
      /\ LiesAll(S, pos, sent) /\ received = Kept(sent)[k]
  BY <1>2 DEF Stream, Carried
<1> HIDE DEF f, d
<1>5. ~ \A i \in k + 1..n : sent[i] = <<>>
  <2> SUFFICES ASSUME \A i \in k + 1..n : sent[i] = <<>> PROVE FALSE
    OBVIOUS
  <2>1. f = NotReady
    BY <1>3, <1>4, ParsedEmpty DEF f
  <2> QED
    BY <1>1, <2>1 DEF NotReady
<1>6. PICK m \in k + 1..n : sent[m] # <<>> /\ \A i \in k + 1..m - 1 : sent[i] = <<>>
  BY <1>3, <1>5, NextPacket
<1> DEFINE used == pos[m + 1] - pos[k + 1]
<1>7. Outcome(d, f, sent[m], used)
  BY <1>3, <1>4, <1>6, ParsedPacket DEF f
<1> HIDE DEF used
<1>8. used <= Len(d) /\ f = [result |-> "packet", records |-> sent[m], used |-> used]
  <2>1. f # NotReady /\ f # BadFormat
    <3>1. NotReady.result = "not ready" /\ BadFormat.result = "error"
      BY DEF NotReady, BadFormat
    <3> QED
      BY <1>1, <3>1
  <2> QED
    BY <1>7, <2>1 DEF Outcome
<1>9. f.records = sent[m] /\ f.used = used
  BY <1>8
<1>10. /\ m \in Nat /\ m \in 0..n /\ m \in 1..n /\ m - 1 \in k..n /\ m + 1 \in 1..n + 1
       /\ k + 1 \in 1..n + 1 /\ k + 1 <= m + 1
  BY <1>3, <1>6
<1>11. used \in 0..Len(d) /\ pos[m + 1] - 1 = c + used
  <2>1. pos[k + 1] <= pos[m + 1] /\ pos[m + 1] \in Nat
    BY <1>3, <1>4, <1>10, PositionsGrow
  <2> DEFINE a == pos[k + 1]
             b == pos[m + 1]
  <2>2. a \in Nat /\ b \in Nat /\ a <= b /\ used = b - a /\ c = a - 1
    BY <1>3, <2>1 DEF used
  <2> HIDE DEF a, b, c
  <2>3. used \in Nat /\ b - 1 = c + used
    BY <2>2
  <2> QED
    BY <1>3, <1>8, <2>3 DEF b
<1>12. Sound(input)' /\ input'.data = SubSeq(d, used + 1, Len(d))
  BY <1>1, <1>9, <1>11, DecrIsSound DEF InvStates, d
<1> HIDE DEF c
<1>13. Len(input'.data) = Len(d) - used /\ Window(input'.data, S, c + used)
  <2>1. d \in Seq(Char) /\ S \in Seq(Char) /\ c \in Nat /\ used \in 0..Len(d)
    BY <1>3, <1>11
  <2> QED
    BY <1>4, <1>12, <2>1, WindowDrops
<1>14. Carried(S, c + used, input'.data, wire, output.data)
  <2> DEFINE x == Len(d)
  <2>1. x \in Nat /\ used \in Nat
    BY <1>3, <1>11
  <2> HIDE DEF x
  <2>2. (c + used) + (x - used) = c + x
    BY <1>3, <2>1
  <2> QED
    BY <1>4, <1>13, <2>2 DEF Carried, x
<1>15. received' = Kept(sent)[m]
  <2>1. Kept(sent)[m - 1] = Kept(sent)[k]
    BY <1>3, <1>6, <1>10, KeptSkips
  <2>2. Kept(sent)[m] = Append(Kept(sent)[m - 1], sent[m])
    BY <1>3, <1>6, <1>10, KeptUnfolds DEF AreKept
  <2> QED
    BY <1>1, <1>4, <1>9, <2>1, <2>2
<1>16. Stream(S, pos, m)'
  BY <1>1, <1>3, <1>4, <1>10, <1>11, <1>14, <1>15 DEF Stream
<1>17. InvStates'
  BY <1>1, <1>12 DEF InvStates
<1>18. InvResponse'
  BY <1>1 DEF InvResponse
<1> QED
  BY <1>16, <1>17, <1>18 DEF InvStream

(* LinkInv is inductive. *)
LEMMA StepKeepsInv == LinkInv /\ [Next]_vars => LinkInv'
<1> SUFFICES ASSUME LinkInv, [Next]_vars PROVE LinkInv'
  OBVIOUS
<1>1. CASE Send
  BY <1>1, SendKeepsInv
<1>2. CASE Write
  BY <1>2, WriteKeepsInv
<1>3. CASE Flush
  BY <1>3 DEF Flush, LinkInv, InvStates, InvStream, InvResponse, Stream, ToRead
<1>4. CASE Close
  BY <1>4 DEF Close, LinkInv, InvStates, InvStream, InvResponse, Stream, ToRead
<1>5. CASE ParsePacket
  BY <1>5, ParsePacketKeepsInv
<1>6. CASE ParseNothing
  BY <1>6, ParseNothingKeepsInv
<1>7. CASE ParseError
  BY <1>7 DEF ParseError, LinkInv, InvStates, InvStream, InvResponse, Stream
<1>8. CASE ReadSome
  BY <1>8, ReadSomeKeepsInv
<1>9. CASE ReadNothing
  BY <1>9, ReadNothingKeepsInv
<1>10. CASE UNCHANGED vars
  BY <1>10 DEF vars, LinkInv, InvStates, InvStream, InvResponse, Stream, ToRead
<1> QED
  BY <1>1, <1>2, <1>3, <1>4, <1>5, <1>6, <1>7, <1>8, <1>9, <1>10 DEF Next, Response

LEMMA InvAlways == Spec => []LinkInv
<1>1. Init => LinkInv
  BY InitIsInv
<1>2. LinkInv /\ [Next]_vars => LinkInv'
  BY StepKeepsInv
<1> QED
  BY <1>1, <1>2, PTL DEF Spec

-----------------------------------------------------------------------------
LEMMA InvGivesType == LinkInv => TypeOK
<1> SUFFICES ASSUME LinkInv PROVE TypeOK
  OBVIOUS
<1>1. PICK S, pos, k : Stream(S, pos, k)
  BY DEF LinkInv, InvStream
<1>2. received \in Seq(Packets)
  BY <1>1, KeptIsPackets DEF LinkInv, InvStates, Stream
<1> QED
  BY <1>2 DEF LinkInv, InvStates, Sound, TypeOK

(* What was returned is the beginning of what was sent. *)
LEMMA ReceivedIsPrefix ==
  ASSUME LinkInv
  PROVE  Len(received) <= Len(Expected) /\ \A i \in DOMAIN received : received[i] = Expected[i]
<1>1. PICK S, pos, k : Stream(S, pos, k)
  BY DEF LinkInv, InvStream
<1> DEFINE n == Len(sent)
<1>2. sent \in Seq(Packets) /\ k \in 0..n /\ n \in 0..n /\ k <= n /\ received = Kept(sent)[k]
  BY <1>1, StreamTypes DEF LinkInv, InvStates, Stream
<1>3. received \in Seq(Packets)
  BY <1>2, KeptIsPackets
<1> DEFINE kept == Kept(sent)
<1>4. Len(kept[k]) <= Len(kept[n]) /\ \A x \in 1..Len(kept[k]) : kept[n][x] = kept[k][x]
  BY <1>2, KeptGrows
<1>5. Expected = kept[n] /\ received = kept[k]
  BY <1>2 DEF Expected
<1>6. DOMAIN received = 1..Len(received)
  BY <1>3
<1> HIDE DEF kept, n
<1> QED
  BY <1>4, <1>5, <1>6

(* The size of a packet is the room it takes in the stream.                *)
LEMMA SizeIsRoom ==
  ASSUME NEW packet, Packet(packet), NEW S, NEW p, NEW e, LiesPacket(S, p, packet, e)
  PROVE  Size(packet) = e - p
<1> DEFINE data == Packed(NewBuffer, packet).data
<1>1. /\ Sound(Packed(NewBuffer, packet))
      /\ LiesPacket(data, Len(NewBuffer.data) + 1, packet, Len(data) + 1)
  BY NewIsSound, PackedLies
<1>2. Len(NewBuffer.data) + 1 = 1
  BY NewIsSound
<1>3. Len(data) \in Nat
  BY <1>1, DataIsChars
<1> HIDE DEF data
<1>4. e - p = (Len(data) + 1) - 1
  BY <1>1, <1>2, LengthIsFixed
<1> QED
  BY <1>3, <1>4 DEF Size, data

LEMMA ErrorIsTooLong ==
  ASSUME LinkInv, rx = "error"
  PROVE  LET next  == Len(received) + 1
             empty == Len(sent) - Len(Expected)
         IN  /\ next \in DOMAIN Expected
             /\ Size(Expected[next]) + empty > MaxPacketSize
<1>1. PICK S, pos, k : Stream(S, pos, k)
  BY DEF LinkInv, InvStream
<1> DEFINE n == Len(sent)
           d == input.data
           c == pos[k + 1] - 1
           f == Parsed(d)
<1>2. /\ d \in Seq(Char) /\ S \in Seq(Char) /\ n \in Nat /\ k \in 0..n /\ k \in Nat
      /\ pos \in [1..n + 1 -> Nat \ {0}] /\ sent \in Seq(Packets)
  BY <1>1, StreamTypes DEF LinkInv, InvStates
<1>3. Window(d, S, c) /\ LiesAll(S, pos, sent) /\ received = Kept(sent)[k]
  BY <1>1 DEF Stream, Carried
<1>4. f.result = "error"
  BY DEF LinkInv, InvResponse
<1> HIDE DEF d, c
<1>5. NotReady.result = "not ready" /\ BadFormat.result = "error"
  BY DEF NotReady, BadFormat
<1> HIDE DEF f
<1>6. ~ \A i \in k + 1..n : sent[i] = <<>>
  <2> SUFFICES ASSUME \A i \in k + 1..n : sent[i] = <<>> PROVE FALSE
    OBVIOUS
  <2>1. f = NotReady
    BY <1>2, <1>3, ParsedEmpty DEF f, c
  <2> QED
    BY <1>4, <1>5, <2>1
<1>7. PICK m \in k + 1..n : sent[m] # <<>> /\ \A i \in k + 1..m - 1 : sent[i] = <<>>
  BY <1>2, <1>6, NextPacket
<1> DEFINE used == pos[m + 1] - pos[k + 1]
           packet == sent[m]
<1>8. Outcome(d, f, packet, used)
  BY <1>2, <1>3, <1>7, ParsedPacket DEF f, c
<1>9. used > MaxPacketSize
  <2> HIDE DEF used
  <2>1. f # NotReady
    BY <1>4, <1>5
  <2>2. f # [result |-> "packet", records |-> packet, used |-> used]
    BY <1>4
  <2> QED
    BY <1>8, <2>1, <2>2 DEF Outcome
<1>10. /\ m \in Nat /\ m \in 0..n /\ m \in 1..n /\ m - 1 \in k..n /\ m - 1 \in 0..n /\ n \in 0..n
       /\ m + 1 \in 1..n + 1 /\ m \in 1..n + 1 /\ k + 1 \in 1..n + 1 /\ m \in k + 1..n + 1
       /\ m <= n /\ m - 1 <= n /\ k < m
  BY <1>2, <1>7
<1>11. Packet(packet) /\ packet \in Packets /\ LiesPacket(S, pos[m], packet, pos[m + 1])
  BY <1>2, <1>3, <1>10, PacketsArePackets DEF LiesAll
<1>12. Size(packet) = pos[m + 1] - pos[m]
  BY <1>11, SizeIsRoom
<1>13. pos[m] = pos[k + 1] + (m - 1 - k)
  <2>1. LiesAll(S, pos, sent) /\ m \in k + 1..n + 1 /\ k \in 0..n /\ \A i \in k + 1..m - 1 : sent[i] = <<>>
    BY <1>2, <1>3, <1>7, <1>10
  <2>2. S \in Seq(Char) /\ sent \in Seq(Packets)
    BY <1>2
  <2> QED
    BY <2>1, <2>2, EmptyLines
<1>14. used = Size(packet) + (m - 1 - k)
  <2> DEFINE a == pos[k + 1]
             b == pos[m]
             z == pos[m + 1]
             i == m - 1 - k
  <2>1. a \in Nat /\ b \in Nat /\ z \in Nat /\ i \in Nat
    <3>1. a \in Nat /\ b \in Nat /\ z \in Nat
      BY <1>2, <1>10
    <3>2. i \in Nat
      BY <1>2, <1>10
    <3> QED
      BY <3>1, <3>2
  <2>2. used = z - a /\ Size(packet) = z - b /\ b = a + i
    BY <1>12, <1>13
  <2> HIDE DEF a, b, z, i, used
  <2>3. used = Size(packet) + i
    BY <2>1, <2>2
  <2> QED
    BY <2>3 DEF i
<1> HIDE DEF used
<1> DEFINE kept == Kept(sent)
<1>15. kept[m - 1] = received /\ kept[m] = Append(received, packet)
  <2>1. kept[m - 1] = kept[k]
    BY <1>2, <1>7, <1>10, KeptSkips
  <2>2. kept[m] = Append(kept[m - 1], sent[m])
    BY <1>2, <1>7, <1>10, KeptUnfolds DEF AreKept
  <2> QED
    BY <1>3, <2>1, <2>2
<1>16. /\ received \in Seq(Packets) /\ Len(received) <= k /\ Len(received) \in Nat
       /\ kept[n] \in Seq(Packets) /\ Len(kept[n]) \in Nat
  <2>1. received \in Seq(Packets) /\ Len(received) <= k /\ kept[n] \in Seq(Packets)
    BY <1>2, <1>3, <1>10, KeptIsPackets
  <2> QED
    BY <2>1
<1>17. Len(kept[m]) = Len(received) + 1 /\ kept[m][Len(received) + 1] = packet
  <2> HIDE DEF kept, packet
  <2> QED
    BY <1>11, <1>15, <1>16
<1>18. /\ Len(kept[m]) <= Len(kept[n]) /\ \A x \in 1..Len(kept[m]) : kept[n][x] = kept[m][x]
       /\ Len(kept[n]) <= Len(kept[m - 1]) + (n - (m - 1))
  BY <1>2, <1>10, KeptGrows
<1> DEFINE next == Len(received) + 1
<1>19. Expected = kept[n]
  BY DEF Expected
<1> HIDE DEF kept, packet, n
<1>20. next \in 1..Len(kept[n]) /\ kept[n][next] = packet
  BY <1>16, <1>17, <1>18
<1>21. Len(kept[n]) <= Len(received) + (n - (m - 1)) /\ Len(received) <= k
  BY <1>15, <1>16, <1>18
<1>22. m - 1 - k <= n - Len(kept[n])
  <2> DEFINE x == Len(kept[n])
             y == Len(received)
  <2>1. x \in Nat /\ y \in Nat /\ x <= y + (n - (m - 1)) /\ y <= k
    BY <1>16, <1>21
  <2> HIDE DEF x, y
  <2>2. m - 1 - k <= n - x
    BY <1>2, <1>10, <2>1
  <2> QED
    BY <2>2 DEF x
<1>23. Size(packet) + (n - Len(kept[n])) > MaxPacketSize
  <2> DEFINE x == Size(packet)
             y == n - Len(kept[n])
             i == m - 1 - k
  <2>1. x \in Int /\ y \in Int /\ i \in Int
    <3>1. x \in Int
      BY <1>2, <1>10, <1>12
    <3> QED
      BY <1>2, <1>10, <1>16, <3>1
  <2>2. i <= y /\ x + i > MaxPacketSize
    BY <1>9, <1>14, <1>22
  <2> HIDE DEF x, y, i
  <2>3. x + y > MaxPacketSize
    BY <2>1, <2>2, LinkAssumption
  <2> QED
    BY <2>3 DEF x, y
<1>24. next \in DOMAIN Expected
  BY <1>16, <1>19, <1>20
<1> QED
  BY <1>19, <1>20, <1>23, <1>24 DEF n

LEMMA InvGivesPackets == LinkInv => InvPackets
<1> SUFFICES ASSUME LinkInv PROVE InvPackets
  OBVIOUS
<1> QED
  BY ReceivedIsPrefix, ErrorIsTooLong DEF InvPackets

LEMMA InvGivesEnd == LinkInv => InvEnd
<1> SUFFICES ASSUME LinkInv, rx = "closed"
             PROVE  tx = "closed" /\ wire = <<>> /\ (output.data = <<>> => received = Expected)
  BY DEF InvEnd
<1>1. tx = "closed" /\ wire = <<>> /\ Parsed(input.data).result = "not ready"
  BY DEF LinkInv, InvResponse
<1>2. SUFFICES ASSUME output.data = <<>> PROVE received = Expected
  BY <1>1
<1>3. PICK S, pos, k : Stream(S, pos, k)
  BY DEF LinkInv, InvStream
<1> DEFINE n == Len(sent)
           d == input.data
           c == pos[k + 1] - 1
           f == Parsed(d)
<1>4. /\ d \in Seq(Char) /\ S \in Seq(Char) /\ n \in Nat /\ k \in 0..n /\ k \in Nat /\ c \in Nat
      /\ pos \in [1..n + 1 -> Nat \ {0}] /\ sent \in Seq(Packets) /\ Len(d) \in Nat /\ Len(S) \in Nat
      /\ pos[k + 1] \in Nat
  BY <1>3, StreamTypes DEF LinkInv, InvStates
<1>5. Window(d, S, c) /\ LiesAll(S, pos, sent) /\ received = Kept(sent)[k]
  BY <1>3 DEF Stream, Carried
<1>6. c + Len(d) = Len(S)
  <2>1. c + Len(d) + Len(wire) + Len(output.data) = Len(S)
    BY <1>3 DEF Stream, Carried
  <2>2. Len(wire) = 0 /\ Len(output.data) = 0
    BY <1>1, <1>2
  <2> QED
    BY <1>4, <2>1, <2>2
<1> HIDE DEF d, c
<1>7. CASE \A i \in k + 1..n : sent[i] = <<>>
  <2>1. n \in k..n
    BY <1>4
  <2>2. Kept(sent)[n] = Kept(sent)[k]
    BY <1>4, <1>7, <2>1, KeptSkips
  <2> QED
    BY <1>5, <2>2 DEF Expected
<1>8. CASE \E m \in k + 1..n : sent[m] # <<>> /\ \A i \in k + 1..m - 1 : sent[i] = <<>>
  <2>1. PICK m \in k + 1..n : sent[m] # <<>> /\ \A i \in k + 1..m - 1 : sent[i] = <<>>
    BY <1>8
  <2> DEFINE used == pos[m + 1] - pos[k + 1]
             g == Parsed(d)
  <2>2. Outcome(d, g, sent[m], used)
    BY <1>4, <1>5, <2>1, ParsedPacket DEF c
  <2>3. m \in 1..n
    BY <1>4
  <2>4. Packet(sent[m]) /\ LiesPacket(S, pos[m], sent[m], pos[m + 1])
    BY <1>4, <1>5, <2>3, PacketsArePackets DEF LiesAll
  <2>5. pos[m + 1] \in Nat /\ pos[m + 1] <= Len(S) + 1
    BY <1>4, <2>4, PacketWithin
  <2>6. used <= Len(d)
    <3> DEFINE a == pos[k + 1]
               b == pos[m + 1]
    <3>1. a \in Nat /\ b \in Nat /\ b <= Len(S) + 1 /\ c = a - 1
      BY <1>4, <2>5 DEF c
    <3> HIDE DEF a, b
    <3>2. b - a <= Len(d)
      BY <1>4, <1>6, <3>1
    <3> QED
      BY <3>2 DEF a, b
  <2>7. g.result = "not ready"
    BY <1>1 DEF d
  <2>8. used \in Int
    BY <1>4, <2>5
  <2> HIDE DEF used, g
  <2>9. g = BadFormat
    <3>1. ~ (used > Len(d))
      BY <1>4, <2>6, <2>8
    <3>2. g # [result |-> "packet", records |-> sent[m], used |-> used]
      <4>1. [result |-> "packet", records |-> sent[m], used |-> used].result = "packet"
        OBVIOUS
      <4> QED
        BY <2>7, <4>1
    <3> QED
      BY <2>2, <3>1, <3>2 DEF Outcome
  <2> QED
    BY <2>7, <2>9 DEF BadFormat
<1> QED
  BY <1>4, <1>7, <1>8, NextPacket

-----------------------------------------------------------------------------
(* The buffers, the wire and what is sent and returned are of their types  *)
(* in every state.                                                         *)
THEOREM TypeCorrect == Spec => []TypeOK
<1>1. LinkInv => TypeOK
  BY InvGivesType
<1> QED
  BY <1>1, InvAlways, PTL

(* Nothing is ever written behind the end of a Buffer, and nice() copies   *)
(* no bytes over one another, whatever the sizes (bytes.cpp).              *)
THEOREM RoomCorrect == Spec => []InvRoom
<1>1. LinkInv => InvRoom
  BY SoundIsWithin DEF LinkInv, InvStates, InvRoom
<1> QED
  BY <1>1, InvAlways, PTL

(* response() returns the packets that send() was given, in their order,   *)
(* however the bytes are cut, and an error only for one too long.          *)
THEOREM PacketsCorrect == Spec => []InvPackets
<1>1. LinkInv => InvPackets
  BY InvGivesPackets
<1> QED
  BY <1>1, InvAlways, PTL

(* response() returns NULL only at the end of the stream, with every       *)
(* packet that was written returned before.                                *)
THEOREM EndCorrect == Spec => []InvEnd
<1>1. LinkInv => InvEnd
  BY InvGivesEnd
<1> QED
  BY <1>1, InvAlways, PTL

=============================================================================
