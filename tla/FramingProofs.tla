--------------------------- MODULE FramingProofs ---------------------------
(***************************************************************************)
(* The safety of Framing for any number and any lengths of packets, and    *)
(* any segments.  FrameInv is inductive: how the packets lie in the stream *)
(* (Laid), where in a packet each place of RecvProc is (StepInv), and what *)
(* the controllers have been given by then (OrderInv).                     *)
(***************************************************************************)
EXTENDS Framing, SequenceTheorems, TLAPS

\* Each packet starts where the one before it ends.
Laid ==
    /\ \A k \in DOMAIN sent : k = 1 => sent[k].start = 0
    /\ \A k \in DOMAIN sent : k + 1 \in DOMAIN sent =>
         sent[k + 1].start = sent[k].start + sent[k].len
    /\ \A j, k \in DOMAIN sent : j < k => sent[j].start + sent[j].len <= sent[k].start

\* The one header of the thread: it has it outside PacketBuild.
HeaderInv ==
    /\ lent = IF pc = "PacketBuild" THEN 0 ELSE 1
    /\ pc = "RecvMessageHeader" => totalRecvSize = 0
    /\ pc = "RecvMessage" => totalRecvSize < header.PacketLen

\* No byte will come any more.
Drained == peer = "gone" /\ arrived = consumed

\* RecvProc is totalRecvSize bytes into packet k, whose header it has.
InPacket(k) ==
    /\ k \in DOMAIN sent
    /\ header.PacketLen = sent[k].len
    /\ consumed = sent[k].start + totalRecvSize

\* It has read packet k, or all there will be of it.
ReadPacket(k) ==
    /\ InPacket(k)
    /\ totalRecvSize = sent[k].len \/ Drained

\* While peeks return the length, RecvProc knows which packet it is in.
StepInv ==
    shortest >= 4 =>
        /\ pc \in {"PacketBuild", "RecvMessageHeader"} =>
             Drained \/ \E k \in 1..Len(sent) + 1 : consumed = Start(k)
        /\ pc = "RecvMessage" => \E k \in DOMAIN sent : InPacket(k)
        /\ pc \in {"ExecuteCallback", "OnRecvMessage", "ReleasePacket"} =>
             \E k \in DOMAIN sent : ReadPacket(k)

\* While they return the type too, that packet is the next to be dispatched, or
\* the one that just was.
OrderInv ==
    shortest >= 8 =>
        /\ \A i \in DOMAIN dispatched :
             /\ i \in DOMAIN sent
             /\ dispatched[i].packet = i
             /\ \/ dispatched[i].bytes = sent[i].len
                \/ /\ i = Len(dispatched) /\ Drained
                   /\ pc \notin {"RecvMessage", "ExecuteCallback"}
        /\ pc \in {"PacketBuild", "RecvMessageHeader"} =>
             Drained \/ consumed = Start(Len(dispatched) + 1)
        /\ pc = "RecvMessage" =>
             header.PacketType = Len(dispatched) + 1 /\ InPacket(header.PacketType)
        /\ pc = "ExecuteCallback" =>
             header.PacketType = Len(dispatched) + 1 /\ ReadPacket(header.PacketType)
        /\ pc \in {"OnRecvMessage", "ReleasePacket"} => ReadPacket(Len(dispatched))

FrameInv ==
    /\ TypeOK
    /\ Laid
    /\ HeaderInv
    /\ StepInv
    /\ OrderInv

-----------------------------------------------------------------------------
(* The stream.                                                             *)

\* The numbers of the program.
LEMMA Numbers ==
  /\ HeaderLen = 12 /\ bufferMaxSize \in Nat \ {0} /\ INT32_MAX \in Nat
  /\ Byte \in Nat \ {0}
  BY DEF HeaderLen, bufferMaxSize, INT32_MAX, Byte

\* What the types say of the packets sent.
LEMMA SentFacts ==
  ASSUME TypeOK
  PROVE  /\ Len(sent) \in Nat
         /\ DOMAIN sent = 1..Len(sent)
         /\ \A k \in DOMAIN sent : /\ sent[k] \in [start : Nat, len : PacketLens]
                                   /\ sent[k].start \in Nat
                                   /\ sent[k].len \in HeaderLen..INT32_MAX
  <1>1. sent \in Seq([start : Nat, len : PacketLens])
    BY DEF TypeOK
  <1>2. /\ Len(sent) \in Nat
        /\ DOMAIN sent = 1..Len(sent)
        /\ \A k \in DOMAIN sent : sent[k] \in [start : Nat, len : PacketLens]
    BY <1>1, LenProperties, ElementOfSeq
  <1> QED
    BY <1>2, FramingAssumption

\* Where the packets start, and that the last one ends the stream.
LEMMA StartFacts ==
  ASSUME TypeOK, Laid
  PROVE  /\ StreamEnd \in Nat
         /\ Start(Len(sent) + 1) = StreamEnd
         /\ \A k \in DOMAIN sent :
              /\ Start(k) = sent[k].start
              /\ Start(k + 1) = sent[k].start + sent[k].len
              /\ sent[k].start + sent[k].len <= StreamEnd
         /\ sent = <<>> => Len(sent) = 0
         /\ sent # <<>> => Len(sent) \in DOMAIN sent
  <1>1. /\ Len(sent) \in Nat
        /\ DOMAIN sent = 1..Len(sent)
        /\ \A k \in DOMAIN sent : sent[k].start \in Nat /\ sent[k].len \in Nat
    BY SentFacts DEF HeaderLen
  <1>2. sent = <<>> <=> Len(sent) = 0
    BY EmptySeq DEF TypeOK
  <1>3. sent # <<>> => Len(sent) \in DOMAIN sent
    BY <1>1, <1>2
  <1>4. StreamEnd \in Nat
    BY <1>1, <1>3 DEF StreamEnd
  <1>5. Start(Len(sent) + 1) = StreamEnd
    BY <1>1 DEF Start
  <1>6. ASSUME NEW k \in DOMAIN sent
        PROVE  /\ Start(k) = sent[k].start
               /\ Start(k + 1) = sent[k].start + sent[k].len
               /\ sent[k].start + sent[k].len <= StreamEnd
    <2>1. Start(k) = sent[k].start
      BY <1>1 DEF Start
    <2>2. sent # <<>>
      BY <1>1, <1>2
    <2>3. CASE k = Len(sent)
      BY <1>1, <1>5, <2>1, <2>2, <2>3 DEF StreamEnd
    <2>4. CASE k # Len(sent)
      <3>1. k < Len(sent) /\ k + 1 \in DOMAIN sent /\ Len(sent) \in DOMAIN sent
        BY <1>1, <2>4
      <3>2. Start(k + 1) = sent[k + 1].start
        BY <1>1, <3>1 DEF Start
      <3>3. sent[k + 1].start = sent[k].start + sent[k].len
        BY <3>1 DEF Laid
      <3>4. sent[k].start + sent[k].len <= sent[Len(sent)].start
        BY <3>1 DEF Laid
      <3>5. StreamEnd = sent[Len(sent)].start + sent[Len(sent)].len
        BY <2>2 DEF StreamEnd
      <3> QED
        BY <1>1, <2>1, <3>1, <3>2, <3>3, <3>4, <3>5
    <2> QED
      BY <2>3, <2>4
  <1> QED
    BY <1>2, <1>3, <1>4, <1>5, <1>6

\* No two packets, and not the next one either, start at one place.
LEMMA OneStart ==
  ASSUME TypeOK, Laid, NEW k \in DOMAIN sent, NEW j \in 1..Len(sent) + 1,
         Start(j) = sent[k].start
  PROVE  j = k
  <1>1. /\ Len(sent) \in Nat
        /\ DOMAIN sent = 1..Len(sent)
        /\ \A i \in DOMAIN sent : sent[i].start \in Nat /\ sent[i].len \in Nat \ {0}
    BY SentFacts DEF HeaderLen
  <1>2. CASE j \in DOMAIN sent
    <2>1. sent[j].start = sent[k].start
      BY <1>2, StartFacts
    <2>2. ASSUME NEW a \in DOMAIN sent, NEW b \in DOMAIN sent, a < b
          PROVE  sent[a].start # sent[b].start
      <3>1. sent[a].start + sent[a].len <= sent[b].start
        BY <2>2 DEF Laid
      <3> QED
        BY <1>1, <3>1
    <2>3. ~(j < k) /\ ~(k < j)
      BY <1>2, <2>1, <2>2
    <2> QED
      BY <1>1, <1>2, <2>3
  <1>3. CASE j \notin DOMAIN sent
    <2>1. j = Len(sent) + 1
      BY <1>1, <1>3
    <2>2. StreamEnd = sent[k].start /\ sent[k].start + sent[k].len <= StreamEnd
      BY <2>1, StartFacts
    <2> QED
      BY <1>1, <2>2
  <1> QED
    BY <1>2, <1>3

\* A packet that is sent comes after the others and moves none.
LEMMA SendKeeps ==
  ASSUME TypeOK, Laid, NEW len \in PacketLens, SendPacket(len)
  PROVE  /\ Laid'
         /\ sent' \in Seq([start : Nat, len : PacketLens])
         /\ Len(sent') = Len(sent) + 1
         /\ DOMAIN sent' = 1..Len(sent) + 1
         /\ \A k \in DOMAIN sent : k \in DOMAIN sent' /\ sent'[k] = sent[k]
         /\ \A k \in 1..Len(sent) + 1 : Start(k)' = Start(k)
         /\ StreamEnd' \in Nat /\ StreamEnd <= StreamEnd'
  <1> DEFINE x == [start |-> StreamEnd, len |-> len]
             n == Len(sent) + 1
  <1>1. /\ Len(sent) \in Nat
        /\ DOMAIN sent = 1..Len(sent)
        /\ \A k \in DOMAIN sent : sent[k].start \in Nat /\ sent[k].len \in Nat
    BY SentFacts DEF HeaderLen
  <1>2. StreamEnd \in Nat /\ len \in Nat
    BY StartFacts, FramingAssumption DEF HeaderLen
  <1>3. sent' = Append(sent, x)
    BY DEF SendPacket
  <1>4. sent \in Seq([start : Nat, len : PacketLens]) /\ x \in [start : Nat, len : PacketLens]
    BY <1>2 DEF TypeOK
  <1>5. /\ sent' \in Seq([start : Nat, len : PacketLens])
        /\ Len(sent') = n
        /\ \A k \in 1..Len(sent) : sent'[k] = sent[k]
        /\ sent'[n] = x
        /\ sent' # <<>>
    BY <1>3, <1>4, AppendProperties
  <1>6. DOMAIN sent' = 1..n
    BY <1>5, LenProperties
  <1>7. x.start = StreamEnd /\ x.len = len
    OBVIOUS
  <1> HIDE DEF x, n
  <1>8. n = Len(sent) + 1
    BY DEF n
  <1>9. \A k \in 1..Len(sent) + 1 : Start(k)' = Start(k)
    <2> SUFFICES ASSUME NEW k \in 1..Len(sent) + 1
                 PROVE  Start(k)' = Start(k)
      OBVIOUS
    <2>1. Start(k)' = IF k <= Len(sent') THEN sent'[k].start ELSE StreamEnd'
      BY DEF Start
    <2>2. Start(k)' = sent'[k].start
      BY <1>1, <1>5, <1>8, <2>1
    <2>3. CASE k \in DOMAIN sent
      BY <1>1, <1>5, <2>2, <2>3, StartFacts
    <2>4. CASE k = n
      BY <1>5, <1>7, <1>8, <2>2, <2>4, StartFacts
    <2> QED
      BY <1>1, <1>8, <2>3, <2>4
  <1>10. StreamEnd' = StreamEnd + len
    <2>1. StreamEnd' = sent'[Len(sent')].start + sent'[Len(sent')].len
      BY <1>5 DEF StreamEnd
    <2> QED
      BY <1>5, <1>7, <2>1
  <1>11. Laid'
    <2>1. \A k \in DOMAIN sent' : k = 1 => sent'[k].start = 0
      <3>1. CASE 1 \in DOMAIN sent
        BY <1>1, <1>5, <3>1 DEF Laid
      <3>2. CASE 1 \notin DOMAIN sent
        <4>1. n = 1 /\ sent = <<>>
          BY <1>1, <1>8, <3>2, StartFacts
        <4> QED
          BY <1>5, <1>7, <4>1 DEF StreamEnd
      <3> QED
        BY <3>1, <3>2
    <2>2. ASSUME NEW k \in DOMAIN sent', k + 1 \in DOMAIN sent'
          PROVE  sent'[k + 1].start = sent'[k].start + sent'[k].len
      <3>1. k \in DOMAIN sent /\ sent'[k] = sent[k]
        BY <1>1, <1>5, <1>6, <1>8, <2>2
      <3>2. CASE k + 1 \in DOMAIN sent
        BY <1>1, <1>5, <3>1, <3>2 DEF Laid
      <3>3. CASE k + 1 \notin DOMAIN sent
        <4>1. k + 1 = n
          BY <1>1, <1>6, <1>8, <2>2, <3>3
        <4>2. Start(k + 1) = sent[k].start + sent[k].len /\ Start(k + 1) = StreamEnd
          BY <1>8, <3>1, <4>1, StartFacts
        <4> QED
          BY <1>5, <1>7, <3>1, <4>1, <4>2
      <3> QED
        BY <3>2, <3>3
    <2>3. ASSUME NEW j \in DOMAIN sent', NEW k \in DOMAIN sent', j < k
          PROVE  sent'[j].start + sent'[j].len <= sent'[k].start
      <3>1. j \in DOMAIN sent /\ sent'[j] = sent[j]
        BY <1>1, <1>5, <1>6, <1>8, <2>3
      <3>2. CASE k \in DOMAIN sent
        BY <1>1, <1>5, <2>3, <3>1, <3>2 DEF Laid
      <3>3. CASE k = n
        BY <1>5, <1>7, <3>1, <3>3, StartFacts
      <3> QED
        BY <1>1, <1>6, <1>8, <3>2, <3>3
    <2> QED
      BY <2>1, <2>2, <2>3 DEF Laid
  <1> QED
    BY <1>1, <1>2, <1>5, <1>6, <1>8, <1>9, <1>10, <1>11

\* A remainder is no more than the number.
LEMMA Remainder ==
  ASSUME NEW n \in Nat, NEW d \in Nat \ {0}
  PROVE  n % d \in 0..n
  <1>1. n % d \in 0..d - 1 /\ n \div d \in Int /\ n = (n \div d) * d + (n % d)
    BY Z3
  <1>2. n \div d >= 0
    BY Z3
  <1>3. (n \div d) * d >= 0
    BY <1>1, <1>2
  <1> QED
    BY <1>1, <1>3

\* A peek of four bytes or more gives the length, a shorter one a smaller number.
LEMMA PeekedLength ==
  ASSUME NEW len \in HeaderLen..INT32_MAX, NEW n \in 1..HeaderLen
  PROVE  PacketLenOf(len, n) \in 0..INT32_MAX /\ (n >= 4 => PacketLenOf(len, n) = len)
  <1>1. CASE n >= 4
    BY <1>1, Numbers DEF PacketLenOf
  <1>2. CASE n < 4
    <2>1. LowBytes[n] \in Nat \ {0}
      <3>1. Byte * Byte \in Nat \ {0}
        BY Numbers
      <3>2. (Byte * Byte) * Byte \in Nat \ {0}
        BY <3>1, Numbers
      <3>3. n \in {1, 2, 3}
        BY <1>2 DEF HeaderLen
      <3> QED
        BY <3>1, <3>2, <3>3, Numbers DEF LowBytes
    <2>2. len \in Nat /\ len <= INT32_MAX
      BY Numbers
    <2>3. len % LowBytes[n] \in 0..len
      BY <2>1, <2>2, Remainder
    <2>4. PacketLenOf(len, n) = len - (len % LowBytes[n])
      BY <1>2 DEF PacketLenOf
    <2> QED
      BY <1>2, <2>2, <2>3, <2>4, Numbers
  <1> QED
    BY <1>1, <1>2, Numbers

\* What a peek at packet k gives.
LEMMA PeekFacts ==
  ASSUME TypeOK, Laid, NEW k \in DOMAIN sent, NEW n \in 1..HeaderLen
  PROVE  /\ Fields(k, n) \in [PacketLen : 0..INT32_MAX, PacketType : 0..MaxPackets]
         /\ n >= 4 => Fields(k, n).PacketLen = sent[k].len
         /\ n >= 8 => Fields(k, n).PacketType = k
  <1>1. /\ sent[k].len \in HeaderLen..INT32_MAX /\ k \in 1..Len(sent) /\ Len(sent) \in Nat
        /\ Len(sent) <= MaxPackets /\ MaxPackets \in Nat
    BY SentFacts, FramingAssumption DEF TypeOK
  <1>2. /\ PacketLenOf(sent[k].len, n) \in 0..INT32_MAX
        /\ n >= 4 => PacketLenOf(sent[k].len, n) = sent[k].len
    BY <1>1, PeekedLength
  <1> QED
    BY <1>1, <1>2 DEF Fields, NONE

-----------------------------------------------------------------------------
(* Types, the stream and the header.                                       *)

\* What the types say of the counters of RecvProc.
LEMMA Counters ==
  ASSUME TypeOK, Laid
  PROVE  /\ arrived \in Nat /\ consumed \in Nat /\ consumed <= arrived
         /\ StreamEnd \in Nat /\ arrived <= StreamEnd
         /\ header.PacketLen \in Nat /\ header.PacketType \in Nat
         /\ totalRecvSize \in Nat /\ totalRecvSize <= header.PacketLen
         /\ lent \in Nat /\ shortest \in 1..12 /\ Available = arrived - consumed
  <1>1. StreamEnd \in Nat
    BY StartFacts
  <1>2. header.PacketLen \in Nat /\ header.PacketType \in Nat
    BY Numbers, FramingAssumption DEF TypeOK
  <1> QED
    BY <1>1, <1>2, Numbers DEF TypeOK, Available

\* A recv returns a byte at least, and no more than is there or was asked for.
LEMMA RecvFacts ==
  ASSUME TypeOK, Laid, RecvMessage, totalRecvSize < header.PacketLen
  PROVE  /\ \E n \in Nat : consumed' = consumed + n /\ totalRecvSize' = totalRecvSize + n
         /\ consumed' \in Nat /\ consumed' <= arrived
         /\ totalRecvSize' \in Nat /\ totalRecvSize < totalRecvSize'
         /\ totalRecvSize' <= header.PacketLen
  <1> DEFINE sub == Smaller(header.PacketLen - totalRecvSize, bufferMaxSize)
             n   == Smaller(sub, Available)
  <1>1. /\ Available > 0
        /\ consumed' = consumed + n /\ totalRecvSize' = totalRecvSize + n
    BY DEF RecvMessage
  <1>2. sub \in Nat \ {0} /\ sub <= header.PacketLen - totalRecvSize
    BY Counters, Numbers DEF Smaller
  <1> HIDE DEF sub
  <1>3. n \in Nat \ {0} /\ n <= sub /\ n <= arrived - consumed
    BY <1>1, <1>2, Counters DEF Smaller
  <1> HIDE DEF n
  <1> QED
    BY <1>1, <1>2, <1>3, Counters

\* What a peek gives: the fields of the packet that starts there, or OutOfStep.
LEMMA PeekStep ==
  ASSUME TypeOK, Laid, RecvMessageHeader
  PROVE  /\ UNCHANGED <<sent, arrived, peer, consumed, totalRecvSize, lent, dispatched>>
         /\ pc = "RecvMessageHeader" /\ consumed < arrived
         /\ \/ \E k \in DOMAIN sent, n \in 1..HeaderLen :
                 /\ consumed = sent[k].start
                 /\ header' = Fields(k, n)
                 /\ shortest' = Smaller(shortest, n)
                 /\ pc' = IF header'.PacketLen = 0 THEN "ExecuteCallback" ELSE "RecvMessage"
            \/ /\ \A k \in DOMAIN sent : consumed # sent[k].start
               /\ pc' = "OutOfStep"
               /\ UNCHANGED <<header, shortest>>
  <1> DEFINE n == Smaller(HeaderLen, Available)
  <1>1. Available > 0
    BY DEF RecvMessageHeader
  <1>2. n \in 1..HeaderLen /\ consumed < arrived
    BY <1>1, Counters, Numbers DEF Smaller
  <1>3. \A k \in DOMAIN sent : Start(k) = sent[k].start
    BY StartFacts
  <1>4. UNCHANGED <<sent, arrived, peer, consumed, totalRecvSize, lent, dispatched>>
    BY DEF RecvMessageHeader, stream
  <1>5. CASE \E k \in DOMAIN sent :
               /\ consumed = Start(k)
               /\ shortest' = Smaller(shortest, n)
               /\ header' = Fields(k, n)
               /\ pc' = IF header'.PacketLen = 0 THEN "ExecuteCallback" ELSE "RecvMessage"
    <2>1. PICK k \in DOMAIN sent :
            /\ consumed = Start(k)
            /\ shortest' = Smaller(shortest, n)
            /\ header' = Fields(k, n)
            /\ pc' = IF header'.PacketLen = 0 THEN "ExecuteCallback" ELSE "RecvMessage"
      BY <1>5
    <2> HIDE DEF n
    <2>2. consumed = sent[k].start
      BY <1>3, <2>1
    <2> QED
      BY <1>2, <1>4, <2>1, <2>2 DEF RecvMessageHeader
  <1>6. CASE /\ \A k \in DOMAIN sent : consumed # Start(k)
             /\ pc' = "OutOfStep"
             /\ UNCHANGED <<header, shortest>>
    BY <1>2, <1>3, <1>4, <1>6 DEF RecvMessageHeader
  <1> QED
    BY <1>5, <1>6 DEF RecvMessageHeader

\* TypeOK is preserved.
LEMMA TypeStep ==
  ASSUME TypeOK, Laid, HeaderInv, Next
  PROVE  TypeOK'
  <1>1. /\ StreamEnd \in Nat
        /\ UNCHANGED sent => StreamEnd' = StreamEnd
    BY StartFacts DEF StreamEnd
  <1> USE DEF TypeOK
  <1>2. ASSUME NEW len \in PacketLens, SendPacket(len)
        PROVE  TypeOK'
    <2>1. /\ sent' \in Seq([start : Nat, len : PacketLens])
          /\ Len(sent') = Len(sent) + 1
          /\ StreamEnd' \in Nat /\ StreamEnd <= StreamEnd'
      BY <1>2, SendKeeps
    <2>2. Len(sent') <= MaxPackets
      BY <1>2, <2>1, SentFacts, FramingAssumption DEF SendPacket
    <2>3. arrived \in 0..StreamEnd'
      BY <1>1, <2>1
    <2> QED
      BY <1>2, <2>1, <2>2, <2>3 DEF SendPacket
  <1>3. CASE Deliver
    <2>1. PICK k \in DOMAIN sent, offset \in Cuts \cup PacketLens :
            /\ offset <= sent[k].len
            /\ Start(k) + offset > arrived
            /\ arrived' = Start(k) + offset
      BY <1>3 DEF Deliver
    <2>2. /\ Start(k) = sent[k].start /\ sent[k].start + sent[k].len <= StreamEnd
          /\ sent[k].start \in Nat /\ sent[k].len \in Nat
      <3>1. /\ Start(k) = sent[k].start /\ sent[k].start + sent[k].len <= StreamEnd
        BY <2>1, StartFacts
      <3>2. /\ sent[k].start \in Nat /\ sent[k].len \in HeaderLen..INT32_MAX
        BY <2>1, SentFacts
      <3> QED
        BY <3>1, <3>2, Numbers
    <2>3. offset \in Nat
      BY FramingAssumption, Numbers
    <2>4. arrived' \in Nat /\ arrived' <= StreamEnd /\ arrived < arrived'
      <3> DEFINE a == sent[k].start
                 l == sent[k].len
      <3>1. /\ a \in Nat /\ l \in Nat /\ arrived' = a + offset
            /\ offset <= l /\ a + offset > arrived
            /\ a + l <= StreamEnd
        BY <2>1, <2>2
      <3>2. arrived \in Nat /\ StreamEnd \in Nat
        BY Counters
      <3> HIDE DEF a, l, TypeOK
      <3> QED
        BY <2>3, <3>1, <3>2
    <2>5. arrived' \in 0..StreamEnd /\ consumed \in 0..arrived'
      BY <1>1, <2>4, Counters
    <2>6. UNCHANGED <<sent, consumed, peer, pc, header, totalRecvSize, lent,
                      dispatched, shortest>>
      BY <1>3 DEF Deliver
    <2> QED
      BY <1>1, <2>5, <2>6
  <1>4. CASE Lose
    <2>1. arrived' \in 0..StreamEnd /\ consumed \in 0..arrived'
      BY <1>4, Counters DEF Lose
    <2>2. UNCHANGED <<sent, consumed, pc, header, totalRecvSize, lent, dispatched,
                      shortest>> /\ peer' = "gone"
      BY <1>4 DEF Lose
    <2> QED
      BY <1>1, <2>1, <2>2
  <1>5. CASE PacketBuild
    <2>1. NewHeader \in [PacketLen : 0..INT32_MAX, PacketType : 0..MaxPackets]
      BY Numbers, FramingAssumption DEF NewHeader, NONE
    <2>2. 0 \in 0..NewHeader.PacketLen
      BY DEF NewHeader
    <2>3. lent + 1 \in Nat
      OBVIOUS
    <2> QED
      BY <1>1, <1>5, <2>1, <2>2, <2>3 DEF PacketBuild, stream
  <1>6. CASE RecvMessageHeader
    <2>1. UNCHANGED <<sent, arrived, peer, consumed, totalRecvSize, lent, dispatched>>
      BY <1>6, PeekStep
    <2>2. totalRecvSize = 0
      BY <1>6 DEF HeaderInv, RecvMessageHeader
    <2>3. /\ header' \in [PacketLen : 0..INT32_MAX, PacketType : 0..MaxPackets]
          /\ shortest' \in 1..HeaderLen
          /\ pc' \in {"RecvMessage", "ExecuteCallback", "OutOfStep"}
      <3>1. CASE \E k \in DOMAIN sent, n \in 1..HeaderLen :
                   /\ header' = Fields(k, n)
                   /\ shortest' = Smaller(shortest, n)
                   /\ pc' = IF header'.PacketLen = 0 THEN "ExecuteCallback" ELSE "RecvMessage"
        BY <3>1, PeekFacts DEF Smaller
      <3>2. CASE pc' = "OutOfStep" /\ UNCHANGED <<header, shortest>>
        BY <3>2
      <3> QED
        BY <1>6, <3>1, <3>2, PeekStep
    <2>4. 0 \in 0..header'.PacketLen
      BY <2>3, Numbers
    <2> QED
      BY <1>1, <2>1, <2>2, <2>3, <2>4
  <1>7. CASE HeaderFails
    BY <1>1, <1>7 DEF HeaderFails, stream
  <1>8. CASE RecvMessage
    <2>1. /\ UNCHANGED <<sent, arrived, peer, header, lent, dispatched, shortest>>
          /\ pc' \in {"RecvMessage", "ExecuteCallback"}
      BY <1>8 DEF RecvMessage, stream
    <2>2. consumed' \in 0..arrived /\ totalRecvSize' \in 0..header.PacketLen
      BY <1>8, RecvFacts, Counters DEF HeaderInv, RecvMessage
    <2> QED
      BY <1>1, <2>1, <2>2
  <1>9. CASE RecvFails
    BY <1>1, <1>9 DEF RecvFails, stream
  <1>10. CASE ExecuteCallback
    <2>1. dispatched' \in Seq([packet : 1..MaxPackets, bytes : Nat])
      <3>1. CASE header.PacketType = NONE
        BY <1>10, <3>1 DEF ExecuteCallback
      <3>2. CASE header.PacketType # NONE
        <4>1. header.PacketType \in 1..MaxPackets /\ totalRecvSize \in Nat
          BY <3>2, Counters, FramingAssumption DEF NONE
        <4> DEFINE x == [packet |-> header.PacketType, bytes |-> totalRecvSize]
        <4>2. x \in [packet : 1..MaxPackets, bytes : Nat]
          BY <4>1
        <4>3. dispatched' = Append(dispatched, x)
          BY <1>10, <3>2 DEF ExecuteCallback
        <4> HIDE DEF x
        <4> QED
          BY <4>2, <4>3, AppendProperties
      <3> QED
        BY <3>1, <3>2
    <2> QED
      BY <1>1, <1>10, <2>1 DEF ExecuteCallback, stream
  <1>11. CASE ReleasePacket
    <2>1. lent - 1 \in Nat
      BY <1>11 DEF ReleasePacket, HeaderInv
    <2> QED
      BY <1>1, <1>11, <2>1 DEF ReleasePacket, stream
  <1>12. CASE CloseSocket
    BY <1>1, <1>12 DEF CloseSocket, stream
  <1>13. CASE OutOfStep
    BY <1>1, <1>13 DEF OutOfStep, stream
  <1>14. CASE ControllerReturns
    BY <1>1, <1>14 DEF ControllerReturns, stream
  <1> QED
    BY <1>2, <1>3, <1>4, <1>5, <1>6, <1>7, <1>8, <1>9, <1>10, <1>11, <1>12, <1>13, <1>14
       DEF Next, RecvProc

\* Packets are only added to the stream.
LEMMA LaidStep ==
  ASSUME TypeOK, Laid, Next
  PROVE  Laid'
  <1>1. CASE UNCHANGED sent
    BY <1>1 DEF Laid
  <1>2. CASE \E len \in PacketLens : SendPacket(len)
    BY <1>2, SendKeeps
  <1> QED
    BY <1>1, <1>2 DEF Next, RecvProc, Deliver, Lose, PacketBuild, RecvMessageHeader,
                      HeaderFails, RecvMessage, RecvFails, ExecuteCallback, ControllerReturns,
                      ReleasePacket,
                      CloseSocket, OutOfStep, stream

\* A header is taken by PacketBuild and given back by ReleasePacket only.
LEMMA HeaderStep ==
  ASSUME TypeOK, Laid, HeaderInv, Next
  PROVE  HeaderInv'
  <1> USE DEF HeaderInv
  <1>1. CASE \/ \E len \in PacketLens : SendPacket(len)
             \/ Deliver \/ Lose
    BY <1>1 DEF SendPacket, Deliver, Lose
  <1>2. CASE PacketBuild
    BY <1>2 DEF PacketBuild
  <1>3. CASE RecvMessageHeader
    <2>1. UNCHANGED lent /\ pc' \in {"ExecuteCallback", "RecvMessage", "OutOfStep"}
      BY <1>3, PeekStep
    <2>2. pc' = "RecvMessage" => totalRecvSize' = 0 /\ header'.PacketLen \in Nat \ {0}
      <3>1. header'.PacketLen \in Nat
        BY TypeStep, Numbers DEF Next, TypeOK
      <3> QED
        BY <1>3, <3>1, PeekStep
    <2> QED
      BY <1>3, <2>1, <2>2 DEF RecvMessageHeader
  <1>4. CASE RecvMessage
    <2>1. /\ UNCHANGED <<lent, header>>
          /\ pc' \in {"RecvMessage", "ExecuteCallback"}
          /\ pc' = "RecvMessage" => totalRecvSize' < header.PacketLen
      BY <1>4 DEF RecvMessage
    <2> QED
      BY <1>4, <2>1 DEF RecvMessage
  <1>5. CASE HeaderFails \/ RecvFails \/ ControllerReturns \/ CloseSocket \/ OutOfStep
    BY <1>5 DEF HeaderFails, RecvFails, ControllerReturns, CloseSocket, OutOfStep
  <1>6. CASE ExecuteCallback
    BY <1>6 DEF ExecuteCallback
  <1>7. CASE ReleasePacket
    BY <1>7 DEF ReleasePacket
  <1> QED
    BY <1>1, <1>2, <1>3, <1>4, <1>5, <1>6, <1>7 DEF Next, RecvProc

-----------------------------------------------------------------------------
(* Where RecvProc is in the stream.                                        *)

\* The client and the network leave RecvProc where it is, and it never starts
\* to lack bytes before the peer is gone.
LEMMA OutsideSteps ==
  ASSUME TypeOK, Laid,
         (\E len \in PacketLens : SendPacket(len)) \/ Deliver \/ Lose
  PROVE  /\ UNCHANGED <<consumed, pc, header, totalRecvSize, lent, dispatched, shortest>>
         /\ Drained => Drained'
         /\ Len(sent) <= Len(sent')
         /\ \A k \in DOMAIN sent : k \in DOMAIN sent' /\ sent'[k] = sent[k]
         /\ \A k \in 1..Len(sent) + 1 : k \in 1..Len(sent') + 1 /\ Start(k)' = Start(k)
         /\ \A k \in DOMAIN sent : /\ InPacket(k) => InPacket(k)'
                                   /\ ReadPacket(k) => ReadPacket(k)'
  <1>1. /\ UNCHANGED <<consumed, pc, header, totalRecvSize, lent, dispatched, shortest>>
        /\ peer = "open"
    BY DEF SendPacket, Deliver, Lose
  <1>2. /\ Len(sent) <= Len(sent') /\ Len(sent') \in Nat
        /\ \A k \in DOMAIN sent : k \in DOMAIN sent' /\ sent'[k] = sent[k]
        /\ \A k \in 1..Len(sent) + 1 : Start(k)' = Start(k)
    <2>1. CASE UNCHANGED sent
      BY <2>1, SentFacts DEF Start, StreamEnd
    <2>2. CASE \E len \in PacketLens : SendPacket(len)
      BY <2>2, SendKeeps, SentFacts
    <2> QED
      BY <2>1, <2>2 DEF Deliver, Lose
  <1>3. \A k \in 1..Len(sent) + 1 : k \in 1..Len(sent') + 1
    BY <1>2, SentFacts
  <1>4. \A k \in DOMAIN sent : /\ InPacket(k) => InPacket(k)'
                               /\ ReadPacket(k) => ReadPacket(k)'
    BY <1>1, <1>2 DEF InPacket, ReadPacket, Drained
  <1> QED
    BY <1>1, <1>2, <1>3, <1>4 DEF Drained

\* A recv goes on in its packet, and leaves the loop at its end.
LEMMA RecvInPacket ==
  ASSUME TypeOK, Laid, HeaderInv, RecvMessage, NEW k \in DOMAIN sent, InPacket(k)
  PROVE  /\ pc' \in {"RecvMessage", "ExecuteCallback"}
         /\ InPacket(k)'
         /\ pc' = "ExecuteCallback" => ReadPacket(k)'
  <1>1. /\ UNCHANGED <<sent, header>>
        /\ pc' = IF totalRecvSize' < header.PacketLen THEN "RecvMessage" ELSE "ExecuteCallback"
        /\ pc = "RecvMessage"
    BY DEF RecvMessage, stream
  <1>2. /\ \E n \in Nat : consumed' = consumed + n /\ totalRecvSize' = totalRecvSize + n
        /\ consumed' \in Nat
        /\ totalRecvSize' \in Nat
        /\ totalRecvSize' <= header.PacketLen
    BY <1>1, RecvFacts DEF HeaderInv
  <1>3. /\ header.PacketLen = sent[k].len /\ consumed = sent[k].start + totalRecvSize
        /\ sent[k].start \in Nat /\ sent[k].len \in Nat
        /\ consumed \in Nat /\ totalRecvSize \in Nat
    BY SentFacts, Counters, Numbers DEF InPacket
  <1>4. consumed' = sent[k].start + totalRecvSize'
    <2> DEFINE a == sent[k].start
    <2>1. consumed = a + totalRecvSize /\ a \in Nat /\ totalRecvSize \in Nat
      BY <1>3
    <2> HIDE DEF a
    <2>2. PICK n \in Nat : consumed' = consumed + n /\ totalRecvSize' = totalRecvSize + n
      BY <1>2
    <2>3. consumed' = a + totalRecvSize'
      BY <2>1, <2>2
    <2> QED
      BY <2>3 DEF a
  <1>5. InPacket(k)'
    BY <1>1, <1>3, <1>4 DEF InPacket
  <1>6. pc' = "ExecuteCallback" => totalRecvSize' = sent[k].len
    BY <1>1, <1>2, <1>3
  <1> QED
    BY <1>1, <1>5, <1>6 DEF ReadPacket

\* A peek of four bytes or more, at the start of a packet, enters that packet.
LEMMA PeekEnters ==
  ASSUME TypeOK, Laid, HeaderInv, RecvMessageHeader,
         NEW j \in 1..Len(sent) + 1, consumed = Start(j), shortest' >= 4
  PROVE  /\ j \in DOMAIN sent /\ InPacket(j)'
         /\ pc' = "RecvMessage"
         /\ shortest' <= shortest
         /\ shortest' >= 8 => header'.PacketType = j
  <1>1. /\ UNCHANGED <<sent, arrived, peer, consumed, totalRecvSize, lent, dispatched>>
        /\ consumed < arrived /\ totalRecvSize = 0
    BY PeekStep DEF HeaderInv
  <1>2. /\ Len(sent) \in Nat /\ DOMAIN sent = 1..Len(sent)
    BY SentFacts
  <1>3. j \in DOMAIN sent /\ Start(j) = sent[j].start
    <2>1. j # Len(sent) + 1
      BY <1>1, StartFacts, Counters
    <2> QED
      BY <1>2, <2>1, StartFacts
  <1>4. PICK k \in DOMAIN sent, n \in 1..HeaderLen :
          /\ consumed = sent[k].start
          /\ header' = Fields(k, n)
          /\ shortest' = Smaller(shortest, n)
          /\ pc' = IF header'.PacketLen = 0 THEN "ExecuteCallback" ELSE "RecvMessage"
    BY <1>3, PeekStep
  <1>5. k = j
    BY <1>4, OneStart
  <1>6. n \in Nat /\ shortest \in Nat
    <2>1. n \in 1..12
      BY Numbers
    <2>2. shortest \in 1..12
      BY Counters
    <2> QED
      BY <2>1, <2>2
  <1>7. n >= 4 /\ shortest' <= shortest /\ (shortest' >= 8 => n >= 8)
    BY <1>4, <1>6 DEF Smaller
  <1>8. header'.PacketLen = sent[j].len /\ (shortest' >= 8 => header'.PacketType = j)
    BY <1>4, <1>5, <1>7, PeekFacts
  <1>9. sent[j].start \in Nat /\ sent[j].len \in Nat \ {0}
    BY <1>3, SentFacts, Numbers
  <1>10. InPacket(j)'
    BY <1>1, <1>3, <1>8, <1>9 DEF InPacket
  <1> QED
    BY <1>3, <1>4, <1>7, <1>8, <1>9, <1>10

\* With a byte to read, RecvProc is at no other place than the start of a packet.
LEMMA PeekIsDrained ==
  ASSUME RecvMessageHeader, TypeOK, Laid
  PROVE  ~Drained /\ shortest' <= shortest
  <1>1. consumed < arrived
    BY PeekStep
  <1>2. shortest' <= shortest
    BY PeekStep, Counters, Numbers DEF Smaller
  <1> QED
    BY <1>1, <1>2, Counters DEF Drained

\* A packet that was read to its end leaves RecvProc at the start of the next.
LEMMA ReadToNext ==
  ASSUME TypeOK, Laid, NEW k \in DOMAIN sent, ReadPacket(k)
  PROVE  Drained \/ consumed = Start(k + 1)
  BY StartFacts DEF ReadPacket, InPacket

\* StepInv is preserved.
LEMMA StepStep ==
  ASSUME TypeOK, Laid, HeaderInv, StepInv, Next
  PROVE  StepInv'
  <1> SUFFICES ASSUME shortest' >= 4
               PROVE  /\ pc' \in {"PacketBuild", "RecvMessageHeader"} =>
                           Drained' \/ \E k \in 1..Len(sent') + 1 : consumed' = Start(k)'
                      /\ pc' = "RecvMessage" => \E k \in DOMAIN sent' : InPacket(k)'
                      /\ pc' \in {"ExecuteCallback", "OnRecvMessage", "ReleasePacket"} =>
                           \E k \in DOMAIN sent' : ReadPacket(k)'
    BY DEF StepInv
  <1>1. CASE (\E len \in PacketLens : SendPacket(len)) \/ Deliver \/ Lose
    <2>1. /\ UNCHANGED <<consumed, pc, shortest>>
          /\ Drained => Drained'
          /\ \A k \in DOMAIN sent : k \in DOMAIN sent'
          /\ \A k \in 1..Len(sent) + 1 : k \in 1..Len(sent') + 1 /\ Start(k)' = Start(k)
          /\ \A k \in DOMAIN sent : /\ InPacket(k) => InPacket(k)'
                                    /\ ReadPacket(k) => ReadPacket(k)'
      BY <1>1, OutsideSteps
    <2> QED
      BY <2>1 DEF StepInv
  <1>2. CASE PacketBuild
    <2>1. /\ UNCHANGED <<sent, arrived, peer, consumed, shortest>>
          /\ pc = "PacketBuild" /\ pc' = "RecvMessageHeader"
      BY <1>2 DEF PacketBuild, stream
    <2>2. \A k \in 1..Len(sent) + 1 : Start(k)' = Start(k)
      BY <2>1 DEF Start, StreamEnd
    <2> QED
      BY <2>1, <2>2 DEF StepInv, Drained
  <1>3. CASE RecvMessageHeader
    <2>1. ~Drained /\ shortest' <= shortest
      BY <1>3, PeekIsDrained
    <2>2. shortest' \in Int /\ shortest \in Int
      <3>1. TypeOK'
        BY TypeStep
      <3> QED
        BY <3>1, Numbers DEF TypeOK
    <2>3. shortest >= 4
      BY <2>1, <2>2
    <2>4. PICK j \in 1..Len(sent) + 1 : consumed = Start(j)
      BY <1>3, <2>1, <2>3 DEF StepInv, RecvMessageHeader
    <2>5. j \in DOMAIN sent /\ InPacket(j)' /\ pc' = "RecvMessage"
      BY <1>3, <2>4, PeekEnters
    <2> QED
      BY <2>5 DEF InPacket
  <1>4. CASE RecvMessage
    <2>1. /\ shortest' = shortest /\ pc = "RecvMessage" /\ sent' = sent
      BY <1>4 DEF RecvMessage, stream
    <2>2. PICK k \in DOMAIN sent : InPacket(k)
      BY <2>1 DEF StepInv
    <2>3. /\ pc' \in {"RecvMessage", "ExecuteCallback"}
          /\ InPacket(k)'
          /\ pc' = "ExecuteCallback" => ReadPacket(k)'
      BY <1>4, <2>2, RecvInPacket
    <2> QED
      BY <2>1, <2>3
  <1>5. CASE RecvFails
    <2>1. /\ pc = "RecvMessage" /\ pc' = "ExecuteCallback"
          /\ UNCHANGED <<sent, arrived, peer, consumed, header, totalRecvSize, shortest>>
          /\ Available = 0 /\ peer = "gone"
      BY <1>5 DEF RecvFails, stream
    <2>2. PICK k \in DOMAIN sent : InPacket(k)
      BY <2>1 DEF StepInv
    <2>3. Drained
      BY <2>1, Counters DEF Drained
    <2>4. ReadPacket(k)'
      BY <2>1, <2>2, <2>3 DEF ReadPacket, InPacket, Drained
    <2> QED
      BY <2>1, <2>4
  <1>6. CASE ExecuteCallback
    <2>1. /\ pc = "ExecuteCallback" /\ pc' \in {"OnRecvMessage", "ReleasePacket"}
          /\ UNCHANGED <<sent, arrived, peer, consumed, header, totalRecvSize, shortest>>
      BY <1>6 DEF ExecuteCallback, stream
    <2>2. PICK k \in DOMAIN sent : ReadPacket(k)
      BY <2>1 DEF StepInv
    <2>3. ReadPacket(k)'
      BY <2>1, <2>2 DEF ReadPacket, InPacket, Drained
    <2> QED
      BY <2>1, <2>3
  <1>7. CASE ReleasePacket
    <2>1. /\ pc = "ReleasePacket" /\ pc' = "PacketBuild"
          /\ UNCHANGED <<sent, arrived, peer, consumed, header, totalRecvSize, shortest>>
      BY <1>7 DEF ReleasePacket, stream
    <2>2. PICK k \in DOMAIN sent : ReadPacket(k)
      BY <2>1 DEF StepInv
    <2>3. Drained \/ consumed = Start(k + 1)
      BY <2>2, ReadToNext
    <2>4. k + 1 \in 1..Len(sent) + 1
      BY SentFacts
    <2>5. Start(k + 1)' = Start(k + 1)
      BY <2>1 DEF Start, StreamEnd
    <2> QED
      BY <2>1, <2>3, <2>4, <2>5 DEF Drained
  <1>8. CASE HeaderFails \/ CloseSocket \/ OutOfStep
    BY <1>8 DEF HeaderFails, CloseSocket, OutOfStep
  <1>9. CASE ControllerReturns
    <2>1. /\ pc = "OnRecvMessage" /\ pc' = "ReleasePacket"
          /\ UNCHANGED <<sent, arrived, peer, consumed, header, totalRecvSize, shortest>>
      BY <1>9 DEF ControllerReturns, stream
    <2>2. PICK k \in DOMAIN sent : ReadPacket(k)
      BY <2>1 DEF StepInv
    <2>3. ReadPacket(k)'
      BY <2>1, <2>2 DEF ReadPacket, InPacket, Drained
    <2> QED
      BY <2>1, <2>3
  <1> QED
    BY <1>1, <1>2, <1>3, <1>4, <1>5, <1>6, <1>7, <1>8, <1>9 DEF Next, RecvProc

\* OrderInv is preserved.
LEMMA OrderStep ==
  ASSUME TypeOK, Laid, HeaderInv, OrderInv, Next
  PROVE  OrderInv'
  <1> DEFINE Whole(i) == dispatched[i].bytes = sent[i].len
             d == Len(dispatched)
  <1> SUFFICES ASSUME shortest' >= 8
               PROVE  /\ \A i \in DOMAIN dispatched' :
                           /\ i \in DOMAIN sent'
                           /\ dispatched'[i].packet = i
                           /\ \/ Whole(i)'
                              \/ /\ i = d' /\ Drained'
                                 /\ pc' \notin {"RecvMessage", "ExecuteCallback"}
                      /\ pc' \in {"PacketBuild", "RecvMessageHeader"} =>
                           Drained' \/ consumed' = Start(d + 1)'
                      /\ pc' = "RecvMessage" =>
                           header'.PacketType = d' + 1 /\ InPacket(header.PacketType)'
                      /\ pc' = "ExecuteCallback" =>
                           header'.PacketType = d' + 1 /\ ReadPacket(header.PacketType)'
                      /\ pc' \in {"OnRecvMessage", "ReleasePacket"} => ReadPacket(d)'
    BY DEF OrderInv
  <1>1. /\ Len(dispatched) \in Nat
        /\ DOMAIN dispatched = 1..Len(dispatched)
        /\ dispatched \in Seq([packet : 1..MaxPackets, bytes : Nat])
    <2>1. dispatched \in Seq([packet : 1..MaxPackets, bytes : Nat])
      BY DEF TypeOK
    <2> QED
      BY <2>1, LenProperties
  <1>2. Len(sent) \in Nat /\ DOMAIN sent = 1..Len(sent)
    BY SentFacts
  <1>3. CASE (\E len \in PacketLens : SendPacket(len)) \/ Deliver \/ Lose
    <2>1. /\ UNCHANGED <<consumed, pc, header, totalRecvSize, lent, dispatched, shortest>>
          /\ Drained => Drained'
          /\ \A k \in DOMAIN sent : k \in DOMAIN sent' /\ sent'[k] = sent[k]
          /\ \A k \in 1..Len(sent) + 1 : Start(k)' = Start(k)
          /\ \A k \in DOMAIN sent : /\ InPacket(k) => InPacket(k)'
                                    /\ ReadPacket(k) => ReadPacket(k)'
      BY <1>3, OutsideSteps
    <2>2. shortest >= 8
      BY <2>1
    <2>3. \A i \in DOMAIN dispatched :
            /\ i \in DOMAIN sent
            /\ dispatched[i].packet = i
            /\ \/ Whole(i)
               \/ i = d /\ Drained /\ pc \notin {"RecvMessage", "ExecuteCallback"}
      BY <2>2 DEF OrderInv
    <2>4. d + 1 \in 1..Len(sent) + 1
      <3>1. d = 0 \/ d \in DOMAIN sent
        BY <1>1, <2>3
      <3> QED
        BY <1>1, <1>2, <3>1
    <2>5. \A i \in DOMAIN dispatched' :
            /\ i \in DOMAIN sent'
            /\ dispatched'[i].packet = i
            /\ \/ Whole(i)'
               \/ i = d' /\ Drained' /\ pc' \notin {"RecvMessage", "ExecuteCallback"}
      BY <2>1, <2>3
    <2>6. pc \in {"PacketBuild", "RecvMessageHeader"} => Drained' \/ consumed' = Start(d + 1)'
      <3>1. Start(d + 1)' = Start(d + 1)
        BY <2>1, <2>4
      <3> QED
        BY <2>1, <2>2, <3>1 DEF OrderInv
    <2>7. /\ pc = "RecvMessage" =>
               header'.PacketType = d' + 1 /\ InPacket(header.PacketType)'
          /\ pc = "ExecuteCallback" =>
               header'.PacketType = d' + 1 /\ ReadPacket(header.PacketType)'
          /\ pc \in {"OnRecvMessage", "ReleasePacket"} => ReadPacket(d)'
      BY <2>1, <2>2 DEF OrderInv, InPacket, ReadPacket
    <2> QED
      BY <2>1, <2>5, <2>6, <2>7
  <1>4. CASE PacketBuild
    <2>1. /\ UNCHANGED <<sent, arrived, peer, consumed, dispatched, shortest>>
          /\ pc = "PacketBuild" /\ pc' = "RecvMessageHeader"
      BY <1>4 DEF PacketBuild, stream
    <2>2. Start(d + 1)' = Start(d + 1) /\ (Drained' <=> Drained)
      BY <2>1 DEF Start, StreamEnd, Drained
    <2> QED
      BY <2>1, <2>2 DEF OrderInv
  <1>5. CASE RecvMessageHeader
    <2>1. ~Drained /\ shortest' <= shortest
      BY <1>5, PeekIsDrained
    <2>2. shortest' \in Int /\ shortest \in Int
      <3>1. TypeOK'
        BY TypeStep
      <3> QED
        BY <3>1, Numbers DEF TypeOK
    <2>3. shortest >= 8 /\ shortest' >= 4
      BY <2>1, <2>2
    <2>4. /\ UNCHANGED <<sent, arrived, peer, consumed, totalRecvSize, dispatched>>
          /\ pc = "RecvMessageHeader"
      BY <1>5, PeekStep
    <2>5. \A i \in DOMAIN dispatched :
            i \in DOMAIN sent /\ dispatched[i].packet = i /\ Whole(i)
      BY <2>1, <2>3 DEF OrderInv
    <2>6. d + 1 \in 1..Len(sent) + 1
      <3>1. d = 0 \/ d \in DOMAIN sent
        BY <1>1, <2>5
      <3> QED
        BY <1>1, <1>2, <3>1
    <2>7. consumed = Start(d + 1)
      BY <2>1, <2>3, <2>4 DEF OrderInv
    <2>8. PICK j \in 1..Len(sent) + 1 : j = d + 1
      BY <2>6
    <2>9. InPacket(j)' /\ pc' = "RecvMessage" /\ header'.PacketType = j
      BY <1>5, <2>3, <2>7, <2>8, PeekEnters
    <2>10. InPacket(header.PacketType)'
      BY <2>9 DEF InPacket
    <2> QED
      BY <2>4, <2>5, <2>8, <2>9, <2>10
  <1>6. CASE RecvMessage
    <2>1. /\ UNCHANGED <<sent, arrived, peer, header, dispatched, shortest>>
          /\ pc = "RecvMessage"
      BY <1>6 DEF RecvMessage, stream
    <2>2. /\ header.PacketType = d + 1 /\ InPacket(header.PacketType)
          /\ \A i \in DOMAIN dispatched :
               i \in DOMAIN sent /\ dispatched[i].packet = i /\ Whole(i)
      BY <2>1 DEF OrderInv
    <2>3. PICK k \in DOMAIN sent : k = header.PacketType
      BY <2>2 DEF InPacket
    <2>4. /\ pc' \in {"RecvMessage", "ExecuteCallback"}
          /\ InPacket(k)'
          /\ pc' = "ExecuteCallback" => ReadPacket(k)'
      BY <1>6, <2>2, <2>3, RecvInPacket
    <2>5. /\ InPacket(header.PacketType)'
          /\ pc' = "ExecuteCallback" => ReadPacket(header.PacketType)'
      BY <2>1, <2>3, <2>4 DEF InPacket, ReadPacket
    <2> QED
      BY <2>1, <2>2, <2>4, <2>5
  <1>7. CASE RecvFails
    <2>1. /\ pc = "RecvMessage" /\ pc' = "ExecuteCallback"
          /\ UNCHANGED <<sent, arrived, peer, consumed, header, totalRecvSize,
                         dispatched, shortest>>
          /\ Available = 0 /\ peer = "gone"
      BY <1>7 DEF RecvFails, stream
    <2>2. /\ header.PacketType = d + 1 /\ InPacket(header.PacketType)
          /\ \A i \in DOMAIN dispatched :
               i \in DOMAIN sent /\ dispatched[i].packet = i /\ Whole(i)
      BY <2>1 DEF OrderInv
    <2>3. Drained
      BY <2>1, Counters DEF Drained
    <2>4. ReadPacket(header.PacketType)'
      BY <2>1, <2>2, <2>3 DEF ReadPacket, InPacket, Drained
    <2> QED
      BY <2>1, <2>2, <2>4
  <1>8. CASE ExecuteCallback
    <2> DEFINE x == [packet |-> header.PacketType, bytes |-> totalRecvSize]
    <2>1. /\ pc = "ExecuteCallback" /\ pc' \in {"OnRecvMessage", "ReleasePacket"}
          /\ UNCHANGED <<sent, arrived, peer, consumed, header, totalRecvSize, shortest>>
      BY <1>8 DEF ExecuteCallback, stream
    <2>2. /\ header.PacketType = d + 1 /\ ReadPacket(header.PacketType)
          /\ \A i \in DOMAIN dispatched :
               i \in DOMAIN sent /\ dispatched[i].packet = i /\ Whole(i)
      BY <2>1 DEF OrderInv
    <2>3. PICK k \in DOMAIN sent : k = header.PacketType
      BY <2>2 DEF ReadPacket, InPacket
    <2>4. k = d + 1 /\ ReadPacket(k)
      BY <2>2, <2>3
    <2>5. header.PacketType # NONE /\ header.PacketType \in 1..MaxPackets /\ totalRecvSize \in Nat
      BY <1>1, <1>2, <2>3, <2>4, Counters, FramingAssumption DEF NONE, TypeOK
    <2>6. dispatched' = Append(dispatched, x) /\ x \in [packet : 1..MaxPackets, bytes : Nat]
      BY <1>8, <2>5 DEF ExecuteCallback
    <2>7. x.packet = k /\ x.bytes = totalRecvSize
      BY <2>3
    <2> HIDE DEF x
    <2>8. /\ Len(dispatched') = k
          /\ \A i \in DOMAIN dispatched : dispatched'[i] = dispatched[i]
          /\ dispatched'[k] = x
          /\ DOMAIN dispatched' = 1..k
      <3>1. /\ Append(dispatched, x) \in Seq([packet : 1..MaxPackets, bytes : Nat])
            /\ Len(Append(dispatched, x)) = Len(dispatched) + 1
            /\ \A i \in 1..Len(dispatched) : Append(dispatched, x)[i] = dispatched[i]
            /\ Append(dispatched, x)[Len(dispatched) + 1] = x
        BY <1>1, <2>6, AppendProperties
      <3> QED
        BY <1>1, <2>4, <2>6, <3>1, LenProperties
    <2>9. ReadPacket(k)'
      BY <2>1, <2>4 DEF ReadPacket, InPacket, Drained
    <2>10. ReadPacket(d)'
      BY <2>8, <2>9 DEF ReadPacket, InPacket
    <2>11. \A i \in DOMAIN dispatched' :
             /\ i \in DOMAIN sent'
             /\ dispatched'[i].packet = i
             /\ \/ Whole(i)'
                \/ i = d' /\ Drained'
      <3> SUFFICES ASSUME NEW i \in DOMAIN dispatched'
                   PROVE  /\ i \in DOMAIN sent
                          /\ dispatched'[i].packet = i
                          /\ dispatched'[i].bytes = sent[i].len \/ (i = k /\ Drained)
        BY <2>1, <2>8 DEF Drained
      <3>1. CASE i = k
        BY <2>4, <2>7, <2>8, <3>1 DEF ReadPacket
      <3>2. CASE i # k
        <4>1. i \in DOMAIN dispatched
          BY <1>1, <2>4, <2>8, <3>2
        <4> QED
          BY <2>2, <2>8, <4>1
      <3> QED
        BY <3>1, <3>2
    <2> QED
      BY <2>1, <2>10, <2>11
  <1>9. CASE ReleasePacket
    <2>1. /\ pc = "ReleasePacket" /\ pc' = "PacketBuild"
          /\ UNCHANGED <<sent, arrived, peer, consumed, header, totalRecvSize,
                         dispatched, shortest>>
      BY <1>9 DEF ReleasePacket, stream
    <2>2. ReadPacket(d)
      BY <2>1 DEF OrderInv
    <2>3. d \in DOMAIN sent
      BY <2>2 DEF ReadPacket, InPacket
    <2>4. Drained \/ consumed = Start(d + 1)
      BY <2>2, <2>3, ReadToNext
    <2>5. Start(d + 1)' = Start(d + 1) /\ (Drained' <=> Drained)
      BY <2>1 DEF Start, StreamEnd, Drained
    <2> QED
      BY <2>1, <2>4, <2>5 DEF OrderInv
  <1>10. CASE HeaderFails \/ CloseSocket \/ OutOfStep
    <2>1. /\ UNCHANGED <<sent, arrived, peer, consumed, dispatched, shortest>>
          /\ pc' \in {"CloseSocket", "Ended"}
          /\ pc \notin {"RecvMessage", "ExecuteCallback"}
      BY <1>10 DEF HeaderFails, CloseSocket, OutOfStep, stream
    <2> QED
      BY <2>1 DEF OrderInv, Drained
  <1>11. CASE ControllerReturns
    <2>1. /\ pc = "OnRecvMessage" /\ pc' = "ReleasePacket"
          /\ UNCHANGED <<sent, arrived, peer, consumed, header, totalRecvSize,
                         dispatched, shortest>>
      BY <1>11 DEF ControllerReturns, stream
    <2>2. ReadPacket(d)'
      BY <2>1 DEF OrderInv, ReadPacket, InPacket, Drained
    <2> QED
      BY <2>1, <2>2 DEF OrderInv, Drained
  <1> QED
    BY <1>3, <1>4, <1>5, <1>6, <1>7, <1>8, <1>9, <1>10, <1>11 DEF Next, RecvProc

-----------------------------------------------------------------------------
(* The theorems.                                                           *)

\* A connection starts with nothing sent.
LEMMA InitFrameInv == Init => FrameInv
  <1> SUFFICES ASSUME Init
               PROVE  FrameInv
    OBVIOUS
  <1> USE DEF Init
  <1>1. DOMAIN sent = {} /\ Len(sent) = 0 /\ DOMAIN dispatched = {} /\ Len(dispatched) = 0
    OBVIOUS
  <1>2. StreamEnd = 0 /\ Start(1) = 0
    BY <1>1 DEF StreamEnd, Start
  <1>3. TypeOK
    <2>1. /\ header \in [PacketLen : 0..INT32_MAX, PacketType : 0..MaxPackets]
          /\ header.PacketLen = 0
      BY Numbers, FramingAssumption DEF NewHeader, NONE
    <2>2. sent \in Seq([start : Nat, len : PacketLens]) /\ Len(sent) <= MaxPackets
      BY <1>1, FramingAssumption
    <2>3. dispatched \in Seq([packet : 1..MaxPackets, bytes : Nat])
      OBVIOUS
    <2> QED
      BY <1>2, <2>1, <2>2, <2>3, Numbers DEF TypeOK
  <1>4. Laid /\ HeaderInv
    BY <1>1 DEF Laid, HeaderInv
  <1>5. StepInv
    BY <1>1, <1>2 DEF StepInv
  <1>6. OrderInv
    BY <1>1, <1>2 DEF OrderInv
  <1> QED
    BY <1>3, <1>4, <1>5, <1>6 DEF FrameInv

\* Every step keeps FrameInv.
LEMMA NextFrameInv == FrameInv /\ [Next]_vars => FrameInv'
  <1> SUFFICES ASSUME FrameInv, [Next]_vars
               PROVE  FrameInv'
    OBVIOUS
  <1>1. TypeOK /\ Laid /\ HeaderInv /\ StepInv /\ OrderInv
    BY DEF FrameInv
  <1>2. CASE UNCHANGED vars
    <2>1. UNCHANGED <<sent, arrived, consumed, peer, pc, header, totalRecvSize, lent,
                      dispatched, shortest>>
      BY <1>2 DEF vars
    <2>2. TypeOK' /\ Laid' /\ HeaderInv'
      BY <1>1, <2>1 DEF TypeOK, StreamEnd, Laid, HeaderInv
    <2>3. StepInv'
      BY <1>1, <2>1 DEF StepInv, Drained, Start, StreamEnd, InPacket, ReadPacket
    <2>4. OrderInv'
      BY <1>1, <2>1 DEF OrderInv, Drained, Start, StreamEnd, InPacket, ReadPacket
    <2> QED
      BY <2>2, <2>3, <2>4 DEF FrameInv
  <1>3. CASE Next
    BY <1>1, <1>3, TypeStep, LaidStep, HeaderStep, StepStep, OrderStep DEF FrameInv
  <1> QED
    BY <1>2, <1>3

\* FrameInv holds in every state of a connection.
THEOREM FrameSafe == Spec => []FrameInv
  BY InitFrameInv, NextFrameInv, PTL DEF Spec

\* Every variable of the stream and of RecvProc has its type: no recv takes a
\* byte that did not arrive, and no packet is read past its length.
THEOREM FrameTypes == Spec => []TypeOK
  <1>1. FrameInv => TypeOK
    BY DEF FrameInv
  <1> QED
    BY <1>1, FrameSafe, PTL

\* However many packets, of whatever lengths, in whatever segments: as long as
\* peeks return the length field, each turn of RecvProc's loop starts where a
\* packet starts (ServerApp.cpp:38-66).
THEOREM LoopStaysInStep == Spec => []InStep
  <1>1. FrameInv => InStep
    BY DEF FrameInv, StepInv, InStep, Drained
  <1> QED
    BY <1>1, FrameSafe, PTL

\* As long as peeks return length and type, the controllers get every packet
\* once, in order, with all of its bytes (ServerApp.cpp:54-68).
THEOREM PacketsDispatchedWhole == Spec => []DispatchedWhole
  <1>1. FrameInv => DispatchedWhole
    BY DEF FrameInv, OrderInv, DispatchedWhole, Drained
  <1> QED
    BY <1>1, FrameSafe, PTL

\* A connection never has two headers of the pool (ServerApp.cpp:34-47 and :71).
THEOREM HeaderLentOnce == Spec => []OneHeader
  <1>1. FrameInv => OneHeader
    BY DEF FrameInv, HeaderInv, OneHeader
  <1> QED
    BY <1>1, FrameSafe, PTL

=============================================================================
