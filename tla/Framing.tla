------------------------------ MODULE Framing ------------------------------
(***************************************************************************)
(* RecvProc's loop over the bytes of one connection: it peeks at a header, *)
(* reads as many bytes as the header says, in chunks, and hands the packet *)
(* to the controllers.                                                     *)
(*                                                                         *)
(* A packet is its length, and its type is its number in the stream: what  *)
(* is told apart is which packet a controller gets, and how much of it.    *)
(* Positions count bytes from the start of the connection.  The network is *)
(* external: TCP delivers the bytes in order, in segments that may end     *)
(* anywhere, so a recv and an MSG_PEEK return what has arrived.            *)
(***************************************************************************)
EXTENDS Integers, Sequences

CONSTANTS
    PacketLens,     \* lengths of the packets clients send, headers included
    Cuts,           \* offsets in a packet where a segment may end
    MaxPackets      \* bound: packets of a connection

HeaderLen     == 12     \* PacketLen, PacketType and UserLocalId, 4 bytes each
bufferMaxSize == 1024
INT32_MAX     == 2147483647
Byte          == 256
NONE          == 0      \* the type no controller is registered for

ASSUME FramingAssumption ==
    /\ PacketLens \subseteq HeaderLen..INT32_MAX
    /\ Cuts \subseteq Nat \ {0}
    /\ MaxPackets \in Nat

VARIABLES
    sent,           \* the packets sent so far: where each starts, and its length
    arrived,        \* the bytes that have reached the server's socket ...
    consumed,       \* ... and those that recv has taken from it
    peer,           \* "open" or "gone"
    pc,             \* where RecvProc is
    header,         \* the fields of the header it peeked at
    totalRecvSize,
    lent,           \* headers this thread took from the pool and did not give back
    dispatched,     \* what controllers were given: a packet, and its bytes read
    shortest        \* history: the fewest bytes a peek has returned

vars == <<sent, arrived, consumed, peer, pc, header, totalRecvSize, lent,
          dispatched, shortest>>

stream == <<sent, arrived, peer>>

-----------------------------------------------------------------------------
(* Helpers.                                                                *)

Smaller(a, b) == IF a < b THEN a ELSE b

\* Where the stream ends, which is where the next packet will start.
StreamEnd == IF sent = <<>> THEN 0
             ELSE sent[Len(sent)].start + sent[Len(sent)].len

\* Where packet k starts, the next one included.
Start(k) == IF k <= Len(sent) THEN sent[k].start ELSE StreamEnd

Available == arrived - consumed

\* Bytes that a peek did not return stay 0, and the first byte counts most:
\* what the bytes after the first n count together is lost.
LowBytes == <<Byte * Byte * Byte, Byte * Byte, Byte>>
PacketLenOf(len, n) == IF n >= 4 THEN len ELSE len - (len % LowBytes[n])

\* The header of packet k as n peeked bytes give it.
Fields(k, n) == [PacketLen  |-> PacketLenOf(sent[k].len, n),
                 PacketType |-> IF n >= 8 THEN k ELSE NONE]

NewHeader == [PacketLen |-> 0, PacketType |-> NONE]

TypeOK ==
    /\ sent \in Seq([start : Nat, len : PacketLens]) /\ Len(sent) <= MaxPackets
    /\ arrived \in 0..StreamEnd
    /\ consumed \in 0..arrived
    /\ peer \in {"open", "gone"}
    /\ pc \in {"PacketBuild", "RecvMessageHeader", "RecvMessage", "ExecuteCallback",
               "OnRecvMessage", "ReleasePacket", "OutOfStep", "CloseSocket", "Ended"}
    /\ header \in [PacketLen : 0..INT32_MAX, PacketType : 0..MaxPackets]
    /\ totalRecvSize \in 0..header.PacketLen
    /\ lent \in Nat
    /\ dispatched \in Seq([packet : 1..MaxPackets, bytes : Nat])
    /\ shortest \in 1..HeaderLen

Init ==
    /\ sent = <<>>
    /\ arrived = 0
    /\ consumed = 0
    /\ peer = "open"
    /\ pc = "PacketBuild"
    /\ header = NewHeader
    /\ totalRecvSize = 0
    /\ lent = 0
    /\ dispatched = <<>>
    /\ shortest = HeaderLen

-----------------------------------------------------------------------------
(* The client and the network.                                             *)

SendPacket(len) ==
    /\ peer = "open"
    /\ Len(sent) < MaxPackets
    /\ sent' = Append(sent, [start |-> StreamEnd, len |-> len])
    /\ UNCHANGED <<arrived, consumed, peer, pc, header, totalRecvSize, lent,
                   dispatched, shortest>>

\* A segment arrives.
Deliver ==
    /\ peer = "open"
    /\ \E k \in DOMAIN sent, offset \in Cuts \cup PacketLens :
         /\ offset <= sent[k].len
         /\ Start(k) + offset > arrived
         /\ arrived' = Start(k) + offset
    /\ UNCHANGED <<sent, consumed, peer, pc, header, totalRecvSize, lent,
                   dispatched, shortest>>

\* The connection ends; a reset also discards what no recv has taken.
Lose ==
    /\ peer = "open"
    /\ peer' = "gone"
    /\ arrived' \in {arrived, consumed}
    /\ UNCHANGED <<sent, consumed, pc, header, totalRecvSize, lent, dispatched,
                   shortest>>

-----------------------------------------------------------------------------
(* RecvProc.                                                               *)

\* A header with every field 0.
PacketBuild ==
    /\ pc = "PacketBuild"
    /\ lent' = lent + 1
    /\ header' = NewHeader
    /\ totalRecvSize' = 0
    /\ pc' = "RecvMessageHeader"
    /\ UNCHANGED <<stream, consumed, dispatched, shortest>>

\* A mutant: the header is received, not peeked at.
RecvHeaderAway ==
    /\ pc = "RecvMessageHeader"
    /\ Available > 0
    /\ LET n == Smaller(HeaderLen, Available) IN
         /\ shortest' = Smaller(shortest, n)
         /\ consumed' = consumed + n
         /\ \E k \in DOMAIN sent : header' = Fields(k, n) /\ consumed = Start(k)
    /\ pc' = "RecvMessage"
    /\ UNCHANGED <<stream, totalRecvSize, lent, dispatched>>

\* The recv with MSG_PEEK.  Out of step, the fields are bytes of some body.
RecvMessageHeader ==
    /\ pc = "RecvMessageHeader"
    /\ Available > 0
    /\ LET n == Smaller(HeaderLen, Available) IN
         \/ \E k \in DOMAIN sent :
              /\ consumed = Start(k)
              /\ shortest' = Smaller(shortest, n)
              /\ header' = Fields(k, n)
              /\ pc' = IF header'.PacketLen = 0 THEN "ExecuteCallback" ELSE "RecvMessage"
         \/ /\ \A k \in DOMAIN sent : consumed # Start(k)
            /\ pc' = "OutOfStep"
            /\ UNCHANGED <<header, shortest>>
    /\ UNCHANGED <<stream, consumed, totalRecvSize, lent, dispatched>>

\* A length read from a body: a negative one ends the loop, and with any other
\* the thread goes on reading and dispatching what it takes for packets.
OutOfStep ==
    /\ pc = "OutOfStep"
    /\ pc' = "CloseSocket"
    /\ UNCHANGED <<stream, consumed, header, totalRecvSize, lent, dispatched, shortest>>

\* The peek fails: PacketLen is -1 and the loop breaks, its header still lent.
HeaderFails ==
    /\ pc = "RecvMessageHeader"
    /\ Available = 0 /\ peer = "gone"
    /\ pc' = "CloseSocket"
    /\ UNCHANGED <<stream, consumed, header, totalRecvSize, lent, dispatched, shortest>>

\* A mutant: a full buffer is asked for, whatever is left of the packet.
RecvFullBuffer ==
    /\ pc = "RecvMessage"
    /\ Available > 0
    /\ LET recvLen == Smaller(bufferMaxSize, Available) IN
         /\ consumed' = consumed + recvLen
         /\ totalRecvSize' = totalRecvSize + recvLen
    /\ pc' = IF totalRecvSize' >= header.PacketLen THEN "ExecuteCallback" ELSE pc
    /\ UNCHANGED <<stream, header, lent, dispatched, shortest>>

\* A mutant: one recv, and what it returned is taken for all.
RecvOnce ==
    /\ pc = "RecvMessage"
    /\ Available > 0
    /\ LET sub     == Smaller(header.PacketLen - totalRecvSize, bufferMaxSize)
           recvLen == Smaller(sub, Available)
       IN /\ consumed' = consumed + recvLen
          /\ totalRecvSize' = totalRecvSize + recvLen
    /\ pc' = "ExecuteCallback"
    /\ UNCHANGED <<stream, header, lent, dispatched, shortest>>

\* A mutant: <= for < in the loop's condition, so a recv of 0 bytes more waits.
RecvOneMore ==
    /\ pc = "RecvMessage"
    /\ Available > 0
    /\ LET sub     == Smaller(header.PacketLen - totalRecvSize, bufferMaxSize)
           recvLen == Smaller(sub, Available)
       IN /\ consumed' = consumed + recvLen
          /\ totalRecvSize' = totalRecvSize + recvLen
          /\ pc' = IF recvLen = 0 THEN "ExecuteCallback" ELSE pc
    /\ UNCHANGED <<stream, header, lent, dispatched, shortest>>

\* One turn of the loop that reads the packet.
RecvMessage ==
    /\ pc = "RecvMessage"
    /\ Available > 0
    /\ LET sub     == Smaller(header.PacketLen - totalRecvSize, bufferMaxSize)
           recvLen == Smaller(sub, Available)
       IN /\ consumed' = consumed + recvLen
          /\ totalRecvSize' = totalRecvSize + recvLen
    /\ pc' = IF totalRecvSize' < header.PacketLen THEN pc ELSE "ExecuteCallback"
    /\ UNCHANGED <<stream, header, lent, dispatched, shortest>>

\* recv returns 0 or -1: the inner loop breaks, and what was read goes on.
RecvFails ==
    /\ pc = "RecvMessage"
    /\ Available = 0 /\ peer = "gone"
    /\ pc' = "ExecuteCallback"
    /\ UNCHANGED <<stream, consumed, header, totalRecvSize, lent, dispatched, shortest>>

\* It calls the controller of the packet's type; with NONE there is no callback.
ExecuteCallback ==
    /\ pc = "ExecuteCallback"
    /\ dispatched' = IF header.PacketType = NONE THEN dispatched
                     ELSE Append(dispatched, [packet |-> header.PacketType,
                                              bytes  |-> totalRecvSize])
    /\ pc' = IF header.PacketType = NONE THEN "ReleasePacket" ELSE "OnRecvMessage"
    /\ UNCHANGED <<stream, consumed, header, totalRecvSize, lent, shortest>>

\* The controller returns.  It need not: it may wait for ever for a connection of
\* the database pool, and SendMsg loops for ever on a socket that fails.
ControllerReturns ==
    /\ pc = "OnRecvMessage"
    /\ pc' = "ReleasePacket"
    /\ UNCHANGED <<stream, consumed, header, totalRecvSize, lent, dispatched, shortest>>

\* A mutant: the header of a packet without a callback stays lent.
ReleaseDispatched ==
    /\ pc = "ReleasePacket"
    /\ lent' = IF header.PacketType = NONE THEN lent ELSE lent - 1
    /\ pc' = "PacketBuild"
    /\ UNCHANGED <<stream, consumed, header, totalRecvSize, dispatched, shortest>>

ReleasePacket ==
    /\ pc = "ReleasePacket"
    /\ lent' = lent - 1
    /\ pc' = "PacketBuild"
    /\ UNCHANGED <<stream, consumed, header, totalRecvSize, dispatched, shortest>>

\* CloseSocket and the end of the thread.
CloseSocket ==
    /\ pc = "CloseSocket"
    /\ pc' = "Ended"
    /\ UNCHANGED <<stream, consumed, header, totalRecvSize, lent, dispatched, shortest>>

RecvProc ==
    \/ PacketBuild \/ RecvMessageHeader \/ HeaderFails \/ RecvMessage \/ RecvFails
    \/ ExecuteCallback \/ ReleasePacket \/ CloseSocket

Next ==
    \/ \E len \in PacketLens : SendPacket(len)
    \/ Deliver \/ Lose
    \/ RecvProc \/ ControllerReturns \/ OutOfStep

\* The thread runs, and TCP delivers what was sent while the connection lasts.
\* Nothing makes a client send, a peer leave, or a controller return.
Fairness == WF_vars(RecvProc) /\ WF_vars(Deliver)

Spec     == Init /\ [][Next]_vars
FairSpec == Spec /\ Fairness

-----------------------------------------------------------------------------
(* Properties.                                                             *)

\* While every peek has returned the length field at least, each turn of the
\* loop starts where a packet starts, whatever the segments were: no packet is
\* read past its end or left half read, though three recvs and a peek share
\* the stream (ServerApp.cpp:38-66).  A peek of one to three bytes breaks it:
\* of a length over 255 it reads too small a number.
InStep ==
    /\ shortest >= 4
    /\ pc \in {"PacketBuild", "RecvMessageHeader"}
    /\ peer = "open"
    => \E k \in 1..Len(sent) + 1 : consumed = Start(k)

\* While every peek has returned length and type, the controllers are given
\* the packets of the stream, each once and in order, none skipped, and all
\* of its bytes: only the last may be cut short, when the peer is gone
\* (ServerApp.cpp:54-68).  A peek of four to seven bytes drops its packet.
DispatchedWhole ==
    shortest >= 8 =>
        /\ \A i \in DOMAIN dispatched :
             /\ dispatched[i].packet = i
             /\ \/ dispatched[i].bytes = sent[i].len
                \/ i = Len(dispatched) /\ peer = "gone"
        /\ pc \in {"PacketBuild", "RecvMessageHeader"} /\ peer = "open"
             => consumed = Start(Len(dispatched) + 1)

\* A connection never has two headers of the pool, and the break on a failed
\* header leaves one behind at most (ServerApp.cpp:34-47 and :71).
OneHeader == lent <= 1

\* While every peek has returned length and type, and every controller called
\* returns, each packet that is sent gets to its controller unless the
\* connection is lost: no split of the stream stops the loop, and it waits for
\* no byte after a packet's last (ServerApp.cpp:30-72).  A controller that
\* never returns leaves all that follows unserved.
PacketsAreServed ==
    [](shortest >= 8) /\ []<>(pc # "OnRecvMessage") =>
        \A k \in 1..MaxPackets :
            Len(sent) >= k ~> (peer = "gone" \/ Len(dispatched) >= k)

=============================================================================
