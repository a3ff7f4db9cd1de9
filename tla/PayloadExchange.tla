-------------------------- MODULE PayloadExchange --------------------------
(***************************************************************************)
(* Packets on their way from a polling client to the server: a flush       *)
(* splits the write buffer into chunks (chunkPackets), each chunk is       *)
(* encoded and posted, and the server reads, decodes and dispatches the    *)
(* body (handleSend).                                                      *)
(***************************************************************************)
EXTENDS Codec

CONSTANTS
  Types,       \* the packet types that are sent
  PacketDatas, \* the data of the packets
  MaxPayload,  \* WithMaxPayload, and the maxPayload of the open packet
  MaxSent      \* how many packets are sent

ASSUME ExchangeAssumption == MaxPayload \in Nat \ {0} /\ MaxSent \in Nat

VARIABLES
  sent,         \* every packet the client has sent, in order
  writeBuffer,  \* those no flush has taken
  chunks,       \* the chunks of the flush under way that are not answered yet
  received,     \* the packets the server dispatched
  status        \* of the last answer: a flush ends with the first that is not 200

exchangeVars == <<sent, writeBuffer, chunks, received, status>>

\* A binary packet is always a message.
ExchangePackets ==
  {Packet(t, d, FALSE) : t \in Types, d \in PacketDatas} \cup {Packet(PacketMessage, d, TRUE) : d \in PacketDatas}
-----------------------------------------------------------------------------
(* chunkPackets *)

Size(packets) == Len(EncodePayload(packets))

\* The bytes a packet adds to a chunk: its own, and a separator unless it is the first.
Addition_Unseparated(current, packet) == Len(EncodePacket(packet))
Addition(current, packet) == Len(EncodePacket(packet)) + (IF current = <<>> THEN 0 ELSE 1)

\* The count of a chunk that has just been started.
Restart_Never(size) == size
Restart(size) == 0

\* acc holds the chunks that are full, the current one and its size.
AddToChunk(acc, packet) ==
  LET full == acc.current # <<>> /\ acc.size + Addition(acc.current, packet) > MaxPayload
      current == IF full THEN <<>> ELSE acc.current
      size == IF full THEN Restart(acc.size) ELSE acc.size
  IN  [chunks  |-> IF full THEN Append(acc.chunks, acc.current) ELSE acc.chunks,
       current |-> Append(current, packet),
       size    |-> size + Addition(current, packet)]

chunkPackets(packets) ==
  IF MaxPayload <= 0 \/ Len(packets) <= 1 THEN <<packets>>
    ELSE LET end == FoldLeft(AddToChunk, [chunks |-> <<>>, current |-> <<>>, size |-> 0], packets)
         IN  Append(end.chunks, end.current)
-----------------------------------------------------------------------------
ExchangeInit == sent = <<>> /\ writeBuffer = <<>> /\ chunks = <<>> /\ received = <<>> /\ status = 200

SendPacket(packet) ==
  /\ Len(sent) < MaxSent
  /\ sent' = Append(sent, packet)
  /\ writeBuffer' = Append(writeBuffer, packet)
  /\ UNCHANGED <<chunks, received, status>>

\* flush, which an earlier failure has torn down the socket for.
Flush ==
  /\ writeBuffer # <<>> /\ chunks = <<>> /\ status = 200
  /\ chunks' = chunkPackets(writeBuffer)
  /\ writeBuffer' = <<>>
  /\ UNCHANGED <<sent, received, status>>

\* The body is read up to one byte beyond the limit, so that a longer one is noticed.
TooLarge(body) == Len(body) > MaxPayload

\* An empty body is acknowledged without decoding.
Status(body) ==
  CASE TooLarge(body) -> 413
    [] ~TooLarge(body) /\ body # <<>> /\ ~decodeRecordSeparatorPayload(body).ok -> 400
    [] OTHER -> 200

\* sendChunks posts the next chunk, and handleSend answers it.
Post ==
  /\ chunks # <<>> /\ status = 200
  /\ LET body == EncodePayload(Head(chunks)) IN
     /\ status' = Status(body)
     /\ IF status' = 200
          THEN /\ received' = received \o decodeRecordSeparatorPayload(body).value
               /\ chunks' = Tail(chunks)
          ELSE UNCHANGED <<received, chunks>>
  /\ UNCHANGED <<sent, writeBuffer>>

ExchangeNext == (\E packet \in ExchangePackets : SendPacket(packet)) \/ Flush \/ Post

ExchangeSpec == ExchangeInit /\ [][ExchangeNext]_exchangeVars
-----------------------------------------------------------------------------
\* The server refuses nothing but a single packet that is larger than the limit it
\* announced: no chunk of several is one byte too long (chunkPackets' count of separators
\* against handleSend's limit), and none fails to decode.
OnlyOversizeRefused ==
  status # 200 => status = 413 /\ Len(Head(chunks)) = 1 /\ Size(Head(chunks)) > MaxPayload

\* The server dispatches the very packets the client sent, in order and whole; the rest is
\* still in a chunk or in the buffer ("the same value round-trips through long-polling",
\* Packet).
RoundTrips == received \o FlattenSeq(chunks) \o writeBuffer = sent

\* A flush makes no more requests than it must: the first packet of a chunk would not have
\* fitted in the chunk before it (chunkPackets restarts the count with each chunk).
ChunksFull ==
  \A i \in 1..(Len(chunks) - 1) :
    Size(Append(chunks[i], chunks[i + 1][1])) > MaxPayload

\* chunkPackets' count of bytes is exact: no chunk is too long, and none is cut early.
ChunksExact == OnlyOversizeRefused /\ ChunksFull
=============================================================================
