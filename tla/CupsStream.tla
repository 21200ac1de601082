----------------------------- MODULE CupsStream -----------------------------
(***************************************************************************)
(* The byte stream of a cups.online room (transport/cupsonline): a member  *)
(* gathers packets, each with its length before it, into a batch, cuts the *)
(* batch into messages and sends them one by one; the room relays them to  *)
(* another member, which puts the stream of each sender together again.    *)
(* The bytes of a packet are a few pieces; a message holds some of them.   *)
(***************************************************************************)
EXTENDS Naturals, SequencesExt

CONSTANTS
    Members,       \* members of the room that send
    MaxCupsPackets, \* bound on the packets of each
    PacketPieces,  \* pieces of a packet, the first with its length
    MessagePieces, \* pieces of a message (MaxMessageData)
    BatchPackets,  \* packets of a batch (BatchMaxPackets, BatchMaxBytes)
    QueuePackets,  \* packets a channel may hold unsent (SendQueueSize, SendQueueBytes)
    MaxDrops       \* bound on the connections that fail

ASSUME StreamAssumption ==
    /\ {PacketPieces, MessagePieces, BatchPackets, QueuePackets} \subseteq Nat \ {0}
    /\ {MaxCupsPackets, MaxDrops} \subseteq Nat

VARIABLES
    cupsSent,     \* packets each member has sent so far
    cupsQueue,    \* sendQueue of each member
    cupsGathered, \* the batch that is gathered
    cupsBatch,    \* pieces of the batch under way that are still to go
    cupsUp,       \* whether the channel of each member is up, and that of the receiver
    air,          \* messages the room has not relayed yet, in order
    recvBufs,     \* what the receiver has of each member's stream
    handed,       \* what was handed to onData
    garbage,      \* the length a piece from the middle of a packet is taken to say; fixed
    drops         \* connections that failed so far

cupsSender == <<cupsSent, cupsQueue, cupsGathered, cupsBatch>>
cupsReceiver == <<recvBufs, handed, garbage>>
streamVars == <<cupsSender, cupsUp, air, cupsReceiver, drops>>

Receiver == "receiver"
Pieces == [from : Members, packet : 1..MaxCupsPackets, part : 1..PacketPieces]
PiecesOf(m, p) == [i \in 1..PacketPieces |-> [from |-> m, packet |-> p, part |-> i]]

StreamTypeOK ==
    /\ cupsSent \in [Members -> 0..MaxCupsPackets] /\ drops \in 0..MaxDrops
    /\ cupsUp \in [Members \cup {Receiver} -> BOOLEAN]
    /\ \A m \in Members :
         /\ ToSet(cupsQueue[m]) \subseteq 1..MaxCupsPackets /\ Len(cupsQueue[m]) <= QueuePackets
         /\ ToSet(cupsGathered[m]) \subseteq 1..MaxCupsPackets /\ Len(cupsGathered[m]) <= BatchPackets
         /\ ToSet(cupsBatch[m]) \subseteq Pieces /\ ToSet(recvBufs[m]) \subseteq Pieces
    /\ garbage \in 0..PacketPieces + 1
    /\ \A h \in handed : ToSet(h) \subseteq Pieces

StreamInit ==
    /\ cupsSent = [m \in Members |-> 0] /\ cupsQueue = [m \in Members |-> <<>>]
    /\ cupsGathered = [m \in Members |-> <<>>] /\ cupsBatch = [m \in Members |-> <<>>]
    /\ cupsUp = [m \in Members \cup {Receiver} |-> TRUE]
    /\ air = <<>> /\ recvBufs = [m \in Members |-> <<>>] /\ handed = {}
    /\ garbage \in 0..PacketPieces + 1 /\ drops = 0
----------------------------------------------------------------------------
(* Send and sendLoop *)

\* A carrier without a room that is up refuses the packet (pickRoom), as does a full queue.
CanSend(m) == cupsUp[m] /\ Len(cupsQueue[m]) < QueuePackets

CupsSend(m) ==
    /\ cupsSent[m] < MaxCupsPackets /\ CanSend(m)
    /\ cupsSent' = [cupsSent EXCEPT ![m] = @ + 1]
    /\ cupsQueue' = [cupsQueue EXCEPT ![m] = Append(@, cupsSent[m] + 1)]
    /\ UNCHANGED <<cupsGathered, cupsBatch, cupsUp, air, cupsReceiver, drops>>

CupsGather(m) ==
    /\ cupsQueue[m] # <<>> /\ cupsBatch[m] = <<>> /\ Len(cupsGathered[m]) < BatchPackets
    /\ cupsGathered' = [cupsGathered EXCEPT ![m] = Append(@, Head(cupsQueue[m]))]
    /\ cupsQueue' = [cupsQueue EXCEPT ![m] = Tail(@)]
    /\ UNCHANGED <<cupsSent, cupsBatch, cupsUp, air, cupsReceiver, drops>>

\* The batch is full or has waited long enough; that of a channel that is down is dropped.
CupsFlush(m) ==
    /\ cupsGathered[m] # <<>> /\ cupsBatch[m] = <<>>
    /\ cupsBatch' = [cupsBatch EXCEPT ![m] =
           IF cupsUp[m] THEN FlattenSeq([i \in DOMAIN cupsGathered[m] |-> PiecesOf(m, cupsGathered[m][i])])
                        ELSE <<>>]
    /\ cupsGathered' = [cupsGathered EXCEPT ![m] = <<>>]
    /\ UNCHANGED <<cupsSent, cupsQueue, cupsUp, air, cupsReceiver, drops>>

FirstPieces(m) == IF Len(cupsBatch[m]) < MessagePieces THEN Len(cupsBatch[m]) ELSE MessagePieces

\* One message, at the pace of the channel.  The connection may be another by now.
SendChunk(m) ==
    /\ cupsBatch[m] # <<>> /\ cupsUp[m]
    /\ air' = Append(air, [from |-> m, chunk |-> SubSeq(cupsBatch[m], 1, FirstPieces(m))])
    /\ cupsBatch' = [cupsBatch EXCEPT ![m] = SubSeq(@, FirstPieces(m) + 1, Len(@))]
    /\ UNCHANGED <<cupsSent, cupsQueue, cupsGathered, cupsUp, cupsReceiver, drops>>

\* A message cannot be written: the rest of the batch goes with it.
ChunkFails(m) ==
    /\ cupsBatch[m] # <<>> /\ ~cupsUp[m]
    /\ cupsBatch' = [cupsBatch EXCEPT ![m] = <<>>]
    /\ UNCHANGED <<cupsSent, cupsQueue, cupsGathered, cupsUp, air, cupsReceiver, drops>>
----------------------------------------------------------------------------
(* Connections fail and are made again *)

CupsDrops(m) ==
    /\ drops < MaxDrops /\ cupsUp[m]
    /\ drops' = drops + 1 /\ cupsUp' = [cupsUp EXCEPT ![m] = FALSE]
    /\ UNCHANGED <<cupsSender, air, cupsReceiver>>

\* The member is the same as before; a receiver begins with empty buffers.
CupsReconnects(m) ==
    /\ ~cupsUp[m] /\ cupsUp' = [cupsUp EXCEPT ![m] = TRUE]
    /\ recvBufs' = IF m = Receiver THEN [s \in Members |-> <<>>] ELSE recvBufs
    /\ UNCHANGED <<cupsSender, air, handed, garbage, drops>>
----------------------------------------------------------------------------
(* deliverNums: the stream of a sender, put together *)

\* The length the first piece of a buffer speaks of; one from the middle of a packet says
\* whatever its bytes are.
LengthIn(buf) == IF buf[1].part = 1 THEN PacketPieces ELSE garbage
Yields(buf) == buf # <<>> /\ LengthIn(buf) <= Len(buf)

\* Mutant: one buffer for the room, whoever sends.
BufferOfRoom(m) == CHOOSE s \in Members : TRUE
BufferOf(m) == m

\* A message joins the buffer of its sender, once the packets before it were handed on.
CupsRelay ==
    /\ air # <<>> /\ \A m \in Members : ~Yields(recvBufs[m])
    /\ air' = Tail(air)
    /\ recvBufs' = IF cupsUp[Receiver]
                   THEN [recvBufs EXCEPT ![BufferOf(Head(air).from)] = @ \o Head(air).chunk]
                   ELSE recvBufs
    /\ UNCHANGED <<cupsSender, cupsUp, handed, garbage, drops>>

\* The next packet is handed on; a length of 0 means that the stream is out of sync, at which
\* what there is of it is dropped.
CupsDeliver(m) ==
    /\ Yields(recvBufs[m])
    /\ LET buf == recvBufs[m]
           n == LengthIn(buf)
       IN  IF n = 0 THEN recvBufs' = [recvBufs EXCEPT ![m] = <<>>] /\ UNCHANGED handed
           ELSE /\ handed' = handed \cup {SubSeq(buf, 1, n)}
                /\ recvBufs' = [recvBufs EXCEPT ![m] = SubSeq(buf, n + 1, Len(buf))]
    /\ UNCHANGED <<cupsSender, cupsUp, air, garbage, drops>>

StreamNext ==
    \/ \E m \in Members :
         CupsSend(m) \/ CupsGather(m) \/ CupsFlush(m) \/ SendChunk(m) \/ ChunkFails(m) \/ CupsDeliver(m)
    \/ \E m \in Members \cup {Receiver} : CupsDrops(m) \/ CupsReconnects(m)
    \/ CupsRelay

StreamSpec == StreamInit /\ [][StreamNext]_streamVars
----------------------------------------------------------------------------
\* What is handed on was sent by one member: when two send at once, neither's bytes get into
\* the middle of the other's packet (recvBufs), whatever connections fail.
MembersApart == \A h \in handed : \A i, j \in DOMAIN h : h[i].from = h[j].from

\* What is handed on is a packet, whole and nothing else: one that was cut by a connection that
\* failed is lost (recvBufs: "a packet split across a drop is lost, like on any link").
OnlyPackets ==
    \A h \in handed : \E m \in Members, p \in 1..MaxCupsPackets : h = PiecesOf(m, p)
=============================================================================
