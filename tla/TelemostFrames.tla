--------------------------- MODULE TelemostFrames ---------------------------
(***************************************************************************)
(* The frames of one direction of a Telemost call (telemost.go,            *)
(* fragment.go): cut into fragments, queued for the publish clock, written *)
(* as RTP packets that the network loses, delays and reorders and that the *)
(* sender resends from a ring, and put together again in a few slots, each *)
(* with a deadline.  A frame is named by a counter of one byte.            *)
(***************************************************************************)
EXTENDS Naturals, Integers, FiniteSets, SequencesExt

CONSTANTS
    TmFrames,      \* bound on the frames sent
    TmPieces,      \* bound on the fragments of a frame
    TmChunk,       \* the length of a fragment that is not the last one
    TmSeqSpace,    \* the values of frameSeq: 256 in the code
    TmSharers,     \* the transports of the process that draw from the counter
    TmPerTick,     \* maxFramesPerTick
    TmQueueMax,    \* maxQueuedFrames, maxQueued of the audio queue
    TmSlots,       \* reassemblySlots
    TmHold,        \* reassembleTimeout, in ticks of the publish clock
    TmRing,        \* rtxRingSize
    TmResends      \* bound on the packets resent

ASSUME TelemostFramesAssumption ==
    /\ {TmFrames, TmHold, TmResends, TmSharers} \subseteq Nat
    /\ {TmPieces, TmChunk, TmSeqSpace, TmPerTick, TmQueueMax, TmSlots, TmRing} \subseteq Nat \ {0}

VARIABLES
    tmAudio,    \* shareCarrier is "audio"; fixed
    tmMade,     \* the frames so far: how many fragments, the length of the last, the frameSeq
    tmQueue,    \* frameQueue or audioFrameQueue
    tmPaced,    \* what this tick has still to write
    tmSent,     \* the packets in the ring
    tmAir,      \* the packets under way, a resent one apart from the first
    tmResent,   \* packets resent
    tmTicks,    \* the clock
    tmSlots,    \* the slots of frameReassembler
    tmHanded,   \* what was handed on: each the fragments it was made of
    tmArrived,  \* the fragments that were pushed
    tmSpoiled   \* the frames whose slot was taken or ran out of time

tmOut == <<tmMade, tmQueue, tmPaced>>
tmNet == <<tmSent, tmAir, tmResent>>
tmIn == <<tmSlots, tmHanded, tmArrived, tmSpoiled>>
tmFrameVars == <<tmAudio, tmOut, tmNet, tmTicks, tmIn>>

TmFrame == 1..TmFrames
TmFragment == TmFrame \X (0..TmPieces - 1)
TmNoPart == <<0, 0>>
TmMade == [count : 1..TmPieces, tail : 1..TmChunk, seq : 0..TmSeqSpace - 1]
FreeSlot == [active |-> FALSE, seq |-> 0, total |-> 0, parts |-> <<>>, deadline |-> 0]

TmFramesTypeOK ==
    /\ tmAudio \in BOOLEAN
    /\ tmMade \in Seq(TmMade) /\ Len(tmMade) <= TmFrames
    /\ tmQueue \in Seq(TmFragment) /\ tmPaced \in Seq(TmFragment)
    /\ tmSent \in Seq(TmFragment) /\ Len(tmSent) <= TmRing
    /\ tmAir \subseteq TmFragment \X (0..TmResends) /\ tmResent \in 0..TmResends
    /\ tmTicks \in Nat
    /\ \A i \in 1..TmSlots :
         /\ tmSlots[i].active \in BOOLEAN /\ tmSlots[i].seq \in 0..TmSeqSpace - 1
         /\ tmSlots[i].total \in Nat
         /\ tmSlots[i].parts \in Seq(TmFragment \cup {TmNoPart}) /\ tmSlots[i].deadline \in Nat
    /\ tmHanded \subseteq Seq(TmFragment)
    /\ tmArrived \subseteq TmFragment /\ tmSpoiled \subseteq TmFrame

TmFramesInit ==
    /\ tmAudio \in BOOLEAN
    /\ tmMade = <<>> /\ tmQueue = <<>> /\ tmPaced = <<>>
    /\ tmSent = <<>> /\ tmAir = {} /\ tmResent = 0 /\ tmTicks = 0
    /\ tmSlots = [i \in 1..TmSlots |-> FreeSlot]
    /\ tmHanded = {} /\ tmArrived = {} /\ tmSpoiled = {}
----------------------------------------------------------------------------
(* The sender *)

Fragments(f, count) == [i \in 1..count |-> <<f, i - 1>>]

\* FragmentFrame: the counter is drawn from by every transport of the process.
NextSeq(step) == ((IF tmMade = <<>> THEN 0 ELSE Last(tmMade).seq) + step) % TmSeqSpace
Fragmented(count) ==
    /\ Len(tmMade) < TmFrames
    /\ \E step \in 1..TmSharers, tail \in 1..TmChunk :
         tmMade' = Append(tmMade, [count |-> count, tail |-> tail, seq |-> NextSeq(step)])

Newest(s, n) == SubSeq(s, Len(s) - n + 1, Len(s))

\* enqueueFrame makes room for one fragment, enqueueAudioFrames for all of them.
VideoQueue(frags) ==
    (IF Len(tmQueue) >= TmQueueMax THEN Newest(tmQueue, TmQueueMax - 1) ELSE tmQueue) \o frags
AudioQueue(frags) ==
    LET over == Len(tmQueue) + Len(frags) - TmQueueMax
    IN  (IF over <= 0 THEN tmQueue
         ELSE IF over > Len(tmQueue) THEN <<>> ELSE Newest(tmQueue, Len(tmQueue) - over)) \o frags

\* writerLoop takes a frame that Send queued.
TmEnqueue ==
    \E count \in 1..TmPieces :
        /\ Fragmented(count)
        /\ LET frags == Fragments(Len(tmMade) + 1, count)
           IN  tmQueue' = IF tmAudio THEN AudioQueue(frags) ELSE VideoQueue(frags)
        /\ UNCHANGED <<tmAudio, tmPaced, tmNet, tmTicks, tmIn>>

Popped == SubSeq(tmQueue, 1, IF Len(tmQueue) < TmPerTick THEN Len(tmQueue) ELSE TmPerTick)

\* A tick takes from the queue and, on the video track with budget left, a frame from the
\* stripe.  Without either it writes filler, which is not modelled further.
TmTick ==
    /\ tmPaced = <<>> /\ (tmQueue # <<>> \/ tmAir # {} \/ Len(tmMade) < TmFrames)
    /\ tmTicks' = tmTicks + 1
    /\ tmQueue' = SubSeq(tmQueue, Len(Popped) + 1, Len(tmQueue))
    /\ \/ tmPaced' = Popped /\ UNCHANGED tmMade
       \/ /\ ~tmAudio /\ Len(Popped) < TmPerTick
          /\ \E count \in 1..TmPieces :
                Fragmented(count) /\ tmPaced' = Popped \o Fragments(Len(tmMade) + 1, count)
    /\ tmTicks < TmFrames + TmHold + 1
    /\ UNCHANGED <<tmAudio, tmNet, tmIn>>

Remembered(f) == IF Len(tmSent) < TmRing THEN Append(tmSent, f) ELSE Append(Tail(tmSent), f)

\* sendFrame: a packet that was written is kept for a while.
TmSendFrame ==
    /\ tmPaced # <<>>
    /\ tmPaced' = Tail(tmPaced)
    /\ tmAir' = tmAir \cup {<<Head(tmPaced), 0>>}
    /\ tmSent' = IF tmAudio THEN tmSent ELSE Remembered(Head(tmPaced))
    /\ UNCHANGED <<tmAudio, tmMade, tmQueue, tmResent, tmTicks, tmIn>>

\* The track is not ready, or DTLS is not up: the packet is not written.
TmSendFails ==
    /\ tmPaced # <<>>
    /\ tmPaced' = Tail(tmPaced)
    /\ UNCHANGED <<tmAudio, tmMade, tmQueue, tmNet, tmTicks, tmIn>>

\* answerNACKs: whatever the server asks for is sent again while the ring has it.
TmResend ==
    /\ tmResent < TmResends
    /\ \E f \in ToSet(tmSent) : tmAir' = tmAir \cup {<<f, tmResent + 1>>}
    /\ tmResent' = tmResent + 1
    /\ UNCHANGED <<tmAudio, tmOut, tmSent, tmTicks, tmIn>>

TmLose ==
    /\ \E p \in tmAir : tmAir' = tmAir \ {p}
    /\ UNCHANGED <<tmAudio, tmOut, tmSent, tmResent, tmTicks, tmIn>>
----------------------------------------------------------------------------
(* frameReassembler.push *)

\* The frames a slot holds fragments of.
FramesIn(slot) == {slot.parts[i][1] : i \in DOMAIN slot.parts} \ {0}

\* Every call frees the slots past their deadline.
Late(i) == tmSlots[i].active /\ tmTicks > tmSlots[i].deadline
Swept == [i \in 1..TmSlots |-> IF Late(i) THEN FreeSlot ELSE tmSlots[i]]
SweptFrames == UNION {FramesIn(tmSlots[i]) : i \in {j \in 1..TmSlots : Late(j)}}

\* Mutant: the slot is looked for by the number of fragments instead of by the frame.
SlotOfCount(slots, f) ==
    {i \in 1..TmSlots : slots[i].active /\ Len(slots[i].parts) = tmMade[f].count}
SlotOf(slots, f) == {i \in 1..TmSlots : slots[i].active /\ slots[i].seq = tmMade[f].seq}

\* The first free slot, or the one that is nearest to its deadline.
Before(slots, i, j) ==
    IF slots[i].active # slots[j].active THEN ~slots[i].active
    ELSE \/ slots[i].active /\ slots[i].deadline < slots[j].deadline
         \/ i <= j /\ (slots[i].active => slots[i].deadline = slots[j].deadline)
Claimed(slots) == CHOOSE i \in 1..TmSlots : \A j \in 1..TmSlots : Before(slots, i, j)
Total(f) == (tmMade[f].count - 1) * TmChunk + tmMade[f].tail
Fresh(f) ==
    [active |-> TRUE, seq |-> tmMade[f].seq, total |-> Total(f), parts |-> [i \in 1..tmMade[f].count |-> TmNoPart],
     deadline |-> tmTicks + TmHold]

\* Mutant: a fragment counts only when it is the next of its frame.
OnlyNext(parts, frag) ==
    IF frag[2] = 0 \/ parts[frag[2]] # TmNoPart THEN [parts EXCEPT ![frag[2] + 1] = frag] ELSE parts
Filled(parts, frag) ==
    IF parts[frag[2] + 1] = TmNoPart THEN [parts EXCEPT ![frag[2] + 1] = frag] ELSE parts

Placed(parts, frag) == IF frag[2] + 1 \in DOMAIN parts THEN Filled(parts, frag) ELSE parts
Complete(parts) == TmNoPart \notin ToSet(parts)

\* The lengths add up to what the first fragment to arrive said.
LengthOf(frag) == IF frag[2] + 1 = tmMade[frag[1]].count THEN tmMade[frag[1]].tail ELSE TmChunk
LengthFits(slot, parts) == FoldSeq(LAMBDA p, n : n + LengthOf(p), 0, parts) = slot.total

\* The reader of a track: what the decoder finds in the packet goes to push.
TmReads(p) == tmAir' = tmAir \ {p} /\ tmArrived' = tmArrived \cup {p[1]}

\* A fragment whose index is beyond its slot stops the reader; that is left to IndexFits.
TmPush ==
    \E p \in tmAir :
        LET frag == p[1]  f == frag[1]
            found == SlotOf(Swept, f)
            at == IF found = {} THEN Claimed(Swept) ELSE CHOOSE i \in found : \A j \in found : i <= j
            slot == IF found = {} THEN Fresh(f) ELSE Swept[at]
            parts == Placed(slot.parts, frag)
        IN  /\ TmReads(p)
            /\ tmSpoiled' = tmSpoiled \cup SweptFrames
                            \cup (IF found = {} THEN FramesIn(Swept[at]) ELSE {})
            /\ IF Complete(parts)
               THEN /\ tmHanded' = IF LengthFits(slot, parts) THEN tmHanded \cup {parts} ELSE tmHanded
                    /\ tmSlots' = [Swept EXCEPT ![at] = FreeSlot]
               ELSE /\ tmSlots' = [Swept EXCEPT ![at] = [slot EXCEPT !.parts = parts]]
                    /\ UNCHANGED tmHanded
            /\ UNCHANGED <<tmAudio, tmOut, tmSent, tmResent, tmTicks>>
----------------------------------------------------------------------------
TmSender == TmEnqueue \/ TmTick \/ TmSendFrame \/ TmSendFails \/ TmResend
TmFramesNext == TmSender \/ TmLose \/ TmPush
TmFramesSpec == TmFramesInit /\ [][TmFramesNext]_tmFrameVars
----------------------------------------------------------------------------
TmWhole(f) == Fragments(f, tmMade[f].count)

\* What is handed on is a frame that was sent, all of it and in order: no two frames are
\* spliced, whatever was lost, resent, evicted or late (push).  The comment on frameSeq says
\* that the counter may wrap at 256 because that "leaves a wide margin".
HandedWhole == \A h \in tmHanded : \E f \in 1..Len(tmMade) : h = TmWhole(f)

\* A frame all of whose fragments arrived, in whatever order and between whatever others, was
\* handed on, unless its slot was taken from it or it took too long (frameReassembler).
OrderIsNoMatter ==
    \A f \in 1..Len(tmMade) :
        ToSet(TmWhole(f)) \subseteq tmArrived /\ f \notin tmSpoiled => TmWhole(f) \in tmHanded

\* slot.parts[index] is there: no fragment meets the slot of a shorter frame.
IndexFits ==
    \A p \in tmAir : \A i \in SlotOf(Swept, p[1][1]) : p[1][2] + 1 \in DOMAIN Swept[i].parts
=============================================================================
