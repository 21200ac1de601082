---------------------------- MODULE FramesProofs ----------------------------
(***************************************************************************)
(* Theorems about the frames of a Telemost call (TelemostFrames): nothing  *)
(* is under way, gathered or handed on that was not cut from a frame; and, *)
(* as long as the counter that names the frames has not come round, what   *)
(* is handed on is one frame, whole, and no frame that arrived is lost.    *)
(***************************************************************************)
EXTENDS TelemostFrames, SequenceLemmas

----------------------------------------------------------------------------
(* The frames of a Telemost call.                                          *)

\* The fragments of the frames made so far.
MadeFrags(mk) == {x \in TmFragment : x[1] <= Len(mk) /\ x[2] < mk[x[1]].count}
PartsIn(mk) == MadeFrags(mk) \cup {TmNoPart}
TmSlot(mk) == [active : BOOLEAN, seq : 0..TmSeqSpace - 1, total : Nat, parts : Seq(PartsIn(mk)), deadline : Nat]

\* Nothing is under way, gathered or handed on that was not made.
FramesTyped(mk) ==
    /\ mk \in Seq(TmMade) /\ Len(mk) <= TmFrames
    /\ tmAudio \in BOOLEAN /\ tmQueue \in Seq(MadeFrags(mk)) /\ tmPaced \in Seq(MadeFrags(mk))
    /\ tmSent \in Seq(MadeFrags(mk)) /\ Len(tmSent) <= TmRing
    /\ tmAir \subseteq MadeFrags(mk) \X (0..TmResends) /\ tmResent \in 0..TmResends /\ tmTicks \in Nat
    /\ tmSlots \in [1..TmSlots -> TmSlot(mk)]
    /\ tmHanded \subseteq Seq(MadeFrags(mk)) /\ tmArrived \subseteq MadeFrags(mk) /\ tmSpoiled \subseteq 1..Len(mk)

FrameTypes == FramesTyped(tmMade)

LEMMA MadeIsFragment ==
  ASSUME NEW mk
  PROVE  /\ MadeFrags(mk) \subseteq TmFragment /\ PartsIn(mk) \subseteq TmFragment \cup {TmNoPart}
         /\ \A S : Seq(S \cap TmFragment) \subseteq Seq(TmFragment)
         /\ TmNoPart \notin TmFragment
<1>1. MadeFrags(mk) \subseteq TmFragment
  BY DEF MadeFrags
<1>2. TmNoPart \notin TmFragment
  BY DEF TmNoPart, TmFragment, TmFrame
<1>3. QED
  BY <1>1, <1>2 DEF PartsIn

LEMMA SmallerSeq == ASSUME NEW S, NEW R, S \subseteq R, NEW q \in Seq(S) PROVE q \in Seq(R)
<1>1. q \in [1..Len(q) -> R] /\ Len(q) \in Nat
  OBVIOUS
<1>2. QED
  BY <1>1, FunctionIsSeq

LEMMA FramesShow == FrameTypes => TmFramesTypeOK
<1> SUFFICES ASSUME FrameTypes PROVE TmFramesTypeOK
  OBVIOUS
<1>1. MadeFrags(tmMade) \subseteq TmFragment /\ PartsIn(tmMade) \subseteq TmFragment \cup {TmNoPart}
  BY MadeIsFragment
<1>2. tmQueue \in Seq(TmFragment) /\ tmPaced \in Seq(TmFragment) /\ tmSent \in Seq(TmFragment)
  BY <1>1, SmallerSeq DEF FrameTypes, FramesTyped
<1>3. tmHanded \subseteq Seq(TmFragment)
  BY <1>1, SmallerSeq DEF FrameTypes, FramesTyped
<1>4. tmAir \subseteq TmFragment \X (0..TmResends)
  BY <1>1 DEF FrameTypes, FramesTyped
<1>5. tmSpoiled \subseteq TmFrame
  BY TelemostFramesAssumption DEF FrameTypes, FramesTyped, TmFrame
<1>6. \A i \in 1..TmSlots :
         /\ tmSlots[i].active \in BOOLEAN /\ tmSlots[i].seq \in 0..TmSeqSpace - 1
         /\ tmSlots[i].total \in Nat
         /\ tmSlots[i].parts \in Seq(TmFragment \cup {TmNoPart}) /\ tmSlots[i].deadline \in Nat
  <2> SUFFICES ASSUME NEW i \in 1..TmSlots
               PROVE  /\ tmSlots[i].active \in BOOLEAN /\ tmSlots[i].seq \in 0..TmSeqSpace - 1
                      /\ tmSlots[i].total \in Nat
                      /\ tmSlots[i].parts \in Seq(TmFragment \cup {TmNoPart}) /\ tmSlots[i].deadline \in Nat
    OBVIOUS
  <2>1. tmSlots[i] \in TmSlot(tmMade)
    BY DEF FrameTypes, FramesTyped
  <2>2. /\ tmSlots[i].active \in BOOLEAN /\ tmSlots[i].seq \in 0..TmSeqSpace - 1
        /\ tmSlots[i].total \in Nat /\ tmSlots[i].parts \in Seq(PartsIn(tmMade)) /\ tmSlots[i].deadline \in Nat
    BY <2>1 DEF TmSlot
  <2>3. tmSlots[i].parts \in Seq(TmFragment \cup {TmNoPart})
    BY <1>1, <2>2, SmallerSeq
  <2>4. QED
    BY <2>2, <2>3
<1>7. tmArrived \subseteq TmFragment
  BY <1>1 DEF FrameTypes, FramesTyped
<1>8. QED
  BY <1>2, <1>3, <1>4, <1>5, <1>6, <1>7 DEF TmFramesTypeOK, FrameTypes, FramesTyped

LEMMA FreeIsSlot == ASSUME NEW mk PROVE FreeSlot \in TmSlot(mk) /\ FreeSlot.active = FALSE
<1> USE TelemostFramesAssumption
<1>1. <<>> \in Seq(PartsIn(mk)) /\ 0 \in 0..TmSeqSpace - 1
  OBVIOUS
<1>2. QED
  BY <1>1 DEF FreeSlot, TmSlot

LEMMA FramesStart == TmFramesInit => FrameTypes
<1> SUFFICES ASSUME TmFramesInit PROVE FrameTypes
  OBVIOUS
<1> USE TelemostFramesAssumption
<1>1. \A S : <<>> \in Seq(S)
  OBVIOUS
<1>2. Len(<<>>) = 0 /\ 0 <= TmFrames /\ 0 <= TmRing /\ 0 \in 0..TmResends
  OBVIOUS
<1>3. tmSlots \in [1..TmSlots -> TmSlot(tmMade)]
  BY FreeIsSlot DEF TmFramesInit
<1>4. tmMade \in Seq(TmMade) /\ Len(tmMade) <= TmFrames /\ tmSent \in Seq(MadeFrags(tmMade)) /\ Len(tmSent) <= TmRing
  BY <1>1, <1>2 DEF TmFramesInit
<1>5. tmQueue \in Seq(MadeFrags(tmMade)) /\ tmPaced \in Seq(MadeFrags(tmMade))
  BY <1>1 DEF TmFramesInit
<1>6. QED
  BY <1>2, <1>3, <1>4, <1>5 DEF TmFramesInit, FrameTypes, FramesTyped

\* One more frame is made.
LEMMA MadeGrows ==
  ASSUME NEW mk \in Seq(TmMade), NEW r \in TmMade, Len(mk) < TmFrames
  PROVE  /\ Append(mk, r) \in Seq(TmMade) /\ Len(Append(mk, r)) = Len(mk) + 1 /\ Len(Append(mk, r)) <= TmFrames
         /\ Len(mk) \in Nat /\ \A f \in 1..Len(mk) : Append(mk, r)[f] = mk[f]
         /\ Append(mk, r)[Len(mk) + 1] = r
         /\ MadeFrags(mk) \subseteq MadeFrags(Append(mk, r)) /\ PartsIn(mk) \subseteq PartsIn(Append(mk, r))
         /\ Fragments(Len(mk) + 1, r.count) \in Seq(MadeFrags(Append(mk, r)))
<1> USE TelemostFramesAssumption
<1> DEFINE k == Append(mk, r)
           n == Len(mk)
<1>1. k \in Seq(TmMade) /\ Len(k) = n + 1 /\ n \in Nat /\ k[n + 1] = r /\ \A f \in 1..n : k[f] = mk[f]
  OBVIOUS
<1> HIDE DEF k
<1>2. n + 1 <= TmFrames /\ n + 1 \in TmFrame
  BY <1>1 DEF TmFrame
<1>3. MadeFrags(mk) \subseteq MadeFrags(k)
  <2> SUFFICES ASSUME NEW x \in MadeFrags(mk) PROVE x \in MadeFrags(k)
    OBVIOUS
  <2>1. x \in TmFragment /\ x[1] <= n /\ x[2] < mk[x[1]].count
    BY DEF MadeFrags
  <2>2. x[1] \in 1..n
    BY <2>1 DEF TmFragment, TmFrame
  <2>3. x[1] <= Len(k) /\ x[2] < k[x[1]].count
    BY <1>1, <2>1, <2>2
  <2>4. QED
    BY <2>1, <2>3 DEF MadeFrags
<1>4. Fragments(n + 1, r.count) \in Seq(MadeFrags(k))
  <2>1. r.count \in 1..TmPieces /\ TmPieces \in Nat
    BY DEF TmMade
  <2>2. \A i \in 1..r.count : <<n + 1, i - 1>> \in MadeFrags(k)
    <3> SUFFICES ASSUME NEW i \in 1..r.count PROVE <<n + 1, i - 1>> \in MadeFrags(k)
      OBVIOUS
    <3>1. i - 1 \in 0..TmPieces - 1 /\ i - 1 < r.count
      BY <2>1
    <3>2. <<n + 1, i - 1>> \in TmFragment
      BY <1>2, <3>1 DEF TmFragment
    <3>3. i - 1 < k[n + 1].count /\ n + 1 <= Len(k)
      BY <1>1, <3>1
    <3>4. QED
      BY <3>2, <3>3 DEF MadeFrags
  <2>3. Fragments(n + 1, r.count) \in [1..r.count -> MadeFrags(k)] /\ r.count \in Nat
    BY SMTT(40), <2>1, <2>2 DEF Fragments
  <2>4. QED
    BY <2>3, FunctionIsSeq
<1>5. QED
  BY <1>1, <1>2, <1>3, <1>4 DEF k, PartsIn

\* What was typed by the frames made before is typed by those made now.
LEMMA TypedByMore ==
  ASSUME FrameTypes, NEW r \in TmMade, Len(tmMade) < TmFrames
  PROVE  FramesTyped(Append(tmMade, r))
<1> DEFINE k == Append(tmMade, r)
<1>1. /\ tmMade \in Seq(TmMade) /\ k \in Seq(TmMade) /\ Len(k) <= TmFrames /\ MadeFrags(tmMade) \subseteq MadeFrags(k)
      /\ PartsIn(tmMade) \subseteq PartsIn(k) /\ Len(k) = Len(tmMade) + 1 /\ Len(tmMade) \in Nat
  BY MadeGrows DEF FrameTypes, FramesTyped
<1> HIDE DEF k
<1>2. /\ tmAudio \in BOOLEAN /\ tmResent \in 0..TmResends /\ tmTicks \in Nat /\ tmSpoiled \subseteq 1..Len(k)
      /\ Len(tmSent) <= TmRing
  BY <1>1 DEF FrameTypes, FramesTyped
<1>3. tmQueue \in Seq(MadeFrags(k)) /\ tmPaced \in Seq(MadeFrags(k)) /\ tmSent \in Seq(MadeFrags(k))
  BY <1>1, SmallerSeq DEF FrameTypes, FramesTyped
<1>4. tmHanded \subseteq Seq(MadeFrags(k))
  BY <1>1, SmallerSeq DEF FrameTypes, FramesTyped
<1>5. tmAir \subseteq MadeFrags(k) \X (0..TmResends) /\ tmArrived \subseteq MadeFrags(k)
  BY <1>1 DEF FrameTypes, FramesTyped
<1>6. Seq(PartsIn(tmMade)) \subseteq Seq(PartsIn(k))
  BY <1>1, SmallerSeq
<1>7. TmSlot(tmMade) \subseteq TmSlot(k)
  BY <1>6 DEF TmSlot
<1>8. tmSlots \in [1..TmSlots -> TmSlot(k)]
  BY <1>7 DEF FrameTypes, FramesTyped
<1>9. QED
  BY <1>1, <1>2, <1>3, <1>4, <1>5, <1>8 DEF FramesTyped, k

\* Fragmented says what frame is made; its seq is in range.
LEMMA FragmentedMakes ==
  ASSUME FrameTypes, NEW count \in 1..TmPieces, Fragmented(count)
  PROVE  \E r \in TmMade : tmMade' = Append(tmMade, r) /\ r.count = count /\ Len(tmMade) < TmFrames
                           /\ \E step \in 1..TmSharers : r.seq = NextSeq(step)
<1> USE TelemostFramesAssumption
<1>1. PICK step \in 1..TmSharers, tail \in 1..TmChunk :
         tmMade' = Append(tmMade, [count |-> count, tail |-> tail, seq |-> NextSeq(step)])
  BY DEF Fragmented
<1>2. NextSeq(step) \in 0..TmSeqSpace - 1
  <2>1. (IF tmMade = <<>> THEN 0 ELSE Last(tmMade).seq) \in Nat
    <3>1. tmMade \in Seq(TmMade)
      BY DEF FrameTypes, FramesTyped
    <3>2. tmMade # <<>> => tmMade[Len(tmMade)] \in TmMade
      BY <3>1
    <3>3. tmMade # <<>> => tmMade[Len(tmMade)].seq \in Nat
      BY <3>2 DEF TmMade
    <3>4. QED
      BY <3>3 DEF Last
  <2> DEFINE x == (IF tmMade = <<>> THEN 0 ELSE Last(tmMade).seq) + step
  <2>2. x \in Nat
    BY SMTT(40), <2>1
  <2> HIDE DEF x
  <2>3. x % TmSeqSpace \in 0..TmSeqSpace - 1
    BY <2>2
  <2>4. QED
    BY <2>3 DEF NextSeq, x
<1> DEFINE r == [count |-> count, tail |-> tail, seq |-> NextSeq(step)]
<1>3. r \in TmMade /\ r.count = count /\ r.seq = NextSeq(step)
  BY <1>2 DEF TmMade
<1>4. QED
  BY <1>1, <1>3 DEF Fragmented

----------------------------------------------------------------------------
(* The sender's steps.                                                     *)

LEMMA NewestIs ==
  ASSUME NEW S, NEW q \in Seq(S), NEW n \in Nat, n <= Len(q)
  PROVE  Newest(q, n) \in Seq(S) /\ Len(Newest(q, n)) = n
<1>1. Len(q) \in Nat /\ Len(q) - n \in 0..Len(q) /\ (Len(q) - n) + 1 = Len(q) - n + 1
  OBVIOUS
<1> DEFINE m == Len(q) - n
<1>2. SubSeq(q, m + 1, Len(q)) \in Seq(S) /\ Len(SubSeq(q, m + 1, Len(q))) = Len(q) - m
  BY <1>1, Cut
<1>3. QED
  BY <1>1, <1>2 DEF Newest

LEMMA QueueTyped ==
  ASSUME NEW S, tmQueue \in Seq(S), NEW frags \in Seq(S)
  PROVE  VideoQueue(frags) \in Seq(S) /\ AudioQueue(frags) \in Seq(S)
<1> USE TelemostFramesAssumption
<1>1. VideoQueue(frags) \in Seq(S)
  <2>1. Len(tmQueue) >= TmQueueMax => Newest(tmQueue, TmQueueMax - 1) \in Seq(S)
    BY NewestIs
  <2>2. QED
    BY <2>1, Together DEF VideoQueue
<1>2. AudioQueue(frags) \in Seq(S)
  <2> DEFINE over == Len(tmQueue) + Len(frags) - TmQueueMax
             kept == IF over <= 0 THEN tmQueue
                     ELSE IF over > Len(tmQueue) THEN <<>> ELSE Newest(tmQueue, Len(tmQueue) - over)
  <2>1. over \in Int /\ Len(tmQueue) \in Nat
    OBVIOUS
  <2>2. AudioQueue(frags) = kept \o frags
    BY DEF AudioQueue
  <2> HIDE DEF over
  <2>3. ~(over <= 0) /\ ~(over > Len(tmQueue)) => Newest(tmQueue, Len(tmQueue) - over) \in Seq(S)
    BY <2>1, NewestIs
  <2>4. <<>> \in Seq(S)
    OBVIOUS
  <2>5. kept \in Seq(S)
    BY <2>3, <2>4
  <2> HIDE DEF kept
  <2>6. QED
    BY <2>2, <2>5, Together
<1>3. QED
  BY <1>1, <1>2

LEMMA RingTyped ==
  ASSUME NEW S, tmSent \in Seq(S), Len(tmSent) <= TmRing, NEW x \in S
  PROVE  Remembered(x) \in Seq(S) /\ Len(Remembered(x)) <= TmRing
<1> USE TelemostFramesAssumption
<1>1. CASE Len(tmSent) < TmRing
  BY <1>1 DEF Remembered
<1>2. CASE ~(Len(tmSent) < TmRing)
  <2>1. Len(tmSent) = TmRing /\ TmRing # 0 /\ Len(tmSent) \in Nat
    BY <1>2
  <2>2. tmSent # <<>>
    BY <2>1
  <2>3. Tail(tmSent) \in Seq(S) /\ Len(Tail(tmSent)) = Len(tmSent) - 1
    BY <2>2, FirstElement
  <2>4. Append(Tail(tmSent), x) \in Seq(S) /\ Len(Append(Tail(tmSent), x)) = TmRing
    BY <2>1, <2>3
  <2>5. QED
    BY <1>2, <2>4 DEF Remembered
<1>3. QED
  BY <1>1, <1>2

\* What the frames are about, when they stay the same.
LEMMA FramesNow ==
  ASSUME FrameTypes
  PROVE  /\ tmMade \in Seq(TmMade) /\ Len(tmMade) <= TmFrames /\ Len(tmMade) \in Nat
         /\ tmAudio \in BOOLEAN /\ tmQueue \in Seq(MadeFrags(tmMade)) /\ tmPaced \in Seq(MadeFrags(tmMade))
         /\ tmSent \in Seq(MadeFrags(tmMade)) /\ Len(tmSent) <= TmRing
         /\ tmAir \subseteq MadeFrags(tmMade) \X (0..TmResends) /\ tmResent \in 0..TmResends /\ tmTicks \in Nat
         /\ tmSlots \in [1..TmSlots -> TmSlot(tmMade)]
         /\ tmHanded \subseteq Seq(MadeFrags(tmMade)) /\ tmArrived \subseteq MadeFrags(tmMade)
         /\ tmSpoiled \subseteq 1..Len(tmMade)
BY DEF FrameTypes, FramesTyped

LEMMA FramesOK ==
  ASSUME /\ tmMade' \in Seq(TmMade) /\ Len(tmMade') <= TmFrames
         /\ tmAudio' \in BOOLEAN /\ tmQueue' \in Seq(MadeFrags(tmMade')) /\ tmPaced' \in Seq(MadeFrags(tmMade'))
         /\ tmSent' \in Seq(MadeFrags(tmMade')) /\ Len(tmSent') <= TmRing
         /\ tmAir' \subseteq MadeFrags(tmMade') \X (0..TmResends) /\ tmResent' \in 0..TmResends /\ tmTicks' \in Nat
         /\ tmSlots' \in [1..TmSlots -> TmSlot(tmMade')]
         /\ tmHanded' \subseteq Seq(MadeFrags(tmMade')) /\ tmArrived' \subseteq MadeFrags(tmMade')
         /\ tmSpoiled' \subseteq 1..Len(tmMade')
  PROVE  FrameTypes'
BY DEF FrameTypes, FramesTyped

LEMMA FramesStay == ASSUME FrameTypes, UNCHANGED tmFrameVars PROVE FrameTypes'
<1>1. UNCHANGED <<tmAudio, tmMade, tmQueue, tmPaced, tmSent, tmAir, tmResent, tmTicks, tmSlots, tmHanded, tmArrived, tmSpoiled>>
  BY DEF tmFrameVars, tmOut, tmNet, tmIn
<1>2. QED
  BY <1>1 DEF FrameTypes, FramesTyped

\* A frame is cut: the sender's part of what TmEnqueue and TmTick have in common.
LEMMA FrameIsCut ==
  ASSUME FrameTypes, NEW count \in 1..TmPieces, Fragmented(count)
  PROVE  /\ FramesTyped(tmMade') /\ Fragments(Len(tmMade) + 1, count) \in Seq(MadeFrags(tmMade'))
         /\ tmQueue \in Seq(MadeFrags(tmMade')) /\ tmPaced \in Seq(MadeFrags(tmMade'))
<1>1. PICK r \in TmMade : tmMade' = Append(tmMade, r) /\ r.count = count /\ Len(tmMade) < TmFrames
  BY FragmentedMakes
<1>2. FramesTyped(tmMade')
  BY <1>1, TypedByMore
<1>3. Fragments(Len(tmMade) + 1, count) \in Seq(MadeFrags(tmMade'))
  BY <1>1, MadeGrows, FramesNow
<1>4. QED
  BY <1>2, <1>3 DEF FramesTyped

LEMMA EnqueueKeeps == ASSUME FrameTypes, TmEnqueue PROVE FrameTypes'
<1>1. PICK count \in 1..TmPieces :
        /\ Fragmented(count)
        /\ tmQueue' = IF tmAudio THEN AudioQueue(Fragments(Len(tmMade) + 1, count))
                      ELSE VideoQueue(Fragments(Len(tmMade) + 1, count))
        /\ UNCHANGED <<tmAudio, tmPaced, tmNet, tmTicks, tmIn>>
  BY DEF TmEnqueue
<1>2. UNCHANGED <<tmAudio, tmPaced, tmSent, tmAir, tmResent, tmTicks, tmSlots, tmHanded, tmArrived, tmSpoiled>>
  BY <1>1 DEF tmNet, tmIn
<1>3. /\ FramesTyped(tmMade') /\ Fragments(Len(tmMade) + 1, count) \in Seq(MadeFrags(tmMade'))
      /\ tmQueue \in Seq(MadeFrags(tmMade'))
  BY <1>1, FrameIsCut
<1>4. tmQueue' \in Seq(MadeFrags(tmMade'))
  BY <1>1, <1>3, QueueTyped
<1>5. QED
  BY <1>2, <1>3, <1>4 DEF FrameTypes, FramesTyped

LEMMA PoppedIs ==
  ASSUME NEW S, tmQueue \in Seq(S)
  PROVE  Popped \in Seq(S) /\ SubSeq(tmQueue, Len(Popped) + 1, Len(tmQueue)) \in Seq(S)
<1> DEFINE n == IF Len(tmQueue) < TmPerTick THEN Len(tmQueue) ELSE TmPerTick
<1>1. n \in 0..Len(tmQueue)
  BY TelemostFramesAssumption
<1> HIDE DEF n
<1>2. SubSeq(tmQueue, 1, n) \in Seq(S) /\ Len(SubSeq(tmQueue, 1, n)) = n /\ SubSeq(tmQueue, n + 1, Len(tmQueue)) \in Seq(S)
  BY <1>1, Cut
<1>3. Popped = SubSeq(tmQueue, 1, n)
  BY DEF Popped, n
<1>4. QED
  BY <1>2, <1>3

LEMMA TickKeeps == ASSUME FrameTypes, TmTick PROVE FrameTypes'
<1>1. /\ tmTicks' = tmTicks + 1
      /\ tmQueue' = SubSeq(tmQueue, Len(Popped) + 1, Len(tmQueue))
      /\ UNCHANGED <<tmAudio, tmNet, tmIn>>
  BY DEF TmTick
<1>2. UNCHANGED <<tmAudio, tmSent, tmAir, tmResent, tmSlots, tmHanded, tmArrived, tmSpoiled>>
  BY <1>1 DEF tmNet, tmIn
<1>3. tmTicks' \in Nat
  BY <1>1, FramesNow
<1>4. CASE tmPaced' = Popped /\ UNCHANGED tmMade
  <2>1. tmQueue' \in Seq(MadeFrags(tmMade')) /\ tmPaced' \in Seq(MadeFrags(tmMade'))
    BY <1>1, <1>4, PoppedIs, FramesNow
  <2>2. QED
    BY <1>2, <1>3, <1>4, <2>1 DEF FrameTypes, FramesTyped
<1>5. ASSUME NEW count \in 1..TmPieces, Fragmented(count), tmPaced' = Popped \o Fragments(Len(tmMade) + 1, count)
      PROVE  FrameTypes'
  <2>1. /\ FramesTyped(tmMade') /\ Fragments(Len(tmMade) + 1, count) \in Seq(MadeFrags(tmMade'))
        /\ tmQueue \in Seq(MadeFrags(tmMade'))
    BY <1>5, FrameIsCut
  <2>2. tmQueue' \in Seq(MadeFrags(tmMade')) /\ Popped \in Seq(MadeFrags(tmMade'))
    BY <1>1, <2>1, PoppedIs
  <2>3. tmPaced' \in Seq(MadeFrags(tmMade'))
    BY <1>5, <2>1, <2>2, Together
  <2>4. QED
    BY <1>2, <1>3, <2>1, <2>2, <2>3 DEF FrameTypes, FramesTyped
<1>6. QED
  BY <1>4, <1>5 DEF TmTick

LEMMA SendFrameKeeps == ASSUME FrameTypes, TmSendFrame \/ TmSendFails PROVE FrameTypes'
<1>1. tmPaced # <<>> /\ tmPaced' = Tail(tmPaced)
  BY DEF TmSendFrame, TmSendFails
<1>2. Head(tmPaced) \in MadeFrags(tmMade) /\ Tail(tmPaced) \in Seq(MadeFrags(tmMade))
  BY <1>1, FirstElement, FramesNow
<1>3. UNCHANGED <<tmAudio, tmMade, tmQueue, tmResent, tmTicks, tmSlots, tmHanded, tmArrived, tmSpoiled>>
  BY DEF TmSendFrame, TmSendFails, tmNet, tmIn
<1>4. tmSent' \in Seq(MadeFrags(tmMade)) /\ Len(tmSent') <= TmRing
  <2>1. CASE TmSendFrame
    BY <1>2, <2>1, RingTyped, FramesNow DEF TmSendFrame
  <2>2. CASE TmSendFails
    BY <2>2, FramesNow DEF TmSendFails, tmNet
  <2>3. QED
    BY <2>1, <2>2
<1>5. tmAir' \subseteq MadeFrags(tmMade) \X (0..TmResends)
  <2>1. 0 \in 0..TmResends
    BY TelemostFramesAssumption
  <2>2. CASE TmSendFrame
    BY <1>2, <2>1, <2>2, FramesNow DEF TmSendFrame
  <2>3. CASE TmSendFails
    BY <2>3, FramesNow DEF TmSendFails, tmNet
  <2>4. QED
    BY <2>2, <2>3
<1>6. QED
  BY <1>1, <1>2, <1>3, <1>4, <1>5, FramesNow, FramesOK

LEMMA ResendKeeps == ASSUME FrameTypes, TmResend \/ TmLose PROVE FrameTypes'
<1>1. UNCHANGED <<tmAudio, tmMade, tmQueue, tmPaced, tmSent, tmTicks, tmSlots, tmHanded, tmArrived, tmSpoiled>>
  BY DEF TmResend, TmLose, tmOut, tmIn
<1>2. tmAir' \subseteq MadeFrags(tmMade) \X (0..TmResends) /\ tmResent' \in 0..TmResends
  <2>1. CASE TmResend
    <3>1. tmResent + 1 \in 0..TmResends
      BY SMTT(40), <2>1, FramesNow, TelemostFramesAssumption DEF TmResend
    <3>2. ToSet(tmSent) \subseteq MadeFrags(tmMade)
      BY InSequence, FramesNow
    <3>3. QED
      BY <2>1, <3>1, <3>2, FramesNow DEF TmResend
  <2>2. CASE TmLose
    BY <2>2, FramesNow DEF TmLose
  <2>3. QED
    BY <2>1, <2>2
<1>3. QED
  BY <1>1, <1>2, FramesNow, FramesOK

----------------------------------------------------------------------------
(* The receiver's step: where a fragment goes, and what becomes of it.     *)

TmAt(f) == IF SlotOf(Swept, f) = {} THEN Claimed(Swept) ELSE CHOOSE i \in SlotOf(Swept, f) : \A j \in SlotOf(Swept, f) : i <= j
TmHas(f) == IF SlotOf(Swept, f) = {} THEN Fresh(f) ELSE Swept[TmAt(f)]
TmThen(x) == Placed(TmHas(x[1]).parts, x)

LEMMA MadeOf ==
  ASSUME FrameTypes, NEW x \in MadeFrags(tmMade)
  PROVE  /\ x = <<x[1], x[2]>> /\ x[1] \in 1..Len(tmMade) /\ x[1] \in TmFrame /\ tmMade[x[1]] \in TmMade
         /\ x[2] \in Nat /\ x[2] < tmMade[x[1]].count /\ x[2] + 1 \in 1..tmMade[x[1]].count /\ x # TmNoPart
         /\ x \in TmFragment
<1> USE TelemostFramesAssumption
<1>1. x \in TmFragment /\ x[1] <= Len(tmMade) /\ x[2] < tmMade[x[1]].count
  BY DEF MadeFrags
<1>2. x = <<x[1], x[2]>> /\ x[1] \in TmFrame /\ x[2] \in 0..TmPieces - 1
  BY <1>1 DEF TmFragment
<1>3. x[1] \in Nat /\ x[1] >= 1 /\ x[2] \in Nat
  BY <1>2 DEF TmFrame
<1>4. x[1] \in 1..Len(tmMade) /\ tmMade[x[1]] \in TmMade
  BY SMTT(40), <1>1, <1>3, FramesNow
<1>5. tmMade[x[1]].count \in Nat
  BY SMTT(40), <1>4 DEF TmMade
<1>6. x # TmNoPart
  BY <1>3 DEF TmNoPart
<1>7. x[2] + 1 \in 1..tmMade[x[1]].count
  <2> DEFINE n == tmMade[x[1]].count
             m == x[2]
  <2>1. m \in Nat /\ n \in Nat /\ m < n
    BY <1>1, <1>3, <1>5
  <2> HIDE DEF m, n
  <2>2. m + 1 \in 1..n
    BY <2>1
  <2>3. QED
    BY <2>2 DEF m, n
<1>8. QED
  BY <1>1, <1>2, <1>3, <1>4, <1>6, <1>7, Zenon

LEMMA SweptTyped ==
  ASSUME FrameTypes
  PROVE  /\ Swept \in [1..TmSlots -> TmSlot(tmMade)]
         /\ \A i \in 1..TmSlots : Swept[i].active => Swept[i] = tmSlots[i] /\ ~Late(i)
<1>1. \A i \in 1..TmSlots : Swept[i] = IF Late(i) THEN FreeSlot ELSE tmSlots[i]
  BY DEF Swept
<1>2. FreeSlot \in TmSlot(tmMade) /\ FreeSlot.active = FALSE
  BY FreeIsSlot
<1>3. \A i \in 1..TmSlots : tmSlots[i] \in TmSlot(tmMade)
  BY FramesNow
<1>4. QED
  BY <1>1, <1>2, <1>3 DEF Swept

LEMMA SlotIs ==
  ASSUME NEW mk, NEW s \in TmSlot(mk)
  PROVE  /\ s.active \in BOOLEAN /\ s.seq \in 0..TmSeqSpace - 1 /\ s.total \in Nat /\ s.parts \in Seq(PartsIn(mk))
         /\ s.deadline \in Nat
BY DEF TmSlot

LEMMA ClaimedIs ==
  ASSUME NEW mk, NEW slots \in [1..TmSlots -> TmSlot(mk)]
  PROVE  Claimed(slots) \in 1..TmSlots /\ \A j \in 1..TmSlots : Before(slots, Claimed(slots), j)
<1> USE TelemostFramesAssumption
<1>1. \E i \in 1..TmSlots : \A j \in 1..TmSlots : Before(slots, i, j)
  <2>1. \A i \in 1..TmSlots : slots[i].active \in BOOLEAN /\ slots[i].deadline \in Nat
    BY SlotIs
  <2> DEFINE free == {i \in 1..TmSlots : ~slots[i].active}
             ends == {slots[i].deadline : i \in 1..TmSlots}
  <2>2. CASE free # {}
    <3>1. free \subseteq Nat
      OBVIOUS
    <3>2. PICK i \in free : \A j \in free : i <= j
      BY <2>2, <3>1, LeastOf
    <3>3. i \in 1..TmSlots /\ ~slots[i].active
      OBVIOUS
    <3>4. ASSUME NEW j \in 1..TmSlots PROVE Before(slots, i, j)
      <4>1. CASE slots[j].active
        BY <2>1, <3>3, <4>1 DEF Before
      <4>2. CASE ~slots[j].active
        BY <2>1, <3>2, <3>3, <4>2 DEF Before
      <4>3. QED
        BY <4>1, <4>2
    <3>5. QED
      BY <3>3, <3>4
  <2>3. CASE free = {}
    <3>1. \A i \in 1..TmSlots : slots[i].active
      BY <2>3
    <3>2. ends \subseteq Nat /\ ends # {}
      <4>1. 1 \in 1..TmSlots
        OBVIOUS
      <4>2. QED
        BY <2>1, <4>1
    <3> HIDE DEF ends
    <3>3. PICK d \in ends : \A e \in ends : d <= e
      BY <3>2, LeastOf
    <3> DEFINE first == {i \in 1..TmSlots : slots[i].deadline = d}
    <3>4. first # {} /\ first \subseteq Nat
      BY <3>3 DEF ends
    <3>5. PICK i \in first : \A j \in first : i <= j
      BY <3>4, LeastOf
    <3>6. i \in 1..TmSlots /\ slots[i].deadline = d
      OBVIOUS
    <3>7. ASSUME NEW j \in 1..TmSlots PROVE Before(slots, i, j)
      <4>1. slots[j].deadline \in ends
        BY DEF ends
      <4>2. d <= slots[j].deadline /\ d \in Nat /\ slots[j].deadline \in Nat
        BY <2>1, <3>3, <3>6, <4>1
      <4>3. slots[i].active = TRUE /\ slots[j].active = TRUE
        BY <2>1, <3>1, <3>6
      <4>4. CASE d < slots[j].deadline
        BY <3>6, <4>3, <4>4 DEF Before
      <4>5. CASE d = slots[j].deadline
        <5>1. j \in first
          BY <4>5
        <5>2. i <= j
          BY <3>5, <5>1
        <5>3. QED
          BY <3>6, <4>3, <4>5, <5>2 DEF Before
      <4>6. QED
        BY <4>2, <4>4, <4>5
    <3>8. QED
      BY <3>6, <3>7
  <2>4. QED
    BY <2>2, <2>3
<1>2. QED
  BY <1>1 DEF Claimed

LEMMA FoundIs ==
  ASSUME FrameTypes, NEW f
  PROVE  /\ TmAt(f) \in 1..TmSlots
         /\ SlotOf(Swept, f) # {} => TmAt(f) \in SlotOf(Swept, f) /\ \A j \in SlotOf(Swept, f) : TmAt(f) <= j
<1>1. CASE SlotOf(Swept, f) = {}
  <2>1. Claimed(Swept) \in 1..TmSlots
    BY ClaimedIs, SweptTyped
  <2>2. QED
    BY <1>1, <2>1 DEF TmAt
<1>2. CASE SlotOf(Swept, f) # {}
  <2>1. SlotOf(Swept, f) \subseteq 1..TmSlots /\ SlotOf(Swept, f) \subseteq Nat
    BY DEF SlotOf
  <2> DEFINE S == SlotOf(Swept, f)
  <2>2. \E i \in S : \A j \in S : i <= j
    BY <1>2, <2>1, LeastOf
  <2>3. TmAt(f) = CHOOSE i \in S : \A j \in S : i <= j
    BY <1>2 DEF TmAt
  <2> HIDE DEF S
  <2>4. TmAt(f) \in S /\ \A j \in S : TmAt(f) <= j
    BY <2>2, <2>3
  <2>5. QED
    BY <1>2, <2>1, <2>4 DEF S
<1>3. QED
  BY <1>1, <1>2

LEMMA TotalIs ==
  ASSUME FrameTypes, NEW f \in 1..Len(tmMade)
  PROVE  /\ Total(f) \in Nat /\ tmMade[f] \in TmMade /\ tmMade[f].count \in 1..TmPieces /\ tmMade[f].count \in Nat
         /\ tmMade[f].count >= 1 /\ tmMade[f].tail \in 1..TmChunk /\ tmMade[f].seq \in 0..TmSeqSpace - 1
<1> USE TelemostFramesAssumption
<1>1. tmMade[f] \in TmMade
  BY SMTT(40), FramesNow
<1>2. tmMade[f].count \in 1..TmPieces /\ tmMade[f].tail \in 1..TmChunk /\ tmMade[f].seq \in 0..TmSeqSpace - 1
  BY <1>1 DEF TmMade
<1>3. tmMade[f].count - 1 \in Nat /\ TmChunk \in Nat /\ tmMade[f].tail \in Nat /\ tmMade[f].count \in Nat
      /\ tmMade[f].count >= 1
  BY SMTT(40), <1>2
<1> DEFINE a == tmMade[f].count - 1
           b == a * TmChunk
<1>4. b \in Nat
  <2> HIDE DEF a
  <2>1. a \in Nat
    BY <1>3 DEF a
  <2>2. QED
    BY <1>3, <2>1
<1>5. Total(f) = b + tmMade[f].tail
  BY DEF Total
<1> HIDE DEF b
<1>6. Total(f) \in Nat
  BY SMTT(40), <1>3, <1>4, <1>5
<1>7. QED
  BY <1>1, <1>2, <1>3, <1>6

LEMMA FreshIs ==
  ASSUME FrameTypes, NEW f \in 1..Len(tmMade)
  PROVE  /\ Fresh(f) \in TmSlot(tmMade) /\ Fresh(f).active = TRUE /\ Fresh(f).seq = tmMade[f].seq
         /\ Fresh(f).total = Total(f) /\ Len(Fresh(f).parts) = tmMade[f].count
         /\ \A k \in 1..tmMade[f].count : Fresh(f).parts[k] = TmNoPart
         /\ Fresh(f).deadline = tmTicks + TmHold
<1> USE TelemostFramesAssumption
<1> DEFINE none == [i \in 1..tmMade[f].count |-> TmNoPart]
<1>1. tmMade[f].count \in Nat /\ Total(f) \in Nat /\ tmMade[f].seq \in 0..TmSeqSpace - 1
  BY TotalIs
<1>2. none \in [1..tmMade[f].count -> PartsIn(tmMade)]
  BY DEF PartsIn
<1>3. none \in Seq(PartsIn(tmMade)) /\ Len(none) = tmMade[f].count /\ \A k \in 1..tmMade[f].count : none[k] = TmNoPart
  BY <1>1, <1>2, FunctionIsSeq
<1>4. tmTicks + TmHold \in Nat
  BY SMTT(40), FramesNow
<1> HIDE DEF none
<1>5. Fresh(f) = [active |-> TRUE, seq |-> tmMade[f].seq, total |-> Total(f), parts |-> none, deadline |-> tmTicks + TmHold]
  BY DEF Fresh, none
<1>6. QED
  BY <1>1, <1>3, <1>4, <1>5 DEF TmSlot

\* The slot a fragment is put in.
LEMMA HasIs ==
  ASSUME FrameTypes, NEW f \in 1..Len(tmMade)
  PROVE  TmHas(f) \in TmSlot(tmMade) /\ TmHas(f).active /\ TmHas(f).seq = tmMade[f].seq
<1>1. CASE SlotOf(Swept, f) = {}
  BY <1>1, FreshIs DEF TmHas
<1>2. CASE SlotOf(Swept, f) # {}
  <2>1. TmAt(f) \in SlotOf(Swept, f) /\ TmAt(f) \in 1..TmSlots
    BY <1>2, FoundIs
  <2>2. Swept[TmAt(f)].active /\ Swept[TmAt(f)].seq = tmMade[f].seq /\ Swept[TmAt(f)] \in TmSlot(tmMade)
    BY <2>1, SweptTyped DEF SlotOf
  <2>3. QED
    BY <1>2, <2>2 DEF TmHas
<1>3. QED
  BY <1>1, <1>2

LEMMA PlacedIs ==
  ASSUME NEW mk, NEW parts \in Seq(PartsIn(mk)), NEW x \in MadeFrags(mk)
  PROVE  /\ Placed(parts, x) \in Seq(PartsIn(mk)) /\ Len(Placed(parts, x)) = Len(parts)
         /\ DOMAIN Placed(parts, x) = 1..Len(parts)
         /\ \A k \in 1..Len(parts) :
              Placed(parts, x)[k] = IF k = x[2] + 1 /\ parts[k] = TmNoPart THEN x ELSE parts[k]
<1>1. DOMAIN parts = 1..Len(parts) /\ Len(parts) \in Nat /\ x \in PartsIn(mk)
  BY DEF PartsIn
<1>2. CASE x[2] + 1 \in DOMAIN parts /\ parts[x[2] + 1] = TmNoPart
  <2> DEFINE at == x[2] + 1
             q == [parts EXCEPT ![at] = x]
  <2>1. Placed(parts, x) = q
    <3>1. Filled(parts, x) = q
      BY <1>2 DEF Filled
    <3>2. Placed(parts, x) = Filled(parts, x)
      BY <1>2 DEF Placed
    <3>3. QED
      BY <3>1, <3>2
  <2> HIDE DEF at
  <2>2. q \in [1..Len(parts) -> PartsIn(mk)] /\ \A k \in 1..Len(parts) : q[k] = IF k = at THEN x ELSE parts[k]
    <3>1. parts \in [1..Len(parts) -> PartsIn(mk)]
      OBVIOUS
    <3>2. x \in PartsIn(mk) /\ DOMAIN parts = 1..Len(parts)
      BY <1>1
    <3>3. DOMAIN q = 1..Len(parts)
      BY <3>2
    <3>4. \A k \in 1..Len(parts) : q[k] = IF k = at THEN x ELSE parts[k]
      BY <3>2
    <3>5. \A k \in 1..Len(parts) : q[k] \in PartsIn(mk)
      BY <3>1, <3>2, <3>4
    <3>6. q = [k \in 1..Len(parts) |-> q[k]]
      BY <3>2
    <3>7. QED
      BY <3>4, <3>5, <3>6
  <2> HIDE DEF q
  <2>3. q \in Seq(PartsIn(mk)) /\ Len(q) = Len(parts) /\ DOMAIN q = 1..Len(parts)
    BY <1>1, <2>2, FunctionIsSeq
  <2>4. QED
    BY <1>2, <2>1, <2>2, <2>3 DEF at
<1>3. CASE ~(x[2] + 1 \in DOMAIN parts /\ parts[x[2] + 1] = TmNoPart)
  <2>1. Placed(parts, x) = parts
    BY <1>3 DEF Placed, Filled
  <2>2. QED
    BY <1>1, <1>3, <2>1
<1>4. QED
  BY <1>2, <1>3

LEMMA CompleteIs ==
  ASSUME NEW mk, NEW parts \in Seq(PartsIn(mk)), Complete(parts)
  PROVE  parts \in Seq(MadeFrags(mk)) /\ \A k \in 1..Len(parts) : parts[k] # TmNoPart
<1>1. \A k \in 1..Len(parts) : parts[k] # TmNoPart /\ parts[k] \in PartsIn(mk)
  BY DEF Complete, ToSet
<1>2. parts \in [1..Len(parts) -> MadeFrags(mk)] /\ Len(parts) \in Nat
  BY <1>1 DEF PartsIn
<1>3. QED
  BY <1>1, <1>2, FunctionIsSeq

\* The step in the terms of the definitions above.
LEMMA PushMoves ==
  ASSUME TmPush
  PROVE  \E p \in tmAir :
            /\ tmAir' = tmAir \ {p} /\ tmArrived' = tmArrived \cup {p[1]}
            /\ tmSpoiled' = tmSpoiled \cup SweptFrames
                            \cup (IF SlotOf(Swept, p[1][1]) = {} THEN FramesIn(Swept[TmAt(p[1][1])]) ELSE {})
            /\ Complete(TmThen(p[1])) =>
                 /\ tmHanded' = IF LengthFits(TmHas(p[1][1]), TmThen(p[1])) THEN tmHanded \cup {TmThen(p[1])} ELSE tmHanded
                 /\ tmSlots' = [Swept EXCEPT ![TmAt(p[1][1])] = FreeSlot]
            /\ ~Complete(TmThen(p[1])) =>
                 /\ tmSlots' = [Swept EXCEPT ![TmAt(p[1][1])] = [TmHas(p[1][1]) EXCEPT !.parts = TmThen(p[1])]]
                 /\ tmHanded' = tmHanded
            /\ UNCHANGED <<tmAudio, tmMade, tmQueue, tmPaced, tmSent, tmResent, tmTicks>>
BY DEF TmPush, TmReads, TmAt, TmHas, TmThen, tmOut

LEMMA FramesInIs ==
  ASSUME FrameTypes, NEW s \in TmSlot(tmMade)
  PROVE  FramesIn(s) \subseteq 1..Len(tmMade)
<1> SUFFICES ASSUME NEW i \in DOMAIN s.parts, s.parts[i][1] # 0 PROVE s.parts[i][1] \in 1..Len(tmMade)
  BY DEF FramesIn
<1>1. s.parts[i] \in PartsIn(tmMade)
  BY SlotIs, Element
<1>2. s.parts[i] # TmNoPart
  BY DEF TmNoPart
<1>3. QED
  BY <1>1, <1>2, MadeOf DEF PartsIn

LEMMA PushKeeps == ASSUME FrameTypes, TmPush PROVE FrameTypes'
<1>1. PICK p \in tmAir :
            /\ tmAir' = tmAir \ {p} /\ tmArrived' = tmArrived \cup {p[1]}
            /\ tmSpoiled' = tmSpoiled \cup SweptFrames
                            \cup (IF SlotOf(Swept, p[1][1]) = {} THEN FramesIn(Swept[TmAt(p[1][1])]) ELSE {})
            /\ Complete(TmThen(p[1])) =>
                 /\ tmHanded' = IF LengthFits(TmHas(p[1][1]), TmThen(p[1])) THEN tmHanded \cup {TmThen(p[1])} ELSE tmHanded
                 /\ tmSlots' = [Swept EXCEPT ![TmAt(p[1][1])] = FreeSlot]
            /\ ~Complete(TmThen(p[1])) =>
                 /\ tmSlots' = [Swept EXCEPT ![TmAt(p[1][1])] = [TmHas(p[1][1]) EXCEPT !.parts = TmThen(p[1])]]
                 /\ tmHanded' = tmHanded
            /\ UNCHANGED <<tmAudio, tmMade, tmQueue, tmPaced, tmSent, tmResent, tmTicks>>
  BY PushMoves
<1> DEFINE x == p[1]
           f == x[1]
<1>2. x \in MadeFrags(tmMade)
  BY FramesNow
<1>3. f \in 1..Len(tmMade)
  BY <1>2, MadeOf
<1>4. TmAt(f) \in 1..TmSlots /\ TmHas(f) \in TmSlot(tmMade) /\ TmHas(f).parts \in Seq(PartsIn(tmMade))
  BY <1>3, FoundIs, HasIs, SlotIs
<1>5. TmThen(x) \in Seq(PartsIn(tmMade))
  BY <1>2, <1>4, PlacedIs DEF TmThen
<1>6. tmArrived' \subseteq MadeFrags(tmMade) /\ tmAir' \subseteq MadeFrags(tmMade) \X (0..TmResends)
  BY <1>1, <1>2, FramesNow
<1>7. tmSpoiled' \subseteq 1..Len(tmMade)
  <2>1. FramesIn(Swept[TmAt(f)]) \subseteq 1..Len(tmMade)
    BY <1>4, FramesInIs, SweptTyped
  <2>2. SweptFrames \subseteq 1..Len(tmMade)
    BY FramesInIs, FramesNow DEF SweptFrames
  <2>3. QED
    BY <1>1, <2>1, <2>2, FramesNow
<1>8. tmHanded' \subseteq Seq(MadeFrags(tmMade)) /\ tmSlots' \in [1..TmSlots -> TmSlot(tmMade)]
  <2>1. Swept \in [1..TmSlots -> TmSlot(tmMade)] /\ FreeSlot \in TmSlot(tmMade)
    BY SweptTyped, FreeIsSlot
  <2>2. CASE Complete(TmThen(x))
    <3>1. TmThen(x) \in Seq(MadeFrags(tmMade))
      BY <1>5, <2>2, CompleteIs
    <3>2. tmHanded' \subseteq tmHanded \cup {TmThen(x)}
      BY <1>1, <2>2
    <3>3. tmHanded' \subseteq Seq(MadeFrags(tmMade))
      BY <3>1, <3>2, FramesNow
    <3>4. tmSlots' \in [1..TmSlots -> TmSlot(tmMade)]
      BY <1>1, <1>4, <2>1, <2>2
    <3>5. QED
      BY <3>3, <3>4
  <2>3. CASE ~Complete(TmThen(x))
    <3>1. [TmHas(f) EXCEPT !.parts = TmThen(x)] \in TmSlot(tmMade)
      BY <1>4, <1>5 DEF TmSlot
    <3>2. QED
      BY <1>1, <1>4, <2>1, <2>3, <3>1, FramesNow
  <2>4. QED
    BY <2>2, <2>3
<1>9. QED
  BY <1>1, <1>6, <1>7, <1>8, FramesNow, FramesOK

LEMMA FramesKeep == FrameTypes /\ [TmFramesNext]_tmFrameVars => FrameTypes'
BY EnqueueKeeps, TickKeeps, SendFrameKeeps, ResendKeeps, PushKeeps, FramesStay DEF TmFramesNext, TmSender

----------------------------------------------------------------------------
(* The lengths of the fragments of a frame add up to that of the frame.    *)

Iter(S, parts) ==
    CHOOSE iter : iter = [s \in SUBSET S |-> IF s = {} THEN 0
                                             ELSE iter[s \ {CHOOSE x \in s : TRUE}] + LengthOf(parts[CHOOSE x \in s : TRUE])]

LEMMA FitsIs ==
  ASSUME NEW slot, NEW parts
  PROVE  LengthFits(slot, parts) <=> Iter(DOMAIN parts, parts)[DOMAIN parts] = slot.total
BY DEF LengthFits, FoldSeq, FoldFunction, FoldFunctionOnSet, MapThenFoldSet, Iter

\* What the fragments at the places in s are long, of a frame of c fragments.
Measure(s, c, tail) == TmChunk * Cardinality(s \ {c}) + (IF c \in s THEN tail ELSE 0)

LEMMA MeasureStep ==
  ASSUME NEW c \in Nat, NEW tail \in Nat, NEW s \in SUBSET (1..c), NEW x \in s
  PROVE  Measure(s, c, tail) = Measure(s \ {x}, c, tail) + (IF x = c THEN tail ELSE TmChunk)
<1> USE TelemostFramesAssumption
<1>1. IsFiniteSet(s) /\ IsFiniteSet(s \ {c})
  <2>1. IsFiniteSet(1..c)
    BY FS_Interval
  <2>2. IsFiniteSet(s)
    BY <2>1, FS_Subset
  <2>3. s \ {c} \in SUBSET s
    OBVIOUS
  <2>4. QED
    BY <2>2, <2>3, FS_Subset
<1> DEFINE n == Cardinality(s \ {c})
<1>2. n \in Nat /\ TmChunk \in Nat
  BY <1>1, FS_CardinalityType
<1>3. CASE x = c
  <2>1. (s \ {x}) \ {c} = s \ {c} /\ c \in s /\ c \notin s \ {x}
    BY <1>3
  <2>2. TmChunk * n \in Nat
    BY <1>2
  <2> DEFINE m == TmChunk * n
  <2>3. Measure(s, c, tail) = m + tail /\ Measure(s \ {x}, c, tail) = m + 0
    BY <2>1 DEF Measure
  <2> HIDE DEF m, n
  <2>4. m + tail = (m + 0) + tail
    BY <2>2 DEF m
  <2>5. QED
    BY <1>3, <2>3, <2>4
<1>4. CASE x # c
  <2>1. (s \ {x}) \ {c} = (s \ {c}) \ {x} /\ x \in s \ {c} /\ (c \in s <=> c \in s \ {x})
    BY <1>4
  <2>2. Cardinality((s \ {c}) \ {x}) = n - 1
    BY <1>1, <2>1, FS_RemoveElement
  <2> DEFINE rest == IF c \in s THEN tail ELSE 0
  <2>3. Measure(s, c, tail) = TmChunk * n + rest /\ Measure(s \ {x}, c, tail) = TmChunk * (n - 1) + rest
    BY <2>1, <2>2 DEF Measure
  <2>4. rest \in Nat
    OBVIOUS
  <2> HIDE DEF n, rest
  <2>5. TmChunk * n = TmChunk * (n - 1) + TmChunk /\ TmChunk * (n - 1) \in Int
    BY <1>2
  <2> DEFINE a == TmChunk * n
             b == TmChunk * (n - 1)
  <2>6. a = b + TmChunk /\ b \in Int /\ Measure(s, c, tail) = a + rest /\ Measure(s \ {x}, c, tail) = b + rest
    BY <2>3, <2>5
  <2> HIDE DEF a, b
  <2>7. a + rest = (b + rest) + TmChunk
    BY <1>2, <2>4, <2>6
  <2>8. QED
    BY <1>4, <2>6, <2>7
<1>5. QED
  BY <1>3, <1>4

\* What Iter stands for, when the fragments are those of one frame.
LEMMA IterIs ==
  ASSUME NEW c \in Nat, NEW tail \in Nat, NEW parts,
         \A k \in 1..c : LengthOf(parts[k]) = IF k = c THEN tail ELSE TmChunk
  PROVE  \A s \in SUBSET (1..c) : Iter(1..c, parts)[s] = Measure(s, c, tail)
<1> DEFINE S == 1..c
           Rec(iter) == [s \in SUBSET S |-> IF s = {} THEN 0
                                            ELSE iter[s \ {CHOOSE x \in s : TRUE}] + LengthOf(parts[CHOOSE x \in s : TRUE])]
           all == [s \in SUBSET S |-> Measure(s, c, tail)]
           it == Iter(S, parts)
<1>1. Measure({}, c, tail) = 0
  <2>1. Cardinality({} \ {c}) = 0 /\ TmChunk * 0 = 0 /\ 0 + 0 = 0
    BY FS_EmptySet, TelemostFramesAssumption
  <2>2. QED
    BY <2>1 DEF Measure
<1>2. ASSUME NEW s \in SUBSET S, s # {}
      PROVE  /\ (CHOOSE x \in s : TRUE) \in s /\ s \ {CHOOSE x \in s : TRUE} \in SUBSET S
             /\ Measure(s, c, tail) = Measure(s \ {CHOOSE x \in s : TRUE}, c, tail) + LengthOf(parts[CHOOSE x \in s : TRUE])
  <2>1. (CHOOSE x \in s : TRUE) \in s
    BY <1>2
  <2> DEFINE x == CHOOSE x \in s : TRUE
  <2>2. x \in s /\ x \in 1..c
    BY <2>1
  <2> HIDE DEF x
  <2>3. LengthOf(parts[x]) = IF x = c THEN tail ELSE TmChunk
    BY <2>2
  <2>4. Measure(s, c, tail) = Measure(s \ {x}, c, tail) + LengthOf(parts[x])
    BY <2>2, <2>3, MeasureStep
  <2>5. QED
    BY <2>1, <2>4 DEF x
<1>3. all = Rec(all)
  <2>1. \A s \in SUBSET S : all[s] = Rec(all)[s]
    <3> SUFFICES ASSUME NEW s \in SUBSET S PROVE all[s] = Rec(all)[s]
      OBVIOUS
    <3>1. CASE s = {}
      BY <1>1, <3>1
    <3>2. CASE s # {}
      BY <1>2, <3>2
    <3>3. QED
      BY <3>1, <3>2
  <2>2. QED
    BY <2>1
<1>4. it = Rec(it)
  <2>1. it = CHOOSE iter : iter = Rec(iter)
    BY DEF Iter
  <2>2. \E iter : iter = Rec(iter)
    BY <1>3
  <2> HIDE DEF it, Rec
  <2>3. QED
    BY <2>1, <2>2
<1>5. /\ it[{}] = 0
      /\ \A s \in SUBSET S : s # {} =>
            it[s] = it[s \ {CHOOSE x \in s : TRUE}] + LengthOf(parts[CHOOSE x \in s : TRUE])
  <2> HIDE DEF it
  <2>1. it = Rec(it)
    BY <1>4
  <2>2. \A s \in SUBSET S : Rec(it)[s] = IF s = {} THEN 0
                                         ELSE it[s \ {CHOOSE x \in s : TRUE}] + LengthOf(parts[CHOOSE x \in s : TRUE])
    OBVIOUS
  <2> HIDE DEF Rec
  <2>3. {} \in SUBSET S
    OBVIOUS
  <2>4. QED
    BY <2>1, <2>2, <2>3
<1> HIDE DEF it
<1>6. \A s \in SUBSET S : IsFiniteSet(s) /\ Cardinality(s) \in Nat
  <2>1. IsFiniteSet(S)
    BY FS_Interval
  <2>2. QED
    BY <2>1, FS_Subset, FS_CardinalityType
<1> DEFINE bad == {s \in SUBSET S : it[s] # Measure(s, c, tail)}
           sizes == {Cardinality(s) : s \in bad}
<1>7. bad = {}
  <2> SUFFICES ASSUME bad # {} PROVE FALSE
    OBVIOUS
  <2>1. sizes # {} /\ sizes \subseteq Nat
    BY <1>6
  <2>2. PICK n \in sizes : \A m \in sizes : n <= m
    BY <2>1, LeastOf
  <2>3. PICK s \in bad : Cardinality(s) = n
    BY <2>2
  <2>4. s \in SUBSET S /\ s # {}
    BY <1>1, <1>5
  <2> DEFINE x == CHOOSE x \in s : TRUE
             t == s \ {x}
  <2>5. x \in s /\ t \in SUBSET S /\ Measure(s, c, tail) = Measure(t, c, tail) + LengthOf(parts[x])
    BY <1>2, <2>4
  <2>6. it[s] = it[t] + LengthOf(parts[x])
    BY <1>5, <2>4
  <2> HIDE DEF x
  <2>7. Cardinality(t) = Cardinality(s) - 1
    BY <1>6, <2>4, <2>5, FS_RemoveElement
  <2>8. Cardinality(t) \in Nat /\ Cardinality(s) \in Nat /\ Cardinality(t) < n
    <3>1. Cardinality(t) \in Nat /\ Cardinality(s) \in Nat
      BY <1>6, <2>4, <2>5
    <3>2. Cardinality(s) = n
      BY <2>3
    <3>3. QED
      BY <2>7, <3>1, <3>2
  <2>9. t \notin bad
    <3> HIDE DEF t, bad
    <3> SUFFICES ASSUME t \in bad PROVE FALSE
      OBVIOUS
    <3>1. Cardinality(t) \in sizes
      OBVIOUS
    <3> HIDE DEF sizes
    <3>2. n <= Cardinality(t) /\ n \in Nat
      BY <2>1, <2>2, <3>1
    <3>3. QED
      BY <2>8, <3>2
  <2>10. it[t] = Measure(t, c, tail)
    BY <2>5, <2>9
  <2>11. QED
    BY <2>3, <2>5, <2>6, <2>10
<1>8. QED
  BY <1>7 DEF it

\* A frame that is whole fits what its first fragment to arrive said of its length.
LEMMA WholeFits ==
  ASSUME FrameTypes, NEW f \in 1..Len(tmMade), NEW slot, slot.total = Total(f)
  PROVE  LengthFits(slot, TmWhole(f))
<1> USE TelemostFramesAssumption
<1> DEFINE c == tmMade[f].count
           tail == tmMade[f].tail
           whole == TmWhole(f)
<1>1. c \in Nat /\ c >= 1 /\ tail \in Nat /\ Total(f) \in Nat /\ TmChunk \in Nat
  BY SMTT(40), TotalIs
<1>2. Total(f) = (c - 1) * TmChunk + tail
  BY DEF Total
<1>3. DOMAIN whole = 1..c /\ \A k \in 1..c : whole[k] = <<f, k - 1>>
  BY DEF TmWhole, Fragments
<1>4. \A k \in 1..c : LengthOf(whole[k]) = IF k = c THEN tail ELSE TmChunk
  <2> SUFFICES ASSUME NEW k \in 1..c PROVE LengthOf(whole[k]) = IF k = c THEN tail ELSE TmChunk
    OBVIOUS
  <2>1. whole[k] = <<f, k - 1>>
    BY <1>3
  <2> HIDE DEF whole
  <2>2. whole[k][1] = f /\ whole[k][2] = k - 1
    BY <2>1
  <2>3. (whole[k][2] + 1 = c) <=> (k = c)
    <3> HIDE DEF c
    <3>1. k \in Nat /\ (k - 1) + 1 = k
      BY <1>1
    <3>2. QED
      BY <2>2, <3>1
  <2>4. QED
    BY <2>2, <2>3 DEF LengthOf
<1> HIDE DEF whole
<1>5. Iter(1..c, whole)[1..c] = Measure(1..c, c, tail)
  <2> HIDE DEF c, tail
  <2>1. (1..c) \in SUBSET (1..c)
    OBVIOUS
  <2>2. \A s \in SUBSET (1..c) : Iter(1..c, whole)[s] = Measure(s, c, tail)
    BY <1>1, <1>4, IterIs
  <2>3. QED
    BY <2>1, <2>2
<1> HIDE DEF c, tail
<1>6. Measure(1..c, c, tail) = Total(f)
  <2>1. (1..c) \ {c} = 1..(c - 1) /\ c \in 1..c /\ c - 1 \in Nat
    BY SMTT(40), <1>1
  <2>2. Cardinality(1..(c - 1)) = c - 1
    <3>1. Cardinality(1..(c - 1)) = IF 1 > c - 1 THEN 0 ELSE (c - 1) - 1 + 1
      BY <1>1, FS_Interval
    <3>2. QED
      BY <1>1, <3>1
  <2>3. Measure(1..c, c, tail) = TmChunk * (c - 1) + tail
    BY <2>1, <2>2 DEF Measure
  <2>4. TmChunk * (c - 1) = (c - 1) * TmChunk
    BY <1>1, <2>1
  <2>5. QED
    BY <1>2, <2>3, <2>4
<1>7. QED
  BY <1>3, <1>5, <1>6, FitsIs DEF whole

----------------------------------------------------------------------------
(* While the counter has not come round.                                   *)

\* The counter of the frames does not come round to a value it had.
FewFrames == TmFrames * TmSharers < TmSeqSpace

\* The frames are named in the order they are made in.
NamesGrow ==
    \A f \in 1..Len(tmMade) :
      /\ tmMade[f].seq <= f * TmSharers
      /\ \A g \in 1..Len(tmMade) : f < g => tmMade[f].seq < tmMade[g].seq

\* A slot that is taken is one frame's: it holds that frame's fragments, at their places.
OfFrame(slot, f) ==
    /\ slot.seq = tmMade[f].seq /\ slot.total = Total(f) /\ Len(slot.parts) = tmMade[f].count
    /\ \A k \in 1..tmMade[f].count : slot.parts[k] \in {TmNoPart, <<f, k - 1>>}

SlotsOfFrames == \A i \in 1..TmSlots : tmSlots[i].active => \E f \in 1..Len(tmMade) : OfFrame(tmSlots[i], f)

OneSlotEach ==
    \A i, j \in 1..TmSlots : tmSlots[i].active /\ tmSlots[j].active /\ tmSlots[i].seq = tmSlots[j].seq => i = j

\* A slot is freed by the fragment that completes it.
NoneComplete == \A i \in 1..TmSlots : tmSlots[i].active => \E k \in 1..Len(tmSlots[i].parts) : tmSlots[i].parts[k] = TmNoPart

\* What arrived of a frame that is neither handed on nor spoiled is in the slot of that frame.
ArrivedIsKept ==
    \A x \in tmArrived :
      \/ x[1] \in tmSpoiled \/ TmWhole(x[1]) \in tmHanded
      \/ \E i \in 1..TmSlots :
           /\ tmSlots[i].active /\ tmSlots[i].seq = tmMade[x[1]].seq
           /\ x[2] + 1 \in 1..Len(tmSlots[i].parts) /\ tmSlots[i].parts[x[2] + 1] = x

FewInv ==
    /\ FrameTypes /\ NamesGrow /\ SlotsOfFrames /\ OneSlotEach /\ NoneComplete /\ ArrivedIsKept /\ HandedWhole

LEMMA NamesApart ==
  ASSUME FrameTypes, NamesGrow, NEW f \in 1..Len(tmMade), NEW g \in 1..Len(tmMade), tmMade[f].seq = tmMade[g].seq
  PROVE  f = g
<1>1. tmMade[f].seq \in Nat /\ tmMade[g].seq \in Nat
  BY TotalIs
<1>2. ~(f < g) /\ ~(g < f)
  BY <1>1 DEF NamesGrow
<1>3. QED
  BY <1>2

\* Frames that are whole are not lost, and nothing else is handed on.
LEMMA FewShow == FewInv => HandedWhole /\ OrderIsNoMatter
<1> SUFFICES ASSUME FewInv PROVE OrderIsNoMatter
  BY DEF FewInv
<1> SUFFICES ASSUME NEW f \in 1..Len(tmMade), ToSet(TmWhole(f)) \subseteq tmArrived, f \notin tmSpoiled,
                    TmWhole(f) \notin tmHanded
             PROVE  FALSE
  BY DEF OrderIsNoMatter
<1> DEFINE c == tmMade[f].count
<1>1. c \in Nat /\ c >= 1
  BY TotalIs DEF FewInv
<1>2. \A k \in 1..c : <<f, k - 1>> \in tmArrived
  BY DEF TmWhole, Fragments, ToSet
<1> HIDE DEF c
<1>3. ASSUME NEW k \in 1..c
      PROVE  \E i \in 1..TmSlots : /\ tmSlots[i].active /\ tmSlots[i].seq = tmMade[f].seq
                                   /\ tmSlots[i].parts[k] = <<f, k - 1>>
  <2> DEFINE x == <<f, k - 1>>
  <2>1. x \in tmArrived /\ x[1] = f /\ x[2] = k - 1 /\ k \in Int
    BY <1>2
  <2>2. x[2] + 1 = k
    BY <2>1
  <2> HIDE DEF x
  <2>3. \E i \in 1..TmSlots :
           /\ tmSlots[i].active /\ tmSlots[i].seq = tmMade[x[1]].seq
           /\ x[2] + 1 \in 1..Len(tmSlots[i].parts) /\ tmSlots[i].parts[x[2] + 1] = x
    BY <2>1 DEF FewInv, ArrivedIsKept
  <2>4. QED
    BY <2>1, <2>2, <2>3 DEF x
<1>4. PICK i \in 1..TmSlots : tmSlots[i].active /\ tmSlots[i].seq = tmMade[f].seq
  <2>1. 1 \in 1..c
    BY <1>1
  <2>2. QED
    BY <1>3, <2>1
<1>5. \A k \in 1..c : tmSlots[i].parts[k] = <<f, k - 1>>
  BY <1>3, <1>4 DEF FewInv, OneSlotEach
<1>6. PICK g \in 1..Len(tmMade) : OfFrame(tmSlots[i], g)
  BY <1>4 DEF FewInv, SlotsOfFrames
<1>7. g = f
  BY <1>4, <1>6, NamesApart DEF FewInv, OfFrame
<1>8. Len(tmSlots[i].parts) = c
  BY <1>6, <1>7 DEF OfFrame, c
<1>9. PICK k \in 1..c : tmSlots[i].parts[k] = TmNoPart
  BY <1>4, <1>8 DEF FewInv, NoneComplete
<1>10. <<f, k - 1>> # TmNoPart
  BY DEF TmNoPart
<1>11. QED
  BY <1>5, <1>9, <1>10

LEMMA FewStart == TmFramesInit => FewInv
<1> SUFFICES ASSUME TmFramesInit PROVE FewInv
  OBVIOUS
<1>1. FrameTypes
  BY FramesStart
<1>2. Len(tmMade) = 0 /\ tmArrived = {} /\ tmHanded = {}
  BY DEF TmFramesInit
<1>3. \A i \in 1..TmSlots : tmSlots[i].active = FALSE
  BY FreeIsSlot DEF TmFramesInit
<1>4. QED
  BY <1>1, <1>2, <1>3 DEF FewInv, NamesGrow, SlotsOfFrames, OneSlotEach, NoneComplete, ArrivedIsKept, HandedWhole

----------------------------------------------------------------------------
(* The sender's steps: the frames get more, what arrived stays as it is.   *)

LEMMA NameGrows ==
  ASSUME FewFrames, FewInv, NEW count \in 1..TmPieces, Fragmented(count)
  PROVE  NamesGrow'
<1> USE TelemostFramesAssumption
<1> DEFINE n == Len(tmMade)
<1>1. PICK r \in TmMade : tmMade' = Append(tmMade, r) /\ n < TmFrames /\ \E step \in 1..TmSharers : r.seq = NextSeq(step)
  BY FragmentedMakes DEF FewInv
<1>2. PICK step \in 1..TmSharers : r.seq = NextSeq(step)
  BY <1>1
<1>3. tmMade \in Seq(TmMade) /\ n \in Nat
  BY FramesNow DEF FewInv
<1>4. Len(tmMade') = n + 1 /\ tmMade'[n + 1] = r /\ \A f \in 1..n : tmMade'[f] = tmMade[f]
  BY <1>1, <1>3
<1> DEFINE last == IF tmMade = <<>> THEN 0 ELSE Last(tmMade).seq
<1>5. /\ last \in Nat /\ last <= n * TmSharers
      /\ \A f \in 1..n : tmMade[f].seq <= last
  <2>1. CASE tmMade = <<>>
    <3>1. n = 0 /\ last = 0
      BY <2>1
    <3>2. QED
      BY <3>1
  <2>2. CASE tmMade # <<>>
    <3>1. n \in 1..n /\ last = tmMade[n].seq
      BY <1>3, <2>2 DEF Last
    <3>2. \A f \in 1..n : tmMade[f].seq \in Nat
      BY TotalIs DEF FewInv
    <3>3. \A f \in 1..n : f = n \/ f < n
      BY <1>3
    <3>4. last <= n * TmSharers /\ \A f \in 1..n : f < n => tmMade[f].seq < tmMade[n].seq
      BY <3>1 DEF FewInv, NamesGrow
    <3>5. last \in Nat
      BY <3>1, <3>2
    <3> HIDE DEF last
    <3>6. \A f \in 1..n : tmMade[f].seq <= last
      <4> SUFFICES ASSUME NEW f \in 1..n PROVE tmMade[f].seq <= last
        OBVIOUS
      <4>1. tmMade[f].seq \in Nat /\ (f = n \/ f < n)
        BY <3>2, <3>3
      <4>2. f < n => tmMade[f].seq < last
        BY <3>1, <3>4
      <4>3. f = n => tmMade[f].seq = last
        BY <3>1
      <4>4. QED
        BY SMTT(40), <3>5, <4>1, <4>2, <4>3
    <3>7. QED
      BY <3>4, <3>5, <3>6
  <2>3. QED
    BY <2>1, <2>2
<1>6. r.seq = (last + step) % TmSeqSpace
  BY <1>2 DEF NextSeq
<1> HIDE DEF last
<1>7. last + step <= (n + 1) * TmSharers /\ (n + 1) * TmSharers <= TmFrames * TmSharers
  <2>1. (n + 1) * TmSharers = n * TmSharers + TmSharers /\ n * TmSharers \in Nat
    BY SMTT(40), <1>3
  <2> DEFINE d == TmFrames - (n + 1)
  <2>2. d \in Nat /\ TmFrames = (n + 1) + d
    BY SMTT(40), <1>1, <1>3
  <2> HIDE DEF d
  <2>3. d * TmSharers \in Nat /\ ((n + 1) + d) * TmSharers = (n + 1) * TmSharers + d * TmSharers
    BY SMTT(40), <1>3, <2>2
  <2> DEFINE a == n * TmSharers
             b == (n + 1) * TmSharers
             e == d * TmSharers
             all == TmFrames * TmSharers
  <2>4. a \in Nat /\ b = a + TmSharers /\ e \in Nat /\ all = b + e /\ last <= a
    BY <1>5, <2>1, <2>2, <2>3
  <2> HIDE DEF a, b, e, all
  <2>5. last \in Nat /\ step \in Nat /\ step <= TmSharers /\ TmSharers \in Nat
    BY <1>2, <1>5
  <2>6. last + step <= b /\ b <= all
    BY <2>4, <2>5
  <2>7. QED
    BY <2>6 DEF b, all
<1>8. r.seq = last + step /\ r.seq <= (n + 1) * TmSharers
  <2> DEFINE b == (n + 1) * TmSharers
             all == TmFrames * TmSharers
  <2>1. last + step <= b /\ b <= all /\ all < TmSeqSpace /\ b \in Nat /\ all \in Nat
    BY SMTT(40), <1>3, <1>7 DEF FewFrames
  <2> HIDE DEF b, all
  <2>2. last + step \in Nat /\ last + step < TmSeqSpace
    BY <1>5, <2>1
  <2>3. (last + step) % TmSeqSpace = last + step
    BY <2>2
  <2>4. QED
    BY <1>6, <2>1, <2>3 DEF b
<1>9. ASSUME NEW f \in 1..n
      PROVE  tmMade'[f].seq <= f * TmSharers /\ tmMade'[f].seq < tmMade'[n + 1].seq
             /\ \A g \in 1..n : f < g => tmMade'[f].seq < tmMade'[g].seq
  <2>1. tmMade[f].seq \in Nat /\ tmMade[f].seq <= last
    <3>1. tmMade[f].seq \in Nat
      BY SMTT(40), TotalIs DEF FewInv
    <3>2. QED
      BY <1>5, <3>1
  <2>2. tmMade[f].seq < last + step
    BY SMTT(40), <1>5, <2>1
  <2>3. tmMade[f].seq <= f * TmSharers /\ \A g \in 1..n : f < g => tmMade[f].seq < tmMade[g].seq
    BY DEF FewInv, NamesGrow
  <2>4. QED
    BY <1>4, <1>8, <2>2, <2>3
<1>10. \A f \in 1..n + 1 : f \in 1..n \/ f = n + 1
  BY <1>3
<1>11. \A g \in 1..n + 1 : ~(n + 1 < g)
  BY <1>3
<1>12. QED
  BY <1>4, <1>8, <1>9, <1>10, <1>11 DEF NamesGrow

\* Whatever the sender does, the frames there are keep their names and their fragments.
LEMMA SenderMakes ==
  ASSUME FewFrames, FewInv, TmSender \/ TmLose \/ UNCHANGED tmFrameVars
  PROVE  /\ NamesGrow' /\ tmMade \in Seq(TmMade) /\ Len(tmMade) <= Len(tmMade') /\ Len(tmMade) \in Nat /\ Len(tmMade') \in Nat
         /\ \A f \in 1..Len(tmMade) : tmMade'[f] = tmMade[f] /\ f \in 1..Len(tmMade')
         /\ tmSlots' = tmSlots /\ tmHanded' = tmHanded /\ tmArrived' = tmArrived /\ tmSpoiled' = tmSpoiled
<1>1. tmSlots' = tmSlots /\ tmHanded' = tmHanded /\ tmArrived' = tmArrived /\ tmSpoiled' = tmSpoiled
  BY DEF TmSender, TmLose, TmEnqueue, TmTick, TmSendFrame, TmSendFails, TmResend, tmFrameVars, tmIn
<1>2. tmMade \in Seq(TmMade) /\ Len(tmMade) \in Nat
  BY FramesNow DEF FewInv
<1>3. ASSUME NEW count \in 1..TmPieces, Fragmented(count)
      PROVE  /\ NamesGrow' /\ Len(tmMade) <= Len(tmMade') /\ Len(tmMade') \in Nat
             /\ \A f \in 1..Len(tmMade) : tmMade'[f] = tmMade[f] /\ f \in 1..Len(tmMade')
  <2>1. NamesGrow'
    BY <1>3, NameGrows
  <2>2. PICK r \in TmMade : tmMade' = Append(tmMade, r)
    BY <1>3, FragmentedMakes DEF FewInv
  <2>3. QED
    BY <1>2, <2>1, <2>2
<1>4. CASE tmMade' = tmMade
  <2>1. NamesGrow'
    BY <1>4 DEF FewInv, NamesGrow
  <2>2. QED
    BY <1>1, <1>2, <1>4, <2>1
<1>5. CASE TmEnqueue \/ TmTick
  <2>1. (\E count \in 1..TmPieces : Fragmented(count)) \/ tmMade' = tmMade
    BY <1>5 DEF TmEnqueue, TmTick
  <2>2. QED
    BY <1>1, <1>2, <1>3, <1>4, <2>1
<1>6. CASE ~(TmEnqueue \/ TmTick)
  <2>1. tmMade' = tmMade
    BY <1>6 DEF TmSender, TmLose, TmSendFrame, TmSendFails, TmResend, tmFrameVars, tmOut
  <2>2. QED
    BY <1>4, <2>1
<1>7. QED
  BY <1>5, <1>6

LEMMA SenderKeeps ==
  ASSUME FewFrames, FewInv, TmSender \/ TmLose \/ UNCHANGED tmFrameVars
  PROVE  FewInv'
<1>1. FrameTypes'
  BY FramesKeep DEF FewInv, TmFramesNext
<1>2. /\ NamesGrow' /\ Len(tmMade) \in Nat
      /\ \A f \in 1..Len(tmMade) : tmMade'[f] = tmMade[f] /\ f \in 1..Len(tmMade')
      /\ tmSlots' = tmSlots /\ tmHanded' = tmHanded /\ tmArrived' = tmArrived /\ tmSpoiled' = tmSpoiled
  BY SenderMakes
<1>3. \A f \in 1..Len(tmMade) : TmWhole(f)' = TmWhole(f) /\ Total(f)' = Total(f)
  BY <1>2 DEF TmWhole, Total
<1>4. SlotsOfFrames'
  <2> SUFFICES ASSUME NEW i \in 1..TmSlots, tmSlots'[i].active PROVE \E f \in 1..Len(tmMade') : OfFrame(tmSlots[i], f)'
    BY <1>2 DEF SlotsOfFrames
  <2>1. PICK f \in 1..Len(tmMade) : OfFrame(tmSlots[i], f)
    BY <1>2 DEF FewInv, SlotsOfFrames
  <2>2. OfFrame(tmSlots[i], f)'
    BY <1>2, <1>3, <2>1 DEF OfFrame
  <2>3. QED
    BY <1>2, <2>2
<1>5. OneSlotEach' /\ NoneComplete'
  BY <1>2 DEF FewInv, OneSlotEach, NoneComplete
<1>6. ArrivedIsKept'
  <2>1. \A x \in tmArrived : x[1] \in 1..Len(tmMade)
    BY MadeOf, FramesNow DEF FewInv
  <2>2. QED
    BY <1>2, <1>3, <2>1 DEF FewInv, ArrivedIsKept
<1>7. HandedWhole'
  BY <1>2, <1>3 DEF FewInv, HandedWhole
<1>8. QED
  BY <1>1, <1>2, <1>4, <1>5, <1>6, <1>7 DEF FewInv

----------------------------------------------------------------------------
(* The receiver's step.                                                    *)

\* What TmPush does with x, a fragment of the frame f.
Pushes(x) ==
    /\ tmArrived' = tmArrived \cup {x} /\ tmMade' = tmMade
    /\ tmSpoiled' = tmSpoiled \cup SweptFrames
                    \cup (IF SlotOf(Swept, x[1]) = {} THEN FramesIn(Swept[TmAt(x[1])]) ELSE {})
    /\ Complete(TmThen(x)) =>
         /\ tmHanded' = IF LengthFits(TmHas(x[1]), TmThen(x)) THEN tmHanded \cup {TmThen(x)} ELSE tmHanded
         /\ tmSlots' = [Swept EXCEPT ![TmAt(x[1])] = FreeSlot]
    /\ ~Complete(TmThen(x)) =>
         /\ tmSlots' = [Swept EXCEPT ![TmAt(x[1])] = [TmHas(x[1]) EXCEPT !.parts = TmThen(x)]]
         /\ tmHanded' = tmHanded

LEMMA SweptOfFrames ==
  ASSUME FewInv
  PROVE  /\ \A i \in 1..TmSlots : Swept[i].active => \E f \in 1..Len(tmMade) : OfFrame(Swept[i], f)
         /\ \A i, j \in 1..TmSlots : Swept[i].active /\ Swept[j].active /\ Swept[i].seq = Swept[j].seq => i = j
<1>1. \A i \in 1..TmSlots : Swept[i].active => Swept[i] = tmSlots[i]
  BY SweptTyped DEF FewInv
<1>2. QED
  BY <1>1 DEF FewInv, SlotsOfFrames, OneSlotEach

LEMMA HasOfFrame ==
  ASSUME FewInv, NEW f \in 1..Len(tmMade)
  PROVE  OfFrame(TmHas(f), f)
<1>1. CASE SlotOf(Swept, f) = {}
  BY <1>1, FreshIs DEF TmHas, OfFrame, FewInv
<1>2. CASE SlotOf(Swept, f) # {}
  <2>1. TmAt(f) \in 1..TmSlots /\ Swept[TmAt(f)].active /\ Swept[TmAt(f)].seq = tmMade[f].seq
    BY <1>2, FoundIs DEF SlotOf, FewInv
  <2>2. PICK g \in 1..Len(tmMade) : OfFrame(Swept[TmAt(f)], g)
    BY <2>1, SweptOfFrames
  <2>3. g = f
    BY <2>1, <2>2, NamesApart DEF FewInv, OfFrame
  <2>4. QED
    BY <1>2, <2>2, <2>3 DEF TmHas
<1>3. QED
  BY <1>1, <1>2

\* The parts of the slot once x is in it.
LEMMA ThenOfFrame ==
  ASSUME FewInv, NEW x \in MadeFrags(tmMade)
  PROVE  /\ x[1] \in 1..Len(tmMade) /\ x[2] + 1 \in 1..tmMade[x[1]].count /\ x = <<x[1], x[2]>> /\ x[2] \in Nat
         /\ TmThen(x) \in Seq(PartsIn(tmMade)) /\ Len(TmThen(x)) = tmMade[x[1]].count
         /\ DOMAIN TmThen(x) = 1..tmMade[x[1]].count
         /\ TmThen(x)[x[2] + 1] = x
         /\ \A k \in 1..tmMade[x[1]].count :
              /\ TmThen(x)[k] \in {TmNoPart, <<x[1], k - 1>>}
              /\ TmHas(x[1]).parts[k] # TmNoPart => TmThen(x)[k] = TmHas(x[1]).parts[k]
         /\ Complete(TmThen(x)) => TmThen(x) = TmWhole(x[1])
         /\ ~Complete(TmThen(x)) => \E k \in 1..Len(TmThen(x)) : TmThen(x)[k] = TmNoPart
<1> DEFINE f == x[1]
           m == x[2]
           c == tmMade[f].count
           q == TmThen(x)
           parts == TmHas(f).parts
<1>1. f \in 1..Len(tmMade) /\ m + 1 \in 1..c /\ x = <<f, m>> /\ m \in Nat
  BY MadeOf DEF FewInv
<1>2. c \in Nat
  BY <1>1, TotalIs DEF FewInv
<1>3. TmHas(f) \in TmSlot(tmMade) /\ OfFrame(TmHas(f), f)
  BY <1>1, HasIs, HasOfFrame DEF FewInv
<1>4. parts \in Seq(PartsIn(tmMade)) /\ Len(parts) = c /\ \A k \in 1..c : parts[k] \in {TmNoPart, <<f, k - 1>>}
  BY <1>3, SlotIs DEF OfFrame
<1>5. /\ q \in Seq(PartsIn(tmMade)) /\ Len(q) = c /\ DOMAIN q = 1..c
      /\ \A k \in 1..c : q[k] = IF k = m + 1 /\ parts[k] = TmNoPart THEN x ELSE parts[k]
  <2>1. q = Placed(parts, x)
    BY DEF TmThen
  <2>2. QED
    BY <1>4, <2>1, PlacedIs
<1> HIDE DEF f, m, c, q, parts
<1>6. \A k \in 1..c : q[k] \in {TmNoPart, <<f, k - 1>>} /\ (parts[k] # TmNoPart => q[k] = parts[k])
  <2> SUFFICES ASSUME NEW k \in 1..c
               PROVE  q[k] \in {TmNoPart, <<f, k - 1>>} /\ (parts[k] # TmNoPart => q[k] = parts[k])
    OBVIOUS
  <2>1. CASE k = m + 1 /\ parts[k] = TmNoPart
    <3>1. k - 1 = m
      BY <1>1, <2>1
    <3>2. q[k] = x
      BY <1>5, <2>1
    <3>3. QED
      BY <1>1, <2>1, <3>1, <3>2
  <2>2. CASE ~(k = m + 1 /\ parts[k] = TmNoPart)
    <3>1. q[k] = parts[k]
      BY <1>5, <2>2
    <3>2. QED
      BY <1>4, <3>1
  <2>3. QED
    BY <2>1, <2>2
<1>7. q[m + 1] = x
  <2>1. (m + 1) - 1 = m
    BY <1>1
  <2>2. parts[m + 1] = TmNoPart \/ parts[m + 1] = <<f, (m + 1) - 1>>
    BY <1>1, <1>4
  <2>3. parts[m + 1] = TmNoPart \/ parts[m + 1] = x
    BY <1>1, <2>1, <2>2
  <2>4. q[m + 1] = IF parts[m + 1] = TmNoPart THEN x ELSE parts[m + 1]
    BY <1>1, <1>5
  <2>5. QED
    BY <2>3, <2>4
<1>8. ASSUME Complete(q) PROVE q = Fragments(f, c)
  <2>1. \A k \in 1..c : q[k] # TmNoPart
    BY <1>5, <1>8, CompleteIs
  <2>2. \A k \in 1..c : q[k] = <<f, k - 1>>
    BY <1>6, <2>1
  <2>3. Fragments(f, c) = [k \in 1..c |-> <<f, k - 1>>]
    BY DEF Fragments
  <2>4. q = [k \in 1..c |-> q[k]]
    BY <1>5
  <2>5. QED
    BY <2>2, <2>3, <2>4
<1>9. ASSUME ~Complete(q) PROVE \E k \in 1..Len(q) : q[k] = TmNoPart
  BY <1>5, <1>9 DEF Complete, ToSet
<1>10. TmWhole(f) = Fragments(f, c)
  BY DEF TmWhole, c
<1>11. QED
  BY <1>1, <1>5, <1>6, <1>7, <1>8, <1>9, <1>10 DEF f, m, c, q, parts

\* The slot x is put in, and the others, afterwards.
LEMMA SlotsThen ==
  ASSUME FewInv, NEW x \in MadeFrags(tmMade), Pushes(x)
  PROVE  /\ TmAt(x[1]) \in 1..TmSlots
         /\ \A i \in 1..TmSlots : i # TmAt(x[1]) => tmSlots'[i] = Swept[i]
         /\ Complete(TmThen(x)) => tmSlots'[TmAt(x[1])].active = FALSE
         /\ ~Complete(TmThen(x)) =>
              LET s == tmSlots'[TmAt(x[1])]
              IN  /\ s.active /\ s.seq = tmMade[x[1]].seq /\ s.total = Total(x[1]) /\ s.parts = TmThen(x)
         /\ \A i \in 1..TmSlots : i # TmAt(x[1]) /\ Swept[i].active => Swept[i].seq # tmMade[x[1]].seq
<1> DEFINE f == x[1]
           a == TmAt(f)
<1>1. f \in 1..Len(tmMade)
  BY ThenOfFrame
<1>2. a \in 1..TmSlots /\ Swept \in [1..TmSlots -> TmSlot(tmMade)]
  BY <1>1, FoundIs, SweptTyped DEF FewInv
<1>3. TmHas(f) \in TmSlot(tmMade) /\ TmHas(f).active /\ TmHas(f).seq = tmMade[f].seq /\ TmHas(f).total = Total(f)
  BY <1>1, HasIs, HasOfFrame DEF FewInv, OfFrame
<1>4. TmThen(x) \in Seq(PartsIn(tmMade))
  BY ThenOfFrame
<1> DEFINE s == [TmHas(f) EXCEPT !.parts = TmThen(x)]
<1>5. s.active /\ s.seq = tmMade[f].seq /\ s.total = Total(f) /\ s.parts = TmThen(x)
  BY <1>3 DEF TmSlot
<1>6. tmSlots' = [Swept EXCEPT ![a] = IF Complete(TmThen(x)) THEN FreeSlot ELSE s]
  BY DEF Pushes
<1> HIDE DEF s
<1>7. tmSlots'[a] = (IF Complete(TmThen(x)) THEN FreeSlot ELSE s) /\ \A i \in 1..TmSlots : i # a => tmSlots'[i] = Swept[i]
  <2> HIDE DEF a
  <2>1. QED
    BY <1>2, <1>6
<1>8. FreeSlot.active = FALSE
  BY FreeIsSlot
<1>9. ASSUME NEW i \in 1..TmSlots, i # a, Swept[i].active PROVE Swept[i].seq # tmMade[f].seq
  <2> SUFFICES ASSUME Swept[i].seq = tmMade[f].seq PROVE FALSE
    OBVIOUS
  <2>1. i \in SlotOf(Swept, f)
    BY <1>9 DEF SlotOf
  <2>2. a \in SlotOf(Swept, f)
    BY <2>1, FoundIs DEF FewInv
  <2>3. Swept[a].active /\ Swept[a].seq = tmMade[f].seq
    BY <2>2 DEF SlotOf
  <2>4. QED
    BY <1>2, <1>9, <2>3, SweptOfFrames
<1>10. QED
  BY <1>2, <1>5, <1>7, <1>8, <1>9

LEMMA FramesInHas ==
  ASSUME FrameTypes, NEW s \in TmSlot(tmMade), NEW k \in 1..Len(s.parts), NEW x \in MadeFrags(tmMade), s.parts[k] = x
  PROVE  x[1] \in FramesIn(s)
<1>1. x[1] # 0
  BY MadeOf
<1>2. k \in DOMAIN s.parts
  BY SlotIs
<1>3. QED
  BY <1>1, <1>2 DEF FramesIn

\* What was kept in a slot that goes is spoiled.
LEMMA KeptGoesOn ==
  ASSUME FewInv, NEW x \in MadeFrags(tmMade), Pushes(x), NEW y \in tmArrived,
         y[1] \notin tmSpoiled', TmWhole(y[1]) \notin tmHanded'
  PROVE  \E i \in 1..TmSlots :
           /\ Swept[i].active /\ Swept[i].seq = tmMade[y[1]].seq
           /\ y[2] + 1 \in 1..Len(Swept[i].parts) /\ Swept[i].parts[y[2] + 1] = y
           /\ i = TmAt(x[1]) => y[1] = x[1] /\ SlotOf(Swept, x[1]) # {}
<1>1. FrameTypes /\ y \in MadeFrags(tmMade) /\ y[1] \in 1..Len(tmMade) /\ x[1] \in 1..Len(tmMade)
  BY MadeOf, FramesNow DEF FewInv
<1>2. y[1] \notin tmSpoiled /\ TmWhole(y[1]) \notin tmHanded
  BY DEF Pushes
<1>3. PICK i \in 1..TmSlots :
           /\ tmSlots[i].active /\ tmSlots[i].seq = tmMade[y[1]].seq
           /\ y[2] + 1 \in 1..Len(tmSlots[i].parts) /\ tmSlots[i].parts[y[2] + 1] = y
  BY <1>2 DEF FewInv, ArrivedIsKept
<1>4. tmSlots[i] \in TmSlot(tmMade)
  BY <1>1, FramesNow
<1>5. y[1] \in FramesIn(tmSlots[i])
  BY <1>1, <1>3, <1>4, FramesInHas
<1>6. ~Late(i)
  <2> SUFFICES ASSUME Late(i) PROVE FALSE
    OBVIOUS
  <2>1. y[1] \in SweptFrames
    BY <1>5 DEF SweptFrames
  <2>2. QED
    BY <2>1 DEF Pushes
<1>7. Swept[i] = tmSlots[i]
  BY <1>6 DEF Swept
<1>8. ASSUME i = TmAt(x[1]) PROVE y[1] = x[1] /\ SlotOf(Swept, x[1]) # {}
  <2>1. SlotOf(Swept, x[1]) # {}
    <3> SUFFICES ASSUME SlotOf(Swept, x[1]) = {} PROVE FALSE
      OBVIOUS
    <3>1. y[1] \in tmSpoiled'
      BY <1>5, <1>7, <1>8 DEF Pushes
    <3>2. QED
      BY <3>1
  <2>2. Swept[i].seq = tmMade[x[1]].seq
    BY <1>1, <1>8, <2>1, FoundIs DEF SlotOf
  <2>3. tmMade[y[1]].seq = tmMade[x[1]].seq
    BY <1>3, <1>7, <2>2
  <2>4. QED
    BY <1>1, <2>1, <2>3, NamesApart DEF FewInv
<1>9. QED
  BY <1>3, <1>7, <1>8

LEMMA PushesKeep == ASSUME FewInv, NEW x \in MadeFrags(tmMade), Pushes(x), FrameTypes' PROVE FewInv'
<1> DEFINE f == x[1]
           a == TmAt(f)
<1>1. tmMade' = tmMade /\ f \in 1..Len(tmMade)
  BY ThenOfFrame DEF Pushes
<1>2. \A g : TmWhole(g)' = TmWhole(g) /\ Total(g)' = Total(g)
  BY <1>1 DEF TmWhole, Total
<1>3. NamesGrow'
  BY <1>1 DEF FewInv, NamesGrow
<1>4. /\ a \in 1..TmSlots /\ \A i \in 1..TmSlots : i # a => tmSlots'[i] = Swept[i]
      /\ Complete(TmThen(x)) => tmSlots'[a].active = FALSE
      /\ ~Complete(TmThen(x)) => /\ tmSlots'[a].active /\ tmSlots'[a].seq = tmMade[f].seq /\ tmSlots'[a].total = Total(f)
                                 /\ tmSlots'[a].parts = TmThen(x)
      /\ \A i \in 1..TmSlots : i # a /\ Swept[i].active => Swept[i].seq # tmMade[f].seq
  BY SlotsThen
<1>5. SlotsOfFrames'
  <2> SUFFICES ASSUME NEW i \in 1..TmSlots, tmSlots'[i].active PROVE \E g \in 1..Len(tmMade') : OfFrame(tmSlots[i], g)'
    BY DEF SlotsOfFrames
  <2>1. CASE i # a
    <3>1. tmSlots'[i] = Swept[i]
      BY <1>4, <2>1
    <3>2. PICK g \in 1..Len(tmMade) : OfFrame(Swept[i], g)
      BY <3>1, SweptOfFrames
    <3>3. OfFrame(tmSlots[i], g)'
      BY <1>1, <1>2, <3>1, <3>2 DEF OfFrame
    <3>4. QED
      BY <1>1, <3>3
  <2>2. CASE i = a
    <3>1. ~Complete(TmThen(x))
      BY <1>4, <2>2
    <3>2. /\ Len(TmThen(x)) = tmMade[f].count
          /\ \A k \in 1..tmMade[f].count : TmThen(x)[k] \in {TmNoPart, <<f, k - 1>>}
      BY ThenOfFrame
    <3>3. OfFrame(tmSlots[i], f)'
      BY <1>1, <1>2, <1>4, <2>2, <3>1, <3>2 DEF OfFrame
    <3>4. QED
      BY <1>1, <3>3
  <2>3. QED
    BY <2>1, <2>2
<1>6. OneSlotEach'
  <2> SUFFICES ASSUME NEW i \in 1..TmSlots, NEW j \in 1..TmSlots, tmSlots'[i].active, tmSlots'[j].active,
                      tmSlots'[i].seq = tmSlots'[j].seq
               PROVE  i = j
    BY DEF OneSlotEach
  <2>1. CASE i # a /\ j # a
    BY <1>4, <2>1, SweptOfFrames
  <2>2. CASE i = a \/ j = a
    BY <1>4, <2>2
  <2>3. QED
    BY <2>1, <2>2
<1>7. NoneComplete'
  <2> SUFFICES ASSUME NEW i \in 1..TmSlots, tmSlots'[i].active
               PROVE  \E k \in 1..Len(tmSlots'[i].parts) : tmSlots'[i].parts[k] = TmNoPart
    BY DEF NoneComplete
  <2>1. CASE i # a
    <3>1. tmSlots'[i] = Swept[i] /\ Swept[i].active
      BY <1>4, <2>1
    <3>2. Swept[i] = tmSlots[i]
      BY <3>1, SweptTyped DEF FewInv
    <3>3. QED
      BY <3>1, <3>2 DEF FewInv, NoneComplete
  <2>2. CASE i = a
    BY <1>4, <2>2, ThenOfFrame
  <2>3. QED
    BY <2>1, <2>2
<1>8. Complete(TmThen(x)) => TmThen(x) = TmWhole(f) /\ tmHanded' = tmHanded \cup {TmWhole(f)}
  <2> SUFFICES ASSUME Complete(TmThen(x)) PROVE TmThen(x) = TmWhole(f) /\ tmHanded' = tmHanded \cup {TmWhole(f)}
    OBVIOUS
  <2>1. TmThen(x) = TmWhole(f)
    BY ThenOfFrame
  <2>2. TmHas(f).total = Total(f)
    BY <1>1, HasOfFrame DEF OfFrame
  <2>3. LengthFits(TmHas(f), TmWhole(f))
    BY <1>1, <2>2, WholeFits DEF FewInv
  <2>4. QED
    BY <2>1, <2>3 DEF Pushes
<1>9. HandedWhole'
  <2>1. tmHanded' \subseteq tmHanded \cup {TmWhole(f)}
    BY <1>8 DEF Pushes
  <2>2. QED
    BY <1>1, <1>2, <2>1 DEF FewInv, HandedWhole
<1>10. ArrivedIsKept'
  <2> SUFFICES ASSUME NEW y \in tmArrived', y[1] \notin tmSpoiled', TmWhole(y[1]) \notin tmHanded'
               PROVE  \E i \in 1..TmSlots :
                        /\ tmSlots'[i].active /\ tmSlots'[i].seq = tmMade[y[1]].seq
                        /\ y[2] + 1 \in 1..Len(tmSlots'[i].parts) /\ tmSlots'[i].parts[y[2] + 1] = y
    BY <1>1, <1>2 DEF ArrivedIsKept
  <2>1. ASSUME y[1] = f PROVE ~Complete(TmThen(x))
    BY <1>8, <2>1
  <2>2. CASE y = x
    <3>1. ~Complete(TmThen(x))
      BY <2>1, <2>2
    <3>2. x[2] + 1 \in 1..Len(TmThen(x)) /\ TmThen(x)[x[2] + 1] = x
      BY ThenOfFrame
    <3>3. QED
      BY <1>4, <2>2, <3>1, <3>2
  <2>3. CASE y \in tmArrived
    <3>1. PICK i \in 1..TmSlots :
           /\ Swept[i].active /\ Swept[i].seq = tmMade[y[1]].seq
           /\ y[2] + 1 \in 1..Len(Swept[i].parts) /\ Swept[i].parts[y[2] + 1] = y
           /\ i = a => y[1] = f /\ SlotOf(Swept, f) # {}
      BY <2>3, KeptGoesOn
    <3>2. CASE i # a
      BY <1>4, <3>1, <3>2
    <3>3. CASE i = a
      <4>1. ~Complete(TmThen(x)) /\ y[1] = f
        BY <2>1, <3>1, <3>3
      <4>2. TmHas(f) = Swept[a]
        BY <3>1, <3>3 DEF TmHas
      <4>3. y # TmNoPart
        BY <2>3, MadeOf, FramesNow DEF FewInv
      <4>4. Len(Swept[a].parts) = tmMade[f].count
        BY <1>1, <4>2, HasOfFrame DEF OfFrame
      <4>5. TmThen(x)[y[2] + 1] = y /\ y[2] + 1 \in 1..Len(TmThen(x))
        BY <3>1, <3>3, <4>2, <4>3, <4>4, ThenOfFrame
      <4>6. QED
        BY <1>4, <4>1, <4>5
    <3>4. QED
      BY <3>2, <3>3
  <2>4. QED
    BY <2>2, <2>3 DEF Pushes
<1>11. QED
  BY <1>3, <1>5, <1>6, <1>7, <1>9, <1>10 DEF FewInv

LEMMA FewKeep ==
  ASSUME FewFrames
  PROVE  FewInv /\ [TmFramesNext]_tmFrameVars => FewInv'
<1> SUFFICES ASSUME FewInv, [TmFramesNext]_tmFrameVars PROVE FewInv'
  OBVIOUS
<1>1. FrameTypes'
  BY FramesKeep DEF FewInv
<1>2. CASE TmPush
  <2>1. PICK p \in tmAir : Pushes(p[1])
    BY <1>2, PushMoves DEF Pushes
  <2>2. p[1] \in MadeFrags(tmMade)
    BY FramesNow DEF FewInv
  <2>3. QED
    BY <1>1, <2>1, <2>2, PushesKeep
<1>3. CASE ~TmPush
  BY <1>3, SenderKeeps DEF TmFramesNext
<1>4. QED
  BY <1>2, <1>3

\* The order of the fragments of a frame is its own on either side, whatever the network makes of
\* it, as long as the counter does not come round: what is handed on is one frame, whole
\* (HandedWhole), and a frame that arrived is handed on unless its slot was taken or ran out of
\* time (OrderIsNoMatter).
THEOREM FramesStayWhole ==
  ASSUME FewFrames
  PROVE  TmFramesSpec => [](HandedWhole /\ OrderIsNoMatter)
<1>1. FewInv /\ [TmFramesNext]_tmFrameVars => FewInv'
  BY FewKeep
<1>2. QED
  BY <1>1, FewStart, FewShow, PTL DEF TmFramesSpec

=============================================================================
