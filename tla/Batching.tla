------------------------------ MODULE Batching -------------------------------
(***************************************************************************)
(* The queue and the flush loop of BatchedTransport and CodecTransport     *)
(* (transport/batched.go, transport/codec.go): callers put packets into a  *)
(* bounded queue, one goroutine gathers what is there, lingers for more    *)
(* and writes a frame; Stop may come between any two steps.  The carrier   *)
(* may refuse a frame.                                                     *)
(***************************************************************************)
EXTENDS Naturals, SequencesExt

CONSTANTS
    BatchCallers,   \* goroutines that call Send
    MaxBatched,     \* bound on the packets accepted
    BatchCount,     \* maxBatchCount
    BatchDepth      \* batchQueueDepth

ASSUME BatchingAssumption == MaxBatched \in Nat /\ {BatchCount, BatchDepth} \subseteq Nat \ {0}

VARIABLES
    batchKind,     \* which of the two; a codec may have settled on single packets; fixed
    batchCalls,    \* where each caller of Send is
    batchStop,     \* how far Stop is
    accepted,      \* the packets Send has accepted; they are numbered
    batchQueue,    \* queue
    flusher,       \* flushLoop: where it is, and its batch
    frames         \* the frames given to the carrier

batchVars == <<batchKind, batchCalls, batchStop, accepted, batchQueue, flusher, frames>>

Accepted == 1..MaxBatched
BatchingTypeOK ==
    /\ batchKind \in {"batched", "codec", "legacy"}
    /\ batchCalls \in [BatchCallers -> {"idle", "checked"}]
    /\ batchStop \in {"no", "flagged", "signalled", "done"}
    /\ accepted \in 0..MaxBatched
    /\ batchQueue \in Seq(Accepted) /\ Len(batchQueue) <= BatchDepth
    /\ flusher.at \in {"top", "gathering", "lingering", "writing", "ended"}
    /\ flusher.batch \in Seq(Accepted) /\ Len(flusher.batch) <= BatchCount
    /\ frames \in Seq(Seq(Accepted))

BatchingInit ==
    /\ batchKind \in {"batched", "codec", "legacy"}
    /\ batchCalls = [c \in BatchCallers |-> "idle"] /\ batchStop = "no"
    /\ accepted = 0 /\ batchQueue = <<>>
    /\ flusher = [at |-> "top", batch |-> <<>>] /\ frames = <<>>

StopsNow == batchStop \in {"signalled", "done"}   \* stopCh is closed
NotRunning == batchStop # "no"                    \* running is FALSE
----------------------------------------------------------------------------
(* Send *)

\* BatchedTransport looks at running under the lock that Stop takes, a codec without.
SendLooks(c) ==
    /\ batchCalls[c] = "idle" /\ ~NotRunning
    /\ batchCalls' = [batchCalls EXCEPT ![c] = "checked"]
    /\ UNCHANGED <<batchKind, batchStop, accepted, batchQueue, flusher, frames>>

\* A full queue refuses the packet.
SendQueues(c) ==
    /\ batchCalls[c] = "checked" /\ batchCalls' = [batchCalls EXCEPT ![c] = "idle"]
    /\ IF Len(batchQueue) < BatchDepth /\ accepted < MaxBatched
       THEN accepted' = accepted + 1 /\ batchQueue' = Append(batchQueue, accepted + 1)
       ELSE UNCHANGED <<accepted, batchQueue>>
    /\ UNCHANGED <<batchKind, batchStop, flusher, frames>>
----------------------------------------------------------------------------
(* flushLoop *)

Full == Len(flusher.batch) >= BatchCount
FlusherGoes(at) == flusher' = [flusher EXCEPT !.at = at]
OnlyFlusher == UNCHANGED <<batchKind, batchCalls, batchStop, accepted, frames>>

FlushTakes ==
    /\ flusher.at = "top" /\ batchQueue # <<>>
    /\ flusher' = [at |-> IF batchKind = "legacy" THEN "writing" ELSE "gathering",
                   batch |-> <<Head(batchQueue)>>]
    /\ batchQueue' = Tail(batchQueue)
    /\ OnlyFlusher

FlushEnds ==
    /\ flusher.at = "top" /\ NotRunning /\ FlusherGoes("ended")
    /\ OnlyFlusher /\ UNCHANGED batchQueue

\* What is there goes into the batch at once, and what comes while it lingers.
FlushGathers ==
    /\ flusher.at \in {"gathering", "lingering"} /\ ~Full /\ batchQueue # <<>>
    /\ flusher' = [flusher EXCEPT !.batch = Append(@, Head(batchQueue))]
    /\ batchQueue' = Tail(batchQueue)
    /\ OnlyFlusher

FlushLingers ==
    /\ flusher.at = "gathering" /\ (Full \/ batchQueue = <<>>)
    /\ FlusherGoes(IF Full THEN "writing" ELSE "lingering")
    /\ OnlyFlusher /\ UNCHANGED batchQueue

\* Mutant: only the next packet ends the wait.
WhenFull == Full
WhenOver == TRUE
LingerOver == flusher.at = "lingering" /\ WhenOver /\ FlusherGoes("writing")

\* The timer, or there is no more room.
FlushWaits ==
    /\ LingerOver
    /\ OnlyFlusher /\ UNCHANGED batchQueue

\* Stop ends the wait, and the batch with it.
FlushDrops ==
    /\ flusher.at = "lingering" /\ StopsNow /\ FlusherGoes("ended")
    /\ OnlyFlusher /\ UNCHANGED batchQueue

\* Mutant: what was written stays in the batch.
StillHolding == flusher.batch
Emptied == <<>>

\* The carrier takes the frame or not; it is gone either way.
FlushWrites ==
    /\ flusher.at = "writing"
    /\ frames' = Append(frames, flusher.batch)
    /\ flusher' = [at |-> IF NotRunning THEN "ended" ELSE "top", batch |-> Emptied]
    /\ UNCHANGED <<batchKind, batchCalls, batchStop, accepted, batchQueue>>
----------------------------------------------------------------------------
(* Stop *)

\* Under the lock of Send: a caller that has looked is done with.
StopsRunning ==
    /\ batchStop = "no" /\ batchStop' = "flagged"
    /\ batchKind = "batched" => \A c \in BatchCallers : batchCalls[c] = "idle"
    /\ UNCHANGED <<batchKind, batchCalls, accepted, batchQueue, flusher, frames>>

StopsLoop ==
    /\ batchStop = "flagged" /\ batchStop' = "signalled"
    /\ UNCHANGED <<batchKind, batchCalls, accepted, batchQueue, flusher, frames>>

\* The carrier is stopped last.
StopsCarrier ==
    /\ batchStop = "signalled" /\ batchStop' = "done"
    /\ UNCHANGED <<batchKind, batchCalls, accepted, batchQueue, flusher, frames>>
----------------------------------------------------------------------------
Flushes == FlushTakes \/ FlushEnds \/ FlushGathers \/ FlushLingers \/ FlushWaits \/ FlushDrops \/ FlushWrites
StopsBatching == StopsRunning \/ StopsLoop \/ StopsCarrier

BatchingNext ==
    \/ Flushes \/ StopsBatching
    \/ \E c \in BatchCallers : SendLooks(c) \/ SendQueues(c)

\* The goroutine of flushLoop runs and its timer ends.
BatchingFairness == WF_batchVars(Flushes)
BatchingSpec == BatchingInit /\ [][BatchingNext]_batchVars /\ BatchingFairness
----------------------------------------------------------------------------
\* Every packet Send accepted is in a frame, in the batch or in the queue, once and in the order
\* of acceptance, whatever was gathered when: only what Stop finds in the last two is lost
\* (flushLoop).
AcceptedInOrder == FlattenSeq(frames) \o flusher.batch \o batchQueue = [i \in 1..accepted |-> i]

\* What was accepted is given to the carrier without waiting for more, unless it is stopped.
BatchPending == batchQueue # <<>> \/ flusher.batch # <<>>
BatchFlushed == NotRunning \/ ~BatchPending
Flushed == BatchPending ~> BatchFlushed

\* What a caller who got no error may think, and a codec, which looks without the lock, does
\* not keep.
AcceptedWhileRunning ==
    [][accepted' > accepted => flusher.at # "ended"]_batchVars
=============================================================================
