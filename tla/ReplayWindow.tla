--------------------------- MODULE ReplayWindow ----------------------------
(* The replay window of transport/session.go: replayWindow, a ring of one  *)
(* bit per sequence number, and acceptSequenceLocked, which keeps it       *)
(* cleared ahead of the newest number.  The bits are Booleans indexed by   *)
(* the number modulo the ring's size, the 64-bit words are left out.       *)
EXTENDS Integers

CONSTANTS
  Window,  \* replayWindowSize
  MaxSeq   \* the largest sequence number a sender uses: 2^64 - 1

ASSUME WindowAssumption == Window \in Nat \ {0} /\ MaxSeq \in Nat

VARIABLES
  highest,  \* the newest sequence number accepted
  ring,     \* the bits
  accepted, \* history: the numbers accepted since the last reset
  verdict   \* history: the last number offered and whether it was accepted

vars == <<highest, ring, accepted, verdict>>

Slots == 0..(Window - 1)
Seqs == 0..MaxSeq
Slot(s) == s % Window
Empty == [i \in Slots |-> FALSE]

TypeOK ==
  /\ highest \in Seqs
  /\ ring \in [Slots -> BOOLEAN]
  /\ accepted \subseteq 1..highest
  /\ verdict \in Seqs \X {"accepted", "refused"}

Init ==
  /\ highest = 0
  /\ ring = Empty
  /\ accepted = {}
  /\ verdict = <<0, "refused">>

\* Mutant: the bits of the numbers skipped over are left from a turn ago.
KeepSkipped(s) == ring

\* The ring without the bits of the numbers skipped on the way to s.
ClearSkipped(s) ==
  IF s - highest >= Window
    THEN Empty
    ELSE [i \in Slots |->
            ring[i] /\ \A n \in (highest + 1)..(s - 1) : Slot(n) # i]

Advance(s) ==
  /\ s > highest
  /\ highest' = s
  /\ ring' = [ClearSkipped(s) EXCEPT ![Slot(s)] = TRUE]
  /\ accepted' = accepted \cup {s}
  /\ verdict' = <<s, "accepted">>

\* Mutant: number 0, which no packet carries, is not refused.
MissingOrZero(s) == highest - s < Window /\ ~ring[Slot(s)]
Missing(s) == s > 0 /\ highest - s < Window /\ ~ring[Slot(s)]

FillIn(s) ==
  /\ s <= highest
  /\ Missing(s)
  /\ ring' = [ring EXCEPT ![Slot(s)] = TRUE]
  /\ accepted' = accepted \cup {s}
  /\ verdict' = <<s, "accepted">>
  /\ UNCHANGED highest

Reject(s) ==
  /\ s <= highest
  /\ ~Missing(s)
  /\ verdict' = <<s, "refused">>
  /\ UNCHANGED <<highest, ring, accepted>>

\* resetLocked and offerReplacementLocked start the numbering again.
Reset ==
  /\ highest' = 0
  /\ ring' = Empty
  /\ accepted' = {}
  /\ verdict' = <<0, "refused">>

Next ==
  \/ Reset
  \/ \E s \in Seqs : Advance(s) \/ FillIn(s) \/ Reject(s)

Spec == Init /\ [][Next]_vars

----------------------------------------------------------------------------
\* Within the window, the bit of a number says whether it was accepted, also
\* right after the ring wrapped or was jumped over (acceptSequenceLocked).
RingIsTruth ==
  \A s \in 1..highest :
    highest - s < Window => (ring[Slot(s)] <=> s \in accepted)

\* The ring behaves like the set of all accepted numbers: nothing is
\* accepted twice and nothing due is refused.
Promise == INSTANCE AcceptOnce WITH newest <- highest, Seqs <- Seqs
PromiseKept == Promise!Spec
=============================================================================
