---------------------------- MODULE AcceptOnce -----------------------------
(* What the receiver of numbered packets promises: of the packets offered  *)
(* since the last reset, each number is accepted at most once, and every   *)
(* number that is new and within Window of the newest one is accepted.     *)
EXTENDS Integers

CONSTANTS
  Window,   \* how far behind the newest a number may be
  Seqs      \* the numbers a packet may carry

VARIABLES
  newest,   \* the newest number accepted, 0 when there is none
  accepted, \* the numbers accepted
  verdict   \* the last number offered and whether it was accepted

absVars == <<newest, accepted, verdict>>

Init ==
  /\ newest = 0
  /\ accepted = {}
  /\ verdict = <<0, "refused">>

Due(s) ==
  /\ s > 0
  /\ \/ s > newest
     \/ newest - s < Window /\ s \notin accepted

Offer(s) ==
  /\ verdict' = <<s, IF Due(s) THEN "accepted" ELSE "refused">>
  /\ accepted' = IF Due(s) THEN accepted \cup {s} ELSE accepted
  /\ newest' = IF Due(s) /\ s > newest THEN s ELSE newest

Reset == Init'

Next == Reset \/ \E s \in Seqs : Offer(s)

Spec == Init /\ [][Next]_absVars
=============================================================================
