----------------------------- MODULE MCStripe ------------------------------
(* Frames of one, two and four pieces, and who may restart, for TLC.        *)
EXTENDS Stripe
MCParts == <<2, 1, 2>>
MCShort == <<2, 2>>
MCLong == <<5>>
NoRestarts == [send |-> 0, receive |-> 0]
OneEach == [send |-> 1, receive |-> 1]
ReceiverOnly == [send |-> 0, receive |-> 1]
\* What a step of the link depends on: everything but the histories and the
\* frames handed up.
LinkState ==
  <<queue, cur, offered, seq, low, tx, rtxQ, wire, acks, rx, news, restarts>>
=============================================================================
