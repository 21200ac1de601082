---------------------------- MODULE OrderedLink ----------------------------
(* What the stripe promises the tunnel above it (the comment on            *)
(* StripedTransport): one link that hands up whole frames in the order in  *)
(* which they were offered, none of them twice.  Frames may be missing:    *)
(* the send queue drops some, and a hole is given up on after a while.     *)
EXTENDS Integers, Sequences

CONSTANT MaxFrames  \* bound: frames offered in a behaviour

VARIABLES
  offered,  \* the frames offered so far are 1..offered
  arrived   \* the frames handed up to the receiving process, in order

linkVars == <<offered, arrived>>

Init == offered = 0 /\ arrived = <<>>

Offer ==
  /\ offered < MaxFrames
  /\ offered' = offered + 1
  /\ UNCHANGED arrived

\* What has arrived stays; what comes after it was offered and is newer than
\* everything before it.  Several frames may come free at once.
HandUp ==
  /\ Len(arrived') >= Len(arrived)
  /\ \A i \in DOMAIN arrived : arrived'[i] = arrived[i]
  /\ \A i \in (Len(arrived) + 1)..Len(arrived') :
       /\ arrived'[i] \in 1..offered
       /\ \A j \in 1..(i - 1) : arrived'[j] < arrived'[i]
  /\ UNCHANGED offered

\* A new receiving process starts with nothing.
Restart == arrived' = <<>> /\ UNCHANGED offered

Next == Offer \/ HandUp \/ Restart

Spec == Init /\ [][Next]_linkVars
=============================================================================
