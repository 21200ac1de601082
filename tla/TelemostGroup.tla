---------------------------- MODULE TelemostGroup ---------------------------
(***************************************************************************)
(* The lanes of one node in a Telemost room (telemost_stripe.go) and the   *)
(* peers each of them watches.  recompute is run by a clock and by the     *)
(* reader of every lane, in parts that others come between: a snapshot, a  *)
(* request to grow, the new targets set lane after lane, and a look for    *)
(* peers nothing arrives from.                                             *)
(***************************************************************************)
EXTENDS Naturals, FiniteSets, FiniteSetsExt, SequencesExt

CONSTANTS
    RoomPeers,    \* bound on the participants of the other side; numbered in the order of ids
    RoomLeaves,   \* bound on those of them that leave
    GroupLanes,   \* maxLanes of the stripe
    RoomReaders   \* the lanes whose readers are modelled: they run recompute, as the clock does

ASSUME TelemostGroupAssumption == {RoomPeers, RoomLeaves} \subseteq Nat /\ GroupLanes \in Nat \ {0} /\ "clock" \notin RoomReaders

VARIABLES
    peer,       \* what each participant is: absent, live, a ghost that left without a word, gone
    told,       \* what the lanes were told of each
    settled,    \* the peers that have been streaming for peerSettle
    silent,     \* g.silent
    targets,    \* the peer each lane watches, 0 for none; one entry for each lane
    growing,    \* g.growing
    growths,    \* the calls of addLane under way
    recomputer, \* each goroutine in recompute
    roomCalm    \* nobody joins or leaves from now on

roomVars == <<peer, told, settled, roomCalm>>
groupVars == <<peer, told, settled, silent, targets, growing, growths, recomputer, roomCalm>>

RoomPeer == 1..RoomPeers
Recomputers == RoomReaders \cup {"clock"}
Lanes == 1..Len(targets)
IdleRecompute == [at |-> "idle", lanes |-> 0, settled |-> 0, peers |-> <<>>, quiet |-> {}, next |-> <<>>]

GroupTypeOK ==
    /\ peer \in [RoomPeer -> {"absent", "live", "ghost", "gone"}]
    /\ told \in [RoomPeer -> {"nothing", "streaming", "gone"}]
    /\ settled \subseteq RoomPeer /\ silent \subseteq RoomPeer
    /\ targets \in Seq(0..RoomPeers) /\ Len(targets) <= GroupLanes
    /\ growing \in BOOLEAN /\ growths \in Nat /\ roomCalm \in BOOLEAN
    /\ \A c \in Recomputers :
         /\ recomputer[c].at \in {"idle", "again", "assigning", "setting", "looking"}
         /\ recomputer[c].lanes \in 0..GroupLanes /\ recomputer[c].settled \in 0..RoomPeers
         /\ recomputer[c].peers \in Seq(RoomPeer) /\ recomputer[c].quiet \subseteq RoomPeer
         /\ recomputer[c].next \in Seq(0..RoomPeers)

\* NewTelemostGroup with one lane.
GroupInit ==
    /\ peer = [p \in RoomPeer |-> "absent"] /\ told = [p \in RoomPeer |-> "nothing"]
    /\ settled = {} /\ silent = {} /\ targets = <<0>>
    /\ growing = FALSE /\ growths = 0
    /\ recomputer = [c \in Recomputers |-> IdleRecompute] /\ roomCalm = FALSE
----------------------------------------------------------------------------
(* The room *)

PeerJoins == \E p \in RoomPeer :
    /\ ~roomCalm /\ peer[p] = "absent" /\ peer' = [peer EXCEPT ![p] = "live"]
    /\ UNCHANGED <<told, settled, silent, targets, growing, growths, recomputer, roomCalm>>

PeerLeaves == \E p \in RoomPeer :
    /\ ~roomCalm /\ peer[p] = "live"
    /\ Cardinality({q \in RoomPeer : peer[q] \in {"ghost", "gone"}}) < RoomLeaves
    /\ \E how \in {"ghost", "gone"} : peer' = [peer EXCEPT ![p] = how]
    /\ UNCHANGED <<told, settled, silent, targets, growing, growths, recomputer, roomCalm>>

\* The room keeps a ghost listed for some time only.
GhostFound == \E p \in RoomPeer :
    /\ peer[p] = "ghost" /\ peer' = [peer EXCEPT ![p] = "gone"]
    /\ UNCHANGED <<told, settled, silent, targets, growing, growths, recomputer, roomCalm>>

\* The clock of peerSettle.
PeerSettles == \E p \in RoomPeer \ settled :
    /\ told[p] = "streaming" /\ settled' = settled \cup {p}
    /\ UNCHANGED <<peer, told, silent, targets, growing, growths, recomputer, roomCalm>>

RoomGoesCalm ==
    /\ ~roomCalm /\ roomCalm' = TRUE
    /\ UNCHANGED <<peer, told, settled, silent, targets, growing, growths, recomputer>>

Known(p) == CASE peer[p] = "absent" -> "nothing" [] peer[p] = "gone" -> "gone"
              [] peer[p] \in {"live", "ghost"} -> "streaming"

\* onDescriptions: what one lane is told counts for all, and its reader recomputes.
Describe(r) ==
    /\ recomputer[r].at = "idle" /\ recomputer' = [recomputer EXCEPT ![r].at = "again"]
    /\ \E p \in RoomPeer : told[p] # Known(p) /\ told' = [told EXCEPT ![p] = Known(p)]
    /\ UNCHANGED <<peer, settled, silent, targets, growing, growths, roomCalm>>
----------------------------------------------------------------------------
(* recompute *)

\* A mark runs out, long after the run that made it went round again.
SilenceEnds(p) ==
    /\ \A c \in Recomputers : recomputer[c].at = "idle"
    /\ p \in silent /\ silent' = silent \ {p}
    /\ UNCHANGED <<roomVars, targets, growing, growths, recomputer>>

Listed == {p \in RoomPeer : told[p] = "streaming"}
\* The n-th number of a set, the smallest first.
Nth(ns, n) == CHOOSE k \in ns : Cardinality({j \in ns : j <= k}) = n
InOrder(ps) == [n \in 1..Cardinality(ps) |-> Nth(ps, n)]

\* The part under the lock of the group: the silent peers come last.  The clock begins it at
\* any time; it is begun again after peers were put aside.
Snapshot(c) ==
    /\ recomputer[c].at \in {"again"} \cup (IF c = "clock" THEN {"idle"} ELSE {})
    /\ recomputer' = [recomputer EXCEPT ![c] =
         [at |-> "assigning", lanes |-> Len(targets), settled |-> Cardinality((Listed \ silent) \cap settled),
          peers |-> InOrder(Listed \ silent) \o InOrder(Listed \cap silent), quiet |-> Listed \cap silent,
          next |-> <<>>]]
    /\ UNCHANGED <<roomVars, silent, targets, growing, growths>>

Grows(c) == recomputer[c].settled > recomputer[c].lanes /\ ~growing

AlivePeers(c) == ToSet(recomputer[c].peers) \ recomputer[c].quiet

\* Mutant: a lane keeps its peer whoever else watches it.
KeepsShared(c, i) == targets[i] \in AlivePeers(c)
\* A lane keeps its peer while that is alive and no lane before it has it.
Keeps(c, i) == targets[i] \in AlivePeers(c) /\ \A j \in 1..i - 1 : targets[j] # targets[i]
Kept(c) == {i \in 1..recomputer[c].lanes : Keeps(c, i)}
Free(c) ==
    {k \in DOMAIN recomputer[c].peers : \A i \in Kept(c) : targets[i] # recomputer[c].peers[k]}

\* The free lanes take the free peers in order.
Assigned(c) ==
    [i \in 1..recomputer[c].lanes |->
        LET n == Cardinality({j \in 1..i : j \notin Kept(c)})
        IN  IF i \in Kept(c) THEN targets[i]
            ELSE IF n <= Cardinality(Free(c)) THEN recomputer[c].peers[Nth(Free(c), n)] ELSE 0]

\* The targets of the lanes are read one after the other; nothing is done between.
Assign(c) ==
    /\ recomputer[c].at = "assigning"
    /\ growing' = (growing \/ Grows(c)) /\ growths' = IF Grows(c) THEN growths + 1 ELSE growths
    /\ recomputer' = [recomputer EXCEPT ![c] =
         [IdleRecompute EXCEPT !.at = "setting", !.lanes = recomputer[c].lanes, !.next = Assigned(c)]]
    /\ UNCHANGED <<roomVars, silent, targets>>

\* setStripeTarget, lane after lane.
SetTarget(c) ==
    /\ recomputer[c].at = "setting"
    /\ IF recomputer[c].next = <<>>
       THEN recomputer' = [recomputer EXCEPT ![c].at = "looking"] /\ UNCHANGED targets
       ELSE LET i == recomputer[c].lanes - Len(recomputer[c].next) + 1
            IN  /\ targets' = [targets EXCEPT ![i] = Head(recomputer[c].next)]
                /\ recomputer' = [recomputer EXCEPT ![c].next = Tail(@)]
    /\ UNCHANGED <<roomVars, silent, growing, growths>>

\* What receiving says of a peer: nothing comes from one that left, and it may take a live one
\* some time.
Silent(p) == p # 0 /\ (peer[p] # "live" \/ ~roomCalm)

\* The peers that sent nothing are put aside, and if there is a new one it starts again.  A
\* lane that has watched its peer only for a short time is not counted.
Look(c) ==
    /\ recomputer[c].at = "looking"
    /\ \E heard \in SUBSET {targets[i] : i \in 1..recomputer[c].lanes} :
         /\ \A i \in 1..recomputer[c].lanes : targets[i] \in heard => Silent(targets[i])
         /\ silent' = silent \cup heard
         /\ recomputer' = [recomputer EXCEPT ![c] =
              [IdleRecompute EXCEPT !.at = IF heard \subseteq silent THEN "idle" ELSE "again"]]
    /\ UNCHANGED <<roomVars, targets, growing, growths>>

\* addLane, and NewLane unless there are enough.
AddLane ==
    /\ growths > 0 /\ growths' = growths - 1
    /\ IF Len(targets) < GroupLanes THEN targets' = Append(targets, 0) /\ growing' = FALSE
       ELSE UNCHANGED <<targets, growing>>
    /\ UNCHANGED <<roomVars, silent, recomputer>>
----------------------------------------------------------------------------
Recompute(c) == Snapshot(c) \/ Assign(c) \/ SetTarget(c) \/ Look(c)
RoomChanges == PeerJoins \/ PeerLeaves \/ GhostFound \/ PeerSettles \/ RoomGoesCalm

GroupNext ==
    \/ RoomChanges \/ AddLane
    \/ \E r \in RoomReaders : Describe(r)
    \/ \E p \in RoomPeer : SilenceEnds(p)
    \/ \E c \in Recomputers : Recompute(c)

\* Messages arrive, the clocks tick, a run of recompute goes on, and a mark ends, which waits
\* for a moment at which nobody recomputes.
GroupFairness ==
    /\ WF_groupVars(AddLane) /\ \A r \in RoomReaders : WF_groupVars(Describe(r))
    /\ WF_groupVars(GhostFound) /\ WF_groupVars(PeerSettles)
    /\ \A p \in RoomPeer : SF_groupVars(SilenceEnds(p))
    /\ \A c \in Recomputers : WF_groupVars(Recompute(c))
GroupSpec == GroupInit /\ [][GroupNext]_groupVars /\ GroupFairness
----------------------------------------------------------------------------
LivePeers == {p \in RoomPeer : peer[p] = "live"}
DistinctPeers ==
    \A i, j \in Lanes : targets[i] \in LivePeers /\ targets[i] = targets[j] => i = j

\* Once the room is calm every peer that sends is watched, each by a lane of its own, if the
\* node may have that many lanes: the group grows, and two lanes that were given the same peer
\* by two runs of recompute do not both keep it (recompute).
PeersServed ==
    roomCalm /\ Cardinality(LivePeers) <= GroupLanes
       => LivePeers \subseteq ToSet(targets) /\ DistinctPeers
GroupServes == <>[]PeersServed
=============================================================================
