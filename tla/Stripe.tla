------------------------------- MODULE Stripe -------------------------------
(* The reliable link of transport/striped.go, one direction of it: sender   *)
(* (queue, pieces in flight, retransmission) and reorderBuffer (window,     *)
(* holes, acks, reassembly) over lanes that lose, duplicate and reorder.    *)
(*                                                                          *)
(* A piece is <<frame, part>>; sequence numbers wrap at Modulus, 2^32 in    *)
(* the code.  Every pull hands out one thing, which is pull with max = 1.   *)
(* Round-trip times are left out: the timeout of a piece in flight may      *)
(* expire at any moment, which also covers what detectLocked concludes from *)
(* the lanes' acks; so lanes, tries and CoDel's clock are not in the state. *)
EXTENDS Integers, Sequences, FiniteSets, FiniteSetsExt, SequencesExt

CONSTANTS
  Modulus,    \* 2^32: how many sequence numbers there are
  Ring,       \* txRingSize = reorderWindow
  Runs,       \* ackMaxRuns
  QueueLimit, \* frames the send queue holds
  Parts,      \* how many pieces each frame is cut into
  FirstSeqs,  \* the random first sequence numbers of a sender's runs
  Linger,     \* a copy on a lane is never more than this many pieces old
  DupOn,      \* STRIPE_DUP: spare room carries second copies
  GivesUp,    \* holeDeadline may pass before a hole is filled
  CoDel,      \* the queue may be slow enough for CoDel to drop frames
  MaxAcks,    \* bound: acks on the lanes at a time
  MaxRestarts \* bound: restarts of the sending and of the receiving process

MaxFrames == Len(Parts)
Seqs == 0..(Modulus - 1)
Slots == 0..(Ring - 1)

ASSUME StripeAssumption ==
  /\ Ring \in Nat \ {0} /\ Modulus \in Nat /\ Modulus % Ring = 0
  /\ Modulus >= 8 * Ring
  /\ Runs \in Nat \ {0} /\ QueueLimit \in Nat \ {0}
  /\ Parts \in Seq(Nat \ {0})
  /\ FirstSeqs \subseteq Seqs /\ FirstSeqs # {}
  /\ Linger \in Nat /\ MaxAcks \in Nat
  /\ MaxRestarts \in [{"send", "receive"} -> Nat]
  /\ DupOn \in BOOLEAN /\ GivesUp \in BOOLEAN /\ CoDel \in BOOLEAN

VARIABLES
  queue,    \* frames waiting in the send queue
  cur,      \* the next piece of the frame being cut, or NoPiece
  offered,  \* frames given to Send so far
  seq,      \* last sequence number handed out
  low,      \* lowest sequence number not yet acked
  tx,       \* per slot of the sender's ring: the packet in flight
  rtxQ,     \* sequence numbers waiting to be sent again
  wire,     \* packets on the lanes
  acks,     \* acks on the lanes
  rx,       \* the reorder buffer
  news,     \* a piece has arrived since the last ack (gen)
  asm,      \* pieces of the frame being reassembled
  inbox,    \* the frames handed up by this receiving process
  cut,      \* history: the pieces this run of the sender has sent
  handed,   \* history: the pieces handed up by the reorder buffer
  died,     \* history: pieces that died with a receiving process
  excuse,   \* history: why the receiver ever moved past a piece
  restarts

sendVars == <<queue, cur, offered, seq, low, tx, rtxQ, cut>>
recvVars == <<rx, news, asm, inbox, handed, excuse>>
vars == <<sendVars, wire, acks, recvVars, died, restarts>>

----------------------------------------------------------------------------
(* Sequence numbers, packets and acks.                                      *)

Plus(s, k) == (s + k) % Modulus
Ahead(a, b) == (a - b) % Modulus            \* uint32(a - b)
Signed(d) == IF d < Modulus \div 2 THEN d ELSE d - Modulus
Before(a, b) == Signed(Ahead(a, b)) < 0     \* seqBefore

NoPiece == <<0, 0>>
Pieces == UNION {{f} \X (1..Parts[f]) : f \in 1..MaxFrames}
NoPacket == [seq |-> Modulus, low |-> Modulus, piece |-> NoPiece]
Packet == [seq : Seqs, low : Seqs, piece : Pieces]
Ack == [cum : Seqs, hi : Seqs, missing : SUBSET Seqs]
NoRing == [i \in Slots |-> NoPacket]
Held(ring, s) == ring[s % Ring].seq = s

\* Whether the piece of a packet continues a frame, or another one follows.
Cont(m) == m.piece[2] > 1
More(m) == m.piece[2] < Parts[m.piece[1]]

InFlight == Ahead(Plus(seq, 1), low)

\* The n-th number of a set, the smallest first.
Nth(ns, n) == CHOOSE k \in ns : Cardinality({j \in ns : j <= k}) = n

----------------------------------------------------------------------------
(* The sender.                                                              *)

Init ==
  /\ queue = <<>> /\ cur = NoPiece /\ offered = 0
  /\ seq \in FirstSeqs
  /\ low = Plus(seq, 1)
  /\ tx = NoRing /\ rtxQ = {}
  /\ wire = {} /\ acks = {}
  /\ rx = [started |-> FALSE, next |-> 0, hi |-> 0, ring |-> NoRing, gap |-> FALSE]
  /\ news = FALSE /\ asm = <<>> /\ inbox = <<>>
  /\ cut = <<>> /\ handed = {} /\ died = {} /\ excuse = {}
  /\ restarts = [send |-> 0, receive |-> 0]

\* enqueue: a full queue drops the frame.
Send ==
  /\ offered < MaxFrames
  /\ offered' = offered + 1
  /\ queue' = IF Len(queue) < QueueLimit THEN Append(queue, offered + 1) ELSE queue
  /\ UNCHANGED <<cur, seq, low, tx, rtxQ, cut, wire, acks, recvVars, died, restarts>>

\* dequeue: the piece to send next and the queue it leaves.  CoDel drops at
\* the head, but never the last frame that waits.
Heads ==
  IF cur # NoPiece THEN {<<cur, queue>>}
  ELSE {<<<<queue[k], 1>>, SubSeq(queue, k + 1, Len(queue))>> :
          k \in {j \in DOMAIN queue : CoDel \/ j = 1}}

\* nextPiece: what remains of the frame being cut.
Rest(piece) ==
  IF piece[2] < Parts[piece[1]] THEN <<piece[1], piece[2] + 1>> ELSE NoPiece

\* Mutant: one piece more than the ring has slots.
RoomForOneMore == InFlight <= Ring
RoomInRing == InFlight < Ring

\* What is still on the lanes when the number last is handed out: a copy stays
\* for Linger further pieces at most, an ack not until the numbers come round.
OnTime(last) == {m \in wire : Ahead(last, m.seq) <= Linger}
Recent(last) == {a \in acks : a.cum # Plus(last, 1)}

\* pull, when it hands out a new piece.
PullNew ==
  /\ RoomInRing
  /\ \E h \in Heads :
       LET m == [seq |-> Plus(seq, 1), low |-> low, piece |-> h[1]]
       IN /\ cur' = Rest(h[1]) /\ queue' = h[2]
          /\ cut' = Append(cut, h[1])
          /\ seq' = m.seq
          /\ tx' = [tx EXCEPT ![m.seq % Ring] = m]
          /\ wire' = OnTime(m.seq) \cup {m}
          /\ acks' = Recent(m.seq)
  /\ UNCHANGED <<offered, low, rtxQ, recvVars, died, restarts>>

\* pull, when it sends a piece again: the packet as it was first sent.
PullAgain(s) ==
  /\ s \in rtxQ
  /\ rtxQ' = rtxQ \ {s}
  /\ wire' = wire \cup {tx[s % Ring]}
  /\ UNCHANGED <<queue, cur, offered, seq, low, tx, cut, acks, recvVars, died, restarts>>

\* duplicates: a second copy of a piece whose ack is overdue.
SpareCopy(s) ==
  /\ DupOn
  /\ Held(tx, s) /\ s \notin rtxQ
  /\ wire' = wire \cup {tx[s % Ring]}
  /\ UNCHANGED <<sendVars, acks, recvVars, died, restarts>>

\* detectLocked: a piece in flight counts as lost.
DetectLoss(s) ==
  /\ Held(tx, s) /\ s \notin rtxQ
  /\ rtxQ' = rtxQ \cup {s}
  /\ UNCHANGED <<queue, cur, offered, seq, low, tx, cut, wire, acks, recvVars, died, restarts>>

\* Mutant: acks of any run of the sender count.
AnyAck(a) == TRUE
\* Only an ack about the pieces of this run counts.
AboutThisRun(a) ==
  /\ Signed(Ahead(a.cum, low)) \in (-Ring)..InFlight
  /\ Signed(Ahead(a.hi, low)) \in (-Ring - 1)..(InFlight - 1)

\* Mutant: a piece stays in line for resending after its ack.
AllInLine(done) == rtxQ
\* pull passes over what is acked by the time it is at the head of rtxQ.
StillInLine(done) == rtxQ \ done

Acked(a, s) ==
  \/ Before(s, a.cum)
  \/ ~Before(a.hi, s) /\ s \notin a.missing

\* onAck.
OnAck(a) ==
  /\ a \in acks
  /\ acks' = acks \ {a}
  /\ IF AboutThisRun(a)
       THEN LET gone == {k \in 0..(InFlight - 1) : Acked(a, Plus(low, k))}
                done == {Plus(low, k) : k \in gone}
            IN /\ tx' = [i \in Slots |-> IF tx[i].seq \in done THEN NoPacket ELSE tx[i]]
               /\ rtxQ' = StillInLine(done)
               /\ low' = IF Before(low, a.cum) THEN a.cum ELSE low
       ELSE UNCHANGED <<tx, rtxQ, low>>
  /\ UNCHANGED <<queue, cur, offered, seq, cut, wire, recvVars, died, restarts>>

----------------------------------------------------------------------------
(* The receiver.                                                            *)

\* Mutant: a frame goes on over a gap.
HalfOverGap(a, o) == a.asm
\* A gap voids a half-assembled frame.
Half(a, o) == IF o.gap THEN <<>> ELSE a.asm

\* deliverPiece.
Assemble(a, o) ==
  LET half == Half(a, o)
      piece == o.packet.piece
  IN IF ~Cont(o.packet)
       THEN IF More(o.packet)
              THEN [asm |-> <<piece>>, inbox |-> a.inbox]
              ELSE [asm |-> half, inbox |-> Append(a.inbox, <<piece>>)]
       ELSE IF half = <<>> THEN [asm |-> <<>>, inbox |-> a.inbox]
       ELSE IF More(o.packet) THEN [asm |-> Append(half, piece), inbox |-> a.inbox]
       ELSE [asm |-> <<>>, inbox |-> Append(a.inbox, Append(half, piece))]

\* drainLocked and skipToLocked: the window moves to sequence number s, what
\* is buffered before s is handed up in order, with the gaps it leaves.
MoveTo(r, s) ==
  LET far == Ahead(s, r.next)
      have == {k \in 0..(Ring - 1) : k < far /\ Held(r.ring, Plus(r.next, k))}
      Out(k) == [packet |-> r.ring[Plus(r.next, k) % Ring],
                 gap |-> IF k = 0 THEN r.gap ELSE k - 1 \notin have]
  IN [r EXCEPT
        !.next = s,
        !.ring = [i \in Slots |->
                    IF r.ring[i].seq \in {Plus(r.next, k) : k \in have}
                      THEN NoPacket ELSE r.ring[i]],
        !.gap = IF far = 0 THEN r.gap ELSE far - 1 \notin have,
        !.out = r.out \o [n \in 1..Cardinality(have) |-> Out(Nth(have, n))]]

\* The first sequence number at or after s that is not buffered.
RunEnd(r, s) == Plus(s, Min({k \in 0..Ring : ~Held(r.ring, Plus(s, k))}))

\* startAt: the stream starts at the sender's low mark.
StartAt(m) == IF Ahead(m.seq, m.low) < Ring \div 2 THEN m.low ELSE m.seq

\* Mutant: a new sender's pieces are as good as the old one's.
NoGap == FALSE
\* resyncLocked: what was received of a frame does not go on.
GapAtStart == rx.started

StartOver(m) ==
  [started |-> TRUE, next |-> StartAt(m), hi |-> Plus(StartAt(m), -1),
   ring |-> NoRing, gap |-> GapAtStart, out |-> <<>>]

\* Nowhere near the window: the sender restarted.
Restarted(r, m) ==
  LET d == Signed(Ahead(m.seq, r.next)) IN d >= 2 * Ring \/ d < -Ring

\* Too far ahead for the window: the oldest holes are given up on.
MakeRoom(r, s) ==
  LET far == Ahead(s, r.next)
      ends == {k \in 1..Ring : /\ Held(r.ring, Plus(r.next, k - 1))
                               /\ ~Held(r.ring, Plus(r.next, k))} \cup {far}
  IN IF far < Ring THEN r
     ELSE MoveTo(r, Plus(r.next, Min({k \in ends : far - k < Ring})))

Stored(r, m) ==
  [r EXCEPT !.ring = [@ EXCEPT ![m.seq % Ring] = m],
            !.hi = IF Before(@, m.seq) THEN m.seq ELSE @]

\* The buffer hands up r.out.
Settle(r) ==
  \E a \in {FoldLeft(Assemble, [asm |-> asm, inbox |-> inbox], r.out)} :
     /\ rx' = [started |-> r.started, next |-> r.next, hi |-> r.hi,
               ring |-> r.ring, gap |-> r.gap]
     /\ asm' = a.asm
     /\ inbox' = a.inbox
     /\ handed' = handed \cup {r.out[i].packet.piece : i \in DOMAIN r.out}

Buffer == [started |-> rx.started, next |-> rx.next, hi |-> rx.hi,
           ring |-> rx.ring, gap |-> rx.gap, out |-> <<>>]

\* Mutant: only new pieces are worth an ack.
NewPieces(m) == rx.started => ~Before(m.seq, rx.next) /\ ~Held(rx.ring, m.seq)
WorthAnAck(m) == TRUE

\* push.
Push(m) ==
  /\ m \in wire
  /\ wire' = wire \ {m}
  /\ news' = (news \/ WorthAnAck(m))
  /\ LET over == ~rx.started \/ Restarted(rx, m)
     IN /\ \E base \in {IF over THEN StartOver(m) ELSE Buffer} :
             IF Before(m.seq, base.next) THEN Settle(base)
             ELSE \E room \in {MakeRoom(base, m.seq)} :
                  \E full \in {Stored(room, m)} :
                  \E r \in {MoveTo(full, RunEnd(full, full.next))} : Settle(r)
        /\ excuse' = IF over /\ StartAt(m) # m.low THEN excuse \cup {"joined"} ELSE excuse
  /\ UNCHANGED <<sendVars, acks, died, restarts>>

Buffered == {i \in Slots : rx.ring[i] # NoPacket}

\* run: the frame after the oldest hole has waited longer than holeDeadline.
GiveUp ==
  /\ GivesUp
  /\ Buffered # {}
  /\ LET first == Plus(rx.next, Min({k \in Slots : Held(rx.ring, Plus(rx.next, k))}))
     IN Settle(MoveTo(Buffer, RunEnd(rx, first)))
  /\ news' = TRUE
  /\ excuse' = excuse \cup {"gaveUp"}
  /\ UNCHANGED <<sendVars, wire, acks, died, restarts>>

\* ackFrame: what is missing between next and hi, no more than Runs runs of it.
AckFrame ==
  LET hi == IF Before(rx.hi, rx.next) THEN Plus(rx.next, -1) ELSE rx.hi
      far == Ahead(Plus(hi, 1), rx.next)
      miss == {k \in 0..(far - 1) : ~Held(rx.ring, Plus(rx.next, k))}
      starts == {k \in miss : k - 1 \notin miss}
      cutAt == IF Cardinality(starts) > Runs
                 THEN Nth(starts, Runs + 1)
                 ELSE far
  IN [cum |-> rx.next, hi |-> Plus(rx.next, cutAt - 1),
      missing |-> {Plus(rx.next, k) : k \in {j \in miss : j < cutAt}}]

\* ackLoop: while something has arrived or a hole is open.
SendAck ==
  /\ rx.started
  /\ news \/ Buffered # {}
  /\ Cardinality(acks) < MaxAcks
  /\ acks' = acks \cup {AckFrame}
  /\ news' = FALSE
  /\ UNCHANGED <<sendVars, wire, rx, asm, inbox, handed, excuse, died, restarts>>

----------------------------------------------------------------------------
(* Failures.                                                                *)

LosePacket(m) ==
  /\ m \in wire
  /\ wire' = wire \ {m}
  /\ UNCHANGED <<sendVars, acks, recvVars, died, restarts>>

LoseAck(a) ==
  /\ a \in acks
  /\ acks' = acks \ {a}
  /\ UNCHANGED <<sendVars, wire, recvVars, died, restarts>>

\* A new sender starts at a random number, far from the receiver's window
\* and from whatever acks are still under way.  The lanes of the old process
\* are gone, with the packets on them.
FarAway(s) ==
  /\ rx.started => Ahead(s, rx.next) \in (3 * Ring)..(Modulus - 3 * Ring)
  /\ \A a \in acks : Ahead(s, a.cum) \in (2 * Ring)..(Modulus - 3 * Ring)

RestartSender ==
  /\ restarts.send < MaxRestarts.send
  /\ restarts' = [restarts EXCEPT !.send = @ + 1]
  /\ \E s \in FirstSeqs :
       /\ FarAway(s)
       /\ seq' = s
       /\ low' = Plus(s, 1)
  /\ queue' = <<>> /\ cur' = NoPiece /\ tx' = NoRing /\ rtxQ' = {} /\ cut' = <<>>
  /\ wire' = {}
  /\ UNCHANGED <<offered, acks, recvVars, died>>

\* The pieces of this run that the receiver has moved past without having
\* handed them up.
Passed ==
  LET behind == Ahead(Plus(seq, 1), rx.next)
  IN IF rx.started /\ behind <= Len(cut)
       THEN {cut[i] : i \in 1..(Len(cut) - behind)} \ handed
       ELSE {}

RestartReceiver ==
  /\ restarts.receive < MaxRestarts.receive
  /\ rx.started
  /\ restarts' = [restarts EXCEPT !.receive = @ + 1]
  /\ died' = died \cup Passed \cup {rx.ring[i].piece : i \in Buffered}
  /\ rx' = [started |-> FALSE, next |-> 0, hi |-> 0, ring |-> NoRing, gap |-> FALSE]
  /\ news' = FALSE /\ asm' = <<>> /\ inbox' = <<>>
  /\ excuse' = excuse \cup {"restarted"}
  /\ UNCHANGED <<sendVars, wire, acks, handed>>

----------------------------------------------------------------------------
Next ==
  \/ Send \/ PullNew \/ GiveUp \/ SendAck \/ RestartSender \/ RestartReceiver
  \/ \E i \in Slots : LET s == tx[i].seq IN
       s # Modulus /\ (PullAgain(s) \/ SpareCopy(s) \/ DetectLoss(s))
  \/ \E m \in wire : Push(m) \/ LosePacket(m)
  \/ \E a \in acks : OnAck(a) \/ LoseAck(a)

Spec == Init /\ [][Next]_vars

\* The loops of both sides keep running; a lane that carries a packet often
\* enough delivers it.  A packet on its slot and Buffered # {} are when Push and
\* GiveUp can happen: WF and SF of the two are written out, with their guards
\* for ENABLED.
OnSlot(m, i) == m.seq % Ring = i

Fairness ==
  /\ WF_vars(PullNew)
  /\ []<>~(GivesUp /\ Buffered # {}) \/ []<><<GiveUp>>_vars
  /\ WF_vars(SendAck)
  /\ \A i \in Slots :
       /\ WF_vars(tx[i] # NoPacket /\ PullAgain(tx[i].seq))
       /\ WF_vars(tx[i] # NoPacket /\ DetectLoss(tx[i].seq))
       /\ \/ <>[](\A m \in wire : ~OnSlot(m, i))
          \/ []<><<\E m \in wire : OnSlot(m, i) /\ Push(m)>>_vars
  /\ SF_vars(\E a \in acks : OnAck(a))

FairSpec == Spec /\ Fairness

----------------------------------------------------------------------------
TypeOK ==
  /\ queue \in Seq(1..MaxFrames) /\ Len(queue) <= QueueLimit
  /\ cur \in Pieces \cup {NoPiece}
  /\ offered \in 0..MaxFrames
  /\ seq \in Seqs /\ low \in Seqs
  /\ tx \in [Slots -> Packet \cup {NoPacket}]
  /\ rtxQ \subseteq {tx[i].seq : i \in Slots} \ {Modulus}
  /\ wire \subseteq Packet
  /\ acks \subseteq Ack
  /\ rx.started \in BOOLEAN /\ rx.next \in Seqs /\ rx.hi \in Seqs
  /\ rx.ring \in [Slots -> Packet \cup {NoPacket}] /\ rx.gap \in BOOLEAN
  /\ news \in BOOLEAN
  /\ handed \subseteq Pieces /\ died \subseteq Pieces
  /\ excuse \subseteq {"joined", "gaveUp", "restarted"}
  /\ \A side \in {"send", "receive"} : restarts[side] \in 0..MaxRestarts[side]

\* The sender has forgotten only what the receiver has: a piece of this run
\* is in flight, buffered, handed up, or the receiver moved past it or died
\* with it.  Nothing is lost between a wrapped ring, an ack from another
\* run, an ack cut short and a restarted receiver (onAck, pull, ackFrame).
NothingForgotten ==
  \A k \in 1..Len(cut) :
    LET s == Plus(seq, k - Len(cut)) IN
    \/ Held(tx, s)
    \/ cut[k] \in handed \cup died \cup Passed
    \/ Held(rx.ring, s)

\* The receiver moves past a piece only when holeDeadline passed, when it
\* joined half a window late or was restarted: the sender never fills more
\* than the window the receiver keeps (RoomInRing against reorderWindow).
WindowHolds == excuse = {} => Passed = {}

\* Whole frames, in the order offered, none twice.
WholeFrame(f) == [p \in 1..Parts[f] |-> <<f, p>>]
FrameOf(b) == IF b = WholeFrame(b[1][1]) THEN b[1][1] ELSE 0
Link == INSTANCE OrderedLink WITH arrived <- [i \in DOMAIN inbox |-> FrameOf(inbox[i])]
KeepsOrder == Link!Spec

\* "Acks are cumulative, so a lost ack costs only the wait for the next one"
\* (StripedTransport): when nothing but an ack can set the sender going again,
\* one is under way or will be sent (ackLoop's conditions against pull's).
NextAckComes ==
  InFlight = Ring /\ tx = NoRing =>
    \/ ~rx.started \/ news \/ Buffered # {}
    \/ acks # {} \/ wire # {}

\* Every frame taken from the queue is sent and acked in the end: nothing is
\* sent again for ever or waits for ever.  A receiver that restarts may leave
\* the sender stuck (NextAckComes), so this is promised to a receiver that
\* does not.
Drains ==
  <>[](\/ restarts.receive > 0
       \/ queue = <<>> /\ cur = NoPiece /\ tx = NoRing)
=============================================================================
