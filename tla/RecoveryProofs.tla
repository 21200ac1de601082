--------------------------- MODULE RecoveryProofs ----------------------------
(***************************************************************************)
(* Proofs about the carriers that get back on their feet (MCRecovery), for *)
(* any bounds: the direct carrier hands each record on once and in order,  *)
(* a Telemost participant is in a call over one socket and its clocks      *)
(* write only while a publisher is up.  Each part has an inductive         *)
(* invariant of its own; a step of one part is a stutter of the others.    *)
(***************************************************************************)
EXTENDS MCRecovery, SequenceLemmas, SequenceTheorems, FiniteSetTheorems, TLAPS

----------------------------------------------------------------------------
(* The direct carrier.                                                     *)

\* One connection at a time is open: the client's, the newest.  The exit is behind.
ConnsInv ==
    /\ clientConn # 0 => clientConn = dials
    /\ \A c \in Dialed : wires[c].open => c = clientConn
    /\ \A c \in Dialed : c > dials => wires[c].pieces = <<>>
    /\ recordWriter.conn <= dials /\ (recordWriter.at \in {"head", "body"} => recordWriter.conn # 0)
    /\ acceptor.conn <= dials
    /\ acceptor.at \in {"publish", "show", "serving"} => acceptor.conn # 0

Held == recordWriter.at # "take"

\* The records wait in the order of Send, behind the one the writer holds.
QueueInv ==
    /\ \A k \in DOMAIN queued : queued[k] <= sentRecords
    /\ \A j, k \in DOMAIN queued : j < k => queued[j] < queued[k]
    /\ Held => /\ recordWriter.record # 0 /\ recordWriter.record <= sentRecords
               /\ \A k \in DOMAIN queued : recordWriter.record < queued[k]

\* Record r was written before what the writer holds and what waits.
Before(r) ==
    /\ r <= sentRecords
    /\ Held => r < recordWriter.record
    /\ \A k \in DOMAIN queued : r < queued[k]

IsBody(c, i) == i \in DOMAIN wires[c].pieces /\ wires[c].pieces[i][2] = "body"
RecordAt(c, i) == wires[c].pieces[i][1]

\* What the exit may read yet: the connection it serves or is about to, and those after it.
Ahead(c) ==
    \/ c > acceptor.conn
    \/ c = acceptor.conn /\ acceptor.at \in {"publish", "show", "serving"}

\* A record whose body is on its way or was handed on is never written again.
PassedInv ==
    /\ \A c \in Dialed : \A i \in Nat : IsBody(c, i) => Before(RecordAt(c, i))
    /\ \A k \in DOMAIN handedOn : Before(handedOn[k])

\* The bodies are in the order of Send, along each connection and from one to the next.
WiresInOrder ==
    \A c, d \in Dialed : \A i, j \in Nat :
        IsBody(c, i) /\ IsBody(d, j) /\ (c < d \/ (c = d /\ i < j)) => RecordAt(c, i) < RecordAt(d, j)

HandedBefore ==
    \A c \in Dialed : Ahead(c) =>
        \A i \in Nat : IsBody(c, i) => \A k \in DOMAIN handedOn : handedOn[k] < RecordAt(c, i)

DirectInv ==
    /\ DirectTypeOK /\ ConnsInv /\ QueueInv
    /\ PassedInv /\ WiresInOrder /\ HandedBefore /\ RecordsInOrder

LEMMA DirectStarts == DirectInit => DirectInv
<1> SUFFICES ASSUME DirectInit PROVE DirectInv
  OBVIOUS
<1> USE DirectAssumption
<1>1. DirectTypeOK
  <2>1. wires \in [Dialed -> [open : BOOLEAN, pieces : Seq(RecordPieces)]]
    BY DEF DirectInit
  <2>2. queued \in Seq(Records) /\ Len(queued) <= QueueRecords /\ handedOn \in Seq(Records)
    BY DEF DirectInit
  <2>3. recordWriter \in [at : {"take", "look", "head", "body"}, record : 0..MaxRecords, conn : 0..MaxDials]
    BY DEF DirectInit
  <2>4. acceptor \in [at : {"top", "listener", "accepting", "publish", "show", "serving", "panicked",
                           "ended"}, conn : 0..MaxDials, head : BOOLEAN]
    BY DEF DirectInit
  <2>5. QED
    BY <2>1, <2>2, <2>3, <2>4 DEF DirectInit, DirectTypeOK
<1>2. ConnsInv
  BY DEF DirectInit, ConnsInv, Dialed
<1>3. QueueInv
  BY DEF DirectInit, QueueInv, Held
<1>4. \A c \in Dialed : \A i \in Nat : ~IsBody(c, i)
  BY DEF DirectInit, IsBody
<1>5. handedOn = <<>>
  BY DEF DirectInit
<1>6. PassedInv /\ WiresInOrder /\ HandedBefore /\ RecordsInOrder
  BY <1>4, <1>5 DEF PassedInv, WiresInOrder, HandedBefore, RecordsInOrder
<1>7. QED
  BY <1>1, <1>2, <1>3, <1>6 DEF DirectInv

LEMMA PieceTyped ==
  ASSUME DirectTypeOK, NEW c \in Dialed, NEW i \in Nat, IsBody(c, i)
  PROVE  RecordAt(c, i) \in Records
<1>1. wires[c].pieces \in Seq(RecordPieces)
  BY DEF DirectTypeOK
<1>2. wires[c].pieces[i] \in RecordPieces
  BY <1>1, Element DEF IsBody
<1>3. QED
  BY <1>2 DEF RecordAt, RecordPieces

\* The bodies on the wires, in a step that adds none: those that stay keep their order.
Shrinks ==
    \A c \in Dialed : \E n \in Nat : \A i \in Nat :
        IsBody(c, i)' => IsBody(c, i + n) /\ RecordAt(c, i)' = RecordAt(c, i + n)

LEMMA OrderStays ==
  ASSUME DirectInv, Shrinks, handedOn' = handedOn,
         \A r \in Nat : Before(r) => Before(r)',
         \A c \in Dialed : Ahead(c)' => Ahead(c)
  PROVE  PassedInv' /\ WiresInOrder' /\ HandedBefore' /\ RecordsInOrder'
<1>1. \A c \in Dialed : \A i \in Nat : IsBody(c, i) => RecordAt(c, i) \in Nat
  <2> SUFFICES ASSUME NEW c \in Dialed, NEW i \in Nat, IsBody(c, i) PROVE RecordAt(c, i) \in Nat
    OBVIOUS
  <2>1. RecordAt(c, i) \in Records
    BY PieceTyped DEF DirectInv
  <2>2. QED
    BY <2>1 DEF Records
<1>2. \A k \in DOMAIN handedOn : handedOn[k] \in Nat
  <2>1. handedOn \in Seq(Records)
    BY DEF DirectInv, DirectTypeOK
  <2>2. \A k \in DOMAIN handedOn : handedOn[k] \in Records
    BY <2>1, Element
  <2>3. QED
    BY <2>2 DEF Records
<1>3. \A c \in Dialed : \A i \in Nat : IsBody(c, i)' =>
        \E j \in Nat : IsBody(c, j) /\ RecordAt(c, i)' = RecordAt(c, j)
  BY DEF Shrinks
<1>4. PassedInv'
  BY <1>1, <1>2, <1>3 DEF DirectInv, PassedInv
<1>5. HandedBefore'
  BY <1>3 DEF DirectInv, HandedBefore
<1>6. WiresInOrder'
  <2> SUFFICES ASSUME NEW c \in Dialed, NEW d \in Dialed, NEW i \in Nat, NEW j \in Nat,
                      IsBody(c, i)', IsBody(d, j)', c < d \/ (c = d /\ i < j)
               PROVE  RecordAt(c, i)' < RecordAt(d, j)'
    BY DEF WiresInOrder
  <2>1. PICK n \in Nat : \A l \in Nat :
          IsBody(c, l)' => IsBody(c, l + n) /\ RecordAt(c, l)' = RecordAt(c, l + n)
    BY DEF Shrinks
  <2>2. PICK m \in Nat : \A l \in Nat :
          IsBody(d, l)' => IsBody(d, l + m) /\ RecordAt(d, l)' = RecordAt(d, l + m)
    BY DEF Shrinks
  <2>3. CASE c < d
    BY <2>1, <2>2, <2>3 DEF DirectInv, WiresInOrder
  <2>4. CASE c = d /\ i < j
    <3>1. IsBody(c, j + n) /\ RecordAt(c, j)' = RecordAt(c, j + n) /\ i + n < j + n
      BY <2>1, <2>4
    <3>2. QED
      BY <2>1, <2>4, <3>1 DEF DirectInv, WiresInOrder
  <2>5. QED
    BY <2>3, <2>4
<1>7. RecordsInOrder'
  BY DEF DirectInv, RecordsInOrder
<1>8. QED
  BY <1>4, <1>5, <1>6, <1>7

\* The steps that leave the bodies where they are.
LEMMA SameWires ==
  ASSUME \A c \in Dialed : wires'[c].pieces = wires[c].pieces
  PROVE  Shrinks
<1>1. \A c \in Dialed : \A i \in Nat :
        IsBody(c, i)' => IsBody(c, i + 0) /\ RecordAt(c, i)' = RecordAt(c, i + 0)
  BY DEF IsBody, RecordAt
<1>2. QED
  BY <1>1 DEF Shrinks

\* What follows from DirectTypeOK, in the form the steps need it.
LEMMA DirectNow ==
  ASSUME DirectInv
  PROVE  /\ dials \in Nat /\ dials <= MaxDials /\ clientConn \in 0..MaxDials /\ MaxDials \in Nat /\ MaxRecords \in Nat
         /\ wires \in [Dialed -> [open : BOOLEAN, pieces : Seq(RecordPieces)]]
         /\ \A c \in Dialed : wires[c].open \in BOOLEAN /\ wires[c].pieces \in Seq(RecordPieces)
         /\ sentRecords \in 0..MaxRecords /\ queued \in Seq(Records) /\ Len(queued) <= QueueRecords
         /\ recordWriter.at \in {"take", "look", "head", "body"} /\ recordWriter.record \in 0..MaxRecords
         /\ recordWriter.conn \in 0..MaxDials
         /\ acceptor.conn \in 0..MaxDials /\ handedOn \in Seq(Records)
         /\ ConnsInv /\ QueueInv /\ PassedInv /\ WiresInOrder /\ HandedBefore /\ RecordsInOrder
  BY DirectAssumption DEF DirectInv, DirectTypeOK

LEMMA DialsKeep == ASSUME DirectInv, DialExit PROVE DirectInv'
<1>1. /\ UNCHANGED <<sentRecords, queued, recordWriter, exitConn, exitUp, acceptor, exitStop, handedOn>>
      /\ dials' = dials + 1 /\ clientConn' = dials + 1 /\ clientConn = 0 /\ dials < MaxDials
      /\ wires' = [wires EXCEPT ![dials + 1].open = TRUE] /\ dials + 1 \in Dialed
  BY DirectNow DEF DialExit, writing, accepting, Dialed
<1>2. /\ wires' \in [Dialed -> [open : BOOLEAN, pieces : Seq(RecordPieces)]]
      /\ \A c \in Dialed : wires'[c].pieces = wires[c].pieces /\ (wires'[c].open => wires[c].open \/ c = dials + 1)
  BY <1>1, DirectNow
<1>3. dials' \in 0..MaxDials /\ clientConn' \in 0..MaxDials
  BY <1>1, DirectNow
<1>4. DirectTypeOK'
  BY <1>1, <1>2, <1>3 DEF DirectInv, DirectTypeOK
<1>5. ConnsInv'
  BY SMTT(40), <1>1, <1>2, DirectNow DEF ConnsInv, Dialed
<1>6. QueueInv'
  BY <1>1, DirectNow DEF QueueInv, Held
<1>7. PassedInv' /\ WiresInOrder' /\ HandedBefore' /\ RecordsInOrder'
  BY <1>1, <1>2, SameWires, OrderStays DEF Before, Held, Ahead
<1>8. QED
  BY <1>4, <1>5, <1>6, <1>7 DEF DirectInv

LEMMA DropsKeep == ASSUME DirectInv, ClientDrops PROVE DirectInv'
<1>1. /\ UNCHANGED <<dials, wires, sentRecords, queued, recordWriter, exitConn, exitUp, acceptor, exitStop, handedOn>>
      /\ clientConn' = 0 /\ clientConn # 0 /\ ~wires[clientConn].open
  BY DEF ClientDrops, writing, accepting
<1>2. DirectTypeOK'
  BY <1>1, DirectNow DEF DirectInv, DirectTypeOK
<1>3. ConnsInv'
  BY <1>1, DirectNow DEF ConnsInv
<1>4. QueueInv'
  BY <1>1, DirectNow DEF QueueInv, Held
<1>5. PassedInv' /\ WiresInOrder' /\ HandedBefore' /\ RecordsInOrder'
  BY <1>1, SameWires, OrderStays DEF Before, Held, Ahead
<1>6. QED
  BY <1>2, <1>3, <1>4, <1>5 DEF DirectInv

LEMMA BreaksKeep == ASSUME DirectInv, NEW c \in Dialed, ConnBreaks(c) PROVE DirectInv'
<1>1. /\ UNCHANGED <<dials, clientConn, sentRecords, queued, recordWriter, exitConn, exitUp, acceptor, exitStop, handedOn>>
      /\ \E n \in 0..Len(wires[c].pieces) :
           wires' = [wires EXCEPT ![c] = [open |-> FALSE, pieces |-> SubSeq(wires[c].pieces, 1, n)]]
  BY DEF ConnBreaks, writing, accepting, dialing
<1>2. PICK n \in 0..Len(wires[c].pieces) :
           wires' = [wires EXCEPT ![c] = [open |-> FALSE, pieces |-> SubSeq(wires[c].pieces, 1, n)]]
  BY <1>1
<1> DEFINE left == SubSeq(wires[c].pieces, 1, n)
<1>3. /\ left \in Seq(RecordPieces) /\ (wires[c].pieces = <<>> => left = <<>>)
      /\ \A i \in DOMAIN left : i \in DOMAIN wires[c].pieces /\ left[i] = wires[c].pieces[i]
  BY DirectNow
<1>4. wires' = [wires EXCEPT ![c] = [open |-> FALSE, pieces |-> left]]
  BY <1>2
<1> HIDE DEF left
<1>5. /\ wires' \in [Dialed -> [open : BOOLEAN, pieces : Seq(RecordPieces)]]
      /\ \A d \in Dialed : (d # c => wires'[d] = wires[d]) /\ (wires'[d].open => wires[d].open)
      /\ wires'[c].pieces = left
  BY <1>3, <1>4, DirectNow
<1>6. Shrinks
  <2>1. \A d \in Dialed : \A i \in Nat :
          IsBody(d, i)' => IsBody(d, i + 0) /\ RecordAt(d, i)' = RecordAt(d, i + 0)
    BY <1>3, <1>5 DEF IsBody, RecordAt
  <2>2. QED
    BY <2>1 DEF Shrinks
<1>7. DirectTypeOK'
  BY <1>1, <1>5, DirectNow DEF DirectInv, DirectTypeOK
<1>8. ConnsInv'
  BY <1>1, <1>3, <1>5, DirectNow DEF ConnsInv
<1>9. QueueInv'
  BY <1>1, DirectNow DEF QueueInv, Held
<1>10. PassedInv' /\ WiresInOrder' /\ HandedBefore' /\ RecordsInOrder'
  BY <1>1, <1>6, OrderStays DEF Before, Held, Ahead
<1>11. QED
  BY <1>7, <1>8, <1>9, <1>10 DEF DirectInv

\* A record that is given to Send is behind all that was before.
LEMMA SendingKeeps == ASSUME DirectInv, SendRecord PROVE DirectInv'
<1>1. /\ UNCHANGED <<dials, clientConn, wires, recordWriter, exitConn, exitUp, acceptor, exitStop, handedOn>>
      /\ sentRecords' = sentRecords + 1 /\ sentRecords < MaxRecords
      /\ queued' = IF Len(queued) < QueueRecords THEN Append(queued, sentRecords + 1) ELSE queued
  BY DEF SendRecord, dialing, accepting
<1>2. sentRecords + 1 \in Records /\ sentRecords + 1 \in 0..MaxRecords
  BY <1>1, DirectNow DEF Records
<1>3. queued' \in Seq(Records) /\ Len(queued') <= QueueRecords
  BY <1>1, <1>2, DirectNow, DirectAssumption
<1>4. \A k \in DOMAIN queued' : \/ k \in DOMAIN queued /\ queued'[k] = queued[k]
                                \/ k = Len(queued) + 1 /\ queued'[k] = sentRecords + 1
  BY <1>1, DirectNow
<1>5. \A k \in DOMAIN queued : queued[k] \in Nat
  BY DirectNow, Element DEF Records
<1>6. DirectTypeOK'
  BY <1>1, <1>2, <1>3, DirectNow DEF DirectInv, DirectTypeOK
<1>7. ConnsInv'
  BY <1>1, DirectNow DEF ConnsInv
<1>8. QueueInv'
  BY SMTT(40), <1>1, <1>4, <1>5, DirectNow DEF QueueInv, Held
<1>9. \A r \in Nat : Before(r) => Before(r)'
  BY SMTT(40), <1>1, <1>4, DirectNow DEF Before, Held
<1>10. PassedInv' /\ WiresInOrder' /\ HandedBefore' /\ RecordsInOrder'
  BY <1>1, <1>9, SameWires, OrderStays DEF Ahead
<1>11. QED
  BY <1>6, <1>7, <1>8, <1>10 DEF DirectInv

LEMMA TakesKeep == ASSUME DirectInv, WriterTakes PROVE DirectInv'
<1>1. /\ UNCHANGED <<dials, clientConn, wires, sentRecords, exitConn, exitUp, acceptor, exitStop, handedOn>>
      /\ queued # <<>> /\ queued' = Tail(queued)
      /\ recordWriter' = [at |-> "look", record |-> Head(queued), conn |-> 0]
  BY DEF WriterTakes, dialing, accepting
<1>2. queued \in Seq(Records) /\ Len(queued) <= QueueRecords /\ QueueRecords \in Nat
  BY DirectNow, DirectAssumption
<1>3. /\ Head(queued) = queued[1] /\ Head(queued) \in Records /\ 1 \in DOMAIN queued
      /\ queued' \in Seq(Records) /\ Len(queued') <= QueueRecords
      /\ \A k \in DOMAIN queued' : k + 1 \in DOMAIN queued /\ queued'[k] = queued[k+1] /\ k \in Nat /\ 1 < k + 1
  BY <1>1, <1>2
<1>4. Head(queued) \in 0..MaxRecords /\ Head(queued) # 0
  BY <1>3, DirectNow DEF Records
<1>5. recordWriter' \in [at : {"take", "look", "head", "body"}, record : 0..MaxRecords, conn : 0..MaxDials]
  BY <1>1, <1>4, DirectNow
<1>6. DirectTypeOK'
  BY <1>1, <1>3, <1>5, DirectNow DEF DirectInv, DirectTypeOK
<1>7. ConnsInv'
  BY <1>1, DirectNow DEF ConnsInv
<1>8. QueueInv'
  <2>1. \A k \in DOMAIN queued' : queued'[k] <= sentRecords'
    BY <1>1, <1>3, DirectNow DEF QueueInv
  <2>2. \A j, k \in DOMAIN queued' : j < k => queued'[j] < queued'[k]
    BY SMTT(40), <1>3, DirectNow DEF QueueInv
  <2>3. recordWriter'.record = Head(queued)
    BY <1>1
  <2>4. Head(queued) <= sentRecords' /\ \A k \in DOMAIN queued' : Head(queued) < queued'[k]
    BY <1>1, <1>3, DirectNow DEF QueueInv
  <2>5. QED
    BY <1>4, <2>1, <2>2, <2>3, <2>4 DEF QueueInv
<1>9. \A r \in Nat : Before(r) => Before(r)'
  BY <1>1, <1>3 DEF Before, Held
<1>10. PassedInv' /\ WiresInOrder' /\ HandedBefore' /\ RecordsInOrder'
  BY <1>1, <1>9, SameWires, OrderStays DEF Ahead
<1>11. QED
  BY <1>6, <1>7, <1>8, <1>10 DEF DirectInv

\* The writer that goes on with the record it holds, at another place or connection.
LEMMA WriterMoves ==
  ASSUME DirectInv, Held,
         UNCHANGED <<dials, clientConn, sentRecords, queued, exitConn, exitUp, acceptor, exitStop, handedOn>>,
         NEW at \in {"look", "head", "body"}, NEW conn \in 0..MaxDials, conn <= dials, at # "look" => conn # 0,
         recordWriter' = [recordWriter EXCEPT !.at = at, !.conn = conn]
  PROVE  /\ QueueInv'
         /\ recordWriter' \in [at : {"take", "look", "head", "body"}, record : 0..MaxRecords, conn : 0..MaxDials]
         /\ recordWriter'.conn = conn /\ recordWriter'.at = at
         /\ \A r \in Nat : Before(r) => Before(r)'
         /\ \A c \in Dialed : Ahead(c)' => Ahead(c)
<1>1. recordWriter \in [at : {"take", "look", "head", "body"}, record : 0..MaxRecords, conn : 0..MaxDials]
  BY DEF DirectInv, DirectTypeOK
<1>2. /\ recordWriter' \in [at : {"take", "look", "head", "body"}, record : 0..MaxRecords, conn : 0..MaxDials]
      /\ recordWriter'.conn = conn /\ recordWriter'.at = at /\ recordWriter'.record = recordWriter.record
  BY <1>1
<1>3. QueueInv'
  BY <1>2, DirectNow DEF QueueInv, Held
<1>4. \A r \in Nat : Before(r) => Before(r)'
  BY <1>2 DEF Before, Held
<1>5. QED
  BY <1>2, <1>3, <1>4 DEF Ahead

LEMMA LooksKeep == ASSUME DirectInv, WriterLooks \/ RecordWriteFails PROVE DirectInv'
<1>1. UNCHANGED <<dials, clientConn, wires, sentRecords, queued, exitConn, exitUp, acceptor, exitStop, handedOn>>
  BY DEF WriterLooks, RecordWriteFails, dialing, accepting
<1>2. \E at \in {"look", "head"}, conn \in 0..MaxDials :
        /\ conn <= dials /\ (at # "look" => conn # 0)
        /\ recordWriter' = [recordWriter EXCEPT !.at = at, !.conn = conn]
  <2>1. CASE WriterLooks
    <3>1. clientConn # 0 /\ recordWriter' = [recordWriter EXCEPT !.at = "head", !.conn = clientConn]
      BY <2>1 DEF WriterLooks
    <3>2. clientConn \in 0..MaxDials /\ clientConn <= dials
      BY <3>1, DirectNow DEF ConnsInv
    <3>3. QED
      BY <3>1, <3>2
  <2>2. CASE RecordWriteFails
    <3>1. recordWriter' = [recordWriter EXCEPT !.at = "look", !.conn = 0] /\ 0 \in 0..MaxDials /\ 0 <= dials
      BY <2>2, DirectNow DEF RecordWriteFails
    <3>2. QED
      BY <3>1
  <2>3. QED
    BY <2>1, <2>2
<1>3. PICK at \in {"look", "head"}, conn \in 0..MaxDials :
        /\ conn <= dials /\ (at # "look" => conn # 0)
        /\ recordWriter' = [recordWriter EXCEPT !.at = at, !.conn = conn]
  BY <1>2
<1>4. Held
  BY DEF WriterLooks, RecordWriteFails, Held
<1>5. /\ QueueInv'
      /\ recordWriter' \in [at : {"take", "look", "head", "body"}, record : 0..MaxRecords, conn : 0..MaxDials]
      /\ recordWriter'.conn = conn /\ recordWriter'.at = at
      /\ \A r \in Nat : Before(r) => Before(r)'
      /\ \A c \in Dialed : Ahead(c)' => Ahead(c)
  BY <1>1, <1>3, <1>4, WriterMoves
<1>6. DirectTypeOK'
  BY <1>1, <1>5, DirectNow DEF DirectInv, DirectTypeOK
<1>7. ConnsInv'
  BY <1>1, <1>3, <1>5, DirectNow DEF ConnsInv
<1>8. PassedInv' /\ WiresInOrder' /\ HandedBefore' /\ RecordsInOrder'
  BY <1>1, <1>5, SameWires, OrderStays
<1>9. QED
  BY <1>5, <1>6, <1>7, <1>8 DEF DirectInv

\* A piece goes to the newest connection, behind all that was written.
LEMMA Writes ==
  ASSUME DirectInv, NEW what \in {"head", "body"}, recordWriter.at \in {"head", "body"},
         wires[recordWriter.conn].open, Written(what)
  PROVE  /\ recordWriter.conn \in Dialed /\ recordWriter.conn = dials /\ recordWriter.conn = clientConn
         /\ wires' \in [Dialed -> [open : BOOLEAN, pieces : Seq(RecordPieces)]]
         /\ wires'[recordWriter.conn].pieces = Append(wires[recordWriter.conn].pieces, <<recordWriter.record, what>>)
         /\ \A c \in Dialed : (c # recordWriter.conn => wires'[c] = wires[c]) /\ wires'[c].open = wires[c].open
<1>1. recordWriter.conn \in Dialed
  BY DirectNow DEF ConnsInv, Dialed
<1>2. recordWriter.conn = clientConn /\ clientConn = dials
  BY <1>1, DirectNow DEF ConnsInv, Dialed
<1>3. <<recordWriter.record, what>> \in RecordPieces
  BY DirectNow DEF QueueInv, Held, RecordPieces, Records
<1> DEFINE piece == <<recordWriter.record, what>>
<1>4. wires' = [wires EXCEPT ![recordWriter.conn].pieces = Append(@, piece)] /\ piece \in RecordPieces
  BY <1>3 DEF Written
<1> HIDE DEF piece
<1>5. Append(wires[recordWriter.conn].pieces, piece) \in Seq(RecordPieces)
  BY <1>1, <1>4, DirectNow
<1>6. /\ wires' \in [Dialed -> [open : BOOLEAN, pieces : Seq(RecordPieces)]]
      /\ wires'[recordWriter.conn].pieces = Append(wires[recordWriter.conn].pieces, piece)
      /\ \A c \in Dialed : (c # recordWriter.conn => wires'[c] = wires[c]) /\ wires'[c].open = wires[c].open
  BY <1>1, <1>4, <1>5, DirectNow
<1>7. QED
  BY <1>1, <1>2, <1>6 DEF piece

LEMMA HeadKeeps == ASSUME DirectInv, WriteHead PROVE DirectInv'
<1> DEFINE conn == recordWriter.conn
           head == <<recordWriter.record, "head">>
<1>1. /\ UNCHANGED <<dials, clientConn, sentRecords, queued, exitConn, exitUp, acceptor, exitStop, handedOn>>
      /\ recordWriter.at = "head" /\ wires[conn].open /\ Written("head")
      /\ recordWriter' = [recordWriter EXCEPT !.at = "body"]
  BY DEF WriteHead, dialing, accepting
<1>2. /\ conn \in Dialed /\ conn = dials /\ conn = clientConn
      /\ wires' \in [Dialed -> [open : BOOLEAN, pieces : Seq(RecordPieces)]]
      /\ wires'[conn].pieces = Append(wires[conn].pieces, head)
      /\ \A c \in Dialed : (c # conn => wires'[c] = wires[c]) /\ wires'[c].open = wires[c].open
  BY <1>1, Writes
<1>3. recordWriter' = [recordWriter EXCEPT !.at = "body", !.conn = conn]
  BY <1>1 DEF DirectInv, DirectTypeOK
<1>4. conn \in 0..MaxDials /\ conn <= dials /\ conn # 0 /\ Held
  BY <1>1, <1>2, DirectNow DEF Held, Dialed
<1>5. /\ QueueInv'
      /\ recordWriter' \in [at : {"take", "look", "head", "body"}, record : 0..MaxRecords, conn : 0..MaxDials]
      /\ recordWriter'.conn = conn /\ recordWriter'.at = "body"
      /\ \A r \in Nat : Before(r) => Before(r)'
      /\ \A c \in Dialed : Ahead(c)' => Ahead(c)
  BY <1>1, <1>3, <1>4, WriterMoves
<1>6. head[2] = "head"
  OBVIOUS
<1> HIDE DEF head
<1>7. Shrinks
  <2>1. wires[conn].pieces \in Seq(RecordPieces)
    BY <1>2, DirectNow
  <2>2. \A i \in DOMAIN Append(wires[conn].pieces, head) :
          \/ i \in DOMAIN wires[conn].pieces /\ Append(wires[conn].pieces, head)[i] = wires[conn].pieces[i]
          \/ Append(wires[conn].pieces, head)[i] = head
    BY <2>1
  <2>3. \A c \in Dialed : \A i \in Nat :
          IsBody(c, i)' => IsBody(c, i) /\ RecordAt(c, i)' = RecordAt(c, i)
    <3> SUFFICES ASSUME NEW c \in Dialed, NEW i \in Nat, IsBody(c, i)'
                 PROVE  IsBody(c, i) /\ RecordAt(c, i)' = RecordAt(c, i)
      OBVIOUS
    <3>1. CASE c # conn
      BY <1>2, <3>1 DEF IsBody, RecordAt
    <3>2. CASE c = conn
      BY <1>2, <1>6, <2>2, <3>2 DEF IsBody, RecordAt
    <3>3. QED
      BY <3>1, <3>2
  <2>4. \A c \in Dialed : \A i \in Nat :
          IsBody(c, i)' => IsBody(c, i + 0) /\ RecordAt(c, i)' = RecordAt(c, i + 0)
    BY <2>3
  <2>5. QED
    BY <2>4 DEF Shrinks
<1> HIDE DEF conn
<1>8. DirectTypeOK'
  BY <1>1, <1>2, <1>5, DirectNow DEF DirectInv, DirectTypeOK
<1>9. ConnsInv'
  <2>1. \A c \in Dialed : (c > dials => wires'[c] = wires[c])
    BY <1>2, DirectNow DEF Dialed
  <2>2. /\ \A c \in Dialed : wires'[c].open => c = clientConn'
        /\ \A c \in Dialed : c > dials' => wires'[c].pieces = <<>>
    BY <1>1, <1>2, <2>1, DirectNow DEF ConnsInv
  <2>3. QED
    BY <1>1, <1>4, <1>5, <2>2, DirectNow DEF ConnsInv
<1>10. PassedInv' /\ WiresInOrder' /\ HandedBefore' /\ RecordsInOrder'
  BY <1>1, <1>5, <1>7, OrderStays
<1>11. QED
  BY <1>5, <1>8, <1>9, <1>10 DEF DirectInv

\* The body of the record that is held comes last on the wires and before what waits.
LEMMA BodyKeeps == ASSUME DirectInv, WriteBody PROVE DirectInv'
<1> DEFINE conn == recordWriter.conn
           record == recordWriter.record
           body == <<record, "body">>
           last == Len(wires[conn].pieces) + 1
<1>1. /\ UNCHANGED <<dials, clientConn, sentRecords, queued, exitConn, exitUp, acceptor, exitStop, handedOn>>
      /\ recordWriter.at = "body" /\ wires[conn].open /\ Written("body")
      /\ recordWriter' = [at |-> "take", record |-> 0, conn |-> 0]
  BY DEF WriteBody, dialing, accepting, WriterKeeps, AfterBody
<1>2. /\ conn \in Dialed /\ conn = dials /\ conn = clientConn
      /\ wires' \in [Dialed -> [open : BOOLEAN, pieces : Seq(RecordPieces)]]
      /\ wires'[conn].pieces = Append(wires[conn].pieces, body)
      /\ \A c \in Dialed : (c # conn => wires'[c] = wires[c]) /\ wires'[c].open = wires[c].open
  BY <1>1, Writes
<1>3. Held /\ record \in Nat /\ record <= sentRecords /\ \A k \in DOMAIN queued : record < queued[k]
  BY <1>1, DirectNow DEF Held, QueueInv
<1>4. body[1] = record /\ wires[conn].pieces \in Seq(RecordPieces)
  BY <1>2, DirectNow
<1> HIDE DEF body
<1>5. /\ \A i \in DOMAIN Append(wires[conn].pieces, body) :
          \/ i \in DOMAIN wires[conn].pieces /\ Append(wires[conn].pieces, body)[i] = wires[conn].pieces[i]
          \/ i = last /\ Append(wires[conn].pieces, body)[i] = body
      /\ \A i \in DOMAIN wires[conn].pieces : i < last /\ i \in Nat
  BY <1>4
<1> HIDE DEF last, record
<1>6. ASSUME NEW c \in Dialed, NEW i \in Nat, IsBody(c, i)'
      PROVE  \/ IsBody(c, i) /\ RecordAt(c, i)' = RecordAt(c, i)
             \/ c = conn /\ i = last /\ RecordAt(c, i)' = record
  <2>1. CASE c # conn
    BY <1>2, <1>6, <2>1 DEF IsBody, RecordAt
  <2>2. CASE c = conn
    BY <1>2, <1>4, <1>5, <1>6, <2>2 DEF IsBody, RecordAt
  <2>3. QED
    BY <2>1, <2>2
<1>7. ASSUME NEW c \in Dialed, NEW i \in Nat, IsBody(c, i)
      PROVE  RecordAt(c, i) \in Nat /\ RecordAt(c, i) < record /\ c <= conn
  <2>1. RecordAt(c, i) \in Nat
    <3>1. RecordAt(c, i) \in Records
      BY <1>7, PieceTyped DEF DirectInv
    <3>2. QED
      BY <3>1 DEF Records
  <2>2. Before(RecordAt(c, i))
    BY <1>7, DirectNow DEF PassedInv
  <2>3. ~(c > dials)
    BY <1>7, DirectNow DEF ConnsInv, IsBody
  <2>4. QED
    BY <1>2, <1>3, <2>1, <2>2, <2>3, DirectNow DEF Before, record, Dialed
<1>8. \A k \in DOMAIN handedOn : handedOn[k] < record
  BY <1>3, DirectNow DEF PassedInv, Before, record
<1>9. /\ \A r \in Nat : r = record => Before(r)'
      /\ \A r \in Nat : Before(r) => Before(r)'
  BY <1>1, <1>3 DEF Before, Held
<1>10. \A k \in DOMAIN handedOn : handedOn[k] \in Nat
  <2>1. \A k \in DOMAIN handedOn : handedOn[k] \in Records
    BY DirectNow, Element
  <2>2. QED
    BY <2>1 DEF Records
<1>11. PassedInv'
  <2>1. ASSUME NEW c \in Dialed, NEW i \in Nat, IsBody(c, i)' PROVE Before(RecordAt(c, i))'
    <3> DEFINE r == RecordAt(c, i)'
    <3>1. CASE IsBody(c, i) /\ r = RecordAt(c, i)
      BY <1>7, <1>9, <3>1, DirectNow DEF PassedInv
    <3>2. CASE r = record
      BY <1>3, <1>9, <3>2
    <3>3. QED
      BY <1>6, <2>1, <3>1, <3>2
  <2>2. \A k \in DOMAIN handedOn' : Before(handedOn[k])'
    BY <1>1, <1>9, <1>10, DirectNow DEF PassedInv
  <2>3. QED
    BY <2>1, <2>2 DEF PassedInv
<1>12. WiresInOrder'
  <2> SUFFICES ASSUME NEW c \in Dialed, NEW d \in Dialed, NEW i \in Nat, NEW j \in Nat,
                      IsBody(c, i)', IsBody(d, j)', c < d \/ (c = d /\ i < j)
               PROVE  RecordAt(c, i)' < RecordAt(d, j)'
    BY DEF WiresInOrder
  <2>1. CASE IsBody(c, i) /\ RecordAt(c, i)' = RecordAt(c, i)
    <3>1. CASE IsBody(d, j) /\ RecordAt(d, j)' = RecordAt(d, j)
      BY <2>1, <3>1, DirectNow DEF WiresInOrder
    <3>2. CASE RecordAt(d, j)' = record
      BY <1>7, <2>1, <3>2
    <3>3. QED
      BY <1>6, <3>1, <3>2
  <2>2. CASE c = conn /\ i = last /\ RecordAt(c, i)' = record
    <3>1. CASE IsBody(d, j)
      <4>1. d <= conn /\ (d = conn => j < last)
        BY <1>5, <1>7, <3>1 DEF IsBody
      <4>2. last \in Nat
        BY <1>4 DEF last
      <4>3. QED
        BY <1>2, <2>2, <4>1, <4>2, DirectNow DEF Dialed
    <3>2. CASE d = conn /\ j = last
      BY <1>2, <2>2, <3>2, DirectNow DEF Dialed
    <3>3. QED
      BY <1>6, <3>1, <3>2
  <2>3. QED
    BY <1>6, <2>1, <2>2
<1>13. HandedBefore'
  <2> SUFFICES ASSUME NEW c \in Dialed, Ahead(c)', NEW i \in Nat, IsBody(c, i)', NEW k \in DOMAIN handedOn'
               PROVE  handedOn'[k] < RecordAt(c, i)'
    BY DEF HandedBefore
  <2>1. k \in DOMAIN handedOn /\ handedOn'[k] = handedOn[k] /\ Ahead(c)
    BY <1>1 DEF Ahead
  <2>2. CASE IsBody(c, i) /\ RecordAt(c, i)' = RecordAt(c, i)
    BY <2>1, <2>2, DirectNow DEF HandedBefore
  <2>3. CASE RecordAt(c, i)' = record
    BY <1>8, <2>1, <2>3
  <2>4. QED
    BY <1>6, <2>2, <2>3
<1>14. RecordsInOrder'
  BY <1>1, DirectNow DEF RecordsInOrder
<1>15. DirectTypeOK'
  <2>1. recordWriter' \in [at : {"take", "look", "head", "body"}, record : 0..MaxRecords, conn : 0..MaxDials]
    BY <1>1, DirectNow
  <2>2. QED
    BY <1>1, <1>2, <2>1, DirectNow DEF DirectInv, DirectTypeOK
<1>16. QueueInv'
  BY <1>1, DirectNow DEF QueueInv, Held
<1>17. ConnsInv'
  <2>1. \A c \in Dialed : (c > dials => wires'[c] = wires[c])
    BY <1>2, DirectNow DEF Dialed
  <2>2. /\ \A c \in Dialed : wires'[c].open => c = clientConn'
        /\ \A c \in Dialed : c > dials' => wires'[c].pieces = <<>>
    BY <1>1, <1>2, <2>1, DirectNow DEF ConnsInv
  <2>3. QED
    BY <1>1, <2>2, DirectNow DEF ConnsInv
<1>18. QED
  BY <1>11, <1>12, <1>13, <1>14, <1>15, <1>16, <1>17 DEF DirectInv

\* The accept loop where it serves nobody, and the steps that only make a connection the next
\* one to serve.
LEMMA AcceptorMoves ==
  ASSUME DirectInv,
         UNCHANGED <<dials, clientConn, wires, sentRecords, queued, recordWriter, exitStop, handedOn>>,
         NEW at \in {"top", "listener", "accepting", "publish", "show", "serving", "panicked", "ended"},
         NEW conn \in 0..MaxDials, NEW head \in BOOLEAN, conn <= dials,
         acceptor' = [at |-> at, conn |-> conn, head |-> head],
         exitConn' \in 0..MaxDials, exitUp' \in BOOLEAN,
         at \in {"publish", "show", "serving"} => conn # 0,
         \A c \in Dialed : Ahead(c)' => Ahead(c)
  PROVE  DirectInv'
<1>1. acceptor' \in [at : {"top", "listener", "accepting", "publish", "show", "serving", "panicked",
                           "ended"}, conn : 0..MaxDials, head : BOOLEAN]
  OBVIOUS
<1>2. acceptor'.at = at /\ acceptor'.conn = conn
  OBVIOUS
<1>3. DirectTypeOK'
  BY <1>1, DirectNow DEF DirectInv, DirectTypeOK
<1>4. ConnsInv'
  BY <1>2, DirectNow DEF ConnsInv
<1>5. QueueInv'
  BY DirectNow DEF QueueInv, Held
<1>6. PassedInv' /\ WiresInOrder' /\ HandedBefore' /\ RecordsInOrder'
  BY SameWires, OrderStays DEF Before, Held
<1>7. QED
  BY <1>3, <1>4, <1>5, <1>6 DEF DirectInv

\* The record of acceptor, taken apart.
LEMMA AcceptorIs ==
  ASSUME DirectInv
  PROVE  /\ acceptor = [at |-> acceptor.at, conn |-> acceptor.conn, head |-> acceptor.head]
         /\ acceptor.at \in {"top", "listener", "accepting", "publish", "show", "serving", "panicked", "ended"}
         /\ acceptor.conn \in 0..MaxDials /\ acceptor.head \in BOOLEAN
         /\ exitConn \in 0..MaxDials /\ exitUp \in BOOLEAN /\ acceptor.conn <= dials
         /\ (acceptor.at \in {"publish", "show", "serving"} => acceptor.conn # 0)
  BY DEF DirectInv, DirectTypeOK, ConnsInv

LEMMA LoopKeeps ==
  ASSUME DirectInv, CheckDone \/ ReadListener \/ AcceptConn \/ AcceptFails \/ PublishConn
  PROVE  DirectInv'
<1>1. UNCHANGED <<dials, clientConn, wires, sentRecords, queued, recordWriter, exitUp, exitStop, handedOn>>
  BY DEF CheckDone, ReadListener, AcceptConn, AcceptFails, PublishConn, dialing, writing
<1>2. CASE CheckDone \/ ReadListener \/ AcceptFails
  <2>1. acceptor.at \in {"top", "listener", "accepting"} /\ exitConn' = exitConn
    BY <1>2 DEF CheckDone, ReadListener, AcceptFails
  <2>2. \E at \in {"listener", "accepting", "panicked", "ended"} : acceptor' = [acceptor EXCEPT !.at = at]
    BY <1>2 DEF CheckDone, ReadListener, AcceptFails
  <2>3. PICK at \in {"listener", "accepting", "panicked", "ended"} : acceptor' = [acceptor EXCEPT !.at = at]
    BY <2>2
  <2>4. acceptor' = [at |-> at, conn |-> acceptor.conn, head |-> acceptor.head]
    BY <2>3, AcceptorIs
  <2>5. \A c \in Dialed : Ahead(c)' => Ahead(c)
    BY <2>4 DEF Ahead
  <2>6. QED
    BY <1>1, <2>1, <2>4, <2>5, AcceptorIs, AcceptorMoves
<1>3. CASE AcceptConn
  <2>1. /\ acceptor' = [acceptor EXCEPT !.at = "publish", !.conn = @ + 1]
        /\ acceptor.conn < dials /\ exitConn' = exitConn
    BY <1>3 DEF AcceptConn
  <2>2. acceptor' = [at |-> "publish", conn |-> acceptor.conn + 1, head |-> acceptor.head]
    BY <2>1, AcceptorIs
  <2>3. acceptor.conn + 1 \in 0..MaxDials /\ acceptor.conn + 1 <= dials /\ acceptor.conn + 1 # 0
    BY SMTT(40), <2>1, DirectNow
  <2>4. \A c \in Dialed : Ahead(c)' => Ahead(c)
    BY <2>2, DirectNow DEF Ahead, Dialed
  <2>5. QED
    BY <1>1, <2>1, <2>2, <2>3, <2>4, AcceptorIs, AcceptorMoves
<1>4. CASE PublishConn
  <2>1. /\ acceptor' = [acceptor EXCEPT !.at = "show"] /\ acceptor.at = "publish"
        /\ exitConn' = acceptor.conn
    BY <1>4 DEF PublishConn
  <2>2. acceptor' = [at |-> "show", conn |-> acceptor.conn, head |-> acceptor.head]
    BY <2>1, AcceptorIs
  <2>3. \A c \in Dialed : Ahead(c)' => Ahead(c)
    BY <2>1, <2>2 DEF Ahead
  <2>4. QED
    BY <1>1, <2>1, <2>2, <2>3, AcceptorIs, AcceptorMoves
<1>5. QED
  BY <1>2, <1>3, <1>4

\* The exit gives up the connection it was to serve, or serves, with nothing more handed on.
LEMMA LeavesKeep ==
  ASSUME DirectInv, acceptor.at \in {"show", "serving"}, ServeLeaves,
         UNCHANGED <<dials, clientConn, sentRecords, queued, recordWriter, exitStop>>
  PROVE  /\ DirectTypeOK' <=> handedOn' \in Seq(Records)
         /\ ConnsInv' /\ QueueInv' /\ Shrinks
         /\ \A c \in Dialed : Ahead(c)' => c > acceptor.conn
         /\ \A c \in Dialed : wires'[c].pieces = wires[c].pieces
<1>1. /\ acceptor' = [at |-> "top", conn |-> acceptor.conn, head |-> FALSE]
      /\ exitConn' \in 0..MaxDials /\ exitUp' = FALSE
      /\ wires' = [wires EXCEPT ![acceptor.conn].open = FALSE]
  <2>1. /\ acceptor' = [acceptor EXCEPT !.at = "top", !.head = FALSE] /\ exitConn' \in {exitConn, 0}
        /\ exitUp' = FALSE /\ wires' = [wires EXCEPT ![acceptor.conn].open = FALSE]
    BY DEF ServeLeaves, Shut
  <2>2. acceptor' = [at |-> "top", conn |-> acceptor.conn, head |-> FALSE]
    BY <2>1, AcceptorIs
  <2>3. exitConn' \in 0..MaxDials
    BY <2>1, AcceptorIs, DirectNow
  <2>4. QED
    BY <2>1, <2>2, <2>3
<1>2. acceptor.conn \in Dialed
  BY AcceptorIs DEF Dialed
<1>3. /\ wires' \in [Dialed -> [open : BOOLEAN, pieces : Seq(RecordPieces)]]
      /\ \A c \in Dialed : wires'[c].pieces = wires[c].pieces /\ (wires'[c].open => wires[c].open)
  BY <1>1, <1>2, DirectNow
<1>4. acceptor' \in [at : {"top", "listener", "accepting", "publish", "show", "serving", "panicked",
                           "ended"}, conn : 0..MaxDials, head : BOOLEAN]
  BY <1>1, AcceptorIs
<1>5. DirectTypeOK' <=> handedOn' \in Seq(Records)
  BY <1>1, <1>3, <1>4, DirectNow DEF DirectInv, DirectTypeOK
<1>6. ConnsInv'
  BY <1>1, <1>3, DirectNow DEF ConnsInv
<1>7. QueueInv'
  BY DirectNow DEF QueueInv, Held
<1>8. \A c \in Dialed : Ahead(c)' => c > acceptor.conn
  BY <1>1 DEF Ahead
<1>9. QED
  BY <1>3, <1>5, <1>6, <1>7, <1>8, SameWires

LEMMA ShowsKeep ==
  ASSUME DirectInv, ShowExitConn \/ ReadEnds
  PROVE  DirectInv'
<1>1. UNCHANGED <<dials, clientConn, sentRecords, queued, recordWriter, exitStop, handedOn>>
  BY DEF ShowExitConn, ReadEnds, dialing, writing
<1>2. CASE ServeLeaves
  <2>1. acceptor.at \in {"show", "serving"}
    BY DEF ShowExitConn, ReadEnds
  <2>2. /\ DirectTypeOK' <=> handedOn' \in Seq(Records)
        /\ ConnsInv' /\ QueueInv' /\ Shrinks
        /\ \A c \in Dialed : Ahead(c)' => c > acceptor.conn
    BY <1>1, <1>2, <2>1, LeavesKeep
  <2>3. PassedInv' /\ WiresInOrder' /\ HandedBefore' /\ RecordsInOrder'
    BY <1>1, <2>2, OrderStays DEF Ahead, Before, Held
  <2>4. QED
    BY <1>1, <2>2, <2>3, DirectNow DEF DirectInv
<1>3. CASE ~ServeLeaves
  <2>1. /\ acceptor' = [acceptor EXCEPT !.at = "serving"] /\ exitUp' = TRUE /\ acceptor.at = "show"
        /\ exitConn' = exitConn /\ wires' = wires
    BY <1>3 DEF ShowExitConn, ReadEnds
  <2>2. acceptor' = [at |-> "serving", conn |-> acceptor.conn, head |-> acceptor.head]
    BY <2>1, AcceptorIs
  <2>3. \A c \in Dialed : Ahead(c)' => Ahead(c)
    BY <2>1, <2>2 DEF Ahead
  <2>4. QED
    BY <1>1, <2>1, <2>2, <2>3, AcceptorIs, AcceptorMoves
<1>4. QED
  BY <1>2, <1>3

\* The first body on the connection that is served goes to the callback: it is the oldest of
\* those ahead and younger than all that were handed on.
LEMMA HandingKeeps ==
  ASSUME DirectInv, acceptor.at = "serving", IsBody(acceptor.conn, 1),
         handedOn' = Append(handedOn, RecordAt(acceptor.conn, 1)),
         UNCHANGED <<sentRecords, queued, recordWriter>>, Shrinks,
         wires' \in [Dialed -> [open : BOOLEAN, pieces : Seq(RecordPieces)]],
         \A c \in Dialed : Ahead(c)' =>
            /\ Ahead(c)
            /\ c = acceptor.conn => \A i \in Nat : IsBody(c, i)' =>
                  IsBody(c, i + 1) /\ RecordAt(c, i)' = RecordAt(c, i + 1)
  PROVE  PassedInv' /\ WiresInOrder' /\ HandedBefore' /\ RecordsInOrder' /\ handedOn' \in Seq(Records)
<1> DEFINE record == RecordAt(acceptor.conn, 1)
<1>1. acceptor.conn \in Dialed /\ Ahead(acceptor.conn)
  BY AcceptorIs DEF Dialed, Ahead
<1>2. record \in Records /\ record \in Nat
  <2>1. record \in Records
    BY <1>1, PieceTyped DEF DirectInv
  <2>2. QED
    BY <2>1 DEF Records
<1>3. handedOn \in Seq(Records) /\ handedOn' = Append(handedOn, record)
  BY DirectNow
<1>4. /\ Before(record)
      /\ \A k \in DOMAIN handedOn : handedOn[k] < record
      /\ \A d \in Dialed : \A j \in Nat :
           IsBody(d, j) /\ (acceptor.conn < d \/ (acceptor.conn = d /\ 1 < j)) => record < RecordAt(d, j)
  BY <1>1, DirectNow DEF PassedInv, HandedBefore, WiresInOrder
<1> HIDE DEF record
<1>5. \A k \in DOMAIN handedOn' :
        \/ k \in DOMAIN handedOn /\ handedOn'[k] = handedOn[k]
        \/ k = Len(handedOn) + 1 /\ handedOn'[k] = record
  BY <1>2, <1>3
<1>6. \A r : Before(r) => Before(r)'
  BY DEF Before, Held
<1>7. \A c \in Dialed : \A i \in Nat : IsBody(c, i)' =>
        \E j \in Nat : IsBody(c, j) /\ RecordAt(c, i)' = RecordAt(c, j)
  BY DEF Shrinks
<1>8. PassedInv'
  <2>1. ASSUME NEW c \in Dialed, NEW i \in Nat, IsBody(c, i)' PROVE Before(RecordAt(c, i))'
    BY <1>6, <1>7, <2>1, DirectNow DEF PassedInv
  <2>2. ASSUME NEW k \in DOMAIN handedOn' PROVE Before(handedOn[k])'
    <3> DEFINE r == handedOn'[k]
    <3>1. Before(r)
      BY <1>4, <1>5, <2>2, DirectNow DEF PassedInv
    <3>2. QED
      BY <1>6, <3>1
  <2>3. QED
    BY <2>1, <2>2 DEF PassedInv
<1>9. WiresInOrder'
  <2>1. WiresInOrder
    BY DirectNow
  <2> SUFFICES ASSUME NEW c \in Dialed, NEW d \in Dialed, NEW i \in Nat, NEW j \in Nat,
                      IsBody(c, i)', IsBody(d, j)', c < d \/ (c = d /\ i < j)
               PROVE  RecordAt(c, i)' < RecordAt(d, j)'
    BY DEF WiresInOrder
  <2>2. PICK n \in Nat : \A l \in Nat :
          IsBody(c, l)' => IsBody(c, l + n) /\ RecordAt(c, l)' = RecordAt(c, l + n)
    BY DEF Shrinks
  <2>3. PICK m \in Nat : \A l \in Nat :
          IsBody(d, l)' => IsBody(d, l + m) /\ RecordAt(d, l)' = RecordAt(d, l + m)
    BY DEF Shrinks
  <2>4. CASE c < d
    BY <2>1, <2>2, <2>3, <2>4 DEF WiresInOrder
  <2>5. CASE c = d /\ i < j
    <3>1. IsBody(c, j + n) /\ RecordAt(c, j)' = RecordAt(c, j + n) /\ i + n < j + n
      BY <2>2, <2>5
    <3>2. QED
      BY <2>1, <2>2, <2>5, <3>1 DEF WiresInOrder
  <2>6. QED
    BY <2>4, <2>5
<1>10. HandedBefore'
  <2> SUFFICES ASSUME NEW c \in Dialed, Ahead(c)', NEW i \in Nat, IsBody(c, i)', NEW k \in DOMAIN handedOn'
               PROVE  handedOn'[k] < RecordAt(c, i)'
    BY DEF HandedBefore
  <2>1. CASE k \in DOMAIN handedOn /\ handedOn'[k] = handedOn[k]
    BY <1>7, <2>1, DirectNow DEF HandedBefore
  <2>2. CASE handedOn'[k] = record
    <3>1. CASE c = acceptor.conn
      <4>1. wires'[c].pieces \in Seq(RecordPieces)
        OBVIOUS
      <4>2. i # 0
        BY <4>1 DEF IsBody
      <4>3. IsBody(c, i + 1) /\ RecordAt(c, i)' = RecordAt(c, i + 1) /\ 1 < i + 1
        BY <3>1, <4>2
      <4>4. QED
        BY <1>1, <1>4, <2>2, <3>1, <4>3
    <3>2. CASE c # acceptor.conn
      <4>1. acceptor.conn < c
        BY <3>2, AcceptorIs DEF Ahead, Dialed
      <4>2. QED
        BY <1>4, <1>7, <2>2, <4>1
    <3>3. QED
      BY <3>1, <3>2
  <2>3. QED
    BY <1>5, <2>1, <2>2
<1>11. RecordsInOrder'
  BY SMTT(40), <1>3, <1>4, <1>5, DirectNow DEF RecordsInOrder
<1>12. QED
  BY <1>2, <1>3, <1>8, <1>9, <1>10, <1>11

LEMMA ReadKeeps == ASSUME DirectInv, ReadPiece PROVE DirectInv'
<1> DEFINE conn == acceptor.conn
<1>1. /\ UNCHANGED <<dials, clientConn, sentRecords, queued, recordWriter, exitStop>>
      /\ acceptor.at = "serving" /\ wires[conn].pieces # <<>>
  BY DEF ReadPiece, dialing, writing
<1>2. conn \in Dialed /\ wires[conn].pieces \in Seq(RecordPieces)
  BY <1>1, AcceptorIs, DirectNow DEF Dialed
<1>3. /\ 1 \in DOMAIN wires[conn].pieces /\ Head(wires[conn].pieces) = wires[conn].pieces[1]
      /\ Tail(wires[conn].pieces) \in Seq(RecordPieces)
      /\ \A i \in DOMAIN Tail(wires[conn].pieces) :
           i + 1 \in DOMAIN wires[conn].pieces /\ Tail(wires[conn].pieces)[i] = wires[conn].pieces[i+1]
  BY <1>1, <1>2
<1>4. handedOn' = IF IsBody(conn, 1) THEN Append(handedOn, RecordAt(conn, 1)) ELSE handedOn
  BY <1>3 DEF ReadPiece, IsBody, RecordAt
<1>5. CASE IsBody(conn, 1) /\ ServeLeaves
  <2>1. /\ DirectTypeOK' <=> handedOn' \in Seq(Records)
        /\ ConnsInv' /\ QueueInv' /\ Shrinks
        /\ \A c \in Dialed : Ahead(c)' => c > acceptor.conn
    BY <1>1, <1>5, LeavesKeep
  <2>2. wires' \in [Dialed -> [open : BOOLEAN, pieces : Seq(RecordPieces)]]
    BY <1>2, <1>5, DirectNow DEF ServeLeaves, Shut
  <2>3. \A c \in Dialed : Ahead(c)' => Ahead(c) /\ c # conn
    BY <1>2, <2>1, DirectNow DEF Ahead, Dialed
  <2>4. PassedInv' /\ WiresInOrder' /\ HandedBefore' /\ RecordsInOrder' /\ handedOn' \in Seq(Records)
    BY <1>1, <1>4, <1>5, <2>1, <2>2, <2>3, HandingKeeps
  <2>5. QED
    BY <2>1, <2>4 DEF DirectInv
<1>6. CASE ~(IsBody(conn, 1) /\ ServeLeaves)
  <2>1. /\ wires' = [wires EXCEPT ![conn].pieces = Tail(wires[conn].pieces)]
        /\ \E head \in BOOLEAN : acceptor' = [acceptor EXCEPT !.head = head]
        /\ exitConn' = exitConn /\ exitUp' = exitUp
    BY <1>3, <1>6 DEF ReadPiece, IsBody
  <2>2. PICK head \in BOOLEAN : acceptor' = [acceptor EXCEPT !.head = head]
    BY <2>1
  <2>3. acceptor' = [at |-> "serving", conn |-> conn, head |-> head]
    BY <1>1, <2>2, AcceptorIs
  <2> DEFINE left == Tail(wires[conn].pieces)
  <2>4. left \in Seq(RecordPieces) /\ wires' = [wires EXCEPT ![conn].pieces = left]
    BY <1>3, <2>1
  <2>5. \A i \in DOMAIN left : i + 1 \in DOMAIN wires[conn].pieces /\ left[i] = wires[conn].pieces[i+1]
    BY <1>3
  <2> HIDE DEF left
  <2>6. /\ wires' \in [Dialed -> [open : BOOLEAN, pieces : Seq(RecordPieces)]]
        /\ wires'[conn].pieces = left
        /\ \A c \in Dialed : (c # conn => wires'[c] = wires[c]) /\ wires'[c].open = wires[c].open
    BY <1>2, <2>4, DirectNow
  <2>7. \A i \in Nat : IsBody(conn, i)' => IsBody(conn, i + 1) /\ RecordAt(conn, i)' = RecordAt(conn, i + 1)
    <3>1. acceptor'.conn = conn
      BY <2>3
    <3>2. QED
      BY <2>5, <2>6, <3>1 DEF IsBody, RecordAt
  <2>8. Shrinks
    <3> SUFFICES ASSUME NEW c \in Dialed
                 PROVE  \E n \in Nat : \A i \in Nat :
                          IsBody(c, i)' => IsBody(c, i + n) /\ RecordAt(c, i)' = RecordAt(c, i + n)
      BY DEF Shrinks
    <3>1. CASE c = conn
      <4>1. \A i \in Nat : IsBody(c, i)' => IsBody(c, i + 1) /\ RecordAt(c, i)' = RecordAt(c, i + 1)
        BY <2>5, <2>6, <3>1 DEF IsBody, RecordAt
      <4>2. QED
        BY <4>1
    <3>2. CASE c # conn
      <4>1. \A i \in Nat : IsBody(c, i)' => IsBody(c, i + 0) /\ RecordAt(c, i)' = RecordAt(c, i + 0)
        BY <2>6, <3>2 DEF IsBody, RecordAt
      <4>2. QED
        BY <4>1
    <3>3. QED
      BY <3>1, <3>2
  <2>9. \A c \in Dialed : Ahead(c)' => Ahead(c)
    BY <1>1, <2>3 DEF Ahead
  <2>10. PassedInv' /\ WiresInOrder' /\ HandedBefore' /\ RecordsInOrder' /\ handedOn' \in Seq(Records)
    <3>1. CASE IsBody(conn, 1)
      <4>1. ASSUME NEW c \in Dialed, c = conn, NEW i \in Nat, IsBody(c, i)'
            PROVE  IsBody(c, i + 1) /\ RecordAt(c, i)' = RecordAt(c, i + 1)
        BY <2>5, <2>6, <4>1 DEF IsBody, RecordAt
      <4>2. handedOn' = Append(handedOn, RecordAt(conn, 1))
        BY <1>4, <3>1
      <4>3. QED
        BY <1>1, <2>6, <2>8, <2>9, <3>1, <4>1, <4>2, HandingKeeps
    <3>2. CASE ~IsBody(conn, 1)
      <4>1. handedOn' = handedOn
        BY <1>4, <3>2
      <4>2. \A r \in Nat : Before(r) => Before(r)'
        BY <1>1 DEF Before, Held
      <4>3. QED
        BY <2>8, <2>9, <4>1, <4>2, DirectNow, OrderStays
    <3>3. QED
      BY <3>1, <3>2
  <2>11. DirectTypeOK'
    <3>1. acceptor' \in [at : {"top", "listener", "accepting", "publish", "show", "serving", "panicked",
                           "ended"}, conn : 0..MaxDials, head : BOOLEAN]
      BY <2>3, AcceptorIs
    <3>2. QED
      BY <1>1, <2>1, <2>6, <2>10, <3>1, DirectNow DEF DirectInv, DirectTypeOK
  <2>12. ConnsInv'
    <3>1. \A c \in Dialed : wires[c].pieces = <<>> => wires'[c].pieces = <<>>
      BY <1>1, <2>6
    <3>2. acceptor'.conn = conn
      BY <2>3
    <3>3. QED
      BY <1>1, <2>3, <2>6, <3>1, <3>2, AcceptorIs, DirectNow DEF ConnsInv
  <2>13. QueueInv'
    BY <1>1, DirectNow DEF QueueInv, Held
  <2>14. QED
    BY <2>10, <2>11, <2>12, <2>13 DEF DirectInv
<1>7. QED
  BY <1>5, <1>6

LEMMA StopKeeps == ASSUME DirectInv, StopExit PROVE DirectInv'
<1>1. /\ UNCHANGED <<dials, clientConn, sentRecords, queued, recordWriter, acceptor, handedOn>>
      /\ exitStop' \in {"done", "closed", "stopped"} /\ exitConn' \in {exitConn, 0} /\ exitUp' \in {exitUp, FALSE}
  BY DEF StopExit, CloseDone, CloseListener, ExitDisconnected, dialing, writing, accepting
<1>2. /\ wires' \in [Dialed -> [open : BOOLEAN, pieces : Seq(RecordPieces)]]
      /\ \A c \in Dialed : wires'[c] = wires[c] \/ wires'[c] = [open |-> FALSE, pieces |-> <<>>]
  <2>1. CASE wires' = wires
    BY <2>1, DirectNow
  <2>2. CASE CloseListener
    <3>1. wires' = [c \in Dialed |->
                    IF c = exitConn \/ c > acceptor.conn THEN [open |-> FALSE, pieces |-> <<>>]
                    ELSE wires[c]]
      BY <2>2 DEF CloseListener
    <3>2. QED
      BY <3>1, DirectNow
  <2>3. QED
    BY <2>1, <2>2 DEF StopExit, CloseDone, ExitDisconnected
<1>3. Shrinks
  <2>1. \A c \in Dialed : \A i \in Nat :
          IsBody(c, i)' => IsBody(c, i + 0) /\ RecordAt(c, i)' = RecordAt(c, i + 0)
    BY <1>2 DEF IsBody, RecordAt
  <2>2. QED
    BY <2>1 DEF Shrinks
<1>4. DirectTypeOK'
  <2>1. exitConn' \in 0..MaxDials
    BY <1>1, AcceptorIs, DirectNow
  <2>2. exitUp' \in BOOLEAN
    BY <1>1, AcceptorIs
  <2>3. QED
    BY <1>1, <1>2, <2>1, <2>2, DirectNow DEF DirectInv, DirectTypeOK
<1>5. ConnsInv'
  BY <1>1, <1>2, DirectNow DEF ConnsInv
<1>6. QueueInv'
  BY <1>1, DirectNow DEF QueueInv, Held
<1>7. PassedInv' /\ WiresInOrder' /\ HandedBefore' /\ RecordsInOrder'
  BY <1>1, <1>3, OrderStays DEF Before, Held, Ahead
<1>8. QED
  BY <1>4, <1>5, <1>6, <1>7 DEF DirectInv

LEMMA DirectKeeps == DirectInv /\ [DirectNext]_directVars => DirectInv'
<1> SUFFICES ASSUME DirectInv, [DirectNext]_directVars PROVE DirectInv'
  OBVIOUS
<1>1. CASE UNCHANGED directVars
  <2>1. UNCHANGED <<dials, clientConn, wires, sentRecords, queued, recordWriter, exitConn, exitUp, acceptor,
                    exitStop, handedOn>>
    BY <1>1 DEF directVars, dialing, writing, accepting
  <2>2. QED
    BY <2>1 DEF DirectInv, DirectTypeOK, ConnsInv, QueueInv, PassedInv, WiresInOrder, HandedBefore, RecordsInOrder,
                IsBody, RecordAt, Before, Held, Ahead
<1>2. CASE AcceptLoop
  BY <1>2, LoopKeeps, ShowsKeep, ReadKeeps DEF AcceptLoop
<1>3. CASE ClientSteps
  BY <1>3, DialsKeep, DropsKeep, SendingKeeps DEF ClientSteps
<1>4. CASE WriterLoop
  BY <1>4, TakesKeep, LooksKeep, HeadKeeps, BodyKeeps DEF WriterLoop
<1>5. CASE StopExit
  BY <1>5, StopKeeps
<1>6. CASE \E c \in Dialed : ConnBreaks(c)
  BY <1>6, BreaksKeep
<1>7. QED
  BY <1>1, <1>2, <1>3, <1>4, <1>5, <1>6 DEF DirectNext

\* Over all the connections the exit hands on each record at most once and in the order of Send,
\* for any number of connections and records and any size of the queue (writerLoop, acceptLoop).
THEOREM RecordsComeInOrder == DirectSpec => []RecordsInOrder
<1>1. DirectSpec => []DirectInv
  BY DirectStarts, DirectKeeps, PTL DEF DirectSpec
<1>2. DirectInv => RecordsInOrder
  BY DEF DirectInv
<1>3. QED
  BY <1>1, <1>2, PTL

----------------------------------------------------------------------------
(* The Telemost call.                                                      *)

\* Only the socket of the chain can be open, and none while the chain has none.
OneSocketInv ==
    /\ tmOpen \subseteq {tmChain.socket}
    /\ tmChain.at \in {"dialing", "over", "waiting"} => tmOpen = {}
    /\ tmChain.at \in {"hello", "reading"} => tmChain.socket # 0

CallInv == TelemostTypeOK /\ OneSocketInv /\ ReadyMeansUp

Chain == [at : {"dialing", "hello", "reading", "over", "waiting", "ended"}, socket : 0..TmSockets]

LEMMA CallNow ==
  ASSUME CallInv
  PROVE  /\ running \in BOOLEAN /\ connected \in BOOLEAN /\ trackReady \in BOOLEAN
         /\ tmChain \in Chain /\ tmOpen \subseteq TmSocket /\ tmShown \in 0..TmSockets
         /\ tmHeard \in [TmSocket -> SUBSET TmSaid] /\ tmInbox \in [TmSocket -> Seq(TmTold)]
         /\ tmCalls \in Seq(TmCall) /\ tmFlaps \in 0..TmFlaps
         /\ tmClocks \in Seq({"unbound", "ticking", "gone"}) /\ Len(tmClocks) = Len(tmCalls)
         /\ tmStop \in {"no", "socket", "publisher", "done"} /\ tmCalm \in BOOLEAN
         /\ OneSocketInv /\ ReadyMeansUp
  BY DEF CallInv, TelemostTypeOK, FlagsOK, Chain

LEMMA CallStarts == TelemostInit => CallInv
<1> SUFFICES ASSUME TelemostInit PROVE CallInv
  OBVIOUS
<1> USE TelemostAssumption
<1>1. TelemostTypeOK
  <2>1. tmHeard \in [TmSocket -> SUBSET TmSaid] /\ tmInbox \in [TmSocket -> Seq(TmTold)]
    BY DEF TelemostInit
  <2>2. tmChain \in [at : {"dialing", "hello", "reading", "over", "waiting", "ended"}, socket : 0..TmSockets]
    BY DEF TelemostInit
  <2>3. tmCalls \in Seq(TmCall) /\ tmClocks \in Seq({"unbound", "ticking", "gone"}) /\ Len(tmClocks) = Len(tmCalls)
    BY DEF TelemostInit
  <2>4. running \in BOOLEAN /\ connected \in BOOLEAN /\ trackReady \in BOOLEAN /\ tmCalm \in BOOLEAN
    BY DEF TelemostInit, Started
  <2>5. tmShown \in 0..TmSockets /\ tmFlaps \in 0..TmFlaps /\ tmOpen \subseteq TmSocket
    BY DEF TelemostInit
  <2>6. QED
    BY <2>1, <2>2, <2>3, <2>4, <2>5 DEF TelemostInit, TelemostTypeOK, FlagsOK
<1>2. OneSocketInv /\ ReadyMeansUp
  BY DEF TelemostInit, OneSocketInv, ReadyMeansUp
<1>3. QED
  BY <1>1, <1>2 DEF CallInv

\* A step of the chain: where it goes, and the sockets that stay open.
LEMMA ChainMoves ==
  ASSUME CallInv, UNCHANGED <<tmInbox, tmMedia, tmStop, tmCalm>>,
         running' \in BOOLEAN, connected' \in BOOLEAN,
         tmHeard' \in [TmSocket -> SUBSET TmSaid],
         tmChain' \in Chain, tmOpen' \subseteq TmSocket, tmShown' \in 0..TmSockets,
         OneSocketInv'
  PROVE  CallInv'
<1>1. UNCHANGED <<tmInbox, tmCalls, tmFlaps, trackReady, tmClocks, tmStop, tmCalm>>
  BY DEF tmMedia
<1>2. TelemostTypeOK'
  BY <1>1, CallNow DEF TelemostTypeOK, FlagsOK, Chain
<1>3. ReadyMeansUp'
  BY <1>1, CallNow DEF ReadyMeansUp, TmCurrent
<1>4. QED
  BY <1>2, <1>3 DEF CallInv

LEMMA HeardTyped ==
  ASSUME CallInv, NEW what \in TmSaid, TmWrites(what)
  PROVE  tmHeard' \in [TmSocket -> SUBSET TmSaid]
  BY CallNow DEF TmWrites

LEMMA ChainKeeps == ASSUME CallInv, TmChainMoves PROVE CallInv'
<1> USE TelemostAssumption
<1>1. CASE TmDials
  <2> DEFINE s == tmChain.socket + 1
  <2>1. /\ tmChain.at = "dialing" /\ tmChain.socket < TmSockets
        /\ tmChain' = [at |-> "hello", socket |-> s] /\ tmOpen' = tmOpen \cup {s} /\ tmShown' = s
        /\ connected' = TRUE /\ UNCHANGED <<running, tmHeard, tmInbox, tmMedia, tmStop, tmCalm>>
    BY <1>1 DEF TmDials
  <2>2. tmChain.socket \in 0..TmSockets /\ tmOpen = {}
    BY <2>1, CallNow DEF Chain, OneSocketInv
  <2>3. s \in TmSocket /\ s \in 0..TmSockets /\ s # 0
    BY <2>1, <2>2 DEF TmSocket
  <2> HIDE DEF s
  <2>4. tmChain' \in Chain /\ tmOpen' \subseteq TmSocket /\ OneSocketInv'
    BY <2>1, <2>2, <2>3 DEF Chain, OneSocketInv
  <2>5. QED
    BY <2>1, <2>3, <2>4, CallNow, ChainMoves
<1>2. CASE TmDialFails \/ TmLeaves \/ TmSchedules \/ TmWaitEnds \/ TmHello
  <2>1. /\ UNCHANGED <<running, connected, tmOpen, tmShown, tmInbox, tmMedia, tmStop, tmCalm>>
        /\ \E at \in {"dialing", "reading", "over", "waiting", "ended"} :
             /\ tmChain' = [tmChain EXCEPT !.at = at]
             /\ at = "reading" => tmChain.at = "hello"
             /\ at \in {"dialing", "over", "waiting"} => tmChain.at \in {"dialing", "over", "waiting"}
    BY <1>2 DEF TmDialFails, TmLeaves, TmSchedules, TmWaitEnds, TmHello, TmGoes
  <2>2. PICK at \in {"dialing", "reading", "over", "waiting", "ended"} :
             /\ tmChain' = [tmChain EXCEPT !.at = at]
             /\ at = "reading" => tmChain.at = "hello"
             /\ at \in {"dialing", "over", "waiting"} => tmChain.at \in {"dialing", "over", "waiting"}
    BY <2>1
  <2>3. tmChain' \in Chain /\ tmChain'.at = at /\ tmChain'.socket = tmChain.socket
    BY <2>2, CallNow DEF Chain
  <2>4. OneSocketInv'
    BY <2>1, <2>2, <2>3, CallNow DEF OneSocketInv
  <2>5. tmHeard' \in [TmSocket -> SUBSET TmSaid]
    BY <1>2, CallNow, HeardTyped DEF TmDialFails, TmLeaves, TmSchedules, TmWaitEnds, TmHello, TmSaid
  <2>6. QED
    BY <2>1, <2>3, <2>4, <2>5, CallNow, ChainMoves
<1>3. CASE TmHelloFails \/ TmReadFails
  <2>1. /\ tmChain' = [tmChain EXCEPT !.at = "over"] /\ tmOpen' = tmOpen \ {tmChain.socket} /\ connected' = FALSE
        /\ UNCHANGED <<running, tmShown, tmHeard, tmInbox, tmMedia, tmStop, tmCalm>>
    BY <1>3 DEF TmHelloFails, TmReadFails, TmGoes, ClosesSocket, AfterHelloFails
  <2>2. tmChain' \in Chain /\ tmChain'.at = "over" /\ tmChain'.socket = tmChain.socket
    BY <2>1, CallNow DEF Chain
  <2>3. tmOpen' = {}
    BY <2>1, CallNow DEF OneSocketInv
  <2>4. OneSocketInv'
    BY <2>2, <2>3 DEF OneSocketInv
  <2>5. QED
    BY <2>1, <2>2, <2>3, <2>4, CallNow, ChainMoves
<1>4. QED
  BY <1>1, <1>2, <1>3 DEF TmChainMoves

\* The steps that only write to a socket or close it, or touch the flags.
LEMMA SocketsKeep == ASSUME CallInv, TmLoops \/ TmForce \/ TmStopSocket \/ TmSocketEnds PROVE CallInv'
<1>1. UNCHANGED <<running, connected, tmChain, tmInbox, tmMedia, tmCalm>>
  BY DEF TmLoops, TmPings, TmReports, TmRefreshesSlots, TmChatters, TmForce, TmStopSocket, TmSocketEnds
<1>2. tmOpen' \subseteq tmOpen /\ tmShown' \in {tmShown, 0} /\ tmStop' \in {tmStop, "socket"}
  BY DEF TmLoops, TmPings, TmReports, TmRefreshesSlots, TmChatters, TmForce, TmStopSocket, TmSocketEnds
<1>3. tmHeard' \in [TmSocket -> SUBSET TmSaid]
  BY CallNow, HeardTyped DEF TmLoops, TmPings, TmReports, TmRefreshesSlots, TmChatters, TmForce, TmStopSocket,
     TmSocketEnds, TmSaid
<1>4. OneSocketInv'
  BY <1>1, <1>2, CallNow DEF OneSocketInv
<1>5. tmShown' \in 0..TmSockets
  BY <1>2, CallNow, TelemostAssumption
<1>6. TelemostTypeOK'
  BY <1>1, <1>2, <1>3, <1>5, CallNow DEF TelemostTypeOK, FlagsOK, tmMedia, Chain
<1>7. ReadyMeansUp'
  BY <1>1, CallNow DEF ReadyMeansUp, TmCurrent, tmMedia
<1>8. QED
  BY <1>4, <1>6, <1>7 DEF CallInv

LEMMA FlagsKeep == ASSUME CallInv, TmStopFlags \/ TmGoesCalm PROVE CallInv'
<1>1. /\ UNCHANGED <<tmSocket, tmMedia>> /\ tmStop' \in {tmStop, "done"} /\ tmCalm' \in BOOLEAN
      /\ running' \in BOOLEAN /\ connected' \in BOOLEAN
  BY CallNow DEF TmStopFlags, TmGoesCalm, Stopped
<1>2. UNCHANGED <<tmChain, tmOpen, tmShown, tmHeard, tmInbox, tmCalls, tmFlaps, trackReady, tmClocks>>
  BY <1>1 DEF tmSocket, tmMedia
<1>3. TelemostTypeOK'
  BY <1>1, <1>2, CallNow DEF TelemostTypeOK, FlagsOK, Chain
<1>4. OneSocketInv' /\ ReadyMeansUp'
  BY <1>2, CallNow DEF OneSocketInv, ReadyMeansUp, TmCurrent
<1>5. QED
  BY <1>3, <1>4 DEF CallInv

\* A step of the pairs: the sockets stay as they are.
LEMMA PairsMove ==
  ASSUME CallInv, UNCHANGED <<running, connected, tmChain, tmOpen, tmShown, tmStop, tmCalm>>,
         tmHeard' \in [TmSocket -> SUBSET TmSaid], tmInbox' \in [TmSocket -> Seq(TmTold)],
         tmCalls' \in Seq(TmCall), tmFlaps' \in 0..TmFlaps, trackReady' \in BOOLEAN,
         tmClocks' \in Seq({"unbound", "ticking", "gone"}), Len(tmClocks') = Len(tmCalls'),
         ReadyMeansUp'
  PROVE  CallInv'
<1>1. TelemostTypeOK'
  BY CallNow DEF TelemostTypeOK, FlagsOK, Chain
<1>2. OneSocketInv'
  BY CallNow DEF OneSocketInv
<1>3. QED
  BY <1>1, <1>2 DEF CallInv

LEMMA Redone ==
  ASSUME NEW q \in Seq(TmCall), NEW i \in DOMAIN q, NEW call \in TmCall
  PROVE  /\ [q EXCEPT ![i] = call] \in Seq(TmCall) /\ Len([q EXCEPT ![i] = call]) = Len(q)
         /\ [q EXCEPT ![i] = call][i] = call
         /\ \A j \in DOMAIN q : j # i => [q EXCEPT ![i] = call][j] = q[j]
  OBVIOUS

LEMMA NothingRedone ==
  ASSUME NEW q, q = <<>>, NEW call
  PROVE  [q EXCEPT ![0] = call] = q
  OBVIOUS

\* A message is taken from the inbox of the socket that is read.
LEMMA InboxTyped ==
  ASSUME CallInv, NEW what, TmRead(what)
  PROVE  tmInbox' \in [TmSocket -> Seq(TmTold)] /\ tmChain.socket \in TmSocket
<1>1. tmChain.socket \in TmSocket
  BY CallNow DEF TmRead, OneSocketInv, Chain, TmSocket
<1>2. Tail(tmInbox[tmChain.socket]) \in Seq(TmTold)
  BY <1>1, CallNow DEF TmRead
<1>3. QED
  BY <1>1, <1>2, CallNow DEF TmRead

LEMMA HelloKeeps == ASSUME CallInv, TmServerHello PROVE CallInv'
<1> DEFINE call == [socket |-> tmChain.socket, publisher |-> "new", subscriber |-> "new"]
<1>1. /\ tmCalls' = Append(tmCalls, call) /\ trackReady' = FALSE /\ tmClocks' = Append(tmClocks, "unbound")
      /\ UNCHANGED <<running, connected, tmChain, tmOpen, tmShown, tmFlaps, tmStop, tmCalm>>
      /\ TmRead("serverHello") /\ TmWrites("offer")
  BY DEF TmServerHello, NewPublisher, NewSubscriber, TmOffers
<1>2. tmInbox' \in [TmSocket -> Seq(TmTold)] /\ tmChain.socket \in TmSocket
  BY <1>1, InboxTyped
<1>3. call \in TmCall
  BY <1>2 DEF TmCall
<1> HIDE DEF call
<1>4. tmHeard' \in [TmSocket -> SUBSET TmSaid]
  BY <1>1, HeardTyped DEF TmSaid
<1>5. tmCalls' \in Seq(TmCall) /\ Len(tmCalls') = Len(tmCalls) + 1
  BY <1>1, <1>3, CallNow
<1>6. tmClocks' \in Seq({"unbound", "ticking", "gone"}) /\ Len(tmClocks') = Len(tmClocks) + 1
  BY <1>1, CallNow
<1>7. trackReady' \in BOOLEAN /\ ReadyMeansUp'
  BY <1>1 DEF ReadyMeansUp
<1>8. QED
  BY <1>1, <1>2, <1>4, <1>5, <1>6, <1>7, CallNow, PairsMove

\* The pair there is now gets an answer, or is told to be closed: any other stays as it is.
LEMMA CurrentChanges ==
  ASSUME CallInv, NEW field, tmCalls' = [tmCalls EXCEPT ![TmCurrent] = field],
         tmCalls # <<>> => field \in TmCall
  PROVE  /\ tmCalls' \in Seq(TmCall) /\ Len(tmCalls') = Len(tmCalls)
         /\ \A c \in 1..TmCurrent : c # TmCurrent => tmCalls'[c] = tmCalls[c]
         /\ tmCalls # <<>> => tmCalls'[TmCurrent] = field /\ TmCurrent \in 1..TmCurrent
<1>1. tmCalls \in Seq(TmCall) /\ TmCurrent = Len(tmCalls)
  BY CallNow DEF TmCurrent
<1>2. CASE tmCalls = <<>>
  <2>1. TmCurrent = 0
    BY <1>1, <1>2
  <2>2. tmCalls' = tmCalls
    BY <1>2, <2>1, NothingRedone
  <2>3. QED
    BY <1>1, <1>2, <2>2
<1>3. CASE tmCalls # <<>>
  <2>1. TmCurrent \in DOMAIN tmCalls /\ TmCurrent \in 1..TmCurrent
    BY <1>1, <1>3
  <2>2. QED
    BY <1>1, <1>3, <2>1, Redone
<1>4. QED
  BY <1>2, <1>3

LEMMA AnswerKeeps == ASSUME CallInv, TmPublisherAnswer PROVE CallInv'
<1>1. /\ UNCHANGED <<running, connected, tmChain, tmOpen, tmShown, tmHeard, tmFlaps, trackReady,
                     tmClocks, tmStop, tmCalm>>
      /\ TmRead("publisherAnswer")
  BY DEF TmPublisherAnswer
<1>2. tmInbox' \in [TmSocket -> Seq(TmTold)]
  BY <1>1, InboxTyped
<1>3. tmCalls' \in Seq(TmCall) /\ Len(tmCalls') = Len(tmCalls) /\ ReadyMeansUp'
  <2>1. CASE tmCalls' = tmCalls
    BY <1>1, <2>1, CallNow DEF ReadyMeansUp, TmCurrent
  <2>2. CASE tmCalls' # tmCalls
    <3> DEFINE call == [tmCalls[TmCurrent] EXCEPT !.publisher = "answered"]
    <3>1. tmCalls[TmCurrent].publisher = "new" /\ tmCalls' = [tmCalls EXCEPT ![TmCurrent] = call]
      BY <2>2 DEF TmPublisherAnswer
    <3>2. tmCalls # <<>> => call \in TmCall
      <4>1. tmCalls # <<>> => tmCalls[TmCurrent] \in TmCall
        BY CallNow DEF TmCurrent
      <4>2. QED
        BY <4>1 DEF TmCall
    <3> HIDE DEF call
    <3>3. /\ tmCalls' \in Seq(TmCall) /\ Len(tmCalls') = Len(tmCalls)
          /\ \A c \in 1..TmCurrent : c # TmCurrent => tmCalls'[c] = tmCalls[c]
      BY <3>1, <3>2, CurrentChanges
    <3>4. ASSUME trackReady' PROVE \E c \in 1..TmCurrent' : tmCalls'[c].publisher = "up"
      <4>1. PICK c \in 1..TmCurrent : tmCalls[c].publisher = "up"
        BY <1>1, <3>4, CallNow DEF ReadyMeansUp
      <4>2. c # TmCurrent
        BY <3>1, <4>1
      <4>3. QED
        BY <3>3, <4>1, <4>2 DEF TmCurrent
    <3>5. QED
      BY <3>3, <3>4 DEF ReadyMeansUp
  <2>3. QED
    BY <2>1, <2>2
<1>4. QED
  BY <1>1, <1>2, <1>3, CallNow, PairsMove

LEMMA OfferKeeps == ASSUME CallInv, TmSubscriberOffer PROVE CallInv'
<1>1. /\ UNCHANGED <<running, connected, tmChain, tmOpen, tmShown, tmFlaps, trackReady, tmClocks, tmStop, tmCalm>>
      /\ TmRead("subscriberOffer")
  BY DEF TmSubscriberOffer
<1>2. tmInbox' \in [TmSocket -> Seq(TmTold)]
  BY <1>1, InboxTyped
<1>3. tmHeard' \in [TmSocket -> SUBSET TmSaid]
  BY CallNow, HeardTyped DEF TmSubscriberOffer, TmSaid
<1>4. tmCalls' \in Seq(TmCall) /\ Len(tmCalls') = Len(tmCalls) /\ ReadyMeansUp'
  <2>1. CASE tmCalls' = tmCalls
    BY <1>1, <2>1, CallNow DEF ReadyMeansUp, TmCurrent
  <2>2. CASE tmCalls' # tmCalls
    <3> DEFINE call == [tmCalls[TmCurrent] EXCEPT !.subscriber = "answered"]
    <3>1. tmCalls' = [tmCalls EXCEPT ![TmCurrent] = call]
      BY <2>2 DEF TmSubscriberOffer
    <3>2. tmCalls # <<>> => call \in TmCall /\ call.publisher = tmCalls[TmCurrent].publisher
      <4>1. tmCalls # <<>> => tmCalls[TmCurrent] \in TmCall
        BY CallNow DEF TmCurrent
      <4>2. QED
        BY <4>1 DEF TmCall
    <3> HIDE DEF call
    <3>3. /\ tmCalls' \in Seq(TmCall) /\ Len(tmCalls') = Len(tmCalls)
          /\ \A c \in 1..TmCurrent : c # TmCurrent => tmCalls'[c] = tmCalls[c]
          /\ tmCalls # <<>> => tmCalls'[TmCurrent] = call
      BY <3>1, <3>2, CurrentChanges
    <3>4. ASSUME trackReady' PROVE \E c \in 1..TmCurrent' : tmCalls'[c].publisher = "up"
      <4>1. PICK c \in 1..TmCurrent : tmCalls[c].publisher = "up"
        BY <1>1, <3>4, CallNow DEF ReadyMeansUp
      <4>2. tmCalls # <<>>
        BY <4>1, CallNow DEF TmCurrent
      <4>3. tmCalls'[c].publisher = "up"
        BY <3>2, <3>3, <4>1, <4>2
      <4>4. QED
        BY <3>3, <4>1, <4>3 DEF TmCurrent
    <3>5. QED
      BY <3>3, <3>4 DEF ReadyMeansUp
  <2>3. QED
    BY <2>1, <2>2
<1>5. QED
  BY <1>1, <1>2, <1>3, <1>4, CallNow, PairsMove

LEMMA StopPairKeeps == ASSUME CallInv, TmStopPair PROVE CallInv'
<1>1. /\ UNCHANGED <<running, connected, tmChain, tmOpen, tmShown, tmHeard, tmInbox, tmFlaps, tmClocks, tmCalm>>
      /\ tmStop' = "publisher"
  BY DEF TmStopPair, tmSocket
<1>2. /\ tmCalls' \in Seq(TmCall) /\ Len(tmCalls') = Len(tmCalls) /\ trackReady' \in BOOLEAN
      /\ trackReady' => tmCalls' = tmCalls /\ trackReady
  <2>1. CASE tmCalls = <<>>
    BY <2>1, CallNow DEF TmStopPair
  <2>2. CASE tmCalls # <<>>
    <3> DEFINE call == [tmCalls[TmCurrent] EXCEPT !.publisher = "closed", !.subscriber = "closed"]
    <3>1. tmCalls' = [tmCalls EXCEPT ![TmCurrent].publisher = "closed", ![TmCurrent].subscriber = "closed"]
          /\ trackReady' = FALSE
      BY <2>2 DEF TmStopPair, NotReadyNow
    <3>2. tmCalls[TmCurrent] \in TmCall /\ TmCurrent \in DOMAIN tmCalls
      BY <2>2, CallNow DEF TmCurrent
    <3>3. call \in TmCall
      BY <3>2 DEF TmCall
    <3>4. tmCalls' = [tmCalls EXCEPT ![TmCurrent] = call]
      BY <3>1, <3>2, CallNow
    <3> HIDE DEF call
    <3>5. QED
      BY <3>1, <3>3, <3>4, CurrentChanges
  <2>3. QED
    BY <2>1, <2>2
<1>3. TelemostTypeOK'
  BY <1>1, <1>2, CallNow DEF TelemostTypeOK, FlagsOK, Chain
<1>4. OneSocketInv' /\ ReadyMeansUp'
  BY <1>1, <1>2, CallNow DEF OneSocketInv, ReadyMeansUp, TmCurrent
<1>5. QED
  BY <1>3, <1>4 DEF CallInv

LEMMA PublishersKeep ==
  ASSUME CallInv, NEW c \in 1..TmCurrent, TmComesUp(c) \/ TmGoesDown(c) \/ TmClockStarts(c)
  PROVE  CallInv'
<1>1. UNCHANGED <<running, connected, tmChain, tmOpen, tmShown, tmHeard, tmInbox, tmStop, tmCalm>>
  BY DEF TmComesUp, TmGoesDown, TmClockStarts, tmSocket
<1>2. c \in DOMAIN tmCalls /\ c \in DOMAIN tmClocks /\ tmCalls[c] \in TmCall
  BY CallNow DEF TmCurrent
<1>3. CASE TmComesUp(c) \/ TmGoesDown(c)
  <2>1. PICK state \in {"up", "lost"} :
          /\ tmCalls' = [tmCalls EXCEPT ![c].publisher = state] /\ UNCHANGED tmClocks
          /\ trackReady' = (state = "up")
    BY <1>3 DEF TmComesUp, TmGoesDown, NotReadyNow
  <2> DEFINE call == [tmCalls[c] EXCEPT !.publisher = state]
  <2>2. call \in TmCall /\ call.publisher = state /\ tmCalls' = [tmCalls EXCEPT ![c] = call]
    BY <1>2, <2>1 DEF TmCall
  <2> HIDE DEF call
  <2>3. tmCalls' \in Seq(TmCall) /\ Len(tmCalls') = Len(tmCalls) /\ tmCalls'[c] = call
    BY <1>2, <2>2, CallNow, Redone
  <2>4. tmFlaps' \in 0..TmFlaps
    BY <1>3, CallNow, TelemostAssumption DEF TmComesUp, TmGoesDown
  <2>5. trackReady' \in BOOLEAN
    BY <2>1
  <2>6. trackReady' => state = "up"
    BY <2>1
  <2>7. ReadyMeansUp'
    BY <2>2, <2>3, <2>6 DEF ReadyMeansUp, TmCurrent
  <2>8. QED
    BY <1>1, <2>1, <2>3, <2>4, <2>5, <2>7, CallNow, PairsMove
<1>4. CASE TmClockStarts(c)
  <2>1. /\ UNCHANGED <<tmCalls, tmFlaps, trackReady>>
        /\ \E at \in {"ticking", "gone"} : tmClocks' = [tmClocks EXCEPT ![c] = at]
    BY <1>4 DEF TmClockStarts
  <2>2. tmClocks' \in Seq({"unbound", "ticking", "gone"}) /\ Len(tmClocks') = Len(tmClocks)
    BY <1>2, <2>1, CallNow
  <2>3. ReadyMeansUp'
    BY <2>1, CallNow DEF ReadyMeansUp, TmCurrent
  <2>4. QED
    BY <1>1, <2>1, <2>2, <2>3, CallNow, PairsMove
<1>5. QED
  BY <1>3, <1>4

LEMMA ServerKeeps == ASSUME CallInv, TmServerSays PROVE CallInv'
<1>1. /\ UNCHANGED <<running, connected, tmChain, tmOpen, tmShown, tmHeard, tmCalls, tmFlaps, trackReady, tmClocks,
                     tmStop, tmCalm>>
      /\ \E s \in tmOpen, what \in TmTold : tmInbox' = [tmInbox EXCEPT ![s] = Append(@, what)]
  BY DEF TmServerSays, tmMedia
<1>2. PICK s \in tmOpen, what \in TmTold : tmInbox' = [tmInbox EXCEPT ![s] = Append(tmInbox[s], what)]
  BY <1>1
<1>3. s \in TmSocket
  BY CallNow
<1>4. Append(tmInbox[s], what) \in Seq(TmTold)
  BY <1>3, CallNow
<1>5. tmInbox' \in [TmSocket -> Seq(TmTold)]
  BY <1>2, <1>3, <1>4, CallNow
<1>6. ReadyMeansUp'
  BY <1>1, CallNow DEF ReadyMeansUp, TmCurrent
<1>7. QED
  BY <1>1, <1>5, <1>6, CallNow, PairsMove

LEMMA CallKeeps == CallInv /\ [TelemostNext]_tmVars => CallInv'
<1> SUFFICES ASSUME CallInv, [TelemostNext]_tmVars PROVE CallInv'
  OBVIOUS
<1>1. CASE UNCHANGED tmVars
  <2>1. UNCHANGED <<running, connected, tmChain, tmOpen, tmShown, tmHeard, tmInbox, tmCalls, tmFlaps, trackReady,
                    tmClocks, tmStop, tmCalm>>
    BY <1>1 DEF tmVars, tmSocket, tmMedia
  <2>2. QED
    BY <2>1 DEF CallInv, TelemostTypeOK, FlagsOK, OneSocketInv, ReadyMeansUp, TmCurrent
<1>2. CASE TmChainMoves
  BY <1>2, ChainKeeps
<1>3. CASE TmMessages
  BY <1>3, HelloKeeps, AnswerKeeps, OfferKeeps DEF TmMessages
<1>4. CASE TmPairs
  BY <1>4, PublishersKeep DEF TmPairs
<1>5. CASE TmLoops \/ TmCallers \/ TmSocketEnds \/ TmGoesCalm
  BY <1>5, SocketsKeep, StopPairKeeps, FlagsKeep DEF TmCallers
<1>6. CASE TmServerSays
  BY <1>6, ServerKeeps
<1>7. QED
  BY <1>1, <1>2, <1>3, <1>4, <1>5, <1>6 DEF TelemostNext

LEMMA CallInvShows == CallInv => TelemostTypeOK /\ OneCall
<1> SUFFICES ASSUME CallInv PROVE TelemostTypeOK /\ OneCall
  OBVIOUS
<1>1. tmOpen \subseteq {tmChain.socket}
  BY CallNow DEF OneSocketInv
<1>2. tmOpen = {} \/ tmOpen = {tmChain.socket}
  BY <1>1
<1>3. Cardinality(tmOpen) <= 1
  <2>1. Cardinality({}) = 0
    BY FS_EmptySet
  <2>2. Cardinality({tmChain.socket}) = 1
    BY FS_Singleton
  <2>3. QED
    BY <1>2, <2>1, <2>2
<1>4. QED
  BY <1>3 DEF CallInv, OneCall, OneSocket

\* A participant is in its call over one socket at a time, and its clocks write only while one of
\* its publishers is up, for any number of sockets dialled and of publishers lost and found again:
\* what a call that is over leaves behind does not last (connectWS, initPublisherPC).
THEOREM CallIsOne == TelemostSpec => []OneCall
<1>1. TelemostSpec => []CallInv
  BY CallStarts, CallKeeps, PTL DEF TelemostSpec
<1>2. QED
  BY <1>1, CallInvShows, PTL

----------------------------------------------------------------------------
(* The rooms of cups.online.                                               *)

\* A room that goes on without a join has the tokens of an earlier one.
TokensInv ==
    \A r \in Rooms :
        /\ room[r].at \in {"top", "waiting"} => room[r].needJoin \/ room[r].dead \/ room[r].tokens
        /\ room[r].at = "joining" => room[r].needJoin \/ room[r].dead

RoomsInv == CupsTypeOK /\ TokensInv

RoomOK(new) ==
    /\ new \in Room
    /\ new.at \in {"dialing", "handshake", "ready"} => new.tokens
    /\ new.at \in {"top", "waiting"} => new.needJoin \/ new.dead \/ new.tokens
    /\ new.at = "joining" => new.needJoin \/ new.dead

LEMMA RoomsNow ==
  ASSUME RoomsInv
  PROVE  /\ room \in [Rooms -> Room] /\ \A r \in Rooms : RoomOK(room[r])
         /\ cupsServer \in [Rooms -> [exists : BOOLEAN, good : BOOLEAN]]
         /\ cupsStage \in {"entering", "started", "failed"} /\ cupsClient \in BOOLEAN
         /\ cupsList \in {"none", "given", "new"} /\ cupsCancelled \in BOOLEAN /\ calm \in BOOLEAN
  BY DEF RoomsInv, CupsTypeOK, TokensInv, RoomOK

LEMMA RoomsOK ==
  ASSUME room' \in [Rooms -> Room], \A r \in Rooms : RoomOK(room'[r]),
         cupsServer' \in [Rooms -> [exists : BOOLEAN, good : BOOLEAN]],
         cupsStage' \in {"entering", "started", "failed"}, cupsClient' \in BOOLEAN,
         cupsList' \in {"none", "given", "new"}, cupsCancelled' \in BOOLEAN, calm' \in BOOLEAN
  PROVE  RoomsInv'
  BY DEF RoomsInv, CupsTypeOK, TokensInv, RoomOK

LEMMA RoomsStart == CupsInit => RoomsInv
<1> SUFFICES ASSUME CupsInit PROVE RoomsInv
  OBVIOUS
<1>1. 0 \in 0..DeadAfter + 2
  BY CupsAssumption
<1>2. room \in [Rooms -> Room] /\ cupsServer \in [Rooms -> [exists : BOOLEAN, good : BOOLEAN]]
  BY <1>1 DEF CupsInit, Room
<1>3. CupsTypeOK
  BY <1>2 DEF CupsInit, CupsTypeOK
<1>4. TokensInv
  BY DEF CupsInit, TokensInv
<1>5. QED
  BY <1>3, <1>4 DEF RoomsInv

\* A room moves: what it becomes is a room, with tokens wherever it needs them.
LEMMA RoomMoves ==
  ASSUME RoomsInv, NEW r \in Rooms, NEW new, RoomGoes(r, new), RoomOK(new),
         cupsServer' \in [Rooms -> [exists : BOOLEAN, good : BOOLEAN]]
  PROVE  RoomsInv'
<1>1. /\ room' = [room EXCEPT ![r] = new]
      /\ UNCHANGED <<cupsStage, cupsClient, cupsList, cupsCancelled, calm>>
  BY DEF RoomGoes, cupsCarrier
<1>2. room' \in [Rooms -> Room] /\ \A q \in Rooms : RoomOK(room'[q])
  BY <1>1, RoomsNow DEF RoomOK
<1>3. QED
  BY <1>1, <1>2, RoomsNow, RoomsOK

LEMMA NextFailsTyped == ASSUME NEW n \in 0..DeadAfter + 2 PROVE NextFails(n) \in 0..DeadAfter + 2
  BY CupsAssumption DEF NextFails

LEMMA RunKeeps ==
  ASSUME RoomsInv, NEW r \in Rooms, RunMoves(r) \/ ReadyFails(r)
  PROVE  RoomsInv'
<1>1. room[r] \in Room /\ RoomOK(room[r]) /\ cupsServer \in [Rooms -> [exists : BOOLEAN, good : BOOLEAN]]
  BY RoomsNow
<1>2. CASE RoomTop(r) \/ RoomWaits(r) \/ RoomDials(r)
  <2>1. PICK at \in {"ended", "joining", "dialing", "handshake", "top"} :
          /\ RoomGoes(r, [room[r] EXCEPT !.at = at])
          /\ at = "joining" => MustJoin(r)
          /\ at = "dialing" => room[r].at = "top" /\ ~MustJoin(r)
          /\ at = "top" => room[r].at = "waiting"
          /\ at = "handshake" => room[r].at = "dialing"
    BY <1>2 DEF RoomTop, RoomWaits, RoomDials
  <2> DEFINE new == [room[r] EXCEPT !.at = at]
  <2>2. new \in Room /\ new.at = at /\ new.needJoin = room[r].needJoin /\ new.dead = room[r].dead
        /\ new.tokens = room[r].tokens
    BY <1>1 DEF Room
  <2>3. RoomOK(new)
    BY <1>1, <2>1, <2>2 DEF RoomOK, MustJoin
  <2>4. cupsServer' = cupsServer
    BY <1>2 DEF RoomTop, RoomWaits, RoomDials
  <2>5. QED
    BY <1>1, <2>1, <2>3, <2>4, RoomMoves
<1>3. CASE Join(r)
  <2> DEFINE new == [room[r] EXCEPT !.at = "dialing", !.needJoin = FALSE, !.tokens = TRUE]
  <2>1. new \in Room /\ new.at = "dialing" /\ new.tokens
    BY <1>1 DEF Room
  <2>2. RoomOK(new)
    BY <2>1 DEF RoomOK
  <2>3. cupsServer' \in [Rooms -> [exists : BOOLEAN, good : BOOLEAN]]
    BY <1>1, <1>3 DEF Join
  <2>4. QED
    BY <1>3, <2>2, <2>3, RoomMoves DEF Join
<1>4. CASE JoinFails(r)
  <2> DEFINE gone == room[r].dead \/ ~cupsServer[r].exists
             new == [room[r] EXCEPT !.at = "waiting", !.dead = gone]
  <2>1. RoomGoes(r, new) /\ room[r].at = "joining" /\ cupsServer' = cupsServer
    BY <1>4 DEF JoinFails
  <2>2. gone \in BOOLEAN /\ (room[r].dead => gone)
    BY <1>1 DEF Room
  <2> HIDE DEF gone
  <2>3. new \in Room /\ new.at = "waiting" /\ new.needJoin = room[r].needJoin /\ new.dead = gone
    BY <1>1, <2>2 DEF Room
  <2>4. RoomOK(new)
    BY <1>1, <2>1, <2>2, <2>3 DEF RoomOK
  <2>5. QED
    BY <1>1, <2>1, <2>4, RoomMoves
<1>5. CASE Subscribed(r)
  <2> DEFINE new == [room[r] EXCEPT !.at = "ready", !.dead = FALSE]
  <2>1. RoomGoes(r, new) /\ room[r].at = "handshake" /\ cupsServer' = cupsServer
    BY <1>5 DEF Subscribed
  <2>2. new \in Room /\ new.at = "ready" /\ new.tokens = room[r].tokens
    BY <1>1 DEF Room
  <2>3. RoomOK(new)
    BY <1>1, <2>1, <2>2 DEF RoomOK
  <2>4. QED
    BY <1>1, <2>1, <2>3, RoomMoves
<1>6. CASE NotReady(r) \/ ReadyFails(r)
  <2>1. PICK at \in {"ended", "waiting"}, n \in 0..DeadAfter + 2, gone \in BOOLEAN, must \in BOOLEAN :
          RoomGoes(r, [room[r] EXCEPT !.at = at, !.fails = n, !.dead = gone, !.needJoin = must])
    <3>1. CASE NotReady(r)
      <4> DEFINE n == NextFails(room[r].fails)
                 at == IF cupsCancelled THEN "ended" ELSE "waiting"
                 gone == room[r].dead \/ n = DeadAfter
      <4>1. PICK refused \in {FALSE} \cup {room[r].at = "handshake"} :
              RoomGoes(r, [room[r] EXCEPT !.at = at, !.fails = n, !.dead = gone, !.needJoin = refused \/ Even(n)])
        BY <3>1 DEF NotReady
      <4> DEFINE must == refused \/ Even(n)
      <4>2. n \in 0..DeadAfter + 2
        BY <1>1, NextFailsTyped DEF Room
      <4>3. at \in {"ended", "waiting"} /\ gone \in BOOLEAN /\ must \in BOOLEAN
        OBVIOUS
      <4> HIDE DEF n, at, gone, must
      <4>4. RoomGoes(r, [room[r] EXCEPT !.at = at, !.fails = n, !.dead = gone, !.needJoin = must])
        BY <4>1 DEF must
      <4>5. QED
        BY <4>2, <4>3, <4>4
    <3>2. CASE ReadyFails(r)
      <4> DEFINE at == IF cupsCancelled THEN "ended" ELSE "waiting"
                 gone == room[r].dead
      <4>1. RoomGoes(r, [room[r] EXCEPT !.at = at, !.fails = 0, !.needJoin = FALSE])
        BY <3>2 DEF ReadyFails
      <4>2. [room[r] EXCEPT !.at = at, !.fails = 0, !.needJoin = FALSE]
              = [room[r] EXCEPT !.at = at, !.fails = 0, !.dead = gone, !.needJoin = FALSE]
        BY <1>1 DEF Room
      <4>3. at \in {"ended", "waiting"} /\ gone \in BOOLEAN /\ 0 \in 0..DeadAfter + 2
        BY <1>1, CupsAssumption DEF Room
      <4>4. QED
        BY <4>1, <4>2, <4>3
    <3>3. QED
      BY <1>6, <3>1, <3>2
  <2> DEFINE new == [room[r] EXCEPT !.at = at, !.fails = n, !.dead = gone, !.needJoin = must]
  <2>2. room[r].at \in {"dialing", "handshake", "ready"} /\ cupsServer' = cupsServer
    BY <1>6 DEF NotReady, ReadyFails
  <2>3. new \in Room /\ new.at = at /\ new.tokens = room[r].tokens
    BY <1>1 DEF Room
  <2>4. RoomOK(new)
    BY <1>1, <2>2, <2>3 DEF RoomOK
  <2>5. QED
    BY <1>1, <2>1, <2>2, <2>4, RoomMoves
<1>7. QED
  BY <1>2, <1>3, <1>4, <1>5, <1>6 DEF RunMoves

LEMMA EnterKeeps == ASSUME RoomsInv, EnterRooms PROVE RoomsInv'
<1>1. CASE Aborts
  BY <1>1, RoomsNow, RoomsOK DEF Aborts
<1>2. ASSUME NEW answer \in [Rooms -> {"joined", "gone", "silent"}], NEW list \in {"given", "new"}, Launch(answer, list)
      PROVE  RoomsInv'
  <2>1. \A r \in Rooms : Channel(answer, r) \in Room /\ RoomOK(Channel(answer, r))
    <3> SUFFICES ASSUME NEW r \in Rooms PROVE Channel(answer, r) \in Room /\ RoomOK(Channel(answer, r))
      OBVIOUS
    <3>1. 0 \in 0..DeadAfter + 2
      BY CupsAssumption
    <3>2. QED
      BY <3>1 DEF Channel, Room, RoomOK
  <2>2. room' = [r \in Rooms |-> Channel(answer, r)]
    BY <1>2 DEF Launch
  <2>3. room' \in [Rooms -> Room] /\ \A r \in Rooms : RoomOK(room'[r])
    BY <2>1, <2>2
  <2>4. cupsServer' \in [Rooms -> [exists : BOOLEAN, good : BOOLEAN]]
    BY <1>2, RoomsNow DEF Launch
  <2>5. UNCHANGED <<cupsClient, cupsCancelled, calm>> /\ cupsStage' = "started" /\ cupsList' = list
    BY <1>2 DEF Launch
  <2>6. QED
    BY <2>3, <2>4, <2>5, RoomsNow, RoomsOK
<1>3. [r \in Rooms |-> "joined"] \in [Rooms -> {"joined", "gone", "silent"}]
  OBVIOUS
<1>4. QED
  BY <1>1, <1>2, <1>3 DEF EnterRooms

LEMMA RoomsOutsideKeep ==
  ASSUME RoomsInv, DropAll \/ CupsStop \/ CalmsDown \/ (\E r \in Rooms : ServerActs(r))
  PROVE  RoomsInv'
<1>1. CASE DropAll
  <2>1. /\ room' = [r \in Rooms |-> IF room[r].at = "ready"
                      THEN [room[r] EXCEPT !.at = "waiting", !.fails = 0, !.needJoin = FALSE] ELSE room[r]]
        /\ UNCHANGED <<cupsStage, cupsClient, cupsList, cupsCancelled, cupsServer, calm>>
    BY <1>1 DEF DropAll, cupsCarrier
  <2>2. ASSUME NEW r \in Rooms PROVE RoomOK(room'[r])
    <3>1. CASE room[r].at = "ready"
      <4> DEFINE new == [room[r] EXCEPT !.at = "waiting", !.fails = 0, !.needJoin = FALSE]
      <4>1. room[r] \in Room /\ room[r].tokens /\ 0 \in 0..DeadAfter + 2
        BY <3>1, RoomsNow, CupsAssumption DEF RoomOK
      <4>2. new \in Room /\ new.at = "waiting" /\ new.tokens = room[r].tokens
        BY <4>1 DEF Room
      <4>3. room'[r] = new
        BY <2>1, <3>1
      <4>4. QED
        BY <4>1, <4>2, <4>3 DEF RoomOK
    <3>2. CASE room[r].at # "ready"
      BY <2>1, <3>2, RoomsNow
    <3>3. QED
      BY <3>1, <3>2
  <2>3. room' \in [Rooms -> Room]
    BY <2>1, <2>2 DEF RoomOK
  <2>4. QED
    BY <2>1, <2>2, <2>3, RoomsNow, RoomsOK
<1>2. CASE CupsStop \/ CalmsDown
  <2>1. /\ UNCHANGED <<cupsStage, cupsClient, cupsList, room, cupsServer>>
        /\ cupsCancelled' \in BOOLEAN /\ calm' \in BOOLEAN
    BY <1>2, RoomsNow DEF CupsStop, CalmsDown, cupsCarrier
  <2>2. QED
    BY <2>1, RoomsNow, RoomsOK
<1>3. ASSUME NEW r \in Rooms, ServerActs(r) PROVE RoomsInv'
  <2>1. UNCHANGED <<cupsStage, cupsClient, cupsList, cupsCancelled, room, calm>>
    BY <1>3 DEF ServerActs, cupsCarrier
  <2>2. cupsServer' \in [Rooms -> [exists : BOOLEAN, good : BOOLEAN]]
    <3>1. cupsServer[r].exists \in BOOLEAN /\ (~cupsServer[r].exists) \in BOOLEAN
      BY RoomsNow
    <3>2. CASE cupsServer' = [cupsServer EXCEPT ![r] = [exists |-> ~cupsServer[r].exists, good |-> FALSE]]
      BY <3>1, <3>2, RoomsNow
    <3>3. CASE cupsServer' = [cupsServer EXCEPT ![r].good = FALSE]
      BY <3>3, RoomsNow
    <3>4. QED
      BY <1>3, <3>2, <3>3 DEF ServerActs
  <2>3. QED
    BY <2>1, <2>2, RoomsNow, RoomsOK
<1>4. QED
  BY <1>1, <1>2, <1>3

LEMMA RoomsKeep == RoomsInv /\ [CupsNext]_cupsVars => RoomsInv'
<1> SUFFICES ASSUME RoomsInv, [CupsNext]_cupsVars PROVE RoomsInv'
  OBVIOUS
<1>1. CASE UNCHANGED cupsVars
  <2>1. UNCHANGED <<cupsStage, cupsClient, cupsList, cupsCancelled, room, cupsServer, calm>>
    BY <1>1 DEF cupsVars, cupsCarrier
  <2>2. QED
    BY <2>1, RoomsNow, RoomsOK
<1>2. CASE CupsNext
  BY <1>2, EnterKeeps, RoomsOutsideKeep, RunKeeps DEF CupsNext
<1>3. QED
  BY <1>1, <1>2

\* Whoever dials has the tokens of a join, and the count of failures stays where the code's
\* bookkeeping can tell it, for any rooms and any DeadAfter.
LEMMA RoomsTyped == CupsSpec => []CupsTypeOK
<1>1. CupsSpec => []RoomsInv
  BY RoomsStart, RoomsKeep, PTL DEF CupsSpec
<1>2. RoomsInv => CupsTypeOK
  BY DEF RoomsInv
<1>3. QED
  BY <1>1, <1>2, PTL

----------------------------------------------------------------------------
(* The lanes of a Telemost room.                                           *)

\* A finite set of numbers has an n-th smallest for each n up to its size.
LEMMA NthIsThere ==
  ASSUME NEW ns \in SUBSET Nat, IsFiniteSet(ns), NEW n \in 1..Cardinality(ns)
  PROVE  Nth(ns, n) \in ns
<1>1. \E k \in ns : Cardinality({j \in ns : j <= k}) = n
  BY Ranks
<1>2. QED
  BY <1>1 DEF Nth

Pass == [at : {"idle", "again", "assigning", "setting", "looking"}, lanes : 0..GroupLanes, settled : 0..RoomPeers,
         peers : Seq(RoomPeer), quiet : SUBSET RoomPeer, next : Seq(0..RoomPeers)]

\* No pass of recompute counts more lanes than there are, and the targets it has yet to set are
\* those of the last of them.
GroupInv ==
    /\ GroupTypeOK
    /\ recomputer \in [Recomputers -> Pass]
    /\ \A c \in Recomputers :
         /\ recomputer[c].lanes <= Len(targets)
         /\ Len(recomputer[c].next) <= recomputer[c].lanes

PassOK(pass, lanes) == pass \in Pass /\ pass.lanes <= lanes /\ Len(pass.next) <= pass.lanes

LEMMA GroupNow ==
  ASSUME GroupInv
  PROVE  /\ peer \in [RoomPeer -> {"absent", "live", "ghost", "gone"}]
         /\ told \in [RoomPeer -> {"nothing", "streaming", "gone"}]
         /\ settled \subseteq RoomPeer /\ silent \subseteq RoomPeer
         /\ targets \in Seq(0..RoomPeers) /\ Len(targets) <= GroupLanes
         /\ growing \in BOOLEAN /\ growths \in Nat /\ roomCalm \in BOOLEAN
         /\ recomputer \in [Recomputers -> Pass] /\ \A c \in Recomputers : PassOK(recomputer[c], Len(targets))
         /\ RoomPeers \in Nat /\ GroupLanes \in Nat /\ GroupLanes # 0
  BY TelemostGroupAssumption DEF GroupInv, GroupTypeOK, PassOK

LEMMA GroupOK ==
  ASSUME peer' \in [RoomPeer -> {"absent", "live", "ghost", "gone"}],
         told' \in [RoomPeer -> {"nothing", "streaming", "gone"}],
         settled' \subseteq RoomPeer, silent' \subseteq RoomPeer,
         targets' \in Seq(0..RoomPeers), Len(targets') <= GroupLanes,
         growing' \in BOOLEAN, growths' \in Nat, roomCalm' \in BOOLEAN,
         recomputer' \in [Recomputers -> Pass], \A c \in Recomputers : PassOK(recomputer'[c], Len(targets'))
  PROVE  GroupInv'
<1>1. \A c \in Recomputers :
         /\ recomputer'[c].at \in {"idle", "again", "assigning", "setting", "looking"}
         /\ recomputer'[c].lanes \in 0..GroupLanes /\ recomputer'[c].settled \in 0..RoomPeers
         /\ recomputer'[c].peers \in Seq(RoomPeer) /\ recomputer'[c].quiet \subseteq RoomPeer
         /\ recomputer'[c].next \in Seq(0..RoomPeers)
  BY DEF PassOK, Pass
<1>2. GroupTypeOK'
  BY <1>1 DEF GroupTypeOK
<1>3. QED
  BY <1>2 DEF GroupInv, PassOK

LEMMA IdleTyped == ASSUME GroupInv, NEW at \in {"idle", "again", "assigning", "setting", "looking"}
                   PROVE  PassOK([IdleRecompute EXCEPT !.at = at], Len(targets)) /\ PassOK(IdleRecompute, Len(targets))
<1>1. Len(targets) \in Nat /\ 0 \in 0..GroupLanes /\ 0 \in 0..RoomPeers
  BY GroupNow
<1>2. [IdleRecompute EXCEPT !.at = at]
        = [at |-> at, lanes |-> 0, settled |-> 0, peers |-> <<>>, quiet |-> {}, next |-> <<>>]
  BY DEF IdleRecompute
<1>3. \A a \in {"idle", "again", "assigning", "setting", "looking"} :
        PassOK([at |-> a, lanes |-> 0, settled |-> 0, peers |-> <<>>, quiet |-> {}, next |-> <<>>], Len(targets))
  <2> SUFFICES ASSUME NEW a \in {"idle", "again", "assigning", "setting", "looking"}
               PROVE  PassOK([at |-> a, lanes |-> 0, settled |-> 0, peers |-> <<>>, quiet |-> {}, next |-> <<>>],
                             Len(targets))
    OBVIOUS
  <2> DEFINE pass == [at |-> a, lanes |-> 0, settled |-> 0, peers |-> <<>>, quiet |-> {}, next |-> <<>>]
  <2>1. pass \in Pass
    BY <1>1 DEF Pass
  <2>2. pass.lanes = 0 /\ Len(pass.next) = 0
    OBVIOUS
  <2>3. QED
    BY <1>1, <2>1, <2>2 DEF PassOK
<1>4. QED
  BY <1>2, <1>3 DEF IdleRecompute

LEMMA GroupStarts == GroupInit => GroupInv
<1> SUFFICES ASSUME GroupInit PROVE GroupInv
  OBVIOUS
<1> USE TelemostGroupAssumption
<1>1. 0 \in 0..GroupLanes /\ 0 \in 0..RoomPeers /\ <<0>> \in Seq(0..RoomPeers) /\ Len(<<0>>) = 1 /\ 1 <= GroupLanes
  OBVIOUS
<1>2. IdleRecompute \in Pass /\ IdleRecompute.lanes = 0 /\ IdleRecompute.next = <<>>
  BY <1>1 DEF IdleRecompute, Pass
<1>3. recomputer \in [Recomputers -> Pass] /\ \A c \in Recomputers : recomputer[c] = IdleRecompute
  BY <1>2 DEF GroupInit
<1>4. \A c \in Recomputers :
         /\ recomputer[c].at \in {"idle", "again", "assigning", "setting", "looking"}
         /\ recomputer[c].lanes \in 0..GroupLanes /\ recomputer[c].settled \in 0..RoomPeers
         /\ recomputer[c].peers \in Seq(RoomPeer) /\ recomputer[c].quiet \subseteq RoomPeer
         /\ recomputer[c].next \in Seq(0..RoomPeers)
  BY <1>3 DEF Pass
<1>5. GroupTypeOK
  BY <1>1, <1>4 DEF GroupInit, GroupTypeOK
<1>6. QED
  BY <1>1, <1>2, <1>3, <1>5 DEF GroupInv, GroupInit

\* One goroutine goes on in its pass; the others stay where they are.
LEMMA PassGoesOn ==
  ASSUME GroupInv, NEW c \in Recomputers, NEW pass, PassOK(pass, Len(targets)),
         recomputer' = [recomputer EXCEPT ![c] = pass], UNCHANGED <<peer, settled, roomCalm>>,
         told' \in [RoomPeer -> {"nothing", "streaming", "gone"}], silent' \subseteq RoomPeer,
         targets' \in Seq(0..RoomPeers), Len(targets') = Len(targets),
         growing' \in BOOLEAN, growths' \in Nat
  PROVE  GroupInv'
<1>1. pass \in Pass
  BY DEF PassOK
<1>2. recomputer' \in [Recomputers -> Pass] /\ \A d \in Recomputers : PassOK(recomputer'[d], Len(targets'))
  BY <1>1, GroupNow
<1>3. QED
  BY <1>2, GroupNow, GroupOK

LEMMA RoomKeeps ==
  ASSUME GroupInv, RoomChanges \/ (\E p \in RoomPeer : SilenceEnds(p)) \/ AddLane
  PROVE  GroupInv'
<1>1. CASE PeerJoins \/ PeerLeaves \/ GhostFound
  <2>1. UNCHANGED <<told, settled, silent, targets, growing, growths, recomputer, roomCalm>>
    BY <1>1 DEF PeerJoins, PeerLeaves, GhostFound
  <2>2. peer' \in [RoomPeer -> {"absent", "live", "ghost", "gone"}]
    BY <1>1, GroupNow DEF PeerJoins, PeerLeaves, GhostFound
  <2>3. QED
    BY <2>1, <2>2, GroupNow, GroupOK
<1>2. CASE PeerSettles \/ RoomGoesCalm \/ (\E p \in RoomPeer : SilenceEnds(p))
  <2>1. /\ UNCHANGED <<peer, told, targets, growing, growths, recomputer>>
        /\ settled' \subseteq RoomPeer /\ silent' \subseteq silent /\ roomCalm' \in BOOLEAN
    BY <1>2, GroupNow DEF PeerSettles, RoomGoesCalm, SilenceEnds, roomVars
  <2>2. QED
    BY <2>1, GroupNow, GroupOK
<1>3. CASE AddLane
  <2>1. UNCHANGED <<peer, told, settled, silent, recomputer, roomCalm>> /\ growths > 0 /\ growths' = growths - 1
    BY <1>3 DEF AddLane, roomVars
  <2>2. growths' \in Nat
    BY <2>1, GroupNow
  <2>3. growing' \in BOOLEAN
    BY <1>3, GroupNow DEF AddLane
  <2>4. targets' \in Seq(0..RoomPeers) /\ Len(targets') <= GroupLanes /\ Len(targets) <= Len(targets')
    <3>1. CASE targets' = targets
      BY <3>1, GroupNow
    <3>2. CASE targets' # targets
      <4>1. targets' = Append(targets, 0) /\ Len(targets) < GroupLanes
        BY <1>3, <3>2 DEF AddLane
      <4>2. 0 \in 0..RoomPeers
        BY GroupNow
      <4>3. QED
        BY <4>1, <4>2, GroupNow
    <3>3. QED
      BY <3>1, <3>2
  <2>5. \A c \in Recomputers : PassOK(recomputer'[c], Len(targets'))
    <3>1. \A c \in Recomputers : recomputer[c].lanes \in Nat /\ PassOK(recomputer[c], Len(targets))
      BY GroupNow DEF Pass
    <3>2. Len(targets) \in Nat /\ Len(targets') \in Nat
      BY <2>4, GroupNow
    <3>3. QED
      BY <2>1, <2>4, <3>1, <3>2 DEF PassOK
  <2>6. QED
    BY <2>1, <2>2, <2>3, <2>4, <2>5, GroupNow, GroupOK
<1>4. QED
  BY <1>1, <1>2, <1>3 DEF RoomChanges

LEMMA DescribeKeeps == ASSUME GroupInv, NEW r \in RoomReaders, Describe(r) PROVE GroupInv'
<1>1. r \in Recomputers
  BY DEF Recomputers
<1>2. /\ UNCHANGED <<peer, settled, silent, targets, growing, growths, roomCalm>>
      /\ recomputer' = [recomputer EXCEPT ![r].at = "again"]
      /\ \E p \in RoomPeer : told' = [told EXCEPT ![p] = Known(p)]
  BY DEF Describe
<1>3. told' \in [RoomPeer -> {"nothing", "streaming", "gone"}]
  <2>1. \A p \in RoomPeer : Known(p) \in {"nothing", "streaming", "gone"}
    BY GroupNow DEF Known
  <2>2. QED
    BY <1>2, <2>1, GroupNow
<1> DEFINE pass == [recomputer[r] EXCEPT !.at = "again"]
<1>4. recomputer' = [recomputer EXCEPT ![r] = pass]
  BY <1>2
<1>5. PassOK(pass, Len(targets))
  <2>1. PassOK(recomputer[r], Len(targets))
    BY <1>1, GroupNow
  <2>2. QED
    BY <2>1 DEF PassOK, Pass
<1> HIDE DEF pass
<1>6. QED
  BY <1>1, <1>2, <1>3, <1>4, <1>5, GroupNow, PassGoesOn

LEMMA InOrderTyped ==
  ASSUME NEW ps \in SUBSET RoomPeer
  PROVE  InOrder(ps) \in Seq(RoomPeer) /\ IsFiniteSet(ps) /\ Cardinality(ps) \in 0..RoomPeers
<1>1. RoomPeers \in Nat
  BY TelemostGroupAssumption
<1>2. IsFiniteSet(RoomPeer) /\ Cardinality(RoomPeer) = RoomPeers
  BY <1>1, FS_Interval DEF RoomPeer
<1>3. IsFiniteSet(ps) /\ Cardinality(ps) <= RoomPeers /\ Cardinality(ps) \in Nat
  BY <1>2, FS_Subset, FS_CardinalityType
<1>4. ps \in SUBSET Nat
  BY DEF RoomPeer
<1>5. \A n \in 1..Cardinality(ps) : Nth(ps, n) \in RoomPeer
  BY <1>3, <1>4, NthIsThere
<1>6. InOrder(ps) \in Seq(RoomPeer)
  BY <1>3, <1>5 DEF InOrder
<1>7. QED
  BY <1>1, <1>3, <1>6

LEMMA SnapshotKeeps == ASSUME GroupInv, NEW c \in Recomputers, Snapshot(c) PROVE GroupInv'
<1> DEFINE pass == [at |-> "assigning", lanes |-> Len(targets), settled |-> Cardinality((Listed \ silent) \cap settled),
                    peers |-> InOrder(Listed \ silent) \o InOrder(Listed \cap silent), quiet |-> Listed \cap silent,
                    next |-> <<>>]
<1>1. /\ UNCHANGED <<peer, told, settled, roomCalm, silent, targets, growing, growths>>
      /\ recomputer' = [recomputer EXCEPT ![c] = pass]
  BY DEF Snapshot, roomVars
<1>2. Listed \ silent \in SUBSET RoomPeer /\ Listed \cap silent \in SUBSET RoomPeer
      /\ (Listed \ silent) \cap settled \in SUBSET RoomPeer
  BY DEF Listed
<1>3. Cardinality((Listed \ silent) \cap settled) \in 0..RoomPeers
  BY <1>2, InOrderTyped
<1>4. InOrder(Listed \ silent) \in Seq(RoomPeer) /\ InOrder(Listed \cap silent) \in Seq(RoomPeer)
  BY <1>2, InOrderTyped
<1>5. InOrder(Listed \ silent) \o InOrder(Listed \cap silent) \in Seq(RoomPeer)
  BY <1>4
<1>6. Len(targets) \in 0..GroupLanes
  BY GroupNow
<1>7. PassOK(pass, Len(targets))
  <2>1. pass \in Pass
    BY <1>2, <1>3, <1>5, <1>6 DEF Pass
  <2>2. pass.lanes = Len(targets) /\ Len(pass.next) = 0
    OBVIOUS
  <2>3. QED
    BY <1>6, <2>1, <2>2 DEF PassOK
<1> HIDE DEF pass
<1>8. QED
  BY <1>1, <1>7, GroupNow, PassGoesOn

\* A lane keeps a peer it has, or takes one of those that are free, if there are so many.
LEMMA AssignedTyped ==
  ASSUME GroupInv, NEW c \in Recomputers
  PROVE  Assigned(c) \in Seq(0..RoomPeers) /\ Len(Assigned(c)) = recomputer[c].lanes
<1>1. /\ recomputer[c].lanes \in Nat /\ recomputer[c].lanes <= Len(targets) /\ Len(targets) \in Nat
      /\ recomputer[c].peers \in Seq(RoomPeer) /\ targets \in Seq(0..RoomPeers)
  BY GroupNow DEF PassOK, Pass
<1> DEFINE lanes == recomputer[c].lanes
           peers == recomputer[c].peers
<1>2. Free(c) \in SUBSET Nat /\ IsFiniteSet(Free(c)) /\ Cardinality(Free(c)) \in Nat
      /\ \A k \in Free(c) : peers[k] \in RoomPeer
  <2>1. Free(c) \subseteq 1..Len(peers) /\ Len(peers) \in Nat
    BY <1>1 DEF Free
  <2>2. IsFiniteSet(1..Len(peers))
    BY <2>1, FS_Interval
  <2>3. IsFiniteSet(Free(c)) /\ Cardinality(Free(c)) \in Nat
    BY <2>1, <2>2, FS_Subset, FS_CardinalityType
  <2>4. QED
    BY <1>1, <2>1, <2>3
<1>3. ASSUME NEW i \in 1..lanes, i \notin Kept(c),
             Cardinality({j \in 1..i : j \notin Kept(c)}) <= Cardinality(Free(c))
      PROVE  peers[Nth(Free(c), Cardinality({j \in 1..i : j \notin Kept(c)}))] \in 0..RoomPeers
  <2> DEFINE n == Cardinality({j \in 1..i : j \notin Kept(c)})
  <2>0. i \in Nat /\ i \in 1..i
    BY <1>1, <1>3
  <2>1. i \in {j \in 1..i : j \notin Kept(c)} /\ {j \in 1..i : j \notin Kept(c)} \in SUBSET (1..i)
    BY <1>3, <2>0
  <2>2. IsFiniteSet({j \in 1..i : j \notin Kept(c)})
    BY <2>0, <2>1, FS_Interval, FS_Subset
  <2>3. n \in Nat /\ n # 0
    BY <2>1, <2>2, FS_CardinalityType, FS_EmptySet
  <2>4. n \in 1..Cardinality(Free(c))
    BY <1>2, <1>3, <2>3
  <2> HIDE DEF n
  <2>5. Nth(Free(c), n) \in Free(c)
    BY <1>2, <2>4, NthIsThere
  <2>6. peers[Nth(Free(c), n)] \in RoomPeer
    BY <1>2, <2>5
  <2>7. QED
    BY <2>6 DEF n, RoomPeer
<1>4. \A i \in 1..lanes : targets[i] \in 0..RoomPeers /\ 0 \in 0..RoomPeers
  BY <1>1, GroupNow
<1>5. \A i \in 1..lanes : Assigned(c)[i] \in 0..RoomPeers
  <2> SUFFICES ASSUME NEW i \in 1..lanes PROVE Assigned(c)[i] \in 0..RoomPeers
    OBVIOUS
  <2>1. Assigned(c)[i] = IF i \in Kept(c) THEN targets[i]
            ELSE IF Cardinality({j \in 1..i : j \notin Kept(c)}) <= Cardinality(Free(c))
                 THEN peers[Nth(Free(c), Cardinality({j \in 1..i : j \notin Kept(c)}))] ELSE 0
    BY DEF Assigned
  <2>2. CASE i \in Kept(c)
    BY <1>4, <2>1, <2>2
  <2>3. CASE i \notin Kept(c)
    BY <1>3, <1>4, <2>1, <2>3
  <2>4. QED
    BY <2>2, <2>3
<1>6. DOMAIN Assigned(c) = 1..lanes /\ Assigned(c) = [i \in 1..lanes |-> Assigned(c)[i]]
  BY DEF Assigned
<1> DEFINE new == Assigned(c)
<1> HIDE DEF new
<1>7. new \in Seq(0..RoomPeers) /\ Len(new) = lanes
  <2>1. new \in [1..lanes -> 0..RoomPeers]
    BY <1>5, <1>6 DEF new
  <2>2. lanes \in Nat
    BY <1>1
  <2> HIDE DEF lanes
  <2>3. QED
    BY <2>1, <2>2, FunctionIsSeq
<1>8. QED
  BY <1>7 DEF new

LEMMA AssignKeeps == ASSUME GroupInv, NEW c \in Recomputers, Assign(c) PROVE GroupInv'
<1> DEFINE pass == [IdleRecompute EXCEPT !.at = "setting", !.lanes = recomputer[c].lanes, !.next = Assigned(c)]
<1>1. /\ UNCHANGED <<peer, told, settled, roomCalm, silent, targets>>
      /\ recomputer' = [recomputer EXCEPT ![c] = pass]
      /\ growths' = IF Grows(c) THEN growths + 1 ELSE growths
  BY DEF Assign, roomVars
<1>2. growing' \in BOOLEAN
  BY GroupNow DEF Assign, Grows
<1>3. growths' \in Nat
  BY <1>1, GroupNow
<1>4. PassOK(pass, Len(targets))
  <2> DEFINE lanes == recomputer[c].lanes
             next == Assigned(c)
  <2>1. next \in Seq(0..RoomPeers) /\ Len(next) = lanes
    BY AssignedTyped
  <2>2. lanes \in 0..GroupLanes /\ lanes <= Len(targets) /\ lanes \in Nat /\ 0 \in 0..RoomPeers
    BY GroupNow DEF PassOK, Pass
  <2>3. pass = [IdleRecompute EXCEPT !.at = "setting", !.lanes = lanes, !.next = next]
    OBVIOUS
  <2> HIDE DEF lanes, next, pass
  <2>4. pass = [at |-> "setting", lanes |-> lanes, settled |-> 0, peers |-> <<>>, quiet |-> {}, next |-> next]
    BY <2>3 DEF IdleRecompute
  <2>5. pass \in Pass
    BY <2>1, <2>2, <2>4 DEF Pass
  <2>6. pass.lanes = lanes /\ pass.next = next
    BY <2>4
  <2>7. QED
    BY <2>1, <2>2, <2>5, <2>6 DEF PassOK
<1> HIDE DEF pass
<1>5. QED
  BY <1>1, <1>2, <1>3, <1>4, GroupNow, PassGoesOn

LEMMA SetKeeps == ASSUME GroupInv, NEW c \in Recomputers, SetTarget(c) PROVE GroupInv'
<1>1. UNCHANGED <<peer, told, settled, roomCalm, silent, growing, growths>>
  BY DEF SetTarget, roomVars
<1>2. PassOK(recomputer[c], Len(targets)) /\ recomputer[c] \in Pass
  BY GroupNow DEF PassOK
<1>3. CASE recomputer[c].next = <<>>
  <2> DEFINE pass == [recomputer[c] EXCEPT !.at = "looking"]
  <2>1. recomputer' = [recomputer EXCEPT ![c] = pass] /\ targets' = targets
    BY <1>3 DEF SetTarget
  <2>2. PassOK(pass, Len(targets))
    BY <1>2 DEF PassOK, Pass
  <2> HIDE DEF pass
  <2>3. QED
    BY <1>1, <2>1, <2>2, GroupNow, PassGoesOn
<1>4. CASE recomputer[c].next # <<>>
  <2> DEFINE next == recomputer[c].next
             lane == recomputer[c].lanes - Len(next) + 1
             pass == [recomputer[c] EXCEPT !.next = Tail(next)]
  <2>1. recomputer' = [recomputer EXCEPT ![c] = pass] /\ targets' = [targets EXCEPT ![lane] = Head(next)]
    BY <1>4 DEF SetTarget
  <2>2. /\ next \in Seq(0..RoomPeers) /\ Len(next) <= recomputer[c].lanes /\ recomputer[c].lanes <= Len(targets)
        /\ recomputer[c].lanes \in Nat /\ Len(targets) \in Nat /\ targets \in Seq(0..RoomPeers)
    BY <1>2, GroupNow DEF PassOK, Pass
  <2>3. /\ Head(next) \in 0..RoomPeers /\ Tail(next) \in Seq(0..RoomPeers) /\ Len(Tail(next)) = Len(next) - 1
        /\ Len(next) \in Nat /\ Len(next) # 0
    BY <1>4, <2>2, FirstElement
  <2>4. lane \in 1..Len(targets)
    BY SMTT(40), <2>2, <2>3
  <2> HIDE DEF lane
  <2>5. targets' \in Seq(0..RoomPeers) /\ Len(targets') = Len(targets)
    BY <2>1, <2>2, <2>3, <2>4
  <2>6. PassOK(pass, Len(targets))
    <3>1. pass \in Pass /\ pass.lanes = recomputer[c].lanes /\ pass.next = Tail(next)
      BY <1>2, <2>3 DEF Pass
    <3> HIDE DEF pass
    <3>2. QED
      BY <2>2, <2>3, <3>1 DEF PassOK
  <2> HIDE DEF pass
  <2>7. QED
    BY <1>1, <2>1, <2>5, <2>6, GroupNow, PassGoesOn
<1>5. QED
  BY <1>3, <1>4

LEMMA LookKeeps == ASSUME GroupInv, NEW c \in Recomputers, Look(c) PROVE GroupInv'
<1>1. UNCHANGED <<peer, told, settled, roomCalm, targets, growing, growths>>
  BY DEF Look, roomVars
<1>2. PICK heard \in SUBSET {targets[i] : i \in 1..recomputer[c].lanes} :
         /\ \A i \in 1..recomputer[c].lanes : targets[i] \in heard => Silent(targets[i])
         /\ silent' = silent \cup heard
         /\ recomputer' = [recomputer EXCEPT ![c] =
              [IdleRecompute EXCEPT !.at = IF heard \subseteq silent THEN "idle" ELSE "again"]]
  BY DEF Look
<1>3. recomputer[c].lanes \in Nat /\ recomputer[c].lanes <= Len(targets) /\ targets \in Seq(0..RoomPeers)
  BY GroupNow DEF PassOK, Pass
<1>4. ASSUME NEW i \in 1..recomputer[c].lanes PROVE targets[i] \in 0..RoomPeers
  <2>1. i \in Nat /\ i >= 1 /\ i <= Len(targets)
    BY <1>3, GroupNow
  <2>2. QED
    BY <1>3, <2>1, WhereElement
<1>5. heard \subseteq RoomPeer
  <2>1. ASSUME NEW p \in heard PROVE p \in RoomPeer
    <3>1. PICK i \in 1..recomputer[c].lanes : p = targets[i]
      BY <1>2
    <3>2. p # 0
      BY <1>2, <3>1 DEF Silent
    <3>3. QED
      BY <1>4, <3>1, <3>2, GroupNow DEF RoomPeer
  <2>2. QED
    BY <2>1
<1> DEFINE at == IF heard \subseteq silent THEN "idle" ELSE "again"
           pass == [IdleRecompute EXCEPT !.at = at]
<1>6. at \in {"idle", "again", "assigning", "setting", "looking"} /\ recomputer' = [recomputer EXCEPT ![c] = pass]
  BY <1>2
<1> HIDE DEF at
<1>7. PassOK(pass, Len(targets))
  BY <1>6, IdleTyped
<1> HIDE DEF pass
<1>8. silent' \subseteq RoomPeer
  BY <1>2, <1>5, GroupNow
<1>9. QED
  BY <1>1, <1>6, <1>7, <1>8, GroupNow, PassGoesOn

LEMMA GroupKeeps == GroupInv /\ [GroupNext]_groupVars => GroupInv'
<1> SUFFICES ASSUME GroupInv, [GroupNext]_groupVars PROVE GroupInv'
  OBVIOUS
<1>1. CASE UNCHANGED groupVars
  BY <1>1, GroupNow, GroupOK DEF groupVars
<1>2. CASE GroupNext
  BY <1>2, RoomKeeps, DescribeKeeps, SnapshotKeeps, AssignKeeps, SetKeeps, LookKeeps DEF GroupNext, Recompute
<1>3. QED
  BY <1>1, <1>2

----------------------------------------------------------------------------
(* The parts side by side: a step of one is a stutter of the others.  What *)
(* two of them share are the flags of BaseTransport.                       *)

RecoveryInv == RoomsInv /\ CallInv /\ GroupInv /\ DirectInv

LEMMA CupsStepsAside ==
  ASSUME CallInv, CupsNext, UNCHANGED tmOwn
  PROVE  CallInv'
<1>1. running' \in BOOLEAN /\ connected' \in BOOLEAN
  BY CallNow DEF CupsNext, EnterRooms, Launch, Aborts, DropAll, CupsStop, Stopped, CalmsDown, RunMoves, RoomTop, Join,
     JoinFails, RoomDials, Subscribed, NotReady, RoomWaits, ReadyFails, ServerActs, RoomGoes, cupsCarrier
<1>2. UNCHANGED <<tmChain, tmOpen, tmShown, tmHeard, tmInbox, tmCalls, tmFlaps, trackReady, tmClocks, tmStop, tmCalm>>
  BY DEF tmOwn, tmSocket, tmMedia
<1>3. TelemostTypeOK'
  BY <1>1, <1>2, CallNow DEF TelemostTypeOK, FlagsOK, Chain
<1>4. OneSocketInv' /\ ReadyMeansUp'
  BY <1>2, CallNow DEF OneSocketInv, ReadyMeansUp, TmCurrent
<1>5. QED
  BY <1>3, <1>4 DEF CallInv

LEMMA RecoveryStarts == RecoveryInit => RecoveryInv
  BY RoomsStart, CallStarts, GroupStarts, DirectStarts DEF RecoveryInit, RecoveryInv

LEMMA RecoveryKeeps == RecoveryInv /\ [RecoveryNext]_recoveryVars => RecoveryInv'
<1> SUFFICES ASSUME RecoveryInv, [RecoveryNext]_recoveryVars PROVE RecoveryInv'
  OBVIOUS
<1>1. [GroupNext]_groupVars
  BY DEF RecoveryNext, recoveryVars
<1>2. [DirectNext]_directVars
  BY DEF RecoveryNext, recoveryVars
<1>3. GroupInv' /\ DirectInv'
  BY <1>1, <1>2, GroupKeeps, DirectKeeps DEF RecoveryInv
<1>4. RoomsInv'
  <2>1. CASE CupsNext
    BY <2>1, RoomsKeep DEF RecoveryInv
  <2>2. CASE UNCHANGED cupsOwn
    <3>1. UNCHANGED <<cupsStage, cupsClient, cupsList, cupsCancelled, room, cupsServer, calm>>
      BY <2>2 DEF cupsOwn
    <3>2. QED
      BY <3>1, RoomsNow, RoomsOK DEF RecoveryInv
  <2>3. QED
    BY <2>1, <2>2 DEF RecoveryNext, recoveryVars
<1>5. CallInv'
  <2>1. CASE TelemostNext
    BY <2>1, CallKeeps DEF RecoveryInv
  <2>2. CASE CupsNext /\ UNCHANGED tmOwn
    BY <2>2, CupsStepsAside DEF RecoveryInv
  <2>3. CASE UNCHANGED <<baseVars, tmOwn>>
    <3>1. UNCHANGED tmVars
      BY <2>3 DEF baseVars, tmOwn, tmVars
    <3>2. QED
      BY <3>1, CallKeeps DEF RecoveryInv
  <2>4. QED
    BY <2>1, <2>2, <2>3 DEF RecoveryNext, recoveryVars
<1>6. QED
  BY <1>3, <1>4, <1>5 DEF RecoveryInv

\* The carriers keep their types in every behaviour of every one of them, for any bounds: whoever
\* dials a room has the tokens of a join, and no pass of recompute sets a lane that is not there.
THEOREM RecoveryTyped == RecoverySpec => []RecoveryTypesOK
<1>1. RecoverySpec => []RecoveryInv
  BY RecoveryStarts, RecoveryKeeps, PTL DEF RecoverySpec
<1>2. RecoveryInv => RecoveryTypesOK
  BY DEF RecoveryInv, RoomsInv, CallInv, GroupInv, DirectInv, RecoveryTypesOK
<1>3. QED
  BY <1>1, <1>2, PTL

\* What the carriers promise of themselves holds when all of them run and two share their flags: a
\* call has one live socket and one pair at most, and the records of a link come in order.
THEOREM RecoveryIsSound == RecoverySpec => [](OneCall /\ RecordsInOrder)
<1>1. RecoverySpec => []RecoveryInv
  BY RecoveryStarts, RecoveryKeeps, PTL DEF RecoverySpec
<1>2. RecoveryInv => OneCall /\ RecordsInOrder
  BY CallInvShows DEF RecoveryInv, DirectInv
<1>3. QED
  BY <1>1, <1>2, PTL
=============================================================================
