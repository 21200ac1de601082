------------------------------- MODULE Direct -------------------------------
(***************************************************************************)
(* The direct TCP carrier (transport/direct.go): a client that dials again *)
(* whenever its connection is lost, an exit that serves the connections it *)
(* is offered one after the other.  The records go from the client to the  *)
(* exit, each as a header and a body; a connection that breaks loses the   *)
(* end of what was written to it.                                          *)
(***************************************************************************)
EXTENDS Naturals, SequencesExt

CONSTANTS
    MaxDials,    \* bound on the connections
    MaxRecords,  \* bound on the records sent
    QueueRecords \* MaxQueueSize

ASSUME DirectAssumption == MaxDials \in Nat /\ MaxRecords \in Nat /\ QueueRecords \in Nat \ {0}

VARIABLES
    dials,       \* the connections so far; they are numbered
    wires,       \* each connection: whether it is open, and the pieces under way
    clientConn,  \* the client's t.conn
    sentRecords, \* the records given to Send
    queued,      \* the client's t.queue
    recordWriter,\* the client's writerLoop
    exitConn,    \* the exit's t.conn
    exitUp,      \* what the exit's IsConnected says
    acceptor,    \* the exit's acceptLoop
    exitStop,    \* how far the exit's Stop is
    handedOn     \* the records the exit gave to its callback

dialing == <<dials, clientConn>>
writing == <<sentRecords, queued, recordWriter>>
accepting == <<exitConn, exitUp, acceptor>>
directVars == <<dialing, wires, writing, accepting, exitStop, handedOn>>

Dialed == 1..MaxDials
Records == 1..MaxRecords
RecordPieces == Records \X {"head", "body"}

DirectTypeOK ==
    /\ dials \in 0..MaxDials /\ clientConn \in 0..MaxDials
    /\ wires \in [Dialed -> [open : BOOLEAN, pieces : Seq(RecordPieces)]]
    /\ sentRecords \in 0..MaxRecords /\ queued \in Seq(Records) /\ Len(queued) <= QueueRecords
    /\ recordWriter \in [at : {"take", "look", "head", "body"}, record : 0..MaxRecords,
                         conn : 0..MaxDials]
    /\ exitConn \in 0..MaxDials /\ exitUp \in BOOLEAN
    /\ acceptor \in [at : {"top", "listener", "accepting", "publish", "show", "serving", "panicked",
                           "ended"}, conn : 0..MaxDials, head : BOOLEAN]
    /\ exitStop \in {"running", "done", "closed", "stopped"}
    /\ handedOn \in Seq(Records)

\* Both ends were started.
DirectInit ==
    /\ dials = 0 /\ clientConn = 0
    /\ wires = [c \in Dialed |-> [open |-> FALSE, pieces |-> <<>>]]
    /\ sentRecords = 0 /\ queued = <<>>
    /\ recordWriter = [at |-> "take", record |-> 0, conn |-> 0]
    /\ exitConn = 0 /\ exitUp = FALSE
    /\ acceptor = [at |-> "top", conn |-> 0, head |-> FALSE]
    /\ exitStop = "running" /\ handedOn = <<>>

Shut(c) == [wires EXCEPT ![c].open = FALSE]
----------------------------------------------------------------------------
(* The client *)

\* dialLoop: the kernel of the exit takes the connection, served or not.
DialExit ==
    /\ clientConn = 0 /\ dials < MaxDials /\ exitStop \in {"running", "done"}
    /\ dials' = dials + 1 /\ clientConn' = dials + 1
    /\ wires' = [wires EXCEPT ![dials + 1].open = TRUE]
    /\ UNCHANGED <<writing, accepting, exitStop, handedOn>>

\* The network, or the other end, breaks it; what is under way may be lost from any piece on.
ConnBreaks(c) ==
    /\ wires[c].open
    /\ \E n \in 0..Len(wires[c].pieces) :
         wires' = [wires EXCEPT ![c] = [open |-> FALSE, pieces |-> SubSeq(@.pieces, 1, n)]]
    /\ UNCHANGED <<dialing, writing, accepting, exitStop, handedOn>>

\* serveConn of the client returns.
ClientDrops ==
    /\ clientConn # 0 /\ ~wires[clientConn].open
    /\ clientConn' = 0
    /\ UNCHANGED <<dials, wires, writing, accepting, exitStop, handedOn>>

\* Send: a full queue drops the record.
SendRecord ==
    /\ sentRecords < MaxRecords
    /\ sentRecords' = sentRecords + 1
    /\ queued' = IF Len(queued) < QueueRecords THEN Append(queued, sentRecords + 1) ELSE queued
    /\ UNCHANGED <<dialing, wires, recordWriter, accepting, exitStop, handedOn>>

WriterTakes ==
    /\ recordWriter.at = "take" /\ queued # <<>>
    /\ queued' = Tail(queued)
    /\ recordWriter' = [at |-> "look", record |-> Head(queued), conn |-> 0]
    /\ UNCHANGED <<dialing, wires, sentRecords, accepting, exitStop, handedOn>>

\* The record is held until there is a connection.
WriterLooks ==
    /\ recordWriter.at = "look" /\ clientConn # 0
    /\ recordWriter' = [recordWriter EXCEPT !.at = "head", !.conn = clientConn]
    /\ UNCHANGED <<dialing, wires, sentRecords, queued, accepting, exitStop, handedOn>>

Written(piece) ==
    wires' = [wires EXCEPT ![recordWriter.conn].pieces = Append(@, <<recordWriter.record, piece>>)]

WriteHead ==
    /\ recordWriter.at = "head" /\ wires[recordWriter.conn].open
    /\ Written("head")
    /\ recordWriter' = [recordWriter EXCEPT !.at = "body"]
    /\ UNCHANGED <<dialing, sentRecords, queued, accepting, exitStop, handedOn>>

AfterBody == [at |-> "take", record |-> 0, conn |-> 0]
\* Mutant: the record that was written stays pending.
StillPending == [recordWriter EXCEPT !.at = "look", !.conn = 0]
WriterKeeps == AfterBody

WriteBody ==
    /\ recordWriter.at = "body" /\ wires[recordWriter.conn].open
    /\ Written("body")
    /\ recordWriter' = WriterKeeps
    /\ UNCHANGED <<dialing, sentRecords, queued, accepting, exitStop, handedOn>>

\* The record stays pending and is written again, to whatever connection there is then.
RecordWriteFails ==
    /\ recordWriter.at \in {"head", "body"} /\ ~wires[recordWriter.conn].open
    /\ recordWriter' = [recordWriter EXCEPT !.at = "look", !.conn = 0]
    /\ UNCHANGED <<dialing, wires, sentRecords, queued, accepting, exitStop, handedOn>>
----------------------------------------------------------------------------
(* The exit *)

StopSeen == exitStop # "running"

CheckDone ==
    /\ acceptor.at = "top"
    /\ acceptor' = [acceptor EXCEPT !.at = IF StopSeen THEN "ended" ELSE "listener"]
    /\ UNCHANGED <<dialing, wires, writing, exitConn, exitUp, exitStop, handedOn>>

\* t.listener, which Stop sets to nil, is read without the lock.
ReadListener ==
    /\ acceptor.at = "listener"
    /\ acceptor' = [acceptor EXCEPT !.at = IF exitStop \in {"closed", "stopped"}
                                           THEN "panicked" ELSE "accepting"]
    /\ UNCHANGED <<dialing, wires, writing, exitConn, exitUp, exitStop, handedOn>>

\* The next connection of the backlog, open or not.
AcceptConn ==
    /\ acceptor.at = "accepting" /\ acceptor.conn < dials
    /\ exitStop \in {"running", "done"}
    /\ acceptor' = [acceptor EXCEPT !.at = "publish", !.conn = @ + 1]
    /\ UNCHANGED <<dialing, wires, writing, exitConn, exitUp, exitStop, handedOn>>

AcceptFails ==
    /\ acceptor.at = "accepting" /\ exitStop \in {"closed", "stopped"}
    /\ acceptor' = [acceptor EXCEPT !.at = "ended"]
    /\ UNCHANGED <<dialing, wires, writing, exitConn, exitUp, exitStop, handedOn>>

\* serveConn up to its read loop.
PublishConn ==
    /\ acceptor.at = "publish"
    /\ acceptor' = [acceptor EXCEPT !.at = "show"]
    /\ exitConn' = acceptor.conn
    /\ UNCHANGED <<dialing, wires, writing, exitUp, exitStop, handedOn>>

\* It looks once whether the carrier was stopped, and then waits for a record.
AfterShow == IF StopSeen THEN "leaving" ELSE "serving"
\* Mutant: the read loop begins without a look at done.
ServesAnyway == "serving"
Served == AfterShow

ServeLeaves ==
    /\ acceptor' = [acceptor EXCEPT !.at = "top", !.head = FALSE]
    /\ exitConn' = IF exitConn = acceptor.conn THEN 0 ELSE exitConn
    /\ exitUp' = FALSE
    /\ wires' = Shut(acceptor.conn)

ShowExitConn ==
    /\ acceptor.at = "show"
    /\ IF Served = "serving"
       THEN /\ acceptor' = [acceptor EXCEPT !.at = "serving"] /\ exitUp' = TRUE
            /\ UNCHANGED <<exitConn, wires>>
       ELSE ServeLeaves
    /\ UNCHANGED <<dialing, writing, exitStop, handedOn>>

\* A record that is complete is handed on, after which done is looked at again.
ReadPiece ==
    /\ acceptor.at = "serving" /\ wires[acceptor.conn].pieces # <<>>
    /\ LET piece == Head(wires[acceptor.conn].pieces)
       IN  /\ handedOn' = IF piece[2] = "body" THEN Append(handedOn, piece[1]) ELSE handedOn
           /\ IF piece[2] = "body" /\ Served # "serving" THEN ServeLeaves
              ELSE /\ wires' = [wires EXCEPT ![acceptor.conn].pieces = Tail(@)]
                   /\ acceptor' = [acceptor EXCEPT !.head = (piece[2] = "head")]
                   /\ UNCHANGED <<exitConn, exitUp>>
    /\ UNCHANGED <<dialing, writing, exitStop>>

\* A read fails: the connection broke, or Stop closed it.
ReadEnds ==
    /\ acceptor.at = "serving"
    /\ ~wires[acceptor.conn].open /\ wires[acceptor.conn].pieces = <<>>
    /\ ServeLeaves
    /\ UNCHANGED <<dialing, writing, exitStop, handedOn>>

CloseDone ==
    /\ exitStop = "running" /\ exitStop' = "done"
    /\ UNCHANGED <<dialing, wires, writing, accepting, handedOn>>

\* The locked part of Stop.
CloseListener ==
    /\ exitStop = "done" /\ exitStop' = "closed"
    /\ exitConn' = 0
    /\ wires' = [c \in Dialed |->
                    IF c = exitConn \/ c > acceptor.conn THEN [open |-> FALSE, pieces |-> <<>>]
                    ELSE wires[c]]
    /\ UNCHANGED <<dialing, writing, exitUp, acceptor, handedOn>>

ExitDisconnected ==
    /\ exitStop = "closed" /\ exitStop' = "stopped"
    /\ exitUp' = FALSE
    /\ UNCHANGED <<dialing, wires, writing, exitConn, acceptor, handedOn>>
----------------------------------------------------------------------------
AcceptLoop ==
    \/ CheckDone \/ ReadListener \/ AcceptConn \/ AcceptFails
    \/ PublishConn \/ ShowExitConn \/ ReadPiece \/ ReadEnds
ClientSteps == DialExit \/ ClientDrops \/ SendRecord
WriterLoop == WriterTakes \/ WriterLooks \/ WriteHead \/ WriteBody \/ RecordWriteFails
StopExit == CloseDone \/ CloseListener \/ ExitDisconnected

DirectNext ==
    \/ AcceptLoop \/ ClientSteps \/ WriterLoop \/ StopExit
    \/ \E c \in Dialed : ConnBreaks(c)

\* The goroutine of acceptLoop is scheduled, a Stop that began goes on.  Nothing makes a peer
\* write, or a network report that a connection is dead.
DirectSpec ==
    DirectInit /\ [][DirectNext]_directVars
    /\ WF_directVars(AcceptLoop) /\ WF_directVars(CloseListener \/ ExitDisconnected)
----------------------------------------------------------------------------
\* Over all the connections the exit hands on each record at most once and in the order of Send,
\* although a record that was not written whole is written again, and a new connection is used
\* by the client while the exit still reads the one before (writerLoop, acceptLoop).
RecordsInOrder == \A i, j \in 1..Len(handedOn) : i < j => handedOn[i] < handedOn[j]

\* Stop ends the accept loop, whether the connection it serves was published before Stop took
\* the lock or after it: nobody else would close that one (serveConn, Stop).
ServingEnded == acceptor.at \in {"ended", "panicked"}
StopEndsServing == StopSeen ~> ServingEnded

\* What acceptLoop takes for granted, and Stop does not keep: the listener is there to accept.
ListenerIsThere == acceptor.at # "panicked"
=============================================================================
