--------------------------------- MODULE Mts --------------------------------
(***************************************************************************)
(* The MTS Link whiteboard carrier (transport/mts/mts.go).  One goroutine  *)
(* gets a guest identity, tries the main and the reserve server, serves    *)
(* the session and waits; one writer for the life of the carrier puts      *)
(* packets into messages and stashes what has no session to go out on;     *)
(* the ping of a session, the writer and callers force reconnects.         *)
(***************************************************************************)
EXTENDS BaseTransport, Naturals, SequencesExt

CONSTANTS
    MtsCallers,     \* goroutines that call ForceReconnect: the pings and the host
    MtsWakes,       \* channels that end a wait
    MaxMtsPackets,  \* bound on the packets sent
    MtsBatch,       \* packets in a message (batchCount, or batchBytes)
    MtsStash        \* packets that are kept without a session (mtsStashBytes)

ASSUME MtsAssumption ==
    /\ MtsWakes \subseteq Nat \ {0} /\ "writer" \notin MtsCallers
    /\ MaxMtsPackets \in Nat /\ MtsBatch \in Nat \ {0} /\ MtsStash \in Nat

VARIABLES
    mtsStopping,  \* how far Stop is; t.done is closed from its first step on
    mtsLoop,      \* where connectLoop is
    mtsReserve,   \* the second of the two servers is tried
    mtsShown,     \* t.session is set
    mtsSocket,    \* the socket of the session
    mtsToken,     \* forceChan holds a token
    mtsWake,      \* the channel of the wait, and the published one (t.wakeChan)
    mtsClosed,    \* channels that are closed
    mtsForcing,   \* who is in ForceReconnect, and the channel they are about to close
    mtsPanicked,  \* a channel was closed twice
    mtsWriter,    \* where writerLoop is
    mtsPackets    \* where the packets are: queue, batch, stash, and those the board got

mtsLink == <<mtsReserve, mtsShown, mtsSocket>>
mtsWaiting == <<mtsToken, mtsWake, mtsClosed, mtsForcing, mtsPanicked>>
mtsSending == <<mtsWriter, mtsPackets>>
mtsVars == <<running, connected, mtsStopping, mtsLoop, mtsLink, mtsWaiting, mtsSending>>

MtsForcers == MtsCallers \cup {"writer"}
MtsDone == mtsStopping # "no"
MtsIds == 1..MaxMtsPackets

MtsTypeOK ==
    /\ mtsStopping \in {"no", "closing", "flags", "done"}
    /\ mtsLoop \in {"slot", "guest", "dial", "handshake", "live", "between", "failed", "arm",
                    "wait", "ended"}
    /\ mtsReserve \in BOOLEAN /\ mtsShown \in BOOLEAN /\ mtsSocket \in {"none", "open", "closed"}
    /\ mtsToken \in BOOLEAN
    /\ mtsWake \in [awaited : MtsWakes \cup {0}, shown : MtsWakes \cup {0}]
    /\ mtsWake.shown \in {0, mtsWake.awaited} /\ mtsClosed \subseteq MtsWakes
    /\ mtsForcing \in [MtsForcers -> [begins : BOOLEAN, wake : MtsWakes \cup {0}]]
    /\ mtsPanicked \in BOOLEAN
    /\ mtsWriter \in {"idle", "gather", "write", "writeOld", "writeClosed", "ended"}
    /\ \A p \in {"queue", "batch", "stash", "board"} : ToSet(mtsPackets[p]) \subseteq MtsIds
    /\ mtsPackets.sent \in 0..MaxMtsPackets /\ mtsPackets.dropped \subseteq MtsIds

MtsNotForcing == [begins |-> FALSE, wake |-> 0]

\* Start has begun connectLoop and writerLoop.
MtsInit ==
    /\ mtsStopping = "no" /\ mtsLoop = "slot"
    /\ mtsReserve = FALSE /\ mtsShown = FALSE /\ mtsSocket = "none"
    /\ mtsToken = FALSE /\ mtsWake = [awaited |-> 0, shown |-> 0] /\ mtsClosed = {}
    /\ mtsForcing = [f \in MtsForcers |-> MtsNotForcing] /\ mtsPanicked = FALSE
    /\ mtsWriter = "idle"
    /\ mtsPackets = [queue |-> <<>>, batch |-> <<>>, stash |-> <<>>, board |-> <<>>,
                     sent |-> 0, dropped |-> {}, signal |-> FALSE]
----------------------------------------------------------------------------
(* connectLoop, connectAndServe, dialAndServe *)

MtsGoes(from, to) ==
    /\ mtsLoop = from /\ mtsLoop' = to
    /\ UNCHANGED <<running, mtsStopping>>

\* t.done is looked at before an attempt, and while it waits for a slot.
MtsSlot ==
    /\ MtsGoes("slot", IF MtsDone THEN "ended" ELSE "guest")
    /\ mtsReserve' = FALSE
    /\ UNCHANGED <<connected, mtsShown, mtsSocket, mtsWaiting, mtsSending>>

\* fetchGuestSession; when the pods cannot be had it goes on with pod 1.
MtsGuest ==
    /\ MtsGoes("guest", "dial") \/ MtsGoes("guest", "failed")
    /\ UNCHANGED <<connected, mtsLink, mtsWaiting, mtsSending>>

\* The session is there for all to see before its handshake.
MtsDial ==
    /\ MtsGoes("dial", "handshake")
    /\ mtsShown' = TRUE /\ mtsSocket' = "open"
    /\ UNCHANGED <<connected, mtsReserve, mtsWaiting, mtsSending>>

\* Dial or handshake fails; the board may reject the session for good, else the reserve
\* server is tried after a pause.
MtsServerFails ==
    /\ \/ MtsGoes("dial", "between")
       \/ MtsGoes("handshake", "between") \/ MtsGoes("handshake", "failed")
    /\ mtsShown' = FALSE /\ mtsSocket' = "none"
    /\ mtsWriter' = IF mtsWriter = "write" THEN "writeClosed" ELSE mtsWriter
    /\ UNCHANGED <<connected, mtsReserve, mtsWaiting, mtsPackets>>

\* The pause ends after a second, or at once at a token, whatever put it there.
MtsBetween ==
    /\ MtsGoes("between", IF mtsReserve \/ MtsDone THEN "failed" ELSE "dial")
    /\ mtsReserve' = (~mtsReserve /\ ~MtsDone)
    /\ mtsToken' \in {mtsToken, FALSE}
    /\ UNCHANGED <<connected, mtsShown, mtsSocket, mtsWake, mtsClosed, mtsForcing, mtsPanicked, mtsSending>>

\* The handshake is done: EventConnected, and the writer is told about the stash.
MtsConnected ==
    /\ mtsSocket = "open" /\ MtsGoes("handshake", "live")
    /\ connected' = TRUE
    /\ mtsPackets' = [mtsPackets EXCEPT !.signal = TRUE]
    /\ UNCHANGED <<mtsLink, mtsWaiting, mtsWriter>>

\* Mutant: the session stays published when its read loop is left.
StillShown == mtsShown
NoneShown == FALSE

\* A read fails, or t.done is closed.  Nobody closes the socket here.
MtsServeEnds ==
    /\ MtsGoes("live", "failed")
    /\ mtsShown' = NoneShown /\ mtsSocket' = "none" /\ connected' = FALSE
    /\ mtsWriter' = IF mtsWriter # "write" THEN mtsWriter
                    ELSE IF mtsSocket = "open" THEN "writeOld" ELSE "writeClosed"
    /\ UNCHANGED <<mtsReserve, mtsWaiting, mtsPackets>>

\* EventRetrying
MtsRetrying ==
    /\ MtsGoes("failed", "arm")
    /\ UNCHANGED <<connected, mtsLink, mtsWaiting, mtsSending>>

HeldMtsWakes == {mtsWake.awaited} \cup {mtsForcing[f].wake : f \in MtsForcers}

MtsArm ==
    /\ MtsGoes("arm", "wait")
    /\ \E w \in MtsWakes \ HeldMtsWakes :
         mtsWake' = [awaited |-> w, shown |-> w] /\ mtsClosed' = mtsClosed \ {w}
    /\ UNCHANGED <<connected, mtsLink, mtsToken, mtsForcing, mtsPanicked, mtsSending>>

\* A wait that Stop ends leaves its channel published.
MtsWaitEnds ==
    /\ \/ MtsGoes("wait", "slot") /\ mtsWake' = [awaited |-> 0, shown |-> 0]
       \/ MtsDone /\ MtsGoes("wait", "ended") /\ UNCHANGED mtsWake
    /\ UNCHANGED <<connected, mtsLink, mtsToken, mtsClosed, mtsForcing, mtsPanicked, mtsSending>>
----------------------------------------------------------------------------
(* ForceReconnect, by a caller, the ping of a session or the writer *)

Forces(f) == mtsForcing' = [mtsForcing EXCEPT ![f].begins = TRUE]

MtsCall(f) ==
    /\ mtsForcing[f] = MtsNotForcing /\ Forces(f)
    /\ UNCHANGED <<running, connected, mtsStopping, mtsLoop, mtsLink, mtsToken, mtsWake, mtsClosed,
                   mtsPanicked, mtsSending>>

\* A ping cannot be written, at which its connection is closed; the reconnect comes later.
MtsPingFails(f) ==
    /\ mtsLoop = "live" /\ mtsForcing[f] = MtsNotForcing /\ Forces(f)
    /\ mtsSocket' = "closed"
    /\ UNCHANGED <<running, connected, mtsStopping, mtsLoop, mtsReserve, mtsShown, mtsToken, mtsWake,
                   mtsClosed, mtsPanicked, mtsSending>>

\* Mutant: the channel is not claimed.
MtsLeavesWake == mtsWake
MtsClaimsWake == [mtsWake EXCEPT !.shown = 0]

\* It leaves a token, and closes the connection of the session there is by now, or else claims
\* the channel of a wait.
MtsForce(f) ==
    /\ mtsForcing[f].begins
    /\ mtsToken' = TRUE
    /\ IF mtsShown
       THEN /\ mtsSocket' = "closed" /\ UNCHANGED mtsWake
            /\ mtsForcing' = [mtsForcing EXCEPT ![f] = MtsNotForcing]
       ELSE /\ mtsWake' = MtsClaimsWake /\ UNCHANGED mtsSocket
            /\ mtsForcing' = [mtsForcing EXCEPT ![f] = [begins |-> FALSE, wake |-> mtsWake.shown]]
    /\ UNCHANGED <<running, connected, mtsStopping, mtsLoop, mtsReserve, mtsShown, mtsClosed,
                   mtsPanicked, mtsSending>>

MtsCloseWake(f) ==
    /\ mtsForcing[f].wake # 0
    /\ mtsPanicked' = (mtsForcing[f].wake \in mtsClosed)
    /\ mtsClosed' = mtsClosed \cup {mtsForcing[f].wake}
    /\ mtsForcing' = [mtsForcing EXCEPT ![f] = MtsNotForcing]
    /\ UNCHANGED <<running, connected, mtsStopping, mtsLoop, mtsLink, mtsToken, mtsWake, mtsSending>>
----------------------------------------------------------------------------
(* Send, writerLoop and flush *)

MtsSends(packets, at) ==
    /\ mtsPackets' = packets /\ mtsWriter' = at
    /\ UNCHANGED <<running, connected, mtsStopping, mtsLoop>>

MtsSend ==
    /\ mtsPackets.sent < MaxMtsPackets
    /\ LET p == mtsPackets.sent + 1
       IN  MtsSends([mtsPackets EXCEPT !.sent = p, !.queue = Append(@, p)], mtsWriter)
    /\ UNCHANGED <<mtsLink, mtsWaiting>>

\* What is stashed follows the packet that woke the writer, up to the size of a message.
MtsRoom(batch) ==
    LET free == MtsBatch - Len(batch)
    IN  IF free < Len(mtsPackets.stash) THEN free ELSE Len(mtsPackets.stash)

\* Mutant: what the message has no room for is forgotten.
ForgetsRest(taken) == <<>>
RestOfStash(taken) == SubSeq(mtsPackets.stash, taken + 1, Len(mtsPackets.stash))

WithStash(first) ==
    [mtsPackets EXCEPT !.batch = first \o SubSeq(mtsPackets.stash, 1, MtsRoom(first)),
                       !.stash = RestOfStash(MtsRoom(first))]

\* A packet wakes the writer, or the signal of a new session.
MtsTake ==
    /\ mtsWriter = "idle"
    /\ \/ /\ mtsPackets.queue # <<>>
          /\ MtsSends([WithStash(<<Head(mtsPackets.queue)>>) EXCEPT !.queue = Tail(@)], "gather")
       \/ /\ mtsPackets.signal
          /\ MtsSends([WithStash(<<>>) EXCEPT !.signal = FALSE], "gather")
    /\ UNCHANGED <<mtsLink, mtsWaiting>>

\* More packets that are there, or that come while the writer lingers.
MtsGather ==
    /\ mtsWriter = "gather" /\ mtsPackets.queue # <<>> /\ Len(mtsPackets.batch) < MtsBatch
    /\ MtsSends([mtsPackets EXCEPT !.batch = Append(@, Head(mtsPackets.queue)), !.queue = Tail(mtsPackets.queue)],
                "gather")
    /\ UNCHANGED <<mtsLink, mtsWaiting>>

\* stashPackets, up to its bound; what does not fit is dropped.
Stashed(batch) ==
    LET all == mtsPackets.stash \o batch
        kept == SubSeq(all, 1, IF Len(all) < MtsStash THEN Len(all) ELSE MtsStash)
    IN  [mtsPackets EXCEPT !.batch = <<>>, !.stash = kept,
                           !.dropped = @ \cup (ToSet(batch) \ ToSet(kept))]

\* flush looks for a session once.
MtsFlush ==
    /\ mtsWriter = "gather"
    /\ CASE mtsPackets.batch = <<>> -> MtsSends(mtsPackets, "idle")
         [] mtsPackets.batch # <<>> /\ mtsShown -> MtsSends(mtsPackets, "write")
         [] mtsPackets.batch # <<>> /\ ~mtsShown -> MtsSends(Stashed(mtsPackets.batch), "idle")
    /\ UNCHANGED <<mtsLink, mtsWaiting>>

\* The message goes out on that session; one that is over may have a socket still.
MtsWrites ==
    /\ \/ mtsWriter = "write" /\ mtsLoop = "live" /\ mtsSocket = "open"
       \/ mtsWriter = "writeOld"
    /\ MtsSends([mtsPackets EXCEPT !.batch = <<>>, !.board = @ \o mtsPackets.batch], "idle")
    /\ UNCHANGED <<mtsLink, mtsWaiting>>

\* A session whose handshake is not over refuses it; so may the socket, which is closed then.
MtsWriteFails ==
    /\ mtsWriter \in {"write", "writeOld", "writeClosed"} /\ mtsForcing["writer"] = MtsNotForcing
    /\ MtsSends(Stashed(mtsPackets.batch), "idle")
    /\ mtsSocket' = IF mtsWriter = "write" /\ mtsLoop = "live" THEN "closed" ELSE mtsSocket
    /\ Forces("writer")
    /\ UNCHANGED <<mtsReserve, mtsShown, mtsToken, mtsWake, mtsClosed, mtsPanicked>>

\* t.done, while the writer waits or lingers.
MtsWriterEnds ==
    /\ MtsDone /\ mtsWriter \in {"idle", "gather"}
    /\ MtsSends([mtsPackets EXCEPT !.batch = <<>>, !.dropped = @ \cup ToSet(mtsPackets.batch)], "ended")
    /\ UNCHANGED <<mtsLink, mtsWaiting>>
----------------------------------------------------------------------------
(* Stop: t.done, the connection of the session, the flags *)

MtsStop ==
    /\ \/ mtsStopping = "no" /\ mtsStopping' = "closing" /\ UNCHANGED <<running, connected, mtsSocket>>
       \/ /\ mtsStopping = "closing" /\ mtsStopping' = "flags"
          /\ mtsSocket' = IF mtsShown THEN "closed" ELSE mtsSocket
          /\ UNCHANGED <<running, connected>>
       \/ mtsStopping = "flags" /\ mtsStopping' = "done" /\ Stopped /\ UNCHANGED mtsSocket
    /\ UNCHANGED <<mtsLoop, mtsReserve, mtsShown, mtsWaiting, mtsSending>>

MtsNext ==
    \/ MtsSlot \/ MtsGuest \/ MtsDial \/ MtsServerFails \/ MtsBetween \/ MtsConnected
    \/ MtsServeEnds \/ MtsRetrying \/ MtsArm \/ MtsWaitEnds
    \/ \E f \in MtsCallers : MtsCall(f) \/ MtsPingFails(f)
    \/ \E f \in MtsForcers : MtsForce(f) \/ MtsCloseWake(f)
    \/ MtsSend \/ MtsTake \/ MtsGather \/ MtsFlush \/ MtsWrites \/ MtsWriteFails \/ MtsWriterEnds
    \/ MtsStop

MtsSpec == Started /\ MtsInit /\ [][MtsNext]_mtsVars
----------------------------------------------------------------------------
\* A wait is never ended twice: closing a closed channel would end the process (ForceReconnect).
MtsWakesOnce == ~mtsPanicked

\* A session that was published is over when nobody serves it: ForceReconnect then ends a wait,
\* and flush stashes instead of writing to it.
MtsShownIsServed == mtsShown <=> mtsLoop \in {"handshake", "live"}

\* A packet is at one place at a time, whatever session refused it, and none is lost but those
\* the stash had no room for and those under way when the carrier was stopped (writerLoop, flush).
MtsAccounted ==
    LET all == mtsPackets.queue \o mtsPackets.batch \o mtsPackets.stash \o mtsPackets.board
    IN  /\ IsInjective(all)
        /\ (1..mtsPackets.sent) \ ToSet(all) = mtsPackets.dropped

\* What a carrier promises (Carrier).
MtsPhase ==
    CASE mtsLoop = "live" -> "up"
      [] mtsLoop = "failed" -> "failed"
      [] mtsLoop \in {"arm", "wait"} -> "pausing"
      [] mtsLoop = "ended" -> "over"
      [] OTHER -> "trying"
MtsPromised == INSTANCE Carrier WITH phase <- MtsPhase
MtsKeepsOrder == MtsPromised!CarrierSpec

\* Traffic does not end a handshake: the writer never closes the connection of a session that
\* is not up yet (flush).
HandshakeIsLeftAlone ==
    [][mtsForcing["writer"].begins /\ ~mtsForcing'["writer"].begins => mtsLoop # "handshake"]_mtsVars

\* Packets reach the board in the order they were sent.
MtsInOrder == \A i, j \in DOMAIN mtsPackets.board : i < j => mtsPackets.board[i] < mtsPackets.board[j]
=============================================================================
