------------------------------ MODULE Telemost ------------------------------
(***************************************************************************)
(* One participant of a Telemost call (transport/yandex/telemost.go): the  *)
(* signalling socket and the goroutine that dials, reads and dials again;  *)
(* the pair of peer connections each server hello makes; the publish clock *)
(* each of them starts.  Peer connections outlive the socket they were     *)
(* negotiated over, and all of them report to the one trackReady.          *)
(***************************************************************************)
EXTENDS BaseTransport, Naturals, FiniteSets, SequencesExt

CONSTANTS
    TmSockets,  \* bound on the sockets dialled
    TmFlaps     \* bound on the times a publisher comes up again after it was lost

ASSUME TelemostAssumption == TmSockets \in Nat \ {0} /\ TmFlaps \in Nat

VARIABLES
    tmChain,    \* the goroutine of connectWS: where it is, and its socket
    tmOpen,     \* the sockets that are open
    tmShown,    \* t.conn, 0 for nil
    tmHeard,    \* what the server heard over each socket
    tmInbox,    \* what the server said over each, not read yet
    tmCalls,    \* the peer connections made so far, one pair for each server hello
    tmFlaps,    \* times a publisher came up again
    trackReady, \* t.trackReady
    tmClocks,   \* runPublisherKeepalive of each pair
    tmStop,     \* how far Stop is
    tmCalm      \* the network and the callers are quiet from now on

tmSocket == <<tmChain, tmOpen, tmShown, tmHeard, tmInbox>>
tmMedia == <<tmCalls, tmFlaps, trackReady, tmClocks>>
tmVars == <<running, connected, tmSocket, tmMedia, tmStop, tmCalm>>

TmSocket == 1..TmSockets
TmSaid == {"early", "hello", "offer", "answer"}
TmTold == {"serverHello", "publisherAnswer", "subscriberOffer"}
\* publisher, subscriber: the states of the two peer connections.
TmCall == [socket : TmSocket, publisher : {"new", "answered", "up", "lost", "closed"},
           subscriber : {"new", "answered", "closed"}]

TelemostTypeOK ==
    /\ FlagsOK
    /\ tmChain \in [at : {"dialing", "hello", "reading", "over", "waiting", "ended"}, socket : 0..TmSockets]
    /\ tmOpen \subseteq TmSocket /\ tmShown \in 0..TmSockets
    /\ tmHeard \in [TmSocket -> SUBSET TmSaid] /\ tmInbox \in [TmSocket -> Seq(TmTold)]
    /\ tmCalls \in Seq(TmCall) /\ tmFlaps \in 0..TmFlaps /\ trackReady \in BOOLEAN
    /\ tmClocks \in Seq({"unbound", "ticking", "gone"}) /\ Len(tmClocks) = Len(tmCalls)
    /\ tmStop \in {"no", "socket", "publisher", "done"} /\ tmCalm \in BOOLEAN

\* Start joined the room over HTTP and called connectWS.
TelemostInit ==
    /\ Started
    /\ tmChain = [at |-> "dialing", socket |-> 0]
    /\ tmOpen = {} /\ tmShown = 0
    /\ tmHeard = [s \in TmSocket |-> {}] /\ tmInbox = [s \in TmSocket |-> <<>>]
    /\ tmCalls = <<>> /\ tmFlaps = 0 /\ trackReady = FALSE /\ tmClocks = <<>>
    /\ tmStop = "no" /\ tmCalm = FALSE

\* Bound: no socket breaks unless another one can be dialled.
TmMoreSockets == tmChain.socket < TmSockets
----------------------------------------------------------------------------
(* connectWS and scheduleReconnect *)

TmGoes(at) == tmChain' = [tmChain EXCEPT !.at = at]

\* The socket is published whether or not Stop ran while it was dialled.
TmDials ==
    /\ tmChain.at = "dialing" /\ tmChain.socket < TmSockets
    /\ LET s == tmChain.socket + 1
       IN  /\ tmChain' = [at |-> "hello", socket |-> s]
           /\ tmOpen' = tmOpen \cup {s} /\ tmShown' = s
    /\ connected' = TRUE
    /\ UNCHANGED <<running, tmHeard, tmInbox, tmMedia, tmStop, tmCalm>>

TmDialFails ==
    /\ tmChain.at = "dialing" /\ ~tmCalm
    /\ TmGoes("over")
    /\ UNCHANGED <<running, connected, tmOpen, tmShown, tmHeard, tmInbox, tmMedia, tmStop, tmCalm>>

\* writeWSMessage takes whatever socket is shown.
TmWrites(what) ==
    tmHeard' = IF tmShown \in tmOpen THEN [tmHeard EXCEPT ![tmShown] = @ \cup {what}] ELSE tmHeard

TmHello ==
    /\ tmChain.at = "hello" /\ tmShown \in tmOpen
    /\ TmWrites("hello")
    /\ TmGoes("reading")
    /\ UNCHANGED <<running, connected, tmOpen, tmShown, tmInbox, tmMedia, tmStop, tmCalm>>

\* Mutant: a socket that failed is left to itself.
LeavesSocket(s) == tmOpen
ClosesSocket(s) == tmOpen \ {s}

\* Mutant: a hello that could not be sent is the end of it.
GivesUpHello == "ended"
AfterHelloFails == "over"

TmHelloFails ==
    /\ tmChain.at = "hello"
    /\ tmShown \notin tmOpen \/ (~tmCalm /\ TmMoreSockets)
    /\ TmGoes(AfterHelloFails)
    /\ tmOpen' = ClosesSocket(tmChain.socket) /\ connected' = FALSE
    /\ UNCHANGED <<running, tmShown, tmHeard, tmInbox, tmMedia, tmStop, tmCalm>>

\* A read fails: the socket was closed, by either end, or what came over it made no sense.
TmReadFails ==
    /\ tmChain.at = "reading" /\ running
    /\ tmChain.socket \notin tmOpen \/ (~tmCalm /\ TmMoreSockets)
    /\ TmGoes("over")
    /\ tmOpen' = ClosesSocket(tmChain.socket) /\ connected' = FALSE
    /\ UNCHANGED <<running, tmShown, tmHeard, tmInbox, tmMedia, tmStop, tmCalm>>

\* The loop ends on the flag without closing anything.
TmLeaves ==
    /\ tmChain.at = "reading" /\ ~running
    /\ TmGoes("ended")
    /\ UNCHANGED <<running, connected, tmOpen, tmShown, tmHeard, tmInbox, tmMedia, tmStop, tmCalm>>

\* scheduleReconnect, up to its wait and then after it.
TmSchedules ==
    /\ tmChain.at = "over"
    /\ TmGoes(IF running THEN "waiting" ELSE "ended")
    /\ UNCHANGED <<running, connected, tmOpen, tmShown, tmHeard, tmInbox, tmMedia, tmStop, tmCalm>>

TmWaitEnds ==
    /\ tmChain.at = "waiting"
    /\ TmGoes(IF running THEN "dialing" ELSE "ended")
    /\ UNCHANGED <<running, connected, tmOpen, tmShown, tmHeard, tmInbox, tmMedia, tmStop, tmCalm>>
----------------------------------------------------------------------------
(* handleTextMessage: the reader is the only one to handle messages *)

TmCurrent == Len(tmCalls)
TmRead(what) ==
    LET s == tmChain.socket
    IN  /\ tmChain.at = "reading" /\ running /\ tmInbox[s] # <<>> /\ Head(tmInbox[s]) = what
        /\ tmInbox' = [tmInbox EXCEPT ![s] = Tail(@)]

\* initWebRTC and initPublisherPC: the new pair takes the place of the old, which nobody closes.
NewSubscriber == "new"
NewPublisher ==
    /\ tmCalls' = Append(tmCalls, [socket |-> tmChain.socket, publisher |-> "new",
                                   subscriber |-> NewSubscriber])
    /\ trackReady' = FALSE
    /\ tmClocks' = Append(tmClocks, "unbound")
TmOffers == TmWrites("offer")

TmServerHello ==
    /\ TmRead("serverHello")
    /\ NewPublisher /\ TmOffers
    /\ UNCHANGED <<running, connected, tmChain, tmOpen, tmShown, tmFlaps, tmStop, tmCalm>>

\* handlePublisherAnswer: the answer goes to the publisher there is now, if it takes one.
TmPublisherAnswer ==
    /\ TmRead("publisherAnswer")
    /\ tmCalls' = IF tmCalls[TmCurrent].publisher = "new"
                  THEN [tmCalls EXCEPT ![TmCurrent].publisher = "answered"] ELSE tmCalls
    /\ UNCHANGED <<running, connected, tmChain, tmOpen, tmShown, tmHeard, tmFlaps, trackReady,
                   tmClocks, tmStop, tmCalm>>

\* handleSubscriberOffer
TmSubscriberOffer ==
    /\ TmRead("subscriberOffer")
    /\ IF tmCalls[TmCurrent].subscriber = "closed" THEN UNCHANGED <<tmCalls, tmHeard>>
       ELSE /\ tmCalls' = [tmCalls EXCEPT ![TmCurrent].subscriber = "answered"]
            /\ TmWrites("answer")
    /\ UNCHANGED <<running, connected, tmChain, tmOpen, tmShown, tmFlaps, trackReady, tmClocks,
                   tmStop, tmCalm>>
----------------------------------------------------------------------------
(* The peer connections and their callbacks *)

\* The media path of a publisher comes up, for the first time or again.
TmComesUp(c) ==
    /\ \/ tmCalls[c].publisher = "answered" /\ UNCHANGED tmFlaps
       \/ tmCalls[c].publisher = "lost" /\ tmFlaps < TmFlaps /\ tmFlaps' = tmFlaps + 1
    /\ tmCalls' = [tmCalls EXCEPT ![c].publisher = "up"]
    /\ trackReady' = TRUE
    /\ UNCHANGED <<running, connected, tmSocket, tmClocks, tmStop, tmCalm>>

\* Mutant: a publisher that is merely disconnected counts as ready still.
ReadyUntilFailed == trackReady
NotReadyNow == FALSE

\* It is lost: the network, or the server no longer knows this participant.
TmGoesDown(c) ==
    /\ tmCalls[c].publisher = "up"
    /\ tmCalls' = [tmCalls EXCEPT ![c].publisher = "lost"]
    /\ trackReady' = NotReadyNow
    /\ UNCHANGED <<running, connected, tmSocket, tmFlaps, tmClocks, tmStop, tmCalm>>

\* The clock of a publisher ticks once the answer bound its track, or was never started.  It
\* ends for no reason after that.
TmClockStarts(c) ==
    /\ tmClocks[c] = "unbound"
    /\ \/ tmCalls[c].publisher \in {"answered", "up", "lost"}
            /\ tmClocks' = [tmClocks EXCEPT ![c] = "ticking"]
       \/ tmCalls[c].publisher = "new" /\ ~tmCalm /\ tmClocks' = [tmClocks EXCEPT ![c] = "gone"]
    /\ UNCHANGED <<running, connected, tmSocket, tmCalls, tmFlaps, trackReady, tmStop, tmCalm>>
----------------------------------------------------------------------------
(* The loops that write on a clock, to the socket that is shown, greeted or not.  The first   *)
(* runs from Start on, the others from the first server hello on, and none of them ends.      *)

TmChatters ==
    /\ running /\ tmShown \in tmOpen /\ "hello" \notin tmHeard[tmShown]
    /\ TmWrites("early")
    /\ UNCHANGED <<running, connected, tmChain, tmOpen, tmShown, tmInbox, tmMedia, tmStop, tmCalm>>

TmPings == TmChatters
TmReports == tmCalls # <<>> /\ TmChatters
TmRefreshesSlots == tmCalls # <<>> /\ TmChatters
----------------------------------------------------------------------------
(* The callers *)

\* ForceReconnect
TmForce ==
    /\ tmShown \in tmOpen /\ ~tmCalm /\ TmMoreSockets
    /\ tmOpen' = tmOpen \ {tmShown}
    /\ UNCHANGED <<running, connected, tmChain, tmShown, tmHeard, tmInbox, tmMedia, tmStop, tmCalm>>

TmStopSocket ==
    /\ tmStop = "no" /\ ~tmCalm /\ tmStop' = "socket"
    /\ tmOpen' = tmOpen \ {tmShown} /\ tmShown' = 0
    /\ UNCHANGED <<running, connected, tmChain, tmHeard, tmInbox, tmMedia, tmCalm>>

\* Stop closes the pair there is now.
TmStopPair ==
    /\ tmStop = "socket" /\ tmStop' = "publisher"
    /\ IF tmCalls = <<>> THEN UNCHANGED <<tmCalls, trackReady>>
       ELSE /\ tmCalls' = [tmCalls EXCEPT ![TmCurrent].publisher = "closed",
                                          ![TmCurrent].subscriber = "closed"]
            /\ trackReady' = NotReadyNow
    /\ UNCHANGED <<running, connected, tmSocket, tmFlaps, tmClocks, tmCalm>>

TmStopFlags ==
    /\ tmStop = "publisher" /\ tmStop' = "done"
    /\ Stopped
    /\ UNCHANGED <<tmSocket, tmMedia, tmCalm>>
----------------------------------------------------------------------------
(* The Telemost server *)

TmServerSays ==
    \E s \in tmOpen, what \in TmTold :
        /\ ~\E i \in 1..TmCurrent : tmCalls[i].socket = s /\ what = "serverHello"
        /\ what \notin ToSet(tmInbox[s])
        /\ CASE what = "serverHello" -> "hello" \in tmHeard[s]
             [] what = "publisherAnswer" -> /\ "offer" \in tmHeard[s]
                                            /\ tmCalls[TmCurrent].publisher = "new"
             [] what = "subscriberOffer" -> /\ \E i \in 1..TmCurrent : tmCalls[i].socket = s
                                            /\ "answer" \notin tmHeard[s]
        /\ tmInbox' = [tmInbox EXCEPT ![s] = Append(@, what)]
        /\ UNCHANGED <<running, connected, tmChain, tmOpen, tmShown, tmHeard, tmMedia, tmStop, tmCalm>>

\* The server, or the network, ends a socket.
TmSocketEnds ==
    /\ ~tmCalm /\ TmMoreSockets
    /\ \E s \in tmOpen : tmOpen' = tmOpen \ {s}
    /\ UNCHANGED <<running, connected, tmChain, tmShown, tmHeard, tmInbox, tmMedia, tmStop, tmCalm>>

TmGoesCalm ==
    /\ tmStop = "no" /\ ~tmCalm /\ tmCalm' = TRUE
    /\ UNCHANGED <<running, connected, tmSocket, tmMedia, tmStop>>
----------------------------------------------------------------------------
TmChainMoves == TmDials \/ TmDialFails \/ TmHello \/ TmHelloFails \/ TmReadFails \/ TmLeaves
                \/ TmSchedules \/ TmWaitEnds
TmMessages == TmServerHello \/ TmPublisherAnswer \/ TmSubscriberOffer
TmPairs == \E c \in 1..TmCurrent : TmComesUp(c) \/ TmGoesDown(c) \/ TmClockStarts(c)
TmLoops == TmPings \/ TmReports \/ TmRefreshesSlots
TmCallers == TmForce \/ TmStopSocket \/ TmStopPair \/ TmStopFlags

TelemostNext == TmChainMoves \/ TmMessages \/ TmPairs \/ TmLoops \/ TmCallers \/ TmServerSays \/ TmSocketEnds
                \/ TmGoesCalm

\* The goroutine of the chain runs: a dial ends, a wait ends.
TelemostFairness == WF_tmVars(TmChainMoves)
TelemostSpec == TelemostInit /\ [][TelemostNext]_tmVars /\ TelemostFairness
----------------------------------------------------------------------------
\* The participant joins over one socket at a time: whatever made a read or the hello fail, the
\* socket is closed before the next is dialled (connectWS).
OneSocket == Cardinality(tmOpen) <= 1

\* The clocks write only while some publisher is up: the one flag, set and cleared by the
\* callbacks of all the pairs in any order, never outlives the last of them (initPublisherPC).
ReadyMeansUp == trackReady => \E c \in 1..TmCurrent : tmCalls[c].publisher = "up"

\* Once the network is calm the participant is connected again, wherever the chain was.
TmComesBack == tmCalm ~> connected

\* What the comment on audioTrack says of trackReady, "set from publisherPC's own connection
\* state": while the publisher in use is up, the clocks write.
ReadyIsCurrent ==
    \A c \in 1..TmCurrent : c = TmCurrent /\ tmCalls[c].publisher = "up" => trackReady

\* What the comment on runPublisherKeepalive says, "This loop is also the only writer".
OneClock == \A c, d \in 1..TmCurrent : tmClocks[c] = "ticking" /\ tmClocks[d] = "ticking" => c = d

\* What the server hears first over a socket is the hello; a ping that falls between the two
\* steps of connectWS is heard before it.
HelloFirst == \A s \in TmSocket : "early" \notin tmHeard[s]

\* What Stop is for, and a dial under way does not keep.
StopEndsCall == tmStop = "done" /\ tmChain.at = "ended" => tmOpen = {} /\ ~connected
=============================================================================
