------------------------------- MODULE Boards ------------------------------
(***************************************************************************)
(* The whiteboard carrier (transport/yandex/boards.go): one goroutine that *)
(* authorizes, dials, shakes hands, reads until the connection fails and   *)
(* waits before it tries again; callers that force a reconnect or push     *)
(* cookies; a writer and a heartbeat for every session; Stop.              *)
(***************************************************************************)
EXTENDS BaseTransport, Naturals

CONSTANTS
    BoardsForcers,  \* goroutines that call ForceReconnect or ProvideCookies
    BoardsWakes,    \* channels that end a wait
    MaxBoardsJars,  \* bound on the cookie jars pushed
    MaxWriters,     \* bound on the writer goroutines that are left
    SolvesItself    \* captchaSolveMode is neither External nor Off

ASSUME BoardsAssumption ==
    /\ BoardsWakes \subseteq Nat \ {0}
    /\ MaxBoardsJars \in Nat /\ MaxWriters \in Nat \ {0} /\ SolvesItself \in BOOLEAN

VARIABLES
    boardsDone,     \* t.done is closed
    boardsStopping, \* how far Stop is
    boardsLoop,     \* where connectLoop is
    boardsShown,    \* t.session is set
    boardsSocket,   \* the socket of the session
    boardsWriters,  \* writer loops that run, the session's and those of sessions that are over
    boardsWake,     \* the channel of the wait, and the published one (t.wakeChan)
    boardsClosed,   \* channels that are closed
    boardsForcing,  \* callers: at ForceReconnect, and the channel they are about to close
    boardsJar,      \* the last jar pushed, the jar stored, the jar of this authorization
    boardsFault,    \* why the attempt failed
    boardsPanicked  \* a channel was closed twice

boardsWaiting == <<boardsWake, boardsClosed, boardsForcing, boardsPanicked>>
boardsLink == <<boardsShown, boardsSocket, boardsWriters>>
boardsEnd == <<boardsDone, boardsStopping>>
boardsVars ==
    <<running, connected, boardsEnd, boardsLoop, boardsLink, boardsWaiting, boardsJar, boardsFault>>

BoardsTypeOK ==
    /\ boardsDone \in BOOLEAN /\ boardsStopping \in {"no", "closing", "flags", "done"}
    /\ boardsLoop \in {"slot", "page", "challenged", "token", "dial", "handshake", "live",
                       "failed", "arm", "wait", "ended"}
    /\ boardsShown \in BOOLEAN /\ boardsSocket \in {"none", "open", "closed"}
    /\ boardsWriters \in 0..MaxWriters
    /\ boardsWake \in [awaited : BoardsWakes \cup {0}, shown : BoardsWakes \cup {0}]
    /\ boardsWake.shown \in {0, boardsWake.awaited} /\ boardsClosed \subseteq BoardsWakes
    /\ boardsForcing \in [BoardsForcers -> [sets : BOOLEAN, wake : BoardsWakes \cup {0}]]
    /\ boardsJar \in [pushed : 0..MaxBoardsJars, stored : 0..MaxBoardsJars, used : 0..MaxBoardsJars]
    /\ boardsFault \in {"none", "captcha", "solver", "other"}
    /\ boardsPanicked \in BOOLEAN

NotForcing == [sets |-> FALSE, wake |-> 0]
NoWake == [awaited |-> 0, shown |-> 0]
HeldBoardsWakes == {boardsWake.awaited} \cup {boardsForcing[f].wake : f \in BoardsForcers}

BoardsInit ==
    /\ boardsDone = FALSE /\ boardsStopping = "no" /\ boardsLoop = "slot"
    /\ boardsShown = FALSE /\ boardsSocket = "none" /\ boardsWriters = 0
    /\ boardsWake = NoWake /\ boardsClosed = {}
    /\ boardsForcing = [f \in BoardsForcers |-> NotForcing]
    /\ boardsJar = [pushed |-> 0, stored |-> 0, used |-> 0]
    /\ boardsFault = "none" /\ boardsPanicked = FALSE
----------------------------------------------------------------------------
(* connectLoop and authorize *)

LoopGoes(from, to) == boardsLoop \in from /\ boardsLoop' = to

\* t.done is looked at before an attempt, and while the carrier waits for a slot.
BoardsSlot ==
    /\ boardsLoop = "slot"
    /\ \/ ~boardsDone /\ boardsLoop' = "page"
       \/ boardsDone /\ boardsLoop' = "ended"
    /\ boardsJar' = [boardsJar EXCEPT !.used = boardsJar.stored]
    /\ UNCHANGED <<running, connected, boardsEnd, boardsLink, boardsWaiting, boardsFault>>

\* getAllowCaptcha meets a captcha: EventCaptchaRequired.
BoardsChallenge ==
    /\ LoopGoes({"page"}, "challenged")
    /\ UNCHANGED <<running, connected, boardsEnd, boardsLink, boardsWaiting, boardsJar, boardsFault>>

\* The board is open: at once, or after the captcha was solved and the page fetched again.
BoardsPage ==
    /\ LoopGoes({"page"} \cup (IF SolvesItself THEN {"challenged"} ELSE {}), "token")
    /\ UNCHANGED <<running, connected, boardsEnd, boardsLink, boardsWaiting, boardsJar, boardsFault>>

Fault(why) ==
    /\ boardsLoop' = "failed" /\ boardsFault' = why
    /\ boardsJar' = [boardsJar EXCEPT !.used = 0]

\* The captcha stays: the inner solver failed, or there is none.
BoardsBlocked ==
    /\ boardsLoop = "challenged"
    /\ Fault(IF SolvesItself THEN "solver" ELSE "captcha")
    /\ UNCHANGED <<running, connected, boardsEnd, boardsLink, boardsWaiting>>

\* Mutant: nothing is kept of the cookies the attempt began with.
MergedAnew == boardsJar.stored
\* The cookies of the attempt, which hold those it began with, win over the stored ones.
Merged == IF boardsJar.used # 0 THEN boardsJar.used ELSE boardsJar.stored

\* A guest token came and with it cookies; what the board is like may remain unknown.
BoardsToken ==
    /\ LoopGoes({"token"}, "dial")
    /\ boardsJar' = [boardsJar EXCEPT !.stored = Merged, !.used = 0]
    /\ UNCHANGED <<running, connected, boardsEnd, boardsLink, boardsWaiting, boardsFault>>

\* Any request of the authorization fails, or the dial does.
BoardsAttemptFails ==
    /\ boardsLoop \in {"page", "token", "dial"} /\ Fault("other")
    /\ UNCHANGED <<running, connected, boardsEnd, boardsLink, boardsWaiting>>
----------------------------------------------------------------------------
(* connectAndServe *)

\* The session is published before the handshake; Stop may have looked for it already.
BoardsDial ==
    /\ LoopGoes({"dial"}, "handshake")
    /\ boardsShown' = TRUE /\ boardsSocket' = "open"
    /\ UNCHANGED <<running, connected, boardsEnd, boardsWriters, boardsWaiting, boardsJar, boardsFault>>

\* Mutant: a failed handshake leaves the session published.
StaysShown == boardsShown
Cleared == FALSE

BoardsHandshakeFails ==
    /\ boardsLoop = "handshake" /\ Fault("other")
    /\ boardsShown' = Cleared /\ boardsSocket' = "none"
    /\ UNCHANGED <<running, connected, boardsEnd, boardsWriters, boardsWaiting>>

\* The carrier says it is connected, reports it, and starts a writer for the session's queue.
BoardsHandshake ==
    /\ boardsSocket = "open" /\ boardsWriters < MaxWriters
    /\ LoopGoes({"handshake"}, "live")
    /\ connected' = TRUE /\ boardsWriters' = boardsWriters + 1
    /\ UNCHANGED <<running, boardsEnd, boardsShown, boardsSocket, boardsWaiting, boardsJar, boardsFault>>

\* The read fails, or t.done is closed; the socket is not closed here.  The heartbeat ends with
\* the session, the writer only when t.done is closed.
BoardsServeEnds ==
    /\ boardsLoop = "live" /\ Fault("other")
    /\ boardsShown' = Cleared /\ boardsSocket' = "none" /\ connected' = FALSE
    /\ UNCHANGED <<running, boardsEnd, boardsWriters, boardsWaiting>>

\* A packet, a pong, a heartbeat or the removal of read objects cannot be written: safeWrite
\* closes the socket.
BoardsWriteFails ==
    /\ boardsSocket = "open" /\ boardsSocket' = "closed"
    /\ UNCHANGED <<running, connected, boardsEnd, boardsLoop, boardsShown, boardsWriters,
                   boardsWaiting, boardsJar, boardsFault>>

BoardsWriterEnds ==
    /\ boardsDone /\ boardsWriters > 0 /\ boardsWriters' = boardsWriters - 1
    /\ UNCHANGED <<running, connected, boardsEnd, boardsLoop, boardsShown, boardsSocket,
                   boardsWaiting, boardsJar, boardsFault>>
----------------------------------------------------------------------------
(* The wait between two attempts *)

\* The floor of the captcha cooldown is under the waits with that reason.
BoardsCoolsDown == boardsFault = "solver"

\* EventRetrying, with the reason and the delay.
BoardsRetrying ==
    /\ LoopGoes({"failed"}, "arm")
    /\ UNCHANGED <<running, connected, boardsEnd, boardsLink, boardsWaiting, boardsJar, boardsFault>>

BoardsArm ==
    /\ LoopGoes({"arm"}, "wait")
    /\ \E w \in BoardsWakes \ HeldBoardsWakes :
         boardsWake' = [awaited |-> w, shown |-> w] /\ boardsClosed' = boardsClosed \ {w}
    /\ UNCHANGED <<running, connected, boardsEnd, boardsLink, boardsForcing, boardsPanicked,
                   boardsJar, boardsFault>>

\* The delay is over, t.done is closed, or the wait was cut short.  A caller that has claimed
\* the channel will close it later; a wait that Stop ends leaves it published.
BoardsWaitEnds ==
    /\ \/ ~boardsDone /\ LoopGoes({"wait"}, "slot") /\ boardsWake' = NoWake
       \/ boardsDone /\ LoopGoes({"wait"}, "ended") /\ UNCHANGED boardsWake
    /\ boardsFault' = "none"
    /\ UNCHANGED <<running, connected, boardsEnd, boardsLink, boardsClosed, boardsForcing,
                   boardsPanicked, boardsJar>>
----------------------------------------------------------------------------
(* ForceReconnect, ProvideCookies and Stop *)

\* ProvideCookies stores the jar, the same or another one; then it forces a reconnect.
BoardsPush(f) ==
    /\ boardsForcing[f] = NotForcing
    /\ \E jar \in {boardsJar.pushed, boardsJar.pushed + 1} \cap 1..MaxBoardsJars :
         boardsJar' = [boardsJar EXCEPT !.pushed = jar, !.stored = jar]
    /\ boardsForcing' = [boardsForcing EXCEPT ![f].sets = TRUE]
    /\ UNCHANGED <<running, connected, boardsEnd, boardsLoop, boardsLink, boardsWake,
                   boardsClosed, boardsPanicked, boardsFault>>

\* Mutant: the channel is not claimed.
LeavesWake == boardsWake
ClaimsBoardsWake == [boardsWake EXCEPT !.shown = 0]

\* A published session is closed; else the channel of a wait is claimed under the lock.
BoardsForce(f) ==
    /\ boardsForcing[f].wake = 0
    /\ IF boardsShown
       THEN /\ boardsSocket' = "closed" /\ UNCHANGED boardsWake
            /\ boardsForcing' = [boardsForcing EXCEPT ![f] = NotForcing]
       ELSE /\ boardsWake' = ClaimsBoardsWake /\ UNCHANGED boardsSocket
            /\ boardsForcing' = [boardsForcing EXCEPT ![f] = [sets |-> FALSE, wake |-> boardsWake.shown]]
    /\ UNCHANGED <<running, connected, boardsEnd, boardsLoop, boardsShown, boardsWriters,
                   boardsClosed, boardsPanicked, boardsJar, boardsFault>>

\* The channel is closed after the lock, when its wait may be over.
BoardsCloseWake(f) ==
    /\ boardsForcing[f].wake # 0
    /\ boardsPanicked' = (boardsForcing[f].wake \in boardsClosed)
    /\ boardsClosed' = boardsClosed \cup {boardsForcing[f].wake}
    /\ boardsForcing' = [boardsForcing EXCEPT ![f] = NotForcing]
    /\ UNCHANGED <<running, connected, boardsEnd, boardsLoop, boardsLink, boardsWake, boardsJar, boardsFault>>

BoardsStop ==
    /\ boardsStopping = "no" /\ boardsStopping' = "closing" /\ boardsDone' = TRUE
    /\ UNCHANGED <<running, connected, boardsLoop, boardsLink, boardsWaiting, boardsJar, boardsFault>>

BoardsStopCloses ==
    /\ boardsStopping = "closing" /\ boardsStopping' = "flags"
    /\ boardsSocket' = IF boardsShown THEN "closed" ELSE boardsSocket
    /\ UNCHANGED <<running, connected, boardsDone, boardsLoop, boardsShown, boardsWriters,
                   boardsWaiting, boardsJar, boardsFault>>

BoardsStopFlags ==
    /\ boardsStopping = "flags" /\ boardsStopping' = "done" /\ Stopped
    /\ UNCHANGED <<boardsDone, boardsLoop, boardsLink, boardsWaiting, boardsJar, boardsFault>>

BoardsNext ==
    \/ BoardsSlot \/ BoardsChallenge \/ BoardsPage \/ BoardsBlocked \/ BoardsToken
    \/ BoardsAttemptFails \/ BoardsDial \/ BoardsHandshakeFails \/ BoardsHandshake
    \/ BoardsServeEnds \/ BoardsWriteFails \/ BoardsWriterEnds
    \/ BoardsRetrying \/ BoardsArm \/ BoardsWaitEnds
    \/ \E f \in BoardsForcers : BoardsPush(f) \/ BoardsForce(f) \/ BoardsCloseWake(f)
    \/ BoardsStop \/ BoardsStopCloses \/ BoardsStopFlags

BoardsSpec == Started /\ BoardsInit /\ [][BoardsNext]_boardsVars
----------------------------------------------------------------------------
\* A wait is never ended twice: closing a closed channel would end the process.
BoardsWakesOnce == ~boardsPanicked

\* What a carrier promises (Carrier).
BoardsPhase ==
    CASE boardsLoop = "live" -> "up"
      [] boardsLoop = "challenged" -> "challenged"
      [] boardsLoop = "failed" -> IF boardsFault = "solver" THEN "blocked" ELSE "failed"
      [] boardsLoop \in {"arm", "wait"} -> "pausing"
      [] boardsLoop = "ended" -> "over"
      [] OTHER -> "trying"
BoardsPromised == INSTANCE Carrier WITH phase <- BoardsPhase
BoardsKeepsOrder == BoardsPromised!CarrierSpec

\* After a captcha nobody solved the wait has the floor of the cooldown ("a floor under the
\* usual attempt-scaled backoff for captcha failures").
CaptchaCools == boardsLoop = "wait" /\ boardsFault \in {"captcha", "solver"} => BoardsCoolsDown

\* The jar in use is the last one pushed.
BoardsPushIsKept == boardsJar.stored = boardsJar.pushed

\* No more than one writer runs for the carrier.
BoardsOneWriter == boardsWriters <= 1

\* A session that was published is over when nobody serves it: ForceReconnect then ends a wait.
ShownIsServed == boardsShown <=> boardsLoop \in {"handshake", "live"}
=============================================================================
