----------------------------- MODULE YandexDocs -----------------------------
(***************************************************************************)
(* The life of the document carrier (transport/yandex/yandex.go): one      *)
(* goroutine that fetches the document, dials, authenticates, reads until  *)
(* the connection fails and tries again after a wait; callers that force a *)
(* reconnect or push cookies; the keepalive, which fails on its own; Stop. *)
(* Packets are left out: a connection is a number, free again when nobody  *)
(* holds it.                                                               *)
(***************************************************************************)
EXTENDS BaseTransport, Naturals, FiniteSets

CONSTANTS
    Conns,       \* sockets
    Wakes,       \* channels that end a wait
    Forcers,     \* goroutines that call ForceReconnect or ProvideCookies
    MaxPushes,   \* bound on the cookie jars pushed
    MayStop      \* whether Stop is called

ASSUME DocsAssumption ==
    /\ Conns \subseteq Nat \ {0} /\ Wakes \subseteq Nat \ {0}
    /\ MaxPushes \in Nat /\ MayStop \in BOOLEAN

VARIABLES
    stopping,             \* what Stop has done
    loop,                 \* where the connect goroutine is
    conn,                 \* the connection it works on
    hadSession,           \* whether there was a session when it began (existingSession)
    session,              \* the published session's connection (t.session)
    open,                 \* connections that are not closed
    writers,              \* how many writer loops were started
    wake, awaited,        \* the published channel (t.wakeReconnect), the one waited for
    closed,               \* channels that are closed
    forcing,              \* what each caller of ForceReconnect is about to do
    keepalive,            \* the connection a failed keepalive is about to give up
    pushed,               \* how many different jars were pushed, the number of the last one
    stored,               \* t.providedCookies: the jar, and whether cookies were merged into it
    held,                 \* the jar read for such a merge
    cutPending,           \* a push has cut a wait short (cookieCutPending)
    panicked              \* a channel was closed twice

flags == <<running, connected, stopping>>
sockets == <<conn, hadSession, session, open, writers>>
waits == <<wake, awaited, closed>>
calls == <<forcing, keepalive, panicked>>
cookies == <<pushed, stored, held, cutPending>>
docsVars == <<flags, loop, sockets, waits, calls, cookies>>

Phases == {"slot", "fetch", "challenged", "merge", "dial", "check", "publish", "auth", "live",
           "retryCaptcha", "retryOther", "arm", "wait", "ended"}

\* What a caller is about to do: decide whether its jar, a new one or not, may cut the wait;
\* force a reconnect; close a connection or a channel.
Intents == {"none", "cut", "begin", "drop", "wake"} \X (Conns \cup Wakes \cup {0, 1})
NoIntent == <<"none", 0>>
Repeated == <<"cut", 0>>
Pushed == <<"cut", 1>>
Begin == <<"begin", 0>>
About(what) == {forcing[f][2] : f \in {g \in Forcers : forcing[g][1] = what}}

DocsTypeOK ==
    /\ FlagsOK
    /\ stopping \in {"no", "flagged", "done"}
    /\ loop \in Phases
    /\ {conn, session, keepalive} \subseteq Conns \cup {0} /\ open \subseteq Conns
    /\ hadSession \in BOOLEAN /\ writers \in Nat
    /\ awaited \in Wakes \cup {0} /\ wake \in {0, awaited} /\ closed \subseteq Wakes
    /\ forcing \in [Forcers -> Intents]
    /\ pushed \in 0..MaxPushes /\ held \in 0..MaxPushes
    /\ stored \in [jar : 0..MaxPushes, merged : BOOLEAN]
    /\ cutPending \in BOOLEAN /\ panicked \in BOOLEAN

DocsInit ==
    /\ Started /\ stopping = "no"
    /\ loop = "slot" /\ conn = 0 /\ hadSession = FALSE /\ session = 0 /\ open = {}
    /\ writers = 0 /\ wake = 0 /\ awaited = 0 /\ closed = {}
    /\ forcing = [f \in Forcers |-> NoIntent] /\ keepalive = 0
    /\ pushed = 0 /\ held = 0 /\ stored = [jar |-> 0, merged |-> FALSE]
    /\ cutPending = FALSE /\ panicked = FALSE

HeldConns == open \cup {conn, session, keepalive} \cup About("drop")
HeldWakes == {wake, awaited} \cup About("wake")
----------------------------------------------------------------------------
(* connectToDoc: the connect goroutine *)

\* scheduleReconnect does nothing for a carrier that was stopped.
Schedule(reason) ==
    loop' = IF running THEN reason ELSE "ended"

\* WaitConnectSlot gives a free slot even to a carrier that was stopped.
TakeSlot ==
    /\ loop = "slot"
    /\ loop' = "fetch" \/ (~running /\ loop' = "ended")
    /\ hadSession' = (session # 0)
    /\ UNCHANGED <<flags, conn, session, open, writers, waits, calls, cookies>>

\* solveChallenge emits EventCaptchaRequired before anything else is done about it.
Challenge ==
    /\ loop = "fetch" /\ loop' = "challenged"
    /\ UNCHANGED <<flags, sockets, waits, calls, cookies>>

Fetching == loop \in {"fetch", "challenged"}

\* The document came, with cookies that are to be merged into the jar or without.
FetchOk ==
    /\ Fetching
    /\ \/ loop' = "dial" /\ UNCHANGED held
       \/ loop' = "merge" /\ held' = stored.jar
    /\ UNCHANGED <<flags, sockets, waits, calls, pushed, stored, cutPending>>

\* The jar was read before the lock that stores what became of it.
MergeCookies ==
    /\ loop = "merge" /\ (loop' = "dial" \/ Schedule("retryOther"))
    /\ stored' = [jar |-> held, merged |-> TRUE] /\ held' = 0
    /\ UNCHANGED <<flags, sockets, waits, calls, pushed, cutPending>>

FetchFails ==
    /\ Fetching /\ Schedule("retryOther")
    /\ UNCHANGED <<flags, sockets, waits, calls, cookies>>

\* The captcha stays.  New cookies since the fetch began shorten the wait, which is of no
\* account here: a wait may end at any time.
FetchBlocked ==
    /\ loop = "challenged" /\ Schedule("retryCaptcha")
    /\ UNCHANGED <<flags, sockets, waits, calls, cookies>>

DialOk ==
    /\ loop = "dial" /\ loop' = "check"
    /\ \E c \in Conns \ HeldConns : conn' = c /\ open' = open \cup {c}
    /\ UNCHANGED <<flags, hadSession, session, writers, waits, calls, cookies>>

\* The dial or the handshake fails; a connection that was made is closed again.
DialFails ==
    /\ loop = "dial" /\ Schedule("retryOther")
    /\ UNCHANGED <<flags, sockets, waits, calls, cookies>>

\* Stop ran while this goroutine was dialing: close and go.
CheckRunning ==
    /\ loop = "check"
    /\ IF running THEN loop' = "publish" /\ UNCHANGED <<open, conn>>
                  ELSE loop' = "ended" /\ open' = open \ {conn} /\ conn' = 0
    /\ UNCHANGED <<flags, hadSession, session, writers, waits, calls, cookies>>

\* Mutant: every session starts a writer.
WriterEachTime == writers + 1
WriterOnce == IF hadSession THEN writers ELSE writers + 1

Publish ==
    /\ loop = "publish" /\ loop' = "auth"
    /\ session' = conn
    /\ writers' = WriterOnce
    /\ UNCHANGED <<flags, conn, hadSession, open, waits, calls, cookies>>

AuthOk ==
    /\ loop = "auth" /\ conn \in open
    /\ loop' = "live" /\ connected' = TRUE
    /\ UNCHANGED <<running, stopping, sockets, waits, calls, cookies>>

AuthFails ==
    /\ loop = "auth"
    /\ open' = open \ {conn} /\ conn' = 0 /\ Schedule("retryOther")
    /\ UNCHANGED <<flags, hadSession, session, writers, waits, calls, cookies>>

\* Mutant: the flag is left as it is when the read loop fails.
StaysConnected == connected
Disconnected == FALSE

ReadFails ==
    /\ loop = "live"
    /\ connected' = Disconnected /\ open' = open \ {conn} /\ conn' = 0 /\ Schedule("retryOther")
    /\ UNCHANGED <<running, stopping, hadSession, session, writers, waits, calls, cookies>>

\* The read loop ends at its condition, after a message or before the first.
LeaveReadLoop ==
    /\ loop = "live" /\ ~running
    /\ loop' = "ended" /\ conn' = 0
    /\ UNCHANGED <<flags, hadSession, session, open, writers, waits, calls, cookies>>
----------------------------------------------------------------------------
(* scheduleReconnectWithMinDelay: reconnecting is set in the phases below *)

\* EventRetrying goes out before there is a channel that could end the wait.
EmitRetrying ==
    /\ loop \in {"retryCaptcha", "retryOther"} /\ loop' = "arm"
    /\ UNCHANGED <<flags, sockets, waits, calls, cookies>>

Arm ==
    /\ loop = "arm" /\ loop' = "wait"
    /\ \E w \in Wakes \ HeldWakes :
         wake' = w /\ awaited' = w /\ closed' = closed \ {w}
    /\ UNCHANGED <<flags, sockets, calls, cookies>>

\* Mutant: the channel of a wait that is over stays published.
StillPublished == wake
Unpublished == IF wake = awaited THEN 0 ELSE wake

\* The wait is over, at its end or cut short; only one that went to its end allows the
\* next push to cut a wait.
WaitEnds(cutShort) ==
    /\ loop = "wait" /\ (cutShort => awaited \in closed)
    /\ wake' = Unpublished /\ awaited' = 0
    /\ cutPending' = (cutPending /\ cutShort)
    /\ loop' = IF running THEN "slot" ELSE "ended"
    /\ UNCHANGED <<flags, sockets, closed, calls, pushed, stored, held>>
----------------------------------------------------------------------------
(* ForceReconnect, in two halves: under the lock, and after it *)

\* Mutant: the channel is not claimed.
KeepsWake == wake
ClaimsWake == 0

ForceBegins(f) ==
    /\ forcing[f] = Begin
    /\ wake' = ClaimsWake
    /\ forcing' = [forcing EXCEPT ![f] =
           CASE connected /\ session # 0 -> <<"drop", session>>
             [] ~(connected /\ session # 0) /\ wake # 0 -> <<"wake", wake>>
             [] OTHER -> NoIntent]
    /\ UNCHANGED <<flags, loop, sockets, awaited, closed, keepalive, panicked, cookies>>

ForceEnds(f) ==
    /\ forcing[f][1] \in {"drop", "wake"}
    /\ IF forcing[f][1] = "drop"
       THEN open' = open \ {forcing[f][2]} /\ UNCHANGED <<closed, panicked>>
       ELSE /\ panicked' = (forcing[f][2] \in closed)
            /\ closed' = closed \cup {forcing[f][2]}
            /\ UNCHANGED open
    /\ forcing' = [forcing EXCEPT ![f] = NoIntent]
    /\ UNCHANGED <<flags, loop, conn, hadSession, session, writers, wake, awaited, keepalive, cookies>>

\* A caller sets out to force a reconnect.
ForceReconnect(f) ==
    /\ forcing[f] = NoIntent
    /\ forcing' = [forcing EXCEPT ![f] = Begin]
    /\ UNCHANGED <<flags, loop, sockets, waits, keepalive, panicked, cookies>>

\* ProvideCookies: what is stored already is ignored.
Ignores(jar) == stored = [jar |-> jar, merged |-> FALSE]

ProvideCookies(f, jar) ==
    /\ forcing[f] = NoIntent /\ ~Ignores(jar)
    /\ pushed' = jar
    /\ stored' = [jar |-> jar, merged |-> FALSE]
    /\ forcing' = [forcing EXCEPT ![f] = IF jar = pushed THEN Repeated ELSE Pushed]
    /\ UNCHANGED <<flags, loop, sockets, waits, keepalive, panicked, held, cutPending>>

\* Under a second lock: one push for every wait may cut it.
DecideCut(f) ==
    /\ forcing[f][1] = "cut"
    /\ cutPending' = TRUE
    /\ forcing' = [forcing EXCEPT ![f] = IF cutPending THEN NoIntent ELSE Begin]
    /\ UNCHANGED <<flags, loop, sockets, waits, keepalive, panicked, pushed, stored, held>>

\* A new jar, or the last one once more.
Push(f) == \E jar \in {pushed, pushed + 1} \cap 1..MaxPushes : ProvideCookies(f, jar)
----------------------------------------------------------------------------
(* The other goroutines of the carrier *)

\* A write of the writer loop, the editor activity or a pong fails and closes the session.
WriteFails ==
    /\ session \in open
    /\ open' = open \ {session}
    /\ UNCHANGED <<flags, loop, conn, hadSession, session, writers, waits, calls, cookies>>

KeepaliveFails ==
    /\ keepalive = 0 /\ connected /\ session # 0
    /\ keepalive' = session
    /\ open' = open \ {session}
    /\ UNCHANGED <<flags, loop, conn, hadSession, session, writers, waits, forcing, panicked, cookies>>

\* It marks the carrier as not connected, whichever session that is by now.
KeepaliveGivesUp ==
    /\ keepalive # 0
    /\ connected' = FALSE
    /\ open' = open \ {keepalive} /\ keepalive' = 0
    /\ UNCHANGED <<running, stopping, loop, conn, hadSession, session, writers, waits, forcing, panicked, cookies>>

\* Stop: first the flags, then the session that is published by then.
StopFlags ==
    /\ MayStop /\ stopping = "no"
    /\ stopping' = "flagged" /\ Stopped
    /\ UNCHANGED <<loop, sockets, waits, calls, cookies>>

StopCloses ==
    /\ stopping = "flagged"
    /\ stopping' = "done" /\ open' = open \ {session}
    /\ UNCHANGED <<running, connected, loop, conn, hadSession, session, writers, waits, calls, cookies>>

DocsNext ==
    \/ TakeSlot \/ Challenge \/ FetchOk \/ MergeCookies \/ FetchFails \/ FetchBlocked
    \/ DialOk \/ DialFails \/ CheckRunning \/ Publish \/ AuthOk \/ AuthFails
    \/ ReadFails \/ LeaveReadLoop
    \/ EmitRetrying \/ Arm \/ WaitEnds(TRUE) \/ WaitEnds(FALSE)
    \/ \E f \in Forcers : ForceReconnect(f) \/ ForceBegins(f) \/ ForceEnds(f)
                      \/ Push(f) \/ DecideCut(f)
    \/ WriteFails \/ KeepaliveFails \/ KeepaliveGivesUp
    \/ StopFlags \/ StopCloses

DocsSpec == DocsInit /\ [][DocsNext]_docsVars
----------------------------------------------------------------------------
\* A wait is never ended twice: closing a closed channel would end the process
\* (ForceReconnect: "claimed under the lock so a concurrent call can't double-close wake").
WakesOnce == ~panicked

\* There is one writer loop for the queue that all sessions share, from the first session on.
OneWriter == writers <= 1 /\ (session # 0 /\ loop # "auth" => writers = 1)

\* After Stop and the end of the connect goroutine no socket is left open (Stop "closes the
\* live session's socket", or else it would be "leaking a goroutine and a socket per stop").
StopClosesSockets ==
    stopping = "done" /\ loop = "ended" => open = {}

\* A jar that was pushed already does not cut anything (scheduleReconnectWithMinDelay:
\* "Repeated pushes of the same jar never reach here: ProvideCookies ignores an unchanged
\* one").
RepeatsCutNothing ==
    [][\A f \in Forcers : forcing[f] = Repeated => forcing'[f] # Begin]_docsVars

\* The jar in use is the last one pushed, or was made of it (ProvideCookies: those that cut
\* nothing "are stored and picked up by the next scheduled attempt").
PushIsKept == stored.jar = pushed

\* The carrier reports what a carrier promises, in that order, and says it is connected only
\* between EventConnected and the end of that session.
Phase ==
    CASE loop = "live" -> "up"
      [] loop = "challenged" -> "challenged"
      [] loop = "retryCaptcha" -> "blocked"
      [] loop = "retryOther" -> "failed"
      [] loop \in {"arm", "wait"} -> "pausing"
      [] loop = "ended" -> "over"
      [] OTHER -> "trying"

Promised == INSTANCE Carrier WITH phase <- Phase
KeepsOrder == Promised!CarrierSpec
=============================================================================
