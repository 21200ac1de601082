------------------------------- MODULE Volga -------------------------------
(***************************************************************************)
(* The Volga document carrier (transport/yandex/vyandex.go): an            *)
(* authorization, made with a jar of cookies, that is shared by a relay    *)
(* (packets out) and a listener (packets in).  A link is such a pair.      *)
(* ApplyCookies stops the current link and has a new one made; the         *)
(* listener renews the authorization whenever it connects again.  Packets  *)
(* are left out, but for whether some go out and some come back.           *)
(***************************************************************************)
EXTENDS Naturals, FiniteSets

CONSTANTS
    Links,       \* pairs of a relay and a listener that may be made
    MaxJars,     \* bound on the jars applied
    VolgaStops,  \* whether Stop is called
    StallTicks   \* intervals without a reply that make a stall

ASSUME VolgaAssumption ==
    /\ Links \subseteq Nat \ {0} /\ MaxJars \in Nat
    /\ VolgaStops \in BOOLEAN /\ StallTicks \in Nat \ {0}

VARIABLES
    volgaRunning, volgaConnected, \* the flags of BaseTransport
    jar,         \* how many jars were applied; the last one is in use
    auth,        \* the jar the published authorization was made with, NoAuth if there is none
    birth,       \* how far the making of each link is
    made,        \* the jar its first authorization is made with
    listener,    \* the wsListener of each link
    relay,       \* the relayClient of each link
    current,     \* the link that is published (t.relay, t.ws)
    stopper,     \* what Stop and ApplyCookies are about to do
    unanswered,  \* stalledTraffic
    mute         \* the server takes packets and returns none

volgaFlags == <<volgaRunning, volgaConnected>>
making == <<birth, made>>
traffic == <<unanswered, mute>>
volgaVars == <<volgaFlags, jar, auth, making, listener, relay, current, stopper, traffic>>

Jars == 0..MaxJars
NoAuth == MaxJars + 1
Stoppers == {"stop", "apply"}

\* at: off, refreshing (with the jar of got), storing, dialing, publishing, checking, reading,
\* pausing, ended.  socket: the listener has one; shown: it is in w.conn.
Listener ==
    [at : {"off", "top", "refreshing", "storing", "dialing", "publishing", "checking",
           "reading", "pausing", "ended"},
     cancelled : BOOLEAN, first : BOOLEAN, got : Jars,
     socket : {"none", "open", "closed"}, shown : BOOLEAN]

VolgaTypeOK ==
    /\ volgaRunning \in BOOLEAN /\ volgaConnected \in BOOLEAN
    /\ jar \in Jars /\ auth \in Jars \cup {NoAuth}
    /\ birth \in [Links -> {"free", "authorizing", "started", "published", "failed"}]
    /\ made \in [Links -> Jars]
    /\ listener \in [Links -> Listener]
    /\ relay \in [Links -> {"off", "up", "stopped"}]
    /\ current \in Links \cup {0}
    /\ stopper \in [Stoppers -> [at : {"idle", "loaded", "cancel", "close", "drain", "after", "done"},
                                 link : Links \cup {0}, held : Jars \cup {NoAuth}]]
    /\ unanswered \in 0..StallTicks /\ mute \in BOOLEAN

IdleStopper == [at |-> "idle", link |-> 0, held |-> NoAuth]
Begun == CHOOSE l \in Links : \A k \in Links : l <= k

\* Start has been called: it is authorizing.
VolgaInit ==
    /\ volgaRunning = TRUE /\ volgaConnected = FALSE
    /\ jar = 0 /\ auth = NoAuth
    /\ birth = [l \in Links |-> IF l = Begun THEN "authorizing" ELSE "free"]
    /\ made = [l \in Links |-> 0]
    /\ listener = [l \in Links |-> [at |-> "off", cancelled |-> FALSE, first |-> TRUE, got |-> 0,
                                    socket |-> "none", shown |-> FALSE]]
    /\ relay = [l \in Links |-> "off"] /\ current = 0
    /\ stopper = [s \in Stoppers |-> IdleStopper]
    /\ unanswered = 0 /\ mute = FALSE
----------------------------------------------------------------------------
(* Making a link: Start, and the goroutine of ApplyCookies *)

\* authorizeWithJar follows the redirects to the page of the editor and opens a session there;
\* either may fail, at a captcha, a login page or any other answer.  Start then returns an
\* error, the goroutine of ApplyCookies gives up.
AuthorizeFails(l) ==
    /\ birth[l] = "authorizing"
    /\ birth' = [birth EXCEPT ![l] = "failed"]
    /\ UNCHANGED <<volgaFlags, jar, auth, made, listener, relay, current, stopper, traffic>>

\* startLinks up to the publication: the authorization is shared, relay and listener run.
StartLinks(l) ==
    /\ birth[l] = "authorizing"
    /\ birth' = [birth EXCEPT ![l] = "started"]
    /\ auth' = made[l] /\ mute' = FALSE
    /\ relay' = [relay EXCEPT ![l] = "up"]
    /\ listener' = [listener EXCEPT ![l].at = "top"]
    /\ UNCHANGED <<volgaFlags, jar, made, current, stopper, unanswered>>

PublishLink(l) ==
    /\ birth[l] = "started"
    /\ birth' = [birth EXCEPT ![l] = "published"]
    /\ current' = l
    /\ volgaConnected' = (volgaConnected \/ l = Begun)
    /\ UNCHANGED <<volgaRunning, jar, auth, made, listener, relay, stopper, traffic>>
----------------------------------------------------------------------------
(* wsListener.run and connect *)

Cancelled(l) == listener[l].cancelled
ListenerGoes(l, from, to) ==
    /\ listener[l].at = from
    /\ listener' = [listener EXCEPT ![l].at = to]
    /\ UNCHANGED <<volgaFlags, jar, making, relay, current, stopper, unanswered>>

\* The first connection uses the authorization the link was made with.
Top(l) ==
    /\ ListenerGoes(l, "top",
           IF Cancelled(l) THEN "ended" ELSE IF listener[l].first THEN "dialing" ELSE "refreshing")
    /\ UNCHANGED <<auth, mute>>

\* refreshAuth: authorize, and look once more whether the listener was stopped.
Refresh(l) ==
    /\ listener[l].at = "refreshing"
    /\ listener' = IF Cancelled(l)
                   THEN [listener EXCEPT ![l].at = "dialing"]
                   ELSE [listener EXCEPT ![l].at = "storing", ![l].got = jar]
    /\ UNCHANGED <<volgaFlags, jar, auth, making, relay, current, stopper, traffic>>

RefreshFails(l) ==
    ListenerGoes(l, "refreshing", "dialing") /\ UNCHANGED <<auth, mute>>

StoreAuth(l) ==
    /\ listener[l].at = "storing"
    /\ listener' = [listener EXCEPT ![l].at = "dialing", ![l].got = 0]
    /\ auth' = listener[l].got /\ mute' = FALSE
    /\ UNCHANGED <<volgaFlags, jar, making, relay, current, stopper, unanswered>>

\* A listener that was stopped does not dial any more.
Dial(l) ==
    /\ listener[l].at = "dialing"
    /\ IF Cancelled(l)
       THEN listener' = [listener EXCEPT ![l].at = "ended"]
       ELSE \/ listener' = [listener EXCEPT ![l].at = "publishing", ![l].socket = "open"]
            \/ listener' = [listener EXCEPT ![l].at = "pausing"]
    /\ UNCHANGED <<volgaFlags, jar, auth, making, relay, current, stopper, traffic>>

ShowConn(l) ==
    /\ listener[l].at = "publishing"
    /\ listener' = [listener EXCEPT ![l].at = "checking", ![l].shown = TRUE]
    /\ UNCHANGED <<volgaFlags, jar, auth, making, relay, current, stopper, traffic>>

\* Mutant: whether the listener was stopped is looked at before the first message only.
NeverLooks(l) == "reading"
AfterLook(l) == IF Cancelled(l) THEN "ended" ELSE "reading"

Leave(l, to) == [listener EXCEPT ![l].at = to, ![l].socket = "none", ![l].shown = FALSE,
                                 ![l].first = FALSE]

CheckCancelled(l) ==
    /\ listener[l].at = "checking"
    /\ listener' = IF AfterLook(l) = "reading" THEN [listener EXCEPT ![l].at = "reading"]
                                               ELSE Leave(l, "ended")
    /\ UNCHANGED <<volgaFlags, jar, auth, making, relay, current, stopper, traffic>>

\* A message is handled; the session may be due for rotation after it.
ReadMessage(l) ==
    /\ listener[l].at = "reading" /\ listener[l].socket = "open"
    /\ \/ listener' = [listener EXCEPT ![l].at = "checking"]
       \/ listener' = Leave(l, "pausing")
    /\ UNCHANGED <<volgaFlags, jar, auth, making, relay, current, stopper, traffic>>

\* The deadline passes, or the socket fails or was closed.
ReadErrs(l) ==
    /\ listener[l].at = "reading"
    /\ listener' = Leave(l, "pausing")
    /\ UNCHANGED <<volgaFlags, jar, auth, making, relay, current, stopper, traffic>>

PauseEnds(l) ==
    /\ listener[l].at = "pausing"
    /\ listener' = [listener EXCEPT ![l].at = IF Cancelled(l) THEN "ended" ELSE "top",
                                    ![l].first = FALSE]
    /\ UNCHANGED <<volgaFlags, jar, auth, making, relay, current, stopper, traffic>>

\* RequestReconnect: it is stopped in its read if its connection is known by now.
CloseShown(l) ==
    [listener EXCEPT ![l].socket = IF listener[l].shown THEN "closed" ELSE listener[l].socket]
----------------------------------------------------------------------------
(* Stop and ApplyCookies; both stop the link that is current when they look *)

StopperGoes(s, from, to) ==
    /\ stopper[s].at = from
    /\ stopper' = [stopper EXCEPT ![s].at = to]

BeginStop ==
    /\ VolgaStops /\ stopper["stop"].at = "idle"
    /\ stopper' = [stopper EXCEPT !["stop"].at = "cancel", !["stop"].link = current]
    /\ UNCHANGED <<volgaFlags, jar, auth, making, listener, relay, current, traffic>>

\* The new jar is in use from here on; the authorization is read, to get the new cookies.
BeginApply ==
    /\ jar < MaxJars /\ stopper["apply"].at = "idle"
    /\ jar' = jar + 1
    /\ stopper' = [stopper EXCEPT !["apply"].at = "loaded", !["apply"].held = auth]
    /\ UNCHANGED <<volgaFlags, auth, making, listener, relay, current, traffic>>

\* It is stored again with them, and the current link looked up.
StoreUpdated ==
    /\ stopper["apply"].at = "loaded"
    /\ auth' = IF stopper["apply"].held = NoAuth THEN auth ELSE stopper["apply"].held
    /\ stopper' = [stopper EXCEPT !["apply"] = [at |-> "cancel", link |-> current, held |-> NoAuth]]
    /\ UNCHANGED <<volgaFlags, jar, making, listener, relay, current, traffic>>

CancelListener(s) ==
    /\ StopperGoes(s, "cancel", "close")
    /\ listener' = IF stopper[s].link = 0 THEN listener
                   ELSE [listener EXCEPT ![stopper[s].link].cancelled = TRUE]
    /\ UNCHANGED <<volgaFlags, jar, auth, making, relay, current, traffic>>

CloseConn(s) ==
    /\ StopperGoes(s, "close", "drain")
    /\ listener' = IF stopper[s].link = 0 THEN listener ELSE CloseShown(stopper[s].link)
    /\ UNCHANGED <<volgaFlags, jar, auth, making, relay, current, traffic>>

\* relayClient.Stop: the workers' requests are cancelled, and it waits for the workers.
StopRelay(s) ==
    /\ StopperGoes(s, "drain", "after")
    /\ relay' = IF stopper[s].link = 0 THEN relay ELSE [relay EXCEPT ![stopper[s].link] = "stopped"]
    /\ UNCHANGED <<volgaFlags, jar, auth, making, listener, current, traffic>>

EndStop ==
    /\ stopper["stop"].at = "after"
    /\ stopper' = [stopper EXCEPT !["stop"].at = "done"]
    /\ volgaConnected' = FALSE /\ volgaRunning' = FALSE
    /\ UNCHANGED <<jar, auth, making, listener, relay, current, traffic>>

\* Unless the carrier was stopped, a goroutine is to make a new link with the new jar.
EndApply ==
    /\ stopper["apply"].at = "after"
    /\ stopper' = [stopper EXCEPT !["apply"] = IdleStopper]
    /\ IF volgaRunning
       THEN \E l \in Links :
              /\ birth[l] = "free" /\ \A k \in Links : birth[k] = "free" => l <= k
              /\ birth' = [birth EXCEPT ![l] = "authorizing"]
              /\ made' = [made EXCEPT ![l] = jar]
       ELSE UNCHANGED making
    /\ UNCHANGED <<volgaFlags, jar, auth, listener, relay, current, traffic>>
----------------------------------------------------------------------------
(* statsLoop: packets of the user went out in this interval, or came in *)

CountsOn(sent) == IF sent \/ unanswered > 0 THEN unanswered + 1 ELSE 0

\* A reply starts the count over; the last interval of a stall asks for a new session.
StatsTick(sent, received) ==
    /\ volgaRunning /\ current # 0
    /\ sent => relay[current] = "up"
    /\ received => ~mute /\ \E l \in Links : listener[l].at = "reading"
    /\ LET count == IF received THEN 0 ELSE CountsOn(sent)
       IN  IF count < StallTicks THEN unanswered' = count /\ UNCHANGED listener
           ELSE unanswered' = 0 /\ listener' = CloseShown(current)
    /\ UNCHANGED <<volgaFlags, jar, auth, making, relay, current, stopper, mute>>

\* The server goes on to take packets, but returns nothing to this session.
ServerMutes ==
    /\ ~mute /\ current # 0 /\ mute' = TRUE
    /\ UNCHANGED <<volgaFlags, jar, auth, making, listener, relay, current, stopper, unanswered>>

ListenerMoves(l) ==
    \/ Top(l) \/ Refresh(l) \/ RefreshFails(l) \/ StoreAuth(l) \/ Dial(l) \/ ShowConn(l)
    \/ CheckCancelled(l) \/ ReadErrs(l) \/ PauseEnds(l)

VolgaNext ==
    \/ \E l \in Links : AuthorizeFails(l) \/ StartLinks(l) \/ PublishLink(l)
                    \/ ListenerMoves(l) \/ ReadMessage(l)
    \/ BeginStop \/ EndStop \/ BeginApply \/ StoreUpdated \/ EndApply
    \/ \E s \in Stoppers : CancelListener(s) \/ CloseConn(s) \/ StopRelay(s)
    \/ \E sent, received \in BOOLEAN : StatsTick(sent, received)
    \/ ServerMutes

VolgaSpec == VolgaInit /\ [][VolgaNext]_volgaVars
----------------------------------------------------------------------------
\* Once a link is stopped its listener reads nothing more from a live socket: it had shown its
\* connection to the one who stopped it, or looks whether it was stopped after it shows it
\* (connect).  Else the messages of the old session would go on to arrive besides the new ones.
StoppedIsDeaf ==
    \A l \in Links :
        /\ Cancelled(l) /\ \A s \in Stoppers : stopper[s].link = l => stopper[s].at \notin {"cancel", "close"}
        => ~(listener[l].at = "reading" /\ listener[l].socket = "open")

\* At most one listener is at work that nobody has stopped or is about to stop (ApplyCookies
\* "must be idempotent: the same map applied twice yields the same state").
OneListener ==
    Cardinality({l \in Links : listener[l].at \notin {"off", "ended"} /\ ~Cancelled(l)}) <= 1

\* Nothing is left at work after Stop, whatever was under way when it came.
StopEndsLinks ==
    stopper["stop"].at = "done" =>
        \A l \in Links : birth[l] # "authorizing" => relay[l] # "up"

\* A carrier that says it is connected has a listener, or is making one.
ConnectedListens ==
    volgaConnected /\ \A s \in Stoppers : stopper[s].at = "idle" =>
        \E l \in Links : birth[l] = "authorizing" \/ (listener[l].at \notin {"off", "ended"} /\ ~Cancelled(l))
=============================================================================
