------------------------------- MODULE Helper ------------------------------
(* The module process (cmd/helper/main.go, shared/hostproto): it starts a  *)
(* carrier, waits for it within a budget, marks itself ready, and follows  *)
(* the events of the host; when the carrier meets a captcha it asks the    *)
(* host for a browser window.  The host starts the process again when it   *)
(* exits.                                                                  *)
EXTENDS Carrier, Naturals, FiniteSets

CONSTANTS
    Solvers,  \* goroutines that may be asking for a window at the same time
    Budget    \* readyWaitBudget, counted in polls (transportUpPoll)

ASSUME HelperAssumption == Budget \in Nat \ {0}

VARIABLES
    mode,            \* captchaMode, and whether there is a window to ask for at all; fixed
    stage,           \* how far realMain is
    why,             \* why the process exited
    budget,          \* polls left until the deadline
    netDown,         \* what the host said last (netDown)
    captchaPending,  \* a window is asked for
    urlKnown,        \* captchaURL is set
    coolingDown,     \* windowBlocked lies ahead
    solver           \* the goroutines of openWindow

main == <<stage, why, budget>>
captcha == <<urlKnown, coolingDown>>
helperVars ==
    <<carrierVars, mode, main, netDown, captchaPending, captcha, solver>>

Stages == {"starting", "waiting", "up", "ready", "serving", "exited"}
Results == {"cookies", "nothing", "cancelled"}

\* at: queued (for captchaWindowMu), asked (ACTION_REQUIRED is out), listening (the waiter is
\* registered), told, settling (captchaPending is reset).  owed: the host has not answered yet.
Solver ==
    [at : {"none", "queued", "asked", "listening", "told", "settling"},
     owed : BOOLEAN, got : Results \cup {"none"}]
NoSolver == [at |-> "none", owed |-> FALSE, got |-> "none"]

HelperTypeOK ==
    /\ CarrierTypeOK
    /\ mode \in {"auto", "webviewOnly", "off"} /\ stage \in Stages
    /\ why \in {"none", "notUp", "cancelled", "noListener", "notMarked"}
    /\ budget \in 0..Budget
    /\ netDown \in BOOLEAN /\ captchaPending \in BOOLEAN
    /\ urlKnown \in BOOLEAN /\ coolingDown \in BOOLEAN
    /\ solver \in [Solvers -> Solver]
    /\ captchaPending <=> \E s \in Solvers : solver[s].at \in {"queued", "asked", "listening", "told"}

HelperInit ==
    /\ CarrierInit
    /\ mode \in {"auto", "webviewOnly", "off"} /\ stage = "starting" /\ why = "none"
    /\ budget = Budget /\ netDown = FALSE /\ captchaPending = FALSE
    /\ urlKnown = FALSE /\ coolingDown = FALSE
    /\ solver = [s \in Solvers |-> NoSolver]

Alive == stage # "exited"
SessionReady == stage \in {"ready", "serving"}
----------------------------------------------------------------------------
(* realMain and waitTransportUpFor *)

\* The handler of host events is set, and the carrier looked at for the first time.
BeginWait ==
    /\ stage = "starting"
    /\ stage' = IF connected THEN "up" ELSE "waiting"
    /\ UNCHANGED <<carrierVars, mode, why, budget, netDown, captchaPending, captcha, solver>>

\* Mutant: the reversed test.
Backwards == ~netDown
\* Mutant: a person at the window does not stop the clock.
NetworkOnly == netDown
OutsideBudget == netDown \/ captchaPending

\* One round: a poll is slept through, the deadline moved or not, the carrier looked at.
Poll ==
    /\ stage = "waiting"
    /\ budget' = IF OutsideBudget THEN budget ELSE budget - 1
    /\ IF connected THEN stage' = "up" /\ UNCHANGED why
       ELSE IF budget' = 0 THEN stage' = "exited" /\ why' = "notUp"
       ELSE UNCHANGED <<stage, why>>
    /\ UNCHANGED <<carrierVars, mode, netDown, captchaPending, captcha, solver>>

\* openListener, and sessionReady.
Listen ==
    /\ stage = "up"
    /\ \/ stage' = "ready" /\ UNCHANGED why
       \/ stage' = "exited" /\ why' = "noListener"
    /\ UNCHANGED <<carrierVars, mode, budget, netDown, captchaPending, captcha, solver>>

\* writeReady
MarkReady ==
    /\ stage = "ready"
    /\ \/ stage' = "serving" /\ UNCHANGED why
       \/ stage' = "exited" /\ why' = "notMarked"
    /\ UNCHANGED <<carrierVars, mode, budget, netDown, captchaPending, captcha, solver>>

\* The host starts a process that has exited again; everything begins anew.
Restart ==
    /\ ~Alive
    /\ phase' = "trying" /\ connected' = FALSE /\ UNCHANGED mode
    /\ stage' = "starting" /\ why' = "none" /\ budget' = Budget
    /\ netDown' = FALSE /\ captchaPending' = FALSE /\ urlKnown' = FALSE /\ coolingDown' = FALSE
    /\ solver' = [s \in Solvers |-> NoSolver]
----------------------------------------------------------------------------
(* Events of the host.  Until the handler is set they are acknowledged and dropped.  That   *)
(* the carrier is forced to reconnect shows in nothing but what it does next.               *)

HostSays(lost) ==
    /\ Alive
    /\ netDown' = IF stage = "starting" THEN netDown ELSE lost
    /\ UNCHANGED <<carrierVars, mode, main, captchaPending, captcha, solver>>

NetLost == HostSays(TRUE)
HandoverOrNetBack == HostSays(FALSE)
----------------------------------------------------------------------------
(* openWindow and its goroutine *)

Busy(s) == solver[s].at # "none"
\* Mutant: nothing keeps a second goroutine from asking.
AskForAnother(s) == ~Busy(s)
MayAsk(s) == ~Busy(s) /\ ~captchaPending

\* captchaPending lets one goroutine at a time through.
OpenWindow ==
    IF urlKnown' /\ ~coolingDown /\ \E s \in Solvers : MayAsk(s)
    THEN /\ captchaPending' = TRUE
         /\ \E s \in Solvers :
              MayAsk(s) /\ solver' = [solver EXCEPT ![s] = [NoSolver EXCEPT !.at = "queued"]]
    ELSE UNCHANGED <<captchaPending, solver>>

HoldsWindow(s) == solver[s].at \in {"asked", "listening", "told", "settling"}

\* A host that declares no means of returning cookies is not asked.
HostCannot(s) ==
    /\ Alive /\ solver[s].at = "queued" /\ \A q \in Solvers : ~HoldsWindow(q)
    /\ solver' = [solver EXCEPT ![s].at = "told", ![s].got = "nothing"]
    /\ UNCHANGED <<carrierVars, mode, main, netDown, captchaPending, captcha>>

\* runAction: the request goes out before there is a channel for the answer.
Ask(s) ==
    /\ Alive /\ solver[s].at = "queued" /\ \A q \in Solvers : ~HoldsWindow(q)
    /\ solver' = [solver EXCEPT ![s].at = "asked", ![s].owed = TRUE]
    /\ UNCHANGED <<carrierVars, mode, main, netDown, captchaPending, captcha>>

Register(s) ==
    /\ Alive /\ solver[s].at = "asked"
    /\ solver' = [solver EXCEPT ![s].at = "listening"]
    /\ UNCHANGED <<carrierVars, mode, main, netDown, captchaPending, captcha>>

\* ACTION_RESULT: an answer nobody is registered for is dropped.
ActionResult(s, result) ==
    /\ Alive /\ solver[s].owed
    /\ solver' = [solver EXCEPT ![s] =
           IF @.at = "listening" THEN [at |-> "told", owed |-> FALSE, got |-> result]
                                 ELSE [@ EXCEPT !.owed = FALSE]]
    /\ UNCHANGED <<carrierVars, mode, main, netDown, captchaPending, captcha>>

\* actionDeadline; it counts as a cancellation.
TimesOut(s) ==
    /\ Alive /\ solver[s].at = "listening"
    /\ solver' = [solver EXCEPT ![s] = [at |-> "told", owed |-> FALSE, got |-> "cancelled"]]
    /\ UNCHANGED <<carrierVars, mode, main, netDown, captchaPending, captcha>>

\* Mutant: a refusal leaves the window marked as open.
ResetOnCookies(s) == IF solver[s].got = "cookies" THEN FALSE ELSE captchaPending
ResetAlways(s) == FALSE

ResetPending(s) ==
    /\ Alive /\ solver[s].at = "told"
    /\ captchaPending' = ResetAlways(s)
    /\ solver' = [solver EXCEPT ![s].at = "settling"]
    /\ UNCHANGED <<carrierVars, mode, main, netDown, captcha>>

\* Cookies go to the carrier, which is forced to reconnect; without any the windows pause, and
\* a person who closed the window before the session was up has refused the connection.
RefusalBeforeReady(s) == solver[s].got = "cancelled" /\ ~SessionReady

Settle(s) ==
    /\ Alive /\ solver[s].at = "settling"
    /\ coolingDown' = (coolingDown \/ solver[s].got # "cookies")
    /\ IF RefusalBeforeReady(s) THEN stage' = "exited" /\ why' = "cancelled"
                                ELSE UNCHANGED <<stage, why>>
    /\ solver' = [solver EXCEPT ![s] = NoSolver]
    /\ UNCHANGED <<carrierVars, mode, budget, netDown, captchaPending, urlKnown>>

CooldownEnds ==
    /\ Alive /\ coolingDown /\ coolingDown' = FALSE
    /\ UNCHANGED <<carrierVars, mode, main, netDown, captchaPending, urlKnown, solver>>
----------------------------------------------------------------------------
(* The carrier, and what the helper makes of its events (attachCaptchaSolver) *)

\* EventCaptchaRequired: with the inner solver off the window is opened at once.
\* Mutant: the address is kept only for a window that opens at once.
RememberIfWindow == urlKnown \/ mode = "webviewOnly"
Remember == TRUE

CaptchaRequired ==
    /\ Alive /\ Challenged
    /\ urlKnown' = Remember
    /\ IF mode = "webviewOnly" THEN OpenWindow ELSE UNCHANGED <<captchaPending, solver>>
    /\ UNCHANGED <<mode, main, netDown, coolingDown>>

\* EventRetrying: the inner solver has failed.
Retrying ==
    /\ Alive /\ Reports
    /\ UNCHANGED urlKnown
    /\ IF phase = "blocked" /\ mode # "off" THEN OpenWindow ELSE UNCHANGED <<captchaPending, solver>>
    /\ UNCHANGED <<mode, main, netDown, coolingDown>>

\* Only the carrier that solves captchas itself gets past one.
CarrierMoves ==
    /\ Alive
    /\ \/ ComesUp \/ Fails \/ Blocked \/ TriesAgain \/ Disconnects
       \/ mode = "auto" /\ Solved
    /\ UNCHANGED <<mode, main, netDown, captchaPending, captcha, solver>>

HelperNext ==
    \/ BeginWait \/ Poll \/ Listen \/ MarkReady \/ Restart
    \/ NetLost \/ HandoverOrNetBack
    \/ \E s \in Solvers :
         \/ HostCannot(s) \/ Ask(s) \/ Register(s) \/ TimesOut(s) \/ ResetPending(s) \/ Settle(s)
         \/ \E result \in Results : ActionResult(s, result)
    \/ CooldownEnds
    \/ CaptchaRequired \/ Retrying \/ CarrierMoves

\* The clock of the wait goes on, and so does a goroutine that can; a host that does not answer
\* is given up at the deadline.  Nothing is assumed of the host, the network or the carrier.
SolverMoves(s) ==
    HostCannot(s) \/ Ask(s) \/ Register(s) \/ TimesOut(s) \/ ResetPending(s) \/ Settle(s)

HelperFairness == WF_helperVars(Poll) /\ \A s \in Solvers : WF_helperVars(SolverMoves(s))

HelperSpec == HelperInit /\ [][HelperNext]_helperVars /\ HelperFairness
----------------------------------------------------------------------------
\* The process does not give the carrier up while a person is at the window, whose answer would
\* go with it, nor while there is no network, where the next process would fare no better
\* (waitTransportUpFor: that "does not count towards the budget").
NotFromUnderWindow ==
    [][why' = "notUp" =>
         why = "notUp" \/ (~netDown /\ \A s \in Solvers : solver[s].at \notin {"asked", "listening"})
      ]_helperVars

\* It gives up in time otherwise: the wait ends unless the network stays away or windows keep
\* being opened (waitTransportUpFor: with the reversed test "the loop never ended").
WaitEnds == []<>(netDown \/ captchaPending \/ stage # "waiting")

\* A window that was asked for is done with some time, whatever the host does and whether it
\* answers or not; until then the wait for the carrier has no end.
WindowEnds == captchaPending ~> ~captchaPending \/ ~Alive

\* Whoever waits in the helper, for the carrier or for the window, waits for an end that comes
\* (WaitEnds, WindowEnds), the reason it has a budget and a deadline for.
WaitsEnd == WaitEnds /\ WindowEnds

\* The host is never asked for two windows at a time, and no more than one request waits
\* (captchaWindowMu: without it "the host would get a pack of windows instead of one").
OneWindow ==
    /\ Cardinality({s \in Solvers : HoldsWindow(s)}) <= 1
    /\ Cardinality({s \in Solvers : solver[s].at = "queued"}) <= 1

\* When an attempt is given up because of a captcha, the address to show is known: the event
\* with the address comes before the failure with the reason (attachCaptchaSolver).
BlockedKnowsAddress == phase = "blocked" => urlKnown

\* An answer of the host reaches the goroutine that asked (runAction: it "waits for the result").
AnswerIsHeard == \A s \in Solvers : solver[s].at \in {"asked", "listening"} => solver[s].owed
=============================================================================
