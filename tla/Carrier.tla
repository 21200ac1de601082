------------------------------ MODULE Carrier ------------------------------
(* What the rest of the program may rely on of a carrier: whether it says  *)
(* it is connected (Transport.IsConnected) and the order in which it       *)
(* reports what becomes of an attempt (transport/transport.go, the events  *)
(* of ErrorNotifier).  When and why an attempt fails is left open.         *)

VARIABLES
    phase,      \* what the carrier is at
    connected   \* what IsConnected says

carrierVars == <<phase, connected>>

\* trying: an attempt is under way.  challenged: it has reported EventCaptchaRequired.
\* up: it has reported EventConnected.  failed, blocked: it has failed, and for blocked the
\* reason is the captcha; that is not reported yet.  pausing: it has reported EventRetrying.
CarrierTypeOK ==
    /\ phase \in {"trying", "challenged", "up", "failed", "blocked", "pausing", "over"}
    /\ connected \in BOOLEAN

CarrierInit == phase = "trying" /\ connected = FALSE

\* EventCaptchaRequired
Challenged == phase = "trying" /\ phase' = "challenged" /\ UNCHANGED connected

\* The carrier solves the captcha itself.
Solved == phase = "challenged" /\ phase' = "trying" /\ UNCHANGED connected

\* EventConnected
ComesUp == phase = "trying" /\ phase' = "up" /\ connected' = TRUE

Fails ==
    \/ phase \in {"trying", "challenged"} /\ phase' = "failed" /\ UNCHANGED connected
    \/ phase = "up" /\ phase' = "failed" /\ connected' = FALSE

Blocked == phase = "challenged" /\ phase' = "blocked" /\ UNCHANGED connected

\* EventRetrying
Reports == phase \in {"failed", "blocked"} /\ phase' = "pausing" /\ UNCHANGED connected

TriesAgain == phase = "pausing" /\ phase' = "trying" /\ UNCHANGED connected

\* A keepalive fails, or Stop is called.
Disconnects == connected /\ connected' = FALSE /\ UNCHANGED phase

Ends == phase' = "over" /\ connected' \in {connected, FALSE}

CarrierNext ==
    \/ Challenged \/ Solved \/ ComesUp \/ Fails \/ Blocked \/ Reports \/ TriesAgain
    \/ Disconnects \/ Ends

CarrierSpec == CarrierInit /\ [][CarrierNext]_carrierVars
=============================================================================
