------------------------------- MODULE Relay -------------------------------
(* A SOCKS5 connection through the tunnel: handleConn and relayBidi in the *)
(* helper, handleExitTCP and its two idleCopy at the exit, the application *)
(* and the target at the ends.  Bytes are left out: a stream is open, or   *)
(* its reader finds it ended (a FIN) or broken (an error).  What data does *)
(* is that it finds out that nobody reads any more.                        *)
EXTENDS Integers, FiniteSets

CONSTANTS
    Conns,    \* the connections of applications
    MaxFlows  \* exitTCPMaxFlows

ASSUME RelayAssumption == MaxFlows \in Nat \ {0}

Streams == {"open", "ended", "broken"}

VARIABLES
    socks,   \* [Conns -> ...] what handleConn is at
    dial,    \* [Conns -> ...] the goroutine that dials through the tunnel
    app,     \* [Conns -> Streams] what the application sends
    told,    \* [Conns -> Streams] what the application is sent
    upCopy,  \* [Conns -> ...] io.Copy of relayBidi, from the application
    downCopy,\* [Conns -> ...] relayCopy, to the application
    tunUp,   \* [Conns -> Streams] the tunnel towards the exit
    tunDown, \* [Conns -> Streams] and back
    held,    \* the connections through the tunnel the helper has not closed
    flow,    \* [Conns -> ...] what handleExitTCP is at
    copying, \* [Conns -> SUBSET {"up", "down"}] the idleCopy that run
    target,  \* [Conns -> Streams] what the target sends
    slots,   \* the length of exitTCPSemaphore
    others   \* how many of them flows of other clients hold

socksVars == <<socks, dial, upCopy, downCopy, held>>
exitVars == <<flow, copying, slots>>
endVars == <<app, target>>
relayVars == <<socksVars, exitVars, endVars, told, tunUp, tunDown, others>>

RelayTypeOK ==
    /\ socks \in [Conns -> {"idle", "dialing", "relaying", "over"}]
    /\ dial \in [Conns -> {"idle", "opening", "up", "failed"}]
    /\ app \in [Conns -> Streams] /\ told \in [Conns -> Streams]
    /\ upCopy \in [Conns -> {"runs", "done", "failed"}]
    /\ downCopy \in [Conns -> {"runs", "done", "readErr", "writeErr"}]
    /\ tunUp \in [Conns -> Streams] /\ tunDown \in [Conns -> Streams]
    /\ held \subseteq Conns
    /\ flow \in [Conns -> {"none", "accepted", "dialing", "copying", "done"}]
    /\ copying \in [Conns -> SUBSET {"up", "down"}]
    /\ target \in [Conns -> Streams]
    /\ slots \in 0..MaxFlows /\ others \in 0..MaxFlows

RelayInit ==
    /\ socks = [c \in Conns |-> "idle"] /\ dial = [c \in Conns |-> "idle"]
    /\ app = [c \in Conns |-> "open"] /\ told = [c \in Conns |-> "open"]
    /\ upCopy = [c \in Conns |-> "runs"] /\ downCopy = [c \in Conns |-> "runs"]
    /\ tunUp = [c \in Conns |-> "open"] /\ tunDown = [c \in Conns |-> "open"]
    /\ held = {} /\ flow = [c \in Conns |-> "none"]
    /\ copying = [c \in Conns |-> {}] /\ target = [c \in Conns |-> "open"]
    /\ slots = 0 /\ others = 0

Set(f, c, v) == f' = [f EXCEPT ![c] = v]

\* A socket that is closed ends the stream it writes, or, with something unread, breaks it.
ClosedFor(stream) == IF stream = "open" THEN {"ended", "broken"} ELSE {stream}
----------------------------------------------------------------------------
(* The ends: an application or a target finishes or breaks off; the        *)
(* connection through the tunnel is given up by one of its two stacks.     *)

AppEnds(c) ==
    /\ socks[c] # "idle" /\ app[c] = "open"
    /\ \E how \in {"ended", "broken"} : Set(app, c, how)
    /\ UNCHANGED <<socksVars, exitVars, told, tunUp, tunDown, target>>

AppBreaks(c) ==
    /\ app[c] = "ended" /\ Set(app, c, "broken")
    /\ UNCHANGED <<socksVars, exitVars, told, tunUp, tunDown, target>>

TargetEnds(c) ==
    /\ flow[c] = "copying" /\ target[c] = "open"
    /\ \E how \in {"ended", "broken"} : Set(target, c, how)
    /\ UNCHANGED <<socksVars, exitVars, told, tunUp, tunDown, app>>

TunnelBreaks(c) ==
    /\ dial[c] = "up"
    /\ \/ tunUp[c] # "broken" /\ Set(tunUp, c, "broken") /\ UNCHANGED tunDown
       \/ tunDown[c] # "broken" /\ Set(tunDown, c, "broken") /\ UNCHANGED tunUp
    /\ UNCHANGED <<socksVars, exitVars, endVars, told>>
----------------------------------------------------------------------------
(* The helper: handleConn, and the goroutine that dials for it.            *)

\* c.Close(), deferred: the application that was sent nothing yet finds the end.
CloseClient(c) == Set(told, c, IF told[c] = "open" THEN "ended" ELSE told[c])

\* The request is read and its name resolved, or refused.
Serve(c) ==
    /\ socks[c] = "idle"
    /\ \/ Set(socks, c, "dialing") /\ Set(dial, c, "opening") /\ UNCHANGED told
       \/ Set(socks, c, "over") /\ CloseClient(c) /\ UNCHANGED dial
    /\ UNCHANGED <<upCopy, downCopy, held, exitVars, endVars, tunUp, tunDown>>

DialEnds(c) ==
    /\ dial[c] = "opening"
    /\ \/ /\ Set(dial, c, "up") /\ held' = held \cup {c} /\ Set(flow, c, "accepted")
       \/ /\ Set(dial, c, "failed") /\ UNCHANGED <<held, flow>>
    /\ UNCHANGED <<socks, upCopy, downCopy, copying, slots, endVars, told, tunUp, tunDown>>

\* up.Close(), deferred.
CloseUp(c) ==
    /\ held' = held \ {c}
    /\ \E how \in ClosedFor(tunUp[c]) : Set(tunUp, c, how)

DialAnswered(c) ==
    /\ socks[c] = "dialing" /\ dial[c] \in {"up", "failed"}
    /\ \/ /\ dial[c] = "up" /\ Set(socks, c, "relaying")
          /\ UNCHANGED <<told, tunUp, held>>
       \/ /\ dial[c] = "up" /\ app[c] = "broken" /\ Set(socks, c, "over")
          /\ CloseUp(c) /\ CloseClient(c)
       \/ /\ dial[c] = "failed" /\ Set(socks, c, "over")
          /\ CloseClient(c) /\ UNCHANGED <<tunUp, held>>
    /\ UNCHANGED <<dial, upCopy, downCopy, exitVars, endVars, tunDown>>

\* After dialTimeout; a result that is there or comes later stays in the channel.
DialTimesOut(c) ==
    /\ socks[c] = "dialing" /\ Set(socks, c, "over") /\ CloseClient(c)
    /\ UNCHANGED <<dial, upCopy, downCopy, held, exitVars, endVars, tunUp, tunDown>>

\* The application finished; CloseWrite passes that on.
UpEnds(c) ==
    /\ socks[c] = "relaying" /\ upCopy[c] = "runs" /\ app[c] = "ended" /\ told[c] # "broken"
    /\ Set(upCopy, c, "done")
    /\ Set(tunUp, c, IF tunUp[c] = "open" THEN "ended" ELSE tunUp[c])
    /\ UNCHANGED <<socks, dial, downCopy, held, exitVars, endVars, told, tunDown>>

\* The application broke off, its connection was closed here, or the tunnel takes nothing more.
UpFails(c) ==
    /\ socks[c] = "relaying" /\ upCopy[c] = "runs"
    /\ app[c] = "broken" \/ told[c] = "broken" \/ flow[c] = "done" \/ tunDown[c] = "broken"
    /\ Set(upCopy, c, "failed")
    /\ UNCHANGED <<socks, dial, downCopy, held, exitVars, endVars, told, tunUp, tunDown>>

\* What relayBidi does to the application once the way down has ended.
\* Mutant: TellsEnd is the CloseWrite on any outcome that relayBidi once did.
TellsEnd(outcome) == IF outcome = "writeErr" THEN "open" ELSE "ended"
Tells(outcome) ==
    CASE outcome = "readErr" -> "broken"
      [] outcome = "done" -> "ended"
      [] outcome = "writeErr" -> "open"

DownEnds(c) ==
    /\ socks[c] = "relaying" /\ downCopy[c] = "runs"
    /\ \E outcome \in {"done", "readErr", "writeErr"} :
         /\ outcome = "done" => tunDown[c] = "ended"
         /\ outcome = "readErr" => tunDown[c] = "broken"
         /\ outcome = "writeErr" =>
              app[c] = "broken" /\ tunDown[c] = "open" /\ "down" \in copying[c]
         /\ Set(downCopy, c, outcome) /\ Set(told, c, Tells(outcome))
    /\ UNCHANGED <<socks, dial, upCopy, held, exitVars, endVars, tunUp, tunDown>>

RelayEnds(c) ==
    /\ socks[c] = "relaying" /\ upCopy[c] # "runs" /\ downCopy[c] # "runs"
    /\ Set(socks, c, "over") /\ CloseUp(c) /\ CloseClient(c)
    /\ UNCHANGED <<dial, upCopy, downCopy, exitVars, endVars, tunDown>>
----------------------------------------------------------------------------
(* The exit: handleExitTCP.                                                *)

CloseLocal(c) == \E how \in ClosedFor(tunDown[c]) : Set(tunDown, c, how)

TakeSlot(c) ==
    /\ flow[c] = "accepted" /\ slots < MaxFlows
    /\ slots' = slots + 1 /\ Set(flow, c, "dialing")
    /\ UNCHANGED <<socksVars, endVars, copying, told, tunUp, tunDown>>

RejectFlow(c) ==
    /\ flow[c] = "accepted" /\ slots = MaxFlows
    /\ Set(flow, c, "done") /\ CloseLocal(c)
    /\ UNCHANGED <<socksVars, endVars, copying, slots, told, tunUp>>

\* The deferred receive from exitTCPSemaphore.
\* Mutant: KeepIfRefused forgets it where the dial failed.
KeepIfRefused(c) == IF flow[c] = "dialing" THEN slots ELSE slots - 1
Released(c) == slots - 1

ExitDials(c) ==
    /\ flow[c] = "dialing"
    /\ \/ /\ Set(flow, c, "copying") /\ Set(copying, c, {"up", "down"})
          /\ UNCHANGED <<slots, tunDown>>
       \/ /\ Set(flow, c, "done") /\ slots' = Released(c) /\ CloseLocal(c)
          /\ UNCHANGED copying
    /\ UNCHANGED <<socksVars, endVars, told, tunUp>>

\* An end, an error of the source, or a reader that is gone.
CopyEnds(c, d) ==
    /\ d \in copying[c]
    /\ \/ d = "up" /\ (tunUp[c] # "open" \/ target[c] = "broken")
       \/ d = "down" /\ (target[c] # "open" \/ tunUp[c] = "broken" \/ (dial[c] = "up" /\ c \notin held))
    /\ Set(copying, c, copying[c] \ {d})
    /\ UNCHANGED <<socksVars, endVars, flow, slots, told, tunUp, tunDown>>

\* exitTCPIdleTimeout: nothing was read or written for five minutes.
\* Mutant: NeverIdle is an idleCopy without deadlines.
NeverIdle(c, d) == FALSE
GoesIdle(c, d) == d \in copying[c]

CopyIdles(c, d) ==
    /\ GoesIdle(c, d) /\ Set(copying, c, copying[c] \ {d})
    /\ UNCHANGED <<socksVars, endVars, flow, slots, told, tunUp, tunDown>>

FlowEnds(c) ==
    /\ flow[c] = "copying" /\ copying[c] = {}
    /\ Set(flow, c, "done") /\ slots' = Released(c) /\ CloseLocal(c)
    /\ UNCHANGED <<socksVars, endVars, copying, told, tunUp>>

ExitMoves(c) ==
    \/ TakeSlot(c) \/ RejectFlow(c) \/ ExitDials(c) \/ FlowEnds(c)
    \/ \E d \in {"up", "down"} : CopyEnds(c, d)

HelperMoves(c) ==
    \/ DialAnswered(c) \/ DialTimesOut(c) \/ UpEnds(c) \/ UpFails(c) \/ DownEnds(c) \/ RelayEnds(c)

\* The semaphore belongs to the process: the flows of all its clients share it.
OthersMove ==
    /\ \/ slots < MaxFlows /\ slots' = slots + 1 /\ others' = others + 1
       \/ others > 0 /\ slots' = slots - 1 /\ others' = others - 1
    /\ UNCHANGED <<socksVars, flow, copying, endVars, told, tunUp, tunDown>>

RelayNext ==
    \/ OthersMove
    \/ /\ UNCHANGED others
       /\ \E c \in Conns :
           \/ AppEnds(c) \/ AppBreaks(c) \/ TargetEnds(c) \/ TunnelBreaks(c)
           \/ Serve(c) \/ DialEnds(c) \/ HelperMoves(c) \/ ExitMoves(c)
           \/ \E d \in {"up", "down"} : CopyIdles(c, d)

\* Nobody sends into the connection any more.
Quiet(c) == app[c] = "broken" \/ socks[c] = "over"

DialGoesOn(c) == DialEnds(c) /\ UNCHANGED others
HelperGoesOn(c) == HelperMoves(c) /\ UNCHANGED others
ExitGoesOn(c) == ExitMoves(c) /\ UNCHANGED others
SilenceIdles(c, d) == Quiet(c) /\ CopyIdles(c, d) /\ UNCHANGED others

\* Goroutines that can go on do; a dial ends; what is silent for good is idle at some time.
RelayFairness ==
    \A c \in Conns :
        /\ WF_relayVars(DialGoesOn(c)) /\ WF_relayVars(HelperGoesOn(c)) /\ WF_relayVars(ExitGoesOn(c))
        /\ \A d \in {"up", "down"} : WF_relayVars(SilenceIdles(c, d))

RelaySpec == RelayInit /\ [][RelayNext]_relayVars /\ RelayFairness
----------------------------------------------------------------------------
\* A slot of exitTCPSemaphore is taken for as long as a flow is dialled or copied and not a
\* moment longer, whichever way it ends: a slot that is not given back lowers the limit for good.
SlotsMatchFlows == slots - others = Cardinality({c \in Conns : flow[c] \in {"dialing", "copying"}})

\* "An error of the upstream must not pass for the regular end of the stream" (relayBidi): an
\* application that was relayed is told an end only where the tunnel had one.
EndsAreHonest ==
    \A c \in Conns : socks[c] = "relaying" /\ told[c] = "ended" => downCopy[c] = "done"

\* An application that breaks off leaves nothing behind: its connection ends in the helper and
\* its flow at the exit, also where the target never says another word.
GoneIsCleanedUp ==
    \A c \in Conns : app[c] = "broken" ~> (socks[c] = "over" /\ flow[c] \in {"none", "done"})

\* Not kept: a connection that comes up after dialTimeout is closed by nobody in the helper.
LateIsClosed == \A c \in Conns : socks[c] = "over" => c \notin held

\* Not kept: idleCopy and a failed dial of the exit end the stream of a target that broke.
TargetErrorsShow ==
    \A c \in Conns : socks[c] = "relaying" /\ told[c] = "ended" => target[c] = "ended"
=============================================================================
