-------------------------------- MODULE OneMe -------------------------------
(***************************************************************************)
(* The MAX carrier (transport/oneme): the client calls the exit through a  *)
(* control connection to the messenger, and packets go as ICE candidates   *)
(* over the signaling connection of the call.  A loop of the client makes  *)
(* a new call at a signal; a reader of each connection signals its end and *)
(* gives every message to a goroutine of its own.  The exit answers calls. *)
(***************************************************************************)
EXTENDS Naturals, SequencesExt, FiniteSets

CONSTANTS
    Calls,          \* signaling connections there is room for; the n-th call uses the n-th
    MaxMaxPackets   \* bound on the packets the client sends

ASSUME OneMeAssumption == Calls \in Nat \ {0} /\ MaxMaxPackets \in Nat

VARIABLES
    control,    \* the control connection of the client lives (MaxClient)
    caller,     \* where the loop of startOutgoingCall is
    callConn,   \* the connection of the last call (h.conn), 0 before the first
    callOpen,   \* connections that live
    readers,    \* readLoops: the connection each reads now
    signal,     \* reconnectCh holds a token
    answered,   \* exit: the call it is connected to (h.conn), 0 for none
    acceptDue,  \* exit: the timer that accepts the call runs
    acceptSent, \* exit: h.acceptSent
    accepted,   \* calls that were accepted
    wire,       \* packets on their way over each connection, in order
    handlers,   \* goroutines of msgHandler at the exit, one for each packet
    injected,   \* packets the client has sent so far
    inbound     \* packets the exit has handed to dcInbound, in order

oneMeClient == <<control, caller, callConn, callOpen, readers, signal>>
oneMeExit == <<answered, acceptDue, acceptSent, accepted>>
oneMeData == <<wire, handlers, injected, inbound>>
oneMeVars == <<oneMeClient, oneMeExit, oneMeData>>

CallIds == 1..Calls
MaxIds == 1..MaxMaxPackets

OneMeTypeOK ==
    /\ control \in BOOLEAN /\ caller \in {"start", "invoke", "dial", "serve", "up", "pause"}
    /\ callConn \in CallIds \cup {0} /\ callOpen \subseteq CallIds
    /\ readers \in [CallIds -> CallIds \cup {0}] /\ signal \in BOOLEAN
    /\ answered \in CallIds \cup {0} /\ acceptDue \in BOOLEAN /\ acceptSent \in BOOLEAN
    /\ accepted \subseteq CallIds
    /\ wire \in [CallIds -> Seq(MaxIds)] /\ handlers \subseteq MaxIds
    /\ injected \in 0..MaxMaxPackets /\ inbound \in Seq(MaxIds)

\* Start has connected and logged in.
OneMeInit ==
    /\ control = TRUE /\ caller = "start" /\ callConn = 0 /\ callOpen = {}
    /\ readers = [c \in CallIds |-> 0] /\ signal = FALSE
    /\ answered = 0 /\ acceptDue = FALSE /\ acceptSent = FALSE /\ accepted = {}
    /\ wire = [c \in CallIds |-> <<>>] /\ handlers = {} /\ injected = 0 /\ inbound = <<>>
----------------------------------------------------------------------------
(* The loop of startOutgoingCall *)

CallerGoes(from, to) == caller = from /\ caller' = to

\* What belongs to the call before is reset, but not its connection.
CallStarts ==
    /\ CallerGoes("start", "invoke")
    /\ UNCHANGED <<control, callConn, callOpen, readers, signal, oneMeExit, oneMeData>>

\* invoke needs the control connection, which nothing makes again once it is lost; it or the
\* dial fails, and all is tried again after a second.
CallFails ==
    /\ CallerGoes("invoke", "start") \/ CallerGoes("dial", "start")
    /\ UNCHANGED <<control, callConn, callOpen, readers, signal, oneMeExit, oneMeData>>

CallInvoked ==
    /\ control /\ CallerGoes("invoke", "dial")
    /\ UNCHANGED <<control, callConn, callOpen, readers, signal, oneMeExit, oneMeData>>

\* The connection takes the place of the one before, and a reader is to read it.
CallDialed ==
    /\ CallerGoes("dial", "serve") /\ callConn < Calls
    /\ callConn' = callConn + 1 /\ callOpen' = callOpen \cup {callConn + 1}
    /\ readers' = [readers EXCEPT ![callConn + 1] = callConn + 1]
    /\ UNCHANGED <<control, signal, oneMeExit, oneMeData>>

\* By the time the loop waits for the signal, the reader may be through already.
CallServed ==
    /\ CallerGoes("serve", "up")
    /\ UNCHANGED <<control, callConn, callOpen, readers, signal, oneMeExit, oneMeData>>

Resignalled ==
    /\ signal /\ CallerGoes("up", "pause") /\ signal' = FALSE
    /\ UNCHANGED <<control, callConn, callOpen, readers, oneMeExit, oneMeData>>

CallPauses ==
    /\ CallerGoes("pause", "start")
    /\ UNCHANGED <<control, callConn, callOpen, readers, signal, oneMeExit, oneMeData>>
----------------------------------------------------------------------------
(* signalReconnect, CallHandler.readLoop *)

\* Mutant: nobody is signalled who does not wait.
SignalsWaiting == signal \/ caller = "up"
Signals == TRUE

MaxForces ==
    /\ signal' = Signals
    /\ UNCHANGED <<control, caller, callConn, callOpen, readers, oneMeExit, oneMeData>>

\* A read fails: the reader signals and ends.
ReaderFails(r) ==
    /\ readers[r] # 0 /\ readers[r] \notin callOpen
    /\ readers' = [readers EXCEPT ![r] = 0] /\ signal' = Signals
    /\ UNCHANGED <<control, caller, callConn, callOpen, oneMeExit, oneMeData>>

\* A message of the server is read; then the reader goes on with the connection there is by now.
ReaderReads(r) ==
    /\ readers[r] \in callOpen /\ readers' = [readers EXCEPT ![r] = callConn]
    /\ readers[r] # callConn
    /\ UNCHANGED <<control, caller, callConn, callOpen, signal, oneMeExit, oneMeData>>

\* The network: a signaling connection, or the control connection, fails.
SignalingFails(c) ==
    /\ c \in callOpen /\ callOpen' = callOpen \ {c}
    /\ UNCHANGED <<control, caller, callConn, readers, signal, oneMeExit, oneMeData>>

ControlFails ==
    /\ control /\ control' = FALSE
    /\ UNCHANGED <<caller, callConn, callOpen, readers, signal, oneMeExit, oneMeData>>
----------------------------------------------------------------------------
(* startIncomingListener: the exit *)

\* It connects to the call, and is to accept it a second later.
IncomingCall ==
    /\ callConn # 0 /\ answered < callConn
    /\ answered' = callConn /\ acceptDue' = TRUE
    /\ UNCHANGED <<oneMeClient, acceptSent, accepted, oneMeData>>

\* sendAcceptCall, once for the life of the exit.
AcceptCall ==
    /\ acceptDue /\ acceptDue' = FALSE /\ acceptSent' = TRUE
    /\ accepted' = IF acceptSent THEN accepted ELSE accepted \cup {answered}
    /\ UNCHANGED <<oneMeClient, answered, oneMeData>>
----------------------------------------------------------------------------
(* Send, injectICE and msgHandler *)

\* What a connection that is dead, or not there yet, does with it is not looked at.
MaxSend ==
    /\ injected < MaxMaxPackets /\ injected' = injected + 1
    /\ wire' = IF callConn \in callOpen THEN [wire EXCEPT ![callConn] = Append(@, injected + 1)]
                                        ELSE wire
    /\ UNCHANGED <<oneMeClient, oneMeExit, handlers, inbound>>

\* The reader of the exit starts a goroutine for the message and reads on.
MaxArrives(c) ==
    /\ wire[c] # <<>> /\ answered = c
    /\ wire' = [wire EXCEPT ![c] = Tail(@)] /\ handlers' = handlers \cup {Head(wire[c])}
    /\ UNCHANGED <<oneMeClient, oneMeExit, injected, inbound>>

MaxDelivered(p) ==
    /\ p \in handlers /\ handlers' = handlers \ {p} /\ inbound' = Append(inbound, p)
    /\ UNCHANGED <<oneMeClient, oneMeExit, wire, injected>>

OneMeNext ==
    \/ CallStarts \/ CallFails \/ CallInvoked \/ CallDialed \/ CallServed \/ Resignalled \/ CallPauses
    \/ MaxForces \/ ControlFails \/ IncomingCall \/ AcceptCall \/ MaxSend
    \/ \E c \in CallIds : ReaderFails(c) \/ ReaderReads(c) \/ SignalingFails(c) \/ MaxArrives(c)
    \/ \E p \in MaxIds : MaxDelivered(p)

OneMeSpec == OneMeInit /\ [][OneMeNext]_oneMeVars
----------------------------------------------------------------------------
\* The client does not wait for a signal beside a dead connection that no reader is left to
\* report: the end of a connection is not missed however early it comes (signalReconnect).
DeadIsNoticed ==
    caller = "up" /\ callConn \notin callOpen /\ (\A r \in CallIds : readers[r] # callConn) => signal

\* No two readers read one connection at the same time, which the library does not allow.
OneReader == \A r, s \in CallIds : readers[r] # 0 /\ readers[r] = readers[s] => r = s

\* The exit accepts every call it is connected to.
CallsAccepted == answered # 0 /\ ~acceptDue => answered \in accepted

\* Packets that came over one connection are handed on in that order.
MaxInOrder == \A i, j \in DOMAIN inbound : i < j => inbound[i] < inbound[j]
=============================================================================
