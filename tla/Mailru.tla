------------------------------- MODULE Mailru ------------------------------
(***************************************************************************)
(* The Mail.ru document carrier (transport/mailru/mailru.go).  A chain is  *)
(* a goroutine of connectToDoc and those that follow it: it fetches the    *)
(* document, dials, shakes hands, reads until the connection fails, waits  *)
(* and connects again.  Start begins one; ApplyCookies drops the session   *)
(* and schedules a reconnect of its own, which reconnecting is to keep     *)
(* from becoming a second chain.  The keepalive fails on its own.          *)
(***************************************************************************)
EXTENDS BaseTransport, Naturals, FiniteSets

CONSTANTS
    Chains,      \* chains there is room for
    MaxApplies,  \* bound on the calls of ApplyCookies
    MaxMailWriters \* bound on the writer loops

ASSUME MailruAssumption ==
    Chains \subseteq Nat \ {0} /\ Chains # {} /\ MaxApplies \in Nat /\ MaxMailWriters \in Nat \ {0}

VARIABLES
    chain,           \* where each chain is
    mailSession,     \* the chain whose session is published (t.session), 0 if there is none
    mailWriters,     \* writer loops that were started
    reconnecting,    \* t.reconnecting
    mailKeepalive,   \* the keepalive has failed to write and is about to give up its connection
    applying,        \* what ApplyCookies is about to close, then to schedule
    mayApply,        \* whether there is a caller of ApplyCookies; fixed
    applies          \* calls of ApplyCookies so far

mailLink == <<mailSession, mailWriters>>
mailCalls == <<mailKeepalive, applying, mayApply, applies>>
mailVars == <<running, connected, chain, mailLink, reconnecting, mailCalls>>

\* existing: there was a session when the attempt began.  open: its socket is.
Chain ==
    [at : {"none", "slot", "fetch", "dial", "handshake", "live", "failed", "emit", "wait", "ended"},
     existing : BOOLEAN, open : BOOLEAN]
NoChain == [at |-> "none", existing |-> FALSE, open |-> FALSE]
Idle(c) == chain[c].at \in {"none", "ended"}
\* A call that closes a connection: it means that of the chain's session now, 0 one that is over.
NoCall == [at |-> "idle", session |-> 0]
FirstChain == CHOOSE c \in Chains : \A d \in Chains : c <= d

MailruTypeOK ==
    /\ chain \in [Chains -> Chain] /\ mailSession \in Chains \cup {0}
    /\ mailWriters \in 0..MaxMailWriters /\ reconnecting \in BOOLEAN
    /\ mailKeepalive.at \in {"idle", "close"} /\ mailKeepalive.session \in Chains \cup {0}
    /\ applying.at \in {"idle", "close", "schedule"} /\ applying.session \in Chains \cup {0}
    /\ mayApply \in BOOLEAN /\ applies \in 0..MaxApplies

\* Start has called connectToDoc.
MailruInit ==
    /\ chain = [c \in Chains |-> IF c = FirstChain THEN [NoChain EXCEPT !.at = "slot"] ELSE NoChain]
    /\ mailSession = 0 /\ mailWriters = 0 /\ reconnecting = FALSE /\ mailKeepalive = NoCall
    /\ applying = NoCall /\ mayApply \in BOOLEAN /\ applies = 0
----------------------------------------------------------------------------
(* connectToDoc *)

Goes(c, from, to) == chain[c].at = from /\ chain' = [chain EXCEPT ![c].at = to]

\* WaitConnectSlot gives a free slot even to a carrier that was stopped.
MailSlot(c) ==
    /\ chain[c].at = "slot"
    /\ \/ chain' = [chain EXCEPT ![c].at = "fetch", ![c].existing = (mailSession # 0)]
       \/ ~running /\ chain' = [chain EXCEPT ![c] = [NoChain EXCEPT !.at = "ended"]]
    /\ UNCHANGED <<running, connected, mailLink, reconnecting, mailCalls>>

MailFetch(c) ==
    /\ Goes(c, "fetch", "dial")
    /\ UNCHANGED <<running, connected, mailLink, reconnecting, mailCalls>>

MailDial(c) ==
    /\ chain[c].at = "dial"
    /\ chain' = [chain EXCEPT ![c].at = "handshake", ![c].open = TRUE]
    /\ UNCHANGED <<running, connected, mailLink, reconnecting, mailCalls>>

\* The document cannot be opened, the dial fails, or waitMailruSocketIO does.
MailAttemptFails(c) ==
    /\ chain[c].at \in {"fetch", "dial", "handshake"}
    /\ chain' = [chain EXCEPT ![c] = [NoChain EXCEPT !.at = "failed"]]
    /\ UNCHANGED <<running, connected, mailLink, reconnecting, mailCalls>>

\* The session is published, the carrier says it is connected, and the first session of its
\* queue starts a writer.  Authentication follows; it decides nothing.
MailConnected(c) ==
    /\ Goes(c, "handshake", "live")
    /\ mailSession' = c /\ connected' = TRUE
    /\ IF chain[c].existing
       THEN UNCHANGED mailWriters
       ELSE mailWriters < MaxMailWriters /\ mailWriters' = mailWriters + 1
    /\ UNCHANGED <<running, reconnecting, mailCalls>>

Over(call, c) == [call EXCEPT !.session = IF @ = c THEN 0 ELSE @]

MailReadFails(c) ==
    /\ chain[c].at = "live"
    /\ chain' = [chain EXCEPT ![c] = [NoChain EXCEPT !.at = "failed"]]
    /\ connected' = FALSE
    /\ mailKeepalive' = Over(mailKeepalive, c) /\ applying' = Over(applying, c)
    /\ UNCHANGED <<running, mailLink, reconnecting, mayApply, applies>>

\* Once the carrier is stopped the read loop ends after the next message; nobody closes the
\* socket.
MailLeaves(c) ==
    /\ chain[c].at = "live" /\ ~running
    /\ chain' = [chain EXCEPT ![c] = [at |-> "ended", existing |-> FALSE, open |-> TRUE]]
    /\ UNCHANGED <<running, connected, mailLink, reconnecting, mailCalls>>
----------------------------------------------------------------------------
(* scheduleReconnect *)

\* Mutant: the flag is not reset when the wait is over.
StaysSet == reconnecting
Reset == FALSE

\* One that is waiting already is enough.
MailSchedule(c) ==
    /\ chain[c].at = "failed"
    /\ IF running /\ ~reconnecting
       THEN chain' = [chain EXCEPT ![c].at = "emit"] /\ reconnecting' = TRUE
       ELSE chain' = [chain EXCEPT ![c].at = "ended"] /\ UNCHANGED reconnecting
    /\ UNCHANGED <<running, connected, mailLink, mailCalls>>

\* EventRetrying
MailRetrying(c) ==
    /\ Goes(c, "emit", "wait")
    /\ UNCHANGED <<running, connected, mailLink, reconnecting, mailCalls>>

\* Nothing cuts the wait short.
MailWaitEnds(c) ==
    /\ Goes(c, "wait", IF running THEN "slot" ELSE "ended")
    /\ reconnecting' = Reset
    /\ UNCHANGED <<running, connected, mailLink, mailCalls>>
----------------------------------------------------------------------------
(* The other goroutines *)

\* The keepalive cannot be written to the connection of the published session.
MailKeepaliveFails ==
    /\ running /\ mailSession # 0 /\ mailKeepalive.at = "idle"
    /\ mailKeepalive' = [at |-> "close",
                         session |-> IF chain[mailSession].at = "live" THEN mailSession ELSE 0]
    /\ UNCHANGED <<running, connected, chain, mailLink, reconnecting, applying, mayApply, applies>>

Closed(session) == IF session = 0 THEN chain ELSE [chain EXCEPT ![session] = [@ EXCEPT !.open = FALSE]]

\* That connection is closed, and the carrier is not connected any more, whichever session it
\* has by now.
MailKeepaliveGivesUp ==
    /\ mailKeepalive.at = "close"
    /\ connected' = FALSE /\ chain' = Closed(mailKeepalive.session)
    /\ mailKeepalive' = NoCall
    /\ UNCHANGED <<running, mailLink, reconnecting, applying, mayApply, applies>>

\* ApplyCookies: the session is taken away under the lock,
ApplyCookies ==
    /\ mayApply /\ applies < MaxApplies /\ applying.at = "idle"
    /\ applies' = applies + 1
    /\ applying' = [at |-> "close",
                    session |-> IF mailSession # 0 /\ chain[mailSession].at = "live" THEN mailSession ELSE 0]
    /\ mailSession' = 0 /\ connected' = FALSE
    /\ UNCHANGED <<running, chain, mailWriters, reconnecting, mailKeepalive, mayApply>>

\* its connection is closed, at which the reader fails,
ApplyCloses ==
    /\ applying.at = "close"
    /\ applying' = [at |-> "schedule", session |-> 0]
    /\ chain' = Closed(applying.session)
    /\ UNCHANGED <<running, connected, mailLink, reconnecting, mailKeepalive, mayApply, applies>>

\* and a reconnect scheduled, by a chain that begins with the wait.
ApplySchedules ==
    /\ applying.at = "schedule"
    /\ applying' = NoCall
    /\ IF running
       THEN \E c \in Chains :
              /\ Idle(c) /\ ~chain[c].open /\ \A d \in Chains : Idle(d) /\ ~chain[d].open => c <= d
              /\ chain' = [chain EXCEPT ![c] = [NoChain EXCEPT !.at = "failed"]]
       ELSE UNCHANGED chain
    /\ UNCHANGED <<running, connected, mailLink, reconnecting, mailKeepalive, mayApply, applies>>

\* Stop is that of BaseTransport.
MailStop ==
    /\ running /\ Stopped
    /\ UNCHANGED <<chain, mailLink, reconnecting, mailCalls>>

MailruNext ==
    \/ \E c \in Chains :
         \/ MailSlot(c) \/ MailFetch(c) \/ MailDial(c) \/ MailAttemptFails(c) \/ MailConnected(c)
         \/ MailReadFails(c) \/ MailLeaves(c)
         \/ MailSchedule(c) \/ MailRetrying(c) \/ MailWaitEnds(c)
    \/ MailKeepaliveFails \/ MailKeepaliveGivesUp
    \/ ApplyCookies \/ ApplyCloses \/ ApplySchedules \/ MailStop

MailruSpec == Started /\ MailruInit /\ [][MailruNext]_mailVars
----------------------------------------------------------------------------
\* A carrier that was not stopped goes on trying: a chain that gives up because another waits
\* leaves that other behind (scheduleReconnect).
SomeChainLives == running => \E c \in Chains : ~Idle(c)

\* No two chains have a session with the document ("two reconnects open two sessions to the
\* document", which reconnecting is there to prevent).
OneDocumentSession == Cardinality({c \in Chains : chain[c].at = "live" /\ chain[c].open}) <= 1

\* A live session that nobody is about to give up is one the carrier says is connected: else
\* Send refuses every packet for as long as that session lives.
LiveIsConnected ==
    running /\ (\E c \in Chains : chain[c].at = "live" /\ chain[c].open)
        /\ mailKeepalive.at = "idle" /\ applying.at = "idle"
        => connected

\* What a carrier promises (Carrier), while nobody applies cookies.
MailruPhase ==
    LET at == chain[FirstChain].at
    IN  CASE at = "live" -> "up"
          [] at \in {"failed", "emit"} -> "failed"
          [] at = "wait" -> "pausing"
          [] at = "ended" -> "over"
          [] OTHER -> "trying"
MailruPromised == INSTANCE Carrier WITH
    phase <- IF mayApply THEN "trying" ELSE MailruPhase,
    connected <- IF mayApply THEN FALSE ELSE connected
MailruKeepsOrder == MailruPromised!CarrierSpec
=============================================================================
