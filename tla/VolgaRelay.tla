----------------------------- MODULE VolgaRelay -----------------------------
(***************************************************************************)
(* The packets of the Volga carrier (transport/yandex/vyandex.go): Send    *)
(* puts them into the queue of the relay, workers gather them into batches *)
(* and post each as one message, which the listeners of all the others in  *)
(* the document are sent.  Stop closes the queue the senders use.          *)
(***************************************************************************)
EXTENDS Naturals, FiniteSets, SequencesExt

CONSTANTS
    RelaySenders,    \* callers of Send
    RelayWorkers,    \* the workers (config.WorkerCount)
    MaxRelayPackets, \* bound on the packets
    RelayBatch,      \* config.BatchSize
    RelayQueue,      \* config.QueueSize
    MaxUsers         \* bound on the authorizations, each for a user of its own

ASSUME VolgaRelayAssumption ==
    /\ MaxRelayPackets \in Nat /\ RelayBatch \in Nat \ {0} /\ RelayQueue \in Nat \ {0}
    /\ MaxUsers \in Nat \ {0}

VARIABLES
    relaySender, \* the packet each sender holds while it has the lock of Send; 0: not sending
    numbered,    \* the packets given to Send so far
    batchQueue,  \* batchQueue
    queueClosed, \* whether it is closed
    relayStop,   \* how far Stop is
    volgaWorker, \* the batch of each worker, and whether it is being posted
    user,        \* the user of the current authorization
    posted,      \* the messages the server has taken and not handed on yet
    peerGot,     \* the packets the peer's callback got
    ownGot       \* the packets of its own this side's callback got

relaySending == <<relaySender, numbered>>
relayStopping == <<relayStop, queueClosed>>
relayVars == <<relaySending, batchQueue, relayStopping, volgaWorker, user, posted, peerGot, ownGot>>

RelayPackets == 1..MaxRelayPackets
Users == 1..MaxUsers

VolgaRelayTypeOK ==
    /\ relaySender \in [RelaySenders -> 0..MaxRelayPackets] /\ numbered \in 0..MaxRelayPackets
    /\ batchQueue \in Seq(RelayPackets) /\ Len(batchQueue) <= RelayQueue
    /\ queueClosed \in BOOLEAN
    /\ relayStop \in {"running", "cancelled", "locked", "returned"}
    /\ \A w \in RelayWorkers :
         /\ volgaWorker[w].at \in {"gathering", "posting", "gone"}
         /\ volgaWorker[w].batch \in Seq(RelayPackets) /\ Len(volgaWorker[w].batch) <= RelayBatch
         /\ volgaWorker[w].user \in Users
    /\ user \in Users
    /\ \A m \in posted : m.user \in Users /\ m.packets \in Seq(RelayPackets)
    /\ peerGot \in Seq(RelayPackets) /\ ownGot \in Seq(RelayPackets)

VolgaRelayInit ==
    /\ relaySender = [s \in RelaySenders |-> 0] /\ numbered = 0
    /\ batchQueue = <<>> /\ queueClosed = FALSE /\ relayStop = "running"
    /\ volgaWorker = [w \in RelayWorkers |-> [at |-> "gathering", batch |-> <<>>, user |-> 1]]
    /\ user = 1 /\ posted = {} /\ peerGot = <<>> /\ ownGot = <<>>
----------------------------------------------------------------------------
(* Send, with the lock for reading held from one step to the other *)

SendTakesLock(s) ==
    /\ relaySender[s] = 0 /\ numbered < MaxRelayPackets /\ relayStop \in {"running", "cancelled"}
    /\ numbered' = numbered + 1
    /\ relaySender' = [relaySender EXCEPT ![s] = numbered + 1]
    /\ UNCHANGED <<batchQueue, relayStopping, volgaWorker, user, posted, peerGot, ownGot>>

\* A full queue drops the packet.  A closed one panics.
SendQueues(s) ==
    /\ relaySender[s] # 0
    /\ batchQueue' = IF ~queueClosed /\ Len(batchQueue) < RelayQueue
                     THEN Append(batchQueue, relaySender[s]) ELSE batchQueue
    /\ relaySender' = [relaySender EXCEPT ![s] = 0]
    /\ UNCHANGED <<numbered, relayStopping, volgaWorker, user, posted, peerGot, ownGot>>
----------------------------------------------------------------------------
(* worker and sendBatch *)

Worker(w, at, batch) == [volgaWorker EXCEPT ![w].at = at, ![w].batch = batch]

\* A full batch is posted at once, with the authorization of this moment.
Gather(w) ==
    /\ volgaWorker[w].at = "gathering" /\ batchQueue # <<>>
    /\ LET batch == Append(volgaWorker[w].batch, Head(batchQueue))
       IN  volgaWorker' = [Worker(w, IF Len(batch) = RelayBatch THEN "posting" ELSE "gathering",
                                  batch) EXCEPT ![w].user = user]
    /\ batchQueue' = Tail(batchQueue)
    /\ UNCHANGED <<relaySending, relayStopping, user, posted, peerGot, ownGot>>

\* The timer of the batch.
FlushTimer(w) ==
    /\ volgaWorker[w].at = "gathering" /\ volgaWorker[w].batch # <<>>
    /\ volgaWorker' = [Worker(w, "posting", volgaWorker[w].batch) EXCEPT ![w].user = user]
    /\ UNCHANGED <<relaySending, batchQueue, relayStopping, user, posted, peerGot, ownGot>>

\* The batch is given up whether it was posted or not.
Given(w) == <<>>
\* Mutant: a batch whose request failed is kept.
KeptForRetry(w) == volgaWorker[w].batch
BatchAfterFailure(w) == Given(w)

PostSucceeds(w) ==
    /\ volgaWorker[w].at = "posting" /\ relayStop = "running"
    /\ posted' = posted \cup {[user |-> volgaWorker[w].user, packets |-> volgaWorker[w].batch]}
    /\ volgaWorker' = Worker(w, "gathering", <<>>)
    /\ UNCHANGED <<relaySending, batchQueue, relayStopping, user, peerGot, ownGot>>

\* The server took it, or did not, but the request failed for this side.
PostFails(w) ==
    /\ volgaWorker[w].at = "posting"
    /\ posted' \in {posted, posted \cup {[user |-> volgaWorker[w].user,
                                          packets |-> volgaWorker[w].batch]}}
    /\ volgaWorker' = Worker(w, "gathering", BatchAfterFailure(w))
    /\ UNCHANGED <<relaySending, batchQueue, relayStopping, user, peerGot, ownGot>>

\* A cancelled worker, or one that finds the queue closed and empty, tries a last flush and
\* returns; the request, which is cancelled with the worker, may have left.
WorkerReturns(w) ==
    /\ volgaWorker[w].at = "gathering" /\ relayStop # "running"
    /\ volgaWorker' = Worker(w, "gone", <<>>)
    /\ UNCHANGED <<relaySending, batchQueue, relayStopping, user, posted, peerGot, ownGot>>
----------------------------------------------------------------------------
(* relayClient.Stop *)

Cancel ==
    /\ relayStop = "running" /\ relayStop' = "cancelled"
    /\ UNCHANGED <<relaySending, batchQueue, queueClosed, volgaWorker, user, posted, peerGot, ownGot>>

\* The lock is taken for writing: no sender is between its look at stopped and the queue.
NoSender == \A s \in RelaySenders : relaySender[s] = 0
\* Mutant: Stop closes the queues without the lock.
AnySender == TRUE
MayClose == NoSender

CloseQueues ==
    /\ relayStop = "cancelled" /\ MayClose
    /\ relayStop' = "locked" /\ queueClosed' = TRUE
    /\ UNCHANGED <<relaySending, batchQueue, volgaWorker, user, posted, peerGot, ownGot>>

WaitForWorkers ==
    /\ relayStop = "locked" /\ \A w \in RelayWorkers : volgaWorker[w].at = "gone"
    /\ relayStop' = "returned"
    /\ UNCHANGED <<relaySending, batchQueue, queueClosed, volgaWorker, user, posted, peerGot, ownGot>>
----------------------------------------------------------------------------
(* The server, and handleMessage on either side *)

\* The listener connected again with a new authorization.
RenewUser ==
    /\ user < MaxUsers /\ user' = user + 1
    /\ UNCHANGED <<relaySending, batchQueue, relayStopping, volgaWorker, posted, peerGot, ownGot>>

\* All the listeners are sent the message; a side drops those of the user it is at that moment.
ServerRelays(m) ==
    /\ m \in posted /\ posted' = posted \ {m}
    /\ peerGot' = peerGot \o m.packets
    /\ ownGot' = IF m.user = user THEN ownGot ELSE ownGot \o m.packets
    /\ UNCHANGED <<relaySending, batchQueue, relayStopping, volgaWorker, user>>
----------------------------------------------------------------------------
VolgaRelayNext ==
    \/ \E s \in RelaySenders : SendTakesLock(s) \/ SendQueues(s)
    \/ \E w \in RelayWorkers : \/ Gather(w) \/ FlushTimer(w) \/ PostSucceeds(w)
                               \/ PostFails(w) \/ WorkerReturns(w)
    \/ Cancel \/ CloseQueues \/ WaitForWorkers
    \/ RenewUser \/ \E m \in posted : ServerRelays(m)

VolgaRelaySpec == VolgaRelayInit /\ [][VolgaRelayNext]_relayVars
----------------------------------------------------------------------------
\* No sender is about to use a queue that Stop has closed: a send on a closed channel panics
\* "even inside a select with a default" (the comment on stopMu), so Send holds the lock from
\* its look at stopped until the packet is queued.
NoSendOnClosed == queueClosed => \A s \in RelaySenders : relaySender[s] = 0

\* The peer gets each packet once at most, though a request that failed may have reached the
\* server, and several workers post at a time (worker gives a failed batch up).
RelayedOnce == IsInjective(peerGot)

\* What handleMessage filters by, and a new authorization defeats: the own packets are dropped.
OwnIsDropped == ownGot = <<>>
=============================================================================
