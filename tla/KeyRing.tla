------------------------------ MODULE KeyRing ------------------------------
(***************************************************************************)
(* The search for a common key-derivation context (keyStore and keyRing of *)
(* transport/encrypted.go).  Client and exit each have a primary context   *)
(* and alternates that are derived when they are needed.  A client has one *)
(* ring per pipeline (Session and classic) over one store; each ring moves *)
(* through the contexts until the exit answers, the exit answers under     *)
(* what the client used.  A context stands for the keys derived from it: a *)
(* packet opens under its own context and no other.                        *)
(***************************************************************************)
EXTENDS Naturals, Sequences, FiniteSets, Functions

CONSTANTS
    Contexts,
    Setups   \* what may be configured, and the bound on the troubles met in it

Sides == {"client", "exit"}
Pipelines == {"session", "classic"}
Rings == Sides \X Pipelines

\* contexts: per side the primary context and its alternates.  runs: per side the pipelines.
\* troubles: how many packets may be lost or overtaken and silences of a peer noticed.
ASSUME KeyRingAssumption ==
    \A c \in Setups :
        /\ c.contexts \in [Sides -> Seq(Contexts)] /\ \A s \in Sides : c.contexts[s] # <<>>
        /\ c.runs \in [Sides -> SUBSET Pipelines]
        /\ c.troubles \in Nat

VARIABLES
    runs,       \* side -> the pipelines it runs; fixed
    keys,       \* side -> derived contexts, the primary first (st.keys)
    pending,    \* side -> contexts to derive yet (st.pending)
    deriving,   \* side -> what the background derivation is at
    send,       \* ring -> index of the context it sends under (r.send)
    locked,     \* ring -> the peer answered under it (r.locked)
    heard,      \* the client's rings that have heard the peer themselves (r.heard)
    search,     \* ring -> whether it has begun to search and its next context is due
    sending,    \* ring -> the snapshot a Send holds before it takes the lock
    receiving,  \* ring -> the packet being opened, its snapshot, and how far it is
    wire,       \* ring -> the contexts of the packets under way to it, in order
    troubles,   \* how many packets may still be lost or overtaken and silences noticed
    crashed     \* an index went past the end of a snapshot

store == <<runs, keys, pending, deriving>>
ringVars == <<store, send, locked, heard, search, sending, receiving, wire, troubles, crashed>>

Other(side) == IF side = "client" THEN "exit" ELSE "client"
Running(r) == r[2] \in runs[r[1]]
Siblings(r) == IF r[1] = "client" THEN {q \in Rings : q[1] = "client" /\ q # r /\ Running(q)} ELSE {}

NoSnapshot == [n |-> 0, more |-> FALSE]
NoPacket == [context |-> "none", n |-> 0, more |-> FALSE, found |-> 0]

\* What snapshot() returns: how many keys there are, and whether more can be derived.
Snapshot(side) == [n |-> Len(keys[side]), more |-> pending[side] # <<>>]

RingTypeOK ==
    /\ runs \in [Sides -> SUBSET Pipelines]
    /\ keys \in [Sides -> Seq(Contexts)] /\ pending \in [Sides -> Seq(Contexts)]
    /\ deriving \in [Sides -> [on : BOOLEAN, work : Seq(Contexts)]]
    /\ \A s \in Sides : deriving[s].work # <<>> => deriving[s].on
    /\ send \in [Rings -> Nat \ {0}]
    /\ locked \in [Rings -> BOOLEAN] 
    /\ heard \in SUBSET Rings
    /\ search \in [Rings -> {"no", "begun", "due"}]
    /\ sending \in [Rings -> [n : Nat, more : BOOLEAN]]
    /\ receiving \in [Rings -> [context : Contexts \cup {"none"}, n : Nat,
                                more : BOOLEAN, found : Nat]]
    /\ wire \in [Rings -> Seq(Contexts)]
    /\ troubles \in Nat /\ crashed \in BOOLEAN
    /\ \A r \in Rings : send[r] <= Len(keys[r[1]])
    /\ \A r \in Rings : receiving[r].found <= Len(keys[r[1]])

RingInit ==
    /\ \E c \in Setups :
         /\ runs = c.runs
         /\ keys = [s \in Sides |-> <<Head(c.contexts[s])>>]
         /\ pending = [s \in Sides |-> Tail(c.contexts[s])]
         /\ troubles = c.troubles
    /\ deriving = [s \in Sides |-> [on |-> FALSE, work |-> <<>>]]
    /\ send = [r \in Rings |-> 1]
    /\ locked = [r \in Rings |-> FALSE]
    /\ heard = {}
    /\ search = [r \in Rings |-> "no"]
    /\ sending = [r \in Rings |-> NoSnapshot]
    /\ receiving = [r \in Rings |-> NoPacket]
    /\ wire = [r \in Rings |-> <<>>]
    /\ crashed = FALSE
----------------------------------------------------------------------------
(* keyStore.deriveMore: one goroutine per store, search unless it runs already *)

DeriveMore(s) ==
    deriving' = [deriving EXCEPT ![s].on = @ \/ pending[s] # <<>>]

TakePending(s) ==
    /\ deriving[s].on /\ deriving[s].work = <<>> /\ pending[s] # <<>>
    /\ deriving' = [deriving EXCEPT ![s].work = <<Head(pending[s])>>]
    /\ pending' = [pending EXCEPT ![s] = Tail(@)]
    /\ UNCHANGED <<runs, keys, send, locked, heard, search, sending, receiving, wire, troubles, crashed>>

Derived(s) ==
    /\ deriving[s].work # <<>>
    /\ keys' = [keys EXCEPT ![s] = @ \o deriving[s].work]
    /\ deriving' = [deriving EXCEPT ![s].work = <<>>]
    /\ UNCHANGED <<runs, pending, send, locked, heard, search, sending, receiving, wire, troubles, crashed>>

\* Mutant: the goroutine ends while a context is still being derived.
EndsEarly(s) ==
    /\ deriving[s].on /\ pending[s] = <<>>
    /\ deriving' = [deriving EXCEPT ![s].on = FALSE]
    /\ UNCHANGED <<runs, keys, pending, send, locked, heard, search, sending, receiving, wire,
                   troubles, crashed>>

DeriverEnds(s) ==
    /\ deriving[s].on /\ deriving[s].work = <<>> /\ pending[s] = <<>>
    /\ deriving' = [deriving EXCEPT ![s].on = FALSE]
    /\ UNCHANGED <<runs, keys, pending, send, locked, heard, search, sending, receiving, wire, troubles, crashed>>
----------------------------------------------------------------------------
(* EncryptedTransport.Send and keyRing.sendKeys *)

\* The snapshot is taken before the lock of the ring.
StartSend(r) ==
    /\ Running(r) /\ sending[r] = NoSnapshot
    /\ sending' = [sending EXCEPT ![r] = Snapshot(r[1])]
    /\ UNCHANGED <<store, send, locked, heard, search, receiving, wire, troubles, crashed>>

\* keys[r.send] of the snapshot goes out; an index past its end ends the process.  Packets
\* under one context that are under way together count as one.
SendUnder(r, index) ==
    /\ sending' = [sending EXCEPT ![r] = NoSnapshot]
    /\ send' = [send EXCEPT ![r] = index]
    /\ crashed' = (index > sending[r].n)
    /\ LET peer == <<Other(r[1]), r[2]>>
           context == keys[r[1]][index]
       IN  IF index <= sending[r].n /\ Running(peer) /\ context \notin Range(wire[peer])
           THEN wire' = [wire EXCEPT ![peer] = Append(@, context)]
           ELSE wire' = wire

Holds(r) == sending[r] # NoSnapshot
CanSearch(r) == sending[r].n > 1 \/ sending[r].more

\* A ring whose sibling told it what to use has heard nothing at all: that is a silence.
Silent(r) == r[1] = "client" /\ locked[r] /\ (r \in heard => troubles > 0)
Untold(r) == r[1] = "client" /\ locked[r] => r \in heard

\* Mutant: a ring goes on searching after it was answered.
SearchEvenLocked(r) == r[1] = "client" /\ CanSearch(r)
MaySearch(r) == r[1] = "client" /\ ~locked[r] /\ CanSearch(r)

\* The exit, and a client that has nothing to search for or no reason to yet.
SendPlain(r) ==
    /\ Holds(r) /\ Untold(r) /\ ~(MaySearch(r) /\ search[r] = "due")
    /\ SendUnder(r, send[r])
    /\ search' = [search EXCEPT ![r] = IF MaySearch(r) /\ @ = "no" THEN "begun" ELSE @]
    /\ UNCHANGED <<store, locked, heard, receiving, troubles>>

\* The peer was silent for too long: the search begins again with this packet.
SendAfterSilence(r) ==
    /\ Holds(r) /\ Silent(r)
    /\ SendUnder(r, send[r])
    /\ locked' = [locked EXCEPT ![r] = FALSE]
    /\ search' = [search EXCEPT ![r] = IF CanSearch(r) THEN "begun" ELSE "no"]
    /\ troubles' = IF r \in heard THEN troubles - 1 ELSE troubles
    /\ UNCHANGED <<store, heard, receiving>>

\* No answer under this context for contextRotateEvery: the next one, and the candidates
\* left are derived.
SendUnderNext(r) ==
    /\ Holds(r) /\ MaySearch(r) /\ search[r] = "due"
    /\ SendUnder(r, IF sending[r].n > 1 THEN (send[r] % sending[r].n) + 1 ELSE send[r])
    /\ search' = [search EXCEPT ![r] = "begun"]
    /\ IF sending[r].more THEN DeriveMore(r[1]) ELSE UNCHANGED deriving
    /\ UNCHANGED <<runs, keys, pending, locked, heard, receiving, troubles>>

\* The time under one context has passed.
TimePasses(r) ==
    /\ search[r] = "begun"
    /\ search' = [search EXCEPT ![r] = "due"]
    /\ UNCHANGED <<store, send, locked, heard, sending, receiving, wire, troubles, crashed>>
----------------------------------------------------------------------------
(* EncryptedTransport.Receive, keyRing.open, accepted and adopt *)

TakePacket(r) ==
    /\ receiving[r] = NoPacket /\ wire[r] # <<>>
    /\ wire' = [wire EXCEPT ![r] = Tail(@)]
    /\ receiving' = [receiving EXCEPT ![r] =
           [context |-> Head(wire[r]), n |-> Len(keys[r[1]]), more |-> pending[r[1]] # <<>>,
            found |-> 0]]
    /\ UNCHANGED <<store, send, locked, heard, search, sending, troubles, crashed>>

Opening(r) == receiving[r] # NoPacket /\ receiving[r].found = 0

\* The index of the context in use is read after the snapshot, as in sendKeys.
\* Mutant: only the context in use is tried.
OpensInUse(r) ==
    {i \in {send[r]} : keys[r[1]][i] = receiving[r].context}
OpensUnder(r) ==
    {i \in 1..receiving[r].n : keys[r[1]][i] = receiving[r].context}

PastTheEnd(r) ==
    /\ Opening(r) /\ send[r] > receiving[r].n
    /\ crashed' = TRUE
    /\ receiving' = [receiving EXCEPT ![r] = NoPacket]
    /\ UNCHANGED <<store, send, locked, heard, search, sending, wire, troubles>>

CannotOpen(r) ==
    /\ Opening(r) /\ send[r] <= receiving[r].n /\ OpensUnder(r) = {}
    /\ IF receiving[r].more THEN DeriveMore(r[1]) ELSE UNCHANGED deriving
    /\ receiving' = [receiving EXCEPT ![r] = NoPacket]
    /\ UNCHANGED <<runs, keys, pending, send, locked, heard, search, sending, wire, troubles, crashed>>

\* adopt: a ring follows the peer, and holds on to what the peer used.
Adopt(r, i) ==
    /\ send' = [send EXCEPT ![r] = i]
    /\ locked' = [locked EXCEPT ![r] = @ \/ r[1] = "client" \/ send[r] # i]

Open(r) ==
    /\ Opening(r) /\ send[r] <= receiving[r].n
    /\ \E i \in OpensUnder(r) :
         /\ Adopt(r, i)
         /\ heard' = heard \cup ({r} \cap ({"client"} \X Pipelines))
         /\ receiving' = [receiving EXCEPT ![r] =
                IF Siblings(r) = {} THEN NoPacket ELSE [@ EXCEPT !.found = i]]
    /\ UNCHANGED <<store, search, sending, wire, troubles, crashed>>

\* What a client's ring has learned holds for its sibling, under a lock of its own.
TellSibling(r) ==
    /\ receiving[r].found # 0
    /\ \E q \in Siblings(r) : Adopt(q, receiving[r].found)
    /\ receiving' = [receiving EXCEPT ![r] = NoPacket]
    /\ UNCHANGED <<store, heard, search, sending, wire, troubles, crashed>>

\* The carrier loses a packet, or lets the next one overtake it.
Lose(r) ==
    /\ wire[r] # <<>> /\ troubles > 0
    /\ wire' = [wire EXCEPT ![r] = Tail(@)]
    /\ troubles' = troubles - 1
    /\ UNCHANGED <<store, send, locked, heard, search, sending, receiving, crashed>>

Overtake(r) ==
    /\ Len(wire[r]) > 1 /\ troubles > 0
    /\ wire' = [wire EXCEPT ![r] = Append(Tail(@), Head(@))]
    /\ troubles' = troubles - 1
    /\ UNCHANGED <<store, send, locked, heard, search, sending, receiving, crashed>>

RingNext ==
    /\ ~crashed
    /\ \/ \E s \in Sides : TakePending(s) \/ Derived(s) \/ DeriverEnds(s)
       \/ \E r \in Rings :
            \/ StartSend(r) \/ SendPlain(r) \/ SendAfterSilence(r) \/ SendUnderNext(r)
            \/ TimePasses(r) \/ TakePacket(r) \/ PastTheEnd(r) \/ CannotOpen(r)
            \/ Open(r) \/ TellSibling(r) \/ Lose(r) \/ Overtake(r)

\* Traffic goes on, time passes, goroutines that can go on do; silences and losses are
\* left to chance.
Derives(s) == ~crashed /\ (TakePending(s) \/ Derived(s) \/ DeriverEnds(s))
Sends(r) ==
    /\ ~crashed
    /\ \/ StartSend(r) \/ SendPlain(r) \/ SendUnderNext(r)
       \/ r \notin heard /\ SendAfterSilence(r)
Waits(r) == ~crashed /\ TimePasses(r)
Receives(r) ==
    ~crashed /\ (TakePacket(r) \/ PastTheEnd(r) \/ CannotOpen(r) \/ Open(r) \/ TellSibling(r))

RingFairness ==
    /\ \A s \in Sides : WF_ringVars(Derives(s))
    /\ \A r \in Rings : WF_ringVars(Sends(r)) /\ WF_ringVars(Waits(r)) /\ WF_ringVars(Receives(r))

RingSpec == RingInit /\ [][RingNext]_ringVars /\ RingFairness
----------------------------------------------------------------------------
\* A ring holds on only to a context that the other side has derived too; it can be
\* answered under it (adopt: "the peer answered under keys[send]").
LockedIsShared ==
    \A r \in Rings : locked[r] => keys[r[1]][send[r]] \in Range(keys[Other(r[1])])

\* A client whose exit shares one of its contexts finds it, whichever it is, on every
\* pipeline the exit runs (SetAlternateContexts: "a client that hears nothing cycles
\* through them until the exit answers").
FindsContext ==
    <>[](\A p \in runs["client"] \cap runs["exit"] : crashed \/ locked[<<"client", p>>])

\* The index a ring sends under lies within the keys it looks it up in.
IndexInRange == ~crashed
=============================================================================
