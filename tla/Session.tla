------------------------------ MODULE Session ------------------------------
(***************************************************************************)
(* The negotiation protocol of transport/session.go: one client and one    *)
(* exit node agree on a pair of random challenges over unreliable          *)
(* carriers, a restarted client replaces the established one by echoing a  *)
(* challenge minted for it, a client that no longer hears the exit starts  *)
(* over, and data packets are accepted once, under the agreed pair only.   *)
(*                                                                         *)
(* A 32-byte random challenge is a number minted once; 0 is the zero       *)
(* challenge.  lastHeard is the number of keepalive ticks since the peer   *)
(* was heard.  Which carrier Send picks is the business of another module: *)
(* here a packet may take any.  Sending to a carrier that is down is the   *)
(* same as losing the message.                                             *)
(***************************************************************************)
EXTENDS Naturals, Sequences, FiniteSets

CONSTANTS
  Links,         \* the carriers both sides have added
  Caps,          \* the optional capabilities (UDP, ICMP errors)
  Offered,       \* the parameter sets a process may be started with
  Ponging,       \* the nodes that answer LinkPing (old peers do not)
  Window,        \* replayWindowSize
  QuietTicks,    \* keepalive ticks after which a silent carrier is pinged
  SilentTicks,   \* keepalive ticks after which it counts as silent
  MaxChallenge,  \* bound: challenges minted in a behaviour
  MaxPackets,    \* bound: data packets sent in a behaviour
  MaxRestarts,   \* bound: process restarts in a behaviour
  Ticking,       \* bound: the nodes whose keepalive interval ever passes
  Redelivers,    \* a carrier may deliver a message again at any later time
  Loses,         \* a carrier may lose a message
  Slow           \* an answer may take longer than candidateTTL

Node == {"client", "exit"}
Other(n) == IF n = "client" THEN "exit" ELSE "client"

NoChallenge == 0
Challenge == 1..MaxChallenge
Candidate == [sender : Challenge, local : Challenge]
NoCandidate == [sender |-> NoChallenge, local |-> NoChallenge]

ASSUME SessionAssumption ==
  /\ Links # {}
  /\ Offered \subseteq SUBSET Caps
  /\ Offered # {}
  /\ Ponging \subseteq Node
  /\ Ticking \subseteq Node
  /\ Window \in Nat \ {0}
  /\ QuietTicks \in Nat \ {0}
  /\ SilentTicks \in Nat
  /\ QuietTicks <= SilentTicks
  /\ MaxChallenge \in Nat
  /\ MaxChallenge >= 2
  /\ MaxPackets \in Nat
  /\ MaxRestarts \in Nat
  /\ Redelivers \in BOOLEAN
  /\ Loses \in BOOLEAN
  /\ Slow \in BOOLEAN

VARIABLES
  local,      \* the node's own challenge
  peer,       \* the challenge of the peer it talks to
  params,     \* the capabilities the process was started with
  remote,     \* the capabilities agreed with the peer
  ready,      \* the handshake is complete on this side
  sequence,   \* number of the last data packet sent
  highest,    \* newest data packet accepted
  accepted,   \* the sequence numbers accepted since the last reset
  candidate,  \* the peer that may replace the established one
  limited,    \* a candidate was minted within candidateInterval
  keepalive,  \* peerKeepalive: the peer has answered a LinkPing
  heard,      \* per carrier: keepalive ticks since the peer was heard
  owed,       \* sends begun under the lock and not yet performed
  net,        \* messages on the carriers
  minted,     \* challenges minted so far
  restarts,   \* processes restarted so far
  paired,     \* history: pairs the client was ready with
  sent,       \* data packets sent so far
  inbox       \* history: packets handed to the data callback

identity == <<local, peer, params, remote, ready>>
dataState == <<sequence, highest, accepted>>
candState == <<candidate, limited>>
liveness == <<keepalive, heard>>
history == <<minted, restarts, paired, sent, inbox>>
vars == <<local, peer, params, remote, ready, sequence, highest, accepted,
          candidate, limited, keepalive, heard, owed, net, minted, restarts,
          paired, sent, inbox>>

Hello ==
  [kind : {"hello"}, to : Node, link : Links, local : Challenge,
   peer : Challenge \cup {NoChallenge}, ready : BOOLEAN, params : SUBSET Caps]
Control ==
  [kind : {"ping", "pong"}, to : Node, link : Links, local : Challenge,
   peer : Challenge \cup {NoChallenge}]
Data ==
  [kind : {"data"}, to : Node, link : Links, local : Challenge,
   peer : Challenge \cup {NoChallenge}, seq : Nat \ {0}, id : 1..MaxPackets]
Message == Hello \cup Control \cup Data

Ages == 0..SilentTicks
Owed == Links \X {"hello", "ping", "pong"}
HelloOnAll == Links \X {"hello"}

TypeOK ==
  /\ local \in [Node -> Challenge]
  /\ peer \in [Node -> Challenge \cup {NoChallenge}]
  /\ params \in [Node -> SUBSET Caps]
  /\ remote \in [Node -> SUBSET Caps]
  /\ ready \in [Node -> BOOLEAN]
  /\ sequence \in [Node -> Nat]
  /\ highest \in [Node -> Nat]
  /\ accepted \in [Node -> SUBSET (Nat \ {0})]
  /\ candidate \in [Node -> Candidate \cup {NoCandidate}]
  /\ limited \in [Node -> BOOLEAN]
  /\ keepalive \in [Node -> BOOLEAN]
  /\ heard \in [Node -> [Links -> Ages]]
  /\ owed \in [Node -> SUBSET Owed]
  /\ net \subseteq Message
  /\ minted \in Challenge
  /\ restarts \in 0..MaxRestarts
  /\ paired \subseteq Challenge \X (Challenge \cup {NoChallenge})
  /\ sent \in 0..MaxPackets
  /\ inbox \in [Node -> Seq(1..MaxPackets)]

Init ==
  /\ local = [n \in Node |-> IF n = "client" THEN 1 ELSE 2]
  /\ peer = [n \in Node |-> NoChallenge]
  /\ params \in [Node -> Offered]
  /\ remote = [n \in Node |-> {}]
  /\ ready = [n \in Node |-> FALSE]
  /\ sequence = [n \in Node |-> 0]
  /\ highest = [n \in Node |-> 0]
  /\ accepted = [n \in Node |-> {}]
  /\ candidate = [n \in Node |-> NoCandidate]
  /\ limited = [n \in Node |-> FALSE]
  /\ keepalive = [n \in Node |-> FALSE]
  /\ heard = [n \in Node |-> [l \in Links |-> SilentTicks]]
  /\ owed = [n \in Node |-> {}]
  /\ net = {}
  /\ minted = 2
  /\ restarts = 0
  /\ paired = {}
  /\ sent = 0
  /\ inbox = [n \in Node |-> <<>>]

----------------------------------------------------------------------------
(* Carriers: unordered; a delivered message leaves the carrier unless the  *)
(* carrier can hand it out again.                                          *)

AfterDelivery(m) == IF Redelivers THEN net ELSE net \ {m}

Lose(m) ==
  /\ Loses
  /\ m \in net
  /\ net' = net \ {m}
  /\ UNCHANGED <<identity, dataState, candState, liveness, owed, history>>

----------------------------------------------------------------------------
(* Sending.                                                                *)

HelloFrom(n, l) ==
  [kind |-> "hello", to |-> Other(n), link |-> l, local |-> local[n],
   peer |-> peer[n], ready |-> ready[n], params |-> params[n]]

ControlFrom(n, l, k) ==
  [kind |-> k, to |-> Other(n), link |-> l, local |-> local[n],
   peer |-> peer[n]]

\* One turn of the client's hello ticker.
HelloLoop ==
  /\ ~ready["client"]
  /\ owed' = [owed EXCEPT !["client"] = @ \cup HelloOnAll]
  /\ UNCHANGED <<identity, dataState, candState, liveness, net, history>>

\* helloVia: the hello carries the state of the moment it is built.
HelloVia(n, l) ==
  /\ <<l, "hello">> \in owed[n]
  /\ owed' = [owed EXCEPT ![n] = @ \ {<<l, "hello">>}]
  /\ net' = net \cup {HelloFrom(n, l)}
  /\ UNCHANGED <<identity, dataState, candState, liveness, history>>

\* sendControlVia: nothing goes out once the session is no longer ready.
SendControlVia(n, l, k) ==
  /\ k \in {"ping", "pong"}
  /\ <<l, k>> \in owed[n]
  /\ owed' = [owed EXCEPT ![n] = @ \ {<<l, k>>}]
  /\ net' = IF ready[n] THEN net \cup {ControlFrom(n, l, k)} ELSE net
  /\ UNCHANGED <<identity, dataState, candState, liveness, history>>

\* Send: one IPv4 packet under the agreed pair.
SendData(n, l) ==
  /\ ready[n]
  /\ sent < MaxPackets
  /\ sequence' = [sequence EXCEPT ![n] = @ + 1]
  /\ sent' = sent + 1
  /\ net' = net \cup
       {[kind |-> "data", to |-> Other(n), link |-> l, local |-> local[n],
         peer |-> peer[n], seq |-> sequence[n] + 1, id |-> sent + 1]}
  /\ UNCHANGED <<identity, highest, accepted, candState, liveness, owed,
                 minted, restarts, paired, inbox>>

----------------------------------------------------------------------------
(* Receiving a hello.                                                      *)

Unlinked(m) == m.peer = NoChallenge

\* Mutant: the first hello of a client counts as an echo.
EchoesOrFirst(n, m) == m.peer = local[n] \/ Unlinked(m)
Echoes(n, m) == m.peer = local[n]

\* Mutant: the peer's offer is taken over instead of intersected.
TheirOffer(n, m) == m.params
Agreed(n, m) == m.params \cap params[n]

HeardOn(n, l) == [heard EXCEPT ![n][l] = 0]

PairedWith(n, own, other) ==
  IF n = "client" THEN paired \cup {<<own, other>>} ELSE paired

\* Mutant: only echoes and confirmations are answered, not a first hello.
ReplyToEcho(n, m) ==
  \/ ~ready[n] /\ Echoes(n, m)
  \/ ready[n] /\ ~m.ready
ReplyDue(n, m) ==
  \/ m.local # peer[n]
  \/ ~ready[n] /\ Echoes(n, m)
  \/ ready[n] /\ ~m.ready

\* The hello of the peer a node talks to, or of anyone before it is ready:
\* an echo of the node's own challenge completes the handshake.
AcceptHello(n, m) ==
  /\ m.to = n
  /\ ready[n] => m.local = peer[n] /\ Agreed(n, m) = remote[n]
  /\ Echoes(n, m) \/ Unlinked(m)
  /\ peer' = [peer EXCEPT ![n] = m.local]
  /\ remote' = [remote EXCEPT ![n] = IF Echoes(n, m) THEN Agreed(n, m) ELSE @]
  /\ ready' = [ready EXCEPT ![n] = @ \/ Echoes(n, m)]
  /\ heard' = HeardOn(n, m.link)
  /\ owed' = IF ReplyDue(n, m) THEN [owed EXCEPT ![n] = @ \cup HelloOnAll]
                               ELSE owed
  /\ paired' = IF ready[n] \/ Echoes(n, m) THEN PairedWith(n, local[n], m.local)
                                          ELSE paired
  /\ net' = AfterDelivery(m)
  /\ UNCHANGED <<local, params, dataState, candState, keepalive, minted,
                 restarts, sent, inbox>>

\* Mutant: any second hello of the candidate takes the session.
CandidateInsists(n, m) ==
  candidate[n] # NoCandidate /\ candidate[n].sender = m.local
CandidateEchoes(n, m) ==
  candidate[n] # NoCandidate /\ candidate[n] = [sender |-> m.local, local |-> m.peer]

\* The candidate echoed the challenge minted for it: it takes the session.
ReplacePeer(n, m) ==
  /\ m.to = n
  /\ ready[n]
  /\ m.local # peer[n]
  /\ CandidateEchoes(n, m)
  /\ local' = [local EXCEPT ![n] = candidate[n].local]
  /\ peer' = [peer EXCEPT ![n] = m.local]
  /\ remote' = [remote EXCEPT ![n] = Agreed(n, m)]
  /\ sequence' = [sequence EXCEPT ![n] = 0]
  /\ highest' = [highest EXCEPT ![n] = 0]
  /\ accepted' = [accepted EXCEPT ![n] = {}]
  /\ candidate' = [candidate EXCEPT ![n] = NoCandidate]
  /\ keepalive' = [keepalive EXCEPT ![n] = FALSE]
  /\ heard' = [heard EXCEPT ![n] =
                 [l \in Links |-> IF l = m.link THEN 0 ELSE SilentTicks]]
  /\ owed' = [owed EXCEPT ![n] = @ \cup HelloOnAll]
  /\ paired' = PairedWith(n, candidate[n].local, m.local)
  /\ net' = AfterDelivery(m)
  /\ UNCHANGED <<params, ready, limited, minted, restarts, sent, inbox>>

OfferTo(n, c, sender) ==
  {[kind |-> "hello", to |-> Other(n), link |-> l, local |-> c,
    peer |-> sender, ready |-> FALSE, params |-> params[n]] : l \in Links}

\* A first hello of another process while established: it is offered a
\* challenge of its own, the established peer stays.
OfferReplacement(n, m) ==
  /\ m.to = n
  /\ ready[n]
  /\ m.local # peer[n]
  /\ Unlinked(m)
  /\ \/ /\ candidate[n].sender = m.local
        /\ net' = AfterDelivery(m) \cup
                    OfferTo(n, candidate[n].local, m.local)
        /\ UNCHANGED <<candidate, limited, minted>>
     \/ /\ candidate[n].sender # m.local
        /\ ~limited[n]
        /\ minted < MaxChallenge
        /\ minted' = minted + 1
        /\ candidate' = [candidate EXCEPT ![n] =
                           [sender |-> m.local, local |-> minted + 1]]
        /\ limited' = [limited EXCEPT ![n] = TRUE]
        /\ net' = AfterDelivery(m) \cup OfferTo(n, minted + 1, m.local)
  /\ UNCHANGED <<identity, dataState, liveness, owed, restarts, paired, sent,
                 inbox>>

\* Every other hello is dropped: an echo of a challenge this node does not
\* hold, other parameters for an established session, a candidate that
\* comes too soon after the last one.
DropHello(n, m) ==
  /\ m.to = n
  /\ \/ /\ ~ready[n] \/ m.local = peer[n]
        /\ ~Echoes(n, m) /\ ~Unlinked(m)
     \/ ready[n] /\ m.local = peer[n] /\ Agreed(n, m) # remote[n]
     \/ /\ ready[n] /\ m.local # peer[n]
        /\ ~Unlinked(m)
        /\ ~CandidateEchoes(n, m)
     \/ /\ ready[n] /\ m.local # peer[n]
        /\ Unlinked(m) /\ candidate[n].sender # m.local /\ limited[n]
  /\ net' = AfterDelivery(m)
  /\ UNCHANGED <<identity, dataState, candState, liveness, owed, history>>

ReceiveHello(n, m) ==
  /\ m \in net
  /\ m.kind = "hello"
  /\ \/ AcceptHello(n, m)
     \/ ReplacePeer(n, m)
     \/ OfferReplacement(n, m)
     \/ DropHello(n, m)

\* candidateInterval passes: another candidate may be minted.
CandidateCooled(n) ==
  /\ limited[n]
  /\ limited' = [limited EXCEPT ![n] = FALSE]
  /\ UNCHANGED <<identity, dataState, candidate, liveness, owed, net, history>>

\* candidateTTL passes: the candidate is forgotten.
CandidateExpired(n) ==
  /\ Slow
  /\ candidate[n] # NoCandidate
  /\ ~limited[n]
  /\ candidate' = [candidate EXCEPT ![n] = NoCandidate]
  /\ UNCHANGED <<identity, dataState, limited, liveness, owed, net, history>>

----------------------------------------------------------------------------
(* Receiving control frames and data under the agreed pair.                *)

UnderPair(n, m) == ready[n] /\ m.local = peer[n] /\ m.peer = local[n]

ReceiveControl(n, m) ==
  /\ m \in net
  /\ m.to = n
  /\ m.kind \in {"ping", "pong"}
  /\ IF UnderPair(n, m)
       THEN /\ heard' = HeardOn(n, m.link)
            /\ owed' = IF m.kind = "ping" /\ n \in Ponging
                         THEN [owed EXCEPT ![n] = @ \cup {<<m.link, "pong">>}]
                         ELSE owed
            /\ keepalive' = [keepalive EXCEPT ![n] = @ \/ m.kind = "pong"]
       ELSE UNCHANGED <<heard, owed, keepalive>>
  /\ net' = AfterDelivery(m)
  /\ UNCHANGED <<identity, dataState, candState, history>>

\* acceptSequenceLocked: at most once, within the window.
Acceptable(n, s) ==
  \/ s > highest[n]
  \/ highest[n] - s < Window /\ s \notin accepted[n]

ReceiveData(n, m) ==
  /\ m \in net
  /\ m.to = n
  /\ m.kind = "data"
  /\ IF UnderPair(n, m) /\ Acceptable(n, m.seq)
       THEN /\ highest' = [highest EXCEPT ![n] = IF m.seq > @ THEN m.seq ELSE @]
            /\ accepted' = [accepted EXCEPT ![n] = @ \cup {m.seq}]
            /\ heard' = HeardOn(n, m.link)
            /\ inbox' = [inbox EXCEPT ![n] = Append(@, m.id)]
       ELSE UNCHANGED <<highest, accepted, heard, inbox>>
  /\ net' = AfterDelivery(m)
  /\ UNCHANGED <<identity, sequence, candState, keepalive, owed, minted,
                 restarts, paired, sent>>

----------------------------------------------------------------------------
(* Time and failures.                                                      *)

\* Mutant: the age of a silent carrier keeps growing.
AgedFurther(n) == [l \in Links |-> heard[n][l] + 1]
Aged(n) ==
  [l \in Links |-> IF heard[n][l] < SilentTicks THEN heard[n][l] + 1
                                                ELSE SilentTicks]
PeerSilent(n, age) == \A l \in Links : age[l] = SilentTicks

\* Mutant: starting over forgets the peer but keeps the challenge.
SameChallenge(n) == local[n]
NextChallenge(n) == minted + 1

\* One turn of keepaliveLoop, an interval after the last one: a client that
\* hears a keepalive-capable exit on no carrier starts over with a fresh
\* challenge; an established node pings its quiet carriers.
KeepaliveReset(n) ==
  /\ n = "client"
  /\ n \in Ticking
  /\ ready[n] /\ keepalive[n] /\ PeerSilent(n, Aged(n))
  /\ minted < MaxChallenge
  /\ minted' = minted + 1
  /\ local' = [local EXCEPT ![n] = NextChallenge(n)]
  /\ peer' = [peer EXCEPT ![n] = NoChallenge]
  /\ remote' = [remote EXCEPT ![n] = {}]
  /\ ready' = [ready EXCEPT ![n] = FALSE]
  /\ sequence' = [sequence EXCEPT ![n] = 0]
  /\ highest' = [highest EXCEPT ![n] = 0]
  /\ accepted' = [accepted EXCEPT ![n] = {}]
  /\ keepalive' = [keepalive EXCEPT ![n] = FALSE]
  /\ candidate' = [candidate EXCEPT ![n] = NoCandidate]
  /\ heard' = [heard EXCEPT ![n] = Aged(n)]
  /\ UNCHANGED <<params, limited, owed, net, restarts, paired, sent, inbox>>

KeepalivePing(n) ==
  /\ n \in Ticking
  /\ ~(n = "client" /\ ready[n] /\ keepalive[n] /\ PeerSilent(n, Aged(n)))
  /\ heard' = [heard EXCEPT ![n] = Aged(n)]
  /\ owed' = IF ready[n]
               THEN [owed EXCEPT ![n] = @ \cup
                       {<<l, "ping">> : l \in {k \in Links :
                                               Aged(n)[k] >= QuietTicks}}]
               ELSE owed
  /\ UNCHANGED <<identity, dataState, candState, keepalive, net, history>>

\* MarkStalled: the carrier is known to be stuck, forget that it was heard.
MarkStalled(n, l) ==
  /\ heard[n][l] # SilentTicks
  /\ heard' = [heard EXCEPT ![n][l] = SilentTicks]
  /\ UNCHANGED <<identity, dataState, candState, keepalive, owed, net, history>>

\* Stop followed by a new Session, or a crash: nothing survives.
Restart(n, p) ==
  /\ restarts < MaxRestarts
  /\ minted < MaxChallenge
  /\ restarts' = restarts + 1
  /\ minted' = minted + 1
  /\ local' = [local EXCEPT ![n] = NextChallenge(n)]
  /\ peer' = [peer EXCEPT ![n] = NoChallenge]
  /\ params' = [params EXCEPT ![n] = p]
  /\ remote' = [remote EXCEPT ![n] = {}]
  /\ ready' = [ready EXCEPT ![n] = FALSE]
  /\ sequence' = [sequence EXCEPT ![n] = 0]
  /\ highest' = [highest EXCEPT ![n] = 0]
  /\ accepted' = [accepted EXCEPT ![n] = {}]
  /\ candidate' = [candidate EXCEPT ![n] = NoCandidate]
  /\ limited' = [limited EXCEPT ![n] = FALSE]
  /\ keepalive' = [keepalive EXCEPT ![n] = FALSE]
  /\ heard' = [heard EXCEPT ![n] = [l \in Links |-> SilentTicks]]
  /\ owed' = [owed EXCEPT ![n] = {}]
  /\ UNCHANGED <<net, paired, sent, inbox>>

----------------------------------------------------------------------------
Deliver(n, m) == ReceiveHello(n, m) \/ ReceiveControl(n, m) \/ ReceiveData(n, m)

\* A client that has no challenge left to start over with waits for ever:
\* the bound's doing, not a deadlock.
BoundReached == minted = MaxChallenge /\ UNCHANGED vars

Next ==
  \/ BoundReached
  \/ HelloLoop
  \/ \E n \in Node, l \in Links :
       \/ HelloVia(n, l)
       \/ \E k \in {"ping", "pong"} : SendControlVia(n, l, k)
       \/ SendData(n, l)
       \/ MarkStalled(n, l)
  \/ \E n \in Node :
       \/ KeepaliveReset(n)
       \/ KeepalivePing(n)
       \/ CandidateCooled(n)
       \/ CandidateExpired(n)
       \/ \E p \in Offered : Restart(n, p)
  \/ \E m \in net :
       \/ Lose(m)
       \/ \E n \in Node : Deliver(n, m)

Spec == Init /\ [][Next]_vars

\* The goroutines of both sides keep running, and a carrier that is used
\* again and again delivers again and again.
DeliverKind(n, k) == \E m \in net : m.kind = k /\ Deliver(n, m)

Fairness ==
  /\ WF_vars(HelloLoop)
  /\ \A n \in Node :
       /\ WF_vars(KeepaliveReset(n) \/ KeepalivePing(n))
       /\ WF_vars(CandidateCooled(n))
       /\ \A l \in Links :
            /\ WF_vars(HelloVia(n, l))
            /\ WF_vars(\E k \in {"ping", "pong"} : SendControlVia(n, l, k))
       /\ \A k \in {"hello", "ping", "pong"} : SF_vars(DeliverKind(n, k))

FairSpec == Spec /\ Fairness

----------------------------------------------------------------------------
(* Safety.                                                                 *)

\* The exit is established with a client only after that very client was
\* established with the exit's present challenge: no hello that arrives
\* late, twice or out of order makes the exit ready on its own
\* (receiveHello, offerReplacementLocked).
ExitConfirmed ==
  ready["exit"] => <<peer["exit"], local["exit"]>> \in paired

\* When the exit is established with the running client, the client is
\* established with the running exit and both hold the same limits, so
\* neither side refuses what the other may send (receiveHello's remote).
PairAgreement ==
  ready["exit"] /\ peer["exit"] = local["client"] =>
    /\ ready["client"]
    /\ peer["client"] = local["exit"]
    /\ remote["client"] = remote["exit"]

\* No packet is handed up twice, whatever the carriers deliver again and
\* however often a side starts over: sequence numbers restart only under a
\* challenge that was never used (resetLocked, acceptSequenceLocked).
AtMostOnce ==
  \A n \in Node : \A i, j \in DOMAIN inbox[n] :
    inbox[n][i] = inbox[n][j] => i = j

Paired ==
  /\ ready["client"] /\ ready["exit"]
  /\ peer["client"] = local["exit"]
  /\ peer["exit"] = local["client"]

\* A pair that is established on both sides ends only when one of the two
\* processes is replaced or the client itself starts over, never through a
\* hello of somebody else ("Old hellos replayed from a carrier must not
\* displace the established peer", session_replacement_test.go).
NotDisplaced ==
  [][Paired /\ ~Paired' => restarts' # restarts
                            \/ local'["client"] # local["client"]]_vars

\* While an exit process lives, it moves from a client to a later one and
\* never back to one it has left (the candidate's challenge of its own).
NeverBack ==
  [][ready["exit"] /\ ready'["exit"] => peer'["exit"] >= peer["exit"]]_vars

----------------------------------------------------------------------------
(* Why the sides agree: the inductive invariant behind PairAgreement.      *)

IsHello(m) == m.kind = "hello"
ExitLocals == {local["exit"], candidate["exit"].local}

\* Challenges are minted in order: nothing in the system is newer than the
\* last one.
MintedInOrder ==
  /\ \A n \in Node : local[n] <= minted /\ peer[n] <= minted
                      /\ candidate[n].local <= minted
  /\ \A m \in net : m.local <= minted
  /\ \A p \in paired : p[1] <= minted

\* Only a client speaks first, so only an exit ever has a candidate; whoever
\* names a peer has been established with it.
OnlyClientOpens ==
  /\ candidate["client"] = NoCandidate
  /\ \A m \in net : IsHello(m) /\ m.to = "client" => m.peer # NoChallenge
  /\ \A l \in Links : <<l, "hello">> \in owed["exit"] => peer["exit"] # NoChallenge
  /\ ready["client"] => peer["client"] # NoChallenge

EchoesArePaired ==
  /\ \A m \in net : IsHello(m) /\ m.to = "exit" /\ m.peer # NoChallenge
                       => <<m.local, m.peer>> \in paired
  /\ peer["client"] # NoChallenge => <<local["client"], peer["client"]>> \in paired

\* The running client has been established with one exit challenge at most,
\* and still is.
ClientStays ==
  \A p \in paired : p[1] = local["client"] =>
                       ready["client"] /\ p[2] = peer["client"]

\* What is said about either running side's parameters is true.
ParamsKnown ==
  /\ \A m \in net : IsHello(m) =>
       /\ m.to = "exit" /\ m.local = local["client"] => m.params = params["client"]
       /\ m.to = "client" /\ m.local \in ExitLocals => m.params = params["exit"]
  /\ ready["client"] /\ peer["client"] \in ExitLocals =>
       remote["client"] = params["client"] \cap params["exit"]
  /\ ready["exit"] /\ peer["exit"] = local["client"] =>
       remote["exit"] = params["client"] \cap params["exit"]

\* The inductive invariant (receiveHello, offerReplacementLocked, helloVia,
\* resetLocked).
IInv == /\ TypeOK /\ MintedInOrder /\ OnlyClientOpens /\ EchoesArePaired
        /\ ClientStays /\ ParamsKnown /\ ExitConfirmed

----------------------------------------------------------------------------
(* Liveness.                                                               *)

\* With carriers that lose nothing and answer within candidateTTL, the two
\* sides find each other, and again after every time the client, hearing
\* nothing, started over (helloLoop, keepaliveLoop).
FindEachOther == []<>Paired

\* "The client keeps offering the handshake and switches to the Session
\* once answered" (session.go, ClassicFallback): on a carrier that delivers
\* every message sent often enough, the offers of a client are answered.
OffersAnswered == ~ready["client"] ~> ready["client"]
=============================================================================
