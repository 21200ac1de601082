--------------------------- MODULE SessionProofs ---------------------------
(* Theorems about Session for any carriers, capabilities and bounds.       *)
EXTENDS Session, TLAPS

\* A challenge minted within the bound is a challenge.
LEMMA MintedIsChallenge ==
  ASSUME minted \in Challenge, minted < MaxChallenge
  PROVE  minted + 1 \in Challenge
BY SessionAssumption DEF Challenge

LEMMA OtherIsNode ==
  ASSUME NEW n \in Node
  PROVE  Other(n) \in Node /\ Other(n) # n
BY DEF Node, Other

\* What either side sends is a message.
LEMMA HelloFromType ==
  ASSUME TypeOK, NEW n \in Node, NEW l \in Links
  PROVE  HelloFrom(n, l) \in Message
<1>1. /\ Other(n) \in Node /\ local[n] \in Challenge
      /\ peer[n] \in Challenge \cup {NoChallenge}
      /\ ready[n] \in BOOLEAN /\ params[n] \in SUBSET Caps
  BY OtherIsNode DEF TypeOK
<1>2. HelloFrom(n, l) \in Hello
  BY <1>1 DEF HelloFrom, Hello
<1>3. QED
  BY <1>2 DEF Message

LEMMA ControlFromType ==
  ASSUME TypeOK, NEW n \in Node, NEW l \in Links, NEW k \in {"ping", "pong"}
  PROVE  ControlFrom(n, l, k) \in Message
<1>1. Other(n) \in Node /\ local[n] \in Challenge
      /\ peer[n] \in Challenge \cup {NoChallenge}
  BY OtherIsNode DEF TypeOK
<1>2. ControlFrom(n, l, k) \in Control
  BY <1>1 DEF ControlFrom, Control
<1>3. QED
  BY <1>2 DEF Message

LEMMA OfferToType ==
  ASSUME TypeOK, NEW n \in Node, NEW c \in Challenge, NEW d \in Challenge
  PROVE  OfferTo(n, c, d) \subseteq Message
<1>1. Other(n) \in Node /\ params[n] \in SUBSET Caps
  BY OtherIsNode DEF TypeOK
<1>2. ASSUME NEW l \in Links
      PROVE  [kind |-> "hello", to |-> Other(n), link |-> l, local |-> c,
              peer |-> d, ready |-> FALSE, params |-> params[n]] \in Hello
  BY <1>1 DEF Hello
<1>3. QED
  BY <1>2 DEF Message, OfferTo

\* Only the three kinds of messages exist.
LEMMA MessageFields ==
  ASSUME NEW m \in Message
  PROVE  /\ m.to \in Node /\ m.link \in Links
         /\ m.local \in Challenge
         /\ m.peer \in Challenge \cup {NoChallenge}
BY DEF Message, Hello, Control, Data

LEMMA HelloFields ==
  ASSUME NEW m \in Message, m.kind = "hello"
  PROVE  m \in Hello
BY DEF Message, Hello, Control, Data

LEMMA DataFields ==
  ASSUME NEW m \in Message, m.kind = "data"
  PROVE  m \in Data
BY DEF Message, Hello, Control, Data

LEMMA DeliveryType ==
  ASSUME TypeOK, NEW m
  PROVE  AfterDelivery(m) \subseteq Message
BY DEF TypeOK, AfterDelivery

LEMMA TypeInit == Init => TypeOK
<1> SUFFICES ASSUME Init PROVE TypeOK
  OBVIOUS
<1> USE SessionAssumption DEF Init, TypeOK, Node, Challenge, NoChallenge
<1>1. candidate \in [Node -> Candidate \cup {NoCandidate}]
  OBVIOUS
<1>2. heard \in [Node -> [Links -> Ages]]
  BY DEF Ages
<1>3. inbox \in [Node -> Seq(1..MaxPackets)]
  OBVIOUS
<1>4. params \in [Node -> SUBSET Caps]
  OBVIOUS
<1>5. QED
  BY <1>1, <1>2, <1>3, <1>4

\* Every action keeps the state well typed.
LEMMA TypeNext ==
  ASSUME TypeOK, [Next]_vars
  PROVE  TypeOK'
<1> USE SessionAssumption DEF identity, dataState, candState, liveness, history
<1> USE DEF TypeOK
<1>1. CASE BoundReached
  BY <1>1 DEF BoundReached, vars
<1>2. CASE HelloLoop
  BY <1>2 DEF HelloLoop, Owed, HelloOnAll
<1>3. ASSUME NEW n \in Node, NEW l \in Links, HelloVia(n, l) PROVE TypeOK'
  <2>1. net' \subseteq Message
    BY <1>3, HelloFromType DEF HelloVia
  <2>2. QED
    BY <1>3, <2>1 DEF HelloVia
<1>4. ASSUME NEW n \in Node, NEW l \in Links, NEW k \in {"ping", "pong"},
             SendControlVia(n, l, k)
      PROVE  TypeOK'
  <2>1. net' \subseteq Message
    BY <1>4, ControlFromType DEF SendControlVia
  <2>2. QED
    BY <1>4, <2>1 DEF SendControlVia
<1>5. ASSUME NEW n \in Node, NEW l \in Links, MarkStalled(n, l) PROVE TypeOK'
  <2>1. heard' \in [Node -> [Links -> Ages]]
    BY <1>5 DEF MarkStalled, Ages
  <2>2. QED
    BY <1>5, <2>1 DEF MarkStalled
<1>6. ASSUME NEW n \in Node, CandidateCooled(n) PROVE TypeOK'
  BY <1>6 DEF CandidateCooled
<1>7. ASSUME NEW n \in Node, CandidateExpired(n) PROVE TypeOK'
  BY <1>7 DEF CandidateExpired
<1>8. ASSUME NEW m \in net, Lose(m) PROVE TypeOK'
  BY <1>8 DEF Lose
<1>9. ASSUME NEW n \in Node, KeepaliveReset(n) PROVE TypeOK'
  <2>1. Aged(n) \in [Links -> Ages]
    BY DEF Aged, Ages
  <2>2. minted + 1 \in Challenge
    BY <1>9, MintedIsChallenge DEF KeepaliveReset
  <2>3. local' \in [Node -> Challenge] /\ minted' \in Challenge
    BY <1>9, <2>2 DEF KeepaliveReset, NextChallenge
  <2>4. candidate' \in [Node -> Candidate \cup {NoCandidate}]
    BY <1>9 DEF KeepaliveReset
  <2>5. heard' \in [Node -> [Links -> Ages]]
    BY <1>9, <2>1 DEF KeepaliveReset
  <2>6. QED
    BY <1>9, <2>3, <2>4, <2>5 DEF KeepaliveReset
<1>10. ASSUME NEW n \in Node, KeepalivePing(n) PROVE TypeOK'
  <2>1. Aged(n) \in [Links -> Ages]
    BY DEF Aged, Ages
  <2>2. heard' \in [Node -> [Links -> Ages]]
    BY <1>10, <2>1 DEF KeepalivePing
  <2>3. owed' \in [Node -> SUBSET Owed]
    BY <1>10 DEF KeepalivePing, Owed
  <2>4. QED
    BY <1>10, <2>2, <2>3 DEF KeepalivePing
<1>11. ASSUME NEW n \in Node, NEW p \in Offered, Restart(n, p) PROVE TypeOK'
  <2>1. minted + 1 \in Challenge
    BY <1>11, MintedIsChallenge DEF Restart
  <2>2. local' \in [Node -> Challenge] /\ minted' \in Challenge
    BY <1>11, <2>1 DEF Restart, NextChallenge
  <2>3. candidate' \in [Node -> Candidate \cup {NoCandidate}]
    BY <1>11 DEF Restart
  <2>4. heard' \in [Node -> [Links -> Ages]]
    BY <1>11 DEF Restart, Ages
  <2>5. restarts' \in 0..MaxRestarts
    BY <1>11 DEF Restart
  <2>6. QED
    BY <1>11, <2>2, <2>3, <2>4, <2>5 DEF Restart
<1>12. ASSUME NEW n \in Node, NEW l \in Links, SendData(n, l) PROVE TypeOK'
  <2>1. sent + 1 \in 1..MaxPackets
    BY <1>12 DEF SendData
  <2>2. [kind |-> "data", to |-> Other(n), link |-> l, local |-> local[n],
         peer |-> peer[n], seq |-> sequence[n] + 1, id |-> sent + 1] \in Data
    BY <2>1, OtherIsNode DEF Data
  <2>3. net' \subseteq Message
    BY <1>12, <2>2 DEF SendData, Message
  <2>4. QED
    BY <1>12, <2>1, <2>3 DEF SendData
<1>13. ASSUME NEW n \in Node, NEW m \in net, Deliver(n, m) PROVE TypeOK'
  <2> m \in Message /\ m.link \in Links /\ m.local \in Challenge
      /\ m.peer \in Challenge \cup {NoChallenge}
    BY MessageFields
  <2> HeardOn(n, m.link) \in [Node -> [Links -> Ages]]
    BY DEF HeardOn, Ages
  <2>1. CASE m.kind = "hello" /\ AcceptHello(n, m)
    <3>1. m.params \in SUBSET Caps
      BY <2>1, HelloFields DEF Hello
    <3>2. ready' \in [Node -> BOOLEAN]
      BY <2>1 DEF AcceptHello, Echoes
    <3>3. remote' \in [Node -> SUBSET Caps]
      BY <2>1, <3>1 DEF AcceptHello, Agreed
    <3>4. net' \subseteq Message
      BY <2>1, DeliveryType DEF AcceptHello
    <3>5. owed' \in [Node -> SUBSET Owed]
      BY <2>1 DEF AcceptHello, Owed, HelloOnAll
    <3>6. paired' \subseteq Challenge \X (Challenge \cup {NoChallenge})
      BY <2>1 DEF AcceptHello, PairedWith
    <3>7. heard' \in [Node -> [Links -> Ages]]
      BY <2>1 DEF AcceptHello
    <3>8. QED
      BY <2>1, <3>2, <3>3, <3>4, <3>5, <3>6, <3>7 DEF AcceptHello
  <2>2. CASE m.kind = "hello" /\ ReplacePeer(n, m)
    <3>1. m.params \in SUBSET Caps
      BY <2>2, HelloFields DEF Hello
    <3>2. candidate[n].local = m.peer /\ m.peer \in Challenge
      BY <2>2 DEF ReplacePeer, CandidateEchoes, Candidate
    <3>3. net' \subseteq Message
      BY <2>2, DeliveryType DEF ReplacePeer
    <3>4. owed' \in [Node -> SUBSET Owed]
      BY <2>2 DEF ReplacePeer, Owed, HelloOnAll
    <3>5. paired' \subseteq Challenge \X (Challenge \cup {NoChallenge})
      BY <2>2, <3>2 DEF ReplacePeer, PairedWith
    <3>6. heard' \in [Node -> [Links -> Ages]]
      BY <2>2 DEF ReplacePeer, Ages
    <3>7. candidate' \in [Node -> Candidate \cup {NoCandidate}]
      BY <2>2 DEF ReplacePeer
    <3>8. remote' \in [Node -> SUBSET Caps]
      BY <2>2, <3>1 DEF ReplacePeer, Agreed
    <3>9. QED
      BY <2>2, <3>2, <3>3, <3>4, <3>5, <3>6, <3>7, <3>8 DEF ReplacePeer
  <2>3. CASE m.kind = "hello" /\ OfferReplacement(n, m)
    <3>1. CASE candidate[n].sender = m.local
      <4>1. candidate[n].local \in Challenge
        BY <3>1 DEF Candidate, NoCandidate, NoChallenge, Challenge
      <4>2. net' \subseteq Message
        BY <2>3, <3>1, <4>1, DeliveryType, OfferToType DEF OfferReplacement
      <4>3. QED
        BY <2>3, <3>1, <4>2 DEF OfferReplacement
    <3>2. CASE candidate[n].sender # m.local
      <4>1. minted + 1 \in Challenge
        BY <2>3, <3>2, MintedIsChallenge DEF OfferReplacement
      <4>2. net' \subseteq Message
        BY <2>3, <3>2, <4>1, DeliveryType, OfferToType DEF OfferReplacement
      <4>3. candidate' \in [Node -> Candidate \cup {NoCandidate}]
        <5>1. [sender |-> m.local, local |-> minted + 1] \in Candidate
          BY <4>1 DEF Candidate
        <5>2. QED
          BY ZenonT(40), <2>3, <3>2, <5>1 DEF OfferReplacement
      <4>4. limited' \in [Node -> BOOLEAN]
        BY <2>3, <3>2 DEF OfferReplacement
      <4>5. QED
        BY <2>3, <3>2, <4>1, <4>2, <4>3, <4>4 DEF OfferReplacement
    <3>3. QED
      BY <3>1, <3>2
  <2>4. CASE DropHello(n, m)
    BY <2>4, DeliveryType DEF DropHello
  <2>5. CASE ReceiveControl(n, m)
    <3>1. owed' \in [Node -> SUBSET Owed]
      <4>1. <<m.link, "pong">> \in Owed
        BY DEF Owed
      <4>2. CASE UnderPair(n, m) /\ m.kind = "ping" /\ n \in Ponging
        <5>1. owed' = [owed EXCEPT ![n] = @ \cup {<<m.link, "pong">>}]
          BY <2>5, <4>2 DEF ReceiveControl
        <5>2. QED
          BY <4>1, <5>1
      <4>3. CASE ~(UnderPair(n, m) /\ m.kind = "ping" /\ n \in Ponging)
        BY <2>5, <4>3 DEF ReceiveControl
      <4>4. QED
        BY <4>2, <4>3
    <3>2. keepalive' \in [Node -> BOOLEAN]
      BY <2>5 DEF ReceiveControl
    <3>3. net' \subseteq Message
      BY <2>5, DeliveryType DEF ReceiveControl
    <3>4. QED
      BY <2>5, <3>1, <3>2, <3>3 DEF ReceiveControl
  <2>6. CASE ReceiveData(n, m)
    <3>1. m.seq \in Nat \ {0} /\ m.id \in 1..MaxPackets
      BY <2>6, DataFields DEF ReceiveData, Data
    <3>2. net' \subseteq Message
      BY <2>6, DeliveryType DEF ReceiveData
    <3>3. CASE UnderPair(n, m) /\ Acceptable(n, m.seq)
      <4>1. highest' \in [Node -> Nat]
        <5>1. highest' = [highest EXCEPT ![n] = IF m.seq > @ THEN m.seq ELSE @]
          BY <2>6, <3>3 DEF ReceiveData
        <5>2. QED
          BY <3>1, <5>1
      <4>2. accepted' \in [Node -> SUBSET (Nat \ {0})]
        <5>1. accepted' = [accepted EXCEPT ![n] = @ \cup {m.seq}]
          BY <2>6, <3>3 DEF ReceiveData
        <5>2. QED
          BY <3>1, <5>1
      <4>3. Append(inbox[n], m.id) \in Seq(1..MaxPackets)
        BY <3>1
      <4>4. inbox' \in [Node -> Seq(1..MaxPackets)]
        BY <2>6, <3>3, <4>3 DEF ReceiveData
      <4>5. QED
        BY <2>6, <3>2, <3>3, <4>1, <4>2, <4>4 DEF ReceiveData
    <3>4. CASE ~(UnderPair(n, m) /\ Acceptable(n, m.seq))
      BY <2>6, <3>2, <3>4 DEF ReceiveData
    <3>5. QED
      BY <3>3, <3>4
  <2>7. QED
    BY <1>13, <2>1, <2>2, <2>3, <2>4, <2>5, <2>6 DEF Deliver, ReceiveHello
<1>14. CASE UNCHANGED vars
  BY <1>14 DEF vars
<1>15. QED
  <2> HIDE DEF TypeOK, identity, dataState, candState, liveness, history
  <2>1. QED
    BY <1>1, <1>2, <1>3, <1>4, <1>5, <1>6, <1>7, <1>8, <1>9, <1>10, <1>11,
       <1>12, <1>13, <1>14
    DEF Next

\* Every reachable state is well typed.
THEOREM TypeCorrect == Spec => []TypeOK
<1>1. TypeOK /\ [Next]_vars => TypeOK'
  BY TypeNext
<1>2. QED
  BY TypeInit, <1>1, PTL DEF Spec

----------------------------------------------------------------------------
(* The agreement of the two sides.                                         *)

\* A step that touches neither side's identity and sends no hello.
QuietStep ==
  /\ UNCHANGED <<local, peer, params, remote, ready, candidate, minted, paired>>
  /\ \A m \in net' : (IsHello(m) => m \in net) /\ m.local <= minted
  /\ \A l \in Links : <<l, "hello">> \in owed'["exit"] => <<l, "hello">> \in owed["exit"]

LEMMA QuietKeeps ==
  ASSUME IInv, QuietStep, TypeOK'
  PROVE  IInv'
<1> USE DEF QuietStep, IInv
<1>1. MintedInOrder'
  BY DEF MintedInOrder
<1>2. OnlyClientOpens'
  BY DEF OnlyClientOpens
<1>3. EchoesArePaired'
  BY DEF EchoesArePaired
<1>4. ClientStays'
  BY DEF ClientStays
<1>5. ParamsKnown'
  BY DEF ParamsKnown, ExitLocals
<1>6. ExitConfirmed'
  BY DEF ExitConfirmed
<1>7. QED
  BY <1>1, <1>2, <1>3, <1>4, <1>5, <1>6

\* Everything but hellos and fresh starts is quiet: pings, pongs and data...
LEMMA LinkActions ==
  ASSUME IInv, NEW n \in Node, NEW l \in Links
  PROVE  /\ \A k \in {"ping", "pong"} : SendControlVia(n, l, k) => QuietStep
         /\ SendData(n, l) \/ MarkStalled(n, l) => QuietStep
<1> USE DEF identity, dataState, candState, liveness, history
<1>1. /\ TypeOK /\ owed \in [Node -> SUBSET Owed]
      /\ \A x \in net : x.local <= minted
      /\ local[n] <= minted
  BY DEF IInv, MintedInOrder, TypeOK
<1>2. ASSUME NEW k \in {"ping", "pong"}, SendControlVia(n, l, k) PROVE QuietStep
  <2>1. \A x \in net' : x \in net \/ x = ControlFrom(n, l, k)
    BY <1>2 DEF SendControlVia
  <2>2. ~IsHello(ControlFrom(n, l, k)) /\ ControlFrom(n, l, k).local = local[n]
    BY DEF ControlFrom, IsHello
  <2>3. QED
    BY <1>1, <1>2, <2>1, <2>2 DEF SendControlVia, QuietStep
<1>3. SendData(n, l) => QuietStep
  BY <1>1 DEF SendData, QuietStep, IsHello
<1>4. MarkStalled(n, l) => QuietStep
  BY <1>1 DEF MarkStalled, QuietStep
<1>5. QED
  BY <1>2, <1>3, <1>4

\* ...the timers that only ask for pings or another candidate...
LEMMA NodeActions ==
  ASSUME IInv, NEW n \in Node, KeepalivePing(n) \/ CandidateCooled(n)
  PROVE  QuietStep
<1>1. /\ owed \in [Node -> SUBSET Owed] /\ \A x \in net : x.local <= minted
  BY DEF IInv, MintedInOrder, TypeOK
<1>2. KeepalivePing(n) => QuietStep
  BY <1>1 DEF KeepalivePing, QuietStep, identity, candState, dataState, history
<1>3. CandidateCooled(n) => QuietStep
  BY <1>1 DEF CandidateCooled, QuietStep, identity, liveness, dataState, history
<1>4. QED
  BY <1>2, <1>3

LEMMA LossIsQuiet ==
  ASSUME IInv, NEW m \in net, Lose(m)
  PROVE  QuietStep
BY DEF IInv, MintedInOrder, Lose, QuietStep, identity, candState, liveness,
       dataState, history

\* ...and the deliveries that drop a hello or carry no hello.
LEMMA DeliveryActions ==
  ASSUME IInv, NEW n \in Node, NEW m \in net,
         DropHello(n, m) \/ ReceiveControl(n, m) \/ ReceiveData(n, m)
  PROVE  QuietStep
<1> USE DEF identity, dataState, candState, liveness, history
<1>1. /\ TypeOK /\ owed \in [Node -> SUBSET Owed]
      /\ \A x \in net : x.local <= minted
  BY DEF IInv, MintedInOrder, TypeOK
<1>2. AfterDelivery(m) \subseteq net
  BY DEF AfterDelivery
<1>3. DropHello(n, m) => QuietStep
  BY <1>1, <1>2 DEF DropHello, QuietStep
<1>4. ASSUME ReceiveControl(n, m) PROVE QuietStep
  <2>1. \/ owed' = owed
        \/ owed' = [owed EXCEPT ![n] = @ \cup {<<m.link, "pong">>}]
    BY <1>4 DEF ReceiveControl
  <2>2. \A k \in Links : <<k, "hello">> \in owed'["exit"] => <<k, "hello">> \in owed["exit"]
    <3>1. SUFFICES ASSUME NEW k \in Links, <<k, "hello">> \in owed'["exit"]
                   PROVE  <<k, "hello">> \in owed["exit"]
      OBVIOUS
    <3>2. <<k, "hello">> # <<m.link, "pong">>
      OBVIOUS
    <3>3. owed'["exit"] \subseteq owed["exit"] \cup {<<m.link, "pong">>}
      BY <1>1, <2>1 DEF Node
    <3>4. QED
      BY <3>1, <3>2, <3>3
  <2>3. QED
    BY <1>1, <1>2, <1>4, <2>2 DEF ReceiveControl, QuietStep
<1>5. ReceiveData(n, m) => QuietStep
  BY <1>1, <1>2 DEF ReceiveData, QuietStep
<1>6. QED
  BY <1>3, <1>4, <1>5

\* A hello says what its sender is.
LEMMA HelloViaKeeps ==
  ASSUME IInv, NEW n \in Node, NEW l \in Links, HelloVia(n, l), TypeOK'
  PROVE  IInv'
<1> USE DEF identity, dataState, candState, liveness, history, HelloVia
<1> DEFINE h == HelloFrom(n, l)
<1>1. /\ h.kind = "hello" /\ h.to = Other(n) /\ h.local = local[n]
      /\ h.peer = peer[n] /\ h.params = params[n]
  BY DEF HelloFrom
<1>2. net' = net \cup {h}
  OBVIOUS
<1>3. TypeOK /\ owed \in [Node -> SUBSET Owed]
  BY DEF IInv, TypeOK
<1>4. UNCHANGED <<local, peer, params, remote, ready, candidate, minted, paired>>
  OBVIOUS
<1>5. \A k \in Links : <<k, "hello">> \in owed'["exit"] => <<k, "hello">> \in owed["exit"]
  BY <1>3
<1>6. <<l, "hello">> \in owed[n]
  OBVIOUS
<1> HIDE DEF h, HelloVia
<1>7. MintedInOrder'
  BY <1>1, <1>2, <1>4 DEF IInv, MintedInOrder
<1>8. OnlyClientOpens'
  BY <1>1, <1>2, <1>4, <1>5, <1>6 DEF IInv, OnlyClientOpens, Node, Other
<1>9. EchoesArePaired'
  BY <1>1, <1>2, <1>4 DEF IInv, EchoesArePaired, Node, Other
<1>10. ClientStays'
  BY <1>4 DEF IInv, ClientStays
<1>11. ParamsKnown'
  <2>1. \A m \in net' : IsHello(m) =>
          /\ m.to = "exit" /\ m.local = local["client"] => m.params = params["client"]
          /\ m.to = "client" /\ m.local \in ExitLocals => m.params = params["exit"]
    <3>1. n = "client" => h.to = "exit"
      BY <1>1 DEF Other
    <3>2. n = "exit" => h.to = "client"
      BY <1>1 DEF Other
    <3>3. QED
      BY <1>1, <1>2, <3>1, <3>2 DEF IInv, ParamsKnown, Node
  <2>2. QED
    BY <2>1, <1>4 DEF IInv, ParamsKnown, ExitLocals
<1>12. ExitConfirmed'
  BY <1>4 DEF IInv, ExitConfirmed
<1>13. QED
  BY <1>7, <1>8, <1>9, <1>10, <1>11, <1>12 DEF IInv

\* Forgetting a candidate makes one exit challenge less.
LEMMA ExpiryKeeps ==
  ASSUME IInv, NEW n \in Node, CandidateExpired(n), TypeOK'
  PROVE  IInv'
<1> USE DEF identity, dataState, candState, liveness, history, CandidateExpired
<1>1. UNCHANGED <<local, peer, params, remote, ready, minted, paired, net, owed>>
  OBVIOUS
<1>2. \A k \in Node : candidate'[k] = candidate[k] \/ candidate'[k] = NoCandidate
  BY DEF IInv, TypeOK
<1>3. NoCandidate.local = 0 /\ minted \in Nat
  BY DEF NoCandidate, NoChallenge, IInv, TypeOK, Challenge
<1> HIDE DEF CandidateExpired
<1>4. MintedInOrder'
  BY <1>1, <1>2, <1>3 DEF IInv, MintedInOrder
<1>5. OnlyClientOpens'
  BY <1>1, <1>2 DEF IInv, OnlyClientOpens, Node
<1>6. EchoesArePaired' /\ ClientStays' /\ ExitConfirmed'
  BY <1>1 DEF IInv, EchoesArePaired, ClientStays, ExitConfirmed
<1>7. ParamsKnown'
  <2>1. ExitLocals' \subseteq ExitLocals \cup {NoChallenge}
    BY <1>1, <1>2, <1>3 DEF ExitLocals, Node, NoChallenge
  <2>2. \A m \in net : m.local # NoChallenge
    BY MessageFields DEF IInv, TypeOK, Challenge, NoChallenge
  <2>3. ready["client"] => peer["client"] # NoChallenge
    BY DEF IInv, OnlyClientOpens
  <2>4. QED
    BY <1>1, <2>1, <2>2, <2>3 DEF IInv, ParamsKnown
<1>8. QED
  BY <1>4, <1>5, <1>6, <1>7 DEF IInv

\* A fresh start has a challenge nobody has heard of.
FreshStart(n) ==
  /\ minted < MaxChallenge
  /\ minted' = minted + 1
  /\ local' = [local EXCEPT ![n] = minted + 1]
  /\ peer' = [peer EXCEPT ![n] = NoChallenge]
  /\ ready' = [ready EXCEPT ![n] = FALSE]
  /\ candidate' = [candidate EXCEPT ![n] = NoCandidate]
  /\ \A k \in Node \ {n} : params'[k] = params[k]
  /\ \A k \in Node \ {n} : remote'[k] = remote[k]
  /\ UNCHANGED <<net, paired>>
  /\ \A k \in Node \ {n} : owed'[k] = owed[k]
  /\ n = "exit" => owed'[n] = {}

LEMMA FreshStartKeeps ==
  ASSUME IInv, NEW n \in Node, FreshStart(n), TypeOK'
  PROVE  IInv'
<1>1. minted \in Nat /\ minted' = minted + 1
  BY DEF IInv, TypeOK, Challenge, FreshStart
<1>2. /\ local'[n] = minted + 1 /\ peer'[n] = NoChallenge /\ ~ready'[n]
      /\ candidate'[n] = NoCandidate
  BY DEF FreshStart, IInv, TypeOK
<1>3. \A k \in Node \ {n} : /\ local'[k] = local[k] /\ peer'[k] = peer[k]
                            /\ ready'[k] = ready[k] /\ candidate'[k] = candidate[k]
                            /\ params'[k] = params[k] /\ remote'[k] = remote[k]
                            /\ owed'[k] = owed[k]
  BY DEF FreshStart, IInv, TypeOK
<1>4. UNCHANGED <<net, paired>> /\ (n = "exit" => owed'[n] = {})
  BY DEF FreshStart
<1>5. NoCandidate.local = 0 /\ NoChallenge = 0
  BY DEF NoCandidate, NoChallenge
<1>6. /\ \A k \in Node : local[k] <= minted /\ peer[k] <= minted
                         /\ candidate[k].local <= minted
      /\ \A m \in net : m.local <= minted /\ m.local \in Nat \ {0}
      /\ \A p \in paired : p[1] <= minted /\ p[1] \in Nat
      /\ \A k \in Node : local[k] \in Nat /\ peer[k] \in Nat
                         /\ candidate[k].local \in Nat
  <2>1. \A m \in net : m.local \in Nat \ {0}
    BY MessageFields DEF IInv, TypeOK, Challenge
  <2>2. \A p \in paired : p[1] \in Nat
    BY DEF IInv, TypeOK, Challenge
  <2>3. \A k \in Node : local[k] \in Nat /\ peer[k] \in Nat /\ candidate[k].local \in Nat
    <3>1. \A k \in Node : local[k] \in Nat /\ peer[k] \in Nat
      <4>1. local \in [Node -> Challenge] /\ peer \in [Node -> Challenge \cup {NoChallenge}]
        BY DEF IInv, TypeOK
      <4>2. Challenge \subseteq Nat /\ NoChallenge \in Nat
        BY DEF Challenge, NoChallenge
      <4>3. QED
        BY <4>1, <4>2
    <3>2. \A c \in Candidate \cup {NoCandidate} : c.local \in Nat
      BY DEF Candidate, NoCandidate, Challenge, NoChallenge
    <3>3. \A k \in Node : candidate[k] \in Candidate \cup {NoCandidate}
      BY DEF IInv, TypeOK
    <3>4. QED
      BY <3>1, <3>2, <3>3
  <2>4. QED
    BY <2>1, <2>2, <2>3 DEF IInv, MintedInOrder
<1>7. MintedInOrder'
  <2>1. \A k \in Node : /\ local'[k] <= minted' /\ peer'[k] <= minted'
                        /\ candidate'[k].local <= minted'
    <3>1. SUFFICES ASSUME NEW k \in Node
                   PROVE  /\ local'[k] <= minted' /\ peer'[k] <= minted'
                          /\ candidate'[k].local <= minted'
      OBVIOUS
    <3>2. CASE k = n
      BY <3>2, <1>1, <1>2, <1>5
    <3>3. CASE k # n
      BY <3>3, <1>1, <1>3, <1>6
    <3>4. QED
      BY <3>2, <3>3
  <2>2. QED
    BY <2>1, <1>1, <1>4, <1>6 DEF MintedInOrder
<1>8. OnlyClientOpens'
  BY <1>2, <1>3, <1>4 DEF IInv, OnlyClientOpens, Node
<1>9. EchoesArePaired'
  BY <1>2, <1>3, <1>4 DEF IInv, EchoesArePaired, Node
<1>10. ClientStays'
  <2>1. CASE n = "client"
    BY <2>1, <1>1, <1>2, <1>4, <1>6 DEF ClientStays
  <2>2. CASE n # "client"
    BY <2>2, <1>3, <1>4 DEF IInv, ClientStays, Node
  <2>3. QED
    BY <2>1, <2>2
<1>11. ParamsKnown'
  <2>1. CASE n = "client"
    <3>1. \A m \in net : m.local # local'["client"]
      BY <2>1, <1>1, <1>2, <1>6
    <3>2. ~ready'["client"] /\ peer'["exit"] # local'["client"]
      BY <2>1, <1>1, <1>2, <1>3, <1>6 DEF Node
    <3>3. ExitLocals' = ExitLocals /\ params'["exit"] = params["exit"]
      BY <2>1, <1>3 DEF ExitLocals, Node
    <3>4. QED
      BY <3>1, <3>2, <3>3, <1>4 DEF IInv, ParamsKnown
  <2>2. CASE n = "exit"
    <3>1. ExitLocals' = {minted + 1, 0}
      BY <2>2, <1>2, <1>5 DEF ExitLocals
    <3>2. \A m \in net : m.local \notin ExitLocals'
      BY <3>1, <1>1, <1>6
    <3>3. ready["client"] => peer["client"] \notin ExitLocals'
      BY <3>1, <1>1, <1>5, <1>6 DEF IInv, OnlyClientOpens, Node
    <3>4. /\ ~ready'["exit"] /\ ready'["client"] = ready["client"]
          /\ peer'["client"] = peer["client"] /\ local'["client"] = local["client"]
          /\ params'["client"] = params["client"]
      BY <2>2, <1>2, <1>3 DEF Node
    <3>5. QED
      BY <3>2, <3>3, <3>4, <1>4 DEF IInv, ParamsKnown
  <2>3. QED
    BY <2>1, <2>2 DEF Node
<1>12. ExitConfirmed'
  BY <1>2, <1>3, <1>4 DEF IInv, ExitConfirmed, Node
<1>13. QED
  BY <1>7, <1>8, <1>9, <1>10, <1>11, <1>12 DEF IInv

LEMMA FreshStarts ==
  ASSUME IInv, NEW n \in Node
  PROVE  /\ KeepaliveReset(n) => FreshStart(n)
         /\ \A p \in Offered : Restart(n, p) => FreshStart(n)
<1>1. params \in [Node -> SUBSET Caps] /\ remote \in [Node -> SUBSET Caps]
      /\ owed \in [Node -> SUBSET Owed]
  BY DEF IInv, TypeOK
<1>2. KeepaliveReset(n) => FreshStart(n)
  BY <1>1 DEF KeepaliveReset, FreshStart, NextChallenge
<1>3. ASSUME NEW p \in Offered, Restart(n, p) PROVE FreshStart(n)
  BY <1>1, <1>3 DEF Restart, FreshStart, NextChallenge
<1>4. QED
  BY <1>2, <1>3

\* Accepting a hello: an echo is of a pair the client has had.
LEMMA AcceptKeeps ==
  ASSUME IInv, NEW n \in Node, NEW m \in net, IsHello(m), AcceptHello(n, m),
         TypeOK'
  PROVE  IInv'
<1>1. /\ m.to = n /\ m.local \in Challenge /\ m.peer \in Challenge \cup {NoChallenge}
      /\ m.local <= minted /\ m.local # NoChallenge
  BY MessageFields DEF IInv, TypeOK, MintedInOrder, AcceptHello, Challenge, NoChallenge
<1>2. UNCHANGED <<local, params, candidate, minted>> /\ net' \subseteq net
  BY DEF AcceptHello, dataState, candState, AfterDelivery
<1>3. /\ peer'[n] = m.local
      /\ ready'[n] = (ready[n] \/ m.peer = local[n])
      /\ remote'[n] = IF m.peer = local[n] THEN m.params \cap params[n] ELSE remote[n]
      /\ \A k \in Node \ {n} : /\ peer'[k] = peer[k] /\ ready'[k] = ready[k]
                              /\ remote'[k] = remote[k] /\ owed'[k] = owed[k]
  BY DEF AcceptHello, Echoes, Agreed, IInv, TypeOK
<1>4. /\ ready[n] => m.local = peer[n]
      /\ m.peer = local[n] \/ m.peer = NoChallenge
      /\ paired' = IF ready[n] \/ m.peer = local[n]
                     THEN PairedWith(n, local[n], m.local) ELSE paired
  BY DEF AcceptHello, Echoes, Unlinked
<1>5. MintedInOrder'
  <2>1. \A k \in Node : peer'[k] <= minted
    BY <1>1, <1>3 DEF IInv, MintedInOrder
  <2>2. \A p \in paired' : p[1] <= minted
    BY <1>4 DEF IInv, MintedInOrder, PairedWith
  <2>3. QED
    BY <1>2, <2>1, <2>2 DEF IInv, MintedInOrder
<1>6. OnlyClientOpens'
  <2>1. n = "exit" => peer'["exit"] # NoChallenge
    BY <1>1, <1>3
  <2>2. n = "client" => peer'["client"] # NoChallenge
    BY <1>1, <1>3
  <2>3. QED
    BY <1>2, <1>3, <2>1, <2>2 DEF IInv, OnlyClientOpens, Node
<1>7. CASE n = "client"
  <2>1. m.peer = local["client"]
    BY <1>1, <1>4, <1>7 DEF IInv, OnlyClientOpens
  <2>2. /\ paired' = paired \cup {<<local["client"], m.local>>}
        /\ peer'["client"] = m.local /\ ready'["client"]
        /\ peer'["exit"] = peer["exit"] /\ ready'["exit"] = ready["exit"]
        /\ remote'["exit"] = remote["exit"]
        /\ remote'["client"] = m.params \cap params["client"]
    BY <1>3, <1>4, <1>7, <2>1 DEF PairedWith, Node
  <2>3. EchoesArePaired'
    BY <1>2, <2>2 DEF IInv, EchoesArePaired
  <2>4. ClientStays'
    <3>1. SUFFICES ASSUME NEW p \in paired, p[1] = local["client"]
                   PROVE  p[2] = m.local
      BY <1>2, <2>2 DEF ClientStays
    <3>2. ready["client"] /\ p[2] = peer["client"]
      BY <3>1 DEF IInv, ClientStays
    <3>3. QED
      BY <3>2, <1>4, <1>7
  <2>5. ParamsKnown'
    <3>1. m.local \in ExitLocals => m.params = params["exit"]
      BY <1>1, <1>7 DEF IInv, ParamsKnown
    <3>2. ExitLocals' = ExitLocals
      BY <1>2 DEF ExitLocals
    <3>3. QED
      BY <1>2, <2>2, <3>1, <3>2 DEF IInv, ParamsKnown
  <2>6. ExitConfirmed'
    BY <1>2, <2>2 DEF IInv, ExitConfirmed
  <2>7. QED
    BY <1>5, <1>6, <2>3, <2>4, <2>5, <2>6 DEF IInv
<1>8. CASE n = "exit"
  <2>1. /\ paired' = paired
        /\ peer'["client"] = peer["client"] /\ ready'["client"] = ready["client"]
        /\ remote'["client"] = remote["client"]
    BY <1>3, <1>4, <1>8 DEF PairedWith, Node
  <2>2. EchoesArePaired' /\ ClientStays'
    BY <1>2, <2>1 DEF IInv, EchoesArePaired, ClientStays
  <2>3. ExitConfirmed'
    <3>1. CASE m.peer = local["exit"]
      <4>1. <<m.local, m.peer>> \in paired
        <5>1. local["exit"] # NoChallenge
          BY DEF IInv, TypeOK, Challenge, NoChallenge, Node
        <5>2. QED
          BY <1>1, <1>8, <3>1, <5>1 DEF IInv, EchoesArePaired
      <4>2. QED
        BY <1>2, <1>3, <1>8, <2>1, <3>1, <4>1 DEF ExitConfirmed
    <3>2. CASE m.peer # local["exit"]
      BY <1>2, <1>3, <1>4, <1>8, <2>1, <3>2 DEF IInv, ExitConfirmed
    <3>3. QED
      BY <3>1, <3>2
  <2>4. ParamsKnown'
    <3>1. ExitLocals' = ExitLocals
      BY <1>2 DEF ExitLocals
    <3>2. ready'["exit"] /\ peer'["exit"] = local["client"] =>
            remote'["exit"] = params["client"] \cap params["exit"]
      <4>1. CASE m.peer = local["exit"]
        <5>1. m.local = local["client"] => m.params = params["client"]
          BY <1>1, <1>8 DEF IInv, ParamsKnown
        <5>2. QED
          BY <1>3, <1>8, <4>1, <5>1
      <4>2. CASE m.peer # local["exit"]
        BY <1>3, <1>4, <1>8, <4>2 DEF IInv, ParamsKnown
      <4>3. QED
        BY <4>1, <4>2
    <3>3. QED
      BY <1>2, <2>1, <3>1, <3>2 DEF IInv, ParamsKnown
  <2>5. QED
    BY <1>5, <1>6, <2>2, <2>3, <2>4 DEF IInv
<1>9. QED
  BY <1>7, <1>8 DEF Node

\* The candidate that takes over was established with the challenge minted
\* for it.
LEMMA ReplaceKeeps ==
  ASSUME IInv, NEW n \in Node, NEW m \in net, IsHello(m), ReplacePeer(n, m),
         TypeOK'
  PROVE  IInv'
<1>1. n = "exit"
  BY DEF ReplacePeer, CandidateEchoes, IInv, OnlyClientOpens, Node
<1>2. /\ m.to = "exit" /\ m.local \in Challenge /\ m.local <= minted
      /\ m.local # NoChallenge
  BY <1>1, MessageFields DEF IInv, TypeOK, MintedInOrder, ReplacePeer, Challenge,
     NoChallenge
<1>3. /\ candidate["exit"] \in Candidate /\ candidate["exit"].local = m.peer
      /\ m.peer # NoChallenge /\ m.peer <= minted
  <2>1. candidate["exit"] \in Candidate \cup {NoCandidate}
    BY DEF IInv, TypeOK, Node
  <2>2. /\ candidate["exit"] # NoCandidate
        /\ candidate["exit"] = [sender |-> m.local, local |-> m.peer]
    BY <1>1 DEF ReplacePeer, CandidateEchoes
  <2>3. m.peer \in Challenge
    BY <2>1, <2>2 DEF Candidate
  <2>4. candidate["exit"].local <= minted
    BY DEF IInv, MintedInOrder, Node
  <2>5. QED
    BY <2>1, <2>2, <2>3, <2>4 DEF Challenge, NoChallenge
<1>4. /\ local'["exit"] = m.peer /\ peer'["exit"] = m.local
      /\ remote'["exit"] = m.params \cap params["exit"]
      /\ candidate'["exit"] = NoCandidate
      /\ local'["client"] = local["client"] /\ peer'["client"] = peer["client"]
      /\ remote'["client"] = remote["client"]
      /\ candidate'["client"] = candidate["client"]
  BY <1>1, <1>3 DEF ReplacePeer, Agreed, IInv, TypeOK, Node
<1>5. UNCHANGED <<params, ready, minted, paired>> /\ net' \subseteq net
  BY <1>1 DEF ReplacePeer, AfterDelivery, PairedWith
<1>6. <<m.local, m.peer>> \in paired
  BY <1>2, <1>3 DEF IInv, EchoesArePaired
<1>7. ExitLocals' \subseteq ExitLocals \cup {NoChallenge}
  BY <1>3, <1>4 DEF ExitLocals, NoCandidate
<1>8. MintedInOrder'
  <2>1. NoCandidate.local = 0 /\ minted \in Nat
    BY DEF NoCandidate, NoChallenge, IInv, TypeOK, Challenge
  <2>2. QED
    BY <1>2, <1>3, <1>4, <1>5, <2>1 DEF IInv, MintedInOrder, Node
<1>9. OnlyClientOpens'
  BY <1>2, <1>4, <1>5 DEF IInv, OnlyClientOpens
<1>10. EchoesArePaired' /\ ClientStays'
  BY <1>4, <1>5 DEF IInv, EchoesArePaired, ClientStays
<1>11. ExitConfirmed'
  BY <1>4, <1>5, <1>6 DEF ExitConfirmed
<1>12. ParamsKnown'
  <2>1. \A x \in net : x.local # NoChallenge
    BY MessageFields DEF IInv, TypeOK, Challenge, NoChallenge
  <2>2. ready["client"] => peer["client"] # NoChallenge
    BY DEF IInv, OnlyClientOpens
  <2>3. m.local = local["client"] => m.params = params["client"]
    BY <1>2 DEF IInv, ParamsKnown
  <2>4. QED
    BY <1>4, <1>5, <1>7, <2>1, <2>2, <2>3 DEF IInv, ParamsKnown
<1>13. QED
  BY <1>8, <1>9, <1>10, <1>11, <1>12 DEF IInv

\* An offer of a challenge is not yet anybody's pair.
LEMMA OfferKeeps ==
  ASSUME IInv, NEW n \in Node, NEW m \in net, IsHello(m),
         OfferReplacement(n, m), TypeOK'
  PROVE  IInv'
<1> DEFINE c == candidate'["exit"].local
<1>1. n = "exit"
  BY DEF OfferReplacement, Unlinked, IInv, OnlyClientOpens, Node
<1>2. m.local \in Challenge /\ m.local <= minted /\ m.local # NoChallenge
  BY MessageFields DEF IInv, TypeOK, MintedInOrder, Challenge, NoChallenge
<1>3. UNCHANGED <<local, peer, params, remote, ready, owed, paired>>
  BY DEF OfferReplacement, identity
<1>4. minted \in Nat /\ candidate \in [Node -> Candidate \cup {NoCandidate}]
  BY DEF IInv, TypeOK, Challenge
<1>5. /\ candidate'["client"] = candidate["client"]
      /\ net' = AfterDelivery(m) \cup OfferTo("exit", c, m.local)
      /\ \/ c = candidate["exit"].local /\ minted' = minted
         \/ c = minted + 1 /\ minted' = minted + 1
  <2>1. CASE candidate["exit"].sender = m.local
    BY <1>1, <2>1 DEF OfferReplacement
  <2>2. CASE candidate["exit"].sender # m.local
    <3>1. candidate' = [candidate EXCEPT !["exit"] =
                          [sender |-> m.local, local |-> minted + 1]]
      BY <1>1, <2>2 DEF OfferReplacement
    <3>2. c = minted + 1 /\ candidate'["client"] = candidate["client"]
      BY <1>4, <3>1 DEF Node
    <3>3. minted' = minted + 1 /\ net' = AfterDelivery(m) \cup OfferTo("exit", minted + 1, m.local)
      BY <1>1, <2>2 DEF OfferReplacement
    <3>4. QED
      BY <3>2, <3>3
  <2>3. QED
    BY <2>1, <2>2
<1>6. \A x \in net' : \/ x \in net
                       \/ /\ x.to = "client" /\ x.peer = m.local
                          /\ x.local = c /\ x.params = params["exit"]
  <2>1. AfterDelivery(m) \subseteq net
    BY DEF AfterDelivery
  <2>2. \A x \in OfferTo("exit", c, m.local) :
          /\ x.to = "client" /\ x.peer = m.local
          /\ x.local = c /\ x.params = params["exit"]
    BY DEF OfferTo, Other
  <2>3. QED
    BY <1>5, <2>1, <2>2
<1>7. c <= minted' /\ minted <= minted'
  BY <1>4, <1>5 DEF IInv, MintedInOrder, Node
<1>8. \A x \in net : x.local \in Nat /\ x.local <= minted
  BY MessageFields DEF IInv, TypeOK, MintedInOrder, Challenge
<1> HIDE DEF c
<1>9. MintedInOrder'
  <2>1. \A k \in Node : /\ local'[k] <= minted' /\ peer'[k] <= minted'
                        /\ candidate'[k].local <= minted'
    <3>1. \A k \in Node : local[k] <= minted /\ peer[k] <= minted
                          /\ candidate[k].local <= minted
      BY DEF IInv, MintedInOrder
    <3>2. minted' = minted \/ minted' = minted + 1
      BY <1>5
    <3>3. \A k \in Node : local[k] \in Nat /\ peer[k] \in Nat
      <4>1. local \in [Node -> Challenge] /\ peer \in [Node -> Challenge \cup {NoChallenge}]
        BY DEF IInv, TypeOK
      <4>2. Challenge \subseteq Nat /\ NoChallenge \in Nat
        BY DEF Challenge, NoChallenge
      <4>3. QED
        BY <4>1, <4>2
    <3>4. candidate["client"].local = 0
      BY DEF IInv, OnlyClientOpens, NoCandidate, NoChallenge
    <3>5. candidate'["exit"].local <= minted'
      BY <1>7 DEF c
    <3>6. \A k \in Node : local'[k] <= minted' /\ peer'[k] <= minted'
      BY <1>3, <1>4, <3>1, <3>2, <3>3
    <3>7. candidate'["client"].local <= minted'
      BY <1>4, <1>5, <3>2, <3>4
    <3>8. QED
      BY <3>5, <3>6, <3>7 DEF Node
  <2>2. \A x \in net' : x.local <= minted'
    BY <1>4, <1>5, <1>6, <1>7, <1>8
  <2>3. \A p \in paired' : p[1] <= minted'
    <3>1. \A p \in paired : p[1] \in Nat /\ p[1] <= minted
      BY DEF IInv, TypeOK, MintedInOrder, Challenge
    <3>2. QED
      BY <1>3, <1>4, <1>5, <3>1
  <2>4. QED
    BY <2>1, <2>2, <2>3 DEF MintedInOrder
<1>10. OnlyClientOpens'
  BY <1>2, <1>3, <1>5, <1>6 DEF IInv, OnlyClientOpens
<1>11. EchoesArePaired'
  BY <1>3, <1>6 DEF IInv, EchoesArePaired
<1>12. ClientStays' /\ ExitConfirmed'
  BY <1>3 DEF IInv, ClientStays, ExitConfirmed
<1>13. ParamsKnown'
  <2>1. ExitLocals' = {local["exit"], c}
    BY <1>3 DEF ExitLocals, c
  <2>2. c \in ExitLocals \/ c = minted + 1
    BY <1>5 DEF ExitLocals
  <2>3. ready["client"] /\ peer["client"] \in ExitLocals' =>
          remote["client"] = params["client"] \cap params["exit"]
    <3>1. peer["client"] # minted + 1
      <4>1. peer["client"] \in Challenge \cup {NoChallenge} /\ peer["client"] <= minted
        BY DEF IInv, TypeOK, MintedInOrder, Node
      <4>2. Challenge \subseteq Nat /\ NoChallenge \in Nat
        BY DEF Challenge, NoChallenge
      <4>3. QED
        BY <1>4, <4>1, <4>2
    <3>2. peer["client"] \in ExitLocals' => peer["client"] \in ExitLocals
      BY <2>1, <2>2, <3>1 DEF ExitLocals
    <3>3. QED
      BY <3>2 DEF IInv, ParamsKnown
  <2>4. \A x \in net' : IsHello(x) =>
          /\ x.to = "exit" /\ x.local = local["client"] => x.params = params["client"]
          /\ x.to = "client" /\ x.local \in ExitLocals' => x.params = params["exit"]
    <3>1. SUFFICES ASSUME NEW x \in net', IsHello(x)
          PROVE
          /\ x.to = "exit" /\ x.local = local["client"] => x.params = params["client"]
          /\ x.to = "client" /\ x.local \in ExitLocals' => x.params = params["exit"]
      OBVIOUS
    <3>2. CASE x \in net
      <4>1. x.local # minted + 1
        BY <3>2, <1>4, <1>8
      <4>2. x.local \in ExitLocals' => x.local \in ExitLocals
        BY <2>1, <2>2, <4>1 DEF ExitLocals
      <4>3. QED
        BY <3>1, <3>2, <4>2 DEF IInv, ParamsKnown
    <3>3. CASE x \notin net
      BY <3>1, <3>3, <1>6
    <3>4. QED
      BY <3>2, <3>3
  <2>5. QED
    BY <1>3, <2>3, <2>4 DEF IInv, ParamsKnown
<1>14. QED
  BY <1>9, <1>10, <1>11, <1>12, <1>13 DEF IInv

LEMMA InvInit == Init => IInv
<1> SUFFICES ASSUME Init PROVE IInv
  OBVIOUS
<1>1. TypeOK
  BY TypeInit
<1>2. MintedInOrder
  BY DEF Init, MintedInOrder, Node, NoCandidate, NoChallenge
<1>3. OnlyClientOpens /\ EchoesArePaired /\ ClientStays /\ ExitConfirmed
  BY DEF Init, OnlyClientOpens, EchoesArePaired, ClientStays, ExitConfirmed, Node
<1>4. ParamsKnown
  BY DEF Init, ParamsKnown, Node
<1>5. QED
  BY <1>1, <1>2, <1>3, <1>4 DEF IInv

LEMMA InvNext ==
  ASSUME IInv, [Next]_vars
  PROVE  IInv'
<1>1. TypeOK'
  BY TypeNext DEF IInv
<1>2. CASE UNCHANGED vars
  <2>1. QuietStep
    BY <1>2 DEF vars, QuietStep, IInv, MintedInOrder
  <2>2. QED
    BY <2>1, <1>1, QuietKeeps
<1>3. ASSUME QuietStep PROVE IInv'
  BY <1>1, <1>3, QuietKeeps
<1>4. CASE HelloLoop
  <2>1. QuietStep
    BY <1>4 DEF HelloLoop, QuietStep, identity, candState, history, IInv,
       MintedInOrder, TypeOK, Node
  <2>2. QED
    BY <1>3, <2>1
<1>5. ASSUME NEW n \in Node, NEW l \in Links, HelloVia(n, l) PROVE IInv'
  BY <1>1, <1>5, HelloViaKeeps
<1>6. ASSUME NEW n \in Node, NEW l \in Links, NEW k \in {"ping", "pong"},
             SendControlVia(n, l, k) PROVE IInv'
  BY <1>3, <1>6, LinkActions
<1>7. ASSUME NEW n \in Node, NEW l \in Links, SendData(n, l) \/ MarkStalled(n, l)
      PROVE  IInv'
  BY <1>3, <1>7, LinkActions
<1>8. ASSUME NEW n \in Node, KeepalivePing(n) \/ CandidateCooled(n) PROVE IInv'
  BY <1>3, <1>8, NodeActions
<1>9. ASSUME NEW n \in Node, CandidateExpired(n) PROVE IInv'
  BY <1>1, <1>9, ExpiryKeeps
<1>10. ASSUME NEW n \in Node, KeepaliveReset(n) PROVE IInv'
  BY <1>1, <1>10, FreshStarts, FreshStartKeeps
<1>11. ASSUME NEW n \in Node, NEW p \in Offered, Restart(n, p) PROVE IInv'
  BY <1>1, <1>11, FreshStarts, FreshStartKeeps
<1>12. ASSUME NEW m \in net, Lose(m) PROVE IInv'
  BY <1>3, <1>12, LossIsQuiet
<1>13. ASSUME NEW m \in net, NEW n \in Node, Deliver(n, m) PROVE IInv'
  <2>1. CASE IsHello(m) /\ AcceptHello(n, m)
    BY <1>1, <2>1, AcceptKeeps
  <2>2. CASE IsHello(m) /\ ReplacePeer(n, m)
    BY <1>1, <2>2, ReplaceKeeps
  <2>3. CASE IsHello(m) /\ OfferReplacement(n, m)
    BY <1>1, <2>3, OfferKeeps
  <2>4. CASE DropHello(n, m) \/ ReceiveControl(n, m) \/ ReceiveData(n, m)
    BY <1>3, <2>4, DeliveryActions
  <2>5. QED
    BY <1>13, <2>1, <2>2, <2>3, <2>4 DEF Deliver, ReceiveHello, IsHello
<1>14. CASE BoundReached
  BY <1>2, <1>14 DEF BoundReached
<1>15. QED
  <2> HIDE DEF IInv
  <2>1. QED
    BY <1>2, <1>4, <1>5, <1>6, <1>7, <1>8, <1>9, <1>10, <1>11, <1>12, <1>13,
       <1>14
    DEF Next

\* The inductive invariant holds in every reachable state.
THEOREM Invariant == Spec => []IInv
<1>1. IInv /\ [Next]_vars => IInv'
  BY InvNext
<1>2. QED
  BY InvInit, <1>1, PTL DEF Spec

\* The exit never becomes ready on a client that was not established with
\* the exit's present challenge.
THEOREM Confirmed == Spec => []ExitConfirmed
<1>1. IInv => ExitConfirmed
  BY DEF IInv
<1>2. QED
  BY Invariant, <1>1, PTL

\* When the exit is established with the running client, the client is with
\* the exit, under the same limits.
THEOREM Agreement == Spec => []PairAgreement
<1>1. ASSUME IInv, ready["exit"], peer["exit"] = local["client"]
      PROVE  /\ ready["client"] /\ peer["client"] = local["exit"]
             /\ remote["client"] = remote["exit"]
  <2>1. <<local["client"], local["exit"]>> \in paired
    BY <1>1 DEF IInv, ExitConfirmed
  <2>2. ready["client"] /\ peer["client"] = local["exit"]
    BY <1>1, <2>1 DEF IInv, ClientStays
  <2>3. remote["client"] = remote["exit"]
    BY <1>1, <2>2 DEF IInv, ParamsKnown, ExitLocals
  <2>4. QED
    BY <2>2, <2>3
<1>2. IInv => PairAgreement
  BY <1>1 DEF PairAgreement
<1>3. QED
  BY Invariant, <1>2, PTL

----------------------------------------------------------------------------
(* Packets come once.                                                      *)

IsData(m) == m.kind = "data"
Received(n, m) == \E i \in DOMAIN inbox[n] : inbox[n][i] = m.id

\* What was received under a node's present challenge is marked as accepted,
\* and nothing was received under the challenge a candidate is to use.
ReceivedIsMarked ==
  \A n \in Node : \A m \in net : IsData(m) /\ m.to = n /\ Received(n, m) =>
    /\ m.peer \notin {NoChallenge, candidate[n].local}
    /\ m.peer = local[n] => m.seq \in accepted[n]

\* The inductive invariant behind AtMostOnce (Send, acceptSequenceLocked).
DataInv ==
  /\ \A m \in net : m.peer <= minted
  /\ \A m \in net : IsData(m) => m.id <= sent
  /\ \A m1, m2 \in net : IsData(m1) /\ IsData(m2) /\ m1.id = m2.id => m1 = m2
  /\ \A n \in Node : candidate[n].local # local[n]
  /\ \A n \in Node : \A s \in accepted[n] : s <= highest[n]
  /\ \A n \in Node : \A i \in DOMAIN inbox[n] : inbox[n][i] <= sent
  /\ ReceivedIsMarked
  /\ AtMostOnce


\* A step that brings no data and leaves what was received, and the node's
\* challenges, as they are.
NoNewData ==
  /\ UNCHANGED <<sent, inbox, accepted, highest, local, candidate>>
  /\ minted' >= minted
  /\ \A m \in net' : m.peer <= minted' /\ (IsData(m) => m \in net)

LEMMA NoNewDataKeeps ==
  ASSUME TypeOK, DataInv, NoNewData
  PROVE  DataInv'
<1> USE DEF NoNewData, DataInv
<1>1. /\ \A m \in net' : IsData(m) => m \in net
      /\ UNCHANGED <<sent, inbox, accepted, highest, local, candidate>>
  OBVIOUS
<1>2. ReceivedIsMarked'
  BY <1>1 DEF ReceivedIsMarked, Received
<1>3. AtMostOnce'
  BY DEF AtMostOnce
<1>4. QED
  BY <1>1, <1>2, <1>3

\* What every proof below needs to know of the present state.
LEMMA DataFacts ==
  ASSUME IInv, DataInv
  PROVE  /\ TypeOK /\ minted \in Nat /\ sent \in Nat
         /\ \A m \in net : /\ m \in Message /\ m.peer <= minted /\ m.peer \in Nat
                           /\ m.local \in Nat
         /\ \A n \in Node : /\ local[n] \in Nat /\ local[n] <= minted
                            /\ peer[n] \in Nat /\ peer[n] <= minted
                            /\ local[n] # NoChallenge
                            /\ candidate[n].local \in Nat /\ candidate[n].local <= minted
                            /\ candidate[n].sender \in Nat
<1>1. TypeOK /\ MintedInOrder
  BY DEF IInv
<1>2. \A m \in net : m \in Message
  BY <1>1 DEF TypeOK
<1>3. \A m \in net : m.peer \in Nat /\ m.local \in Nat
  BY <1>2, MessageFields DEF Challenge, NoChallenge
<1>4. ASSUME NEW n \in Node
      PROVE  candidate[n].local \in Nat /\ candidate[n].sender \in Nat
  <2>1. candidate[n] \in Candidate \cup {NoCandidate}
    BY <1>1 DEF TypeOK
  <2>2. QED
    BY <2>1 DEF Candidate, NoCandidate, Challenge, NoChallenge
<1>5. \A n \in Node : local[n] \in Challenge /\ peer[n] \in Challenge \cup {NoChallenge}
  BY <1>1 DEF TypeOK
<1>6. minted \in Nat /\ sent \in Nat
  BY <1>1, SessionAssumption DEF TypeOK, Challenge
<1>7. QED
  BY <1>1, <1>2, <1>3, <1>4, <1>5, <1>6 DEF DataInv, MintedInOrder, Challenge, NoChallenge

LEMMA NoNewDataLinks ==
  ASSUME IInv, DataInv, NEW n \in Node, NEW l \in Links,
         \/ HelloLoop \/ HelloVia(n, l) \/ MarkStalled(n, l)
         \/ \E k \in {"ping", "pong"} : SendControlVia(n, l, k)
  PROVE  NoNewData
<1> USE DataFacts DEF identity, dataState, candState, liveness, history, NoNewData
<1>1. CASE HelloLoop
  BY <1>1 DEF HelloLoop
<1>2. CASE HelloVia(n, l)
  <2>1. /\ \A m \in net' : m \in net \/ m = HelloFrom(n, l)
        /\ UNCHANGED <<sent, inbox, accepted, highest, local, candidate, minted>>
    BY <1>2 DEF HelloVia
  <2>2. HelloFrom(n, l).peer = peer[n] /\ HelloFrom(n, l).kind = "hello"
    BY DEF HelloFrom
  <2>3. QED
    BY <2>1, <2>2 DEF IsData
<1>3. CASE MarkStalled(n, l)
  BY <1>3 DEF MarkStalled
<1>4. ASSUME NEW k \in {"ping", "pong"}, SendControlVia(n, l, k) PROVE NoNewData
  <2>1. /\ \A m \in net' : m \in net \/ m = ControlFrom(n, l, k)
        /\ UNCHANGED <<sent, inbox, accepted, highest, local, candidate, minted>>
    BY <1>4 DEF SendControlVia
  <2>2. ControlFrom(n, l, k).peer = peer[n] /\ ControlFrom(n, l, k).kind = k
    BY DEF ControlFrom
  <2>3. QED
    BY <2>1, <2>2 DEF IsData
<1>5. QED
  BY <1>1, <1>2, <1>3, <1>4

LEMMA NoNewDataNodes ==
  ASSUME IInv, DataInv, NEW n \in Node,
         KeepalivePing(n) \/ CandidateCooled(n) \/ \E m \in net : Lose(m)
  PROVE  NoNewData
<1> USE DataFacts DEF identity, dataState, candState, liveness, history, NoNewData
<1>1. CASE KeepalivePing(n)
  BY <1>1 DEF KeepalivePing
<1>2. CASE CandidateCooled(n)
  BY <1>2 DEF CandidateCooled
<1>3. CASE \E m \in net : Lose(m)
  BY <1>3 DEF Lose
<1>4. QED
  BY <1>1, <1>2, <1>3

LEMMA NoNewDataDeliveries ==
  ASSUME IInv, DataInv, NEW n \in Node, NEW m \in net,
         \/ AcceptHello(n, m) \/ DropHello(n, m) \/ ReceiveControl(n, m)
  PROVE  NoNewData
<1> USE DataFacts DEF identity, dataState, candState, liveness, history, NoNewData
<1>1. AfterDelivery(m) \subseteq net
  BY DEF AfterDelivery
<1>2. CASE AcceptHello(n, m)
  BY <1>1, <1>2 DEF AcceptHello
<1>3. CASE DropHello(n, m)
  BY <1>1, <1>3 DEF DropHello
<1>4. CASE ReceiveControl(n, m)
  BY <1>1, <1>4 DEF ReceiveControl
<1>5. QED
  BY <1>2, <1>3, <1>4

\* What stands in a sequence over a set is of the set.
LEMMA ElementOfSequence ==
  ASSUME NEW S, NEW q \in Seq(S), NEW i \in DOMAIN q
  PROVE  q[i] \in S
OBVIOUS

\* A packet gets a number of its own.
LEMMA SendDataKeeps ==
  ASSUME IInv, DataInv, NEW n \in Node, NEW l \in Links, SendData(n, l)
  PROVE  DataInv'
<1> DEFINE d == [kind |-> "data", to |-> Other(n), link |-> l, local |-> local[n],
                 peer |-> peer[n], seq |-> sequence[n] + 1, id |-> sent + 1]
<1>1. /\ net' = net \cup {d} /\ sent' = sent + 1
      /\ UNCHANGED <<inbox, accepted, highest, local, candidate, minted>>
  BY DEF SendData, identity, candState
<1>2. d.peer = peer[n] /\ d.id = sent + 1
  OBVIOUS
<1> HIDE DEF d
<1>3. \A m \in net : IsData(m) => m.id \in Nat /\ m.id <= sent
  BY DataFacts, DataFields DEF DataInv, Data, IsData
<1>4. ASSUME NEW k \in Node, NEW i \in DOMAIN inbox[k]
      PROVE  inbox[k][i] <= sent /\ inbox[k][i] \in Nat
  <2>1. inbox[k] \in Seq(1..MaxPackets)
    BY DataFacts DEF TypeOK
  <2>2. DOMAIN inbox[k] = 1..Len(inbox[k])
    BY <2>1
  <2>3. inbox[k][i] \in 1..MaxPackets
    BY <2>1, <2>2, ElementOfSequence
  <2>4. inbox[k][i] <= sent
    <3>1. \A h \in DOMAIN inbox[k] : inbox[k][h] <= sent
      BY DEF DataInv
    <3>2. QED
      BY <3>1
  <2>5. inbox[k][i] \in Nat
    BY <2>3, SessionAssumption
  <2>6. QED
    BY <2>4, <2>5
<1>5. \A k \in Node : ~\E i \in DOMAIN inbox[k] : inbox[k][i] = d.id
  BY <1>2, <1>4, DataFacts
<1>6. ReceivedIsMarked'
  <2>1. ASSUME NEW k \in Node, NEW m \in net', IsData(m), m.to = k, Received(k, m)'
        PROVE  m.peer \notin {NoChallenge, candidate'[k].local} /\ (m.peer = local'[k] => m.seq \in accepted'[k])
    <3>1. m # d /\ Received(k, m)
      BY <1>1, <1>5, <2>1 DEF Received
    <3>2. QED
      BY <1>1, <2>1, <3>1 DEF DataInv, ReceivedIsMarked
  <2>2. QED
    BY <2>1 DEF ReceivedIsMarked
<1>7. \A m1, m2 \in net' : IsData(m1) /\ IsData(m2) /\ m1.id = m2.id => m1 = m2
  BY <1>1, <1>2, <1>3, DataFacts DEF DataInv
<1>8. AtMostOnce'
  BY <1>1 DEF DataInv, AtMostOnce
<1>9. \A m \in net' : m.peer <= minted' /\ (IsData(m) => m.id <= sent')
  BY <1>1, <1>2, <1>3, DataFacts
<1>10. \A k \in Node : \A i \in DOMAIN inbox'[k] : inbox'[k][i] <= sent'
  BY <1>1, <1>4, DataFacts
<1>11. QED
  BY <1>1, <1>6, <1>7, <1>8, <1>9, <1>10 DEF DataInv

\* A fresh challenge was named by nobody: the numbering may start again.
LEMMA FreshChallengeKeeps ==
  ASSUME IInv, DataInv, NEW n \in Node,
         \/ KeepaliveReset(n)
         \/ \E p \in Offered : Restart(n, p)
  PROVE  DataInv'
<1>1. /\ minted' = minted + 1 /\ local' = [local EXCEPT ![n] = minted + 1]
      /\ candidate' = [candidate EXCEPT ![n] = NoCandidate]
      /\ accepted' = [accepted EXCEPT ![n] = {}]
      /\ highest' = [highest EXCEPT ![n] = 0]
      /\ UNCHANGED <<net, sent, inbox>>
  BY DEF KeepaliveReset, Restart, NextChallenge
<1>2. /\ local \in [Node -> Challenge] /\ candidate \in [Node -> Candidate \cup {NoCandidate}]
      /\ accepted \in [Node -> SUBSET (Nat \ {0})] /\ highest \in [Node -> Nat]
  BY DataFacts DEF TypeOK
<1>3. \A m \in net : m.peer \in Nat /\ m.peer <= minted
  BY DataFacts
<1>4. \A k \in Node : IF k = n THEN local'[k] = minted + 1 /\ candidate'[k] = NoCandidate
                                    /\ accepted'[k] = {}
                      ELSE local'[k] = local[k] /\ candidate'[k] = candidate[k]
                           /\ accepted'[k] = accepted[k] /\ highest'[k] = highest[k]
  BY <1>1, <1>2
<1>5. ReceivedIsMarked'
  <2>1. ASSUME NEW k \in Node, NEW m \in net, IsData(m), m.to = k, Received(k, m)
        PROVE  m.peer \notin {NoChallenge, candidate'[k].local} /\ (m.peer = local'[k] => m.seq \in accepted'[k])
    <3>1. CASE k = n
      <4>1. m.peer # local'[k]
        BY <1>3, <1>4, <3>1, DataFacts
      <4>2. m.peer # NoChallenge
        BY <2>1 DEF DataInv, ReceivedIsMarked
      <4>3. candidate'[k].local = NoChallenge
        BY <1>4, <3>1 DEF NoCandidate
      <4>4. QED
        BY <4>1, <4>2, <4>3
    <3>2. CASE k # n
      BY <1>4, <2>1, <3>2 DEF DataInv, ReceivedIsMarked
    <3>3. QED
      BY <3>1, <3>2
  <2>2. QED
    BY <1>1, <2>1 DEF ReceivedIsMarked, Received
<1>6. AtMostOnce'
  BY <1>1 DEF DataInv, AtMostOnce
<1>7. QED
  BY <1>1, <1>3, <1>4, <1>5, <1>6, DataFacts DEF DataInv, NoCandidate, NoChallenge

\* The candidate's challenge was never the node's own: no packet under it
\* was received.
LEMMA ReplaceData ==
  ASSUME IInv, DataInv, NEW n \in Node, NEW m \in net, ReplacePeer(n, m)
  PROVE  DataInv'
<1>1. /\ local' = [local EXCEPT ![n] = candidate[n].local]
      /\ candidate' = [candidate EXCEPT ![n] = NoCandidate]
      /\ accepted' = [accepted EXCEPT ![n] = {}]
      /\ highest' = [highest EXCEPT ![n] = 0]
      /\ net' \subseteq net /\ candidate[n] # NoCandidate
      /\ UNCHANGED <<sent, inbox, minted>>
  BY DEF ReplacePeer, CandidateEchoes, AfterDelivery
<1>2. /\ local \in [Node -> Challenge] /\ candidate \in [Node -> Candidate \cup {NoCandidate}]
      /\ accepted \in [Node -> SUBSET (Nat \ {0})] /\ highest \in [Node -> Nat]
  BY DataFacts DEF TypeOK
<1>3. candidate[n].local # NoChallenge
  BY <1>1, <1>2 DEF Candidate, Challenge, NoChallenge
<1>4. \A k \in Node : IF k = n THEN local'[k] = candidate[k].local /\ candidate'[k] = NoCandidate
                                    /\ accepted'[k] = {}
                      ELSE local'[k] = local[k] /\ candidate'[k] = candidate[k]
                           /\ accepted'[k] = accepted[k] /\ highest'[k] = highest[k]
  BY <1>1, <1>2
<1>5. ReceivedIsMarked'
  <2>1. ASSUME NEW k \in Node, NEW d \in net, IsData(d), d.to = k, Received(k, d)
        PROVE  d.peer \notin {NoChallenge, candidate'[k].local}
               /\ (d.peer = local'[k] => d.seq \in accepted'[k])
    BY <1>4, <2>1 DEF DataInv, ReceivedIsMarked, NoCandidate
  <2>2. QED
    BY <1>1, <2>1 DEF ReceivedIsMarked, Received
<1>6. AtMostOnce'
  BY <1>1 DEF DataInv, AtMostOnce
<1>7. QED
  BY <1>1, <1>3, <1>4, <1>5, <1>6, DataFacts DEF DataInv, NoCandidate, NoChallenge

\* A candidate gets a challenge nobody has named yet, or keeps the one it has.
LEMMA CandidateData ==
  ASSUME IInv, DataInv, NEW n \in Node,
         CandidateExpired(n) \/ \E m \in net : OfferReplacement(n, m)
  PROVE  DataInv'
<1>1. /\ minted' >= minted
      /\ UNCHANGED <<sent, inbox, accepted, highest, local>>
      /\ \A k \in Node \ {n} : candidate'[k] = candidate[k]
      /\ candidate'[n].local \in {candidate[n].local, NoChallenge, minted + 1}
  <2>1. candidate \in [Node -> Candidate \cup {NoCandidate}] /\ minted \in Nat
    BY DataFacts DEF TypeOK
  <2>2. CASE CandidateExpired(n)
    BY <2>1, <2>2 DEF CandidateExpired, identity, dataState, history, NoCandidate
  <2>3. CASE \E m \in net : OfferReplacement(n, m)
    BY <2>1, <2>3 DEF OfferReplacement, identity, dataState
  <2>4. QED
    BY <2>2, <2>3
<1>2. \A m \in net' : m.peer <= minted' /\ (IsData(m) => m \in net)
  <2>1. CASE CandidateExpired(n)
    BY <2>1, DataFacts DEF CandidateExpired, history
  <2>2. ASSUME NEW m \in net, OfferReplacement(n, m)
      PROVE  \A x \in net' : x.peer <= minted' /\ (IsData(x) => x \in net)
    <3>1. m.local \in Nat /\ m.local <= minted
      BY DataFacts DEF IInv, MintedInOrder
    <3>2. \A c, x : x \in OfferTo(n, c, m.local) => x.peer = m.local /\ ~IsData(x)
      BY DEF OfferTo, IsData
    <3>3. \A x \in net' : x \in net \/ \E c : x \in OfferTo(n, c, m.local)
      BY <2>2 DEF OfferReplacement, AfterDelivery
    <3>4. ASSUME NEW x \in net' PROVE x.peer <= minted /\ (IsData(x) => x \in net)
      BY <3>1, <3>2, <3>3, DataFacts
    <3>5. minted' \in Nat
      BY <2>2, DataFacts DEF OfferReplacement
    <3>6. \A x \in net' : x.peer \in Nat
      BY <3>1, <3>2, <3>3, DataFacts
    <3>7. QED
      BY <1>1, <3>4, <3>5, <3>6, DataFacts
  <2>3. QED
    BY <2>1, <2>2
<1>3. ReceivedIsMarked'
  <2>1. ASSUME NEW k \in Node, NEW d \in net, IsData(d), d.to = k, Received(k, d)
        PROVE  d.peer \notin {NoChallenge, candidate'[k].local}
               /\ (d.peer = local'[k] => d.seq \in accepted'[k])
    <3>1. /\ d.peer \notin {NoChallenge, candidate[k].local}
          /\ d.peer = local[k] => d.seq \in accepted[k]
          /\ d.peer \in Nat /\ d.peer <= minted
      BY <2>1, DataFacts DEF DataInv, ReceivedIsMarked
    <3>2. QED
      BY <1>1, <3>1, DataFacts
  <2>2. QED
    BY <1>1, <1>2, <2>1 DEF ReceivedIsMarked, Received
<1>4. AtMostOnce'
  BY <1>1 DEF DataInv, AtMostOnce
<1>5. \A k \in Node : candidate'[k].local # local'[k]
  BY <1>1, DataFacts DEF DataInv
<1>6. QED
  BY <1>1, <1>2, <1>3, <1>4, <1>5, DataFacts DEF DataInv

\* A packet is handed up when its number is not marked: it was not handed up.
LEMMA ReceiveDataKeeps ==
  ASSUME IInv, DataInv, NEW n \in Node, NEW m \in net, ReceiveData(n, m)
  PROVE  DataInv'
<1>1. /\ net' \subseteq net /\ IsData(m) /\ m.to = n
      /\ UNCHANGED <<sent, local, candidate, minted>>
  BY DEF ReceiveData, AfterDelivery, identity, candState, IsData
<1>2. CASE UNCHANGED <<inbox, accepted, highest>>
  <2>1. NoNewData
    BY <1>1, <1>2, DataFacts DEF NoNewData
  <2>2. QED
    BY <2>1, NoNewDataKeeps, DataFacts
<1>3. CASE UnderPair(n, m) /\ Acceptable(n, m.seq)
  <2>1. /\ highest' = [highest EXCEPT ![n] = IF m.seq > @ THEN m.seq ELSE @]
        /\ accepted' = [accepted EXCEPT ![n] = @ \cup {m.seq}]
        /\ inbox' = [inbox EXCEPT ![n] = Append(@, m.id)]
    BY <1>3 DEF ReceiveData
  <2>2. /\ accepted \in [Node -> SUBSET (Nat \ {0})] /\ highest \in [Node -> Nat]
        /\ inbox \in [Node -> Seq(1..MaxPackets)]
        /\ m.seq \in Nat /\ m.id \in 1..MaxPackets /\ m.id <= sent
    BY <1>1, DataFacts, DataFields DEF TypeOK, Data, DataInv, IsData
  <2>3. m.seq \notin accepted[n] /\ m.peer = local[n]
    BY <1>3, <2>2 DEF Acceptable, UnderPair, DataInv
  <2>4. ~Received(n, m)
    BY <1>1, <2>3 DEF DataInv, ReceivedIsMarked
  <2>5. /\ Len(inbox'[n]) = Len(inbox[n]) + 1
        /\ inbox'[n][Len(inbox[n]) + 1] = m.id
        /\ \A i \in 1..Len(inbox[n]) : inbox'[n][i] = inbox[n][i]
        /\ DOMAIN inbox'[n] = 1..(Len(inbox[n]) + 1) /\ DOMAIN inbox[n] = 1..Len(inbox[n])
        /\ \A k \in Node \ {n} : inbox'[k] = inbox[k]
    BY <2>1, <2>2
  <2>6. AtMostOnce'
    <3>1. ASSUME NEW k \in Node, NEW i \in DOMAIN inbox'[k], NEW j \in DOMAIN inbox'[k],
                 inbox'[k][i] = inbox'[k][j]
          PROVE  i = j
      <4>1. AtMostOnce
        BY DEF DataInv
      <4>2. CASE k # n
        BY <2>5, <3>1, <4>1, <4>2 DEF AtMostOnce
      <4>3. CASE k = n
        <5>1. i \in 1..(Len(inbox[n]) + 1) /\ j \in 1..(Len(inbox[n]) + 1) /\ Len(inbox[n]) \in Nat
          BY <2>2, <2>5, <4>3
        <5>2. \A h \in 1..Len(inbox[n]) : inbox'[n][h] # m.id
          BY <2>4, <2>5 DEF Received
        <5>3. i \in 1..Len(inbox[n]) <=> j \in 1..Len(inbox[n])
          BY <2>5, <3>1, <4>3, <5>1, <5>2
        <5>4. CASE i \in 1..Len(inbox[n])
          BY <2>5, <3>1, <4>1, <4>3, <5>3, <5>4 DEF AtMostOnce
        <5>5. QED
          BY <5>1, <5>3, <5>4
      <4>4. QED
        BY <4>2, <4>3
    <3>2. QED
      BY <3>1 DEF AtMostOnce
  <2>7. ASSUME NEW k \in Node, NEW i \in DOMAIN inbox'[k] PROVE inbox'[k][i] <= sent
    <3>1. \A h \in DOMAIN inbox[k] : inbox[k][h] <= sent
      BY DEF DataInv
    <3>2. CASE k # n
      BY <2>5, <3>1, <3>2
    <3>3. CASE k = n
      <4>1. i \in 1..(Len(inbox[n]) + 1) /\ Len(inbox[n]) \in Nat
        BY <2>2, <2>5, <3>3
      <4>2. QED
        BY <2>2, <2>5, <3>1, <3>3, <4>1
    <3>4. QED
      BY <3>2, <3>3
  <2>8. \A k \in Node : \A s \in accepted'[k] : s <= highest'[k]
    BY <2>1, <2>2 DEF DataInv
  <2>9. ReceivedIsMarked'
    <3>1. ASSUME NEW k \in Node, NEW d \in net, IsData(d), d.to = k, Received(k, d)'
          PROVE  d.peer \notin {NoChallenge, candidate[k].local}
                 /\ (d.peer = local[k] => d.seq \in accepted'[k])
      <4>1. CASE d = m
        BY <2>1, <2>2, <2>3, <3>1, <4>1, <1>1, DataFacts DEF DataInv
      <4>2. CASE d # m
        <5>1. d.id # m.id
          BY <1>1, <3>1, <4>2 DEF DataInv
        <5>2. Received(k, d)
          BY <2>5, <3>1, <5>1 DEF Received
        <5>3. accepted[k] \subseteq accepted'[k]
          BY <2>1, <2>2
        <5>4. QED
          BY <3>1, <5>2, <5>3 DEF DataInv, ReceivedIsMarked
      <4>3. QED
        BY <4>1, <4>2
    <3>2. QED
      BY <1>1, <3>1 DEF ReceivedIsMarked
  <2>10. QED
    BY <1>1, <2>6, <2>7, <2>8, <2>9, DataFacts DEF DataInv
<1>4. QED
  BY <1>2, <1>3 DEF ReceiveData

LEMMA DataInit == Init => DataInv
BY DEF Init, DataInv, ReceivedIsMarked, AtMostOnce, Node, NoCandidate, NoChallenge

LEMMA DataNext ==
  ASSUME IInv, DataInv, [Next]_vars
  PROVE  DataInv'
<1>1. NoNewData => DataInv'
  BY NoNewDataKeeps, DataFacts
<1>2. CASE UNCHANGED vars
  BY <1>1, <1>2, DataFacts DEF vars, NoNewData
<1>3. ASSUME NEW n \in Node, NEW l \in Links,
             \/ HelloVia(n, l) \/ MarkStalled(n, l)
             \/ \E k \in {"ping", "pong"} : SendControlVia(n, l, k)
      PROVE  DataInv'
  BY <1>1, <1>3, NoNewDataLinks
<1>4. CASE HelloLoop
  BY <1>1, <1>4, NoNewDataLinks, SessionAssumption DEF Node
<1>5. ASSUME NEW n \in Node, KeepalivePing(n) \/ CandidateCooled(n) \/ \E m \in net : Lose(m)
      PROVE  DataInv'
  BY <1>1, <1>5, NoNewDataNodes
<1>6. ASSUME NEW m \in net, NEW n \in Node, Deliver(n, m) PROVE DataInv'
  <2>1. CASE AcceptHello(n, m) \/ DropHello(n, m) \/ ReceiveControl(n, m)
    BY <1>1, <2>1, NoNewDataDeliveries
  <2>2. QED
    BY <1>6, <2>1, ReplaceData, CandidateData, ReceiveDataKeeps DEF Deliver, ReceiveHello
<1>7. ASSUME NEW m \in net, Lose(m) PROVE DataInv'
  BY <1>5, <1>7 DEF Node
<1>8. CASE BoundReached
  BY <1>2, <1>8 DEF BoundReached
<1>9. QED
  <2> HIDE DEF DataInv
  <2>1. QED
    BY <1>2, <1>3, <1>4, <1>5, <1>6, <1>7, <1>8, SendDataKeeps, FreshChallengeKeeps,
       CandidateData DEF Next

\* No packet is handed up twice, whatever is delivered again and whoever starts
\* over or is replaced, for any window, any number of packets and restarts.
THEOREM OnceOnly == Spec => []AtMostOnce
<1>1. IInv /\ DataInv /\ [Next]_vars => DataInv'
  BY DataNext
<1>2. DataInv => AtMostOnce
  BY DEF DataInv
<1>3. QED
  BY DataInit, Invariant, <1>1, <1>2, PTL DEF Spec

----------------------------------------------------------------------------
(* The session goes from one client to the next.                           *)

\* What the exit may hand the session over to (receiveHello): its candidate
\* has paired with the challenge minted for it only if it is the newest
\* client, and the exit is not with that one yet.
HandoverInv ==
  /\ ~ready["exit"] => candidate["exit"] = NoCandidate
  /\ candidate["exit"].local # local["exit"]
  /\ peer["exit"] <= local["client"]
  /\ \A m \in net : m.to = "exit" => m.local <= local["client"]
  /\ \A p \in paired : p[2] <= minted
  /\ candidate["exit"] # NoCandidate =>
       \A p \in paired : p[2] = candidate["exit"].local =>
         peer["exit"] <= p[1] /\ peer["exit"] # local["client"]

\* A step that leaves the identities of both sides, and brings the exit
\* nothing of a newer client than the running one.
NoHandover ==
  /\ UNCHANGED <<local, peer, ready, candidate, paired>>
  /\ minted' >= minted
  /\ \A m \in net' : m.to = "exit" => m.local <= local["client"]

LEMMA NoHandoverKeeps ==
  ASSUME IInv, HandoverInv, NoHandover, minted' \in Nat
  PROVE  HandoverInv'
<1>1. \A p \in paired : p[2] \in Nat
  BY DEF IInv, TypeOK, Challenge, NoChallenge
<1>2. minted \in Nat
  BY SessionAssumption DEF IInv, TypeOK, Challenge
<1>3. QED
  BY <1>1, <1>2 DEF HandoverInv, NoHandover

\* What every proof below needs to know of the present state.
LEMMA HandoverFacts ==
  ASSUME IInv
  PROVE  /\ TypeOK /\ minted \in Nat /\ "client" \in Node /\ "exit" \in Node
         /\ local["client"] # NoChallenge /\ local["exit"] # NoChallenge
         /\ \A n \in Node : /\ local[n] \in Nat /\ local[n] <= minted
                            /\ peer[n] \in Nat /\ peer[n] <= minted
                            /\ candidate[n].local \in Nat /\ candidate[n].local <= minted
         /\ \A m \in net : /\ m \in Message /\ m.local \in Nat /\ m.local <= minted
                           /\ m.local # NoChallenge /\ m.peer \in Nat
         /\ \A p \in paired : p[1] \in Nat /\ p[1] <= minted /\ p[2] \in Nat
<1>1. TypeOK /\ MintedInOrder
  BY DEF IInv
<1>2. \A m \in net : m \in Message
  BY <1>1 DEF TypeOK
<1>3. ASSUME NEW n \in Node PROVE candidate[n].local \in Nat
  <2>1. candidate[n] \in Candidate \cup {NoCandidate}
    BY <1>1 DEF TypeOK
  <2>2. QED
    BY <2>1 DEF Candidate, NoCandidate, Challenge, NoChallenge
<1>4. \A n \in Node : local[n] \in Challenge /\ peer[n] \in Challenge \cup {NoChallenge}
  BY <1>1 DEF TypeOK
<1>5. \A p \in paired : p[1] \in Challenge /\ p[2] \in Challenge \cup {NoChallenge}
  BY <1>1 DEF TypeOK
<1>6. minted \in Nat
  BY <1>1, SessionAssumption DEF TypeOK, Challenge
<1>7. QED
  BY <1>1, <1>2, <1>3, <1>4, <1>5, <1>6, MessageFields
  DEF MintedInOrder, Challenge, NoChallenge, Node

\* All but the five kinds of steps below.
LEMMA NoHandoverLinks ==
  ASSUME IInv, HandoverInv, NEW n \in Node, NEW l \in Links,
         \/ HelloLoop \/ HelloVia(n, l) \/ MarkStalled(n, l) \/ SendData(n, l)
         \/ \E k \in {"ping", "pong"} : SendControlVia(n, l, k)
  PROVE  NoHandover /\ minted' = minted
<1> USE HandoverFacts DEF identity, dataState, candState, liveness, history
<1>1. ASSUME UNCHANGED <<local, peer, ready, candidate, paired, minted>>,
             \A m \in net' : \/ m \in net
                             \/ m.to = Other(n) /\ m.local = local[n]
      PROVE  NoHandover
  <2>1. Other(n) = "exit" => n = "client"
    BY DEF Other
  <2>2. QED
    BY <1>1, <2>1 DEF NoHandover, HandoverInv
<1>2. CASE HelloLoop
  BY <1>1, <1>2 DEF HelloLoop
<1>3. CASE HelloVia(n, l)
  BY <1>1, <1>3 DEF HelloVia, HelloFrom
<1>4. CASE MarkStalled(n, l)
  BY <1>1, <1>4 DEF MarkStalled
<1>5. CASE SendData(n, l)
  BY <1>1, <1>5 DEF SendData
<1>6. ASSUME NEW k \in {"ping", "pong"}, SendControlVia(n, l, k)
      PROVE  NoHandover /\ minted' = minted
  BY <1>1, <1>6 DEF SendControlVia, ControlFrom
<1>7. QED
  BY <1>2, <1>3, <1>4, <1>5, <1>6

LEMMA NoHandoverNodes ==
  ASSUME IInv, HandoverInv, NEW n \in Node,
         \/ KeepalivePing(n) \/ CandidateCooled(n) \/ \E m \in net : Lose(m)
         \/ \E m \in net : DropHello(n, m) \/ ReceiveControl(n, m) \/ ReceiveData(n, m)
  PROVE  NoHandover /\ minted' = minted
<1> USE HandoverFacts DEF identity, dataState, candState, liveness, history
<1>1. ASSUME UNCHANGED <<local, peer, ready, candidate, paired, minted>>,
             net' \subseteq net
      PROVE  NoHandover
  BY <1>1 DEF NoHandover, HandoverInv
<1>2. \A m : AfterDelivery(m) \subseteq net
  BY DEF AfterDelivery
<1>3. CASE KeepalivePing(n)
  BY <1>1, <1>3 DEF KeepalivePing
<1>4. CASE CandidateCooled(n)
  BY <1>1, <1>4 DEF CandidateCooled
<1>5. CASE \E m \in net : Lose(m)
  BY <1>1, <1>5 DEF Lose
<1>6. ASSUME NEW m \in net, DropHello(n, m) \/ ReceiveControl(n, m) \/ ReceiveData(n, m)
      PROVE  NoHandover /\ minted' = minted
  BY <1>1, <1>2, <1>6 DEF DropHello, ReceiveControl, ReceiveData
<1>7. QED
  BY <1>3, <1>4, <1>5, <1>6

\* The newest client is newer than all before it; a restarted exit is with
\* nobody.
LEMMA FreshHandover ==
  ASSUME IInv, HandoverInv, NEW n \in Node,
         KeepaliveReset(n) \/ \E p \in Offered : Restart(n, p)
  PROVE  HandoverInv'
<1> USE HandoverFacts
<1>1. /\ minted' = minted + 1 /\ local' = [local EXCEPT ![n] = minted + 1]
      /\ peer' = [peer EXCEPT ![n] = NoChallenge]
      /\ ready' = [ready EXCEPT ![n] = FALSE]
      /\ candidate' = [candidate EXCEPT ![n] = NoCandidate]
      /\ UNCHANGED <<net, paired>>
  BY DEF KeepaliveReset, Restart, NextChallenge
<1>2. /\ local \in [Node -> Challenge] /\ candidate \in [Node -> Candidate \cup {NoCandidate}]
      /\ peer \in [Node -> Challenge \cup {NoChallenge}] /\ ready \in [Node -> BOOLEAN]
  BY DEF TypeOK
<1>3. CASE n = "client"
  <2>1. /\ local'["client"] = minted + 1 /\ local'["exit"] = local["exit"]
        /\ peer'["exit"] = peer["exit"] /\ ready'["exit"] = ready["exit"]
        /\ candidate'["exit"] = candidate["exit"]
    BY <1>1, <1>2, <1>3
  <2>2. QED
    BY <1>1, <2>1 DEF HandoverInv
<1>4. CASE n = "exit"
  <2>1. /\ local'["exit"] = minted + 1 /\ local'["client"] = local["client"]
        /\ peer'["exit"] = NoChallenge /\ ready'["exit"] = FALSE
        /\ candidate'["exit"] = NoCandidate
    BY <1>1, <1>2, <1>4
  <2>2. QED
    BY <1>1, <2>1 DEF HandoverInv, NoCandidate, NoChallenge
<1>5. QED
  BY <1>3, <1>4 DEF Node

\* Being ready with the exit's peer, the client answers nobody else.
LEMMA AcceptHandover ==
  ASSUME IInv, HandoverInv, NEW n \in Node, NEW m \in net, AcceptHello(n, m)
  PROVE  HandoverInv'
<1> USE HandoverFacts
<1>1. /\ UNCHANGED <<local, candidate, minted>> /\ net' \subseteq net
      /\ peer' = [peer EXCEPT ![n] = m.local]
      /\ ready' = [ready EXCEPT ![n] = @ \/ Echoes(n, m)]
      /\ ready[n] => m.local = peer[n]
      /\ m.to = n
      /\ paired' = IF ready[n] \/ Echoes(n, m) THEN PairedWith(n, local[n], m.local)
                                              ELSE paired
  BY DEF AcceptHello, candState, AfterDelivery
<1>2. peer \in [Node -> Challenge \cup {NoChallenge}] /\ ready \in [Node -> BOOLEAN]
  BY DEF TypeOK
<1>3. CASE n = "exit"
  <2>1. paired' = paired /\ peer'["exit"] = m.local /\ m.local <= local["client"]
    BY <1>1, <1>2, <1>3 DEF PairedWith, HandoverInv
  <2>2. ready["exit"] => peer'["exit"] = peer["exit"]
    BY <1>1, <1>3, <2>1
  <2>3. ready'["exit"] = ready["exit"] \/ candidate["exit"] = NoCandidate
    BY <1>1, <1>2, <1>3 DEF HandoverInv
  <2>4. QED
    BY <1>1, <1>2, <2>1, <2>2, <2>3 DEF HandoverInv
<1>4. CASE n = "client"
  <2>1. peer'["exit"] = peer["exit"] /\ ready'["exit"] = ready["exit"]
    BY <1>1, <1>2, <1>4
  <2>2. \A p \in paired' : p \in paired \/ p = <<local["client"], m.local>>
    BY <1>1, <1>4 DEF PairedWith
  <2>3. ASSUME candidate["exit"] # NoCandidate, m.local = candidate["exit"].local
        PROVE  peer["exit"] # local["client"]
    <3>1. SUFFICES ASSUME peer["exit"] = local["client"] PROVE FALSE
      OBVIOUS
    <3>2. <<local["client"], local["exit"]>> \in paired
      BY <2>3, <3>1 DEF HandoverInv, IInv, ExitConfirmed
    <3>3. ready["client"] /\ peer["client"] = local["exit"]
      BY <3>2 DEF IInv, ClientStays
    <3>4. QED
      BY <1>1, <1>4, <2>3, <3>3 DEF HandoverInv
  <2>4. QED
    BY <1>1, <2>1, <2>2, <2>3 DEF HandoverInv
<1>5. QED
  BY <1>3, <1>4 DEF Node

\* Taking the session over uses the candidate up.
LEMMA ReplaceHandover ==
  ASSUME IInv, HandoverInv, NEW n \in Node, NEW m \in net, ReplacePeer(n, m)
  PROVE  HandoverInv' /\ n = "exit"
<1> USE HandoverFacts
<1>1. /\ candidate[n] # NoCandidate /\ m.to = n
      /\ local' = [local EXCEPT ![n] = candidate[n].local]
      /\ peer' = [peer EXCEPT ![n] = m.local]
      /\ candidate' = [candidate EXCEPT ![n] = NoCandidate]
      /\ paired' = PairedWith(n, candidate[n].local, m.local)
      /\ net' \subseteq net /\ UNCHANGED <<ready, minted>>
  BY DEF ReplacePeer, CandidateEchoes, AfterDelivery
<1>2. n = "exit"
  BY <1>1 DEF IInv, OnlyClientOpens, Node
<1>3. /\ local \in [Node -> Challenge] /\ candidate \in [Node -> Candidate \cup {NoCandidate}]
      /\ peer \in [Node -> Challenge \cup {NoChallenge}]
  BY DEF TypeOK
<1>4. candidate["exit"].local # NoChallenge
  BY <1>1, <1>2, <1>3 DEF Candidate, Challenge, NoChallenge
<1>5. /\ paired' = paired /\ local'["client"] = local["client"]
      /\ local'["exit"] = candidate["exit"].local
      /\ peer'["exit"] = m.local /\ candidate'["exit"] = NoCandidate
  BY <1>1, <1>2, <1>3 DEF PairedWith
<1>6. HandoverInv'
  BY <1>1, <1>2, <1>4, <1>5 DEF HandoverInv, NoCandidate
<1>7. QED
  BY <1>2, <1>6

\* Nobody has paired with a challenge that was just minted.
LEMMA OfferHandover ==
  ASSUME IInv, HandoverInv, NEW n \in Node, NEW m \in net, m.kind = "hello",
         OfferReplacement(n, m)
  PROVE  HandoverInv'
<1> USE HandoverFacts
<1>1. m.to = n /\ m.peer = NoChallenge /\ ready[n]
  BY DEF OfferReplacement, Unlinked
<1>2. n = "exit"
  BY <1>1 DEF IInv, OnlyClientOpens, IsHello, Node
<1>3. UNCHANGED <<local, peer, ready, paired>>
  BY DEF OfferReplacement, identity
<1>4. \A x \in net' : x \in net \/ x.to = "client"
  <2>1. \A c, x : x \in OfferTo(n, c, m.local) => x.to = "client"
    BY <1>2 DEF OfferTo, Other
  <2>2. QED
    BY <2>1 DEF OfferReplacement, AfterDelivery
<1>5. \/ candidate' = candidate /\ minted' = minted
      \/ /\ minted' = minted + 1
         /\ candidate'["exit"].local = minted + 1
  BY <1>2 DEF OfferReplacement, TypeOK
<1>6. QED
  BY <1>1, <1>2, <1>3, <1>4, <1>5 DEF HandoverInv

LEMMA ExpiryHandover ==
  ASSUME IInv, HandoverInv, NEW n \in Node, CandidateExpired(n)
  PROVE  HandoverInv'
<1> USE HandoverFacts
<1>1. /\ candidate' = [candidate EXCEPT ![n] = NoCandidate]
      /\ UNCHANGED <<local, peer, ready, paired, minted, net>>
  BY DEF CandidateExpired, identity, history
<1>2. candidate'["exit"] \in {candidate["exit"], NoCandidate}
  BY <1>1 DEF TypeOK
<1>3. QED
  BY <1>1, <1>2 DEF HandoverInv, NoCandidate

LEMMA HandoverInit == Init => HandoverInv
BY DEF Init, HandoverInv, Node, NoCandidate, NoChallenge

LEMMA HandoverNext ==
  ASSUME IInv, HandoverInv, [Next]_vars
  PROVE  HandoverInv'
<1>1. NoHandover /\ minted' = minted => HandoverInv'
  BY NoHandoverKeeps, HandoverFacts
<1>2. CASE UNCHANGED vars
  BY <1>1, <1>2, HandoverFacts DEF vars, NoHandover, HandoverInv
<1>3. ASSUME NEW n \in Node, NEW l \in Links,
             \/ HelloLoop \/ HelloVia(n, l) \/ MarkStalled(n, l) \/ SendData(n, l)
             \/ \E k \in {"ping", "pong"} : SendControlVia(n, l, k)
      PROVE  HandoverInv'
  BY <1>1, <1>3, NoHandoverLinks
<1>4. CASE HelloLoop
  BY <1>3, <1>4, SessionAssumption DEF Node
<1>5. ASSUME NEW n \in Node,
             \/ KeepalivePing(n) \/ CandidateCooled(n) \/ \E m \in net : Lose(m)
             \/ \E m \in net : DropHello(n, m) \/ ReceiveControl(n, m) \/ ReceiveData(n, m)
      PROVE  HandoverInv'
  BY <1>1, <1>5, NoHandoverNodes
<1>6. ASSUME NEW m \in net, NEW n \in Node, Deliver(n, m) PROVE HandoverInv'
  BY <1>5, <1>6, AcceptHandover, ReplaceHandover, OfferHandover DEF Deliver, ReceiveHello
<1>7. ASSUME NEW m \in net, Lose(m) PROVE HandoverInv'
  BY <1>5, <1>7 DEF Node
<1>8. CASE BoundReached
  BY <1>2, <1>8 DEF BoundReached
<1>9. QED
  <2> HIDE DEF HandoverInv
  <2>1. QED
    BY <1>2, <1>3, <1>4, <1>5, <1>6, <1>7, <1>8, FreshHandover, ExpiryHandover DEF Next

\* Who ends the session of the exit with the running client.
LEMMA PeerSteps ==
  ASSUME IInv, HandoverInv, [Next]_vars
  PROVE  \/ local'["exit"] = local["exit"] /\ (ready["exit"] =>
                ready'["exit"] /\ peer'["exit"] = peer["exit"])
         \/ restarts' # restarts /\ ~ready'["exit"]
         \/ \E m \in net : ReplacePeer("exit", m) /\ IsHello(m)
<1> USE HandoverFacts
<1> USE DEF identity, dataState, candState, liveness, history
<1>1. ASSUME NEW n \in Node, NEW p \in Offered, Restart(n, p)
      PROVE  \/ restarts' # restarts /\ ~ready'["exit"]
             \/ local'["exit"] = local["exit"] /\ (ready["exit"] =>
                  ready'["exit"] /\ peer'["exit"] = peer["exit"])
  BY <1>1 DEF Restart, TypeOK, Node
<1>2. ASSUME NEW n \in Node, KeepaliveReset(n)
      PROVE  UNCHANGED <<local["exit"], ready["exit"], peer["exit"]>>
  BY <1>2 DEF KeepaliveReset, TypeOK, Node
<1>3. ASSUME NEW n \in Node, NEW m \in net, IsHello(m), AcceptHello(n, m)
      PROVE  local' = local /\ (ready["exit"] => ready'["exit"] /\ peer'["exit"] = peer["exit"])
  BY <1>3 DEF AcceptHello, TypeOK, Node
<1>4. ASSUME NEW n \in Node, NEW m \in net, IsHello(m), ReplacePeer(n, m)
      PROVE  n = "exit"
  BY <1>4, ReplaceHandover
<1>5. ASSUME NEW n \in Node, NEW m \in net, OfferReplacement(n, m)
      PROVE  UNCHANGED <<local, ready, peer>>
  BY <1>5 DEF OfferReplacement
<1>6. ASSUME NoHandover PROVE UNCHANGED <<local, ready, peer>>
  BY <1>6 DEF NoHandover
<1>7. ASSUME NEW n \in Node, NEW m \in net, Deliver(n, m)
      PROVE  \/ local'["exit"] = local["exit"] /\ (ready["exit"] =>
                  ready'["exit"] /\ peer'["exit"] = peer["exit"])
             \/ \E x \in net : ReplacePeer("exit", x) /\ IsHello(x)
  BY <1>3, <1>4, <1>5, <1>6, <1>7, NoHandoverNodes DEF Deliver, ReceiveHello, IsHello
<1>8. ASSUME NEW n \in Node, CandidateExpired(n)
      PROVE  UNCHANGED <<local, ready, peer>>
  BY <1>8 DEF CandidateExpired
<1>9. CASE UNCHANGED vars
  BY <1>9 DEF vars
<1>10. CASE HelloLoop \/ BoundReached
  BY <1>10 DEF HelloLoop, BoundReached, vars
<1>11. ASSUME NEW n \in Node, NEW l \in Links,
             \/ HelloVia(n, l) \/ MarkStalled(n, l) \/ SendData(n, l)
             \/ \E k \in {"ping", "pong"} : SendControlVia(n, l, k)
       PROVE  UNCHANGED <<local, ready, peer>>
  BY <1>6, <1>11, NoHandoverLinks
<1>12. ASSUME NEW n \in Node,
             KeepalivePing(n) \/ CandidateCooled(n) \/ \E m \in net : Lose(m)
       PROVE  UNCHANGED <<local, ready, peer>>
  BY <1>6, <1>12, NoHandoverNodes
<1>13. ASSUME NEW m \in net, Lose(m) PROVE UNCHANGED <<local, ready, peer>>
  BY <1>12, <1>13
<1>14. QED
  <2> HIDE DEF identity, dataState, candState, liveness, history
  <2>1. QED
    BY <1>1, <1>2, <1>7, <1>8, <1>9, <1>10, <1>11, <1>12, <1>13 DEF Next

\* The candidate that takes over has paired with the exit's new challenge.
LEMMA CandidatePaired ==
  ASSUME IInv, HandoverInv, NEW m \in net, IsHello(m), ReplacePeer("exit", m)
  PROVE  /\ ready["exit"] /\ peer'["exit"] = m.local
         /\ peer["exit"] <= m.local /\ peer["exit"] # local["client"]
<1>1. /\ m.to = "exit" /\ ready["exit"] /\ candidate["exit"] # NoCandidate
      /\ candidate["exit"].local = m.peer
      /\ peer' = [peer EXCEPT !["exit"] = m.local]
  BY DEF ReplacePeer, CandidateEchoes
<1>2. m.peer # NoChallenge
  <2>1. candidate["exit"] \in Candidate \cup {NoCandidate}
    BY HandoverFacts DEF TypeOK
  <2>2. QED
    BY <1>1, <2>1 DEF Candidate, Challenge, NoChallenge
<1>3. <<m.local, m.peer>> \in paired
  BY <1>1, <1>2 DEF IInv, EchoesArePaired
<1>4. peer'["exit"] = m.local
  BY <1>1, HandoverFacts DEF TypeOK
<1>5. QED
  BY <1>1, <1>3, <1>4 DEF HandoverInv

\* Nothing but a restart or the client itself ends a session both sides have.
THEOREM Undisplaced == Spec => NotDisplaced
<1>1. ASSUME IInv, HandoverInv, [Next]_vars, Paired, ~Paired'
      PROVE  restarts' # restarts \/ local'["client"] # local["client"]
  <2>1. SUFFICES ASSUME restarts' = restarts, local'["client"] = local["client"]
                 PROVE  FALSE
    OBVIOUS
  <2>2. IInv'
    BY <1>1, InvNext
  <2>3. /\ ready["client"] /\ ready["exit"] /\ peer["client"] = local["exit"]
        /\ peer["exit"] = local["client"]
    BY <1>1 DEF Paired
  <2>4. ~\E m \in net : ReplacePeer("exit", m) /\ IsHello(m)
    BY <1>1, <2>3, CandidatePaired
  <2>5. local'["exit"] = local["exit"] /\ ready'["exit"] /\ peer'["exit"] = peer["exit"]
    BY <1>1, <2>1, <2>3, <2>4, PeerSteps
  <2>6. <<local'["client"], local'["exit"]>> \in paired'
    BY <2>1, <2>2, <2>3, <2>5 DEF IInv, ExitConfirmed
  <2>7. ready'["client"] /\ peer'["client"] = local'["exit"]
    BY <2>2, <2>6 DEF IInv, ClientStays
  <2>8. QED
    BY <1>1, <2>1, <2>3, <2>5, <2>7 DEF Paired
<1>2. IInv /\ HandoverInv /\ [Next]_vars => HandoverInv'
  BY HandoverNext
<1>3. IInv /\ HandoverInv /\ [Next]_vars =>
        [Paired /\ ~Paired' => restarts' # restarts
                               \/ local'["client"] # local["client"]]_vars
  BY <1>1
<1>4. QED
  BY HandoverInit, Invariant, <1>2, <1>3, PTL DEF Spec, NotDisplaced

\* While it stays established the exit goes to newer clients only.
THEOREM Forward == Spec => NeverBack
<1>1. ASSUME IInv, HandoverInv, [Next]_vars, ready["exit"], ready'["exit"]
      PROVE  peer'["exit"] >= peer["exit"]
  BY <1>1, PeerSteps, CandidatePaired, HandoverFacts
<1>2. IInv /\ HandoverInv /\ [Next]_vars => HandoverInv'
  BY HandoverNext
<1>3. IInv /\ HandoverInv /\ [Next]_vars =>
        [ready["exit"] /\ ready'["exit"] => peer'["exit"] >= peer["exit"]]_vars
  BY <1>1
<1>4. QED
  BY HandoverInit, Invariant, <1>2, <1>3, PTL DEF Spec, NeverBack
=============================================================================
