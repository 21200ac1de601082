------------------------------ MODULE MCHelper ------------------------------
(* The helper, the framing of its classic mode, the connections it serves  *)
(* and the cookies it keeps, checked side by side: a behaviour is about    *)
(* one of them (topic), the others stay as they are.                       *)
EXTENDS Helper, Codec, Batching, Relay, CookieStore

CONSTANT Topics

VARIABLE topic

framing == <<codecVars, batchVars>>
ownVars == <<relayVars, storeVars>>
topicVars == <<topic, helperVars, framing, ownVars>>

\* The pairs of peers that have a framing in common or find one.
MCPairs == {pair \in CodecKinds \X CodecKinds : "codec" \in {pair[1], pair[2]} \/ pair[1] = pair[2]}

\* What was not chosen begins in one way only.
TopicInit ==
    /\ topic \in Topics /\ HelperInit /\ CodecInit /\ BatchingInit /\ RelayInit /\ StoreInit
    /\ topic # "helper" => mode = "off"
    /\ topic # "codec" => \A s \in Speakers : codecKind[s] = "batched" /\ codecState[s].batchNow = "batched"
    /\ topic # "batching" => batchKind = "batched"

TopicNext ==
    \/ topic = "helper" /\ HelperNext /\ UNCHANGED <<topic, framing, ownVars>>
    \/ topic = "codec" /\ CodecNext /\ UNCHANGED <<topic, helperVars, batchVars, ownVars>>
    \/ topic = "batching" /\ BatchingNext /\ UNCHANGED <<topic, helperVars, codecVars, ownVars>>
    \/ topic = "relay" /\ RelayNext /\ UNCHANGED <<topic, helperVars, framing, storeVars>>
    \/ topic = "store" /\ StoreNext /\ UNCHANGED <<topic, helperVars, framing, relayVars>>

\* The fairness of each, in the behaviours that are about it.
TopicSpec ==
    /\ TopicInit /\ [][TopicNext]_topicVars
    /\ WF_helperVars(topic = "helper" /\ Poll)
    /\ \A s \in Solvers : WF_helperVars(topic = "helper" /\ SolverMoves(s))
    /\ WF_codecVars(topic = "codec" /\ CodecClock)
    /\ \A s \in Speakers :
         /\ WF_codecVars(topic = "codec" /\ CodecSends(s))
         /\ \A f \in Framings : SF_codecVars(topic = "codec" /\ CodecReceives(s, f))
    /\ WF_batchVars(topic = "batching" /\ Flushes)
    /\ \A c \in Conns :
         /\ WF_relayVars(topic = "relay" /\ DialGoesOn(c))
         /\ WF_relayVars(topic = "relay" /\ HelperGoesOn(c))
         /\ WF_relayVars(topic = "relay" /\ ExitGoesOn(c))
         /\ \A d \in {"up", "down"} : WF_relayVars(topic = "relay" /\ SilenceIdles(c, d))
----------------------------------------------------------------------------
\* The type invariants of the five.
TopicTypesOK == HelperTypeOK /\ CodecTypeOK /\ BatchingTypeOK /\ RelayTypeOK /\ StoreTypeOK

\* SlotsMatchFlows and EndsAreHonest of Relay, CrashKeepsJar of CookieStore: the limit of the exit
\* (exitTCPSemaphore) is given back on every path, relayBidi passes no error of the tunnel for a
\* regular end, and a crash leaves the jar that was last saved.
NothingIsLeftBroken == SlotsMatchFlows /\ EndsAreHonest /\ CrashKeepsJar

\* WaitsEnd of Helper, Flushed of Batching, Understood of Codec and GoneIsCleanedUp of Relay, each
\* in the behaviours that are about it: a person, a carrier, a packet or a silent target is not
\* waited for without end, and two peers do not go on in framings the other one cannot read.
EveryWaitEnds ==
    /\ topic = "helper" => WaitsEnd
    /\ topic = "batching" => Flushed
    /\ topic = "codec" => Understood
    /\ topic = "relay" => GoneIsCleanedUp
=============================================================================
