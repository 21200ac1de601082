----------------------------- MODULE MCCarriers -----------------------------
(* The carriers, checked side by side: a behaviour is about one of them    *)
(* (carrier), or about one way of a carrier's packets; the others stay as  *)
(* they are.                                                               *)
EXTENDS YandexDocs, Volga, VolgaRelay, Boards, Mailru, Mts, CupsStream, OneMe, TelemostFrames

CONSTANT Carriers

VARIABLE carrier

baseVars == <<running, connected>>
docsOwn == <<stopping, loop, sockets, waits, calls, cookies>>
boardsOwn == <<boardsEnd, boardsLoop, boardsLink, boardsWaiting, boardsJar, boardsFault>>
mailOwn == <<chain, mailLink, reconnecting, mailCalls>>
mtsOwn == <<mtsStopping, mtsLoop, mtsLink, mtsWaiting, mtsSending>>
carriersVars ==
    <<carrier, baseVars, docsOwn, volgaVars, relayVars, boardsOwn, mailOwn, mtsOwn, streamVars,
      oneMeVars, tmFrameVars>>

\* A carrier that was not chosen begins in one way only.
CarriersInit ==
    /\ carrier \in Carriers /\ Started
    /\ DocsInit /\ VolgaInit /\ VolgaRelayInit /\ BoardsInit /\ MailruInit /\ MtsInit
    /\ StreamInit /\ OneMeInit /\ TmFramesInit
    /\ carrier # "mailru" => ~mayApply
    /\ carrier # "stream" => garbage = 0
    /\ carrier # "frames" => ~tmAudio

Stays(names, own) == IF carrier \in names THEN TRUE ELSE UNCHANGED own

CarriersNext ==
    /\ UNCHANGED carrier
    /\ Stays({"docs", "boards", "mailru", "mts"}, baseVars)
    /\ Stays({"docs"}, docsOwn) /\ Stays({"volga"}, volgaVars) /\ Stays({"relay"}, relayVars)
    /\ Stays({"boards"}, boardsOwn) /\ Stays({"mailru"}, mailOwn) /\ Stays({"mts"}, mtsOwn)
    /\ Stays({"stream"}, streamVars) /\ Stays({"oneme"}, oneMeVars)
    /\ Stays({"frames"}, tmFrameVars)
    /\ \/ carrier = "docs" /\ DocsNext
       \/ carrier = "volga" /\ VolgaNext
       \/ carrier = "relay" /\ VolgaRelayNext
       \/ carrier = "boards" /\ BoardsNext
       \/ carrier = "mailru" /\ MailruNext
       \/ carrier = "mts" /\ MtsNext
       \/ carrier = "stream" /\ StreamNext
       \/ carrier = "oneme" /\ OneMeNext
       \/ carrier = "frames" /\ TmFramesNext

CarriersSpec == CarriersInit /\ [][CarriersNext]_carriersVars
----------------------------------------------------------------------------
\* The type invariants of the modules.
CarriersTypesOK ==
    /\ DocsTypeOK /\ VolgaTypeOK /\ VolgaRelayTypeOK /\ BoardsTypeOK /\ MailruTypeOK
    /\ MtsTypeOK /\ StreamTypeOK /\ OneMeTypeOK /\ TmFramesTypeOK

\* No channel is closed twice and none is used once it is closed, either of which would end the
\* process (WakesOnce of YandexDocs, NoSendOnClosed of VolgaRelay and their like).
ChannelsSafe == WakesOnce /\ BoardsWakesOnce /\ MtsWakesOnce /\ NoSendOnClosed

\* What the program holds for its session is one that is served, by one writer and until it is
\* stopped (OneWriter, ShownIsServed, MtsShownIsServed, StoppedIsDeaf).
SessionIsServed ==
    /\ OneWriter /\ ShownIsServed /\ MtsShownIsServed
    /\ StoppedIsDeaf

\* There is always a goroutine that will connect again (SomeChainLives of Mailru, DeadIsNoticed
\* of OneMe).
SomebodyConnects == SomeChainLives /\ DeadIsNoticed

\* What is handed on is what one sender sent in one piece (MembersApart of CupsStream,
\* HandedWhole of TelemostFrames).
HandedAsSent == MembersApart /\ HandedWhole

\* No packet comes twice, and one that could be handed on is not forgotten (RelayedOnce of
\* VolgaRelay, MtsAccounted, OrderIsNoMatter of TelemostFrames).
PacketsAccounted == RelayedOnce /\ MtsAccounted /\ OrderIsNoMatter

\* The promise of Carrier, kept by every carrier that reports what becomes of its attempts.  The
\* two chains of a mailru carrier whose cookies are applied have no order to report in.
Speaks == carrier \in {"docs", "boards", "mts"} \/ (carrier = "mailru" /\ ~mayApply)
SpokenPhase ==
    IF ~Speaks THEN "trying"
    ELSE CASE carrier = "docs" -> Phase
           [] carrier = "boards" -> BoardsPhase
           [] carrier = "mts" -> MtsPhase
           [] carrier = "mailru" -> MailruPhase
Spoken == INSTANCE Carrier WITH phase <- SpokenPhase, connected <- Speaks /\ connected
CarriersKeepOrder == Spoken!CarrierSpec
=============================================================================
