----------------------------- MODULE MCRecovery -----------------------------
(* Carriers that must get back on their feet, checked side by side: a      *)
(* behaviour is about one of them (about), the others stay as they are.    *)
EXTENDS CupsRooms, Telemost, TelemostGroup, Direct

CONSTANT Recovering

VARIABLE about

baseVars == <<running, connected>>
cupsOwn == <<cupsStage, cupsClient, cupsList, cupsCancelled, room, cupsServer, calm>>
tmOwn == <<tmSocket, tmMedia, tmStop, tmCalm>>
recoveryVars == <<about, baseVars, cupsOwn, tmOwn, groupVars, directVars>>

\* A component that was not chosen begins in one way only.
RecoveryInit ==
    /\ about \in Recovering
    /\ CupsInit /\ TelemostInit /\ GroupInit /\ DirectInit
    /\ about # "cups" => cupsClient

RecoveryNext ==
    /\ UNCHANGED about
    /\ \/ about = "cups" /\ CupsNext /\ UNCHANGED <<tmOwn, groupVars, directVars>>
       \/ about = "telemost" /\ TelemostNext /\ UNCHANGED <<cupsOwn, groupVars, directVars>>
       \/ about = "group" /\ GroupNext /\ UNCHANGED <<baseVars, cupsOwn, tmOwn, directVars>>
       \/ about = "direct" /\ DirectNext /\ UNCHANGED <<baseVars, cupsOwn, tmOwn, groupVars>>

\* The fairness of each component, about the one that was chosen.
RecoverySpec ==
    /\ RecoveryInit /\ [][RecoveryNext]_recoveryVars
    /\ \A r \in Rooms : WF_cupsVars(about = "cups" /\ RunMoves(r))
    /\ WF_tmVars(about = "telemost" /\ TmChainMoves)
    /\ \A c \in Recomputers : WF_groupVars(about = "group" /\ Recompute(c))
    /\ \A r \in RoomReaders : WF_groupVars(about = "group" /\ Describe(r))
    /\ \A p \in RoomPeer : SF_groupVars(about = "group" /\ SilenceEnds(p))
    /\ WF_groupVars(about = "group" /\ AddLane)
    /\ WF_groupVars(about = "group" /\ GhostFound)
    /\ WF_groupVars(about = "group" /\ PeerSettles)
    /\ WF_directVars(about = "direct" /\ AcceptLoop)
    /\ WF_directVars(about = "direct" /\ (CloseListener \/ ExitDisconnected))
----------------------------------------------------------------------------
\* The type invariants of the components.
RecoveryTypesOK == CupsTypeOK /\ TelemostTypeOK /\ GroupTypeOK /\ DirectTypeOK

\* OneSocket and ReadyMeansUp of Telemost: what the goroutines of a call that is over leave
\* behind does not last.
OneCall == OneSocket /\ ReadyMeansUp

\* Whatever happened before, each is in the end where it should be: RoomsComeBack of CupsRooms,
\* TmComesBack of Telemost, StopEndsServing of Direct and GroupServes of TelemostGroup, each in
\* the behaviours that are about it.
WaitedFor ==
    \/ about = "cups" /\ RoomsCalm
    \/ about = "telemost" /\ tmCalm
    \/ about = "direct" /\ StopSeen
HasCome ==
    \/ about = "cups" /\ RoomsUp
    \/ about = "telemost" /\ connected
    \/ about = "direct" /\ ServingEnded
ComesBack ==
    /\ WaitedFor ~> HasCome
    /\ about = "group" => GroupServes
=============================================================================
