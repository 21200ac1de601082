------------------------------ MODULE CupsRooms -----------------------------
(***************************************************************************)
(* The rooms of the cups.online carrier (transport/cupsonline): each is    *)
(* entered for tokens, then connected with them, and kept up by a          *)
(* goroutine of its own until the carrier is stopped.  The server closes   *)
(* and reopens rooms, lets tokens expire, and turns expired ones down with *)
(* an error or by hanging up; at some time it is calm from then on.        *)
(***************************************************************************)
EXTENDS BaseTransport, Naturals, FiniteSets

CONSTANTS
    Rooms,      \* the slots of the carrier
    DeadAfter   \* failed attempts in a row that make a room look closed (roomDeadAfterFails)

ASSUME CupsAssumption == DeadAfter \in Nat \ {0}

VARIABLES
    cupsStage,   \* how far Start is
    cupsClient,  \* the role; fixed
    cupsList,    \* the list of rooms the peer is told (roomList)
    cupsCancelled, \* the context is cancelled
    room,        \* the channel of each room (cupsWS)
    cupsServer,  \* whether each room exists, and whether the tokens given out are good
    calm         \* the server, the network and the callers are quiet from now on

cupsCarrier == <<running, connected, cupsStage, cupsClient, cupsList>>
cupsVars == <<cupsCarrier, cupsCancelled, room, cupsServer, calm>>

\* tokens: none, or those of the last join.  fails: attempts in a row that did not come up,
\* counted past DeadAfter by their parity only.
Room ==
    [at : {"off", "top", "joining", "dialing", "handshake", "ready", "waiting", "ended"},
     needJoin : BOOLEAN, dead : BOOLEAN, tokens : BOOLEAN, fails : 0..DeadAfter + 2]

CupsTypeOK ==
    /\ cupsStage \in {"entering", "started", "failed"} /\ cupsClient \in BOOLEAN
    /\ cupsList \in {"none", "given", "new"} /\ cupsCancelled \in BOOLEAN
    /\ room \in [Rooms -> Room] /\ cupsServer \in [Rooms -> [exists : BOOLEAN, good : BOOLEAN]]
    /\ calm \in BOOLEAN
    /\ \A r \in Rooms : room[r].at \in {"dialing", "handshake", "ready"} => room[r].tokens

\* Start was called with a list of rooms.
CupsInit ==
    /\ cupsStage = "entering" /\ cupsClient \in BOOLEAN /\ cupsList = "none"
    /\ cupsCancelled = FALSE /\ calm = FALSE
    /\ room = [r \in Rooms |->
           [at |-> "off", needJoin |-> FALSE, dead |-> FALSE, tokens |-> FALSE, fails |-> 0]]
    /\ cupsServer = [r \in Rooms |-> [exists |-> TRUE, good |-> FALSE]]
----------------------------------------------------------------------------
(* Start: the rooms are entered all at once *)

\* authorize gives each room an answer of its own.
Entered(answer, r) ==
    /\ answer[r] = "joined" => cupsServer[r].exists
    /\ answer[r] = "gone" => ~cupsServer[r].exists
    /\ answer[r] = "silent" => ~calm

Channel(answer, r) ==
    [at |-> "top", needJoin |-> answer[r] # "joined", dead |-> answer[r] = "gone",
     tokens |-> answer[r] = "joined", fails |-> 0]

Launch(answer, list) ==
    /\ cupsStage' = "started" /\ connected' = TRUE /\ cupsList' = list
    /\ room' = [r \in Rooms |-> Channel(answer, r)]
    /\ cupsServer' = [r \in Rooms |-> [exists |-> answer[r] = "joined" \/ cupsServer[r].exists,
                                       good |-> answer[r] = "joined"]]
    /\ UNCHANGED <<running, cupsClient, cupsCancelled, calm>>

Aborts ==
    /\ cupsStage' = "failed"
    /\ UNCHANGED <<running, connected, cupsClient, cupsList, cupsCancelled, room, cupsServer, calm>>

\* One room that was entered is enough.  With none an exit makes new ones if all are gone;
\* anyone else gives up, so that the list stays what it is.
EnterRooms ==
    /\ cupsStage = "entering"
    /\ \/ cupsCancelled /\ Aborts
       \/ \E answer \in [Rooms -> {"joined", "gone", "silent"}] :
            /\ \A r \in Rooms : Entered(answer, r)
            /\ \/ (\E r \in Rooms : answer[r] = "joined") /\ Launch(answer, "given")
               \/ /\ \A r \in Rooms : answer[r] = "gone"
                  /\ IF cupsClient THEN Aborts ELSE Launch([r \in Rooms |-> "joined"], "new")
               \/ /\ \A r \in Rooms : answer[r] # "joined"
                  /\ \E r \in Rooms : answer[r] = "silent"
                  /\ Aborts
----------------------------------------------------------------------------
(* cupsWS.run *)

RoomGoes(r, new) ==
    /\ room' = [room EXCEPT ![r] = new]
    /\ UNCHANGED <<cupsCarrier, cupsCancelled, calm>>

\* Mutant: a room that looks closed is not joined any more.
JoinsIfAlive(r) == room[r].needJoin /\ ~room[r].dead
MustJoin(r) == room[r].needJoin \/ room[r].dead

RoomTop(r) ==
    /\ room[r].at = "top"
    /\ RoomGoes(r, [room[r] EXCEPT !.at = IF cupsCancelled THEN "ended"
                                          ELSE IF MustJoin(r) THEN "joining" ELSE "dialing"])
    /\ UNCHANGED cupsServer

\* join brings fresh tokens, or the room shows itself closed, or it fails.
Join(r) ==
    /\ room[r].at = "joining" /\ cupsServer[r].exists
    /\ RoomGoes(r, [room[r] EXCEPT !.at = "dialing", !.needJoin = FALSE, !.tokens = TRUE])
    /\ cupsServer' = [cupsServer EXCEPT ![r].good = TRUE]

JoinFails(r) ==
    /\ room[r].at = "joining" /\ (~calm \/ ~cupsServer[r].exists \/ cupsCancelled)
    /\ RoomGoes(r, [room[r] EXCEPT !.at = "waiting", !.dead = @ \/ ~cupsServer[r].exists])
    /\ UNCHANGED cupsServer

RoomDials(r) ==
    /\ room[r].at = "dialing" /\ ~cupsCancelled
    /\ RoomGoes(r, [room[r] EXCEPT !.at = "handshake"])
    /\ UNCHANGED cupsServer

\* Connect and subscribe are accepted with good tokens only: markAlive.
Subscribed(r) ==
    /\ room[r].at = "handshake" /\ cupsServer[r] = [exists |-> TRUE, good |-> TRUE]
    /\ RoomGoes(r, [room[r] EXCEPT !.at = "ready", !.dead = FALSE])
    /\ UNCHANGED cupsServer

NextFails(n) == IF n < DeadAfter + 2 THEN n + 1 ELSE DeadAfter + 1
Even(n) == n % 2 = 0

\* An attempt fails before the channel is up.  Tokens that were turned down are renewed, and
\* every other time whatever the reason was.
NotReady(r) ==
    /\ room[r].at \in {"dialing", "handshake"}
    /\ ~calm \/ cupsCancelled \/ (room[r].at = "handshake" /\ cupsServer[r] # [exists |-> TRUE, good |-> TRUE])
    /\ LET n == NextFails(room[r].fails)
       IN  \E refused \in {FALSE} \cup {room[r].at = "handshake"} :
             RoomGoes(r, [room[r] EXCEPT !.at = IF cupsCancelled THEN "ended" ELSE "waiting",
                                         !.fails = n, !.dead = @ \/ n = DeadAfter,
                                         !.needJoin = refused \/ Even(n)])
    /\ UNCHANGED cupsServer

\* A channel that was up fails: the connection, its deadline, or somebody closed it.  It is
\* connected again with the same tokens.
ReadyFails(r) ==
    /\ room[r].at = "ready" /\ (~calm \/ cupsCancelled)
    /\ RoomGoes(r, [room[r] EXCEPT !.at = IF cupsCancelled THEN "ended" ELSE "waiting",
                                   !.fails = 0, !.needJoin = FALSE])
    /\ UNCHANGED cupsServer

\* The wait is over, by the clock or the context.
RoomWaits(r) ==
    /\ room[r].at = "waiting"
    /\ RoomGoes(r, [room[r] EXCEPT !.at = IF cupsCancelled THEN "ended" ELSE "top"])
    /\ UNCHANGED cupsServer
----------------------------------------------------------------------------
(* ForceReconnect and ApplyCookies close the connections; so each channel that has one fails *)

DropAll ==
    /\ ~calm
    /\ room' = [r \in Rooms |->
           IF room[r].at = "ready" THEN [room[r] EXCEPT !.at = "waiting", !.fails = 0, !.needJoin = FALSE]
                                   ELSE room[r]]
    /\ \E r \in Rooms : room[r].at = "ready"
    /\ UNCHANGED <<cupsCarrier, cupsCancelled, cupsServer, calm>>

\* Stop can come at any time, even before Start is done.
CupsStop ==
    /\ running /\ cupsCancelled' = TRUE /\ Stopped
    /\ UNCHANGED <<cupsStage, cupsClient, cupsList, room, cupsServer, calm>>

\* The server closes or reopens a room, or lets its tokens expire.
ServerActs(r) ==
    /\ ~calm
    /\ \/ cupsServer' = [cupsServer EXCEPT ![r] = [exists |-> ~@.exists, good |-> FALSE]]
       \/ cupsServer' = [cupsServer EXCEPT ![r].good = FALSE]
    /\ UNCHANGED <<cupsCarrier, cupsCancelled, room, calm>>

CalmsDown ==
    /\ ~calm /\ calm' = TRUE
    /\ UNCHANGED <<cupsCarrier, cupsCancelled, room, cupsServer>>

RunMoves(r) ==
    RoomTop(r) \/ Join(r) \/ JoinFails(r) \/ RoomDials(r) \/ Subscribed(r) \/ NotReady(r) \/ RoomWaits(r)

CupsNext ==
    \/ EnterRooms \/ DropAll \/ CupsStop \/ CalmsDown
    \/ \E r \in Rooms : RunMoves(r) \/ ReadyFails(r) \/ ServerActs(r)

\* The goroutine of a room goes on: its requests, dials and waits all have timeouts.
CupsFairness == \A r \in Rooms : WF_cupsVars(RunMoves(r))

CupsSpec == Started /\ CupsInit /\ [][CupsNext]_cupsVars /\ CupsFairness
----------------------------------------------------------------------------
\* Once all is quiet every room that exists is up some time, whatever became of its tokens and
\* however often it failed or looked closed before (run: "reconnecting with the old ones may
\* never work again").
RoomsCalm == calm /\ cupsStage = "started"
RoomsUp == cupsCancelled \/ \A r \in Rooms : cupsServer[r].exists => room[r].at = "ready"
RoomsComeBack == RoomsCalm ~> RoomsUp
=============================================================================
