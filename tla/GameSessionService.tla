------------------------- MODULE GameSessionService -------------------------
(***************************************************************************)
(* The game session service (matchmaking.go, session_service.go): rooms    *)
(* created by ticket, and rooms entered by name.  Handlers that only read  *)
(* the registry change no state; what they may show is RoomVisible.        *)
(***************************************************************************)
EXTENDS SessionRegistry

CONSTANTS
  RequestedMax,  \* MaxParticipantCount values a creation ticket may ask for
  RequestedRoom, \* FriendGameSessionId values its properties may carry
  MaxRoomSize,   \* the largest accepted MaxParticipantCount (64)
  MaxCreation    \* bound: creation tickets stored

ASSUME ServiceAssumption ==
  /\ RequestedMax \subseteq Int
  /\ RequestedRoom \subseteq Stamp \cup {NoRoom}
  /\ MaxRoomSize \in Nat
  /\ MaxCreation \in Nat

CreationId == 1..MaxCreation

CreationTicket ==
  [uid : Uid, config : Config, locked : BOOLEAN, max : RequestedMax,
   room : RequestedRoom, gs : Stamp \cup {0}]   \* gs = 0 while PENDING
NoCreation == [uid |-> "NONE"]

VARIABLES
  creations,   \* gameSessionServer.tickets
  nextCreation \* gameSessionServer.nextTicketID

serviceVars == <<creations, nextCreation>>

ServiceInit ==
  /\ creations    = [t \in CreationId |-> NoCreation]
  /\ nextCreation = 0

(***************************************************************************)
(* CreateGameSessionCreationTicket: the first critical section only draws  *)
(* the number of the name the second one stores under, so both are one     *)
(* step.                                                                   *)
(***************************************************************************)
CreateGameSessionCreationTicket(uid, config, locked, max, room) ==
  /\ nextCreation < MaxCreation
  /\ nextCreation' = nextCreation + 1
  /\ creations' = [creations EXCEPT ![nextCreation'] =
       [uid |-> uid, config |-> config, locked |-> locked, max |-> max,
        room |-> room, gs |-> 0]]
  /\ UNCHANGED registryVars

GrantedMax(ticket) ==
  IF ticket.max = 0 THEN Capacity[ticket.config] ELSE ticket.max

\* The room a creation ticket asks for, if it asks for an acceptable size.
OpenRoom(t) ==
  /\ GrantedMax(creations[t]) \in 1..MaxRoomSize
  /\ Tick
  /\ LET ticket == creations[t]
         room   == [state |-> "ACTIVE",
                    users |-> {[us |-> clock', uid |-> ticket.uid]},
                    count |-> 1, max |-> GrantedMax(ticket),
                    canParticipate |-> TRUE,
                    isPublic |-> ticket.config \notin FriendConfig /\ ~ticket.locked,
                    locked |-> ticket.locked, room |-> ticket.room]
     IN  /\ sessions' = [sessions EXCEPT ![clock'] = room]
         /\ Issue(clock', clock', ticket.uid)
  /\ creations' = [creations EXCEPT ![t].gs = clock']
  /\ UNCHANGED <<pooled, nextCreation>>

\* Fault: a room is opened whenever the ticket is tracked.
CompleteCreationAgain(t) == creations[t] # NoCreation /\ OpenRoom(t)

(***************************************************************************)
(* completeGameSessionCreationTicket for a PENDING ticket.  A SUCCEEDED    *)
(* ticket repeats its reply, and a request refused for its size leaves the *)
(* ticket PENDING: neither changes state.                                  *)
(***************************************************************************)
CompleteGameSessionCreationTicket(t) ==
  /\ creations[t] # NoCreation
  /\ creations[t].gs = 0
  /\ OpenRoom(t)

\* roomVisible: what Get, Query and Join let a user see.
RoomVisible(gs, uid, friends) ==
  /\ Active(gs)
  /\ \/ SessionHasUID(gs, uid)
     \/ /\ sessions[gs].room = NoRoom
        /\ \/ sessions[gs].isPublic
           \/ \E u \in sessions[gs].users : u.uid \in friends

\* Fault: a user session is named by its place in the room.
EnterRoomByPlace(gs, uid) ==
  /\ Tick
  /\ LET u     == [us |-> Cardinality(sessions[gs].users) + 1, uid |-> uid]
         users == sessions[gs].users \cup {u}
     IN  /\ sessions' = [sessions EXCEPT ![gs].users = users,
                                         ![gs].count = Cardinality(users)]
         /\ Issue(gs, u.us, uid)
  /\ UNCHANGED pooled

\* The caller enters a room that was created by ticket.
EnterRoom(gs, uid) ==
  /\ Tick
  /\ LET users == sessions[gs].users \cup {[us |-> clock', uid |-> uid]}
     IN  sessions' = [sessions EXCEPT ![gs].users = users,
                                      ![gs].count = Cardinality(users)]
  /\ Issue(gs, clock', uid)
  /\ UNCHANGED pooled

RoomAdmits(gs, password) ==
  /\ sessions[gs].locked => password
  /\ sessions[gs].canParticipate
  /\ sessions[gs].count < sessions[gs].max

\* Fault: a member joins again.
JoinGameSessionAgain(uid, gs, friends, password) ==
  /\ RoomVisible(gs, uid, friends \cup {uid})
  /\ RoomAdmits(gs, password)
  /\ IF IsPooled(gs)
     THEN AddPublicMatchMember(gs, uid)
     ELSE EnterRoom(gs, uid)
  /\ UNCHANGED serviceVars

(***************************************************************************)
(* JoinGameSession by a user who is not yet a member.  The friend list is  *)
(* fetched from the account service before the mutex is taken, so it may   *)
(* be any set that was ever true; it always contains the caller.           *)
(***************************************************************************)
JoinGameSession(uid, gs, friends, password) ==
  /\ RoomVisible(gs, uid, friends \cup {uid})
  /\ ~SessionHasUID(gs, uid)
  /\ RoomAdmits(gs, password)
  /\ IF IsPooled(gs)
     THEN AddPublicMatchMember(gs, uid)
     ELSE EnterRoom(gs, uid)
  /\ UNCHANGED serviceVars

ServiceNext ==
  \/ \E uid \in Uid, config \in Config, locked \in BOOLEAN,
        max \in RequestedMax, room \in RequestedRoom :
       CreateGameSessionCreationTicket(uid, config, locked, max, room)
  \/ \E t \in CreationId : CompleteGameSessionCreationTicket(t)
  \/ \E uid \in Uid, gs \in Stamp, friends \in SUBSET Uid, password \in BOOLEAN :
       JoinGameSession(uid, gs, friends, password)
=============================================================================
