--------------------------- MODULE SessionServices ---------------------------
(***************************************************************************)
(* buildServer (main.go) injects one registry into the matchmaker, the     *)
(* game session service and the gamesync server.  This module composes the *)
(* first two; of the third it keeps the one call that changes the registry,*)
(* depart, for any user session ever issued and at any time.               *)
(***************************************************************************)
EXTENDS Matchmaker, GameSessionService

vars == <<registryVars, matchmakerVars, serviceVars>>

Init == RegistryInit /\ MatchmakerInit /\ ServiceInit

Next ==
  \/ MatchmakerNext /\ UNCHANGED serviceVars
  \/ ServiceNext /\ UNCHANGED matchmakerVars
  \/ /\ \E i \in issued : Depart(i.gs, i.us)
     /\ UNCHANGED <<matchmakerVars, serviceVars>>

Spec == Init /\ [][Next]_vars
-----------------------------------------------------------------------------
\* Types of every variable of the three components.
TypeOK ==
  /\ sessions \in [Stamp -> GameSession \cup {NoSession}]
  /\ pooled   \in [Stamp -> PublicMatch \cup {NotPooled}]
  /\ issued   \in SUBSET [gs : Stamp, us : Stamp, uid : Uid]
  /\ clock    \in 0..MaxStamp
  /\ tickets  \in [TicketId -> Ticket \cup {NoTicket}]
  /\ ticketSessions \in [TicketId -> Stamp \cup {0}]
  /\ nextTicketID \in 0..MaxTicket
  /\ handler  \in [Handler -> {Idle} \cup Authorized \cup Owned]
  /\ creations \in [CreationId -> CreationTicket \cup {NoCreation}]
  /\ nextCreation \in 0..MaxCreation

(***************************************************************************)
(* The matchmaker keeps its own member list beside the game session it     *)
(* shares with the other services; both lists and the participant count    *)
(* that vacancy decisions read must stay the same through every mixture of *)
(* placements, joins by name and departures.                               *)
(***************************************************************************)
RosterAgrees ==
  \A gs \in Stamp :
    /\ Exists(gs)   => sessions[gs].count = Cardinality(sessions[gs].users)
    /\ IsPooled(gs) => Exists(gs) /\ pooled[gs].members = sessions[gs].users

\* No step takes a session above the size it was opened for, neither by adding
\* a user too many nor through the branch of addPublicMatchMembers that raises
\* MaxParticipantCount to the number of members.
CapacityRespected ==
  [][\A gs \in Stamp : Exists(gs)
       => /\ sessions'[gs].max = sessions[gs].max
          /\ sessions'[gs].count <= sessions[gs].max]_vars

\* A user occupies at most one slot of a session, whichever way they came in.
OneSlotPerUser ==
  \A gs \in Stamp : Exists(gs) =>
    \A u, v \in sessions[gs].users : u.uid = v.uid => u = v

\* session_registry.go:131: an emptied session is kept as a tombstone and is
\* never selectable: no later step of any service changes it.
TombstoneFinal ==
  [][\A gs \in Stamp :
       Exists(gs) /\ sessions[gs].users = {}
         => /\ sessions[gs].state = "TERMINATED"
            /\ sessions'[gs] = sessions[gs]]_vars

\* A ticket is placed once: tracking it again, before or after its user left,
\* never moves it to another session.
TicketPlacedOnce ==
  [][\A t \in TicketId :
       ticketSessions[t] # 0 => ticketSessions'[t] = ticketSessions[t]]_vars

\* matchmaking.go:249: a repeated ticket from the same user resolves to the
\* existing membership instead of consuming another slot.
RepeatedTicketTakesNoSlot ==
  [][\A t \in TicketId :
       ticketSessions'[t] # ticketSessions[t]
         => LET uid == tickets[t].uid
                own == HoldsCaller(tickets[t].key, uid)
            IN  own # {} => /\ ticketSessions'[t] \in own
                            /\ UNCHANGED sessions]_vars

\* matchmaking.go:492: tracking a creation ticket again repeats its reply.  The
\* room of a ticket is opened once, and no other ticket gets the same one.
CreationOpensOneRoom ==
  [][\A t, other \in CreationId :
       creations[t] # NoCreation /\ creations[t].gs # 0
         => /\ creations'[t] = creations[t]
            /\ creations'[other] # NoCreation /\ t # other
                 => creations'[other].gs # creations[t].gs]_vars

\* Everybody who was ever given a place in the session.
EverIn(gs) == {i.uid : i \in {j \in issued : j.gs = gs}}

\* session_service.go:56: JoinGameSession checks friends and password before
\* a player can enter the course and map pools associated with a friend room.
\* However stale the room check of a ticket is by the time it is placed, only
\* users who had been in the room itself are ever in its pools.
FriendPoolFromRoom ==
  \A gs \in Stamp :
    IsPooled(gs) /\ pooled[gs].key.room # NoRoom
      => EverIn(gs) \subseteq EverIn(pooled[gs].key.room)

\* session_registry.go:94: a match token is only good while the membership it
\* names is active.  Once that user session has departed no placement and no
\* join brings it back, also not for a user who enters the session again.
StaleTokenRefused ==
  [][\A i \in issued :
       ~Member(i.gs, i.us, i.uid) => ~Member(i.gs, i.us, i.uid)']_vars
-----------------------------------------------------------------------------
\* The services implement GameRooms: who is in a room is read off the user
\* sessions, and a tombstone is a closed room.
Roster(gs) == IF Exists(gs) THEN {u.uid : u \in sessions[gs].users} ELSE {}
Phase(gs)  == IF ~Exists(gs) THEN "new"
              ELSE IF sessions[gs].state = "ACTIVE" THEN "open" ELSE "closed"
Places(gs) == IF Exists(gs) THEN sessions[gs].max ELSE 0

RoomSize == 1..MaxRoomSize \cup {Capacity[c] : c \in Config}

Rooms == INSTANCE GameRooms WITH
  Room   <- Stamp,
  User   <- Uid,
  Size   <- RoomSize,
  roster <- [gs \in Stamp |-> Roster(gs)],
  phase  <- [gs \in Stamp |-> Phase(gs)],
  places <- [gs \in Stamp |-> Places(gs)]

RoomsSpec == Rooms!Spec
=============================================================================
