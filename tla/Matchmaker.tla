----------------------------- MODULE Matchmaker -----------------------------
(***************************************************************************)
(* The matchmaker service (matchmaking.go): a ticket is authorized, stored,*)
(* and placed in a pooled game session the first time it is tracked.       *)
(* CreateMatchmakingTicket and TrackMatchmakingTicket each take the        *)
(* registry mutex twice; a handler goroutine carries what it read in the   *)
(* first critical section into the second.                                 *)
(***************************************************************************)
EXTENDS SessionRegistry

CONSTANTS
  Handler,   \* matchmaker RPC goroutines that can be between two sections
  MaxTicket  \* bound: matchmaking tickets stored

ASSUME MatchmakerAssumption == MaxTicket \in Nat

TicketId == 1..MaxTicket
Ticket   == [uid : Uid, key : PoolKey]
NoTicket == [uid |-> "NONE"]

VARIABLES
  tickets,        \* matchmakerServer.tickets, always in state SEARCHING
  ticketSessions, \* matchmakerServer.ticketSessions; 0 while unplaced
  nextTicketID,
  handler         \* what each goroutine has read so far

matchmakerVars == <<tickets, ticketSessions, nextTicketID, handler>>

Idle       == [pc |-> "idle"]
Authorized == [pc : {"authorized"}, uid : Uid, key : PoolKey]
Owned      == [pc : {"owned"}, uid : Uid, ticket : TicketId]

MatchmakerInit ==
  /\ tickets        = [t \in TicketId |-> NoTicket]
  /\ ticketSessions = [t \in TicketId |-> 0]
  /\ nextTicketID   = 0
  /\ handler        = [h \in Handler |-> Idle]

\* Fault: that the caller is in the room is not asked.
MayUseAnyPool(uid, key) ==
  IF key.config \in FriendConfig
  THEN key.room # NoRoom /\ Active(key.room)
  ELSE key.room = NoRoom

(***************************************************************************)
(* CreateMatchmakingTicket, first section (authorizeFriendPool): only a    *)
(* friend configuration names a room, which must be active and already     *)
(* count the caller among its members.                                     *)
(***************************************************************************)
MayUsePool(uid, key) ==
  IF key.config \in FriendConfig
  THEN key.room # NoRoom /\ Active(key.room) /\ SessionHasUID(key.room, uid)
  ELSE key.room = NoRoom

AuthorizeMatchmakingTicket(h, uid, key) ==
  /\ handler[h] = Idle
  /\ MayUsePool(uid, key)
  /\ handler' = [handler EXCEPT ![h] =
                   [pc |-> "authorized", uid |-> uid, key |-> key]]
  /\ UNCHANGED <<registryVars, tickets, ticketSessions, nextTicketID>>

\* CreateMatchmakingTicket, second section: the ticket is stored.
StoreMatchmakingTicket(h) ==
  /\ handler[h].pc = "authorized"
  /\ nextTicketID < MaxTicket
  /\ nextTicketID' = nextTicketID + 1
  /\ tickets' = [tickets EXCEPT ![nextTicketID'] =
                   [uid |-> handler[h].uid, key |-> handler[h].key]]
  /\ handler' = [handler EXCEPT ![h] = Idle]
  /\ UNCHANGED <<registryVars, ticketSessions>>

\* TrackMatchmakingTicket, first section: the caller owns the ticket.
TrackMatchmakingTicket(h, uid, t) ==
  /\ handler[h] = Idle
  /\ tickets[t] # NoTicket
  /\ tickets[t].uid = uid
  /\ handler' = [handler EXCEPT ![h] =
                   [pc |-> "owned", uid |-> uid, ticket |-> t]]
  /\ UNCHANGED <<registryVars, tickets, ticketSessions, nextTicketID>>

(***************************************************************************)
(* selectPublicMatchSessionLocked.  sessionsByPool[key] lists the sessions *)
(* of a pool in creation order, the order of their stamps; it is never     *)
(* pruned.                                                                 *)
(***************************************************************************)
SessionsByPool(key) == {gs \in Stamp : IsPooled(gs) /\ pooled[gs].key = key}
HoldsCaller(key, uid) ==
  {gs \in SessionsByPool(key) : Active(gs) /\ PublicMatchHasUID(gs, uid)}
\* Fault: a full session still has a vacancy.
HasVacancyOneMore(key) ==
  {gs \in SessionsByPool(key) : Active(gs) /\ sessions[gs].count <= sessions[gs].max}

\* Fault: the state of the session is not looked at.
HasVacancyInAny(key) ==
  {gs \in SessionsByPool(key) : sessions[gs].count + 1 <= sessions[gs].max}

HasVacancy(key) ==
  {gs \in SessionsByPool(key) :
     Active(gs) /\ sessions[gs].count + 1 <= sessions[gs].max}
First(S, gs) == gs \in S /\ \A other \in S : gs <= other

\* newPublicMatchSessionLocked and the placement of the first member.
OpenPublicMatchSession(key, uid) ==
  /\ Tick
  /\ LET u     == [us |-> clock', uid |-> uid]
         fresh == [state |-> "ACTIVE", users |-> {}, count |-> 0,
                   max |-> Capacity[key.config], canParticipate |-> TRUE,
                   isPublic |-> key.room = NoRoom, locked |-> FALSE,
                   room |-> key.room]
     IN  /\ sessions' = [sessions EXCEPT ![clock'] = Seated(fresh, u, {u})]
         /\ pooled'   = [pooled EXCEPT ![clock'] = [key |-> key, members |-> {u}]]
  /\ Issue(clock', clock', uid)

Bind(t, gs) == ticketSessions' = [ticketSessions EXCEPT ![t] = gs]

\* Fault: a vacancy is taken before the caller's own session is looked for.
PlaceTicketInVacancy(t, uid) ==
  LET vac == HasVacancy(tickets[t].key)
  IN  \/ \E gs \in vac :
           /\ First(vac, gs)
           /\ AddPublicMatchMember(gs, uid)
           /\ Bind(t, gs)
      \/ /\ vac = {}
         /\ OpenPublicMatchSession(tickets[t].key, uid)
         /\ Bind(t, clock')

PlaceTicket(t, uid) ==
  LET key == tickets[t].key
      own == HoldsCaller(key, uid)
      vac == HasVacancy(key)
  IN  \/ \E gs \in own :
           /\ First(own, gs)
           /\ Bind(t, gs)
           /\ UNCHANGED registryVars
      \/ /\ own = {}
         /\ \E gs \in vac :
              /\ First(vac, gs)
              /\ AddPublicMatchMember(gs, uid)
              /\ Bind(t, gs)
      \/ /\ own = {} /\ vac = {}
         /\ OpenPublicMatchSession(key, uid)
         /\ Bind(t, clock')

\* Fault: a ticket is placed whenever it is tracked.
CompleteTicketAgain(h) ==
  /\ handler[h].pc = "owned"
  /\ LET t == handler[h].ticket
     IN  IF tickets[t] # NoTicket
         THEN PlaceTicket(t, handler[h].uid)
         ELSE UNCHANGED <<registryVars, ticketSessions>>
  /\ handler' = [handler EXCEPT ![h] = Idle]
  /\ UNCHANGED <<tickets, nextTicketID>>

(***************************************************************************)
(* TrackMatchmakingTicket, second section (completeMatchmakingTicket).  A  *)
(* ticket that was cancelled meanwhile fails, and so does a placed ticket  *)
(* whose caller has left; a placed one only repeats its reply.             *)
(***************************************************************************)
CompleteMatchmakingTicket(h) ==
  /\ handler[h].pc = "owned"
  /\ LET t == handler[h].ticket
     IN  IF tickets[t] # NoTicket /\ ticketSessions[t] = 0
         THEN PlaceTicket(t, handler[h].uid)
         ELSE UNCHANGED <<registryVars, ticketSessions>>
  /\ handler' = [handler EXCEPT ![h] = Idle]
  /\ UNCHANGED <<tickets, nextTicketID>>

\* CancelMatchmakingTicket forgets the ticket, not a placement it made.
CancelMatchmakingTicket(uid, t) ==
  /\ tickets[t] # NoTicket
  /\ tickets[t].uid = uid
  /\ tickets' = [tickets EXCEPT ![t] = NoTicket]
  /\ UNCHANGED <<registryVars, ticketSessions, nextTicketID, handler>>

MatchmakerNext ==
  \/ \E h \in Handler :
       \/ \E uid \in Uid, key \in PoolKey : AuthorizeMatchmakingTicket(h, uid, key)
       \/ StoreMatchmakingTicket(h)
       \/ \E uid \in Uid, t \in TicketId : TrackMatchmakingTicket(h, uid, t)
       \/ CompleteMatchmakingTicket(h)
  \/ \E uid \in Uid, t \in TicketId : CancelMatchmakingTicket(uid, t)
=============================================================================
