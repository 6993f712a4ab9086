--------------------------- MODULE SessionRegistry ---------------------------
(***************************************************************************)
(* The registry of game sessions (session_registry.go) that the matchmaker,*)
(* the game session service and the gamesync server share under one mutex. *)
(* Every operator here is executed inside a critical section of            *)
(* sessionRegistry.mu, so each is one atomic step.                         *)
(*                                                                         *)
(* A resource name carries the UnixNano reading of the critical section    *)
(* that made it; `clock` is that reading, and it is assumed to advance     *)
(* between two critical sections that make names.                          *)
(***************************************************************************)
EXTENDS Integers, FiniteSets

CONSTANTS
  Uid,          \* NPLN users
  Config,       \* matchmaking configurations
  FriendConfig, \* those whose name starts with "Friend"
  MatchingKey,  \* values of the MatchingKey attribute
  Capacity,     \* publicMatchCapacity, per configuration
  MaxStamp      \* bound: critical sections that make names

ASSUME RegistryAssumption ==
  /\ FriendConfig \subseteq Config
  /\ Capacity \in [Config -> Nat \ {0}]
  /\ MaxStamp \in Nat

Stamp   == 1..MaxStamp
NoRoom  == 0                         \* no FriendGameSessionId
PoolKey == [config : Config, key : MatchingKey, room : Stamp \cup {NoRoom}]

UserSession == [us : Stamp, uid : Uid]
GameSession == [state          : {"ACTIVE", "TERMINATED"},
                users          : SUBSET UserSession,
                count          : Nat,     \* CurrentParticipantCount
                max            : Nat,     \* MaxParticipantCount
                canParticipate : BOOLEAN,
                isPublic       : BOOLEAN,
                locked         : BOOLEAN, \* a password is set
                room           : Stamp \cup {NoRoom}]
NoSession   == [state |-> "NONE"]

PublicMatch == [key : PoolKey, members : SUBSET UserSession]
NotPooled   == [key |-> "NONE"]

VARIABLES
  sessions, \* sessionRegistry.sessions
  pooled,   \* sessionRegistry.pooled: the matchmaker's own view of a session
  issued,   \* user session names handed out to clients so far
  clock     \* the last UnixNano reading used in a name

registryVars == <<sessions, pooled, issued, clock>>

Exists(gs)   == sessions[gs] # NoSession
IsPooled(gs) == pooled[gs] # NotPooled
Active(gs)   == Exists(gs) /\ sessions[gs].state = "ACTIVE"

SessionHasUID(gs, uid) ==
  Exists(gs) /\ \E u \in sessions[gs].users : u.uid = uid
PublicMatchHasUID(gs, uid) ==
  IsPooled(gs) /\ \E m \in pooled[gs].members : m.uid = uid

\* member(): the active membership that a match token refers to.
Member(gs, us, uid) ==
  Exists(gs) /\ [us |-> us, uid |-> uid] \in sessions[gs].users

RegistryInit ==
  /\ sessions = [gs \in Stamp |-> NoSession]
  /\ pooled   = [gs \in Stamp |-> NotPooled]
  /\ issued   = {}
  /\ clock    = 0

Tick == clock < MaxStamp /\ clock' = clock + 1

Issue(gs, us, uid) ==
  issued' = issued \cup {[gs |-> gs, us |-> us, uid |-> uid]}

(***************************************************************************)
(* addPublicMatchMembers for a caller who is not yet a member: the member  *)
(* list and the game session's user sessions grow together, and the        *)
(* participant count is recomputed from the member list.                   *)
(***************************************************************************)
AtLeast(max, n) == IF max < n THEN n ELSE max

Seated(s, u, members) ==
  [s EXCEPT !.users = @ \cup {u},
            !.count = Cardinality(members),
            !.max   = AtLeast(@, Cardinality(members))]

AddPublicMatchMember(gs, uid) ==
  /\ Tick
  /\ LET u       == [us |-> clock', uid |-> uid]
         members == pooled[gs].members \cup {u}
     IN  /\ sessions' = [sessions EXCEPT ![gs] = Seated(@, u, members)]
         /\ pooled'   = [pooled EXCEPT ![gs].members = members]
  /\ Issue(gs, clock', uid)

(***************************************************************************)
(* depart: the gamesync server removes a user session.  An emptied session *)
(* stays as a tombstone for old tickets.                                   *)
(***************************************************************************)
Without(users, us) == {u \in users : u.us # us}

\* Fault: an emptied session is closed to joins by name, not terminated.
DepartedStillActive(s, us) ==
  LET rest == Without(s.users, us)
  IN  [s EXCEPT !.users          = rest,
                !.count          = Cardinality(rest),
                !.canParticipate = @ /\ rest # {}]

Departed(s, us) ==
  LET rest == Without(s.users, us)
  IN  [s EXCEPT !.users          = rest,
                !.count          = Cardinality(rest),
                !.canParticipate = @ /\ rest # {},
                !.state          = IF rest = {} THEN "TERMINATED" ELSE @]

\* Fault: the matchmaker's member list is forgotten.
DepartLeavingMember(gs, us) ==
  /\ Exists(gs)
  /\ sessions' = [sessions EXCEPT ![gs] = Departed(@, us)]
  /\ UNCHANGED <<pooled, issued, clock>>

Depart(gs, us) ==
  /\ Exists(gs)
  /\ sessions' = [sessions EXCEPT ![gs] = Departed(@, us)]
  /\ pooled' = IF IsPooled(gs)
               THEN [pooled EXCEPT ![gs].members = Without(@, us)]
               ELSE pooled
  /\ UNCHANGED <<issued, clock>>
=============================================================================
