----------------------- MODULE SessionServicesProofs -----------------------
(***************************************************************************)
(* Theorems about SessionServices for every number of users, tickets and   *)
(* sessions, the last of them that they implement GameRooms.               *)
(***************************************************************************)
EXTENDS SessionServices, FiniteSetTheorems, TLAPS

-----------------------------------------------------------------------------
(***************************************************************************)
(* What a step does to the registry: one of six things, whichever service  *)
(* takes it.                                                               *)
(***************************************************************************)
MayEnter(gs, uid) ==
  /\ Active(gs)
  /\ sessions[gs].count < sessions[gs].max

RegistryStep ==
  \/ UNCHANGED registryVars
  \/ \E key \in PoolKey, uid \in Uid : OpenPublicMatchSession(key, uid)
  \/ \E gs \in Stamp, uid \in Uid :
       /\ MayEnter(gs, uid)
       /\ IsPooled(gs)
       /\ ~PublicMatchHasUID(gs, uid) \/ ~SessionHasUID(gs, uid)
       /\ AddPublicMatchMember(gs, uid)
  \/ \E gs \in Stamp, uid \in Uid :
       /\ MayEnter(gs, uid)
       /\ ~IsPooled(gs)
       /\ ~SessionHasUID(gs, uid)
       /\ EnterRoom(gs, uid)
  \/ \E t \in CreationId : CompleteGameSessionCreationTicket(t)
  \/ \E i \in issued : Depart(i.gs, i.us)

\* Every session's record is one the registry may hold.
RegistryTypeOK ==
  /\ sessions \in [Stamp -> GameSession \cup {NoSession}]
  /\ pooled   \in [Stamp -> PublicMatch \cup {NotPooled}]
  /\ issued   \in SUBSET [gs : Stamp, us : Stamp, uid : Uid]
  /\ clock    \in 0..MaxStamp

TicketTypeOK ==
  /\ tickets  \in [TicketId -> Ticket \cup {NoTicket}]
  /\ ticketSessions \in [TicketId -> Stamp \cup {0}]
  /\ nextTicketID \in 0..MaxTicket
  /\ handler  \in [Handler -> {Idle} \cup Authorized \cup Owned]

CreationTypeOK ==
  /\ creations \in [CreationId -> CreationTicket \cup {NoCreation}]
  /\ nextCreation \in 0..MaxCreation

\* An entry of the registry is a game session.
LEMMA SessionIsRecord ==
  ASSUME RegistryTypeOK, NEW gs \in Stamp, Exists(gs)
  PROVE  sessions[gs] \in GameSession
  BY DEF RegistryTypeOK, Exists

\* An entry of the matchmaker's pools is a public match.
LEMMA PoolIsRecord ==
  ASSUME RegistryTypeOK, NEW gs \in Stamp, IsPooled(gs)
  PROVE  pooled[gs] \in PublicMatch
  BY DEF RegistryTypeOK, IsPooled

\* The clock stays within its bound and moves by one.
LEMMA TickType ==
  ASSUME RegistryTypeOK, Tick
  PROVE  clock' \in Stamp /\ clock' \in 0..MaxStamp /\ clock' = clock + 1
  BY RegistryAssumption DEF RegistryAssumption, RegistryTypeOK, Tick, Stamp

\* A step of any service is one of the six steps of the registry.
LEMMA StepOfRegistry ==
  ASSUME RegistryTypeOK, TicketTypeOK, [Next]_vars
  PROVE  RegistryStep
<1>1. CASE UNCHANGED vars
  BY <1>1 DEF vars, registryVars, RegistryStep
<1>2. CASE MatchmakerNext /\ UNCHANGED serviceVars
  <2>1. ASSUME NEW h \in Handler, CompleteMatchmakingTicket(h)
        PROVE  RegistryStep
    <3> DEFINE t   == handler[h].ticket
               uid == handler[h].uid
               key == tickets[t].key
    <3>1. t \in TicketId /\ uid \in Uid
      BY <2>1 DEF CompleteMatchmakingTicket, TicketTypeOK, Idle, Authorized, Owned
    <3>2. CASE ~(tickets[t] # NoTicket /\ ticketSessions[t] = 0)
      BY <2>1, <3>2 DEF CompleteMatchmakingTicket, RegistryStep, registryVars
    <3>3. CASE tickets[t] # NoTicket /\ ticketSessions[t] = 0
      <4>1. PlaceTicket(t, uid)
        BY <2>1, <3>3 DEF CompleteMatchmakingTicket
      <4>2. key \in PoolKey
        BY <3>1, <3>3 DEF TicketTypeOK, Ticket, NoTicket
      <4>3. CASE UNCHANGED registryVars
        BY <4>3 DEF RegistryStep
      <4>4. CASE OpenPublicMatchSession(key, uid)
        BY <4>2, <4>4, <3>1 DEF RegistryStep
      <4>5. ASSUME HoldsCaller(key, uid) = {},
                   NEW gs \in HasVacancy(key), AddPublicMatchMember(gs, uid)
            PROVE  RegistryStep
        <5>1. gs \in Stamp /\ Active(gs) /\ IsPooled(gs)
          BY <4>5 DEF HasVacancy, SessionsByPool
        <5>2. sessions[gs].count < sessions[gs].max
          <6>1. sessions[gs] \in GameSession
            BY <5>1, SessionIsRecord DEF Active
          <6> QED BY <4>5, <6>1 DEF HasVacancy, GameSession
        <5>3. ~PublicMatchHasUID(gs, uid)
          BY <4>5, <5>1 DEF HoldsCaller, HasVacancy
        <5> QED BY <4>5, <5>1, <5>2, <5>3, <3>1 DEF RegistryStep, MayEnter
      <4> QED BY <4>1, <4>3, <4>4, <4>5 DEF PlaceTicket
    <3> QED BY <3>2, <3>3
  <2>2. CASE UNCHANGED registryVars
    BY <2>2 DEF RegistryStep
  <2> QED BY <1>2, <2>1, <2>2
       DEF MatchmakerNext, AuthorizeMatchmakingTicket, StoreMatchmakingTicket,
           TrackMatchmakingTicket, CancelMatchmakingTicket
<1>3. CASE ServiceNext /\ UNCHANGED matchmakerVars
  <2>1. ASSUME NEW uid \in Uid, NEW gs \in Stamp, NEW friends \in SUBSET Uid,
               NEW password \in BOOLEAN, JoinGameSession(uid, gs, friends, password)
        PROVE  RegistryStep
    BY <2>1 DEF JoinGameSession, RoomAdmits, RoomVisible, RegistryStep, MayEnter
  <2>2. CASE UNCHANGED registryVars
    BY <2>2 DEF RegistryStep
  <2>3. ASSUME NEW t \in CreationId, CompleteGameSessionCreationTicket(t)
        PROVE  RegistryStep
    BY <2>3 DEF RegistryStep
  <2> QED BY <1>3, <2>1, <2>2, <2>3
       DEF ServiceNext, CreateGameSessionCreationTicket
<1>4. CASE (\E i \in issued : Depart(i.gs, i.us)) /\ UNCHANGED <<matchmakerVars, serviceVars>>
  BY <1>4 DEF RegistryStep
<1> QED BY <1>1, <1>2, <1>3, <1>4 DEF Next
-----------------------------------------------------------------------------
(* What the steps of the registry leave behind *)

\* Adding one user to a session adds at most one to its count.
LEMMA AddToFinite ==
  ASSUME NEW S, IsFiniteSet(S), NEW x
  PROVE  /\ IsFiniteSet(S \cup {x})
         /\ Cardinality(S) \in Nat
         /\ Cardinality(S \cup {x}) \in Nat
         /\ Cardinality(S \cup {x}) <= Cardinality(S) + 1
         /\ Cardinality(S \cup {x}) >= 1
<1>1. /\ IsFiniteSet(S \cup {x})
      /\ Cardinality(S \cup {x}) = IF x \in S THEN Cardinality(S) ELSE Cardinality(S) + 1
  BY FS_AddElement
<1>2. Cardinality(S) \in Nat /\ Cardinality(S \cup {x}) \in Nat
  BY <1>1, FS_CardinalityType
<1>3. Cardinality(S \cup {x}) # 0
  BY <1>1, FS_EmptySet
<1> QED BY <1>1, <1>2, <1>3

\* Removing a user session leaves a finite roster that is no larger.
LEMMA WithoutFinite ==
  ASSUME NEW S, IsFiniteSet(S), NEW us
  PROVE  /\ IsFiniteSet(Without(S, us))
         /\ Cardinality(Without(S, us)) \in Nat
         /\ Cardinality(S) \in Nat
         /\ Cardinality(Without(S, us)) <= Cardinality(S)
  BY FS_Subset, FS_CardinalityType DEF Without

(***************************************************************************)
(* The state of one session.  It is ACTIVE as long as it has users, its    *)
(* count and the matchmaker's member list follow them, and whoever is in   *)
(* it was given a user session made no later than now.                     *)
(***************************************************************************)
Sound(gs) ==
  /\ IsFiniteSet(sessions[gs].users)
  /\ sessions[gs].count = Cardinality(sessions[gs].users)
  /\ sessions[gs].count <= sessions[gs].max
  /\ sessions[gs].state = "ACTIVE" <=> sessions[gs].users # {}
  /\ sessions[gs].canParticipate => sessions[gs].users # {}
  /\ gs <= clock
  /\ \A u \in sessions[gs].users : [gs |-> gs, us |-> u.us, uid |-> u.uid] \in issued
  /\ \A u, v \in sessions[gs].users : u.uid = v.uid \/ u.us = v.us => u = v

PoolSound(gs) ==
  /\ Exists(gs)
  /\ pooled[gs].members = sessions[gs].users
  /\ pooled[gs].key.room = sessions[gs].room

RegistryInv ==
  /\ RegistryTypeOK
  /\ \A gs \in Stamp : Exists(gs) => Sound(gs)
  /\ \A gs \in Stamp : IsPooled(gs) => PoolSound(gs)
  /\ \A i \in issued : i.gs <= clock /\ i.us <= clock

\* The registry starts without sessions.
LEMMA RegistryInitially == RegistryInit => RegistryInv
  BY RegistryAssumption
     DEF RegistryAssumption, RegistryInit, RegistryInv, RegistryTypeOK, Exists, IsPooled,
         NoSession, NotPooled, Stamp

\* The record of a session that one more user has entered.
Grown(g, s, u) ==
  /\ g \in GameSession
  /\ g.users = s.users \cup {u}
  /\ g.count = Cardinality(s.users \cup {u})
  /\ g.max = s.max
  /\ g.state = s.state
  /\ g.canParticipate = s.canParticipate
  /\ g.room = s.room

\* addPublicMatchMembers changes the users and their count; the maximum only if
\* there is no room left.
LEMMA SeatedGrows ==
  ASSUME NEW s \in GameSession, NEW u \in UserSession,
         IsFiniteSet(s.users), Cardinality(s.users) < s.max
  PROVE  Grown(Seated(s, u, s.users \cup {u}), s, u)
<1> DEFINE users == s.users \cup {u}
           n     == Cardinality(users)
           max   == AtLeast(s.max, n)
<1>1. s.max \in Nat /\ users \in SUBSET UserSession
  BY DEF GameSession
<1>2. n \in Nat /\ n <= Cardinality(s.users) + 1 /\ Cardinality(s.users) \in Nat
  BY AddToFinite
<1>3. max = s.max
  BY <1>1, <1>2 DEF AtLeast
<1>4. Seated(s, u, users) = [s EXCEPT !.users = users, !.count = n, !.max = max]
  BY DEF Seated
<1> HIDE DEF users, n, max
<1> DEFINE g == [s EXCEPT !.users = users, !.count = n, !.max = max]
<1>5. /\ g \in GameSession /\ g.users = users /\ g.count = n /\ g.max = s.max
      /\ g.state = s.state /\ g.canParticipate = s.canParticipate /\ g.room = s.room
  BY <1>1, <1>2, <1>3 DEF GameSession
<1> QED BY <1>4, <1>5 DEF Grown, users, n

(***************************************************************************)
(* Opening a session, whoever does it: its name is new, its only user is   *)
(* new.                                                                    *)
(***************************************************************************)
Opened(s, uid, g) ==
  /\ s = clock + 1 /\ clock' = s /\ s \in Stamp
  /\ g \in GameSession
  /\ g.users = {[us |-> s, uid |-> uid]}
  /\ g.count = 1 /\ 1 <= g.max /\ g.state = "ACTIVE"
  /\ sessions' = [sessions EXCEPT ![s] = g]
  /\ issued' = issued \cup {[gs |-> s, us |-> s, uid |-> uid]}

PoolOpened(s, g) ==
  \/ UNCHANGED pooled
  \/ \E p \in PublicMatch : /\ p.members = g.users
                            /\ p.key.room = g.room
                            /\ pooled' = [pooled EXCEPT ![s] = p]

\* A session that has just been opened is sound, and disturbs no other.
LEMMA OpenedKeepsInv ==
  ASSUME RegistryInv, NEW s, NEW uid \in Uid, NEW g, Opened(s, uid, g),
         PoolOpened(s, g)
  PROVE  RegistryInv'
<1>1. s \in Stamp /\ s \in 0..MaxStamp /\ s = clock + 1 /\ clock \in Nat
  BY RegistryAssumption
     DEF RegistryAssumption, Opened, RegistryInv, RegistryTypeOK, Stamp
<1>2. ~Exists(s) /\ ~IsPooled(s)
  BY <1>1 DEF RegistryInv, RegistryTypeOK, Sound, PoolSound
<1>3. RegistryTypeOK'
  <2>1. /\ sessions' \in [Stamp -> GameSession \cup {NoSession}]
        /\ issued' \in SUBSET [gs : Stamp, us : Stamp, uid : Uid]
        /\ clock' \in 0..MaxStamp
    BY <1>1 DEF Opened, RegistryInv, RegistryTypeOK
  <2>2. pooled' \in [Stamp -> PublicMatch \cup {NotPooled}]
    BY <1>1 DEF PoolOpened, RegistryInv, RegistryTypeOK
  <2> QED BY <2>1, <2>2 DEF RegistryTypeOK
<1>4. sessions'[s] = g /\ \A gs \in Stamp \ {s} : sessions'[gs] = sessions[gs]
  BY <1>1 DEF Opened, RegistryInv, RegistryTypeOK
<1>5. Sound(s)' /\ Exists(s)'
  <2>1. Cardinality(g.users) = 1 /\ IsFiniteSet(g.users)
    BY FS_Singleton DEF Opened
  <2>2. g # NoSession
    BY DEF Opened, GameSession, NoSession
  <2>3. Exists(s)'
    BY <1>4, <2>2 DEF Exists
  <2>4. s <= clock' /\ g.users # {}
    BY <1>1 DEF Opened
  <2>5. \A u \in g.users : [gs |-> s, us |-> u.us, uid |-> u.uid] \in issued'
    BY DEF Opened
  <2>6. \A u, v \in g.users : u = v
    BY DEF Opened
  <2> QED BY <1>4, <2>1, <2>3, <2>4, <2>5, <2>6 DEF Opened, Sound
<1>6. ASSUME NEW gs \in Stamp \ {s}, Exists(gs)'
      PROVE  Sound(gs)'
  <2>1. Exists(gs) /\ Sound(gs)
    BY <1>4, <1>6 DEF Exists, RegistryInv
  <2>2. gs <= clock'
    BY <1>1, <2>1 DEF Opened, Sound, Stamp
  <2> QED BY <1>4, <2>1, <2>2 DEF Opened, Sound
<1>7. ASSUME NEW gs \in Stamp, IsPooled(gs)'
      PROVE  PoolSound(gs)'
  <2>1. CASE gs = s
    BY <1>1, <1>2, <1>4, <1>5, <1>7, <2>1
       DEF PoolOpened, RegistryInv, RegistryTypeOK, IsPooled, PoolSound
  <2>2. CASE gs # s
    <3>1. pooled'[gs] = pooled[gs]
      BY <1>1, <2>2 DEF PoolOpened, RegistryInv, RegistryTypeOK
    <3>2. PoolSound(gs)
      BY <1>7, <3>1 DEF IsPooled, RegistryInv
    <3> QED BY <1>4, <2>2, <3>1, <3>2 DEF PoolSound, Exists
  <2> QED BY <2>1, <2>2
<1>8. (\A i \in issued : i.gs <= clock /\ i.us <= clock)'
  BY <1>1 DEF Opened, RegistryInv, RegistryTypeOK, Stamp
<1> QED BY <1>3, <1>5, <1>6, <1>7, <1>8 DEF RegistryInv

(***************************************************************************)
(* Entering a session that has a vacancy, by a ticket or by its name.      *)
(***************************************************************************)
Entered(gs, uid, g) ==
  /\ clock' = clock + 1 /\ clock' \in Stamp
  /\ Grown(g, sessions[gs], [us |-> clock', uid |-> uid])
  /\ sessions' = [sessions EXCEPT ![gs] = g]
  /\ issued' = issued \cup {[gs |-> gs, us |-> clock', uid |-> uid]}

PoolEntered(gs, g) ==
  \/ ~IsPooled(gs) /\ UNCHANGED pooled
  \/ \E p \in PublicMatch : /\ p.members = g.users
                            /\ p.key = pooled[gs].key
                            /\ IsPooled(gs)
                            /\ pooled' = [pooled EXCEPT ![gs] = p]

\* A user who enters a session with a vacancy leaves it sound.
LEMMA EnteredKeepsInv ==
  ASSUME RegistryInv, NEW gs \in Stamp, NEW uid \in Uid, NEW g,
         MayEnter(gs, uid), ~SessionHasUID(gs, uid), Entered(gs, uid, g),
         PoolEntered(gs, g)
  PROVE  RegistryInv'
<1> DEFINE u == [us |-> clock', uid |-> uid]
           s == sessions[gs]
<1>1. /\ clock' \in 0..MaxStamp /\ clock \in Nat
      /\ Exists(gs) /\ s \in GameSession /\ s.state = "ACTIVE" /\ s.count < s.max
      /\ Sound(gs)
  <2>1. clock' \in 0..MaxStamp /\ clock \in Nat
    BY RegistryAssumption
       DEF RegistryAssumption, Entered, RegistryInv, RegistryTypeOK, Stamp
  <2>2. Exists(gs) /\ s.state = "ACTIVE" /\ s.count < s.max
    BY DEF MayEnter, Active
  <2> QED BY <2>1, <2>2, SessionIsRecord DEF RegistryInv
<1>2. RegistryTypeOK'
  <2>1. /\ sessions' \in [Stamp -> GameSession \cup {NoSession}]
        /\ issued' \in SUBSET [gs : Stamp, us : Stamp, uid : Uid]
    BY DEF Entered, Grown, RegistryInv, RegistryTypeOK
  <2>2. pooled' \in [Stamp -> PublicMatch \cup {NotPooled}]
    BY DEF PoolEntered, RegistryInv, RegistryTypeOK
  <2> QED BY <1>1, <2>1, <2>2 DEF RegistryTypeOK
<1>3. sessions'[gs] = g /\ \A other \in Stamp \ {gs} : sessions'[other] = sessions[other]
  BY DEF Entered, RegistryInv, RegistryTypeOK
<1>4. Sound(gs)' /\ Exists(gs)'
  <2>1. /\ IsFiniteSet(g.users) /\ g.count = Cardinality(g.users)
        /\ g.count <= g.max
    <3>1. IsFiniteSet(s.users) /\ Cardinality(s.users) < s.max /\ s.max \in Nat
      BY <1>1 DEF Sound, GameSession
    <3>2. /\ IsFiniteSet(s.users \cup {u})
          /\ Cardinality(s.users \cup {u}) \in Nat /\ Cardinality(s.users) \in Nat
          /\ Cardinality(s.users \cup {u}) <= Cardinality(s.users) + 1
      BY <3>1, AddToFinite
    <3> QED BY <3>1, <3>2 DEF Entered, Grown
  <2>2. Exists(gs)'
    BY <1>3 DEF Exists, Entered, Grown, GameSession, NoSession
  <2>3. g.state = "ACTIVE" /\ g.users # {}
    BY <1>1 DEF Entered, Grown
  <2>4. gs <= clock'
    BY <1>1 DEF Entered, Sound, Stamp
  <2>5. \A v \in g.users : [gs |-> gs, us |-> v.us, uid |-> v.uid] \in issued'
    BY <1>1 DEF Entered, Grown, Sound
  <2>6. \A v, w \in g.users : v.uid = w.uid \/ v.us = w.us => v = w
    <3>1. \A v \in s.users : v.uid # uid
      BY <1>1 DEF SessionHasUID
    <3>2. \A v \in s.users : v.us # clock'
      <4>1. \A v \in s.users : v.us <= clock
        BY <1>1 DEF Sound, RegistryInv
      <4>2. \A v \in s.users : v.us \in Stamp
        BY <1>1 DEF GameSession, UserSession
      <4> QED BY <1>1, <4>1, <4>2 DEF Entered, Stamp
    <3> QED BY <1>1, <3>1, <3>2 DEF Entered, Grown, Sound
  <2> QED BY <1>3, <2>1, <2>2, <2>3, <2>4, <2>5, <2>6 DEF Sound
<1>5. ASSUME NEW other \in Stamp \ {gs}, Exists(other)'
      PROVE  Sound(other)'
  <2>1. Exists(other) /\ Sound(other)
    BY <1>3, <1>5 DEF Exists, RegistryInv
  <2>2. other <= clock'
    BY <1>1, <2>1 DEF Entered, Sound, Stamp
  <2> QED BY <1>3, <2>1, <2>2 DEF Entered, Sound
<1>6. ASSUME NEW other \in Stamp, IsPooled(other)'
      PROVE  PoolSound(other)'
  <2>1. CASE other = gs
    <3>1. IsPooled(gs)
      BY <1>6, <2>1 DEF IsPooled, PoolEntered
    <3>2. PICK p \in PublicMatch : /\ p.members = g.users
                                   /\ p.key = pooled[gs].key
                                   /\ pooled' = [pooled EXCEPT ![gs] = p]
      BY <3>1 DEF PoolEntered
    <3>3. pooled'[gs] = p
      BY <3>2 DEF RegistryInv, RegistryTypeOK
    <3>4. pooled[gs].key.room = s.room
      BY <3>1 DEF RegistryInv, PoolSound
    <3> QED BY <1>3, <1>4, <2>1, <3>2, <3>3, <3>4 DEF PoolSound, Entered, Grown
  <2>2. CASE other # gs
    <3>1. pooled'[other] = pooled[other]
      BY <2>2 DEF PoolEntered, RegistryInv, RegistryTypeOK
    <3>2. PoolSound(other)
      BY <1>6, <3>1 DEF IsPooled, RegistryInv
    <3> QED BY <1>3, <2>2, <3>1, <3>2 DEF PoolSound, Exists
  <2> QED BY <2>1, <2>2
<1>7. (\A i \in issued : i.gs <= clock /\ i.us <= clock)'
  BY <1>1 DEF Entered, RegistryInv, RegistryTypeOK, Sound, Stamp
<1> QED BY <1>2, <1>4, <1>5, <1>6, <1>7 DEF RegistryInv

(***************************************************************************)
(* depart, of a user session that may have departed before.                *)
(***************************************************************************)
\* A session one of whose users departs stays sound, as a tombstone if need be.
LEMMA DepartKeepsInv ==
  ASSUME RegistryInv, NEW gs \in Stamp, NEW us \in Stamp, Depart(gs, us)
  PROVE  RegistryInv'
<1> DEFINE s == sessions[gs]
           rest == Without(s.users, us)
           n == Cardinality(rest)
           g == Departed(s, us)
<1>1. Exists(gs) /\ s \in GameSession /\ Sound(gs)
  BY SessionIsRecord DEF Depart, RegistryInv
<1>2. sessions' = [sessions EXCEPT ![gs] = g]
  BY DEF Depart
<1>3. /\ rest \in SUBSET UserSession /\ rest \subseteq s.users
      /\ IsFiniteSet(rest) /\ n \in Nat /\ n <= s.count
  <2>1. IsFiniteSet(rest) /\ n \in Nat /\ n <= Cardinality(s.users)
    BY <1>1, WithoutFinite DEF Sound
  <2>2. rest \in SUBSET UserSession /\ rest \subseteq s.users
    BY <1>1 DEF GameSession, Without
  <2> QED BY <1>1, <2>1, <2>2 DEF Sound
<1>4. /\ g \in GameSession /\ g.users = rest /\ g.count = n /\ g.max = s.max
      /\ g.room = s.room
      /\ g.canParticipate = (s.canParticipate /\ rest # {})
      /\ g.state = IF rest = {} THEN "TERMINATED" ELSE s.state
  <2> DEFINE part  == s.canParticipate /\ rest # {}
             state == IF rest = {} THEN "TERMINATED" ELSE s.state
  <2>1. g = [s EXCEPT !.users = rest, !.count = n, !.canParticipate = part,
                      !.state = state]
    BY DEF Departed
  <2>2. part \in BOOLEAN /\ state \in {"ACTIVE", "TERMINATED"}
    BY <1>1 DEF GameSession
  <2> HIDE DEF rest, n, part, state
  <2> DEFINE h == [s EXCEPT !.users = rest, !.count = n, !.canParticipate = part,
                            !.state = state]
  <2>3. /\ h \in GameSession /\ h.users = rest /\ h.count = n /\ h.max = s.max
        /\ h.room = s.room /\ h.canParticipate = part /\ h.state = state
    BY <1>1, <1>3, <2>2 DEF GameSession
  <2> QED BY <2>1, <2>3 DEF part, state
<1> HIDE DEF rest, n
<1>5. sessions'[gs] = g /\ \A other \in Stamp \ {gs} : sessions'[other] = sessions[other]
  BY <1>2 DEF RegistryInv, RegistryTypeOK
<1> HIDE DEF g
<1>6. issued' = issued /\ clock' = clock
  BY DEF Depart
<1>7. RegistryTypeOK'
  <2>1. sessions' \in [Stamp -> GameSession \cup {NoSession}]
    BY <1>2, <1>4 DEF RegistryInv, RegistryTypeOK
  <2>2. pooled' \in [Stamp -> PublicMatch \cup {NotPooled}]
    <3>1. CASE ~IsPooled(gs)
      BY <3>1 DEF Depart, RegistryInv, RegistryTypeOK
    <3>2. CASE IsPooled(gs)
      <4> DEFINE p == [pooled[gs] EXCEPT !.members = Without(@, us)]
      <4>1. pooled[gs] \in PublicMatch
        BY <3>2, PoolIsRecord DEF RegistryInv
      <4>2. p \in PublicMatch
        BY <4>1 DEF PublicMatch, Without
      <4>3. pooled' = [pooled EXCEPT ![gs] = p]
        BY <3>2 DEF Depart, RegistryInv, RegistryTypeOK
      <4> QED BY <4>2, <4>3 DEF RegistryInv, RegistryTypeOK
    <3> QED BY <3>1, <3>2
  <2> QED BY <1>6, <2>1, <2>2 DEF RegistryInv, RegistryTypeOK
<1>8. Sound(gs)' /\ Exists(gs)'
  <2>1. Exists(gs)'
    BY <1>4, <1>5 DEF Exists, GameSession, NoSession
  <2>2. g.count = Cardinality(g.users) /\ IsFiniteSet(g.users)
    BY <1>3, <1>4 DEF n
  <2>3. g.count <= g.max
    BY <1>1, <1>3, <1>4 DEF Sound, GameSession
  <2>4. g.state = "ACTIVE" <=> g.users # {}
    BY <1>1, <1>3, <1>4 DEF Sound
  <2>5. g.canParticipate => g.users # {}
    BY <1>4
  <2>6. /\ \A u \in g.users : [gs |-> gs, us |-> u.us, uid |-> u.uid] \in issued
        /\ \A u, v \in g.users : u.uid = v.uid \/ u.us = v.us => u = v
    BY <1>1, <1>3, <1>4 DEF Sound
  <2> QED BY <1>1, <1>5, <1>6, <2>1, <2>2, <2>3, <2>4, <2>5, <2>6 DEF Sound
<1>9. ASSUME NEW other \in Stamp \ {gs}, Exists(other)'
      PROVE  Sound(other)'
  BY <1>5, <1>6, <1>9 DEF Exists, RegistryInv, Sound
<1>10. ASSUME NEW other \in Stamp, IsPooled(other)'
       PROVE  PoolSound(other)'
  <2>1. CASE other = gs
    <3>1. IsPooled(gs)
      BY <1>10, <2>1 DEF Depart, IsPooled
    <3>2. /\ pooled[gs] \in PublicMatch /\ PoolSound(gs)
          /\ pooled' = [pooled EXCEPT ![gs].members = Without(@, us)]
      BY <3>1, PoolIsRecord DEF Depart, RegistryInv
    <3>3. pooled'[gs].members = Without(pooled[gs].members, us) /\ pooled'[gs].key = pooled[gs].key
      BY <3>2 DEF RegistryInv, RegistryTypeOK, PublicMatch
    <3> QED BY <1>4, <1>5, <1>8, <2>1, <3>2, <3>3 DEF PoolSound, rest
  <2>2. CASE other # gs
    <3>1. pooled'[other] = pooled[other]
      BY <2>2 DEF Depart, RegistryInv, RegistryTypeOK
    <3>2. PoolSound(other)
      BY <1>10, <3>1 DEF IsPooled, RegistryInv
    <3> QED BY <1>5, <2>2, <3>1, <3>2 DEF PoolSound, Exists
  <2> QED BY <2>1, <2>2
<1> QED BY <1>6, <1>7, <1>8, <1>9, <1>10 DEF RegistryInv

(***************************************************************************)
(* So a step opens one session, lets one user into one, takes one user     *)
(* session out of one, or leaves the registry alone.                       *)
(***************************************************************************)
RegistryShape ==
  \/ UNCHANGED registryVars
  \/ \E s \in Stamp, uid \in Uid, g \in GameSession :
       Opened(s, uid, g) /\ PoolOpened(s, g) /\ g.max \in RoomSize
  \/ \E gs \in Stamp, uid \in Uid, g \in GameSession :
       /\ MayEnter(gs, uid) /\ ~SessionHasUID(gs, uid)
       /\ Entered(gs, uid, g) /\ PoolEntered(gs, g)
  \/ \E i \in issued : Depart(i.gs, i.us)

\* The six steps of the registry have four shapes.
LEMMA ShapeOfStep ==
  ASSUME RegistryInv, TicketTypeOK, CreationTypeOK, RegistryStep
  PROVE  RegistryShape
<1>1. CASE UNCHANGED registryVars
  BY <1>1 DEF RegistryShape
<1>2. ASSUME NEW key \in PoolKey, NEW uid \in Uid, OpenPublicMatchSession(key, uid)
      PROVE  RegistryShape
  <2> DEFINE s == clock'
             u == [us |-> s, uid |-> uid]
             fresh == [state |-> "ACTIVE", users |-> {}, count |-> 0,
                       max |-> Capacity[key.config], canParticipate |-> TRUE,
                       isPublic |-> key.room = NoRoom, locked |-> FALSE,
                       room |-> key.room]
             g == Seated(fresh, u, {u})
             p == [key |-> key, members |-> {u}]
  <2>1. s \in Stamp /\ s = clock + 1
    BY <1>2, TickType DEF OpenPublicMatchSession, RegistryInv
  <2>2. key.room \in Stamp \cup {NoRoom} /\ Capacity[key.config] \in Nat \ {0}
    BY RegistryAssumption DEF RegistryAssumption, PoolKey
  <2>3. fresh \in GameSession /\ u \in UserSession /\ p \in PublicMatch
    BY <2>1, <2>2 DEF GameSession, UserSession, PublicMatch
  <2>4. fresh.users = {} /\ fresh.max \in Nat \ {0} /\ fresh.state = "ACTIVE"
        /\ fresh.room = key.room
    BY <2>2
  <2> HIDE DEF fresh
  <2>5. Grown(g, fresh, u)
    <3>1. IsFiniteSet(fresh.users) /\ Cardinality(fresh.users) < fresh.max
      BY <2>4, FS_EmptySet
    <3>2. fresh.users \cup {u} = {u}
      BY <2>4
    <3> QED BY <2>3, <3>1, <3>2, SeatedGrows
  <2>6. Cardinality({u}) = 1
    BY FS_Singleton
  <2>7. /\ sessions' = [sessions EXCEPT ![s] = g]
        /\ pooled' = [pooled EXCEPT ![s] = p]
        /\ issued' = issued \cup {[gs |-> s, us |-> s, uid |-> uid]}
    BY <1>2 DEF OpenPublicMatchSession, Issue, fresh
  <2>8. Opened(s, uid, g)
    <3>1. fresh.users \cup {u} = {u}
      BY <2>4
    <3>2. g \in GameSession /\ g.users = {u} /\ g.count = 1
      BY <2>5, <2>6, <3>1 DEF Grown
    <3>3. 1 <= g.max /\ g.state = "ACTIVE"
      BY <2>4, <2>5 DEF Grown
    <3> QED BY <2>1, <2>7, <3>2, <3>3 DEF Opened
  <2>9. p.members = g.users /\ p.key.room = g.room
    BY <2>4, <2>5 DEF Grown
  <2>10. g \in GameSession /\ s \in Stamp
    BY <2>1, <2>5 DEF Grown
  <2>11. PoolOpened(s, g)
    BY <2>3, <2>7, <2>9 DEF PoolOpened
  <2>12. g.max \in RoomSize
    <3>1. g.max = Capacity[key.config] /\ key.config \in Config
      BY <2>5 DEF Grown, fresh, PoolKey
    <3> QED BY <3>1 DEF RoomSize
  <2> HIDE DEF g, p, s
  <2> QED BY <2>8, <2>10, <2>11, <2>12 DEF RegistryShape
<1>3. ASSUME NEW gs \in Stamp, NEW uid \in Uid, MayEnter(gs, uid), IsPooled(gs),
             ~PublicMatchHasUID(gs, uid) \/ ~SessionHasUID(gs, uid),
             AddPublicMatchMember(gs, uid)
      PROVE  RegistryShape
  <2> DEFINE u == [us |-> clock', uid |-> uid]
             s == sessions[gs]
             members == pooled[gs].members \cup {u}
             g == Seated(s, u, members)
             p == [pooled[gs] EXCEPT !.members = members]
  <2>1. clock' \in Stamp /\ clock' = clock + 1
    BY <1>3, TickType DEF AddPublicMatchMember, RegistryInv
  <2>2. /\ s \in GameSession /\ pooled[gs] \in PublicMatch
        /\ Sound(gs) /\ PoolSound(gs) /\ u \in UserSession
    BY <1>3, <2>1, SessionIsRecord, PoolIsRecord
       DEF MayEnter, Active, RegistryInv, UserSession
  <2>3. ~SessionHasUID(gs, uid)
    BY <1>3, <2>2 DEF PoolSound, PublicMatchHasUID, SessionHasUID
  <2>4. Grown(g, s, u)
    BY <1>3, <2>2, SeatedGrows DEF Sound, PoolSound, MayEnter
  <2>5. members \in SUBSET UserSession /\ members = g.users
    BY <2>2, <2>4 DEF PublicMatch, PoolSound, Grown
  <2> HIDE DEF members
  <2>6. p \in PublicMatch /\ p.members = members /\ p.key = pooled[gs].key
    BY <2>2, <2>5 DEF PublicMatch
  <2>7. /\ sessions' = [sessions EXCEPT ![gs] = g]
        /\ pooled' = [pooled EXCEPT ![gs] = p]
        /\ issued' = issued \cup {[gs |-> gs, us |-> clock', uid |-> uid]}
    BY <1>3 DEF AddPublicMatchMember, Issue, members, RegistryInv, RegistryTypeOK
  <2>8. Entered(gs, uid, g)
    BY <2>1, <2>4, <2>7 DEF Entered
  <2> QED BY <1>3, <2>3, <2>4, <2>5, <2>6, <2>7, <2>8
          DEF RegistryShape, PoolEntered, Grown
<1>4. ASSUME NEW gs \in Stamp, NEW uid \in Uid, MayEnter(gs, uid), ~IsPooled(gs),
             ~SessionHasUID(gs, uid), EnterRoom(gs, uid)
      PROVE  RegistryShape
  <2> DEFINE u == [us |-> clock', uid |-> uid]
             s == sessions[gs]
             users == s.users \cup {u}
             n == Cardinality(users)
             g == [s EXCEPT !.users = users, !.count = n]
  <2>1. clock' \in Stamp /\ clock' = clock + 1
    BY <1>4, TickType DEF EnterRoom, RegistryInv
  <2>2. s \in GameSession /\ Sound(gs) /\ u \in UserSession
    BY <1>4, <2>1, SessionIsRecord DEF MayEnter, Active, RegistryInv, UserSession
  <2>3. users \in SUBSET UserSession
    BY <2>2 DEF GameSession
  <2>4. n \in Nat
    BY <2>2, AddToFinite DEF Sound
  <2>5. sessions' = [sessions EXCEPT ![gs] = g]
    BY <1>4 DEF EnterRoom, RegistryInv, RegistryTypeOK
  <2> HIDE DEF users, n
  <2>6. /\ g \in GameSession /\ g.users = users /\ g.count = n /\ g.max = s.max
        /\ g.state = s.state /\ g.canParticipate = s.canParticipate /\ g.room = s.room
    BY <2>2, <2>3, <2>4 DEF GameSession
  <2>7. Entered(gs, uid, g)
    BY <1>4, <2>1, <2>5, <2>6 DEF Entered, Grown, EnterRoom, Issue, users, n
  <2>8. UNCHANGED pooled
    BY <1>4 DEF EnterRoom
  <2> QED BY <1>4, <2>6, <2>7, <2>8 DEF RegistryShape, PoolEntered
<1>5. ASSUME NEW t \in CreationId, CompleteGameSessionCreationTicket(t)
      PROVE  RegistryShape
  <2> DEFINE s == clock'
             ticket == creations[t]
             uid == ticket.uid
             g == [state |-> "ACTIVE", users |-> {[us |-> s, uid |-> uid]},
                   count |-> 1, max |-> GrantedMax(ticket), canParticipate |-> TRUE,
                   isPublic |-> ticket.config \notin FriendConfig /\ ~ticket.locked,
                   locked |-> ticket.locked, room |-> ticket.room]
  <2>1. s \in Stamp /\ s = clock + 1
    BY <1>5, TickType DEF CompleteGameSessionCreationTicket, OpenRoom, RegistryInv
  <2>2. ticket \in CreationTicket
    BY <1>5 DEF CompleteGameSessionCreationTicket, OpenRoom, CreationTypeOK
  <2>3. /\ uid \in Uid /\ ticket.locked \in BOOLEAN /\ ticket.room \in Stamp \cup {NoRoom}
        /\ GrantedMax(ticket) \in 1..MaxRoomSize
    BY <1>5, <2>2, ServiceAssumption
       DEF CreationTicket, ServiceAssumption, CompleteGameSessionCreationTicket, OpenRoom
  <2>4. g \in GameSession
    BY <2>1, <2>3, ServiceAssumption DEF GameSession, UserSession, ServiceAssumption
  <2>5. /\ g.users = {[us |-> s, uid |-> uid]} /\ g.count = 1 /\ 1 <= g.max
        /\ g.state = "ACTIVE"
    BY <2>3
  <2>6. /\ sessions' = [sessions EXCEPT ![s] = g]
        /\ issued' = issued \cup {[gs |-> s, us |-> s, uid |-> uid]}
    BY <1>5 DEF CompleteGameSessionCreationTicket, OpenRoom, Issue
  <2>7. Opened(s, uid, g)
    BY <2>1, <2>4, <2>5, <2>6 DEF Opened
  <2>8. UNCHANGED pooled
    BY <1>5 DEF CompleteGameSessionCreationTicket, OpenRoom
  <2>9. g.max \in RoomSize
    BY <2>3 DEF RoomSize
  <2> QED BY <2>3, <2>4, <2>1, <2>7, <2>8, <2>9 DEF RegistryShape, PoolOpened
<1>6. ASSUME NEW i \in issued, Depart(i.gs, i.us)
      PROVE  RegistryShape
  BY <1>6 DEF RegistryShape
<1> QED BY <1>1, <1>2, <1>3, <1>4, <1>5, <1>6 DEF RegistryStep

\* Whatever step a service takes, the registry stays sound.
LEMMA StepKeepsInv ==
  ASSUME RegistryInv, RegistryShape
  PROVE  RegistryInv'
<1>1. CASE UNCHANGED registryVars
  BY <1>1 DEF registryVars, RegistryInv, RegistryTypeOK, Sound, PoolSound, Exists, IsPooled
<1>2. ASSUME NEW i \in issued, Depart(i.gs, i.us)
      PROVE  RegistryInv'
  BY <1>2, DepartKeepsInv DEF RegistryInv, RegistryTypeOK
<1> QED BY <1>1, <1>2, OpenedKeepsInv, EnteredKeepsInv DEF RegistryShape

-----------------------------------------------------------------------------
(* Type correctness *)

\* TypeOK is the types of the three components together.
LEMMA TypeOKParts == TypeOK <=> RegistryTypeOK /\ TicketTypeOK /\ CreationTypeOK
  BY DEF TypeOK, RegistryTypeOK, TicketTypeOK, CreationTypeOK

\* A matchmaker binds a ticket to a session of the registry or to the one it
\* has just opened.
LEMMA PlacedInStamp ==
  ASSUME RegistryTypeOK, TicketTypeOK, NEW t \in TicketId, NEW uid,
         tickets[t] # NoTicket, PlaceTicket(t, uid)
  PROVE  \E gs \in Stamp : Bind(t, gs)
<1> DEFINE key == tickets[t].key
<1>1. CASE \E gs \in HoldsCaller(key, uid) : Bind(t, gs)
  BY <1>1 DEF HoldsCaller, SessionsByPool
<1>2. CASE \E gs \in HasVacancy(key) : Bind(t, gs)
  BY <1>2 DEF HasVacancy, SessionsByPool
<1>3. CASE OpenPublicMatchSession(key, uid) /\ Bind(t, clock')
  BY <1>3, TickType DEF OpenPublicMatchSession
<1> QED BY <1>1, <1>2, <1>3 DEF PlaceTicket

\* The matchmaker's variables keep their types.
LEMMA TicketTypesKept ==
  ASSUME RegistryTypeOK, TicketTypeOK, [Next]_vars
  PROVE  TicketTypeOK'
<1>1. CASE UNCHANGED matchmakerVars
  BY <1>1 DEF matchmakerVars, TicketTypeOK
<1>2. ASSUME NEW h \in Handler, NEW uid \in Uid, NEW key \in PoolKey,
             AuthorizeMatchmakingTicket(h, uid, key)
      PROVE  TicketTypeOK'
  <2>1. [pc |-> "authorized", uid |-> uid, key |-> key] \in Authorized
    BY DEF Authorized
  <2> QED BY <1>2, <2>1 DEF AuthorizeMatchmakingTicket, TicketTypeOK
<1>3. ASSUME NEW h \in Handler, StoreMatchmakingTicket(h)
      PROVE  TicketTypeOK'
  <2> DEFINE ticket == [uid |-> handler[h].uid, key |-> handler[h].key]
  <2>1. handler[h] \in Authorized
    BY <1>3 DEF StoreMatchmakingTicket, TicketTypeOK, Idle, Owned
  <2>2. ticket \in Ticket
    BY <2>1 DEF Authorized, Ticket
  <2>3. nextTicketID' \in 0..MaxTicket
    BY <1>3, MatchmakerAssumption
       DEF StoreMatchmakingTicket, TicketTypeOK, MatchmakerAssumption
  <2>4. tickets' = [tickets EXCEPT ![nextTicketID'] = ticket]
    BY <1>3 DEF StoreMatchmakingTicket
  <2>5. tickets' \in [TicketId -> Ticket \cup {NoTicket}]
    BY <2>2, <2>4 DEF TicketTypeOK
  <2>6. handler' \in [Handler -> {Idle} \cup Authorized \cup Owned]
    BY <1>3 DEF StoreMatchmakingTicket, TicketTypeOK
  <2> QED BY <1>3, <2>3, <2>5, <2>6 DEF StoreMatchmakingTicket, TicketTypeOK
<1>4. ASSUME NEW h \in Handler, NEW uid \in Uid, NEW t \in TicketId,
             TrackMatchmakingTicket(h, uid, t)
      PROVE  TicketTypeOK'
  <2>1. [pc |-> "owned", uid |-> uid, ticket |-> t] \in Owned
    BY DEF Owned
  <2> QED BY <1>4, <2>1 DEF TrackMatchmakingTicket, TicketTypeOK
<1>5. ASSUME NEW h \in Handler, CompleteMatchmakingTicket(h)
      PROVE  TicketTypeOK'
  <2> DEFINE t == handler[h].ticket
  <2>1. t \in TicketId
    BY <1>5 DEF CompleteMatchmakingTicket, TicketTypeOK, Idle, Authorized, Owned
  <2>2. ticketSessions' \in [TicketId -> Stamp \cup {0}]
    <3>1. CASE tickets[t] # NoTicket /\ ticketSessions[t] = 0
      <4>1. \E gs \in Stamp : Bind(t, gs)
        BY <1>5, <2>1, <3>1, PlacedInStamp DEF CompleteMatchmakingTicket
      <4> QED BY <4>1 DEF Bind, TicketTypeOK
    <3>2. CASE ~(tickets[t] # NoTicket /\ ticketSessions[t] = 0)
      BY <1>5, <3>2 DEF CompleteMatchmakingTicket, TicketTypeOK
    <3> QED BY <3>1, <3>2
  <2>3. handler' \in [Handler -> {Idle} \cup Authorized \cup Owned]
    BY <1>5 DEF CompleteMatchmakingTicket, TicketTypeOK
  <2> QED BY <1>5, <2>2, <2>3 DEF CompleteMatchmakingTicket, TicketTypeOK
<1>6. ASSUME NEW uid \in Uid, NEW t \in TicketId, CancelMatchmakingTicket(uid, t)
      PROVE  TicketTypeOK'
  BY <1>6 DEF CancelMatchmakingTicket, TicketTypeOK
<1> QED BY <1>1, <1>2, <1>3, <1>4, <1>5, <1>6
        DEF Next, MatchmakerNext, vars

\* The creation tickets keep their types.
LEMMA CreationTypesKept ==
  ASSUME RegistryTypeOK, CreationTypeOK, [Next]_vars
  PROVE  CreationTypeOK'
<1>1. CASE UNCHANGED serviceVars
  BY <1>1 DEF serviceVars, CreationTypeOK
<1>2. ASSUME NEW uid \in Uid, NEW config \in Config, NEW locked \in BOOLEAN,
             NEW max \in RequestedMax, NEW room \in RequestedRoom,
             CreateGameSessionCreationTicket(uid, config, locked, max, room)
      PROVE  CreationTypeOK'
  <2> DEFINE ticket == [uid |-> uid, config |-> config, locked |-> locked,
                        max |-> max, room |-> room, gs |-> 0]
  <2>1. ticket \in CreationTicket
    BY DEF CreationTicket
  <2>2. nextCreation' \in 0..MaxCreation
    BY <1>2, ServiceAssumption
       DEF CreateGameSessionCreationTicket, CreationTypeOK, ServiceAssumption
  <2> QED BY <1>2, <2>1, <2>2 DEF CreateGameSessionCreationTicket, CreationTypeOK
<1>3. ASSUME NEW t \in CreationId, CompleteGameSessionCreationTicket(t)
      PROVE  CreationTypeOK'
  <2> DEFINE ticket == [creations[t] EXCEPT !.gs = clock']
  <2>1. clock' \in Stamp
    BY <1>3, TickType DEF CompleteGameSessionCreationTicket, OpenRoom
  <2>2. creations[t] \in CreationTicket
    BY <1>3 DEF CompleteGameSessionCreationTicket, OpenRoom, CreationTypeOK
  <2>3. ticket \in CreationTicket
    BY <2>1, <2>2 DEF CreationTicket
  <2>4. creations' = [creations EXCEPT ![t] = ticket]
    BY <1>3 DEF CompleteGameSessionCreationTicket, OpenRoom, CreationTypeOK
  <2> QED BY <1>3, <2>3, <2>4 DEF CompleteGameSessionCreationTicket, OpenRoom, CreationTypeOK
<1> QED BY <1>1, <1>2, <1>3
        DEF Next, ServiceNext, JoinGameSession, RoomAdmits, vars

(***************************************************************************)
(* The inductive invariant: types, and every session sound.                *)
(***************************************************************************)
ServicesInv == TypeOK /\ RegistryInv

\* The empty server satisfies the inductive invariant.
LEMMA InitSound == Init => ServicesInv
<1> SUFFICES ASSUME Init PROVE ServicesInv
  OBVIOUS
<1>1. RegistryInv
  BY RegistryInitially DEF Init
<1>2. TicketTypeOK /\ CreationTypeOK
  BY MatchmakerAssumption, ServiceAssumption
     DEF Init, MatchmakerInit, ServiceInit, TicketTypeOK, CreationTypeOK,
         MatchmakerAssumption, ServiceAssumption
<1> QED BY <1>1, <1>2, TypeOKParts DEF ServicesInv, RegistryInv

\* Every step of every service preserves the inductive invariant.
LEMMA StepSound == ServicesInv /\ [Next]_vars => ServicesInv'
<1> SUFFICES ASSUME ServicesInv, [Next]_vars PROVE ServicesInv'
  OBVIOUS
<1>1. RegistryInv /\ RegistryTypeOK /\ TicketTypeOK /\ CreationTypeOK
  BY TypeOKParts DEF ServicesInv
<1>2. RegistryInv'
  BY <1>1, StepOfRegistry, ShapeOfStep, StepKeepsInv
<1>3. TicketTypeOK' /\ CreationTypeOK'
  BY <1>1, TicketTypesKept, CreationTypesKept
<1>4. TypeOK'
  BY <1>2, <1>3 DEF TypeOK, RegistryInv, RegistryTypeOK, TicketTypeOK, CreationTypeOK
<1> QED BY <1>2, <1>4 DEF ServicesInv

\* The inductive invariant holds at all times.
LEMMA AlwaysSound == Spec => []ServicesInv
  BY InitSound, StepSound, PTL DEF Spec

\* Every variable of the registry, the matchmaker and the game session service
\* always has its type; in particular, no participant count is ever negative.
THEOREM TypeCorrect == Spec => []TypeOK
  BY AlwaysSound, PTL DEF ServicesInv

\* The two member lists of a pooled session and the count that vacancy is
\* decided on stay equal, for any number of users, sessions and handlers.
THEOREM RostersAgree == Spec => []RosterAgrees
<1>1. ServicesInv => RosterAgrees
  BY DEF ServicesInv, RegistryInv, Sound, PoolSound, RosterAgrees
<1> QED BY <1>1, AlwaysSound, PTL

\* A user holds at most one slot of a session, placed by tickets or joined.
THEOREM OneSlot == Spec => []OneSlotPerUser
<1>1. ServicesInv => OneSlotPerUser
  BY DEF ServicesInv, RegistryInv, Sound, OneSlotPerUser
<1> QED BY <1>1, AlwaysSound, PTL

-----------------------------------------------------------------------------
(* What a step may never do *)

\* What later proofs use of a step of the services.
LEMMA SoundStepHasShape ==
  ASSUME ServicesInv, [Next]_vars
  PROVE  RegistryInv /\ RegistryShape
  BY TypeOKParts, StepOfRegistry, ShapeOfStep DEF ServicesInv

(***************************************************************************)
(* What happens to one session in a step.                                  *)
(***************************************************************************)
SessionChange(gs) ==
  \/ sessions'[gs] = sessions[gs]
  \/ /\ ~Exists(gs)
     /\ clock' = clock + 1
     /\ \E uid \in Uid : sessions'[gs].users = {[us |-> clock', uid |-> uid]}
  \/ /\ Active(gs)
     /\ clock' = clock + 1
     /\ sessions[gs].count < sessions[gs].max
     /\ \E uid \in Uid : Grown(sessions'[gs], sessions[gs], [us |-> clock', uid |-> uid])
  \/ /\ Exists(gs)
     /\ \E us \in Stamp : sessions'[gs] = Departed(sessions[gs], us)

\* One session is opened, entered or left by a step, or stays as it is.
LEMMA StepChangesSession ==
  ASSUME RegistryInv, RegistryShape, NEW gs \in Stamp
  PROVE  SessionChange(gs)
<1>1. CASE UNCHANGED registryVars
  BY <1>1 DEF registryVars, SessionChange
<1>2. ASSUME NEW s \in Stamp, NEW uid \in Uid, NEW g \in GameSession, Opened(s, uid, g)
      PROVE  SessionChange(gs)
  <2>1. CASE gs = s
    <3>1. ~Exists(s)
      BY <1>2 DEF Opened, RegistryInv, RegistryTypeOK, Sound, Stamp
    <3>2. sessions'[s] = g
      BY <1>2 DEF Opened, RegistryInv, RegistryTypeOK
    <3> QED BY <1>2, <2>1, <3>1, <3>2 DEF Opened, SessionChange
  <2>2. CASE gs # s
    BY <1>2, <2>2 DEF Opened, SessionChange, RegistryInv, RegistryTypeOK
  <2> QED BY <2>1, <2>2
<1>3. ASSUME NEW s \in Stamp, NEW uid \in Uid, NEW g \in GameSession,
             MayEnter(s, uid), Entered(s, uid, g)
      PROVE  SessionChange(gs)
  <2>1. CASE gs = s
    <3>1. sessions'[s] = g
      BY <1>3 DEF Entered, RegistryInv, RegistryTypeOK
    <3> QED BY <1>3, <2>1, <3>1 DEF MayEnter, Entered, SessionChange
  <2>2. CASE gs # s
    BY <1>3, <2>2 DEF Entered, SessionChange, RegistryInv, RegistryTypeOK
  <2> QED BY <2>1, <2>2
<1>4. ASSUME NEW i \in issued, Depart(i.gs, i.us)
      PROVE  SessionChange(gs)
  <2>1. i.gs \in Stamp /\ i.us \in Stamp
    BY DEF RegistryInv, RegistryTypeOK
  <2>2. CASE gs = i.gs
    BY <1>4, <2>1, <2>2 DEF Depart, SessionChange, RegistryInv, RegistryTypeOK
  <2>3. CASE gs # i.gs
    BY <1>4, <2>1, <2>3 DEF Depart, SessionChange, RegistryInv, RegistryTypeOK
  <2> QED BY <2>2, <2>3
<1> QED BY <1>1, <1>2, <1>3, <1>4 DEF RegistryShape

\* What departure leaves of a session's record.
LEMMA DepartedFields ==
  ASSUME NEW s \in GameSession, NEW us \in Stamp
  PROVE  /\ Departed(s, us).users = Without(s.users, us)
         /\ Departed(s, us).count = Cardinality(Without(s.users, us))
         /\ Departed(s, us).max = s.max
         /\ Departed(s, us).room = s.room
<1> DEFINE rest  == Without(s.users, us)
           n     == Cardinality(rest)
           part  == s.canParticipate /\ rest # {}
           state == IF rest = {} THEN "TERMINATED" ELSE s.state
<1>1. Departed(s, us) = [s EXCEPT !.users = rest, !.count = n,
                                  !.canParticipate = part, !.state = state]
  BY DEF Departed
<1> HIDE DEF rest, n, part, state
<1>2. \A h : h = [s EXCEPT !.users = rest, !.count = n, !.canParticipate = part,
                           !.state = state]
               => h.users = rest /\ h.count = n /\ h.max = s.max /\ h.room = s.room
  BY DEF GameSession
<1> QED BY <1>1, <1>2 DEF rest, n

\* A session is terminated exactly by losing its last user.
LEMMA DepartedState ==
  ASSUME NEW s \in GameSession, NEW us \in Stamp
  PROVE  /\ Departed(s, us).state = IF Without(s.users, us) = {} THEN "TERMINATED"
                                    ELSE s.state
         /\ Departed(s, us) # NoSession
<1> DEFINE rest  == Without(s.users, us)
           n     == Cardinality(rest)
           part  == s.canParticipate /\ rest # {}
           state == IF rest = {} THEN "TERMINATED" ELSE s.state
<1>1. Departed(s, us) = [s EXCEPT !.users = rest, !.count = n,
                                  !.canParticipate = part, !.state = state]
  BY DEF Departed
<1>2. state \in {"ACTIVE", "TERMINATED"}
  BY DEF GameSession
<1> HIDE DEF rest, n, part, state
<1>3. \A h : h = [s EXCEPT !.users = rest, !.count = n, !.canParticipate = part,
                           !.state = state] => h.state = state
  BY DEF GameSession
<1>4. Departed(s, us).state = state
  BY <1>1, <1>3
<1> QED BY <1>2, <1>4 DEF NoSession, state, rest

\* No step, of any mixture of tickets, joins and departures, raises the size a
\* session was opened for or puts more users into it.
THEOREM CapacityKept == Spec => CapacityRespected
<1>1. ASSUME ServicesInv, [Next]_vars, NEW gs \in Stamp, Exists(gs)
      PROVE  /\ sessions'[gs].max = sessions[gs].max
             /\ sessions'[gs].count <= sessions[gs].max
  <2> DEFINE s == sessions[gs]
  <2>1. RegistryInv /\ SessionChange(gs)
    BY <1>1, SoundStepHasShape, StepChangesSession
  <2>2. s \in GameSession /\ Sound(gs)
    BY <1>1, <2>1, SessionIsRecord DEF RegistryInv
  <2>3. CASE sessions'[gs] = s
    BY <2>2, <2>3 DEF Sound
  <2>4. ASSUME s.count < s.max, NEW u, Grown(sessions'[gs], s, u)
        PROVE  sessions'[gs].max = s.max /\ sessions'[gs].count <= s.max
    <3>1. /\ Cardinality(s.users) \in Nat /\ Cardinality(s.users \cup {u}) \in Nat
          /\ Cardinality(s.users \cup {u}) <= Cardinality(s.users) + 1
      BY <2>2, AddToFinite DEF Sound
    <3>2. s.max \in Nat /\ Cardinality(s.users) < s.max
      BY <2>2, <2>4 DEF Sound, GameSession
    <3> QED BY <2>4, <3>1, <3>2 DEF Grown
  <2>5. ASSUME NEW us \in Stamp, sessions'[gs] = Departed(s, us)
        PROVE  sessions'[gs].max = s.max /\ sessions'[gs].count <= s.max
    <3>1. /\ Cardinality(Without(s.users, us)) \in Nat
          /\ Cardinality(Without(s.users, us)) <= s.count
      BY <2>2, WithoutFinite DEF Sound
    <3>2. s.max \in Nat /\ s.count \in Nat /\ s.count <= s.max
      BY <2>2 DEF Sound, GameSession
    <3> QED BY <2>2, <2>5, <3>1, <3>2, DepartedFields
  <2> QED BY <1>1, <2>1, <2>3, <2>4, <2>5 DEF SessionChange
<1>2. ServicesInv /\ [Next]_vars
        => [\A gs \in Stamp : Exists(gs)
              => /\ sessions'[gs].max = sessions[gs].max
                 /\ sessions'[gs].count <= sessions[gs].max]_vars
  BY <1>1
<1> QED BY <1>2, AlwaysSound, PTL DEF Spec, CapacityRespected

\* A user session that has departed is never a member again, so that a match
\* token of it stays refused.
THEOREM StaleTokensStayRefused == Spec => StaleTokenRefused
<1>1. ASSUME ServicesInv, [Next]_vars, NEW i \in issued, ~Member(i.gs, i.us, i.uid)
      PROVE  ~Member(i.gs, i.us, i.uid)'
  <2> DEFINE gs == i.gs
             m  == [us |-> i.us, uid |-> i.uid]
  <2>1. /\ RegistryInv /\ gs \in Stamp /\ i.us <= clock /\ clock \in Nat
        /\ SessionChange(gs) /\ i.us \in Stamp
    BY <1>1, SoundStepHasShape, StepChangesSession, RegistryAssumption
       DEF RegistryInv, RegistryTypeOK, RegistryAssumption
  <2>2. ASSUME NEW uid, clock' = clock + 1 PROVE m # [us |-> clock', uid |-> uid]
    BY <2>1, <2>2 DEF Stamp
  <2>3. CASE sessions'[gs] = sessions[gs]
    BY <1>1, <2>3 DEF Member, Exists
  <2>4. ASSUME NEW uid, clock' = clock + 1,
               sessions'[gs].users = {[us |-> clock', uid |-> uid]}
        PROVE  m \notin sessions'[gs].users
    BY <2>2, <2>4
  <2>5. ASSUME NEW uid, clock' = clock + 1, Exists(gs),
               Grown(sessions'[gs], sessions[gs], [us |-> clock', uid |-> uid])
        PROVE  m \notin sessions'[gs].users
    BY <1>1, <2>2, <2>5 DEF Grown, Member
  <2>6. ASSUME Exists(gs), NEW us \in Stamp, sessions'[gs] = Departed(sessions[gs], us)
        PROVE  m \notin sessions'[gs].users
    BY <1>1, <2>1, <2>6, DepartedFields, SessionIsRecord DEF Member, Without, RegistryInv
  <2> QED BY <2>1, <2>3, <2>4, <2>5, <2>6 DEF SessionChange, Member, Active
<1>2. ServicesInv /\ [Next]_vars
        => [\A i \in issued :
              ~Member(i.gs, i.us, i.uid) => ~Member(i.gs, i.us, i.uid)']_vars
  BY <1>1
<1> QED BY <1>2, AlwaysSound, PTL DEF Spec, StaleTokenRefused

\* Departure from a session that is already a tombstone changes nothing.
LEMMA DepartedTombstone ==
  ASSUME NEW s \in GameSession, NEW us \in Stamp, s.users = {}, s.count = Cardinality(s.users),
         s.state = "TERMINATED", ~s.canParticipate
  PROVE  Departed(s, us) = s
<1>1. Without(s.users, us) = {}
  BY DEF Without
<1>2. Departed(s, us) = [s EXCEPT !.users = s.users, !.count = s.count,
                                  !.canParticipate = s.canParticipate, !.state = s.state]
  BY <1>1 DEF Departed, GameSession
<1>3. \A h : h = [s EXCEPT !.users = s.users, !.count = s.count,
                           !.canParticipate = s.canParticipate, !.state = s.state]
               => h = s
  BY DEF GameSession
<1> QED BY <1>2, <1>3

\* An emptied session is a tombstone, and stays exactly as it is.
THEOREM TombstonesFinal == Spec => TombstoneFinal
<1>1. ASSUME ServicesInv, [Next]_vars, NEW gs \in Stamp, Exists(gs),
             sessions[gs].users = {}
      PROVE  sessions[gs].state = "TERMINATED" /\ sessions'[gs] = sessions[gs]
  <2> DEFINE s == sessions[gs]
  <2>1. RegistryInv /\ SessionChange(gs)
    BY <1>1, SoundStepHasShape, StepChangesSession
  <2>2. s \in GameSession /\ Sound(gs)
    BY <1>1, <2>1, SessionIsRecord DEF RegistryInv
  <2>3. s.state = "TERMINATED" /\ ~s.canParticipate /\ s.count = Cardinality(s.users)
    BY <1>1, <2>2 DEF Sound, GameSession
  <2>4. \A us \in Stamp : Departed(s, us) = s
    BY <1>1, <2>2, <2>3, DepartedTombstone
  <2> QED BY <1>1, <2>1, <2>3, <2>4 DEF SessionChange, Active
<1>2. ServicesInv /\ [Next]_vars
        => [\A gs \in Stamp : Exists(gs) /\ sessions[gs].users = {}
              => /\ sessions[gs].state = "TERMINATED"
                 /\ sessions'[gs] = sessions[gs]]_vars
  BY <1>1
<1> QED BY <1>2, AlwaysSound, PTL DEF Spec, TombstoneFinal
-----------------------------------------------------------------------------
(***************************************************************************)
(* Tickets and friend rooms.  The room that a ticket names is checked when *)
(* the ticket is made, and may be stale when it is placed; what stays true *)
(* is that its user was once in the room.  A handler that carries a ticket *)
(* number carries its owner, for numbers are not given out twice.          *)
(***************************************************************************)
WasIn(uid, room) == room = NoRoom \/ uid \in EverIn(room)

TicketInv ==
  /\ \A h \in Handler : handler[h].pc = "authorized" =>
       WasIn(handler[h].uid, handler[h].key.room)
  /\ \A h \in Handler : handler[h].pc = "owned" =>
       /\ handler[h].ticket <= nextTicketID
       /\ tickets[handler[h].ticket] # NoTicket
            => tickets[handler[h].ticket].uid = handler[h].uid
  /\ \A t \in TicketId : tickets[t] # NoTicket =>
       t <= nextTicketID /\ WasIn(tickets[t].uid, tickets[t].key.room)

\* Nobody is ever taken out of the record of who was in a session.
LEMMA IssuedGrows ==
  ASSUME RegistryInv, RegistryShape
  PROVE  issued \subseteq issued'
  BY DEF RegistryShape, registryVars, Opened, Entered, Depart

\* Who was in a room once has been in it ever after.
LEMMA WasInStays ==
  ASSUME issued \subseteq issued', NEW uid, NEW room, WasIn(uid, room)
  PROVE  WasIn(uid, room)'
  BY DEF WasIn, EverIn

\* A user who is in a session is on record as having been in it.
LEMMA HasMeansWasIn ==
  ASSUME RegistryInv, NEW gs \in Stamp, NEW uid, SessionHasUID(gs, uid)
  PROVE  uid \in EverIn(gs)
<1>1. PICK u \in sessions[gs].users : u.uid = uid
  BY DEF SessionHasUID
<1>2. [gs |-> gs, us |-> u.us, uid |-> u.uid] \in issued
  BY DEF SessionHasUID, RegistryInv, Sound
<1> QED BY <1>1, <1>2 DEF EverIn

\* Without tickets and busy handlers TicketInv says nothing.
LEMMA TicketInvInitially == Init => TicketInv
  BY DEF Init, MatchmakerInit, TicketInv, Idle, NoTicket

\* No step of a ticket's life loses what the handlers rely on.
LEMMA TicketInvKept ==
  ASSUME ServicesInv, TicketInv, [Next]_vars
  PROVE  TicketInv'
<1>1. RegistryInv /\ RegistryShape /\ TicketTypeOK /\ issued \subseteq issued'
  BY SoundStepHasShape, IssuedGrows, TypeOKParts DEF ServicesInv
<1>2. CASE UNCHANGED matchmakerVars
  BY <1>1, <1>2, WasInStays DEF matchmakerVars, TicketInv
<1>3. ASSUME NEW h \in Handler, NEW uid \in Uid, NEW key \in PoolKey,
             AuthorizeMatchmakingTicket(h, uid, key)
      PROVE  TicketInv'
  <2>1. WasIn(uid, key.room)
    BY <1>1, <1>3, HasMeansWasIn
       DEF AuthorizeMatchmakingTicket, MayUsePool, WasIn, PoolKey, NoRoom
  <2>2. handler' = [handler EXCEPT ![h] = [pc |-> "authorized", uid |-> uid, key |-> key]]
    BY <1>3 DEF AuthorizeMatchmakingTicket
  <2>3. tickets' = tickets /\ nextTicketID' = nextTicketID
    BY <1>3 DEF AuthorizeMatchmakingTicket
  <2>4. \A i \in Handler : IF i = h
                           THEN handler'[i] = [pc |-> "authorized", uid |-> uid, key |-> key]
                           ELSE handler'[i] = handler[i]
    BY <1>1, <2>2 DEF TicketTypeOK
  <2> QED BY <1>1, <2>1, <2>3, <2>4, WasInStays DEF TicketInv
<1>4. ASSUME NEW h \in Handler, StoreMatchmakingTicket(h)
      PROVE  TicketInv'
  <2> DEFINE ticket == [uid |-> handler[h].uid, key |-> handler[h].key]
             next   == nextTicketID + 1
  <2>1. WasIn(ticket.uid, ticket.key.room)
    BY <1>4 DEF StoreMatchmakingTicket, TicketInv
  <2>2. /\ nextTicketID' = next /\ next \in TicketId /\ nextTicketID \in Nat
        /\ tickets' = [tickets EXCEPT ![next] = ticket]
        /\ handler' = [handler EXCEPT ![h] = Idle]
    BY <1>1, <1>4, MatchmakerAssumption
       DEF StoreMatchmakingTicket, TicketTypeOK, TicketId, MatchmakerAssumption
  <2>3. \A t \in TicketId : tickets'[t] = IF t = next THEN ticket ELSE tickets[t]
    BY <1>1, <2>2 DEF TicketTypeOK
  <2>4. \A i \in Handler : handler'[i] = handler[i] \/ handler'[i] = Idle
    BY <1>1, <2>2 DEF TicketTypeOK
  <2>5. (\A i \in Handler : handler[i].pc = "authorized" =>
           WasIn(handler[i].uid, handler[i].key.room))'
    BY <1>1, <2>4, WasInStays DEF TicketInv, Idle
  <2>6. ASSUME NEW i \in Handler, handler'[i].pc = "owned"
        PROVE  /\ handler'[i].ticket <= nextTicketID'
               /\ tickets'[handler'[i].ticket] # NoTicket
                    => tickets'[handler'[i].ticket].uid = handler'[i].uid
    <3>1. handler'[i] = handler[i] /\ handler[i].pc = "owned"
      BY <2>4, <2>6 DEF Idle
    <3>2. handler[i].ticket \in TicketId /\ handler[i].ticket <= nextTicketID
      BY <1>1, <3>1 DEF TicketInv, TicketTypeOK, Idle, Authorized, Owned
    <3>3. tickets'[handler[i].ticket] = tickets[handler[i].ticket]
      BY <2>2, <2>3, <3>2 DEF TicketId
    <3> QED BY <2>2, <3>1, <3>2, <3>3 DEF TicketInv, TicketId
  <2>7. ASSUME NEW t \in TicketId, tickets'[t] # NoTicket
        PROVE  (t <= nextTicketID /\ WasIn(tickets[t].uid, tickets[t].key.room))'
    <3>1. CASE t = next
      BY <1>1, <2>1, <2>2, <2>3, <3>1, WasInStays DEF TicketId
    <3>2. CASE t # next
      BY <1>1, <2>2, <2>3, <2>7, <3>2, WasInStays DEF TicketInv, TicketId
    <3> QED BY <3>1, <3>2
  <2> QED BY <2>5, <2>6, <2>7 DEF TicketInv
<1>5. ASSUME NEW h \in Handler, NEW uid \in Uid, NEW t \in TicketId,
             TrackMatchmakingTicket(h, uid, t)
      PROVE  TicketInv'
  <2> DEFINE owned == [pc |-> "owned", uid |-> uid, ticket |-> t]
  <2>1. tickets[t] # NoTicket /\ tickets[t].uid = uid /\ t <= nextTicketID
    BY <1>5 DEF TrackMatchmakingTicket, TicketInv
  <2>2. tickets' = tickets /\ nextTicketID' = nextTicketID
        /\ handler' = [handler EXCEPT ![h] = owned]
    BY <1>5 DEF TrackMatchmakingTicket
  <2>3. \A i \in Handler : IF i = h THEN handler'[i] = owned ELSE handler'[i] = handler[i]
    BY <1>1, <2>2 DEF TicketTypeOK
  <2> QED BY <1>1, <2>1, <2>2, <2>3, WasInStays DEF TicketInv
<1>6. ASSUME NEW h \in Handler, CompleteMatchmakingTicket(h)
      PROVE  TicketInv'
  <2>1. tickets' = tickets /\ nextTicketID' = nextTicketID
        /\ handler' = [handler EXCEPT ![h] = Idle]
    BY <1>6 DEF CompleteMatchmakingTicket
  <2>2. \A i \in Handler : handler'[i] = handler[i] \/ handler'[i] = Idle
    BY <1>1, <2>1 DEF TicketTypeOK
  <2> QED BY <1>1, <2>1, <2>2, WasInStays DEF TicketInv, Idle
<1>7. ASSUME NEW uid \in Uid, NEW t \in TicketId, CancelMatchmakingTicket(uid, t)
      PROVE  TicketInv'
  <2>1. /\ handler' = handler /\ nextTicketID' = nextTicketID
        /\ \A i \in TicketId : tickets'[i] = tickets[i] \/ tickets'[i] = NoTicket
    BY <1>1, <1>7 DEF CancelMatchmakingTicket, TicketTypeOK
  <2>2. \A i \in Handler : handler[i].pc = "owned" => handler[i].ticket \in TicketId
    BY <1>1 DEF TicketTypeOK, Idle, Authorized, Owned
  <2> QED BY <1>1, <2>1, <2>2, WasInStays DEF TicketInv
<1> QED BY <1>2, <1>3, <1>4, <1>5, <1>6, <1>7 DEF Next, MatchmakerNext, vars

\* One more user session is handed out, to somebody who was in the room that
\* the session is a pool of.
LEMMA OneMoreFromRoom ==
  ASSUME FriendPoolFromRoom, NEW g \in Stamp, NEW us, NEW uid,
         issued' = issued \cup {[gs |-> g, us |-> us, uid |-> uid]},
         \A x \in Stamp \ {g} : IsPooled(x)' => /\ IsPooled(x)
                                                /\ pooled'[x].key = pooled[x].key,
         IsPooled(g)' => /\ WasIn(uid, pooled'[g].key.room)
                         /\ \A other \in EverIn(g) : WasIn(other, pooled'[g].key.room)
  PROVE  FriendPoolFromRoom'
<1>1. \A x : EverIn(x) \subseteq EverIn(x)'
  BY DEF EverIn
<1>2. ASSUME NEW x \in Stamp, IsPooled(x)', pooled'[x].key.room # NoRoom
      PROVE  EverIn(x)' \subseteq EverIn(pooled'[x].key.room)
  <2>1. CASE x = g
    <3>1. ASSUME NEW v \in EverIn(g)', v # uid
          PROVE  v \in EverIn(g)
      <4>1. PICK i \in issued' : i.gs = g /\ i.uid = v
        BY <3>1 DEF EverIn
      <4>2. i \in issued
        BY <3>1, <4>1
      <4> QED BY <4>1, <4>2 DEF EverIn
    <3> QED BY <1>2, <2>1, <3>1 DEF WasIn
  <2>2. CASE x # g
    <3>1. EverIn(x)' = EverIn(x)
      BY <2>2 DEF EverIn
    <3> QED BY <1>2, <2>2, <3>1 DEF FriendPoolFromRoom
  <2> QED BY <2>1, <2>2
<1>3. \A x \in Stamp : pooled'[x].key.room = (pooled[x].key.room)'
  OBVIOUS
<1> QED BY <1>1, <1>2, <1>3 DEF FriendPoolFromRoom

\* A pool is opened and entered only on tickets that TicketInv speaks of.
LEMMA FriendPoolsKept ==
  ASSUME ServicesInv, TicketInv, FriendPoolFromRoom, [Next]_vars
  PROVE  FriendPoolFromRoom'
<1>1. RegistryInv /\ RegistryShape /\ TicketTypeOK /\ CreationTypeOK /\ RegistryTypeOK
  BY SoundStepHasShape, TypeOKParts DEF ServicesInv
<1>2. CASE UNCHANGED registryVars
  BY <1>2 DEF registryVars, FriendPoolFromRoom, EverIn, IsPooled
<1>3. ASSUME NEW i \in issued, Depart(i.gs, i.us)
      PROVE  FriendPoolFromRoom'
  <2>1. issued' = issued
    BY <1>3 DEF Depart
  <2>2. \A x \in Stamp : IsPooled(x)' => IsPooled(x) /\ pooled'[x].key = pooled[x].key
    <3>1. CASE ~IsPooled(i.gs)
      BY <1>3, <3>1 DEF Depart, IsPooled
    <3>2. CASE IsPooled(i.gs)
      <4>1. i.gs \in Stamp /\ pooled[i.gs] \in PublicMatch
        BY <1>1, <3>2, PoolIsRecord DEF RegistryTypeOK
      <4>2. \A x \in Stamp \ {i.gs} : pooled'[x] = pooled[x]
        BY <1>1, <1>3, <3>2 DEF Depart, RegistryTypeOK
      <4>3. pooled'[i.gs].key = pooled[i.gs].key
        BY <1>1, <1>3, <3>2, <4>1 DEF Depart, RegistryTypeOK, PublicMatch
      <4> QED BY <3>2, <4>2, <4>3 DEF IsPooled
    <3> QED BY <3>1, <3>2
  <2> QED BY <2>1, <2>2 DEF FriendPoolFromRoom, EverIn
<1>4. ASSUME NEW gs \in Stamp, NEW uid \in Uid, IsPooled(gs),
             AddPublicMatchMember(gs, uid), WasIn(uid, pooled[gs].key.room)
      PROVE  FriendPoolFromRoom'
  <2>1. /\ issued' = issued \cup {[gs |-> gs, us |-> clock', uid |-> uid]}
        /\ \A x \in Stamp \ {gs} : pooled'[x] = pooled[x]
    BY <1>1, <1>4 DEF AddPublicMatchMember, Issue, RegistryTypeOK
  <2>2. pooled'[gs].key = pooled[gs].key
    BY <1>1, <1>4, PoolIsRecord DEF AddPublicMatchMember, RegistryTypeOK, PublicMatch
  <2>3. \A other \in EverIn(gs) : WasIn(other, pooled[gs].key.room)
    BY <1>4 DEF FriendPoolFromRoom, WasIn
  <2> QED BY <1>4, <2>1, <2>2, <2>3, OneMoreFromRoom DEF IsPooled
<1>5. ASSUME NEW key \in PoolKey, NEW uid \in Uid, OpenPublicMatchSession(key, uid),
             WasIn(uid, key.room)
      PROVE  FriendPoolFromRoom'
  <2> DEFINE s == clock'
             p == [key |-> key, members |-> {[us |-> s, uid |-> uid]}]
  <2>1. s \in Stamp /\ s = clock + 1
    BY <1>1, <1>5, TickType DEF OpenPublicMatchSession
  <2>2. /\ issued' = issued \cup {[gs |-> s, us |-> s, uid |-> uid]}
        /\ pooled' = [pooled EXCEPT ![s] = p]
    BY <1>5 DEF OpenPublicMatchSession, Issue
  <2>3. pooled'[s].key = key /\ \A x \in Stamp \ {s} : pooled'[x] = pooled[x]
    BY <1>1, <2>1, <2>2 DEF RegistryTypeOK
  <2>4. EverIn(s) = {}
    BY <1>1, <2>1 DEF EverIn, RegistryInv, RegistryTypeOK, Stamp
  <2> QED BY <1>5, <2>1, <2>2, <2>3, <2>4, OneMoreFromRoom DEF IsPooled
<1>6. ASSUME NEW gs \in Stamp, NEW uid \in Uid, NEW us, ~IsPooled(gs), UNCHANGED pooled,
             issued' = issued \cup {[gs |-> gs, us |-> us, uid |-> uid]}
      PROVE  FriendPoolFromRoom'
  BY <1>6, OneMoreFromRoom DEF IsPooled
<1>7. ASSUME NEW h \in Handler, CompleteMatchmakingTicket(h)
      PROVE  FriendPoolFromRoom'
  <2> DEFINE t   == handler[h].ticket
             uid == handler[h].uid
             key == tickets[t].key
  <2>1. /\ handler[h].pc = "owned" /\ t \in TicketId /\ uid \in Uid
    BY <1>1, <1>7 DEF CompleteMatchmakingTicket, TicketTypeOK, Idle, Authorized, Owned
  <2>2. CASE tickets[t] # NoTicket /\ ticketSessions[t] = 0
    <3>1. key \in PoolKey /\ WasIn(uid, key.room)
      BY <1>1, <2>1, <2>2 DEF TicketInv, TicketTypeOK, Ticket
    <3>2. PlaceTicket(t, uid)
      BY <1>7, <2>2 DEF CompleteMatchmakingTicket
    <3>3. ASSUME NEW gs \in HasVacancy(key), AddPublicMatchMember(gs, uid)
          PROVE  FriendPoolFromRoom'
      BY <1>4, <2>1, <3>1, <3>3 DEF HasVacancy, SessionsByPool
    <3> QED BY <1>2, <1>5, <2>1, <3>1, <3>2, <3>3 DEF PlaceTicket
  <2>3. CASE ~(tickets[t] # NoTicket /\ ticketSessions[t] = 0)
    BY <1>2, <1>7, <2>3 DEF CompleteMatchmakingTicket, registryVars
  <2> QED BY <2>2, <2>3
<1>8. ASSUME NEW uid \in Uid, NEW gs \in Stamp, NEW friends \in SUBSET Uid,
             NEW password \in BOOLEAN, JoinGameSession(uid, gs, friends, password)
      PROVE  FriendPoolFromRoom'
  <2>1. CASE IsPooled(gs)
    <3>1. sessions[gs].room = NoRoom
      BY <1>8 DEF JoinGameSession, RoomAdmits, RoomVisible
    <3>2. WasIn(uid, pooled[gs].key.room)
      BY <1>1, <2>1, <3>1 DEF RegistryInv, PoolSound, WasIn
    <3> QED BY <1>4, <1>8, <2>1, <3>2 DEF JoinGameSession, RoomAdmits
  <2>2. CASE ~IsPooled(gs)
    BY <1>6, <1>8, <2>2 DEF JoinGameSession, RoomAdmits, EnterRoom, Issue
  <2> QED BY <2>1, <2>2
<1>9. ASSUME NEW t \in CreationId, CompleteGameSessionCreationTicket(t)
      PROVE  FriendPoolFromRoom'
  <2>1. clock' \in Stamp /\ clock' = clock + 1
    BY <1>1, <1>9, TickType DEF CompleteGameSessionCreationTicket, OpenRoom
  <2>2. ~IsPooled(clock')
    BY <1>1, <2>1 DEF RegistryInv, RegistryTypeOK, PoolSound, Sound, Stamp
  <2>3. creations[t].uid \in Uid
    BY <1>1, <1>9 DEF CompleteGameSessionCreationTicket, OpenRoom, CreationTypeOK, CreationTicket
  <2> QED BY <1>6, <1>9, <2>1, <2>2, <2>3 DEF CompleteGameSessionCreationTicket, OpenRoom, Issue
<1>10. CASE MatchmakerNext
  BY <1>2, <1>7, <1>10
     DEF MatchmakerNext, AuthorizeMatchmakingTicket, StoreMatchmakingTicket,
         TrackMatchmakingTicket, CancelMatchmakingTicket
<1>11. CASE ServiceNext
  BY <1>2, <1>8, <1>9, <1>11 DEF ServiceNext, CreateGameSessionCreationTicket
<1> QED BY <1>2, <1>3, <1>10, <1>11 DEF Next, vars

\* The invariants of the ticket theorems hold at all times.
LEMMA TicketsAlwaysSound == Spec => [](ServicesInv /\ TicketInv /\ FriendPoolFromRoom)
<1>1. Init => FriendPoolFromRoom
  BY DEF Init, RegistryInit, FriendPoolFromRoom, IsPooled
<1> QED BY <1>1, InitSound, TicketInvInitially, StepSound, TicketInvKept, FriendPoolsKept, PTL
        DEF Spec

\* However stale the room check of a ticket is when it is placed, a friend pool
\* only ever holds users who have been in its room.
THEOREM FriendPoolsFromRooms == Spec => []FriendPoolFromRoom
  BY TicketsAlwaysSound, PTL

\* A binding is made by completing a ticket that has none.
LEMMA BindingIsPlacement ==
  ASSUME TicketTypeOK, RegistryTypeOK, TicketInv, [Next]_vars, NEW t \in TicketId,
         ticketSessions'[t] # ticketSessions[t]
  PROVE  /\ tickets[t] # NoTicket /\ ticketSessions[t] = 0
         /\ PlaceTicket(t, tickets[t].uid)
<1>1. PICK h \in Handler : CompleteMatchmakingTicket(h)
  BY DEF Next, vars, MatchmakerNext, ServiceNext, matchmakerVars,
         AuthorizeMatchmakingTicket, StoreMatchmakingTicket, TrackMatchmakingTicket,
         CancelMatchmakingTicket
<1> DEFINE n == handler[h].ticket
<1>2. handler[h].pc = "owned" /\ n \in TicketId
  BY <1>1 DEF CompleteMatchmakingTicket, TicketTypeOK, Idle, Authorized, Owned
<1>3. tickets[n] # NoTicket /\ ticketSessions[n] = 0 /\ PlaceTicket(n, handler[h].uid)
  BY <1>1 DEF CompleteMatchmakingTicket
<1>4. \E gs \in Stamp : ticketSessions' = [ticketSessions EXCEPT ![n] = gs]
  BY <1>2, <1>3, PlacedInStamp DEF Bind
<1>5. t = n
  BY <1>2, <1>4 DEF TicketTypeOK
<1>6. tickets[n].uid = handler[h].uid
  BY <1>2, <1>3 DEF TicketInv
<1> QED BY <1>3, <1>5, <1>6

\* Tracking a placed ticket never moves it to another session.
THEOREM TicketsPlacedOnce == Spec => TicketPlacedOnce
<1>1. ServicesInv /\ TicketInv /\ [Next]_vars
        => [\A t \in TicketId :
              ticketSessions[t] # 0 => ticketSessions'[t] = ticketSessions[t]]_vars
  BY BindingIsPlacement, TypeOKParts DEF ServicesInv
<1> QED BY <1>1, TicketsAlwaysSound, PTL DEF Spec, TicketPlacedOnce

\* A new ticket of a user who holds a slot in the pool resolves to that slot.
THEOREM RepeatedTicketsTakeNoSlot == Spec => RepeatedTicketTakesNoSlot
<1>1. ASSUME ServicesInv, TicketInv, [Next]_vars, NEW t \in TicketId,
             ticketSessions'[t] # ticketSessions[t],
             HoldsCaller(tickets[t].key, tickets[t].uid) # {}
      PROVE  /\ ticketSessions'[t] \in HoldsCaller(tickets[t].key, tickets[t].uid)
             /\ UNCHANGED sessions
  <2>1. PlaceTicket(t, tickets[t].uid) /\ TicketTypeOK
    BY <1>1, BindingIsPlacement, TypeOKParts DEF ServicesInv
  <2>2. PICK gs \in HoldsCaller(tickets[t].key, tickets[t].uid) :
          Bind(t, gs) /\ UNCHANGED registryVars
    BY <1>1, <2>1 DEF PlaceTicket
  <2> QED BY <2>1, <2>2 DEF Bind, registryVars, TicketTypeOK
<1>2. ServicesInv /\ TicketInv /\ [Next]_vars
        => [\A t \in TicketId :
              ticketSessions'[t] # ticketSessions[t]
                => LET uid == tickets[t].uid
                       own == HoldsCaller(tickets[t].key, uid)
                   IN  own # {} => /\ ticketSessions'[t] \in own
                                   /\ UNCHANGED sessions]_vars
  BY <1>1
<1> QED BY <1>2, TicketsAlwaysSound, PTL DEF Spec, RepeatedTicketTakesNoSlot
-----------------------------------------------------------------------------
(* Creation tickets *)

\* Tickets are numbered from one on; rooms are named by past readings of the
\* clock, a different one for each ticket.
CreationInv ==
  \A t \in CreationId :
    /\ t > nextCreation => creations[t] = NoCreation
    /\ creations[t] # NoCreation => creations[t].gs \in 0..clock
    /\ \A other \in CreationId :
         /\ creations[t] # NoCreation /\ creations[t].gs # 0
         /\ creations[other] # NoCreation /\ other # t
         => creations[other].gs # creations[t].gs

\* A ticket is stored under the next number, PENDING.
TicketCreated ==
  /\ nextCreation + 1 \in CreationId /\ nextCreation' = nextCreation + 1
  /\ \E ticket \in CreationTicket :
       ticket.gs = 0 /\ creations' = [creations EXCEPT ![nextCreation + 1] = ticket]
  /\ clock' = clock

\* A PENDING ticket is given a room with a new name.
TicketCompleted(t) ==
  /\ creations[t] # NoCreation /\ creations[t].gs = 0
  /\ creations' = [creations EXCEPT ![t].gs = clock']
  /\ nextCreation' = nextCreation
  /\ clock' \in Stamp /\ clock' = clock + 1

\* What a step may do to the creation tickets.
LEMMA CreationShape ==
  ASSUME ServicesInv, [Next]_vars
  PROVE  \/ UNCHANGED serviceVars /\ clock' \in 0..MaxStamp /\ clock <= clock'
         \/ TicketCreated
         \/ \E t \in CreationId : TicketCompleted(t)
<1>1. RegistryTypeOK /\ TicketTypeOK /\ CreationTypeOK /\ clock \in 0..MaxStamp /\ MaxStamp \in Nat
  BY TypeOKParts, RegistryAssumption DEF ServicesInv, RegistryTypeOK, RegistryAssumption
<1>2. clock' \in 0..MaxStamp /\ clock <= clock'
  <2>1. RegistryStep
    BY <1>1, StepOfRegistry
  <2>2. ASSUME NEW key, NEW uid, OpenPublicMatchSession(key, uid)
        PROVE  Tick
    BY <2>2 DEF OpenPublicMatchSession
  <2>3. ASSUME NEW gs, NEW uid, AddPublicMatchMember(gs, uid) \/ EnterRoom(gs, uid)
        PROVE  Tick
    BY <2>3 DEF AddPublicMatchMember, EnterRoom
  <2>4. ASSUME NEW t, CompleteGameSessionCreationTicket(t)
        PROVE  Tick
    BY <2>4 DEF CompleteGameSessionCreationTicket, OpenRoom
  <2>5. ASSUME NEW gs, NEW us, Depart(gs, us)
        PROVE  UNCHANGED clock
    BY <2>5 DEF Depart
  <2>6. UNCHANGED clock \/ Tick
    BY <2>1, <2>2, <2>3, <2>4, <2>5 DEF RegistryStep, registryVars
  <2> QED BY <1>1, <2>6 DEF Tick
<1>3. ASSUME NEW uid \in Uid, NEW config \in Config, NEW locked \in BOOLEAN,
             NEW max \in RequestedMax, NEW room \in RequestedRoom,
             CreateGameSessionCreationTicket(uid, config, locked, max, room)
      PROVE  TicketCreated
  <2> DEFINE ticket == [uid |-> uid, config |-> config, locked |-> locked,
                        max |-> max, room |-> room, gs |-> 0]
  <2>1. ticket \in CreationTicket /\ ticket.gs = 0
    BY <1>3 DEF CreationTicket
  <2>2. nextCreation \in Nat /\ nextCreation < MaxCreation /\ MaxCreation \in Nat
    BY <1>1, <1>3, ServiceAssumption
       DEF CreateGameSessionCreationTicket, CreationTypeOK, ServiceAssumption
  <2>3. /\ nextCreation' = nextCreation + 1
        /\ creations' = [creations EXCEPT ![nextCreation + 1] = ticket]
        /\ clock' = clock
    BY <1>3 DEF CreateGameSessionCreationTicket, registryVars
  <2>4. nextCreation + 1 \in CreationId
    BY <2>2 DEF CreationId
  <2> HIDE DEF ticket
  <2> QED BY <2>1, <2>3, <2>4 DEF TicketCreated
<1>4. ASSUME NEW t \in CreationId, CompleteGameSessionCreationTicket(t)
      PROVE  TicketCompleted(t)
  BY <1>1, <1>4, TickType DEF CompleteGameSessionCreationTicket, OpenRoom, TicketCompleted
<1>5. CASE ServiceNext
  BY <1>2, <1>3, <1>4, <1>5 DEF ServiceNext, JoinGameSession
<1>6. CASE UNCHANGED serviceVars
  BY <1>2, <1>6
<1> QED BY <1>5, <1>6 DEF Next, vars, serviceVars

\* A step keeps CreationInv, and leaves a ticket that has its room alone.
LEMMA CreationInvKept ==
  ASSUME ServicesInv, CreationInv, [Next]_vars
  PROVE  /\ CreationInv'
         /\ \A t \in CreationId :
              creations[t] # NoCreation /\ creations[t].gs # 0
                => creations'[t] = creations[t]
<1>1. /\ creations \in [CreationId -> CreationTicket \cup {NoCreation}]
      /\ nextCreation \in Nat /\ clock \in Nat /\ MaxStamp \in Nat /\ MaxCreation \in Nat
  BY TypeOKParts, RegistryAssumption, ServiceAssumption
     DEF ServicesInv, RegistryTypeOK, CreationTypeOK, RegistryAssumption, ServiceAssumption
<1>2. CASE UNCHANGED serviceVars /\ clock' \in 0..MaxStamp /\ clock <= clock'
  BY <1>1, <1>2 DEF serviceVars, CreationInv
<1>3. CASE TicketCreated
  <2>1. PICK ticket \in CreationTicket :
          ticket.gs = 0 /\ creations' = [creations EXCEPT ![nextCreation + 1] = ticket]
    BY <1>3 DEF TicketCreated
  <2>2. /\ nextCreation + 1 \in CreationId /\ nextCreation' = nextCreation + 1
        /\ clock' = clock
    BY <1>3 DEF TicketCreated
  <2>3. creations[nextCreation + 1] = NoCreation
    BY <1>1, <2>2 DEF CreationInv
  <2>4. \A t \in CreationId :
          creations'[t] = IF t = nextCreation + 1 THEN ticket ELSE creations[t]
    BY <1>1, <2>1
  <2>5. CreationInv'
    BY <1>1, <2>1, <2>2, <2>4 DEF CreationInv, CreationId
  <2> QED BY <2>3, <2>4, <2>5
<1>4. ASSUME NEW n \in CreationId, TicketCompleted(n)
      PROVE  /\ CreationInv'
             /\ \A t \in CreationId :
                  creations[t] # NoCreation /\ creations[t].gs # 0
                    => creations'[t] = creations[t]
  <2>1. /\ creations[n] # NoCreation /\ creations[n].gs = 0
        /\ nextCreation' = nextCreation /\ clock' = clock + 1 /\ clock' \in Stamp
    BY <1>4 DEF TicketCompleted
  <2> DEFINE ticket == [creations[n] EXCEPT !.gs = clock']
  <2>2. ticket.gs = clock'
    BY <1>1, <2>1 DEF CreationTicket
  <2>3. \A t \in CreationId :
          creations'[t] = IF t = n THEN ticket ELSE creations[t]
    BY <1>1, <1>4 DEF TicketCompleted
  <2> HIDE DEF ticket
  <2>4. CreationInv'
    <3>1. ASSUME NEW t \in CreationId
          PROVE  /\ t > nextCreation' => creations'[t] = NoCreation
                 /\ creations'[t] # NoCreation => creations'[t].gs \in 0..clock'
      BY <1>1, <2>1, <2>2, <2>3 DEF CreationInv
    <3>2. \A t \in CreationId :
            t # n /\ creations[t] # NoCreation => creations[t].gs # clock'
      BY <1>1, <2>1 DEF CreationInv
    <3>3. ASSUME NEW t \in CreationId, NEW other \in CreationId,
                 creations'[t] # NoCreation, creations'[t].gs # 0,
                 creations'[other] # NoCreation, other # t
          PROVE  creations'[other].gs # creations'[t].gs
      BY <2>2, <2>3, <3>2, <3>3 DEF CreationInv
    <3> QED BY <3>1, <3>3 DEF CreationInv
  <2> QED BY <2>1, <2>3, <2>4
<1> QED BY <1>2, <1>3, <1>4, CreationShape DEF serviceVars

\* The room of a creation ticket is opened once, and is no other ticket's.
THEOREM CreationsOpenOneRoom == Spec => CreationOpensOneRoom
<1>1. Init => CreationInv
  BY DEF Init, ServiceInit, CreationInv
<1>2. ServicesInv /\ CreationInv /\ [Next]_vars => CreationInv'
  BY CreationInvKept
<1>3. ASSUME ServicesInv, CreationInv, [Next]_vars,
             NEW t \in CreationId, NEW other \in CreationId,
             creations[t] # NoCreation /\ creations[t].gs # 0
      PROVE  /\ creations'[t] = creations[t]
             /\ creations'[other] # NoCreation /\ t # other
                  => creations'[other].gs # creations[t].gs
  BY <1>3, CreationInvKept DEF CreationInv
<1>4. ServicesInv /\ CreationInv /\ [Next]_vars
        => [\A t, other \in CreationId :
              creations[t] # NoCreation /\ creations[t].gs # 0
                => /\ creations'[t] = creations[t]
                   /\ creations'[other] # NoCreation /\ t # other
                        => creations'[other].gs # creations[t].gs]_vars
  BY <1>3
<1> QED BY <1>1, <1>2, <1>4, AlwaysSound, PTL DEF Spec, CreationOpensOneRoom
-----------------------------------------------------------------------------
(***************************************************************************)
(* The session services implement GameRooms.                               *)
(***************************************************************************)

\* A session that does not change leaves its room as it is.
LEMMA RoomKept ==
  ASSUME NEW gs, sessions'[gs] = sessions[gs]
  PROVE  Roster(gs)' = Roster(gs) /\ Phase(gs)' = Phase(gs) /\ Places(gs)' = Places(gs)
  BY DEF Roster, Phase, Places, Exists

\* GameRooms counts users the way the registry does.
LEMMA SameCardinality == \A S : Rooms!Cardinality(S) = Cardinality(S)
  BY DEF Rooms!Cardinality, Cardinality

\* The users in a room are no more than its user sessions.
LEMMA RosterSize ==
  ASSUME RegistryInv, NEW gs \in Stamp, Exists(gs)
  PROVE  /\ Cardinality(Roster(gs)) <= sessions[gs].count
         /\ Cardinality(Roster(gs)) \in Nat
         /\ sessions[gs].count \in Nat
<1> DEFINE users == sessions[gs].users
           uid   == [u \in users |-> u.uid]
<1>1. IsFiniteSet(users) /\ sessions[gs].count = Cardinality(users)
  BY DEF RegistryInv, Sound
<1>2. uid \in Surjection(users, Roster(gs))
  BY DEF Surjection, Roster
<1>3. IsFiniteSet(Roster(gs)) /\ Cardinality(Roster(gs)) <= Cardinality(users)
  BY <1>1, <1>2, FS_Surjection
<1> QED BY <1>1, <1>3, FS_CardinalityType

\* A game session is never mistaken for the absence of one.
LEMMA RoomIsThere ==
  ASSUME NEW g \in GameSession
  PROVE  g # NoSession
<1>1. g.state \in {"ACTIVE", "TERMINATED"}
  BY DEF GameSession
<1>2. NoSession.state = "NONE"
  BY DEF NoSession
<1> QED BY <1>1, <1>2

\* A session that is opened, for its first user, is a room that is opened.
LEMMA OpenedIsOpen ==
  ASSUME RegistryInv, NEW s \in Stamp, NEW uid \in Uid, NEW g \in GameSession,
         Opened(s, uid, g), g.max \in RoomSize
  PROVE  Rooms!Open(s, uid, g.max)
<1>1. ~Exists(s)
  BY DEF Opened, RegistryInv, RegistryTypeOK, Sound, Stamp
<1>2. sessions'[s] = g /\ \A gs \in Stamp \ {s} : sessions'[gs] = sessions[gs]
  BY DEF Opened, RegistryInv, RegistryTypeOK
<1>3. Exists(s)'
  BY <1>2, RoomIsThere DEF Exists
<1>4. Roster(s)' = {uid} /\ Phase(s)' = "open" /\ Places(s)' = g.max
  <2> DEFINE u == [us |-> s, uid |-> uid]
  <2>1. g.users = {u} /\ g.state = "ACTIVE"
    BY DEF Opened
  <2>2. u.uid = uid
    OBVIOUS
  <2>3. Roster(s)' = {v.uid : v \in g.users}
    BY <1>2, <1>3 DEF Roster
  <2>4. Phase(s)' = "open" /\ Places(s)' = g.max
    BY <1>2, <1>3, <2>1 DEF Phase, Places
  <2> HIDE DEF u
  <2> QED BY <2>1, <2>2, <2>3, <2>4
<1>5. \A gs \in Stamp \ {s} : /\ Roster(gs)' = Roster(gs)
                              /\ Phase(gs)' = Phase(gs)
                              /\ Places(gs)' = Places(gs)
  BY <1>2, RoomKept
<1>6. Phase(s) = "new"
  BY <1>1 DEF Phase
<1> QED BY <1>4, <1>5, <1>6 DEF Rooms!Open

\* A user who comes into a session, by ticket or by name, enters the room.
LEMMA EnteredIsEnter ==
  ASSUME RegistryInv, NEW gs \in Stamp, NEW uid \in Uid, NEW g \in GameSession,
         MayEnter(gs, uid), ~SessionHasUID(gs, uid), Entered(gs, uid, g)
  PROVE  Rooms!Enter(gs, uid)
<1>1. Exists(gs) /\ sessions[gs].state = "ACTIVE" /\ sessions[gs].count < sessions[gs].max
  BY DEF MayEnter, Active
<1>2. sessions'[gs] = g /\ \A other \in Stamp \ {gs} : sessions'[other] = sessions[other]
  BY DEF Entered, RegistryInv, RegistryTypeOK
<1>3. Exists(gs)'
  BY <1>2, RoomIsThere DEF Exists
<1>4. Phase(gs) = "open" /\ uid \notin Roster(gs)
  BY <1>1 DEF Phase, Roster, SessionHasUID
<1>5. Cardinality(Roster(gs)) < Places(gs)
  <2>1. sessions[gs].max \in Nat
    BY <1>1, SessionIsRecord DEF RegistryInv, GameSession
  <2> QED BY <1>1, <2>1, RosterSize DEF Places
<1>6. Roster(gs)' = Roster(gs) \cup {uid}
  <2> DEFINE u == [us |-> clock', uid |-> uid]
  <2>1. sessions[gs].users \cup {u} = g.users
    BY <1>1 DEF Entered, Grown
  <2>2. Roster(gs)' = {v.uid : v \in g.users}
    BY <1>2, <1>3 DEF Roster
  <2>3. Roster(gs) = {v.uid : v \in sessions[gs].users} /\ u.uid = uid
    BY <1>1 DEF Roster
  <2> HIDE DEF u
  <2> QED BY <2>1, <2>2, <2>3
<1>7. Phase(gs)' = Phase(gs) /\ Places(gs)' = Places(gs)
  BY <1>1, <1>2, <1>3 DEF Phase, Places, Entered, Grown
<1>8. \A other \in Stamp \ {gs} : /\ Roster(other)' = Roster(other)
                                  /\ Phase(other)' = Phase(other)
                                  /\ Places(other)' = Places(other)
  BY <1>2, RoomKept
<1>9. [r \in Stamp |-> Roster(r)]' =
        [[r \in Stamp |-> Roster(r)] EXCEPT ![gs] = @ \cup {uid}]
  BY <1>6, <1>8
<1>10. UNCHANGED <<[r \in Stamp |-> Phase(r)], [r \in Stamp |-> Places(r)]>>
  BY <1>7, <1>8
<1> QED BY <1>4, <1>5, <1>9, <1>10, SameCardinality DEF Rooms!Enter

\* Departure of a user session that is still held is a user leaving; of one
\* that is not, nothing.
LEMMA DepartIsLeave ==
  ASSUME RegistryInv, NEW gs \in Stamp, NEW us \in Stamp, Depart(gs, us)
  PROVE  (\E uid \in Uid : Rooms!Leave(gs, uid)) \/ UNCHANGED Rooms!roomVars
<1> DEFINE s == sessions[gs]
           rest == Without(s.users, us)
<1>1. /\ Exists(gs) /\ s \in GameSession /\ Sound(gs)
      /\ sessions'[gs] = Departed(s, us)
      /\ \A other \in Stamp \ {gs} : sessions'[other] = sessions[other]
  BY SessionIsRecord DEF Depart, RegistryInv, RegistryTypeOK
<1>2. /\ Departed(s, us).users = rest /\ Departed(s, us).max = s.max
      /\ Departed(s, us).state = IF rest = {} THEN "TERMINATED" ELSE s.state
      /\ Departed(s, us) # NoSession
  BY <1>1, DepartedFields, DepartedState
<1>3. Exists(gs)' /\ Roster(gs)' = {u.uid : u \in rest} /\ Places(gs)' = Places(gs)
  BY <1>1, <1>2 DEF Exists, Roster, Places
<1>4. Phase(gs)' = IF rest = {} THEN "closed" ELSE Phase(gs)
  BY <1>1, <1>2, <1>3 DEF Phase
<1>5. \A other \in Stamp \ {gs} : /\ Roster(other)' = Roster(other)
                                  /\ Phase(other)' = Phase(other)
                                  /\ Places(other)' = Places(other)
  BY <1>1, RoomKept
<1>6. CASE \E u \in s.users : u.us = us
  <2>1. PICK u \in s.users : u.us = us
    BY <1>6
  <2>2. u.uid \in Uid /\ u.uid \in Roster(gs)
    BY <1>1 DEF GameSession, UserSession, Roster
  <2>3. \A v \in s.users : v # u => v \in rest /\ v.uid # u.uid
    BY <1>1, <2>1 DEF Sound, Without
  <2>4. u \notin rest /\ rest \subseteq s.users
    BY <2>1 DEF Without
  <2>5. Roster(gs)' = Roster(gs) \ {u.uid}
    BY <1>1, <1>3, <2>3, <2>4 DEF Roster
  <2>6. rest = {} <=> Roster(gs) = {u.uid}
    BY <1>1, <2>2, <2>3, <2>4 DEF Roster
  <2> QED BY <1>3, <1>4, <1>5, <2>2, <2>5, <2>6 DEF Rooms!Leave
<1>7. CASE \A u \in s.users : u.us # us
  <2>1. rest = s.users
    BY <1>7 DEF Without
  <2>2. Roster(gs)' = Roster(gs)
    BY <1>1, <1>3, <2>1 DEF Roster
  <2>3. Phase(gs)' = Phase(gs)
    BY <1>1, <1>4, <2>1 DEF Phase, Sound
  <2> QED BY <1>3, <1>5, <2>2, <2>3 DEF Rooms!roomVars
<1> QED BY <1>6, <1>7

\* Every step of the services is a step of the rooms, or none.
LEMMA StepIsRoomStep ==
  ASSUME ServicesInv, [Next]_vars
  PROVE  [Rooms!Next]_(Rooms!roomVars)
<1>1. RegistryInv /\ RegistryShape
  BY SoundStepHasShape
<1>2. CASE UNCHANGED registryVars
  BY <1>2, RoomKept DEF registryVars, Rooms!roomVars
<1>3. ASSUME NEW s \in Stamp, NEW uid \in Uid, NEW g \in GameSession,
             Opened(s, uid, g), g.max \in RoomSize
      PROVE  Rooms!Next
  BY <1>1, <1>3, OpenedIsOpen DEF Rooms!Next
<1>4. ASSUME NEW gs \in Stamp, NEW uid \in Uid, NEW g \in GameSession,
             MayEnter(gs, uid), ~SessionHasUID(gs, uid), Entered(gs, uid, g)
      PROVE  Rooms!Next
  BY <1>1, <1>4, EnteredIsEnter DEF Rooms!Next
<1>5. ASSUME NEW i \in issued, Depart(i.gs, i.us)
      PROVE  Rooms!Next \/ UNCHANGED Rooms!roomVars
  <2>1. i.gs \in Stamp /\ i.us \in Stamp
    BY <1>1 DEF RegistryInv, RegistryTypeOK
  <2> QED BY <1>1, <1>5, <2>1, DepartIsLeave DEF Rooms!Next
<1> QED BY <1>1, <1>2, <1>3, <1>4, <1>5 DEF RegistryShape

\* At first there is no room.
LEMMA RoomsInitially == Init => Rooms!Init
  BY DEF Init, RegistryInit, Rooms!Init, Roster, Phase, Places, Exists

\* However tickets, joins and departures interleave, clients see rooms that are
\* opened once, filled up to their size, and closed for good.
THEOREM ImplementsRooms == Spec => RoomsSpec
<1>1. ServicesInv /\ [Next]_vars => [Rooms!Next]_(Rooms!roomVars)
  BY StepIsRoomStep
<1> QED BY <1>1, RoomsInitially, AlwaysSound, PTL DEF Spec, RoomsSpec, Rooms!Spec
=============================================================================
