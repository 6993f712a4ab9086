-------------------------- MODULE GamesyncLifecycle --------------------------
(***************************************************************************)
(* The life of gamesync user sessions (gamesync.go, gamesync_store.go):    *)
(* IssueToken binds a registry membership to a gamesync session, a         *)
(* KeepUserSession stream holds it, and a disconnect timer expires it and  *)
(* gives the membership back.  The members are those of one game session.  *)
(*                                                                         *)
(* A step of this module is one critical section.  gamesyncServer.mu and   *)
(* sessionRegistry.mu are never held across steps; the publication mutex   *)
(* is, while expireSession calls the registry, and is a variable.          *)
(***************************************************************************)
EXTENDS Integers, FiniteSets

CONSTANTS
  UserSession,  \* user session ids of the game session
  Issuer,       \* IssueToken goroutines
  Stream,       \* KeepUserSession goroutines
  Writer,       \* WriteDocuments goroutines
  MaxTimer,     \* bound: timers and callbacks alive at one time
  MaxSequence,  \* bound: sequence numbers given out
  PromptTimers  \* a timer may start its callback while it is being assigned

Nobody == "nobody"

ASSUME LifecycleAssumption ==
  /\ IsFiniteSet(Stream)
  /\ Nobody \notin UserSession
  /\ MaxTimer \in Nat
  /\ MaxSequence \in Nat
  /\ PromptTimers \in BOOLEAN

Absent  == 0                   \* sequence of an id without gamesync session
NoTimer == 0                   \* nil *time.Timer
Timer   == 1..MaxTimer
Free    == 0                   \* nobody holds the publication mutex
Sequence == 1..MaxSequence
Person  == UserSession \cup {Nobody}

VARIABLES
  registered,       \* user sessions the registry counts as active members
  sessions,         \* gamesyncServer.sessions: the Sequence of each
  nextSequence,
  streamCounts,
  disconnectTimers,
  timers,           \* every live timer or running callback
  publication,      \* the callback that holds the mutex between two steps
  issuer,           \* IssueToken goroutines
  stream,           \* KeepUserSession goroutines
  writer,           \* WriteDocuments goroutines
  players,          \* docs/p/<sequence>: the user session that owns it
  monitoring        \* docs/__mt/nat_traversal: its local and remote user

sessionVars == <<registered, sessions, nextSequence>>
timerVars   == <<streamCounts, disconnectTimers, timers>>
docVars     == <<players, monitoring>>
vars == <<sessionVars, timerVars, publication, issuer, stream, writer, docVars>>

IdleCall     == [pc |-> "idle", us |-> Nobody]
UnusedTimer  == [state |-> "unused", us |-> Nobody, handle |-> NoTimer]
NoMonitoring == [local |-> Nobody, remote |-> Nobody]

Init ==
  /\ registered       = UserSession
  /\ sessions         = [us \in UserSession |-> Absent]
  /\ nextSequence     = 0
  /\ streamCounts     = [us \in UserSession |-> 0]
  /\ disconnectTimers = [us \in UserSession |-> NoTimer]
  /\ timers           = [t \in Timer |-> UnusedTimer]
  /\ publication      = Free
  /\ issuer           = [i \in Issuer |-> IdleCall]
  /\ stream           = [s \in Stream |-> IdleCall]
  /\ writer           = [w \in Writer |-> [pc |-> "idle", us |-> Nobody, seq |-> Absent]]
  /\ players          = [n \in Sequence |-> Nobody]
  /\ monitoring       = NoMonitoring

At(pc, us) == [pc |-> pc, us |-> us]
-----------------------------------------------------------------------------
(***************************************************************************)
(* Timers.  Stopping one that has not started its callback removes it;     *)
(* stopping one that has is without effect, and the callback goes on to    *)
(* expireSession.  The callback compares the handle its closure captured   *)
(* with the map; the closure reads that variable without a lock, so a      *)
(* callback that starts before AfterFunc's result is assigned captures nil.*)
(***************************************************************************)
Stopped(ts, t) ==
  IF t # NoTimer /\ ts[t].state = "pending" THEN [ts EXCEPT ![t] = UnusedTimer] ELSE ts

Unreferenced(t) == \A us \in UserSession : disconnectTimers[us] # t

Armed(us, t) ==
  {[state |-> "pending", us |-> us, handle |-> t]} \cup
  IF PromptTimers THEN {[state |-> "fired", us |-> us, handle |-> NoTimer]} ELSE {}

\* Fault: an id that has a timer is not given a new one.
ScheduleDisconnectOnce(us) ==
  IF streamCounts[us] > 0 \/ disconnectTimers[us] # NoTimer
  THEN UNCHANGED timerVars
  ELSE /\ \E t \in Timer :
            /\ timers[t] = UnusedTimer
            /\ Unreferenced(t)
            /\ timers' = [timers EXCEPT ![t] =
                            [state |-> "pending", us |-> us, handle |-> t]]
            /\ disconnectTimers' = [disconnectTimers EXCEPT ![us] = t]
       /\ UNCHANGED streamCounts

ScheduleDisconnect(us) ==
  IF streamCounts[us] > 0
  THEN UNCHANGED timerVars
  ELSE /\ \E t \in Timer :
            /\ timers[t] = UnusedTimer
            /\ Unreferenced(t)
            /\ \E new \in Armed(us, t) :
                 timers' = [Stopped(timers, disconnectTimers[us]) EXCEPT ![t] = new]
            /\ disconnectTimers' = [disconnectTimers EXCEPT ![us] = t]
       /\ UNCHANGED streamCounts

TimerFires(t) ==
  /\ timers[t].state = "pending"
  /\ timers' = [timers EXCEPT ![t].state = "fired"]
  /\ UNCHANGED <<sessionVars, streamCounts, disconnectTimers, publication,
                 issuer, stream, writer, docVars>>
-----------------------------------------------------------------------------
(* IssueToken *)

\* The registry confirms that the match token refers to an active membership.
CheckMember(i, us) ==
  /\ issuer[i] = IdleCall
  /\ us \in registered
  /\ issuer' = [issuer EXCEPT ![i] = At("checked", us)]
  /\ UNCHANGED <<sessionVars, timerVars, publication, stream, writer, docVars>>

\* Fault: a new session is numbered by how many there are.
NumberByCount(us) ==
  LET live == {other \in UserSession : sessions[other] # Absent}
  IN  /\ nextSequence' = Cardinality(live) + 1
      /\ nextSequence' \in Sequence
      /\ sessions' = [sessions EXCEPT ![us] = nextSequence']

NumberNext(us) ==
  /\ nextSequence < MaxSequence
  /\ nextSequence' = nextSequence + 1
  /\ sessions' = [sessions EXCEPT ![us] = nextSequence']

\* rememberSession: a renewal keeps the sequence, a new session gets the next.
RememberSession(i) ==
  /\ issuer[i].pc = "checked"
  /\ publication = Free
  /\ IF sessions[issuer[i].us] # Absent
     THEN UNCHANGED <<sessions, nextSequence>>
     ELSE NumberNext(issuer[i].us)
  /\ issuer' = [issuer EXCEPT ![i].pc = "remembered"]
  /\ UNCHANGED <<registered, timerVars, publication, stream, writer, docVars>>

ScheduleAfterIssue(i) ==
  /\ issuer[i].pc = "remembered"
  /\ ScheduleDisconnect(issuer[i].us)
  /\ issuer' = [issuer EXCEPT ![i] = IdleCall]
  /\ UNCHANGED <<sessionVars, publication, stream, writer, docVars>>
-----------------------------------------------------------------------------
(* KeepUserSession *)

\* The access token must name a session that exists at this moment.
AuthorizeStream(s, us) ==
  /\ stream[s] = IdleCall
  /\ sessions[us] # Absent
  /\ stream' = [stream EXCEPT ![s] = At("authorized", us)]
  /\ UNCHANGED <<sessionVars, timerVars, publication, issuer, writer, docVars>>

\* Fault: that there may be a stream already is not counted.
StreamStartedAlone(s) ==
  /\ stream[s].pc = "authorized"
  /\ LET us == stream[s].us
     IN  /\ streamCounts'     = [streamCounts EXCEPT ![us] = 1]
         /\ timers'           = Stopped(timers, disconnectTimers[us])
         /\ disconnectTimers' = [disconnectTimers EXCEPT ![us] = NoTimer]
  /\ stream' = [stream EXCEPT ![s].pc = "open"]
  /\ UNCHANGED <<sessionVars, publication, issuer, writer, docVars>>

StreamStarted(s) ==
  /\ stream[s].pc = "authorized"
  /\ LET us == stream[s].us
     IN  /\ streamCounts'     = [streamCounts EXCEPT ![us] = @ + 1]
         /\ timers'           = Stopped(timers, disconnectTimers[us])
         /\ disconnectTimers' = [disconnectTimers EXCEPT ![us] = NoTimer]
  /\ stream' = [stream EXCEPT ![s].pc = "open"]
  /\ UNCHANGED <<sessionVars, publication, issuer, writer, docVars>>

\* Fault: the last stream does not go on to schedule the disconnect.
StreamEndedUnscheduled(s) ==
  /\ stream[s].pc = "open"
  /\ streamCounts' = [streamCounts EXCEPT ![stream[s].us] = @ - 1]
  /\ stream' = [stream EXCEPT ![s] = IdleCall]
  /\ UNCHANGED <<sessionVars, disconnectTimers, timers, publication, issuer,
                 writer, docVars>>

\* streamEnded, first section: on EOF, on an error, or on a refused message.
StreamEnded(s) ==
  /\ stream[s].pc = "open"
  /\ LET us == stream[s].us
     IN  /\ streamCounts' = [streamCounts EXCEPT ![us] = @ - 1]
         /\ stream' = [stream EXCEPT ![s] =
                         IF streamCounts'[us] <= 0 THEN At("ended", us) ELSE IdleCall]
  /\ UNCHANGED <<sessionVars, disconnectTimers, timers, publication, issuer,
                 writer, docVars>>

ScheduleAfterStream(s) ==
  /\ stream[s].pc = "ended"
  /\ ScheduleDisconnect(stream[s].us)
  /\ stream' = [stream EXCEPT ![s] = IdleCall]
  /\ UNCHANGED <<sessionVars, publication, issuer, writer, docVars>>
-----------------------------------------------------------------------------
(* WriteDocuments, for the two document kinds that tell incarnations apart *)

AuthorizeWrite(w, us) ==
  /\ writer[w].pc = "idle"
  /\ sessions[us] # Absent
  /\ writer' = [writer EXCEPT ![w] =
                  [pc |-> "authorized", us |-> us, seq |-> sessions[us]]]
  /\ UNCHANGED <<sessionVars, timerVars, publication, issuer, stream, docVars>>

\* Fault: the session is not looked up again.
NotLookedUp(w) == TRUE

\* After taking the commit locks the writer only looks whether its id still
\* has a session; what it knows of the session is from AuthorizeWrite.
StillThere(w)  == sessions[writer[w].us] # Absent
FinishWrite(w) == writer' = [writer EXCEPT ![w] =
                               [pc |-> "idle", us |-> Nobody, seq |-> Absent]]

CommitPlayer(w) ==
  /\ writer[w].pc = "authorized"
  /\ publication = Free
  /\ players' = IF StillThere(w)
                THEN [players EXCEPT ![writer[w].seq] = writer[w].us]
                ELSE players
  /\ FinishWrite(w)
  /\ UNCHANGED <<sessionVars, timerVars, publication, issuer, stream, monitoring>>

\* The report is about a remote user with a gamesync session.
CommitMonitoring(w, remote) ==
  /\ writer[w].pc = "authorized"
  /\ publication = Free
  /\ monitoring' = IF StillThere(w) /\ sessions[remote] # Absent
                   THEN [local |-> writer[w].us, remote |-> remote]
                   ELSE monitoring
  /\ FinishWrite(w)
  /\ UNCHANGED <<sessionVars, timerVars, publication, issuer, stream, players>>
-----------------------------------------------------------------------------
(* expireSession, in a timer's callback *)

\* Fault: streams that were opened since are not looked at.
IsCurrentTimer(t) ==
  /\ disconnectTimers[timers[t].us] = timers[t].handle
  /\ sessions[timers[t].us] # Absent

IsCurrent(t) ==
  /\ streamCounts[timers[t].us] <= 0
  /\ disconnectTimers[timers[t].us] = timers[t].handle
  /\ sessions[timers[t].us] # Absent

\* A callback that lost a race, or whose session is gone, leaves everything
\* as it is; that includes the map entries of an id without session.
ExpireIgnored(t) ==
  /\ timers[t].state = "fired"
  /\ publication = Free
  /\ ~IsCurrent(t)
  /\ timers' = [timers EXCEPT ![t] = UnusedTimer]
  /\ UNCHANGED <<sessionVars, streamCounts, disconnectTimers, publication,
                 issuer, stream, writer, docVars>>

Expire(t) ==
  /\ timers[t].state = "fired"
  /\ publication = Free
  /\ IsCurrent(t)
  /\ LET us == timers[t].us
     IN  /\ sessions'         = [sessions EXCEPT ![us] = Absent]
         /\ disconnectTimers' = [disconnectTimers EXCEPT ![us] = NoTimer]
         /\ streamCounts'     = [streamCounts EXCEPT ![us] = 0]
         /\ players'          = [n \in Sequence |->
                                   IF players[n] = us THEN Nobody ELSE players[n]]
         /\ monitoring'       = IF monitoring.local = us THEN NoMonitoring ELSE monitoring
  /\ timers' = [timers EXCEPT ![t].state = "departing"]
  /\ publication' = t
  /\ UNCHANGED <<registered, nextSequence, issuer, stream, writer>>

\* The registry is told, the deletions are published, the mutex released.
ExpireDepart(t) ==
  /\ timers[t].state = "departing"
  /\ registered'  = registered \ {timers[t].us}
  /\ timers'      = [timers EXCEPT ![t] = UnusedTimer]
  /\ publication' = Free
  /\ UNCHANGED <<sessions, nextSequence, streamCounts, disconnectTimers,
                 issuer, stream, writer, docVars>>
-----------------------------------------------------------------------------
Issuing(i)   == (\E us \in UserSession : CheckMember(i, us))
                  \/ RememberSession(i) \/ ScheduleAfterIssue(i)
Streaming(s) == (\E us \in UserSession : AuthorizeStream(s, us))
                  \/ StreamStarted(s) \/ StreamEnded(s) \/ ScheduleAfterStream(s)
Writing(w)   == \/ \E us \in UserSession :
                     AuthorizeWrite(w, us) \/ CommitMonitoring(w, us)
                \/ CommitPlayer(w)
Timing(t)    == TimerFires(t) \/ ExpireIgnored(t) \/ Expire(t) \/ ExpireDepart(t)

Next ==
  \/ \E i \in Issuer : Issuing(i)
  \/ \E s \in Stream : Streaming(s)
  \/ \E w \in Writer : Writing(w)
  \/ \E t \in Timer  : Timing(t)

Spec == Init /\ [][Next]_vars

(***************************************************************************)
(* What a goroutine has begun it goes on with, and timers fire; clients    *)
(* need not open, close or renew anything.                                 *)
(***************************************************************************)
Fairness ==
  /\ \A i \in Issuer : WF_vars(RememberSession(i)) /\ WF_vars(ScheduleAfterIssue(i))
  /\ \A s \in Stream : WF_vars(StreamStarted(s)) /\ WF_vars(ScheduleAfterStream(s))
  /\ \A t \in Timer  : WF_vars(Timing(t))

FairSpec == Spec /\ Fairness
-----------------------------------------------------------------------------
Call(pcs) == [pc : pcs, us : UserSession] \cup {IdleCall}

\* Types of the variables.
TypeOK ==
  /\ registered \in SUBSET UserSession
  /\ sessions \in [UserSession -> Sequence \cup {Absent}]
  /\ nextSequence \in Sequence \cup {0}
  /\ streamCounts \in [UserSession -> Nat]
  /\ disconnectTimers \in [UserSession -> Timer \cup {NoTimer}]
  /\ timers \in [Timer -> [state  : {"unused", "pending", "fired", "departing"},
                           us     : Person,
                           handle : Timer \cup {NoTimer}]]
  /\ \A t \in Timer : timers[t].state # "unused" => timers[t].us \in UserSession
  /\ publication \in Timer \cup {Free}
  /\ issuer \in [Issuer -> Call({"checked", "remembered"})]
  /\ stream \in [Stream -> Call({"authorized", "open", "ended"})]
  /\ writer \in [Writer ->
       [pc : {"authorized"}, us : UserSession, seq : Sequence]
         \cup {[pc |-> "idle", us |-> Nobody, seq |-> Absent]}]
  /\ players \in [Sequence -> Person]
  /\ monitoring \in [local : Person, remote : Person]

OpenStreams(us) == {s \in Stream : stream[s] = At("open", us)}

\* streamCounts is exact even though expireSession deletes its entries and a
\* stream can start for an id that expired while the stream was being opened.
StreamCountExact ==
  \A us \in UserSession : streamCounts[us] = Cardinality(OpenStreams(us))

\* session_integration_test.go:300: however the callback, a resumed stream and
\* a renewal interleave, a session with an open stream is never expired.
NoStreamEvicted ==
  [][\A us \in UserSession :
       sessions[us] # Absent /\ sessions'[us] = Absent => OpenStreams(us) = {}]_vars

Pending(us) ==
  \/ \E t \in Timer : /\ disconnectTimers[us] = t
                      /\ timers[t].state \in {"pending", "fired"}
                      /\ timers[t].us = us
                      /\ timers[t].handle = t
  \/ \E i \in Issuer : issuer[i] = At("remembered", us)
  \/ \E s \in Stream : stream[s] = At("ended", us)

\* A session nobody streams is always on its way out: the timer the map names
\* can still expire it, or a goroutine is about to arm one.  Otherwise the
\* member would hold its place in the game session for ever.
CleanupArmed ==
  \A us \in UserSession :
    sessions[us] # Absent /\ streamCounts[us] <= 0 => Pending(us)

\* Sequence numbers name the documents docs/p and docs/e of a member.  Two
\* sessions never share one, and under a live number nobody else's document
\* is found, whatever was written and expired before.
SequenceNeverShared ==
  \A us, other \in UserSession :
    sessions[us] # Absent /\ us # other
      => sessions[other] # sessions[us] /\ players[sessions[us]] # other

\* gamesync_store.go:466: expiration must win over stale credentials; a write
\* that was authorized earlier leaves no document of a member that is gone.
NoOrphanDocuments ==
  /\ \A n \in Sequence :
       players[n] # Nobody => sessions[players[n]] # Absent
  /\ monitoring.local # Nobody => sessions[monitoring.local] # Absent

\* The same comment, read for the incarnation of the session the credentials
\* were checked against: a document is filed under its owner's own number.
ExpirationWins ==
  \A n \in Sequence : players[n] # Nobody => sessions[players[n]] = n

\* README.md:81: a monitoring document is accepted only when its local and
\* remote users are active members of the same game session.
MonitoringPeersActive ==
  [][monitoring' # monitoring /\ monitoring' # NoMonitoring
       => monitoring'.local \in registered /\ monitoring'.remote \in registered]_vars

\* The client has left: it neither streams nor asks for tokens.
Quiet(us) ==
  /\ OpenStreams(us) = {}
  /\ \A i \in Issuer : issuer[i].us # us

\* A member whose client stays away gives its place in the game session back,
\* and no gamesync session of it remains, whatever raced on the way.
MembershipReleased ==
  \A us \in UserSession :
    <>[]Quiet(us) =>
      [](sessions[us] # Absent => <>(us \notin registered /\ sessions[us] = Absent))
=============================================================================
