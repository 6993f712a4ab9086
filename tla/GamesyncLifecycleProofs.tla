---------------------- MODULE GamesyncLifecycleProofs ----------------------
(***************************************************************************)
(* Theorems about GamesyncLifecycle for every number of users, goroutines  *)
(* and timers, and whether or not callbacks start early.                   *)
(***************************************************************************)
EXTENDS GamesyncLifecycle, FiniteSetTheorems, TLAPS

\* What a call knows of the goroutine or timer it runs in.
LEMMA CallsNameUsers ==
  ASSUME TypeOK
  PROVE  /\ \A i \in Issuer : issuer[i].pc # "idle" => issuer[i].us \in UserSession
         /\ \A s \in Stream : stream[s].pc # "idle" => stream[s].us \in UserSession
         /\ \A w \in Writer : writer[w].pc # "idle" =>
              writer[w].us \in UserSession /\ writer[w].seq \in Sequence
  BY DEF TypeOK, Call, IdleCall

\* The open streams of an id are finitely many: they have a count.
LEMMA OpenStreamsFinite ==
  ASSUME NEW us
  PROVE  /\ IsFiniteSet(OpenStreams(us))
         /\ Cardinality(OpenStreams(us)) \in Nat
  <1>1. OpenStreams(us) \in SUBSET Stream
    BY DEF OpenStreams
  <1> QED
    BY <1>1, FS_Subset, FS_CardinalityType, LifecycleAssumption
-----------------------------------------------------------------------------
(***************************************************************************)
(* TypeOK alone is not inductive: that a count stays a natural number when *)
(* a stream ends is due to its being exact, and that it stays exact when a *)
(* session expires to its being a natural number that is not positive.     *)
(***************************************************************************)
CountInv == TypeOK /\ StreamCountExact

\* Stopping a timer keeps the timers of the right type.
LEMMA StoppedType ==
  ASSUME TypeOK, NEW d \in Timer \cup {NoTimer}
  PROVE  /\ Stopped(timers, d) \in [Timer ->
              [state  : {"unused", "pending", "fired", "departing"},
               us     : Person,
               handle : Timer \cup {NoTimer}]]
         /\ \A t \in Timer : Stopped(timers, d)[t].state # "unused" =>
              Stopped(timers, d)[t].us \in UserSession
  BY LifecycleAssumption
  DEF TypeOK, Stopped, UnusedTimer, Person, NoTimer, Timer

\* Scheduling keeps types and counts.
LEMMA ScheduleType ==
  ASSUME TypeOK, NEW us \in UserSession, ScheduleDisconnect(us)
  PROVE  /\ streamCounts' = streamCounts
         /\ disconnectTimers' \in [UserSession -> Timer \cup {NoTimer}]
         /\ timers' \in [Timer ->
              [state  : {"unused", "pending", "fired", "departing"},
               us     : Person,
               handle : Timer \cup {NoTimer}]]
         /\ \A t \in Timer : timers'[t].state # "unused" => timers'[t].us \in UserSession
  <1>1. CASE streamCounts[us] > 0
    BY <1>1 DEF ScheduleDisconnect, timerVars, TypeOK
  <1>2. CASE ~(streamCounts[us] > 0)
    <2>a. PICK t \in Timer :
            /\ \E new \in Armed(us, t) :
                 timers' = [Stopped(timers, disconnectTimers[us]) EXCEPT ![t] = new]
            /\ disconnectTimers' = [disconnectTimers EXCEPT ![us] = t]
      BY <1>2 DEF ScheduleDisconnect
    <2>b. PICK new \in Armed(us, t) :
            timers' = [Stopped(timers, disconnectTimers[us]) EXCEPT ![t] = new]
      BY <2>a
    <2>2. disconnectTimers[us] \in Timer \cup {NoTimer}
      BY DEF TypeOK
    <2>3. /\ new \in [state  : {"unused", "pending", "fired", "departing"},
                      us     : Person,
                      handle : Timer \cup {NoTimer}]
          /\ new.us \in UserSession
      BY DEF Armed, Person
    <2>4. streamCounts' = streamCounts
      BY <1>2 DEF ScheduleDisconnect
    <2> HIDE DEF Timer
    <2>5. disconnectTimers' \in [UserSession -> Timer \cup {NoTimer}]
      BY <2>a DEF TypeOK
    <2> QED
      BY <2>b, <2>2, <2>3, <2>4, <2>5, StoppedType
  <1> QED
    BY <1>1, <1>2

\* A step that neither opens nor closes a stream keeps the counts exact.
LEMMA SameStreams ==
  ASSUME StreamCountExact, streamCounts' = streamCounts,
         \A us \in UserSession : OpenStreams(us)' = OpenStreams(us)
  PROVE  StreamCountExact'
  <1> SUFFICES ASSUME NEW us \in UserSession
               PROVE  streamCounts'[us] = Cardinality(OpenStreams(us)')
    BY DEF StreamCountExact
  <1> QED
    BY DEF StreamCountExact

\* No stream is open at first and every count is zero.
LEMMA CountInitially == Init => CountInv
  <1> SUFFICES ASSUME Init PROVE CountInv
    OBVIOUS
  <1>1. TypeOK
    BY LifecycleAssumption
    DEF Init, TypeOK, Sequence, Timer, Person, NoTimer, Absent, Free, UnusedTimer,
        IdleCall, NoMonitoring, Call
  <1>2. ASSUME NEW us \in UserSession PROVE OpenStreams(us) = {}
    BY DEF Init, OpenStreams, At, IdleCall
  <1>3. StreamCountExact
    BY <1>2, FS_EmptySet DEF Init, StreamCountExact
  <1> QED
    BY <1>1, <1>3 DEF CountInv

\* IssueToken opens and closes no stream.
LEMMA IssuerKeepsCount ==
  ASSUME CountInv, NEW i \in Issuer, Issuing(i)
  PROVE  CountInv'
  <1> USE DEF CountInv
  <1>1. issuer[i].pc # "idle" => issuer[i].us \in UserSession
    BY CallsNameUsers
  <1>2. ASSUME NEW us \in UserSession, CheckMember(i, us) PROVE CountInv'
    <2>1. TypeOK'
      BY <1>2 DEF CheckMember, TypeOK, Call, At, sessionVars, timerVars, docVars
    <2> QED
      BY <1>2, <2>1, SameStreams DEF CheckMember, timerVars, OpenStreams
  <1>3. CASE RememberSession(i)
    <2>1. sessions' \in [UserSession -> Sequence \cup {Absent}]
          /\ nextSequence' \in Sequence \cup {0}
      BY <1>1, <1>3, LifecycleAssumption
      DEF RememberSession, NumberNext, TypeOK, Sequence, Absent
    <2>2. issuer' \in [Issuer -> Call({"checked", "remembered"})]
      BY <1>1, <1>3 DEF RememberSession, TypeOK, Call, IdleCall
    <2>3. TypeOK'
      BY <1>3, <2>1, <2>2 DEF RememberSession, TypeOK, timerVars, docVars
    <2> QED
      BY <1>3, <2>3, SameStreams DEF RememberSession, timerVars, OpenStreams
  <1>4. CASE ScheduleAfterIssue(i)
    <2>1. issuer[i].us \in UserSession /\ ScheduleDisconnect(issuer[i].us)
      BY <1>1, <1>4 DEF ScheduleAfterIssue
    <2>2. issuer' \in [Issuer -> Call({"checked", "remembered"})]
      BY <1>4 DEF ScheduleAfterIssue, TypeOK, Call
    <2>3. TypeOK'
      BY <1>4, <2>1, <2>2, ScheduleType
      DEF ScheduleAfterIssue, TypeOK, sessionVars, docVars
    <2> QED
      BY <1>4, <2>1, <2>3, ScheduleType, SameStreams
      DEF ScheduleAfterIssue, OpenStreams
  <1> QED
    BY <1>2, <1>3, <1>4 DEF Issuing

\* WriteDocuments opens and closes no stream.
LEMMA WriterKeepsCount ==
  ASSUME CountInv, NEW w \in Writer, Writing(w)
  PROVE  CountInv'
  <1> USE DEF CountInv
  <1>1. writer[w].pc # "idle" => writer[w].us \in UserSession /\ writer[w].seq \in Sequence
    BY CallsNameUsers
  <1>2. ASSUME NEW us \in UserSession, AuthorizeWrite(w, us) PROVE CountInv'
    <2>1. TypeOK'
      BY <1>2 DEF AuthorizeWrite, TypeOK, sessionVars, timerVars, docVars
    <2> QED
      BY <1>2, <2>1, SameStreams DEF AuthorizeWrite, timerVars, OpenStreams
  <1>3. ASSUME NEW remote \in UserSession, CommitMonitoring(w, remote) PROVE CountInv'
    <2>1. monitoring' \in [local : Person, remote : Person]
      BY <1>1, <1>3 DEF CommitMonitoring, TypeOK, Person
    <2>2. TypeOK'
      BY <1>3, <2>1
      DEF CommitMonitoring, FinishWrite, TypeOK, sessionVars, timerVars
    <2> QED
      BY <1>3, <2>2, SameStreams DEF CommitMonitoring, timerVars, OpenStreams
  <1>4. CASE CommitPlayer(w)
    <2>1. players' \in [Sequence -> Person]
      BY <1>1, <1>4 DEF CommitPlayer, TypeOK, Person
    <2>2. TypeOK'
      BY <1>4, <2>1 DEF CommitPlayer, FinishWrite, TypeOK, sessionVars, timerVars
    <2> QED
      BY <1>4, <2>2, SameStreams DEF CommitPlayer, timerVars, OpenStreams
  <1> QED
    BY <1>2, <1>3, <1>4 DEF Writing

\* A stream is counted in when it opens and out when it ends.
LEMMA StreamKeepsCount ==
  ASSUME CountInv, NEW s \in Stream, Streaming(s)
  PROVE  CountInv'
  <1> USE DEF CountInv
  <1>1. stream[s].pc # "idle" => stream[s].us \in UserSession
    BY CallsNameUsers
  <1>2. ASSUME NEW us \in UserSession, AuthorizeStream(s, us) PROVE CountInv'
    <2>1. TypeOK'
      BY <1>2 DEF AuthorizeStream, TypeOK, Call, At, sessionVars, timerVars, docVars
    <2>2. ASSUME NEW other \in UserSession
          PROVE  OpenStreams(other)' = OpenStreams(other)
      BY <1>2 DEF AuthorizeStream, OpenStreams, At, IdleCall, TypeOK
    <2> QED
      BY <1>2, <2>1, <2>2, SameStreams DEF AuthorizeStream, timerVars
  <1>3. CASE StreamStarted(s)
    <2>1. PICK us \in UserSession : stream[s] = At("authorized", us)
      BY <1>1, <1>3 DEF StreamStarted, TypeOK, Call, At, IdleCall
    <2>2. /\ stream' = [stream EXCEPT ![s].pc = "open"]
          /\ streamCounts' = [streamCounts EXCEPT ![us] = @ + 1]
          /\ timers' = Stopped(timers, disconnectTimers[us])
          /\ disconnectTimers' = [disconnectTimers EXCEPT ![us] = NoTimer]
      BY <1>3, <2>1 DEF StreamStarted, At
    <2>3. stream'[s] = At("open", us)
      BY <2>1, <2>2 DEF TypeOK, At
    <2>4. stream' \in [Stream -> Call({"authorized", "open", "ended"})]
      BY <2>1, <2>2, <2>3 DEF TypeOK, Call, At
    <2>5. disconnectTimers[us] \in Timer \cup {NoTimer}
      BY <2>1 DEF TypeOK
    <2>a. /\ streamCounts' \in [UserSession -> Nat]
          /\ disconnectTimers' \in [UserSession -> Timer \cup {NoTimer}]
      BY <2>1, <2>2 DEF TypeOK
    <2>b. UNCHANGED <<sessionVars, publication, issuer, writer, docVars>>
      BY <1>3 DEF StreamStarted
    <2>6. TypeOK'
      BY <2>a, <2>b, <2>2, <2>4, <2>5, StoppedType DEF TypeOK, sessionVars, docVars
    <2>7. OpenStreams(us)' = OpenStreams(us) \cup {s} /\ s \notin OpenStreams(us)
      BY <2>1, <2>2, <2>3 DEF OpenStreams, At, TypeOK
    <2>8. ASSUME NEW other \in UserSession, other # us
          PROVE  OpenStreams(other)' = OpenStreams(other)
      BY <2>1, <2>2, <2>3, <2>8 DEF OpenStreams, At, TypeOK
    <2>9. Cardinality(OpenStreams(us)') = Cardinality(OpenStreams(us)) + 1
      BY <2>7, OpenStreamsFinite, FS_AddElement
    <2>10. streamCounts' = [streamCounts EXCEPT ![us] = streamCounts[us] + 1]
      BY <2>2
    <2>11. StreamCountExact'
      <3> SUFFICES ASSUME NEW other \in UserSession
                   PROVE  streamCounts'[other] = Cardinality(OpenStreams(other)')
        BY DEF StreamCountExact
      <3>1. CASE other = us
        BY <3>1, <2>1, <2>9, <2>10 DEF StreamCountExact, TypeOK
      <3>2. CASE other # us
        BY <3>2, <2>1, <2>8, <2>10 DEF StreamCountExact, TypeOK
      <3> QED
        BY <3>1, <3>2
    <2> QED
      BY <2>6, <2>11
  <1>4. CASE StreamEnded(s)
    <2>1. PICK us \in UserSession : stream[s] = At("open", us)
      BY <1>1, <1>4 DEF StreamEnded, TypeOK, Call, At, IdleCall
    <2>2. /\ stream' = [stream EXCEPT ![s] =
                          IF streamCounts'[us] <= 0 THEN At("ended", us) ELSE IdleCall]
          /\ streamCounts' = [streamCounts EXCEPT ![us] = streamCounts[us] - 1]
      BY <1>4, <2>1 DEF StreamEnded, At
    <2>3. stream'[s] \in {At("ended", us), IdleCall}
      BY <2>2 DEF TypeOK
    <2>4. stream' \in [Stream -> Call({"authorized", "open", "ended"})]
      BY <2>1, <2>2, <2>3 DEF TypeOK, Call, At
    <2>5. OpenStreams(us)' = OpenStreams(us) \ {s} /\ s \in OpenStreams(us)
      BY <2>1, <2>2, <2>3 DEF OpenStreams, At, IdleCall, TypeOK
    <2>6. ASSUME NEW other \in UserSession, other # us
          PROVE  OpenStreams(other)' = OpenStreams(other)
      BY <2>1, <2>2, <2>3, <2>6 DEF OpenStreams, At, IdleCall, TypeOK
    <2>7. Cardinality(OpenStreams(us)') = Cardinality(OpenStreams(us)) - 1
      BY <2>5, OpenStreamsFinite, FS_RemoveElement
    <2>8. Cardinality(OpenStreams(us)') \in Nat
      <3>1. IsFiniteSet(OpenStreams(us)')
        BY <2>5, OpenStreamsFinite, FS_RemoveElement
      <3> QED
        BY <3>1, FS_CardinalityType
    <2>9. StreamCountExact'
      <3> SUFFICES ASSUME NEW other \in UserSession
                   PROVE  streamCounts'[other] = Cardinality(OpenStreams(other)')
        BY DEF StreamCountExact
      <3>1. CASE other = us
        BY <3>1, <2>1, <2>2, <2>7 DEF StreamCountExact, TypeOK
      <3>2. CASE other # us
        BY <3>2, <2>1, <2>2, <2>6 DEF StreamCountExact, TypeOK
      <3> QED
        BY <3>1, <3>2
    <2>10. streamCounts[us] - 1 \in Nat
      BY <2>1, <2>7, <2>8 DEF StreamCountExact
    <2>11. TypeOK'
      BY <1>4, <2>1, <2>2, <2>4, <2>10 DEF StreamEnded, TypeOK, sessionVars, docVars
    <2> QED
      BY <2>9, <2>11
  <1>5. CASE ScheduleAfterStream(s)
    <2>1. stream[s].us \in UserSession /\ ScheduleDisconnect(stream[s].us)
      BY <1>1, <1>5 DEF ScheduleAfterStream
    <2>2. stream' \in [Stream -> Call({"authorized", "open", "ended"})]
      BY <1>5 DEF ScheduleAfterStream, TypeOK, Call
    <2>3. TypeOK'
      BY <1>5, <2>1, <2>2, ScheduleType
      DEF ScheduleAfterStream, TypeOK, sessionVars, docVars
    <2>4. ASSUME NEW other \in UserSession
          PROVE  OpenStreams(other)' = OpenStreams(other)
      BY <1>5 DEF ScheduleAfterStream, OpenStreams, At, IdleCall, TypeOK
    <2> QED
      BY <2>1, <2>3, <2>4, ScheduleType, SameStreams
  <1> QED
    BY <1>2, <1>3, <1>4, <1>5 DEF Streaming

\* A callback deletes only a count that is zero.
LEMMA TimerKeepsCount ==
  ASSUME CountInv, NEW t \in Timer, Timing(t)
  PROVE  CountInv'
  <1> USE DEF CountInv
  <1>1. timers[t].state # "unused" => timers[t].us \in UserSession
    BY DEF TypeOK
  <1>2. CASE TimerFires(t)
    <2>1. TypeOK'
      BY <1>1, <1>2 DEF TimerFires, TypeOK, sessionVars, docVars
    <2> QED
      BY <1>2, <2>1, SameStreams DEF TimerFires, OpenStreams
  <1>3. CASE ExpireIgnored(t)
    <2>1. TypeOK'
      BY <1>3 DEF ExpireIgnored, TypeOK, sessionVars, docVars, UnusedTimer, Person, NoTimer
    <2> QED
      BY <1>3, <2>1, SameStreams DEF ExpireIgnored, OpenStreams
  <1>4. CASE Expire(t)
    <2> DEFINE us == timers[t].us
    <2>1. us \in UserSession
      BY <1>1, <1>4 DEF Expire
    <2>2. streamCounts[us] = 0 /\ streamCounts' = [streamCounts EXCEPT ![us] = 0]
      BY <1>4, <2>1 DEF Expire, IsCurrent, TypeOK
    <2>3. streamCounts' = streamCounts
      BY <2>1, <2>2 DEF TypeOK
    <2>4. timers' \in [Timer ->
             [state  : {"unused", "pending", "fired", "departing"},
              us     : Person,
              handle : Timer \cup {NoTimer}]]
          /\ \A u \in Timer : timers'[u].state # "unused" => timers'[u].us \in UserSession
      BY <1>4, <2>1 DEF Expire, TypeOK
    <2>5. /\ sessions' \in [UserSession -> Sequence \cup {Absent}]
          /\ disconnectTimers' \in [UserSession -> Timer \cup {NoTimer}]
          /\ players' \in [Sequence -> Person]
          /\ monitoring' \in [local : Person, remote : Person]
      BY <1>4, <2>1 DEF Expire, TypeOK, NoMonitoring, Person
    <2>6. TypeOK'
      BY <1>4, <2>3, <2>4, <2>5 DEF Expire, TypeOK
    <2> QED
      BY <1>4, <2>3, <2>6, SameStreams DEF Expire, OpenStreams
  <1>5. CASE ExpireDepart(t)
    <2>1. timers' \in [Timer ->
             [state  : {"unused", "pending", "fired", "departing"},
              us     : Person,
              handle : Timer \cup {NoTimer}]]
          /\ \A u \in Timer : timers'[u].state # "unused" => timers'[u].us \in UserSession
      BY <1>5 DEF ExpireDepart, TypeOK, UnusedTimer, Person, NoTimer
    <2>2. TypeOK'
      BY <1>5, <2>1 DEF ExpireDepart, TypeOK, docVars
    <2> QED
      BY <1>5, <2>2, SameStreams DEF ExpireDepart, OpenStreams
  <1> QED
    BY <1>2, <1>3, <1>4, <1>5 DEF Timing

\* Every step preserves CountInv.
LEMMA CountStep ==
  ASSUME CountInv, [Next]_vars
  PROVE  CountInv'
  <1>1. CASE UNCHANGED vars
    <2>1. UNCHANGED <<registered, sessions, nextSequence, streamCounts, disconnectTimers,
                      timers, publication, issuer, stream, writer, players, monitoring>>
      BY <1>1 DEF vars, sessionVars, timerVars, docVars
    <2>2. TypeOK'
      BY <2>1 DEF CountInv, TypeOK
    <2> QED
      BY <2>1, <2>2, SameStreams DEF CountInv, OpenStreams
  <1> QED
    BY <1>1, IssuerKeepsCount, StreamKeepsCount, WriterKeepsCount, TimerKeepsCount DEF Next

\* CountInv holds at all times.
LEMMA CountAlways == Spec => []CountInv
  BY CountInitially, CountStep, PTL DEF Spec

\* Every variable keeps its type; streamCounts in particular is never negative
\* although streamEnded decrements an entry that expireSession may have deleted.
THEOREM LifecycleTypes == Spec => []TypeOK
  <1>1. CountInv => TypeOK
    BY DEF CountInv
  <1> QED
    BY <1>1, CountAlways, PTL

\* streamCounts holds the number of open streams of each id at all times.
THEOREM StreamsCounted == Spec => []StreamCountExact
  <1>1. CountInv => StreamCountExact
    BY DEF CountInv
  <1> QED
    BY <1>1, CountAlways, PTL

\* A step that keeps every session, or replaces an absent one, ends none.
LEMMA OnlyExpireEnds ==
  ASSUME CountInv, [Next]_vars, NEW us \in UserSession,
         sessions[us] # Absent, sessions'[us] = Absent
  PROVE  \E t \in Timer : Expire(t) /\ timers[t].us = us
  <1>1. ~UNCHANGED sessions
    OBVIOUS
  <1>2. Next
    BY <1>1 DEF vars, sessionVars
  <1>3. ASSUME NEW i \in Issuer, Issuing(i) PROVE FALSE
    <2>1. RememberSession(i)
      BY <1>1, <1>3 DEF Issuing, CheckMember, ScheduleAfterIssue, sessionVars
    <2>2. issuer[i].us \in UserSession /\ NumberNext(issuer[i].us)
      BY <1>1, <2>1, CallsNameUsers DEF RememberSession, CountInv
    <2>3. nextSequence' # Absent
      BY <2>2, LifecycleAssumption DEF NumberNext, CountInv, TypeOK, Sequence, Absent
    <2> QED
      BY <2>2, <2>3 DEF NumberNext, CountInv, TypeOK
  <1>4. ASSUME NEW s \in Stream, Streaming(s) PROVE FALSE
    BY <1>1, <1>4
    DEF Streaming, AuthorizeStream, StreamStarted, StreamEnded, ScheduleAfterStream, sessionVars
  <1>5. ASSUME NEW w \in Writer, Writing(w) PROVE FALSE
    BY <1>1, <1>5
    DEF Writing, AuthorizeWrite, CommitPlayer, CommitMonitoring, sessionVars
  <1>6. PICK t \in Timer : Timing(t)
    BY <1>2, <1>3, <1>4, <1>5 DEF Next
  <1>7. Expire(t)
    BY <1>1, <1>6 DEF Timing, TimerFires, ExpireIgnored, ExpireDepart, sessionVars
  <1>8. timers[t].us = us
    BY <1>7 DEF Expire, CountInv, TypeOK
  <1> QED
    BY <1>7, <1>8

\* A session that has an open stream is not expired by any callback, however
\* late the callback and whatever its closure captured.
THEOREM StreamsKeepSessions == Spec => NoStreamEvicted
  <1>1. ASSUME CountInv, [Next]_vars, NEW us \in UserSession,
               sessions[us] # Absent, sessions'[us] = Absent
        PROVE  OpenStreams(us) = {}
    <2>1. PICK t \in Timer : Expire(t) /\ timers[t].us = us
      BY <1>1, OnlyExpireEnds
    <2>2. streamCounts[us] = 0
      BY <1>1, <2>1 DEF Expire, IsCurrent, CountInv, TypeOK
    <2>3. Cardinality(OpenStreams(us)) = 0
      BY <1>1, <2>2 DEF CountInv, StreamCountExact
    <2> QED
      BY <2>3, OpenStreamsFinite, FS_EmptySet
  <1>2. CountInv /\ [Next]_vars =>
          [\A us \in UserSession :
             sessions[us] # Absent /\ sessions'[us] = Absent => OpenStreams(us) = {}]_vars
    BY <1>1
  <1> QED
    BY <1>2, CountAlways, PTL DEF Spec, NoStreamEvicted
-----------------------------------------------------------------------------
(***************************************************************************)
(* What a step does to the documents, and to the sessions they depend on.  *)
(***************************************************************************)
\* The ways a step changes sessions, documents and what writers know of them.
DocShape ==
  \/ UNCHANGED <<sessions, nextSequence, players, monitoring, writer>>
  \/ \E us \in UserSession :
       /\ sessions[us] = Absent /\ NumberNext(us)
       /\ UNCHANGED <<players, monitoring, writer>>
  \/ \E w \in Writer, us \in UserSession :
       /\ AuthorizeWrite(w, us)
  \/ \E w \in Writer : CommitPlayer(w)
  \/ \E w \in Writer, us \in UserSession : CommitMonitoring(w, us)
  \/ \E t \in Timer : Expire(t)

\* Every step has one of these shapes.
LEMMA StepHasDocShape ==
  ASSUME CountInv, [Next]_vars
  PROVE  DocShape
  <1>1. CASE UNCHANGED vars
    BY <1>1 DEF vars, sessionVars, docVars, DocShape
  <1>2. ASSUME NEW i \in Issuer, Issuing(i) PROVE DocShape
    <2>1. CASE RememberSession(i)
      <3>1. issuer[i].us \in UserSession
        BY <2>1, CallsNameUsers DEF RememberSession, CountInv
      <3> QED
        BY <2>1, <3>1 DEF RememberSession, docVars, DocShape
    <2> QED
      BY <1>2, <2>1 DEF Issuing, CheckMember, ScheduleAfterIssue, sessionVars, docVars, DocShape
  <1>3. ASSUME NEW s \in Stream, Streaming(s) PROVE DocShape
    BY <1>3 DEF Streaming, AuthorizeStream, StreamStarted, StreamEnded,
                ScheduleAfterStream, sessionVars, docVars, DocShape
  <1>4. ASSUME NEW w \in Writer, Writing(w) PROVE DocShape
    BY <1>4 DEF Writing, DocShape
  <1>5. ASSUME NEW t \in Timer, Timing(t) PROVE DocShape
    BY <1>5 DEF Timing, TimerFires, ExpireIgnored, ExpireDepart, sessionVars, docVars, DocShape
  <1> QED
    BY <1>1, <1>2, <1>3, <1>4, <1>5 DEF Next

\* Each shape leaves documents only of users with sessions.
LEMMA OrphansStep ==
  ASSUME CountInv, NoOrphanDocuments, DocShape
  PROVE  NoOrphanDocuments'
  <1> USE DEF CountInv
  <1>1. CASE UNCHANGED <<sessions, nextSequence, players, monitoring, writer>>
    BY <1>1 DEF NoOrphanDocuments
  <1>2. ASSUME NEW us \in UserSession, sessions[us] = Absent, NumberNext(us),
               UNCHANGED <<players, monitoring, writer>>
        PROVE  NoOrphanDocuments'
    <2>1. nextSequence' # Absent
      BY <1>2, LifecycleAssumption DEF NumberNext, TypeOK, Sequence, Absent
    <2> QED
      BY <1>2, <2>1 DEF NumberNext, NoOrphanDocuments, TypeOK, Person
  <1>3. ASSUME NEW w \in Writer, NEW us \in UserSession, AuthorizeWrite(w, us)
        PROVE  NoOrphanDocuments'
    BY <1>3 DEF AuthorizeWrite, sessionVars, docVars, NoOrphanDocuments
  <1>4. ASSUME NEW w \in Writer, CommitPlayer(w) PROVE NoOrphanDocuments'
    <2>1. writer[w].us \in UserSession
      BY <1>4, CallsNameUsers DEF CommitPlayer
    <2> QED
      BY <1>4, <2>1 DEF CommitPlayer, StillThere, sessionVars, NoOrphanDocuments, TypeOK
  <1>5. ASSUME NEW w \in Writer, NEW us \in UserSession, CommitMonitoring(w, us)
        PROVE  NoOrphanDocuments'
    BY <1>5 DEF CommitMonitoring, StillThere, sessionVars, NoOrphanDocuments
  <1>6. ASSUME NEW t \in Timer, Expire(t) PROVE NoOrphanDocuments'
    <2>1. timers[t].us \in UserSession
      BY <1>6 DEF Expire, TypeOK
    <2> QED
      BY <1>6, <2>1 DEF Expire, NoOrphanDocuments, NoMonitoring, TypeOK, Person
  <1> QED
    BY <1>1, <1>2, <1>3, <1>4, <1>5, <1>6 DEF DocShape

\* Nothing a stale writer commits outlives the session of its user: whenever a
\* document of a player, or a monitoring document, exists its user has a session.
THEOREM NoOrphans == Spec => []NoOrphanDocuments
  <1>1. Init => NoOrphanDocuments
    BY DEF Init, NoOrphanDocuments, NoMonitoring
  <1>2. CountInv /\ NoOrphanDocuments /\ [Next]_vars => NoOrphanDocuments'
    BY StepHasDocShape, OrphansStep
  <1> QED
    BY <1>1, <1>2, CountAlways, PTL DEF Spec
-----------------------------------------------------------------------------
(***************************************************************************)
(* Numbers.  A number can be in use in three places: as the sequence of a  *)
(* session, as the name of a player's document, and in the credentials of  *)
(* a writer, from which the second can come long after the first is gone.  *)
(***************************************************************************)
Claims(us, n) ==
  \/ sessions[us] = n
  \/ players[n] = us
  \/ \E w \in Writer : writer[w] = [pc |-> "authorized", us |-> us, seq |-> n]

NumbersOwned ==
  \A n \in Sequence :
    /\ \A us \in UserSession : Claims(us, n) => n <= nextSequence
    /\ \A us, other \in UserSession : Claims(us, n) /\ Claims(other, n) => us = other

\* No step but a new session's gives anybody a claim to a number it had not.
LEMMA ClaimsShrink ==
  ASSUME NumbersOwned, nextSequence' = nextSequence,
         \A n \in Sequence : \A us \in UserSession : Claims(us, n)' => Claims(us, n)
  PROVE  NumbersOwned'
  BY DEF NumbersOwned

\* Each shape leaves every number with one owner.
LEMMA NumbersStep ==
  ASSUME CountInv, NumbersOwned, DocShape
  PROVE  NumbersOwned'
  <1> USE DEF CountInv
  <1>1. CASE UNCHANGED <<sessions, nextSequence, players, monitoring, writer>>
    BY <1>1, ClaimsShrink DEF Claims
  <1>2. ASSUME NEW us \in UserSession, sessions[us] = Absent, NumberNext(us),
               UNCHANGED <<players, monitoring, writer>>
        PROVE  NumbersOwned'
    <2> DEFINE new == nextSequence'
    <2>1. /\ nextSequence \in Nat
          /\ nextSequence' = nextSequence + 1
          /\ sessions' = [sessions EXCEPT ![us] = nextSequence + 1]
      BY <1>2, LifecycleAssumption DEF NumberNext, TypeOK, Sequence
    <2>2. ASSUME NEW n \in Sequence, NEW other \in UserSession, Claims(other, n)'
          PROVE  Claims(other, n) \/ (n = nextSequence + 1 /\ other = us)
      <3>1. CASE sessions'[other] = n
        BY <2>1, <3>1 DEF Claims, TypeOK
      <3>2. CASE sessions'[other] # n
        BY <1>2, <2>2, <3>2 DEF Claims
      <3> QED
        BY <3>1, <3>2
    <2>3. ASSUME NEW n \in Sequence, NEW other \in UserSession, Claims(other, n)
          PROVE  n <= nextSequence
      BY <2>3 DEF NumbersOwned
    <2>4. \A n \in Sequence : n \in Nat
      BY LifecycleAssumption DEF Sequence
    <2> HIDE DEF new
    <2> SUFFICES ASSUME NEW n \in Sequence,
                        NEW u \in UserSession, Claims(u, n)',
                        NEW v \in UserSession, Claims(v, n)'
                 PROVE  n <= nextSequence' /\ u = v
      BY DEF NumbersOwned
    <2>5. CASE n = nextSequence + 1
      BY <2>1, <2>2, <2>3, <2>5
    <2>6. CASE n # nextSequence + 1
      <3>1. Claims(u, n) /\ Claims(v, n)
        BY <2>2, <2>6
      <3>2. n <= nextSequence /\ u = v
        BY <3>1 DEF NumbersOwned
      <3> QED
        BY <2>1, <2>4, <3>2
    <2> QED
      BY <2>5, <2>6
  <1>3. ASSUME NEW w \in Writer, NEW us \in UserSession, AuthorizeWrite(w, us)
        PROVE  NumbersOwned'
    <2>1. ASSUME NEW n \in Sequence, NEW other \in UserSession, Claims(other, n)'
          PROVE  Claims(other, n)
      <3>1. ASSUME NEW v \in Writer,
                   writer'[v] = [pc |-> "authorized", us |-> other, seq |-> n], v = w
            PROVE  sessions[other] = n
        BY <1>3, <3>1 DEF AuthorizeWrite, TypeOK
      <3>2. ASSUME NEW v \in Writer, v # w PROVE writer'[v] = writer[v]
        BY <1>3, <3>2 DEF AuthorizeWrite, TypeOK
      <3> QED
        BY <1>3, <2>1, <3>1, <3>2 DEF AuthorizeWrite, Claims, sessionVars, docVars
    <2> QED
      BY <1>3, <2>1, ClaimsShrink DEF AuthorizeWrite, sessionVars
  <1>4. ASSUME NEW w \in Writer, FinishWrite(w)
        PROVE  \A v \in Writer : writer'[v].pc = "authorized" => writer'[v] = writer[v]
    BY <1>4 DEF FinishWrite, TypeOK
  <1>5. ASSUME NEW w \in Writer, CommitPlayer(w) PROVE NumbersOwned'
    <2>1. writer[w] = [pc |-> "authorized", us |-> writer[w].us, seq |-> writer[w].seq]
      BY <1>5 DEF CommitPlayer, TypeOK
    <2>2. ASSUME NEW n \in Sequence, NEW other \in UserSession, Claims(other, n)'
          PROVE  Claims(other, n)
      <3>1. CASE players'[n] = other
        <4>1. players[n] = other \/ (n = writer[w].seq /\ other = writer[w].us)
          BY <1>5, <3>1 DEF CommitPlayer, TypeOK
        <4> QED
          BY <2>1, <4>1 DEF Claims
      <3>2. CASE players'[n] # other
        BY <1>4, <1>5, <2>2, <3>2 DEF Claims, CommitPlayer, sessionVars
      <3> QED
        BY <3>1, <3>2
    <2> QED
      BY <1>5, <2>2, ClaimsShrink DEF CommitPlayer, sessionVars
  <1>6. ASSUME NEW w \in Writer, NEW us \in UserSession, CommitMonitoring(w, us)
        PROVE  NumbersOwned'
    <2>1. ASSUME NEW n \in Sequence, NEW other \in UserSession, Claims(other, n)'
          PROVE  Claims(other, n)
      BY <1>4, <1>6, <2>1 DEF Claims, CommitMonitoring, sessionVars
    <2> QED
      BY <1>6, <2>1, ClaimsShrink DEF CommitMonitoring, sessionVars
  <1>7. ASSUME NEW t \in Timer, Expire(t) PROVE NumbersOwned'
    <2>1. ASSUME NEW n \in Sequence, NEW other \in UserSession, Claims(other, n)'
          PROVE  Claims(other, n)
      <3>1. n # Absent
        BY LifecycleAssumption DEF Sequence, Absent
      <3>2. sessions'[other] = n => sessions[other] = n
        BY <1>7, <3>1 DEF Expire, TypeOK
      <3>3. players'[n] = other => players[n] = other \/ other = Nobody
        BY <1>7 DEF Expire, TypeOK
      <3> QED
        BY <1>7, <2>1, <3>2, <3>3, LifecycleAssumption DEF Expire, Claims
    <2> QED
      BY <1>7, <2>1, ClaimsShrink DEF Expire
  <1> QED
    BY <1>1, <1>2, <1>3, <1>5, <1>6, <1>7 DEF DocShape

\* At first nobody claims a number.
LEMMA NumbersInitially == Init => NumbersOwned
  BY LifecycleAssumption DEF Init, NumbersOwned, Claims, Sequence, Absent

\* No two sessions ever have one number, and under the number of a session no
\* document of another player is found, though documents can be written under
\* the numbers of sessions long expired (see the run expiration_wins).
THEOREM NumbersUnshared == Spec => []SequenceNeverShared
  <1>1. CountInv /\ NumbersOwned => SequenceNeverShared
    <2> SUFFICES ASSUME CountInv, NumbersOwned,
                        NEW us \in UserSession, NEW other \in UserSession,
                        sessions[us] # Absent, us # other
                 PROVE  sessions[other] # sessions[us] /\ players[sessions[us]] # other
      BY DEF SequenceNeverShared
    <2>1. sessions[us] \in Sequence
      BY DEF CountInv, TypeOK
    <2>2. Claims(us, sessions[us])
      BY DEF Claims
    <2>3. ~Claims(other, sessions[us])
      BY <2>1, <2>2 DEF NumbersOwned
    <2> QED
      BY <2>3 DEF Claims
  <1>2. CountInv /\ NumbersOwned /\ [Next]_vars => NumbersOwned'
    BY StepHasDocShape, NumbersStep
  <1> QED
    BY <1>1, <1>2, NumbersInitially, CountAlways, PTL DEF Spec
-----------------------------------------------------------------------------
(***************************************************************************)
(* Cleanup, when no callback starts before its timer has been assigned.    *)
(* A callback then knows its own timer, and no two ids wait for one timer, *)
(* so what is done about one id never stops the timer of another.          *)
(***************************************************************************)
Running(t) == timers[t].state \in {"pending", "fired"}

TimerInv ==
  /\ \A t \in Timer : Running(t) => timers[t].handle = t
  /\ \A us, other \in UserSession :
       disconnectTimers[us] = disconnectTimers[other] /\ us # other
         => disconnectTimers[us] = NoTimer

\* Scheduling names the new timer for one id only: nobody referred to it.
LEMMA ScheduleKeepsTimers ==
  ASSUME PromptTimers = FALSE, TypeOK, TimerInv,
         NEW us \in UserSession, ScheduleDisconnect(us)
  PROVE  TimerInv'
  <1>1. CASE streamCounts[us] > 0
    BY <1>1 DEF ScheduleDisconnect, timerVars, TimerInv, Running
  <1>2. CASE ~(streamCounts[us] > 0)
    <2>1. PICK t \in Timer :
            /\ Unreferenced(t)
            /\ timers' = [Stopped(timers, disconnectTimers[us]) EXCEPT ![t] =
                            [state |-> "pending", us |-> us, handle |-> t]]
            /\ disconnectTimers' = [disconnectTimers EXCEPT ![us] = t]
      BY <1>2 DEF ScheduleDisconnect, Armed
    <2>2. ASSUME NEW u \in Timer, Running(u)'
          PROVE  timers'[u].handle = u
      <3>1. CASE u = t
        BY <2>1, <3>1, StoppedType DEF TypeOK
      <3>2. CASE u # t
        <4>1. timers'[u] \in {timers[u], UnusedTimer}
          BY <2>1, <3>2, StoppedType DEF Stopped, TypeOK
        <4> QED
          BY <2>2, <4>1 DEF Running, UnusedTimer, TimerInv
      <3> QED
        BY <3>1, <3>2
    <2>3. ASSUME NEW u \in UserSession, NEW v \in UserSession, u # v,
                 disconnectTimers'[u] = disconnectTimers'[v]
          PROVE  disconnectTimers'[u] = NoTimer
      BY <2>1, <2>3 DEF TypeOK, TimerInv, Unreferenced
    <2> QED
      BY <2>2, <2>3 DEF TimerInv
  <1> QED
    BY <1>1, <1>2

\* Every step preserves TimerInv.
LEMMA TimerInvStep ==
  ASSUME PromptTimers = FALSE, CountInv, TimerInv, [Next]_vars
  PROVE  TimerInv'
  <1> USE DEF CountInv
  <1>1. ASSUME UNCHANGED <<disconnectTimers, timers>> PROVE TimerInv'
    BY <1>1 DEF TimerInv, Running
  <1>2. CASE UNCHANGED vars
    BY <1>1, <1>2 DEF vars, timerVars
  <1>3. ASSUME NEW i \in Issuer, Issuing(i) PROVE TimerInv'
    <2>1. CASE ScheduleAfterIssue(i)
      BY <2>1, CallsNameUsers, ScheduleKeepsTimers DEF ScheduleAfterIssue
    <2> QED
      BY <1>1, <1>3, <2>1 DEF Issuing, CheckMember, RememberSession, timerVars
  <1>4. ASSUME NEW s \in Stream, Streaming(s) PROVE TimerInv'
    <2>1. CASE StreamStarted(s)
      <3>1. PICK us \in UserSession : us = stream[s].us
        BY <2>1, CallsNameUsers DEF StreamStarted
      <3>2. /\ timers' = Stopped(timers, disconnectTimers[us])
            /\ disconnectTimers' = [disconnectTimers EXCEPT ![us] = NoTimer]
        BY <2>1, <3>1 DEF StreamStarted
      <3>3. ASSUME NEW u \in Timer, Running(u)' PROVE timers'[u].handle = u
        <4>1. timers'[u] \in {timers[u], UnusedTimer}
          BY <3>2 DEF Stopped, TypeOK
        <4> QED
          BY <3>3, <4>1 DEF Running, UnusedTimer, TimerInv
      <3> QED
        BY <3>2, <3>3 DEF TypeOK, TimerInv
    <2>2. CASE ScheduleAfterStream(s)
      BY <2>2, CallsNameUsers, ScheduleKeepsTimers DEF ScheduleAfterStream
    <2> QED
      BY <1>1, <1>4, <2>1, <2>2 DEF Streaming, AuthorizeStream, StreamEnded, timerVars
  <1>5. ASSUME NEW w \in Writer, Writing(w) PROVE TimerInv'
    BY <1>1, <1>5 DEF Writing, AuthorizeWrite, CommitPlayer, CommitMonitoring, timerVars
  <1>6. ASSUME NEW t \in Timer, Timing(t) PROVE TimerInv'
    <2>1. ASSUME NEW u \in Timer, Running(u)' PROVE timers'[u].handle = u
      <3>1. CASE u = t
        BY <1>6, <2>1, <3>1
        DEF Timing, TimerFires, ExpireIgnored, Expire, ExpireDepart, Running, UnusedTimer,
            TypeOK, TimerInv
      <3>2. CASE u # t
        <4>1. timers'[u] = timers[u]
          BY <1>6, <3>2
          DEF Timing, TimerFires, ExpireIgnored, Expire, ExpireDepart, TypeOK
        <4> QED
          BY <2>1, <4>1 DEF Running, TimerInv
      <3> QED
        BY <3>1, <3>2
    <2>2. \/ disconnectTimers' = disconnectTimers
          \/ \E us \in UserSession :
               disconnectTimers' = [disconnectTimers EXCEPT ![us] = NoTimer]
      BY <1>6 DEF Timing, TimerFires, ExpireIgnored, Expire, ExpireDepart, TypeOK
    <2> QED
      BY <2>1, <2>2 DEF TimerInv, TypeOK
  <1> QED
    BY <1>2, <1>3, <1>4, <1>5, <1>6 DEF Next

\* The timer the map names for an id is its own, and has not expired anything.
TimerPending(us) ==
  \E t \in Timer : /\ disconnectTimers[us] = t
                   /\ Running(t)
                   /\ timers[t].us = us
                   /\ timers[t].handle = t

\* An id without streams that is scheduled has a timer of its own then.
LEMMA ScheduleArms ==
  ASSUME PromptTimers = FALSE, TypeOK, NEW us \in UserSession,
         ScheduleDisconnect(us), streamCounts[us] <= 0
  PROVE  TimerPending(us)'
  <1>1. PICK t \in Timer :
          /\ timers' = [Stopped(timers, disconnectTimers[us]) EXCEPT ![t] =
                          [state |-> "pending", us |-> us, handle |-> t]]
          /\ disconnectTimers' = [disconnectTimers EXCEPT ![us] = t]
    BY DEF ScheduleDisconnect, Armed, TypeOK
  <1>2. timers'[t] = [state |-> "pending", us |-> us, handle |-> t]
    BY <1>1, StoppedType DEF TypeOK
  <1> QED
    BY <1>1, <1>2 DEF TimerPending, Running, TypeOK

\* What is scheduled for one id does not disarm another.
LEMMA ScheduleSparesOthers ==
  ASSUME PromptTimers = FALSE, TypeOK, TimerInv,
         NEW us \in UserSession, NEW other \in UserSession, other # us,
         ScheduleDisconnect(other), TimerPending(us)
  PROVE  TimerPending(us)'
  <1>1. PICK u \in Timer : /\ disconnectTimers[us] = u
                           /\ Running(u)
                           /\ timers[u].us = us
                           /\ timers[u].handle = u
    BY DEF TimerPending
  <1>2. CASE streamCounts[other] > 0
    BY <1>2 DEF ScheduleDisconnect, timerVars, TimerPending, Running
  <1>3. CASE ~(streamCounts[other] > 0)
    <2>1. PICK t \in Timer :
            /\ timers[t] = UnusedTimer
            /\ timers' = [Stopped(timers, disconnectTimers[other]) EXCEPT ![t] =
                            [state |-> "pending", us |-> other, handle |-> t]]
            /\ disconnectTimers' = [disconnectTimers EXCEPT ![other] = t]
      BY <1>3 DEF ScheduleDisconnect, Armed
    <2>2. u # t
      BY <1>1, <2>1 DEF Running, UnusedTimer
    <2>3. u # disconnectTimers[other]
      BY <1>1, LifecycleAssumption DEF TimerInv, Timer, NoTimer
    <2>4. timers'[u] = timers[u]
      BY <2>1, <2>2, <2>3 DEF Stopped, TypeOK
    <2> QED
      BY <1>1, <2>1, <2>4 DEF TimerPending, Running, TypeOK
  <1> QED
    BY <1>2, <1>3

\* IssueToken leaves every unstreamed session with a timer, or arms one next.
LEMMA CleanupIssuer ==
  ASSUME PromptTimers = FALSE, CountInv, TimerInv, CleanupArmed,
         NEW i \in Issuer, Issuing(i),
         NEW us \in UserSession, sessions'[us] # Absent, streamCounts'[us] <= 0
  PROVE  Pending(us)'
  <1> USE DEF CountInv
  <1>1. issuer[i].pc # "idle" => issuer[i].us \in UserSession
    BY CallsNameUsers
  <1>2. ASSUME NEW member \in UserSession, CheckMember(i, member) PROVE Pending(us)'
    <2>1. Pending(us)
      BY <1>2 DEF CheckMember, sessionVars, timerVars, CleanupArmed
    <2>2. ASSUME NEW j \in Issuer, issuer[j] = At("remembered", us)
          PROVE  issuer'[j] = issuer[j]
      BY <1>2, <2>2 DEF CheckMember, At, IdleCall, TypeOK
    <2> QED
      BY <1>2, <2>1, <2>2 DEF CheckMember, timerVars, Pending
  <1>3. CASE RememberSession(i)
    <2>1. PICK member \in UserSession : issuer[i] = At("checked", member)
      BY <1>1, <1>3 DEF RememberSession, TypeOK, Call, At, IdleCall
    <2>2. issuer'[i] = At("remembered", member)
      BY <1>3, <2>1 DEF RememberSession, At, TypeOK
    <2>3. CASE us = member
      BY <2>2, <2>3 DEF Pending
    <2>4. CASE us # member
      <3>1. sessions'[us] = sessions[us]
        BY <1>3, <2>1, <2>4 DEF RememberSession, NumberNext, TypeOK, At
      <3>2. Pending(us)
        BY <1>3, <3>1 DEF RememberSession, timerVars, CleanupArmed
      <3>3. ASSUME NEW j \in Issuer, issuer[j] = At("remembered", us)
            PROVE  issuer'[j] = issuer[j]
        BY <1>3, <2>1, <3>3 DEF RememberSession, At, TypeOK
      <3> QED
        BY <1>3, <3>2, <3>3 DEF RememberSession, timerVars, Pending
    <2> QED
      BY <2>3, <2>4
  <1>4. CASE ScheduleAfterIssue(i)
    <2>1. PICK member \in UserSession :
            issuer[i] = At("remembered", member) /\ ScheduleDisconnect(member)
      BY <1>1, <1>4 DEF ScheduleAfterIssue, TypeOK, Call, At, IdleCall
    <2>2. sessions' = sessions /\ streamCounts' = streamCounts
      BY <1>4, <2>1, ScheduleType DEF ScheduleAfterIssue, sessionVars
    <2>3. CASE us = member
      BY <2>1, <2>2, <2>3, ScheduleArms DEF TimerPending, Pending, Running
    <2>4. CASE us # member
      <3>1. Pending(us)
        BY <2>2 DEF CleanupArmed
      <3>2. TimerPending(us) => TimerPending(us)'
        BY <2>1, <2>4, ScheduleSparesOthers
      <3>3. ASSUME NEW j \in Issuer, issuer[j] = At("remembered", us)
            PROVE  issuer'[j] = issuer[j]
        BY <1>4, <2>1, <2>4, <3>3 DEF ScheduleAfterIssue, At, TypeOK
      <3>4. stream' = stream
        BY <1>4 DEF ScheduleAfterIssue
      <3> QED
        BY <3>1, <3>2, <3>3, <3>4 DEF Pending, TimerPending, Running
    <2> QED
      BY <2>3, <2>4
  <1> QED
    BY <1>2, <1>3, <1>4 DEF Issuing

\* So does a stream that starts or ends.
LEMMA CleanupStream ==
  ASSUME PromptTimers = FALSE, CountInv, TimerInv, CleanupArmed,
         NEW s \in Stream, Streaming(s),
         NEW us \in UserSession, sessions'[us] # Absent, streamCounts'[us] <= 0
  PROVE  Pending(us)'
  <1> USE DEF CountInv
  <1>1. stream[s].pc # "idle" => stream[s].us \in UserSession
    BY CallsNameUsers
  <1>2. sessions' = sessions
    BY DEF Streaming, AuthorizeStream, StreamStarted, StreamEnded, ScheduleAfterStream,
           sessionVars
  <1>3. ASSUME NEW other \in UserSession, AuthorizeStream(s, other) PROVE Pending(us)'
    <2>1. Pending(us)
      BY <1>2, <1>3 DEF AuthorizeStream, timerVars, CleanupArmed
    <2>2. ASSUME NEW r \in Stream, stream[r] = At("ended", us)
          PROVE  stream'[r] = stream[r]
      BY <1>3, <2>2 DEF AuthorizeStream, At, IdleCall, TypeOK
    <2> QED
      BY <1>3, <2>1, <2>2 DEF AuthorizeStream, timerVars, Pending
  <1>4. CASE StreamStarted(s)
    <2>1. PICK other \in UserSession : stream[s] = At("authorized", other)
      BY <1>1, <1>4 DEF StreamStarted, TypeOK, Call, At, IdleCall
    <2>2. /\ streamCounts' = [streamCounts EXCEPT ![other] = streamCounts[other] + 1]
          /\ timers' = Stopped(timers, disconnectTimers[other])
          /\ disconnectTimers' = [disconnectTimers EXCEPT ![other] = NoTimer]
          /\ stream' = [stream EXCEPT ![s].pc = "open"]
          /\ issuer' = issuer
      BY <1>4, <2>1 DEF StreamStarted, At
    <2>3. us # other
      BY <2>1, <2>2 DEF TypeOK
    <2>4. Pending(us)
      BY <1>2, <2>2, <2>3 DEF CleanupArmed, TypeOK
    <2>5. ASSUME NEW u \in Timer, disconnectTimers[us] = u
          PROVE  timers'[u] = timers[u] /\ disconnectTimers'[us] = u
      <3>1. u # disconnectTimers[other]
        BY <2>3, <2>5, LifecycleAssumption DEF TimerInv, Timer, NoTimer
      <3> QED
        BY <2>2, <2>3, <2>5, <3>1 DEF Stopped, TypeOK
    <2>6. ASSUME NEW r \in Stream, stream[r] = At("ended", us)
          PROVE  stream'[r] = stream[r]
      BY <2>1, <2>2, <2>6 DEF At, TypeOK
    <2> QED
      BY <2>2, <2>4, <2>5, <2>6 DEF Pending
  <1>5. CASE StreamEnded(s)
    <2>1. PICK other \in UserSession : stream[s] = At("open", other)
      BY <1>1, <1>5 DEF StreamEnded, TypeOK, Call, At, IdleCall
    <2>2. /\ streamCounts' = [streamCounts EXCEPT ![other] = streamCounts[other] - 1]
          /\ stream' = [stream EXCEPT ![s] =
               IF streamCounts'[other] <= 0 THEN At("ended", other) ELSE IdleCall]
          /\ UNCHANGED <<disconnectTimers, timers, issuer>>
      BY <1>5, <2>1 DEF StreamEnded, At
    <2>3. CASE us = other
      BY <2>2, <2>3 DEF Pending, TypeOK
    <2>4. CASE us # other
      <3>1. Pending(us)
        BY <1>2, <2>2, <2>4 DEF CleanupArmed, TypeOK
      <3>2. ASSUME NEW r \in Stream, stream[r] = At("ended", us)
            PROVE  stream'[r] = stream[r]
        BY <2>1, <2>2, <3>2 DEF At, TypeOK
      <3> QED
        BY <2>2, <3>1, <3>2 DEF Pending
    <2> QED
      BY <2>3, <2>4
  <1>6. CASE ScheduleAfterStream(s)
    <2>1. PICK other \in UserSession :
            stream[s] = At("ended", other) /\ ScheduleDisconnect(other)
      BY <1>1, <1>6 DEF ScheduleAfterStream, TypeOK, Call, At, IdleCall
    <2>2. streamCounts' = streamCounts
      BY <2>1, ScheduleType
    <2>3. CASE us = other
      BY <2>1, <2>2, <2>3, ScheduleArms DEF TimerPending, Pending, Running
    <2>4. CASE us # other
      <3>1. Pending(us)
        BY <1>2, <2>2 DEF CleanupArmed
      <3>2. TimerPending(us) => TimerPending(us)'
        BY <2>1, <2>4, ScheduleSparesOthers
      <3>3. ASSUME NEW r \in Stream, stream[r] = At("ended", us)
            PROVE  stream'[r] = stream[r]
        BY <1>6, <2>1, <2>4, <3>3 DEF ScheduleAfterStream, At, TypeOK
      <3>4. issuer' = issuer
        BY <1>6 DEF ScheduleAfterStream
      <3> QED
        BY <3>1, <3>2, <3>3, <3>4 DEF Pending, TimerPending, Running
    <2> QED
      BY <2>3, <2>4
  <1> QED
    BY <1>3, <1>4, <1>5, <1>6 DEF Streaming

\* So does a callback: one it ignores was not the one waited for.
LEMMA CleanupTimer ==
  ASSUME CountInv, TimerInv, CleanupArmed,
         NEW t \in Timer, Timing(t),
         NEW us \in UserSession, sessions'[us] # Absent, streamCounts'[us] <= 0
  PROVE  Pending(us)'
  <1> USE DEF CountInv
  <1>1. timers[t].state # "unused" => timers[t].us \in UserSession
    BY DEF TypeOK
  <1>2. issuer' = issuer /\ stream' = stream
    BY DEF Timing, TimerFires, ExpireIgnored, Expire, ExpireDepart
  <1>3. /\ sessions'[us] = sessions[us]
        /\ disconnectTimers'[us] = disconnectTimers[us]
        /\ streamCounts'[us] = streamCounts[us]
    <2>1. CASE Expire(t)
      BY <1>1, <2>1 DEF Expire, TypeOK
    <2> QED
      BY <2>1 DEF Timing, TimerFires, ExpireIgnored, ExpireDepart, sessionVars
  <1>4. Pending(us)
    BY <1>3 DEF CleanupArmed
  <1>5. ASSUME NEW u \in Timer, disconnectTimers[us] = u, Running(u),
               timers[u].us = us, timers[u].handle = u
        PROVE  TimerPending(us)'
    <2>1. CASE u # t
      <3>1. timers'[u] = timers[u]
        BY <2>1 DEF Timing, TimerFires, ExpireIgnored, Expire, ExpireDepart, TypeOK
      <3> QED
        BY <1>3, <1>5, <3>1 DEF TimerPending, Running
    <2>2. CASE u = t
      <3>1. ~ExpireIgnored(t)
        BY <1>3, <1>5, <2>2 DEF ExpireIgnored, IsCurrent
      <3>2. ~Expire(t)
        BY <1>5, <2>2 DEF Expire, TypeOK
      <3>3. ~ExpireDepart(t)
        BY <1>5, <2>2 DEF ExpireDepart, Running
      <3>4. TimerFires(t)
        BY <3>1, <3>2, <3>3 DEF Timing
      <3>5. timers'[u] = [timers[u] EXCEPT !.state = "fired"]
        BY <2>2, <3>4 DEF TimerFires, TypeOK
      <3>6. /\ timers'[u].state = "fired"
            /\ timers'[u].us = us
            /\ timers'[u].handle = u
        BY <1>5, <3>5 DEF TypeOK
      <3> QED
        BY <1>3, <1>5, <3>6 DEF TimerPending, Running
    <2> QED
      BY <2>1, <2>2
  <1> QED
    BY <1>2, <1>4, <1>5 DEF Pending, TimerPending, Running

\* Every step keeps the cleanup of every session armed.
LEMMA CleanupStep ==
  ASSUME PromptTimers = FALSE, CountInv, TimerInv, CleanupArmed, [Next]_vars
  PROVE  CleanupArmed'
  <1> SUFFICES ASSUME NEW us \in UserSession,
                      sessions'[us] # Absent, streamCounts'[us] <= 0
               PROVE  Pending(us)'
    BY DEF CleanupArmed
  <1>1. ASSUME UNCHANGED <<sessions, timerVars, issuer, stream>> PROVE Pending(us)'
    BY <1>1 DEF CleanupArmed, Pending, timerVars
  <1>2. ASSUME NEW w \in Writer, Writing(w) PROVE Pending(us)'
    BY <1>1, <1>2 DEF Writing, AuthorizeWrite, CommitPlayer, CommitMonitoring, sessionVars
  <1>3. CASE UNCHANGED vars
    BY <1>1, <1>3 DEF vars, sessionVars
  <1> QED
    BY <1>2, <1>3, CleanupIssuer, CleanupStream, CleanupTimer DEF Next

\* Unless a callback starts before its timer is assigned, a session nobody
\* streams always has a timer that will expire it, or a goroutine about to arm
\* one: no interleaving of renewals, streams and stale callbacks forgets it.
THEOREM CleanupStaysArmed ==
  ASSUME PromptTimers = FALSE
  PROVE  Spec => []CleanupArmed
  <1>1. Init => TimerInv /\ CleanupArmed
    BY DEF Init, TimerInv, Running, UnusedTimer, CleanupArmed
  <1>2. CountInv /\ TimerInv /\ CleanupArmed /\ [Next]_vars
          => TimerInv' /\ CleanupArmed'
    BY TimerInvStep, CleanupStep
  <1> QED
    BY <1>1, <1>2, CountAlways, PTL DEF Spec
=============================================================================
