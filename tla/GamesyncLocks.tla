--------------------------- MODULE GamesyncLocks ---------------------------
(***************************************************************************)
(* The mutexes of the gamesync server, of the registry and of its          *)
(* subscribers, taken and released one at a time by the handlers that run  *)
(* concurrently.  A handler is the sequence of the statements it has still *)
(* to execute that can block or let others go on.  Sending on a stream is  *)
(* one of them: it blocks when the client does not read.  A publication    *)
(* has one change; more changes repeat the same statements.                *)
(***************************************************************************)
EXTENDS Integers, Sequences, FiniteSets

CONSTANTS
  Caller,      \* goroutines of unary calls and timer callbacks
  Stream,      \* KeepUserSession streams, each with its handler goroutine
  Nobody,      \* who holds a mutex that is free
  Window       \* messages that fit into a stream before Send blocks

ASSUME LocksAssumption ==
  /\ Caller \cap Stream = {}
  /\ Nobody \notin Caller \cup Stream
  /\ {"publication", "registry", "mu"} \cap (Stream \cup {Nobody}) = {}
  /\ Window \in Nat \ {0}

Handler == Caller \cup Stream

VARIABLES
  plan,         \* what each handler has still to do
  todo,         \* subscribers a handler has collected and not yet reached
  holder,       \* who holds publication, registry.mu, a subscriber's mutex
  writer,       \* who has announced itself as a writer of gamesyncServer.mu
  writing,      \* whether that writer has been let in
  readers,      \* read locks of gamesyncServer.mu, by who holds them
  blocked,      \* readers that wait for the announced writer to be done
  subscribers,  \* gamesyncServer.subscribers
  unread,       \* messages the client of each stream has not read
  broken        \* streams whose context is done

locks == <<holder, writer, writing, readers, blocked>>
vars  == <<plan, todo, locks, subscribers, unread, broken>>
-----------------------------------------------------------------------------
\* The statements of a plan.
Lock(m)    == [do |-> "lock", on |-> m]
Unlock(m)  == [do |-> "unlock", on |-> m]
RLock      == [do |-> "rlock", on |-> Nobody]
RUnlock    == [do |-> "runlock", on |-> Nobody]
Send(s)    == [do |-> "send", on |-> s]
Subscribe(s)   == [do |-> "subscribe", on |-> s]
Unsubscribe(s) == [do |-> "unsubscribe", on |-> s]
Collect    == [do |-> "collect", on |-> Nobody]   \* note the subscribers
Publish    == [do |-> "publish", on |-> Nobody]   \* send to those noted

\* A subscriber's mutex goes by the name of its stream.
Mutex == {"publication", "registry"} \cup Stream

Statement ==
  [do : {"lock", "unlock"}, on : Mutex \cup {"mu"}]
  \cup [do : {"rlock", "runlock", "collect", "publish"}, on : {Nobody}]
  \cup [do : {"send", "subscribe", "unsubscribe"}, on : Stream]

Guarded(m, body) == <<Lock(m)>> \o body \o <<Unlock(m)>>
Read    == <<RLock, RUnlock>>
Write   == Guarded("mu", <<>>)
Service == Guarded("registry", <<>>)

\* gamesync_store.go:680: what a handler does under publication.
Publication(body) == Guarded("publication", body)
\* Fault: publishes before it releases mu.
AnnounceUnderMu == Guarded("mu", <<Collect, Publish>>)

Announce == Guarded("mu", <<Collect>>) \o <<Publish>>

\* Each call is one of several plans: the first ones are its early returns.
IssueToken ==
  { Service,
    Service \o Write \o Publication(Write) \o Write,
    Service \o Write \o Publication(Announce) \o Write }

WriteDocuments ==
  { Read, Read \o Publication(Write), Read \o Publication(Announce) }

ExpireSession ==
  { Publication(Write),
    Publication(Guarded("mu", <<Collect>>) \o Service \o <<Publish>>) }

\* GetDocument, ReadDocuments and ListDocuments.
ReadStore == { Read, Read \o Read }

OpenStream(s) ==
  Read \o Guarded("mu", <<Subscribe(s)>>) \o Write

Echo(s) == Read \o Guarded(s, <<Send(s)>>)

\* Fault: takes the subscriber's mutex before publication.
UpdateTargetReversed(s) ==
  Read \o Guarded(s, Publication(Read \o <<Send(s), Send(s)>>))

UpdateTarget(s) ==
  Read \o Publication(Read \o Guarded(s, <<Send(s), Send(s)>>))

CloseStream(s) ==
  Write \o Write \o Guarded("mu", <<Unsubscribe(s)>>)

\* publish and publishDeleted of one subscriber: a message if it matches.
Reach(s) == { Guarded(s, <<>>), Guarded(s, <<Send(s)>>) }
-----------------------------------------------------------------------------
Init ==
  /\ plan = [h \in Handler |-> <<>>]
  /\ todo = [h \in Handler |-> {}]
  /\ holder = [m \in Mutex |-> Nobody]
  /\ writer = Nobody
  /\ writing = FALSE
  /\ readers = [h \in Handler |-> 0]
  /\ blocked = {}
  /\ subscribers = {}
  /\ unread = [s \in Stream |-> 0]
  /\ broken = {}

Idle(h)  == plan[h] = <<>>
At(h, d) == ~Idle(h) /\ Head(plan[h]).do = d
On(h)    == Head(plan[h]).on
Done(h)  == plan' = [plan EXCEPT ![h] = Tail(plan[h])]

\* A call arrives, or a disconnect timer fires.
Start(h) ==
  /\ Idle(h) /\ h \in Caller
  /\ \E p \in IssueToken \cup WriteDocuments \cup ExpireSession \cup ReadStore \cup {Service} :
       plan' = [plan EXCEPT ![h] = p]
  /\ UNCHANGED <<todo, locks, subscribers, unread, broken>>

\* KeepUserSession is called on a new stream, which may be refused.
Open(s) ==
  /\ Idle(s) /\ s \notin subscribers
  /\ \E p \in {Read, OpenStream(s)} : plan' = [plan EXCEPT ![s] = p]
  /\ unread' = [unread EXCEPT ![s] = 0]
  /\ broken' = broken \ {s}
  /\ UNCHANGED <<todo, locks, subscribers>>

\* Recv returns a request.  DeleteTarget sends one message, as an echo does.
Request(s) ==
  /\ Idle(s) /\ s \in subscribers \ broken
  /\ \E p \in {Echo(s), UpdateTarget(s)} : plan' = [plan EXCEPT ![s] = p]
  /\ UNCHANGED <<todo, locks, subscribers, unread, broken>>

\* Recv returns io.EOF or an error, or a request is refused: the deferred calls.
Close(s) ==
  /\ Idle(s) /\ s \in subscribers
  /\ plan' = [plan EXCEPT ![s] = CloseStream(s)]
  /\ UNCHANGED <<todo, locks, subscribers, unread, broken>>

\* The client reads a message, or its connection is lost.
ClientReads(s) ==
  /\ unread[s] > 0
  /\ unread' = [unread EXCEPT ![s] = @ - 1]
  /\ UNCHANGED <<plan, todo, locks, subscribers, broken>>

Disconnect(s) ==
  /\ s \in subscribers \ broken
  /\ broken' = broken \cup {s}
  /\ unread' = [unread EXCEPT ![s] = 0]
  /\ UNCHANGED <<plan, todo, locks, subscribers>>
-----------------------------------------------------------------------------
\* sync.Mutex
AcquireMutex(h) ==
  /\ At(h, "lock") /\ On(h) # "mu" /\ holder[On(h)] = Nobody
  /\ holder' = [holder EXCEPT ![On(h)] = h]
  /\ Done(h)
  /\ UNCHANGED <<todo, writer, writing, readers, blocked, subscribers, unread, broken>>

ReleaseMutex(h) ==
  /\ At(h, "unlock") /\ On(h) # "mu"
  /\ holder' = [holder EXCEPT ![On(h)] = Nobody]
  /\ Done(h)
  /\ UNCHANGED <<todo, writer, writing, readers, blocked, subscribers, unread, broken>>

\* sync.RWMutex: one writer at a time announces itself, waits for the readers
\* that are inside and keeps new ones out.
AnnounceWriter(h) ==
  /\ At(h, "lock") /\ On(h) = "mu" /\ writer = Nobody
  /\ writer' = h
  /\ UNCHANGED <<plan, todo, holder, writing, readers, blocked, subscribers, unread, broken>>

AcquireWriter(h) ==
  /\ At(h, "lock") /\ On(h) = "mu" /\ writer = h /\ ~writing
  /\ \A r \in Handler : readers[r] = 0
  /\ writing' = TRUE
  /\ Done(h)
  /\ UNCHANGED <<todo, holder, writer, readers, blocked, subscribers, unread, broken>>

\* Unlock lets in every reader that waited, before any other writer.
ReleaseWriter(h) ==
  /\ At(h, "unlock") /\ On(h) = "mu"
  /\ writer' = Nobody
  /\ writing' = FALSE
  /\ readers' = [r \in Handler |-> IF r \in blocked THEN readers[r] + 1 ELSE readers[r]]
  /\ plan' = [r \in Handler |-> IF r \in blocked \cup {h} THEN Tail(plan[r]) ELSE plan[r]]
  /\ blocked' = {}
  /\ UNCHANGED <<todo, holder, subscribers, unread, broken>>

AcquireReader(h) ==
  /\ At(h, "rlock") /\ writer = Nobody
  /\ readers' = [readers EXCEPT ![h] = @ + 1]
  /\ Done(h)
  /\ UNCHANGED <<todo, holder, writer, writing, blocked, subscribers, unread, broken>>

BlockReader(h) ==
  /\ At(h, "rlock") /\ writer # Nobody /\ h \notin blocked
  /\ blocked' = blocked \cup {h}
  /\ UNCHANGED <<plan, todo, holder, writer, writing, readers, subscribers, unread, broken>>

ReleaseReader(h) ==
  /\ At(h, "runlock")
  /\ readers' = [readers EXCEPT ![h] = @ - 1]
  /\ Done(h)
  /\ UNCHANGED <<todo, holder, writer, writing, blocked, subscribers, unread, broken>>
-----------------------------------------------------------------------------
\* Fault: Send does not look at the context of the stream.
SendUnconditionally(h) ==
  /\ At(h, "send") /\ unread[On(h)] < Window
  /\ unread' = [unread EXCEPT ![On(h)] = @ + 1]
  /\ Done(h)
  /\ UNCHANGED <<todo, locks, subscribers, broken>>

\* Send blocks while the stream is full and fails once its context is done.
SendMessage(h) ==
  /\ At(h, "send")
  /\ \/ On(h) \in broken /\ UNCHANGED unread
     \/ /\ On(h) \notin broken /\ unread[On(h)] < Window
        /\ unread' = [unread EXCEPT ![On(h)] = @ + 1]
  /\ Done(h)
  /\ UNCHANGED <<todo, locks, subscribers, broken>>

AddSubscriber(h) ==
  /\ At(h, "subscribe")
  /\ subscribers' = subscribers \cup {On(h)}
  /\ Done(h)
  /\ UNCHANGED <<todo, locks, unread, broken>>

RemoveSubscriber(h) ==
  /\ At(h, "unsubscribe")
  /\ subscribers' = subscribers \ {On(h)}
  /\ Done(h)
  /\ UNCHANGED <<todo, locks, unread, broken>>

CollectSubscribers(h) ==
  /\ At(h, "collect")
  /\ todo' = [todo EXCEPT ![h] = subscribers]
  /\ Done(h)
  /\ UNCHANGED <<locks, subscribers, unread, broken>>

PublishToNext(h) ==
  /\ At(h, "publish")
  /\ \/ /\ todo[h] = {} /\ Done(h) /\ UNCHANGED todo
     \/ \E s \in todo[h] : \E p \in Reach(s) :
          /\ todo' = [todo EXCEPT ![h] = @ \ {s}]
          /\ plan' = [plan EXCEPT ![h] = p \o @]
  /\ UNCHANGED <<locks, subscribers, unread, broken>>

\* The next statement of a handler.
Step(h) ==
  \/ AcquireMutex(h) \/ ReleaseMutex(h)
  \/ AnnounceWriter(h) \/ AcquireWriter(h) \/ ReleaseWriter(h)
  \/ AcquireReader(h) \/ BlockReader(h) \/ ReleaseReader(h)
  \/ SendMessage(h) \/ AddSubscriber(h) \/ RemoveSubscriber(h)
  \/ CollectSubscribers(h) \/ PublishToNext(h)

Next ==
  \/ \E h \in Handler : Step(h) \/ Start(h)
  \/ \E s \in Stream : Open(s) \/ Request(s) \/ Close(s) \/ ClientReads(s) \/ Disconnect(s)

Spec == Init /\ [][Next]_vars

\* Go hands a mutex to a waiter that has starved, so a handler that can go on
\* again and again finally does.  Clients need not do anything.
FairSpec == Spec /\ \A h \in Handler : SF_vars(Step(h))
-----------------------------------------------------------------------------
TypeOK ==
  /\ plan \in [Handler -> Seq(Statement)]
  /\ todo \in [Handler -> SUBSET Stream]
  /\ holder \in [Mutex -> Handler \cup {Nobody}]
  /\ writer \in Handler \cup {Nobody}
  /\ writing \in BOOLEAN
  /\ readers \in [Handler -> Int]
  /\ blocked \subseteq Handler
  /\ subscribers \subseteq Stream
  /\ unread \in [Stream -> 0..Window]
  /\ broken \subseteq Stream

\* h cannot go on before g has.
WaitsFor(h, g) ==
  \/ At(h, "lock") /\ On(h) # "mu" /\ holder[On(h)] = g
  \/ At(h, "lock") /\ On(h) = "mu" /\ writer = g /\ (g = h => writing)
  \/ At(h, "lock") /\ On(h) = "mu" /\ writer = h /\ readers[g] > 0
  \/ h \in blocked /\ writer = g

\* gamesync_store.go:680, gamesync.go:206: up to three mutexes are nested, and a
\* reader that comes back while a writer waits would wait for itself.  Whatever
\* handlers meet, no group of them waits for one another only.
NoCircularWait ==
  \A S \in (SUBSET Handler) \ {{}} :
    \E h \in S : \A g \in S : ~WaitsFor(h, g)

\* gamesync.go:53: a client that does not read stops whoever publishes to it,
\* with the publication mutex.  Others are not to suffer: calls that only read
\* the store or the registry end whatever clients do.
Publishes(h) == \E i \in 1..Len(plan[h]) :
  plan[h][i].do \in {"send", "publish"} \/ plan[h][i] = Lock("publication")

ReadersFinish ==
  \A h \in Handler : []<>(Idle(h) \/ Publishes(h))

\* As long as every client reads or is known to be gone, all calls end.
Unobstructed(s) == s \in broken \/ unread[s] < Window

HandlersFinish ==
  (\A s \in Stream : []<>Unobstructed(s)) => \A h \in Handler : []<>Idle(h)
=============================================================================
