------------------------ MODULE GamesyncLocksProofs ------------------------
(***************************************************************************)
(* No group of handlers waits for one another only, whatever the number of *)
(* callers and streams.  The reason is the shape of the plans: between the *)
(* acquisition of any mutex but publication and its release nothing is     *)
(* acquired, and publication is acquired once.                             *)
(***************************************************************************)
EXTENDS GamesyncLocks, TLAPS

\* The statements after which a leaf is held: mu, registry or a subscriber's.
Binding(a) ==
  \/ a.do = "lock" /\ a.on # "publication"
  \/ a.do \in {"rlock", "send", "subscribe", "unsubscribe", "collect"}

\* What may come directly after such a statement.
Follows(a, b) ==
  \/ a.do = "lock" /\ a.on = "mu"
       /\ (b = Unlock("mu") \/ b.do \in {"subscribe", "unsubscribe", "collect"})
  \/ a.do = "lock" /\ a.on # "mu" /\ (b = Unlock(a.on) \/ b = Send(a.on))
  \/ a.do = "send" /\ (b = Unlock(a.on) \/ b = Send(a.on))
  \/ a.do = "rlock" /\ b = RUnlock
  \/ a.do \in {"subscribe", "unsubscribe", "collect"} /\ b = Unlock("mu")

WellFormed(p) ==
  \A i \in 1..Len(p) : Binding(p[i]) => i < Len(p) /\ Follows(p[i], p[i + 1])

\* A plan never acquires publication, or once.
Free(p) == \A i \in 1..Len(p) : p[i] # Lock("publication")
Once(p) == \A i, j \in 1..Len(p) :
             p[i] = Lock("publication") /\ p[j] = Lock("publication") => i = j

Paired(p) == \A i \in 1..Len(p) : p[i] = Lock("publication") =>
               \E j \in 1..Len(p) : i < j /\ p[j] = Unlock("publication")

Plan(p) == p \in Seq(Statement) /\ WellFormed(p) /\ Once(p) /\ Paired(p)
Leaf(p) == p \in Seq(Statement) /\ WellFormed(p) /\ Free(p)
-----------------------------------------------------------------------------
LEMMA LeafIsPlan == ASSUME NEW p, Leaf(p) PROVE Plan(p)
  BY DEF Leaf, Plan, Free, Once, Paired

LEMMA Joined ==
  ASSUME NEW p \in Seq(Statement), NEW q \in Seq(Statement),
         WellFormed(p), WellFormed(q)
  PROVE  p \o q \in Seq(Statement) /\ WellFormed(p \o q)
<1> DEFINE r == p \o q
<1>1. /\ r \in Seq(Statement)
      /\ Len(r) = Len(p) + Len(q)
      /\ \A i \in 1..Len(r) : r[i] = IF i <= Len(p) THEN p[i] ELSE q[i - Len(p)]
  OBVIOUS
<1>2. SUFFICES ASSUME NEW i \in 1..Len(r), Binding(r[i])
               PROVE  i < Len(r) /\ Follows(r[i], r[i + 1])
  BY <1>1 DEF WellFormed
<1>3. CASE i <= Len(p)
  <2>1. i \in 1..Len(p) /\ r[i] = p[i]
    BY <1>1, <1>3
  <2>2. i < Len(p) /\ Follows(p[i], p[i + 1])
    BY <1>2, <2>1 DEF WellFormed
  <2>3. i + 1 \in 1..Len(r) /\ i + 1 <= Len(p) /\ r[i + 1] = p[i + 1]
    BY <1>1, <2>1, <2>2
  <2> QED BY <1>1, <2>1, <2>2, <2>3
<1>4. CASE i > Len(p)
  <2> DEFINE k == i - Len(p)
  <2>1. k \in 1..Len(q) /\ r[i] = q[k]
    BY <1>1, <1>4
  <2>2. k < Len(q) /\ Follows(q[k], q[k + 1])
    BY <1>2, <2>1 DEF WellFormed
  <2>3. i + 1 \in 1..Len(r) /\ i + 1 - Len(p) = k + 1 /\ r[i + 1] = q[k + 1]
    BY <1>1, <1>4, <2>1, <2>2
  <2> QED BY <1>1, <2>1, <2>2, <2>3
<1> QED BY <1>3, <1>4

LEMMA JoinedLeaves ==
  ASSUME NEW p, NEW q, Leaf(p), Leaf(q) PROVE Leaf(p \o q)
<1>1. /\ p \in Seq(Statement) /\ q \in Seq(Statement)
      /\ p \o q \in Seq(Statement) /\ WellFormed(p \o q)
  BY Joined DEF Leaf
<1>2. ASSUME NEW i \in 1..Len(p \o q) PROVE (p \o q)[i] # Lock("publication")
  <2>1. (p \o q)[i] = IF i <= Len(p) THEN p[i] ELSE q[i - Len(p)]
    BY <1>1
  <2> QED BY <1>1, <2>1 DEF Leaf, Free
<1> QED BY <1>1, <1>2 DEF Leaf, Free

LEMMA JoinedOnce ==
  ASSUME NEW p \in Seq(Statement), NEW q \in Seq(Statement),
         \/ Free(p) /\ Once(q)
         \/ Once(p) /\ Free(q)
  PROVE  Once(p \o q)
<1> SUFFICES ASSUME NEW i \in 1..Len(p \o q), NEW j \in 1..Len(p \o q),
                    (p \o q)[i] = Lock("publication"), (p \o q)[j] = Lock("publication")
             PROVE  i = j
  BY DEF Once
<1>1. /\ (p \o q)[i] = IF i <= Len(p) THEN p[i] ELSE q[i - Len(p)]
      /\ (p \o q)[j] = IF j <= Len(p) THEN p[j] ELSE q[j - Len(p)]
      /\ Len(p \o q) = Len(p) + Len(q) /\ Len(p) \in Nat /\ Len(q) \in Nat
  OBVIOUS
<1>2. CASE Free(p) /\ Once(q)
  <2>1. i > Len(p) /\ j > Len(p)
    BY <1>1, <1>2 DEF Free
  <2>2. i - Len(p) \in 1..Len(q) /\ j - Len(p) \in 1..Len(q)
    BY <1>1, <2>1
  <2>3. i - Len(p) = j - Len(p)
    BY <1>1, <1>2, <2>1, <2>2 DEF Once
  <2> QED BY <1>1, <2>1, <2>3
<1>3. CASE Once(p) /\ Free(q)
  <2>1. i <= Len(p) /\ j <= Len(p)
    BY <1>1, <1>3 DEF Free
  <2> QED BY <1>1, <1>3, <2>1 DEF Once
<1> QED BY <1>2, <1>3

LEMMA JoinedPaired ==
  ASSUME NEW p \in Seq(Statement), NEW q \in Seq(Statement), Paired(p), Paired(q)
  PROVE  Paired(p \o q)
<1> SUFFICES ASSUME NEW i \in 1..Len(p \o q), (p \o q)[i] = Lock("publication")
             PROVE  \E j \in 1..Len(p \o q) : i < j /\ (p \o q)[j] = Unlock("publication")
  BY DEF Paired
<1>1. /\ Len(p \o q) = Len(p) + Len(q) /\ Len(p) \in Nat /\ Len(q) \in Nat
      /\ \A k \in 1..Len(p \o q) :
           (p \o q)[k] = IF k <= Len(p) THEN p[k] ELSE q[k - Len(p)]
  OBVIOUS
<1>2. CASE i <= Len(p)
  <2>1. PICK j \in 1..Len(p) : i < j /\ p[j] = Unlock("publication")
    BY <1>1, <1>2 DEF Paired
  <2> QED BY <1>1, <2>1
<1>3. CASE i > Len(p)
  <2>1. i - Len(p) \in 1..Len(q) /\ q[i - Len(p)] = Lock("publication")
    BY <1>1, <1>3
  <2>2. PICK j \in 1..Len(q) : i - Len(p) < j /\ q[j] = Unlock("publication")
    BY <2>1 DEF Paired
  <2>3. /\ Len(p) + j \in 1..Len(p \o q) /\ i < Len(p) + j
        /\ (p \o q)[Len(p) + j] = Unlock("publication")
    BY <1>1, <1>3, <2>2
  <2> QED BY <2>3
<1>4. i <= Len(p) \/ i > Len(p)
  BY <1>1
<1> QED BY <1>2, <1>3, <1>4

LEMMA JoinedPlans ==
  ASSUME NEW p, NEW q, \/ Leaf(p) /\ Plan(q)
                       \/ Plan(p) /\ Leaf(q)
  PROVE  Plan(p \o q)
<1>1. /\ Plan(p) /\ Plan(q)
      /\ \/ Free(p) /\ Once(q)
         \/ Once(p) /\ Free(q)
  BY LeafIsPlan DEF Leaf, Plan
<1>2. p \o q \in Seq(Statement) /\ WellFormed(p \o q)
  BY <1>1, Joined DEF Plan
<1>3. Once(p \o q)
  BY <1>1, JoinedOnce DEF Plan
<1>4. Paired(p \o q)
  BY <1>1, JoinedPaired DEF Plan
<1> QED BY <1>2, <1>3, <1>4 DEF Plan
-----------------------------------------------------------------------------
\* The plans of the handlers, put together from their parts.
LEMMA Statements ==
  /\ \A m \in Mutex \cup {"mu"} : Lock(m) \in Statement /\ Unlock(m) \in Statement
  /\ RLock \in Statement /\ RUnlock \in Statement
  /\ Collect \in Statement /\ Publish \in Statement
  /\ \A s \in Stream : /\ Send(s) \in Statement
                       /\ Subscribe(s) \in Statement /\ Unsubscribe(s) \in Statement
BY DEF Lock, Unlock, RLock, RUnlock, Collect, Publish, Send, Subscribe, Unsubscribe,
       Statement, Mutex

\* A leaf is held for what belongs to it only, and released at once after that.
LEMMA GuardedLeaf ==
  ASSUME NEW m \in (Mutex \cup {"mu"}) \ {"publication"}, NEW body \in Seq(Statement),
         body # <<>> => Follows(Lock(m), body[1]),
         \A i \in 1..Len(body) :
            /\ ~(body[i] = Lock("publication"))
            /\ Binding(body[i])
                 => Follows(body[i], IF i = Len(body) THEN Unlock(m) ELSE body[i + 1])
  PROVE  Leaf(Guarded(m, body))
<1> DEFINE r == <<Lock(m)>> \o body \o <<Unlock(m)>>
           n == Len(body)
<1>1. n \in Nat /\ Lock(m) \in Statement /\ Unlock(m) \in Statement
  BY Statements
<1>2. /\ r \in Seq(Statement) /\ Len(r) = n + 2
      /\ r[1] = Lock(m) /\ r[n + 2] = Unlock(m)
      /\ \A i \in 2..(n + 1) : r[i] = body[i - 1]
  <2>1. <<Lock(m)>> \o body \in Seq(Statement) /\ <<Unlock(m)>> \in Seq(Statement)
    BY <1>1
  <2>2. /\ Len(<<Lock(m)>> \o body) = n + 1
        /\ (<<Lock(m)>> \o body)[1] = Lock(m)
        /\ \A i \in 2..(n + 1) : (<<Lock(m)>> \o body)[i] = body[i - 1]
    BY <1>1
  <2> QED BY <1>1, <2>1, <2>2
<1>3. Follows(Lock(m), Unlock(m)) /\ Lock(m) # Lock("publication") /\ ~Binding(Unlock(m))
      /\ Unlock(m) # Lock("publication")
  BY DEF Follows, Lock, Unlock, Binding
<1>4. ASSUME NEW i \in 1..Len(r)
      PROVE  /\ r[i] # Lock("publication")
             /\ Binding(r[i]) => i < Len(r) /\ Follows(r[i], r[i + 1])
  <2>1. CASE i = 1
    <3>1. CASE n = 0
      BY <1>1, <1>2, <1>3, <2>1, <3>1
    <3>2. CASE n > 0
      <4>1. body # <<>> /\ r[2] = body[1]
        BY <1>1, <1>2, <3>2
      <4> QED BY <1>1, <1>2, <1>3, <2>1, <3>2, <4>1
    <3> QED BY <1>1, <3>1, <3>2
  <2>2. CASE i \in 2..(n + 1)
    <3>1. i - 1 \in 1..n /\ r[i] = body[i - 1]
      BY <1>1, <1>2, <2>2
    <3>2. CASE i = n + 1
      BY <1>1, <1>2, <3>1, <3>2
    <3>3. CASE i < n + 1
      <4>1. i + 1 \in 2..(n + 1) /\ r[i + 1] = body[(i + 1) - 1] /\ (i + 1) - 1 = (i - 1) + 1
        BY <1>1, <1>2, <2>2, <3>3
      <4> QED BY <1>1, <1>2, <3>1, <3>3, <4>1
    <3> QED BY <1>1, <2>2, <3>2, <3>3
  <2>3. CASE i = n + 2
    BY <1>1, <1>2, <1>3, <2>3
  <2> QED BY <1>1, <1>2, <2>1, <2>2, <2>3
<1> QED BY <1>2, <1>4 DEF Guarded, Leaf, WellFormed, Free

LEMMA GuardedNothing ==
  ASSUME NEW m \in (Mutex \cup {"mu"}) \ {"publication"}
  PROVE  Leaf(Guarded(m, <<>>))
<1> DEFINE b == <<>>
<1>1. b \in Seq(Statement) /\ Len(b) = 0 /\ b = <<>>
  OBVIOUS
<1>2. 1..Len(b) = {}
  BY <1>1
<1> HIDE DEF b
<1>3. Leaf(Guarded(m, b))
  BY <1>1, <1>2, GuardedLeaf
<1> QED BY <1>3 DEF b

LEMMA GuardedOne ==
  ASSUME NEW m \in (Mutex \cup {"mu"}) \ {"publication"}, NEW a \in Statement,
         Follows(Lock(m), a), Follows(a, Unlock(m)), a # Lock("publication")
  PROVE  Leaf(Guarded(m, <<a>>))
<1> DEFINE b == <<a>>
<1>1. b \in Seq(Statement) /\ Len(b) = 1 /\ b[1] = a
  OBVIOUS
<1> HIDE DEF b
<1>2. Leaf(Guarded(m, b))
  BY <1>1, GuardedLeaf
<1> QED BY <1>2 DEF b

LEMMA Sections ==
  /\ Leaf(Read) /\ Leaf(Write) /\ Leaf(Service) /\ Leaf(<<Publish>>)
  /\ Leaf(Guarded("mu", <<Collect>>))
<1>0. "registry" \in Mutex
  BY DEF Mutex
<1>1. Leaf(Read)
  BY Statements DEF Read, RLock, RUnlock, Lock, Leaf, WellFormed, Free, Binding, Follows
<1>2. Leaf(Write) /\ Leaf(Service)
  BY <1>0, GuardedNothing DEF Write, Service
<1>3. Leaf(<<Publish>>)
  BY Statements DEF Publish, Lock, Leaf, WellFormed, Free, Binding
<1>4. Leaf(Guarded("mu", <<Collect>>))
  <2>1. /\ Follows(Lock("mu"), Collect) /\ Follows(Collect, Unlock("mu"))
        /\ Collect # Lock("publication")
    BY DEF Follows, Collect, Lock
  <2> QED BY <2>1, Statements, GuardedOne
<1> QED BY <1>1, <1>2, <1>3, <1>4

LEMMA StreamSections ==
  ASSUME NEW s \in Stream
  PROVE  /\ Leaf(Guarded("mu", <<Subscribe(s)>>))
         /\ Leaf(Guarded("mu", <<Unsubscribe(s)>>))
         /\ Leaf(Guarded(s, <<>>))
         /\ Leaf(Guarded(s, <<Send(s)>>))
         /\ Leaf(Guarded(s, <<Send(s), Send(s)>>))
<1>0. s \in Mutex /\ s # "mu" /\ s # "publication"
  BY LocksAssumption DEF Mutex
<1>1. /\ Follows(Lock("mu"), Subscribe(s)) /\ Follows(Subscribe(s), Unlock("mu"))
      /\ Follows(Lock("mu"), Unsubscribe(s)) /\ Follows(Unsubscribe(s), Unlock("mu"))
      /\ Subscribe(s) # Lock("publication") /\ Unsubscribe(s) # Lock("publication")
  BY DEF Follows, Subscribe, Unsubscribe, Lock
<1>2. /\ Follows(Lock(s), Send(s)) /\ Follows(Send(s), Unlock(s)) /\ Follows(Send(s), Send(s))
      /\ Send(s) # Lock("publication")
  BY <1>0 DEF Follows, Send, Lock
<1>3. Leaf(Guarded("mu", <<Subscribe(s)>>))
  BY <1>1, Statements, GuardedOne
<1>4. Leaf(Guarded("mu", <<Unsubscribe(s)>>))
  BY <1>1, Statements, GuardedOne
<1>5. Leaf(Guarded(s, <<>>))
  BY <1>0, GuardedNothing
<1>6. Leaf(Guarded(s, <<Send(s)>>))
  BY <1>0, <1>2, Statements, GuardedOne
<1>7. Leaf(Guarded(s, <<Send(s), Send(s)>>))
  <2> DEFINE b == <<Send(s), Send(s)>>
  <2>1. b \in Seq(Statement) /\ Len(b) = 2 /\ b[1] = Send(s) /\ b[2] = Send(s)
    BY Statements
  <2>2. \A i \in 1..Len(b) : b[i] = Send(s) /\ (i # Len(b) => b[i + 1] = Send(s))
    BY <2>1
  <2>3. b # <<>>
    BY <2>1
  <2> HIDE DEF b
  <2>4. Leaf(Guarded(s, b))
    BY <1>0, <1>2, <2>1, <2>2, <2>3, GuardedLeaf
  <2> QED BY <2>4 DEF b
<1> QED BY <1>3, <1>4, <1>5, <1>6, <1>7

\* publication is acquired around what does not acquire it.
LEMMA Published == ASSUME NEW p, Leaf(p) PROVE Plan(Publication(p))
<1> DEFINE r == <<Lock("publication")>> \o p \o <<Unlock("publication")>>
           l == <<Lock("publication")>>
           u == <<Unlock("publication")>>
<1>1. /\ Lock("publication") \in Statement /\ Unlock("publication") \in Statement
      /\ Lock("publication") # Unlock("publication") /\ p \in Seq(Statement)
  BY Statements DEF Mutex, Leaf, Lock, Unlock
<1>2. l \in Seq(Statement) /\ WellFormed(l) /\ Once(l)
  BY <1>1 DEF WellFormed, Once, Binding, Lock
<1>3. u \in Seq(Statement) /\ WellFormed(u) /\ Free(u)
  BY <1>1 DEF WellFormed, Free, Binding, Lock, Unlock
<1> HIDE DEF l, u
<1>4. l \o p \in Seq(Statement) /\ WellFormed(l \o p) /\ Once(l \o p)
  BY <1>1, <1>2, Joined, JoinedOnce DEF Leaf
<1>5. r \in Seq(Statement) /\ WellFormed(r) /\ Once(r)
  BY <1>3, <1>4, Joined, JoinedOnce DEF l, u
<1>6. Paired(r)
  <2>1. /\ Len(l \o p) \in Nat \ {0} /\ (l \o p)[1] = Lock("publication")
    BY <1>1 DEF l
  <2>2. /\ Len(r) = Len(l \o p) + 1 /\ r[1] = Lock("publication")
        /\ r[Len(r)] = Unlock("publication")
    BY <1>1, <1>4, <2>1 DEF l, u
  <2> SUFFICES ASSUME NEW i \in 1..Len(r), r[i] = Lock("publication")
               PROVE  i < Len(r) /\ Len(r) \in 1..Len(r)
    BY <2>2 DEF Paired
  <2> QED BY <1>5, <2>1, <2>2 DEF Once
<1> QED BY <1>5, <1>6 DEF Publication, Guarded, Plan

LEMMA Plans ==
  /\ \A p \in IssueToken \cup WriteDocuments \cup ExpireSession \cup ReadStore \cup {Service} :
       Plan(p)
  /\ \A s \in Stream : \A p \in {Read, OpenStream(s), Echo(s), UpdateTarget(s), CloseStream(s)} :
       Plan(p)
  /\ \A s \in Stream : \A p \in Reach(s) : Leaf(p)
<1> USE LeafIsPlan
<1>1. Plan(Service) /\ Plan(Read) /\ Leaf(Announce)
  BY Sections, JoinedLeaves DEF Announce
<1>2. \A p \in IssueToken : Plan(p)
  <2>1. Leaf(Service \o Write)
    BY Sections, JoinedLeaves
  <2>2. Plan(Publication(Write)) /\ Plan(Publication(Announce))
    BY <1>1, Sections, Published
  <2>3. /\ Plan(Service \o Write \o Publication(Write))
        /\ Plan(Service \o Write \o Publication(Announce))
    BY <2>1, <2>2, JoinedPlans
  <2>4. /\ Plan(Service \o Write \o Publication(Write) \o Write)
        /\ Plan(Service \o Write \o Publication(Announce) \o Write)
    BY <2>3, Sections, JoinedPlans
  <2> QED BY <1>1, <2>4 DEF IssueToken
<1>3. \A p \in WriteDocuments : Plan(p)
  <2>1. Plan(Publication(Write)) /\ Plan(Publication(Announce))
    BY <1>1, Sections, Published
  <2>2. Plan(Read \o Publication(Write)) /\ Plan(Read \o Publication(Announce))
    BY <2>1, Sections, JoinedPlans
  <2> QED BY <1>1, <2>2 DEF WriteDocuments
<1>4. \A p \in ExpireSession : Plan(p)
  <2>1. Leaf(Guarded("mu", <<Collect>>) \o Service)
    BY Sections, JoinedLeaves
  <2>2. Leaf(Guarded("mu", <<Collect>>) \o Service \o <<Publish>>)
    BY <2>1, Sections, JoinedLeaves
  <2> QED BY <2>2, Sections, Published DEF ExpireSession
<1>5. \A p \in ReadStore : Plan(p)
  BY Sections, JoinedLeaves DEF ReadStore
<1>6. ASSUME NEW s \in Stream
      PROVE  /\ Plan(OpenStream(s)) /\ Plan(Echo(s))
             /\ Plan(UpdateTarget(s)) /\ Plan(CloseStream(s))
             /\ \A p \in Reach(s) : Leaf(p)
  <2>1. Plan(OpenStream(s))
    <3>1. Leaf(Read \o Guarded("mu", <<Subscribe(s)>>))
      BY Sections, StreamSections, JoinedLeaves
    <3> QED BY <3>1, Sections, JoinedLeaves DEF OpenStream
  <2>2. Plan(Echo(s))
    BY Sections, StreamSections, JoinedLeaves DEF Echo
  <2>3. Plan(UpdateTarget(s))
    <3>1. Leaf(Read \o Guarded(s, <<Send(s), Send(s)>>))
      BY Sections, StreamSections, JoinedLeaves
    <3> QED BY <3>1, Sections, Published, JoinedPlans DEF UpdateTarget
  <2>4. Plan(CloseStream(s))
    <3>1. Leaf(Write \o Write)
      BY Sections, JoinedLeaves
    <3> QED BY <3>1, StreamSections, JoinedLeaves DEF CloseStream
  <2> QED BY <2>1, <2>2, <2>3, <2>4, StreamSections DEF Reach
<1> QED BY <1>1, <1>2, <1>3, <1>4, <1>5, <1>6
-----------------------------------------------------------------------------
\* A plan that releases publication.
Closes(p) == \E j \in 1..Len(p) : p[j] = Unlock("publication")

LEMMA TailOfPlan ==
  ASSUME NEW p, Plan(p), p # <<>>
  PROVE  /\ Plan(Tail(p)) /\ Head(p) \in Statement
         /\ Binding(Head(p)) => Tail(p) # <<>> /\ Follows(Head(p), Head(Tail(p)))
         /\ Free(p) => Free(Tail(p)) /\ Head(p) # Lock("publication")
         /\ Head(p) = Lock("publication") => Free(Tail(p)) /\ Closes(Tail(p))
         /\ Closes(p) => Closes(Tail(p)) \/ Head(p) = Unlock("publication")
<1> DEFINE t == Tail(p)
<1>1. /\ p \in Seq(Statement) /\ t \in Seq(Statement) /\ Len(p) \in Nat \ {0}
      /\ Len(t) = Len(p) - 1 /\ Head(p) = p[1]
      /\ \A i \in 1..Len(t) : t[i] = p[i + 1] /\ i + 1 \in 1..Len(p)
  BY DEF Plan
<1>2. WellFormed(t)
  <2> SUFFICES ASSUME NEW i \in 1..Len(t), Binding(t[i])
               PROVE  i < Len(t) /\ Follows(t[i], t[i + 1])
    BY DEF WellFormed
  <2>1. i + 1 < Len(p) /\ Follows(p[i + 1], p[(i + 1) + 1])
    BY <1>1 DEF Plan, WellFormed
  <2> QED BY <1>1, <2>1
<1>3. Once(t)
  <2> SUFFICES ASSUME NEW i \in 1..Len(t), NEW j \in 1..Len(t),
                      t[i] = Lock("publication"), t[j] = Lock("publication")
               PROVE  i = j
    BY DEF Once
  <2>1. i + 1 = j + 1
    BY <1>1 DEF Plan, Once
  <2> QED BY <1>1, <2>1
<1>4. Binding(Head(p)) => t # <<>> /\ Follows(Head(p), Head(t))
  <2> SUFFICES ASSUME Binding(p[1]) PROVE t # <<>> /\ Follows(p[1], Head(t))
    BY <1>1
  <2>1. 1 < Len(p) /\ Follows(p[1], p[1 + 1])
    BY <1>1 DEF Plan, WellFormed
  <2>2. Len(t) >= 1 /\ 1 \in 1..Len(t) /\ t[1] = p[1 + 1]
    BY <1>1, <2>1
  <2>3. t # <<>> /\ Head(t) = t[1]
    BY <1>1, <2>2
  <2> QED BY <2>1, <2>2, <2>3
<1>5. Free(p) => Free(t) /\ Head(p) # Lock("publication")
  BY <1>1 DEF Free
<1>6. Head(p) = Lock("publication") => Free(t)
  <2> SUFFICES ASSUME p[1] = Lock("publication"), NEW i \in 1..Len(t),
                      t[i] = Lock("publication")
               PROVE  FALSE
    BY <1>1 DEF Free
  <2> QED BY <1>1 DEF Plan, Once
<1>7. Head(p) \in Statement
  BY <1>1
<1>8. Paired(t)
  <2> SUFFICES ASSUME NEW i \in 1..Len(t), t[i] = Lock("publication")
               PROVE  \E j \in 1..Len(t) : i < j /\ t[j] = Unlock("publication")
    BY DEF Paired
  <2>1. PICK j \in 1..Len(p) : i + 1 < j /\ p[j] = Unlock("publication")
    BY <1>1 DEF Plan, Paired
  <2>2. j - 1 \in 1..Len(t) /\ i < j - 1 /\ t[j - 1] = Unlock("publication")
    BY <1>1, <2>1
  <2> QED BY <2>2
<1>9. Closes(p) => Closes(t) \/ Head(p) = Unlock("publication")
  <2> SUFFICES ASSUME NEW j \in 1..Len(p), p[j] = Unlock("publication"), j # 1
               PROVE  Closes(t)
    BY <1>1 DEF Closes
  <2>1. j - 1 \in 1..Len(t) /\ t[j - 1] = Unlock("publication")
    BY <1>1
  <2> QED BY <2>1 DEF Closes
<1>10. Head(p) = Lock("publication") => Closes(t)
  <2> SUFFICES ASSUME p[1] = Lock("publication") PROVE Closes(t)
    BY <1>1
  <2>1. PICK j \in 1..Len(p) : 1 < j /\ p[j] = Unlock("publication")
    BY <1>1 DEF Plan, Paired
  <2>2. j - 1 \in 1..Len(t) /\ t[j - 1] = Unlock("publication")
    BY <1>1, <2>1
  <2> QED BY <2>2 DEF Closes
<1> QED BY <1>1, <1>2, <1>3, <1>4, <1>5, <1>6, <1>7, <1>8, <1>9, <1>10 DEF Plan

\* What a handler holds shows in the next statement of its plan.
Local(h) ==
  /\ Plan(plan[h])
  /\ \A m \in Mutex \ {"publication"} : holder[m] = h =>
       plan[h] # <<>> /\ Head(plan[h]) \in {Unlock(m), Send(m)}
  /\ writer = h /\ ~writing => plan[h] # <<>> /\ Head(plan[h]) = Lock("mu")
  /\ writer = h /\ writing => /\ plan[h] # <<>>
                              /\ \/ Head(plan[h]) = Unlock("mu")
                                 \/ Head(plan[h]).do \in {"subscribe", "unsubscribe", "collect"}
  /\ readers[h] > 0 => readers[h] = 1 /\ plan[h] # <<>> /\ Head(plan[h]) = RUnlock
  /\ h \in blocked => plan[h] # <<>> /\ Head(plan[h]) = RLock /\ writer # Nobody
  /\ holder["publication"] = h => Free(plan[h]) /\ Closes(plan[h])

LocksInv == TypeOK /\ (writing => writer # Nobody) /\ \A h \in Handler : Local(h)
-----------------------------------------------------------------------------
LEMMA InitLocks == Init => LocksInv
<1> SUFFICES ASSUME Init PROVE LocksInv
  OBVIOUS
<1>1. TypeOK
  <2>1. <<>> \in Seq(Statement) /\ 0 \in Nat /\ 0 \in 0..Window
    BY LocksAssumption
  <2>2. plan \in [Handler -> Seq(Statement)] /\ unread \in [Stream -> 0..Window]
    BY <2>1 DEF Init
  <2>3. /\ todo \in [Handler -> SUBSET Stream] /\ readers \in [Handler -> Int]
        /\ holder \in [Mutex -> Handler \cup {Nobody}]
    BY <2>1 DEF Init
  <2>4. /\ writer \in Handler \cup {Nobody} /\ writing \in BOOLEAN
        /\ blocked \subseteq Handler /\ subscribers \subseteq Stream /\ broken \subseteq Stream
    BY DEF Init
  <2> QED BY <2>2, <2>3, <2>4 DEF TypeOK
<1>2. ASSUME NEW h \in Handler PROVE Local(h)
  <2>1. plan[h] = <<>> /\ h # Nobody
    BY LocksAssumption DEF Init, Handler
  <2>2. Plan(plan[h])
    BY <2>1 DEF Plan, WellFormed, Once, Paired
  <2>3. /\ \A m \in Mutex : holder[m] # h
        /\ writer # h /\ readers[h] = 0 /\ h \notin blocked
    BY <2>1 DEF Init
  <2> QED BY <2>2, <2>3 DEF Local, Mutex
<1> QED BY <1>1, <1>2 DEF LocksInv, Init

\* The head of a plan that is at a statement.
LEMMA HeadOfPlan ==
  ASSUME NEW h \in Handler, Local(h), ~Idle(h)
  PROVE  /\ plan[h] # <<>> /\ Head(plan[h]) \in Statement
         /\ At(h, "lock") => On(h) \in Mutex \cup {"mu"} /\ Head(plan[h]) = Lock(On(h))
         /\ At(h, "unlock") => On(h) \in Mutex \cup {"mu"} /\ Head(plan[h]) = Unlock(On(h))
         /\ At(h, "rlock") => Head(plan[h]) = RLock
         /\ At(h, "runlock") => Head(plan[h]) = RUnlock
         /\ At(h, "send") => On(h) \in Stream /\ Head(plan[h]) = Send(On(h))
         /\ At(h, "subscribe") => On(h) \in Stream
         /\ At(h, "unsubscribe") => On(h) \in Stream
<1>1. plan[h] # <<>> /\ Head(plan[h]) \in Statement
  BY TailOfPlan DEF Local, Idle
<1> QED BY <1>1 DEF Statement, At, On, Lock, Unlock, RLock, RUnlock, Send

\* A handler that goes on to its next statement.
LEMMA Advance ==
  ASSUME TypeOK, NEW h \in Handler, Local(h), ~Idle(h), Done(h)
  PROVE  /\ plan' \in [Handler -> Seq(Statement)]
         /\ plan'[h] = Tail(plan[h]) /\ Plan(plan'[h])
         /\ \A x \in Handler \ {h} : plan'[x] = plan[x]
         /\ Binding(Head(plan[h])) => plan'[h] # <<>> /\ Follows(Head(plan[h]), Head(plan'[h]))
         /\ Free(plan[h]) => Free(plan'[h])
         /\ Head(plan[h]) = Lock("publication") => Free(plan'[h]) /\ Closes(plan'[h])
         /\ Closes(plan[h]) => Closes(plan'[h]) \/ Head(plan[h]) = Unlock("publication")
<1>1. plan'[h] = Tail(plan[h]) /\ \A x \in Handler \ {h} : plan'[x] = plan[x]
  BY DEF Done, TypeOK
<1>2. /\ plan[h] # <<>> /\ Plan(plan[h])
  BY DEF Local, Idle
<1>3. Plan(Tail(plan[h])) /\ Tail(plan[h]) \in Seq(Statement)
  BY <1>2, TailOfPlan DEF Plan
<1>4. plan' \in [Handler -> Seq(Statement)]
  BY <1>3 DEF Done, TypeOK
<1> QED BY <1>1, <1>2, <1>3, <1>4, TailOfPlan

\* Whose plan and locks a step leaves alone.
Untouched(x) ==
  /\ plan'[x] = plan[x] /\ readers'[x] = readers[x]
  /\ (x \in blocked') <=> (x \in blocked)
  /\ \A m \in Mutex : holder'[m] = x => holder[m] = x
  /\ writer' = x => writer = x /\ writing' = writing
  /\ x \in blocked => writer' # Nobody

LEMMA UntouchedLocal ==
  ASSUME NEW x \in Handler, Local(x), Untouched(x) PROVE Local(x)'
<1>1. "publication" \in Mutex
  BY DEF Mutex
<1> QED BY <1>1 DEF Local, Untouched

\* Steps that begin a plan.
LEMMA BeginLocks ==
  ASSUME LocksInv, NEW h \in Handler, Idle(h), NEW p, Plan(p),
         plan' = [plan EXCEPT ![h] = p], UNCHANGED locks
  PROVE  /\ plan' \in [Handler -> Seq(Statement)]
         /\ \A x \in Handler : Local(x)'
<1>1. /\ plan \in [Handler -> Seq(Statement)] /\ p \in Seq(Statement)
      /\ \A x \in Handler : Local(x)
  BY DEF LocksInv, TypeOK, Plan
<1>2. plan'[h] = p /\ \A x \in Handler \ {h} : plan'[x] = plan[x]
  BY <1>1
<1>3. ASSUME NEW x \in Handler \ {h} PROVE Local(x)'
  BY <1>1, <1>2, UntouchedLocal DEF Untouched, locks, Local
<1>4. Local(h)'
  <2>1. /\ \A m \in Mutex \ {"publication"} : holder[m] # h
        /\ ~(readers[h] > 0) /\ h \notin blocked
    BY <1>1 DEF Local, Idle
  <2>2. writer # h
    BY <1>1 DEF LocksInv, TypeOK, Local, Idle
  <2>3. holder["publication"] # h
    BY <1>1 DEF Local, Idle, Closes
  <2> QED BY <1>2, <2>1, <2>2, <2>3 DEF Local, locks
<1> QED BY <1>1, <1>3, <1>4

LEMMA FirstLocks ==
  ASSUME LocksInv, NEW h \in Handler, Start(h) \/ \E s \in Stream : h = s /\ (Open(s) \/ Request(s) \/ Close(s))
  PROVE  LocksInv'
<1>1. PICK p : Plan(p) /\ Idle(h) /\ plan' = [plan EXCEPT ![h] = p]
  BY Plans DEF Start, Open, Request, Close
<1>2. /\ UNCHANGED <<todo, locks, subscribers>>
      /\ unread' \in [Stream -> 0..Window] /\ broken' \subseteq Stream
  <2>1. unread \in [Stream -> 0..Window] /\ broken \subseteq Stream /\ 0 \in 0..Window
    BY LocksAssumption DEF LocksInv, TypeOK
  <2> QED BY <2>1 DEF Start, Open, Request, Close
<1>3. /\ plan' \in [Handler -> Seq(Statement)] /\ \A x \in Handler : Local(x)'
  BY <1>1, <1>2, BeginLocks
<1>4. TypeOK'
  BY <1>2, <1>3 DEF LocksInv, TypeOK, locks
<1> QED BY <1>2, <1>3, <1>4 DEF LocksInv, locks

\* Steps that leave the locks alone.
LEMMA OtherSteps ==
  ASSUME LocksInv, NEW h \in Handler,
         \/ SendMessage(h) \/ AddSubscriber(h) \/ RemoveSubscriber(h)
         \/ CollectSubscribers(h) \/ (PublishToNext(h) /\ todo[h] = {})
  PROVE  LocksInv'
<1> USE DEF LocksInv
<1>1. /\ ~Idle(h) /\ Done(h) /\ Local(h) /\ TypeOK /\ UNCHANGED locks
      /\ plan[h] # <<>>
  BY DEF SendMessage, AddSubscriber, RemoveSubscriber, CollectSubscribers, PublishToNext, At, Idle
<1>2. /\ Head(plan[h]).do \in {"send", "subscribe", "unsubscribe", "collect", "publish"}
      /\ On(h) \in Stream \/ Head(plan[h]).do \in {"collect", "publish"}
  BY <1>1, HeadOfPlan DEF SendMessage, AddSubscriber, RemoveSubscriber, CollectSubscribers,
                          PublishToNext, At
<1>3. TypeOK'
  <2>1. plan' \in [Handler -> Seq(Statement)]
    BY <1>1, Advance
  <2>2. /\ subscribers' \subseteq Stream /\ todo' \in [Handler -> SUBSET Stream]
        /\ broken' = broken
    BY <1>2 DEF SendMessage, AddSubscriber, RemoveSubscriber, CollectSubscribers, PublishToNext, At, TypeOK
  <2>3. unread' \in [Stream -> 0..Window]
    <3>1. unread \in [Stream -> 0..Window] /\ Window \in Nat
      BY LocksAssumption DEF TypeOK
    <3>2. CASE unread' = unread
      BY <3>1, <3>2
    <3>3. CASE unread[On(h)] < Window /\ On(h) \in Stream
               /\ unread' = [unread EXCEPT ![On(h)] = unread[On(h)] + 1]
      BY <3>1, <3>3
    <3> QED BY <1>2, <3>2, <3>3 DEF SendMessage, AddSubscriber, RemoveSubscriber,
                                    CollectSubscribers, PublishToNext, At
  <2> QED BY <1>1, <2>1, <2>2, <2>3 DEF TypeOK, locks
<1>4. ASSUME NEW x \in Handler \ {h} PROVE Local(x)'
  <2>1. plan'[x] = plan[x]
    BY <1>1, Advance
  <2> QED BY <1>1, <2>1, UntouchedLocal DEF Untouched, locks, Local
<1>5. Local(h)'
  <2>1. /\ Plan(plan'[h]) /\ (Free(plan[h]) => Free(plan'[h]))
        /\ Binding(Head(plan[h])) => plan'[h] # <<>> /\ Follows(Head(plan[h]), Head(plan'[h]))
        /\ Closes(plan[h]) => Closes(plan'[h])
    <3>1. Head(plan[h]) # Unlock("publication")
      BY <1>2 DEF Unlock
    <3> QED BY <1>1, <3>1, Advance
  <2>2. ~(readers[h] > 0) /\ h \notin blocked
    BY <1>1, <1>2 DEF Local, RUnlock, RLock, TypeOK
  <2>3. ASSUME NEW m \in Mutex \ {"publication"}, holder[m] = h
        PROVE  plan'[h] # <<>> /\ Head(plan'[h]) \in {Unlock(m), Send(m)}
    <3>1. Head(plan[h]) = Send(m)
      BY <1>1, <1>2, <2>3 DEF Local, Unlock
    <3> QED BY <2>1, <3>1 DEF Binding, Follows, Send
  <2>4. writer = h => /\ writing /\ plan'[h] # <<>>
                      /\ Head(plan'[h]) = Unlock("mu")
    BY <1>1, <1>2, <2>1 DEF Local, Unlock, Lock, Binding, Follows
  <2> QED BY <1>1, <2>1, <2>2, <2>3, <2>4 DEF Local, locks
<1> QED BY <1>1, <1>3, <1>4, <1>5 DEF locks

LEMMA ClientSteps ==
  ASSUME LocksInv, NEW s \in Stream, ClientReads(s) \/ Disconnect(s)
  PROVE  LocksInv'
<1>1. UNCHANGED <<plan, todo, locks, subscribers>>
  BY DEF ClientReads, Disconnect
<1>2. unread' \in [Stream -> 0..Window] /\ broken' \subseteq Stream
  <2>1. unread \in [Stream -> 0..Window] /\ broken \subseteq Stream /\ Window \in Nat
    BY LocksAssumption DEF LocksInv, TypeOK
  <2>2. CASE ClientReads(s)
    BY <2>1, <2>2 DEF ClientReads
  <2>3. CASE Disconnect(s)
    BY <2>1, <2>3 DEF Disconnect
  <2> QED BY <2>2, <2>3
<1>3. \A x \in Handler : Local(x)'
  BY <1>1, UntouchedLocal DEF LocksInv, Untouched, locks, Local
<1> QED BY <1>1, <1>2, <1>3 DEF LocksInv, TypeOK, locks

\* A publisher turns to the next subscriber: a leaf is put before its plan.
LEMMA NextSubscriber ==
  ASSUME LocksInv, NEW h \in Handler, PublishToNext(h), todo[h] # {}
  PROVE  LocksInv'
<1> USE DEF LocksInv
<1>1. /\ ~Idle(h) /\ Head(plan[h]).do = "publish" /\ plan[h] # <<>>
      /\ Local(h) /\ TypeOK /\ UNCHANGED <<locks, subscribers, unread, broken>>
  BY DEF PublishToNext, At, Idle
<1>2. PICK s \in Stream : \E p \in Reach(s) :
        /\ todo' = [todo EXCEPT ![h] = todo[h] \ {s}]
        /\ plan' = [plan EXCEPT ![h] = p \o plan[h]]
  BY <1>1 DEF PublishToNext, TypeOK
<1>7. PICK p \in Reach(s) :
      /\ todo' = [todo EXCEPT ![h] = todo[h] \ {s}]
      /\ plan' = [plan EXCEPT ![h] = p \o plan[h]]
  BY <1>2
<1>3. Leaf(p) /\ Plan(plan[h]) /\ Plan(p \o plan[h])
  BY <1>1, Plans, JoinedPlans DEF Local
<1>4. TypeOK'
  <2>1. p \o plan[h] \in Seq(Statement)
    BY <1>3 DEF Plan
  <2>2. plan' \in [Handler -> Seq(Statement)] /\ todo' \in [Handler -> SUBSET Stream]
    BY <1>1, <1>7, <2>1 DEF TypeOK
  <2> QED BY <1>1, <2>2 DEF TypeOK, locks
<1>5. ASSUME NEW x \in Handler \ {h} PROVE Local(x)'
  <2>1. plan'[x] = plan[x]
    BY <1>1, <1>7 DEF TypeOK
  <2> QED BY <1>1, <2>1, UntouchedLocal DEF Untouched, locks, Local
<1>6. Local(h)'
  <2>1. plan'[h] = p \o plan[h]
    BY <1>1, <1>7 DEF TypeOK
  <2>2. /\ \A m \in Mutex \ {"publication"} : holder[m] # h
        /\ ~(readers[h] > 0) /\ h \notin blocked
    BY <1>1 DEF Local, Unlock, Send, RUnlock, RLock
  <2>3. writer # h
    BY <1>1 DEF Local, Lock, Unlock, TypeOK
  <2>4. ASSUME Free(plan[h]) PROVE Free(p \o plan[h])
    <3>1. \A i \in 1..Len(p \o plan[h]) :
            (p \o plan[h])[i] = IF i <= Len(p) THEN p[i] ELSE plan[h][i - Len(p)]
      BY <1>3 DEF Leaf, Plan
    <3>2. Len(p \o plan[h]) = Len(p) + Len(plan[h]) /\ Len(p) \in Nat /\ Len(plan[h]) \in Nat
      BY <1>3 DEF Leaf, Plan
    <3> QED BY <1>3, <2>4, <3>1, <3>2 DEF Leaf, Free
  <2>5. ASSUME Closes(plan[h]) PROVE Closes(p \o plan[h])
    <3>1. /\ Len(p \o plan[h]) = Len(p) + Len(plan[h]) /\ Len(p) \in Nat /\ Len(plan[h]) \in Nat
          /\ \A i \in 1..Len(p \o plan[h]) :
               (p \o plan[h])[i] = IF i <= Len(p) THEN p[i] ELSE plan[h][i - Len(p)]
      BY <1>3 DEF Leaf, Plan
    <3>2. PICK j \in 1..Len(plan[h]) : plan[h][j] = Unlock("publication")
      BY <2>5 DEF Closes
    <3>3. Len(p) + j \in 1..Len(p \o plan[h])
          /\ (p \o plan[h])[Len(p) + j] = Unlock("publication")
      BY <3>1, <3>2
    <3> QED BY <3>3 DEF Closes
  <2> QED BY <1>1, <1>3, <2>1, <2>2, <2>3, <2>4, <2>5 DEF Local, locks
<1> QED BY <1>1, <1>4, <1>5, <1>6 DEF locks

LEMMA MutexSteps ==
  ASSUME LocksInv, NEW h \in Handler, AcquireMutex(h) \/ ReleaseMutex(h)
  PROVE  LocksInv'
<1> USE DEF LocksInv
<1>1. /\ ~Idle(h) /\ Done(h) /\ Local(h) /\ TypeOK /\ plan[h] # <<>>
      /\ UNCHANGED <<todo, writer, writing, readers, blocked, subscribers, unread, broken>>
      /\ On(h) \in Mutex /\ h # Nobody
  BY HeadOfPlan, LocksAssumption DEF AcquireMutex, ReleaseMutex, At, Idle, Handler
<1>2. \/ /\ Head(plan[h]) = Lock(On(h)) /\ holder[On(h)] = Nobody
         /\ holder' = [holder EXCEPT ![On(h)] = h]
      \/ /\ Head(plan[h]) = Unlock(On(h))
         /\ holder' = [holder EXCEPT ![On(h)] = Nobody]
  <2>1. CASE AcquireMutex(h)
    <3>1. At(h, "lock") /\ holder[On(h)] = Nobody /\ holder' = [holder EXCEPT ![On(h)] = h]
      BY <2>1 DEF AcquireMutex
    <3>2. Head(plan[h]) = Lock(On(h))
      BY <1>1, <3>1, HeadOfPlan
    <3> QED BY <3>1, <3>2
  <2>2. CASE ReleaseMutex(h)
    BY <1>1, <2>2, HeadOfPlan DEF ReleaseMutex
  <2> QED BY <2>1, <2>2
<1>3. TypeOK'
  <2>1. plan' \in [Handler -> Seq(Statement)]
    BY <1>1, Advance
  <2>2. holder' \in [Mutex -> Handler \cup {Nobody}]
    BY <1>1, <1>2 DEF TypeOK
  <2> QED BY <1>1, <2>1, <2>2 DEF TypeOK
<1>4. ASSUME NEW x \in Handler \ {h} PROVE Local(x)'
  <2>1. plan'[x] = plan[x] /\ x # Nobody
    BY <1>1, Advance, LocksAssumption DEF Handler
  <2>2. \A m \in Mutex : holder'[m] = x => holder[m] = x
    BY <1>1, <1>2, <2>1 DEF TypeOK
  <2> QED BY <1>1, <2>1, <2>2, UntouchedLocal DEF Untouched, Local
<1>5. Local(h)'
  <2>1. /\ Plan(plan'[h]) /\ (Free(plan[h]) => Free(plan'[h]))
        /\ Binding(Head(plan[h])) => plan'[h] # <<>> /\ Follows(Head(plan[h]), Head(plan'[h]))
        /\ Head(plan[h]) = Lock("publication") => Free(plan'[h]) /\ Closes(plan'[h])
        /\ Closes(plan[h]) => Closes(plan'[h]) \/ Head(plan[h]) = Unlock("publication")
    BY <1>1, Advance
  <2>2. On(h) # "mu"
    BY LocksAssumption, <1>1 DEF Mutex
  <2>3. ~(readers[h] > 0) /\ h \notin blocked
    BY <1>1, <1>2 DEF Local, RUnlock, RLock, Lock, Unlock
  <2>4. writer # h
    BY <1>1, <1>2, <2>2 DEF Local, Lock, Unlock, TypeOK
  <2>5. ASSUME NEW m \in Mutex \ {"publication"}, holder'[m] = h
        PROVE  plan'[h] # <<>> /\ Head(plan'[h]) \in {Unlock(m), Send(m)}
    <3>1. holder[m] = h => Head(plan[h]) \in {Unlock(m), Send(m)}
      BY <1>1 DEF Local
    <3>2. Head(plan[h]) = Lock(m)
      BY <1>1, <1>2, <2>5, <3>1 DEF TypeOK, Lock, Unlock, Send
    <3>3. m # "mu"
      BY LocksAssumption DEF Mutex
    <3> QED BY <2>1, <3>2, <3>3 DEF Binding, Follows, Lock
  <2>6. holder'["publication"] = h => Free(plan'[h]) /\ Closes(plan'[h])
    <3>1. "publication" \in Mutex
      BY DEF Mutex
    <3>2. CASE On(h) = "publication"
      BY <1>1, <1>2, <2>1, <3>1, <3>2 DEF TypeOK
    <3>3. CASE On(h) # "publication"
      <4>1. holder'["publication"] = holder["publication"]
        BY <1>2, <1>1, <3>1, <3>3 DEF TypeOK
      <4>2. Head(plan[h]) # Unlock("publication")
        BY <1>2, <3>3 DEF Lock, Unlock
      <4> QED BY <1>1, <2>1, <4>1, <4>2 DEF Local
    <3> QED BY <3>2, <3>3
  <2> QED BY <1>1, <2>1, <2>3, <2>4, <2>5, <2>6 DEF Local
<1> QED BY <1>1, <1>3, <1>4, <1>5

\* The steps of the read-write mutex.
LEMMA WriterSteps ==
  ASSUME LocksInv, NEW h \in Handler, AnnounceWriter(h) \/ AcquireWriter(h)
  PROVE  LocksInv'
<1> USE DEF LocksInv
<1>1. /\ ~Idle(h) /\ At(h, "lock") /\ On(h) = "mu" /\ Local(h) /\ TypeOK /\ plan[h] # <<>>
      /\ Head(plan[h]) = Lock("mu") /\ h # Nobody
      /\ UNCHANGED <<todo, holder, readers, blocked, subscribers, unread, broken>>
      /\ writer' = h
  <2>1. ~Idle(h) /\ At(h, "lock") /\ On(h) = "mu"
    BY DEF AnnounceWriter, AcquireWriter, At
  <2>2. /\ UNCHANGED <<todo, holder, readers, blocked, subscribers, unread, broken>>
        /\ writer' = h
    BY DEF AnnounceWriter, AcquireWriter
  <2> QED BY <2>1, <2>2, HeadOfPlan, LocksAssumption DEF Handler, Idle
<1>2. /\ \A m \in Mutex \ {"publication"} : holder[m] # h
      /\ ~(readers[h] > 0) /\ h \notin blocked
  BY <1>1 DEF Local, Lock, Unlock, Send, RUnlock, RLock
<1>3. CASE AnnounceWriter(h)
  <2>1. writer = Nobody /\ UNCHANGED <<plan, writing>> /\ ~writing
    BY <1>1, <1>3 DEF AnnounceWriter
  <2>2. TypeOK'
    BY <1>1, <2>1 DEF TypeOK
  <2>3. ASSUME NEW x \in Handler \ {h} PROVE Local(x)'
    BY <1>1, <2>1, UntouchedLocal DEF Untouched
  <2>4. Local(h)'
    BY <1>1, <1>2, <2>1 DEF Local
  <2> QED BY <1>1, <2>1, <2>2, <2>3, <2>4
<1>4. CASE AcquireWriter(h)
  <2>1. writer = h /\ Done(h) /\ writing' = TRUE
    BY <1>4 DEF AcquireWriter
  <2>2. TypeOK'
    BY <1>1, <2>1, Advance DEF TypeOK
  <2>3. ASSUME NEW x \in Handler \ {h} PROVE Local(x)'
    <3>1. plan'[x] = plan[x]
      BY <1>1, <2>1, Advance
    <3> QED BY <1>1, <2>1, <3>1, UntouchedLocal DEF Untouched
  <2>4. Local(h)'
    <3>1. /\ Plan(plan'[h]) /\ (Free(plan[h]) => Free(plan'[h]))
          /\ Binding(Head(plan[h])) => plan'[h] # <<>> /\ Follows(Head(plan[h]), Head(plan'[h]))
          /\ Closes(plan[h]) => Closes(plan'[h])
      <4>1. Head(plan[h]) # Unlock("publication")
        BY <1>1 DEF Lock, Unlock
      <4> QED BY <1>1, <2>1, <4>1, Advance
    <3>2. /\ plan'[h] # <<>>
          /\ \/ Head(plan'[h]) = Unlock("mu")
             \/ Head(plan'[h]).do \in {"subscribe", "unsubscribe", "collect"}
      BY <1>1, <3>1 DEF Binding, Follows, Lock
    <3> QED BY <1>1, <1>2, <2>1, <3>1, <3>2 DEF Local
  <2> QED BY <1>1, <2>1, <2>2, <2>3, <2>4
<1> QED BY <1>3, <1>4

\* A reader that is let in goes on to release its lock.
LEMMA ReaderEnters ==
  ASSUME TypeOK, NEW x \in Handler, Local(x), plan[x] # <<>>, Head(plan[x]) = RLock,
         plan'[x] = Tail(plan[x]), readers'[x] = readers[x] + 1, x \notin blocked',
         holder' = holder, writer' # x
  PROVE  Local(x)'
<1>1. /\ Plan(Tail(plan[x])) /\ (Free(plan[x]) => Free(Tail(plan[x])))
      /\ Tail(plan[x]) # <<>> /\ Follows(RLock, Head(Tail(plan[x])))
      /\ Closes(plan[x]) => Closes(Tail(plan[x]))
  <2>1. Binding(RLock) /\ RLock # Unlock("publication")
    BY DEF Binding, RLock, Unlock
  <2> QED BY <2>1, TailOfPlan DEF Local
<1>2. Head(Tail(plan[x])) = RUnlock
  BY <1>1 DEF Follows, RLock
<1>3. /\ \A m \in Mutex \ {"publication"} : holder[m] # x
      /\ ~(readers[x] > 0) /\ readers[x] \in Int
  BY DEF Local, RLock, RUnlock, Unlock, Send, TypeOK
<1>4. readers'[x] > 0 => readers'[x] = 1
  BY <1>3
<1> QED BY <1>1, <1>2, <1>3, <1>4 DEF Local

LEMMA WriterLeaves ==
  ASSUME LocksInv, NEW h \in Handler, ReleaseWriter(h) PROVE LocksInv'
<1> USE DEF LocksInv
<1>1. /\ ~Idle(h) /\ At(h, "unlock") /\ On(h) = "mu" /\ Local(h) /\ TypeOK /\ plan[h] # <<>>
      /\ UNCHANGED <<todo, holder, subscribers, unread, broken>>
      /\ writer' = Nobody /\ writing' = FALSE /\ blocked' = {}
      /\ readers' = [r \in Handler |-> IF r \in blocked THEN readers[r] + 1 ELSE readers[r]]
      /\ plan' = [r \in Handler |-> IF r \in blocked \cup {h} THEN Tail(plan[r]) ELSE plan[r]]
  BY DEF ReleaseWriter, At, Idle
<1>2. Head(plan[h]) = Unlock("mu") /\ h \notin blocked
  <2>1. Head(plan[h]) = Unlock("mu")
    BY <1>1, HeadOfPlan
  <2> QED BY <1>1, <2>1 DEF Local, Unlock, RLock
<1>3. \A x \in Handler : x # Nobody
  BY LocksAssumption DEF Handler
<1>4. ASSUME NEW x \in blocked PROVE Local(x)'
  <2>1. x \in Handler /\ Local(x) /\ plan[x] # <<>> /\ Head(plan[x]) = RLock
    BY <1>4 DEF TypeOK, Local
  <2> QED BY <1>1, <1>3, <2>1, <1>4, ReaderEnters
<1>5. ASSUME NEW x \in Handler \ (blocked \cup {h}) PROVE Local(x)'
  BY <1>1, <1>3, <1>5, UntouchedLocal DEF Untouched
<1>6. Local(h)'
  <2>1. plan'[h] = Tail(plan[h]) /\ readers'[h] = readers[h]
    BY <1>1, <1>2
  <2>2. /\ Plan(Tail(plan[h])) /\ (Free(plan[h]) => Free(Tail(plan[h])))
        /\ Closes(plan[h]) => Closes(Tail(plan[h]))
    <3>1. Head(plan[h]) # Unlock("publication")
      BY <1>2 DEF Unlock
    <3> QED BY <1>1, <3>1, TailOfPlan DEF Local
  <2>3. /\ \A m \in Mutex \ {"publication"} : holder[m] # h
        /\ ~(readers[h] > 0)
    <3>1. \A m \in Mutex : m # "mu"
      BY LocksAssumption DEF Mutex
    <3> QED BY <1>1, <1>2, <3>1 DEF Local, Unlock, Send, RUnlock
  <2> QED BY <1>1, <1>3, <2>1, <2>2, <2>3 DEF Local
<1>7. TypeOK'
  <2>1. ASSUME NEW x \in blocked \cup {h} PROVE x \in Handler /\ Tail(plan[x]) \in Seq(Statement)
    <3>1. x \in Handler /\ plan[x] # <<>> /\ plan[x] \in Seq(Statement)
      BY <1>1, <2>1 DEF TypeOK, Local
    <3> QED BY <3>1
  <2>2. plan' \in [Handler -> Seq(Statement)]
    BY <1>1, <2>1 DEF TypeOK
  <2>3. readers' \in [Handler -> Int]
    BY <1>1 DEF TypeOK
  <2> QED BY <1>1, <2>2, <2>3 DEF TypeOK
<1> QED BY <1>1, <1>4, <1>5, <1>6, <1>7

LEMMA ReaderSteps ==
  ASSUME LocksInv, NEW h \in Handler, AcquireReader(h) \/ BlockReader(h) \/ ReleaseReader(h)
  PROVE  LocksInv'
<1> USE DEF LocksInv
<1>1. /\ ~Idle(h) /\ Local(h) /\ TypeOK /\ plan[h] # <<>> /\ h # Nobody
      /\ UNCHANGED <<todo, holder, writer, writing, subscribers, unread, broken>>
  BY LocksAssumption DEF AcquireReader, BlockReader, ReleaseReader, At, Idle, Handler
<1>2. CASE AcquireReader(h)
  <2>1. /\ Head(plan[h]) = RLock /\ Done(h) /\ writer = Nobody /\ blocked' = blocked
        /\ readers' = [readers EXCEPT ![h] = readers[h] + 1]
    BY <1>1, <1>2, HeadOfPlan DEF AcquireReader
  <2>2. TypeOK'
    BY <1>1, <2>1, Advance DEF TypeOK
  <2>3. ASSUME NEW x \in Handler \ {h} PROVE Local(x)'
    <3>1. plan'[x] = plan[x] /\ readers'[x] = readers[x]
      BY <1>1, <2>1, Advance DEF TypeOK
    <3> QED BY <1>1, <2>1, <3>1, UntouchedLocal DEF Untouched, Local
  <2>4. Local(h)'
    <3>1. plan'[h] = Tail(plan[h]) /\ readers'[h] = readers[h] + 1 /\ h \notin blocked'
      BY <1>1, <2>1, Advance DEF TypeOK, Local
    <3> QED BY <1>1, <2>1, <3>1, ReaderEnters
  <2> QED BY <1>1, <2>2, <2>3, <2>4
<1>3. CASE BlockReader(h)
  <2>1. /\ Head(plan[h]) = RLock /\ writer # Nobody /\ blocked' = blocked \cup {h}
        /\ UNCHANGED <<plan, readers>>
    BY <1>1, <1>3, HeadOfPlan DEF BlockReader
  <2>2. TypeOK'
    BY <1>1, <2>1 DEF TypeOK
  <2>3. ASSUME NEW x \in Handler \ {h} PROVE Local(x)'
    BY <1>1, <2>1, UntouchedLocal DEF Untouched, Local
  <2>4. Local(h)'
    BY <1>1, <2>1 DEF Local
  <2> QED BY <1>1, <2>2, <2>3, <2>4
<1>4. CASE ReleaseReader(h)
  <2>1. /\ Head(plan[h]) = RUnlock /\ Done(h) /\ blocked' = blocked
        /\ readers' = [readers EXCEPT ![h] = readers[h] - 1]
    BY <1>1, <1>4, HeadOfPlan DEF ReleaseReader
  <2>2. TypeOK'
    BY <1>1, <2>1, Advance DEF TypeOK
  <2>3. ASSUME NEW x \in Handler \ {h} PROVE Local(x)'
    <3>1. plan'[x] = plan[x] /\ readers'[x] = readers[x]
      BY <1>1, <2>1, Advance DEF TypeOK
    <3> QED BY <1>1, <2>1, <3>1, UntouchedLocal DEF Untouched, Local
  <2>4. Local(h)'
    <3>1. /\ Plan(plan'[h]) /\ (Free(plan[h]) => Free(plan'[h]))
          /\ Closes(plan[h]) => Closes(plan'[h])
      <4>1. Head(plan[h]) # Unlock("publication")
        BY <2>1 DEF RUnlock, Unlock
      <4> QED BY <1>1, <2>1, <4>1, Advance
    <3>2. readers'[h] = readers[h] - 1 /\ readers[h] \in Int
      BY <1>1, <2>1 DEF TypeOK
    <3>3. ~(readers'[h] > 0)
      BY <1>1, <3>2 DEF Local
    <3>4. /\ \A m \in Mutex \ {"publication"} : holder[m] # h
          /\ h \notin blocked
      BY <1>1, <2>1 DEF Local, RUnlock, RLock, Unlock, Send
    <3>5. writer # h
      BY <1>1, <2>1 DEF Local, RUnlock, Lock, Unlock, TypeOK
    <3> QED BY <1>1, <2>1, <3>1, <3>3, <3>4, <3>5 DEF Local
  <2> QED BY <1>1, <2>2, <2>3, <2>4
<1> QED BY <1>2, <1>3, <1>4

LEMMA LocksStep == LocksInv /\ [Next]_vars => LocksInv'
<1> SUFFICES ASSUME LocksInv, [Next]_vars PROVE LocksInv'
  OBVIOUS
<1>1. CASE UNCHANGED vars
  <2>1. UNCHANGED <<plan, todo, holder, writer, writing, readers, blocked, subscribers, unread, broken>>
    BY <1>1 DEF vars, locks
  <2>2. TypeOK'
    BY <2>1 DEF LocksInv, TypeOK
  <2>3. ASSUME NEW x \in Handler PROVE Local(x)'
    BY <2>1, UntouchedLocal DEF LocksInv, Untouched, Local
  <2> QED BY <2>1, <2>2, <2>3 DEF LocksInv
<1>2. ASSUME NEW h \in Handler, Step(h) PROVE LocksInv'
  <2>1. CASE AcquireMutex(h) \/ ReleaseMutex(h)
    BY <2>1, MutexSteps
  <2>2. CASE AnnounceWriter(h) \/ AcquireWriter(h)
    BY <2>2, WriterSteps
  <2>3. CASE ReleaseWriter(h)
    BY <2>3, WriterLeaves
  <2>4. CASE AcquireReader(h) \/ BlockReader(h) \/ ReleaseReader(h)
    BY <2>4, ReaderSteps
  <2>5. CASE SendMessage(h) \/ AddSubscriber(h) \/ RemoveSubscriber(h) \/ CollectSubscribers(h)
    BY <2>5, OtherSteps
  <2>6. CASE PublishToNext(h)
    BY <2>6, OtherSteps, NextSubscriber
  <2> QED BY <1>2, <2>1, <2>2, <2>3, <2>4, <2>5, <2>6 DEF Step
<1>3. ASSUME NEW h \in Handler, Start(h) PROVE LocksInv'
  BY <1>3, FirstLocks
<1>4. ASSUME NEW s \in Stream, Open(s) \/ Request(s) \/ Close(s) PROVE LocksInv'
  <2>1. s \in Handler
    BY DEF Handler
  <2> QED BY <1>4, <2>1, FirstLocks
<1>5. ASSUME NEW s \in Stream, ClientReads(s) \/ Disconnect(s) PROVE LocksInv'
  BY <1>5, ClientSteps
<1> QED BY <1>1, <1>2, <1>3, <1>4, <1>5 DEF Next
-----------------------------------------------------------------------------
\* Of any group of handlers one waits for none of the group: a handler that
\* holds a leaf goes on, an announced writer waits for such handlers only, and
\* who holds publication is one of these or goes on.
LEMMA SomebodyGoesOn == LocksInv => NoCircularWait
<1> SUFFICES ASSUME LocksInv, NEW S \in (SUBSET Handler) \ {{}}
             PROVE  \E h \in S : \A g \in S : ~WaitsFor(h, g)
  BY DEF NoCircularWait
<1>1. S \subseteq Handler /\ S # {} /\ Nobody \notin Handler /\ "mu" \notin Mutex
      /\ \A h \in S : Local(h)
  BY LocksAssumption DEF LocksInv, Handler, Mutex
<1>2. ASSUME NEW h \in S, \/ plan[h] = <<>>
                          \/ Head(plan[h]).do \notin {"lock", "rlock"}
      PROVE  \A g \in S : ~WaitsFor(h, g)
  BY <1>1, <1>2 DEF WaitsFor, At, Idle, Local, RLock
<1>3. ASSUME NEW h \in S, readers[h] > 0
      PROVE  \A g \in S : ~WaitsFor(h, g)
  BY <1>1, <1>2, <1>3 DEF Local, RUnlock
<1>4. ASSUME NEW h \in S, NEW m \in Mutex \ {"publication"}, holder[m] = h
      PROVE  \A g \in S : ~WaitsFor(h, g)
  BY <1>1, <1>2, <1>4 DEF Local, Unlock, Send
<1>5. ASSUME NEW h \in S, writer = h, writing
      PROVE  \A g \in S : ~WaitsFor(h, g)
  BY <1>1, <1>2, <1>5 DEF Local, Unlock
<1>6. ASSUME NEW h \in S, writer = h, ~writing, \A g \in S : ~(readers[g] > 0)
      PROVE  \A g \in S : ~WaitsFor(h, g)
  <2>1. h \in Handler /\ Head(plan[h]) = Lock("mu") /\ h \notin blocked
    BY <1>1, <1>6 DEF Local, Lock, RLock
  <2> QED BY <1>6, <2>1 DEF WaitsFor, On, Lock
<1>7. CASE \E g \in S : readers[g] > 0
  BY <1>3, <1>7
<1>8. CASE writer \in S
  BY <1>5, <1>6, <1>7, <1>8
<1>9. CASE \E g \in S : \E m \in Mutex \ {"publication"} : holder[m] = g
  BY <1>4, <1>9
<1>10. CASE /\ \A g \in S : ~(readers[g] > 0)
            /\ writer \notin S
            /\ \A g \in S : \A m \in Mutex \ {"publication"} : holder[m] # g
  <2>1. ASSUME NEW h \in S, NEW g \in S, WaitsFor(h, g)
        PROVE  Head(plan[h]) = Lock("publication") /\ plan[h] # <<>> /\ holder["publication"] = g
    <3>1. At(h, "lock") /\ On(h) # "mu" /\ holder[On(h)] = g
      BY <1>10, <2>1 DEF WaitsFor
    <3>2. h \in Handler /\ Local(h) /\ ~Idle(h)
      BY <1>1, <3>1 DEF At
    <3>3. On(h) \in Mutex /\ Head(plan[h]) = Lock(On(h)) /\ plan[h] # <<>>
      BY <3>1, <3>2, HeadOfPlan
    <3>4. On(h) = "publication"
      BY <1>10, <3>1, <3>3
    <3> QED BY <3>1, <3>3, <3>4
  <2>2. CASE holder["publication"] \in S
    <3> DEFINE g == holder["publication"]
    <3>1. Free(plan[g]) /\ Plan(plan[g])
      BY <1>1, <2>2 DEF Local
    <3>2. ASSUME NEW f \in S, WaitsFor(g, f) PROVE FALSE
      <4>1. Head(plan[g]) = Lock("publication") /\ plan[g] # <<>>
        BY <2>1, <2>2, <3>2
      <4> QED BY <3>1, <4>1, TailOfPlan
    <3> QED BY <2>2, <3>2
  <2>3. CASE holder["publication"] \notin S
    BY <1>1, <2>1, <2>3
  <2> QED BY <2>2, <2>3
<1> QED BY <1>7, <1>8, <1>9, <1>10

\* gamesync_store.go:680, gamesync.go:206: however many calls, timers and
\* streams meet, no group of them waits for one another only.
THEOREM NobodyWaitsInACircle == Spec => []NoCircularWait
<1>1. Spec => []LocksInv
  BY InitLocks, LocksStep, PTL DEF Spec
<1> QED BY <1>1, SomebodyGoesOn, PTL
=============================================================================
