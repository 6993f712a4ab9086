------------------------ MODULE TlsConnectionsProofs ------------------------
(***************************************************************************)
(* Proofs about connections to port 443.  A goroutine has one event under  *)
(* way at most, because it waits for record to return, and the two of a    *)
(* connection never run at the same time: the channel lies between them.   *)
(* An RPC starts after the events that began its transport are recorded.   *)
(* An address keeps the id of a connection as long as no other connection  *)
(* of that address is open along with it.                                  *)
(***************************************************************************)
EXTENDS TlsConnections, FiniteSetTheorems, SequenceTheorems, TLAPS

\* The events of a connection and of its RPCs.
Kind ==
  {"tcp_accepted", "tls_client_hello", "tls_handshake", "tls_unsupported_alpn",
   "grpc_transport_tagged", "grpc_transport_begin", "grpc_transport_end",
   "grpc_rpc_tagged", "grpc_rpc_begin", "grpc_message", "grpc_rpc_end"}

Types ==
  /\ connectionSeq \in Nat
  /\ connections \in [Address -> Nat]
  /\ pending \in [Recorder -> Seq(Kind)]
  /\ used \in [Conn -> SUBSET Nat]
  /\ stage \in [Conn -> Stage]
  /\ given \in [Conn -> Nat]
  /\ timed \subseteq Conn
  /\ proto \in [Conn -> Protocol]
  /\ queue \in [{"h2", "http/1.1"} -> Seq(Conn)]
  /\ shared \subseteq Conn
  /\ progress \in [Call -> Progress]

\* Who is in a channel is in one place of it, and waits there.
QueueInv ==
  \A s \in {"h2", "http/1.1"} : \A i \in 1..Len(queue[s]) :
    /\ stage[queue[s][i]] = "queued"
    /\ proto[queue[s][i]] = s
    /\ \A j \in 1..Len(queue[s]) : i # j => queue[s][i] # queue[s][j]

\* An RPC has a transport that has begun.
CallsCarried ==
  \A r \in Call : progress[r] # "none"
                  => stage[Carrier[r]] \in {"begun", "ended", "over"}

ConnInv == Types /\ QueueInv /\ CallsCarried

\* g has no event under way, or a single one that is of these kinds.
AtMostOne(g, kinds) ==
  pending[g] = <<>> \/ \E kind \in kinds : pending[g] = <<kind>>

\* Events of a connection: none when its next step does not wait for record.
ConnSound(c) ==
  /\ AtMostOne(c, Kind)
  /\ stage[c] = "ended" => AtMostOne(c, Final)
  /\ stage[c] \in {"unused", "accepted", "queued", "served", "over"}
       => pending[c] = <<>>

\* Events of an RPC: those that led to them are written.
CallSound(r) ==
  /\ AtMostOne(Handler(r), Kind)
  /\ AtMostOne(Sender(r), Kind)
  /\ progress[r] = "none" => pending[Handler(r)] = <<>>
  /\ progress[r] # "none" => AtMostOne(Carrier[r], Final)
  /\ progress[r] \in {"handled", "ended"} => AtMostOne(Handler(r), Final)
  /\ progress[r] \notin {"handled", "ended"} => pending[Sender(r)] = <<>>

LogInv ==
  /\ \A c \in Conn : ConnSound(c)
  /\ \A r \in Call : CallSound(r)

Peers(c, d) == c # d /\ Remote[c] = Remote[d]

SharedInv ==
  \A c, d \in Conn : Peers(c, d) /\ Open(c) /\ Open(d) => c \in shared

IdSound(c) ==
  c \notin shared =>
    /\ used[c] \subseteq {given[c]}
    /\ stage[c] = "unused" => used[c] = {}
    /\ stage[c] = "accepted" => used[c] = {} /\ given[c] # NoId
    /\ stage[c] \notin {"unused", "accepted", "over"} =>
         /\ given[c] # NoId
         /\ connections[Remote[c]] = given[c]

IdInv == \A c \in Conn : IdSound(c)

-----------------------------------------------------------------------------
LEMMA FoundIdTypes ==
  ASSUME Types, NEW c \in Conn
  PROVE  /\ Remote[c] \in Address
         /\ FoundId(c) \in Nat \ {NoId}
<1>1. Remote[c] \in Address
  BY RecorderAssumption
<1>2. connections[Remote[c]] \in Nat /\ connectionSeq + 1 \in Nat \ {0}
  BY <1>1 DEF Types
<1> QED BY <1>1, <1>2 DEF FoundId, Known, NoId

LEMMA LookUpTypes ==
  ASSUME Types, NEW c \in Conn, LookUp(c)
  PROVE  /\ connectionSeq' \in Nat
         /\ connections' \in [Address -> Nat]
<1>1. FoundId(c) \in Nat
  BY FoundIdTypes
<1>2. CASE Known(c)
  BY <1>2 DEF Types, LookUp, idVars
<1>3. CASE ~ Known(c)
  <2>1. connections' = [connections EXCEPT ![Remote[c]] = FoundId(c)]
        /\ connectionSeq' = connectionSeq + 1
    BY <1>3 DEF LookUp, DrawId
  <2>2. connections \in [Address -> Nat] /\ connectionSeq \in Nat
    BY DEF Types
  <2>3. [connections EXCEPT ![Remote[c]] = FoundId(c)] \in [Address -> Nat]
    BY <1>1, <2>2
  <2> QED BY <2>1, <2>2, <2>3
<1> QED BY <1>2, <1>3

\* The goroutines are different ones.
LEMMA Recorders ==
  /\ Conn \subseteq Recorder
  /\ \A r \in Call :
       /\ Carrier[r] \in Conn
       /\ Handler(r) \in Recorder \ Conn
       /\ Sender(r) \in Recorder \ Conn
       /\ \A q \in Call : Handler(r) # Sender(q)
       /\ \A q \in Call : q # r => Handler(r) # Handler(q) /\ Sender(r) # Sender(q)
  /\ \A g \in Recorder : \/ g \in Conn
                         \/ \E r \in Call : g \in {Handler(r), Sender(r)}
BY RecorderAssumption DEF Recorder, Handler, Sender

LEMMA RecordTypes ==
  ASSUME Types, NEW g \in Recorder, NEW c \in Conn, NEW kind \in Kind,
         NEW id \in Nat, Record(g, c, kind, id)
  PROVE  /\ pending' \in [Recorder -> Seq(Kind)]
         /\ used' \in [Conn -> SUBSET Nat]
<1>1. Append(pending[g], kind) \in Seq(Kind)
  BY DEF Types
<1>2. pending' \in [Recorder -> Seq(Kind)]
  BY <1>1 DEF Types, Record
<1> QED BY <1>2 DEF Types, Record

\* The steps that put an event under way.
Recording(c, kind, id) ==
  \/ Register(c) /\ kind = "tcp_accepted" /\ id = given[c]
  \/ Hello(c) /\ kind = "tls_client_hello" /\ id = FoundId(c)
  \/ HandshakeFails(c) /\ kind = "tls_handshake" /\ id = given[c]
  \/ HandshakeSucceeds(c) /\ kind = "tls_handshake" /\ id = given[c]
  \/ UnsupportedAlpn(c) /\ kind = "tls_unsupported_alpn" /\ id = given[c]
  \/ TagConn(c) /\ kind = "grpc_transport_tagged" /\ id = FoundId(c)
  \/ ConnBegin(c) /\ kind = "grpc_transport_begin" /\ id = given[c]
  \/ ConnEnd(c) /\ kind = "grpc_transport_end" /\ id = given[c]

\* The others.
Passing(c) ==
  \/ Accept(c) \/ Push(c) \/ Discard(c) \/ ForgetTransport(c) \/ RestEnds(c)

\* Every step is one of these.
LEMMA Cases ==
  ASSUME Types, [Next]_vars
  PROVE  \/ \E c \in Conn : \E kind \in Kind, id \in {given[c], FoundId(c)} :
               Recording(c, kind, id)
         \/ \E c \in Conn : Passing(c)
         \/ \E g \in Recorder : Write(g)
         \/ \E r \in Call : RpcStep(r)
         \/ \E s \in {"h2", "http/1.1"} : Take(s)
         \/ UNCHANGED vars
<1>1. ASSUME NEW c \in Conn,
             \/ Hello(c) \/ HandshakeFails(c) \/ HandshakeSucceeds(c)
             \/ ConnEnd(c) \/ Register(c) \/ UnsupportedAlpn(c)
             \/ TagConn(c) \/ ConnBegin(c)
      PROVE  \E kind \in Kind, id \in {given[c], FoundId(c)} :
               Recording(c, kind, id)
  BY <1>1 DEF Recording, Kind
<1>2. DOMAIN queue = {"h2", "http/1.1"}
  BY DEF Types
<1> QED BY <1>1, <1>2, Recorders DEF Next, ServerStep, Passing

-----------------------------------------------------------------------------
LEMMA TypesRecording ==
  ASSUME Types, NEW c \in Conn, NEW kind \in Kind,
         NEW id \in {given[c], FoundId(c)}, Recording(c, kind, id)
  PROVE  Types'
<1>1. id \in Nat /\ FoundId(c) \in Nat
  BY FoundIdTypes DEF Types
<1>2. Record(c, c, kind, id) /\ c \in Recorder
  BY Recorders DEF Recording, Register, Hello, HandshakeFails, HandshakeSucceeds,
         UnsupportedAlpn, TagConn, ConnBegin, ConnEnd
<1>3. /\ pending' \in [Recorder -> Seq(Kind)]
      /\ used' \in [Conn -> SUBSET Nat]
  BY <1>1, <1>2, RecordTypes
<1>4. CASE Register(c)
  <2>1. connections' \in [Address -> Nat]
    BY <1>4, FoundIdTypes DEF Register, Store, Types
  <2> QED BY <1>3, <1>4, <2>1 DEF Register, SetDeadline, Become, Types, Stage
<1>5. CASE Hello(c)
  BY <1>3, <1>5, LookUpTypes DEF Hello, Become, Types, Stage
<1>6. CASE HandshakeFails(c)
  BY <1>3, <1>6 DEF HandshakeFails, Become, Types, Stage, idVars
<1>7. CASE HandshakeSucceeds(c)
  BY <1>3, <1>7 DEF HandshakeSucceeds, Become, Types, Stage, idVars
<1>8. CASE UnsupportedAlpn(c) \/ ConnBegin(c) \/ ConnEnd(c)
  BY <1>3, <1>8 DEF UnsupportedAlpn, ConnBegin, ConnEnd, Become, Types, Stage, idVars
<1>9. CASE TagConn(c)
  BY <1>1, <1>3, <1>9, LookUpTypes DEF TagConn, Become, Types, Stage
<1> QED BY <1>4, <1>5, <1>6, <1>7, <1>8, <1>9 DEF Recording

LEMMA TypesPassing ==
  ASSUME Types, NEW c \in Conn, Passing(c)
  PROVE  Types'
<1>1. CASE Accept(c)
  BY <1>1 DEF Accept, DrawId, Become, Types, Stage, logVars
<1>2. CASE Push(c)
  <2>1. proto[c] \in {"h2", "http/1.1"}
    BY <1>2 DEF Push, Types, Protocol
  <2>2. Append(queue[proto[c]], c) \in Seq(Conn)
    BY <2>1 DEF Types
  <2> QED BY <1>2, <2>2 DEF Push, Become, Types, Stage, recorderVars
<1>3. CASE Discard(c) \/ ForgetTransport(c)
  <2>1. connections' \in [Address -> Nat]
    <3>1. connections' = [connections EXCEPT ![Remote[c]] = 0]
      BY <1>3 DEF Discard, ForgetTransport, ForgetConnection, NoId
    <3>2. connections \in [Address -> Nat] /\ 0 \in Nat
      BY DEF Types
    <3>3. [connections EXCEPT ![Remote[c]] = 0] \in [Address -> Nat]
      BY <3>2
    <3> QED BY <3>1, <3>3
  <2>2. stage' \in [Conn -> Stage]
    BY <1>3 DEF Discard, ForgetTransport, Become, Types, Stage
  <2> QED BY <1>3, <2>1, <2>2 DEF Discard, ForgetTransport, ForgetConnection, Types, logVars
<1>4. CASE RestEnds(c)
  BY <1>4 DEF RestEnds, Become, Types, Stage, recorderVars
<1> QED BY <1>1, <1>2, <1>3, <1>4 DEF Passing

LEMMA TypesWrite ==
  ASSUME Types, NEW g \in Recorder, Write(g)
  PROVE  Types'
<1>1. PICK i \in DOMAIN pending[g] :
        pending' = [pending EXCEPT ![g] = RemoveAt(@, i)]
  BY DEF Write, AppendLine
<1>2. pending[g] \in Seq(Kind) /\ i \in 1..Len(pending[g])
  BY DEF Types
<1>3. RemoveAt(pending[g], i) \in Seq(Kind)
  <2>1. /\ SubSeq(pending[g], 1, i - 1) \in Seq(Kind)
        /\ SubSeq(pending[g], i + 1, Len(pending[g])) \in Seq(Kind)
    BY <1>2, SubSeqProperties
  <2> QED BY <2>1 DEF RemoveAt
<1>4. pending' \in [Recorder -> Seq(Kind)]
  BY <1>1, <1>3 DEF Types
<1> QED BY <1>4 DEF Write, AppendLine, Types, connVars, idVars

\* A step of an RPC changes how far it is, what its goroutines have under
\* way, and the ids its connection has used.
LEMMA RpcChanges ==
  ASSUME Types, NEW r \in Call, RpcStep(r)
  PROVE  /\ UNCHANGED <<stage, given, timed, proto, queue, shared, idVars>>
         /\ progress' \in [Call -> Progress]
         /\ \A q \in Call : q # r => progress'[q] = progress[q]
         /\ \/ UNCHANGED logVars
            \/ \E g \in {Handler(r), Sender(r)}, kind \in Kind :
                 Record(g, Carrier[r], kind, given[Carrier[r]])
<1> USE DEF Reach, Progress, Types
<1>1. CASE EnterHandler(r)
  BY <1>1 DEF EnterHandler, recorderVars, idVars, logVars
<1>2. CASE ~ EnterHandler(r)
  <2>1. \E g \in {Handler(r), Sender(r)}, kind \in Kind : RecordRpc(g, r, kind)
    BY <1>2 DEF RpcStep, TagRPC, BeginRPC, HandlerMessage, SenderMessage,
                EndRPC, Kind
  <2>2. PICK g \in {Handler(r), Sender(r)}, kind \in Kind : RecordRpc(g, r, kind)
    BY <2>1
  <2>3. /\ progress' \in [Call -> Progress]
        /\ \A q \in Call : q # r => progress'[q] = progress[q]
    BY <1>2 DEF RpcStep, TagRPC, BeginRPC, HandlerMessage, SenderMessage, EndRPC
  <2> QED BY <2>2, <2>3 DEF RecordRpc
<1> QED BY <1>1, <1>2

LEMMA TypesRpc ==
  ASSUME Types, NEW r \in Call, RpcStep(r)
  PROVE  Types'
<1>1. CASE UNCHANGED logVars
  BY <1>1, RpcChanges DEF Types, logVars, idVars
<1>2. CASE ~ UNCHANGED logVars
  <2>1. PICK g \in {Handler(r), Sender(r)}, kind \in Kind :
          Record(g, Carrier[r], kind, given[Carrier[r]])
    BY <1>2, RpcChanges
  <2>2. g \in Recorder /\ Carrier[r] \in Conn /\ given[Carrier[r]] \in Nat
    BY Recorders DEF Types
  <2>3. /\ pending' \in [Recorder -> Seq(Kind)]
        /\ used' \in [Conn -> SUBSET Nat]
    BY <2>1, <2>2, RecordTypes
  <2> QED BY <2>3, RpcChanges DEF Types, idVars
<1> QED BY <1>1, <1>2

LEMMA Headed ==
  ASSUME Types, QueueInv, NEW s \in {"h2", "http/1.1"}, Take(s)
  PROVE  /\ Head(queue[s]) \in Conn
         /\ Head(queue[s]) = queue[s][1]
         /\ Len(queue[s]) \in Nat \ {0}
         /\ Tail(queue[s]) \in Seq(Conn)
         /\ stage[Head(queue[s])] = "queued"
         /\ proto[Head(queue[s])] = s
<1>1. queue[s] \in Seq(Conn) /\ queue[s] # <<>>
  BY DEF Take, Types
<1>2. Len(queue[s]) \in Nat \ {0} /\ Head(queue[s]) = queue[s][1]
      /\ Head(queue[s]) \in Conn /\ Tail(queue[s]) \in Seq(Conn)
  BY <1>1
<1>3. 1 \in 1..Len(queue[s])
  BY <1>2
<1> QED BY <1>2, <1>3 DEF QueueInv

LEMMA TypesTake ==
  ASSUME Types, QueueInv, NEW s \in {"h2", "http/1.1"}, Take(s)
  PROVE  Types'
BY Headed DEF Take, Become, Types, Stage, recorderVars

-----------------------------------------------------------------------------
\* A step of a connection that is not in a channel leaves the channels alone.
LEMMA QueueApart ==
  ASSUME Types, QueueInv, NEW c \in Conn, stage[c] # "queued",
         UNCHANGED queue,
         \A d \in Conn : d # c => stage'[d] = stage[d] /\ proto'[d] = proto[d]
  PROVE  QueueInv'
<1>1. ASSUME NEW s \in {"h2", "http/1.1"}, NEW i \in 1..Len(queue[s])
      PROVE  /\ queue[s][i] \in Conn \ {c}
             /\ stage'[queue[s][i]] = "queued"
             /\ proto'[queue[s][i]] = s
  <2>1. queue[s] \in Seq(Conn)
    BY DEF Types
  <2>2. queue[s][i] \in Conn
    BY <2>1
  <2> QED BY <2>2 DEF QueueInv
<1> QED BY <1>1 DEF QueueInv

LEMMA QueuePush ==
  ASSUME Types, QueueInv, NEW c \in Conn, Push(c)
  PROVE  QueueInv'
<1>1. proto[c] \in {"h2", "http/1.1"} /\ stage[c] = "established"
  BY DEF Push, Types, Protocol
<1>2. ASSUME NEW s \in {"h2", "http/1.1"}
      PROVE  \A i \in 1..Len(queue'[s]) :
               /\ stage'[queue'[s][i]] = "queued"
               /\ proto'[queue'[s][i]] = s
               /\ \A j \in 1..Len(queue'[s]) : i # j => queue'[s][i] # queue'[s][j]
  <2>1. queue[s] \in Seq(Conn) /\ Len(queue[s]) \in Nat
    BY DEF Types
  <2>2. ASSUME NEW i \in 1..Len(queue[s])
        PROVE  /\ queue[s][i] \in Conn
               /\ queue[s][i] # c
               /\ stage'[queue[s][i]] = "queued"
               /\ proto'[queue[s][i]] = s
    <3>1. queue[s][i] \in Conn /\ stage[queue[s][i]] = "queued" /\ proto[queue[s][i]] = s
      BY <2>1 DEF QueueInv
    <3> QED BY <1>1, <3>1 DEF Push, Become, Types
  <2>3. CASE s = proto[c]
    <3>1. queue'[s] = Append(queue[s], c)
      BY <1>1, <2>3 DEF Push, Types
    <3>2. /\ Len(queue'[s]) = Len(queue[s]) + 1
          /\ \A i \in 1..Len(queue[s]) : queue'[s][i] = queue[s][i]
          /\ queue'[s][Len(queue[s]) + 1] = c
      BY <2>1, <3>1
    <3>3. stage'[c] = "queued" /\ proto'[c] = s
      BY <2>3 DEF Push, Become, Types
    <3>4. ASSUME NEW i \in 1..Len(queue'[s]), NEW j \in 1..Len(queue'[s]), i # j
          PROVE  queue'[s][i] # queue'[s][j]
      <4>1. CASE i \in 1..Len(queue[s]) /\ j \in 1..Len(queue[s])
        BY <3>2, <3>4, <4>1 DEF QueueInv
      <4>2. CASE i = Len(queue[s]) + 1
        <5>1. j \in 1..Len(queue[s])
          BY <2>1, <3>2, <3>4, <4>2
        <5> QED BY <2>2, <3>2, <4>2, <5>1
      <4>3. CASE j = Len(queue[s]) + 1
        <5>1. i \in 1..Len(queue[s])
          BY <2>1, <3>2, <3>4, <4>3
        <5> QED BY <2>2, <3>2, <4>3, <5>1
      <4> QED BY <2>1, <3>2, <4>1, <4>2, <4>3
    <3>5. ASSUME NEW i \in 1..Len(queue'[s])
          PROVE  stage'[queue'[s][i]] = "queued" /\ proto'[queue'[s][i]] = s
      <4>1. CASE i \in 1..Len(queue[s])
        BY <2>2, <3>2, <4>1
      <4>2. CASE i = Len(queue[s]) + 1
        BY <3>2, <3>3, <4>2
      <4> QED BY <2>1, <3>2, <4>1, <4>2
    <3> QED BY <3>4, <3>5
  <2>4. CASE s # proto[c]
    <3>1. queue'[s] = queue[s]
      BY <2>4 DEF Push, Types
    <3> QED BY <2>2, <3>1 DEF QueueInv
  <2> QED BY <2>3, <2>4
<1> QED BY <1>2 DEF QueueInv

LEMMA QueueTake ==
  ASSUME Types, QueueInv, NEW t \in {"h2", "http/1.1"}, Take(t)
  PROVE  QueueInv'
<1> DEFINE c == Head(queue[t])
<1>1. c \in Conn /\ c = queue[t][1] /\ proto[c] = t /\ Len(queue[t]) \in Nat \ {0}
  BY Headed
<1>2. \A d \in Conn : d # c => stage'[d] = stage[d]
  BY <1>1 DEF Take, Become, Types
<1>3. proto' = proto
  BY DEF Take
<1>4. ASSUME NEW s \in {"h2", "http/1.1"}
      PROVE  \A i \in 1..Len(queue'[s]) :
               /\ stage'[queue'[s][i]] = "queued"
               /\ proto'[queue'[s][i]] = s
               /\ \A j \in 1..Len(queue'[s]) : i # j => queue'[s][i] # queue'[s][j]
  <2>1. queue[s] \in Seq(Conn)
    BY DEF Types
  <2>2. CASE s = t
    <3>1. queue'[s] = Tail(queue[s])
      BY <2>2 DEF Take, Types
    <3>2. /\ Len(queue'[s]) = Len(queue[s]) - 1
          /\ \A i \in 1..Len(queue'[s]) : queue'[s][i] = queue[s][i + 1]
      BY <1>1, <2>1, <2>2, <3>1
    <3>3. ASSUME NEW i \in 1..Len(queue'[s])
          PROVE  /\ i + 1 \in 1..Len(queue[s]) /\ i + 1 # 1
                 /\ 1 \in 1..Len(queue[s])
      BY <1>1, <2>2, <3>2
    <3>4. ASSUME NEW i \in 1..Len(queue'[s])
          PROVE  /\ queue[s][i + 1] \in Conn \ {c}
                 /\ stage'[queue[s][i + 1]] = "queued"
                 /\ proto'[queue[s][i + 1]] = s
      <4>1. queue[s][i + 1] \in Conn
        BY <2>1, <3>3
      <4>2. queue[s][i + 1] # c
        BY <1>1, <2>2, <3>3 DEF QueueInv
      <4> QED BY <1>2, <1>3, <3>3, <4>1, <4>2 DEF QueueInv
    <3>5. ASSUME NEW i \in 1..Len(queue'[s]), NEW j \in 1..Len(queue'[s]), i # j
          PROVE  queue[s][i + 1] # queue[s][j + 1]
      <4>1. i + 1 # j + 1
        BY <3>5
      <4> QED BY <3>3, <4>1 DEF QueueInv
    <3> QED BY <3>2, <3>4, <3>5
  <2>3. CASE s # t
    <3>1. queue'[s] = queue[s]
      BY <2>3 DEF Take, Types
    <3>2. ASSUME NEW i \in 1..Len(queue[s])
          PROVE  queue[s][i] \in Conn \ {c}
      <4>1. queue[s][i] \in Conn
        BY <2>1
      <4> QED BY <1>1, <2>3, <4>1 DEF QueueInv
    <3> QED BY <1>2, <1>3, <3>1, <3>2 DEF QueueInv
  <2> QED BY <2>2, <2>3
<1> QED BY <1>4 DEF QueueInv

\* A connection never leaves the stages in which its transport has begun.
LEMMA CarriedStep ==
  ASSUME Types, CallsCarried, UNCHANGED progress,
         \A c \in Conn : stage[c] \in {"begun", "ended", "over"}
                         => stage'[c] \in {"begun", "ended", "over"}
  PROVE  CallsCarried'
BY Recorders DEF CallsCarried

LEMMA ConnStep ==
  ASSUME ConnInv, [Next]_vars
  PROVE  ConnInv'
<1> USE DEF ConnInv
<1>1. ASSUME NEW c \in Conn, NEW kind \in Kind,
             NEW id \in {given[c], FoundId(c)}, Recording(c, kind, id)
      PROVE  ConnInv'
  <2>1. Types'
    BY <1>1, TypesRecording
  <2>2. /\ stage[c] # "queued" /\ UNCHANGED <<queue, progress>>
        /\ \A d \in Conn : d # c => stage'[d] = stage[d] /\ proto'[d] = proto[d]
    BY <1>1 DEF Recording, Register, Hello, HandshakeFails, HandshakeSucceeds,
                UnsupportedAlpn, TagConn, ConnBegin, ConnEnd, Become, Types
  <2>3. stage[c] \in {"begun", "ended", "over"} => stage'[c] = "ended"
    BY <1>1 DEF Recording, Register, Hello, HandshakeFails, HandshakeSucceeds,
                UnsupportedAlpn, TagConn, ConnBegin, ConnEnd, Become, Types
  <2> QED BY <2>1, <2>2, <2>3, QueueApart, CarriedStep
<1>2. ASSUME NEW c \in Conn, Passing(c)
      PROVE  ConnInv'
  <2>1. Types' /\ UNCHANGED progress
    BY <1>2, TypesPassing
    DEF Passing, Accept, Push, Discard, ForgetTransport, RestEnds
  <2>2. \A d \in Conn : stage[d] \in {"begun", "ended", "over"}
                         => stage'[d] \in {"begun", "ended", "over"}
    BY <1>2 DEF Passing, Accept, Push, Discard, ForgetTransport, RestEnds,
                Become, Types
  <2>3. CASE Push(c)
    BY <2>1, <2>2, <2>3, QueuePush, CarriedStep
  <2>4. CASE ~ Push(c)
    <3>1. /\ stage[c] # "queued" /\ UNCHANGED queue
          /\ \A d \in Conn : d # c => stage'[d] = stage[d] /\ proto'[d] = proto[d]
      BY <1>2, <2>4 DEF Passing, Accept, Discard, ForgetTransport, RestEnds, Become, Types
    <3> QED BY <2>1, <2>2, <3>1, QueueApart, CarriedStep
  <2> QED BY <2>3, <2>4
<1>3. ASSUME NEW g \in Recorder, Write(g)
      PROVE  ConnInv'
  BY <1>3, TypesWrite DEF Write, connVars, QueueInv, CallsCarried
<1>4. ASSUME NEW r \in Call, RpcStep(r)
      PROVE  ConnInv'
  <2>1. Types' /\ UNCHANGED <<stage, queue, proto>>
    BY <1>4, TypesRpc, RpcChanges
  <2>2. QueueInv'
    BY <2>1 DEF QueueInv
  <2>3. progress[r] # "none" \/ Carries(Carrier[r])
    BY <1>4 DEF RpcStep, TagRPC, BeginRPC, EnterHandler, HandlerMessage,
                SenderMessage, EndRPC
  <2>4. stage[Carrier[r]] \in {"begun", "ended", "over"}
    BY <2>3 DEF Carries, CallsCarried
  <2> QED BY <1>4, <2>1, <2>2, <2>4, RpcChanges DEF CallsCarried
<1>5. ASSUME NEW s \in {"h2", "http/1.1"}, Take(s)
      PROVE  ConnInv'
  <2>1. Types' /\ QueueInv' /\ UNCHANGED progress
    BY <1>5, TypesTake, QueueTake DEF Take
  <2>2. Head(queue[s]) \in Conn /\ stage[Head(queue[s])] = "queued"
    BY <1>5, Headed
  <2> QED BY <1>5, <2>1, <2>2, CarriedStep DEF Take, Become, Types
<1>6. CASE UNCHANGED vars
  BY <1>6 DEF vars, connVars, recorderVars, Types, QueueInv, CallsCarried
<1> QED BY <1>1, <1>2, <1>3, <1>4, <1>5, <1>6, Cases

LEMMA ConnInit ==
  ASSUME Init
  PROVE  ConnInv
<1>1. connections \in [Address -> Nat]
  BY DEF Init, RecorderInit, NoId
<1>2. Types
  BY <1>1 DEF Init, RecorderInit, Types, NoId, Stage, Protocol, Progress
<1>3. QueueInv /\ CallsCarried
  BY DEF Init, QueueInv, CallsCarried
<1> QED BY <1>2, <1>3 DEF ConnInv

\* Every variable keeps its type, a connection is in one place of one channel
\* at most (chanListener, local.go:36), and an RPC has a transport.
THEOREM ConnectionsTyped == Spec => []ConnInv
<1>1. Init => ConnInv
  BY ConnInit
<1>2. ConnInv /\ [Next]_vars => ConnInv'
  BY ConnStep
<1> QED BY <1>1, <1>2, PTL DEF Spec

-----------------------------------------------------------------------------
\* A goroutine with nothing under way records an event.
LEMMA RecordOne ==
  ASSUME Types, NEW g \in Recorder, NEW c, NEW kind, NEW id,
         Record(g, c, kind, id), pending[g] = <<>>
  PROVE  /\ pending'[g] = <<kind>>
         /\ \A h \in Recorder \ {g} : pending'[h] = pending[h]
<1>1. Append(pending[g], kind) = <<kind>>
  OBVIOUS
<1> QED BY <1>1 DEF Record, Types

\* The single event a goroutine has under way is written.
LEMMA WriteOne ==
  ASSUME Types, NEW g \in Recorder, AtMostOne(g, Kind), Write(g)
  PROVE  /\ pending'[g] = <<>>
         /\ pending'[g] = Tail(pending[g])
         /\ \A h \in Recorder \ {g} : pending'[h] = pending[h]
         /\ UNCHANGED <<stage, progress>>
<1>1. PICK i \in DOMAIN pending[g] :
        pending' = [pending EXCEPT ![g] = RemoveAt(@, i)]
  BY DEF Write, AppendLine
<1>2. PICK kind \in Kind : pending[g] = <<kind>>
  BY <1>1 DEF AtMostOne
<1>3. Len(pending[g]) = 1 /\ pending[g] \in Seq(Kind)
  BY <1>2
<1>4. i = 1
  BY <1>1, <1>3
<1>5. SubSeq(pending[g], 1, 0) = <<>> /\ SubSeq(pending[g], 2, 1) = <<>>
  BY SubSeqEmpty
<1>6. RemoveAt(pending[g], i) = <<>>
  BY <1>3, <1>4, <1>5 DEF RemoveAt
<1>7. Tail(pending[g]) = <<>>
  BY <1>2
<1> QED BY <1>1, <1>6, <1>7 DEF Types, Write, connVars

\* An event of a connection: its transport has not begun, or ends.
LEMMA LogRecording ==
  ASSUME ConnInv, LogInv, NEW c \in Conn, NEW kind \in Kind,
         NEW id \in {given[c], FoundId(c)}, Recording(c, kind, id)
  PROVE  LogInv' /\ \A g \in Recorder : Len(pending'[g]) >= Len(pending[g])
<1> USE DEF ConnInv
<1>1. pending[c] = <<>>
  BY DEF Recording, Register, Hello, HandshakeFails, HandshakeSucceeds,
         UnsupportedAlpn, TagConn, ConnBegin, ConnEnd, Returned, LogInv, ConnSound
<1>2. /\ pending'[c] = <<kind>>
      /\ \A h \in Recorder \ {c} : pending'[h] = pending[h]
  <2>1. Record(c, c, kind, id) /\ c \in Recorder
    BY Recorders
    DEF Recording, Register, Hello, HandshakeFails, HandshakeSucceeds,
        UnsupportedAlpn, TagConn, ConnBegin, ConnEnd
  <2> QED BY <1>1, <2>1, RecordOne
<1>3. /\ stage'[c] \notin {"unused", "accepted", "queued", "served", "over"}
      /\ stage'[c] = "ended" <=> kind = "grpc_transport_end"
      /\ stage[c] \in {"begun", "ended", "over"} => stage'[c] = "ended"
      /\ \A d \in Conn : d # c => stage'[d] = stage[d]
      /\ UNCHANGED progress
  BY DEF Recording, Register, Hello, HandshakeFails, HandshakeSucceeds,
         UnsupportedAlpn, TagConn, ConnBegin, ConnEnd, Become, Types
<1>4. ASSUME NEW d \in Conn PROVE ConnSound(d)'
  <2>1. CASE d = c
    BY <1>2, <1>3, <2>1 DEF ConnSound, AtMostOne, Final
  <2>2. CASE d # c
    BY <1>2, <1>3, <2>2, Recorders DEF LogInv, ConnSound, AtMostOne
  <2> QED BY <2>1, <2>2
<1>5. ASSUME NEW r \in Call PROVE CallSound(r)'
  <2>1. /\ pending'[Handler(r)] = pending[Handler(r)]
        /\ pending'[Sender(r)] = pending[Sender(r)]
        /\ Carrier[r] \in Conn
    BY <1>2, Recorders
  <2>2. progress[r] # "none" => AtMostOne(Carrier[r], Final)'
    <3>1. CASE progress[r] # "none" /\ Carrier[r] = c
      <4>1. kind = "grpc_transport_end"
        BY <1>3, <3>1 DEF CallsCarried
      <4> QED BY <1>2, <3>1, <4>1 DEF AtMostOne, Final
    <3>2. CASE progress[r] # "none" /\ Carrier[r] # c
      BY <1>2, <2>1, <3>2, Recorders DEF LogInv, CallSound, AtMostOne
    <3> QED BY <3>1, <3>2
  <2> QED BY <1>3, <2>1, <2>2 DEF LogInv, CallSound, AtMostOne
<1>6. ASSUME NEW g \in Recorder PROVE Len(pending'[g]) >= Len(pending[g])
  <2>1. pending[g] \in Seq(Kind)
    BY DEF Types
  <2>2. CASE g = c
    BY <1>1, <1>2, <2>2
  <2>3. CASE g # c
    BY <1>2, <2>1, <2>3
  <2> QED BY <2>2, <2>3
<1> QED BY <1>4, <1>5, <1>6 DEF LogInv

\* A step that moves a connection on without an event.
LEMMA LogQuiet ==
  ASSUME ConnInv, LogInv, NEW c \in Conn, UNCHANGED <<pending, progress>>,
         \A d \in Conn : d # c => stage'[d] = stage[d],
         stage'[c] # "ended",
         stage'[c] \in {"unused", "accepted", "queued", "served", "over"}
           => pending[c] = <<>>
  PROVE  LogInv' /\ \A g \in Recorder : Len(pending'[g]) >= Len(pending[g])
<1>1. ASSUME NEW d \in Conn PROVE ConnSound(d)'
  BY <1>1 DEF LogInv, ConnSound, AtMostOne
<1>2. ASSUME NEW r \in Call PROVE CallSound(r)'
  BY DEF LogInv, CallSound, AtMostOne
<1>3. \A g \in Recorder : Len(pending[g]) \in Nat
  BY DEF ConnInv, Types
<1> QED BY <1>1, <1>2, <1>3 DEF LogInv

LEMMA LogPassing ==
  ASSUME ConnInv, LogInv, NEW c \in Conn, Passing(c)
  PROVE  LogInv' /\ \A g \in Recorder : Len(pending'[g]) >= Len(pending[g])
<1> USE DEF ConnInv
<1>1. /\ UNCHANGED <<pending, progress>>
      /\ \A d \in Conn : d # c => stage'[d] = stage[d]
  BY DEF Passing, Accept, Push, Discard, ForgetTransport, RestEnds, Become, Types,
         recorderVars, logVars
<1>2. stage'[c] # "ended" /\ pending[c] = <<>>
  BY DEF Passing, Accept, Push, Discard, ForgetTransport, RestEnds, Become, Types,
         Returned, LogInv, ConnSound
<1> QED BY <1>1, <1>2, LogQuiet

LEMMA LogTake ==
  ASSUME ConnInv, LogInv, NEW s \in {"h2", "http/1.1"}, Take(s)
  PROVE  LogInv' /\ \A g \in Recorder : Len(pending'[g]) >= Len(pending[g])
<1> USE DEF ConnInv
<1>1. PICK c \in Conn : c = Head(queue[s]) /\ stage[c] = "queued"
  BY Headed
<1>2. stage' = [stage EXCEPT ![c] = "served"] /\ UNCHANGED <<pending, progress>>
  BY <1>1 DEF Take, Become, recorderVars
<1>3. pending[c] = <<>>
  BY <1>1 DEF LogInv, ConnSound
<1>4. stage'[c] = "served" /\ \A d \in Conn : d # c => stage'[d] = stage[d]
  BY <1>2 DEF Types
<1> QED BY <1>2, <1>3, <1>4, LogQuiet

\* A step of an RPC: its goroutine has nothing under way.
LEMMA LogRpc ==
  ASSUME ConnInv, LogInv, NEW r \in Call, RpcStep(r)
  PROVE  LogInv' /\ \A g \in Recorder : Len(pending'[g]) >= Len(pending[g])
<1> USE DEF ConnInv
<1>1. /\ UNCHANGED stage
      /\ \A q \in Call : q # r => progress'[q] = progress[q]
  BY RpcChanges
<1>2. Carrier[r] \in Conn /\ CallSound(r)
  BY Recorders DEF LogInv
<1>3. progress'[r] # "none" /\ AtMostOne(Carrier[r], Final)
  <2>1. CASE TagRPC(r)
    BY <1>2, <2>1 DEF TagRPC, Reach, Types, Carries, Returned, LogInv, ConnSound,
                      AtMostOne
  <2>2. CASE ~ TagRPC(r)
    <3>1. progress[r] # "none" /\ progress'[r] # "none"
      BY <2>2 DEF RpcStep, BeginRPC, EnterHandler, HandlerMessage,
                  SenderMessage, EndRPC, Reach, Types
    <3> QED BY <1>2, <3>1 DEF CallSound
  <2> QED BY <2>1, <2>2
<1>4. ASSUME NEW g \in {Handler(r), Sender(r)}, NEW kind \in Kind,
             pending[g] = <<>>, Record(g, Carrier[r], kind, given[Carrier[r]]),
             progress'[r] \in {"handled", "ended"} => kind \in Final,
             g = Sender(r) => progress'[r] \in {"handled", "ended"},
             progress'[r] \in {"handled", "ended"} =>
               AtMostOne(Handler(r), Final) \/ g = Handler(r),
             progress[r] \in {"handled", "ended"} => progress'[r] \in {"handled", "ended"}
      PROVE  LogInv' /\ \A h \in Recorder : Len(pending'[h]) >= Len(pending[h])
  <2>1. /\ g \in Recorder
        /\ Handler(r) # Sender(r) /\ Carrier[r] # g
    BY <1>2, Recorders
  <2>2. /\ pending'[g] = <<kind>>
        /\ \A h \in Recorder \ {g} : pending'[h] = pending[h]
    BY <1>4, <2>1, RecordOne
  <2>3. ASSUME NEW d \in Conn PROVE ConnSound(d)'
    <3>1. pending'[d] = pending[d]
      BY <2>2, Recorders
    <3> QED BY <1>1, <3>1 DEF LogInv, ConnSound, AtMostOne
  <2>4. CallSound(r)'
    <3>1. pending'[Carrier[r]] = pending[Carrier[r]]
      BY <1>2, <2>1, <2>2, Recorders
    <3>2. CASE g = Handler(r)
      <4>1. pending'[Sender(r)] = pending[Sender(r)]
        BY <2>1, <2>2, <3>2, Recorders
      <4> QED BY <1>2, <1>3, <1>4, <2>2, <3>1, <3>2, <4>1 DEF CallSound, AtMostOne
    <3>3. CASE g = Sender(r)
      <4>1. pending'[Handler(r)] = pending[Handler(r)]
        BY <2>1, <2>2, <3>3, Recorders
      <4> QED BY <1>2, <1>3, <1>4, <2>1, <2>2, <3>1, <3>3, <4>1
              DEF CallSound, AtMostOne
    <3> QED BY <3>2, <3>3
  <2>5. ASSUME NEW q \in Call, q # r PROVE CallSound(q)'
    <3>1. /\ pending'[Handler(q)] = pending[Handler(q)]
          /\ pending'[Sender(q)] = pending[Sender(q)]
          /\ pending'[Carrier[q]] = pending[Carrier[q]]
      BY <2>2, <2>5, Recorders
    <3> QED BY <1>1, <2>5, <3>1 DEF LogInv, CallSound, AtMostOne
  <2>6. ASSUME NEW h \in Recorder PROVE Len(pending'[h]) >= Len(pending[h])
    <3>1. pending[h] \in Seq(Kind)
      BY DEF Types
    <3>2. CASE h = g
      BY <1>4, <2>2, <3>2
    <3>3. CASE h # g
      BY <2>2, <3>1, <3>3
    <3> QED BY <3>2, <3>3
  <2> QED BY <2>3, <2>4, <2>5, <2>6 DEF LogInv
<1>5. CASE TagRPC(r) \/ BeginRPC(r)
  <2>1. \E kind \in Kind : RecordRpc(Handler(r), r, kind)
    BY <1>5 DEF TagRPC, BeginRPC, Kind
  <2>2. PICK kind \in Kind : RecordRpc(Handler(r), r, kind)
    BY <2>1
  <2>3. pending[Handler(r)] = <<>> /\ progress'[r] \in {"tagged", "begun"}
        /\ progress[r] \in {"none", "tagged"}
    BY <1>2, <1>5 DEF TagRPC, BeginRPC, Reach, Returned, CallSound, Types
  <2> QED BY <1>4, <2>2, <2>3, Recorders DEF RecordRpc
<1>6. CASE EnterHandler(r)
  <2>1. UNCHANGED pending /\ pending[Handler(r)] = <<>> /\ progress'[r] = "handled"
        /\ pending[Sender(r)] = <<>>
    BY <1>2, <1>6 DEF EnterHandler, recorderVars, Returned, Reach, Types, CallSound
  <2>2. \A d \in Conn : ConnSound(d)'
    BY <1>1, <2>1 DEF LogInv, ConnSound, AtMostOne
  <2>3. \A q \in Call : CallSound(q)'
    BY <1>1, <1>3, <2>1 DEF LogInv, CallSound, AtMostOne
  <2>4. \A g \in Recorder : Len(pending[g]) \in Nat
    BY DEF Types
  <2> QED BY <2>1, <2>2, <2>3, <2>4 DEF LogInv
<1>7. CASE HandlerMessage(r) \/ EndRPC(r)
  <2>1. \E kind \in Final : RecordRpc(Handler(r), r, kind)
    BY <1>7 DEF HandlerMessage, EndRPC, Final
  <2>2. PICK kind \in Final : Record(Handler(r), Carrier[r], kind, given[Carrier[r]])
    BY <2>1 DEF RecordRpc
  <2>3. pending[Handler(r)] = <<>> /\ progress'[r] \in {"handled", "ended"}
    BY <1>7 DEF HandlerMessage, EndRPC, Returned, Reach, Types
  <2>4. kind \in Kind /\ Handler(r) # Sender(r)
    BY Recorders DEF Final, Kind
  <2> QED BY <1>4, <2>2, <2>3, <2>4
<1>8. CASE SenderMessage(r)
  <2>1. /\ Record(Sender(r), Carrier[r], "grpc_message", given[Carrier[r]])
        /\ "grpc_message" \in Final /\ "grpc_message" \in Kind
    BY <1>8 DEF SenderMessage, RecordRpc, Final, Kind
  <2>2. /\ pending[Sender(r)] = <<>> /\ progress'[r] \in {"handled", "ended"}
        /\ AtMostOne(Handler(r), Final)
    BY <1>2, <1>8 DEF SenderMessage, Returned, CallSound
  <2> QED BY <1>4, <2>1, <2>2
<1> QED BY <1>5, <1>6, <1>7, <1>8 DEF RpcStep

LEMMA LogWrite ==
  ASSUME ConnInv, LogInv, NEW g \in Recorder, Write(g)
  PROVE  LogInv'
<1>1. AtMostOne(g, Kind)
  BY Recorders DEF LogInv, ConnSound, CallSound
<1>2. /\ pending'[g] = <<>>
      /\ \A h \in Recorder \ {g} : pending'[h] = pending[h]
      /\ UNCHANGED <<stage, progress>>
  BY <1>1, WriteOne DEF ConnInv
<1>3. ASSUME NEW h \in Recorder, NEW kinds, AtMostOne(h, kinds)
      PROVE  AtMostOne(h, kinds)'
  BY <1>2, <1>3 DEF AtMostOne
<1>4. ASSUME NEW h \in Recorder, pending[h] = <<>> PROVE pending'[h] = <<>>
  BY <1>2, <1>4
<1>5. ASSUME NEW d \in Conn PROVE ConnSound(d)'
  BY <1>2, <1>3, <1>4, Recorders DEF LogInv, ConnSound
<1>6. ASSUME NEW r \in Call PROVE CallSound(r)'
  BY <1>2, <1>3, <1>4, Recorders DEF LogInv, CallSound
<1> QED BY <1>5, <1>6 DEF LogInv

LEMMA LogStep ==
  ASSUME ConnInv, LogInv, [Next]_vars
  PROVE  /\ LogInv'
         /\ \A g \in Recorder : Len(pending'[g]) < Len(pending[g]) => Write(g)
<1>1. \A g \in Recorder : Len(pending[g]) \in Nat
  BY DEF ConnInv, Types
<1>2. \A g \in Recorder : Len(pending'[g]) \in Nat
  BY ConnStep DEF ConnInv, Types
<1>3. CASE LogInv' /\ \A g \in Recorder : Len(pending'[g]) >= Len(pending[g])
  BY <1>1, <1>2, <1>3
<1>4. ASSUME NEW h \in Recorder, Write(h)
      PROVE  \A g \in Recorder : Len(pending'[g]) < Len(pending[g]) => g = h
  <2>1. \A g \in Recorder \ {h} : pending'[g] = pending[g]
    BY <1>4 DEF Write, AppendLine, ConnInv, Types
  <2> QED BY <1>1, <2>1
<1>5. CASE UNCHANGED vars
  BY <1>1, <1>5 DEF vars, connVars, recorderVars, LogInv, ConnSound, CallSound,
                    AtMostOne
<1> QED BY <1>3, <1>4, <1>5, LogRecording, LogPassing, LogTake, LogRpc, LogWrite,
           Cases DEF ConnInv

\* A line that is written: what led to its event is in the log.
LEMMA LineInOrder ==
  ASSUME ConnInv, LogInv, NEW g \in Recorder, Write(g)
  PROVE  /\ pending'[g] = Tail(pending[g])
         /\ \A h \in Causes(g) : ToSet(pending[h]) \subseteq Final
<1>1. AtMostOne(g, Kind)
  BY Recorders DEF LogInv, ConnSound, CallSound
<1>2. pending'[g] = Tail(pending[g]) /\ pending[g] # <<>>
  <2>1. pending'[g] = Tail(pending[g])
    BY <1>1, WriteOne DEF ConnInv
  <2>2. DOMAIN pending[g] # {}
    BY DEF Write, AppendLine
  <2> QED BY <2>1, <2>2
<1>3. ASSUME NEW h \in Causes(g) PROVE AtMostOne(h, Final)
  <2>1. PICK r \in Call : \/ h = Carrier[r] /\ g \in {Handler(r), Sender(r)}
                          \/ h = Handler(r) /\ g = Sender(r)
    BY DEF Causes
  <2>2. CallSound(r)
    BY DEF LogInv
  <2>3. progress[r] # "none" /\ (g = Sender(r) => progress[r] \in {"handled", "ended"})
    BY <1>2, <2>1, <2>2 DEF CallSound
  <2> QED BY <2>1, <2>2, <2>3 DEF CallSound
<1>4. ASSUME NEW h, AtMostOne(h, Final) PROVE ToSet(pending[h]) \subseteq Final
  <2>1. CASE pending[h] = <<>>
    BY <2>1 DEF ToSet
  <2>2. ASSUME NEW kind \in Final, pending[h] = <<kind>>
        PROVE  ToSet(pending[h]) \subseteq Final
    BY <2>2 DEF ToSet
  <2> QED BY <1>4, <2>1, <2>2 DEF AtMostOne
<1> QED BY <1>2, <1>3, <1>4

(***************************************************************************)
(* For every number of connections, and of RPCs on each of them, whose     *)
(* goroutines record at the same time: no line of the log overtakes one of *)
(* its own goroutine, nor the lines that began its transport and its RPC   *)
(* (record, observability.go:88).                                          *)
(***************************************************************************)
THEOREM LogInOrder == Spec => LinesInOrder
<1>1. Init => ConnInv /\ LogInv
  <2>1. ASSUME Init PROVE LogInv
    BY <2>1, Recorders
    DEF Init, RecorderInit, LogInv, ConnSound, CallSound, AtMostOne
  <2> QED BY <2>1, ConnInit
<1>2. ConnInv /\ LogInv /\ [Next]_vars => ConnInv' /\ LogInv'
  BY ConnStep, LogStep
<1>3. ConnInv /\ LogInv /\ [Next]_vars =>
        [\A g \in Recorder : Len(pending'[g]) < Len(pending[g]) =>
           /\ pending'[g] = Tail(pending[g])
           /\ \A h \in Causes(g) : ToSet(pending[h]) \subseteq Final]_vars
  BY LogStep, LineInOrder
<1> QED BY <1>1, <1>2, <1>3, PTL DEF Spec, LinesInOrder

-----------------------------------------------------------------------------
\* What a step of one connection leaves to the others.
LEMMA OthersOfRecording ==
  ASSUME Types, NEW c \in Conn, NEW kind \in Kind,
         NEW id \in {given[c], FoundId(c)}, Recording(c, kind, id)
  PROVE  /\ Open(c) /\ Open(c)' /\ shared' = shared
         /\ \A a \in Address : a # Remote[c] => connections'[a] = connections[a]
         /\ \A d \in Conn : d # c =>
              /\ stage'[d] = stage[d] /\ proto'[d] = proto[d]
              /\ given'[d] = given[d] /\ used'[d] = used[d]
<1>1. Open(c) /\ Open(c)' /\ shared' = shared
  BY DEF Recording, Register, Hello, HandshakeFails, HandshakeSucceeds,
         UnsupportedAlpn, TagConn, ConnBegin, ConnEnd, Open, Become, Types
<1>2. ASSUME NEW a \in Address, a # Remote[c]
      PROVE  connections'[a] = connections[a]
  BY <1>2 DEF Recording, Register, Hello, HandshakeFails, HandshakeSucceeds,
         UnsupportedAlpn, TagConn, ConnBegin, ConnEnd, Types, Store, LookUp, idVars
<1>3. ASSUME NEW d \in Conn, d # c
      PROVE  /\ stage'[d] = stage[d] /\ proto'[d] = proto[d]
             /\ given'[d] = given[d] /\ used'[d] = used[d]
  BY <1>3 DEF Recording, Record, Register, Hello, HandshakeFails, HandshakeSucceeds,
         UnsupportedAlpn, TagConn, ConnBegin, ConnEnd, Become, Types
<1> QED BY <1>1, <1>2, <1>3

LEMMA OthersOfPassing ==
  ASSUME Types, NEW c \in Conn, Passing(c)
  PROVE  /\ Open(c) \/ connections' = connections
         /\ shared \subseteq shared'
         /\ \A a \in Address : a # Remote[c] => connections'[a] = connections[a]
         /\ \A d \in Conn : d # c =>
              /\ stage'[d] = stage[d] /\ proto'[d] = proto[d]
              /\ given'[d] = given[d] /\ used'[d] = used[d]
<1>1. Open(c) \/ connections' = connections
  BY DEF Passing, Accept, Push, Discard, ForgetTransport, RestEnds, Open
<1>2. shared \subseteq shared'
  BY DEF Passing, Accept, Push, Discard, ForgetTransport, RestEnds
<1>3. ASSUME NEW a \in Address, a # Remote[c]
      PROVE  connections'[a] = connections[a]
  BY <1>3 DEF Passing, Accept, Push, Discard, ForgetTransport, RestEnds, Types,
              ForgetConnection, recorderVars
<1>4. ASSUME NEW d \in Conn, d # c
      PROVE  /\ stage'[d] = stage[d] /\ proto'[d] = proto[d]
             /\ given'[d] = given[d] /\ used'[d] = used[d]
  BY <1>4 DEF Passing, Accept, Push, Discard, ForgetTransport, RestEnds, Become, Types,
              recorderVars, logVars
<1> QED BY <1>1, <1>2, <1>3, <1>4

LEMMA IdApart ==
  ASSUME Types, SharedInv, IdInv, NEW c \in Conn, NEW d \in Conn, d # c,
         Open(c) \/ connections' = connections, shared \subseteq shared',
         \A a \in Address : a # Remote[c] => connections'[a] = connections[a],
         stage'[d] = stage[d], given'[d] = given[d], used'[d] = used[d]
  PROVE  IdSound(d)'
<1>1. SUFFICES ASSUME d \notin shared'
               PROVE  IdSound(d)'
  BY DEF IdSound
<1>2. d \notin shared /\ IdSound(d)
  BY <1>1 DEF IdInv
<1>3. Remote[d] \in Address
  BY RecorderAssumption
<1>4. stage[d] \notin {"unused", "accepted", "over"}
        => connections'[Remote[d]] = connections[Remote[d]]
  BY <1>2, <1>3 DEF SharedInv, Peers, Open
<1> QED BY <1>2, <1>4 DEF IdSound

LEMMA IdRecording ==
  ASSUME Types, SharedInv, IdInv, NEW c \in Conn, NEW kind \in Kind,
         NEW id \in {given[c], FoundId(c)}, Recording(c, kind, id)
  PROVE  IdInv'
<1>1. ASSUME NEW d \in Conn, d # c PROVE IdSound(d)'
  BY <1>1, OthersOfRecording, IdApart
<1>2. IdSound(c)'
  <2>1. SUFFICES ASSUME c \notin shared
                 PROVE  IdSound(c)'
    BY OthersOfRecording DEF IdSound
  <2>2. IdSound(c) /\ Remote[c] \in Address
    BY RecorderAssumption DEF IdInv
  <2>3. stage[c] \notin {"unused", "over"} /\ stage'[c] \notin {"unused", "accepted", "over"}
    BY DEF Recording, Register, Hello, HandshakeFails, HandshakeSucceeds,
           UnsupportedAlpn, TagConn, ConnBegin, ConnEnd, Become, Types
  <2>4. given[c] # NoId
    BY <2>1, <2>2, <2>3 DEF IdSound
  <2>5. used' = [used EXCEPT ![c] = @ \cup {id}]
    BY DEF Recording, Record, Register, Hello, HandshakeFails, HandshakeSucceeds,
           UnsupportedAlpn, TagConn, ConnBegin, ConnEnd
  <2>6. CASE Register(c)
    <3>1. id = given[c] /\ given' = given
      BY <2>6 DEF Register, Recording, Hello, HandshakeFails, HandshakeSucceeds,
                  UnsupportedAlpn, TagConn, ConnBegin, ConnEnd, Become, Types
    <3>2. connections'[Remote[c]] = given[c]
      BY <2>2, <2>6 DEF Register, Store, Types
    <3>3. used[c] \subseteq {given[c]}
      BY <2>1, <2>2 DEF IdSound
    <3>4. used'[c] \subseteq {given'[c]}
      BY <2>5, <3>1, <3>3 DEF Types
    <3> QED BY <2>3, <2>4, <3>1, <3>2, <3>4 DEF IdSound
  <2>7. CASE ~ Register(c)
    <3>1. stage[c] \notin {"unused", "accepted", "over"}
      BY <2>7 DEF Recording, Hello, HandshakeFails, HandshakeSucceeds,
                  UnsupportedAlpn, TagConn, ConnBegin, ConnEnd
    <3>2. connections[Remote[c]] = given[c]
      BY <2>1, <2>2, <3>1 DEF IdSound
    <3>3. Known(c) /\ FoundId(c) = given[c]
      BY <2>4, <3>2 DEF Known, FoundId
    <3>4. connections' = connections
      BY <2>7, <3>3 DEF Recording, Hello, HandshakeFails, HandshakeSucceeds,
                  UnsupportedAlpn, TagConn, ConnBegin, ConnEnd, LookUp, idVars
    <3>5. given'[c] = given[c]
      BY <2>7, <3>3 DEF Recording, Hello, HandshakeFails, HandshakeSucceeds,
                  UnsupportedAlpn, TagConn, ConnBegin, ConnEnd, Types
    <3>6. used[c] \subseteq {given[c]} /\ id = given[c]
      BY <2>1, <2>2, <3>3 DEF IdSound
    <3>7. used'[c] \subseteq {given'[c]}
      BY <2>5, <3>5, <3>6 DEF Types
    <3> QED BY <2>3, <2>4, <3>2, <3>4, <3>5, <3>7 DEF IdSound
  <2> QED BY <2>6, <2>7
<1> QED BY <1>1, <1>2 DEF IdInv

LEMMA IdPassing ==
  ASSUME Types, SharedInv, IdInv, NEW c \in Conn, Passing(c)
  PROVE  IdInv'
<1>1. ASSUME NEW d \in Conn, d # c PROVE IdSound(d)'
  BY <1>1, OthersOfPassing, IdApart
<1>2. IdSound(c)'
  <2>1. SUFFICES ASSUME c \notin shared'
                 PROVE  IdSound(c)'
    BY DEF IdSound
  <2>2. c \notin shared /\ IdSound(c)
    BY <2>1, OthersOfPassing DEF IdInv
  <2>3. CASE Accept(c)
    <3>1. stage[c] = "unused" /\ stage'[c] = "accepted" /\ used' = used
          /\ given'[c] = connectionSeq + 1
      BY <2>3 DEF Accept, Become, Types, logVars
    <3>2. connectionSeq + 1 # NoId
      BY DEF Types, NoId
    <3> QED BY <2>2, <3>1, <3>2 DEF IdSound
  <2>4. CASE Push(c)
    BY <2>2, <2>4 DEF Push, Become, Types, recorderVars, IdSound
  <2>5. CASE Discard(c) \/ ForgetTransport(c) \/ RestEnds(c)
    BY <2>2, <2>5 DEF Discard, ForgetTransport, RestEnds, Become, Types, recorderVars,
                      logVars, IdSound
  <2> QED BY <2>3, <2>4, <2>5 DEF Passing
<1> QED BY <1>1, <1>2 DEF IdInv

\* An event of an RPC has the id its transport was given.
LEMMA IdRpc ==
  ASSUME ConnInv, IdInv, NEW r \in Call, RpcStep(r)
  PROVE  IdInv'
<1> USE DEF ConnInv
<1>1. UNCHANGED <<stage, given, shared, connections>>
  BY RpcChanges DEF idVars
<1>2. Carrier[r] \in Conn /\ stage[Carrier[r]] \notin {"unused", "accepted"}
  <2>1. progress[r] # "none" \/ Carries(Carrier[r])
    BY DEF RpcStep, TagRPC, BeginRPC, EnterHandler, HandlerMessage,
           SenderMessage, EndRPC
  <2> QED BY <2>1, Recorders DEF Carries, CallsCarried
<1>3. ASSUME NEW d \in Conn
      PROVE  \/ used'[d] = used[d]
             \/ d = Carrier[r] /\ used'[d] = used[d] \cup {given[d]}
  BY RpcChanges DEF logVars, Record, Types
<1> QED BY <1>1, <1>2, <1>3 DEF IdInv, IdSound

LEMMA IdTake ==
  ASSUME Types, QueueInv, IdInv, NEW s \in {"h2", "http/1.1"}, Take(s)
  PROVE  IdInv'
<1>1. Head(queue[s]) \in Conn /\ stage[Head(queue[s])] = "queued"
  BY Headed
<1>2. stage' = [stage EXCEPT ![Head(queue[s])] = "served"]
      /\ UNCHANGED <<given, used, connections, shared>>
  BY DEF Take, Become, recorderVars
<1>3. ASSUME NEW d \in Conn PROVE IdSound(d)'
  <2>1. CASE d = Head(queue[s])
    BY <1>1, <1>2, <2>1 DEF Types, IdInv, IdSound
  <2>2. CASE d # Head(queue[s])
    BY <1>1, <1>2, <2>2 DEF Types, IdInv, IdSound
  <2> QED BY <2>1, <2>2
<1> QED BY <1>3 DEF IdInv

\* Whoever was open before a step, and whoever a step accepts.
LEMMA SharedStep ==
  ASSUME ConnInv, SharedInv, [Next]_vars
  PROVE  SharedInv'
<1> USE DEF ConnInv
<1>1. ASSUME shared' = shared, \A d \in Conn : Open(d)' => Open(d)
      PROVE  SharedInv'
  BY <1>1 DEF SharedInv
<1>2. ASSUME NEW c \in Conn, NEW kind \in Kind,
             NEW id \in {given[c], FoundId(c)}, Recording(c, kind, id)
      PROVE  SharedInv'
  <2>1. \A d \in Conn : Open(d)' => Open(d)
    BY <1>2, OthersOfRecording DEF Open
  <2> QED BY <1>1, <1>2, <2>1, OthersOfRecording
<1>3. ASSUME NEW c \in Conn, Passing(c)
      PROVE  SharedInv'
  <2>1. CASE Accept(c)
    <3> DEFINE peers == {d \in Conn : Open(d) /\ Remote[d] = Remote[c]}
    <3>1. shared' = (shared \cup peers) \cup (IF peers = {} THEN {} ELSE {c})
      BY <2>1 DEF Accept
    <3>2. \A d \in Conn : d # c => (Open(d)' <=> Open(d))
      BY <1>3, OthersOfPassing DEF Open
    <3>3. ASSUME NEW d \in Conn, d # c, Remote[d] = Remote[c], Open(d)
          PROVE  c \in shared' /\ d \in shared'
      <4>1. d \in peers
        BY <3>3
      <4> QED BY <3>1, <4>1
    <3> QED BY <3>1, <3>2, <3>3 DEF SharedInv, Peers
  <2>2. CASE ~ Accept(c)
    <3>1. shared' = shared /\ Open(c)
      BY <1>3, <2>2 DEF Passing, Push, Discard, ForgetTransport, RestEnds, Open
    <3>2. \A d \in Conn : Open(d)' => Open(d)
      BY <1>3, <3>1, OthersOfPassing DEF Open
    <3> QED BY <1>1, <3>1, <3>2
  <2> QED BY <2>1, <2>2
<1>4. ASSUME NEW s \in {"h2", "http/1.1"}, Take(s)
      PROVE  SharedInv'
  <2>1. \A d \in Conn : Open(d)' => Open(d)
    BY <1>4, Headed DEF Take, Become, Types, Open
  <2> QED BY <1>1, <1>4, <2>1 DEF Take
<1>5. ASSUME NEW g \in Recorder, Write(g)
      PROVE  SharedInv'
  BY <1>1, <1>5 DEF Write, connVars, Open
<1>6. ASSUME NEW r \in Call, RpcStep(r)
      PROVE  SharedInv'
  BY <1>1, <1>6, RpcChanges DEF Open
<1>7. CASE UNCHANGED vars
  BY <1>1, <1>7 DEF vars, connVars, Open
<1> QED BY <1>2, <1>3, <1>4, <1>5, <1>6, <1>7, Cases

LEMMA IdStep ==
  ASSUME ConnInv, SharedInv, IdInv, [Next]_vars
  PROVE  IdInv'
<1> USE DEF ConnInv
<1>1. ASSUME NEW g \in Recorder, Write(g)
      PROVE  IdInv'
  BY <1>1 DEF Write, AppendLine, connVars, idVars, IdInv, IdSound
<1>2. CASE UNCHANGED vars
  BY <1>2 DEF vars, connVars, recorderVars, IdInv, IdSound
<1>3. ASSUME NEW r \in Call, RpcStep(r)
      PROVE  IdInv'
  <2> HIDE DEF ConnInv
  <2> QED BY <1>3, IdRpc
<1> QED BY <1>1, <1>2, <1>3, IdRecording, IdPassing, IdTake, Cases

\* A connection that shared its address with no other has one id in all its
\* events (connectionID, observability.go:131).
THEOREM OneId == Spec => []OneIdPerConnection
<1>1. Init => ConnInv /\ SharedInv /\ IdInv
  <2>1. Init => SharedInv
    BY DEF Init, SharedInv, Open
  <2>2. Init => IdInv
    BY DEF Init, RecorderInit, IdInv, IdSound
  <2> QED BY <2>1, <2>2, ConnInit
<1>2. ConnInv /\ SharedInv /\ IdInv /\ [Next]_vars => ConnInv' /\ SharedInv' /\ IdInv'
  BY ConnStep, SharedStep, IdStep
<1>3. IdInv => OneIdPerConnection
  <2>1. ASSUME IdInv, NEW c \in Conn, c \notin shared
        PROVE  Cardinality(used[c]) <= 1
    <3>1. used[c] = {} \/ used[c] = {given[c]}
      BY <2>1 DEF IdInv, IdSound
    <3>2. Cardinality({}) = 0 /\ Cardinality({given[c]}) = 1
      BY FS_EmptySet, FS_Singleton
    <3> QED BY <3>1, <3>2
  <2> QED BY <2>1 DEF OneIdPerConnection
<1> QED BY <1>1, <1>2, <1>3, PTL DEF Spec

-----------------------------------------------------------------------------
Forgotten(a) ==
  (\A c \in {d \in Conn : Remote[d] = a} : ~ Open(c) /\ proto[c] # "http/1.1")
    => connections[a] = NoId

LEMMA ForgottenStep ==
  ASSUME ConnInv, AddressesForgotten, [Next]_vars
  PROVE  AddressesForgotten'
<1> USE DEF ConnInv
<1>1. ASSUME NEW c \in Conn,
             \A a \in Address : a # Remote[c] => connections'[a] = connections[a],
             \A d \in Conn : d # c => stage'[d] = stage[d] /\ proto'[d] = proto[d],
             \/ Open(c)' \/ proto'[c] = "http/1.1" \/ connections'[Remote[c]] = NoId
      PROVE  AddressesForgotten'
  <2>1. ASSUME NEW a \in Address PROVE Forgotten(a)'
    <3>1. CASE a = Remote[c]
      BY <1>1, <3>1 DEF Forgotten
    <3>2. CASE a # Remote[c]
      <4>1. Forgotten(a)
        BY DEF AddressesForgotten, Forgotten
      <4> QED BY <1>1, <3>2, <4>1 DEF Forgotten, Open
    <3> QED BY <3>1, <3>2
  <2> QED BY <2>1 DEF AddressesForgotten, Forgotten
<1>2. ASSUME NEW c \in Conn, NEW kind \in Kind,
             NEW id \in {given[c], FoundId(c)}, Recording(c, kind, id)
      PROVE  AddressesForgotten'
  BY <1>1, <1>2, OthersOfRecording
<1>3. ASSUME NEW c \in Conn, Passing(c)
      PROVE  AddressesForgotten'
  <2>1. \/ Open(c)' \/ proto'[c] = "http/1.1" \/ connections'[Remote[c]] = NoId
    <3>1. Remote[c] \in Address
      BY RecorderAssumption
    <3>2. CASE Accept(c) \/ Push(c)
      BY <3>2 DEF Accept, Push, Become, Types, Open
    <3>3. CASE Discard(c) \/ ForgetTransport(c)
      BY <3>1, <3>3 DEF Discard, ForgetTransport, ForgetConnection, Types
    <3>4. CASE RestEnds(c)
      BY <3>4 DEF RestEnds
    <3> QED BY <1>3, <3>2, <3>3, <3>4 DEF Passing
  <2> QED BY <1>1, <1>3, <2>1, OthersOfPassing
<1>4. ASSUME NEW s \in {"h2", "http/1.1"}, Take(s)
      PROVE  AddressesForgotten'
  <2>1. PICK c \in Conn : c = Head(queue[s])
    BY <1>4, Headed
  <2>2. stage' = [stage EXCEPT ![c] = "served"]
    BY <1>4, <2>1 DEF Take, Become
  <2>3. Open(c)' /\ \A d \in Conn : d # c => stage'[d] = stage[d]
    BY <2>2 DEF Types, Open
  <2>4. connections' = connections /\ proto' = proto
    BY <1>4 DEF Take, recorderVars
  <2> QED BY <1>1, <2>3, <2>4
<1>5. ASSUME NEW g \in Recorder, Write(g)
      PROVE  AddressesForgotten'
  BY <1>5 DEF Write, connVars, idVars, AddressesForgotten, Open
<1>6. ASSUME NEW r \in Call, RpcStep(r)
      PROVE  AddressesForgotten'
  BY <1>6, RpcChanges DEF idVars, AddressesForgotten, Open
<1>7. CASE UNCHANGED vars
  BY <1>7 DEF vars, connVars, recorderVars, AddressesForgotten, Open
<1> QED BY <1>2, <1>3, <1>4, <1>5, <1>6, <1>7, Cases

\* The recorder keeps an address past its last connection only for a REST
\* connection (forgetConnection, observability.go:143).
THEOREM AddressesGo == Spec => []AddressesForgotten
<1>1. Init => ConnInv /\ AddressesForgotten
  <2>1. Init => AddressesForgotten
    BY DEF Init, RecorderInit, AddressesForgotten
  <2> QED BY <2>1, ConnInit
<1>2. ConnInv /\ AddressesForgotten /\ [Next]_vars => ConnInv' /\ AddressesForgotten'
  BY ConnStep, ForgottenStep
<1> QED BY <1>1, <1>2, PTL DEF Spec
=============================================================================
