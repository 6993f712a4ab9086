--------------------------- MODULE TlsConnections ---------------------------
(***************************************************************************)
(* What happens to a connection to port 443 (local.go): accepted, given an *)
(* id, put through the TLS handshake under a deadline, and handed over by  *)
(* ALPN to the gRPC server or to the REST server, each behind a channel of *)
(* bounded length.  The gRPC server reports the transport to the recorder, *)
(* and the RPCs that come on it, each from the goroutine it runs.          *)
(***************************************************************************)
EXTENDS ProbeRecorder

CONSTANT Backlog   \* length of a listener's channel

ASSUME BacklogAssumption == Backlog \in Nat \ {0}

Protocol == {"h2", "http/1.1", "other"}

VARIABLES
  stage,    \* where each connection is
  given,    \* the id its goroutine puts into events: connID, then the context's
  timed,    \* connections with a deadline on reads and writes
  proto,    \* the protocol its handshake agreed on
  queue,    \* chanListener.ch of the gRPC and of the REST server
  shared,   \* connections that were open along with one of the same address
  progress  \* how far each RPC is

connVars == <<stage, given, timed, proto, queue, shared, progress>>
vars     == <<connVars, recorderVars>>

Stage ==
  {"unused", "accepted", "registered", "greeted", "failed", "established",
   "refused", "queued", "served", "tagged", "begun", "ended", "over"}

Progress == {"none", "tagged", "begun", "handled", "ended"}

Open(c) == stage[c] \notin {"unused", "over"}

Init ==
  /\ RecorderInit
  /\ stage = [c \in Conn |-> "unused"]
  /\ given = [c \in Conn |-> NoId]
  /\ timed = {}
  /\ proto = [c \in Conn |-> "other"]
  /\ queue = [s \in {"h2", "http/1.1"} |-> <<>>]
  /\ shared = {}
  /\ progress = [r \in Call |-> "none"]

Become(c, s) == stage' = [stage EXCEPT ![c] = s]

-----------------------------------------------------------------------------
\* ln.Accept and the start of the connection's goroutine.
Accept(c) ==
  /\ stage[c] = "unused"
  /\ Become(c, "accepted")
  /\ given' = [given EXCEPT ![c] = connectionSeq + 1]
  /\ DrawId
  /\ LET peers == {d \in Conn : Open(d) /\ Remote[d] = Remote[c]}
     IN  shared' = shared \cup peers \cup (IF peers = {} THEN {} ELSE {c})
  /\ UNCHANGED <<timed, proto, queue, progress, connections, logVars>>

\* Fault: the handshake may take its time.
SetNoDeadline(c) == UNCHANGED timed

SetDeadline(c) == timed' = timed \cup {c}

Register(c) ==
  /\ stage[c] = "accepted"
  /\ Store(c, given[c])
  /\ Record(c, c, "tcp_accepted", given[c])
  /\ SetDeadline(c)
  /\ Become(c, "registered")
  /\ UNCHANGED <<given, proto, queue, shared, progress, connectionSeq>>

\* GetConfigForClient, once the client's hello is there.
Hello(c) ==
  /\ stage[c] = "registered" /\ Returned(c)
  /\ LookUp(c)
  /\ Record(c, c, "tls_client_hello", FoundId(c))
  /\ Become(c, "greeted")
  /\ UNCHANGED <<given, timed, proto, queue, shared, progress>>

HandshakeFails(c) ==
  /\ stage[c] \in {"registered", "greeted"} /\ Returned(c)
  /\ Record(c, c, "tls_handshake", given[c])
  /\ Become(c, "failed")
  /\ UNCHANGED <<given, timed, proto, queue, shared, progress, idVars>>

DeadlinePasses(c) == c \in timed /\ HandshakeFails(c)

HandshakeSucceeds(c) ==
  /\ stage[c] = "greeted" /\ Returned(c)
  /\ proto' \in {[proto EXCEPT ![c] = p] : p \in Protocol}
  /\ timed' = timed \ {c}
  /\ Record(c, c, "tls_handshake", given[c])
  /\ Become(c, "established")
  /\ UNCHANGED <<given, queue, shared, progress, idVars>>

\* push blocks while the channel is full.
Push(c) ==
  /\ stage[c] = "established" /\ Returned(c)
  /\ proto[c] # "other"
  /\ Len(queue[proto[c]]) < Backlog
  /\ queue' = [queue EXCEPT ![proto[c]] = Append(@, c)]
  /\ Become(c, "queued")
  /\ UNCHANGED <<given, timed, proto, shared, progress, recorderVars>>

UnsupportedAlpn(c) ==
  /\ stage[c] = "established" /\ Returned(c)
  /\ proto[c] = "other"
  /\ Record(c, c, "tls_unsupported_alpn", given[c])
  /\ Become(c, "refused")
  /\ UNCHANGED <<given, timed, proto, queue, shared, progress, idVars>>

\* Fault: a failed handshake is closed and that is all.
DiscardRefused(c) ==
  /\ stage[c] \in {"failed", "refused"} /\ Returned(c)
  /\ IF stage[c] = "refused" THEN ForgetConnection(c) ELSE UNCHANGED idVars
  /\ Become(c, "over")
  /\ UNCHANGED <<given, timed, proto, queue, shared, progress, logVars>>

\* forgetConnection and Close, when the handshake or the protocol failed.
Discard(c) ==
  /\ stage[c] \in {"failed", "refused"} /\ Returned(c)
  /\ ForgetConnection(c)
  /\ Become(c, "over")
  /\ UNCHANGED <<given, timed, proto, queue, shared, progress, logVars>>

-----------------------------------------------------------------------------
\* chanListener.Accept, called by the gRPC or the REST server.
Take(s) ==
  /\ queue[s] # <<>>
  /\ Become(Head(queue[s]), "served")
  /\ queue' = [queue EXCEPT ![s] = Tail(@)]
  /\ UNCHANGED <<given, timed, proto, shared, progress, recorderVars>>

TagConn(c) ==
  /\ stage[c] = "served" /\ proto[c] = "h2"
  /\ LookUp(c)
  /\ given' = [given EXCEPT ![c] = FoundId(c)]
  /\ Record(c, c, "grpc_transport_tagged", FoundId(c))
  /\ Become(c, "tagged")
  /\ UNCHANGED <<timed, proto, queue, shared, progress>>

ConnBegin(c) ==
  /\ stage[c] = "tagged" /\ Returned(c)
  /\ Record(c, c, "grpc_transport_begin", given[c])
  /\ Become(c, "begun")
  /\ UNCHANGED <<given, timed, proto, queue, shared, progress, idVars>>

ConnEnd(c) ==
  /\ stage[c] = "begun" /\ Returned(c)
  /\ Record(c, c, "grpc_transport_end", given[c])
  /\ Become(c, "ended")
  /\ UNCHANGED <<given, timed, proto, queue, shared, progress, idVars>>

ForgetTransport(c) ==
  /\ stage[c] = "ended" /\ Returned(c)
  /\ ForgetConnection(c)
  /\ Become(c, "over")
  /\ UNCHANGED <<given, timed, proto, queue, shared, progress, logVars>>

\* The REST server tells the recorder nothing.
RestEnds(c) ==
  /\ stage[c] = "served" /\ proto[c] = "http/1.1"
  /\ Become(c, "over")
  /\ UNCHANGED <<given, timed, proto, queue, shared, progress, recorderVars>>

-----------------------------------------------------------------------------
\* The transport has begun.  The server does not wait for its RPCs when the
\* transport ends.
Carries(c) ==
  \/ stage[c] = "begun" /\ Returned(c)
  \/ stage[c] = "ended"
  \/ stage[c] = "over" /\ proto[c] = "h2"

\* An event of an RPC has the id of its transport's context.
RecordRpc(g, r, kind) ==
  /\ Record(g, Carrier[r], kind, given[Carrier[r]])
  /\ UNCHANGED <<stage, given, timed, proto, queue, shared, idVars>>

Reach(r, p) == progress' = [progress EXCEPT ![r] = p]

TagRPC(r) ==
  /\ progress[r] = "none"
  /\ Carries(Carrier[r])
  /\ RecordRpc(Handler(r), r, "grpc_rpc_tagged")
  /\ Reach(r, "tagged")

BeginRPC(r) ==
  /\ progress[r] = "tagged" /\ Returned(Handler(r))
  /\ RecordRpc(Handler(r), r, "grpc_rpc_begin")
  /\ Reach(r, "begun")

\* The handler is called: it may give its stream to others (addSubscriber).
EnterHandler(r) ==
  /\ progress[r] = "begun" /\ Returned(Handler(r))
  /\ Reach(r, "handled")
  /\ UNCHANGED <<stage, given, timed, proto, queue, shared, recorderVars>>

\* RecvMsg or SendMsg by the handler.
HandlerMessage(r) ==
  /\ progress[r] = "handled" /\ Returned(Handler(r))
  /\ RecordRpc(Handler(r), r, "grpc_message")
  /\ UNCHANGED progress

\* SendMsg by whoever has the mutex of the subscriber, perhaps too late.
SenderMessage(r) ==
  /\ progress[r] \in {"handled", "ended"} /\ Returned(Sender(r))
  /\ RecordRpc(Sender(r), r, "grpc_message")
  /\ UNCHANGED progress

\* After the handler, or without it when the request cannot be decoded.
EndRPC(r) ==
  /\ progress[r] \in {"begun", "handled"} /\ Returned(Handler(r))
  /\ RecordRpc(Handler(r), r, "grpc_rpc_end")
  /\ Reach(r, "ended")

RpcStep(r) ==
  \/ TagRPC(r) \/ BeginRPC(r) \/ EnterHandler(r)
  \/ HandlerMessage(r) \/ SenderMessage(r) \/ EndRPC(r)

-----------------------------------------------------------------------------
Write(g) == AppendLine(g) /\ UNCHANGED <<connVars, idVars>>

\* What the server does by itself, whatever the client does.
ServerStep(c) ==
  \/ Register(c) \/ Push(c)      \/ UnsupportedAlpn(c) \/ Discard(c)
  \/ TagConn(c)  \/ ConnBegin(c) \/ ForgetTransport(c) \/ Write(c)

Next ==
  \/ \E c \in Conn :
       \/ Accept(c) \/ Hello(c) \/ HandshakeFails(c) \/ HandshakeSucceeds(c)
       \/ ConnEnd(c) \/ RestEnds(c) \/ ServerStep(c)
  \/ \E s \in DOMAIN queue : Take(s)
  \/ \E r \in Call :
       RpcStep(r) \/ Write(Handler(r)) \/ Write(Sender(r))

Spec == Init /\ [][Next]_vars

\* Goroutines run, mutexes are granted, deadlines pass, and both servers go
\* on accepting.
Fairness ==
  /\ \A c \in Conn : WF_vars(ServerStep(c)) /\ WF_vars(DeadlinePasses(c))
  /\ \A s \in {"h2", "http/1.1"} : WF_vars(Take(s))

FairSpec == Spec /\ Fairness
-----------------------------------------------------------------------------
(***************************************************************************)
(* All events of a connection carry the id it was registered with, as long *)
(* as no other connection of the same remote address was open meanwhile:   *)
(* the id is found again by that address (connectionID,                    *)
(* observability.go:131), which an earlier connection may have left behind *)
(* and an ending one removes.                                              *)
(***************************************************************************)
OneIdPerConnection ==
  \A c \in Conn : c \notin shared => Cardinality(used[c]) <= 1

(***************************************************************************)
(* When all connections of an address are over, the recorder remembers the *)
(* address only for a REST connection, which it is never told the end of   *)
(* (local.go:152, 187; observability.go:291).                              *)
(***************************************************************************)
AddressesForgotten ==
  \A a \in Address :
    LET peers == {c \in Conn : Remote[c] = a}
    IN  (\A c \in peers : ~ Open(c) /\ proto[c] # "http/1.1")
          => connections[a] = NoId

\* Goroutines whose events may have led to those of another, and the kinds
\* of event that nothing waits for.
Causes(g) ==
  {Carrier[r] : r \in {q \in Call : g \in {Handler(q), Sender(q)}}}
    \cup {Handler(r) : r \in {q \in Call : g = Sender(q)}}
Final == {"grpc_transport_end", "grpc_message", "grpc_rpc_end"}

(***************************************************************************)
(* No line of the log comes before the line of an event that its own event *)
(* followed, although the number is drawn before the mutex is taken        *)
(* (record, observability.go:88): the lines of a goroutine are in the      *)
(* order of their numbers; the events of an RPC come after the ones that   *)
(* began its transport; and what others send on its stream comes after the *)
(* ones that began the RPC.  The lines of goroutines that run at the same  *)
(* time, be it for one connection, may be in any order.                    *)
(***************************************************************************)
LinesInOrder ==
  [][\A g \in Recorder : Len(pending'[g]) < Len(pending[g]) =>
       /\ pending'[g] = Tail(pending[g])
       /\ \A h \in Causes(g) : ToSet(pending[h]) \subseteq Final]_vars

(***************************************************************************)
(* A connection does not stay in the accepting goroutine: it reaches its   *)
(* server or is closed, although its client may never finish the handshake *)
(* (SetDeadline, local.go:139) and its server's channel may be full        *)
(* (push, local.go:37).                                                    *)
(***************************************************************************)
LeavesDemultiplexer ==
  \A c \in Conn : stage[c] = "accepted" ~> stage[c] \in {"served", "over"}
=============================================================================
