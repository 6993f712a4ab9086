---------------------------- MODULE ProbeRecorder ----------------------------
(***************************************************************************)
(* The probe recorder (observability.go): the id it gives to a connection, *)
(* found again by the remote address, and the event log.  An event draws   *)
(* its number first and is appended under a mutex later: the goroutine     *)
(* that records it waits for that, the other ones may come in between.     *)
(* Several goroutines record events with the id of one connection: the one *)
(* that has the connection, one for each RPC that comes on it, and others  *)
(* that send on the RPC's stream.                                          *)
(***************************************************************************)
EXTENDS Integers, FiniteSets, Sequences, SequencesExt

CONSTANTS
  Conn,      \* TCP connections, each with the address it comes from
  Address,
  Remote,
  Call,      \* RPCs, each with the connection it comes on
  Carrier

Handler(r) == <<r, "handler">>  \* the goroutine of an RPC
Sender(r)  == <<r, "sender">>   \* who sends on its stream for another RPC:
                                \* one at a time, behind a mutex of the stream

Recorder == Conn \cup {Handler(r) : r \in Call} \cup {Sender(r) : r \in Call}

ASSUME RecorderAssumption ==
  /\ Remote \in [Conn -> Address]
  /\ Carrier \in [Call -> Conn]
  /\ Conn \cap (Call \X {"handler", "sender"}) = {}

NoId == 0

VARIABLES
  connectionSeq,  \* ids given out
  connections,    \* probeRecorder.connections: the id by remote address
  pending,        \* events of a goroutine that have a number but are not in
                  \* the log yet, by that number
  used            \* ids that the events of a connection have carried

recorderVars == <<connectionSeq, connections, pending, used>>
idVars  == <<connectionSeq, connections>>
logVars == <<pending, used>>

RecorderInit ==
  /\ connectionSeq = 0
  /\ connections = [a \in Address |-> NoId]
  /\ pending = [g \in Recorder |-> <<>>]
  /\ used = [c \in Conn |-> {}]

-----------------------------------------------------------------------------
\* record, up to the mutex: goroutine g has an event of connection c.
Record(g, c, kind, id) ==
  /\ pending' = [pending EXCEPT ![g] = Append(@, kind)]
  /\ used' = [used EXCEPT ![c] = @ \cup {id}]

\* The line is written, or lost when the file cannot be opened.
AppendLine(g) ==
  /\ \E i \in DOMAIN pending[g] :
       pending' = [pending EXCEPT ![g] = RemoveAt(@, i)]
  /\ UNCHANGED used

\* Fault: another goroutine writes the line.
ReturnedAtOnce(g) == TRUE

\* record has returned.
Returned(g) == pending[g] = <<>>

-----------------------------------------------------------------------------
\* registerTLSConnection: Add, then Store.
DrawId == connectionSeq' = connectionSeq + 1

\* Fault: LoadOrStore, which keeps the id it finds.
StoreUnlessKnown(c, id) ==
  connections' = IF connections[Remote[c]] = NoId
                 THEN [connections EXCEPT ![Remote[c]] = id]
                 ELSE connections

Store(c, id) == connections' = [connections EXCEPT ![Remote[c]] = id]

Known(c) == connections[Remote[c]] # NoId

\* connectionID: the id of the address, a new one when it has none.
FoundId(c) == IF Known(c) THEN connections[Remote[c]] ELSE connectionSeq + 1

LookUp(c) ==
  IF Known(c) THEN UNCHANGED idVars
  ELSE DrawId /\ connections' = [connections EXCEPT ![Remote[c]] = FoundId(c)]

ForgetConnection(c) ==
  /\ connections' = [connections EXCEPT ![Remote[c]] = NoId]
  /\ UNCHANGED connectionSeq
=============================================================================
