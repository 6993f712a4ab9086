---------------------------- MODULE ServerSockets ----------------------------
(***************************************************************************)
(* The sockets a server process opens, in the order main opens them: the   *)
(* UDP observers (udp_observer.go), STUN (stun.go), TURN (turn.go), NNCS   *)
(* (nncs.go) and TCP port 443 (local.go).  A port belongs to one process   *)
(* of the machine at a time.  A socket that cannot be opened ends the      *)
(* start, after its component has closed what it had opened.               *)
(***************************************************************************)
EXTENDS Processes, Integers, FiniteSets, Sequences

CONSTANTS
  Opens     \* the sockets each process opens, in order

Part == {"observer", "stun", "turn", "nncs", "tls"}
TlsPort == "443/tcp"
Chosen  == "any"   \* port 0: the system chooses one that nobody has
Socket  == [part : Part, port : STRING]
Entry(p) == {Opens[p][i] : i \in 1..Len(Opens[p])}

\* All processes serve at the same NPLN_LISTEN.
ASSUME SocketAssumption ==
  /\ Opens \in [Process -> Seq(Socket)]
  /\ \A p \in Process : \A e \in Entry(p) : e.part = "tls" <=> e.port = TlsPort

Port     == (UNION {{e.port : e \in Entry(p)} : p \in Process}) \ {Chosen}
PortsOf(p, part) == {e.port : e \in {x \in Entry(p) : x.part = part}} \ {Chosen}

VARIABLES
  owner,    \* who has each port
  opened,   \* how many sockets a process has opened
  readers   \* ports whose read loop is running in a process

socketVars == <<owner, opened, readers>>

SocketsInit ==
  /\ owner = [port \in Port |-> Nobody]
  /\ opened = [p \in Process |-> 0]
  /\ readers = [p \in Process |-> {}]

AllOpen(p) == opened[p] = Len(Opens[p])
Coming(p)  == Opens[p][opened[p] + 1]
LastOf(p, part) ==
  \A i \in opened[p] + 2 .. Len(Opens[p]) : Opens[p][i].part # part

\* An observer reads from the moment its socket is open; NNCS reads once all
\* its sockets are, so that a reply can always leave from the alternate one.
Reading(p) ==
  CASE Coming(p).part = "observer" -> {Coming(p).port}
    [] Coming(p).part = "nncs" /\ LastOf(p, "nncs") -> PortsOf(p, "nncs")
    [] OTHER -> {}

\* `port` is the one asked for, or the one the system has chosen.
OpenAt(p, port) ==
  /\ owner' = IF port = Chosen THEN owner ELSE [owner EXCEPT ![port] = p]
  /\ opened' = [opened EXCEPT ![p] = @ + 1]
  /\ readers' = [readers EXCEPT ![p] = @ \cup Reading(p)]

PortFree(port) == port \in Port => owner[port] = Nobody

Open(p) ==
  /\ ~ AllOpen(p)
  /\ PortFree(Coming(p).port)
  /\ OpenAt(p, Coming(p).port)

\* The system chooses for the alternate socket a port that is opened later.
OpenOnTakenPort(p, port) ==
  /\ ~ AllOpen(p)
  /\ Coming(p).port = Chosen
  /\ port \in PortsOf(p, Coming(p).part)
  /\ PortFree(port)
  /\ OpenAt(p, port)

\* Close: the sockets of the component, then the wait for its read loops.
Release(p, ports) ==
  owner' = [port \in Port |->
              IF owner[port] = p /\ port \in ports THEN Nobody ELSE owner[port]]

CloseSockets(p) ==
  /\ Release(p, PortsOf(p, Coming(p).part))
  /\ UNCHANGED <<opened, readers>>
\* ReadFromUDP returns ErrClosed.
ReaderReturns(p, port) ==
  /\ port \in readers[p]
  /\ owner[port] # p
  /\ readers' = [readers EXCEPT ![p] = @ \ {port}]
  /\ UNCHANGED <<owner, opened>>

SocketsClosed(p) ==
  \A port \in PortsOf(p, Coming(p).part) : owner[port] # p
ReadersGone(p) == readers[p] \cap PortsOf(p, Coming(p).part) = {}

\* The process exits.
ReleaseAll(p) ==
  /\ Release(p, Port)
  /\ opened' = [opened EXCEPT ![p] = 0]
  /\ readers' = [readers EXCEPT ![p] = {}]
=============================================================================
