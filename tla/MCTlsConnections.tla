-------------------------- MODULE MCTlsConnections --------------------------
(* Connections that all come from one address; all RPCs come on the first. *)
EXTENDS TlsConnections

CONSTANTS a1, c1

MCRemote  == [c \in Conn |-> a1]
MCCarrier == [r \in Call |-> c1]
=============================================================================
