--------------------------- MODULE MCServerProcess ---------------------------
(***************************************************************************)
(* A supervised server and a second one, started by hand, that observes    *)
(* one port less, has no STUN and TURN and no NNCS of its own.             *)
(***************************************************************************)
EXTENDS ServerProcess, TLC

CONSTANTS p1, p2

S(part, port) == [part |-> part, port |-> port]

MCOpens ==
  p1 :> << S("observer", "50000/udp"), S("observer", "443/udp"),
           S("stun", "3478/udp"), S("nncs", Chosen), S("nncs", "10025/udp"),
           S("nncs", "33334/udp"), S("tls", TlsPort) >>
  @@ p2 :> << S("observer", "443/udp"), S("nncs", "33334/udp"),
              S("tls", TlsPort) >>
=============================================================================
