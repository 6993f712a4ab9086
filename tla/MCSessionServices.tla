-------------------------- MODULE MCSessionServices --------------------------
(* A small instance of SessionServices for TLC. *)
EXTENDS SessionServices, TLC

\* A public session is full with its first user, a friend's with its second.
MCCapacity == [c \in Config |-> IF c \in FriendConfig THEN 2 ELSE 1]
Symmetry   == Permutations(Uid)
=============================================================================
