------------------------------ MODULE GameRooms ------------------------------
(***************************************************************************)
(* What the session services promise their clients: a room is opened by    *)
(* one user, holds each user at most once and never more users than it was *)
(* opened for, and when its last user has left it is closed for good.      *)
(***************************************************************************)
EXTENDS Integers, FiniteSets

CONSTANTS Room, User,
          Size \* the numbers of users a room may be opened for

VARIABLES
  roster, \* the users in each room
  phase,  \* "new", "open" or "closed"
  places  \* how many users the room was opened for

roomVars == <<roster, phase, places>>

Init ==
  /\ roster = [r \in Room |-> {}]
  /\ phase  = [r \in Room |-> "new"]
  /\ places = [r \in Room |-> 0]

Open(r, u, n) ==
  /\ phase[r] = "new"
  /\ phase'  = [phase EXCEPT ![r] = "open"]
  /\ roster' = [roster EXCEPT ![r] = {u}]
  /\ places' = [places EXCEPT ![r] = n]

Enter(r, u) ==
  /\ phase[r] = "open"
  /\ u \notin roster[r]
  /\ Cardinality(roster[r]) < places[r]
  /\ roster' = [roster EXCEPT ![r] = @ \cup {u}]
  /\ UNCHANGED <<phase, places>>

Leave(r, u) ==
  /\ u \in roster[r]
  /\ roster' = [roster EXCEPT ![r] = @ \ {u}]
  /\ phase'  = [phase EXCEPT ![r] = IF roster[r] = {u} THEN "closed" ELSE @]
  /\ UNCHANGED places

Next ==
  \E r \in Room, u \in User :
    \/ \E n \in Size : Open(r, u, n)
    \/ Enter(r, u)
    \/ Leave(r, u)

Spec == Init /\ [][Next]_roomVars
=============================================================================
