---------------------------- MODULE ObservedStore ----------------------------
(***************************************************************************)
(* What the gamesync store promises the members of a game session: a batch *)
(* of document writes takes effect at once, and a subscriber that holds a  *)
(* target is shown each document of it as it stands in the store: first a  *)
(* snapshot, then every change, one change of the store after the other.   *)
(***************************************************************************)
CONSTANTS Name, Value, Subscriber

VARIABLES
  store,  \* the committed value of each document
  target, \* the documents each subscriber watches
  shown,  \* what it was last shown of them
  unsent  \* changes the subscriber has still to be shown

storeVars == <<store, target, shown, unsent>>

Init ==
  /\ store  \in [Name -> Value]
  /\ target = [s \in Subscriber |-> {}]
  /\ shown  \in [Subscriber -> [Name -> Value]]
  /\ unsent = {}

Watching == {p \in Name \X Subscriber : p[1] \in target[p[2]]}

\* Nothing is committed or listed before the last change has been shown.  A
\* change may rewrite a document with the value it has.
Change ==
  /\ unsent = {}
  /\ store'  \in [Name -> Value]
  /\ unsent' \in SUBSET Watching
  /\ \A p \in Watching \ unsent' : store'[p[1]] = store[p[1]]
  /\ UNCHANGED <<target, shown>>

Show(n, s) ==
  /\ <<n, s>> \in unsent
  /\ shown'  = [shown EXCEPT ![s][n] = store[n]]
  /\ unsent' = unsent \ {<<n, s>>}
  /\ UNCHANGED <<store, target>>

Watch(s) ==
  /\ unsent = {}
  /\ target' \in [Subscriber -> SUBSET Name]
  /\ \A other \in Subscriber \ {s} : target'[other] = target[other]
  /\ shown'  = [shown EXCEPT ![s] =
                  [n \in Name |-> IF n \in target'[s] THEN store[n] ELSE @[n]]]
  /\ UNCHANGED <<store, unsent>>

\* A target may be dropped, or its stream end, while a change is being sent.
Unwatch(s) ==
  /\ target' = [target EXCEPT ![s] = {}]
  /\ unsent' = {p \in unsent : p[2] # s}
  /\ UNCHANGED <<store, shown>>

Next ==
  \/ Change
  \/ \E s \in Subscriber :
       \/ \E n \in Name : Show(n, s)
       \/ Watch(s)
       \/ Unwatch(s)

Spec == Init /\ [][Next]_storeVars
=============================================================================
