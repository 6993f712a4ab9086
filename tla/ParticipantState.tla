--------------------------- MODULE ParticipantState ---------------------------
(***************************************************************************)
(* The documents docs/__pus/<user session> in which the participants of a  *)
(* course keep their state, and the connection number each draws from the  *)
(* game session's global __upcsidn with a chain of field transforms        *)
(* (gamesync_store.go).  A batch of writes works on private copies of the  *)
(* document and the global, under locks that it holds until it is refused  *)
(* or committed.                                                           *)
(*                                                                         *)
(* The fields that say who the writer is are left out: a batch that gets   *)
(* them wrong is refused, as it may be for many a reason.                  *)
(***************************************************************************)
EXTENDS Integers, Sequences, SequencesExt

CONSTANTS
  User,     \* user session ids of the game session
  Writer,   \* WriteDocuments goroutines
  Key,      \* names of fields
  Inner,    \* names of the fields of a field that is a map
  Number,   \* the field that is given the connection number
  MaxInt,   \* the largest integer (2^63 - 1 in the code)
  Request,  \* the batches clients send: sequences of operations
  Mask      \* the masks clients read with

MinInt == -MaxInt - 1
Word   == MinInt..MaxInt
Wrap(n) == ((n - MinInt) % (2 * MaxInt + 2)) + MinInt  \* two's complement
-----------------------------------------------------------------------------
(***************************************************************************)
(* Values and fields.  Maps are one deep; a deeper path is followed the    *)
(* same way.  None is the nil *Value of a field that is not there.         *)
(***************************************************************************)
None == [kind |-> "none"]
Time == [kind |-> "time"]
IntegerValue(n) == [kind |-> "integer", n |-> n]
Map(f) == [kind |-> "map", fields |-> f]

Scalar == {None, Time} \cup {IntegerValue(n) : n \in Word}
Value  == Scalar \cup {Map(f) : f \in [Inner -> Scalar]}

Fields  == [Key -> Value]
Empty   == [k \in Key |-> None]
Missing == [kind |-> "missing"]  \* there is no such document

Path == {<<k>> : k \in Key} \cup (Key \X Inner)

\* The fields of a value, none if it is no map.
FieldsOf(v) == IF v.kind = "map" THEN v.fields ELSE [x \in Inner |-> None]

ReadField(fields, path) ==
  IF Len(path) = 1 THEN fields[path[1]] ELSE FieldsOf(fields[path[1]])[path[2]]

\* Fault: a nested field replaces the map it is in.
SetFieldAlone(fields, path, value) ==
  [fields EXCEPT ![path[1]] =
     IF Len(path) = 1 THEN value
     ELSE Map([[x \in Inner |-> None] EXCEPT ![path[2]] = value])]

\* Setting None deletes.  What is in the way of a nested path becomes a map.
SetField(fields, path, value) ==
  [fields EXCEPT ![path[1]] =
     IF Len(path) = 1 THEN value ELSE Map([FieldsOf(@) EXCEPT ![path[2]] = value])]

\* into, with the fields of from that the mask names.
CopyMasked(into, from, mask) ==
  FoldLeft(LAMBDA fields, path : SetField(fields, path, ReadField(from, path)), into, mask)

MaskedDocument(fields, mask) == CopyMasked(Empty, fields, mask)
-----------------------------------------------------------------------------
(***************************************************************************)
(* Field transforms.  What one makes of the current value is a set: empty  *)
(* if the transform is refused.                                            *)
(***************************************************************************)
Integer(v) == CASE v = None            -> {0}
                [] v.kind = "integer"  -> {v.n}
                [] OTHER               -> {}

\* Fault: no test at all.
NeverOverflows(a, b) == FALSE

Overflows(a, b) == \/ b > 0 /\ a > MaxInt - b
                   \/ b < 0 /\ a < MinInt - b

Loaded(current, global) ==
  IF global # None THEN global ELSE IF current # None THEN current ELSE IntegerValue(0)

Transformed(t, current, global) ==
  LET operands == Integer(current)
  IN  CASE t.by = "load"      -> {Loaded(current, global)}
        [] t.by = "time"      -> {Time}
        [] t.by = "increment" -> {IntegerValue(Wrap(a + t.n)) :
                                    a \in {a \in operands : ~Overflows(a, t.n)}}
        [] t.by = "maximum"   -> {IntegerValue(IF t.n > a THEN t.n ELSE a) : a \in operands}
        [] t.by = "minimum"   -> {IntegerValue(IF t.n < a THEN t.n ELSE a) : a \in operands}
        [] OTHER              -> {current} \ {None}  \* store, clear

GlobalAfter(t, current, global) ==
  CASE t.by = "store" -> current
    [] t.by = "clear" -> None
    [] OTHER          -> global
-----------------------------------------------------------------------------
Operation ==
  LET pre == {"none", "exists", "missing"}
      by  == {"load", "store", "clear", "time", "increment", "maximum", "minimum"}
  IN  [op : {"update"}, fields : Fields, mask : {"*"} \cup Seq(Path), pre : pre]
        \cup [op : {"merge"}, fields : Fields]
        \cup [op : {"transform"}, path : Path, by : by, n : Word]
        \cup [op : {"delete"}, pre : pre]

\* The game draws a connection number with four transforms from the i-th
\* operation of a request on (gamesync_test.go:469).
DrawSteps == <<"load", "maximum", "increment", "store">>
IsDraw(r, i) ==
  /\ i + 3 <= Len(r)
  /\ \A j \in 0..3 : /\ r[i + j].op = "transform"
                     /\ r[i + j].path = <<Number>> /\ r[i + j].by = DrawSteps[j + 1]
  /\ r[i + 2].n > 0

\* Otherwise a client leaves the number and the global alone, replaces the
\* document or clears the global.
LeavesNumber(op) ==
  CASE op.op = "update"    -> op.mask = "*" \/ \A i \in 1..Len(op.mask) : op.mask[i][1] # Number
    [] op.op = "merge"     -> op.fields[Number] = None
    [] op.op = "transform" -> /\ op.by # "store"
                              /\ \/ op.path[1] # Number
                                 \/ op.by = "clear" /\ op.path = <<Number>>
    [] OTHER               -> TRUE

ASSUME ParticipantAssumption ==
  /\ Number \in Key
  /\ MaxInt \in Nat
  /\ Missing \notin Fields
  /\ Mask \subseteq Seq(Path)
  /\ Request \subseteq Seq(Operation)
  /\ \A r \in Request : \A i \in 1..Len(r) :
       LeavesNumber(r[i]) \/ \E j \in 1..i : i <= j + 3 /\ IsDraw(r, j)
-----------------------------------------------------------------------------
VARIABLES
  sessions,   \* user sessions with a gamesync session
  documents,  \* docs/__pus/<user session>: its fields
  global,     \* globalValues: __upcsidn
  writer,     \* WriteDocuments goroutines
  batch,      \* the one that holds the locks, and its private copies
  drawn,      \* history: the numbers of the committed draws, in order, since
              \* the global was last cleared
  told        \* history: the number each participant was told last

vars == <<sessions, documents, global, writer, batch, drawn, told>>

NoNumber  == 0
Waiting   == [us |-> "none", todo |-> <<>>]
NoBatch   == [writer |-> "none"]

TypeOK ==
  LET document == Fields \cup {Missing}
      counter  == {None} \cup {IntegerValue(n) : n \in Word}
  IN  /\ sessions \in SUBSET User
      /\ documents \in [User -> document]
      /\ global \in counter
      /\ writer \in [Writer -> {Waiting} \cup [us : User, todo : Request]]
      /\ batch \in {NoBatch} \cup
           [writer : Writer, us : User, todo : Seq(Operation), document : document,
            global : counter, drawn : Seq(Word), told : Word]
      /\ drawn \in Seq(Word)
      /\ told \in [User -> Word]

Init ==
  /\ sessions  = {}
  /\ documents = [us \in User |-> Missing]
  /\ global    = None
  /\ writer    = [w \in Writer |-> Waiting]
  /\ batch     = NoBatch
  /\ drawn     = <<>>
  /\ told      = [us \in User |-> NoNumber]

IssueToken(us) ==
  /\ batch = NoBatch
  /\ us \notin sessions
  /\ sessions' = sessions \cup {us}
  /\ UNCHANGED <<documents, global, writer, batch, drawn, told>>

\* The participant's document goes with its session, the global stays.
ExpireSession(us) ==
  /\ batch = NoBatch
  /\ us \in sessions
  /\ sessions'  = sessions \ {us}
  /\ documents' = [documents EXCEPT ![us] = Missing]
  /\ told'      = [told EXCEPT ![us] = NoNumber]
  /\ UNCHANGED <<global, writer, batch, drawn>>

\* GetDocument: a clone is taken under the lock, then masked.
GetDocument(us, mask) == MaskedDocument(documents[us], mask)
-----------------------------------------------------------------------------
(* WriteDocuments *)

Authorize(w, us, request) ==
  /\ writer[w] = Waiting
  /\ us \in sessions
  /\ writer' = [writer EXCEPT ![w] = [us |-> us, todo |-> request]]
  /\ UNCHANGED <<sessions, documents, global, batch, drawn, told>>

\* The locks are taken; a session that has expired since is told so.
BeginBatch(w) ==
  LET us == writer[w].us
  IN  /\ writer[w] # Waiting
      /\ batch = NoBatch
      /\ IF us \in sessions
         THEN /\ batch' = [writer |-> w, us |-> us, todo |-> writer[w].todo,
                           document |-> documents[us], global |-> global,
                           drawn |-> drawn, told |-> told[us]]
              /\ UNCHANGED writer
         ELSE /\ writer' = [writer EXCEPT ![w] = Waiting]
              /\ UNCHANGED batch
      /\ UNCHANGED <<sessions, documents, global, drawn, told>>

Working(op) == /\ batch # NoBatch
               /\ batch.todo # <<>>
               /\ Head(batch.todo).op = op

MeetsPrecondition(pre) == CASE pre = "exists"  -> batch.document # Missing
                            [] pre = "missing" -> batch.document = Missing
                            [] OTHER           -> TRUE

Existing == IF batch.document = Missing THEN Empty ELSE batch.document

UpdateDocument ==
  /\ Working("update")
  /\ LET op == Head(batch.todo)
     IN  /\ MeetsPrecondition(op.pre)
         /\ batch' = [batch EXCEPT
              !.todo = Tail(@),
              !.document = IF op.mask = "*" THEN op.fields
                           ELSE CopyMasked(Existing, op.fields, op.mask),
              !.told = IF op.mask = "*" THEN NoNumber ELSE @]
  /\ UNCHANGED <<sessions, documents, global, writer, drawn, told>>

\* Fault: fields the request does not have are deleted.
MergedOver(fields, new) == new

Merged(fields, new) == [k \in Key |-> IF new[k] # None THEN new[k] ELSE fields[k]]

MergeDocument ==
  /\ Working("merge")
  /\ batch' = [batch EXCEPT !.todo = Tail(@),
                            !.document = Merged(Existing, Head(batch.todo).fields)]
  /\ UNCHANGED <<sessions, documents, global, writer, drawn, told>>

\* One field transform of a TransformDocument.
TransformDocument ==
  /\ Working("transform")
  /\ batch.document # Missing
  /\ LET t == Head(batch.todo)
     IN  \E v \in Transformed(t, ReadField(batch.document, t.path), batch.global) :
           batch' = [batch EXCEPT
             !.todo = Tail(@),
             !.document = SetField(@, t.path, v),
             !.global = GlobalAfter(t, v, @),
             !.drawn = CASE t.by = "store" -> Append(@, v.n)
                         [] t.by = "clear" -> <<>>
                         [] OTHER          -> @,
             !.told = IF t.by = "store" THEN v.n ELSE @]
  /\ UNCHANGED <<sessions, documents, global, writer, drawn, told>>

DeleteDocument ==
  /\ Working("delete")
  /\ MeetsPrecondition(Head(batch.todo).pre)
  /\ batch' = [batch EXCEPT !.todo = Tail(@), !.document = Missing, !.told = NoNumber]
  /\ UNCHANGED <<sessions, documents, global, writer, drawn, told>>

FinishWrite == /\ writer' = [writer EXCEPT ![batch.writer] = Waiting]
               /\ batch' = NoBatch

\* Fault: the global is not one of the private copies.
RefuseBatchHalfDone ==
  /\ batch # NoBatch
  /\ global' = batch.global
  /\ FinishWrite
  /\ UNCHANGED <<sessions, documents, drawn, told>>

\* Any operation may be refused, and some have no other outcome; when all are
\* done a deferment may be (GamesyncStore has those).
RefuseBatch ==
  /\ batch # NoBatch
  /\ FinishWrite
  /\ UNCHANGED <<sessions, documents, global, drawn, told>>

CommitBatch ==
  /\ batch # NoBatch
  /\ batch.todo = <<>>
  /\ documents' = [documents EXCEPT ![batch.us] = batch.document]
  /\ global'    = batch.global
  /\ drawn'     = batch.drawn
  /\ told'      = [told EXCEPT ![batch.us] = batch.told]
  /\ FinishWrite
  /\ UNCHANGED sessions

Next ==
  \/ \E us \in User : IssueToken(us) \/ ExpireSession(us)
  \/ \E w \in Writer, us \in User, r \in Request : Authorize(w, us, r)
  \/ \E w \in Writer : BeginBatch(w)
  \/ UpdateDocument \/ MergeDocument \/ TransformDocument \/ DeleteDocument
  \/ RefuseBatch \/ CommitBatch

Spec == Init /\ [][Next]_vars
-----------------------------------------------------------------------------
\* The game session's counter is the last number that was really given out:
\* refused batches and members who leave neither use up nor give back any.
CounterIsLastDraw ==
  global = IF drawn = <<>> THEN None ELSE IntegerValue(drawn[Len(drawn)])

\* Clients that draw as the game does never get a number that was given out
\* before, to anyone, not even when the counter reaches the end of its range,
\* unless one of them clears the global.
DrawsIncrease ==
  \A i \in 1..Len(drawn) - 1 : drawn[i] < drawn[i + 1]

\* What a participant was told is what the others read in its document, after
\* any masked update, merge or other transform of it.
ToldIsStored ==
  \A us \in User : told[us] # NoNumber =>
    /\ documents[us] # Missing
    /\ ReadField(documents[us], <<Number>>) = IntegerValue(told[us])

\* A masked read has the stored value of what the mask names, save that one
\* whose fields the mask names as well is read as a map, and it has nothing
\* that is neither named, nor in what is named, nor what something named is in.
MaskedReadExact ==
  \A us \in User, mask \in Mask, path \in Path :
    documents[us] # Missing =>
      LET named(p)  == \E i \in 1..Len(mask) : mask[i] = p
          inside(p) == named(p) \/ named(<<p[1]>>)
          below(p)  == \E x \in Inner : named(p \o <<x>>)
      IN  /\ inside(path) /\ (below(path) => documents[us][path[1]].kind = "map") =>
               ReadField(GetDocument(us, mask), path) = ReadField(documents[us], path)
          /\ ~inside(path) /\ ~below(path) =>
               ReadField(GetDocument(us, mask), path) = None
=============================================================================
