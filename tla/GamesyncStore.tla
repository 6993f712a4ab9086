---------------------------- MODULE GamesyncStore ----------------------------
(***************************************************************************)
(* The document store of one game session (gamesync_store.go) and the      *)
(* streams that observe it (gamesync.go).  WriteDocuments works on private *)
(* copies under the publication mutex and gamesyncServer.mu, swaps them in,*)
(* releases mu and sends the changes to the subscribers while it still     *)
(* holds the publication mutex.                                            *)
(***************************************************************************)
EXTENDS Integers, FiniteSets

CONSTANTS
  UserSession,  \* user session ids of the game session
  Connection,   \* ids of docs/c documents
  Family,       \* the client document families of an instance
  Data,         \* what a document may say besides who wrote it
  Writer,       \* WriteDocuments goroutines
  Stream,       \* KeepUserSession goroutines
  MaxSequence,  \* bound: sequence numbers given out
  MaxOperation  \* bound: operations of a batch (256 in the code)

Families == {"p", "e", "c", "__pus", "__bl", "__stu", "__stg"}

Nobody   == "nobody"

ASSUME StoreAssumption ==
  /\ Family \subseteq Families
  /\ Data # {}
  /\ Nobody \notin UserSession \cup Writer \cup Data
  /\ MaxSequence \in Nat
  /\ MaxOperation \in Nat

Absent   == 0                  \* sequence of an id without gamesync session
Sequence == 1..MaxSequence

(***************************************************************************)
(* Names.  A client family is the range of its ids: p and e go by sequence *)
(* number, c by connection, __pus, __bl and __stu by user session.  Of     *)
(* their fields the model keeps the one that says who the writer is (uid,  *)
(* id or susid) and one for all the others.                                *)
(***************************************************************************)
Ids(family) == CASE family \in {"p", "e"}  -> Sequence
                 [] family = "c"           -> Connection
                 [] family = "__stg"       -> {"All"}
                 [] OTHER                  -> UserSession

ClientName == UNION {{f} \X Ids(f) : f \in Family}
Fixed      == <<"__gs", "f">>
User(us)   == <<"__us", us>>
Name       == ClientName \cup {Fixed} \cup {User(us) : us \in UserSession}

Missing == [who |-> Nobody, data |-> Nobody]
Content == [who : UserSession \cup {Nobody}, data : Data]
Value   == Content \cup {Missing}

VARIABLES
  issuing,      \* IssueToken calls past initializeFixedData
  sessions,     \* gamesyncServer.sessions: the Sequence of each
  nextSequence,
  documents,
  owners,       \* who wrote each client document last
  deferments,   \* documents whose cleanup a session has deferred
  writer,       \* WriteDocuments goroutines
  mu,           \* the writer that holds gamesyncServer.mu, or Nobody
  batch,        \* that writer's private copies
  publication,  \* the publication mutex is held
  outbox,       \* what the holder has still to send
  subscribers,  \* the user session of each open stream
  targets,      \* the documents matched by each stream's target
  view          \* the client's picture of them, from the messages sent

sessionVars == <<issuing, sessions, nextSequence>>
commitVars  == <<documents, owners, deferments>>
writeVars   == <<writer, mu, batch>>
streamVars  == <<subscribers, targets, view>>
vars == <<sessionVars, commitVars, writeVars, publication, outbox, streamVars>>

NoBatch == [docs |-> [n \in Name |-> Missing], owners |-> [n \in Name |-> Nobody],
            defer |-> {}, changed |-> {}, size |-> 0]
IdleWriter == [pc |-> "idle", us |-> Nobody, seq |-> Absent]

Init ==
  /\ issuing      = {}
  /\ sessions     = [us \in UserSession |-> Absent]
  /\ nextSequence = 0
  /\ documents    = [n \in Name |-> Missing]
  /\ owners       = [n \in Name |-> Nobody]
  /\ deferments   = [us \in UserSession |-> {}]
  /\ writer       = [w \in Writer |-> IdleWriter]
  /\ mu           = Nobody
  /\ batch        = NoBatch
  /\ publication  = FALSE
  /\ outbox       = {}
  /\ subscribers  = [s \in Stream |-> Nobody]
  /\ targets      = [s \in Stream |-> {}]
  /\ view         = [s \in Stream |-> [n \in Name |-> Missing]]

Has(us)     == sessions[us] # Absent
Unlocked    == mu = Nobody
Subscribed  == {s \in Stream : subscribers[s] # Nobody}

\* Send the changed names to the streams open at this moment.
Publish(names) ==
  /\ publication' = TRUE
  /\ outbox' = names \X Subscribed
-----------------------------------------------------------------------------
(* IssueToken *)

\* Fault: every token draws a seed.
DrawSeedAgain(us, seed) ==
  /\ us \notin issuing
  /\ Unlocked
  /\ documents' = [documents EXCEPT ![Fixed] = [who |-> Nobody, data |-> seed]]
  /\ issuing' = issuing \cup {us}
  /\ UNCHANGED <<sessions, nextSequence, owners, deferments, writeVars,
                 publication, outbox, streamVars>>

\* initializeFixedData: the first token of the game session draws the seed.
\* It takes mu but not the publication mutex.
InitializeFixedData(us, seed) ==
  /\ us \notin issuing
  /\ Unlocked
  /\ documents' = IF documents[Fixed] = Missing
                  THEN [documents EXCEPT ![Fixed] = [who |-> Nobody, data |-> seed]]
                  ELSE documents
  /\ issuing' = issuing \cup {us}
  /\ UNCHANGED <<sessions, nextSequence, owners, deferments, writeVars,
                 publication, outbox, streamVars>>

\* The user document is rebuilt from the membership, which does not change.
UserDocument(us) == [who |-> us, data |-> CHOOSE d \in Data : TRUE]

\* Fault: the publication mutex is not taken.
RememberUnserialized(us) ==
  /\ us \in issuing
  /\ Unlocked
  /\ documents' = [documents EXCEPT ![User(us)] = UserDocument(us)]
  /\ IF Has(us)
     THEN UNCHANGED <<sessions, nextSequence, publication, outbox>>
     ELSE /\ nextSequence < MaxSequence
          /\ nextSequence' = nextSequence + 1
          /\ sessions' = [sessions EXCEPT ![us] = nextSequence']
          /\ Publish({User(us)})
  /\ issuing' = issuing \ {us}
  /\ UNCHANGED <<owners, deferments, writeVars, streamVars>>

\* rememberSession: streams are told of a participant that was not there.
RememberSession(us) ==
  /\ us \in issuing
  /\ ~publication /\ Unlocked
  /\ documents' = [documents EXCEPT ![User(us)] = UserDocument(us)]
  /\ IF Has(us)
     THEN UNCHANGED <<sessions, nextSequence, publication, outbox>>
     ELSE /\ nextSequence < MaxSequence
          /\ nextSequence' = nextSequence + 1
          /\ sessions' = [sessions EXCEPT ![us] = nextSequence']
          /\ Publish({User(us)})
  /\ issuing' = issuing \ {us}
  /\ UNCHANGED <<owners, deferments, writeVars, streamVars>>
-----------------------------------------------------------------------------
(* WriteDocuments *)

\* Fault: a token of an expired session is still accepted.
AuthorizeWriteOfAnyone(w, us) ==
  /\ writer[w] = IdleWriter
  /\ Unlocked
  /\ writer' = [writer EXCEPT ![w] =
                  [pc |-> "authorized", us |-> us, seq |-> sessions[us]]]
  /\ UNCHANGED <<sessionVars, commitVars, mu, batch, publication, outbox, streamVars>>

AuthorizeWrite(w, us) ==
  /\ writer[w] = IdleWriter
  /\ Has(us) /\ Unlocked
  /\ writer' = [writer EXCEPT ![w] =
                  [pc |-> "authorized", us |-> us, seq |-> sessions[us]]]
  /\ UNCHANGED <<sessionVars, commitVars, mu, batch, publication, outbox, streamVars>>

\* Fault: the session is not looked up again.
BeginBatchUnchecked(w) ==
  /\ writer[w].pc = "authorized"
  /\ ~publication /\ Unlocked
  /\ mu' = w
  /\ publication' = TRUE
  /\ batch' = [docs |-> documents, owners |-> owners,
               defer |-> deferments[writer[w].us], changed |-> {}, size |-> 0]
  /\ writer' = [writer EXCEPT ![w].pc = "applying"]
  /\ UNCHANGED <<sessionVars, commitVars, outbox, streamVars>>

\* Both locks are taken and the session is looked up again; the batch then
\* works on copies of what is committed.
BeginBatch(w) ==
  /\ writer[w].pc = "authorized"
  /\ ~publication /\ Unlocked
  /\ IF Has(writer[w].us)
     THEN /\ mu' = w
          /\ publication' = TRUE
          /\ batch' = [docs |-> documents, owners |-> owners,
                       defer |-> deferments[writer[w].us], changed |-> {}, size |-> 0]
          /\ writer' = [writer EXCEPT ![w].pc = "applying"]
     ELSE /\ writer' = [writer EXCEPT ![w] = IdleWriter]
          /\ UNCHANGED <<mu, publication, batch>>
  /\ UNCHANGED <<sessionVars, commitVars, outbox, streamVars>>

(***************************************************************************)
(* writableDocument.  A caller reaches its own numbered and named          *)
(* documents, connection documents nobody else owns, and the mailbox of    *)
(* any member or of all; what it stores there must name it as the writer.  *)
(* A message can be taken out of a mailbox only by its latest sender.      *)
(***************************************************************************)
OwnSlot(b, n, us, seq) ==
  CASE n[1] \in {"p", "e"}        -> n[2] = seq
    [] n[1] = "c"                 -> b.docs[n] # Missing => b.owners[n] = us
    [] n[1] \in {"__pus", "__bl"} -> n[2] = us
    [] n[1] = "__stu"             -> Has(n[2])
    [] OTHER                      -> TRUE

MayPut(b, n, content, us, seq) ==
  /\ OwnSlot(b, n, us, seq)
  /\ CASE n[1] \in {"p", "e"} -> content.who \in {us, Nobody}
       [] n[1] = "c"          -> TRUE
       [] OTHER               -> content.who = us

MayDelete(b, n, us, seq) ==
  /\ OwnSlot(b, n, us, seq)
  /\ n[1] \in {"__stu", "__stg"} => b.owners[n] = us

\* Fault: the change is not put down for publication.
PutDocumentSilently(w, n, content) ==
  /\ mu = w
  /\ batch.size < MaxOperation
  /\ MayPut(batch, n, content, writer[w].us, writer[w].seq)
  /\ batch' = [batch EXCEPT !.docs[n]   = content,
                            !.owners[n] = writer[w].us,
                            !.size      = @ + 1]
  /\ UNCHANGED <<sessionVars, commitVars, writer, mu, publication, outbox, streamVars>>

\* An update, a masked update or a merge: what is checked and stored is the
\* content that results from it.
PutDocument(w, n, content) ==
  /\ mu = w
  /\ batch.size < MaxOperation
  /\ MayPut(batch, n, content, writer[w].us, writer[w].seq)
  /\ batch' = [batch EXCEPT !.docs[n]   = content,
                            !.owners[n] = writer[w].us,
                            !.changed   = @ \cup {n},
                            !.size      = @ + 1]
  /\ UNCHANGED <<sessionVars, commitVars, writer, mu, publication, outbox, streamVars>>

DeleteDocument(w, n) ==
  /\ mu = w
  /\ batch.size < MaxOperation
  /\ MayDelete(batch, n, writer[w].us, writer[w].seq)
  /\ batch' = [batch EXCEPT !.docs[n]   = Missing,
                            !.owners[n] = Nobody,
                            !.changed   = @ \cup {n},
                            !.size      = @ + 1]
  /\ UNCHANGED <<sessionVars, commitVars, writer, mu, publication, outbox, streamVars>>

\* A deferment asks for the deletion of documents the caller may delete now.
DeferDelete(w, n) ==
  /\ mu = w
  /\ batch.size < MaxOperation
  /\ MayDelete(batch, n, writer[w].us, writer[w].seq)
  /\ batch' = [batch EXCEPT !.defer = @ \cup {n}, !.size = @ + 1]
  /\ UNCHANGED <<sessionVars, commitVars, writer, mu, publication, outbox, streamVars>>

CancelDeferment(w, n) ==
  /\ mu = w
  /\ batch.size < MaxOperation
  /\ batch' = [batch EXCEPT !.defer = @ \ {n}, !.size = @ + 1]
  /\ UNCHANGED <<sessionVars, commitVars, writer, mu, publication, outbox, streamVars>>

\* Any operation of the request may be one the server refuses, for what it
\* asks or for a failed precondition; then nothing of the batch is kept.
RefuseBatch(w) ==
  /\ mu = w
  /\ mu' = Nobody
  /\ batch' = NoBatch
  /\ publication' = FALSE
  /\ writer' = [writer EXCEPT ![w] = IdleWriter]
  /\ UNCHANGED <<sessionVars, commitVars, outbox, streamVars>>

CommitBatch(w) ==
  /\ mu = w
  /\ documents'  = batch.docs
  /\ owners'     = batch.owners
  /\ deferments' = [deferments EXCEPT ![writer[w].us] = batch.defer]
  /\ mu'         = Nobody
  /\ batch'      = NoBatch
  /\ writer'     = [writer EXCEPT ![w] = IdleWriter]
  /\ Publish(batch.changed)
  /\ UNCHANGED <<sessionVars, streamVars>>
-----------------------------------------------------------------------------
(***************************************************************************)
(* Publication.  A stream is sent a changed document if its target matches *)
(* it at that moment.  The code sends in name order; here in any order.    *)
(***************************************************************************)
Send(n, s) ==
  /\ <<n, s>> \in outbox
  /\ view' = IF n \in targets[s] THEN [view EXCEPT ![s][n] = documents[n]] ELSE view
  /\ outbox' = outbox \ {<<n, s>>}
  /\ UNCHANGED <<sessionVars, commitVars, writeVars, publication, subscribers, targets>>

\* Fault: the mutex is released before all is sent.
FinishPublicationEarly ==
  /\ publication /\ Unlocked
  /\ publication' = FALSE
  /\ UNCHANGED <<sessionVars, commitVars, writeVars, outbox, streamVars>>

FinishPublication ==
  /\ publication /\ Unlocked
  /\ outbox = {}
  /\ publication' = FALSE
  /\ UNCHANGED <<sessionVars, commitVars, writeVars, outbox, streamVars>>
-----------------------------------------------------------------------------
(* KeepUserSession *)

OpenStream(s, us) ==
  /\ subscribers[s] = Nobody
  /\ Has(us) /\ Unlocked
  /\ subscribers' = [subscribers EXCEPT ![s] = us]
  /\ UNCHANGED <<sessionVars, commitVars, writeVars, publication, outbox, targets, view>>

\* What a new target is listed with, on top of what the stream has shown.
CommittedSnapshot(shown, names) ==
  [n \in Name |-> IF n \in names THEN documents[n] ELSE shown[n]]

\* UpdateTarget: the snapshot is read and listed under the publication mutex.
\* A target names documents or a collection; here, any set of one family.
UpdateTarget(s, names) ==
  /\ subscribers[s] # Nobody
  /\ Has(subscribers[s])
  /\ ~publication /\ Unlocked
  /\ targets' = [targets EXCEPT ![s] = names]
  /\ view' = [view EXCEPT ![s] = CommittedSnapshot(@, names)]
  /\ UNCHANGED <<sessionVars, commitVars, writeVars, publication, outbox, subscribers>>

\* DeleteTarget takes no publication mutex.
DeleteTarget(s) ==
  /\ subscribers[s] # Nobody
  /\ Has(subscribers[s]) /\ Unlocked
  /\ targets' = [targets EXCEPT ![s] = {}]
  /\ UNCHANGED <<sessionVars, commitVars, writeVars, publication, outbox, subscribers, view>>

\* The stream ends and is no longer a subscriber; messages on their way to it
\* are lost with it.
CloseStream(s) ==
  /\ subscribers[s] # Nobody
  /\ Unlocked
  /\ subscribers' = [subscribers EXCEPT ![s] = Nobody]
  /\ targets' = [targets EXCEPT ![s] = {}]
  /\ outbox' = {p \in outbox : p[2] # s}
  /\ UNCHANGED <<sessionVars, commitVars, writeVars, publication, view>>
-----------------------------------------------------------------------------
\* Fault: the messages in the member's mailbox go with it.
LeftoversAndMail(us) ==
  {User(us)} \cup {n \in Name : owners[n] = us \/ n = <<"__stu", us>>}

(***************************************************************************)
(* expireSession removes a member's user document, what it deferred and    *)
(* still owns, and everything it wrote last.  When it does so is the       *)
(* subject of GamesyncLifecycle; here it may at any time, also while the   *)
(* member's stream is being opened or closed.                              *)
(***************************************************************************)
Leftovers(us) ==
  {User(us)} \cup {n \in deferments[us] : owners[n] = us}
             \cup {n \in Name : owners[n] = us}

ExpireSession(us) ==
  /\ Has(us)
  /\ ~publication /\ Unlocked
  /\ LET gone == Leftovers(us)
     IN  /\ documents' = [n \in Name |-> IF n \in gone THEN Missing ELSE documents[n]]
         /\ owners'    = [n \in Name |-> IF n \in gone THEN Nobody ELSE owners[n]]
         /\ Publish(gone)
  /\ sessions'   = [sessions EXCEPT ![us] = Absent]
  /\ deferments' = [deferments EXCEPT ![us] = {}]
  /\ UNCHANGED <<issuing, nextSequence, writeVars, streamVars>>
-----------------------------------------------------------------------------
Target == (SUBSET ClientName) \cup {{User(us) : us \in UserSession}, {Fixed}}

Issuing(us) == (\E seed \in Data : InitializeFixedData(us, seed)) \/ RememberSession(us)

Writing(w) ==
  \/ \E us \in UserSession : AuthorizeWrite(w, us)
  \/ BeginBatch(w)
  \/ \E n \in ClientName :
       \/ \E content \in Content : PutDocument(w, n, content)
       \/ DeleteDocument(w, n)
       \/ DeferDelete(w, n)
       \/ CancelDeferment(w, n)
  \/ RefuseBatch(w)
  \/ CommitBatch(w)

Streaming(s) ==
  \/ \E us \in UserSession : OpenStream(s, us)
  \/ \E names \in Target : UpdateTarget(s, names)
  \/ DeleteTarget(s)
  \/ CloseStream(s)

Next ==
  \/ \E us \in UserSession : Issuing(us) \/ ExpireSession(us)
  \/ \E w \in Writer : Writing(w)
  \/ \E s \in Stream : Streaming(s)
  \/ \E n \in Name, s \in Stream : Send(n, s)
  \/ FinishPublication

Spec == Init /\ [][Next]_vars
-----------------------------------------------------------------------------
Batch == [docs : [Name -> Value], owners : [Name -> UserSession \cup {Nobody}],
          defer : SUBSET ClientName, changed : SUBSET ClientName, size : Nat]

\* Types of the variables.
TypeOK ==
  /\ issuing \in SUBSET UserSession
  /\ sessions \in [UserSession -> Sequence \cup {Absent}]
  /\ nextSequence \in Sequence \cup {0}
  /\ documents \in [Name -> Value]
  /\ owners \in [Name -> UserSession \cup {Nobody}]
  /\ deferments \in [UserSession -> SUBSET ClientName]
  /\ writer \in [Writer -> {IdleWriter} \cup
       [pc : {"authorized", "applying"}, us : UserSession, seq : Sequence]]
  /\ mu \in Writer \cup {Nobody}
  /\ batch \in Batch
  /\ publication \in BOOLEAN
  /\ outbox \in SUBSET (Name \X Stream)
  /\ subscribers \in [Stream -> UserSession \cup {Nobody}]
  /\ targets \in [Stream -> SUBSET Name]
  /\ view \in [Stream -> [Name -> Value]]

\* gamesync.go:162: the publication mutex serializes commits and subscription
\* snapshots.  Whatever a stream watches it has been shown as it is committed,
\* except for the messages that the holder of the mutex has still to send it.
ViewsFollowStore ==
  \A s \in Stream : \A n \in targets[s] :
    <<n, s>> \notin outbox => view[s][n] = documents[n]

\* The loop that sends a commit reads the committed map without holding mu.
\* Nobody writes that map meanwhile, not even initializeFixedData, which does
\* not take the publication mutex: a concurrent write would end the process.
MapStableWhileSending ==
  [][outbox # {} => documents' = documents]_vars

\* A client document exists exactly as long as somebody owns it, and only a
\* member with a gamesync session does: no race of a write with the expiry of
\* its writer, and no sequence of overwrites, leaves a document behind.  And
\* docs/__us lists precisely the members that have such a session.
OwnersAreMembers ==
  /\ \A n \in ClientName :
       /\ documents[n] = Missing <=> owners[n] = Nobody
       /\ owners[n] # Nobody => Has(owners[n])
  /\ \A us \in UserSession : Has(us) <=> documents[User(us)] # Missing

\* gamesync_store.go:701: a departing member takes only its own documents
\* along; another sender's latest message to it stays.
MailSurvivesRecipient ==
  [][\A us \in UserSession : Has(us) /\ sessions'[us] = Absent
       => \A n \in ClientName : owners[n] # us => documents'[n] = documents[n]]_vars

\* gamesync_store.go:36: all peers are given the same fixed data for the life
\* of the game session.
FixedDataStable ==
  [][documents[Fixed] # Missing => documents'[Fixed] = documents[Fixed]]_vars

\* Streams see the store as ObservedStore describes it: batches take effect at
\* once, refused ones not at all, and changes are shown in commit order.
Observed == INSTANCE ObservedStore WITH
  Subscriber <- Stream,
  store  <- documents,
  target <- targets,
  shown  <- view,
  unsent <- {p \in outbox : p[1] \in targets[p[2]]}

ObservedSpec == Observed!Spec
=============================================================================
