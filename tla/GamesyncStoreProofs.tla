------------------------- MODULE GamesyncStoreProofs -------------------------
(***************************************************************************)
(* Proofs about the document store and the streams that observe it.  All   *)
(* of them rest on one invariant: nothing is unsent unless the publication *)
(* mutex is held, the copies a batch works on differ from the store only   *)
(* in what the batch has changed, and the fixed data is drawn before there *)
(* is anybody to look.                                                     *)
(***************************************************************************)
EXTENDS GamesyncStore, TLAPS

\* The parts of the type invariant.
SessionTypes ==
  /\ issuing \in SUBSET UserSession
  /\ sessions \in [UserSession -> Sequence \cup {Absent}]
  /\ nextSequence \in Sequence \cup {0}

CommitTypes ==
  /\ documents \in [Name -> Value]
  /\ owners \in [Name -> UserSession \cup {Nobody}]
  /\ deferments \in [UserSession -> SUBSET ClientName]

WriteTypes ==
  /\ writer \in [Writer -> {IdleWriter} \cup
       [pc : {"authorized", "applying"}, us : UserSession, seq : Sequence]]
  /\ mu \in Writer \cup {Nobody}
  /\ batch \in Batch

StreamTypes ==
  /\ publication \in BOOLEAN
  /\ outbox \in SUBSET (Name \X Stream)
  /\ subscribers \in [Stream -> UserSession \cup {Nobody}]
  /\ targets \in [Stream -> SUBSET Name]
  /\ view \in [Stream -> [Name -> Value]]

\* Who writes holds a session and both locks.
WriterHasSession ==
  \A w \in Writer : mu = w => writer[w].pc = "applying" /\ Has(writer[w].us)

\* What OwnersAreMembers says of the client documents, here also of the
\* copies a batch works on; the server's own documents have no owner.
Owned(docs, own) ==
  /\ \A n \in ClientName :
       /\ docs[n] = Missing <=> own[n] = Nobody
       /\ own[n] # Nobody => Has(own[n])
  /\ \A n \in Name \ ClientName : own[n] = Nobody

UserDocuments ==
  \A us \in UserSession :
    documents[User(us)] = IF Has(us) THEN UserDocument(us) ELSE Missing

BatchIsCopy ==
  mu # Nobody =>
    /\ Owned(batch.docs, batch.owners)
    /\ \A n \in Name \ batch.changed : batch.docs[n] = documents[n]

\* There is nobody who could be sent anything before the fixed data is drawn.
FixedDrawn ==
  documents[Fixed] = Missing =>
    /\ issuing = {} /\ outbox = {}
    /\ \A us \in UserSession : ~ Has(us)
    /\ \A s \in Stream : subscribers[s] = Nobody

UnsentUnderMutex == outbox # {} => publication /\ Unlocked

TargetsOfSubscribers ==
  \A s \in Stream : targets[s] # {} => subscribers[s] # Nobody

StoreInv ==
  /\ SessionTypes /\ CommitTypes /\ WriteTypes /\ StreamTypes
  /\ WriterHasSession
  /\ Owned(documents, owners) /\ UserDocuments /\ BatchIsCopy
  /\ FixedDrawn /\ UnsentUnderMutex
  /\ TargetsOfSubscribers /\ ViewsFollowStore
-----------------------------------------------------------------------------
(* Names and values.                                                       *)

LEMMA Names ==
  /\ ClientName \subseteq Name
  /\ Fixed \in Name \ ClientName
  /\ \A us \in UserSession : User(us) \in Name \ ClientName /\ User(us) # Fixed
  /\ \A us, other \in UserSession : User(us) = User(other) => us = other
<1>1. \A n \in ClientName : n[1] \in Families
  <2>1. SUFFICES ASSUME NEW f \in Family, NEW n \in {f} \X Ids(f)
                 PROVE  n[1] \in Families
    BY DEF ClientName
  <2> QED BY <2>1, StoreAssumption
<1>2. Fixed[1] = "__gs" /\ \A us \in UserSession : User(us)[1] = "__us" /\ User(us)[2] = us
  BY DEF Fixed, User
<1>3. "__gs" \notin Families /\ "__us" \notin Families
  BY DEF Families
<1> QED BY <1>1, <1>2, <1>3 DEF Name

LEMMA Values ==
  /\ Missing \in Value
  /\ Content \subseteq Value /\ Missing \notin Content
  /\ \A us \in UserSession : UserDocument(us) \in Content
  /\ \A seed \in Data : [who |-> Nobody, data |-> seed] \in Content
<1>1. \A us \in UserSession : UserDocument(us) \in Content
  BY StoreAssumption DEF UserDocument, Content
<1>2. Missing \notin Content
  BY StoreAssumption DEF Missing, Content
<1> QED BY <1>1, <1>2 DEF Value, Content

LEMMA NoBatchTyped == NoBatch \in Batch
BY Values DEF NoBatch, Batch

LEMMA TargetsAreNames == \A names \in Target : names \subseteq Name
BY Names DEF Target

LEMMA StoreInit == Init => StoreInv
<1> SUFFICES ASSUME Init PROVE StoreInv
  OBVIOUS
<1> USE DEF Init
<1>1. SessionTypes
  BY DEF SessionTypes
<1>2. CommitTypes
  BY Values DEF CommitTypes
<1>3. WriteTypes
  BY NoBatchTyped DEF WriteTypes
<1>4. StreamTypes
  BY Values DEF StreamTypes
<1>5. \A us \in UserSession : ~ Has(us)
  BY DEF Has
<1>6. Owned(documents, owners) /\ UserDocuments
  BY <1>5, Names DEF Owned, UserDocuments
<1>7. mu \notin Writer
  BY StoreAssumption
<1> QED BY <1>1, <1>2, <1>3, <1>4, <1>5, <1>6, <1>7
        DEF StoreInv, WriterHasSession, BatchIsCopy, FixedDrawn,
            UnsentUnderMutex, TargetsOfSubscribers, ViewsFollowStore

\* What depends on the sessions only through Has.
LEMMA SameSessions ==
  ASSUME sessions' = sessions
  PROVE  /\ \A us : Has(us)' <=> Has(us)
         /\ \A docs, own : Owned(docs, own)' <=> Owned(docs, own)
BY DEF Has, Owned

\* Steps that show no stream anything and send nothing.
LEMMA StreamsAlone ==
  ASSUME StoreInv, UNCHANGED <<streamVars, outbox>>, publication' \in BOOLEAN,
         \A s \in Stream : \A n \in targets[s] : documents'[n] = documents[n]
  PROVE  StreamTypes' /\ TargetsOfSubscribers' /\ ViewsFollowStore'
BY DEF StoreInv, StreamTypes, TargetsOfSubscribers, ViewsFollowStore, streamVars

LEMMA FixedKeeps ==
  ASSUME StoreInv, NEW us \in UserSession, NEW seed \in Data,
         InitializeFixedData(us, seed)
  PROVE  StoreInv'
<1> USE DEF InitializeFixedData
<1>0. documents'[Fixed] \in Content /\ documents'[Fixed] # Missing
  BY Names, Values DEF StoreInv, CommitTypes, Value
<1>1. \A n \in Name \ {Fixed} : documents'[n] = documents[n]
  BY DEF StoreInv, CommitTypes
<1>2. SessionTypes' /\ CommitTypes' /\ WriteTypes'
  BY <1>0, Names, Values
  DEF StoreInv, SessionTypes, CommitTypes, WriteTypes, writeVars
<1>3. \A s \in Stream : \A n \in targets[s] : documents'[n] = documents[n]
  BY DEF StoreInv, FixedDrawn, TargetsOfSubscribers
<1>4. StreamTypes' /\ TargetsOfSubscribers' /\ ViewsFollowStore'
  BY <1>3, StreamsAlone DEF StoreInv, StreamTypes
<1>5. Owned(documents, owners)' /\ UserDocuments'
  BY <1>1, Names, SameSessions DEF StoreInv, Owned, UserDocuments, UserDocument
<1>6. WriterHasSession' /\ BatchIsCopy' /\ UnsentUnderMutex'
  BY SameSessions
  DEF StoreInv, WriterHasSession, BatchIsCopy, UnsentUnderMutex, Unlocked, writeVars
<1>7. FixedDrawn'
  BY <1>0 DEF FixedDrawn
<1> QED BY <1>2, <1>4, <1>5, <1>6, <1>7 DEF StoreInv

\* A step under the publication mutex that sends what it changes: nothing else
\* was unsent, so every view is good once that is sent.
LEMMA PublishKeepsViews ==
  ASSUME StoreInv, NEW names \in SUBSET Name, Publish(names), outbox = {},
         UNCHANGED streamVars,
         \A n \in Name \ names : documents'[n] = documents[n]
  PROVE  StreamTypes' /\ TargetsOfSubscribers' /\ ViewsFollowStore'
<1> USE DEF StoreInv, StreamTypes, streamVars, Publish
<1>1. outbox' \in SUBSET (Name \X Stream) /\ publication' \in BOOLEAN
  BY DEF Subscribed
<1>2. ASSUME NEW s \in Stream, NEW n \in targets[s], <<n, s>> \notin outbox'
      PROVE  view[s][n] = documents'[n]
  <2>1. s \in Subscribed
    BY DEF TargetsOfSubscribers, Subscribed
  <2>2. n \in Name \ names
    BY <1>2, <2>1
  <2> QED BY <1>2, <2>2 DEF ViewsFollowStore
<1> QED BY <1>1, <1>2 DEF TargetsOfSubscribers, ViewsFollowStore

LEMMA RememberKeeps ==
  ASSUME StoreInv, NEW us \in UserSession, RememberSession(us)
  PROVE  StoreInv'
<1> USE DEF RememberSession
<1>1. documents' = [documents EXCEPT ![User(us)] = UserDocument(us)]
  OBVIOUS
<1>2. /\ documents'[User(us)] = UserDocument(us)
      /\ \A n \in Name \ {User(us)} : documents'[n] = documents[n]
  BY <1>1, Names DEF StoreInv, CommitTypes
<1>3. CommitTypes' /\ WriteTypes'
  BY <1>1, Names, Values DEF StoreInv, CommitTypes, WriteTypes, writeVars
<1>4. outbox = {} /\ documents[Fixed] # Missing
  BY DEF StoreInv, UnsentUnderMutex, FixedDrawn
<1>5. documents'[Fixed] # Missing
  BY <1>2, <1>4, Names
<1>6. mu = Nobody /\ mu' = Nobody
  BY DEF Unlocked, writeVars
<1>7. /\ WriterHasSession' /\ BatchIsCopy' /\ FixedDrawn' /\ UnsentUnderMutex'
  BY <1>4, <1>5, <1>6, StoreAssumption
  DEF WriterHasSession, BatchIsCopy, FixedDrawn, UnsentUnderMutex, Unlocked, Publish
<1>8. /\ SessionTypes' /\ Has(us)'
      /\ \A other \in UserSession \ {us} : Has(other)' <=> Has(other)
  <2>1. CASE Has(us)
    BY <2>1 DEF StoreInv, SessionTypes, Has
  <2>2. CASE ~ Has(us)
    <3>1. /\ nextSequence' = nextSequence + 1
          /\ nextSequence < MaxSequence /\ nextSequence \in 0..MaxSequence
          /\ sessions' = [sessions EXCEPT ![us] = nextSequence']
      BY <2>2, StoreAssumption DEF StoreInv, SessionTypes, Sequence
    <3>2. nextSequence' \in Sequence /\ nextSequence' # Absent
      BY <3>1, StoreAssumption DEF Sequence, Absent
    <3> QED BY <2>2, <3>1, <3>2 DEF StoreInv, SessionTypes, Has
  <2> QED BY <2>1, <2>2
<1>9. Owned(documents, owners)' /\ UserDocuments'
  <2>1. ASSUME NEW other \in UserSession
        PROVE  documents'[User(other)] = IF Has(other)' THEN UserDocument(other) ELSE Missing
    BY <1>2, <1>8, Names DEF StoreInv, UserDocuments
  <2>2. UserDocuments'
    BY <2>1 DEF UserDocuments, UserDocument
  <2>3. owners' = owners
    OBVIOUS
  <2>4. \A n \in ClientName : documents'[n] = documents[n]
    BY <1>2, Names
  <2>5. \A n \in ClientName : owners[n] # Nobody => Has(owners[n])'
    BY <1>8, Names DEF StoreInv, CommitTypes, Owned
  <2> QED BY <2>2, <2>3, <2>4, <2>5 DEF StoreInv, Owned
<1>10. StreamTypes' /\ TargetsOfSubscribers' /\ ViewsFollowStore'
  <2>1. CASE Has(us)
    <3>1. \A n \in Name : documents'[n] = documents[n]
      BY <1>2, <2>1 DEF StoreInv, UserDocuments
    <3> QED BY <2>1, <3>1, StreamsAlone DEF StoreInv, StreamTypes
  <2>2. CASE ~ Has(us)
    BY <1>2, <1>4, <2>2, Names, PublishKeepsViews
  <2> QED BY <2>1, <2>2
<1> QED BY <1>3, <1>7, <1>8, <1>9, <1>10 DEF StoreInv
-----------------------------------------------------------------------------
(* WriteDocuments.                                                         *)

\* Steps that concern the writers alone.
LEMMA WritersAlone ==
  ASSUME StoreInv, UNCHANGED <<sessionVars, commitVars, outbox, streamVars>>,
         publication' \in BOOLEAN,
         WriteTypes', WriterHasSession', BatchIsCopy', UnsentUnderMutex'
  PROVE  StoreInv'
<1>1. StreamTypes' /\ TargetsOfSubscribers' /\ ViewsFollowStore'
  BY StreamsAlone DEF commitVars
<1>2. SessionTypes' /\ CommitTypes' /\ FixedDrawn'
  BY DEF StoreInv, SessionTypes, CommitTypes, FixedDrawn, sessionVars,
         commitVars, streamVars, Has
<1>3. Owned(documents, owners)' /\ UserDocuments'
  BY DEF StoreInv, Owned, UserDocuments, UserDocument, Has, sessionVars, commitVars
<1> QED BY <1>1, <1>2, <1>3 DEF StoreInv

LEMMA AuthorizeKeeps ==
  ASSUME StoreInv, NEW w \in Writer, NEW us \in UserSession, AuthorizeWrite(w, us)
  PROVE  StoreInv'
<1> USE DEF AuthorizeWrite
<1>1. WriteTypes'
  BY DEF StoreInv, SessionTypes, WriteTypes, Has
<1>2. mu = Nobody /\ mu' = Nobody
  BY DEF Unlocked
<1> QED BY <1>1, <1>2, WritersAlone, StoreAssumption
        DEF StoreInv, StreamTypes, WriterHasSession, BatchIsCopy,
            UnsentUnderMutex, Unlocked

LEMMA BeginKeeps ==
  ASSUME StoreInv, NEW w \in Writer, BeginBatch(w)
  PROVE  StoreInv'
<1> USE DEF BeginBatch
<1>1. mu = Nobody /\ outbox = {} /\ outbox' = {}
  BY DEF Unlocked, StoreInv, UnsentUnderMutex
<1>2. UNCHANGED <<sessionVars, commitVars, outbox, streamVars>>
  OBVIOUS
<1>3. UnsentUnderMutex'
  BY <1>1 DEF UnsentUnderMutex
<1>4. writer[w] \in [pc : {"authorized", "applying"}, us : UserSession, seq : Sequence]
  BY DEF StoreInv, WriteTypes, IdleWriter
<1>5. CASE Has(writer[w].us)
  <2>1. /\ mu' = w /\ publication' = TRUE
        /\ batch' = [docs |-> documents, owners |-> owners,
                     defer |-> deferments[writer[w].us], changed |-> {}, size |-> 0]
        /\ writer' = [writer EXCEPT ![w].pc = "applying"]
    BY <1>5
  <2>2. batch' \in Batch
    BY <1>4, <2>1 DEF StoreInv, CommitTypes, Batch
  <2>3. writer'[w].pc = "applying" /\ writer'[w].us = writer[w].us
    BY <1>4, <2>1 DEF StoreInv, WriteTypes
  <2>4. writer' \in [Writer -> {IdleWriter} \cup
          [pc : {"authorized", "applying"}, us : UserSession, seq : Sequence]]
    BY <1>4, <2>1 DEF StoreInv, WriteTypes
  <2>5. WriteTypes'
    BY <2>1, <2>2, <2>4 DEF WriteTypes
  <2>6. WriterHasSession'
    BY <1>2, <1>5, <2>1, <2>3 DEF WriterHasSession, Has, sessionVars
  <2>7. BatchIsCopy'
    BY <1>2, <2>1 DEF StoreInv, BatchIsCopy, Owned, Has, sessionVars, commitVars
  <2> QED BY <1>2, <1>3, <2>1, <2>5, <2>6, <2>7, WritersAlone
<1>6. CASE ~ Has(writer[w].us)
  <2>1. UNCHANGED <<mu, publication, batch>> /\ writer' = [writer EXCEPT ![w] = IdleWriter]
    BY <1>6
  <2>2. WriteTypes'
    BY <2>1 DEF StoreInv, WriteTypes
  <2> QED BY <1>1, <1>2, <1>3, <2>1, <2>2, WritersAlone, StoreAssumption
          DEF StoreInv, StreamTypes, WriterHasSession, BatchIsCopy
<1> QED BY <1>5, <1>6

\* What may become of the copies: one client document is put or deleted, by a
\* writer with a session.
LEMMA OperationKeeps ==
  ASSUME StoreInv, NEW w \in Writer, mu = w, NEW b \in Batch,
         batch' = b,
         Owned(b.docs, b.owners),
         \A n \in Name \ b.changed : b.docs[n] = documents[n],
         UNCHANGED <<sessionVars, commitVars, writer, mu, publication, outbox, streamVars>>
  PROVE  StoreInv'
<1>1. WriteTypes' /\ UnsentUnderMutex' /\ publication' \in BOOLEAN
  BY DEF StoreInv, WriteTypes, StreamTypes, UnsentUnderMutex, Unlocked
<1>2. WriterHasSession'
  BY DEF StoreInv, WriterHasSession, Has, sessionVars
<1>3. BatchIsCopy'
  BY DEF BatchIsCopy, Owned, Has, sessionVars, commitVars
<1> QED BY <1>1, <1>2, <1>3, WritersAlone

LEMMA ChangeKeeps ==
  ASSUME StoreInv, NEW w \in Writer, mu = w, NEW n \in ClientName,
         NEW value \in Value, NEW own \in UserSession \cup {Nobody},
         value = Missing <=> own = Nobody,
         own # Nobody => Has(own),
         batch' = [batch EXCEPT !.docs[n] = value, !.owners[n] = own,
                                !.changed = @ \cup {n}, !.size = @ + 1],
         UNCHANGED <<sessionVars, commitVars, writer, mu, publication, outbox, streamVars>>
  PROVE  StoreInv'
<1> DEFINE b == [docs    |-> [batch.docs EXCEPT ![n] = value],
                 owners  |-> [batch.owners EXCEPT ![n] = own],
                 defer   |-> batch.defer,
                 changed |-> batch.changed \cup {n},
                 size    |-> batch.size + 1]
<1>0. mu # Nobody
  BY StoreAssumption
<1>1. batch \in Batch
  BY DEF StoreInv, WriteTypes
<1>2. /\ batch.docs \in [Name -> Value] /\ batch.owners \in [Name -> UserSession \cup {Nobody}]
      /\ batch.defer \in SUBSET ClientName /\ batch.changed \in SUBSET ClientName
      /\ batch.size \in Nat
  BY <1>1 DEF Batch
<1>3. batch' = b
  BY <1>1 DEF Batch
<1>4. /\ b.docs \in [Name -> Value] /\ b.owners \in [Name -> UserSession \cup {Nobody}]
      /\ b.docs[n] = value /\ b.owners[n] = own
      /\ \A m \in Name \ {n} : b.docs[m] = batch.docs[m] /\ b.owners[m] = batch.owners[m]
  BY <1>2, Names
<1>5. b \in Batch
  BY <1>2, <1>4 DEF Batch
<1>6. /\ Owned(batch.docs, batch.owners)
      /\ \A m \in Name \ batch.changed : batch.docs[m] = documents[m]
  BY <1>0 DEF StoreInv, BatchIsCopy
<1>7. \A m \in Name \ b.changed : b.docs[m] = documents[m]
  BY <1>4, <1>6
<1>8. Owned(b.docs, b.owners)
  BY <1>4, <1>6, Names DEF Owned
<1> HIDE DEF b
<1> QED BY <1>3, <1>5, <1>7, <1>8, OperationKeeps

LEMMA DefermentKeeps ==
  ASSUME StoreInv, NEW w \in Writer, mu = w, NEW defer \in SUBSET ClientName,
         batch' = [batch EXCEPT !.defer = defer, !.size = @ + 1],
         UNCHANGED <<sessionVars, commitVars, writer, mu, publication, outbox, streamVars>>
  PROVE  StoreInv'
<1>0. mu # Nobody
  BY StoreAssumption
<1>1. batch \in Batch
  BY DEF StoreInv, WriteTypes
<1>2. /\ batch.docs \in [Name -> Value] /\ batch.owners \in [Name -> UserSession \cup {Nobody}]
      /\ batch.changed \in SUBSET ClientName /\ batch.size \in Nat
  BY <1>1 DEF Batch
<1>3. PICK b : b = [docs |-> batch.docs, owners |-> batch.owners, defer |-> defer,
                    changed |-> batch.changed, size |-> batch.size + 1]
  OBVIOUS
<1>4. batch' = b
  <2>1. batch = [docs |-> batch.docs, owners |-> batch.owners, defer |-> batch.defer,
                 changed |-> batch.changed, size |-> batch.size]
    BY <1>1 DEF Batch
  <2>2. PICK d, o, e, c, z : /\ d = batch.docs /\ o = batch.owners
                             /\ e = batch.defer /\ c = batch.changed /\ z = batch.size
    OBVIOUS
  <2>3. batch = [docs |-> d, owners |-> o, defer |-> e, changed |-> c, size |-> z]
    BY <2>1, <2>2
  <2>4. batch' = [docs |-> d, owners |-> o, defer |-> defer, changed |-> c, size |-> z + 1]
    BY <2>3
  <2> QED BY <1>3, <2>2, <2>4
<1>5. b \in Batch
  BY <1>2, <1>3 DEF Batch
<1>6. b.docs = batch.docs /\ b.owners = batch.owners /\ b.changed = batch.changed
  BY <1>3
<1> QED BY <1>0, <1>4, <1>5, <1>6, OperationKeeps DEF StoreInv, BatchIsCopy

LEMMA PutKeeps ==
  ASSUME StoreInv, NEW w \in Writer, NEW n \in ClientName, NEW content \in Content,
         PutDocument(w, n, content)
  PROVE  StoreInv'
<1>1. mu = w /\ writer[w].pc = "applying" /\ Has(writer[w].us)
  BY DEF PutDocument, StoreInv, WriterHasSession
<1>2. writer[w].us \in UserSession /\ writer[w].us # Nobody
  BY <1>1, StoreAssumption DEF StoreInv, WriteTypes, IdleWriter
<1>3. content \in Value /\ content # Missing
  BY Values
<1> QED BY <1>1, <1>2, <1>3, ChangeKeeps DEF PutDocument

LEMMA DeleteKeeps ==
  ASSUME StoreInv, NEW w \in Writer, NEW n \in ClientName, DeleteDocument(w, n)
  PROVE  StoreInv'
BY Values, ChangeKeeps DEF DeleteDocument

LEMMA DefersKeep ==
  ASSUME StoreInv, NEW w \in Writer, NEW n \in ClientName,
         DeferDelete(w, n) \/ CancelDeferment(w, n)
  PROVE  StoreInv'
<1>1. batch.defer \in SUBSET ClientName
  BY DEF StoreInv, WriteTypes, Batch
<1>2. CASE DeferDelete(w, n)
  <2>1. (batch.defer \cup {n}) \in SUBSET ClientName
    BY <1>1
  <2> QED BY <1>2, <2>1, DefermentKeeps DEF DeferDelete
<1>3. CASE CancelDeferment(w, n)
  <2>1. (batch.defer \ {n}) \in SUBSET ClientName
    BY <1>1
  <2> QED BY <1>3, <2>1, DefermentKeeps DEF CancelDeferment
<1> QED BY <1>2, <1>3

LEMMA RefuseKeeps ==
  ASSUME StoreInv, NEW w \in Writer, RefuseBatch(w)
  PROVE  StoreInv'
<1>1. mu' = Nobody /\ mu # Nobody
  BY StoreAssumption DEF RefuseBatch
<1>2. outbox = {} /\ outbox' = {}
  BY <1>1 DEF RefuseBatch, StoreInv, UnsentUnderMutex, Unlocked
<1>3. WriteTypes'
  BY NoBatchTyped DEF RefuseBatch, StoreInv, WriteTypes
<1> QED BY <1>1, <1>2, <1>3, WritersAlone, StoreAssumption
        DEF RefuseBatch, WriterHasSession, BatchIsCopy, UnsentUnderMutex

LEMMA CommitKeeps ==
  ASSUME StoreInv, NEW w \in Writer, CommitBatch(w)
  PROVE  StoreInv'
<1> USE DEF CommitBatch
<1>1. /\ mu # Nobody /\ mu' = Nobody /\ outbox = {}
      /\ writer[w].pc = "applying" /\ Has(writer[w].us)
  BY StoreAssumption DEF StoreInv, UnsentUnderMutex, Unlocked, WriterHasSession
<1>2. batch \in Batch /\ writer[w].us \in UserSession
  BY <1>1 DEF StoreInv, WriteTypes, IdleWriter
<1>3. /\ Owned(batch.docs, batch.owners)
      /\ \A n \in Name \ batch.changed : batch.docs[n] = documents[n]
      /\ batch.changed \in SUBSET ClientName
  BY <1>1, <1>2 DEF StoreInv, BatchIsCopy, Batch
<1>4. /\ \A n \in Name \ batch.changed : documents'[n] = documents[n]
      /\ documents'[Fixed] = documents[Fixed]
      /\ \A us \in UserSession : documents'[User(us)] = documents[User(us)]
  BY <1>3, Names
<1>5. SessionTypes' /\ CommitTypes' /\ WriteTypes'
  BY <1>2, NoBatchTyped
  DEF StoreInv, SessionTypes, CommitTypes, WriteTypes, Batch, sessionVars
<1>6. batch.changed \in SUBSET Name
  BY <1>3, Names
<1>7. StreamTypes' /\ TargetsOfSubscribers' /\ ViewsFollowStore'
  BY <1>1, <1>4, <1>6, PublishKeepsViews
<1>8. Owned(documents, owners)' /\ UserDocuments'
  BY <1>3, <1>4
  DEF StoreInv, Owned, UserDocuments, UserDocument, Has, sessionVars
<1>9. FixedDrawn'
  BY <1>1, <1>2, <1>4 DEF StoreInv, FixedDrawn
<1> QED BY <1>1, <1>5, <1>7, <1>8, <1>9, StoreAssumption
        DEF StoreInv, WriterHasSession, BatchIsCopy, UnsentUnderMutex,
            Unlocked, Publish
-----------------------------------------------------------------------------
(* Streams, publication and expiry.                                        *)

\* Steps that leave the sessions, the store and the writers alone.
LEMMA StoreAlone ==
  ASSUME StoreInv, UNCHANGED <<sessionVars, commitVars, writeVars>>,
         StreamTypes', FixedDrawn', UnsentUnderMutex', TargetsOfSubscribers',
         ViewsFollowStore'
  PROVE  StoreInv'
BY DEF StoreInv, SessionTypes, CommitTypes, WriteTypes, WriterHasSession,
       Owned, UserDocuments, UserDocument, BatchIsCopy, Has, sessionVars,
       commitVars, writeVars

LEMMA SendKeeps ==
  ASSUME StoreInv, NEW n \in Name, NEW s \in Stream, Send(n, s)
  PROVE  StoreInv'
<1> USE DEF Send
<1>1. documents[n] \in Value
  BY DEF StoreInv, CommitTypes
<1>2. /\ \A t \in Stream : \A m \in Name :
           view'[t][m] = IF t = s /\ m = n /\ n \in targets[s]
                         THEN documents[n] ELSE view[t][m]
      /\ view' \in [Stream -> [Name -> Value]]
  BY <1>1 DEF StoreInv, StreamTypes
<1>3. StreamTypes' /\ TargetsOfSubscribers'
  BY <1>2 DEF StoreInv, StreamTypes, TargetsOfSubscribers
<1>4. ViewsFollowStore'
  <2>1. ASSUME NEW t \in Stream, NEW m \in targets[t], <<m, t>> \notin outbox'
        PROVE  view'[t][m] = documents[m]
    <3>1. m \in Name
      BY DEF StoreInv, StreamTypes
    <3>2. CASE <<m, t>> = <<n, s>>
      BY <1>2, <3>1, <3>2
    <3>3. CASE <<m, t>> # <<n, s>>
      BY <1>2, <2>1, <3>1, <3>3 DEF StoreInv, ViewsFollowStore
    <3> QED BY <3>2, <3>3
  <2> QED BY <2>1 DEF ViewsFollowStore, commitVars
<1>5. FixedDrawn' /\ UnsentUnderMutex'
  BY DEF StoreInv, FixedDrawn, UnsentUnderMutex, Unlocked, Has, sessionVars,
         commitVars, writeVars
<1> QED BY <1>3, <1>4, <1>5, StoreAlone

LEMMA FinishKeeps ==
  ASSUME StoreInv, FinishPublication
  PROVE  StoreInv'
BY StoreAlone
DEF FinishPublication, StoreInv, StreamTypes, FixedDrawn, UnsentUnderMutex,
    TargetsOfSubscribers, ViewsFollowStore, Unlocked, Has, sessionVars,
    commitVars, writeVars, streamVars

LEMMA OpenKeeps ==
  ASSUME StoreInv, NEW s \in Stream, NEW us \in UserSession, OpenStream(s, us)
  PROVE  StoreInv'
<1> USE DEF OpenStream
<1>1. /\ StreamTypes' /\ UnsentUnderMutex' /\ TargetsOfSubscribers'
      /\ ViewsFollowStore'
  BY StoreAssumption
  DEF StoreInv, StreamTypes, UnsentUnderMutex, TargetsOfSubscribers,
      ViewsFollowStore, Unlocked, writeVars, commitVars
<1>2. FixedDrawn'
  BY DEF StoreInv, FixedDrawn, sessionVars, commitVars
<1> QED BY <1>1, <1>2, StoreAlone

LEMMA UpdateTargetKeeps ==
  ASSUME StoreInv, NEW s \in Stream, NEW names \in SUBSET Name,
         UpdateTarget(s, names)
  PROVE  StoreInv'
<1> USE DEF UpdateTarget
<1>1. CommittedSnapshot(view[s], names) \in [Name -> Value]
  BY DEF CommittedSnapshot, StoreInv, StreamTypes, CommitTypes
<1>2. /\ StreamTypes'
      /\ targets'[s] = names /\ view'[s] = CommittedSnapshot(view[s], names)
      /\ \A t \in Stream \ {s} : targets'[t] = targets[t] /\ view'[t] = view[t]
  BY <1>1 DEF StoreInv, StreamTypes
<1>3. \A n \in names : view'[s][n] = documents[n]
  BY <1>2 DEF CommittedSnapshot
<1>4. ViewsFollowStore' /\ TargetsOfSubscribers'
  BY <1>2, <1>3 DEF StoreInv, ViewsFollowStore, TargetsOfSubscribers, commitVars
<1>5. FixedDrawn' /\ UnsentUnderMutex'
  BY DEF StoreInv, FixedDrawn, UnsentUnderMutex, Unlocked, Has, sessionVars,
         commitVars, writeVars
<1> QED BY <1>2, <1>4, <1>5, StoreAlone

LEMMA LeavingKeeps ==
  ASSUME StoreInv, NEW s \in Stream, DeleteTarget(s) \/ CloseStream(s)
  PROVE  StoreInv'
<1>1. /\ targets' = [targets EXCEPT ![s] = {}]
      /\ UNCHANGED <<view, publication, sessionVars, commitVars, writeVars>>
      /\ \/ subscribers' = subscribers /\ outbox' = outbox
         \/ /\ subscribers' = [subscribers EXCEPT ![s] = Nobody]
            /\ outbox' = {p \in outbox : p[2] # s}
  BY DEF DeleteTarget, CloseStream
<1>2. StreamTypes' /\ TargetsOfSubscribers'
  BY <1>1 DEF StoreInv, StreamTypes, TargetsOfSubscribers
<1>3. ViewsFollowStore'
  <2>1. ASSUME NEW t \in Stream, NEW m \in targets'[t], <<m, t>> \notin outbox'
        PROVE  view[t][m] = documents[m]
    <3>1. t # s /\ m \in targets[t]
      BY <1>1 DEF StoreInv, StreamTypes
    <3>2. <<m, t>> \notin outbox
      BY <1>1, <2>1, <3>1
    <3> QED BY <3>1, <3>2 DEF StoreInv, ViewsFollowStore
  <2> QED BY <1>1, <2>1 DEF ViewsFollowStore, commitVars
<1>4. FixedDrawn' /\ UnsentUnderMutex'
  BY <1>1
  DEF StoreInv, StreamTypes, FixedDrawn, UnsentUnderMutex, Unlocked, Has,
      sessionVars, commitVars, writeVars
<1> QED BY <1>1, <1>2, <1>3, <1>4, StoreAlone

LEMMA LeftoverNames ==
  ASSUME StoreInv, NEW us \in UserSession
  PROVE  /\ Leftovers(us) \in SUBSET Name
         /\ \A n \in Name \ ClientName : n \in Leftovers(us) <=> n = User(us)
         /\ \A n \in ClientName : n \in Leftovers(us) <=> owners[n] = us
<1>1. \A n \in Name \ ClientName : owners[n] # us
  BY StoreAssumption DEF StoreInv, Owned
<1>2. deferments[us] \subseteq ClientName
  BY DEF StoreInv, CommitTypes
<1> QED BY <1>1, <1>2, Names DEF Leftovers

LEMMA ExpireKeeps ==
  ASSUME StoreInv, NEW us \in UserSession, ExpireSession(us)
  PROVE  StoreInv'
<1> USE DEF ExpireSession
<1>1. PICK gone : gone = Leftovers(us)
  OBVIOUS
<1>2. /\ documents' = [n \in Name |-> IF n \in gone THEN Missing ELSE documents[n]]
      /\ owners' = [n \in Name |-> IF n \in gone THEN Nobody ELSE owners[n]]
      /\ Publish(gone) /\ gone \in SUBSET Name
  BY <1>1, LeftoverNames
<1>3. /\ \A n \in Name \ ClientName : n \in gone <=> n = User(us)
      /\ \A n \in ClientName : n \in gone <=> owners[n] = us
  BY <1>1, LeftoverNames
<1>4. outbox = {} /\ mu = Nobody /\ mu' = Nobody /\ documents[Fixed] # Missing
  BY DEF StoreInv, UnsentUnderMutex, FixedDrawn, Unlocked, writeVars
<1>5. StreamTypes' /\ TargetsOfSubscribers' /\ ViewsFollowStore'
  BY <1>2, <1>4, PublishKeepsViews
<1>6. SessionTypes' /\ CommitTypes' /\ WriteTypes'
  BY <1>2, Values DEF StoreInv, SessionTypes, CommitTypes, WriteTypes, writeVars
<1>7. /\ ~ Has(us)'
      /\ \A other \in UserSession \ {us} : Has(other)' <=> Has(other)
  BY DEF StoreInv, SessionTypes, Has
<1>8. Owned(documents, owners)'
  <2>1. ASSUME NEW n \in ClientName
        PROVE  documents'[n] = Missing <=> owners'[n] = Nobody
    BY <1>2, Names DEF StoreInv, Owned
  <2>2. ASSUME NEW n \in ClientName, owners'[n] # Nobody
        PROVE  sessions'[owners'[n]] # Absent
    <3>1. owners'[n] = owners[n] /\ owners[n] # us /\ owners[n] \in UserSession
      BY <1>2, <1>3, <2>2, Names DEF StoreInv, CommitTypes
    <3>2. Has(owners[n])
      BY <2>2, <3>1 DEF StoreInv, Owned
    <3> QED BY <1>7, <3>1, <3>2 DEF Has
  <2>3. \A n \in Name \ ClientName : owners'[n] = Nobody
    BY <1>2 DEF StoreInv, Owned
  <2> QED BY <2>1, <2>2, <2>3 DEF Owned, Has
<1>9. UserDocuments'
  <2>1. ASSUME NEW other \in UserSession
        PROVE  documents'[User(other)] = IF Has(other)' THEN UserDocument(other) ELSE Missing
    BY <1>2, <1>3, <1>7, Names DEF StoreInv, UserDocuments
  <2> QED BY <2>1 DEF UserDocuments, UserDocument
<1>10. FixedDrawn'
  BY <1>2, <1>3, <1>4, Names DEF FixedDrawn
<1> QED BY <1>2, <1>4, <1>5, <1>6, <1>8, <1>9, <1>10, StoreAssumption
        DEF StoreInv, WriterHasSession, BatchIsCopy, UnsentUnderMutex,
            Unlocked, Publish
-----------------------------------------------------------------------------
LEMMA StoreStep == StoreInv /\ [Next]_vars => StoreInv'
<1> SUFFICES ASSUME StoreInv, [Next]_vars PROVE StoreInv'
  OBVIOUS
<1>1. CASE UNCHANGED vars
  BY <1>1, StoreAlone
  DEF vars, StoreInv, StreamTypes, FixedDrawn, UnsentUnderMutex,
      TargetsOfSubscribers, ViewsFollowStore, Unlocked, Has, sessionVars,
      commitVars, writeVars, streamVars
<1>2. ASSUME NEW us \in UserSession, Issuing(us) \/ ExpireSession(us)
      PROVE  StoreInv'
  BY <1>2, FixedKeeps, RememberKeeps, ExpireKeeps DEF Issuing
<1>3. ASSUME NEW w \in Writer, Writing(w)
      PROVE  StoreInv'
  BY <1>3, AuthorizeKeeps, BeginKeeps, PutKeeps, DeleteKeeps, DefersKeep,
     RefuseKeeps, CommitKeeps
  DEF Writing
<1>4. ASSUME NEW s \in Stream, Streaming(s)
      PROVE  StoreInv'
  BY <1>4, OpenKeeps, UpdateTargetKeeps, LeavingKeeps, TargetsAreNames DEF Streaming
<1>5. ASSUME NEW n \in Name, NEW s \in Stream, Send(n, s)
      PROVE  StoreInv'
  BY <1>5, SendKeeps
<1> QED BY <1>1, <1>2, <1>3, <1>4, <1>5, FinishKeeps DEF Next

(***************************************************************************)
(* Every variable of the store keeps its type, for any members, documents, *)
(* writers and streams (writeDocuments, gamesync_store.go:168).            *)
(***************************************************************************)
THEOREM StoreTypes == Spec => []TypeOK
<1>1. StoreInv => TypeOK
  BY DEF StoreInv, SessionTypes, CommitTypes, WriteTypes, StreamTypes, TypeOK
<1> QED BY StoreInit, StoreStep, <1>1, PTL DEF Spec

(***************************************************************************)
(* No race of a write with the expiry of its writer and no sequence of     *)
(* overwrites leaves a document nobody owns, or whose owner has left, and  *)
(* the user documents are those of the members with a session              *)
(* (expireSession, gamesync_store.go:680).                                 *)
(***************************************************************************)
THEOREM MembersOwn == Spec => []OwnersAreMembers
<1>1. StoreInv => OwnersAreMembers
  BY Values DEF StoreInv, Owned, UserDocuments, OwnersAreMembers
<1> QED BY StoreInit, StoreStep, <1>1, PTL DEF Spec

(***************************************************************************)
(* A user document is written when its session is remembered               *)
(* (rememberSession, gamesync.go:205) and goes when it expires: at all     *)
(* times they are exactly those of the users with a session, as these are  *)
(* now, whatever the writers of other documents do in between.             *)
(***************************************************************************)
THEOREM UserDocumentsFollowSessions == Spec => []UserDocuments
<1>1. StoreInv => UserDocuments
  BY DEF StoreInv
<1> QED BY StoreInit, StoreStep, <1>1, PTL DEF Spec

(***************************************************************************)
(* However commits, subscriptions and messages interleave, a stream has    *)
(* been shown what it watches as it is committed, up to the messages the   *)
(* holder of the publication mutex has still to send (gamesync.go:162).    *)
(***************************************************************************)
THEOREM ViewsFollow == Spec => []ViewsFollowStore
<1>1. StoreInv => ViewsFollowStore
  BY DEF StoreInv
<1> QED BY StoreInit, StoreStep, <1>1, PTL DEF Spec

\* The steps that change the store, and what each leaves alone.
LEMMA WhoChangesDocuments ==
  ASSUME StoreInv, [Next]_vars, documents' # documents
  PROVE  \/ documents[Fixed] = Missing
         \/ ~ publication /\ \E us \in UserSession : RememberSession(us) \/ ExpireSession(us)
         \/ ~ Unlocked /\ \E w \in Writer : CommitBatch(w)
<1>1. ASSUME NEW us \in UserSession, NEW seed \in Data, InitializeFixedData(us, seed)
      PROVE  documents[Fixed] = Missing
  BY <1>1 DEF InitializeFixedData
<1>2. ASSUME NEW w \in Writer, Writing(w)
      PROVE  CommitBatch(w) /\ ~ Unlocked
  BY <1>2, StoreAssumption
  DEF Writing, AuthorizeWrite, BeginBatch, PutDocument, DeleteDocument,
      DeferDelete, CancelDeferment, RefuseBatch, CommitBatch, commitVars, Unlocked
<1>3. ASSUME NEW s \in Stream, Streaming(s) \/ \E n \in Name : Send(n, s)
      PROVE  FALSE
  BY <1>3 DEF Streaming, OpenStream, UpdateTarget, DeleteTarget, CloseStream,
              Send, commitVars
<1>4. ~ FinishPublication /\ ~ UNCHANGED vars
  BY DEF FinishPublication, vars, commitVars
<1>5. \A us \in UserSession : RememberSession(us) \/ ExpireSession(us) => ~ publication
  BY DEF RememberSession, ExpireSession
<1> QED BY <1>1, <1>2, <1>3, <1>4, <1>5 DEF Next, Issuing

(***************************************************************************)
(* No interleaving has the map written while a holder of the publication   *)
(* mutex reads it without mu (publish, gamesync.go:53).                    *)
(***************************************************************************)
THEOREM MapUntouchedWhileSending == Spec => MapStableWhileSending
<1>1. StoreInv /\ [Next]_vars => (outbox # {} => documents' = documents)
  BY WhoChangesDocuments DEF StoreInv, FixedDrawn, UnsentUnderMutex
<1> QED BY StoreInit, StoreStep, <1>1, PTL DEF Spec, MapStableWhileSending

(***************************************************************************)
(* The fixed data of a game session, once drawn, is never changed or lost  *)
(* by any token, batch or departure (initializeFixedData,                  *)
(* gamesync_store.go:36).                                                  *)
(***************************************************************************)
THEOREM FixedDataStays == Spec => FixedDataStable
<1>1. ASSUME StoreInv, [Next]_vars, documents[Fixed] # Missing
      PROVE  documents'[Fixed] = documents[Fixed]
  <2>1. SUFFICES ASSUME documents' # documents
                 PROVE  documents'[Fixed] = documents[Fixed]
    OBVIOUS
  <2>2. ASSUME NEW us \in UserSession, RememberSession(us)
        PROVE  documents'[Fixed] = documents[Fixed]
    BY <1>1, <2>2, Names DEF RememberSession, StoreInv, CommitTypes
  <2>3. ASSUME NEW us \in UserSession, ExpireSession(us)
        PROVE  documents'[Fixed] = documents[Fixed]
    BY <1>1, <2>3, Names, LeftoverNames DEF ExpireSession
  <2>4. ASSUME NEW w \in Writer, CommitBatch(w)
        PROVE  documents'[Fixed] = documents[Fixed]
    <3>1. mu # Nobody /\ Fixed \in Name \ batch.changed
      BY <1>1, <2>4, Names, StoreAssumption
      DEF CommitBatch, StoreInv, WriteTypes, Batch
    <3> QED BY <1>1, <2>4, <3>1 DEF CommitBatch, StoreInv, BatchIsCopy
  <2> QED BY <1>1, <2>1, <2>2, <2>3, <2>4, WhoChangesDocuments
<1>2. StoreInv /\ [Next]_vars =>
        (documents[Fixed] # Missing => documents'[Fixed] = documents[Fixed])
  BY <1>1
<1> QED BY StoreInit, StoreStep, <1>2, PTL DEF Spec, FixedDataStable

(***************************************************************************)
(* Whoever departs takes along no document that somebody else wrote last   *)
(* (expireSession, gamesync_store.go:701).                                 *)
(***************************************************************************)
THEOREM MailStays == Spec => MailSurvivesRecipient
<1>1. ASSUME StoreInv, [Next]_vars, NEW us \in UserSession,
             Has(us), sessions'[us] = Absent,
             NEW n \in ClientName, owners[n] # us
      PROVE  documents'[n] = documents[n]
  <2>1. ExpireSession(us)
    <3>1. \A other \in UserSession, seed \in Data : ~ InitializeFixedData(other, seed)
      BY <1>1 DEF InitializeFixedData, Has
    <3>2. \A other \in UserSession : ~ RememberSession(other)
      <4>1. SUFFICES ASSUME NEW other \in UserSession, RememberSession(other)
                     PROVE  FALSE
        OBVIOUS
      <4>2. ~ Has(other)
        BY <1>1, <4>1 DEF RememberSession, Has
      <4>3. /\ sessions' = [sessions EXCEPT ![other] = nextSequence + 1]
            /\ nextSequence \in Nat /\ us # other
        BY <1>1, <4>1, <4>2, StoreAssumption
        DEF RememberSession, StoreInv, SessionTypes, Sequence
      <4> QED BY <1>1, <4>3 DEF Has, StoreInv, SessionTypes
    <3>3. \A w \in Writer : ~ Writing(w)
      BY <1>1
      DEF Writing, AuthorizeWrite, BeginBatch, PutDocument, DeleteDocument,
          DeferDelete, CancelDeferment, RefuseBatch, CommitBatch, sessionVars, Has
    <3>4. \A s \in Stream : ~ Streaming(s) /\ \A m \in Name : ~ Send(m, s)
      BY <1>1
      DEF Streaming, OpenStream, UpdateTarget, DeleteTarget, CloseStream, Send,
          sessionVars, Has
    <3>5. ~ FinishPublication /\ ~ UNCHANGED vars
      BY <1>1 DEF FinishPublication, vars, sessionVars, Has
    <3>6. \A other \in UserSession : ExpireSession(other) => other = us
      BY <1>1 DEF ExpireSession, StoreInv, SessionTypes, Has
    <3> QED BY <1>1, <3>1, <3>2, <3>3, <3>4, <3>5, <3>6 DEF Next, Issuing
  <2>2. n \notin Leftovers(us) /\ n \in Name
    BY <1>1, LeftoverNames, Names
  <2> QED BY <2>1, <2>2 DEF ExpireSession
<1>2. StoreInv /\ [Next]_vars =>
        \A us \in UserSession : Has(us) /\ sessions'[us] = Absent
          => \A n \in ClientName : owners[n] # us => documents'[n] = documents[n]
  BY <1>1
<1> QED BY StoreInit, StoreStep, <1>2, PTL DEF Spec, MailSurvivesRecipient
-----------------------------------------------------------------------------
(* The store implements ObservedStore.                                     *)

\* The store has changed, and what streams watch of the change is unsent.
LEMMA CommitIsChange ==
  ASSUME StoreInv, StoreInv', outbox = {}, UNCHANGED streamVars,
         \A s \in Stream : \A n \in targets[s] :
           <<n, s>> \in outbox' \/ documents'[n] = documents[n]
  PROVE  Observed!Change
<1>1. documents' \in [Name -> Value] /\ outbox' \in SUBSET (Name \X Stream)
  BY DEF StoreInv, CommitTypes, StreamTypes
<1>2. targets' = targets /\ view' = view
  BY DEF streamVars
<1>3. {p \in outbox' : p[1] \in targets[p[2]]} \in SUBSET Observed!Watching
  BY <1>1 DEF Observed!Watching
<1>4. ASSUME NEW p \in Observed!Watching, p \notin {q \in outbox' : q[1] \in targets[q[2]]}
      PROVE  documents'[p[1]] = documents[p[1]]
  BY <1>4 DEF Observed!Watching
<1> QED BY <1>1, <1>2, <1>3, <1>4 DEF Observed!Change

\* A publication of the names that have changed is such a change.
LEMMA PublishIsChange ==
  ASSUME StoreInv, StoreInv', outbox = {}, UNCHANGED streamVars,
         NEW names \in SUBSET Name, Publish(names),
         \A n \in Name \ names : documents'[n] = documents[n]
  PROVE  Observed!Change
<1>1. ASSUME NEW s \in Stream, NEW n \in targets[s]
      PROVE  <<n, s>> \in outbox' \/ documents'[n] = documents[n]
  <2>1. s \in Subscribed /\ n \in Name
    BY DEF StoreInv, TargetsOfSubscribers, Subscribed, StreamTypes
  <2> QED BY <2>1 DEF Publish
<1> QED BY <1>1, CommitIsChange

LEMMA WritesAreChanges ==
  ASSUME StoreInv, StoreInv', [Next]_vars, documents' # documents
  PROVE  Observed!Change
<1>1. CASE documents[Fixed] = Missing
  <2>1. /\ \A s \in Stream : targets[s] = {} /\ subscribers[s] = Nobody
        /\ outbox = {} /\ issuing = {} /\ \A us \in UserSession : ~ Has(us)
    BY <1>1 DEF StoreInv, FixedDrawn, TargetsOfSubscribers
  <2>2. UNCHANGED streamVars
    <3>1. \A us \in UserSession : Issuing(us) \/ ExpireSession(us) => UNCHANGED streamVars
      BY DEF Issuing, InitializeFixedData, RememberSession, ExpireSession
    <3>2. \A w \in Writer : Writing(w) => UNCHANGED streamVars
      BY DEF Writing, AuthorizeWrite, BeginBatch, PutDocument, DeleteDocument,
             DeferDelete, CancelDeferment, RefuseBatch, CommitBatch
    <3>3. \A s \in Stream : ~ Streaming(s) /\ \A n \in Name : ~ Send(n, s)
      BY DEF Streaming, OpenStream, UpdateTarget, DeleteTarget, CloseStream, Send,
             commitVars
    <3> QED BY <3>1, <3>2, <3>3 DEF Next, FinishPublication, vars
  <2> QED BY <2>1, <2>2, CommitIsChange
<1>2. ASSUME NEW us \in UserSession, RememberSession(us)
      PROVE  Observed!Change
  <2>1. \A n \in Name \ {User(us)} : documents'[n] = documents[n]
    BY <1>2 DEF RememberSession, StoreInv, CommitTypes
  <2>2. ~ Has(us)
    <3>1. CASE Has(us)
      BY <1>2, <2>1, <3>1, Names
      DEF RememberSession, StoreInv, UserDocuments, CommitTypes
    <3> QED BY <3>1
  <2>3. outbox = {} /\ UNCHANGED streamVars /\ Publish({User(us)})
    BY <1>2, <2>2 DEF RememberSession, StoreInv, UnsentUnderMutex
  <2> QED BY <2>1, <2>3, Names, PublishIsChange
<1>3. ASSUME NEW us \in UserSession, ExpireSession(us)
      PROVE  Observed!Change
  <2>1. outbox = {} /\ UNCHANGED streamVars
    BY <1>3 DEF ExpireSession, StoreInv, UnsentUnderMutex
  <2>2. /\ Leftovers(us) \in SUBSET Name /\ Publish(Leftovers(us))
        /\ \A n \in Name \ Leftovers(us) : documents'[n] = documents[n]
    BY <1>3, LeftoverNames DEF ExpireSession
  <2> QED BY <2>1, <2>2, PublishIsChange
<1>4. ASSUME NEW w \in Writer, CommitBatch(w)
      PROVE  Observed!Change
  <2>1. mu # Nobody /\ outbox = {} /\ UNCHANGED streamVars
    BY <1>4, StoreAssumption DEF CommitBatch, StoreInv, UnsentUnderMutex, Unlocked
  <2>2. batch.changed \in SUBSET Name
    BY Names DEF StoreInv, WriteTypes, Batch
  <2>3. /\ Publish(batch.changed)
        /\ \A n \in Name \ batch.changed : documents'[n] = documents[n]
    BY <1>4, <2>1 DEF CommitBatch, StoreInv, BatchIsCopy
  <2> QED BY <2>1, <2>2, <2>3, PublishIsChange
<1> QED BY <1>1, <1>2, <1>3, <1>4, WhoChangesDocuments

LEMMA SendIsShow ==
  ASSUME StoreInv, NEW n \in Name, NEW s \in Stream, Send(n, s)
  PROVE  Observed!Show(n, s) \/ UNCHANGED Observed!storeVars
<1> USE DEF Send
<1>1. documents' = documents /\ targets' = targets
  BY DEF commitVars
<1>2. CASE n \in targets[s]
  <2>1. {p \in outbox' : p[1] \in targets[p[2]]}
          = {p \in outbox : p[1] \in targets[p[2]]} \ {<<n, s>>}
    OBVIOUS
  <2>2. <<n, s>> \in {p \in outbox : p[1] \in targets[p[2]]}
    BY <1>2
  <2> QED BY <1>1, <1>2, <2>1, <2>2 DEF Observed!Show
<1>3. CASE n \notin targets[s]
  <2>1. {p \in outbox' : p[1] \in targets[p[2]]} = {p \in outbox : p[1] \in targets[p[2]]}
    BY <1>3
  <2> QED BY <1>1, <1>3, <2>1 DEF Observed!storeVars
<1> QED BY <1>2, <1>3

LEMMA TargetIsWatch ==
  ASSUME StoreInv, StoreInv', NEW s \in Stream, NEW names \in SUBSET Name,
         UpdateTarget(s, names)
  PROVE  Observed!Watch(s)
<1> USE DEF UpdateTarget
<1>1. outbox = {} /\ outbox' = {} /\ documents' = documents
  BY DEF StoreInv, UnsentUnderMutex, commitVars
<1>2. /\ targets' \in [Stream -> SUBSET Name] /\ targets'[s] = names
      /\ \A t \in Stream \ {s} : targets'[t] = targets[t]
  BY DEF StoreInv, StreamTypes
<1>3. view' = [view EXCEPT ![s] =
                 [n \in Name |-> IF n \in targets'[s] THEN documents[n] ELSE @[n]]]
  BY <1>2 DEF CommittedSnapshot
<1> QED BY <1>1, <1>2, <1>3 DEF Observed!Watch

LEMMA LeavingIsUnwatch ==
  ASSUME StoreInv, NEW s \in Stream, DeleteTarget(s) \/ CloseStream(s)
  PROVE  Observed!Unwatch(s)
<1>1. /\ targets' = [targets EXCEPT ![s] = {}]
      /\ documents' = documents /\ view' = view
      /\ outbox' = outbox \/ outbox' = {p \in outbox : p[2] # s}
  BY DEF DeleteTarget, CloseStream, commitVars
<1>2. \A p \in outbox : p[2] \in Stream
  BY DEF StoreInv, StreamTypes
<1>3. \A p \in outbox : p[1] \in targets'[p[2]] <=> p[2] # s /\ p[1] \in targets[p[2]]
  BY <1>1, <1>2 DEF StoreInv, StreamTypes
<1>4. {p \in outbox' : p[1] \in targets'[p[2]]}
        = {p \in {q \in outbox : q[1] \in targets[q[2]]} : p[2] # s}
  BY <1>1, <1>3
<1> QED BY <1>1, <1>4 DEF Observed!Unwatch

LEMMA ObservedInit == Init => Observed!Init
<1> SUFFICES ASSUME Init PROVE Observed!Init
  OBVIOUS
<1>1. CommitTypes /\ StreamTypes
  BY StoreInit DEF StoreInv
<1> QED BY <1>1 DEF Init, CommitTypes, StreamTypes, Observed!Init

\* Steps that change no document are of a stream, or nobody sees them.
LEMMA ObservedStep ==
  ASSUME StoreInv, StoreInv', [Next]_vars
  PROVE  [Observed!Next]_(Observed!storeVars)
<1>1. CASE documents' # documents
  BY <1>1, WritesAreChanges DEF Observed!Next
<1>2. ASSUME NEW n \in Name, NEW s \in Stream, Send(n, s)
      PROVE  Observed!Next \/ UNCHANGED Observed!storeVars
  BY <1>2, SendIsShow DEF Observed!Next
<1>3. ASSUME NEW s \in Stream, Streaming(s)
      PROVE  Observed!Next \/ UNCHANGED Observed!storeVars
  <2>1. ASSUME NEW us \in UserSession, OpenStream(s, us)
        PROVE  UNCHANGED Observed!storeVars
    BY <2>1 DEF OpenStream, Observed!storeVars, commitVars
  <2> QED BY <1>3, <2>1, TargetIsWatch, LeavingIsUnwatch, TargetsAreNames
          DEF Streaming, Observed!Next
<1>4. ASSUME documents' = documents,
             \/ \E us \in UserSession : Issuing(us) \/ ExpireSession(us)
             \/ \E w \in Writer : Writing(w)
      PROVE  Observed!Next \/ UNCHANGED Observed!storeVars
  <2>1. UNCHANGED streamVars
    BY <1>4
    DEF Issuing, InitializeFixedData, RememberSession, ExpireSession,
        Writing, AuthorizeWrite, BeginBatch, PutDocument, DeleteDocument,
        DeferDelete, CancelDeferment, RefuseBatch, CommitBatch
  <2>2. outbox' = outbox \/ outbox = {}
    BY <1>4, StoreAssumption
    DEF Issuing, InitializeFixedData, RememberSession, ExpireSession,
        Writing, AuthorizeWrite, BeginBatch, PutDocument, DeleteDocument,
        DeferDelete, CancelDeferment, RefuseBatch, CommitBatch, StoreInv,
        UnsentUnderMutex, Unlocked
  <2>3. CASE outbox' = outbox
    BY <1>4, <2>1, <2>3 DEF Observed!storeVars, streamVars
  <2>4. CASE outbox = {}
    <3>1. Observed!Change
      BY <1>4, <2>1, <2>4, CommitIsChange
    <3> QED BY <3>1 DEF Observed!Next
  <2> QED BY <2>2, <2>3, <2>4
<1>5. CASE FinishPublication \/ UNCHANGED vars
  BY <1>5 DEF FinishPublication, vars, commitVars, streamVars, Observed!storeVars
<1> QED BY <1>1, <1>2, <1>3, <1>4, <1>5 DEF Next

(***************************************************************************)
(* Streams see the store as ObservedStore describes it, for any members,   *)
(* documents, writers and streams: whole batches, in commit order, and no  *)
(* snapshot between a commit and its messages (publish, gamesync.go:53).   *)
(***************************************************************************)
THEOREM ImplementsObservedStore == Spec => ObservedSpec
<1>1. StoreInv /\ StoreInv' /\ [Next]_vars => [Observed!Next]_(Observed!storeVars)
  BY ObservedStep
<1> QED BY <1>1, StoreInit, StoreStep, ObservedInit, PTL
        DEF Spec, ObservedSpec, Observed!Spec
=============================================================================
