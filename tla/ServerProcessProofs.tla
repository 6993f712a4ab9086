------------------------- MODULE ServerProcessProofs -------------------------
(***************************************************************************)
(* Proofs about server processes: what every step keeps in shape, and that *)
(* tokens outlive restarts.  The second rests on port 443: it is the lock  *)
(* of the signing key file, because the key is read and written by serving *)
(* processes only and one process at a time has the port.                  *)
(***************************************************************************)
EXTENDS ServerProcess, TLAPS

\* The parts of the type invariant, one per component.
CertificateTypes ==
  /\ {keyFile, certFile} \subseteq Content
  /\ unsound \subseteq Leaf
  /\ certStep \in [Process -> CertificateStep]
  /\ leaf \in [Process -> Content]
  /\ suspect \in [Process -> SUBSET Leaf]

SigningTypes ==
  /\ signingFile \in Key \cup {"missing", "torn"}
  /\ jwtKey \in [Process -> Key \cup {"none"}]
  /\ keyStep \in [Process -> KeyStep]
  /\ durable \subseteq Key
  /\ misread \subseteq Process
  /\ replaced \subseteq Key

SocketTypes ==
  /\ owner \in [Port -> Process \cup {Nobody}]
  /\ opened \in [Process -> Nat]
  /\ \A p \in Process : opened[p] <= Len(Opens[p])
  /\ readers \in [Process -> SUBSET STRING]

ProcessTypes ==
  /\ stage \in [Process -> Stage]
  /\ trouble \in 0..MaxTrouble

\* What each component's steps do to its own types.
LEMMA CertificateTypesKept ==
  ASSUME CertificateTypes, NEW p \in Process,
         \/ EnsureCertificate(p) \/ CertificateWork(p)
         \/ LoadCertificate(p)   \/ LoadKey(p)
         \/ CertificateTrouble(p) \/ PairUnreadable(p) \/ ForgetCertificate(p)
         \/ LeafGoesBad \/ UNCHANGED certificateVars
  PROVE  CertificateTypes'
<1> USE DEF CertificateTypes, CertificateStep, Content, files, GoTo
<1>1. CASE SignLeaf(p)
  <2>1. NewLeaf \in Leaf
    BY <1>1 DEF SignLeaf, NewLeaf, FreshLeaf
  <2> QED BY <1>1, <2>1 DEF SignLeaf
<1>2. CASE Inspect(p) \/ Validate(p) \/ LoadCertificate(p)
  BY <1>2 DEF Inspect, Validate, LoadCertificate, ReadCertificate
<1>3. CASE InspectKey(p) \/ ValidateKey(p) \/ LoadKey(p)
  BY <1>3 DEF InspectKey, ValidateKey, LoadKey, Reuse
<1>4. CASE OpenKey(p) \/ WriteKey(p) \/ OpenCert(p) \/ WriteCert(p)
  BY <1>4 DEF OpenKey, WriteKey, OpenCert, WriteCert
<1>5. CASE \/ EnsureCertificate(p) \/ CertificateTrouble(p) \/ PairUnreadable(p)
           \/ ForgetCertificate(p)
  BY <1>5
  DEF EnsureCertificate, CertificateTrouble, PairUnreadable, ForgetCertificate
<1>6. CASE LeafGoesBad \/ UNCHANGED certificateVars
  BY <1>6 DEF LeafGoesBad, certificateVars
<1> QED BY <1>1, <1>2, <1>3, <1>4, <1>5, <1>6 DEF CertificateWork

LEMMA SigningTypesKept ==
  ASSUME SigningTypes, NEW p \in Process,
         \/ ReadSigningKey(p) \/ ReadSigningKeyFails(p) \/ OpenSigningFile(p)
         \/ WriteSigningKey(p) \/ WriteSigningKeyFails(p)
         \/ SignToken(p) \/ ForgetSigningKey(p) \/ UNCHANGED signingVars,
         keyStep[p] \in {"write", "known"} => jwtKey[p] \in Key,
         keyStep[p] = "open" /\ p \in misread => signingFile \in Key
  PROVE  SigningTypes'
<1> USE DEF SigningTypes, KeyStep
<1>1. CASE ReadSigningKey(p) \/ ReadSigningKeyFails(p)
  <2>1. FreshKey # {} => NewKey \in Key
    BY DEF NewKey, FreshKey
  <2> QED BY <1>1, <2>1 DEF ReadSigningKey, ReadSigningKeyFails, GenerateKey
<1>2. CASE OpenSigningFile(p)
  BY <1>2 DEF OpenSigningFile
<1>3. CASE WriteSigningKey(p) \/ WriteSigningKeyFails(p)
  BY <1>3 DEF WriteSigningKey, WriteSigningKeyFails
<1>4. CASE SignToken(p) \/ ForgetSigningKey(p) \/ UNCHANGED signingVars
  BY <1>4 DEF SignToken, ForgetSigningKey, signingVars
<1> QED BY <1>1, <1>2, <1>3, <1>4

LEMMA EntryTypes ==
  ASSUME NEW p \in Process
  PROVE  /\ Len(Opens[p]) \in Nat
         /\ \A i \in 1..Len(Opens[p]) :
              Opens[p][i] \in Socket
         /\ \A e \in Entry(p) : e \in Socket
<1>1. Opens[p] \in Seq(Socket)
  BY SocketAssumption
<1>2. /\ Len(Opens[p]) \in Nat
      /\ \A i \in 1..Len(Opens[p]) : Opens[p][i] \in Socket
  BY <1>1
<1>3. ASSUME NEW e \in Entry(p) PROVE e \in Socket
  <2>1. PICK i \in 1..Len(Opens[p]) : e = Opens[p][i]
    BY DEF Entry
  <2> QED BY <1>2, <2>1
<1> QED BY <1>2, <1>3

LEMMA ComingListed ==
  ASSUME SocketTypes, NEW p \in Process, ~ AllOpen(p)
  PROVE  /\ opened[p] + 1 \in 1..Len(Opens[p])
         /\ Coming(p) \in Entry(p)
         /\ Coming(p) \in Socket
<1>1. opened[p] + 1 \in 1..Len(Opens[p])
  BY EntryTypes DEF SocketTypes, AllOpen
<1>2. Coming(p) \in Entry(p)
  BY <1>1, Zenon DEF Coming, Entry
<1> QED BY <1>1, <1>2, EntryTypes

LEMMA ComingPort ==
  ASSUME SocketTypes, NEW p \in Process, ~ AllOpen(p)
  PROVE  Coming(p).port \in Port \cup {Chosen}
<1>1. Coming(p).port \in {e.port : e \in Entry(p)}
  BY ComingListed
<1>2. Coming(p).port \in UNION {{e.port : e \in Entry(q)} : q \in Process}
  BY <1>1
<1> QED BY <1>2 DEF Port

LEMMA PortsAreStrings ==
  ASSUME NEW p \in Process, NEW part
  PROVE  PortsOf(p, part) \subseteq STRING
BY EntryTypes DEF PortsOf, Socket

LEMMA SocketTypesKept ==
  ASSUME SocketTypes, NEW p \in Process,
         \/ Open(p) \/ \E port \in Port : OpenOnTakenPort(p, port)
         \/ CloseSockets(p) \/ \E port \in Port : ReaderReturns(p, port)
         \/ ReleaseAll(p) \/ UNCHANGED socketVars
  PROVE  SocketTypes'
<1> USE DEF SocketTypes
<1>1. ASSUME NEW port \in Port \cup {Chosen}, ~ AllOpen(p), OpenAt(p, port)
      PROVE  SocketTypes'
  <2>1. opened[p] + 1 \in 1..Len(Opens[p]) /\ Coming(p).port \in STRING
    BY <1>1, ComingListed DEF Socket
  <2>2. Reading(p) \subseteq STRING
    BY <2>1, PortsAreStrings DEF Reading
  <2>3. owner' \in [Port -> Process \cup {Nobody}]
    BY <1>1 DEF OpenAt
  <2>4. readers' \in [Process -> SUBSET STRING]
    BY <1>1, <2>2 DEF OpenAt
  <2>5. /\ opened' \in [Process -> Nat]
        /\ \A q \in Process : opened'[q] <= Len(Opens[q])
    BY <1>1, <2>1 DEF OpenAt
  <2> QED BY <2>3, <2>4, <2>5
<1>2. CASE Open(p)
  BY <1>1, <1>2, ComingPort DEF Open
<1>3. CASE \E port \in Port : OpenOnTakenPort(p, port)
  BY <1>1, <1>3 DEF OpenOnTakenPort
<1>4. CASE CloseSockets(p) \/ \E port \in Port : ReaderReturns(p, port)
  BY <1>4 DEF CloseSockets, Release, ReaderReturns
<1>5. CASE ReleaseAll(p)
  <2>1. \A q \in Process : Len(Opens[q]) \in Nat
    BY SocketAssumption
  <2> QED BY <1>5, <2>1 DEF ReleaseAll, Release
<1>6. CASE UNCHANGED socketVars
  BY <1>6 DEF socketVars
<1> QED BY <1>2, <1>3, <1>4, <1>5, <1>6

-----------------------------------------------------------------------------
(***************************************************************************)
(* The inductive invariant.  A process that is past "unread" serves; who   *)
(* serves has port 443; so at most one process is past "unread".  While it *)
(* writes, the file holds no key, or one it failed to read, which is given *)
(* up when it opens the file; so the file never holds another key than the *)
(* ones that are still good.  Once it has the key in memory, a key in the  *)
(* file is that key, or the one it failed to read.                         *)
(***************************************************************************)
KeyUsedByServers == \A p \in Process : keyStep[p] # "unread" => Serving(p)

ServersHavePort ==
  \A p \in Process : Serving(p) => TlsPort \in Port /\ owner[TlsPort] = p

KeyInMemory == \A p \in Process : keyStep[p] # "unread" => jwtKey[p] \in Key

\* A failed read leaves its mark until the file is opened for writing.
MisreadByServers == \A p \in misread : keyStep[p] # "unread"

FileBeingWritten ==
  \A p \in Process :
    /\ keyStep[p] = "open"  => (signingFile \in Key <=> p \in misread)
    /\ keyStep[p] = "write" => signingFile \notin Key

MemoryIsFile ==
  \A p \in Process \ misread :
    keyStep[p] = "known" /\ signingFile \in Key => jwtKey[p] = signingFile

DurableInFile == durable \ replaced \subseteq {signingFile}

KeyInv ==
  /\ SigningTypes
  /\ KeyUsedByServers
  /\ ServersHavePort
  /\ KeyInMemory
  /\ MisreadByServers
  /\ FileBeingWritten
  /\ MemoryIsFile
  /\ DurableInFile

ServerInv ==
  /\ CertificateTypes
  /\ SocketTypes
  /\ ProcessTypes
  /\ KeyInv

\* Port 443 has one owner.
LEMMA OneServer ==
  ASSUME ServersHavePort, NEW p \in Process, NEW q \in Process,
         Serving(p), Serving(q)
  PROVE  p = q
BY DEF ServersHavePort

\* The steps inside nplnSigningKey, taken by the process that serves.
LEMMA KeyWorkKeepsKey ==
  ASSUME KeyInv, NEW p \in Process, Serving(p), UNCHANGED <<stage, owner>>,
         \/ ReadSigningKey(p) \/ ReadSigningKeyFails(p) \/ OpenSigningFile(p)
         \/ WriteSigningKey(p) \/ WriteSigningKeyFails(p) \/ SignToken(p)
  PROVE  KeyInv'
<1> USE DEF KeyInv
<1>1. SigningTypes'
  BY SigningTypesKept DEF KeyInMemory, FileBeingWritten
<1>2. \A q \in Process : q # p => keyStep[q] = "unread"
  BY OneServer DEF KeyUsedByServers
<1>3. \A q \in Process : q # p => keyStep'[q] = "unread"
  BY <1>2 DEF SigningTypes, ReadSigningKey, ReadSigningKeyFails, GenerateKey,
              OpenSigningFile, WriteSigningKey, WriteSigningKeyFails, SignToken
<1>4. KeyUsedByServers' /\ ServersHavePort'
  BY <1>3 DEF KeyUsedByServers, ServersHavePort, Serving
<1>5. misread \subseteq {p}
  BY <1>2 DEF MisreadByServers, SigningTypes
<1> USE DEF SigningTypes, KeyInMemory, MisreadByServers, FileBeingWritten,
            MemoryIsFile, DurableInFile
<1>6. CASE ReadSigningKey(p) \/ ReadSigningKeyFails(p)
  <2>1. FreshKey # {} => NewKey \in Key
    BY DEF NewKey, FreshKey
  <2>2. CASE ReadSigningKey(p) /\ signingFile \in Key
    BY <1>1, <1>3, <1>4, <2>2 DEF ReadSigningKey
  <2>3. CASE ReadSigningKey(p) /\ signingFile \notin Key
    BY <1>1, <1>3, <1>4, <2>1, <2>3 DEF ReadSigningKey, GenerateKey
  <2>4. CASE ReadSigningKeyFails(p)
    BY <1>1, <1>3, <1>4, <2>1, <2>4 DEF ReadSigningKeyFails, GenerateKey
  <2> QED BY <1>6, <2>2, <2>3, <2>4
<1>7. CASE OpenSigningFile(p)
  <2>1. "torn" \notin Key
    BY KeyAssumption
  <2>2. signingFile \in Key => signingFile \in replaced'
    BY <1>7 DEF OpenSigningFile
  <2>3. durable' \ replaced' = {}
    BY <1>7, <2>2 DEF OpenSigningFile
  <2>4. misread' = {}
    BY <1>5, <1>7 DEF OpenSigningFile
  <2> QED BY <1>1, <1>3, <1>4, <1>7, <2>1, <2>3, <2>4 DEF OpenSigningFile
<1>8. CASE WriteSigningKey(p)
  <2>1. durable \ replaced = {}
    BY <1>8 DEF WriteSigningKey
  <2> QED BY <1>1, <1>3, <1>4, <1>8, <2>1 DEF WriteSigningKey
<1>9. CASE WriteSigningKeyFails(p) \/ SignToken(p)
  BY <1>1, <1>3, <1>4, <1>9 DEF WriteSigningKeyFails, SignToken
<1> QED BY <1>6, <1>7, <1>8, <1>9

\* Steps that leave the key alone and take no port from a server.
LEMMA OtherStepsKeepKey ==
  ASSUME KeyInv, UNCHANGED signingVars,
         \A q \in Process :
           /\ Serving(q) => Serving(q)' /\ owner'[TlsPort] = owner[TlsPort]
           /\ Serving(q)' /\ ~ Serving(q) =>
                TlsPort \in Port /\ owner'[TlsPort] = q
  PROVE  KeyInv'
BY DEF KeyInv, signingVars, SigningTypes, KeyUsedByServers, ServersHavePort,
       KeyInMemory, MisreadByServers, FileBeingWritten, MemoryIsFile,
       DurableInFile

LEMMA ExitKeepsInv ==
  ASSUME ServerInv, NEW p \in Process, Exit(p), trouble' \in 0..MaxTrouble
  PROVE  ServerInv'
<1> USE DEF ServerInv, Exit
<1>1. CertificateTypes' /\ SocketTypes'
  BY CertificateTypesKept, SocketTypesKept
<1>2. ProcessTypes'
  BY DEF ProcessTypes, Become, Stage
<1>3. SigningTypes'
  BY DEF KeyInv, SigningTypes, ForgetSigningKey, KeyStep
<1>4. /\ keyStep'[p] = "unread"
      /\ \A q \in Process : q # p => keyStep'[q] = keyStep[q] /\ jwtKey'[q] = jwtKey[q]
      /\ UNCHANGED <<signingFile, durable, replaced>>
      /\ misread' = misread \ {p}
  BY DEF KeyInv, SigningTypes, ForgetSigningKey
<1>5. /\ ~ Serving(p)'
      /\ \A q \in Process : q # p => Serving(q)' = Serving(q)
  BY DEF Become, ProcessTypes, Serving
<1>6. ServersHavePort'
  BY <1>5 DEF KeyInv, ServersHavePort, ReleaseAll, Release
<1> QED BY <1>1, <1>2, <1>3, <1>4, <1>5, <1>6
        DEF KeyInv, SigningTypes, KeyUsedByServers, KeyInMemory,
            MisreadByServers, FileBeingWritten, MemoryIsFile, DurableInFile

LEMMA ServerInit == Init => ServerInv
<1> SUFFICES ASSUME Init PROVE ServerInv
  OBVIOUS
<1> USE DEF Init
<1>1. CertificateTypes
  BY DEF CertificateTypes, CertificateInit, Content, CertificateStep
<1>2. SocketTypes
  BY EntryTypes DEF SocketTypes, SocketsInit
<1>3. ProcessTypes
  BY ServerAssumption DEF ProcessTypes, Stage
<1>4. KeyInv
  BY DEF KeyInv, SigningInit, SigningTypes, KeyStep, KeyUsedByServers,
         ServersHavePort, Serving, KeyInMemory,
         MisreadByServers, FileBeingWritten, MemoryIsFile, DurableInFile
<1> QED BY <1>1, <1>2, <1>3, <1>4 DEF ServerInv

\* A socket is opened: no server loses port 443, and who gets it serves.
LEMMA OpeningKeepsServers ==
  ASSUME ServerInv, NEW p \in Process, NEW port \in Port \cup {Chosen},
         PortFree(port), OpenAt(p, port)
  PROVE  \A q \in Process : Serving(q) => owner'[TlsPort] = owner[TlsPort]
<1> SUFFICES ASSUME NEW q \in Process, Serving(q)
             PROVE  owner'[TlsPort] = owner[TlsPort]
  OBVIOUS
<1>1. TlsPort \in Port /\ owner[TlsPort] = q /\ q # Nobody
  BY ProcessAssumption DEF ServerInv, KeyInv, ServersHavePort
<1>2. port # TlsPort
  BY <1>1 DEF PortFree
<1> QED BY <1>1, <1>2 DEF OpenAt, ServerInv, SocketTypes

LEMMA StepKeepsInv ==
  ASSUME ServerInv, NEW p \in Process,
         \/ Start(p) \/ Step(p) \/ Sign(p) \/ Crash(p) \/ CallFails(p)
         \/ SinkTaken(p) \/ CertificateGoesBad
  PROVE  ServerInv'
<1> USE DEF ServerInv, NoTrouble, Trouble
<1>1. trouble' \in 0..MaxTrouble
  <2>1. trouble \in 0..MaxTrouble /\ MaxTrouble \in Nat
    BY ServerAssumption DEF ProcessTypes
  <2> QED BY <2>1
          DEF Start, Step, Sign, Crash, CallFails, SinkTaken,
              CertificateGoesBad, Certificate, CertificateReady, Fatal,
              OpenSocket, SocketRefused, CloseAll, ReaderEnds, Closed,
              ServeLoad, Serve, ServeRefused, KeyWork
<1>2. CASE Fatal(p) \/ Closed(p) \/ ServeRefused(p) \/ Crash(p)
  BY <1>1, <1>2, ExitKeepsInv DEF Fatal, Closed, ServeRefused, Crash
<1>3. CASE Start(p) \/ Certificate(p) \/ CertificateReady(p) \/ ServeLoad(p)
           \/ SocketRefused(p)
  <2>1. CertificateTypes'
    BY <1>3, CertificateTypesKept
    DEF Start, Certificate, CertificateReady, ServeLoad, SocketRefused
  <2>2. UNCHANGED socketVars /\ UNCHANGED signingVars
    BY <1>3 DEF Start, Certificate, CertificateReady, ServeLoad, SocketRefused
  <2>3. SocketTypes'
    BY <2>2, SocketTypesKept
  <2>4. /\ ProcessTypes'
        /\ \A q \in Process : Serving(q)' = Serving(q)
    BY <1>1, <1>3
    DEF Start, Certificate, CertificateReady, ServeLoad, SocketRefused,
        ProcessTypes, Become, Stage, Serving
  <2>5. KeyInv'
    BY <2>2, <2>4, OtherStepsKeepKey DEF socketVars
  <2> QED BY <2>1, <2>3, <2>4, <2>5
<1>4. CASE OpenSocket(p) \/ SinkTaken(p)
  <2>1. CertificateTypes'
    BY <1>4, CertificateTypesKept DEF OpenSocket, SinkTaken
  <2>2. SocketTypes'
    BY <1>4, SocketTypesKept DEF OpenSocket, SinkTaken
  <2>3. \A q \in Process : Serving(q) => owner'[TlsPort] = owner[TlsPort]
    <3>1. CASE OpenSocket(p)
      <4>1. /\ Coming(p).port \in Port \cup {Chosen}
            /\ PortFree(Coming(p).port) /\ OpenAt(p, Coming(p).port)
        BY <3>1, ComingPort DEF OpenSocket, Open
      <4> QED BY <4>1, OpeningKeepsServers
    <3>2. CASE SinkTaken(p)
      BY <3>2, OpeningKeepsServers DEF SinkTaken, OpenOnTakenPort
    <3> QED BY <1>4, <3>1, <3>2
  <2>4. UNCHANGED signingVars /\ UNCHANGED stage
    BY <1>4 DEF OpenSocket, SinkTaken
  <2>5. KeyInv'
    BY <2>3, <2>4, OtherStepsKeepKey DEF Serving
  <2> QED BY <1>1, <2>1, <2>2, <2>4, <2>5 DEF ProcessTypes
<1>5. CASE CloseAll(p) \/ ReaderEnds(p)
  <2>1. CertificateTypes'
    BY <1>5, CertificateTypesKept DEF CloseAll, ReaderEnds
  <2>2. SocketTypes'
    BY <1>5, SocketTypesKept DEF CloseAll, ReaderEnds
  <2>3. UNCHANGED signingVars /\ UNCHANGED stage /\ ~ Serving(p)
    BY <1>5 DEF CloseAll, ReaderEnds, Serving
  <2>4. \A q \in Process : Serving(q) => owner'[TlsPort] = owner[TlsPort]
    <3>1. ASSUME NEW q \in Process, Serving(q)
          PROVE  TlsPort \in Port /\ owner[TlsPort] # p
      BY <2>3, <3>1 DEF KeyInv, ServersHavePort
    <3> QED BY <1>5, <3>1
            DEF CloseAll, CloseSockets, Release, ReaderEnds, ReaderReturns
  <2>5. KeyInv'
    BY <2>3, <2>4, OtherStepsKeepKey DEF Serving
  <2> QED BY <1>1, <2>1, <2>2, <2>3, <2>5 DEF ProcessTypes
<1>6. CASE Serve(p)
  <2>1. CertificateTypes'
    BY <1>6, CertificateTypesKept DEF Serve
  <2>2. SocketTypes'
    BY <1>6, SocketTypesKept DEF Serve
  <2>3. UNCHANGED signingVars /\ stage' = [stage EXCEPT ![p] = "serving"]
    BY <1>6 DEF Serve, Become
  <2>4. /\ Coming(p).port = TlsPort /\ TlsPort \in Port
        /\ PortFree(TlsPort) /\ OpenAt(p, TlsPort)
    <3>1. Coming(p) \in Entry(p) /\ Coming(p).part = "tls"
      BY <1>6, ComingListed DEF Serve, ComingIsTls
    <3>2. Coming(p).port = TlsPort
      BY <3>1, SocketAssumption
    <3>3. TlsPort \in Port
      BY <1>6, <3>2, ComingPort DEF Serve, ComingIsTls, TlsPort, Chosen
    <3> QED BY <1>6, <3>2, <3>3 DEF Serve, Open
  <2>5. owner'[TlsPort] = p
    BY <2>4 DEF OpenAt, TlsPort, Chosen, SocketTypes
  <2>6. \A q \in Process : Serving(q) => owner'[TlsPort] = owner[TlsPort]
    BY <2>4, OpeningKeepsServers
  <2>7. \A q \in Process : Serving(q)' = (Serving(q) \/ q = p)
    BY <2>3 DEF Serving, ProcessTypes
  <2>8. KeyInv'
    BY <2>3, <2>4, <2>5, <2>6, <2>7, OtherStepsKeepKey
  <2> QED BY <1>1, <2>1, <2>2, <2>3, <2>8 DEF ProcessTypes, Stage
<1>7. CASE KeyWork(p) \/ Sign(p)
  <2>1. CertificateTypes' /\ SocketTypes' /\ ProcessTypes'
    BY <1>1, <1>7, CertificateTypesKept, SocketTypesKept
    DEF KeyWork, Sign, ProcessTypes
  <2>2. KeyInv'
    BY <1>7, KeyWorkKeepsKey DEF KeyWork, Sign, MayUseKey, socketVars
  <2> QED BY <2>1, <2>2
<1>8. CASE CallFails(p) \/ CertificateGoesBad
  <2>1. CertificateTypes'
    BY <1>8, CertificateTypesKept DEF CallFails, CertificateGoesBad
  <2>2. SocketTypes' /\ ProcessTypes' /\ UNCHANGED <<stage, owner>>
    BY <1>1, <1>8, SocketTypesKept
    DEF CallFails, CertificateGoesBad, ProcessTypes, socketVars
  <2>3. CASE UNCHANGED signingVars
    <3>1. \A q \in Process :
            /\ Serving(q) <=> Serving(q)'
            /\ owner'[TlsPort] = owner[TlsPort]
      BY <2>2 DEF Serving
    <3>2. KeyInv'
      BY <2>3, <3>1, OtherStepsKeepKey
    <3> QED BY <2>1, <2>2, <3>2
  <2>4. CASE MayUseKey(p) /\ (ReadSigningKeyFails(p) \/ WriteSigningKeyFails(p))
    <3>1. Serving(p)
      BY <2>4 DEF MayUseKey
    <3> QED BY <2>1, <2>2, <2>4, <3>1, KeyWorkKeepsKey
  <2> QED BY <1>8, <2>1, <2>2, <2>3, <2>4 DEF CallFails, CertificateGoesBad
<1>9. CASE Step(p)
  <2> HIDE DEF ServerInv
  <2> QED BY <1>9, <1>2, <1>3, <1>4, <1>5, <1>6, <1>7, Zenon DEF Step
<1> HIDE DEF ServerInv
<1> QED BY <1>2, <1>3, <1>4, <1>7, <1>8, <1>9, Zenon

LEMMA ServerStep == ServerInv /\ [Next]_vars => ServerInv'
<1> SUFFICES ASSUME ServerInv, [Next]_vars PROVE ServerInv'
  OBVIOUS
<1>1. CASE Next
  <2>1. PICK p \in Process :
          \/ Start(p) \/ Step(p) \/ Sign(p) \/ Crash(p) \/ CallFails(p)
          \/ SinkTaken(p) \/ CertificateGoesBad
    BY <1>1, ProcessAssumption DEF Next
  <2> QED BY <2>1, StepKeepsInv
<1>2. CASE UNCHANGED vars
  BY <1>2 DEF vars, certificateVars, socketVars, signingVars, ServerInv,
     CertificateTypes, SocketTypes, ProcessTypes, KeyInv, SigningTypes,
     KeyUsedByServers, ServersHavePort, Serving, KeyInMemory,
     MisreadByServers, FileBeingWritten, MemoryIsFile, DurableInFile
<1> QED BY <1>1, <1>2

(***************************************************************************)
(* Whatever processes there are and whichever sockets they open, the       *)
(* variables keep their types through every start, crash and failed call   *)
(* (main.go:129).                                                          *)
(***************************************************************************)
THEOREM ServerTypes == Spec => []TypeOK
<1>1. ServerInv => TypeOK
  BY DEF ServerInv, CertificateTypes, SocketTypes, ProcessTypes, KeyInv,
         SigningTypes, TypeOK
<1> QED BY ServerInit, ServerStep, <1>1, PTL DEF Spec

(***************************************************************************)
(* For every number of processes and keys, a token signed with the key in  *)
(* the key file stays good through crashes, failed writes and second       *)
(* starts, for all but the processes that could not read that file, until  *)
(* one of these writes its own key over it (nplnSigningKey,                *)
(* token_jwt.go:47).                                                       *)
(***************************************************************************)
THEOREM DurableTokens == Spec => []TokensOutliveRestart
<1>1. ServerInv => TokensOutliveRestart
  BY DEF ServerInv, KeyInv, SigningTypes, MemoryIsFile, DurableInFile,
         TokensOutliveRestart
<1> QED BY ServerInit, ServerStep, <1>1, PTL DEF Spec

-----------------------------------------------------------------------------
\* Has a leaf it is about to put on disk.
WritesLeaf(p) == certStep[p] \in {"openKey", "writeKey", "openCert", "writeCert"}

\* What a process read of the pair, or finds there next, was sound when it
\* started, unless its own inspection is about to turn it down.
SoundReading(p) ==
  /\ certStep[p] \in {"inspectKey", "validateKey"} =>
       certFile = leaf[p] \/ certFile \notin suspect[p]
  /\ certStep[p] = "ready" => certFile \notin suspect[p]
  /\ certStep[p] \in {"loadKey", "loaded"} => leaf[p] \notin suspect[p]
  /\ certStep[p] = "loaded" => leaf[p] \in Leaf

\* The reason: a leaf that reaches the disk is new, so it is sound, and
\* nobody's check can have been of a leaf that is unsound for another.
CertificateInv ==
  /\ CertificateTypes
  /\ \A p \in Process : suspect[p] \subseteq unsound
  /\ \A p \in Process : WritesLeaf(p) => leaf[p] \in (Leaf \ unsound) \ {certFile}
  /\ \A p, q \in Process :
       p # q /\ WritesLeaf(p) /\ WritesLeaf(q) => leaf[p] # leaf[q]
  /\ \A p \in Process : SoundReading(p)

\* The steps of the certificate that leave the files as they are.
LEMMA ReadingKeepsCertificate ==
  ASSUME CertificateInv, NEW p \in Process,
         \/ EnsureCertificate(p) \/ Inspect(p) \/ InspectKey(p)
         \/ Validate(p) \/ ValidateKey(p) \/ LoadCertificate(p) \/ LoadKey(p)
         \/ CertificateTrouble(p) \/ PairUnreadable(p) \/ ForgetCertificate(p)
  PROVE  CertificateInv'
<1>1. CertificateTypes'
  BY CertificateTypesKept DEF CertificateInv, CertificateWork
<1>2. UNCHANGED <<keyFile, certFile, unsound>>
  BY DEF EnsureCertificate, Inspect, InspectKey, Validate, ValidateKey,
         LoadCertificate, LoadKey, CertificateTrouble, PairUnreadable,
         ForgetCertificate,
         ReadCertificate, files
<1>3. \A q \in Process \ {p} : /\ certStep'[q] = certStep[q]
                               /\ leaf'[q] = leaf[q] /\ suspect'[q] = suspect[q]
  BY DEF EnsureCertificate, Inspect, InspectKey, Validate, ValidateKey,
         LoadCertificate, LoadKey, CertificateTrouble, PairUnreadable,
         ForgetCertificate,
         ReadCertificate, files, GoTo, CertificateInv, CertificateTypes
<1>4. suspect'[p] \subseteq unsound /\ ~ WritesLeaf(p)'
  BY DEF EnsureCertificate, Inspect, InspectKey, Validate, ValidateKey,
         LoadCertificate, LoadKey, CertificateTrouble, PairUnreadable,
         ForgetCertificate,
         ReadCertificate, files, GoTo, CertificateInv, CertificateTypes,
         WritesLeaf, Reuse
<1>5. SoundReading(p)'
  <2> USE DEF CertificateInv, CertificateTypes, SoundReading, GoTo, files
  <2>1. CASE \/ EnsureCertificate(p) \/ CertificateTrouble(p)
             \/ PairUnreadable(p) \/ ForgetCertificate(p)
    BY <2>1
    DEF EnsureCertificate, CertificateTrouble, PairUnreadable, ForgetCertificate
  <2>2. CASE Inspect(p) \/ Validate(p)
    BY <2>2 DEF Inspect, Validate, ReadCertificate
  <2>3. CASE InspectKey(p) \/ ValidateKey(p)
    BY <2>3 DEF InspectKey, ValidateKey, Reuse, Matches
  <2>4. CASE LoadCertificate(p)
    BY <2>4 DEF LoadCertificate, ReadCertificate
  <2>5. CASE LoadKey(p)
    BY <2>5 DEF LoadKey, PairLoads
  <2> QED BY <2>1, <2>2, <2>3, <2>4, <2>5
<1> QED BY <1>1, <1>2, <1>3, <1>4, <1>5
        DEF CertificateInv, WritesLeaf, SoundReading

LEMMA SigningKeepsCertificate ==
  ASSUME CertificateInv, NEW p \in Process, SignLeaf(p)
  PROVE  CertificateInv'
<1>1. CertificateTypes'
  BY CertificateTypesKept DEF CertificateInv, CertificateWork
<1>2. PICK l : l = NewLeaf
  OBVIOUS
<1>3. l \in Leaf /\ l # certFile /\ \A q \in Process : l # leaf[q]
  <2>1. l \in FreshLeaf
    BY <1>2 DEF SignLeaf, NewLeaf
  <2> QED BY <2>1 DEF FreshLeaf
<1>4. /\ leaf' = [leaf EXCEPT ![p] = l]
      /\ unsound' = unsound \ {l}
      /\ suspect' = [q \in Process |-> suspect[q] \ {l}]
      /\ certStep' = [certStep EXCEPT ![p] = "openKey"]
      /\ certFile' = certFile
  BY <1>2 DEF SignLeaf, GoTo
<1> QED BY <1>1, <1>3, <1>4
        DEF CertificateInv, CertificateTypes, WritesLeaf, SoundReading

LEMMA WritingKeepsCertificate ==
  ASSUME CertificateInv, NEW p \in Process,
         OpenKey(p) \/ WriteKey(p) \/ OpenCert(p) \/ WriteCert(p)
  PROVE  CertificateInv'
<1>1. CertificateTypes'
  BY CertificateTypesKept DEF CertificateInv, CertificateWork
<1>2. UNCHANGED <<unsound, suspect, leaf>>
  BY DEF OpenKey, WriteKey, OpenCert, WriteCert
<1>3. /\ WritesLeaf(p)
      /\ \A q \in Process \ {p} : certStep'[q] = certStep[q]
      /\ certStep'[p] \in {"writeKey", "openCert", "writeCert", "validate"}
  BY DEF OpenKey, WriteKey, OpenCert, WriteCert, GoTo, WritesLeaf,
         CertificateInv, CertificateTypes
<1>4. \/ certFile' = certFile
      \/ certFile' = "torn"
      \/ certFile' = leaf[p] /\ ~ WritesLeaf(p)'
  BY DEF OpenKey, WriteKey, OpenCert, WriteCert, GoTo, WritesLeaf,
         CertificateInv, CertificateTypes
<1>5. \A q \in Process : WritesLeaf(q)' => WritesLeaf(q)
  BY <1>3 DEF WritesLeaf
<1>6. \A q \in Process : certFile' \notin suspect[q] \/ certFile' = certFile
  BY <1>3, <1>4, CertificateAssumption DEF CertificateInv, CertificateTypes
<1>7. \A q \in Process : WritesLeaf(q)' => leaf[q] # certFile'
  BY <1>4, <1>3, <1>5, CertificateAssumption DEF CertificateInv
<1>8. \A q \in Process : SoundReading(q)'
  BY <1>2, <1>3, <1>6 DEF CertificateInv, SoundReading
<1> QED BY <1>1, <1>2, <1>5, <1>7, <1>8 DEF CertificateInv

LEMMA AgeingKeepsCertificate ==
  ASSUME CertificateInv, LeafGoesBad \/ UNCHANGED certificateVars
  PROVE  CertificateInv'
<1>1. CertificateTypes'
  BY CertificateTypesKept, ProcessAssumption DEF CertificateInv
<1> QED BY <1>1
        DEF CertificateInv, LeafGoesBad, certificateVars, WritesLeaf, SoundReading

\* Who serves has loaded the pair.
ServersLoaded == \A p \in Process : Serving(p) => certStep[p] = "loaded"

SoundInv == ProcessTypes /\ CertificateInv /\ ServersLoaded

LEMMA SoundInit == Init => SoundInv
BY ServerInit, CertificateAssumption
DEF Init, CertificateInit, SoundInv, ServerInv, CertificateInv, WritesLeaf,
    SoundReading, ServersLoaded, Serving

LEMMA SoundStep == SoundInv /\ ProcessTypes' /\ [Next]_vars => SoundInv'
<1> SUFFICES ASSUME SoundInv, ProcessTypes', [Next]_vars
             PROVE  CertificateInv' /\ ServersLoaded'
  BY DEF SoundInv
<1>1. CASE UNCHANGED vars \/ CertificateGoesBad
  <2>1. CertificateInv'
    BY <1>1, AgeingKeepsCertificate DEF SoundInv, CertificateGoesBad, vars
  <2>2. UNCHANGED <<stage, certStep>>
    BY <1>1 DEF vars, certificateVars, CertificateGoesBad, LeafGoesBad
  <2> QED BY <2>1, <2>2 DEF SoundInv, ServersLoaded, Serving
<1>2. ASSUME NEW p \in Process,
             \/ Start(p) \/ Step(p) \/ Sign(p) \/ Crash(p) \/ CallFails(p)
             \/ SinkTaken(p)
      PROVE  CertificateInv' /\ ServersLoaded'
  <2>1. CASE Fatal(p) \/ Closed(p) \/ ServeRefused(p) \/ Crash(p)
    <3>1. ForgetCertificate(p) /\ stage' = [stage EXCEPT ![p] = "down"]
      BY <2>1 DEF Fatal, Closed, ServeRefused, Crash, Exit, Become
    <3>2. certStep' = [certStep EXCEPT ![p] = "idle"]
      BY <3>1 DEF ForgetCertificate, GoTo
    <3>3. CertificateInv'
      BY <3>1, ReadingKeepsCertificate DEF SoundInv
    <3>4. ServersLoaded'
      BY <3>1, <3>2
      DEF SoundInv, ServersLoaded, Serving, ProcessTypes, CertificateInv,
          CertificateTypes
    <3> QED BY <3>3, <3>4
  <2>2. CASE Start(p) \/ Certificate(p) \/ ServeLoad(p)
    <3>1. CertificateInv'
      BY <2>2, ReadingKeepsCertificate, SigningKeepsCertificate,
         WritingKeepsCertificate
      DEF SoundInv, Start, Certificate, CertificateWork, ServeLoad
    <3>2. /\ ~ Serving(p)'
          /\ \A q \in Process \ {p} : stage'[q] = stage[q]
      BY <2>2 DEF Start, Certificate, ServeLoad, Become, Serving, SoundInv,
                  ProcessTypes
    <3>3. \A q \in Process \ {p} : certStep'[q] = certStep[q]
      BY <2>2
      DEF Start, Certificate, CertificateWork, ServeLoad, EnsureCertificate,
          Inspect, InspectKey, SignLeaf, OpenKey, WriteKey, OpenCert,
          WriteCert, Validate, ValidateKey, LoadCertificate, LoadKey,
          ReadCertificate, GoTo, SoundInv, CertificateInv, CertificateTypes
    <3> QED BY <3>1, <3>2, <3>3 DEF SoundInv, ServersLoaded, Serving
  <2>3. CASE CallFails(p)
    <3>1. CertificateInv'
      BY <2>3, ReadingKeepsCertificate, AgeingKeepsCertificate
      DEF SoundInv, CallFails
    <3>2. /\ UNCHANGED stage
          /\ \A q \in Process : certStep[q] = "loaded" => certStep'[q] = "loaded"
      BY <2>3 DEF CallFails, CertificateTrouble, PairUnreadable, GoTo,
                  certificateVars, SoundInv, CertificateInv, CertificateTypes
    <3> QED BY <3>1, <3>2 DEF SoundInv, ServersLoaded, Serving
  <2>4. CASE \/ CertificateReady(p) \/ OpenSocket(p) \/ SocketRefused(p)
             \/ CloseAll(p) \/ ReaderEnds(p) \/ Serve(p) \/ KeyWork(p)
             \/ Sign(p) \/ SinkTaken(p)
    <3>1. UNCHANGED certificateVars
      BY <2>4 DEF CertificateReady, OpenSocket, SocketRefused, CloseAll,
                  ReaderEnds, Serve, KeyWork, Sign, SinkTaken
    <3>2. CertificateInv'
      BY <3>1, AgeingKeepsCertificate DEF SoundInv
    <3>3. \A q \in Process :
            Serving(q)' => Serving(q) \/ certStep[q] = "loaded"
      BY <2>4 DEF CertificateReady, OpenSocket, SocketRefused, CloseAll,
                  ReaderEnds, Serve, KeyWork, Sign, SinkTaken, Become,
                  Serving, SoundInv, ProcessTypes
    <3> QED BY <3>1, <3>2, <3>3 DEF SoundInv, ServersLoaded, certificateVars
  <2> QED BY <1>2, <2>1, <2>2, <2>3, <2>4, Zenon DEF Step
<1> QED BY <1>1, <1>2 DEF Next

(***************************************************************************)
(* For every number of processes and leaves: whatever another process does *)
(* to the two files between the checks and the loading, no process serves  *)
(* a leaf that had stopped matching when it started (local.go:56).         *)
(***************************************************************************)
THEOREM SoundLeafServed == Spec => []ServesSoundLeaf
<1>1. ServerInv => ProcessTypes
  BY DEF ServerInv
<1>2. SoundInv => ServesSoundLeaf
  BY DEF SoundInv, ServersLoaded, CertificateInv, SoundReading, ServesSoundLeaf
<1> QED BY ServerInit, ServerStep, SoundInit, SoundStep, <1>1, <1>2, PTL DEF Spec
=============================================================================
