---------------------------- MODULE ServerProcess ----------------------------
(***************************************************************************)
(* Server processes from start to end (main.go): the certificate files,    *)
(* the sockets in their order, port 443 last, then the calls, the first of *)
(* which reads the signing key.  Every error of the start is log.Fatalf.   *)
(* A process may crash between any two steps; a supervisor starts it again *)
(* with the files as they were left.  Another process may be started on    *)
(* the same machine, as when an operator starts the server twice.          *)
(***************************************************************************)
EXTENDS CertificateFiles, ServerSockets, SigningKey

CONSTANTS
  Supervised,  \* processes that are started again whenever they end
  MaxTrouble   \* bound: crashes, failed calls, second starts

ASSUME ServerAssumption ==
  /\ Supervised \subseteq Process
  /\ MaxTrouble \in Nat

VARIABLES
  stage,    \* where each process is
  trouble   \* how much has gone wrong so far

vars == <<stage, trouble, certificateVars, socketVars, signingVars>>

Stage == {"down", "certificate", "sockets", "closing", "serving"}

Serving(p) == stage[p] = "serving"

Init ==
  /\ CertificateInit
  /\ SocketsInit
  /\ SigningInit
  /\ stage = [p \in Process |-> "down"]
  /\ trouble = 0

Become(p, s) == stage' = [stage EXCEPT ![p] = s]
NoTrouble    == UNCHANGED trouble
Trouble      == trouble < MaxTrouble /\ trouble' = trouble + 1

-----------------------------------------------------------------------------
Start(p) ==
  /\ stage[p] = "down"
  /\ IF p \in Supervised THEN NoTrouble ELSE Trouble
  /\ EnsureCertificate(p)
  /\ Become(p, "certificate")
  /\ UNCHANGED <<socketVars, signingVars>>

\* log.Fatalf, a panic, a kill: no deferred Close runs.
Exit(p) ==
  /\ ForgetCertificate(p)
  /\ ForgetSigningKey(p)
  /\ ReleaseAll(p)
  /\ Become(p, "down")

Certificate(p) ==
  /\ stage[p] = "certificate"
  /\ CertificateWork(p)
  /\ NoTrouble
  /\ UNCHANGED <<stage, socketVars, signingVars>>

CertificateReady(p) ==
  /\ stage[p] = "certificate"
  /\ certStep[p] = "ready"
  /\ Become(p, "sockets")
  /\ NoTrouble
  /\ UNCHANGED <<certificateVars, socketVars, signingVars>>

Fatal(p) ==
  /\ certStep[p] = "failed"
  /\ Exit(p)
  /\ NoTrouble

ComingIsTls(p) == ~ AllOpen(p) /\ Coming(p).part = "tls"
ComingIsUdp(p) == ~ AllOpen(p) /\ Coming(p).part # "tls"

\* The sockets up to port 443.
OpenSocket(p) ==
  /\ stage[p] = "sockets"
  /\ ComingIsUdp(p)
  /\ Open(p)
  /\ NoTrouble
  /\ UNCHANGED <<stage, certificateVars, signingVars>>

\* A UDP socket cannot be opened.  STUN and TURN have nothing to close yet.
SocketRefused(p) ==
  /\ stage[p] = "sockets"
  /\ ComingIsUdp(p)
  /\ IF PortFree(Coming(p).port) THEN Trouble ELSE NoTrouble
  /\ Become(p, "closing")
  /\ UNCHANGED <<certificateVars, socketVars, signingVars>>

CloseAll(p) ==
  /\ stage[p] = "closing"
  /\ CloseSockets(p)
  /\ NoTrouble
  /\ UNCHANGED <<stage, certificateVars, signingVars>>

ReaderEnds(p) ==
  /\ stage[p] = "closing"
  /\ \E port \in Port : ReaderReturns(p, port)
  /\ NoTrouble
  /\ UNCHANGED <<stage, certificateVars, signingVars>>

Closed(p) ==
  /\ stage[p] = "closing"
  /\ SocketsClosed(p) /\ ReadersGone(p)
  /\ Exit(p)
  /\ NoTrouble

\* startLocalCombined: the pair is loaded, then port 443 is opened.
ServeLoad(p) ==
  /\ stage[p] = "sockets"
  /\ ComingIsTls(p)
  /\ LoadCertificate(p) \/ LoadKey(p)
  /\ NoTrouble
  /\ UNCHANGED <<stage, socketVars, signingVars>>

Serve(p) ==
  /\ stage[p] = "sockets"
  /\ ComingIsTls(p) /\ certStep[p] = "loaded"
  /\ Open(p)
  /\ Become(p, "serving")
  /\ NoTrouble
  /\ UNCHANGED <<certificateVars, signingVars>>

ServeRefused(p) ==
  /\ stage[p] = "sockets"
  /\ ComingIsTls(p) /\ certStep[p] = "loaded"
  /\ IF PortFree(Coming(p).port) THEN Trouble ELSE NoTrouble
  /\ Exit(p)

-----------------------------------------------------------------------------
\* Fault: the key is read when the process starts.
MayUseKeyAtOnce(p) == stage[p] # "down"

\* nplnSigningKey is called by the handlers only: who does not serve has no
\* use for the key.
MayUseKey(p) == Serving(p)

KeyWork(p) ==
  /\ MayUseKey(p)
  /\ ReadSigningKey(p) \/ OpenSigningFile(p) \/ WriteSigningKey(p)
  /\ NoTrouble
  /\ UNCHANGED <<stage, certificateVars, socketVars>>

Sign(p) ==
  /\ MayUseKey(p)
  /\ SignToken(p)
  /\ NoTrouble
  /\ UNCHANGED <<stage, certificateVars, socketVars>>

-----------------------------------------------------------------------------
Crash(p) ==
  /\ stage[p] # "down"
  /\ Trouble
  /\ Exit(p)

\* A read or write of a file, or what is needed for it, fails.
CallFails(p) ==
  /\ Trouble
  /\ \/ /\ CertificateTrouble(p) \/ PairUnreadable(p)
        /\ UNCHANGED signingVars
     \/ /\ MayUseKey(p)
        /\ ReadSigningKeyFails(p) \/ WriteSigningKeyFails(p)
        /\ UNCHANGED certificateVars
  /\ UNCHANGED <<stage, socketVars>>

CertificateGoesBad ==
  /\ Trouble
  /\ LeafGoesBad
  /\ UNCHANGED <<stage, socketVars, signingVars>>

\* The system chooses the port of a sink for an alternate NNCS socket.
SinkTaken(p) ==
  /\ stage[p] = "sockets"
  /\ Trouble
  /\ \E port \in Port : OpenOnTakenPort(p, port)
  /\ UNCHANGED <<stage, certificateVars, signingVars>>

Step(p) ==
  \/ Certificate(p) \/ CertificateReady(p) \/ Fatal(p)
  \/ OpenSocket(p)  \/ SocketRefused(p)    \/ CloseAll(p)   \/ ReaderEnds(p) \/ Closed(p)
  \/ ServeLoad(p)   \/ Serve(p)            \/ ServeRefused(p)
  \/ KeyWork(p)

Next ==
  \/ \E p \in Process :
       Start(p) \/ Step(p) \/ Sign(p) \/ Crash(p) \/ CallFails(p) \/ SinkTaken(p)
  \/ CertificateGoesBad

Spec == Init /\ [][Next]_vars

\* A process keeps running, and a supervised one is started again.
Fairness ==
  /\ \A p \in Process : WF_vars(Step(p))
  /\ \A p \in Supervised : WF_vars(Start(p))

FairSpec == Spec /\ Fairness
-----------------------------------------------------------------------------
TypeOK ==
  /\ {keyFile, certFile} \subseteq Content
  /\ unsound \subseteq Leaf
  /\ certStep \in [Process -> CertificateStep]
  /\ leaf \in [Process -> Content]
  /\ suspect \in [Process -> SUBSET Leaf]
  /\ signingFile \in Key \cup {"missing", "torn"}
  /\ jwtKey \in [Process -> Key \cup {"none"}]
  /\ keyStep \in [Process -> KeyStep]
  /\ durable \subseteq Key
  /\ misread \subseteq Process
  /\ replaced \subseteq Key
  /\ owner \in [Port -> Process \cup {Nobody}]
  /\ opened \in [Process -> Nat]
  /\ \A p \in Process : opened[p] <= Len(Opens[p])
  /\ readers \in [Process -> SUBSET STRING]
  /\ stage \in [Process -> Stage]
  /\ trouble \in 0..MaxTrouble

(***************************************************************************)
(* A token whose key was in the key file when it was signed is good for    *)
(* every process that comes later (nplnSigningKey, token_jwt.go:47): the   *)
(* file keeps that key and nobody verifies with another one, whatever      *)
(* crashes, which writes fail and whoever starts a second server.  Only a  *)
(* failing read of that file can end this: the process that met it works   *)
(* with a key of its own, at first alone, and all the later ones with it   *)
(* once it has written that key over the one in the file.                  *)
(***************************************************************************)
TokensOutliveRestart ==
  \A k \in durable \ replaced :
    /\ signingFile = k
    /\ \A p \in Process \ misread : keyStep[p] = "known" => jwtKey[p] = k

(***************************************************************************)
(* A leaf that had stopped matching the profile when a process started is  *)
(* not the one that process serves (ensureTlsCertificate, cert_gen.go:42), *)
(* although the pair is read from disk again after it was checked          *)
(* (local.go:56) and another process may replace it in between.            *)
(***************************************************************************)
ServesSoundLeaf ==
  \A p \in Process : Serving(p) => leaf[p] \in Leaf \ suspect[p]

(***************************************************************************)
(* However the files were left - a key without its certificate, half a     *)
(* file (cert_gen.go:337) - and whichever ports another start held for a   *)
(* while, a supervised server ends up serving and stays so.                *)
(***************************************************************************)
ComesUp == <>[](\E p \in Process : Serving(p))
=============================================================================
