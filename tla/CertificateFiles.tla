-------------------------- MODULE CertificateFiles --------------------------
(***************************************************************************)
(* The TLS key and certificate files (cert_gen.go).  A server process      *)
(* reuses the pair it finds when the two belong together and match the     *)
(* profile, and otherwise has the CA sign a new leaf and writes the key    *)
(* and the certificate, one file after the other.  Nothing locks the       *)
(* files: processes that start at the same time work on the same two.      *)
(***************************************************************************)
EXTENDS Processes, Integers, FiniteSets

CONSTANTS
  Regenerating, \* those started with NPLN_REGENERATE_CERT
  Leaf          \* leaf certificates, each with its private key

ASSUME CertificateAssumption ==
  /\ Regenerating \subseteq Process
  /\ {"missing", "torn"} \cap Leaf = {}

Content == Leaf \cup {"missing", "torn"}   \* "torn": empty or cut short

CertificateStep ==
  {"idle", "inspect", "inspectKey", "sign", "openKey", "writeKey",
   "openCert", "writeCert", "validate", "validateKey", "ready",
   "loadKey", "loaded", "failed"}

VARIABLES
  keyFile,   \* key.pem
  certFile,  \* cert.pem
  unsound,   \* leaves that no longer pass certificateMatchesProfile
  certStep,  \* what each process does next
  leaf,      \* the leaf a process writes, or whose certificate it has read
  suspect    \* leaves that were unsound when the process started

certificateVars == <<keyFile, certFile, unsound, certStep, leaf, suspect>>
files == <<keyFile, certFile, unsound, suspect>>

CertificateInit ==
  /\ keyFile = "missing"
  /\ certFile = "missing"
  /\ unsound = {}
  /\ certStep = [p \in Process |-> "idle"]
  /\ leaf = [p \in Process |-> "missing"]
  /\ suspect = [p \in Process |-> {}]

GoTo(p, step) == certStep' = [certStep EXCEPT ![p] = step]

\* A leaf no file and no process knows: a generated key is a new one.
FreshLeaf == Leaf \ ({keyFile, certFile} \cup {leaf[p] : p \in Process})
NewLeaf   == CHOOSE l \in FreshLeaf : TRUE

-----------------------------------------------------------------------------
\* tls.LoadX509KeyPair reads the certificate, then the key, and compares.
ReadCertificate(p, step) ==
  /\ leaf' = [leaf EXCEPT ![p] = certFile]
  /\ GoTo(p, step)
  /\ UNCHANGED files

PairLoads(p) == leaf[p] \in Leaf /\ keyFile = leaf[p]

\* certificateMatchesProfile: validity, issuer and names of the leaf.
Matches(l) == l \notin unsound

\* The process enters ensureTlsCertificate.
EnsureCertificate(p) ==
  /\ certStep[p] = "idle"
  /\ suspect' = [suspect EXCEPT ![p] = unsound]
  /\ GoTo(p, IF p \in Regenerating THEN "sign" ELSE "inspect")
  /\ UNCHANGED <<keyFile, certFile, unsound, leaf>>

Inspect(p) == certStep[p] = "inspect" /\ ReadCertificate(p, "inspectKey")

\* Fault: only a missing pair is replaced, an unusable one is an error.
ReuseOrFail(p) ==
  CASE PairLoads(p) /\ Matches(leaf[p]) -> "ready"
    [] {keyFile, leaf[p]} = {"missing"} -> "sign"
    [] OTHER                            -> "failed"
\* Fault: a pair that loads is good enough.
ReuseLoadable(p) == IF PairLoads(p) THEN "ready" ELSE "sign"

\* A pair that does not load, or does not match the profile, is replaced.
Reuse(p) == IF PairLoads(p) /\ Matches(leaf[p]) THEN "ready" ELSE "sign"

InspectKey(p) ==
  /\ certStep[p] = "inspectKey"
  /\ GoTo(p, Reuse(p))
  /\ UNCHANGED <<files, leaf>>

\* loadNextendoCA, the new key and the signature of the new leaf.
SignLeaf(p) ==
  /\ certStep[p] = "sign"
  /\ FreshLeaf # {}
  /\ leaf' = [leaf EXCEPT ![p] = NewLeaf]
  /\ unsound' = unsound \ {NewLeaf}
  /\ suspect' = [q \in Process |-> suspect[q] \ {NewLeaf}]
  /\ GoTo(p, "openKey")
  /\ UNCHANGED <<keyFile, certFile>>

\* os.WriteFile truncates the file, then writes it.
OpenKey(p) ==
  /\ certStep[p] = "openKey"
  /\ keyFile' = "torn"
  /\ GoTo(p, "writeKey")
  /\ UNCHANGED <<certFile, unsound, suspect, leaf>>

WriteKey(p) ==
  /\ certStep[p] = "writeKey"
  /\ keyFile' = leaf[p]
  /\ GoTo(p, "openCert")
  /\ UNCHANGED <<certFile, unsound, suspect, leaf>>

OpenCert(p) ==
  /\ certStep[p] = "openCert"
  /\ certFile' = "torn"
  /\ GoTo(p, "writeCert")
  /\ UNCHANGED <<keyFile, unsound, suspect, leaf>>

WriteCert(p) ==
  /\ certStep[p] = "writeCert"
  /\ certFile' = leaf[p]
  /\ GoTo(p, "validate")
  /\ UNCHANGED <<keyFile, unsound, suspect, leaf>>

Validate(p) == certStep[p] = "validate" /\ ReadCertificate(p, "validateKey")

\* What was written is read back, and is fatal when it is not good.
ValidateKey(p) ==
  /\ certStep[p] = "validateKey"
  /\ GoTo(p, IF PairLoads(p) /\ Matches(leaf[p]) THEN "ready" ELSE "failed")
  /\ UNCHANGED <<files, leaf>>

\* The pair is read a third time, from disk, just before port 443 opens.
LoadCertificate(p) == certStep[p] = "ready" /\ ReadCertificate(p, "loadKey")

LoadKey(p) ==
  /\ certStep[p] = "loadKey"
  /\ GoTo(p, IF PairLoads(p) THEN "loaded" ELSE "failed")
  /\ UNCHANGED <<files, leaf>>

CertificateWork(p) ==
  \/ Inspect(p)  \/ InspectKey(p) \/ SignLeaf(p)
  \/ OpenKey(p)  \/ WriteKey(p)   \/ OpenCert(p) \/ WriteCert(p)
  \/ Validate(p) \/ ValidateKey(p)

\* No CA, a key that cannot be generated, a file that cannot be written.
CertificateTrouble(p) ==
  /\ certStep[p] \in {"sign", "openKey", "writeKey", "openCert", "writeCert"}
  /\ GoTo(p, "failed")
  /\ UNCHANGED <<files, leaf>>

\* A file of the pair cannot be read: like a pair that does not load.
PairUnreadable(p) ==
  /\ \/ certStep[p] = "inspectKey" /\ GoTo(p, "sign")
     \/ certStep[p] \in {"validateKey", "loadKey"} /\ GoTo(p, "failed")
  /\ UNCHANGED <<files, leaf>>

\* The leaf on disk runs out, or the profile asked for has changed.
LeafGoesBad ==
  /\ certFile \in Leaf \ unsound
  /\ unsound' = unsound \cup {certFile}
  /\ UNCHANGED <<keyFile, certFile, certStep, leaf, suspect>>

\* The process is gone; the files stay as they are.
ForgetCertificate(p) ==
  /\ GoTo(p, "idle")
  /\ leaf' = [leaf EXCEPT ![p] = "missing"]
  /\ suspect' = [suspect EXCEPT ![p] = {}]
  /\ UNCHANGED <<keyFile, certFile, unsound>>
=============================================================================
