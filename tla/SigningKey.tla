----------------------------- MODULE SigningKey -----------------------------
(***************************************************************************)
(* The ES256 key that signs the access and session tokens (token_jwt.go).  *)
(* A process reads the key file under jwtOnce when the first token is made *)
(* or checked; when it gets no key from the file, because there is none or *)
(* because the read fails, it makes one and writes it.  A file that cannot *)
(* be written leaves the key in memory only.                               *)
(***************************************************************************)
EXTENDS Processes, Integers, FiniteSets

CONSTANTS
  Key          \* ES256 keys

ASSUME KeyAssumption == {"missing", "torn", "none"} \cap Key = {}

VARIABLES
  signingFile,  \* npln_jwt_wonder_es256.key
  jwtKey,       \* the key a process has in memory
  keyStep,      \* how far a process is inside jwtOnce
  durable,      \* history: keys that have signed while the file held them
  misread,      \* history: processes that made a key because they could not
                \* read the one in the file, which is still there
  replaced      \* history: keys in the file that those have written over

signingVars == <<signingFile, jwtKey, keyStep, durable, misread, replaced>>

KeyStep == {"unread", "open", "write", "known"}

SigningInit ==
  /\ signingFile = "missing"
  /\ jwtKey = [p \in Process |-> "none"]
  /\ keyStep = [p \in Process |-> "unread"]
  /\ durable = {}
  /\ misread = {}
  /\ replaced = {}

FreshKey ==
  Key \ (durable \cup replaced \cup {signingFile} \cup {jwtKey[p] : p \in Process})
NewKey == CHOOSE k \in FreshKey : TRUE

GenerateKey(p) ==
  /\ FreshKey # {}
  /\ jwtKey' = [jwtKey EXCEPT ![p] = NewKey]
  /\ keyStep' = [keyStep EXCEPT ![p] = "open"]

\* nplnSigningKey, reading: a file that is missing or no key calls for a new one.
ReadSigningKey(p) ==
  /\ keyStep[p] = "unread"
  /\ \/ /\ signingFile \in Key
        /\ jwtKey' = [jwtKey EXCEPT ![p] = signingFile]
        /\ keyStep' = [keyStep EXCEPT ![p] = "known"]
     \/ /\ signingFile \notin Key
        /\ GenerateKey(p)
  /\ UNCHANGED <<signingFile, durable, misread, replaced>>

\* So does any error of os.ReadFile, whatever the file holds.
ReadSigningKeyFails(p) ==
  /\ keyStep[p] = "unread"
  /\ signingFile \in Key
  /\ GenerateKey(p)
  /\ misread' = misread \cup {p}
  /\ UNCHANGED <<signingFile, durable, replaced>>

\* os.WriteFile truncates the file, then writes it.
OpenSigningFile(p) ==
  /\ keyStep[p] = "open"
  /\ signingFile' = "torn"
  /\ keyStep' = [keyStep EXCEPT ![p] = "write"]
  /\ replaced' = IF p \in misread THEN replaced \cup {signingFile} ELSE replaced
  /\ misread' = misread \ {p}
  /\ UNCHANGED <<jwtKey, durable>>

WriteSigningKey(p) ==
  /\ keyStep[p] = "write"
  /\ signingFile' = jwtKey[p]
  /\ keyStep' = [keyStep EXCEPT ![p] = "known"]
  /\ UNCHANGED <<jwtKey, durable, misread, replaced>>

\* A write that fails is only logged: the key stays in use.
WriteSigningKeyFails(p) ==
  /\ keyStep[p] \in {"open", "write"}
  /\ keyStep' = [keyStep EXCEPT ![p] = "known"]
  /\ UNCHANGED <<signingFile, jwtKey, durable, misread, replaced>>

\* mintNplnAccessToken, mintSessionToken, mintGssMatchToken.
SignToken(p) ==
  /\ keyStep[p] = "known"
  /\ durable' = IF signingFile = jwtKey[p] THEN durable \cup {jwtKey[p]}
                                           ELSE durable
  /\ UNCHANGED <<signingFile, jwtKey, keyStep, misread, replaced>>

ForgetSigningKey(p) ==
  /\ jwtKey' = [jwtKey EXCEPT ![p] = "none"]
  /\ keyStep' = [keyStep EXCEPT ![p] = "unread"]
  /\ misread' = misread \ {p}
  /\ UNCHANGED <<signingFile, durable, replaced>>
=============================================================================
