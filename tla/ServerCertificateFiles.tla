----------------------- MODULE ServerCertificateFiles -----------------------
(***************************************************************************)
(* How a server gets its certificate each time it starts: from a pair of   *)
(* files, or a new self-signed one that it may save to them.  The two      *)
(* files are written in place, one after the other; the server may stop,   *)
(* crash or fail between any two steps and start again later.              *)
(*                                                                         *)
(* Certificates are numbered in the order they are generated; a key has    *)
(* the number of its certificate.                                          *)
(***************************************************************************)
EXTENDS Integers

CONSTANTS
  MaxCertificates,  \* how many are generated: a bound of the model
  Modes             \* the CertificateRetrievalModes the server is started with

ASSUME CertificatesAssumption == MaxCertificates \in Nat
(* The last two are LoadFromFileOrGenerateSelfSigned, with and without     *)
(* save_on_disk.                                                           *)
RetrievalModes == {"GenerateSelfSigned", "LoadFromFile", "LoadOrSave", "LoadOrGenerate"}

ASSUME ModesAssumption == Modes \subseteq RetrievalModes

VARIABLES
  server,       \* "down", "saving cert", "saving key", "up"
  certificate,  \* the one in memory, 0 if there is none
  generated,    \* the last one that was generated
  certFile,     \* what each file holds: a number, Missing or Torn
  keyFile,
  (* history *)
  forgotten,    \* a certificate was not saved, or somebody removed a file
  brokenOff     \* the last save of the two files did not come to its end

certificateVars ==
  <<server, certificate, generated, certFile, keyFile, forgotten, brokenOff>>

Missing == -1
Torn == 0

CertificateInit ==
  /\ server = "down"
  /\ certificate = 0
  /\ generated = 0
  /\ certFile = Missing
  /\ keyFile = Missing
  /\ forgotten = FALSE
  /\ brokenOff = FALSE

-----------------------------------------------------------------------------
(* retrieve_certificate, at the start of the server.  Once it has its      *)
(* certificate the server is up: a start that fails afterwards, for one    *)
(* because the socket cannot be bound, is one that goes down at once.      *)

BothExist == certFile # Missing /\ keyFile # Missing

(* Both files can be read, and rustls finds that they belong together. *)
Loadable == certFile = keyFile /\ certFile \notin {Missing, Torn}

(* read_cert_from_files.  If a file cannot be read, or the key does not    *)
(* match, start_endpoint stops with an error or a panic: nothing changes.  *)
Load(mode) ==
  /\ server = "down"
  /\ mode # "GenerateSelfSigned"
  /\ Loadable
  /\ server' = "up"
  /\ certificate' = certFile
  /\ UNCHANGED <<generated, certFile, keyFile, forgotten, brokenOff>>

(* A new certificate, unless both files are there. *)
Generate(mode) ==
  /\ server = "down"
  /\ generated < MaxCertificates
  /\ mode # "LoadFromFile"
  /\ mode \in {"LoadOrGenerate", "LoadOrSave"} => ~BothExist
  /\ generated' = generated + 1
  /\ certificate' = generated + 1
  /\ server' = IF mode = "LoadOrSave" THEN "saving cert" ELSE "up"
  /\ forgotten' = (forgotten \/ mode # "LoadOrSave")
  /\ UNCHANGED <<certFile, keyFile, brokenOff>>

-----------------------------------------------------------------------------
(* write_cert_to_files: one file after the other, each truncated and then  *)
(* filled in place.  Only this process looks at them, so that a file is    *)
(* seen torn only if the process goes down meanwhile.                      *)

WriteCert ==
  /\ server = "saving cert"
  /\ server' = "saving key"
  /\ certFile' = certificate
  /\ UNCHANGED <<certificate, generated, keyFile, forgotten, brokenOff>>

(* Mutant: a key that is there is kept. *)
WriteMissingKey ==
  /\ server = "saving key"
  /\ server' = "up"
  /\ keyFile' = IF keyFile = Missing THEN certificate ELSE keyFile
  /\ brokenOff' = FALSE
  /\ UNCHANGED <<certificate, generated, certFile, forgotten>>

WriteKey ==
  /\ server = "saving key"
  /\ server' = "up"
  /\ keyFile' = certificate
  /\ brokenOff' = FALSE
  /\ UNCHANGED <<certificate, generated, certFile, forgotten>>

(* The server stops, its process crashes, or a write fails, which may have *)
(* truncated or half filled its file.                                      *)
Down ==
  /\ server # "down"
  /\ server' = "down"
  /\ certificate' = 0
  /\ certFile' \in {certFile} \cup IF server = "saving cert" THEN {Torn} ELSE {}
  /\ keyFile' \in {keyFile} \cup IF server = "saving key" THEN {Torn} ELSE {}
  /\ brokenOff' = (brokenOff \/ server \in {"saving cert", "saving key"})
  /\ UNCHANGED <<generated, forgotten>>

(* The operator removes a file while the server is down. *)
RemoveFile ==
  /\ server = "down"
  /\ \/ certFile # Missing /\ certFile' = Missing /\ UNCHANGED keyFile
     \/ keyFile # Missing /\ keyFile' = Missing /\ UNCHANGED certFile
  /\ forgotten' = TRUE
  /\ UNCHANGED <<server, certificate, generated, brokenOff>>

CertificateNext ==
  \/ \E mode \in Modes : Load(mode) \/ Generate(mode)
  \/ WriteCert
  \/ WriteKey
  \/ Down
  \/ RemoveFile

-----------------------------------------------------------------------------
(* Properties.                                                             *)

CertificateTypeOK ==
  /\ server \in {"down", "saving cert", "saving key", "up"}
  /\ certificate \in 0..MaxCertificates
  /\ certificate = 0 <=> server = "down"
  /\ generated \in 0..MaxCertificates
  /\ certFile \in {Missing, Torn} \cup 1..MaxCertificates
  /\ keyFile \in {Missing, Torn} \cup 1..MaxCertificates
  /\ forgotten \in BOOLEAN /\ brokenOff \in BOOLEAN

(* Two files that are there and keep the server from starting were left by *)
(* a crash or a failure in the middle of saving them: whichever file was   *)
(* missing, both are written again.                                        *)
UnloadableWasBrokenOff ==
  server = "down" /\ BothExist /\ ~Loadable => brokenOff

=============================================================================
