-------------------------- MODULE CertificateTrust --------------------------
(***************************************************************************)
(* The certificates of both sides together: a server that stops, crashes   *)
(* and starts again, and a client process that connects to it and to       *)
(* another server, each time trusting what its known hosts say.            *)
(*                                                                         *)
(* The first server is the one of ServerCertificateFiles, and presents the *)
(* certificate it was started with.  What else is presented under a name,  *)
(* its own or another one, is any: servers may share a certificate, and    *)
(* those of one machine, on several ports, share its name.                 *)
(***************************************************************************)
EXTENDS KnownHosts, ServerCertificateFiles

CONSTANTS
  ServerHost,  \* the name of the first server
  CertsOf      \* the certificates that other servers present under each name

ASSUME ServerAssumption ==
  /\ ServerHost \in Hosts
  /\ CertsOf \in [Hosts -> SUBSET Certificates]
  /\ 1..MaxCertificates \subseteq Certificates

vars == <<verifierVars, certificateVars>>

Init == VerifierInit /\ CertificateInit

(* Mutant: the server is started before its certificate is saved. *)
PresentedEarly(h) ==
  CertsOf[h] \cup IF h = ServerHost /\ server # "down" THEN {certificate} ELSE {}

(* The certificates that may be presented under the name h at this time. *)
Presented(h) ==
  CertsOf[h] \cup IF h = ServerHost /\ server = "up" THEN {certificate} ELSE {}

Handshake(a) ==
  /\ \E cert \in Presented(HostOf[a]) : VerifyServerCert(a, cert)
  /\ UNCHANGED certificateVars

Client == VerifierNext /\ UNCHANGED certificateVars

Server == CertificateNext /\ UNCHANGED verifierVars

Next == (\E a \in Attempts : Handshake(a)) \/ Client \/ Server

Spec == Init /\ [][Next]_vars

(* Nothing is assumed of the server: an attempt to reach it may fail. *)
FairSpec == Spec /\ VerifierFairness

-----------------------------------------------------------------------------
(* Properties.                                                             *)

TypeOK == VerifierTypeOK /\ CertificateTypeOK

(* A server that saves its certificate, whose files nobody removes and     *)
(* that does not share its name, has one identity through all its stops    *)
(* and crashes: what is saved is saved before it is presented.  A client   *)
(* that stored it is never told that the certificate changed.  (Stores of  *)
(* the client that overlap may give the server's name the certificate of   *)
(* another host.)                                                          *)
SavedIsRecognised ==
  ~forgotten /\ ~mixed /\ CertsOf[ServerHost] = {} =>
    \A a \in Attempts :
      HostOf[a] = ServerHost => verifier[a].status # "UntrustedCertificate"

=============================================================================
