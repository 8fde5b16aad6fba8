------------------------- MODULE MCCertificateTrust -------------------------
(* CertificateTrust for TLC: two attempts to reach the server, whose       *)
(* certificates are 1 and 2, and one to reach another host, which has one  *)
(* certificate, the second one of the server.                              *)
EXTENDS CertificateTrust

CONSTANTS h1, h2

MCAttempts == 1..3
MCHosts == {h1, h2}
MCHostOf == <<h1, h2, h1>>
MCCertificates == 1..2
MCCertsOf == [h \in MCHosts |-> IF h = h1 THEN {} ELSE {2}]

=============================================================================
