------------------------- MODULE MCClientConnection -------------------------
(* ClientConnection for TLC; MaxAttempts is given by the .cfg files. *)
EXTENDS ClientConnection

(* Not an attempt. *)
NoAttempt == 0

=============================================================================
