----------------------------- MODULE KnownHosts -----------------------------
(***************************************************************************)
(* The verification of server certificates by a client process, with the   *)
(* trust on first use scheme, and the file of known hosts it rests on.     *)
(*                                                                         *)
(* Each attempt to connect has a TofuServerVerification of its own: its    *)
(* copy of the known hosts, loaded when the attempt starts.  The handshake *)
(* calls verify_server_cert on a worker thread of the runtime, which it    *)
(* blocks while it asks the application and while it writes the file.  The *)
(* file is truncated and then rewritten as a whole, piece by piece, at the *)
(* offset each writer has reached: nothing keeps other attempts from       *)
(* reading or writing it meanwhile.                                        *)
(*                                                                         *)
(* A line of the file is two pieces, the host's name and the fingerprint;  *)
(* lines are equally long, so that pieces of two writers may replace each  *)
(* other.  A certificate stands for its fingerprint.                       *)
(***************************************************************************)
EXTENDS Integers, Sequences, FiniteSets, SequencesExt, FiniteSetsExt

CONSTANTS
  Attempts,      \* the connections the application opens over time, numbered:
                 \* those to one host are opened in this order
  Hosts,         \* names of servers
  HostOf,        \* the server of each attempt
  Certificates,  \* the certificates of all servers
  Behaviour,     \* verifier_behaviour, a function of some or all statuses
  Workers,       \* worker threads of the runtime
  Hole,          \* a piece of the file that was never written
  None

ASSUME AttemptsAssumption == Attempts \subseteq Nat
ASSUME HostsAssumption == HostOf \in [Attempts -> Hosts] /\ IsFiniteSet(Hosts)
ASSUME PiecesAssumption ==
  /\ Hosts \cap Certificates = {}
  /\ {Hole, None} \cap (Hosts \cup Certificates) = {}
ASSUME WorkersAssumption == Workers \in Nat \ {0}

Statuses == {"UnknownCertificate", "UntrustedCertificate", "TrustedCertificate"}
CertActions == {"AbortConnection", "TrustOnce", "TrustAndStore"}

(* verifier_behaviour of TrustOnFirstUseConfig::default. *)
DefaultVerifierBehaviour ==
  [UnknownCertificate |-> "TrustAndStore",
   UntrustedCertificate |-> "RequestClientAction",
   TrustedCertificate |-> "TrustOnce"]

ASSUME NoneAssumption == None \notin Statuses \cup CertActions \cup {"queued", "raised"}

ASSUME BehaviourAssumption ==
  /\ DOMAIN Behaviour \subseteq Statuses
  /\ \A s \in DOMAIN Behaviour : Behaviour[s] \in CertActions \cup {"RequestClientAction"}

VARIABLES
  hostsFile,  \* the pieces of the known hosts file; an empty file is like none
  verifier,   \* the state of each attempt, see Idle
  (* history *)
  kept,       \* the certificates that were stored, until stores raced
  raced,      \* stores of the file overlapped, started from an old copy, or broke off
  mixed,      \* stores of the file overlapped
  consented   \* <<host, certificate>> for which TrustAndStore was decided

history == <<kept, raced, mixed, consented>>

verifierVars == <<hostsFile, verifier, history>>

EmptyStore == [h \in Hosts |-> None]

Idle ==
  [phase |-> "idle",      \* "connecting", "acting", "asking", "writing", "trusted", "failed", ..
   store |-> EmptyStore,  \* the verifier's copy of the known hosts
   known |-> None,        \* history: what it should hold of the attempt's host
   cert |-> None,         \* the certificate the server presented
   status |-> None,
   action |-> None,       \* what was decided
   request |-> None,      \* CertificateInteractionRequest: "queued", "raised"
   pieces |-> <<>>,       \* what remains to be written
   offset |-> 0]          \* how many pieces were

VerifierInit ==
  /\ hostsFile = <<>>
  /\ verifier = [a \in Attempts |-> Idle]
  /\ kept = EmptyStore
  /\ raced = FALSE
  /\ mixed = FALSE
  /\ consented = {}

Writing == {a \in Attempts : verifier[a].phase = "writing"}

InVerification == {a \in Attempts : verifier[a].phase \in {"acting", "asking", "writing"}}

UnderWay == InVerification \cup {a \in Attempts : verifier[a].phase = "connecting"}

(* A verification keeps its worker thread, also while it waits. *)
WorkerIsFree == Cardinality(InVerification) < Workers

Becomes(a, v) == verifier' = [verifier EXCEPT ![a] = v]

(* The attempt is over and its verifier dropped. *)
Ended(ph) == [Idle EXCEPT !.phase = ph]

-----------------------------------------------------------------------------
(* The file of known hosts.                                                *)

IsEntry(i) == i % 2 = 1

(* Every line has a name and a fingerprint. *)
Readable(file) ==
  /\ Len(file) % 2 = 0
  /\ \A i \in DOMAIN file : file[i] \in IF IsEntry(i) THEN Hosts ELSE Certificates

(* parse_known_host_line for every line; the last line of a host counts. *)
StoreIn(file) ==
  [h \in Hosts |->
    LET lines == {i \in DOMAIN file : IsEntry(i) /\ file[i] = h}
    IN IF lines = {} THEN None ELSE file[Max(lines) + 1]]

(* Mutant: the file is opened for appending. *)
Appended(file, i, piece) == Append(file, piece)

(* A piece written at an offset that may be beyond the end of the file. *)
WrittenAt(file, i, piece) ==
  [k \in 1..Max({Len(file), i}) |->
    IF k = i THEN piece ELSE IF k <= Len(file) THEN file[k] ELSE Hole]

(* Mutant: the new entry replaces the ones that were known. *)
OnlyTheEntry(store, h, cert) == [EmptyStore EXCEPT ![h] = cert]

WithEntry(store, h, cert) == [store EXCEPT ![h] = cert]

(* A line for each of these hosts. *)
Lines(hs, store) ==
  [i \in 1..2 * Len(hs) |-> IF IsEntry(i) THEN hs[(i + 1) \div 2] ELSE store[hs[i \div 2]]]

(* The lines of a store, in the order of its hash map, which is any. *)
Files(store) == {Lines(hs, store) : hs \in SetToSeqs({h \in Hosts : store[h] # None})}

-----------------------------------------------------------------------------
(* The start of an attempt: configure_client loads the known hosts.        *)

(* A file that cannot be parsed makes the task of the connection panic.    *)
LoadKnownHosts(a) ==
  /\ verifier[a].phase = "idle"
  /\ \A b \in Attempts : HostOf[b] = HostOf[a] /\ b < a => verifier[b].phase # "idle"
  /\ WorkerIsFree
  /\ LET known == IF raced \/ Writing # {} THEN None ELSE kept[HostOf[a]]
     IN Becomes(a, IF Readable(hostsFile)
                   THEN [Idle EXCEPT !.phase = "connecting", !.store = StoreIn(hostsFile),
                                     !.known = known]
                   ELSE [Idle EXCEPT !.phase = "panicked", !.known = known])
  /\ UNCHANGED <<hostsFile, history>>

(* The server does not answer. *)
ConnectFails(a) ==
  /\ verifier[a].phase = "connecting"
  /\ WorkerIsFree
  /\ Becomes(a, Ended("failed"))
  /\ UNCHANGED <<hostsFile, history>>

-----------------------------------------------------------------------------
(* apply_verifier_immediate_action.                                        *)

(* Mutant: the file is opened as it is, and written over.                  *)
TrustAndStoreInPlace(a) ==
  LET v == verifier[a]
  IN /\ consented' = consented \cup {<<HostOf[a], v.cert>>}
     /\ \E file \in Files(WithEntry(v.store, HostOf[a], v.cert)) :
          Becomes(a, [v EXCEPT !.phase = "writing", !.pieces = file])
     /\ mixed' = (mixed \/ Writing # {})
     /\ raced' = (raced \/ Writing # {} \/ v.store # kept)
     /\ kept' = IF raced' THEN EmptyStore ELSE kept
     /\ UNCHANGED hostsFile

(* A hosts file is written, beginning with File::create.  Two stores race  *)
(* if they overlap, or if the second one started from a copy that the      *)
(* first one's certificate is not in; only those that overlap can mix      *)
(* their lines.                                                            *)
TrustAndStore(a) ==
  LET v == verifier[a]
  IN /\ consented' = consented \cup {<<HostOf[a], v.cert>>}
     /\ \E file \in Files(WithEntry(v.store, HostOf[a], v.cert)) :
          Becomes(a, [v EXCEPT !.phase = "writing", !.pieces = file])
     /\ hostsFile' = <<>>
     /\ mixed' = (mixed \/ Writing # {})
     /\ raced' = (raced \/ Writing # {} \/ v.store # kept)
     /\ kept' = IF raced' THEN EmptyStore ELSE kept

Act(a) ==
  LET v == verifier[a]
  IN /\ v.phase = "acting"
     /\ \/ /\ v.action = "AbortConnection"
           /\ Becomes(a, Ended("failed"))
           /\ UNCHANGED <<hostsFile, history>>
        \/ /\ v.action = "TrustOnce"
           /\ Becomes(a, Ended("trusted"))
           /\ UNCHANGED <<hostsFile, history>>
        \/ v.action = "TrustAndStore" /\ TrustAndStore(a)

(* The rest of store_known_hosts_to_file, a piece at a time. *)
WritePiece(a) ==
  LET v == verifier[a]
  IN /\ v.phase = "writing"
     /\ v.pieces # <<>>
     /\ hostsFile' = WrittenAt(hostsFile, v.offset + 1, Head(v.pieces))
     /\ Becomes(a, [v EXCEPT !.pieces = Tail(@), !.offset = @ + 1])
     /\ UNCHANGED history

(* The event about the new certificate follows.  If the application let go *)
(* of the connection meanwhile, by close_connection or reconnect, nobody   *)
(* can receive it and the handshake fails, although the file was written.  *)
StoreEnds(a) ==
  LET v == verifier[a]
  IN /\ v.phase = "writing"
     /\ v.pieces = <<>>
     /\ \E outcome \in {"trusted", "failed"} : Becomes(a, Ended(outcome))
     /\ kept' = IF raced THEN kept ELSE [kept EXCEPT ![HostOf[a]] = v.cert]
     /\ UNCHANGED <<hostsFile, raced, mixed, consented>>

(* The write fails, for one because the disk is full. *)
StoreFails(a) ==
  /\ verifier[a].phase = "writing"
  /\ verifier[a].pieces # <<>>
  /\ Becomes(a, Ended("failed"))
  /\ raced' = TRUE
  /\ kept' = EmptyStore
  /\ UNCHANGED <<hostsFile, mixed, consented>>

-----------------------------------------------------------------------------
(* verify_server_cert, which the handshake calls, and the application.     *)

(* Mutant: a fingerprint that is known is not compared. *)
StatusIfKnown(known, cert) ==
  IF known = None THEN "UnknownCertificate" ELSE "TrustedCertificate"

StatusOf(known, cert) ==
  IF known = None THEN "UnknownCertificate"
  ELSE IF known = cert THEN "TrustedCertificate" ELSE "UntrustedCertificate"

BehaviourFor(status) ==
  IF status \in DOMAIN Behaviour THEN Behaviour[status] ELSE "AbortConnection"

(* The verifier blocks on the application's answer.  It panics if there is *)
(* nobody to ask any more; the effect is that of LetGo.                    *)
VerifyServerCert(a, cert) ==
  /\ verifier[a].phase = "connecting"
  /\ WorkerIsFree
  /\ LET status == StatusOf(verifier[a].store[HostOf[a]], cert)
         v == [verifier[a] EXCEPT !.cert = cert, !.status = status]
     IN Becomes(a, IF BehaviourFor(status) = "RequestClientAction"
                   THEN [v EXCEPT !.phase = "asking", !.request = "queued"]
                   ELSE [v EXCEPT !.phase = "acting", !.action = BehaviourFor(status)])
  /\ UNCHANGED <<hostsFile, history>>

(* handle_client_events makes a CertInteractionEvent of the request. *)
RaiseInteraction(a) ==
  /\ verifier[a].request = "queued"
  /\ Becomes(a, [verifier[a] EXCEPT !.request = "raised"])
  /\ UNCHANGED <<hostsFile, history>>

(* apply_cert_verifier_action, with which the verifier goes on. *)
ApplyCertVerifierAction(a, action) ==
  /\ verifier[a].request = "raised"
  /\ Becomes(a, [verifier[a] EXCEPT !.phase = "acting", !.request = None, !.action = action])
  /\ UNCHANGED <<hostsFile, history>>

(* Mutant: the sender outlives its event, and the verifier waits on. *)
EventDroppedUnnoticed(a) ==
  /\ verifier[a].request = "raised"
  /\ Becomes(a, [verifier[a] EXCEPT !.request = "dropped"])
  /\ UNCHANGED <<hostsFile, history>>

(* The engine drops an event two frames after it was raised; with it goes  *)
(* the sender that the verifier waits for.                                 *)
EventDropped(a) ==
  /\ verifier[a].request = "raised"
  /\ Becomes(a, Ended("failed"))
  /\ UNCHANGED <<hostsFile, history>>

(* close_connection, or reconnect: the queue of messages is dropped, and a *)
(* request that is still in it.                                            *)
LetGo(a) ==
  /\ verifier[a].request = "queued"
  /\ Becomes(a, Ended("failed"))
  /\ UNCHANGED <<hostsFile, history>>

(* The client process ends, however far its attempts have come. *)
ClientStops ==
  /\ UnderWay # {}
  /\ verifier' = [a \in Attempts |-> IF a \in UnderWay THEN Ended("failed") ELSE verifier[a]]
  /\ raced' = (raced \/ Writing # {})
  /\ kept' = IF raced' THEN EmptyStore ELSE kept
  /\ UNCHANGED <<hostsFile, mixed, consented>>

-----------------------------------------------------------------------------

(* The steps of an attempt that was started, and of its event. *)
AttemptNext(a) ==
  \/ ConnectFails(a)
  \/ Act(a)
  \/ WritePiece(a)
  \/ StoreEnds(a)
  \/ RaiseInteraction(a)
  \/ EventDropped(a)

VerifierNext ==
  \/ \E a \in Attempts : \/ LoadKnownHosts(a)
                         \/ AttemptNext(a)
                         \/ \E action \in CertActions : ApplyCertVerifierAction(a, action)
                         \/ LetGo(a)
                         \/ StoreFails(a)
  \/ ClientStops

(* A verification that was called goes on; its event is raised by the next *)
(* frame, and dropped if nobody answers; a server answers, or the attempt  *)
(* times out.                                                              *)
VerifierFairness == \A a \in Attempts : WF_verifierVars(AttemptNext(a))

-----------------------------------------------------------------------------
(* Properties.                                                             *)

Phases == {"idle", "connecting", "acting", "asking", "writing", "trusted", "failed", "panicked"}

Stores == [Hosts -> Certificates \cup {None}]

Verifiers ==
  [phase : Phases, store : Stores,
   known : Certificates \cup {None}, cert : Certificates \cup {None},
   status : Statuses \cup {None}, action : CertActions \cup {None},
   request : {"queued", "raised", None},
   pieces : Seq(Hosts \cup Certificates), offset : Nat]

VerifierTypeOK ==
  /\ hostsFile \in Seq(Hosts \cup Certificates \cup {Hole})
  /\ Len(hostsFile) <= 2 * Cardinality(Hosts)
  /\ verifier \in [Attempts -> Verifiers]
  /\ \A a \in Attempts :
       /\ verifier[a].phase = "asking" <=> verifier[a].request # None
       /\ verifier[a].offset + Len(verifier[a].pieces) <= 2 * Cardinality(Hosts)
  /\ kept \in Stores
  /\ raced \in BOOLEAN /\ mixed \in BOOLEAN
  /\ consented \in SUBSET (Hosts \X Certificates)

(* A certificate is taken for trusted only if TrustAndStore was decided    *)
(* for it: neither a file that was read half-written, nor one broken off,  *)
(* nor lines that two writers mixed make one trusted that never was.  It   *)
(* was decided for this very host, unless writers mixed their lines: they  *)
(* may give a host the certificate that another one was trusted with, and  *)
(* nothing keeps two servers from presenting the same one.                 *)
TrustedWasConsented ==
  \A a \in Attempts :
    LET v == verifier[a]
    IN v.status = "TrustedCertificate" =>
         /\ \E h \in Hosts : <<h, v.cert>> \in consented
         /\ ~mixed => <<HostOf[a], v.cert>> \in consented

(* As long as the stores of the file have neither overlapped nor started   *)
(* from an old copy nor been broken off, the file can be loaded and a host *)
(* whose certificate was stored is never taken for one that is unknown:    *)
(* TrustAndStore rewrites the file with all that was in it.                *)
KnownIsRecognised ==
  \A a \in Attempts :
    LET v == verifier[a]
    IN v.known # None =>
         /\ v.phase # "panicked"
         /\ v.status \in {None, IF v.cert = v.known THEN "TrustedCertificate"
                                                    ELSE "UntrustedCertificate"}

(* Every attempt ends, whether its handshake waits for the application, or *)
(* for a worker thread that other handshakes block meanwhile.  (There are  *)
(* finitely many.)                                                         *)
AttemptsEnd == []<>(UnderWay = {})

=============================================================================
