----------------------- MODULE CertificateTrustProofs -----------------------
(***************************************************************************)
(* What CertificateTrust keeps true for every number of hosts, attempts,   *)
(* certificates and worker threads, and for every behaviour the client is  *)
(* configured with.                                                        *)
(***************************************************************************)
EXTENDS CertificateTrust, FunctionTheorems, FiniteSetTheorems, DataFacts

(* A verification goes from what the attempt loaded and was presented; it  *)
(* holds pieces of a file only while it writes.                            *)
Sound(a, v) ==
  /\ v.phase \in {"acting", "asking", "writing"} => v.cert # None
  /\ v.phase # "writing" => v.pieces = <<>> /\ v.offset = 0
  /\ v.status # None => v.cert # None /\ v.status = StatusOf(v.store[HostOf[a]], v.cert)
  /\ v.known # None => v.phase # "panicked" /\ v.store[HostOf[a]] = v.known

AttemptInv == \A a \in Attempts : Sound(a, verifier[a])

(* The certificates for which the application, for any host, decided       *)
(* TrustAndStore.                                                          *)
Approved == {p[2] : p \in consented}

ApprovedFile(file) == \A i \in DOMAIN file : file[i] \in Certificates => file[i] \in Approved
ApprovedStore(store) == \A h \in Hosts : store[h] # None => store[h] \in Approved

(* Wherever certificates get to, by files of several writers and copies of *)
(* files half-written, they were approved once.                            *)
ApprovedInv ==
  /\ ApprovedFile(hostsFile)
  /\ \A a \in Attempts : ApprovedFile(verifier[a].pieces) /\ ApprovedStore(verifier[a].store)

(* Every certificate stands by the name of a host it was approved for.     *)
Faithful(store) == \A h \in Hosts : store[h] # None => <<h, store[h]>> \in consented

(* So it does on the lines of a file, the last of which may be a half.     *)
Paired(file) ==
  \A i \in DOMAIN file :
    IsEntry(i) /\ i + 1 \in DOMAIN file => <<file[i], file[i + 1]>> \in consented

(* As long as stores do not mix, the file is the beginning of what its     *)
(* only writer is going to have written, and no name gets the certificate  *)
(* of another one.                                                         *)
PairsInv ==
  ~mixed =>
    /\ \A a \in Attempts : Faithful(verifier[a].store)
    /\ Paired(hostsFile)
    /\ \A a \in Writing :
         LET v == verifier[a]
         IN /\ Writing = {a}
            /\ v.offset = Len(hostsFile)
            /\ Paired(hostsFile \o v.pieces)

(* As long as stores do not race, the file is what was stored, or is going *)
(* to be.                                                                  *)
StoreInv ==
  /\ mixed => raced
  /\ ~raced =>
       /\ Writing = {} => Readable(hostsFile) /\ StoreIn(hostsFile) = kept
       /\ \A a \in Writing :
            LET v == verifier[a]
            IN v.store = kept /\ hostsFile \o v.pieces \in Files(WithEntry(kept, HostOf[a], v.cert))

(* The certificates that clients have seen under the first server's name.  *)
Seen ==
  {p[2] : p \in {q \in consented : q[1] = ServerHost}}
    \cup {verifier[a].cert : a \in {b \in Attempts : HostOf[b] = ServerHost
                                                      /\ verifier[b].cert # None}}

(* What was presented is what was saved, if the name is the server's alone. *)
IdentityInv ==
  ~forgotten /\ CertsOf[ServerHost] = {} =>
    /\ server = "up" => certFile = certificate /\ keyFile = certificate
    /\ Seen # {} => server \in {"up", "down"}
    /\ \A c \in Seen : c # Missing /\ certFile = c /\ keyFile = c

(* Two files that are there belong together, unless a save of them broke   *)
(* off or is on its way.                                                   *)
SavedInv ==
  /\ server = "saving key" => certFile = certificate
  /\ ~brokenOff /\ server # "saving key" /\ BothExist => Loadable

IInv ==
  /\ TypeOK
  /\ AttemptInv
  /\ ApprovedInv
  /\ PairsInv
  /\ StoreInv
  /\ IdentityInv
  /\ SavedInv

-----------------------------------------------------------------------------
(* The file of known hosts.                                                *)

Texts == Hosts \cup Certificates

LEMMA MaxOfTwo ==
  ASSUME NEW m \in Nat, NEW n \in Nat
  PROVE  Max({m, n}) = IF m >= n THEN m ELSE n
<1> DEFINE k == IF m >= n THEN m ELSE n
<1>1. k \in {m, n} /\ \A j \in {m, n} : k >= j
  OBVIOUS
<1>2. \A x \in {m, n} : (\A j \in {m, n} : x >= j) => x = k
  OBVIOUS
<1> HIDE DEF k
<1>3. Max({m, n}) = k
  BY <1>1, <1>2 DEF Max
<1> QED
  BY <1>3 DEF k

(* The greatest of some positions of a file is one of them.                *)
LEMMA MaxOfPositions ==
  ASSUME NEW n \in Nat, NEW T, T \subseteq 1..n, T # {}
  PROVE  Max(T) \in T /\ \A j \in T : Max(T) >= j
<1>1. T \subseteq Nat /\ \A x \in T : x <= n
  OBVIOUS
<1>2. \E x \in T : \A j \in T : x >= j
  BY <1>1, Greatest
<1> QED
  BY <1>2 DEF Max

(* What a write at an offset does to a file: it has that piece, what it    *)
(* had, and possibly a hole.                                               *)
LEMMA WrittenAtFile ==
  ASSUME NEW file \in Seq(Texts \cup {Hole}), NEW i \in Nat \ {0}, NEW piece \in Texts
  PROVE  /\ WrittenAt(file, i, piece) \in Seq(Texts \cup {Hole})
         /\ Len(WrittenAt(file, i, piece)) = IF Len(file) >= i THEN Len(file) ELSE i
         /\ \A k \in DOMAIN WrittenAt(file, i, piece) :
              \/ WrittenAt(file, i, piece)[k] \in {piece, Hole}
              \/ k \in DOMAIN file /\ WrittenAt(file, i, piece)[k] = file[k]
         /\ i = Len(file) + 1 => WrittenAt(file, i, piece) = Append(file, piece)
<1> DEFINE w == WrittenAt(file, i, piece)
           n == IF Len(file) >= i THEN Len(file) ELSE i
<1>1. Len(file) \in Nat /\ DOMAIN file = 1..Len(file) /\ n \in Nat
  BY LenProperties
<1>2. w = [k \in 1..n |-> IF k = i THEN piece ELSE IF k <= Len(file) THEN file[k] ELSE Hole]
  BY <1>1, MaxOfTwo DEF WrittenAt
<1>3. \A k \in 1..n : IF k = i THEN w[k] = piece
                      ELSE IF k <= Len(file) THEN k \in DOMAIN file /\ w[k] = file[k]
                      ELSE w[k] = Hole
  BY <1>1, <1>2
<1>4. \A k \in DOMAIN file : file[k] \in Texts \cup {Hole}
  BY <1>1, ElementOfSeq
<1>5. DOMAIN w = 1..n
  BY <1>2
<1>6. \A k \in 1..n : w[k] \in Texts \cup {Hole}
  BY <1>3, <1>4
<1>7. w \in [1..n -> Texts \cup {Hole}]
  BY <1>2, <1>6
<1>8. w \in Seq(Texts \cup {Hole}) /\ Len(w) = n
  BY <1>1, <1>7, LenProperties
<1>9. ASSUME i = Len(file) + 1 PROVE w = Append(file, piece)
  <2>1. n = Len(file) + 1
    BY <1>1, <1>9
  <2>2. /\ Append(file, piece) \in Seq(Texts \cup {Hole})
        /\ Len(Append(file, piece)) = Len(file) + 1
        /\ \A k \in 1..Len(file) : Append(file, piece)[k] = file[k]
        /\ Append(file, piece)[Len(file) + 1] = piece
    BY AppendProperties
  <2>3. \A k \in 1..(Len(file) + 1) : w[k] = Append(file, piece)[k]
    BY <1>1, <1>3, <1>9, <2>1, <2>2
  <2> HIDE DEF w
  <2> QED
    BY <1>8, <2>1, <2>2, <2>3, SeqEqual
<1> HIDE DEF w
<1> QED
  BY <1>3, <1>5, <1>8, <1>9 DEF w

(* What is loaded from a file is on one of its lines.                      *)
LEMMA StoreInFile ==
  ASSUME NEW file \in Seq(Texts \cup {Hole}), Readable(file)
  PROVE  /\ StoreIn(file) \in Stores
         /\ \A h \in Hosts :
              LET lines == {i \in DOMAIN file : IsEntry(i) /\ file[i] = h}
              IN IF lines = {} THEN StoreIn(file)[h] = None
                 ELSE \E i \in lines : /\ i + 1 \in DOMAIN file /\ ~IsEntry(i + 1)
                                       /\ StoreIn(file)[h] = file[i + 1]
                                       /\ file[i + 1] \in Certificates
<1>1. Len(file) \in Nat /\ DOMAIN file = 1..Len(file) /\ Len(file) % 2 = 0
  BY LenProperties DEF Readable
<1>2. ASSUME NEW i \in DOMAIN file, IsEntry(i)
      PROVE  i + 1 \in DOMAIN file /\ ~IsEntry(i + 1) /\ file[i + 1] \in Certificates
  <2>1. i + 1 \in DOMAIN file /\ ~IsEntry(i + 1)
    BY <1>1, <1>2 DEF IsEntry
  <2> QED
    BY <2>1 DEF Readable
<1>3. ASSUME NEW h \in Hosts
      PROVE  LET lines == {i \in DOMAIN file : IsEntry(i) /\ file[i] = h}
             IN IF lines = {} THEN StoreIn(file)[h] = None
                ELSE \E i \in lines : /\ i + 1 \in DOMAIN file /\ ~IsEntry(i + 1)
                                      /\ StoreIn(file)[h] = file[i + 1]
                                      /\ file[i + 1] \in Certificates
  <2> DEFINE lines == {i \in DOMAIN file : IsEntry(i) /\ file[i] = h}
  <2>1. StoreIn(file)[h] = IF lines = {} THEN None ELSE file[Max(lines) + 1]
    BY DEF StoreIn
  <2>2. CASE lines # {}
    <3>1. Max(lines) \in lines
      BY <1>1, <2>2, MaxOfPositions
    <3> QED
      BY <1>2, <2>1, <2>2, <3>1
  <2> QED
    BY <2>1, <2>2
<1>4. \A h \in Hosts : StoreIn(file)[h] \in Certificates \cup {None}
  BY <1>3
<1> QED
  BY <1>3, <1>4 DEF Stores, StoreIn

(* The file that is written for a store: a line for each host it knows,    *)
(* with the host's certificate, and nothing else.                          *)
LEMMA FilesLines ==
  ASSUME NEW store \in Stores, NEW f \in Files(store)
  PROVE  /\ f \in Seq(Texts)
         /\ Len(f) <= 2 * Cardinality(Hosts)
         /\ Len(f) % 2 = 0
         /\ \A i \in DOMAIN f :
              IF IsEntry(i)
              THEN f[i] \in Hosts /\ store[f[i]] # None /\ i + 1 \in DOMAIN f
                   /\ f[i + 1] = store[f[i]]
              ELSE \E h \in Hosts : store[h] # None /\ f[i] = store[h]
         /\ \A h \in Hosts : store[h] # None => \E i \in DOMAIN f : IsEntry(i) /\ f[i] = h
<1> DEFINE T == {h \in Hosts : store[h] # None}
           n == Cardinality(T)
<1>1. IsFiniteSet(T) /\ n \in Nat /\ n <= Cardinality(Hosts) /\ Cardinality(Hosts) \in Nat
  BY HostsAssumption, FS_Subset, FS_CardinalityType
<1>2. PICK hs \in SetToSeqs(T) : f = Lines(hs, store)
  BY DEF Files
<1>3. hs \in [1..n -> T] /\ \A i, j \in 1..n : i # j => hs[i] # hs[j]
  BY <1>2 DEF SetToSeqs
<1>4. hs \in Surjection(1..n, T)
  <2>0. n = Cardinality(T)
    OBVIOUS
  <2> HIDE DEF n, T
  <2>1. hs \in Injection(1..n, T)
    <3>1. hs \in [1..n -> T] /\ \A i, j \in 1..n : hs[i] = hs[j] => i = j
      BY <1>3
    <3> QED
      BY <3>1, Fun_IsInj
  <2>2. Cardinality(1..n) = n
    <3>1. 1 \in Int /\ n \in Int
      BY <1>1
    <3>2. Cardinality(1..n) = IF 1 > n THEN 0 ELSE n - 1 + 1
      BY <3>1, FS_Interval
    <3> QED
      BY <1>1, <3>2
  <2>3. Cardinality(1..n) = Cardinality(T)
    BY <2>0, <2>2
  <2> QED
    BY <1>1, <2>1, <2>3, FS_Injection
<1> HIDE DEF n
<1>5. \A h \in T : \E k \in 1..n : hs[k] = h
  <2> HIDE DEF T
  <2> QED
    BY <1>4 DEF Surjection
<1>6. Len(hs) = n /\ hs \in Seq(T)
  BY <1>1, <1>3, LenProperties
<1>7. f = [i \in 1..2 * n |-> IF IsEntry(i) THEN hs[(i + 1) \div 2] ELSE store[hs[i \div 2]]]
  BY <1>2, <1>6 DEF Lines
<1>8. ASSUME NEW i \in 1..2 * n, IsEntry(i)
      PROVE  /\ (i + 1) \div 2 \in 1..n /\ i + 1 \in 1..2 * n
             /\ f[i] = hs[(i + 1) \div 2] /\ f[i] \in T /\ f[i + 1] = store[f[i]]
  <2>1. (i + 1) \div 2 \in 1..n /\ i + 1 \in 1..2 * n /\ ~IsEntry(i + 1)
    BY <1>1, <1>8 DEF IsEntry
  <2> QED
    BY <1>3, <1>7, <1>8, <2>1
<1>9. ASSUME NEW i \in 1..2 * n, ~IsEntry(i)
      PROVE  \E h \in T : f[i] = store[h]
  <2>1. i \div 2 \in 1..n
    BY <1>1, <1>9 DEF IsEntry
  <2>2. hs[i \div 2] \in T
    BY <1>3, <2>1
  <2> QED
    BY <1>7, <1>9, <2>2
<1>10. \A i \in 1..2 * n : f[i] \in Texts
  <2>1. \A h \in T : h \in Texts /\ store[h] \in Texts
    BY DEF Texts, Stores
  <2> QED
    BY <1>8, <1>9, <2>1
<1>11. f \in Seq(Texts) /\ Len(f) = 2 * n /\ DOMAIN f = 1..2 * n
  <2>1. f \in [1..2 * n -> Texts] /\ 2 * n \in Nat
    BY <1>1, <1>7, <1>10
  <2> QED
    BY <2>1, LenProperties
<1>12. \A h \in T : \E i \in 1..2 * n : IsEntry(i) /\ f[i] = h
  <2> SUFFICES ASSUME NEW h \in T PROVE \E i \in 1..2 * n : IsEntry(i) /\ f[i] = h
    OBVIOUS
  <2>1. PICK k \in 1..n : hs[k] = h
    BY <1>5
  <2>2. 2 * k - 1 \in 1..2 * n /\ IsEntry(2 * k - 1) /\ ((2 * k - 1) + 1) \div 2 = k
    BY <1>1 DEF IsEntry
  <2>3. f[2 * k - 1] = h
    BY <1>8, <2>1, <2>2
  <2> QED
    BY <2>2, <2>3
<1>13. (2 * n) % 2 = 0 /\ 2 * n <= 2 * Cardinality(Hosts)
  BY <1>1
<1> QED
  BY <1>8, <1>9, <1>11, <1>12, <1>13

(* What was written can be read back: parse_known_hosts of what            *)
(* store_known_hosts_to_file wrote is the store.                           *)
LEMMA FilesReadBack ==
  ASSUME NEW store \in Stores, NEW f \in Files(store)
  PROVE  Readable(f) /\ StoreIn(f) = store
<1>1. /\ f \in Seq(Texts \cup {Hole})
      /\ \A i \in DOMAIN f :
           IF IsEntry(i)
           THEN f[i] \in Hosts /\ store[f[i]] # None /\ i + 1 \in DOMAIN f
                /\ f[i + 1] = store[f[i]]
           ELSE \E h \in Hosts : store[h] # None /\ f[i] = store[h]
      /\ Len(f) % 2 = 0
      /\ \A h \in Hosts : store[h] # None => \E i \in DOMAIN f : IsEntry(i) /\ f[i] = h
  <2>1. f \in Seq(Texts)
    BY FilesLines
  <2>2. f \in Seq(Texts \cup {Hole})
    BY <2>1, SeqMonotonic
  <2> QED
    BY <2>2, FilesLines
<1>2. Readable(f)
  BY <1>1 DEF Readable, Stores
<1>3. \A h \in Hosts : StoreIn(f)[h] = store[h]
  <2> SUFFICES ASSUME NEW h \in Hosts PROVE StoreIn(f)[h] = store[h]
    OBVIOUS
  <2> DEFINE lines == {i \in DOMAIN f : IsEntry(i) /\ f[i] = h}
  <2>1. CASE lines = {}
    <3>1. StoreIn(f)[h] = None
      BY <1>1, <1>2, <2>1, StoreInFile
    <3> QED
      BY <1>1, <2>1, <3>1
  <2>2. CASE lines # {}
    <3>1. PICK i \in lines : StoreIn(f)[h] = f[i + 1]
      BY <1>1, <1>2, <2>2, StoreInFile
    <3> QED
      BY <1>1, <3>1
  <2> QED
    BY <2>1, <2>2
<1>4. StoreIn(f) \in Stores
  BY <1>1, <1>2, StoreInFile
<1> QED
  BY <1>2, <1>3, <1>4 DEF Stores

-----------------------------------------------------------------------------
(* The steps.                                                              *)

Fits(v) ==
  /\ v \in Verifiers
  /\ v.phase = "asking" <=> v.request # None
  /\ v.offset + Len(v.pieces) <= 2 * Cardinality(Hosts)

(* An attempt that is not writing comes to its end. *)
Ends(a) ==
  /\ a \notin Writing
  /\ \E ph \in {"trusted", "failed"} : Becomes(a, Ended(ph))
  /\ UNCHANGED <<hostsFile, history>>

(* The application decides, or is asked to. *)
Asks(a) ==
  /\ verifier[a].phase = "asking"
  /\ \/ Becomes(a, [verifier[a] EXCEPT !.request = "raised"])
     \/ \E action \in CertActions :
          Becomes(a, [verifier[a] EXCEPT !.phase = "acting", !.request = None,
                                         !.action = action])
  /\ UNCHANGED <<hostsFile, history>>

ActStores(a) == verifier[a].phase = "acting" /\ TrustAndStore(a)

(* What a step is, as far as the invariants tell the actions apart.        *)
LEMMA Steps ==
  ASSUME TypeOK, [Next]_vars
  PROVE  \/ Server
         \/ /\ UNCHANGED certificateVars
            /\ \/ \E a \in Attempts : \/ LoadKnownHosts(a)
                                      \/ Ends(a)
                                      \/ Asks(a)
                                      \/ ActStores(a)
                                      \/ WritePiece(a)
                                      \/ StoreEnds(a)
                                      \/ StoreFails(a)
               \/ ClientStops
         \/ \E a \in Attempts : Handshake(a)
         \/ UNCHANGED vars
<1>1. ASSUME NEW a \in Attempts,
             ConnectFails(a) \/ EventDropped(a) \/ LetGo(a)
      PROVE  Ends(a)
  BY <1>1, NoneAssumption
  DEF ConnectFails, EventDropped, LetGo, Ends, Writing, TypeOK, VerifierTypeOK
<1>2. ASSUME NEW a \in Attempts, Act(a) PROVE Ends(a) \/ ActStores(a)
  BY <1>2 DEF Act, Ends, ActStores, Writing
<1>3. ASSUME NEW a \in Attempts,
             RaiseInteraction(a) \/ \E action \in CertActions : ApplyCertVerifierAction(a, action)
      PROVE  Asks(a)
  BY <1>3, NoneAssumption
  DEF RaiseInteraction, ApplyCertVerifierAction, Asks, TypeOK, VerifierTypeOK
<1> QED
  BY <1>1, <1>2, <1>3 DEF Next, Client, VerifierNext, AttemptNext

(* The state of an attempt that has not begun or has come to its end.      *)
LEMMA EndedIsSound ==
  ASSUME NEW a \in Attempts, NEW ph \in {"idle", "trusted", "failed", "panicked"}
  PROVE  Fits(Ended(ph)) /\ Sound(a, Ended(ph))
<1>1. EmptyStore \in Stores
  BY DEF EmptyStore, Stores
<1>2. /\ Ended(ph).phase = ph /\ Ended(ph).known = None /\ Ended(ph).cert = None
      /\ Ended(ph).status = None /\ Ended(ph).request = None
      /\ Ended(ph).pieces = <<>> /\ Ended(ph).offset = 0
  BY DEF Ended, Idle
<1>3. Ended(ph) \in Verifiers
  <2>1. <<>> \in Seq(Hosts \cup Certificates)
    BY EmptySeq
  <2>2. Ended(ph) = [phase |-> ph, store |-> EmptyStore, known |-> None, cert |-> None,
                     status |-> None, action |-> None, request |-> None,
                     pieces |-> <<>>, offset |-> 0]
    BY DEF Ended, Idle
  <2> HIDE DEF EmptyStore
  <2> QED
    BY <1>1, <2>1, <2>2 DEF Verifiers, Phases
<1>4. Cardinality(Hosts) \in Nat
  BY HostsAssumption, FS_CardinalityType
<1>5. Fits(Ended(ph))
  BY <1>2, <1>3, <1>4, LenProperties DEF Fits
<1> QED
  BY <1>2, <1>5 DEF Sound

(* A step of one attempt. *)
LEMMA OneAttempt ==
  ASSUME TypeOK, AttemptInv,
         NEW a \in Attempts, NEW v, Fits(v), Sound(a, v), Becomes(a, v)
  PROVE  /\ verifier' \in [Attempts -> Verifiers]
         /\ \A b \in Attempts : Fits(verifier'[b]) /\ Sound(b, verifier'[b])
         /\ verifier'[a] = v
         /\ \A b \in Attempts \ {a} : verifier'[b] = verifier[b]
<1>1. verifier \in [Attempts -> Verifiers] /\ v \in Verifiers
  BY DEF TypeOK, VerifierTypeOK, Fits
<1>2. verifier' \in [Attempts -> Verifiers]
      /\ verifier'[a] = v
      /\ \A b \in Attempts \ {a} : verifier'[b] = verifier[b]
  BY <1>1 DEF Becomes
<1>3. \A b \in Attempts : Fits(verifier[b]) /\ Sound(b, verifier[b])
  BY <1>1 DEF TypeOK, VerifierTypeOK, AttemptInv, Fits
<1> QED
  BY <1>2, <1>3

-----------------------------------------------------------------------------
(* What each step makes of its attempt.                                    *)

(* What an attempt loads: unless stores mix, also from a file that is      *)
(* half-written, every certificate by the host it was approved for.        *)
LEMMA LoadedStore ==
  ASSUME TypeOK, Readable(hostsFile)
  PROVE  /\ StoreIn(hostsFile) \in Stores
         /\ Paired(hostsFile) => Faithful(StoreIn(hostsFile))
         /\ \A h \in Hosts : StoreIn(hostsFile)[h] # None =>
              /\ StoreIn(hostsFile)[h] \in Certificates
              /\ \E i \in DOMAIN hostsFile : hostsFile[i] = StoreIn(hostsFile)[h]
<1>1. hostsFile \in Seq(Texts \cup {Hole})
  BY DEF TypeOK, VerifierTypeOK, Texts
<1>2. /\ StoreIn(hostsFile) \in Stores
      /\ \A h \in Hosts :
           LET lines == {i \in DOMAIN hostsFile : IsEntry(i) /\ hostsFile[i] = h}
           IN IF lines = {} THEN StoreIn(hostsFile)[h] = None
              ELSE \E i \in lines : /\ i + 1 \in DOMAIN hostsFile /\ ~IsEntry(i + 1)
                                    /\ StoreIn(hostsFile)[h] = hostsFile[i + 1]
                                    /\ hostsFile[i + 1] \in Certificates
  BY <1>1, StoreInFile
<1>3. ASSUME NEW h \in Hosts, StoreIn(hostsFile)[h] # None
      PROVE  \E i \in DOMAIN hostsFile :
               /\ IsEntry(i) /\ hostsFile[i] = h /\ i + 1 \in DOMAIN hostsFile
               /\ StoreIn(hostsFile)[h] = hostsFile[i + 1]
               /\ hostsFile[i + 1] \in Certificates
  BY <1>2, <1>3
<1>4. Paired(hostsFile) => Faithful(StoreIn(hostsFile))
  BY <1>3 DEF Paired, Faithful
<1> QED
  BY <1>2, <1>3, <1>4

LEMMA LoadedRecord ==
  ASSUME NEW ph, NEW store, NEW known
  PROVE  [Idle EXCEPT !.phase = ph, !.store = store, !.known = known]
         = [phase |-> ph, store |-> store, known |-> known, cert |-> None, status |-> None,
            action |-> None, request |-> None, pieces |-> <<>>, offset |-> 0]
<1> DEFINE fields == {"phase", "store", "known", "cert", "status", "action", "request",
                      "pieces", "offset"}
           v == [Idle EXCEPT !.phase = ph, !.store = store, !.known = known]
           w == [phase |-> ph, store |-> store, known |-> known, cert |-> None,
                 status |-> None, action |-> None, request |-> None, pieces |-> <<>>,
                 offset |-> 0]
<1>1. v = [f \in fields |-> v[f]] /\ w = [f \in fields |-> w[f]]
  BY DEF Idle
<1>2. v.phase = w.phase /\ v.store = w.store /\ v.known = w.known
  BY DEF Idle
<1>3. /\ v.cert = w.cert /\ v.status = w.status /\ v.action = w.action
      /\ v.request = w.request /\ v.pieces = w.pieces /\ v.offset = w.offset
  BY DEF Idle
<1>4. \A f \in fields : v[f] = w[f]
  <2> HIDE DEF v, w
  <2> QED
    BY <1>2, <1>3
<1> HIDE DEF v, w
<1>5. [f \in fields |-> v[f]] = [f \in fields |-> w[f]]
  <2> HIDE DEF fields
  <2> QED
    BY <1>4
<1>6. v = w
  BY <1>1, <1>5
<1> QED
  BY <1>6 DEF v, w

LEMMA LoadStep ==
  ASSUME TypeOK, StoreInv, NEW a \in Attempts, LoadKnownHosts(a)
  PROVE  \E v : /\ Fits(v) /\ Sound(a, v) /\ Becomes(a, v)
                /\ v.phase \in {"connecting", "panicked"} /\ v.cert = None
                /\ v.store = IF Readable(hostsFile) THEN StoreIn(hostsFile) ELSE EmptyStore
<1> DEFINE known == IF raced \/ Writing # {} THEN None ELSE kept[HostOf[a]]
           store == IF Readable(hostsFile) THEN StoreIn(hostsFile) ELSE EmptyStore
           ph == IF Readable(hostsFile) THEN "connecting" ELSE "panicked"
           v == [Idle EXCEPT !.phase = ph, !.store = store, !.known = known]
<1>1. HostOf[a] \in Hosts /\ kept \in Stores
  BY HostsAssumption DEF TypeOK, VerifierTypeOK
<1>2. known \in Certificates \cup {None}
  BY <1>1 DEF Stores
<1>3. store \in Stores
  BY LoadedStore DEF EmptyStore, Stores
<1>4. known # None => ph # "panicked" /\ store[HostOf[a]] = known
  BY DEF StoreInv
<1>5. Becomes(a, v)
  <2>1. CASE Readable(hostsFile)
    BY <2>1 DEF LoadKnownHosts
  <2>2. CASE ~Readable(hostsFile)
    <3>1. store = Idle.store
      BY <2>2 DEF Idle
    <3>2. v = [Idle EXCEPT !.phase = "panicked", !.known = known]
      <4> HIDE DEF known, store
      <4> QED
        BY <2>2, <3>1
    <3> QED
      BY <2>2, <3>2 DEF LoadKnownHosts
  <2> QED
    BY <2>1, <2>2
<1>6. ph \in {"connecting", "panicked"}
  OBVIOUS
<1> HIDE DEF known, store, ph
<1>7. v = [phase |-> ph, store |-> store, known |-> known, cert |-> None, status |-> None,
           action |-> None, request |-> None, pieces |-> <<>>, offset |-> 0]
  BY LoadedRecord
<1> HIDE DEF v
<1>8. v \in Verifiers
  <2>1. <<>> \in Seq(Hosts \cup Certificates) /\ ph \in Phases
    BY <1>6, EmptySeq DEF Phases
  <2> QED
    BY <1>2, <1>3, <1>7, <2>1 DEF Verifiers
<1>9. Fits(v)
  <2>1. Cardinality(Hosts) \in Nat /\ Len(<<>>) = 0
    BY HostsAssumption, FS_CardinalityType
  <2> QED
    BY <1>6, <1>7, <1>8, <2>1 DEF Fits
<1>10. Sound(a, v)
  BY <1>4, <1>6, <1>7 DEF Sound
<1>11. v.phase = ph /\ v.cert = None /\ v.store = store
  BY <1>7
<1> QED
  BY <1>5, <1>6, <1>9, <1>10, <1>11 DEF store

LEMMA PresentedFacts ==
  ASSUME TypeOK, NEW h \in Hosts, NEW c \in Presented(h)
  PROVE  /\ c \in Certificates
         /\ c \notin CertsOf[h] => h = ServerHost /\ server = "up" /\ c = certificate
<1>1. CASE c \in CertsOf[h]
  BY <1>1, ServerAssumption
<1>2. CASE c \notin CertsOf[h]
  <2>1. h = ServerHost /\ server = "up" /\ c = certificate
    BY <1>2 DEF Presented
  <2>2. certificate \in 1..MaxCertificates
    BY <2>1, CertificatesAssumption DEF TypeOK, CertificateTypeOK
  <2> QED
    BY <2>1, <2>2, ServerAssumption
<1> QED
  BY <1>1, <1>2

LEMMA HandshakeStep ==
  ASSUME TypeOK, AttemptInv, NEW a \in Attempts, Handshake(a)
  PROVE  \E v : /\ Fits(v) /\ Sound(a, v) /\ Becomes(a, v)
                /\ v.phase \in {"asking", "acting"}
                /\ v.cert \in Presented(HostOf[a])
                /\ v.store = verifier[a].store
<1> DEFINE u == verifier[a]
<1>1. PICK cert \in Presented(HostOf[a]) : VerifyServerCert(a, cert)
  BY DEF Handshake
<1>2. HostOf[a] \in Hosts /\ u \in Verifiers /\ u.phase = "connecting" /\ Fits(u) /\ Sound(a, u)
  BY <1>1, HostsAssumption
  DEF VerifyServerCert, TypeOK, VerifierTypeOK, AttemptInv, Fits
<1>3. cert \in Certificates
  BY <1>2, PresentedFacts
<1> DEFINE status == StatusOf(u.store[HostOf[a]], cert)
           asks == BehaviourFor(status) = "RequestClientAction"
           v1 == [u EXCEPT !.cert = cert, !.status = status]
           v == IF asks THEN [v1 EXCEPT !.phase = "asking", !.request = "queued"]
                ELSE [v1 EXCEPT !.phase = "acting", !.action = BehaviourFor(status)]
<1>4. Becomes(a, v)
  BY <1>1 DEF VerifyServerCert
<1>5. status \in Statuses
  BY DEF StatusOf, Statuses
<1>6. ~asks => BehaviourFor(status) \in CertActions
  BY <1>5, BehaviourAssumption DEF BehaviourFor, CertActions
<1> HIDE DEF status, asks
<1>7. /\ v.phase = (IF asks THEN "asking" ELSE "acting")
      /\ v.request = (IF asks THEN "queued" ELSE u.request)
      /\ v.cert = cert /\ v.status = status /\ v.store = u.store /\ v.known = u.known
      /\ v.pieces = u.pieces /\ v.offset = u.offset
  BY <1>2 DEF Verifiers
<1>8. v \in Verifiers
  BY <1>2, <1>3, <1>5, <1>6 DEF Verifiers, Phases
<1> HIDE DEF v
<1>9. Fits(v)
  BY <1>2, <1>7, <1>8, NoneAssumption DEF Fits
<1>10. cert # None
  BY <1>3, PiecesAssumption
<1>11. Sound(a, v)
  BY <1>2, <1>3, <1>7, <1>10 DEF Sound, status
<1> QED
  BY <1>4, <1>7, <1>9, <1>11

LEMMA AskStep ==
  ASSUME TypeOK, AttemptInv, NEW a \in Attempts, Asks(a)
  PROVE  \E v : /\ Fits(v) /\ Sound(a, v) /\ Becomes(a, v)
                /\ v.phase \in {"asking", "acting"}
                /\ v.cert = verifier[a].cert /\ v.store = verifier[a].store
                /\ v.pieces = verifier[a].pieces
<1> DEFINE u == verifier[a]
<1>1. u \in Verifiers /\ u.phase = "asking" /\ Fits(u) /\ Sound(a, u)
  BY DEF Asks, TypeOK, VerifierTypeOK, AttemptInv, Fits
<1> HIDE DEF u
<1>2. CASE Becomes(a, [u EXCEPT !.request = "raised"])
  <2> DEFINE v == [u EXCEPT !.request = "raised"]
  <2>1. /\ v.phase = u.phase /\ v.request = "raised"
        /\ v.cert = u.cert /\ v.status = u.status /\ v.store = u.store
        /\ v.known = u.known /\ v.pieces = u.pieces /\ v.offset = u.offset
        /\ v \in Verifiers
    BY <1>1 DEF Verifiers
  <2>2. Becomes(a, v)
    BY <1>2
  <2> HIDE DEF v
  <2>3. Fits(v)
    BY <1>1, <2>1, NoneAssumption DEF Fits
  <2>4. Sound(a, v)
    BY <1>1, <2>1 DEF Sound
  <2> QED
    BY <1>1, <2>1, <2>2, <2>3, <2>4 DEF u
<1>3. ASSUME NEW action \in CertActions,
             Becomes(a, [u EXCEPT !.phase = "acting", !.request = None, !.action = action])
      PROVE  \E v : /\ Fits(v) /\ Sound(a, v) /\ Becomes(a, v)
                    /\ v.phase \in {"asking", "acting"}
                    /\ v.cert = verifier[a].cert /\ v.store = verifier[a].store
                    /\ v.pieces = verifier[a].pieces
  <2> DEFINE v == [u EXCEPT !.phase = "acting", !.request = None, !.action = action]
  <2>1. /\ v.phase = "acting" /\ v.request = None
        /\ v.cert = u.cert /\ v.status = u.status /\ v.store = u.store
        /\ v.known = u.known /\ v.pieces = u.pieces /\ v.offset = u.offset
        /\ v \in Verifiers
    BY <1>1 DEF Verifiers, Phases
  <2>2. Becomes(a, v)
    BY <1>3
  <2> HIDE DEF v
  <2>3. Fits(v)
    BY <1>1, <2>1 DEF Fits
  <2>4. Sound(a, v)
    BY <1>1, <2>1 DEF Sound
  <2> QED
    BY <2>1, <2>2, <2>3, <2>4 DEF u
<1> QED
  BY <1>2, <1>3 DEF Asks, u

LEMMA ActStoreStep ==
  ASSUME TypeOK, AttemptInv, NEW a \in Attempts, ActStores(a)
  PROVE  \E v : /\ Fits(v) /\ Sound(a, v) /\ Becomes(a, v)
                /\ v.phase = "writing" /\ v.offset = 0
                /\ v.cert = verifier[a].cert /\ v.store = verifier[a].store
                /\ v.cert \in Certificates
                /\ v.pieces \in Files(WithEntry(v.store, HostOf[a], v.cert))
<1> DEFINE u == verifier[a]
           after == WithEntry(u.store, HostOf[a], u.cert)
<1>1. u \in Verifiers /\ u.phase = "acting" /\ Fits(u) /\ Sound(a, u)
  BY DEF ActStores, TypeOK, VerifierTypeOK, AttemptInv, Fits
<1>2. PICK file \in Files(after) :
        Becomes(a, [u EXCEPT !.phase = "writing", !.pieces = file])
  BY DEF ActStores, TrustAndStore
<1>3. u.cert \in Certificates /\ u.store \in Stores /\ HostOf[a] \in Hosts /\ u.offset = 0
  BY <1>1, HostsAssumption DEF Sound, Verifiers
<1>4. after \in Stores
  BY <1>3 DEF WithEntry, Stores
<1>5. file \in Seq(Hosts \cup Certificates) /\ Len(file) <= 2 * Cardinality(Hosts)
  <2> HIDE DEF after
  <2> QED
    BY <1>4, FilesLines DEF Texts
<1> DEFINE v == [u EXCEPT !.phase = "writing", !.pieces = file]
<1> HIDE DEF u, after
<1>6. /\ v.phase = "writing" /\ v.pieces = file
      /\ v.cert = u.cert /\ v.status = u.status /\ v.store = u.store
      /\ v.known = u.known /\ v.request = u.request /\ v.offset = u.offset
      /\ v \in Verifiers
  BY <1>1, <1>5 DEF Verifiers, Phases
<1>7. Becomes(a, v)
  BY <1>2
<1> HIDE DEF v
<1>8. Fits(v)
  <2>1. Len(file) \in Nat /\ v.offset = 0
    BY <1>3, <1>5, <1>6, LenProperties
  <2> QED
    BY <1>1, <1>5, <1>6, <2>1 DEF Fits
<1>9. Sound(a, v)
  BY <1>1, <1>6 DEF Sound
<1> QED
  BY <1>2, <1>3, <1>6, <1>7, <1>8, <1>9 DEF u, after

LEMMA WriteStep ==
  ASSUME TypeOK, AttemptInv, NEW a \in Attempts, WritePiece(a)
  PROVE  \E v : /\ Fits(v) /\ Sound(a, v) /\ Becomes(a, v)
                /\ v.phase = "writing" /\ v.offset = verifier[a].offset + 1
                /\ v.cert = verifier[a].cert /\ v.store = verifier[a].store
                /\ v.pieces = Tail(verifier[a].pieces)
<1> DEFINE u == verifier[a]
           v == [u EXCEPT !.pieces = Tail(@), !.offset = @ + 1]
<1>1. u \in Verifiers /\ u.phase = "writing" /\ u.pieces # <<>> /\ Fits(u) /\ Sound(a, u)
  BY DEF WritePiece, TypeOK, VerifierTypeOK, AttemptInv, Fits
<1>2. Becomes(a, v)
  BY DEF WritePiece
<1> HIDE DEF u
<1>3. u.pieces \in Seq(Hosts \cup Certificates) /\ u.offset \in Nat
  BY <1>1 DEF Verifiers
<1>4. /\ Tail(u.pieces) \in Seq(Hosts \cup Certificates)
      /\ Len(Tail(u.pieces)) = Len(u.pieces) - 1
      /\ Len(u.pieces) \in Nat /\ u.offset + 1 \in Nat
  BY <1>1, <1>3, HeadTailProperties, LenProperties
<1>5. /\ v.phase = "writing" /\ v.pieces = Tail(u.pieces) /\ v.offset = u.offset + 1
      /\ v.cert = u.cert /\ v.status = u.status /\ v.store = u.store
      /\ v.known = u.known /\ v.request = u.request
      /\ v \in Verifiers
  BY <1>1, <1>4 DEF Verifiers
<1> HIDE DEF v
<1>6. Fits(v)
  <2>1. v.offset + Len(v.pieces) = u.offset + Len(u.pieces)
    BY <1>3, <1>4, <1>5
  <2> QED
    BY <1>1, <1>5, <2>1 DEF Fits
<1>7. Sound(a, v)
  BY <1>1, <1>5 DEF Sound
<1> QED
  BY <1>2, <1>5, <1>6, <1>7 DEF u

(* Every step leaves every attempt sound. *)
LEMMA AttemptsStep ==
  ASSUME TypeOK, AttemptInv, StoreInv, [Next]_vars
  PROVE  /\ verifier' \in [Attempts -> Verifiers]
         /\ \A b \in Attempts : Fits(verifier'[b]) /\ Sound(b, verifier'[b])
<1> DEFINE Goal == /\ verifier' \in [Attempts -> Verifiers]
                   /\ \A b \in Attempts : Fits(verifier'[b]) /\ Sound(b, verifier'[b])
<1>1. CASE verifier' = verifier
  BY <1>1 DEF TypeOK, VerifierTypeOK, AttemptInv, Fits
<1>2. ASSUME NEW a \in Attempts, NEW ph \in {"trusted", "failed"}, Becomes(a, Ended(ph))
      PROVE  Goal
  BY <1>2, EndedIsSound, OneAttempt
<1>3. ASSUME NEW a \in Attempts, Handshake(a) PROVE Goal
  BY <1>3, HandshakeStep, OneAttempt
<1>4. ASSUME NEW a \in Attempts, LoadKnownHosts(a) PROVE Goal
  BY <1>4, LoadStep, OneAttempt
<1>5. ASSUME NEW a \in Attempts, Asks(a) PROVE Goal
  BY <1>5, AskStep, OneAttempt
<1>6. ASSUME NEW a \in Attempts, ActStores(a) PROVE Goal
  BY <1>6, ActStoreStep, OneAttempt
<1>7. ASSUME NEW a \in Attempts, WritePiece(a) PROVE Goal
  BY <1>7, WriteStep, OneAttempt
<1>8. ASSUME NEW a \in Attempts, Ends(a) \/ StoreEnds(a) \/ StoreFails(a) PROVE Goal
  BY <1>2, <1>8 DEF Ends, StoreEnds, StoreFails
<1>9. CASE ClientStops
  <2>1. \A b \in Attempts : verifier'[b] \in {verifier[b], Ended("failed")}
        /\ Fits(verifier[b]) /\ Sound(b, verifier[b])
        /\ Fits(Ended("failed")) /\ Sound(b, Ended("failed"))
    BY <1>9, EndedIsSound DEF ClientStops, TypeOK, VerifierTypeOK, AttemptInv, Fits
  <2>2. \A b \in Attempts : Fits(verifier'[b]) /\ Sound(b, verifier'[b])
    <3> TAKE b \in Attempts
    <3>1. CASE verifier'[b] = verifier[b]
      BY <2>1, <3>1
    <3>2. CASE verifier'[b] = Ended("failed")
      BY <2>1, <3>2
    <3> QED
      BY <2>1, <3>1, <3>2
  <2>3. verifier' \in [Attempts -> Verifiers]
    BY <1>9, <2>2 DEF ClientStops, Fits
  <2> QED
    BY <2>2, <2>3
<1>10. Server \/ UNCHANGED vars => verifier' = verifier
  BY DEF Server, vars, verifierVars
<1>11. UNCHANGED vars \/ Server => Goal
  BY <1>1, <1>10
<1>12. ClientStops => Goal
  BY <1>9
<1> HIDE DEF Goal
<1>13. Goal
  BY <1>3, <1>4, <1>5, <1>6, <1>7, <1>8, <1>11, <1>12, Steps
<1> QED
  BY <1>13 DEF Goal

(* Who is writing after a step of one attempt. *)
LEMMA WritingStep ==
  ASSUME TypeOK, AttemptInv,
         NEW a \in Attempts, NEW v, Fits(v), Sound(a, v), Becomes(a, v)
  PROVE  Writing' = IF v.phase = "writing" THEN Writing \cup {a} ELSE Writing \ {a}
BY OneAttempt DEF Writing

(* Only TrustAndStore adds to what was consented, and only a certificate   *)
(* that the attempt was presented.                                         *)
LEMMA ConsentStep ==
  ASSUME TypeOK, AttemptInv, [Next]_vars
  PROVE  \/ consented' = consented
         \/ \E a \in Attempts : /\ ActStores(a)
                                /\ verifier[a].cert \in Certificates
                                /\ consented' = consented \cup {<<HostOf[a], verifier[a].cert>>}
<1>1. ASSUME NEW a \in Attempts, ActStores(a)
      PROVE  /\ verifier[a].cert \in Certificates
             /\ consented' = consented \cup {<<HostOf[a], verifier[a].cert>>}
  BY <1>1, ActStoreStep DEF ActStores, TrustAndStore
<1> QED
  BY <1>1, Steps
  DEF Server, Ends, Asks, LoadKnownHosts, WritePiece, StoreEnds, StoreFails, ClientStops,
      Handshake, VerifyServerCert, vars, verifierVars, history

(* What a write does, and what remains to be written. *)
LEMMA WriteFacts ==
  ASSUME TypeOK, NEW a \in Attempts, WritePiece(a)
  PROVE  LET v == verifier[a]
         IN /\ v.pieces \in Seq(Texts) /\ v.pieces # <<>> /\ v.offset \in Nat
            /\ Head(v.pieces) = v.pieces[1] /\ 1 \in DOMAIN v.pieces
            /\ Head(v.pieces) \in Texts
            /\ Tail(v.pieces) \in Seq(Texts)
            /\ Len(v.pieces) >= 1
            /\ hostsFile \in Seq(Texts \cup {Hole})
            /\ hostsFile' = WrittenAt(hostsFile, v.offset + 1, Head(v.pieces))
<1> DEFINE v == verifier[a]
<1>1. /\ v.pieces \in Seq(Texts) /\ v.pieces # <<>> /\ v.offset \in Nat
      /\ hostsFile \in Seq(Texts \cup {Hole})
      /\ hostsFile' = WrittenAt(hostsFile, v.offset + 1, Head(v.pieces))
  BY DEF WritePiece, TypeOK, VerifierTypeOK, Verifiers, Texts
<1> HIDE DEF v
<1>2. /\ Head(v.pieces) = v.pieces[1] /\ 1 \in DOMAIN v.pieces
      /\ Head(v.pieces) \in Texts /\ Tail(v.pieces) \in Seq(Texts) /\ Len(v.pieces) >= 1
  <2>1. Len(v.pieces) \in Nat /\ DOMAIN v.pieces = 1..Len(v.pieces) /\ Len(v.pieces) # 0
    BY <1>1, LenProperties, EmptySeq
  <2> QED
    BY <1>1, <2>1, HeadTailProperties, ElementOfSeq
<1> QED
  BY <1>1, <1>2 DEF v

LEMMA HostsFileStep ==
  ASSUME TypeOK, AttemptInv, [Next]_vars
  PROVE  /\ hostsFile' \in Seq(Hosts \cup Certificates \cup {Hole})
         /\ Len(hostsFile') <= 2 * Cardinality(Hosts)
<1>1. Cardinality(Hosts) \in Nat
  BY HostsAssumption, FS_CardinalityType
<1>2. CASE hostsFile' = hostsFile
  BY <1>2 DEF TypeOK, VerifierTypeOK
<1>3. CASE hostsFile' = <<>>
  <2>1. <<>> \in Seq(Hosts \cup Certificates \cup {Hole}) /\ Len(<<>>) = 0
    BY EmptySeq
  <2> QED
    BY <1>1, <1>3, <2>1
<1>4. ASSUME NEW a \in Attempts, WritePiece(a)
      PROVE  /\ hostsFile' \in Seq(Hosts \cup Certificates \cup {Hole})
             /\ Len(hostsFile') <= 2 * Cardinality(Hosts)
  <2> DEFINE i == verifier[a].offset + 1
             piece == Head(verifier[a].pieces)
  <2>1. /\ piece \in Texts /\ i \in Nat \ {0} /\ Len(verifier[a].pieces) >= 1
        /\ Len(verifier[a].pieces) \in Nat
        /\ hostsFile \in Seq(Texts \cup {Hole})
        /\ hostsFile' = WrittenAt(hostsFile, i, piece)
    BY <1>4, WriteFacts, LenProperties
  <2>2. i <= 2 * Cardinality(Hosts) /\ Len(hostsFile) <= 2 * Cardinality(Hosts)
    BY <1>1, <1>4, <2>1, WriteFacts DEF TypeOK, VerifierTypeOK
  <2> HIDE DEF i, piece
  <2>3. /\ hostsFile' \in Seq(Texts \cup {Hole})
        /\ Len(hostsFile') = IF Len(hostsFile) >= i THEN Len(hostsFile) ELSE i
    BY <2>1, WrittenAtFile
  <2> QED
    BY <2>2, <2>3 DEF Texts
<1>5. \/ hostsFile' = hostsFile
      \/ hostsFile' = <<>>
      \/ \E a \in Attempts : WritePiece(a)
  BY Steps
  DEF Server, Ends, Asks, LoadKnownHosts, ActStores, TrustAndStore, StoreEnds, StoreFails,
      ClientStops, Handshake, VerifyServerCert, vars, verifierVars
<1> QED
  BY <1>2, <1>3, <1>4, <1>5

LEMMA TypeStep ==
  ASSUME TypeOK, AttemptInv, StoreInv, [Next]_vars
  PROVE  TypeOK'
<1>1. /\ verifier' \in [Attempts -> Verifiers]
      /\ \A a \in Attempts : Fits(verifier'[a])
  BY AttemptsStep
<1>2. /\ hostsFile' \in Seq(Hosts \cup Certificates \cup {Hole})
      /\ Len(hostsFile') <= 2 * Cardinality(Hosts)
  BY HostsFileStep
<1>3. consented' \in SUBSET (Hosts \X Certificates)
  BY ConsentStep, HostsAssumption DEF TypeOK, VerifierTypeOK
<1>4. raced' \in BOOLEAN /\ mixed' \in BOOLEAN /\ kept' \in Stores
  <2>1. EmptyStore \in Stores
    BY DEF EmptyStore, Stores
  <2>2. kept \in Stores /\ raced \in BOOLEAN /\ mixed \in BOOLEAN
    BY DEF TypeOK, VerifierTypeOK
  <2>3. ASSUME NEW a \in Attempts, StoreEnds(a)
        PROVE  raced' \in BOOLEAN /\ mixed' \in BOOLEAN /\ kept' \in Stores
    <3>1. verifier[a].cert \in Certificates /\ HostOf[a] \in Hosts
      BY <2>3, HostsAssumption
      DEF StoreEnds, AttemptInv, Sound, TypeOK, VerifierTypeOK, Verifiers
    <3>2. [kept EXCEPT ![HostOf[a]] = verifier[a].cert] \in Stores
      BY <2>2, <3>1 DEF Stores
    <3> QED
      BY <2>2, <2>3, <3>2 DEF StoreEnds
  <2>4. ASSUME NEW a \in Attempts, ActStores(a)
        PROVE  raced' \in BOOLEAN /\ mixed' \in BOOLEAN /\ kept' \in Stores
    BY <2>1, <2>2, <2>4 DEF ActStores, TrustAndStore
  <2>5. ASSUME NEW a \in Attempts, StoreFails(a)
        PROVE  raced' \in BOOLEAN /\ mixed' \in BOOLEAN /\ kept' \in Stores
    BY <2>1, <2>2, <2>5 DEF StoreFails
  <2>6. ASSUME ClientStops PROVE raced' \in BOOLEAN /\ mixed' \in BOOLEAN /\ kept' \in Stores
    BY <2>1, <2>2, <2>6 DEF ClientStops
  <2> QED
    BY <2>2, <2>3, <2>4, <2>5, <2>6, Steps
    DEF Server, Ends, Asks, LoadKnownHosts, WritePiece, Handshake, VerifyServerCert,
        vars, verifierVars, history
<1>5. VerifierTypeOK'
  BY <1>1, <1>2, <1>3, <1>4 DEF VerifierTypeOK, Fits
<1>6. CertificateTypeOK'
  <2>1. CertificateTypeOK
    BY DEF TypeOK
  <2>2. CASE UNCHANGED certificateVars
    BY <2>1, <2>2 DEF CertificateTypeOK, certificateVars
  <2>3. CASE CertificateNext
    <3> DEFINE Numbers == 1..MaxCertificates
    <3>n. /\ \A c \in 0..MaxCertificates : c # 0 => c \in Numbers
          /\ \A c \in Numbers : c \in 0..MaxCertificates /\ c # 0 /\ c # Missing /\ c # Torn
          /\ \A c \in 0..MaxCertificates : c < MaxCertificates => c + 1 \in Numbers
          /\ 0 \in 0..MaxCertificates
      BY CertificatesAssumption DEF Missing, Torn
    <3>1. ASSUME NEW mode \in Modes, Load(mode) PROVE CertificateTypeOK'
      BY <2>1, <3>1, CertificatesAssumption DEF CertificateTypeOK, Load, Loadable, Torn
    <3> HIDE DEF Numbers
    <3>u. server # "down" => certificate \in Numbers
      BY <2>1, <3>n DEF CertificateTypeOK
    <3>2. ASSUME NEW mode \in Modes, Generate(mode) PROVE CertificateTypeOK'
      <4>1. /\ server' \in {"up", "saving cert"}
            /\ certificate' \in Numbers /\ generated' = certificate'
            /\ certFile' = certFile /\ keyFile' = keyFile /\ brokenOff' = brokenOff
        BY <2>1, <3>2, <3>n DEF CertificateTypeOK, Generate
      <4>2. forgotten' \in BOOLEAN
        BY <3>2 DEF Generate
      <4> QED
        BY <2>1, <3>n, <4>1, <4>2 DEF CertificateTypeOK
    <3>3. CASE WriteCert
      BY <2>1, <3>3, <3>u, Zenon DEF CertificateTypeOK, WriteCert, Numbers
    <3>4. CASE WriteKey
      BY <2>1, <3>4, <3>u DEF CertificateTypeOK, WriteKey, Numbers
    <3>5. CASE Down
      <4>1. /\ server' = "down" /\ certificate' = 0 /\ generated' = generated
            /\ certFile' \in {certFile, Torn} /\ keyFile' \in {keyFile, Torn}
            /\ forgotten' = forgotten
        BY <3>5 DEF Down
      <4>2. brokenOff' \in BOOLEAN
        BY <3>5 DEF Down
      <4> QED
        BY <2>1, <3>n, <4>1, <4>2 DEF CertificateTypeOK
    <3>6. CASE RemoveFile
      BY <2>1, <3>6 DEF CertificateTypeOK, RemoveFile
    <3> QED
      BY <2>3, <3>1, <3>2, <3>3, <3>4, <3>5, <3>6 DEF CertificateNext
  <2> QED
    BY <2>2, <2>3 DEF Next, Handshake, Client, Server, vars
<1> QED
  BY <1>5, <1>6 DEF TypeOK

LEMMA ApprovedGrows ==
  ASSUME TypeOK, AttemptInv, [Next]_vars
  PROVE  consented \subseteq consented' /\ Approved \subseteq Approved'
<1>1. consented \subseteq consented'
  BY ConsentStep
<1> QED
  BY <1>1 DEF Approved

(* A step of one attempt keeps what is approved so. *)
LEMMA ApprovedAttempt ==
  ASSUME TypeOK, AttemptInv, ApprovedInv, [Next]_vars,
         NEW a \in Attempts, NEW v, Fits(v), Sound(a, v), Becomes(a, v),
         \A i \in DOMAIN v.pieces : v.pieces[i] \in Certificates => v.pieces[i] \in Approved',
         \A h \in Hosts : v.store[h] # None => v.store[h] \in Approved'
  PROVE  \A b \in Attempts : ApprovedFile(verifier[b].pieces)' /\ ApprovedStore(verifier[b].store)'
<1>1. Approved \subseteq Approved'
  BY ApprovedGrows
<1>2. verifier'[a] = v /\ \A b \in Attempts \ {a} : verifier'[b] = verifier[b]
  BY OneAttempt
<1> TAKE b \in Attempts
<1>3. CASE b = a
  BY <1>2, <1>3 DEF ApprovedFile, ApprovedStore
<1>4. CASE b # a
  BY <1>1, <1>2, <1>4 DEF ApprovedInv, ApprovedFile, ApprovedStore
<1> QED
  BY <1>3, <1>4

(* Nothing is written or loaded in the place of an attempt that ended.     *)
LEMMA EndedIsEmpty ==
  ASSUME NEW ph
  PROVE  /\ Ended(ph).phase = ph /\ Ended(ph).cert = None
         /\ DOMAIN Ended(ph).pieces = {}
         /\ \A h \in Hosts : Ended(ph).store[h] = None
<1>1. DOMAIN <<>> = {}
  OBVIOUS
<1> QED
  BY <1>1 DEF Ended, Idle, EmptyStore

LEMMA ApprovedAttempts ==
  ASSUME TypeOK, AttemptInv, StoreInv, ApprovedInv, [Next]_vars
  PROVE  \A b \in Attempts : ApprovedFile(verifier[b].pieces)' /\ ApprovedStore(verifier[b].store)'
<1> DEFINE Goal == \A b \in Attempts :
                     ApprovedFile(verifier[b].pieces)' /\ ApprovedStore(verifier[b].store)'
<1>a. Approved \subseteq Approved'
  BY ApprovedGrows
<1>b. \A b \in Attempts : /\ ApprovedFile(verifier[b].pieces)
                          /\ ApprovedStore(verifier[b].store)
                          /\ verifier[b].phase # "writing" => verifier[b].pieces = <<>>
  BY DEF ApprovedInv, AttemptInv, Sound
<1>c. DOMAIN <<>> = {}
  OBVIOUS
<1>1. verifier' = verifier => Goal
  BY <1>a, <1>b DEF ApprovedFile, ApprovedStore
<1>2. ASSUME NEW a \in Attempts, NEW ph \in {"trusted", "failed"}, Becomes(a, Ended(ph))
      PROVE  Goal
  BY <1>2, EndedIsSound, EndedIsEmpty, ApprovedAttempt
<1>3. ASSUME NEW a \in Attempts, Handshake(a) PROVE Goal
  <2>1. PICK v : /\ Fits(v) /\ Sound(a, v) /\ Becomes(a, v)
                 /\ v.phase \in {"asking", "acting"} /\ v.store = verifier[a].store
    BY <1>3, HandshakeStep
  <2>2. v.pieces = <<>>
    BY <2>1 DEF Sound
  <2>3. \A h \in Hosts : v.store[h] # None => v.store[h] \in Approved'
    BY <1>a, <1>b, <2>1 DEF ApprovedStore
  <2> QED
    BY <1>c, <2>1, <2>2, <2>3, ApprovedAttempt
<1>4. ASSUME NEW a \in Attempts, LoadKnownHosts(a) PROVE Goal
  <2>1. PICK v : /\ Fits(v) /\ Sound(a, v) /\ Becomes(a, v)
                 /\ v.phase \in {"connecting", "panicked"}
                 /\ v.store = IF Readable(hostsFile) THEN StoreIn(hostsFile) ELSE EmptyStore
    BY <1>4, LoadStep
  <2>2. v.pieces = <<>>
    BY <2>1 DEF Sound
  <2>3. \A h \in Hosts : v.store[h] # None => v.store[h] \in Approved'
    <3>1. CASE Readable(hostsFile)
      BY <1>a, <2>1, <3>1, LoadedStore DEF ApprovedInv, ApprovedFile
    <3>2. CASE ~Readable(hostsFile)
      BY <2>1, <3>2 DEF EmptyStore
    <3> QED
      BY <3>1, <3>2
  <2> QED
    BY <1>c, <2>1, <2>2, <2>3, ApprovedAttempt
<1>5. ASSUME NEW a \in Attempts, Asks(a) PROVE Goal
  <2>1. PICK v : /\ Fits(v) /\ Sound(a, v) /\ Becomes(a, v)
                 /\ v.phase \in {"asking", "acting"} /\ v.store = verifier[a].store
    BY <1>5, AskStep
  <2>2. v.pieces = <<>>
    BY <2>1 DEF Sound
  <2>3. \A h \in Hosts : v.store[h] # None => v.store[h] \in Approved'
    BY <1>a, <1>b, <2>1 DEF ApprovedStore
  <2> QED
    BY <1>c, <2>1, <2>2, <2>3, ApprovedAttempt
<1>6. ASSUME NEW a \in Attempts, ActStores(a) PROVE Goal
  <2>1. PICK v : /\ Fits(v) /\ Sound(a, v) /\ Becomes(a, v)
                 /\ v.cert = verifier[a].cert /\ v.store = verifier[a].store
                 /\ v.cert \in Certificates
                 /\ v.pieces \in Files(WithEntry(v.store, HostOf[a], v.cert))
    BY <1>6, ActStoreStep
  <2> DEFINE store == WithEntry(v.store, HostOf[a], v.cert)
  <2>2. v.store \in Stores /\ HostOf[a] \in Hosts
    BY <2>1, HostsAssumption DEF Fits, Verifiers
  <2>3. v.cert \in Approved'
    <3>1. <<HostOf[a], v.cert>> \in consented'
      BY <1>6, <2>1 DEF ActStores, TrustAndStore
    <3> QED
      BY <3>1 DEF Approved
  <2>4. \A h \in Hosts : v.store[h] # None => v.store[h] \in Approved'
    BY <1>a, <1>b, <2>1 DEF ApprovedStore
  <2>5. store \in Stores /\ \A h \in Hosts : store[h] # None => store[h] \in Approved'
    BY <2>1, <2>2, <2>3, <2>4 DEF WithEntry, Stores
  <2> HIDE DEF store
  <2>6. \A i \in DOMAIN v.pieces : v.pieces[i] \in Certificates => v.pieces[i] \in Approved'
    <3>1. v.pieces \in Files(store)
      BY <2>1 DEF store
    <3>2. \A i \in DOMAIN v.pieces :
            v.pieces[i] \in Hosts \/ \E h \in Hosts : store[h] # None /\ v.pieces[i] = store[h]
      <4> DEFINE f == v.pieces
      <4>1. \A i \in DOMAIN f :
              IF IsEntry(i)
              THEN f[i] \in Hosts /\ store[f[i]] # None /\ i + 1 \in DOMAIN f
                   /\ f[i + 1] = store[f[i]]
              ELSE \E h \in Hosts : store[h] # None /\ f[i] = store[h]
        <5> HIDE DEF f
        <5>1. f \in Files(store)
          BY <3>1 DEF f
        <5> QED
          BY <2>5, <5>1, FilesLines
      <4> QED
        BY <4>1
    <3> QED
      BY <2>5, <3>2, PiecesAssumption
  <2> QED
    BY <2>1, <2>4, <2>6, ApprovedAttempt
<1>7. ASSUME NEW a \in Attempts, WritePiece(a) PROVE Goal
  <2>1. PICK v : /\ Fits(v) /\ Sound(a, v) /\ Becomes(a, v)
                 /\ v.store = verifier[a].store /\ v.pieces = Tail(verifier[a].pieces)
    BY <1>7, WriteStep
  <2>2. \A h \in Hosts : v.store[h] # None => v.store[h] \in Approved'
    BY <1>a, <1>b, <2>1 DEF ApprovedStore
  <2>3. \A i \in DOMAIN v.pieces : i + 1 \in DOMAIN verifier[a].pieces
                                   /\ v.pieces[i] = verifier[a].pieces[i + 1]
    BY <1>7, <2>1, WriteFacts, TailIndex
  <2>4. \A i \in DOMAIN v.pieces : v.pieces[i] \in Certificates => v.pieces[i] \in Approved'
    BY <1>a, <1>b, <2>3 DEF ApprovedFile
  <2> QED
    BY <2>1, <2>2, <2>4, ApprovedAttempt
<1>8. ASSUME NEW a \in Attempts, Ends(a) \/ StoreEnds(a) \/ StoreFails(a) PROVE Goal
  BY <1>2, <1>8 DEF Ends, StoreEnds, StoreFails
<1>9. ASSUME ClientStops PROVE Goal
  <2> SUFFICES ASSUME NEW b \in Attempts
               PROVE  ApprovedFile(verifier[b].pieces)' /\ ApprovedStore(verifier[b].store)'
    OBVIOUS
  <2>1. verifier'[b] = verifier[b] \/ verifier'[b] = Ended("failed")
    BY <1>9 DEF ClientStops
  <2> QED
    BY <1>a, <1>b, <2>1, EndedIsEmpty DEF ApprovedFile, ApprovedStore
<1>10. Server \/ UNCHANGED vars => Goal
  BY <1>1 DEF Server, vars, verifierVars
<1> HIDE DEF Goal
<1>11. Goal
  BY <1>3, <1>4, <1>5, <1>6, <1>7, <1>8, <1>9, <1>10, Steps
<1> QED
  BY <1>11 DEF Goal

LEMMA ApprovedStep ==
  ASSUME TypeOK, AttemptInv, StoreInv, ApprovedInv, [Next]_vars
  PROVE  ApprovedInv'
<1>1. ApprovedFile(hostsFile)'
  <2>0. Approved \subseteq Approved' /\ ApprovedFile(hostsFile)
    BY ApprovedGrows DEF ApprovedInv
  <2>1. CASE hostsFile' = hostsFile
    BY <2>0, <2>1 DEF ApprovedFile
  <2>2. CASE hostsFile' = <<>>
    BY <2>2 DEF ApprovedFile
  <2>3. ASSUME NEW a \in Attempts, WritePiece(a) PROVE ApprovedFile(hostsFile)'
    <3> DEFINE i == verifier[a].offset + 1
               piece == Head(verifier[a].pieces)
    <3>1. /\ piece \in Texts /\ i \in Nat \ {0}
          /\ hostsFile \in Seq(Texts \cup {Hole})
          /\ hostsFile' = WrittenAt(hostsFile, i, piece)
      BY <2>3, WriteFacts
    <3>2. piece \in Certificates => piece \in Approved
      BY <2>3, WriteFacts DEF ApprovedInv, ApprovedFile
    <3> HIDE DEF i, piece
    <3>3. \A k \in DOMAIN hostsFile' : \/ hostsFile'[k] \in {piece, Hole}
                                       \/ k \in DOMAIN hostsFile /\ hostsFile'[k] = hostsFile[k]
      BY <3>1, WrittenAtFile
    <3> QED
      BY <2>0, <3>2, <3>3, PiecesAssumption DEF ApprovedFile
  <2>4. \/ hostsFile' = hostsFile
        \/ hostsFile' = <<>>
        \/ \E a \in Attempts : WritePiece(a)
    BY Steps
    DEF Server, Ends, Asks, LoadKnownHosts, ActStores, TrustAndStore, StoreEnds, StoreFails,
        ClientStops, Handshake, VerifyServerCert, vars, verifierVars
  <2> QED
    BY <2>1, <2>2, <2>3, <2>4
<1> QED
  BY <1>1, ApprovedAttempts DEF ApprovedInv

-----------------------------------------------------------------------------
(* What is stored.                                                         *)

(* A piece that is written at the end of the file is taken from what       *)
(* remains: the two together stay the same.                                *)
LEMMA WriteMoves ==
  ASSUME NEW S, NEW s \in Seq(S), NEW t \in Seq(S), t # <<>>
  PROVE  Append(s, Head(t)) \o Tail(t) = s \o t
<1> DEFINE u == Append(s, Head(t))
           w == Tail(t)
           l == u \o w
           r == s \o t
           m == Len(s)
           n == Len(t)
<1>1. m \in Nat /\ n \in Nat \ {0} /\ Head(t) = t[1] /\ Head(t) \in S
      /\ w \in Seq(S) /\ Len(w) = n - 1 /\ \A i \in 1..(n - 1) : w[i] = t[i + 1]
  BY TailIndex, LenProperties
<1>2. /\ u \in Seq(S) /\ Len(u) = m + 1
      /\ \A i \in 1..m : u[i] = s[i]
      /\ u[m + 1] = t[1]
  BY <1>1, AppendProperties
<1> HIDE DEF u, w
<1>3. /\ l \in Seq(S) /\ Len(l) = Len(u) + Len(w)
      /\ \A i \in 1..(Len(u) + Len(w)) : l[i] = IF i <= Len(u) THEN u[i] ELSE w[i - Len(u)]
  BY <1>1, <1>2, ConcatProperties
<1>4. /\ r \in Seq(S) /\ Len(r) = m + n
      /\ \A i \in 1..(m + n) : r[i] = IF i <= m THEN s[i] ELSE t[i - m]
  BY ConcatProperties
<1> HIDE DEF l, r, m, n
<1>5. Len(l) = m + n
  BY <1>1, <1>2, <1>3
<1>6. \A i \in 1..(m + n) : l[i] = r[i]
  <2> SUFFICES ASSUME NEW i \in 1..(m + n) PROVE l[i] = r[i]
    OBVIOUS
  <2>0. l[i] = IF i <= m + 1 THEN u[i] ELSE w[i - (m + 1)]
    BY <1>1, <1>2, <1>3
  <2>1. CASE i <= m
    BY <1>1, <1>2, <1>4, <2>0, <2>1, SMTT(30)
  <2>2. CASE i = m + 1
    BY <1>1, <1>2, <1>4, <2>0, <2>2
  <2>3. CASE i > m + 1
    <3>1. i - (m + 1) \in 1..(n - 1) /\ (i - (m + 1)) + 1 = i - m
      BY <1>1, <2>3
    <3>2. w[i - (m + 1)] = t[i - m]
      BY <1>1, <3>1
    <3> QED
      BY <1>1, <1>4, <2>0, <2>3, <3>2
  <2> QED
    BY <1>1, <2>1, <2>2, <2>3
<1>7. l = r
  BY <1>3, <1>4, <1>5, <1>6, SeqEqual
<1> QED
  BY <1>7 DEF l, r, u, w

(* On the lines of a store every certificate stands by its host's name.    *)
LEMMA FilePairs ==
  ASSUME NEW store \in Stores, NEW f \in Files(store), NEW C,
         \A h \in Hosts : store[h] # None => <<h, store[h]>> \in C
  PROVE  \A i \in DOMAIN f : IsEntry(i) /\ i + 1 \in DOMAIN f => <<f[i], f[i + 1]>> \in C
<1>1. \A i \in DOMAIN f : IsEntry(i) => f[i] \in Hosts /\ store[f[i]] # None
                                        /\ f[i + 1] = store[f[i]]
  BY FilesLines
<1> QED
  BY <1>1

(* The beginning of a file has no other lines than the whole.              *)
LEMMA PairsOfPrefix ==
  ASSUME NEW S, NEW s \in Seq(S), NEW t \in Seq(S), NEW C,
         \A i \in DOMAIN (s \o t) :
           IsEntry(i) /\ i + 1 \in DOMAIN (s \o t) => <<(s \o t)[i], (s \o t)[i + 1]>> \in C
  PROVE  \A i \in DOMAIN s : IsEntry(i) /\ i + 1 \in DOMAIN s => <<s[i], s[i + 1]>> \in C
<1>1. \A i \in DOMAIN s : i \in DOMAIN (s \o t) /\ (s \o t)[i] = s[i]
  BY ConcatProperties, LenProperties
<1> QED
  BY <1>1

LEMMA PairedGrows ==
  ASSUME TypeOK, AttemptInv, [Next]_vars, NEW store, NEW file
  PROVE  /\ Faithful(store) => \A h \in Hosts : store[h] # None => <<h, store[h]>> \in consented'
         /\ Paired(file) => \A i \in DOMAIN file :
              IsEntry(i) /\ i + 1 \in DOMAIN file => <<file[i], file[i + 1]>> \in consented'
BY ApprovedGrows DEF Faithful, Paired

LEMMA MixedStays ==
  ASSUME TypeOK, [Next]_vars, mixed
  PROVE  mixed'
BY Steps
DEF Server, Ends, Asks, LoadKnownHosts, ActStores, TrustAndStore, WritePiece, StoreEnds,
    StoreFails, ClientStops, Handshake, VerifyServerCert, vars, verifierVars, history

(* The next piece of a writer that has reached the end of the file.        *)
LEMMA NextPiece ==
  ASSUME TypeOK, NEW a \in Attempts, WritePiece(a), verifier[a].offset = Len(hostsFile)
  PROVE  /\ Len(hostsFile') = Len(hostsFile) + 1
         /\ Len(hostsFile) \in Nat
         /\ hostsFile' \o Tail(verifier[a].pieces) = hostsFile \o verifier[a].pieces
         /\ hostsFile' \in Seq(Texts \cup {Hole})
         /\ Tail(verifier[a].pieces) \in Seq(Texts \cup {Hole})
<1> DEFINE u == verifier[a]
           piece == Head(u.pieces)
           i == Len(hostsFile) + 1
<1>1. /\ u.pieces \in Seq(Texts) /\ u.pieces # <<>> /\ Tail(u.pieces) \in Seq(Texts)
      /\ hostsFile \in Seq(Texts \cup {Hole}) /\ Len(hostsFile) \in Nat
      /\ piece \in Texts /\ i \in Nat \ {0} /\ hostsFile' = WrittenAt(hostsFile, i, piece)
  BY WriteFacts, LenProperties
<1> HIDE DEF u
<1>2. u.pieces \in Seq(Texts \cup {Hole}) /\ Tail(u.pieces) \in Seq(Texts \cup {Hole})
  BY <1>1, SeqMonotonic
<1> HIDE DEF piece
<1>3. /\ hostsFile' = Append(hostsFile, piece)
      /\ hostsFile' \in Seq(Texts \cup {Hole})
      /\ Len(hostsFile') = IF Len(hostsFile) >= i THEN Len(hostsFile) ELSE i
  BY <1>1, WrittenAtFile
<1>4. Append(hostsFile, piece) \o Tail(u.pieces) = hostsFile \o u.pieces
  BY <1>1, <1>2, WriteMoves DEF piece
<1>5. hostsFile' \o Tail(u.pieces) = hostsFile \o u.pieces
  BY <1>3, <1>4
<1>6. Len(hostsFile') = Len(hostsFile) + 1
  BY <1>1, <1>3
<1> QED
  BY <1>1, <1>2, <1>3, <1>5, <1>6 DEF u

(* A step of an attempt that does not write after it.                      *)
LEMMA PairsKept ==
  ASSUME TypeOK, AttemptInv, PairsInv, ~mixed, [Next]_vars,
         NEW a \in Attempts, NEW v, Fits(v), Sound(a, v), Becomes(a, v),
         v.phase # "writing",
         \A h \in Hosts : v.store[h] # None => <<h, v.store[h]>> \in consented',
         UNCHANGED hostsFile
  PROVE  PairsInv'
<1>1. Writing' = Writing \ {a}
  BY WritingStep
<1>2. verifier'[a] = v /\ \A b \in Attempts \ {a} : verifier'[b] = verifier[b]
  BY OneAttempt
<1>3. \A b \in Attempts : Faithful(verifier[b].store)'
  <2> SUFFICES ASSUME NEW b \in Attempts PROVE Faithful(verifier[b].store)'
    OBVIOUS
  <2>1. CASE b = a
    BY <1>2, <2>1 DEF Faithful
  <2>2. CASE b # a
    <3>1. Faithful(verifier[b].store)
      BY DEF PairsInv
    <3>2. \A h \in Hosts : verifier[b].store[h] # None => <<h, verifier[b].store[h]>> \in consented'
      BY <3>1, PairedGrows
    <3> QED
      BY <1>2, <2>2, <3>2 DEF Faithful
  <2> QED
    BY <2>1, <2>2
<1>4. Paired(hostsFile)'
  <2>1. Paired(hostsFile)
    BY DEF PairsInv
  <2>2. \A i \in DOMAIN hostsFile :
          IsEntry(i) /\ i + 1 \in DOMAIN hostsFile
            => <<hostsFile[i], hostsFile[i + 1]>> \in consented'
    BY <2>1, PairedGrows
  <2> QED
    BY <2>2 DEF Paired
<1>5. ASSUME NEW b \in Writing'
      PROVE  /\ Writing' = {b} /\ verifier'[b].offset = Len(hostsFile')
             /\ Paired(hostsFile \o verifier[b].pieces)'
  <2>1. b \in Attempts /\ b \in Writing /\ b # a /\ verifier'[b] = verifier[b]
    BY <1>1, <1>2, <1>5 DEF Writing
  <2>2. /\ Writing = {b} /\ verifier[b].offset = Len(hostsFile)
        /\ Paired(hostsFile \o verifier[b].pieces)
    BY <2>1 DEF PairsInv
  <2> DEFINE f == hostsFile \o verifier[b].pieces
  <2>3. f' = f
    BY <2>1
  <2>4. \A i \in DOMAIN f : IsEntry(i) /\ i + 1 \in DOMAIN f => <<f[i], f[i + 1]>> \in consented'
    <3>1. Paired(f)
      BY <2>2
    <3> HIDE DEF f
    <3> QED
      BY <3>1, PairedGrows
  <2>5. Paired(f)'
    <3> HIDE DEF f
    <3> QED
      BY <2>3, <2>4 DEF Paired
  <2> QED
    BY <1>1, <2>1, <2>2, <2>5
<1> QED
  BY <1>3, <1>4, <1>5 DEF PairsInv

LEMMA PairsStep ==
  ASSUME TypeOK, AttemptInv, StoreInv, PairsInv, [Next]_vars
  PROVE  PairsInv'
<1> SUFFICES ASSUME ~mixed' PROVE PairsInv'
  BY DEF PairsInv
<1>a. ~mixed
  BY MixedStays
<1>b. \A a \in Attempts, h \in Hosts :
        verifier[a].store[h] # None => <<h, verifier[a].store[h]>> \in consented'
  BY <1>a, ApprovedGrows DEF PairsInv, Faithful
<1>1. ASSUME UNCHANGED <<hostsFile, consented, verifier>> PROVE PairsInv'
  BY <1>1, <1>a DEF PairsInv, Faithful, Paired, Writing
<1>2. ASSUME NEW a \in Attempts, NEW ph \in {"trusted", "failed"}, Becomes(a, Ended(ph)),
             UNCHANGED hostsFile
      PROVE  PairsInv'
  <2>1. /\ Fits(Ended(ph)) /\ Sound(a, Ended(ph)) /\ Ended(ph).phase # "writing"
        /\ \A h \in Hosts : Ended(ph).store[h] = None
    BY EndedIsSound, EndedIsEmpty
  <2> QED
    BY <1>2, <1>a, <2>1, PairsKept
<1>3. ASSUME NEW a \in Attempts, Ends(a) \/ StoreEnds(a) \/ StoreFails(a) PROVE PairsInv'
  BY <1>2, <1>3 DEF Ends, StoreEnds, StoreFails
<1>4. ASSUME NEW a \in Attempts, Handshake(a) PROVE PairsInv'
  <2>1. PICK v : /\ Fits(v) /\ Sound(a, v) /\ Becomes(a, v)
                 /\ v.phase \in {"asking", "acting"} /\ v.store = verifier[a].store
    BY <1>4, HandshakeStep
  <2>2. UNCHANGED hostsFile
    BY <1>4 DEF Handshake, VerifyServerCert
  <2> QED
    BY <1>a, <1>b, <2>1, <2>2, PairsKept
<1>5. ASSUME NEW a \in Attempts, Asks(a) PROVE PairsInv'
  <2>1. PICK v : /\ Fits(v) /\ Sound(a, v) /\ Becomes(a, v)
                 /\ v.phase \in {"asking", "acting"} /\ v.store = verifier[a].store
    BY <1>5, AskStep
  <2>2. UNCHANGED hostsFile
    BY <1>5 DEF Asks
  <2> QED
    BY <1>a, <1>b, <2>1, <2>2, PairsKept
<1>6. ASSUME NEW a \in Attempts, LoadKnownHosts(a) PROVE PairsInv'
  <2>1. PICK v : /\ Fits(v) /\ Sound(a, v) /\ Becomes(a, v)
                 /\ v.phase \in {"connecting", "panicked"}
                 /\ v.store = IF Readable(hostsFile) THEN StoreIn(hostsFile) ELSE EmptyStore
    BY <1>6, LoadStep
  <2>2. UNCHANGED hostsFile
    BY <1>6 DEF LoadKnownHosts
  <2>3. \A h \in Hosts : v.store[h] # None => <<h, v.store[h]>> \in consented'
    <3>1. CASE Readable(hostsFile)
      <4>1. Faithful(StoreIn(hostsFile))
        BY <1>a, <3>1, LoadedStore DEF PairsInv
      <4> QED
        BY <2>1, <3>1, <4>1, ApprovedGrows DEF Faithful
    <3>2. CASE ~Readable(hostsFile)
      BY <2>1, <3>2 DEF EmptyStore
    <3> QED
      BY <3>1, <3>2
  <2> QED
    BY <1>a, <2>1, <2>2, <2>3, PairsKept
<1>7. ASSUME NEW a \in Attempts, ActStores(a) PROVE PairsInv'
  <2>1. PICK v : /\ Fits(v) /\ Sound(a, v) /\ Becomes(a, v)
                 /\ v.phase = "writing" /\ v.offset = 0
                 /\ v.cert = verifier[a].cert /\ v.store = verifier[a].store
                 /\ v.cert \in Certificates
                 /\ v.pieces \in Files(WithEntry(v.store, HostOf[a], v.cert))
    BY <1>7, ActStoreStep
  <2> DEFINE store == WithEntry(v.store, HostOf[a], v.cert)
  <2>2. Writing = {} /\ hostsFile' = <<>> /\ <<HostOf[a], v.cert>> \in consented'
    BY <1>7, <2>1 DEF ActStores, TrustAndStore
  <2>3. Writing' = {a}
    BY <2>1, <2>2, WritingStep
  <2>4. verifier'[a] = v /\ \A b \in Attempts \ {a} : verifier'[b] = verifier[b]
    BY <2>1, OneAttempt
  <2>5. \A b \in Attempts : Faithful(verifier[b].store)'
    BY <1>b, <2>1, <2>4 DEF Faithful
  <2>6. Paired(hostsFile)' /\ Len(hostsFile') = 0
    BY <2>2 DEF Paired
  <2>7. store \in Stores /\ \A h \in Hosts : store[h] # None => <<h, store[h]>> \in consented'
    <3>1. v.store \in Stores /\ HostOf[a] \in Hosts
      BY <2>1, HostsAssumption DEF Fits, Verifiers
    <3> QED
      BY <1>b, <2>1, <2>2, <3>1 DEF WithEntry, Stores
  <2>8. \A i \in DOMAIN v.pieces : IsEntry(i) /\ i + 1 \in DOMAIN v.pieces
          => <<v.pieces[i], v.pieces[i + 1]>> \in consented'
    <3> DEFINE f == v.pieces
    <3>1. f \in Files(store)
      BY <2>1
    <3> HIDE DEF f, store
    <3>2. \A i \in DOMAIN f : IsEntry(i) /\ i + 1 \in DOMAIN f => <<f[i], f[i + 1]>> \in consented'
      BY <2>7, <3>1, FilePairs
    <3> QED
      BY <3>2 DEF f
  <2>9. hostsFile' \o v.pieces = v.pieces
    <3>1. v.pieces \in Seq(Hosts \cup Certificates)
      BY <2>1 DEF Fits, Verifiers
    <3> QED
      BY <2>2, <3>1, ConcatEmptySeq
  <2> HIDE DEF store
  <2>10. Paired(hostsFile \o verifier[a].pieces)'
    <3>1. (hostsFile \o verifier[a].pieces)' = v.pieces
      BY <2>4, <2>9
    <3> QED
      BY <2>8, <3>1 DEF Paired
  <2> QED
    BY <2>1, <2>3, <2>4, <2>5, <2>6, <2>10 DEF PairsInv
<1>8. ASSUME NEW a \in Attempts, WritePiece(a) PROVE PairsInv'
  <2> DEFINE u == verifier[a]
             f == hostsFile \o u.pieces
  <2>1. PICK v : /\ Fits(v) /\ Sound(a, v) /\ Becomes(a, v)
                 /\ v.phase = "writing" /\ v.offset = u.offset + 1
                 /\ v.cert = u.cert /\ v.store = u.store /\ v.pieces = Tail(u.pieces)
    BY <1>8, WriteStep
  <2>2. a \in Writing
    BY <1>8 DEF WritePiece, Writing
  <2>3. Writing = {a} /\ u.offset = Len(hostsFile) /\ Paired(f)
    BY <1>a, <2>2 DEF PairsInv
  <2>4. Writing' = {a}
    BY <2>1, <2>3, WritingStep
  <2>5. verifier'[a] = v /\ \A b \in Attempts \ {a} : verifier'[b] = verifier[b]
    BY <2>1, OneAttempt
  <2>6. \A b \in Attempts : Faithful(verifier[b].store)'
    BY <1>b, <2>1, <2>5 DEF Faithful
  <2>7. /\ Len(hostsFile') = Len(hostsFile) + 1 /\ hostsFile' \o v.pieces = f
        /\ hostsFile' \in Seq(Texts \cup {Hole}) /\ v.pieces \in Seq(Texts \cup {Hole})
    BY <1>8, <2>1, <2>3, NextPiece
  <2> HIDE DEF f
  <2>8. \A i \in DOMAIN f : IsEntry(i) /\ i + 1 \in DOMAIN f => <<f[i], f[i + 1]>> \in consented'
    BY <2>3, PairedGrows
  <2>9. Paired(hostsFile)'
    <3> DEFINE s == hostsFile'
               t == v.pieces
    <3>1. s \in Seq(Texts \cup {Hole}) /\ t \in Seq(Texts \cup {Hole}) /\ s \o t = f
      BY <2>7
    <3> HIDE DEF s, t
    <3>2. \A i \in DOMAIN s : IsEntry(i) /\ i + 1 \in DOMAIN s => <<s[i], s[i + 1]>> \in consented'
      BY <2>8, <3>1, PairsOfPrefix
    <3> QED
      BY <3>2 DEF s, Paired
  <2>10. Paired(hostsFile \o verifier[a].pieces)'
    <3>1. (hostsFile \o verifier[a].pieces)' = f
      BY <2>5, <2>7
    <3> QED
      BY <2>8, <3>1 DEF Paired
  <2>11. v.offset = Len(hostsFile')
    BY <2>1, <2>3, <2>7
  <2> QED
    BY <2>4, <2>5, <2>6, <2>9, <2>10, <2>11 DEF PairsInv
<1>9. ASSUME ClientStops PROVE PairsInv'
  <2>1. /\ hostsFile' = hostsFile /\ consented' = consented
        /\ \A b \in Attempts : \/ verifier'[b] = verifier[b] /\ verifier[b].phase # "writing"
                               \/ verifier'[b] = Ended("failed")
    BY <1>9 DEF ClientStops, UnderWay, InVerification
  <2>2. \A b \in Attempts : Faithful(verifier[b].store)'
    BY <1>b, <2>1, EndedIsEmpty DEF Faithful
  <2>3. Writing' = {}
    BY <2>1, EndedIsEmpty DEF Writing
  <2>4. Paired(hostsFile)'
    BY <1>a, <2>1 DEF PairsInv, Paired
  <2> QED
    BY <2>2, <2>3, <2>4 DEF PairsInv
<1>10. Server \/ UNCHANGED vars => PairsInv'
  BY <1>1 DEF Server, vars, verifierVars, history
<1> QED
  BY <1>3, <1>4, <1>5, <1>6, <1>7, <1>8, <1>9, <1>10, Steps

(* A step of an attempt that does not write, before or after it.           *)
LEMMA StoreKept ==
  ASSUME TypeOK, AttemptInv, StoreInv,
         NEW a \in Attempts, NEW v, Fits(v), Sound(a, v), Becomes(a, v),
         a \notin Writing, v.phase # "writing",
         UNCHANGED <<hostsFile, kept, raced, mixed>>
  PROVE  StoreInv'
<1>1. Writing' = Writing
  BY WritingStep
<1>2. \A b \in Writing : verifier'[b] = verifier[b]
  BY OneAttempt DEF Writing
<1> QED
  BY <1>1, <1>2 DEF StoreInv

LEMMA StoreStep ==
  ASSUME TypeOK, AttemptInv, PairsInv, StoreInv, [Next]_vars
  PROVE  StoreInv'
<1>c. \A a \in Attempts : verifier[a].phase # "writing" => a \notin Writing
  BY DEF Writing
<1>1. ASSUME UNCHANGED <<hostsFile, kept, raced, mixed, verifier>> PROVE StoreInv'
  BY <1>1 DEF StoreInv, Writing
<1>2. ASSUME NEW a \in Attempts, Ends(a) PROVE StoreInv'
  <2>1. PICK ph \in {"trusted", "failed"} : Becomes(a, Ended(ph))
    BY <1>2 DEF Ends
  <2>2. Fits(Ended(ph)) /\ Sound(a, Ended(ph)) /\ Ended(ph).phase # "writing"
    BY EndedIsSound, EndedIsEmpty
  <2> QED
    BY <1>2, <2>1, <2>2, StoreKept DEF Ends, history
<1>3. ASSUME NEW a \in Attempts, Handshake(a) PROVE StoreInv'
  <2>1. \E v : /\ Fits(v) /\ Sound(a, v) /\ Becomes(a, v)
               /\ v.phase \in {"asking", "acting"}
    BY <1>3, HandshakeStep
  <2>2. UNCHANGED <<hostsFile, kept, raced, mixed>> /\ a \notin Writing
    BY <1>3, <1>c DEF Handshake, VerifyServerCert, history
  <2> QED
    BY <2>1, <2>2, StoreKept
<1>4. ASSUME NEW a \in Attempts, Asks(a) PROVE StoreInv'
  <2>1. \E v : /\ Fits(v) /\ Sound(a, v) /\ Becomes(a, v)
               /\ v.phase \in {"asking", "acting"}
    BY <1>4, AskStep
  <2>2. UNCHANGED <<hostsFile, kept, raced, mixed>> /\ a \notin Writing
    BY <1>4, <1>c DEF Asks, history
  <2> QED
    BY <2>1, <2>2, StoreKept
<1>5. ASSUME NEW a \in Attempts, LoadKnownHosts(a) PROVE StoreInv'
  <2>1. \E v : /\ Fits(v) /\ Sound(a, v) /\ Becomes(a, v)
               /\ v.phase \in {"connecting", "panicked"}
    BY <1>5, LoadStep
  <2>2. UNCHANGED <<hostsFile, kept, raced, mixed>> /\ a \notin Writing
    BY <1>5, <1>c DEF LoadKnownHosts, history
  <2> QED
    BY <2>1, <2>2, StoreKept
<1>6. ASSUME NEW a \in Attempts, ActStores(a) PROVE StoreInv'
  <2>1. PICK v : /\ Fits(v) /\ Sound(a, v) /\ Becomes(a, v)
                 /\ v.phase = "writing" /\ v.offset = 0
                 /\ v.cert = verifier[a].cert /\ v.store = verifier[a].store
                 /\ v.pieces \in Files(WithEntry(v.store, HostOf[a], v.cert))
    BY <1>6, ActStoreStep
  <2>2. /\ mixed' = (mixed \/ Writing # {})
        /\ raced' = (raced \/ Writing # {} \/ verifier[a].store # kept)
        /\ hostsFile' = <<>>
        /\ ~raced' => kept' = kept
    BY <1>6 DEF ActStores, TrustAndStore
  <2>3. mixed' => raced'
    BY <2>2 DEF StoreInv
  <2>4. ASSUME ~raced'
        PROVE  /\ Writing' = {a} /\ verifier'[a].store = kept'
               /\ hostsFile' \o verifier'[a].pieces
                    \in Files(WithEntry(kept', HostOf[a], verifier'[a].cert))
    <3>1. Writing = {} /\ v.store = kept /\ kept' = kept
      BY <2>1, <2>2, <2>4
    <3>2. Writing' = {a}
      BY <2>1, <3>1, WritingStep
    <3>3. verifier'[a] = v
      BY <2>1, OneAttempt
    <3>4. hostsFile' \o v.pieces = v.pieces
      <4>1. v.pieces \in Seq(Hosts \cup Certificates)
        BY <2>1 DEF Fits, Verifiers
      <4> QED
        BY <2>2, <4>1, ConcatEmptySeq
    <3> QED
      BY <2>1, <3>1, <3>2, <3>3, <3>4
  <2> QED
    BY <2>3, <2>4 DEF StoreInv, WithEntry
<1>7. ASSUME NEW a \in Attempts, WritePiece(a) PROVE StoreInv'
  <2> DEFINE u == verifier[a]
  <2>1. PICK v : /\ Fits(v) /\ Sound(a, v) /\ Becomes(a, v)
                 /\ v.phase = "writing"
                 /\ v.cert = u.cert /\ v.store = u.store /\ v.pieces = Tail(u.pieces)
    BY <1>7, WriteStep
  <2>2. a \in Writing /\ UNCHANGED <<kept, raced, mixed>>
    BY <1>7 DEF WritePiece, Writing, history
  <2>3. verifier'[a] = v
    BY <2>1, OneAttempt
  <2>4. ASSUME ~raced
        PROVE  /\ Writing' = {a} /\ v.store = kept
               /\ hostsFile' \o v.pieces \in Files(WithEntry(kept, HostOf[a], v.cert))
    <3>1. /\ Writing = {a} /\ u.offset = Len(hostsFile)
      BY <2>2, <2>4 DEF StoreInv, PairsInv
    <3>2. u.store = kept /\ hostsFile \o u.pieces \in Files(WithEntry(kept, HostOf[a], u.cert))
      BY <2>2, <2>4 DEF StoreInv
    <3>3. hostsFile' \o Tail(u.pieces) = hostsFile \o u.pieces
      BY <1>7, <3>1, NextPiece
    <3>4. Writing' = {a}
      BY <2>1, <3>1, WritingStep
    <3> QED
      BY <2>1, <3>2, <3>3, <3>4
  <2> HIDE DEF u
  <2>5. mixed' => raced'
    BY <2>2 DEF StoreInv
  <2>6. ASSUME ~raced'
        PROVE  /\ Writing' = {a} /\ verifier'[a].store = kept'
               /\ hostsFile' \o verifier'[a].pieces
                    \in Files(WithEntry(kept', HostOf[a], verifier'[a].cert))
    BY <2>2, <2>3, <2>4, <2>6
  <2> QED
    BY <2>5, <2>6 DEF StoreInv, WithEntry
<1>8. ASSUME NEW a \in Attempts, StoreEnds(a) PROVE StoreInv'
  <2> DEFINE u == verifier[a]
             after == WithEntry(kept, HostOf[a], u.cert)
  <2>0. raced' = raced /\ mixed' = mixed /\ hostsFile' = hostsFile
    BY <1>8 DEF StoreEnds
  <2> SUFFICES ASSUME ~raced PROVE StoreInv'
    BY <2>0 DEF StoreInv
  <2>1. PICK ph \in {"trusted", "failed"} : Becomes(a, Ended(ph))
    BY <1>8 DEF StoreEnds
  <2>2. Fits(Ended(ph)) /\ Sound(a, Ended(ph)) /\ Ended(ph).phase # "writing"
    BY EndedIsSound, EndedIsEmpty
  <2>3. a \in Writing /\ u.pieces = <<>> /\ kept' = after
    BY <1>8 DEF StoreEnds, Writing, WithEntry
  <2>4. Writing = {a} /\ hostsFile \o u.pieces \in Files(after)
    BY <2>3 DEF StoreInv, PairsInv
  <2>5. Writing' = {}
    BY <2>1, <2>2, <2>4, WritingStep
  <2>6. after \in Stores
    <3>1. u.cert # None /\ u.cert \in Certificates \cup {None} /\ kept \in Stores
          /\ HostOf[a] \in Hosts
      BY <2>3, HostsAssumption
      DEF TypeOK, VerifierTypeOK, Verifiers, AttemptInv, Sound, Writing
    <3> HIDE DEF u
    <3> QED
      BY <3>1 DEF WithEntry, Stores
  <2>7. hostsFile \o u.pieces = hostsFile
    <3>1. hostsFile \in Seq(Hosts \cup Certificates \cup {Hole})
      BY DEF TypeOK, VerifierTypeOK
    <3> QED
      BY <2>3, <3>1, ConcatEmptySeq
  <2>8. Readable(hostsFile)' /\ StoreIn(hostsFile)' = kept'
    <3> HIDE DEF after
    <3>1. Readable(hostsFile) /\ StoreIn(hostsFile) = after
      BY <2>4, <2>6, <2>7, FilesReadBack
    <3> QED
      BY <2>0, <2>3, <3>1 DEF Readable, StoreIn
  <2>9. mixed' => raced'
    BY <2>0 DEF StoreInv
  <2> QED
    BY <2>5, <2>8, <2>9 DEF StoreInv
<1>9. ASSUME NEW a \in Attempts, StoreFails(a) PROVE StoreInv'
  BY <1>9 DEF StoreFails, StoreInv
<1>10. ASSUME ClientStops PROVE StoreInv'
  <2>1. /\ mixed' = mixed /\ raced' = (raced \/ Writing # {}) /\ hostsFile' = hostsFile
        /\ \A b \in Attempts : \/ verifier'[b] = verifier[b] /\ verifier[b].phase # "writing"
                               \/ verifier'[b] = Ended("failed")
    BY <1>10 DEF ClientStops, UnderWay, InVerification
  <2>2. Writing' = {}
    BY <2>1, EndedIsEmpty DEF Writing
  <2>3. ~raced' => kept' = kept /\ Writing = {} /\ ~raced
    BY <1>10 DEF ClientStops
  <2>4. mixed' => raced'
    BY <2>1 DEF StoreInv
  <2>5. ~raced' => (Readable(hostsFile) /\ StoreIn(hostsFile) = kept)'
    <3> SUFFICES ASSUME ~raced' PROVE (Readable(hostsFile) /\ StoreIn(hostsFile) = kept)'
      OBVIOUS
    <3>1. Readable(hostsFile) /\ StoreIn(hostsFile) = kept
      BY <2>3 DEF StoreInv
    <3> QED
      BY <2>1, <2>3, <3>1 DEF Readable, StoreIn
  <2> QED
    BY <2>2, <2>4, <2>5 DEF StoreInv
<1>11. Server \/ UNCHANGED vars => StoreInv'
  BY <1>1 DEF Server, vars, verifierVars, history
<1> QED
  BY <1>2, <1>3, <1>4, <1>5, <1>6, <1>7, <1>8, <1>9, <1>10, <1>11, Steps

-----------------------------------------------------------------------------
(* What the server presented and what it saved.                            *)

(* A step of an attempt in which no server presents anything.              *)
LEMMA SeenKept ==
  ASSUME TypeOK, AttemptInv, [Next]_vars,
         \A b \in Attempts : verifier'[b].cert \in {verifier[b].cert, None}
  PROVE  Seen' \subseteq Seen
<1> SUFFICES ASSUME NEW c \in Seen' PROVE c \in Seen
  OBVIOUS
<1>1. ASSUME NEW p \in consented', p[1] = ServerHost, c = p[2] PROVE c \in Seen
  <2>1. CASE p \in consented
    BY <1>1, <2>1 DEF Seen
  <2>2. CASE p \notin consented
    <3>1. PICK a \in Attempts : verifier[a].cert \in Certificates
                                /\ p = <<HostOf[a], verifier[a].cert>>
      BY <2>2, ConsentStep
    <3>2. HostOf[a] = ServerHost /\ c = verifier[a].cert /\ c # None
      BY <1>1, <3>1, PiecesAssumption
    <3> QED
      BY <3>2 DEF Seen
  <2> QED
    BY <2>1, <2>2
<1>2. ASSUME NEW b \in Attempts, HostOf[b] = ServerHost, verifier'[b].cert # None,
             c = verifier'[b].cert
      PROVE  c \in Seen
  BY <1>2 DEF Seen
<1>3. \/ \E p \in consented' : p[1] = ServerHost /\ c = p[2]
      \/ \E b \in Attempts : HostOf[b] = ServerHost /\ verifier'[b].cert # None
                             /\ c = verifier'[b].cert
  BY DEF Seen
<1> QED
  BY <1>1, <1>2, <1>3

(* Except in a handshake, the certificates that were presented stay what   *)
(* they are, or are forgotten.                                             *)
LEMMA CertStep ==
  ASSUME TypeOK, AttemptInv, StoreInv, [Next]_vars
  PROVE  \/ \A b \in Attempts : verifier'[b].cert \in {verifier[b].cert, None}
         \/ \E a \in Attempts : Handshake(a)
<1> DEFINE Goal == \A b \in Attempts : verifier'[b].cert \in {verifier[b].cert, None}
<1>1. ASSUME NEW a \in Attempts, NEW v, Fits(v), Sound(a, v), Becomes(a, v),
             v.cert \in {verifier[a].cert, None}
      PROVE  Goal
  BY <1>1, OneAttempt
<1>2. ASSUME NEW a \in Attempts, NEW ph \in {"trusted", "failed"}, Becomes(a, Ended(ph))
      PROVE  Goal
  BY <1>1, <1>2, EndedIsSound, EndedIsEmpty
<1>3. ASSUME NEW a \in Attempts, Ends(a) \/ StoreEnds(a) \/ StoreFails(a) PROVE Goal
  BY <1>2, <1>3 DEF Ends, StoreEnds, StoreFails
<1>4. ASSUME NEW a \in Attempts, LoadKnownHosts(a) PROVE Goal
  BY <1>1, <1>4, LoadStep
<1>5. ASSUME NEW a \in Attempts, Asks(a) PROVE Goal
  BY <1>1, <1>5, AskStep
<1>6. ASSUME NEW a \in Attempts, ActStores(a) PROVE Goal
  BY <1>1, <1>6, ActStoreStep
<1>7. ASSUME NEW a \in Attempts, WritePiece(a) PROVE Goal
  BY <1>1, <1>7, WriteStep
<1>8. ASSUME ClientStops PROVE Goal
  BY <1>8, EndedIsEmpty DEF ClientStops
<1>9. Server \/ UNCHANGED vars => Goal
  BY DEF Server, vars, verifierVars
<1> HIDE DEF Goal
<1>10. Goal \/ \E a \in Attempts : Handshake(a)
  BY <1>3, <1>4, <1>5, <1>6, <1>7, <1>8, <1>9, Steps
<1> QED
  BY <1>10 DEF Goal

(* A handshake shows a client what the server has in memory, if the name  *)
(* is the server's alone.                                                  *)
LEMMA SeenPresented ==
  ASSUME TypeOK, AttemptInv, [Next]_vars, NEW a \in Attempts, Handshake(a)
  PROVE  \A c \in Seen' : \/ c \in Seen \/ c \in CertsOf[ServerHost]
                          \/ server = "up" /\ c = certificate
<1>1. PICK v : /\ Fits(v) /\ Sound(a, v) /\ Becomes(a, v)
               /\ v.cert \in Presented(HostOf[a])
  BY HandshakeStep
<1>2. verifier'[a] = v /\ \A b \in Attempts \ {a} : verifier'[b] = verifier[b]
  BY <1>1, OneAttempt
<1>3. consented' = consented
  BY DEF Handshake, VerifyServerCert, history
<1>4. HostOf[a] = ServerHost => \/ v.cert \in CertsOf[ServerHost]
                                \/ server = "up" /\ v.cert = certificate
  BY <1>1, HostsAssumption, PresentedFacts
<1> SUFFICES ASSUME NEW c \in Seen'
             PROVE  c \in Seen \/ c \in CertsOf[ServerHost] \/ (server = "up" /\ c = certificate)
  OBVIOUS
<1>5. \/ \E p \in consented : p[1] = ServerHost /\ c = p[2]
      \/ \E b \in Attempts : HostOf[b] = ServerHost /\ verifier'[b].cert # None
                             /\ c = verifier'[b].cert
  BY <1>3 DEF Seen
<1>6. ASSUME NEW b \in Attempts, HostOf[b] = ServerHost, verifier'[b].cert # None,
             c = verifier'[b].cert
      PROVE  c \in Seen \/ c \in CertsOf[ServerHost] \/ (server = "up" /\ c = certificate)
  <2>1. CASE b = a
    BY <1>2, <1>4, <1>6, <2>1
  <2>2. CASE b # a
    BY <1>2, <1>6, <2>2 DEF Seen
  <2> QED
    BY <2>1, <2>2
<1>7. (\E p \in consented : p[1] = ServerHost /\ c = p[2]) => c \in Seen
  BY DEF Seen
<1> QED
  BY <1>5, <1>6, <1>7

LEMMA IdentityStep ==
  ASSUME IInv, [Next]_vars
  PROVE  IdentityInv'
<1> SUFFICES ASSUME ~forgotten', CertsOf[ServerHost] = {} PROVE IdentityInv'
  BY DEF IdentityInv
<1>0. TypeOK /\ AttemptInv /\ StoreInv /\ IdentityInv /\ SavedInv
  BY DEF IInv
<1>m. certificate # Missing
  <2>1. certificate \in 0..MaxCertificates
    BY <1>0 DEF TypeOK, CertificateTypeOK
  <2> QED
    BY <2>1, CertificatesAssumption DEF Missing
<1>1. ASSUME UNCHANGED certificateVars,
             \A c \in Seen' : c \in Seen \/ (server = "up" /\ c = certificate)
      PROVE  IdentityInv'
  BY <1>0, <1>1, <1>m DEF IdentityInv, certificateVars
<1>2. ASSUME NEW a \in Attempts, Handshake(a) PROVE IdentityInv'
  BY <1>0, <1>1, <1>2, SeenPresented DEF Handshake
<1>3. ASSUME \A b \in Attempts : verifier'[b].cert \in {verifier[b].cert, None}
      PROVE  Seen' \subseteq Seen
  BY <1>0, <1>3, SeenKept
<1>4. CASE CertificateNext /\ UNCHANGED verifierVars
  <2>1. Seen' = Seen
    BY <1>4 DEF Seen, verifierVars, history
  <2>2. ASSUME NEW mode \in Modes, Load(mode) PROVE IdentityInv'
    BY <1>0, <2>1, <2>2 DEF IdentityInv, Load, Loadable
  <2>3. ASSUME NEW mode \in Modes, Generate(mode) PROVE IdentityInv'
    <3>1. ~forgotten /\ ~BothExist /\ server' = "saving cert"
      BY <2>3 DEF Generate
    <3>2. Seen = {}
      BY <1>0, <3>1 DEF IdentityInv, BothExist
    <3> QED
      BY <2>1, <3>1, <3>2 DEF IdentityInv
  <2>4. CASE WriteCert
    BY <1>0, <2>1, <2>4 DEF IdentityInv, WriteCert
  <2>5. CASE WriteKey
    BY <1>0, <2>1, <2>5 DEF IdentityInv, WriteKey, SavedInv
  <2>6. CASE Down
    <3>1. server' = "down" /\ ~forgotten
      BY <2>6 DEF Down
    <3>2. Seen # {} => certFile' = certFile /\ keyFile' = keyFile
      BY <1>0, <2>6, <3>1 DEF IdentityInv, Down
    <3> QED
      BY <1>0, <2>1, <3>1, <3>2 DEF IdentityInv
  <2>7. CASE RemoveFile
    BY <2>7 DEF RemoveFile
  <2> QED
    BY <1>4, <2>2, <2>3, <2>4, <2>5, <2>6, <2>7 DEF CertificateNext
<1>5. \/ UNCHANGED certificateVars
      \/ CertificateNext /\ UNCHANGED verifierVars
  BY DEF Next, Handshake, Client, Server, vars
<1> QED
  BY <1>0, <1>1, <1>2, <1>3, <1>4, <1>5, CertStep

LEMMA SavedStep ==
  ASSUME TypeOK, SavedInv, [Next]_vars
  PROVE  SavedInv'
<1>1. CASE UNCHANGED certificateVars
  BY <1>1 DEF SavedInv, certificateVars, BothExist, Loadable
<1>2. ASSUME NEW mode \in Modes, Load(mode) PROVE SavedInv'
  BY <1>2 DEF SavedInv, Load, BothExist, Loadable
<1>3. ASSUME NEW mode \in Modes, Generate(mode) PROVE SavedInv'
  BY <1>3 DEF SavedInv, Generate, BothExist, Loadable
<1>4. CASE WriteCert
  BY <1>4 DEF SavedInv, WriteCert
<1>5. CASE WriteKey
  <2>1. certificate \notin {Missing, Torn}
    <3>1. certificate \in 0..MaxCertificates /\ certificate # 0
      BY <1>5 DEF TypeOK, CertificateTypeOK, WriteKey
    <3> QED
      BY <3>1, CertificatesAssumption DEF Missing, Torn
  <2> QED
    BY <1>5, <2>1 DEF SavedInv, WriteKey, BothExist, Loadable
<1>6. CASE Down
  <2>1. server' = "down" /\ (~brokenOff' => ~brokenOff /\ server = "up")
    BY <1>6 DEF Down, TypeOK, CertificateTypeOK
  <2>2. ~brokenOff' => certFile' = certFile /\ keyFile' = keyFile
    BY <1>6, <2>1 DEF Down
  <2> QED
    BY <2>1, <2>2 DEF SavedInv, BothExist, Loadable
<1>7. CASE RemoveFile
  BY <1>7 DEF SavedInv, RemoveFile, BothExist
<1> QED
  BY <1>1, <1>2, <1>3, <1>4, <1>5, <1>6, <1>7
  DEF Next, Handshake, Client, Server, vars, CertificateNext

-----------------------------------------------------------------------------
(* The theorems.                                                           *)

LEMMA IInvInit == Init => IInv
<1> SUFFICES ASSUME Init PROVE IInv
  OBVIOUS
<1>1. \A a \in Attempts : verifier[a] = Idle /\ Idle = Ended("idle")
  BY DEF Init, VerifierInit, Ended, Idle
<1>2. \A a \in Attempts : /\ Fits(verifier[a]) /\ Sound(a, verifier[a])
                          /\ verifier[a].phase = "idle" /\ verifier[a].cert = None
                          /\ DOMAIN verifier[a].pieces = {}
                          /\ \A h \in Hosts : verifier[a].store[h] = None
  BY <1>1, EndedIsSound, EndedIsEmpty
<1>3. /\ hostsFile = <<>> /\ kept = EmptyStore /\ consented = {}
      /\ raced = FALSE /\ mixed = FALSE
      /\ Len(hostsFile) = 0 /\ DOMAIN hostsFile = {}
      /\ hostsFile \in Seq(Hosts \cup Certificates \cup {Hole})
  BY EmptySeq DEF Init, VerifierInit
<1>4. TypeOK
  <2>1. EmptyStore \in Stores
    BY DEF EmptyStore, Stores
  <2>2. Cardinality(Hosts) \in Nat
    BY HostsAssumption, FS_CardinalityType
  <2>3. verifier \in [Attempts -> Verifiers]
    BY <1>2 DEF Init, VerifierInit, Fits
  <2>4. VerifierTypeOK
    <3>1. Len(hostsFile) <= 2 * Cardinality(Hosts)
      BY <1>3, <2>2
    <3> QED
      BY <1>2, <1>3, <2>1, <2>3, <3>1 DEF VerifierTypeOK, Fits
  <2>5. CertificateTypeOK
    <3>1. 0 \in 0..MaxCertificates
      BY CertificatesAssumption
    <3> QED
      BY <3>1 DEF Init, CertificateInit, CertificateTypeOK
  <2> QED
    BY <2>4, <2>5 DEF TypeOK
<1>5. AttemptInv
  BY <1>2 DEF AttemptInv
<1>6. ApprovedInv
  BY <1>2, <1>3 DEF ApprovedInv, ApprovedFile, ApprovedStore
<1>w. Writing = {}
  BY <1>2 DEF Writing
<1>p. PairsInv
  BY <1>2, <1>3, <1>w DEF PairsInv, Faithful, Paired
<1>7. StoreInv
  <2>1. Readable(hostsFile) /\ StoreIn(hostsFile) = kept
    BY <1>3 DEF Readable, StoreIn, EmptyStore
  <2> QED
    BY <1>3, <1>w, <2>1 DEF StoreInv
<1>8. IdentityInv
  <2>1. Seen = {}
    BY <1>2, <1>3 DEF Seen
  <2> QED
    BY <2>1 DEF IdentityInv, Init, CertificateInit
<1>9. SavedInv
  BY DEF SavedInv, Init, CertificateInit, BothExist
<1> QED
  BY <1>4, <1>5, <1>6, <1>p, <1>7, <1>8, <1>9 DEF IInv

LEMMA IInvStep == IInv /\ [Next]_vars => IInv'
<1> SUFFICES ASSUME IInv, [Next]_vars PROVE IInv'
  OBVIOUS
<1>1. TypeOK /\ AttemptInv /\ ApprovedInv /\ PairsInv /\ StoreInv /\ IdentityInv /\ SavedInv
  BY DEF IInv
<1>2. TypeOK'
  BY <1>1, TypeStep
<1>3. AttemptInv'
  BY <1>1, AttemptsStep DEF AttemptInv
<1>4. ApprovedInv' /\ PairsInv' /\ StoreInv' /\ IdentityInv' /\ SavedInv'
  BY <1>1, ApprovedStep, PairsStep, StoreStep, IdentityStep, SavedStep
<1> QED
  BY <1>2, <1>3, <1>4 DEF IInv

(* The invariant that the others follow from: what each verification is    *)
(* based on, where certificates may get to, by which names they stand as   *)
(* long as stores do not mix, what the file of known hosts holds as long   *)
(* as they do not race, and what the server's own files do.                *)
THEOREM Inductive == Spec => []IInv
BY IInvInit, IInvStep, PTL DEF Spec

(* The state of both sides is of its type: no attempt waits for an answer  *)
(* without a request, or the other way round; what was written of the file *)
(* and what remains to be is never more than a line for each host.         *)
THEOREM TypeCorrect == Spec => []TypeOK
<1>1. IInv => TypeOK
  BY DEF IInv
<1> QED
  BY <1>1, Inductive, PTL

(* A certificate is taken for trusted only if TrustAndStore was decided    *)
(* for it, however the file of known hosts was read half-written, broken   *)
(* off or mixed by several writers; unless it was mixed, for its very      *)
(* host.  Any server may present any certificate, under any name.          *)
THEOREM TrustIsFromConsent == Spec => []TrustedWasConsented
<1>1. IInv => TrustedWasConsented
  <2> SUFFICES ASSUME IInv, NEW a \in Attempts, verifier[a].status = "TrustedCertificate"
               PROVE  /\ \E h \in Hosts : <<h, verifier[a].cert>> \in consented
                      /\ ~mixed => <<HostOf[a], verifier[a].cert>> \in consented
    BY DEF TrustedWasConsented
  <2> DEFINE v == verifier[a]
             h == HostOf[a]
  <2>1. h \in Hosts /\ Sound(a, v) /\ ApprovedStore(v.store)
    BY HostsAssumption DEF IInv, AttemptInv, ApprovedInv
  <2>2. v.cert # None /\ v.store[h] = v.cert
    <3>1. v.status # None
      BY NoneAssumption DEF Statuses
    <3>2. v.cert # None /\ v.status = StatusOf(v.store[h], v.cert)
      BY <2>1, <3>1 DEF Sound
    <3> QED
      BY <3>2 DEF StatusOf
  <2>3. PICK p \in consented : p[2] = v.cert
    BY <2>1, <2>2 DEF ApprovedStore, Approved
  <2>4. p \in Hosts \X Certificates
    BY DEF IInv, TypeOK, VerifierTypeOK
  <2>5. p[1] \in Hosts /\ <<p[1], v.cert>> \in consented
    BY <2>3, <2>4
  <2>6. ~mixed => <<h, v.cert>> \in consented
    BY <2>1, <2>2 DEF IInv, PairsInv, Faithful
  <2> QED
    BY <2>5, <2>6
<1> QED
  BY <1>1, Inductive, PTL

(* As long as stores do not race, the file can be loaded and a certificate *)
(* that was stored is recognised, or its change is.                        *)
THEOREM StoredIsRecognised == Spec => []KnownIsRecognised
<1>1. IInv => KnownIsRecognised
  <2> SUFFICES ASSUME IInv, NEW a \in Attempts, verifier[a].known # None
               PROVE  /\ verifier[a].phase # "panicked"
                      /\ verifier[a].status \in
                           {None, IF verifier[a].cert = verifier[a].known
                                  THEN "TrustedCertificate" ELSE "UntrustedCertificate"}
    BY DEF KnownIsRecognised
  <2>1. Sound(a, verifier[a])
    BY DEF IInv, AttemptInv
  <2> QED
    BY <2>1 DEF Sound, StatusOf
<1> QED
  BY <1>1, Inductive, PTL

(* A pair of certificate files that keeps the server from starting was     *)
(* left by a save that did not come to its end.                            *)
THEOREM BrokenPairsWereBrokenOff == Spec => []UnloadableWasBrokenOff
<1>1. IInv => UnloadableWasBrokenOff
  BY DEF IInv, SavedInv, UnloadableWasBrokenOff
<1> QED
  BY <1>1, Inductive, PTL

(* A server that saves its certificate and has its name for itself is      *)
(* recognised through all its stops and crashes.                           *)
THEOREM SavedCertificatesLast == Spec => []SavedIsRecognised
<1>1. IInv => SavedIsRecognised
  <2> SUFFICES ASSUME IInv, ~forgotten, ~mixed, CertsOf[ServerHost] = {},
                      NEW a \in Attempts, HostOf[a] = ServerHost,
                      verifier[a].status = "UntrustedCertificate"
               PROVE  FALSE
    BY DEF SavedIsRecognised
  <2> DEFINE v == verifier[a]
  <2>1. v.status # None
    BY NoneAssumption DEF Statuses
  <2>2. /\ v.cert # None /\ v.store[ServerHost] # None /\ v.store[ServerHost] # v.cert
    BY <2>1 DEF IInv, AttemptInv, Sound, StatusOf
  <2>3. <<ServerHost, v.store[ServerHost]>> \in consented
    BY <2>2, ServerAssumption DEF IInv, PairsInv, Faithful
  <2>4. v.cert \in Seen /\ v.store[ServerHost] \in Seen
    BY <2>2, <2>3 DEF Seen
  <2> QED
    BY <2>2, <2>4 DEF IInv, IdentityInv
<1> QED
  BY <1>1, Inductive, PTL

=============================================================================
