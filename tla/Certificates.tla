---------------------------- MODULE Certificates ----------------------------
(***************************************************************************)
(* CertificatesService.issueCertificate (apps/backend/src/certificates) for*)
(* one student and one course, called by the listener of progress.completed*)
(* and by the API. A pending row is saved before the mint and removed when *)
(* the mint fails; the table has no unique key.                            *)
(***************************************************************************)
EXTENDS Naturals, FiniteSets

CONSTANTS
  Issuer,      \* calls that run at a time
  MaxCerts,    \* bound: calls
  MaxCertFaults \* bound: removals that fail, crashes

NoCall == [at |-> "idle"]
CertId == 1..MaxCerts

ASSUME CertificateAssumption == MaxCerts \in Nat /\ MaxCertFaults \in Nat

VARIABLES
  completed,   \* the enrollment exists and has completedAt
  keyed,       \* the student has linked a Stellar key
  certs,       \* status of the certificate rows, "none" for no row
  call,        \* the calls
  overlapped,  \* history: a call looked for a row while another was at work
  certFaults, certCalls

certificateVars == <<completed, keyed, certs, call, overlapped, certFaults, certCalls>>

CertificateTypeOK ==
  /\ {completed, keyed, overlapped} \subseteq BOOLEAN
  /\ certs \in [CertId -> {"none", "pending", "minted"}]
  /\ certFaults \in 0..MaxCertFaults /\ certCalls \in 0..MaxCerts

CertificateInit ==
  /\ completed = FALSE /\ keyed = FALSE /\ overlapped = FALSE /\ certFaults = 0 /\ certCalls = 0
  /\ certs = [i \in CertId |-> "none"] /\ call = [k \in Issuer |-> NoCall]

GoOn(k, next) == call' = [call EXCEPT ![k] = next]
Rows == {i \in CertId : certs[i] # "none"}

\* Students complete courses and link keys elsewhere; keys may be unlinked.
Complete == completed' = TRUE /\ UNCHANGED <<keyed, certs, call, overlapped, certFaults, certCalls>>
LinkKey == keyed' \in BOOLEAN /\ UNCHANGED <<completed, certs, call, overlapped, certFaults, certCalls>>

\* The completed enrollment and its user are read at once.
IssueCertificate(k) ==
  /\ call[k] = NoCall /\ certCalls < MaxCerts /\ certCalls' = certCalls + 1
  /\ completed
  /\ GoOn(k, [at |-> "check", keyed |-> keyed])
  /\ UNCHANGED <<completed, keyed, certs, overlapped, certFaults>>

\* ConflictException if there is a row, even a pending one.
CheckIssued(k) ==
  /\ call[k].at = "check"
  /\ GoOn(k, IF Rows # {} THEN NoCall ELSE [call[k] EXCEPT !.at = "insert"])
  /\ overlapped' = (overlapped \/ \E j \in Issuer \ {k} : call[j].at \in {"insert", "mint"})
  /\ UNCHANGED <<completed, keyed, certs, certFaults, certCalls>>

SavePending(k) ==
  /\ call[k].at = "insert"
  /\ \E i \in CertId :
       /\ certs[i] = "none" /\ \A j \in CertId : j < i => certs[j] # "none"
       /\ certs' = [certs EXCEPT ![i] = "pending"]
       /\ GoOn(k, [at |-> "mint", keyed |-> call[k].keyed, row |-> i])
  /\ UNCHANGED <<completed, keyed, overlapped, certFaults, certCalls>>

\* Without a key the row is marked as minted.
KeepOffChain(k) ==
  /\ call[k].at = "mint" /\ ~call[k].keyed
  /\ certs' = [certs EXCEPT ![call[k].row] = "minted"]
  /\ GoOn(k, NoCall)
  /\ UNCHANGED <<completed, keyed, overlapped, certFaults, certCalls>>

\* Faulty variant of Mint: the pending row stays.
MintOrLeave(k) ==
  /\ call[k].at = "mint" /\ call[k].keyed
  /\ GoOn(k, NoCall)
  /\ UNCHANGED <<completed, keyed, certs, overlapped, certFaults, certCalls>>

\* mintCertificateNFT calls this.retryWithBackoff, which StellarService does
\* not have: it throws, and the row is removed. A removal that fails is
\* logged only.
Mint(k) ==
  /\ call[k].at = "mint" /\ call[k].keyed
  /\ GoOn(k, NoCall)
  /\ \/ certs' = [certs EXCEPT ![call[k].row] = "none"] /\ UNCHANGED certFaults
     \/ certFaults < MaxCertFaults /\ certFaults' = certFaults + 1 /\ UNCHANGED certs
  /\ UNCHANGED <<completed, keyed, overlapped, certCalls>>

\* The process dies, or the database refuses.
AbortCall(k) ==
  /\ call[k] # NoCall /\ certFaults < MaxCertFaults /\ certFaults' = certFaults + 1
  /\ GoOn(k, NoCall)
  /\ UNCHANGED <<completed, keyed, certs, overlapped, certCalls>>

CertificateNext ==
  \/ Complete \/ LinkKey
  \/ \E k \in Issuer : IssueCertificate(k) \/ CheckIssued(k) \/ SavePending(k)
  \/ \E k \in Issuer : KeepOffChain(k) \/ Mint(k) \/ AbortCall(k)

----------------------------------------------------------------------------
\* Unless a call died or could not remove its row, no pending row is left once
\* the calls have ended: none stands in the way of the next call. Unless two
\* calls overlapped, there is one row at most.
NoGhostCertificate ==
  /\ (\A k \in Issuer : call[k] = NoCall) /\ certFaults = 0 => \A i \in CertId : certs[i] # "pending"
  /\ ~overlapped => Cardinality(Rows) <= 1
=============================================================================
