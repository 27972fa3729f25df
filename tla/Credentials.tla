---------------------------- MODULE Credentials ----------------------------
(***************************************************************************)
(* CredentialsService and KycService (apps/backend/src), for one student.  *)
(* A credential is issued for a course or a bundle by three callers: the   *)
(* progress service, the indexer and the API. issue looks for a row, asks  *)
(* the ledger twice, and only then saves one; the table has no unique key. *)
(*                                                                         *)
(* The ledger is StellarService: a call returns once its transaction was   *)
(* applied, or throws, and then it may have been applied all the same.     *)
(***************************************************************************)
EXTENDS Naturals, FiniteSets

CONSTANTS
  Course, Bundle,
  KycCourse,    \* courses with requiresKyc
  Task,         \* handlers that run at a time
  MaxIssues,    \* bound: calls of issue by the API and the indexer
  MaxKyc,       \* bound: submissions and webhooks of the KYC provider
  MaxFaults     \* bound: throwing ledger calls and handlers that die

Subject == Course \cup Bundle
Idle == [at |-> "idle"]

ASSUME CredentialAssumption ==
  /\ KycCourse \subseteq Course /\ Course \cap Bundle = {}
  /\ {MaxIssues, MaxKyc, MaxFaults} \subseteq Nat

VARIABLES
  task,        \* the handlers
  customer,    \* status of the KYC row, "none" when there is none
  rows,        \* credential rows per subject, counted up to 2
  onLedger,    \* credential transactions of a returned hash per subject, counted up to 2
  fallbacks,   \* credential transactions of the fallback per subject, counted up to 2
  rewarded,    \* subjects whose reward was minted
  approvedOnce,\* history: the provider has approved the student
  contended,   \* history: subjects two calls of issue worked on at a time
  issues, kycCalls, faults

kycVars == <<customer, approvedOnce, kycCalls>>
issueVars == <<rows, onLedger, fallbacks, rewarded, contended, issues>>
credentialVars == <<task, kycVars, issueVars, faults>>

CredentialTypeOK ==
  /\ customer \in {"none", "pending", "approved", "rejected"} /\ approvedOnce \in BOOLEAN
  /\ {rows, onLedger, fallbacks} \subseteq [Subject -> 0..2]
  /\ rewarded \subseteq Subject /\ contended \subseteq Subject
  /\ issues \in 0..MaxIssues /\ kycCalls \in 0..MaxKyc /\ faults \in 0..MaxFaults

CredentialInit ==
  /\ task = [t \in Task |-> Idle]
  /\ customer = "none" /\ approvedOnce = FALSE /\ kycCalls = 0
  /\ rows = [s \in Subject |-> 0] /\ onLedger = [s \in Subject |-> 0]
  /\ fallbacks = [s \in Subject |-> 0]
  /\ rewarded = {} /\ contended = {} /\ issues = 0 /\ faults = 0

Goto(t, next) == task' = [task EXCEPT ![t] = next]
Finish(t) == Goto(t, Idle)
More(n) == IF n < 2 THEN n + 1 ELSE n

----------------------------------------------------------------------------
(* KycService                                                              *)

\* submitDocuments and upsertCustomer find the row, wait for the provider,
\* and save the status they decided on before.
SubmitKyc(t) ==
  /\ task[t] = Idle /\ kycCalls < MaxKyc /\ kycCalls' = kycCalls + 1
  /\ Goto(t, [at |-> "kyc_save", status |-> "pending", new |-> customer = "none"])
  /\ UNCHANGED <<customer, approvedOnce, issueVars, faults>>

\* handleWebhook: unknown customers are ignored.
KycWebhook(t, status) ==
  /\ task[t] = Idle /\ kycCalls < MaxKyc /\ kycCalls' = kycCalls + 1
  /\ customer # "none"
  /\ approvedOnce' = (approvedOnce \/ status = "approved")
  /\ Goto(t, [at |-> "kyc_save", status |-> status, new |-> FALSE])
  /\ UNCHANGED <<customer, issueVars, faults>>

\* The public key is unique: a second insert throws.
SaveKyc(t) ==
  /\ task[t].at = "kyc_save"
  /\ customer' = IF task[t].new /\ customer # "none" THEN customer ELSE task[t].status
  /\ Finish(t)
  /\ UNCHANGED <<approvedOnce, kycCalls, issueVars, faults>>

----------------------------------------------------------------------------
(* issue, issueBundle                                                      *)

Issuing(s) == {t \in Task : task[t].at \in {"gate", "issue", "horizon", "reward", "save"} /\ task[t].subject = s}

\* What the caller goes on with: a handler that throws is idle.
Return(t) ==
  Goto(t, CASE task[t].from = "progress" -> [at |-> "announce", course |-> task[t].subject]
            [] task[t].from = "bundle"   -> [at |-> "bundles", course |-> task[t].course, todo |-> task[t].todo]
            [] OTHER -> Idle)

\* The API or the indexer asks for a credential.
RequestIssue(t, c) ==
  /\ task[t] = Idle /\ issues < MaxIssues /\ issues' = issues + 1
  /\ Goto(t, [at |-> "find", subject |-> c, from |-> "other"])
  /\ UNCHANGED <<kycVars, rows, onLedger, fallbacks, rewarded, contended, faults>>

FindCredential(t) ==
  LET s == task[t].subject
  IN  /\ task[t].at = "find"
      /\ IF rows[s] > 0 THEN Return(t)
         ELSE Goto(t, [task[t] EXCEPT !.at = IF s \in KycCourse THEN "gate" ELSE "issue"])
      /\ contended' = IF rows[s] = 0 /\ Issuing(s) # {} THEN contended \cup {s} ELSE contended
      /\ UNCHANGED <<kycVars, rows, onLedger, fallbacks, rewarded, issues, faults>>

\* Faulty variant of CheckKyc: only a rejection closes the gate.
CheckKycRejected(t) ==
  /\ task[t].at = "gate"
  /\ IF customer # "rejected" THEN Goto(t, [task[t] EXCEPT !.at = "issue"]) ELSE Finish(t)
  /\ UNCHANGED <<kycVars, issueVars, faults>>

\* isApproved, or ForbiddenException.
CheckKyc(t) ==
  /\ task[t].at = "gate"
  /\ IF customer = "approved" THEN Goto(t, [task[t] EXCEPT !.at = "issue"]) ELSE Finish(t)
  /\ UNCHANGED <<kycVars, issueVars, faults>>

\* A transaction of t's subject, counted in the function f, throws: the call
\* ends, and the transaction may have been applied all the same.
Throws(t, f) ==
  /\ faults < MaxFaults /\ faults' = faults + 1
  /\ Finish(t)
  /\ f' \in {f, [f EXCEPT ![task[t].subject] = More(@)]}

\* StellarService.issueCredential records the progress on Soroban. When the
\* retries are used up issueCredentialFallback submits a credential already.
RecordOrFallBack(t) ==
  /\ task[t].at = "issue"
  /\ \/ /\ Goto(t, [task[t] EXCEPT !.at = "horizon"])
        /\ fallbacks' \in {fallbacks, [fallbacks EXCEPT ![task[t].subject] = More(@)]}
        /\ UNCHANGED faults
     \/ Throws(t, fallbacks)
  /\ UNCHANGED <<kycVars, rows, onLedger, rewarded, contended, issues>>

\* The transaction whose hash issueCredential returns, submitted either way.
MintCredentialViaHorizon(t) ==
  /\ task[t].at = "horizon"
  /\ \/ /\ Goto(t, [task[t] EXCEPT !.at = "reward"])
        /\ onLedger' = [onLedger EXCEPT ![task[t].subject] = More(@)]
        /\ UNCHANGED faults
     \/ Throws(t, onLedger)
  /\ UNCHANGED <<kycVars, rows, fallbacks, rewarded, contended, issues>>

\* A failure to mint is not fatal.
MintReward(t) ==
  /\ task[t].at = "reward"
  /\ Goto(t, [task[t] EXCEPT !.at = "save"])
  /\ rewarded' \in {rewarded, rewarded \cup {task[t].subject}}
  /\ UNCHANGED <<kycVars, rows, onLedger, fallbacks, contended, issues, faults>>

SaveCredential(t) ==
  /\ task[t].at = "save"
  /\ rows' = [rows EXCEPT ![task[t].subject] = More(@)]
  /\ Return(t)
  /\ UNCHANGED <<kycVars, onLedger, fallbacks, rewarded, contended, issues, faults>>

\* The process dies, or the database refuses.
Abort(t) ==
  /\ task[t] # Idle /\ faults < MaxFaults /\ faults' = faults + 1
  /\ Finish(t)
  /\ UNCHANGED <<kycVars, issueVars>>

CredentialNext ==
  \E t \in Task :
    \/ SubmitKyc(t) \/ SaveKyc(t) \/ \E st \in {"pending", "approved", "rejected"} : KycWebhook(t, st)
    \/ \E c \in Course : RequestIssue(t, c)
    \/ FindCredential(t) \/ CheckKyc(t) \/ RecordOrFallBack(t) \/ MintCredentialViaHorizon(t)
    \/ MintReward(t) \/ SaveCredential(t)
    \/ Abort(t)

----------------------------------------------------------------------------
\* Whoever asked for it, and whatever failed in between: a credential row and
\* a reward are backed by a transaction whose hash was returned, and for a
\* course with a KYC gate nothing is on the ledger, not even by the fallback,
\* unless the provider approved the student. Unless two calls overlap, or one
\* died or threw after a transaction, a subject gets one credential in the
\* table and one transaction on the ledger, and beside it one of the fallback
\* at the most.
CredentialsAreSound ==
  \A s \in Subject :
    /\ rows[s] > 0 \/ s \in rewarded => onLedger[s] > 0
    /\ s \in KycCourse /\ (onLedger[s] > 0 \/ fallbacks[s] > 0) => approvedOnce
    /\ s \notin contended /\ faults = 0 => rows[s] < 2 /\ onLedger[s] < 2 /\ fallbacks[s] < 2
============================================================================
