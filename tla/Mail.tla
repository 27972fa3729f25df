-------------------------------- MODULE Mail --------------------------------
(***************************************************************************)
(* EmailService (apps/backend/src/email): mails are rows of a table that   *)
(* every replica works off. A process reads a batch of due rows and sends  *)
(* them one by one; its processing flag keeps it from reading another one  *)
(* meanwhile, but nothing keeps another process from reading the same rows.*)
(* pg_notify, setImmediate and the safety timer all call processQueue,     *)
(* which may therefore start at any time.                                  *)
(***************************************************************************)
EXTENDS Naturals, Sequences, Functions

CONSTANTS
  Letter,         \* ids of queued mails, in the order of createdAt
  Process,        \* replicas of the backend
  NoLetter,       \* no such row (yet)
  MaxSends,       \* MAX_ATTEMPTS
  MailTake,       \* rows processQueue reads
  MaxMailFaults   \* bound: crashes, refused saves and lost answers

LetterRow == [status : {"PENDING", "SENT", "FAILED"}, attempts : 0..MaxSends,
              nextRetryAt : {"null", "later", "due"}]

ASSUME MailAssumption ==
  /\ Letter \subseteq Nat
  /\ {MaxSends, MailTake} \subseteq Nat \ {0}
  /\ MaxMailFaults \in Nat
  /\ NoLetter \notin LetterRow

VARIABLES
  letter,      \* the email_queue table
  batch,       \* per process: copies of the rows it still has to send
  answered,    \* per process: the first of them is sent, or not, but not saved
  sends,       \* history: hand-overs to the mail server, up to MaxSends
  arrived,     \* history: how often the mail server took the mail, up to 2
  overlapped,  \* history: mails two processes had read at the same time
  mailFaults

mailVars == <<letter, batch, answered, sends, arrived, overlapped, mailFaults>>

MailTypeOK ==
  /\ letter \in [Letter -> LetterRow \cup {NoLetter}]
  /\ \A p \in Process : batch[p] \in Seq([id : Letter, row : LetterRow])
  /\ answered \in [Process -> BOOLEAN]
  /\ sends \in [Letter -> 0..MaxSends] /\ arrived \in [Letter -> 0..2]
  /\ overlapped \subseteq Letter /\ mailFaults \in 0..MaxMailFaults

MailInit ==
  /\ letter = [m \in Letter |-> NoLetter]
  /\ batch = [p \in Process |-> <<>>]
  /\ answered = [p \in Process |-> FALSE]
  /\ sends = [m \in Letter |-> 0] /\ arrived = [m \in Letter |-> 0]
  /\ overlapped = {} /\ mailFaults = 0

----------------------------------------------------------------------------
EnqueueMail(m) ==
  /\ letter[m] = NoLetter
  /\ \A k \in Letter : k < m => letter[k] # NoLetter
  /\ letter' = [letter EXCEPT ![m] = [status |-> "PENDING", attempts |-> 0, nextRetryAt |-> "null"]]
  /\ UNCHANGED <<batch, answered, sends, arrived, overlapped, mailFaults>>

\* Faulty variant of Due: the second alternative of the query forgets the status.
DueAnyStatus == {m \in Letter : /\ letter[m] # NoLetter
                                /\ \/ letter[m].status = "PENDING" /\ letter[m].nextRetryAt = "null"
                                   \/ letter[m].nextRetryAt = "due"}

Due == {m \in Letter : /\ letter[m] # NoLetter /\ letter[m].status = "PENDING"
                       /\ letter[m].nextRetryAt \in {"null", "due"}}
HeldBy(p) == {batch[p][i].id : i \in DOMAIN batch[p]}

\* The oldest due rows, unless this process is at it already.
ProcessQueue(p) ==
  /\ batch[p] = <<>>
  /\ \E n \in 1..MailTake : \E ids \in [1..n -> Due] :
       /\ \A i, j \in 1..n : i < j => ids[i] < ids[j]
       /\ \A m \in Due \ Range(ids) : n = MailTake /\ ids[n] < m
       /\ batch' = [batch EXCEPT ![p] = [i \in 1..n |-> [id |-> ids[i], row |-> letter[ids[i]]]]]
       /\ overlapped' = overlapped \cup {m \in Range(ids) : \E q \in Process \ {p} : m \in HeldBy(q)}
  /\ UNCHANGED <<letter, answered, sends, arrived, mailFaults>>

\* Faulty variant of Verdict: a mail is never given up.
VerdictForever(row, ok) ==
  IF ok THEN [row EXCEPT !.attempts = @ + 1, !.status = "SENT"]
  ELSE [row EXCEPT !.nextRetryAt = "later"]

\* What sendJob makes of the row.
Verdict(row, ok) ==
  LET n == row.attempts + 1
  IN  IF ok THEN [row EXCEPT !.attempts = n, !.status = "SENT"]
      ELSE IF n >= MaxSends THEN [row EXCEPT !.attempts = n, !.status = "FAILED"]
      ELSE [row EXCEPT !.attempts = n, !.nextRetryAt = "later"]

\* sendMail resolves or throws. It may throw although the mail was taken.
SendJob(p) ==
  /\ batch[p] # <<>> /\ ~answered[p]
  /\ answered' = [answered EXCEPT ![p] = TRUE]
  /\ \E took, ok \in BOOLEAN :
       LET m == Head(batch[p]).id
       IN  /\ ok => took
           /\ took /\ ~ok => mailFaults < MaxMailFaults
           /\ mailFaults' = IF took /\ ~ok THEN mailFaults + 1 ELSE mailFaults
           /\ batch' = [batch EXCEPT ![p][1].row = Verdict(@, ok)]
           /\ sends' = [sends EXCEPT ![m] = IF @ < MaxSends THEN @ + 1 ELSE @]
           /\ arrived' = [arrived EXCEPT ![m] = IF took /\ @ < 2 THEN @ + 1 ELSE @]
  /\ UNCHANGED <<letter, overlapped>>

SaveLetter(p) ==
  /\ answered[p]
  /\ answered' = [answered EXCEPT ![p] = FALSE]
  /\ letter' = [letter EXCEPT ![Head(batch[p]).id] = Head(batch[p]).row]
  /\ batch' = [batch EXCEPT ![p] = Tail(@)]
  /\ UNCHANGED <<sends, arrived, overlapped, mailFaults>>

\* The process dies, or a save rejects: the rest of the batch is let go, and
\* the finally clause, or the new process, clears the flag.
DropBatch(p) ==
  /\ batch[p] # <<>>
  /\ mailFaults < MaxMailFaults /\ mailFaults' = mailFaults + 1
  /\ batch' = [batch EXCEPT ![p] = <<>>]
  /\ answered' = [answered EXCEPT ![p] = FALSE]
  /\ UNCHANGED <<letter, sends, arrived, overlapped>>

\* nextRetryAt has passed.
MailFallsDue(m) ==
  /\ letter[m] # NoLetter /\ letter[m].status = "PENDING" /\ letter[m].nextRetryAt = "later"
  /\ letter' = [letter EXCEPT ![m].nextRetryAt = "due"]
  /\ UNCHANGED <<batch, answered, sends, arrived, overlapped, mailFaults>>

MailNext ==
  \/ \E m \in Letter : EnqueueMail(m) \/ MailFallsDue(m)
  \/ \E p \in Process : ProcessQueue(p) \/ SendJob(p) \/ SaveLetter(p) \/ DropBatch(p)

\* The safety timer fires, the mail server answers or times out, time passes.
MailFairness ==
  /\ \A m \in Letter : WF_mailVars(MailFallsDue(m))
  /\ \A p \in Process : WF_mailVars(ProcessQueue(p)) /\ WF_mailVars(SendJob(p) \/ SaveLetter(p))

MailOutbox == INSTANCE Outbox WITH
  Item <- Letter,
  MaxAttempts <- MaxSends,
  status <- [m \in Letter |->
               IF letter[m] = NoLetter THEN "none"
               ELSE [PENDING |-> "pending", SENT |-> "done", FAILED |-> "given_up"][letter[m].status]],
  tries <- sends,
  taken <- [m \in Letter |-> arrived[m] > 0]

\* Every mail reaches a verdict that stays: the copies other processes hold
\* may put it back for a while, but not for ever.
MailsSettle ==
  \A m \in Letter : <>[](letter[m] # NoLetter => letter[m].status \in {"SENT", "FAILED"})

\* A mail is received twice only if two processes had read it at the same
\* time, a process died or a save was refused after it was sent, or the mail
\* server's answer was lost.
SentOnceAlone ==
  \A m \in Letter : arrived[m] > 1 => m \in overlapped \/ mailFaults > 0
=============================================================================
