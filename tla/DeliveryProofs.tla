--------------------------- MODULE DeliveryProofs ---------------------------
(***************************************************************************)
(* Safety of what reaches somebody else: for any number of replicas, runs, *)
(* rows, members and reports, whatever fails.                              *)
(*                                                                         *)
(* What these services have in common is that they work on copies of what  *)
(* they read. The inductive invariants say what a copy still tells of the  *)
(* item: that a row, in the table or in a copy, never claims more than has *)
(* happened (LetterTells, DeliveryTells), and that a poll, a sync or a run *)
(* has dealt with whatever it no longer lists.                             *)
(***************************************************************************)
EXTENDS Delivery, WellFoundedInduction, TLAPS

----------------------------------------------------------------------------
(* The indexer.                                                            *)

Processed == handled \cup failed \cup cut

\* What a poll has passed was dealt with, or is on its list.
PollIsHonest(p) ==
  /\ poll[p].since <= closed /\ poll[p].latest <= closed
  /\ poll[p].events \subseteq transfers
  /\ poll[p].at # "handle" => poll[p].events = {}
  /\ \A l \in transfers : l < poll[p].since => l \in Processed
  /\ poll[p].at = "handle" =>
       \A l \in transfers : l <= poll[p].latest => l \in poll[p].events \cup Processed

IndexerInv ==
  /\ IndexerTypeOK
  /\ NoEventIsSkipped
  /\ cursor <= closed /\ \A l \in transfers : l <= closed
  /\ \A p \in Poller : PollIsHonest(p)

----------------------------------------------------------------------------
(* Progress made offline.                                                  *)

In(r, list) == \E i \in DOMAIN list : list[i] = r

\* A sync that nothing has interfered with is alone, and what is on the list
\* has been posted, is to be posted, or will be put back.
SyncIsAlone == \A s, t \in Sync : sync[s].active /\ sync[t].active => s = t

SyncIsComplete ==
  \A s \in Sync : sync[s].active =>
    \A r \in Report : In(r, pending) =>
      r \in reached \/ In(r, sync[s].todo) \/ In(r, sync[s].remaining)

SyncRecord == [active : BOOLEAN, todo : Seq(Report), remaining : Seq(Report)]

OfflineInv ==
  /\ OfflineTypeOK
  /\ sync \in [Sync -> SyncRecord]
  /\ \A s \in Sync : ~sync[s].active => sync[s].todo = <<>>
  /\ ReportsSurvive
  /\ ~syncRaced => SyncIsAlone /\ SyncIsComplete

----------------------------------------------------------------------------
(* Live sessions.                                                          *)

Active(w) == sweep[w].row # NoSession

\* A label a row lists was mailed to everybody.
ListsOnlySent(row) ==
  row # NoSession => \A l \in row.sent, m \in Member : mailed[<<l, m>>] > 0

SweepIsHonest(w) ==
  /\ Active(w) <=> sweep[w] # Resting
  /\ Active(w) => /\ sweep[w].labels # <<>>
                  /\ \A m \in Member \ sweep[w].todo : mailed[<<Head(sweep[w].labels), m>>] > 0

\* Without a race there is one run at a time, no request during a run, and
\* every copy lists the labels the row lists.
OneAtATime ==
  /\ \A w, v \in Sweeper : Active(w) /\ Active(v) => w = v
  /\ \A w \in Sweeper : Active(w) =>
       /\ session # NoSession /\ sweep[w].row.sent = session.sent
       /\ Head(sweep[w].labels) \notin session.sent
       /\ \A e \in Editor : request[e] = NoSession
  /\ \A e \in Editor : request[e] # NoSession =>
       session # NoSession /\ request[e].sent = session.sent

\* Nobody was mailed a label but by the run that is about to list it, or by one
\* that has; and nobody twice.
MailedOnce ==
  \A l \in Label, m \in Member :
    /\ mailed[<<l, m>>] < 2
    /\ mailed[<<l, m>>] > 0 =>
         \/ session # NoSession /\ l \in session.sent
         \/ \E w \in Sweeper : /\ Active(w) /\ Head(sweep[w].labels) = l
                               /\ m \notin sweep[w].todo

SessionInv ==
  /\ SessionTypeOK
  /\ ListsOnlySent(session)
  /\ \A w \in Sweeper : SweepIsHonest(w) /\ ListsOnlySent(sweep[w].row)
  /\ \A e \in Editor : ListsOnlySent(request[e])
  /\ ~raced => OneAtATime /\ MailedOnce

----------------------------------------------------------------------------
(* Batch jobs.                                                             *)

\* What a run has counted.
RunCounts(j) ==
  run[j] # NoJob =>
    /\ job[j] # NoJob
    /\ run[j].ok + run[j].bad <= Items
    /\ run[j].at \in {"queued", "items"} => run[j].ok + run[j].bad < Items
    /\ run[j].at = "verdict" => run[j].ok + run[j].bad = Items

\* A verdict accounts for all items of the job and is the last word of its run.
VerdictAccounts(j) ==
  job[j] # NoJob /\ job[j].status \in {"completed", "failed"} => Accounted(j) /\ run[j] = NoJob

BatchInv ==
  /\ BatchTypeOK
  /\ \A j \in stuck : job[j] # NoJob
  /\ \A j \in Job : RunCounts(j) /\ VerdictAccounts(j)

----------------------------------------------------------------------------
(* Mail.                                                                   *)

\* A row of a mail, in the table or in a copy, claims no attempt that was not
\* made, no success that was not one, and gives up only after all attempts.
LetterTells(m, row) ==
  /\ row.attempts <= sends[m]
  /\ row.status = "PENDING" => row.attempts < MaxSends
  /\ row.status = "SENT" => arrived[m] > 0
  /\ row.status = "FAILED" => row.attempts = MaxSends

CopyTells(p, i) ==
  LET c == batch[p][i]
  IN  /\ letter[c.id] # NoLetter
      /\ LetterTells(c.id, c.row)
      /\ c.row.status = "PENDING" \/ (i = 1 /\ answered[p])

\* A mail that was never read twice and with which nothing has failed: one copy
\* at most, and if it has arrived then once, and the row or the copy says so.
HeldOnce(m) ==
  \A p, q \in Process : \A i \in DOMAIN batch[p], j \in DOMAIN batch[q] :
    batch[p][i].id = m /\ batch[q][j].id = m => p = q /\ i = j

SaysArrived(m) ==
  \/ letter[m] # NoLetter /\ letter[m].status = "SENT" /\ \A p \in Process : m \notin HeldBy(p)
  \/ \E p \in Process : /\ answered[p] /\ batch[p] # <<>> /\ batch[p][1].id = m
                        /\ batch[p][1].row.status = "SENT"

Undisturbed(m) ==
  m \notin overlapped /\ mailFaults = 0 =>
    HeldOnce(m) /\ arrived[m] < 2 /\ (arrived[m] > 0 => SaysArrived(m))

MailInv ==
  /\ MailTypeOK
  /\ batch \in [Process -> Seq([id : Letter, row : LetterRow])]
  /\ \A m \in Letter : letter[m] # NoLetter => LetterTells(m, letter[m])
  /\ \A p \in Process : \A i \in DOMAIN batch[p] : CopyTells(p, i)
  /\ \A p \in Process : answered[p] => batch[p] # <<>>
  /\ \A m \in Letter : Undisturbed(m)

----------------------------------------------------------------------------
(* Webhooks.                                                               *)

DeliveryTells(d, row) ==
  /\ row.attempts <= posts[d]
  /\ row.status = "PENDING" => row.attempts < MaxPosts
  /\ row.status = "SUCCESS" => d \in acked
  /\ row.status = "FAILED" => row.attempts = MaxPosts

WebhookInv ==
  /\ WebhookTypeOK
  /\ lane \in [Lane -> SUBSET Copy]
  /\ \A d \in Delivery : delivery[d] # NoDelivery => DeliveryTells(d, delivery[d])
  /\ \A i \in DOMAIN queue : delivery[queue[i]] # NoDelivery
  /\ \A l \in Lane : \A c \in lane[l] :
       /\ delivery[c.id] # NoDelivery
       /\ DeliveryTells(c.id, c.row)
       /\ c.at = "post" => c.row.status = "PENDING"

----------------------------------------------------------------------------
(* Proofs: the indexer.                                                    *)

LEMMA MinIsMember ==
  ASSUME NEW S \in SUBSET Nat, S # {}
  PROVE  Min(S) \in S
<1>1. PICK n \in S : \A m \in S : ~(<<m, n>> \in OpToRel(<, Nat))
  BY NatLessThanWellFounded, WFMin
<1>2. ASSUME NEW m \in S PROVE n <= m
  <2>1. m \in Nat /\ n \in Nat
    OBVIOUS
  <2>2. ~(m < n)
    BY <1>1, <2>1 DEF OpToRel
  <2> QED
    BY <2>1, <2>2
<1> QED
  BY <1>2 DEF Min

\* Time, transfers and what was processed only go on; who does nothing else
\* keeps the promises of every poll.
LEMMA PollsStay ==
  ASSUME IndexerInv, IndexerTypeOK', NEW p \in Poller, poll'[p] = poll[p],
         closed <= closed', transfers \subseteq transfers',
         \A l \in transfers' : l \in transfers \/ l > closed,
         Processed \subseteq Processed'
  PROVE  PollIsHonest(p)'
<1>1. PollIsHonest(p)
  BY DEF IndexerInv
<1>2. /\ closed \in Nat /\ closed' \in Nat /\ transfers' \subseteq Nat
      /\ poll[p].since \in Nat /\ poll[p].latest \in Nat
  BY IndexerAssumption DEF IndexerInv, IndexerTypeOK, Ledger
<1>3. \A l \in transfers' : l \in transfers \/ (l > poll[p].since /\ l > poll[p].latest)
  <2>1. poll[p].since <= closed /\ poll[p].latest <= closed
    BY <1>1 DEF PollIsHonest
  <2> QED
    BY <1>2, <2>1
<1>4. poll[p].since <= closed' /\ poll[p].latest <= closed'
  BY <1>1, <1>2 DEF PollIsHonest
<1>5. \A l \in transfers' : l < poll[p].since => l \in Processed'
  BY <1>1, <1>2, <1>3 DEF PollIsHonest
<1>6. poll[p].at = "handle" =>
        \A l \in transfers' : l <= poll[p].latest => l \in poll[p].events \cup Processed'
  BY <1>1, <1>2, <1>3 DEF PollIsHonest
<1> QED
  BY <1>1, <1>4, <1>5, <1>6 DEF PollIsHonest

LEMMA CloseLedgerStep ==
  ASSUME IndexerInv, CloseLedger
  PROVE  IndexerInv'
<1> USE IndexerAssumption
<1>1. closed \in Nat /\ closed >= 1 /\ MaxLedger \in Nat
  BY DEF IndexerInv, IndexerTypeOK, Ledger
<1>2. transfers' \subseteq transfers \cup {closed'} /\ transfers \subseteq transfers'
      /\ closed' = closed + 1 /\ closed < MaxLedger
      /\ UNCHANGED <<indexing, cursor, poll, handled, failed, cut, cached, reading, pollFaults>>
  BY DEF CloseLedger
<1>3. IndexerTypeOK'
  <2>1. closed' \in Ledger /\ transfers' \subseteq Ledger
    BY <1>1, <1>2 DEF Ledger, IndexerInv, IndexerTypeOK
  <2> QED
    BY <1>2, <2>1 DEF IndexerInv, IndexerTypeOK
<1>4. Processed' = Processed
  BY <1>2 DEF Processed
<1>5. \A p \in Poller : PollIsHonest(p)'
  BY <1>1, <1>2, <1>3, <1>4, PollsStay
<1>6. cursor \in Nat /\ cursor <= closed /\ \A l \in transfers : l <= closed
  BY DEF IndexerInv, IndexerTypeOK
<1>7. NoEventIsSkipped'
  BY <1>1, <1>2, <1>6 DEF NoEventIsSkipped, IndexerInv
<1>8. cursor' <= closed' /\ \A l \in transfers' : l <= closed'
  <2>1. transfers \subseteq Nat
    BY DEF IndexerInv, IndexerTypeOK, Ledger
  <2> QED
    BY <1>1, <1>2, <1>6, <2>1
<1> QED
  BY <1>3, <1>5, <1>7, <1>8 DEF IndexerInv

\* The steps of a poll leave time and transfers alone.
LEMMA PollStep ==
  ASSUME IndexerInv, IndexerTypeOK', NEW p \in Poller,
         UNCHANGED <<closed, transfers>>, Processed \subseteq Processed',
         \A q \in Poller \ {p} : poll'[q] = poll[q],
         PollIsHonest(p)', NoEventIsSkipped', cursor' <= closed
  PROVE  IndexerInv'
<1>1. closed \in Nat
  BY IndexerAssumption DEF IndexerInv, IndexerTypeOK, Ledger
<1>2. \A q \in Poller \ {p} : PollIsHonest(q)'
  BY <1>1, PollsStay
<1> QED
  BY <1>2 DEF IndexerInv

LEMMA StartPollStep ==
  ASSUME IndexerInv, NEW p \in Poller, StartPoll(p)
  PROVE  IndexerInv'
<1>1. PICK new : new = [NoPoll EXCEPT !.at = "fetch", !.since = cursor]
  OBVIOUS
<1>2. cursor \in 0..MaxLedger /\ 0 \in 0..MaxLedger
  BY IndexerAssumption DEF IndexerInv, IndexerTypeOK
<1>3. /\ poll' = [poll EXCEPT ![p] = new]
      /\ UNCHANGED <<indexing, closed, transfers, cursor, handled, failed, cut, cached, reading, pollFaults>>
  BY <1>1 DEF StartPoll
<1>4. /\ new \in [at : {"idle", "fetch", "handle"}, since : 0..MaxLedger,
                  events : SUBSET Ledger, latest : 0..MaxLedger]
      /\ new.at = "fetch" /\ new.since = cursor /\ new.events = {} /\ new.latest = 0
  BY <1>1, <1>2 DEF NoPoll
<1>5. IndexerTypeOK'
  BY <1>3, <1>4 DEF IndexerInv, IndexerTypeOK
<1>6. poll'[p] = new /\ \A q \in Poller \ {p} : poll'[q] = poll[q]
  BY <1>3 DEF IndexerInv, IndexerTypeOK
<1>7. Processed' = Processed
  BY <1>3 DEF Processed
<1>8. NoEventIsSkipped'
  BY <1>3 DEF NoEventIsSkipped, IndexerInv
<1>9. PollIsHonest(p)'
  <2>1. 0 <= closed /\ cursor <= closed
    BY IndexerAssumption DEF IndexerInv, IndexerTypeOK, Ledger
  <2>2. \A l \in transfers : l < cursor => l \in Processed
    BY DEF IndexerInv, NoEventIsSkipped, Processed
  <2> QED
    BY <1>3, <1>4, <1>6, <1>7, <2>1, <2>2 DEF PollIsHonest
<1>10. cursor' <= closed
  BY <1>3 DEF IndexerInv
<1> QED
  BY <1>3, <1>5, <1>6, <1>7, <1>8, <1>9, <1>10, PollStep

LEMMA FetchEventsStep ==
  ASSUME IndexerInv, NEW p \in Poller, FetchEvents(p)
  PROVE  IndexerInv'
<1>1. PICK page : page = Page(poll[p].since)
  OBVIOUS
<1>2. page \subseteq transfers
  BY <1>1 DEF Page
<1>3. /\ poll' = [poll EXCEPT ![p] = [@ EXCEPT !.at = "handle", !.events = page, !.latest = closed]]
      /\ cut' = cut \cup ({l \in transfers : l >= poll[p].since} \ page)
      /\ UNCHANGED <<indexing, closed, transfers, cursor, handled, failed, cached, reading, pollFaults>>
  BY <1>1 DEF FetchEvents
<1>4. /\ closed \in 0..MaxLedger /\ closed \in Nat
      /\ transfers \subseteq Ledger /\ transfers \subseteq Nat
      /\ poll[p].since \in Nat /\ poll[p].since \in 0..MaxLedger
  BY IndexerAssumption DEF IndexerInv, IndexerTypeOK, Ledger
<1>5. poll'[p] = [at |-> "handle", since |-> poll[p].since, events |-> page, latest |-> closed]
  BY <1>3 DEF IndexerInv, IndexerTypeOK
<1>6. \A q \in Poller \ {p} : poll'[q] = poll[q]
  BY <1>3 DEF IndexerInv, IndexerTypeOK
<1>7. IndexerTypeOK'
  <2>1. poll' \in [Poller -> [at : {"idle", "fetch", "handle"}, since : 0..MaxLedger,
                             events : SUBSET Ledger, latest : 0..MaxLedger]]
    <3>1. PICK new : new = poll'[p]
      OBVIOUS
    <3>2. new \in [at : {"idle", "fetch", "handle"}, since : 0..MaxLedger,
                   events : SUBSET Ledger, latest : 0..MaxLedger]
      BY <1>2, <1>4, <1>5, <3>1
    <3>3. poll' = [poll EXCEPT ![p] = new]
      BY <1>3, <3>1 DEF IndexerInv, IndexerTypeOK
    <3> QED
      BY <3>2, <3>3 DEF IndexerInv, IndexerTypeOK
  <2> QED
    BY <1>3, <2>1 DEF IndexerInv, IndexerTypeOK
<1>8. Processed \subseteq Processed'
  BY <1>3 DEF Processed
<1>9. NoEventIsSkipped'
  BY <1>3 DEF NoEventIsSkipped, IndexerInv
<1>10. PollIsHonest(p)'
  <2>1. PollIsHonest(p)
    BY DEF IndexerInv
  <2>2. \A l \in transfers : l < poll[p].since => l \in Processed'
    BY <1>8, <2>1 DEF PollIsHonest
  <2>3. \A l \in transfers : l >= poll[p].since => l \in page \cup Processed'
    BY <1>3 DEF Processed
  <2>4. \A l \in transfers : l \in page \cup Processed'
    BY <1>4, <2>2, <2>3
  <2>5. poll[p].since <= closed /\ closed <= closed
    BY <1>4, <2>1 DEF PollIsHonest
  <2> QED
    BY <1>2, <1>3, <1>5, <2>2, <2>4, <2>5 DEF PollIsHonest
<1>11. cursor' <= closed
  BY <1>3 DEF IndexerInv
<1> QED
  BY <1>3, <1>6, <1>7, <1>8, <1>9, <1>10, <1>11, PollStep

LEMMA HandleEventStep ==
  ASSUME IndexerInv, NEW p \in Poller, HandleEvent(p)
  PROVE  IndexerInv'
<1>1. PollIsHonest(p)
  BY DEF IndexerInv
<1>2. PICK l \in poll[p].events : l = Min(poll[p].events)
  <2>1. poll[p].events \subseteq Nat /\ poll[p].events # {}
    BY <1>1, IndexerAssumption DEF HandleEvent, PollIsHonest, IndexerInv, IndexerTypeOK, Ledger
  <2> QED
    BY <2>1, MinIsMember
<1>3. l \in transfers
  BY <1>1, <1>2 DEF PollIsHonest
<1>4. /\ poll' = [poll EXCEPT ![p].events = @ \ {l}]
      /\ UNCHANGED <<indexing, closed, transfers, cursor, cut, reading>>
  BY <1>2 DEF HandleEvent
<1>5. /\ handled' \cup failed' = handled \cup failed \cup {l}
      /\ cached' \in {0, cached} /\ pollFaults' \in 0..MaxPollFaults
  BY <1>2, IndexerAssumption DEF HandleEvent, IndexerInv, IndexerTypeOK
<1>6. poll'[p] = [poll[p] EXCEPT !.events = @ \ {l}] /\ \A q \in Poller \ {p} : poll'[q] = poll[q]
  BY <1>4 DEF IndexerInv, IndexerTypeOK
<1>7. IndexerTypeOK'
  <2>1. poll' \in [Poller -> [at : {"idle", "fetch", "handle"}, since : 0..MaxLedger,
                             events : SUBSET Ledger, latest : 0..MaxLedger]]
    BY <1>4 DEF IndexerInv, IndexerTypeOK
  <2>2. handled' \subseteq transfers /\ failed' \subseteq transfers
    BY <1>3, <1>5 DEF IndexerInv, IndexerTypeOK
  <2>3. cached' \in 0..MaxLedger
    BY <1>5, IndexerAssumption DEF IndexerInv, IndexerTypeOK
  <2> QED
    BY <1>4, <1>5, <2>1, <2>2, <2>3 DEF IndexerInv, IndexerTypeOK
<1>8. Processed' = Processed \cup {l}
  BY <1>4, <1>5 DEF Processed
<1>9. NoEventIsSkipped'
  BY <1>4, <1>5 DEF NoEventIsSkipped, IndexerInv
<1>10. PollIsHonest(p)'
  <2>1. /\ poll'[p].since = poll[p].since /\ poll'[p].latest = poll[p].latest
        /\ poll'[p].at = poll[p].at /\ poll'[p].events = poll[p].events \ {l}
    BY <1>6 DEF IndexerInv, IndexerTypeOK
  <2> QED
    BY <1>1, <1>4, <1>8, <2>1 DEF PollIsHonest
<1>11. cursor' <= closed
  BY <1>4 DEF IndexerInv
<1> QED
  BY <1>4, <1>6, <1>7, <1>8, <1>9, <1>10, <1>11, PollStep

LEMMA EndPollStep ==
  ASSUME IndexerInv, NEW p \in Poller, SaveCursor(p) \/ DropPoll(p)
  PROVE  IndexerInv'
<1>1. PollIsHonest(p)
  BY DEF IndexerInv
<1>2. /\ poll' = [poll EXCEPT ![p] = NoPoll] /\ pollFaults' \in 0..MaxPollFaults
      /\ UNCHANGED <<indexing, closed, transfers, handled, failed, cut, cached, reading>>
  BY IndexerAssumption DEF SaveCursor, DropPoll, IndexerInv, IndexerTypeOK
<1>3. poll'[p] = NoPoll /\ \A q \in Poller \ {p} : poll'[q] = poll[q]
  BY <1>2 DEF IndexerInv, IndexerTypeOK
<1>4. /\ cursor \in 0..MaxLedger /\ cursor <= closed /\ closed \in Nat /\ poll[p].latest \in 0..MaxLedger
      /\ transfers \subseteq Nat
  BY IndexerAssumption DEF IndexerInv, IndexerTypeOK, Ledger
<1>5. \/ cursor' = cursor
      \/ cursor' = poll[p].latest /\ poll[p].at = "handle" /\ poll[p].events = {}
  BY DEF SaveCursor, DropPoll
<1>6. cursor' \in 0..MaxLedger /\ cursor' <= closed
  BY <1>1, <1>4, <1>5 DEF PollIsHonest
<1>7. IndexerTypeOK'
  <2>1. NoPoll \in [at : {"idle", "fetch", "handle"}, since : 0..MaxLedger,
                    events : SUBSET Ledger, latest : 0..MaxLedger]
    BY IndexerAssumption DEF NoPoll
  <2> QED
    BY <1>2, <1>6, <2>1 DEF IndexerInv, IndexerTypeOK
<1>8. Processed' = Processed
  BY <1>2 DEF Processed
<1>9. NoEventIsSkipped'
  <2>1. CASE cursor' = cursor
    BY <1>2, <2>1 DEF NoEventIsSkipped, IndexerInv
  <2>2. CASE cursor' = poll[p].latest /\ poll[p].at = "handle" /\ poll[p].events = {}
    <3>1. \A l \in transfers : l <= poll[p].latest => l \in Processed
      BY <1>1, <2>2 DEF PollIsHonest
    <3>2. \A l \in transfers : l < cursor' => l \in Processed
      BY <1>4, <2>2, <3>1
    <3> QED
      BY <1>2, <3>2 DEF NoEventIsSkipped, Processed
  <2> QED
    BY <1>5, <2>1, <2>2
<1>10. PollIsHonest(p)'
  BY <1>2, <1>3, <1>4 DEF PollIsHonest, NoPoll
<1> QED
  BY <1>2, <1>3, <1>6, <1>7, <1>8, <1>9, <1>10, PollStep

LEMMA IndexerStep == IndexerInv /\ [IndexerNext]_indexerVars => IndexerInv'
<1> SUFFICES ASSUME IndexerInv, [IndexerNext]_indexerVars PROVE IndexerInv'
  OBVIOUS
<1>1. ASSUME UNCHANGED <<indexing, closed, transfers, cursor, poll, handled, failed, cut>>,
             IndexerTypeOK'
      PROVE  IndexerInv'
  BY <1>1 DEF IndexerInv, NoEventIsSkipped, PollIsHonest, Processed
<1>2. CASE UNCHANGED indexerVars
  BY <1>1, <1>2 DEF indexerVars, IndexerInv, IndexerTypeOK
<1>3. CASE ExpireBalance
  <2>1. 0 \in 0..MaxLedger
    BY IndexerAssumption
  <2> QED
    BY <1>1, <1>3, <2>1 DEF ExpireBalance, IndexerInv, IndexerTypeOK
<1>4. ASSUME NEW r \in Reader, ReadBalance(r) \/ FillCache(r) PROVE IndexerInv'
  <2>1. 0 \in 0..MaxLedger /\ Ledger \subseteq 0..MaxLedger
    BY IndexerAssumption DEF Ledger
  <2>2. IndexerTypeOK'
    BY <1>4, <2>1 DEF ReadBalance, FillCache, IndexerInv, IndexerTypeOK
  <2> QED
    BY <1>1, <1>4, <2>2 DEF ReadBalance, FillCache
<1>5. CASE CloseLedger
  BY <1>5, CloseLedgerStep
<1>6. ASSUME NEW p \in Poller,
             StartPoll(p) \/ FetchEvents(p) \/ HandleEvent(p) \/ SaveCursor(p) \/ DropPoll(p)
      PROVE  IndexerInv'
  BY <1>6, StartPollStep, FetchEventsStep, HandleEventStep, EndPollStep
<1> QED
  BY <1>2, <1>3, <1>4, <1>5, <1>6 DEF IndexerNext

LEMMA IndexerStart == IndexerInit => IndexerInv
<1> SUFFICES ASSUME IndexerInit PROVE IndexerInv
  OBVIOUS
<1>1. 0 \in 0..MaxLedger /\ 1 \in Ledger /\ 0 \in 0..MaxPollFaults
  BY IndexerAssumption DEF Ledger
<1>2. NoPoll \in [at : {"idle", "fetch", "handle"}, since : 0..MaxLedger,
                  events : SUBSET Ledger, latest : 0..MaxLedger]
  BY <1>1 DEF NoPoll
<1>3. IndexerTypeOK
  BY <1>1, <1>2 DEF IndexerInit, IndexerTypeOK
<1>4. \A p \in Poller : PollIsHonest(p)
  BY DEF IndexerInit, PollIsHonest, NoPoll
<1> QED
  BY <1>3, <1>4 DEF IndexerInit, IndexerInv, NoEventIsSkipped

----------------------------------------------------------------------------
(* Proofs: progress made offline.                                          *)

USE OfflineAssumption

LEMMA InAppend ==
  ASSUME NEW S, NEW list \in Seq(S), NEW r \in S
  PROVE  /\ Append(list, r) \in Seq(S)
         /\ In(r, Append(list, r))
         /\ \A x : In(x, list) => In(x, Append(list, r))
         /\ \A x : In(x, Append(list, r)) => In(x, list) \/ x = r
<1>1. /\ Append(list, r) \in Seq(S) /\ Len(Append(list, r)) = Len(list) + 1
      /\ Append(list, r)[Len(list) + 1] = r
      /\ \A i \in 1..Len(list) : Append(list, r)[i] = list[i]
      /\ DOMAIN list = 1..Len(list) /\ Len(list) \in Nat
      /\ DOMAIN Append(list, r) = 1..(Len(list) + 1)
  OBVIOUS
<1> HIDE DEF In
<1>2. In(r, Append(list, r))
  BY <1>1 DEF In
<1>3. \A x : In(x, list) => In(x, Append(list, r))
  <2>1. \A i \in 1..Len(list) : i \in 1..(Len(list) + 1)
    BY <1>1
  <2> QED
    BY <1>1, <2>1, Zenon DEF In
<1>4. \A x : In(x, Append(list, r)) => In(x, list) \/ x = r
  <2>1. \A i \in 1..(Len(list) + 1) : i \in 1..Len(list) \/ i = Len(list) + 1
    BY <1>1
  <2> QED
    BY <1>1, <2>1, Zenon DEF In
<1> QED
  BY <1>1, <1>2, <1>3, <1>4

LEMMA InTail ==
  ASSUME NEW S, NEW list \in Seq(S), list # <<>>
  PROVE  /\ Head(list) \in S /\ Tail(list) \in Seq(S)
         /\ \A x : In(x, list) => x = Head(list) \/ In(x, Tail(list))
<1>1. /\ Head(list) \in S /\ Tail(list) \in Seq(S) /\ Head(list) = list[1]
      /\ DOMAIN list = 1..Len(list) /\ Len(list) \in Nat
      /\ DOMAIN Tail(list) = 1..(Len(list) - 1)
      /\ \A i \in 1..(Len(list) - 1) : Tail(list)[i] = list[i + 1]
  OBVIOUS
<1>2. ASSUME NEW i \in 1..Len(list), i # 1
      PROVE  i - 1 \in 1..(Len(list) - 1) /\ Tail(list)[i - 1] = list[i]
  <2>1. i - 1 \in 1..(Len(list) - 1) /\ (i - 1) + 1 = i
    BY <1>1, <1>2
  <2> QED
    BY <1>1, <2>1
<1>3. ASSUME NEW x, In(x, list) PROVE x = Head(list) \/ In(x, Tail(list))
  <2>1. PICK i \in 1..Len(list) : list[i] = x
    BY <1>1, <1>3 DEF In
  <2>2. CASE i = 1
    BY <1>1, <2>1, <2>2
  <2>3. CASE i # 1
    BY <1>1, <1>2, <2>1, <2>3 DEF In
  <2> QED
    BY <2>2, <2>3
<1> QED
  BY <1>1, <1>3

LEMMA NothingInEmpty == \A x : ~In(x, <<>>)
BY DEF In

\* ReportsSurvive with the list as one of In.
Somewhere(r) == r \in reached \cup posting \cup abandoned \/ In(r, pending)

LEMMA SurvivalForm == ReportsSurvive <=> syncRaced \/ \A r \in 1..made : Somewhere(r)
BY DEF ReportsSurvive, Somewhere, Listed, In

LEMMA SyncFields ==
  ASSUME NEW f \in [Sync -> SyncRecord], NEW s \in Sync
  PROVE  /\ f[s].active \in BOOLEAN
         /\ f[s].todo \in Seq(Report) /\ f[s].remaining \in Seq(Report)
<1> DEFINE Q == Seq(Report)
<1>1. f \in [Sync -> [active : BOOLEAN, todo : Q, remaining : Q]]
  BY DEF SyncRecord
<1> HIDE DEF Q
<1>2. f[s].active \in BOOLEAN /\ f[s].todo \in Q /\ f[s].remaining \in Q
  BY <1>1
<1> QED
  BY <1>2 DEF Q

\* What is left to show of a step.
LEMMA OfflineFinish ==
  ASSUME /\ online' \in BOOLEAN /\ syncRaced' \in BOOLEAN /\ made' \in 0..MaxReports
         /\ posting' \subseteq Report /\ reached' \subseteq Report /\ abandoned' \subseteq Report
         /\ pending' \in Seq(Report) /\ sync' \in [Sync -> SyncRecord],
         \A s \in Sync : ~sync'[s].active => sync'[s].todo = <<>>,
         ~syncRaced' => /\ \A r \in 1..made' : Somewhere(r)'
                        /\ SyncIsAlone' /\ SyncIsComplete'
  PROVE  OfflineInv'
<1>1. \A s \in Sync : sync'[s].todo \in Seq(Report) /\ sync'[s].remaining \in Seq(Report)
  BY SyncFields
<1>2. OfflineTypeOK'
  BY <1>1 DEF OfflineTypeOK
<1>3. ReportsSurvive'
  BY DEF ReportsSurvive, Somewhere, Listed, In
<1> QED
  BY <1>2, <1>3 DEF OfflineInv

\* What there is to start from.
LEMMA OfflineFacts ==
  ASSUME OfflineInv
  PROVE  /\ online \in BOOLEAN /\ syncRaced \in BOOLEAN /\ made \in 0..MaxReports
         /\ posting \subseteq Report /\ reached \subseteq Report /\ abandoned \subseteq Report
         /\ pending \in Seq(Report) /\ sync \in [Sync -> SyncRecord]
         /\ \A s \in Sync : ~sync[s].active => sync[s].todo = <<>>
         /\ ~syncRaced => /\ \A r \in 1..made : Somewhere(r)
                          /\ SyncIsAlone /\ SyncIsComplete
BY SurvivalForm DEF OfflineInv, OfflineTypeOK

\* The list is added to: nothing is lost, and a sync that is under way has
\* been interfered with.
LEMMA AddedToList ==
  ASSUME OfflineInv, NEW r \in Report, pending' = Append(pending, r),
         syncRaced' = (syncRaced \/ Syncing), sync' = sync,
         reached \subseteq reached', reached' \subseteq Report,
         abandoned \subseteq abandoned', abandoned' \subseteq Report,
         posting \subseteq posting' \cup {r}, posting' \subseteq Report,
         online' \in BOOLEAN, made' \in 0..MaxReports,
         \A k \in 1..made' : k \in 1..made \/ k = r
  PROVE  OfflineInv'
<1>1. /\ pending' \in Seq(Report) /\ In(r, pending')
      /\ \A k : In(k, pending) => In(k, pending')
  BY OfflineFacts, InAppend
<1>2. syncRaced' \in BOOLEAN
  BY OfflineFacts DEF Syncing
<1>3. \A s \in Sync : ~sync'[s].active => sync'[s].todo = <<>>
  BY OfflineFacts
<1>4. ASSUME ~syncRaced'
      PROVE  /\ \A k \in 1..made' : Somewhere(k)'
             /\ SyncIsAlone' /\ SyncIsComplete'
  <2>1. ~syncRaced /\ \A s \in Sync : ~sync[s].active
    BY <1>4 DEF Syncing
  <2>2. \A k \in 1..made : Somewhere(k)
    BY <2>1, OfflineFacts
  <2>3. \A k \in 1..made : Somewhere(k)'
    BY <1>1, <2>2 DEF Somewhere
  <2>4. Somewhere(r)'
    BY <1>1 DEF Somewhere
  <2>5. SyncIsAlone' /\ SyncIsComplete'
    BY <2>1 DEF SyncIsAlone, SyncIsComplete
  <2> QED
    BY <2>3, <2>4, <2>5
<1> QED
  BY <1>1, <1>2, <1>3, <1>4, OfflineFacts, OfflineFinish

\* A report reaches the API, or is on its way.
LEMMA ListUntouched ==
  ASSUME OfflineInv, UNCHANGED <<pending, syncRaced, sync>>,
         reached \subseteq reached', reached' \subseteq Report,
         abandoned \subseteq abandoned', abandoned' \subseteq Report,
         posting \subseteq posting' \cup reached' \cup abandoned', posting' \subseteq Report,
         online' \in BOOLEAN, made' \in 0..MaxReports,
         \A k \in 1..made' : k \in 1..made \/ k \in posting'
  PROVE  OfflineInv'
<1>1. ASSUME ~syncRaced'
      PROVE  /\ \A k \in 1..made' : Somewhere(k)'
             /\ SyncIsAlone' /\ SyncIsComplete'
  <2>1. /\ \A k \in 1..made : Somewhere(k)
        /\ SyncIsAlone /\ SyncIsComplete
    BY <1>1, OfflineFacts
  <2>2. \A k \in 1..made : Somewhere(k)'
    BY <2>1 DEF Somewhere
  <2>3. \A k \in 1..made' : Somewhere(k)'
    BY <2>2 DEF Somewhere
  <2>4. SyncIsAlone' /\ SyncIsComplete'
    BY <2>1 DEF SyncIsAlone, SyncIsComplete
  <2> QED
    BY <2>3, <2>4
<1>2. /\ syncRaced' \in BOOLEAN /\ pending' \in Seq(Report) /\ sync' \in [Sync -> SyncRecord]
      /\ \A s \in Sync : ~sync'[s].active => sync'[s].todo = <<>>
  BY OfflineFacts
<1> QED
  BY <1>1, <1>2, OfflineFinish

LEMMA RecordProgressStep ==
  ASSUME OfflineInv, RecordProgress
  PROVE  OfflineInv'
<1>1. /\ made \in Nat /\ made' = made + 1 /\ made' \in 0..MaxReports /\ made' \in Report
      /\ UNCHANGED <<online, sync, reached, abandoned>>
  BY OfflineFacts DEF RecordProgress, Report
<1>2. \A k \in 1..made' : k \in 1..made \/ k = made'
  BY <1>1
<1>3. CASE online /\ posting' = posting \cup {made'} /\ UNCHANGED <<pending, syncRaced>>
  BY <1>1, <1>2, <1>3, OfflineFacts, ListUntouched
<1>4. CASE /\ pending' = Append(pending, made')
           /\ syncRaced' = (syncRaced \/ Syncing) /\ UNCHANGED posting
  <2>1. PICK r \in Report : r = made'
    BY <1>1
  <2> QED
    BY <1>1, <1>2, <1>4, <2>1, OfflineFacts, AddedToList
<1> QED
  BY <1>3, <1>4 DEF RecordProgress

LEMMA AnswerRecordStep ==
  ASSUME OfflineInv, NEW r \in Report, AnswerRecord(r)
  PROVE  OfflineInv'
<1>1. /\ r \in posting /\ posting' = posting \ {r}
      /\ UNCHANGED <<online, made, sync, abandoned>>
      /\ reached \subseteq reached' /\ reached' \subseteq Report
  BY OfflineFacts DEF AnswerRecord
<1>2. CASE reached' = reached \cup {r} /\ UNCHANGED <<pending, syncRaced>>
  BY <1>1, <1>2, OfflineFacts, ListUntouched
<1>3. CASE pending' = Append(pending, r) /\ syncRaced' = (syncRaced \/ Syncing)
  BY <1>1, <1>3, OfflineFacts, AddedToList
<1> QED
  BY <1>2, <1>3 DEF AnswerRecord

LEMMA StartSyncStep ==
  ASSUME OfflineInv, NEW s \in Sync, StartSync(s)
  PROVE  OfflineInv'
<1> DEFINE new == [active |-> TRUE, todo |-> pending, remaining |-> <<>>]
<1>1. /\ sync' = [sync EXCEPT ![s] = new] /\ syncRaced' = (syncRaced \/ Syncing)
      /\ UNCHANGED <<online, made, posting, pending, reached, abandoned>>
  BY DEF StartSync
<1>2. new \in SyncRecord
  BY OfflineFacts DEF SyncRecord
<1>3. new.active = TRUE /\ new.todo = pending
  OBVIOUS
<1> HIDE DEF new
<1>4. /\ sync' \in [Sync -> SyncRecord] /\ sync'[s] = new
      /\ \A t \in Sync \ {s} : sync'[t] = sync[t]
  BY <1>1, <1>2, OfflineFacts
<1>5. syncRaced' \in BOOLEAN
  BY <1>1, OfflineFacts DEF Syncing
<1>6. \A t \in Sync : ~sync'[t].active => sync'[t].todo = <<>>
  BY <1>3, <1>4, OfflineFacts
<1>7. ASSUME ~syncRaced'
      PROVE  /\ \A k \in 1..made' : Somewhere(k)'
             /\ SyncIsAlone' /\ SyncIsComplete'
  <2>1. ~syncRaced /\ \A t \in Sync : ~sync[t].active
    BY <1>1, <1>7 DEF Syncing
  <2>2. \A k \in 1..made : Somewhere(k)
    BY <2>1, OfflineFacts
  <2>3. \A k \in 1..made' : Somewhere(k)'
    BY <1>1, <2>2 DEF Somewhere
  <2>4. \A t \in Sync : sync'[t].active => t = s
    BY <1>4, <2>1
  <2>5. SyncIsAlone'
    BY <2>4 DEF SyncIsAlone
  <2>6. SyncIsComplete'
    BY <1>1, <1>3, <1>4, <2>4 DEF SyncIsComplete
  <2> QED
    BY <2>3, <2>5, <2>6
<1> QED
  BY <1>1, <1>4, <1>5, <1>6, <1>7, OfflineFacts, OfflineFinish

\* A post that succeeds only takes the report off the list of the sync.
LEMMA Posted ==
  ASSUME NEW f \in [Sync -> SyncRecord], NEW s \in Sync
  PROVE  [f[s] EXCEPT !.todo = Tail(@)] = [active |-> f[s].active, todo |-> Tail(f[s].todo),
                                           remaining |-> f[s].remaining]
<1> DEFINE Q == Seq(Report)
           rec == f[s]
           x == Tail(f[s].todo)
<1>1. rec \in [active : BOOLEAN, todo : Q, remaining : Q]
  BY DEF SyncRecord
<1> HIDE DEF Q, rec, x
<1>2. [rec EXCEPT !.todo = x] = [active |-> rec.active, todo |-> x, remaining |-> rec.remaining]
  BY <1>1
<1> QED
  BY <1>2 DEF rec, x

LEMMA PostNextStep ==
  ASSUME OfflineInv, NEW s \in Sync, PostNext(s)
  PROVE  OfflineInv'
<1>1. PICK r : r = Head(sync[s].todo)
  OBVIOUS
<1>2. /\ sync \in [Sync -> SyncRecord] /\ sync[s].active
      /\ sync[s].todo \in Seq(Report) /\ sync[s].remaining \in Seq(Report)
      /\ sync[s].todo # <<>>
  BY OfflineFacts, SyncFields DEF PostNext
<1>3. /\ r \in Report /\ Tail(sync[s].todo) \in Seq(Report)
      /\ \A x : In(x, sync[s].todo) => x = r \/ In(x, Tail(sync[s].todo))
  BY <1>1, <1>2, InTail
<1>4. /\ Append(sync[s].remaining, r) \in Seq(Report)
      /\ In(r, Append(sync[s].remaining, r))
      /\ \A x : In(x, sync[s].remaining) => In(x, Append(sync[s].remaining, r))
  BY <1>2, <1>3, InAppend
<1>5. /\ reached \subseteq reached' /\ reached' \subseteq Report
      /\ UNCHANGED <<online, made, posting, pending, syncRaced, abandoned>>
  BY <1>1, <1>3, OfflineFacts DEF PostNext
<1>6. PICK rem \in Seq(Report) :
        /\ sync' = [sync EXCEPT ![s] = [active |-> sync[s].active, todo |-> Tail(sync[s].todo),
                                        remaining |-> rem]]
        /\ r \in reached' \/ In(r, rem)
        /\ \A x : In(x, sync[s].remaining) => In(x, rem)
  <2>1. CASE reached' = reached \cup {r} /\ sync' = [sync EXCEPT ![s].todo = Tail(@)]
    <3>1. [sync[s] EXCEPT !.todo = Tail(@)] = [active |-> sync[s].active, todo |-> Tail(sync[s].todo),
                                               remaining |-> sync[s].remaining]
      BY <1>2, Posted
    <3>2. sync' = [sync EXCEPT ![s] = [sync[s] EXCEPT !.todo = Tail(@)]]
      BY <2>1
    <3> QED
      BY <1>2, <2>1, <3>1, <3>2
  <2>2. CASE sync' = [sync EXCEPT ![s].todo = Tail(@), ![s].remaining = Append(@, r)]
    <3>1. sync' = [sync EXCEPT ![s] = [active |-> sync[s].active, todo |-> Tail(sync[s].todo),
                                      remaining |-> Append(sync[s].remaining, r)]]
      BY <1>2, <2>2 DEF SyncRecord
    <3> QED
      BY <1>4, <3>1
  <2> QED
    BY <1>1, <2>1, <2>2 DEF PostNext
<1> DEFINE new == [active |-> sync[s].active, todo |-> Tail(sync[s].todo), remaining |-> rem]
<1>7. new \in SyncRecord /\ new.active /\ new.todo = Tail(sync[s].todo) /\ new.remaining = rem
  <2>1. new \in SyncRecord
    BY <1>2, <1>3, SyncFields DEF SyncRecord
  <2> QED
    BY <1>2, <2>1
<1> HIDE DEF new
<1>8. /\ sync' \in [Sync -> SyncRecord] /\ sync'[s] = new
      /\ \A t \in Sync \ {s} : sync'[t] = sync[t]
  BY <1>2, <1>6, <1>7 DEF new
<1>9. \A t \in Sync : sync'[t].active => sync[t].active
  BY <1>2, <1>8
<1>10. \A t \in Sync : ~sync'[t].active => sync'[t].todo = <<>>
  BY <1>7, <1>8, OfflineFacts
<1>11. ASSUME ~syncRaced'
      PROVE  /\ \A k \in 1..made' : Somewhere(k)'
             /\ SyncIsAlone' /\ SyncIsComplete'
  <2>1. /\ \A k \in 1..made : Somewhere(k)
        /\ SyncIsAlone /\ SyncIsComplete
    BY <1>5, <1>11, OfflineFacts
  <2>2. \A k \in 1..made' : Somewhere(k)'
    BY <1>5, <2>1 DEF Somewhere
  <2>3. SyncIsAlone'
    BY <1>9, <2>1 DEF SyncIsAlone
  <2>4. ASSUME NEW t \in Sync, sync'[t].active, NEW k \in Report, In(k, pending)
        PROVE  k \in reached' \/ In(k, sync'[t].todo) \/ In(k, sync'[t].remaining)
    <3>1. k \in reached \/ In(k, sync[t].todo) \/ In(k, sync[t].remaining)
      BY <1>9, <2>1, <2>4 DEF SyncIsComplete
    <3>2. CASE t = s
      BY <1>3, <1>5, <1>6, <1>7, <1>8, <3>1, <3>2
    <3>3. CASE t # s
      BY <1>5, <1>8, <3>1, <3>3
    <3> QED
      BY <3>2, <3>3
  <2>5. SyncIsComplete'
    BY <1>5, <2>4 DEF SyncIsComplete
  <2> QED
    BY <2>2, <2>3, <2>5
<1> QED
  BY <1>5, <1>8, <1>10, <1>11, OfflineFacts, OfflineFinish

LEMMA NoSyncIsTyped == NoSync \in SyncRecord /\ ~NoSync.active /\ NoSync.todo = <<>>
BY DEF NoSync, SyncRecord

LEMMA EndSyncStep ==
  ASSUME OfflineInv, NEW s \in Sync, EndSync(s)
  PROVE  OfflineInv'
<1>1. /\ sync[s].active /\ sync[s].todo = <<>> /\ pending' = sync[s].remaining
      /\ sync' = [sync EXCEPT ![s] = NoSync]
      /\ UNCHANGED <<online, made, posting, reached, syncRaced, abandoned>>
  BY DEF EndSync
<1>2. pending' \in Seq(Report)
  BY <1>1, OfflineFacts, SyncFields
<1>3. /\ sync' \in [Sync -> SyncRecord] /\ ~sync'[s].active /\ sync'[s].todo = <<>>
      /\ \A t \in Sync \ {s} : sync'[t] = sync[t]
  BY <1>1, OfflineFacts, NoSyncIsTyped
<1>4. \A t \in Sync : ~sync'[t].active => sync'[t].todo = <<>>
  BY <1>3, OfflineFacts
<1>5. ASSUME ~syncRaced'
      PROVE  /\ \A k \in 1..made' : Somewhere(k)'
             /\ SyncIsAlone' /\ SyncIsComplete'
  <2>1. /\ \A k \in 1..made : Somewhere(k)
        /\ SyncIsAlone /\ SyncIsComplete
    BY <1>1, <1>5, OfflineFacts
  <2>2. \A k \in Report : In(k, pending) => k \in reached \/ In(k, pending')
    BY <1>1, <2>1, NothingInEmpty DEF SyncIsComplete
  <2>3. 1..made \subseteq Report
    BY OfflineFacts DEF Report
  <2>4. \A k \in 1..made' : Somewhere(k)'
    BY <1>1, <2>1, <2>2, <2>3 DEF Somewhere
  <2>5. \A t \in Sync : ~sync'[t].active
    BY <1>1, <1>3, <2>1 DEF SyncIsAlone
  <2>6. SyncIsAlone' /\ SyncIsComplete'
    BY <2>5 DEF SyncIsAlone, SyncIsComplete
  <2> QED
    BY <2>4, <2>6
<1> QED
  BY <1>1, <1>2, <1>3, <1>4, <1>5, OfflineFacts, OfflineFinish

LEMMA ClosePageStep ==
  ASSUME OfflineInv, ClosePage
  PROVE  OfflineInv'
<1>1. /\ sync' = [t \in Sync |-> NoSync]
      /\ abandoned' = abandoned \cup posting /\ posting' = {}
      /\ UNCHANGED <<online, made, pending, reached, syncRaced>>
  BY DEF ClosePage
<1>2. /\ sync' \in [Sync -> SyncRecord]
      /\ \A t \in Sync : ~sync'[t].active /\ sync'[t].todo = <<>>
  BY <1>1, NoSyncIsTyped
<1>3. abandoned' \subseteq Report /\ posting' \subseteq Report
  BY <1>1, OfflineFacts
<1>4. ASSUME ~syncRaced'
      PROVE  /\ \A k \in 1..made' : Somewhere(k)'
             /\ SyncIsAlone' /\ SyncIsComplete'
  <2>1. \A k \in 1..made : Somewhere(k)
    BY <1>1, <1>4, OfflineFacts
  <2>2. \A k \in 1..made' : Somewhere(k)'
    BY <1>1, <2>1 DEF Somewhere
  <2>3. SyncIsAlone' /\ SyncIsComplete'
    BY <1>2 DEF SyncIsAlone, SyncIsComplete
  <2> QED
    BY <2>2, <2>3
<1> QED
  BY <1>1, <1>2, <1>3, <1>4, OfflineFacts, OfflineFinish

LEMMA OfflineStep == OfflineInv /\ [OfflineNext]_offlineVars => OfflineInv'
<1> SUFFICES ASSUME OfflineInv, [OfflineNext]_offlineVars PROVE OfflineInv'
  OBVIOUS
<1>1. CASE UNCHANGED offlineVars
  BY <1>1, OfflineFacts, ListUntouched DEF offlineVars
<1>2. CASE GoOnlineOrOffline
  <2>1. online' \in BOOLEAN
    BY <1>2, OfflineFacts DEF GoOnlineOrOffline
  <2> QED
    BY <1>2, <2>1, OfflineFacts, ListUntouched DEF GoOnlineOrOffline
<1>3. CASE RecordProgress
  BY <1>3, RecordProgressStep
<1>4. CASE ClosePage
  BY <1>4, ClosePageStep
<1>5. ASSUME NEW r \in Report, AnswerRecord(r) PROVE OfflineInv'
  BY <1>5, AnswerRecordStep
<1>6. ASSUME NEW s \in Sync, StartSync(s) \/ PostNext(s) \/ EndSync(s) PROVE OfflineInv'
  BY <1>6, StartSyncStep, PostNextStep, EndSyncStep
<1> QED
  BY <1>1, <1>2, <1>3, <1>4, <1>5, <1>6 DEF OfflineNext

LEMMA OfflineStart == OfflineInit => OfflineInv
<1> SUFFICES ASSUME OfflineInit PROVE OfflineInv
  OBVIOUS
<1>1. /\ online \in BOOLEAN /\ made = 0 /\ posting = {} /\ pending = <<>>
      /\ reached = {} /\ abandoned = {} /\ syncRaced = FALSE
      /\ \A s \in Sync : sync[s] = NoSync
      /\ sync \in [Sync -> SyncRecord]
  BY NoSyncIsTyped DEF OfflineInit
<1>2. 0 \in 0..MaxReports /\ <<>> \in Seq(Report) /\ 1..0 = {}
  OBVIOUS
<1>3. \A s \in Sync : ~sync[s].active /\ sync[s].todo = <<>> /\ sync[s].remaining \in Seq(Report)
  BY <1>1, NoSyncIsTyped, SyncFields
<1>4. OfflineTypeOK
  BY <1>1, <1>2, <1>3 DEF OfflineTypeOK
<1>5. ReportsSurvive
  BY <1>1, <1>2 DEF ReportsSurvive
<1>6. SyncIsAlone /\ SyncIsComplete
  BY <1>3 DEF SyncIsAlone, SyncIsComplete
<1> QED
  BY <1>1, <1>3, <1>4, <1>5, <1>6 DEF OfflineInv

----------------------------------------------------------------------------
(* Proofs: live sessions.                                                  *)

SweepRecord == [labels : {<<>>, <<"24h">>, <<"1h">>}, todo : SUBSET Member,
                row : SessionRow \cup {NoSession}]

LEMMA SessionFacts ==
  ASSUME SessionInv
  PROVE  /\ SessionTypeOK
         /\ session \in SessionRow \cup {NoSession} /\ raced \in BOOLEAN
         /\ sweep \in [Sweeper -> SweepRecord]
         /\ request \in [Editor -> SessionRow \cup {NoSession}]
         /\ mailed \in [Label \X Member -> 0..2]
         /\ now \in 0..MaxTime /\ calls \in 0..MaxCalls
         /\ ~raced => OneAtATime /\ MailedOnce
BY DEF SessionInv, SessionTypeOK, SweepRecord

LEMMA SweepFields ==
  ASSUME NEW f \in [Sweeper -> SweepRecord], NEW w \in Sweeper
  PROVE  /\ f[w].labels \in {<<>>, <<"24h">>, <<"1h">>} /\ f[w].todo \subseteq Member
         /\ f[w].row \in SessionRow \cup {NoSession}
BY DEF SweepRecord

LEMMA RestingIsTyped == Resting \in SweepRecord /\ Resting.row = NoSession /\ Resting.todo = {}
BY DEF Resting, SweepRecord

LEMMA FirstLabel ==
  ASSUME NEW labels \in {<<>>, <<"24h">>, <<"1h">>}, labels # <<>>
  PROVE  Head(labels) \in Label
BY DEF Label

\* A row lists labels.
LEMMA RowFields ==
  ASSUME NEW row \in SessionRow
  PROVE  /\ row # NoSession /\ row.sent \subseteq Label
         /\ row.status \in {"scheduled", "cancelled"} /\ row.scheduledAt \in 0..MaxTime + 4
BY SessionAssumption DEF SessionRow

\* Nobody is un-mailed.
MailGrows ==
  \A l \in Label, m \in Member : mailed[<<l, m>>] > 0 => mailed'[<<l, m>>] > 0

LEMMA ListsStay ==
  ASSUME NEW row \in SessionRow \cup {NoSession}, ListsOnlySent(row), MailGrows
  PROVE  ListsOnlySent(row)'
BY RowFields DEF ListsOnlySent, MailGrows

LEMMA HonestStays ==
  ASSUME SessionInv, NEW w \in Sweeper, sweep'[w] = sweep[w], MailGrows
  PROVE  SweepIsHonest(w)' /\ ListsOnlySent(sweep[w].row)'
<1>1. SweepIsHonest(w) /\ ListsOnlySent(sweep[w].row)
  BY DEF SessionInv
<1>2. /\ sweep[w].labels \in {<<>>, <<"24h">>, <<"1h">>}
      /\ sweep[w].row \in SessionRow \cup {NoSession}
  BY SessionFacts, SweepFields
<1>3. SweepIsHonest(w)'
  <2>1. CASE sweep[w].row = NoSession
    BY <1>1, <2>1 DEF SweepIsHonest, Active
  <2>2. CASE sweep[w].row # NoSession
    <3>1. sweep[w].labels # <<>> /\ Head(sweep[w].labels) \in Label
      BY <1>1, <1>2, <2>2, FirstLabel DEF SweepIsHonest, Active
    <3>2. \A m \in Member \ sweep[w].todo : mailed'[<<Head(sweep[w].labels), m>>] > 0
      BY <1>1, <2>2, <3>1 DEF SweepIsHonest, Active, MailGrows
    <3> QED
      BY <1>1, <3>1, <3>2 DEF SweepIsHonest, Active
  <2> QED
    BY <2>1, <2>2
<1>4. PICK row \in SessionRow \cup {NoSession} : row = sweep[w].row
  BY <1>2
<1>5. ListsOnlySent(row)'
  BY <1>1, <1>4, ListsStay
<1>6. ListsOnlySent(sweep[w].row)'
  BY <1>4, <1>5 DEF ListsOnlySent
<1> QED
  BY <1>3, <1>6

\* What is left to show of a step by a run: one of the copies changes.
LEMMA SessionFinish ==
  ASSUME SessionTypeOK', ListsOnlySent(session)',
         \A w \in Sweeper : SweepIsHonest(w)' /\ ListsOnlySent(sweep[w].row)',
         \A e \in Editor : ListsOnlySent(request[e])',
         ~raced' => OneAtATime' /\ MailedOnce'
  PROVE  SessionInv'
BY DEF SessionInv

LEMMA RequestsStay ==
  ASSUME SessionInv, NEW e \in Editor, request'[e] = request[e], MailGrows
  PROVE  ListsOnlySent(request[e])'
<1>1. PICK row \in SessionRow \cup {NoSession} : row = request[e]
  BY SessionFacts
<1>2. ListsOnlySent(row)
  BY <1>1 DEF SessionInv
<1>3. ListsOnlySent(row)'
  BY <1>2, ListsStay
<1> QED
  BY <1>1, <1>3 DEF ListsOnlySent

LEMMA SessionStays ==
  ASSUME SessionInv, session' = session, MailGrows
  PROVE  ListsOnlySent(session)'
<1>1. PICK row \in SessionRow \cup {NoSession} : row = session
  BY SessionFacts
<1>2. ListsOnlySent(row)'
  BY <1>1, ListsStay DEF SessionInv
<1> QED
  BY <1>1, <1>2 DEF ListsOnlySent

LEMMA SessionUnmoved ==
  ASSUME SessionInv, SessionTypeOK', UNCHANGED <<session, sweep, request, mailed, raced>>
  PROVE  SessionInv'
BY DEF SessionInv, SweepIsHonest, ListsOnlySent, OneAtATime, MailedOnce, Active

\* Without a session there is nothing to remind of.
LEMMA NothingMailed ==
  ASSUME OneAtATime, MailedOnce, session = NoSession, NEW l \in Label, NEW m \in Member
  PROVE  ~(mailed[<<l, m>>] > 0)
BY DEF OneAtATime, MailedOnce

LEMMA CreateSessionStep ==
  ASSUME SessionInv, NEW at \in 0..MaxTime + 4, CreateSession(at)
  PROVE  SessionInv'
<1> DEFINE row == [status |-> "scheduled", scheduledAt |-> at, sent |-> {}]
<1>1. row \in SessionRow /\ row.sent = {}
  BY DEF SessionRow
<1>2. session = NoSession /\ session' = row /\ UNCHANGED <<now, sweep, request, mailed, raced, calls>>
  BY DEF CreateSession
<1> HIDE DEF row
<1>3. SessionTypeOK'
  BY <1>1, <1>2, SessionFacts DEF SessionTypeOK
<1>4. MailGrows
  BY <1>2 DEF MailGrows
<1>5. ListsOnlySent(session)'
  BY <1>1, <1>2 DEF ListsOnlySent
<1>6. ASSUME ~raced' PROVE OneAtATime' /\ MailedOnce'
  <2>1. OneAtATime /\ MailedOnce
    BY <1>2, <1>6, SessionFacts
  <2>2. OneAtATime'
    BY <1>2, <2>1 DEF OneAtATime, Active
  <2>3. MailedOnce'
    BY <1>2, <2>1, NothingMailed DEF MailedOnce
  <2> QED
    BY <2>2, <2>3
<1> QED
  BY <1>2, <1>3, <1>4, <1>5, <1>6, HonestStays, RequestsStay, SessionFinish

LEMMA RequestEditStep ==
  ASSUME SessionInv, NEW e \in Editor, NEW st \in {"scheduled", "cancelled"},
         NEW at \in 0..MaxTime + 4, RequestEdit(e, st, at)
  PROVE  SessionInv'
<1>1. PICK row : row = [session EXCEPT !.status = st, !.scheduledAt = at]
  OBVIOUS
<1>2. session \in SessionRow
  BY SessionFacts DEF RequestEdit
<1>3. row \in SessionRow /\ row.sent = session.sent
  BY <1>1, <1>2 DEF SessionRow
<1>4. /\ request' = [request EXCEPT ![e] = row] /\ raced' = (raced \/ Busy)
      /\ calls' \in 0..MaxCalls /\ UNCHANGED <<now, session, sweep, mailed>>
  BY <1>1, SessionFacts, SessionAssumption DEF RequestEdit
<1>5. request'[e] = row /\ \A d \in Editor \ {e} : request'[d] = request[d]
  BY <1>4, SessionFacts
<1>6. SessionTypeOK'
  <2>1. raced' \in BOOLEAN
    BY <1>4, SessionFacts DEF Busy
  <2> QED
    BY <1>3, <1>4, <2>1, SessionFacts DEF SessionTypeOK
<1>7. MailGrows
  BY <1>4 DEF MailGrows
<1>8. \A d \in Editor : ListsOnlySent(request[d])'
  <2>1. ListsOnlySent(session)
    BY DEF SessionInv
  <2>2. \A l \in row.sent, m \in Member : mailed[<<l, m>>] > 0
    BY <1>2, <1>3, <2>1, RowFields DEF ListsOnlySent
  <2>3. ListsOnlySent(request[e])'
    BY <1>4, <1>5, <2>2 DEF ListsOnlySent
  <2>4. \A d \in Editor \ {e} : ListsOnlySent(request[d])'
    BY <1>5, <1>7, RequestsStay
  <2> QED
    BY <2>3, <2>4
<1>9. ASSUME ~raced' PROVE OneAtATime' /\ MailedOnce'
  <2>1. OneAtATime /\ MailedOnce /\ \A w \in Sweeper : sweep[w] = Resting
    BY <1>4, <1>9, SessionFacts DEF Busy
  <2>2. \A w \in Sweeper : ~Active(w)'
    BY <1>4, <2>1, RestingIsTyped DEF Active
  <2>3. OneAtATime'
    BY <1>2, <1>3, <1>4, <1>5, <2>1, <2>2, RowFields DEF OneAtATime
  <2>4. MailedOnce'
    BY <1>4, <2>1 DEF MailedOnce, Active
  <2> QED
    BY <2>3, <2>4
<1> QED
  BY <1>4, <1>6, <1>7, <1>8, <1>9, HonestStays, SessionStays, SessionFinish

LEMMA SaveEditStep ==
  ASSUME SessionInv, NEW e \in Editor, SaveEdit(e)
  PROVE  SessionInv'
<1>1. /\ request[e] # NoSession /\ session' = request[e]
      /\ request' = [request EXCEPT ![e] = NoSession]
      /\ UNCHANGED <<now, sweep, mailed, raced, calls>>
  BY DEF SaveEdit
<1>2. session' \in SessionRow
  BY <1>1, SessionFacts
<1>3. request'[e] = NoSession /\ \A d \in Editor \ {e} : request'[d] = request[d]
  BY <1>1, SessionFacts
<1>4. SessionTypeOK'
  BY <1>1, <1>2, SessionFacts DEF SessionTypeOK
<1>5. MailGrows
  BY <1>1 DEF MailGrows
<1>6. ListsOnlySent(session)'
  BY <1>1 DEF SessionInv, ListsOnlySent
<1>7. \A d \in Editor : ListsOnlySent(request[d])'
  <2>1. ListsOnlySent(request[e])'
    BY <1>3 DEF ListsOnlySent
  <2> QED
    BY <1>3, <1>5, <2>1, RequestsStay
<1>8. ASSUME ~raced' PROVE OneAtATime' /\ MailedOnce'
  <2>1. OneAtATime /\ MailedOnce
    BY <1>1, <1>8, SessionFacts
  <2>2. session # NoSession /\ session'.sent = session.sent /\ \A w \in Sweeper : ~Active(w)
    BY <1>1, <2>1 DEF OneAtATime
  <2>3. OneAtATime'
    BY <1>1, <1>2, <1>3, <2>1, <2>2, RowFields DEF OneAtATime, Active
  <2>4. MailedOnce'
    BY <1>1, <1>2, <2>1, <2>2, RowFields DEF MailedOnce
  <2> QED
    BY <2>3, <2>4
<1> QED
  BY <1>1, <1>4, <1>5, <1>6, <1>7, <1>8, HonestStays, SessionFinish

LEMMA StartSweepStep ==
  ASSUME SessionInv, NEW w \in Sweeper, StartSweep(w)
  PROVE  SessionInv'
<1>1. PICK labels : labels = Outstanding(session)
  OBVIOUS
<1> DEFINE new == [labels |-> labels, row |-> session, todo |-> Member]
<1>2. /\ session \in SessionRow /\ labels # <<>>
      /\ sweep' = [sweep EXCEPT ![w] = new] /\ raced' = (raced \/ Busy \/ Requested)
      /\ UNCHANGED <<now, session, request, mailed, calls>>
  BY <1>1, SessionFacts DEF StartSweep
<1>3. /\ labels \in {<<>>, <<"24h">>, <<"1h">>}
      /\ Head(labels) \in Label /\ Head(labels) \notin session.sent
  BY <1>1, <1>2 DEF Outstanding, Label
<1>4. /\ new \in SweepRecord /\ new.labels = labels /\ new.row = session /\ new.todo = Member
      /\ new # Resting
  <2>1. new \in SweepRecord /\ new.labels = labels /\ new.row = session /\ new.todo = Member
    BY <1>2, <1>3 DEF SweepRecord
  <2> QED
    BY <1>2, <2>1, RestingIsTyped, RowFields
<1> HIDE DEF new
<1>5. /\ sweep' \in [Sweeper -> SweepRecord] /\ sweep'[w] = new
      /\ \A v \in Sweeper \ {w} : sweep'[v] = sweep[v]
  BY <1>2, <1>4, SessionFacts
<1>6. SessionTypeOK'
  <2>1. raced' \in BOOLEAN
    BY <1>2, SessionFacts DEF Busy, Requested
  <2> QED
    BY <1>2, <1>5, <2>1, SessionFacts DEF SessionTypeOK, SweepRecord
<1>7. MailGrows
  BY <1>2 DEF MailGrows
<1>8. \A v \in Sweeper : SweepIsHonest(v)' /\ ListsOnlySent(sweep[v].row)'
  <2>1. SweepIsHonest(w)'
    BY <1>2, <1>4, <1>5, RowFields DEF SweepIsHonest, Active
  <2>2. ListsOnlySent(session)'
    BY <1>2, <1>7, SessionStays
  <2>3. ListsOnlySent(sweep[w].row)'
    BY <1>2, <1>4, <1>5, <2>2 DEF ListsOnlySent
  <2>4. \A v \in Sweeper \ {w} : SweepIsHonest(v)' /\ ListsOnlySent(sweep[v].row)'
    <3>1. ASSUME NEW v \in Sweeper \ {w} PROVE SweepIsHonest(v)' /\ ListsOnlySent(sweep[v].row)'
      BY <1>5, <1>7, HonestStays
    <3> QED
      BY <3>1
  <2> QED
    BY <2>1, <2>3, <2>4
<1>9. ASSUME ~raced' PROVE OneAtATime' /\ MailedOnce'
  <2>1. /\ OneAtATime /\ MailedOnce
        /\ \A v \in Sweeper : ~Active(v)
        /\ \A e \in Editor : request[e] = NoSession
    BY <1>2, <1>9, SessionFacts, RestingIsTyped DEF Busy, Requested, Active
  <2>2. \A v \in Sweeper : Active(v)' => v = w
    BY <1>5, <2>1 DEF Active
  <2>3. OneAtATime'
    BY <1>2, <1>3, <1>4, <1>5, <2>1, <2>2, RowFields DEF OneAtATime
  <2>4. MailedOnce'
    BY <1>2, <2>1 DEF MailedOnce
  <2> QED
    BY <2>3, <2>4
<1> QED
  BY <1>2, <1>6, <1>7, <1>8, <1>9, RequestsStay, SessionStays, SessionFinish

LEMMA MailMemberStep ==
  ASSUME SessionInv, NEW w \in Sweeper, NEW m \in Member, MailMember(w, m)
  PROVE  SessionInv'
<1>1. PICK h : h = Head(sweep[w].labels)
  OBVIOUS
<1>2. PICK old \in SweepRecord : old = sweep[w]
  BY SessionFacts
<1>3. /\ m \in old.todo /\ sweep' = [sweep EXCEPT ![w].todo = @ \ {m}]
      /\ mailed' = [mailed EXCEPT ![<<h, m>>] = IF @ < 2 THEN @ + 1 ELSE @]
      /\ UNCHANGED <<now, session, request, raced, calls>>
  BY <1>1, <1>2 DEF MailMember
<1>4. /\ old.labels \in {<<>>, <<"24h">>, <<"1h">>} /\ old.todo \subseteq Member
      /\ old.row \in SessionRow \cup {NoSession}
  BY DEF SweepRecord
<1>5. /\ SweepIsHonest(w) /\ Active(w) /\ old.row # NoSession /\ old.labels # <<>>
      /\ h = Head(old.labels) /\ h \in Label
  <2>1. SweepIsHonest(w) /\ old # Resting
    BY <1>3, RestingIsTyped DEF SessionInv
  <2>2. Active(w) /\ old.row # NoSession /\ old.labels # <<>>
    BY <1>2, <2>1 DEF SweepIsHonest, Active
  <2> QED
    BY <1>1, <1>2, <1>4, <2>1, <2>2, FirstLabel
<1>6. PICK new \in SweepRecord :
        /\ sweep' = [sweep EXCEPT ![w] = new]
        /\ new.labels = old.labels /\ new.row = old.row /\ new.todo = old.todo \ {m}
  <2>1. [old EXCEPT !.todo = @ \ {m}] \in SweepRecord
    BY DEF SweepRecord
  <2>2. PICK new \in SweepRecord : new = [old EXCEPT !.todo = @ \ {m}]
    BY <2>1
  <2>3. new.labels = old.labels /\ new.row = old.row /\ new.todo = old.todo \ {m}
    BY <2>2 DEF SweepRecord
  <2>4. sweep' = [sweep EXCEPT ![w] = new]
    BY <1>2, <1>3, <2>2
  <2> QED
    BY <2>3, <2>4
<1>7. /\ sweep' \in [Sweeper -> SweepRecord] /\ sweep'[w] = new
      /\ \A v \in Sweeper \ {w} : sweep'[v] = sweep[v]
  BY <1>6, SessionFacts
<1>8. PICK n \in 0..2 : n = mailed[<<h, m>>]
  BY <1>5, SessionFacts
<1>9. PICK k \in 1..2 : /\ mailed' = [mailed EXCEPT ![<<h, m>>] = k]
                        /\ n = 0 => k = 1
  <2>1. PICK k : k = IF n < 2 THEN n + 1 ELSE n
    OBVIOUS
  <2>2. k \in 1..2 /\ (n = 0 => k = 1)
    BY <2>1
  <2>3. mailed' = [mailed EXCEPT ![<<h, m>>] = k]
    BY <1>3, <1>8, <2>1
  <2> QED
    BY <2>2, <2>3
<1>10. /\ mailed' \in [Label \X Member -> 0..2] /\ mailed'[<<h, m>>] = k
       /\ \A x \in Label \X Member : x # <<h, m>> => mailed'[x] = mailed[x]
  BY <1>5, <1>9, SessionFacts
<1>11. SessionTypeOK'
  BY <1>3, <1>7, <1>10, SessionFacts DEF SessionTypeOK, SweepRecord
<1>12. MailGrows
  BY <1>10 DEF MailGrows
<1>13. \A v \in Sweeper : SweepIsHonest(v)' /\ ListsOnlySent(sweep[v].row)'
  <2>1. SweepIsHonest(w)'
    <3>1. \A x \in Member \ new.todo : mailed'[<<h, x>>] > 0
      <4>1. \A x \in Member \ old.todo : mailed'[<<h, x>>] > 0
        BY <1>2, <1>5, <1>12 DEF SweepIsHonest, MailGrows
      <4>2. mailed'[<<h, m>>] > 0
        BY <1>10
      <4> QED
        BY <1>6, <4>1, <4>2
    <3>2. sweep'[w] # Resting /\ sweep'[w].row # NoSession
      BY <1>5, <1>6, <1>7, RestingIsTyped
    <3> QED
      BY <1>5, <1>6, <1>7, <3>1, <3>2 DEF SweepIsHonest, Active
  <2>2. ListsOnlySent(sweep[w].row)'
    <3>1. ListsOnlySent(old.row)
      BY <1>2 DEF SessionInv
    <3>2. ListsOnlySent(old.row)'
      BY <1>4, <1>12, <3>1, ListsStay
    <3> QED
      BY <1>6, <1>7, <3>2 DEF ListsOnlySent
  <2>3. ASSUME NEW v \in Sweeper \ {w} PROVE SweepIsHonest(v)' /\ ListsOnlySent(sweep[v].row)'
    <3>1. SweepIsHonest(v)' /\ ListsOnlySent(sweep[v].row)'
      BY <1>7, <1>12, HonestStays DEF ListsOnlySent
    <3> QED
      BY <3>1
  <2> QED
    BY <2>1, <2>2, <2>3
<1>14. ASSUME ~raced' PROVE OneAtATime' /\ MailedOnce'
  <2>1. OneAtATime /\ MailedOnce
    BY <1>3, <1>14, SessionFacts
  <2>2. \A v \in Sweeper : /\ Active(v)' <=> Active(v)
                          /\ sweep'[v].row = sweep[v].row /\ sweep'[v].labels = sweep[v].labels
    BY <1>2, <1>6, <1>7 DEF Active
  <2>3. OneAtATime'
    BY <1>3, <2>1, <2>2 DEF OneAtATime
  <2>4. h \notin session.sent
    BY <1>1, <1>5, <2>1 DEF OneAtATime
  <2>5. n = 0
    <3>1. SUFFICES ASSUME mailed[<<h, m>>] > 0 PROVE FALSE
      BY <1>8
    <3>2. PICK v \in Sweeper : /\ Active(v) /\ m \notin sweep[v].todo
      BY <1>5, <2>1, <2>4, <3>1 DEF MailedOnce
    <3>3. v = w
      BY <1>5, <2>1, <3>2 DEF OneAtATime
    <3> QED
      BY <1>2, <1>3, <3>2, <3>3
  <2>6. mailed'[<<h, m>>] = 1
    BY <1>9, <1>10, <2>5
  <2>7. ASSUME NEW l \in Label, NEW x \in Member
        PROVE  /\ mailed'[<<l, x>>] < 2
               /\ mailed'[<<l, x>>] > 0 =>
                    \/ session' # NoSession /\ l \in session'.sent
                    \/ \E v \in Sweeper : /\ Active(v)' /\ Head(sweep'[v].labels) = l
                                          /\ x \notin sweep'[v].todo
    <3>1. CASE l = h /\ x = m
      <4>1. Active(w)' /\ Head(sweep'[w].labels) = h /\ m \notin sweep'[w].todo
        BY <1>5, <1>6, <1>7, <2>2
      <4> QED
        BY <2>6, <3>1, <4>1
    <3>2. CASE ~(l = h /\ x = m)
      <4>1. mailed'[<<l, x>>] = mailed[<<l, x>>]
        BY <1>10, <3>2
      <4>2. \A v \in Sweeper : x \notin sweep[v].todo => x \notin sweep'[v].todo
        BY <1>2, <1>6, <1>7
      <4>3. /\ mailed[<<l, x>>] < 2
            /\ mailed[<<l, x>>] > 0 =>
                 \/ session # NoSession /\ l \in session.sent
                 \/ \E v \in Sweeper : /\ Active(v) /\ Head(sweep[v].labels) = l
                                       /\ x \notin sweep[v].todo
        BY <2>1 DEF MailedOnce
      <4> QED
        BY <1>3, <2>2, <4>1, <4>2, <4>3
    <3> QED
      BY <3>1, <3>2
  <2>8. MailedOnce'
    BY <2>7 DEF MailedOnce
  <2> QED
    BY <2>3, <2>8
<1> QED
  BY <1>3, <1>11, <1>12, <1>13, <1>14, RequestsStay, SessionStays, SessionFinish

\* A run is over: it has saved its copy, or died.
LEMMA RunOver ==
  ASSUME SessionInv, NEW w \in Sweeper, sweep' = [sweep EXCEPT ![w] = Resting], MailGrows
  PROVE  /\ sweep' \in [Sweeper -> SweepRecord] /\ sweep'[w] = Resting
         /\ \A v \in Sweeper \ {w} : sweep'[v] = sweep[v]
         /\ \A v \in Sweeper : SweepIsHonest(v)' /\ ListsOnlySent(sweep[v].row)'
<1>1. /\ sweep' \in [Sweeper -> SweepRecord] /\ sweep'[w] = Resting
      /\ \A v \in Sweeper \ {w} : sweep'[v] = sweep[v]
  BY SessionFacts, RestingIsTyped
<1>2. SweepIsHonest(w)' /\ ListsOnlySent(sweep[w].row)'
  BY <1>1, RestingIsTyped DEF SweepIsHonest, Active, ListsOnlySent
<1>3. ASSUME NEW v \in Sweeper \ {w} PROVE SweepIsHonest(v)' /\ ListsOnlySent(sweep[v].row)'
  BY <1>1, HonestStays DEF ListsOnlySent
<1> QED
  BY <1>1, <1>2, <1>3

LEMMA SaveSweepStep ==
  ASSUME SessionInv, NEW w \in Sweeper, SaveSweep(w)
  PROVE  SessionInv'
<1>1. PICK h : h = Head(sweep[w].labels)
  OBVIOUS
<1>2. PICK old \in SweepRecord : old = sweep[w]
  BY SessionFacts
<1>3. /\ old # Resting /\ old.todo = {} /\ sweep' = [sweep EXCEPT ![w] = Resting]
      /\ session' = [old.row EXCEPT !.sent = @ \cup {h}]
      /\ UNCHANGED <<now, request, mailed, raced, calls>>
  BY <1>1, <1>2 DEF SaveSweep
<1>4. /\ SweepIsHonest(w) /\ Active(w) /\ old.row \in SessionRow /\ h \in Label
  <2>1. SweepIsHonest(w)
    BY DEF SessionInv
  <2>2. Active(w) /\ old.row # NoSession /\ old.labels # <<>>
    BY <1>2, <1>3, <2>1 DEF SweepIsHonest, Active
  <2>3. old.labels \in {<<>>, <<"24h">>, <<"1h">>} /\ old.row \in SessionRow \cup {NoSession}
    BY DEF SweepRecord
  <2> QED
    BY <1>1, <1>2, <2>1, <2>2, <2>3, FirstLabel
<1>5. session' \in SessionRow /\ session'.sent = old.row.sent \cup {h}
  BY <1>3, <1>4 DEF SessionRow
<1>6. MailGrows
  BY <1>3 DEF MailGrows
<1>7. SessionTypeOK'
  BY <1>3, <1>5, <1>6, RunOver, SessionFacts DEF SessionTypeOK, SweepRecord
<1>8. ListsOnlySent(session)'
  <2>1. ListsOnlySent(old.row)
    BY <1>2 DEF SessionInv
  <2>2. \A l \in old.row.sent, m \in Member : mailed[<<l, m>>] > 0
    BY <1>4, <2>1, RowFields DEF ListsOnlySent
  <2>3. \A m \in Member : mailed[<<h, m>>] > 0
    BY <1>1, <1>2, <1>3, <1>4 DEF SweepIsHonest
  <2> QED
    BY <1>3, <1>5, <2>2, <2>3 DEF ListsOnlySent
<1>9. ASSUME ~raced' PROVE OneAtATime' /\ MailedOnce'
  <2>1. OneAtATime /\ MailedOnce
    BY <1>3, <1>9, SessionFacts
  <2>2. /\ session # NoSession /\ old.row.sent = session.sent
        /\ \A e \in Editor : request[e] = NoSession
        /\ \A v \in Sweeper : Active(v) => v = w
    BY <1>2, <1>4, <2>1 DEF OneAtATime
  <2>3. \A v \in Sweeper : ~Active(v)'
    BY <1>3, <1>6, <2>2, RunOver, RestingIsTyped DEF Active
  <2>4. OneAtATime'
    BY <1>3, <2>2, <2>3 DEF OneAtATime
  <2>5. MailedOnce'
    BY <1>1, <1>3, <1>5, <2>1, <2>2, RowFields DEF MailedOnce
  <2> QED
    BY <2>4, <2>5
<1> QED
  BY <1>3, <1>6, <1>7, <1>8, <1>9, RequestsStay, RunOver, SessionFinish

LEMMA DropSweepStep ==
  ASSUME SessionInv, NEW w \in Sweeper, DropSweep(w)
  PROVE  SessionInv'
<1>1. /\ sweep' = [sweep EXCEPT ![w] = Resting] /\ raced' = TRUE /\ calls' \in 0..MaxCalls
      /\ UNCHANGED <<now, session, request, mailed>>
  BY SessionFacts, SessionAssumption DEF DropSweep
<1>2. MailGrows
  BY <1>1 DEF MailGrows
<1>3. SessionTypeOK'
  BY <1>1, <1>2, RunOver, SessionFacts DEF SessionTypeOK, SweepRecord
<1> QED
  BY <1>1, <1>2, <1>3, RequestsStay, SessionStays, RunOver, SessionFinish

LEMMA SessionStep == SessionInv /\ [SessionNext]_sessionVars => SessionInv'
<1> SUFFICES ASSUME SessionInv, [SessionNext]_sessionVars PROVE SessionInv'
  OBVIOUS
<1>1. CASE UNCHANGED sessionVars
  BY <1>1, SessionUnmoved, SessionFacts DEF sessionVars, SessionTypeOK
<1>2. CASE Tick
  <2>1. now' \in 0..MaxTime
    BY <1>2, SessionFacts, SessionAssumption DEF Tick
  <2> QED
    BY <1>2, <2>1, SessionUnmoved, SessionFacts DEF Tick, SessionTypeOK
<1>3. ASSUME NEW at \in 0..MaxTime + 4, CreateSession(at) PROVE SessionInv'
  BY <1>3, CreateSessionStep
<1>4. ASSUME NEW e \in Editor, SaveEdit(e) PROVE SessionInv'
  BY <1>4, SaveEditStep
<1>5. ASSUME NEW e \in Editor, NEW st \in {"scheduled", "cancelled"}, NEW at \in 0..MaxTime + 4,
             RequestEdit(e, st, at)
      PROVE  SessionInv'
  BY <1>5, RequestEditStep
<1>6. ASSUME NEW w \in Sweeper, StartSweep(w) \/ SaveSweep(w) \/ DropSweep(w) PROVE SessionInv'
  BY <1>6, StartSweepStep, SaveSweepStep, DropSweepStep
<1>7. ASSUME NEW w \in Sweeper, NEW m \in Member, MailMember(w, m) PROVE SessionInv'
  BY <1>7, MailMemberStep
<1> QED
  BY <1>1, <1>2, <1>3, <1>4, <1>5, <1>6, <1>7 DEF SessionNext

LEMMA SessionStart == SessionInit => SessionInv
<1> SUFFICES ASSUME SessionInit PROVE SessionInv
  OBVIOUS
<1>1. 0 \in 0..MaxTime /\ 0 \in 0..MaxCalls /\ 0 \in 0..2
  BY SessionAssumption
<1>2. /\ sweep \in [Sweeper -> SweepRecord] /\ \A w \in Sweeper : sweep[w] = Resting
      /\ request \in [Editor -> SessionRow \cup {NoSession}]
      /\ mailed \in [Label \X Member -> 0..2]
  BY <1>1, RestingIsTyped DEF SessionInit
<1>3. SessionTypeOK
  BY <1>1, <1>2 DEF SessionInit, SessionTypeOK, SweepRecord
<1>4. \A w \in Sweeper : ~Active(w) /\ SweepIsHonest(w) /\ ListsOnlySent(sweep[w].row)
  BY <1>2, RestingIsTyped DEF Active, SweepIsHonest, ListsOnlySent
<1>5. ListsOnlySent(session) /\ \A e \in Editor : request[e] = NoSession /\ ListsOnlySent(request[e])
  BY DEF SessionInit, ListsOnlySent
<1>6. OneAtATime
  BY <1>4, <1>5 DEF OneAtATime
<1>7. MailedOnce
  <2>1. \A l \in Label, m \in Member : mailed[<<l, m>>] = 0
    BY DEF SessionInit
  <2>2. ASSUME NEW l \in Label, NEW m \in Member
        PROVE  mailed[<<l, m>>] < 2 /\ ~(mailed[<<l, m>>] > 0)
    <3>1. mailed[<<l, m>>] = 0
      BY <2>1
    <3> QED
      BY <3>1
  <2> QED
    BY <2>2, Zenon DEF MailedOnce
<1> QED
  BY <1>3, <1>4, <1>5, <1>6, <1>7 DEF SessionInv

LEMMA SessionFollows == SessionInv => RemindersAreKept
<1> SUFFICES ASSUME SessionInv PROVE RemindersAreKept
  OBVIOUS
<1>1. session # NoSession => \A l \in session.sent, m \in Member : mailed[<<l, m>>] > 0
  BY DEF SessionInv, ListsOnlySent
<1>2. ~raced => \A x \in DOMAIN mailed : mailed[x] < 2
  BY SessionFacts DEF MailedOnce
<1> QED
  BY <1>1, <1>2 DEF RemindersAreKept

----------------------------------------------------------------------------
(* Proofs: batch jobs.                                                     *)

LEMMA BatchFacts ==
  ASSUME BatchInv
  PROVE  /\ job \in [Job -> JobRow \cup {NoJob}] /\ run \in [Job -> Run \cup {NoJob}]
         /\ stuck \subseteq Job /\ undone \subseteq Job
         /\ crashed \in BOOLEAN /\ restarts \in 0..MaxRestarts
         /\ Items \in Nat /\ Items > 0 /\ ChunkSize \in Nat /\ MaxRestarts \in Nat
         /\ NoJob \notin JobRow /\ NoJob \notin Run
         /\ \A j \in stuck : job[j] # NoJob
         /\ \A j \in Job : RunCounts(j) /\ VerdictAccounts(j)
BY BatchAssumption DEF BatchInv, BatchTypeOK

LEMMA JobFields ==
  ASSUME NEW row \in JobRow
  PROVE  /\ row.status \in {"pending", "processing", "completed", "failed"}
         /\ row.old \in BOOLEAN /\ row.processedItems \in Count /\ row.failedItems \in Count
BY DEF JobRow

LEMMA RunFields ==
  ASSUME NEW r \in Run
  PROVE  r.at \in {"queued", "items", "chunk", "verdict"} /\ r.ok \in Count /\ r.bad \in Count
BY DEF Run

\* What a run must have counted, and what a verdict must account for.
CountsFit(r) ==
  r # NoJob => /\ r.ok + r.bad <= Items
               /\ r.at \in {"queued", "items"} => r.ok + r.bad < Items
               /\ r.at = "verdict" => r.ok + r.bad = Items

VerdictFits(row, r) ==
  row.status \in {"completed", "failed"} =>
    /\ row.processedItems + row.failedItems = Items
    /\ row.status = "failed" <=> row.processedItems = 0
    /\ r = NoJob

\* One job's row and run change, at most.
LEMMA BatchFinish ==
  ASSUME BatchInv, NEW j \in Job, NEW row \in JobRow, NEW r \in Run \cup {NoJob},
         job' = [job EXCEPT ![j] = row], run' = [run EXCEPT ![j] = r],
         stuck' \subseteq stuck, undone' \subseteq Job, crashed' = crashed, restarts' = restarts,
         CountsFit(r), VerdictFits(row, r)
  PROVE  BatchInv'
<1>1. /\ job' \in [Job -> JobRow \cup {NoJob}] /\ run' \in [Job -> Run \cup {NoJob}]
      /\ job'[j] = row /\ run'[j] = r /\ row # NoJob
      /\ \A k \in Job \ {j} : job'[k] = job[k] /\ run'[k] = run[k]
  BY BatchFacts
<1>2. BatchTypeOK'
  BY <1>1, BatchFacts DEF BatchTypeOK
<1>3. \A k \in stuck' : job'[k] # NoJob
  <2> TAKE k \in stuck'
  <2>1. k \in Job /\ job[k] # NoJob
    BY BatchFacts
  <2> QED
    BY <1>1, <2>1
<1>4. RunCounts(j)' /\ VerdictAccounts(j)'
  BY <1>1 DEF RunCounts, VerdictAccounts, Accounted, CountsFit, VerdictFits
<1>5. \A k \in Job \ {j} : RunCounts(k)' /\ VerdictAccounts(k)'
  <2> TAKE k \in Job \ {j}
  <2>1. RunCounts(k) /\ VerdictAccounts(k)
    BY BatchFacts
  <2>2. job'[k] = job[k] /\ run'[k] = run[k]
    BY <1>1
  <2> QED
    BY <2>1, <2>2 DEF RunCounts, VerdictAccounts, Accounted
<1>6. \A k \in Job : RunCounts(k)' /\ VerdictAccounts(k)'
  BY <1>4, <1>5
<1> QED
  BY <1>2, <1>3, <1>6 DEF BatchInv

LEMMA CreateBatchStep ==
  ASSUME BatchInv, NEW j \in Job, CreateBatch(j)
  PROVE  BatchInv'
<1> DEFINE row == [status |-> "pending", old |-> FALSE, processedItems |-> 0, failedItems |-> 0]
           r == [at |-> "queued", ok |-> 0, bad |-> 0]
<1>1. 0 \in Count /\ Items \in Nat /\ Items > 0
  BY BatchFacts DEF Count
<1>2. row \in JobRow /\ VerdictFits(row, r)
  BY <1>1 DEF JobRow, VerdictFits
<1>3. r \in Run /\ CountsFit(r)
  BY <1>1 DEF Run, CountsFit
<1>4. job' = [job EXCEPT ![j] = row] /\ run' = [run EXCEPT ![j] = r]
      /\ stuck' = stuck /\ undone' = undone /\ crashed' = crashed /\ restarts' = restarts
  BY DEF CreateBatch
<1>5. undone' \subseteq Job /\ stuck' \subseteq stuck
  BY <1>4, BatchFacts
<1> HIDE DEF row, r
<1> QED
  BY <1>2, <1>3, <1>4, <1>5, BatchFinish

\* The changes that the steps make to a row of the table and to a run.
LEMMA RowMarked ==
  ASSUME NEW row \in JobRow, NEW st \in {"pending", "processing", "completed", "failed"}
  PROVE  /\ [row EXCEPT !.status = st] \in JobRow
         /\ [row EXCEPT !.status = st].status = st
         /\ [row EXCEPT !.status = st].processedItems = row.processedItems
         /\ [row EXCEPT !.status = st].failedItems = row.failedItems
BY DEF JobRow

LEMMA RowAged ==
  ASSUME NEW row \in JobRow
  PROVE  /\ [row EXCEPT !.old = FALSE] \in JobRow
         /\ [row EXCEPT !.old = TRUE] \in JobRow
         /\ [row EXCEPT !.old = FALSE].status = row.status
         /\ [row EXCEPT !.old = TRUE].status = row.status
BY DEF JobRow

LEMMA RowCounted ==
  ASSUME NEW row \in JobRow, NEW n \in Count
  PROVE  /\ [row EXCEPT !.processedItems = n] \in JobRow
         /\ [row EXCEPT !.processedItems = n].status = row.status
         /\ [row EXCEPT !.processedItems = n].processedItems = n
         /\ [row EXCEPT !.failedItems = n] \in JobRow
         /\ [row EXCEPT !.failedItems = n].status = row.status
         /\ [row EXCEPT !.failedItems = n].processedItems = row.processedItems
         /\ [row EXCEPT !.failedItems = n].failedItems = n
BY DEF JobRow

LEMMA RunChanges ==
  ASSUME NEW r \in Run, NEW at \in {"queued", "items", "chunk", "verdict"}
  PROVE  /\ [r EXCEPT !.at = at] = [at |-> at, ok |-> r.ok, bad |-> r.bad]
         /\ [at |-> at, ok |-> r.ok, bad |-> r.bad] \in Run
BY DEF Run

\* The steps of a run.
LEMMA RunStep ==
  ASSUME BatchInv, NEW j \in Job,
         StartBatch(j) \/ ProcessItem(j) \/ SaveChunk(j) \/ SaveVerdict(j)
  PROVE  BatchInv'
<1>1. PICK r \in Run : r = run[j]
  BY BatchFacts DEF StartBatch, ProcessItem, SaveChunk, SaveVerdict
<1>2. /\ r.at \in {"queued", "items", "chunk", "verdict"} /\ r # NoJob
      /\ r.ok \in Nat /\ r.bad \in Nat /\ r.ok \in Count /\ r.bad \in Count
      /\ r.ok + r.bad <= Items /\ Items \in Nat
      /\ r.at \in {"queued", "items"} => r.ok + r.bad < Items
      /\ r.at = "verdict" => r.ok + r.bad = Items
  BY <1>1, BatchFacts, RunFields DEF Count, RunCounts
<1>3. PICK row \in JobRow : row = job[j]
  BY <1>1, <1>2, BatchFacts DEF RunCounts
<1>4. /\ row.status \notin {"completed", "failed"}
      /\ row.status \in {"pending", "processing", "completed", "failed"} /\ row.old \in BOOLEAN
      /\ row.processedItems \in Count /\ row.failedItems \in Count
  BY <1>1, <1>2, <1>3, BatchFacts, JobFields DEF VerdictAccounts
<1>5. CASE StartBatch(j)
  <2> DEFINE row1 == [row EXCEPT !.status = "processing"]
             row2 == [row1 EXCEPT !.old = FALSE]
             r2 == [at |-> "items", ok |-> r.ok, bad |-> r.bad]
  <2>1. r.at = "queued"
    BY <1>1, <1>5 DEF StartBatch
  <2>2. row2 \in JobRow /\ [row EXCEPT !.status = "processing", !.old = FALSE] = row2 /\ VerdictFits(row2, r2)
    <3>1. row1 \in JobRow /\ row1.status = "processing"
      BY RowMarked
    <3>2. [row EXCEPT !.status = "processing", !.old = FALSE] = row2
      OBVIOUS
    <3> HIDE DEF row1
    <3>3. row2 \in JobRow /\ row2.status = row1.status
      BY <3>1, RowAged
    <3> QED
      BY <3>1, <3>2, <3>3 DEF VerdictFits
  <2>3. r2 \in Run /\ [r EXCEPT !.at = "items"] = r2 /\ CountsFit(r2)
    BY <1>2, <2>1, RunChanges DEF CountsFit
  <2>4. /\ job' = [job EXCEPT ![j] = row2] /\ run' = [run EXCEPT ![j] = r2]
        /\ stuck' \subseteq stuck /\ undone' = undone /\ crashed' = crashed /\ restarts' = restarts
    BY <1>1, <1>3, <1>5, <2>2, <2>3 DEF StartBatch
  <2>5. undone' \subseteq Job
    BY <2>4, BatchFacts
  <2> HIDE DEF row2, r2
  <2> QED
    BY <2>2, <2>3, <2>4, <2>5, BatchFinish
<1>6. CASE ProcessItem(j)
  <2>1. PICK good \in {0, 1} :
          LET n == run[j].ok + run[j].bad + 1
          IN  run' = [run EXCEPT ![j] = [at |-> IF n % ChunkSize = 0 \/ n = Items THEN "chunk" ELSE "items",
                                         ok |-> run[j].ok + good, bad |-> run[j].bad + 1 - good]]
    BY <1>6 DEF ProcessItem
  <2>2. PICK n : n = r.ok + r.bad + 1
    OBVIOUS
  <2>3. PICK at : at = IF n % ChunkSize = 0 \/ n = Items THEN "chunk" ELSE "items"
    OBVIOUS
  <2>4. at \in {"chunk", "items"} /\ (at = "items" => n # Items)
    BY <2>3
  <2> DEFINE r2 == [at |-> at, ok |-> r.ok + good, bad |-> r.bad + 1 - good]
  <2>5. r.at = "items" /\ job' = job /\ undone' = undone
        /\ stuck' \subseteq stuck /\ crashed' = crashed /\ restarts' = restarts
    BY <1>1, <1>6 DEF ProcessItem
  <2>6. /\ r.ok + good \in Count /\ r.bad + 1 - good \in Count
        /\ (r.ok + good) + (r.bad + 1 - good) = n
        /\ n <= Items /\ n \in Int /\ (at = "items" => n < Items)
    BY <1>2, <2>2, <2>4, <2>5 DEF Count
  <2>7. r2 \in Run /\ r2.at = at /\ r2.ok + r2.bad = n
    BY <2>4, <2>6 DEF Run
  <2>8. run' = [run EXCEPT ![j] = r2]
    BY <1>1, <2>1, <2>2, <2>3
  <2>9. job' = [job EXCEPT ![j] = row] /\ undone' \subseteq Job
    BY <1>3, <2>5, BatchFacts
  <2> HIDE DEF r2
  <2>10. CountsFit(r2)
    BY <2>4, <2>6, <2>7 DEF CountsFit
  <2>11. VerdictFits(row, r2)
    BY <1>4 DEF VerdictFits
  <2> QED
    BY <2>5, <2>7, <2>8, <2>9, <2>10, <2>11, BatchFinish
<1>7. CASE SaveChunk(j)
  <2>1. PICK at : at = IF r.ok + r.bad < Items THEN "items" ELSE "verdict"
    OBVIOUS
  <2>2. /\ at \in {"items", "verdict"} /\ (at = "items" => r.ok + r.bad < Items)
        /\ at = "verdict" => r.ok + r.bad = Items
    BY <1>2, <2>1
  <2> DEFINE row1 == [row EXCEPT !.processedItems = r.ok]
             row2 == [row1 EXCEPT !.failedItems = r.bad]
             r2 == [at |-> at, ok |-> r.ok, bad |-> r.bad]
  <2>3. row2 \in JobRow /\ [row EXCEPT !.processedItems = r.ok, !.failedItems = r.bad] = row2 /\ VerdictFits(row2, r2)
    <3>1. [row EXCEPT !.processedItems = r.ok, !.failedItems = r.bad] = row2
      OBVIOUS
    <3>2. row2 \in JobRow /\ row2.status = row.status
      <4>1. row1 \in JobRow /\ row1.status = row.status
        BY <1>2, RowCounted
      <4> HIDE DEF row1
      <4> QED
        BY <1>2, <4>1, RowCounted
    <3> QED
      BY <1>4, <3>1, <3>2 DEF VerdictFits
  <2>4. r2 \in Run /\ [r EXCEPT !.at = at] = r2 /\ CountsFit(r2)
    BY <1>2, <2>2, RunChanges DEF CountsFit
  <2>5. /\ job' = [job EXCEPT ![j] = row2] /\ run' = [run EXCEPT ![j] = r2]
        /\ stuck' \subseteq stuck /\ undone' = undone /\ crashed' = crashed /\ restarts' = restarts
    <3>1. job' = [job EXCEPT ![j] = [row EXCEPT !.processedItems = r.ok, !.failedItems = r.bad]]
      BY <1>1, <1>3, <1>7 DEF SaveChunk
    <3>2. run' = [run EXCEPT ![j] = [r EXCEPT !.at = at]]
      BY <1>1, <1>7, <2>1 DEF SaveChunk
    <3> QED
      BY <1>7, <2>3, <2>4, <3>1, <3>2 DEF SaveChunk
  <2>6. undone' \subseteq Job
    BY <2>5, BatchFacts
  <2> HIDE DEF row2, r2
  <2> QED
    BY <2>3, <2>4, <2>5, <2>6, BatchFinish
<1>8. CASE SaveVerdict(j)
  <2>1. PICK st : st = IF r.bad = Items THEN "failed" ELSE "completed"
    OBVIOUS
  <2>2. st \in {"failed", "completed"} /\ (st = "failed" <=> r.bad = Items)
    BY <2>1
  <2> DEFINE row1 == [row EXCEPT !.old = FALSE]
             row2 == [row1 EXCEPT !.processedItems = r.ok]
             row3 == [row2 EXCEPT !.failedItems = r.bad]
             row4 == [row3 EXCEPT !.status = st]
  <2>3. r.at = "verdict"
    BY <1>1, <1>8 DEF SaveVerdict
  <2>4. r.ok + r.bad = Items /\ (r.bad = Items <=> r.ok = 0)
    BY <1>2, <2>3
  <2>5. row4 \in JobRow /\ row4.status = st /\ row4.processedItems = r.ok /\ row4.failedItems = r.bad
        /\ [row EXCEPT !.old = FALSE, !.processedItems = r.ok, !.failedItems = r.bad, !.status = st] = row4
    <3>1. [row EXCEPT !.old = FALSE, !.processedItems = r.ok, !.failedItems = r.bad, !.status = st] = row4
      OBVIOUS
    <3>2. row1 \in JobRow
      BY RowAged
    <3> HIDE DEF row1
    <3>3. row3 \in JobRow /\ row3.processedItems = r.ok /\ row3.failedItems = r.bad
      <4>1. row2 \in JobRow /\ row2.processedItems = r.ok
        BY <1>2, <3>2, RowCounted
      <4> HIDE DEF row2
      <4> QED
        BY <1>2, <4>1, RowCounted
    <3> HIDE DEF row3
    <3>4. row4 \in JobRow /\ row4.status = st /\ row4.processedItems = r.ok /\ row4.failedItems = r.bad
      <4>1. st \in {"pending", "processing", "completed", "failed"}
        BY <2>2
      <4> QED
        BY <3>3, <4>1, RowMarked
    <3> QED
      BY <3>1, <3>4
  <2> HIDE DEF row1, row2, row3, row4
  <2>6. VerdictFits(row4, NoJob) /\ CountsFit(NoJob) /\ NoJob \in Run \cup {NoJob}
    BY <2>2, <2>4, <2>5 DEF VerdictFits, CountsFit
  <2>7. /\ job' = [job EXCEPT ![j] = row4] /\ run' = [run EXCEPT ![j] = NoJob]
        /\ stuck' \subseteq stuck /\ undone' = undone /\ crashed' = crashed /\ restarts' = restarts
    <3>1. job' = [job EXCEPT ![j] = [row EXCEPT !.old = FALSE, !.processedItems = r.ok, !.failedItems = r.bad, !.status = st]]
      BY <1>1, <1>3, <1>8, <2>1 DEF SaveVerdict
    <3> QED
      BY <1>8, <2>5, <3>1 DEF SaveVerdict
  <2>8. undone' \subseteq Job
    BY <2>7, BatchFacts
  <2> QED
    BY <2>5, <2>6, <2>7, <2>8, BatchFinish
<1> QED
  BY <1>5, <1>6, <1>7, <1>8

LEMMA GrowOldStep ==
  ASSUME BatchInv, NEW j \in Job, GrowOld(j)
  PROVE  BatchInv'
<1>1. PICK row \in JobRow : row = job[j]
  BY BatchFacts DEF GrowOld
<1>2. PICK r \in Run \cup {NoJob} : r = run[j]
  BY BatchFacts
<1> DEFINE row2 == [row EXCEPT !.old = TRUE]
<1>3. row2 \in JobRow /\ row2.status = row.status
  BY RowAged
<1>4. /\ job' = [job EXCEPT ![j] = row2] /\ row.status = "processing"
      /\ run' = run /\ stuck' \subseteq stuck /\ undone' = undone /\ crashed' = crashed /\ restarts' = restarts
  BY <1>1, <1>3 DEF GrowOld
<1>5. run' = [run EXCEPT ![j] = r] /\ undone' \subseteq Job
  BY <1>2, <1>4, BatchFacts
<1>6. CountsFit(r)
  BY <1>2, BatchFacts DEF RunCounts, CountsFit
<1>7. VerdictFits(row2, r)
  BY <1>3, <1>4 DEF VerdictFits
<1> HIDE DEF row2
<1> QED
  BY <1>3, <1>4, <1>5, <1>6, <1>7, BatchFinish

LEMMA PutBackStep ==
  ASSUME BatchInv, NEW j \in Job, PutBack(j)
  PROVE  BatchInv'
<1>1. PICK row \in JobRow : row = job[j]
  BY BatchFacts DEF PutBack
<1>2. PICK r \in Run \cup {NoJob} : r = run[j]
  BY BatchFacts
<1> DEFINE row1 == [row EXCEPT !.status = "pending"]
           row2 == [row1 EXCEPT !.old = FALSE]
<1>3. row2 \in JobRow /\ row2.status = "pending" /\ [row EXCEPT !.status = "pending", !.old = FALSE] = row2
  <2>1. row1 \in JobRow /\ row1.status = "pending"
    BY RowMarked
  <2>2. [row EXCEPT !.status = "pending", !.old = FALSE] = row2
    OBVIOUS
  <2> HIDE DEF row1
  <2> QED
    BY <2>1, <2>2, RowAged
<1>4. /\ job' = [job EXCEPT ![j] = row2] /\ run' = run /\ stuck' \subseteq stuck
      /\ crashed' = crashed /\ restarts' = restarts
  BY <1>1, <1>3 DEF PutBack
<1>5. run' = [run EXCEPT ![j] = r]
  BY <1>2, <1>4, BatchFacts
<1>6. undone' \subseteq Job
  BY BatchFacts DEF PutBack
<1>7. CountsFit(r)
  BY <1>2, BatchFacts DEF RunCounts, CountsFit
<1>8. VerdictFits(row2, r)
  BY <1>3 DEF VerdictFits
<1> HIDE DEF row2
<1> QED
  BY <1>3, <1>4, <1>5, <1>6, <1>7, <1>8, BatchFinish

LEMMA RecoverStep ==
  ASSUME BatchInv, RecoverStuckJobs
  PROVE  BatchInv'
<1>1. /\ restarts' \in 0..MaxRestarts /\ crashed' \in BOOLEAN /\ stuck' \subseteq Job
      /\ \A j \in stuck' : job[j] # NoJob
      /\ UNCHANGED <<job, undone>>
      /\ run' = [j \in Job |-> NoJob] \/ run' = run
  <2>1. restarts' \in 0..MaxRestarts
    BY BatchFacts DEF RecoverStuckJobs
  <2>2. crashed' \in BOOLEAN
    BY BatchFacts DEF RecoverStuckJobs
  <2>3. stuck' \subseteq Job /\ \A j \in stuck' : job[j] # NoJob
    BY BatchFacts DEF RecoverStuckJobs
  <2> QED
    BY <2>1, <2>2, <2>3 DEF RecoverStuckJobs
<1>2. /\ run' \in [Job -> Run \cup {NoJob}]
      /\ \A j \in Job : run'[j] = NoJob \/ run'[j] = run[j]
  BY <1>1, BatchFacts
<1>3. BatchTypeOK'
  BY <1>1, <1>2, BatchFacts DEF BatchTypeOK
<1>4. \A j \in Job : RunCounts(j)' /\ VerdictAccounts(j)'
  BY <1>1, <1>2, BatchFacts DEF RunCounts, VerdictAccounts, Accounted
<1> QED
  BY <1>1, <1>3, <1>4 DEF BatchInv

LEMMA BatchStep == BatchInv /\ [BatchNext]_batchVars => BatchInv'
<1> SUFFICES ASSUME BatchInv, [BatchNext]_batchVars PROVE BatchInv'
  OBVIOUS
<1>1. CASE UNCHANGED batchVars
  BY <1>1 DEF batchVars, BatchInv, BatchTypeOK, RunCounts, VerdictAccounts, Accounted
<1>2. CASE RecoverStuckJobs
  BY <1>2, RecoverStep
<1>3. ASSUME NEW j \in Job,
             CreateBatch(j) \/ StartBatch(j) \/ ProcessItem(j) \/ SaveChunk(j)
               \/ SaveVerdict(j) \/ GrowOld(j) \/ PutBack(j)
      PROVE  BatchInv'
  BY <1>3, CreateBatchStep, RunStep, GrowOldStep, PutBackStep
<1> QED
  BY <1>1, <1>2, <1>3 DEF BatchNext

LEMMA BatchStart == BatchInit => BatchInv
<1> SUFFICES ASSUME BatchInit PROVE BatchInv
  OBVIOUS
<1>1. 0 \in 0..MaxRestarts
  BY BatchAssumption
<1>2. BatchTypeOK
  BY <1>1 DEF BatchInit, BatchTypeOK
<1>3. \A j \in Job : RunCounts(j) /\ VerdictAccounts(j)
  BY DEF BatchInit, RunCounts, VerdictAccounts
<1> QED
  BY <1>2, <1>3 DEF BatchInit, BatchInv

----------------------------------------------------------------------------
(* Proofs: webhooks.                                                       *)

CopyFits(c) ==
  /\ delivery[c.id] # NoDelivery
  /\ DeliveryTells(c.id, c.row)
  /\ c.at = "post" => c.row.status = "PENDING"

LEMMA WebhookFacts ==
  ASSUME WebhookInv
  PROVE  /\ delivery \in [Delivery -> DeliveryRow \cup {NoDelivery}]
         /\ queue \in Seq(Delivery) /\ publishing \subseteq Delivery /\ acked \subseteq Delivery
         /\ lane \in [Lane -> SUBSET Copy] /\ posts \in [Delivery -> 0..MaxPosts]
         /\ hookEdits \in 0..MaxHookEdits /\ hookFaults \in 0..MaxHookFaults
         /\ MaxPosts \in Nat /\ MaxPosts > 0 /\ MaxHookFaults \in Nat /\ MaxHookEdits \in Nat
         /\ MaxConcurrent \in Nat /\ MaxConcurrent > 0
         /\ NoDelivery \notin DeliveryRow /\ "queue" \in Lane
         /\ \A d \in Delivery : delivery[d] # NoDelivery => DeliveryTells(d, delivery[d])
         /\ \A i \in DOMAIN queue : delivery[queue[i]] # NoDelivery
         /\ \A l \in Lane : \A c \in lane[l] : CopyFits(c)
BY WebhookAssumption DEF WebhookInv, WebhookTypeOK, CopyFits, Lane

LEMMA DeliveryFields ==
  ASSUME NEW row \in DeliveryRow
  PROVE  /\ row.status \in {"PENDING", "SUCCESS", "FAILED"}
         /\ row.attempts \in 0..MaxPosts /\ row.nextRetryAt \in {"null", "later", "due"}
BY DEF DeliveryRow

LEMMA CopyFields ==
  ASSUME NEW c \in Copy
  PROVE  c.id \in Delivery /\ c.row \in DeliveryRow /\ c.at \in {"post", "save"}
BY DEF Copy

\* The changes that the steps make to a row and to a copy.
LEMMA DeliveryChanges ==
  ASSUME NEW row \in DeliveryRow
  PROVE  /\ \A n \in 0..MaxPosts :
              /\ [row EXCEPT !.attempts = n] \in DeliveryRow
              /\ [row EXCEPT !.attempts = n].attempts = n
              /\ [row EXCEPT !.attempts = n].status = row.status
         /\ \A st \in {"PENDING", "SUCCESS", "FAILED"} :
              /\ [row EXCEPT !.status = st] \in DeliveryRow
              /\ [row EXCEPT !.status = st].attempts = row.attempts
              /\ [row EXCEPT !.status = st].status = st
         /\ \A at \in {"null", "later", "due"} :
              /\ [row EXCEPT !.nextRetryAt = at] \in DeliveryRow
              /\ [row EXCEPT !.nextRetryAt = at].attempts = row.attempts
              /\ [row EXCEPT !.nextRetryAt = at].status = row.status
BY DEF DeliveryRow

LEMMA CopyChanges ==
  ASSUME NEW c \in Copy, NEW row \in DeliveryRow, NEW at \in {"post", "save"}
  PROVE  /\ [c EXCEPT !.at = at] \in Copy
         /\ [c EXCEPT !.at = at].at = at
         /\ [c EXCEPT !.at = at].id = c.id
         /\ [c EXCEPT !.at = at].row = c.row
         /\ [c EXCEPT !.row = row] \in Copy
         /\ [c EXCEPT !.row = row].at = c.at
         /\ [c EXCEPT !.row = row].id = c.id
         /\ [c EXCEPT !.row = row].row = row
BY DEF Copy

\* One more attempt, and the verdict its answer gives.
LEMMA JudgeCounts ==
  ASSUME NEW row \in DeliveryRow, NEW ok \in BOOLEAN, row.attempts < MaxPosts, MaxPosts \in Nat
  PROVE  /\ Judge(row, ok) \in DeliveryRow
         /\ Judge(row, ok).attempts = row.attempts + 1
         /\ Judge(row, ok).status = "SUCCESS" => ok
         /\ Judge(row, ok).status = "PENDING" => row.attempts + 1 < MaxPosts
         /\ Judge(row, ok).status = "FAILED" => row.attempts + 1 = MaxPosts
<1>1. PICK n : n = row.attempts + 1
  OBVIOUS
<1>2. n \in 0..MaxPosts /\ (~(n < MaxPosts) => n = MaxPosts)
  BY <1>1, DeliveryFields
<1> DEFINE r1 == [row EXCEPT !.attempts = n]
<1>3. r1 \in DeliveryRow /\ r1.attempts = n
  BY <1>2, DeliveryChanges
<1>7. PICK v : v = Judge(row, ok)
  OBVIOUS
<1> SUFFICES /\ v \in DeliveryRow /\ v.attempts = n
             /\ v.status = "SUCCESS" => ok
             /\ v.status = "PENDING" => n < MaxPosts
             /\ v.status = "FAILED" => n = MaxPosts
  BY <1>1, <1>7, Zenon
<1>4. CASE ok
  <2>1. v = [row EXCEPT !.attempts = row.attempts + 1, !.status = "SUCCESS"]
    BY <1>4, <1>7, Zenon DEF Judge
  <2>2. v = [r1 EXCEPT !.status = "SUCCESS"]
    BY <1>1, <2>1
  <2> HIDE DEF r1
  <2>3. v \in DeliveryRow /\ v.attempts = n /\ v.status = "SUCCESS"
    BY <1>3, <2>2, DeliveryChanges
  <2> QED
    BY <1>1, <1>4, <2>3
<1>5. CASE ~ok /\ n < MaxPosts
  <2>1. v = [row EXCEPT !.attempts = row.attempts + 1, !.status = "PENDING", !.nextRetryAt = "later"]
    BY <1>1, <1>5, <1>7, Zenon DEF Judge
  <2> DEFINE r2 == [r1 EXCEPT !.status = "PENDING"]
  <2>2. v = [r2 EXCEPT !.nextRetryAt = "later"]
    BY <1>1, <2>1
  <2> HIDE DEF r1
  <2>3. r2 \in DeliveryRow /\ r2.attempts = n /\ r2.status = "PENDING"
    BY <1>3, DeliveryChanges
  <2> HIDE DEF r2
  <2>4. v \in DeliveryRow /\ v.attempts = n /\ v.status = "PENDING"
    BY <2>2, <2>3, DeliveryChanges
  <2> QED
    BY <1>1, <1>5, <2>4
<1>6. CASE ~ok /\ ~(n < MaxPosts)
  <2>1. v = [row EXCEPT !.attempts = row.attempts + 1, !.status = "FAILED"]
    BY <1>1, <1>6, <1>7, Zenon DEF Judge
  <2>2. v = [r1 EXCEPT !.status = "FAILED"]
    BY <1>1, <2>1
  <2> HIDE DEF r1
  <2>3. v \in DeliveryRow /\ v.attempts = n /\ v.status = "FAILED"
    BY <1>3, <2>2, DeliveryChanges
  <2> QED
    BY <1>1, <1>2, <1>6, <2>3
<1> QED
  BY <1>4, <1>5, <1>6

\* What was posted and acknowledged only grows, rows do not vanish, and what
\* is new tells the truth.
LEMMA WebhookFinish ==
  ASSUME WebhookInv, WebhookTypeOK', lane' \in [Lane -> SUBSET Copy],
         \A d \in Delivery : posts[d] <= posts'[d], acked \subseteq acked',
         \A d \in Delivery : delivery[d] # NoDelivery => delivery'[d] # NoDelivery,
         \A d \in Delivery : delivery'[d] # NoDelivery =>
           delivery'[d] = delivery[d] \/ DeliveryTells(d, delivery[d])',
         \A i \in DOMAIN queue' : delivery'[queue'[i]] # NoDelivery,
         \A l \in Lane : \A c \in lane'[l] : c \in lane[l] \/ CopyFits(c)'
  PROVE  WebhookInv'
<1>1. ASSUME NEW d \in Delivery, NEW row \in DeliveryRow, DeliveryTells(d, row)
      PROVE  DeliveryTells(d, row)'
  <2>1. /\ row.attempts <= posts[d] /\ posts[d] <= posts'[d]
        /\ row.attempts \in Nat /\ posts[d] \in Nat /\ posts'[d] \in Nat
    BY <1>1, WebhookFacts, DeliveryFields DEF DeliveryTells, WebhookTypeOK
  <2> QED
    BY <1>1, <2>1 DEF DeliveryTells
<1>2. ASSUME NEW d \in Delivery, delivery'[d] # NoDelivery PROVE DeliveryTells(d, delivery[d])'
  <2>1. CASE delivery'[d] = delivery[d]
    <3>1. PICK row \in DeliveryRow : row = delivery[d] /\ row = delivery'[d]
      BY <1>2, <2>1, WebhookFacts
    <3>2. DeliveryTells(d, row)
      BY <1>2, <2>1, <3>1, WebhookFacts
    <3> QED
      BY <1>1, <3>1, <3>2
  <2> QED
    BY <1>2, <2>1
<1>3. ASSUME NEW l \in Lane, NEW c \in lane'[l] PROVE CopyFits(c)'
  <2>1. CASE c \in lane[l]
    <3>1. c \in Copy /\ CopyFits(c)
      BY <2>1, WebhookFacts
    <3>2. c.id \in Delivery /\ c.row \in DeliveryRow
      BY <3>1, CopyFields
    <3> QED
      BY <1>1, <3>1, <3>2 DEF CopyFits
  <2> QED
    BY <2>1, <1>3
<1> QED
  BY <1>2, <1>3 DEF WebhookInv, CopyFits

\* Steps that touch neither rows nor copies.
LEMMA HookSteps ==
  ASSUME WebhookInv, WebhookTypeOK', UNCHANGED <<delivery, queue, lane, posts, acked>>
  PROVE  WebhookInv'
BY DEF WebhookInv, DeliveryTells

LEMMA RegistrationStep ==
  ASSUME WebhookInv, NEW h \in Hook,
         \/ RegisterHook(h) \/ SaveHook(h)
         \/ \E to \in {"active", "inactive", "deleted"} : EditHook(h, to)
  PROVE  WebhookInv'
<1>1. /\ hook \in [Hook -> {"none", "active", "inactive", "deleted"}]
      /\ edit \in [Hook -> SUBSET {"active", "inactive", "deleted"}]
  BY DEF WebhookInv, WebhookTypeOK
<1>2. CASE RegisterHook(h)
  <2>1. /\ hook' \in [Hook -> {"none", "active", "inactive", "deleted"}]
        /\ UNCHANGED <<edit, hookEdits, publishing, delivery, queue, lane, posts, acked, hookFaults>>
    BY <1>1, <1>2 DEF RegisterHook
  <2>2. WebhookTypeOK'
    BY <2>1 DEF WebhookInv, WebhookTypeOK
  <2> QED
    BY <2>1, <2>2, HookSteps
<1>3. CASE SaveHook(h)
  <2>1. PICK to \in edit[h] : hook' = [hook EXCEPT ![h] = to] /\ edit' = [edit EXCEPT ![h] = @ \ {to}]
    BY <1>3 DEF SaveHook
  <2>2. hook' \in [Hook -> {"none", "active", "inactive", "deleted"}]
    BY <1>1, <2>1
  <2>3. edit' \in [Hook -> SUBSET {"active", "inactive", "deleted"}]
    BY <1>1, <2>1
  <2>4. UNCHANGED <<hookEdits, publishing, delivery, queue, lane, posts, acked, hookFaults>>
    BY <1>3 DEF SaveHook
  <2>5. WebhookTypeOK'
    BY <2>2, <2>3, <2>4 DEF WebhookInv, WebhookTypeOK
  <2> QED
    BY <2>4, <2>5, HookSteps
<1>4. ASSUME NEW to \in {"active", "inactive", "deleted"}, EditHook(h, to) PROVE WebhookInv'
  <2>1. edit' \in [Hook -> SUBSET {"active", "inactive", "deleted"}]
    BY <1>1, <1>4 DEF EditHook
  <2>2. hookEdits' \in 0..MaxHookEdits
    BY <1>4, WebhookFacts DEF EditHook
  <2>3. UNCHANGED <<hook, publishing, delivery, queue, lane, posts, acked, hookFaults>>
    BY <1>4 DEF EditHook
  <2>4. WebhookTypeOK'
    BY <2>1, <2>2, <2>3 DEF WebhookInv, WebhookTypeOK
  <2> QED
    BY <2>3, <2>4, HookSteps
<1> QED
  BY <1>2, <1>3, <1>4

LEMMA PublishStep ==
  ASSUME WebhookInv, NEW d \in Delivery, Publish(d)
  PROVE  WebhookInv'
<1>1. /\ publishing' \subseteq Delivery
      /\ UNCHANGED <<hook, edit, hookEdits, delivery, queue, lane, posts, acked, hookFaults>>
  BY WebhookFacts DEF Publish
<1>2. WebhookTypeOK'
  BY <1>1 DEF WebhookInv, WebhookTypeOK
<1> QED
  BY <1>1, <1>2, HookSteps

\* A row that was just created, and the copy of it that is queued.
LEMMA FreshTells ==
  ASSUME WebhookInv, NEW d \in Delivery
  PROVE  /\ Fresh(d) \in Copy /\ Fresh(d).id = d /\ Fresh(d).at = "post"
         /\ Fresh(d).row \in DeliveryRow /\ Fresh(d).row.status = "PENDING" /\ Fresh(d).row.attempts = 0
<1>1. 0 \in 0..MaxPosts
  BY WebhookFacts
<1> DEFINE row == [status |-> "PENDING", attempts |-> 0, nextRetryAt |-> "null"]
<1>2. row \in DeliveryRow /\ row.status = "PENDING" /\ row.attempts = 0
  BY <1>1 DEF DeliveryRow
<1>3. Fresh(d) = [id |-> d, row |-> row, at |-> "post"]
  BY DEF Fresh
<1> HIDE DEF row
<1> QED
  BY <1>2, <1>3 DEF Copy

LEMMA FreshFits ==
  ASSUME WebhookInv, NEW d \in Delivery, delivery'[d] # NoDelivery, posts'[d] \in Nat, WebhookTypeOK'
  PROVE  CopyFits(Fresh(d))' /\ DeliveryTells(d, Fresh(d).row)'
<1>1. PICK c : c = Fresh(d)
  OBVIOUS
<1>2. c.id = d /\ c.at = "post" /\ c.row.status = "PENDING" /\ c.row.attempts = 0
  BY <1>1, FreshTells
<1>3. Fresh(d)' = c
  BY <1>1 DEF Fresh
<1>4. DeliveryTells(d, c.row)'
  BY <1>2, WebhookFacts DEF DeliveryTells
<1>5. CopyFits(c)'
  BY <1>2, <1>4 DEF CopyFits
<1> QED
  BY <1>3, <1>4, <1>5 DEF CopyFits

LEMMA EnqueueStep ==
  ASSUME WebhookInv, NEW d \in Delivery, Enqueue(d)
  PROVE  WebhookInv'
<1>1. PICK c \in Copy : c = Fresh(d) /\ c.row \in DeliveryRow
  BY FreshTells
<1>2. /\ delivery' = [delivery EXCEPT ![d] = c.row]
      /\ UNCHANGED <<hook, edit, hookEdits, posts, acked, hookFaults>>
      /\ publishing' \subseteq Delivery
  BY <1>1, WebhookFacts DEF Enqueue
<1>3. \/ lane' = [lane EXCEPT !["queue"] = {c}] /\ queue' = queue
      \/ queue' = Append(queue, d) /\ lane' = lane
  BY <1>1 DEF Enqueue
<1>4. /\ delivery' \in [Delivery -> DeliveryRow \cup {NoDelivery}]
      /\ delivery'[d] = c.row /\ delivery'[d] # NoDelivery
      /\ \A e \in Delivery : e # d => delivery'[e] = delivery[e]
  BY <1>1, <1>2, WebhookFacts
<1>5. queue' \in Seq(Delivery) /\ \A i \in DOMAIN queue' : delivery'[queue'[i]] # NoDelivery
  <2>1. queue \in Seq(Delivery) /\ \A i \in DOMAIN queue : queue[i] \in Delivery /\ delivery'[queue[i]] # NoDelivery
    <3>1. \A i \in DOMAIN queue : queue[i] \in Delivery /\ delivery[queue[i]] # NoDelivery
      BY WebhookFacts
    <3> QED
      BY <1>4, <3>1, WebhookFacts
  <2>2. CASE queue' = queue
    BY <2>1, <2>2
  <2>3. CASE queue' = Append(queue, d)
    <3>1. queue' \in Seq(Delivery) /\ Len(queue') = Len(queue) + 1
      BY <2>1, <2>3
    <3>2. ASSUME NEW i \in DOMAIN queue' PROVE delivery'[queue'[i]] # NoDelivery
      <4>1. queue'[i] = d \/ (i \in DOMAIN queue /\ queue'[i] = queue[i])
        BY <2>1, <2>3, <3>1, <3>2
      <4> QED
        BY <1>4, <2>1, <4>1
    <3> QED
      BY <3>1, <3>2
  <2> QED
    BY <1>3, <2>2, <2>3
<1>6. lane' \in [Lane -> SUBSET Copy] /\ \A l \in Lane : \A k \in lane'[l] : k \in lane[l] \/ k = c
  <2>1. lane \in [Lane -> SUBSET Copy] /\ {c} \in SUBSET Copy /\ "queue" \in Lane
    BY WebhookFacts
  <2>2. CASE lane' = [lane EXCEPT !["queue"] = {c}]
    <3>1. \A l \in Lane : lane'[l] = lane[l] \/ lane'[l] = {c}
      BY <2>1, <2>2
    <3> QED
      BY <2>1, <2>2, <3>1
  <2> QED
    BY <1>3, <2>1, <2>2
<1>7. WebhookTypeOK'
  BY <1>2, <1>4, <1>5, <1>6 DEF WebhookInv, WebhookTypeOK
<1>8. posts'[d] \in Nat /\ posts' = posts /\ \A e \in Delivery : posts[e] <= posts'[e]
  BY <1>2, WebhookFacts
<1>9. CopyFits(c)' /\ DeliveryTells(d, c.row)'
  <2>1. CopyFits(Fresh(d))' /\ DeliveryTells(d, Fresh(d).row)'
    BY <1>4, <1>7, <1>8, FreshFits
  <2>2. Fresh(d)' = c
    BY <1>1 DEF Fresh
  <2> QED
    BY <2>1, <2>2 DEF CopyFits
<1>10. \A e \in Delivery : delivery[e] # NoDelivery => delivery'[e] # NoDelivery
  BY <1>4
<1>11. \A e \in Delivery : delivery'[e] # NoDelivery => delivery'[e] = delivery[e] \/ DeliveryTells(e, delivery[e])'
  BY <1>4, <1>9
<1>12. \A l \in Lane : \A k \in lane'[l] : k \in lane[l] \/ CopyFits(k)'
  BY <1>6, <1>9
<1> QED
  BY <1>2, <1>5, <1>6, <1>7, <1>8, <1>10, <1>11, <1>12, WebhookFinish

\* drainQueue takes up the rows at the head of the queue.
LEMMA DrainedTakes ==
  ASSUME WebhookInv, NEW rest \in SUBSET lane["queue"], Drained(rest)
  PROVE  /\ lane' \in [Lane -> SUBSET Copy] /\ queue' \in Seq(Delivery)
         /\ \A i \in DOMAIN queue' : \E j \in DOMAIN queue : queue'[i] = queue[j]
         /\ \A l \in Lane : \A c \in lane'[l] :
              c \in lane[l] \/ \E j \in DOMAIN queue : c = Fresh(queue[j])
<1>1. PICK n : n = IF Len(queue) < MaxConcurrent THEN Len(queue) ELSE MaxConcurrent
  OBVIOUS
<1>2. n \in Nat /\ n <= Len(queue) /\ queue \in Seq(Delivery)
  BY <1>1, WebhookFacts
<1>3. CASE rest # {}
  <2>1. lane' = [lane EXCEPT !["queue"] = rest] /\ queue' = queue
    BY <1>3 DEF Drained
  <2>2. /\ lane' \in [Lane -> SUBSET Copy] /\ \A l \in Lane : \A c \in lane'[l] : c \in lane[l]
    BY <2>1, WebhookFacts
  <2>3. queue' \in Seq(Delivery) /\ \A i \in DOMAIN queue' : \E j \in DOMAIN queue : queue'[i] = queue[j]
    BY <1>2, <2>1
  <2> QED
    BY <2>2, <2>3
<1>4. CASE rest = {}
  <2>1. /\ lane' = [lane EXCEPT !["queue"] = {Fresh(queue[i]) : i \in 1..n}]
        /\ queue' = SubSeq(queue, n + 1, Len(queue))
    BY <1>1, <1>4 DEF Drained
  <2>2. \A i \in 1..n : i \in DOMAIN queue /\ queue[i] \in Delivery /\ Fresh(queue[i]) \in Copy
    <3> TAKE i \in 1..n
    <3>1. i \in DOMAIN queue /\ queue[i] \in Delivery
      BY <1>2
    <3> QED
      BY <3>1, FreshTells
  <2>3. PICK taken : taken = {Fresh(queue[i]) : i \in 1..n}
    OBVIOUS
  <2>4. taken \subseteq Copy /\ \A c \in taken : \E j \in DOMAIN queue : c = Fresh(queue[j])
    BY <2>2, <2>3
  <2>5. lane' = [lane EXCEPT !["queue"] = taken]
    BY <2>1, <2>3
  <2>6. /\ lane' \in [Lane -> SUBSET Copy]
        /\ \A l \in Lane : lane'[l] = lane[l] \/ lane'[l] = taken
    BY <2>4, <2>5, WebhookFacts
  <2>7. queue' \in Seq(Delivery) /\ \A i \in DOMAIN queue' : \E j \in DOMAIN queue : queue'[i] = queue[j]
    <3>1. Len(queue) \in Nat /\ n + 1 \in Nat /\ n + 1 >= 1
      BY <1>2
    <3>2. queue' \in Seq(Delivery) /\ Len(queue') = Len(queue) - n
      BY <1>2, <2>1, <3>1
    <3>3. ASSUME NEW i \in DOMAIN queue' PROVE i + n \in DOMAIN queue /\ queue'[i] = queue[i + n]
      BY <1>2, <2>1, <3>1, <3>2, <3>3
    <3> QED
      BY <3>2, <3>3
  <2> QED
    BY <2>4, <2>6, <2>7
<1> QED
  BY <1>3, <1>4

\* A post is answered, or not, and the copy says what came of it.
LEMMA PostStep ==
  ASSUME WebhookInv, NEW l \in Lane, NEW c \in lane[l], Post(l, c)
  PROVE  WebhookInv'
<1>1. /\ c \in Copy /\ c.id \in Delivery /\ c.row \in DeliveryRow /\ CopyFits(c)
      /\ c.at = "post" /\ c.row.status = "PENDING" /\ delivery[c.id] # NoDelivery
  BY WebhookFacts, CopyFields DEF Post, CopyFits
<1>2. UNCHANGED <<hook, edit, hookEdits, publishing, delivery, queue, hookFaults>>
  BY DEF Post
<1>3. CASE lane' = [lane EXCEPT ![l] = @ \ {c}] /\ UNCHANGED <<posts, acked>>
  <2>1. lane' \in [Lane -> SUBSET Copy] /\ \A k \in Lane : \A e \in lane'[k] : e \in lane[k]
    BY <1>3, WebhookFacts
  <2>2. WebhookTypeOK'
    BY <1>2, <1>3, <2>1 DEF WebhookInv, WebhookTypeOK
  <2>3. \A e \in Delivery : posts[e] <= posts'[e]
    BY <1>3, WebhookFacts
  <2> QED
    BY <1>2, <1>3, <2>1, <2>2, <2>3, WebhookFacts, WebhookFinish
<1>4. ASSUME NEW took \in BOOLEAN, NEW ok \in BOOLEAN, ok => took,
             lane' = [lane EXCEPT ![l] = (@ \ {c}) \cup {[c EXCEPT !.at = "save", !.row = Judge(@, ok)]}],
             posts' = [posts EXCEPT ![c.id] = IF @ < MaxPosts THEN @ + 1 ELSE @],
             acked' = IF took THEN acked \cup {c.id} ELSE acked
      PROVE  WebhookInv'
  <2>1. PICK row : row = Judge(c.row, ok)
    OBVIOUS
  <2>2. c.row.attempts < MaxPosts /\ c.row.attempts \in Nat /\ c.row.attempts <= posts[c.id]
    BY <1>1, DeliveryFields DEF CopyFits, DeliveryTells
  <2>3. /\ row \in DeliveryRow /\ row.attempts = c.row.attempts + 1
        /\ row.status = "SUCCESS" => ok
        /\ row.status = "PENDING" => c.row.attempts + 1 < MaxPosts
        /\ row.status = "FAILED" => c.row.attempts + 1 = MaxPosts
    <3>1. MaxPosts \in Nat
      BY WebhookFacts
    <3> QED
      BY <1>1, <2>1, <2>2, <3>1, JudgeCounts, Zenon
  <2>4. PICK e : e = [c EXCEPT !.at = "save", !.row = row]
    OBVIOUS
  <2>5. e \in Copy /\ e.id = c.id /\ e.row = row /\ e.at = "save"
    <3> DEFINE c1 == [c EXCEPT !.at = "save"]
    <3>1. c1 \in Copy /\ c1.id = c.id /\ c1.at = "save"
      BY <1>1, <2>3, CopyChanges
    <3>2. e = [c1 EXCEPT !.row = row]
      BY <2>4
    <3> HIDE DEF c1
    <3> QED
      BY <2>3, <3>1, <3>2, CopyChanges
  <2>6. lane' = [lane EXCEPT ![l] = (lane[l] \ {c}) \cup {e}]
    BY <1>4, <2>1, <2>4, Zenon
  <2>7. /\ lane' \in [Lane -> SUBSET Copy]
        /\ \A k \in Lane : \A f \in lane'[k] : f \in lane[k] \/ f = e
    <3>1. PICK kept \in SUBSET Copy : kept = (lane[l] \ {c}) \cup {e}
      BY <2>5, WebhookFacts
    <3>2. lane \in [Lane -> SUBSET Copy] /\ lane' = [lane EXCEPT ![l] = kept]
      BY <2>6, <3>1, WebhookFacts
    <3>3. \A k \in Lane : lane'[k] = lane[k] \/ lane'[k] = kept
      BY <3>2
    <3> QED
      BY <3>1, <3>2, <3>3
  <2>8. /\ posts' \in [Delivery -> 0..MaxPosts] /\ \A d \in Delivery : posts[d] <= posts'[d]
        /\ c.row.attempts + 1 <= posts'[c.id]
    <3>1. PICK n : n = IF posts[c.id] < MaxPosts THEN posts[c.id] + 1 ELSE posts[c.id]
      OBVIOUS
    <3>2. n \in 0..MaxPosts /\ posts[c.id] <= n /\ c.row.attempts + 1 <= n
      BY <1>1, <2>2, <3>1, WebhookFacts
    <3>3. posts' = [posts EXCEPT ![c.id] = n]
      BY <1>4, <3>1
    <3>4. posts \in [Delivery -> 0..MaxPosts]
      BY WebhookFacts
    <3>5. \A d \in Delivery : posts'[d] = posts[d] \/ (d = c.id /\ posts'[d] = n)
      BY <3>3, <3>4
    <3> QED
      BY <1>1, <3>2, <3>3, <3>4, <3>5
  <2>9. acked \subseteq acked' /\ acked' \subseteq Delivery /\ (row.status = "SUCCESS" => c.id \in acked')
    BY <1>1, <1>4, <2>3, WebhookFacts
  <2>10. WebhookTypeOK'
    BY <1>2, <2>7, <2>8, <2>9 DEF WebhookInv, WebhookTypeOK
  <2>11. CopyFits(e)'
    BY <1>1, <1>2, <2>2, <2>3, <2>5, <2>8, <2>9 DEF CopyFits, DeliveryTells
  <2>12. \A k \in Lane : \A f \in lane'[k] : f \in lane[k] \/ CopyFits(f)'
    BY <2>7, <2>11
  <2> QED
    BY <1>2, <2>7, <2>8, <2>9, <2>10, <2>12, WebhookFacts, WebhookFinish
<1> QED
  BY <1>3, <1>4, Zenon DEF Post

LEMMA SaveDeliveryStep ==
  ASSUME WebhookInv, NEW l \in Lane, NEW c \in lane[l], SaveDelivery(l, c)
  PROVE  WebhookInv'
<1>1. c \in Copy /\ c.id \in Delivery /\ c.row \in DeliveryRow /\ CopyFits(c)
  BY WebhookFacts, CopyFields
<1>2. /\ delivery' = [delivery EXCEPT ![c.id] = c.row]
      /\ UNCHANGED <<hook, edit, hookEdits, publishing, posts, acked, hookFaults>>
  BY DEF SaveDelivery
<1>3. /\ delivery' \in [Delivery -> DeliveryRow \cup {NoDelivery}]
      /\ delivery'[c.id] = c.row /\ delivery'[c.id] # NoDelivery
      /\ \A e \in Delivery : e # c.id => delivery'[e] = delivery[e]
      /\ \A e \in Delivery : delivery[e] # NoDelivery => delivery'[e] # NoDelivery
  BY <1>1, <1>2, WebhookFacts
<1>4. /\ lane' \in [Lane -> SUBSET Copy] /\ queue' \in Seq(Delivery)
      /\ \A i \in DOMAIN queue' : \E j \in DOMAIN queue : queue'[i] = queue[j]
      /\ \A k \in Lane : \A e \in lane'[k] :
           e \in lane[k] \/ \E j \in DOMAIN queue : e = Fresh(queue[j])
  <2>1. CASE l = "queue"
    <3>1. Drained(lane["queue"] \ {c})
      BY <2>1 DEF SaveDelivery
    <3> QED
      BY <3>1, DrainedTakes
  <2>2. CASE l # "queue"
    <3>1. lane' = [lane EXCEPT ![l] = @ \ {c}] /\ queue' = queue
      BY <2>2 DEF SaveDelivery
    <3> QED
      BY <3>1, WebhookFacts
  <2> QED
    BY <2>1, <2>2
<1>5. WebhookTypeOK'
  BY <1>2, <1>3, <1>4 DEF WebhookInv, WebhookTypeOK
<1>6. \A d \in Delivery : posts[d] <= posts'[d] /\ posts'[d] \in Nat
  BY <1>2, WebhookFacts
<1>7. ASSUME NEW j \in DOMAIN queue, NEW d, d = queue[j]
      PROVE  d \in Delivery /\ delivery'[d] # NoDelivery /\ CopyFits(Fresh(d))'
  <2>1. d \in Delivery /\ delivery[d] # NoDelivery
    BY <1>7, WebhookFacts
  <2>2. delivery'[d] # NoDelivery /\ posts'[d] \in Nat
    BY <1>3, <1>6, <2>1
  <2>3. CopyFits(Fresh(d))'
    BY <1>5, <2>1, <2>2, FreshFits
  <2> QED
    BY <2>1, <2>2, <2>3
<1>8. DeliveryTells(c.id, c.row)'
  BY <1>1, <1>2 DEF CopyFits, DeliveryTells
<1>9. \A d \in Delivery : delivery'[d] # NoDelivery => delivery'[d] = delivery[d] \/ DeliveryTells(d, delivery[d])'
  BY <1>3, <1>8
<1>10. \A i \in DOMAIN queue' : delivery'[queue'[i]] # NoDelivery
  BY <1>4, <1>7
<1>11. ASSUME NEW k \in Lane, NEW e \in lane'[k] PROVE e \in lane[k] \/ CopyFits(e)'
  <2>1. CASE e \in lane[k]
    BY <2>1
  <2>2. ASSUME NEW j \in DOMAIN queue, e = Fresh(queue[j]) PROVE CopyFits(e)'
    <3>1. PICK d : d = queue[j]
      OBVIOUS
    <3>2. CopyFits(Fresh(d))' /\ e = Fresh(d)
      BY <1>7, <2>2, <3>1
    <3> QED
      BY <3>2 DEF CopyFits, Fresh
  <2> QED
    BY <1>4, <2>1, <2>2
<1> QED
  BY <1>2, <1>3, <1>4, <1>5, <1>6, <1>9, <1>10, <1>11, WebhookFinish

LEMMA RefuseSaveStep ==
  ASSUME WebhookInv, NEW c \in lane["queue"], RefuseSave(c)
  PROVE  WebhookInv'
<1>1. /\ hookFaults' \in 0..MaxHookFaults
      /\ UNCHANGED <<hook, edit, hookEdits, publishing, delivery, posts, acked>>
      /\ Drained(lane["queue"] \ {c})
  BY WebhookFacts DEF RefuseSave
<1>2. /\ lane' \in [Lane -> SUBSET Copy] /\ queue' \in Seq(Delivery)
      /\ \A i \in DOMAIN queue' : \E j \in DOMAIN queue : queue'[i] = queue[j]
      /\ \A k \in Lane : \A e \in lane'[k] :
           e \in lane[k] \/ \E j \in DOMAIN queue : e = Fresh(queue[j])
  BY <1>1, DrainedTakes
<1>3. WebhookTypeOK'
  BY <1>1, <1>2 DEF WebhookInv, WebhookTypeOK
<1>4. \A d \in Delivery : posts[d] <= posts'[d] /\ posts'[d] \in Nat
  BY <1>1, WebhookFacts
<1>5. \A i \in DOMAIN queue' : delivery'[queue'[i]] # NoDelivery
  BY <1>1, <1>2, WebhookFacts
<1>6. ASSUME NEW k \in Lane, NEW e \in lane'[k] PROVE e \in lane[k] \/ CopyFits(e)'
  <2>1. CASE e \in lane[k]
    BY <2>1
  <2>2. ASSUME NEW j \in DOMAIN queue, e = Fresh(queue[j]) PROVE CopyFits(e)'
    <3>1. PICK d \in Delivery : d = queue[j] /\ delivery'[d] # NoDelivery
      BY <1>1, WebhookFacts
    <3>2. CopyFits(Fresh(d))' /\ e = Fresh(d)
      BY <1>3, <1>4, <2>2, <3>1, FreshFits
    <3> QED
      BY <3>2 DEF CopyFits, Fresh
  <2> QED
    BY <1>2, <2>1, <2>2
<1> QED
  BY <1>1, <1>2, <1>3, <1>4, <1>5, <1>6, WebhookFinish

LEMMA RetryPendingStep ==
  ASSUME WebhookInv, NEW s \in Sweep, RetryPending(s)
  PROVE  WebhookInv'
<1>1. PICK ds \in SUBSET Retryable :
        lane' = [lane EXCEPT ![s] = {[id |-> d, row |-> delivery[d], at |-> "post"] : d \in ds}]
  BY DEF RetryPending
<1>2. UNCHANGED <<hook, edit, hookEdits, publishing, delivery, queue, posts, acked, hookFaults>>
  BY DEF RetryPending
<1>3. PICK copies : copies = {[id |-> d, row |-> delivery[d], at |-> "post"] : d \in ds}
  OBVIOUS
<1>4. \A c \in copies : c \in Copy /\ CopyFits(c)
  <2> TAKE c \in copies
  <2>1. PICK d \in ds : c = [id |-> d, row |-> delivery[d], at |-> "post"]
    BY <1>3
  <2>2. /\ d \in Delivery /\ delivery[d] # NoDelivery /\ delivery[d].status = "PENDING"
        /\ delivery[d] \in DeliveryRow /\ DeliveryTells(d, delivery[d])
    BY WebhookFacts DEF Retryable
  <2>3. c \in Copy /\ c.id = d /\ c.row = delivery[d]
    BY <2>1, <2>2 DEF Copy
  <2> QED
    BY <2>2, <2>3 DEF CopyFits
<1>5. s \in Lane
  BY DEF Lane
<1>6. /\ lane' \in [Lane -> SUBSET Copy]
      /\ \A l \in Lane : \A c \in lane'[l] : c \in lane[l] \/ c \in copies
  <2>1. copies \in SUBSET Copy /\ lane \in [Lane -> SUBSET Copy] /\ lane' = [lane EXCEPT ![s] = copies]
    BY <1>1, <1>3, <1>4, WebhookFacts
  <2>2. \A l \in Lane : lane'[l] = lane[l] \/ lane'[l] = copies
    BY <2>1
  <2> QED
    BY <1>5, <2>1, <2>2
<1>7. WebhookTypeOK'
  BY <1>2, <1>6 DEF WebhookInv, WebhookTypeOK
<1>8. \A l \in Lane : \A c \in lane'[l] : c \in lane[l] \/ CopyFits(c)'
  BY <1>2, <1>4, <1>6 DEF CopyFits, DeliveryTells
<1>9. \A d \in Delivery : posts[d] <= posts'[d]
  BY <1>2, WebhookFacts
<1> QED
  BY <1>2, <1>6, <1>7, <1>8, <1>9, WebhookFacts, WebhookFinish

LEMMA FallDueStep ==
  ASSUME WebhookInv, NEW d \in Delivery, FallDue(d)
  PROVE  WebhookInv'
<1>1. PICK row \in DeliveryRow : row = delivery[d] /\ DeliveryTells(d, row)
  BY WebhookFacts DEF FallDue
<1>2. PICK row2 \in DeliveryRow : /\ row2 = [row EXCEPT !.nextRetryAt = "due"]
                                  /\ row2.attempts = row.attempts /\ row2.status = row.status
  BY DeliveryChanges
<1>3. /\ delivery' = [delivery EXCEPT ![d] = row2]
      /\ UNCHANGED <<hook, edit, hookEdits, publishing, queue, lane, posts, acked, hookFaults>>
  BY <1>1, <1>2 DEF FallDue
<1>4. /\ delivery' \in [Delivery -> DeliveryRow \cup {NoDelivery}]
      /\ delivery'[d] = row2 /\ row2 # NoDelivery
      /\ \A e \in Delivery : e # d => delivery'[e] = delivery[e]
  BY <1>3, WebhookFacts
<1>5. WebhookTypeOK'
  BY <1>3, <1>4 DEF WebhookInv, WebhookTypeOK
<1>6. DeliveryTells(d, row2)'
  BY <1>1, <1>2, <1>3 DEF DeliveryTells
<1>7. \A e \in Delivery : delivery'[e] # NoDelivery => delivery'[e] = delivery[e] \/ DeliveryTells(e, delivery[e])'
  BY <1>4, <1>6
<1>8. \A e \in Delivery : delivery[e] # NoDelivery => delivery'[e] # NoDelivery
  BY <1>4
<1>9. \A e \in Delivery : posts[e] <= posts'[e]
  BY <1>3, WebhookFacts
<1>10. \A i \in DOMAIN queue' : delivery'[queue'[i]] # NoDelivery
  BY <1>3, <1>8, WebhookFacts
<1> QED
  BY <1>3, <1>5, <1>7, <1>8, <1>9, <1>10, WebhookFacts, WebhookFinish

LEMMA CrashWebhooksStep ==
  ASSUME WebhookInv, CrashWebhooks
  PROVE  WebhookInv'
<1>1. PICK other \in SUBSET Sweep : lane' = [l \in Lane |-> IF l \in other THEN lane[l] ELSE {}]
  BY DEF CrashWebhooks
<1>2. /\ hookFaults' \in 0..MaxHookFaults /\ publishing' = {} /\ queue' = <<>>
      /\ UNCHANGED <<hook, edit, hookEdits, delivery, posts, acked>>
  BY WebhookFacts DEF CrashWebhooks
<1>3. lane' \in [Lane -> SUBSET Copy] /\ \A l \in Lane : lane'[l] \subseteq lane[l]
  BY <1>1, WebhookFacts
<1>4. queue' \in Seq(Delivery) /\ DOMAIN queue' = {}
  BY <1>2
<1>5. WebhookTypeOK'
  BY <1>2, <1>3, <1>4 DEF WebhookInv, WebhookTypeOK
<1>6. \A d \in Delivery : posts[d] <= posts'[d]
  BY <1>2, WebhookFacts
<1> QED
  BY <1>2, <1>3, <1>4, <1>5, <1>6, WebhookFinish

LEMMA WebhookStep == WebhookInv /\ [WebhookNext]_webhookVars => WebhookInv'
<1> SUFFICES ASSUME WebhookInv, [WebhookNext]_webhookVars PROVE WebhookInv'
  OBVIOUS
<1>1. CASE UNCHANGED webhookVars
  <2>1. WebhookTypeOK'
    BY <1>1 DEF webhookVars, WebhookInv, WebhookTypeOK
  <2> QED
    BY <1>1, <2>1, HookSteps DEF webhookVars
<1>2. ASSUME NEW h \in Hook,
             RegisterHook(h) \/ SaveHook(h)
               \/ \E to \in {"active", "inactive", "deleted"} : EditHook(h, to)
      PROVE  WebhookInv'
  BY <1>2, RegistrationStep
<1>3. ASSUME NEW d \in Delivery, Publish(d) \/ Enqueue(d) \/ FallDue(d) PROVE WebhookInv'
  BY <1>3, PublishStep, EnqueueStep, FallDueStep
<1>4. ASSUME NEW l \in Lane, NEW c \in lane[l], Post(l, c) \/ SaveDelivery(l, c) PROVE WebhookInv'
  BY <1>4, PostStep, SaveDeliveryStep
<1>5. ASSUME NEW c \in lane["queue"], RefuseSave(c) PROVE WebhookInv'
  BY <1>5, RefuseSaveStep
<1>6. ASSUME NEW s \in Sweep, RetryPending(s) PROVE WebhookInv'
  BY <1>6, RetryPendingStep
<1>7. CASE CrashWebhooks
  BY <1>7, CrashWebhooksStep
<1> QED
  BY <1>1, <1>2, <1>3, <1>4, <1>5, <1>6, <1>7 DEF WebhookNext

LEMMA WebhookStart == WebhookInit => WebhookInv
<1> SUFFICES ASSUME WebhookInit PROVE WebhookInv
  OBVIOUS
<1>1. 0 \in 0..MaxPosts /\ 0 \in 0..MaxHookEdits /\ 0 \in 0..MaxHookFaults
  BY WebhookAssumption
<1>2. lane \in [Lane -> SUBSET Copy] /\ \A l \in Lane : lane[l] = {}
  BY DEF WebhookInit
<1>3. /\ hook \in [Hook -> {"none", "active", "inactive", "deleted"}]
      /\ edit \in [Hook -> SUBSET {"active", "inactive", "deleted"}]
      /\ delivery \in [Delivery -> DeliveryRow \cup {NoDelivery}]
      /\ posts \in [Delivery -> 0..MaxPosts]
      /\ queue \in Seq(Delivery) /\ DOMAIN queue = {}
      /\ publishing \subseteq Delivery /\ acked \subseteq Delivery
      /\ hookEdits \in 0..MaxHookEdits /\ hookFaults \in 0..MaxHookFaults
  <2>1. hook \in [Hook -> {"none", "active", "inactive", "deleted"}]
    BY DEF WebhookInit
  <2>2. edit \in [Hook -> SUBSET {"active", "inactive", "deleted"}]
    BY DEF WebhookInit
  <2>3. delivery \in [Delivery -> DeliveryRow \cup {NoDelivery}] /\ posts \in [Delivery -> 0..MaxPosts]
    BY <1>1 DEF WebhookInit
  <2>4. queue \in Seq(Delivery) /\ DOMAIN queue = {}
    BY DEF WebhookInit
  <2> QED
    BY <1>1, <2>1, <2>2, <2>3, <2>4 DEF WebhookInit
<1>4. \A d \in Delivery : delivery[d] = NoDelivery
  BY DEF WebhookInit
<1> QED
  BY <1>2, <1>3, <1>4 DEF WebhookInv, WebhookTypeOK

----------------------------------------------------------------------------
(* Proofs: webhooks implement Outbox.                                      *)

\* How the promise reads the rows.
DeliveryStatus(row) ==
  IF row = NoDelivery THEN "none"
  ELSE [PENDING |-> "pending", SUCCESS |-> "done", FAILED |-> "given_up"][row.status]

LEMMA DeliveryStatuses ==
  ASSUME NEW row \in DeliveryRow, NoDelivery \notin DeliveryRow
  PROVE  /\ DeliveryStatus(row) \in {"pending", "done", "given_up"}
         /\ DeliveryStatus(row) = "pending" <=> row.status = "PENDING"
         /\ DeliveryStatus(row) = "done" <=> row.status = "SUCCESS"
         /\ DeliveryStatus(row) = "given_up" <=> row.status = "FAILED"
<1>1. row # NoDelivery /\ row.status \in {"PENDING", "SUCCESS", "FAILED"}
  BY DEF DeliveryRow
<1>2. DeliveryStatus(row) = [PENDING |-> "pending", SUCCESS |-> "done", FAILED |-> "given_up"][row.status]
  BY <1>1 DEF DeliveryStatus
<1>3. CASE row.status = "PENDING"
  BY <1>2, <1>3
<1>4. CASE row.status = "SUCCESS"
  BY <1>2, <1>4
<1>5. CASE row.status = "FAILED"
  BY <1>2, <1>5
<1> QED
  BY <1>1, <1>3, <1>4, <1>5

\* One row is created or saved.
LEMMA WebhookRecords ==
  ASSUME WebhookInv, NEW d \in Delivery, NEW row \in DeliveryRow,
         delivery' = [delivery EXCEPT ![d] = row], posts' = posts, acked' = acked,
         row.status = "PENDING" \/ delivery[d] # NoDelivery, DeliveryTells(d, row)
  PROVE  WebhookOutbox!Next
<1>1. PICK v : v = DeliveryStatus(row)
  OBVIOUS
<1>2. /\ v \in {"pending", "done", "given_up"}
      /\ v = "done" => d \in acked
      /\ v = "given_up" => posts[d] = MaxPosts
      /\ delivery[d] = NoDelivery => v = "pending"
  <2>1. posts[d] \in 0..MaxPosts /\ MaxPosts \in Nat
    BY WebhookFacts
  <2>2. /\ v \in {"pending", "done", "given_up"}
        /\ v = "pending" <=> row.status = "PENDING"
        /\ v = "done" <=> row.status = "SUCCESS"
        /\ v = "given_up" <=> row.status = "FAILED"
    BY <1>1, WebhookFacts, DeliveryStatuses
  <2> QED
    BY <2>1, <2>2 DEF DeliveryTells
<1>3. PICK st : st = [e \in Delivery |-> DeliveryStatus(delivery[e])]
  OBVIOUS
<1>4. PICK st2 : st2 = [e \in Delivery |-> DeliveryStatus(delivery'[e])]
  OBVIOUS
<1>5. st2 = [st EXCEPT ![d] = v]
  <2>1. delivery'[d] = row /\ \A e \in Delivery : e # d => delivery'[e] = delivery[e]
    BY WebhookFacts
  <2>2. st2[d] = v /\ \A e \in Delivery : e # d => st2[e] = st[e]
    BY <1>1, <1>3, <1>4, <2>1
  <2> QED
    BY <1>3, <1>4, <2>2
<1>6. st[d] = "none" <=> delivery[d] = NoDelivery
  <2>1. st[d] = DeliveryStatus(delivery[d])
    BY <1>3
  <2>2. CASE delivery[d] = NoDelivery
    BY <2>1, <2>2 DEF DeliveryStatus
  <2>3. CASE delivery[d] # NoDelivery
    <3>1. DeliveryStatus(delivery[d]) \in {"pending", "done", "given_up"}
      BY <2>3, WebhookFacts, DeliveryStatuses
    <3> QED
      BY <2>1, <2>3, <3>1
  <2> QED
    BY <2>2, <2>3
<1>7. UNCHANGED <<posts, [e \in Delivery |-> e \in acked]>>
  OBVIOUS
<1>8. CASE delivery[d] = NoDelivery
  <2>1. st[d] = "none" /\ st2 = [st EXCEPT ![d] = "pending"]
    BY <1>2, <1>5, <1>6, <1>8
  <2>2. WebhookOutbox!Accept(d)
    BY <1>3, <1>4, <1>7, <2>1 DEF WebhookOutbox!Accept, DeliveryStatus
  <2> QED
    BY <2>2 DEF WebhookOutbox!Next
<1>9. CASE delivery[d] # NoDelivery
  <2>1. st[d] # "none"
    BY <1>6, <1>9
  <2>2. v = "done" => [e \in Delivery |-> e \in acked][d]
    BY <1>2, Zenon
  <2>3. WebhookOutbox!Record(d, v)
    BY <1>2, <1>3, <1>4, <1>5, <1>7, <2>1, <2>2 DEF WebhookOutbox!Record, DeliveryStatus
  <2> QED
    BY <1>2, <2>3 DEF WebhookOutbox!Next
<1> QED
  BY <1>8, <1>9

LEMMA PostTries ==
  ASSUME WebhookInv, NEW l \in Lane, NEW c \in lane[l], Post(l, c)
  PROVE  WebhookOutbox!Next \/ UNCHANGED <<delivery, posts, acked>>
<1>1. delivery' = delivery /\ c.id \in Delivery /\ delivery[c.id] # NoDelivery
  BY WebhookFacts, CopyFields DEF Post, CopyFits
<1>2. CASE UNCHANGED <<posts, acked>>
  BY <1>1, <1>2
<1>3. ASSUME NEW took \in BOOLEAN,
             posts' = [posts EXCEPT ![c.id] = IF @ < MaxPosts THEN @ + 1 ELSE @],
             acked' = IF took THEN acked \cup {c.id} ELSE acked
      PROVE  WebhookOutbox!Next
  <2>1. DeliveryStatus(delivery[c.id]) # "none"
    BY <1>1, WebhookFacts, DeliveryStatuses
  <2>2. PICK t : t = [e \in Delivery |-> e \in acked]
    OBVIOUS
  <2>3. PICK t2 : t2 = [e \in Delivery |-> e \in acked']
    OBVIOUS
  <2>4. \E b \in BOOLEAN : t2 = [t EXCEPT ![c.id] = @ \/ b]
    <3>1. \A e \in Delivery : t[e] = (e \in acked) /\ t2[e] = (e \in acked')
      BY <2>2, <2>3, Zenon
    <3>2. t = [e \in Delivery |-> t[e]] /\ t2 = [e \in Delivery |-> t2[e]]
      BY <2>2, <2>3, Zenon
    <3>3. \A e \in Delivery : (e \in acked') = (e \in acked \/ (e = c.id /\ took))
      BY <1>3
    <3>4. \A e \in Delivery : t2[e] = IF e = c.id THEN t[e] \/ took ELSE t[e]
      <4> TAKE e \in Delivery
      <4>1. CASE e = c.id
        <5>1. (e \in acked') = (e \in acked \/ took)
          BY <3>3, <4>1
        <5>2. t[e] = (e \in acked) /\ t2[e] = (e \in acked')
          BY <3>1, Zenon
        <5>3. t2[e] = (t[e] \/ took)
          BY <5>1, <5>2, Zenon
        <5> QED
          BY <4>1, <5>3, Zenon
      <4>2. CASE e # c.id
        <5>1. (e \in acked') = (e \in acked)
          BY <3>3, <4>2
        <5>2. t[e] = (e \in acked) /\ t2[e] = (e \in acked')
          BY <3>1, Zenon
        <5> QED
          BY <4>2, <5>1, <5>2, Zenon
      <4> QED
        BY <4>1, <4>2, Zenon
    <3>5. t2 = [t EXCEPT ![c.id] = @ \/ took]
      BY <3>2, <3>4, Zenon
    <3> QED
      BY <3>5
  <2>5. WebhookOutbox!Try(c.id)
    BY <1>1, <1>3, <2>1, <2>2, <2>3, <2>4 DEF WebhookOutbox!Try, DeliveryStatus
  <2> QED
    BY <1>1, <2>5 DEF WebhookOutbox!Next
<1> QED
  BY <1>2, <1>3, Zenon DEF Post

LEMMA WebhookRefines ==
  WebhookInv /\ [WebhookNext]_webhookVars => [WebhookOutbox!Next]_WebhookOutbox!vars
<1> SUFFICES ASSUME WebhookInv, [WebhookNext]_webhookVars
             PROVE  WebhookOutbox!Next \/ UNCHANGED <<delivery, posts, acked>>
  BY DEF WebhookOutbox!vars
<1>1. ASSUME NEW d \in Delivery, Enqueue(d) PROVE WebhookOutbox!Next
  <2>1. PICK row \in DeliveryRow : row = Fresh(d).row /\ row.status = "PENDING" /\ row.attempts = 0
    BY FreshTells
  <2>2. delivery' = [delivery EXCEPT ![d] = row] /\ posts' = posts /\ acked' = acked
    BY <1>1, <2>1 DEF Enqueue
  <2>3. DeliveryTells(d, row)
    BY <2>1, WebhookFacts DEF DeliveryTells
  <2> QED
    BY <2>1, <2>2, <2>3, WebhookRecords
<1>2. ASSUME NEW d \in Delivery, FallDue(d) PROVE WebhookOutbox!Next
  <2>1. PICK row \in DeliveryRow : row = delivery[d] /\ DeliveryTells(d, row) /\ delivery[d] # NoDelivery
    BY <1>2, WebhookFacts DEF FallDue
  <2>2. PICK row2 \in DeliveryRow : /\ row2 = [row EXCEPT !.nextRetryAt = "due"]
                                    /\ row2.attempts = row.attempts /\ row2.status = row.status
    BY DeliveryChanges
  <2>3. delivery' = [delivery EXCEPT ![d] = row2] /\ posts' = posts /\ acked' = acked
    BY <1>2, <2>1, <2>2 DEF FallDue
  <2>4. DeliveryTells(d, row2)
    BY <2>1, <2>2 DEF DeliveryTells
  <2> QED
    BY <2>1, <2>3, <2>4, WebhookRecords
<1>3. ASSUME NEW l \in Lane, NEW c \in lane[l], SaveDelivery(l, c) PROVE WebhookOutbox!Next
  <2>1. PICK row \in DeliveryRow : row = c.row /\ DeliveryTells(c.id, row)
    BY WebhookFacts, CopyFields DEF CopyFits
  <2>2. c.id \in Delivery /\ delivery[c.id] # NoDelivery
    BY WebhookFacts, CopyFields DEF CopyFits
  <2>3. delivery' = [delivery EXCEPT ![c.id] = row] /\ posts' = posts /\ acked' = acked
    BY <1>3, <2>1 DEF SaveDelivery
  <2> QED
    BY <2>1, <2>2, <2>3, WebhookRecords
<1>4. CASE \/ CrashWebhooks
           \/ \E h \in Hook : \/ RegisterHook(h) \/ SaveHook(h)
                              \/ \E to \in {"active", "inactive", "deleted"} : EditHook(h, to)
           \/ \E d \in Delivery : Publish(d)
           \/ \E c \in lane["queue"] : RefuseSave(c)
           \/ \E s \in Sweep : RetryPending(s)
           \/ UNCHANGED webhookVars
  BY <1>4 DEF CrashWebhooks, RegisterHook, SaveHook, EditHook, Publish, RefuseSave, RetryPending, webhookVars
<1>5. ASSUME NEW l \in Lane, NEW c \in lane[l], Post(l, c)
      PROVE  WebhookOutbox!Next \/ UNCHANGED <<delivery, posts, acked>>
  BY <1>5, PostTries
<1> QED
  BY <1>1, <1>2, <1>3, <1>4, <1>5 DEF WebhookNext

LEMMA WebhookAccepts == WebhookInit => WebhookOutbox!Init
<1> SUFFICES ASSUME WebhookInit PROVE WebhookOutbox!Init
  OBVIOUS
<1>1. [d \in Delivery |-> d \in acked] = [d \in Delivery |-> FALSE]
  <2>1. \A d \in Delivery : (d \in acked) = FALSE
    BY DEF WebhookInit
  <2> QED
    BY <2>1, Zenon
<1>2. \A d \in Delivery : DeliveryStatus(delivery[d]) = "none"
  BY DEF WebhookInit, DeliveryStatus
<1>3. posts = [d \in Delivery |-> 0]
  BY DEF WebhookInit
<1> QED
  BY <1>1, <1>2, <1>3 DEF WebhookOutbox!Init, DeliveryStatus

----------------------------------------------------------------------------
(* Proofs: mail.                                                           *)

MailCopy == [id : Letter, row : LetterRow]

LEMMA MailFacts ==
  ASSUME MailInv
  PROVE  /\ letter \in [Letter -> LetterRow \cup {NoLetter}]
         /\ batch \in [Process -> Seq(MailCopy)] /\ answered \in [Process -> BOOLEAN]
         /\ sends \in [Letter -> 0..MaxSends] /\ arrived \in [Letter -> 0..2]
         /\ overlapped \subseteq Letter /\ mailFaults \in 0..MaxMailFaults
         /\ MaxSends \in Nat /\ MaxSends > 0 /\ MaxMailFaults \in Nat /\ Letter \subseteq Nat
         /\ NoLetter \notin LetterRow
         /\ \A m \in Letter : letter[m] # NoLetter => LetterTells(m, letter[m])
         /\ \A p \in Process : \A i \in DOMAIN batch[p] : CopyTells(p, i)
         /\ \A p \in Process : answered[p] => batch[p] # <<>>
         /\ \A m \in Letter : Undisturbed(m)
<1>1. batch \in [Process -> Seq(MailCopy)]
  BY DEF MailInv, MailCopy
<1>2. MaxSends \in Nat /\ MaxSends > 0 /\ MaxMailFaults \in Nat /\ Letter \subseteq Nat /\ NoLetter \notin LetterRow
  BY MailAssumption
<1> QED
  BY <1>1, <1>2 DEF MailInv, MailTypeOK

LEMMA LetterFields ==
  ASSUME NEW row \in LetterRow
  PROVE  /\ row.status \in {"PENDING", "SENT", "FAILED"}
         /\ row.attempts \in 0..MaxSends /\ row.nextRetryAt \in {"null", "later", "due"}
BY DEF LetterRow

LEMMA MailCopyFields ==
  ASSUME NEW c \in MailCopy
  PROVE  c.id \in Letter /\ c.row \in LetterRow
BY DEF MailCopy

LEMMA LetterChanges ==
  ASSUME NEW row \in LetterRow
  PROVE  /\ \A n \in 0..MaxSends :
              /\ [row EXCEPT !.attempts = n] \in LetterRow
              /\ [row EXCEPT !.attempts = n].attempts = n
              /\ [row EXCEPT !.attempts = n].status = row.status
         /\ \A st \in {"PENDING", "SENT", "FAILED"} :
              /\ [row EXCEPT !.status = st] \in LetterRow
              /\ [row EXCEPT !.status = st].attempts = row.attempts
              /\ [row EXCEPT !.status = st].status = st
         /\ \A at \in {"null", "later", "due"} :
              /\ [row EXCEPT !.nextRetryAt = at] \in LetterRow
              /\ [row EXCEPT !.nextRetryAt = at].attempts = row.attempts
              /\ [row EXCEPT !.nextRetryAt = at].status = row.status
BY DEF LetterRow

LEMMA MailCopyChanges ==
  ASSUME NEW c \in MailCopy, NEW row \in LetterRow
  PROVE  /\ [c EXCEPT !.row = row] \in MailCopy
         /\ [c EXCEPT !.row = row].id = c.id
         /\ [c EXCEPT !.row = row].row = row
BY DEF MailCopy

LEMMA FirstChanges ==
  ASSUME NEW S, NEW b \in Seq(S), b # <<>>, NEW x \in S
  PROVE  /\ [b EXCEPT ![1] = x] \in Seq(S)
         /\ DOMAIN [b EXCEPT ![1] = x] = DOMAIN b
         /\ [b EXCEPT ![1] = x][1] = x
         /\ \A i \in DOMAIN b : i # 1 => [b EXCEPT ![1] = x][i] = b[i]
<1>1. 1 \in DOMAIN b /\ DOMAIN b = 1..Len(b) /\ Len(b) \in Nat
  OBVIOUS
<1>2. [b EXCEPT ![1] = x] \in [1..Len(b) -> S]
  BY <1>1
<1>3. [b EXCEPT ![1] = x] \in Seq(S)
  BY <1>1, <1>2
<1> QED
  BY <1>1, <1>3

\* One more attempt, and what sendJob makes of its outcome.
LEMMA VerdictCounts ==
  ASSUME NEW row \in LetterRow, NEW ok \in BOOLEAN, row.status = "PENDING",
         row.attempts < MaxSends, MaxSends \in Nat
  PROVE  /\ Verdict(row, ok) \in LetterRow
         /\ Verdict(row, ok).attempts = row.attempts + 1
         /\ Verdict(row, ok).status = "SENT" <=> ok
         /\ Verdict(row, ok).status = "PENDING" => row.attempts + 1 < MaxSends
         /\ Verdict(row, ok).status = "FAILED" => row.attempts + 1 = MaxSends
<1>1. PICK n : n = row.attempts + 1
  OBVIOUS
<1>2. n \in 0..MaxSends /\ (n >= MaxSends => n = MaxSends) /\ (~(n >= MaxSends) => n < MaxSends)
  BY <1>1, LetterFields
<1>3. PICK v : v = Verdict(row, ok)
  OBVIOUS
<1> SUFFICES /\ v \in LetterRow /\ v.attempts = n
             /\ v.status = "SENT" <=> ok
             /\ v.status = "PENDING" => n < MaxSends
             /\ v.status = "FAILED" => n = MaxSends
  BY <1>1, <1>3, Zenon
<1> DEFINE r1 == [row EXCEPT !.attempts = n]
<1>4. r1 \in LetterRow /\ r1.attempts = n /\ r1.status = "PENDING"
  BY <1>2, LetterChanges
<1>5. CASE ok
  <2>1. v = [row EXCEPT !.attempts = row.attempts + 1, !.status = "SENT"]
    BY <1>3, <1>5, Zenon DEF Verdict
  <2>2. v = [r1 EXCEPT !.status = "SENT"]
    BY <1>1, <2>1
  <2> HIDE DEF r1
  <2>3. v \in LetterRow /\ v.attempts = n /\ v.status = "SENT"
    BY <1>4, <2>2, LetterChanges
  <2> QED
    BY <1>5, <2>3
<1>6. CASE ~ok /\ n >= MaxSends
  <2>1. v = [row EXCEPT !.attempts = row.attempts + 1, !.status = "FAILED"]
    BY <1>1, <1>3, <1>6, Zenon DEF Verdict
  <2>2. v = [r1 EXCEPT !.status = "FAILED"]
    BY <1>1, <2>1
  <2> HIDE DEF r1
  <2>3. v \in LetterRow /\ v.attempts = n /\ v.status = "FAILED"
    BY <1>4, <2>2, LetterChanges
  <2> QED
    BY <1>2, <1>6, <2>3
<1>7. CASE ~ok /\ ~(n >= MaxSends)
  <2>1. v = [row EXCEPT !.attempts = row.attempts + 1, !.nextRetryAt = "later"]
    BY <1>1, <1>3, <1>7, Zenon DEF Verdict
  <2>2. v = [r1 EXCEPT !.nextRetryAt = "later"]
    BY <1>1, <2>1
  <2> HIDE DEF r1
  <2>3. v \in LetterRow /\ v.attempts = n /\ v.status = "PENDING"
    BY <1>4, <2>2, LetterChanges
  <2> QED
    BY <1>2, <1>7, <2>3
<1> QED
  BY <1>5, <1>6, <1>7

\* Sends and receipts only grow, and what is new tells the truth.
LEMMA MailTruth ==
  ASSUME MailInv, letter' \in [Letter -> LetterRow \cup {NoLetter}], batch' \in [Process -> Seq(MailCopy)],
         sends' \in [Letter -> 0..MaxSends], arrived' \in [Letter -> 0..2],
         \A m \in Letter : sends[m] <= sends'[m] /\ arrived[m] <= arrived'[m],
         \A m \in Letter : letter[m] # NoLetter => letter'[m] # NoLetter,
         \A m \in Letter : letter'[m] # NoLetter => letter'[m] = letter[m] \/ LetterTells(m, letter[m])',
         \A q \in Process : \A i \in DOMAIN batch'[q] :
           \/ CopyTells(q, i)'
           \/ \E j \in DOMAIN batch[q] :
                /\ batch'[q][i] = batch[q][j]
                /\ batch[q][j].row.status = "PENDING" \/ (i = 1 /\ answered'[q])
  PROVE  /\ \A m \in Letter : letter'[m] # NoLetter => LetterTells(m, letter[m])'
         /\ \A q \in Process : \A i \in DOMAIN batch'[q] : CopyTells(q, i)'
<1>1. ASSUME NEW m \in Letter, NEW row \in LetterRow, LetterTells(m, row)
      PROVE  LetterTells(m, row)'
  <2>1. /\ row.attempts \in Nat /\ sends[m] \in Nat /\ sends'[m] \in Nat
        /\ arrived[m] \in Nat /\ arrived'[m] \in Nat
    <3>1. row.attempts \in 0..MaxSends /\ MaxSends \in Nat
      BY MailFacts, LetterFields
    <3>2. sends[m] \in 0..MaxSends /\ sends'[m] \in 0..MaxSends
      BY MailFacts
    <3>3. arrived[m] \in 0..2 /\ arrived'[m] \in 0..2
      BY MailFacts
    <3> QED
      BY <3>1, <3>2, <3>3
  <2> QED
    BY <1>1, <2>1 DEF LetterTells
<1>2. ASSUME NEW m \in Letter, letter'[m] # NoLetter PROVE LetterTells(m, letter[m])'
  <2>1. CASE letter'[m] = letter[m]
    <3>1. PICK row \in LetterRow : row = letter[m] /\ row = letter'[m] /\ LetterTells(m, row)
      BY <1>2, <2>1, MailFacts
    <3>2. LetterTells(m, row)'
      BY <1>1, <3>1
    <3> QED
      BY <3>1, <3>2
  <2> QED
    BY <1>2, <2>1
<1>3. ASSUME NEW q \in Process, NEW i \in DOMAIN batch'[q], NEW j \in DOMAIN batch[q],
             batch'[q][i] = batch[q][j],
             batch[q][j].row.status = "PENDING" \/ (i = 1 /\ answered'[q])
      PROVE  CopyTells(q, i)'
  <2>1. PICK c \in MailCopy : c = batch[q][j]
    BY MailFacts
  <2>2. c.id \in Letter /\ c.row \in LetterRow /\ letter[c.id] # NoLetter /\ LetterTells(c.id, c.row)
    BY <2>1, MailFacts, MailCopyFields DEF CopyTells
  <2>3. letter'[c.id] # NoLetter /\ LetterTells(c.id, c.row)'
    BY <1>1, <2>2
  <2>4. c = batch'[q][i] /\ (c.row.status = "PENDING" \/ (i = 1 /\ answered'[q]))
    BY <1>3, <2>1
  <2> QED
    BY <2>3, <2>4 DEF CopyTells
<1> QED
  BY <1>2, <1>3

\* A row changes while the runs rest, and a mail that was sent stays sent.
LEMMA RowMoves ==
  ASSUME MailInv, letter' \in [Letter -> LetterRow \cup {NoLetter}],
         UNCHANGED <<batch, answered, sends, arrived, overlapped, mailFaults>>,
         \A m \in Letter : letter[m] # NoLetter => letter'[m] # NoLetter,
         \A m \in Letter : letter[m] # NoLetter /\ letter[m].status = "SENT" => letter'[m] = letter[m],
         \A m \in Letter : letter'[m] # NoLetter => letter'[m] = letter[m] \/ LetterTells(m, letter[m])'
  PROVE  MailInv'
<1>1. /\ \A m \in Letter : letter'[m] # NoLetter => LetterTells(m, letter[m])'
      /\ \A q \in Process : \A i \in DOMAIN batch'[q] : CopyTells(q, i)'
  <2>1. \A m \in Letter : sends[m] <= sends'[m] /\ arrived[m] <= arrived'[m]
    <3> TAKE m \in Letter
    <3>1. sends[m] \in 0..MaxSends /\ arrived[m] \in 0..2 /\ MaxSends \in Nat
      BY MailFacts
    <3> QED
      BY <3>1
  <2>2. \A q \in Process : \A i \in DOMAIN batch'[q] : \E j \in DOMAIN batch[q] :
          /\ batch'[q][i] = batch[q][j]
          /\ batch[q][j].row.status = "PENDING" \/ (i = 1 /\ answered'[q])
    <3> TAKE q \in Process
    <3> TAKE i \in DOMAIN batch'[q]
    <3>1. CopyTells(q, i) /\ i \in DOMAIN batch[q]
      BY MailFacts
    <3> QED
      BY <3>1 DEF CopyTells
  <2> QED
    BY <2>1, <2>2, MailFacts, MailTruth
<1>2. \A m \in Letter : Undisturbed(m)'
  <2> TAKE m \in Letter
  <2>1. Undisturbed(m)
    BY MailFacts
  <2>2. HeldOnce(m) => HeldOnce(m)'
    BY DEF HeldOnce
  <2>3. SaysArrived(m) => SaysArrived(m)'
    BY DEF SaysArrived, HeldBy
  <2> QED
    BY <2>1, <2>2, <2>3 DEF Undisturbed
<1>3. MailTypeOK'
  BY DEF MailInv, MailTypeOK
<1> QED
  BY <1>1, <1>2, <1>3 DEF MailInv

LEMMA EnqueueMailStep ==
  ASSUME MailInv, NEW m \in Letter, EnqueueMail(m)
  PROVE  MailInv'
<1> DEFINE row == [status |-> "PENDING", attempts |-> 0, nextRetryAt |-> "null"]
<1>1. row \in LetterRow /\ row.status = "PENDING" /\ row.attempts = 0
  <2>1. 0 \in 0..MaxSends
    BY MailFacts
  <2> QED
    BY <2>1 DEF LetterRow
<1>2. /\ letter[m] = NoLetter /\ letter' = [letter EXCEPT ![m] = row]
      /\ UNCHANGED <<batch, answered, sends, arrived, overlapped, mailFaults>>
  BY DEF EnqueueMail
<1> HIDE DEF row
<1>3. /\ letter' \in [Letter -> LetterRow \cup {NoLetter}] /\ letter'[m] = row
      /\ \A k \in Letter : k # m => letter'[k] = letter[k]
  BY <1>1, <1>2, MailFacts
<1>4. LetterTells(m, row)'
  <2>1. 0 <= sends'[m] /\ 0 < MaxSends
    <3>1. sends[m] \in 0..MaxSends /\ MaxSends \in Nat /\ MaxSends > 0 /\ sends' = sends
      BY <1>2, MailFacts
    <3> QED
      BY <3>1
  <2> QED
    BY <1>1, <2>1 DEF LetterTells
<1>5. \A k \in Letter : letter[k] # NoLetter => letter'[k] # NoLetter /\ letter'[k] = letter[k]
  BY <1>2, <1>3
<1>6. \A k \in Letter : letter'[k] # NoLetter => letter'[k] = letter[k] \/ LetterTells(k, letter[k])'
  BY <1>3, <1>4
<1> QED
  BY <1>2, <1>3, <1>5, <1>6, RowMoves

LEMMA MailFallsDueStep ==
  ASSUME MailInv, NEW m \in Letter, MailFallsDue(m)
  PROVE  MailInv'
<1>1. PICK row \in LetterRow : row = letter[m] /\ LetterTells(m, row) /\ row.status = "PENDING" /\ row # NoLetter
  BY MailFacts DEF MailFallsDue
<1>2. PICK row2 \in LetterRow : /\ row2 = [row EXCEPT !.nextRetryAt = "due"]
                                /\ row2.attempts = row.attempts /\ row2.status = row.status
  BY LetterChanges
<1>3. /\ letter' = [letter EXCEPT ![m] = row2]
      /\ UNCHANGED <<batch, answered, sends, arrived, overlapped, mailFaults>>
  BY <1>1, <1>2 DEF MailFallsDue
<1>4. /\ letter' \in [Letter -> LetterRow \cup {NoLetter}] /\ letter'[m] = row2 /\ row2 # NoLetter
      /\ \A k \in Letter : k # m => letter'[k] = letter[k]
  BY <1>3, MailFacts
<1>5. LetterTells(m, row2)'
  BY <1>1, <1>2, <1>3 DEF LetterTells
<1>6. /\ \A k \in Letter : letter[k] # NoLetter => letter'[k] # NoLetter
      /\ \A k \in Letter : letter[k] # NoLetter /\ letter[k].status = "SENT" => letter'[k] = letter[k]
      /\ \A k \in Letter : letter'[k] # NoLetter => letter'[k] = letter[k] \/ LetterTells(k, letter[k])'
  BY <1>1, <1>4, <1>5
<1> QED
  BY <1>3, <1>4, <1>6, RowMoves

LEMMA DropBatchStep ==
  ASSUME MailInv, NEW p \in Process, DropBatch(p)
  PROVE  MailInv'
<1>1. /\ batch' = [batch EXCEPT ![p] = <<>>] /\ answered' = [answered EXCEPT ![p] = FALSE]
      /\ UNCHANGED <<letter, sends, arrived, overlapped>>
  BY DEF DropBatch
<1>2. mailFaults' \in 0..MaxMailFaults /\ mailFaults' # 0
  BY MailFacts DEF DropBatch
<1>3. /\ batch' \in [Process -> Seq(MailCopy)] /\ answered' \in [Process -> BOOLEAN]
      /\ batch'[p] = <<>> /\ answered'[p] = FALSE
      /\ \A q \in Process : q # p => batch'[q] = batch[q] /\ answered'[q] = answered[q]
  <2>1. <<>> \in Seq(MailCopy)
    OBVIOUS
  <2>2. batch' \in [Process -> Seq(MailCopy)] /\ batch'[p] = <<>>
        /\ \A q \in Process : q # p => batch'[q] = batch[q]
    BY <1>1, <2>1, MailFacts
  <2>3. answered' \in [Process -> BOOLEAN] /\ answered'[p] = FALSE
        /\ \A q \in Process : q # p => answered'[q] = answered[q]
    BY <1>1, MailFacts
  <2> QED
    BY <2>2, <2>3
<1>4. /\ \A m \in Letter : letter'[m] # NoLetter => LetterTells(m, letter[m])'
      /\ \A q \in Process : \A i \in DOMAIN batch'[q] : CopyTells(q, i)'
  <2>1. ASSUME NEW q \in Process, NEW i \in DOMAIN batch'[q] PROVE CopyTells(q, i)'
    <3>1. q # p
      BY <1>3
    <3>2. CopyTells(q, i) /\ batch'[q] = batch[q] /\ answered'[q] = answered[q]
      BY <1>3, <3>1, MailFacts
    <3> QED
      BY <1>1, <3>2 DEF CopyTells, LetterTells
  <2>2. ASSUME NEW m \in Letter, letter'[m] # NoLetter PROVE LetterTells(m, letter[m])'
    BY <1>1, <2>2, MailFacts DEF LetterTells
  <2> QED
    BY <2>1, <2>2
<1>5. \A q \in Process : answered'[q] => batch'[q] # <<>>
  BY <1>3, MailFacts
<1>6. \A m \in Letter : Undisturbed(m)'
  BY <1>2 DEF Undisturbed
<1>7. MailTypeOK'
  BY <1>1, <1>2, <1>3, MailFacts DEF MailTypeOK, MailCopy
<1>8. batch' \in [Process -> Seq([id : Letter, row : LetterRow])]
  BY <1>3 DEF MailCopy
<1> QED
  BY <1>4, <1>5, <1>6, <1>7, <1>8 DEF MailInv

\* The first copy is saved and leaves the batch.
LEMMA SaveLetterStep ==
  ASSUME MailInv, NEW p \in Process, SaveLetter(p)
  PROVE  MailInv'
<1>1. PICK b \in Seq(MailCopy) : b = batch[p] /\ b # <<>>
  BY MailFacts DEF SaveLetter
<1>2. PICK c \in MailCopy : c = b[1] /\ c = Head(b)
  BY <1>1
<1>3. /\ 1 \in DOMAIN batch[p] /\ CopyTells(p, 1)
      /\ c.id \in Letter /\ c.row \in LetterRow /\ letter[c.id] # NoLetter /\ LetterTells(c.id, c.row)
  <2>1. 1 \in DOMAIN batch[p]
    BY <1>1
  <2>2. CopyTells(p, 1)
    BY <2>1, MailFacts
  <2> QED
    BY <1>1, <1>2, <2>1, <2>2, MailCopyFields DEF CopyTells
<1>4. PICK t \in Seq(MailCopy) : t = Tail(b) /\ \A i \in DOMAIN t : i \in Nat /\ i >= 1 /\ i + 1 \in DOMAIN b /\ t[i] = b[i + 1]
  <2>1. Tail(b) \in Seq(MailCopy) /\ Len(Tail(b)) = Len(b) - 1
    BY <1>1
  <2>2. PICK u \in Seq(MailCopy) : u = Tail(b)
    BY <2>1
  <2>3. ASSUME NEW i \in DOMAIN u PROVE i \in Nat /\ i >= 1 /\ i + 1 \in DOMAIN b /\ u[i] = b[i + 1]
    <3>1. i \in 1..Len(u) /\ Len(u) = Len(b) - 1 /\ Len(b) \in Nat
      BY <2>1, <2>2
    <3> QED
      BY <1>1, <2>2, <3>1
  <2> QED
    BY <2>2, <2>3
<1>5. /\ letter' = [letter EXCEPT ![c.id] = c.row] /\ batch' = [batch EXCEPT ![p] = t]
      /\ answered' = [answered EXCEPT ![p] = FALSE] /\ answered[p]
      /\ UNCHANGED <<sends, arrived, overlapped, mailFaults>>
  BY <1>1, <1>2, <1>4 DEF SaveLetter
<1>6. /\ letter' \in [Letter -> LetterRow \cup {NoLetter}] /\ letter'[c.id] = c.row /\ c.row # NoLetter
      /\ \A m \in Letter : m # c.id => letter'[m] = letter[m]
  BY <1>3, <1>5, MailFacts
<1>7. /\ batch' \in [Process -> Seq(MailCopy)] /\ batch'[p] = t
      /\ \A q \in Process : q # p => batch'[q] = batch[q]
  BY <1>5, MailFacts
<1>8. /\ answered' \in [Process -> BOOLEAN] /\ ~answered'[p]
      /\ \A q \in Process : q # p => answered'[q] = answered[q]
  BY <1>5, MailFacts
<1>9. ASSUME NEW q \in Process, NEW i \in DOMAIN batch'[q]
      PROVE  \E j \in DOMAIN batch[q] :
               /\ batch'[q][i] = batch[q][j]
               /\ batch[q][j].row.status = "PENDING" \/ (i = 1 /\ answered'[q])
  <2>1. CASE q # p
    <3>1. i \in DOMAIN batch[q] /\ CopyTells(q, i)
      BY <1>7, <1>9, <2>1, MailFacts
    <3> QED
      BY <1>7, <1>8, <2>1, <3>1 DEF CopyTells
  <2>2. CASE q = p
    <3>1. i \in Nat /\ i >= 1 /\ i + 1 \in DOMAIN batch[p] /\ batch'[q][i] = batch[p][i + 1]
      BY <1>1, <1>4, <1>7, <1>9, <2>2
    <3>2. CopyTells(p, i + 1) /\ i + 1 # 1
      BY <3>1, MailFacts
    <3> QED
      BY <2>2, <3>1, <3>2 DEF CopyTells
  <2> QED
    BY <2>1, <2>2
<1>10. /\ \A m \in Letter : letter'[m] # NoLetter => LetterTells(m, letter[m])'
       /\ \A q \in Process : \A i \in DOMAIN batch'[q] : CopyTells(q, i)'
  <2>1. \A m \in Letter : sends[m] <= sends'[m] /\ arrived[m] <= arrived'[m]
    <3> TAKE m \in Letter
    <3>1. sends[m] \in 0..MaxSends /\ arrived[m] \in 0..2 /\ MaxSends \in Nat
      BY MailFacts
    <3> QED
      BY <1>5, <3>1
  <2>2. LetterTells(c.id, c.row)'
    BY <1>3, <1>5 DEF LetterTells
  <2>3. \A m \in Letter : letter'[m] # NoLetter => letter'[m] = letter[m] \/ LetterTells(m, letter[m])'
    BY <1>6, <2>2
  <2>4. \A m \in Letter : letter[m] # NoLetter => letter'[m] # NoLetter
    BY <1>6
  <2>5. sends' \in [Letter -> 0..MaxSends] /\ arrived' \in [Letter -> 0..2]
    BY <1>5, MailFacts
  <2>6. \A q \in Process : \A i \in DOMAIN batch'[q] : \E j \in DOMAIN batch[q] :
          /\ batch'[q][i] = batch[q][j]
          /\ batch[q][j].row.status = "PENDING" \/ (i = 1 /\ answered'[q])
    BY <1>9
  <2> QED
    BY <1>6, <1>7, <2>1, <2>3, <2>4, <2>5, <2>6, MailTruth
<1>11. ASSUME NEW m \in Letter, HeldOnce(m) PROVE HeldOnce(m)'
  <2> SUFFICES ASSUME NEW q \in Process, NEW r \in Process,
                      NEW i \in DOMAIN batch'[q], NEW j \in DOMAIN batch'[r],
                      batch'[q][i].id = m, batch'[r][j].id = m
               PROVE  q = r /\ i = j
    BY DEF HeldOnce
  <2>1. PICK k \in DOMAIN batch[q] : batch'[q][i] = batch[q][k] /\ (q # p => k = i) /\ (q = p => k = i + 1 /\ i \in Nat)
    BY <1>1, <1>4, <1>7
  <2>2. PICK l \in DOMAIN batch[r] : batch'[r][j] = batch[r][l] /\ (r # p => l = j) /\ (r = p => l = j + 1 /\ j \in Nat)
    BY <1>1, <1>4, <1>7
  <2>3. q = r /\ k = l
    BY <1>11, <2>1, <2>2 DEF HeldOnce
  <2> QED
    BY <2>1, <2>2, <2>3
<1>12. \A q \in Process : \A m \in Letter : m \in HeldBy(q)' => m \in HeldBy(q)
  BY <1>9 DEF HeldBy
<1>13. ASSUME NEW m \in Letter, HeldOnce(m), SaysArrived(m) PROVE SaysArrived(m)'
  <2>1. CASE m = c.id
    <3>1. m \in HeldBy(p)
      BY <1>1, <1>2, <1>3, <2>1 DEF HeldBy
    <3>2. PICK q \in Process : /\ answered[q] /\ batch[q] # <<>> /\ batch[q][1].id = m
                               /\ batch[q][1].row.status = "SENT"
      BY <1>13, <3>1 DEF SaysArrived
    <3>3. q = p
      <4>1. 1 \in DOMAIN batch[q]
        BY <3>2, MailFacts
      <4> QED
        BY <1>1, <1>2, <1>3, <1>13, <2>1, <3>2, <4>1 DEF HeldOnce
    <3>4. letter'[m].status = "SENT" /\ letter'[m] # NoLetter
      BY <1>1, <1>2, <1>6, <2>1, <3>2, <3>3
    <3>5. ASSUME NEW r \in Process, m \in HeldBy(r)' PROVE FALSE
      <4>1. PICK i \in DOMAIN batch'[r] : batch'[r][i].id = m
        BY <3>5 DEF HeldBy
      <4>2. PICK k \in DOMAIN batch[r] : batch'[r][i] = batch[r][k] /\ (r = p => k = i + 1 /\ i \in Nat /\ i >= 1)
        BY <1>1, <1>4, <1>7
      <4>3. r = p /\ k = 1
        BY <1>1, <1>2, <1>3, <1>13, <2>1, <4>1, <4>2 DEF HeldOnce
      <4> QED
        BY <4>2, <4>3
    <3> QED
      BY <3>4, <3>5 DEF SaysArrived
  <2>2. CASE m # c.id
    <3>1. CASE letter[m] # NoLetter /\ letter[m].status = "SENT" /\ \A q \in Process : m \notin HeldBy(q)
      BY <1>6, <1>12, <2>2, <3>1 DEF SaysArrived
    <3>2. ASSUME NEW q \in Process, answered[q], batch[q] # <<>>, batch[q][1].id = m,
                 batch[q][1].row.status = "SENT"
          PROVE  SaysArrived(m)'
      <4>1. q # p
        BY <1>1, <1>2, <2>2, <3>2
      <4>2. answered'[q] /\ batch'[q] = batch[q]
        BY <1>7, <1>8, <3>2, <4>1
      <4> QED
        BY <3>2, <4>2 DEF SaysArrived
    <3> QED
      BY <1>13, <3>1, <3>2 DEF SaysArrived
  <2> QED
    BY <2>1, <2>2
<1>14. \A m \in Letter : Undisturbed(m)'
  <2> TAKE m \in Letter
  <2>1. Undisturbed(m)
    BY MailFacts
  <2> QED
    BY <1>5, <1>11, <1>13, <2>1 DEF Undisturbed
<1>15. MailTypeOK'
  BY <1>5, <1>6, <1>7, <1>8, MailFacts DEF MailTypeOK, MailCopy
<1>16. batch' \in [Process -> Seq([id : Letter, row : LetterRow])]
  BY <1>7 DEF MailCopy
<1>17. \A q \in Process : answered'[q] => batch'[q] # <<>>
  BY <1>7, <1>8, MailFacts
<1> QED
  BY <1>10, <1>14, <1>15, <1>16, <1>17 DEF MailInv

\* The first copy is sent, or not, and says what came of it.
LEMMA SendJobStep ==
  ASSUME MailInv, NEW p \in Process, SendJob(p)
  PROVE  MailInv'
<1>1. PICK b \in Seq(MailCopy) : b = batch[p] /\ b # <<>>
  BY MailFacts DEF SendJob
<1>2. PICK c \in MailCopy : c = b[1] /\ c = Head(b)
  BY <1>1
<1>3. /\ 1 \in DOMAIN batch[p] /\ ~answered[p] /\ c.id \in Letter /\ c.row \in LetterRow
      /\ letter[c.id] # NoLetter /\ LetterTells(c.id, c.row) /\ c.row.status = "PENDING"
  <2>1. 1 \in DOMAIN batch[p]
    BY <1>1
  <2>2. CopyTells(p, 1)
    BY <2>1, MailFacts
  <2>3. ~answered[p]
    BY DEF SendJob
  <2> QED
    BY <1>1, <1>2, <2>1, <2>2, <2>3, MailCopyFields DEF CopyTells
<1>4. c.row.attempts < MaxSends /\ c.row.attempts \in Nat /\ c.row.attempts <= sends[c.id] /\ MaxSends \in Nat
  BY <1>3, MailFacts, LetterFields DEF LetterTells
<1>5. UNCHANGED <<letter, overlapped>> /\ answered' = [answered EXCEPT ![p] = TRUE]
  BY DEF SendJob
<1>6. /\ answered' \in [Process -> BOOLEAN] /\ answered'[p]
      /\ \A q \in Process : q # p => answered'[q] = answered[q]
  BY <1>5, MailFacts
<1>7. SUFFICES
        ASSUME NEW took \in BOOLEAN, NEW ok \in BOOLEAN, ok => took,
               took /\ ~ok => mailFaults < MaxMailFaults,
               mailFaults' = IF took /\ ~ok THEN mailFaults + 1 ELSE mailFaults,
               batch' = [batch EXCEPT ![p][1].row = Verdict(@, ok)],
               sends' = [sends EXCEPT ![Head(batch[p]).id] = IF @ < MaxSends THEN @ + 1 ELSE @],
               arrived' = [arrived EXCEPT ![Head(batch[p]).id] = IF took /\ @ < 2 THEN @ + 1 ELSE @]
        PROVE  MailInv'
  BY Zenon DEF SendJob
<1>8. PICK row : row = Verdict(c.row, ok)
  OBVIOUS
<1>9. /\ row \in LetterRow /\ row.attempts = c.row.attempts + 1
      /\ row.status = "SENT" <=> ok
      /\ row.status = "PENDING" => c.row.attempts + 1 < MaxSends
      /\ row.status = "FAILED" => c.row.attempts + 1 = MaxSends
  BY <1>3, <1>4, <1>8, VerdictCounts, Zenon
<1>10. PICK c2 \in MailCopy : c2 = [c EXCEPT !.row = row] /\ c2.id = c.id /\ c2.row = row
  BY <1>9, MailCopyChanges
<1>11. PICK b2 \in Seq(MailCopy) : /\ b2 = [b EXCEPT ![1] = c2] /\ DOMAIN b2 = DOMAIN b /\ b2[1] = c2
                                   /\ \A i \in DOMAIN b : i # 1 => b2[i] = b[i]
  <2>1. PICK u : u = [b EXCEPT ![1] = c2]
    OBVIOUS
  <2>2. u \in Seq(MailCopy) /\ DOMAIN u = DOMAIN b /\ u[1] = c2 /\ \A i \in DOMAIN b : i # 1 => u[i] = b[i]
    BY <1>1, <2>1, FirstChanges
  <2> QED
    BY <2>1, <2>2
<1>12. batch' = [batch EXCEPT ![p] = b2]
  BY <1>1, <1>2, <1>7, <1>8, <1>10, <1>11, Zenon
<1>13. /\ batch' \in [Process -> Seq(MailCopy)] /\ batch'[p] = b2
       /\ \A q \in Process : q # p => batch'[q] = batch[q]
  BY <1>12, MailFacts
<1>14. /\ sends' \in [Letter -> 0..MaxSends] /\ c.row.attempts + 1 <= sends'[c.id]
       /\ \A m \in Letter : sends[m] <= sends'[m]
  <2>1. PICK n : n = IF sends[c.id] < MaxSends THEN sends[c.id] + 1 ELSE sends[c.id]
    OBVIOUS
  <2>2. n \in 0..MaxSends /\ sends[c.id] <= n /\ c.row.attempts + 1 <= n
    <3>1. sends[c.id] \in 0..MaxSends
      BY <1>3, MailFacts
    <3> QED
      BY <1>4, <2>1, <3>1
  <2>3. sends' = [sends EXCEPT ![c.id] = n]
    BY <1>1, <1>2, <1>7, <2>1
  <2>4. sends \in [Letter -> 0..MaxSends]
    BY MailFacts
  <2>5. \A m \in Letter : sends'[m] = sends[m] \/ (m = c.id /\ sends'[m] = n)
    BY <2>3, <2>4
  <2> QED
    BY <1>3, <1>4, <2>2, <2>3, <2>4, <2>5
<1>15. /\ arrived' \in [Letter -> 0..2] /\ \A m \in Letter : arrived[m] <= arrived'[m]
       /\ \A m \in Letter : m # c.id => arrived'[m] = arrived[m]
       /\ took => arrived'[c.id] > 0
       /\ ~took => arrived'[c.id] = arrived[c.id]
       /\ arrived[c.id] = 0 => arrived'[c.id] < 2
  <2>1. PICK n : n = IF took /\ arrived[c.id] < 2 THEN arrived[c.id] + 1 ELSE arrived[c.id]
    OBVIOUS
  <2>2. arrived \in [Letter -> 0..2] /\ arrived[c.id] \in 0..2
    BY <1>3, MailFacts
  <2>3. arrived' = [arrived EXCEPT ![c.id] = n]
    BY <1>1, <1>2, <1>7, <2>1, Zenon
  <2>4. CASE took
    <3>1. n = IF arrived[c.id] < 2 THEN arrived[c.id] + 1 ELSE arrived[c.id]
      BY <2>1, <2>4, Zenon
    <3>2. n \in 0..2 /\ n > 0 /\ arrived[c.id] <= n /\ (arrived[c.id] = 0 => n < 2)
      BY <2>2, <3>1
    <3>3. arrived'[c.id] = n /\ \A m \in Letter : m # c.id => arrived'[m] = arrived[m]
      BY <1>3, <2>2, <2>3
    <3>4. arrived' \in [Letter -> 0..2]
      BY <2>2, <2>3, <3>2
    <3>5. ASSUME NEW m \in Letter PROVE arrived[m] <= arrived'[m]
      <4>1. arrived[m] \in 0..2
        BY <2>2
      <4> QED
        BY <3>2, <3>3, <4>1
    <3> QED
      BY <2>4, <3>2, <3>3, <3>4, <3>5
  <2>5. CASE ~took
    <3>1. n = arrived[c.id]
      BY <2>1, <2>5, Zenon
    <3>2. arrived' = arrived
      BY <2>2, <2>3, <3>1
    <3> QED
      BY <2>2, <2>5, <3>2
  <2> QED
    BY <2>4, <2>5
<1>16. CopyTells(p, 1)'
  <2>1. LetterTells(c.id, row)'
    <3>1. row.status = "SENT" => arrived'[c.id] > 0
      BY <1>7, <1>9, <1>15
    <3> QED
      BY <1>4, <1>9, <1>14, <3>1 DEF LetterTells
  <2>2. batch'[p][1] = c2
    BY <1>11, <1>13
  <2> QED
    BY <1>3, <1>5, <1>6, <1>10, <2>1, <2>2 DEF CopyTells
<1>17. /\ \A m \in Letter : letter'[m] # NoLetter => LetterTells(m, letter[m])'
       /\ \A q \in Process : \A i \in DOMAIN batch'[q] : CopyTells(q, i)'
  <2>1. ASSUME NEW q \in Process, NEW i \in DOMAIN batch'[q]
        PROVE  \/ CopyTells(q, i)'
               \/ \E j \in DOMAIN batch[q] :
                    /\ batch'[q][i] = batch[q][j]
                    /\ batch[q][j].row.status = "PENDING" \/ (i = 1 /\ answered'[q])
    <3>1. CASE q = p /\ i = 1
      BY <1>16, <3>1
    <3>2. CASE q = p /\ i # 1
      <4>1. i \in DOMAIN batch[q] /\ batch'[q][i] = batch[q][i]
        BY <1>1, <1>11, <1>13, <2>1, <3>2
      <4>2. CopyTells(q, i)
        BY <4>1, MailFacts
      <4> QED
        BY <3>2, <4>1, <4>2 DEF CopyTells
    <3>3. CASE q # p
      <4>1. i \in DOMAIN batch[q] /\ batch'[q][i] = batch[q][i] /\ answered'[q] = answered[q]
        BY <1>6, <1>13, <2>1, <3>3
      <4>2. CopyTells(q, i)
        BY <4>1, MailFacts
      <4> QED
        BY <4>1, <4>2 DEF CopyTells
    <3> QED
      BY <3>1, <3>2, <3>3
  <2>2. letter' \in [Letter -> LetterRow \cup {NoLetter}]
    BY <1>5, MailFacts
  <2> QED
    BY <1>5, <1>13, <1>14, <1>15, <2>1, <2>2, MailTruth
<1>18. \A q \in Process : DOMAIN batch'[q] = DOMAIN batch[q]
                          /\ \A i \in DOMAIN batch'[q] : batch'[q][i].id = batch[q][i].id
  <2> TAKE q \in Process
  <2>1. CASE q = p
    <3>1. \A i \in DOMAIN b2 : b2[i].id = b[i].id
      BY <1>2, <1>10, <1>11
    <3> QED
      BY <1>1, <1>11, <1>13, <2>1, <3>1
  <2>2. CASE q # p
    BY <1>13, <2>2
  <2> QED
    BY <2>1, <2>2
<1>19. \A m \in Letter : HeldOnce(m) => HeldOnce(m)'
  BY <1>18 DEF HeldOnce
<1>20. \A q \in Process : HeldBy(q)' = HeldBy(q)
  BY <1>18 DEF HeldBy
<1>21. ASSUME NEW m \in Letter, m \notin overlapped', mailFaults' = 0
       PROVE  HeldOnce(m)' /\ arrived'[m] < 2 /\ (arrived'[m] > 0 => SaysArrived(m)')
  <2>1. mailFaults = 0 /\ m \notin overlapped /\ (took => ok)
    <3>1. mailFaults \in Nat /\ overlapped' = overlapped
      BY <1>5, MailFacts
    <3>2. CASE took /\ ~ok
      <4>1. mailFaults' = mailFaults + 1
        BY <1>7, <3>2, Zenon
      <4> QED
        BY <1>21, <3>1, <4>1
    <3>3. CASE ~(took /\ ~ok)
      <4>1. mailFaults' = mailFaults
        BY <1>7, <3>3, Zenon
      <4> QED
        BY <1>21, <3>1, <3>3, <4>1
    <3> QED
      BY <3>2, <3>3
  <2>2. HeldOnce(m) /\ arrived[m] < 2 /\ (arrived[m] > 0 => SaysArrived(m))
    BY <2>1, MailFacts DEF Undisturbed
  <2>3. CASE m = c.id
    <3>1. ~SaysArrived(m)
      <4>1. m \in HeldBy(p)
        BY <1>1, <1>2, <1>3, <2>3 DEF HeldBy
      <4>2. ASSUME NEW q \in Process, answered[q], batch[q] # <<>>, batch[q][1].id = m PROVE FALSE
        <5>1. 1 \in DOMAIN batch[q]
          BY <4>2, MailFacts
        <5>2. q = p
          BY <1>1, <1>2, <1>3, <2>2, <2>3, <4>2, <5>1 DEF HeldOnce
        <5> QED
          BY <1>3, <4>2, <5>2
      <4> QED
        BY <4>1, <4>2 DEF SaysArrived
    <3>2. arrived[m] = 0
      <4>1. arrived[m] \in 0..2
        BY MailFacts
      <4> QED
        BY <2>2, <3>1, <4>1
    <3>3. arrived'[m] < 2 /\ (~took => arrived'[m] = 0)
      BY <1>15, <2>3, <3>2
    <3>4. took => SaysArrived(m)'
      <4>1. took => row.status = "SENT"
        BY <1>9, <2>1
      <4>2. batch'[p][1] = c2 /\ batch'[p] # <<>> /\ c2.id = m /\ c2.row = row
        BY <1>1, <1>10, <1>11, <1>13, <2>3
      <4> QED
        BY <1>6, <4>1, <4>2 DEF SaysArrived
    <3> QED
      BY <1>19, <2>2, <3>3, <3>4
  <2>4. CASE m # c.id
    <3>1. arrived'[m] = arrived[m]
      BY <1>15, <2>4
    <3>2. SaysArrived(m) => SaysArrived(m)'
      <4>1. CASE letter[m] # NoLetter /\ letter[m].status = "SENT" /\ \A q \in Process : m \notin HeldBy(q)
        BY <1>5, <1>20, <4>1 DEF SaysArrived
      <4>2. ASSUME NEW q \in Process, answered[q], batch[q] # <<>>, batch[q][1].id = m,
                   batch[q][1].row.status = "SENT"
            PROVE  SaysArrived(m)'
        <5>1. q # p
          BY <1>3, <4>2
        <5>2. answered'[q] /\ batch'[q] = batch[q]
          BY <1>6, <1>13, <4>2, <5>1
        <5> QED
          BY <4>2, <5>2 DEF SaysArrived
      <4> QED
        BY <4>1, <4>2 DEF SaysArrived
    <3> QED
      BY <1>19, <2>2, <3>1, <3>2
  <2> QED
    BY <2>3, <2>4
<1>22. \A m \in Letter : Undisturbed(m)'
  BY <1>21 DEF Undisturbed
<1>23. MailTypeOK'
  <2>1. mailFaults' \in 0..MaxMailFaults
    <3>1. mailFaults \in 0..MaxMailFaults /\ MaxMailFaults \in Nat
      BY MailFacts
    <3>2. CASE took /\ ~ok
      <4>1. mailFaults' = mailFaults + 1 /\ mailFaults < MaxMailFaults
        BY <1>7, <3>2, Zenon
      <4> QED
        BY <3>1, <4>1
    <3>3. CASE ~(took /\ ~ok)
      BY <1>7, <3>1, <3>3, Zenon
    <3> QED
      BY <3>2, <3>3
  <2> QED
    BY <1>5, <1>6, <1>13, <1>14, <1>15, <2>1, MailFacts DEF MailTypeOK, MailCopy
<1>24. batch' \in [Process -> Seq([id : Letter, row : LetterRow])]
  BY <1>13 DEF MailCopy
<1>25. \A q \in Process : answered'[q] => batch'[q] # <<>>
  <2>1. b2 # <<>>
    BY <1>1, <1>11
  <2> QED
    BY <1>6, <1>13, <2>1, MailFacts
<1> QED
  BY <1>17, <1>22, <1>23, <1>24, <1>25 DEF MailInv

\* A run reads due rows, which nobody holds unless they become overlapped.
LEMMA ProcessQueueStep ==
  ASSUME MailInv, NEW p \in Process, ProcessQueue(p)
  PROVE  MailInv'
<1>0. PICK n \in 1..MailTake : \E ids \in [1..n -> Due] :
        /\ \A i, j \in 1..n : i < j => ids[i] < ids[j]
        /\ batch' = [batch EXCEPT ![p] = [i \in 1..n |-> [id |-> ids[i], row |-> letter[ids[i]]]]]
        /\ overlapped' = overlapped \cup {m \in Range(ids) : \E q \in Process \ {p} : m \in HeldBy(q)}
  BY DEF ProcessQueue
<1>1. PICK ids \in [1..n -> Due] :
        /\ \A i, j \in 1..n : i < j => ids[i] < ids[j]
        /\ batch' = [batch EXCEPT ![p] = [i \in 1..n |-> [id |-> ids[i], row |-> letter[ids[i]]]]]
        /\ overlapped' = overlapped \cup {m \in Range(ids) : \E q \in Process \ {p} : m \in HeldBy(q)}
  BY <1>0
<1>2. batch[p] = <<>> /\ UNCHANGED <<letter, answered, sends, arrived, mailFaults>>
  BY DEF ProcessQueue
<1>3. n \in Nat /\ DOMAIN ids = 1..n /\ Range(ids) = {ids[i] : i \in 1..n}
  BY <1>1, MailAssumption DEF Range
<1>4. ASSUME NEW m \in Due
      PROVE  /\ m \in Letter /\ letter[m] \in LetterRow /\ letter[m] # NoLetter
             /\ letter[m].status = "PENDING" /\ LetterTells(m, letter[m])
  BY <1>4, MailFacts DEF Due
<1>5. PICK b : b = [i \in 1..n |-> [id |-> ids[i], row |-> letter[ids[i]]]]
  OBVIOUS
<1>6. \A i \in 1..n : /\ ids[i] \in Due /\ b[i] = [id |-> ids[i], row |-> letter[ids[i]]]
                      /\ b[i] \in MailCopy /\ b[i].id = ids[i] /\ b[i].row = letter[ids[i]]
  <2> TAKE i \in 1..n
  <2>1. ids[i] \in Due /\ b[i] = [id |-> ids[i], row |-> letter[ids[i]]]
    BY <1>1, <1>5
  <2>2. ids[i] \in Letter /\ letter[ids[i]] \in LetterRow
    BY <1>4, <2>1
  <2> QED
    BY <2>1, <2>2 DEF MailCopy
<1>7. b \in Seq(MailCopy) /\ DOMAIN b = 1..n
  <2>1. b \in [1..n -> MailCopy]
    BY <1>5, <1>6
  <2> QED
    BY <1>3, <2>1
<1>8. /\ batch' \in [Process -> Seq(MailCopy)] /\ batch'[p] = b
      /\ \A q \in Process : q # p => batch'[q] = batch[q]
  BY <1>1, <1>5, <1>7, MailFacts
<1>9. /\ overlapped' \subseteq Letter /\ overlapped \subseteq overlapped'
      /\ \A i \in 1..n : \A q \in Process : q # p /\ ids[i] \in HeldBy(q) => ids[i] \in overlapped'
  <2>1. Range(ids) \subseteq Letter
    BY <1>3, <1>4, <1>6
  <2> QED
    BY <1>1, <1>3, <2>1, MailFacts
<1>10. ~answered[p]
  BY <1>2, MailFacts
<1>11. ASSUME NEW q \in Process, NEW i \in DOMAIN batch'[q] PROVE CopyTells(q, i)'
  <2>1. CASE q = p
    <3>1. PICK c \in MailCopy : c = batch'[q][i] /\ c.id = ids[i] /\ c.row = letter[ids[i]] /\ ids[i] \in Due
      BY <1>6, <1>7, <1>8, <1>11, <2>1
    <3>2. letter'[c.id] # NoLetter /\ LetterTells(c.id, c.row) /\ c.row.status = "PENDING"
      BY <1>2, <1>4, <3>1
    <3>3. LetterTells(c.id, c.row)'
      BY <1>2, <3>2 DEF LetterTells
    <3> QED
      BY <3>1, <3>2, <3>3 DEF CopyTells
  <2>2. CASE q # p
    <3>1. batch'[q] = batch[q] /\ answered'[q] = answered[q]
      BY <1>2, <1>8, <2>2
    <3>2. CopyTells(q, i)
      BY <1>11, <3>1, MailFacts
    <3> QED
      BY <1>2, <3>1, <3>2 DEF CopyTells, LetterTells
  <2> QED
    BY <2>1, <2>2
<1>12. ASSUME NEW m \in Letter, letter'[m] # NoLetter PROVE LetterTells(m, letter[m])'
  BY <1>2, <1>12, MailFacts DEF LetterTells
<1>13. ASSUME NEW m \in Letter, m \notin overlapped', mailFaults' = 0
       PROVE  HeldOnce(m)' /\ arrived'[m] < 2 /\ (arrived'[m] > 0 => SaysArrived(m)')
  <2>1. HeldOnce(m) /\ arrived[m] < 2 /\ (arrived[m] > 0 => SaysArrived(m))
    BY <1>2, <1>9, <1>13, MailFacts DEF Undisturbed
  <2>2. ASSUME NEW i \in 1..n, ids[i] = m, NEW q \in Process, q # p PROVE m \notin HeldBy(q)
    BY <1>9, <1>13, <2>2
  <2>3. HeldOnce(m)'
    <3> SUFFICES ASSUME NEW q \in Process, NEW r \in Process,
                        NEW i \in DOMAIN batch'[q], NEW j \in DOMAIN batch'[r],
                        batch'[q][i].id = m, batch'[r][j].id = m
                 PROVE  q = r /\ i = j
      BY DEF HeldOnce
    <3>1. CASE q = p /\ r = p
      <4>1. i \in 1..n /\ j \in 1..n /\ ids[i] = m /\ ids[j] = m
        BY <1>6, <1>7, <1>8, <3>1
      <4>2. m \in Nat
        BY MailFacts
      <4>3. ~(i < j) /\ ~(j < i)
        BY <1>1, <4>1, <4>2
      <4> QED
        BY <1>3, <3>1, <4>1, <4>3
    <3>2. CASE q = p /\ r # p
      <4>1. i \in 1..n /\ ids[i] = m
        BY <1>6, <1>7, <1>8, <3>2
      <4>2. m \in HeldBy(r)
        BY <1>8, <3>2 DEF HeldBy
      <4> QED
        BY <2>2, <3>2, <4>1, <4>2
    <3>3. CASE q # p /\ r = p
      <4>1. j \in 1..n /\ ids[j] = m
        BY <1>6, <1>7, <1>8, <3>3
      <4>2. m \in HeldBy(q)
        BY <1>8, <3>3 DEF HeldBy
      <4> QED
        BY <2>2, <3>3, <4>1, <4>2
    <3>4. CASE q # p /\ r # p
      BY <1>8, <2>1, <3>4 DEF HeldOnce
    <3> QED
      BY <3>1, <3>2, <3>3, <3>4
  <2>4. ASSUME SaysArrived(m) PROVE SaysArrived(m)'
    <3>1. CASE letter[m] # NoLetter /\ letter[m].status = "SENT" /\ \A q \in Process : m \notin HeldBy(q)
      <4>1. m \notin HeldBy(p)'
        <5> SUFFICES ASSUME NEW i \in DOMAIN batch'[p], batch'[p][i].id = m PROVE FALSE
          BY DEF HeldBy
        <5>1. m \in Due
          BY <1>6, <1>7, <1>8
        <5> QED
          BY <1>4, <3>1, <5>1
      <4>2. \A q \in Process : q # p => m \notin HeldBy(q)'
        BY <1>8, <3>1 DEF HeldBy
      <4> QED
        BY <1>2, <3>1, <4>1, <4>2 DEF SaysArrived
    <3>2. ASSUME NEW q \in Process, answered[q], batch[q] # <<>>, batch[q][1].id = m,
                 batch[q][1].row.status = "SENT"
          PROVE  SaysArrived(m)'
      <4>1. q # p
        BY <1>2, <3>2
      <4>2. answered'[q] /\ batch'[q] = batch[q]
        BY <1>2, <1>8, <3>2, <4>1
      <4> QED
        BY <3>2, <4>2 DEF SaysArrived
    <3> QED
      BY <2>4, <3>1, <3>2 DEF SaysArrived
  <2> QED
    BY <1>2, <2>1, <2>3, <2>4
<1>14. \A m \in Letter : Undisturbed(m)'
  BY <1>13 DEF Undisturbed
<1>15. MailTypeOK'
  BY <1>2, <1>8, <1>9, MailFacts DEF MailTypeOK, MailCopy
<1>16. batch' \in [Process -> Seq([id : Letter, row : LetterRow])]
  BY <1>8 DEF MailCopy
<1>17. \A q \in Process : answered'[q] => batch'[q] # <<>>
  BY <1>2, <1>8, <1>10, MailFacts
<1> QED
  BY <1>11, <1>12, <1>14, <1>15, <1>16, <1>17 DEF MailInv

LEMMA MailStep == MailInv /\ [MailNext]_mailVars => MailInv'
<1> SUFFICES ASSUME MailInv, [MailNext]_mailVars PROVE MailInv'
  OBVIOUS
<1>1. CASE UNCHANGED mailVars
  BY <1>1, MailFacts, RowMoves DEF mailVars
<1>2. ASSUME NEW m \in Letter, EnqueueMail(m) \/ MailFallsDue(m) PROVE MailInv'
  BY <1>2, EnqueueMailStep, MailFallsDueStep
<1>3. ASSUME NEW p \in Process, ProcessQueue(p) \/ SendJob(p) \/ SaveLetter(p) \/ DropBatch(p) PROVE MailInv'
  BY <1>3, ProcessQueueStep, SendJobStep, SaveLetterStep, DropBatchStep
<1> QED
  BY <1>1, <1>2, <1>3 DEF MailNext

LEMMA MailStart == MailInit => MailInv
<1> SUFFICES ASSUME MailInit PROVE MailInv
  OBVIOUS
<1>1. 0 \in 0..MaxSends /\ 0 \in 0..2 /\ 0 \in 0..MaxMailFaults
  BY MailAssumption
<1>2. /\ letter \in [Letter -> LetterRow \cup {NoLetter}] /\ \A m \in Letter : letter[m] = NoLetter
      /\ sends \in [Letter -> 0..MaxSends] /\ arrived \in [Letter -> 0..2]
      /\ \A m \in Letter : arrived[m] = 0
  BY <1>1 DEF MailInit
<1>3. /\ batch \in [Process -> Seq([id : Letter, row : LetterRow])]
      /\ \A p \in Process : batch[p] = <<>> /\ DOMAIN batch[p] = {}
  <2>1. <<>> \in Seq([id : Letter, row : LetterRow]) /\ DOMAIN << >> = {}
    OBVIOUS
  <2> QED
    BY <2>1 DEF MailInit
<1>4. answered \in [Process -> BOOLEAN] /\ \A p \in Process : ~answered[p]
  BY DEF MailInit
<1>5. MailTypeOK
  BY <1>1, <1>2, <1>3, <1>4 DEF MailInit, MailTypeOK
<1>6. \A m \in Letter : Undisturbed(m)
  <2> TAKE m \in Letter
  <2>1. HeldOnce(m)
    BY <1>3 DEF HeldOnce
  <2>2. arrived[m] < 2 /\ ~(arrived[m] > 0)
    <3>1. arrived[m] = 0
      BY <1>2
    <3> QED
      BY <3>1
  <2> QED
    BY <2>1, <2>2 DEF Undisturbed
<1> QED
  BY <1>2, <1>3, <1>4, <1>5, <1>6 DEF MailInv

----------------------------------------------------------------------------
(* Proofs: mail implements Outbox.                                         *)

LetterStatus(row) ==
  IF row = NoLetter THEN "none"
  ELSE [PENDING |-> "pending", SENT |-> "done", FAILED |-> "given_up"][row.status]

LEMMA LetterStatuses ==
  ASSUME NEW row \in LetterRow, NoLetter \notin LetterRow
  PROVE  /\ LetterStatus(row) \in {"pending", "done", "given_up"}
         /\ LetterStatus(row) = "pending" <=> row.status = "PENDING"
         /\ LetterStatus(row) = "done" <=> row.status = "SENT"
         /\ LetterStatus(row) = "given_up" <=> row.status = "FAILED"
<1>1. row # NoLetter /\ row.status \in {"PENDING", "SENT", "FAILED"}
  BY DEF LetterRow
<1>2. LetterStatus(row) = [PENDING |-> "pending", SENT |-> "done", FAILED |-> "given_up"][row.status]
  BY <1>1 DEF LetterStatus
<1>3. CASE row.status = "PENDING"
  BY <1>2, <1>3
<1>4. CASE row.status = "SENT"
  BY <1>2, <1>4
<1>5. CASE row.status = "FAILED"
  BY <1>2, <1>5
<1> QED
  BY <1>1, <1>3, <1>4, <1>5

\* One row is created or saved.
LEMMA MailRecords ==
  ASSUME MailInv, NEW m \in Letter, NEW row \in LetterRow,
         letter' = [letter EXCEPT ![m] = row], sends' = sends, arrived' = arrived,
         row.status = "PENDING" \/ letter[m] # NoLetter, LetterTells(m, row)
  PROVE  MailOutbox!Next
<1>1. PICK v : v = LetterStatus(row)
  OBVIOUS
<1>2. /\ v \in {"pending", "done", "given_up"}
      /\ v = "done" => arrived[m] > 0
      /\ v = "given_up" => sends[m] = MaxSends
      /\ letter[m] = NoLetter => v = "pending"
  <2>1. sends[m] \in 0..MaxSends /\ MaxSends \in Nat
    BY MailFacts
  <2>2. /\ v \in {"pending", "done", "given_up"}
        /\ v = "pending" <=> row.status = "PENDING"
        /\ v = "done" <=> row.status = "SENT"
        /\ v = "given_up" <=> row.status = "FAILED"
    BY <1>1, MailFacts, LetterStatuses
  <2> QED
    BY <2>1, <2>2 DEF LetterTells
<1>3. PICK st : st = [e \in Letter |-> LetterStatus(letter[e])]
  OBVIOUS
<1>4. PICK st2 : st2 = [e \in Letter |-> LetterStatus(letter'[e])]
  OBVIOUS
<1>5. st2 = [st EXCEPT ![m] = v]
  <2>1. letter'[m] = row /\ \A e \in Letter : e # m => letter'[e] = letter[e]
    BY MailFacts
  <2>2. st2[m] = v /\ \A e \in Letter : e # m => st2[e] = st[e]
    BY <1>1, <1>3, <1>4, <2>1
  <2> QED
    BY <1>3, <1>4, <2>2
<1>6. st[m] = "none" <=> letter[m] = NoLetter
  <2>1. st[m] = LetterStatus(letter[m])
    BY <1>3
  <2>2. CASE letter[m] = NoLetter
    BY <2>1, <2>2 DEF LetterStatus
  <2>3. CASE letter[m] # NoLetter
    <3>1. LetterStatus(letter[m]) \in {"pending", "done", "given_up"}
      BY <2>3, MailFacts, LetterStatuses
    <3> QED
      BY <2>1, <2>3, <3>1
  <2> QED
    BY <2>2, <2>3
<1>7. UNCHANGED <<sends, [e \in Letter |-> arrived[e] > 0]>>
  OBVIOUS
<1>8. CASE letter[m] = NoLetter
  <2>1. st[m] = "none" /\ st2 = [st EXCEPT ![m] = "pending"]
    BY <1>2, <1>5, <1>6, <1>8
  <2>2. MailOutbox!Accept(m)
    BY <1>3, <1>4, <1>7, <2>1 DEF MailOutbox!Accept, LetterStatus
  <2> QED
    BY <2>2 DEF MailOutbox!Next
<1>9. CASE letter[m] # NoLetter
  <2>1. st[m] # "none"
    BY <1>6, <1>9
  <2>2. v = "done" => [e \in Letter |-> arrived[e] > 0][m]
    BY <1>2, Zenon
  <2>3. MailOutbox!Record(m, v)
    BY <1>2, <1>3, <1>4, <1>5, <1>7, <2>1, <2>2 DEF MailOutbox!Record, LetterStatus
  <2> QED
    BY <1>2, <2>3 DEF MailOutbox!Next
<1> QED
  BY <1>8, <1>9

LEMMA SendTries ==
  ASSUME MailInv, NEW p \in Process, SendJob(p)
  PROVE  MailOutbox!Next
<1>1. PICK c \in MailCopy : c = Head(batch[p]) /\ c.id \in Letter /\ letter[c.id] # NoLetter
  <2>1. PICK b \in Seq(MailCopy) : b = batch[p] /\ b # <<>>
    BY MailFacts DEF SendJob
  <2>2. Head(b) = b[1] /\ b[1] \in MailCopy /\ 1 \in DOMAIN batch[p]
    BY <2>1
  <2>3. CopyTells(p, 1)
    BY <2>2, MailFacts
  <2> QED
    BY <2>1, <2>2, <2>3, MailCopyFields DEF CopyTells
<1>2. letter' = letter
  BY DEF SendJob
<1>3. SUFFICES
        ASSUME NEW took \in BOOLEAN,
               sends' = [sends EXCEPT ![Head(batch[p]).id] = IF @ < MaxSends THEN @ + 1 ELSE @],
               arrived' = [arrived EXCEPT ![Head(batch[p]).id] = IF took /\ @ < 2 THEN @ + 1 ELSE @]
        PROVE  MailOutbox!Next
  BY Zenon DEF SendJob
<1>4. LetterStatus(letter[c.id]) # "none"
  BY <1>1, MailFacts, LetterStatuses
<1>5. sends' = [sends EXCEPT ![c.id] = IF @ < MaxSends THEN @ + 1 ELSE @]
  BY <1>1, <1>3
<1>6. PICK n : n = IF took /\ arrived[c.id] < 2 THEN arrived[c.id] + 1 ELSE arrived[c.id]
  OBVIOUS
<1>7. arrived' = [arrived EXCEPT ![c.id] = n]
  BY <1>1, <1>3, <1>6, Zenon
<1>8. arrived \in [Letter -> 0..2] /\ arrived[c.id] \in 0..2
  BY <1>1, MailFacts
<1>9. (n > 0) = (arrived[c.id] > 0 \/ took)
  <2>1. CASE took
    <3>1. n = IF arrived[c.id] < 2 THEN arrived[c.id] + 1 ELSE arrived[c.id]
      BY <1>6, <2>1, Zenon
    <3>2. n > 0
      BY <1>8, <3>1
    <3> QED
      BY <2>1, <3>2, Zenon
  <2>2. CASE ~took
    <3>1. n = arrived[c.id]
      BY <1>6, <2>2, Zenon
    <3>2. (arrived[c.id] > 0) \in BOOLEAN
      BY <1>8
    <3> QED
      BY <2>2, <3>1, <3>2, Zenon
  <2> QED
    BY <2>1, <2>2, Zenon
<1>10. PICK t : t = [e \in Letter |-> arrived[e] > 0]
  OBVIOUS
<1>11. PICK t2 : t2 = [e \in Letter |-> arrived'[e] > 0]
  OBVIOUS
<1>12. \E x \in BOOLEAN : t2 = [t EXCEPT ![c.id] = @ \/ x]
  <2>1. \A e \in Letter : t[e] = (arrived[e] > 0) /\ t2[e] = (arrived'[e] > 0)
    BY <1>10, <1>11, Zenon
  <2>2. t = [e \in Letter |-> t[e]] /\ t2 = [e \in Letter |-> t2[e]]
    BY <1>10, <1>11, Zenon
  <2>3. arrived'[c.id] = n /\ \A e \in Letter : e # c.id => arrived'[e] = arrived[e]
    BY <1>1, <1>7, <1>8
  <2>4. \A e \in Letter : t2[e] = IF e = c.id THEN t[e] \/ took ELSE t[e]
    <3> TAKE e \in Letter
    <3>1. CASE e = c.id
      <4>1. t2[e] = (t[e] \/ took)
        BY <1>9, <2>1, <2>3, <3>1, Zenon
      <4> QED
        BY <3>1, <4>1, Zenon
    <3>2. CASE e # c.id
      <4>1. t2[e] = t[e]
        BY <2>1, <2>3, <3>2, Zenon
      <4> QED
        BY <3>2, <4>1, Zenon
    <3> QED
      BY <3>1, <3>2, Zenon
  <2>5. t2 = [t EXCEPT ![c.id] = @ \/ took]
    BY <2>2, <2>4, Zenon
  <2> QED
    BY <2>5
<1>13. MailOutbox!Try(c.id)
  BY <1>2, <1>4, <1>5, <1>10, <1>11, <1>12, <1>1 DEF MailOutbox!Try, LetterStatus
<1> QED
  BY <1>1, <1>13 DEF MailOutbox!Next

LEMMA MailRefines ==
  MailInv /\ [MailNext]_mailVars => [MailOutbox!Next]_MailOutbox!vars
<1> SUFFICES ASSUME MailInv, [MailNext]_mailVars
             PROVE  MailOutbox!Next \/ UNCHANGED <<letter, sends, arrived>>
  BY DEF MailOutbox!vars
<1>1. ASSUME NEW m \in Letter, EnqueueMail(m) PROVE MailOutbox!Next
  <2> DEFINE row == [status |-> "PENDING", attempts |-> 0, nextRetryAt |-> "null"]
  <2>1. sends[m] \in 0..MaxSends /\ MaxSends \in Nat /\ MaxSends > 0 /\ 0 \in 0..MaxSends
    BY MailFacts
  <2>2. row \in LetterRow /\ row.status = "PENDING" /\ row.attempts = 0
    BY <2>1 DEF LetterRow
  <2>3. letter' = [letter EXCEPT ![m] = row] /\ sends' = sends /\ arrived' = arrived
    BY <1>1 DEF EnqueueMail
  <2> HIDE DEF row
  <2>4. LetterTells(m, row)
    BY <2>1, <2>2 DEF LetterTells
  <2> QED
    BY <2>2, <2>3, <2>4, MailRecords
<1>2. ASSUME NEW m \in Letter, MailFallsDue(m) PROVE MailOutbox!Next
  <2>1. PICK row \in LetterRow : row = letter[m] /\ LetterTells(m, row) /\ letter[m] # NoLetter
    BY <1>2, MailFacts DEF MailFallsDue
  <2>2. PICK row2 \in LetterRow : /\ row2 = [row EXCEPT !.nextRetryAt = "due"]
                                  /\ row2.attempts = row.attempts /\ row2.status = row.status
    BY LetterChanges
  <2>3. letter' = [letter EXCEPT ![m] = row2] /\ sends' = sends /\ arrived' = arrived
    BY <1>2, <2>1, <2>2 DEF MailFallsDue
  <2>4. LetterTells(m, row2)
    BY <2>1, <2>2 DEF LetterTells
  <2> QED
    BY <2>1, <2>3, <2>4, MailRecords
<1>3. ASSUME NEW p \in Process, SaveLetter(p) PROVE MailOutbox!Next
  <2>1. PICK b \in Seq(MailCopy) : b = batch[p] /\ b # <<>>
    BY <1>3, MailFacts DEF SaveLetter
  <2>2. PICK c \in MailCopy : c = b[1] /\ c = Head(b) /\ 1 \in DOMAIN batch[p]
    BY <2>1
  <2>3. /\ c.id \in Letter /\ c.row \in LetterRow /\ letter[c.id] # NoLetter /\ LetterTells(c.id, c.row)
    <3>1. CopyTells(p, 1)
      BY <2>2, MailFacts
    <3> QED
      BY <2>1, <2>2, <3>1, MailCopyFields DEF CopyTells
  <2>4. letter' = [letter EXCEPT ![c.id] = c.row] /\ sends' = sends /\ arrived' = arrived
    BY <1>3, <2>1, <2>2 DEF SaveLetter
  <2> QED
    BY <2>3, <2>4, MailRecords
<1>4. ASSUME NEW p \in Process, SendJob(p) PROVE MailOutbox!Next
  BY <1>4, SendTries
<1>5. CASE UNCHANGED mailVars \/ \E p \in Process : ProcessQueue(p) \/ DropBatch(p)
  BY <1>5 DEF mailVars, ProcessQueue, DropBatch
<1> QED
  BY <1>1, <1>2, <1>3, <1>4, <1>5 DEF MailNext

LEMMA MailAccepts == MailInit => MailOutbox!Init
<1> SUFFICES ASSUME MailInit PROVE MailOutbox!Init
  OBVIOUS
<1>1. [m \in Letter |-> arrived[m] > 0] = [m \in Letter |-> FALSE]
  <2>1. ASSUME NEW m \in Letter PROVE (arrived[m] > 0) = FALSE
    <3>1. arrived[m] = 0
      BY DEF MailInit
    <3>2. ~(arrived[m] > 0) /\ (arrived[m] > 0) \in BOOLEAN
      BY <3>1
    <3> QED
      BY <3>2, Zenon
  <2> QED
    BY <2>1, Zenon
<1>2. \A m \in Letter : LetterStatus(letter[m]) = "none"
  BY DEF MailInit, LetterStatus
<1>3. sends = [m \in Letter |-> 0]
  BY DEF MailInit
<1> QED
  BY <1>1, <1>2, <1>3 DEF MailOutbox!Init, LetterStatus

----------------------------------------------------------------------------
(* All of them together.                                                   *)

DeliveryInv ==
  WebhookInv /\ MailInv /\ SessionInv /\ BatchInv /\ IndexerInv /\ OfflineInv

LEMMA ComponentSteps ==
  [Next]_vars => /\ [WebhookNext]_webhookVars /\ [MailNext]_mailVars
                 /\ [SessionNext]_sessionVars /\ [BatchNext]_batchVars
                 /\ [IndexerNext]_indexerVars /\ [OfflineNext]_offlineVars
<1> SUFFICES ASSUME [Next]_vars
             PROVE  /\ WebhookNext \/ UNCHANGED webhookVars
                    /\ MailNext \/ UNCHANGED mailVars
                    /\ SessionNext \/ UNCHANGED sessionVars
                    /\ BatchNext \/ UNCHANGED batchVars
                    /\ IndexerNext \/ UNCHANGED indexerVars
                    /\ OfflineNext \/ UNCHANGED offlineVars
  OBVIOUS
<1>1. CASE UNCHANGED vars
  BY <1>1 DEF vars
<1>2. CASE Next
  BY <1>2 DEF Next
<1> QED
  BY <1>1, <1>2

LEMMA DeliveryStart == Init => DeliveryInv
BY WebhookStart, MailStart, SessionStart, BatchStart, IndexerStart, OfflineStart DEF Init, DeliveryInv

LEMMA DeliveryStep == DeliveryInv /\ [Next]_vars => DeliveryInv'
BY ComponentSteps, WebhookStep, MailStep, SessionStep, BatchStep, IndexerStep, OfflineStep DEF DeliveryInv

LEMMA DeliveryCorrect == Spec => []DeliveryInv
BY DeliveryStart, DeliveryStep, PTL DEF Spec

\* Rows, copies, queues and lists hold what the services put into them: no
\* counter passes its bound, no row is saved that no query wrote.
THEOREM DeliveryIsTyped == Spec => []DeliveryTypeOK
<1>1. DeliveryInv => DeliveryTypeOK
  BY DEF DeliveryInv, WebhookInv, MailInv, SessionInv, BatchInv, IndexerInv, OfflineInv, DeliveryTypeOK
<1> QED
  BY <1>1, DeliveryCorrect, PTL

\* An event behind the indexer's cursor was handled, or failed in its handler,
\* or was cut off by a full page, however polls overlap and move the cursor
\* back (stellar-indexer.service).
THEOREM EventsAreNotSkipped == Spec => []NoEventIsSkipped
<1>1. DeliveryInv => NoEventIsSkipped
  BY DEF DeliveryInv, IndexerInv
<1> QED
  BY <1>1, DeliveryCorrect, PTL

\* A report made offline is with the API, in flight or on the device's list,
\* unless the list was changed during a sync, or the page was closed on its
\* post (useOfflineProgress).
THEOREM ReportsAreKept == Spec => []ReportsSurvive
<1>1. DeliveryInv => ReportsSurvive
  BY DEF DeliveryInv, OfflineInv
<1> QED
  BY <1>1, DeliveryCorrect, PTL

\* A reminder the row of a session lists was mailed to every member, and nobody
\* got one twice as long as no two runs of the sweep raced
\* (live-sessions.service).
THEOREM RemindersAreSent == Spec => []RemindersAreKept
<1>1. DeliveryInv => RemindersAreKept
  BY SessionFollows DEF DeliveryInv
<1> QED
  BY <1>1, DeliveryCorrect, PTL

\* Whatever a replica that starts does to the rows of jobs other replicas are
\* running: a verdict that stands in the table accounts for every item of the
\* job, and no run is left that could change it (batch.service).
THEOREM VerdictsAccountForAll == Spec => []\A j \in Job : VerdictAccounts(j)
<1>1. DeliveryInv => \A j \in Job : VerdictAccounts(j)
  BY DEF DeliveryInv, BatchInv
<1> QED
  BY <1>1, DeliveryCorrect, PTL

\* The mail server takes a mail twice only if two replicas had read it at the
\* same time, or a process, a save or an answer was lost (email.service).
THEOREM MailsArriveOnce == Spec => []SentOnceAlone
<1>1. DeliveryInv => SentOnceAlone
  <2> SUFFICES ASSUME MailInv, NEW m \in Letter, arrived[m] > 1
               PROVE  m \in overlapped \/ mailFaults > 0
    BY DEF DeliveryInv, SentOnceAlone
  <2>1. arrived[m] \in 0..2 /\ mailFaults \in Nat
    BY MailFacts
  <2>2. Undisturbed(m)
    BY MailFacts
  <2>3. ~(arrived[m] < 2)
    BY <2>1
  <2>4. m \in overlapped \/ mailFaults # 0
    BY <2>2, <2>3 DEF Undisturbed
  <2> QED
    BY <2>1, <2>4
<1> QED
  BY <1>1, DeliveryCorrect, PTL

\* Both queues implement at-least-once delivery, Outbox: what a stale copy of
\* a row saves is never more than what has happened (webhooks.service,
\* email.service).
THEOREM QueuesImplementOutbox == Spec => QueuesKeepThePromise
<1>1. Init => WebhookOutbox!Init /\ MailOutbox!Init
  BY WebhookAccepts, MailAccepts DEF Init
<1>2. DeliveryInv /\ [Next]_vars =>
        [WebhookOutbox!Next]_WebhookOutbox!vars /\ [MailOutbox!Next]_MailOutbox!vars
  BY ComponentSteps, WebhookRefines, MailRefines DEF DeliveryInv
<1>3. Spec => WebhookOutbox!Spec
  BY <1>1, <1>2, DeliveryCorrect, PTL DEF Spec, WebhookOutbox!Spec
<1>4. Spec => MailOutbox!Spec
  BY <1>1, <1>2, DeliveryCorrect, PTL DEF Spec, MailOutbox!Spec
<1> QED
  BY <1>3, <1>4, PTL DEF QueuesKeepThePromise
=============================================================================
