-------------------------- MODULE OfflineProgress --------------------------
(***************************************************************************)
(* useSyncProgress (apps/frontend/src/hooks): progress a student makes     *)
(* while the browser is offline, or while the API refuses it, is kept in   *)
(* localStorage and posted later. A sync reads the list once, posts entry  *)
(* by entry and then replaces the list by what failed. Each mounted        *)
(* component, and each "online" event, starts a sync of its own; tabs      *)
(* share the list.                                                         *)
(***************************************************************************)
EXTENDS Naturals, Sequences

CONSTANTS
  MaxReports,  \* bound: reports of progress, numbered in the order they are made
  Sync         \* syncs that may overlap

Report == 1..MaxReports

ASSUME OfflineAssumption == MaxReports \in Nat

VARIABLES
  online,
  made,        \* reports so far
  posting,     \* reports recordProgress is posting
  pending,     \* the list in localStorage
  sync,        \* per sync: what it has still to post, and what failed
  reached,     \* history: reports the API took
  abandoned,   \* history: reports being posted when their page was closed
  syncRaced    \* history: the list changed while a sync was under way

offlineVars == <<online, made, posting, pending, sync, reached, abandoned, syncRaced>>

NoSync == [active |-> FALSE, todo |-> <<>>, remaining |-> <<>>]

OfflineTypeOK ==
  /\ online \in BOOLEAN /\ syncRaced \in BOOLEAN /\ made \in 0..MaxReports
  /\ posting \subseteq Report /\ reached \subseteq Report /\ abandoned \subseteq Report
  /\ pending \in Seq(Report)
  /\ \A s \in Sync : sync[s].todo \in Seq(Report) /\ sync[s].remaining \in Seq(Report)

OfflineInit ==
  /\ online \in BOOLEAN /\ made = 0 /\ posting = {} /\ pending = <<>>
  /\ sync = [s \in Sync |-> NoSync]
  /\ reached = {} /\ abandoned = {} /\ syncRaced = FALSE

----------------------------------------------------------------------------
Syncing == \E s \in Sync : sync[s].active

GoOnlineOrOffline ==
  /\ online' = ~online
  /\ UNCHANGED <<made, posting, pending, sync, reached, syncRaced, abandoned>>

\* recordProgress posts at once when online, and keeps the report otherwise.
RecordProgress ==
  /\ made < MaxReports /\ made' = made + 1
  /\ \/ online /\ posting' = posting \cup {made'} /\ UNCHANGED <<pending, syncRaced>>
     \/ /\ ~online /\ pending' = Append(pending, made')
        /\ syncRaced' = (syncRaced \/ Syncing) /\ UNCHANGED posting
  /\ UNCHANGED <<online, sync, reached, abandoned>>

\* The answer: taken, or kept for later although it may have been taken.
AnswerRecord(r) ==
  /\ r \in posting /\ posting' = posting \ {r}
  /\ \/ reached' = reached \cup {r} /\ UNCHANGED <<pending, syncRaced>>
     \/ /\ pending' = Append(pending, r) /\ syncRaced' = (syncRaced \/ Syncing)
        /\ reached' \in {reached, reached \cup {r}}
  /\ UNCHANGED <<online, made, sync, abandoned>>

StartSync(s) ==
  /\ ~sync[s].active /\ online /\ pending # <<>>
  /\ sync' = [sync EXCEPT ![s] = [active |-> TRUE, todo |-> pending, remaining |-> <<>>]]
  /\ syncRaced' = (syncRaced \/ Syncing)
  /\ UNCHANGED <<online, made, posting, pending, reached, abandoned>>

\* Faulty variant of PostNext: what fails is not kept.
PostNextOrForget(s) ==
  /\ sync[s].todo # <<>>
  /\ \/ /\ reached' = reached \cup {Head(sync[s].todo)}
        /\ sync' = [sync EXCEPT ![s].todo = Tail(@)]
     \/ sync' = [sync EXCEPT ![s].todo = Tail(@)] /\ UNCHANGED reached
  /\ UNCHANGED <<online, made, posting, pending, syncRaced, abandoned>>

\* One post of the loop succeeds or fails.
PostNext(s) ==
  /\ sync[s].todo # <<>>
  /\ LET r == Head(sync[s].todo)
     IN  \/ /\ reached' = reached \cup {r}
            /\ sync' = [sync EXCEPT ![s].todo = Tail(@)]
         \/ /\ sync' = [sync EXCEPT ![s].todo = Tail(@), ![s].remaining = Append(@, r)]
            /\ reached' \in {reached, reached \cup {r}}
  /\ UNCHANGED <<online, made, posting, pending, syncRaced, abandoned>>

\* savePending(remaining) replaces the list, whatever was added to it.
EndSync(s) ==
  /\ sync[s].active /\ sync[s].todo = <<>>
  /\ pending' = sync[s].remaining
  /\ sync' = [sync EXCEPT ![s] = NoSync]
  /\ UNCHANGED <<online, made, posting, reached, syncRaced, abandoned>>

\* The page is closed: the list stays, the loops and what recordProgress was
\* posting do not.
ClosePage ==
  /\ Syncing \/ posting # {}
  /\ sync' = [s \in Sync |-> NoSync]
  /\ abandoned' = abandoned \cup posting /\ posting' = {}
  /\ UNCHANGED <<online, made, pending, reached, syncRaced>>

OfflineNext ==
  \/ GoOnlineOrOffline \/ RecordProgress \/ ClosePage
  \/ \E r \in Report : AnswerRecord(r)
  \/ \E s \in Sync : StartSync(s) \/ PostNext(s) \/ EndSync(s)

Listed(r) == \E i \in DOMAIN pending : pending[i] = r

\* A report is with the API, in flight or in the list, whatever fails, unless
\* the list was changed during a sync, or the page was closed on its post.
ReportsSurvive ==
  syncRaced \/ \A r \in 1..made : r \in reached \cup posting \cup abandoned \/ Listed(r)
============================================================================
