------------------------------ MODULE Delivery ------------------------------
(***************************************************************************)
(* What reaches somebody else without being asked for: webhooks, mails,    *)
(* reminders, batches, chain events and progress made offline. The         *)
(* services share the backend's processes and database server, but no row: *)
(* a behaviour exercises one of them, its focus, which makes the state     *)
(* space the sum of theirs.                                                *)
(***************************************************************************)
EXTENDS Webhooks, Mail, LiveSessions, Batch, Indexer, OfflineProgress

VARIABLE focus

vars == <<focus, webhookVars, mailVars, sessionVars, batchVars, indexerVars, offlineVars>>

DeliveryTypeOK ==
  /\ WebhookTypeOK /\ MailTypeOK /\ SessionTypeOK
  /\ BatchTypeOK /\ IndexerTypeOK /\ OfflineTypeOK

Init ==
  /\ focus \in {"webhooks", "mail", "sessions", "batch", "indexer", "offline"}
  /\ WebhookInit /\ MailInit /\ SessionInit /\ BatchInit
  /\ IndexerInit /\ indexing = (focus = "indexer")
  /\ OfflineInit /\ (focus # "offline" => online)

Next ==
  /\ UNCHANGED focus
  /\ \/ /\ focus = "webhooks" /\ WebhookNext
        /\ UNCHANGED <<mailVars, sessionVars, batchVars, indexerVars, offlineVars>>
     \/ /\ focus = "mail" /\ MailNext
        /\ UNCHANGED <<webhookVars, sessionVars, batchVars, indexerVars, offlineVars>>
     \/ /\ focus = "sessions" /\ SessionNext
        /\ UNCHANGED <<webhookVars, mailVars, batchVars, indexerVars, offlineVars>>
     \/ /\ focus = "batch" /\ BatchNext
        /\ UNCHANGED <<webhookVars, mailVars, sessionVars, indexerVars, offlineVars>>
     \/ /\ focus = "indexer" /\ IndexerNext
        /\ UNCHANGED <<webhookVars, mailVars, sessionVars, batchVars, offlineVars>>
     \/ /\ focus = "offline" /\ OfflineNext
        /\ UNCHANGED <<webhookVars, mailVars, sessionVars, batchVars, indexerVars>>

Fairness == WebhookFairness /\ MailFairness /\ BatchFairness /\ IndexerFairness

Spec == Init /\ [][Next]_vars /\ Fairness

----------------------------------------------------------------------------
\* Both queues implement at-least-once delivery: an item is reported done
\* only if the receiver took it, and given up only after all its attempts,
\* although overlapping runs save copies of rows over each other.
QueuesKeepThePromise == WebhookOutbox!Spec /\ MailOutbox!Spec
=============================================================================
