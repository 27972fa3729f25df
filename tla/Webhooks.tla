------------------------------ MODULE Webhooks ------------------------------
(***************************************************************************)
(* WebhooksService (apps/backend/src/webhooks): deliveries are rows of a   *)
(* table, posted at once from an in-memory queue and again by a timer.     *)
(*                                                                         *)
(* lane["queue"] is the batch drainQueue is working on, in parallel; the   *)
(* other lanes are runs of retryPending, each of which works through the   *)
(* rows it read one after the other. setInterval does not wait for a run   *)
(* to end, so runs overlap each other and the queue. A lane holds copies   *)
(* of rows, and saving a copy writes the whole row.                        *)
(***************************************************************************)
EXTENDS Naturals, Sequences, FiniteSets, FiniteSetsExt, SequencesExt

CONSTANTS
  Hook,           \* webhooks
  Delivery,       \* ids of deliveries, each for one webhook and one event
  HookOf,         \* Delivery -> Hook
  Sweep,          \* runs of retryPending that may overlap
  NoDelivery,     \* no such row (yet)
  MaxPosts,       \* MAX_ATTEMPTS
  MaxConcurrent,  \* MAX_CONCURRENT
  SweepTake,      \* rows one run of retryPending reads
  MaxHookFaults,  \* bound: crashes and refused saves
  EditedHook,     \* bound: webhooks that are updated or deleted
  MaxHookEdits    \* bound: calls of update and delete

Lane == Sweep \cup {"queue"}
DeliveryRow == [status : {"PENDING", "SUCCESS", "FAILED"}, attempts : 0..MaxPosts,
                nextRetryAt : {"null", "later", "due"}]
Copy == [id : Delivery, row : DeliveryRow, at : {"post", "save"}]

ASSUME WebhookAssumption ==
  /\ HookOf \in [Delivery -> Hook]
  /\ {MaxPosts, MaxConcurrent, SweepTake} \subseteq Nat \ {0}
  /\ {MaxHookFaults, MaxHookEdits} \subseteq Nat
  /\ NoDelivery \notin DeliveryRow
  /\ "queue" \notin Sweep

VARIABLES
  hook,        \* "none", "active", "inactive" or "deleted", per webhook
  edit,        \* update and delete: what each has read and is about to save
  hookEdits,   \* calls of update and delete so far
  publishing,  \* deliveries publish has still to create
  delivery,    \* the webhook_deliveries table
  queue,       \* deliveryQueue
  lane,        \* copies of rows being delivered
  posts,       \* history: posts per delivery, counted up to MaxPosts
  acked,       \* history: deliveries a receiver acknowledged
  hookFaults

webhookVars == <<hook, edit, hookEdits, publishing, delivery, queue, lane, posts, acked, hookFaults>>

WebhookTypeOK ==
  /\ hook \in [Hook -> {"none", "active", "inactive", "deleted"}]
  /\ edit \in [Hook -> SUBSET {"active", "inactive", "deleted"}]
  /\ publishing \subseteq Delivery
  /\ delivery \in [Delivery -> DeliveryRow \cup {NoDelivery}]
  /\ queue \in Seq(Delivery)
  /\ \A l \in Lane : lane[l] \subseteq Copy
  /\ posts \in [Delivery -> 0..MaxPosts]
  /\ acked \subseteq Delivery
  /\ hookEdits \in 0..MaxHookEdits /\ hookFaults \in 0..MaxHookFaults

WebhookInit ==
  /\ hook = [h \in Hook |-> "none"]
  /\ edit = [h \in Hook |-> {}]
  /\ hookEdits = 0
  /\ publishing = {}
  /\ delivery = [d \in Delivery |-> NoDelivery]
  /\ queue = <<>>
  /\ lane = [l \in Lane |-> {}]
  /\ posts = [d \in Delivery |-> 0]
  /\ acked = {}
  /\ hookFaults = 0

----------------------------------------------------------------------------
(* Registration                                                            *)

RegisterHook(h) ==
  /\ hook[h] = "none"
  /\ hook' = [hook EXCEPT ![h] = "active"]
  /\ UNCHANGED <<edit, hookEdits, publishing, delivery, queue, lane, posts, acked, hookFaults>>

\* update or delete finds the webhook. What it will write is in edit[h]: a
\* webhook deleted in between comes back when an update is saved.
EditHook(h, to) ==
  /\ h \in EditedHook /\ hook[h] \in {"active", "inactive"}
  /\ hookEdits < MaxHookEdits
  /\ hookEdits' = hookEdits + 1
  /\ edit' = [edit EXCEPT ![h] = @ \cup {to}]
  /\ UNCHANGED <<hook, publishing, delivery, queue, lane, posts, acked, hookFaults>>

SaveHook(h) ==
  /\ \E to \in edit[h] :
       /\ hook' = [hook EXCEPT ![h] = to]
       /\ edit' = [edit EXCEPT ![h] = @ \ {to}]
  /\ UNCHANGED <<hookEdits, publishing, delivery, queue, lane, posts, acked, hookFaults>>

----------------------------------------------------------------------------
(* publish, enqueue and drainQueue                                         *)

Fresh(d) == [id |-> d, row |-> [status |-> "PENDING", attempts |-> 0, nextRetryAt |-> "null"],
             at |-> "post"]

\* An event that an active webhook has subscribed to.
Publish(d) ==
  /\ hook[HookOf[d]] = "active"
  /\ delivery[d] = NoDelivery /\ d \notin publishing
  /\ publishing' = publishing \cup {d}
  /\ UNCHANGED <<hook, edit, hookEdits, delivery, queue, lane, posts, acked, hookFaults>>

\* The row is saved, then queued; an idle queue takes it up at once.
Enqueue(d) ==
  /\ d \in publishing
  /\ publishing' = publishing \ {d}
  /\ delivery' = [delivery EXCEPT ![d] = Fresh(d).row]
  /\ IF lane["queue"] = {}
       THEN lane' = [lane EXCEPT !["queue"] = {Fresh(d)}] /\ UNCHANGED queue
       ELSE queue' = Append(queue, d) /\ UNCHANGED lane
  /\ UNCHANGED <<hook, edit, hookEdits, posts, acked, hookFaults>>

\* drainQueue: what is left of a batch, or the next MaxConcurrent entries.
Drained(rest) ==
  LET n == IF Len(queue) < MaxConcurrent THEN Len(queue) ELSE MaxConcurrent
  IN  IF rest # {} THEN lane' = [lane EXCEPT !["queue"] = rest] /\ UNCHANGED queue
      ELSE /\ lane' = [lane EXCEPT !["queue"] = {Fresh(queue[i]) : i \in 1..n}]
           /\ queue' = SubSeq(queue, n + 1, Len(queue))

----------------------------------------------------------------------------
(* deliver and retryPending                                                *)

Retryable == {d \in Delivery : /\ delivery[d] # NoDelivery
                               /\ delivery[d].status = "PENDING"
                               /\ delivery[d].nextRetryAt \in {"null", "due"}}

\* Faulty variant of Judge: a delivery is tried once more than MaxPosts.
JudgeLate(row, ok) ==
  LET n == row.attempts + 1
  IN  IF ok THEN [row EXCEPT !.attempts = n, !.status = "SUCCESS"]
      ELSE IF n <= MaxPosts
        THEN [row EXCEPT !.attempts = n, !.status = "PENDING", !.nextRetryAt = "later"]
        ELSE [row EXCEPT !.attempts = n, !.status = "FAILED"]

\* Faulty variant of Judge: gives up one attempt early.
JudgeEarly(row, ok) ==
  LET n == row.attempts + 1
  IN  IF ok THEN [row EXCEPT !.attempts = n, !.status = "SUCCESS"]
      ELSE IF n + 1 < MaxPosts
        THEN [row EXCEPT !.attempts = n, !.status = "PENDING", !.nextRetryAt = "later"]
        ELSE [row EXCEPT !.attempts = n, !.status = "FAILED"]

\* What deliver makes of the row once the post is answered, or not.
Judge(row, ok) ==
  LET n == row.attempts + 1
  IN  IF ok THEN [row EXCEPT !.attempts = n, !.status = "SUCCESS"]
      ELSE IF n < MaxPosts
        THEN [row EXCEPT !.attempts = n, !.status = "PENDING", !.nextRetryAt = "later"]
        ELSE [row EXCEPT !.attempts = n, !.status = "FAILED"]

\* A run of retryPending posts one row at a time, and skips those whose
\* webhook is gone; the queue still has the webhook in memory.
Post(l, c) ==
  /\ c \in lane[l] /\ c.at = "post"
  /\ l = "queue" \/ \A k \in lane[l] : k.at = "post"
  /\ IF l # "queue" /\ hook[HookOf[c.id]] = "deleted"
       THEN lane' = [lane EXCEPT ![l] = @ \ {c}] /\ UNCHANGED <<posts, acked>>
       ELSE \E took, answered \in BOOLEAN :
              /\ answered => took
              /\ lane' = [lane EXCEPT ![l] = (@ \ {c}) \cup
                            {[c EXCEPT !.at = "save", !.row = Judge(@, answered)]}]
              /\ posts' = [posts EXCEPT ![c.id] = IF @ < MaxPosts THEN @ + 1 ELSE @]
              /\ acked' = IF took THEN acked \cup {c.id} ELSE acked
  /\ UNCHANGED <<hook, edit, hookEdits, publishing, delivery, queue, hookFaults>>

SaveDelivery(l, c) ==
  /\ c \in lane[l] /\ c.at = "save"
  /\ delivery' = [delivery EXCEPT ![c.id] = c.row]
  /\ IF l = "queue" THEN Drained(lane[l] \ {c})
     ELSE lane' = [lane EXCEPT ![l] = @ \ {c}] /\ UNCHANGED queue
  /\ UNCHANGED <<hook, edit, hookEdits, publishing, posts, acked, hookFaults>>

\* The save is refused and allSettled carries on. (In retryPending nobody
\* catches the rejection and the process dies: see CrashWebhooks.)
RefuseSave(c) ==
  /\ c \in lane["queue"] /\ c.at = "save"
  /\ hookFaults < MaxHookFaults /\ hookFaults' = hookFaults + 1
  /\ Drained(lane["queue"] \ {c})
  /\ UNCHANGED <<hook, edit, hookEdits, publishing, delivery, posts, acked>>

\* Faulty variant of RetryPending: forgets the rows that were never retried.
RetryDueOnly(s) ==
  LET found == {d \in Retryable : delivery[d].nextRetryAt = "due"}
  IN  /\ lane[s] = {} /\ found # {}
      /\ \E ds \in SUBSET found :
           /\ Cardinality(ds) = Min({SweepTake, Cardinality(found)})
           /\ lane' = [lane EXCEPT ![s] = {[id |-> d, row |-> delivery[d], at |-> "post"] : d \in ds}]
      /\ UNCHANGED <<hook, edit, hookEdits, publishing, delivery, queue, posts, acked, hookFaults>>

\* Any SweepTake of the rows, since the query does not order them.
RetryPending(s) ==
  /\ lane[s] = {} /\ Retryable # {}
  /\ \E ds \in SUBSET Retryable :
       /\ Cardinality(ds) = Min({SweepTake, Cardinality(Retryable)})
       /\ lane' = [lane EXCEPT ![s] = {[id |-> d, row |-> delivery[d], at |-> "post"] : d \in ds}]
  /\ UNCHANGED <<hook, edit, hookEdits, publishing, delivery, queue, posts, acked, hookFaults>>

\* nextRetryAt has passed.
FallDue(d) ==
  /\ delivery[d] # NoDelivery /\ delivery[d].status = "PENDING"
  /\ delivery[d].nextRetryAt = "later"
  /\ delivery' = [delivery EXCEPT ![d].nextRetryAt = "due"]
  /\ UNCHANGED <<hook, edit, hookEdits, publishing, queue, lane, posts, acked, hookFaults>>

\* The process dies with its queue and its runs of retryPending; the runs of
\* other replicas go on. Kubernetes starts it again.
CrashWebhooks ==
  /\ hookFaults < MaxHookFaults /\ hookFaults' = hookFaults + 1
  /\ publishing' = {} /\ queue' = <<>>
  /\ \E other \in SUBSET Sweep :
       lane' = [l \in Lane |-> IF l \in other THEN lane[l] ELSE {}]
  /\ UNCHANGED <<hook, edit, hookEdits, delivery, posts, acked>>

WebhookNext ==
  \/ \E h \in Hook :
       RegisterHook(h) \/ SaveHook(h)
         \/ \E to \in {"active", "inactive", "deleted"} : EditHook(h, to)
  \/ \E d \in Delivery : Publish(d) \/ Enqueue(d) \/ FallDue(d)
  \/ \E l \in Lane : \E c \in lane[l] : Post(l, c) \/ SaveDelivery(l, c)
  \/ \E c \in lane["queue"] : RefuseSave(c)
  \/ \E s \in Sweep : RetryPending(s)
  \/ CrashWebhooks

\* Time passes, every post is answered or times out, the timer keeps firing;
\* nothing is assumed about users, events or faults.
WebhookFairness ==
  /\ \A d \in Delivery : WF_webhookVars(FallDue(d))
  /\ \A l \in Lane : WF_webhookVars(\E c \in lane[l] : Post(l, c) \/ SaveDelivery(l, c))
  /\ \A s \in Sweep : WF_webhookVars(RetryPending(s))
  /\ \A h \in Hook : WF_webhookVars(SaveHook(h))

----------------------------------------------------------------------------
Kept(d) == delivery[d] # NoDelivery /\ hook[HookOf[d]] # "deleted"
Orphans == {d \in Retryable : hook[HookOf[d]] = "deleted"}

WebhookOutbox == INSTANCE Outbox WITH
  Item <- Delivery,
  MaxAttempts <- MaxPosts,
  status <- [d \in Delivery |->
               IF delivery[d] = NoDelivery THEN "none"
               ELSE [PENDING |-> "pending", SUCCESS |-> "done", FAILED |-> "given_up"][delivery[d].status]],
  tries <- posts,
  taken <- [d \in Delivery |-> d \in acked]

Undecided(d) == delivery[d] # NoDelivery /\ delivery[d].status = "PENDING"

\* Every delivery of a webhook that is kept is decided from some time on,
\* through crashes, refused saves and receivers that do not answer, provided
\* fewer rows of deleted webhooks wait than a run of retryPending reads:
\* nobody settles those, and the query may return them and nothing else.
DeliveriesSettle ==
  (<>[](Cardinality(Orphans) < SweepTake)) =>
    \A d \in Delivery : <>[]~(Kept(d) /\ Undecided(d))
=============================================================================
