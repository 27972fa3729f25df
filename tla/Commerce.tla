------------------------------ MODULE Commerce ------------------------------
(***************************************************************************)
(* Coupons at the checkout, payouts to an instructor and subscriptions     *)
(* (apps/backend/src/coupons, payments, payouts, subscriptions): limits    *)
(* that are checked before an await and used after it, and events of the   *)
(* payment provider that come late, twice or in another order.             *)
(***************************************************************************)
EXTENDS Naturals, Sequences, FiniteSets

CONSTANTS
  Buyer,       \* checkouts and edits of the coupon that run at a time
  MaxUsage,    \* the coupon's limit
  MaxCheckouts,\* bound: checkouts and edits
  Runs,        \* payout runs at a time
  BatchSize,   \* enrollments per page of a payout run
  Completions, \* enrollments completed in the period, at the start
  MaxPayouts,  \* bound: payouts before the last run starts
  MaxEntries,  \* bound: enrollments that are completed in the period later
  MaxFetchFaults, \* bound: pages that cannot be read
  MaxEvents    \* bound: events of one subscription

NoCheckout == [at |-> "idle"]
NoRun == [at |-> "idle"]

ASSUME CommerceAssumption ==
  /\ IsFiniteSet(Buyer) /\ MaxUsage \in Nat \ {0} /\ BatchSize \in Nat \ {0}
  /\ {MaxCheckouts, Completions, MaxPayouts, MaxEntries, MaxFetchFaults, MaxEvents} \subseteq Nat

VARIABLES
  usageCount, couponActive,
  checkout,     \* the checkouts
  granted,      \* history: discounts granted
  editRaced,    \* history: an edit saved a coupon that was used meanwhile
  checkouts,
  inPeriod,     \* enrollments of the period that there are
  run,          \* the payout runs
  payouts,      \* saved payouts: completions paid for, and status
  instructorApproved, everApproved, entries, fetchFaults,
  events,       \* what the provider has reported of the subscription
  handled,      \* numbers of the events that were handled, in order
  fetching,     \* completions whose subscription is being retrieved
  tier

couponVars == <<usageCount, couponActive, checkout, granted, editRaced, checkouts>>
payoutVars == <<inPeriod, run, payouts, instructorApproved, everApproved, entries, fetchFaults>>
subscriptionVars == <<events, handled, fetching, tier>>
commerceVars == <<couponVars, payoutVars, subscriptionVars>>

Event == {"completed", "active", "lapsed", "ended"}

CommerceTypeOK ==
  /\ usageCount \in 0..MaxCheckouts /\ granted \in 0..MaxCheckouts /\ couponActive \in BOOLEAN
  /\ inPeriod \in 0..Completions + MaxEntries /\ entries \in 0..MaxEntries /\ fetchFaults \in 0..MaxFetchFaults
  /\ payouts \in Seq([count : Nat \ {0}, of : Nat \ {0}, missed : BOOLEAN, status : {"pending", "processed", "failed"}])
  /\ events \in Seq(Event) /\ tier \in {"free", "paid"}

CommerceInit ==
  /\ usageCount = 0 /\ couponActive = TRUE /\ checkout = [b \in Buyer |-> NoCheckout]
  /\ granted = 0 /\ editRaced = FALSE /\ checkouts = 0
  /\ inPeriod = Completions /\ run = [r \in Runs |-> NoRun] /\ payouts = <<>>
  /\ instructorApproved = FALSE /\ everApproved = FALSE /\ entries = 0 /\ fetchFaults = 0
  /\ events = <<>> /\ handled = <<>> /\ fetching = {} /\ tier = "free"

----------------------------------------------------------------------------
(* CouponsService and PaymentsService.createPaymentIntent                  *)

Serve(b, next) == checkout' = [checkout EXCEPT ![b] = next]

\* Faulty variant of CouponValid: the limit itself is still granted.
CouponValidAtLimit == couponActive /\ usageCount <= MaxUsage

\* validateForCheckout, of a coupon with a limit that has not expired.
CouponValid == couponActive /\ usageCount < MaxUsage

\* An invalid coupon is ignored: the intent is created at the full price.
ValidateCoupon(b) ==
  /\ checkout[b] = NoCheckout /\ checkouts < MaxCheckouts /\ checkouts' = checkouts + 1
  /\ CouponValid
  /\ Serve(b, [at |-> "increment"])
  /\ UNCHANGED <<usageCount, couponActive, granted, editRaced, payoutVars, subscriptionVars>>

\* An UPDATE of the database; when the intent then fails the use is spent.
IncrementUsage(b) ==
  /\ checkout[b].at = "increment"
  /\ usageCount' = usageCount + 1 /\ granted' = granted + 1
  /\ Serve(b, NoCheckout)
  /\ UNCHANGED <<couponActive, editRaced, checkouts, payoutVars, subscriptionVars>>

\* CouponsService.update saves the coupon as it read it, its count included.
EditCoupon(b) ==
  /\ checkout[b] = NoCheckout /\ checkouts < MaxCheckouts /\ checkouts' = checkouts + 1
  /\ \E on \in BOOLEAN : Serve(b, [at |-> "edit", active |-> on, count |-> usageCount])
  /\ UNCHANGED <<usageCount, couponActive, granted, editRaced, payoutVars, subscriptionVars>>

SaveCoupon(b) ==
  /\ checkout[b].at = "edit"
  /\ couponActive' = checkout[b].active /\ usageCount' = checkout[b].count
  /\ editRaced' = (editRaced \/ checkout[b].count # usageCount)
  /\ Serve(b, NoCheckout)
  /\ UNCHANGED <<granted, checkouts, payoutVars, subscriptionVars>>

----------------------------------------------------------------------------
(* PayoutsService, for one course                                          *)

StartRun(r) ==
  /\ run[r] = NoRun /\ Len(payouts) < MaxPayouts
  /\ run' = [run EXCEPT ![r] = [at |-> "page", offset |-> 0, count |-> 0, of |-> inPeriod, missed |-> FALSE]]
  /\ UNCHANGED <<inPeriod, payouts, instructorApproved, everApproved, entries, fetchFaults, couponVars, subscriptionVars>>

\* Pages are read by offset until one is not full. A page that cannot be read
\* is skipped, whatever it would have held.
FetchPage(r) ==
  LET my == run[r]
      left == IF inPeriod > my.offset THEN inPeriod - my.offset ELSE 0
      page == IF left < BatchSize THEN left ELSE BatchSize
  IN  /\ my.at = "page"
      /\ \/ /\ run' = [run EXCEPT ![r].offset = @ + BatchSize, ![r].count = @ + page,
                                  ![r].at = IF page < BatchSize THEN "save" ELSE "page"]
            /\ UNCHANGED fetchFaults
         \/ /\ fetchFaults < MaxFetchFaults /\ fetchFaults' = fetchFaults + 1
            /\ run' = [run EXCEPT ![r].offset = @ + BatchSize, ![r].missed = TRUE]
      /\ UNCHANGED <<inPeriod, payouts, instructorApproved, everApproved, entries, couponVars, subscriptionVars>>

\* No payout for no completion. A second run of a period pays it again.
SavePayout(r) ==
  LET my == run[r]
  IN  /\ my.at = "save"
      /\ payouts' = IF my.count = 0 THEN payouts
                    ELSE Append(payouts, [count |-> my.count, of |-> my.of, missed |-> my.missed, status |-> "pending"])
      /\ run' = [run EXCEPT ![r] = NoRun]
      /\ UNCHANGED <<inPeriod, instructorApproved, everApproved, entries, fetchFaults, couponVars, subscriptionVars>>

\* EnrollmentsService.unenroll: later rows move up, past a page read already.
RemoveCompletion ==
  /\ inPeriod > 0 /\ inPeriod' = inPeriod - 1
  /\ run' = [r \in Runs |-> IF run[r].at = "page" THEN [run[r] EXCEPT !.missed = TRUE] ELSE run[r]]
  /\ UNCHANGED <<payouts, instructorApproved, everApproved, entries, fetchFaults, couponVars, subscriptionVars>>

\* A completion whose time is in the period, at any place in the order of the
\* ids: before the offset of a run it moves a row that was counted already
\* into the next page, where that row is counted in its stead.
EnterPeriod ==
  /\ entries < MaxEntries /\ entries' = entries + 1
  /\ inPeriod' = inPeriod + 1
  /\ run' = [r \in Runs |-> IF run[r].at = "page" THEN [run[r] EXCEPT !.of = @ + 1] ELSE run[r]]
  /\ UNCHANGED <<payouts, instructorApproved, everApproved, fetchFaults, couponVars, subscriptionVars>>

\* processPayout asks for the instructor's KYC; it does not look at the
\* status, so that a payout is processed as often as it is asked for.
ProcessPayout(i) ==
  /\ payouts' = [payouts EXCEPT ![i].status = IF instructorApproved THEN "processed" ELSE "failed"]
  /\ UNCHANGED <<inPeriod, run, instructorApproved, everApproved, entries, fetchFaults, couponVars, subscriptionVars>>

DecideKyc ==
  /\ instructorApproved' \in BOOLEAN
  /\ everApproved' = (everApproved \/ instructorApproved')
  /\ UNCHANGED <<inPeriod, run, payouts, entries, fetchFaults, couponVars, subscriptionVars>>

----------------------------------------------------------------------------
(* SubscriptionsService.handleWebhook, for one subscription                *)

\* The provider reports the checkout once, and of the subscription that it is
\* active, that a payment is due or incomplete, which may pass, and its end.
ReportEvent(e) ==
  /\ Len(events) < MaxEvents
  /\ \A i \in 1..Len(events) : events[i] # "ended" /\ (e = "completed" => events[i] # "completed")
  /\ events' = Append(events, e)
  /\ UNCHANGED <<couponVars, payoutVars, handled, fetching, tier>>

\* Any event may be delivered at any time, and again; a completion is saved
\* once the subscription was retrieved.
ReceiveCompleted(i) ==
  /\ events[i] = "completed" /\ Len(handled) + Cardinality(fetching) < MaxEvents + 1
  /\ fetching' = fetching \cup {i}
  /\ UNCHANGED <<couponVars, payoutVars, events, handled, tier>>

SaveTier(i) ==
  /\ i \in fetching /\ fetching' = fetching \ {i}
  /\ tier' = "paid" /\ handled' = Append(handled, i)
  /\ UNCHANGED <<couponVars, payoutVars, events>>

\* A subscription nobody has saved is ignored. An active one has its end moved
\* only; with any other status it is over, and nothing but a checkout brings
\* the tier back.
ReceiveUpdated(i) ==
  /\ events[i] # "completed" /\ Len(handled) + Cardinality(fetching) < MaxEvents + 1
  /\ handled' = Append(handled, i)
  /\ tier' = IF \E h \in 1..Len(handled) : events[handled[h]] = "completed"
             THEN IF events[i] = "active" THEN tier ELSE "free"
             ELSE tier
  /\ UNCHANGED <<couponVars, payoutVars, events, fetching>>

CouponNext == \E b \in Buyer : ValidateCoupon(b) \/ IncrementUsage(b) \/ EditCoupon(b) \/ SaveCoupon(b)

PayoutNext ==
  \/ \E r \in Runs : StartRun(r) \/ FetchPage(r) \/ SavePayout(r)
  \/ RemoveCompletion \/ EnterPeriod \/ DecideKyc \/ \E i \in 1..Len(payouts) : ProcessPayout(i)

SubscriptionNext ==
  \/ \E e \in Event : ReportEvent(e)
  \/ \E i \in 1..Len(events) : ReceiveCompleted(i) \/ SaveTier(i) \/ ReceiveUpdated(i)

----------------------------------------------------------------------------
InOrder == \A h \in 1..Len(handled) : handled[h] = h

\* Among the first n events, the checkout, and since then active ones only.
PaidBy(n) == \E c \in 1..n : events[c] = "completed" /\ \A i \in c + 1 .. n : events[i] = "active"

\* Unless an edit races a use, a coupon is granted once more than its limit
\* per overlapping checkout at the most. A payout is for no more completions
\* than the period has held while they were counted, late ones included, and,
\* unless a page or a row was lost, for as many; it is processed only for
\* an instructor who was approved. Once events were handled once and in their
\* order, the tier is paid from the checkout to the first status that is not
\* active, and free for good from there: an active one does not restore it.
LimitsHold ==
  /\ ~editRaced => granted = usageCount /\ granted < MaxUsage + Cardinality(Buyer)
  /\ \A i \in 1..Len(payouts) :
       /\ payouts[i].count <= payouts[i].of
       /\ ~payouts[i].missed => payouts[i].count = payouts[i].of
       /\ payouts[i].status = "processed" => everApproved
  /\ InOrder => tier = IF PaidBy(Len(handled)) THEN "paid" ELSE "free"
=============================================================================
