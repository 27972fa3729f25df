--------------------------- MODULE ServicesProofs ---------------------------
(***************************************************************************)
(* Proofs about the services of the backend (Services): what each keeps    *)
(* for any number of requests, tokens, coupons, votes and reviewers.       *)
(***************************************************************************)
EXTENDS Services, FiniteSetTheorems, TLAPS

----------------------------------------------------------------------------
(* Calls of the ledger.                                                    *)

LoadCall == [at : {"load"}, id : Id, try : 1..Attempts]
SendCall == [at : {"send"}, id : Id, try : 1..Attempts, seq : Nat]
LedgerState == {NoLedgerCall} \cup LoadCall \cup SendCall

LedgerTypes ==
  /\ sequence \in Nat /\ queued \in Id \cup {NoTx} /\ rpcFaults \in Nat /\ ledgerCalls \in 0..MaxLedgerCalls
  /\ applied \in [Id -> Nat] /\ ledgerCall \in [Caller -> LedgerState]

\* The attempts of a call that are applied or may still be.
Spent(i) == IF queued = i THEN applied[i] + 1 ELSE applied[i]

TxFits(i) ==
  /\ Spent(i) <= Attempts
  /\ i \notin lostAnswers => Spent(i) <= 1
  /\ i > ledgerCalls => Spent(i) = 0

Alone(k) == queued = NoTx /\ \A j \in Caller : j = k \/ ledgerCall[j] = NoLedgerCall

\* A call has an attempt that is not spent, and a transaction that will be
\* accepted unless another disturbs it.
CallFits(k) ==
  ledgerCall[k] # NoLedgerCall =>
    /\ ledgerCall[k].id <= ledgerCalls
    /\ Spent(ledgerCall[k].id) < ledgerCall[k].try
    /\ ledgerCall[k].try > 1 => ledgerCall[k].id \in lostAnswers
    /\ \/ ledgerCall[k].id \in disturbed \cup lostAnswers
       \/ Alone(k) /\ (ledgerCall[k].at = "send" => ledgerCall[k].seq = sequence + 1)

OwnIds ==
  \A j, k \in Caller :
    ledgerCall[j] # NoLedgerCall /\ ledgerCall[k] # NoLedgerCall /\ ledgerCall[j].id = ledgerCall[k].id => j = k

LedgerInv ==
  /\ LedgerTypes
  /\ pendingTransactionCount = Cardinality(InFlight) /\ cutOff = {}
  /\ \A i \in Id : TxFits(i)
  /\ \A k \in Caller : CallFits(k)
  /\ OwnIds
  /\ hashed \ (disturbed \cup lostAnswers) \subseteq accepted

LEMMA CallForms ==
  ASSUME NEW r \in LedgerState
  PROVE  /\ r = NoLedgerCall <=> r.at = "idle"
         /\ r.at = "load" => r \in LoadCall
         /\ r.at = "send" => r \in SendCall
         /\ r # NoLedgerCall => r.id \in Id /\ r.try \in 1..Attempts
BY DEF LedgerState, NoLedgerCall, LoadCall, SendCall

\* The count follows the calls.
LEMMA CountFollows ==
  ASSUME NEW k \in Caller, NEW c, ledgerCall \in [Caller -> LedgerState],
         ledgerCall' = [ledgerCall EXCEPT ![k] = c]
  PROVE  /\ Cardinality(InFlight) \in Nat
         /\ ledgerCall[k] = NoLedgerCall /\ c # NoLedgerCall => Cardinality(InFlight') = Cardinality(InFlight) + 1
         /\ ledgerCall[k] # NoLedgerCall /\ c # NoLedgerCall => Cardinality(InFlight') = Cardinality(InFlight)
         /\ ledgerCall[k] # NoLedgerCall /\ c = NoLedgerCall =>
              Cardinality(InFlight) > 0 /\ Cardinality(InFlight') = Cardinality(InFlight) - 1
<1>1. IsFiniteSet(InFlight) /\ IsFiniteSet(InFlight')
  BY LedgerCallAssumption, FS_Subset DEF InFlight
<1>2. Cardinality(InFlight) \in Nat /\ Cardinality(InFlight') \in Nat
  BY <1>1, FS_CardinalityType
<1>3. CASE ledgerCall[k] = NoLedgerCall /\ c # NoLedgerCall
  <2>1. k \notin InFlight /\ InFlight' = InFlight \cup {k}
    BY <1>3 DEF InFlight
  <2> QED
    BY <1>1, <1>2, <1>3, <2>1, FS_AddElement
<1>4. CASE ledgerCall[k] # NoLedgerCall /\ c # NoLedgerCall
  <2>1. InFlight' = InFlight
    BY <1>4 DEF InFlight
  <2> QED
    BY <1>2, <1>4, <2>1
<1>5. CASE ledgerCall[k] # NoLedgerCall /\ c = NoLedgerCall
  <2>1. k \notin InFlight' /\ InFlight = InFlight' \cup {k}
    BY <1>5 DEF InFlight
  <2>2. PICK left : left = InFlight'
    OBVIOUS
  <2>3. IsFiniteSet(left) /\ k \notin left /\ InFlight = left \cup {k} /\ Cardinality(left) \in Nat
    BY <1>1, <1>2, <2>1, <2>2
  <2>4. Cardinality(InFlight) = Cardinality(left) + 1
    BY <2>3, FS_AddElement
  <2> QED
    BY <1>2, <1>5, <2>2, <2>3, <2>4
<1>6. CASE ledgerCall[k] = NoLedgerCall /\ c = NoLedgerCall
  BY <1>2, <1>6
<1> QED
  BY <1>3, <1>4, <1>5, <1>6

LEMMA LedgerStart == LedgerCallInit => LedgerInv
<1> SUFFICES ASSUME LedgerCallInit PROVE LedgerInv
  OBVIOUS
<1>1. LedgerTypes
  BY LedgerCallAssumption DEF LedgerCallInit, LedgerTypes, LedgerState, Id, NoTx
<1>2. Cardinality(InFlight) = 0
  <2>1. InFlight = {}
    BY DEF LedgerCallInit, InFlight
  <2> QED
    BY <2>1, FS_EmptySet
<1>3. \A i \in Id : TxFits(i)
  BY LedgerCallAssumption DEF LedgerCallInit, TxFits, Spent, Id, NoTx
<1>4. (\A k \in Caller : CallFits(k)) /\ OwnIds
  BY DEF LedgerCallInit, CallFits, OwnIds
<1> QED
  BY <1>1, <1>2, <1>3, <1>4 DEF LedgerCallInit, LedgerInv

LEMMA LedgerFacts ==
  ASSUME LedgerInv, NEW k \in Caller, ledgerCall[k] # NoLedgerCall
  PROVE  /\ ledgerCall[k].id \in Id /\ ledgerCall[k].try \in 1..Attempts /\ ledgerCall[k].try \in Nat /\ Attempts \in Nat
         /\ ledgerCall[k].id \in Nat /\ Cardinality(InFlight) > 0 /\ Spent(ledgerCall[k].id) < ledgerCall[k].try
         /\ ledgerCall[k].id <= ledgerCalls
<1>1. ledgerCall[k] \in LedgerState
  BY DEF LedgerInv, LedgerTypes
<1>2. ledgerCall[k].id \in Id /\ ledgerCall[k].try \in 1..Attempts
  BY <1>1, CallForms
<1>3. Cardinality(InFlight) > 0
  <2>1. ledgerCall \in [Caller -> LedgerState]
    BY DEF LedgerInv, LedgerTypes
  <2>2. InFlight # {} /\ IsFiniteSet(InFlight)
    BY LedgerCallAssumption, FS_Subset DEF InFlight
  <2> QED
    BY <2>2, FS_EmptySet, FS_CardinalityType
<1> QED
  BY <1>2, <1>3, LedgerCallAssumption DEF LedgerInv, CallFits, Id

LEMMA SpentType == LedgerTypes => \A i \in Id : Spent(i) \in Nat
BY DEF LedgerTypes, Spent

LEMMA BeginCallKeeps == ASSUME LedgerInv, NEW k \in Caller, BeginCall(k) PROVE LedgerInv'
<1>0. PICK c : c = [at |-> "load", id |-> ledgerCalls + 1, try |-> 1]
  OBVIOUS
<1>1. /\ ledgerCall[k] = NoLedgerCall /\ ledgerCall' = [ledgerCall EXCEPT ![k] = c]
      /\ ledgerCalls' = ledgerCalls + 1 /\ ledgerCalls' \in 0..MaxLedgerCalls
      /\ ledgerCalls \in Nat /\ MaxLedgerCalls \in Nat
  BY <1>0, LedgerCallAssumption DEF BeginCall, Step, LedgerInv, LedgerTypes
<1>2. /\ c \in LoadCall /\ c.at = "load" /\ c.id = ledgerCalls + 1 /\ c.try = 1
      /\ c # NoLedgerCall /\ c \in LedgerState
  BY <1>0, <1>1, LedgerCallAssumption DEF LoadCall, Id, NoLedgerCall, LedgerState
<1>3. LedgerTypes /\ LedgerTypes'
  BY <1>1, <1>2 DEF BeginCall, LedgerInv, LedgerTypes
<1>4. pendingTransactionCount' = Cardinality(InFlight') /\ cutOff' = {}
  BY <1>1, <1>2, <1>3, CountFollows DEF BeginCall, LedgerInv, LedgerTypes
<1>5. \A i : Spent(i)' = Spent(i)
  BY DEF BeginCall, Spent
<1>6. \A i \in Id : TxFits(i)'
  BY <1>1, <1>5 DEF BeginCall, LedgerInv, TxFits, Id
<1>7. OwnIds'
  <2>1. \A j \in Caller : ledgerCall[j] # NoLedgerCall => ledgerCall[j].id <= ledgerCalls /\ ledgerCall[j].id \in Nat
    BY LedgerFacts
  <2>2. \A j \in Caller : j # k => ledgerCall'[j] = ledgerCall[j]
    BY <1>1, <1>3 DEF LedgerTypes
  <2>3. ledgerCall'[k] = c
    BY <1>1, <1>3 DEF LedgerTypes
  <2>4. \A j \in Caller : j # k /\ ledgerCall[j] # NoLedgerCall => ledgerCall[j].id # c.id
    BY <1>1, <1>2, <2>1
  <2> QED
    BY <2>2, <2>3, <2>4 DEF LedgerInv, OwnIds
<1>8. ASSUME NEW j \in Caller PROVE CallFits(j)'
  <2>1. CASE j = k
    <3>1. ledgerCall'[j] = c
      BY <1>1, <1>3, <2>1 DEF LedgerTypes
    <3>2. Spent(c.id)' = 0
      <4>1. c.id \in Id /\ c.id > ledgerCalls
        BY <1>1, <1>2, LedgerCallAssumption DEF Id
      <4> QED
        BY <1>5, <4>1 DEF LedgerInv, TxFits
    <3>3. c.id \in disturbed' \/ Alone(k)'
      <4>1. CASE InFlight = {} /\ queued = NoTx
        <5>1. \A i \in Caller : ledgerCall[i] = NoLedgerCall
          BY <4>1 DEF InFlight
        <5>2. queued' = NoTx
          BY <4>1 DEF BeginCall
        <5> QED
          BY <1>1, <1>3, <5>1, <5>2 DEF Alone, LedgerTypes
      <4>2. CASE ~(InFlight = {} /\ queued = NoTx)
        BY <1>1, <1>2, <4>2 DEF BeginCall
      <4> QED
        BY <4>1, <4>2
    <3> QED
      BY <1>1, <1>2, <2>1, <3>1, <3>2, <3>3 DEF CallFits, BeginCall
  <2>2. CASE j # k
    <3>1. ledgerCall'[j] = ledgerCall[j]
      BY <1>1, <1>3, <2>2 DEF LedgerTypes
    <3> SUFFICES ASSUME ledgerCall[j] # NoLedgerCall PROVE CallFits(j)'
      BY <3>1 DEF CallFits
    <3>2. ledgerCall[j].id \in disturbed'
      <4>1. j \in InFlight
        BY DEF InFlight
      <4>2. disturbed' = disturbed \cup Ids(InFlight) \cup {ledgerCalls'}
        BY <4>1 DEF BeginCall
      <4>3. ledgerCall[j].id \in Ids(InFlight)
        BY <4>1 DEF Ids
      <4> QED
        BY <4>2, <4>3
    <3>3. CallFits(j) /\ ledgerCall[j].id \in Nat
      BY LedgerFacts DEF LedgerInv
    <3> QED
      BY <1>1, <1>5, <3>1, <3>2, <3>3 DEF CallFits, BeginCall
  <2> QED
    BY <2>1, <2>2
<1>9. (hashed \ (disturbed \cup lostAnswers) \subseteq accepted)'
  BY DEF BeginCall, LedgerInv
<1> QED
  BY <1>3, <1>4, <1>6, <1>7, <1>8, <1>9 DEF LedgerInv

\* A call that goes on or ends: what is left to show is about itself.
LEMMA CallMoves ==
  ASSUME LedgerInv, LedgerTypes', NEW k \in Caller, ledgerCall[k] # NoLedgerCall,
         NEW me, me = ledgerCall[k].id,
         NEW c \in LedgerState, ledgerCall' = [ledgerCall EXCEPT ![k] = c],
         ledgerCalls' = ledgerCalls, disturbed' = disturbed, lostAnswers \subseteq lostAnswers', cutOff' = cutOff,
         \A i \in Id : i # me => Spent(i)' = Spent(i),
         TxFits(me)',
         c # NoLedgerCall => c.id = me /\ CallFits(k)',
         c = NoLedgerCall => pendingTransactionCount' = pendingTransactionCount - 1,
         c # NoLedgerCall => pendingTransactionCount' = pendingTransactionCount,
         hashed' \subseteq hashed \cup {me}, accepted \subseteq accepted',
         me \in hashed' => me \in hashed \cup disturbed \cup lostAnswers \cup accepted'
  PROVE  LedgerInv'
<1>1. LedgerTypes /\ ledgerCall \in [Caller -> LedgerState]
  BY DEF LedgerInv, LedgerTypes
<1>2. pendingTransactionCount' = Cardinality(InFlight') /\ cutOff' = {}
  BY <1>1, CountFollows DEF LedgerInv
<1>3. ASSUME NEW i \in Id PROVE TxFits(i)'
  <2>1. CASE i = me
    BY <2>1
  <2>2. CASE i # me
    BY <2>2 DEF LedgerInv, TxFits
  <2> QED
    BY <2>1, <2>2
<1>4. ledgerCall'[k] = c /\ \A j \in Caller : j # k => ledgerCall'[j] = ledgerCall[j]
  BY <1>1
<1>5. OwnIds'
  BY <1>4 DEF LedgerInv, OwnIds
<1>6. ASSUME NEW j \in Caller PROVE CallFits(j)'
  <2>1. CASE j = k
    <3>1. CASE c = NoLedgerCall
      BY <1>4, <2>1, <3>1 DEF CallFits
    <3> QED
      BY <2>1, <3>1
  <2>2. CASE j # k
    <3>1. ledgerCall'[j] = ledgerCall[j]
      BY <1>4, <2>2
    <3> SUFFICES ASSUME ledgerCall[j] # NoLedgerCall PROVE CallFits(j)'
      BY <3>1 DEF CallFits
    <3>2. ledgerCall[j].id # me /\ ledgerCall[j].id \in Id
      BY <2>2, LedgerFacts DEF LedgerInv, OwnIds
    <3>3. Spent(ledgerCall[j].id)' = Spent(ledgerCall[j].id)
      BY <3>1, <3>2
    <3>4. CallFits(j) /\ ~Alone(j)
      BY <2>2 DEF LedgerInv, Alone
    <3> QED
      BY <3>1, <3>3, <3>4 DEF CallFits
  <2> QED
    BY <2>1, <2>2
<1>7. (hashed \ (disturbed \cup lostAnswers) \subseteq accepted)'
  BY DEF LedgerInv
<1> QED
  BY <1>2, <1>3, <1>5, <1>6, <1>7 DEF LedgerInv

\* A request that throws: the call starts again with one more attempt to
\* spend, or ends.
LEMMA RetryKeeps ==
  ASSUME LedgerInv, NEW k \in Caller, ledgerCall[k] # NoLedgerCall, Retry(k),
         queued' \in Id \cup {NoTx}, applied' = applied, sequence' = sequence, ledgerCalls' = ledgerCalls,
         disturbed' = disturbed, cutOff' = cutOff, hashed' = hashed, accepted \subseteq accepted',
         queued' = queued \/ (queued = NoTx /\ queued' = ledgerCall[k].id)
  PROVE  LedgerInv'
<1>1. PICK my : my = ledgerCall[k]
  OBVIOUS
<1>2. PICK again : again = [at |-> "load", id |-> my.id, try |-> my.try + 1]
  OBVIOUS
<1>3. /\ my.id \in Id /\ my.try \in 1..Attempts /\ Attempts \in Nat /\ my.try \in Nat /\ Spent(my.id) < my.try
      /\ my.id <= ledgerCalls /\ my.id \in Nat
      /\ Cardinality(InFlight) > 0 /\ Cardinality(InFlight) \in Nat /\ pendingTransactionCount = Cardinality(InFlight)
  <2>1. ledgerCall \in [Caller -> LedgerState]
    BY DEF LedgerInv, LedgerTypes
  <2> QED
    BY <1>1, <2>1, LedgerFacts, LedgerCallAssumption, FS_Subset, FS_CardinalityType DEF LedgerInv, InFlight
<1>4. LedgerTypes /\ ledgerCalls \in Nat /\ Spent(my.id) \in Nat
  BY <1>3, SpentType, LedgerCallAssumption DEF LedgerInv, LedgerTypes
<1>5. /\ \A i \in Id : i # my.id => Spent(i)' = Spent(i)
      /\ Spent(my.id)' = Spent(my.id) \/ Spent(my.id)' = Spent(my.id) + 1
      /\ Spent(my.id)' \in Nat
  <2>1. queued' = queued => \A i \in Id : Spent(i)' = Spent(i)
    BY DEF Spent
  <2>2. queued = NoTx /\ queued' = my.id =>
          /\ \A i \in Id : i # my.id => Spent(i)' = Spent(i)
          /\ Spent(my.id)' = Spent(my.id) + 1
    BY <1>3 DEF Spent, Id, NoTx
  <2> QED
    BY <1>1, <1>3, <1>4, <2>1, <2>2
<1>6. lostAnswers' = lostAnswers \cup {my.id}
  BY <1>1 DEF Retry
<1>7. TxFits(my.id)'
  BY <1>3, <1>4, <1>5, <1>6 DEF TxFits
<1>8. CASE my.try = Attempts
  <2>1. ledgerCall' = [ledgerCall EXCEPT ![k] = NoLedgerCall] /\ pendingTransactionCount' = pendingTransactionCount - 1
    BY <1>1, <1>3, <1>8 DEF Retry, EndCall, Step
  <2>2. LedgerTypes'
    BY <1>4, <2>1 DEF LedgerTypes, LedgerState, Retry
  <2> QED
    BY <1>1, <1>5, <1>6, <1>7, <2>1, <2>2, CallMoves DEF LedgerState
<1>9. CASE my.try # Attempts
  <2>1. ledgerCall' = [ledgerCall EXCEPT ![k] = again] /\ pendingTransactionCount' = pendingTransactionCount
    BY <1>1, <1>2, <1>9 DEF Retry, Step
  <2>2. /\ again \in LoadCall /\ again # NoLedgerCall /\ again.id = my.id /\ again.try = my.try + 1 /\ again.at = "load"
        /\ again \in LedgerState
    BY <1>2, <1>3, <1>9 DEF LoadCall, NoLedgerCall, LedgerState
  <2>3. LedgerTypes'
    BY <1>4, <2>1, <2>2 DEF LedgerTypes, Retry
  <2>4. ledgerCall'[k] = again
    BY <1>4, <2>1 DEF LedgerTypes
  <2>5. CallFits(k)'
    BY <1>3, <1>4, <1>5, <1>6, <2>2, <2>4 DEF CallFits
  <2> QED
    BY <1>1, <1>5, <1>6, <1>7, <2>1, <2>2, <2>3, <2>5, CallMoves
<1> QED
  BY <1>8, <1>9

LEMMA LoadAccountKeeps == ASSUME LedgerInv, NEW k \in Caller, LoadAccount(k) PROVE LedgerInv'
<1>1. ledgerCall[k] # NoLedgerCall
  BY DEF LoadAccount, NoLedgerCall
<1>2. CASE Retry(k)
  BY <1>1, <1>2, RetryKeeps DEF LoadAccount, LedgerInv, LedgerTypes
<1>3. CASE ~Retry(k)
  <2>1. PICK my : my = ledgerCall[k]
    OBVIOUS
  <2>2. PICK c : c = [at |-> "send", id |-> my.id, try |-> my.try, seq |-> sequence + 1]
    OBVIOUS
  <2>3. ledgerCall' = [ledgerCall EXCEPT ![k] = c] /\ lostAnswers' = lostAnswers
    BY <1>3, <2>1, <2>2 DEF LoadAccount, Step
  <2>4. LedgerTypes /\ my.id \in Id /\ my.try \in 1..Attempts
    BY <1>1, <2>1, LedgerFacts DEF LedgerInv
  <2>5. /\ c \in SendCall /\ c # NoLedgerCall /\ c \in LedgerState
        /\ c.id = my.id /\ c.try = my.try /\ c.seq = sequence + 1
    BY <2>2, <2>4 DEF SendCall, NoLedgerCall, LedgerState, LedgerTypes
  <2>6. LedgerTypes'
    BY <1>3, <2>3, <2>4, <2>5 DEF LoadAccount, LedgerTypes
  <2>7. \A i : Spent(i)' = Spent(i)
    BY DEF LoadAccount, Spent
  <2>8. TxFits(my.id)'
    BY <2>3, <2>4, <2>7 DEF LedgerInv, TxFits, LoadAccount
  <2>9. CallFits(k)'
    <3>1. ledgerCall'[k] = c /\ \A j \in Caller : j # k => ledgerCall'[j] = ledgerCall[j]
      BY <2>3, <2>4 DEF LedgerTypes
    <3>2. CallFits(k)
      BY DEF LedgerInv
    <3>3. Alone(k) => Alone(k)'
      BY <3>1 DEF Alone, LoadAccount
    <3> QED
      BY <1>1, <2>1, <2>3, <2>5, <2>7, <3>1, <3>2, <3>3 DEF CallFits, LoadAccount
  <2> QED
    BY <1>1, <1>3, <2>1, <2>3, <2>5, <2>6, <2>7, <2>8, <2>9, CallMoves DEF LoadAccount
<1> QED
  BY <1>2, <1>3

LEMMA SendTransactionKeeps == ASSUME LedgerInv, NEW k \in Caller, SendTransaction(k) PROVE LedgerInv'
<1>1. ledgerCall[k] # NoLedgerCall /\ ledgerCall[k].at = "send"
  BY DEF SendTransaction, NoLedgerCall
<1>2. PICK my : my = ledgerCall[k]
  OBVIOUS
<1>3. /\ LedgerTypes /\ my.id \in Id /\ my.try \in Nat /\ Attempts \in Nat /\ my.try <= Attempts
      /\ Spent(my.id) < my.try /\ my.id <= ledgerCalls /\ my.id \in Nat
      /\ Cardinality(InFlight) > 0 /\ pendingTransactionCount = Cardinality(InFlight)
  BY <1>1, <1>2, LedgerFacts DEF LedgerInv
<1>4. \/ /\ my.seq = sequence + 1 /\ queued = NoTx
         /\ queued' = my.id /\ accepted' = accepted \cup {my.id}
      \/ /\ ~(my.seq = sequence + 1 /\ queued = NoTx) \/ Retry(k)
         /\ queued' = queued /\ accepted' = accepted
  BY <1>2 DEF SendTransaction, Submit
<1>5. CASE Retry(k) /\ hashed' = hashed
  <2>1. queued' \in Id \cup {NoTx} /\ accepted \subseteq accepted' /\ (queued' = queued \/ (queued = NoTx /\ queued' = my.id))
    BY <1>3, <1>4 DEF LedgerTypes
  <2> QED
    BY <1>1, <1>2, <1>5, <2>1, RetryKeeps DEF SendTransaction
<1>6. CASE /\ Submit(k) /\ EndCall(k) /\ hashed' = hashed \cup {my.id}
           /\ UNCHANGED <<lostAnswers, rpcFaults>>
  <2>1. \/ /\ my.seq = sequence + 1 /\ queued = NoTx
           /\ queued' = my.id /\ accepted' = accepted \cup {my.id}
        \/ /\ ~(my.seq = sequence + 1 /\ queued = NoTx)
           /\ queued' = queued /\ accepted' = accepted
    BY <1>2, <1>6 DEF Submit
  <2>2. ledgerCall' = [ledgerCall EXCEPT ![k] = NoLedgerCall]
    BY <1>6 DEF EndCall, Step
  <2>3. pendingTransactionCount' = pendingTransactionCount - 1
    BY <1>3, <1>6 DEF EndCall
  <2>4. LedgerTypes' /\ applied' = applied /\ ledgerCalls' = ledgerCalls
    BY <1>3, <1>6, <2>1, <2>2 DEF LedgerTypes, LedgerState, SendTransaction
  <2>5. /\ \A i \in Id : i # my.id => Spent(i)' = Spent(i)
        /\ Spent(my.id)' = Spent(my.id) \/ Spent(my.id)' = Spent(my.id) + 1
        /\ Spent(my.id) \in Nat /\ Spent(my.id)' \in Nat
    <3>1. CASE queued' = queued
      <4>1. \A i : Spent(i)' = Spent(i)
        BY <2>4, <3>1 DEF Spent
      <4> QED
        BY <1>3, <4>1, SpentType
    <3>2. CASE queued = NoTx /\ queued' = my.id
      <4>1. /\ \A i \in Id : i # my.id => Spent(i)' = Spent(i)
            /\ Spent(my.id)' = Spent(my.id) + 1
        BY <1>3, <2>4, <3>2 DEF Spent, Id, NoTx
      <4> QED
        BY <1>3, <4>1, SpentType
    <3> QED
      BY <2>1, <3>1, <3>2
  <2>6. TxFits(my.id)'
    <3>1. my.id \notin lostAnswers => my.try <= 1
      BY <1>1, <1>2, <1>3 DEF LedgerInv, CallFits
    <3>2. lostAnswers' = lostAnswers /\ ledgerCalls \in Nat
      BY <1>3, <1>6, LedgerCallAssumption DEF LedgerTypes
    <3> QED
      BY <1>3, <2>4, <2>5, <3>1, <3>2 DEF TxFits
  <2>7. my.id \in disturbed \cup lostAnswers \cup accepted'
    <3>1. my.id \in disturbed \cup lostAnswers \/ (queued = NoTx /\ my.seq = sequence + 1)
      BY <1>1, <1>2 DEF LedgerInv, CallFits, Alone
    <3> QED
      BY <2>1, <3>1
  <2>8. accepted \subseteq accepted' /\ disturbed' = disturbed /\ cutOff' = cutOff /\ lostAnswers \subseteq lostAnswers'
    BY <1>6, <2>1 DEF SendTransaction
  <2>9. NoLedgerCall \in LedgerState
    BY DEF LedgerState
  <2> QED
    BY <1>1, <1>2, <1>6, <2>2, <2>3, <2>4, <2>5, <2>6, <2>7, <2>8, <2>9, CallMoves
<1> QED
  BY <1>2, <1>5, <1>6 DEF SendTransaction

LEMMA CloseOrExpireKeeps == ASSUME LedgerInv, CloseOrExpire PROVE LedgerInv'
<1>1. LedgerTypes /\ queued \in Id /\ queued # NoTx
  BY DEF LedgerInv, LedgerTypes, CloseOrExpire
<1>2. LedgerTypes'
  BY <1>1 DEF LedgerTypes, CloseOrExpire
<1>3. \A i \in Id : Spent(i)' <= Spent(i) /\ Spent(i)' \in Nat /\ Spent(i) \in Nat
  <2> SUFFICES ASSUME NEW i \in Id PROVE Spent(i)' <= Spent(i) /\ Spent(i)' \in Nat /\ Spent(i) \in Nat
    OBVIOUS
  <2>1. queued' # i /\ applied[i] \in Nat
    BY <1>1 DEF CloseOrExpire, LedgerTypes, Id, NoTx
  <2>2. Spent(i)' = applied'[i]
    BY <2>1 DEF Spent
  <2>3. applied'[i] = applied[i] \/ (queued = i /\ applied'[i] = applied[i] + 1)
    BY <1>1 DEF CloseOrExpire, LedgerTypes
  <2>4. (queued = i /\ Spent(i) = applied[i] + 1) \/ (queued # i /\ Spent(i) = applied[i])
    BY DEF Spent
  <2> QED
    BY <2>1, <2>2, <2>3, <2>4
<1>4. ASSUME NEW i \in Id PROVE TxFits(i)'
  <2>1. Attempts \in Nat /\ TxFits(i) /\ lostAnswers' = lostAnswers /\ ledgerCalls' = ledgerCalls
    BY LedgerCallAssumption DEF LedgerInv, CloseOrExpire, ledgerHistory
  <2> QED
    BY <1>3, <2>1 DEF TxFits
<1>5. ASSUME NEW j \in Caller PROVE CallFits(j)'
  <2>1. ledgerCall' = ledgerCall /\ disturbed' = disturbed /\ lostAnswers' = lostAnswers /\ ledgerCalls' = ledgerCalls
    BY DEF CloseOrExpire, ledgerHistory
  <2> SUFFICES ASSUME ledgerCall[j] # NoLedgerCall PROVE CallFits(j)'
    BY <2>1 DEF CallFits
  <2>2. /\ ledgerCall[j].id \in Id /\ ledgerCall[j].try \in Nat /\ ledgerCall[j].id <= ledgerCalls
        /\ Spent(ledgerCall[j].id) < ledgerCall[j].try
        /\ ledgerCall[j].try > 1 => ledgerCall[j].id \in lostAnswers
        /\ ledgerCall[j].id \in disturbed \cup lostAnswers
    BY <1>1, LedgerFacts DEF LedgerInv, CallFits, Alone
  <2>3. PICK my : my = ledgerCall[j]
    OBVIOUS
  <2>4. Spent(my.id)' < my.try
    BY <1>3, <2>2, <2>3
  <2> QED
    BY <2>1, <2>2, <2>3, <2>4 DEF CallFits
<1>6. UNCHANGED <<ledgerCall, pendingTransactionCount, cutOff, hashed, disturbed, lostAnswers, accepted>>
  BY DEF CloseOrExpire, ledgerHistory
<1> QED
  BY <1>2, <1>4, <1>5, <1>6 DEF LedgerInv, OwnIds, InFlight

LEMMA LedgerStutter ==
  ASSUME LedgerInv, cutOff' = {},
         UNCHANGED <<sequence, queued, ledgerCall, pendingTransactionCount, applied, accepted,
                     ledgerHistory, ledgerCalls, rpcFaults>>
  PROVE  LedgerInv'
<1>1. \A i : Spent(i)' = Spent(i)
  BY DEF Spent
<1>2. \A k : Alone(k)' <=> Alone(k)
  BY DEF Alone
<1>3. \A k : CallFits(k) => CallFits(k)'
  BY <1>1, <1>2 DEF CallFits, ledgerHistory
<1>4. \A i : TxFits(i) => TxFits(i)'
  BY <1>1 DEF TxFits, ledgerHistory
<1> QED
  BY <1>3, <1>4 DEF LedgerInv, LedgerTypes, OwnIds, InFlight, ledgerHistory

LEMMA StopKeeps == ASSUME LedgerInv, Stop PROVE LedgerInv'
<1>1. pendingTransactionCount = 0 => InFlight = {}
  <2>1. IsFiniteSet(InFlight)
    BY LedgerCallAssumption, FS_Subset DEF InFlight
  <2> QED
    BY <2>1, FS_EmptySet DEF LedgerInv
<1>2. cutOff' = {}
  BY <1>1 DEF Stop, Ids
<1> QED
  BY <1>2, LedgerStutter DEF Stop

LEMMA LedgerStep == LedgerInv /\ (LedgerCallNext \/ UNCHANGED ledgerVars) => LedgerInv'
<1>1. LedgerInv /\ UNCHANGED ledgerVars => LedgerInv'
  BY LedgerStutter DEF ledgerVars, LedgerInv
<1>2. LedgerInv /\ Shutdown => LedgerInv'
  BY LedgerStutter DEF Shutdown, LedgerInv
<1> QED
  BY <1>1, <1>2, BeginCallKeeps, LoadAccountKeeps, SendTransactionKeeps, CloseOrExpireKeeps, StopKeeps DEF LedgerCallNext

LEMMA LedgerFollows == LedgerInv => CallsAreAccounted
<1> SUFFICES ASSUME LedgerInv, NEW i \in Id PROVE applied[i] <= Attempts /\ (applied[i] > 1 => i \in lostAnswers)
  BY DEF LedgerInv, CallsAreAccounted
<1>1. applied[i] \in Nat /\ Attempts \in Nat /\ applied[i] <= Spent(i) /\ TxFits(i) /\ Spent(i) \in Nat
  BY LedgerCallAssumption, SpentType DEF LedgerInv, LedgerTypes, Spent
<1> QED
  BY <1>1 DEF TxFits

----------------------------------------------------------------------------
(* Coupons.                                                                *)

IncrementRow == [at : {"increment"}]
EditRow == [at : {"edit"}, active : BOOLEAN, count : Nat]
Incrementing == {b \in Buyer : checkout[b].at = "increment"}

\* Every checkout that found the coupon valid has room for its use.
CouponInv ==
  /\ usageCount \in Nat /\ granted \in Nat /\ checkout \in [Buyer -> {NoCheckout} \cup IncrementRow \cup EditRow]
  /\ ~editRaced => granted = usageCount /\ granted + Cardinality(Incrementing) < MaxUsage + Cardinality(Buyer)

LEMMA CouponConstants ==
  /\ MaxUsage \in Nat /\ MaxUsage > 0 /\ IsFiniteSet(Buyer) /\ Cardinality(Buyer) \in Nat
  /\ \A S \in SUBSET Buyer : IsFiniteSet(S) /\ Cardinality(S) \in Nat /\ Cardinality(S) <= Cardinality(Buyer)
BY CommerceAssumption, FS_Subset, FS_CardinalityType

LEMMA CouponStart == CommerceInit => CouponInv
<1> SUFFICES ASSUME CommerceInit PROVE CouponInv
  OBVIOUS
<1>1. Incrementing = {}
  BY DEF CommerceInit, Incrementing, NoCheckout
<1>2. Cardinality(Incrementing) = 0
  BY <1>1, FS_EmptySet
<1> QED
  BY <1>2, CouponConstants DEF CommerceInit, CouponInv

LEMMA CouponStep == CouponInv /\ (CouponNext \/ UNCHANGED couponVars) => CouponInv'
<1> SUFFICES ASSUME CouponInv, CouponNext \/ UNCHANGED couponVars PROVE CouponInv'
  OBVIOUS
<1>1. Incrementing \in SUBSET Buyer /\ Incrementing' \in SUBSET Buyer
  BY DEF Incrementing
<1>2. /\ Cardinality(Incrementing) \in Nat /\ Cardinality(Incrementing') \in Nat
      /\ Cardinality(Incrementing') <= Cardinality(Buyer)
  BY <1>1, CouponConstants
<1>3. CASE UNCHANGED couponVars
  BY <1>3 DEF CouponInv, couponVars, Incrementing
<1>4. ASSUME NEW b \in Buyer, ValidateCoupon(b) PROVE CouponInv'
  <2>1. PICK c : c = [at |-> "increment"]
    OBVIOUS
  <2>2. checkout' \in [Buyer -> {NoCheckout} \cup IncrementRow \cup EditRow]
    BY <1>4 DEF ValidateCoupon, Serve, CouponInv, IncrementRow
  <2>3. UNCHANGED <<usageCount, granted, editRaced>> /\ usageCount < MaxUsage
    BY <1>4 DEF ValidateCoupon, CouponValid
  <2> QED
    BY <1>2, <2>2, <2>3, CouponConstants DEF CouponInv
<1>5. ASSUME NEW b \in Buyer, IncrementUsage(b) PROVE CouponInv'
  <2>1. checkout' \in [Buyer -> {NoCheckout} \cup IncrementRow \cup EditRow]
    BY <1>5 DEF IncrementUsage, Serve, CouponInv
  <2>2. b \notin Incrementing' /\ Incrementing = Incrementing' \cup {b}
    BY <1>5 DEF IncrementUsage, Serve, CouponInv, Incrementing, NoCheckout
  <2>3. PICK left : left = Incrementing'
    OBVIOUS
  <2>4. IsFiniteSet(left) /\ b \notin left /\ Incrementing = left \cup {b}
    BY <1>1, <2>2, <2>3, CouponConstants
  <2>5. Cardinality(Incrementing) = Cardinality(left) + 1
    BY <2>4, FS_AddElement
  <2>6. usageCount' = usageCount + 1 /\ granted' = granted + 1 /\ editRaced' = editRaced
    BY <1>5 DEF IncrementUsage
  <2> QED
    BY <1>2, <2>1, <2>3, <2>5, <2>6, CouponConstants DEF CouponInv
<1>6. ASSUME NEW b \in Buyer, EditCoupon(b) PROVE CouponInv'
  <2>1. PICK on \in BOOLEAN : Serve(b, [at |-> "edit", active |-> on, count |-> usageCount])
    BY <1>6 DEF EditCoupon
  <2>2. PICK c : c = [at |-> "edit", active |-> on, count |-> usageCount]
    OBVIOUS
  <2>3. c \in EditRow /\ c.at = "edit"
    BY <2>2 DEF EditRow, CouponInv
  <2>4. checkout' = [checkout EXCEPT ![b] = c] /\ checkout[b] = NoCheckout
    BY <1>6, <2>1, <2>2 DEF EditCoupon, Serve
  <2>5. checkout' \in [Buyer -> {NoCheckout} \cup IncrementRow \cup EditRow] /\ Incrementing' = Incrementing
    BY <2>3, <2>4 DEF CouponInv, Incrementing, NoCheckout
  <2>6. UNCHANGED <<usageCount, granted, editRaced>>
    BY <1>6 DEF EditCoupon
  <2> QED
    BY <2>5, <2>6 DEF CouponInv
<1>7. ASSUME NEW b \in Buyer, SaveCoupon(b) PROVE CouponInv'
  <2>1. checkout[b] \in EditRow /\ checkout[b].count \in Nat
    BY <1>7 DEF SaveCoupon, CouponInv, NoCheckout, IncrementRow, EditRow
  <2>2. checkout' \in [Buyer -> {NoCheckout} \cup IncrementRow \cup EditRow] /\ Incrementing' = Incrementing
    BY <1>7 DEF SaveCoupon, Serve, CouponInv, Incrementing, NoCheckout
  <2>3. usageCount' \in Nat /\ granted' = granted
    BY <1>7, <2>1 DEF SaveCoupon
  <2>4. ~editRaced' => ~editRaced /\ usageCount' = usageCount
    BY <1>7 DEF SaveCoupon
  <2> QED
    BY <2>2, <2>3, <2>4 DEF CouponInv
<1> QED
  BY <1>3, <1>4, <1>5, <1>6, <1>7 DEF CouponNext

----------------------------------------------------------------------------
(* Payouts.                                                                *)

RunRow == [at : {"page", "save"}, offset : Nat, count : Nat, of : Nat, missed : BOOLEAN]
Payout == [count : Nat, of : Nat, missed : BOOLEAN, status : {"pending", "processed", "failed"}]

\* A run has counted no completion twice and, unless it missed a page or a
\* row, every one before its offset.
RunFits(r) ==
  /\ run[r].at = "page" =>
       /\ run[r].count <= run[r].offset /\ run[r].count <= run[r].of /\ inPeriod <= run[r].of
       /\ run[r].missed \/ (inPeriod = run[r].of /\ run[r].count = run[r].offset)
  /\ run[r].at = "save" => run[r].count <= run[r].of /\ (run[r].missed \/ run[r].count = run[r].of)

PayoutFits(i) ==
  /\ payouts[i].count <= payouts[i].of
  /\ payouts[i].missed \/ payouts[i].count = payouts[i].of
  /\ payouts[i].status = "processed" => everApproved

PayoutInv ==
  /\ inPeriod \in Nat /\ run \in [Runs -> {NoRun} \cup RunRow] /\ payouts \in Seq(Payout)
  /\ instructorApproved => everApproved
  /\ \A r \in Runs : RunFits(r)
  /\ \A i \in 1..Len(payouts) : PayoutFits(i)

LEMMA PayoutStart == CommerceInit => PayoutInv
BY CommerceAssumption DEF CommerceInit, PayoutInv, RunFits, NoRun

LEMMA StartRunKeeps == ASSUME PayoutInv, NEW r \in Runs, StartRun(r) PROVE PayoutInv'
<1>1. PICK c : c = [at |-> "page", offset |-> 0, count |-> 0, of |-> inPeriod, missed |-> FALSE]
  OBVIOUS
<1>2. c \in RunRow /\ c.at = "page" /\ c.offset = 0 /\ c.count = 0 /\ c.of = inPeriod
  BY <1>1 DEF RunRow, PayoutInv
<1>3. run' = [run EXCEPT ![r] = c] /\ UNCHANGED <<inPeriod, payouts, instructorApproved, everApproved>>
  BY <1>1 DEF StartRun
<1>4. run'[r] = c /\ \A q \in Runs : q # r => run'[q] = run[q]
  BY <1>3 DEF PayoutInv
<1>5. ASSUME NEW q \in Runs PROVE RunFits(q)'
  BY <1>2, <1>3, <1>4 DEF PayoutInv, RunFits
<1>6. run' \in [Runs -> {NoRun} \cup RunRow]
  BY <1>2, <1>3 DEF PayoutInv
<1> QED
  BY <1>3, <1>5, <1>6 DEF PayoutInv, PayoutFits

\* A run goes on behind a page it could not read, or with what it read.
Misses(my, offset, c) ==
  c \in RunRow /\ c.at = my.at /\ c.offset = offset /\ c.count = my.count /\ c.of = my.of /\ c.missed = TRUE
Reads(my, offset, count, at, c) ==
  c \in RunRow /\ c.at = at /\ c.offset = offset /\ c.count = count /\ c.of = my.of /\ c.missed = my.missed

LEMMA RunMisses ==
  ASSUME NEW my \in RunRow, NEW offset \in Nat
  PROVE  Misses(my, offset, [my EXCEPT !.offset = offset, !.missed = TRUE])
<1> DEFINE moved == [my EXCEPT !.offset = offset]
           missing == [moved EXCEPT !.missed = TRUE]
<1>1. moved \in RunRow /\ moved.at = my.at /\ moved.offset = offset /\ moved.count = my.count /\ moved.of = my.of
  BY DEF RunRow
<1>2. missing = [my EXCEPT !.offset = offset, !.missed = TRUE]
  BY DEF RunRow
<1> HIDE DEF moved
<1>3. /\ missing \in RunRow /\ missing.at = moved.at /\ missing.offset = moved.offset /\ missing.count = moved.count
      /\ missing.of = moved.of /\ missing.missed = TRUE
  BY <1>1 DEF RunRow
<1> HIDE DEF missing
<1>4. Misses(my, offset, missing)
  BY <1>1, <1>3 DEF Misses
<1> QED
  BY <1>2, <1>4, Zenon

LEMMA RunReads ==
  ASSUME NEW my \in RunRow, NEW offset \in Nat, NEW count \in Nat, NEW at \in {"page", "save"}
  PROVE  Reads(my, offset, count, at, [my EXCEPT !.offset = offset, !.count = count, !.at = at])
<1> DEFINE moved == [my EXCEPT !.offset = offset]
           more == [moved EXCEPT !.count = count]
           done == [more EXCEPT !.at = at]
<1>1. moved \in RunRow /\ moved.offset = offset /\ moved.of = my.of /\ moved.missed = my.missed
  BY DEF RunRow
<1>2. done = [my EXCEPT !.offset = offset, !.count = count, !.at = at]
  BY DEF RunRow
<1> HIDE DEF moved
<1>3. more \in RunRow /\ more.offset = moved.offset /\ more.count = count /\ more.of = moved.of /\ more.missed = moved.missed
  BY <1>1 DEF RunRow
<1> HIDE DEF more
<1>4. done \in RunRow /\ done.at = at /\ done.offset = more.offset /\ done.count = more.count /\ done.of = more.of /\ done.missed = more.missed
  BY <1>3 DEF RunRow
<1> HIDE DEF done
<1>5. Reads(my, offset, count, at, done)
  BY <1>1, <1>3, <1>4 DEF Reads
<1> QED
  BY <1>2, <1>5, Zenon

LEMMA FetchPageKeeps == ASSUME PayoutInv, NEW r \in Runs, FetchPage(r) PROVE PayoutInv'
<1>1. PICK my : my = run[r]
  OBVIOUS
<1>2. /\ my \in RunRow /\ my.at = "page" /\ my.offset \in Nat /\ my.count \in Nat /\ my.of \in Nat /\ inPeriod \in Nat
      /\ BatchSize \in Nat /\ BatchSize > 0
  BY <1>1, CommerceAssumption DEF FetchPage, PayoutInv, RunRow, NoRun
<1>3. /\ my.count <= my.offset /\ my.count <= my.of /\ inPeriod <= my.of
      /\ my.missed \/ (inPeriod = my.of /\ my.count = my.offset)
  BY <1>1, <1>2 DEF PayoutInv, RunFits
<1>4. PICK c : run' = [run EXCEPT ![r] = c] /\ c \in RunRow /\ c.of = my.of
        /\ \/ /\ c.at = "page" /\ c.offset = my.offset + BatchSize /\ c.count = my.count /\ c.missed = TRUE
           \/ /\ c.at = "page" /\ c.offset = my.offset + BatchSize /\ c.count = my.count + BatchSize
              /\ c.missed = my.missed /\ my.offset + BatchSize <= inPeriod
           \/ /\ c.at = "save" /\ c.missed = my.missed
              /\ \/ inPeriod <= my.offset /\ c.count = my.count
                 \/ inPeriod > my.offset /\ c.count = my.count + (inPeriod - my.offset)
  <2> DEFINE left == IF inPeriod > my.offset THEN inPeriod - my.offset ELSE 0
             page == IF left < BatchSize THEN left ELSE BatchSize
  <2>1. \/ run' = [run EXCEPT ![r].offset = @ + BatchSize, ![r].count = @ + page,
                              ![r].at = IF page < BatchSize THEN "save" ELSE "page"]
        \/ run' = [run EXCEPT ![r].offset = @ + BatchSize, ![r].missed = TRUE]
    BY <1>1 DEF FetchPage
  <2>2. /\ page \in Nat /\ page <= BatchSize
        /\ page = BatchSize => my.offset + BatchSize <= inPeriod
        /\ page < BatchSize => (inPeriod <= my.offset /\ page = 0) \/ (inPeriod > my.offset /\ page = inPeriod - my.offset)
    BY <1>2
  <2> HIDE DEF page, left
  <2>3. CASE run' = [run EXCEPT ![r].offset = @ + BatchSize, ![r].missed = TRUE]
    <3>0. PICK o \in Nat : o = my.offset + BatchSize
      BY <1>2
    <3>1. PICK c : c = [my EXCEPT !.offset = o, !.missed = TRUE]
      OBVIOUS
    <3>2. run' = [run EXCEPT ![r] = c]
      BY <1>1, <2>3, <3>0, <3>1 DEF PayoutInv
    <3>3. c \in RunRow /\ c.at = "page" /\ c.offset = my.offset + BatchSize /\ c.count = my.count /\ c.of = my.of /\ c.missed = TRUE
      <4>1. Misses(my, o, c)
        BY <1>2, <3>1, RunMisses, Zenon
      <4> QED
        BY <1>2, <3>0, <4>1 DEF Misses
    <3> QED
      BY <3>2, <3>3
  <2>4. CASE run' = [run EXCEPT ![r].offset = @ + BatchSize, ![r].count = @ + page,
                                ![r].at = IF page < BatchSize THEN "save" ELSE "page"]
    <3>1. PICK at : at = IF page < BatchSize THEN "save" ELSE "page"
      OBVIOUS
    <3>0. PICK o \in Nat, n \in Nat : o = my.offset + BatchSize /\ n = my.count + page
      BY <1>2, <2>2
    <3>2. PICK c : c = [my EXCEPT !.offset = o, !.count = n, !.at = at]
      OBVIOUS
    <3>3. run' = [run EXCEPT ![r] = c]
      BY <1>1, <2>4, <3>0, <3>1, <3>2 DEF PayoutInv
    <3>4. (page < BatchSize /\ at = "save") \/ (page = BatchSize /\ at = "page")
      BY <1>2, <2>2, <3>1
    <3>5. /\ c \in RunRow /\ c.at = at /\ c.offset = my.offset + BatchSize /\ c.count = my.count + page
          /\ c.of = my.of /\ c.missed = my.missed
      <4>1. Reads(my, o, n, at, c)
        <5>1. my \in RunRow /\ o \in Nat /\ n \in Nat /\ at \in {"page", "save"}
          BY <1>2, <3>0, <3>4
        <5> QED
          BY <3>2, <5>1, RunReads, Zenon
      <4> QED
        BY <3>0, <4>1 DEF Reads
    <3>6. CASE page < BatchSize /\ at = "save"
      <4>1. c.at = "save" /\ ((inPeriod <= my.offset /\ c.count = my.count)
                             \/ (inPeriod > my.offset /\ c.count = my.count + (inPeriod - my.offset)))
        BY <1>2, <2>2, <3>5, <3>6
      <4> QED
        BY <3>3, <3>5, <4>1
    <3>7. CASE page = BatchSize /\ at = "page"
      BY <1>2, <2>2, <3>3, <3>5, <3>7
    <3> QED
      BY <3>4, <3>6, <3>7
  <2> QED
    BY <2>1, <2>3, <2>4
<1>5. run'[r] = c /\ \A q \in Runs : q # r => run'[q] = run[q]
  BY <1>4 DEF PayoutInv
<1>6. UNCHANGED <<inPeriod, payouts, instructorApproved, everApproved>>
  BY DEF FetchPage
<1>7. RunFits(r)'
  BY <1>2, <1>3, <1>4, <1>5, <1>6 DEF RunFits
<1>8. ASSUME NEW q \in Runs PROVE RunFits(q)'
  BY <1>5, <1>6, <1>7 DEF PayoutInv, RunFits
<1>9. run' \in [Runs -> {NoRun} \cup RunRow]
  BY <1>4 DEF PayoutInv
<1> QED
  BY <1>6, <1>8, <1>9 DEF PayoutInv, PayoutFits

LEMMA SavePayoutKeeps == ASSUME PayoutInv, NEW r \in Runs, SavePayout(r) PROVE PayoutInv'
<1>1. PICK my : my = run[r]
  OBVIOUS
<1>2. /\ my \in RunRow /\ my.at = "save" /\ my.count \in Nat /\ my.of \in Nat /\ my.missed \in BOOLEAN
      /\ my.count <= my.of /\ (my.missed \/ my.count = my.of)
  BY <1>1 DEF SavePayout, PayoutInv, RunRow, NoRun, RunFits
<1>3. run' = [run EXCEPT ![r] = NoRun] /\ UNCHANGED <<inPeriod, instructorApproved, everApproved>>
  BY DEF SavePayout
<1>4. ASSUME NEW q \in Runs PROVE RunFits(q)'
  <2>1. run'[q] = NoRun \/ run'[q] = run[q]
    BY <1>3 DEF PayoutInv
  <2> QED
    BY <1>3, <2>1 DEF PayoutInv, RunFits, NoRun
<1>5. payouts' \in Seq(Payout) /\ \A i \in 1..Len(payouts') : PayoutFits(i)'
  <2>1. CASE payouts' = payouts
    BY <1>3, <2>1 DEF PayoutInv, PayoutFits
  <2>2. PICK p : p = [count |-> my.count, of |-> my.of, missed |-> my.missed, status |-> "pending"]
    OBVIOUS
  <2>3. CASE payouts' = Append(payouts, p)
    <3>1. /\ p \in Payout /\ p.count = my.count /\ p.of = my.of /\ p.missed = my.missed /\ p.status = "pending"
      BY <1>2, <2>2 DEF Payout
    <3>2. payouts' \in Seq(Payout)
      BY <2>3, <3>1 DEF PayoutInv
    <3>3. ASSUME NEW i \in 1..Len(payouts') PROVE PayoutFits(i)'
      <4>1. payouts'[i] = p \/ (i \in 1..Len(payouts) /\ payouts'[i] = payouts[i])
        BY <2>3 DEF PayoutInv
      <4>2. CASE payouts'[i] = p
        <5>1. p.missed \/ p.count = p.of
          BY <1>2, <3>1
        <5> QED
          BY <1>2, <3>1, <4>2, <5>1 DEF PayoutFits
      <4>3. CASE i \in 1..Len(payouts) /\ payouts'[i] = payouts[i]
        BY <1>3, <4>3 DEF PayoutInv, PayoutFits
      <4> QED
        BY <4>1, <4>2, <4>3
    <3> QED
      BY <3>2, <3>3
  <2> QED
    BY <1>1, <2>1, <2>2, <2>3 DEF SavePayout
<1>6. run' \in [Runs -> {NoRun} \cup RunRow]
  BY <1>3 DEF PayoutInv
<1> QED
  BY <1>3, <1>4, <1>5, <1>6 DEF PayoutInv

LEMMA RemoveCompletionKeeps == ASSUME PayoutInv, RemoveCompletion PROVE PayoutInv'
<1>1. /\ inPeriod \in Nat /\ inPeriod > 0 /\ inPeriod' = inPeriod - 1 /\ inPeriod' \in Nat
      /\ UNCHANGED <<payouts, instructorApproved, everApproved>>
  BY DEF RemoveCompletion, PayoutInv
<1>2. ASSUME NEW r \in Runs PROVE run'[r] \in {NoRun} \cup RunRow /\ RunFits(r)'
  <2>1. PICK my : my = run[r]
    OBVIOUS
  <2>2. CASE my.at = "page"
    <3>1. my \in RunRow
      BY <2>1, <2>2 DEF PayoutInv, NoRun
    <3>2. PICK c : c = [my EXCEPT !.missed = TRUE]
      OBVIOUS
    <3>3. c \in RunRow /\ c.at = "page" /\ c.offset = my.offset /\ c.count = my.count /\ c.of = my.of /\ c.missed = TRUE
      BY <2>2, <3>1, <3>2 DEF RunRow
    <3>4. run'[r] = c
      BY <2>1, <2>2, <3>2 DEF RemoveCompletion
    <3>5. my.count <= my.offset /\ my.count <= my.of /\ inPeriod <= my.of /\ my.of \in Nat
      BY <2>1, <2>2, <3>1 DEF PayoutInv, RunFits, RunRow
    <3>6. inPeriod' <= my.of
      BY <1>1, <3>5
    <3> QED
      BY <3>3, <3>4, <3>5, <3>6 DEF RunFits
  <2>3. CASE my.at # "page"
    <3>1. run'[r] = run[r]
      BY <2>1, <2>3 DEF RemoveCompletion
    <3> QED
      BY <2>1, <2>3, <3>1 DEF PayoutInv, RunFits
  <2> QED
    BY <2>2, <2>3
<1>3. run' \in [Runs -> {NoRun} \cup RunRow]
  BY <1>2 DEF RemoveCompletion
<1> QED
  BY <1>1, <1>2, <1>3 DEF PayoutInv, PayoutFits

\* One more to pay for, and one more that may be on a later page.
LEMMA EnterPeriodKeeps == ASSUME PayoutInv, EnterPeriod PROVE PayoutInv'
<1>1. /\ inPeriod \in Nat /\ inPeriod' = inPeriod + 1 /\ inPeriod' \in Nat
      /\ UNCHANGED <<payouts, instructorApproved, everApproved>>
  BY DEF EnterPeriod, PayoutInv
<1>2. ASSUME NEW r \in Runs PROVE run'[r] \in {NoRun} \cup RunRow /\ RunFits(r)'
  <2>1. PICK my : my = run[r]
    OBVIOUS
  <2>2. CASE my.at = "page"
    <3>1. my \in RunRow
      BY <2>1, <2>2 DEF PayoutInv, NoRun
    <3>2. PICK c : c = [my EXCEPT !.of = @ + 1]
      OBVIOUS
    <3>3. /\ c \in RunRow /\ c.at = "page" /\ c.offset = my.offset /\ c.count = my.count
          /\ c.of = my.of + 1 /\ c.missed = my.missed
      BY <2>2, <3>1, <3>2 DEF RunRow
    <3>4. run'[r] = c
      BY <2>1, <2>2, <3>2 DEF EnterPeriod
    <3>5. /\ my.count \in Nat /\ my.of \in Nat
          /\ my.count <= my.offset /\ my.count <= my.of /\ inPeriod <= my.of
          /\ my.missed \/ (inPeriod = my.of /\ my.count = my.offset)
      BY <2>1, <2>2, <3>1 DEF PayoutInv, RunFits, RunRow
    <3>6. c.count <= c.of /\ inPeriod' <= c.of
      BY <1>1, <3>3, <3>5
    <3>7. c.missed \/ (inPeriod' = c.of /\ c.count = c.offset)
      BY <1>1, <3>3, <3>5
    <3> QED
      BY <3>3, <3>4, <3>5, <3>6, <3>7 DEF RunFits
  <2>3. CASE my.at # "page"
    <3>1. run'[r] = run[r]
      BY <2>1, <2>3 DEF EnterPeriod
    <3> QED
      BY <2>1, <2>3, <3>1 DEF PayoutInv, RunFits
  <2> QED
    BY <2>2, <2>3
<1>3. run' \in [Runs -> {NoRun} \cup RunRow]
  BY <1>2 DEF EnterPeriod
<1> QED
  BY <1>1, <1>2, <1>3 DEF PayoutInv, PayoutFits

LEMMA ProcessPayoutKeeps == ASSUME PayoutInv, NEW i \in 1..Len(payouts), ProcessPayout(i) PROVE PayoutInv'
<1>1. PICK status \in {"processed", "failed"} :
        payouts' = [payouts EXCEPT ![i].status = status] /\ (status = "processed" => instructorApproved)
  BY DEF ProcessPayout
<1>2. PICK p : p = [payouts[i] EXCEPT !.status = status]
  OBVIOUS
<1>3. payouts \in Seq(Payout) /\ payouts[i] \in Payout
  BY DEF PayoutInv
<1>4. p \in Payout /\ p.count = payouts[i].count /\ p.of = payouts[i].of /\ p.missed = payouts[i].missed /\ p.status = status
  BY <1>2, <1>3 DEF Payout
<1>5. payouts' = [payouts EXCEPT ![i] = p]
  BY <1>1, <1>2
<1>6. payouts' \in Seq(Payout) /\ Len(payouts') = Len(payouts) /\ payouts'[i] = p
      /\ \A j \in 1..Len(payouts) : j # i => payouts'[j] = payouts[j]
  BY <1>3, <1>4, <1>5
<1>7. UNCHANGED <<inPeriod, run, instructorApproved, everApproved>>
  BY DEF ProcessPayout
<1>8. PayoutFits(i)'
  <2>1. PayoutFits(i) /\ (status = "processed" => everApproved)
    BY <1>1 DEF PayoutInv
  <2>2. p.missed \/ p.count = p.of
    BY <1>4, <2>1 DEF PayoutFits
  <2> QED
    BY <1>4, <1>6, <1>7, <2>1, <2>2 DEF PayoutFits
<1>9. ASSUME NEW j \in 1..Len(payouts') PROVE PayoutFits(j)'
  BY <1>6, <1>7, <1>8 DEF PayoutInv, PayoutFits
<1> QED
  BY <1>6, <1>7, <1>9 DEF PayoutInv, RunFits

LEMMA PayoutStep == PayoutInv /\ (PayoutNext \/ UNCHANGED payoutVars) => PayoutInv'
<1>1. PayoutInv /\ UNCHANGED payoutVars => PayoutInv'
  BY DEF PayoutInv, RunFits, PayoutFits, payoutVars
<1>2. PayoutInv /\ DecideKyc => PayoutInv'
  BY DEF PayoutInv, RunFits, PayoutFits, DecideKyc
<1> QED
  BY <1>1, <1>2, StartRunKeeps, FetchPageKeeps, SavePayoutKeeps, RemoveCompletionKeeps, EnterPeriodKeeps,
     ProcessPayoutKeeps DEF PayoutNext

----------------------------------------------------------------------------
(* Subscriptions.                                                          *)

SubscriptionInv ==
  /\ events \in Seq(Event) /\ handled \in Seq(Nat)
  /\ \A h \in 1..Len(handled) : handled[h] \in 1..Len(events)
  /\ \A i \in fetching : i \in 1..Len(events) /\ events[i] = "completed"
  /\ InOrder => tier = IF PaidBy(Len(handled)) THEN "paid" ELSE "free"

LEMMA SubscriptionStart == CommerceInit => SubscriptionInv
<1> SUFFICES ASSUME CommerceInit PROVE SubscriptionInv
  OBVIOUS
<1>1. events = <<>> /\ handled = <<>> /\ fetching = {} /\ tier = "free" /\ Len(handled) = 0
  BY DEF CommerceInit
<1>2. ~PaidBy(Len(handled))
  BY <1>1 DEF PaidBy
<1> QED
  BY <1>1, <1>2 DEF SubscriptionInv

\* In their order, the last event that was handled is the n-th for n of them.
LEMMA HandledInOrder ==
  ASSUME SubscriptionInv, InOrder
  PROVE  Len(handled) \in Nat /\ Len(handled) <= Len(events)
<1>1. Len(handled) \in Nat /\ Len(events) \in Nat
  BY DEF SubscriptionInv
<1>2. ASSUME Len(handled) > 0 PROVE Len(handled) <= Len(events)
  <2>1. Len(handled) \in 1..Len(handled)
    BY <1>1, <1>2
  <2> QED
    BY <1>1, <2>1 DEF InOrder, SubscriptionInv
<1> QED
  BY <1>1, <1>2

LEMMA ReportEventKeeps ==
  ASSUME SubscriptionInv, NEW e \in Event, ReportEvent(e) PROVE SubscriptionInv'
<1>1. /\ events \in Seq(Event) /\ events' = Append(events, e) /\ Len(events) \in Nat
      /\ UNCHANGED <<handled, fetching, tier>>
  BY DEF SubscriptionInv, ReportEvent
<1>2. /\ events' \in Seq(Event) /\ Len(events') = Len(events) + 1
      /\ \A i \in 1..Len(events) : events'[i] = events[i]
  BY <1>1
<1>3. \A h \in 1..Len(handled') : handled'[h] \in 1..Len(events')
  BY <1>1, <1>2 DEF SubscriptionInv
<1>4. \A i \in fetching' : i \in 1..Len(events') /\ events'[i] = "completed"
  BY <1>1, <1>2 DEF SubscriptionInv
<1>5. ASSUME InOrder' PROVE tier' = IF PaidBy(Len(handled))' THEN "paid" ELSE "free"
  <2>1. InOrder
    BY <1>1, <1>5 DEF InOrder
  <2>2. Len(handled) \in Nat /\ Len(handled) <= Len(events)
    BY <2>1, HandledInOrder
  <2>3. \A i \in 1..Len(handled) : events'[i] = events[i]
    BY <1>1, <1>2, <2>2
  <2>4. PaidBy(Len(handled))' <=> PaidBy(Len(handled))
    BY <1>1, <2>2, <2>3 DEF PaidBy
  <2> QED
    BY <1>1, <2>1, <2>4 DEF SubscriptionInv
<1> QED
  BY <1>1, <1>2, <1>3, <1>4, <1>5 DEF SubscriptionInv

LEMMA HandledNext ==
  ASSUME handled \in Seq(Nat), NEW i \in Nat, handled' = Append(handled, i)
  PROVE  /\ handled' \in Seq(Nat) /\ Len(handled') = Len(handled) + 1 /\ Len(handled) \in Nat
         /\ handled'[Len(handled')] = i /\ \A h \in 1..Len(handled) : handled'[h] = handled[h]
         /\ InOrder' => InOrder /\ i = Len(handled')
BY DEF InOrder

\* The tier after one event more.
LEMMA PaidByNext ==
  ASSUME NEW n \in Nat
  PROVE  /\ events[n + 1] = "completed" => PaidBy(n + 1)
         /\ events[n + 1] = "active" => (PaidBy(n + 1) <=> PaidBy(n))
         /\ events[n + 1] \notin {"completed", "active"} => ~PaidBy(n + 1)
<1>1. ASSUME events[n + 1] = "completed" PROVE PaidBy(n + 1)
  <2>1. n + 1 \in 1..n + 1 /\ (n + 1) + 1 .. n + 1 = {}
    OBVIOUS
  <2> QED
    BY <1>1, <2>1 DEF PaidBy
<1>2. ASSUME events[n + 1] = "active", PaidBy(n + 1) PROVE PaidBy(n)
  <2>1. PICK c \in 1..n + 1 : events[c] = "completed" /\ \A i \in c + 1 .. n + 1 : events[i] = "active"
    BY <1>2 DEF PaidBy
  <2>2. c \in 1..n /\ c + 1 .. n \subseteq c + 1 .. n + 1
    BY <1>2, <2>1
  <2> QED
    BY <2>1, <2>2 DEF PaidBy
<1>3. ASSUME events[n + 1] = "active", PaidBy(n) PROVE PaidBy(n + 1)
  <2>1. PICK c \in 1..n : events[c] = "completed" /\ \A i \in c + 1 .. n : events[i] = "active"
    BY <1>3 DEF PaidBy
  <2>2. c \in 1..n + 1 /\ \A i \in c + 1 .. n + 1 : i = n + 1 \/ i \in c + 1 .. n
    OBVIOUS
  <2>3. \A i \in c + 1 .. n + 1 : events[i] = "active"
    BY <1>3, <2>1, <2>2
  <2> QED
    BY <2>1, <2>2, <2>3 DEF PaidBy
<1>4. ASSUME events[n + 1] \notin {"completed", "active"}, PaidBy(n + 1) PROVE FALSE
  <2>1. PICK c \in 1..n + 1 : events[c] = "completed" /\ \A i \in c + 1 .. n + 1 : events[i] = "active"
    BY <1>4 DEF PaidBy
  <2>2. c # n + 1
    BY <1>4, <2>1
  <2>3. n + 1 \in c + 1 .. n + 1
    BY <2>1, <2>2
  <2> QED
    BY <1>4, <2>1, <2>3
<1> QED
  BY <1>1, <1>2, <1>3, <1>4

\* What handling an event leaves to show: the tier.
LEMMA HandlingKeeps ==
  ASSUME SubscriptionInv, NEW i \in 1..Len(events), handled' = Append(handled, i), events' = events,
         fetching' \subseteq fetching,
         InOrder /\ i = Len(handled) + 1 => tier' = IF PaidBy(i) THEN "paid" ELSE "free"
  PROVE  SubscriptionInv'
<1>1. i \in Nat /\ handled \in Seq(Nat) /\ Len(handled) \in Nat
  BY DEF SubscriptionInv
<1>2. \A h \in 1..Len(handled') : handled'[h] \in 1..Len(events')
  <2> SUFFICES ASSUME NEW h \in 1..Len(handled') PROVE handled'[h] \in 1..Len(events)
    OBVIOUS
  <2>1. h \in 1..Len(handled) \/ h = Len(handled')
    BY <1>1, HandledNext
  <2> QED
    BY <1>1, <2>1, HandledNext DEF SubscriptionInv
<1>3. ASSUME InOrder' PROVE tier' = IF PaidBy(Len(handled))' THEN "paid" ELSE "free"
  <2>1. InOrder /\ i = Len(handled') /\ Len(handled') = Len(handled) + 1
    BY <1>1, <1>3, HandledNext
  <2>2. PaidBy(Len(handled))' <=> PaidBy(i)
    BY <2>1 DEF PaidBy
  <2> QED
    BY <2>1, <2>2
<1> QED
  BY <1>1, <1>2, <1>3, HandledNext DEF SubscriptionInv

LEMMA SaveTierKeeps == ASSUME SubscriptionInv, NEW i \in 1..Len(events), SaveTier(i) PROVE SubscriptionInv'
<1>1. /\ i \in fetching /\ fetching' = fetching \ {i} /\ tier' = "paid" /\ handled' = Append(handled, i)
      /\ events' = events /\ events[i] = "completed" /\ Len(handled) \in Nat
  BY DEF SaveTier, SubscriptionInv
<1>2. i = Len(handled) + 1 => PaidBy(i)
  BY <1>1, PaidByNext
<1> QED
  BY <1>1, <1>2, HandlingKeeps

LEMMA ReceiveUpdatedKeeps == ASSUME SubscriptionInv, NEW i \in 1..Len(events), ReceiveUpdated(i) PROVE SubscriptionInv'
<1>1. /\ handled' = Append(handled, i) /\ events[i] # "completed"
      /\ events' = events /\ fetching' = fetching /\ Len(handled) \in Nat
  BY DEF ReceiveUpdated, SubscriptionInv
<1>2. ASSUME InOrder, i = Len(handled) + 1 PROVE tier' = IF PaidBy(i) THEN "paid" ELSE "free"
  <2>1. tier = IF PaidBy(Len(handled)) THEN "paid" ELSE "free"
    BY <1>2 DEF SubscriptionInv
  <2>2. CASE \E h \in 1..Len(handled) : events[handled[h]] = "completed"
    <3>1. tier' = IF events[i] = "active" THEN tier ELSE "free"
      BY <2>2 DEF ReceiveUpdated
    <3> QED
      BY <1>1, <1>2, <2>1, <3>1, PaidByNext
  <2>3. CASE ~\E h \in 1..Len(handled) : events[handled[h]] = "completed"
    <3>1. tier' = tier
      BY <2>3 DEF ReceiveUpdated
    <3>2. \A c \in 1..Len(handled) : events[c] # "completed"
      BY <1>2, <2>3 DEF InOrder
    <3>3. ~PaidBy(Len(handled))
      BY <3>2 DEF PaidBy
    <3> QED
      BY <1>1, <1>2, <2>1, <3>1, <3>3, PaidByNext
  <2> QED
    BY <2>2, <2>3
<1> QED
  BY <1>1, <1>2, HandlingKeeps

LEMMA SubscriptionStep == SubscriptionInv /\ (SubscriptionNext \/ UNCHANGED subscriptionVars) => SubscriptionInv'
<1>1. SubscriptionInv /\ UNCHANGED subscriptionVars => SubscriptionInv'
  BY DEF SubscriptionInv, subscriptionVars, InOrder, PaidBy
<1>2. ASSUME SubscriptionInv, NEW i \in 1..Len(events), ReceiveCompleted(i) PROVE SubscriptionInv'
  BY <1>2 DEF SubscriptionInv, ReceiveCompleted, InOrder, PaidBy
<1> QED
  BY <1>1, <1>2, ReportEventKeeps, SaveTierKeeps, ReceiveUpdatedKeeps DEF SubscriptionNext

LEMMA CommerceFollows == CouponInv /\ PayoutInv /\ SubscriptionInv => LimitsHold
<1>1. ASSUME CouponInv, ~editRaced PROVE granted = usageCount /\ granted < MaxUsage + Cardinality(Buyer)
  <2>1. Incrementing \in SUBSET Buyer
    BY DEF Incrementing
  <2>2. Cardinality(Incrementing) \in Nat
    BY <2>1, CouponConstants
  <2> QED
    BY <1>1, <2>2, CouponConstants DEF CouponInv
<1> QED
  BY <1>1 DEF LimitsHold, PayoutInv, PayoutFits, SubscriptionInv

----------------------------------------------------------------------------
(* The forum.                                                              *)

Vote == {"none", "up", "down"}
PostRow == [up : Nat, down : Nat, answer : Nat]
FindState == [at : {"find_vote"}, user : User, dir : Vote, row : PostRow]
VoteState == [at : {"save_vote", "save_post"}, user : User, dir : Vote, new : BOOLEAN, row : PostRow]
ReplyState == [at : {"clear", "save_reply"}, reply : Nat \ {0}, row : PostRow]
AnswerState == [at : {"save_post"}, row : PostRow]
PostingState == {NoPosting} \cup FindState \cup VoteState \cup ReplyState \cup AnswerState

Tally(v, x) == Cardinality({u \in User : v[u] = x})
Counted(row, v) == row.up = Tally(v, "up") /\ row.down = Tally(v, "down")
Marks(answer) == IF answer = 0 THEN {} ELSE {answer}
Shown(row) == Counted(row, votes) /\ answers = Marks(row.answer)

ForumTypes ==
  /\ post \in PostRow /\ votes \in [User -> Vote] /\ posting \in [Poster -> PostingState]
  /\ posts \in Nat /\ communityFaults \in Nat

\* What a request that is alone with the post holds.
PostingFits(k) ==
  /\ posting[k].at \in {"find_vote", "clear"} => posting[k].row = post
  /\ posting[k].at = "save_vote" =>
       /\ Counted(posting[k].row, [votes EXCEPT ![posting[k].user] = posting[k].dir])
       /\ posting[k].row.answer = post.answer
       /\ posting[k].new = TRUE => votes[posting[k].user] = "none"
  /\ posting[k].at = "save_reply" => answers = {} /\ Counted(posting[k].row, votes)
  /\ posting[k].at = "save_post" => Shown(posting[k].row)

OnePoster == \A j, k \in Poster : posting[j] # NoPosting /\ posting[k] # NoPosting => j = k
PostShown == (\A k \in Poster : posting[k].at \notin {"save_post", "save_reply"}) => Shown(post)
ForumClean == ~postRaced /\ communityFaults = 0

ForumInv ==
  /\ ForumTypes
  /\ ForumClean => OnePoster /\ PostShown /\ \A k \in Poster : PostingFits(k)

LEMMA PostingForms ==
  ASSUME NEW c \in PostingState
  PROVE  /\ c = NoPosting <=> c.at = "idle"
         /\ c.at = "find_vote" => c \in FindState
         /\ c.at = "save_vote" => c \in VoteState
         /\ c.at \in {"clear", "save_reply"} => c \in ReplyState
         /\ c # NoPosting => c.row \in PostRow
BY DEF PostingState, NoPosting, FindState, VoteState, ReplyState, AnswerState

\* A vote that changes moves one from a tally to another.
VoteMoves(v, old, d, w, x) ==
  /\ Tally(v, x) \in Nat /\ Tally(w, x) \in Nat
  /\ d = x => Tally(w, x) = Tally(v, x) + 1
  /\ old = x => Tally(v, x) > 0 /\ Tally(w, x) = Tally(v, x) - 1
  /\ d # x /\ old # x => Tally(w, x) = Tally(v, x)

LEMMA TallyMoves ==
  ASSUME NEW v \in [User -> Vote], NEW u \in User, NEW d \in Vote, v[u] # d, NEW x \in {"up", "down"}
  PROVE  VoteMoves(v, v[u], d, [v EXCEPT ![u] = d], x)
<1>0. PICK w : w = [v EXCEPT ![u] = d]
  OBVIOUS
<1> DEFINE before == {t \in User : v[t] = x}
           after == {t \in User : w[t] = x}
<1>1. IsFiniteSet(before) /\ IsFiniteSet(after)
  BY CommunityAssumption, FS_Subset
<1>2. Cardinality(before) \in Nat /\ Cardinality(after) \in Nat
  BY <1>1, FS_CardinalityType
<1>3. ASSUME d = x PROVE Cardinality(after) = Cardinality(before) + 1
  <2>1. u \notin before /\ after = before \cup {u}
    BY <1>0, <1>3
  <2> QED
    BY <1>1, <2>1, FS_AddElement
<1>4. ASSUME v[u] = x PROVE Cardinality(before) = Cardinality(after) + 1
  <2>1. u \notin after /\ before = after \cup {u}
    BY <1>0, <1>4
  <2> QED
    BY <1>1, <2>1, FS_AddElement
<1>5. ASSUME d # x, v[u] # x PROVE after = before
  BY <1>0, <1>5
<1>6. Tally(v, x) = Cardinality(before) /\ Tally(w, x) = Cardinality(after)
  BY DEF Tally
<1> HIDE DEF before, after
<1>7. VoteMoves(v, v[u], d, w, x)
  BY <1>2, <1>3, <1>4, <1>5, <1>6 DEF VoteMoves
<1> QED
  BY <1>0, <1>7

\* The counters that a request computes are those after its vote.
LEMMA VotesCounted ==
  ASSUME NEW row \in PostRow, NEW v \in [User -> Vote], NEW u \in User, NEW d \in Vote
  PROVE  /\ VoteCounted(row, v[u], d) \in PostRow
         /\ VoteCounted(row, v[u], d).answer = row.answer
         /\ Counted(row, v) => Counted(VoteCounted(row, v[u], d), [v EXCEPT ![u] = d])
<1> DEFINE up == IF v[u] = d THEN row.up ELSE IF d = "up" THEN row.up + 1 ELSE IF v[u] = "up" THEN Less(row.up) ELSE row.up
           down == IF v[u] = d THEN row.down
                   ELSE IF d = "down" THEN row.down + 1 ELSE IF v[u] = "down" THEN Less(row.down) ELSE row.down
           raised == [row EXCEPT !.up = up]
           both == [raised EXCEPT !.down = down]
<1>1. row.up \in Nat /\ row.down \in Nat
  BY DEF PostRow
<1>2. up \in Nat /\ down \in Nat
  BY <1>1 DEF Less
<1>3. VoteCounted(row, v[u], d) = both
  BY DEF VoteCounted, PostRow
<1>4. Counted(row, v) => up = Tally([v EXCEPT ![u] = d], "up") /\ down = Tally([v EXCEPT ![u] = d], "down")
  <2> SUFFICES ASSUME Counted(row, v) PROVE up = Tally([v EXCEPT ![u] = d], "up") /\ down = Tally([v EXCEPT ![u] = d], "down")
    OBVIOUS
  <2>1. PICK w : w = [v EXCEPT ![u] = d]
    OBVIOUS
  <2>2. CASE v[u] = d
    <3>1. w = v
      BY <2>1, <2>2
    <3> QED
      BY <2>1, <2>2, <3>1 DEF Counted
  <2>3. CASE v[u] # d
    <3>1. VoteMoves(v, v[u], d, w, "up") /\ VoteMoves(v, v[u], d, w, "down")
      <4>1. \A x \in {"up", "down"} : VoteMoves(v, v[u], d, [v EXCEPT ![u] = d], x)
        BY <2>3, TallyMoves, Zenon
      <4> QED
        BY <2>1, <4>1
    <3>2. up = Tally(w, "up")
      <4>1. /\ Tally(v, "up") \in Nat
            /\ d = "up" => Tally(w, "up") = Tally(v, "up") + 1
            /\ v[u] = "up" => Tally(v, "up") > 0 /\ Tally(w, "up") = Tally(v, "up") - 1
            /\ d # "up" /\ v[u] # "up" => Tally(w, "up") = Tally(v, "up")
        BY <3>1 DEF VoteMoves
      <4> QED
        BY <1>1, <2>3, <4>1 DEF Counted, Less
    <3>3. down = Tally(w, "down")
      <4>1. /\ Tally(v, "down") \in Nat
            /\ d = "down" => Tally(w, "down") = Tally(v, "down") + 1
            /\ v[u] = "down" => Tally(v, "down") > 0 /\ Tally(w, "down") = Tally(v, "down") - 1
            /\ d # "down" /\ v[u] # "down" => Tally(w, "down") = Tally(v, "down")
        BY <3>1 DEF VoteMoves
      <4> QED
        BY <1>1, <2>3, <4>1 DEF Counted, Less
    <3> QED
      BY <2>1, <3>2, <3>3
  <2> QED
    BY <2>2, <2>3
<1> HIDE DEF up, down
<1>5. raised \in PostRow /\ raised.up = up /\ raised.down = row.down /\ raised.answer = row.answer
  BY <1>2 DEF PostRow
<1> HIDE DEF raised
<1>6. both \in PostRow /\ both.up = raised.up /\ both.down = down /\ both.answer = raised.answer
  BY <1>2, <1>5 DEF PostRow
<1> HIDE DEF both
<1>7. Counted(row, v) => Counted(both, [v EXCEPT ![u] = d])
  BY <1>4, <1>5, <1>6 DEF Counted
<1> QED
  BY <1>3, <1>5, <1>6, <1>7

LEMMA ForumStart == CommunityInit => ForumInv
<1> SUFFICES ASSUME CommunityInit PROVE ForumInv
  OBVIOUS
<1>1. ForumTypes
  BY DEF CommunityInit, ForumTypes, PostRow, Vote, PostingState
<1>2. Tally(votes, "up") = 0 /\ Tally(votes, "down") = 0
  <2>1. {u \in User : votes[u] = "up"} = {} /\ {u \in User : votes[u] = "down"} = {}
    BY DEF CommunityInit
  <2> QED
    BY <2>1, FS_EmptySet DEF Tally
<1>3. Shown(post)
  BY <1>2 DEF CommunityInit, Shown, Counted, Marks
<1>4. OnePoster /\ \A k \in Poster : PostingFits(k)
  BY DEF CommunityInit, OnePoster, PostingFits, NoPosting
<1> QED
  BY <1>1, <1>3, <1>4 DEF ForumInv, PostShown

\* A request begins: alone, it holds the post as it is.
LEMMA HoldPostKeeps ==
  ASSUME ForumInv, NEW k \in Poster, NEW c \in FindState \cup ReplyState, HoldPost(k, c), c.row = post, c.at \in {"find_vote", "clear"},
         UNCHANGED <<post, votes, answers, communityFaults>>
  PROVE  ForumInv'
<1>1. /\ posting' = [posting EXCEPT ![k] = c] /\ posting[k] = NoPosting /\ posting \in [Poster -> PostingState]
      /\ posts' = posts + 1
  BY DEF HoldPost, Post, ForumInv, ForumTypes
<1>2. ForumTypes'
  BY <1>1 DEF ForumInv, ForumTypes, PostingState
<1>3. posting'[k] = c /\ \A j \in Poster : j # k => posting'[j] = posting[j]
  BY <1>1
<1>4. ASSUME ForumClean' PROVE (OnePoster /\ PostShown /\ \A j \in Poster : PostingFits(j))'
  <2>1. ForumClean /\ \A j \in Poster : j # k => posting[j] = NoPosting
    BY <1>4 DEF ForumClean, HoldPost
  <2>2. \A j \in Poster : posting[j].at = "idle"
    BY <1>1, <2>1 DEF NoPosting
  <2>3. Shown(post)
    BY <2>1, <2>2 DEF ForumInv, PostShown
  <2>4. OnePoster'
    BY <1>3, <2>1 DEF OnePoster
  <2>5. PostShown'
    BY <2>3 DEF PostShown, Shown, Counted
  <2>6. ASSUME NEW j \in Poster PROVE PostingFits(j)'
    BY <1>3, <2>1, <2>2 DEF PostingFits
  <2> QED
    BY <2>4, <2>5, <2>6
<1> QED
  BY <1>2, <1>4 DEF ForumInv

\* A request that goes on or ends: what is left to show is about itself.
LEMMA PostMoves ==
  ASSUME ForumInv, NEW k \in Poster, posting[k] # NoPosting, NEW c \in PostingState,
         posting' = [posting EXCEPT ![k] = c], postRaced' = postRaced, posts' = posts, communityFaults' = communityFaults,
         post' \in PostRow, votes' \in [User -> Vote],
         ForumClean => PostingFits(k)' /\ (c.at \notin {"save_post", "save_reply"} => Shown(post)')
  PROVE  ForumInv'
<1>1. posting \in [Poster -> PostingState]
  BY DEF ForumInv, ForumTypes
<1>2. ForumTypes'
  BY <1>1 DEF ForumInv, ForumTypes
<1>3. posting'[k] = c /\ \A j \in Poster : j # k => posting'[j] = posting[j]
  BY <1>1
<1>4. ASSUME ForumClean' PROVE (OnePoster /\ PostShown /\ \A j \in Poster : PostingFits(j))'
  <2>1. ForumClean
    BY <1>4 DEF ForumClean
  <2>2. \A j \in Poster : j # k => posting[j] = NoPosting
    BY <2>1 DEF ForumInv, OnePoster
  <2>3. OnePoster'
    BY <1>3, <2>2 DEF OnePoster
  <2>4. PostShown'
    BY <1>3, <2>1 DEF PostShown
  <2>5. ASSUME NEW j \in Poster PROVE PostingFits(j)'
    <3>1. CASE j = k
      BY <2>1, <3>1
    <3>2. CASE j # k
      <4>1. posting'[j] = NoPosting
        BY <1>3, <2>2, <3>2
      <4> QED
        BY <4>1 DEF PostingFits, NoPosting
    <3> QED
      BY <3>1, <3>2
  <2> QED
    BY <2>3, <2>4, <2>5
<1> QED
  BY <1>2, <1>4 DEF ForumInv

LEMMA PostingFacts ==
  ASSUME ForumInv, NEW k \in Poster
  PROVE  /\ posting[k] \in PostingState /\ posting \in [Poster -> PostingState]
         /\ ForumClean => PostingFits(k)
         /\ ForumClean /\ posting[k] # NoPosting /\ posting[k].at \notin {"save_post", "save_reply"} => Shown(post)
<1>1. posting[k] \in PostingState /\ posting \in [Poster -> PostingState]
  BY DEF ForumInv, ForumTypes
<1>2. ASSUME ForumClean, posting[k] # NoPosting, posting[k].at \notin {"save_post", "save_reply"} PROVE Shown(post)
  <2>1. \A j \in Poster : j = k \/ posting[j] = NoPosting
    BY <1>2 DEF ForumInv, OnePoster
  <2>2. \A j \in Poster : posting[j].at \notin {"save_post", "save_reply"}
    BY <1>2, <2>1 DEF NoPosting
  <2> QED
    BY <1>2, <2>2 DEF ForumInv, PostShown
<1> QED
  BY <1>1, <1>2 DEF ForumInv

LEMMA FindVoteKeeps == ASSUME ForumInv, NEW k \in Poster, FindVote(k) PROVE ForumInv'
<1>1. PICK my : my = posting[k]
  OBVIOUS
<1>2. PICK old : old = votes[my.user]
  OBVIOUS
<1>3. my # NoPosting /\ my \in FindState /\ my.at = "find_vote" /\ my.user \in User /\ my.dir \in Vote /\ my.row \in PostRow
  BY <1>1, PostingFacts, PostingForms DEF FindVote, NoPosting, FindState
<1>4. PICK new \in BOOLEAN : new = (old = "none")
  OBVIOUS
<1>5. PICK at \in {"save_post", "save_vote"} : at = IF old = my.dir THEN "save_post" ELSE "save_vote"
  OBVIOUS
<1>6. PICK row : row = VoteCounted(my.row, old, my.dir)
  OBVIOUS
<1>7. PICK c : c = [at |-> at, user |-> my.user, dir |-> my.dir, new |-> new, row |-> row]
  OBVIOUS
<1>8. posting' = [posting EXCEPT ![k] = c]
  BY <1>1, <1>2, <1>4, <1>5, <1>6, <1>7, Zenon DEF FindVote, Post
<1>9. votes \in [User -> Vote] /\ old \in Vote /\ row \in PostRow /\ row.answer = my.row.answer
      /\ (Counted(my.row, votes) => Counted(row, [votes EXCEPT ![my.user] = my.dir]))
  <2>1. votes \in [User -> Vote] /\ old \in Vote
    BY <1>2, <1>3 DEF ForumInv, ForumTypes
  <2> QED
    BY <1>2, <1>3, <1>6, <2>1, VotesCounted
<1>10. /\ c \in VoteState /\ c.at = at /\ c.user = my.user /\ c.dir = my.dir /\ c.new = new /\ c.row = row
       /\ c \in PostingState /\ c.at \in {"save_post", "save_vote"}
  BY <1>3, <1>7, <1>9 DEF VoteState, PostingState
<1>11. UNCHANGED <<post, votes, answers, postRaced, posts, communityFaults>>
  BY DEF FindVote
<1>12. posting'[k] = c
  BY <1>8, PostingFacts
<1>13. ASSUME ForumClean PROVE PostingFits(k)' /\ (c.at \notin {"save_post", "save_reply"} => Shown(post)')
  <2>1. my.row = post /\ Shown(post)
    BY <1>1, <1>3, <1>13, PostingFacts DEF PostingFits
  <2>2. Counted(row, [votes EXCEPT ![my.user] = my.dir]) /\ row.answer = post.answer /\ answers = Marks(row.answer)
    BY <1>9, <2>1 DEF Shown
  <2>3. new = TRUE => old = "none"
    BY <1>4
  <2>4. at = "save_post" => [votes EXCEPT ![my.user] = my.dir] = votes
    BY <1>2, <1>5, <1>9
  <2>5. at = "save_post" => Shown(row)
    BY <2>2, <2>4 DEF Shown
  <2>6. \A r : (Shown(r)' <=> Shown(r)) /\ \A v : Counted(r, v)' <=> Counted(r, v)
    BY <1>11 DEF Shown, Counted
  <2>7. PostingFits(k)'
    <3>1. at = "save_vote" =>
            /\ Counted(row, [votes EXCEPT ![my.user] = my.dir])' /\ row.answer = post.answer
            /\ (new = TRUE => votes[my.user] = "none")
      BY <1>2, <1>11, <2>2, <2>3
    <3>2. at = "save_post" => Shown(row)'
      BY <2>5, <2>6
    <3> QED
      BY <1>10, <1>11, <1>12, <3>1, <3>2 DEF PostingFits
  <2>8. Shown(post)'
    BY <1>11, <2>1 DEF Shown, Counted
  <2> QED
    BY <2>7, <2>8
<1> QED
  BY <1>1, <1>3, <1>8, <1>10, <1>11, <1>13, PostMoves DEF ForumInv, ForumTypes

LEMMA SaveVoteKeeps == ASSUME ForumInv, NEW k \in Poster, SaveVote(k) PROVE ForumInv'
<1>1. PICK my : my = posting[k]
  OBVIOUS
<1>2. my # NoPosting /\ my \in VoteState /\ my.at = "save_vote" /\ my.user \in User /\ my.dir \in Vote /\ my.row \in PostRow
  BY <1>1, PostingFacts, PostingForms DEF SaveVote, NoPosting, VoteState
<1>3. post \in PostRow /\ votes \in [User -> Vote] /\ NoPosting \in PostingState
  BY DEF ForumInv, ForumTypes, PostingState
<1>4. UNCHANGED <<post, answers, postRaced, posts, communityFaults>>
  BY DEF SaveVote
<1>5. CASE my.new /\ votes[my.user] # "none"
  <2>1. posting' = [posting EXCEPT ![k] = NoPosting] /\ votes' = votes
    BY <1>1, <1>5 DEF SaveVote, Post
  <2>2. posting'[k] = NoPosting
    BY <2>1, PostingFacts
  <2>3. PostingFits(k)'
    BY <2>2 DEF PostingFits, NoPosting
  <2>4. ForumClean => Shown(post)'
    <3>1. ForumClean => Shown(post)
      BY <1>1, <1>2, PostingFacts
    <3> QED
      BY <1>4, <2>1, <3>1 DEF Shown, Counted
  <2> QED
    BY <1>1, <1>2, <1>3, <1>4, <2>1, <2>3, <2>4, PostMoves
<1>6. CASE ~(my.new /\ votes[my.user] # "none")
  <2>1. PICK c : c = [my EXCEPT !.at = "save_post"]
    OBVIOUS
  <2>2. posting' = [posting EXCEPT ![k] = c] /\ votes' = [votes EXCEPT ![my.user] = my.dir]
    BY <1>1, <1>6, <2>1 DEF SaveVote, Post
  <2>3. c \in VoteState /\ c.at = "save_post" /\ c.row = my.row /\ c \in PostingState
    BY <1>2, <2>1 DEF VoteState, PostingState
  <2>4. posting'[k] = c /\ votes' \in [User -> Vote]
    BY <1>2, <1>3, <2>2, PostingFacts
  <2>5. ASSUME ForumClean PROVE PostingFits(k)'
    <3>1. Counted(my.row, votes') /\ my.row.answer = post.answer /\ answers = Marks(my.row.answer)
      BY <1>1, <1>2, <2>2, <2>5, PostingFacts DEF PostingFits, Shown
    <3>2. Shown(my.row)'
      BY <1>4, <3>1 DEF Shown, Counted
    <3> QED
      BY <2>3, <2>4, <3>2 DEF PostingFits
  <2> QED
    BY <1>1, <1>2, <1>3, <1>4, <2>2, <2>3, <2>4, <2>5, PostMoves
<1> QED
  BY <1>5, <1>6

LEMMA SavePostKeeps == ASSUME ForumInv, NEW k \in Poster, SavePost(k) PROVE ForumInv'
<1>1. posting[k] # NoPosting /\ posting[k].row \in PostRow /\ NoPosting \in PostingState
  BY PostingFacts, PostingForms DEF SavePost, NoPosting, PostingState
<1>2. /\ posting' = [posting EXCEPT ![k] = NoPosting] /\ post' = posting[k].row
      /\ UNCHANGED <<votes, answers, postRaced, posts, communityFaults>>
  BY DEF SavePost, Post
<1>3. posting'[k] = NoPosting
  BY <1>2, PostingFacts
<1>4. PostingFits(k)'
  BY <1>3 DEF PostingFits, NoPosting
<1>5. ForumClean => Shown(post)'
  <2>1. ForumClean => Shown(posting[k].row)
    BY PostingFacts DEF PostingFits, SavePost
  <2> QED
    BY <1>2, <2>1 DEF Shown, Counted
<1> QED
  BY <1>1, <1>2, <1>4, <1>5, PostMoves DEF ForumInv, ForumTypes

LEMMA ClearAnswersKeeps == ASSUME ForumInv, NEW k \in Poster, ClearAnswers(k) PROVE ForumInv'
<1>1. PICK my : my = posting[k]
  OBVIOUS
<1>2. my # NoPosting /\ my.at = "clear" /\ my \in ReplyState
  BY <1>1, PostingFacts, PostingForms DEF ClearAnswers, NoPosting
<1>3. PICK c : c = [my EXCEPT !.at = "save_reply"]
  OBVIOUS
<1>4. c \in ReplyState /\ c.at = "save_reply" /\ c.row = my.row /\ c \in PostingState
  BY <1>2, <1>3 DEF ReplyState, PostingState
<1>5. /\ posting' = [posting EXCEPT ![k] = c] /\ answers' = {}
      /\ UNCHANGED <<post, votes, postRaced, posts, communityFaults>>
  BY <1>1, <1>3 DEF ClearAnswers, Post
<1>6. posting'[k] = c
  BY <1>5, PostingFacts
<1>7. ForumClean => PostingFits(k)'
  <2>1. ForumClean => Counted(my.row, votes)
    BY <1>1, <1>2, PostingFacts DEF PostingFits, Shown
  <2> QED
    BY <1>4, <1>5, <1>6, <2>1 DEF PostingFits, Counted
<1> QED
  BY <1>1, <1>2, <1>4, <1>5, <1>7, PostMoves DEF ForumInv, ForumTypes

LEMMA SaveReplyKeeps == ASSUME ForumInv, NEW k \in Poster, SaveReply(k) PROVE ForumInv'
<1>1. PICK my : my = posting[k]
  OBVIOUS
<1>2. my # NoPosting /\ my.at = "save_reply" /\ my \in ReplyState /\ my.reply \in Nat \ {0} /\ my.row \in PostRow
  BY <1>1, PostingFacts, PostingForms DEF SaveReply, NoPosting, ReplyState
<1>3. PICK row : row = [my.row EXCEPT !.answer = my.reply]
  OBVIOUS
<1>4. row \in PostRow /\ row.answer = my.reply /\ row.up = my.row.up /\ row.down = my.row.down
  BY <1>2, <1>3 DEF PostRow
<1>5. PICK c : c = [at |-> "save_post", row |-> row]
  OBVIOUS
<1>6. c \in AnswerState /\ c.at = "save_post" /\ c.row = row /\ c \in PostingState
  BY <1>4, <1>5 DEF AnswerState, PostingState
<1>7. /\ posting' = [posting EXCEPT ![k] = c] /\ answers' = answers \cup {my.reply}
      /\ UNCHANGED <<post, votes, postRaced, posts, communityFaults>>
  BY <1>1, <1>3, <1>5 DEF SaveReply, Post
<1>8. posting'[k] = c
  BY <1>7, PostingFacts
<1>9. ASSUME ForumClean PROVE PostingFits(k)'
  <2>1. answers = {} /\ Counted(my.row, votes)
    BY <1>1, <1>2, <1>9, PostingFacts DEF PostingFits
  <2>2. answers' = Marks(row.answer)
    BY <1>2, <1>4, <1>7, <2>1 DEF Marks
  <2>3. Shown(row)'
    BY <1>4, <1>7, <2>1, <2>2 DEF Shown, Counted
  <2> QED
    BY <1>6, <1>8, <2>3 DEF PostingFits
<1> QED
  BY <1>1, <1>2, <1>6, <1>7, <1>9, PostMoves DEF ForumInv, ForumTypes

LEMMA VotePostKeeps == ASSUME ForumInv, NEW k \in Poster, NEW u \in User, NEW d \in Vote, VotePost(k, u, d) PROVE ForumInv'
<1>1. PICK c : c = [at |-> "find_vote", user |-> u, dir |-> d, row |-> post]
  OBVIOUS
<1>2. c \in FindState /\ c.row = post /\ c.at = "find_vote"
  BY <1>1 DEF FindState, ForumInv, ForumTypes
<1>3. HoldPost(k, c) /\ UNCHANGED <<post, votes, answers, communityFaults>>
  BY <1>1 DEF VotePost
<1> QED
  BY <1>2, <1>3, HoldPostKeeps

LEMMA ReplyWithAnswerKeeps == ASSUME ForumInv, NEW k \in Poster, ReplyWithAnswer(k) PROVE ForumInv'
<1>1. PICK c : c = [at |-> "clear", reply |-> posts + 1, row |-> post]
  OBVIOUS
<1>2. c \in ReplyState /\ c.row = post /\ c.at = "clear"
  BY <1>1 DEF ReplyState, ForumInv, ForumTypes
<1>3. HoldPost(k, c) /\ UNCHANGED <<post, votes, answers, communityFaults>>
  BY <1>1 DEF ReplyWithAnswer
<1> QED
  BY <1>2, <1>3, HoldPostKeeps

LEMMA ForumStep ==
  ASSUME ForumInv,
         ForumNext \/ (UNCHANGED forumVars /\ communityFaults' \in {communityFaults, communityFaults + 1})
  PROVE  ForumInv'
<1>1. communityFaults \in Nat /\ posting \in [Poster -> PostingState] /\ NoPosting \in PostingState
  BY DEF ForumInv, ForumTypes, PostingState
<1>2. CASE UNCHANGED forumVars /\ communityFaults' \in {communityFaults, communityFaults + 1}
  <2>1. ForumTypes'
    BY <1>1, <1>2 DEF ForumInv, ForumTypes, forumVars
  <2>2. ForumClean' => ForumClean
    BY <1>1, <1>2 DEF ForumClean, forumVars
  <2>3. \A r : (Shown(r)' <=> Shown(r)) /\ \A v : Counted(r, v)' <=> Counted(r, v)
    BY <1>2 DEF Shown, Counted, forumVars
  <2>4. \A j \in Poster : PostingFits(j) => PostingFits(j)'
    BY <1>2, <2>3 DEF PostingFits, forumVars, Shown, Counted
  <2>5. OnePoster /\ PostShown => (OnePoster /\ PostShown)'
    BY <1>2 DEF OnePoster, PostShown, forumVars, Shown, Counted
  <2> QED
    BY <2>1, <2>2, <2>4, <2>5 DEF ForumInv
<1>3. ASSUME NEW k \in Poster, communityFaults' = communityFaults + 1, Post(k, NoPosting),
             UNCHANGED <<post, votes, answers, postRaced, posts>>
      PROVE  ForumInv'
  <2>1. ForumTypes'
    BY <1>1, <1>3 DEF ForumInv, ForumTypes, Post
  <2>2. ~ForumClean'
    BY <1>1, <1>3 DEF ForumClean
  <2> QED
    BY <2>1, <2>2 DEF ForumInv
<1> QED
  BY <1>2, <1>3, VotePostKeeps, FindVoteKeeps, SaveVoteKeeps, SavePostKeeps, ReplyWithAnswerKeeps, ClearAnswersKeeps, SaveReplyKeeps
     DEF ForumNext, Vote, Direction

LEMMA ForumFollows ==
  ASSUME ForumInv, \A k \in Poster : posting[k] = NoPosting, ~postRaced, communityFaults = 0
  PROVE  /\ post.up = Cardinality({u \in User : votes[u] = "up"})
         /\ post.down = Cardinality({u \in User : votes[u] = "down"})
         /\ answers = IF post.answer = 0 THEN {} ELSE {post.answer}
<1>1. Shown(post)
  BY DEF ForumInv, ForumClean, PostShown, NoPosting
<1> QED
  BY <1>1 DEF Shown, Counted, Tally, Marks

----------------------------------------------------------------------------
(* Assignments.                                                            *)

SubmissionRow == [instructor : Grade \cup {NoGrade}, final : SUBSET (Reviewer \cup Grade \cup {NoGrade})]
AssignState == [at : {"assign", "calculate"}]
ReviewState == [at : {"save_review"}, reviewer : Reviewer, deleted : BOOLEAN]
SaveState == [at : {"save"}, row : SubmissionRow]
UpdateState == [at : {"update"}, row : SubmissionRow, seen : SubmissionRow]
GradingState == {NoGrading} \cup AssignState \cup ReviewState \cup SaveState \cup UpdateState

Whole(row) == row.instructor = NoGrade \/ row.final = {row.instructor}
Kept(row) == gradesTorn = TRUE \/ Whole(row)
Peers == IF Submitted = {} THEN {NoGrade} ELSE Submitted
Agreed(row) == row.instructor # NoGrade \/ row.final = Peers

GradingFits(k) ==
  /\ grading[k].at = "save_review" => grading[k].deleted = FALSE
  /\ grading[k].at = "calculate" => Submitted # {}
  /\ grading[k].at \in {"save", "update"} => Agreed(grading[k].row)
  /\ grading[k].at = "update" => grading[k].seen = submission

OneGrader == \A j, k \in Grader : grading[j] # NoGrading /\ grading[k] # NoGrading => j = k
GradeStands == (\A k \in Grader : grading[k].at \notin {"calculate", "save", "update"}) => Agreed(submission)
GradingClean == ~gradeRaced /\ communityFaults = 0

\* Every copy keeps the instructor's grade final, and so does the row until a
\* save is mixed with another; alone with the submission, a request saves a
\* grade that agrees with the reviews.
GradeInv ==
  /\ submission \in SubmissionRow /\ gradesTorn \in BOOLEAN /\ Kept(submission)
  /\ reviews \in [Reviewer -> {"none", "assigned", "submitted"}] /\ grading \in [Grader -> GradingState]
  /\ communityFaults \in Nat
  /\ \A k \in Grader : grading[k].at \in {"save", "update"} => Kept(grading[k].row)
  /\ GradingClean => OneGrader /\ GradeStands /\ \A k \in Grader : GradingFits(k)

LEMMA GradingForms ==
  ASSUME NEW c \in GradingState
  PROVE  /\ c = NoGrading <=> c.at = "idle"
         /\ c.at = "save_review" => c \in ReviewState
         /\ c.at = "save" => c \in SaveState
         /\ c.at = "update" => c \in UpdateState
BY DEF GradingState, NoGrading, AssignState, ReviewState, SaveState, UpdateState

LEMMA GradeStart == CommunityInit => GradeInv
<1> SUFFICES ASSUME CommunityInit PROVE GradeInv
  OBVIOUS
<1>1. Submitted = {}
  BY DEF CommunityInit, Submitted
<1>2. Agreed(submission) /\ Whole(submission)
  BY <1>1 DEF CommunityInit, Agreed, Peers, Whole
<1>3. submission \in SubmissionRow
  BY DEF CommunityInit, SubmissionRow
<1>4. grading \in [Grader -> GradingState] /\ \A k \in Grader : grading[k] = NoGrading
  BY DEF CommunityInit, GradingState
<1> QED
  BY <1>2, <1>3, <1>4 DEF CommunityInit, GradeInv, OneGrader, GradeStands, GradingFits, NoGrading, Kept

\* What a request does with its own state, and with the rows: the cases that
\* are left are those of a request alone.
LEMMA GradingMoves ==
  ASSUME GradeInv, NEW k \in Grader, NEW c \in GradingState, grading' = [grading EXCEPT ![k] = c],
         communityFaults' = communityFaults, gradeRaced => gradeRaced',
         grading[k] = NoGrading /\ ~gradeRaced' => \A j \in Grader : j = k \/ grading[j] = NoGrading,
         gradesTorn' \in BOOLEAN, gradesTorn = TRUE => gradesTorn' = TRUE,
         submission' \in SubmissionRow, Kept(submission)', reviews' \in [Reviewer -> {"none", "assigned", "submitted"}],
         c.at \in {"save", "update"} => gradesTorn' = TRUE \/ Whole(c.row),
         GradingClean /\ GradingClean' => GradingFits(k)' /\ (c.at \notin {"calculate", "save", "update"} => Agreed(submission)')
  PROVE  GradeInv'
<1>1. grading \in [Grader -> GradingState] /\ grading' \in [Grader -> GradingState]
  BY DEF GradeInv
<1>2. grading'[k] = c /\ \A j \in Grader : j # k => grading'[j] = grading[j]
  BY <1>1
<1>3. \A j \in Grader : grading'[j].at \in {"save", "update"} => gradesTorn' = TRUE \/ Whole(grading'[j].row)
  BY <1>2 DEF GradeInv, Kept
<1>4. ASSUME NEW j \in Grader, grading'[j].at \in {"save", "update"} PROVE Kept(grading[j].row)'
  BY <1>3, <1>4 DEF Whole, Kept
<1>5. ASSUME GradingClean' PROVE (OneGrader /\ GradeStands /\ \A j \in Grader : GradingFits(j))'
  <2>1. GradingClean
    BY <1>5 DEF GradingClean
  <2>2. \A j \in Grader : j = k \/ grading[j] = NoGrading
    BY <1>5, <2>1 DEF GradingClean, GradeInv, OneGrader
  <2>3. OneGrader'
    BY <1>2, <2>2 DEF OneGrader
  <2>4. GradeStands'
    BY <1>2, <1>5, <2>1 DEF GradeStands
  <2>5. ASSUME NEW j \in Grader PROVE GradingFits(j)'
    <3>1. CASE j = k
      BY <1>5, <2>1, <3>1
    <3>2. CASE j # k
      <4>1. grading'[j] = NoGrading
        BY <1>2, <2>2, <3>2
      <4> QED
        BY <4>1 DEF GradingFits, NoGrading
    <3> QED
      BY <3>1, <3>2
  <2> QED
    BY <2>3, <2>4, <2>5
<1> QED
  BY <1>1, <1>4, <1>5 DEF GradeInv

LEMMA GradingFacts ==
  ASSUME GradeInv, NEW k \in Grader
  PROVE  /\ grading[k] \in GradingState /\ grading \in [Grader -> GradingState]
         /\ submission \in SubmissionRow /\ gradesTorn \in BOOLEAN /\ Kept(submission)
         /\ reviews \in [Reviewer -> {"none", "assigned", "submitted"}]
         /\ grading[k].at \in {"save", "update"} => Kept(grading[k].row)
         /\ GradingClean => GradingFits(k)
         /\ GradingClean /\ grading[k] # NoGrading /\ grading[k].at \notin {"calculate", "save", "update"} => Agreed(submission)
         /\ GradingClean /\ (\A j \in Grader : grading[j] = NoGrading) => Agreed(submission)
<1>1. grading[k] \in GradingState /\ grading \in [Grader -> GradingState]
  BY DEF GradeInv
<1>2. ASSUME GradingClean, grading[k] # NoGrading, grading[k].at \notin {"calculate", "save", "update"} PROVE Agreed(submission)
  <2>1. \A j \in Grader : j = k \/ grading[j] = NoGrading
    BY <1>2 DEF GradeInv, OneGrader
  <2>2. \A j \in Grader : grading[j].at \notin {"calculate", "save", "update"}
    BY <1>2, <2>1 DEF NoGrading
  <2> QED
    BY <1>2, <2>2 DEF GradeInv, GradeStands
<1>3. ASSUME GradingClean, \A j \in Grader : grading[j] = NoGrading PROVE Agreed(submission)
  BY <1>3 DEF GradeInv, GradeStands, NoGrading
<1> QED
  BY <1>1, <1>2, <1>3 DEF GradeInv

\* A request begins with the row as it is, or with what it will save.
LEMMA BeginGradingKeeps ==
  ASSUME GradeInv, NEW k \in Grader, NEW c \in GradingState, BeginGrading(k, c), c # NoGrading,
         UNCHANGED <<submission, reviews, gradesTorn, communityFaults>>,
         c.at = "save" => Kept(c.row),
         c.at \notin {"calculate", "update"}, c.at = "save_review" => c.deleted = FALSE,
         c.at = "save" /\ Agreed(submission) => Agreed(c.row)
  PROVE  GradeInv'
<1>1. /\ grading' = [grading EXCEPT ![k] = c] /\ grading[k] = NoGrading
      /\ gradeRaced => gradeRaced'
      /\ ~gradeRaced' => \A j \in Grader : j = k \/ grading[j] = NoGrading
  BY DEF BeginGrading, Mark, Race
<1>2. grading'[k] = c
  BY <1>1, GradingFacts
<1>3. Peers' = Peers /\ Submitted' = Submitted
  BY DEF Peers, Submitted
<1>4. ASSUME GradingClean, GradingClean' PROVE GradingFits(k)' /\ Agreed(submission)'
  <2>1. Agreed(submission)
    BY <1>1, <1>4, GradingFacts DEF GradingClean
  <2>2. c.at = "save" => Agreed(c.row)'
    BY <1>3, <2>1 DEF Agreed
  <2>3. Agreed(submission)'
    BY <1>3, <2>1 DEF Agreed
  <2>4. c.at = "save" => Agreed(grading[k].row)'
    BY <1>2, <1>3, <2>2 DEF Agreed
  <2> QED
    BY <1>2, <2>3, <2>4 DEF GradingFits
<1>5. submission' \in SubmissionRow /\ Kept(submission)' /\ reviews' \in [Reviewer -> {"none", "assigned", "submitted"}]
  BY GradingFacts DEF Whole, Kept
<1>6. c.at \in {"save", "update"} => gradesTorn' = TRUE \/ Whole(c.row)
  BY DEF Kept
<1>7. gradesTorn' \in BOOLEAN /\ gradesTorn' = gradesTorn
  BY GradingFacts
<1> QED
  BY <1>1, <1>4, <1>5, <1>6, <1>7, GradingMoves

\* The reviews that are deleted were not submitted; those requests that have
\* found one race.
LEMMA AssignReviewersKeeps == ASSUME GradeInv, NEW k \in Grader, AssignReviewers(k) PROVE GradeInv'
<1>1. PICK c : c = [at |-> "assign"]
  OBVIOUS
<1>2. c \in GradingState /\ c.at = "assign" /\ c # NoGrading
  BY <1>1 DEF GradingState, AssignState, NoGrading
<1>3. /\ grading[k] = NoGrading /\ UNCHANGED <<submission, gradesTorn, communityFaults>>
      /\ gradeRaced => gradeRaced'
      /\ ~gradeRaced' => \A j \in Grader : j = k \/ grading[j] = NoGrading
  BY DEF AssignReviewers, Race
<1>4. reviews' \in [Reviewer -> {"none", "assigned", "submitted"}] /\ \A r \in Reviewer : reviews'[r] = "submitted" <=> reviews[r] = "submitted"
  BY DEF AssignReviewers, GradeInv
<1>5. Submitted' = Submitted /\ Peers' = Peers
  <2>1. Submitted' = Submitted
    BY <1>4 DEF Submitted
  <2> QED
    BY <2>1 DEF Peers
<1>6. ASSUME NEW j \in Grader
      PROVE  /\ grading'[j] \in GradingState
             /\ grading'[j].at \in {"save", "update"} => grading'[j] = grading[j]
             /\ (j # k /\ grading[j] = NoGrading) => grading'[j] = NoGrading
             /\ j = k => grading'[j] = c
  <2>1. PICK my : my = grading[j]
    OBVIOUS
  <2>2. CASE j = k
    BY <1>1, <1>2, <2>2 DEF AssignReviewers
  <2>3. CASE j # k /\ my.at = "save_review" /\ reviews[my.reviewer] = "assigned"
    <3>1. my \in ReviewState
      BY <2>1, <2>3, GradingFacts, GradingForms
    <3>2. PICK d : d = [my EXCEPT !.deleted = TRUE]
      OBVIOUS
    <3>3. d \in ReviewState /\ d.at = "save_review" /\ d \in GradingState
      BY <3>1, <3>2 DEF ReviewState, GradingState
    <3>4. grading'[j] = d
      BY <2>1, <2>3, <3>2 DEF AssignReviewers
    <3> QED
      BY <2>1, <2>3, <3>3, <3>4 DEF NoGrading
  <2>4. CASE j # k /\ ~(my.at = "save_review" /\ reviews[my.reviewer] = "assigned")
    <3>1. grading'[j] = grading[j]
      BY <2>1, <2>4 DEF AssignReviewers
    <3> QED
      BY <2>4, <3>1, GradingFacts
  <2> QED
    BY <2>2, <2>3, <2>4
<1>7. grading' \in [Grader -> GradingState]
  BY <1>6 DEF AssignReviewers
<1>8. ASSUME NEW j \in Grader, grading'[j].at \in {"save", "update"} PROVE Kept(grading[j].row)'
  <2>1. grading'[j] = grading[j] /\ Kept(grading[j].row)
    BY <1>6, <1>8, GradingFacts
  <2> QED
    BY <1>3, <2>1 DEF Kept, Whole
<1>9. ASSUME GradingClean' PROVE (OneGrader /\ GradeStands /\ \A j \in Grader : GradingFits(j))'
  <2>1. GradingClean /\ \A j \in Grader : grading[j] = NoGrading
    BY <1>3, <1>9 DEF GradingClean
  <2>2. Agreed(submission)
    BY <2>1, GradingFacts
  <2>3. Agreed(submission)'
    BY <1>3, <1>5, <2>2 DEF Agreed
  <2>4. \A j \in Grader : grading'[j] = IF j = k THEN c ELSE NoGrading
    BY <1>6, <2>1
  <2> QED
    BY <1>2, <2>3, <2>4 DEF OneGrader, GradeStands, GradingFits, NoGrading
<1>10. submission' \in SubmissionRow /\ gradesTorn' \in BOOLEAN /\ Kept(submission)' /\ communityFaults' \in Nat
  BY <1>3 DEF GradeInv, Whole, Kept
<1> QED
  BY <1>4, <1>7, <1>8, <1>9, <1>10 DEF GradeInv

LEMMA SaveAssignedKeeps == ASSUME GradeInv, NEW k \in Grader, SaveAssigned(k) PROVE GradeInv'
<1>1. /\ grading[k] # NoGrading /\ grading[k].at = "assign" /\ NoGrading \in GradingState
      /\ grading' = [grading EXCEPT ![k] = NoGrading] /\ UNCHANGED <<submission, gradeRaced, gradesTorn, communityFaults>>
  BY DEF SaveAssigned, NoGrading, Mark, GradingState
<1>2. reviews' \in [Reviewer -> {"none", "assigned", "submitted"}] /\ Submitted' = Submitted
  BY DEF SaveAssigned, Submitted, GradeInv
<1>3. grading'[k] = NoGrading /\ NoGrading.at = "idle"
  BY <1>1, GradingFacts DEF NoGrading
<1>4. GradingClean => Agreed(submission)'
  <2>1. GradingClean => Agreed(submission)
    BY <1>1, GradingFacts
  <2> QED
    BY <1>1, <1>2, <2>1 DEF Agreed, Peers
<1>5. GradingFits(k)' /\ Kept(submission)'
  BY <1>1, <1>3, GradingFacts DEF GradingFits, Whole, Kept
<1> QED
  BY <1>1, <1>2, <1>3, <1>4, <1>5, GradingMoves, GradingFacts

LEMMA SubmitPeerReviewKeeps ==
  ASSUME GradeInv, NEW k \in Grader, NEW r \in Reviewer, SubmitPeerReview(k, r) PROVE GradeInv'
<1>1. PICK c : c = [at |-> "save_review", reviewer |-> r, deleted |-> FALSE]
  OBVIOUS
<1>2. c \in ReviewState /\ c.at = "save_review" /\ c.deleted = FALSE
  BY <1>1 DEF ReviewState
<1>3. c \in GradingState /\ c # NoGrading
  BY <1>2 DEF GradingState, NoGrading
<1>4. BeginGrading(k, c) /\ UNCHANGED <<submission, reviews, gradesTorn, communityFaults>>
  BY <1>1 DEF SubmitPeerReview
<1> QED
  BY <1>2, <1>3, <1>4, BeginGradingKeeps

LEMMA SaveReviewKeeps == ASSUME GradeInv, NEW k \in Grader, SaveReview(k) PROVE GradeInv'
<1>1. PICK my : my = grading[k]
  OBVIOUS
<1>2. /\ my # NoGrading /\ my.at = "save_review" /\ my \in ReviewState /\ my.reviewer \in Reviewer
      /\ NoGrading \in GradingState /\ NoGrading.at = "idle"
  BY <1>1, GradingFacts, GradingForms DEF SaveReview, NoGrading, ReviewState, GradingState
<1>3. /\ UNCHANGED <<submission, gradeRaced, gradesTorn, communityFaults>> /\ gradesTorn' \in BOOLEAN
      /\ submission' \in SubmissionRow /\ Kept(submission)'
  BY GradingFacts DEF SaveReview, Whole, Kept
<1>4. CASE my.deleted /\ reviews[my.reviewer] # "none"
  <2>1. grading' = [grading EXCEPT ![k] = NoGrading] /\ reviews' = reviews
    BY <1>1, <1>4 DEF SaveReview, Mark
  <2>2. ~GradingClean
    BY <1>1, <1>2, <1>4, GradingFacts DEF GradingFits
  <2> QED
    BY <1>1, <1>2, <1>3, <2>1, <2>2, GradingMoves, GradingFacts
<1>5. CASE ~(my.deleted /\ reviews[my.reviewer] # "none")
  <2>1. PICK c : c = [at |-> "calculate"]
    OBVIOUS
  <2>2. c \in GradingState /\ c.at = "calculate"
    BY <2>1 DEF GradingState, AssignState
  <2>3. grading' = [grading EXCEPT ![k] = c] /\ reviews' = [reviews EXCEPT ![my.reviewer] = "submitted"]
    BY <1>1, <1>5, <2>1 DEF SaveReview, Mark
  <2>4. reviews' \in [Reviewer -> {"none", "assigned", "submitted"}] /\ reviews'[my.reviewer] = "submitted"
    BY <1>2, <2>3, GradingFacts
  <2>5. Submitted' # {}
    BY <1>2, <2>4 DEF Submitted
  <2>6. grading'[k] = c
    BY <2>3, GradingFacts
  <2>7. GradingFits(k)'
    BY <2>2, <2>5, <2>6 DEF GradingFits
  <2> QED
    BY <1>1, <1>2, <1>3, <2>2, <2>3, <2>4, <2>7, GradingMoves
<1> QED
  BY <1>4, <1>5

LEMMA CalculateFinalGradeKeeps == ASSUME GradeInv, NEW k \in Grader, CalculateFinalGrade(k) PROVE GradeInv'
<1>1. PICK row : row = [submission EXCEPT !.final = FinalGrade]
  OBVIOUS
<1>2. PICK c : c = [at |-> "save", row |-> row]
  OBVIOUS
<1>3. /\ grading[k] # NoGrading /\ grading[k].at = "calculate" /\ grading' = [grading EXCEPT ![k] = c]
      /\ UNCHANGED <<submission, reviews, gradeRaced, gradesTorn, communityFaults>>
  BY <1>1, <1>2 DEF CalculateFinalGrade, Mark, NoGrading
<1>4. submission \in SubmissionRow
  BY GradingFacts
<1>5. /\ row \in SubmissionRow /\ row.instructor = submission.instructor
      /\ row.instructor # NoGrade => row.final = {row.instructor}
      /\ row.instructor = NoGrade => row.final = Submitted
  BY <1>1, <1>4 DEF SubmissionRow, FinalGrade, Submitted
<1>6. c \in SaveState /\ c.at = "save" /\ c.row = row /\ c \in GradingState /\ Whole(row)
  BY <1>2, <1>5 DEF SaveState, GradingState, Whole
<1>7. grading'[k] = c
  BY <1>3, GradingFacts
<1>8. GradingClean => GradingFits(k)'
  <2>1. GradingClean => Submitted # {}
    BY <1>3, GradingFacts DEF GradingFits
  <2>2. GradingClean => Agreed(row)
    BY <1>5, <2>1 DEF Agreed, Peers
  <2>3. Agreed(row) => Agreed(row)'
    BY <1>3 DEF Agreed, Peers, Submitted
  <2>4. GradingClean => Agreed(grading[k].row)'
    BY <1>6, <1>7, <2>2, <2>3 DEF Agreed
  <2> QED
    BY <1>6, <1>7, <2>4 DEF GradingFits
<1>9. /\ submission' \in SubmissionRow /\ Kept(submission)' /\ gradesTorn' \in BOOLEAN
      /\ reviews' \in [Reviewer -> {"none", "assigned", "submitted"}]
  BY <1>3, GradingFacts DEF Whole, Kept
<1> QED
  BY <1>3, <1>6, <1>8, <1>9, GradingMoves

LEMMA SavesBegin ==
  ASSUME GradeInv, NEW k \in Grader, NEW row \in SubmissionRow, Kept(row), Agreed(submission) => Agreed(row),
         BeginGrading(k, [at |-> "save", row |-> row]), UNCHANGED <<submission, reviews, gradesTorn, communityFaults>>
  PROVE  GradeInv'
<1>1. PICK c : c = [at |-> "save", row |-> row]
  OBVIOUS
<1>2. c \in SaveState /\ c.at = "save" /\ c.row = row
  BY <1>1 DEF SaveState
<1>3. c \in GradingState /\ c # NoGrading
  BY <1>2 DEF GradingState, NoGrading
<1>4. BeginGrading(k, c)
  BY <1>1
<1> QED
  BY <1>2, <1>3, <1>4, BeginGradingKeeps

LEMMA InstructorOverrideKeeps ==
  ASSUME GradeInv, NEW k \in Grader, NEW g \in Grade, InstructorOverride(k, g) PROVE GradeInv'
<1>1. PICK row : row = [instructor |-> g, final |-> {g}]
  OBVIOUS
<1>2. row \in SubmissionRow /\ Kept(row) /\ Agreed(row)
  BY <1>1, CommunityAssumption DEF SubmissionRow, Whole, Agreed, Kept
<1>3. BeginGrading(k, [at |-> "save", row |-> row]) /\ UNCHANGED <<submission, reviews, gradesTorn, communityFaults>>
  BY <1>1 DEF InstructorOverride
<1> QED
  BY <1>2, <1>3, SavesBegin

LEMMA ResubmitKeeps == ASSUME GradeInv, NEW k \in Grader, Resubmit(k) PROVE GradeInv'
<1>1. PICK row : row = submission
  OBVIOUS
<1>2. row \in SubmissionRow /\ Kept(row) /\ (Agreed(submission) => Agreed(row))
  BY <1>1, GradingFacts
<1>3. BeginGrading(k, [at |-> "save", row |-> row]) /\ UNCHANGED <<submission, reviews, gradesTorn, communityFaults>>
  BY <1>1 DEF Resubmit
<1> QED
  BY <1>2, <1>3, SavesBegin

LEMMA SelectSubmissionKeeps == ASSUME GradeInv, NEW k \in Grader, SelectSubmission(k) PROVE GradeInv'
<1>1. PICK row : row = grading[k].row
  OBVIOUS
<1>2. /\ grading[k] # NoGrading /\ grading[k].at = "save" /\ row \in SubmissionRow /\ Kept(row)
      /\ submission \in SubmissionRow
  BY <1>1, GradingFacts, GradingForms DEF SelectSubmission, NoGrading, SaveState
<1>3. PICK c : c = [at |-> "update", row |-> row, seen |-> submission]
  OBVIOUS
<1>4. c \in GradingState /\ c.at = "update" /\ c.row = row /\ c.seen = submission
  BY <1>2, <1>3 DEF GradingState, UpdateState
<1>5. /\ grading' = [grading EXCEPT ![k] = c]
      /\ UNCHANGED <<submission, reviews, gradeRaced, gradesTorn, communityFaults>>
  BY <1>1, <1>3 DEF SelectSubmission, Mark
<1>6. grading'[k] = c
  BY <1>5, GradingFacts
<1>7. GradingClean => GradingFits(k)'
  <2>1. GradingClean => Agreed(row)
    BY <1>1, <1>2, GradingFacts DEF GradingFits
  <2>2. GradingClean => Agreed(grading[k].row)'
    BY <1>4, <1>5, <1>6, <2>1 DEF Agreed, Peers, Submitted
  <2> QED
    BY <1>4, <1>5, <1>6, <2>2 DEF GradingFits
<1>8. /\ submission' \in SubmissionRow /\ Kept(submission)' /\ gradesTorn' \in BOOLEAN
      /\ reviews' \in [Reviewer -> {"none", "assigned", "submitted"}]
  BY <1>5, GradingFacts DEF Whole, Kept
<1>9. gradesTorn' = TRUE \/ Whole(c.row)
  BY <1>2, <1>4, <1>5 DEF Kept
<1> QED
  BY <1>2, <1>4, <1>5, <1>7, <1>8, <1>9, GradingMoves

\* Alone with the row, a save writes its copy, column by column.
LEMMA UpdateSubmissionKeeps == ASSUME GradeInv, NEW k \in Grader, UpdateSubmission(k) PROVE GradeInv'
<1>1. PICK my : my = grading[k]
  OBVIOUS
<1>2. /\ grading[k] # NoGrading /\ my.at = "update" /\ my \in UpdateState /\ Kept(my.row)
      /\ NoGrading \in GradingState /\ NoGrading.at = "idle"
  BY <1>1, GradingFacts, GradingForms DEF UpdateSubmission, NoGrading, GradingState
<1>3. /\ submission' = [x \in DOMAIN submission |-> IF my.row[x] # my.seen[x] THEN my.row[x] ELSE submission[x]]
      /\ grading' = [grading EXCEPT ![k] = NoGrading]
      /\ UNCHANGED <<reviews, gradeRaced, communityFaults>>
  BY <1>1 DEF UpdateSubmission, Mark
<1>4. gradesTorn' = (gradesTorn \/ submission' # my.row)
  BY <1>1 DEF UpdateSubmission
<1>5. my.row \in SubmissionRow /\ my.seen \in SubmissionRow /\ submission \in SubmissionRow
  BY <1>2, GradingFacts DEF UpdateState
<1>6. submission' \in SubmissionRow
  BY <1>3, <1>5 DEF SubmissionRow
<1>7. my.seen = submission => submission' = my.row
  BY <1>3, <1>5 DEF SubmissionRow
<1>8. /\ gradesTorn' \in BOOLEAN /\ (gradesTorn = TRUE => gradesTorn' = TRUE)
      /\ gradesTorn' # TRUE => gradesTorn # TRUE /\ submission' = my.row
  BY <1>4, GradingFacts
<1>9. Kept(submission)'
  <2>1. gradesTorn' = TRUE \/ Whole(submission')
    BY <1>2, <1>8 DEF Kept
  <2> QED
    BY <2>1 DEF Kept, Whole
<1>10. GradingClean => Agreed(submission)'
  <2>1. GradingClean => Agreed(my.row) /\ submission' = my.row
    BY <1>1, <1>2, <1>7, GradingFacts DEF GradingFits
  <2> QED
    BY <1>3, <2>1 DEF Agreed, Peers, Submitted
<1>11. grading'[k] = NoGrading /\ reviews' \in [Reviewer -> {"none", "assigned", "submitted"}]
  BY <1>3, GradingFacts
<1>12. GradingFits(k)'
  BY <1>2, <1>11 DEF GradingFits
<1> QED
  BY <1>2, <1>3, <1>6, <1>8, <1>9, <1>10, <1>11, <1>12, GradingMoves

LEMMA AssignmentStep ==
  ASSUME GradeInv,
         AssignmentNext \/ (UNCHANGED assignmentVars /\ communityFaults' \in {communityFaults, communityFaults + 1})
  PROVE  GradeInv'
<1>1. communityFaults \in Nat /\ grading \in [Grader -> GradingState] /\ NoGrading \in GradingState
  BY DEF GradeInv, GradingState
<1>2. CASE UNCHANGED assignmentVars /\ communityFaults' \in {communityFaults, communityFaults + 1}
  <2>1. GradingClean' => GradingClean /\ communityFaults' = communityFaults
    BY <1>1, <1>2 DEF GradingClean, assignmentVars
  <2>3. UNCHANGED <<submission, reviews, grading, gradesTorn>> /\ communityFaults' \in Nat
    BY <1>1, <1>2 DEF assignmentVars
  <2>4. OneGrader /\ GradeStands => (OneGrader /\ GradeStands)'
    BY <2>3 DEF OneGrader, GradeStands, Agreed, Peers, Submitted
  <2>5. \A j \in Grader : GradingFits(j) => GradingFits(j)'
    BY <2>3 DEF GradingFits, Agreed, Peers, Submitted
  <2>6. Kept(submission)' /\ \A j \in Grader : (grading[j].at \in {"save", "update"} => Kept(grading[j].row))'
    BY <2>3 DEF Whole, Kept, GradeInv
  <2> QED
    BY <2>1, <2>3, <2>4, <2>5, <2>6 DEF GradeInv
<1>3. ASSUME NEW k \in Grader, communityFaults' = communityFaults + 1, Mark(k, NoGrading),
             UNCHANGED <<submission, reviews, gradeRaced, gradesTorn>>
      PROVE  GradeInv'
  <2>1. ~GradingClean'
    BY <1>1, <1>3 DEF GradingClean
  <2>2. \A j \in Grader : grading'[j] = NoGrading \/ grading'[j] = grading[j]
    BY <1>1, <1>3 DEF Mark
  <2>3. grading' \in [Grader -> GradingState] /\ communityFaults' \in Nat
    BY <1>1, <1>3 DEF Mark
  <2>4. Kept(submission)' /\ \A j \in Grader : (grading[j].at \in {"save", "update"} => Kept(grading[j].row))'
    BY <1>3, <2>2 DEF Whole, Kept, GradeInv, NoGrading
  <2> QED
    BY <1>3, <2>1, <2>3, <2>4 DEF GradeInv
<1> QED
  BY <1>2, <1>3, AssignReviewersKeeps, SaveAssignedKeeps, SubmitPeerReviewKeeps, SaveReviewKeeps, CalculateFinalGradeKeeps,
     InstructorOverrideKeeps, ResubmitKeeps, SelectSubmissionKeeps, UpdateSubmissionKeeps DEF AssignmentNext

LEMMA CommunityFollows == ForumInv /\ GradeInv => TalliesAndGradesAgree
<1>1. GradeInv => (submission.instructor # NoGrade /\ ~gradesTorn => submission.final = {submission.instructor})
  BY DEF GradeInv, Whole, Kept
<1>2. ASSUME GradeInv, \A k \in Grader : grading[k] = NoGrading, ~gradeRaced, communityFaults = 0
      PROVE  \/ submission.instructor # NoGrade
             \/ submission.final = IF Submitted = {} THEN {NoGrade} ELSE Submitted
  BY <1>2 DEF GradeInv, GradingClean, GradeStands, NoGrading, Agreed, Peers
<1> QED
  BY <1>1, <1>2, ForumFollows DEF TalliesAndGradesAgree

----------------------------------------------------------------------------
(* Accounts.                                                               *)

Refresh(i) == [kind |-> "refresh", key |-> i]
Reset(i) == [kind |-> "reset", key |-> i]
Backup(c) == [kind |-> "code", key |-> c]

RefreshSecret == [kind : {"refresh"}, key : Token]
ResetSecret == [kind : {"reset"}, key : Token]
CodeSecret == [kind : {"code"}, key : Code]

AccountRow == [password : Nat, banned : BOOLEAN, codes : SUBSET Code]
RevokeState == [at : {"revoke"}, secret : RefreshSecret, renew : BOOLEAN]
IssueState == [at : {"issue"}, secret : RefreshSecret]
CreateState == [at : {"create"}]
ResetState == [at : {"hashed", "mark"}, secret : ResetSecret]
CodeState == [at : {"code"}, secret : CodeSecret, left : SUBSET Code]
SaveSecretState == [at : {"save"}, secret : ResetSecret \cup CodeSecret, row : AccountRow]
SaveRowState == [at : {"save"}, row : AccountRow]
Holder == RevokeState \cup IssueState \cup ResetState \cup CodeState \cup SaveSecretState
RequestState == {NoRequest} \cup CreateState \cup SaveRowState \cup Holder

Has(r, s) == r \in Holder /\ r.secret = s
OneHolder(s) == \A j, k \in Request : Has(request[j], s) /\ Has(request[k], s) => j = k
Edits(r) == r.at \in {"code", "save"}

AccountTypes ==
  /\ account \in AccountRow /\ request \in [Request -> RequestState] /\ honoured \in [Secret -> 0..2] /\ authFaults \in Nat
  /\ refresh \in [Token -> {"none", "live", "revoked"}] /\ reset \in [Token -> {"none", "live", "used"}]
  /\ passwords \in Nat /\ banned \in BOOLEAN

\* A refresh token no two requests worked on is exchanged after it was
\* revoked, and by the one that revoked it.
RefreshFits(i) ==
  \/ Refresh(i) \in raced
  \/ /\ OneHolder(Refresh(i))
     /\ honoured[Refresh(i)] <= 1
     /\ refresh[i] # "revoked" => honoured[Refresh(i)] = 0
     /\ \A k \in Request : Has(request[k], Refresh(i)) =>
          \/ request[k].at = "revoke" /\ refresh[i] = "live"
          \/ request[k].at = "issue" /\ refresh[i] = "revoked" /\ honoured[Refresh(i)] = 0

\* A reset token that was used is marked, or the one that used it is about to.
ResetFits(i) ==
  /\ \A k \in Request : Has(request[k], Reset(i)) => reset[i] # "none"
  /\ \/ Reset(i) \in raced \/ authFaults # 0
     \/ /\ OneHolder(Reset(i))
        /\ honoured[Reset(i)] <= 1
        /\ reset[i] = "none" => honoured[Reset(i)] = 0
        /\ \A k \in Request : Has(request[k], Reset(i)) =>
             reset[i] = "live" /\ (request[k].at = "mark" \/ honoured[Reset(i)] = 0)
        /\ honoured[Reset(i)] = 1 => reset[i] = "used" \/ \E k \in Request : Has(request[k], Reset(i)) /\ request[k].at = "mark"

\* What the one request that edits the row will save is what the row says,
\* less the code it used.
EditFits(r) ==
  /\ r.at = "code" => r.secret.key \in account.codes /\ r.left \subseteq account.codes \ {r.secret.key}
  /\ r.at = "save" => r.row.codes \subseteq account.codes /\ (account.banned = TRUE => r.row.banned = TRUE)
  /\ \A c \in Code : r.at = "save" /\ Has(r, Backup(c)) => c \in account.codes /\ c \notin r.row.codes

RowFits ==
  \/ rowRaced
  \/ /\ \A j, k \in Request : Edits(request[j]) /\ Edits(request[k]) => j = k
     /\ \A c \in Code : honoured[Backup(c)] <= 1 /\ (c \in account.codes => honoured[Backup(c)] = 0)
     /\ banned = TRUE => account.banned = TRUE
     /\ \A k \in Request : EditFits(request[k])

Taken == {i \in Token : reset[i] # "none"}
Creating == {k \in Request : request[k].at = "create"}
ResetsFit == Cardinality(Taken) + Cardinality(Creating) < ResetLimit + Cardinality(Request)

AccountInv ==
  /\ AccountTypes /\ RowFits /\ ResetsFit
  /\ \A i \in Token : RefreshFits(i) /\ ResetFits(i)

LEMMA SecretKinds ==
  /\ \A i \in Token : Refresh(i) \in Secret /\ Refresh(i) \in RefreshSecret /\ Reset(i) \in Secret /\ Reset(i) \in ResetSecret
  /\ \A c \in Code : Backup(c) \in Secret /\ Backup(c) \in CodeSecret
  /\ \A s \in RefreshSecret : s.key \in Token /\ s = Refresh(s.key) /\ s \in Secret
  /\ \A s \in ResetSecret : s.key \in Token /\ s = Reset(s.key) /\ s \in Secret
  /\ \A s \in CodeSecret : s.key \in Code /\ s = Backup(s.key) /\ s \in Secret
<1>1. \A i \in Token : Refresh(i) \in RefreshSecret /\ Reset(i) \in ResetSecret
  BY DEF Refresh, Reset, RefreshSecret, ResetSecret
<1>2. \A c \in Code : Backup(c) \in CodeSecret
  BY DEF Backup, CodeSecret
<1>3. \A s : s \in RefreshSecret \/ s \in ResetSecret \/ s \in CodeSecret => s \in Secret
  BY DEF RefreshSecret, ResetSecret, CodeSecret, Secret
<1>4. \A s \in RefreshSecret : s.key \in Token /\ s = Refresh(s.key)
  BY DEF RefreshSecret, Refresh
<1>5. \A s \in ResetSecret : s.key \in Token /\ s = Reset(s.key)
  BY DEF ResetSecret, Reset
<1>6. \A s \in CodeSecret : s.key \in Code /\ s = Backup(s.key)
  BY DEF CodeSecret, Backup
<1> QED
  BY <1>1, <1>2, <1>3, <1>4, <1>5, <1>6

LEMMA SecretsDiffer ==
  /\ \A i, j : Refresh(i) # Reset(j) /\ Refresh(i) # Backup(j) /\ Reset(i) # Backup(j)
  /\ \A i, j : (Refresh(i) = Refresh(j) => i = j) /\ (Reset(i) = Reset(j) => i = j) /\ (Backup(i) = Backup(j) => i = j)
  /\ \A s : (s \in RefreshSecret => s.kind = "refresh") /\ (s \in ResetSecret => s.kind = "reset") /\ (s \in CodeSecret => s.kind = "code")
BY DEF Refresh, Reset, Backup, RefreshSecret, ResetSecret, CodeSecret

LEMMA RequestForms ==
  ASSUME NEW r \in RequestState
  PROVE  /\ r = NoRequest <=> r.at = "idle"
         /\ r.at = "revoke" => r \in RevokeState
         /\ r.at = "issue" => r \in IssueState
         /\ r.at \in {"hashed", "mark"} => r \in ResetState
         /\ r.at = "code" => r \in CodeState
         /\ r.at = "save" => r \in SaveSecretState \cup SaveRowState
BY DEF RequestState, Holder, NoRequest, CreateState, SaveRowState, RevokeState, IssueState, ResetState, CodeState, SaveSecretState

LEMMA HolderForms ==
  /\ \A r \in RevokeState : r \in Holder /\ r \in RequestState /\ r.at = "revoke" /\ r.secret \in RefreshSecret /\ r.renew \in BOOLEAN
  /\ \A r \in IssueState : r \in Holder /\ r \in RequestState /\ r.at = "issue" /\ r.secret \in RefreshSecret
  /\ \A r \in ResetState : r \in Holder /\ r \in RequestState /\ r.at \in {"hashed", "mark"} /\ r.secret \in ResetSecret
  /\ \A r \in CodeState : r \in Holder /\ r \in RequestState /\ r.at = "code" /\ r.secret \in CodeSecret /\ r.left \subseteq Code
  /\ \A r \in SaveSecretState : r \in Holder /\ r \in RequestState /\ r.at = "save" /\ r.secret \in ResetSecret \cup CodeSecret /\ r.row \in AccountRow
  /\ \A r \in SaveRowState : r \in RequestState /\ r.at = "save" /\ r.row \in AccountRow /\ r \notin Holder
  /\ \A r \in CreateState : r \in RequestState /\ r.at = "create" /\ r \notin Holder
  /\ NoRequest \in RequestState /\ NoRequest.at = "idle" /\ NoRequest \notin Holder
<1>1. \A r \in RevokeState : r.at = "revoke" /\ r.secret \in RefreshSecret /\ r.renew \in BOOLEAN
  BY DEF RevokeState
<1>2. \A r \in IssueState : r.at = "issue" /\ r.secret \in RefreshSecret
  BY DEF IssueState
<1>3. \A r \in ResetState : r.at \in {"hashed", "mark"} /\ r.secret \in ResetSecret
  BY DEF ResetState
<1>4. \A r \in CodeState : r.at = "code" /\ r.secret \in CodeSecret /\ r.left \subseteq Code
  BY DEF CodeState
<1>5. \A r \in SaveSecretState : r.at = "save" /\ r.secret \in ResetSecret \cup CodeSecret /\ r.row \in AccountRow
  BY DEF SaveSecretState
<1>6. \A r \in SaveRowState : r.at = "save" /\ r.row \in AccountRow /\ r \notin SaveSecretState
  BY DEF SaveRowState, SaveSecretState
<1>7. \A r \in CreateState : r.at = "create"
  BY DEF CreateState
<1>8. NoRequest.at = "idle"
  BY DEF NoRequest
<1>9. \A r \in Holder : r.at \in {"revoke", "issue", "hashed", "mark", "code"} \/ r \in SaveSecretState
  BY <1>1, <1>2, <1>3, <1>4 DEF Holder
<1> QED
  BY <1>1, <1>2, <1>3, <1>4, <1>5, <1>6, <1>7, <1>8, <1>9 DEF RequestState, Holder

LEMMA HoldersSecret ==
  /\ \A r \in Holder : "secret" \in DOMAIN r /\ r # NoRequest
  /\ \A r \in SaveRowState : "secret" \notin DOMAIN r
  /\ \A r \in Holder, i \in Token :
       /\ r.secret = Refresh(i) => r \in RevokeState \cup IssueState
       /\ r.secret = Reset(i) => r \in ResetState \/ (r \in SaveSecretState /\ r.secret \in ResetSecret)
  /\ \A r \in Holder, c \in Code : r.secret = Backup(c) => r \in CodeState \/ (r \in SaveSecretState /\ r.secret \in CodeSecret)
<1>1. \A r \in Holder : "secret" \in DOMAIN r
  BY DEF Holder, RevokeState, IssueState, ResetState, CodeState, SaveSecretState
<1>2. \A r \in Holder : r # NoRequest
  BY HolderForms
<1>3. \A r \in SaveRowState : "secret" \notin DOMAIN r
  BY DEF SaveRowState
<1>4. \A r \in Holder : \/ r \in RevokeState \cup IssueState /\ r.secret.kind = "refresh"
                        \/ r \in ResetState /\ r.secret.kind = "reset"
                        \/ r \in CodeState /\ r.secret.kind = "code"
                        \/ r \in SaveSecretState /\ r.secret.kind = "reset" /\ r.secret \in ResetSecret
                        \/ r \in SaveSecretState /\ r.secret.kind = "code" /\ r.secret \in CodeSecret
  BY HolderForms, SecretsDiffer DEF Holder
<1>5. \A i : Refresh(i).kind = "refresh" /\ Reset(i).kind = "reset" /\ Backup(i).kind = "code"
  BY DEF Refresh, Reset, Backup
<1> QED
  BY <1>1, <1>2, <1>3, <1>4, <1>5

LEMMA AccountStart == AccountInit => AccountInv
<1> SUFFICES ASSUME AccountInit PROVE AccountInv
  OBVIOUS
<1> USE AccountAssumption DEF AccountInit
<1>1. AccountTypes
  <2>1. account \in AccountRow
    BY DEF AccountRow
  <2>2. request \in [Request -> RequestState]
    BY HolderForms
  <2>3. honoured \in [Secret -> 0..2]
    OBVIOUS
  <2>4. banned \in BOOLEAN /\ passwords \in Nat /\ authFaults \in Nat
    OBVIOUS
  <2> QED
    BY <2>1, <2>2, <2>3, <2>4 DEF AccountTypes
<1>2. \A k \in Request : request[k] = NoRequest /\ request[k] \notin Holder /\ request[k].at = "idle"
  BY HolderForms
<1>3. \A s \in Secret : honoured[s] = 0
  OBVIOUS
<1>4. RowFits
  BY <1>2, <1>3, SecretKinds DEF RowFits, EditFits, Edits, Has
<1>5. \A i \in Token : RefreshFits(i)
  BY <1>2, <1>3, SecretKinds DEF RefreshFits, OneHolder, Has
<1>6. \A i \in Token : ResetFits(i)
  BY <1>2, <1>3, SecretKinds DEF ResetFits, OneHolder, Has
<1>7. Taken = {} /\ Creating = {}
  BY <1>2 DEF Taken, Creating
<1>8. ResetsFit
  BY <1>7, FS_EmptySet, FS_CardinalityType DEF ResetsFit
<1> QED
  BY <1>1, <1>4, <1>5, <1>6, <1>8 DEF AccountInv

\* What a step leaves alone.
LEMMA RefreshQuiet ==
  ASSUME AccountTypes, NEW i \in Token, RefreshFits(i), NEW k \in Request, NEW c, Continue(k, c), ~Has(c, Refresh(i)),
         refresh'[i] = refresh[i], honoured'[Refresh(i)] = honoured[Refresh(i)], raced \subseteq raced'
  PROVE  RefreshFits(i)'
<1>1. \A j \in Request : request'[j] = IF j = k THEN c ELSE request[j]
  BY DEF Continue, AccountTypes
<1>2. \A j \in Request : Has(request'[j], Refresh(i)) => request'[j] = request[j] /\ Has(request[j], Refresh(i))
  BY <1>1
<1>3. CASE Refresh(i) \in raced
  BY <1>3 DEF RefreshFits
<1>4. CASE Refresh(i) \notin raced
  <2>1. OneHolder(Refresh(i))'
    BY <1>2, <1>4 DEF RefreshFits, OneHolder
  <2>2. \A j \in Request : Has(request'[j], Refresh(i)) =>
          \/ request'[j].at = "revoke" /\ refresh[i] = "live"
          \/ request'[j].at = "issue" /\ refresh[i] = "revoked" /\ honoured[Refresh(i)] = 0
    BY <1>2, <1>4 DEF RefreshFits
  <2> QED
    BY <2>1, <2>2, <1>4 DEF RefreshFits
<1> QED
  BY <1>3, <1>4

LEMMA ResetQuiet ==
  ASSUME AccountTypes, NEW i \in Token, ResetFits(i), NEW k \in Request, NEW c, Continue(k, c), ~Has(c, Reset(i)),
         ~Has(request[k], Reset(i)), reset'[i] = reset[i], honoured'[Reset(i)] = honoured[Reset(i)], raced \subseteq raced',
         authFaults' = authFaults
  PROVE  ResetFits(i)'
<1>1. \A j \in Request : request'[j] = IF j = k THEN c ELSE request[j]
  BY DEF Continue, AccountTypes
<1>2. \A j \in Request : Has(request'[j], Reset(i)) => request'[j] = request[j] /\ Has(request[j], Reset(i))
  BY <1>1
<1>3. CASE Reset(i) \in raced \/ authFaults # 0
  BY <1>2, <1>3 DEF ResetFits
<1>4. CASE ~(Reset(i) \in raced \/ authFaults # 0)
  <2>1. OneHolder(Reset(i))'
    BY <1>2, <1>4 DEF ResetFits, OneHolder
  <2>2. \A j \in Request : Has(request'[j], Reset(i)) =>
          reset[i] = "live" /\ (request'[j].at = "mark" \/ honoured[Reset(i)] = 0)
    BY <1>2, <1>4 DEF ResetFits
  <2>3. honoured[Reset(i)] = 1 => reset[i] = "used" \/ \E j \in Request : Has(request'[j], Reset(i)) /\ request'[j].at = "mark"
    BY <1>1, <1>4 DEF ResetFits
  <2> QED
    BY <2>1, <2>2, <2>3, <1>2, <1>4 DEF ResetFits
<1> QED
  BY <1>3, <1>4

LEMMA RowQuiet ==
  ASSUME AccountTypes, RowFits, NEW k \in Request, NEW c, Continue(k, c), ~Edits(c),
         account' = account, banned' = banned, rowRaced' = rowRaced, \A d \in Code : honoured'[Backup(d)] = honoured[Backup(d)]
  PROVE  RowFits'
<1>1. \A j \in Request : request'[j] = IF j = k THEN c ELSE request[j]
  BY DEF Continue, AccountTypes
<1>2. CASE rowRaced
  BY <1>2 DEF RowFits
<1>3. CASE ~rowRaced
  <2>1. \A j, l \in Request : Edits(request'[j]) /\ Edits(request'[l]) => j = l
    BY <1>1, <1>3 DEF RowFits
  <2>2. \A d \in Code : honoured'[Backup(d)] <= 1 /\ (d \in account.codes => honoured'[Backup(d)] = 0)
    BY <1>3 DEF RowFits
  <2>3. banned = TRUE => account.banned = TRUE
    BY <1>3 DEF RowFits
  <2>4. EditFits(c)
    BY DEF EditFits, Edits
  <2>5. \A j \in Request : EditFits(request'[j])
    BY <1>1, <1>3, <2>4 DEF RowFits
  <2>6. \A r : EditFits(r) <=> EditFits(r)'
    BY DEF EditFits
  <2> QED
    BY <2>1, <2>2, <2>3, <2>5, <2>6 DEF RowFits
<1> QED
  BY <1>2, <1>3

LEMMA NobodyElse ==
  ASSUME AccountTypes, NEW k \in Request, NEW s, RaceFor(k, s), s \notin raced'
  PROVE  s \notin raced /\ \A j \in Request : Has(request[j], s) => j = k
<1>1. CASE Others(k, s) = {}
  <2>1. \A j \in Request : Has(request[j], s) => j = k
    BY <1>1, HoldersSecret DEF Others, Has
  <2> QED
    BY <1>1, <2>1 DEF RaceFor
<1>2. CASE Others(k, s) # {}
  BY <1>2 DEF RaceFor
<1> QED
  BY <1>1, <1>2

LEMMA RaceGrows ==
  ASSUME NEW k, NEW s, RaceFor(k, s)
  PROVE  raced \subseteq raced'
BY DEF RaceFor

\* A request takes the row in hand: beside another that has it, it races.
LEMMA RowEdited ==
  ASSUME AccountTypes, RowFits, NEW k \in Request, NEW c, Continue(k, c), RaceForRow(k), EditFits(c),
         account' = account, banned' = banned, \A d \in Code : honoured'[Backup(d)] = honoured[Backup(d)]
  PROVE  RowFits'
<1>1. \A j \in Request : request'[j] = IF j = k THEN c ELSE request[j]
  BY DEF Continue, AccountTypes
<1>2. CASE rowRaced \/ Editors(k) # {}
  BY <1>2 DEF RowFits, RaceForRow
<1>3. CASE ~rowRaced /\ Editors(k) = {}
  <2>1. \A j, l \in Request : Edits(request'[j]) /\ Edits(request'[l]) => j = l
    BY <1>1, <1>3 DEF Editors, Edits
  <2>2. \A d \in Code : honoured'[Backup(d)] <= 1 /\ (d \in account.codes => honoured'[Backup(d)] = 0)
    BY <1>3 DEF RowFits
  <2>3. banned = TRUE => account.banned = TRUE
    BY <1>3 DEF RowFits
  <2>4. \A j \in Request : EditFits(request'[j])
    BY <1>1, <1>3 DEF RowFits
  <2>5. \A r : EditFits(r) <=> EditFits(r)'
    BY DEF EditFits
  <2> QED
    BY <2>1, <2>2, <2>3, <2>4, <2>5 DEF RowFits
<1> QED
  BY <1>2, <1>3

LEMMA CreatingIsFinite == IsFiniteSet(Creating) /\ IsFiniteSet(Taken) /\ Cardinality(Request) \in Nat
<1>1. IsFiniteSet(Creating)
  BY AccountAssumption, FS_Subset DEF Creating
<1>2. IsFiniteSet(Taken)
  <2>1. 0 \in Int /\ 1 \in Int /\ MaxTokens \in Int
    BY AccountAssumption
  <2>2. IsFiniteSet(1..MaxTokens)
    BY <2>1, FS_Interval
  <2> QED
    BY <2>2, FS_Subset DEF Taken, Token
<1> QED
  BY <1>1, <1>2, AccountAssumption, FS_CardinalityType

LEMMA CountKept ==
  ASSUME AccountTypes, ResetsFit, NEW k \in Request, NEW c, Continue(k, c), c.at # "create",
         \A i \in Token : reset'[i] # "none" => reset[i] # "none"
  PROVE  ResetsFit'
<1>1. \A j \in Request : request'[j] = IF j = k THEN c ELSE request[j]
  BY DEF Continue, AccountTypes
<1>2. PICK creating : creating = Creating'
  OBVIOUS
<1>3. PICK taken : taken = Taken'
  OBVIOUS
<1>4. creating \subseteq Creating /\ taken \subseteq Taken
  BY <1>1, <1>2, <1>3 DEF Creating, Taken
<1>5. Cardinality(creating) <= Cardinality(Creating) /\ Cardinality(taken) <= Cardinality(Taken)
      /\ IsFiniteSet(creating) /\ IsFiniteSet(taken)
  BY <1>4, CreatingIsFinite, FS_Subset
<1>6. {Cardinality(creating), Cardinality(taken), Cardinality(Creating), Cardinality(Taken), Cardinality(Request)} \subseteq Nat
  BY <1>5, CreatingIsFinite, FS_CardinalityType
<1>7. Cardinality(creating) + Cardinality(taken) < ResetLimit + Cardinality(Request)
  BY <1>5, <1>6, AccountAssumption DEF ResetsFit
<1> QED
  BY <1>2, <1>3, <1>6, <1>7 DEF ResetsFit

LEMMA UseCounts ==
  ASSUME AccountTypes, NEW s \in Secret, Use(s)
  PROVE  /\ honoured' \in [Secret -> 0..2]
         /\ \A t \in Secret : t # s => honoured'[t] = honoured[t]
         /\ honoured[s] = 0 => honoured'[s] = 1
BY DEF AccountTypes, Use

\* Refresh tokens.
LEMMA FindRefreshKeeps ==
  ASSUME AccountInv, NEW k \in Request, NEW i \in Token, NEW renew \in BOOLEAN, FindRefresh(k, i, renew)
  PROVE  AccountInv'
<1>1. PICK c : c = [at |-> "revoke", secret |-> Refresh(i), renew |-> renew]
  OBVIOUS
<1>2. c \in RevokeState /\ c.secret = Refresh(i) /\ c.at = "revoke"
  BY <1>1, SecretKinds DEF RevokeState
<1>3. c \in Holder /\ c \in RequestState
  BY <1>2, HolderForms
<1>4. /\ Continue(k, c) /\ RaceFor(k, Refresh(i)) /\ refresh[i] = "live" /\ request[k] = NoRequest
      /\ UNCHANGED <<account, refresh, reset, honoured, rowRaced, passwords, banned, authFaults>>
  BY <1>1 DEF FindRefresh, Refresh, Live, tokenVars
<1>5. \A j \in Token : (Has(c, Refresh(j)) => j = i) /\ ~Has(c, Reset(j)) /\ ~Has(request[k], Reset(j))
  BY <1>2, <1>4, SecretsDiffer, HolderForms DEF Has
<1>6. raced \subseteq raced'
  BY <1>4, RaceGrows
<1>7. AccountTypes'
  BY <1>3, <1>4 DEF AccountInv, AccountTypes, Continue
<1>8. RowFits'
  BY <1>2, <1>4, RowQuiet DEF AccountInv, Edits
<1>9. ResetsFit'
  BY <1>2, <1>4, CountKept DEF AccountInv
<1>10. \A j \in Token : ResetFits(j)'
  BY <1>4, <1>5, <1>6, ResetQuiet DEF AccountInv
<1>11. ASSUME NEW j \in Token PROVE RefreshFits(j)'
  <2>1. CASE j # i
    BY <2>1, <1>4, <1>5, <1>6, RefreshQuiet DEF AccountInv
  <2>2. CASE j = i /\ Refresh(i) \notin raced'
    <3>1. Refresh(i) \notin raced /\ \A l \in Request : ~Has(request[l], Refresh(i))
      BY <2>2, <1>4, NobodyElse, HolderForms DEF AccountInv, Has
    <3>2. \A l \in Request : Has(request'[l], Refresh(i)) => l = k /\ request'[l].at = "revoke"
      BY <3>1, <1>2, <1>4 DEF Continue, AccountInv, AccountTypes
    <3>3. OneHolder(Refresh(i))'
      BY <3>2 DEF OneHolder
    <3>4. honoured[Refresh(i)] = 0
      BY <3>1, <1>4 DEF AccountInv, RefreshFits
    <3> QED
      BY <2>2, <3>2, <3>3, <3>4, <1>4 DEF RefreshFits
  <2>3. CASE j = i /\ Refresh(i) \in raced'
    BY <2>3 DEF RefreshFits
  <2> QED
    BY <2>1, <2>2, <2>3
<1> QED
  BY <1>7, <1>8, <1>9, <1>10, <1>11 DEF AccountInv

LEMMA RevokeKeeps ==
  ASSUME AccountInv, NEW k \in Request, Revoke(k)
  PROVE  AccountInv'
<1>1. request[k] \in RevokeState
  BY RequestForms DEF Revoke, AccountInv, AccountTypes
<1>2. PICK i \in Token : request[k].secret = Refresh(i) /\ request[k].secret.key = i
  BY <1>1, HolderForms, SecretKinds
<1>3. PICK c : c = IF request[k].renew THEN [at |-> "issue", secret |-> request[k].secret] ELSE NoRequest
  OBVIOUS
<1>4. /\ Continue(k, c) /\ refresh' = [refresh EXCEPT ![i] = "revoked"] /\ request[k].at = "revoke"
      /\ UNCHANGED <<account, reset, honoured, raced, rowRaced, passwords, banned, authFaults>>
  BY <1>2, <1>3 DEF Revoke
<1>5. c = [at |-> "issue", secret |-> Refresh(i)] \/ c = NoRequest
  BY <1>2, <1>3
<1>6. (c \in IssueState /\ c.at = "issue" /\ c.secret = Refresh(i)) \/ (c = NoRequest /\ c.at = "idle" /\ c \notin Holder)
  BY <1>5, SecretKinds, HolderForms DEF IssueState
<1>7. c \in RequestState
  BY <1>6, HolderForms
<1>8. Has(request[k], Refresh(i)) /\ \A j \in Token : (Has(c, Refresh(j)) => j = i) /\ ~Has(c, Reset(j)) /\ ~Has(request[k], Reset(j))
  BY <1>1, <1>2, <1>6, SecretsDiffer, HolderForms DEF Has
<1>9. AccountTypes'
  BY <1>4, <1>7 DEF AccountInv, AccountTypes, Continue
<1>10. RowFits'
  BY <1>4, <1>6, RowQuiet DEF AccountInv, Edits
<1>11. ResetsFit'
  BY <1>4, <1>6, CountKept DEF AccountInv
<1>12. \A j \in Token : ResetFits(j)'
  BY <1>4, <1>8, ResetQuiet DEF AccountInv
<1>13. ASSUME NEW j \in Token PROVE RefreshFits(j)'
  <2>1. CASE j # i
    <3>1. refresh'[j] = refresh[j]
      BY <2>1, <1>4 DEF AccountInv, AccountTypes
    <3> QED
      BY <2>1, <3>1, <1>4, <1>8, RefreshQuiet DEF AccountInv
  <2>2. CASE j = i /\ Refresh(i) \notin raced
    <3>1. OneHolder(Refresh(i)) /\ refresh[i] = "live"
      BY <2>2, <1>4, <1>8 DEF AccountInv, RefreshFits
    <3>2. \A l \in Request : Has(request'[l], Refresh(i)) => l = k /\ request'[l].at = "issue"
      BY <3>1, <1>4, <1>6, <1>8 DEF Continue, AccountInv, AccountTypes, OneHolder, Has
    <3>3. OneHolder(Refresh(i))'
      BY <3>2 DEF OneHolder
    <3>4. honoured[Refresh(i)] = 0
      BY <3>1, <2>2 DEF AccountInv, RefreshFits
    <3>5. refresh'[i] = "revoked"
      BY <1>4 DEF AccountInv, AccountTypes
    <3> QED
      BY <2>2, <3>2, <3>3, <3>4, <3>5, <1>4 DEF RefreshFits
  <2>3. CASE j = i /\ Refresh(i) \in raced
    BY <2>3, <1>4 DEF RefreshFits
  <2> QED
    BY <2>1, <2>2, <2>3
<1> QED
  BY <1>9, <1>10, <1>11, <1>12, <1>13 DEF AccountInv

LEMMA IssuePairKeeps ==
  ASSUME AccountInv, NEW k \in Request, IssuePair(k)
  PROVE  AccountInv'
<1>1. request[k] \in IssueState
  BY RequestForms DEF IssuePair, AccountInv, AccountTypes
<1>2. PICK i \in Token : request[k].secret = Refresh(i)
  BY <1>1, HolderForms, SecretKinds
<1>3. PICK n \in Token : refresh[n] = "none" /\ refresh' = [refresh EXCEPT ![n] = "live"]
  BY DEF IssuePair, Unused
<1>4. /\ Continue(k, NoRequest) /\ Use(Refresh(i)) /\ request[k].at = "issue"
      /\ UNCHANGED <<account, reset, raced, rowRaced, passwords, banned, authFaults>>
  BY <1>2 DEF IssuePair
<1>5. \A s : ~Has(NoRequest, s)
  BY HolderForms DEF Has
<1>6. Has(request[k], Refresh(i)) /\ \A j \in Token : ~Has(request[k], Reset(j))
  BY <1>1, <1>2, SecretsDiffer, HolderForms DEF Has
<1>7. /\ honoured' \in [Secret -> 0..2]
      /\ \A t \in Secret : t # Refresh(i) => honoured'[t] = honoured[t]
      /\ honoured[Refresh(i)] = 0 => honoured'[Refresh(i)] = 1
  BY <1>4, UseCounts, SecretKinds DEF AccountInv
<1>8. AccountTypes'
  BY <1>3, <1>4, <1>7, HolderForms DEF AccountInv, AccountTypes, Continue
<1>9. RowFits'
  <2>1. \A d \in Code : honoured'[Backup(d)] = honoured[Backup(d)]
    BY <1>7, SecretKinds, SecretsDiffer
  <2> QED
    BY <2>1, <1>4, RowQuiet, HolderForms DEF AccountInv, Edits
<1>10. ResetsFit'
  BY <1>4, CountKept, HolderForms DEF AccountInv
<1>11. \A j \in Token : ResetFits(j)'
  <2>1. \A j \in Token : honoured'[Reset(j)] = honoured[Reset(j)]
    BY <1>7, SecretKinds, SecretsDiffer
  <2> QED
    BY <2>1, <1>4, <1>5, <1>6, ResetQuiet DEF AccountInv
<1>12. \A l \in Request : \A s : Has(request'[l], s) => Has(request[l], s) /\ l # k /\ request'[l] = request[l]
  BY <1>4, <1>5 DEF Continue, AccountInv, AccountTypes
<1>13. ASSUME NEW j \in Token PROVE RefreshFits(j)'
  <2>1. CASE j # i /\ j # n
    <3>1. refresh'[j] = refresh[j] /\ honoured'[Refresh(j)] = honoured[Refresh(j)]
      BY <2>1, <1>3, <1>7, SecretKinds, SecretsDiffer DEF AccountInv, AccountTypes
    <3> QED
      BY <3>1, <1>4, <1>5, RefreshQuiet DEF AccountInv
  <2>2. CASE Refresh(j) \in raced
    BY <2>2, <1>4 DEF RefreshFits
  <2>3. CASE j = i /\ Refresh(i) \notin raced
    <3>1. OneHolder(Refresh(i)) /\ refresh[i] = "revoked" /\ honoured[Refresh(i)] = 0
      BY <2>3, <1>4, <1>6 DEF AccountInv, RefreshFits
    <3>2. \A l \in Request : ~Has(request'[l], Refresh(i))
      BY <3>1, <1>6, <1>12 DEF OneHolder
    <3>3. OneHolder(Refresh(i))'
      BY <3>2 DEF OneHolder
    <3>4. refresh'[i] = "revoked"
      BY <3>1, <1>3 DEF AccountInv, AccountTypes
    <3>5. honoured'[Refresh(i)] = 1
      BY <3>1, <1>7
    <3> QED
      BY <2>3, <3>2, <3>3, <3>4, <3>5 DEF RefreshFits
  <2>4. CASE j = n /\ j # i /\ Refresh(n) \notin raced
    <3>1. honoured[Refresh(n)] = 0 /\ \A l \in Request : ~Has(request[l], Refresh(n))
      BY <2>4, <1>3 DEF AccountInv, RefreshFits
    <3>2. \A l \in Request : ~Has(request'[l], Refresh(n))
      BY <3>1, <1>12
    <3>3. OneHolder(Refresh(n))'
      BY <3>2 DEF OneHolder
    <3>4. honoured'[Refresh(n)] = 0
      BY <3>1, <2>4, <1>7, SecretKinds, SecretsDiffer
    <3> QED
      BY <2>4, <3>2, <3>3, <3>4 DEF RefreshFits
  <2> QED
    BY <2>1, <2>2, <2>3, <2>4
<1> QED
  BY <1>8, <1>9, <1>10, <1>11, <1>13 DEF AccountInv

\* Reset tokens.
LEMMA ForgotPasswordKeeps ==
  ASSUME AccountInv, NEW k \in Request, ForgotPassword(k)
  PROVE  AccountInv'
<1>1. PICK c : c = [at |-> "create"]
  OBVIOUS
<1>2. c \in CreateState /\ c.at = "create"
  BY <1>1 DEF CreateState
<1>3. c \in RequestState /\ c \notin Holder
  BY <1>2, HolderForms
<1>4. /\ Continue(k, c) /\ request[k] = NoRequest /\ Cardinality(Taken) < ResetLimit
      /\ UNCHANGED <<account, refresh, reset, honoured, raced, rowRaced, passwords, banned, authFaults>>
  BY <1>1 DEF ForgotPassword, Taken, tokenVars
<1>5. \A s : ~Has(c, s) /\ ~Has(request[k], s)
  BY <1>3, <1>4, HolderForms DEF Has
<1>6. AccountTypes'
  BY <1>3, <1>4 DEF AccountInv, AccountTypes, Continue
<1>7. RowFits'
  BY <1>2, <1>4, RowQuiet DEF AccountInv, Edits
<1>8. \A j \in Token : RefreshFits(j)' /\ ResetFits(j)'
  BY <1>4, <1>5, RefreshQuiet, ResetQuiet DEF AccountInv
<1>9. ResetsFit'
  <2>1. PICK creating : creating = Creating'
    OBVIOUS
  <2>2. creating \subseteq Request
    BY <2>1 DEF Creating
  <2>3. Cardinality(creating) <= Cardinality(Request) /\ Cardinality(creating) \in Nat
    BY <2>2, AccountAssumption, FS_Subset, FS_CardinalityType
  <2>4. Cardinality(Taken) \in Nat /\ Taken' = Taken
    BY <1>4, CreatingIsFinite, FS_CardinalityType DEF Taken
  <2>5. Cardinality(Taken) + Cardinality(creating) < ResetLimit + Cardinality(Request)
    BY <1>4, <2>3, <2>4, CreatingIsFinite, AccountAssumption
  <2> QED
    BY <2>1, <2>4, <2>5 DEF ResetsFit
<1> QED
  BY <1>6, <1>7, <1>8, <1>9 DEF AccountInv

LEMMA SaveResetTokenKeeps ==
  ASSUME AccountInv, NEW k \in Request, SaveResetToken(k)
  PROVE  AccountInv'
<1>1. PICK n \in Token : reset[n] = "none" /\ reset' = [reset EXCEPT ![n] = "live"]
  BY DEF SaveResetToken, Unused
<1>2. /\ Continue(k, NoRequest) /\ request[k].at = "create"
      /\ UNCHANGED <<account, refresh, honoured, raced, rowRaced, passwords, banned, authFaults>>
  BY DEF SaveResetToken
<1>3. \A s : ~Has(NoRequest, s) /\ ~Has(request[k], s)
  BY <1>2, HolderForms DEF Has, Holder
<1>4. \A j \in Request : request'[j] = IF j = k THEN NoRequest ELSE request[j]
  BY <1>2 DEF Continue, AccountInv, AccountTypes
<1>5. AccountTypes'
  BY <1>1, <1>2, HolderForms DEF AccountInv, AccountTypes, Continue
<1>6. RowFits'
  BY <1>2, RowQuiet, HolderForms DEF AccountInv, Edits
<1>7. \A j \in Token : RefreshFits(j)'
  BY <1>2, <1>3, RefreshQuiet DEF AccountInv
<1>8. ASSUME NEW j \in Token PROVE ResetFits(j)'
  <2>1. CASE j # n
    <3>1. reset'[j] = reset[j]
      BY <2>1, <1>1 DEF AccountInv, AccountTypes
    <3> QED
      BY <3>1, <1>2, <1>3, ResetQuiet DEF AccountInv
  <2>2. CASE j = n
    <3>1. \A l \in Request : ~Has(request[l], Reset(n))
      BY <1>1 DEF AccountInv, ResetFits
    <3>2. \A l \in Request : ~Has(request'[l], Reset(n))
      BY <3>1, <1>3, <1>4
    <3>3. OneHolder(Reset(n))'
      BY <3>2 DEF OneHolder
    <3>4. Reset(n) \in raced \/ authFaults # 0 \/ honoured[Reset(n)] = 0
      BY <1>1 DEF AccountInv, ResetFits
    <3> QED
      BY <2>2, <3>2, <3>3, <3>4, <1>2 DEF ResetFits
  <2> QED
    BY <2>1, <2>2
<1>9. ResetsFit'
  <2>1. PICK left : left = Creating'
    OBVIOUS
  <2>2. k \notin left /\ Creating = left \cup {k}
    BY <1>2, <1>4, <2>1, HolderForms DEF Creating
  <2>3. IsFiniteSet(left)
    BY <2>2, CreatingIsFinite, FS_Subset
  <2>4. Cardinality(Creating) = Cardinality(left) + 1
    BY <2>2, <2>3, FS_AddElement
  <2>5. PICK taken : taken = Taken'
    OBVIOUS
  <2>6. n \notin Taken /\ taken = Taken \cup {n}
    BY <1>1, <2>5 DEF Taken, AccountInv, AccountTypes
  <2>7. Cardinality(taken) = Cardinality(Taken) + 1
    BY <2>6, CreatingIsFinite, FS_AddElement
  <2>8. Cardinality(left) \in Nat /\ Cardinality(Taken) \in Nat
    BY <2>3, CreatingIsFinite, FS_CardinalityType
  <2>9. Cardinality(taken) + Cardinality(left) < ResetLimit + Cardinality(Request)
    BY <2>4, <2>7, <2>8, CreatingIsFinite, AccountAssumption DEF AccountInv, ResetsFit
  <2> QED
    BY <2>1, <2>5, <2>9 DEF ResetsFit
<1> QED
  BY <1>5, <1>6, <1>7, <1>8, <1>9 DEF AccountInv

LEMMA ResetPasswordKeeps ==
  ASSUME AccountInv, NEW k \in Request, NEW i \in Token, ResetPassword(k, i)
  PROVE  AccountInv'
<1>1. PICK c : c = [at |-> "hashed", secret |-> Reset(i)]
  OBVIOUS
<1>2. c \in ResetState /\ c.secret = Reset(i) /\ c.at = "hashed"
  BY <1>1, SecretKinds DEF ResetState
<1>3. c \in Holder /\ c \in RequestState
  BY <1>2, HolderForms
<1>4. /\ Continue(k, c) /\ RaceFor(k, Reset(i)) /\ reset[i] = "live" /\ request[k] = NoRequest
      /\ UNCHANGED <<account, refresh, reset, honoured, rowRaced, passwords, banned, authFaults>>
  BY <1>1 DEF ResetPassword, Reset, Live, tokenVars
<1>5. \A j \in Token : (Has(c, Reset(j)) => j = i) /\ ~Has(c, Refresh(j)) /\ ~Has(request[k], Reset(j))
  BY <1>2, <1>4, SecretsDiffer, HolderForms DEF Has
<1>6. raced \subseteq raced'
  BY <1>4, RaceGrows
<1>7. AccountTypes'
  BY <1>3, <1>4 DEF AccountInv, AccountTypes, Continue
<1>8. RowFits'
  BY <1>2, <1>4, RowQuiet DEF AccountInv, Edits
<1>9. ResetsFit'
  BY <1>2, <1>4, CountKept DEF AccountInv
<1>10. \A j \in Token : RefreshFits(j)'
  BY <1>4, <1>5, <1>6, RefreshQuiet DEF AccountInv
<1>11. ASSUME NEW j \in Token PROVE ResetFits(j)'
  <2>1. CASE j # i
    BY <2>1, <1>4, <1>5, <1>6, ResetQuiet DEF AccountInv
  <2>2. CASE j = i /\ (Reset(i) \in raced' \/ authFaults # 0)
    BY <2>2, <1>4 DEF ResetFits
  <2>3. CASE j = i /\ Reset(i) \notin raced' /\ authFaults = 0
    <3>1. Reset(i) \notin raced /\ \A l \in Request : ~Has(request[l], Reset(i))
      BY <2>3, <1>4, NobodyElse, HolderForms DEF AccountInv, Has
    <3>2. \A l \in Request : Has(request'[l], Reset(i)) => l = k
      BY <3>1, <1>4 DEF Continue, AccountInv, AccountTypes
    <3>3. OneHolder(Reset(i))'
      BY <3>2 DEF OneHolder
    <3>4. honoured[Reset(i)] \in 0..2
      BY SecretKinds DEF AccountInv, AccountTypes
    <3>5. honoured[Reset(i)] = 0
      BY <3>1, <3>4, <2>3, <1>4 DEF AccountInv, ResetFits
    <3> QED
      BY <2>3, <3>3, <3>5, <1>4 DEF ResetFits
  <2> QED
    BY <2>1, <2>2, <2>3, <1>4
<1> QED
  BY <1>7, <1>8, <1>9, <1>10, <1>11 DEF AccountInv

LEMMA MergePasswordKeeps ==
  ASSUME AccountInv, NEW k \in Request, MergePassword(k)
  PROVE  AccountInv'
<1>1. request[k] \in ResetState /\ request[k].at = "hashed"
  BY RequestForms DEF MergePassword, AccountInv, AccountTypes
<1>2. PICK i \in Token : request[k].secret = Reset(i)
  BY <1>1, HolderForms, SecretKinds
<1>3. PICK row : row = [account EXCEPT !.password = passwords']
  OBVIOUS
<1>4. passwords' \in Nat /\ account \in AccountRow /\ passwords' = passwords + 1
  BY DEF MergePassword, AccountInv, AccountTypes
<1>5. row \in AccountRow /\ row.codes = account.codes /\ row.banned = account.banned
  BY <1>3, <1>4 DEF AccountRow
<1>6. PICK c : c = [at |-> "save", secret |-> Reset(i), row |-> row]
  OBVIOUS
<1>7. c \in SaveSecretState /\ c.secret = Reset(i) /\ c.at = "save" /\ c.row = row
  BY <1>5, <1>6, SecretKinds DEF SaveSecretState
<1>8. c \in Holder /\ c \in RequestState
  BY <1>7, HolderForms
<1>9. /\ Continue(k, c) /\ RaceForRow(k)
      /\ UNCHANGED <<account, refresh, reset, honoured, raced, banned, authFaults>>
  BY <1>2, <1>3, <1>6 DEF MergePassword, tokenVars
<1>10. /\ Has(request[k], Reset(i)) /\ Has(c, Reset(i))
       /\ \A j \in Token : /\ ~Has(c, Refresh(j)) /\ ((Has(c, Reset(j)) \/ Has(request[k], Reset(j))) => j = i)
       /\ \A d \in Code : ~Has(c, Backup(d))
  BY <1>1, <1>2, <1>7, <1>8, SecretsDiffer, HolderForms DEF Has
<1>11. AccountTypes'
  BY <1>4, <1>8, <1>9 DEF AccountInv, AccountTypes, Continue
<1>12. RowFits'
  <2>1. EditFits(c)
    BY <1>5, <1>7, <1>10 DEF EditFits
  <2> QED
    BY <2>1, <1>9, RowEdited DEF AccountInv
<1>13. ResetsFit'
  BY <1>7, <1>9, CountKept DEF AccountInv
<1>14. \A j \in Token : RefreshFits(j)'
  BY <1>9, <1>10, RefreshQuiet DEF AccountInv
<1>15. ASSUME NEW j \in Token PROVE ResetFits(j)'
  <2>1. CASE j # i
    BY <2>1, <1>9, <1>10, ResetQuiet DEF AccountInv
  <2>2. CASE j = i
    <3>1. \A l \in Request : Has(request'[l], Reset(i)) => Has(request[l], Reset(i)) /\ (l = k \/ request'[l] = request[l])
      BY <1>9, <1>10 DEF Continue, AccountInv, AccountTypes
    <3>2. reset[i] # "none"
      BY <1>10 DEF AccountInv, ResetFits
    <3>3. CASE Reset(i) \in raced \/ authFaults # 0
      BY <2>2, <3>2, <3>3, <1>9 DEF ResetFits
    <3>4. CASE ~(Reset(i) \in raced \/ authFaults # 0)
      <4>1. OneHolder(Reset(i)) /\ reset[i] = "live" /\ honoured[Reset(i)] = 0
        BY <3>4, <1>1, <1>10 DEF AccountInv, ResetFits
      <4>2. OneHolder(Reset(i))'
        BY <4>1, <3>1 DEF OneHolder
      <4> QED
        BY <2>2, <4>1, <4>2, <1>9 DEF ResetFits
    <3> QED
      BY <3>3, <3>4
  <2> QED
    BY <2>1, <2>2
<1> QED
  BY <1>11, <1>12, <1>13, <1>14, <1>15 DEF AccountInv

LEMMA MarkUsedKeeps ==
  ASSUME AccountInv, NEW k \in Request, MarkUsed(k)
  PROVE  AccountInv'
<1>1. request[k] \in ResetState /\ request[k].at = "mark"
  BY RequestForms DEF MarkUsed, AccountInv, AccountTypes
<1>2. PICK i \in Token : request[k].secret = Reset(i) /\ request[k].secret.key = i
  BY <1>1, HolderForms, SecretKinds
<1>3. /\ Continue(k, NoRequest) /\ reset' = [reset EXCEPT ![i] = "used"]
      /\ UNCHANGED <<account, refresh, honoured, raced, rowRaced, passwords, banned, authFaults>>
  BY <1>2 DEF MarkUsed
<1>4. \A s : ~Has(NoRequest, s)
  BY HolderForms DEF Has
<1>5. Has(request[k], Reset(i)) /\ \A j \in Token : Has(request[k], Reset(j)) => j = i
  BY <1>1, <1>2, SecretsDiffer, HolderForms DEF Has
<1>6. reset'[i] = "used" /\ \A j \in Token : j # i => reset'[j] = reset[j]
  BY <1>3 DEF AccountInv, AccountTypes
<1>7. AccountTypes'
  BY <1>3, HolderForms DEF AccountInv, AccountTypes, Continue
<1>8. RowFits'
  BY <1>3, RowQuiet, HolderForms DEF AccountInv, Edits
<1>9. ResetsFit'
  <2>1. reset[i] # "none"
    BY <1>5 DEF AccountInv, ResetFits
  <2> QED
    BY <2>1, <1>3, <1>6, CountKept, HolderForms DEF AccountInv
<1>10. \A j \in Token : RefreshFits(j)'
  BY <1>3, <1>4, RefreshQuiet DEF AccountInv
<1>11. ASSUME NEW j \in Token PROVE ResetFits(j)'
  <2>1. CASE j # i
    BY <2>1, <1>3, <1>4, <1>5, <1>6, ResetQuiet DEF AccountInv
  <2>2. CASE j = i /\ ~(Reset(i) \in raced \/ authFaults # 0)
    <3>1. OneHolder(Reset(i)) /\ honoured[Reset(i)] <= 1
      BY <2>2 DEF AccountInv, ResetFits
    <3>2. \A l \in Request : ~Has(request'[l], Reset(i))
      BY <3>1, <1>3, <1>4, <1>5 DEF OneHolder, Continue, AccountInv, AccountTypes
    <3>3. OneHolder(Reset(i))'
      BY <3>2 DEF OneHolder
    <3> QED
      BY <2>2, <3>1, <3>2, <3>3, <1>3, <1>6 DEF ResetFits
  <2>3. CASE j = i /\ (Reset(i) \in raced \/ authFaults # 0)
    BY <2>3, <1>3, <1>6 DEF ResetFits
  <2> QED
    BY <2>1, <2>2, <2>3
<1> QED
  BY <1>7, <1>8, <1>9, <1>10, <1>11 DEF AccountInv

\* Backup codes, bans and the save they share.
LEMMA UseBackupCodeKeeps ==
  ASSUME AccountInv, NEW k \in Request, NEW d \in Code, UseBackupCode(k, d)
  PROVE  AccountInv'
<1>1. PICK c : c = [at |-> "code", secret |-> Backup(d), left |-> account.codes \ {d}]
  OBVIOUS
<1>2. account.codes \subseteq Code
  BY DEF AccountInv, AccountTypes, AccountRow
<1>3. c \in CodeState /\ c.secret = Backup(d) /\ c.at = "code" /\ c.left = account.codes \ {d}
  BY <1>1, <1>2, SecretKinds DEF CodeState
<1>4. c \in Holder /\ c \in RequestState
  BY <1>3, HolderForms
<1>5. /\ Continue(k, c) /\ RaceForRow(k) /\ d \in account.codes /\ request[k] = NoRequest
      /\ UNCHANGED <<account, refresh, reset, honoured, raced, passwords, banned, authFaults>>
  BY <1>1 DEF UseBackupCode, Backup, tokenVars
<1>6. \A j \in Token : ~Has(c, Refresh(j)) /\ ~Has(c, Reset(j)) /\ ~Has(request[k], Reset(j))
  BY <1>3, <1>5, SecretsDiffer, HolderForms DEF Has
<1>7. AccountTypes'
  BY <1>4, <1>5 DEF AccountInv, AccountTypes, Continue
<1>8. RowFits'
  <2>1. c.secret.key = d
    BY <1>3 DEF Backup
  <2>2. EditFits(c)
    BY <2>1, <1>3, <1>5 DEF EditFits
  <2> QED
    BY <2>2, <1>5, RowEdited DEF AccountInv
<1>9. ResetsFit'
  BY <1>3, <1>5, CountKept DEF AccountInv
<1>10. \A j \in Token : RefreshFits(j)' /\ ResetFits(j)'
  BY <1>5, <1>6, RefreshQuiet, ResetQuiet DEF AccountInv
<1> QED
  BY <1>7, <1>8, <1>9, <1>10 DEF AccountInv

LEMMA MergeCodesKeeps ==
  ASSUME AccountInv, NEW k \in Request, MergeCodes(k)
  PROVE  AccountInv'
<1>1. request[k] \in CodeState /\ request[k].at = "code"
  BY RequestForms DEF MergeCodes, AccountInv, AccountTypes
<1>2. PICK d \in Code : request[k].secret = Backup(d) /\ request[k].secret.key = d
  BY <1>1, HolderForms, SecretKinds
<1>3. PICK row : row = [account EXCEPT !.codes = request[k].left]
  OBVIOUS
<1>4. request[k].left \subseteq Code /\ account \in AccountRow
  BY <1>1, HolderForms DEF AccountInv, AccountTypes
<1>5. row \in AccountRow /\ row.codes = request[k].left /\ row.banned = account.banned
  BY <1>3, <1>4 DEF AccountRow
<1>6. PICK c : c = [at |-> "save", secret |-> Backup(d), row |-> row]
  OBVIOUS
<1>7. c \in SaveSecretState /\ c.secret = Backup(d) /\ c.at = "save" /\ c.row = row
  BY <1>5, <1>6, SecretKinds DEF SaveSecretState
<1>8. c \in Holder /\ c \in RequestState
  BY <1>7, HolderForms
<1>9. /\ Continue(k, c)
      /\ UNCHANGED <<account, refresh, reset, honoured, raced, rowRaced, passwords, banned, authFaults>>
  BY <1>2, <1>3, <1>6 DEF MergeCodes, tokenVars
<1>10. /\ \A j \in Token : ~Has(c, Refresh(j)) /\ ~Has(c, Reset(j)) /\ ~Has(request[k], Reset(j))
       /\ \A e \in Code : Has(c, Backup(e)) => e = d
  BY <1>1, <1>2, <1>7, SecretsDiffer, HolderForms DEF Has
<1>11. AccountTypes'
  BY <1>8, <1>9 DEF AccountInv, AccountTypes, Continue
<1>12. RowFits'
  <2>1. CASE rowRaced
    BY <2>1, <1>9 DEF RowFits
  <2>2. CASE ~rowRaced
    <3>1. d \in account.codes /\ request[k].left \subseteq account.codes \ {d}
      BY <2>2, <1>1, <1>2 DEF AccountInv, RowFits, EditFits
    <3>2. EditFits(c)
      BY <3>1, <1>5, <1>7, <1>10 DEF EditFits
    <3>3. \A j \in Request : request'[j] = IF j = k THEN c ELSE request[j]
      BY <1>9 DEF Continue, AccountInv, AccountTypes
    <3>4. \A j, l \in Request : Edits(request'[j]) /\ Edits(request'[l]) => j = l
      BY <3>3, <2>2, <1>1 DEF AccountInv, RowFits, Edits
    <3>5. \A j \in Request : EditFits(request'[j])
      BY <3>2, <3>3, <2>2 DEF AccountInv, RowFits
    <3>6. \A r : EditFits(r) <=> EditFits(r)'
      BY <1>9 DEF EditFits
    <3> QED
      BY <3>4, <3>5, <3>6, <2>2, <1>9 DEF AccountInv, RowFits
  <2> QED
    BY <2>1, <2>2
<1>13. ResetsFit'
  BY <1>7, <1>9, CountKept DEF AccountInv
<1>14. \A j \in Token : RefreshFits(j)' /\ ResetFits(j)'
  BY <1>9, <1>10, RefreshQuiet, ResetQuiet DEF AccountInv
<1> QED
  BY <1>11, <1>12, <1>13, <1>14 DEF AccountInv

LEMMA BanUserKeeps ==
  ASSUME AccountInv, NEW k \in Request, BanUser(k)
  PROVE  AccountInv'
<1>1. PICK row : row = [account EXCEPT !.banned = TRUE]
  OBVIOUS
<1>2. row \in AccountRow /\ row.codes = account.codes /\ row.banned = TRUE
  BY <1>1 DEF AccountRow, AccountInv, AccountTypes
<1>3. PICK c : c = [at |-> "save", row |-> row]
  OBVIOUS
<1>4. c \in SaveRowState /\ c.at = "save" /\ c.row = row
  BY <1>2, <1>3 DEF SaveRowState
<1>5. c \notin Holder /\ c \in RequestState
  BY <1>4, HolderForms
<1>6. /\ Continue(k, c) /\ RaceForRow(k) /\ request[k] = NoRequest
      /\ UNCHANGED <<account, refresh, reset, honoured, raced, passwords, banned, authFaults>>
  BY <1>1, <1>3 DEF BanUser, tokenVars
<1>7. \A s : ~Has(c, s) /\ ~Has(request[k], s)
  BY <1>5, <1>6, HolderForms DEF Has
<1>8. AccountTypes'
  BY <1>5, <1>6 DEF AccountInv, AccountTypes, Continue
<1>9. RowFits'
  <2>1. EditFits(c)
    BY <1>2, <1>4, <1>7 DEF EditFits
  <2> QED
    BY <2>1, <1>6, RowEdited DEF AccountInv
<1>10. ResetsFit'
  BY <1>4, <1>6, CountKept DEF AccountInv
<1>11. \A j \in Token : RefreshFits(j)' /\ ResetFits(j)'
  BY <1>6, <1>7, RefreshQuiet, ResetQuiet DEF AccountInv
<1> QED
  BY <1>8, <1>9, <1>10, <1>11 DEF AccountInv

\* The save: what it does to the row, whatever it was made for.
LEMMA RowSaved ==
  ASSUME AccountInv, NEW k \in Request, request[k].at = "save", NEW c, Continue(k, c), ~Edits(c),
         account' = request[k].row, banned' = (banned \/ request[k].row.banned), rowRaced' = rowRaced,
         \A d \in Code : \/ honoured'[Backup(d)] = honoured[Backup(d)]
                         \/ Has(request[k], Backup(d)) /\ (honoured[Backup(d)] = 0 => honoured'[Backup(d)] = 1)
  PROVE  RowFits'
<1>1. \A j \in Request : request'[j] = IF j = k THEN c ELSE request[j]
  BY DEF Continue, AccountInv, AccountTypes
<1>2. CASE rowRaced
  BY <1>2 DEF RowFits
<1>3. CASE ~rowRaced
  <2>1. \A j \in Request : ~Edits(request'[j])
    BY <1>1, <1>3 DEF AccountInv, RowFits, Edits
  <2>2. EditFits(request[k])
    BY <1>3 DEF AccountInv, RowFits
  <2>3. account'.codes \subseteq account.codes /\ (account.banned = TRUE => account'.banned = TRUE)
    BY <2>2 DEF EditFits
  <2>4. ASSUME NEW d \in Code
        PROVE  honoured'[Backup(d)] <= 1 /\ (d \in account'.codes => honoured'[Backup(d)] = 0)
    <3>1. honoured[Backup(d)] <= 1 /\ (d \in account.codes => honoured[Backup(d)] = 0)
      BY <1>3 DEF AccountInv, RowFits
    <3>2. Has(request[k], Backup(d)) => d \in account.codes /\ d \notin account'.codes
      BY <2>2 DEF EditFits
    <3> QED
      BY <3>1, <3>2, <2>3
  <2>5. banned' = TRUE => account'.banned = TRUE
    <3>1. banned' = TRUE => banned \/ request[k].row.banned
      OBVIOUS
    <3>2. account' \in AccountRow
      BY RequestForms, HolderForms DEF AccountInv, AccountTypes
    <3>3. account'.banned \in BOOLEAN /\ banned \in BOOLEAN
      BY <3>2 DEF AccountRow, AccountInv, AccountTypes
    <3>4. banned = TRUE => account.banned = TRUE
      BY <1>3 DEF AccountInv, RowFits
    <3>5. CASE banned' = TRUE /\ banned
      BY <3>3, <3>4, <3>5, <2>3
    <3>6. CASE banned' = TRUE /\ request[k].row.banned
      BY <3>3, <3>6
    <3> QED
      BY <3>1, <3>5, <3>6
  <2>6. \A j \in Request : EditFits(request[j])'
    BY <2>1 DEF EditFits, Edits
  <2> QED
    BY <2>1, <2>4, <2>5, <2>6 DEF RowFits
<1> QED
  BY <1>2, <1>3

LEMMA SavedTypes ==
  ASSUME AccountInv, NEW k \in Request, SaveAccount(k)
  PROVE  account' \in AccountRow /\ banned' \in BOOLEAN
<1>1. request[k] \in SaveSecretState \cup SaveRowState
  BY RequestForms DEF SaveAccount, AccountInv, AccountTypes
<1>2. request[k].row \in AccountRow
  BY <1>1, HolderForms
<1>3. banned' = (banned \/ request[k].row.banned)
  BY DEF SaveAccount
<1>4. banned' \in BOOLEAN
  BY <1>3
<1> QED
  BY <1>2, <1>4 DEF SaveAccount

LEMMA SaveAccountKeeps ==
  ASSUME AccountInv, NEW k \in Request, SaveAccount(k)
  PROVE  AccountInv'
<1>1. request[k] \in SaveSecretState \cup SaveRowState /\ request[k].at = "save"
  BY RequestForms DEF SaveAccount, AccountInv, AccountTypes
<1>2. /\ account' = request[k].row /\ banned' = (banned \/ request[k].row.banned)
      /\ UNCHANGED <<refresh, reset, raced, rowRaced, passwords, authFaults>>
  BY DEF SaveAccount, tokenVars
<1>3. \A s : ~Has(NoRequest, s)
  BY HolderForms DEF Has
<1>4. CASE request[k] \in SaveRowState
  <2>1. UNCHANGED honoured /\ Continue(k, NoRequest)
    BY <1>4, HoldersSecret DEF SaveAccount
  <2>2. \A s : ~Has(request[k], s)
    BY <1>4, HolderForms DEF Has
  <2>3. AccountTypes'
    BY <1>2, <2>1, SavedTypes, HolderForms DEF AccountInv, AccountTypes, Continue
  <2>4. RowFits'
    BY <1>1, <1>2, <2>1, RowSaved, HolderForms DEF Edits
  <2>5. ResetsFit'
    BY <1>2, <2>1, CountKept, HolderForms DEF AccountInv
  <2>6. \A j \in Token : RefreshFits(j)' /\ ResetFits(j)'
    BY <1>2, <1>3, <2>1, <2>2, RefreshQuiet, ResetQuiet DEF AccountInv
  <2> QED
    BY <2>3, <2>4, <2>5, <2>6 DEF AccountInv
<1>5. CASE request[k] \in SaveSecretState /\ request[k].secret \in CodeSecret
  <2>1. PICK d \in Code : request[k].secret = Backup(d)
    BY <1>5, SecretKinds
  <2>2. "secret" \in DOMAIN request[k] /\ Has(request[k], Backup(d)) /\ request[k].secret.kind = "code"
    BY <1>5, <2>1, HoldersSecret, HolderForms, SecretsDiffer DEF Has
  <2>3. Use(Backup(d)) /\ Continue(k, NoRequest)
    BY <2>1, <2>2 DEF SaveAccount
  <2>4. /\ honoured' \in [Secret -> 0..2]
        /\ \A t \in Secret : t # Backup(d) => honoured'[t] = honoured[t]
        /\ honoured[Backup(d)] = 0 => honoured'[Backup(d)] = 1
    BY <2>3, UseCounts, SecretKinds DEF AccountInv
  <2>5. \A j \in Token : /\ honoured'[Refresh(j)] = honoured[Refresh(j)] /\ honoured'[Reset(j)] = honoured[Reset(j)]
                         /\ ~Has(request[k], Reset(j))
    BY <2>1, <2>4, SecretKinds, SecretsDiffer DEF Has
  <2>6. \A e \in Code : e = d \/ honoured'[Backup(e)] = honoured[Backup(e)]
    BY <2>4, SecretKinds, SecretsDiffer
  <2>7. AccountTypes'
    BY <1>2, <2>3, <2>4, SavedTypes, HolderForms DEF AccountInv, AccountTypes, Continue
  <2>8. RowFits'
    <3>1. \A e \in Code : \/ honoured'[Backup(e)] = honoured[Backup(e)]
                          \/ Has(request[k], Backup(e)) /\ (honoured[Backup(e)] = 0 => honoured'[Backup(e)] = 1)
      BY <2>2, <2>4, <2>6
    <3> QED
      BY <3>1, <1>1, <1>2, <2>3, RowSaved, HolderForms DEF Edits
  <2>9. ResetsFit'
    BY <1>2, <2>3, CountKept, HolderForms DEF AccountInv
  <2>10. \A j \in Token : RefreshFits(j)' /\ ResetFits(j)'
    BY <1>2, <1>3, <2>3, <2>5, RefreshQuiet, ResetQuiet DEF AccountInv
  <2> QED
    BY <2>7, <2>8, <2>9, <2>10 DEF AccountInv
<1>6. CASE request[k] \in SaveSecretState /\ request[k].secret \in ResetSecret
  <2>1. PICK i \in Token : request[k].secret = Reset(i)
    BY <1>6, SecretKinds
  <2>2. "secret" \in DOMAIN request[k] /\ Has(request[k], Reset(i)) /\ request[k].secret.kind = "reset"
    BY <1>6, <2>1, HoldersSecret, HolderForms, SecretsDiffer DEF Has
  <2>3. PICK c : c = [at |-> "mark", secret |-> Reset(i)]
    OBVIOUS
  <2>4. Use(Reset(i)) /\ Continue(k, c)
    BY <2>1, <2>2, <2>3 DEF SaveAccount
  <2>5. c \in ResetState /\ c.at = "mark" /\ c.secret = Reset(i)
    BY <2>3, SecretKinds DEF ResetState
  <2>6. /\ honoured' \in [Secret -> 0..2]
        /\ \A t \in Secret : t # Reset(i) => honoured'[t] = honoured[t]
        /\ honoured[Reset(i)] = 0 => honoured'[Reset(i)] = 1
    BY <2>4, UseCounts, SecretKinds DEF AccountInv
  <2>7. c \in RequestState /\ c \in Holder
    BY <2>5, HolderForms
  <2>8. \A j \in Token : /\ honoured'[Refresh(j)] = honoured[Refresh(j)] /\ ~Has(c, Refresh(j))
                         /\ (j # i => honoured'[Reset(j)] = honoured[Reset(j)] /\ ~Has(c, Reset(j)) /\ ~Has(request[k], Reset(j)))
    BY <2>1, <2>5, <2>6, SecretKinds, SecretsDiffer DEF Has
  <2>9. \A e \in Code : honoured'[Backup(e)] = honoured[Backup(e)]
    BY <2>6, SecretKinds, SecretsDiffer
  <2>10. AccountTypes'
    BY <1>2, <2>4, <2>6, <2>7, SavedTypes DEF AccountInv, AccountTypes, Continue
  <2>11. RowFits'
    BY <1>1, <1>2, <2>4, <2>5, <2>9, RowSaved DEF Edits
  <2>12. ResetsFit'
    BY <1>2, <2>4, <2>5, CountKept DEF AccountInv
  <2>13. \A j \in Token : RefreshFits(j)'
    BY <1>2, <2>4, <2>8, RefreshQuiet DEF AccountInv
  <2>14. ASSUME NEW j \in Token PROVE ResetFits(j)'
    <3>1. CASE j # i
      BY <3>1, <1>2, <2>4, <2>8, ResetQuiet DEF AccountInv
    <3>2. CASE j = i
      <4>1. \A l \in Request : request'[l] = IF l = k THEN c ELSE request[l]
        BY <2>4 DEF Continue, AccountInv, AccountTypes
      <4>2. Has(c, Reset(i)) /\ reset[i] # "none"
        BY <2>2, <2>5, <2>7 DEF Has, AccountInv, ResetFits
      <4>3. CASE Reset(i) \in raced \/ authFaults # 0
        BY <3>2, <4>2, <4>3, <1>2 DEF ResetFits
      <4>4. CASE ~(Reset(i) \in raced \/ authFaults # 0)
        <5>1. OneHolder(Reset(i)) /\ reset[i] = "live" /\ honoured[Reset(i)] = 0
          BY <4>4, <1>1, <2>2 DEF AccountInv, ResetFits
        <5>2. \A l \in Request : Has(request'[l], Reset(i)) => l = k
          BY <5>1, <4>1, <2>2 DEF OneHolder
        <5>3. OneHolder(Reset(i))'
          BY <5>2 DEF OneHolder
        <5>4. honoured'[Reset(i)] = 1 /\ reset'[i] = "live" /\ Has(request'[k], Reset(i)) /\ request'[k].at = "mark"
          BY <5>1, <4>1, <4>2, <2>5, <2>6, <1>2
        <5>5. \A l \in Request : Has(request'[l], Reset(i)) => request'[l].at = "mark"
          BY <5>2, <5>4
        <5> QED
          BY <3>2, <5>3, <5>4, <5>5 DEF ResetFits
      <4> QED
        BY <4>3, <4>4
    <3> QED
      BY <3>1, <3>2
  <2> QED
    BY <2>10, <2>11, <2>12, <2>13, <2>14 DEF AccountInv
<1> QED
  BY <1>1, <1>4, <1>5, <1>6, HolderForms

LEMMA AbortRequestKeeps ==
  ASSUME AccountInv, NEW k \in Request, AbortRequest(k)
  PROVE  AccountInv'
<1>1. /\ Continue(k, NoRequest) /\ authFaults' = authFaults + 1
      /\ UNCHANGED <<account, refresh, reset, honoured, raced, rowRaced, passwords, banned>>
  BY DEF AbortRequest, tokenVars
<1>2. \A s : ~Has(NoRequest, s)
  BY HolderForms DEF Has
<1>3. authFaults' \in Nat /\ authFaults' # 0
  BY <1>1 DEF AccountInv, AccountTypes
<1>4. AccountTypes'
  BY <1>1, <1>3, HolderForms DEF AccountInv, AccountTypes, Continue
<1>5. RowFits'
  BY <1>1, RowQuiet, HolderForms DEF AccountInv, Edits
<1>6. ResetsFit'
  BY <1>1, CountKept, HolderForms DEF AccountInv
<1>7. \A j \in Token : RefreshFits(j)'
  BY <1>1, <1>2, RefreshQuiet DEF AccountInv
<1>8. ASSUME NEW j \in Token PROVE ResetFits(j)'
  <2>1. \A l \in Request : Has(request'[l], Reset(j)) => Has(request[l], Reset(j))
    BY <1>1, <1>2 DEF Continue, AccountInv, AccountTypes
  <2> QED
    BY <2>1, <1>1, <1>3 DEF AccountInv, ResetFits
<1> QED
  BY <1>4, <1>5, <1>6, <1>7, <1>8 DEF AccountInv

LEMMA AccountStep == AccountInv /\ (AccountNext \/ UNCHANGED accountVars) => AccountInv'
<1> SUFFICES ASSUME AccountInv, AccountNext \/ UNCHANGED accountVars PROVE AccountInv'
  OBVIOUS
<1>1. CASE UNCHANGED accountVars
  BY <1>1 DEF accountVars, tokenVars, AccountInv, AccountTypes, RowFits, EditFits, Edits, ResetsFit, Taken, Creating, RefreshFits,
              ResetFits, OneHolder, Has
<1>2. CASE AccountNext
  BY <1>2, FindRefreshKeeps, RevokeKeeps, IssuePairKeeps, ForgotPasswordKeeps, SaveResetTokenKeeps, ResetPasswordKeeps,
     MergePasswordKeeps, MarkUsedKeeps, UseBackupCodeKeeps, MergeCodesKeeps, BanUserKeeps, SaveAccountKeeps, AbortRequestKeeps
     DEF AccountNext
<1> QED
  BY <1>1, <1>2

LEMMA AccountFollows == AccountInv => SecretsAreSpentOnce
<1> SUFFICES ASSUME AccountInv PROVE SecretsAreSpentOnce
  OBVIOUS
<1>1. \A i \in Token : honoured[Refresh(i)] > 1 => Refresh(i) \in raced
  BY SecretKinds DEF AccountInv, AccountTypes, RefreshFits
<1>2. \A i \in Token : honoured[Reset(i)] > 1 => Reset(i) \in raced \/ authFaults > 0
  BY SecretKinds DEF AccountInv, AccountTypes, ResetFits
<1>3. \A d \in Code : honoured[Backup(d)] > 1 => rowRaced
  BY SecretKinds DEF AccountInv, AccountTypes, RowFits
<1>4. \A s \in Secret : s \in RefreshSecret \/ s \in ResetSecret \/ s \in CodeSecret
  BY DEF Secret, RefreshSecret, ResetSecret, CodeSecret
<1>5. \A s \in Secret :
        honoured[s] > 1 => s \in raced \/ (s.kind = "code" /\ rowRaced) \/ (s.kind = "reset" /\ authFaults > 0)
  BY <1>1, <1>2, <1>3, <1>4, SecretKinds, SecretsDiffer
<1>6. banned /\ ~account.banned => rowRaced
  <2>1. PICK b : b = account.banned
    OBVIOUS
  <2>2. banned \in BOOLEAN /\ b \in BOOLEAN
    BY <2>1 DEF AccountInv, AccountTypes, AccountRow
  <2>3. rowRaced \/ (banned = TRUE => b = TRUE)
    BY <2>1 DEF AccountInv, RowFits
  <2>4. banned /\ ~b => rowRaced
    BY <2>2, <2>3
  <2> QED
    BY <2>1, <2>4
<1>7. Cardinality(Taken) < ResetLimit + Cardinality(Request)
  BY CreatingIsFinite, FS_CardinalityType, AccountAssumption DEF AccountInv, ResetsFit
<1> QED
  BY <1>5, <1>6, <1>7 DEF SecretsAreSpentOnce, Taken

----------------------------------------------------------------------------
(* The services together.                                                  *)

ServicesInv ==
  /\ LedgerInv /\ AccountInv
  /\ CouponInv /\ PayoutInv /\ SubscriptionInv
  /\ ForumInv /\ GradeInv

\* A step is one service's, the others stand still.
LEMMA CommerceFrames ==
  /\ CouponNext => UNCHANGED <<payoutVars, subscriptionVars>>
  /\ PayoutNext => UNCHANGED <<couponVars, subscriptionVars>>
  /\ SubscriptionNext => UNCHANGED <<couponVars, payoutVars>>
<1>1. CouponNext => UNCHANGED <<payoutVars, subscriptionVars>>
  BY DEF CouponNext, ValidateCoupon, IncrementUsage, EditCoupon, SaveCoupon
<1>2. PayoutNext => UNCHANGED <<couponVars, subscriptionVars>>
  BY DEF PayoutNext, StartRun, FetchPage, SavePayout, RemoveCompletion, EnterPeriod, DecideKyc, ProcessPayout
<1>3. SubscriptionNext => UNCHANGED <<couponVars, payoutVars>>
  BY DEF SubscriptionNext, ReportEvent, ReceiveCompleted, SaveTier, ReceiveUpdated
<1> QED
  BY <1>1, <1>2, <1>3

LEMMA CommunityFrames ==
  /\ ForumNext => UNCHANGED assignmentVars /\ communityFaults' \in {communityFaults, communityFaults + 1}
  /\ AssignmentNext => UNCHANGED forumVars /\ communityFaults' \in {communityFaults, communityFaults + 1}
<1>1. ForumNext => UNCHANGED assignmentVars /\ communityFaults' \in {communityFaults, communityFaults + 1}
  BY DEF ForumNext, VotePost, FindVote, SaveVote, SavePost, ReplyWithAnswer, ClearAnswers, SaveReply
<1>2. AssignmentNext => UNCHANGED forumVars /\ communityFaults' \in {communityFaults, communityFaults + 1}
  BY DEF AssignmentNext, AssignReviewers, SaveAssigned, SubmitPeerReview, SaveReview, CalculateFinalGrade, InstructorOverride,
         Resubmit, SelectSubmission, UpdateSubmission
<1> QED
  BY <1>1, <1>2

LEMMA ServiceSteps ==
  ASSUME [Next]_vars
  PROVE  /\ LedgerCallNext \/ UNCHANGED ledgerVars
         /\ AccountNext \/ UNCHANGED accountVars
         /\ CouponNext \/ UNCHANGED couponVars
         /\ PayoutNext \/ UNCHANGED payoutVars
         /\ SubscriptionNext \/ UNCHANGED subscriptionVars
         /\ ForumNext \/ (UNCHANGED forumVars /\ communityFaults' \in {communityFaults, communityFaults + 1})
         /\ AssignmentNext \/ (UNCHANGED assignmentVars /\ communityFaults' \in {communityFaults, communityFaults + 1})
<1>1. ASSUME UNCHANGED vars
      PROVE  /\ UNCHANGED ledgerVars /\ UNCHANGED accountVars /\ UNCHANGED couponVars /\ UNCHANGED payoutVars
             /\ UNCHANGED subscriptionVars /\ UNCHANGED forumVars /\ UNCHANGED assignmentVars
             /\ communityFaults' \in {communityFaults, communityFaults + 1}
  BY <1>1 DEF vars, commerceVars, communityVars
<1>2. ASSUME UNCHANGED commerceVars PROVE UNCHANGED couponVars /\ UNCHANGED payoutVars /\ UNCHANGED subscriptionVars
  BY <1>2 DEF commerceVars
<1>3. ASSUME UNCHANGED communityVars
      PROVE  /\ UNCHANGED forumVars /\ UNCHANGED assignmentVars
             /\ communityFaults' \in {communityFaults, communityFaults + 1}
  BY <1>3 DEF communityVars
<1>4. CASE Next
  BY <1>2, <1>3, <1>4, CommerceFrames, CommunityFrames DEF Next
<1> QED
  BY <1>1, <1>4

LEMMA ServicesCorrect == Spec => []ServicesInv
<1>1. Init => ServicesInv
  BY LedgerStart, AccountStart, CouponStart, PayoutStart, SubscriptionStart, ForumStart, GradeStart DEF Init, ServicesInv
<1>2. ServicesInv /\ [Next]_vars => ServicesInv'
  BY ServiceSteps, LedgerStep, AccountStep, CouponStep, PayoutStep, SubscriptionStep, ForumStep, AssignmentStep DEF ServicesInv
<1> QED
  BY <1>1, <1>2, PTL DEF Spec

\* The count of pending transactions is the calls in flight until the server
\* has stopped, and a shutdown that saw it at zero cut off none. A call is
\* applied once per attempt at the most, and more than once only if an answer
\* was lost: the retry loop submits again whatever the error was
\* (stellar.service).
THEOREM CallsAreCounted == Spec => []CallsAreAccounted
<1>1. ServicesInv => CallsAreAccounted
  BY LedgerFollows DEF ServicesInv
<1> QED
  BY <1>1, ServicesCorrect, PTL

\* A refresh token, a reset token and a backup code are honoured once, and a
\* ban stays, unless two requests worked on the same secret or row at a time
\* or a reset died before its token was marked; the reset tokens of an hour
\* exceed their limit by less than the requests that overlap (token.service,
\* auth.service, mfa.service, users.service).
THEOREM SecretsAreKept == Spec => []SecretsAreSpentOnce
<1>1. ServicesInv => SecretsAreSpentOnce
  BY AccountFollows DEF ServicesInv
<1> QED
  BY <1>1, ServicesCorrect, PTL

\* Unless an edit races a use, a coupon is granted as often as it is counted,
\* and beyond its limit by less than the checkouts that overlap; a payout is
\* for no more completions than the period held, and is processed only for an
\* instructor whose KYC was approved; events handled in their order leave the
\* tier paid from the checkout to the first status that is not active
\* (coupons.service, payouts.service, subscriptions.service).
THEOREM LimitsAreKept == Spec => []LimitsHold
<1>1. ServicesInv => LimitsHold
  BY CommerceFollows DEF ServicesInv
<1> QED
  BY <1>1, ServicesCorrect, PTL

\* The instructor's grade is the final one as long as no save was mixed with
\* another. At rest, and where no two requests had the row at a time and none
\* died, the counters of a post are the votes there are, a post has the answer
\* it names, and a grade is what the reviews or the instructor say
\* (forums.service, assignments.service).
THEOREM TalliesAgree == Spec => []TalliesAndGradesAgree
<1>1. ServicesInv => TalliesAndGradesAgree
  BY CommunityFollows DEF ServicesInv
<1> QED
  BY <1>1, ServicesCorrect, PTL
=============================================================================
