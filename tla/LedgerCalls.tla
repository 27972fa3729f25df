---------------------------- MODULE LedgerCalls ----------------------------
(***************************************************************************)
(* The transactions of StellarService (apps/backend/src/stellar) through   *)
(* the Soroban RPC: recordEnrollment, recordProgress and mintReward share  *)
(* one issuer account, whose sequence number every call reads before it    *)
(* submits, are retried, and are counted until they return, which the      *)
(* shutdown waits for. The RPC takes a transaction with the next sequence  *)
(* number when none of the account is queued, and reports any other in the *)
(* status of an answer that invokeContract does not look at.               *)
(***************************************************************************)
EXTENDS Naturals, FiniteSets

CONSTANTS
  Caller,        \* calls that run at a time
  Attempts,      \* tries of pRetry: the first and MAX_RETRIES more
  MaxLedgerCalls,\* bound: calls
  MaxRpcFaults   \* bound: requests of the RPC that throw

NoLedgerCall == [at |-> "idle"]
NoTx == 0        \* no transaction is queued

ASSUME LedgerCallAssumption ==
  IsFiniteSet(Caller) /\ Attempts \in Nat \ {0} /\ {MaxLedgerCalls, MaxRpcFaults} \subseteq Nat

VARIABLES
  sequence,      \* transactions applied for the issuer
  queued,        \* id of the call whose transaction waits for a ledger
  ledgerCall,    \* the calls
  pendingTransactionCount,
  server,        \* "up", "stopping", "stopped"
  applied,       \* history: transactions applied for each call, by its id
  hashed,        \* history: calls that returned a hash
  accepted,      \* history: calls with a transaction that was queued
  disturbed,     \* history: calls beside which another was in flight or queued
  lostAnswers,   \* history: calls a request of which threw
  cutOff,        \* history: calls in flight when the server stopped in time
  ledgerCalls, rpcFaults

ledgerHistory == <<hashed, disturbed, lostAnswers>>
ledgerVars == <<sequence, queued, ledgerCall, pendingTransactionCount, server, applied, accepted, cutOff,
                ledgerHistory, ledgerCalls, rpcFaults>>

Id == 1..MaxLedgerCalls
InFlight == {k \in Caller : ledgerCall[k] # NoLedgerCall}

LedgerCallTypeOK ==
  /\ sequence \in Nat /\ queued \in Id \cup {NoTx} /\ pendingTransactionCount \in 0..Cardinality(Caller)
  /\ server \in {"up", "stopping", "stopped"} /\ applied \in [Id -> Nat]
  /\ {hashed, accepted, disturbed, lostAnswers, cutOff} \subseteq SUBSET Id
  /\ \A k \in InFlight : ledgerCall[k].id \in Id /\ ledgerCall[k].try \in 1..Attempts

LedgerCallInit ==
  /\ sequence = 0 /\ queued = NoTx /\ ledgerCall = [k \in Caller |-> NoLedgerCall]
  /\ pendingTransactionCount = 0 /\ server = "up" /\ applied = [i \in Id |-> 0]
  /\ hashed = {} /\ accepted = {} /\ disturbed = {} /\ lostAnswers = {} /\ cutOff = {}
  /\ ledgerCalls = 0 /\ rpcFaults = 0

Step(k, next) == ledgerCall' = [ledgerCall EXCEPT ![k] = next]
Ids(calls) == {ledgerCall[k].id : k \in calls}

\* trackTransaction counts the call. A server that is stopping still takes
\* requests.
BeginCall(k) ==
  /\ server # "stopped" /\ ledgerCall[k] = NoLedgerCall
  /\ ledgerCalls < MaxLedgerCalls /\ ledgerCalls' = ledgerCalls + 1
  /\ pendingTransactionCount' = pendingTransactionCount + 1
  /\ Step(k, [at |-> "load", id |-> ledgerCalls', try |-> 1])
  /\ disturbed' = IF InFlight = {} /\ queued = NoTx THEN disturbed
                  ELSE disturbed \cup Ids(InFlight) \cup {ledgerCalls'}
  /\ UNCHANGED <<sequence, queued, server, applied, accepted, cutOff, hashed, lostAnswers, rpcFaults>>

\* Faulty variant of EndCall: the last attempt is never counted out.
EndCallOnSuccess(k) ==
  /\ Step(k, NoLedgerCall)
  /\ pendingTransactionCount' = IF ledgerCall[k].try = Attempts THEN pendingTransactionCount
                                ELSE pendingTransactionCount - 1

\* The finally of trackTransaction.
EndCall(k) ==
  /\ Step(k, NoLedgerCall)
  /\ pendingTransactionCount' = IF pendingTransactionCount > 0 THEN pendingTransactionCount - 1 ELSE 0

\* A request that throws is retried, until the attempts are used up.
Retry(k) ==
  /\ rpcFaults < MaxRpcFaults /\ rpcFaults' = rpcFaults + 1
  /\ lostAnswers' = lostAnswers \cup {ledgerCall[k].id}
  /\ IF ledgerCall[k].try = Attempts THEN EndCall(k)
     ELSE /\ Step(k, [at |-> "load", id |-> ledgerCall[k].id, try |-> ledgerCall[k].try + 1])
          /\ UNCHANGED pendingTransactionCount

\* getAccount, and the simulation of the transaction built from it.
LoadAccount(k) ==
  /\ server # "stopped" /\ ledgerCall[k].at = "load"
  /\ \/ /\ Step(k, [at |-> "send", id |-> ledgerCall[k].id, try |-> ledgerCall[k].try, seq |-> sequence + 1])
        /\ UNCHANGED <<pendingTransactionCount, lostAnswers, rpcFaults>>
     \/ Retry(k)
  /\ UNCHANGED <<sequence, queued, server, applied, accepted, cutOff, hashed, disturbed, ledgerCalls>>

\* What the RPC does with a transaction, whatever it answers.
Submit(k) ==
  LET my == ledgerCall[k]
  IN  IF my.seq = sequence + 1 /\ queued = NoTx
      THEN queued' = my.id /\ accepted' = accepted \cup {my.id}
      ELSE UNCHANGED <<queued, accepted>>

\* invokeContract returns the hash whatever the status of the answer. A
\* request that throws may have reached the RPC.
SendTransaction(k) ==
  /\ server # "stopped" /\ ledgerCall[k].at = "send"
  /\ \/ /\ Submit(k) /\ EndCall(k)
        /\ hashed' = hashed \cup {ledgerCall[k].id}
        /\ UNCHANGED <<lostAnswers, rpcFaults>>
     \/ /\ Submit(k) \/ UNCHANGED <<queued, accepted>>
        /\ Retry(k)
        /\ UNCHANGED hashed
  /\ UNCHANGED <<sequence, server, applied, cutOff, disturbed, ledgerCalls>>

\* A ledger closes with the queued transaction, or its 30 seconds are over.
CloseOrExpire ==
  /\ queued # NoTx /\ queued' = NoTx
  /\ \/ sequence' = sequence + 1 /\ applied' = [applied EXCEPT ![queued] = @ + 1]
     \/ UNCHANGED <<sequence, applied>>
  /\ UNCHANGED <<ledgerCall, pendingTransactionCount, server, accepted, cutOff, ledgerHistory, ledgerCalls, rpcFaults>>

\* onApplicationShutdown.
Shutdown ==
  /\ server = "up" /\ server' = "stopping"
  /\ UNCHANGED <<sequence, queued, ledgerCall, pendingTransactionCount, applied, accepted, cutOff,
                 ledgerHistory, ledgerCalls, rpcFaults>>

\* It ends when nothing is pending, or after SHUTDOWN_TIMEOUT_MS with
\* whatever still is.
Stop ==
  /\ server = "stopping" /\ server' = "stopped"
  /\ cutOff' = IF pendingTransactionCount = 0 THEN Ids(InFlight) ELSE {}
  /\ UNCHANGED <<sequence, queued, ledgerCall, pendingTransactionCount, applied, accepted,
                 ledgerHistory, ledgerCalls, rpcFaults>>

LedgerCallNext ==
  \/ \E k \in Caller : BeginCall(k) \/ LoadAccount(k) \/ SendTransaction(k)
  \/ CloseOrExpire \/ Shutdown \/ Stop

----------------------------------------------------------------------------
\* Every call in flight is counted, however it ends, so that a shutdown that
\* does not time out cuts off none. A call is applied once per attempt at the
\* most, and more than once only if an answer was lost; a call that no other
\* transaction of the issuer disturbs and whose requests do not throw has its
\* hash for a transaction that was accepted.
CallsAreAccounted ==
  /\ server # "stopped" => pendingTransactionCount = Cardinality(InFlight)
  /\ cutOff = {}
  /\ \A i \in Id : applied[i] <= Attempts /\ (applied[i] > 1 => i \in lostAnswers)
  /\ hashed \ (disturbed \cup lostAnswers) \subseteq accepted
============================================================================
