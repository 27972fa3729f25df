------------------------------ MODULE Indexer ------------------------------
(***************************************************************************)
(* StellarIndexerService and the balance cache of StellarService           *)
(* (apps/backend/src/stellar). Polls overlap when one takes longer than    *)
(* the interval, and every replica polls; the cursor is kept in the shared *)
(* cache. Handlers of token transfers drop a cached balance that a reader  *)
(* may be about to fill.                                                   *)
(***************************************************************************)
EXTENDS Naturals, FiniteSets, FiniteSetsExt

CONSTANTS
  Poller,       \* polls that may overlap
  Reader,       \* calls of getTokenBalance that may overlap
  MaxLedger,    \* bound: ledgers that close
  MaxEvents,    \* bound: transfers of the account, at most one per ledger
  PageLimit,    \* events the RPC node returns at once
  MaxPollFaults \* bound: polls that die and handlers that throw

Ledger == 1..MaxLedger

ASSUME IndexerAssumption ==
  /\ {MaxEvents, MaxPollFaults} \subseteq Nat
  /\ {MaxLedger, PageLimit} \subseteq Nat \ {0}

VARIABLES
  indexing,  \* contract ids are configured: onModuleInit sets the timer
  closed,    \* the network's latest ledger; a transfer per ledger changes the balance
  transfers, \* ledgers with a transfer event
  cursor,    \* indexer:last_ledger in the cache, 0 when absent
  poll,      \* per poller: "idle", or what it fetched and has not handled yet
  handled,   \* history: events whose handler ran
  failed,    \* history: events whose handler threw
  cut,       \* history: events that did not fit a page
  cached,    \* token_balance in the cache: the ledger it was read at, 0 when absent
  reading,   \* per reader: 0, or the ledger of the balance it will cache
  pollFaults

indexerVars == <<indexing, closed, transfers, cursor, poll, handled, failed, cut, cached, reading, pollFaults>>

NoPoll == [at |-> "idle", since |-> 0, events |-> {}, latest |-> 0]

IndexerTypeOK ==
  /\ indexing \in BOOLEAN
  /\ closed \in Ledger /\ transfers \subseteq Ledger /\ cursor \in 0..MaxLedger
  /\ poll \in [Poller -> [at : {"idle", "fetch", "handle"}, since : 0..MaxLedger,
                         events : SUBSET Ledger, latest : 0..MaxLedger]]
  /\ handled \subseteq transfers /\ failed \subseteq transfers /\ cut \subseteq transfers
  /\ cached \in 0..MaxLedger /\ reading \in [Reader -> 0..MaxLedger]
  /\ pollFaults \in 0..MaxPollFaults

IndexerInit ==
  /\ indexing \in BOOLEAN /\ closed = 1 /\ transfers = {} /\ cursor = 0
  /\ poll = [p \in Poller |-> NoPoll]
  /\ handled = {} /\ failed = {} /\ cut = {}
  /\ cached = 0 /\ reading = [r \in Reader |-> 0] /\ pollFaults = 0

----------------------------------------------------------------------------
\* The network closes a ledger, with or without a transfer of the account.
CloseLedger ==
  /\ closed < MaxLedger
  /\ closed' = closed + 1
  /\ \/ Cardinality(transfers) < MaxEvents /\ transfers' = transfers \cup {closed'}
     \/ UNCHANGED transfers
  /\ UNCHANGED <<indexing, cursor, poll, handled, failed, cut, cached, reading, pollFaults>>

\* The events of one page: the earliest from startLedger on, that one included.
Page(start) ==
  LET all == {l \in transfers : l >= start}
  IN  {l \in all : Cardinality({k \in all : k < l}) < PageLimit}

\* poll reads the cursor,
StartPoll(p) ==
  /\ indexing /\ poll[p] = NoPoll
  /\ poll' = [poll EXCEPT ![p] = [NoPoll EXCEPT !.at = "fetch", !.since = cursor]]
  /\ UNCHANGED <<indexing, closed, transfers, cursor, handled, failed, cut, cached, reading, pollFaults>>

\* Faulty variant of FetchEvents: the cursor moves before the events are handled.
FetchAndAdvance(p) ==
  LET page == Page(poll[p].since)
  IN  /\ poll[p].at = "fetch"
      /\ poll' = [poll EXCEPT ![p] = [@ EXCEPT !.at = "handle", !.events = page, !.latest = closed]]
      /\ cut' = cut \cup ({l \in transfers : l >= poll[p].since} \ page)
      /\ cursor' = closed
      /\ UNCHANGED <<indexing, closed, transfers, handled, failed, cached, reading, pollFaults>>

\* and asks for the events since.
FetchEvents(p) ==
  LET page == Page(poll[p].since)
  IN  /\ poll[p].at = "fetch"
      /\ poll' = [poll EXCEPT ![p] = [@ EXCEPT !.at = "handle", !.events = page, !.latest = closed]]
      /\ cut' = cut \cup ({l \in transfers : l >= poll[p].since} \ page)
      /\ UNCHANGED <<indexing, closed, transfers, cursor, handled, failed, cached, reading, pollFaults>>

\* handleEvent, in the order of the ledgers; what it throws is logged.
HandleEvent(p) ==
  /\ poll[p].events # {}
  /\ LET l == Min(poll[p].events)
     IN  /\ poll' = [poll EXCEPT ![p].events = @ \ {l}]
         /\ \/ handled' = handled \cup {l} /\ cached' = 0 /\ UNCHANGED <<failed, pollFaults>>
            \/ /\ pollFaults < MaxPollFaults /\ pollFaults' = pollFaults + 1
               /\ failed' = failed \cup {l} /\ UNCHANGED <<handled, cached>>
  /\ UNCHANGED <<indexing, closed, transfers, cursor, cut, reading>>

\* An overlapping poll that read an older cursor may move it back.
SaveCursor(p) ==
  /\ poll[p].at = "handle" /\ poll[p].events = {}
  /\ cursor' = IF poll[p].latest > poll[p].since THEN poll[p].latest ELSE cursor
  /\ poll' = [poll EXCEPT ![p] = NoPoll]
  /\ UNCHANGED <<indexing, closed, transfers, handled, failed, cut, cached, reading, pollFaults>>

\* The RPC node or the cache refuses, or the process dies.
DropPoll(p) ==
  /\ poll[p] # NoPoll
  /\ pollFaults < MaxPollFaults /\ pollFaults' = pollFaults + 1
  /\ poll' = [poll EXCEPT ![p] = NoPoll]
  /\ UNCHANGED <<indexing, closed, transfers, cursor, handled, failed, cut, cached, reading>>

----------------------------------------------------------------------------
\* getTokenBalance misses the cache and simulates the call.
ReadBalance(r) ==
  /\ reading[r] = 0 /\ cached = 0
  /\ reading' = [reading EXCEPT ![r] = closed]
  /\ UNCHANGED <<indexing, closed, transfers, cursor, poll, handled, failed, cut, cached, pollFaults>>

FillCache(r) ==
  /\ reading[r] # 0
  /\ cached' = reading[r]
  /\ reading' = [reading EXCEPT ![r] = 0]
  /\ UNCHANGED <<indexing, closed, transfers, cursor, poll, handled, failed, cut, pollFaults>>

\* Faulty variant of ExpireBalance: cached without a time to live.
NeverExpire == cached # 0 /\ UNCHANGED indexerVars

\* The 30 seconds of the entry are over.
ExpireBalance ==
  /\ cached # 0 /\ cached' = 0
  /\ UNCHANGED <<indexing, closed, transfers, cursor, poll, handled, failed, cut, reading, pollFaults>>

IndexerNext ==
  \/ CloseLedger \/ ExpireBalance
  \/ \E p \in Poller : StartPoll(p) \/ FetchEvents(p) \/ HandleEvent(p) \/ SaveCursor(p) \/ DropPoll(p)
  \/ \E r \in Reader : ReadBalance(r) \/ FillCache(r)

\* The interval fires, the handlers and readers get their answers, entries expire.
IndexerFairness ==
  /\ \A p \in Poller : /\ WF_indexerVars(StartPoll(p))
                      /\ WF_indexerVars(FetchEvents(p) \/ HandleEvent(p) \/ SaveCursor(p))
  /\ \A r \in Reader : WF_indexerVars(FillCache(r))
  /\ WF_indexerVars(ExpireBalance)

\* However polls overlap, die and move the cursor back, an event behind the
\* cursor was given to a handler, unless its page was full.
NoEventIsSkipped ==
  \A l \in transfers : l < cursor => l \in handled \cup failed \cup cut

\* A balance that no longer holds is not served for ever: from some time on
\* the cache is empty or right, although a reader may fill it with an old
\* balance after the indexer has dropped it.
BalanceCacheConverges == <>[](cached # 0 => ~\E l \in transfers : l > cached)
=============================================================================
