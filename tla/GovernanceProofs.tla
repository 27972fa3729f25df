-------------------------- MODULE GovernanceProofs --------------------------
(***************************************************************************)
(* Safety of the governance contract for every set of holders, every       *)
(* balance they ever have, any number of items and ledgers, and any set of *)
(* upgradable contracts.                                                   *)
(*                                                                         *)
(* The properties are not inductive alone. A new item takes an id nobody   *)
(* can have voted under (IdsAreFresh) and that the other kind of item does *)
(* not hold (KindsAreApart); a passed approval is found by execute_upgrade *)
(* under the timelock it was proposed with (ApprovalsAreTimed); a tally    *)
(* counts voters because only finitely many have voted (BallotsAreFinite). *)
(***************************************************************************)
EXTENDS Contracts, FiniteSetTheorems, SequenceTheorems, TLAPS

IdsAreFresh ==
  /\ \A i \in DOMAIN proposal \cup DOMAIN upgrade : i < nextProposalId
  /\ \A k \in DOMAIN vote : k[1] < nextProposalId

KindsAreApart == DOMAIN proposal \cap DOMAIN upgrade = {}

ApprovalsAreTimed ==
  /\ \A i \in DOMAIN timelockExpiry :
       i \in DOMAIN upgrade /\ timelockExpiry[i] = upgrade[i].timelock_ledger
  /\ \A i \in DOMAIN upgrade : upgrade[i].timelock_ledger > upgrade[i].voting_end_ledger

BallotsAreFinite == \A i \in Id, s \in BOOLEAN : IsFiniteSet(Ballots(i, s))

Executed(c) == {i \in DOMAIN upgrade : upgrade[i].executed /\ upgrade[i].contract_address = c}

Voted(c) == {upgrade[i].new_wasm_hash : i \in Executed(c)}

\* What the record r of a target amounts to after the interventions touch and
\* n executed upgrades: a target obeys another address only if told to.
Accounted(r, touch, n, hashes) ==
  /\ r.governance = "other" => "moved" \in touch
  /\ r.migrated <= r.version
  /\ "reset" \notin touch => r.version >= 1 + n
  /\ touch \cap {"reset", "moved"} = {} => r.version = 1 + n
  /\ "moved" \notin touch => Len(r.history) = n
  /\ "patched" \notin touch => Head(Append(r.history, r.wasm)) = Genesis
  /\ touch \cap {"moved", "patched"} = {} => r.wasm \in hashes \cup {Genesis}

InstalledOnce(c) == Accounted(code[c], touched[c], Cardinality(Executed(c)), Voted(c))

TargetsAccounted == \A c \in Target : InstalledOnce(c)

IInv ==
  /\ TypeOK
  /\ IdsAreFresh
  /\ KindsAreApart
  /\ ApprovalsAreTimed
  /\ BallotsAreFinite
  /\ TalliesMatchBallots
  /\ OnlyMajoritiesTakeEffect
  /\ TargetsAccounted

USE GovernanceAssumption, UpgradableAssumption

----------------------------------------------------------------------------
(* Storage, and the type invariant.                                        *)

\* Writing one entry.
LEMMA PutDomain ==
  ASSUME NEW f, NEW key, NEW value
  PROVE  /\ DOMAIN Put(f, key, value) = DOMAIN f \cup {key}
         /\ Put(f, key, value)[key] = value
         /\ \A k \in DOMAIN f : k # key => Put(f, key, value)[k] = f[k]
BY DEF Put

\* A well typed entry keeps a map well typed.
LEMMA PutType ==
  ASSUME NEW f, NEW K, NEW V, NEW key \in K, NEW value \in V,
         DOMAIN f \subseteq K, \A k \in DOMAIN f : f[k] \in V,
         NEW g, g = Put(f, key, value)
  PROVE  DOMAIN g \subseteq K /\ \A k \in DOMAIN g : g[k] \in V
BY DEF Put

\* Writing one field of one entry.
LEMMA Rewritten ==
  ASSUME NEW f, NEW key \in DOMAIN f, NEW value, NEW g, g = [f EXCEPT ![key] = value]
  PROVE  /\ DOMAIN g = DOMAIN f
         /\ g[key] = value
         /\ \A k \in DOMAIN f : k # key => g[k] = f[k]
OBVIOUS

\* The entry points of the token keep its ledger well typed.
LEMMA LedgerStep ==
  ASSUME LedgerTypeOK, LedgerNext
  PROVE  LedgerTypeOK'
<1> USE LedgerAssumption DEF LedgerTypeOK
<1>0. \A n \in Amount : n \in Int
  OBVIOUS
<1>1. ASSUME NEW a \in Address, Initialize(a) PROVE LedgerTypeOK'
  BY <1>1 DEF Initialize
<1>2. ASSUME NEW a \in Address, NEW n \in Amount, Mint(a, n) PROVE LedgerTypeOK'
  BY <1>0, <1>2 DEF Mint, Issue
<1>3. ASSUME NEW a \in Address, NEW n \in Amount, Burn(a, n) PROVE LedgerTypeOK'
  BY <1>0, <1>3 DEF Burn, Destroy
<1>4. ASSUME NEW a \in Address, NEW b \in Address, NEW n \in Amount, Transfer(a, b, n)
      PROVE  LedgerTypeOK'
  BY <1>0, <1>4 DEF Transfer, Move
<1>5. ASSUME NEW a \in Address, NEW b \in Address, NEW n \in Amount, MintReward(a, b, n)
      PROVE  LedgerTypeOK'
  BY <1>0, <1>5 DEF MintReward, Issue
<1>6. ASSUME NEW a \in Address, NEW s \in Spender, NEW n \in Amount, Approve(a, s, n)
      PROVE  LedgerTypeOK'
  BY <1>0, <1>6 DEF Approve
<1>7. ASSUME NEW a \in Address, NEW s \in Spender, NEW n \in Amount, BurnFrom(s, a, n)
      PROVE  LedgerTypeOK'
  BY <1>0, <1>7 DEF BurnFrom, UseAllowance, Destroy
<1>8. ASSUME NEW a \in Address, NEW b \in Address, NEW s \in Spender, NEW n \in Amount,
             TransferFrom(s, a, b, n)
      PROVE  LedgerTypeOK'
  <2>1. balance' \in [Address -> Nat]
    BY <1>0, <1>8 DEF TransferFrom, Move
  <2>2. allowance' \in [Address -> [Address -> Nat]]
    BY <1>0, <1>8 DEF TransferFrom, UseAllowance
  <2> QED
    BY <1>8, <2>1, <2>2 DEF TransferFrom
<1> QED
  BY <1>1, <1>2, <1>3, <1>4, <1>5, <1>6, <1>7, <1>8 DEF LedgerNext

\* A vote adds a natural number to a side of a record and leaves its other
\* fields alone.
LEMMA TalliedProposal ==
  ASSUME LedgerTypeOK, NEW r \in ProposalRecord, NEW voter \in Address, NEW support \in BOOLEAN
  PROVE  LET t == Tallied(r, voter, support)
         IN  /\ t \in ProposalRecord
             /\ t.voting_end_ledger = r.voting_end_ledger /\ t.executed = r.executed
             /\ t.votes_for = IF support THEN r.votes_for + balance[voter] ELSE r.votes_for
             /\ t.votes_against = IF support THEN r.votes_against
                                             ELSE r.votes_against + balance[voter]
BY DEF LedgerTypeOK, ProposalRecord, Tallied

LEMMA TalliedUpgrade ==
  ASSUME LedgerTypeOK, NEW r \in UpgradeProposalRecord, NEW voter \in Address,
         NEW support \in BOOLEAN
  PROVE  LET t == Tallied(r, voter, support)
         IN  /\ t \in UpgradeProposalRecord
             /\ t.voting_end_ledger = r.voting_end_ledger /\ t.executed = r.executed
             /\ t.approved = r.approved /\ t.timelock_ledger = r.timelock_ledger
             /\ t.contract_address = r.contract_address /\ t.new_wasm_hash = r.new_wasm_hash
             /\ t.votes_for = IF support THEN r.votes_for + balance[voter] ELSE r.votes_for
             /\ t.votes_against = IF support THEN r.votes_against
                                             ELSE r.votes_against + balance[voter]
BY DEF LedgerTypeOK, UpgradeProposalRecord, Tallied

----------------------------------------------------------------------------
(* Targets: one lemma per way in which a step changes the record of one.   *)

\* The history of a target keeps its first entry when one is appended, and
\* when the last is taken off to run again.
LEMMA FirstCodeKept ==
  ASSUME NEW S, NEW h \in Seq(S), NEW old \in S, NEW w \in S
  PROVE  /\ Append(h, old) \in Seq(S) /\ Len(Append(h, old)) = Len(h) + 1
         /\ Head(Append(Append(h, old), w)) = Head(Append(h, old))
OBVIOUS

LEMMA LastCodeTaken ==
  ASSUME NEW S, NEW h \in Seq(S), NEW w \in S, h # <<>>
  PROVE  LET rest == SubSeq(h, 1, Len(h) - 1)
         IN  /\ rest \in Seq(S) /\ h[Len(h)] \in S
             /\ Head(Append(rest, h[Len(h)])) = Head(Append(h, w))
<1>1. Len(h) \in Nat /\ Len(h) >= 1 /\ h[Len(h)] \in S
  OBVIOUS
<1> DEFINE rest == SubSeq(h, 1, Len(h) - 1)
<1>2. /\ rest \in Seq(S) /\ Len(rest) = Len(h) - 1
      /\ \A i \in 1..(Len(h) - 1) : rest[i] = h[i]
  <2>1. \A i \in 1..(Len(h) - 1) : h[i] \in S
    OBVIOUS
  <2>2. PICK n \in Int : n = Len(h) - 1
    BY <1>1
  <2>3. /\ SubSeq(h, 1, n) \in Seq(S)
        /\ Len(SubSeq(h, 1, n)) = IF 1 <= n THEN n - 1 + 1 ELSE 0
        /\ \A i \in 1..(n - 1 + 1) : SubSeq(h, 1, n)[i] = h[1 + i - 1]
    BY <2>1, <2>2, SubSeqProperties
  <2>4. rest = SubSeq(h, 1, n)
    BY <2>2
  <2> HIDE DEF rest
  <2>5. n - 1 + 1 = n /\ \A i \in 1..n : 1 + i - 1 = i
    OBVIOUS
  <2> QED
    BY <1>1, <2>2, <2>3, <2>4, <2>5
<1> HIDE DEF rest
<1>3. Head(Append(rest, h[Len(h)])) = h[1]
  <2>1. CASE Len(h) = 1
    BY <1>1, <1>2, <2>1
  <2>2. CASE Len(h) > 1
    BY <1>1, <1>2, <2>2
  <2>3. Len(h) = 1 \/ Len(h) > 1
    <3>1. PICK k \in Nat : k = Len(h) /\ k >= 1
      BY <1>1
    <3> QED
      BY <3>1
  <2> QED
    BY <2>1, <2>2, <2>3, Zenon
<1>4. Head(Append(h, w)) = h[1]
  BY <1>1
<1> QED
  BY <1>1, <1>2, <1>3, <1>4 DEF rest

\* upgrade of one argument: by the governance contract it is one of the
\* executed upgrades, by another address it is not.
LEMMA UpgradedRecord ==
  ASSUME NEW r \in CodeRecord, NEW touch \in SUBSET Touch, NEW n \in Nat, NEW hashes,
         NEW w \in Wasm, Accounted(r, touch, n, hashes)
  PROVE  /\ Upgraded(r, w) \in CodeRecord
         /\ Accounted(Upgraded(r, w), touch, n + 1, hashes \cup {w})
         /\ "moved" \in touch => Accounted(Upgraded(r, w), touch, n, hashes)
<1> DEFINE h == Append(r.history, r.wasm)
           v == r.version + 1
           S == Seq(Wasm)
<1>1. /\ r.wasm \in Wasm /\ r.history \in S /\ r.version \in Nat /\ r.migrated \in Nat
      /\ r.governance \in Governor
      /\ r \in [wasm : Wasm, history : S, version : Nat, migrated : Nat, governance : Governor]
  BY DEF CodeRecord
<1>2. /\ h \in S /\ Len(h) = Len(r.history) + 1 /\ Len(r.history) \in Nat
      /\ Head(Append(h, w)) = Head(Append(r.history, r.wasm))
  BY <1>1, FirstCodeKept
<1>3. v \in Nat /\ v = r.version + 1
  BY <1>1
<1>4. Upgraded(r, w) = [r EXCEPT !.wasm = w, !.history = h, !.version = v]
  BY DEF Upgraded
<1> HIDE DEF h, v, S
<1>5. /\ Upgraded(r, w) \in [wasm : Wasm, history : S, version : Nat, migrated : Nat,
                             governance : Governor]
      /\ Upgraded(r, w).wasm = w /\ Upgraded(r, w).history = h /\ Upgraded(r, w).version = v
      /\ Upgraded(r, w).migrated = r.migrated /\ Upgraded(r, w).governance = r.governance
  BY <1>1, <1>2, <1>3, <1>4
<1>6. Upgraded(r, w) \in CodeRecord
  BY <1>5 DEF CodeRecord, S
<1> DEFINE new == Upgraded(r, w)
<1> HIDE DEF new
<1>7. /\ new.wasm = w /\ new.history = h /\ new.version = v
      /\ new.migrated = r.migrated /\ new.governance = r.governance
  BY <1>5 DEF new
<1>8. Accounted(new, touch, n + 1, hashes \cup {w})
  BY <1>1, <1>2, <1>3, <1>7 DEF Accounted
<1>9. ASSUME "moved" \in touch PROVE Accounted(new, touch, n, hashes)
  BY <1>1, <1>2, <1>3, <1>7, <1>9 DEF Accounted
<1> QED
  BY <1>6, <1>8, <1>9 DEF new

LEMMA ResetRecord ==
  ASSUME NEW r \in CodeRecord, NEW touch \in SUBSET Touch, NEW n \in Nat, NEW hashes,
         NEW g \in Governor, Accounted(r, touch, n, hashes)
  PROVE  /\ Initialized(r, g) \in CodeRecord
         /\ Accounted(Initialized(r, g), touch \cup ({"reset"} \cup Moves(g)), n, hashes)
<1>1. PICK new : new = Initialized(r, g)
  OBVIOUS
<1>2. /\ new \in CodeRecord
      /\ new.wasm = r.wasm /\ new.history = r.history /\ new.version = 1 /\ new.migrated = 1
      /\ new.governance = g
  BY <1>1 DEF CodeRecord, Initialized
<1>3. Accounted(new, touch \cup ({"reset"} \cup Moves(g)), n, hashes)
  BY <1>2 DEF Accounted, Moves
<1> QED
  BY <1>1, <1>2, <1>3

LEMMA GovernedRecord ==
  ASSUME NEW r \in CodeRecord, NEW touch \in SUBSET Touch, NEW n \in Nat, NEW hashes,
         NEW g \in Governor, NEW new, new = [r EXCEPT !.governance = g],
         Accounted(r, touch, n, hashes)
  PROVE  /\ new \in CodeRecord
         /\ Accounted(new, touch \cup Moves(g), n, hashes)
<1>1. new \in CodeRecord
  BY DEF CodeRecord
<1>2. /\ new.wasm = r.wasm /\ new.history = r.history /\ new.version = r.version
      /\ new.migrated = r.migrated /\ new.governance = g
  BY DEF CodeRecord
<1> QED
  BY <1>1, <1>2 DEF Accounted, Moves

LEMMA MigratedRecord ==
  ASSUME NEW r \in CodeRecord, NEW touch \in SUBSET Touch, NEW n \in Nat, NEW hashes,
         NEW new, new = [r EXCEPT !.migrated = r.version],
         Accounted(r, touch, n, hashes)
  PROVE  new \in CodeRecord /\ Accounted(new, touch, n, hashes)
<1>1. new \in CodeRecord /\ r.version \in Nat
  BY DEF CodeRecord
<1>2. /\ new.wasm = r.wasm /\ new.history = r.history /\ new.version = r.version
      /\ new.migrated = r.version /\ new.governance = r.governance
  BY DEF CodeRecord
<1> QED
  BY <1>1, <1>2 DEF Accounted

LEMMA PatchedRecord ==
  ASSUME NEW r \in CodeRecord, NEW touch \in SUBSET Touch, NEW n \in Nat, NEW hashes,
         NEW w \in Wasm, NEW new, new = [r EXCEPT !.wasm = w],
         Accounted(r, touch, n, hashes)
  PROVE  new \in CodeRecord /\ Accounted(new, touch \cup {"patched"}, n, hashes)
<1>1. new \in CodeRecord
  BY DEF CodeRecord
<1>2. /\ new.history = r.history /\ new.version = r.version /\ new.migrated = r.migrated
      /\ new.governance = r.governance
  BY DEF CodeRecord
<1> QED
  BY <1>1, <1>2 DEF Accounted

LEMMA RolledBackRecord ==
  ASSUME NEW r \in CodeRecord, NEW touch \in SUBSET Touch, NEW n \in Nat, NEW hashes,
         "moved" \in touch, r.history # <<>>, Accounted(r, touch, n, hashes)
  PROVE  RolledBack(r) \in CodeRecord /\ Accounted(RolledBack(r), touch, n, hashes)
<1> DEFINE w == r.history[Len(r.history)]
           h == SubSeq(r.history, 1, Len(r.history) - 1)
           v == r.version + 1
           S == Seq(Wasm)
<1>1. /\ r.wasm \in Wasm /\ r.history \in S /\ r.version \in Nat /\ r.migrated \in Nat
      /\ r.governance \in Governor
      /\ r \in [wasm : Wasm, history : S, version : Nat, migrated : Nat, governance : Governor]
  BY DEF CodeRecord
<1>2. h \in S /\ w \in Wasm /\ Head(Append(h, w)) = Head(Append(r.history, r.wasm))
  BY <1>1, LastCodeTaken
<1>3. v \in Nat /\ v = r.version + 1
  BY <1>1
<1>4. RolledBack(r) = [r EXCEPT !.wasm = w, !.history = h, !.version = v]
  BY DEF RolledBack
<1> DEFINE new == RolledBack(r)
<1> HIDE DEF w, h, v, S
<1>5. /\ new \in [wasm : Wasm, history : S, version : Nat, migrated : Nat, governance : Governor]
      /\ new.wasm = w /\ new.history = h /\ new.version = v
      /\ new.migrated = r.migrated /\ new.governance = r.governance
  BY <1>1, <1>2, <1>3, <1>4
<1> HIDE DEF new
<1>6. new \in CodeRecord
  BY <1>5 DEF CodeRecord, S
<1>7. Accounted(new, touch, n, hashes)
  BY <1>1, <1>2, <1>3, <1>5 DEF Accounted
<1> QED
  BY <1>6, <1>7 DEF new

\* Whoever intervenes, every target stays accounted for.
LEMMA Intervened ==
  ASSUME TargetTypeOK, NEW c \in Target, NEW kinds \in SUBSET Touch, NEW new \in CodeRecord,
         code' = [code EXCEPT ![c] = new], Intervene(c, kinds),
         NEW N, NEW H, \A t \in Target : Accounted(code[t], touched[t], N[t], H[t]),
         Accounted(new, touched[c] \cup kinds, N[c], H[c])
  PROVE  TargetTypeOK' /\ \A t \in Target : Accounted(code'[t], touched'[t], N[t], H[t])
<1>1. /\ touched' = [touched EXCEPT ![c] = @ \cup kinds]
      /\ interventions' = interventions + 1 /\ interventions < MaxInterventions
  BY DEF Intervene
<1>2. /\ code' \in [Target -> CodeRecord] /\ code'[c] = new
      /\ \A t \in Target \ {c} : code'[t] = code[t]
  BY DEF TargetTypeOK
<1>3. /\ touched' \in [Target -> SUBSET Touch] /\ touched'[c] = touched[c] \cup kinds
      /\ \A t \in Target \ {c} : touched'[t] = touched[t]
  BY <1>1 DEF TargetTypeOK
<1>4. interventions' \in 0..MaxInterventions
  BY <1>1 DEF TargetTypeOK
<1> QED
  BY <1>2, <1>3, <1>4 DEF TargetTypeOK

LEMMA TargetsKept ==
  ASSUME TargetTypeOK, TargetNext, NEW N, NEW H,
         \A t \in Target : N[t] \in Nat /\ Accounted(code[t], touched[t], N[t], H[t])
  PROVE  TargetTypeOK' /\ \A t \in Target : Accounted(code'[t], touched'[t], N[t], H[t])
<1> DEFINE Goal == TargetTypeOK' /\ \A t \in Target : Accounted(code'[t], touched'[t], N[t], H[t])
<1>0. ASSUME NEW c \in Target
      PROVE  /\ code[c] \in CodeRecord /\ touched[c] \in SUBSET Touch /\ N[c] \in Nat
             /\ Accounted(code[c], touched[c], N[c], H[c])
  BY DEF TargetTypeOK
<1>1. ASSUME NEW c \in Target, MigrateTarget(c) PROVE Goal
  <2>1. PICK new : new = [code[c] EXCEPT !.migrated = code[c].version]
    OBVIOUS
  <2>2. new \in CodeRecord /\ Accounted(new, touched[c], N[c], H[c])
    BY <1>0, <2>1, MigratedRecord
  <2>3. code' = [code EXCEPT ![c] = new] /\ UNCHANGED <<touched, interventions>>
    BY <1>1, <2>1 DEF MigrateTarget
  <2>4. /\ code' \in [Target -> CodeRecord] /\ code'[c] = new
        /\ \A t \in Target \ {c} : code'[t] = code[t]
    BY <2>2, <2>3 DEF TargetTypeOK
  <2> QED
    BY <1>0, <2>2, <2>3, <2>4 DEF TargetTypeOK
<1>2. ASSUME NEW c \in Target, NEW g \in Governor, Reinitialize(c, g) PROVE Goal
  <2>1. PICK new : new = Initialized(code[c], g)
    OBVIOUS
  <2>2. /\ new \in CodeRecord
        /\ Accounted(new, touched[c] \cup ({"reset"} \cup Moves(g)), N[c], H[c])
    BY <1>0, <2>1, ResetRecord
  <2>3. /\ code' = [code EXCEPT ![c] = new] /\ Intervene(c, {"reset"} \cup Moves(g))
        /\ {"reset"} \cup Moves(g) \in SUBSET Touch
    BY <1>2, <2>1 DEF Reinitialize, Moves, Touch
  <2> QED
    BY <1>0, <2>2, <2>3, Intervened
<1>3. ASSUME NEW c \in Target, NEW g \in Governor, SetGovernance(c, g) PROVE Goal
  <2>0. PICK r : r = code[c]
    OBVIOUS
  <2>1. PICK new : new = [r EXCEPT !.governance = g]
    OBVIOUS
  <2>2. new \in CodeRecord /\ Accounted(new, touched[c] \cup Moves(g), N[c], H[c])
    BY <1>0, <2>0, <2>1, GovernedRecord
  <2>3. /\ code' = [code EXCEPT ![c] = new] /\ Intervene(c, Moves(g))
        /\ Moves(g) \in SUBSET Touch
    BY <1>3, <2>0, <2>1 DEF SetGovernance, Moves, Touch
  <2> QED
    BY <1>0, <2>2, <2>3, Intervened
<1>4. ASSUME NEW c \in Target, NEW w \in Wasm, UpgradeByOther(c, w) PROVE Goal
  <2>1. PICK new : new = Upgraded(code[c], w)
    OBVIOUS
  <2>2. "moved" \in touched[c]
    BY <1>0, <1>4 DEF Accounted, UpgradeByOther
  <2>3. new \in CodeRecord /\ Accounted(new, touched[c], N[c], H[c])
    BY <1>0, <2>1, <2>2, UpgradedRecord
  <2>4. code' = [code EXCEPT ![c] = new] /\ Intervene(c, {})
    BY <1>4, <2>1 DEF UpgradeByOther
  <2>5. Accounted(new, touched[c] \cup {}, N[c], H[c]) /\ {} \in SUBSET Touch
    <3>1. touched[c] \cup {} = touched[c]
      OBVIOUS
    <3> QED
      BY <2>3, <3>1
  <2> QED
    BY <1>0, <2>3, <2>4, <2>5, Intervened
<1>5. ASSUME NEW c \in Target, NEW w \in Wasm, UpgradeByAdmin(c, w) PROVE Goal
  <2>1. PICK new : new = [code[c] EXCEPT !.wasm = w]
    OBVIOUS
  <2>2. new \in CodeRecord /\ Accounted(new, touched[c] \cup {"patched"}, N[c], H[c])
    BY <1>0, <2>1, PatchedRecord
  <2>3. /\ code' = [code EXCEPT ![c] = new] /\ Intervene(c, {"patched"})
        /\ {"patched"} \in SUBSET Touch
    BY <1>5, <2>1 DEF UpgradeByAdmin, Touch
  <2> QED
    BY <1>0, <2>2, <2>3, Intervened
<1>6. ASSUME NEW c \in Target, Rollback(c) PROVE Goal
  <2>1. PICK new : new = RolledBack(code[c])
    OBVIOUS
  <2>2. "moved" \in touched[c] /\ code[c].history # <<>>
    BY <1>0, <1>6 DEF Accounted, Rollback
  <2>3. new \in CodeRecord /\ Accounted(new, touched[c], N[c], H[c])
    BY <1>0, <2>1, <2>2, RolledBackRecord
  <2>4. code' = [code EXCEPT ![c] = new] /\ Intervene(c, {})
    BY <1>6, <2>1 DEF Rollback
  <2>5. Accounted(new, touched[c] \cup {}, N[c], H[c]) /\ {} \in SUBSET Touch
    <3>1. touched[c] \cup {} = touched[c]
      OBVIOUS
    <3> QED
      BY <2>3, <3>1
  <2> QED
    BY <1>0, <2>3, <2>4, <2>5, Intervened
<1> QED
  BY <1>1, <1>2, <1>3, <1>4, <1>5, <1>6 DEF TargetNext

\* execute_upgrade of the governance contract.
LEMMA UpgradeInstalled ==
  ASSUME TargetTypeOK, NEW c \in Target, NEW w \in Wasm, GovernedUpgrade(c, w),
         NEW n \in Nat, NEW hashes, Accounted(code[c], touched[c], n, hashes)
  PROVE  /\ TargetTypeOK'
         /\ Accounted(code'[c], touched'[c], n + 1, hashes \cup {w})
         /\ \A t \in Target \ {c} : code'[t] = code[t] /\ touched'[t] = touched[t]
<1>1. PICK new : new = Upgraded(code[c], w)
  OBVIOUS
<1>2. code[c] \in CodeRecord /\ touched[c] \in SUBSET Touch
  BY DEF TargetTypeOK
<1>3. new \in CodeRecord /\ Accounted(new, touched[c], n + 1, hashes \cup {w})
  BY <1>1, <1>2, UpgradedRecord
<1>4. code' = [code EXCEPT ![c] = new] /\ UNCHANGED <<touched, interventions>>
  BY <1>1 DEF GovernedUpgrade
<1>5. /\ code' \in [Target -> CodeRecord] /\ code'[c] = new
      /\ \A t \in Target \ {c} : code'[t] = code[t]
  BY <1>3, <1>4 DEF TargetTypeOK
<1> QED
  BY <1>3, <1>4, <1>5 DEF TargetTypeOK

\* Only finitely many upgrades are ever executed.
LEMMA ExecutedIsFinite ==
  ASSUME TypeOK, NEW c
  PROVE  IsFiniteSet(Executed(c)) /\ Cardinality(Executed(c)) \in Nat
<1>1. IsFiniteSet(Id)
  BY FS_Interval DEF Id
<1>2. Executed(c) \in SUBSET Id
  BY DEF TypeOK, Executed
<1> QED
  BY <1>1, <1>2, FS_Subset, FS_CardinalityType

\* Every step keeps the state well typed.
LEMMA TypeStep ==
  ASSUME TypeOK, TargetsAccounted, [Next]_vars
  PROVE  TypeOK'
<1>0. /\ LedgerTypeOK /\ (UNCHANGED ledgerVars => LedgerTypeOK')
      /\ TargetTypeOK /\ (UNCHANGED targetVars => TargetTypeOK')
  BY DEF TypeOK, ledgerVars, LedgerTypeOK, targetVars, TargetTypeOK
<1>1. CASE UNCHANGED vars
  BY <1>0, <1>1 DEF TypeOK, vars, governanceVars
<1>2. CASE LedgerNext /\ UNCHANGED <<ledger, governanceVars, targetVars>>
  BY <1>0, <1>2, LedgerStep DEF TypeOK, governanceVars
<1>3. CASE CloseLedger
  BY <1>0, <1>3 DEF TypeOK, CloseLedger, governanceVars, Ledger
<1>4. ASSUME NEW d \in Delay, GovernanceInitialize(d) PROVE TypeOK'
  BY <1>0, <1>4 DEF TypeOK, GovernanceInitialize
<1>5. ASSUME NEW end \in Ledger, CreateProposal(end) PROVE TypeOK'
  <2> DEFINE new == [voting_end_ledger |-> end, votes_for |-> 0, votes_against |-> 0,
                     executed |-> FALSE]
  <2>1. new \in ProposalRecord
    BY DEF ProposalRecord
  <2>2. proposal' = Put(proposal, nextProposalId, new)
    BY <1>5 DEF CreateProposal
  <2> HIDE DEF new
  <2>3. /\ nextProposalId \in Id
        /\ DOMAIN proposal \subseteq Id /\ \A i \in DOMAIN proposal : proposal[i] \in ProposalRecord
    BY <1>5 DEF TypeOK, CreateProposal
  <2>4. /\ DOMAIN proposal' \subseteq Id
        /\ \A i \in DOMAIN proposal' : proposal'[i] \in ProposalRecord
    BY <2>1, <2>2, <2>3, PutType
  <2>5. nextProposalId' \in 0..(MaxItems + 1)
    BY <1>5, <2>3 DEF CreateProposal, Id
  <2> QED
    BY <1>0, <1>5, <2>4, <2>5 DEF TypeOK, CreateProposal
<1>6. ASSUME NEW end \in Ledger, NEW expiry \in Ledger, NEW c \in Target, NEW w \in Wasm,
             ProposeUpgrade(c, w, end, expiry)
      PROVE  TypeOK'
  <2> DEFINE new == [contract_address |-> c, new_wasm_hash |-> w, voting_end_ledger |-> end,
                     votes_for |-> 0, votes_against |-> 0, approved |-> FALSE,
                     executed |-> FALSE, timelock_ledger |-> expiry]
  <2>1. new \in UpgradeProposalRecord
    BY DEF UpgradeProposalRecord
  <2>2. upgrade' = Put(upgrade, nextProposalId, new)
    BY <1>6 DEF ProposeUpgrade
  <2> HIDE DEF new
  <2>3. /\ nextProposalId \in Id
        /\ DOMAIN upgrade \subseteq Id /\ \A i \in DOMAIN upgrade : upgrade[i] \in UpgradeProposalRecord
    BY <1>6 DEF TypeOK, ProposeUpgrade
  <2>4. /\ DOMAIN upgrade' \subseteq Id
        /\ \A i \in DOMAIN upgrade' : upgrade'[i] \in UpgradeProposalRecord
    BY <2>1, <2>2, <2>3, PutType
  <2>5. nextProposalId' \in 0..(MaxItems + 1)
    BY <1>6, <2>3 DEF ProposeUpgrade, Id
  <2> QED
    BY <1>0, <1>6, <2>4, <2>5 DEF TypeOK, ProposeUpgrade
<1>7. ASSUME NEW a \in Address, NEW i \in Id, NEW support \in BOOLEAN,
             Vote(a, i, support) \/ VoteUpgrade(a, i, support)
      PROVE  TypeOK'
  <2>1. vote' = Put(vote, <<i, a>>, support)
    BY <1>7 DEF Vote, VoteUpgrade
  <2>2. DOMAIN vote' \subseteq Id \X Address /\ \A k \in DOMAIN vote' : vote'[k] \in BOOLEAN
    <3>1. /\ <<i, a>> \in Id \X Address
          /\ DOMAIN vote \subseteq Id \X Address /\ \A k \in DOMAIN vote : vote[k] \in BOOLEAN
      BY DEF TypeOK
    <3> QED
      BY <2>1, <3>1 DEF Put
  <2>3. CASE Vote(a, i, support)
    <3>1. /\ i \in DOMAIN proposal /\ proposal[i] \in ProposalRecord
          /\ proposal' = Put(proposal, i, Tallied(proposal[i], a, support))
      BY <2>3 DEF Vote, TypeOK
    <3>2. Tallied(proposal[i], a, support) \in ProposalRecord
      BY <1>0, <3>1, TalliedProposal
    <3>3. /\ DOMAIN proposal \subseteq Id /\ \A j \in DOMAIN proposal : proposal[j] \in ProposalRecord
      BY DEF TypeOK
    <3>4. DOMAIN proposal' \subseteq Id /\ \A j \in DOMAIN proposal' : proposal'[j] \in ProposalRecord
      BY <3>1, <3>2, <3>3, PutType
    <3> QED
      BY <1>0, <2>2, <2>3, <3>4 DEF TypeOK, Vote
  <2>4. CASE VoteUpgrade(a, i, support)
    <3>1. /\ i \in DOMAIN upgrade /\ upgrade[i] \in UpgradeProposalRecord
          /\ upgrade' = Put(upgrade, i, Tallied(upgrade[i], a, support))
      BY <2>4 DEF VoteUpgrade, TypeOK
    <3>2. Tallied(upgrade[i], a, support) \in UpgradeProposalRecord
      BY <1>0, <3>1, TalliedUpgrade
    <3>3. /\ DOMAIN upgrade \subseteq Id /\ \A j \in DOMAIN upgrade : upgrade[j] \in UpgradeProposalRecord
      BY DEF TypeOK
    <3>4. DOMAIN upgrade' \subseteq Id /\ \A j \in DOMAIN upgrade' : upgrade'[j] \in UpgradeProposalRecord
      BY <3>1, <3>2, <3>3, PutType
    <3> QED
      BY <1>0, <2>2, <2>4, <3>4 DEF TypeOK, VoteUpgrade
  <2> QED
    BY <1>7, <2>3, <2>4
<1>8. ASSUME NEW i \in Id, ExecuteProposal(i) PROVE TypeOK'
  <2>1. /\ i \in DOMAIN proposal /\ proposal[i] \in ProposalRecord
        /\ proposal' = [proposal EXCEPT ![i] = [proposal[i] EXCEPT !.executed = TRUE]]
    BY <1>8 DEF ExecuteProposal, TypeOK
  <2>2. [proposal[i] EXCEPT !.executed = TRUE] \in ProposalRecord
    BY <2>1 DEF ProposalRecord
  <2>3. /\ DOMAIN proposal' = DOMAIN proposal
        /\ \A j \in DOMAIN proposal : proposal'[j] \in ProposalRecord
    BY <2>1, <2>2, Rewritten DEF TypeOK
  <2> QED
    BY <1>0, <1>8, <2>3 DEF TypeOK, ExecuteProposal
<1>9. ASSUME NEW i \in Id, ApproveUpgrade(i) PROVE TypeOK'
  <2>1. /\ i \in DOMAIN upgrade /\ upgrade[i] \in UpgradeProposalRecord
        /\ upgrade' = [upgrade EXCEPT ![i] = [upgrade[i] EXCEPT !.approved = TRUE]]
        /\ timelockExpiry' = Put(timelockExpiry, i, upgrade[i].timelock_ledger)
    BY <1>9 DEF ApproveUpgrade, TypeOK
  <2>2. /\ [upgrade[i] EXCEPT !.approved = TRUE] \in UpgradeProposalRecord
        /\ upgrade[i].timelock_ledger \in Ledger
    BY <2>1 DEF UpgradeProposalRecord
  <2>3. /\ DOMAIN upgrade' = DOMAIN upgrade
        /\ \A j \in DOMAIN upgrade : upgrade'[j] \in UpgradeProposalRecord
    BY <2>1, <2>2, Rewritten DEF TypeOK
  <2>4. /\ DOMAIN timelockExpiry' \subseteq Id
        /\ \A j \in DOMAIN timelockExpiry' : timelockExpiry'[j] \in Ledger
    <3>1. /\ DOMAIN timelockExpiry \subseteq Id
          /\ \A j \in DOMAIN timelockExpiry : timelockExpiry[j] \in Ledger
      BY DEF TypeOK
    <3> QED
      BY <2>1, <2>2, <3>1, PutType
  <2> QED
    BY <1>0, <1>9, <2>3, <2>4 DEF TypeOK, ApproveUpgrade
<1>10. ASSUME NEW i \in Id, ExecuteUpgrade(i) PROVE TypeOK'
  <2>1. /\ i \in DOMAIN upgrade /\ upgrade[i] \in UpgradeProposalRecord
        /\ upgrade' = [upgrade EXCEPT ![i] = [upgrade[i] EXCEPT !.executed = TRUE]]
    BY <1>10 DEF ExecuteUpgrade, TypeOK
  <2>2. [upgrade[i] EXCEPT !.executed = TRUE] \in UpgradeProposalRecord
    BY <2>1 DEF UpgradeProposalRecord
  <2>3. /\ DOMAIN upgrade' = DOMAIN upgrade
        /\ \A j \in DOMAIN upgrade : upgrade'[j] \in UpgradeProposalRecord
    BY <2>1, <2>2, Rewritten DEF TypeOK
  <2>4. TargetTypeOK'
    <3>1. upgrade[i].contract_address \in Target /\ upgrade[i].new_wasm_hash \in Wasm
      BY <2>1 DEF UpgradeProposalRecord
    <3>2. PICK c \in Target : c = upgrade[i].contract_address
      BY <3>1
    <3>3. Accounted(code[c], touched[c], Cardinality(Executed(c)), Voted(c))
      BY DEF TargetsAccounted, InstalledOnce
    <3> QED
      BY <1>0, <1>10, <3>1, <3>2, <3>3, ExecutedIsFinite, UpgradeInstalled DEF ExecuteUpgrade
  <2> QED
    BY <1>0, <1>10, <2>3, <2>4 DEF TypeOK, ExecuteUpgrade
<1>11. CASE TargetNext /\ UNCHANGED <<ledgerVars, ledger, governanceVars>>
  <2>1. PICK N, H : \A c \in Target : N[c] = Cardinality(Executed(c)) /\ H[c] = Voted(c)
    <3> DEFINE n == [c \in Target |-> Cardinality(Executed(c))]
               h == [c \in Target |-> Voted(c)]
    <3>1. \A c \in Target : n[c] = Cardinality(Executed(c)) /\ h[c] = Voted(c)
      OBVIOUS
    <3> QED
      BY <3>1
  <2>2. \A c \in Target : N[c] \in Nat /\ Accounted(code[c], touched[c], N[c], H[c])
    BY <2>1, ExecutedIsFinite DEF TargetsAccounted, InstalledOnce
  <2>3. TargetTypeOK'
    BY <1>0, <1>11, <2>2, TargetsKept
  <2> QED
    BY <1>0, <1>11, <2>3 DEF TypeOK, governanceVars
<1> QED
  BY <1>1, <1>2, <1>3, <1>4, <1>5, <1>6, <1>7, <1>8, <1>9, <1>10, <1>11 DEF Next

----------------------------------------------------------------------------
(* Ballots and tallies.                                                    *)

\* A vote adds its voter to the ballots of one side of one item, where the
\* voter was not yet.
LEMMA BallotCast ==
  ASSUME BallotsAreFinite, NEW i \in Id, NEW a \in Address, NEW support \in BOOLEAN,
         <<i, a>> \notin DOMAIN vote, vote' = Put(vote, <<i, a>>, support)
  PROVE  /\ BallotsAreFinite'
         /\ Ballots(i, support)' = Ballots(i, support) \cup {a}
         /\ Cardinality(Ballots(i, support))' = Cardinality(Ballots(i, support)) + 1
         /\ \A j \in Id, s \in BOOLEAN :
              j # i \/ s # support => Ballots(j, s)' = Ballots(j, s)
<1>1. Ballots(i, support)' = Ballots(i, support) \cup {a} /\ a \notin Ballots(i, support)
  BY PutDomain DEF Ballots, Put
<1>2. ASSUME NEW j \in Id, NEW s \in BOOLEAN, j # i \/ s # support
      PROVE  Ballots(j, s)' = Ballots(j, s)
  BY <1>2 DEF Ballots, Put
<1>3. IsFiniteSet(Ballots(i, support))
  BY DEF BallotsAreFinite
<1>4. /\ IsFiniteSet(Ballots(i, support) \cup {a})
      /\ Cardinality(Ballots(i, support) \cup {a}) = Cardinality(Ballots(i, support)) + 1
  BY <1>1, <1>3, FS_AddElement
<1>5. BallotsAreFinite'
  BY <1>1, <1>2, <1>4 DEF BallotsAreFinite
<1> QED
  BY <1>1, <1>2, <1>4, <1>5

\* A step without a vote leaves the ballots as they are.
LEMMA NoBallotCast ==
  ASSUME UNCHANGED vote
  PROVE  /\ \A j, s : Ballots(j, s)' = Ballots(j, s)
         /\ BallotsAreFinite => BallotsAreFinite'
BY DEF Ballots, BallotsAreFinite

\* Under an id that no item holds nobody has voted.
LEMMA NoBallots ==
  ASSUME TalliesMatchBallots, NEW i, i \notin DOMAIN proposal \cup DOMAIN upgrade,
         NEW s
  PROVE  Ballots(i, s) = {} /\ Cardinality(Ballots(i, s)) = 0
<1>1. \A a \in Address : <<i, a>> \notin DOMAIN vote
  BY DEF TalliesMatchBallots
<1>2. Ballots(i, s) = {}
  BY <1>1 DEF Ballots
<1> QED
  BY <1>2, FS_EmptySet

LEMMA OneMore ==
  ASSUME NEW n \in Nat, NEW b \in Nat, NEW c \in Nat, n >= c, b > 0
  PROVE  n + b >= c + 1
OBVIOUS

\* The voter's balance on a side pays for the voter's ballot on it.
LEMMA TallyGrows ==
  ASSUME BallotsAreFinite, LedgerTypeOK,
         NEW i \in Id, NEW a \in Address, NEW support \in BOOLEAN,
         <<i, a>> \notin DOMAIN vote, vote' = Put(vote, <<i, a>>, support), balance[a] > 0,
         NEW r, NEW t, r.votes_for \in Nat, r.votes_against \in Nat, TallyFits(i, r),
         t.votes_for = IF support THEN r.votes_for + balance[a] ELSE r.votes_for,
         t.votes_against = IF support THEN r.votes_against ELSE r.votes_against + balance[a]
  PROVE  TallyFits(i, t)'
<1>1. balance[a] \in Nat
  BY DEF LedgerTypeOK
<1>2. /\ Cardinality(Ballots(i, TRUE)) \in Nat /\ Cardinality(Ballots(i, FALSE)) \in Nat
  BY FS_CardinalityType DEF BallotsAreFinite
<1>3. CASE support
  <2>1. /\ Cardinality(Ballots(i, TRUE))' = Cardinality(Ballots(i, TRUE)) + 1
        /\ Ballots(i, TRUE)' # {} /\ Ballots(i, FALSE)' = Ballots(i, FALSE)
    BY <1>3, BallotCast
  <2>2. t.votes_for = r.votes_for + balance[a] /\ t.votes_against = r.votes_against
    BY <1>3
  <2>3. t.votes_for >= Cardinality(Ballots(i, TRUE))'
    <3>1. r.votes_for >= Cardinality(Ballots(i, TRUE))
      BY DEF TallyFits
    <3>2. r.votes_for + balance[a] >= Cardinality(Ballots(i, TRUE)) + 1
      BY <1>1, <1>2, <3>1, OneMore
    <3> QED
      BY <2>1, <2>2, <3>2
  <2>4. t.votes_against >= Cardinality(Ballots(i, FALSE))'
    BY <1>1, <1>2, <2>1, <2>2 DEF TallyFits
  <2>5. t.votes_against > 0 => Ballots(i, FALSE)' # {}
    BY <1>1, <1>2, <2>1, <2>2 DEF TallyFits
  <2> QED
    BY <2>1, <2>3, <2>4, <2>5 DEF TallyFits
<1>4. CASE ~support
  <2>1. support = FALSE
    BY <1>4
  <2>2. /\ Cardinality(Ballots(i, FALSE))' = Cardinality(Ballots(i, FALSE)) + 1
        /\ Ballots(i, FALSE)' # {} /\ Ballots(i, TRUE)' = Ballots(i, TRUE)
    BY <2>1, BallotCast
  <2>3. t.votes_for = r.votes_for /\ t.votes_against = r.votes_against + balance[a]
    BY <1>4
  <2>4. t.votes_against >= Cardinality(Ballots(i, FALSE))'
    <3>1. r.votes_against >= Cardinality(Ballots(i, FALSE))
      BY DEF TallyFits
    <3>2. r.votes_against + balance[a] >= Cardinality(Ballots(i, FALSE)) + 1
      BY <1>1, <1>2, <3>1, OneMore
    <3> QED
      BY <2>2, <2>3, <3>2
  <2>5. /\ t.votes_for >= Cardinality(Ballots(i, TRUE))'
        /\ t.votes_for > 0 => Ballots(i, TRUE)' # {}
    BY <2>2, <2>3 DEF TallyFits
  <2> QED
    BY <2>2, <2>4, <2>5 DEF TallyFits
<1> QED
  BY <1>3, <1>4

----------------------------------------------------------------------------
(* Installed upgrades.                                                     *)

LEMMA InstallOnceForm == TargetsAccounted => UpgradesInstallOnce
BY DEF TargetsAccounted, InstalledOnce, Accounted, UpgradesInstallOnce, Executed, Voted

\* A step that executes no upgrade and changes no code.
LEMMA NothingExecuted ==
  ASSUME \A i \in DOMAIN upgrade :
           /\ i \in DOMAIN upgrade'
           /\ upgrade'[i].executed = upgrade[i].executed
           /\ upgrade'[i].contract_address = upgrade[i].contract_address
           /\ upgrade'[i].new_wasm_hash = upgrade[i].new_wasm_hash,
         \A i \in DOMAIN upgrade' \ DOMAIN upgrade : ~upgrade'[i].executed,
         NEW c
  PROVE  Executed(c)' = Executed(c) /\ Voted(c)' = Voted(c)
<1>1. Executed(c)' = Executed(c)
  BY DEF Executed
<1>2. Voted(c)' = Voted(c)
  BY <1>1 DEF Voted, Executed
<1> QED
  BY <1>1, <1>2

LEMMA NothingInstalled ==
  ASSUME TargetsAccounted, UNCHANGED targetVars,
         \A i \in DOMAIN upgrade :
           /\ i \in DOMAIN upgrade'
           /\ upgrade'[i].executed = upgrade[i].executed
           /\ upgrade'[i].contract_address = upgrade[i].contract_address
           /\ upgrade'[i].new_wasm_hash = upgrade[i].new_wasm_hash,
         \A i \in DOMAIN upgrade' \ DOMAIN upgrade : ~upgrade'[i].executed
  PROVE  TargetsAccounted'
<1>1. ASSUME NEW c \in Target PROVE InstalledOnce(c)'
  <2>1. Executed(c)' = Executed(c) /\ Voted(c)' = Voted(c)
    BY NothingExecuted
  <2> QED
    BY <2>1 DEF TargetsAccounted, InstalledOnce, targetVars
<1> QED
  BY <1>1 DEF TargetsAccounted

----------------------------------------------------------------------------
(* One lemma per kind of step.                                             *)

ItemsInv ==
  /\ IdsAreFresh
  /\ KindsAreApart
  /\ ApprovalsAreTimed
  /\ BallotsAreFinite
  /\ TalliesMatchBallots
  /\ OnlyMajoritiesTakeEffect

\* The action VerdictIsFinal asks of every step.
Final ==
  /\ \A i \in DOMAIN proposal :
       i \in DOMAIN proposal' /\ Decided(proposal[i], proposal'[i])
  /\ \A i \in DOMAIN upgrade :
       /\ i \in DOMAIN upgrade' /\ Decided(upgrade[i], upgrade'[i])
       /\ upgrade[i].approved => upgrade'[i].approved

\* The fields of the records in storage.
LEMMA ProposalFields ==
  ASSUME TypeOK, NEW i \in DOMAIN proposal
  PROVE  /\ i \in Id /\ proposal[i] \in ProposalRecord
         /\ proposal[i].voting_end_ledger \in Nat
         /\ proposal[i].votes_for \in Nat /\ proposal[i].votes_against \in Nat
         /\ proposal[i].executed \in BOOLEAN
BY DEF TypeOK, ProposalRecord, Ledger

LEMMA UpgradeFields ==
  ASSUME TypeOK, NEW i \in DOMAIN upgrade
  PROVE  /\ i \in Id /\ upgrade[i] \in UpgradeProposalRecord
         /\ upgrade[i].voting_end_ledger \in Nat /\ upgrade[i].timelock_ledger \in Nat
         /\ upgrade[i].votes_for \in Nat /\ upgrade[i].votes_against \in Nat
         /\ upgrade[i].executed \in BOOLEAN /\ upgrade[i].approved \in BOOLEAN
         /\ upgrade[i].contract_address \in Target /\ upgrade[i].new_wasm_hash \in Wasm
BY DEF TypeOK, UpgradeProposalRecord, Ledger

LEMMA CountersAreNumbers ==
  ASSUME TypeOK
  PROVE  ledger \in Nat /\ nextProposalId \in Nat
BY DEF TypeOK, Ledger

\* A step that touches no item: time passes, tokens move, a target migrates.
LEMMA ItemsUntouched ==
  ASSUME TypeOK, TypeOK', ItemsInv, UNCHANGED <<proposal, upgrade, vote, timelockExpiry>>,
         ledger' >= ledger, nextProposalId' >= nextProposalId
  PROVE  ItemsInv' /\ Final
<1>1. /\ ledger \in Nat /\ nextProposalId \in Nat
      /\ ledger' \in Nat /\ nextProposalId' \in Nat
  BY DEF TypeOK, Ledger
<1>2. IdsAreFresh'
  <2>1. \A i \in DOMAIN proposal \cup DOMAIN upgrade : i \in Int
    BY DEF TypeOK, Id
  <2>2. \A k \in DOMAIN vote : k[1] \in Int
    BY DEF TypeOK, Id
  <2> QED
    BY <1>1, <2>1, <2>2 DEF ItemsInv, IdsAreFresh
<1>3. KindsAreApart' /\ ApprovalsAreTimed'
  BY DEF ItemsInv, KindsAreApart, ApprovalsAreTimed
<1>4. BallotsAreFinite' /\ TalliesMatchBallots'
  BY NoBallotCast DEF ItemsInv, TalliesMatchBallots, TallyFits
<1>5. OnlyMajoritiesTakeEffect'
  BY <1>1, ProposalFields, UpgradeFields DEF ItemsInv, OnlyMajoritiesTakeEffect, Won
<1>6. Final
  BY DEF Final, Decided
<1> QED
  BY <1>2, <1>3, <1>4, <1>5, <1>6 DEF ItemsInv

\* create_proposal.
LEMMA CreateProposalStep ==
  ASSUME IInv, TypeOK', NEW end \in Ledger, CreateProposal(end)
  PROVE  IInv' /\ Final
<1>0. PICK id : id = nextProposalId
  OBVIOUS
<1> DEFINE new == [voting_end_ledger |-> end, votes_for |-> 0, votes_against |-> 0,
                   executed |-> FALSE]
<1>1. /\ proposal' = Put(proposal, id, new) /\ nextProposalId' = id + 1
      /\ UNCHANGED <<ledger, upgrade, vote, timelockExpiry, targetVars>> /\ id \in Id
  BY <1>0 DEF CreateProposal
<1>2. id \in Nat /\ \A i \in Id : i \in Nat
  BY <1>0 DEF IInv, TypeOK, Id
<1>3. id \notin DOMAIN proposal /\ id \notin DOMAIN upgrade
  BY <1>0, <1>2 DEF IInv, IdsAreFresh
<1>4. new.votes_for = 0 /\ new.votes_against = 0 /\ new.executed = FALSE
  OBVIOUS
<1> HIDE DEF new
<1>5. /\ DOMAIN proposal' = DOMAIN proposal \cup {id}
      /\ proposal'[id] = new
      /\ \A i \in DOMAIN proposal : proposal'[i] = proposal[i]
  BY <1>1, <1>3 DEF Put
<1>6. IdsAreFresh'
  <2>1. \A i \in DOMAIN proposal \cup DOMAIN upgrade : i \in Nat
    BY <1>2 DEF IInv, TypeOK
  <2>2. \A k \in DOMAIN vote : k[1] \in Nat
    BY <1>2 DEF IInv, TypeOK
  <2> QED
    BY <1>0, <1>1, <1>2, <1>5, <2>1, <2>2 DEF IInv, IdsAreFresh
<1>7. KindsAreApart' /\ ApprovalsAreTimed'
  BY <1>1, <1>3, <1>5 DEF IInv, KindsAreApart, ApprovalsAreTimed
<1>8. BallotsAreFinite' /\ TalliesMatchBallots'
  <2>1. /\ \A j, s : Ballots(j, s)' = Ballots(j, s)
        /\ BallotsAreFinite'
    BY <1>1, NoBallotCast DEF IInv
  <2>2. ASSUME NEW t, t.votes_for = 0, t.votes_against = 0 PROVE TallyFits(id, t)'
    <3>1. Cardinality(Ballots(id, TRUE)) = 0 /\ Cardinality(Ballots(id, FALSE)) = 0
      BY <1>3, NoBallots DEF IInv
    <3>2. /\ Cardinality(Ballots(id, TRUE))' = 0
          /\ Cardinality(Ballots(id, FALSE))' = 0
      BY <2>1, <3>1
    <3>3. 0 >= 0 /\ ~(0 > 0)
      OBVIOUS
    <3> QED
      BY <2>2, <3>2, <3>3 DEF TallyFits
  <2>3. \A i \in DOMAIN proposal : TallyFits(i, proposal[i])'
    BY <1>5, <2>1 DEF IInv, TalliesMatchBallots, TallyFits
  <2>4. \A i \in DOMAIN upgrade : TallyFits(i, upgrade[i])'
    BY <1>1, <2>1 DEF IInv, TalliesMatchBallots, TallyFits
  <2>5. \A k \in DOMAIN vote' : k[1] \in DOMAIN proposal' \cup DOMAIN upgrade'
    BY <1>1, <1>5 DEF IInv, TalliesMatchBallots
  <2> QED
    BY <1>1, <1>4, <1>5, <2>1, <2>2, <2>3, <2>4, <2>5 DEF TalliesMatchBallots
<1>9. OnlyMajoritiesTakeEffect'
  BY <1>1, <1>4, <1>5 DEF IInv, OnlyMajoritiesTakeEffect, Won
<1>10. TargetsAccounted'
  BY <1>1, NothingInstalled DEF IInv
<1>11. Final
  BY <1>1, <1>5 DEF Final, Decided
<1> QED
  BY <1>6, <1>7, <1>8, <1>9, <1>10, <1>11 DEF IInv

\* propose_upgrade.
LEMMA ProposeUpgradeStep ==
  ASSUME IInv, TypeOK', NEW end \in Ledger, NEW expiry \in Ledger, NEW c \in Target,
         NEW w \in Wasm, ProposeUpgrade(c, w, end, expiry)
  PROVE  IInv' /\ Final
<1>0. PICK id : id = nextProposalId
  OBVIOUS
<1> DEFINE new == [contract_address |-> c, new_wasm_hash |-> w, voting_end_ledger |-> end,
                   votes_for |-> 0, votes_against |-> 0, approved |-> FALSE,
                   executed |-> FALSE, timelock_ledger |-> expiry]
<1>1. /\ upgrade' = Put(upgrade, id, new) /\ nextProposalId' = id + 1
      /\ UNCHANGED <<ledger, proposal, vote, timelockExpiry, targetVars>> /\ id \in Id
      /\ expiry > end
  BY <1>0 DEF ProposeUpgrade
<1>2. id \in Nat /\ \A i \in Id : i \in Nat
  BY <1>0 DEF IInv, TypeOK, Id
<1>3. id \notin DOMAIN proposal /\ id \notin DOMAIN upgrade
  BY <1>0, <1>2 DEF IInv, IdsAreFresh
<1>4. /\ new.votes_for = 0 /\ new.votes_against = 0
      /\ new.executed = FALSE /\ new.approved = FALSE
      /\ new.voting_end_ledger = end /\ new.timelock_ledger = expiry
  OBVIOUS
<1> HIDE DEF new
<1>5. /\ DOMAIN upgrade' = DOMAIN upgrade \cup {id}
      /\ upgrade'[id] = new
      /\ \A i \in DOMAIN upgrade : upgrade'[i] = upgrade[i]
  BY <1>1, <1>3 DEF Put
<1>6. IdsAreFresh'
  <2>1. \A i \in DOMAIN proposal \cup DOMAIN upgrade : i \in Nat
    BY <1>2 DEF IInv, TypeOK
  <2>2. \A k \in DOMAIN vote : k[1] \in Nat
    BY <1>2 DEF IInv, TypeOK
  <2> QED
    BY <1>0, <1>1, <1>2, <1>5, <2>1, <2>2 DEF IInv, IdsAreFresh
<1>7. KindsAreApart' /\ ApprovalsAreTimed'
  <2>1. id \notin DOMAIN timelockExpiry
    BY <1>3 DEF IInv, ApprovalsAreTimed
  <2> QED
    BY <1>1, <1>3, <1>4, <1>5, <2>1 DEF IInv, KindsAreApart, ApprovalsAreTimed
<1>8. BallotsAreFinite' /\ TalliesMatchBallots'
  <2>1. /\ \A j, s : Ballots(j, s)' = Ballots(j, s)
        /\ BallotsAreFinite'
    BY <1>1, NoBallotCast DEF IInv
  <2>2. ASSUME NEW t, t.votes_for = 0, t.votes_against = 0 PROVE TallyFits(id, t)'
    <3>1. Cardinality(Ballots(id, TRUE)) = 0 /\ Cardinality(Ballots(id, FALSE)) = 0
      BY <1>3, NoBallots DEF IInv
    <3>2. /\ Cardinality(Ballots(id, TRUE))' = 0
          /\ Cardinality(Ballots(id, FALSE))' = 0
      BY <2>1, <3>1
    <3>3. 0 >= 0 /\ ~(0 > 0)
      OBVIOUS
    <3> QED
      BY <2>2, <3>2, <3>3 DEF TallyFits
  <2>3. \A i \in DOMAIN proposal : TallyFits(i, proposal[i])'
    BY <1>1, <2>1 DEF IInv, TalliesMatchBallots, TallyFits
  <2>4. \A i \in DOMAIN upgrade : TallyFits(i, upgrade[i])'
    BY <1>5, <2>1 DEF IInv, TalliesMatchBallots, TallyFits
  <2>5. \A k \in DOMAIN vote' : k[1] \in DOMAIN proposal' \cup DOMAIN upgrade'
    BY <1>1, <1>5 DEF IInv, TalliesMatchBallots
  <2> QED
    BY <1>1, <1>4, <1>5, <2>1, <2>2, <2>3, <2>4, <2>5 DEF TalliesMatchBallots
<1>9. OnlyMajoritiesTakeEffect'
  BY <1>1, <1>4, <1>5 DEF IInv, OnlyMajoritiesTakeEffect, Won
<1>10. TargetsAccounted'
  BY <1>1, <1>4, <1>5, NothingInstalled DEF IInv
<1>11. Final
  BY <1>1, <1>5 DEF Final, Decided
<1> QED
  BY <1>6, <1>7, <1>8, <1>9, <1>10, <1>11 DEF IInv

\* vote.
LEMMA VoteStep ==
  ASSUME IInv, TypeOK', NEW a \in Address, NEW id \in Id, NEW support \in BOOLEAN,
         Vote(a, id, support)
  PROVE  IInv' /\ Final
<1>0. PICK new : new = Tallied(proposal[id], a, support)
  OBVIOUS
<1>1. /\ id \in DOMAIN proposal /\ ledger < proposal[id].voting_end_ledger
      /\ ~proposal[id].executed
      /\ <<id, a>> \notin DOMAIN vote /\ balance[a] > 0
      /\ vote' = Put(vote, <<id, a>>, support) /\ proposal' = Put(proposal, id, new)
      /\ UNCHANGED <<ledger, nextProposalId, upgrade, timelockExpiry, targetVars>>
  BY <1>0 DEF Vote, MayVote
<1>2. TypeOK /\ LedgerTypeOK
  BY DEF IInv, TypeOK
<1>3. ledger \in Nat /\ nextProposalId \in Nat
  BY <1>2, CountersAreNumbers
<1>4. /\ proposal[id] \in ProposalRecord
      /\ proposal[id].votes_for \in Nat /\ proposal[id].votes_against \in Nat
      /\ proposal[id].voting_end_ledger \in Nat
  BY <1>1, <1>2, ProposalFields
<1>5. /\ new.voting_end_ledger = proposal[id].voting_end_ledger
      /\ new.executed = proposal[id].executed
      /\ new.votes_for = IF support THEN proposal[id].votes_for + balance[a]
                                    ELSE proposal[id].votes_for
      /\ new.votes_against = IF support THEN proposal[id].votes_against
                                        ELSE proposal[id].votes_against + balance[a]
  BY <1>0, <1>2, <1>4, TalliedProposal
<1>6. /\ DOMAIN proposal' = DOMAIN proposal /\ proposal'[id] = new
      /\ \A i \in DOMAIN proposal \ {id} : proposal'[i] = proposal[i]
      /\ DOMAIN vote' = DOMAIN vote \cup {<<id, a>>}
  BY <1>1 DEF Put
<1>7. IdsAreFresh'
  BY <1>1, <1>6 DEF IInv, IdsAreFresh
<1>8. KindsAreApart' /\ ApprovalsAreTimed'
  BY <1>1, <1>6 DEF IInv, KindsAreApart, ApprovalsAreTimed
<1>9. BallotsAreFinite' /\ TalliesMatchBallots'
  <2>1. /\ BallotsAreFinite'
        /\ \A j \in Id, s \in BOOLEAN : j # id => Ballots(j, s)' = Ballots(j, s)
    BY <1>1, BallotCast DEF IInv
  <2>2. TallyFits(id, new)'
    <3>1. TallyFits(id, proposal[id]) /\ BallotsAreFinite
      BY <1>1 DEF IInv, TalliesMatchBallots
    <3>2. \A t : /\ t.votes_for = IF support THEN proposal[id].votes_for + balance[a]
                                             ELSE proposal[id].votes_for
                 /\ t.votes_against = IF support THEN proposal[id].votes_against
                                                 ELSE proposal[id].votes_against + balance[a]
                 => TallyFits(id, t)'
      BY <1>1, <1>2, <1>4, <3>1, TallyGrows
    <3> QED
      BY <1>5, <1>6, <3>2
  <2>3. \A i \in DOMAIN proposal \ {id} : i \in Id /\ TallyFits(i, proposal[i])'
    <3> SUFFICES ASSUME NEW i \in DOMAIN proposal \ {id}
                 PROVE  i \in Id /\ TallyFits(i, proposal[i])'
      OBVIOUS
    <3>1. i \in Id /\ Ballots(i, TRUE)' = Ballots(i, TRUE) /\ Ballots(i, FALSE)' = Ballots(i, FALSE)
      BY <1>2, <2>1, ProposalFields
    <3> QED
      BY <1>6, <3>1 DEF IInv, TalliesMatchBallots, TallyFits
  <2>4. \A i \in DOMAIN upgrade : TallyFits(i, upgrade[i])'
    <3> SUFFICES ASSUME NEW i \in DOMAIN upgrade
                 PROVE  TallyFits(i, upgrade[i])'
      OBVIOUS
    <3>1. i # id
      BY <1>1 DEF IInv, KindsAreApart
    <3>2. Ballots(i, TRUE)' = Ballots(i, TRUE) /\ Ballots(i, FALSE)' = Ballots(i, FALSE)
      BY <1>2, <2>1, <3>1, UpgradeFields
    <3> QED
      BY <1>1, <3>2 DEF IInv, TalliesMatchBallots, TallyFits
  <2>5. \A k \in DOMAIN vote' : k[1] \in DOMAIN proposal' \cup DOMAIN upgrade'
    BY <1>1, <1>6 DEF IInv, TalliesMatchBallots
  <2> QED
    BY <1>1, <1>6, <2>1, <2>2, <2>3, <2>4, <2>5 DEF TalliesMatchBallots
<1>10. OnlyMajoritiesTakeEffect'
  <2>1. ~new.executed
    BY <1>1, <1>5
  <2> QED
    BY <1>1, <1>6, <2>1 DEF IInv, OnlyMajoritiesTakeEffect, Won
<1>11. TargetsAccounted'
  BY <1>1, NothingInstalled DEF IInv
<1>12. Final
  <2>1. Decided(proposal[id], proposal'[id])
    BY <1>1, <1>3, <1>4 DEF Decided
  <2> QED
    BY <1>1, <1>6, <2>1 DEF Final, Decided
<1> QED
  BY <1>7, <1>8, <1>9, <1>10, <1>11, <1>12 DEF IInv

\* vote_upgrade.
LEMMA VoteUpgradeStep ==
  ASSUME IInv, TypeOK', NEW a \in Address, NEW id \in Id, NEW support \in BOOLEAN,
         VoteUpgrade(a, id, support)
  PROVE  IInv' /\ Final
<1>0. PICK new : new = Tallied(upgrade[id], a, support)
  OBVIOUS
<1>1. /\ id \in DOMAIN upgrade /\ ledger < upgrade[id].voting_end_ledger
      /\ ~upgrade[id].executed
      /\ <<id, a>> \notin DOMAIN vote /\ balance[a] > 0
      /\ vote' = Put(vote, <<id, a>>, support) /\ upgrade' = Put(upgrade, id, new)
      /\ UNCHANGED <<ledger, nextProposalId, proposal, timelockExpiry, targetVars>>
  BY <1>0 DEF VoteUpgrade, MayVote
<1>2. TypeOK /\ LedgerTypeOK
  BY DEF IInv, TypeOK
<1>3. ledger \in Nat /\ nextProposalId \in Nat
  BY <1>2, CountersAreNumbers
<1>4. /\ upgrade[id] \in UpgradeProposalRecord
      /\ upgrade[id].votes_for \in Nat /\ upgrade[id].votes_against \in Nat
      /\ upgrade[id].voting_end_ledger \in Nat
  BY <1>1, <1>2, UpgradeFields
<1>5. /\ new.voting_end_ledger = upgrade[id].voting_end_ledger
      /\ new.executed = upgrade[id].executed /\ new.approved = upgrade[id].approved
      /\ new.timelock_ledger = upgrade[id].timelock_ledger
      /\ new.contract_address = upgrade[id].contract_address
      /\ new.new_wasm_hash = upgrade[id].new_wasm_hash
      /\ new.votes_for = IF support THEN upgrade[id].votes_for + balance[a]
                                    ELSE upgrade[id].votes_for
      /\ new.votes_against = IF support THEN upgrade[id].votes_against
                                        ELSE upgrade[id].votes_against + balance[a]
  BY <1>0, <1>2, <1>4, TalliedUpgrade
<1>6. /\ DOMAIN upgrade' = DOMAIN upgrade /\ upgrade'[id] = new
      /\ \A i \in DOMAIN upgrade \ {id} : upgrade'[i] = upgrade[i]
      /\ DOMAIN vote' = DOMAIN vote \cup {<<id, a>>}
  BY <1>1 DEF Put
<1>7. IdsAreFresh'
  BY <1>1, <1>6 DEF IInv, IdsAreFresh
<1>8. KindsAreApart' /\ ApprovalsAreTimed'
  <2>1. \A i \in DOMAIN upgrade : /\ upgrade'[i].timelock_ledger = upgrade[i].timelock_ledger
                                  /\ upgrade'[i].voting_end_ledger = upgrade[i].voting_end_ledger
    BY <1>5, <1>6
  <2> QED
    BY <1>1, <1>6, <2>1 DEF IInv, KindsAreApart, ApprovalsAreTimed
<1>9. BallotsAreFinite' /\ TalliesMatchBallots'
  <2>1. /\ BallotsAreFinite'
        /\ \A j \in Id, s \in BOOLEAN : j # id => Ballots(j, s)' = Ballots(j, s)
    BY <1>1, BallotCast DEF IInv
  <2>2. TallyFits(id, new)'
    <3>1. TallyFits(id, upgrade[id]) /\ BallotsAreFinite
      BY <1>1 DEF IInv, TalliesMatchBallots
    <3>2. \A t : /\ t.votes_for = IF support THEN upgrade[id].votes_for + balance[a]
                                             ELSE upgrade[id].votes_for
                 /\ t.votes_against = IF support THEN upgrade[id].votes_against
                                                 ELSE upgrade[id].votes_against + balance[a]
                 => TallyFits(id, t)'
      BY <1>1, <1>2, <1>4, <3>1, TallyGrows
    <3> QED
      BY <1>5, <1>6, <3>2
  <2>3. \A i \in DOMAIN upgrade \ {id} : TallyFits(i, upgrade[i])'
    <3> SUFFICES ASSUME NEW i \in DOMAIN upgrade \ {id}
                 PROVE  TallyFits(i, upgrade[i])'
      OBVIOUS
    <3>1. Ballots(i, TRUE)' = Ballots(i, TRUE) /\ Ballots(i, FALSE)' = Ballots(i, FALSE)
      BY <1>2, <2>1, UpgradeFields
    <3> QED
      BY <1>6, <3>1 DEF IInv, TalliesMatchBallots, TallyFits
  <2>4. \A i \in DOMAIN proposal : TallyFits(i, proposal[i])'
    <3> SUFFICES ASSUME NEW i \in DOMAIN proposal
                 PROVE  TallyFits(i, proposal[i])'
      OBVIOUS
    <3>1. i # id
      BY <1>1 DEF IInv, KindsAreApart
    <3>2. Ballots(i, TRUE)' = Ballots(i, TRUE) /\ Ballots(i, FALSE)' = Ballots(i, FALSE)
      BY <1>2, <2>1, <3>1, ProposalFields
    <3> QED
      BY <1>1, <3>2 DEF IInv, TalliesMatchBallots, TallyFits
  <2>5. \A k \in DOMAIN vote' : k[1] \in DOMAIN proposal' \cup DOMAIN upgrade'
    BY <1>1, <1>6 DEF IInv, TalliesMatchBallots
  <2> QED
    BY <1>1, <1>6, <2>1, <2>2, <2>3, <2>4, <2>5 DEF TalliesMatchBallots
<1>10. OnlyMajoritiesTakeEffect'
  <2>1. ~new.executed
    BY <1>1, <1>5
  <2>2. ~new.approved
    <3>1. ~Won(upgrade[id])
      BY <1>1, <1>3, <1>4 DEF Won
    <3> QED
      BY <1>1, <1>5, <3>1 DEF IInv, OnlyMajoritiesTakeEffect
  <2> QED
    BY <1>1, <1>6, <2>1, <2>2 DEF IInv, OnlyMajoritiesTakeEffect, Won
<1>11. TargetsAccounted'
  BY <1>1, <1>5, <1>6, NothingInstalled DEF IInv
<1>12. Final
  <2>1. Decided(upgrade[id], upgrade'[id])
    BY <1>1, <1>3, <1>4 DEF Decided
  <2> QED
    BY <1>1, <1>5, <1>6, <2>1 DEF Final, Decided
<1> QED
  BY <1>7, <1>8, <1>9, <1>10, <1>11, <1>12 DEF IInv

\* execute_proposal.
LEMMA ExecuteProposalStep ==
  ASSUME IInv, TypeOK', NEW id \in Id, ExecuteProposal(id)
  PROVE  IInv' /\ Final
<1>0. PICK new : new = [proposal[id] EXCEPT !.executed = TRUE]
  OBVIOUS
<1>1. /\ id \in DOMAIN proposal /\ Won(proposal[id])
      /\ proposal' = [proposal EXCEPT ![id] = new]
      /\ UNCHANGED <<ledger, nextProposalId, upgrade, vote, timelockExpiry, targetVars>>
  BY <1>0 DEF ExecuteProposal, HasPassed, Won
<1>2. proposal[id] \in ProposalRecord
  BY <1>1, ProposalFields DEF IInv
<1>3. /\ new.voting_end_ledger = proposal[id].voting_end_ledger /\ new.executed = TRUE
      /\ new.votes_for = proposal[id].votes_for
      /\ new.votes_against = proposal[id].votes_against
  BY <1>0, <1>2 DEF ProposalRecord
<1>4. /\ DOMAIN proposal' = DOMAIN proposal /\ proposal'[id] = new
      /\ \A i \in DOMAIN proposal \ {id} : proposal'[i] = proposal[i]
  BY <1>1
<1>5. IdsAreFresh' /\ KindsAreApart' /\ ApprovalsAreTimed'
  BY <1>1, <1>4 DEF IInv, IdsAreFresh, KindsAreApart, ApprovalsAreTimed
<1>6. BallotsAreFinite' /\ TalliesMatchBallots'
  <2>1. BallotsAreFinite' /\ \A j, s : Ballots(j, s)' = Ballots(j, s)
    BY <1>1, NoBallotCast DEF IInv
  <2>2. \A i \in DOMAIN proposal : /\ proposal'[i].votes_for = proposal[i].votes_for
                                   /\ proposal'[i].votes_against = proposal[i].votes_against
    BY <1>3, <1>4
  <2> QED
    BY <1>1, <1>4, <2>1, <2>2 DEF IInv, TalliesMatchBallots, TallyFits
<1>7. OnlyMajoritiesTakeEffect'
  BY <1>1, <1>3, <1>4 DEF IInv, OnlyMajoritiesTakeEffect, Won
<1>8. TargetsAccounted'
  BY <1>1, NothingInstalled DEF IInv
<1>9. Final
  BY <1>1, <1>3, <1>4 DEF Final, Decided
<1> QED
  BY <1>5, <1>6, <1>7, <1>8, <1>9 DEF IInv

\* approve_upgrade.
LEMMA ApproveUpgradeStep ==
  ASSUME IInv, TypeOK', NEW id \in Id, ApproveUpgrade(id)
  PROVE  IInv' /\ Final
<1>0. PICK new : new = [upgrade[id] EXCEPT !.approved = TRUE]
  OBVIOUS
<1>1. /\ id \in DOMAIN upgrade /\ Won(upgrade[id])
      /\ upgrade' = [upgrade EXCEPT ![id] = new]
      /\ timelockExpiry' = Put(timelockExpiry, id, upgrade[id].timelock_ledger)
      /\ UNCHANGED <<ledger, nextProposalId, proposal, vote, targetVars>>
  BY <1>0 DEF ApproveUpgrade, HasPassed, Won
<1>2. upgrade[id] \in UpgradeProposalRecord
  BY <1>1, UpgradeFields DEF IInv
<1>3. /\ new.voting_end_ledger = upgrade[id].voting_end_ledger /\ new.approved = TRUE
      /\ new.executed = upgrade[id].executed
      /\ new.votes_for = upgrade[id].votes_for
      /\ new.votes_against = upgrade[id].votes_against
      /\ new.timelock_ledger = upgrade[id].timelock_ledger
      /\ new.contract_address = upgrade[id].contract_address
      /\ new.new_wasm_hash = upgrade[id].new_wasm_hash
  BY <1>0, <1>2 DEF UpgradeProposalRecord
<1>4. /\ DOMAIN upgrade' = DOMAIN upgrade /\ upgrade'[id] = new
      /\ \A i \in DOMAIN upgrade \ {id} : upgrade'[i] = upgrade[i]
  BY <1>1
<1>5. IdsAreFresh' /\ KindsAreApart'
  BY <1>1, <1>4 DEF IInv, IdsAreFresh, KindsAreApart
<1>6. ApprovalsAreTimed'
  <2>1. \A i \in DOMAIN upgrade : /\ upgrade'[i].timelock_ledger = upgrade[i].timelock_ledger
                                  /\ upgrade'[i].voting_end_ledger = upgrade[i].voting_end_ledger
    BY <1>3, <1>4
  <2>2. /\ DOMAIN timelockExpiry' = DOMAIN timelockExpiry \cup {id}
        /\ timelockExpiry'[id] = upgrade[id].timelock_ledger
        /\ \A i \in DOMAIN timelockExpiry \ {id} : timelockExpiry'[i] = timelockExpiry[i]
    BY <1>1 DEF Put
  <2> QED
    BY <1>1, <1>4, <2>1, <2>2 DEF IInv, ApprovalsAreTimed
<1>7. BallotsAreFinite' /\ TalliesMatchBallots'
  <2>1. BallotsAreFinite' /\ \A j, s : Ballots(j, s)' = Ballots(j, s)
    BY <1>1, NoBallotCast DEF IInv
  <2>2. \A i \in DOMAIN upgrade : /\ upgrade'[i].votes_for = upgrade[i].votes_for
                                  /\ upgrade'[i].votes_against = upgrade[i].votes_against
    BY <1>3, <1>4
  <2> QED
    BY <1>1, <1>4, <2>1, <2>2 DEF IInv, TalliesMatchBallots, TallyFits
<1>8. OnlyMajoritiesTakeEffect'
  BY <1>1, <1>3, <1>4 DEF IInv, OnlyMajoritiesTakeEffect, Won
<1>9. TargetsAccounted'
  BY <1>1, <1>3, <1>4, NothingInstalled DEF IInv
<1>10. Final
  BY <1>1, <1>3, <1>4 DEF Final, Decided
<1> QED
  BY <1>5, <1>6, <1>7, <1>8, <1>9, <1>10 DEF IInv

\* execute_upgrade.
LEMMA ExecuteUpgradeStep ==
  ASSUME IInv, TypeOK', NEW id \in Id, ExecuteUpgrade(id)
  PROVE  IInv' /\ Final
<1>0. PICK new : new = [upgrade[id] EXCEPT !.executed = TRUE]
  OBVIOUS
<1> DEFINE target == upgrade[id].contract_address
           wasm == upgrade[id].new_wasm_hash
<1>1. /\ id \in DOMAIN upgrade /\ upgrade[id].approved /\ ~upgrade[id].executed
      /\ id \in DOMAIN timelockExpiry /\ ledger >= timelockExpiry[id]
      /\ upgrade' = [upgrade EXCEPT ![id] = new]
      /\ GovernedUpgrade(target, wasm)
      /\ UNCHANGED <<ledger, nextProposalId, proposal, vote, timelockExpiry>>
  BY <1>0 DEF ExecuteUpgrade
<1>2. upgrade[id] \in UpgradeProposalRecord /\ target \in Target /\ wasm \in Wasm
  BY <1>1, UpgradeFields DEF IInv
<1>3. /\ new.voting_end_ledger = upgrade[id].voting_end_ledger /\ new.executed = TRUE
      /\ new.approved = upgrade[id].approved
      /\ new.votes_for = upgrade[id].votes_for
      /\ new.votes_against = upgrade[id].votes_against
      /\ new.timelock_ledger = upgrade[id].timelock_ledger
      /\ new.contract_address = upgrade[id].contract_address
      /\ new.new_wasm_hash = upgrade[id].new_wasm_hash
  BY <1>0, <1>2 DEF UpgradeProposalRecord
<1>4. /\ DOMAIN upgrade' = DOMAIN upgrade /\ upgrade'[id] = new
      /\ \A i \in DOMAIN upgrade \ {id} : upgrade'[i] = upgrade[i]
  BY <1>1
<1>5. IdsAreFresh' /\ KindsAreApart'
  BY <1>1, <1>4 DEF IInv, IdsAreFresh, KindsAreApart
<1>6. ApprovalsAreTimed'
  <2>1. \A i \in DOMAIN upgrade : /\ upgrade'[i].timelock_ledger = upgrade[i].timelock_ledger
                                  /\ upgrade'[i].voting_end_ledger = upgrade[i].voting_end_ledger
    BY <1>3, <1>4
  <2> QED
    BY <1>1, <1>4, <2>1 DEF IInv, ApprovalsAreTimed
<1>7. BallotsAreFinite' /\ TalliesMatchBallots'
  <2>1. BallotsAreFinite' /\ \A j, s : Ballots(j, s)' = Ballots(j, s)
    BY <1>1, NoBallotCast DEF IInv
  <2>2. \A i \in DOMAIN upgrade : /\ upgrade'[i].votes_for = upgrade[i].votes_for
                                  /\ upgrade'[i].votes_against = upgrade[i].votes_against
    BY <1>3, <1>4
  <2> QED
    BY <1>1, <1>4, <2>1, <2>2 DEF IInv, TalliesMatchBallots, TallyFits
<1>8. OnlyMajoritiesTakeEffect'
  <2>1. /\ Won(upgrade[id]) /\ ledger >= upgrade[id].timelock_ledger
        /\ upgrade[id].timelock_ledger > upgrade[id].voting_end_ledger
    BY <1>1 DEF IInv, OnlyMajoritiesTakeEffect, ApprovalsAreTimed
  <2> QED
    BY <1>1, <1>3, <1>4, <2>1 DEF IInv, OnlyMajoritiesTakeEffect, Won
<1>9. TargetsAccounted'
  <2>1. PICK t \in Target : t = target
    BY <1>2
  <2>2. /\ Cardinality(Executed(t)) \in Nat /\ IsFiniteSet(Executed(t))
        /\ Accounted(code[t], touched[t], Cardinality(Executed(t)), Voted(t))
    BY ExecutedIsFinite DEF IInv, TargetsAccounted, InstalledOnce
  <2>3. /\ Accounted(code'[t], touched'[t], Cardinality(Executed(t)) + 1, Voted(t) \cup {wasm})
        /\ \A u \in Target \ {t} : code'[u] = code[u] /\ touched'[u] = touched[u]
    <3>1. GovernedUpgrade(t, wasm) /\ TargetTypeOK
      BY <1>1, <2>1 DEF IInv, TypeOK
    <3> HIDE DEF target, wasm
    <3> QED
      BY <1>2, <2>2, <3>1, UpgradeInstalled
  <2>4. id \notin Executed(t) /\ Executed(t)' = Executed(t) \cup {id}
    BY <1>1, <1>3, <1>4, <2>1 DEF Executed
  <2>5. Cardinality(Executed(t))' = Cardinality(Executed(t)) + 1
    BY <2>2, <2>4, FS_AddElement
  <2>6. Voted(t)' = Voted(t) \cup {wasm}
    BY <1>3, <1>4, <2>4 DEF Voted, Executed
  <2>7. InstalledOnce(t)'
    BY <2>3, <2>5, <2>6 DEF InstalledOnce
  <2>8. ASSUME NEW c \in Target \ {t} PROVE InstalledOnce(c)'
    <3>1. Executed(c)' = Executed(c)
      BY <1>1, <1>3, <1>4, <2>1 DEF Executed
    <3>2. Voted(c)' = Voted(c)
      BY <1>3, <1>4, <3>1 DEF Voted, Executed
    <3>3. InstalledOnce(c)
      BY DEF IInv, TargetsAccounted
    <3> QED
      BY <2>3, <3>1, <3>2, <3>3 DEF InstalledOnce
  <2> QED
    BY <2>7, <2>8 DEF TargetsAccounted
<1>10. Final
  BY <1>1, <1>3, <1>4 DEF Final, Decided
<1> QED
  BY <1>5, <1>6, <1>7, <1>8, <1>9, <1>10 DEF IInv

\* What else happens to a target.
LEMMA TargetStep ==
  ASSUME IInv, TypeOK', TargetNext, UNCHANGED <<ledgerVars, ledger, governanceVars>>
  PROVE  IInv' /\ Final
<1>1. UNCHANGED <<ledger, nextProposalId, proposal, upgrade, vote, timelockExpiry>>
  BY DEF governanceVars
<1>2. ItemsInv' /\ Final
  <2>1. ledger' >= ledger /\ nextProposalId' >= nextProposalId
    BY <1>1, CountersAreNumbers DEF IInv
  <2> QED
    BY <1>1, <2>1, ItemsUntouched DEF IInv, ItemsInv
<1>3. TargetsAccounted'
  <2>1. PICK N, H : \A c \in Target : N[c] = Cardinality(Executed(c)) /\ H[c] = Voted(c)
    <3> DEFINE n == [c \in Target |-> Cardinality(Executed(c))]
               h == [c \in Target |-> Voted(c)]
    <3>1. \A c \in Target : n[c] = Cardinality(Executed(c)) /\ h[c] = Voted(c)
      OBVIOUS
    <3> QED
      BY <3>1
  <2>2. \A c \in Target : N[c] \in Nat /\ Accounted(code[c], touched[c], N[c], H[c])
    BY <2>1, ExecutedIsFinite DEF IInv, TargetsAccounted, InstalledOnce
  <2>3. \A c \in Target : Accounted(code'[c], touched'[c], N[c], H[c])
    BY <2>2, TargetsKept DEF IInv, TypeOK
  <2>4. \A c : Executed(c)' = Executed(c) /\ Voted(c)' = Voted(c)
    BY <1>1 DEF Executed, Voted
  <2> QED
    BY <2>1, <2>3, <2>4 DEF TargetsAccounted, InstalledOnce
<1> QED
  BY <1>2, <1>3 DEF IInv, ItemsInv

\* The steps that change neither an item nor a target.
LEMMA QuietStep ==
  ASSUME IInv, TypeOK', UNCHANGED <<proposal, upgrade, vote, timelockExpiry, targetVars>>,
         ledger' >= ledger, nextProposalId' >= nextProposalId
  PROVE  IInv' /\ Final
<1>1. ItemsInv' /\ Final
  BY ItemsUntouched DEF IInv, ItemsInv
<1>2. TargetsAccounted'
  BY NothingInstalled DEF IInv
<1> QED
  BY <1>1, <1>2 DEF IInv, ItemsInv

----------------------------------------------------------------------------
LEMMA InitialIInv == Init => IInv
<1> SUFFICES ASSUME Init PROVE IInv
  OBVIOUS
<1>1. DOMAIN proposal = {} /\ DOMAIN upgrade = {} /\ DOMAIN vote = {}
      /\ DOMAIN timelockExpiry = {}
  BY DEF Init, NoEntries
<1>2. TypeOK
  <2>1. LedgerTypeOK
    <3>1. /\ admin = NoAdmin /\ balance = [a \in Address |-> 0]
          /\ allowance = [a \in Address |-> [s \in Address |-> 0]] /\ totalSupply = 0
          /\ burnStats = [total_burned |-> 0, burn_count |-> 0] /\ locked = FALSE
      BY DEF Init, EmptyLedger
    <3>2. 0 \in 0..I128Max
      BY LedgerAssumption
    <3>3. balance \in [Address -> Nat]
      BY <3>1
    <3>4. allowance \in [Address -> [Address -> Nat]]
      BY <3>1
    <3>5. burnStats \in [total_burned : 0..I128Max, burn_count : Nat]
      BY <3>1, <3>2
    <3>6. 0 \in Int
      OBVIOUS
    <3>7. admin \in Address \cup {NoAdmin} /\ totalSupply \in Int /\ locked \in BOOLEAN
      BY <3>1, <3>6
    <3> QED
      BY <3>3, <3>4, <3>5, <3>7 DEF LedgerTypeOK
  <2>2. TargetTypeOK
    BY DEF Init, TargetInit, TargetTypeOK, CodeRecord, Governor
  <2>3. ledger \in Ledger /\ timelockLedgers \in Delay \cup {0} /\ nextProposalId \in 0..(MaxItems + 1)
    BY DEF Init, Ledger
  <2> QED
    BY <1>1, <2>1, <2>2, <2>3 DEF TypeOK
<1>3. BallotsAreFinite
  BY <1>1, FS_EmptySet DEF BallotsAreFinite, Ballots
<1>4. TargetsAccounted
  <2>1. ASSUME NEW c \in Target PROVE InstalledOnce(c)
    <3>1. Executed(c) = {} /\ Cardinality(Executed(c)) = 0
      BY <1>1, FS_EmptySet DEF Executed
    <3>2. /\ code[c].wasm = Genesis /\ code[c].history = <<>> /\ touched[c] = {}
          /\ code[c].version = 1 /\ code[c].migrated = 1 /\ code[c].governance = "contract"
      BY DEF Init, TargetInit
    <3> QED
      BY <3>1, <3>2 DEF InstalledOnce, Accounted
  <2> QED
    BY <2>1 DEF TargetsAccounted
<1> QED
  BY <1>1, <1>2, <1>3, <1>4 DEF IInv, IdsAreFresh, KindsAreApart, ApprovalsAreTimed,
     TalliesMatchBallots, OnlyMajoritiesTakeEffect

LEMMA IInvStep == IInv /\ [Next]_vars => IInv' /\ [Final]_vars
<1> SUFFICES ASSUME IInv, [Next]_vars PROVE IInv' /\ [Final]_vars
  OBVIOUS
<1>0. TypeOK' /\ ledger \in Nat /\ nextProposalId \in Nat
  BY TypeStep, CountersAreNumbers DEF IInv
<1>1. CASE UNCHANGED vars
  BY <1>0, <1>1, QuietStep DEF vars, governanceVars
<1>2. CASE LedgerNext /\ UNCHANGED <<ledger, governanceVars, targetVars>>
  BY <1>0, <1>2, QuietStep DEF governanceVars
<1>3. CASE CloseLedger
  BY <1>0, <1>3, QuietStep DEF CloseLedger, governanceVars
<1>4. ASSUME NEW d \in Delay, GovernanceInitialize(d) PROVE IInv' /\ Final
  BY <1>0, <1>4, QuietStep DEF GovernanceInitialize
<1>5. ASSUME NEW end \in Ledger, CreateProposal(end) PROVE IInv' /\ Final
  BY <1>0, <1>5, CreateProposalStep
<1>6. ASSUME NEW end \in Ledger, NEW expiry \in Ledger, NEW c \in Target, NEW w \in Wasm,
             ProposeUpgrade(c, w, end, expiry)
      PROVE  IInv' /\ Final
  BY <1>0, <1>6, ProposeUpgradeStep
<1>7. ASSUME NEW a \in Address, NEW i \in Id, NEW support \in BOOLEAN,
             Vote(a, i, support) \/ VoteUpgrade(a, i, support)
      PROVE  IInv' /\ Final
  BY <1>0, <1>7, VoteStep, VoteUpgradeStep
<1>8. ASSUME NEW i \in Id, ExecuteProposal(i) \/ ApproveUpgrade(i) \/ ExecuteUpgrade(i)
      PROVE  IInv' /\ Final
  BY <1>0, <1>8, ExecuteProposalStep, ApproveUpgradeStep, ExecuteUpgradeStep
<1>9. CASE TargetNext /\ UNCHANGED <<ledgerVars, ledger, governanceVars>>
  BY <1>0, <1>9, TargetStep
<1> QED
  BY <1>1, <1>2, <1>3, <1>4, <1>5, <1>6, <1>7, <1>8, <1>9 DEF Next

\* The governance contract keeps its inductive invariant.
THEOREM GovernanceCorrect == Spec => []IInv
<1>1. Init => IInv
  BY InitialIInv
<1>2. IInv /\ [Next]_vars => IInv'
  BY IInvStep
<1> QED
  BY <1>1, <1>2, PTL DEF Spec

\* A behaviour of the contracts is one of the governance contract, with steps
\* of the others that leave it alone.
LEMMA GovernanceAmongContracts == ContractsSpec => Spec
<1>1. ContractsInit => Init
  BY DEF ContractsInit
<1>2. [ContractsNext]_contractVars => [Next]_vars
  BY DEF ContractsNext, contractVars
<1> QED
  BY <1>1, <1>2, PTL DEF ContractsSpec, Spec

\* Tallies belong to the voters recorded under the item's id: proposals and
\* upgrades share the counter and the Vote keys, and no vote on the one ever
\* counts for the other, whatever the balances are.
THEOREM TalliesAreVotes == ContractsSpec => []TalliesMatchBallots
<1>1. IInv => TalliesMatchBallots
  BY DEF IInv
<1> QED
  BY <1>1, GovernanceCorrect, GovernanceAmongContracts, PTL

\* Nothing is executed or approved without a majority after its voting end
\* that still stands, and no upgrade is executed before its timelock.
THEOREM MajoritiesRule == ContractsSpec => []OnlyMajoritiesTakeEffect
<1>1. IInv => OnlyMajoritiesTakeEffect
  BY DEF IInv
<1> QED
  BY <1>1, GovernanceCorrect, GovernanceAmongContracts, PTL

\* Every upgrade is installed at most once, and whoever else intervenes at a
\* target is accounted for: the version keeps up with the executed upgrades
\* unless the target is initialised again, the history unless another address
\* governs it, and its first code stays at the bottom unless the admin
\* replaces code without history.
THEOREM UpgradesAreInstalledOnce == ContractsSpec => []UpgradesInstallOnce
<1>1. IInv => UpgradesInstallOnce
  BY InstallOnceForm DEF IInv
<1> QED
  BY <1>1, GovernanceCorrect, GovernanceAmongContracts, PTL

\* After the voting end no step removes an item, changes a tally or takes an
\* execution or approval back.
THEOREM VerdictsAreFinal == ContractsSpec => VerdictIsFinal
<1>1. IInv /\ [Next]_vars => [Final]_vars
  BY IInvStep
<1> QED
  BY <1>1, GovernanceCorrect, GovernanceAmongContracts, PTL DEF Spec, VerdictIsFinal, Final
=============================================================================
