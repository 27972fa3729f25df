------------------------------ MODULE Accounts ------------------------------
(***************************************************************************)
(* AuthService, TokenService, MfaService and UsersService (apps/backend/   *)
(* src/auth, src/users) for one user: secrets that are good for one use,   *)
(* and a user row that every request saves as it read it.                  *)
(***************************************************************************)
EXTENDS Naturals, FiniteSets

CONSTANTS
  Request,      \* requests that run at a time
  Code,         \* MFA backup codes
  ResetLimit,   \* reset tokens per hour
  MaxTokens,    \* bound: tokens of each kind
  MaxRequests,  \* bound: requests
  MaxAuthFaults \* bound: requests that die

NoRequest == [at |-> "idle"]
Token == 1..MaxTokens

ASSUME AccountAssumption ==
  /\ IsFiniteSet(Request) /\ ResetLimit \in Nat \ {0}
  /\ {MaxTokens, MaxRequests, MaxAuthFaults} \subseteq Nat

VARIABLES
  account,      \* the row: password (its version), banned, backup codes
  refresh,      \* refresh tokens: "none", "live", "revoked"
  reset,        \* reset tokens: "none", "live", "used"
  request,      \* the requests
  honoured,     \* history: uses of each secret, counted up to 2
  raced,        \* history: secrets two requests worked on at a time
  rowRaced,     \* history: two requests held the row at a time
  passwords,    \* history: passwords saved
  banned,       \* history: a ban was saved
  requests, authFaults

tokenVars == <<refresh, reset>>
accountVars == <<account, tokenVars, request, honoured, raced, rowRaced, passwords, banned, requests, authFaults>>

Secret == [kind : {"refresh", "reset"}, key : Token] \cup [kind : {"code"}, key : Code]

AccountTypeOK ==
  /\ account \in [password : 0..MaxRequests, banned : BOOLEAN, codes : SUBSET Code]
  /\ refresh \in [Token -> {"none", "live", "revoked"}] /\ reset \in [Token -> {"none", "live", "used"}]
  /\ honoured \in [Secret -> 0..2]

AccountInit ==
  /\ account = [password |-> 0, banned |-> FALSE, codes |-> Code]
  /\ refresh = [i \in Token |-> IF i = 1 THEN "live" ELSE "none"] /\ reset = [i \in Token |-> "none"]
  /\ request = [k \in Request |-> NoRequest] /\ honoured = [s \in Secret |-> 0] /\ raced = {} /\ rowRaced = FALSE
  /\ passwords = 0 /\ banned = FALSE /\ requests = 0 /\ authFaults = 0

Continue(k, next) == request' = [request EXCEPT ![k] = next]
Begin == requests < MaxRequests /\ requests' = requests + 1
Use(s) == honoured' = [honoured EXCEPT ![s] = IF @ < 2 THEN @ + 1 ELSE @]
Live(table) == {i \in Token : table[i] = "live"}
Unused(table) == {i \in Token : table[i] = "none" /\ \A j \in Token : j < i => table[j] # "none"}

\* A request takes a secret in hand; beside another that has it, it races. A
\* code is a part of the row.
Others(k, s) == {j \in Request \ {k} : request[j] # NoRequest /\ "secret" \in DOMAIN request[j] /\ request[j].secret = s}
Editors(k) == {j \in Request \ {k} : request[j].at \in {"code", "merge", "save"}}

RaceFor(k, s) == raced' = IF Others(k, s) = {} THEN raced ELSE raced \cup {s}
RaceForRow(k) == rowRaced' = (rowRaced \/ Editors(k) # {})

----------------------------------------------------------------------------
(* Refresh tokens                                                          *)

\* refresh and revokeRefreshToken look for the unrevoked row first.
FindRefresh(k, i, renew) ==
  /\ request[k] = NoRequest /\ Begin /\ i \in Live(refresh)
  /\ LET s == [kind |-> "refresh", key |-> i]
     IN  Continue(k, [at |-> "revoke", secret |-> s, renew |-> renew]) /\ RaceFor(k, s)
  /\ UNCHANGED <<account, tokenVars, honoured, rowRaced, passwords, banned, authFaults>>

\* Faulty variant of Revoke: only a logout revokes the token.
RevokeAtLogout(k) ==
  LET my == request[k]
  IN  /\ my.at = "revoke"
      /\ refresh' = IF my.renew THEN refresh ELSE [refresh EXCEPT ![my.secret.key] = "revoked"]
      /\ Continue(k, IF my.renew THEN [at |-> "issue", secret |-> my.secret] ELSE NoRequest)
      /\ UNCHANGED <<account, reset, honoured, raced, rowRaced, passwords, banned, requests, authFaults>>

Revoke(k) ==
  LET my == request[k]
  IN  /\ my.at = "revoke"
      /\ refresh' = [refresh EXCEPT ![my.secret.key] = "revoked"]
      /\ Continue(k, IF my.renew THEN [at |-> "issue", secret |-> my.secret] ELSE NoRequest)
      /\ UNCHANGED <<account, reset, honoured, raced, rowRaced, passwords, banned, requests, authFaults>>

\* issueTokenPair saves a new token.
IssuePair(k) ==
  /\ request[k].at = "issue"
  /\ \E i \in Unused(refresh) : refresh' = [refresh EXCEPT ![i] = "live"]
  /\ Use(request[k].secret) /\ Continue(k, NoRequest)
  /\ UNCHANGED <<account, reset, raced, rowRaced, passwords, banned, requests, authFaults>>

----------------------------------------------------------------------------
(* Password resets                                                         *)

\* The tokens of the last hour are counted, all of them in this model, and
\* one more saved later.
ForgotPassword(k) ==
  /\ request[k] = NoRequest /\ Begin
  /\ Cardinality({i \in Token : reset[i] # "none"}) < ResetLimit
  /\ Continue(k, [at |-> "create"])
  /\ UNCHANGED <<account, tokenVars, honoured, raced, rowRaced, passwords, banned, authFaults>>

SaveResetToken(k) ==
  /\ request[k].at = "create"
  /\ \E i \in Unused(reset) : reset' = [reset EXCEPT ![i] = "live"]
  /\ Continue(k, NoRequest)
  /\ UNCHANGED <<account, refresh, honoured, raced, rowRaced, passwords, banned, requests, authFaults>>

\* resetPassword finds an unused token, and hashes the new password.
ResetPassword(k, i) ==
  /\ request[k] = NoRequest /\ Begin /\ i \in Live(reset)
  /\ LET s == [kind |-> "reset", key |-> i]
     IN  Continue(k, [at |-> "hashed", secret |-> s]) /\ RaceFor(k, s)
  /\ UNCHANGED <<account, tokenVars, honoured, rowRaced, passwords, banned, authFaults>>

\* UsersService.update: the row is read, the change merged, and saved whole.
MergePassword(k) ==
  /\ request[k].at = "hashed"
  /\ passwords < MaxRequests /\ passwords' = passwords + 1
  /\ Continue(k, [at |-> "save", secret |-> request[k].secret, row |-> [account EXCEPT !.password = passwords']])
  /\ RaceForRow(k)
  /\ UNCHANGED <<account, tokenVars, honoured, raced, banned, requests, authFaults>>

\* The token is marked as used after the password was saved.
MarkUsed(k) ==
  /\ request[k].at = "mark"
  /\ reset' = [reset EXCEPT ![request[k].secret.key] = "used"]
  /\ Continue(k, NoRequest)
  /\ UNCHANGED <<account, refresh, honoured, raced, rowRaced, passwords, banned, requests, authFaults>>

----------------------------------------------------------------------------
(* Backup codes, bans and the save they share                              *)

\* useBackupCode finds the code among those it read.
UseBackupCode(k, c) ==
  /\ request[k] = NoRequest /\ Begin /\ c \in account.codes
  /\ Continue(k, [at |-> "code", secret |-> [kind |-> "code", key |-> c], left |-> account.codes \ {c}])
  /\ RaceForRow(k)
  /\ UNCHANGED <<account, tokenVars, honoured, raced, passwords, banned, authFaults>>

\* update reads the row again, and merges the codes that were left.
MergeCodes(k) ==
  /\ request[k].at = "code"
  /\ Continue(k, [at |-> "save", secret |-> request[k].secret, row |-> [account EXCEPT !.codes = request[k].left]])
  /\ UNCHANGED <<account, tokenVars, honoured, raced, rowRaced, passwords, banned, requests, authFaults>>

BanUser(k) ==
  /\ request[k] = NoRequest /\ Begin
  /\ Continue(k, [at |-> "save", row |-> [account EXCEPT !.banned = TRUE]])
  /\ RaceForRow(k)
  /\ UNCHANGED <<account, tokenVars, honoured, raced, passwords, banned, authFaults>>

\* The whole row is saved: what another request changed meanwhile is undone.
SaveAccount(k) ==
  LET my == request[k]
      kind == IF "secret" \in DOMAIN my THEN my.secret.kind ELSE "none"
  IN  /\ my.at = "save"
      /\ account' = my.row
      /\ banned' = (banned \/ my.row.banned)
      /\ IF kind = "none" THEN UNCHANGED honoured ELSE Use(my.secret)
      /\ Continue(k, IF kind = "reset" THEN [at |-> "mark", secret |-> my.secret] ELSE NoRequest)
      /\ UNCHANGED <<tokenVars, raced, rowRaced, passwords, requests, authFaults>>

\* The process dies, or the database refuses.
AbortRequest(k) ==
  /\ request[k] # NoRequest /\ authFaults < MaxAuthFaults /\ authFaults' = authFaults + 1
  /\ Continue(k, NoRequest)
  /\ UNCHANGED <<account, tokenVars, honoured, raced, rowRaced, passwords, banned, requests>>

AccountNext ==
  \E k \in Request :
    \/ \E i \in Token, renew \in BOOLEAN : FindRefresh(k, i, renew)
    \/ Revoke(k) \/ IssuePair(k)
    \/ ForgotPassword(k) \/ SaveResetToken(k) \/ (\E i \in Token : ResetPassword(k, i)) \/ MergePassword(k) \/ MarkUsed(k)
    \/ (\E c \in Code : UseBackupCode(k, c)) \/ MergeCodes(k) \/ BanUser(k) \/ SaveAccount(k)
    \/ AbortRequest(k)

----------------------------------------------------------------------------
\* Unless two requests worked on it at a time, a refresh token is exchanged
\* once and a backup code, like a ban, is not brought back by a row saved
\* whole; a reset token is used once unless its request dies before it is
\* marked. Requests that overlap get one reset token more each than allowed.
SecretsAreSpentOnce ==
  /\ \A s \in Secret :
       honoured[s] > 1 => \/ s \in raced
                          \/ s.kind = "code" /\ rowRaced
                          \/ s.kind = "reset" /\ authFaults > 0
  /\ banned /\ ~account.banned => rowRaced
  /\ Cardinality({i \in Token : reset[i] # "none"}) < ResetLimit + Cardinality(Request)
=============================================================================
