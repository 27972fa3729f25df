---------------------------- MODULE LiveSessions ----------------------------
(***************************************************************************)
(* LiveSessionsService (apps/backend/src/live-sessions), for one session:  *)
(* a cron job reads the upcoming sessions every minute and mails a         *)
(* reminder a day and an hour before they start, member by member; the     *)
(* instructor reschedules or cancels meanwhile. Every one of them saves    *)
(* the whole row as it was read. A run of the job that takes longer than a *)
(* minute, or runs in another replica, overlaps the next one.              *)
(*                                                                         *)
(* Time is counted so that a session at + 3 is in the window (23 h, 24 h], *)
(* and one at + 1 in (0 h, 1 h].                                           *)
(***************************************************************************)
EXTENDS Naturals, Sequences, FiniteSets

CONSTANTS
  Member,       \* members of the cohort
  Sweeper,      \* runs of sendReminders that may overlap
  Editor,       \* requests of the instructor that may overlap
  NoSession,    \* not created yet
  MaxTime,      \* bound: the clock
  MaxCalls      \* bound: requests of the instructor and runs that die

Label == {"24h", "1h"}
SessionRow == [status : {"scheduled", "cancelled"}, scheduledAt : 0..MaxTime + 4, sent : SUBSET Label]

ASSUME SessionAssumption == {MaxTime, MaxCalls} \subseteq Nat /\ NoSession \notin SessionRow

VARIABLES
  now,
  session,  \* the row
  sweep,    \* per run: its copy, the labels to send, the members still to mail
  request,  \* per editor: the row it will save
  mailed,   \* history: how often a member was mailed a label, up to 2
  raced,    \* history: a run began while a run or a request was under way,
            \* or a request while a run was, or a run died
  calls

sessionVars == <<now, session, sweep, request, mailed, raced, calls>>

Resting == [labels |-> <<>>, row |-> NoSession, todo |-> {}]

SessionTypeOK ==
  /\ now \in 0..MaxTime /\ calls \in 0..MaxCalls /\ raced \in BOOLEAN
  /\ session \in SessionRow \cup {NoSession}
  /\ sweep \in [Sweeper -> [labels : {<<>>, <<"24h">>, <<"1h">>}, todo : SUBSET Member,
                            row : SessionRow \cup {NoSession}]]
  /\ request \in [Editor -> SessionRow \cup {NoSession}]
  /\ mailed \in [Label \X Member -> 0..2]

SessionInit ==
  /\ now = 0 /\ session = NoSession /\ calls = 0 /\ raced = FALSE
  /\ sweep = [w \in Sweeper |-> Resting]
  /\ request = [e \in Editor |-> NoSession]
  /\ mailed = [x \in Label \X Member |-> 0]

----------------------------------------------------------------------------
Busy == \E w \in Sweeper : sweep[w] # Resting
Requested == \E e \in Editor : request[e] # NoSession

Tick == now < MaxTime /\ now' = now + 1 /\ UNCHANGED <<session, sweep, request, mailed, raced, calls>>

\* create: any time ahead. (The calendar invites go to the mail queue.)
CreateSession(at) ==
  /\ session = NoSession /\ at > now
  /\ session' = [status |-> "scheduled", scheduledAt |-> at, sent |-> {}]
  /\ UNCHANGED <<now, sweep, request, mailed, raced, calls>>

\* update and cancel read the row and change their copy of it.
RequestEdit(e, status, at) ==
  /\ session # NoSession /\ request[e] = NoSession
  /\ calls < MaxCalls /\ calls' = calls + 1
  /\ \/ status = "cancelled" /\ at = session.scheduledAt
     \/ status = session.status /\ at > now
  /\ request' = [request EXCEPT ![e] = [session EXCEPT !.status = status, !.scheduledAt = at]]
  /\ raced' = (raced \/ Busy)
  /\ UNCHANGED <<now, session, sweep, mailed>>

SaveEdit(e) ==
  /\ request[e] # NoSession
  /\ session' = request[e]
  /\ request' = [request EXCEPT ![e] = NoSession]
  /\ UNCHANGED <<now, sweep, mailed, raced, calls>>

\* The labels whose window the session is in and that its copy does not list.
Outstanding(row) ==
  LET left == row.scheduledAt - now
  IN  IF left = 3 /\ "24h" \notin row.sent THEN <<"24h">>
      ELSE IF left = 1 /\ "1h" \notin row.sent THEN <<"1h">> ELSE <<>>

\* sendReminders finds the session scheduled and ahead.
StartSweep(w) ==
  /\ sweep[w] = Resting
  /\ session # NoSession /\ session.status = "scheduled" /\ session.scheduledAt > now
  /\ Outstanding(session) # <<>>
  /\ sweep' = [sweep EXCEPT ![w] = [labels |-> Outstanding(session), row |-> session, todo |-> Member]]
  /\ raced' = (raced \/ Busy \/ Requested)
  /\ UNCHANGED <<now, session, request, mailed, calls>>

\* notifyMembers: one mail is enqueued.
MailMember(w, m) ==
  /\ m \in sweep[w].todo
  /\ sweep' = [sweep EXCEPT ![w].todo = @ \ {m}]
  /\ mailed' = [mailed EXCEPT ![<<Head(sweep[w].labels), m>>] = IF @ < 2 THEN @ + 1 ELSE @]
  /\ UNCHANGED <<now, session, request, raced, calls>>

\* Faulty variant of SaveSweep: what was sent is not noted.
SaveSweepUnmarked(w) ==
  /\ sweep[w] # Resting /\ sweep[w].todo = {}
  /\ session' = sweep[w].row
  /\ sweep' = [sweep EXCEPT ![w] = Resting]
  /\ UNCHANGED <<now, request, mailed, raced, calls>>

SaveSweep(w) ==
  /\ sweep[w] # Resting /\ sweep[w].todo = {}
  /\ session' = [sweep[w].row EXCEPT !.sent = @ \cup {Head(sweep[w].labels)}]
  /\ sweep' = [sweep EXCEPT ![w] = Resting]
  /\ UNCHANGED <<now, request, mailed, raced, calls>>

\* The process dies, or the mail queue refuses a mail.
DropSweep(w) ==
  /\ sweep[w] # Resting
  /\ calls < MaxCalls /\ calls' = calls + 1
  /\ sweep' = [sweep EXCEPT ![w] = Resting]
  /\ raced' = TRUE
  /\ UNCHANGED <<now, session, request, mailed>>

SessionNext ==
  \/ Tick
  \/ \E at \in 0..MaxTime + 4 : CreateSession(at)
  \/ \E e \in Editor : \/ SaveEdit(e)
                       \/ \E st \in {"scheduled", "cancelled"}, at \in 0..MaxTime + 4 : RequestEdit(e, st, at)
  \/ \E w \in Sweeper : \/ StartSweep(w) \/ SaveSweep(w) \/ DropSweep(w)
                        \/ \E m \in Member : MailMember(w, m)

\* A reminder the row lists was mailed to every member, and when runs and
\* requests have not overlapped and no run has died nobody got one twice.
RemindersAreKept ==
  /\ session # NoSession =>
       \A l \in session.sent, m \in Member : mailed[<<l, m>>] > 0
  /\ ~raced => \A x \in DOMAIN mailed : mailed[x] < 2
=============================================================================
