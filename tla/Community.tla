----------------------------- MODULE Community -----------------------------
(***************************************************************************)
(* ForumsService on one post, and AssignmentsService on one submission     *)
(* (apps/backend/src/forums, assignments): counters and grades that are    *)
(* computed from rows read before an await and saved with these rows.      *)
(***************************************************************************)
EXTENDS Naturals, FiniteSets

CONSTANTS
  Poster,      \* forum requests that run at a time
  User,        \* who votes
  MaxPosts,    \* bound: forum requests
  Grader,      \* assignment requests that run at a time
  Reviewer,    \* peers the submission is given to
  Grade,       \* grades of the instructor
  MaxGradings, \* bound: assignment requests
  MaxCommunityFaults \* bound: requests that die

NoPosting == [at |-> "idle"]
NoGrading == [at |-> "idle"]
NoGrade == "none"

ASSUME CommunityAssumption ==
  IsFiniteSet(User) /\ NoGrade \notin Grade /\ {MaxPosts, MaxGradings, MaxCommunityFaults} \subseteq Nat

VARIABLES
  post,         \* the post: up, down, and the answer it shows
  votes,        \* vote rows: "none", "up", "down"
  answers,      \* replies marked as the answer, by request number
  posting,      \* the forum requests
  postRaced,    \* history: two requests held the post at a time
  posts,
  submission,   \* the row: instructorGrade, and the reviews finalGrade averages
  reviews,      \* peer review rows: "none", "assigned", "submitted"
  grading,      \* the assignment requests
  gradeRaced,   \* history: two requests held the submission at a time
  gradesTorn,   \* history: a save of the submission was mixed with another
  gradings, communityFaults

forumVars == <<post, votes, answers, posting, postRaced, posts>>
assignmentVars == <<submission, reviews, grading, gradeRaced, gradesTorn, gradings>>
communityVars == <<forumVars, assignmentVars, communityFaults>>

Direction == {"up", "down"}
PeerGrade == SUBSET Reviewer \ {{}}

CommunityTypeOK ==
  /\ post \in [up : Nat, down : Nat, answer : 0..MaxPosts] /\ votes \in [User -> {"none", "up", "down"}]
  /\ answers \subseteq 1..MaxPosts
  /\ submission \in [instructor : Grade \cup {NoGrade}, final : PeerGrade \cup {{g} : g \in Grade \cup {NoGrade}}]
  /\ reviews \in [Reviewer -> {"none", "assigned", "submitted"}]

\* finalGrade is kept as the set it stands for: the reviews it averages, or
\* the instructor's grade alone.
CommunityInit ==
  /\ post = [up |-> 0, down |-> 0, answer |-> 0] /\ votes = [u \in User |-> "none"] /\ answers = {}
  /\ posting = [k \in Poster |-> NoPosting] /\ postRaced = FALSE /\ posts = 0
  /\ submission = [instructor |-> NoGrade, final |-> {NoGrade}] /\ reviews = [r \in Reviewer |-> "none"]
  /\ grading = [k \in Grader |-> NoGrading] /\ gradeRaced = FALSE /\ gradesTorn = FALSE /\ gradings = 0 /\ communityFaults = 0

----------------------------------------------------------------------------
(* ForumsService                                                           *)

Post(k, next) == posting' = [posting EXCEPT ![k] = next]

\* A request reads the post, and holds its copy until it is saved.
HoldPost(k, next) ==
  /\ posting[k] = NoPosting /\ posts < MaxPosts /\ posts' = posts + 1
  /\ Post(k, next)
  /\ postRaced' = (postRaced \/ \E j \in Poster \ {k} : posting[j] # NoPosting)

VotePost(k, u, d) ==
  /\ HoldPost(k, [at |-> "find_vote", user |-> u, dir |-> d, row |-> post])
  /\ UNCHANGED <<post, votes, answers, assignmentVars, communityFaults>>

Less(n) == IF n > 0 THEN n - 1 ELSE 0

\* The counters after a vote went from old to new.
VoteCounted(row, old, new) ==
  [row EXCEPT !.up = IF old = new THEN @ ELSE IF new = "up" THEN @ + 1 ELSE IF old = "up" THEN Less(@) ELSE @,
              !.down = IF old = new THEN @ ELSE IF new = "down" THEN @ + 1 ELSE IF old = "down" THEN Less(@) ELSE @]

\* applyVote looks for the user's vote; "none" asks to remove it.
FindVote(k) ==
  LET my == posting[k]
      old == votes[my.user]
  IN  /\ my.at = "find_vote"
      /\ Post(k, [at |-> IF old = my.dir THEN "save_post" ELSE "save_vote", user |-> my.user, dir |-> my.dir,
                  new |-> old = "none", row |-> VoteCounted(my.row, old, my.dir)])
      /\ UNCHANGED <<post, votes, answers, postRaced, posts, assignmentVars, communityFaults>>

\* Votes are unique by user: a second insert throws, and ends the request.
SaveVote(k) ==
  LET my == posting[k]
  IN  /\ my.at = "save_vote"
      /\ IF my.new /\ votes[my.user] # "none" THEN Post(k, NoPosting) /\ UNCHANGED votes
         ELSE votes' = [votes EXCEPT ![my.user] = my.dir] /\ Post(k, [my EXCEPT !.at = "save_post"])
      /\ UNCHANGED <<post, answers, postRaced, posts, assignmentVars, communityFaults>>

\* The counters are saved as they were computed.
SavePost(k) ==
  /\ posting[k].at = "save_post"
  /\ post' = posting[k].row
  /\ Post(k, NoPosting)
  /\ UNCHANGED <<votes, answers, postRaced, posts, assignmentVars, communityFaults>>

\* createReply by a moderator, with isAnswer.
ReplyWithAnswer(k) ==
  /\ HoldPost(k, [at |-> "clear", reply |-> posts + 1, row |-> post])
  /\ UNCHANGED <<post, votes, answers, assignmentVars, communityFaults>>

ClearAnswers(k) ==
  /\ posting[k].at = "clear"
  /\ answers' = {}
  /\ Post(k, [posting[k] EXCEPT !.at = "save_reply"])
  /\ UNCHANGED <<post, votes, postRaced, posts, assignmentVars, communityFaults>>

SaveReply(k) ==
  LET my == posting[k]
  IN  /\ my.at = "save_reply"
      /\ answers' = answers \cup {my.reply}
      /\ Post(k, [at |-> "save_post", row |-> [my.row EXCEPT !.answer = my.reply]])
      /\ UNCHANGED <<post, votes, postRaced, posts, assignmentVars, communityFaults>>

ForumNext ==
  \E k \in Poster :
    \/ \E u \in User, d \in Direction \cup {"none"} : VotePost(k, u, d)
    \/ FindVote(k) \/ SaveVote(k) \/ SavePost(k)
    \/ ReplyWithAnswer(k) \/ ClearAnswers(k) \/ SaveReply(k)
    \/ /\ posting[k] # NoPosting /\ communityFaults < MaxCommunityFaults /\ communityFaults' = communityFaults + 1
       /\ Post(k, NoPosting)
       /\ UNCHANGED <<post, votes, answers, postRaced, posts, assignmentVars>>

----------------------------------------------------------------------------
(* AssignmentsService                                                      *)

Mark(k, next) == grading' = [grading EXCEPT ![k] = next]
Race(k) == gradeRaced' = (gradeRaced \/ \E j \in Grader \ {k} : grading[j] # NoGrading)
BeginGrading(k, next) ==
  /\ grading[k] = NoGrading /\ gradings < MaxGradings /\ gradings' = gradings + 1
  /\ Mark(k, next) /\ Race(k)

Submitted == {r \in Reviewer : reviews[r] = "submitted"}

\* assignReviewers deletes the reviews that are not submitted, also those a
\* request has found, and then inserts one for every peer.
AssignReviewers(k) ==
  /\ grading[k] = NoGrading /\ gradings < MaxGradings /\ gradings' = gradings + 1
  /\ grading' = [j \in Grader |->
       IF j = k THEN [at |-> "assign"]
       ELSE IF grading[j].at = "save_review" /\ reviews[grading[j].reviewer] = "assigned"
            THEN [grading[j] EXCEPT !.deleted = TRUE] ELSE grading[j]]
  /\ Race(k)
  /\ reviews' = [r \in Reviewer |-> IF reviews[r] = "assigned" THEN "none" ELSE reviews[r]]
  /\ UNCHANGED <<submission, gradesTorn, forumVars, communityFaults>>

\* One insert for all submissions of the assignment. Reviews are unique by
\* reviewer: with one of this submission there already, or of another that
\* was handed in, nothing is inserted.
SaveAssigned(k) ==
  /\ grading[k].at = "assign"
  /\ \/ reviews' = reviews
     \/ (\A r \in Reviewer : reviews[r] = "none") /\ reviews' = [r \in Reviewer |-> "assigned"]
  /\ Mark(k, NoGrading)
  /\ UNCHANGED <<submission, gradeRaced, gradesTorn, gradings, forumVars, communityFaults>>

\* submitPeerReview finds the review, saves it and has the grade calculated.
SubmitPeerReview(k, r) ==
  /\ BeginGrading(k, [at |-> "save_review", reviewer |-> r, deleted |-> FALSE])
  /\ reviews[r] # "none"
  /\ UNCHANGED <<submission, reviews, gradesTorn, forumVars, communityFaults>>

\* A review that was deleted is inserted again, and throws if it was assigned
\* again before.
SaveReview(k) ==
  LET my == grading[k]
  IN  /\ my.at = "save_review"
      /\ IF my.deleted /\ reviews[my.reviewer] # "none" THEN Mark(k, NoGrading) /\ UNCHANGED reviews
         ELSE reviews' = [reviews EXCEPT ![my.reviewer] = "submitted"] /\ Mark(k, [at |-> "calculate"])
      /\ UNCHANGED <<submission, gradeRaced, gradesTorn, gradings, forumVars, communityFaults>>

\* Faulty variant of FinalGrade: the peers' average is kept.
FinalGradeOfPeers == Submitted

\* The instructor's grade, else what the submitted reviews average.
FinalGrade == IF submission.instructor # NoGrade THEN {submission.instructor} ELSE Submitted

CalculateFinalGrade(k) ==
  /\ grading[k].at = "calculate"
  /\ Mark(k, [at |-> "save", row |-> [submission EXCEPT !.final = FinalGrade]])
  /\ UNCHANGED <<submission, reviews, gradeRaced, gradesTorn, gradings, forumVars, communityFaults>>

InstructorOverride(k, g) ==
  /\ BeginGrading(k, [at |-> "save", row |-> [instructor |-> g, final |-> {g}]])
  /\ UNCHANGED <<submission, reviews, gradesTorn, forumVars, communityFaults>>

\* submitAssignment again changes the file only, and saves the grades it read.
Resubmit(k) ==
  /\ BeginGrading(k, [at |-> "save", row |-> submission])
  /\ UNCHANGED <<submission, reviews, gradesTorn, forumVars, communityFaults>>

\* save of TypeORM selects the row, and then updates the columns in which it
\* differs from what is saved.
SelectSubmission(k) ==
  /\ grading[k].at = "save"
  /\ Mark(k, [at |-> "update", row |-> grading[k].row, seen |-> submission])
  /\ UNCHANGED <<submission, reviews, gradeRaced, gradesTorn, gradings, forumVars, communityFaults>>

UpdateSubmission(k) ==
  LET my == grading[k]
  IN  /\ my.at = "update"
      /\ submission' = [c \in DOMAIN submission |-> IF my.row[c] # my.seen[c] THEN my.row[c] ELSE submission[c]]
      /\ gradesTorn' = (gradesTorn \/ submission' # my.row)
      /\ Mark(k, NoGrading)
      /\ UNCHANGED <<reviews, gradeRaced, gradings, forumVars, communityFaults>>

AssignmentNext ==
  \E k \in Grader :
    \/ AssignReviewers(k) \/ SaveAssigned(k)
    \/ (\E r \in Reviewer : SubmitPeerReview(k, r)) \/ SaveReview(k) \/ CalculateFinalGrade(k)
    \/ (\E g \in Grade : InstructorOverride(k, g)) \/ Resubmit(k)
    \/ SelectSubmission(k) \/ UpdateSubmission(k)
    \/ /\ grading[k] # NoGrading /\ communityFaults < MaxCommunityFaults /\ communityFaults' = communityFaults + 1
       /\ Mark(k, NoGrading)
       /\ UNCHANGED <<submission, reviews, gradeRaced, gradesTorn, gradings, forumVars>>

----------------------------------------------------------------------------
\* An instructor's grade is the final one whatever stale copies were saved over
\* it, and is lost together with it, unless a save landed between the two
\* statements of another: a calculation that selects before an override and
\* updates after it leaves the peers' average. Once the requests
\* have ended, and unless two held the row at a time or one died, the counters
\* of a post are those of its votes, it shows its one answer, and a final
\* grade without the instructor averages the submitted reviews.
TalliesAndGradesAgree ==
  /\ submission.instructor # NoGrade /\ ~gradesTorn => submission.final = {submission.instructor}
  /\ (\A k \in Poster : posting[k] = NoPosting) /\ ~postRaced /\ communityFaults = 0 =>
       /\ post.up = Cardinality({u \in User : votes[u] = "up"})
       /\ post.down = Cardinality({u \in User : votes[u] = "down"})
       /\ answers = IF post.answer = 0 THEN {} ELSE {post.answer}
  /\ (\A k \in Grader : grading[k] = NoGrading) /\ ~gradeRaced /\ communityFaults = 0 =>
       \/ submission.instructor # NoGrade
       \/ submission.final = IF Submitted = {} THEN {NoGrade} ELSE Submitted
============================================================================
