---------------------------- MODULE RiskRegister ----------------------------
(* pipeline/risk_register.py: the rows of the risks and their reviews.  The *)
(* seed data is part of the program: GET /risks and every seeding of the    *)
(* traceability store write it again with INSERT OR REPLACE.  A review is   *)
(* dated before its transaction takes the write lock, so reviews can be     *)
(* committed in another order than that of their dates.                     *)
EXTENDS Naturals, Sequences

CONSTANTS
  Risks,       \* the risks of the seed data
  Mitigating,  \* those it seeds as already "mitigating"
  Reviewers,   \* connections on which risks are reviewed
  MaxReviews   \* bound on the reviews of the register

VARIABLES
  status,      \* the status of each row, "none" when there is no row
  reviews,     \* risk_reviews in the order of their ids: risk, old and new
               \* status, and reviewed_at
  looking,     \* the review each reviewer has read and dated
  now,         \* the clock: how many reviews were dated
  writtenBy    \* history: who wrote each row last

riskVars == <<status, reviews, looking, now, writtenBy>>

RiskStatuses == {"open", "mitigating", "closed"}
NotLooking == [risk |-> "none"]
Looks == [risk : Risks, old : RiskStatuses \union {"none"}, new : RiskStatuses, at : Nat]
RowWriters == {"nobody", "seed", "update", "review"}

RiskInit ==
  /\ status = [r \in Risks |-> "none"]
  /\ reviews = <<>>
  /\ looking = [v \in Reviewers |-> NotLooking]
  /\ now = 0
  /\ writtenBy = [r \in Risks |-> "nobody"]

Seeded(r) == IF r \in Mitigating THEN "mitigating" ELSE "open"

\* seed_risk_register: add_risk for every risk.
SeedRisks ==
  /\ status' = [r \in Risks |-> Seeded(r)]
  /\ writtenBy' = [r \in Risks |-> "seed"]
  /\ UNCHANGED <<reviews, looking, now>>

\* update_status, which writes no review.
UpdateStatus(r, s) ==
  /\ status[r] # "none"
  /\ status' = [status EXCEPT ![r] = s]
  /\ writtenBy' = [writtenBy EXCEPT ![r] = "update"]
  /\ UNCHANGED <<reviews, looking, now>>

\* The SELECT of review_risk, which raises for an unknown risk, and the date.
\* Clocks have microseconds: no two reviews have the same date.
ReviewReads(v, r, s) ==
  /\ looking[v] = NotLooking
  /\ status[r] # "none"
  /\ now' = now + 1
  /\ looking' = [looking EXCEPT ![v] =
                   [risk |-> r, old |-> status[r], new |-> s, at |-> now']]
  /\ UNCHANGED <<status, reviews, writtenBy>>

\* A slip in ReviewWrites: a review that confirms the status changes nothing.
ReviewWritesIfChanged(v) ==
  /\ looking[v] # NotLooking
  /\ Len(reviews) < MaxReviews
  /\ LET o == looking[v] IN
       /\ reviews' = Append(reviews, o)
       /\ status' = IF o.old = o.new THEN status ELSE [status EXCEPT ![o.risk] = o.new]
       /\ writtenBy' = [writtenBy EXCEPT ![o.risk] = "review"]
  /\ looking' = [looking EXCEPT ![v] = NotLooking]
  /\ UNCHANGED now

\* The transaction of review_risk.
ReviewWrites(v) ==
  /\ looking[v] # NotLooking
  /\ Len(reviews) < MaxReviews
  /\ LET o == looking[v] IN
       /\ reviews' = Append(reviews, o)
       /\ status' = [status EXCEPT ![o.risk] = o.new]
       /\ writtenBy' = [writtenBy EXCEPT ![o.risk] = "review"]
  /\ looking' = [looking EXCEPT ![v] = NotLooking]
  /\ UNCHANGED now

RiskNext ==
  \/ SeedRisks
  \/ \E r \in Risks, s \in RiskStatuses : UpdateStatus(r, s)
  \/ \E v \in Reviewers :
       \/ \E r \in Risks, s \in RiskStatuses : ReviewReads(v, r, s)
       \/ ReviewWrites(v)

RiskTypeOK ==
  /\ status \in [Risks -> RiskStatuses \union {"none"}]
  /\ reviews \in Seq(Looks)
  /\ looking \in [Reviewers -> Looks \union {NotLooking}]
  /\ now \in Nat
  /\ writtenBy \in [Risks -> RowWriters]

\* get_review_history, "oldest first", ends with review i: the order is that of
\* the dates.
IsLastReview(i, r) ==
  /\ i \in DOMAIN reviews /\ reviews[i].risk = r
  /\ \A j \in DOMAIN reviews : reviews[j].risk = r => reviews[j].at <= reviews[i].at

\* A row that a review wrote last has the status of the last review in its
\* history, or that of one dated before it and committed after it, so that the
\* two were under way at once: no review that was over is what the row shows.
ReviewStands ==
  \A r \in Risks, i \in DOMAIN reviews :
    IsLastReview(i, r) /\ writtenBy[r] = "review" =>
      \E j \in i .. Len(reviews) : reviews[j].risk = r /\ status[r] = reviews[j].new
=============================================================================
