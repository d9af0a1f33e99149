------------------------------ MODULE Reviews ------------------------------
(***************************************************************************)
(* The reviews of one product and the rating its card shows                *)
(* (src/apps/reviews/services.py, reviews/signals.py, reviews/views.py,    *)
(* reviews/admin.py).                                                      *)
(*                                                                         *)
(* A review is saved by itself; the receiver then reads the aggregate and  *)
(* writes it to the product, in two more statements.  Deleting runs its    *)
(* receiver in the same transaction, which does not keep others from       *)
(* committing between the two.  The API reads a review and saves the whole *)
(* row later.  A worker may die between statements.                        *)
(***************************************************************************)
EXTENDS Integers, FiniteSets, Counting

CONSTANTS
  Reader,   \* customers
  Received, \* those for whom delivered_order_item finds a line
  Stars,    \* ratings they give
  MaxHelpful, \* bound: votes a review shows before another is cast
  Process   \* requests under way

ASSUME ReviewsAssumption ==
  /\ IsFiniteSet(Reader) /\ IsFiniteSet(Process) /\ Stars \subseteq Nat \ {0}
  /\ MaxHelpful \in Nat

VARIABLES
  review,    \* each customer's review: [rating, approved, helpful]
  votes,     \* those who found each review helpful
  rating,    \* the product's columns: [sum, count]
  process,   \* what each request is at
  astray,    \* a request died or wrote figures others had changed, or a
             \* review was moved to another product
  overrun    \* reviews saved from a copy that was out of date

reviewVars == <<review, votes, rating, process, astray, overrun>>
product == <<rating, astray>>
voting == <<votes, overrun>>

Review == [rating : Stars \cup {0}, approved : BOOLEAN, helpful : Nat]
Rating == [sum : Nat, count : Nat]

\* A request: whose review it is about, and its copy or the figures it read.
ReviewRequest ==
  [at : {"idle", "checked", "saved", "editing", "reviving", "counting", "read",
         "deleting"},
   who : Reader \cup {"nobody"}, copy : Review, figures : Rating]

NoReview == [rating |-> 0, approved |-> FALSE, helpful |-> 0]
Unoccupied == [at |-> "idle", who |-> "nobody", copy |-> NoReview,
               figures |-> [sum |-> 0, count |-> 0]]

Reviewed == {c \in Reader : review[c] # NoReview}

\* The aggregate over the approved ones of these reviews; the average is sum
\* by count.
FiguresOf(cards) ==
  LET live == {c \in Reader : cards[c].approved}
  IN  [sum |-> TotalOver([c \in Reader |-> cards[c].rating], live),
       count |-> Cardinality(live)]

Figures == FiguresOf(review)

\* A transaction has deleted this review and not committed: whoever writes the
\* row, or refers to it, waits.
Locked(c) == \E p \in Process : process[p].at = "deleting" /\ process[p].who = c

ReviewsInit ==
  /\ review = [c \in Reader |-> NoReview]
  /\ rating = Unoccupied.figures
  /\ process = [p \in Process |-> Unoccupied]
  /\ astray = FALSE /\ overrun = {}
  /\ votes = [c \in Reader |-> {}]

\* can_review_product: signed in, no review yet, and a delivered line.
CanReview(c) == review[c] = NoReview /\ c \in Received

CheckEligibility(p, c, stars) ==
  /\ process[p].at = "idle" /\ CanReview(c)
  /\ process' = [process EXCEPT ![p] = [at |-> "checked", who |-> c,
       copy |-> [rating |-> stars, approved |-> TRUE, helpful |-> 0],
       figures |-> Unoccupied.figures]]
  /\ UNCHANGED <<review, voting, product>>

\* create_review: one per product and user, or the insert fails.
CreateReview(p) ==
  LET c == process[p].who
  IN  /\ process[p].at = "checked" /\ ~Locked(c)
      /\ IF review[c] = NoReview
           THEN /\ review' = [review EXCEPT ![c] = process[p].copy]
                /\ process' = [process EXCEPT ![p] =
                     [Unoccupied EXCEPT !.at = "saved"]]
           ELSE /\ process' = [process EXCEPT ![p] = Unoccupied]
                /\ UNCHANGED review
      /\ UNCHANGED <<voting, product>>

\* Mutant: the reviews are approved and hidden by update(), no receiver runs.
ModerateInBulk(p, c, approved) ==
  /\ process[p].at = "idle" /\ c \in Reviewed /\ ~Locked(c)
  /\ review' = [review EXCEPT ![c].approved = approved]
  /\ UNCHANGED <<voting, product, process>>

\* approve_reviews and reject_reviews: each review is saved.
Moderate(p, c, approved) ==
  /\ process[p].at = "idle" /\ c \in Reviewed /\ ~Locked(c)
  /\ review' = [review EXCEPT ![c].approved = approved]
  /\ process' = [process EXCEPT ![p] = [Unoccupied EXCEPT !.at = "saved"]]
  /\ UNCHANGED <<voting, product>>

\* The owner edits the rating through the API: the row is read ...
LoadReview(p, c, stars) ==
  /\ process[p].at = "idle" /\ c \in Reviewed
  /\ process' = [process EXCEPT ![p] = [Unoccupied EXCEPT
       !.at = "editing", !.who = c, !.copy = [review[c] EXCEPT !.rating = stars]]]
  /\ UNCHANGED <<review, voting, product>>

\* ... and saved whole: hidden meanwhile, it is shown again.
SaveReview(p) ==
  LET c == process[p].who
  IN  /\ process[p].at = "editing" /\ ~Locked(c)
      /\ review' = [review EXCEPT ![c] = process[p].copy]
      /\ overrun' = IF [review[c] EXCEPT !.rating = process[p].copy.rating]
                        = process[p].copy
                    THEN overrun ELSE overrun \cup {c}
      /\ process' = [process EXCEPT ![p] = [Unoccupied EXCEPT !.at = "saved"]]
      /\ UNCHANGED <<votes, product>>

\* Deleted meanwhile, saving inserts it anew, votes counted and all, unless its
\* owner has written another.
ReviveReview(p) ==
  LET c == process[p].who
  IN  /\ process[p].at = "reviving" /\ ~Locked(c)
      /\ IF review[c] = NoReview
           THEN /\ review' = [review EXCEPT ![c] = process[p].copy]
                /\ overrun' = overrun \cup {c}
                /\ process' = [process EXCEPT ![p] =
                     [Unoccupied EXCEPT !.at = "saved"]]
           ELSE /\ process' = [process EXCEPT ![p] = Unoccupied]
                /\ UNCHANGED <<review, overrun>>
      /\ UNCHANGED <<votes, product>>

\* What is under way for a review that goes away: a count finds no row, and
\* who deleted it is through.
Orphaned(request) ==
  CASE request.at \in {"counting", "deleting"} -> Unoccupied
    [] request.at = "editing" -> [request EXCEPT !.at = "reviving"]
    [] OTHER -> request

Forget(c) ==
  /\ c \in Reviewed
  /\ review' = [review EXCEPT ![c] = NoReview]
  /\ votes' = [votes EXCEPT ![c] = {}]
  /\ overrun' = overrun \ {c}
  /\ process' = [p \in Process |-> IF process[p].who = c THEN Orphaned(process[p])
                                   ELSE process[p]]

\* Editing may also give the review another product: eligibility is not asked
\* again, and only the other product's figures are made anew.
MoveReview(c) ==
  /\ ~Locked(c)
  /\ Forget(c)
  /\ astray' = TRUE
  /\ UNCHANGED <<rating>>

\* mark_helpful: one vote each, and none for oneself ...
MarkHelpful(p, c, v) ==
  /\ process[p].at = "idle" /\ review[c].approved /\ ~Locked(c)
  /\ v # c /\ v \notin votes[c] /\ review[c].helpful < MaxHelpful
  /\ votes' = [votes EXCEPT ![c] = @ \cup {v}]
  /\ process' = [process EXCEPT ![p] =
       [Unoccupied EXCEPT !.at = "counting", !.who = c]]
  /\ UNCHANGED <<review, overrun, product>>

\* ... which another statement counts.
CountVote(p) ==
  /\ process[p].at = "counting" /\ ~Locked(process[p].who)
  /\ review' = [review EXCEPT ![process[p].who].helpful = @ + 1]
  /\ process' = [process EXCEPT ![p] = Unoccupied]
  /\ UNCHANGED <<voting, product>>

\* recalculate_product_rating: the aggregate is read ...
ReadFigures(p) ==
  /\ process[p].at = "saved"
  /\ process' = [process EXCEPT ![p].at = "read", ![p].figures = Figures]
  /\ UNCHANGED <<review, voting, product>>

\* ... and written over whatever the product says.
WriteFigures(p) ==
  /\ process[p].at = "read"
  /\ rating' = process[p].figures
  /\ astray' = (process[p].figures # Figures)
  /\ process' = [process EXCEPT ![p] = Unoccupied]
  /\ UNCHANGED <<review, voting>>

\* delete_review, in one transaction: the rows are deleted and the receiver
\* reads the aggregate, which knows of this deletion and of what others have
\* committed ...
DeleteReview(p, c) ==
  /\ process[p].at = "idle" /\ c \in Reviewed /\ ~Locked(c)
  /\ process' = [process EXCEPT ![p] = [Unoccupied EXCEPT
       !.at = "deleting", !.who = c,
       !.figures = FiguresOf([review EXCEPT ![c] = NoReview])]]
  /\ UNCHANGED <<review, voting, product>>

\* ... and writes it; the commit shows others both.
FinishDelete(p) ==
  /\ process[p].at = "deleting"
  /\ Forget(process[p].who)
  /\ rating' = process[p].figures
  /\ astray' = (process[p].figures # Figures')

\* The worker dies: what it saved stays, what it had yet to do is not done.
Die(p) ==
  /\ process[p].at # "idle"
  /\ astray' = (astray \/ process[p].at \in {"saved", "read"})
  /\ process' = [process EXCEPT ![p] = Unoccupied]
  /\ UNCHANGED <<review, voting, rating>>

ReviewsNext ==
  \/ \E c \in Reader : MoveReview(c)
  \/ \E p \in Process :
       \/ \E c \in Reader, stars \in Stars :
            CheckEligibility(p, c, stars) \/ LoadReview(p, c, stars)
       \/ \E c, v \in Reader : MarkHelpful(p, c, v)
       \/ \E c \in Reader : DeleteReview(p, c)
       \/ FinishDelete(p)
       \/ CreateReview(p) \/ SaveReview(p) \/ ReviveReview(p) \/ CountVote(p)
       \/ ReadFigures(p) \/ WriteFigures(p)
       \/ \E c \in Reader, approved \in BOOLEAN : Moderate(p, c, approved)
       \/ Die(p)

ReviewsSpec == ReviewsInit /\ [][ReviewsNext]_reviewVars

-----------------------------------------------------------------------------
(* Properties.                                                             *)

\* Types; a request that has read or is to count a review is about one.
ReviewsTypeOK ==
  /\ review \in [Reader -> Review]
  /\ votes \in [Reader -> SUBSET Reader] /\ overrun \subseteq Reader
  /\ rating \in Rating /\ rating.count <= Cardinality(Reader)
  /\ process \in [Process -> ReviewRequest]
  /\ \A p \in Process :
       /\ process[p].at \notin {"idle", "saved", "read"} => process[p].who \in Reader
       /\ process[p].figures.count <= Cardinality(Reader)

\* Once every request is through, the product card shows the average and the
\* number of the approved reviews (reviews/signals.py:14, reviews/admin.py:30),
\* unless the last to write it wrote figures that a save or a deletion of
\* another had changed since they were read, or, since then, a request died
\* half way or a review was moved to another product.  A review never shows more
\* helpful votes than were cast, unless it was saved from an old copy
\* (reviews/models.py:99: "Prevents a user inflating ``helpful_count``").
RatingTold ==
  /\ (\A p \in Process : process[p].at = "idle") /\ ~astray => rating = Figures
  /\ \A c \in Reader \ overrun : review[c].helpful <= Cardinality(votes[c])
=============================================================================
