----------------------------- MODULE Paperwork -----------------------------
(***************************************************************************)
(* Numbered documents: the series every document takes its number from     *)
(* (src/apps/invoices/models.py), the invoices confirmed orders get        *)
(* (invoices/services.py, orders/services.py) and their emails, the ticket *)
(* and order references that fall back when the series fails               *)
(* (support/services.py, orders/models.py).                                *)
(*                                                                         *)
(* A worker runs one transaction at a time: what it writes is seen by      *)
(* others once it commits, and its row locks last until then.  Workers on  *)
(* the same order wait for each other at the order's row.  An email is out *)
(* when it is sent, whatever becomes of the transaction.                   *)
(***************************************************************************)
EXTENDS Integers, FiniteSets

CONSTANTS
  Paper,        \* what gets a number: orders to invoice, tickets
  SeriesOf,     \* the kind and year whose counter each takes it from
  Fallback,     \* papers that get a reference of another form on failure
  Clerk,        \* workers
  MaxFailures,  \* bound: errors and crashes
  NoOne

ASSUME PaperworkAssumption ==
  NoOne \notin Paper \cup Clerk /\ MaxFailures \in Nat

\* No number yet, and a reference that is not from the series.
NoNumber == 0
Timestamp == -1

SeriesNames == {SeriesOf[p] : p \in Paper}

VARIABLES
  last_number,  \* NumberSeries.last_number, as committed
  series_lock,  \* the worker that holds the row of a series, or NoOne
  number_of,    \* the number of each paper, as committed
  emailed,      \* papers whose emailed_at is set, as committed
  finished,     \* <<paper, way>>: confirmations that were made
  job,          \* what each worker is at
  mails,        \* how often each invoice was sent
  undone,       \* how often the transaction that sent it was rolled back
  failures

paperVars == <<last_number, series_lock, number_of, emailed, finished, job,
               mails, undone, failures>>
sending == <<mails, undone>>

\* An order may be confirmed as cash on delivery and paid later; a ticket is
\* opened once.
Ways(p) == IF p \in Fallback THEN {"open"} ELSE {"cod", "paid"}

\* What a worker is at.
Job == [at : {"idle", "numbering", "mailing", "committing"},
        paper : Paper \cup {NoOne}, way : {"open", "cod", "paid", NoOne},
        number : Nat \cup {Timestamp}, mailed : BOOLEAN]

Idle == [at |-> "idle", paper |-> NoOne, way |-> NoOne, number |-> NoNumber,
         mailed |-> FALSE]

PaperworkInit ==
  /\ last_number = [s \in SeriesNames |-> 0]
  /\ series_lock = [s \in SeriesNames |-> NoOne]
  /\ number_of = [p \in Paper |-> NoNumber]
  /\ emailed = {} /\ finished = {} /\ failures = 0
  /\ mails = [p \in Paper |-> 0] /\ undone = [p \in Paper |-> 0]
  /\ job = [w \in Clerk |-> Idle]

Goes(w, at) == job' = [job EXCEPT ![w].at = at]

\* Locks the order's row (or begins the ticket) and sees that this was not
\* done before.
Begin(w, p, way) ==
  /\ job[w].at = "idle"
  /\ \A v \in Clerk : job[v].paper # p
  /\ <<p, way>> \notin finished
  /\ job' = [job EXCEPT ![w] = [Idle EXCEPT !.at = "numbering", !.paper = p,
                                            !.way = way]]
  /\ UNCHANGED <<last_number, series_lock, number_of, emailed, finished, sending,
                 failures>>

\* issue_for: the order has its invoice already.
ExistingInvoice(w) ==
  /\ job[w].at = "numbering" /\ number_of[job[w].paper] # NoNumber
  /\ job' = [job EXCEPT ![w].at = "mailing",
                        ![w].number = number_of[job[w].paper]]
  /\ UNCHANGED <<last_number, series_lock, number_of, emailed, finished, sending,
                 failures>>

\* Mutant: the counter is read without its lock.
AllocateUnlocked(w) ==
  LET s == SeriesOf[job[w].paper]
  IN  /\ job[w].at = "numbering" /\ number_of[job[w].paper] = NoNumber
      /\ series_lock' = [series_lock EXCEPT ![s] = w]
      /\ job' = [job EXCEPT ![w].at = "mailing",
                            ![w].number = last_number[s] + 1]
      /\ UNCHANGED <<last_number, number_of, emailed, finished, sending, failures>>

\* NumberSeries.allocate: waits for the row of the series.
Allocate(w) ==
  LET s == SeriesOf[job[w].paper]
  IN  /\ job[w].at = "numbering" /\ number_of[job[w].paper] = NoNumber
      /\ series_lock[s] = NoOne
      /\ series_lock' = [series_lock EXCEPT ![s] = w]
      /\ job' = [job EXCEPT ![w].at = "mailing",
                            ![w].number = last_number[s] + 1]
      /\ UNCHANGED <<last_number, number_of, emailed, finished, sending, failures>>

LetGo(w) ==
  series_lock' = [s \in SeriesNames |->
                    IF series_lock[s] = w THEN NoOne ELSE series_lock[s]]

\* An error before the document is written undoes the allocation.  An order
\* is confirmed without an invoice then, a ticket gets another reference.
NumberingFails(w) ==
  /\ failures < MaxFailures
  /\ job[w].at \in {"numbering", "mailing"} /\ ~job[w].mailed
  /\ number_of[job[w].paper] = NoNumber
  /\ job' = [job EXCEPT ![w].at = "committing",
                        ![w].number = IF job[w].paper \in Fallback
                                      THEN Timestamp ELSE NoNumber]
  /\ LetGo(w)
  /\ failures' = failures + 1
  /\ UNCHANGED <<last_number, number_of, emailed, finished, sending>>

\* Mutant: the order's second confirmation sends the invoice again.
MailInvoiceAgain(w) ==
  /\ job[w].at = "mailing"
  /\ LET p == job[w].paper
         due == p \notin Fallback
     IN  /\ mails' = IF due THEN [mails EXCEPT ![p] = @ + 1] ELSE mails
         /\ job' = [job EXCEPT ![w].at = "committing", ![w].mailed = due]
  /\ UNCHANGED <<last_number, series_lock, number_of, emailed, finished, undone,
                 failures>>

\* email_to_customer: not twice, and only for invoices.
MailInvoice(w) ==
  /\ job[w].at = "mailing"
  /\ LET p == job[w].paper
         due == p \notin Fallback /\ p \notin emailed
     IN  /\ mails' = IF due THEN [mails EXCEPT ![p] = @ + 1] ELSE mails
         /\ job' = [job EXCEPT ![w].at = "committing", ![w].mailed = due]
  /\ UNCHANGED <<last_number, series_lock, number_of, emailed, finished, undone,
                 failures>>

\* The mail server refuses: the invoice stands.
MailFails(w) ==
  /\ failures < MaxFailures
  /\ job[w].at = "mailing" /\ job[w].paper \notin Fallback \cup emailed
  /\ Goes(w, "committing")
  /\ failures' = failures + 1
  /\ UNCHANGED <<last_number, series_lock, number_of, emailed, finished, sending>>

CommitPaper(w) ==
  LET p == job[w].paper
      s == SeriesOf[p]
  IN  /\ job[w].at = "committing"
      /\ last_number' = IF series_lock[s] = w
                        THEN [last_number EXCEPT ![s] = job[w].number]
                        ELSE last_number
      /\ number_of' = IF job[w].number # NoNumber
                      THEN [number_of EXCEPT ![p] = job[w].number]
                      ELSE number_of
      /\ emailed' = IF job[w].mailed THEN emailed \cup {p} ELSE emailed
      /\ finished' = finished \cup {<<p, job[w].way>>}
      /\ job' = [job EXCEPT ![w] = Idle]
      /\ LetGo(w)
      /\ UNCHANGED <<sending, failures>>

\* The worker dies, or a later step of its transaction fails.
RollBack(w) ==
  /\ failures < MaxFailures
  /\ job[w].at # "idle"
  /\ undone' = IF job[w].mailed THEN [undone EXCEPT ![job[w].paper] = @ + 1]
               ELSE undone
  /\ job' = [job EXCEPT ![w] = Idle]
  /\ LetGo(w)
  /\ failures' = failures + 1
  /\ UNCHANGED <<last_number, number_of, emailed, finished, mails>>

PaperworkNext ==
  \E w \in Clerk :
    \/ \E p \in Paper : \E way \in Ways(p) : Begin(w, p, way)
    \/ ExistingInvoice(w) \/ Allocate(w) \/ NumberingFails(w)
    \/ MailInvoice(w) \/ MailFails(w)
    \/ CommitPaper(w) \/ RollBack(w)

PaperworkSpec == PaperworkInit /\ [][PaperworkNext]_paperVars

-----------------------------------------------------------------------------
(* Properties.                                                             *)

\* Types.
PaperworkTypeOK ==
  /\ last_number \in [SeriesNames -> Nat]
  /\ series_lock \in [SeriesNames -> Clerk \cup {NoOne}]
  /\ number_of \in [Paper -> Nat \cup {Timestamp}]
  /\ emailed \subseteq Paper
  /\ job \in [Clerk -> Job]
  /\ mails \in [Paper -> Nat] /\ undone \in [Paper -> Nat]
  /\ failures \in 0 .. MaxFailures

\* The committed numbers of a series are one to the last, each on one paper,
\* whatever was rolled back on the way (invoices/models.py:31: "two checkouts
\* in the same instant cannot be handed the same invoice number").
NumbersWithoutGaps ==
  \A s \in SeriesNames :
    LET numbered == {p \in Paper : SeriesOf[p] = s /\ number_of[p] > 0}
    IN  /\ {number_of[p] : p \in numbered} = 1 .. last_number[s]
        /\ \A p, q \in numbered : number_of[p] = number_of[q] => p = q

\* An invoice is mailed once, however its order is confirmed, except where
\* the transaction that sent it was rolled back (invoices/services.py:146:
\* "a customer should not receive the same invoice five times").
InvoiceMailedOnce ==
  \A p \in Paper :
    LET sent == {w \in Clerk : job[w].paper = p /\ job[w].mailed}
    IN  mails[p] = undone[p] + Cardinality(sent)
                   + (IF p \in emailed THEN 1 ELSE 0)
=============================================================================
