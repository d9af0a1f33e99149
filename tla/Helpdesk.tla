------------------------------ MODULE Helpdesk ------------------------------
(***************************************************************************)
(* One support ticket and its thread (src/apps/support/services.py,        *)
(* support/views.py, support/admin.py).                                    *)
(*                                                                         *)
(* A page loads the ticket when the request begins; add_message then       *)
(* decides on that copy, writes the message and sets whose turn it is.     *)
(* Staff may also edit the status in the list, where every row saves what  *)
(* it showed, and write messages in the ticket's form, where no status     *)
(* rule applies.                                                           *)
(***************************************************************************)
EXTENDS Integers, Sequences

CONSTANTS
  Agent,      \* pages open on the ticket, by customer and staff
  MaxThread   \* bound: entries of the thread

ASSUME HelpdeskAssumption == MaxThread \in Nat \ {0}

TicketStatus ==
  {"open", "awaiting_customer", "awaiting_staff", "resolved", "closed"}

\* Who speaks: the owner, staff, staff among themselves, or the status list
\* setting one of the last two by hand.
Voice == {"customer", "staff", "note"}

Entry == [by : Voice \cup {"hand"}, sets : TicketStatus \cup {"none"},
          since : 0 .. MaxThread]

VARIABLES
  ticketStatus,  \* Ticket.status
  resolvedAt,    \* resolved_at is set
  thread,        \* what was said and set, in order: [by, sets, since]
  page           \* each page: the status it read, when, and what it does

helpVars == <<ticketStatus, resolvedAt, thread, page>>

NoPage == [at |-> "idle", voice |-> "note", copy |-> "open", since |-> 0]

\* open_ticket: the ticket and the customer's first message together.
OpenTicket ==
  /\ ticketStatus = "awaiting_staff"
  /\ thread = <<[by |-> "customer", sets |-> "awaiting_staff", since |-> 0]>>

HelpInit ==
  /\ OpenTicket
  /\ resolvedAt = FALSE
  /\ page = [a \in Agent |-> NoPage]

\* How much of the thread a reader has seen: none while a reply is half done.
Seen == IF \E a \in Agent : page[a].at = "written" THEN 0 ELSE Len(thread)

\* ticket_detail and the staff pages: the ticket is read.
LoadTicket(a, voice) ==
  /\ page[a].at = "idle"
  /\ page' = [page EXCEPT ![a] = [at |-> "reading", voice |-> voice,
                                  copy |-> ticketStatus, since |-> Seen]]
  /\ UNCHANGED <<ticketStatus, resolvedAt, thread>>

\* Ticket.can_reply, asked of the copy.
CanReply(status) == status # "closed"

\* add_message: the message is created ...
WriteMessage(a) ==
  /\ page[a].at = "reading" /\ Len(thread) < MaxThread
  /\ IF CanReply(page[a].copy)
       THEN /\ thread' = Append(thread, [by |-> page[a].voice, sets |-> "none",
                                         since |-> page[a].since])
            /\ page' = [page EXCEPT ![a].at = "written"]
       ELSE /\ page' = [page EXCEPT ![a] = NoPage]
            /\ UNCHANGED thread
  /\ UNCHANGED <<ticketStatus, resolvedAt>>

Turn(voice) == IF voice = "staff" THEN "awaiting_customer" ELSE "awaiting_staff"

\* Mutant: a note among staff takes the turn as a reply does.
PassTurnOnNotes(a) ==
  /\ page[a].at = "written"
  /\ ticketStatus' = Turn(page[a].voice)
  /\ page' = [page EXCEPT ![a] = NoPage]
  /\ UNCHANGED <<resolvedAt, thread>>

\* ... and the turn passes, unless it was a note; here the request commits.
PassTurn(a) ==
  /\ page[a].at = "written"
  /\ ticketStatus' = IF page[a].voice = "note" THEN ticketStatus
                                               ELSE Turn(page[a].voice)
  /\ page' = [page EXCEPT ![a] = NoPage]
  /\ UNCHANGED <<resolvedAt, thread>>

\* The status column of the list: chosen, or as the page showed it.
EditStatus(a, status) ==
  /\ page[a].at = "reading" /\ page[a].voice = "staff"
  /\ Len(thread) < MaxThread
  /\ ticketStatus' = status
  /\ thread' = Append(thread, [by |-> "hand", sets |-> status,
                               since |-> page[a].since])
  /\ page' = [page EXCEPT ![a] = NoPage]
  /\ UNCHANGED resolvedAt

\* set_status, which records when the ticket was resolved.
SetStatus(status) ==
  /\ Len(thread) < MaxThread
  /\ ticketStatus' = status
  /\ resolvedAt' = (resolvedAt \/ status = "resolved")
  /\ thread' = Append(thread, [by |-> "hand", sets |-> status,
                               since |-> Seen])
  /\ UNCHANGED page

HelpNext ==
  \/ \E a \in Agent :
       \/ \E voice \in Voice : LoadTicket(a, voice)
       \/ WriteMessage(a)
       \/ PassTurn(a)
       \/ \E status \in {"resolved", "closed", page[a].copy} :
            EditStatus(a, status)
  \/ \E status \in {"resolved", "closed"} : SetStatus(status)

HelpSpec == HelpInit /\ [][HelpNext]_helpVars

-----------------------------------------------------------------------------
(* Properties.                                                             *)

\* Types.
HelpTypeOK ==
  /\ ticketStatus \in TicketStatus
  /\ resolvedAt \in BOOLEAN
  /\ thread \in Seq(Entry) /\ Len(thread) \in 1 .. MaxThread
  /\ page \in [Agent -> [at : {"idle", "reading", "written"}, voice : Voice,
                         copy : TicketStatus, since : 0 .. MaxThread]]

\* The last entry of the thread that has a say in whose turn it is.
LastSay ==
  LET says == {i \in DOMAIN thread : thread[i].by # "note"}
  IN  CHOOSE i \in says : \A j \in says : j <= i

\* Whoever wrote the entry had read the thread as it stood.
ReadAll(i) == \A j \in thread[i].since + 1 .. i - 1 : thread[j].by = "note"

\* While no request is half done and the last say was of one who had read all
\* the thread, the ticket waits for the other side of that reply, or is where
\* it was put by hand: notes and refused replies disturb neither
\* (support/services.py:1-6, 90-97).
TicketTellsWhoseTurn ==
  (\A a \in Agent : page[a].at # "written") /\ ReadAll(LastSay)
    => ticketStatus = IF thread[LastSay].by = "hand" THEN thread[LastSay].sets
                                                     ELSE Turn(thread[LastSay].by)
=============================================================================
