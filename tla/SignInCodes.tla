---------------------------- MODULE SignInCodes ----------------------------
(***************************************************************************)
(* Signing in with a code sent by email (src/apps/accounts/otp.py,         *)
(* otp_views.py), for one address.                                         *)
(*                                                                         *)
(* issue() is one transaction but locks nothing until it retires codes, so *)
(* two requests may both pass its checks, and what one of them creates the *)
(* other may not see when it retires; verify() is no transaction on        *)
(* purpose: each statement of it is a step here.  Time is counted in       *)
(* cooldown periods.  The text of codes and hashes is left out: an entry   *)
(* is right or wrong.                                                      *)
(***************************************************************************)
EXTENDS Integers, Sequences, FiniteSets

CONSTANTS
  Browser,       \* requests under way
  HasAccount,    \* whether an active account has the address
  LifetimeTicks, \* LIFETIME_MINUTES
  HourTicks,     \* the hour MAX_PER_HOUR is counted over
  MaxPerHour,    \* MAX_PER_HOUR
  MaxAttempts,   \* MAX_ATTEMPTS
  LastTick,      \* bound: time
  MaxCodes       \* bound: codes sent

ASSUME SignInAssumption == IsFiniteSet(Browser) /\ LastTick \in Nat

VARIABLES
  tick,      \* the time
  codes,     \* rows of OneTimeCode: [at, used, attempts]
  visit,     \* what each browser's request is at
  compared,  \* how many entries each code was compared with
  signedIn   \* codes somebody signed in with

codeVars == <<tick, codes, visit, compared, signedIn>>

OneTimeCode == [at : 0 .. LastTick, used : BOOLEAN, attempts : Nat]

\* A request: which code it is about, the count it read back, and the codes
\* its transaction has retired.
VisitState == [at : {"idle", "issuing", "sending", "counting", "reading", "comparing",
                     "spending"},
               code : Nat, right : BOOLEAN, attempts : Nat, retired : SUBSET Nat]

NoVisit == [at |-> "idle", code |-> 0, right |-> FALSE, attempts |-> 0, retired |-> {}]

CodesInit ==
  /\ tick = 0 /\ codes = <<>> /\ compared = <<>> /\ signedIn = {}
  /\ visit = [b \in Browser |-> NoVisit]

Unused == {i \in DOMAIN codes : ~codes[i].used}

Expired(i) == tick >= codes[i].at + LifetimeTicks

\* Codes created within the hour.
RecentCodes == {i \in DOMAIN codes : codes[i].at + HourTicks >= tick}

Spend(i) == codes' = [codes EXCEPT ![i].used = TRUE]

\* issue: the checks.  A code sent less than a cooldown ago refuses.
AskForCode(b) ==
  /\ visit[b].at = "idle"
  /\ \A i \in RecentCodes : codes[i].at < tick
  /\ Cardinality(RecentCodes) < MaxPerHour
  /\ Len(codes) < MaxCodes
  /\ visit' = [visit EXCEPT ![b].at = "issuing"]
  /\ UNCHANGED <<tick, codes, compared, signedIn>>

\* issue: the update retires the earlier codes it finds ...
RetireCodes(b) ==
  /\ visit[b].at = "issuing"
  /\ visit' = [visit EXCEPT ![b].at = "sending", ![b].retired = Unused]
  /\ UNCHANGED <<tick, codes, compared, signedIn>>

\* ... and the new one is created; others see both when the transaction ends.
SendCode(b) ==
  /\ visit[b].at = "sending"
  /\ codes' = Append([i \in DOMAIN codes |->
                       [codes[i] EXCEPT !.used = @ \/ i \in visit[b].retired]],
                     [at |-> tick, used |-> FALSE, attempts |-> 0])
  /\ compared' = Append(compared, 0)
  /\ visit' = [visit EXCEPT ![b] = NoVisit]
  /\ UNCHANGED <<tick, signedIn>>

\* verify: the newest unused code is read; an expired one refuses.
EnterCode(b, right) ==
  /\ visit[b].at = "idle"
  /\ Unused # {}
  /\ LET i == CHOOSE j \in Unused : \A k \in Unused : k <= j
     IN  /\ ~Expired(i)
         /\ visit' = [visit EXCEPT ![b] = [at |-> "counting", code |-> i, right |-> right,
                                           attempts |-> 0, retired |-> {}]]
  /\ UNCHANGED <<tick, codes, compared, signedIn>>

\* Mutant: the counter is written from the row as it was read.
CountAttemptFromRead(b) ==
  LET i == visit[b].code
  IN  /\ visit[b].at = "counting"
      /\ codes' = [codes EXCEPT ![i].attempts = visit[b].attempts + 1]
      /\ visit' = [visit EXCEPT ![b].at = "reading"]
      /\ UNCHANGED <<tick, compared, signedIn>>

\* The attempt is counted by the database ...
CountAttempt(b) ==
  LET i == visit[b].code
  IN  /\ visit[b].at = "counting"
      /\ codes' = [codes EXCEPT ![i].attempts = @ + 1]
      /\ visit' = [visit EXCEPT ![b].at = "reading"]
      /\ UNCHANGED <<tick, compared, signedIn>>

\* ... and the count is read back.
ReadAttempts(b) ==
  /\ visit[b].at = "reading"
  /\ visit' = [visit EXCEPT ![b].at = "comparing",
                            ![b].attempts = codes[visit[b].code].attempts]
  /\ UNCHANGED <<tick, codes, compared, signedIn>>

\* A wrong entry on the last attempt allowed, and a right one, spend the code.
Compare(b) ==
  LET i == visit[b].code
      spends == visit[b].right \/ visit[b].attempts >= MaxAttempts
  IN  /\ visit[b].at = "comparing"
      /\ compared' = [compared EXCEPT ![i] = @ + 1]
      /\ visit' = [visit EXCEPT ![b] = IF spends THEN [@ EXCEPT !.at = "spending"]
                                       ELSE NoVisit]
      /\ UNCHANGED <<tick, codes, signedIn>>

\* The code is spent whoever else has spent it; a right entry signs in.
SpendCode(b) ==
  /\ visit[b].at = "spending"
  /\ Spend(visit[b].code)
  /\ signedIn' = IF visit[b].right /\ HasAccount
                 THEN signedIn \cup {visit[b].code} ELSE signedIn
  /\ visit' = [visit EXCEPT ![b] = NoVisit]
  /\ UNCHANGED <<tick, compared>>

TickOn ==
  /\ tick < LastTick
  /\ tick' = tick + 1
  /\ UNCHANGED <<codes, visit, compared, signedIn>>

CodesNext ==
  \/ \E b \in Browser :
       \/ AskForCode(b) \/ RetireCodes(b) \/ SendCode(b)
       \/ \E right \in BOOLEAN : EnterCode(b, right)
       \/ CountAttempt(b) \/ ReadAttempts(b) \/ Compare(b) \/ SpendCode(b)
  \/ TickOn

CodesSpec == CodesInit /\ [][CodesNext]_codeVars

-----------------------------------------------------------------------------
(* Properties.                                                             *)

\* Types.
CodesTypeOK ==
  /\ tick \in 0 .. LastTick
  /\ codes \in Seq(OneTimeCode)
  /\ compared \in Seq(Nat) /\ Len(compared) = Len(codes)
  /\ visit \in [Browser -> VisitState]
  /\ \A b \in Browser :
       /\ visit[b].code \in 0 .. Len(codes)
       /\ visit[b].at \notin {"idle", "issuing", "sending"} => visit[b].code # 0
  /\ signedIn \subseteq DOMAIN codes

\* Every entry compared with a code was counted first, although verify() is
\* no transaction and requests overlap (accounts/otp.py:171: "two simultaneous
\* guesses cannot both read the same count and write it back").
EveryEntryCounted ==
  \A i \in DOMAIN codes :
    codes[i].attempts =
      compared[i] + Cardinality({b \in Browser :
                       /\ visit[b].code = i
                       /\ visit[b].at \in {"reading", "comparing"}})
=============================================================================
