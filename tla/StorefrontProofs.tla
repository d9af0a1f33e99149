--------------------------- MODULE StorefrontProofs ---------------------------
(* Proofs about what shoppers work with: the address book, sign-in codes,  *)
(* carts, exchange rates and reviews, for any number of requests at once,  *)
(* the listing of any catalogue, and the money of any basket; and that a   *)
(* behaviour of MCDesk is one of each of its parts.                        *)
EXTENDS MCDesk, BackOfficeProofs,
        FiniteSetTheorems, SequenceTheorems, WellFoundedInduction, TLAPS

-----------------------------------------------------------------------------
(* The address book.                                                       *)

\* There is one default at most.
OneDefault == default = {} \/ \E a \in Address : default = {a}

\* Whoever cleared the default is about to set one: while nothing is marked,
\* and no mark was given up, nobody is about to write an unmarked address
\* into a book that needs a default, but beside such a request.
SomeoneMarks ==
  default = {} /\ ~forgone /\ (book # {} \/ \E t \in Tab : edit[t].at = "writing")
    => \E t \in Tab : edit[t].at \in {"crowning", "marking"}

BookInv == BookTypeOK /\ OneDefault /\ SomeoneMarks

LEMMA OneIsOne ==
  ASSUME NEW D, D = {} \/ \E a \in Address : D = {a}
  PROVE  Cardinality(D) <= 1
<1>1. CASE D = {}
  <2>1. Cardinality(D) = 0
    BY <1>1, FS_EmptySet
  <2>. QED
    BY <2>1
<1>2. ASSUME NEW a \in Address, D = {a} PROVE Cardinality(D) <= 1
  <2>1. Cardinality(D) = 1
    BY <1>2, FS_Singleton
  <2>. QED
    BY <2>1
<1>. QED
  BY <1>1, <1>2

LEMMA BookInvInit == BookInit => BookInv
<1>. SUFFICES ASSUME BookInit PROVE BookInv
  OBVIOUS
<1>1. OneDefault /\ SomeoneMarks
  BY DEF BookInit, OneDefault, SomeoneMarks, NoEdit
<1>2. BookTypeOK
  BY <1>1, OneIsOne DEF BookInit, BookTypeOK, NoEdit, OneDefault
<1>. QED
  BY <1>1, <1>2 DEF BookInv

LEMMA BookInvStep == BookInv /\ [BookNext]_bookVars => BookInv'
<1>. SUFFICES ASSUME BookInv, [BookNext]_bookVars PROVE BookInv'
  OBVIOUS
<1>. USE AddressBookAssumption
<1> DEFINE Edit == [at : {"idle", "clearing", "crowning", "writing", "marking"},
                    address : Address \cup {NoAddress}]
           Typed == /\ book' \subseteq Address /\ default' \subseteq book'
                    /\ edit' \in [Tab -> Edit]
                    /\ \A t \in Tab : edit'[t].at # "idle"
                                      => edit'[t].address \in Address
                    /\ forgone' \in BOOLEAN
<1>1. SUFFICES Typed /\ OneDefault' /\ SomeoneMarks'
  <2>1. OneDefault' => Cardinality(default') <= 1
    BY OneIsOne DEF OneDefault
  <2>. QED
    BY <2>1 DEF BookInv, BookTypeOK
<1>2. /\ edit \in [Tab -> Edit]
      /\ \A t \in Tab : edit[t].at # "idle" => edit[t].address \in Address
      /\ book \subseteq Address /\ default \subseteq book /\ forgone \in BOOLEAN
  BY DEF BookInv, BookTypeOK
<1>3. NoEdit \in Edit /\ NoEdit.at = "idle"
  BY DEF NoEdit
<1>4. ASSUME NEW t \in Tab, NEW a \in Address, NEW asDefault \in BOOLEAN,
             SaveAddress(t, a, asDefault)
      PROVE  Typed /\ OneDefault' /\ SomeoneMarks'
  <2>1. PICK at \in {"clearing", "writing"} :
          /\ edit' = [edit EXCEPT ![t] = [at |-> at, address |-> a]]
          /\ at = "writing" => book # {}
    BY <1>4 DEF SaveAddress
  <2>2. /\ UNCHANGED <<book, default, forgone>> /\ edit[t].at = "idle"
    BY <1>4 DEF SaveAddress
  <2>. QED
    BY <1>2, <2>1, <2>2 DEF BookInv, OneDefault, SomeoneMarks
<1>5. ASSUME NEW t \in Tab, ClearOthers(t)
      PROVE  Typed /\ OneDefault' /\ SomeoneMarks'
  BY <1>2, <1>5 DEF ClearOthers, BookInv, OneDefault, SomeoneMarks
<1>6. ASSUME NEW t \in Tab, WriteDefault(t)
      PROVE  Typed /\ OneDefault' /\ SomeoneMarks'
  <2>1. PICK a \in Address : a = edit[t].address
    BY <1>2, <1>6 DEF WriteDefault
  <2>2. edit' = [edit EXCEPT ![t] = NoEdit]
    BY <1>6 DEF WriteDefault
  <2>3. CASE default \subseteq {a}
    <3>1. book' = book \cup {a} /\ default' = {a} /\ forgone' = FALSE
      BY <1>6, <2>1, <2>3 DEF WriteDefault
    <3>. QED
      BY <1>2, <1>3, <2>2, <3>1 DEF OneDefault, SomeoneMarks
  <2>4. CASE ~(default \subseteq {a})
    <3>1. UNCHANGED <<book, default, forgone>>
      BY <1>6, <2>1, <2>4 DEF WriteDefault
    <3>. QED
      BY <1>2, <1>3, <2>2, <2>4, <3>1 DEF BookInv, OneDefault, SomeoneMarks
  <2>. QED
    BY <2>3, <2>4
<1>7. ASSUME NEW t \in Tab, WritePlain(t)
      PROVE  Typed /\ OneDefault' /\ SomeoneMarks'
  <2>1. PICK a \in Address :
          /\ a = edit[t].address /\ book' = book \cup {a}
          /\ default' = default \ {a} /\ forgone' = (forgone \/ a \in default)
    BY <1>2, <1>7 DEF WritePlain
  <2>2. edit' = [edit EXCEPT ![t] = NoEdit] /\ edit[t].at = "writing"
    BY <1>7 DEF WritePlain
  <2>3. Typed /\ OneDefault'
    BY <1>2, <1>3, <2>1, <2>2 DEF BookInv, OneDefault
  <2>4. SomeoneMarks'
    <3>. SUFFICES ASSUME default' = {}, ~forgone'
                  PROVE  \E u \in Tab : edit'[u].at \in {"crowning", "marking"}
      BY DEF SomeoneMarks
    <3>1. default = {} /\ ~forgone
      BY <2>1
    <3>2. PICK u \in Tab : edit[u].at \in {"crowning", "marking"}
      BY <2>2, <3>1 DEF BookInv, SomeoneMarks
    <3>3. u # t /\ edit'[u] = edit[u]
      BY <1>2, <2>2, <3>2
    <3>. QED
      BY <3>2, <3>3
  <2>. QED
    BY <2>3, <2>4
<1>8. ASSUME NEW t \in Tab, NEW a \in Address, ClearAll(t, a)
      PROVE  Typed /\ OneDefault' /\ SomeoneMarks'
  BY <1>2, <1>8 DEF ClearAll, OneDefault, SomeoneMarks
<1>9. ASSUME NEW t \in Tab, MarkDefault(t)
      PROVE  Typed /\ OneDefault' /\ SomeoneMarks'
  <2>1. PICK a \in Address :
          /\ a = edit[t].address
          /\ default' = IF a \in book /\ default = {} THEN {a} ELSE default
          /\ forgone' = IF a \in book THEN FALSE ELSE forgone \/ default = {}
    BY <1>2, <1>9 DEF MarkDefault
  <2>2. edit' = [edit EXCEPT ![t] = NoEdit] /\ book' = book
    BY <1>9 DEF MarkDefault
  <2>. QED
    BY <1>2, <1>3, <2>1, <2>2 DEF BookInv, OneDefault, SomeoneMarks
<1>10. ASSUME NEW t \in Tab, NEW a \in Address, DeleteAddress(t, a)
       PROVE  Typed /\ OneDefault' /\ SomeoneMarks'
  BY <1>2, <1>10 DEF DeleteAddress, BookInv, OneDefault, SomeoneMarks
<1>11. ASSUME NEW t \in Tab, DropRequest(t)
       PROVE  Typed /\ OneDefault' /\ SomeoneMarks'
  <2>1. /\ edit' = [edit EXCEPT ![t] = NoEdit] /\ UNCHANGED <<book, default>>
        /\ forgone' = (forgone \/ edit[t].at \in {"crowning", "marking"})
    BY <1>11 DEF DropRequest
  <2>. QED
    BY <1>2, <1>3, <2>1 DEF BookInv, OneDefault, SomeoneMarks
<1>12. CASE UNCHANGED bookVars
  BY <1>2, <1>12 DEF bookVars, BookInv, OneDefault, SomeoneMarks
<1>. HIDE DEF Typed
<1>. QED
  BY <1>4, <1>5, <1>6, <1>7, <1>8, <1>9, <1>10, <1>11, <1>12 DEF BookNext

LEMMA BookInvAlways == BookSpec => []BookInv
<1>. QED
  BY BookInvInit, BookInvStep, PTL DEF BookSpec

\* There is never a second default, and a request that writes has an address
\* (accounts/models.py).
THEOREM BookTypeCorrect == BookSpec => []BookTypeOK
<1>1. BookInv => BookTypeOK
  BY DEF BookInv
<1>. QED
  BY <1>1, BookInvAlways, PTL

\* However many tabs a customer has open, statements of theirs that interleave
\* never leave all addresses unmarked once every request is through
\* (accounts/models.py:162, :172).
THEOREM DefaultIsKept == BookSpec => []DefaultKept
<1>1. BookInv => DefaultKept
  BY DEF BookInv, SomeoneMarks, DefaultKept
<1>. QED
  BY <1>1, BookInvAlways, PTL

-----------------------------------------------------------------------------
(* Sign-in codes.                                                          *)

\* Requests whose entry is counted against a code and not yet compared.
Awaited ==
  [i \in Nat |-> {b \in Browser : /\ visit[b].code = i
                                 /\ visit[b].at \in {"reading", "comparing"}}]

CodesInv ==
  /\ CodesTypeOK
  /\ \A i \in DOMAIN codes : codes[i].attempts = compared[i] + Cardinality(Awaited[i])

\* Among the unused codes there is a newest.
LEMMA NewestUnused ==
  ASSUME CodesTypeOK, Unused # {}
  PROVE  \E i \in Unused : \A k \in Unused : k <= i
<1>1. DOMAIN codes = 1 .. Len(codes) /\ Len(codes) \in Nat
  BY DEF CodesTypeOK
<1>2. PICK n \in Nat : n = Len(codes)
  BY <1>1
<1>3. Unused \subseteq 1 .. n
  BY <1>1, <1>2 DEF Unused
<1> DEFINE Behind == {n - i : i \in Unused}
<1>4. Behind \subseteq Nat /\ Behind # {}
  <2>1. ASSUME NEW i \in Unused PROVE n - i \in Nat
    <3>1. i \in 1 .. n
      BY <1>3
    <3>. QED
      BY <3>1
  <2>2. Behind # {}
    OBVIOUS
  <2>. QED
    BY <2>1, <2>2
<1>5. PICK least \in Behind : \A m \in Behind : ~(<<m, least>> \in OpToRel(<, Nat))
  BY <1>4, NatLessThanWellFounded, WFMin
<1>6. \A m \in Behind : ~(m < least)
  BY <1>4, <1>5 DEF OpToRel
<1>7. PICK i \in Unused : least = n - i
  OBVIOUS
<1>8. \A k \in Unused : ~(n - k < n - i)
  BY <1>6, <1>7
<1>. QED
  BY <1>3, <1>8

\* A request that begins or ends to await its comparison moves one code's
\* count by one, and no other code's.
LEMMA AwaitedMoves ==
  ASSUME CodesTypeOK, NEW b \in Browser, NEW new \in VisitState,
         visit' = [visit EXCEPT ![b] = new], NEW i \in Nat,
         NEW after \in BOOLEAN,
         after <=> new.code = i /\ new.at \in {"reading", "comparing"}
  PROVE  /\ Cardinality(Awaited[i]) \in Nat
         /\ (b \in Awaited[i] <=> after) => Awaited'[i] = Awaited[i]
         /\ b \notin Awaited[i] /\ after =>
              Cardinality(Awaited'[i]) = Cardinality(Awaited[i]) + 1
         /\ b \in Awaited[i] /\ ~after =>
              Cardinality(Awaited'[i]) = Cardinality(Awaited[i]) - 1
<1>1. IsFiniteSet(Awaited[i]) /\ Cardinality(Awaited[i]) \in Nat
  BY SignInAssumption, FS_Subset, FS_CardinalityType DEF Awaited
<1>2. visit'[b] = new /\ \A c \in Browser \ {b} : visit'[c] = visit[c]
  BY DEF CodesTypeOK
<1>3. /\ after => Awaited'[i] = Awaited[i] \cup {b}
      /\ ~after => Awaited'[i] = Awaited[i] \ {b}
  BY <1>2 DEF Awaited
<1>4. /\ b \notin Awaited[i] => Cardinality(Awaited[i] \cup {b})
                                = Cardinality(Awaited[i]) + 1
      /\ b \in Awaited[i] => Cardinality(Awaited[i] \ {b})
                                = Cardinality(Awaited[i]) - 1
  BY <1>1, FS_AddElement, FS_RemoveElement
<1>. QED
  BY <1>1, <1>3, <1>4

LEMMA CodesInvInit == CodesInit => CodesInv
<1>. SUFFICES ASSUME CodesInit PROVE CodesInv
  OBVIOUS
<1>1. codes = <<>> /\ compared = <<>> /\ tick = 0 /\ signedIn = {}
  BY DEF CodesInit
<1>2. NoVisit \in VisitState /\ NoVisit.code = 0 /\ NoVisit.at = "idle"
  BY DEF NoVisit, VisitState
<1>3. visit = [b \in Browser |-> NoVisit]
  BY DEF CodesInit
<1>. QED
  BY <1>1, <1>2, <1>3, SignInAssumption DEF CodesInv, CodesTypeOK

\* A request goes on without touching the counts of any code.
LEMMA VisitStep ==
  ASSUME CodesInv, NEW b \in Browser, NEW new \in VisitState,
         visit' = [visit EXCEPT ![b] = new],
         new.code \in 0 .. Len(codes),
         new.at \notin {"idle", "issuing", "sending"} => new.code # 0,
         \A i \in DOMAIN codes :
           b \in Awaited[i] <=> new.code = i /\ new.at \in {"reading", "comparing"},
         codes' \in Seq(OneTimeCode), Len(codes') = Len(codes),
         \A i \in DOMAIN codes : codes'[i].attempts = codes[i].attempts,
         UNCHANGED <<tick, compared>>, signedIn' \subseteq DOMAIN codes
  PROVE  CodesInv'
<1>1. DOMAIN codes = 1 .. Len(codes) /\ DOMAIN codes' = 1 .. Len(codes)
      /\ Len(codes) \in Nat
  BY DEF CodesInv, CodesTypeOK
<1>2. CodesTypeOK'
  BY <1>1 DEF CodesInv, CodesTypeOK
<1>3. \A i \in DOMAIN codes : Awaited'[i] = Awaited[i]
  <2>. SUFFICES ASSUME NEW i \in DOMAIN codes PROVE Awaited'[i] = Awaited[i]
    OBVIOUS
  <2>1. i \in Nat
    BY <1>1
  <2>2. PICK after \in BOOLEAN :
          after <=> new.code = i /\ new.at \in {"reading", "comparing"}
    OBVIOUS
  <2>3. b \in Awaited[i] <=> after
    BY <2>2
  <2>. QED
    BY <2>1, <2>2, <2>3, AwaitedMoves DEF CodesInv
<1>. QED
  BY <1>1, <1>2, <1>3 DEF CodesInv

LEMMA SendStep ==
  ASSUME CodesInv, NEW b \in Browser, SendCode(b)
  PROVE  CodesInv'
<1>1. PICK n \in Nat : n = Len(codes)
  BY DEF CodesInv, CodesTypeOK
<1>2. /\ codes \in Seq(OneTimeCode) /\ DOMAIN codes = 1 .. n
      /\ compared \in Seq(Nat) /\ DOMAIN compared = 1 .. n
      /\ visit[b] \in VisitState
  BY <1>1 DEF CodesInv, CodesTypeOK
<1> DEFINE spent == [i \in DOMAIN codes |->
                      [codes[i] EXCEPT !.used = @ \/ i \in visit[b].retired]]
           fresh == [at |-> tick, used |-> FALSE, attempts |-> 0]
<1>3. /\ codes' = Append(spent, fresh) /\ compared' = Append(compared, 0)
      /\ visit[b].at = "sending" /\ visit' = [visit EXCEPT ![b] = NoVisit]
      /\ UNCHANGED <<tick, signedIn>>
  BY DEF SendCode
<1>4. fresh \in OneTimeCode /\ fresh.attempts = 0
  BY DEF CodesInv, CodesTypeOK, OneTimeCode
<1>5. /\ spent \in Seq(OneTimeCode) /\ Len(spent) = n
      /\ \A i \in 1 .. n : spent[i].attempts = codes[i].attempts
  <2>1. \A i \in 1 .. n : codes[i] \in OneTimeCode
    BY <1>2
  <2>2. \A i \in 1 .. n : /\ spent[i] \in OneTimeCode
                         /\ spent[i].attempts = codes[i].attempts
    BY <1>2, <2>1 DEF OneTimeCode
  <2>3. spent \in [1 .. n -> OneTimeCode]
    BY <1>2, <2>2
  <2>4. spent \in Seq(OneTimeCode)
    BY <2>3, SeqDef
  <2>5. Len(spent) = n
    BY <1>2, <2>4, LenProperties
  <2>. QED
    BY <2>2, <2>4, <2>5
<1>. HIDE DEF spent, fresh
<1>6. /\ codes' \in Seq(OneTimeCode) /\ Len(codes') = n + 1
      /\ DOMAIN codes' = 1 .. n + 1
      /\ \A i \in 1 .. n : codes'[i] = spent[i]
      /\ codes'[n + 1] = fresh
  BY <1>3, <1>4, <1>5
<1>7. /\ compared' \in Seq(Nat) /\ Len(compared') = n + 1
      /\ \A i \in 1 .. n : compared'[i] = compared[i]
      /\ compared'[n + 1] = 0
  BY <1>1, <1>2, <1>3
<1>8. NoVisit \in VisitState /\ NoVisit.code = 0 /\ NoVisit.at = "idle"
  BY DEF NoVisit, VisitState
<1>9. \A c \in Browser : visit'[c].code \in 0 .. n
  BY <1>1, <1>3, <1>8 DEF CodesInv, CodesTypeOK
<1>10. CodesTypeOK'
  <2>1. visit' \in [Browser -> VisitState]
    BY <1>3, <1>8 DEF CodesInv, CodesTypeOK
  <2>2. \A c \in Browser :
          /\ visit'[c].code \in 0 .. n + 1
          /\ visit'[c].at \notin {"idle", "issuing", "sending"} => visit'[c].code # 0
    BY <1>1, <1>3, <1>8, <1>9 DEF CodesInv, CodesTypeOK
  <2>3. signedIn' \subseteq DOMAIN codes'
    BY <1>2, <1>3, <1>6 DEF CodesInv, CodesTypeOK
  <2>4. tick' \in 0 .. LastTick
    BY <1>3 DEF CodesInv, CodesTypeOK
  <2>. QED
    BY <1>6, <1>7, <2>1, <2>2, <2>3, <2>4 DEF CodesTypeOK
<1>11. \A i \in 1 .. n : Awaited'[i] = Awaited[i]
  <2>. SUFFICES ASSUME NEW i \in 1 .. n PROVE Awaited'[i] = Awaited[i]
    OBVIOUS
  <2>1. b \notin Awaited[i]
    BY <1>3 DEF Awaited
  <2>2. i \in Nat /\ (FALSE <=> NoVisit.code = i /\ NoVisit.at \in {"reading", "comparing"})
    BY <1>8
  <2>. QED
    BY <1>3, <1>8, <2>1, <2>2, AwaitedMoves DEF CodesInv
<1>12. Cardinality(Awaited'[n + 1]) = 0
  <2>1. Awaited'[n + 1] = {}
    BY <1>9 DEF Awaited
  <2>. QED
    BY <2>1, FS_EmptySet
<1>13. \A i \in 1 .. n + 1 :
         codes'[i].attempts = compared'[i] + Cardinality(Awaited'[i])
  <2>. SUFFICES ASSUME NEW i \in 1 .. n + 1
                PROVE  codes'[i].attempts = compared'[i] + Cardinality(Awaited'[i])
    OBVIOUS
  <2>1. CASE i \in 1 .. n
    BY <1>2, <1>5, <1>6, <1>7, <1>11, <2>1 DEF CodesInv
  <2>2. CASE i = n + 1
    <3>1. codes'[n + 1].attempts = 0
      BY <1>4, <1>6
    <3>2. codes'[n + 1].attempts = compared'[n + 1] + Cardinality(Awaited'[n + 1])
      BY <1>7, <1>12, <3>1
    <3>. QED
      BY <2>2, <3>2
  <2>. QED
    BY <2>1, <2>2
<1>. QED
  BY <1>6, <1>10, <1>13 DEF CodesInv

\* An entry is counted against a code, or compared with it.
LEMMA CountStep ==
  ASSUME CodesInv, NEW b \in Browser, CountAttempt(b) \/ Compare(b)
  PROVE  CodesInv'
<1>1. PICK n \in Nat : n = Len(codes)
  BY DEF CodesInv, CodesTypeOK
<1>2. /\ codes \in Seq(OneTimeCode) /\ DOMAIN codes = 1 .. n
      /\ compared \in Seq(Nat) /\ Len(compared) = n /\ DOMAIN compared = 1 .. n
      /\ visit[b] \in VisitState /\ visit[b].code \in 0 .. n
      /\ visit \in [Browser -> VisitState]
  BY <1>1 DEF CodesInv, CodesTypeOK
<1>3. PICK i \in 1 .. n : i = visit[b].code
  <2>1. visit[b].at = "counting" \/ visit[b].at = "comparing"
    BY DEF CountAttempt, Compare
  <2>2. visit[b].code # 0
    BY <2>1 DEF CodesInv, CodesTypeOK
  <2>3. visit[b].code \in 1 .. n
    BY <1>2, <2>2
  <2>. QED
    BY <2>3
<1>4. ASSUME NEW k \in 1 .. n
      PROVE  /\ codes[k].attempts = compared[k] + Cardinality(Awaited[k])
             /\ codes[k].attempts \in Nat /\ compared[k] \in Nat
             /\ Cardinality(Awaited[k]) \in Nat
  <2>1. IsFiniteSet(Awaited[k])
    BY SignInAssumption, FS_Subset DEF Awaited
  <2>. QED
    BY <1>2, <2>1, FS_CardinalityType DEF CodesInv, OneTimeCode
<1>5. /\ UNCHANGED <<tick, signedIn>> /\ signedIn \subseteq 1 .. n
      /\ tick \in 0 .. LastTick
  BY <1>2 DEF CountAttempt, Compare, CodesInv, CodesTypeOK
<1>6. ASSUME CountAttempt(b) PROVE CodesInv'
  <2> DEFINE new == [visit[b] EXCEPT !.at = "reading"]
             c == [codes[i] EXCEPT !.attempts = @ + 1]
  <2>1. new \in VisitState /\ new.code = i /\ new.at = "reading"
    BY <1>2, <1>3 DEF VisitState
  <2>2. codes[i] \in OneTimeCode
    BY <1>2
  <2>3. c \in OneTimeCode /\ c.attempts = codes[i].attempts + 1
    BY <2>2 DEF OneTimeCode
  <2>4. /\ visit' = [visit EXCEPT ![b] = new] /\ codes' = [codes EXCEPT ![i] = c]
        /\ compared' = compared /\ b \notin Awaited[i]
        /\ \A k \in 1 .. n : k # i => b \notin Awaited[k]
    BY <1>3, <1>6 DEF CountAttempt, Awaited
  <2>. HIDE DEF new, c
  <2>5. /\ codes' \in Seq(OneTimeCode) /\ Len(codes') = n /\ DOMAIN codes' = 1 .. n
        /\ codes'[i] = c /\ \A k \in 1 .. n : k # i => codes'[k] = codes[k]
    BY <1>1, <1>2, <2>3, <2>4, ExceptSeq
  <2>6. i \in Nat /\ (TRUE <=> new.code = i /\ new.at \in {"reading", "comparing"})
    BY <2>1
  <2>7. Cardinality(Awaited'[i]) = Cardinality(Awaited[i]) + 1
    BY <2>1, <2>4, <2>6, AwaitedMoves DEF CodesInv
  <2>8. ASSUME NEW k \in 1 .. n, k # i PROVE Awaited'[k] = Awaited[k]
    <3>1. /\ k \in Nat /\ b \notin Awaited[k]
          /\ FALSE <=> (new.code = k /\ new.at \in {"reading", "comparing"})
      BY <2>1, <2>4, <2>8
    <3>. QED
      BY <2>1, <2>4, <3>1, AwaitedMoves DEF CodesInv
  <2>9. CodesTypeOK'
    <3>1. /\ visit' \in [Browser -> VisitState]
          /\ \A d \in Browser :
               /\ visit'[d].code \in 0 .. n
               /\ visit'[d].at \notin {"idle", "issuing", "sending"} => visit'[d].code # 0
      BY <1>1, <1>2, <2>1, <2>4 DEF CodesInv, CodesTypeOK
    <3>. QED
      BY <1>2, <1>5, <2>4, <2>5, <3>1 DEF CodesTypeOK
  <2>10. ASSUME NEW k \in 1 .. n
         PROVE  codes'[k].attempts = compared'[k] + Cardinality(Awaited'[k])
    <3>1. CASE k = i
      <4>1. codes'[i].attempts = codes[i].attempts + 1
        BY <2>3, <2>5
      <4>2. codes[i].attempts = compared[i] + Cardinality(Awaited[i])
        BY <1>4
      <4>3. compared'[i] = compared[i]
        BY <2>4
      <4>4. compared[i] \in Nat /\ Cardinality(Awaited[i]) \in Nat
        BY <1>4
      <4>5. codes'[i].attempts = compared'[i] + Cardinality(Awaited'[i])
        BY <4>1, <4>2, <4>3, <4>4, <2>7
      <4>. QED
        BY <3>1, <4>5
    <3>2. CASE k # i
      BY <1>4, <2>4, <2>5, <2>8, <3>2
    <3>. QED
      BY <3>1, <3>2
  <2>. QED
    BY <2>5, <2>9, <2>10 DEF CodesInv
<1>7. ASSUME Compare(b) PROVE CodesInv'
  <2>1. PICK new \in VisitState :
          /\ visit' = [visit EXCEPT ![b] = new]
          /\ new.code \in 0 .. n
          /\ \/ new.at = "idle"
             \/ new.at = "spending" /\ new.code # 0
    <3>. DEFINE spends == visit[b].right \/ visit[b].attempts >= MaxAttempts
                to == [visit[b] EXCEPT !.at = "spending"]
    <3>1. NoVisit \in VisitState /\ NoVisit.code = 0 /\ NoVisit.at = "idle"
      BY DEF NoVisit, VisitState
    <3>2. to \in VisitState /\ to.code = i /\ to.at = "spending"
      BY <1>2, <1>3 DEF VisitState
    <3>3. visit' = [visit EXCEPT ![b] = IF spends THEN to ELSE NoVisit]
      BY <1>2, <1>7 DEF Compare
    <3>. HIDE DEF spends, to
    <3>4. CASE spends
      <4>1. visit' = [visit EXCEPT ![b] = to]
        BY <3>3, <3>4
      <4>2. to.code \in 0 .. n /\ to.code # 0
        BY <3>2
      <4>. QED
        BY <3>2, <4>1, <4>2
    <3>5. CASE ~spends
      <4>1. visit' = [visit EXCEPT ![b] = NoVisit]
        BY <3>3, <3>5
      <4>2. NoVisit.code \in 0 .. n
        BY <3>1
      <4>. QED
        BY <3>1, <4>1, <4>2
    <3>. QED
      BY <3>4, <3>5
  <2>2. /\ b \in Awaited[i] /\ codes' = codes
        /\ \A k \in 1 .. n : k # i => b \notin Awaited[k]
        /\ compared' = [compared EXCEPT ![i] = @ + 1]
    BY <1>3, <1>7 DEF Compare, Awaited
  <2>3. /\ compared' \in Seq(Nat) /\ Len(compared') = n
        /\ compared'[i] = compared[i] + 1
        /\ \A k \in 1 .. n : k # i => compared'[k] = compared[k]
    <3>1. PICK m \in Nat : m = compared[i] + 1
      BY <1>4
    <3>. QED
      BY <1>2, <2>2, <3>1, ExceptSeq
  <2>4. \A k \in 1 .. n :
          k \in Nat /\ (FALSE <=> new.code = k /\ new.at \in {"reading", "comparing"})
    BY <2>1
  <2>5. Cardinality(Awaited'[i]) = Cardinality(Awaited[i]) - 1
    BY <2>1, <2>2, <2>4, AwaitedMoves DEF CodesInv
  <2>6. ASSUME NEW k \in 1 .. n, k # i PROVE Awaited'[k] = Awaited[k]
    <3>1. b \notin Awaited[k]
      BY <2>2, <2>6
    <3>. QED
      BY <2>1, <2>4, <3>1, AwaitedMoves DEF CodesInv
  <2>7. CodesTypeOK'
    <3>1. /\ visit' \in [Browser -> VisitState]
          /\ \A d \in Browser :
               /\ visit'[d].code \in 0 .. n
               /\ visit'[d].at \notin {"idle", "issuing", "sending"} => visit'[d].code # 0
      BY <1>1, <1>2, <2>1 DEF CodesInv, CodesTypeOK
    <3>. QED
      BY <1>1, <1>2, <1>5, <2>2, <2>3, <3>1 DEF CodesTypeOK
  <2>8. ASSUME NEW k \in 1 .. n
        PROVE  codes'[k].attempts = compared'[k] + Cardinality(Awaited'[k])
    <3>1. CASE k = i
      BY <1>4, <2>2, <2>3, <2>5, <3>1
    <3>2. CASE k # i
      BY <1>4, <2>2, <2>3, <2>6, <3>2
    <3>. QED
      BY <3>1, <3>2
  <2>. QED
    BY <1>2, <2>2, <2>7, <2>8 DEF CodesInv
<1>. QED
  BY <1>6, <1>7

\* An entry is compared with the newest unused code.
LEMMA EnterStep ==
  ASSUME CodesInv, NEW b \in Browser, NEW right \in BOOLEAN, EnterCode(b, right)
  PROVE  CodesInv'
<1>1. PICK i \in Unused :
        visit' = [visit EXCEPT ![b] = [at |-> "counting", code |-> i, right |-> right,
                                       attempts |-> 0, retired |-> {}]]
  <2>1. \E i \in Unused : \A k \in Unused : k <= i
    BY NewestUnused DEF EnterCode, CodesInv
  <2>. QED
    BY <2>1 DEF EnterCode
<1>. DEFINE new == [at |-> "counting", code |-> i, right |-> right, attempts |-> 0,
                    retired |-> {}]
<1>2. i \in DOMAIN codes /\ i \in 1 .. Len(codes) /\ Len(codes) \in Nat
  BY DEF Unused, CodesInv, CodesTypeOK
<1>3. /\ new \in VisitState /\ new.code \in 0 .. Len(codes) /\ new.code # 0
      /\ new.at = "counting"
  BY <1>2 DEF VisitState
<1>4. /\ visit' = [visit EXCEPT ![b] = new] /\ visit[b].at = "idle"
      /\ UNCHANGED <<tick, codes, compared, signedIn>>
  BY <1>1 DEF EnterCode
<1>. HIDE DEF new
<1>5. \A k \in DOMAIN codes :
        b \in Awaited[k] <=> new.code = k /\ new.at \in {"reading", "comparing"}
  BY <1>3, <1>4 DEF Awaited, CodesInv, CodesTypeOK
<1>6. codes' \in Seq(OneTimeCode) /\ signedIn' \subseteq DOMAIN codes
  BY <1>4 DEF CodesInv, CodesTypeOK
<1>. QED
  BY <1>3, <1>4, <1>5, <1>6, VisitStep

LEMMA AskStep ==
  ASSUME CodesInv, NEW b \in Browser, AskForCode(b)
  PROVE  CodesInv'
<1>. DEFINE new == [visit[b] EXCEPT !.at = "issuing"]
<1>1. visit[b] \in VisitState /\ visit[b].code \in 0 .. Len(codes)
  BY DEF CodesInv, CodesTypeOK
<1>2. new \in VisitState /\ new.at = "issuing" /\ new.code \in 0 .. Len(codes)
  BY <1>1 DEF VisitState
<1>3. /\ visit' = [visit EXCEPT ![b] = new] /\ visit[b].at = "idle"
      /\ UNCHANGED <<tick, codes, compared, signedIn>>
  BY DEF AskForCode
<1>. HIDE DEF new
<1>4. \A k \in DOMAIN codes :
        b \in Awaited[k] <=> new.code = k /\ new.at \in {"reading", "comparing"}
  BY <1>2, <1>3 DEF Awaited
<1>5. codes' \in Seq(OneTimeCode) /\ signedIn' \subseteq DOMAIN codes
  BY <1>3 DEF CodesInv, CodesTypeOK
<1>. QED
  BY <1>2, <1>3, <1>4, <1>5, VisitStep

LEMMA RetireStep ==
  ASSUME CodesInv, NEW b \in Browser, RetireCodes(b)
  PROVE  CodesInv'
<1>. DEFINE new == [visit[b] EXCEPT !.at = "sending", !.retired = Unused]
<1>1. visit[b] \in VisitState /\ visit[b].code \in 0 .. Len(codes)
  BY DEF CodesInv, CodesTypeOK
<1>2. Unused \in SUBSET Nat
  BY DEF Unused, CodesInv, CodesTypeOK
<1>3. new \in VisitState /\ new.at = "sending" /\ new.code \in 0 .. Len(codes)
  BY <1>1, <1>2 DEF VisitState
<1>4. /\ visit' = [visit EXCEPT ![b] = new] /\ visit[b].at = "issuing"
      /\ UNCHANGED <<tick, codes, compared, signedIn>>
  BY DEF RetireCodes
<1>. HIDE DEF new
<1>5. \A k \in DOMAIN codes :
        b \in Awaited[k] <=> new.code = k /\ new.at \in {"reading", "comparing"}
  BY <1>3, <1>4 DEF Awaited
<1>6. codes' \in Seq(OneTimeCode) /\ signedIn' \subseteq DOMAIN codes
  BY <1>4 DEF CodesInv, CodesTypeOK
<1>. QED
  BY <1>3, <1>4, <1>5, <1>6, VisitStep

LEMMA ReadStep ==
  ASSUME CodesInv, NEW b \in Browser, ReadAttempts(b)
  PROVE  CodesInv'
<1>. DEFINE new == [visit[b] EXCEPT !.at = "comparing",
                                    !.attempts = codes[visit[b].code].attempts]
<1>1. /\ visit[b] \in VisitState /\ visit[b].code \in 0 .. Len(codes)
      /\ visit[b].at = "reading" /\ codes \in Seq(OneTimeCode)
  BY DEF CodesInv, CodesTypeOK, ReadAttempts
<1>2. visit[b].code # 0
  BY <1>1 DEF CodesInv, CodesTypeOK
<1>3. visit[b].code \in DOMAIN codes /\ DOMAIN codes = 1 .. Len(codes)
  BY <1>1, <1>2
<1>4. codes[visit[b].code] \in OneTimeCode
  BY <1>1, <1>3
<1>5. codes[visit[b].code].attempts \in Nat
  BY <1>4 DEF OneTimeCode
<1>6. new \in VisitState /\ new.at = "comparing" /\ new.code = visit[b].code
  BY <1>1, <1>5 DEF VisitState
<1>7. /\ visit' = [visit EXCEPT ![b] = new]
      /\ UNCHANGED <<tick, codes, compared, signedIn>>
  BY <1>1 DEF ReadAttempts, CodesInv, CodesTypeOK
<1>. HIDE DEF new
<1>8. \A k \in DOMAIN codes :
        b \in Awaited[k] <=> new.code = k /\ new.at \in {"reading", "comparing"}
  BY <1>1, <1>3, <1>6 DEF Awaited
<1>9. codes' \in Seq(OneTimeCode) /\ signedIn' \subseteq DOMAIN codes
  BY <1>7 DEF CodesInv, CodesTypeOK
<1>. QED
  BY <1>1, <1>2, <1>6, <1>7, <1>8, <1>9, VisitStep

LEMMA SpendStep ==
  ASSUME CodesInv, NEW b \in Browser, SpendCode(b)
  PROVE  CodesInv'
<1>1. /\ visit[b].at = "spending" /\ codes \in Seq(OneTimeCode)
      /\ visit[b].code \in 0 .. Len(codes) /\ signedIn \subseteq DOMAIN codes
  BY DEF CodesInv, CodesTypeOK, SpendCode
<1>2. visit[b].code # 0
  BY <1>1 DEF CodesInv, CodesTypeOK
<1>3. PICK i \in DOMAIN codes : i = visit[b].code
  BY <1>1, <1>2
<1>4. PICK c \in OneTimeCode :
        c = [codes[i] EXCEPT !.used = TRUE] /\ c.attempts = codes[i].attempts
  <2>1. codes[i] \in OneTimeCode
    BY <1>1, <1>3
  <2>2. [codes[i] EXCEPT !.used = TRUE] \in OneTimeCode
    BY <2>1 DEF OneTimeCode
  <2>3. [codes[i] EXCEPT !.used = TRUE].attempts = codes[i].attempts
    BY <2>1 DEF OneTimeCode
  <2>. QED
    BY <2>2, <2>3
<1>5. /\ codes' = [codes EXCEPT ![i] = c]
      /\ visit' = [visit EXCEPT ![b] = NoVisit]
      /\ UNCHANGED <<tick, compared>> /\ signedIn' \subseteq DOMAIN codes
  BY <1>1, <1>3, <1>4 DEF SpendCode, Spend
<1>6. /\ codes' \in Seq(OneTimeCode) /\ Len(codes') = Len(codes)
      /\ \A k \in DOMAIN codes : codes'[k].attempts = codes[k].attempts
  BY <1>1, <1>4, <1>5, ExceptSeq
<1>7. NoVisit \in VisitState /\ NoVisit.code = 0 /\ NoVisit.at = "idle"
  BY DEF NoVisit, VisitState
<1>8. \A k \in DOMAIN codes :
        b \in Awaited[k] <=> NoVisit.code = k /\ NoVisit.at \in {"reading", "comparing"}
  BY <1>1, <1>7 DEF Awaited
<1>9. NoVisit.code \in 0 .. Len(codes)
  BY <1>1, <1>7
<1>. QED
  BY <1>5, <1>6, <1>7, <1>8, <1>9, VisitStep

LEMMA CodesInvStep == CodesInv /\ [CodesNext]_codeVars => CodesInv'
<1>. SUFFICES ASSUME CodesInv, [CodesNext]_codeVars PROVE CodesInv'
  OBVIOUS
<1>1. CASE UNCHANGED <<codes, visit, compared, signedIn>> /\ tick' \in 0 .. LastTick
  <2>1. Awaited' = Awaited
    BY <1>1 DEF Awaited
  <2>2. CodesTypeOK'
    BY <1>1 DEF CodesInv, CodesTypeOK
  <2>. QED
    BY <1>1, <2>1, <2>2 DEF CodesInv
<1>2. TickOn \/ UNCHANGED codeVars
        => UNCHANGED <<codes, visit, compared, signedIn>> /\ tick' \in 0 .. LastTick
  BY SignInAssumption DEF TickOn, codeVars, CodesInv, CodesTypeOK
<1>3. CASE \E b \in Browser : \/ AskForCode(b) \/ RetireCodes(b) \/ SendCode(b)
                              \/ \E right \in BOOLEAN : EnterCode(b, right)
                              \/ CountAttempt(b) \/ ReadAttempts(b)
                              \/ Compare(b) \/ SpendCode(b)
  BY <1>3, AskStep, RetireStep, SendStep, EnterStep, CountStep, ReadStep, SpendStep
<1>. QED
  BY <1>1, <1>2, <1>3 DEF CodesNext

LEMMA CodesInvAlways == CodesSpec => []CodesInv
  BY CodesInvInit, CodesInvStep, PTL DEF CodesSpec

\* Rows of one-time codes and requests under way keep their types, whichever
\* way the statements of issue() and verify() interleave: a request that is
\* past its first read names a code that exists (accounts/otp.py).
THEOREM CodesTypeCorrect == CodesSpec => []CodesTypeOK
<1>1. CodesInv => CodesTypeOK
  BY DEF CodesInv
<1>. QED
  BY <1>1, CodesInvAlways, PTL

\* Every entry compared with a code was counted against it first, for any
\* number of overlapping requests (accounts/otp.py:171).
THEOREM EveryEntryIsCounted == CodesSpec => []EveryEntryCounted
<1>1. CodesInv => EveryEntryCounted
  <2>. SUFFICES ASSUME CodesInv, NEW i \in DOMAIN codes
                PROVE  codes[i].attempts = compared[i]
                         + Cardinality({b \in Browser :
                             /\ visit[b].code = i
                             /\ visit[b].at \in {"reading", "comparing"}})
    BY DEF EveryEntryCounted
  <2>1. i \in Nat
    BY DEF CodesInv, CodesTypeOK
  <2>2. Awaited[i] = {b \in Browser : /\ visit[b].code = i
                                      /\ visit[b].at \in {"reading", "comparing"}}
    BY <2>1 DEF Awaited
  <2>. QED
    BY <2>2 DEF CodesInv
<1>. QED
  BY <1>1, CodesInvAlways, PTL

-----------------------------------------------------------------------------
(* The carts.                                                              *)

\* What is in the carts fits its rows, and was put there.
RowsKept ==
  /\ shelf \in [Ware -> Shelves]
  /\ guest \in [Ware -> 0 .. CartLimit] /\ owned \in [Ware -> 0 .. CartLimit]
  /\ put \in [Ware -> 0 .. MaxPut]
  /\ ~guestThere => \A w \in Ware : guest[w] = 0
  /\ NothingMergedTwice

RequestsKnown ==
  /\ request \in [Visit -> CartRequest] /\ wished \subseteq Ware
  /\ \A r \in Visit :
       request[r].at \in {"pressed", "moved"} => request[r].ware \in Ware

\* Rows that a request is yet to trim; the rows of a guest cart that has been
\* folded in are gone.
LateGuest(w) == {r \in Visit : /\ signed => guestThere
                               /\ request[r].at = "trimmingGuest"
                               /\ w \in request[r].over}
LateOwned(w) == {r \in Visit : /\ request[r].at = "trimming"
                               /\ w \in request[r].over}

\* What a row holds, or may be trimmed to.
GuestMay(w) == {guest[w]} \cup {request[r].ceiling[w] : r \in LateGuest(w)}
OwnedMay(w) == {owned[w]} \cup {request[r].ceiling[w] : r \in LateOwned(w)}

\* However the rows are trimmed, they hold no more than was put into them.
MayHold ==
  /\ \A w \in Ware : \A g \in GuestMay(w), o \in OwnedMay(w) : g + o <= put[w]
  /\ \A r \in Visit : request[r].at = "merging" => signed

CartsInv == RowsKept /\ RequestsKnown /\ MayHold

\* What is sellable in a row is a number up to the limit.
LEMMA CeilFits ==
  ASSUME RowsKept, NEW w \in Ware
  PROVE  /\ Ceil(w) \in 0 .. CartLimit
         /\ guest[w] \in 0 .. CartLimit /\ owned[w] \in 0 .. CartLimit
         /\ put[w] \in 0 .. MaxPut /\ guest[w] + owned[w] <= put[w]
<1>1. shelf[w] \in Nat
  BY CartsAssumption DEF RowsKept
<1>. QED
  BY <1>1, CartsAssumption DEF RowsKept, NothingMergedTwice, Ceil

\* A row of the account's cart changes, and what is added was put there.
LEMMA OwnedRowStep ==
  ASSUME RowsKept, NEW w \in Ware, NEW kept \in 0 .. CartLimit,
         NEW puts \in 0 .. MaxPut,
         owned' = [owned EXCEPT ![w] = kept], put' = [put EXCEPT ![w] = puts],
         guest[w] + kept <= puts, UNCHANGED <<shelf, guest, guestThere>>
  PROVE  RowsKept'
BY CartsAssumption DEF RowsKept, NothingMergedTwice

LEMMA PutInStep ==
  ASSUME RowsKept, NEW w \in Ware, NEW n \in 1 .. 2, Takes(w), PutIn(w, n),
         UNCHANGED <<shelf, guest, guestThere>>
  PROVE  RowsKept'
<1>. DEFINE final == AtMost(owned[w] + n, Ceil(w))
            puts == put[w] + final - owned[w]
<1>1. final \in 0 .. CartLimit /\ final > owned[w] /\ final <= owned[w] + n
  BY CeilFits, CartsAssumption DEF Takes, AtMost
<1>2. puts \in 0 .. MaxPut /\ guest[w] + final <= puts
  BY <1>1, CeilFits, CartsAssumption DEF PutIn
<1>3. owned' = [owned EXCEPT ![w] = final] /\ put' = [put EXCEPT ![w] = puts]
  BY DEF PutIn
<1>. HIDE DEF final, puts
<1>. QED
  BY <1>1, <1>2, <1>3, OwnedRowStep

LEMMA SetRowStep ==
  ASSUME RowsKept, NEW w \in Ware, NEW n \in Int, SetRow(w, n),
         UNCHANGED <<shelf, guest, guestThere>>
  PROVE  RowsKept'
<1>. DEFINE kept == Updated(w, n)
            puts == put[w] + IF kept > owned[w] THEN kept - owned[w] ELSE 0
<1>1. kept \in 0 .. CartLimit
  BY CeilFits, CartsAssumption DEF Updated, AtMost
<1>2. owned' = [owned EXCEPT ![w] = kept] /\ owned'[w] = kept
  BY DEF SetRow, RowsKept
<1>3. put' = [put EXCEPT ![w] = puts] /\ put'[w] = puts /\ puts <= MaxPut
  <2>1. put' = [put EXCEPT ![w] = puts]
    BY <1>2 DEF SetRow
  <2>2. put'[w] = puts
    BY <2>1 DEF RowsKept
  <2>. QED
    BY <2>1, <2>2 DEF SetRow
<1>4. puts \in 0 .. MaxPut /\ guest[w] + kept <= puts
  BY <1>1, <1>3, CeilFits, CartsAssumption
<1>. HIDE DEF kept, puts
<1>. QED
  BY <1>1, <1>2, <1>3, <1>4, OwnedRowStep

\* Rows of the account's cart only get smaller.
LEMMA LessOwnedStep ==
  ASSUME RowsKept, NEW kept \in [Ware -> 0 .. CartLimit], owned' = kept,
         \A w \in Ware : kept[w] <= owned[w], UNCHANGED <<guest, guestThere, put>>,
         shelf' \in [Ware -> Shelves]
  PROVE  RowsKept'
BY CartsAssumption DEF RowsKept, NothingMergedTwice

LEMMA AddAsGuestStep ==
  ASSUME RowsKept, NEW w \in Ware, NEW n \in 1 .. 2, AddAsGuest(w, n)
  PROVE  RowsKept'
<1>. DEFINE final == AtMost(guest[w] + n, Ceil(w))
            puts == put[w] + final - guest[w]
<1>1. final \in 0 .. CartLimit /\ final > guest[w] /\ final <= guest[w] + n
  BY CeilFits, CartsAssumption DEF AddAsGuest, AtMost
<1>2. puts \in 0 .. MaxPut /\ final + owned[w] <= puts
  BY <1>1, CeilFits, CartsAssumption DEF AddAsGuest
<1>3. /\ guest' = [guest EXCEPT ![w] = final] /\ put' = [put EXCEPT ![w] = puts]
      /\ guestThere' = TRUE /\ UNCHANGED <<shelf, owned>>
  BY DEF AddAsGuest
<1>. HIDE DEF final, puts
<1>. QED
  BY <1>1, <1>2, <1>3, CartsAssumption DEF RowsKept, NothingMergedTwice

\* The guest cart is folded in, and is gone.
LEMMA MergeStep ==
  ASSUME RowsKept, NEW r \in Visit, MergeCarts(r)
  PROVE  RowsKept'
<1>1. ASSUME NEW w \in Ware
      PROVE  Folded(w) \in 0 .. CartLimit /\ Folded(w) <= put[w]
  BY CeilFits, CartsAssumption DEF Folded, AtMost
<1>. DEFINE kept == [w \in Ware |-> Folded(w)]
            none == [w \in Ware |-> 0]
<1>2. kept \in [Ware -> 0 .. CartLimit] /\ \A w \in Ware : kept[w] <= put[w]
  BY <1>1
<1>3. none \in [Ware -> 0 .. CartLimit] /\ \A w \in Ware : none[w] = 0
  BY CartsAssumption
<1>4. owned' = kept /\ guest' = none /\ UNCHANGED <<shelf, put>>
  BY DEF MergeCarts
<1>. HIDE DEF kept, none
<1>. QED
  BY <1>2, <1>3, <1>4, CartsAssumption DEF RowsKept, NothingMergedTwice

\* A row that is trimmed late holds what it might have come to hold.
LEMMA MayBeTrimmed ==
  ASSUME RowsKept, RequestsKnown, NEW r \in Visit, NEW w \in Ware,
         w \in request[r].over
  PROVE  /\ request[r].ceiling[w] \in 0 .. CartLimit
         /\ request[r].at = "trimming" => request[r].ceiling[w] \in OwnedMay(w)
         /\ request[r].at = "trimmingGuest" /\ guest[w] # 0
              => request[r].ceiling[w] \in GuestMay(w)
BY DEF RowsKept, RequestsKnown, CartRequest, OwnedMay, GuestMay, LateOwned, LateGuest

LEMMA TrimStep ==
  ASSUME CartsInv, NEW r \in Visit, NEW w \in Ware, ClampRow(r, w)
  PROVE  RowsKept'
<1>. DEFINE most == request[r].ceiling[w]
<1>1. /\ w \in request[r].over /\ request[r].at \in {"trimming", "trimmingGuest"}
      /\ UNCHANGED <<shelf, guestThere, put>>
  BY DEF ClampRow, sessionVars
<1>2. most \in 0 .. CartLimit
  BY <1>1, MayBeTrimmed DEF CartsInv
<1>3. guest[w] \in GuestMay(w) /\ owned[w] \in OwnedMay(w)
  BY DEF GuestMay, OwnedMay
<1>4. CASE request[r].at = "trimming" /\ owned[w] # 0
  <2>1. owned' = [owned EXCEPT ![w] = most] /\ UNCHANGED guest
    BY <1>4 DEF ClampRow
  <2>2. guest[w] + most <= put[w]
    BY <1>1, <1>3, <1>4, MayBeTrimmed DEF CartsInv, MayHold
  <2>3. put' = [put EXCEPT ![w] = put[w]] /\ put[w] \in 0 .. MaxPut
    BY <1>1 DEF CartsInv, RowsKept
  <2>. QED
    BY <1>1, <1>2, <2>1, <2>2, <2>3, OwnedRowStep DEF CartsInv
<1>5. CASE request[r].at = "trimmingGuest" /\ guest[w] # 0
  <2>1. guest' = [guest EXCEPT ![w] = most] /\ UNCHANGED owned
    BY <1>5 DEF ClampRow
  <2>2. owned[w] + most <= put[w]
    BY <1>1, <1>2, <1>3, <1>5, MayBeTrimmed, CeilFits DEF CartsInv, MayHold
  <2>. QED
    BY <1>1, <1>2, <1>5, <2>1, <2>2, CartsAssumption
       DEF CartsInv, RowsKept, NothingMergedTwice
<1>6. CASE \/ request[r].at = "trimming" /\ owned[w] = 0
           \/ request[r].at = "trimmingGuest" /\ guest[w] = 0
  <2>1. UNCHANGED <<owned, guest>>
    BY <1>6 DEF ClampRow
  <2>. QED
    BY <1>1, <2>1 DEF CartsInv, RowsKept, NothingMergedTwice
<1>. QED
  BY <1>1, <1>4, <1>5, <1>6

LEMMA RowsKeptStep == CartsInv /\ [CartsNext]_cartVars => RowsKept'
<1>. SUFFICES ASSUME CartsInv, [CartsNext]_cartVars PROVE RowsKept'
  OBVIOUS
<1>0. RowsKept /\ RequestsKnown
  BY DEF CartsInv
<1>1. CASE UNCHANGED <<shelf, guest, owned, guestThere, put>>
  BY <1>0, <1>1 DEF RowsKept, NothingMergedTwice
<1>2. ASSUME NEW w \in Ware, NEW n \in 1 .. 2,
             AddAsGuest(w, n) \/ AddAsOwner(w, n) \/ UpdateQuantity(w, n - 1)
      PROVE  RowsKept'
  BY <1>0, <1>2, AddAsGuestStep, PutInStep, SetRowStep
     DEF AddAsOwner, UpdateQuantity, sessionVars
<1>3. ASSUME NEW w \in Ware, RemoveRow(w) PROVE RowsKept'
  <2>. DEFINE kept == [owned EXCEPT ![w] = 0]
  <2>1. kept \in [Ware -> 0 .. CartLimit] /\ \A v \in Ware : kept[v] <= owned[v]
    BY <1>0, CeilFits, CartsAssumption DEF RowsKept
  <2>2. owned' = kept /\ UNCHANGED <<shelf, guest, guestThere, put>>
    BY <1>3 DEF RemoveRow, sessionVars
  <2>. QED
    BY <1>0, <2>1, <2>2, LessOwnedStep DEF RowsKept
<1>4. ASSUME NEW w \in Ware, NEW n \in Shelves, ShelfChanges(w, n) PROVE RowsKept'
  BY <1>0, <1>4 DEF ShelfChanges, RowsKept, NothingMergedTwice, sessionVars
<1>5. ASSUME NEW r \in Visit, NEW w \in Ware, ClampRow(r, w) PROVE RowsKept'
  BY <1>0, <1>5, TrimStep DEF CartsInv
<1>6. ASSUME NEW r \in Visit, FinishButton(r) PROVE RowsKept'
  <2>1. request[r].ware \in Ware /\ request[r].quantity \in Int
    BY <1>0, <1>6 DEF RequestsKnown, CartRequest, FinishButton
  <2>2. CASE owned[request[r].ware] > 0
    BY <1>0, <1>6, <2>1, <2>2, SetRowStep DEF FinishButton, sessionVars
  <2>3. CASE ~(owned[request[r].ware] > 0)
    BY <1>1, <1>6, <2>3 DEF FinishButton, sessionVars
  <2>. QED
    BY <2>2, <2>3
<1>7. ASSUME NEW r \in Visit, NEW w \in Ware, MoveToCart(r, w) PROVE RowsKept'
  BY <1>0, <1>7, PutInStep DEF MoveToCart, sessionVars
<1>8. ASSUME NEW r \in Visit, MergeCarts(r) PROVE RowsKept'
  BY <1>0, <1>8, MergeStep
<1>9. ASSUME NEW w \in Ware, Wish(w) PROVE RowsKept'
  BY <1>1, <1>9 DEF Wish, sessionVars
<1>10. ASSUME NEW W, DropWishes(W) \/ \E r \in Visit : ReadWishes(r, W) PROVE RowsKept'
  BY <1>1, <1>10 DEF DropWishes, ReadWishes, sessionVars
<1>11. ASSUME Attach("code") \/ SignIn PROVE RowsKept'
  BY <1>1, <1>11 DEF Attach, SignIn
<1>12. ASSUME NEW r \in Visit,
              \/ \E w \in Ware, step \in {-1, 1} : PressButton(r, w, step)
              \/ \E w \in Ware : KeepWish(r, w)
              \/ DeleteWish(r) \/ FinishMoving(r) \/ ReadForClamp(r)
              \/ FindGuestCart(r) \/ MergeFails(r) \/ EndRequest(r)
       PROVE  RowsKept'
  BY <1>1, <1>12 DEF PressButton, KeepWish, DeleteWish, FinishMoving,
     ReadForClamp, FindGuestCart, MergeFails, EndRequest, sessionVars
<1>13. CASE UNCHANGED cartVars
  BY <1>1, <1>13 DEF cartVars
<1>. QED
  BY <1>2, <1>3, <1>4, <1>5, <1>6, <1>7, <1>8, <1>9, <1>10, <1>11, <1>12, <1>13
     DEF CartsNext

\* One request goes on.
LEMMA RequestStep ==
  ASSUME RequestsKnown, NEW r \in Visit, NEW new \in CartRequest,
         new.at \in {"pressed", "moved"} => new.ware \in Ware,
         request' = [request EXCEPT ![r] = new], wished' \subseteq Ware
  PROVE  RequestsKnown'
BY DEF RequestsKnown

\* Wishes go, and with them those of the requests that read them.
LEMMA DropStep ==
  ASSUME RequestsKnown, NEW W, wished' = wished \ W,
         NEW at \in [Visit -> RequestAt],
         \A r \in Visit : at[r] \in {"moving", request[r].at},
         request' = [v \in Visit |-> [request[v] EXCEPT !.rows = @ \ W, !.at = at[v]]]
  PROVE  RequestsKnown'
<1>1. ASSUME NEW v \in Visit
      PROVE  /\ request'[v] \in CartRequest
             /\ request'[v].at \in {"pressed", "moved"} => request'[v].ware \in Ware
  <2>. DEFINE new == [request[v] EXCEPT !.rows = @ \ W, !.at = at[v]]
  <2>1. request[v] \in CartRequest
    BY DEF RequestsKnown
  <2>2. new \in CartRequest /\ new.at = at[v] /\ new.ware = request[v].ware
    BY <2>1 DEF CartRequest
  <2>3. request'[v] = new
    OBVIOUS
  <2>. HIDE DEF new
  <2>4. at[v] \in {"pressed", "moved"} => request[v].ware \in Ware
    BY DEF RequestsKnown
  <2>. QED
    BY <2>2, <2>3, <2>4
<1>2. request' \in [Visit -> CartRequest]
  BY <1>1
<1>. QED
  BY <1>1, <1>2 DEF RequestsKnown

\* A request that trims a row ends there, or has one less to trim.
LEMMA TrimmedRequest ==
  ASSUME NEW r \in Visit, NEW w \in Ware, ClampRow(r, w)
  PROVE  \/ request' = [request EXCEPT ![r] = NoRequest]
         \/ request' = [request EXCEPT ![r] = [request[r] EXCEPT !.over = @ \ {w}]]
<1>. DEFINE left == request[r].over \ {w}
            cart == IF request[r].at = "trimming" THEN owned ELSE guest
            ends == left = {} \/ (cart[w] = 0 /\ request[r].ceiling[w] > 0)
<1>1. request' = [request EXCEPT ![r] = IF ends THEN NoRequest
                                        ELSE [request[r] EXCEPT !.over = left]]
  BY Zenon DEF ClampRow
<1>2. CASE ends
  BY <1>1, <1>2, Zenon
<1>3. CASE ~ends
  BY <1>1, <1>3, Zenon
<1>. QED
  BY <1>2, <1>3

LEMMA RequestsKnownStep == CartsInv /\ [CartsNext]_cartVars => RequestsKnown'
<1>. SUFFICES ASSUME CartsInv, [CartsNext]_cartVars PROVE RequestsKnown'
  OBVIOUS
<1>0. RowsKept /\ RequestsKnown
  BY DEF CartsInv
<1>1. CASE UNCHANGED request /\ wished' \subseteq Ware
  BY <1>0, <1>1 DEF RequestsKnown
<1>2. NoRequest \in CartRequest /\ NoRequest.at = "idle"
  BY CartsAssumption DEF NoRequest, CartRequest, RequestAt
<1>3. ASSUME NEW r \in Visit, NEW w \in Ware, NEW step \in {-1, 1},
             PressButton(r, w, step)
      PROVE  RequestsKnown'
  <2>. DEFINE new == [NoRequest EXCEPT !.at = "pressed", !.ware = w,
                                       !.quantity = owned[w] + step]
  <2>1. owned[w] + step \in Int
    BY <1>0, CeilFits
  <2>2. new \in CartRequest /\ new.ware = w
    BY <1>2, <2>1 DEF NoRequest, CartRequest, RequestAt
  <2>3. request' = [request EXCEPT ![r] = new] /\ wished' \subseteq Ware
    BY <1>0, <1>3 DEF PressButton, RequestsKnown
  <2>. HIDE DEF new
  <2>. QED
    BY <1>0, <2>2, <2>3, RequestStep
<1>4. ASSUME NEW r \in Visit, NEW W \in SUBSET Ware, ReadWishes(r, W)
      PROVE  RequestsKnown'
  <2>. DEFINE new == [NoRequest EXCEPT !.at = "moving", !.wishes = W, !.rows = W]
  <2>1. new \in CartRequest /\ new.at = "moving"
    BY <1>2 DEF CartRequest, RequestAt
  <2>2. request' = [request EXCEPT ![r] = new] /\ wished' \subseteq Ware
    BY <1>0, <1>4 DEF ReadWishes, RequestsKnown
  <2>. HIDE DEF new
  <2>. QED
    BY <1>0, <2>1, <2>2, RequestStep
<1>5. ASSUME NEW r \in Visit, NEW w \in Ware, MoveToCart(r, w)
      PROVE  RequestsKnown'
  <2>. DEFINE new == [request[r] EXCEPT !.at = "moved", !.ware = w,
                                        !.wishes = @ \ {w}]
  <2>1. request[r] \in CartRequest
    BY <1>0 DEF RequestsKnown
  <2>2. new \in CartRequest /\ new.ware = w
    BY <2>1 DEF CartRequest, RequestAt
  <2>3. request' = [request EXCEPT ![r] = new] /\ wished' \subseteq Ware
    BY <1>0, <1>5 DEF MoveToCart, RequestsKnown
  <2>. HIDE DEF new
  <2>. QED
    BY <1>0, <2>2, <2>3, RequestStep
<1>6. ASSUME NEW r \in Visit, NEW w \in Ware, KeepWish(r, w)
      PROVE  RequestsKnown'
  <2>. DEFINE new == [request[r] EXCEPT !.wishes = @ \ {w}]
  <2>1. request[r] \in CartRequest /\ request[r].at = "moving"
    BY <1>0, <1>6 DEF RequestsKnown, KeepWish
  <2>2. new \in CartRequest /\ new.at = "moving"
    BY <2>1 DEF CartRequest, RequestAt
  <2>3. request' = [request EXCEPT ![r] = new] /\ wished' \subseteq Ware
    BY <1>0, <1>6 DEF KeepWish, RequestsKnown
  <2>. HIDE DEF new
  <2>. QED
    BY <1>0, <2>2, <2>3, RequestStep
<1>7. ASSUME NEW r \in Visit, FindGuestCart(r) \/ MergeCarts(r) \/ MergeFails(r)
      PROVE  RequestsKnown'
  <2>1. request[r] \in CartRequest
    BY <1>0 DEF RequestsKnown
  <2>2. PICK at \in {"merging", "ending"} :
          request' = [request EXCEPT ![r] = [request[r] EXCEPT !.at = at]]
    BY <1>0, <1>7 DEF FindGuestCart, MergeCarts, MergeFails, RequestsKnown
  <2>. DEFINE new == [request[r] EXCEPT !.at = at]
  <2>3. new \in CartRequest /\ new.at = at
    BY <2>1 DEF CartRequest, RequestAt
  <2>4. request' = [request EXCEPT ![r] = new] /\ wished' \subseteq Ware
    BY <1>0, <1>7, <2>2 DEF FindGuestCart, MergeCarts, MergeFails, RequestsKnown
  <2>. HIDE DEF new
  <2>. QED
    BY <1>0, <2>3, <2>4, RequestStep
<1>8. ASSUME NEW r \in Visit, FinishButton(r) \/ FinishMoving(r) \/ EndRequest(r)
      PROVE  RequestsKnown'
  <2>1. request' = [request EXCEPT ![r] = NoRequest] /\ wished' \subseteq Ware
    BY <1>0, <1>8 DEF FinishButton, FinishMoving, EndRequest, RequestsKnown
  <2>. QED
    BY <1>0, <1>2, <2>1, RequestStep
<1>9. ASSUME NEW W, DropWishes(W) PROVE RequestsKnown'
  <2>. DEFINE at == [v \in Visit |-> request[v].at]
  <2>1. \A v \in Visit : request[v] \in CartRequest
    BY <1>0 DEF RequestsKnown
  <2>2. at \in [Visit -> RequestAt]
    BY <2>1 DEF CartRequest, RequestAt
  <2>3. \A v \in Visit : [request[v] EXCEPT !.rows = @ \ W]
                         = [request[v] EXCEPT !.rows = @ \ W, !.at = at[v]]
    BY <2>1 DEF CartRequest, RequestAt
  <2>4. request' = [v \in Visit |-> [request[v] EXCEPT !.rows = @ \ W, !.at = at[v]]]
    BY <1>9, <2>3 DEF DropWishes
  <2>5. \A v \in Visit : at[v] \in {"moving", request[v].at}
    OBVIOUS
  <2>. HIDE DEF at
  <2>. QED
    BY <1>0, <1>9, <2>2, <2>4, <2>5, DropStep DEF DropWishes
<1>10. ASSUME NEW r \in Visit, DeleteWish(r) PROVE RequestsKnown'
  <2>. DEFINE at == [v \in Visit |-> IF v = r THEN "moving" ELSE request[v].at]
              W == {request[r].ware} \cap request[r].rows
  <2>1. \A v \in Visit : request[v] \in CartRequest
    BY <1>0 DEF RequestsKnown
  <2>2. at \in [Visit -> RequestAt]
    BY <2>1 DEF CartRequest, RequestAt
  <2>3. /\ request' = [v \in Visit |-> [request[v] EXCEPT !.rows = @ \ W, !.at = at[v]]]
        /\ wished' = wished \ W
    BY <1>10 DEF DeleteWish
  <2>4. \A v \in Visit : at[v] \in {"moving", request[v].at}
    OBVIOUS
  <2>. HIDE DEF at, W
  <2>. QED
    BY <1>0, <2>2, <2>3, <2>4, DropStep
<1>11. ASSUME NEW w \in Ware,
              \/ \E n \in 1 .. 2 : \/ AddAsGuest(w, n) \/ AddAsOwner(w, n)
                                   \/ UpdateQuantity(w, n - 1)
              \/ RemoveRow(w) \/ (\E n \in Shelves : ShelfChanges(w, n)) \/ Wish(w)
       PROVE  RequestsKnown'
  BY <1>0, <1>1, <1>11 DEF AddAsGuest, AddAsOwner, UpdateQuantity, RemoveRow,
     ShelfChanges, Wish, RequestsKnown
<1>12. ASSUME Attach("code") \/ SignIn PROVE RequestsKnown'
  BY <1>0, <1>1, <1>12 DEF Attach, SignIn, RequestsKnown
<1>13. CASE UNCHANGED cartVars
  BY <1>0, <1>1, <1>13 DEF cartVars, RequestsKnown
<1>14. \A W \in {{w} : w \in wished} \cup {wished} : W \in SUBSET Ware
  BY <1>0 DEF RequestsKnown
<1>15. ASSUME NEW r \in Visit, ReadForClamp(r) PROVE RequestsKnown'
  <2>. DEFINE cart == IF signed THEN owned ELSE guest
              new == [NoRequest EXCEPT
                        !.at = IF signed THEN "trimming" ELSE "trimmingGuest",
                        !.over = {w \in Ware : cart[w] > Ceil(w)},
                        !.ceiling = [w \in Ware |-> Ceil(w)]]
  <2>1. [w \in Ware |-> Ceil(w)] \in [Ware -> 0 .. CartLimit]
    BY <1>0, CeilFits
  <2>2. new \in CartRequest /\ new.at \in {"trimming", "trimmingGuest"}
    <3>. DEFINE ceilings == [w \in Ware |-> Ceil(w)]
                at == IF signed THEN "trimming" ELSE "trimmingGuest"
                over == {w \in Ware : cart[w] > Ceil(w)}
    <3>1. /\ ceilings \in [Ware -> 0 .. CartLimit] /\ over \subseteq Ware
          /\ at \in {"trimming", "trimmingGuest"}
      BY <2>1
    <3>2. new = [NoRequest EXCEPT !.at = at, !.over = over, !.ceiling = ceilings]
      BY Zenon
    <3>. HIDE DEF ceilings, at, over, new
    <3>. QED
      BY <1>2, <3>1, <3>2 DEF CartRequest, RequestAt
  <2>3. request' = [request EXCEPT ![r] = new] /\ wished' \subseteq Ware
    BY <1>0, <1>15 DEF ReadForClamp, RequestsKnown
  <2>. HIDE DEF new
  <2>. QED
    BY <1>0, <2>2, <2>3, RequestStep
<1>16. ASSUME NEW r \in Visit, NEW w \in Ware, ClampRow(r, w) PROVE RequestsKnown'
  <2>1. request[r] \in CartRequest /\ request[r].at \in {"trimming", "trimmingGuest"}
    BY <1>0, <1>16 DEF RequestsKnown, ClampRow
  <2>. DEFINE shorter == [request[r] EXCEPT !.over = @ \ {w}]
  <2>2. shorter \in CartRequest /\ shorter.at = request[r].at
    BY <2>1 DEF CartRequest, RequestAt
  <2>3. \/ request' = [request EXCEPT ![r] = NoRequest]
        \/ request' = [request EXCEPT ![r] = shorter]
    BY <1>16, TrimmedRequest
  <2>4. wished' \subseteq Ware
    BY <1>0, <1>16 DEF ClampRow, RequestsKnown
  <2>. HIDE DEF shorter
  <2>. QED
    BY <1>0, <1>2, <2>1, <2>2, <2>3, <2>4, RequestStep
<1>. QED
  BY <1>3, <1>4, <1>5, <1>6, <1>7, <1>8, <1>9, <1>10, <1>11, <1>12, <1>13, <1>14,
     <1>15, <1>16 DEF CartsNext

\* Rows hold more only by what is put in, and no row is newly to be trimmed.
LEMMA QuietCartStep ==
  ASSUME CartsInv, RowsKept', RequestsKnown',
         \A w \in Ware : \E g, o \in Nat :
           /\ put'[w] = put[w] + g + o
           /\ guest'[w] <= guest[w] + g /\ owned'[w] <= owned[w] + o,
         (signed' => guestThere') => (signed => guestThere),
         \A r \in Visit :
           /\ request'[r].at \in {"trimming", "trimmingGuest"} =>
                /\ request'[r].at = request[r].at
                /\ request'[r].over \subseteq request[r].over
                /\ request'[r].ceiling = request[r].ceiling
           /\ request'[r].at = "merging" => signed'
  PROVE  MayHold'
<1>1. ASSUME NEW w \in Ware, NEW g \in GuestMay(w)', NEW o \in OwnedMay(w)'
      PROVE  g + o <= put'[w]
  <2>1. PICK dg \in Nat, do \in Nat :
          /\ put'[w] = put[w] + dg + do
          /\ guest'[w] <= guest[w] + dg /\ owned'[w] <= owned[w] + do
    OBVIOUS
  <2>2. /\ \A r \in LateGuest(w)' : r \in LateGuest(w)
                                    /\ request'[r].ceiling[w] = request[r].ceiling[w]
        /\ \A r \in LateOwned(w)' : r \in LateOwned(w)
                                    /\ request'[r].ceiling[w] = request[r].ceiling[w]
    BY DEF LateGuest, LateOwned
  <2>3. /\ GuestMay(w) \subseteq 0 .. CartLimit /\ OwnedMay(w) \subseteq 0 .. CartLimit
        /\ guest[w] \in GuestMay(w) /\ owned[w] \in OwnedMay(w)
    BY DEF CartsInv, RowsKept, RequestsKnown, CartRequest, GuestMay, OwnedMay,
       LateGuest, LateOwned
  <2>4. guest'[w] \in 0 .. CartLimit /\ owned'[w] \in 0 .. CartLimit
    BY DEF RowsKept
  <2>5. PICK h \in GuestMay(w) : g <= h + dg /\ g \in Int
    <3>1. CASE g = guest'[w]
      BY <2>1, <2>3, <2>4, <3>1, CartsAssumption
    <3>2. CASE \E r \in LateGuest(w)' : g = request'[r].ceiling[w]
      <4>1. g \in GuestMay(w)
        BY <2>2, <3>2 DEF GuestMay
      <4>. QED
        BY <2>3, <4>1, CartsAssumption
    <3>. QED
      BY <3>1, <3>2 DEF GuestMay
  <2>6. PICK k \in OwnedMay(w) : o <= k + do /\ o \in Int
    <3>1. CASE o = owned'[w]
      BY <2>1, <2>3, <2>4, <3>1, CartsAssumption
    <3>2. CASE \E r \in LateOwned(w)' : o = request'[r].ceiling[w]
      <4>1. o \in OwnedMay(w)
        BY <2>2, <3>2 DEF OwnedMay
      <4>. QED
        BY <2>3, <4>1, CartsAssumption
    <3>. QED
      BY <3>1, <3>2 DEF OwnedMay
  <2>7. h + k <= put[w] /\ h \in Int /\ k \in Int /\ put[w] \in Int
    BY <2>3, CartsAssumption DEF CartsInv, MayHold, RowsKept
  <2>. QED
    BY <2>1, <2>5, <2>6, <2>7
<1>. QED
  BY <1>1 DEF MayHold

\* A row is trimmed: it holds what it might have come to hold.
LEMMA TrimMayStep ==
  ASSUME CartsInv, NEW r \in Visit, NEW w \in Ware, ClampRow(r, w)
  PROVE  MayHold'
<1>. DEFINE most == request[r].ceiling[w]
<1>1. /\ w \in request[r].over /\ request[r].at \in {"trimming", "trimmingGuest"}
      /\ UNCHANGED <<shelf, guestThere, put, signed>>
  BY DEF ClampRow, sessionVars
<1>2. ASSUME NEW q \in Visit
      PROVE  /\ request'[q].at \in {"idle", request[q].at}
             /\ request'[q].at \in {"trimming", "trimmingGuest"} =>
                  /\ request'[q].over \subseteq request[q].over
                  /\ request'[q].ceiling = request[q].ceiling
  <2>. DEFINE less == [request[r] EXCEPT !.over = @ \ {w}]
  <2>1. /\ request \in [Visit -> CartRequest] /\ request[r] \in CartRequest
        /\ NoRequest.at = "idle"
    BY DEF CartsInv, RequestsKnown, NoRequest
  <2>2. /\ less.at = request[r].at /\ less.ceiling = request[r].ceiling
        /\ less.over \subseteq request[r].over
    BY <2>1 DEF CartRequest
  <2>3. \/ request' = [request EXCEPT ![r] = NoRequest]
        \/ request' = [request EXCEPT ![r] = less]
    BY TrimmedRequest
  <2>. HIDE DEF less
  <2>. QED
    BY <2>1, <2>2, <2>3
<1>3. ASSUME NEW v \in Ware
      PROVE  /\ LateGuest(v)' \subseteq LateGuest(v) /\ LateOwned(v)' \subseteq LateOwned(v)
             /\ \A q \in LateGuest(v)' \cup LateOwned(v)' :
                  request'[q].ceiling[v] = request[q].ceiling[v]
  BY <1>1, <1>2 DEF LateGuest, LateOwned
<1>4. /\ guest \in [Ware -> 0 .. CartLimit] /\ owned \in [Ware -> 0 .. CartLimit]
      /\ RowsKept /\ RequestsKnown
  BY DEF CartsInv, RowsKept
<1>5. ASSUME NEW v \in Ware
      PROVE  guest'[v] \in GuestMay(v) /\ owned'[v] \in OwnedMay(v)
  <2>1. guest[v] \in GuestMay(v) /\ owned[v] \in OwnedMay(v)
    BY DEF GuestMay, OwnedMay
  <2>2. CASE request[r].at = "trimming" /\ owned[w] # 0
    <3>1. owned' = [owned EXCEPT ![w] = most] /\ UNCHANGED guest
      BY <2>2 DEF ClampRow
    <3>2. most \in OwnedMay(w)
      BY <1>1, <1>4, <2>2, MayBeTrimmed
    <3>. HIDE DEF most
    <3>. QED
      BY <1>4, <2>1, <3>1, <3>2
  <2>3. CASE request[r].at = "trimmingGuest" /\ guest[w] # 0
    <3>1. guest' = [guest EXCEPT ![w] = most] /\ UNCHANGED owned
      BY <2>3 DEF ClampRow
    <3>2. most \in GuestMay(w)
      BY <1>1, <1>4, <2>3, MayBeTrimmed
    <3>. HIDE DEF most
    <3>. QED
      BY <1>4, <2>1, <3>1, <3>2
  <2>4. CASE \/ request[r].at = "trimming" /\ owned[w] = 0
             \/ request[r].at = "trimmingGuest" /\ guest[w] = 0
    <3>1. UNCHANGED <<owned, guest>>
      BY <2>4 DEF ClampRow
    <3>. QED
      BY <2>1, <3>1
  <2>. QED
    BY <1>1, <2>2, <2>3, <2>4
<1>6. ASSUME NEW v \in Ware
      PROVE  GuestMay(v)' \subseteq GuestMay(v) /\ OwnedMay(v)' \subseteq OwnedMay(v)
  <2>1. ASSUME NEW g \in GuestMay(v)' PROVE g \in GuestMay(v)
    BY <1>3, <1>5, <2>1 DEF GuestMay
  <2>2. ASSUME NEW o \in OwnedMay(v)' PROVE o \in OwnedMay(v)
    BY <1>3, <1>5, <2>2 DEF OwnedMay
  <2>. QED
    BY <2>1, <2>2
<1>7. \A q \in Visit : request'[q].at = "merging" => signed'
  BY <1>1, <1>2 DEF CartsInv, MayHold
<1>. QED
  BY <1>1, <1>6, <1>7 DEF CartsInv, MayHold

\* The guest cart is gone, and what was in it is in the account's.
LEMMA MergeMayStep ==
  ASSUME CartsInv, RequestsKnown', NEW r \in Visit, MergeCarts(r)
  PROVE  MayHold'
<1>1. request[r].at = "merging" /\ signed
  BY DEF CartsInv, MayHold, MergeCarts
<1>2. /\ guest' = [w \in Ware |-> 0] /\ owned' = [w \in Ware |-> Folded(w)]
      /\ guestThere' = FALSE /\ UNCHANGED <<put, signed>>
      /\ request' = [request EXCEPT ![r].at = "ending"]
  BY DEF MergeCarts
<1>3. ASSUME NEW q \in Visit
      PROVE  /\ request'[q].at \in {"ending", request[q].at}
             /\ request'[q].over = request[q].over
             /\ request'[q].ceiling = request[q].ceiling
  BY <1>2 DEF CartsInv, RequestsKnown, CartRequest
<1>4. ASSUME NEW w \in Ware
      PROVE  /\ GuestMay(w)' = {0} /\ put[w] \in Int
             /\ \A o \in OwnedMay(w)' : o \in Int /\ o <= put[w]
  <2>1. LateGuest(w)' = {} /\ LateOwned(w)' \subseteq LateOwned(w)
    BY <1>1, <1>2, <1>3 DEF LateGuest, LateOwned
  <2>2. GuestMay(w)' = {0}
    BY <1>2, <2>1 DEF GuestMay
  <2>3. /\ guest[w] \in 0 .. CartLimit /\ owned[w] \in 0 .. CartLimit
        /\ put[w] \in 0 .. MaxPut /\ Ceil(w) \in 0 .. CartLimit
        /\ guest[w] + owned[w] <= put[w]
    BY CeilFits DEF CartsInv
  <2>4. Folded(w) \in Int /\ Folded(w) <= put[w]
    BY <2>3, CartsAssumption DEF Folded, AtMost
  <2>5. ASSUME NEW q \in LateOwned(w)'
        PROVE  request'[q].ceiling[w] \in Int /\ request'[q].ceiling[w] <= put[w]
    <3>1. q \in LateOwned(w) /\ q \in Visit
      BY <2>1, <2>5 DEF LateOwned
    <3>2. request[q].ceiling[w] \in OwnedMay(w) /\ guest[w] \in GuestMay(w)
      BY <3>1 DEF OwnedMay, GuestMay
    <3>3. guest[w] + request[q].ceiling[w] <= put[w]
      BY <3>2 DEF CartsInv, MayHold
    <3>4. request[q].ceiling[w] \in 0 .. CartLimit
      BY <3>1 DEF CartsInv, RequestsKnown, CartRequest
    <3>. QED
      BY <1>3, <2>3, <3>1, <3>3, <3>4, CartsAssumption
  <2>6. owned'[w] = Folded(w)
    BY <1>2
  <2>. QED
    BY <2>2, <2>3, <2>4, <2>5, <2>6 DEF OwnedMay
<1>5. \A q \in Visit : request'[q].at = "merging" => signed'
  BY <1>1, <1>2
<1>. QED
  BY <1>2, <1>4, <1>5 DEF MayHold

\* What is read as sellable is less than the row holds.
LEMMA ReadMayStep ==
  ASSUME CartsInv, RequestsKnown', NEW r \in Visit, ReadForClamp(r)
  PROVE  MayHold'
<1>. DEFINE cart == IF signed THEN owned ELSE guest
            new == [NoRequest EXCEPT
                      !.at = IF signed THEN "trimming" ELSE "trimmingGuest",
                      !.over = {w \in Ware : cart[w] > Ceil(w)},
                      !.ceiling = [w \in Ware |-> Ceil(w)]]
<1>1. /\ request' = [request EXCEPT ![r] = new]
      /\ UNCHANGED <<guest, owned, put, signed, guestThere>>
  BY DEF ReadForClamp, sessionVars
<1>2. /\ new.at = IF signed THEN "trimming" ELSE "trimmingGuest"
      /\ new.over = {w \in Ware : cart[w] > Ceil(w)}
      /\ new.ceiling = [w \in Ware |-> Ceil(w)]
  BY DEF NoRequest
<1>. HIDE DEF new
<1>3. request \in [Visit -> CartRequest]
  BY DEF CartsInv, RequestsKnown
<1>4. \A q \in Visit \ {r} : request'[q] = request[q]
  BY <1>1, <1>3
<1>5. request'[r] = new
  BY <1>1, <1>3
<1>6. ASSUME NEW w \in Ware
      PROVE  /\ guest[w] \in GuestMay(w) /\ GuestMay(w) \subseteq Int
             /\ owned[w] \in OwnedMay(w) /\ OwnedMay(w) \subseteq Int
             /\ Ceil(w) \in Int /\ put[w] \in Int
  <2>1. /\ guest[w] \in 0 .. CartLimit /\ owned[w] \in 0 .. CartLimit
        /\ Ceil(w) \in 0 .. CartLimit /\ put[w] \in 0 .. MaxPut
    BY CeilFits DEF CartsInv
  <2>2. \A q \in Visit : request[q].ceiling[w] \in 0 .. CartLimit
    BY <1>3 DEF CartRequest
  <2>. QED
    BY <2>1, <2>2 DEF GuestMay, OwnedMay, LateGuest, LateOwned
<1>7. ASSUME NEW w \in Ware, NEW g \in GuestMay(w)'
      PROVE  \E h \in GuestMay(w) : g \in Int /\ g <= h
  <2>1. CASE g = guest'[w]
    BY <1>1, <1>6, <2>1
  <2>2. CASE \E q \in LateGuest(w)' : g = request'[q].ceiling[w]
    <3>1. PICK q \in LateGuest(w)' : g = request'[q].ceiling[w]
      BY <2>2
    <3>2. CASE q = r
      <4>1. ~signed /\ g = Ceil(w) /\ guest[w] > Ceil(w)
        BY <1>1, <1>2, <1>5, <3>1, <3>2 DEF LateGuest
      <4>. QED
        BY <1>6, <4>1
    <3>3. CASE q # r
      <4>1. q \in LateGuest(w) /\ g = request[q].ceiling[w]
        BY <1>1, <1>4, <3>1, <3>3 DEF LateGuest
      <4>2. g \in GuestMay(w)
        BY <4>1 DEF GuestMay
      <4>. QED
        BY <1>6, <4>2
    <3>. QED
      BY <3>2, <3>3
  <2>. QED
    BY <2>1, <2>2 DEF GuestMay
<1>8. ASSUME NEW w \in Ware, NEW o \in OwnedMay(w)'
      PROVE  \E h \in OwnedMay(w) : o \in Int /\ o <= h
  <2>1. CASE o = owned'[w]
    BY <1>1, <1>6, <2>1
  <2>2. CASE \E q \in LateOwned(w)' : o = request'[q].ceiling[w]
    <3>1. PICK q \in LateOwned(w)' : o = request'[q].ceiling[w]
      BY <2>2
    <3>2. CASE q = r
      <4>1. signed /\ o = Ceil(w) /\ owned[w] > Ceil(w)
        BY <1>1, <1>2, <1>5, <3>1, <3>2 DEF LateOwned
      <4>. QED
        BY <1>6, <4>1
    <3>3. CASE q # r
      <4>1. q \in LateOwned(w) /\ o = request[q].ceiling[w]
        BY <1>1, <1>4, <3>1, <3>3 DEF LateOwned
      <4>2. o \in OwnedMay(w)
        BY <4>1 DEF OwnedMay
      <4>. QED
        BY <1>6, <4>2
    <3>. QED
      BY <3>2, <3>3
  <2>. QED
    BY <2>1, <2>2 DEF OwnedMay
<1>9. ASSUME NEW w \in Ware, NEW g \in GuestMay(w)', NEW o \in OwnedMay(w)'
      PROVE  g + o <= put'[w]
  <2>1. PICK h \in GuestMay(w) : g \in Int /\ g <= h
    BY <1>7
  <2>2. PICK k \in OwnedMay(w) : o \in Int /\ o <= k
    BY <1>8
  <2>3. h + k <= put[w] /\ h \in Int /\ k \in Int /\ put[w] \in Int
    BY <1>6 DEF CartsInv, MayHold
  <2>. QED
    BY <1>1, <2>1, <2>2, <2>3
<1>10. \A q \in Visit : request'[q].at = "merging" => signed'
  BY <1>1, <1>2, <1>4, <1>5 DEF CartsInv, MayHold
<1>. QED
  BY <1>9, <1>10 DEF MayHold

LEMMA MayHoldStep == CartsInv /\ [CartsNext]_cartVars => MayHold'
<1>. SUFFICES ASSUME CartsInv, [CartsNext]_cartVars PROVE MayHold'
  OBVIOUS
<1>0. RowsKept /\ RequestsKnown /\ MayHold /\ RowsKept' /\ RequestsKnown'
  BY RowsKeptStep, RequestsKnownStep DEF CartsInv
<1>. DEFINE Bigger(w) == \E g, o \in Nat :
              /\ put'[w] = put[w] + g + o
              /\ guest'[w] <= guest[w] + g /\ owned'[w] <= owned[w] + o
            Asks(r) ==
              /\ request'[r].at \in {"trimming", "trimmingGuest"} =>
                   /\ request'[r].at = request[r].at
                   /\ request'[r].over \subseteq request[r].over
                   /\ request'[r].ceiling = request[r].ceiling
              /\ request'[r].at = "merging" => signed'
<1>1. \A w \in Ware : guest[w] \in Nat /\ owned[w] \in Nat /\ put[w] \in Nat
  BY <1>0, CartsAssumption DEF RowsKept
<1>2. ASSUME UNCHANGED <<guest, owned, put>> PROVE \A w \in Ware : Bigger(w)
  <2>1. SUFFICES ASSUME NEW w \in Ware PROVE Bigger(w)
    OBVIOUS
  <2>2. guest[w] <= guest[w] + 0 /\ owned[w] <= owned[w] + 0 /\ put[w] = put[w] + 0 + 0
    BY <1>1
  <2>3. /\ put'[w] = put[w] + 0 + 0
        /\ guest'[w] <= guest[w] + 0 /\ owned'[w] <= owned[w] + 0
    BY <1>2, <2>2
  <2>. QED
    BY <2>3
<1>3. ASSUME UNCHANGED <<request, signed>> PROVE \A r \in Visit : Asks(r)
  BY <1>0, <1>3 DEF MayHold
<1>4. ASSUME NEW r \in Visit, NEW new, request' = [request EXCEPT ![r] = new],
             new.at \notin {"trimming", "trimmingGuest"},
             new.at = "merging" => signed, UNCHANGED signed
      PROVE  \A q \in Visit : Asks(q)
  BY <1>0, <1>4 DEF MayHold, RequestsKnown
<1>5. ASSUME \A w \in Ware : Bigger(w), \A r \in Visit : Asks(r),
             (signed' => guestThere') => (signed => guestThere)
      PROVE  MayHold'
  <2>1. \A w \in Ware : \E g, o \in Nat :
          /\ put'[w] = put[w] + g + o
          /\ guest'[w] <= guest[w] + g /\ owned'[w] <= owned[w] + o
    BY <1>5, Zenon
  <2>2. \A r \in Visit :
          /\ request'[r].at \in {"trimming", "trimmingGuest"} =>
               /\ request'[r].at = request[r].at
               /\ request'[r].over \subseteq request[r].over
               /\ request'[r].ceiling = request[r].ceiling
          /\ request'[r].at = "merging" => signed'
    BY <1>5, Zenon
  <2>. HIDE DEF Bigger, Asks
  <2>. QED
    BY <1>0, <1>5, <2>1, <2>2, QuietCartStep
<1>6. NoRequest.at = "idle"
  BY DEF NoRequest
<1>7. ASSUME NEW w \in Ware, NEW n \in Int, UNCHANGED guest,
             (PutIn(w, n) /\ Takes(w)) \/ SetRow(w, n), n \in Nat \/ SetRow(w, n)
      PROVE  \A v \in Ware : Bigger(v)
  <2>1. PICK o \in Nat : /\ put' = [put EXCEPT ![w] = @ + o]
                         /\ owned'[w] <= owned[w] + o
                         /\ \A v \in Ware \ {w} : owned'[v] = owned[v]
    <3>1. CASE PutIn(w, n) /\ Takes(w) /\ n \in Nat
      <4>. DEFINE final == AtMost(owned[w] + n, Ceil(w))
      <4>1. final \in Nat /\ final - owned[w] \in Nat
        BY <1>0, <3>1, CeilFits, CartsAssumption DEF Takes, AtMost
      <4>2. /\ owned' = [owned EXCEPT ![w] = final]
            /\ put' = [put EXCEPT ![w] = put[w] + final - owned[w]]
        BY <3>1 DEF PutIn
      <4>3. put[w] + final - owned[w] = put[w] + (final - owned[w])
        BY <1>1, <4>1
      <4>. HIDE DEF final
      <4>4. owned'[w] = final /\ \A v \in Ware \ {w} : owned'[v] = owned[v]
        BY <1>0, <4>2 DEF RowsKept
      <4>. DEFINE more == final - owned[w]
      <4>5. put' = [put EXCEPT ![w] = @ + more]
        BY <4>2, <4>3
      <4>6. more \in Nat /\ owned'[w] <= owned[w] + more
        BY <1>1, <4>1, <4>4
      <4>. HIDE DEF more
      <4>. QED
        BY <4>4, <4>5, <4>6
    <3>2. CASE SetRow(w, n)
      <4>. DEFINE more == IF owned'[w] > owned[w] THEN owned'[w] - owned[w] ELSE 0
      <4>1. owned'[w] \in Nat
        BY <1>0, CartsAssumption DEF RowsKept
      <4>2. more \in Nat /\ owned'[w] <= owned[w] + more
        BY <1>1, <4>1
      <4>3. put' = [put EXCEPT ![w] = @ + more]
        BY <3>2 DEF SetRow
      <4>4. \A v \in Ware \ {w} : owned'[v] = owned[v]
        BY <1>0, <3>2 DEF SetRow, RowsKept
      <4>. HIDE DEF more
      <4>. QED
        BY <4>2, <4>3, <4>4
    <3>. QED
      BY <1>7, <3>1, <3>2
  <2>2. ASSUME NEW v \in Ware PROVE Bigger(v)
    <3>1. put'[v] = put[v] + (IF v = w THEN o ELSE 0)
      BY <1>0, <1>1, <2>1 DEF RowsKept
    <3>2. owned'[v] <= owned[v] + (IF v = w THEN o ELSE 0)
      BY <1>1, <2>1
    <3>3. guest'[v] <= guest[v] + 0 /\ 0 \in Nat
      BY <1>1, <1>7
    <3>. QED
      BY <1>1, <2>1, <3>1, <3>2, <3>3
  <2>. QED
    BY <2>2
<1>8. ASSUME NEW w \in Ware, NEW n \in 1 .. 2, AddAsGuest(w, n) PROVE MayHold'
  <2>. DEFINE final == AtMost(guest[w] + n, Ceil(w))
  <2>1. final \in Nat /\ final - guest[w] \in Nat
    BY <1>0, <1>8, CeilFits, CartsAssumption DEF AddAsGuest, AtMost
  <2>2. /\ guest' = [guest EXCEPT ![w] = final]
        /\ put' = [put EXCEPT ![w] = put[w] + final - guest[w]]
        /\ ~signed /\ UNCHANGED <<owned, request, signed>>
    BY <1>8 DEF AddAsGuest
  <2>. HIDE DEF final
  <2>3. ASSUME NEW v \in Ware PROVE Bigger(v)
    <3>1. put'[v] = put[v] + (IF v = w THEN final - guest[w] ELSE 0) + 0
      BY <1>0, <1>1, <2>1, <2>2 DEF RowsKept
    <3>2. guest'[v] <= guest[v] + (IF v = w THEN final - guest[w] ELSE 0)
      BY <1>0, <1>1, <2>1, <2>2 DEF RowsKept
    <3>3. owned'[v] <= owned[v] + 0 /\ 0 \in Nat
      BY <1>1, <2>2
    <3>. QED
      BY <2>1, <3>1, <3>2, <3>3
  <2>. QED
    BY <1>3, <1>5, <2>2, <2>3
<1>9. ASSUME NEW w \in Ware, NEW n \in 1 .. 2,
             AddAsOwner(w, n) \/ UpdateQuantity(w, n - 1)
      PROVE  MayHold'
  <2>1. /\ UNCHANGED <<guest, request, signed, guestThere>>
        /\ (PutIn(w, n) /\ Takes(w)) \/ SetRow(w, n - 1)
    BY <1>9 DEF AddAsOwner, UpdateQuantity, sessionVars
  <2>2. \A v \in Ware : Bigger(v)
    BY <1>7, <2>1
  <2>. QED
    BY <1>3, <1>5, <2>1, <2>2
<1>10. ASSUME NEW w \in Ware, RemoveRow(w) PROVE MayHold'
  <2>1. /\ UNCHANGED <<guest, put, request, signed, guestThere>>
        /\ owned' = [owned EXCEPT ![w] = 0]
    BY <1>10 DEF RemoveRow, sessionVars
  <2>2. ASSUME NEW v \in Ware PROVE Bigger(v)
    <3>1. owned'[v] <= owned[v] + 0
      BY <1>0, <1>1, <2>1 DEF RowsKept
    <3>2. put'[v] = put[v] + 0 + 0 /\ guest'[v] <= guest[v] + 0 /\ 0 \in Nat
      BY <1>1, <2>1
    <3>. QED
      BY <3>1, <3>2
  <2>. QED
    BY <1>3, <1>5, <2>1, <2>2
<1>11. ASSUME NEW r \in Visit, FinishButton(r) PROVE MayHold'
  <2>1. request[r].ware \in Ware /\ request[r].quantity \in Int
    BY <1>0, <1>11 DEF RequestsKnown, CartRequest, FinishButton
  <2>2. /\ UNCHANGED <<guest, signed, guestThere>>
        /\ request' = [request EXCEPT ![r] = NoRequest]
        /\ SetRow(request[r].ware, request[r].quantity) \/ UNCHANGED <<owned, put>>
    BY <1>11 DEF FinishButton, sessionVars
  <2>3. \A v \in Ware : Bigger(v)
    BY <1>2, <1>7, <2>1, <2>2
  <2>. QED
    BY <1>4, <1>5, <1>6, <2>2, <2>3
<1>12. ASSUME NEW r \in Visit, NEW w \in Ware, MoveToCart(r, w) PROVE MayHold'
  <2>. DEFINE new == [request[r] EXCEPT !.at = "moved", !.ware = w,
                                        !.wishes = @ \ {w}]
  <2>1. /\ UNCHANGED <<guest, signed, guestThere>> /\ PutIn(w, 1) /\ Takes(w)
        /\ request' = [request EXCEPT ![r] = new]
    BY <1>0, <1>12 DEF MoveToCart, sessionVars, RequestsKnown
  <2>2. new.at = "moved"
    BY <1>0 DEF RequestsKnown, CartRequest
  <2>. HIDE DEF new
  <2>3. \A v \in Ware : Bigger(v)
    BY <1>7, <2>1
  <2>. QED
    BY <1>4, <1>5, <2>1, <2>2, <2>3
<1>13. ASSUME NEW r \in Visit, MergeCarts(r) \/ ReadForClamp(r)
                               \/ \E w \in Ware : ClampRow(r, w)
       PROVE  MayHold'
  BY <1>0, <1>13, MergeMayStep, ReadMayStep, TrimMayStep
<1>14. ASSUME \/ \E w \in Ware : Wish(w) \/ \E n \in Shelves : ShelfChanges(w, n)
              \/ Attach("code") \/ SignIn \/ UNCHANGED cartVars
       PROVE  MayHold'
  <2>1. /\ UNCHANGED <<guest, owned, put, request, guestThere>>
        /\ signed => signed'
    BY <1>14 DEF Wish, ShelfChanges, Attach, SignIn, cartVars, sessionVars
  <2>2. \A r \in Visit : Asks(r)
    BY <1>0, <2>1 DEF Asks, MayHold
  <2>. QED
    BY <1>2, <1>5, <2>1, <2>2
<1>15. ASSUME NEW W, DropWishes(W) \/ \E r \in Visit : DeleteWish(r) PROVE MayHold'
  <2>1. UNCHANGED <<guest, owned, put, signed, guestThere>>
    BY <1>15 DEF DropWishes, DeleteWish, sessionVars
  <2>2. ASSUME NEW v \in Visit
        PROVE  /\ request'[v].at \in {"moving", request[v].at}
               /\ request'[v].over = request[v].over
               /\ request'[v].ceiling = request[v].ceiling
    <3>1. request[v] \in CartRequest
      BY <1>0 DEF RequestsKnown
    <3>2. CASE DropWishes(W)
      <4>1. request'[v] = [request[v] EXCEPT !.rows = @ \ W]
        BY <3>2 DEF DropWishes
      <4>. QED
        BY <3>1, <4>1 DEF CartRequest
    <3>3. CASE \E r \in Visit : DeleteWish(r)
      <4>1. PICK r \in Visit : DeleteWish(r)
        BY <3>3
      <4>. DEFINE gone == {request[r].ware} \cap request[r].rows
                  at == IF v = r THEN "moving" ELSE request[v].at
      <4>2. request'[v] = [request[v] EXCEPT !.rows = @ \ gone, !.at = at]
        BY <4>1, Zenon DEF DeleteWish
      <4>3. at \in {"moving", request[v].at}
        OBVIOUS
      <4>. HIDE DEF gone, at
      <4>. QED
        BY <3>1, <4>2, <4>3 DEF CartRequest
    <3>. QED
      BY <1>15, <3>2, <3>3
  <2>3. \A r \in Visit : Asks(r)
    BY <1>0, <2>1, <2>2 DEF Asks, MayHold
  <2>. QED
    BY <1>2, <1>5, <2>1, <2>3
<1>16. ASSUME NEW r \in Visit,
              \/ \E w \in Ware, step \in {-1, 1} : PressButton(r, w, step)
              \/ \E W : ReadWishes(r, W)
              \/ \E w \in Ware : KeepWish(r, w)
              \/ FindGuestCart(r) \/ MergeFails(r) \/ FinishMoving(r) \/ EndRequest(r)
       PROVE  MayHold'
  <2>1. UNCHANGED <<guest, owned, put, signed, guestThere>>
    BY <1>16 DEF PressButton, ReadWishes, KeepWish, FindGuestCart, MergeFails,
       FinishMoving, EndRequest, sessionVars
  <2>2. request[r] \in CartRequest
    BY <1>0 DEF RequestsKnown
  <2>3. PICK new : /\ request' = [request EXCEPT ![r] = new]
                   /\ new.at \notin {"trimming", "trimmingGuest"}
                   /\ new.at = "merging" => signed
    <3>1. CASE \E w \in Ware, step \in {-1, 1} : PressButton(r, w, step)
      BY <3>1 DEF PressButton, NoRequest
    <3>2. CASE \E W : ReadWishes(r, W)
      BY <3>2 DEF ReadWishes, NoRequest
    <3>3. CASE \E w \in Ware : KeepWish(r, w)
      <4>1. PICK w \in Ware : KeepWish(r, w)
        BY <3>3
      <4>. DEFINE new == [request[r] EXCEPT !.wishes = @ \ {w}]
      <4>2. new.at = "moving" /\ request' = [request EXCEPT ![r] = new]
        BY <1>0, <2>2, <4>1 DEF KeepWish, CartRequest, RequestsKnown
      <4>. HIDE DEF new
      <4>. QED
        BY <4>2
    <3>4. CASE FindGuestCart(r) \/ MergeFails(r)
      <4>1. PICK at \in {"merging", "ending"} :
              request' = [request EXCEPT ![r] = [request[r] EXCEPT !.at = at]]
        BY <1>0, <3>4 DEF FindGuestCart, MergeFails, RequestsKnown
      <4>. DEFINE new == [request[r] EXCEPT !.at = at]
      <4>2. new.at = at /\ (at = "merging" => signed)
        BY <1>0, <2>2, <3>4 DEF CartRequest, FindGuestCart, MergeFails, MayHold
      <4>3. request' = [request EXCEPT ![r] = new]
        BY <4>1
      <4>. HIDE DEF new
      <4>. QED
        BY <4>1, <4>2, <4>3
    <3>5. CASE FinishMoving(r) \/ EndRequest(r)
      BY <1>6, <3>5 DEF FinishMoving, EndRequest
    <3>. QED
      BY <1>16, <3>1, <3>2, <3>3, <3>4, <3>5
  <2>4. \A q \in Visit : Asks(q)
    BY <1>4, <2>1, <2>3
  <2>. QED
    BY <1>2, <1>5, <2>1, <2>4
<1>. QED
  BY <1>8, <1>9, <1>10, <1>11, <1>12, <1>13, <1>14, <1>15, <1>16 DEF CartsNext

LEMMA CartsInvInit == CartsInit => CartsInv
<1>. SUFFICES ASSUME CartsInit PROVE CartsInv
  OBVIOUS
<1>1. NoRequest \in CartRequest /\ NoRequest.at = "idle" /\ NoRequest.over = {}
  BY CartsAssumption DEF NoRequest, CartRequest, RequestAt
<1>2. RequestsKnown
  BY <1>1 DEF CartsInit, RequestsKnown
<1>3. RowsKept
  BY CartsAssumption DEF CartsInit, RowsKept, NothingMergedTwice
<1>4. MayHold
  BY <1>1 DEF CartsInit, MayHold, GuestMay, OwnedMay, LateGuest, LateOwned
<1>. QED
  BY <1>2, <1>3, <1>4 DEF CartsInv

LEMMA CartsInvAlways == CartsSpec => []CartsInv
<1>1. CartsInv /\ [CartsNext]_cartVars => CartsInv'
  BY RowsKeptStep, RequestsKnownStep, MayHoldStep DEF CartsInv
<1>. QED
  BY <1>1, CartsInvInit, PTL DEF CartsSpec

\* Cart rows stay between nothing and the limit, a guest cart that is gone has
\* none, and a request finishes with a ware it began with
\* (cart/services.py, cart/views.py).
THEOREM CartsTypeCorrect == CartsSpec => []CartsTypeOK
<1>1. CartsInv => CartsTypeOK
  BY DEF CartsInv, RowsKept, RequestsKnown, CartsTypeOK
<1>. QED
  BY <1>1, CartsInvAlways, PTL

\* No unit is in the carts that the customer did not put there, for any number
\* of requests that find the guest cart at once (cart/services.py:146) or trim
\* rows they read earlier (:184): the invariant counts what a row may yet be
\* trimmed to as in it.
THEOREM MergedOnce == CartsSpec => []NothingMergedTwice
<1>1. CartsInv => NothingMergedTwice
  BY DEF CartsInv, RowsKept
<1>. QED
  BY <1>1, CartsInvAlways, PTL

-----------------------------------------------------------------------------
(* Exchange rates.                                                         *)

Looked ==
  [at : {"idle", "missed"}, moment : Moment, rate : {NoRate}, since : SUBSET Cause]
  \cup [at : {"read"}, moment : Moment, rate : Rates, since : SUBSET Cause]
Shown == [currency : {Home}, rate : {1}] \cup [currency : {Abroad}, rate : Rates]
Saves == [at : {"idle", "inserted", "uncommitted"}, rows : Seq(RateRow)]

\* A request nothing overtook finds the rate in force.
ReadersUpToDate ==
  \A v \in Visitor : lookup[v].at # "idle" /\ lookup[v].since = {}
                     => UpToDate(lookup[v], recorded, moment)

GeoInv == GeoTypeOK /\ StaleRateHasCause /\ ReadersUpToDate

LEMMA RatesInForce ==
  ASSUME NEW rows \in Seq(RateRow), NEW m
  PROVE  InForceAt(rows, m) \subseteq Rates
<1>1. \A i \in DOMAIN rows : rows[i] \in RateRow
  OBVIOUS
<1>2. \A i \in DOMAIN rows : rows[i].rate \in Rates
  BY <1>1 DEF RateRow
<1>. QED
  BY <1>2 DEF InForceAt

\* A visitor is shown the base currency, or the other one at a recorded rate.
LEMMA ShowStep ==
  ASSUME GeoTypeOK, NEW v \in Visitor, NEW fresh \in Rates \cup {NoRate}, Show(v, fresh)
  PROVE  locale' \in [Visitor -> Shown]
<1>. DEFINE home == [currency |-> Home, rate |-> 1]
            abroad == [currency |-> Abroad, rate |-> fresh]
<1>1. home \in Shown
  BY DEF Shown
<1>2. fresh # NoRate => abroad \in Shown
  BY DEF Shown
<1>3. locale' = [locale EXCEPT ![v] = IF fresh = NoRate THEN home ELSE abroad]
  BY DEF Show
<1>4. locale \in [Visitor -> Shown]
  BY DEF GeoTypeOK, Shown
<1>. HIDE DEF home, abroad
<1>. QED
  BY <1>1, <1>2, <1>3, <1>4

\* One request moves on, and what it now holds is in force or has a cause.
LEMMA LookupStep ==
  ASSUME GeoInv, UNCHANGED <<recorded, moment>>, NEW v \in Visitor, NEW new \in Looked,
         lookup' = [lookup EXCEPT ![v] = new],
         new.at # "idle" /\ new.since = {} => UpToDate(new, recorded, moment)
  PROVE  lookup' \in [Visitor -> Looked] /\ ReadersUpToDate'
<1>1. lookup \in [Visitor -> Looked]
  BY DEF GeoInv, GeoTypeOK, Looked
<1>2. \A w \in Visitor : lookup'[w] = IF w = v THEN new ELSE lookup[w]
  BY <1>1
<1>3. \A w \in Visitor : lookup'[w].at # "idle" /\ lookup'[w].since = {}
                         => UpToDate(lookup'[w], recorded, moment)
  BY <1>2 DEF GeoInv, ReadersUpToDate
<1>4. ReadersUpToDate'
  BY <1>3 DEF ReadersUpToDate
<1>. QED
  BY <1>1, <1>4

\* A change of the rows or of the clock is noted with every request it
\* overtakes.
LEMMA OvertakeStep ==
  ASSUME GeoInv, NEW cause \in Cause, Overtake(recorded', moment', cause)
  PROVE  lookup' \in [Visitor -> Looked] /\ ReadersUpToDate'
<1>1. lookup \in [Visitor -> Looked]
  BY DEF GeoInv, GeoTypeOK, Looked
<1>2. \A v \in Visitor :
        \/ lookup'[v] = [lookup[v] EXCEPT !.since = @ \cup {cause}]
        \/ /\ lookup'[v] = lookup[v]
           /\ lookup[v].at # "idle" => UpToDate(lookup[v], recorded', moment')
  BY DEF Overtake
<1>3. \A v \in Visitor : [lookup[v] EXCEPT !.since = @ \cup {cause}] \in Looked
  BY <1>1 DEF Looked
<1>4. \A v \in Visitor :
        /\ lookup'[v] \in Looked
        /\ lookup'[v].at # "idle" /\ lookup'[v].since = {}
             => UpToDate(lookup'[v], recorded', moment')
  <2>. SUFFICES ASSUME NEW v \in Visitor
                PROVE  /\ lookup'[v] \in Looked
                       /\ lookup'[v].at # "idle" /\ lookup'[v].since = {}
                            => UpToDate(lookup'[v], recorded', moment')
    OBVIOUS
  <2>1. CASE lookup'[v] = [lookup[v] EXCEPT !.since = @ \cup {cause}]
    <3>1. lookup'[v].since # {}
      BY <1>1, <2>1 DEF Looked
    <3>. QED
      BY <1>3, <2>1, <3>1
  <2>2. CASE /\ lookup'[v] = lookup[v]
             /\ lookup[v].at # "idle" => UpToDate(lookup[v], recorded', moment')
    BY <1>1, <2>2
  <2>. QED
    BY <1>2, <2>1, <2>2
<1>5. lookup' = [v \in Visitor |-> lookup'[v]]
  BY DEF Overtake
<1>6. ReadersUpToDate'
  BY <1>4 DEF ReadersUpToDate
<1>. QED
  BY <1>4, <1>5, <1>6

\* ... and with the cached copy, which is in force or has a cause.
LEMMA PutOutStep ==
  ASSUME GeoInv, NEW cause \in Cause, PutOut(recorded', moment', cause), UNCHANGED cached
  PROVE  since' \subseteq Cause /\ StaleRateHasCause'
<1>1. since \subseteq Cause
  BY DEF GeoInv, GeoTypeOK
<1>2. since' \subseteq Cause
  BY <1>1 DEF PutOut
<1>3. cached' # NoRate /\ since' = {} => cached' \in InForce'
  BY DEF PutOut, InForce
<1>. QED
  BY <1>2, <1>3 DEF StaleRateHasCause

LEMMA WithoutOne ==
  ASSUME GeoTypeOK, NEW i \in DOMAIN recorded
  PROVE  Without(i) \in Seq(RateRow)
<1>1. recorded \in Seq(RateRow) /\ i \in 1 .. Len(recorded) /\ Len(recorded) \in Nat
  BY DEF GeoTypeOK
<1>2. SubSeq(recorded, 1, i - 1) \in Seq(RateRow)
  BY <1>1
<1>3. SubSeq(recorded, i + 1, Len(recorded)) \in Seq(RateRow)
  BY <1>1
<1>. QED
  BY <1>2, <1>3 DEF Without

LEMMA GeoInvInit == GeoInit => GeoInv
<1>. SUFFICES ASSUME GeoInit PROVE GeoInv
  OBVIOUS
<1>1. NoLookup \in Looked /\ 0 \in Moment
  BY GeoConstants DEF NoLookup, Looked, Moment
<1>2. [currency |-> Home, rate |-> 1] \in Shown
  BY DEF Shown
<1>3. NoSave \in Saves
  BY DEF NoSave, Saves
<1>4. lookup \in [Visitor -> Looked] /\ locale \in [Visitor -> Shown]
  BY <1>1, <1>2 DEF GeoInit
<1>5. recorded \in Seq(RateRow)
  BY DEF GeoInit
<1>6. GeoTypeOK
  BY <1>1, <1>3, <1>4, <1>5 DEF GeoInit, GeoTypeOK, Looked, Shown, Saves
<1>7. ReadersUpToDate
  BY DEF GeoInit, ReadersUpToDate, NoLookup
<1>. QED
  BY <1>6, <1>7 DEF GeoInit, GeoInv, StaleRateHasCause

\* A reader's step; what is recorded stays.
LEMMA ReaderStep ==
  ASSUME GeoInv, NEW v \in Visitor, NEW c \in {Home, Abroad},
         Resolve(v, c) \/ ReadRate(v) \/ StoreRate(v)
  PROVE  GeoInv'
<1>1. /\ GeoTypeOK /\ StaleRateHasCause /\ ReadersUpToDate /\ lookup[v] \in Looked
      /\ moment \in Moment /\ recorded \in Seq(RateRow) /\ cached \in Rates \cup {NoRate}
      /\ lookup \in [Visitor -> Looked] /\ locale \in [Visitor -> Shown]
  BY DEF GeoInv, GeoTypeOK, Looked, Shown
<1>2. NoLookup \in Looked /\ NoLookup.at = "idle"
  BY GeoConstants DEF NoLookup, Looked, Moment
<1>3. UNCHANGED <<recorded, moment, save>>
  BY DEF Resolve, ReadRate, StoreRate
<1>4. InForce' = InForce
  BY <1>3 DEF InForce
<1>. DEFINE Kept == /\ locale' \in [Visitor -> Shown]
                    /\ lookup' \in [Visitor -> Looked] /\ ReadersUpToDate'
<1>5. UNCHANGED lookup => lookup' \in [Visitor -> Looked] /\ ReadersUpToDate'
  BY <1>1, <1>3 DEF ReadersUpToDate
<1>6. ASSUME Resolve(v, c) PROVE Kept /\ UNCHANGED <<cached, since>>
  <2>. DEFINE new == [NoLookup EXCEPT !.at = "missed", !.moment = moment]
  <2>1. new \in Looked /\ new.at = "missed" /\ new.moment = moment
    BY <1>1 DEF Looked, NoLookup
  <2>2. UpToDate(new, recorded, moment)
    BY <2>1 DEF UpToDate
  <2>3. \/ UNCHANGED lookup /\ \E fresh \in Rates \cup {NoRate} : Show(v, fresh)
        \/ UNCHANGED locale /\ lookup' = [lookup EXCEPT ![v] = new]
    BY <1>1, <1>6 DEF Resolve
  <2>. HIDE DEF new
  <2>4. UNCHANGED <<cached, since>>
    BY <1>6 DEF Resolve
  <2>. QED
    BY <1>1, <1>3, <1>5, <2>1, <2>2, <2>3, <2>4, ShowStep, LookupStep
<1>7. ASSUME ReadRate(v) PROVE Kept /\ UNCHANGED <<cached, since>>
  <2>. DEFINE inForce == InForceAt(recorded, lookup[v].moment)
  <2>1. UNCHANGED <<cached, since>> /\ lookup[v].at = "missed"
    BY <1>7 DEF ReadRate
  <2>2. CASE Show(v, NoRate) /\ lookup' = [lookup EXCEPT ![v] = NoLookup]
    BY <1>1, <1>2, <1>3, <2>1, <2>2, ShowStep, LookupStep
  <2>3. ASSUME NEW figure \in inForce, UNCHANGED locale,
               lookup' = [lookup EXCEPT ![v].at = "read", ![v].rate = figure]
        PROVE  Kept
    <3>. DEFINE new == [lookup[v] EXCEPT !.at = "read", !.rate = figure]
    <3>1. figure \in Rates
      BY <1>1, RatesInForce
    <3>2. new \in Looked /\ new.at = "read" /\ new.rate = figure
          /\ new.since = lookup[v].since
      BY <1>1, <3>1 DEF Looked
    <3>3. lookup[v].since = {} => figure \in InForceAt(recorded, moment)
      BY <1>1, <2>1 DEF ReadersUpToDate, UpToDate
    <3>4. new.since = {} => UpToDate(new, recorded, moment)
      BY <3>2, <3>3 DEF UpToDate
    <3>5. lookup' = [lookup EXCEPT ![v] = new]
      BY <1>1, <2>3 DEF Looked
    <3>. HIDE DEF new, inForce
    <3>. QED
      BY <1>1, <1>3, <2>3, <3>2, <3>4, <3>5, LookupStep
  <2>. QED
    BY <1>7, <2>1, <2>2, <2>3 DEF ReadRate
<1>8. ASSUME StoreRate(v)
      PROVE  /\ Kept /\ cached' \in Rates /\ since' \subseteq Cause
             /\ since' = {} => cached' \in InForce
  <2>1. /\ lookup[v].at = "read" /\ lookup[v].rate \in Rates
        /\ lookup[v].since \subseteq Cause
    BY <1>1, <1>8 DEF StoreRate, Looked
  <2>2. lookup[v].since = {} => lookup[v].rate \in InForce
    BY <1>1, <2>1 DEF ReadersUpToDate, UpToDate, InForce
  <2>3. /\ cached' = lookup[v].rate /\ since' = lookup[v].since
        /\ Show(v, lookup[v].rate) /\ lookup' = [lookup EXCEPT ![v] = NoLookup]
    BY <1>8 DEF StoreRate
  <2>. QED
    BY <1>1, <1>2, <1>3, <2>1, <2>2, <2>3, ShowStep, LookupStep
<1>. HIDE DEF Kept
<1>9. /\ Kept
      /\ \/ UNCHANGED <<cached, since>>
         \/ /\ cached' \in Rates /\ since' \subseteq Cause
            /\ since' = {} => cached' \in InForce
  BY <1>6, <1>7, <1>8
<1>10. GeoTypeOK'
  BY <1>1, <1>3, <1>9 DEF GeoTypeOK, Looked, Shown, Kept
<1>11. StaleRateHasCause'
  BY <1>1, <1>3, <1>4, <1>9 DEF StaleRateHasCause
<1>. QED
  BY <1>9, <1>10, <1>11 DEF GeoInv, Kept

\* A writer's step, or time's; what visitors were shown stays.
LEMMA WriterStep ==
  ASSUME GeoInv, UNCHANGED locale,
         recorded' \in Seq(RateRow), moment' \in Moment, since' \subseteq Cause,
         cached' \in {cached, NoRate}, save' \in Saves,
         lookup' \in [Visitor -> Looked], ReadersUpToDate', StaleRateHasCause'
  PROVE  GeoInv'
BY DEF GeoInv, GeoTypeOK, Looked, Saves

LEMMA GeoInvStep == GeoInv /\ [GeoNext]_geoVars => GeoInv'
<1>. SUFFICES ASSUME GeoInv, [GeoNext]_geoVars PROVE GeoInv'
  OBVIOUS
<1>1. /\ GeoTypeOK /\ StaleRateHasCause /\ ReadersUpToDate
      /\ recorded \in Seq(RateRow) /\ save \in Saves /\ moment \in Moment
      /\ lookup \in [Visitor -> Looked] /\ since \subseteq Cause
  BY DEF GeoInv, GeoTypeOK, Looked, Saves
<1>2. NoSave \in Saves /\ NoSave.at = "idle"
  BY DEF NoSave, Saves
<1>3. UNCHANGED <<recorded, moment, lookup>>
        => lookup' \in [Visitor -> Looked] /\ ReadersUpToDate'
  BY <1>1 DEF ReadersUpToDate
<1>4. ClearCached => since' \subseteq Cause /\ StaleRateHasCause'
                     /\ cached' \in {cached, NoRate}
  BY DEF ClearCached, StaleRateHasCause
<1>5. ASSUME NEW given \in Seq(RateRow), AdminSave(given) PROVE GeoInv'
  <2>1. [at |-> "uncommitted", rows |-> given] \in Saves
    BY DEF Saves
  <2>. QED
    BY <1>1, <1>3, <1>4, <1>5, <2>1, WriterStep DEF AdminSave
<1>6. ASSUME NEW fresh \in Rates, InsertRate(fresh) PROVE GeoInv'
  <2>1. [at |-> "inserted", rows |-> <<>>] \in Saves
    BY DEF Saves
  <2>2. StaleRateHasCause'
    BY <1>6 DEF InsertRate, StaleRateHasCause
  <2>3. [from |-> moment, rate |-> fresh] \in RateRow
    BY <1>1 DEF RateRow
  <2>4. recorded' \in Seq(RateRow) /\ UNCHANGED moment
    BY <1>1, <1>6, <2>3 DEF InsertRate
  <2>5. Overtake(recorded', moment', "overlap") /\ "overlap" \in Cause
    BY <1>6, <2>4 DEF InsertRate, Cause
  <2>. QED
    BY <1>1, <1>6, <2>1, <2>2, <2>4, <2>5, OvertakeStep, WriterStep DEF InsertRate
<1>7. ASSUME DropCached \/ Expire PROVE GeoInv'
  BY <1>1, <1>2, <1>3, <1>4, <1>7, WriterStep DEF DropCached, Expire
<1>8. ASSUME AdminCommit PROVE GeoInv'
  <2>1. /\ recorded' = save.rows /\ UNCHANGED <<moment, cached, locale>> /\ save' = NoSave
        /\ Overtake(recorded', moment', "overlap") /\ PutOut(recorded', moment', "overlap")
    BY <1>8 DEF AdminCommit
  <2>2. recorded' \in Seq(RateRow) /\ "overlap" \in Cause
    BY <1>1, <2>1 DEF Saves, Cause
  <2>. QED
    BY <1>1, <1>2, <2>1, <2>2, OvertakeStep, PutOutStep, WriterStep
<1>9. ASSUME NEW i \in DOMAIN recorded, DeleteSelected(i) PROVE GeoInv'
  <2>1. /\ recorded' = Without(i) /\ UNCHANGED <<moment, cached, save, locale>>
        /\ Overtake(recorded', moment', "deletion") /\ PutOut(recorded', moment', "deletion")
    BY <1>9 DEF DeleteSelected
  <2>2. recorded' \in Seq(RateRow) /\ "deletion" \in Cause
    BY <1>1, <2>1, WithoutOne DEF Cause
  <2>. QED
    BY <1>1, <2>1, <2>2, OvertakeStep, PutOutStep, WriterStep
<1>10. ASSUME PassTime PROVE GeoInv'
  <2>1. /\ moment' = moment + 1 /\ moment < LastMoment
        /\ UNCHANGED <<recorded, cached, save, locale>>
        /\ Overtake(recorded', moment', "date") /\ PutOut(recorded', moment', "date")
    BY <1>10 DEF PassTime
  <2>2. moment' \in Moment /\ "date" \in Cause
    BY <1>1, <2>1, GeoConstants DEF Moment, Cause
  <2>. QED
    BY <1>1, <2>1, <2>2, OvertakeStep, PutOutStep, WriterStep
<1>11. ASSUME UNCHANGED <<recorded, moment, cached, since, save, lookup, locale>>
       PROVE  GeoInv'
  <2>1. StaleRateHasCause'
    BY <1>1, <1>11 DEF StaleRateHasCause, InForce
  <2>. QED
    BY <1>1, <1>3, <1>11, <2>1, WriterStep
<1>12. \A r \in RateRow : Append(recorded, r) \in Seq(RateRow)
  BY <1>1
<1>13. Home \in {Home, Abroad}
  OBVIOUS
<1>14. ASSUME NEW v \in Visitor, NEW c \in {Home, Abroad},
              SetCountry(v, c) \/ SetCurrency(v, c)
       PROVE  GeoInv'
  BY <1>11, <1>14 DEF SetCountry, SetCurrency
<1>15. CASE UNCHANGED geoVars
  BY <1>11, <1>15 DEF geoVars
<1>. QED
  BY <1>1, <1>5, <1>6, <1>7, <1>8, <1>9, <1>10, <1>12, <1>13, <1>14, <1>15, WithoutOne,
     ReaderStep DEF GeoNext

LEMMA GeoInvAlways == GeoSpec => []GeoInv
  BY GeoInvInit, GeoInvStep, PTL DEF GeoSpec

\* A visitor is shown the base currency at its own rate, or the other at a
\* rate that was recorded (geo/locale_context.py).
THEOREM GeoTypeCorrect == GeoSpec => []GeoTypeOK
<1>1. GeoInv => GeoTypeOK
  BY DEF GeoInv
<1>. QED
  BY <1>1, GeoInvAlways, PTL

\* With no save under way a rate out of force is charged from the cache only
\* after an overlap, a deletion from the list or the date of a row, for any
\* number of visitors and rates of any dates (geo/models.py:196-202).
THEOREM StaleRatesHaveCauses == GeoSpec => []StaleRateHasCause
<1>1. GeoInv => StaleRateHasCause
  BY DEF GeoInv
<1>. QED
  BY <1>1, GeoInvAlways, PTL

-----------------------------------------------------------------------------
(* Reviews.                                                                *)

\* A request is in order: it names a review where it is about one, and what
\* it is to create has no votes.
InOrder(work) ==
  /\ work \in ReviewRequest
  /\ work.at \notin {"idle", "saved", "read"} => work.who \in Reader
  /\ work.at = "checked" => work.copy.helpful = 0
  /\ work.figures.count <= Cardinality(Reader)

RequestsInOrder ==
  /\ process \in [Process -> ReviewRequest]
  /\ \A p \in Process : InOrder(process[p])

RowsTyped ==
  /\ review \in [Reader -> Review]
  /\ votes \in [Reader -> SUBSET Reader] /\ overrun \subseteq Reader
  /\ rating \in Rating /\ rating.count <= Cardinality(Reader)

\* The card is right, or somebody is about to write it, or it went astray.
CardFollows ==
  \/ astray \/ rating = Figures
  \/ \E p \in Process : process[p].at \in {"saved", "read"}

\* Requests that have cast a vote for a review and not counted it yet.
Uncounted ==
  [c \in Reader |-> {p \in Process : process[p].at = "counting" /\ process[p].who = c}]

\* Votes shown and votes to be counted were all cast.
VotesCast ==
  \A c \in Reader \ overrun :
    review[c].helpful + Cardinality(Uncounted[c]) <= Cardinality(votes[c])

ReviewsInv == RequestsInOrder /\ RowsTyped /\ CardFollows /\ VotesCast

LEMMA UnoccupiedInOrder ==
  /\ NoReview \in Review /\ NoReview.helpful = 0 /\ NoReview.rating = 0
  /\ NoReview.approved = FALSE
  /\ InOrder(Unoccupied) /\ Unoccupied.at = "idle"
  /\ Unoccupied.figures \in Rating /\ Unoccupied.figures = [sum |-> 0, count |-> 0]
  /\ Unoccupied.who = "nobody" /\ Unoccupied.copy = NoReview
<1>1. Cardinality(Reader) \in Nat
  BY ReviewsAssumption, FS_CardinalityType
<1>2. NoReview \in Review /\ NoReview.helpful = 0 /\ NoReview.rating = 0
      /\ NoReview.approved = FALSE
  BY DEF NoReview, Review
<1>3. [sum |-> 0, count |-> 0] \in Rating
  BY DEF Rating
<1>4. /\ Unoccupied.at = "idle" /\ Unoccupied.figures = [sum |-> 0, count |-> 0]
      /\ Unoccupied.who = "nobody" /\ Unoccupied.copy = NoReview
      /\ Unoccupied \in ReviewRequest
  BY <1>2, <1>3 DEF Unoccupied, ReviewRequest
<1>. QED
  BY <1>1, <1>2, <1>3, <1>4 DEF InOrder

LEMMA FiguresBounded ==
  ASSUME NEW cards \in [Reader -> Review]
  PROVE  LET counted == {c \in Reader : cards[c].approved}
         IN  /\ TotalOver([c \in Reader |-> cards[c].rating], counted) \in Nat
             /\ Cardinality(counted) \in Nat /\ Cardinality(counted) <= Cardinality(Reader)
<1>. DEFINE counted == {c \in Reader : cards[c].approved}
            stars == [c \in Reader |-> cards[c].rating]
<1>1. \A c \in counted : stars[c] \in Nat
  <2>1. \A c \in Reader : cards[c].rating \in Stars \cup {0}
    BY DEF Review
  <2>2. Stars \cup {0} \subseteq Nat
    BY ReviewsAssumption
  <2>. QED
    BY <2>1, <2>2
<1>2. IsFiniteSet(counted) /\ Cardinality(counted) <= Cardinality(Reader)
  BY ReviewsAssumption, FS_Subset
<1>3. TotalOver(stars, counted) \in Nat /\ Cardinality(counted) \in Nat
  BY <1>1, <1>2, UnitsFinite, FS_CardinalityType
<1>. QED
  BY <1>2, <1>3

LEMMA FiguresBound ==
  ASSUME NEW cards \in [Reader -> Review]
  PROVE  FiguresOf(cards) \in Rating /\ FiguresOf(cards).count <= Cardinality(Reader)
<1>. DEFINE approvedOnes == {c \in Reader : cards[c].approved}
            total == TotalOver([c \in Reader |-> cards[c].rating], approvedOnes)
<1>1. /\ total \in Nat /\ Cardinality(approvedOnes) \in Nat
      /\ Cardinality(approvedOnes) <= Cardinality(Reader)
  BY FiguresBounded
<1>2. FiguresOf(cards) = [sum |-> total, count |-> Cardinality(approvedOnes)]
  BY DEF FiguresOf
<1>. HIDE DEF approvedOnes, total
<1>. QED
  BY <1>1, <1>2 DEF Rating

LEMMA FiguresTyped ==
  ASSUME RowsTyped
  PROVE  Figures \in Rating /\ Figures.count <= Cardinality(Reader)
<1>1. review \in [Reader -> Review]
  BY DEF RowsTyped
<1>. QED
  BY <1>1, FiguresBounded DEF Figures, FiguresOf, Rating

\* The figures are of ratings and approval alone.
LEMMA FiguresSame ==
  ASSUME \A c \in Reader : /\ review'[c].approved = review[c].approved
                           /\ review'[c].rating = review[c].rating
  PROVE  Figures' = Figures
<1>1. {c \in Reader : review'[c].approved} = {c \in Reader : review[c].approved}
  OBVIOUS
<1>2. [c \in Reader |-> review'[c].rating] = [c \in Reader |-> review[c].rating]
  OBVIOUS
<1>. QED
  BY <1>1, <1>2 DEF Figures, FiguresOf

LEMMA UncountedFinite ==
  ASSUME NEW c \in Reader
  PROVE  IsFiniteSet(Uncounted[c]) /\ Cardinality(Uncounted[c]) \in Nat
BY ReviewsAssumption, FS_Subset, FS_CardinalityType DEF Uncounted

\* One request goes on.
LEMMA OneRequest ==
  ASSUME RequestsInOrder, NEW p \in Process, NEW new, InOrder(new),
         process' = [process EXCEPT ![p] = new]
  PROVE  /\ RequestsInOrder'
         /\ process'[p] = new /\ \A q \in Process \ {p} : process'[q] = process[q]
<1>1. new \in ReviewRequest
  BY DEF InOrder
<1>2. /\ process'[p] = new /\ \A q \in Process \ {p} : process'[q] = process[q]
      /\ process' \in [Process -> ReviewRequest]
  BY <1>1 DEF RequestsInOrder
<1>3. \A q \in Process : InOrder(process'[q])
  BY <1>2 DEF RequestsInOrder
<1>. QED
  BY <1>2, <1>3 DEF RequestsInOrder, InOrder

\* ... without a vote of its own to count, before or after.
LEMMA UncountedSame ==
  ASSUME RequestsInOrder, NEW p \in Process, NEW new,
         process' = [process EXCEPT ![p] = new],
         process[p].at # "counting", new.at # "counting"
  PROVE  Uncounted' = Uncounted
<1>1. process'[p] = new /\ \A q \in Process \ {p} : process'[q] = process[q]
  BY DEF RequestsInOrder
<1>. QED
  BY <1>1 DEF Uncounted

\* A request that was not about to write the card, nor is, leaves it as right
\* as it was.
LEMMA CardSame ==
  ASSUME RequestsInOrder, CardFollows, NEW p \in Process, NEW new,
         process' = [process EXCEPT ![p] = new],
         process[p].at \notin {"saved", "read"}, UNCHANGED <<rating, astray>>,
         Figures' = Figures
  PROVE  CardFollows'
<1>1. \A q \in Process \ {p} : process'[q] = process[q]
  BY DEF RequestsInOrder
<1>. QED
  BY <1>1 DEF CardFollows

\* One that is about to write it will.
LEMMA CardToBeWritten ==
  ASSUME RequestsInOrder, NEW p \in Process, NEW new,
         process' = [process EXCEPT ![p] = new], new.at \in {"saved", "read"}
  PROVE  CardFollows'
<1>1. process'[p] = new
  BY DEF RequestsInOrder
<1>. QED
  BY <1>1 DEF CardFollows

\* Requests that touch no vote, no review's votes and no approval.
LEMMA QuietReviewStep ==
  ASSUME ReviewsInv, NEW p \in Process, NEW new, InOrder(new),
         process' = [process EXCEPT ![p] = new],
         process[p].at \notin {"counting", "saved", "read"}, new.at # "counting",
         UNCHANGED <<review, votes, overrun, rating, astray>>
  PROVE  ReviewsInv'
<1>1. RequestsInOrder /\ RowsTyped /\ CardFollows /\ VotesCast
  BY DEF ReviewsInv
<1>2. RequestsInOrder'
  BY <1>1, OneRequest
<1>3. RowsTyped'
  BY <1>1 DEF RowsTyped
<1>4. CardFollows'
  BY <1>1, CardSame, FiguresSame
<1>5. Uncounted' = Uncounted
  BY <1>1, UncountedSame
<1>6. VotesCast'
  BY <1>1, <1>5 DEF VotesCast
<1>. QED
  BY <1>2, <1>3, <1>4, <1>6 DEF ReviewsInv

\* Requests that save a review, and are to write the card.  A review whose
\* votes change is one saved from an old copy.
LEMMA SavingStep ==
  ASSUME ReviewsInv, NEW p \in Process, NEW c \in Reader, NEW written \in Review,
         process' = [process EXCEPT ![p] = [Unoccupied EXCEPT !.at = "saved"]],
         process[p].at # "counting",
         review' = [review EXCEPT ![c] = written],
         overrun' \in SUBSET Reader, overrun \subseteq overrun',
         written.helpful = review[c].helpful \/ c \in overrun',
         UNCHANGED <<votes, rating, astray>>
  PROVE  ReviewsInv'
<1>1. RequestsInOrder /\ RowsTyped /\ CardFollows /\ VotesCast
  BY DEF ReviewsInv
<1>. DEFINE new == [Unoccupied EXCEPT !.at = "saved"]
<1>2. InOrder(new) /\ new.at = "saved"
  <2>1. Unoccupied \in ReviewRequest /\ Unoccupied.figures.count <= Cardinality(Reader)
    BY UnoccupiedInOrder DEF InOrder
  <2>2. /\ new \in ReviewRequest /\ new.at = "saved"
        /\ new.figures.count <= Cardinality(Reader)
    BY <2>1 DEF ReviewRequest
  <2>. HIDE DEF new
  <2>. QED
    BY <2>2 DEF InOrder
<1>3. process' = [process EXCEPT ![p] = new]
  OBVIOUS
<1>. HIDE DEF new
<1>4. RequestsInOrder'
  BY <1>1, <1>2, <1>3, OneRequest
<1>5. RowsTyped'
  BY <1>1 DEF RowsTyped
<1>6. CardFollows'
  BY <1>1, <1>2, <1>3, CardToBeWritten
<1>7. Uncounted' = Uncounted
  BY <1>1, <1>2, <1>3, UncountedSame
<1>8. review'[c] = written /\ \A d \in Reader \ {c} : review'[d] = review[d]
  BY <1>1 DEF RowsTyped
<1>9. VotesCast'
  BY <1>1, <1>7, <1>8 DEF VotesCast
<1>. QED
  BY <1>4, <1>5, <1>6, <1>9 DEF ReviewsInv

LEMMA CheckStep ==
  ASSUME ReviewsInv, NEW p \in Process, NEW c \in Reader, NEW stars \in Stars,
         CheckEligibility(p, c, stars)
  PROVE  ReviewsInv'
<1>. DEFINE written == [rating |-> stars, approved |-> TRUE, helpful |-> 0]
            new == [at |-> "checked", who |-> c, copy |-> written,
                    figures |-> Unoccupied.figures]
<1>1. written \in Review /\ written.helpful = 0
  BY DEF Review
<1>2. InOrder(new) /\ new.at = "checked"
  <2>1. /\ Unoccupied.figures \in Rating
        /\ Unoccupied.figures.count <= Cardinality(Reader)
    BY UnoccupiedInOrder DEF InOrder
  <2>. HIDE DEF written
  <2>. QED
    BY <1>1, <2>1 DEF InOrder, ReviewRequest
<1>3. process' = [process EXCEPT ![p] = new] /\ process[p].at = "idle"
      /\ UNCHANGED <<review, votes, overrun, rating, astray>>
  BY DEF CheckEligibility, voting, product
<1>. HIDE DEF new
<1>. QED
  BY <1>2, <1>3, QuietReviewStep

LEMMA CreateStep ==
  ASSUME ReviewsInv, NEW p \in Process, CreateReview(p)
  PROVE  ReviewsInv'
<1>1. /\ process[p].who \in Reader /\ process[p].copy \in Review
      /\ process[p].copy.helpful = 0 /\ process[p].at = "checked"
  BY DEF CreateReview, ReviewsInv, RequestsInOrder, InOrder, ReviewRequest
<1>2. overrun \in SUBSET Reader
  BY DEF ReviewsInv, RowsTyped
<1>3. CASE review[process[p].who] = NoReview
  <2>1. review[process[p].who].helpful = 0
    BY <1>3, UnoccupiedInOrder
  <2>. QED
    BY <1>1, <1>2, <1>3, <2>1, SavingStep DEF CreateReview, voting, product
<1>4. CASE review[process[p].who] # NoReview
  BY <1>1, <1>4, UnoccupiedInOrder, QuietReviewStep DEF CreateReview, voting, product
<1>. QED
  BY <1>3, <1>4

LEMMA ModerateStep ==
  ASSUME ReviewsInv, NEW p \in Process, NEW c \in Reader, NEW approved \in BOOLEAN,
         Moderate(p, c, approved)
  PROVE  ReviewsInv'
<1>. DEFINE written == [review[c] EXCEPT !.approved = approved]
<1>1. review[c] \in Review /\ overrun \in SUBSET Reader
  BY DEF ReviewsInv, RowsTyped
<1>2. written \in Review /\ written.helpful = review[c].helpful
  BY <1>1 DEF Review
<1>3. /\ review' = [review EXCEPT ![c] = written] /\ process[p].at = "idle"
      /\ process' = [process EXCEPT ![p] = [Unoccupied EXCEPT !.at = "saved"]]
      /\ UNCHANGED <<votes, overrun, rating, astray>>
  BY DEF Moderate, voting, product
<1>. HIDE DEF written
<1>. QED
  BY <1>1, <1>2, <1>3, SavingStep

LEMMA LoadReviewStep ==
  ASSUME ReviewsInv, NEW p \in Process, NEW c \in Reader, NEW stars \in Stars,
         LoadReview(p, c, stars)
  PROVE  ReviewsInv'
<1>. DEFINE written == [review[c] EXCEPT !.rating = stars]
            new == [Unoccupied EXCEPT !.at = "editing", !.who = c, !.copy = written]
<1>1. written \in Review
  <2>1. review[c] \in Review
    BY DEF ReviewsInv, RowsTyped
  <2>. QED
    BY <2>1 DEF Review
<1>2. InOrder(new) /\ new.at = "editing"
  <2>. HIDE DEF written
  <2>1. Unoccupied \in ReviewRequest /\ Unoccupied.figures.count <= Cardinality(Reader)
    BY UnoccupiedInOrder DEF InOrder
  <2>2. /\ new \in ReviewRequest /\ new.at = "editing" /\ new.who = c
        /\ new.figures.count <= Cardinality(Reader)
    BY <1>1, <2>1 DEF ReviewRequest
  <2>. HIDE DEF new
  <2>. QED
    BY <2>2 DEF InOrder
<1>3. process' = [process EXCEPT ![p] = new] /\ process[p].at = "idle"
      /\ UNCHANGED <<review, votes, overrun, rating, astray>>
  BY DEF LoadReview, voting, product
<1>. HIDE DEF new
<1>. QED
  BY <1>2, <1>3, QuietReviewStep

\* A review saved from a copy that only the rating is new in keeps its votes.
LEMMA SaveReviewStep ==
  ASSUME ReviewsInv, NEW p \in Process, SaveReview(p)
  PROVE  ReviewsInv'
<1>1. PICK c \in Reader : c = process[p].who
  BY DEF SaveReview, ReviewsInv, RequestsInOrder, InOrder
<1>2. PICK written \in Review : written = process[p].copy
  BY DEF ReviewsInv, RequestsInOrder, ReviewRequest
<1>3. review[c] \in Review /\ overrun \in SUBSET Reader
  BY DEF ReviewsInv, RowsTyped
<1>4. /\ review' = [review EXCEPT ![c] = written] /\ process[p].at = "editing"
      /\ process' = [process EXCEPT ![p] = [Unoccupied EXCEPT !.at = "saved"]]
      /\ UNCHANGED <<votes, rating, astray>>
      /\ overrun' = IF [review[c] EXCEPT !.rating = written.rating] = written
                    THEN overrun ELSE overrun \cup {c}
  BY <1>1, <1>2 DEF SaveReview, product
<1>5. [review[c] EXCEPT !.rating = written.rating].helpful = review[c].helpful
  BY <1>3 DEF Review
<1>6. written.helpful = review[c].helpful \/ c \in overrun'
  BY <1>4, <1>5
<1>. QED
  BY <1>3, <1>4, <1>6, SavingStep

LEMMA ReviveStep ==
  ASSUME ReviewsInv, NEW p \in Process, ReviveReview(p)
  PROVE  ReviewsInv'
<1>1. /\ process[p].who \in Reader /\ process[p].copy \in Review
      /\ process[p].at = "reviving"
  BY DEF ReviveReview, ReviewsInv, RequestsInOrder, InOrder, ReviewRequest
<1>2. overrun \in SUBSET Reader
  BY DEF ReviewsInv, RowsTyped
<1>3. CASE review[process[p].who] = NoReview
  BY <1>1, <1>2, <1>3, SavingStep DEF ReviveReview, product
<1>4. CASE review[process[p].who] # NoReview
  BY <1>1, <1>4, UnoccupiedInOrder, QuietReviewStep DEF ReviveReview, product
<1>. QED
  BY <1>3, <1>4

\* A vote is cast, and is to be counted.
LEMMA VoteStep ==
  ASSUME ReviewsInv, NEW p \in Process, NEW c \in Reader, NEW v \in Reader,
         MarkHelpful(p, c, v)
  PROVE  ReviewsInv'
<1>. DEFINE new == [Unoccupied EXCEPT !.at = "counting", !.who = c]
<1>1. RequestsInOrder /\ RowsTyped /\ CardFollows /\ VotesCast
  BY DEF ReviewsInv
<1>2. InOrder(new) /\ new.at = "counting" /\ new.who = c
  <2>1. Unoccupied \in ReviewRequest /\ Unoccupied.figures.count <= Cardinality(Reader)
    BY UnoccupiedInOrder DEF InOrder
  <2>2. /\ new \in ReviewRequest /\ new.at = "counting" /\ new.who = c
        /\ new.figures.count <= Cardinality(Reader)
    BY <2>1 DEF ReviewRequest
  <2>. HIDE DEF new
  <2>. QED
    BY <2>2 DEF InOrder
<1>3. /\ process' = [process EXCEPT ![p] = new] /\ process[p].at = "idle"
      /\ v \notin votes[c] /\ votes' = [votes EXCEPT ![c] = votes[c] \cup {v}]
      /\ UNCHANGED <<review, overrun, rating, astray>>
  BY DEF MarkHelpful, product
<1>. HIDE DEF new
<1>4. /\ RequestsInOrder' /\ process'[p] = new
      /\ \A q \in Process \ {p} : process'[q] = process[q]
  BY <1>1, <1>2, <1>3, OneRequest
<1>5. RowsTyped'
  BY <1>1, <1>3 DEF RowsTyped
<1>6. CardFollows'
  BY <1>1, <1>3, CardSame, FiguresSame
<1>7. /\ p \notin Uncounted[c] /\ Uncounted'[c] = Uncounted[c] \cup {p}
      /\ \A d \in Reader \ {c} : Uncounted'[d] = Uncounted[d]
  BY <1>2, <1>3, <1>4 DEF Uncounted
<1>8. Cardinality(Uncounted'[c]) = Cardinality(Uncounted[c]) + 1
  BY <1>7, UncountedFinite, FS_AddElement
<1>9. /\ votes'[c] = votes[c] \cup {v}
      /\ \A d \in Reader \ {c} : votes'[d] = votes[d]
  BY <1>1, <1>3 DEF RowsTyped
<1>10. IsFiniteSet(votes[c]) /\ Cardinality(votes[c]) \in Nat
  <2>1. votes[c] \subseteq Reader
    BY <1>1 DEF RowsTyped
  <2>. QED
    BY <2>1, ReviewsAssumption, FS_Subset, FS_CardinalityType
<1>11. Cardinality(votes'[c]) = Cardinality(votes[c]) + 1
  BY <1>3, <1>9, <1>10, FS_AddElement
<1>12. ASSUME NEW d \in Reader \ overrun'
       PROVE  review'[d].helpful + Cardinality(Uncounted'[d]) <= Cardinality(votes'[d])
  <2>1. CASE d = c
    <3>1. review[c].helpful \in Nat
      BY <1>1 DEF RowsTyped, Review
    <3>2. Cardinality(Uncounted[c]) \in Nat
      BY UncountedFinite
    <3>3. review[c].helpful + Cardinality(Uncounted[c]) <= Cardinality(votes[c])
      BY <1>1, <1>3, <1>12, <2>1 DEF VotesCast
    <3>. QED
      BY <1>3, <1>8, <1>10, <1>11, <2>1, <3>1, <3>2, <3>3
  <2>2. CASE d # c
    BY <1>1, <1>3, <1>7, <1>9, <1>12, <2>2 DEF VotesCast
  <2>. QED
    BY <2>1, <2>2
<1>. QED
  BY <1>4, <1>5, <1>6, <1>12 DEF ReviewsInv, VotesCast

\* A vote is counted.
LEMMA CountVoteStep ==
  ASSUME ReviewsInv, NEW p \in Process, CountVote(p)
  PROVE  ReviewsInv'
<1>1. RequestsInOrder /\ RowsTyped /\ CardFollows /\ VotesCast
  BY DEF ReviewsInv
<1>2. PICK c \in Reader : c = process[p].who
  BY <1>1 DEF CountVote, RequestsInOrder, InOrder
<1>3. review[c] \in Review /\ review[c].helpful \in Nat
  BY <1>1 DEF RowsTyped, Review
<1>. DEFINE written == [review[c] EXCEPT !.helpful = @ + 1]
<1>4. /\ written \in Review /\ written.helpful = review[c].helpful + 1
      /\ written.approved = review[c].approved /\ written.rating = review[c].rating
  BY <1>3 DEF Review
<1>5. /\ review' = [review EXCEPT ![c] = written] /\ process[p].at = "counting"
      /\ process' = [process EXCEPT ![p] = Unoccupied]
      /\ UNCHANGED <<votes, overrun, rating, astray>>
  BY <1>2 DEF CountVote, voting, product
<1>. HIDE DEF written
<1>6. /\ RequestsInOrder' /\ process'[p] = Unoccupied
      /\ \A q \in Process \ {p} : process'[q] = process[q]
  BY <1>1, <1>5, UnoccupiedInOrder, OneRequest
<1>7. /\ review'[c] = written /\ \A d \in Reader \ {c} : review'[d] = review[d]
      /\ RowsTyped'
  BY <1>1, <1>4, <1>5 DEF RowsTyped
<1>8. Figures' = Figures
  BY <1>4, <1>7, FiguresSame
<1>9. CardFollows'
  BY <1>1, <1>5, <1>8, CardSame
<1>10. /\ p \in Uncounted[c] /\ Uncounted'[c] = Uncounted[c] \ {p}
       /\ \A d \in Reader \ {c} : Uncounted'[d] = Uncounted[d]
  BY <1>2, <1>5, <1>6, UnoccupiedInOrder DEF Uncounted
<1>11. Cardinality(Uncounted'[c]) = Cardinality(Uncounted[c]) - 1
  BY <1>10, UncountedFinite, FS_RemoveElement
<1>12. ASSUME NEW d \in Reader \ overrun'
       PROVE  review'[d].helpful + Cardinality(Uncounted'[d]) <= Cardinality(votes'[d])
  <2>1. CASE d = c
    <3>1. Cardinality(Uncounted[c]) \in Nat
      BY UncountedFinite
    <3>2. review[c].helpful + Cardinality(Uncounted[c]) <= Cardinality(votes[c])
      BY <1>1, <1>5, <1>12, <2>1 DEF VotesCast
    <3>3. review'[c].helpful + Cardinality(Uncounted'[c])
            = review[c].helpful + Cardinality(Uncounted[c])
      BY <1>3, <1>4, <1>7, <1>11, <3>1
    <3>. QED
      BY <1>5, <2>1, <3>2, <3>3
  <2>2. CASE d # c
    BY <1>1, <1>5, <1>7, <1>10, <1>12, <2>2 DEF VotesCast
  <2>. QED
    BY <2>1, <2>2
<1>. QED
  BY <1>6, <1>7, <1>9, <1>12 DEF ReviewsInv, VotesCast

\* The figures are read, and written: what was read then is the figures now,
\* or the card has gone astray.
LEMMA FiguresStep ==
  ASSUME ReviewsInv, NEW p \in Process, ReadFigures(p) \/ WriteFigures(p)
  PROVE  ReviewsInv'
<1>1. RequestsInOrder /\ RowsTyped /\ CardFollows /\ VotesCast
  BY DEF ReviewsInv
<1>2. UNCHANGED <<review, votes, overrun>> /\ process[p].at \in {"saved", "read"}
  BY DEF ReadFigures, WriteFigures, voting, product
<1>3. Figures' = Figures
  BY <1>2, FiguresSame
<1>4. PICK new : /\ InOrder(new) /\ new.at \in {"read", "idle"}
                 /\ process' = [process EXCEPT ![p] = new]
                 /\ ReadFigures(p) => new.at = "read"
  <2>1. CASE WriteFigures(p)
    <3>1. process[p].at = "read"
      BY <2>1 DEF WriteFigures
    <3>2. ~ReadFigures(p)
      BY <3>1 DEF ReadFigures
    <3>. QED
      BY <2>1, <3>2, UnoccupiedInOrder DEF WriteFigures
  <2>2. CASE ReadFigures(p)
    <3>. DEFINE read == [process[p] EXCEPT !.at = "read", !.figures = Figures]
    <3>1. process[p] \in ReviewRequest
      BY <1>1 DEF RequestsInOrder
    <3>2. /\ read \in ReviewRequest /\ read.at = "read"
          /\ read.figures.count <= Cardinality(Reader)
      BY <1>1, <3>1, FiguresTyped DEF ReviewRequest
    <3>3. process' = [process EXCEPT ![p] = read]
      BY <2>2 DEF ReadFigures
    <3>. HIDE DEF read
    <3>4. InOrder(read)
      BY <3>2 DEF InOrder
    <3>. QED
      BY <3>2, <3>3, <3>4
  <2>. QED
    BY <2>1, <2>2
<1>5. RequestsInOrder'
  BY <1>1, <1>4, OneRequest
<1>6. Uncounted' = Uncounted
  BY <1>1, <1>2, <1>4, UncountedSame
<1>7. VotesCast'
  BY <1>1, <1>2, <1>6 DEF VotesCast
<1>8. ASSUME ReadFigures(p) PROVE RowsTyped' /\ CardFollows'
  <2>1. CardFollows'
    BY <1>1, <1>4, <1>8, CardToBeWritten
  <2>. QED
    BY <1>1, <1>2, <1>8, <2>1 DEF RowsTyped, ReadFigures, product
<1>9. ASSUME WriteFigures(p) PROVE RowsTyped' /\ CardFollows'
  <2>1. /\ process[p].figures \in Rating
        /\ process[p].figures.count <= Cardinality(Reader)
    BY <1>1 DEF RequestsInOrder, InOrder, ReviewRequest
  <2>2. RowsTyped'
    BY <1>1, <1>2, <1>9, <2>1 DEF RowsTyped, WriteFigures
  <2>3. astray' \/ rating' = Figures
    BY <1>9 DEF WriteFigures
  <2>. QED
    BY <1>3, <2>2, <2>3 DEF CardFollows
<1>. QED
  BY <1>5, <1>7, <1>8, <1>9 DEF ReviewsInv

\* A worker that dies had nothing to write, or the card goes astray.
LEMMA DieStep ==
  ASSUME ReviewsInv, NEW p \in Process, Die(p)
  PROVE  ReviewsInv'
<1>1. RequestsInOrder /\ RowsTyped /\ CardFollows /\ VotesCast
  BY DEF ReviewsInv
<1>2. /\ process' = [process EXCEPT ![p] = Unoccupied]
      /\ UNCHANGED <<review, votes, overrun, rating>>
      /\ astray' = (astray \/ process[p].at \in {"saved", "read"})
  BY DEF Die, voting
<1>3. /\ RequestsInOrder' /\ process'[p] = Unoccupied
      /\ \A q \in Process \ {p} : process'[q] = process[q]
  BY <1>1, <1>2, UnoccupiedInOrder, OneRequest
<1>4. RowsTyped'
  BY <1>1, <1>2 DEF RowsTyped
<1>5. Figures' = Figures
  BY <1>2, FiguresSame
<1>6. CardFollows'
  BY <1>1, <1>2, <1>3, <1>5 DEF CardFollows
<1>7. ASSUME NEW c \in Reader
      PROVE  /\ Cardinality(Uncounted'[c]) <= Cardinality(Uncounted[c])
             /\ Cardinality(Uncounted[c]) \in Nat /\ Cardinality(Uncounted'[c]) \in Nat
  <2>1. Uncounted'[c] \subseteq Uncounted[c]
    BY <1>3, UnoccupiedInOrder DEF Uncounted
  <2>2. IsFiniteSet(Uncounted[c])
    BY UncountedFinite
  <2>3. IsFiniteSet(Uncounted'[c])
    BY <2>1, <2>2, FS_Subset
  <2>. QED
    BY <2>1, <2>2, <2>3, FS_Subset, FS_CardinalityType
<1>8. ASSUME NEW c \in Reader \ overrun'
      PROVE  review'[c].helpful + Cardinality(Uncounted'[c]) <= Cardinality(votes'[c])
  <2>1. review[c].helpful \in Nat
    BY <1>1 DEF RowsTyped, Review
  <2>2. Cardinality(votes[c]) \in Nat
    <3>1. IsFiniteSet(votes[c])
      BY <1>1, ReviewsAssumption, FS_Subset DEF RowsTyped
    <3>. QED
      BY <3>1, FS_CardinalityType
  <2>3. review[c].helpful + Cardinality(Uncounted[c]) <= Cardinality(votes[c])
    BY <1>1, <1>2 DEF VotesCast
  <2>. QED
    BY <1>2, <1>7, <2>1, <2>2, <2>3
<1>. QED
  BY <1>3, <1>4, <1>6, <1>8 DEF ReviewsInv, VotesCast

\* A review goes away, and with it what was under way for it.
LEMMA ForgetStep ==
  ASSUME ReviewsInv, NEW c \in Reader, Forget(c)
  PROVE  /\ RequestsInOrder' /\ VotesCast'
         /\ review' \in [Reader -> Review]
         /\ votes' \in [Reader -> SUBSET Reader] /\ overrun' \subseteq Reader
<1>1. RequestsInOrder /\ RowsTyped /\ VotesCast
  BY DEF ReviewsInv
<1>2. /\ review' = [review EXCEPT ![c] = NoReview]
      /\ votes' = [votes EXCEPT ![c] = {}] /\ overrun' = overrun \ {c}
      /\ process' = [p \in Process |-> IF process[p].who = c THEN Orphaned(process[p])
                                       ELSE process[p]]
  BY DEF Forget
<1>3. /\ review' \in [Reader -> Review] /\ votes' \in [Reader -> SUBSET Reader]
      /\ overrun' \subseteq Reader
      /\ review'[c] = NoReview /\ votes'[c] = {}
      /\ \A d \in Reader \ {c} : review'[d] = review[d] /\ votes'[d] = votes[d]
  BY <1>1, <1>2, UnoccupiedInOrder DEF RowsTyped
<1>4. ASSUME NEW p \in Process
      PROVE  /\ InOrder(process'[p])
             /\ process'[p].at = "counting" => process'[p] = process[p]
             /\ process'[p].at = "counting" => process[p].who # c
             /\ process[p].who # c => process'[p] = process[p]
  <2>1. process[p] \in ReviewRequest /\ InOrder(process[p])
    BY <1>1 DEF RequestsInOrder
  <2>2. CASE process[p].who # c
    BY <1>2, <2>1, <2>2
  <2>3. CASE process[p].who = c
    <3>1. process'[p] = Orphaned(process[p])
      BY <1>2, <2>3
    <3>2. CASE process[p].at \in {"counting", "deleting"}
      BY <2>3, <3>1, <3>2, UnoccupiedInOrder DEF Orphaned
    <3>3. CASE process[p].at = "editing"
      <4>. DEFINE new == [process[p] EXCEPT !.at = "reviving"]
      <4>1. process'[p] = new
        BY <3>1, <3>3 DEF Orphaned
      <4>2. /\ new \in ReviewRequest /\ new.at = "reviving" /\ new.who = c
            /\ new.figures = process[p].figures
        BY <2>1, <2>3 DEF ReviewRequest
      <4>3. process[p].figures.count <= Cardinality(Reader)
        BY <2>1 DEF InOrder
      <4>. HIDE DEF new
      <4>4. InOrder(new)
        BY <4>2, <4>3 DEF InOrder
      <4>. QED
        BY <2>3, <4>1, <4>2, <4>4
    <3>4. CASE process[p].at \notin {"counting", "deleting", "editing"}
      BY <2>1, <2>3, <3>1, <3>4 DEF Orphaned
    <3>. QED
      BY <3>2, <3>3, <3>4
  <2>. QED
    BY <2>2, <2>3
<1>5. RequestsInOrder'
  <2>1. \A p \in Process : process'[p] \in ReviewRequest
    BY <1>4 DEF InOrder
  <2>2. process' \in [Process -> ReviewRequest]
    BY <1>2, <2>1
  <2>. QED
    BY <1>4, <2>2 DEF RequestsInOrder, InOrder
<1>6. Uncounted'[c] = {} /\ \A d \in Reader \ {c} : Uncounted'[d] = Uncounted[d]
  BY <1>4 DEF Uncounted
<1>7. Cardinality(Uncounted'[c]) = 0 /\ Cardinality(votes'[c]) = 0
  BY <1>3, <1>6, FS_EmptySet
<1>8. VotesCast'
  <2>. SUFFICES ASSUME NEW d \in Reader \ overrun'
                PROVE  review'[d].helpful + Cardinality(Uncounted'[d])
                         <= Cardinality(votes'[d])
    BY DEF VotesCast
  <2>1. CASE d = c
    <3>1. review'[c].helpful = 0
      BY <1>3, UnoccupiedInOrder
    <3>2. review'[c].helpful + Cardinality(Uncounted'[c]) <= Cardinality(votes'[c])
      BY <1>7, <3>1
    <3>. QED
      BY <2>1, <3>2
  <2>2. CASE d # c
    BY <1>1, <1>2, <1>3, <1>6, <2>2 DEF VotesCast
  <2>. QED
    BY <2>1, <2>2
<1>. QED
  BY <1>3, <1>5, <1>8

\* Who deletes a review has read the figures without it.
LEMMA DeleteStep ==
  ASSUME ReviewsInv, NEW p \in Process, NEW c \in Reader, DeleteReview(p, c)
  PROVE  ReviewsInv'
<1>1. PICK cards \in [Reader -> Review] : cards = [review EXCEPT ![c] = NoReview]
  BY UnoccupiedInOrder DEF ReviewsInv, RowsTyped
<1>. DEFINE left == FiguresOf(cards)
            new == [Unoccupied EXCEPT !.at = "deleting", !.who = c, !.figures = left]
<1>2. left \in Rating /\ left.count <= Cardinality(Reader)
  BY <1>1, FiguresBound
<1>3. InOrder(new) /\ new.at = "deleting"
  <2>. HIDE DEF left
  <2>1. Unoccupied \in ReviewRequest
    BY UnoccupiedInOrder DEF InOrder
  <2>2. /\ new \in ReviewRequest /\ new.at = "deleting" /\ new.who = c
        /\ new.figures = left
    BY <1>2, <2>1 DEF ReviewRequest
  <2>. HIDE DEF new
  <2>. QED
    BY <1>2, <2>2 DEF InOrder
<1>4. process' = [process EXCEPT ![p] = new] /\ process[p].at = "idle"
      /\ UNCHANGED <<review, votes, overrun, rating, astray>>
  BY <1>1 DEF DeleteReview, voting, product
<1>. HIDE DEF new
<1>. QED
  BY <1>3, <1>4, QuietReviewStep

\* A review is gone: the card says what is left, or went astray.
LEMMA GoneStep ==
  ASSUME ReviewsInv, NEW c \in Reader, Forget(c),
         rating' = rating \/ (rating' \in Rating /\ rating'.count <= Cardinality(Reader)),
         astray' \/ rating' = Figures'
  PROVE  ReviewsInv'
<1>1. /\ RequestsInOrder' /\ VotesCast'
      /\ review' \in [Reader -> Review]
      /\ votes' \in [Reader -> SUBSET Reader] /\ overrun' \subseteq Reader
  BY ForgetStep
<1>2. RowsTyped'
  BY <1>1 DEF RowsTyped, ReviewsInv
<1>3. CardFollows'
  BY DEF CardFollows
<1>. QED
  BY <1>1, <1>2, <1>3 DEF ReviewsInv

LEMMA MoveReviewStep ==
  ASSUME ReviewsInv, NEW c \in Reader, MoveReview(c)
  PROVE  ReviewsInv'
<1>1. Forget(c) /\ rating' = rating /\ astray'
  BY DEF MoveReview
<1>. QED
  BY <1>1, GoneStep

LEMMA FinishDeleteStep ==
  ASSUME ReviewsInv, NEW p \in Process, FinishDelete(p)
  PROVE  ReviewsInv'
<1>1. /\ process[p].at = "deleting" /\ Forget(process[p].who)
      /\ rating' = process[p].figures
      /\ astray' = (process[p].figures # Figures')
  BY DEF FinishDelete
<1>2. /\ process[p].who \in Reader /\ process[p].figures \in Rating
      /\ process[p].figures.count <= Cardinality(Reader)
  BY <1>1 DEF ReviewsInv, RequestsInOrder, InOrder, ReviewRequest
<1>3. astray' \/ rating' = Figures'
  BY <1>1
<1>. QED
  BY <1>1, <1>2, <1>3, GoneStep

LEMMA ReviewsInvInit == ReviewsInit => ReviewsInv
<1>. SUFFICES ASSUME ReviewsInit PROVE ReviewsInv
  OBVIOUS
<1>1. RequestsInOrder
  BY UnoccupiedInOrder DEF ReviewsInit, RequestsInOrder, InOrder
<1>2. RowsTyped
  BY UnoccupiedInOrder DEF ReviewsInit, RowsTyped, InOrder
<1>3. CardFollows
  <2>1. {c \in Reader : review[c].approved} = {}
    BY UnoccupiedInOrder DEF ReviewsInit
  <2>2. Figures = [sum |-> 0, count |-> 0]
    BY <2>1, TotalOfNone, FS_EmptySet DEF Figures, FiguresOf
  <2>. QED
    BY <2>2, UnoccupiedInOrder DEF ReviewsInit, CardFollows
<1>4. VotesCast
  <2>1. \A c \in Reader : Uncounted[c] = {} /\ votes[c] = {} /\ review[c].helpful = 0
    BY UnoccupiedInOrder DEF ReviewsInit, Uncounted
  <2>2. \A c \in Reader : /\ Cardinality(Uncounted[c]) = 0
                           /\ Cardinality(votes[c]) = 0
    BY <2>1, FS_EmptySet
  <2>. QED
    BY <2>1, <2>2 DEF VotesCast
<1>. QED
  BY <1>1, <1>2, <1>3, <1>4 DEF ReviewsInv

LEMMA ReviewsInvStep == ReviewsInv /\ [ReviewsNext]_reviewVars => ReviewsInv'
<1>. SUFFICES ASSUME ReviewsInv, [ReviewsNext]_reviewVars PROVE ReviewsInv'
  OBVIOUS
<1>1. ASSUME NEW c \in Reader, MoveReview(c) PROVE ReviewsInv'
  BY <1>1, MoveReviewStep
<1>2. ASSUME NEW p \in Process, NEW c \in Reader, NEW stars \in Stars,
             CheckEligibility(p, c, stars) \/ LoadReview(p, c, stars)
      PROVE  ReviewsInv'
  BY <1>2, CheckStep, LoadReviewStep
<1>3. ASSUME NEW p \in Process, NEW c \in Reader, NEW v \in Reader,
             MarkHelpful(p, c, v)
      PROVE  ReviewsInv'
  BY <1>3, VoteStep
<1>4. ASSUME NEW p \in Process,
             \/ CreateReview(p) \/ SaveReview(p) \/ ReviveReview(p) \/ CountVote(p)
             \/ ReadFigures(p) \/ WriteFigures(p) \/ Die(p)
      PROVE  ReviewsInv'
  BY <1>4, CreateStep, SaveReviewStep, ReviveStep, CountVoteStep, FiguresStep, DieStep
<1>5. ASSUME NEW p \in Process, NEW c \in Reader, NEW approved \in BOOLEAN,
             Moderate(p, c, approved)
      PROVE  ReviewsInv'
  BY <1>5, ModerateStep
<1>7. ASSUME NEW p \in Process,
             (\E c \in Reader : DeleteReview(p, c)) \/ FinishDelete(p)
      PROVE  ReviewsInv'
  BY <1>7, DeleteStep, FinishDeleteStep
<1>6. CASE UNCHANGED reviewVars
  <2>1. UNCHANGED <<review, votes, rating, process, astray, overrun>>
    BY <1>6 DEF reviewVars
  <2>2. Figures' = Figures /\ Uncounted' = Uncounted
    BY <2>1, FiguresSame DEF Uncounted
  <2>3. RequestsInOrder' /\ RowsTyped'
    BY <2>1 DEF ReviewsInv, RequestsInOrder, RowsTyped, InOrder
  <2>4. CardFollows' /\ VotesCast'
    BY <2>1, <2>2 DEF ReviewsInv, CardFollows, VotesCast
  <2>. QED
    BY <2>3, <2>4 DEF ReviewsInv
<1>. QED
  BY <1>1, <1>2, <1>3, <1>4, <1>5, <1>6, <1>7 DEF ReviewsNext

LEMMA ReviewsInvAlways == ReviewsSpec => []ReviewsInv
  BY ReviewsInvInit, ReviewsInvStep, PTL DEF ReviewsSpec

\* Reviews, votes and requests under way keep their types, and a card never
\* counts more reviews than there are customers (reviews/services.py).
THEOREM ReviewsTypeCorrect == ReviewsSpec => []ReviewsTypeOK
<1>1. ReviewsInv => ReviewsTypeOK
  BY DEF ReviewsInv, RequestsInOrder, InOrder, RowsTyped, ReviewsTypeOK
<1>. QED
  BY <1>1, ReviewsInvAlways, PTL

\* Once every request is through and none went astray - saved, deleted or died
\* between two statements beside another - the card shows the approved
\* reviews, and no review shows more helpful votes than were cast,
\* for any number of customers and requests (reviews/signals.py:14,
\* reviews/models.py:99).
THEOREM CardTellsReviews == ReviewsSpec => []RatingTold
<1>1. ReviewsInv => RatingTold
  <2>. SUFFICES ASSUME ReviewsInv PROVE RatingTold
    OBVIOUS
  <2>1. (\A p \in Process : process[p].at = "idle") /\ ~astray => rating = Figures
    BY DEF ReviewsInv, CardFollows
  <2>2. ASSUME NEW c \in Reader \ overrun
        PROVE  review[c].helpful <= Cardinality(votes[c])
    <3>1. review[c].helpful \in Nat
      BY DEF ReviewsInv, RowsTyped, Review
    <3>2. Cardinality(Uncounted[c]) \in Nat
      BY UncountedFinite
    <3>3. Cardinality(votes[c]) \in Nat
      <4>1. IsFiniteSet(votes[c])
        BY ReviewsAssumption, FS_Subset DEF ReviewsInv, RowsTyped
      <4>. QED
        BY <4>1, FS_CardinalityType
    <3>4. review[c].helpful + Cardinality(Uncounted[c]) <= Cardinality(votes[c])
      BY DEF ReviewsInv, VotesCast
    <3>. QED
      BY <3>1, <3>2, <3>3, <3>4
  <2>. QED
    BY <2>1, <2>2 DEF RatingTold
<1>. QED
  BY <1>1, ReviewsInvAlways, PTL

-----------------------------------------------------------------------------
(* The listing.                                                            *)

\* A page whose shopper ticked one answer to one question shows the products
\* that meet it: a question nothing was ticked for turns nothing away.
LEMMA OneTicked ==
  ASSUME NEW base, NEW q \in Question, NEW value, NEW selection,
         selection = [NoneTicked EXCEPT ![q] = {value}]
  PROVE  \A i : i \in ApplyFilters(base, selection)
                <=> i \in base /\ Meets(i, q, {value})
<1>1. \A p \in Question : selection[p] = IF p = q THEN {value} ELSE {}
  BY DEF NoneTicked
<1>2. \A i \in base : (\A p \in Question : Meets(i, p, selection[p]))
                        <=> Meets(i, q, {value})
  <2>1. \A i \in base : \A p \in Question \ {q} : Meets(i, p, selection[p])
    BY <1>1 DEF Meets
  <2>2. selection[q] = {value}
    BY <1>1
  <2>. QED
    BY <2>1, <2>2
<1>. QED
  BY <1>2 DEF ApplyFilters

\* The product behind an answer that the sidebar offers meets it.
LEMMA SomethingMeets ==
  ASSUME NEW base, NEW q \in Question, NEW value \in Facets(base)[q]
  PROVE  \E i \in base : Meets(i, q, {value})
<1>1. CASE q = "brand"
  <2>1. PICK i \in base : i.brand = value
    BY <1>1 DEF Facets
  <2>2. Meets(i, q, {value})
    BY <1>1, <2>1 DEF Meets
  <2>. QED
    BY <2>2
<1>2. CASE q = "size"
  <2>1. PICK p \in FacetPieces(base) : p.size = value
    BY <1>2 DEF Facets
  <2>2. p.item \in base /\ p \in OnSale(p.item)
    BY <2>1 DEF FacetPieces, OnSale
  <2>3. Meets(p.item, q, {value})
    BY <1>2, <2>1, <2>2 DEF Meets
  <2>. QED
    BY <2>2, <2>3
<1>3. CASE q = "color"
  <2>1. PICK p \in FacetPieces(base) : p.color = value
    BY <1>3 DEF Facets
  <2>2. p.item \in base /\ p \in OnSale(p.item)
    BY <2>1 DEF FacetPieces, OnSale
  <2>3. Meets(p.item, q, {value})
    BY <1>3, <2>1, <2>2 DEF Meets
  <2>. QED
    BY <2>2, <2>3
<1>4. CASE q = "availability"
  <2>1. Facets(base)[q] = {}
    BY <1>4 DEF Facets
  <2>. QED
    BY <2>1
<1>5. CASE q \notin {"brand", "size", "color", "availability"}
  <2>1. PICK t \in Tag : /\ t.code = q /\ t.value = value
                         /\ \E i \in base : <<i, t>> \in tags
    BY <1>5 DEF Facets
  <2>2. PICK i \in base : <<i, t>> \in tags
    BY <2>1
  <2>3. Meets(i, q, {value})
    BY <1>5, <2>1, <2>2 DEF Meets
  <2>. QED
    BY <2>3
<1>. QED
  BY <1>1, <1>2, <1>3, <1>4, <1>5

\* The count beside an answer counts what meets it.
LEMMA CountIsPage ==
  ASSUME NEW base, NEW q \in Question, NEW value \in Facets(base)[q],
         q \notin {"size", "color"}
  PROVE  CountOf(base, q, value)
           = Cardinality({i \in base : Meets(i, q, {value})})
<1>1. CASE q = "brand"
  <2>1. \A i \in base : Meets(i, q, {value}) <=> i.brand = value
    BY <1>1 DEF Meets
  <2>2. {i \in base : Meets(i, q, {value})} = {i \in base : i.brand = value}
    BY <2>1
  <2>. QED
    BY <1>1, <2>2 DEF CountOf
<1>2. CASE q = "availability"
  <2>1. Facets(base)[q] = {}
    BY <1>2 DEF Facets
  <2>. QED
    BY <2>1
<1>3. CASE q \notin {"brand", "availability"}
  <2>1. \A i \in base :
          Meets(i, q, {value})
            <=> \E t \in Tag : t.code = q /\ t.value = value /\ <<i, t>> \in tags
    BY <1>3 DEF Meets
  <2>2. {i \in base : Meets(i, q, {value})}
          = {i \in base : \E t \in Tag :
               t.code = q /\ t.value = value /\ <<i, t>> \in tags}
    BY <2>1
  <2>. QED
    BY <1>3, <2>2 DEF CountOf
<1>. QED
  BY <1>1, <1>2, <1>3

\* No answer of the sidebar leads to an empty page, and the count beside it is
\* true, for any catalogue, tree of categories and search: each facet is asked
\* of the rows its filter joins (catalog/filters.py:297).
THEOREM SidebarIsTrue == ListingSpec => []NoDeadEnds
<1>1. NoDeadEnds
  <2>. DEFINE base == Base(listing.category, listing.term)
  <2>. HIDE DEF base
  <2>1. ASSUME NEW q \in Question, NEW value \in Facets(base)[q]
        PROVE  LET matched == ApplyFilters(base, [NoneTicked EXCEPT ![q] = {value}])
               IN  /\ matched # {}
                   /\ q \notin {"size", "color"} =>
                        CountOf(base, q, value) = Cardinality(matched)
    <3>. DEFINE selection == [NoneTicked EXCEPT ![q] = {value}]
                matched == ApplyFilters(base, selection)
    <3>1. matched = {i \in base : Meets(i, q, {value})}
      <4>1. selection = [NoneTicked EXCEPT ![q] = {value}]
        OBVIOUS
      <4>. HIDE DEF selection
      <4>2. \A i : i \in matched <=> i \in base /\ Meets(i, q, {value})
        BY <4>1, OneTicked
      <4>. QED
        BY <4>2
    <3>2. {i \in base : Meets(i, q, {value})} # {}
      BY SomethingMeets
    <3>3. q \notin {"size", "color"} =>
            CountOf(base, q, value)
              = Cardinality({i \in base : Meets(i, q, {value})})
      BY CountIsPage
    <3>4. matched # {} /\ (q \notin {"size", "color"} =>
                          CountOf(base, q, value) = Cardinality(matched))
      <4>. HIDE DEF matched
      <4>. QED
        BY <3>1, <3>2, <3>3
    <3>. QED
      BY <3>4
  <2>. QED
    BY <2>1 DEF NoDeadEnds, base
<1>. QED
  BY <1>1, PTL

\* Every reachable page is well typed, whatever staff do to the catalogue
\* between two ticks.
THEOREM ListingTypeCorrect == ListingSpec => []ListingTypeOK
<1>. DEFINE Values == {i.brand : i \in Item} \cup {p.size : p \in Piece}
                        \cup {p.color : p \in Piece} \cup {t.value : t \in Tag}
                        \cup {"in_stock"}
<1>1. ListingInit => ListingTypeOK
  BY DEF ListingInit, ListingTypeOK, NoneTicked
<1>2. ASSUME ListingTypeOK, [ListingNext]_listVars PROVE ListingTypeOK'
  <2>1. \A category, term : Base(category, term) \subseteq Item
    BY <1>2 DEF ListingTypeOK, Base
  <2>2. ASSUME NEW i \in Item, PublishOrArchive(i) PROVE ListingTypeOK'
    BY <1>2, <2>2 DEF PublishOrArchive, Toggle, ListingTypeOK
  <2>3. ASSUME NEW p \in Piece, SwitchVariant(p) \/ SellOutOrRestock(p)
        PROVE  ListingTypeOK'
    BY <1>2, <2>3 DEF SwitchVariant, SellOutOrRestock, Toggle, ListingTypeOK
  <2>4. ASSUME NEW category, NEW term, Open(category, term) PROVE ListingTypeOK'
    BY <1>2, <2>1, <2>4 DEF Open, catalogue, NoneTicked, ListingTypeOK
  <2>5. ASSUME NEW q \in Question,
               NEW value \in Facets(Base(listing.category, listing.term))[q]
                             \cup {v \in {"in_stock"} : q = "availability"},
               Tick(q, value)
        PROVE  ListingTypeOK'
    <3>. DEFINE base == Base(listing.category, listing.term)
    <3>1. base \subseteq Item
      BY <2>1
    <3>2. FacetPieces(base) \subseteq Piece
      BY <1>2 DEF FacetPieces, ListingTypeOK
    <3>. HIDE DEF base
    <3>3. Facets(base)[q] \subseteq Values
      BY <3>1, <3>2 DEF Facets
    <3>4. value \in Values
      BY <3>3 DEF base
    <3>5. ticked' = [ticked EXCEPT ![q] = @ \cup {value}]
      BY <2>5 DEF Tick
    <3>6. ticked' \in [Question -> SUBSET Values]
      BY <1>2, <3>4, <3>5 DEF ListingTypeOK
    <3>7. found' \subseteq Item
      BY <2>5, <3>1 DEF Tick, ApplyFilters, base
    <3>. QED
      BY <1>2, <2>5, <3>6, <3>7 DEF Tick, catalogue, ListingTypeOK
  <2>6. CASE UNCHANGED listVars
    BY <1>2, <2>6 DEF listVars, ListingTypeOK
  <2>. QED
    BY <1>2, <2>2, <2>3, <2>4, <2>5, <2>6 DEF ListingNext
<1>. QED
  BY <1>1, <1>2, PTL DEF ListingSpec

-----------------------------------------------------------------------------
(* Money: roundings.                                                       *)

\* Division leaves less than the divisor.
LEMMA Division ==
  ASSUME NEW n \in Nat, NEW d \in Nat \ {0}
  PROVE  /\ n \div d \in Nat
         /\ d * (n \div d) <= n /\ n < d * (n \div d) + d
OBVIOUS

\* Rounding half up is off by half a unit at most.
LEMMA HalfUpIsNear ==
  ASSUME NEW n \in Nat, NEW d \in Nat \ {0}
  PROVE  /\ HalfUp(n, d) \in Nat
         /\ 2 * (d * HalfUp(n, d)) <= 2 * n + d
         /\ 2 * n < 2 * (d * HalfUp(n, d)) + d
<1> DEFINE q == (2 * n + d) \div (2 * d)
<1>1. 2 * n + d \in Nat /\ 2 * d \in Nat \ {0}
  OBVIOUS
<1>2. /\ q \in Nat
      /\ (2 * d) * q <= 2 * n + d /\ 2 * n + d < (2 * d) * q + 2 * d
  BY <1>1, Division
<1>3. \A k \in Nat : (2 * d) * k = 2 * (d * k) /\ d * k \in Nat
  OBVIOUS
<1> HIDE DEF q
<1>4. /\ 2 * (d * q) <= 2 * n + d /\ 2 * n + d < 2 * (d * q) + 2 * d
      /\ d * q \in Nat
  BY <1>2, <1>3
<1>5. 2 * n < 2 * (d * q) + d
  BY <1>4
<1>. QED
  BY <1>2, <1>4, <1>5 DEF HalfUp, q

\* So is rounding half to even, to a hundredth.
LEMMA HalfEvenIsNear ==
  ASSUME NEW n \in Nat
  PROVE  /\ HalfEven(n, 100) \in Nat
         /\ 100 * HalfEven(n, 100) <= n + 50
         /\ n <= 100 * HalfEven(n, 100) + 50
BY DEF HalfEven

\* Rounding up is off by less than a unit.
LEMMA CeilingIsNear ==
  ASSUME NEW n \in Nat
  PROVE  /\ Ceiling(n, 10000) \in Nat
         /\ n <= 10000 * Ceiling(n, 10000)
         /\ 10000 * Ceiling(n, 10000) < n + 10000
BY DEF Ceiling

\* The smallest step a currency is charged in, as far as rounding can tell.
Whole(currency) == IF currency.rounding = "none" THEN currency.unit ELSE 100

\* A charge is off by less than the smallest step.
LEMMA QuantizeIsNear ==
  ASSUME NEW currency \in CurrencyRow, NEW n \in Nat
  PROVE  /\ Quantize(currency, n) \in Nat
         /\ 100 * Quantize(currency, n) < n + 100 * Whole(currency)
         /\ n < 100 * Quantize(currency, n) + 100 * Whole(currency)
         /\ Quantize(currency, n) = 0 => 2 * n < 100 * Whole(currency)
<1>1. /\ currency.rounding \in {"none", "nearest", "up"}
      /\ currency.unit \in Nat \ {0}
  BY DEF CurrencyRow
<1>2. CASE currency.rounding = "none"
  <2> DEFINE u == currency.unit
             q == HalfUp(n, 100 * u)
  <2>1. 100 * u \in Nat \ {0} /\ u \in Nat \ {0}
    BY <1>1
  <2>2. /\ q \in Nat
        /\ 2 * ((100 * u) * q) <= 2 * n + 100 * u
        /\ 2 * n < 2 * ((100 * u) * q) + 100 * u
    BY <2>1, HalfUpIsNear
  <2>3. Quantize(currency, n) = u * q /\ Whole(currency) = u
    BY <1>2 DEF Quantize, Whole
  <2> HIDE DEF q, u
  <2>4. (100 * u) * q = 100 * (u * q) /\ u * q \in Nat
    BY <2>1, <2>2
  <2>. QED
    BY <2>1, <2>2, <2>3, <2>4
<1>3. CASE currency.rounding = "nearest"
  <2>1. /\ HalfUp(n, 10000) \in Nat
        /\ 2 * (10000 * HalfUp(n, 10000)) <= 2 * n + 10000
        /\ 2 * n < 2 * (10000 * HalfUp(n, 10000)) + 10000
    BY HalfUpIsNear
  <2>2. Quantize(currency, n) = 100 * HalfUp(n, 10000) /\ Whole(currency) = 100
    BY <1>3 DEF Quantize, Whole
  <2>. QED
    BY <2>1, <2>2
<1>4. CASE currency.rounding = "up"
  <2>1. Quantize(currency, n) = 100 * Ceiling(n, 10000) /\ Whole(currency) = 100
    BY <1>4 DEF Quantize, Whole
  <2>. QED
    BY <2>1, CeilingIsNear
<1>. QED
  BY <1>1, <1>2, <1>3, <1>4

-----------------------------------------------------------------------------
(* Money: baskets and coupons.                                             *)

\* Prices and quantities are natural numbers, and so are their sums.
LEMMA BasketSums ==
  ASSUME NEW b \in [Variant -> Nat]
  PROVE  /\ IsFiniteSet(Lines(b)) /\ Lines(b) \subseteq Variant
         /\ \A v \in Variant : /\ Price(v) \in Nat /\ LineTotal(b, v) \in Nat
                               /\ LineTotals(b)[v] = LineTotal(b, v)
                               /\ LineSavings(b, v) \in Nat
         /\ Subtotal(b) \in Nat
<1>1. IsFiniteSet(Lines(b)) /\ Lines(b) \subseteq Variant
  BY QuotingAssumption, FS_Subset DEF Lines
<1>2. ASSUME NEW v \in Variant
      PROVE  /\ Price(v) \in Nat /\ LineTotal(b, v) \in Nat
             /\ LineTotals(b)[v] = LineTotal(b, v)
             /\ LineSavings(b, v) \in Nat
  <2>1. Good[v] \in GoodRow
    BY QuotingAssumption
  <2>2. Price(v) \in Nat /\ UnitMrp(v) \in Nat
    BY <2>1 DEF GoodRow, Optional, Price, UnitMrp, CompareAt
  <2>3. LineTotal(b, v) \in Nat /\ LineSavings(b, v) \in Nat
    BY <2>2 DEF LineTotal, LineSavings, AtLeastZero
  <2>. QED
    BY <2>2, <2>3 DEF LineTotals
<1>3. Subtotal(b) \in Nat
  BY <1>1, <1>2, SumType DEF Subtotal
<1>. QED
  BY <1>1, <1>2, <1>3

\* The lines a coupon covers.
Covered(c, b) ==
  {v \in Lines(b) : \/ ~Restricted(c)
                    \/ Good[v].product \in c.products
                    \/ \E d \in c.categories : d \in Lineage(Good[v].category)}

\* What eligible_subtotal adds up is what the covered lines cost.
LEMMA EligibleIsCovered ==
  ASSUME NEW b \in [Variant -> Nat], NEW c, c.categories \subseteq DOMAIN Parent
  PROVE  /\ EligibleSubtotal(c, b) = SumFunctionOnSet(LineTotals(b), Covered(c, b))
         /\ EligibleSubtotal(c, b) \in 0 .. Subtotal(b)
<1> DEFINE filed == UNION {Subtree(d) : d \in c.categories}
           some == {v \in Lines(b) : Good[v].product \in c.products
                                     \/ Good[v].category \in filed}
<1>1. EligibleSubtotal(c, b) = SumFunctionOnSet(LineTotals(b), Covered(c, b))
  <2>1. CASE ~Restricted(c)
    <3>1. Covered(c, b) = Lines(b)
      BY <2>1 DEF Covered
    <3>. QED
      BY <2>1, <3>1 DEF EligibleSubtotal, Subtotal
  <2>2. CASE Restricted(c)
    <3>1. \A v \in Lines(b) : Good[v].category \in DOMAIN Parent
      BY BasketSums, QuotingAssumption
    <3>2. \A v \in Lines(b) :
            Good[v].category \in filed
              <=> \E d \in c.categories : d \in Lineage(Good[v].category)
      BY <3>1 DEF Subtree
    <3>3. some = Covered(c, b)
      BY <2>2, <3>2 DEF Covered
    <3>4. EligibleSubtotal(c, b) = SumFunctionOnSet(LineTotals(b), some)
      BY <2>2 DEF EligibleSubtotal
    <3>. QED
      BY <3>3, <3>4
  <2>. QED
    BY <2>1, <2>2
<1>2. Covered(c, b) \in SUBSET Lines(b) /\ IsFiniteSet(Covered(c, b))
  BY BasketSums, FS_Subset DEF Covered
<1>3. \A v \in Lines(b) : LineTotals(b)[v] \in Nat
  BY BasketSums
<1>4. SumFunctionOnSet(LineTotals(b), Covered(c, b)) \in Nat
  BY <1>2, <1>3, SumType
<1>5. SumFunctionOnSet(LineTotals(b), Covered(c, b)) <= Subtotal(b)
  BY <1>2, <1>3, BasketSums, SumOfFewer DEF Subtotal
<1>. QED
  BY <1>1, <1>4, <1>5, BasketSums

\* What a discount is, once its base is known.
Discount(c, base) ==
  LET uncapped == base * c.value
      percentage == IF c.max_discount = None THEN uncapped
                    ELSE Least(uncapped, 100 * c.max_discount)
  IN  CASE c.type = "free_shipping" -> 0
        [] c.type = "percentage" -> HalfUp(Least(percentage, 100 * base), 100)
        [] c.type = "fixed" -> Least(c.value, base)

LEMMA DiscountOfBase ==
  ASSUME NEW c, NEW amount, NEW b
  PROVE  DiscountFor(c, amount, b) = Discount(c, DiscountBase(c, amount, b))
BY DEF DiscountFor, Discount

\* A discount takes no more than its base.
LEMMA DiscountWithinBase ==
  ASSUME NEW c \in CouponRow, NEW base \in Nat
  PROVE  Discount(c, base) \in 0 .. base
<1>1. /\ c.type \in {"percentage", "fixed", "free_shipping"} /\ c.value \in Nat
      /\ c.max_discount \in Nat \cup {None}
  BY DEF CouponRow, Optional
<1>2. CASE c.type = "free_shipping"
  BY <1>2 DEF Discount
<1>3. CASE c.type = "fixed"
  BY <1>1, <1>3 DEF Discount, Least
<1>4. CASE c.type = "percentage"
  <2> DEFINE uncapped == base * c.value
             percentage == IF c.max_discount = None THEN uncapped
                           ELSE Least(uncapped, 100 * c.max_discount)
             taken == Least(percentage, 100 * base)
  <2>1. uncapped \in Nat
    BY <1>1
  <2>2. percentage \in Nat
    <3> HIDE DEF uncapped
    <3>. QED
      BY <1>1, <2>1 DEF Least
  <2>3. taken \in 0 .. 100 * base
    <3> HIDE DEF percentage
    <3>. QED
      BY <2>2 DEF Least
  <2>4. Discount(c, base) = HalfUp(taken, 100)
    BY <1>4 DEF Discount
  <2> HIDE DEF taken
  <2>5. /\ HalfUp(taken, 100) \in Nat
        /\ 2 * (100 * HalfUp(taken, 100)) <= 2 * taken + 100
    BY <2>3, HalfUpIsNear
  <2>. QED
    BY <2>3, <2>4, <2>5
<1>. QED
  BY <1>1, <1>2, <1>3, <1>4

\* Whether a coupon is switched off changes nothing about its discount, and
\* the discount is the one of the covered lines' price.
LEMMA DiscountOfCovered ==
  ASSUME NEW c \in Coupon, NEW usable,
         NEW b \in [Variant -> Nat], b # None
  PROVE  DiscountFor([Terms[c] EXCEPT !.is_active = usable], Subtotal(b), b)
           = Discount(Terms[c], SumFunctionOnSet(LineTotals(b), Covered(Terms[c], b)))
<1> DEFINE d == [Terms[c] EXCEPT !.is_active = usable]
<1>1. Terms[c] \in CouponRow
  BY PricingAssumption
<1>2. /\ d.type = Terms[c].type /\ d.value = Terms[c].value
      /\ d.max_discount = Terms[c].max_discount
      /\ d.products = Terms[c].products /\ d.categories = Terms[c].categories
      /\ d.categories \subseteq DOMAIN Parent
  BY <1>1 DEF CouponRow
<1> HIDE DEF d
<1>3. Covered(d, b) = Covered(Terms[c], b)
  BY <1>2 DEF Covered, Restricted
<1>4. DiscountBase(d, Subtotal(b), b) = SumFunctionOnSet(LineTotals(b), Covered(d, b))
  <2>1. CASE Restricted(d)
    BY <1>2, <2>1, EligibleIsCovered DEF DiscountBase
  <2>2. CASE ~Restricted(d)
    <3>1. Covered(d, b) = Lines(b)
      BY <2>2 DEF Covered
    <3>. QED
      BY <2>2, <3>1 DEF DiscountBase, Subtotal
  <2>. QED
    BY <2>1, <2>2
<1>5. \A base : Discount(d, base) = Discount(Terms[c], base)
  BY <1>2 DEF Discount
<1>. QED
  BY <1>3, <1>4, <1>5, DiscountOfBase DEF d

-----------------------------------------------------------------------------
(* Money: tax and delivery.                                                *)

\* Tax is a natural number, and none is charged without naming it.
LEMMA TaxIsNamed ==
  ASSUME NEW b \in [Variant -> Nat], NEW to, NEW where, NEW day
  PROVE  LET named == TaxLines(b, to, where, day)
         IN  /\ TaxTotal(named) \in Nat
             /\ named # {} => TaxTotal(named) > 0
             /\ IsFiniteSet(named)
             /\ \A l \in named : l.amount \in Nat
<1> DEFINE rules == ApplicableRules(to, where, day)
           matched(v) == RulesForCategory(rules, Good[v].category)
           names == {r.name : r \in rules} \cup {"Tax"}
           percent(v, n) ==
             IF matched(v) # {}
               THEN SumFunctionOnSet([r \in TaxRules |-> r.percent],
                                     {r \in matched(v) : r.name = n})
               ELSE IF n = "Tax" THEN Good[v].tax_percent ELSE 0
           taxes(n) == [v \in Variant |-> LineTotal(b, v) * percent(v, n)]
           amount(n) == HalfUp(SumFunctionOnSet(taxes(n), Lines(b)), 100)
           taxed == {n \in names : amount(n) > 0}
           named == TaxLines(b, to, where, day)
<1>1. rules \subseteq TaxRules /\ IsFiniteSet(rules)
  BY QuotingAssumption, FS_Subset DEF ApplicableRules
<1>2. ASSUME NEW v \in Variant, NEW n PROVE percent(v, n) \in Nat
  <2>1. Good[v].tax_percent \in Nat
    BY QuotingAssumption DEF GoodRow
  <2> DEFINE own == {r \in matched(v) : r.name = n}
             percents == [r \in TaxRules |-> r.percent]
  <2>2. own \subseteq TaxRules
    BY <1>1 DEF RulesForCategory
  <2>3. \A r \in own : percents[r] \in Nat
    BY <2>2, QuotingAssumption DEF TaxRuleRow
  <2>4. IsFiniteSet(own)
    BY <2>2, QuotingAssumption, FS_Subset
  <2> HIDE DEF own, percents
  <2>5. SumFunctionOnSet(percents, own) \in Nat
    BY <2>3, <2>4, SumType
  <2>. QED
    BY <2>1, <2>5 DEF own, percents
<1>3. ASSUME NEW n PROVE amount(n) \in Nat
  <2>1. \A v \in Lines(b) : taxes(n)[v] \in Nat
    <3>1. ASSUME NEW v \in Lines(b) PROVE taxes(n)[v] \in Nat
      <4>1. v \in Variant /\ LineTotal(b, v) \in Nat /\ percent(v, n) \in Nat
        BY <1>2, BasketSums
      <4> HIDE DEF percent
      <4>. QED
        BY <4>1
    <3>. QED
      BY <3>1
  <2> HIDE DEF taxes
  <2>2. SumFunctionOnSet(taxes(n), Lines(b)) \in Nat
    BY <2>1, BasketSums, SumType
  <2>. QED
    BY <2>2, HalfUpIsNear
<1>4. named = {[name |-> n, amount |-> amount(n)] : n \in taxed}
  BY DEF TaxLines
<1>5. IsFiniteSet(taxed)
  <2>1. [r \in rules |-> r.name] \in Surjection(rules, {r.name : r \in rules})
    BY DEF Surjection
  <2>2. IsFiniteSet({r.name : r \in rules})
    BY <1>1, <2>1, FS_Surjection
  <2>3. IsFiniteSet(names)
    BY <2>2, FS_AddElement
  <2> HIDE DEF names, amount
  <2>. QED
    BY <2>3, FS_Subset
<1> HIDE DEF amount, names
<1>6. IsFiniteSet(named) /\ \A l \in named : l.amount \in Nat /\ l.amount > 0
  <2>1. [n \in taxed |-> [name |-> n, amount |-> amount(n)]] \in Surjection(taxed, named)
    BY <1>4 DEF Surjection
  <2>2. \A n \in taxed : amount(n) \in Nat /\ amount(n) > 0
    BY <1>3
  <2> HIDE DEF taxed
  <2>. QED
    BY <1>4, <1>5, <2>1, <2>2, FS_Surjection
<1> HIDE DEF named
<1> DEFINE asked == [l \in named |-> l.amount]
<1>7. \A l \in named : asked[l] \in Nat /\ asked[l] > 0
  BY <1>6
<1>8. TaxTotal(named) = SumFunctionOnSet(asked, named)
  BY DEF TaxTotal
<1> HIDE DEF asked
<1>9. SumFunctionOnSet(asked, named) \in Nat
  BY <1>6, <1>7, SumType
<1>10. ASSUME named # {} PROVE SumFunctionOnSet(asked, named) > 0
  <2>1. PICK l \in named : TRUE
    BY <1>10
  <2>2. asked[l] <= SumFunctionOnSet(asked, named)
    BY <1>6, <1>7, SumHasEach
  <2>. QED
    BY <1>7, <1>9, <2>2
<1>. QED
  BY <1>6, <1>8, <1>9, <1>10 DEF named

\* Every option offered is a method with a price.
LEMMA OptionsHavePrices ==
  ASSUME NEW b \in [Variant -> Nat], NEW to, NEW value \in Nat, NEW bands \in SUBSET Bands
  PROVE  \A o \in DeliveryOptions(b, to, value, bands) :
           o.method \in DOMAIN Methods /\ o.price \in Nat
<1> DEFINE fits(m) == {s \in bands : /\ s.zone = ZoneOf[to] /\ s.method = m
                                     /\ Covers(s, Weight(b), value)}
           first(m) == CHOOSE s \in fits(m) :
                         \A c \in fits(m) : s.min_weight <= c.min_weight
<1>1. ASSUME NEW m, fits(m) # {}
      PROVE  first(m) \in Bands
  <2> DEFINE weights == {s.min_weight : s \in fits(m)}
  <2>1. \A s \in fits(m) : s \in Bands /\ s.min_weight \in Nat
    BY QuotingAssumption DEF ShippingRateRow
  <2> HIDE DEF fits
  <2>2. weights \subseteq Nat /\ weights # {}
    BY <1>1, <2>1
  <2>3. PICK least \in weights : \A k \in weights : least <= k
    BY <2>2, LeastNatural
  <2>4. \E s \in fits(m) : \A c \in fits(m) : s.min_weight <= c.min_weight
    BY <2>3
  <2>5. first(m) \in fits(m)
    BY <2>4
  <2>. QED
    BY <2>1, <2>5
<1>2. ASSUME NEW s \in Bands PROVE ChargeFor(s, value) \in Nat
  BY QuotingAssumption DEF ShippingRateRow, ChargeFor
<1>3. \A o \in DeliveryOptions(b, to, value, bands) :
        \E m \in {n \in DOMAIN Methods : fits(n) # {}} :
          o = [method |-> m, price |-> ChargeFor(first(m), value)]
  BY DEF DeliveryOptions
<1> HIDE DEF fits, first
<1>. QED
  BY <1>1, <1>2, <1>3

\* Among options there is a default, and it is one of them.
LEMMA DefaultIsOffered ==
  ASSUME NEW options, options # {},
         \A o \in options : o.method \in DOMAIN Methods /\ o.price \in Nat
  PROVE  DefaultOption(options) \in options
<1> DEFINE prices == {o.price : o \in options}
           days(o) == Methods[o.method].min_days
<1>1. prices \subseteq Nat /\ prices # {}
  OBVIOUS
<1>2. PICK low \in prices : \A k \in prices : low <= k
  BY <1>1, LeastNatural
<1> DEFINE cheapest == {o \in options : o.price = low}
           spans == {days(o) : o \in cheapest}
<1>3. \A o \in options : days(o) \in Nat
  BY QuotingAssumption DEF ShippingMethodRow
<1> HIDE DEF days
<1>4. spans \subseteq Nat /\ spans # {}
  BY <1>2, <1>3
<1>5. PICK short \in spans : \A k \in spans : short <= k
  BY <1>4, LeastNatural
<1>6. PICK best \in cheapest : days(best) = short
  BY <1>5
<1>7. \A o \in options : \/ best.price < o.price
                         \/ best.price = o.price /\ days(best) <= days(o)
  <2>1. ASSUME NEW o \in options
        PROVE  \/ best.price < o.price
               \/ best.price = o.price /\ days(best) <= days(o)
    <3>1. best.price = low /\ low <= o.price /\ o.price \in Nat /\ low \in Nat
      BY <1>1, <1>2, <1>6
    <3>2. o.price = low => days(best) <= days(o)
      BY <1>5, <1>6
    <3>. QED
      BY <3>1, <3>2
  <2>. QED
    BY <2>1
<1>. QED
  BY <1>6, <1>7 DEF DefaultOption, days

-----------------------------------------------------------------------------
(* Money: orders and invoices.                                             *)

\* The order's figures: what place_order computed from the basket, which nobody
\* changes afterwards, and each charge at the rate the order keeps.
OrderFigures ==
  order # None =>
    LET cur == Currency[order.currency]
    IN  /\ order.coupon \in Coupon \cup {None}
        /\ order.subtotal = Subtotal(items)
        /\ order.coupon_discount =
             IF order.coupon = None THEN 0
             ELSE Discount(Terms[order.coupon],
                           SumFunctionOnSet(LineTotals(items),
                                            Covered(Terms[order.coupon], items)))
        /\ order.coupon_discount \in 0 .. order.subtotal
        /\ order.delivery \in Nat /\ order.tax \in Nat
        /\ order.tax_lines # {} => order.tax = TaxTotal(order.tax_lines)
        /\ order.total = order.subtotal - order.coupon_discount
                         + order.delivery + order.tax
        /\ order.currency \in DOMAIN Currency
        /\ order.rate \in Nat \ {0}
        /\ \A f \in Charges : order[f] \in Nat
        /\ order.charged_subtotal = Convert(order.subtotal, cur, order.rate)
        /\ order.charged_total = Convert(order.total, cur, order.rate)

\* The invoice's figures: the order's, and the lines at the order's rate.
InvoiceFigures ==
  invoice # None =>
    /\ order # None
    /\ invoice.subtotal = Figure(order.subtotal, order.charged_subtotal, order.rate)
    /\ invoice.total = Figure(order.total, order.charged_total, order.rate)
    /\ invoice.lines = {[variant |-> v,
                         total |-> items[v] * Figure(Price(v), 0, order.rate)] :
                          v \in Lines(items)}

PricingInv ==
  /\ today \in 0 .. MaxDay
  /\ retired \subseteq Coupon /\ withdrawn \subseteq Bands
  /\ rate \in [DOMAIN Currency -> Nat \ {0}]
  /\ customer \in [items : Baskets, to : Destinations, member : BOOLEAN, ordered : BOOLEAN]
  /\ attached \in Coupon \cup {None}
  /\ OrderFigures
  /\ InvoiceFigures

\* A charge is a natural number.
LEMMA ChargeIsNatural ==
  ASSUME NEW cur \in DOMAIN Currency, NEW amount \in Nat, NEW at \in Nat \ {0}
  PROVE  Convert(amount, Currency[cur], at) \in Nat
<1>1. Currency[cur] \in CurrencyRow
  BY PricingAssumption
<1>2. amount * at \in Nat
  OBVIOUS
<1>. QED
  BY <1>1, <1>2, QuantizeIsNear DEF Convert

\* The figures place_order freezes are explained.
LEMMA PlacementExplained ==
  ASSUME PricingInv,
         NEW code \in DOMAIN Methods \cup {None}, NEW cur \in DOMAIN Currency,
         PlaceOrder(code, cur), invoice = None
  PROVE  PricingInv'
<1> DEFINE savings == SumFunctionOnSet([v \in Variant |-> LineSavings(items, v)], Lines(items))
           total == Discounted + DeliveryCharge(code) + TaxCharge
           at == RateFor(cur)
           charged(amount) == Convert(amount, Currency[cur], at)
<1>1. items \in [Variant -> Nat] /\ items # None
  BY PricingAssumption DEF PricingInv, items
<1>2. Subtotal(items) \in Nat /\ savings \in Nat
  <2>1. Subtotal(items) \in Nat
    BY <1>1, BasketSums
  <2> DEFINE saved == [v \in Variant |-> LineSavings(items, v)]
  <2>2. IsFiniteSet(Lines(items)) /\ \A v \in Lines(items) : saved[v] \in Nat
    BY <1>1, BasketSums
  <2> HIDE DEF saved
  <2>3. SumFunctionOnSet(saved, Lines(items)) \in Nat
    BY <2>2, SumType
  <2>. QED
    BY <2>1, <2>3 DEF saved
<1>3. /\ OrderDiscount =
           IF attached = None THEN 0
           ELSE Discount(Terms[attached],
                         SumFunctionOnSet(LineTotals(items), Covered(Terms[attached], items)))
      /\ OrderDiscount \in 0 .. Subtotal(items)
  <2>1. CASE attached = None
    BY <1>2, <2>1 DEF OrderDiscount
  <2>2. CASE attached # None
    <3> DEFINE base == SumFunctionOnSet(LineTotals(items), Covered(Terms[attached], items))
    <3>1. attached \in Coupon
      BY <2>2 DEF PricingInv
    <3>2. OrderDiscount = Discount(Terms[attached], base)
      BY <1>1, <2>2, <3>1, DiscountOfCovered DEF OrderDiscount, Live
    <3>3. Terms[attached] \in CouponRow /\ Terms[attached].categories \subseteq DOMAIN Parent
      BY <3>1, PricingAssumption DEF CouponRow
    <3>4. base \in 0 .. Subtotal(items)
      BY <1>1, <3>3, EligibleIsCovered
    <3> HIDE DEF base
    <3>5. Discount(Terms[attached], base) \in 0 .. base
      BY <3>3, <3>4, DiscountWithinBase
    <3>. QED
      BY <1>2, <2>2, <3>2, <3>4, <3>5 DEF base
  <2>. QED
    BY <2>1, <2>2
<1>4. Discounted \in Nat /\ Discounted = Subtotal(items) - OrderDiscount
  BY <1>2, <1>3 DEF Discounted, AtLeastZero
<1>5. DeliveryCharge(code) \in Nat
  <2>1. CASE FreeShipping
    BY <2>1 DEF DeliveryCharge
  <2>2. CASE ~FreeShipping /\ OptionsAtPlacement # {}
    <3>1. BandsInForce \in SUBSET Bands
      BY DEF BandsInForce
    <3>2. \A o \in OptionsAtPlacement : o.method \in DOMAIN Methods /\ o.price \in Nat
      BY <1>1, <1>4, <3>1, OptionsHavePrices DEF OptionsAtPlacement
    <3>3. DefaultOption(OptionsAtPlacement) \in OptionsAtPlacement
      BY <2>2, <3>2, DefaultIsOffered
    <3>4. \/ OptionByCode(OptionsAtPlacement, code) = None
          \/ OptionByCode(OptionsAtPlacement, code) \in OptionsAtPlacement
      BY DEF OptionByCode
    <3>5. ChosenOption(code) \in OptionsAtPlacement
      BY <3>3, <3>4 DEF ChosenOption
    <3>. QED
      BY <2>2, <3>2, <3>5 DEF DeliveryCharge
  <2>3. CASE ~FreeShipping /\ OptionsAtPlacement = {}
    BY <2>3, QuotingAssumption DEF DeliveryCharge, FlatCharge
  <2>. QED
    BY <2>1, <2>2, <2>3
<1> DEFINE named == TaxLines(items, country, state, today)
<1>6. /\ TaxCharge \in Nat
      /\ named # {} => TaxCharge = TaxTotal(named)
  <2>1. TaxTotal(named) \in Nat /\ (named # {} => TaxTotal(named) > 0)
    BY <1>1, TaxIsNamed
  <2>2. CartTax(Discounted) \in Nat
    <3>1. Discounted * FlatTax \in Nat
      BY <1>4, QuotingAssumption
    <3>. QED
      BY <3>1, HalfUpIsNear DEF CartTax
  <2> HIDE DEF named
  <2>3. TaxCharge = IF TaxTotal(named) = 0 /\ country = None THEN CartTax(Discounted)
                    ELSE TaxTotal(named)
    BY DEF TaxCharge, named
  <2>. QED
    BY <2>1, <2>2, <2>3
<1>7. total \in Nat /\ total = Subtotal(items) - OrderDiscount + DeliveryCharge(code) + TaxCharge
  BY <1>2, <1>3, <1>4, <1>5, <1>6
<1>8. at \in Nat \ {0}
  BY DEF PricingInv, RateFor
<1>9. \A amount \in Nat : charged(amount) \in Nat
  <2> HIDE DEF at
  <2>. QED
    BY <1>8, ChargeIsNatural
<1>10. savings + OrderDiscount \in Nat
  BY <1>2, <1>3
<1> DEFINE placed ==
      [subtotal |-> Subtotal(items), product_discount |-> savings,
       coupon |-> attached, coupon_discount |-> OrderDiscount,
       delivery |-> DeliveryCharge(code), tax |-> TaxCharge, total |-> total,
       method |-> IF OptionsAtPlacement = {} THEN None ELSE ChosenOption(code).method,
       tax_lines |-> named, currency |-> cur, rate |-> at, placed |-> today,
       charged_subtotal |-> charged(Subtotal(items)),
       charged_discount |-> charged(savings + OrderDiscount),
       charged_delivery |-> charged(DeliveryCharge(code)),
       charged_tax |-> charged(TaxCharge), charged_total |-> charged(total)]
<1>11. order' = placed
  BY DEF PlaceOrder
<1>12. /\ UNCHANGED <<today, retired, withdrawn, rate, customer, invoice>> /\ attached' = None
       /\ items' = items
  BY DEF PlaceOrder, settings, items
<1> HIDE DEF savings, total, at, charged, named
<1>13. /\ placed.coupon = attached /\ placed.subtotal = Subtotal(items)
       /\ placed.coupon_discount = OrderDiscount
       /\ placed.delivery = DeliveryCharge(code) /\ placed.tax = TaxCharge
       /\ placed.tax_lines = named /\ placed.total = total
       /\ placed.currency = cur /\ placed.rate = at
       /\ placed.charged_subtotal = charged(Subtotal(items))
       /\ placed.charged_total = charged(total)
  OBVIOUS
<1>14. \A f \in Charges : placed[f] \in Nat
  BY <1>2, <1>5, <1>6, <1>7, <1>9, <1>10 DEF Charges
<1> HIDE DEF placed
<1>15. OrderFigures'
  <2>1. /\ order'.coupon = attached /\ attached \in Coupon \cup {None}
        /\ order'.subtotal = Subtotal(items')
        /\ order'.coupon_discount = OrderDiscount
        /\ order'.coupon_discount \in 0 .. order'.subtotal
    BY <1>3, <1>11, <1>12, <1>13 DEF PricingInv
  <2>2. /\ order'.delivery \in Nat /\ order'.tax \in Nat
        /\ order'.tax_lines # {} => order'.tax = TaxTotal(order'.tax_lines)
        /\ order'.total = order'.subtotal - order'.coupon_discount
                          + order'.delivery + order'.tax
    BY <1>5, <1>6, <1>7, <1>11, <1>13
  <2>3. /\ order'.currency \in DOMAIN Currency /\ order'.rate \in Nat \ {0}
        /\ \A f \in Charges : order'[f] \in Nat
        /\ order'.charged_subtotal
             = Convert(order'.subtotal, Currency[order'.currency], order'.rate)
        /\ order'.charged_total
             = Convert(order'.total, Currency[order'.currency], order'.rate)
    BY <1>8, <1>11, <1>13, <1>14 DEF charged
  <2>4. order'.coupon_discount =
          IF order'.coupon = None THEN 0
          ELSE Discount(Terms[order'.coupon],
                        SumFunctionOnSet(LineTotals(items'),
                                         Covered(Terms[order'.coupon], items')))
    BY <1>3, <1>12, <2>1
  <2>. QED
    BY <2>1, <2>2, <2>3, <2>4 DEF OrderFigures
<1>16. InvoiceFigures'
  BY <1>12 DEF InvoiceFigures
<1>. QED
  BY <1>12, <1>15, <1>16 DEF PricingInv

\* Figures explained stay explained.
LEMMA PricingInvariance == PricingSpec => []PricingInv
<1>1. PricingInit => PricingInv
  BY PricingAssumption DEF PricingInit, PricingInv, OrderFigures, InvoiceFigures
<1>2. ASSUME PricingInv, [PricingNext]_pricingVars PROVE PricingInv'
  <2>1. ASSUME UNCHANGED <<order, invoice>>, items' = items
        PROVE  OrderFigures' /\ InvoiceFigures'
    <3>1. OrderFigures'
      BY <1>2, <2>1 DEF PricingInv, OrderFigures
    <3>2. InvoiceFigures'
      BY <1>2, <2>1 DEF PricingInv, InvoiceFigures
    <3>. QED
      BY <3>1, <3>2
  <2>2. ASSUME NEW c \in Coupon, ApplyCoupon(c) \/ RetireCoupon(c) PROVE PricingInv'
    <3>1. UNCHANGED <<order, invoice, customer, today, withdrawn, rate>>
      BY <2>2 DEF ApplyCoupon, RetireCoupon, settings
    <3>2. OrderFigures' /\ InvoiceFigures'
      BY <2>1, <3>1 DEF items
    <3>3. attached' \in Coupon \cup {None} /\ retired' \subseteq Coupon
      BY <1>2, <2>2 DEF PricingInv, ApplyCoupon, RetireCoupon, settings
    <3>. QED
      BY <1>2, <3>1, <3>2, <3>3 DEF PricingInv
  <2>3. CASE RemoveCoupon \/ ShowPayment \/ NextDay
    <3>1. UNCHANGED <<order, invoice, customer, retired, withdrawn, rate>>
      BY <2>3 DEF RemoveCoupon, ShowPayment, NextDay, settings
    <3>2. OrderFigures' /\ InvoiceFigures'
      BY <2>1, <3>1 DEF items
    <3>3. attached' \in Coupon \cup {None} /\ today' \in 0 .. MaxDay
      BY <1>2, <2>3, PricingAssumption DEF PricingInv, RemoveCoupon, ShowPayment, NextDay
    <3>. QED
      BY <1>2, <3>1, <3>2, <3>3 DEF PricingInv
  <2>4. ASSUME NEW code \in DOMAIN Methods \cup {None}, NEW cur \in DOMAIN Currency,
               PlaceOrder(code, cur)
        PROVE  PricingInv'
    <3>1. order = None
      BY <2>4 DEF PlaceOrder
    <3>2. invoice = None
      BY <1>2, <3>1 DEF PricingInv, InvoiceFigures
    <3>. QED
      BY <1>2, <2>4, <3>2, PlacementExplained
  <2>5. CASE IssueInvoice
    <3>1. UNCHANGED <<order, customer, today, retired, withdrawn, rate, attached>>
      BY <2>5 DEF IssueInvoice, settings
    <3>2. OrderFigures'
      BY <1>2, <3>1 DEF PricingInv, OrderFigures, items
    <3>3. InvoiceFigures'
      BY <2>5, <3>1 DEF IssueInvoice, InvoiceFigures, items
    <3>. QED
      BY <1>2, <3>1, <3>2, <3>3 DEF PricingInv
  <2>6. ASSUME NEW b \in Bands, WithdrawBand(b) PROVE PricingInv'
    <3>1. UNCHANGED <<order, invoice, customer, today, retired, rate, attached>>
      BY <2>6 DEF WithdrawBand
    <3>2. OrderFigures' /\ InvoiceFigures'
      BY <2>1, <3>1 DEF items
    <3>. QED
      BY <1>2, <2>6, <3>1, <3>2 DEF PricingInv, WithdrawBand
  <2>7. ASSUME NEW cur \in DOMAIN Currency, NEW r \in LaterRates, SetRate(cur, r)
        PROVE  PricingInv'
    <3>1. UNCHANGED <<order, invoice, customer, today, retired, withdrawn, attached>>
      BY <2>7 DEF SetRate
    <3>2. OrderFigures' /\ InvoiceFigures'
      BY <2>1, <3>1 DEF items
    <3>3. rate' \in [DOMAIN Currency -> Nat \ {0}]
      BY <1>2, <2>7, PricingAssumption DEF PricingInv, SetRate
    <3>. QED
      BY <1>2, <3>1, <3>2, <3>3 DEF PricingInv
  <2>8. CASE UNCHANGED pricingVars
    <3>1. OrderFigures' /\ InvoiceFigures'
      BY <2>1, <2>8 DEF pricingVars, items
    <3>. QED
      BY <1>2, <2>8, <3>1 DEF PricingInv, pricingVars
  <2>. QED
    BY <1>2, <2>2, <2>3, <2>4, <2>5, <2>6, <2>7, <2>8 DEF PricingNext
<1>. QED
  BY <1>1, <1>2, PTL DEF PricingSpec

\* No figure of an order is negative, no coupon takes off more than the basket
\* is worth, and the total is what its parts add up to: for every table of
\* prices, taxes, bands and coupons.
THEOREM PricingTypeCorrect == PricingSpec => []PricingTypeOK
<1>1. PricingInv => PricingTypeOK
  BY DEF PricingInv, OrderFigures, InvoiceFigures, PricingTypeOK
<1>. QED
  BY <1>1, PricingInvariance, PTL

\* What the payment page shows while no band is withdrawn.
OptionsOfSubtotal == DeliveryOptions(items, country, Subtotal(items), Bands)

\* Delivery of an order on which the coupon took nothing off and which pays for
\* its delivery is one of the prices shown.
ShownInv ==
  withdrawn = {} =>
    /\ shown # None => shown.options = OptionsOfSubtotal
    /\ order # None /\ order.coupon_discount = 0 /\ order.method # None
         /\ ~(order.coupon # None /\ Terms[order.coupon].type = "free_shipping")
       => \E o \in OptionsOfSubtotal :
            o.method = order.method /\ o.price = order.delivery

\* Placed without a discount the order is quoted what the page was.
LEMMA QuotedAlike ==
  ASSUME PricingInv,
         NEW code \in DOMAIN Methods \cup {None}, NEW cur \in DOMAIN Currency,
         PlaceOrder(code, cur), withdrawn = {},
         order'.coupon_discount = 0, order'.method # None, ~FreeShipping
  PROVE  /\ ChosenOption(code) \in OptionsOfSubtotal
         /\ order'.method = ChosenOption(code).method
         /\ order'.delivery = ChosenOption(code).price
<1>1. items \in [Variant -> Nat]
  BY PricingAssumption DEF PricingInv, items
<1>2. Subtotal(items) \in Nat
  BY <1>1, BasketSums
<1>3. /\ order'.coupon_discount = OrderDiscount
      /\ order'.delivery = DeliveryCharge(code)
      /\ order'.method = IF OptionsAtPlacement = {} THEN None
                         ELSE ChosenOption(code).method
  BY DEF PlaceOrder
<1>4. Discounted = Subtotal(items)
  BY <1>2, <1>3 DEF Discounted, AtLeastZero
<1>5. OptionsAtPlacement = OptionsOfSubtotal
  <2>1. BandsInForce = Bands
    BY DEF BandsInForce
  <2>. QED
    BY <1>4, <2>1 DEF OptionsAtPlacement, OptionsOfSubtotal
<1>6. OptionsAtPlacement # {}
  BY <1>3
<1>7. ChosenOption(code) \in OptionsAtPlacement
  <2>1. \A o \in OptionsAtPlacement : o.method \in DOMAIN Methods /\ o.price \in Nat
    BY <1>1, <1>2, <1>5, OptionsHavePrices DEF OptionsOfSubtotal
  <2>2. DefaultOption(OptionsAtPlacement) \in OptionsAtPlacement
    BY <1>6, <2>1, DefaultIsOffered
  <2>3. \/ OptionByCode(OptionsAtPlacement, code) = None
        \/ OptionByCode(OptionsAtPlacement, code) \in OptionsAtPlacement
    BY DEF OptionByCode
  <2>. QED
    BY <2>2, <2>3 DEF ChosenOption
<1>. QED
  BY <1>3, <1>5, <1>6, <1>7 DEF DeliveryCharge

\* What was shown and charged stays so.
LEMMA ShownStep ==
  ASSUME PricingInv, ShownInv, [PricingNext]_pricingVars
  PROVE  ShownInv'
<1>1. ASSUME UNCHANGED <<customer, shown, order>>, withdrawn \subseteq withdrawn'
      PROVE  ShownInv'
  BY <1>1 DEF ShownInv, OptionsOfSubtotal, items, country
<1>2. ASSUME NEW code \in DOMAIN Methods \cup {None}, NEW cur \in DOMAIN Currency,
             PlaceOrder(code, cur)
      PROVE  ShownInv'
  <2>1. /\ UNCHANGED <<customer, withdrawn, shown>>
        /\ order'.coupon = attached /\ OptionsOfSubtotal' = OptionsOfSubtotal
    BY <1>2 DEF PlaceOrder, settings, OptionsOfSubtotal, items, country
  <2>2. shown # None /\ withdrawn = {} => shown.options = OptionsOfSubtotal
    BY DEF ShownInv
  <2>3. ASSUME withdrawn = {}, order'.coupon_discount = 0, order'.method # None,
               ~FreeShipping
        PROVE  \E o \in OptionsOfSubtotal :
                 o.method = order'.method /\ o.price = order'.delivery
    BY <1>2, <2>3, QuotedAlike
  <2>. QED
    BY <2>1, <2>2, <2>3 DEF ShownInv, FreeShipping
<1>3. CASE ShowPayment
  <2>1. UNCHANGED <<customer, withdrawn, order>> /\ order = None
    BY <1>3 DEF ShowPayment, settings
  <2>2. withdrawn = {} => shown'.options = OptionsOfSubtotal
    <3>1. withdrawn = {} => BandsInForce = Bands
      BY DEF BandsInForce
    <3>. QED
      BY <1>3, <3>1 DEF ShowPayment, OptionsOfSubtotal
  <2>3. OptionsOfSubtotal' = OptionsOfSubtotal
    BY <2>1 DEF OptionsOfSubtotal, items, country
  <2>. QED
    BY <2>1, <2>2, <2>3 DEF ShownInv
<1>4. ASSUME \/ \E c \in Coupon : ApplyCoupon(c) \/ RetireCoupon(c)
             \/ RemoveCoupon \/ IssueInvoice \/ NextDay
             \/ \E b \in Bands : WithdrawBand(b)
             \/ \E cur \in DOMAIN Currency, r \in LaterRates : SetRate(cur, r)
             \/ UNCHANGED pricingVars
      PROVE  ShownInv'
  <2>1. UNCHANGED <<customer, shown, order>> /\ withdrawn \subseteq withdrawn'
    BY <1>4 DEF ApplyCoupon, RetireCoupon, RemoveCoupon, IssueInvoice, NextDay,
                WithdrawBand, SetRate, settings, pricingVars
  <2>. QED
    BY <1>1, <2>1
<1>. QED
  BY <1>2, <1>3, <1>4 DEF PricingNext

\* The delivery price the payment page shows is the price charged, as
\* orders/views.py:157 says, unless a coupon takes something off the basket.
THEOREM ShownPriceHoldsUndiscounted ==
  PricingSpec =>
    [](order # None /\ order.coupon_discount = 0 => ShownDeliveryCharged)
<1>1. PricingInit => ShownInv
  BY DEF PricingInit, ShownInv
<1>2. ShownInv => (order # None /\ order.coupon_discount = 0 => ShownDeliveryCharged)
  BY DEF ShownInv, ShownDeliveryCharged
<1>3. PricingInv /\ ShownInv /\ [PricingNext]_pricingVars => ShownInv'
  BY ShownStep
<1>. QED
  BY <1>1, <1>2, <1>3, PricingInvariance, PTL DEF PricingSpec

\* A coupon takes off an order what it would take off the lines it covers alone.
THEOREM OnlyCoveredLinesEarn == PricingSpec => []OtherLinesEarnNothing
<1>1. ASSUME PricingInv, order # None, order.coupon # None
      PROVE  OtherLinesEarnNothing
  <2> DEFINE c == Terms[order.coupon]
             only == Qualifying(order.coupon)
             d == [c EXCEPT !.products = {}, !.categories = {}]
  <2>1. items \in [Variant -> Nat]
    BY <1>1, PricingAssumption DEF PricingInv, items
  <2>2. order.coupon \in Coupon /\ c \in CouponRow
    BY <1>1, PricingAssumption DEF PricingInv, OrderFigures
  <2>3. /\ only \in [Variant -> Nat]
        /\ \A v \in Covered(c, items) : only[v] = items[v]
        /\ Lines(only) = Covered(c, items)
    BY <2>1 DEF Qualifying, Covered, Lines
  <2>4. SumFunctionOnSet(LineTotals(items), Covered(c, items)) = Subtotal(only)
    <3>1. IsFiniteSet(Lines(only)) /\ Lines(only) \subseteq Variant
      BY <2>3, BasketSums
    <3>2. \A v \in Lines(only) : /\ LineTotals(items)[v] \in Nat
                                 /\ LineTotals(only)[v] = LineTotals(items)[v]
      <4>1. ASSUME NEW v \in Lines(only)
            PROVE  /\ LineTotals(items)[v] \in Nat
                   /\ LineTotals(only)[v] = LineTotals(items)[v]
        <5>1. v \in Variant /\ only[v] = items[v]
          BY <2>3, <3>1
        <5>2. LineTotals(only)[v] = LineTotals(items)[v]
          BY <5>1 DEF LineTotals, LineTotal
        <5>. QED
          BY <2>1, <5>1, <5>2, BasketSums
      <4>. QED
        BY <4>1
    <3>3. SumFunctionOnSet(LineTotals(items), Lines(only))
            = SumFunctionOnSet(LineTotals(only), Lines(only))
      BY <3>1, <3>2, SumOfSame
    <3>. QED
      BY <2>3, <3>3 DEF Subtotal
  <2>5. order.coupon_discount = Discount(c, Subtotal(only))
    BY <1>1, <2>4 DEF PricingInv, OrderFigures
  <2>6. /\ d.type = c.type /\ d.value = c.value /\ d.max_discount = c.max_discount
        /\ d.products = {} /\ d.categories = {}
    BY <2>2 DEF CouponRow
  <2> HIDE DEF d
  <2>7. DiscountFor(d, Subtotal(only), only) = Discount(c, Subtotal(only))
    <3>1. DiscountBase(d, Subtotal(only), only) = Subtotal(only)
      BY <2>6 DEF DiscountBase, Restricted
    <3>2. \A base : Discount(d, base) = Discount(c, base)
      BY <2>6 DEF Discount
    <3>. QED
      BY <3>1, <3>2, DiscountOfBase
  <2>. QED
    BY <2>5, <2>7 DEF OtherLinesEarnNothing, d
<1>2. PricingInv => OtherLinesEarnNothing
  BY <1>1 DEF OtherLinesEarnNothing
<1>. QED
  BY <1>2, PricingInvariance, PTL

\* A figure of the invoice is the charge, or the base amount converted again.
LEMMA FigureIsNear ==
  ASSUME NEW cur \in CurrencyRow, NEW base \in Nat, NEW at \in Nat \ {0}
  PROVE  LET told == Figure(base, Convert(base, cur, at), at)
         IN  /\ told \in Nat
             /\ 100 * told < base * at + 100 * Whole(cur)
             /\ base * at < 100 * told + 100 * Whole(cur)
             /\ \/ told = Convert(base, cur, at)
                \/ Convert(base, cur, at) = 0 /\ told < Whole(cur)
<1> DEFINE n == base * at
<1>1. n \in Nat
  OBVIOUS
<1>2. Whole(cur) \in Nat \ {0}
  BY DEF Whole, CurrencyRow
<1> HIDE DEF n
<1>3. /\ Quantize(cur, n) \in Nat
      /\ 100 * Quantize(cur, n) < n + 100 * Whole(cur)
      /\ n < 100 * Quantize(cur, n) + 100 * Whole(cur)
      /\ Quantize(cur, n) = 0 => 2 * n < 100 * Whole(cur)
  BY <1>1, QuantizeIsNear
<1>4. /\ HalfEven(n, 100) \in Nat
      /\ 100 * HalfEven(n, 100) <= n + 50
      /\ n <= 100 * HalfEven(n, 100) + 50
  BY <1>1, HalfEvenIsNear
<1>5. Convert(base, cur, at) = Quantize(cur, n)
  BY DEF Convert, n
<1>6. Figure(base, Convert(base, cur, at), at)
        = IF Quantize(cur, n) # 0 THEN Quantize(cur, n) ELSE HalfEven(n, 100)
  BY <1>5 DEF Figure, n
<1>7. CASE Quantize(cur, n) # 0
  BY <1>2, <1>3, <1>5, <1>6, <1>7 DEF n
<1>8. CASE Quantize(cur, n) = 0
  <2>1. HalfEven(n, 100) < Whole(cur)
    BY <1>1, <1>2, <1>3, <1>4, <1>8
  <2>. QED
    BY <1>1, <1>2, <1>3, <1>4, <1>5, <1>6, <1>8, <2>1 DEF n
<1>. QED
  BY <1>7, <1>8

\* The lines of the invoice are half a hundredth per piece away from what the
\* basket costs at the rate.
LEMMA ListedIsNear ==
  ASSUME NEW b \in [Variant -> Nat], NEW at \in Nat \ {0}
  PROVE  LET lines == {[variant |-> v, total |-> b[v] * Figure(Price(v), 0, at)] : v \in Lines(b)}
             listed == SumFunctionOnSet([l \in lines |-> l.total], lines)
             pieces == SumFunctionOnSet(b, Lines(b))
         IN  /\ listed \in Nat /\ pieces \in Nat
             /\ 100 * listed <= at * Subtotal(b) + 50 * pieces
             /\ at * Subtotal(b) <= 100 * listed + 50 * pieces
<1> DEFINE each(v) == HalfEven(Price(v) * at, 100)
           asked(v) == [variant |-> v, total |-> b[v] * Figure(Price(v), 0, at)]
           lines == {asked(v) : v \in Lines(b)}
           totals == [l \in lines |-> l.total]
           printed == [v \in Variant |-> b[v] * each(v)]
           pieces == SumFunctionOnSet(b, Lines(b))
<1>1. IsFiniteSet(Lines(b)) /\ Lines(b) \subseteq Variant
  BY BasketSums
<1>2. ASSUME NEW v \in Variant
      PROVE  /\ each(v) \in Nat /\ printed[v] \in Nat /\ b[v] \in Nat
             /\ LineTotals(b)[v] \in Nat
             /\ asked(v) = [variant |-> v, total |-> printed[v]]
             /\ 100 * printed[v] <= at * LineTotals(b)[v] + 50 * b[v]
             /\ at * LineTotals(b)[v] <= 100 * printed[v] + 50 * b[v]
  <2>1. Price(v) \in Nat /\ LineTotals(b)[v] = b[v] * Price(v) /\ b[v] \in Nat
    BY BasketSums DEF LineTotal
  <2>2. Price(v) * at \in Nat
    BY <2>1
  <2>3. /\ each(v) \in Nat
        /\ 100 * each(v) <= Price(v) * at + 50
        /\ Price(v) * at <= 100 * each(v) + 50
    BY <2>2, HalfEvenIsNear
  <2>4. asked(v) = [variant |-> v, total |-> printed[v]] /\ printed[v] = b[v] * each(v)
    BY DEF Figure
  <2> HIDE DEF each
  <2>5. \A k, m, n \in Nat : m <= n => k * m <= k * n
    OBVIOUS
  <2>6. /\ b[v] * (100 * each(v)) <= b[v] * (Price(v) * at + 50)
        /\ b[v] * (Price(v) * at) <= b[v] * (100 * each(v) + 50)
    BY <2>1, <2>2, <2>3, <2>5
  <2>7. /\ b[v] * (100 * each(v)) = 100 * (b[v] * each(v))
        /\ b[v] * (Price(v) * at + 50) = at * (b[v] * Price(v)) + 50 * b[v]
        /\ b[v] * (Price(v) * at) = at * (b[v] * Price(v))
        /\ b[v] * (100 * each(v) + 50) = 100 * (b[v] * each(v)) + 50 * b[v]
    <3>1. \A k, m, n \in Nat : k * (100 * m) = 100 * (k * m)
      OBVIOUS
    <3>2. \A k, m, n \in Nat : k * (m * n) = n * (k * m)
      OBVIOUS
    <3>3. \A k, m, n \in Nat : k * (m + 50) = k * m + 50 * k
      OBVIOUS
    <3>4. 100 * each(v) \in Nat /\ b[v] \in Nat /\ Price(v) \in Nat /\ at \in Nat
      BY <2>1, <2>3
    <3>5. b[v] * (100 * each(v)) = 100 * (b[v] * each(v))
      BY <2>1, <2>3, <3>1
    <3>6. b[v] * (Price(v) * at) = at * (b[v] * Price(v))
      BY <3>2, <3>4
    <3>7. /\ b[v] * (Price(v) * at + 50) = b[v] * (Price(v) * at) + 50 * b[v]
          /\ b[v] * (100 * each(v) + 50) = b[v] * (100 * each(v)) + 50 * b[v]
      BY <2>2, <3>3, <3>4
    <3>. QED
      BY <3>5, <3>6, <3>7
  <2>8. b[v] * each(v) \in Nat /\ b[v] * Price(v) \in Nat
    BY <2>1, <2>3
  <2>. QED
    BY <2>1, <2>3, <2>4, <2>6, <2>7, <2>8
<1> HIDE DEF asked, printed
<1>3. SumFunctionOnSet(totals, lines) = SumFunctionOnSet(printed, Lines(b))
  <2> DEFINE share == [v \in Lines(b) |-> {asked(v)}]
  <2>1. [v \in Lines(b) |-> asked(v)] \in Surjection(Lines(b), lines)
    BY DEF Surjection
  <2>2. IsFiniteSet(lines)
    BY <1>1, <2>1, FS_Surjection
  <2>3. \A v \in Lines(b) : /\ asked(v) \in lines /\ totals[asked(v)] = printed[v]
                            /\ printed[v] \in Nat
    BY <1>1, <1>2
  <2>4. \A l \in lines : totals[l] \in Nat
    BY <2>3
  <2>5. /\ \A v \in Lines(b) : share[v] \subseteq lines
        /\ \A l \in lines : \E v \in Lines(b) : l \in share[v]
        /\ \A v, w \in Lines(b) : v # w => share[v] \cap share[w] = {}
    BY <1>1, <1>2
  <2> HIDE DEF totals
  <2>6. ASSUME NEW v \in Lines(b)
        PROVE  printed[v] = SumFunctionOnSet(totals, share[v])
    <3>1. /\ IsFiniteSet({}) /\ asked(v) \notin {}
          /\ \A l \in {} \cup {asked(v)} : totals[l] \in Nat
      BY <2>3, FS_EmptySet
    <3>2. SumFunctionOnSet(totals, {} \cup {asked(v)})
            = SumFunctionOnSet(totals, {}) + totals[asked(v)]
      BY <3>1, SumOfOneMore
    <3>3. {} \cup {asked(v)} = share[v]
      OBVIOUS
    <3>. QED
      BY <2>3, <3>2, <3>3, SumOfNone
  <2> HIDE DEF share, lines
  <2>. QED
    BY <1>1, <2>2, <2>4, <2>5, <2>6, SumOfParts
<1> DEFINE low == [v \in Variant |-> 100 * printed[v]]
           mid == [v \in Variant |-> at * LineTotals(b)[v]]
           wide == [v \in Variant |-> at * LineTotals(b)[v] + 50 * b[v]]
           tall == [v \in Variant |-> 100 * printed[v] + 50 * b[v]]
<1>4. \A v \in Lines(b) :
        /\ printed[v] \in Nat /\ b[v] \in Nat /\ LineTotals(b)[v] \in Nat
        /\ low[v] \in Nat /\ mid[v] \in Nat /\ wide[v] \in Nat /\ tall[v] \in Nat
        /\ low[v] = 100 * printed[v] + 0 * b[v]
        /\ mid[v] = at * LineTotals(b)[v] + 0 * b[v]
        /\ wide[v] = at * LineTotals(b)[v] + 50 * b[v]
        /\ tall[v] = 100 * printed[v] + 50 * b[v]
        /\ low[v] <= wide[v] /\ mid[v] <= tall[v]
  BY <1>1, <1>2
<1> HIDE DEF low, mid, wide, tall
<1>5. /\ SumFunctionOnSet(printed, Lines(b)) \in Nat /\ pieces \in Nat
      /\ Subtotal(b) \in Nat
  BY <1>1, <1>4, SumType, BasketSums
<1>6. SumFunctionOnSet(low, Lines(b))
        = 100 * SumFunctionOnSet(printed, Lines(b)) + 0 * pieces
  BY <1>1, <1>4, SumOfSums
<1>7. SumFunctionOnSet(mid, Lines(b)) = at * Subtotal(b) + 0 * pieces
  BY <1>1, <1>4, SumOfSums DEF Subtotal
<1>8. SumFunctionOnSet(wide, Lines(b)) = at * Subtotal(b) + 50 * pieces
  BY <1>1, <1>4, SumOfSums DEF Subtotal
<1>9. SumFunctionOnSet(tall, Lines(b))
        = 100 * SumFunctionOnSet(printed, Lines(b)) + 50 * pieces
  BY <1>1, <1>4, SumOfSums
<1>10. /\ SumFunctionOnSet(low, Lines(b)) <= SumFunctionOnSet(wide, Lines(b))
       /\ SumFunctionOnSet(mid, Lines(b)) <= SumFunctionOnSet(tall, Lines(b))
  BY <1>1, <1>4, SumOfNoMore
<1>11. at * Subtotal(b) \in Nat
  BY <1>5
<1> HIDE DEF pieces
<1>12. /\ 100 * SumFunctionOnSet(printed, Lines(b)) <= at * Subtotal(b) + 50 * pieces
       /\ at * Subtotal(b) <= 100 * SumFunctionOnSet(printed, Lines(b)) + 50 * pieces
  BY <1>5, <1>6, <1>7, <1>8, <1>9, <1>10, <1>11
<1>. QED
  BY <1>3, <1>5, <1>12 DEF pieces, asked

\* The invoice asks for what was charged, whatever happens to the rates, and its
\* lines are a rounding per piece away from its subtotal.
THEOREM InvoiceAsksTheCharge == PricingSpec => []InvoiceKeepsCharge
<1>1. ASSUME PricingInv, invoice # None PROVE InvoiceKeepsCharge
  <2> DEFINE cur == Currency[order.currency]
             listed == SumFunctionOnSet([l \in invoice.lines |-> l.total], invoice.lines)
             pieces == SumFunctionOnSet(items, Lines(items))
             at == order.rate
  <2>1. /\ order # None /\ cur \in CurrencyRow /\ at \in Nat \ {0}
        /\ order.charged_total = Convert(order.total, cur, at)
        /\ order.charged_subtotal = Convert(order.subtotal, cur, at)
        /\ order.subtotal = Subtotal(items)
    BY <1>1, PricingAssumption DEF PricingInv, OrderFigures, InvoiceFigures
  <2>2. items \in [Variant -> Nat] /\ Subtotal(items) \in Nat
    BY <1>1, PricingAssumption, BasketSums DEF PricingInv, items
  <2>3. order.total \in Nat
    BY <1>1, <2>1, <2>2 DEF PricingInv, OrderFigures
  <2>4. /\ invoice.total = Figure(order.total, order.charged_total, at)
        /\ invoice.subtotal = Figure(order.subtotal, order.charged_subtotal, at)
        /\ invoice.lines = {[variant |-> v, total |-> items[v] * Figure(Price(v), 0, at)] :
                              v \in Lines(items)}
    BY <1>1 DEF PricingInv, InvoiceFigures
  <2>5. Whole(cur) \in Nat \ {0}
    BY <2>1 DEF Whole, CurrencyRow
  <2> HIDE DEF cur, at
  <2>6. \/ invoice.total = order.charged_total
        \/ order.charged_total = 0 /\ invoice.total < Whole(cur)
    BY <2>1, <2>3, <2>4, FigureIsNear
  <2>7. /\ invoice.subtotal \in Nat
        /\ 100 * invoice.subtotal < Subtotal(items) * at + 100 * Whole(cur)
        /\ Subtotal(items) * at < 100 * invoice.subtotal + 100 * Whole(cur)
    <3>1. order.subtotal \in Nat
      BY <2>1, <2>2
    <3>2. LET told == Figure(order.subtotal, Convert(order.subtotal, cur, at), at)
          IN  /\ told \in Nat
              /\ 100 * told < order.subtotal * at + 100 * Whole(cur)
              /\ order.subtotal * at < 100 * told + 100 * Whole(cur)
      BY <2>1, <3>1, FigureIsNear
    <3>3. invoice.subtotal = Figure(order.subtotal, Convert(order.subtotal, cur, at), at)
      BY <2>1, <2>4
    <3>. QED
      BY <2>1, <3>2, <3>3
  <2>8. /\ listed \in Nat /\ pieces \in Nat
        /\ 100 * listed <= at * Subtotal(items) + 50 * pieces
        /\ at * Subtotal(items) <= 100 * listed + 50 * pieces
    BY <2>1, <2>2, <2>4, ListedIsNear
  <2>9. at * Subtotal(items) = Subtotal(items) * at /\ Subtotal(items) * at \in Nat
    BY <2>1, <2>2
  <2> HIDE DEF listed, pieces
  <2>10. /\ pieces + Whole(cur) >= listed - invoice.subtotal
         /\ pieces + Whole(cur) >= -(listed - invoice.subtotal)
    BY <2>5, <2>7, <2>8, <2>9
  <2>. QED
    BY <2>1, <2>6, <2>10 DEF InvoiceKeepsCharge, Whole, cur, at, listed, pieces
<1>2. PricingInv => InvoiceKeepsCharge
  BY <1>1 DEF InvoiceKeepsCharge
<1>. QED
  BY <1>2, PricingInvariance, PTL

-----------------------------------------------------------------------------
(* All parts in one behaviour (MCDesk).                                    *)

\* A step of the desk is a step of a part or leaves the part as it is.
LEMMA DeskStepIsPartStep ==
  ASSUME [DeskNext]_deskVars
  PROVE  /\ [PricingNext]_pricingVars
         /\ [StockDeskNext]_stockVars
         /\ [PaperworkNext]_paperVars
         /\ [CodesNext]_codeVars
         /\ [BookNext]_bookVars
         /\ [CartsNext]_cartVars
         /\ [HelpNext]_helpVars
         /\ [ReviewsNext]_reviewVars
         /\ [ImporterNext]_importVars
         /\ [GeoNext]_geoVars
         /\ [ListingNext]_listVars
         /\ [ReportsNext]_reportVars
         /\ [OrderDeskNext]_orderDeskVars
         /\ [PagesNext]_pagesVars
<1>1. CASE UNCHANGED deskVars
  BY <1>1 DEF deskVars
<1>2. CASE part = "pricing" /\ PricingNext /\ OthersStay
  BY <1>2 DEF OthersStay
<1>3. CASE part = "stock" /\ StockDeskNext /\ OthersStay
  BY <1>3 DEF OthersStay
<1>4. CASE part = "paper" /\ PaperworkNext /\ OthersStay
  BY <1>4 DEF OthersStay
<1>5. CASE part = "codes" /\ CodesNext /\ OthersStay
  BY <1>5 DEF OthersStay
<1>6. CASE part = "book" /\ BookNext /\ OthersStay
  BY <1>6 DEF OthersStay
<1>7. CASE part = "carts" /\ CartsNext /\ OthersStay
  BY <1>7 DEF OthersStay
<1>8. CASE part = "help" /\ HelpNext /\ OthersStay
  BY <1>8 DEF OthersStay
<1>9. CASE part = "reviews" /\ ReviewsNext /\ OthersStay
  BY <1>9 DEF OthersStay
<1>10. CASE part = "import" /\ ImporterNext /\ OthersStay
  BY <1>10 DEF OthersStay
<1>11. CASE part = "geo" /\ GeoNext /\ OthersStay
  BY <1>11 DEF OthersStay
<1>12. CASE part = "list" /\ ListingNext /\ OthersStay
  BY <1>12 DEF OthersStay
<1>13. CASE part = "reports" /\ ReportsNext /\ OthersStay
  BY <1>13 DEF OthersStay
<1>14. CASE part = "form" /\ OrderDeskNext /\ OthersStay
  BY <1>14 DEF OthersStay
<1>15. CASE part = "pages" /\ PagesNext /\ OthersStay
  BY <1>15 DEF OthersStay
<1>. QED
  BY <1>1, <1>2, <1>3, <1>4, <1>5, <1>6, <1>7, <1>8, <1>9, <1>10, <1>11,
     <1>12, <1>13, <1>14, <1>15 DEF DeskNext

\* A behaviour of the desk is a behaviour of each of its parts, so what is
\* proved of a part holds of it.
THEOREM DeskIsItsParts ==
  DeskSpec => /\ PricingSpec
              /\ StockDeskSpec
              /\ PaperworkSpec
              /\ CodesSpec
              /\ BookSpec
              /\ CartsSpec
              /\ HelpSpec
              /\ ReviewsSpec
              /\ ImporterSpec
              /\ GeoSpec
              /\ ListingSpec
              /\ ReportsSpec
              /\ OrderDeskSpec
              /\ PagesSpec
<1>1. DeskInit => /\ PricingInit
                   /\ StockDeskInit
                   /\ PaperworkInit
                   /\ CodesInit
                   /\ BookInit
                   /\ CartsInit
                   /\ HelpInit
                   /\ ReviewsInit
                   /\ ImporterInit
                   /\ GeoInit
                   /\ ListingInit
                   /\ ReportsInit
                   /\ OrderDeskInit
                   /\ PagesInit
  BY DEF DeskInit
<1>2. [DeskNext]_deskVars => [PricingNext]_pricingVars
  BY DeskStepIsPartStep
<1>3. DeskSpec => PricingSpec
  BY <1>1, <1>2, PTL DEF DeskSpec, PricingSpec
<1>4. [DeskNext]_deskVars => [StockDeskNext]_stockVars
  BY DeskStepIsPartStep
<1>5. DeskSpec => StockDeskSpec
  BY <1>1, <1>4, PTL DEF DeskSpec, StockDeskSpec
<1>6. [DeskNext]_deskVars => [PaperworkNext]_paperVars
  BY DeskStepIsPartStep
<1>7. DeskSpec => PaperworkSpec
  BY <1>1, <1>6, PTL DEF DeskSpec, PaperworkSpec
<1>8. [DeskNext]_deskVars => [CodesNext]_codeVars
  BY DeskStepIsPartStep
<1>9. DeskSpec => CodesSpec
  BY <1>1, <1>8, PTL DEF DeskSpec, CodesSpec
<1>10. [DeskNext]_deskVars => [BookNext]_bookVars
  BY DeskStepIsPartStep
<1>11. DeskSpec => BookSpec
  BY <1>1, <1>10, PTL DEF DeskSpec, BookSpec
<1>12. [DeskNext]_deskVars => [CartsNext]_cartVars
  BY DeskStepIsPartStep
<1>13. DeskSpec => CartsSpec
  BY <1>1, <1>12, PTL DEF DeskSpec, CartsSpec
<1>14. [DeskNext]_deskVars => [HelpNext]_helpVars
  BY DeskStepIsPartStep
<1>15. DeskSpec => HelpSpec
  BY <1>1, <1>14, PTL DEF DeskSpec, HelpSpec
<1>16. [DeskNext]_deskVars => [ReviewsNext]_reviewVars
  BY DeskStepIsPartStep
<1>17. DeskSpec => ReviewsSpec
  BY <1>1, <1>16, PTL DEF DeskSpec, ReviewsSpec
<1>18. [DeskNext]_deskVars => [ImporterNext]_importVars
  BY DeskStepIsPartStep
<1>19. DeskSpec => ImporterSpec
  BY <1>1, <1>18, PTL DEF DeskSpec, ImporterSpec
<1>20. [DeskNext]_deskVars => [GeoNext]_geoVars
  BY DeskStepIsPartStep
<1>21. DeskSpec => GeoSpec
  BY <1>1, <1>20, PTL DEF DeskSpec, GeoSpec
<1>22. [DeskNext]_deskVars => [ListingNext]_listVars
  BY DeskStepIsPartStep
<1>23. DeskSpec => ListingSpec
  BY <1>1, <1>22, PTL DEF DeskSpec, ListingSpec
<1>24. [DeskNext]_deskVars => [ReportsNext]_reportVars
  BY DeskStepIsPartStep
<1>25. DeskSpec => ReportsSpec
  BY <1>1, <1>24, PTL DEF DeskSpec, ReportsSpec
<1>26. [DeskNext]_deskVars => [OrderDeskNext]_orderDeskVars
  BY DeskStepIsPartStep
<1>27. DeskSpec => OrderDeskSpec
  BY <1>1, <1>26, PTL DEF DeskSpec, OrderDeskSpec
<1>28. [DeskNext]_deskVars => [PagesNext]_pagesVars
  BY DeskStepIsPartStep
<1>29. DeskSpec => PagesSpec
  BY <1>1, <1>28, PTL DEF DeskSpec, PagesSpec
<1>. QED
  BY <1>3, <1>5, <1>7, <1>9, <1>11, <1>13, <1>15, <1>17, <1>19,
     <1>21, <1>23, <1>25, <1>27, <1>29

\* Every state of the behaviours TLC explores together is well typed, for any
\* values of the constants.
THEOREM DeskTypeCorrect == DeskSpec => []DeskTypeOK
<1>1. /\ PricingTypeOK
      /\ StockDeskTypeOK
      /\ PaperworkTypeOK
      /\ CodesTypeOK
      /\ BookTypeOK
      /\ CartsTypeOK
      /\ HelpTypeOK
      /\ ReviewsTypeOK
      /\ ImporterTypeOK
      /\ GeoTypeOK
      /\ ListingTypeOK
      /\ ReportsTypeOK
      /\ OrderDeskTypeOK
      => DeskTypeOK
  BY DEF DeskTypeOK
<1>. QED
  BY <1>1, DeskIsItsParts, PricingTypeCorrect, StockDeskTypeCorrect, PaperworkTypeCorrect,
     CodesTypeCorrect, BookTypeCorrect, CartsTypeCorrect, HelpdeskTypeCorrect,
     ReviewsTypeCorrect, ImporterTypeCorrect, GeoTypeCorrect, ListingTypeCorrect,
     ReportsTypeCorrect, OrderDeskTypeCorrect, PTL
=============================================================================
