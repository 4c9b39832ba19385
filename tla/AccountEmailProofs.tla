------------------------- MODULE AccountEmailProofs -------------------------
(* Theorems about AccountEmail for every value of its constants.            *)
EXTENDS AccountEmail, TLAPS

-----------------------------------------------------------------------------
(* The types                                                                *)

LEMMA Bounds ==
  /\ Cooldown \in Nat /\ Stale \in Nat /\ Stale > 0 /\ MaxTime \in Nat /\ MaxEdits \in Nat
  /\ None \notin Users /\ None \notin Emails
BY EmailAssumption

LEMMA TypeInit == Init => TypeOK
<1> SUFFICES ASSUME Init PROVE TypeOK
  OBVIOUS
<1>1. 0 \in Time /\ 0 \in 0..MaxEdits
  BY Bounds DEF Time
<1>2. NoAddress \in Address
  BY DEF NoAddress, Address
<1>3. [user |-> None, status |-> "none", attempted |-> 0] \in Dispatch
  BY <1>1 DEF Dispatch, Statuses
<1> QED
  BY <1>1, <1>2, <1>3 DEF Init, TypeOK

(* The account steps: rows are of their type, and mails are left alone.     *)
LEMMA RowTypes ==
  ASSUME TypeOK
  PROVE  /\ \A u \in Users, e \in Emails : Synchronized(u, e) \in [Emails -> Address]
         /\ \A u \in Users : email[u] # None => Repaired(u) \in [Emails -> Address]
         /\ NoAddress \in Address
<1>1. ASSUME NEW u \in Users, NEW e \in Emails
      PROVE  Synchronized(u, e) \in [Emails -> Address]
  <2>1. \A f \in Emails : [owner |-> u, verified |-> address[f].verified, primary |-> TRUE] \in Address
    BY DEF TypeOK, Address
  <2>2. \A f \in Emails : [address[f] EXCEPT !.primary = FALSE] \in Address
    BY DEF TypeOK, Address
  <2> QED
    BY <2>1, <2>2 DEF Synchronized, TypeOK
<1>2. ASSUME NEW u \in Users, email[u] # None
      PROVE  Repaired(u) \in [Emails -> Address]
  <2>1. [owner |-> u, verified |-> FALSE, primary |-> PrimaryIn(address, u) = {}] \in Address
    BY DEF Address
  <2> QED
    BY <1>2, <2>1 DEF Repaired, TypeOK
<1>3. NoAddress \in Address
  BY DEF NoAddress, Address
<1> QED
  BY <1>1, <1>2, <1>3

\* What a step of an account may write.
AccountWrites ==
  /\ email' \in [Users -> Emails \cup {None}]
  /\ address' \in [Emails -> Address]
  /\ edits' \in 0..MaxEdits /\ requests' \subseteq Request
  /\ UNCHANGED <<now, dispatch, work, mails, recorded>>

LEMMA SetAccountType ==
  ASSUME NEW emails \in [Users -> Emails \cup {None}], NEW rows \in [Emails -> Address],
         SetAccount(emails, rows)
  PROVE  /\ email' \in [Users -> Emails \cup {None}] /\ address' \in [Emails -> Address]
         /\ UNCHANGED <<now, dispatch, work, mails, recorded>>
BY DEF SetAccount

LEMMA RequestTypes ==
  ASSUME TypeOK
  PROVE  /\ \A step \in {"form", "changed", "promote", "copy"}, u \in Users,
              e \in Emails \cup {None}, verified \in BOOLEAN :
              Writes(step, u, e, verified) \in Request
         /\ Edited => edits' \in 0..MaxEdits
         /\ UNCHANGED edits => edits' \in 0..MaxEdits
         /\ \A new \in SUBSET Request : Start(new) => requests' \subseteq Request
         /\ \A r \in requests :
              /\ r.user \in Users /\ r.email \in Emails \cup {None} /\ r.verified \in BOOLEAN
              /\ Finish(r) => requests' \subseteq Request /\ edits' \in 0..MaxEdits
<1>1. edits \in 0..MaxEdits /\ requests \subseteq Request
  BY DEF TypeOK
<1>2. Edited => edits' \in 0..MaxEdits
  BY <1>1, Bounds DEF Edited
<1>3. \A step \in {"form", "changed", "promote", "copy"}, u \in Users,
        e \in Emails \cup {None}, verified \in BOOLEAN :
        Writes(step, u, e, verified) \in Request
  BY DEF Writes, Request
<1>4. \A new \in SUBSET Request : Start(new) => requests' \subseteq Request
  BY <1>1 DEF Start
<1>5. \A r \in requests :
        r.user \in Users /\ r.email \in Emails \cup {None} /\ r.verified \in BOOLEAN
  BY <1>1 DEF Request
<1>6. \A r \in requests : Finish(r) => requests' \subseteq Request /\ edits' \in 0..MaxEdits
  BY <1>1 DEF Finish
<1> QED
  BY <1>1, <1>2, <1>3, <1>4, <1>5, <1>6

(* The steps of an administrator.                                           *)
LEMMA AdministratorType ==
  ASSUME TypeOK, Administrator
  PROVE  AccountWrites
<1>1. email \in [Users -> Emails \cup {None}] /\ address \in [Emails -> Address]
      /\ requests \subseteq Request
  BY DEF TypeOK
<1>2. ASSUME NEW u \in Users, NEW e \in Emails \cup {None}, OpenUserForm(u, e)
      PROVE  AccountWrites
  <2> DEFINE step == IF e = email[u] THEN "form" ELSE "changed"
  <2>1. step \in {"form", "changed", "promote", "copy"}
    OBVIOUS
  <2>2. Start({Writes(step, u, e, FALSE)}) /\ Edited
        /\ UNCHANGED <<now, email, address, dispatch, work, mails, recorded>>
    BY <1>2 DEF OpenUserForm
  <2> HIDE DEF step
  <2>3. {Writes(step, u, e, FALSE)} \in SUBSET Request
    BY <2>1, RequestTypes
  <2> QED
    BY <1>1, <2>2, <2>3, RequestTypes DEF AccountWrites
<1>3. ASSUME NEW r \in requests, SaveUserForm(r)
      PROVE  AccountWrites
  <2> DEFINE follow == r.step = "changed" /\ r.email # None
             emails == [email EXCEPT ![r.user] = r.email]
             rows == IF follow THEN Synchronized(r.user, r.email) ELSE address
  <2>1. r.user \in Users /\ r.email \in Emails \cup {None}
    BY RequestTypes
  <2>2. emails \in [Users -> Emails \cup {None}]
    BY <1>1, <2>1
  <2>3. rows \in [Emails -> Address]
    BY <1>1, <2>1, RowTypes
  <2>4. SetAccount(emails, rows) /\ Finish(r)
    BY <1>3 DEF SaveUserForm
  <2> HIDE DEF emails, rows
  <2> QED
    BY <2>2, <2>3, <2>4, SetAccountType, RequestTypes DEF AccountWrites
<1>4. ASSUME NEW e \in Emails, NEW r \in Address, EditAddress(e, r)
      PROVE  AccountWrites
  <2> DEFINE rows == [address EXCEPT ![e] = r]
             previous == address[e].owner
  <2>1. rows \in [Emails -> Address]
    BY <1>1
  <2>2. \A u \in Users : Compatible(rows, u) \subseteq Emails \cup {None}
    BY <1>1 DEF Compatible, PrimaryIn, OwnedIn
  <2>3. previous \in Users \cup {None} /\ r.owner \in Users
    BY <1>1, <1>4 DEF Address, EditAddress
  <2>4. PICK f \in Compatible(rows, r.owner),
             g \in IF previous = None THEN {None} ELSE Compatible(rows, previous) :
             SetAccount([u \in Users |-> IF u = r.owner THEN f
                                         ELSE IF u = previous THEN g ELSE email[u]], rows)
    BY <1>4 DEF EditAddress
  <2>5. f \in Emails \cup {None} /\ g \in Emails \cup {None}
    BY <2>2, <2>3
  <2>6. Edited /\ UNCHANGED requests
    BY <1>4 DEF EditAddress
  <2> HIDE DEF rows, previous
  <2>7. [u \in Users |-> IF u = r.owner THEN f ELSE IF u = previous THEN g ELSE email[u]]
          \in [Users -> Emails \cup {None}]
    BY <1>1, <2>5
  <2> QED
    BY <1>1, <2>1, <2>4, <2>6, <2>7, SetAccountType, RequestTypes DEF AccountWrites
<1>5. ASSUME NEW e \in Emails, DeleteAddress(e)
      PROVE  AccountWrites
  <2>1. [address EXCEPT ![e] = NoAddress] \in [Emails -> Address]
    BY <1>1, RowTypes
  <2> QED
    BY <1>1, <1>5, <2>1, SetAccountType, RequestTypes DEF DeleteAddress, AccountWrites
<1> QED
  BY <1>2, <1>3, <1>4, <1>5 DEF Administrator

(* The steps of the pages of the library.                                   *)
LEMMA LibraryType ==
  ASSUME TypeOK, Library
  PROVE  AccountWrites
<1>1. email \in [Users -> Emails \cup {None}] /\ address \in [Emails -> Address]
      /\ requests \subseteq Request
      /\ \A e \in Emails : address[e] \in Address
  BY DEF TypeOK
<1>2. ASSUME NEW u \in Users, NEW e \in Emails, AddAddress(u, e)
      PROVE  AccountWrites
  <2>1. [address EXCEPT ![e] = [owner |-> u, verified |-> FALSE, primary |-> FALSE]]
          \in [Emails -> Address]
    BY <1>1 DEF Address
  <2> QED
    BY <1>1, <1>2, <2>1, SetAccountType, RequestTypes DEF AddAddress, AccountWrites
<1>3. ASSUME NEW e \in Emails, RemoveAddress(e)
      PROVE  AccountWrites
  <2> DEFINE u == address[e].owner
             rows == [address EXCEPT ![e] = NoAddress]
             left == OwnedIn(rows, u)
             verified == {f \in left : rows[f].verified}
             next == IF verified # {} THEN verified ELSE IF left # {} THEN left ELSE {None}
  <2>1. rows \in [Emails -> Address] /\ u \in Users
    BY <1>1, <1>3, RowTypes DEF RemoveAddress, Address
  <2>2. next \subseteq Emails \cup {None}
    BY DEF OwnedIn
  <2>3. SetAccount(email, rows) /\ Edited
    BY <1>3 DEF RemoveAddress
  <2>4. PICK f \in next : Start(IF email[u] = e THEN {Writes("copy", u, f, FALSE)} ELSE {})
    BY <1>3 DEF RemoveAddress
  <2> HIDE DEF u, rows, next
  <2>5. (IF email[u] = e THEN {Writes("copy", u, f, FALSE)} ELSE {}) \in SUBSET Request
    BY <2>1, <2>2, RequestTypes
  <2> QED
    BY <1>1, <2>1, <2>3, <2>4, <2>5, SetAccountType, RequestTypes DEF AccountWrites
<1>4. ASSUME NEW e \in Emails, MakePrimary(e)
      PROVE  AccountWrites
  <2> DEFINE u == address[e].owner
             rows == [f \in Emails |->
                       IF f \in PrimaryIn(address, u) THEN [address[f] EXCEPT !.primary = FALSE]
                       ELSE address[f]]
  <2>1. rows \in [Emails -> Address]
    <3>1. \A f \in Emails : [address[f] EXCEPT !.primary = FALSE] \in Address
      BY <1>1 DEF Address
    <3> QED
      BY <1>1, <3>1
  <2>2. u \in Users /\ address[e].verified \in BOOLEAN
    BY <1>1, <1>4 DEF MakePrimary, Address
  <2>3. /\ SetAccount(email, rows) /\ Edited
        /\ Start({Writes("promote", u, e, address[e].verified)})
    BY <1>4 DEF MakePrimary
  <2> HIDE DEF u, rows
  <2>4. {Writes("promote", u, e, address[e].verified)} \in SUBSET Request
    BY <2>2, RequestTypes
  <2> QED
    BY <1>1, <2>1, <2>3, <2>4, SetAccountType, RequestTypes DEF AccountWrites
<1>5. ASSUME NEW e \in Emails, FollowLink(e)
      PROVE  AccountWrites
  <2> DEFINE u == address[e].owner
             first == PrimaryIn(address, u) = {}
             rows == [address EXCEPT ![e].verified = TRUE, ![e].primary = @ \/ first]
             new == IF first THEN {Writes("copy", u, e, FALSE)} ELSE {}
  <2>1. rows \in [Emails -> Address]
    <3>1. first \in BOOLEAN
      OBVIOUS
    <3> HIDE DEF first
    <3> QED
      BY <1>1, <3>1 DEF Address
  <2>2. new \in SUBSET Request
    <3>1. u \in Users
      BY <1>1, <1>5 DEF FollowLink, Address
    <3> QED
      BY <3>1, RequestTypes
  <2>3. SetAccount(email, rows) /\ Edited /\ Start(new)
    BY <1>5 DEF FollowLink
  <2> HIDE DEF rows, new
  <2> QED
    BY <1>1, <2>1, <2>2, <2>3, SetAccountType, RequestTypes DEF AccountWrites
<1>6. ASSUME NEW r \in requests, Promote(r)
      PROVE  AccountWrites
  <2> DEFINE rows == [address EXCEPT ![r.email] =
                        [owner |-> r.user, verified |-> r.verified, primary |-> TRUE]]
  <2>1. r.user \in Users /\ r.email \in Emails \cup {None} /\ r.verified \in BOOLEAN
    BY RequestTypes
  <2>2. rows \in [Emails -> Address]
    BY <1>1, <2>1 DEF Address
  <2>3. requests' \subseteq Request
    BY <1>1, <1>6, <2>1, RequestTypes DEF Promote
  <2>4. SetAccount(email, rows) /\ UNCHANGED edits
    BY <1>6 DEF Promote
  <2> HIDE DEF rows
  <2> QED
    BY <1>1, <2>2, <2>3, <2>4, SetAccountType, RequestTypes DEF AccountWrites
<1>7. ASSUME NEW r \in requests, CopyEmail(r)
      PROVE  AccountWrites
  <2>1. [email EXCEPT ![r.user] = r.email] \in [Users -> Emails \cup {None}]
    BY <1>1, RequestTypes
  <2> QED
    BY <1>1, <1>7, <2>1, SetAccountType, RequestTypes DEF CopyEmail, AccountWrites
<1> QED
  BY <1>2, <1>3, <1>4, <1>5, <1>6, <1>7 DEF Library

LEMMA AccountType ==
  ASSUME TypeOK, Account
  PROVE  AccountWrites
<1>1. ASSUME NEW r \in requests, RequestDies(r)
      PROVE  AccountWrites
  <2>1. email \in [Users -> Emails \cup {None}] /\ address \in [Emails -> Address]
    BY DEF TypeOK
  <2> QED
    BY <1>1, <2>1, RequestTypes DEF RequestDies, AccountWrites
<1> QED
  BY <1>1, AdministratorType, LibraryType DEF Account

LEMMA TypeNext == TypeOK /\ [Next]_vars => TypeOK'
<1> SUFFICES ASSUME TypeOK, [Next]_vars PROVE TypeOK'
  OBVIOUS
<1>1. CASE Account
  BY <1>1, AccountType DEF AccountWrites, TypeOK
<1>2. ASSUME NEW u \in Users, Reserve(u) PROVE TypeOK'
  <2> DEFINE e == email[u]
             mail == [email |-> e, user |-> u, reserved |-> now]
  <2>1. e \in Emails
    BY <1>2 DEF Reserve, OwnEmail, TypeOK
  <2>2. [user |-> u, status |-> "pending", attempted |-> now] \in Dispatch
    BY DEF TypeOK, Dispatch, Statuses
  <2>3. [mail |-> mail, outcome |-> ""] \in Work
    BY <2>1 DEF TypeOK, Work, Mail
  <2>4. address' \in [Emails -> Address]
    BY <1>2, RowTypes DEF Reserve, OwnEmail
  <2>5. dispatch' \in [Emails -> Dispatch] /\ work' \subseteq Work
    BY <1>2, <2>2, <2>3 DEF Reserve, TypeOK
  <2> QED
    BY <1>2, <2>4, <2>5 DEF Reserve, TypeOK
<1>3. ASSUME NEW w \in work, NEW outcome \in Outcomes, NEW accepted \in BOOLEAN,
             Send(w, outcome, accepted)
      PROVE  TypeOK'
  <2>1. [w EXCEPT !.outcome = outcome] \in Work /\ w.mail \in Mail
    BY DEF TypeOK, Work
  <2> QED
    BY <1>3, <2>1 DEF Send, TypeOK
<1>4. ASSUME NEW w \in work, Finalize(w) PROVE TypeOK'
  <2>1. w.mail \in Mail /\ w.mail.email \in Emails /\ w.outcome \in Outcomes
    BY <1>4 DEF Finalize, TypeOK, Work, Mail
  <2>2. dispatch' \in [Emails -> Dispatch] /\ recorded' \subseteq Mail
    BY <1>4, <2>1 DEF Finalize, TypeOK, Dispatch, Statuses, Outcomes
  <2> QED
    BY <1>4, <2>2 DEF Finalize, TypeOK
<1>5. ASSUME NEW w \in work, WorkerDies(w) PROVE TypeOK'
  BY <1>5 DEF WorkerDies, TypeOK
<1>6. CASE Tick
  BY <1>6, Bounds DEF Tick, TypeOK, Time
<1>7. CASE UNCHANGED vars
  BY <1>7 DEF vars, TypeOK
<1> QED
  BY <1>1, <1>2, <1>3, <1>4, <1>5, <1>6, <1>7 DEF Next, Delivery

(* Every variable keeps its type.                                           *)
THEOREM TypeCorrect == Spec => []TypeOK
BY TypeInit, TypeNext, PTL DEF Spec

-----------------------------------------------------------------------------
(* The inductive invariant                                                  *)

(* No reservation is later than the clock.                                  *)
ClockAhead == \A e \in Emails : dispatch[e].attempted <= now

(* A delivery is for the user of the row. The row is still reserved for it, *)
(* or was reserved again when the delivery was taken for dead.              *)
WorkInOrder ==
  \A w \in work :
    LET d == dispatch[w.mail.email] IN
    /\ d.user = w.mail.user
    /\ \/ d.attempted = w.mail.reserved /\ d.status = "pending"
       \/ d.attempted - w.mail.reserved > Stale
    /\ w.outcome = "sent" => w.mail \in mails

(* Mails went to the user of the row, at its latest reservation or before.  *)
MailsInOrder ==
  \A m \in mails :
    /\ dispatch[m.email].user = m.user
    /\ m.reserved <= dispatch[m.email].attempted

(* What was recorded as sent stands in the row until the cooldown is over.  *)
RecordedInOrder ==
  \A r \in recorded :
    LET d == dispatch[r.email] IN
    \/ d.attempted = r.reserved /\ d.status = "sent"
    \/ d.attempted - r.reserved > Cooldown

(* The parts of LedgerKept.                                                 *)
SentIsMailed ==
  \A e \in Emails :
    dispatch[e].status = "sent" =>
      [email |-> e, user |-> dispatch[e].user, reserved |-> dispatch[e].attempted] \in mails

Cooled(mail) ==
  \A r \in recorded :
    r.email = mail.email /\ mail.reserved > r.reserved => mail.reserved - r.reserved > Cooldown

AllCooled == (\A m \in mails : Cooled(m)) /\ (\A w \in work : Cooled(w.mail))

OneAtATime ==
  \A w, x \in work :
    w.mail.email = x.mail.email /\ w # x =>
      w.mail.reserved - x.mail.reserved \notin -Stale..Stale

IInv ==
  /\ ClockAhead /\ WorkInOrder /\ MailsInOrder /\ RecordedInOrder
  /\ SentIsMailed /\ AllCooled /\ OneAtATime

LEMMA LedgerTypes ==
  ASSUME TypeOK
  PROVE  /\ now \in Int
         /\ \A e \in Emails : dispatch[e].attempted \in Int
         /\ \A m \in mails \cup recorded :
              /\ m.email \in Emails /\ m.user \in Users /\ m.reserved \in Int
              /\ m = [email |-> m.email, user |-> m.user, reserved |-> m.reserved]
         /\ \A w \in work :
              /\ w.mail.email \in Emails /\ w.mail.user \in Users /\ w.mail.reserved \in Int
              /\ w.mail = [email |-> w.mail.email, user |-> w.mail.user,
                           reserved |-> w.mail.reserved]
<1>1. now \in Int /\ \A e \in Emails : dispatch[e].attempted \in Int
  BY DEF TypeOK, Time, Dispatch
<1>2. ASSUME NEW m \in Mail
      PROVE  /\ m.email \in Emails /\ m.user \in Users /\ m.reserved \in Int
             /\ m = [email |-> m.email, user |-> m.user, reserved |-> m.reserved]
  BY DEF Mail, Time
<1>3. mails \cup recorded \subseteq Mail /\ \A w \in work : w.mail \in Mail
  BY DEF TypeOK, Work
<1> QED
  BY <1>1, <1>2, <1>3

(* No delivery is newer than the row.                                       *)
LEMMA WorkAge ==
  ASSUME TypeOK, IInv, NEW w \in work
  PROVE  w.mail.reserved <= dispatch[w.mail.email].attempted
<1>1. w.mail.reserved \in Int /\ dispatch[w.mail.email].attempted \in Int
  BY LedgerTypes
<1>2. \/ dispatch[w.mail.email].attempted = w.mail.reserved
      \/ dispatch[w.mail.email].attempted - w.mail.reserved > Stale
  BY DEF IInv, WorkInOrder
<1> QED
  BY <1>1, <1>2, Bounds

(* Time passes, accounts are edited, workers die.                           *)
LEMMA QuietKeeps ==
  ASSUME TypeOK, IInv, UNCHANGED <<dispatch, mails, recorded>>, work' \subseteq work,
         now' \in Int, now' >= now
  PROVE  IInv'
<1>1. ClockAhead'
  BY LedgerTypes DEF IInv, ClockAhead
<1>2. WorkInOrder' /\ OneAtATime'
  BY DEF IInv, WorkInOrder, OneAtATime
<1>3. MailsInOrder' /\ RecordedInOrder' /\ SentIsMailed'
  BY DEF IInv, MailsInOrder, RecordedInOrder, SentIsMailed
<1>4. AllCooled'
  BY DEF IInv, AllCooled, Cooled
<1> QED
  BY <1>1, <1>2, <1>3, <1>4 DEF IInv

LEMMA SendKeeps ==
  ASSUME TypeOK, IInv, NEW w \in work, NEW outcome \in Outcomes, NEW accepted \in BOOLEAN,
         Send(w, outcome, accepted)
  PROVE  IInv'
<1> DEFINE done == [w EXCEPT !.outcome = outcome]
<1>1. /\ done.mail = w.mail /\ done.outcome = outcome
      /\ work' = (work \ {w}) \cup {done}
      /\ mails' = IF accepted THEN mails \cup {w.mail} ELSE mails
      /\ outcome = "sent" => accepted
      /\ UNCHANGED <<now, dispatch, recorded>>
  BY DEF Send, TypeOK, Work
<1> HIDE DEF done
<1>2. ClockAhead' /\ RecordedInOrder'
  BY <1>1 DEF IInv, ClockAhead, RecordedInOrder
<1>3. mails \subseteq mails' /\ SentIsMailed'
  BY <1>1 DEF IInv, SentIsMailed
<1>4. WorkInOrder'
  <2> SUFFICES ASSUME NEW x \in work'
               PROVE  /\ dispatch[x.mail.email].user = x.mail.user
                      /\ \/ /\ dispatch[x.mail.email].attempted = x.mail.reserved
                            /\ dispatch[x.mail.email].status = "pending"
                         \/ dispatch[x.mail.email].attempted - x.mail.reserved > Stale
                      /\ x.outcome = "sent" => x.mail \in mails'
    BY <1>1 DEF WorkInOrder
  <2>1. PICK y \in work :
          /\ x.mail = y.mail
          /\ x.outcome = "sent" => y.outcome = "sent" \/ y.mail \in mails'
    BY <1>1
  <2>2. /\ dispatch[y.mail.email].user = y.mail.user
        /\ \/ /\ dispatch[y.mail.email].attempted = y.mail.reserved
              /\ dispatch[y.mail.email].status = "pending"
           \/ dispatch[y.mail.email].attempted - y.mail.reserved > Stale
        /\ y.outcome = "sent" => y.mail \in mails
    BY DEF IInv, WorkInOrder
  <2> QED
    BY <1>3, <2>1, <2>2
<1>5. w.mail.reserved <= dispatch[w.mail.email].attempted
  BY WorkAge
<1>6. MailsInOrder'
  BY <1>1, <1>5 DEF IInv, MailsInOrder, WorkInOrder
<1>7. AllCooled'
  <2>1. \A m \in mails' \cup {x.mail : x \in work'} : m \in mails \cup {x.mail : x \in work}
    BY <1>1
  <2>2. \A m \in mails \cup {x.mail : x \in work} : Cooled(m)'
    BY <1>1 DEF IInv, AllCooled, Cooled
  <2> QED
    BY <2>1, <2>2 DEF AllCooled
<1>8. OneAtATime'
  <2>1. \A x, y \in work' : x # y =>
          \E a, b \in work : a # b /\ a.mail = x.mail /\ b.mail = y.mail
    BY <1>1
  <2> QED
    BY <2>1 DEF IInv, OneAtATime
<1> QED
  BY <1>2, <1>3, <1>4, <1>6, <1>7, <1>8 DEF IInv

LEMMA FinalizeKeeps ==
  ASSUME TypeOK, IInv, NEW w \in work, Finalize(w)
  PROVE  IInv'
<1>1. CASE ~OwnsReservation(w)
  <2>1. now' = now /\ work' \subseteq work /\ UNCHANGED <<dispatch, mails, recorded>>
    BY <1>1 DEF Finalize
  <2> QED
    BY <2>1, LedgerTypes, QuietKeeps
<1>2. CASE OwnsReservation(w)
  <2> DEFINE e == w.mail.email
  <2>1. /\ dispatch' = [dispatch EXCEPT ![e].status = w.outcome]
        /\ recorded' = IF w.outcome = "sent" THEN recorded \cup {w.mail} ELSE recorded
        /\ work' = work \ {w} /\ UNCHANGED <<now, mails>>
        /\ dispatch[e].status = "pending" /\ dispatch[e].attempted = w.mail.reserved
        /\ e \in Emails
    BY <1>2, LedgerTypes DEF Finalize, OwnsReservation
  <2>2. \A f \in Emails :
          /\ dispatch'[f].user = dispatch[f].user
          /\ dispatch'[f].attempted = dispatch[f].attempted
          /\ f # e => dispatch'[f].status = dispatch[f].status
          /\ f = e => dispatch'[f].status = w.outcome
    BY <2>1 DEF TypeOK, Dispatch
  <2> HIDE DEF e
  <2>3. ClockAhead' /\ MailsInOrder'
    BY <2>1, <2>2, LedgerTypes DEF IInv, ClockAhead, MailsInOrder
  <2>4. WorkInOrder'
    <3>1. \A x \in work' : x.mail.email = e => dispatch[e].attempted # x.mail.reserved
      BY <2>1, LedgerTypes, Bounds DEF IInv, OneAtATime, e
    <3> QED
      BY <2>1, <2>2, <3>1, LedgerTypes DEF IInv, WorkInOrder
  <2>5. RecordedInOrder'
    BY <2>1, <2>2, LedgerTypes DEF IInv, RecordedInOrder, e
  <2>6. SentIsMailed'
    <3>1. w.outcome = "sent" =>
            [email |-> e, user |-> dispatch[e].user, reserved |-> dispatch[e].attempted] \in mails
      BY <2>1, LedgerTypes DEF IInv, WorkInOrder, e
    <3> QED
      BY <2>1, <2>2, <3>1 DEF IInv, SentIsMailed
  <2>7. AllCooled'
    <3>1. ASSUME NEW x \in work, x.mail.email = e
          PROVE  ~(x.mail.reserved > w.mail.reserved)
      <4>1. x.mail.reserved <= dispatch[x.mail.email].attempted
        BY WorkAge
      <4>2. x.mail.reserved \in Int /\ w.mail.reserved \in Int
        BY LedgerTypes
      <4> QED
        BY <2>1, <3>1, <4>1, <4>2
    <3>2. ASSUME NEW m \in mails, m.email = e
          PROVE  ~(m.reserved > w.mail.reserved)
      <4>1. m.reserved \in Int /\ w.mail.reserved \in Int
        BY LedgerTypes
      <4>2. m.reserved <= w.mail.reserved
        BY <2>1, <3>2 DEF IInv, MailsInOrder
      <4> QED
        BY <4>1, <4>2
    <3>3. ASSUME NEW m \in mails \cup {x.mail : x \in work}
          PROVE  Cooled(m)'
      <4>1. Cooled(m)
        BY DEF IInv, AllCooled
      <4>2. m.email = e => ~(m.reserved > w.mail.reserved)
        BY <3>1, <3>2
      <4> QED
        BY <2>1, <4>1, <4>2 DEF Cooled, e
    <3> QED
      BY <2>1, <3>3 DEF AllCooled
  <2>8. OneAtATime'
    BY <2>1 DEF IInv, OneAtATime
  <2> QED
    BY <2>3, <2>4, <2>5, <2>6, <2>7, <2>8 DEF IInv
<1> QED
  BY <1>1, <1>2

(* What a reservation finds: the deliveries to the address are dead, and    *)
(* whatever was recorded for it has cooled down.                            *)
LEMMA ReserveFinds ==
  ASSUME TypeOK, IInv, NEW u \in Users, Reserve(u)
  PROVE  /\ \A w \in work : w.mail.email = email[u] =>
              now - w.mail.reserved > Stale /\ w.mail.user = u
         /\ \A m \in mails : m.email = email[u] => m.reserved <= now /\ m.user = u
         /\ \A r \in recorded : r.email = email[u] => now - r.reserved > Cooldown
<1> DEFINE e == email[u]
           d == dispatch[e]
<1>1. /\ e \in Emails /\ d.user \in {None, u}
      /\ ~InCooldown(e) /\ ~InProgress(e)
  BY DEF Reserve, OwnEmail, TypeOK
<1>2. now \in Int /\ d.attempted \in Int /\ d.attempted <= now
  BY <1>1, LedgerTypes DEF IInv, ClockAhead
<1>3. /\ d.status = "pending" => now - d.attempted > Stale
      /\ d.status = "sent" => now - d.attempted > Cooldown
  BY <1>1, <1>2, Bounds DEF InCooldown, InProgress
<1>4. ASSUME NEW w \in work, w.mail.email = e
      PROVE  now - w.mail.reserved > Stale /\ w.mail.user = u
  <2>1. w.mail.reserved \in Int /\ w.mail.user \in Users
    BY LedgerTypes
  <2>2. /\ d.user = w.mail.user
        /\ \/ d.attempted = w.mail.reserved /\ d.status = "pending"
           \/ d.attempted - w.mail.reserved > Stale
    BY <1>4 DEF IInv, WorkInOrder
  <2> HIDE DEF d
  <2> QED
    BY <1>1, <1>2, <1>3, <2>1, <2>2, Bounds
<1>5. ASSUME NEW m \in mails, m.email = e
      PROVE  m.reserved <= now /\ m.user = u
  <2>1. m.reserved \in Int /\ m.user \in Users
    BY LedgerTypes
  <2>2. d.user = m.user /\ m.reserved <= d.attempted
    BY <1>5 DEF IInv, MailsInOrder
  <2> HIDE DEF d
  <2> QED
    BY <1>1, <1>2, <2>1, <2>2, Bounds
<1>6. ASSUME NEW r \in recorded, r.email = e
      PROVE  now - r.reserved > Cooldown
  <2>1. r.reserved \in Int
    BY LedgerTypes
  <2>2. \/ d.attempted = r.reserved /\ d.status = "sent"
        \/ d.attempted - r.reserved > Cooldown
    BY <1>6 DEF IInv, RecordedInOrder
  <2> HIDE DEF d
  <2> QED
    BY <1>2, <1>3, <2>1, <2>2, Bounds
<1> QED
  BY <1>4, <1>5, <1>6

LEMMA ReserveKeeps ==
  ASSUME TypeOK, IInv, NEW u \in Users, Reserve(u)
  PROVE  IInv'
<1> DEFINE e == email[u]
           mail == [email |-> e, user |-> u, reserved |-> now]
           new == [mail |-> mail, outcome |-> ""]
<1>1. /\ e \in Emails /\ UNCHANGED <<now, mails, recorded>>
      /\ work' = work \cup {new}
      /\ dispatch' = [dispatch EXCEPT ![e] = [user |-> u, status |-> "pending", attempted |-> now]]
  BY DEF Reserve, OwnEmail, TypeOK
<1>2. /\ mail.email = e /\ mail.user = u /\ mail.reserved = now
      /\ new.mail = mail /\ new.outcome = ""
  OBVIOUS
<1>3. /\ dispatch'[e].user = u /\ dispatch'[e].status = "pending" /\ dispatch'[e].attempted = now
      /\ \A f \in Emails : f # e => dispatch'[f] = dispatch[f]
  BY <1>1 DEF TypeOK
<1>4. /\ \A w \in work : w.mail.email = e => now - w.mail.reserved > Stale /\ w.mail.user = u
      /\ \A m \in mails : m.email = e => m.reserved <= now /\ m.user = u
      /\ \A r \in recorded : r.email = e => now - r.reserved > Cooldown
  BY ReserveFinds
<1> HIDE DEF e, mail, new
<1>5. ClockAhead'
  BY <1>1, <1>3, LedgerTypes DEF IInv, ClockAhead
<1>6. WorkInOrder'
  <2> SUFFICES ASSUME NEW w \in work'
               PROVE  /\ dispatch'[w.mail.email].user = w.mail.user
                      /\ \/ /\ dispatch'[w.mail.email].attempted = w.mail.reserved
                            /\ dispatch'[w.mail.email].status = "pending"
                         \/ dispatch'[w.mail.email].attempted - w.mail.reserved > Stale
                      /\ w.outcome = "sent" => w.mail \in mails'
    BY DEF WorkInOrder
  <2>1. CASE w = new
    BY <1>2, <1>3, <2>1
  <2>2. CASE w \in work
    <3>1. /\ dispatch[w.mail.email].user = w.mail.user
          /\ \/ /\ dispatch[w.mail.email].attempted = w.mail.reserved
                /\ dispatch[w.mail.email].status = "pending"
             \/ dispatch[w.mail.email].attempted - w.mail.reserved > Stale
          /\ w.outcome = "sent" => w.mail \in mails
      BY <2>2 DEF IInv, WorkInOrder
    <3>2. w.mail.email \in Emails
      BY <2>2, LedgerTypes
    <3> QED
      BY <1>1, <1>3, <1>4, <2>2, <3>1, <3>2
  <2> QED
    BY <1>1, <2>1, <2>2
<1>7. MailsInOrder'
  BY <1>1, <1>3, <1>4, LedgerTypes DEF IInv, MailsInOrder
<1>8. RecordedInOrder'
  BY <1>1, <1>3, <1>4, LedgerTypes DEF IInv, RecordedInOrder
<1>9. SentIsMailed'
  BY <1>1, <1>3 DEF IInv, SentIsMailed
<1>10. AllCooled'
  <2>1. \A w \in work' : w = new \/ w \in work
    BY <1>1
  <2> QED
    BY <1>1, <1>2, <1>4, <2>1 DEF IInv, AllCooled, Cooled
<1>11. OneAtATime'
  <2> SUFFICES ASSUME NEW w \in work', NEW x \in work',
                      w.mail.email = x.mail.email, w # x
               PROVE  w.mail.reserved - x.mail.reserved \notin -Stale..Stale
    BY DEF OneAtATime
  <2>1. w \in work /\ x \in work =>
          w.mail.reserved - x.mail.reserved \notin -Stale..Stale
    BY DEF IInv, OneAtATime
  <2>2. ASSUME NEW y \in work, y.mail.email = e
        PROVE  /\ now - y.mail.reserved \notin -Stale..Stale
               /\ y.mail.reserved - now \notin -Stale..Stale
    <3>1. y.mail.reserved \in Int /\ now \in Int /\ now - y.mail.reserved > Stale
      BY <1>4, <2>2, LedgerTypes
    <3> QED
      BY <3>1, Bounds
  <2> QED
    BY <1>1, <1>2, <2>1, <2>2
<1> QED
  BY <1>5, <1>6, <1>7, <1>8, <1>9, <1>10, <1>11 DEF IInv

LEMMA IInvNext == TypeOK /\ IInv /\ [Next]_vars => IInv'
<1> SUFFICES ASSUME TypeOK, IInv, [Next]_vars PROVE IInv'
  OBVIOUS
<1>1. now \in Int
  BY LedgerTypes
<1>2. CASE Account
  <2>1. UNCHANGED <<now, dispatch, work, mails, recorded>>
    BY <1>2, AccountType DEF AccountWrites
  <2> QED
    BY <1>1, <2>1, QuietKeeps
<1>3. CASE Tick
  <2>1. now' = now + 1 /\ UNCHANGED <<dispatch, work, mails, recorded>>
    BY <1>3 DEF Tick
  <2> QED
    BY <1>1, <2>1, QuietKeeps
<1>4. ASSUME NEW w \in work, WorkerDies(w) PROVE IInv'
  <2>1. work' \subseteq work /\ UNCHANGED <<now, dispatch, mails, recorded>>
    BY <1>4 DEF WorkerDies
  <2> QED
    BY <1>1, <2>1, QuietKeeps
<1>5. CASE UNCHANGED vars
  BY <1>1, <1>5, QuietKeeps DEF vars
<1> QED
  BY <1>2, <1>3, <1>4, <1>5, ReserveKeeps, SendKeeps, FinalizeKeeps DEF Next, Delivery

(* The ledger can be trusted although mails are sent between transactions:  *)
(* a row reserved again is not finalized by the delivery before, so the     *)
(* time of the reservation keeps late workers and repeated mails apart.     *)
THEOREM LedgerKeptCorrect == Spec => []LedgerKept
<1>1. Init => IInv
  BY DEF Init, IInv, ClockAhead, WorkInOrder, MailsInOrder, RecordedInOrder, SentIsMailed,
         AllCooled, OneAtATime
<1>2. IInv => LedgerKept
  BY DEF IInv, SentIsMailed, AllCooled, Cooled, OneAtATime, MailsInOrder, LedgerKept
<1> QED
  BY <1>1, <1>2, IInvNext, TypeCorrect, PTL DEF Spec

=============================================================================
