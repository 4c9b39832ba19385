--------------------------- MODULE AccountEmail ----------------------------
(* The e-mail of an account and its verification (auth_identity.py,          *)
(* email_verification.py). An account has its e-mail twice, in the user row  *)
(* and as its primary address; administrators and the pages of the library   *)
(* (/accounts/email/, links) change them in several writes, so the two may   *)
(* come apart. A verification mail is sent between two transactions: the     *)
(* first reserves the row of the address in a ledger, the second finalizes   *)
(* it. The time of the reservation tells a worker whether the row is still   *)
(* its own. Writes that the unique indexes refuse change nothing and are     *)
(* left out.                                                                 *)
EXTENDS Integers, FiniteSets

CONSTANTS
  Users, Emails,
  None,      \* no user, a blank e-mail
  Cooldown,  \* EMAIL_VERIFICATION_RESEND_COOLDOWN_MINUTES
  Stale,     \* EMAIL_VERIFICATION_PENDING_STALE_MINUTES
  MaxTime,   \* bound
  MaxEdits,  \* bound: changes of accounts
  MaxWork    \* bound: deliveries and requests at once

ASSUME EmailAssumption ==
  /\ None \notin Users \cup Emails
  /\ Cooldown \in Nat \ {0} /\ Stale \in Nat \ {0} /\ MaxTime \in Nat /\ MaxEdits \in Nat /\ MaxWork \in Nat

VARIABLES
  now,
  email,     \* User.email
  address,   \* EmailAddress rows
  edits,     \* changes of accounts so far
  requests,  \* requests between two of their writes to an account
  dispatch,  \* EmailVerificationDispatch rows, by the digest of the address
  work,      \* deliveries in progress
  mails,     \* mails handed over (history)
  recorded   \* reservations recorded as sent (history)

vars == <<now, email, address, edits, requests, dispatch, work, mails, recorded>>

Time     == 0..MaxTime
Statuses == {"none", "pending", "sent", "skipped", "failed"}
Outcomes == {"sent", "skipped", "failed"}
Address  == [owner : Users \cup {None}, verified : BOOLEAN, primary : BOOLEAN]
Dispatch == [user : Users \cup {None}, status : Statuses, attempted : Time]
Mail     == [email : Emails, user : Users, reserved : Time]

NoAddress == [owner |-> None, verified |-> FALSE, primary |-> FALSE]

\* step: what the request writes next, the form of a user with its e-mail
\* among the changed fields or without. verified: as read with the address.
Request ==
  [step : {"form", "changed", "promote", "copy"}, user : Users, email : Emails \cup {None},
   verified : BOOLEAN]

\* outcome: what the delivery came to, "" as long as it runs.
Work == [mail : Mail, outcome : Outcomes \cup {""}]

TypeOK ==
  /\ now \in Time
  /\ email \in [Users -> Emails \cup {None}]
  /\ address \in [Emails -> Address] /\ edits \in 0..MaxEdits /\ requests \subseteq Request
  /\ dispatch \in [Emails -> Dispatch]
  /\ work \subseteq Work
  /\ mails \subseteq Mail /\ recorded \subseteq Mail

\* The unique indexes on both e-mails and on the primary address of a user.
Unique(emails) == \A u, v \in Users : u # v => emails[u] # emails[v] \/ emails[u] = None

OwnedIn(rows, u)   == {e \in Emails : rows[e].owner = u}
PrimaryIn(rows, u) == {e \in OwnedIn(rows, u) : rows[e].primary}

\* Old accounts have an e-mail and no address.
Init ==
  /\ now = 0
  /\ email \in {emails \in [Users -> Emails \cup {None}] : Unique(emails)}
  /\ address = [e \in Emails |-> NoAddress] /\ edits = 0 /\ requests = {}
  /\ dispatch = [e \in Emails |-> [user |-> None, status |-> "none", attempted |-> 0]]
  /\ work = {}
  /\ mails = {} /\ recorded = {}

-----------------------------------------------------------------------------
(* The account. The form of a user spans two steps, the read of the row and  *)
(* the transaction that saves it.                                            *)

SetAccount(emails, rows) ==
  /\ Unique(emails)
  /\ \A u \in Users : \A e, f \in PrimaryIn(rows, u) : e = f
  /\ email' = emails /\ address' = rows
  /\ UNCHANGED <<now, dispatch, work, mails, recorded>>

Start(new) ==
  /\ Cardinality(requests \cup new) + Cardinality(work) <= MaxWork
  /\ requests' = requests \cup new

Finish(r) == requests' = requests \ {r} /\ UNCHANGED edits

Edited == edits < MaxEdits /\ edits' = edits + 1

Writes(step, u, e, verified) == [step |-> step, user |-> u, email |-> e, verified |-> verified]

\* The address becomes the only primary one; a known one stays verified.
Synchronized(u, e) ==
  [f \in Emails |->
     IF f = e THEN [owner |-> u, verified |-> address[f].verified, primary |-> TRUE]
     ELSE IF address[f].owner = u THEN [address[f] EXCEPT !.primary = FALSE]
     ELSE address[f]]

\* An administrator posts the user: the row is read without a lock, and the
\* e-mail checked against those of other users.
OpenUserForm(u, e) ==
  /\ Edited
  /\ e # None => address[e].owner \in {None, u} /\ \A v \in Users \ {u} : email[v] # e
  /\ Start({Writes(IF e = email[u] THEN "form" ELSE "changed", u, e, FALSE)})
  /\ UNCHANGED <<now, email, address, dispatch, work, mails, recorded>>

\* All columns are saved; the addresses follow an e-mail among the changed
\* fields that is not blank.
SaveUserForm(r) ==
  LET e      == r.email
      follow == r.step = "changed" /\ e # None
  IN  /\ r.step \in {"form", "changed"}
      /\ follow => address[e].owner \in {None, r.user}
      /\ SetAccount([email EXCEPT ![r.user] = e],
                    IF follow THEN Synchronized(r.user, e) ELSE address)
      /\ Finish(r)

\* The primary address; without one the address the e-mail has already, then
\* a verified one, then any.
Compatible(rows, u) ==
  LET owned    == OwnedIn(rows, u)
      verified == {e \in owned : rows[e].verified}
  IN  IF PrimaryIn(rows, u) # {} THEN PrimaryIn(rows, u)
      ELSE IF email[u] \in owned THEN {email[u]}
      ELSE IF verified # {} THEN verified
      ELSE IF owned # {} THEN owned
      ELSE {None}

\* An administrator edits an address, or gives it to another user: the e-mails
\* of both follow.
EditAddress(e, row) ==
  LET rows     == [address EXCEPT ![e] = row]
      previous == address[e].owner
  IN  /\ Edited
      /\ row.owner # None /\ row # address[e]
      /\ \A u \in Users \ {row.owner} : email[u] # e
      /\ \E f \in Compatible(rows, row.owner),
            g \in IF previous = None THEN {None} ELSE Compatible(rows, previous) :
           SetAccount([u \in Users |-> IF u = row.owner THEN f
                                       ELSE IF u = previous THEN g ELSE email[u]], rows)
      /\ UNCHANGED requests

\* Deleting one leaves the e-mail of the user alone.
DeleteAddress(e) ==
  /\ Edited
  /\ address[e] # NoAddress
  /\ SetAccount(email, [address EXCEPT ![e] = NoAddress])
  /\ UNCHANGED requests

-----------------------------------------------------------------------------
(* The pages of the library. Each of their writes is a transaction: the     *)
(* request may be overtaken, or die, between two.                           *)

\* The user adds an address to his own.
AddAddress(u, e) ==
  /\ Edited
  /\ address[e].owner = None /\ \A v \in Users \ {u} : email[v] # e
  /\ SetAccount(email, [address EXCEPT ![e] = [owner |-> u, verified |-> FALSE, primary |-> FALSE]])
  /\ UNCHANGED requests

\* He removes one, the primary one if it is the last; his e-mail becomes one
\* of those left, a verified one first.
RemoveAddress(e) ==
  LET u        == address[e].owner
      rows     == [address EXCEPT ![e] = NoAddress]
      left     == OwnedIn(rows, u)
      verified == {f \in left : rows[f].verified}
      next     == IF verified # {} THEN verified ELSE IF left # {} THEN left ELSE {None}
  IN  /\ Edited
      /\ u # None /\ (address[e].primary => left = {})
      /\ SetAccount(email, rows)
      /\ \E f \in next :
           Start(IF email[u] = e THEN {Writes("copy", u, f, FALSE)} ELSE {})

\* He makes one primary: the old one ceases to be it, the new one is saved as
\* it was read, and his e-mail follows.
MakePrimary(e) ==
  LET u == address[e].owner
  IN  /\ Edited
      /\ u # None
      /\ address[e].verified \/ ~\E f \in OwnedIn(address, u) : address[f].verified
      /\ SetAccount(email, [f \in Emails |->
                              IF f \in PrimaryIn(address, u) THEN [address[f] EXCEPT !.primary = FALSE]
                              ELSE address[f]])
      /\ Start({Writes("promote", u, e, address[e].verified)})

Promote(r) ==
  /\ r.step = "promote"
  /\ SetAccount(email, [address EXCEPT ![r.email] =
                          [owner |-> r.user, verified |-> r.verified, primary |-> TRUE]])
  /\ requests' = (requests \ {r}) \cup {Writes("copy", r.user, r.email, FALSE)}
  /\ UNCHANGED edits

CopyEmail(r) ==
  /\ r.step = "copy"
  /\ SetAccount([email EXCEPT ![r.user] = r.email], address)
  /\ Finish(r)

RequestDies(r) ==
  /\ Finish(r)
  /\ UNCHANGED <<now, email, address, dispatch, work, mails, recorded>>

\* The user follows a link: the address is verified, and primary if none was.
FollowLink(e) ==
  LET u     == address[e].owner
      first == PrimaryIn(address, u) = {}
  IN  /\ Edited
      /\ u # None /\ ~address[e].verified
      /\ SetAccount(email, [address EXCEPT ![e].verified = TRUE, ![e].primary = @ \/ first])
      /\ Start(IF first THEN {Writes("copy", u, e, FALSE)} ELSE {})

-----------------------------------------------------------------------------
(* The verification mail.                                                   *)

Verified(u) == \E e \in OwnedIn(address, u) : address[e].verified

InCooldown(e) ==
  /\ dispatch[e].status \in {"sent", "skipped"}
  /\ dispatch[e].attempted >= now - Cooldown

InProgress(e) ==
  /\ dispatch[e].status = "pending"
  /\ dispatch[e].attempted >= now - Stale

\* Nobody else has the address, or had it when a mail was last reserved.
OwnEmail(u) ==
  /\ email[u] # None
  /\ address[email[u]].owner \in {None, u}
  /\ dispatch[email[u]].user \in {None, u}

Repaired(u) ==
  IF address[email[u]].owner = u THEN address
  ELSE [address EXCEPT ![email[u]] =
          [owner |-> u, verified |-> FALSE, primary |-> PrimaryIn(address, u) = {}]]

\* The first transaction, under the lock of the user.
Reserve(u) ==
  LET e == email[u]
  IN  /\ Cardinality(work) + Cardinality(requests) < MaxWork
      /\ ~Verified(u) /\ OwnEmail(u) /\ ~InCooldown(e) /\ ~InProgress(e)
      /\ address' = Repaired(u)
      /\ dispatch' = [dispatch EXCEPT ![e] = [user |-> u, status |-> "pending", attempted |-> now]]
      /\ work' = work \cup {[mail |-> [email |-> e, user |-> u, reserved |-> now], outcome |-> ""]}
      /\ UNCHANGED <<now, email, edits, requests, mails, recorded>>

\* A failed delivery may have been accepted all the same.
Send(w, outcome, accepted) ==
  /\ w.outcome = ""
  /\ outcome = "sent" => accepted
  /\ outcome = "skipped" => ~accepted
  /\ work' = (work \ {w}) \cup {[w EXCEPT !.outcome = outcome]}
  /\ mails' = IF accepted THEN mails \cup {w.mail} ELSE mails
  /\ UNCHANGED <<now, email, address, edits, requests, dispatch, recorded>>

(* Mutant: whoever comes last finalizes the row.                             *)
OwnsRow(w) == dispatch[w.mail.email].status = "pending"

OwnsReservation(w) ==
  /\ dispatch[w.mail.email].status = "pending"
  /\ dispatch[w.mail.email].attempted = w.mail.reserved

\* The second transaction: a row reserved again meanwhile is left alone.
Finalize(w) ==
  /\ w.outcome # ""
  /\ IF OwnsReservation(w)
     THEN /\ dispatch' = [dispatch EXCEPT ![w.mail.email].status = w.outcome]
          /\ recorded' = IF w.outcome = "sent" THEN recorded \cup {w.mail} ELSE recorded
     ELSE UNCHANGED <<dispatch, recorded>>
  /\ work' = work \ {w}
  /\ UNCHANGED <<now, email, address, edits, requests, mails>>

WorkerDies(w) ==
  /\ work' = work \ {w}
  /\ UNCHANGED <<now, email, address, edits, requests, dispatch, mails, recorded>>

Tick ==
  /\ now < MaxTime
  /\ now' = now + 1
  /\ UNCHANGED <<email, address, edits, requests, dispatch, work, mails, recorded>>

Administrator ==
  \/ \E u \in Users, e \in Emails \cup {None} : OpenUserForm(u, e)
  \/ \E r \in requests : SaveUserForm(r)
  \/ \E e \in Emails : DeleteAddress(e) \/ \E row \in Address : EditAddress(e, row)

Library ==
  \/ \E u \in Users, e \in Emails : AddAddress(u, e)
  \/ \E e \in Emails : RemoveAddress(e) \/ MakePrimary(e) \/ FollowLink(e)
  \/ \E r \in requests : Promote(r) \/ CopyEmail(r)

Account == Administrator \/ Library \/ \E r \in requests : RequestDies(r)

Delivery ==
  \/ \E u \in Users : Reserve(u)
  \/ \E w \in work :
       \/ \E outcome \in Outcomes, accepted \in BOOLEAN : Send(w, outcome, accepted)
       \/ Finalize(w) \/ WorkerDies(w)

Next == Account \/ Delivery \/ Tick

Spec == Init /\ [][Next]_vars

-----------------------------------------------------------------------------
(* Properties.                                                              *)

(* The ledger can be trusted although mails are sent outside transactions:   *)
(* an address recorded as sent got the mail of the reservation the row shows *)
(* and not of an older one; no mail follows a recorded one within the        *)
(* cooldown; a second delivery to an address starts only when the first one  *)
(* under way is taken for dead; and an address gets mails on behalf of one   *)
(* account only, however it changes hands. The mails meant are those of the  *)
(* ledger; the library mails from its own pages without it.                  *)
LedgerKept ==
  /\ \A e \in Emails :
       dispatch[e].status = "sent" =>
         [email |-> e, user |-> dispatch[e].user, reserved |-> dispatch[e].attempted] \in mails
  /\ \A r \in recorded, m \in mails :
       r.email = m.email /\ m.reserved > r.reserved => m.reserved - r.reserved > Cooldown
  /\ \A w, x \in work :
       w.mail.email = x.mail.email /\ w # x =>
         w.mail.reserved - x.mail.reserved \notin -Stale..Stale
  /\ \A m, n \in mails : m.email = n.email => m.user = n.user

=============================================================================
