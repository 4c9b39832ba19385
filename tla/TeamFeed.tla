------------------------------ MODULE TeamFeed ------------------------------
(***************************************************************************)
(* The team feed over TeamMembers: saving or deleting a sale synchronizes  *)
(* its activity row (signals.py, team_services.py), and members comment on *)
(* what the feed shows (team_views.py).                                    *)
(*                                                                         *)
(* A sale is saved in a transaction that locks its row and then reads the  *)
(* membership of the seller without a lock, so he may leave or join before *)
(* the activity is written: Synchronize and SaveSale. An edit works on a   *)
(* row it read before, and saving a row deleted since inserts it again. A  *)
(* request about a comment reads the membership, the activity and, to edit *)
(* it, the comment, and writes later. Who leaves a team or is removed has  *)
(* his activities hidden after his membership is saved. Of a sale only the *)
(* unit credit is kept, of a comment whether it has a text; reactions are  *)
(* left out, and TEAMS_FEATURE_ENABLED is on.                              *)
(***************************************************************************)
EXTENDS TeamMembers

CONSTANTS
  Sales,       \* rows of sales
  Seller,      \* the user of a sale
  Units,       \* unit credits
  Activities,  \* bound: the activity rows ever created
  Comments,    \* bound: the comments ever written
  Workers,     \* bound: concurrent requests about sales and the feed
  MaxBusy      \* bound: concurrent requests of either kind

ASSUME SalesAssumption ==
  /\ Seller \in [Sales -> Users]
  /\ None \notin Sales \cup Activities \cup Comments \cup Units

VARIABLES
  sale,      \* the unit credit of Sale rows, None without a row
  activity,  \* TeamActivity rows
  comment,   \* TeamComment rows
  work       \* requests about sales and the feed, with what they have read

feed == <<sale, activity, comment, work>>
feedVars == <<vars, feed>>

NoActivity ==
  [sale |-> None, user |-> None, team |-> None, units |-> None, visible |-> FALSE]
NoComment ==
  [activity |-> None, team |-> None, author |-> None, status |-> "none", text |-> FALSE]
NoWork ==
  [op |-> "none", user |-> None, team |-> None, sale |-> None, units |-> None,
   activity |-> None, comment |-> None]

FeedInit ==
  /\ Init
  /\ sale = [s \in Sales |-> None]
  /\ activity = [a \in Activities |-> NoActivity]
  /\ comment = [c \in Comments |-> NoComment]
  /\ work = [w \in Workers |-> NoWork]

Finish(w) == work' = [work EXCEPT ![w] = NoWork]

-----------------------------------------------------------------------------
(* Sales                                                                   *)

ActivitiesOf(s) == {a \in Activities : activity[a].sale = s}

\* The row lock of a sale, held from its update to the end of the transaction.
SaleLocked(s) == \E w \in Workers : work[w].op = "sync" /\ work[w].sale = s

Saving(w, s, n) ==
  work' = [work EXCEPT ![w] = [NoWork EXCEPT !.op = "save", !.sale = s, !.units = n]]

\* The new row gets an id that nothing refers to.
AddSale(w, s, n) ==
  /\ work[w] = NoWork
  /\ sale[s] = None
  /\ \A x \in Workers : work[x].sale # s
  /\ Saving(w, s, n)
  /\ UNCHANGED <<vars, sale, activity, comment>>

EditSale(w, s, n) ==
  /\ work[w] = NoWork
  /\ sale[s] # None
  /\ Saving(w, s, n)
  /\ UNCHANGED <<vars, sale, activity, comment>>

\* The row is updated, or inserted if there is none, and the active membership
\* of the seller is read.
Synchronize(w) ==
  /\ work[w].op = "save"
  /\ ~SaleLocked(work[w].sale)
  /\ LET found == ActiveTeams(Seller[work[w].sale])
     IN  \E t \in IF found = {} THEN {None} ELSE found :
           work' = [work EXCEPT ![w].op = "sync", ![w].team = t]
  /\ UNCHANGED <<vars, sale, activity, comment>>

Hidden(s) ==
  [a \in Activities |-> IF activity[a].sale = s THEN [activity[a] EXCEPT !.visible = FALSE]
                        ELSE activity[a]]

\* Mutant: get_or_create.
FoundRow(row, s, t, n) == IF row = NoActivity THEN
  [sale |-> s, user |-> Seller[s], team |-> t, units |-> n, visible |-> TRUE] ELSE row

\* update_or_create
SyncedRow(row, s, t, n) ==
  [sale |-> s, user |-> Seller[s], team |-> t, units |-> n, visible |-> TRUE]

\* The row that update_or_create writes: the one of the sale, or a new one.
SyncTarget(s, a) ==
  IF ActivitiesOf(s) = {} THEN activity[a] = NoActivity ELSE a \in ActivitiesOf(s)

SaveSale(w) ==
  LET s == work[w].sale
  IN  /\ work[w].op = "sync"
      /\ sale' = [sale EXCEPT ![s] = work[w].units]
      /\ IF work[w].team = None
           THEN activity' = Hidden(s)
           ELSE \E a \in Activities :
                  /\ SyncTarget(s, a)
                  /\ activity' = [activity EXCEPT ![a] =
                                    SyncedRow(@, s, work[w].team, work[w].units)]
      /\ Finish(w)
      /\ UNCHANGED <<vars, comment>>

\* The activity is hidden first, then its link to the sale is cleared.
DeleteSale(s) ==
  /\ sale[s] # None
  /\ ~SaleLocked(s)
  /\ sale' = [sale EXCEPT ![s] = None]
  /\ activity' = [a \in Activities |->
                    IF activity[a].sale = s
                      THEN [activity[a] EXCEPT !.visible = FALSE, !.sale = None]
                      ELSE activity[a]]
  /\ UNCHANGED <<vars, comment, work>>

-----------------------------------------------------------------------------
(* Members who go                                                          *)

MemberHidden(t, u) ==
  [a \in Activities |-> IF activity[a].team = t /\ activity[a].user = u
                          THEN [activity[a] EXCEPT !.visible = FALSE]
                          ELSE activity[a]]

\* The second statement of a removal or of leaving; if the worker dies before
\* it, EndRequest ends the request without it.
HideActivities(r) ==
  /\ req[r].op = "hide"
  /\ activity' = MemberHidden(req[r].team, req[r].user)
  /\ End(r)
  /\ UNCHANGED <<rows, holder, pro, sale, comment, work>>

-----------------------------------------------------------------------------
(* Comments                                                                *)

\* visible_activity_or_404 for a member of team t.
Shown(a, t) ==
  /\ team[t].active
  /\ activity[a].team = t
  /\ activity[a].visible
  /\ Active(t, activity[a].user)

Own(c, t, u) == comment[c].team = t /\ comment[c].author = u

OnFeed(w, op, u, t, a, c) ==
  /\ work[w] = NoWork
  /\ team[t].active
  /\ Active(t, u)
  /\ Shown(a, t)
  /\ work' = [work EXCEPT ![w] = [NoWork EXCEPT !.op = op, !.user = u, !.team = t,
                                                !.activity = a, !.comment = c]]
  /\ UNCHANGED <<vars, sale, activity, comment>>

OpenActivity(w, u, t, a) ==
  OnFeed(w, "comment", u, t, a, None)

\* Only an edit reads the comment before it writes.
OpenComment(w, u, t, a, c) ==
  /\ comment[c].activity = a
  /\ \/ OnFeed(w, "delete", u, t, a, c)
     \/ member[t][u].role \in {"owner", "admin"} /\ OnFeed(w, "hide", u, t, a, c)
     \/ Own(c, t, u) /\ comment[c].status = "shown" /\ OnFeed(w, "edit", u, t, a, c)

PostComment(w, c) ==
  /\ work[w].op = "comment"
  /\ comment[c] = NoComment
  /\ comment' = [comment EXCEPT ![c] =
                   [activity |-> work[w].activity, team |-> work[w].team,
                    author |-> work[w].user, status |-> "shown", text |-> TRUE]]
  /\ Finish(w)
  /\ UNCHANGED <<vars, sale, activity>>

\* Mutant: save() without update_fields.
WholeComment(row) == [row EXCEPT !.status = "shown", !.text = TRUE]

\* save(update_fields=...) writes the text alone.
EditedComment(row) == [row EXCEPT !.text = TRUE]

SaveComment(w) ==
  /\ work[w].op = "edit"
  /\ comment' = [comment EXCEPT ![work[w].comment] = EditedComment(@)]
  /\ Finish(w)
  /\ UNCHANGED <<vars, sale, activity>>

Cleared(w, status) ==
  /\ comment[work[w].comment].status = "shown"
  /\ comment' = [comment EXCEPT ![work[w].comment].status = status,
                                ![work[w].comment].text = FALSE]
  /\ Finish(w)
  /\ UNCHANGED <<vars, sale, activity>>

DeleteComment(w) ==
  /\ work[w].op = "delete"
  /\ Own(work[w].comment, work[w].team, work[w].user)
  /\ Cleared(w, "deleted")

HideComment(w) ==
  /\ work[w].op = "hide"
  /\ ~Own(work[w].comment, work[w].team, work[w].user)
  /\ Cleared(w, "hidden")

\* The request is refused, its transaction is rolled back or its worker dies.
EndWork(w) ==
  /\ work[w] # NoWork
  /\ Finish(w)
  /\ UNCHANGED <<vars, sale, activity, comment>>

-----------------------------------------------------------------------------
FeedStep(w) ==
  \/ \E s \in Sales, n \in Units : AddSale(w, s, n) \/ EditSale(w, s, n)
  \/ Synchronize(w)
  \/ SaveSale(w)
  \/ \E u \in Users, t \in Teams, a \in Activities :
       \/ OpenActivity(w, u, t, a)
       \/ \E c \in Comments : OpenComment(w, u, t, a, c)
  \/ \E c \in Comments : PostComment(w, c)
  \/ SaveComment(w)
  \/ DeleteComment(w)
  \/ HideComment(w)
  \/ EndWork(w)

Busy ==
  Cardinality({r \in Requests : req[r] # NoRequest})
    + Cardinality({w \in Workers : work[w] # NoWork})

FeedNext ==
  /\ \/ Next /\ UNCHANGED feed
     \/ \E r \in Requests : HideActivities(r)
     \/ \E w \in Workers : FeedStep(w)
     \/ \E s \in Sales : DeleteSale(s)
  /\ Busy' <= MaxBusy

FeedSpec == FeedInit /\ [][FeedNext]_feedVars

-----------------------------------------------------------------------------
(* What the feed promises                                                  *)

\* What a feed may show is a sale that exists, with its present credit, and
\* no sale is shown twice: saves, deletions and saves of deleted rows leave
\* no activity behind.
ActivityCurrent ==
  \A a \in Activities : activity[a].visible =>
    LET s == activity[a].sale
    IN  /\ s # None
        /\ sale[s] = activity[a].units
        /\ ActivitiesOf(s) = {a}

\* A comment that was deleted or hidden never comes back, although an edit of
\* it may be saved afterwards.
GoneStaysGone ==
  [][\A c \in Comments :
       comment[c].status \in {"deleted", "hidden"} =>
         comment'[c].status = comment[c].status]_feedVars

=============================================================================
