--------------------------- MODULE BillingCheckout ---------------------------
(***************************************************************************)
(* Checkout reservations, Stripe webhooks and the one introductory benefit *)
(* of each user: billing_services.py, billing_webhooks.py, the checkout    *)
(* and founder views of billing_views.py, the gateway and the command      *)
(* revoke_founder_code.                                                    *)
(*                                                                         *)
(* Every local transaction is one action (each takes the row locks it      *)
(* needs); a view or a webhook delivery is a sequence of transactions and  *)
(* external calls, so between two of them any other actor may run and the  *)
(* worker may die.  Stripe and dj-stripe are external: they are modelled   *)
(* by how this code uses them.                                             *)
(*                                                                         *)
(* Stripe creates at most one session per idempotency key and at most one  *)
(* subscription per session, so an attempt also names its session and its  *)
(* subscription.                                                           *)
(***************************************************************************)
EXTENDS Integers, FiniteSets

CONSTANTS
  Users,            \* accounts with a verified canonical e-mail
  Grants,           \* FounderGrant rows
  Attempts,         \* bound: the checkout attempts that can ever be reserved
  Requests,         \* bound: concurrent billing_checkout_start requests
  MaxTime,          \* bound: the clock stops here
  MaxEvents,        \* bound: the events Stripe ever sends
  MaxHandlers,      \* bound: concurrent webhook deliveries
  ReservationTime,  \* BILLING_CHECKOUT_RESERVATION_MINUTES
  GrantExpiry,      \* FounderGrant.expires_at, the same for every grant
  Tiered,           \* BILLING_TIERED_PRICING_ENABLED
  Plans,            \* bound: the tiers and intervals customers choose
  None

ASSUME BoundsAssumption ==
  /\ MaxTime \in Nat
  /\ MaxEvents \in Nat
  /\ MaxHandlers \in Nat
  /\ ReservationTime \in Nat \ {0}
  /\ GrantExpiry \in Nat
  /\ Tiered \in BOOLEAN

ASSUME NoneAssumption ==
  /\ None \notin Users
  /\ None \notin Grants
  /\ None \notin Attempts

VARIABLES
  now,      \* the clock of Stripe and of the server, starting at 1
  grant,    \* FounderGrant rows
  access,   \* BillingAccess rows (an absent row equals one with the defaults)
  attempt,  \* BillingCheckoutAttempt rows
  row,      \* status of the local dj-stripe Subscription row of an attempt
  req,      \* billing_checkout_start requests in progress
  hooks,    \* webhook deliveries in progress
  session,  \* Stripe: the Checkout session of an attempt
  sub,      \* Stripe: the status of the subscription of an attempt
  events    \* Stripe: events sent, each delivered any number of times

local  == <<grant, access, attempt, row>>
stripe == <<session, sub, events>>
vars   == <<now, grant, access, attempt, row, req, hooks, session, sub, events>>

-----------------------------------------------------------------------------
(* Plans and row types                                                     *)

AllPlans == {"basic_month", "basic_year", "pro_month", "pro_year"}

CheckoutSelections(founder) ==
  IF ~Tiered THEN {"pro_month"}
  ELSE IF founder THEN AllPlans \ {"basic_month", "basic_year"}
  ELSE AllPlans

TrialKinds     == {"", "standard", "founder"}
ActiveStatuses == {"reserved", "session_created", "checkout_completed"}
Statuses       == ActiveStatuses \cup {"absent", "confirmed", "expired"}

(* Stripe statuses, by what the entitlement resolver tells apart: "ended"  *)
(* stands for every status that grants no access.                          *)
SubStatuses == {"absent", "trialing", "active", "ended"}
Entitling   == {"trialing", "active"}

AttemptRow ==
  [user : Users \cup {None}, plan : Plans \cup {None}, trial : TrialKinds,
   grant : Grants \cup {None}, expires : Nat, status : Statuses]

NoAttempt ==
  [user |-> None, plan |-> None, trial |-> "", grant |-> None, expires |-> 0,
   status |-> "absent"]

AccessRow ==
  [consumed : TrialKinds, grant : Grants \cup {None},
   authoritative : Attempts \cup {None}, lastEvent : Nat]

GrantRow == [redeemedBy : Users \cup {None}, revoked : BOOLEAN]

EventTypes == {"checkout", "subscription", "invoice"}

Event == [type : EventTypes, created : Nat, att : Attempts]

Request == [pc : {"idle", "checked", "reserved", "ready"},
            user : Users \cup {None}, att : Attempts \cup {None}]

Idle == [pc |-> "idle", user |-> None, att |-> None]

Hook == [pc : {"reconcile", "record"}, event : Event]

TypeOK ==
  /\ now \in Nat \ {0}
  /\ grant \in [Grants -> GrantRow]
  /\ access \in [Users -> AccessRow]
  /\ attempt \in [Attempts -> AttemptRow]
  /\ row \in [Attempts -> SubStatuses]
  /\ req \in [Requests -> Request]
  /\ hooks \subseteq Hook
  /\ session \in [Attempts -> {"none", "open", "shown", "complete"}]
  /\ sub \in [Attempts -> SubStatuses]
  /\ events \subseteq Event

Init ==
  /\ now = 1
  /\ grant = [g \in Grants |-> [redeemedBy |-> None, revoked |-> FALSE]]
  /\ access = [u \in Users |-> [consumed |-> "", grant |-> None,
                                authoritative |-> None, lastEvent |-> 0]]
  /\ attempt = [a \in Attempts |-> NoAttempt]
  /\ row = [a \in Attempts |-> "absent"]
  /\ req = [r \in Requests |-> Idle]
  /\ hooks = {}
  /\ session = [a \in Attempts |-> "none"]
  /\ sub = [a \in Attempts |-> "absent"]
  /\ events = {}

-----------------------------------------------------------------------------
(* What the transactions read                                              *)

ActiveAttempts(u) ==
  {a \in Attempts : attempt[a].user = u /\ attempt[a].status \in ActiveStatuses}

(* get_billing_entitlement(user).subscription_access: the authoritative    *)
(* subscription when there is one, else the best of the synchronized rows. *)
SubscriptionAccess(u) ==
  IF access[u].authoritative # None
  THEN row[access[u].authoritative] \in Entitling
  ELSE \E a \in Attempts : attempt[a].user = u /\ row[a] \in Entitling

FounderEligible(u) ==
  LET g == access[u].grant
  IN  /\ g # None
      /\ grant[g].redeemedBy = u
      /\ ~grant[g].revoked
      /\ access[u].consumed = ""

(* Mutant: the grant's entitlement tier stored as the kind of trial.       *)
OfferedTrialTier(u, plan) ==
  IF FounderEligible(u) THEN "founder_pro" ELSE ""

(* The introductory offer a new attempt carries.                           *)
OfferedTrial(u, plan) ==
  CASE access[u].consumed # ""  -> ""
    [] FounderEligible(u)       -> "founder"
    [] plan = "basic_month"     -> "standard"
    [] OTHER                    -> ""

-----------------------------------------------------------------------------
(* Founder grants                                                          *)

(* Mutant: revocation looks at the revocation date only.                   *)
NotRevoked(g) == ~grant[g].revoked

(* Only an unused grant may be redeemed or revoked.                        *)
Unused(g) == ~grant[g].revoked /\ grant[g].redeemedBy = None

(* A reservation in progress holds the lock of the user row.               *)
Locked(u) == \E r \in Requests : req[r].pc = "checked" /\ req[r].user = u

RedeemFounderCode(u, g) ==
  /\ ~Locked(u)
  /\ access[u].consumed = ""
  /\ \A h \in Grants : grant[h].redeemedBy # u
  /\ Unused(g)
  /\ now < GrantExpiry
  /\ grant' = [grant EXCEPT ![g].redeemedBy = u]
  /\ access' = [access EXCEPT ![u].grant = g]
  /\ UNCHANGED <<now, attempt, row, req, hooks, session, sub, events>>

RevokeFounderCode(g) ==
  /\ Unused(g)
  /\ grant' = [grant EXCEPT ![g].revoked = TRUE]
  /\ UNCHANGED <<now, access, attempt, row, req, hooks, session, sub, events>>

-----------------------------------------------------------------------------
(* billing_checkout_start: reserve an attempt, call Stripe, mark the       *)
(* result.  The reservation reads the entitlement under the lock of the    *)
(* user row, and webhooks do not take that lock: a subscription may be     *)
(* confirmed between the check and the rest of the transaction.            *)

Live(u)  == {a \in ActiveAttempts(u) : attempt[a].expires > now}
Stale(u) == ActiveAttempts(u) \ Live(u)

Expired(S) ==
  [a \in Attempts |-> IF a \in S THEN [attempt[a] EXCEPT !.status = "expired"]
                                 ELSE attempt[a]]

CheckEntitlement(r, u) ==
  /\ req[r].pc = "idle"
  /\ ~Locked(u)
  /\ ~SubscriptionAccess(u)
  /\ req' = [req EXCEPT ![r] = [pc |-> "checked", user |-> u, att |-> None]]
  /\ UNCHANGED <<now, grant, access, attempt, row, hooks, session, sub, events>>

MayReserve(r, u, plan) ==
  /\ req[r].pc = "checked" /\ req[r].user = u
  /\ plan \in CheckoutSelections(FounderEligible(u))

(* The user has a live reservation of the same selection: it is reused.    *)
ReserveExisting(r, u, plan, a) ==
  /\ MayReserve(r, u, plan)
  /\ a \in Live(u)
  /\ attempt[a].plan = plan
  /\ attempt' = Expired(Stale(u))
  /\ req' = [req EXCEPT ![r] = [pc |-> "reserved", user |-> u, att |-> a]]
  /\ UNCHANGED <<now, grant, access, row, hooks, session, sub, events>>

(* The attempts a new reservation replaces: those out of time and the live *)
(* one of another selection.                                               *)
Replaced(u) == Stale(u) \cup Live(u)

ReserveNew(r, u, plan, a) ==
  LET trial == OfferedTrial(u, plan)
  IN  /\ MayReserve(r, u, plan)
      /\ \A b \in Live(u) : attempt[b].plan # plan
      /\ attempt[a].status = "absent"
      /\ attempt' = [Expired(Replaced(u)) EXCEPT ![a] =
           [user |-> u, plan |-> plan, trial |-> trial,
            grant |-> IF trial = "founder" THEN access[u].grant ELSE None,
            expires |-> now + ReservationTime, status |-> "reserved"]]
      /\ req' = [req EXCEPT ![r] = [pc |-> "reserved", user |-> u, att |-> a]]
      /\ UNCHANGED <<now, grant, access, row, hooks, session, sub, events>>

(* customer_for_user and create_checkout_session: Stripe opens the session *)
(* or, for a repeated idempotency key, returns the one it has.             *)
CreateSession(r) ==
  LET a == req[r].att
  IN  /\ req[r].pc = "reserved"
      /\ session[a] # "none" \/ now < attempt[a].expires
      /\ session' = [session EXCEPT ![a] = IF @ = "none" THEN "open" ELSE @]
      /\ req' = [req EXCEPT ![r].pc = "ready"]
      /\ UNCHANGED <<now, grant, access, attempt, row, hooks, sub, events>>

(* A gateway error: the view records a failure code nothing reads and      *)
(* gives up, although Stripe may have opened the session all the same.     *)
GatewayError(r) ==
  LET a == req[r].att
  IN  /\ req[r].pc = "reserved"
      /\ \/ session' = session
         \/ /\ session[a] = "none" /\ now < attempt[a].expires
            /\ session' = [session EXCEPT ![a] = "open"]
      /\ req' = [req EXCEPT ![r] = Idle]
      /\ UNCHANGED <<now, grant, access, attempt, row, hooks, sub, events>>

(* Mutant: the status is set without the filter on the current one.        *)
AnyStatus(a) == TRUE

(* The statuses mark_checkout_session_created and mark_checkout_completed  *)
(* may move on from.                                                       *)
NotPaidYet(a) == attempt[a].status \in {"reserved", "session_created"}

(* mark_checkout_session_created and the redirect that shows the session.  *)
MarkSessionCreated(r) ==
  LET a == req[r].att
  IN  /\ req[r].pc = "ready"
      /\ attempt' = IF NotPaidYet(a)
                    THEN [attempt EXCEPT ![a].status = "session_created"]
                    ELSE attempt
      /\ session' = [session EXCEPT ![a] = IF @ = "open" THEN "shown" ELSE @]
      /\ req' = [req EXCEPT ![r] = Idle]
      /\ UNCHANGED <<now, grant, access, row, hooks, sub, events>>

RequestDies(r) ==
  /\ req[r].pc # "idle"
  /\ req' = [req EXCEPT ![r] = Idle]
  /\ UNCHANGED <<now, grant, access, attempt, row, hooks, session, sub, events>>

-----------------------------------------------------------------------------
(* Stripe (external)                                                       *)

Tick ==
  /\ now < MaxTime
  /\ now' = now + 1
  /\ UNCHANGED <<local, req, hooks, stripe>>

Emit(types, a) ==
  LET sent == {[type |-> t, created |-> now, att |-> a] : t \in types}
  IN  /\ events' = events \cup sent
      /\ Cardinality(events') <= MaxEvents

(* The customer pays in a session it was redirected to and that has not    *)
(* expired (expires_at is the end of the reservation).                     *)
CompleteSession(a) ==
  /\ session[a] = "shown"
  /\ now < attempt[a].expires
  /\ session' = [session EXCEPT ![a] = "complete"]
  /\ sub' = [sub EXCEPT ![a] = IF attempt[a].trial = "" THEN "active"
                                                        ELSE "trialing"]
  /\ Emit({"checkout", "subscription"}, a)
  /\ UNCHANGED <<now, local, req, hooks>>

(* A trial is converted or a subscription ends.                            *)
ChangeSubscription(a) ==
  /\ sub[a] \in Entitling
  /\ \E s \in {"active", "ended"} \ {sub[a]} : sub' = [sub EXCEPT ![a] = s]
  /\ Emit({"subscription"}, a)
  /\ UNCHANGED <<now, local, req, hooks, session>>

SendInvoice(a) ==
  /\ sub[a] \in Entitling
  /\ Emit({"invoice"}, a)
  /\ UNCHANGED <<now, local, req, hooks, session, sub>>

-----------------------------------------------------------------------------
(* Webhook deliveries: at least once, in any order, several at a time.     *)
(* dj-stripe stores the object first, then calls reconcile_billing_event,  *)
(* which runs the transaction of the event's type and then                 *)
(* _record_latest_event.  A worker that dies leaves the event to be sent   *)
(* again.                                                                  *)

Owner(e) == attempt[e.att].user

(* Mutant: a subscription event skips finalize_introductory_benefit.       *)
FirstPhaseRecord(e) == "record"

(* Invoice events have no transaction of their own.                        *)
FirstPhase(e) == IF e.type = "invoice" THEN "record" ELSE "reconcile"

(* dj-stripe (external): a new subscription event fetches the subscription *)
(* from Stripe, a repeated one does not; another event may fetch it as a   *)
(* related object.                                                         *)
Deliver(e) ==
  /\ Cardinality(hooks) < MaxHandlers
  /\ \/ row' = [row EXCEPT ![e.att] = sub[e.att]]
     \/ (e.type # "subscription" \/ row[e.att] # "absent") /\ row' = row
  /\ hooks' = hooks \cup {[pc |-> FirstPhase(e), event |-> e]}
  /\ UNCHANGED <<now, grant, access, attempt, req, stripe>>

NextPhase(h) == (hooks \ {h}) \cup {[h EXCEPT !.pc = "record"]}

MarkCompleted(h) ==
  LET a == h.event.att
  IN  /\ h.pc = "reconcile" /\ h.event.type = "checkout"
      /\ attempt' = IF NotPaidYet(a)
                    THEN [attempt EXCEPT ![a].status = "checkout_completed"]
                    ELSE attempt
      /\ hooks' = NextPhase(h)
      /\ UNCHANGED <<now, grant, access, row, req, stripe>>

(* Mutant: the benefit consumed before is overwritten.                     *)
ConsumesAgain(a) == attempt[a].trial # ""

(* finalize_introductory_benefit consumes the benefit of a trial attempt   *)
(* unless the user has used it already.                                    *)
Consumes(a) ==
  access[attempt[a].user].consumed = "" /\ attempt[a].trial # ""

(* Mutant: the subscription is replaced whatever the age of the event.     *)
TakesAuthority(e) == TRUE

MayTakeAuthority(e) ==
  LET acc == access[Owner(e)]
  IN  \/ acc.authoritative = None
      \/ acc.lastEvent = 0
      \/ e.created >= acc.lastEvent

(* Mutant: an attempt whose reservation expired is not confirmed any more. *)
AlreadyClosed(a) == attempt[a].status \in {"confirmed", "expired"}

AlreadyFinal(a) == attempt[a].status = "confirmed"

(* Ownership, Price, tier and interval of the subscription are those of    *)
(* the attempt: Stripe took them from the session the attempt describes.   *)
FinalizeBenefit(h) ==
  LET e == h.event
      a == e.att
      u == Owner(e)
      founder == Consumes(a) /\ attempt[a].trial = "founder"
  IN  /\ h.pc = "reconcile" /\ e.type = "subscription"
      /\ IF AlreadyFinal(a)
         THEN UNCHANGED <<access, attempt>>
         ELSE /\ access' = [access EXCEPT
                   ![u].consumed = IF Consumes(a) THEN attempt[a].trial ELSE @,
                   ![u].grant = IF founder THEN attempt[a].grant ELSE @,
                   ![u].authoritative = IF MayTakeAuthority(e) THEN a ELSE @]
              /\ attempt' = [attempt EXCEPT ![a].status = "confirmed"]
      /\ hooks' = NextPhase(h)
      /\ UNCHANGED <<now, grant, row, req, stripe>>

(* Mutant: the age of the event is not compared.                           *)
AlwaysLatest(e) == TRUE

(* _record_latest_event skips an event that is not newer than the last.    *)
IsLatest(e) ==
  \/ access[Owner(e)].lastEvent = 0
  \/ e.created > access[Owner(e)].lastEvent

RecordLatestEvent(h) ==
  LET e == h.event
      u == Owner(e)
  IN  /\ h.pc = "record"
      /\ access' = IF IsLatest(e)
                   THEN [access EXCEPT
                           ![u].lastEvent = e.created,
                           ![u].authoritative =
                              IF e.type = "subscription" THEN e.att ELSE @]
                   ELSE access
      /\ hooks' = hooks \ {h}
      /\ UNCHANGED <<now, grant, attempt, row, req, stripe>>

HandlerDies(h) ==
  /\ hooks' = hooks \ {h}
  /\ UNCHANGED <<now, local, req, stripe>>

-----------------------------------------------------------------------------
CheckoutStep ==
  \/ \E r \in Requests, u \in Users, a \in Attempts, plan \in Plans :
       ReserveExisting(r, u, plan, a) \/ ReserveNew(r, u, plan, a)
  \/ \E r \in Requests, u \in Users : CheckEntitlement(r, u)
  \/ \E r \in Requests :
       \/ CreateSession(r) \/ GatewayError(r)
       \/ MarkSessionCreated(r) \/ RequestDies(r)

FounderStep ==
  \E g \in Grants :
    RevokeFounderCode(g) \/ \E u \in Users : RedeemFounderCode(u, g)

StripeStep ==
  \E a \in Attempts :
    CompleteSession(a) \/ ChangeSubscription(a) \/ SendInvoice(a)

HandlerStep ==
  \E h \in hooks :
    MarkCompleted(h) \/ FinalizeBenefit(h) \/ RecordLatestEvent(h)
    \/ HandlerDies(h)

WebhookStep == HandlerStep \/ \E e \in events : Deliver(e)

Next == Tick \/ CheckoutStep \/ FounderStep \/ StripeStep \/ WebhookStep

Spec == Init /\ [][Next]_vars

(* Scheduling: a worker finishes or dies; Stripe resends an event until a  *)
(* delivery succeeds, and not every delivery of it dies.                   *)
DeliveryFairness ==
  /\ WF_vars(HandlerStep)
  /\ \A a \in Attempts :
       /\ SF_vars(\E e \in events : e.att = a /\ e.type = "subscription"
                                    /\ Deliver(e))
       /\ SF_vars(\E h \in hooks : h.event.att = a /\ FinalizeBenefit(h))

FairSpec == Spec /\ DeliveryFairness

-----------------------------------------------------------------------------
(* Safety                                                                  *)

(* A user never has two reservations open at once, however requests,       *)
(* expiry and webhooks interleave: no write of reserve_checkout_attempt,   *)
(* mark_checkout_session_created or mark_checkout_completed needs the      *)
(* unique constraint one_active_billing_checkout_per_user to stop it.      *)
OneActiveAttempt ==
  \A a, b \in Attempts :
    /\ attempt[a].status \in ActiveStatuses
    /\ attempt[b].status \in ActiveStatuses
    /\ attempt[a].user = attempt[b].user
    => a = b

(* A benefit is recorded as consumed only for a subscription Stripe        *)
(* started with that trial, and the attempt that consumed it stays         *)
(* confirmed: abandoned, cancelled or late checkouts consume nothing.      *)
BenefitBacked ==
  \A u \in Users : access[u].consumed # "" =>
    \E a \in Attempts :
      /\ attempt[a].user = u
      /\ attempt[a].trial = access[u].consumed
      /\ attempt[a].status = "confirmed"
      /\ sub[a] # "absent"

(* The three records of a founder grant agree: the grant names the user,   *)
(* the access row names the grant, every founder attempt carries the grant *)
(* of its own user, and none of them was revoked.                          *)
FounderConsistent ==
  /\ \A u \in Users, g \in Grants :
       access[u].grant = g <=> grant[g].redeemedBy = u
  /\ \A g \in Grants : grant[g].redeemedBy # None => ~grant[g].revoked
  /\ \A a \in Attempts : attempt[a].trial = "founder" =>
       \E g \in Grants :
         attempt[a].grant = g /\ grant[g].redeemedBy = attempt[a].user

(* Local billing state never runs ahead of Stripe: what the application    *)
(* calls paid or confirmed was paid, and the authoritative subscription of *)
(* a user is a synchronized one of that user whose attempt is confirmed.   *)
NeverAheadOfStripe ==
  /\ \A a \in Attempts :
       attempt[a].status \in {"checkout_completed", "confirmed"} =>
         session[a] = "complete" /\ sub[a] # "absent"
  /\ \A u \in Users : access[u].authoritative # None =>
       LET a == access[u].authoritative
       IN  /\ attempt[a].user = u
           /\ attempt[a].status = "confirmed"
           /\ row[a] # "absent"

(* When the newest event of a user is a subscription event and has been    *)
(* recorded, its subscription is the authoritative one, in whatever order  *)
(* and however often the older events were, or are still being, processed. *)
NewestEventRules ==
  \A e \in events :
    /\ e.type = "subscription"
    /\ e.created = access[Owner(e)].lastEvent
    /\ \A f \in events \ {e} : Owner(f) = Owner(e) => f.created < e.created
    => access[Owner(e)].authoritative = e.att

(* Redelivered and late events never undo progress: a consumed benefit, a  *)
(* redeemed grant and a confirmed attempt stay as they are, and the time   *)
(* of the latest event never goes back.                                    *)
NoRegress ==
  [][/\ \A u \in Users :
          /\ access[u].consumed # "" => access'[u].consumed = access[u].consumed
          /\ access'[u].lastEvent >= access[u].lastEvent
     /\ \A a \in Attempts :
          attempt[a].status = "confirmed" => attempt'[a] = attempt[a]]_vars

(* The introductory benefits and grants implement their ledger.            *)
Ledger == INSTANCE BenefitLedger WITH
  Nobody  <- None,
  benefit <- [u \in Users |-> access[u].consumed],
  holder  <- [g \in Grants |-> grant[g].redeemedBy],
  retired <- {g \in Grants : grant[g].revoked}

ImplementsLedger == Ledger!Spec

(* Liveness: a customer who paid is confirmed in the end, even when the    *)
(* reservation has expired or was replaced, and workers die in between.    *)
PaidIsConfirmed ==
  \A a \in Attempts :
    session[a] = "complete" ~> attempt[a].status = "confirmed"

-----------------------------------------------------------------------------
(* What ties the records together: the invariant the proofs rest on.       *)

(* A row names its user, a session belongs to a row, and a subscription to *)
(* a completed session.                                                    *)
RowsLinked ==
  \A a \in Attempts :
    /\ attempt[a].status = "absent" => attempt[a] = NoAttempt
    /\ attempt[a].status # "absent" => attempt[a].user \in Users
    /\ session[a] # "none" => attempt[a].status # "absent"
    /\ session[a] = "complete" <=> sub[a] # "absent"

(* A request in progress holds an attempt that was reserved.               *)
RequestsLinked ==
  \A r \in Requests : req[r].pc \in {"reserved", "ready"} =>
    req[r].att \in Attempts /\ attempt[req[r].att].status # "absent"

(* An event is about a paid session; a delivery is of an event that was    *)
(* sent, for a subscription that is synchronized, and its second           *)
(* transaction runs on a confirmed attempt.                                *)
DeliveriesLinked ==
  /\ \A e \in events :
       e.created \in 1..now /\ session[e.att] = "complete"
  /\ \A h \in hooks :
       /\ h.event \in events
       /\ h.event.type = "subscription" =>
            /\ row[h.event.att] # "absent"
            /\ h.pc = "record" => attempt[h.event.att].status = "confirmed"

(* The time of a user's latest event is that of an event of that user.     *)
LatestLinked ==
  \A u \in Users : access[u].lastEvent # 0 =>
    \E e \in events : Owner(e) = u /\ e.created = access[u].lastEvent

Linked == RowsLinked /\ RequestsLinked /\ DeliveriesLinked /\ LatestLinked

=============================================================================
