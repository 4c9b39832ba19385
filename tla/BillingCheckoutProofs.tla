----------------------- MODULE BillingCheckoutProofs -----------------------
(* Theorems about BillingCheckout for every value of its constants.        *)
EXTENDS BillingCheckout, TLAPS

-----------------------------------------------------------------------------
(* Every variable keeps its type.                                          *)
LEMMA TypeInit == Init => TypeOK
<1> SUFFICES ASSUME Init PROVE TypeOK
  OBVIOUS
<1>1. NoAttempt \in AttemptRow
  BY DEF NoAttempt, AttemptRow, TrialKinds, Statuses
<1>2. attempt \in [Attempts -> AttemptRow]
  BY <1>1 DEF Init
<1>3. Idle \in Request
  BY DEF Idle, Request
<1>4. req \in [Requests -> Request]
  BY <1>3 DEF Init
<1>5. access \in [Users -> AccessRow]
  BY DEF Init, AccessRow, TrialKinds
<1>6. grant \in [Grants -> GrantRow]
  BY DEF Init, GrantRow
<1>7. now = 1
  BY DEF Init
<1>8. now \in Nat \ {0}
  BY <1>7
<1>9. hooks \subseteq Hook /\ events \subseteq Event
  BY DEF Init
<1>10. /\ row \in [Attempts -> SubStatuses] /\ sub \in [Attempts -> SubStatuses]
       /\ session \in [Attempts -> {"none", "open", "shown", "complete"}]
  BY DEF Init, SubStatuses
<1> QED
  BY <1>2, <1>4, <1>5, <1>6, <1>8, <1>9, <1>10 DEF TypeOK

LEMMA OfferedTrialType ==
  ASSUME NEW u, NEW plan PROVE OfferedTrial(u, plan) \in TrialKinds
BY DEF OfferedTrial, TrialKinds

(* A reservation stores attempt rows.                                      *)
LEMMA ExpiredType ==
  ASSUME TypeOK, NEW S
  PROVE  Expired(S) \in [Attempts -> AttemptRow]
BY DEF TypeOK, Expired, AttemptRow, Statuses

LEMMA StatusType ==
  ASSUME NEW f \in [Attempts -> AttemptRow], NEW a, NEW s \in Statuses
  PROVE  [f EXCEPT ![a].status = s] \in [Attempts -> AttemptRow]
BY DEF AttemptRow

LEMMA TypeCheckout == TypeOK /\ CheckoutStep => TypeOK'
<1> SUFFICES ASSUME TypeOK, CheckoutStep PROVE TypeOK'
  OBVIOUS
<1> USE DEF TypeOK
<1>1. ASSUME NEW r \in Requests, NEW u \in Users, NEW a \in Attempts,
             NEW plan \in Plans, ReserveExisting(r, u, plan, a)
      PROVE  TypeOK'
  BY <1>1, ExpiredType DEF ReserveExisting, Request
<1>2. ASSUME NEW r \in Requests, NEW u \in Users, NEW a \in Attempts,
             NEW plan \in Plans, ReserveNew(r, u, plan, a)
      PROVE  TypeOK'
  <2>1. access[u].grant \in Grants \cup {None}
    BY DEF AccessRow
  <2>2. now + ReservationTime \in Nat
    BY BoundsAssumption
  <2> DEFINE new == [user |-> u, plan |-> plan, trial |-> OfferedTrial(u, plan),
                     grant |-> IF OfferedTrial(u, plan) = "founder"
                               THEN access[u].grant ELSE None,
                     expires |-> now + ReservationTime, status |-> "reserved"]
  <2>3. new \in AttemptRow
    BY <2>1, <2>2, OfferedTrialType
       DEF AttemptRow, Statuses, ActiveStatuses
  <2>4. attempt' = [Expired(Replaced(u)) EXCEPT ![a] = new]
    BY <1>2 DEF ReserveNew
  <2> HIDE DEF new
  <2>5. attempt' \in [Attempts -> AttemptRow]
    BY <2>3, <2>4, ExpiredType
  <2> QED
    BY <1>2, <2>5 DEF ReserveNew, Request
<1>3. ASSUME NEW r \in Requests, CreateSession(r) PROVE TypeOK'
  BY <1>3 DEF CreateSession, Request
<1>4. ASSUME NEW r \in Requests, GatewayError(r) PROVE TypeOK'
  BY <1>4 DEF GatewayError, Request, Idle
<1>5. ASSUME NEW r \in Requests, MarkSessionCreated(r) PROVE TypeOK'
  <2>1. attempt' \in [Attempts -> AttemptRow]
    BY <1>5, StatusType DEF MarkSessionCreated, Statuses, ActiveStatuses
  <2> QED
    BY <1>5, <2>1 DEF MarkSessionCreated, Request, Idle
<1>6. ASSUME NEW r \in Requests, RequestDies(r) PROVE TypeOK'
  BY <1>6 DEF RequestDies, Request, Idle
<1>7. ASSUME NEW r \in Requests, NEW u \in Users, CheckEntitlement(r, u)
      PROVE  TypeOK'
  BY <1>7 DEF CheckEntitlement, Request
<1> QED
  BY <1>1, <1>2, <1>3, <1>4, <1>5, <1>6, <1>7 DEF CheckoutStep

LEMMA TypeFounder == TypeOK /\ FounderStep => TypeOK'
<1> SUFFICES ASSUME TypeOK, FounderStep PROVE TypeOK'
  OBVIOUS
<1> USE DEF TypeOK, GrantRow
<1>1. ASSUME NEW g \in Grants, RevokeFounderCode(g) PROVE TypeOK'
  BY <1>1 DEF RevokeFounderCode
<1>2. ASSUME NEW g \in Grants, NEW u \in Users, RedeemFounderCode(u, g)
      PROVE  TypeOK'
  BY <1>2 DEF RedeemFounderCode, AccessRow
<1> QED
  BY <1>1, <1>2 DEF FounderStep

LEMMA TypeStripe == TypeOK /\ (Tick \/ StripeStep) => TypeOK'
<1> SUFFICES ASSUME TypeOK, Tick \/ StripeStep PROVE TypeOK'
  OBVIOUS
<1> USE DEF TypeOK, local, stripe
<1>1. ASSUME NEW types \in SUBSET EventTypes, NEW a \in Attempts, Emit(types, a)
      PROVE  events' \subseteq Event
  BY <1>1 DEF Emit, Event
<1>2. CASE Tick
  BY <1>2 DEF Tick
<1>3. ASSUME NEW a \in Attempts, CompleteSession(a) PROVE TypeOK'
  <2>1. events' \subseteq Event
    BY <1>1, <1>3 DEF CompleteSession, EventTypes
  <2> QED
    BY <1>3, <2>1 DEF CompleteSession, SubStatuses
<1>4. ASSUME NEW a \in Attempts, ChangeSubscription(a) PROVE TypeOK'
  <2>1. events' \subseteq Event
    BY <1>1, <1>4 DEF ChangeSubscription, EventTypes
  <2> QED
    BY <1>4, <2>1 DEF ChangeSubscription, SubStatuses
<1>5. ASSUME NEW a \in Attempts, SendInvoice(a) PROVE TypeOK'
  <2>1. events' \subseteq Event
    BY <1>1, <1>5 DEF SendInvoice, EventTypes
  <2> QED
    BY <1>5, <2>1 DEF SendInvoice
<1> QED
  BY <1>2, <1>3, <1>4, <1>5 DEF StripeStep

LEMMA TypeWebhook == TypeOK /\ WebhookStep => TypeOK'
<1> SUFFICES ASSUME TypeOK, WebhookStep PROVE TypeOK'
  OBVIOUS
<1> USE DEF TypeOK, local, stripe, NextPhase, Hook
<1>1. ASSUME NEW e \in events, Deliver(e) PROVE TypeOK'
  BY <1>1 DEF Deliver, FirstPhase, Event
<1>2. ASSUME NEW h \in hooks, MarkCompleted(h) PROVE TypeOK'
  <2>1. attempt' \in [Attempts -> AttemptRow]
    BY <1>2, StatusType DEF MarkCompleted, Statuses, ActiveStatuses
  <2> QED
    BY <1>2, <2>1 DEF MarkCompleted
<1>3. ASSUME NEW h \in hooks, FinalizeBenefit(h) PROVE TypeOK'
  <2>1. h.event.att \in Attempts
    BY DEF Event
  <2>2. attempt[h.event.att] \in AttemptRow
    BY <2>1
  <2>3. attempt' \in [Attempts -> AttemptRow]
    <3>1. \/ attempt' = attempt
          \/ attempt' = [attempt EXCEPT ![h.event.att].status = "confirmed"]
      BY <1>3 DEF FinalizeBenefit
    <3>2. attempt \in [Attempts -> AttemptRow] /\ "confirmed" \in Statuses
      BY DEF Statuses
    <3> QED
      BY ONLY <3>1, <3>2, StatusType
  <2> DEFINE e == h.event
             u == Owner(e)
             kind == IF Consumes(e.att) THEN attempt[e.att].trial
                                        ELSE access[u].consumed
             grantee == IF Consumes(e.att) /\ attempt[e.att].trial = "founder"
                        THEN attempt[e.att].grant ELSE access[u].grant
             auth == IF MayTakeAuthority(e) THEN e.att
                                            ELSE access[u].authoritative
  <2>4. \/ access' = access
        \/ access' = [access EXCEPT ![u].consumed = kind,
                                    ![u].grant = grantee,
                                    ![u].authoritative = auth]
    BY <1>3 DEF FinalizeBenefit
  <2>5. u \in Users => /\ kind \in TrialKinds
                       /\ grantee \in Grants \cup {None}
                       /\ auth \in Attempts \cup {None}
    BY <2>1, <2>2 DEF AccessRow, AttemptRow
  <2> HIDE DEF u, kind, grantee, auth
  <2>6. access' \in [Users -> AccessRow]
    BY <2>4, <2>5 DEF AccessRow
  <2> QED
    BY <1>3, <2>3, <2>6 DEF FinalizeBenefit
<1>4. ASSUME NEW h \in hooks, RecordLatestEvent(h) PROVE TypeOK'
  <2>1. h.event.att \in Attempts /\ h.event.created \in Nat
    BY DEF Event
  <2> DEFINE u == Owner(h.event)
             auth == IF h.event.type = "subscription" THEN h.event.att
                     ELSE access[u].authoritative
  <2>2. \/ access' = access
        \/ access' = [access EXCEPT ![u].lastEvent = h.event.created,
                                    ![u].authoritative = auth]
    BY <1>4 DEF RecordLatestEvent
  <2>3. u \in Users => auth \in Attempts \cup {None}
    BY <2>1 DEF AccessRow
  <2> HIDE DEF u, auth
  <2>4. access' \in [Users -> AccessRow]
    BY <2>1, <2>2, <2>3 DEF AccessRow
  <2> QED
    BY <1>4, <2>4 DEF RecordLatestEvent
<1>5. ASSUME NEW h \in hooks, HandlerDies(h) PROVE TypeOK'
  BY <1>5 DEF HandlerDies
<1> QED
  BY <1>1, <1>2, <1>3, <1>4, <1>5 DEF WebhookStep, HandlerStep

LEMMA TypeNext == TypeOK /\ [Next]_vars => TypeOK'
<1> SUFFICES ASSUME TypeOK, [Next]_vars PROVE TypeOK'
  OBVIOUS
<1>1. CASE UNCHANGED vars
  BY <1>1 DEF vars, TypeOK
<1> QED
  BY <1>1, TypeCheckout, TypeFounder, TypeStripe, TypeWebhook DEF Next

THEOREM TypeCorrect == Spec => []TypeOK
BY TypeInit, TypeNext, PTL DEF Spec

-----------------------------------------------------------------------------
(* The status of one attempt moves and the rest of its row stays.          *)
LEMMA StatusWrite ==
  ASSUME TypeOK, NEW a \in Attempts, NEW s \in Statuses,
         attempt' = [attempt EXCEPT ![a].status = s]
  PROVE  \A b \in Attempts :
           /\ attempt'[b].status = IF b = a THEN s ELSE attempt[b].status
           /\ attempt'[b].user = attempt[b].user
           /\ attempt'[b].trial = attempt[b].trial
           /\ attempt'[b].grant = attempt[b].grant
           /\ attempt'[b].plan = attempt[b].plan
           /\ attempt'[b].expires = attempt[b].expires
           /\ b # a => attempt'[b] = attempt[b]
BY DEF TypeOK, AttemptRow

(* What a reservation does to the attempts that were there before.         *)
LEMMA ExpiredRow ==
  ASSUME TypeOK, NEW S, NEW b \in Attempts
  PROVE  /\ Expired(S)[b].status =
              IF b \in S THEN "expired" ELSE attempt[b].status
         /\ Expired(S)[b].user = attempt[b].user
         /\ Expired(S)[b].trial = attempt[b].trial
         /\ Expired(S)[b].grant = attempt[b].grant
         /\ b \notin S => Expired(S)[b] = attempt[b]
BY DEF TypeOK, AttemptRow, Expired

(* The actions that write an attempt.                                      *)
LEMMA AttemptWrites ==
  ASSUME TypeOK, [Next]_vars
  PROVE  \/ attempt' = attempt
         \/ \E u \in Users : attempt' = Expired(Stale(u))
         \/ \E r \in Requests, u \in Users, a \in Attempts, plan \in Plans :
              ReserveNew(r, u, plan, a)
         \/ \E a \in Attempts :
              /\ NotPaidYet(a)
              /\ attempt' = [attempt EXCEPT ![a].status = "session_created"]
         \/ \E h \in hooks :
              /\ NotPaidYet(h.event.att)
              /\ attempt' = [attempt EXCEPT
                                ![h.event.att].status = "checkout_completed"]
         \/ \E h \in hooks :
              /\ FinalizeBenefit(h) /\ ~AlreadyFinal(h.event.att)
              /\ attempt' = [attempt EXCEPT ![h.event.att].status = "confirmed"]
<1>1. CASE UNCHANGED vars
  BY <1>1 DEF vars
<1>2. CASE Tick
  BY <1>2 DEF Tick, local
<1>3. CASE CheckoutStep
  <2>1. ASSUME NEW r \in Requests, NEW u \in Users, NEW a \in Attempts,
               NEW plan \in Plans, ReserveExisting(r, u, plan, a)
        PROVE  attempt' = Expired(Stale(u))
    BY <2>1 DEF ReserveExisting
  <2>2. ASSUME NEW r \in Requests, MarkSessionCreated(r)
        PROVE  \/ attempt' = attempt
               \/ \E a \in Attempts :
                    /\ NotPaidYet(a)
                    /\ attempt' = [attempt EXCEPT ![a].status = "session_created"]
    <3>1. CASE req[r].att \in Attempts
      BY <2>2, <3>1 DEF MarkSessionCreated
    <3>2. CASE req[r].att \notin Attempts
      BY <2>2, <3>2 DEF MarkSessionCreated, TypeOK
    <3> QED
      BY <3>1, <3>2
  <2>3. ASSUME NEW r \in Requests,
               CreateSession(r) \/ GatewayError(r) \/ RequestDies(r)
        PROVE  attempt' = attempt
    BY <2>3 DEF CreateSession, GatewayError, RequestDies
  <2>4. ASSUME NEW r \in Requests, NEW u \in Users, CheckEntitlement(r, u)
        PROVE  attempt' = attempt
    BY <2>4 DEF CheckEntitlement
  <2> QED
    BY <1>3, <2>1, <2>2, <2>3, <2>4 DEF CheckoutStep
<1>4. CASE FounderStep
  BY <1>4 DEF FounderStep, RevokeFounderCode, RedeemFounderCode
<1>5. CASE StripeStep
  BY <1>5 DEF StripeStep, CompleteSession, ChangeSubscription, SendInvoice, local
<1>6. CASE WebhookStep
  <2>1. ASSUME NEW h \in hooks, MarkCompleted(h)
        PROVE  \/ attempt' = attempt
               \/ /\ NotPaidYet(h.event.att)
                  /\ attempt' = [attempt EXCEPT
                                    ![h.event.att].status = "checkout_completed"]
    BY <2>1 DEF MarkCompleted
  <2>2. ASSUME NEW h \in hooks, FinalizeBenefit(h)
        PROVE  \/ attempt' = attempt
               \/ /\ FinalizeBenefit(h) /\ ~AlreadyFinal(h.event.att)
                  /\ attempt' = [attempt EXCEPT ![h.event.att].status = "confirmed"]
    BY <2>2 DEF FinalizeBenefit
  <2>3. ASSUME NEW h \in hooks, RecordLatestEvent(h) \/ HandlerDies(h)
        PROVE  attempt' = attempt
    BY <2>3 DEF RecordLatestEvent, HandlerDies, local
  <2>4. ASSUME NEW e \in events, Deliver(e) PROVE attempt' = attempt
    BY <2>4 DEF Deliver
  <2> QED
    BY <1>6, <2>1, <2>2, <2>3, <2>4 DEF WebhookStep, HandlerStep
<1> QED
  BY <1>1, <1>2, <1>3, <1>4, <1>5, <1>6 DEF Next

(* A reservation in place of the older ones.                               *)
LEMMA NewRow ==
  ASSUME TypeOK, NEW r, NEW u \in Users, NEW plan \in Plans,
         NEW a \in Attempts, ReserveNew(r, u, plan, a)
  PROVE  /\ attempt[a].status = "absent"
         /\ attempt'[a].user = u
         /\ attempt'[a].status = "reserved"
         /\ attempt'[a].trial = OfferedTrial(u, plan)
         /\ attempt'[a].grant = IF OfferedTrial(u, plan) = "founder"
                                THEN access[u].grant ELSE None
         /\ \A b \in Attempts \ {a} : attempt'[b] = Expired(Replaced(u))[b]
<1>1. Expired(Replaced(u)) \in [Attempts -> AttemptRow]
  BY ExpiredType
<1> QED
  BY <1>1 DEF ReserveNew

-----------------------------------------------------------------------------
(* At most one open reservation per user.                                  *)
LEMMA OneActiveNext ==
  TypeOK /\ OneActiveAttempt /\ [Next]_vars => OneActiveAttempt'
<1> SUFFICES ASSUME TypeOK, OneActiveAttempt, [Next]_vars
             PROVE  OneActiveAttempt'
  OBVIOUS
<1>1. CASE attempt' = attempt
  BY <1>1 DEF OneActiveAttempt
<1>2. ASSUME NEW u \in Users, attempt' = Expired(Stale(u))
      PROVE  OneActiveAttempt'
  <2>1. \A b \in Attempts :
          /\ attempt'[b].user = attempt[b].user
          /\ attempt'[b].status \in ActiveStatuses =>
               attempt[b].status \in ActiveStatuses
    BY <1>2, ExpiredRow DEF ActiveStatuses
  <2> QED
    BY <2>1 DEF OneActiveAttempt
<1>3. ASSUME NEW r \in Requests, NEW u \in Users, NEW a \in Attempts,
             NEW plan \in Plans, ReserveNew(r, u, plan, a)
      PROVE  OneActiveAttempt'
  <2>1. Replaced(u) = ActiveAttempts(u)
    BY DEF Replaced, Stale, Live
  <2>2. ASSUME NEW b \in Attempts \ {a}, attempt'[b].status \in ActiveStatuses
        PROVE  /\ attempt[b].status \in ActiveStatuses
               /\ attempt'[b].user = attempt[b].user
               /\ attempt[b].user # u
    <3>1. attempt'[b] = Expired(Replaced(u))[b]
      BY <1>3, NewRow
    <3>2. b \notin Replaced(u)
      BY <2>2, <3>1, ExpiredRow DEF ActiveStatuses
    <3>3. attempt'[b] = attempt[b]
      BY <3>1, <3>2, ExpiredRow
    <3> QED
      BY <2>1, <2>2, <3>2, <3>3 DEF ActiveAttempts
  <2>3. attempt'[a].user = u
    BY <1>3, NewRow
  <2> QED
    BY <2>2, <2>3 DEF OneActiveAttempt
<1>4. ASSUME NEW a \in Attempts, NEW s \in ActiveStatuses,
             NotPaidYet(a), attempt' = [attempt EXCEPT ![a].status = s]
      PROVE  OneActiveAttempt'
  <2>1. s \in Statuses /\ attempt[a].status \in ActiveStatuses
    BY <1>4 DEF NotPaidYet, Statuses, ActiveStatuses
  <2>2. \A b \in Attempts :
          /\ attempt'[b].user = attempt[b].user
          /\ attempt'[b].status \in ActiveStatuses =>
               attempt[b].status \in ActiveStatuses
    BY <1>4, <2>1, StatusWrite
  <2> QED
    BY <2>2 DEF OneActiveAttempt
<1>5. ASSUME NEW h \in hooks,
             attempt' = [attempt EXCEPT ![h.event.att].status = "confirmed"]
      PROVE  OneActiveAttempt'
  <2>1. h.event.att \in Attempts /\ "confirmed" \in Statuses \ ActiveStatuses
    BY DEF TypeOK, Hook, Event, Statuses, ActiveStatuses
  <2>2. \A b \in Attempts :
          /\ attempt'[b].user = attempt[b].user
          /\ attempt'[b].status \in ActiveStatuses =>
               attempt[b].status \in ActiveStatuses
    BY <1>5, <2>1, StatusWrite
  <2> QED
    BY <2>2 DEF OneActiveAttempt
<1>6. \A h \in hooks : h.event.att \in Attempts
  BY DEF TypeOK, Hook, Event
<1> QED
  BY <1>1, <1>2, <1>3, <1>4, <1>5, <1>6, AttemptWrites DEF ActiveStatuses

(* Reservations, expiry and webhooks never leave a user with two open      *)
(* reservations, for any number of users, requests and deliveries.         *)
THEOREM OneActiveAttemptCorrect == Spec => []OneActiveAttempt
<1>1. Init => OneActiveAttempt
  <2> SUFFICES ASSUME Init, NEW a \in Attempts
               PROVE  attempt[a].status \notin ActiveStatuses
    BY DEF OneActiveAttempt
  <2>1. attempt[a].status = "absent"
    BY DEF Init, NoAttempt
  <2> QED
    BY <2>1 DEF ActiveStatuses
<1> QED
  BY <1>1, TypeCorrect, OneActiveNext, PTL DEF Spec

-----------------------------------------------------------------------------
(* The records stay linked.                                                *)

(* What one step may do to the row of an attempt.                          *)
LEMMA RowStep ==
  ASSUME TypeOK, Linked, [Next]_vars, NEW b \in Attempts
  PROVE  /\ attempt[b].status # "absent" =>
              /\ attempt'[b].status # "absent"
              /\ attempt'[b].user = attempt[b].user
              /\ attempt'[b].trial = attempt[b].trial
              /\ attempt'[b].grant = attempt[b].grant
         /\ attempt[b].status = "confirmed" => attempt'[b] = attempt[b]
         /\ attempt[b].status = "absent" =>
              \/ attempt'[b] = attempt[b]
              \/ \E r \in Requests, u \in Users, plan \in Plans :
                   ReserveNew(r, u, plan, b)
         /\ attempt'[b].status = "confirmed" =>
              \/ attempt[b].status = "confirmed"
              \/ \E h \in hooks : FinalizeBenefit(h) /\ h.event.att = b
         /\ attempt'[b].status = "checkout_completed" =>
              attempt[b].status = "checkout_completed" \/ session[b] = "complete"
<1>1. ASSUME NEW u \in Users, b \in Replaced(u)
      PROVE  attempt[b].status \in ActiveStatuses
  BY <1>1 DEF Replaced, Live, Stale, ActiveAttempts
<1>2. ASSUME NEW h \in hooks
      PROVE  /\ h.event.att \in Attempts
             /\ session[h.event.att] = "complete"
             /\ attempt[h.event.att].status # "absent"
  BY DEF TypeOK, Hook, Event, Linked, DeliveriesLinked, RowsLinked
<1>3. CASE attempt' = attempt
  BY <1>3
<1>4. CASE \E u \in Users : attempt' = Expired(Stale(u))
  <2>1. PICK u \in Users : attempt' = Expired(Stale(u))
    BY <1>4
  <2>2. b \in Stale(u) => attempt[b].status \in ActiveStatuses
    BY <1>1 DEF Replaced
  <2> QED
    BY <2>1, <2>2, ExpiredRow DEF ActiveStatuses
<1>5. CASE \E r \in Requests, u \in Users, a \in Attempts, plan \in Plans :
             ReserveNew(r, u, plan, a)
  <2>1. PICK r \in Requests, u \in Users, a \in Attempts, plan \in Plans :
          ReserveNew(r, u, plan, a)
    BY <1>5
  <2>2. CASE a = b
    BY <2>1, <2>2, NewRow
  <2>3. CASE a # b
    <3>1. attempt'[b] = Expired(Replaced(u))[b]
      BY <2>1, <2>3, NewRow
    <3> QED
      BY <1>1, <3>1, ExpiredRow DEF ActiveStatuses
  <2> QED
    BY <2>2, <2>3
<1>6. CASE \E a \in Attempts :
             /\ NotPaidYet(a)
             /\ attempt' = [attempt EXCEPT ![a].status = "session_created"]
  <2>1. PICK a \in Attempts :
             /\ NotPaidYet(a)
             /\ attempt' = [attempt EXCEPT ![a].status = "session_created"]
    BY <1>6
  <2>2. "session_created" \in Statuses
    BY DEF Statuses, ActiveStatuses
  <2> QED
    BY <2>1, <2>2, StatusWrite DEF NotPaidYet
<1>7. CASE \E h \in hooks :
             /\ NotPaidYet(h.event.att)
             /\ attempt' = [attempt EXCEPT
                               ![h.event.att].status = "checkout_completed"]
  <2>1. PICK h \in hooks :
             /\ NotPaidYet(h.event.att)
             /\ attempt' = [attempt EXCEPT
                               ![h.event.att].status = "checkout_completed"]
    BY <1>7
  <2>2. "checkout_completed" \in Statuses
    BY DEF Statuses, ActiveStatuses
  <2> QED
    BY <1>2, <2>1, <2>2, StatusWrite DEF NotPaidYet
<1>8. CASE \E h \in hooks :
             /\ FinalizeBenefit(h) /\ ~AlreadyFinal(h.event.att)
             /\ attempt' = [attempt EXCEPT ![h.event.att].status = "confirmed"]
  <2>1. PICK h \in hooks :
             /\ FinalizeBenefit(h) /\ ~AlreadyFinal(h.event.att)
             /\ attempt' = [attempt EXCEPT ![h.event.att].status = "confirmed"]
    BY <1>8
  <2>2. "confirmed" \in Statuses
    BY DEF Statuses
  <2> QED
    BY <1>2, <2>1, <2>2, StatusWrite DEF AlreadyFinal
<1> QED
  BY <1>3, <1>4, <1>5, <1>6, <1>7, <1>8, AttemptWrites

(* What one step may do to the session and the subscription of an attempt. *)
LEMMA SessionStep ==
  ASSUME TypeOK, Linked, [Next]_vars, NEW b \in Attempts
  PROVE  /\ session[b] = "complete" => session'[b] = "complete"
         /\ session'[b] # "none" => attempt[b].status # "absent"
         /\ session'[b] = "complete" <=> sub'[b] # "absent"
<1> USE DEF TypeOK, Linked, RowsLinked, RequestsLinked
<1>1. ASSUME NEW r \in Requests, CreateSession(r) \/ GatewayError(r)
      PROVE  /\ sub' = sub
             /\ \/ session' = session
                \/ /\ req[r].pc = "reserved"
                   /\ session[req[r].att] = "none"
                   /\ session' = [session EXCEPT ![req[r].att] = "open"]
  <2>1. req[r].pc = "reserved" => req[r].att \in Attempts
    OBVIOUS
  <2> QED
    BY <1>1, <2>1 DEF CreateSession, GatewayError
<1>2. ASSUME NEW r \in Requests, CreateSession(r) \/ GatewayError(r)
      PROVE  /\ session[b] = "complete" => session'[b] = "complete"
             /\ session'[b] # "none" => attempt[b].status # "absent"
             /\ session'[b] = "complete" <=> sub'[b] # "absent"
  BY <1>1, <1>2
<1>3. ASSUME NEW r \in Requests, MarkSessionCreated(r)
      PROVE  /\ session[b] = "complete" => session'[b] = "complete"
             /\ session'[b] # "none" => attempt[b].status # "absent"
             /\ session'[b] = "complete" <=> sub'[b] # "absent"
  BY <1>3 DEF MarkSessionCreated
<1>4. ASSUME NEW a \in Attempts, CompleteSession(a)
      PROVE  /\ session[b] = "complete" => session'[b] = "complete"
             /\ session'[b] # "none" => attempt[b].status # "absent"
             /\ session'[b] = "complete" <=> sub'[b] # "absent"
  BY <1>4 DEF CompleteSession
<1>5. ASSUME NEW a \in Attempts, ChangeSubscription(a)
      PROVE  /\ session[b] = "complete" => session'[b] = "complete"
             /\ session'[b] # "none" => attempt[b].status # "absent"
             /\ session'[b] = "complete" <=> sub'[b] # "absent"
  BY <1>5 DEF ChangeSubscription, Entitling
<1>6. CASE UNCHANGED <<session, sub>>
  BY <1>6
<1>7. CASE CheckoutStep
  <2>1. ASSUME NEW r \in Requests, NEW u \in Users, NEW a \in Attempts,
               NEW plan \in Plans,
               ReserveExisting(r, u, plan, a) \/ ReserveNew(r, u, plan, a)
        PROVE  UNCHANGED <<session, sub>>
    BY <2>1 DEF ReserveExisting, ReserveNew
  <2>2. ASSUME NEW r \in Requests, RequestDies(r)
        PROVE  UNCHANGED <<session, sub>>
    BY <2>2 DEF RequestDies
  <2>3. ASSUME NEW r \in Requests, NEW u \in Users, CheckEntitlement(r, u)
        PROVE  UNCHANGED <<session, sub>>
    BY <2>3 DEF CheckEntitlement
  <2> QED
    BY <1>2, <1>3, <1>6, <1>7, <2>1, <2>2, <2>3 DEF CheckoutStep
<1>8. CASE StripeStep
  <2>1. ASSUME NEW a \in Attempts, SendInvoice(a)
        PROVE  UNCHANGED <<session, sub>>
    BY <2>1 DEF SendInvoice
  <2> QED
    BY <1>4, <1>5, <1>6, <1>8, <2>1 DEF StripeStep
<1>9. CASE FounderStep \/ Tick \/ WebhookStep \/ UNCHANGED vars
  BY <1>6, <1>9 DEF FounderStep, RevokeFounderCode, RedeemFounderCode, Tick,
     WebhookStep, HandlerStep, Deliver, MarkCompleted, FinalizeBenefit,
     RecordLatestEvent, HandlerDies, stripe, vars
<1> QED
  BY <1>7, <1>8, <1>9 DEF Next

LEMMA RowsNext == TypeOK /\ Linked /\ [Next]_vars => RowsLinked'
<1> SUFFICES ASSUME TypeOK, Linked, [Next]_vars, NEW a \in Attempts
             PROVE  /\ attempt'[a].status = "absent" => attempt'[a] = NoAttempt
                    /\ attempt'[a].status # "absent" => attempt'[a].user \in Users
                    /\ session'[a] # "none" => attempt'[a].status # "absent"
                    /\ session'[a] = "complete" <=> sub'[a] # "absent"
  BY DEF RowsLinked
<1>1. ASSUME NEW r \in Requests, NEW u \in Users, NEW plan \in Plans,
             ReserveNew(r, u, plan, a)
      PROVE  attempt'[a].user = u /\ attempt'[a].status = "reserved"
  <2>1. attempt'[a].user = u
    BY <1>1, NewRow
  <2>2. attempt'[a].status = "reserved"
    BY <1>1, NewRow
  <2> QED
    BY <2>1, <2>2
<1>2. /\ attempt[a].status = "absent" => attempt[a] = NoAttempt
      /\ attempt[a].status # "absent" => attempt[a].user \in Users
  BY DEF Linked, RowsLinked
<1> QED
  BY <1>1, <1>2, RowStep, SessionStep

LEMMA RequestsNext == TypeOK /\ Linked /\ [Next]_vars => RequestsLinked'
<1> SUFFICES ASSUME TypeOK, Linked, [Next]_vars,
                    NEW r \in Requests, req'[r].pc \in {"reserved", "ready"}
             PROVE  req'[r].att \in Attempts /\ attempt'[req'[r].att].status # "absent"
  BY DEF RequestsLinked
<1>1. ASSUME req[r].pc \in {"reserved", "ready"}, req'[r].att = req[r].att
      PROVE  req'[r].att \in Attempts /\ attempt'[req'[r].att].status # "absent"
  BY <1>1, RowStep DEF Linked, RequestsLinked
<1>2. CASE req' = req
  BY <1>1, <1>2
<1>3. ASSUME NEW q \in Requests, NEW u \in Users, NEW a \in Attempts,
             NEW plan \in Plans, ReserveExisting(q, u, plan, a)
      PROVE  req'[r].att \in Attempts /\ attempt'[req'[r].att].status # "absent"
  <2>1. attempt[a].status # "absent"
    BY <1>3 DEF ReserveExisting, Live, ActiveAttempts, ActiveStatuses
  <2>2. attempt'[a].status # "absent"
    BY <2>1, RowStep
  <2> QED
    BY <1>1, <1>3, <2>2 DEF ReserveExisting, TypeOK
<1>4. ASSUME NEW q \in Requests, NEW u \in Users, NEW a \in Attempts,
             NEW plan \in Plans, ReserveNew(q, u, plan, a)
      PROVE  req'[r].att \in Attempts /\ attempt'[req'[r].att].status # "absent"
  <2>1. attempt'[a].status # "absent"
    BY <1>4, NewRow
  <2> QED
    BY <1>1, <1>4, <2>1 DEF ReserveNew, TypeOK
<1>5. ASSUME NEW q \in Requests, CreateSession(q)
      PROVE  req'[r].att \in Attempts /\ attempt'[req'[r].att].status # "absent"
  BY <1>1, <1>5 DEF CreateSession, TypeOK, Request
<1>6. ASSUME NEW q \in Requests,
             GatewayError(q) \/ MarkSessionCreated(q) \/ RequestDies(q)
      PROVE  req'[r].att \in Attempts /\ attempt'[req'[r].att].status # "absent"
  BY <1>1, <1>6 DEF GatewayError, MarkSessionCreated, RequestDies, Idle, TypeOK
<1>7. ASSUME NEW q \in Requests, NEW u \in Users, CheckEntitlement(q, u)
      PROVE  req'[r].att \in Attempts /\ attempt'[req'[r].att].status # "absent"
  BY <1>1, <1>7 DEF CheckEntitlement, TypeOK
<1>8. CASE CheckoutStep
  BY <1>3, <1>4, <1>5, <1>6, <1>7, <1>8 DEF CheckoutStep
<1>9. CASE Tick \/ FounderStep \/ StripeStep \/ WebhookStep \/ UNCHANGED vars
  BY <1>2, <1>9 DEF Tick, FounderStep, RevokeFounderCode, RedeemFounderCode,
     StripeStep, CompleteSession, ChangeSubscription, SendInvoice, WebhookStep,
     HandlerStep, Deliver, MarkCompleted, FinalizeBenefit, RecordLatestEvent,
     HandlerDies, vars
<1> QED
  BY <1>8, <1>9 DEF Next

-----------------------------------------------------------------------------
(* Events, deliveries and the synchronized rows.                           *)

(* Time passes and events are never taken back; a new event is about a     *)
(* session that is paid, and carries the time it is sent at.               *)
LEMMA EventsStep ==
  ASSUME TypeOK, Linked, [Next]_vars
  PROVE  /\ now \in Nat \ {0} /\ now' \in Nat \ {0} /\ now <= now'
         /\ events \subseteq events'
         /\ \A e \in events' \ events :
              e.created = now' /\ e.att \in Attempts /\ session'[e.att] = "complete"
<1> USE DEF TypeOK
<1>1. ASSUME NEW types, NEW a \in Attempts, Emit(types, a)
      PROVE  /\ events \subseteq events'
             /\ \A e \in events' \ events : e.created = now /\ e.att = a
  BY <1>1 DEF Emit
<1>2. ASSUME NEW a \in Attempts, CompleteSession(a)
      PROVE  /\ now' = now /\ events \subseteq events'
             /\ \A e \in events' \ events :
                  e.created = now /\ e.att = a /\ session'[a] = "complete"
  BY <1>1, <1>2 DEF CompleteSession
<1>3. ASSUME NEW a \in Attempts, ChangeSubscription(a) \/ SendInvoice(a)
      PROVE  /\ now' = now /\ events \subseteq events'
             /\ \A e \in events' \ events :
                  e.created = now /\ e.att = a /\ session'[a] = "complete"
  <2>1. sub[a] # "absent" /\ session' = session
    BY <1>3 DEF ChangeSubscription, SendInvoice, Entitling
  <2> QED
    BY <1>1, <1>3, <2>1
       DEF ChangeSubscription, SendInvoice, Linked, RowsLinked
<1>4. CASE StripeStep
  BY <1>2, <1>3, <1>4 DEF StripeStep
<1>5. CASE Tick
  BY <1>5 DEF Tick, stripe
<1>6. CASE CheckoutStep \/ FounderStep \/ WebhookStep \/ UNCHANGED vars
  <2>1. now' = now /\ events' = events
    BY ZenonT(40), <1>6 DEF CheckoutStep, CheckEntitlement, ReserveExisting,
       ReserveNew, CreateSession, GatewayError, MarkSessionCreated,
       RequestDies, FounderStep, RevokeFounderCode, RedeemFounderCode,
       WebhookStep, HandlerStep, Deliver, MarkCompleted, FinalizeBenefit,
       RecordLatestEvent, HandlerDies, stripe, vars
  <2> QED
    BY <2>1
<1> QED
  BY <1>4, <1>5, <1>6 DEF Next

(* A synchronized row stays synchronized.                                  *)
LEMMA RowsStay ==
  ASSUME TypeOK, Linked, [Next]_vars, NEW a \in Attempts, row[a] # "absent"
  PROVE  row'[a] # "absent"
<1>1. ASSUME NEW e \in events, Deliver(e) PROVE row'[a] # "absent"
  <2>1. e.att \in Attempts /\ sub[e.att] # "absent"
    BY DEF TypeOK, Event, Linked, DeliveriesLinked, RowsLinked
  <2> QED
    BY <1>1, <2>1 DEF Deliver, TypeOK
<1>2. \/ row' = row
      \/ \E e \in events : Deliver(e)
  BY ZenonT(40) DEF Next, CheckoutStep, CheckEntitlement, ReserveExisting, ReserveNew,
     CreateSession, GatewayError, MarkSessionCreated, RequestDies, FounderStep,
     RevokeFounderCode, RedeemFounderCode, StripeStep, CompleteSession,
     ChangeSubscription, SendInvoice, WebhookStep, HandlerStep, MarkCompleted,
     FinalizeBenefit, RecordLatestEvent, HandlerDies, Tick, local, vars
<1> QED
  BY <1>1, <1>2

(* Where a delivery in progress comes from.                                *)
LEMMA HooksStep ==
  ASSUME TypeOK, Linked, [Next]_vars, NEW h \in hooks'
  PROVE  \/ h \in hooks
         \/ \E e \in events : Deliver(e) /\ h = [pc |-> FirstPhase(e), event |-> e]
         \/ \E g \in hooks :
              /\ MarkCompleted(g) \/ FinalizeBenefit(g)
              /\ h = [g EXCEPT !.pc = "record"]
<1>1. ASSUME NEW e \in events, Deliver(e)
      PROVE  h \in hooks \/ h = [pc |-> FirstPhase(e), event |-> e]
  BY <1>1 DEF Deliver
<1>2. ASSUME NEW g \in hooks, MarkCompleted(g) \/ FinalizeBenefit(g)
      PROVE  h \in hooks \/ h = [g EXCEPT !.pc = "record"]
  BY <1>2 DEF MarkCompleted, FinalizeBenefit, NextPhase
<1>3. ASSUME NEW g \in hooks, RecordLatestEvent(g) \/ HandlerDies(g)
      PROVE  h \in hooks
  BY <1>3 DEF RecordLatestEvent, HandlerDies
<1>4. CASE WebhookStep
  BY <1>1, <1>2, <1>3, <1>4 DEF WebhookStep, HandlerStep
<1>5. CASE Tick \/ CheckoutStep \/ FounderStep \/ StripeStep \/ UNCHANGED vars
  <2>1. hooks' = hooks
    BY ZenonT(40), <1>5 DEF Tick, CheckoutStep, CheckEntitlement, ReserveExisting,
       ReserveNew, CreateSession, GatewayError, MarkSessionCreated,
       RequestDies, FounderStep, RevokeFounderCode, RedeemFounderCode,
       StripeStep, CompleteSession, ChangeSubscription, SendInvoice, vars
  <2> QED
    BY <2>1
<1> QED
  BY <1>4, <1>5 DEF Next

LEMMA DeliveriesNext == TypeOK /\ Linked /\ [Next]_vars => DeliveriesLinked'
<1> SUFFICES ASSUME TypeOK, Linked, [Next]_vars PROVE DeliveriesLinked'
  OBVIOUS
<1>1. ASSUME NEW e \in events'
      PROVE  e.created \in 1..now' /\ session'[e.att] = "complete"
  <2>1. CASE e \in events
    <3>1. e.att \in Attempts /\ e.created \in 1..now /\ session[e.att] = "complete"
      BY <2>1 DEF TypeOK, Event, Linked, DeliveriesLinked
    <3> QED
      BY <3>1, EventsStep, SessionStep
  <2>2. CASE e \notin events
    BY <1>1, <2>2, EventsStep
  <2> QED
    BY <2>1, <2>2
<1>2. ASSUME NEW h \in hooks'
      PROVE  /\ h.event \in events'
             /\ h.event.type = "subscription" =>
                  /\ row'[h.event.att] # "absent"
                  /\ h.pc = "record" => attempt'[h.event.att].status = "confirmed"
  <2>1. CASE h \in hooks
    <3>1. h.event \in events /\ h.event.att \in Attempts
      BY <2>1 DEF Linked, DeliveriesLinked, TypeOK, Event
    <3>2. h.event.type = "subscription" =>
            /\ row[h.event.att] # "absent"
            /\ h.pc = "record" => attempt[h.event.att].status = "confirmed"
      BY <2>1 DEF Linked, DeliveriesLinked
    <3> QED
      BY <3>1, <3>2, EventsStep, RowsStay, RowStep
  <2>2. ASSUME NEW e \in events, Deliver(e), h = [pc |-> FirstPhase(e), event |-> e]
        PROVE  /\ h.event \in events'
               /\ h.event.type = "subscription" =>
                    row'[h.event.att] # "absent" /\ h.pc = "reconcile"
    <3>1. e.att \in Attempts /\ sub[e.att] # "absent"
      BY DEF TypeOK, Event, Linked, DeliveriesLinked, RowsLinked
    <3>2. e.type = "subscription" =>
            row'[e.att] # "absent" /\ FirstPhase(e) = "reconcile"
      BY <2>2, <3>1 DEF Deliver, FirstPhase, TypeOK
    <3> QED
      BY <2>2, <3>2, EventsStep
  <2>3. ASSUME NEW g \in hooks, MarkCompleted(g), h = [g EXCEPT !.pc = "record"]
        PROVE  h.event \in events' /\ h.event.type = "checkout"
    <3>1. g.event \in events /\ g.event.type = "checkout" /\ h.event = g.event
      BY <2>3 DEF Linked, DeliveriesLinked, MarkCompleted, TypeOK, Hook
    <3> QED
      BY <3>1, EventsStep
  <2>4. ASSUME NEW g \in hooks, FinalizeBenefit(g), h = [g EXCEPT !.pc = "record"]
        PROVE  /\ h.event \in events'
               /\ row'[h.event.att] # "absent"
               /\ attempt'[h.event.att].status = "confirmed"
    <3>1. /\ g.event \in events /\ h.event = g.event /\ g.event.att \in Attempts
          /\ row[g.event.att] # "absent"
      BY <2>4 DEF Linked, DeliveriesLinked, FinalizeBenefit, TypeOK, Hook, Event
    <3>2. attempt'[g.event.att].status = "confirmed"
      <4>1. CASE AlreadyFinal(g.event.att)
        BY <2>4, <4>1 DEF FinalizeBenefit, AlreadyFinal
      <4>2. CASE ~AlreadyFinal(g.event.att)
        BY <2>4, <3>1, <4>2 DEF FinalizeBenefit, TypeOK, AttemptRow
      <4> QED
        BY <4>1, <4>2
    <3> QED
      BY <3>1, <3>2, EventsStep, RowsStay
  <2> QED
    BY <2>1, <2>2, <2>3, <2>4, HooksStep
<1> QED
  BY <1>1, <1>2 DEF DeliveriesLinked

(* The owner of an event that was sent never changes.                      *)
LEMMA OwnerStays ==
  ASSUME TypeOK, Linked, [Next]_vars, NEW e \in events
  PROVE  /\ e.att \in Attempts /\ Owner(e) \in Users
         /\ attempt'[e.att].user = Owner(e)
BY RowStep DEF TypeOK, Event, Linked, DeliveriesLinked, RowsLinked, Owner

(* The actions that write the access row of a user.                        *)
LEMMA AccessWrites ==
  ASSUME TypeOK, [Next]_vars
  PROVE  \/ access' = access
         \/ \E g \in Grants, u \in Users : RedeemFounderCode(u, g)
         \/ \E h \in hooks : FinalizeBenefit(h)
         \/ \E h \in hooks : RecordLatestEvent(h)
BY ZenonT(40) DEF Next, Tick, CheckoutStep, CheckEntitlement, ReserveExisting, ReserveNew,
   CreateSession, GatewayError, MarkSessionCreated, RequestDies, FounderStep,
   RevokeFounderCode, StripeStep, CompleteSession, ChangeSubscription,
   SendInvoice, WebhookStep, HandlerStep, Deliver, MarkCompleted, HandlerDies,
   local, vars

LEMMA LatestNext == TypeOK /\ Linked /\ [Next]_vars => LatestLinked'
<1> SUFFICES ASSUME TypeOK, Linked, [Next]_vars, NEW u \in Users,
                    access'[u].lastEvent # 0
             PROVE  \E e \in events' :
                      /\ attempt'[e.att].user = u
                      /\ e.created = access'[u].lastEvent
  BY DEF LatestLinked, Owner
<1>1. CASE access'[u].lastEvent = access[u].lastEvent
  BY <1>1, EventsStep, OwnerStays DEF Linked, LatestLinked
<1>2. ASSUME NEW h \in hooks, RecordLatestEvent(h)
      PROVE  \/ access'[u].lastEvent = access[u].lastEvent
             \/ access'[u].lastEvent = h.event.created /\ Owner(h.event) = u
  BY <1>2 DEF RecordLatestEvent, TypeOK, AccessRow
<1>3. ASSUME NEW h \in hooks, FinalizeBenefit(h)
      PROVE  access'[u].lastEvent = access[u].lastEvent
  BY <1>3 DEF FinalizeBenefit, TypeOK, AccessRow
<1>4. ASSUME NEW g \in Grants, NEW v \in Users, RedeemFounderCode(v, g)
      PROVE  access'[u].lastEvent = access[u].lastEvent
  BY <1>4 DEF RedeemFounderCode, TypeOK, AccessRow
<1>5. \A h \in hooks : h.event \in events
  BY DEF Linked, DeliveriesLinked
<1> QED
  BY <1>1, <1>2, <1>3, <1>4, <1>5, AccessWrites, EventsStep, OwnerStays

(* Rows, requests, deliveries and event times stay linked.                 *)
THEOREM LinkedCorrect == Spec => []Linked
<1>1. Init => Linked
  <2> SUFFICES ASSUME Init PROVE Linked
    OBVIOUS
  <2>1. \A a \in Attempts : attempt[a] = NoAttempt /\ attempt[a].status = "absent"
    BY DEF Init, NoAttempt
  <2>2. \A u \in Users : access[u].lastEvent = 0
    BY DEF Init
  <2>3. \A r \in Requests : req[r].pc = "idle"
    BY DEF Init, Idle
  <2> QED
    BY <2>1, <2>2, <2>3
       DEF Init, Linked, RowsLinked, RequestsLinked, DeliveriesLinked, LatestLinked
<1>2. TypeOK /\ Linked /\ [Next]_vars => Linked'
  BY RowsNext, RequestsNext, DeliveriesNext, LatestNext DEF Linked
<1> QED
  BY <1>1, <1>2, TypeCorrect, PTL DEF Spec

-----------------------------------------------------------------------------
(* What one step may do to the access row of a user.                       *)
LEMMA AccessStep ==
  ASSUME TypeOK, Linked, [Next]_vars, NEW u \in Users
  PROVE  /\ \/ access'[u].consumed = access[u].consumed
            \/ \E h \in hooks :
                 /\ FinalizeBenefit(h) /\ attempt[h.event.att].user = u
                 /\ attempt'[h.event.att].status = "confirmed"
                 /\ access[u].consumed = ""
                 /\ access'[u].consumed = attempt[h.event.att].trial
         /\ \/ access'[u].grant = access[u].grant
            \/ \E g \in Grants : RedeemFounderCode(u, g) /\ access'[u].grant = g
            \/ \E h \in hooks :
                 /\ attempt[h.event.att].user = u
                 /\ attempt[h.event.att].trial = "founder"
                 /\ access'[u].grant = attempt[h.event.att].grant
         /\ \/ access'[u].authoritative = access[u].authoritative
            \/ \E h \in hooks :
                 /\ attempt[h.event.att].user = u
                 /\ h.event.type = "subscription"
                 /\ attempt'[h.event.att].status = "confirmed"
                 /\ access'[u].authoritative = h.event.att
         /\ access'[u].lastEvent >= access[u].lastEvent
<1> USE DEF TypeOK, AccessRow
<1>0. access[u].lastEvent \in Nat
  OBVIOUS
<1>1. CASE access' = access
  BY <1>0, <1>1
<1>2. ASSUME NEW g \in Grants, NEW v \in Users, RedeemFounderCode(v, g)
      PROVE  /\ access'[u].consumed = access[u].consumed
             /\ access'[u].grant = access[u].grant \/ (v = u /\ access'[u].grant = g)
             /\ access'[u].authoritative = access[u].authoritative
             /\ access'[u].lastEvent = access[u].lastEvent
  BY <1>2 DEF RedeemFounderCode
<1>3. ASSUME NEW h \in hooks, FinalizeBenefit(h)
      PROVE  /\ \/ access'[u].consumed = access[u].consumed
                \/ /\ attempt[h.event.att].user = u
                   /\ access[u].consumed = ""
                   /\ access'[u].consumed = attempt[h.event.att].trial
             /\ \/ access'[u].grant = access[u].grant
                \/ /\ attempt[h.event.att].user = u
                   /\ attempt[h.event.att].trial = "founder"
                   /\ access'[u].grant = attempt[h.event.att].grant
             /\ \/ access'[u].authoritative = access[u].authoritative
                \/ /\ attempt[h.event.att].user = u
                   /\ access'[u].authoritative = h.event.att
             /\ access'[u].lastEvent = access[u].lastEvent
             /\ h.event.type = "subscription"
             /\ attempt'[h.event.att].status = "confirmed"
  <2>1. h.event.att \in Attempts
    BY DEF Hook, Event
  <2>2. /\ h.event.type = "subscription"
        /\ attempt'[h.event.att].status = "confirmed"
    BY <1>3, <2>1 DEF FinalizeBenefit, AlreadyFinal, AttemptRow
  <2>3. CASE AlreadyFinal(h.event.att)
    BY <1>3, <2>2, <2>3 DEF FinalizeBenefit
  <2>4. CASE ~AlreadyFinal(h.event.att)
    <3> DEFINE a == h.event.att
               v == Owner(h.event)
               kind == IF Consumes(a) THEN attempt[a].trial
                                      ELSE access[v].consumed
               holder == IF Consumes(a) /\ attempt[a].trial = "founder"
                         THEN attempt[a].grant ELSE access[v].grant
               auth == IF MayTakeAuthority(h.event) THEN a
                                                    ELSE access[v].authoritative
    <3>1. access' = [access EXCEPT ![v].consumed = kind,
                                   ![v].grant = holder,
                                   ![v].authoritative = auth]
      BY <1>3, <2>4 DEF FinalizeBenefit
    <3>2. v = attempt[a].user
      BY DEF Owner
    <3>3. /\ kind = access[v].consumed
             \/ (access[v].consumed = "" /\ kind = attempt[a].trial)
          /\ holder = access[v].grant
             \/ (attempt[a].trial = "founder" /\ holder = attempt[a].grant)
          /\ auth = access[v].authoritative \/ auth = a
      BY <3>2 DEF Consumes
    <3> HIDE DEF a, v, kind, holder, auth
    <3>4. \/ v # u /\ access'[u] = access[u]
          \/ /\ v = u
             /\ access'[u].consumed = kind
             /\ access'[u].grant = holder
             /\ access'[u].authoritative = auth
             /\ access'[u].lastEvent = access[u].lastEvent
      BY <3>1
    <3> QED
      BY <2>2, <3>2, <3>3, <3>4 DEF a
  <2> QED
    BY <2>3, <2>4
<1>4. ASSUME NEW h \in hooks, RecordLatestEvent(h)
      PROVE  /\ access'[u].consumed = access[u].consumed
             /\ access'[u].grant = access[u].grant
             /\ \/ access'[u].authoritative = access[u].authoritative
                \/ /\ attempt[h.event.att].user = u
                   /\ h.event.type = "subscription"
                   /\ attempt'[h.event.att].status = "confirmed"
                   /\ access'[u].authoritative = h.event.att
             /\ access'[u].lastEvent >= access[u].lastEvent
  <2>1. h.event.att \in Attempts /\ h.event.created \in Nat
    BY DEF Hook, Event
  <2>2. h.event.type = "subscription" =>
          attempt'[h.event.att].status = "confirmed"
    BY <1>4 DEF RecordLatestEvent, Linked, DeliveriesLinked
  <2>3. CASE access' = access
    BY <1>0, <2>3
  <2>4. CASE access' # access
    <3> DEFINE v == Owner(h.event)
               auth == IF h.event.type = "subscription" THEN h.event.att
                       ELSE access[v].authoritative
    <3>1. access' = [access EXCEPT ![v].lastEvent = h.event.created,
                                   ![v].authoritative = auth]
      BY <1>4, <2>4 DEF RecordLatestEvent
    <3>2. /\ v = attempt[h.event.att].user
          /\ access[v].lastEvent = 0 \/ h.event.created > access[v].lastEvent
      BY <1>4, <2>4 DEF RecordLatestEvent, IsLatest, Owner
    <3>3. \/ auth = access[v].authoritative
          \/ h.event.type = "subscription" /\ auth = h.event.att
      OBVIOUS
    <3> HIDE DEF v, auth
    <3>4. \/ v # u /\ access'[u] = access[u]
          \/ /\ v = u
             /\ access'[u].consumed = access[u].consumed
             /\ access'[u].grant = access[u].grant
             /\ access'[u].authoritative = auth
             /\ access'[u].lastEvent = h.event.created
      BY <3>1
    <3>5. access'[u].lastEvent >= access[u].lastEvent
      BY <1>0, <2>1, <3>2, <3>4
    <3> QED
      BY <2>2, <3>2, <3>3, <3>4, <3>5
  <2> QED
    BY <2>3, <2>4
<1>5. CASE \E g \in Grants, v \in Users : RedeemFounderCode(v, g)
  <2>1. PICK g \in Grants, v \in Users : RedeemFounderCode(v, g)
    BY <1>5
  <2>2. access'[u].lastEvent = access[u].lastEvent
    BY <1>2, <2>1
  <2>3. access'[u].lastEvent >= access[u].lastEvent
    BY <1>0, <2>2
  <2>4. /\ access'[u].consumed = access[u].consumed
        /\ access'[u].authoritative = access[u].authoritative
    BY <1>2, <2>1
  <2>5. \/ access'[u].grant = access[u].grant
        \/ RedeemFounderCode(u, g) /\ access'[u].grant = g
    BY <1>2, <2>1
  <2> QED
    BY ONLY <2>3, <2>4, <2>5, g \in Grants
<1>6. CASE \E h \in hooks : FinalizeBenefit(h)
  <2>1. PICK h \in hooks : FinalizeBenefit(h)
    BY <1>6
  <2>2. access'[u].lastEvent = access[u].lastEvent
    BY <1>3, <2>1
  <2>3. access'[u].lastEvent >= access[u].lastEvent
    BY <1>0, <2>2
  <2> QED
    BY <1>3, <2>1, <2>3
<1>7. CASE \E h \in hooks : RecordLatestEvent(h)
  <2>1. PICK h \in hooks : RecordLatestEvent(h)
    BY <1>7
  <2> QED
    BY <1>4, <2>1
<1> QED
  BY <1>1, <1>5, <1>6, <1>7, AccessWrites

(* No late or repeated event undoes progress.                              *)
THEOREM NoRegressCorrect == Spec => NoRegress
<1>1. ASSUME TypeOK, Linked, [Next]_vars
      PROVE  /\ \A u \in Users :
                  /\ access[u].consumed # "" =>
                       access'[u].consumed = access[u].consumed
                  /\ access'[u].lastEvent >= access[u].lastEvent
             /\ \A a \in Attempts :
                  attempt[a].status = "confirmed" => attempt'[a] = attempt[a]
  BY <1>1, AccessStep, RowStep
<1> QED
  BY <1>1, TypeCorrect, LinkedCorrect, PTL DEF Spec, NoRegress

LEMMA NeverAheadNext ==
  TypeOK /\ Linked /\ NeverAheadOfStripe /\ [Next]_vars => NeverAheadOfStripe'
<1> SUFFICES ASSUME TypeOK, Linked, NeverAheadOfStripe, [Next]_vars
             PROVE  NeverAheadOfStripe'
  OBVIOUS
<1>1. ASSUME NEW a \in Attempts,
             attempt'[a].status \in {"checkout_completed", "confirmed"}
      PROVE  session'[a] = "complete" /\ sub'[a] # "absent"
  <2>1. ASSUME NEW h \in hooks, h.event.att = a PROVE session[a] = "complete"
    BY <2>1 DEF Linked, DeliveriesLinked
  <2>2. session[a] = "complete"
    BY <1>1, <2>1, RowStep DEF NeverAheadOfStripe
  <2> QED
    BY <2>2, SessionStep
<1>2. ASSUME NEW u \in Users, access'[u].authoritative # None
      PROVE  /\ attempt'[access'[u].authoritative].user = u
             /\ attempt'[access'[u].authoritative].status = "confirmed"
             /\ row'[access'[u].authoritative] # "absent"
  <2>1. CASE access'[u].authoritative = access[u].authoritative
    <3>1. /\ access[u].authoritative \in Attempts
          /\ attempt[access[u].authoritative].user = u
          /\ attempt[access[u].authoritative].status = "confirmed"
          /\ row[access[u].authoritative] # "absent"
      BY <1>2, <2>1 DEF NeverAheadOfStripe, TypeOK, AccessRow
    <3> QED
      BY <2>1, <3>1, RowStep, RowsStay
  <2>2. ASSUME NEW h \in hooks, attempt[h.event.att].user = u,
               h.event.type = "subscription",
               attempt'[h.event.att].status = "confirmed"
        PROVE  /\ attempt'[h.event.att].user = u
               /\ row'[h.event.att] # "absent"
    <3>1. /\ h.event.att \in Attempts /\ row[h.event.att] # "absent"
          /\ attempt[h.event.att].status # "absent"
      BY <2>2 DEF Linked, DeliveriesLinked, RowsLinked, TypeOK, Hook, Event
    <3> QED
      BY <2>2, <3>1, RowStep, RowsStay
  <2>3. CASE \E h \in hooks :
               /\ attempt[h.event.att].user = u
               /\ h.event.type = "subscription"
               /\ attempt'[h.event.att].status = "confirmed"
               /\ access'[u].authoritative = h.event.att
    BY <2>2, <2>3
  <2> QED
    BY <2>1, <2>3, AccessStep
<1> QED
  BY <1>1, <1>2 DEF NeverAheadOfStripe

(* Local billing state never runs ahead of Stripe.                         *)
THEOREM NeverAheadCorrect == Spec => []NeverAheadOfStripe
<1>1. Init => NeverAheadOfStripe
  <2> SUFFICES ASSUME Init PROVE NeverAheadOfStripe
    OBVIOUS
  <2>1. \A a \in Attempts : attempt[a].status = "absent"
    BY DEF Init, NoAttempt
  <2>2. \A u \in Users : access[u].authoritative = None
    BY DEF Init
  <2> QED
    BY <2>1, <2>2 DEF NeverAheadOfStripe
<1> QED
  BY <1>1, NeverAheadNext, TypeCorrect, LinkedCorrect, PTL DEF Spec

LEMMA BackedNext ==
  TypeOK /\ Linked /\ BenefitBacked /\ [Next]_vars => BenefitBacked'
<1> SUFFICES ASSUME TypeOK, Linked, BenefitBacked, [Next]_vars,
                    NEW u \in Users, access'[u].consumed # ""
             PROVE  \E a \in Attempts :
                      /\ attempt'[a].user = u
                      /\ attempt'[a].trial = access'[u].consumed
                      /\ attempt'[a].status = "confirmed"
                      /\ sub'[a] # "absent"
  BY DEF BenefitBacked
<1>1. CASE access'[u].consumed = access[u].consumed
  <2>1. PICK a \in Attempts :
          /\ attempt[a].user = u /\ attempt[a].trial = access[u].consumed
          /\ attempt[a].status = "confirmed" /\ sub[a] # "absent"
    BY <1>1 DEF BenefitBacked
  <2>2. session[a] = "complete"
    BY <2>1 DEF Linked, RowsLinked
  <2> QED
    BY <1>1, <2>1, <2>2, RowStep, SessionStep
<1>2. ASSUME NEW h \in hooks, FinalizeBenefit(h),
             attempt[h.event.att].user = u,
             attempt'[h.event.att].status = "confirmed",
             access'[u].consumed = attempt[h.event.att].trial
      PROVE  \E a \in Attempts :
               /\ attempt'[a].user = u
               /\ attempt'[a].trial = access'[u].consumed
               /\ attempt'[a].status = "confirmed"
               /\ sub'[a] # "absent"
  <2>1. /\ h.event.att \in Attempts /\ session[h.event.att] = "complete"
        /\ attempt[h.event.att].status # "absent"
    BY DEF Linked, DeliveriesLinked, RowsLinked, TypeOK, Hook, Event
  <2>2. /\ attempt'[h.event.att].user = attempt[h.event.att].user
        /\ attempt'[h.event.att].trial = attempt[h.event.att].trial
    BY <2>1, RowStep
  <2>3. sub'[h.event.att] # "absent"
    BY <2>1, SessionStep
  <2> QED
    BY <1>2, <2>1, <2>2, <2>3
<1> QED
  BY <1>1, <1>2, AccessStep

(* A benefit is consumed only for a subscription that started with it.     *)
THEOREM BenefitBackedCorrect == Spec => []BenefitBacked
<1>1. Init => BenefitBacked
  <2>1. ASSUME Init, NEW u \in Users PROVE access[u].consumed = ""
    BY <2>1 DEF Init
  <2> QED
    BY <2>1 DEF BenefitBacked
<1> QED
  BY <1>1, BackedNext, TypeCorrect, LinkedCorrect, PTL DEF Spec

-----------------------------------------------------------------------------
(* Founder grants.                                                         *)

(* The actions that write a grant.                                         *)
LEMMA GrantWrites ==
  ASSUME TypeOK, [Next]_vars
  PROVE  \/ grant' = grant
         \/ \E g \in Grants : RevokeFounderCode(g)
         \/ \E g \in Grants, u \in Users : RedeemFounderCode(u, g)
BY ZenonT(40) DEF Next, Tick, CheckoutStep, CheckEntitlement, ReserveExisting, ReserveNew,
   CreateSession, GatewayError, MarkSessionCreated, RequestDies, FounderStep,
   StripeStep, CompleteSession, ChangeSubscription, SendInvoice, WebhookStep, HandlerStep,
   Deliver, MarkCompleted, FinalizeBenefit, RecordLatestEvent, HandlerDies,
   local, vars

LEMMA FounderTrial ==
  ASSUME TypeOK, NEW u \in Users, NEW plan, OfferedTrial(u, plan) = "founder"
  PROVE  access[u].grant \in Grants /\ grant[access[u].grant].redeemedBy = u
BY DEF OfferedTrial, FounderEligible, TypeOK, AccessRow

LEMMA FounderNext ==
  TypeOK /\ Linked /\ FounderConsistent /\ [Next]_vars => FounderConsistent'
<1> SUFFICES ASSUME TypeOK, Linked, FounderConsistent, [Next]_vars
             PROVE  FounderConsistent'
  OBVIOUS
<1>1. ASSUME NEW g \in Grants
      PROVE  /\ grant[g].redeemedBy # None =>
                  grant'[g].redeemedBy = grant[g].redeemedBy
             /\ grant'[g].redeemedBy # None => ~grant'[g].revoked
  <2>1. CASE grant' = grant
    BY <2>1 DEF FounderConsistent
  <2>2. ASSUME NEW h \in Grants, RevokeFounderCode(h)
        PROVE  /\ grant'[g].redeemedBy = grant[g].redeemedBy
               /\ grant'[g].redeemedBy # None => ~grant'[g].revoked
    BY <2>2 DEF RevokeFounderCode, Unused, FounderConsistent, TypeOK, GrantRow
  <2>3. ASSUME NEW h \in Grants, NEW u \in Users, RedeemFounderCode(u, h)
        PROVE  /\ grant[g].redeemedBy # None =>
                    grant'[g].redeemedBy = grant[g].redeemedBy
               /\ grant'[g].redeemedBy # None => ~grant'[g].revoked
    <3>1. /\ grant'[g].redeemedBy = IF g = h THEN u ELSE grant[g].redeemedBy
          /\ grant'[g].revoked = grant[g].revoked
      BY <2>3 DEF RedeemFounderCode, TypeOK, GrantRow
    <3>2. grant[h].redeemedBy = None /\ ~grant[h].revoked
      BY <2>3 DEF RedeemFounderCode, Unused
    <3> QED
      BY <3>1, <3>2 DEF FounderConsistent
  <2> QED
    BY <2>1, <2>2, <2>3, GrantWrites
<1>2. ASSUME NEW u \in Users, NEW g \in Grants
      PROVE  access'[u].grant = g <=> grant'[g].redeemedBy = u
  <2>1. access[u].grant = g <=> grant[g].redeemedBy = u
    BY DEF FounderConsistent
  <2>2. ASSUME NEW h \in Grants, NEW v \in Users, RedeemFounderCode(v, h)
        PROVE  access'[u].grant = g <=> grant'[g].redeemedBy = u
    <3>1. /\ access'[u].grant = IF u = v THEN h ELSE access[u].grant
          /\ grant'[g].redeemedBy = IF g = h THEN v ELSE grant[g].redeemedBy
      BY <2>2 DEF RedeemFounderCode, TypeOK, AccessRow, GrantRow
    <3>2. grant[g].redeemedBy # v /\ grant[h].redeemedBy = None
      BY <2>2 DEF RedeemFounderCode, Unused
    <3> QED
      BY <2>1, <3>1, <3>2, NoneAssumption
  <2>3. CASE ~\E h \in Grants, v \in Users : RedeemFounderCode(v, h)
    <3>1. grant'[g].redeemedBy = grant[g].redeemedBy
      <4>1. ASSUME NEW h \in Grants, RevokeFounderCode(h)
            PROVE  grant'[g].redeemedBy = grant[g].redeemedBy
        BY <4>1 DEF RevokeFounderCode, TypeOK, GrantRow
      <4> QED
        BY <2>3, <4>1, GrantWrites
    <3>2. ASSUME NEW h \in hooks, attempt[h.event.att].user = u,
                 attempt[h.event.att].trial = "founder"
          PROVE  attempt[h.event.att].grant = access[u].grant
      <4>1. h.event.att \in Attempts
        BY DEF TypeOK, Hook, Event
      <4> QED
        BY <3>2, <4>1 DEF FounderConsistent
    <3>3. \/ access'[u].grant = access[u].grant
          \/ \E h \in hooks :
               /\ attempt[h.event.att].user = u
               /\ attempt[h.event.att].trial = "founder"
               /\ access'[u].grant = attempt[h.event.att].grant
      BY <2>3, AccessStep
    <3>4. access'[u].grant = access[u].grant
      BY <3>2, <3>3
    <3> QED
      BY <2>1, <3>1, <3>4
  <2> QED
    BY <2>2, <2>3
<1>3. ASSUME NEW a \in Attempts, attempt'[a].trial = "founder"
      PROVE  \E g \in Grants :
               attempt'[a].grant = g /\ grant'[g].redeemedBy = attempt'[a].user
  <2>1. ASSUME attempt[a].trial = "founder",
               attempt'[a].grant = attempt[a].grant,
               attempt'[a].user = attempt[a].user,
               attempt[a].user \in Users
        PROVE  \E g \in Grants :
                 attempt'[a].grant = g /\ grant'[g].redeemedBy = attempt'[a].user
    <3>1. PICK g \in Grants :
            attempt[a].grant = g /\ grant[g].redeemedBy = attempt[a].user
      BY <2>1 DEF FounderConsistent
    <3> QED
      BY <1>1, <2>1, <3>1, NoneAssumption
  <2>2. CASE attempt[a].status # "absent"
    <3>1. attempt[a].user \in Users
      BY <2>2 DEF Linked, RowsLinked
    <3> QED
      BY <1>3, <2>1, <2>2, <3>1, RowStep
  <2>3. CASE attempt[a].status = "absent"
    <3>1. attempt[a].trial # "founder"
      <4>1. attempt[a] = NoAttempt
        BY <2>3 DEF Linked, RowsLinked
      <4>2. NoAttempt.trial = ""
        BY DEF NoAttempt
      <4> QED
        BY <4>1, <4>2
    <3>2. PICK r \in Requests, u \in Users, plan \in Plans :
            ReserveNew(r, u, plan, a)
      BY <1>3, <2>3, <3>1, RowStep
    <3>3. /\ OfferedTrial(u, plan) = "founder"
          /\ attempt'[a].grant = access[u].grant /\ attempt'[a].user = u
      BY <1>3, <3>2, NewRow
    <3>4. grant' = grant
      BY <3>2 DEF ReserveNew
    <3> QED
      BY <3>3, <3>4, FounderTrial
  <2> QED
    BY <2>2, <2>3
<1> QED
  BY <1>1, <1>2, <1>3 DEF FounderConsistent

(* The grant, the access row and the attempts of a founder agree.          *)
THEOREM FounderCorrect == Spec => []FounderConsistent
<1>1. Init => FounderConsistent
  <2> SUFFICES ASSUME Init PROVE FounderConsistent
    OBVIOUS
  <2>1. \A g \in Grants : grant[g].redeemedBy = None
    BY DEF Init
  <2>2. \A u \in Users : access[u].grant = None
    BY DEF Init
  <2>3. \A a \in Attempts : attempt[a].trial # "founder"
    BY DEF Init, NoAttempt
  <2> QED
    BY <2>1, <2>2, <2>3, NoneAssumption DEF FounderConsistent
<1> QED
  BY <1>1, FounderNext, TypeCorrect, LinkedCorrect, PTL DEF Spec

-----------------------------------------------------------------------------
(* The newest event.                                                       *)

(* How a delivery moves the authority and the latest event of a user.      *)
LEMMA FinalizeAuthority ==
  ASSUME TypeOK, NEW h \in hooks, FinalizeBenefit(h), NEW u \in Users
  PROVE  /\ access'[u].lastEvent = access[u].lastEvent
         /\ \/ access'[u].authoritative = access[u].authoritative
            \/ /\ Owner(h.event) = u
               /\ MayTakeAuthority(h.event)
               /\ access'[u].authoritative = h.event.att
<1> DEFINE a == h.event.att
           v == Owner(h.event)
           kind == IF Consumes(a) THEN attempt[a].trial ELSE access[v].consumed
           holder == IF Consumes(a) /\ attempt[a].trial = "founder"
                     THEN attempt[a].grant ELSE access[v].grant
           auth == IF MayTakeAuthority(h.event) THEN a
                                                ELSE access[v].authoritative
<1>1. \/ access' = access
      \/ access' = [access EXCEPT ![v].consumed = kind, ![v].grant = holder,
                                  ![v].authoritative = auth]
  BY DEF FinalizeBenefit
<1>2. \/ auth = access[v].authoritative
      \/ MayTakeAuthority(h.event) /\ auth = h.event.att
  OBVIOUS
<1> HIDE DEF kind, holder, auth, a
<1>3. CASE access' = access
  BY <1>3
<1>4. CASE access' # access /\ v # u
  BY <1>1, <1>4 DEF TypeOK
<1>5. CASE access' # access /\ v = u
  BY <1>1, <1>2, <1>5 DEF TypeOK, AccessRow
<1> QED
  BY <1>3, <1>4, <1>5

LEMMA RecordAuthority ==
  ASSUME TypeOK, NEW h \in hooks, RecordLatestEvent(h), NEW u \in Users
  PROVE  \/ access'[u] = access[u]
         \/ /\ Owner(h.event) = u
            /\ access'[u].lastEvent = h.event.created
            /\ h.event.type = "subscription" =>
                 access'[u].authoritative = h.event.att
BY DEF RecordLatestEvent, TypeOK, AccessRow

LEMMA NewestNext ==
  TypeOK /\ Linked /\ NewestEventRules /\ [Next]_vars => NewestEventRules'
<1> SUFFICES ASSUME TypeOK, Linked, NewestEventRules, [Next]_vars,
                    NEW e \in events', e.type = "subscription",
                    e.created = access'[attempt'[e.att].user].lastEvent,
                    \A f \in events' \ {e} :
                      attempt'[f.att].user = attempt'[e.att].user =>
                        f.created < e.created
             PROVE  access'[attempt'[e.att].user].authoritative = e.att
  BY DEF NewestEventRules, Owner
<1>1. CASE e \notin events
  <2>1. e.created \in Nat \ {0}
    BY <1>1, EventsStep
  <2>2. events' # events
    BY <1>1
  <2>3. access' = access
    <3>1. ASSUME NEW g \in Grants, NEW v \in Users, RedeemFounderCode(v, g)
          PROVE  events' = events
      BY <3>1 DEF RedeemFounderCode
    <3>2. ASSUME NEW h \in hooks, FinalizeBenefit(h) \/ RecordLatestEvent(h)
          PROVE  events' = events
      BY <3>2 DEF FinalizeBenefit, RecordLatestEvent, stripe
    <3> QED
      BY <2>2, <3>1, <3>2, AccessWrites
  <2> DEFINE u == attempt'[e.att].user
  <2>4. u \in Users
    <3>1. e.att \in Attempts /\ session'[e.att] = "complete"
      BY <1>1, EventsStep
    <3>2. RowsLinked'
      BY RowsNext
    <3> QED
      BY <3>1, <3>2 DEF RowsLinked
  <2>5. access[u].lastEvent = e.created
    BY <2>3
  <2>6. PICK f \in events : Owner(f) = u /\ f.created = e.created
    BY <2>1, <2>4, <2>5 DEF Linked, LatestLinked
  <2>7. f \in events' \ {e} /\ attempt'[f.att].user = u
    BY <1>1, <2>6, EventsStep, OwnerStays
  <2>8. f.created < e.created
    BY <2>7
  <2> QED
    BY <2>1, <2>6, <2>8
<1>2. CASE e \in events
  <2> DEFINE u == Owner(e)
  <2>1. u \in Users /\ attempt'[e.att].user = u /\ e.att \in Attempts
    BY <1>2, OwnerStays
  <2>2. e.created \in Nat \ {0}
    BY <1>2 DEF Linked, DeliveriesLinked, TypeOK, Event
  <2>3. ASSUME NEW f \in events, f # e, Owner(f) = u PROVE f.created < e.created
    <3>1. f \in events' /\ attempt'[f.att].user = u
      BY <2>3, EventsStep, OwnerStays
    <3> QED
      BY <2>1, <2>3, <3>1
  <2>4. access'[u].lastEvent = e.created
    BY <2>1
  <2> HIDE DEF u
  <2>5. access[u].lastEvent = e.created => access[u].authoritative = e.att
    BY <1>2, <2>3 DEF NewestEventRules, u
  <2>6. CASE access' = access
    BY <2>1, <2>4, <2>5, <2>6
  <2>7. ASSUME NEW g \in Grants, NEW v \in Users, RedeemFounderCode(v, g)
        PROVE  /\ access'[u].authoritative = access[u].authoritative
               /\ access'[u].lastEvent = access[u].lastEvent
    <3>1. access' = [access EXCEPT ![v].grant = g]
      BY <2>7 DEF RedeemFounderCode
    <3>2. access \in [Users -> AccessRow]
      BY DEF TypeOK
    <3> QED
      BY <2>1, <3>1, <3>2 DEF AccessRow
  <2>8. ASSUME NEW h \in hooks, FinalizeBenefit(h)
        PROVE  access'[u].authoritative = e.att
    <3>1. access[u].lastEvent = e.created /\ access[u].authoritative = e.att
      BY <2>1, <2>4, <2>5, <2>8, FinalizeAuthority
    <3>2. h.event \in events
      BY DEF Linked, DeliveriesLinked
    <3>3. ASSUME Owner(h.event) = u, MayTakeAuthority(h.event)
          PROVE  h.event = e
      <4>1. h.event.created >= e.created
        BY <2>1, <2>2, <3>1, <3>3, NoneAssumption DEF MayTakeAuthority
      <4>2. h.event.created \in Nat
        BY DEF TypeOK, Hook, Event
      <4> QED
        BY <2>2, <2>3, <3>2, <3>3, <4>1, <4>2
    <3> QED
      BY <2>1, <2>8, <3>1, <3>3, FinalizeAuthority
  <2>9. ASSUME NEW h \in hooks, RecordLatestEvent(h)
        PROVE  access'[u].authoritative = e.att
    <3>1. CASE access'[u] = access[u]
      BY <2>4, <2>5, <3>1
    <3>2. CASE access'[u] # access[u]
      <4>1. /\ Owner(h.event) = u /\ h.event.created = e.created
            /\ h.event.type = "subscription" =>
                 access'[u].authoritative = h.event.att
        BY <2>1, <2>4, <2>9, <3>2, RecordAuthority
      <4>2. h.event \in events
        BY DEF Linked, DeliveriesLinked
      <4>3. h.event = e
        BY <2>2, <2>3, <4>1, <4>2
      <4> QED
        BY <4>1, <4>3
    <3> QED
      BY <3>1, <3>2
  <2> QED
    BY <2>1, <2>4, <2>5, <2>6, <2>7, <2>8, <2>9, AccessWrites
<1> QED
  BY <1>1, <1>2

(* The newest subscription event rules, whatever the order of deliveries.  *)
THEOREM NewestEventCorrect == Spec => []NewestEventRules
<1>1. Init => NewestEventRules
  BY DEF Init, NewestEventRules
<1> QED
  BY <1>1, NewestNext, TypeCorrect, LinkedCorrect, PTL DEF Spec

-----------------------------------------------------------------------------
(* The ledger of benefits and grants.                                      *)

LEMMA LedgerInit == Init => Ledger!Init
<1> SUFFICES ASSUME Init PROVE Ledger!Init
  OBVIOUS
<1>1. /\ \A u \in Users : access[u].consumed = ""
      /\ \A g \in Grants : grant[g].redeemedBy = None /\ ~grant[g].revoked
  BY DEF Init
<1>2. {g \in Grants : grant[g].revoked} = {}
  BY <1>1
<1>3. /\ [u \in Users |-> access[u].consumed] = [u \in Users |-> ""]
      /\ [g \in Grants |-> grant[g].redeemedBy] = [g \in Grants |-> None]
  BY <1>1
<1> QED
  BY <1>2, <1>3 DEF Ledger!Init

LEMMA LedgerRedeem ==
  ASSUME TypeOK, NEW u \in Users, NEW g \in Grants, RedeemFounderCode(u, g)
  PROVE  Ledger!Redeem(u, g)
<1> USE DEF RedeemFounderCode, TypeOK
<1>1. /\ access[u].consumed = "" /\ ~Ledger!Holds(u)
      /\ grant[g].redeemedBy = None /\ g \notin {h \in Grants : grant[h].revoked}
  BY DEF Unused, Ledger!Holds
<1>2. /\ \A v \in Users : access'[v].consumed = access[v].consumed
      /\ \A h \in Grants :
           /\ grant'[h].redeemedBy = IF h = g THEN u ELSE grant[h].redeemedBy
           /\ grant'[h].revoked = grant[h].revoked
  BY DEF AccessRow, GrantRow
<1>3. [v \in Users |-> access'[v].consumed] = [v \in Users |-> access[v].consumed]
  BY <1>2
<1>4. {h \in Grants : grant'[h].revoked} = {h \in Grants : grant[h].revoked}
  BY <1>2
<1>5. [h \in Grants |-> grant'[h].redeemedBy] =
        [[h \in Grants |-> grant[h].redeemedBy] EXCEPT ![g] = u]
  BY <1>2
<1> QED
  BY <1>1, <1>3, <1>4, <1>5 DEF Ledger!Redeem

LEMMA LedgerRetire ==
  ASSUME TypeOK, NEW g \in Grants, RevokeFounderCode(g)
  PROVE  Ledger!Retire(g)
<1> USE DEF RevokeFounderCode, TypeOK
<1>1. access' = access /\ grant[g].redeemedBy = None
  BY DEF Unused
<1>2. \A h \in Grants :
        /\ grant'[h].redeemedBy = grant[h].redeemedBy
        /\ grant'[h].revoked = IF h = g THEN TRUE ELSE grant[h].revoked
  BY DEF GrantRow
<1>3. [h \in Grants |-> grant'[h].redeemedBy] = [h \in Grants |-> grant[h].redeemedBy]
  BY <1>2
<1>4. {h \in Grants : grant'[h].revoked} = {h \in Grants : grant[h].revoked} \cup {g}
  BY <1>2
<1> QED
  BY <1>1, <1>3, <1>4 DEF Ledger!Retire

LEMMA LedgerFinalize ==
  ASSUME TypeOK, Linked, FounderConsistent, NEW h \in hooks, FinalizeBenefit(h)
  PROVE  \/ UNCHANGED Ledger!ledger
         \/ \E u \in Users, kind \in {"standard", "founder"} :
              Ledger!Consume(u, kind)
<1> DEFINE a == h.event.att
           u == Owner(h.event)
           kind == attempt[a].trial
<1>1. a \in Attempts /\ u \in Users /\ attempt[a].user = u
  BY DEF TypeOK, Hook, Event, Linked, DeliveriesLinked, RowsLinked, Owner
<1>2. grant' = grant
  BY DEF FinalizeBenefit
<1>3. CASE \A v \in Users : access'[v].consumed = access[v].consumed
  <2>1. [v \in Users |-> access'[v].consumed] = [v \in Users |-> access[v].consumed]
    BY <1>3
  <2> QED
    BY <1>2, <2>1 DEF Ledger!ledger
<1>4. CASE ~\A v \in Users : access'[v].consumed = access[v].consumed
  <2>1. Consumes(a) /\ ~AlreadyFinal(a)
    BY <1>4 DEF FinalizeBenefit, TypeOK, AccessRow
  <2>2. \A v \in Users :
          access'[v].consumed = IF v = u THEN kind ELSE access[v].consumed
    BY <2>1 DEF FinalizeBenefit, TypeOK, AccessRow
  <2>3. access[u].consumed = "" /\ kind \in {"standard", "founder"}
    BY <1>1, <2>1 DEF Consumes, TypeOK, AttemptRow, TrialKinds
  <2>4. kind = "founder" => \E g \in Grants : grant[g].redeemedBy = u
    BY <1>1 DEF FounderConsistent
  <2>5. [v \in Users |-> access'[v].consumed] =
          [[v \in Users |-> access[v].consumed] EXCEPT ![u] = kind]
    BY <2>2
  <2> HIDE DEF a, u, kind
  <2>6. PICK v \in Users, k \in {"standard", "founder"} : v = u /\ k = kind
    BY <1>1, <2>3
  <2>7. Ledger!Consume(v, k)
    BY <1>1, <1>2, <2>3, <2>4, <2>5, <2>6 DEF Ledger!Consume, Ledger!Holds
  <2> QED
    BY <2>7
<1> QED
  BY <1>3, <1>4

LEMMA LedgerNext ==
  TypeOK /\ Linked /\ FounderConsistent /\ [Next]_vars =>
    [Ledger!Next]_(Ledger!ledger)
<1> SUFFICES ASSUME TypeOK, Linked, FounderConsistent, [Next]_vars
             PROVE  Ledger!Next \/ UNCHANGED Ledger!ledger
  OBVIOUS
<1>1. CASE \E g \in Grants, u \in Users : RedeemFounderCode(u, g)
  BY <1>1, LedgerRedeem DEF Ledger!Next
<1>2. CASE \E g \in Grants : RevokeFounderCode(g)
  BY <1>2, LedgerRetire DEF Ledger!Next
<1>3. CASE \E h \in hooks : FinalizeBenefit(h)
  BY <1>3, LedgerFinalize DEF Ledger!Next
<1>4. CASE \E h \in hooks : RecordLatestEvent(h)
  <2>1. PICK h \in hooks : RecordLatestEvent(h)
    BY <1>4
  <2>2. \A u \in Users : access'[u].consumed = access[u].consumed
    <3> DEFINE v == Owner(h.event)
               auth == IF h.event.type = "subscription" THEN h.event.att
                       ELSE access[v].authoritative
    <3>1. \/ access' = access
          \/ access' = [access EXCEPT ![v].lastEvent = h.event.created,
                                      ![v].authoritative = auth]
      BY <2>1 DEF RecordLatestEvent
    <3> HIDE DEF v, auth
    <3>2. access \in [Users -> AccessRow]
      BY DEF TypeOK
    <3> QED
      BY <3>1, <3>2 DEF AccessRow
  <2>3. [u \in Users |-> access'[u].consumed] = [u \in Users |-> access[u].consumed]
    BY <2>2
  <2>4. grant' = grant
    BY <2>1 DEF RecordLatestEvent
  <2> QED
    BY <2>3, <2>4 DEF Ledger!ledger
<1>5. CASE grant' = grant /\ access' = access
  BY <1>5 DEF Ledger!ledger
<1> QED
  BY <1>1, <1>2, <1>3, <1>4, <1>5, GrantWrites, AccessWrites

(* The implementation keeps the promise of the ledger: whatever Stripe,    *)
(* the webhooks and the requests do, a benefit is consumed once, a founder *)
(* benefit only by the holder of a grant, and a grant never moves.         *)
THEOREM LedgerImplemented == Spec => ImplementsLedger
<1>1. Init => Ledger!Init
  BY LedgerInit
<1>2. TypeOK /\ Linked /\ FounderConsistent /\ [Next]_vars =>
        [Ledger!Next]_(Ledger!ledger)
  BY LedgerNext
<1> QED
  BY <1>1, <1>2, TypeCorrect, LinkedCorrect, FounderCorrect, PTL
     DEF Spec, ImplementsLedger, Ledger!Spec

(* A founder benefit belongs to the one holder of a grant that is not      *)
(* retired: one code never serves two accounts.                            *)
THEOREM LedgerSoundCorrect == Spec => []Ledger!LedgerSound
<1>1. TypeOK /\ BenefitBacked /\ FounderConsistent => Ledger!LedgerSound
  <2> SUFFICES ASSUME TypeOK, BenefitBacked, FounderConsistent
               PROVE  Ledger!LedgerSound
    OBVIOUS
  <2>1. ASSUME NEW u \in Users, access[u].consumed = "founder"
        PROVE  \E g \in Grants : grant[g].redeemedBy = u
    <3>1. PICK a \in Attempts : attempt[a].user = u /\ attempt[a].trial = "founder"
      BY <2>1, access[u].consumed # "" DEF BenefitBacked
    <3> QED
      BY <3>1 DEF FounderConsistent
  <2>2. ASSUME NEW g \in Grants, NEW h \in Grants,
               grant[g].redeemedBy = grant[h].redeemedBy, grant[g].redeemedBy # None
        PROVE  g = h
    BY <2>2 DEF FounderConsistent, TypeOK, GrantRow
  <2>3. \A g \in Grants : grant[g].revoked => grant[g].redeemedBy = None
    BY DEF FounderConsistent
  <2> QED
    BY <2>1, <2>2, <2>3 DEF Ledger!LedgerSound, Ledger!Holds
<1> QED
  BY <1>1, TypeCorrect, BenefitBackedCorrect, FounderCorrect, PTL
=============================================================================
