# Formal model of STEW Log

STEW Log (`SalesLogApp`) is a Django application for car sales people: they log
sales, describe their pay plan, see commission, join teams and pay for a
subscription through Stripe. This directory holds TLA+ modules translated from
the code, the TLC configurations that model-check them and TLAPS proofs about
them. `PROJECT.json` names, for every definition, the source lines it stands for.

The application runs as several worker processes over one PostgreSQL database
(READ COMMITTED; `ATOMIC_REQUESTS` is off). A view is therefore a sequence of
statements and `transaction.atomic` blocks, and any other view, webhook or
management command may run between two of them, or the worker may die there.
That is the granularity of the models: a transaction, with the row locks it
takes, is one action; reads made outside it are actions of their own and what
was read is kept in the state of the request.

## Inventory

| Component | State | Operations | Hard behaviour | What must hold |
|---|---|---|---|---|
| Billing checkout and founder benefits (`billing_services`, `billing_gateway`, `models/billing`) | BillingAccess, BillingCheckoutAttempt, FounderGrant rows | reserve, create the Stripe session, mark, finalize, redeem, revoke | requests and webhooks race; reservations expire while the session is open; gateway errors | one introductory benefit per user, backed by a confirmed attempt; one open reservation; what is paid is confirmed |
| Billing webhooks (`billing_webhooks`, `signals`) | the local dj-stripe rows, the latest event time | one or two transactions per event | late, repeated, reordered delivery; a worker dies between two transactions | the newest event decides; nothing is undone by an old event |
| Billing entitlement (`billing_entitlements`, `billing_enforcement*`, middleware, cohort command) | cohort columns of the access row | resolve, enrol, record a notice | boundaries in time | paid or in grace means access |
| Teams (`team_services`, `team_views`, `models/teams`) | Team, TeamMembership, TeamInvitation | create, settings, roles, remove, leave, transfer, deactivate, invite, revoke, accept, decline | a request writes by rows it read before its transaction | one active team per user; invitations are answered once; an owner is a member |
| Team feed (`team_services`, `team_views`, `signals`) | TeamActivity, TeamComment, TeamReaction | sale saved or deleted, comment, edit, delete, hide, react, month totals | a sale is saved while its seller leaves; a comment read before it was hidden is saved after | the feed shows each sale once, as it is, in the seller's team; what is hidden stays hidden |
| Pay plan lifecycle (`pay_plan_management`, `access`, `models/pay_plans`) | plans, versions, assignments, onboarding | draft, edit, activate, replace, synchronize | stale drafts, version numbers without a lock, overlapping assignments | one version active and in force, which pays once it is synchronized; the past keeps its version |
| Pay plan domain compiler (`pay_plan_domain`) | none | canonical rules to stored rules | boundaries | compiled rules pay what the canonical ones say |
| Commission engine (`commission_engine`, `commission_service`) | sales and what a month pays for them | record, edit and delete sales; calculate | ties on one day, tier boundaries, halves and rounding | each sale has its own position; later sales are not retroactive; limits hold |
| Pay plan imports (`pay_plan_imports`) | uploads, drafts | parse, review | provider failures | nothing is activated unreviewed |
| Pay plan assistant (`pay_plan_conversations`, `pay_plan_intents`, `pay_plan_provider_runtime`) | conversation rows with a processing token, turns | begin, ask, answer, give up, cancel, start over, expire, draft | the interpreter answers late; the worker dies with the token; forms are sent again | a reply follows its question; a form is recorded once; closed is final |
| Ask Stew (`ask_stew*`) | conversations, turns, provider usage | submit, reserve a call, answer, purge | duplicate submissions, limit of turns, midnight | a form is one question and at most one call; the quotas hold |
| Sandbox and scenarios (`sandbox_services`, `scenario_services`) | scenario, draft rules, runs | edit, deal, calculate, save, reset, copy, convert, archive, delete, compare | inputs are read twice without a lock; forms work on old rows | one conversion, whose record stays true; a result not reported stale is that of the rules and deals there are |
| Email verification (`email_verification`) | dispatch rows | reserve, send, finalize | the mail is sent between two transactions | the ledger says what was sent; one e-mail per cooldown |
| Authentication identity (`auth_identity*`, account forms) | account e-mail and allauth addresses | edit either, add, remove, delete, verify, make primary, repair | one e-mail stored in two places with several writers, each in several statements | the mails follow the ledger although the two come apart |
| Sales and archive (`views`, `forms`, `services`, `archive_aggregation`) | sales, archived sales | record, edit, delete, archive | an edit works on an old row | the commission follows the rows |
| Stew coach (`stew_coach_*`, `selling_calendar`) | dismissals | show, dismiss, project | dates and boundaries | a dismissed nudge stays away |
| Vehicles, administration, templates, migrations, settings | catalogue tables, configuration | import, display | none that a model would show | not modelled |

Interactions: checkout calls Stripe through the gateway, Stripe sends events
that `signals.py` turns into calls of `reconcile_billing_event`; the entitlement
reads what both wrote and decides who has Pro access; teams ask it who may
manage a team; saving a sale writes a team activity through a signal; the
assistant, the imports and converted scenarios produce drafts of the pay plan
lifecycle, whose active version the commission engine evaluates; a scenario
replays recorded sales through the same engine; the assistant and Ask Stew share
a daily quota of provider calls; team pages and checkout ask for a verified
address.

## Modules

| Module | Stands for |
|---|---|
| `BillingCheckout` | checkout requests, founder codes, webhook deliveries, with Stripe as the external part |
| `BenefitLedger` | the abstract promise: a benefit is consumed once, a founder benefit by the holder of a grant only |
| `TeamMembers` | teams, memberships, invitations and the management requests with what they have read |
| `TeamFeed` | extends `TeamMembers` with sales, their activities and comments |
| `PayPlanLifecycle` | the versions, assignments and onboarding row of one user: drafts, rule edits, activation, synchronization |
| `PayPlanAssistant` | the conversations of one user with the assistant, up to the draft |
| `Dialogue` | the abstract promise of the assistant: questions and answers in order |
| `AskStew` | the Ask Stew conversations of one user and the quota shared with the assistant |
| `CommissionRules` | what each kind of rule pays for a sale or a month: pure operators |
| `MonthlyCommission` | extends `CommissionRules`: the sales of a user, and the calculation of a month from them |
| `Scenario` | one scenario with the sales and the production version it is compared with |
| `AccountEmail` | the two e-mails of an account and the ledger of verification mails |
| `BillingCheckoutProofs`, `TeamProofs`, `PayPlanProofs`, `PayPlanAssistantProofs`, `AskStewProofs`, `MonthlyCommissionProofs`, `ScenarioProofs`, `AccountEmailProofs` | theorems and proofs |
| `MC...` | instances for TLC: symmetry sets, address tables, plans and calendars |

`BillingCheckout` has one variable per table (`grant`, `access`, `attempt`,
`row` for the local subscription status), one for requests and one for webhook
deliveries in progress, and three for Stripe (`session`, `sub`, `events`). An
action is a transaction of `billing_services.py` or `billing_webhooks.py`, a
call to Stripe, or the loss of a worker. It refines `BenefitLedger` by reading
`access.consumed` as the benefit, the redeemer of a grant as its holder and the
revoked codes as retired.

`TeamMembers` keeps the rows of the three tables, for which account each address
is verified (`holder`: the library and administrators verify, remove, delete and
move addresses: `VerifyEmail`, `LoseEmail`), who has Pro access and, in `req`,
the requests in progress with the rows they have read: the owner of the team (which a settings form writes back), the target of
a removal, role change or transfer, or the invitation whose row lock an
acceptance holds. A removal and a leave are two statements, the membership and
then the activities (`Hiding`). Declined, removed and left memberships are one status, for no
code tells them apart.

`TeamFeed` adds `sale` (the unit credit of each row), `activity`, `comment` and,
in `work`, the requests about them. Saving a sale locks its row, and then reads
the seller's membership without a lock: `Synchronize` is the read, `SaveSale`
the commit, and between them he may leave, join or found a team. An edit writes
a row it read before, and inserts it again if it was deleted meanwhile, as the
framework does. Who leaves or is removed has his activities hidden by a second
statement (`HideActivities`), before or after which a sale of his may be saved;
the feature flag is taken to be on, for with it off nothing is written. A
request about a comment reads the membership, the activity
and the comment in one step (`OpenActivity`, `OpenComment`) and writes in
another.

`PayPlanLifecycle` keeps the tables of one user, for no statement of the code
reads those of two. Rows are numbered by id, days are numbers and the null end
date is `Open`, later than every day. "review" is draft or review_required. The
unique indexes and checks of the tables are `Constraints`: a transaction that
would break one is not taken, and its request gives up. `req` holds what a
request read before its transaction: the draft its view looked up
(`ReadDraft`, then `Activate`), the version and the start a synchronization
computed (`SyncRead` or `FinishReview`, then `SyncCommit`), the rule it has
locked (`LockRule`, then `SaveRule`). The transactions of `Activate` and
`SyncCommit` are single actions because of the row locks they take first.
`Governing` is the version looked up for a day, by which archived sales are
calculated; `Paying` adds the status check of `calculate_sale`, which pays live
sales nothing by a version that is not active. Of
the rules only a change is recorded. The initial state is a user whom the
signal gave the placeholder plan and an administrator switched to the new
engine; a user who signs up by himself has no plan, and `_create_version`
refuses to make him a draft.

`PayPlanAssistant` keeps the conversation rows with their revision, processing
token and confirmation, the turns, the calls of the interpreter under way and,
in `drafting`, the row lock of a draft transaction with the version it read. A
submission locks the row, records the question with a new token and commits; the
call runs outside every transaction, and its answer is stored only if the row
still holds its token. What the interpreter makes of a question is one of three
outcomes, or a failure. The deadline of a token and the lifetime of a
conversation are passed by nondeterministic steps instead of a clock. It refines
`Dialogue` by reading the token as "waiting" and the turns as the log.

`AskStew` keeps conversations, turns, the tokens that pages handed out with
their time, the requests between question and answer (`asks`) and the usage
event of every counted provider call (`events`: for which token, on which day,
the how-manieth of the day). A clock is kept because windows, the lifetime of a conversation,
the age of a token and the day of the quota are compared with each other.

`CommissionRules` has an operator for every evaluator, for conditions and for
tiers. Money is in cents, units in half deals and percentages in
hundredths, so rounding and halves are those of the code. What a rule may look at
is a record of what is known of the sale, of the month and of the user, and the
subtotals so far; the rules of a version are evaluated from the first place to the
last, each in a context with the subtotals that the ones before it left. `IsRule`
says which fields a rule of each type has (`REQUIRED_RULE_FIELDS`).
`MonthlyCommission` adds
the rows: every page calculates the month anew from them, so the calculation is
an operator of the state (`UnitsBefore`, `ItemsFor`, `MonthCommission`) and the
actions are what changes the rows. The assigned versions come from a calendar
that is fixed for a behaviour, because `PayPlanLifecycle` models how it changes.

`Scenario` keeps the row of one scenario, its runs, the calculation under way in
`work`, the forms for hypothetical deals, how many copies name it as source and
the rules of the plan drafts it became. Rules, sales and deals are contents that
are only compared. A calculation is two actions, the replay and the commit, for
it reads sales and plan twice; the other operations hold the lock of the row.
The eligibility of the month and the mileage of vehicles, which the replay reads
and no fingerprint holds, are `facts`. `finished` is a history: the sales and the
plan of the moment a calculation finished.

`AccountEmail` keeps `User.email`, the `EmailAddress` rows, the dispatch ledger
the deliveries under way and, in `requests`, who is between two writes to an
account; `mails` and `recorded` are histories. The form of a user is read
(`OpenUserForm`) and saved in a later step (`SaveUserForm`), all columns, and
synchronizes only a changed e-mail. The pages of the library, `/accounts/email/`
and the links, write statement by statement: `MakePrimary` demotes the old
primary address, `Promote` saves the new one as it was read, `CopyEmail` writes
`User.email`; `RemoveAddress` and `FollowLink` may leave a copy to be made, and a
request may die before it (`RequestDies`). These steps are external: they follow
the pinned release of the library (`requirements.txt`), which is not part of the
repository. Writes that a unique index refuses change nothing and are left out.

## Runs

| Run | Shows | Bounds |
|---|---|---|
| `checkout_requests` | types; one open reservation; the benefit is backed; records and grants agree; the ledger is implemented | 1 user, 2 grants, 2 requests, 2 attempts, 2 plans, 4 events |
| `checkout_order` | the newest event decides, nothing regresses, records stay linked | 3 times, 5 events, 2 deliveries at once |
| `checkout_live` | who paid is confirmed in the end | 1 user, 2 attempts, fairness |
| `team_members` | invitations and memberships agree under every interleaving | 1 team, 2 users, 2 addresses of which one may be of either user and may be lost (`MayHold`, `MayLose`), 2 invitations, 2 requests of every kind but a demotion |
| `team_feed` | the feed shows sales as they are while sellers join, leave and are removed, hidden comments stay hidden, nobody joins a second team | 2 users, 2 teams, 1 invitation, 1 sale with credits 1 and 2, 2 activities, 1 comment, 2 requests at once |
| `plan_activation` | one version is active and in force, a synchronization makes it the one that pays, and an activation keeps which version stood on the days before it | a user of the staff, who may do all that others may; 2 requests, 2 days, 3 versions, 4 assignments |
| `assistant` | conversations stay dialogues, are usable again after a lost worker and final when closed | 2 conversations, 1 version, 1 form, 4 turns, 2 questions |
| `ask_stew` | a form is one question and one call at most, the limits hold | 2 conversations, 3 forms, 3 turns, 2 questions in a window of 1, 1 call a day, days of 2, 4 times |
| `commission` | positions tile, limits hold after the split, later sales are not retroactive, a sale never costs a bonus without upper ends | 3 sales, 2 months of 2 days, 8 kinds of sale, 2 eligibilities, 4 calendars of 2 plans |
| `scenario` | one conversion with a true record; a result not reported stale is that of the rules and deals there are, and of the sales and plan its calculation ended with | 3 contents (usual, without a rule, invalid), 2 versions, 1 sale, 1 deal, 1 change of facts, 1 form, revisions to 3 |
| `account_email` | the ledger says what was sent, however accounts are edited | 2 users, 2 addresses, 2 deliveries or requests to an account at once, 3 times, 2 edits |
| `team_policy` | a claim about teams that fails | 2 teams, 2 requests |

Why the bounds are enough: every property relates at most two attempts,
deliveries, requests or conversations, and each run has that many. Three event
times are the fewest with an event older and one newer than the latest. `Plans`
limits what customers choose: two plans are the fewest for a change of plan, and
one basic and one pro plan offer both kinds of introductory benefit. Customers
meet only at a grant, which two users redeem under its lock; one user with two
grants shows the rest, and the theorems cover any number of users. For teams, a
race needs two requests; one address that is lost and verified for another is the fewest for an invitation to outlive it; the feed needs a second activity because a seller may
have one in each of two teams, and its three users or two simultaneous
acceptances are covered by the theorems. For pay plans, three versions are a
placeholder and two drafts that race, and four assignments leave one for a
second activation; two days are the fewest on which a draft starts before, with
or after the current version. A conversation of four turns holds two questions,
the fewest for a late answer to meet a later question, and a second conversation
is what starting over needs. Ask Stew has a third form so that the limit of a
window, of a conversation and of a day are each exceeded by one. Commission has
three sales so that one lies before and one after another, two months so that a
sale can leave one, and sales on both sides of every limit of the plans. The
revisions of a scenario let it be calculated, edited, calculated and set back.
Three times of `account_email` let a reservation become stale and be taken over.

The clocks of billing, Ask Stew and mails, the events and attempts, the edits of
accounts and the revisions of a scenario are bounded, so a behaviour may stop:
those configurations say `CHECK_DEADLOCK FALSE`. All others are checked for
deadlock.

What the properties do not claim. `OneActiveVersion`, `CurrentInForce` and
`ActivationKeepsArchive` assume `AssignedOnce`: no version was put in force by
two activations, which the code does not exclude ("Observations"); `SyncPays`
does not assume it. `ActivationKeepsArchive` is about the version by which
archived sales are calculated: live sales of those days are paid by none until a
synchronization, for their version is inactive. `StaysBacked` has one exception
(`AddressLost`), which is real as well: see "Observations". `ResultTrusted` says
that the rules and the deals of a result are those there are, and that the sales
and the plan are those at the end of its calculation. It does not say that the
result was calculated from these sales, for they were read before that, nor from
the present eligibility and mileage, which nothing compares: a result that is
not reported stale may be out of date. No property says that the two e-mails of
an account agree, because they need not.

Fairness. `checkout_live`: a webhook worker that has started finishes or dies,
and Stripe sends an event again until a delivery succeeds, which is its
documented behaviour and the reason the handler may raise. Nothing is assumed
of customers or of checkout requests. `assistant`: time passes (the deadline of
a token), a draft transaction ends, and the user goes on opening the page; row
locks are granted in turn, so a page that waits for one again and again gets it,
which is why `Refresh` has strong fairness. Nothing is assumed of the
interpreter or of the worker that called it.

## Disagreement found

`team_policy`: a settings form saves every column of the team as read, and so
undoes a deactivation; a user who joined another team meanwhile is then in two
active teams, which the policy excludes.

## Observations

These were met while modelling. The models contain the behaviour, and no
property claims the contrary.

Billing. A late confirmation that comes between the two transactions of a newer
event replaces the newer subscription (`billing_services.py:275`). `--all-existing
--apply` of the cohort command locks the rows of an outer join, which PostgreSQL
may refuse.

Teams. Two transfers of one owner at once leave two members with the role of
owner (`team_views.py:763`). Comments travel with an activity to the seller's
next team, for the activity row is updated and not replaced. An acceptance checks
the address once, when it locks the invitation: an address lost after that does
not stop it. A user invited by an address that he then loses (he removes it, or
an administrator deletes or moves it) stays `invited` when that address is invited again: the former
invitation, bound to him, is revoked, and the new one is bound to no one
(`team_services.py:372`, `:416`). A sale saved after its seller's membership was
ended and before his activities are hidden is hidden with them. Saving an edit
read before a comment was hidden restores its text, though not its visibility,
while `docs/phase2a_teams.md` says that bodies are cleared. The preference to
share sales that this document describes is not in the code.

Pay plans. Activating drafts with an earlier and a later start leaves two
assignments in force on one day (`pay_plan_management.py:383`). A rule locked
while its version was a draft is written after the activation
(`views.py:2500`). A draft read before it was activated can be activated again
once a synchronization moved the start of its assignment
(`pay_plan_management.py:317`). Converted scenarios and new drafts number
versions by maximum plus one under different locks, so one number may be given
twice (`pay_plan_management.py:36`). An activation makes the previous version
inactive, and `calculate_sale` pays nothing by an inactive version
(`commission_service.py:173`): with a plan that starts later the live sales from
before are paid nothing, and so are those from today until it starts. When its
owner opens a page the synchronization moves the start of the new version back to
his earliest sale and switches the others off, so that it pays all of them
(`access.py:55`). `forms.py:113` offers "Apply only to future sales", and neither is that.

Assistant and Ask Stew. After its lease was lost `create_draft` may use an older
interpretation; `create_manual_draft` reads the active version again after it
compared it. A dead Ask Stew worker leaves its question without an answer, and
sending the form again is refused as a duplicate. Because the count of turns
reserves no room for answers to come, a thread may exceed `ASK_STEW_AI_MAX_TURNS`
(`docs/ask-stew-ai-pilot.md:172`), by the answers of questions that were under
way; `LimitsKept` says that it stays below twice the limit.

Commission. Bonus tiers with upper ends lose the bonus at a half unit between
two of them, which the validation allows (`pay_plan_domain/validation.py`);
`BonusNeverFalls` is stated for tiers without upper ends. Neither does anything
keep a plan from a bonus with a negative amount, from one that pays by gross, which
a sale may lower, or from a condition on a count that a sale may break; the
property is stated for bonuses without them (`Grows`). A rule that opts out of
the split (`commission_engine/engine.py:318`) keeps its whole amount, so that a
half deal may exceed half of a maximum; `LimitsKept` is stated for sides on
which everything is split. A rate of 1 means
100 %. A sale on a day without a version leaves its month without the unit
bonus. A minimum of the scope "period" sees subtotals of zero. Of two sales of
one day the archive adapter reverses the order (`pk = -pk`), and archived months
with positions end in "historical_pay_plan_incomplete", for an archived row has
no attribute that `unit_position.py:13` reads; `docs/ARCHIVED_SALE_AGGREGATION.md`
describes them as supported. No view archives a sale. Saving an edit of a sale
deleted meanwhile inserts it again.

Scenarios. A sale recorded between the replay of a calculation and its
fingerprint yields a result shown without a stale reason. So does a change of
the monthly eligibility or of the mileage of a vehicle after the calculation
(`sandbox_services.py:247`, `:568`): the result depends on both
(`commission_engine/engine.py:95`, `:145`), and no fingerprint does. The form for a deal
writes a row it read without a lock: a deal reaches a scenario converted
meanwhile, the revision may be set back, a calculation whose deal was deleted
meanwhile fails on its foreign key and one whose run exists already on the
unique index. Saving a rule deleted meanwhile creates it again. A comparison
reuses a run although another plan came into force
(`sandbox_services.py:627`), and makes the page report a changed assignment that
did not change. `SandboxActivationService` and `SandboxManager.archive` and
`delete` are reached by no view.

E-mail. The cooldown counts from the reservation and not from the hand-over. An
address in the ledger of a former owner cannot be verified by the command for
the new one. A mail that failed but was accepted is sent again at once. Deleting
an address in the administration leaves the e-mail of the user. The two e-mails
of an account may differ: the form of a user writes back the e-mail it read when
another request changed it meanwhile, and then leaves the addresses alone, since
its own e-mail field is not among the changed ones (`admin.py:66`); and a request
of the library that dies between its writes leaves the address without the copy,
or the account without a primary address.

## Proofs

All theorems hold for every value of the constants, under the named assumptions
of the modules (`None` is not a user, a grant, ...; bounds are natural numbers).

- `BillingCheckoutProofs`: the inductive invariant is `TypeOK` and `Linked`.
  `Linked` ties the records together: a session belongs to a row, a subscription
  to a completed session, a request to a reserved attempt, a delivery to an
  event that was sent about a synchronized subscription, and the time of the
  latest event to an event of that user. Without it a delivery could confirm an
  attempt that was never reserved. From it follow `OneActiveAttempt`,
  `NoRegress`, `NeverAheadOfStripe`, `BenefitBacked`, `FounderConsistent`,
  `NewestEventRules`, and that every step is a step of `BenefitLedger` or a
  stutter. What the ledger promises, `LedgerSound`, therefore holds of the rows.
- `TeamProofs`: the inductive invariant of the teams is `TypeOK` and `Pending`,
  which joins the three invariants of the run with `Provenance`: an open
  invitation is one of a created team. The steps that neither touch an
  invitation nor let anybody in are treated at once (`Quiet`); the others have a
  lemma each, which also shows the step of `StaysBacked`: an invitation is closed
  with the membership that waits for it, or replaced by one that is bound to the
  same user unless the address is no longer his.
  `JoinCases` (who joins creates the team or accepts an invitation) gives both
  action properties. A step of the feed leaves the teams alone (`Frames`), so
  `FeedSpec` implies `Spec` and every theorem about teams holds with the feed.
  `ActivityCurrent` needs that a request that commits a sale holds its row and
  carries its credit (`SavesSale`) and that a sale has one activity at most
  (`LinkedOnce`); hiding the activities of who left only shows less. `GoneStaysGone` follows from the types and a case analysis of
  the steps that write comments (`Writing`).
- `PayPlanProofs`: `TypeOK` is inductive. The other theorems rest on an
  invariant that adds to `OneActiveVersion` and `CurrentInForce` that drafts and
  what was read of them have no end (`DraftOpen`, `Confirmed`), that an active
  version has none either (`ActiveOpen`) that every version that is or was
  active has been assigned (`ActiveAssigned`) and that the current version is
  active (`CurrentActive`). The current version then has an
  open assignment, and the unique index on open assignments does the rest: an
  activation can insert its own only if the assignment it supersedes is that one
  (`SupersedesCurrent`), and a late synchronization of a replaced version would
  open a second one and is rolled back (`SyncStep`). `PastStep` compares the
  assignments that cover a day before and after an activation. `SyncStays` shows
  that a synchronization leaves no other assignment on the days of its own, so
  the current version, which is active, is the one that pays.
- `PayPlanAssistantProofs`: the invariant adds that tokens are given out in
  order (`TokensInOrder`) and that a call whose token the row still holds is
  about the last turn (`CallsCurrent`), which is what makes the comparison of
  tokens enough to keep late answers out; `LocksOpen` says that a draft
  transaction holds the row of an open conversation. From it follow the four
  invariants of the run, `ClosedIsFinal` and the refinement: each operation is
  one of the steps of `Moves` on a conversation, and these map to `Dialogue`.
- `AskStewProofs`: `OneCallPerSubmission` rests on the events alone, which no
  step removes, and the quota on their numbers: the calls of a day are finitely
  many and within the limit (`CallsFit`), also when both assistants count. That
  a token stands in one place (`TokensOnce`) is the guard on all conversations
  and not on one; that an answer is the only one to an earlier question needs
  that every request under way stands for a question of its thread, unless that
  was purged (`AsksStand`). The bound on a thread follows because the questions
  are bounded by the check (`QuestionsFit`) and the answers map one to one into
  the questions (`ThreadFits`). The limit of a window is compared at the moment
  of a question, and `WindowsFit` says it of all windows: no question is later
  than the clock (`QuestionsPast`), so older windows only lose rows.
- `MonthlyCommissionProofs`: `TypeOK`, with the order of the keys, is inductive.
  `NonRetroactive` follows because the position of a sale is a sum over the
  sales before it, and a step leaves all of them alone that come before what it
  touches. `PositionsTile` needs to know what a sum is. `Total` is a fold that
  takes its elements in an order nobody knows; the section "Sums" proves, by
  induction over the finite subsets of a set, that its recursion has a solution,
  that the order does not matter, and that sums can be compared and extended.
  Then what is summed before a sale, with the sale, is summed before each later
  one (`Apart`), and the last sale of a series ends at all its units.
  `LimitsKept` and `BonusNeverFalls` are about the calculation, for any plan whose
  rules have the fields of their types (`IsVersion`), in any order and number. That
  is what the code requires of a rule (`validate_required_fields`), with numbers
  where it converts to numbers, and a survey grid with a row, without which the
  evaluator fails (`commission_engine/evaluators.py:507`). The
  fold over the rules is unrolled by counting up the places (`RulesKeep`), and it
  keeps that the subtotal of a category is what its items pay (`PassKeeps`). So a
  limit, evaluated at its place, brings its side to the limit (`LimitReached`);
  the rules after it leave the side alone or are a cap above a minimum
  (`OtherSide`, `OtherPass`); and the halves of the items of a half deal, rounded
  one by one, add up to half of the whole within half a cent each (`SplitPaid`).
  For `BonusNeverFalls` a new sale makes every count of units grow
  (`PeriodInGrows`), each kind of bonus is monotone in them (`EvaluateGrows`), and
  so is their sum (`BonusesGrow`).
- `ScenarioProofs`: the invariant adds that the calculation under way is of the
  rules and deals of the row it will store and of a scenario not converted before
  (`WorkFits`), and that a stored result has the rules and deals of the inputs
  whose fingerprint is stored, and was finished with their sales and with the
  plan of the latest run (`ResultOfInputs`, `BaselineOfResult`). A conversion
  therefore needs a row never converted, and a fingerprint equal to the present
  one gives the result the rules and deals there are.
- `AccountEmailProofs`: no step of an account touches the ledger or a delivery
  (`AccountWrites`), whatever it does to the two e-mails. `LedgerKept` needs
  what a delivery between its transactions may rely on: the row is still the
  pending one it reserved, or was reserved again more than the time of a stale
  reservation later (`WorkInOrder`). With it a late worker cannot finalize the
  row of another, since both compare the time of the reservation
  (`OwnsReservation`); and what was recorded stands until its cooldown is over
  (`RecordedInOrder`), so that a new reservation is later than that.

`TypeOK` of the teams, pay plans, sales, scenarios and e-mails is proved and not
listed in a run. The inductive invariants of `AskStew` and `AccountEmail` were
checked by TLC on the instances of their runs before they were proved.

Induction over data is done without the induction theorems of the library, which
take an operator as a parameter that the provers cannot instantiate:
`FiniteInduction` takes the set of the good subsets instead, and is proved from
the fact that the strict subset relation is well founded.

Model-checked only: `PaidIsConfirmed` and `TokenReleased`, which are liveness
properties under fairness, which are out of the prover's reach. Every other
property of a passing run is stated by a theorem.

## Not modelled

Of billing: events without usable metadata of an attempt
(`billing_webhooks.py:78`), which touch the latest event time only; a deadlock of
two transactions as such, of which the model has the outcome, that one of them is
aborted; the issuing of founder codes, the policy errors of finalization
(owner, Price and tier mismatch), the boundaries of trial and grace periods, the
enforcement cohort, whose columns are written once under the row lock, and the
middleware, which only reads. Of teams: the signed references that carry an
invitation through e-mail verification (an acceptance by reference runs the same
checks as one by code), reactions, which a unique index protects, and month
totals. Of pay plans: what a draft's text or upload says and which of its rules
are usable, monthly eligibility beyond its value, change patterns, the
activation events, plans under another name, sandbox versions and edits by an
administrator of another user's rules. Of the assistant and Ask Stew: prompts,
classification of questions, the text of answers and feedback; a purge is one
step. Of commission: the draw, the Holiday Fund, the display of tiers, the
legacy engine and archived months. Of scenarios: names, date ranges,
explanations, the semantic comparison of rules, the wording of validation and
the number that a converted version gets. Of e-mail: sign-up,
bulk actions of the administration, the statements of the library inside one of
its writes (the row it saves is read in the same step, but for `Promote`),
normalization, the checks of settings, deactivated users and the readiness
report.

The domain compiler, the imports and the coach are functions of one reading
that keep no state but the row they write last. Vehicles, administration and
configuration are not modelled because nothing there runs concurrently or over
several steps. Pages, forms, wording, logging, templates and migrations are left
out everywhere; with the tests they make up most of the repository's lines.

## Plan

What is left, the most important first.

1. `BillingEntitlement`: grace periods, the cohort and the middleware that reads
   onboarding, address and subscription one after the other.
2. The refinement of pay plan assignments to one plan in force for each day, as
   far as the observations above allow.
3. The domain compiler as operators against `CommissionRules`: a compiled rule
   pays what the canonical one says.
4. Archive aggregation and the projections of the coach against reference
   definitions.
