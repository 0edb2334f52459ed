# Messa: a TLA+ model

Messa lets the customers of a restaurant scan a QR code at their table, ask for
service, join the table's session with a PIN, order and ask for the bill, while
operators and waiters approve, open, close and acknowledge. One NestJS process
(`src/apps/api`) keeps everything in PostgreSQL; a publisher and a few periodic
jobs run in the same process, and a web client (`src/apps/web`) follows events
over a socket. Restaurants sign up, pay a subscription by Pix and are counted by
where they came from.

This directory holds TLA+ modules of it, the TLC configurations that check
them, and theorems about them checked by TLAPS. `PROJECT.json` maps every
definition to the lines it stands for and lists the runs, the mutants (mistakes
the code could contain and the property that catches each), the hazards and the
findings.

- [Inventory](#inventory)
- [The modules and the code](#the-modules-and-the-code)
- [Runs](#runs)
- [Fairness](#fairness)
- [Where the code and its documents disagree](#where-the-code-and-its-documents-disagree)
- [Proofs](#proofs)
- [What is not modelled](#what-is-not-modelled)
- [What could come next](#what-could-come-next)

## Inventory

Paths are below `src/apps/api/src/modules` unless they begin with `src/`.

| Component | State | Operations | What makes it correct | Modules |
|---|---|---|---|---|
| Table service (`service/session.service.ts`, rules in `src/packages/domain`) | `sessions`, `session_participants`, `service_requests` | requestService, join, setParticipantName, requestBill, cancelBill, acknowledgeBill, approve, reject, openByStaff, close; jobs expireRequests, markInactiveSessions | one live session per table; closed is final; an answer is final and settles the order that waits on it; approved devices take part | TableService, TableSlots |
| Ordering (`ordering/order.service.ts`) | `orders`, `order_items`, `idempotency_keys` | create, acknowledge, cancel | one order per key; numbers unique in a session; the owner takes part in the order's session; nothing unacknowledged when the staff closes a session | TableService, CartOrders |
| Table administration (`tables/tables.service.ts`) | `tables`, `revoked_table_tokens` | create, update, rotateToken | a table that serves is not disabled; an old card says that it was replaced | TableService, TableCards |
| PIN attempts, blocks and windows (`session.service.ts`, `src/packages/domain/src/service-request.ts`) | `device_blocks`, `service_requests`, the device's cookie | a request, a rejection, a wrong PIN | a limit is reached after the number of attempts it names, and ends | TableAccess, in part |
| Outbox, publisher, gateway (`events/`) | `domain_events`, sockets and their rooms | append, publishBatch every 500 ms, emit | every committed change is announced at least once, in an order the client can live with | LiveUpdates, in part |
| Staff presence (`events/staff-presence.service.ts`) | in memory: sockets, last seen, grace timer, announced | connected, disconnected, the timer | online is announced iff somebody is connected or within the grace period | StaffPresence |
| Billing (`billing/`) | `pix_charges`, `tenants.subscription_ends_at` | choosePlan, getOrCreateCharge, verifyCharge, the renewal, confirmation and expiry jobs | a payment extends the subscription exactly once, and is credited in the end | Billing, TenantLedger |
| Identity (`identity/`) | `users`, `memberships`, `staff_devices`, cookie and stored session of a browser | signup, login, refresh, logout, switchTenant, reset, TOTP; invite, accept, update | a reset leaves nothing signed in; nobody is signed out without cause; a restaurant keeps an administrator | StaffAccounts, Members |
| Platform and tenants (`platform/`, `tenant/`) | `tenants` | create, signup, setStatus | one administrator from the first moment, one slug each | Members, in part |
| Acquisition (`acquisition/`, `src/packages/origem`) | attribution rows, milestones, links, cookies | capture, registrarCadastro, marcar, registrarLink, the report | first touch wins; a printed code leads to its campaign; the report loses nothing | Acquisition, CampaignLinks |
| Catalogue (`catalog/`) and public menu (`public/`) | products, categories, areas | edits by administrators, the menu of a phone | no product without its category; what is orderable is on the menu | Catalogue |
| Rate limit by address (`src/apps/api/src/common/guards/ip-rate-limit.guard.ts`) | a window per address, in memory | one call per request | never more than the limit per window | SlidingWindow |
| Database layer (`src/packages/db`) | the pool, transactions, unique indexes, row level security | withTenantTx, withPlatformTx, withUserTx | isolation; a transaction that can always end | TableService and Billing, in part |
| Operator's panel (`src/apps/web/src/app/staff/page.tsx`) | what it has read, seen and announced | reload, every button and dialog | every request rings; no order is cancelled unwarned; what the server accepts can be pressed | StaffPanel |
| Customer's phone (`src/apps/web/src/app/t/[token]/menu-view.tsx`, `src/apps/web/src/lib/cart.ts`) | screen, cookies, saved request, cart | ask, wait, join, restore, order, retry | it converges on the rows; a cart is ordered once | LiveUpdates, CartOrders, in part |
| Other pages of the web client (`src/apps/web/src/lib/api.ts`) | the stored session | calls with a refresh | | StaffAccounts, in part |
| HTTP controllers, guards, filters; storage; e-mail; QR cards | none of their own | routing, validation, formatting | | none |

**How the parts interact.** A controller resolves the device, participant or
member and calls one service method, which is one transaction. Services share
state only through the rows: ordering locks the same `tables` row as the table
service and writes the requests that the table service answers; the table
service moves, confirms and cancels orders; table administration reads
sessions. Every change appends a row to the outbox in the same transaction; the
publisher reads it later and emits to rooms; a screen that hears an event reads
the rows again. Presence is read by requestService and create to refuse when no
staff is connected; billing and tenant status are read to refuse new sessions.
A settled payment and a first order write a milestone of acquisition, on a
connection of their own.

**What is hard.** Handlers that lock the row of their table interleave with
handlers that lock nothing (the bill, acknowledge, cancel, setParticipantName,
update of a table) and with the jobs; some decide on a row they read and then
write by id. PostgreSQL's READ COMMITTED gives every statement a snapshot of its
own, so what was read is only as good as the lock it was read under. Two
administrators, two tabs, a screen and a job do the same thing at the same
time. Errors are thrown after writes, which rolls the writes back, but not what
another connection wrote. Clients retry, poll, reload, and apply answers in the
order they happen to arrive; sockets, pages and the process die in between. The
hazards in `PROJECT.json` name the lines.

## The modules and the code

Every module but those of the table service models one part whole, and each stands alone:
what one part needs of another is a choice of its actions (a payment, an edit of
the catalogue, an approval), as free as the other part allows.

| Module | Of | Checked in |
|---|---|---|
| `DomainRules`, `TableService` | handlers and jobs of sessions, requests, bill, orders, activation of tables | `table_*` and four findings |
| `TableSlots`, `TableServiceSlots` | the abstract specification and the refinement mapping | `table_requests` |
| `LiveUpdates` | outbox, publisher, rooms, and the phone that follows its request and session | `live_updates` |
| `Billing` | charges, payments, subscriptions, jobs | `subscription`, `pool_exhausted` |
| `TenantLedger`, `BillingLedger` | the abstract account of a tenant and the refinement mapping | `subscription` |
| `StaffPanel` | the operator's screen | `supporting_parts`, `stuck_request` |
| `Catalogue`, `CartOrders` | the menu, and the phone's cart against it (`CartOrders` extends `Catalogue`) | `supporting_parts` |
| `StaffAccounts`, `Members` | one account and its browser; restaurants and their teams | `supporting_parts` |
| `TableAccess`, `TableCards`, `StaffPresence`, `SlidingWindow` | limits, cards, presence, the limit by address | `supporting_parts` |
| `Acquisition`, `CampaignLinks` | touches, milestones and the report; links and their codes | `supporting_parts` |
| `...Proofs` | eight modules of theorems | |

### DomainRules

The pure functions of `src/packages/domain` that the services call inside
transactions: `deriveTableState`, `decideOpenRequest`, `decideOrderPlacement`,
`decideCloseSession`, and the sets of statuses.

### TableService

**State.** `isActive`, `sessions`, `participants`, `requests` and `orders` are
the rows of the tables of those names, each cut down to the columns some handler
decides on; `named` holds the participants whose `display_name` is set. An order
carries the idempotency key that was inserted with it. `lock[t]` is the
transaction that holds the row lock of a table and `tx[w]` what the open
transaction of worker `w` has read and decided.

**Transactions.** A handler that locks its table is two actions. The first waits
for the lock, reads and decides; the `Commit...` action writes and releases. All
reads after the lock are one step. That loses nothing: what they read of the
locked table can change only through the handlers and jobs that take no lock,
each of which is one write, and a write that falls between two reads of a handler
has the same effect on the decision as one that falls before or after both (the
reads are of different rows and such writes commute, as each is of one table of
the database or, for the expiry job and `cancel`, of a request and the order
that only it holds). The
writes are one step because nobody sees them before the commit. A write made
with a `WHERE` is evaluated on the rows as they are at that step, as PostgreSQL
re-evaluates it after waiting for a row; a write by id overwrites whatever the
row has become. The handlers without a lock that read and then write by id are
two actions for the same reason; those that are one conditional `UPDATE` are one.
`createOrder` is three, because it reads the key and the session before it waits
for the lock: `CreateOrder`, `LockCreateOrder`, and `CommitSubmitOrder` or
`CommitAwaitOrder`.

**Failure.** A `DomainError`, a conflict, a lost connection, a crash of the
process and the violation of a unique index all roll back: `Rollback(w)`, at any
time. A refusal known at the first step is the absence of a step, as it changes
nothing. An insert that would violate an index is a disabled commit, which
leaves the transaction only a rollback.

| Action | Handler |
|---|---|
| RequestService, CommitRequestService | `requestService` |
| Join, CommitJoin | `join` with the right PIN |
| SetParticipantName | `setParticipantName` |
| RequestBill, CancelBill, AcknowledgeBill and their commits | the three handlers of the bill |
| Approve, CommitApproveOpen, CommitApproveNew, CommitApproveContinue | `approve`, by what it decides |
| Reject | `reject` (lock and one conditional update: one action) |
| OpenByStaff, CommitOpenByStaff; Close, CommitClose | `openByStaff`; `close` |
| CreateOrder, LockCreateOrder, CommitSubmitOrder, CommitAwaitOrder | `create` |
| AcknowledgeOrder; CancelOrder, CommitCancelOrder | `acknowledge`; `cancel` |
| DeactivateTable, CommitDeactivateTable, ActivateTable | `tables.update` |
| ExpireRequests, MarkInactiveSessions | the jobs of `session.jobs.ts` |

**Abstractions.** Time: which pending requests are past their ten minutes and
which active sessions past their hour is a free choice of the jobs, so every
order of events and clocks is covered. Ids are random in the code and taken in
order in the model, which cannot be told apart since no handler compares ids.
Events and audit rows are left out: no handler here reads them, except for the
count of wrong PINs. Refusals for billing, an absent staff, a blocked device or
a full window change nothing, and are covered by the steps that do not happen. A
table is one tenant's; no handler relates rows of two tenants. Contents and prices
of an order only decide a refusal. Deadlocks between row locks are not modelled:
the server breaks them by aborting one transaction, which is a `Rollback`.

### TableSlots and TableServiceSlots

`TableSlots` is what the service promises, with no requests, orders, locks or
transactions: a table serves one session or none, an ended session never serves
again, a device becomes a guest only of a session being served.
`TableServiceSlots` maps the rows to it: the live session, the closed sessions,
the participants.

### LiveUpdates

**State.** `requests` and `visit` are the rows a phone depends on, `outbox` the
rows of `domain_events`; `batch` is the rows that the publisher has locked, `unsent`
those of them that it has yet to emit, and `emitted` counts emissions. `phone` is the
screen with what the browser keeps (the saved request, the participant's
cookie), `rooms` what its socket has joined, `calls` the answers on their way.

**Actions.** The server's transactions (`ResolveRequest`, `ChangeVisit`,
`CloseVisit`) append their event with their change. `PickBatch`, `EmitNext` and
`MarkPublished` are `publishBatch`: select under lock, emit one by one, update
and commit. The server answers a call when it is made and the answer arrives at
some later moment, in any order (`Receive`); what is done with it is the
callback of `menu-view.tsx` (`ApplyBoot`, `ApplyRestored`, `ApplyRequest`,
`ApplyAsked`, `ApplyJoined`, `ApplyRefreshed`). `Handle` is what the listeners of the
socket do with an event.

**Faults**, `MaxFaults` of them: an answer is lost, the page is closed, the
socket falls, the process dies between any two steps (the transaction of the
publisher is undone, all sockets fall). `mishap` remembers what the page does
not repeat; the two properties that mention it say exactly what excuses a stale
screen: a socket that was out of the room when the end was emitted, an answer
overtaken by an older one, a lost answer of a call that is not polled.

### Billing

**State.** Each tenant's dates, the rows of `pix_charges`, what the provider
would answer (`paid`), how often each was credited, the milestones, and for each
caller (screens, and the job) where it is in its work: `op[w]`. Half the life of
a charge is one tick of `now`. `Deadline`, `Phase`, `NextBillingCycleEnd`,
`ShouldGenerateRenewalCharge` are the functions of `src/packages/domain/src/billing.ts`.

**Actions.** A charge is created at the provider inside the transaction that
inserts it (`GetOrCreateCharge`, `GenerateRenewalCharges`, `CommitCharges`):
nothing is locked, so two callers may create two. Confirmation asks the provider
outside a transaction and then settles: the conditional update of the charge
(`SettleCharge`, which holds its row until the commit), the new end from the row
of the tenant and the milestone on a second connection (`ExtendSubscription`),
the commit (`CommitSettle`). `VerifyCharge` and `ExpireVerified` are the screen's
reading of a charge past its time and its write by id. `Fail` is an error at any step
(the milestone stays), `Crash` the process. No tick falls into a settlement, which lasts
seconds.

### TenantLedger and BillingLedger

`TenantLedger` is what billing promises of the accounts, with no calls, locks, transactions,
job or provider: bills are issued for good, one for each tenant at a time; each is
paid and credited at most once, and only in that order; a credit moves the end of the
subscription of the bill's tenant to a whole cycle from that day or later, and nothing
else moves the end of any. `BillingLedger` maps the rows to it: a bill is a
charge without its status and its expiry, `until` the column `subscription_ends_at`, `credited`
the charges that have left an event `billing.paid`. What the ledger leaves out are the phases
of a trial, which charge a caller creates and when, and the time left that a credit
may add to (of which `EveryPaymentExtends` speaks).

### StaffPanel

**State.** `visit`, `queue` and `placed` are one table's session, requests and
orders as `TableService` has them, but with each operation whole; `screen` is
what the panel shows, `reloads` those under way, each with the parts it has been
answered so far, `seen` what it compares newcomers with, `heard` what has rung.

**Actions.** A reload is three reads that the server answers one after the other
(`BeginReload`, `Read`), then `ApplyReload` or `FailReload`: overlapping reloads
are applied in any order. One action for each button and dialog acts on what the
*screen* says, and the server decides on the rows. Timers and events may start a
reload at any time, which covers every order in which the rooms of the staff are told.

### Catalogue and CartOrders

`Catalogue` has an action for each edit. An edit that looks at one row and
writes another (a product's category, the deletion of a category) is a check and
a write, and the foreign key decides at the write. `Menu` is what a phone
is shown as orderable, `Rejection` one line of `validateOrderLines`.

`CartOrders` extends it with the phone. The cart survives the page; `sending` is
the order under way, with the lines as they were when the button was pressed;
`ReceiveCreated` empties the cart and `ReceiveRejected` takes products off,
both from what was captured at the press, as the closures do. A cart has a number so
that its orders can be counted; `lost` counts those whose answer never came. There is one page: a second tab
has a copy of the cart of its own in memory, read once (`cart.ts:16-23`), and can order the same cart again with no answer lost.

### StaffAccounts and Members

`StaffAccounts` is one account of a restaurant's staff (an administrator of the platform
needs no restaurant and is left out), with the restaurants it has access to (`access`: the
membership and the restaurant are active). Server handlers check something and then write
(`Login` and `SwitchTenant`, which look up the restaurant in a transaction of their own, and
`ResetPassword`, `SetupTotp` and `EnableTotp`, which lock nothing: two steps each). `Refresh`,
which locks its device, is one; its answer carries a new cookie, which arrives
later (`Receive`), or not (`LoseAnswer`). `RefuseRefresh` has every reason of the code: no cookie, a
device that is revoked or has expired, an old secret, a restaurant that is blocked or where the
member is inactive (`MayWork`). A reused secret changes nothing else, because the revocation
of its family is undone by the exception that follows it. Whatever answer to a refresh is no success
ends the stored session (`api.ts:38-41`), an error of the server too (`FailRefresh`). Confirming the
second factor refreshes the device with its own call ("renew"), and if that is refused the
client refreshes once more. Tabs share `jar` and `session`; the browser's cookie ends with the
device, by either clock first (`Sendable`). No page of the web client switches restaurants:
`SwitchTenant` is the API's.

`Members` is restaurants and memberships. An access token carries the role of
the moment it was issued (`token`), and every action of an administrator is
guarded by the token and not by the row, as the guard of the API is. An
invitation is read and then accepted by the id of its row.

### TableAccess, TableCards, StaffPresence, SlidingWindow

`TableAccess` has the clock: `DecideOpenRequest` answers in the order of the
code (disabled, blocked, pending, limit, occupied), `Reject` counts rejections
within their window and writes a block (the limit of a table is one of requests to open it), `EnsureDevice` gives a phone without a cookie a row
of its own, which stays when the answer is lost. A tick of the clock is
a fraction of each period, and the periods keep their order.

`TableCards` is the token of a table: read without a lock (`BeginRotation`),
then replaced and revoked (`RotateToken`), where the primary key of
`revoked_table_tokens` refuses the second of two rotations of the same token.
`Resolve` is the answer to a phone: the table, 410 or 404.

`StaffPresence` is the map of the service for one tenant, with an action for
each callback; `RestartServer` empties it. Phones hear an announcement or poll.

`SlidingWindow` is one key of the in-memory store. Its list, always in the order of
time, is a set of hits that are numbered within one instant. `Hit` drops what is old,
counts itself also when it is refused, and may start the sweep, which other keys
may start too. A restart of the process, which empties the store, is not modelled.

### Acquisition and CampaignLinks

`Acquisition`: `Capture` classifies an arrival (`Classify`) into a channel and
writes the two cookies; each ends on its own day. The account is committed
first and its attribution recorded afterwards on other connections
(`RecordAttribution`, `RecordSignup`), which may be given up in between. `Report`
is the report of `report.ts`, with `Divide` giving nothing where the divisor is 0.

`CampaignLinks`: links are created by tabs that each try codes in order, one
transaction a code, with the two unique indexes as the only referee (`TryCode`). Any other error
is caught like theirs and moves the tab to the next code, whether or not the transaction had
committed (`FailTry`); the service may stop at any attempt (`AbandonTry`). Links that
existed before codes did (`LegacyLinks`) are given one when they are asked for, by an update by id,
and so are those that no code was left for: `late` has both, and `skipped` is whether an attempt for one
of them has failed by a fault.

## Runs

`Deadlock` is checked in the runs of the table service (when the rows are used
up a handler can still begin and roll back). The others stop where their bounds
end.

| Run | Bounds | Checks | States |
|---|---|---|---|
| `table_requests` | 2 devices, 2 workers, 2 sessions, 2 requests, 1 order | `LockedReadsHold`, `ApprovedDeviceTakesPart`, `ImplementsSlots` | 571 thousand |
| `table_orders` | 2 devices, 2 workers, 2 keys, 2 sessions, 2 requests, 2 orders | `OrderOwnerTakesPart`, `OrdersAreDistinct`, `AnswerSettlesOrder`, `ClosedSessionIsFinal`, `StaffAnswerIsFinal` | 654 thousand |
| `table_everything` | every operation; 1 device, 1 session, 1 request, 2 orders, 2 keys | `TypeOK`, `LockProtects`, `CloseLeavesNothingUnacknowledged` | 899 thousand |
| `live_updates` | 2 requests, 5 events, 2 answers on their way, 1 fault | `OnlyEmittedIsMarked`, `ClosedSessionIsSeen`, `WaitingCustomerLearns`, `ApprovedCustomerIsSeated` | 198 thousand |
| `subscription` | 1 tenant, a screen and the job, 2 charges, 3 instants, 2 faults | `CreditedOnce`, `PaidMilestoneMeansMoney`, `ImplementsLedger`, `EveryPaymentExtends`, `PaymentsAreCredited` | 99 thousand |
| `supporting_parts` | below | 19 properties of ten parts | 933 thousand |
| `order_final`, `bill_withdrawn`, `waiting_order`, `disabled_table`, `pool_exhausted`, `stuck_request` | the smallest in which it happens | one property each, violated | |

**The table service.** All its runs are of `MCTableService` with one table: a
lock and all that it protects belong to one table, and no handler reads the rows
of two (the proofs do not need that bound). Two workers are two transactions
open at once; the steps without a transaction and the jobs interleave with both.
Devices, workers and keys are symmetric. `Called` names the operations the
clients of an instance call; the jobs always run. `MaxSessions`, `MaxRequests`
and `MaxOrders` bound the rows ever created.

- `LockedReadsHold`: what a handler read under the lock is still true when it
  writes, so that no insert of it meets the unique indexes on live sessions, pending requests,
  participants and order numbers. The primary key of `idempotency_keys` is none of these: the
  key is looked up before the lock (`order.service.ts:30`) and inserted under it (`:137`), and there
  the index is the only thing that stops the second of two deliveries of one order (see below).
  This needs two sessions of a table and two devices that join, ask and
  are approved together, and an order.
- `ApprovedDeviceTakesPart`: what a customer polls after an approval is there.
- `ImplementsSlots`: the rows implement `TableSlots`.
- `OrderOwnerTakesPart`, `OrdersAreDistinct`, `AnswerSettlesOrder`: an order that
  moves to another session takes its number and its owner along; a retry creates
  one order; an answered request leaves no order waiting. Two sessions and two
  orders are the least in which an order moves next to another.
- `ClosedSessionIsFinal`: no late transaction changes, joins or orders into a
  session that is closed.
- `StaffAnswerIsFinal`: a request that is settled changes no more. The one exception is named: an
  *expired* or cancelled request becomes approved by an approval that had found it pending, when the
  job or the cancellation comes between its two steps. `state-machines.md:28-33` and BR-05
  (`business-rules.md:25`: still pending, or else 409) do not allow it; the code does (see below).
- `CloseLeavesNothingUnacknowledged`: closing under the lock leaves no order
  submitted, although `acknowledge` and `cancel` take no lock. (Only `close`:
  replacing a session on approval does leave them, see below.)
- `LockProtects` is the invariant of the proofs, checked here with every
  operation.

**`live_updates`.** One phone and one table. Two requests let an answer about
the first arrive while the phone waits for the second; five events are a request
made, answered, asked again, answered, and the session's end; two answers on
their way can overtake each other. One fault at a time is enough to lose any one thing at any
moment. (With two the same properties hold; that takes five times as
long and is not kept as a run.)

- `OnlyEmittedIsMarked`: at-least-once delivery across crashes.
- `ClosedSessionIsSeen`: a phone that shows a session whose end was emitted has
  met one of the named mishaps.
- `WaitingCustomerLearns` and `ApprovedCustomerIsSeated` are liveness properties: a
  phone does not wait for ever for an answered request, and who was approved
  gets into the session.

**`subscription`.** A screen and the job are two confirmations of one charge;
two charges are two payments that extend one after the other; three instants
reach from a charge through its expiry to the next phase. Two faults are an
error between the milestone and the commit, and another on the retry.

- `ImplementsLedger`: the rows implement `TenantLedger`. A step that changes an end without
  a credit, as a rollback that keeps what a settlement wrote would, is what no other
  property here sees. That a credited tenant may serve at once (`PaymentServes`)
  follows from the size of a credit and is proved only.
- `EveryPaymentExtends` names its exception: a settlement of *another* charge
  of the tenant that commits between this one's read of the end and its write. Then a cycle is
  lost, which the code allows (it takes two payments of one tenant in the same second) against
  BR-20, by which whoever pays early loses no days (`business-rules.md:98`). `ImplementsLedger` permits it too.
- `PaymentsAreCredited` is a liveness property.

**`supporting_parts`.** Ten parts in one run. They share no variable, so a
behaviour picks one part at the start (`chosen`) and is a behaviour of that
part's own specification: the states of the parts add up and do not multiply.
Each part keeps its types (`SupportingTypesOK`).

| Part | Bounds | Properties |
|---|---|---|
| StaffAccounts | 2 tabs, 2 restaurants, 2 devices, 2 rotations, 1 reset; see below | `DevicesFallWithThePassword`, `SignedOutForCause` |
| Members | 2 restaurants, 2 users, 2 slugs; see below | `ActiveMembersCanSignIn`, `LastAdminFallsToAStaleToken` |
| CampaignLinks | 3 links, one of them without a code from before, 2 tabs, 2 codes to try | `PrintedCodesLead` |
| Acquisition | 2 restaurants, 2 kinds of arrivals, 1 spending | `CampaignIsRemembered`, `ReportLosesNothing` |
| TableAccess | 1 phone that may lose its cookie, 3 requests, 4 minutes, limits of 2 | `RejectedTwiceIsQuiet`, `TableIsNotFlooded` |
| SlidingWindow | limit and window of 2, clock to 8 | `NoWindowOverflows` |
| TableCards | 2 tables, 2 administrators, 4 tokens | `NoCardIsForgotten` |
| StaffPresence | 2 panels, 2 phones, a grace of 2 instants of 6 | `TwoAnswersAgree` |
| Catalogue, CartOrders | 2 categories, 2 products, 2 editors; 2 carts of up to 2 each, 1 answer lost | `ProductsKeepTheirCategory`, `MenuAgreesWithOrders`, `OrderedTwiceOnlyUnanswered`, `NothingLeavesUnordered` |
| StaffPanel | 2 sessions, 1 request, 1 order, 2 reloads at once | `EveryRequestRings`, `CloseWarns` |

Four parts are cut down so that the run ends in time. `AccountsNext` (`Working`) has access to
restaurants lost and devices expire while one tab calls at a time and no password is reset, with one
device whatever goes wrong, and with two as long as nothing does and no second factor is made; and has
tabs overlap, answers lost and passwords reset while the account works for one restaurant
and has no second factor. `TeamsNext` lets one
restaurant do everything; once a second is opened there is at most one live token and one invitation
being accepted at a time, and none of the two is blocked. `CartNext` lets the
catalogue move freely as long as no phone is there, and once it is stocked lets the phone come,
while areas and products open, close and go, but no category is made or
moved. `PanelNext` lets reloads overlap or fail during the first visit, before anything
is ordered, and leaves one reload at a time afterwards, and lets dialogs and bills come up as long as nothing was
requested. `StaffAccountsSpec`, `MembersSpec`, `CatalogueSpec`, `CartOrdersSpec` and `StaffPanelSpec`, of which the theorems speak,
have no such limits.

## Fairness

Two specifications state fairness, and only of what the code itself repeats.

- `BillingFairness`: the interval timer calls the job again and again, and a
  call that is under way goes on to its next step. Nothing is assumed of people,
  of the provider's customers or of the clock. Errors and crashes are bounded by
  `MaxFaults`; `PaymentsAreCredited` would be false of a provider that always
  fails. A payment that arrives after the code has expired, or that the job could not
  see in time, is not promised anything, and the property says so (`Payable`).
- `LiveUpdatesFairness`: the publisher's interval timer, the phone's three-second
  poll while it waits, the arrival of the oldest answer under way, and a customer
  who opens the page again after closing it (the last only matters for phones that were
  closed). Sockets need not ever connect: polling alone must suffice, and does.

The other specifications have none: handlers are called by people, and
nothing says they will be.

## Where the code and its documents disagree

Each of these has a run whose counterexample is the interleaving described.

- **A cancellation overwrites an acknowledgement** (`order_final`,
  `order.service.ts:169`). `cancel` reads `submitted`; `acknowledge` commits;
  `cancel` updates by id. The order was entered in the restaurant's own system
  and is cancelled. `state-machines.md` has no transition out of `acknowledged`.
- **A bill is acknowledged and not requested** (`bill_withdrawn`,
  `session.service.ts:226`). `cancelBill` and `acknowledgeBill` both read a bill
  that is requested and not acknowledged, and both write. The comment at line
  219 and BR-18 allow a withdrawal only before the staff confirms.
- **An order waits for ever** (`waiting_order`, `session.service.ts:436`). A
  device orders in an inactive session; the staff closes the session; the staff
  opens the table by hand. `openByStaff` expires the request to resume and leaves
  its order `pending_confirmation`, although the other two ways to end a request
  cancel it (`state-machines.md:42`).
- **A disabled table serves** (`disabled_table`, `tables.service.ts:57`).
  `update` finds no live session and waits for the row that `openByStaff` holds;
  then it deactivates the table that was just opened. `flows.md:75` blocks this.
- **Transactions that wait for each other's connections** (`pool_exhausted`,
  `billing.service.ts:225`). `settle` writes the milestone from inside its
  transaction, on a second connection of the same pool. When as many
  transactions as the pool has connections are at that call, none can go on. The
  comment at `acquisition.service.ts:60` says that waiting there "não arrisca
  nada". The run has a pool of 2 for 2 settlements; the real one has 10. The
  first order of a customer makes the same call (`order.service.ts:133`).
- **A request that no button approves** (`stuck_request`, `staff/page.tsx:411`).
  A waiter's order wakes a session while a request to resume it waits. The
  card offers a resolution only for an inactive session, and the server refuses
  an approval without one. The operator can only reject it, or let it expire;
  `state-machines.md:30` has it approved with one of two resolutions.

Met while reading, without a run (paths as above; the web client's below
`src/apps/web/src`):

*Of the table service.* The daily closing job (PDR-013) and its reason
`daily_auto` (`state-machines.md:20`, `types.ts:8`) are not implemented.
`approve` with a new session closes the old one without the check of `close`, so
that submitted orders, and a request to resume, stay in a closed session.
`setParticipantName` updates before it looks at the status, so a name can be set
after closing erased it (`session.service.ts:257-268`). A wrong PIN is
counted in the transaction that then throws, so that the count never stays and
no PIN is ever locked (`session.service.ts:161`). `service-request.ts:31`
says that a blocked device never notifies anybody, but the request to resume of
`order.service.ts` looks at no block. Two deliveries of one order that are both under way miss the
idempotency key, which is read before the lock; the primary key refuses the second
(`order.service.ts:30,39,137`), which gets an error where the comment at line 29 promises the same
answer. The expiry job, or a cancellation, between the two steps of an approval settles a request that the approval
then overwrites (`session.service.ts:372`), its order cancelled and its expiry announced, where
`state-machines.md:28-33` approves only a pending request and BR-05 asks that it still be pending.

*Of identity and accounts.* The revocation of the family of a reused refresh
token is undone by the exception that follows (`auth.service.ts:151-156`). A login
checks its password outside of the transaction that inserts the device, so that a
login may outlive a reset of the password it was made with. `members.update` can
make an invited member active who has no password: the invitation is then no longer accepted
(`members.service.ts:91`), and only the link that resets the password lets the member in. `setup` and `enable` of the
second factor look at the account and write by its id: a set-up that has looked before the confirmation
leaves an enabled secret of which no code was ever asked, where the comment of `totp.service.ts:13` has it enabled only
after a valid code. Any answer to a refresh that is no success, an error of the server too, signs the browser out (`api.ts:38-41`).

*Of billing and acquisition.* `confirmPendingCharges` looks only at charges that
are not expired, though a Pix may be confirmed late; the comment at
`billing.jobs.ts:8` speaks of expired charges "sem pagamento". `acquisition.service.ts:118-125`
says that a code may not cost the link; when two tabs create one link, each
insertion of the second violates the index on identity, also the last one, and
it ends with an error. Every error, and not only that of an index, moves a tab to the next code (`acquisition.service.ts:117`):
tabs A and B find a link without a code, A fails for another reason at the first code, B is given it and prints it, and A
overwrites it by id with the second. The printed code then leads nowhere, and another link may be given it, against
BR-23 (`business-rules.md:132`: a code is never used again for another link). `classify.ts`
says that internal navigation returns null, and it returns a direct touch.

*Of the catalogue.* `deleteCategory` looks for products that are not deleted, but
the foreign key holds for deleted ones: a category that ever had a product cannot be
deleted. Products of an inactive category are hidden, and still sold to
a cart that has them.

*Of the phone.* Each press sends a new idempotency key (`menu-view.tsx:207`), so a
press after a lost answer, or after the reload that `catalog.changed` forces on a page
with an order under way, orders twice. `menu-view.tsx:221` removes
rejected products one unit at a time from the lines captured at the press, and
only the last of these calls stays, though the message (`pt-BR.ts:64`,
`docs/09-ux/copy.md:40`) says they were removed. `validateOrderLines` rejects an order of more
than a hundred lines as a whole under the name `*`, but no request reaches it: the schema refuses it first
(`src/packages/contracts/src/order.ts:13`). The cart keeps the prices of the moment something was put in
(`cart.ts:36`). `realtime.ts:13` asks for a polling fallback,
and a phone in a session has none. A closed session's notice has no button. After
an approval and a lost answer about the session the phone goes
back to browsing.

*Of the panel.* Failures are counted for each reload, and overlapping ones
reach three sooner than three cycles (`staff/page.tsx:51,119`). Only one of several
newcomers of different kinds is announced, and the others are marked as seen
(`86-97`). An older answer applied after a newer one rings again. A forced
close cancels the orders that are unacknowledged by then, which may be more than the dialog
counted. A request's card shows the first waiting order of the session
(`220`), whichever request it is of. A logout that does not reach the server
leaves the cookie, and the staff pages sign the browser in again (`staff-shell.tsx:44`).

## Proofs

Forty-four theorems, for every value of the constants.

| Module | Theorem | States |
|---|---|---|
| `TableServiceProofs` | `LockProtectsAlways` | `Spec => []LockProtects`, the inductive invariant |
| | `TypesAlwaysOK` | `Spec => []TypeOK` |
| | `LockedReadsHoldAlways` | `Spec => []LockedReadsHold` |
| | `OneLiveSessionAlways` | `Spec => []OneLiveSession` |
| `TableServiceStepProofs` | `ClosedSessionIsFinalAlways` | `Spec => ClosedSessionIsFinal` |
| | `StaffAnswerIsFinalAlways` | `Spec => StaffAnswerIsFinal` |
| | `HandlersImplementSlots` | `Spec => ImplementsSlots`, the refinement of `TableSlots` |
| `TableOrdersProofs` | `OrderOwnerTakesPartAlways`, `OrdersAreDistinctAlways`, `AnswerSettlesOrderAlways`, `ApprovedDeviceTakesPartAlways` | `Spec => []...` |
| | `CloseLeavesNothingUnacknowledgedAlways` | `Spec => CloseLeavesNothingUnacknowledged` |
| `LiveUpdatesProofs` | `OnlyEmittedIsMarkedAlways`, `ClosedSessionIsSeenAlways`, `LiveUpdatesTypes` | `LiveUpdatesSpec => []...` |
| `BillingProofs` | `CreditedOnceAlways`, `PaidMilestoneMeansMoneyAlways` | `BillingSpec => []...` |
| | `PaymentServesAlways`, `EveryPaymentExtendsAlways` | the two action properties |
| | `BillingImplementsLedger` | `BillingSpec => ImplementsLedger`, the refinement of `TenantLedger` |
| `StaffProofs` | `DevicesFallWithThePasswordAlways` | `StaffAccountsSpec => []DevicesFallWithThePassword` |
| | `SignedOutForCauseAlways` | `StaffAccountsSpec => SignedOutForCause`, an action property |
| | `ActiveMembersCanSignInAlways`, `LastAdminFallsToAStaleTokenAlways` | `MembersSpec => ...`, the second an action property |
| | `TwoAnswersAgreeAlways`, `StaffPresenceTypes` | `StaffPresenceSpec => []...` |
| | `EveryRequestRingsAlways`, `StaffPanelTypes`, `CloseWarnsAlways` | `StaffPanelSpec => ...`, the last an action property |
| `CustomerProofs` | `ProductsKeepTheirCategoryAlways`, `MenuAgreesWithOrdersAlways` | `CatalogueSpec => []...` |
| | `OrderedTwiceOnlyUnansweredAlways`, `NothingLeavesUnorderedAlways`, `CartStaysWithinLimits` | `CartOrdersSpec => ...`, the second an action property |
| | `RejectedTwiceIsQuietAlways`, `TableIsNotFloodedAlways` | `TableAccessSpec => []...` |
| | `NoWindowOverflowsAlways` | `SlidingWindowSpec => []NoWindowOverflows` |
| `SupportingProofs` | `NoCardIsForgottenAlways` | `TableCardsSpec => []NoCardIsForgotten` |
| | `PrintedCodesLeadAlways` | `CampaignLinksSpec => []PrintedCodesLead` |
| | `CampaignIsRememberedAlways`, `AcquisitionTypes`, `ReportIsComplete` | `AcquisitionSpec => ...`, the first an action property |
| | `RunIsOfItsParts` | `SupportingSpec => ...`, the specifications of all eleven parts |
| | `SupportingTypesAlwaysOK` | `SupportingSpec => []SupportingTypesOK` |

**Assumptions**, each in the module that declares its constants and evaluated by
every run of it: bounds are natural numbers, and the value for "none" is none of the
proper values. Beyond that `BillingAssumption` has a positive cycle for each plan, a job that is no worker, and
finitely many tenants (their number is counted when charges are inserted);
`StaffPresenceAssumption` a positive period of grace; `CampaignLinksAssumption` at
least one code to try; `TableAccessAssumption` a block after one rejection or two, `SlidingWindowAssumption`
a window and a limit that are positive and lists that are not swept before their window is over.

### The table service

**Argument.** `LockedReadsHold` says something of a transaction that has
decided and has yet to write. It is not inductive by itself: that the index is
still free when `w` writes depends on nobody else having written to the same
table, which holds because `w` has the lock; and that the session it decided on
is still live depends on every handler that closes a session having the lock
too. `LockProtects` says all of this:

- the rows are well formed and participants distinct, and no table has two live sessions;
- `PlanWellFormed(w)`: what `w` keeps fits its handler;
- `LockHeld(w)`: a handler that locks has the lock of its table, once it has decided;
- `SessionHeld(w)`: the session it decided on is live and of that table;
- `IndexesFree(w)`: its inserts meet no row of the indexes whose rows it read under the lock.

A step of `w` on table `t` keeps the part of any other `v` for one of two
reasons. Either the step takes no lock, and then it adds no row and ends no
session (`AsideKeeps`: the bill, names, acknowledgements, cancellations and the
jobs), or it holds the lock of `t`, so that `v` works on another table or does
not hold a lock, and the step changes only rows of `t` (`Untouched`, and
`EndKeeps` for the commits). For `w` itself each commit gives its row and ends,
and each beginning reads what it then claims (`BeginKeeps`). There is one lemma
per action and `NextProtects` puts them together.

`ClosedSessionIsFinal` follows step by step from `SessionHeld`: whoever adds a
participant or an order, or makes a session active, decided on a session that is
still live. `StaffAnswerIsFinal` needs one more invariant, `AnswerOpen(w)`: the
request that an approval under way is about is pending or moot (expired,
cancelled), never answered. It is preserved because every answer takes the lock
of the request's table, which the approval holds; the job and the cancellation
take none, but they only make a pending request moot. What a step does to a request is one of four things
(`RequestStep`), and a moot one is answered only by the approval that is about it.

**Orders.** `OrdersInv` adds what is true of the orders and of the requests that hold
them, and what the plan of a handler knows of them (`PlanRight`). An order that was
placed is in a session that exists; a request that holds one is at the table
of that session, and no other request holds it (`LinksOK`). An approval under way has
the device and the order of its request as they still are, an order on its way a
participant of its session, a cancellation an order that exists. Then:

- the number of an order that enters or moves is free, because its table is locked
  by whoever has counted (`IndexesFree`), and its owner is a participant of the new
  session, because the approval that moves it admits the device in the same commit;
- a rejected order stays cancelled, because an approval that would submit it has the
  lock that the rejection waits for (`AnswersOpen`). Nothing else makes
  a cancelled order anything else: `acknowledge` is conditional, and `cancel` by id
  only cancels once more;
- a close has found all orders that are unacknowledged in its session, and none
  enters until it commits, as every handler that adds one has the lock of the table: so
  the set it cancels contains what is left (`PlanRight` for `close`), and what was acknowledged or
  cancelled without a lock in between only makes that set smaller.

**The refinement.** `ServesRight` frees `Serving` of its `CHOOSE`: a table
serves a session exactly if that session is live and of that table, which needs
`OneLiveSession`. With it every way in which a step changes the sessions and participants is one of
`SlotsOpen`, `SlotsClose`, `SlotsReplace`, `SlotsAdmit` or `SlotsStutter`; which
one a commit is, and that the guard of the abstract action holds although the decision
was taken earlier, is what `LockProtects` says of its plan. Everything that takes no
lock is a stutter.

### The other parts

*Billing.* `BillingInv` says that a call in the middle of a settlement has found
its charge pending and paid for, that no two calls are settling the same
charge (`OneSettles`, the row lock), and that a charge is credited exactly when it is
paid (`CreditsRight`); `RoomKept` keeps the inserts of concurrent callers within the
bound of the rows. A charge never becomes pending again, so the write by id of
`ExpireVerified` cannot make a second settlement possible; it waits for the row lock,
and `CreditsRight` allows an expired charge either count. For the action properties
`DatesRight` remembers that the new end a settlement has computed is a whole cycle from
now and from the end it was computed from. The refinement follows step by step: four
actions are steps of the ledger (`InsertsAreIssued`, `PaymentsAreReceived`,
`SettlementsAreCredits`, and the tick), and the others write what it does not show, statuses
(`WritesKeepBills`), a chosen plan (`ChoiceKeepsEnds`) and the phases of calls. That a
settlement finds its bill uncredited when it commits, although it looked long
before, is `CreditsRight` and the row lock; that its end is still a whole cycle away is `DatesRight`.

*Live updates.* A row is marked only with its batch, and `BatchIsEmitted` says that whatever of
a batch is not `unsent` was emitted; a crash empties both. `ClosedSessionIsSeen` is
inductive with `ClosingIsTrue` (an end in the outbox is the end of the session, for good): at the
emission of the end a phone in a session is in the room and leaves, or is not and has missed
it; and any answer that brings a session back after that says "open", which is
what `Overtaken` calls it. That only such answers bring one is `AnswerApplied`, over
all kinds of calls. `SoundCalls` and `SoundScreen` are what types need:
answers and screens name requests that exist.

*Accounts.* A browser loses its session only for cause because, while calls do not
overlap, no answer is lost and the server does not fail, the secret of its cookie is the one
the server holds, or the answer that carries that one is on its way (`Undisturbed`); so a refusal is
for one of the other reasons of the server (`CauseToRefuse`), which were there when it refused:
`Own` says that the cookie the call was sent with is the browser's, or that this has expired.

*Members.* `PasswordlessAreInvited`: an account without a password was made by an
invitation, and only what stores a password takes an invitation away. The proof did not go through for
the property as it stood, which excused only an invitation by the same
restaurant, and rightly: the platform may create a second restaurant for an account
that only an invitation has made (`platform.service.ts:95-112`), and its active
administrator then has no password. One restaurant, the bound of the run until then, could not show
it. The property now says "an invitation by some restaurant", and the run has two.

*Carts.* `CartInv`: orders of a cart are at most the answers that were lost and the one that
came (which empties the cart) or is under way.

*Access.* `LaterAsksFindNoneWaiting`: a device never has a request that waits and a
later one, so two rejections of it precede whatever it asks next;
`BlockedAfterTwo`: the second of two rejections within the window has left the block that this request meets.
The limit of a table is counted at each insertion over a window that contains whatever older window
the new request could be in.

*Windows.* `PassedIsListed`: a hit that was let through is in the list for as long as its window
lasts, because a list that is swept has been idle for longer (`Window <= SweepAge`); so each hit that
passes has counted all those of its window.

*Acquisition.* Only the two cookies matter, and a visit writes the first
where there is none and the last unless it is direct (`CookiesStep`).

*The report.* Its lines are the groups of the restaurants whose origin is known, and of
the spendings, under one set of keys; that nothing is lost says that the sums over
the groups add up to the sum over all (`TotalOfGroups`). The sums are folds over finite
sets, whose definition chooses an order. `TotalAddsUp` shows that the order does not matter: a sum
is whatever grows by the value of each element that joins the set, and there is exactly one
such function (`SumsExist`, `SumsAgree`). Induction over the sets is by a least counterexample
(`MinimalSubset`, `LeastNumber`), because the library's induction rules take an
operator, which the provers cannot supply. `AcquisitionInv`: finitely many restaurants have an
origin at any moment, though nothing bounds how many there may be.

*Cards.* `CardsInv`: a card that is not its table's any more is revoked, tokens are issued once.
A rotation that has read a token writes only if nobody else has revoked it.

*Links.* A row that was inserted with its code keeps it, because only rows that had none are
updated (`FoundAreLate`). That a link from before there were codes keeps its first one is
written nowhere: the update by id overwrites whatever is there. As long as no attempt for
such a link has failed by a fault it follows from the order in which codes are tried (`LowerAreTaken`,
`TriedAreTaken`): every code below the one that a link has, or that a tab
is about to try for it, belongs to another link, so two tabs end at
the same code. After such a fault it is false, and the property says so.

*Presence.* `PresenceInv`: the count of sockets is their number, and the timer runs
exactly in a period of grace that was announced as online. The types follow from
it: without the count, a disconnection might bring it below zero.

*Catalogue.* `RowsOK`: the foreign key, at both of its ends, keeps every product's
category whatever the editors looked at.

*Panel.* `RingsInv`: what the next answer is compared with has rung, so nothing
can be shown in silence, in whatever order answers come. The types are not inductive
by themselves: an order is written with the number of the session, so one that is alive has to
have a number, in the table and in each copy that a reload has read (`Numbered`). `OnlyCloseEnds`: a close
with what the dialog said is the only step that ends a session.

### The parts in one run

The run `supporting_parts` checks the properties of ten parts under the one specification
`SupportingSpec`. `RunIsOfItsParts` says that this is no shortcut: the bounds that the run puts on
four of the parts restrict their steps and add none, so each behaviour of the run is one
of every part (`StepsOfParts`), and what is proved of a part holds in the run.
`SupportingTypesAlwaysOK` is the type invariant that the run checks, from those of the parts.

**Only model-checked:** the three liveness properties (`PaymentsAreCredited`,
`WaitingCustomerLearns`, `ApprovedCustomerIsSeated`): liveness under fairness and
`ENABLED` are out of the prover's reach. Every invariant, action property and
refinement that a passing run checks has a theorem.
No module declares a `RECURSIVE` operator.

## What is not modelled

- Wrong PINs: their counters are written in the transaction that then throws,
  so that no state ever has one. PINs are drawn at random and encrypted.
- Refusals for billing, an absent staff, a block or a full window inside
  `TableService`: there they are steps that do not happen. The parts that decide them are
  modelled apart.
- Edits of one row that nothing else decides on: branding, names, prices, sort
  orders, photos.
- HTTP: routes, guards, validation, mapping of errors. Storage, e-mail and QR
  cards: input and output only. Contracts: schemas without behaviour.
- Row level security and migrations: isolation of tenants is a property of
  policies of PostgreSQL, which no module here has.
- The pages of the web client beyond the phone's and the operator's: forms over
  the API. The rooms of the staff, of which the panel's reloads at any time are the
  effect.

## What could come next

The bill, acknowledgements and the deactivation of tables have no theorem: what the code promises
of them is what the runs refute. Next are positive statements about what does hold there
(what a withdrawal and an acknowledgement of a bill leave behind), a refinement for
the part that has none yet (the outbox as at-least-once delivery), and the staff's rooms and the panel's socket composed with the publisher.
