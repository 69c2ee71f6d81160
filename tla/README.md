# TLA+ model of the NestJS authentication server

The repository is an authentication server: NestJS controllers and services
over a database (Prisma, users/roles/permissions/tokens/templates), Redis (the
login limiter and the mail queue) and SMTP.  One Node process serves many
requests; the code between two `await`s runs alone, and between them any other
handler may run.  There are no transactions and no locks, so every "read the
row, change it, write it back" is a race, and every check is stale by the time
it is used.  This directory models the parts where that matters, checks them
with TLC on small instances and proves the main results with TLAPS.

Paths below are relative to the repository (`src/src/auth/auth.service.ts` is
`src/auth/auth.service.ts` of the server).

## Components

| component | state | operations | what makes it hard | correct when | model |
|---|---|---|---|---|---|
| login throttle (`auth.service.ts` login, `auth.module.ts`) | points per `username_ip` key in Redis | login (get, verify, consume, delete) | check before the password, charge after; store failures; expiry | a key yields a bounded number of verdicts; blocks end; every login is answered | `LoginThrottle`, abstract `LoginBudget` |
| accounts (`auth.service.ts`, `auth.controller.ts`) | rows of `users` | register, create, activate, reset, update, 2FA toggle, forgotPassword, changePassword | handlers write back whole rows read several awaits earlier; random codes looked up before they are stored; lost replies | overlaps aside, a handler changes its own columns only; a block stays; tokens are unique | `Accounts` |
| refresh tokens (`refresh-token.service.ts`) and cookies | rows of `tokens`; the cookies browsers hold | login with `remember`, refresh, logout, revoke by id, list | a session ends while a refresh is under way; answers overtake each other or are lost; errors swallowed | closed for good; granted only if open when asked; only owner or holder closes | `RefreshTokens`, abstract `Sessions` |
| second factor (`twofa/`), JWT guards (`guard/`, `jwt.strategy.ts`) | secret, throttle time and flag on the user row; a mark in the access token | toggle, authenticate, both guards | the guard's stale record is written back over the new secret; mail before write; a mark outlives what it proves | nobody passes who had something to prove and did not; the factor is turned off by its toggle only | `TwoFactor`, abstract `SecondFactor`; the toggle's effect on token and password in `Accounts` |
| roles, permissions, permission guard | rows of `roles`, `permissions`; routes in `permission-config.ts` | CRUD, `whereInIds`, `syncPermission`, assignment of a role, `canActivate` | the guard's three reads; callbacks nobody awaits; a promise tested instead of its value; a rejection nobody handles ends the process | a verdict of the guard is right for some moment at which it looked; rights come from the seeding and change only by the hand of who may change them | `RolesPermissions`, abstract `Authorization` |
| e-mail templates (`email-template.service.ts`) | rows of `emailsTemplate` | create, update, remove, lookup by slug | check-then-write titles; slugs derived from titles; a flag read in one step and relied on in another | the templates mails name stay | `EmailTemplates` |
| mail (`mail.service.ts`, `mail.processor.ts`) | Bull queue | sendMail, job processor | template missing, queue down, worker ends with a job | a stored account gets its mail; a queued job comes to an end | `EmailTemplates`; which link is mailed in `Accounts` |
| repository, pagination (`base.repository.ts`) | none | create, update, find..., paginate | rows and total are two calls; rows skipped taken for a page number; errors swallowed | a walk along `next` goes on, ends and shows what was asked for | `Listing`; single calls are steps of the other modules |
| query builder, server (`query-buider-backend`) and client (`query-buider-frontend`) | none (pure) | query, filter, populate, select, sort, paginate; parse | conditions replaced by path; alternatives thrown together; `all` met half way; a type computed again after each key | the rows found are those the client meant | `QueryBuilder`, `QueryString`, `Listing` |
| validation pipe, exception filter | none (pure) | transform, translate | - | each error gets a translated message | not modelled: wording only |
| seeding (`prisma/seed.ts`) | all tables | permissions, roles, templates, administrator | unawaited inserts and two sleeps | the administrator has the role with every permission | initial states of `RolesPermissions` and `EmailTemplates`; the script itself is not modelled |
| global throttle, bootstrap, configuration, logging | none of their own | - | - | - | not modelled: wiring of libraries |

The components meet in three ways.  The controllers call the services, which
call one another (login uses accounts, limiter and refresh tokens; create uses
accounts, roles and mail).  Handlers share rows: activation, reset, update and
the two-factor toggle write the same row of `users`; refresh, logout and
revocation the same row of `tokens`.  Guards read the user with its role before
a handler starts and pass it on as `request.user`, and two handlers write that
object back.  The deletion of a role empties `roleId` of users; the creation of
an account looks a template up by slug and adds a job to the queue.

## Modelling conventions

* One action is one continuation: from the answer of the call a handler awaited
  to its next call or its reply.  `pc[r]` names the await.  A request slot is
  reused, so `Requests` bounds how many requests are in flight at one time.
* Reads and writes of one row are atomic; nothing else is.  Any call may reject
  without effect (`CallFails`), and a write may take effect while its reply is
  lost (the `"failed"` alternatives of the writing actions).
* Prisma's `update` lays the columns of `data` over the row.  It refuses some
  data altogether: on MongoDB an `id` among the columns, and a nested record
  such as the `role` in `request.user`, which the two-factor toggle writes back.
  The modules keep both outcomes, so what they say of these writes holds whether
  the installed version refuses them or not: the refusal is among the outcomes
  of `CallFails`.  `@unique` is enforced when a row is written.  A query that
  names an unknown column is rejected.
* The limiter's `consume` counts and answers atomically; a key that passes its
  points is blocked, and the count of a blocked key ends only by expiry or by
  `delete`.
* A query that includes relations (`role`, `role.permissions`) is one read per
  table.  A promise that rejects without a handler ends the process (Node 15 and
  later), and every request under way with it.
* Users are never deleted (no route does), refresh-token rows neither.
* Passwords, codes and ids are members of small sets; formatting and hashing
  are left out, except that verification compares for equality.

## Modules

### LoginThrottle, LoginBudget

`consumed[k]` is the counter of a key in Redis, `running[k]` whether its time to
live has still to pass; `pc`, `key`, `remember` and `answer` are the locals of
each login.  `Begin`, `RefuseBlocked`/`PassCheck`,
`Verify`, `Charge`/`ChargeFails`, `IssueRefreshToken`, `DeleteKey` and
`CallFails` follow `login` line by line.  A time to live starts with the first
point and once more with the block (`Count`), passes (`Elapse`) and takes the key
with it (`Expire`): an attempt that started it anew could keep a key blocked for
ever, which is what `BlockEnds` is about.  `Verify` takes any outcome of `verifyUser`: the throttle has to hold for
every user table.  `LoginBudget` is what the throttle is for: a verdict ("wrong
credentials") costs one unit of a budget of `Limit`, refusals tell nothing.

The refinement maps `spent` to `consumed` capped at `Limit`.  It holds although
the limit is overshot: the charge is atomic and a login is told "unauthorized"
only if its own charge was within the limit.  What does overshoot is the number
of passwords verified, and `OvershootBounded` says by how much.

### Accounts

`users` is the table (status, token, validity date, password).  `copy[r].doc`
is the row a handler read and will write back; `copy[r].req` is `request.user`.
`overtaken[r]` is not in the code: it marks which of these objects are older
than the last write of their row, so that the properties can tell a race from a
handler that misbehaves alone.  `mailed[u]` is the link of the mail queued when
`u` was created.  Time counts hours up to `MaxTime`.

`FindByToken`/`RefuseToken` are the lookups of `activateAccount` and
`resetPassword` with their checks; `LookupToken` is `generateUniqueToken`,
result of the inner call dropped as in the code; `NormalRole`,
`NormalRoleMissing`, `InsertUser`, `MailCreated` are `create`; `LoadUser`,
`RefuseUpdate`, `UpdateUser` are `update`; `GuardTwoFa`, `RefuseAtGuard`,
`ReloadForSecret`, `WriteSecret`, `WriteToggle` are the two-factor toggle;
`ForgotPassword` and `ChangePassword` are what those two handlers come to.

The token of an activation is a query parameter that nothing validates: without
it the lookup has no condition and finds any row (`Matches`), so that `GET
/auth/activate-account` may activate an account whose mail it never saw.  The
other routes validate their bodies, and requests carry what these ask for.  The
administrator the seeding creates has neither token nor validity date; the
model starts from an empty table and gives every row a token.

### RefreshTokens, Sessions

`tokens` is the table, `expired` the ids whose JWT has grown too old, `jar` the
cookies of each browser, `reply[r]` the `Set-Cookie` headers on their way.
`Decode`, `ReadRow`, `ReadUser` are the three awaits of `resolveRefreshToken`,
shared by refresh and logout; `ReadById`/`RefuseById`/`WriteRevoked` are the
revocation; `SendFailure` is what each controller makes of an error (login and
revoke pass it on, refresh empties the cookies, logout answers 204 all the
same).  `Deliver`, `Lose` and `Jarred` are the browser and the network and are
external.

`Sessions` is the promise: a session is opened once and closed for good, and a
refresh is granted only if its session was open when the refresh was asked for.
The mapping takes a token to "open" while its row is not revoked and its JWT not
expired; `wasOpen` records the session's state when a request began, for the
properties only.

### RolesPermissions, Authorization

`roleOf`, `roles` and `permissions` are the three tables; an operation stands
for its route, which is what a permission row opens.  `ReadUser`, `ReadRole` and
`Decide` are the strategy's query, table by table, and `PermissionGuard`; the
handlers follow the services.  Three things of the code shape it.  `whereInIds`
hands its lookups to nobody and returns an empty array, so `InsertRole` stores
no permission.  `PermissionsService.update` tests a promise and refuses
everything.  `syncPermission` answers while its inserts are still to come
(`syncing`).  `FloatingSettles` and `FloatingRejects` are what becomes of a
lookup nobody awaits.  (`InsertRole` passes an empty list where Prisma expects a
nested write.  A version that refuses it stores no role at all, which is
`CallFails`; either way no role is stored with a permission.)

`roleOf` has more writers than the route that assigns a role: `activateAccount`
(`auth.service.ts:354`), `resetPassword` (`:621`) and the two writes of the
two-factor toggle (`:818`, `:860`) write back the whole row they read, `roleId`
included, on routes without the permission guard.  `copies` is what such handlers
hold, `ReadRow`, `WriteRow` and `DropRow` are what they do to this table; the rest
of them is in `Accounts` and `TwoFactor`.

Inputs are those that pass validation: `CreatePermissionDto` does not list PUT
among the methods, so no permission for an update can be created, and the
permissions of a role are validated as numbers, so their ids are undefined and
a lookup finds any row or none.  `Seed` names the rows the seeding creates.
`sight` is not in the code: it records whether the user had, and whether it
lacked, the right at some moment since the request began, until the verdict.

`Authorization` is the promise, without tables: who has which right, what each
request asks for, who was let past and who was told "forbidden". By the hand of a
request rights change in two actions only, `Assign` (of the user the request
names) and `Withdraw`, and both belong to a request that was let past, which in
turn had the right at some moment since it asked. The third way is `Restore`: a
user's rights go back to what somebody has read of them, if that was read while
they were the user's, and less what was withdrawn since (`Keep`). So a role an
administrator took away may come back by a handler still under way, a role the
user never had may not, and neither may a permission that was removed. The
refinement maps `kept` to what the roles in `copies` open now, a right to the
three tables read at once (`rights`), `view` to `sight` while the guard looks,
`passed` to the requests in a handler. Rows that are created, lookups that come
too late and processes that end are then steps in which no right changes, which is
not obvious of any of them.

### EmailTemplates

`templates` is the table (title, slug, default flag), `accounts` the users
stored so far with the slug their mail is asked for by, `mail` the job of each.
`InsertTemplate`, `FindToUpdate`, `FindTitle`, `WriteTemplate`, `FindToRemove`
and `DeleteTemplate` are the routes.  An update finds any row of its title, also
its own, so a template can be updated only together with its title; and since
the slug follows the title, such an update takes the slug from whoever held it,
default or not.  `InsertUser`, `FindBySlug` and `AddJob` are the creation of an
account from the insert on: a missing template is an exception (its body is
read before it is tested), a queue that is down an answer nobody reads.
`TakeJob`, `SendEmail` and `Restart` are the worker; the queue has the library's
settings (one attempt, one job at a time, a job of a worker that ended given out
once more).

`touched` and `unlucky` are not in the code: the slugs an update took from a
default template, and the accounts whose creation met a call that failed or a
process that ended.

### TwoFactor, SecondFactor

`users` holds what the second factor bears on: the status (active or not),
`twoFASecret`, `twoFAThrottleTime` and `isTwoFAEnabled`; inactive and blocked are
not told apart, what an activation makes of a blocked account is a call that
fails.  `sessions` are the users with an open refresh token, `tokens` the access
tokens issued with their mark.  `Guard` is the strategy's read of the user,
`Admit` the decision of the two-factor guard, `CheckCode` and `Reply`
`authenticate`, `DrawSecret`, `Reload`, `WriteSecret` and `WriteToggle` the
toggle, `Verify`, `OpenSession` and `Resolve` the other two ways to an access
token, `Find`/`WriteBack` and `WriteStatus` the other writers of the row.  A
guard does no call after its decision, but the queries for role and permissions
leave time between the read of the row and the decision.

`copy`, `overtaken` are as in `Accounts`; `fresh[r]` is the secret and the date a
toggle drew.  `may[r]` is not in the code: it records that what the request asks
for was due at some moment since it was sent.  `SecondFactor` is the promise,
over any changes of the factor: who is let in had nothing to prove or carried a
proof at some moment of the request, and a proof is given only for a code of the
secret stored at some moment of the request.

### QueryBuilder, QueryString, Listing

`QueryBuilder` is the server, operators only: what the validation lets through
(`Valid`), what the database takes (`Fits`), which rows a filter selects
(`Selected`), `Skip`, `populate` and `select`.  `QueryString` is the client:
`FilterParse`, `getType` and `FilterResolver` turn the filter somebody wrote into
the conditions sent; `Means` is what was meant.  A value is its kind and a
number; strings that differ in case only are two neighbours.  Three operators
stand for the fifteen, which differ in what meets them only.  A condition keeps
what decides its way: its group, the entry it stands in and its form (shorthand,
with keys after the value, or an address put together by hand).

Where the code surprises, the operators follow it.  Conditions without a group
are one object by path, so a later one replaces an earlier one (`Kept`).  All
lists of alternatives become one `OR` (`Selected`).  A group `not` of the client
is taken for a column and rejected (`NotParsed`).  A date whose value is not the
last key is sent with the type of a string (`getType`), which the database takes
all the same.  An `all` anywhere among the relations leaves the others with their
primary keys and without their conditions, and inside a relation it may find an
object that is no longer there, which is an exception (`Relation`, `Breaks`).

`Listing` is `findAndCount` and `paginate` under a client that follows `next`
while rows come and go.  `Find`, `Count` and `FindFails` are the two calls and
what becomes of an error in either (no rows, total 0); `Paginate` builds the
query a second time, outside the `try`, so that `PaginateFails` is an answer with
an error.  The order of rows that are equal in the sort column is any order, each
time anew.  `Ask`, `Follow` and `Stop` are the client, `Create` and `Delete`
everybody else; they are external.  `matched`, `seen` and `steady` are not in the
code: the rows that met the conditions in the last call, those the walk has
shown, and whether the table was left alone meanwhile.

## Runs

| run | instance | shows |
|---|---|---|
| `LoginThrottle` | 2 keys, 2 logins, limit 2, `FairSpec` | types, `OvershootBounded`, `LoginThrottle` implements `LoginBudget`, `EveryLoginAnswered`, `BlockEnds` |
| `Accounts` | 1 row, 2 requests, 2 codes, 2 passwords, 1 tick | types, `AccountInvariant`, `NoLostUpdateAlone`, `BlockSticks` |
| `RefreshTokens` | 2 users, 2 sessions, 1 browser, 2 requests | types, `SessionInvariant`, `RefreshTokens` implements `Sessions`, `LogoutCloses`, `OwnerRevokes`, `LetInAgain`, `CookiesAgree` |
| `AccountsToken` | 2 rows, 1 request | violated: `generateUniqueToken` continues with a code in use |
| `AccountsRegister` | 2 rows, 1 request | violated: a registration is mailed the reset link |
| `AccountsPassword` | 1 row, 1 request | violated: `forgotPassword` throws with an account to serve |
| `RolesPermissions` | 2 users, 2 requests, 1 copy of a row; the routes that assign, update and remove roles | types, `VerdictsHeld`, `RolesPermissions` implements `Authorization` |
| `RolesRoutes` | 1 user, 1 request, 2 synchronisations in flight, a role and a permission to create; creation of roles, every route of permissions | `OnlySuperUserHolds`, `OnlyAssignmentGrants` |
| `EmailTemplates` | a default template and a row to create, a title of the default's slug and another, 1 account, 2 requests, `FairSpec` | types, `DefaultsKept`, `AccountsMailed`, `MailAdvances`, `MailSettles` |
| `TwoFactor` | 1 user, 2 requests, 2 secrets, 1 tick | types, `FactorInvariant`, `TwoFactor` implements `SecondFactor`, `FactorSticks`, `NewSessionNeedsActive`, `ToggleAlone` |
| `TwoFactorThrottle` | 1 user, 1 request, 1 secret, 1 tick | violated: the throttle of the toggle is taken back by the toggle |
| `Listing` | 5 rows, 2 of which come and go, some 300 queries in three families (filters, pages, relations), limits 0 to 3, `FairSpec` | types, `RelationsKept`, `WalkStands`, `MatchesMeant`, `WalkAdvances`, `EachOnce`, `WalkEnds` |

Why the bounds are enough. Every property of handlers speaks of one row and of one
handler against the rest, and what the others did to a row is summed up in the row
and in `overtaken`; two requests produce every overlap of two handlers, and more
add none of a new kind. The throttle's race needs one login past the check while
another is charged, and two free points to be spent by the two of them. Two codes
allow a fresh one and a clash, one tick of the clock a valid and an expired link,
two sessions a browser whose cookies disagree. The guard's run has two users so
that one changes what the other is allowed while the guard reads, and one copy of
a row, which an assignment or a removal may make old; the operations are split
over two runs because those on permissions multiply the states of the guard
without bearing on it. What is asked of a permission is asked of two seeded ones
and of the one created (`RoutesAsked`), as the others fare alike, and no row is
written back there: that is a change of role, which its properties leave out. That
one is removed while the guard reads is therefore in the proofs only, as is every
mixture of the two runs. One title has the slug of the default template and one a
slug of its own, so that an update can take that slug from the default or give it
back. One tick ends the throttle of the second factor, two secrets are the one
stored and the one just drawn. Five rows in pages of two reach the page after the
second, which is where the page number goes wrong; the rows a walk passes over for
good begin with the seventh in pages of three, more than the instance has, and are
left to the theorem (`ThirdPagePassedOver`). Filters of two conditions have every
pair of groups, in one entry and in two; the families are kept apart because
conditions, pages and relations meet nowhere in the code but in the query object.
The bounds on counters are `MaxTime` (the clock of `Accounts`, in hours, and of
`TwoFactor`, in minutes), `MaxFloating` (calls of one kind nobody awaits) and
`MaxCopies` (rows of users that handlers elsewhere hold); ids of roles,
permissions and templates are used once, so their sets bound how many rows are
ever created; `consumed` is bounded by `OvershootBounded` itself, and the page of
a walk by the size of the table. Symmetry is used in runs without liveness only.
No run switches the deadlock check off.

Fairness.  `LoginThrottle!FairSpec`: `WF(Continue(r))`, as Node runs a
continuation once its call has settled, and each call settles, with a value or
an error; which of the two is not assumed.  `WF(Elapse(k))` and `WF(Expire(k))`:
time passes, and Redis drops a key whose time to live is over.  Neither says that
a block ends: the fairness of `Expire` is weak and its guard is that the time to
live is over, so a refused attempt that started it anew, again and again, would
satisfy both and keep the key blocked.  `Begin` has no fairness: nobody has to log in.
`EmailTemplates!FairSpec`: `WF(TakeJob(a))` and `WF(SendEmail(a))`, as a worker
that is up polls the queue and the mail server's client ends every attempt, with
an error if need be.  Nothing is assumed of restarts, which may come between any
two steps and for ever.  `Listing!FairSpec`: `WF(Answering)`, as each call of the
database is answered or fails and the handler goes on, and `WF(Reading)`, as a
client that has an answer reads it and follows its `next`.  Nobody has to ask,
and nobody to create or remove a row.

## Proofs

All for any sets of keys, users, roles, permissions, templates, accounts, tokens,
secrets, rows, columns, queries, browsers and requests (finite requests and a
positive `Limit` for the throttle, finitely many rows for the listing).  The
assumptions are the `ASSUME`s of the modules: null values are outside the sets they extend, `MaxTime` is a
natural number, `Limit` a positive one, `Requests` of the throttle finite, the
seeding gives different operations different rows and different default
templates different slugs, a table has a column `id`, and a query asks for a
relation once.

* `LoginThrottleProofs`: `TypeCorrect`, `Overshoot`, `ThrottleImplementsBudget`.
  `OvershootBounded` is inductive together with the types: a login joins the set
  `Unsettled` only while the counter is within the limit, and a charge trades
  one of its members for one point.  The refinement needs that nobody has an
  answer before it is sent (`UnansweredInvariant`).
* `AccountsProofs`: `TypeCorrect`, `AccountInvariantHolds`,
  `BlockedUntilAdministrator`, `NoUpdateLostAlone`, `TokensStayUnique`.  None of the action properties is
  inductive: each needs to know what a handler holds when it writes.  `Holdings`
  says what each await implies (a reset holds a row whose date was set and whose
  token was the one it was called with, and so on); `CopiesFresh` that an object
  not marked `overtaken` equals the row, which needs in turn that an object read
  later overtakes one read earlier only together with it; `DatesFixed` that
  validity dates never change.  Their conjunction is `AccountInvariant`.
* `RefreshTokensProofs`: `TypeCorrect`, `SessionInvariantHolds`, `TokensImplementSessions`,
  `OnlyOwnerRevokes`, `LogoutClosesSession`, `LetInAgainBySession`,
  `CookiesStayInAgreement`.  `SessionInvariant` has, besides what each await
  implies, the one fact the refinement turns on: a refresh whose session was
  closed when it began is stopped by the age of the JWT or finds its row revoked
  (`RefreshOK`), which stays true because rows are only created and revoked
  (`TableOnlyGrows`).
* `RolesPermissionsProofs`: `TypeCorrect`, `VerdictsAreRight`,
  `RightsComeFromSeeding`, `NobodyIsGranted`, `KeepsAuthorization`.  Every
  step is first summed up: what it does to the tables (`TableStep`: what a role
  grants and what a permission opens only shrinks, rows are born with nothing
  granted) and to the requests (`Moves`).
  From the first, `TablesInvariant`: a role holds only ids that were already in
  use (`Born`), which are never given to a second row, so that a permission
  created later opens nothing to anybody.  `GuardInvariant` then says of each
  read of the guard: if what has been read so far opens the route now, the user
  had the right at some moment, and if it does not, the user lacked it at some
  moment.  Only because rights read in pieces shrink between the reads can the
  pieces be put together.  `KeepsAuthorization`, the refinement, has one lemma per
  kind of step.  That the guard's verdict is a `Pass` or a `Forbid` is
  `GuardInvariant`; that a new role, a new permission or a synchronisation moves
  no right is `TablesInvariant` again (`NewRoleSameRights`,
  `NewPermissionSameRights`); and `SameView` shows that what `sight` records is
  what `Authorization` remembers, for which a slot between two requests must ask
  for nothing (`IdleAsks`).  That a row written back is a `Restore` is
  `CopyIsRestore`; that what is kept of rights was read or shrinks (`Keep`) is
  `CopiesAreKept`, from `CopiesAreRead` and, again, that roles only lose rights.
* `EmailTemplatesProofs`: `TypeCorrect`, `DefaultTemplatesStay`,
  `CreatedAccountsMailed`, `MailsAdvance`.  `DefaultsKept` needs to know that a removal that has
  read its flag is not about to delete a default (`RemovalSpares`); an update
  cannot make one of that row meanwhile, because the slug is held by the default
  that has it and the unique column refuses the update, so the two are inductive
  together.  `AccountsMailed` needs the request that is still after the mail
  (`Attended`), and `DefaultsKept` for its lookup.  `MailAdvances` is what is safe in
  `MailSettles`: a mail only comes nearer its end, so a job is taken up twice at
  most.  What could break it is a second creation of the same account that queues
  the mail again, and `OneCreator` excludes it: a user name is inserted once, so
  there is one request after the mail, and none when there is a job.
* `TwoFactorProofs`: `TypeCorrect`, `FactorInvariantHolds`, `FactorStays`,
  `SessionsNeedActive`, `TogglesAlone`, `Refinement`.  `FactorInvariant` says
  which objects a request holds at each await and that one nobody overtook equals
  the row, the secret the request has stored itself aside; from it each step that
  writes a row changes what its properties allow.  The refinement needs one fact
  more (`MayOf`): if what the guard read lets the visit pass, it was due at that
  read, and what was due is remembered until the answer.
* `ListingProofs`: `TypeCorrect`, `NeverHides`, `NeverAdds`, `FoundAreMeant`,
  `WalksOn`, `RelationsAreMeant`, `WalkStandsThere`, `ShownOnce`,
  `ThirdPagePassedOver`.  `HoldsIsMeets` carries a condition from the
  client to the database; `NeverHides` and `NeverAdds` put that together for every
  filter whatsoever, the second where nothing is replaced or thrown together.
  `AnswerInvariant` says what an answer is made of (a page found belongs to a
  query that could be built, a `next` is beyond the page it was computed from,
  unless pages have one row),
  and `LaterPage` is the arithmetic of rows taken for pages.  `EachOnce` is not
  inductive: that the next page has no row of an earlier one takes where the walk
  stands, which is `WalkStands` (what was shown are the first places of the order,
  up to the end of the second page, and then those beyond the square of the
  limit).  Under it lies `OrderIsUnique`: without ties there is one way to put a
  finite set in order, and the row at position `i` is the one with `i` rows not
  after it, so a page is a range of places (`FoundPage`) and `next` takes the walk
  from place 0 to `limit` and from there to `limit * limit` or further
  (`NextSkip`, `FollowPage`).  `ThirdPagePassedOver` is the other half: the rows
  in between are in no answer of that walk.  `WalkAdvances` is what is safe in
  `WalkEnds`: pages get later and start within the table (`StartsInside`).

`TokensStayUnique` (no two rows of `users` share a code, the index of the table
together with what handlers draw) is proved and no longer a run of its own.

Model-checked only: the liveness properties (`EveryLoginAnswered`, `BlockEnds`,
`MailSettles`, `WalkEnds`), as the prover has no fairness and no `ENABLED`, and the
disagreements with the documentation, which are counterexamples.  Every invariant,
action property and refinement of the runs is stated by a theorem.

## What the runs found

Listed in `PROJECT.json` under `findings`, each with the line that says
otherwise:

* A registration mails the link that resets a password, a creation by an
  administrator the one that activates (`RegistrationMailsActivation`).
* `generateUniqueToken` goes on with codes in use (`GeneratedTokenUnused`).
* `forgotPassword` looks for the user in a column `'email,'`
  (`auth.service.ts:576`) and `changePassword` calls a method of a plain record
  (`auth.service.ts:645`): both throw for every account
  (`PasswordRequestsServed`).  The unit tests of both mock the repository and the
  method.  Since nothing but a registration sets a validity date, the password of
  an account an administrator created can never change.
* Enabling the second factor mails the QR code, stores its secret and a date a
  minute ahead, and then writes `request.user` back as the guard read it
  (`auth.service.ts:860`): the secret before, or none, and the date before.  The
  comment at `auth.service.ts:808` says "add one minute throttle"; after the
  handler there is none (`ThrottleOutlivesToggle`), no code of the mailed secret
  is accepted, and the factor is on.  An installed version of Prisma that refuses
  the nested records of that object fails the request instead, with secret and
  date stored and the factor off.

The translation met more that need no run, because one line decides them.  The
modules model each as it is.

* `whereInIds` starts its lookups and returns its array at once, still empty
  (`permissions.service.ts:182`; the comment at `:177` says "Get Permission array
  by provided array of id"): a role is never stored with the permissions it was
  created with (`InsertRole`).
* The list of active refresh tokens is filtered by a column named after the
  user's id (`refresh-token.service.ts:230`) and is always empty.
* The update of a role asks for a column `title` (`roles.service.ts:119`), the
  update of a permission tests a promise (`permissions.service.ts:149`), the
  update of a template is refused by its own row unless the title changes
  (`email-template.service.ts:116`).
* A refresh issues an access token without the mark of the one before
  (`auth.service.ts:708`), so that a user with the second factor has to prove it
  again after every refresh.
* From the third page of a listing on, `paginate` takes the rows skipped for the
  number of the page (`base.repository.ts:286`): the rows after the second page, up
  to the square of the limit, are never shown (`ThirdPagePassedOver`).  In pages
  of one row, page 2 calls itself page 1 and its `next` leads to itself.  The
  total is that of the whole table (`base.repository.ts:160`), so a filtered
  listing has pages without rows.  A call that fails gives an answer without
  rows, a query that cannot be built an error.
* A query without `select` returns every column, where the README of the query
  builder (`query-buider-backend/README.md:13`) says "the find just will return the
  `id` property".  For `all` the README of the client (`query-buider-frontend/README.md:97`)
  asks that it be used in every relation: then only the last relation of a
  relation comes back, and no conditions are kept (`AllOrNone`).  Queries that
  mix entries with and without `all` lose fields and conditions or end in an
  exception (`populate.fn.ts:24`); no text says what they should give, and
  `RelationsKept` leaves them out.

Races the properties allow because the code allows them: an activation, reset or
two-factor toggle in flight undoes a block (`BlockSticks` says that only these
do), and the removal or the change of a role (`Restore` in `Authorization`); a
blocked account keeps getting access tokens from the sessions it has
(`refresh-token.service.ts:101`; `NewSessionNeedsActive` bounds the new ones); a late answer to a refresh gives a browser its access cookie back after a
logout (`LetInAgain`); a failed logout answers 204 and leaves the session open
(`LogoutCloses`); the cookies of a browser may name two accounts
(`CookiesAgree`).  An update takes the slug from a default template although its
removal is forbidden, and with it the mails that name it (`touched` in
`DefaultsKept`); after that, or with a queue that is down, a new account is
stored whose owner gets no link and cannot register again (`unlucky` in
`AccountsMailed`).

## Not modelled

* User names and e-mails: `update` and `create` look for them before they write.
  Both columns are unique in the schema, so a race ends in an error for one of
  the two, as it does for tokens; what is left is whether the message is a
  validation error or a failure of the database.
* The picture of a profile.  `update` deletes the old file before it writes the row
  (`auth.service.ts:271`), and an upload is stored before `update` looks at
  anything: a failure in between, or a handler that writes an older row back,
  leaves a row that names a file that is gone.  The overtaking is the one of
  `NoLostUpdateAlone`, which holds of every column of a row; the files are not
  kept.
* The seeding script.  What it leaves behind when its sleeps are too short
  depends on seconds against the time of inserts, which a model without real time
  can only call "anything"; what it leaves when they are long enough is where the
  modules of roles and templates start.
* Validation messages, the exception filter, translations: which error a handler
  raises is in the modules of the handlers, the wording is not.
* `transform`, the columns an entity exposes or hides, subjects
  and bodies of mails, the mail of the second factor (which takes the way of the
  others), hashing.
* The twelve operators of the query builder beside `equals`, `not` and `gt`, the
  lists of `hasEvery` and `hasSome`, a relation asked for twice in one query,
  primary keys with other names, a condition whose path is the name of a group
  (with an operator, a path `OR`, `NOT` or `AND` overwrites the list of that name
  and is deleted when the lists are put together, `filter.fn.ts:32`, `:40`: it is
  dropped in silence, where `Fits` has the database reject it), `PopulateParse` (both forms of an entry give the
  same fields), descending order (the ascending one with places reversed).
* The global request throttle, bootstrap, configuration and logging: wiring of
  libraries, with no state of the repository's own.
