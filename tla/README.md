# Formal models of the UBUS API

TLA+ models, model-checking configurations and machine-checked proofs for the
backend in `src/src`: a NestJS service through which students of a municipality
book seats on university buses, trip leaders finish and relocate trips, and
managers and cron jobs administer accounts, routes and buses. State lives in
PostgreSQL (Drizzle ORM); Redis holds codes, tokens and bus positions.

Two facts about the code shape everything here:

* **No handler opens a transaction.** Every service method is a sequence of
  `await`ed statements (`SELECT`, `INSERT`, `UPDATE`, `DELETE`). The database makes
  each statement atomic; between two of them any other request, of any user, may
  run. So an action of these models is one statement, together with the
  synchronous code up to the next `await`.
* **One process, restarted when it dies** (`docker-compose.prod.yml`,
  `restart: unless-stopped`). A restart drops every request in flight where it
  stands and leaves the tables as they are.

## 1. Inventory

| Component (source under `src/src/`) | State | Operations | Hard behaviour | What makes it correct |
| --- | --- | --- | --- | --- |
| Booking tables (`shared/database/schema/{reservation,trip,user}.schema.ts`) | `reservations`, `trips`, `users` rows; `UNIQUE (trip_id, seat_number)` | single SQL statements | the constraint is the only synchronisation there is; `NULL` seats pass it | one reservation per seat; every statement is one claim taken, moved or released |
| Reservations (`modules/reservations`) | none of its own | `create`, `update`, `remove`; read-only listings | check, count and insert are separate statements; writes by id after a lookup | one active reservation per trip, excess only when full, only the owner changes a row, answers agree with the table |
| Trips (`modules/trips`, `departTrip` in `modules/driver`) | none of its own; bus positions and alerts in Redis | `createTrip`, `updateTrip`, `scheduleTrips`, `assignDriver`, `finishAndPunish`, `relocation`, location and alerts | two loops over a snapshot with an `UPDATE` per row; failing or restarting midway; repeated calls | everybody of the snapshot penalised or moved, seats given once, levels count absences |
| Users (`modules/users`) and cron jobs (`modules/cron`) | registration status, `expiresAt`, `renewalDeadline`, `renewalSubmittedAt`, `deletedAt`, accessibility status and periods | approve, renew, review, soft delete, accessibility request and review; expire, suspend, inactivate, delete on a timer | status read before an `await` and written after; deadlines left over from an earlier period | legal status changes only; who does not renew is suspended and finally removed; decisions stand and count once |
| Auth (`modules/auth`) | users; in Redis: codes, attempt counters, reset tokens with a time to live | register, login, send and verify code, forgot and reset password | code and counter read, counted and deleted by separate commands; expiry in between; `INCR` without `EXPIRE` after a restart; a code sent again | a code or token works once; guesses are bounded and a right one is not counted out; counters expire |
| Management (`modules/management`) | municipalities, `managerId`, `active` | create, update, `createManager`, `removeManager` (`setManager` has no caller) | the manager is looked up, the account inserted and then appointed; `register` does the same | one manager per municipality; nobody registers where registrations are paused |
| Fleet (`modules/fleet`) | routes, points, dropoffs; buses, and a table of JSON layouts | CRUD | `deleteRoute` is seven statements, during which trips are planned, points chosen and the route switched on; `createBus` inserts before it validates the layout, `updateBus` writes the layout before it checks the bus, and three handlers write two lists of preferential seats in two orders | no route deleted that is active or has planned trips, none that anything still refers to; layouts number each seat once and fit their bus; both lists agree |
| Ratings (`modules/ratings`) | ratings | rate, read | check, then insert | one rating per reservation |
| Notifications (`modules/notifications`) | notifications | send to a target, list, mark read | recipients read, then one batch insert | everybody targeted is notified or nobody |
| Driver, attendance, metrics (`modules/driver`, `attendance`, `metrics`) | – | reads; `departTrip` | – | – |
| Health, uploads, e-mail, guards, configuration | – | I/O, stateless checks | – | – |

**Interactions.** The services never call one another. They meet only in the
tables: reservations and trips in `reservations` and `trips`; trips, users and cron
in `users`; fleet, trips, auth and users in `routes`, `points` and what refers to them;
auth and management in `municipalities`; auth alone in Redis' codes and tokens. The controllers add a role
check (guards) and nothing else; `finishAndPunish` and `relocation` check inside the
handler that the caller leads the trip.

`PROJECT.json` lists the components again with their status, and under `hazards`
every place where this code is exposed to an interleaving, a stale read, a restart,
a repeated call or a boundary, at its line.

## 2. The modules

```
SeatAllocation             what the reservations table promises about seats
      ^ implemented by
BookingTables              the tables, the SQL statements, the UNIQUE constraint
      ^ extended by
ReservationsService        TripsService
      ^                         ^
      +-------- TripDay --------+
RegistrationLifecycle      users.service and the cron jobs, on accounts of their own
FleetRoutes                routes, points and trips of fleet, trips, users and auth
BusLayouts                 buses and layouts of fleet, and their guards
TownAccounts               register, managers and accessibility of auth, management, users
Verification               codes, attempts and tokens of auth in Redis
MCReservations  MCTrips  MCTripDay  MCRegistration  MCFleet      instances for TLC
MCLayouts  MCTownAccounts  MCVerification
BookingTables_proofs  ReservationsService_proofs  TripDay_proofs (with TripsService by itself)
RegistrationLifecycle_proofs  FleetRoutes_proofs  Verification_proofs  BusLayouts_proofs
TownAccounts_proofs
```

**BookingTables.** `reservations`, `trips` and `users` are functions from the keys of the
rows that exist. A reservation keeps trip, user, seat (`NoSeat` is `NULL`) and
status (`NoStatus` is `NULL`); a trip keeps status, capacity, bus and leaders; a user keeps registration
status, priority level (0 is `NULL`) and whether a seat block was ever written.
`SeatTaken` is what the unique constraint refuses. `InsertReservation`,
`UpdateReservation` and `DeleteReservation` are the three statements. What bookings
read and never change is constant: the layout of a bus (`SeatCells`), elevators,
wheelchair needs, default points, trip directions, and which town a user belongs to.
`TablesInit` starts from any tables earlier bookings can have left.

**ReservationsService.** A call is a record made once, whose `pc` names its next
statement. `create` goes `account` → `duplicate` → `trip` → (`count` →) `insert`; `update`
and `remove` go `find` → `write`. Each early return, each refused statement and the answer
it leads to is in the model. `UpdateReservationDto` marks both fields `@IsOptional`, and
class-validator then skips the other checks for `null` too: a PATCH may write `NULL` into the status, after
which `ne(status, 'CANCELLED_BY_SYSTEM')` no longer selects the row (`Active`). The row a `create` inserts is named by the call (a fresh
UUID, at most one per call). `ReadTrip` stands for the run of `SELECT`s of trip,
bus, stops, dropoffs, default point and layout: all but the trip row are
constants here, so only the moment the trip is read matters. `MoveRegistration` is
what users and cron do to an account meanwhile.

**TripsService.** `finishAndPunish` goes `check` → `read` → for each CONFIRMED
reservation of the snapshot `loop` (`ABSENT`) → `level` → `penalise` → finally `FINISHED`.
`relocation` goes `origin` → `destination` → `read` → `occupied` → `loop`, one
`UPDATE` per passenger, → `CANCELLED`. The order of the rows of a `SELECT` without `ORDER BY` is
any order, so the loops pick any element of `todo`. A refused `UPDATE` ends the call with
500 and what it has moved stays moved. `CreateTrip`, `RescheduleTrip`, `UpdateTrip`
and `DepartTrip` are the single-statement writes to trips; the code guards none of
them by the trip's status.

**TripDay.** Both services over the same tables, interleaved statement by statement, and
a `Restart` that drops the calls of both.

**RegistrationLifecycle.** `accounts` maps the users there are to their status and four
timestamps (`expires_at`, `renewal_deadline`, `renewal_submitted_at`, `deleted_at`), each a day
or `Never` for `NULL`. A call of `UsersController` goes `find` (the `SELECT` and its checks) → `write`
(the `UPDATE` by id, which looks at no status again); `DELETE /users/me` has the
`write` only. `JwtStrategy` turns away who is deleted when the call comes in. Each cron job is one
statement over all accounts: `Expire`, `Suspend`, `Inactivate`, `Delete`. `Midnight` starts the
day's jobs (`due`), which then run in any order, between any two statements of any
call; the weekly ones only on `Sundays`, none in `Outages`. Where a deadline and the
job that compares it both lie at a midnight, milliseconds decide, and the model takes
either (`late`). `Delete` removes all or nobody: the foreign key of `trips.driver_id`
has no `ON DELETE`. What a suspension does to bookings is `MoveRegistration` in
`ReservationsService`; the two models share no state otherwise.

**FleetRoutes.** `routes` says of each route id whether there is such a row and whether it is
active; `points` and `trips` are the rows there are, with their route (and a trip's
date); `users` keeps default route and point. `deleteRoute` goes `find` → `future` (trips of
today or later?) → `users` (default route to `NULL`) → `points` → `usersPoints` (default point to
`NULL`) → `trips` (`DELETE` of all trips) → `row`, one statement each, without a transaction.
`createPoint`/`createDropoffPoint` and `deletePoint`/`deleteDropoffPoint` are the same code
on two tables and one pair of operations here. `choosePoint` is `UsersService.updatePoint`.
`createTrip` and `updateTrip` look routes up as the caller's role demands and
write; `scheduleTrips` looks up its route once and then takes its trip keys one by one,
with an `INSERT` or an `UPDATE` each. `CreateRoute`, `UpdateRoute` and `Register` are single
statements. What holds it together are three foreign keys (`Referenced`, `Insertable`):
points go with their route, but `users.default_route_id`, `users.default_point_id` and
`trips.route_id` have no `ON DELETE` and refuse. `meanwhile` is a history variable: what
others did to the route of a deletion while it was under way. No guard reads it;
the properties do, to tell what a deletion does by itself from what a race makes of it.

**BusLayouts.** `buses` keeps town, driver, plate, capacity and preferential seats, `layouts` the row of
`bus_layouts` of a bus: its cells, DPM seat and a second list of preferential seats.
`createBus` goes `insert` → `layout`: the bus is inserted, then its layout validated, then inserted.
`updateBus` goes `guard` → (`layout` →) `bus`, behind `BusLeaderGuard`; `updateBusLayout` goes `find` (the
`SELECT`, the checks and the validation) → `bus` → `layout`. `Valid` is
`validateAndSanitizeLayout` check by check, as sets of cells and numbers; `Sanitized` is what it returns.
`WellFormed` says without those checks what layout a bus should have. `disturbed`, `patched`
and `torn` are history: which calls had another write between their statements, and which
buses were left unequal to their layout by whom.

**TownAccounts.** `towns` says of each municipality whether it takes registrations and who its manager
is, `users` keeps role, route, wheelchair flag, accessibility status and periods, `elevators` the
flag of each route. `register` goes `town` → `person` (e-mail and CPF) → (`office` →) `insert` →
(`appoint` →) (`elevator`); `createManager` goes `town`, where it looks for the manager, → `person` →
`insert` → `appoint`. A UNIQUE index refuses the second `insert` of a person in a town, and the call
leaves with a 500. `requestAccessibility` goes `user` → `write` → (`elevator`), `reviewAccessibility`
`user` → `write`, both by what they read. `CreateTown`, `UpdateTown`, `RemoveManager`, `UpdateMe` and
`UpdateRoute` are single statements. `since` records for each call what others changed after it had
checked (a pause of its town, a person who came in, a decision); `raced`, `asked` and `lapsed` what a property has to make allowance for.

**Verification.** `codes`, `attempts` and `tokens` are functions from the keys Redis has. `verifyCode` goes
`code` (GET) → `count` (INCR) → (`expire` →) and with the verdict → `forget` → `forgetCount` (two DELs) →, to reset
a password, `holder` → `grant`; `sendPasswordResetEmail` is those last two; `resetPassword` goes
`token` → `password` → `forgetToken`. A time to live may end between any two of them. Code and attempts
live equally long, so attempts that were there when the code was sent (`older`) may run out
before it, and others may not. The history counts the guesses compared with a code and keeps what
was `spent` (a token when the password is set with it, a code when a guess is right, both before their
`DEL`), what of it a restart `spared` from the `DEL`, and which counters one left without an `EXPIRE`
(`orphaned`).

**SeatAllocation.** The abstract specification: a set of claims (holder, trip, seat),
changed by `Take`, `Release` and `Move` of one holder at a time, never into a seat
that is not free. `BookingTables` maps the rows with a seat to claims
(`Claims`), and `AllocatesSeats` says that the handlers implement it. A relocation is a
`Move`, a PATCH to `null` a `Release`, an excess row is no claim.

## 3. Runs

Every configuration declares its constants in full; the MC modules define the small
sets and requests.

| Run | Asks | Shows |
| --- | --- | --- |
| `StudentCalls` | two students' POSTs and a PATCH or DELETE race for the one seat, with restarts and a suspension | answers agree with the table for ever after, and the excess bus opens only when full as long as nobody gives a seat back |
| `PatientStudents` | each student waits for an answer before the next POST | the duplicate check then is enough, but for a reservation PATCHed to a status of `null`; every call is answered |
| `TwoRelocations` | two relocations of the same trip, to the same trip, crossing, of a trip to itself, or to one that staff may plan meanwhile | passengers arrive together, the destination fills from the front, though either call may fail midway |
| `Finishes` | two finishes at once or one after the other, of the same trip or two, by users who registered with a level or without, while staff rewrite, reopen and depart a trip, with restarts | whoever a finish found is penalised when it has answered, whatever the other did meanwhile; a level goes up by one for each absence, at most to 3, unless two finishes had the same student in hand or a restart dropped one |
| `TripDay` | a POST, a PATCH or DELETE, a finish and a relocation of one trip | seats change only as `SeatAllocation` allows, across both services; a row is written by its owner or by a leader of the trip it was read on; every finish and relocation ends in an answer |
| `Registration` | renewals, reviews and deletions of a student's and a driver's account against the four jobs, for two weeks | the jobs spare who has submitted a renewal, take no account away before grace period and retention have passed, and in the end close every account that lapses |
| `FleetRoutes` | a route is deleted while trips are planned on it, points added, chosen and removed, and the route switched on, across a midnight and restarts | a success is final and nothing ever refers to the route again; trips of today or later, and an active route's rows, are lost only to what happened during that very deletion; the last `DELETE` fails only when somebody chose the route or planned on it meanwhile |
| `BusLayouts` | POST, PATCH and PUT of a bus and its layout by driver, manager, super admin and a student who leads | the validation accepts just the well-formed layouts, where a row's cells may stand in any order; whatever is stored is numbered without gaps and has its DPM seat marked; it fits its bus and both lists of preferential seats agree unless a PATCH, a restart or a second writer is to blame |
| `TownAccounts` | a student's or manager's registration, an appointment, accessibility requests and reviews, with pauses, removals and restarts | one manager per town unless two were appointed at once; an account comes into a paused town, or meets a duplicate, only when the pause or the person came after the call's check; a decision is undone or taken twice only in a race, and periods count no more than was asked for; routes of users in wheelchairs get their elevator |
| `Verification` | two calls at a time about one code and one token, with codes sent again, run out and restarts | what is used is refused to whoever comes later, unless a restart came before the `DEL`; at most `MaxAttempts` guesses are compared with a code; the right code is not refused for too many attempts but in a race; counters expire but for a restart between `INCR` and `EXPIRE`, however many calls count; a call deletes the code it has read, once it has judged the guess |
| `DoubleBooking` | two POSTs of one student at once | **violated**: both pass the duplicate check, two active reservations |
| `PenaltyLost` | a restart in the penalty loop, then the call again | **violated**: the absent student is never penalised and the answer says otherwise |

The two violations are in `PROJECT.json` under `findings` with the line of the
repository each contradicts. Beyond them: a seat given back between the count of the occupied seats and
the `INSERT` of an excess reservation leaves an excess row while a seat is free
(`ExcessOnlyAfterFull` is about the time before anything is given back); a trip planned
while its route is being deleted is deleted with the past ones, and a route switched on
meanwhile is deleted all the same, which is what the exceptions in
`PlannedTripsKept` and `ActiveRoutesKept` stand for; a deletion that meets such a race may also
answer 500 with users already without their route and the past trips gone.
A student who checks in after `finishAndPunish` has read the reservations is made ABSENT and
penalised all the same, by id. An approval never clears `renewalDeadline`: a student who lapsed once, was
approved again and is suspended by a manager is inactivated at the next weekly run, however short the
suspension.
`scheduleTrips` takes over a trip with the same key from another route, and counts it as
scheduled even when it is gone by the time of the `UPDATE`; `deletePoint` answers 500 as long as a
user has chosen the point. PATCH bounds a seat number from below only,
although the DTO documents 1–40, and can make a cancelled reservation active again
next to a newer one (`OneActivePerTrip` is about days without such a PATCH). A PATCH with `status: null`
leaves a row that keeps its seat and that `create` no longer finds (reservations.service.ts:64), so that a
student who has waited for every answer can POST once more and hold two reservations for one trip, one of them
without a status: `OneActivePerTrip` does not count a reservation that such a PATCH has been written to (`Standing`).
A student who cancels while the finish is
at work is penalised without an absence. Two finishes that have the same student in hand can charge one absence twice
(both penalise the row that both read) or lose an increment (both read the level before either writes it), and a
restart between the ABSENT and the penalty leaves the absence without one (`PenaltyLost`): `LevelCountsAbsences` is about
students to whom neither happens (`OneAtATime`). `create` never looks at the trip's status, so
that a POST which read the trip before a relocation stays on the cancelled trip.
`submitRenewal` refuses accounts in `RENEWAL_PENDING`, which is where an expired card puts them, and
`renewalSubmittedAt` is never cleared: who has submitted once is never suspended
again, whatever comes later (`SubmittedIsSafe`, `Spared`).

Of the newer models: a `createBus` whose layout is refused answers 400 and leaves the bus, so that the
same request, corrected, meets its plate and gets a 500; a PATCH whose bus is not found or whose plate is
taken has changed the layout already; a PATCH of the capacity is not held against the layout, which then
no longer fits (`patched`); a PUT between the two statements of a POST makes the POST end in a 500.
`validateAndSanitizeLayout` refuses a row with the words that it needs columns 1 to 5 'em ordem' (in order,
fleet.service.ts:614), but sorts them before it compares, and stores the row as it came: cells in any order
pass. `WellFormed` follows the code there, so that `ValidationExact` says nothing of the order.
Two calls that have read a code before either deletes it both succeed, and so do two resets with one
token. A restart between the `UPDATE` of the password (auth.service.ts:291) and the `DEL` of the token
leaves a token that has been used and is good for whoever comes with it until it runs out, and likewise a code
between its verdict and its `DEL`: `UsedOnce` excepts just these (`spared`). A restart between `INCR` and `EXPIRE` leaves a
counter that outlives its codes, until it passes the limit or a right guess deletes it (`orphaned`); other calls that
count or delete the attempts meanwhile do not leave one. Two managers may be appointed at once, the second in place of the first, and both keep
the role; a removed manager keeps it too; a restart after `insert` leaves an account with the role and a town
without a manager. `register` writes its e-mailed code to `users.email_verification_code`, which nothing
reads: `verifyCode` knows the codes in Redis only. `updateMe` sets the wheelchair flag and does not tell the
route. Rejecting or revoking does not take `accessibilityConsecutivePeriods` back.

**Bounds.** Two students suffice for every race over one seat: a third behaves like
one of the two. Two POSTs and one change are the smallest set in which a check, a count or a
lookup can go stale, and one seat makes each conflict happen; the bus of
`MCTrips` has two seats while up to four are handed out, so relocation runs past the
layout. A level reaches its cap after two absences from none (the first
counts from 1) and after one from 2, which stands in `Finishes` for the levels 1 to 3 of
the DTO (the theorem is about all of them). Two
finishes or relocations show every lost update and every collision; they may
name the same trip, crossing trips, a missing trip, or a caller who may not.
`TripRows`, `UserRows`, `Posts`, `Changes`, `FinishRequests`, `RelocationRequests`, `StaffTrips`
and `RegistrationChanges` bound what users and staff may send; the sets of calls
bound how often. `MCBookedSymmetry` permutes reservations made before, which no
definition tells apart; it is not used where liveness is checked.

In `Registration` semesters last two days, the grace period and the retention two each, weekly
jobs run every other day, and day 5 is missed: of the code's 180-day semesters, 14 and
180 days only the order in which they pass matters, and the two weeks are enough for
an account approved on the last day a call is made (`LastCallDay`) to be closed. Two
calls make every stale read. No call is under way for more than one midnight (the guard of `Midnight`).

In `FleetRoutes` one route (`r1`) of two is what the calls are about, the other is where a trip
may move; one rider, two pick-up points and a drop-off point, a trip of the past or of
today and a key to plan. Two calls at once out of `MCRequests` (each operation, by a manager
of the town, one of another town and a super admin where the code tells them apart) show
every pair of handlers in every order of their statements; `Switched` lets managers switch only
`r1`, `Starts` are the tables at the beginning, and `LastDay` allows one midnight, enough for a date
to pass from future to past. `MCCallSymmetry` permutes the two calls, which nothing tells apart.

In `BusLayouts` rows have two cells in place of five (`Columns`), a bus has one seat or two, and the layouts
in `MCRequests` are one good layout for each case the code tells apart and one for each way of being bad that
the other runs of the validation do not meet; `ValidationExact` compares the validation with `WellFormed` for each of the
layouts of one or two such rows (`Drafts`), for every capacity up to one more than there are cells. One of two buses is what the calls write; the other
holds the plate that is taken. Two writers show every mixture of two handlers.

In `TownAccounts` there are a town and the System one, two people, one of whom may be a
student or a manager, and two calls at a time; `MaxRequests` = 2 requests for accessibility per
account are enough to approve, revoke and approve again. In `Verification` one address with one context (calls of
different keys share nothing; the theorems have any number of keys), two codes
(right and wrong), one token and `MaxAttempts` = 2 in place of 5: what matters is a first guess, a last
one and one too many. Counters saturate past the limit (`Incremented`), where nothing tells them apart. Random codes and
tokens come from small sets and so come back: what is recorded of one is forgotten when it is issued anew.

No run turns the deadlock check off.

**Fairness.** `WF` on the steps of each call that has been received. Once Node has started a
handler nothing in it waits for another handler: each `await` is a database
statement, which returns or throws. No fairness is assumed of receiving a call, of
restarts, or of the staff; nothing promises that these happen. `RegistrationLifecycle`
adds `WF` on `JobStep` and `Midnight`: days pass, `@nestjs/schedule` fires its timers and the
statement of a job ends. That a whole midnight may be missed is `Outages`.
`FleetRoutes`, `BusLayouts`, `TownAccounts` and `Verification` state safety only and assume no
fairness: what they promise is about what a race may not do, and their calls have no loop.

## 4. Proofs

TLAPS checks these for every set of users, trips, seats, calls and requests, under
`TablesAssumption`, `ReservationsAssumption`, `TripsAssumption`, `AccountsAssumption`,
`FleetAssumption`, `VerificationAssumption`, `LayoutsAssumption` and `TownAccountsAssumption` (constants have
their types, seat numbers and `Columns` are positive naturals, a POST's id is fresh, the tables at the start
hold rows, and reservations finitely many, as tables do: some theorems count rows). TLC evaluates the
assumptions in every run. What a theorem assumes besides is in the table.

| Theorem | Says |
| --- | --- |
| `ReservationsCallsAnswered`, `PatientCallsAnswered` | `EveryCallAnswered`, for any number of calls, given `[]CallsProceed` |
| `ReservationsTypeCorrect`, `TripsTypeCorrect`, `TripDayTypeCorrect` | the type invariants |
| `ReservationsSeatUnique`, `TripsSeatUnique`, `TripDaySeatUnique` | no seat of a trip is given twice |
| `ReservationsAllocatesSeats`, `TripsAllocatesSeats`, `TripDayAllocatesSeats` | the handlers implement `SeatAllocation` |
| `ReservationsAnswersMatch`, `TripDayAnswersMatch` | what a POST was answered agrees with the table ever after, also next to leaders' calls |
| `ReservationsExcessOnlyAfterFull` | `ExcessOnlyAfterFull`, for any number of students and seats |
| `ReservationsOneActivePerTrip` | `OneActivePerTrip`, of `PatientSpec` and behaviours where no PATCH takes a cancelled reservation up again (`NoneTakenUpAgain`); such a PATCH, and one with `status: null`, are the counterexamples of section 3 |
| `TripsPenaltiesApplied`, `TripDayPenaltiesApplied` | `PenaltiesApplied`, also while students book, change and cancel |
| `TripsLevelCountsAbsences` | `LevelCountsAbsences`, of `TripsSpec` with any number of finishes and of students who register with any level or none; the property itself says of whom it speaks (`OneAtATime`) |
| `TripsRelocatedTogether`, `TripDayRelocatedTogether` | `RelocatedTogether`, also next to students |
| `TripsFilledFromFront` | `FilledFromFront`, for any number of passengers and seats |
| `TripLoopsAdvance` | every step of anybody leaves a finish or relocation as it is, takes it to a later phase (a restart: to its end), or leaves its loop less to do, and what it has to do is a natural number |
| `TripSeatsFound` | where every number from 1 on is a seat (`Seats = Nat \ {NoSeat}`), a relocation finds one for each passenger it has left |
| `TripDayWritersAllowed` | `OwnerOrLeaderWrites`, in behaviours where the leaders of trips stay the same (`SteadyLeaders`): leaders are looked up when a call starts, and `updateTrip` may replace them before it writes |
| `LifecycleTypeCorrect` | the types of accounts, calls and the clock |
| `StagesKept`, `NobodyRemovedEarly` | `RemovedNoSooner` for every grace period, retention and calendar |
| `SubmittedRenewalsSafe` | `SubmittedIsSafe` |
| `FleetTypeCorrect` | the types of routes, points, trips, users, calls and the history |
| `PlannedTripsSafe`, `ActiveRoutesSafe` | `PlannedTripsKept`, `ActiveRoutesKept`, for any number of routes and calls |
| `DeletedRoutesGone` | `DeletedForGood` |
| `DeletionsFailByRaces` | `OnlyRacesFail`, for any number of routes, points, users and calls |
| `VerificationTypeCorrect` | the types of codes, attempts, tokens, calls and the history |
| `CredentialsUsedOnce` | `UsedOnce`, from the `UPDATE` or the verdict on, with its exceptions |
| `GuessesStayBounded` | `GuessesBounded`, for any limit and any number of calls at once |
| `RightCodesAccepted` | `RightCodeAccepted` |
| `AttemptsExpired` | `AttemptsExpire` |
| `OwnCodesDeleted` | `OwnCodeDeleted` |
| `ValidationSound`, `ValidationComplete`, `ValidationIsExact` | the checks of `validateAndSanitizeLayout` accept just the well-formed layouts (cells of a row in any order), for any number of rows, columns and seats: either direction, and `ValidationExact` |
| `LayoutsTypeCorrect` | the types of buses, layouts and calls |
| `StoredLayoutsNumbered` | `LayoutsNumbered`, for any number of columns, seats and calls |
| `LayoutsFitBuses`, `ListsAgree` | `LayoutFits`, `PreferentialAgree` |
| `TownAccountsTypeCorrect` | the types of municipalities, accounts, elevators, calls and the history |
| `TownsOneManager` | `OneManager`, for any number of towns, people and calls |
| `TownInsertsChecked` | `InsertsChecked` |
| `TownDecisionsStand`, `TownPeriodsEarned` | `DecisionsStand`, `PeriodsEarned` |
| `TownElevatorsFollow` | `ElevatorsFollow` |

The argument: `BookingTables_proofs` defines `LawfulStatement`, a step that inserts,
rewrites or deletes one row and gives away no seat that is taken, or leaves the table
alone, and proves once that such a step keeps row types and `SeatUnique`, and
is a step of `SeatAllocation` or a stutter. Each service then needs
one lemma only, that each of its actions is lawful and keeps the types of its call
records; the guards of `InsertRow`, `WriteUpdate` and `MoveRow` are what makes it
so. `TripDay` reuses both lemmas. The types come first because a
statement is built from a record kept since an earlier step (a request, an id of a
snapshot), whose type the invariant must supply.

`AnswersMatchTable` is not inductive: nothing in it says why a row written by a PATCH
still has its owner, or why a DELETE that finds the row of a POST comes after its
answer. `AnswersInv` adds that only finished calls have an answer
(`AnsweredWhenDone`), that a POST's row exists only once it has answered 201
(`RowsAreCreated`), and that a PATCH or DELETE about to write was sent by the owner of
the row it names (`WritersOwn`). For `TripDay` the further fact is that no leader's call
changes a row's owner (`TripsKeepOwners`).

`ExcessOnlyAfterFull` speaks of a count that is one statement older than the `INSERT`. `ExcessInv` holds a
call to what it has read: its `capacity` is still the trip's (`CapacityRead`), and once it has counted the
trip as full the trip stays full (`CountedFull`), because without a PATCH or DELETE (`GivenBack`) rows are only
added. `OneActivePerTrip` needs more than its specification's promise that a student
sends one POST at a time: `PatientInv` says that a call past the duplicate check still has nobody to
compete with (`StillFirst`), which another call of the same student could break (`OneWaiting`: there is none),
and so could a PATCH from `CANCELLED_BY_SYSTEM` back to `CONFIRMED`, which the code allows: hence the hypothesis.

In the loops of `TripsService` the invariants tie the snapshot to what was done with it.
`PenaltiesInv` says of each passenger who is neither to do nor in hand that the penalty is written, and
that no step lowers it. `LevelsInv` counts, student by student: what a finish that has the student in hand is still to do is
still `CONFIRMED` (so that the ABSENT rows are just those the level counts), and a level read is still the level; both
because no other finish has that student in hand. `RelocatedInv` says where each handled passenger is: at the destination, gone, or
read by another relocation too; next to students a row of the snapshot may be deleted, and it does not come back
because an id that has been answered 201 is not inserted again (`ReadRowsCreated`, from `AnswersInv`).
`FilledInv` says of a relocation that is alone that the `occupied` it keeps is true, that each
seat below `seat` is in it, and that no seat it gave had a free one in front. For `OwnerOrLeaderWrites` a call
past its check was sent by a leader of the trip (`FinishersLead`, `RelocatorsLead`), which
`SteadyLeaders` keeps true.

`RemovedNoSooner` speaks of the last of four steps that may lie a year apart. What
carries it over is `StagesInv`: for an account in nobody's hands but the jobs', the
status says how far the deadline and the deletion are from the card's expiry.
Each job moves an account to the next stage (`JobStages`), and what a call may
write is either a status without a stage or makes the account `ByHand` for ever
(`CallsKept`, `WrittenGently`). `SubmittedIsSafe` is inductive as it stands. Its assumption,
`AccountsAssumption`, says that the periods are naturals and that each day lies in a semester.

The two action properties of `FleetRoutes` blame a loss on the history, so the invariant has to
say what the history must hold while a deletion is under way: `ActivationSeen`, that its route is
not active unless `activated` was recorded, and `PlansSeen`, that after the check each trip of
today or later on its route was recorded (a day that passes only makes the set smaller).
They are kept because whatever makes such a trip or switches the route on is a step of
`Against`, which `Remember` records for each deletion under way. `DeletedForGood` rests on
`ReferencesHold`, which `ReferencesKept` proves inductive from the three foreign keys alone
(every write is to a row that exists, or the statement is refused), and on
`SuccessMeansDeleted`: once deleted a route stays so, because only `CreateRoute` makes
routes, of an id never used. `OnlyRacesFail` needs to know what each statement of a deletion has released:
`ReleasedInv` says, for a deletion with nothing on record, that after the statement on users nobody has the
route by default, that the ids it read are those of all points of the route that somebody
chose, then that nobody chose any, and at last that there is no trip. Whatever breaks one of
these is a step that `Remember` records (`RaceSeen`), or an `INSERT` of a point with an id that is already
chosen, which `PointsFresh` excludes: a point's id is new and in no other call.

In `Verification_proofs` the types come with `CallShape`, which says what a call has read by
each statement (a code from `count` on, a user at `grant`). Each property then has a
strengthening of its own. `GuessesInv`: while nothing was forgiven, the guesses compared with a
code are at most the attempts counted, because a guess is counted in the step that compares it.
`OwnInv`: a call at work on a code has read the one there is, unless another was sent and recorded in
`overtaken`. `RightInv` is about the keys that never had two calls under way: a counter at the
limit is in the hands of the one call that is about to delete it (`FullInHand`), so that whoever
comes with the right code is not past the limit. `UsedOnce` needs `SpentHeld`, that Redis has nothing that was used and not
issued again but what a call is about to delete or a restart has spared, and `LateInv`, that a call which
came later has found nothing. `AttemptsExpire` is inductive with the types: an attempt counter without an end either
has a call at its `EXPIRE` or is `orphaned`.

In `BusLayouts_proofs` the validation comes first. The code counts (a row has as many different
columns as cells, the seats have as many different numbers as seats), the definition asks that each column and
number occurs just once; what joins the two is that a function from one finite set onto another
as large is one-to-one. `ValidationExact` joins both directions; all it adds is that a finite layout has finitely many cells
(`FewCells`). Of the handlers,
`CallStepEffect` says that a statement of a call does one of six things to the tables: nothing,
insert a bus, make a layout, patch the list of a layout, patch a bus, or write the list of a bus.
`LayoutsNumbered` is then inductive with the types, since a call's layout was validated when it came in. The
other two hold a call to what it read: `CapacitiesKnown` says that a call that nobody
disturbed still knows its bus's capacity when it writes the layout, and `HalvesStand` that the first
of its two writes still stands when it makes the second.

In `TownAccounts_proofs` the properties of five kinds of calls rest on two facts. `Grows`: no step
removes a town or an account or changes an account's role or route. `Knows`: so each call may
rely on what it has read, that its town is there, that the account it appoints is a manager, that the
row it decides on allowed the decision. Each property then has its own. `JoinedSeen`, `PausedSeen` and
`DecidedSeen`: a call whose `SELECT` is out of date has it in `since`. `PeriodsCounted`: a reviewer
who is to approve counts on from a pending row, whose request is already in `asked`, so that
two reviewers write the same number. `OneManager` needs `Vacant`, that a town in which somebody is on the way to be
appointed has no manager, and `Alone`, that there is one such call, or the town is in `raced`.
`ElevatorsTold`: who has the flag without an elevator has a call that is still to tell the route, also when
that call must first appoint (`Tells`).

`EveryCallAnswered` is the one liveness property with a theorem. `CreateStage` and `EditStage` number the
statements of a call. A step of a call takes it to a later stage (`CreateStepAdvances`, `EditStepAdvances`), and no
step of another changes where it is, but for a restart, which ends it (`OthersLeaveCreate`, `OthersLeaveEdit`). So a call leaves
each of its stages by the weak fairness of its steps (`CreateLeavesStage`, `EditLeavesStage`), and there are five of them
and two. What weak fairness asks besides is that a call which is not over can go on. That is `CallsProceed`, an
`ENABLED` formula, which the provers do not handle and which is therefore a hypothesis of both theorems. It says nothing of
the code that the actions do not show by their shape: at each statement there is a branch for every case.

**Model-checked only:** two liveness properties.
`EveryTripCallAnswered` is about loops over as many passengers as a trip has, `LapsedAccountsClose` about periods of any number of
days: both need an induction inside temporal logic, over a number that depends on the data, which is out of this
prover's reach. What that induction would rest on is proved for `EveryTripCallAnswered`: the measure that shrinks
(`TripLoopsAdvance`: the rows not reached, times the statements for each) and that the search for a seat cannot be stuck
(`TripSeatsFound`, whose hypothesis says what the code does: `seat++` compares with no capacity and no layout). Both
rest on `LoopsInv`: the table holds finitely many rows, so does what a call has read of it, and the counter starts at 1.
Of the two properties that
runs refute, `AbsentArePunished` (`PenaltyLost`) has no theorem, and `OneActivePerTrip` (`DoubleBooking`) one for
students who wait, which is the hypothesis that the counterexample lacks. Every other property of section 3 is checked by a run and
proved. A property is checked in one run and proved for every specification that has it
(`AnswersMatchTable`, `AllocatesSeats`, `PenaltiesApplied`, `RelocatedTogether`). `SeatUnique` has no run of its own: it
follows from `AllocatesSeats`, whose abstract steps take free seats only, and is the lemma its proofs rest on.

## 5. What is left out of the modelled parts

* Read-only queries, and columns no modelled decision reads.
* Whether a client receives an answer: a call is over when its last statement ran. In particular the
  `INSERT` of a POST and its 201 are one step: a restart between them leaves a row whose student got no
  answer, and `AnswersMatchTable` counts that call as answered.
* Of the booking models: hard deletion of users, trips and routes (`deleteRoute`, the
  `delete-users` job) and edits of buses, stops and points while a booking runs.
* Of `FleetRoutes`: names, coordinates, order and days of the week; an `INSERT` or `UPDATE` refused
  because a name is taken (the call ends with 500, or the single statement does nothing);
  buses and drivers of routes and trips, whose look-ups only add refusals; reservations,
  which go with their trips; hard deletion of users, who only stop referring to things.
  How `scheduleTrips` turns a range of dates into keys is taken as the sequence in the request.
* Of the accounts in `RegistrationLifecycle`: a user who registers again.
* Of `BusLayouts`: physical numbers, positions, sides and equipment, which no check compares; a bus
  that disappears with its municipality (there is no handler that deletes either). The plate stands for the
  identification number too: both are UNIQUE in a town.
* Of `TownAccounts`: deletion of accounts; the e-mail at the end of `register`, whose failure
  answers 500 after everything is written; `setManager`, which nothing calls; a person's e-mail and CPF
  are one thing, so that an account with another's e-mail only is not told from one with both.
* Of `Verification`: the e-mail, whose failure answers 500 and leaves the code valid; the password hash;
  an identifier stands for its channel; requests refused by the rate limiter or the DTO.
* Times: the voting window and `seatBlockUntil` are written and shown, no
  modelled handler reads them.
* Database outages: a statement that fails for want of a connection ends the call
  with 500 at that point, which leaves the tables as a restart there does.

## 6. Plan

In order of weight. Done: all modules of section 2 with their runs.

1. The expansion of `scheduleTrips` into dates and keys, including the order of its
   opening and closing times; driver assignment (`assignForToday`, `assignDriverToTrip`).
2. `Ratings` and `Notifications`.
3. Proofs of what these add, and of `TripDay`'s `FilledFromFront` and `LevelCountsAbsences`
   next to students, once they are stated for them.
