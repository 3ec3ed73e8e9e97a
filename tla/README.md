# CCMS in TLA+

Specifications of the Crime Case Management System: a FastAPI backend on
PostgreSQL and Redis (`ccms-backend`) and a Next.js frontend (`ccms-frontend`).
The modules are written from the code; where this text names a path under
`app/`, it is under `src/ccms-backend/app/`, and other paths of the frontend are
under `src/ccms-frontend/src/`.

## 1. Inventory

Backend:

| Part | State | Operations | Works with |
|---|---|---|---|
| Officer sessions and tokens (`core/session_manager.py`, `core/redis_client.py`, `modules/auth`) | Redis: `session:{id}` hash, `officer_sessions:{officer}` set, `revoked_jti:{jti}`, expiries | login, authenticated request, refresh, logout, password change, password reset, sweep, expiry | officer rows, profile cache, every other endpoint |
| Officer profile cache (`redis_client.py` 135-152, `auth/dependencies.py` 70-104) | Redis `officer_profile:{id}`, officer row | read through, invalidate, expire | sessions, personnel |
| Password reset tokens, login audit (`auth/service.py`) | Redis `pwd_reset:{token}`, audit rows | request, confirm | sessions |
| Case proceedings (`modules/legal`) | `court_case`, `charge`, `sentence`, and the `case` they close | open, verdict, file, patch, drop, sentence, automatic closure | case management |
| Case status, charges and deletion (`modules/case_management`) | `case.status_id`, `case.deleted_at`, `charge` | two status endpoints, three charge endpoints, soft delete | proceedings |
| Case access (`case_management/permissions.py`, `service.py`) | `case_permission`, `case_officer` | grant, revoke, assign, remove | every case endpoint |
| Case records | notes, reports, suspects, participants, locations | create, update, delete | case access |
| Evidence and custody (`modules/evidence`) | item, custody log | collect, transfer, dispose | case access |
| Arrests, personnel, departments, interrogations | their rows | create, update, delete | sessions (removal), profile cache |
| Reporting | none (read-only SQL) | | |
| Middleware, rate limits, migrations, startup checks | configuration | | |

Frontend:

| Part | State | Operations | Works with |
|---|---|---|---|
| API client (`services/api/client.ts`, `services/domain/auth.service.ts`, `features/auth/hooks`) | `isRefreshing`, the queue of requests that met a 401, cookies, the auth store | request, refresh, send again, give up, login, logout, session query | `/auth/*`, every service |
| Idle timeout (`features/auth/hooks/useIdleTimeout.ts`, `shared/stores/ui.store.ts`) | last activity, `warningShown`, the one modal slot | warn, log out | auth store, logout, the status drawer of a case |
| Query cache (`services/query`, `services/domain`, `features/*/hooks`) | queries and their keys, their copy in localStorage | fetch, poll, mutate, invalidate, set, remove, persist | API client, every page |
| Forms and dialogs (`features/*/components`) | inputs, unsaved entries, discard dialog, request in flight | open, enter, submit, close, discard | mutation hooks |
| Lists (`features/*/components`, `shared/components/table`) | filters in the URL, search box, last answer, selection | search, filter, turn, select, bulk request | query cache |
| Case wizard (`features/cases/components/CreateCaseWizard.tsx`) | three forms, copies of two of them | next, back, cancel, create | mutation hook |
| Pages with dialogs (`features/*/components`) | which dialog is open, for which record | choose, hand over, close | forms, lists |
| Views, layout, navigation, charts | none of their own | | query cache |

Components of the backend interact through its stores. Redis commands are atomic
one by one, and only `remove_officer_sessions` uses a pipeline. A database request
is one transaction at READ COMMITTED, without `SELECT ... FOR UPDATE` or version
columns; `get_db_session` commits after the handler (some services commit
themselves, at their end) and rolls back on an exception. The frontend reaches
both through HTTP only. In a tab everything runs on one thread, so that its
interleavings are those of answers, timers, transitions of React and the officer;
the tabs of a browser share the cookies and the disk.

What is hard about this code:

* handlers on one session interleave at every `await`, and most of them write
  to Redis what they validated some commands earlier;
* checks and writes of a database row are separate, and an ORM update writes the
  changed columns by primary key, whatever was committed since;
* one charge is changed by two services with different rules;
* Redis is written before the database commits, and a handler may fail between
  any two steps;
* keys expire, and a late write recreates a key without its expiry;
* a 401 sets off a refresh that other requests wait for, which are sent again
  later, while the officer logs out or the page is left;
* the code after an `await` in a component acts on the component and the page as
  they are by then: it closes the dialog that is open, or clears the record that
  another dialog is about;
* what a mutation tells the cache races fetches that have read already;
* filters are in four places (box, timer, pending transition, URL), each of which
  catches up with another;
* a selection, a page number or a warning refers to something that changes
  under it.

What makes each part correct: a removed session is never accepted again, and one
that lives is found by the sweeps and expires; a role or activity change reaches
every later request; a case has one court case and a charge one sentence; no
request waits for ever; a deleted case stays deleted; what a closed case was
closed by is on record; access ends when it is revoked; the custody of evidence is one
chain; the client refreshes once, loses no queued request and executes none
twice; an officer who is logged out was warned, and nobody else reads his lists;
a page shows nothing older than what it was told; a request carries the entries
of its own form and is about the record the officer chose.

`PROJECT.json` lists the hazards line by line with the properties that watch
them. Hazards without one belong to parts that are not modelled yet, or are
outside the abstraction, or the code does not prevent them and no text of the
repository says it does; their notes say which. A note beside a property says
what of the hazard the property leaves to the code.

## 2. Plan

Done:

1. `SessionPromise` and `SessionManager`: what clients may rely on and the store
   that keeps it, with proofs, the refinement among them.
2. `CaseProceedings`, with proofs.
3. `RequestPromise` and `ApiClient`: the abstract promise of a request and the
   client that keeps it, with the refinement proved.
4. `IdleTimeout`, with proofs.
5. `QueryKeys`, `DomainServices`, `CacheHooks`, `QueryCache`: every hook, with
   proofs.
6. `FormTable`, `Forms`, `Lists`, `CaseWizard`, `Mappers`, `HostTable`,
   `Dialogs`, with proofs, and `MCScreens` over them.

Left, in this order:

7. `OfficerProfile`: the officer's row in an uncommitted transaction, the cache
   and its expiry, requests that fill it; a deactivated officer is refused in
   the end. With it the password reset tokens and the order of Redis writes and
   the database commit. It takes its `Accept` step from `SessionManager`'s
   `LoadOfficer`.
8. `CaseAccess`: permissions and assignments with their audit rows, where two
   grants leave two rows and one revocation ends one of them.
9. `EvidenceCustody`, then departments and arrests.

Theorems planned: for `OfficerProfile`, that a cached
profile was once committed; for `CaseAccess`, that access implies a grant or an
assignment that was not ended. Of what the runs check now, every invariant and
every action property is proved (section 5).

## 3. Modules

### SessionManager

One officer's sessions. (Keys of different officers are disjoint.) `session`
holds the hash of each session id: which of its field groups exist
(`created` = officer_id and created_at, `activity` = last_activity, `tokens` =
the JTI fields), the recorded access token, whether the key has an expiry, and
its age against the idle and lifetime limits. `index` is the officer's set,
`revoked` the revocation entries, `held` the tokens sent to the client.

A request is a record and a program counter; each step is one Redis command:

| Code | Actions |
|---|---|
| `get_current_officer`, `refresh_access_token` | `Present`, `CheckRevoked`, `ReadMeta`, `Touch`, `TouchTtl`, `LoadOfficer`, then `Serve`, `Refresh`, `Logout` or `ChangePassword` |
| `invalidate_session` | `RevokeAccess`, `RevokeRefresh`, `DeleteHash`, `Unindex` |
| `remove_officer_sessions` | `ReadIndex`, `DeleteSwept` (one pipeline) |
| `start_session`, `create_session` | `Enforce`, `ReadIndex`, `DeleteSwept`, `WriteMeta`, `ExpireMeta`, `AddIndex`, `WriteTokens`, `Respond` |
| `confirm_password_reset`, removal of an officer or person | `Reset`, `ReadIndex`, `DeleteSwept` |
| an error of Redis or the database | `Fail`, at any step |
| the clock and Redis | `GrowIdle`, `GrowOld`, `ExpireHash`, `ExpireIndex` |

Abstractions: tokens are pairs of a session and a number, 0 for the refresh
token; their signature and expiry are in order (a client that holds an expired
token presents it no more, and the revocation entry lives as long as the token);
the database reads that decide whether a request goes on are nondeterministic;
the profile cache is left to `OfficerProfile`; a running request renews limits
that are minutes to hours away, so these do not pass before it ends
(`Renewing`). `block_officer` has no caller and is not modelled.

### SessionPromise

What `SessionManager` promises to clients and officers. A session is unborn,
open, then closed (`Open`, `Lapse`). A request asks with a session that exists
and is `fit` or `late`, late for certain when the session is closed (`Ask`); only
a fit one is accepted (`Accept`) or refused together with its session
(`Refuse`, a changed role); a removal (`StartRemoval`) ends with the session closed
(`Removed`), and a late request starts one only on a session that is closed
already. `SessionManager` reads `life` off `used` and the presence of
`created_at` (`LifeOf`) and `ask` off the program counter and the record of each
request (`AskOf`): the keys, the index, the tokens, the expiries and the split of
every operation into commands are hidden.

### CaseProceedings

One case. `status`, `deleted`, `courts`, `verdict`, `concluded` (closed_at),
`charge`, `sentences` are the committed rows; `courtLock` and `caseLock` the row
locks of uncommitted updates; `referred` and `convicted` remember what the rows
once were. A request begins with its first reads and their checks (`OpenCourt`,
`RecordVerdict`, `FileCharge`, `Attach`, `PatchCharge`, `DropCharge`,
`SetCharge`, `CreateSentence`, `PatchCase`, `UpdateCaseStatus`, `DeleteCase`),
reads again where the code does (`CountUnresolved`, `LoadCase`, `ReadVerdict`,
`CountAll`), takes locks where a flush does (`FlushCourt`, `LockCase`) or waits
for a unique key (`InsertCourt`, `InsertSentence`), and commits (`Commit...`) or
rolls back (`Fail`). Its writes appear with the commit, as READ COMMITTED has it.

Details that come from the code and matter: the legal endpoints do not look at the
deletion of the case, once there is a court case; the automatic closure counts
only the charges attached to the court case, and a charge may be attached to
another case's court case, whose verdict then closes this one; a status request
re-reads the case for its answer, and so is rolled back when the case was deleted
meanwhile; an archived case has no entry in the table of transitions and goes
anywhere; a case may be created with any status.

`app/modules/legal/service.py` line 4 imports `date_type` from `datetime`, where
no such name exists, so the application does not start as committed. The model
takes the import as corrected (the name is not used in that file).

### RequestPromise and ApiClient

`RequestPromise` is what a page may rely on when it hands a request to the
client: the server executes it at most once, it succeeds only if it was executed,
and it settles. `ApiClient` is the client, in any number of tabs: `jar` holds the
cookies, `store` the auth store of each tab, `memory` and `disk` the query cache
and its copy, `refreshing` is `isRefreshing`, and `call` holds the requests by
phase - sent, accepted, refused with a 401, queued, leading a refresh
(`refreshing`, `granted`).

| Code | Actions |
|---|---|
| `client.ts` request interceptor, the pages' queries | `Start`, `ReadProfile` |
| response interceptor | `Deliver`, `Lose`, `GiveUp` (second 401), `Wait` (`failedQueue`), `Lead`, `Refreshed` (`processQueue` and both kinds of second try), `RefreshFails` and `ForcedLogout` |
| `auth.service.ts` `login`, `useLogin`, `useLogout`, `useSession` | what `Opened`, `JarAfter`, `StoreAfter` and `Cached` say follows each answer |
| `middleware.ts`, `window.location.href` | `Navigate`, `Reload` |
| `persister.ts`, `ReactQueryProvider` | `Persist` |
| server and time | `Accept`, `Refuse`, `AcceptLogin`, `Grant`, `EndSession`, `ExpireToken`, `ExpireCookie` |

The callbacks of an answer run in the step of the answer, as microtasks do;
between a leader's 401 and the answer of its refresh anything may happen. A login
is known by its number, an access token by its serial number. A token that
neither the cookie nor an open call holds (`Held`) is nobody's any more, and its
number is given to a later one: so refreshes go on without end in a finite
model, and a queued request may meet a second 401, and a third. The server is
that of `app/modules/auth` and `app/core`, coarser than `SessionManager`: it
starts and ends a session in one step, and it refuses a request by its token
alone.

### IdleTimeout

`useIdleTimeout` with what it shares: `elapsed` since the last activity, `due`
(the interval of this tick has not fired), `warningShown`, the modal slot of the
ui store with the three dialogs that use it, the status transition and the
logouts in flight. `Fire` is the callback of the interval (`TimeOut`, `Warn`,
`Quiet`). `ReadSession` is `useSession`: with a session it counts as activity
(`setSession`) but leaves `warningShown` alone; without one, and after any error,
which `getSession` turns into "no session", it clears the store of the tab and
leaves the cookies. `Leave` is the officer, who goes for good: from then on no tab
is touched, focused, loaded or reconnected. `missed` is history: a late status
transition has closed the warning, and neither an act of the officer nor a new
warning came since. Tabs have stores and timers of their own, and one set of cookies.

### QueryKeys, DomainServices, CacheHooks, QueryCache

The first three are the tables of the frontend: the keys, what records each
service call reads, counts or changes, and for each of the 54 queries and 42
mutations of the hooks its key, service call, staleness and polling, or what it
invalidates, sets, removes and where it goes. `QueryCache` runs one query against
one mutation hook and other officers: `Mount`, `Focus`, `Poll`, `Age`, `Collect`,
the fetch in two steps (`Read` on the server, `Fetched` in the page), the mutation
in three (`Mutate`, `Write`, `Mutated`), each of which may fail. Queries do not
depend on one another, so that pairs are enough. `owed` is history, the newest
version whose mutation has succeeded in this page. The query library does not
send everything again that a success finds under way (`LeavesFetch`): not the first
fetch of a query, not that of a query no component uses, and none where the hook
puts the answer into the cache. If such a fetch had read older records, its
answer makes them valid; and where answers are put into the cache, that of an older
mutation does. `passed` and `behind` follow these answers and nothing else.
`Untold` names the pairs in which a hook leaves a query of its own kind of record
alone.

### FormTable and Forms, Lists, CaseWizard

`FormTable` says of each of 43 forms how it differs from a `Drawer`: whether it
stays mounted, empties itself, follows its record, asks before it discards,
disables its inputs, whose hook it uses and what success does to it. `Forms` is
the behaviour they have in common. What is entered is known by the opening it was
entered in: the entries of one opening are told from those of another, not from
one another. The question whether to discard belongs to the form, not to its
opening: `CreateCourtCaseDrawer` stays mounted and does not take the question back
when its request succeeds (`CreateCourtCaseDrawer.tsx:81-85`), so that the
question outlives the drawer it is about (`Shut`).

`Lists` does the same for 13 lists: `box`, the 300 ms `timer`, the `filters` on
the screen, those `queued` in a transition of React, the last answer (`table`),
the ticked positions and the records meant by them. All filters but the search are
one switch; the lists that set theirs in a transition also set some outside of one
(`AtOnce`: the chips of most, two filters of `EvidenceTab`); sorting changes
neither what is listed nor the page.

`CaseWizard` has the three steps with their own inputs, the copies that Next
makes (`stepData`) and the request.

### Mappers, HostTable, Dialogs

`HostTable` says for 13 pages which dialogs they have (under the names of
`FormTable`), for which statuses of the record and from where each is opened, and
which variable of the page says what record it is about. `Mappers` is what the
mappers do to a status, as far as a page decides by it what it offers. `Dialogs`
is the behaviour: `Choose`, `HandOver` from one dialog to another, `Dismiss`,
`Confirm`, `PostSucceeds`, `PostFails`, and `RowsChange` when the list is read
again. `picked` remembers what record the officer opened each dialog for, so that
it can be compared with what the dialog shows and its request names.

### MC modules and proofs

The `MC...` modules name the model values, the kinds of requests each slot may
carry, and the pairs of hooks and queries. `MCScreens` puts the form, the list,
the wizard and the dialogs of a page beside one another: a behaviour follows one
of them, for none reads the state of another. Each component has its theorems in a
module of its name, `...Proofs`; those of the wizard, the dialogs and of
`MCScreens` are in `ScreensProofs`. The definitions marked "Mutant" in
the modules are plausible slips of the code; each property is violated when one
of them takes the place of the definition it changes.

## 4. Runs

| Run | Question | Bounds |
|---|---|---|
| `SessionsFailing` | Does a removed session stay removed, is no request that comes after the removal let in, and does an open session expire? (`NoLateAcceptance`, `InvalidatedForGood`, `KeysExpire`, and `KeepsPromise`, the refinement of `SessionPromise`) | 1 session, 3 requests of any kind (a plain use of the session is one that fails once accepted), 2 access tokens, failures |
| `SessionsLimit` | By how much do overlapping logins exceed the limit, and how does a session leave the index? (`TypeOK`, `ConcurrencyLimit`, `IndexLoses`) | 3 sessions, limit 1, 2 requests that both open sessions (login and reset; login, logout and changed password), failures |
| `SessionsVanish` | Does what late touches recreate disappear? (`RemainsVanish`) | 2 sessions, 2 requests, one of which opens sessions, no refresh, no failures, fairness |
| `ProceedingsRace` | What holds however two requests of any kind race (`TypeOK`, `UniqueRows`, `TerminalVerdictCloses`, `CourtFollowsReferral`, `SentencesFollowConviction`, `ShortWaits`, `DeletedStays`, `AutoCloseConcluded`) | 1 charge, 2 requests, all operations |
| `ProceedingsEnd` | Can the waits for locks close a circle? (`RequestsEnd`) | 1 charge, 2 requests, 6 operations, fairness |
| `ClientTab` | Does the client refresh once, serve its queue, keep the promise of a request and settle it? (`TypeOK`, `SingleFlight`, `QueueServed`, `RefreshOnce`, `KeepsPromise`, `CallsSettle`) | 1 tab, 2 calls, 1 login, 3 access tokens in use at a time and refreshes without end, lost answers, the refresh cookie may expire, fairness |
| `IdleTabs` | Is the warning on the screen when the time is up, does it stay, and does absence end the session? (`TypeOK`, `WarnedFirst`, `WarningStays`, `IdleEnds`) | 2 tabs, timeout of 3 ticks, warning 1 earlier, 2 logins, 2 logouts in flight, fairness |
| `CacheFollows` | Does a page take anything for valid that is older than what it was told, and does a polled query catch up? (`Told`, `CatchesUp`) | every hook with every query it tells or should, 2 mutations and a fetch in flight, 2 writes, fairness |
| `Screens` | Forms, lists, wizard and dialogs: `ScreensTypeOK`, `OwnEntries`, `OneAtATime`, `AskedFirst`, `ClearedStaysClear`, `SearchSettles`, `PageExists`, `SendsShown`, `ActsOnChosen` | every form with 3 openings and 2 requests; every list with 3 records on pages of 1, 2 texts; 2 entries and 2 officers; every page with 2 records and 2 requests |

The bounds are enough for what they ask: two requests reach every overwrite of a
checked value, a third lets a refresh, a touch and an invalidation of one session
overlap; with a limit of one, two openers and three sessions a login overlaps
another, a sweep and what they leave behind. Two calls are a leader and one that
waits, or two that lead different refreshes, and the three tokens are those that
they and the cookie can hold at a time; two tabs sign each other out; two
mutations with a fetch give every order of what a query depends on; the third
opening of a form meets the late answers of the first two; three records make a
page that goes when one of them does. What does not depend on the bounds is proved
(section 5). Symmetry is used over sessions, charges and requests that carry the
same kinds, and not in the runs with fairness.

`SessionsLimit` leaves out uses and refreshes, which change neither the index nor
who is in it; the theorems have them all. Failures, refreshes and a second opener
are left out of `SessionsVanish` because with any of them `RemainsVanish` is
false: a refresh of a deleted session, a touch that fails before its `EXPIRE`, or
a login that is swept before it writes its tokens each leaves a key without an
expiry, which nothing removes.

Deadlock is not checked in runs where the system may rest: a deleted case
without a court case receives nothing more, a bounded set of operations runs out,
and an officer may leave a page alone.

`WarningStays` excludes the steps of a tab in which a status transition is in
flight: its hook closes whatever the slot holds when the answer comes, the warning
included, and the officer is then logged out with the warning gone from the
screen. `WarnedFirst` names the same case (`missed`), and no other: that a read of
the session restarts the time and leaves `warningShown` set takes no warning away,
since the old one is still there. `CallsSettle` supposes that from some time on no
token that somebody holds lapses: without it TLC shows a request that waits for
one refresh after another and never settles, since a queued request is not marked
as tried again. `PageExists` excludes the steps in which the officer turns the
page, for the number of pages is that of the last answer, and those in which
records go; the list then shows an empty page. `ActsOnChosen` excludes pages of
`KeepsApart` (see below). `SendsShown` is about the first two steps and the
officers of the request, not the last step's inputs on the screen, which can be
changed while the request runs.

### Code and texts at odds

Three runs show the code at odds with its texts, and are findings of `PROJECT.json`:

| Run | What the code does | What the text says |
|---|---|---|
| `ForeignCache` | a forced logout empties neither the query cache nor its copy on the disk: the next officer on the device is shown the lists of the last (each login stands for another officer) | `ccms-frontend/Instruction.md:1865`, `:1939` |
| `BulkTargets` | rows are selected by position, and a bulk request names positions, or nothing | `ccms-frontend/Instruction.md:245` |
| `VerdictRace` | two requests both find no terminal verdict, and the second replaces that of the first | `app/modules/legal/service.py:156` |

Of these the model shows more, for which no run is kept:

| What the code does | Where | What the text says |
|---|---|---|
| two concurrent logins both find room, and the officer has a session more than the limit (`ConcurrencyLimit` says that it is no more than that) | `session_manager.py:109` | `Frontend_Guide.md:19` |
| a refresh recreates a deleted session key without an expiry (`KeysExpire` and `KeepsPromise` say that it is no open session) | `redis_client.py:91` | `Frontend_Guide.md:17` |
| a sweep deletes an index entry it has not read, and the session outlives every later reset (`IndexLoses` says that it is the only way) | `redis_client.py:204` | `Frontend_Guide.md:828` |
| the status endpoint of case management moves a terminal charge, a sentenced one too | `case_management/service.py:1117` | `app/modules/legal/service.py:319` |
| a verdict closes a case with an unresolved charge that is not attached to its court case | `app/modules/legal/service.py:196` | `app/modules/legal/service.py:215` |
| a status request closes a case while another one files or reopens a charge, or overwrites a status it has not read | `case_management/service.py:212`, `:308` | none speaks of it |

`OfficersList` and `DepartmentsList` keep the record of all their dialogs in one
variable, which closing any of them clears. No text of the repository speaks of
it, so that there is no finding; but without `KeepsApart` TLC breaks
`ActsOnChosen` for them in six states: the officer confirms dialog A for one
record, closes it, opens dialog B for another, and the answer to A takes B off the
screen, which stays raised; when the officer then opens A, B is shown with it, for
a record it was not opened for.

### Fairness

`SessionManager!FairSpec` assumes that the event loop runs every accepted request
on (weak fairness of its next step, which nothing blocks) and that Redis drops
expired keys. `CaseProceedings!FairSpec` assumes strong fairness of the next step
of each request: the step may wait for a row lock that others take in turn, and
PostgreSQL queues the waiters of a lock. `ApiClient!FairSpec` assumes that every
request is answered or times out (`timeout: 30_000` of `client.ts`) and the
callbacks of an answer run, and that a page whose address was changed is left;
that tokens cease to lapse is no fairness but the hypothesis of `CallsSettle`.
`IdleTimeout!FairSpec` assumes that time passes, intervals fire and logouts end,
not that the officer leaves; a tab that the browser freezes, or a computer that
sleeps, is outside the model. `IdleEnds` is about the tabs that show a session
when the officer leaves: one whose read of the session failed shows none, has no
timer and ends nothing, while its cookies last. `QueryCache!FairSpec` assumes weak
fairness of the interval of a polled query, and strong fairness of `Read` and
`Fetched`: a fetch may fail again and again, but not for ever. `ListFairness`
assumes that a timer fires and React commits its transitions. No client or officer
is assumed to do anything, and nothing is assumed of failures.

## 5. Proofs

The `...Proofs` modules are checked by TLAPS for every value of the constants,
from the named assumptions of the modules alone (the ranges of the constants, and
a null value outside of the sets); `SessionsLimited` alone has a hypothesis of its
own, that there are finitely many slots for requests, without which there is
nothing to count.

**Sessions.** `TypeCorrect`, `LateRequestsRefused` (`NoLateAcceptance`),
`InvalidationHolds` (`InvalidatedForGood`) and `RemovedSessionsStayRemoved`
(`DeadStaysDead`). `NoLateAcceptance` is not inductive: a late request must be
followed through its steps. The invariant says, for each request by its program
counter, that a late one still before `ReadMeta` finds its session dead or its
token revoked - the reason for which it will be refused - and that one past
`DeleteHash` has a dead session and a revoked token. It rests on the monotony of
`used`, `revoked` and `Dead`, which one lemma establishes for all steps: only
`WriteMeta` writes `created_at`, and only to an id that was never used.

`SessionsKeepPromise` (`KeepsPromise`) is the refinement of `SessionPromise`, for
any sessions, requests, limits and failures. `AskFacts` evaluates the mapping at
each step of a request and `AskMoves` says that only the request that moves asks
something new; a command that leaves `created_at` where it is leaves every life
alone (`LifeStays`), and a `DEL` closes exactly the open sessions among its keys
(`DeleteCloses`). Then every action is one action of the promise or a stutter;
the invariant above is needed where a request leaves `readMeta` or `loadOfficer`,
to know that a late one has a dead session and is never asked at the second.

None of the theorems restricts which requests overlap. `OpenSessionsStayIndexed`
(`IndexLoses`): `Unindex` comes after the deletion of the key, which by the
invariant is final; what else takes entries away is a sweep, whose `DEL`
removes with the index the keys of all the sessions it has read.
`SessionsLimited` (`ConcurrencyLimit`): a request between its check of the limit and
its `SADD` is `Pending`, and `LimitInv` says that the entries and the pending requests
together are fewer than the limit and the openers together. A request that passes
the check has found fewer entries than the limit, or has deleted them all, and
there are never more pending requests than openers; the `SADD` turns a pending
request into an entry; and nothing else adds either.
`SessionKeysExpire` (`KeysExpire`): `KeyInv` follows the key of a new session. It has
an expiry from its second command on unless that fails (`Bare`), and nobody
holds its tokens until its last (`Unknown`); a late write to a deleted key brings
no `created_at` back.

**Proceedings.** `TypeCorrect`, `RowsAreUnique`, `TerminalVerdictsClose`,
`CourtsFollowReferral` and `SentencesFollowConvictions`. The invariant adds
what requests in flight know: a request carries a value of the column it will
write (`Fits`), a request for a court case was let in by a referral, a request
for a sentence by a conviction, and past its insertion it is alone with its
charge, which has no committed sentence (`SentenceAlone`). That every arrival
is of one form (`Arrivals`) keeps the proofs to one case for all of them.

`WaitsAreShort` (`ShortWaits`), `ClosuresAreConcluded` (`AutoCloseConcluded`) and
`DeletionsStay` (`DeletedStays`) hold for any number of requests of all endpoints.
`LockShape` says of each request at each of its steps which of the two row locks
it holds: that of the court case is held by a request that records a verdict,
before its commit, and that of the case only by one that commits; so who waits for
the court case waits for one that waits for the case at most, and who holds the
case waits for nothing. `ClosureShape` says that a request that is about to close
the case writes a closing date or has read the verdict of a court case that had
one, and no request takes a closing date away.

**API client.** `TypeCorrect`, `OneRefresh` (`SingleFlight`), `NobodyForgotten`
(`QueueServed`), `NoSecondRefresh` (`RefreshOnce`) and `ClientKeepsPromise`: the
client implements `RequestPromise` under the mapping that forgets tokens, queue
and refreshes (`StatusOf`). TLC has one tab and two calls, the theorems any number.
Each action is first shown to have one of a few shapes for the calls - one of
them moves to another phase, some end, some are sent again - and the invariant is
shown for the shapes: a call that leads is marked as tried again and was led once
(`LedOnce`), one that waits does so beside a leader (`LedBySome`, `Waiting`), and
the server has executed one that it accepted once, the others not at all
(`RunOnce`). That last part is what the refinement needs: a request is
only sent again from a phase that a 401 led to.

**Idle timeout.** `IdleTypeCorrect`, `IdleWarnedFirst` (`WarnedFirst`) and
`IdleWarningStays` (`WarningStays`). The invariant says of each tab that
past the threshold the warning was shown unless the interval of this tick is
still to come, which holds since a tick passes only when every interval has fired and
the threshold is before the timeout; and that a warning that was shown is still on
the screen, or was taken away by a late transition (`missed`), whatever restarted
the time in between.

**Query cache.** `CacheTold` (`Told`), for every pair of a query and a hook in the
tables and any bounds on versions and fetches. The invariant (`CacheInv`) says
that the pair stays one of the tables (`Link`), that what the page was told is no
newer than the records, and that neither a fetch in flight, unless `passed`, nor a
cached answer that is taken for valid, unless `behind`, is older than that. Why a
hook's keys meet those of the query it tells is in the tables: the proof goes
through them by kind of record, and each hook and query contributes one fact -
which root its keys begin with and which of them it invalidates - which is then
used without unfolding the tables again.

**Forms.** `FormTypeCorrect`, `FormsSendOwn` (`OwnEntries`), `FormsSendOnce`
(`OneAtATime`) and `FormsAskFirst` (`AskedFirst`), for every form of the table.
They need that a question is asked only by a form that asks and is open or stays
mounted, that the inputs hold entries of the current opening only, that the form
knows of its entries, and that requests of forms whose hook outlives an opening
stay theirs; and of the table that each form empties itself, which one lemma goes
through.

**Lists.** For every list, any records, texts and page size. `ListsStayCleared`
(`ClearedStaysClear`): the invariant adds that a list with a debounced box, and
only such a list, has a timer, and that after a clear its box is empty, so that
the timer has nothing to bring back. `ListsTyped`: no answer has more rows than a
page, since no two records have as many before them (`BeforeDiffers`) and those of
a page differ in that number modulo `PageSize` (`PageBounded`). `ListPagesExist`
(`PageExists`): `TurnsAway` says that filters that wait in a transition name the
first page or another than the one on the screen, so that a commit that keeps the
page number shows the first page, which always exists; and more records make no
fewer pages (`PagesGrow`).

**Wizard.** `WizardSendsShown` (`SendsShown`). The invariant adds that a step that
was left forwards still holds what Next copied (`CopiesCurrent`), and that the lead
officer is never among the others.

**Dialogs.** `DialogsActOnChosen` (`ActsOnChosen`), for every page of `HostTable`
and any records and requests; `KeepsApart` is part of the property. The property
is not inductive, for it speaks of dialogs that are shown, and a raised one may
come to be shown by the step of another. The invariant (`DialogInv`) says of every
raised dialog that it is about the record it was opened for (`Chosen`), and of
one that stacks that the dialog below is raised too (`UnderStacked`): so when none
is shown no raised one uses the variable that closing does not clear, and the next
that is chosen takes it from nobody (`NoneKept`). What it needs of the pages is
`Formed`: a stacking dialog stands on one with the same variable that sends nothing
and that no other dialog closes. One lemma goes through the 13 pages for it
(`TablePages`).

**Screens.** `ScreensTyped` (`ScreensTypeOK`), from the invariants of the four
components: a step of one screen leaves the variables of the others.

Every invariant and action property that a passing run checks is thus stated by a
theorem. Only model-checked is liveness: `RemainsVanish`, `RequestsEnd`, `CallsSettle`,
`IdleEnds`, `CatchesUp` and `SearchSettles`. Liveness under fairness and ENABLED,
induction over data and RECURSIVE operators are out of the prover's reach; the
modules have no recursive definition.

## 6. Not modelled

The parts of the backend that the plan (section 2) still has are marked
`not_modelled` in `PROJECT.json`. For good, the models leave out the reporting
queries, the static permission tables, middleware, logging and startup checks,
and the views, charts and layout of the frontend, which keep no state or only pass
it on.

The frontend is not composed with `CaseProceedings` or the other backend modules:
it calls many endpoints that the backend does not have, or has under another
contract, so that the composition would describe neither. Between `ApiClient` and
`SessionManager` the composition is the promise of step 8 of the plan.

Within the modelled parts these are left out:

* of the backend: names, dates, notes and audit texts, the second-by-second
  arithmetic of token lifetimes, and the connection pool;
* of the API client: the 30 seconds themselves, errors other than "no success",
  and which page a query belongs to; which queries `persister.ts` lets on the
  disk is one case, the lists;
* of the query cache: structural sharing, the retries of a fetch one by one (they
  are one fetch that fails or not), `placeholderData`, and windows that are
  offline. Every fetch and mutation is of one record; a hook that counts records
  shown elsewhere is looked at only for the summary of a case. The models ask
  whether a hook tells the queries below the root of its own keys;
  `useAssignHeadOfficer`, for example, leaves the queries of officers alone;
* of the forms: the inputs one by one, their validation, uploads and permissions.
  What an officer may do next by the status of a record is in `HostTable`. That
  `UpdateChargeStatusDrawer` convicts a charge by posting a sentence, which the
  backend accepts for a convicted charge only, is a matter of the composition
  above;
* of the lists: sorting, the filters one by one, and the time of an answer, which
  is read and shown in one step, as a list keeps the last answer until then;
* of the wizard: the search for officers, which changes nothing that is sent;
* of the pages: navigation between them, which unmounts all of their dialogs, and
  the roles a person already has.
