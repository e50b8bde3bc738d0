# ComplySense in TLA+

Specifications of the parts of ComplySense that keep state which several requests change at
once: accounts, sessions and password resets; assessments and the work that follows from
them; the governance registers (policies, departments, audits, incidents, vendors, tenants);
the AI service with its index, retrieval and conversations; and the session of the web
client. Each part is a module of state and actions translated from the source, checked by
TLC on small instances; what is proved with TLAPS holds for every value of the constants.

    tlasany MCAuth.tla
    tlc -workers 2 -config auth_roles.cfg MCAuth
    tlc -workers 2 -config governance.cfg MCGovernance
    tlc -workers 2 -config assistant.cfg MCAssistant
    tlapm GovernanceProofs.tla

`PROJECT.json` lists the components, the runs and their properties, for each property a
mutation of the code that breaks it, the source lines every definition stands for, the
findings, the hazards and the theorems.

## The system

ComplySense is a multi-tenant compliance application. A React client talks to a FastAPI
backend (`backend/app`), which keeps its state in PostgreSQL and its files and control
library in MongoDB, and forwards questions to a second FastAPI service
(`backend/ai_service`) that answers from a FAISS and BM25 index with a language model. There
are no background workers: everything happens in a request. A request has one database
session and one transaction (`database.py`, `get_db_session`), at READ COMMITTED, committed
by the handler; the event loop interleaves requests at every `await`, and several server
processes may run at once.

| Component | State | Operations | What makes it correct | Modules |
|---|---|---|---|---|
| Authentication (`services/auth_service.py`, `core/deps.py`) | `users`, `user_sessions`, `password_reset_tokens` | register, login, refresh, logout, change/forgot/reset password, assume and exit role | throttling holds under concurrent attempts; a token resets once; a reset ends what was there before; no session acts in an unjustified role | `AuthTables`, `Auth` |
| User management (`routers/users.py`) | `users`, reviewer links | create, invite, update, role change, unlock, reset, toggle | agrees with the authentication service about counter, block and roles; links reviewers | `Auth`, `Departments` |
| Assessments (`routers/assessments.py`) | `assessments`, `assessment_responses`, `compliance_results`, `compliance_gaps` | create, save an answer, submit | one answer per question; result and gaps agree however often it is submitted | `ComplianceTables`, `Assessments`, `Compliance` |
| Tasks, controls, evidence (`routers/tasks.py`, `controls.py`, `evidence.py`) | `mitigation_tasks`, `control_assignments`, `evidence_documents`, GridFS | create, update, submit, upload | a task refers to a gap that exists; assignees are told; every row has its file | `Tasks`, `Compliance` |
| Notifications (`repositories/notification.py`) | `notifications` | one, many, a role; mark as read | whoever must act is told | `Inbox`, `Tasks` |
| Policies (`routers/policies.py`) | `generated_policies` | draft, update, edit, approve, reject | approval stays with another role than writing; the decision is heard | `Policies` |
| Departments (`routers/departments.py`) | `departments` | create, update, status, link a reviewer | one department for a name; reviewers review | `Departments` |
| Audit (`routers/audit.py`, `assessor.py`) | `audit_observations`, `audit_reports` | observe, edit, delete, report | what a report counted stays in it | `Audits` |
| Incidents (`routers/incidents.py`, `NewIncident.tsx`) | `incidents` | log, update, list the overdue | the deadline; officers are told | `Incidents` |
| Vendors (`routers/vendors.py`, `ai/vendor.py`, `ai/proxy.py`) | `vendors`, `vendor_risk_assessments` | create, assess, analyse a contract | one assessment for an analysis, whatever times out | `Vendors` |
| Institutions, seed, schema (`routers/institutions.py`, `seed.py`, `schema.sql`) | all tables | delete a tenant, seed the database | foreign keys allow the order; all or nothing | `Tenants` |
| AI service: index (`rag/indexing`, `main.py`, `routers/admin.py`) | four files, the copy in memory, a ready flag | rebuild, load, reload, crash, restart | a query sees one whole index; ready means loaded | `Library`, `IndexStore` |
| AI service: chunking (`atomic_chunker.py`) | none | cut a long text | the loop ends, and loses nothing | `Chunking` |
| AI service: retrieval (`rag/retrieval`, `agents/base.py`) | none | filter, fuse, follow references, fill the context | no other tenant's text; fusion respects the rankings | `Retrieval` |
| AI service: conversations (`rag/generation/conversation.py`, `routers/compliance.py`) | `ai_conversations` | history, answer, save a turn | no turn is lost; conversations stay apart | `Conversations` |
| Client session (`lib/api.ts`, `authStore.ts`, `AppRouter.tsx`) | token, queue of refused calls, cookie | send, refresh, resume, reload | one refresh for many refused calls; no call waits for ever | `ClientSession` |

What is hard here is the same nearly everywhere: a handler reads rows without locking them,
decides in Python, and writes; requests commit in between. Some writes are guarded again by
the statement itself (the UPDATE that consumes a reset token, the author and status in the
UPDATE of an observation), others are not (the rotation of a session, the turns of a
conversation). Two stores are written without a common transaction (evidence), or files
without any (the index). Clients send requests without waiting for the ones before (the
wizard), give up on answers that still come (the proxy), and share one cookie between tabs.
`PROJECT.json` lists the hazards line by line.

## Authentication: `AuthTables`, `Auth`

`AuthTables` is the state and the repositories' statements: `users`, `sessions` and `tokens`
are functions from ids to rows, and each operator is one method of `repositories/users.py`
or `sessions.py`. `Auth` has an action per endpoint. A handler is split where another
request can commit in between: a *read* action puts what was read into `req[r]`, a *commit*
action writes using what was read. Reads before the first write are taken at one instant,
since nothing is decided between them. A row lock lasts from the write to the commit. Two
handlers hold a lock while they wait for another: `reset_password` locks its token by the
UPDATE that consumes it (`ResetConsume`), then the account (`ResetBegin`), and reads the
sessions its DELETE removes, before it commits (`ResetCommit`); `forgot_password` locks the
account's unused tokens one after the other (`ForgotLock`), in the order in which the scan
meets the rows, then inserts one. The writes of the others wait for `RowFree` and
`TokenFree`. They hold no lock while they wait: they write one account, or an account before
sessions, and whoever writes sessions first (`refresh`, `logout`, the role endpoints) takes
no lock of a token or an account after that. So the order is tokens, accounts, sessions, and
among tokens that of the rows; the model keeps the first two as locks. That two scans of one
account meet its tokens in one order is what PostgreSQL does for one plan over one table,
and an assumption: `NextToken` states it, and its variant `AnyToken`, with no order,
deadlocks.

Abstractions: one institution; a blocked_until or an expiry is `"future"` or `"past"` and a
clock action passes it; passwords are compared, not hashed; the expiry of an access token is
not modelled, so that more requests pass than the code lets through; audit rows, append-only
and never read by these handlers, are left out. Accounts and roles are inserted by the seed
or by `register`. Instances name in `Stimuli` which endpoints are called.

History variables record what the properties speak of: `held` (the primary roles an account
has had), `resets` (completed resets; a session carries in `era` how many there were when
its login committed), `windows` (blocks that ran out since the counter was cleared), and
`races`: the logins or accounts of which two requests have overlapped. `RotationUnique`,
`ResetRevokesSessions` and `OnePendingToken` say that what the documentation promises can
fail in those overlaps only; `OneSessionPerLogin` and `AllSessionsRevoked` state the promise
without the exception, and fail.

A login that verified the old password before a reset and commits after it opens a session
that counts as one after the reset; that race is a listed hazard that no property states.
Nor does one state that a block outlasts another's login: `reset_failed_attempts` clears counter
and block together (`BlockIffThreshold` still holds), so a login that was let through before
the block lifts it.

## Compliance: `ComplianceTables`, `Assessments`, `Tasks`, `Compliance`

`Assessments` has the endpoints of an assessment and the wizard (`AssessmentRunner.tsx`),
which sends a save for every selection and waits for none. A save looks the question up,
then updates or inserts. The update sets `updated_at`, which `assessment_responses` does not
have in `schema.sql`, so it always fails. A submission holds the row of its assessment from
its first statement (`SubmitRead`) to its commit, which is why submissions of one assessment
are serialized and saves are not; it fails when a task refers to one of the gaps that it
deletes. The payload allows "yes", "no", "partial" and two longer forms; the seed also
inserts "Not Applicable", which a submission counts as non-compliant (it counts everything
but a yes) and for which it makes no gap. `Seeds` is the set of databases a behaviour starts
from: empty, or with an assessment that `seed.py` has answered, half or in full, with a
result of its own that no submission made. `submitted` are the assessments that a submission
has completed. `Tasks` has tasks, control assignments and the evidence upload, whose file is
in GridFS before the row is inserted and stays there when the transaction fails.
`Compliance` composes the two over the shared tables and adds the failure of a request at
any step (`Fail`). That a submission may miss an answer the wizard has still to send is the
page's doing, and no property of the submission forbids it.

Left out: titles, priorities, due dates, departments, notes and percentages, which nothing
decides by; the answers "fully implemented" and "not implemented", which the submission
treats as "yes" and "no". Handlers with one statement that matters are one action.

## Governance: `Inbox` and six areas

`Inbox` is what the areas share: the accounts of one institution with their primary role,
which user management sets to any role there is (`RoleNames`, "Super Admin" included), what
the seed's matrix permits, and the notifications as a set `told` of pairs of an account and
a subject. `create_for_role` is `Holders`: it tells those whose primary role it is. A
handler decides by the active role of the *session* (`deps.py:56-83`), which a change of the
account's role leaves as it is; since an account may have a session from each of its times,
`May` allows what any role it has `held` permits, and what any role that these could assume
permits. `held` also says what most promises hold up to; `Steady` accounts have had one
role. `req` is what a request under way has read, as in `Auth`, for the handlers that read,
decide and write.

- `Policies`: every handler writes with one statement, so each is a step. The text is
  abstracted to who wrote it last. Approval and rejection are accepted in any status, an
  update refuses only the two decisions, and a decided policy can be edited and moved on.
- `Departments`: `create_department` looks the name up without regard to case and inserts
  under a constraint that compares case; `update_department` reads the reviewer's role. Both
  are split (`CreateRead`, `CreateCommit`, `UpdateRead`, `UpdateCommit`,
  `DepartmentRefused`). `create_user`, `invite_user` and `update_user` link reviewers
  without that check, which `unchecked` records; `renamed` records renames and creations
  that overlapped.
- `Audits`: a report is a row; its observations are read when it is summarised
  (`SummarizeReport`, after the row is committed) and whenever it is opened (`Shown`).
- `Incidents`: time in hours; the form sends the user's wall clock without a zone, and the
  backend takes it for UTC. Clocks are ahead of UTC or behind it. The list of overdue
  incidents ends after `PageLimit` (50 in the code), newest first.
- `Vendors`: an analysis of a contract waits for the AI service between reading the vendor
  and inserting the assessment; the proxy gives up after 45 seconds (`AnalysisFailed`).
- `Tenants`: the tables, the foreign keys with their cascades, and the two transactions that
  go through all tables. The database is seen through one institution: the tables that hold
  rows of it, the pairs of which a row of the one refers to a row of the other, and the
  pairs (`foreign`) where the row that refers belongs to another institution, by the columns
  that take an id without asking whose it is (`CrossLinks`). Other requests commit rows
  between the statements of a deletion (`OthersWrite`), and every statement sees them; a row
  that would refer to one already deleted waits for the deletion's end.

`Governance` composes them. No handler of one area reads a row of another, so a behaviour
serves one area (`served`) while roles change; that makes the state space a sum and not a
product. What they do share, accounts and notifications, is the subject of `AwaitedKnown`,
which spans three areas.

Left out: names, texts, severities and dates that nothing decides by, version numbers of
policies, timelines and checklists, audit rows, and updates of a single column that no
property reads (a vendor's or an institution's data).

## The AI service and the client: `Assistant`

- `IndexStore`: one process with one event loop. What a task does between two awaits is one
  step, unless the process can be killed in it: writing the files has no `await`, so it is a
  sequence of steps in which `running` holds the loop. A rebuild reads the knowledge base (a
  file it cannot read or download is logged and left out, `found`), awaits MongoDB (which
  may fail on the way, and the rebuild goes on with what it got), writes the chunks, the
  vectors and the keywords over the ones in use, awaits its log and reloads. Every step may
  fail or be cut short; a restart loads what it finds, and `reload_indices` swallows its
  exception, whether a file is missing, cut short, or whole and not read (`unread`); what a
  failed load leaves in memory answers nothing. `Library` is the promise: one snapshot,
  replaced as a whole, and damaged only by a rebuild that was cut short. `Promise` is the
  refinement mapping: `built` is the snapshot written last (or `Damaged`), `serving` is what
  the three parts in memory agree on (or `Mixed`).
- `Chunking`: the loop of `_split_large_text`, position by position, over all texts of
  letters, spaces and stops up to a length. `NextStart` is `max(split_at - overlap,
  split_at)`, which is `split_at` for every overlap.
- `Retrieval`: the pure functions from two rankings to the context of the model, and the
  outcome of a question. The rankings are what the two searches may return: any. The filter
  compares names of frameworks by looking for one in the other; `Matches` is that relation,
  any, and a chunk without a framework is everyone's. The role is the one that reaches
  `BaseAgent.execute`: the caller's, or, where a router passes none, the agent's own
  (`base.py:90-95`). Filter, merge and references are stated by what they order: `Arranged`
  is a finite set sorted by an order, and the three apply it to the ranks kept, to the first
  place of each key by score, and to the mentions of sections. Scores are sums of integers
  (`Gain`, `Scale`) in the proportions of 1/(k + rank); the source adds floats, so scores
  that are equal here might differ there in the last digit, and then two chunks change
  places that no property tells apart.
- `Conversations`: an ask reads the history, the model answers after an await, and
  `save_turn` reads the row again, appends and writes the whole column. The same person may
  have several asks under way, since the proxy's timeout does not stop the first.
- `ClientSession`: what the server decides and what a tab receives are separate steps.
  Sessions, refresh and access tokens are named by the rotation that made them. `stored` is
  the user in the local storage that all tabs share: a page that is loaded refreshes only if
  it is there, a refresh and the profile page put it there, the login page does not, and a
  tab whose refresh fails clears it for all.

`Assistant` composes the five; `area` is the one explored. They share no state except the
loaded index, which `Retrieval` takes as given.

## What TLC checks

| Run | Instance | Shows |
|---|---|---|
| `auth_roles` | 2 accounts, 3 roles, 3 sessions, 2 requests | types; no interleaving gives a session an unjustified role; one session per login, up to overlaps |
| `auth_throttle` | threshold 3, counter to 8, 2 requests | counter and block agree; every failure from the threshold on blocks; overrun by at most the requests under way |
| `auth_passwords` | 1 account, 2 passwords, 2 sessions, 2 tokens, 3 requests | tokens are spent once; revocation and one pending token, up to overlaps; no requests wait for each other in a circle |
| `auth_rotation_race` | violation of `OneSessionPerLogin` | two refreshes of one token both succeed |
| `auth_reset_race` | violation of `AllSessionsRevoked` | a refresh under way survives a reset |
| `auth_transitions` | violation of `AssumptionAllowed` | `allowed_role_transitions` is not read |
| `assessments` | 1 assessment, 2 questions, 3 answers, 1 task, 2 requests; empty or seeded | results agree with gaps and the answers that are not applicable; submissions add up; duplicates come from overlaps only; tasks keep their gaps |
| `work` | 1 task, 1 control, 2 uploads, 2 accounts, 2 requests | assignees are told; rows have files |
| `assessment_resave` | violation of `SelectionSaved`, one request at a time, no failures | a changed answer is not saved |
| `governance` | 2 accounts, 2 requests, 1 or 2 rows of a kind, two names equal up to case, zones -2 and 2, 9 hours, pages of one row, one write beside a deletion; about 660,000 states | two roles to write and approve; nothing waits unknown; reviewers, names, reports, deadlines and analyses are right up to the recorded overlaps; deletion and seeding are all or nothing |
| `assistant` | 1 + 1 documents and 2 rebuilds; texts up to 6; 5 chunks; 2 persons and 3 asks of one conversation; 2 tabs and 2 calls; fair; about 233,000 states | the index implements the library; texts are cut to their end or stand still where the code does; no foreign chunk; fusion respects rankings; turns are kept, conversations apart; logouts are justified; rebuilds and calls come to an end |
| `index_ready` | violation of `ReadyMeansLoaded` | the service is ready with nothing in memory |

Bounds of `Auth` and `Compliance`. Two requests at once are enough for every race between a
read and a commit, which needs one request to overtake another; a third adds no new kind of
step, since a request meets the others only through the rows, but it can close a circle of
waits, and `auth_passwords` has one. Three sessions are a login, its rotation and a second
login or a second rotation; two are enough for `auth_passwords`, where a refresh that
overlaps a reset needs its session and the successor; three answers to two questions leave
room for a duplicate. Ids run out: an action that needs an id starts while one is left
(`SessionIdLeft`, `TokenIdLeft`, `ResponseIdLeft`, `Fresh`), and the failure counter is
bounded by `AttemptsLeft`, far enough above the threshold for a second block. The bounds are
guards, so no request is stuck for want of an id.

Bounds of `Governance`. Two accounts, with any of the roles that matter in an area
(`MCAssignable`), are the one who acts and the one who should know; two departments with two
spellings of one name are the twins; a second observation is the one that is added or
deleted after a report. The hours in `Times` lie on either side of the deadline of six
hours, moved by a zone of two ahead or behind; of two incidents a page of one hides the
older. An instance asks for at most as many analyses of a vendor as there are risk ids.
`TenantInit` starts with any one reference between tables, with or without one from
elsewhere, since a foreign key refuses by one; the seed then makes all. Other requests write
once (`MaxWrites`) during a deletion, into one of three tables (`Written`): one that is
deleted by its name, one that goes by a cascade, and one that most handlers insert into.

Bounds of `Assistant`. `Target` 4 with texts up to 6 gives texts of two and three windows,
with a window that begins with a space and one that ends a sentence in its second half.
`Candidates` 3 of five chunks, with a framework and a chunk without one, two tenants, a
shared key and a shared section name, and roles with the framework, with another and with
none, make the two rankings differ in every way the fusion tells apart. The history is one
turn (three in the code): enough to be cut. `MaxRotations` 1 bounds expiry and reloads,
which start the rotations; a second tab adds one, and is opened when the behaviour wants it.
Texts are cut once, asks and calls used once, and tabs end on the login page, so
`CHECK_DEADLOCK FALSE` is set in `assistant.cfg`.

Symmetry is declared for ids that are compared for equality only, and never in a run with a
liveness property.

Fairness. `Assistant.FairSpec` assumes strong fairness of each rebuild's pipeline, since
asyncio takes its tasks in turn but other rebuilds hold the loop for a while, and weak
fairness of the cutting loop, of each tab's refresh (the browser and the server answer or
the connection fails) and of each call. Nothing is assumed of users, arrivals, failures,
kills, expiry or clocks.

## What is proved

`AuthProofs`, for all sets of accounts, roles, passwords, ids and requests, from the
assumptions that the modules name (the seed's roles and password are of the right kind, the
threshold is positive, requests and token ids are finite):

- `TypesHold`, `TypeCorrect`: `Spec => []TypeOK`. `TypeOK` is not inductive: a failed login
  increments the row it has read, which has to be an account. The invariant `Typed` adds
  that every row and every request refers to rows that exist (`OwnersExist`, `DrawnTokens`,
  `DrawnSessions`), which holds because accounts, sessions and tokens never go back to an
  unused id (`StepAccountsStay`, `StepSessionsStay`, `StepTokensStay`).
- `BlockIffThresholdHolds` and `FailureBlocksHolds`: each statement that writes the counter
  or the block keeps the two consistent (`ThrottleOperations`).
- `SessionRoleJustifiedHolds`: inductive with `RolesHeld`, which says of requests under way
  that what they have read was held by their account; `held` only grows.
- `ResetsSpendTokensHolds`: a reset under way holds a token that is not used and that no
  other reset holds, so its commit adds one used token for one reset; by the cardinality of
  finite sets.
- `RotationUniqueHolds`: inductive with `RefreshedAlone`, that a refresh of a login without
  an overlap presents the only row of that login and is the only refresh of it, and
  `RootsDrawn`, that a login's first id is never unused again.
- `ResetRevokesSessionsHolds`: inductive with `ResetsCover`, that while a reset is under way
  each row of its account is one it will remove or belongs to a login with an overlap, and
  `RefreshesCurrent`, that a refresh without an overlap carries the number of resets of now.
- `OnePendingTokenHolds`: inductive with `ForgottenAlone`, that a `forgot_password` without
  an overlap has read every token of its account that can be used.
- `NoWaitCycleHolds`: inductive with `ScanOrder`, that the tokens a `forgot_password` has
  locked come before those it still wants. A reset that holds its account waits for nothing,
  so a circle would be of `forgot_password`s only; the one whose next token is the last of
  all waits for one that wants a later one.
- `AttemptsPerWindowHolds`: inductive with `WindowsCounted`. While an account is blocked,
  its counter and the logins still under way are together within the bound for the next
  window, so that each of them can add one; when the block runs out, what is left belongs to
  that window. `AttemptsPerWindow` alone forgets the logins under way.

`ComplianceProofs`, for all numbers of assessments, questions, tasks, controls, uploads,
accounts and requests, from `NullAssumption`, `GapsSuffice` (ids are finite, and there is a
gap id for every response) and `OptionsAssumption`:

- `TypesHold`, `TypeCorrect`: `TypeOK` with `RequestRefers`, that what a request has read is
  still there when it writes, and `TasksRefer`, the foreign key of a task's assignment.
- `EvidenceHasFileHolds`, `AssigneesToldHolds`, `TaskKeepsItsGapHolds`: inductive given the
  types. The last rests on `SubmissionInserts`: a submission changes no gap of another
  assessment, and refuses to delete the gap of a task.
- `OneAnswerUnlessOverlapHolds`: inductive with `InsertsApart`, which says of a save about
  to insert that an answer found by now, or another save about to insert, is an overlap.
- `ResultAgreesWithGapsHolds`: by `SubmissionCounts`, that the new gaps are in bijection
  with the responses that are neither a yes nor not applicable; for every set of seeded
  databases.
- `SubmissionsAddUpHolds`: inductive with `CountsGrow`, that a submission holding its lock
  has read at least what the last result counted, and that no other holds the lock.

`GovernanceProofs`, for all numbers of accounts, requests and rows of each kind, and every
clock and zone, from the assumptions of the area modules (`Null` is none of the ids; the
roles given are roles; requests and risk ids are finite). All rests on `Peopled`: roles are
held as soon as they are given, and (`PeopledStep`) no step forgets a held role or takes
back a notification. Each area has an invariant over that:

- `FourEyesSafe`, `DecisionsSafe`: `PolicyFacts` says that creator, editor and approver have
  held, or could assume from one they held, a role that permits what they did. It is needed
  because `FourEyes` speaks of the moment the approver equals the editor, when the
  permission is long past.
- `AwaitedSafe`, `OverdueSafe`: by `SteadyBefore`, that an account with one role has had it
  before the step, so that it was among the `Holders` when the row was written. That the
  list leaves out only behind a full page is a comparison of finite sets: what precedes an
  incident in the list has no earlier deadline.
- `ReviewersSafe`, `TwinsSafe`: inductive with `Carried` (what a request that has checked
  carries was true of the role, and `held` only grows) and `NamesChecked` (a name found free
  is held by departments that count as renamed only, until the request writes).
- `ReportsSafe`: inductive with `Kept` also for the report whose count is still to come.
- `AnalysesSafe`: by counting, with the theorems on finite sets.
- `TenantsSafe`, `DeletionSafe`, `SeedSafe`: `DeletedAt`, `ClearedAt` and `SeededAt` number
  the statements of the transactions, and `JobFacts` says that what is left of the tables
  comes after the present statement, as long as nobody else has written. That a table's
  restricting children come before it is checked reference by reference against the foreign
  keys (`CleanupAllows` and its like). `TenantsSafe` starts from any set of references, also
  from other institutions, where the run starts from one of each. A deletion that others
  write into is right at its end for another reason: without the institution's own row no
  row of it is left (`NothingWithout`), since every row needs its owners.
- `GovernanceTypes`: `AreasInv`, the types of all areas with what requests, notifications
  and audits refer to.

`RequestAreas` says that no area starts or finishes a request of another; the area
invariants need no other fact about the rest of the system.

`IndexProofs`, for all sets of documents and any number of rebuilds:

- `IndexRefines`: `IndexSpec => ServesWholeSnapshots`, the refinement of `Library`. The
  invariant `Stored` says that each file is the snapshot written last, except those that the
  rebuild holding the loop has already replaced or a torn one has left (`WholeFiles`), and
  that a process that is down has nothing in memory (`WhenDown`). `ServesWholeSnapshots` is
  a property of steps, and needs it at each load.
- `ReadySafe` from `Stored`; `NewestSafe` from `Fresh`: what an undisturbed rebuild owes, of
  what it could read, it has read, and what is due is in the snapshot on disk and, once
  loaded, in memory.

`ClientProofs`: `LogoutsSafe`, for any number of tabs, calls and rotations; inductive with
`InOrder`, which holds as long as nothing went astray and no two tabs refreshed at once
(`Quiet`): there is one refresh at a time, with the newest token (`OneRefresh`); the one
session row is the newest, and the cookie names it unless an answer is on its way
(`TokenKept`); and nobody has cleared the storage, so that only a tab that was loaded before
the user was stored is on the login page (`NoneCleared`).

`ChatProofs`: `ApartSafe` and `KeptSafe`, for any number of persons, conversations and asks,
from `ChatInv`: rows hold turns of their owner (`RowsOwned`), what a save has read and what
the model was given belong to its person (`ReadsOwned`, `GivenOwned`), and a saved turn is
in its row once (`Settled`).

`RagProofs`, for every corpus, role, pair of rankings, limit, window and text, from
`RetrievalAssumption` (uploads have neither a section nor references, which is how
`index_builder.py` makes them) and `ChunkingAssumption`:

- `ForeignSafe`: a chunk that is merged was kept by one of the filters (`FilteredKeeps`,
  `LeadsOfKeys`), and the last chunk with a key that stands for it was kept as well; a
  section that is injected is of the framework of the chunk that refers to it, and of no
  institution (`MentionsAre`, `SecondaryAre`). `RetrievedPermitted` and `ContextAdmitted`
  put them together.
- `FusionSafe`: `ArrangedSorts` says that counting the members before each one sorts a
  finite set, from the cardinality of its initial parts; `FilteredRank`, that the filter
  keeps the order of what it keeps; `WeightOfKey`, that a score is the gain at the one rank
  of its key; `GainFalls`, that gains fall with the rank; `MergeSorts`, that the result is
  in the order of the scores. `RetrievedRespects` compares the two chunks.
- `RetrievalTypes`, from `RetrievalInv`, the three properties with the types of the
  rankings.
- `SplitCovers`: whenever the loop has ended, every character but spaces is in a part: the
  safety half of `SplitEndsUnlessStuck`. `ChunkInv` says that of what has been cut so far.
  `ChunkTypes` follows.

Scores and products are recursive functions over ranks. The theorems of the library on
induction take an operator, so `Inductive` states induction for a set instead, and each
proof applies it to the set of the lengths for which its claim holds (`SumExists`,
`ProductExists`).

`AssistantProofs`: `PartsImplemented`, that a behaviour of the composition is one of each
part, and with it the properties above for the composition that the run checks
(`AssistantRefines`, `AssistantSafe`, `AnswersSafe`) and `AssistantTypes`.

Every invariant and every property of steps that a passing run checks is so stated by a
theorem. Only model-checked are the three liveness properties: `RebuildsEnd`,
`SplitEndsUnlessStuck` (but for its safety half) and `CallsResume`, which need fairness and
ENABLED, beyond the prover; and the violations, which are behaviours that TLC exhibits.

## Findings

The five violations, each of a sentence in the code or its documents, are in `PROJECT.json`:
rotation (`auth_rotation_race`), revocation (`auth_reset_race`), the role table
(`auth_transitions`), the changed answer (`assessment_resave`) and the ready flag
(`index_ready`).

Noticed while modelling, with no run of their own:

- Assessments: `docs/compliance_ui.md:531` says answers cannot change after submission,
  while new answers are still accepted; `docs/system-audits/16-query-inventory.md:24` calls
  the submission idempotent, while it is refused once a task refers to a gap; an answer "Not
  Applicable", which the seed stores and the page does not offer, is counted as
  non-compliant (`assessments.py:280`) and has no gap (`assessments.py:286`).
- Accounts: the docstring of `exit_role_assumption` speaks of a fresh token pair that is not
  issued; deactivating an account leaves its sessions, which activating revives
  (`users.py:603`); `change_password` may write after a reset (`auth_service.py:269`); a
  session keeps the role it was opened in when the account's role is changed
  (`users.py:353`, `deps.py:56`).
- Departments: one account can review several departments (`schema.sql:206`); the message
  about an active user (`departments.py:183`) asks for the role only.
- Policies: a new policy may be created as approved, which an update refuses
  (`policies.py:291`); two new versions may get one number (`policies.py:117`).
- Incidents: the checklist's UPDATE fails every time (`incidents.py:434`); the wall clock of
  the form is taken as UTC (`NewIncident.tsx:58`, `incidents.py:53`), which
  `OverdueWithinZone` bounds; the list of overdue ones shows the newest 50, so the oldest
  are the first to disappear (`incidents.py:111`).
- Tenants: deletion is refused as soon as an observation cites evidence
  (`institutions.py:580`), and while a row of another institution refers to an account or a
  row of this one: a Super Admin who has created an institution stands in its `audit_logs`
  (`institutions.py:396-405`), and so keeps his own institution from being deleted.
- Index: a rebuild overwrites its files in place, so one that is killed leaves chunks and
  vectors of two rebuilds, which the next start loads (`faiss_store.py:57`; `Damaged` in
  `Library`), while `routers/admin.py:38` calls a rebuild atomic; a document that cannot be
  read is left out of a rebuild that reports success (`markdown_loader.py:256`); when
  MongoDB fails midway a fuller index is replaced by a poorer one (`index_builder.py:205`).
- Chunking: a window that begins with its only space never moves on
  (`atomic_chunker.py:44-72`), and the event loop with it; consecutive parts never overlap,
  since the next one starts at `max(split_at - overlap_chars, split_at)`
  (`atomic_chunker.py:70`), while its docstring (`atomic_chunker.py:49`) and
  `docs/RAG_Architecture_v2.md:205` speak of an overlap of 80 to 120 tokens. `Covered` asks
  that nothing is lost, with or without overlap.
- Retrieval: the top twenty are cut before the permission filter, which may leave a tenant's
  documents out; chunks of different uploads with the same first fifty characters are fused
  as one; referenced sections may repeat primary ones; a role with an empty list of
  frameworks sees all of them.
- Conversations: the proxy answers 504 while the service still saves the turn, so a retry
  stores the question twice.
- Client: two tabs that refresh at once rotate each other's session away, and the one that
  is refused clears the user that both have stored, so that the other is logged out when it
  is loaded again (`api.ts:77`, `AppRouter.tsx:65`); the login page does not store the user
  (`Login.tsx:53`), so a page that is loaded again before the first refresh lands on the
  login page; a call whose retry is overtaken by a later refresh fails although the session
  lives.
- Work: an evidence file whose row was not inserted stays for ever (`evidence.py:129`);
  `submit_task` tells the assignee it has read (`tasks.py:220`).

## Not modelled

- The compliance calendar: every statement of `routers/calendar.py` names the columns
  `description` and `updated_at`, which `compliance_calendar` (`schema.sql:599-614`) does
  not have, so each call fails and no state is reached.
- Dashboards, gap lists, health and every other read-only query.
- The audit trail (append-only, read by nothing that decides), mail, the event bus and the
  job registry (used by nothing yet), presentation in the client.
- Prompts, embeddings, the language model and the verdicts of sanitizer and validator, which
  are free choices in `Retrieval` and `Conversations`; the splitting of Markdown by
  headings.
- The demonstration data of the seed.
- Several worker processes of the AI service with files of their own.

## Plan

Done: authentication, compliance, governance, index, retrieval, conversations, client
session, and the proofs above. Left, in this order:

1. `ClientSession` composed with `Auth`'s refresh, as two views of one session row.
2. `EvidenceSaga`: upload and failure refined to an atomic upload with garbage, with the
   refinement proved from `EvidenceHasFile`.
3. The race of a login with a reset as a property: bounded by the logins under way, like
   `AttemptsPerWindow`.
