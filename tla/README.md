# actlabs-hub in TLA+

actlabs-hub is the back end of ACT Labs: one Go process (gin) in front of Azure
Table Storage, Azure Blob Storage, Redis, the Azure role assignments and
actlabs-server, the service that runs terraform.  `scripts/deploy.sh:59-60` sets
the container app to exactly one replica, so every model here has one hub
process, which may end and be started again at any point.  Within it every HTTP
request is a goroutine; nothing orders the calls of two requests, no table write
uses an ETag, and no key in Redis expires.  That is where the difficulties are,
and what the modules are about.

Contents: [1 Inventory](#1-inventory) · [2 Modules](#2-modules-and-the-code) ·
[3 Runs](#3-runs) · [4 Fairness](#4-fairness) · [5 Proofs](#5-proofs) ·
[6 Findings](#6-findings) · [7 Only model-checked, not modelled](#7-only-model-checked-and-not-modelled) ·
[8 Plan](#8-plan)

Paths below are relative to `internal/` unless they begin with another directory.

## 1 Inventory

| Component | State | Operations | Interacts with |
|---|---|---|---|
| **Deployments** (`handler`, `service`, `repository`/`deployment.go`) | rows of the deployments table, keyed by user and `user-workspace-subscription`; in Redis one list per user and one entry per row; the operation table | GET, PUT, DELETE `/deployments` (API key: called by actlabs-server), operation entries by a goroutine | table, Redis, Events; read by the monitor |
| **Deployment monitor** (`service/deployment.go:193-242`, `helper/recoverer.go`, `cmd/actlabs-hub/main.go:119-122, 221-235`) | local to a goroutine: what the listing has read, the retries left | tick, listing page by page, destroy request, panic and retry, stop | deployments table (not Redis), actlabs-server, root context |
| **Labs** (`*/lab.go`) | a JSON blob with versions per lab, supporting documents in a container shared by all lab types; in Redis a list of names per type, and a copy and a list of versions per lab | list, read, list versions, create, update with and without document, delete, upload or delete a document; owner and editor checks | Blob Storage, Redis; read by Assignments and Challenges |
| **Profiles** (`*/auth.go`, `helper/helper.go`) | rows of the profiles table: roles as one string | POST `/profiles` by the user, add or delete a role by an admin, role checks of the middleware | table; its answers guard Labs, Assignments, Servers |
| **Servers** (`*/server.go`) | rows of the servers table | register (checks Azure role assignments), unregister by user or admin, report activity | table, Azure authorization API |
| **Assignments** (`*/assignment.go`) | rows user + lab with a status and the times of the statuses | create in bulk, delete in bulk, report status, read | table, Labs (redacted lists) |
| **Challenges** (`*/challenge.go`) | rows user + lab with challenger, status and times | upsert a list, report status, delete if allowed, read | table, Labs (who may delete) |
| **Events** (`*/event.go`) | the events table, append only | CreateEvent (GetEvents is in no route) | called by Deployments |
| **Token verification** (`auth`, `mise`, `miseadapter`, `middleware/auth.go`) | none | verify a token by the MISE container, compare API keys | external container |
| **Configuration, logging, Redis client, rate limiter, health check, scripts** | none that changes | – | – |

### What is hard in each, and what makes it correct

* **Deployments.**  The list in Redis is filled by a GET (read table, then SET)
  and deleted by PUT and DELETE (write table, then DEL).  A fill may overtake a
  DEL; a DEL may fail, for instance because net/http has cancelled the context
  of a client that has gone; a table write may be applied and reported as an
  error; the process may end in between.  The key has no expiry, so a list gone
  stale stays.  Correct: it goes stale in no other way; whatever is answered has
  the rows of one past state of the right user, and of labs only what rows of that
  state hold (decoding fills one variable again and again, so that a row may show
  another's lab); success and its event follow the change; the operation log holds
  rows that were written.
* **Monitor.**  Listing takes long and rows change meanwhile; `select` takes a
  pending tick even when the root context is cancelled; the destroy request has
  neither context nor timeout; the loop can panic, and after 100 retries the
  Recoverer panics itself.  Correct: only rows that were there and due during
  this poll are destroyed, each at most once in a poll, and a deployment that stays
  due is destroyed in the end.
* **Deployments and monitor together.**  Both work on one table, the endpoints
  through Redis and the monitor past it, and the clients of the endpoints rely on
  what they were answered.  Correct: a deployment whose client was told before a
  poll began that it is gone, kept or being destroyed is not destroyed by that
  poll.
* **Labs.**  Read-through copies as above, but here the copies decide
  permissions: an edit loads the lab twice for its two checks and neither need
  be the version it overwrites.  A GET of labs writes back labs without a
  category.  A list of versions is put together from many downloads before it is
  stored.  Documents and labs are two blobs.  Correct: stale copies are
  explained, no lab comes to be taken for one without owners, which anybody may
  change, an editor of a lab was on its lists, a document named was uploaded.
* **Profiles.**  Read-modify-write of whole rows; a failed read means "new
  profile" to one operation; Split of an empty string is one empty role.
  Correct: no role without a grant, no profile without roles, and no change but
  that of a request alone, on the row there is or, when an update is lost, on the
  row the request has read.
* **Servers.**  The activity report writes back the row it read.  Correct: a
  stored server acts as a principal that was found entitled; changes as above.
* **Assignments, Challenges.**  Loops over lists that may fail half way; reports
  of progress write back the rows they read.  Correct: success means the whole
  list; changes as above; a challenge is deleted only by those a version of its
  lab allows.

`PROJECT.json` lists each hazard at its line with the properties that cover it.

## 2 Modules and the code

| Module | Models | Of the code |
|---|---|---|
| `Deployments` | the three endpoints, the operation entry goroutine, restart | `handler/deployment.go`, `service/deployment.go:75-191`, `repository/deployment.go:76-146, 212-345`, `service/event.go` |
| `DeploymentRegistry` | abstract specification of the same endpoints: no Redis, one atomic change per request | what callers are promised |
| `DeploymentsHistory` | `Deployments` and a history of each user's rows; the refinement mapping to `DeploymentRegistry` | – |
| `Hub` | `Deployments` and `DeploymentMonitor` as one process on one table; what clients were told | `repository/deployment.go:36`, and what the two model |
| `DeploymentMonitor` | monitor goroutine, Recoverer, signal, restart; fairness | `service/deployment.go:193-242`, `repository/deployment.go:36-74, 347-389`, `helper/recoverer.go`, `main.go` |
| `Labs` | labs of one type, their documents and the copies in Redis | `handler/lab.go`, `service/lab.go`, `repository/lab.go`, `middleware/lab.go` |
| `Profiles` | profiles, roles and the admin check | `handler/auth.go`, `service/auth.go`, `repository/auth.go`, `middleware/auth.go`, `helper/helper.go` |
| `Servers` | registrations, role assignments in Azure, activity | `handler/server.go`, `service/server.go`, `repository/server.go` |
| `Assignments` | bulk creation and deletion, reports | `handler`, `service`, `repository`/`assignment.go` |
| `Challenges` | lists of challenges, reports, deletion with its check | `handler`, `service`, `repository`/`challenge.go` |
| `MC*` | model values, inputs, symmetry | – |
| `*Proofs` | theorems | – |

All request modules have the same shape.  `Requests` is a set of slots for
requests in flight; `pc[r]` names the **next call** request r makes to a store,
and the action of that name is this call, its possible errors, and all the code
up to the next call.  A call may succeed, fail without effect, or fail after it
has been applied (a timeout after the server has committed).  Failing for a
cancelled request context is an instance of failing, so cancelling is no action
of its own; neither are panics in handlers, which gin's Recovery answers with
500, because the code panics only where an error answer is possible as well.  A
request slot may be used again as soon as its answer has gone, which covers
sequences of requests of any length.  `Restart` empties all slots and goroutines
and leaves the stores.

**Deployments.**  `table` is Azure Table Storage, `listCache` and `entryCache`
the two kinds of Redis keys, `opLog` the operation table.  GET is
`RedisGetList → TableList → RedisSetList`; PUT is `TableUpsert → RedisSetEntry
(→ RedisDelEntry) → RedisDelList → EventDone`; DELETE is `TableDelete →
RedisDelEntry → RedisDelList → EventDone`; a failed table write goes to
`EventFailed`.  `DeploymentOperationEntry` is the goroutine a PUT leaves behind.
The hub looks into no body here; a body is a record so that its `lab` can be told
from the fields of the row itself.  `Decoded` is what `json.Unmarshal` makes of the
rows of a page: every row is decoded into one variable, of which copies are kept
(`repository/deployment.go:77, 107-128`).  The fields of the row are always written
and so are its own.  Those of `deploymentLab` need not be: copies share the arrays
under its lists, and a field left out keeps the value of the row before.  Which do
depends on lengths and on a type outside the repository, so `Decoded` lets a row
show the lab of any row of the same listing, and `TableList` chooses.
`DeleteDeployment` keeps the exchange of workspace and subscription in
the handler: the right row is deleted, but the guard on "default" looks at the
subscription.  The entry keys are written and deleted but read by nobody:
`GetDeployment` is called from nowhere.

**DeploymentMonitor.**  It sees the table through single-row changes
(`ChangeRow`), which is what `DeploymentsHistory` shows the endpoints to look
like to others.  A page holds whole partitions; in both modules a user's rows are
taken to fit one page of Table Storage (1000 rows), so that one user's rows are
read at once.  Rows of a batch are taken in any order; the code takes
them in table order, which is one of them.

**Labs.**  One lab type is enough, as every type has a container and Redis keys
of its own; `type` chooses between the types with owners (`owned`) and those
guarded by a role (`protected`).  `GetLab` is called from eight places, so a
request remembers in `job[r].ret` what to do with the answer, and `Returned` is
what each of them does.  A lab has two keys in Redis, its copy (`copies`) and the
list of its versions (`versions`).  Of a list it matters whether it is of now
(`"current"`, `"old"`), since a container keeps every version: `outdated` holds
the requests whose list has become old between listing and storing it.  Owners
and editors are lists that count each name (`NameLists`), because the checks look at
lengths: `Orphan` is a list that is empty or has one empty name only, as in
`service/lab.go:387, 416, 444`, while two empty names pass for owners.  To keep
the instance checkable a call is one step with the next where nothing is lost by
it: a request's arrival with its first call (`ListBlobs`, `GetPrivateLab`,
`GetLabWithVersions`, `UploadDoc`, `DeleteSupportingDocument`: an idle slot holds
nothing another request could change), and the two questions whether a document
exists before it is deleted (`DocExistsToDelete`: both only read, either can fail,
and `DeleteDoc` fails by itself if the document has gone meanwhile).  `past`,
`unswept`, `overtaken`, `erased` are history variables: the lists every lab has
had, and why a copy may be stale.

**Hub.**  `Hub` extends `Deployments` and takes `DeploymentMonitor` as an
instance on the same `table`.  A step is one of a request (which leaves the
monitor's variables alone and adds the rows it makes to `seen`), one of the
monitor, or the end of the process, which is the `Restart` of both at once.  The
module has no action of its own but what clients know: `settled` are the
deployments for which a PUT or DELETE that met no other write of the row (`alone`)
was answered with success and left a row that does not fall due, `exempt` those
of them that were settled when the present poll began and have not been written
again.  Labs of deployments are left out here (`HubAssumption` takes them to be all
alike): neither the monitor nor an endpoint decides by them.

**Profiles, Servers, Assignments, Challenges.**  A row is a record of the fields
the code decides by.  Roles are stored as one string with commas between them; the
names admins give them are taken to have none.  `stale` is the history of these modules: the requests
whose row was changed by another since they read it; `was` in a job is the row
that was read.  `Alone(j, was, is)` says what a job makes of a row.  `granted` (Profiles) holds
the roles an admin has asked to add, `vouched` (Servers) the principals the role
assignments were looked up for, `asked` and `applied` (lists) what a request was
asked to write and has written.  In Servers the hub is one that checks role
assignments: with `ACTLABS_ENVIRONMENT_NAME = local` it does not.  Challenges
keeps **all** versions of a lab, as a copy of any of them may be the one in
Redis (`StaleCopyIsExplained` in Labs); a lab that cannot be read is the case of
a failed read.

**Compositions.**  Components share no variables of the program, because the
code shares none: they meet in the stores.  The deployment endpoints and the
monitor are composed in `Hub`, on one table.  The comment at
`repository/deployment.go:36`, not to put Redis before the monitor's listing
unless all updates go through the API, is what `SettledIsNotDestroyed` rests on:
a monitor that reads through Redis is no longer the monitor of
`EndpointsAreRowChanges`, whose mutant it is.  (The mutant of
`SettledIsNotDestroyed` is a PUT that answers success for a failed write.)  Elsewhere one reads what another writes and has the writer's
interface as an action of its environment: `ChangeRow` in
`DeploymentMonitor` (which `EndpointsAreRowChanges` justifies), `SaveLab` in Challenges
(justified by the stale copies of Labs), `ChangeRole` in Servers (Azure).

## 3 Runs

Every passing run of the request modules has two request slots, because each hazard listed is one of a request overtaken by one
other, or of one call failing; with slots used again, the requests one request
meets while it is in flight are unbounded in number.  Symmetry is used only in
runs without liveness, over values no action tells apart.

| Run | Instance | What it shows |
|---|---|---|
| `deployments` | 2 users of whom one only lists, 2 slots, 2 bodies with different labs, 2 requests, 3 past states | `StaleListIsExplained`, `StaleFillIsExplained`: a list in Redis differs from the rows only by a named cause.  `CopiesAreOfPastRows`: lists are of the right user and of rows that were there together, though labs be mixed.  `ImplementsRegistry`: the endpoints implement the abstract registry. |
| `monitor` | 2 users, 1 slot, 2 bodies (due, destroyed), clock to 2, 1 retry | `DestroysWhatThePollSaw`, `OnePostPerPoll`; `DueRowIsPosted` and `MonitorComesBack` under the fairness of section 4 |
| `hub` | 1 user, 1 slot, 2 bodies (due, being destroyed), 1 request, clock to 2, 1 retry | `EndpointsAreRowChanges`: `Hub` implements `DeploymentMonitor`'s specification.  `SettledIsNotDestroyed` |
| `labs` | 2 users, 1 lab, 1 document, 4 kinds of saves, both groups of types, 2 requests | `StaleCopyIsExplained`, `StaleReadIsExplained`, `NoLabIsOrphan`, `DocumentWasUploaded`, `EditsByThoseListed` |
| `profiles` | 2 users, 3 roles, 1 first admin, 2 requests | `RolesWereGranted`, `EveryProfileHasARole`, `ChangesAreAccountedFor` |
| `servers` | 1 user, 2 principals, 1 subscription, 2 requests | `RegisteredWereAuthorized`, `ChangesAreAccountedFor` |
| `assignments` | 2 users, 1 lab, lists to length 2, 2 requests | `CreatedMeansAll`, `ChangesAreAccountedFor` |
| `challenges` | 3 users of whom 2 are challenged, 1 lab in 3 versions, lists to length 2, 2 requests | `AnsweredMeansAll`, `DeletedByThoseAllowed`, `ChangesAreAccountedFor` |
| `default_deletable`, `labs_category`, `profiles_create`, `profiles_delete` | small | one violated statement each: section 6 |

Every passing run but `hub` also checks its module's `TypeOK` (those of the two
modules the hub is made of are checked in their runs), which is more than types: it says
which values a request holds at which call, so that for instance no row is
written that was not found.

Bounds, and why they are enough:

* *Users, labs, slots.*  A request touches one partition or one key at a time
  and no action of a request looks at another's.  One key with two requests is
  where calls interleave; two users are used where a property is about mixing
  them up (deployments, profiles, assignments, challenges, the monitor's batch).
* *Deployments.*  Two slots are what a mixed list takes, be it of rows that were
  never there together or of labs that have changed places, and a second user
  (who only lists) is what a list of the wrong one takes.  `MaxStates`: the rows of
  the first user are in up to three different states, among which they go to and
  fro as often as they like, so a list read and stored may be two states old.  One operation
  entry at a time is late.  `VIEW ReadState` tells states apart by what some step
  reads; what is only written (the entries in Redis, answers, events, the
  operation log) is compared where it is written, by `ImplementsRegistry`.  770 thousand states.
* *The hub's one request.*  Its stores are Deployments' and a monitor's at once
  (1.4 million states with one request slot, which requests use one after the
  other, with every call failing and the poll in between).  Overlapping requests
  are what `SettledAreSafe` is proved for.
* *The monitor's two bodies*: the one that falls due and one that does not; a
  third way not to fall due does not finish in reasonable time and adds no
  behaviour, as `Due` only tells due from not due; the proofs are for any bodies.
* *Lists of length 2* (`MaxList`) have a first, a last and a repeated item.
  The proofs are for any length.
* *Clock to 2, deadline 1*: before, at and after the deadline.  *One retry*
  instead of 100: with and without a retry left.
* *Saves*: creating a lab with no owner and with one empty name for an owner, an
  editor's change that adds a document and sets rbac, and an
  owner's edit that adds a document, drops the category and all editors, and
  leaves an empty name for the owners.  `Bounds`: an empty name among the owners is
  looked into where owners decide, with one request at a time and two different
  lists at most while a lab has it or has had it; without one, requests overlap freely.
* *One lab, one document* (5.6 million states, the largest run): the two requests
  meet on the same blob and the same keys, and a listing, a save and a deletion
  overlap in pairs.
* *Deadlock* is checked in every run.

The mutants in the modules ("Mutant: …") are what an ordinary mistake would make
of a step: a dropped error check, a DEL left out, an argument swapped.  Each
property of a passing run is violated when its mutant takes the place of the
definition.

## 4 Fairness

`DueRowIsPosted` and `MonitorComesBack` need some.  `HubFairness` assumes

* weak fairness of `Tick` and `PollEnds`: the goroutine is scheduled
  and the ticker ticks (`service/deployment.go:196-205`; the default interval is
  30 s, `config/config.go:352`);
* strong fairness of reading the rest of a listing, for each rest
  (`ListingGoesOn`), and, for each deployment, of looking at it (`LookedAt`) and
  of its destroy request arriving (`Posting /\ Deliver`): calls may fail and the
  process may be restarted any number of times, but a listing begun again and
  again is some time read to its end, and a request made again and again some
  time arrives.  It is stated for each deployment, since the requests for one
  may arrive while those for another never do.  Weak fairness would not do, since
  a failure, a panic or a restart disables these steps;
* weak fairness of `cancelled /\ Restart`: five seconds after a signal the
  process ends (`main.go:233`), and the container app starts it again.

What this excludes: a row that makes every listing panic
(`repository/deployment.go:61`) is read by every poll; the listing then never
reaches its end, and no deployment is destroyed any more.

Nothing is assumed of actlabs-server's answers.  The client of
`repository/deployment.go:381` has no timeout, so one request that is never
answered holds the monitor for ever (`NeverAnswered`).  Both properties say so:
*nothing else* does.  `DueRowIsPosted` is conditional besides: from some time on
the row is in the table, due, and no signal is pending.

## 5 Proofs

TLAPS checks, for every value of the constants (any number of users, rows,
requests, lists of any length):

| Module | Theorems |
|---|---|
| `DeploymentsProofs` | `TypeCorrect`, `StaleListsExplained`, `StaleFillsExplained`; of `DeploymentsHistory`: `CopiesArePast`, `EndpointsImplementRegistry` |
| `DeploymentMonitorProofs` | `MonitorTypeCorrect`, `MonitorDestroysRecentRows`, `MonitorPostsOnce` |
| `HubProofs` | `HubImplementsMonitor`, `SettledAreSafe` |
| `LabsProofs` | `LabsTypeCorrect`, `StaleCopiesExplained`, `StaleReadsExplained`, `NoLabsAreOrphans`, `DocumentsWereUploaded`, `EditsAreByThoseListed` |
| `ProfilesProofs` | `ProfilesTypeCorrect`, `RolesAreGranted`, `ProfilesHaveRoles`, `ProfileChangesAreAccountedFor` |
| `ServersProofs` | `ServersTypeCorrect`, `ServersWereAuthorized`, `ServerChangesAreAccountedFor` |
| `AssignmentsProofs` | `AssignmentsTypeCorrect`, `CreationsAreComplete`, `AssignmentChangesAreAccountedFor` |
| `ChallengesProofs` | `ChallengesTypeCorrect`, `AnswersAreComplete`, `DeletionsAreAllowed`, `ChallengeChangesAreAccountedFor` |

With these every safety property a passing run checks is also a theorem.

The assumptions are the named `ASSUME` of each module.  They say that the blank
values (`Absent`, `NoJob`, `NoArg`, …) are not data, that bounds are naturals,
in Challenges and Labs that what clients send are rows and saves, and in Hub that the labs of
deployments are alike; TLC evaluates them in every run.

Each proof has the same outline: an inductive invariant `IInv`, the lemmas
`InitInv` and `NextInv`, one step of `NextInv` per action, and the theorem by
PTL.  What `IInv` adds to the property, and why it must:

* *Deployments*: `StaleFillIsExplained`.  A stale list is stored by a GET that
  has read the rows earlier; that what it holds is stale for a named cause must
  be known before it stores it.
* *Deployments and the registry*: `HIInv` adds to `IInv` that every list in Redis
  and every list about to be stored there is a listing (`Decoded`) of one past state
  of its user, and every row an operation entry is about is of the past
  (`CopiesAreOfPastRows`), that so is what a PUT past the table has
  written (`WritesAreOfPastRows`: the goroutine that logs it is started later), and
  that the history ends with the present rows (`PastIsOfRows`).
  `EndpointsImplementRegistry` then goes action by action.  Under the mapping of
  `DeploymentsHistory` a call of a request shows only its phase: `asked` until the
  table has answered, then `applied` or `failed`.  The arrival of a request
  is an `AskList` or `AskWrite`, or a `Decline` when it is refused for its form; the
  table's answer to a write is an `Apply` or a `Fail`; the step that answers the
  client is an `AnswerWrite`, with the event the request leaves as `noted`, or an
  `AnswerList` with any of the `Listings` of a past state;
  the goroutine's write is a `LogOperation`; the calls to Redis and the reads in between
  are stutters.  That a list
  answered from Redis is an `AnswerList` is where `CopiesAreOfPastRows` is needed.
* *DeploymentMonitor*: `PollIsRecent`: all rows of the table, and all those of
  the batch, have been seen since the poll began, and between polls nothing is
  kept.  `RowsReadOnce`: a partition is read once, so no two rows of the batch
  have one key.
* *Hub*: the invariants of both parts, which are inductive by the lemmas of their
  modules, and `Ledger`.  That an endpoint's step is a `ChangeRow`
  (`HubImplementsMonitor`) needs `PollIsRecent`: when the step leaves the row as
  it was, all rows of the table have been seen already and `seen` does not grow,
  so it is a stutter.  `Ledger` has three parts: the row of a settled deployment
  is left alone and nobody is writing it (`SettledRows`), a write that met no
  other finds in the table what it has written (`AloneWrites`, which makes a
  deployment settled when its answer goes), and a poll has seen nothing of an
  exempt deployment that could fall due (`ExemptRows`).  With
  `DestroysWhatThePollSaw` of the monitor the theorem follows.
* *Labs*: most calls end in a chain of returns and checks (a lab was read, hence
  it is checked, hence read again, completed, stored, or the next one listed).
  The lemmas up to `ReturnedFits` follow that chain once: wherever it ends,
  the request suits its next call (`Fits`).  On this rest the types and
  `Prepared`, that a lab about to be stored is no orphan (its owners are looked at
  once more before the upload, as lists) and that its document was
  found.  The keys in Redis need `Marks` (only reads under way are marked) and
  that a stale read, as a stale copy, is explained: an explained key stays so
  until it is deleted, and then those who have read before are `overtaken`.
* *Labs, who edits*: `EditInv`, for the types with owners.  All that can be read of
  a lab, in the container or in Redis, has lists the lab has had, none an
  orphan's (`ReadsWereStored`); what a request has passed is remembered by the call it
  is at (`Checked`: once `validated` its editor is on some lists the lab has had);
  and what is about to be stored is `Vetted`, or it is the first version of a new
  lab and no other request writes that lab (`FirstWriter`, which is why
  `EditsByThoseListed` is about labs that have been stored).  Each check may have
  seen another, older version than the other and than the one overwritten: the
  invariant speaks of all lists the lab *has had*, and nothing stronger holds.  The
  chain of returns is followed a second time, `Goes` in the place of `Fits`.
* *Profiles*: `TypeOK` says of each call whose row a request is about to write (its
  user's, except that a role may be added to the empty key), and `WritesWereGranted`; *Servers*: `WritesAreVouched`: what a request
  is about to write already has what is claimed of rows.
* *Assignments*, *Challenges*: `ItemsAreAskedFor`: what was asked and is not yet
  written is still in the list to do.
* *Challenges*: `Checked`: at the deletion a version of the lab allows it by the
  row that was read, which is the row there unless the request was overtaken;
  and `RowsToWrite`: the other writers have a row to write, so only a deletion
  removes one.  `DeletionsAreAllowed` is an action property: `RemovalsAreLetThrough` finds
  the one request that can have removed a row, and `Checked` says what allowed it.
* *`ChangesAreAccountedFor`* of Profiles, Servers, Assignments and Challenges is an
  action property as well: a row that changes becomes what one request, which ends
  or goes on with this step, makes of the row there was, or, if it had been
  overtaken, of the row it had read.  So a lost update can bring back what was
  there, but makes up nothing.  The invariant (`WritesFollowReads`; `WritesAreAlone`
  in Profiles, where a request that could not read the row takes it for absent)
  says that what a request is about to write is made of the row it read, and that
  this **is** the row there, unless the request is marked as overtaken.  It is kept
  because a write marks all who have read the row and are still to write it
  (`Writing`); in the proofs `Follows` is
  the invariant for one request, `Bystanders` what a step must leave to the
  others, and `StepAccounts` finds the request a change is due to and shows that
  it goes on.  These invariants were checked by TLC on the instances of section 3
  before they were proved; that of Assignments had to be strengthened by what
  TLC does not need but induction does: only reports and deletions read.

## 6 Findings

Four statements of the repository that the code does not keep; each has a run in
which TLC finds the violation.

1. *"default deployment cant be deleted."* (`service/deployment.go:135`).  The
   handler passes workspace and subscription in the order the service does not
   expect (`handler/deployment.go:70`), so the guard compares the subscription
   id with "default".  Run `default_deletable`.
2. *"Update lab so that this change is saved."* (`service/lab.go:484`).  A GET
   that adds a missing category writes back the whole lab and undoes an edit, or
   a deletion, made since it read it.  Run `labs_category`.
3. *"if the user already exists, then update the profile with existing roles"*
   (`service/auth.go:43`).  When the read fails the user is taken for a new one
   and the roles are reset (`service/auth.go:26`).  Run `profiles_create`.
4. *"if the user has no roles left, then the user is deleted."*
   (`entity/auth.go:54`).  A profile with one role is deleted whatever role is
   named (`service/auth.go:110`).  Run `profiles_delete`.

Met while modelling, contained in the models or noted there, without a run:

* `service/deployment.go:204` says "Every minute"; the default is 30 seconds.
* DELETE of assignments answers 204 though no row could be marked
  (`service/assignment.go:343`; `entity/assignment.go:75` says "Returns any
  error encountered."); a report revives a deleted assignment, and posting an
  assignment again resets its progress.
* Adding a role to a user without a profile writes a row with an empty key and
  answers 200 (`entity/auth.go:59`).
* The conditions on challenges stated at `service/challenge.go:140-142` are not
  implemented.
* `Unregister` answers the error of reading the token and goes on
  (`handler/server.go:87`).
* `DeleteLab` deletes the document before the blob; if the blob cannot be
  deleted the lab stays and names a document that is gone.
* "Public labs must only be shown to users who own them." (`service/lab.go:72`):
  all are returned.

## 7 Only model-checked, and not modelled

With TLC only: liveness (`DueRowIsPosted`, `MonitorComesBack`), because ENABLED and
fairness are beyond the prover, and the four violations of section 6, which are
behaviours and need no proof.

Not modelled:

* Token verification, API keys, rate limiter: they have no state here and answer
  before a handler runs.  A caller's identity is taken as verified.
* What readers are shown: filtering and redaction of labs, the reading endpoints
  of all components; they change nothing.  `GetSupportingDocument` is part of this.
* Configuration, logging, the opening of connections, the health check, scripts.
* Code nothing calls: `GetDeployment`, `CreateChallenges`, the repository's
  `DeleteAssignment`.
* The module `actlabs/labentity` (types of labs) and the rate limiter are outside
  the repository; only how they are used here is modelled.
* Contents of bodies but a deployment's status, autoDelete, deadline and lab (one field
  of it, for the decoding; that a destroy request may carry the lab of another
  row, `repository/deployment.go:62`, is not modelled), times as values (a time is
  set or not), and the wording of errors.

## 8 Plan

Order of modules: the deployments first (their copies in Redis, the abstract
registry, the monitor, then both together), then labs (the other read-through
cache, deciding permissions), profiles (deciding roles), then servers,
assignments and challenges, which build on these.  All are written; left:

* *Assignments*: an abstract specification of the life of one assignment, and
  the statement of `entity/assignment.go:75` as a finding of its own.
