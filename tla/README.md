# TroopToTask: TLA+ models and proofs

TroopToTask is one SvelteKit application over one Supabase project: a browser
store per collection, request handlers on the server, and a Postgres schema
whose functions and triggers do most of the deciding. Two services outside the
database take part: the Auth provider, which writes passwords in transactions
of its own, and the Storage provider, which keeps the bytes of files. This
directory models the places where those actors can step on each other.

    tlc -workers 2 -config MCFileRetirement.cfg MCFileRetirement
    tlapm FileRetirementProofs.tla

Contents: [the system](#the-system), [the modules](#the-modules),
[the runs](#the-runs), [the proofs](#the-proofs),
[what is left out](#what-is-left-out), [the plan](#the-plan).

## The system

### Actors and how they interact

- **Browser tab.** One client store per collection (`src/lib/stores/core`),
  filled by page deliveries, range reads and full rereads, and changed by the
  tab's own confirmed writes. It talks to the server by page loads and JSON
  endpoints; a cookie carries the tab's sequence number with each page load.
- **Request handlers** (`src/routes`, `src/features/*`). Stateless; each is a
  sequence of awaited calls to Postgres and the providers, and may die between
  any two of them. What must be atomic is one SQL function.
- **Postgres** (`supabase/current-schema.sql`). Functions take row locks and
  advisory locks and run READ COMMITTED; several re-check the actor's rights
  after their last wait. Triggers guard what clients may change directly.
- **Providers.** A call may time out at the server and still be carried out
  later. Triggers on the provider's own tables give the schema a say in that
  late transaction.
- **Scheduled maintenance.** A daily run that retires, cleans up and retries.
- **Staff.** Platform operators who release claims, transfer ownership,
  suspend. What they attest the program cannot check.

### Inventory

`PROJECT.json` lists every component with its files and status. In short:

| Component | State | Operations | What is hard | What makes it correct |
|---|---|---|---|---|
| Account setup (`identity`) | `access_requests`, `account_setup_links`, `account_setup_attempts`, the Auth user's password | submit, approve, reject, invite, rescind, issue, claim, provider call, reconcile, complete, release | a provider call that commits after its caller gave up; several links and requests per address | one claim at a time; a negative answer is final; a held claim can always be settled |
| File retirement (`organization`, `personnel`) | rows that name file keys, `file_uploads`, `file_retirement_holds`, `file_retirements`, stored bytes | row changes through triggers, upload, compensation, drain, promotion | uncommitted changes of others; death between store and attach; lock order | no named file is removed; no bytes are forgotten; removed keys stay empty |
| Client stores (`lib/stores/core`) | rows shown, confirmed changes, open reads, optimistic log | load, reconcile, adopt, write, prune, leave | every response may be late | nothing confirmed is taken back; nothing of another Organization is shown |
| Password change (`identity`) | `password_change_attempts` | acquire, start, reconcile, complete, restart | as account setup, with two sessions of one actor | a status check is final |
| Sessions and MFA (`identity`, hooks) | Auth sessions, flow markers, suspensions | sign in, admit, step up, suspend | a request admitted before a suspension | no effect without current assurance |
| Invitations (`organization`) | `organization_invitations`, links to access requests | invite, accept, decline, expire, revoke | acceptance racing expiry, revocation, suspension | at most one membership, with the intended access |
| Membership and ownership (`organization`, `platform-admin`) | `organization_memberships` | change role, remove, leave, transfer | two transfers, transfer and removal | exactly one owner |
| Personnel lifecycle (`personnel`) | `archived_at` of a Person and its children | archive, restore, expire, remove | children archived separately; retention against restore | restore is the inverse of its archive |
| Deletion requests | `deletion_requests` | submit, cancel, deny, approve per resource | retries; waiting on row locks with stale rights | one pending request; one outcome |
| Groups (`personnel`) | a forest of groups, scopes that name them | create, move, delete | two moves | no cycle; scopes keep their meaning |
| Duty rosters (`calendar/roster`) | assignments, swaps, DA 6 forms, starting numbers | assign, clear, fill, replace, swap, undo, set numbers, close, end, reopen | plans read before the write; whole numbers replaced | a plan fits when it is written; a swap is undone only while it stands; forms keep the record |
| Taskings (`calendar/taskings`) | tasking status, participants, picks | start, block, complete, reopen, cancel, review | long legal sequences | only tabled transitions; picks follow participants |
| Availability, special days (`calendar`) | intervals | save, overlap | a save beside another's | no silent overlap |
| Onboarding | `personnel_onboardings`, `onboarding_step_progress`, templates and their steps | start, resync, switch template, advance, toggle, note, remove, complete, cancel, reopen, expire; edit the catalogue | resyncs, step edits and catalogue edits that overlap | one row per step; no saved work is lost; finished packets stay |
| Training, critical tasks, rating scheme | completions, catalogs, entries | editing, import, retention | certificates are files too | as file retirement |
| Sign-in rosters | immutable snapshots, one scan | create, attach, replace, remove scan | scan files | as file retirement |
| Data export, notifications, feedback, audit | append-mostly rows | insert, expire | best effort by design | - |
| Access policy, rate limits (`lib/access`) | durable window counters | evaluate, count | window boundary; two evaluators | TypeScript and SQL agree |
| Dashboard, app shell, platform reads, UI | none of their own | reads | - | - |

The hazards of this code, modelled or not, are in `PROJECT.json` under
`hazards`, each at its line; those no property covers yet say where the plan
puts them.

## The modules

| Module | What it is |
|---|---|
| `AccountSetup` | requests, links, attempts, the completing handler, the recovery check, the Auth provider, staff, the clock |
| `PasswordHold` | the promise behind it and behind `PasswordChange`: one holder per account, one write per right, no return of an ended right |
| `AccountSetupProofs` | its safety and its refinement, for every instance |
| `FileCustody` | what file retirement promises: what a change gives up is retired or watched in the same step, and a retired key comes back to nobody |
| `FileRetirement` | triggers, uploads, compensation and drain over rows, keys and advisory locks |
| `FileRetirementProofs` | its safety and its refinement, for every instance |
| `ConfirmedStore` | one client store of one tab with everything that loads it |
| `ConfirmedStoreProofs` | its optimistic log, its open reads and what its rows show, for every instance |
| `OrganizationAccess` | what membership promises: a role or none per user, entry by an open offer only, ownership handed on and never dropped |
| `Membership` | one Organization's invitations, roles, ownership and suspension |
| `MembershipProofs` | all its properties and its refinement, for every instance |
| `PersonnelArchive` | what archiving promises: whole archives and their inverses, removal from the archive only, one decision per deletion request |
| `PersonnelLifecycle` | People and the records about them: archive, restore, removal, retention |
| `DeletionRequests` | EXTENDS `PersonnelLifecycle`: requests, their decisions, and the archives and deletions they cause |
| `DeletionRequestsProofs` | the properties of both and their refinement, for every instance |
| `PasswordChange` | one account's password change attempts with its sessions and the Auth provider |
| `PasswordChangeProofs` | all its properties and its refinement, for every instance |
| `PacketRecord` | what a packet promises to those who work on it: every change one step, made to the steps as they are |
| `OnboardingPacket` | one onboarding packet: its rows, its resyncs, the work on its steps, and the catalogue |
| `OnboardingPacketProofs` | all its properties and its refinement, for every instance |
| `DutyBook` | the roster as its planners may think of it: one book, changed in single steps |
| `DutyRoster` | the days of one duty, their swaps, its DA 6 forms and starting numbers |
| `DutyRosterProofs` | all its properties and its refinement, for every instance |
| `MC...` | instances for TLC |

`XFaulty` operators next to an operator `X` are the mistakes the properties are
tried against: with `X` replaced by `XFaulty` TLC refutes the property that
`PROJECT.json` pairs it with. No module's next-state relation uses them.

### AccountSetup

An approved Access Request is sent one setup link at a time. Its person claims
the link by choosing a password; the server asks the Auth provider to create or
update the user with a one-time attempt id in the metadata; a trigger in the
provider's transaction lets it commit only while the attempt is `started` and
records `committed` (the *witness*). A handler that does not know what the
provider did reconciles: it finishes a witnessed claim and *fences* one that is
still open, which makes a late provider transaction fail.

| State | Code |
|---|---|
| `status`, `email`, `completed`, `grant` | `access_requests` columns; `grant` folds in whether a linked invitation is still live |
| `mark` | which timestamp columns of `account_setup_links` are set; `"expired"` stands for a passed `expires_at` |
| `attempt` | `account_setup_attempts.state` |
| `step`, `source` | where `completeSetupSession` is between two awaits, and the claim it is about to finish |
| `checking`, `target` | the same for `recoverSetupSession` ("Check setup status") |
| `inflight`, `password` | calls the provider may still run; whose setup wrote the password last |

Every SQL function is one action: it locks the request's row and takes the
advisory lock of the normalised address before it decides. Everything a handler
does between two calls is a separate action, so others may step in. `HearError`
is a time-out: it ends the wait, not the call. `SessionGivesUp` and
`CheckGivesUp` are an error of a call or the death of the server at any await.

Choices: an address has one Auth user. A public submission reads and then
inserts; only the unique index on pending addresses is relied on.
`finishCommitted` reads the request again before it calls the completion, whose
own check under the lock is the one modelled; the two reads of
`validateRecoveryTarget` are one step. A refusal of the provider that is never
heard is a call that never commits. `ReleaseClaim` is not guarded by what the
operator attests: the fence makes a wrong attestation harmless. Ordinary
password changes and recoveries are another protocol and do not change
`password`, which is about setup writes alone.

`PasswordHold` has two variables, the stage of each right to write a password
(`free`, `open`, `written`, `spent`, `closed`) and the account it is for.
`AccountSetup` implements it with the mapping `HoldOf`: its rights are the links,
its accounts the addresses. `PasswordChange` implements the same module.

### FileRetirement

Counseling records and documents name a storage key. Clients with the
authority may change rows directly, so statement triggers decide about keys: a
transaction locks every key it attaches or detaches, in the order of lock ids;
an attached key must not be retired; a detached key is retired when the
transaction sees no row that names it and put on hold otherwise, because a row
it sees may be about to change in a transaction it does not see. The drain
removes the bytes of retired keys and records it; promotion looks at held keys
again.

| State | Code |
|---|---|
| `path` | committed `file_path` of each row; no key also stands for a deleted row or one not inserted yet |
| `retired`, `held`, `registered` | `file_retirements` (`"done"` once `object_name` is cleared), `file_retirement_holds`, `file_uploads` |
| `changing`, `change`, `todo`, `retiring`, `holding`, `lock` | an open transaction: its rows and new values, the keys it has yet to lock, what it will commit, the locks |
| `upload`, `attaching`, `attached`, `request` | where an upload's handler is, and the life of its attach request apart from it |
| `bytes`, `arriving`, `removed` | the Storage provider, its calls under way, removals confirmed but not recorded |

A transaction's statement, each of its locks and its commit are separate
actions; `Seen` is what it reads, its own change or what is committed. What
runs under the lock of a single key is one action. `Die` is a crash of the
uploading server or the failure of a call it does not repeat; the registration
then stays open, by design (`fileUploadRegistration.server.ts:29`), and the
properties count it as remembering the key. Removal by the request that
retired the key and removal by the drain are the same actions.

The rows of one Person may hold keys under that Person's prefix only; a row of
another Person that names such a key is a legacy row that predates the check,
and its keys are never retired on its account (`artifact_file_owned`).

`FileCustody` has no locks, sessions or calls under way. Rows change in one
step, `Change`, which retires every key that it gives up and no row then names,
or leaves it watched; which of the two is the code's choice, since a
transaction does not see what the others have open. A transaction judges its
keys one after the other, each by what is committed then, and acts on all of
them when it commits. That its judgements still hold at that moment is what the
locks are for, and what the refinement says.

### ConfirmedStore

The store keeps what this tab confirmed, numbered by a sequence that page
requests carry, and re-applies to every arriving snapshot the changes confirmed
after the snapshot's request left. Changes are forgotten after a retention time
unless an open read still needs them; a snapshot older than what was forgotten
is refused. An adoption (the reread after an overlapping special-day save) makes
every earlier snapshot obsolete.

| State | Code |
|---|---|
| `shown`, `org` | `loadedState`, `orgIdVal` of `createStore` |
| `changes`, `expired`, `prunedThrough`, `supersededBefore`, `sequence` | its bookkeeping; `expired` is how many changes have passed the retention time |
| `log` | the optimistic mutation log |
| `write`, `read` | requests under way; a read is a delivery, a range read or an adoption |
| `page`, `remounted`, `pending` | the mounted Organization shell, whether its lifetime is newer than the store's load, the hydrator's pending delivery |
| `server` | what the server has: a row's content is the number of writes made to it |
| `floor` | history variable: what each row must not fall behind |

`organizationVersion`, `loadVersion` and the lifetime counter only grow and are
only compared with a remembered value; the model keeps the answer (`current`).
Writes and range reads are offered once the visit's rows are loaded, as the
pages do. Deleting a row is not told apart from writing it.

### Membership

A membership row comes from founding the Organization or from an invitation.
The server reads a membership and the caller's grant, decides, and sends one
conditional statement later; functions lock rows instead. Both kinds work on
the same rows.

| State | Code |
|---|---|
| `role` | `organization_memberships.role`, per founding row and per invitation; `none` is no row |
| `state`, `overdue` | `organization_invitations.status`, and whether `expires_at` has passed |
| `suspended` | `organizations.suspended_at` |
| `job` | a request under way: what it has read (`was`) and which rows it holds |

Choices. A conditional statement is its own step: it compares the role it
expects with the row as it is when it gets it (`StillAsSeen`). Row level
security judges the caller by the statement's snapshot, before a wait for the
row (`StartUpdate`), and does not judge again after it (`Update`); the removal
runs by service role and judges nobody. A lock is the `op` of the job that
holds it: `admit` an invitation's row, `transfer` and `platform` the
Organization's row, which also keeps out every insert's foreign key check. The
rows a transfer locks afterwards are locked, read and changed in one step, since
nothing can change them in between. A suspended user's request is refused, as
`GiveUp` is.

`OrganizationAccess` knows no rows, requests or locks: a role or `none` for each
user (`Access`), and for each invitation whether it is unsent, open, used or
closed (`Fate`; declined, revoked, blocked and expired are all closed). Its
`Join` needs the offer open and the user outside in the step in which they enter,
at the role the offer names; `Pass` is the only step in which the owner changes.
In the code each of these rests on a wait, a conditional statement or a check
repeated after a wait. That a user has one row is the table's unique key.

### PersonnelLifecycle and DeletionRequests

`archived_at` is the whole life of a Person and of each record: active, a time,
gone or not yet there. Archiving a Person gives its active records the time of
the Person; restoring restores the records that carry that time, which is how
a record archived by itself stays archived. Deletion requests ask a reviewer to
archive a Person or to delete a counseling record.

| State | Code |
|---|---|
| `person`, `at` | `archived_at` of `personnel` and of the records; a follow-up's status is `archived_at` and `completed_at` together |
| `done` | follow-ups with `completed_at` |
| `clock`, `stamp`, `cutoff` | `new Date()` of requests and of the nightly run |
| `picked` | People an external tasking names (a foreign key) |
| `admitted`, `Configurers`, `Reviewers` | whose access is current, and what it allows |
| `ask` | `deletion_requests.status` |
| `job` | a request under way: `archiving`, `restoring` hold the Person's row, `reviewing` the request's, `submitting` the advisory lock of its target |
| `swept` | history variable: records an archive of their Person archived and nobody touched since |

Choices. A function that locks first and writes several tables then is its
locks and one commit: nobody else reads two of its rows in between. Its last
statement asks again whether the actor may do this (`StillMay`,
`StillReviewer`, `StillMember`), after every wait, so the question and the
commit are one step. Two requests never take the same time; `archived_at` has
milliseconds, and two archives of one millisecond would be one event to a
restore. Who may write a single record is left out, so the single-record
actions may be taken by anybody. The restore of a follow-up reads and writes in
one step, since its write does not depend on what it read.

`PersonnelArchive` knows no times, locks or requests under way. A Person is
active, archived or gone (`Standing`), and an archived record was archived with
its Person or alone (`RecordStanding`). Its `Restore` is the inverse of
`Archive` by definition, and its `Approve` is the decision and the archive, or
the deletion, in one step. In the code "with its Person" is nothing but an equal
time: requests take their times when they begin and write them when they have
waited, in another order, and an archive that is repeated writes the time of the
first. That this never confuses two events is what the refinement says.

### PasswordChange

The attempt of an account is one row, and each call of
`password_change_attempt` holds the account's advisory lock. A request reads
the attempt, begins or resumes one, calls the provider, reconciles, signs the
other sessions out and completes. As in AccountSetup a trigger in the provider's
transaction is the witness, and a reconciliation that comes first fences it.

| State | Code |
|---|---|
| `row` | the account's row in `password_change_attempts`; `expired` is a passed `expires_at` |
| `known`, `live`, `flow` | `auth.sessions`, and the sessions with the cookie of a recovery or invite flow |
| `calls`, `committed` | provider calls that may still run, and those that wrote |
| `job` | where each request is, the flow it came with and the attempt it means |
| `fenced`, `old`, `spent` | history variables: attempts reported failed, the other sessions at the last write, flows that have written |

Choices. The function looks its session up before it waits for the lock, so a
session may have ended when the step is taken. `Revoke` is the provider's
sign-out with scope `others`; its answer may be lost after it was carried out.
The proofs a change needs first, rate limits and MFA only refuse more.

Seen as `PasswordHold` the rights are the attempts and there is one account. An
attempt is `open` while its row is `started`, `written` while it is `pending`, and
`spent` or `closed` for ever once the row is complete, failed or another's: the
provider's late call finds no right to write.

### OnboardingPacket

A packet is started from a template: each step of it becomes a progress row. A
resync (`reconcile_onboarding_packet`) brings the rows in line with the
template as it now is, or with another one. It locks the packet's row, then the
progress rows, then reads the definitions, and writes. Members meanwhile tick
and advance steps by a read and a later update that a trigger checks, append
notes in a function that locks the row, remove inactive steps, and edit the
catalogue, whose deletions set the references of rows to null.

| State | Code |
|---|---|
| `packet` | `personnel_onboardings`: its status, its template, and whether its end is past the retention cutoff |
| `row` | `onboarding_step_progress` of the packet; a `form` is what a row copies of its definition |
| `templates`, `definition` | `onboarding_templates`, `onboarding_template_steps` |
| `trainingOff` | whether the Organization has switched the Training feature off |
| `job` | a request under way: `locked` and `read` hold the packet's row, `read` also the rows it saw; `edit`, `remove`, `expire` have read and not yet written |
| `moved` | history variable: definitions that were given another template |

Choices. `Commit` is every write of the reconciliation: others see them at
once. Its match of rows and definitions leaves open which of several rows is
adopted, which the code decides by their order. `Start`, the notes and a deletion
of the catalogue are one transaction with nothing between their reads and
writes that others could change, so each is one action. `Move` is complete,
cancel and reopen: the server's earlier read of the status asks for what the
update asks for again. A trigger's check of an edit (`Fits`) is made against
the row as it is when the update gets it. A failed or refused request is
`GiveUp`, which undoes nothing because nothing is written before `Commit`.

`PacketRecord` has no locks, no requests and no catalogue. A resync is one step
of a packet in progress: each active step afterwards goes on with what was done
on it by then (`Continues`), is adopted from a deleted definition, or begins, and
no adoptable step is left behind for a new one; every other step is only laid
aside. An edit is one step too, and fits the kind and the stages the step has
then, though the request decided it on what it had read before. The packet may
lose a step's definition or its template at any time, which stands for the edits
of the catalogue. `ImplementsRecord` is that `OnboardingPacket`, where a resync
reads statement by statement under its locks and writes at the end, does nothing
else.

### DutyRoster

Planners assign days of a duty by hand, let the roster fill or replace them, and
swap two days. Every such request first reads the roster and computes or shows
a plan; the plan carries who held each day, and the database function refuses it
if that is no longer so. All functions take an advisory lock for each of their
days, earliest first. The first assignment by People opens a DA 6 form; new rules
close it and open the next, and the end of the roster closes it for good.
Starting numbers belong to the open form and may be typed in until duty has been
pulled under it.

| State | Code |
|---|---|
| `holder`, `source` | `daily_assignments` of the duty: `assignee_id`, and `source`, which a trigger stamps |
| `swaps` | `roster_swaps`: both days with whom and what `source` they had |
| `form`, `closed` | `roster_forms`; no open form is a duty for Groups |
| `numbered`, `carried` | `roster_starting_numbers` of the open form: who has one, and whether their `origin` is `carried` |
| `today` | the server's date; a device may be a day off |
| `call`, `step` | what a request asked for and how far it is |
| `dayLock`, `formLock` | the advisory locks of days and of the form; `SharesType` is a swap's `FOR SHARE` of the type's row |
| `made`, `opened`, `changedBy`, `picked` | history variables |

Choices. `Begin` is what a function verifies before its first day lock, `Check`
what it verifies after the last, `Write` its commit; nobody sees what it writes
in between. A hand assignment verifies no holder: whoever saves last has the
day. The roster's choice of a Person (the count engine) is left open, so is who
has been excused: any Person other than the holder may be picked. A closed form
carries a number for every Person. There is one track, so each day is on it.
A refused request changes nothing (`Refuse`).

`DutyBook` has no requests, locks, plans or forms: who has each day and whether
the roster picked them (`book`), and what both days of each swap that can be
undone had before (`exchanges`). `Exchange` gives both days the other's *present*
holder; `Undo` needs the book to say still what the exchange wrote and gives
both days exactly what they had; every other change ends the exchanges of the
days it gives to somebody else. A saved plan that no longer fits the rows would
be a step of none of these kinds.

## The runs

`CHECK_DEADLOCK FALSE` in every configuration: the pools (link ids, versions,
sequence numbers, one upload per key, changes of the catalogue) run out and the
bounded system stops. In FileRetirement, where waiting on each other is a real
danger, it is the invariant `NoLockCycle`. `TypeOK` is in no run:
it is proved for every module but DutyRoster, whose types are part of its
inductive invariant (`Shapes`, `Calls`).

| Run | Instance | Shows |
|---|---|---|
| `setup_lifecycle` | 2 requests x 1 link, 2 addresses, 1 check | `OneHeldClaimPerEmail`, `CompletedIsWitnessed`, `HeldClaimIsRecoverable`, `WitnessedPasswordStands`, `ImplementsHold` over the whole life of requests |
| `setup_live` | 1 request, 2 links, fair checks | `NegativeAnswerMeansNoPassword`, `HeldClaimReconciles` |
| `file_retirement` | 2 keys (1 uploaded), 3 rows of 2 Persons, 2 sessions, fair drain | `NoRetiredReference`, `ImplementsCustody`, `NoBytesForgotten`, `NoLockCycle`, `UnownedBytesGo` |
| `store_reads` | 2 rows, 2 writes and 1 read at a time, 2 versions, 2 numbers | `OpenReadsStayUsable` with batches and reads of some rows |
| `store_visits` | 2 Organizations with a row each, 2 reads, 2 versions, 2 numbers | `NeverBehind` with reads that overtake each other, `OwnRowsOnly`, `LogIsLive` |
| `membership` | 3 users, 2 founding rows, 2 invitations of one address, 2 requests | `OneOwner`, `ImplementsAccess`, `EndedInvitationStaysEnded`, `NoTransferWhileSuspended` |
| `deletion_requests` | 1 Person, file and follow-up, 1 actor whose access comes and goes, 3 deletion requests, 2 requests, 2 times | `ImplementsArchive`, `DecisionsStand`, `DecidedByAuthority`, `LifecycleByAuthority`, `RestoreReturnsTheEvent`, `PeopleGoArchived`, `FilesGoArchived` |
| `lifecycle_artifacts` | 1 Person, file and follow-up, 2 requests, 3 times | `ArtifactsGoArchived` is violated, see below |
| `password_change` | 3 sessions, 2 requests, 2 attempts | `NoLateWrite`, `CompleteLeavesNoOther`, `ImplementsHold`, `FlowWritesOnce` |
| `onboarding_packet` | 2 templates, 2 definitions (1 not yet created), 4 forms (training, checkbox, paperwork with two stages and with one), 2 rows, 2 requests, 2 changes of the catalogue | `OneRowPerDefinition`, `OnlySelectedActive`, `ProgressIsKept`, `WorkGoesOnlyWhenDone`, `ImplementsRecord` |
| `duty_roster` | 2 planners, 2 days, 2 People, 3 forms, 3 calls, one day per hand assignment | `SwapsStand`, `ImplementsBook`, `RosterMarkIsEarned`, `RecordStays` |
| `starting_numbers` | 2 planners, 2 days, 2 People, 1 form, 2 calls | `OtherBoxesStay` is violated, see below |

**Bounds.** Account setup: the rules relate a claim to one other claim of the
same address, in another request (`setup_lifecycle`) or the same (`setup_live`);
link ids are the bound on issuing. Files: a conflict needs two transactions and two keys, a third row
gives a legacy reference beside the upload's row. Store: a
version before and one after a read's departure, and two numbers
(`MaxSequence` bounds confirmed changes and adoptions together), so that one
change can be forgotten and another confirmed while a request is on its way;
two rows for what covers only one of them, two reads for what overtakes
another. Membership: a
lost update needs two requests on one row; the second invitation (`MCInOrder`)
gives the one person a second, different offer. It is sent after the first, and
only the first can lapse: either is refused alike once it has. Deletion requests: two for the
Person (a retry, or two members) or one for the file (`MCKindsApart`), and two
requests under way to race; with two times and no retention an archive repeated
after a purge has read its candidate is not reached, which `StillExpired`
guards against and the proof covers for any clock. Passwords: the second
attempt follows a first that failed, expired or completed, and the third
session is one that neither attempt is of. Onboarding: the races need
two requests, a row to keep beside a row to add, and a template to leave beside
one to go to; the second definition shares the first one's name, so that
adoption can pick its row. `MaxChanges` bounds changes of the catalogue, of the
Training switch and notes together: two let a step be noted or edited and its
definition deleted or moved within one history. Rosters: a swap needs
two days and two People; a swap, what ends it and its undo are three calls; a
form, the one after it and the one after the roster ended are three.
Symmetry is used in safety runs
only, over identities the specification never orders.

**Fairness.** `setup_live` assumes no fairness of the provider, the staff or the
completing handler, which may die. It assumes that a person who has a valid
link keeps pressing "Check setup status" and that the check's calls do not fail
for ever; this is the recovery that
`docs/operations/account-setup-claim-recovery.md` describes, and like it the
property ends when the address has no valid link left. `file_retirement` assumes that
transactions end (statement time-outs abort them) and that the daily drain and
promotion recur; promotion skips locked keys, so it is strongly fair. Uploads
may die: nothing is assumed of them. The other runs check safety and assume no
fairness: any request may stop anywhere.

**Two findings.** `docs/architecture/AUTHORIZATION_AND_PROVIDER_BOUNDARIES.md:109`
says that People and Personnel artifacts must be archived before deletion. The
handlers that delete follow-ups and leader notes read the record, refuse it
unless it is archived, and delete by its id alone
(`personnelFollowUps.server.ts:240`, `leaderNotes.server.ts:201`). In
`lifecycle_artifacts` somebody restores the record in between and a live record
is deleted. For files the function compares `archived_at`, and
`FilesGoArchived` holds.

The comment of `saveStartingNumbers`
(`rosterStartingNumbersOperations.server.ts:179`) says that a save leaves every
person or track not submitted as saved. The function merges what was submitted
into the numbers it read, and the database replaces all numbers of the form
(`current-schema.sql:10536`), comparing the form's id alone. In
`starting_numbers` two planners save a number for one Person each and the later
save deletes the earlier one.

## The proofs

The proof modules follow the same line: an inductive invariant `IInv`, one
lemma per named part with one step per action, then the theorems by PTL. They
assume only what the modules assume of their constants (`SetupAssumption`,
`FileAssumption`, `StoreAssumption`, `MembershipAssumption`, `LifecycleAssumption`,
`DeletionRequestsAssumption`, `PasswordAssumption`,
`OnboardingPacketAssumption`, `DutyRosterAssumption`), which TLC also evaluates in
each run, and hold for any, also infinite, sets of requests, links, rows, keys,
sessions, People.

**AccountSetupProofs.** `IInv` strengthens the checked properties by the order
in which a link's columns are set (`MarksInOrder`), that an open attempt belongs
to a held claim (`OpenAttemptIsHeld`: nothing ends a claim without fencing), that
the password in force is witnessed (`PasswordIsWitnessed`), one open link per
request, and what handlers remember across awaits (`Remembered`,
`CheckKnowsClaims`: a check that is about to finish by an unclaimed link knows
every claim of that request, which is what keeps completion from leaving a held
claim behind on a completed request). From it: `TypeCorrect`, `OneHolder`,
`Recoverable`, `PasswordStands`, `NegativeIsFinal`, `CompletionIsWitnessed`,
the action property `WritesUnderClaim`, and the refinement `Implements`.

**FileRetirementProofs.** `IInv` needs, beside types: that two open
transactions never change one row (`ChangesDisjoint`), that a key a transaction
has attached and locked is not retired and its lock is kept
(`AttachedIsFenced`), that a key it is going to retire is named by no row it
does not itself change and stays locked (`RetiringIsUnnamed`), and that a
recorded removal belongs to a retired key (`RemovedIsRetired`). From it:
`TypeCorrect`, `Unretired` (`NoRetiredReference`), `Emptiness`
(`RemovedStaysEmpty`).

`TxInv` and `Answered` add what open transactions owe. A key that a transaction
takes out of a row it changes is still to be locked, is attached again by the
same transaction, is to be retired or held by it, or was found retired
(`DetachedIsSeenTo`); so when the transaction commits, the key is answered for
by whoever the trigger chose. An upload that believes it is settled was
(`SettledAccounted`). For the locks: each transaction takes them in ascending
order (`LocksAscend`) and only finitely many are open (`OpenAreFinite`), so in a
circle of waits the keys would ascend for ever; `NoCycle` takes the waiter whose
later waiters are fewest and finds one with fewer. From it: `Remembered`
(`NoBytesForgotten`), `NoCycle` (`NoLockCycle`).

The refinement `Implements` (of `FileCustody`) needs that the keys a transaction
detaches are exactly those it has yet to lock and those it will retire or hold
(`DetachedIsSplit`). This is stronger than `DetachedIsSeenTo`, which allows that a
key was found retired: a row names it until the commit, so it cannot be. Further,
that a transaction changes what it says it changes (`ChangesReal`) and that an
upload under way is registered (`OpenIsRegistered`), which lets its
reconciliation retire the key. `CommitChanges` maps the commit to `Change`; taking
a lock maps to no step.

**ConfirmedStoreProofs.** `IInv` is `Shapes` (the types that do not depend on
what a snapshot shows), `LogIsLive`, and that once a shell has ended no write
it started settles (`EndedIsStale`): a load that resets the store clears the log
and the flags together, and until then the log is not claimed to be live. That
open reads stay usable rests on one lemma, `PruneSpares`: each dropped change is
numbered at or before every read that is spared. From it: `LogLive`,
`ReadsStayUsable`.

The same module then proves what the rows show. First what the recursion
`Reapplied` computes (`ReappliedIs`): each row gets the content of its last change after the
snapshot, or keeps the snapshot's. The library's induction theorems cannot be
instantiated, so the induction over the changes is written out: if recursion
and outcome differed anywhere they would differ first somewhere, and the
existence of a first place (`LeastNumber`) comes from the well-foundedness of
the finite sets. Then the invariant `DInv`. `History`: retained changes are
numbered in order, after those that were dropped. `SnapshotsStand`: a usable
snapshot is at its rows' floors unless a retained change makes the row later.
`AdoptionsStand`: a snapshot requested after an adopted reread began is not
behind what that one remembers. `LastChangeStands`: the last change of a row
made after the last adoption is the row's floor. `OneNavigation`: between the
end of a shell and the next one's first load nothing is confirmed and one
navigation is under way, so that resetting the history loses no change that
the delivery could need. `LoadStands` is the one lemma for the three kinds of
load, `ConfirmationStands` the one for confirmed writes. From it: `Behind`
(`NeverBehind`), `OwnRows` (`OwnRowsOnly`), `TypeCorrect`.

**MembershipProofs.** Besides what the run checks it proves `Passing`: the owner
stops being the owner only in the step that makes another member the owner
(`OwnershipPasses`). `IInv` adds to `OneOwner` and `MembersWereInvited` that a user
has one row (`OneRowPerUser`), that
an invitation whose row a job holds is pending and held by no other job
(`AdmitHoldsPending`: every statement on it waits), and that the Organization
of a transfer that holds its row is not suspended (`TransferUnsuspended`). That the owner is one needs the conditional statements:
an update or removal carries an editable role, so a row that became the owner's
is not as it was seen. From it: `SingleOwner`, `Invited`, `Passing`,
`EndedIsFinal`, `UnsuspendedTransfer`, `TypeCorrect`, and the refinement
`Implements`. For that, one lemma says what a change of one row does to a user's
role (`Regrade`; `AccessOfRow` and `AccessOfNobody` compute the mapping, which
picks the user's row), and each action is then a step of `OrganizationAccess` or
leaves roles and offers alone. `Admit` is a `Join` because the invitation whose
row it holds is still pending and its user has no row.

**DeletionRequestsProofs.** It covers the lifecycle too, since `Next` contains
it. `IInv` needs that no record and no request under way has a time the clock
has not reached, and that two requests never have the same (`Timed`,
`FreshStamps`); that the records that carry their archived Person's time are
the swept ones (`SweptByEvent`, the heart of `RestoreReturnsTheEvent`); that a purge's cutoff is not in the future
(`PurgeCutoff`); and what holds while locks are held: an archive is either
direct or its request is pending and for that Person, who is still there
(`ArchiveDirect`, `ReviewHolds`, `ArchiveHolds`), and a submission under the lock of its target is the only one
and has seen none pending (`SubmitsNew`, `SubmitHolds`). From it: `OnePending`,
`FirstDecisionStands`, `DecisionsAuthorized`, `LifecycleAuthorized`,
`RestoresTheEvent`, `RemovedFromArchive`, `FilesDeletedArchived`,
`TypeCorrect`, and the refinement `Implements` (of `PersonnelArchive`), with one
lemma per kind of change. `SweepsArchive` needs that the Person is still there
when the archive commits, `RecordsChange` that a record archived by itself gets
a time its Person does not have; `AsksDecided` maps an approval that waited for
two rows to the one step that archives and approves.

**PasswordChangeProofs.** `IInv` relates the row to the history: attempts are
numbered as they begin (`Numbered`), the row's state says what is committed and fenced (`StateTells`), a request
that revokes or completes means an attempt that was written (`JobsWritten`), and
one that completes has left no other session of that time (`AloneToComplete`).
`FlowWritesOnce` needs that a request carries the flow it came with
(`FlowCarried`) and that a spent flow's attempt is still in the row and written
(`SpentWrote`). From it: `FencedNeverWritten`, `CompletedAlone`,
`PendingStays`, `SpentWritesNothing`, `TypeCorrect`, and the refinement
`Implements`: only the provider's run, witnessed, is a `Write`, and because
attempts are numbered as they begin and only the row's attempt is open, a begin
finds no other attempt with the right.

**OnboardingPacketProofs.** `IInv` adds to the three invariants what the locks
give: one resync at a time holds the packet (`OneHolder`); while it does, the
packet is in progress with the template it found, and its rows are as it read
them (`Held`); a definition that never moved is in the template it was created
in, also in what a resync has read (`NeverMoved`); and there are no rows without
a packet (`NoPacketNoRows`). `Commit` then writes what the present rows make of
the definitions, so it loses nothing written before it, and everything written
after it waited. From it: `RowsAreUnique`, `StagesFit`, `SelectedOnly`,
`ProgressKept`, `WorkSurvives`, `FinishedStays`, `TypeCorrect`.

The refinement `Implements` (of `PacketRecord`) has two steps of any depth.
`CommitResyncs`: the rows a resync has read are the rows there are (`Held`), its
match gives different definitions different rows, and so `Refreshed` is
`Continues` of the step as it is and `Made` is one that has begun; a row adopted
lost its definition, and one newly made found none to adopt. `EditWorks`: the
trigger's `Fits` is asked of the row as it is, which is what the promise asks.

**DutyRosterProofs.** `IInv` says what the plan of a call can be (`Calls`: who the
roster or a swap puts on a day is never who the plan read there), that a checked
call holds the lock of each of its days (`HoldsDays`), that a save of starting
numbers holds the form it read, not carried, and a swap's duty is on a roster
(`HoldsForm`). A write then touches no day of another checked call (`OtherDays`),
which gives `ChecksHoldThroughWrite`. `SwapsKnown` keeps, for each swap that
stands, that People hold both days and that what it would restore with the
roster's mark is the roster's last pick of that day; with it an undo earns the
marks it puts back (`MarksAreEarned`), and every swap that outlives a write has
neither of its days changed (`WrittenSwaps`, `SwapsAlwaysStand`). For the
record: a form that is not the duty's first starts on its own date
(`StartAfterFirst`), so a close by a device a day behind can neither overlap the
form before nor take the rules of a carried form that has started in place
(`CarriedStand`); `RecordAlwaysStays`. No bound on days, calls or forms enters.

The refinement `Implements` (of `DutyBook`) needs three more facts, `BookInv`: two
swaps that stand share no day (so an undo ends only its own), the days of a swap
are marked manual, and so is a day nobody has. `SwapsLeft` says which swaps a
write leaves; `WriteRewrites`, `SwapExchanges` and `UndoRestores` are the three
kinds of write, each a step of the book because what the call had checked still
holds (`ChecksHoldThroughWrite`).

**Only model-checked.** The liveness properties (`HeldClaimReconciles`,
`UnownedBytesGo`): liveness under fairness is out of the prover's reach. Every
other property of a passing run is proved. Proved and in no run, because a
refinement or an invariant that is in one says more: `MembersWereInvited`,
`OwnershipPasses`, `UnrevokedStaysPending`, `OnePendingPerTarget`,
`RemovedStaysEmpty`, `CheckHoldsThroughWrite`, `WriteOnlyUnderClaim`,
`StageFitsForm`, `FinishedPacketStays`, the type invariants.

## What is left out

- **Account setup:** e-mail delivery, outbox and bounces, audit rows, rate
  limits, cookies, first and last name, the Auth user's id (one per address).
- **Files:** training certificates (retired without a hold), roster scans,
  deletion receipts, removal of a whole Organization, several statements in one
  transaction, the refusal of a file another record already has.
- **Client store:** the optimistic display over the loaded rows, changes that
  cover rows by predicate, other stores of the tab on the same sequence,
  snapshot keys of the hydrator, the special-day overlap check that decides
  when an adoption is needed. Reads that pages begin before the first load of a
  visit: those pages keep their edits disabled until the range is ready.
- **Membership:** presets, capability overrides and group scopes, delivery and
  resending of invitations, what operators do to memberships by hand, the
  suspension of a user, step-up proofs.
- **Personnel:** who may write a single record, several People in one archive,
  edits of a record's text; deletion requests for training and rating records,
  which are submitted and decided alike and end in the deletion of one row.
- **Passwords:** the proofs of the current password and their nonces, MFA, rate
  limits, the mails.
- **Onboarding:** who may do what, the order of the steps and its reordering, which
  training type a step is for, duplicates of templates, other packets of the
  Person (an index allows one in progress), the removal of the Person, the client's
  view of a packet.
- **Duty rosters:** the count engine and so which Person is picked, excusals,
  weekend and holiday tracks, several duties and whole-day replacements over
  them, Groups as holders, who may plan, the removal of a Person, the client's
  view. Two saves that the code does not relate - an assignment by hand that
  waits while the roster ends, a close that carries numbers read before a save -
  are in the model; no property is stated of them.
- **Everything listed `not_modelled`** in `PROJECT.json`, with its reason.

## The plan

Done: AccountSetup, FileRetirement, ConfirmedStore, Membership,
PersonnelLifecycle with DeletionRequests, PasswordChange, OnboardingPacket, and
DutyRoster.
What follows, in
this order; each with its MC module, a run, and where marked *, proofs.

1. **FileRetirement, extended** - training certificates, roster scans,
   Organization removal.
2. **Taskings** - status machine, participants, picks and their review.
3. **DutyRoster, extended** - the count engine as functions against a reference
   definition.
4. **RateLimit, PolicyEvaluator, Groups** - the window counter at its boundary;
   the two evaluators compared on small inputs; moves in the group forest*.
5. **Hydrator** - lanes and pending snapshots of several stores, composed with
   ConfirmedStore; the special-day refresh.
6. **Sessions** - what a request admitted before a suspension may still do.
