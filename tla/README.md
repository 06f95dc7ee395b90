# Verification of BE-FastAPI

TLA+ models of the recruitment service in this repository (FastAPI, SQLAlchemy over MySQL, Redis,
Celery), the TLC runs that check them on small instances, and theorems about them that TLAPS
checks for every instance.

    tlc -config JobLifecycle_overlap.cfg MCJobLifecycle     # one run
    tlapm JobLifecycleProofs.tla                            # the proofs of a module

`PROJECT.json` lists the components, runs, findings, hazards and theorems, and gives the source
lines of every definition that models code. The repository has no tests; docs are the docstrings of
the endpoints.

## 1. Inventory

Business accounts run recruitment *campaigns*; a campaign has one *job* advertisement; an
administrator decides on *approval requests* before visitors find the job; users send *CV
applications* to it and *chat* with the business over websockets. Celery computes statistics.

| Component | State | Operations | Hard behaviour | What makes it correct |
|---|---|---|---|---|
| Jobs (`core/job`) | table job: status, text, campaign | create, update, request publication, stop, delete, searches | create awaits between two writes; every write is a commit of its own; decisions on outdated reads | visitors find only reviewed texts; a job under review can be reviewed |
| Campaigns (`core/campaign`) | table campaign | create, update, update status (stops the job), delete (cascades) | uniqueness of the job is checked, not enforced | one job per campaign |
| Approval requests (`core/job_approval_requests`) | table job_approval_request, approval_log | approve, approve_update (approve, reject or stop an update) | two or three commits per decision; requests outlive jobs | one pending request per job, none for a job that is gone |
| Authentication and sessions (`core/auth/user_manager_service.py`, `db/base.py`) | one session and transaction per request | dependencies of every endpoint | run in threads before the handler; fix what the handler's transaction sees | - (source of the stale reads above) |
| Job cache (`storage/cache/job_cache_service.py`) | Redis: job texts, counts | read-through, delete | row read before an await, cached after it; a delete that is not awaited | no cached text outlives a decision |
| Job fields (`core/skill`, `core/category`, `core/work_locations`, `core/working_times`) | rows of skills, categories, places, hours | create and synchronise with an update | fails half way | rows of the job = lists of the update |
| Category / position counters (`model/job.py` listeners) | counters | change with the job's status | the listener commits in the middle of an update; a cascade skips it | counter = published jobs |
| CV applications (`core/cv_applications`) | table cv_application, count of campaign and of user | apply (at most 3 times), decide | read-modify-write counters on stale rows, three commits | counts agree with rows, the limit holds |
| Recruitment demand (`job_service.get_cruitment_demand`, `tasks/data_statistics.py`) | three cached numbers, table work_market | read-through, periodic insert | one key for three numbers | each number is the one it is named for |
| Websockets (`core/websocket`) | sockets per user and conversation, shared pubsub, listener tasks | connect, join, send, leave | awaits between check and subscribe; sets changed while iterated | a message reaches every open socket of its conversation |
| Conversations (`core/conversation`) | conversation, members; cached list of ids per user | create, add, list | member rows one by one; list cache appended to after expiry | cached membership = membership |
| Messages, attachments (`core/message`, `core/file`) | messages; Redis entries of uploads | send, upload | an upload is looked up, sent and deleted in steps | an upload is sent once; replies stay in their conversation |
| Verification (`core/verify`) | codes | send, verify | several live codes; a call that waits | a business is verified by a code of its own address |
| Accounts (`core/user`, `core/business`, `core/admin`) | rows in up to five tables | register, update, remove | several commits per registration | no half account is let in |
| Companies (`core/company`) | rows | update | - | - |
| Sign-in (`core/auth`, jwt, the dependencies of the routes) | tokens, blacklist | sign in, refresh, log out, authenticate | account changes between authentication and handler | a token is good until it is revoked |
| Lists, e-mail, storage, routers, schemas | constant tables, no state | - | - | - |

Interaction: endpoints call one service method each; services share the database and Redis. There
is one process with one event loop. Endpoints and service methods are coroutines; the database,
file uploads (`core/file`, boto3) and hashing are synchronous, so that a method is atomic between two
`await`s that suspend, and only Redis, websockets, pub/sub and mail do. Users are authenticated by plain
functions, which FastAPI runs in a thread pool, before the handler. Celery is a process of its own and
shares only the tables.

Which module models what:

| Module | Content | Uses |
|---|---|---|
| `JobLifecycle` | jobs, campaigns, approval requests (section 3) | `JobReview`, its abstract specification |
| `JobPage` | lists, counters and cached page of a job (section 4) | |
| `Applications` | CV applications and their three counts (section 5) | |
| `Conversations` | conversations, members, messages, uploads, cached lists (section 6) | `ConversationLog`, its abstract specification |
| `WebsocketManager` | sockets, pub/sub objects, listeners (section 7) | |
| `Accounts` | registration, tokens, verification, what authentication lets through (section 8) | `Routes`, the table of routes |
| `JobLifecycleProofs`, `JobPageProofs`, `ApplicationsProofs`, `ConversationsProofs`, `WebsocketManagerProofs`, `AccountsProofs` | theorems and proofs | the modules they are named for |
| `MC...` | definitions of constants, symmetry and the bounds of a run | the modules they are named for |

## 2. What all modules share

**Views.** A request's first SQL statement is the blacklist lookup of its authentication
(`user_manager_service.py:110`), in a thread; the handler runs later, on the loop, with the same
session (`get_db` is cached per request). MySQL's default isolation REPEATABLE READ (nothing sets
another) gives the transaction the snapshot of its first read, so the handler does not see what
other handlers did in between. Each module with tables has an action `Authenticate` that keeps
what the handler will read as it is then; the handler reads this *view* and writes to the tables as they are. Objects write the columns that differ from what
was loaded; an UPDATE of a row that is gone changes nothing, silently (`supports_sane_rowcount =
False`), and the `refresh` after it raises, so such a call has no effect. Deletes by query and foreign keys work
on the current rows. After its first commit a handler reads anew, but objects already loaded stay as they
are (`expire_on_commit=False`).

**Commits.** `CRUDBase` commits each write. A handler that dies between two of them leaves a prefix of its
writes: `Interruptions` in `JobLifecycle`, the element `"death"` or `"rows"` of `Faults` elsewhere.
Failures the code runs into by itself are always there.

**Refused calls** change nothing and are no actions. Permission checks are "the owner calls" and "an
administrator calls", except in `Accounts`, which is about them.

**Fairness** is stated in two places only: the loop resumes a suspended coroutine. Users, businesses and
administrators owe the system nothing.

**Proofs.** Every invariant, every action property and both refinements that a passing run checks are also
theorems, for all values of the constants: any number of jobs, calls, sockets and messages, any bound, every set of
faults the module names (three theorems of section 3 exclude interruptions or overlapping requests, and say so). Each section below says which invariant carries them and what is assumed of the constants; TLC
evaluates those assumptions in the runs. An assumption "`None` is no ..." keeps the model's mark for a missing value apart
from values. Only the two liveness properties stay with TLC, `CreateFilesRequest` and `HandedOut`: `WF_` and
`ENABLED` are beyond the installed provers. The four properties of the "violation" runs are false.

## 3. The job life cycle

**State.** `campaign`, `status`, `campaignOf`, `content` and `requests` are the tables; a job is
`"none"` before it is made and `"deleted"` afterwards; ids are not used twice, as with auto
increment. `nextId` is the next id of the request table, and ids stand for the order of
`created_at` (which has seconds; equal seconds are taken in the order of the ids). `creating[j]` is
what a `create` handler holds while it awaits Redis. `seen` are the views described next.

**Views.** `Authenticate` puts a snapshot into `seen`; each handler takes a view
`v \in seen \cup {Now}`. The writes of objects are `WriteStatus`, `WriteContent`, `WriteCampaign`, `Decide`;
`remove_pending_by_job_id` and foreign keys work on the current rows; after its first commit
`UpdateCampaignStatus` goes on with `StopJob(Now, ..)`.

**Commits.** `Interruptions = TRUE` adds to each handler the
prefixes it leaves when it dies between two commits. Failures the code runs into by itself: a new skill in an update
raises after the row is written (`skillsKnown`), the approval log refuses a reason of more than
100 characters (the `UNCHANGED requests` alternatives of `Approve` and `StopByAdmin`),
`campaign_helper.get_info` raises for a job without request.

**Abstractions.** A job's content (`JobUpdate` columns and field rows) is one atom here; `JobPage` has the rows.
`approve_update` with APPROVED is always refused (see findings). The approval log is only written. The scan
for expired jobs is rolled back (`crud/job.py:398` never commits), so `"expired"` appears in guards and not
as an action.

**Properties**

| Property | Says | Where it holds |
|---|---|---|
| `TypeOK` | types; no row past the next id | always, proved |
| `OnePendingRequest` | at most one request of a job is pending | always, proved |
| `NoDanglingRequest` | a request that names a job names one that exists | always, proved |
| `PendingReviewable` | a job under review has a request | handlers run to their end, proved |
| `CampaignHasOneJob` | a campaign has one job | requests do not overlap, proved; refuted otherwise |
| `ReviewSpec` | refinement of `JobReview` | requests do not overlap, proved |
| `CreateFilesRequest` | a suspended `create` files its request or finds the job deleted | checked, with fairness |

**Runs**

The configurations of this section say `CHECK_DEADLOCK FALSE`: ids are bounded and never used twice, and a
service may be idle.

| Run | Bounds | Shows |
|---|---|---|
| `lifecycle_overlap` | 1 campaign, 1 job, 1 content, 3 requests, 1 outdated view | `TypeOK`, `OnePendingRequest`, `PendingReviewable`, `NoDanglingRequest` with overlapping requests. Three requests are a first one, its successor and one more filed from an outdated view; the properties speak of one job and its requests, so that a second job adds only interleavings. |
| `lifecycle_alone` | 2 campaigns, 2 jobs, 2 contents, 2 requests, no views, interruptions | `CampaignHasOneJob` and `ReviewSpec` with handlers dying between commits. Two jobs compete for a campaign; two contents tell a reviewed text from another. |
| `lifecycle_resume` | 1 campaign, 2 jobs, 1 content, 3 requests | `CreateFilesRequest`: what happens to a job during the await. |
| `lifecycle_two_jobs` | as overlap, 2 jobs | violation, see below |
| `lifecycle_race` | as overlap, 2 contents | violation |
| `lifecycle_by_id` | 1 job, 2 contents, no views | violation |
| `lifecycle_update_refused` | 1 job, 2 contents, no views | violation |

One view in `seen` gives two requests at a time, the one that waits and the one that runs; more
are covered by the proofs. `Room` keeps an id for each suspended `create`, so that the bound on
requests never blocks a handler half way.

**Fairness.** Only `FinishCreate` is fair, weakly: the loop resumes a coroutine when Redis answers or the
call raises, and `get_info` swallows the exception (`job_helper.py:116-123`). The fair run has no
interruptions; a process that dies never resumes. Users and administrators owe nothing.

**Findings**

* `CampaignHasOneJob` (`lifecycle_two_jobs`): two creations authenticated before either ran both
  pass "Campaign already has job". No constraint backs the check; stopping the campaign then
  stops one of the jobs.
* `PublishedTextFixed` (`lifecycle_race`): an update authenticated while the job is under review and
  run after its publication changes the text on the site without a review.
* `ListedJobFound` (`lifecycle_by_id`): the list shows a published job with *some* approved request,
  the page of the job wants its *oldest* one to be approved and answers 404. In the run the owner of a
  job under review asks for publication, which adds a second request, and an administrator approves the job through
  that one while the first still waits.
* `UpdateCanBeApproved` (`lifecycle_update_refused`): when an update of a published job is filed, there should be a form
  it can have that passes at its approval. There is none: `validate_email_contact` turned a list into JSON text, which the
  second validation refuses, and an `email_contact` that was left out (validators are not called on defaults) is stored
  as null, which it refuses too. In the run a job is created, published and updated. The refusal itself changes nothing
  and is no step: the property evaluates it on what the step filed.

**Proofs**

Assumptions on the constants: `MaxRequests` and `MaxSnapshots` are numbers, `Interruptions` is a
Boolean, `None` is no campaign, job, content or request. Sets may be infinite; the bounds are
arbitrary.

* `TypeCorrect`: `Typed`, which is `TypeOK` variable by variable, is inductive (one step per handler).
* `OnePending`, `NoDangling`: from `Inv = Typed /\ OnePendingRequest /\ NoDanglingRequest /\
  LiveHasContent /\ ViewsAgree`. `ViewsAgree` is the strengthening: a request a view shows still belongs to
  the same job, to none, or is gone. Without it a handler that deletes a job on an outdated view could
  detach another job's request. `LiveHasContent` is for the refinement.
* `Reviewable` (assuming `Interruptions = FALSE`): `LiveHasRequest`, that a job in *any* status has a
  request once its `create` is done, is inductive; `PendingReviewable` is not, because a
  rejected job comes back to review in an update that may fail before it files a request.
* `OneJob`, `ImplementsReview` (assuming `MaxSnapshots = 0`): `InvAlone` adds that no view is outdated and that the
  campaign of a job exists; then every handler is a `Submit`, `Publish` or `Withdraw` of `JobReview`, or
  changes nothing visible. The assumption is needed: `lifecycle_two_jobs` refutes the first without it,
  and `lifecycle_race` refutes `PublishedTextFixed`, which follows from the second.

Only model-checked: `CreateFilesRequest` (liveness under fairness is beyond TLAPS here).

## 4. What hangs on a job (`JobPage`)

**State.** `job[j]` has the form whose text is in the row (`row`), the status, the form whose places and whose
times the job has, its categories as a number of rows each, its skills; `position` and `category` are
the two counters; `page` is the cached `job_info`; `call` are the calls between authentication and answer; `filed` are the jobs that have an approval request, as far as an update or
an approval needs one. A
*form* is what an owner sends, a text with its lists. History variables record what properties excuse: `broken`
(the last writer ended half way), `orderly` (so far every writer went by the tables as they were), `excused` (a page may be
old).

**Actions.** A reader finds a page, or loads the row and makes one (`Look`), and stores it after an await (`cache_job_info`);
writers commit and then await the deletion of the page (`delete_job_info`), unless they end before it: they die, the log
refuses a reason (`Approve`), or an update of a pending job has no request to mark, because the handler that creates the job is
still at the cache or died (`RequestFound`), or the one it saw was replaced. All lists are written then and the old page
stays. `create` files the request after it made its page (`Filed`). `Updated` writes list by list: places and times are
replaced, categories are inserted *again* at each update before the old ones are compared
(`UpdateCategories`), skills are only looked up, never removed, and one the job was not created with raises. The
listener of `Job.status` commits the counters before the status itself is written (`ReceiveAfterUpdate`); it
works on the category rows that the view or, after a commit, the tables show. Deletion lowers the position and not the
categories; a campaign's deletion and stop leave the page (`campaign_service.py:206` does not await).
The cached skills a visitor sees are one set: `must_have_skills` and `should_have_skills` read the same
rows without their type.

| Property | Says | Where |
|---|---|---|
| `FieldsTogether` | the lists of a job are of one form, and the text too while writers do not overlap | proved, `job_page` |
| `CountersAgree` | while writers do not overlap, the counters are those of the published jobs, off only by deletions | proved, `job_page` |
| `PagesFresh` | a page that is not the job's is about to be deleted, or has one of the excuses of `excused`: stored late, its writer ended early or had no cache, or the job changed through its campaign | proved, `job_page` |

`PagesFresh` says that there are no other reasons for an old page; that the excuses occur, and leave a page old until it expires, is
what the code does. In the same way `CountersAgree` says nothing once calls overlapped.

Bounds of `job_page`: one job, a form without lists and one with a category and a skill, one category with at most two
rows, two calls, `"death"` and `"redis"` (the cache fails). `Bound` of `MCJobPage` keeps one call with an
old view or page at a time and one old write, follows no call that begins after the deletion, does not go on with
counters that overlapping calls made wrong, and takes one call at a time after a handler ended half way or left its job without
a request; no handler with an old view goes on while the page has its excuse. Two forms are what
tells one list from another; the second call is what makes a view old. 460 000 states.

Proofs: `Typed`, which is `TypeOK` variable by variable, is inductive (`PageTypes`). `FieldsTogether` is inductive
with it (`ListsOfOneForm`): handlers other than `Create` and `Update` do not write lists (`FieldsKept`), and
`UpdatedCategories` says that categories inserted twice still name the form's. `PagesFresh` is inductive with it
(`OldPagesExplained`); the one argument is `WrittenFresh`: whoever changes a job is then
about to forget its page, or could not and is excused, and a page whose owner did not change stays as good as it was.
`CountersAgree` is inductive with it
(`CountersHold`): a category's counter is compared with the set of rows of published jobs, which is, for one job, its own rows and
those of the others (`RowsOfOne`), so that a change of one job moves the count by what that job counts for before and
after (`CountedAgain`); the listener moves the counters by the same. A deletion may put the position's counter off by
one, in either direction (`Removed`).
Assumptions: there are finitely many jobs, `None` is no form and no forgetting call, `None` and `Gone` are no rows, `CategoriesOf`
gives categories, `MaxRows` is positive.

## 5. CV applications (`Applications`)

**State.** `rows` is the table cv_application (user, campaign, `count`, status); `countApply` and
`countJobApply` are the counts of campaigns and users; `campaign` tells whether the campaign has a job that can
be applied to; `call` the authenticated calls with their views. `accepted`, `answered`, `together` and `died` are
history: applications accepted per user and campaign, rows whose stored CV was answered, users with a call beside any
other call, users whose handler died.

**Actions.** `ApplyFirst` reads everything in its view and writes three commits: the row, the campaign's count (view + 1,
so overlapping increments are lost), the user's count (read anew, so they are not). `ApplyAgain` raises the
row's count and returns the status to pending, unless the view showed it pending: then an answer given meanwhile
stays. `Answer` is the business; "stopped" is always refused and "viewed" is never set. A campaign whose view shows
applications cannot be deleted; an older view deletes it and the applications with it. The opening and closing of a campaign's
job are `JobLifecycle`'s and external here (`JobChanges`).

All are proved.

| Property | Says |
|---|---|
| `AtMostThree` | no row counts past three, whatever overlaps; a user whose calls do not overlap is accepted three times in a campaign at most |
| `OneApplication` | such a user has one row per campaign, which counts what was accepted |
| `CountsAgree` | a campaign never counts more than its rows, and all of them without overlaps or deaths; a user's own count loses nothing unless a handler of theirs died |
| `AnsweredAsStored` | without overlaps, an answer is for the CV that is stored |

Bounds of `applications`: two users, one campaign, two calls, one answer, two rows, `"death"`. Two users
are needed for a lost increment, two calls of one user for two rows; three accepted applications of a user are one
row. 1.3 million states; deadlock is checked (a call may always come in).

**Proofs.** The invariant is `Typed /\ Behind /\ Alone /\ Applied /\ CampaignCounted /\ CandidateCounted /\ AnsweredAsStored`.

* `Behind`: a view is behind the tables and never beside them. What it shows was written before the next id, its row is still
  there if the campaign is, with the same owner; and it counts no more applications than it shows. This is why a lost increment
  only ever makes the campaign's count too small (`CountsHold`) and why no row counts past three (`ThreeAtMost`), although
  the limit is checked against the view.
* `Alone`: the call of a candidate who is not in `together` is the only one and sees the rows as they are. With it `Applied`
  is inductive: what was accepted from such a candidate is what his one row counts (`OneRow`, and the second half of
  `ThreeAtMost`). `AnsweredAsStored` needs it too: the status an application found is the one that is stored (`AnswersHold`).
* `CampaignCounted`, `CandidateCounted`: the parts of `CountsAgree` that `Behind` does not give.

Assumptions: the business is no user, answers are among the three the code accepts, `None` is no row.

## 6. Conversations (`Conversations`, `ConversationLog`)

**State.** Conversations (`creator`, `count`, `members`), `messages`, the cached list of conversation ids of
each account (`listed`), the cached `uploads`, and the `session`s: an HTTP request makes one call, a websocket one after
the other with one database session. A view is taken at authentication and after a session's own commits, so a websocket
that only reads keeps its view for hours; Redis answers are current. `opens` of a message (the conversation was made
for it) and `abandoned` (files whose handler ended after it sent them and before their uploads were deleted) are history.

**Actions.** Every piece between two awaits on Redis is an action. A conversation is made by a request or by the first
message; the row comes first, then each member by a step and a commit of its own (`CreateRow`, `AddMember`). Between these the
handler does not wait, so no other runs on the loop (`LoopFree`), but requests are authenticated meanwhile and see some of the
rows. `create_private_conversation` is called with its arguments swapped: the `creator` column
names the *other* account, whose row is the last one. `get_private_conversation` never finds anything, so a second
conversation of the same two is a new one. A member cannot be named twice (`check_business_can_contact` counts distinct candidates).
The parent of the message that makes a conversation is checked by nothing but the foreign key, which accepts the row itself. Attachments with the message that makes a conversation are always refused.
`"lists"`: a Redis call on a cached list fails, which the code survives; `"uploads"`: the deletion of an upload fails, or the
handler dies before it, after its messages were committed; `"rows"`: a handler dies between two rows, of a conversation or of the attachments
of a message; a session may also close while it is suspended.

All are proved.

| Property | Says |
|---|---|
| `ListedAreMembers` | cached lists name only conversations of their user, whatever order fills, appends and expiries come in |
| `CompleteConversation` | who finds the account of the creator column in a conversation, or the message it was made for, finds all members, at any moment of the loop that inserts them and after a death in it |
| `RepliesStay` | an answer is to an older message of its conversation; only the one message a conversation was made for may name one of elsewhere, or itself |
| `SentUploadsGone` | an upload that was sent is still cached only while a handler that sent it is about to delete it, or if one ended before it did: then a later message can send it again |
| `LogSpec` | refinement of `ConversationLog`: nobody leaves a conversation or joins one in which something was said, messages are appended by members and never change |

Bounds of `conversations`: a business and two candidates, sessions of the business and one candidate, two conversations, one
file, two messages. `Bound` has two sessions at work while there is one conversation and at most one
message, one of them behind the tables at a time; a group has no attachments; attachments and second conversations come
without conversations left half founded; after an upload was abandoned one session works; no parent is further ahead than
the next message. Overlaps are about the
first conversation and message; the second ones are for order and replies. 520 000 states.

**Proofs.** The invariant is `Typed`, `Fresh` (an id that is not in use has no members), `Authored` (a sender was a member),
`Informed`, `Alone` (each conversation has one handler that makes it), `CachedOnce` (a file is cached under one key), `Held` (a
handler that has a file has it under a name it was given)
and the four properties. `Informed` is the argument: what a suspended handler found out, at whatever stage it waits and however
old its view was, still holds when it goes on - its user is in the conversation, the message it answers is there and of that
conversation. It holds because members and messages are only ever added. For a handler that makes a conversation it has `Joining`
(the members to come and those that are there are the conversation's `count`, its creator is still to come, and nobody wrote in it) and
then `Opening` (all are there, and the message it was made for is not); `Alone` keeps these from other handlers' steps, and they
carry `CompleteConversation` through the loop and allow one opening message only. `SoundOne` gathers it for one session, and each
action is shown to keep one session `Sound` and to leave the others so. `ChatKeepsLog`: with this invariant a member's
row is a `Join`, the two ways of sending are `Post` of a member, and every other step stutters.

Assumptions: there are finitely many accounts, contacts are pairs of a user and a business, images are files, `None` is no
account, file or session.

Not modelled here: the change of a conversation's name and members (always fails), its avatar (one row),
what a message says, typing.

## 7. Websocket manager (`WebsocketManager`)

**State.** `socket` (where each websocket's handler stands and its ids), the sets of sockets per conversation, which are
objects that are replaced (so that a listener may iterate over an old one), pub/sub objects with their subscriptions and
`inbox`es, and `listener`s: one task per object, which may read an object made for another. `got` counts what each socket was sent,
`sent` is what was published; `emptied` are conversations that lost their last socket (history), and `were` of a listener the
sockets that were in the set when it began with its message (history).

**Actions** lie between any two awaits: connect, join (check, subscribe, task), publish, leave, the listener's
steps from one socket of a set to the next. Python raises when a set has another size at the next step of an iteration; of a set that
changed and has the same size again, newcomers may come ahead of the iteration or behind it, and both are modelled. A set whose last
socket left is given up with its key: a listener that iterates over it does not see what is done to the next set of that
conversation (`Stranded`). One thing is coarser than the code: `AddMembers` lets a handler end whenever a user's set of sockets
changed while it waited, also when as many left as came. Redis and the network are external: messages of a channel arrive in order, once; a
send to a closed socket raises, which ends the listener.

All but `HandedOut` are proved.

| Property | Says |
|---|---|
| `DeliveredToMembers` | nobody is sent what is said in a conversation of others |
| `DeliveredOnce` | nobody is sent a message twice, before the conversation lost its last socket |
| `LeavesClean` | a socket that left is in no set it joined |
| `NobodySkipped` | a listener that lives is done with a message only when each socket that was there when it began has it or is closed |
| `HandedOut` | what waits at an object with a listener is handed out, or its listeners end (checked, with fairness) |

Bounds of `websocket_manager`: two sockets of two users, one HTTP request of a third that makes
conversations, two conversations (one exists from the start), two pub/sub objects, two messages. Fairness: weak for each
listener (`Listen(p)`), because the loop resumes a task when Redis or the socket answers; nothing is assumed of
clients. 700 000 states.

**Proofs.** `Step` says of each action what it does to the fields of the one handler, object or listener it is about
(the lemmas `...Does`), and the parts of the invariant are shown to survive a `Step`, group by group:

* where the tasks stand: `Staged`, `Waits` (no two handlers wait for the same object and nobody listens under its number before),
  `RoomLeft` (a conversation in the making finds room for its message: the bound never stops a handler half way), `Known`;
* whose everything is: `Owned`, `Joining`, `Inside`, `Hearing`, which give `DeliveredToMembers`. A listener may read an object that was
  made for another conversation, but the message names its conversation, and the sockets are looked up by it;
* leaving: `Forgotten` and `Leaving` (what a leaving socket is still in is on its list), which give `LeavesClean`. The first
  is needed because handlers that make a conversation add the sockets of `users`, between any two awaits of the leaving one;
* one source: `OneSource`. A conversation that was never emptied is subscribed by one object, or one handler is about to
  subscribe it, or it has no sockets. This is what the key that is set before the await buys. From it `OneCopy`: of each
  message of such a conversation there is one copy, at one place of one inbox, in the hands of one listener, or gone;
  this gives `DeliveredOnce`;
* `Watched`: while a listener hands out a message, those it knows of are still in the set or closed, and those that were there when
  it began are still to come, have the message, or are closed; this gives `NobodySkipped`.

Assumptions: sockets, requests and conversations are finitely many, no socket is a request, `None` is no set, subscription or listener.

## 8. Accounts, tokens and routes (`Accounts`, `Routes`)

**State.** `rows[t]`: ids with a row in table `t` (account, manager, business, admin, user, social network);
`role`, `verified`, addresses, `tokens` and `revoked` (the blacklist), verification `codes` with the minute they were sent, and
calls: free, or granted, that is, authenticated and waiting for their handler. Time is a counter up to `MaxTime`; a code lives
`Delta` minutes.

**Actions.** A registration commits table by table and may die in between (one step: nobody sees an id before the
answer). Sign-in by password and by Google, refresh, log-out, removal, sending and checking a code. `Routes` has every route
with the dependency it authenticates with, and `Accepts` what each dependency looks for.

All are proved.

| Property | Says |
|---|---|
| `WholeWhenGranted` | who is let through to an HTTP route has all the rows the handlers take for granted |
| `SignedInStaysIn` | a token is good until it is revoked or its account loses a row |
| `VerifiedByCode` | a business is verified only by a live code mailed to its own address |

Bounds of `accounts`: two new ids and an administrator, two addresses, two calls, two points of time, four tokens; `Bound` takes
two calls only when both change something and there are two tokens at most, and two accounts signed in only in the first
minute. Two addresses and two accounts are what mixes up codes and rows, a waiting call and one that changes its account what
makes a view old.

**Proofs.** The invariant is `TypeOK` with `RowsFit` (an id has rows of its role only, and each with the rows committed before it),
`EverSigned` (who was ever given a token was whole then, and still is as far as the rows are there: removals and the link with
Google leave no half), `OwnAddress` (managers have addresses of their own; a code is a manager's) and `LetThrough` (who was let
through has a token that was signed, and a call that checks a code sees no other account with its address). The four properties
follow from it: `WholeAtTheDoor` goes through the table of routes by dependency, `StaysIn` and `ByItsOwnCode` are about
one step. `OwnAddress` is why a code that is looked up by address cannot be somebody else's. Assumptions: `Delta` and the bounds are
numbers, new ids are no administrators, `None` is no role and no address.

Not modelled: expiry of tokens, change of passwords, profiles (one row), creation of administrators (always fails),
`set_user_active`. The router `business_approval_log` is not registered, so it is in no table.

## 9. Runs

| Run | Module, configuration | Question |
|---|---|---|
| `lifecycle_*` (7) | `MCJobLifecycle` | section 3 |
| `job_page` | `MCJobPage`, `JobPage.cfg` | do lists, counters and page follow the job through overlaps, deaths and a failing cache? |
| `applications` | `MCApplications`, `Applications.cfg` | do limit, counts and answers survive overlapping calls? |
| `conversations` | `MCConversations`, `Conversations.cfg` | do cached lists, members, uploads and messages stay together? |
| `websocket_manager` | `MCWebsocketManager`, `WebsocketManager.cfg` | does each message reach whom it should, once? |
| `accounts` | `MCAccounts`, `Accounts.cfg` | who gets through to which route, with which rows? |

`Applications.cfg` and `JobPage.cfg` leave the deadlock check on; the others say `CHECK_DEADLOCK FALSE`, since
ids, messages, tokens and time are bounded and nothing need happen when they are used up.

## 10. Disagreements without a run

Read in the code while modelling. The models have what the code does; no run refutes anything with it.

* A wrong verification code never counts: `VerifyCodeUpdate` wants fields the call does not give
  (`verify_service.py:118`), so the block after five attempts never happens.
* Candidates made by Google are never verified (`user_auth_service.py:88`, `108-122`). Candidates linked with
  Google or with applications cannot be deleted (foreign keys without cascade).
* A business whose registration died keeps its address taken and can never sign in. A removed administrator's
  account row stays, so the websocket accepts his token.
* Tokens of one account signed in the same second are equal; access and refresh tokens are revoked one by one.
* `CompanyService.create` always fails (`company_service.py:77`, `111-115`); an update whose fields are `None` raises
  after the row was written (`field_helper.py:60`); the generator `get_field_ids_by_company_id` is consumed
  before it is compared, so fields are added again. Categories of a job are added again likewise; skills are never removed.
* Three statistics share a cache key (`job_cache_service.py:63-77`): the number stored first is served for all three.
* `campaign_service.py:206` does not await `delete_job_info`: the page of a stopped campaign's job stays.
* Lists of applications answer 500 when a campaign's job was deleted.

## 11. Plan: what is left

1. Expiry of tokens and change of passwords in `Accounts`; updates of companies and saved jobs.
2. An abstract specification of `WebsocketManager` (a message goes to the sockets that are in its conversation when it is read),
   of which `OneCopy` and `Watched` are the two halves.
3. Liveness stays with TLC: `CreateFilesRequest`, `HandedOut`.

## 12. Not modelled

Recruitment demand (which number is shown is decided by the cache key alone); companies (creation fails, an
update is one row and its fields); e-mail, object storage and Redis connection handling (output or external services); configuration
lists (constant, edited one row at a time); migrations; schemas that only check the shape of an input.
`PROJECT.json` gives the reason for each component.
