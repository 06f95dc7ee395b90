------------------------------ MODULE JobPage ------------------------------
(***************************************************************************)
(* What hangs on a job beside its row (app/core/job, model/job): the lists *)
(* of its skills, places, categories and times, the counters of its        *)
(* position and categories, and its page in the cache.                     *)
(*                                                                         *)
(* Nobody keeps these together but the order of the commits.  A handler    *)
(* goes by what its call saw when its user was authenticated until its     *)
(* first commit, and suspends only at the cache: a reader between a miss   *)
(* and the page it stores, a writer before it forgets the page.  Requests  *)
(* and campaigns are JobLifecycle's: here a job has had one or not.        *)
(***************************************************************************)
EXTENDS Integers, FiniteSets

CONSTANTS
    Jobs,           \* job ids, all of one position
    Forms,          \* what an owner can send: a text with its lists
    Categories,
    CategoriesOf,   \* the categories each form names
    SkillsOf,       \* the skills each form names
    Calls,          \* calls at a time
    MaxRows,        \* bound: rows of one category a job ever has
    None,           \* no job, no page, no call; a list that is no form's
    Gone,           \* a job that was deleted
    Faults          \* {"death"}: handlers may end between two commits; {"redis"}: it fails

ASSUME ConstantsAssumption ==
    /\ IsFiniteSet(Jobs)
    /\ CategoriesOf \in [Forms -> SUBSET Categories]
    /\ MaxRows \in Nat \ {0}
    /\ None \notin Forms \cup [at : {"forgetting"}, job : Jobs]
    /\ Faults \subseteq {"death", "redis"}

VARIABLES
    job,            \* the rows of each job
    position,       \* JobPosition.count
    category,       \* Category.count
    page,           \* the cached pages
    filed,          \* the jobs that have an approval request, or had one when deleted
    call,           \* the calls that are authenticated and not answered
    broken,         \* history: the jobs whose last writer ended half way
    orderly,        \* history: every writer so far went by the tables as they were
    excused         \* history: the jobs whose page may be old, for a reason given below

counters == <<position, category>>
vars == <<job, counters, page, filed, call, broken, orderly, excused>>

JobStatus == {"pending", "published", "rejected", "stopped"}
Rows == [Categories -> 0..MaxRows]
Job == [status : JobStatus, row : Forms, skills : {{}} \cup {SkillsOf[f] : f \in Forms},
        locations : Forms \cup {None}, categories : Rows, times : Forms \cup {None}]
ASSUME GoneAssumption == None # Gone /\ {None, Gone} \cap Job = {}

JobTable == [Jobs -> Job \cup {None, Gone}]
View == [job : JobTable, position : Int, category : [Categories -> Int]]
Now == [job |-> job, position |-> position, category |-> category]

IsJob(row) == row \notin {None, Gone}

\* A page shows a category once, however many rows it has.
NamedBy(rows) == {k \in Categories : rows[k] > 0}
get_info(row) == [status |-> row.status, row |-> row.row, skills |-> row.skills,
                  locations |-> row.locations, categories |-> NamedBy(row.categories),
                  times |-> row.times]
JobItemResponse ==
    [status : JobStatus, row : Forms, skills : {{}} \cup {SkillsOf[f] : f \in Forms},
     locations : Forms \cup {None}, categories : SUBSET Categories, times : Forms \cup {None}]

\* What a handler saw, with the jobs that had a request then; what a reader made, or the
\* handler that creates the job.
Call == [at : {"handler"}, view : View, filed : SUBSET Jobs]
            \cup [at : {"filling"}, job : Jobs, page : JobItemResponse, creates : BOOLEAN]
            \cup [at : {"forgetting"}, job : Jobs]

TypeOK ==
    /\ Now \in View
    /\ page \in [Jobs -> JobItemResponse \cup {None}]
    /\ filed \subseteq Jobs
    /\ call \in [Calls -> Call \cup {None}]
    /\ broken \subseteq Jobs
    /\ orderly \in BOOLEAN
    /\ excused \subseteq Jobs

Init ==
    /\ job = [j \in Jobs |-> None]
    /\ position = 0
    /\ category = [k \in Categories |-> 0]
    /\ page = [j \in Jobs |-> None]
    /\ filed = {}
    /\ call = [c \in Calls |-> None]
    /\ broken = {}
    /\ orderly = TRUE
    /\ excused = {}

-----------------------------------------------------------------------------
(* Calls. *)

Authenticate(c) ==
    /\ call[c] = None
    /\ call' = [call EXCEPT ![c] = [at |-> "handler", view |-> Now, filed |-> filed]]
    /\ UNCHANGED <<job, counters, page, filed, broken, orderly, excused>>

Handling(c) == call[c] # None /\ call[c].at = "handler"

\* The call is of somebody that reads no job, is refused, or fails before it writes.
Refused(c) ==
    /\ Handling(c)
    /\ call' = [call EXCEPT ![c] = None]
    /\ UNCHANGED <<job, counters, page, filed, broken, orderly, excused>>

\* mutant: nobody awaits the deletion of the page
BugWritten(c, j, through) ==
    /\ call' = [call EXCEPT ![c] = None]
    /\ excused' = IF through THEN excused ELSE excused \cup {j}

\* A writer that is through forgets the page next; one that ended early never does.
Written(c, j, through) ==
    IF through
    THEN /\ call' = [call EXCEPT ![c] = [at |-> "forgetting", job |-> j]]
         /\ UNCHANGED excused
    ELSE /\ call' = [call EXCEPT ![c] = None]
         /\ excused' = excused \cup {j}

-----------------------------------------------------------------------------
(* The cache. *)

\* The page is answered from the cache; without one, or without the cache, it is
\* made from the view.
Look(c, j) ==
    /\ Handling(c)
    /\ IsJob(call[c].view.job[j])
    /\ \/ /\ page[j] # None
          /\ call' = [call EXCEPT ![c] = None]
       \/ /\ page[j] = None \/ "redis" \in Faults
          /\ call' = [call EXCEPT ![c] = [at |-> "filling", job |-> j, creates |-> FALSE,
                                          page |-> get_info(call[c].view.job[j])]]
    /\ UNCHANGED <<job, counters, page, filed, broken, orderly, excused>>

IsPageOf(p, j) == IsJob(job[j]) /\ p = get_info(job[j])

\* With the page made, the handler that creates a job files its request: it deletes
\* those that wait, then adds one.
Filed(c) ==
    \/ /\ call[c].at = "filling" /\ call[c].creates
       /\ \/ filed' = filed \cup {call[c].job}
          \/ "death" \in Faults /\ filed' \in {filed, filed \ {call[c].job}}
    \/ /\ ~(call[c].at = "filling" /\ call[c].creates)
       /\ UNCHANGED filed

\* It is stored whatever became of the job, or of an earlier page, since.
cache_job_info(c) ==
    /\ call[c] # None
    /\ call[c].at = "filling"
    /\ Filed(c)
    /\ LET j == call[c].job IN
       /\ page' = [page EXCEPT ![j] = call[c].page]
       /\ excused' = IF IsPageOf(call[c].page, j) THEN excused \ {j} ELSE excused \cup {j}
    /\ call' = [call EXCEPT ![c] = None]
    /\ UNCHANGED <<job, counters, broken, orderly>>

delete_job_info(c) ==
    /\ call[c] # None
    /\ call[c].at = "forgetting"
    /\ LET j == call[c].job IN
       /\ page' = [page EXCEPT ![j] = None]
       /\ excused' = excused \ {j}
    /\ call' = [call EXCEPT ![c] = None]
    /\ UNCHANGED <<job, counters, filed, broken, orderly>>

\* The handlers go on when the cache fails.
CacheFails(c) ==
    /\ "redis" \in Faults
    /\ call[c] # None
    /\ call[c].at \in {"filling", "forgetting"}
    /\ Filed(c)
    /\ call' = [call EXCEPT ![c] = None]
    /\ excused' = IF call[c].at = "forgetting" THEN excused \cup {call[c].job} ELSE excused
    /\ UNCHANGED <<job, counters, page, broken, orderly>>

Expire(j) ==
    /\ page[j] # None
    /\ page' = [page EXCEPT ![j] = None]
    /\ excused' = excused \ {j}
    /\ UNCHANGED <<job, counters, filed, call, broken, orderly>>

-----------------------------------------------------------------------------
(* The lists. *)

\* A job is created with all lists of a form, a commit for each row (here: list):
\* the row, its skills, its places, its categories, its times.  Then its page is
\* made and stored.
create_fields(f, commits) ==
    [status |-> "pending", row |-> f,
     skills |-> IF commits > 1 THEN SkillsOf[f] ELSE {},
     locations |-> IF commits > 2 THEN f ELSE None,
     categories |-> [k \in Categories |-> IF commits > 3 /\ k \in CategoriesOf[f] THEN 1 ELSE 0],
     times |-> IF commits > 4 THEN f ELSE None]

Create(c, j, f, commits) ==
    /\ Handling(c)
    /\ job[j] = None
    /\ job' = [job EXCEPT ![j] = create_fields(f, commits)]
    /\ \/ /\ commits = 5
          /\ call' = [call EXCEPT ![c] = [at |-> "filling", job |-> j, creates |-> TRUE,
                                          page |-> get_info(job'[j])]]
          /\ UNCHANGED broken
       \/ /\ commits < 5
          /\ "death" \in Faults
          /\ call' = [call EXCEPT ![c] = None]
          /\ broken' = broken \cup {j}
    /\ UNCHANGED <<counters, page, filed, orderly, excused>>

\* mutant: the categories to remove are computed after the ids are used up
BugUpdateCategories(rows, f) ==
    [k \in Categories |-> IF k \in CategoriesOf[f] THEN rows[k] + 1 ELSE rows[k]]

\* The ids the job has come from a generator, which is used up when those to
\* remove are known: every category of the form gets a row, also one that has it.
UpdateCategories(rows, f) ==
    [k \in Categories |-> IF k \in CategoriesOf[f] THEN rows[k] + 1 ELSE 0]

\* Places and times are all deleted, then inserted.
Replaced(list, f, commits, deletion) ==
    CASE commits < deletion -> list
      [] commits = deletion -> None
      [] commits > deletion -> f

\* The ids of the skills are used up too, here before those to remove are known:
\* none ever is.  And a skill the job does not have cannot be added, the handler
\* raises at its first.
SkillsKnown(row, f) == SkillsOf[f] \subseteq row.skills

\* The row (what differs from the one that was seen), places out and in,
\* categories, times out and in.
Updated(seen, row, f, commits) ==
    [row EXCEPT
        !.status = IF seen.status = "rejected" THEN "pending" ELSE @,
        !.row = IF seen.row = f THEN @ ELSE f,
        !.locations = Replaced(@, f, commits, 2),
        !.categories = IF commits > 3 THEN UpdateCategories(@, f) ELSE @,
        !.times = Replaced(@, f, commits, 5)]

\* The request of a pending job is marked after the lists, the one that was seen: with
\* none the handler raises, and the page stays.
RequestFound(c, j) == call[c].view.job[j].status = "pending" => j \in call[c].filed

\* An update of a job that is not on the site, as the call sees it.  A rejected job is
\* filed again, after the lists.  That of a pending job may fail there although it saw a
\* request: another call has replaced it.
Update(c, j, f, commits) ==
    /\ Handling(c)
    /\ IsJob(job[j])
    /\ LET v == call[c].view IN
       /\ IsJob(v.job[j])
       /\ v.job[j].status # "published"
       /\ job' = [job EXCEPT ![j] = Updated(v.job[j], job[j], f, commits)]
       /\ orderly' = (orderly /\ v = Now)
       /\ filed' = IF commits = 6 /\ v.job[j].status = "rejected" THEN filed \cup {j} ELSE filed
    /\ job'[j].categories \in Rows
    /\ SkillsKnown(job[j], f) \/ commits = 1
    /\ commits < 6 => "death" \in Faults \/ ~SkillsKnown(job[j], f)
    /\ broken' = IF commits < 6 THEN broken \cup {j} ELSE broken \ {j}
    /\ \/ Written(c, j, commits = 6 /\ RequestFound(c, j))
       \/ /\ "death" \in Faults \/ call[c].view.job[j].status = "pending"
          /\ Written(c, j, FALSE)
    /\ UNCHANGED <<counters, page>>

\* The update of a published job waits for a decision, which never takes effect.
UpdatePublished(c, j) ==
    /\ Handling(c)
    /\ IsJob(job[j])
    /\ IsJob(call[c].view.job[j])
    /\ call[c].view.job[j].status = "published"
    /\ filed' = filed \cup {j}
    /\ Written(c, j, TRUE)
    /\ UNCHANGED <<job, counters, page, broken, orderly>>

-----------------------------------------------------------------------------
(* The status and the counters. *)

\* mutant: only a job that goes back to review is counted down
BugReceiveAfterUpdate(v, j, old, new) ==
    LET by == IF new = "published" /\ old # "published" THEN 1
              ELSE IF old = "published" /\ new = "pending" THEN -1 ELSE 0
        rows == v.job[j].categories
    IN  /\ position' = IF by = 0 THEN position ELSE v.position + by
        /\ category' = [k \in Categories |->
                IF by = 0 \/ rows[k] = 0 THEN category[k] ELSE v.category[k] + by * rows[k]]

\* The listener that is called before a status is assigned: the counters are read
\* in v, counted up or down, a category once for each row, and written.
ReceiveAfterUpdate(v, j, old, new) ==
    LET by == IF new = "published" /\ old # "published" THEN 1
              ELSE IF old = "published" /\ new # "published" THEN -1 ELSE 0
        rows == v.job[j].categories
    IN  /\ position' = IF by = 0 THEN position ELSE v.position + by
        /\ category' = [k \in Categories |->
                IF by = 0 \/ rows[k] = 0 THEN category[k] ELSE v.category[k] + by * rows[k]]

\* mutant: the decision on the request becomes the status of the job
BugUpdateStatusJob(seen, v, j, new, commits) ==
    /\ ReceiveAfterUpdate(v, j, seen.status, new)
    /\ job' = IF commits = 1 \/ seen.status = new \/ ~IsJob(job[j]) THEN job
              ELSE [job EXCEPT ![j].status = IF new = "published" THEN "approved" ELSE new]
    /\ commits = 1 => "death" \in Faults

\* The listener commits what it counted; the status is written after that, if it
\* is not the one seen.  A job that is gone is counted all the same, and then not found.
update_status_job(seen, v, j, new, commits) ==
    /\ ReceiveAfterUpdate(v, j, seen.status, new)
    /\ job' = IF commits = 1 \/ seen.status = new \/ ~IsJob(job[j]) THEN job
              ELSE [job EXCEPT ![j].status = new]
    /\ commits = 1 => "death" \in Faults

\* The administrator's decision on the request of a job under review.  The handler may
\* end after the status: the log refuses a long reason.
Approve(c, j, new, commits) ==
    /\ Handling(c)
    /\ LET v == call[c].view IN
       /\ IsJob(v.job[j])
       /\ v.job[j].status = "pending" /\ j \in call[c].filed
       /\ update_status_job(v.job[j], v, j, new, commits)
       /\ orderly' = (orderly /\ v = Now /\ commits = 2)
    /\ Written(c, j, commits = 2 /\ IsJob(job[j])) \/ Written(c, j, FALSE)
    /\ UNCHANGED <<page, filed, broken>>

\* The owner stops the job, an administrator one that is published.
Stop(c, j, commits) ==
    /\ Handling(c)
    /\ LET v == call[c].view IN
       /\ IsJob(v.job[j])
       /\ update_status_job(v.job[j], v, j, "stopped", commits)
       /\ orderly' = (orderly /\ v = Now /\ commits = 2)
    /\ Written(c, j, commits = 2 /\ IsJob(job[j]))
    /\ UNCHANGED <<page, filed, broken>>

\* The owner asks for publication.  The request comes first, a commit after which
\* the counters are read anew, but the job's status is the one that was seen.
RequestPublication(c, j, commits) ==
    /\ Handling(c)
    /\ IsJob(job[j])
    /\ LET v == call[c].view IN
       /\ IsJob(v.job[j])
       /\ update_status_job(v.job[j], Now, j, "pending", commits)
       /\ orderly' = (orderly /\ v = Now /\ commits = 2)
    /\ filed' = filed \cup {j}
    /\ Written(c, j, commits = 2)
    /\ UNCHANGED <<page, broken>>

\* The campaign of the job is stopped, and the job as the database has it after
\* that.  The page is to be forgotten, but nobody awaits it.
StopCampaign(j, commits) ==
    /\ IsJob(job[j])
    /\ update_status_job(job[j], Now, j, "stopped", commits)
    /\ orderly' = (orderly /\ commits = 2)
    /\ excused' = excused \cup {j}
    /\ UNCHANGED <<page, filed, call, broken>>

\* The listener of a deletion lowers the position's counter, of the view, whatever
\* the status of the job.  It finds no rows of categories: they went before.
Delete(c, j) ==
    /\ Handling(c)
    /\ LET v == call[c].view IN
       /\ IsJob(v.job[j])
       /\ position' = v.position - 1
       /\ orderly' = (orderly /\ v = Now)
    /\ job' = [job EXCEPT ![j] = Gone]
    /\ Written(c, j, TRUE)
    /\ UNCHANGED <<category, page, filed, broken>>

\* With its campaign a job is deleted by the database: no listener, no cache.
DeleteCampaign(j) ==
    /\ IsJob(job[j])
    /\ job' = [job EXCEPT ![j] = Gone]
    /\ excused' = excused \cup {j}
    /\ UNCHANGED <<counters, page, filed, call, broken, orderly>>

-----------------------------------------------------------------------------
Next ==
    \/ \E c \in Calls :
        \/ Authenticate(c)
        \/ Refused(c)
        \/ cache_job_info(c)
        \/ delete_job_info(c)
        \/ CacheFails(c)
        \/ \E j \in Jobs :
            \/ Look(c, j)
            \/ UpdatePublished(c, j)
            \/ Delete(c, j)
            \/ \E f \in Forms, commits \in 1..5 : Create(c, j, f, commits)
            \/ \E f \in Forms, commits \in 1..6 : Update(c, j, f, commits)
            \/ \E commits \in 1..2 :
                \/ \E new \in {"published", "rejected"} : Approve(c, j, new, commits)
                \/ Stop(c, j, commits)
                \/ RequestPublication(c, j, commits)
    \/ \E j \in Jobs :
        \/ Expire(j)
        \/ DeleteCampaign(j)
        \/ \E commits \in 1..2 : StopCampaign(j, commits)

Spec == Init /\ [][Next]_vars

-----------------------------------------------------------------------------
\* The lists of a job are those of one form, though each is written by itself and
\* calls may overlap: no list is kept or lost but when a handler ends half way.
\* The text is of that form too, unless it was compared with an old row; and the
\* form names no skill the job was not created with.
FieldsTogether ==
    \A j \in Jobs \ broken : IsJob(job[j]) =>
        /\ job[j].locations # None
        /\ job[j].times = job[j].locations
        /\ NamedBy(job[j].categories) = CategoriesOf[job[j].locations]
        /\ SkillsOf[job[j].locations] \subseteq job[j].skills
        /\ orderly => job[j].row = job[j].locations

Published == {j \in Jobs : IsJob(job[j]) /\ job[j].status = "published"}
Deleted == {j \in Jobs : job[j] = Gone}

\* The rows of a category that published jobs have, numbered for each job.
PublishedRows(k) ==
    {row \in Jobs \X (1..MaxRows) : row[1] \in Published /\ row[2] <= job[row[1]].categories[k]}

\* While every writer goes by the tables as they are and ends well, the counters
\* are those of the published jobs, a category's by its rows, until a job is
\* deleted.  A deletion puts the position's off by one at most, and leaves a
\* category's where it was.
CountersAgree ==
    orderly =>
        /\ position - Cardinality(Published) \in -Cardinality(Deleted)..Cardinality(Deleted)
        /\ \A k \in Categories :
            IF Deleted = {} THEN category[k] = Cardinality(PublishedRows(k))
            ELSE category[k] >= Cardinality(PublishedRows(k))

\* A page that is not the job's is about to be forgotten, or has an excuse: it was
\* made before the last change and stored after it, a writer ended early (also one that
\* did not find the request, or whose log refused the reason) or could not reach the
\* cache, or the job was changed through its campaign.
PagesFresh ==
    \A j \in Jobs : page[j] # None /\ ~IsPageOf(page[j], j) =>
        \/ j \in excused
        \/ \E c \in Calls : call[c] = [at |-> "forgetting", job |-> j]
=============================================================================
