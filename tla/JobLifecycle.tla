---------------------------- MODULE JobLifecycle ----------------------------
(***************************************************************************)
(* Job advertisements, the campaigns they belong to and the approval       *)
(* requests administrators decide on (app/core/job, app/core/campaign,     *)
(* app/core/job_approval_requests and the tables behind them).             *)
(*                                                                         *)
(* One action is one HTTP handler.  The handlers are coroutines of a       *)
(* single event loop over a synchronous database session: a handler is     *)
(* atomic up to its first `await' on Redis.  Only the creation of a job    *)
(* awaits between two of its writes, so it takes two actions, CreateJob    *)
(* and FinishCreate.  The other handlers await after their last write.     *)
(*                                                                         *)
(* What a handler READS may be old, though.  The user of a request is      *)
(* authenticated in a thread (user_manager_service, plain functions that   *)
(* FastAPI runs in its thread pool), with the session the handler will     *)
(* use, and the database fixes what a transaction sees at its first read   *)
(* (InnoDB's REPEATABLE READ).  The handlers that run between the          *)
(* authentication and the handler are not seen by it.  Each handler        *)
(* therefore takes a view, the tables its request saw; it decides on the   *)
(* view and writes to the tables as they are.  An UPDATE writes what       *)
(* differs from the view; an update of a row that is gone writes nothing   *)
(* and ends the handler.                                                   *)
(*                                                                         *)
(* A handler commits each write by itself (app/crud/base.py), so one that  *)
(* dies half way leaves its first writes behind.  The disjuncts marked     *)
(* Interruptions are these prefixes; the ones without the mark are         *)
(* failures the code runs into by itself.                                  *)
(*                                                                         *)
(* Calls that are refused (4xx) change nothing and are not actions.        *)
(***************************************************************************)
EXTENDS Naturals, FiniteSets

CONSTANTS
    Campaigns,     \* campaign ids
    Jobs,          \* job ids: never used twice
    Contents,      \* what the row of a job can say
    None,          \* SQL's NULL, a missing row
    MaxRequests,   \* bound: rows the table job_approval_request ever holds
    MaxSnapshots,  \* bound: outdated views held at once; 0: no request overlaps another
    Interruptions  \* may a handler die between two of its commits?

ASSUME ConstantsAssumption ==
    /\ MaxRequests \in Nat
    /\ MaxSnapshots \in Nat
    /\ Interruptions \in BOOLEAN
    /\ None \notin Campaigns
    /\ None \notin Jobs
    /\ None \notin Contents

CampaignStatus == {"open", "stopped"}
JobStatus == {"pending", "published", "rejected", "stopped", "expired"}
JobApprovalStatus == {"pending", "approved", "rejected", "stopped"}
AdminJobApprovalStatus == {"approved", "rejected", "stopped"}

RequestIds == 1..MaxRequests
Request == [job : Jobs \cup {None}, status : JobApprovalStatus, data : Contents \cup {None}]

ASSUME NoneIsNoRequest == None \notin Request

VARIABLES
    campaign,    \* status of each campaign
    status,      \* status of each job
    campaignOf,  \* campaign each job belongs to
    content,     \* row of each job, without its status
    requests,    \* the table job_approval_request; ids give its created_at order
    nextId,      \* the table's next id
    creating,    \* content a suspended create handler of each job holds, or None
    seen         \* the views of requests that are authenticated and not yet handled

tables == <<campaign, status, campaignOf, content, requests, nextId, creating>>
vars == <<campaign, status, campaignOf, content, requests, nextId, creating, seen>>

CampaignTable == [Campaigns -> CampaignStatus \cup {"none", "deleted"}]
StatusColumn == [Jobs -> JobStatus \cup {"none", "deleted"}]
CampaignColumn == [Jobs -> Campaigns \cup {None}]
ContentColumn == [Jobs -> Contents \cup {None}]
RequestTable == [RequestIds -> Request \cup {None}]

View == [campaign : CampaignTable, status : StatusColumn, campaignOf : CampaignColumn,
         content : ContentColumn, requests : RequestTable]

\* What a transaction that starts now will see.
Now == [campaign |-> campaign, status |-> status, campaignOf |-> campaignOf,
        content |-> content, requests |-> requests]

TypeOK ==
    /\ Now \in View
    /\ nextId \in 1..(MaxRequests + 1)
    /\ \A r \in RequestIds : r >= nextId => requests[r] = None
    /\ creating \in [Jobs -> Contents \cup {None}]
    /\ seen \subseteq View

Init ==
    /\ campaign = [c \in Campaigns |-> "none"]
    /\ status = [j \in Jobs |-> "none"]
    /\ campaignOf = [j \in Jobs |-> None]
    /\ content = [j \in Jobs |-> None]
    /\ requests = [r \in RequestIds |-> None]
    /\ nextId = 1
    /\ creating = [j \in Jobs |-> None]
    /\ seen = {}

-----------------------------------------------------------------------------
(* The tables, and what a view shows of them. *)

Live(j) == status[j] \in JobStatus

\* Campaign.job and jobCRUD.get_by_campaign_id
JobsIn(v, c) == {j \in Jobs : v.status[j] \in JobStatus /\ v.campaignOf[j] = c}

RequestsIn(v, j) == {r \in RequestIds : v.requests[r] # None /\ v.requests[r].job = j}

JobsOf(c) == JobsIn(Now, c)
Requests(j) == RequestsIn(Now, j)

Pending(j) == {r \in Requests(j) : requests[r].status = "pending"}

\* The oldest request of j
First(j) == {r \in Requests(j) : \A other \in Requests(j) : r <= other}

\* remove_pending_by_job_id
BugKeepPending(j) == requests
WithoutPending(j) ==
    [r \in RequestIds |-> IF r \in Pending(j) THEN None ELSE requests[r]]

\* The database drops the requests of a deleted job with it (ON DELETE CASCADE).
BugKeepRequests(js) == requests
WithoutRequests(js) ==
    [r \in RequestIds |->
        IF \E j \in js : r \in Requests(j) THEN None ELSE requests[r]]

\* Bound: the handlers that are suspended must still find an id.
Room == nextId + Cardinality({j \in Jobs : creating[j] # None}) <= MaxRequests

\* A row is added to table, which is requests or what a deletion made of it.
BugInsertSameId(table, j, s, d) ==
    /\ nextId <= MaxRequests
    /\ requests' = [table EXCEPT ![nextId] = [job |-> j, status |-> s, data |-> d]]
    /\ UNCHANGED nextId
Insert(table, j, s, d) ==
    /\ nextId <= MaxRequests
    /\ requests' = [table EXCEPT ![nextId] = [job |-> j, status |-> s, data |-> d]]
    /\ nextId' = nextId + 1

\* job_helper.create_job_approval_request: the pending request makes way for a
\* new one, in two commits.  Neither statement goes by a view.
CreateRequest(j, d) ==
    \/ Insert(WithoutPending(j), j, "pending", d)
    \/ /\ Interruptions
       /\ requests' = WithoutPending(j)
       /\ UNCHANGED nextId

\* The updates of one column: nothing is written when the view has the value.
WriteCampaign(v, c, s) ==
    campaign' = IF v.campaign[c] = s THEN campaign ELSE [campaign EXCEPT ![c] = s]
WriteStatus(v, j, s) ==
    status' = IF v.status[j] = s THEN status ELSE [status EXCEPT ![j] = s]
WriteContent(v, j, d) ==
    content' = IF v.content[j] = d THEN content ELSE [content EXCEPT ![j] = d]
Decide(v, r, s) ==
    requests' = IF requests[r] = None \/ v.requests[r].status = s
                THEN requests
                ELSE [requests EXCEPT ![r].status = s]

\* A job is stopped, then, in a new transaction, the pending request the
\* database returns first.
StopJob(v, j) ==
    /\ WriteStatus(v, j, "stopped")
    /\ \/ Pending(j) = {} /\ UNCHANGED requests
       \/ \E r \in Pending(j) : Decide(Now, r, "stopped")
       \/ Interruptions /\ UNCHANGED requests

-----------------------------------------------------------------------------
(* Requests that wait for their handler. *)

\* A thread authenticates a user: the request has its view of the tables.
Authenticate ==
    /\ Cardinality(seen) < MaxSnapshots
    /\ seen' = seen \cup {Now}
    /\ UNCHANGED tables

\* The last request with the view v is answered.  A handler leaves its view, for
\* other requests may hold the same one.
Leave(v) ==
    /\ seen' = seen \ {v}
    /\ UNCHANGED tables

Views == seen \cup {Now}

-----------------------------------------------------------------------------
(* Handlers of the owner: campaigns. *)

CreateCampaign(c) ==
    /\ campaign[c] = "none"
    /\ campaign' = [campaign EXCEPT ![c] = "open"]
    /\ UNCHANGED <<status, campaignOf, content, requests, nextId, creating, seen>>

\* The general update may set the status too, and leaves the job alone.
UpdateCampaign(v, c, s) ==
    /\ v.campaign[c] \in CampaignStatus
    /\ campaign[c] \in CampaignStatus
    /\ WriteCampaign(v, c, s)
    /\ UNCHANGED <<status, campaignOf, content, requests, nextId, creating, seen>>

\* The status is committed first.  Then the answer is built, which raises when
\* the job has no request (campaign_helper.get_info), and the job of a campaign
\* that stops is stopped after that, as a new transaction finds it.
UpdateCampaignStatus(v, c, s) ==
    /\ v.campaign[c] \in CampaignStatus
    /\ campaign[c] \in CampaignStatus
    /\ WriteCampaign(v, c, s)
    /\ \/ /\ JobsOf(c) = {} \/ Interruptions
          /\ UNCHANGED <<status, requests>>
       \/ \E j \in JobsOf(c) :
            \/ /\ s = "open" \/ Requests(j) = {}
               /\ UNCHANGED <<status, requests>>
            \/ /\ s = "stopped" /\ Requests(j) # {}
               /\ StopJob(Now, j)
    /\ UNCHANGED <<campaignOf, content, nextId, creating, seen>>

\* Jobs are deleted; their requests are left to the handler.
Delete(js) ==
    /\ status' = [j \in Jobs |-> IF j \in js THEN "deleted" ELSE status[j]]
    /\ campaignOf' = [j \in Jobs |-> IF j \in js THEN None ELSE campaignOf[j]]
    /\ content' = [j \in Jobs |-> IF j \in js THEN None ELSE content[j]]
    /\ UNCHANGED <<nextId, creating, seen>>

\* The database deletes the jobs with their campaign, and the requests with the jobs.
DeleteCampaign(v, c) ==
    /\ v.campaign[c] \in CampaignStatus
    /\ campaign[c] \in CampaignStatus
    /\ campaign' = [campaign EXCEPT ![c] = "deleted"]
    /\ Delete(JobsOf(c))
    /\ requests' = WithoutRequests(JobsOf(c))

-----------------------------------------------------------------------------
(* Handlers of the owner: jobs. *)

\* A job needs an open campaign without a job; without a campaign id the handler
\* makes a campaign first.  The status argument of JobCreate is STOPPED, which
\* JobCreate does not declare: the row gets the column's default.  The handler
\* then awaits the cache, and holds the request's data.
BugCreateJobAnywhere(v, c, j, d) ==
    /\ Room
    /\ status[j] = "none"
    /\ campaign[c] \in {"none", "open"}
    /\ campaign' = [campaign EXCEPT ![c] = "open"]
    /\ status' = [status EXCEPT ![j] = "pending"]
    /\ campaignOf' = [campaignOf EXCEPT ![j] = c]
    /\ content' = [content EXCEPT ![j] = d]
    /\ creating' = [creating EXCEPT ![j] = d]
    /\ UNCHANGED <<requests, nextId, seen>>
CreateJob(v, c, j, d) ==
    /\ Room
    /\ status[j] = "none"
    /\ \/ /\ campaign[c] = "none"
          /\ campaign' = [campaign EXCEPT ![c] = "open"]
       \/ /\ v.campaign[c] = "open"
          /\ JobsIn(v, c) = {}
          /\ campaign[c] \in CampaignStatus
          /\ UNCHANGED campaign
    /\ status' = [status EXCEPT ![j] = "pending"]
    /\ campaignOf' = [campaignOf EXCEPT ![j] = c]
    /\ content' = [content EXCEPT ![j] = d]
    /\ creating' = [creating EXCEPT ![j] = d]
    /\ UNCHANGED <<requests, nextId, seen>>

\* The handler resumes and files the request for the content it was given.  The
\* foreign key refuses the row when the job was deleted in the meantime.
BugForgetRequest(j) ==
    /\ creating[j] # None
    /\ creating' = [creating EXCEPT ![j] = None]
    /\ UNCHANGED <<campaign, status, campaignOf, content, requests, nextId, seen>>
FinishCreate(j) ==
    /\ creating[j] # None
    /\ creating' = [creating EXCEPT ![j] = None]
    /\ \/ Live(j) /\ CreateRequest(j, creating[j])
       \/ ~Live(j) /\ UNCHANGED <<requests, nextId>>
    /\ UNCHANGED <<campaign, status, campaignOf, content, seen>>

\* The process dies, or building the answer raises, during the await.
AbandonCreate(j) ==
    /\ Interruptions
    /\ creating[j] # None
    /\ creating' = [creating EXCEPT ![j] = None]
    /\ UNCHANGED <<campaign, status, campaignOf, content, requests, nextId, seen>>

\* A job under review changes at once; of its oldest request only the time
\* stamp does.
UpdatePending(v, j, d) ==
    /\ v.status[j] = "pending"
    /\ Live(j)
    /\ WriteContent(v, j, d)
    /\ UNCHANGED <<campaign, status, campaignOf, requests, nextId, creating, seen>>

\* A rejected job goes back to review with a new request, unless the update
\* names a skill the job did not have: skill_helper.update_with_job_id raises
\* after the row is written.  The row's columns are assigned one by one and
\* assigning the status commits, so a handler that dies may leave the new text
\* in a job that is still rejected.
UpdateRejected(v, j, d, skillsKnown) ==
    /\ v.status[j] = "rejected"
    /\ Live(j)
    /\ WriteContent(v, j, d)
    /\ \/ /\ WriteStatus(v, j, "pending")
          /\ skillsKnown
          /\ Room
          /\ CreateRequest(j, d)
       \/ /\ WriteStatus(v, j, "pending")
          /\ ~skillsKnown
          /\ UNCHANGED <<requests, nextId>>
       \/ /\ Interruptions
          /\ UNCHANGED <<status, requests, nextId>>
    /\ UNCHANGED <<campaign, campaignOf, creating, seen>>

\* A stopped job changes without review.
UpdateStopped(v, j, d) ==
    /\ v.status[j] = "stopped"
    /\ Live(j)
    /\ WriteContent(v, j, d)
    /\ UNCHANGED <<campaign, status, campaignOf, requests, nextId, creating, seen>>

\* A job that is on the site only gets a request.
UpdatePublished(v, j, d) ==
    /\ v.status[j] \in {"published", "expired"}
    /\ Live(j)
    /\ Room
    /\ CreateRequest(j, d)
    /\ UNCHANGED <<campaign, status, campaignOf, content, creating, seen>>

\* The owner asks for publication: an approved request without data is added,
\* then the job goes to review, whatever its status was.
RequestPublication(v, j) ==
    /\ v.status[j] \in JobStatus
    /\ Live(j)
    /\ Room
    /\ Insert(requests, j, "approved", None)
    /\ \/ WriteStatus(v, j, "pending")
       \/ Interruptions /\ UNCHANGED status
    /\ UNCHANGED <<campaign, campaignOf, content, creating, seen>>

Stop(v, j) ==
    /\ v.status[j] \in JobStatus
    /\ Live(j)
    /\ StopJob(v, j)
    /\ UNCHANGED <<campaign, campaignOf, content, nextId, creating, seen>>

\* The session first clears the job id of the one request it takes for the job's
\* (Job.job_approval_request, uselist=False); if the row is still there, it
\* outlives the job.
DetachOne(v, j) ==
    \/ /\ RequestsIn(v, j) = {}
       /\ requests' = WithoutRequests({j})
    \/ \E r \in RequestsIn(v, j) :
        requests' = [WithoutRequests({j}) EXCEPT
            ![r] = IF requests[r] = None THEN None ELSE [requests[r] EXCEPT !.job = None]]

DeleteJob(v, j) ==
    /\ v.status[j] \in JobStatus
    /\ Live(j)
    /\ Delete({j})
    /\ DetachOne(v, j)
    /\ UNCHANGED campaign

-----------------------------------------------------------------------------
(* Handlers of the administrator. *)

\* Any request of a job under review will do, decided or not, and any decision
\* but APPROVED rejects the job.  The second write is a row of approval_log,
\* which refuses a reason of more than 100 characters: then the job has its new
\* status and the request is left as it was.
BugApproveAnyJob(v, r, s) ==
    /\ v.requests[r] # None
    /\ v.requests[r].job # None
    /\ LET j == v.requests[r].job IN
        /\ Live(j)
        /\ WriteStatus(v, j, IF s = "approved" THEN "published" ELSE "rejected")
    /\ Decide(v, r, s)
    /\ UNCHANGED <<campaign, campaignOf, content, nextId, creating, seen>>
Approve(v, r, s) ==
    /\ v.requests[r] # None
    /\ v.requests[r].job # None
    /\ LET j == v.requests[r].job IN
        /\ v.status[j] = "pending"
        /\ Live(j)
        /\ WriteStatus(v, j, IF s = "approved" THEN "published" ELSE "rejected")
    /\ Decide(v, r, s) \/ UNCHANGED requests
    /\ UNCHANGED <<campaign, campaignOf, content, nextId, creating, seen>>

\* approve_update with APPROVED is not an action: see UpdateAccepted below.
\* With REJECTED the job keeps its status.
RejectUpdate(v, r) ==
    /\ v.requests[r] # None
    /\ v.requests[r].status = "pending"
    /\ Decide(v, r, "rejected")
    /\ UNCHANGED <<campaign, status, campaignOf, content, nextId, creating, seen>>

\* approve_update with STOPPED: the administrator stops a published job through
\* one of its requests.  Another request of the job may stay pending.  Again a
\* long reason ends the handler after its first write.
StopByAdmin(v, r) ==
    /\ v.requests[r] # None
    /\ v.requests[r].job # None
    /\ v.requests[r].status # "stopped"
    /\ LET j == v.requests[r].job IN
        /\ v.status[j] = "published"
        /\ Live(j)
        /\ WriteStatus(v, j, "stopped")
    /\ \/ /\ v.requests[r].status = "pending"
          /\ Decide(v, r, "stopped")
       \/ UNCHANGED requests
    /\ UNCHANGED <<campaign, campaignOf, content, nextId, creating, seen>>

-----------------------------------------------------------------------------

OwnerNext(v) ==
    \/ \E c \in Campaigns :
        \/ \E s \in CampaignStatus : UpdateCampaign(v, c, s)
        \/ \E s \in CampaignStatus : UpdateCampaignStatus(v, c, s)
        \/ DeleteCampaign(v, c)
        \/ \E j \in Jobs, d \in Contents : CreateJob(v, c, j, d)
    \/ \E j \in Jobs :
        \/ \E d \in Contents : UpdatePending(v, j, d)
        \/ \E d \in Contents, skillsKnown \in BOOLEAN : UpdateRejected(v, j, d, skillsKnown)
        \/ \E d \in Contents : UpdateStopped(v, j, d)
        \/ \E d \in Contents : UpdatePublished(v, j, d)
        \/ RequestPublication(v, j)
        \/ Stop(v, j)
        \/ DeleteJob(v, j)

AdminNext(v) ==
    \E r \in RequestIds :
        \/ \E s \in AdminJobApprovalStatus : Approve(v, r, s)
        \/ RejectUpdate(v, r)
        \/ StopByAdmin(v, r)

Next ==
    \/ Authenticate
    \/ \E v \in seen : Leave(v)
    \/ \E c \in Campaigns : CreateCampaign(c)
    \/ \E j \in Jobs : FinishCreate(j)
    \/ \E j \in Jobs : AbandonCreate(j)
    \/ \E v \in Views : OwnerNext(v)
    \/ \E v \in Views : AdminNext(v)

Spec == Init /\ [][Next]_vars

\* The event loop resumes a suspended handler: Redis answers, or the call raises
\* and the handler swallows it.  Owners and administrators owe nothing.
FairSpec == Spec /\ \A j \in Jobs : WF_vars(FinishCreate(j))

-----------------------------------------------------------------------------
(* Correctness. *)

\* At most one request of a job waits for a decision, whichever handlers filed
\* requests for it, on whatever views and in which order:
\* job_approval_request.update_status_by_job_id stops just one, and an
\* administrator would decide on outdated data.
OnePendingRequest ==
    \A j \in Jobs : \A r, other \in Pending(j) : r = other

\* A job under review can be reviewed: there is a request an administrator can
\* approve.  Needs handlers that are not interrupted; the skills that make
\* UpdateRejected fail do not break it, the earlier requests are still there.
PendingReviewable ==
    \A j \in Jobs : status[j] = "pending" /\ creating[j] = None => Requests(j) # {}

\* A request that names a job names one that exists, also when the owner deletes
\* the job, or its campaign, while the handler that creates the job is suspended
\* or a view still shows the job.  Requests that name no job are what deletions
\* left.
NoDanglingRequest ==
    \A r \in RequestIds :
        requests[r] # None /\ requests[r].job # None => Live(requests[r].job)

\* A campaign never has two jobs, though nothing in the tables forbids it:
\* Campaign.job is declared with uselist=False and stopping a campaign reaches
\* one job only.  The handler that creates a job makes sure ("Campaign already
\* has job"), on its view: this holds only when requests do not overlap.
CampaignHasOneJob ==
    \A j, other \in Jobs :
        Live(j) /\ Live(other) /\ campaignOf[j] = campaignOf[other] => j = other

\* The text visitors find and the text under review, as JobReview sees them: only
\* an administrator puts a text on the site, it is the text that was under review
\* at that moment, and it stays as it is while it is on the site.  Holds when
\* requests do not overlap.
Public == [j \in Jobs |-> IF status[j] = "published" THEN content[j] ELSE None]
Submitted == [j \in Jobs |-> IF status[j] = "pending" THEN content[j] ELSE None]

Review == INSTANCE JobReview WITH public <- Public, submitted <- Submitted

ReviewSpec == Review!Spec

\* A suspended create handler files its request, or finds the job deleted: no
\* schedule of the other handlers keeps the job without a request for ever.
CreateFilesRequest ==
    \A j \in Jobs : creating[j] # None ~> Requests(j) # {} \/ status[j] = "deleted"

-----------------------------------------------------------------------------
(* What the repository says and the code does not do. *)

\* "Request update job success" (job_service.update): the update of a job that is
\* on the site is a request, and the text on the site stays as it is.
PublishedTextFixed ==
    [][\A j \in Jobs :
        status[j] = "published" /\ status'[j] = "published" => content'[j] = content[j]]_vars

\* The list visitors get (get_by_user): published jobs with an approved request.
Listed(j) ==
    /\ status[j] = "published"
    /\ \E r \in Requests(j) : requests[r].status = "approved"

\* The job visitors get by id (get_by_id_for_user): published, and its OLDEST
\* request is approved.
Shown(j) ==
    /\ status[j] = "published"
    /\ \A r \in First(j) : requests[r].status = "approved"

\* "Get job by id" answers 404 only when "The job is not found"
\* (app/api/api_v1/endpoint/user/job.py): a job of the list is found by its id.
ListedJobFound == \A j \in Jobs : Listed(j) => Shown(j)

\* JobUpdateRequest.email_contact, when it is given: a list becomes JSON text, and
\* anything else is refused.
ValidateEmailContact(given) == IF given = "list" THEN "text" ELSE "refused"

\* What create_job_approval_request stores of an update that is let through: its data
\* is validated, but an email_contact that is left out is not, and is stored as null.
ContactForms == {"list", "omitted"}
StoredContact(form) == IF form = "omitted" THEN "null" ELSE ValidateEmailContact(form)

\* approve_update with APPROVED validates what is stored again, null or not, before it
\* writes anything.
UpdateAccepted(form) == ValidateEmailContact(StoredContact(form)) # "refused"

\* "This endpoint allows approve update job." (app/api/api_v1/endpoint/admin/
\* admin_approval_request_job.py): when the owner of a job that is on the site sends an
\* update, there is a way to write it that an administrator can then approve.
UpdateCanBeApproved ==
    [][\A j \in Jobs, d \in Contents :
        UpdatePublished(Now, j, d) /\ requests' # requests
            => \E form \in ContactForms : UpdateAccepted(form)]_vars

==============================================================================
