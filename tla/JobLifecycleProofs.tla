------------------------- MODULE JobLifecycleProofs -------------------------
(***************************************************************************)
(* Proofs about JobLifecycle, for any number of campaigns, jobs, contents, *)
(* requests and outdated views, with and without interrupted handlers.     *)
(***************************************************************************)
EXTENDS JobLifecycle, FiniteSetTheorems, TLAPS

\* The table's part of TypeOK.
RowsOK ==
    /\ requests \in RequestTable
    /\ nextId \in 1..(MaxRequests + 1)
    /\ \A r \in RequestIds : r >= nextId => requests[r] = None

\* TypeOK, variable by variable.
Typed ==
    /\ campaign \in CampaignTable
    /\ status \in StatusColumn
    /\ campaignOf \in CampaignColumn
    /\ content \in ContentColumn
    /\ RowsOK
    /\ creating \in [Jobs -> Contents \cup {None}]
    /\ seen \subseteq View

LEMMA TypedIsTypeOK == Typed <=> TypeOK
  BY DEF Typed, RowsOK, TypeOK, Now, View

LEMMA ViewsTyped ==
    ASSUME Typed, NEW v \in Views
    PROVE  v \in View
  BY DEF Typed, RowsOK, Views, Now, View

\* The row a view shows is a request.
LEMMA ViewRow ==
    ASSUME Typed, NEW v \in Views, NEW r \in RequestIds, v.requests[r] # None
    PROVE  v.requests[r] \in Request
  BY ViewsTyped DEF View, RequestTable

-----------------------------------------------------------------------------
(* What the helpers do to the tables. *)

\* Removing rows leaves a table, with nothing new in it.
LEMMA RowsRemoved ==
    ASSUME Typed, NEW j, NEW js
    PROVE  /\ WithoutPending(j) \in RequestTable
           /\ WithoutRequests(js) \in RequestTable
           /\ \A r \in RequestIds : WithoutPending(j)[r] \in {requests[r], None}
           /\ \A r \in RequestIds : WithoutRequests(js)[r] \in {requests[r], None}
  BY DEF Typed, RowsOK, RequestTable, WithoutPending, WithoutRequests

\* A row is added at an id that was free.
LEMMA RowInserted ==
    ASSUME Typed,
           NEW table \in RequestTable,
           \A r \in RequestIds : table[r] \in {requests[r], None},
           NEW j \in Jobs, NEW s \in JobApprovalStatus,
           NEW d \in Contents \cup {None},
           Insert(table, j, s, d)
    PROVE  /\ RowsOK'
           /\ nextId \in RequestIds
           /\ requests[nextId] = None
           /\ nextId' = nextId + 1
           /\ requests'[nextId] = [job |-> j, status |-> s, data |-> d]
           /\ \A r \in RequestIds \ {nextId} : requests'[r] = table[r]
  <1>1. nextId \in RequestIds /\ nextId + 1 \in 1..(MaxRequests + 1)
    BY ConstantsAssumption DEF Typed, RowsOK, Insert, RequestIds
  <1>2. [job |-> j, status |-> s, data |-> d] \in Request
    BY DEF Request
  <1>3. requests' \in RequestTable
    BY <1>1, <1>2 DEF Insert, RequestTable
  <1>4. ASSUME NEW r \in RequestIds, r >= nextId + 1 PROVE requests'[r] = None
    BY <1>1, <1>4 DEF Insert, RequestTable, Typed, RowsOK, RequestIds
  <1>5. requests[nextId] = None
    BY <1>1 DEF Typed, RowsOK, RequestIds
  <1> QED
    BY <1>1, <1>3, <1>4, <1>5 DEF Insert, RowsOK, RequestTable

\* A decision changes the status of rows, and nothing else of them.
LEMMA RowDecided ==
    ASSUME Typed, NEW v, NEW r \in RequestIds,
           NEW s \in JobApprovalStatus, Decide(v, r, s), UNCHANGED nextId
    PROVE  /\ RowsOK'
           /\ \A other \in RequestIds :
                \/ requests'[other] = requests[other]
                \/ /\ requests[other] # None
                   /\ requests'[other] # None
                   /\ requests'[other].job = requests[other].job
                   /\ requests'[other].status = s
  <1>1. CASE requests' = requests
    BY <1>1 DEF Typed, RowsOK
  <1>2. CASE /\ requests[r] # None
             /\ requests' = [requests EXCEPT ![r] = [requests[r] EXCEPT !.status = s]]
    <2>1. requests[r] \in Request
      BY <1>2 DEF Typed, RowsOK, RequestTable
    <2>2. [requests[r] EXCEPT !.status = s] \in Request
      BY <2>1 DEF Request
    <2>3. RowsOK'
      BY <1>2, <2>2 DEF Typed, RowsOK, RequestTable, RequestIds
    <2>4. /\ requests'[r] = [requests[r] EXCEPT !.status = s]
          /\ \A other \in RequestIds \ {r} : requests'[other] = requests[other]
      BY <1>2 DEF Typed, RowsOK, RequestTable
    <2>5. /\ requests'[r] # None
          /\ requests'[r].job = requests[r].job
          /\ requests'[r].status = s
      BY <2>1, <2>2, <2>4, NoneIsNoRequest DEF Request
    <2> QED
      BY <1>2, <2>3, <2>4, <2>5
  <1> QED
    BY <1>1, <1>2 DEF Decide

\* A deleted job leaves at most one row, which names no job.
LEMMA RowDetached ==
    ASSUME Typed, NEW v, NEW j \in Jobs, DetachOne(v, j), UNCHANGED nextId
    PROVE  /\ RowsOK'
           /\ \A r \in RequestIds : requests'[r] # None =>
                /\ requests[r] # None
                /\ \/ requests'[r] = requests[r] /\ requests[r].job # j
                   \/ requests'[r].job = None
           /\ \A r \in RequestIds : requests[r] # None /\ requests[r].job # j =>
                \/ requests'[r] = requests[r]
                \/ v.requests[r] # None /\ v.requests[r].job = j
  <1>1. \A r \in RequestIds :
            WithoutRequests({j})[r] = IF r \in Requests(j) THEN None ELSE requests[r]
    BY DEF WithoutRequests
  <1>2. \A r \in RequestIds :
            r \in Requests(j) <=> requests[r] # None /\ requests[r].job = j
    BY DEF Requests, RequestsIn, Now
  <1>3. CASE requests' = WithoutRequests({j})
    <2>1. RowsOK'
      BY <1>1, <1>3, RowsRemoved DEF RowsOK, Typed
    <2> QED
      BY <1>1, <1>2, <1>3, <2>1
  <1>4. ASSUME NEW r \in RequestsIn(v, j),
               requests' = [WithoutRequests({j}) EXCEPT
                    ![r] = IF requests[r] = None THEN None ELSE [requests[r] EXCEPT !.job = None]]
        PROVE  /\ RowsOK'
               /\ requests[r] = None => requests'[r] = None
               /\ requests[r] # None => requests'[r] # None /\ requests'[r].job = None
               /\ r \in RequestIds /\ v.requests[r] # None /\ v.requests[r].job = j
               /\ \A other \in RequestIds \ {r} :
                     requests'[other] = IF other \in Requests(j) THEN None ELSE requests[other]
    <2>1. r \in RequestIds /\ v.requests[r] # None /\ v.requests[r].job = j
      BY <1>4 DEF RequestsIn
    <2>2. CASE requests[r] = None
      <3>1. requests' = [WithoutRequests({j}) EXCEPT ![r] = None]
        BY <1>4, <2>2
      <3>2. /\ requests' \in RequestTable
            /\ requests'[r] = None
            /\ \A other \in RequestIds \ {r} : requests'[other] = WithoutRequests({j})[other]
        BY <2>1, <3>1, RowsRemoved DEF RequestTable
      <3>3. RowsOK'
        BY <1>1, <3>2, RowsRemoved DEF RowsOK, Typed
      <3> QED
        BY <1>1, <2>1, <2>2, <3>2, <3>3
    <2>3. CASE requests[r] # None
      <3>1. requests[r] \in Request
        BY <2>1, <2>3 DEF Typed, RowsOK, RequestTable
      <3>2. [requests[r] EXCEPT !.job = None] \in Request
        BY <3>1 DEF Request
      <3>3. [requests[r] EXCEPT !.job = None].job = None
        BY <3>1 DEF Request
      <3>4. requests' = [WithoutRequests({j}) EXCEPT ![r] = [requests[r] EXCEPT !.job = None]]
        BY <1>4, <2>3
      <3>5. /\ requests' \in RequestTable
            /\ requests'[r] = [requests[r] EXCEPT !.job = None]
            /\ \A other \in RequestIds \ {r} : requests'[other] = WithoutRequests({j})[other]
        BY <2>1, <3>2, <3>4, RowsRemoved DEF RequestTable
      <3>6. r < nextId
        BY <2>1, <2>3 DEF Typed, RowsOK, RequestIds
      <3>7. ASSUME NEW other \in RequestIds, other >= nextId PROVE requests'[other] = None
        <4>1. other # r /\ requests[other] = None
          BY <3>6, <3>7 DEF Typed, RowsOK, RequestIds
        <4> QED
          BY <1>1, <3>5, <4>1
      <3>8. RowsOK'
        BY <3>5, <3>7 DEF RowsOK, Typed
      <3>9. requests'[r] # None /\ requests'[r].job = None
        <4>1. requests'[r] \in Request
          BY <3>2, <3>5, Zenon
        <4> QED
          BY <3>3, <3>5, <4>1, NoneIsNoRequest, Zenon
      <3> QED
        BY <1>1, <2>1, <2>3, <3>5, <3>8, <3>9
    <2> QED
      BY <2>2, <2>3
  <1>5. ASSUME NEW r \in RequestsIn(v, j),
               requests' = [WithoutRequests({j}) EXCEPT
                    ![r] = IF requests[r] = None THEN None ELSE [requests[r] EXCEPT !.job = None]]
        PROVE  /\ RowsOK'
               /\ \A other \in RequestIds : requests'[other] # None =>
                    /\ requests[other] # None
                    /\ \/ requests'[other] = requests[other] /\ requests[other].job # j
                       \/ requests'[other].job = None
               /\ \A other \in RequestIds : requests[other] # None /\ requests[other].job # j =>
                    \/ requests'[other] = requests[other]
                    \/ v.requests[other] # None /\ v.requests[other].job = j
    BY <1>2, <1>4, <1>5
  <1> QED
    BY <1>3, <1>5 DEF DetachOne

\* A status that is written for a job that exists is the job's alone, and the
\* job still exists.
LEMMA StatusWritten ==
    ASSUME Typed, NEW v, NEW j \in Jobs, Live(j), NEW s \in JobStatus, WriteStatus(v, j, s)
    PROVE  /\ status' \in StatusColumn
           /\ status'[j] \in {status[j], s}
           /\ \A other \in Jobs \ {j} : status'[other] = status[other]
           /\ \A other \in Jobs : Live(other)' <=> Live(other)
  BY DEF Typed, StatusColumn, WriteStatus, Live

LEMMA ContentWritten ==
    ASSUME Typed, NEW v, NEW j \in Jobs, NEW d \in Contents, WriteContent(v, j, d)
    PROVE  /\ content' \in ContentColumn
           /\ content'[j] \in {content[j], d}
           /\ \A other \in Jobs \ {j} : content'[other] = content[other]
  BY DEF Typed, ContentColumn, WriteContent

LEMMA CampaignWritten ==
    ASSUME Typed, NEW v, NEW c \in Campaigns, NEW s \in CampaignStatus, WriteCampaign(v, c, s)
    PROVE  campaign' \in CampaignTable
  BY DEF Typed, CampaignTable, WriteCampaign

\* Filing a request keeps the table in order.
LEMMA CreateRequestRows ==
    ASSUME Typed, NEW j \in Jobs, NEW d \in Contents, CreateRequest(j, d)
    PROVE  RowsOK'
  <1>1. CASE Insert(WithoutPending(j), j, "pending", d)
    BY <1>1, RowsRemoved, RowInserted DEF JobApprovalStatus
  <1>2. CASE requests' = WithoutPending(j) /\ UNCHANGED nextId
    BY <1>2, RowsRemoved DEF RowsOK, Typed
  <1> QED
    BY <1>1, <1>2 DEF CreateRequest

\* Stopping a job keeps it in order too.
LEMMA StopJobRows ==
    ASSUME Typed, NEW v, NEW j \in Jobs, StopJob(v, j), UNCHANGED nextId
    PROVE  RowsOK'
  <1>1. ASSUME UNCHANGED requests PROVE RowsOK'
    BY <1>1 DEF RowsOK, Typed
  <1>2. ASSUME NEW r \in Pending(j), Decide(Now, r, "stopped")
        PROVE  RowsOK'
    BY <1>2, RowDecided DEF Pending, Requests, RequestsIn, JobApprovalStatus
  <1> QED
    BY <1>1, <1>2 DEF StopJob

\* The job an administrator decides on is a job.
LEMMA JobDecided ==
    ASSUME Typed, NEW v \in Views, NEW r \in RequestIds,
           v.requests[r] # None, v.requests[r].job # None
    PROVE  v.requests[r].job \in Jobs
  BY ViewRow DEF Request

-----------------------------------------------------------------------------
(* Types. *)

\* Each handler keeps the types.
LEMMA TypeStep ==
    ASSUME Typed, [Next]_vars
    PROVE  Typed'
  <1> USE DEF CampaignTable, CampaignColumn
  <1>0. ASSUME UNCHANGED <<requests, nextId>> PROVE RowsOK'
    BY <1>0 DEF Typed, RowsOK
  <1>1. CASE Authenticate
    <2>1. Now \in View
      BY DEF Typed, RowsOK, Now, View
    <2> QED
      BY <1>0, <1>1, <2>1 DEF Authenticate, tables, Typed
  <1>2. ASSUME NEW v \in seen, Leave(v) PROVE Typed'
    BY <1>0, <1>2 DEF Leave, tables, Typed
  <1>3. ASSUME NEW c \in Campaigns, CreateCampaign(c) PROVE Typed'
    BY <1>0, <1>3 DEF CreateCampaign, CampaignStatus, Typed
  <1>4. ASSUME NEW j \in Jobs, FinishCreate(j) PROVE Typed'
    <2>1. creating[j] \in Contents
      BY <1>4 DEF FinishCreate, Typed
    <2>2. RowsOK'
      BY <1>0, <1>4, <2>1, CreateRequestRows DEF FinishCreate
    <2> QED
      BY <1>4, <2>2 DEF FinishCreate, Typed
  <1>5. ASSUME NEW j \in Jobs, AbandonCreate(j) PROVE Typed'
    BY <1>0, <1>5 DEF AbandonCreate, Typed
  <1>6. ASSUME NEW v \in Views, NEW c \in Campaigns, NEW s \in CampaignStatus,
               UpdateCampaign(v, c, s)
        PROVE  Typed'
    BY <1>0, <1>6, CampaignWritten DEF UpdateCampaign, Typed
  <1>7. ASSUME NEW v \in Views, NEW c \in Campaigns, NEW s \in CampaignStatus,
               UpdateCampaignStatus(v, c, s)
        PROVE  Typed'
    <2>1. campaign' \in CampaignTable
      BY <1>7, CampaignWritten DEF UpdateCampaignStatus
    <2>2. CASE UNCHANGED <<status, requests>>
      BY <1>0, <1>7, <2>1, <2>2 DEF UpdateCampaignStatus, Typed
    <2>3. ASSUME NEW j \in JobsOf(c), StopJob(Now, j) PROVE Typed'
      <3>1. j \in Jobs /\ Live(j)
        BY <2>3 DEF JobsOf, JobsIn, Now, Live
      <3>2. RowsOK' /\ status' \in StatusColumn
        BY <1>7, <2>3, <3>1, StopJobRows, StatusWritten
           DEF UpdateCampaignStatus, StopJob, JobStatus
      <3> QED
        BY <1>7, <2>1, <3>2 DEF UpdateCampaignStatus, Typed
    <2> QED
      BY <1>7, <2>2, <2>3 DEF UpdateCampaignStatus
  <1>8. ASSUME NEW js \in SUBSET Jobs, Delete(js), RowsOK', campaign' \in CampaignTable
        PROVE  Typed'
    BY <1>8 DEF Delete, Typed, StatusColumn, ContentColumn
  <1>9. ASSUME NEW v \in Views, NEW c \in Campaigns, DeleteCampaign(v, c) PROVE Typed'
    <2>1. JobsOf(c) \in SUBSET Jobs
      BY DEF JobsOf, JobsIn
    <2>2. RowsOK'
      BY <1>9, RowsRemoved DEF DeleteCampaign, Delete, Typed, RowsOK
    <2> QED
      BY <1>8, <1>9, <2>1, <2>2 DEF DeleteCampaign, Typed
  <1>10. ASSUME NEW v \in Views, NEW c \in Campaigns, NEW j \in Jobs, NEW d \in Contents,
                CreateJob(v, c, j, d)
         PROVE  Typed'
    BY <1>0, <1>10 DEF CreateJob, CampaignStatus, JobStatus, StatusColumn, ContentColumn, Typed
  <1>11. ASSUME NEW v \in Views, NEW j \in Jobs, NEW d \in Contents,
                UpdatePending(v, j, d) \/ UpdateStopped(v, j, d)
         PROVE  Typed'
    BY <1>0, <1>11, ContentWritten DEF UpdatePending, UpdateStopped, Typed
  <1>12. ASSUME NEW v \in Views, NEW j \in Jobs, NEW d \in Contents,
                NEW skillsKnown \in BOOLEAN, UpdateRejected(v, j, d, skillsKnown)
         PROVE  Typed'
    <2>1. RowsOK'
      BY <1>0, <1>12, CreateRequestRows DEF UpdateRejected
    <2>2. status' \in StatusColumn
      BY <1>12, StatusWritten DEF UpdateRejected, JobStatus, Typed
    <2>3. content' \in ContentColumn
      BY <1>12, ContentWritten DEF UpdateRejected
    <2> QED
      BY <1>12, <2>1, <2>2, <2>3 DEF UpdateRejected, Typed
  <1>13. ASSUME NEW v \in Views, NEW j \in Jobs, NEW d \in Contents, UpdatePublished(v, j, d)
         PROVE  Typed'
    BY <1>13, CreateRequestRows DEF UpdatePublished, Typed
  <1>14. ASSUME NEW v \in Views, NEW j \in Jobs, RequestPublication(v, j) PROVE Typed'
    <2>1. RowsOK'
      BY <1>14, RowInserted DEF RequestPublication, JobApprovalStatus, Typed, RowsOK
    <2>2. status' \in StatusColumn
      BY <1>14, StatusWritten DEF RequestPublication, JobStatus, Typed
    <2> QED
      BY <1>14, <2>1, <2>2 DEF RequestPublication, Typed
  <1>15. ASSUME NEW v \in Views, NEW j \in Jobs, Stop(v, j) PROVE Typed'
    <2>1. RowsOK' /\ status' \in StatusColumn
      BY <1>15, StopJobRows, StatusWritten DEF Stop, StopJob, JobStatus
    <2> QED
      BY <1>15, <2>1 DEF Stop, Typed
  <1>16. ASSUME NEW v \in Views, NEW j \in Jobs, DeleteJob(v, j) PROVE Typed'
    <2>1. RowsOK'
      BY <1>16, RowDetached DEF DeleteJob, Delete
    <2> QED
      BY <1>8, <1>16, <2>1 DEF DeleteJob, Typed
  <1>17. ASSUME NEW v \in Views, NEW r \in RequestIds, NEW s \in AdminJobApprovalStatus,
                Approve(v, r, s)
         PROVE  Typed'
    <2>1. RowsOK'
      BY <1>0, <1>17, RowDecided DEF Approve, AdminJobApprovalStatus, JobApprovalStatus
    <2>2. status' \in StatusColumn
      BY <1>17, JobDecided, StatusWritten DEF Approve, JobStatus
    <2> QED
      BY <1>17, <2>1, <2>2 DEF Approve, Typed
  <1>18. ASSUME NEW v \in Views, NEW r \in RequestIds, RejectUpdate(v, r) PROVE Typed'
    BY <1>18, RowDecided DEF RejectUpdate, JobApprovalStatus, Typed
  <1>19. ASSUME NEW v \in Views, NEW r \in RequestIds, StopByAdmin(v, r) PROVE Typed'
    <2>1. RowsOK'
      BY <1>0, <1>19, RowDecided DEF StopByAdmin, JobApprovalStatus
    <2>2. status' \in StatusColumn
      BY <1>19, JobDecided, StatusWritten DEF StopByAdmin, JobStatus
    <2> QED
      BY <1>19, <2>1, <2>2 DEF StopByAdmin, Typed
  <1>20. CASE UNCHANGED vars
    BY <1>0, <1>20 DEF vars, Typed
  <1> QED
    BY <1>1, <1>2, <1>3, <1>4, <1>5, <1>6, <1>7, <1>9, <1>10, <1>11, <1>12, <1>13, <1>14,
       <1>15, <1>16, <1>17, <1>18, <1>19, <1>20
       DEF Next, OwnerNext, AdminNext

\* Every variable keeps its type, whatever the views the handlers go by: in
\* particular no handler writes a row past the table's next id, or one whose job
\* is not a job.
THEOREM TypeCorrect == Spec => []TypeOK
  <1>1. Init => Typed
    BY ConstantsAssumption
       DEF Init, Typed, RowsOK, RequestIds, RequestTable, CampaignTable, StatusColumn,
           CampaignColumn, ContentColumn
  <1>2. Typed /\ [Next]_vars => Typed'
    BY TypeStep
  <1> QED
    BY <1>1, <1>2, TypedIsTypeOK, PTL DEF Spec

-----------------------------------------------------------------------------
(* Requests and the jobs they belong to. *)

\* Rows that name a job were there for the same job, or name a job in new at an
\* id that was never used.
RowsFrom(new) ==
    /\ nextId' >= nextId
    /\ \A r \in RequestIds : requests'[r] # None /\ requests'[r].job # None =>
        \/ requests[r] # None /\ requests'[r].job = requests[r].job
        \/ r >= nextId /\ requests'[r].job \in new

\* No request of a job becomes pending.
NoNewPending == \A j \in Jobs : Pending(j)' \subseteq Pending(j)

LEMMA PendingRows ==
    ASSUME NEW j, NEW r \in RequestIds
    PROVE  /\ r \in Requests(j) <=> requests[r] # None /\ requests[r].job = j
           /\ r \in Pending(j) <=>
                requests[r] # None /\ requests[r].job = j /\ requests[r].status = "pending"
           /\ r \in Requests(j)' <=> requests'[r] # None /\ requests'[r].job = j'
           /\ r \in Pending(j)' <=>
                requests'[r] # None /\ requests'[r].job = j' /\ requests'[r].status = "pending"
  BY DEF Pending, Requests, RequestsIn, Now

LEMMA RowsUntouched ==
    ASSUME Typed, UNCHANGED <<requests, nextId>>
    PROVE  NoNewPending /\ RowsFrom({})
  BY DEF NoNewPending, RowsFrom, Pending, Requests, RequestsIn, Now, Typed, RowsOK

LEMMA PendingStaysUnique ==
    ASSUME OnePendingRequest, NoNewPending
    PROVE  OnePendingRequest'
  BY DEF OnePendingRequest, NoNewPending

\* The new pending request of a job is its only one: that is what the first
\* commit of create_job_approval_request is for.
LEMMA CreateRequestEffect ==
    ASSUME Typed, OnePendingRequest, NEW j \in Jobs, NEW d \in Contents,
           CreateRequest(j, d)
    PROVE  OnePendingRequest' /\ RowsFrom({j})
  <1>1. ASSUME NEW r \in RequestIds, WithoutPending(j)[r] # None
        PROVE  /\ requests[r] # None
               /\ WithoutPending(j)[r] = requests[r]
               /\ requests[r].job = j => requests[r].status # "pending"
    BY <1>1 DEF WithoutPending, Pending, Requests, RequestsIn, Now
  <1>2. nextId \in Nat
    BY DEF Typed, RowsOK
  <1>3. CASE Insert(WithoutPending(j), j, "pending", d)
    <2>1. /\ nextId \in RequestIds
          /\ nextId' = nextId + 1
          /\ requests'[nextId] = [job |-> j, status |-> "pending", data |-> d]
          /\ \A r \in RequestIds \ {nextId} : requests'[r] = WithoutPending(j)[r]
      BY <1>3, RowsRemoved, RowInserted DEF JobApprovalStatus
    <2>2. RowsFrom({j})
      BY <1>1, <1>2, <2>1 DEF RowsFrom
    <2>3. \A r \in Pending(j)' : r = nextId
      BY <1>1, <2>1 DEF Pending, Requests, RequestsIn, Now
    <2>4. \A other \in Jobs \ {j} : Pending(other)' \subseteq Pending(other)
      BY <1>1, <2>1 DEF Pending, Requests, RequestsIn, Now
    <2>5. OnePendingRequest'
      BY <2>3, <2>4 DEF OnePendingRequest
    <2> QED
      BY <2>2, <2>5
  <1>4. CASE requests' = WithoutPending(j) /\ UNCHANGED nextId
    <2>1. RowsFrom({j})
      BY <1>1, <1>2, <1>4 DEF RowsFrom
    <2>2. NoNewPending
      BY <1>1, <1>4 DEF NoNewPending, Pending, Requests, RequestsIn, Now
    <2> QED
      BY <2>1, <2>2, PendingStaysUnique
  <1> QED
    BY <1>3, <1>4 DEF CreateRequest

\* A decision other than PENDING makes no request pending, whatever the view.
LEMMA DecideEffect ==
    ASSUME Typed, NEW v, NEW r \in RequestIds,
           NEW s \in JobApprovalStatus \ {"pending"}, Decide(v, r, s), UNCHANGED nextId
    PROVE  NoNewPending /\ RowsFrom({})
  <1>1. \A other \in RequestIds :
            \/ requests'[other] = requests[other]
            \/ /\ requests[other] # None
               /\ requests'[other].job = requests[other].job
               /\ requests'[other].status = s
    BY RowDecided
  <1> QED
    BY <1>1 DEF NoNewPending, RowsFrom, Pending, Requests, RequestsIn, Now, Typed, RowsOK

LEMMA StopJobEffect ==
    ASSUME Typed, NEW v, NEW j \in Jobs, StopJob(v, j), UNCHANGED nextId
    PROVE  NoNewPending /\ RowsFrom({})
  <1>1. ASSUME NEW r \in Pending(j), Decide(Now, r, "stopped")
        PROVE  NoNewPending /\ RowsFrom({})
    BY <1>1, DecideEffect DEF Pending, Requests, RequestsIn, JobApprovalStatus
  <1> QED
    BY <1>1, RowsUntouched DEF StopJob

\* What a view shows of a request stays true: rows lose their job or disappear,
\* but never pass to another job.
ViewsAgree ==
    \A v \in seen : \A r \in RequestIds : v.requests[r] # None =>
        /\ r < nextId
        /\ requests[r] # None => requests[r].job \in {v.requests[r].job, None}

LEMMA ViewsStillAgree ==
    ASSUME Typed, Typed', ViewsAgree, NEW new, RowsFrom(new), seen' \subseteq seen \cup {Now}
    PROVE  ViewsAgree'
  <1> SUFFICES ASSUME NEW v \in seen', NEW r \in RequestIds, v.requests[r] # None
               PROVE  /\ r < nextId'
                      /\ requests'[r] # None => requests'[r].job \in {v.requests[r].job, None}
    BY DEF ViewsAgree
  <1>1. /\ r < nextId
        /\ requests[r] # None => requests[r].job \in {v.requests[r].job, None}
    <2>1. CASE v \in seen
      BY <2>1 DEF ViewsAgree
    <2>2. CASE v = Now
      BY <2>2 DEF Now, Typed, RowsOK, RequestIds
    <2> QED
      BY <2>1, <2>2
  <1>2. nextId \in Nat /\ nextId' \in Nat /\ r \in Nat
    BY DEF Typed, RowsOK, RequestIds
  <1> QED
    BY <1>1, <1>2 DEF RowsFrom

\* Rows that name jobs in js are gone or name no job any more; the others stay.
Dropped(js) ==
    /\ \A r \in RequestIds : requests'[r] # None /\ requests'[r].job # None =>
        requests'[r] = requests[r] /\ requests[r].job \notin js
    /\ \A r \in RequestIds :
        requests[r] # None /\ requests[r].job # None /\ requests[r].job \notin js =>
            requests'[r] = requests[r]

LEMMA CascadeDrops ==
    ASSUME Typed, NEW js \in SUBSET Jobs, requests' = WithoutRequests(js)
    PROVE  Dropped(js)
  BY DEF WithoutRequests, Requests, RequestsIn, Now, Dropped

\* Because views agree with the table, detaching a request a view shows takes no
\* other job's request away.
LEMMA DetachDrops ==
    ASSUME Typed, ViewsAgree, NEW v \in Views, NEW j \in Jobs, DetachOne(v, j),
           UNCHANGED nextId
    PROVE  Dropped({j})
  <1>1. /\ \A r \in RequestIds : requests'[r] # None =>
                \/ requests'[r] = requests[r] /\ requests[r].job # j
                \/ requests'[r].job = None
        /\ \A r \in RequestIds : requests[r] # None /\ requests[r].job # j =>
                \/ requests'[r] = requests[r]
                \/ v.requests[r] # None /\ v.requests[r].job = j
    BY RowDetached
  <1>2. \A r \in RequestIds :
            requests[r] # None /\ v.requests[r] # None /\ v.requests[r].job = j =>
                requests[r].job \in {j, None}
    BY DEF ViewsAgree, Views, Now
  <1> QED
    BY <1>1, <1>2 DEF Dropped

\* What deleting jobs does to the rows and to the other jobs.
LEMMA DeleteEffect ==
    ASSUME Typed, NEW js \in SUBSET Jobs, Delete(js), Dropped(js)
    PROVE  /\ NoNewPending
           /\ RowsFrom({})
           /\ \A j \in Jobs : Live(j)' <=> Live(j) /\ j \notin js
           /\ \A j \in Jobs \ js : campaignOf'[j] = campaignOf[j] /\ content'[j] = content[j]
  <1>1. NoNewPending
    BY ConstantsAssumption DEF Dropped, NoNewPending, Pending, Requests, RequestsIn, Now
  <1>2. RowsFrom({})
    BY DEF Dropped, RowsFrom, Delete, Typed, RowsOK
  <1> QED
    BY <1>1, <1>2 DEF Delete, Live, JobStatus

-----------------------------------------------------------------------------
(* The safety invariants. *)

\* A job that exists has a text: what the refinement of JobReview needs to know
\* that a submitted job is never the missing text.
LiveHasContent == \A j \in Jobs : Live(j) => content[j] \in Contents

\* Together the invariants are inductive, whatever the views.
Inv ==
    /\ Typed
    /\ OnePendingRequest
    /\ NoDanglingRequest
    /\ LiveHasContent
    /\ ViewsAgree

\* Rows come from rows or from live jobs, and live jobs stay: no row names a job
\* that is gone.
LEMMA DanglingStayAway ==
    ASSUME NoDanglingRequest, Typed', NEW new \in SUBSET Jobs, RowsFrom(new),
           \A j \in new : Live(j)',
           \A j \in Jobs : Live(j) => Live(j)'
    PROVE  NoDanglingRequest'
  <1>1. \A r \in RequestIds : requests'[r] # None => requests'[r].job \in Jobs \cup {None}
    BY DEF Typed, RowsOK, RequestTable, Request
  <1> QED
    BY <1>1 DEF NoDanglingRequest, RowsFrom

\* An action that touches no set of live jobs, and adds no pending request.
LEMMA QuietStep ==
    ASSUME Inv, Typed', NoNewPending, RowsFrom({}), seen' \subseteq seen \cup {Now},
           \A j \in Jobs : Live(j)' <=> Live(j),
           \A j \in Jobs : content'[j] = content[j] \/ content'[j] \in Contents
    PROVE  Inv'
  <1>1. OnePendingRequest'
    BY PendingStaysUnique DEF Inv
  <1>2. NoDanglingRequest'
    BY DanglingStayAway DEF Inv
  <1>3. LiveHasContent'
    BY DEF Inv, LiveHasContent
  <1>4. ViewsAgree'
    BY ViewsStillAgree DEF Inv
  <1> QED
    BY <1>1, <1>2, <1>3, <1>4 DEF Inv

\* An action that files a request for a live job.
LEMMA FilingStep ==
    ASSUME Inv, Typed', NEW j \in Jobs, NEW d \in Contents, CreateRequest(j, d),
           Live(j), UNCHANGED seen,
           \A other \in Jobs : Live(other)' <=> Live(other),
           \A other \in Jobs :
              content'[other] = content[other] \/ content'[other] \in Contents
    PROVE  Inv'
  <1>1. OnePendingRequest' /\ RowsFrom({j})
    BY CreateRequestEffect DEF Inv
  <1>2. NoDanglingRequest'
    BY <1>1, DanglingStayAway DEF Inv
  <1>3. LiveHasContent'
    BY DEF Inv, LiveHasContent
  <1>4. ViewsAgree'
    BY <1>1, ViewsStillAgree DEF Inv
  <1> QED
    BY <1>1, <1>2, <1>3, <1>4 DEF Inv

\* An action that deletes jobs.
LEMMA DeletingStep ==
    ASSUME Inv, Typed', NEW js \in SUBSET Jobs, Delete(js), Dropped(js)
    PROVE  Inv'
  <1>1. NoNewPending /\ RowsFrom({})
    BY DeleteEffect DEF Inv
  <1>2. /\ \A j \in Jobs : Live(j)' <=> Live(j) /\ j \notin js
        /\ \A j \in Jobs \ js : campaignOf'[j] = campaignOf[j] /\ content'[j] = content[j]
    BY DeleteEffect DEF Inv
  <1>3. OnePendingRequest'
    BY <1>1, PendingStaysUnique DEF Inv
  <1>4. NoDanglingRequest'
    <2>1. \A r \in RequestIds : requests'[r] # None /\ requests'[r].job # None =>
              /\ requests'[r] = requests[r]
              /\ requests'[r].job \in Jobs
              /\ requests'[r].job \notin js
      BY DEF Inv, Typed, RowsOK, RequestTable, Request, Dropped
    <2> QED
      BY <1>2, <2>1 DEF Inv, NoDanglingRequest
  <1>5. LiveHasContent'
    BY <1>2 DEF Inv, LiveHasContent
  <1>6. ViewsAgree'
    BY <1>1, ViewsStillAgree DEF Inv, Delete
  <1> QED
    BY <1>3, <1>4, <1>5, <1>6 DEF Inv

\* Each handler keeps the invariants.
LEMMA InvStep ==
    ASSUME Inv, [Next]_vars
    PROVE  Inv'
  <1>0. Typed /\ Typed'
    BY TypeStep DEF Inv
  <1>1. CASE Authenticate \/ \E v \in seen : Leave(v)
    BY <1>0, <1>1, RowsUntouched, QuietStep DEF Authenticate, Leave, tables, Live
  <1>2. ASSUME NEW c \in Campaigns, CreateCampaign(c) PROVE Inv'
    BY <1>0, <1>2, RowsUntouched, QuietStep DEF CreateCampaign, Live
  <1>3. ASSUME NEW j \in Jobs, FinishCreate(j) PROVE Inv'
    <2>1. creating[j] \in Contents
      BY <1>0, <1>3 DEF FinishCreate, Typed
    <2>2. CASE Live(j) /\ CreateRequest(j, creating[j])
      BY <1>0, <1>3, <2>1, <2>2, FilingStep DEF FinishCreate, Live
    <2>3. CASE UNCHANGED <<requests, nextId>>
      BY <1>0, <1>3, <2>3, RowsUntouched, QuietStep DEF FinishCreate, Live
    <2> QED
      BY <1>3, <2>2, <2>3 DEF FinishCreate
  <1>4. ASSUME NEW j \in Jobs, AbandonCreate(j) PROVE Inv'
    BY <1>0, <1>4, RowsUntouched, QuietStep DEF AbandonCreate, Live
  <1>5. ASSUME NEW v \in Views, NEW c \in Campaigns, NEW s \in CampaignStatus,
               UpdateCampaign(v, c, s)
        PROVE  Inv'
    BY <1>0, <1>5, RowsUntouched, QuietStep DEF UpdateCampaign, Live
  <1>6. ASSUME NEW v \in Views, NEW c \in Campaigns, NEW s \in CampaignStatus,
               UpdateCampaignStatus(v, c, s)
        PROVE  Inv'
    <2>1. CASE UNCHANGED <<status, requests>>
      BY <1>0, <1>6, <2>1, RowsUntouched, QuietStep DEF UpdateCampaignStatus, Live
    <2>2. ASSUME NEW j \in JobsOf(c), StopJob(Now, j) PROVE Inv'
      <3>1. j \in Jobs /\ Live(j) /\ UNCHANGED <<content, nextId, seen>>
        BY <1>6, <2>2 DEF UpdateCampaignStatus, JobsOf, JobsIn, Now, Live
      <3>2. NoNewPending /\ RowsFrom({})
        BY <1>0, <2>2, <3>1, StopJobEffect
      <3>3. \A other \in Jobs : Live(other)' <=> Live(other)
        BY <1>0, <2>2, <3>1, StatusWritten DEF StopJob, JobStatus
      <3> QED
        BY <1>0, <3>1, <3>2, <3>3, QuietStep
    <2> QED
      BY <1>6, <2>1, <2>2 DEF UpdateCampaignStatus
  <1>7. ASSUME NEW v \in Views, NEW c \in Campaigns, DeleteCampaign(v, c) PROVE Inv'
    <2>1. JobsOf(c) \in SUBSET Jobs
      BY DEF JobsOf, JobsIn
    <2> QED
      BY <1>0, <1>7, <2>1, CascadeDrops, DeletingStep DEF DeleteCampaign
  <1>8. ASSUME NEW v \in Views, NEW c \in Campaigns, NEW j \in Jobs, NEW d \in Contents,
               CreateJob(v, c, j, d)
        PROVE  Inv'
    <2>1. /\ Live(j)'
          /\ content'[j] = d
          /\ \A other \in Jobs \ {j} :
                (Live(other)' <=> Live(other)) /\ content'[other] = content[other]
      BY <1>0, <1>8 DEF CreateJob, Live, JobStatus, Typed, StatusColumn, ContentColumn
    <2>2. NoNewPending /\ RowsFrom({})
      BY <1>0, <1>8, RowsUntouched DEF CreateJob
    <2>3. OnePendingRequest'
      BY <2>2, PendingStaysUnique DEF Inv
    <2>4. NoDanglingRequest'
      BY <1>0, <2>1, <2>2, DanglingStayAway DEF Inv
    <2>5. LiveHasContent'
      BY <2>1 DEF Inv, LiveHasContent
    <2>6. ViewsAgree'
      BY <1>0, <1>8, <2>2, ViewsStillAgree DEF CreateJob, Inv
    <2> QED
      BY <1>0, <2>3, <2>4, <2>5, <2>6 DEF Inv
  <1>9. ASSUME NEW v \in Views, NEW j \in Jobs, NEW d \in Contents,
               UpdatePending(v, j, d) \/ UpdateStopped(v, j, d)
        PROVE  Inv'
    <2>1. \A other \in Jobs : content'[other] = content[other] \/ content'[other] \in Contents
      BY <1>0, <1>9, ContentWritten DEF UpdatePending, UpdateStopped
    <2> QED
      BY <1>0, <1>9, <2>1, RowsUntouched, QuietStep DEF UpdatePending, UpdateStopped, Live
  <1>10. ASSUME NEW v \in Views, NEW j \in Jobs, NEW d \in Contents,
                NEW skillsKnown \in BOOLEAN, UpdateRejected(v, j, d, skillsKnown)
         PROVE  Inv'
    <2>1. \A other \in Jobs : content'[other] = content[other] \/ content'[other] \in Contents
      BY <1>0, <1>10, ContentWritten DEF UpdateRejected
    <2>2. Live(j) /\ \A other \in Jobs : Live(other)' <=> Live(other)
      <3>1. CASE WriteStatus(v, j, "pending")
        BY <1>0, <1>10, <3>1, StatusWritten DEF UpdateRejected, JobStatus
      <3>2. CASE UNCHANGED status
        BY <1>10, <3>2 DEF UpdateRejected, Live
      <3> QED
        BY <1>10, <3>1, <3>2 DEF UpdateRejected
    <2>3. CASE CreateRequest(j, d)
      BY <1>0, <1>10, <2>1, <2>2, <2>3, FilingStep DEF UpdateRejected
    <2>4. CASE UNCHANGED <<requests, nextId>>
      BY <1>0, <1>10, <2>1, <2>2, <2>4, RowsUntouched, QuietStep DEF UpdateRejected
    <2> QED
      BY <1>10, <2>3, <2>4 DEF UpdateRejected
  <1>11. ASSUME NEW v \in Views, NEW j \in Jobs, NEW d \in Contents, UpdatePublished(v, j, d)
         PROVE  Inv'
    BY <1>0, <1>11, FilingStep DEF UpdatePublished, Live
  <1>12. ASSUME NEW v \in Views, NEW j \in Jobs, RequestPublication(v, j) PROVE Inv'
    <2>1. /\ nextId \in Nat
          /\ nextId' = nextId + 1
          /\ requests'[nextId] = [job |-> j, status |-> "approved", data |-> None]
          /\ \A r \in RequestIds \ {nextId} : requests'[r] = requests[r]
      <3>1. nextId \in Nat
        BY <1>0 DEF Typed, RowsOK
      <3> QED
        BY <1>0, <1>12, <3>1, RowInserted
           DEF RequestPublication, JobApprovalStatus, Typed, RowsOK
    <2>2. NoNewPending /\ RowsFrom({j})
      BY <2>1 DEF NoNewPending, RowsFrom, Pending, Requests, RequestsIn, Now
    <2>3. Live(j) /\ UNCHANGED <<content, seen>> /\ \A other \in Jobs : Live(other)' <=> Live(other)
      <3>1. CASE WriteStatus(v, j, "pending")
        BY <1>0, <1>12, <3>1, StatusWritten DEF RequestPublication, JobStatus
      <3>2. CASE UNCHANGED status
        BY <1>12, <3>2 DEF RequestPublication, Live
      <3> QED
        BY <1>12, <3>1, <3>2 DEF RequestPublication
    <2>4. OnePendingRequest'
      BY <2>2, PendingStaysUnique DEF Inv
    <2>5. NoDanglingRequest'
      BY <1>0, <2>2, <2>3, DanglingStayAway DEF Inv
    <2>6. LiveHasContent'
      BY <2>3 DEF Inv, LiveHasContent
    <2>7. ViewsAgree'
      BY <1>0, <2>2, <2>3, ViewsStillAgree DEF Inv
    <2> QED
      BY <1>0, <2>4, <2>5, <2>6, <2>7 DEF Inv
  <1>13. ASSUME NEW v \in Views, NEW j \in Jobs, Stop(v, j) PROVE Inv'
    <2>1. NoNewPending /\ RowsFrom({})
      BY <1>0, <1>13, StopJobEffect DEF Stop
    <2>2. \A other \in Jobs : Live(other)' <=> Live(other)
      BY <1>0, <1>13, StatusWritten DEF Stop, StopJob, JobStatus
    <2> QED
      BY <1>0, <1>13, <2>1, <2>2, QuietStep DEF Stop
  <1>14. ASSUME NEW v \in Views, NEW j \in Jobs, DeleteJob(v, j) PROVE Inv'
    <2>1. Delete({j}) /\ Dropped({j})
      BY <1>0, <1>14, DetachDrops DEF DeleteJob, Delete, Inv
    <2> QED
      BY <1>0, <2>1, DeletingStep
  <1>15. ASSUME NEW v \in Views, NEW r \in RequestIds, NEW s \in AdminJobApprovalStatus,
                Approve(v, r, s)
         PROVE  Inv'
    <2>1. NoNewPending /\ RowsFrom({})
      BY <1>0, <1>15, DecideEffect, RowsUntouched
         DEF Approve, AdminJobApprovalStatus, JobApprovalStatus
    <2>2. \A other \in Jobs : Live(other)' <=> Live(other)
      BY <1>0, <1>15, JobDecided, StatusWritten DEF Approve, JobStatus
    <2> QED
      BY <1>0, <1>15, <2>1, <2>2, QuietStep DEF Approve
  <1>16. ASSUME NEW v \in Views, NEW r \in RequestIds, RejectUpdate(v, r) PROVE Inv'
    BY <1>0, <1>16, DecideEffect, QuietStep DEF RejectUpdate, JobApprovalStatus, Live
  <1>17. ASSUME NEW v \in Views, NEW r \in RequestIds, StopByAdmin(v, r) PROVE Inv'
    <2>1. NoNewPending /\ RowsFrom({})
      BY <1>0, <1>17, DecideEffect, RowsUntouched DEF StopByAdmin, JobApprovalStatus
    <2>2. \A other \in Jobs : Live(other)' <=> Live(other)
      BY <1>0, <1>17, JobDecided, StatusWritten DEF StopByAdmin, JobStatus
    <2> QED
      BY <1>0, <1>17, <2>1, <2>2, QuietStep DEF StopByAdmin
  <1>18. CASE UNCHANGED vars
    BY <1>0, <1>18, RowsUntouched, QuietStep DEF vars, Live
  <1> QED
    BY <1>1, <1>2, <1>3, <1>4, <1>5, <1>6, <1>7, <1>8, <1>9, <1>10, <1>11, <1>12, <1>13,
       <1>14, <1>15, <1>16, <1>17, <1>18
       DEF Next, OwnerNext, AdminNext

\* The invariants hold in every state the service reaches.
THEOREM Invariance == Spec => []Inv
  <1>1. Init => Inv
    <2>1. Init => Typed
      BY ConstantsAssumption
         DEF Init, Typed, RowsOK, RequestIds, RequestTable, CampaignTable, StatusColumn,
             CampaignColumn, ContentColumn
    <2> QED
      BY <2>1 DEF Init, Inv, OnePendingRequest, NoDanglingRequest, LiveHasContent,
                  ViewsAgree, Live, JobStatus, Pending, Requests, RequestsIn, Now
  <1>2. Inv /\ [Next]_vars => Inv'
    BY InvStep
  <1> QED
    BY <1>1, <1>2, PTL DEF Spec

\* However many requests a job collects, through updates, rejections, stops and
\* handlers that died between two commits or went by outdated views, at most one
\* of them is pending.
THEOREM OnePending == Spec => []OnePendingRequest
  <1>1. Inv => OnePendingRequest
    BY DEF Inv
  <1> QED
    BY <1>1, Invariance, PTL

\* A request that outlives its job no longer names it, and no request is filed
\* for a job that is gone, even by a handler that still sees the job.
THEOREM NoDangling == Spec => []NoDanglingRequest
  <1>1. Inv => NoDanglingRequest
    BY DEF Inv
  <1> QED
    BY <1>1, Invariance, PTL

-----------------------------------------------------------------------------
(* Jobs can be reviewed, when no handler is interrupted. *)

\* Stronger than PendingReviewable, and inductive: a job in any status has a
\* request once its create handler is done.  A rejected job must have one, or it
\* would have none when an update sends it back to review and then fails.
LiveHasRequest == \A j \in Jobs : Live(j) /\ creating[j] = None => Requests(j) # {}

\* Every row that names a job outside gone is still there, for the same job.
RowsKept(gone) ==
    \A r \in RequestIds : requests[r] # None /\ requests[r].job \in Jobs \ gone =>
        requests'[r] # None /\ requests'[r].job = requests[r].job

LEMMA RowsKeptRequests ==
    ASSUME NEW gone, RowsKept(gone), NEW j \in Jobs, j \notin gone, Requests(j) # {}
    PROVE  (Requests(j) # {})'
  BY DEF RowsKept, Requests, RequestsIn, Now

\* Jobs keep their requests when rows are kept and no job becomes live or idle.
LEMMA RequestsKeptStep ==
    ASSUME LiveHasRequest, NEW gone, RowsKept(gone),
           \A j \in Jobs : Live(j)' /\ creating'[j] = None =>
              \/ j \notin gone /\ Live(j) /\ creating[j] = None
              \/ (Requests(j) # {})'
    PROVE  LiveHasRequest'
  BY RowsKeptRequests DEF LiveHasRequest

LEMMA CreateRequestKeeps ==
    ASSUME Typed, Interruptions = FALSE, NEW j \in Jobs, NEW d \in Contents,
           CreateRequest(j, d)
    PROVE  RowsKept({j}) /\ (Requests(j) # {})'
  <1>1. Insert(WithoutPending(j), j, "pending", d)
    BY DEF CreateRequest
  <1>2. /\ nextId \in RequestIds
        /\ requests[nextId] = None
        /\ requests'[nextId] = [job |-> j, status |-> "pending", data |-> d]
        /\ \A r \in RequestIds \ {nextId} : requests'[r] = WithoutPending(j)[r]
    BY <1>1, RowsRemoved, RowInserted DEF JobApprovalStatus
  <1>3. requests'[nextId] # None
    BY <1>2, NoneIsNoRequest DEF Request, JobApprovalStatus
  <1>4. RowsKept({j})
    BY <1>2 DEF RowsKept, WithoutPending, Pending, Requests, RequestsIn, Now
  <1>5. (Requests(j) # {})'
    BY <1>2, <1>3 DEF Requests, RequestsIn, Now
  <1> QED
    BY <1>4, <1>5

LEMMA DecideKeeps ==
    ASSUME Typed, NEW v, NEW r \in RequestIds,
           NEW s \in JobApprovalStatus, Decide(v, r, s), UNCHANGED nextId
    PROVE  RowsKept({})
  BY RowDecided DEF RowsKept

LEMMA StopJobKeeps ==
    ASSUME Typed, NEW v, NEW j \in Jobs, StopJob(v, j), UNCHANGED nextId
    PROVE  RowsKept({})
  <1>1. ASSUME NEW r \in Pending(j), Decide(Now, r, "stopped") PROVE RowsKept({})
    BY <1>1, DecideKeeps DEF Pending, Requests, RequestsIn, JobApprovalStatus
  <1> QED
    BY <1>1 DEF StopJob, RowsKept

LEMMA DeleteKeeps ==
    ASSUME Typed, NEW js \in SUBSET Jobs, Delete(js), Dropped(js)
    PROVE  /\ RowsKept(js)
           /\ \A j \in Jobs : Live(j)' => Live(j) /\ j \notin js
  <1>1. RowsKept(js)
    BY ConstantsAssumption DEF Dropped, RowsKept
  <1> QED
    BY <1>1, DeleteEffect

\* Each handler keeps it, if it runs to its end.
LEMMA LiveHasRequestStep ==
    ASSUME Inv, LiveHasRequest, Interruptions = FALSE, [Next]_vars
    PROVE  LiveHasRequest'
  <1>0. Typed
    BY DEF Inv
  <1>1. ASSUME UNCHANGED requests PROVE RowsKept({})
    BY <1>1 DEF RowsKept
  <1>2. CASE \/ Authenticate
             \/ \E v \in seen : Leave(v)
             \/ \E c \in Campaigns : CreateCampaign(c)
    BY <1>1, <1>2, RequestsKeptStep DEF Authenticate, Leave, tables, CreateCampaign, Live
  <1>3. ASSUME NEW j \in Jobs, FinishCreate(j) PROVE LiveHasRequest'
    <2>1. creating[j] \in Contents
      BY <1>0, <1>3 DEF FinishCreate, Typed
    <2>2. \A other \in Jobs \ {j} : creating'[other] = creating[other]
      BY <1>0, <1>3 DEF FinishCreate, Typed
    <2>3. CASE Live(j) /\ CreateRequest(j, creating[j])
      BY <1>0, <1>3, <2>1, <2>2, <2>3, CreateRequestKeeps, RequestsKeptStep
         DEF FinishCreate, Live
    <2>4. CASE ~Live(j) /\ UNCHANGED requests
      BY <1>1, <1>3, <2>2, <2>4, RequestsKeptStep DEF FinishCreate, Live
    <2> QED
      BY <1>3, <2>3, <2>4 DEF FinishCreate
  <1>4. ASSUME NEW j \in Jobs, AbandonCreate(j) PROVE LiveHasRequest'
    BY <1>4 DEF AbandonCreate
  <1>5. ASSUME NEW v \in Views, NEW c \in Campaigns, NEW s \in CampaignStatus,
               UpdateCampaign(v, c, s)
        PROVE  LiveHasRequest'
    BY <1>1, <1>5, RequestsKeptStep DEF UpdateCampaign, Live
  <1>6. ASSUME NEW v \in Views, NEW c \in Campaigns, NEW s \in CampaignStatus,
               UpdateCampaignStatus(v, c, s)
        PROVE  LiveHasRequest'
    <2>1. CASE UNCHANGED <<status, requests>>
      BY <1>1, <1>6, <2>1, RequestsKeptStep DEF UpdateCampaignStatus, Live
    <2>2. ASSUME NEW j \in JobsOf(c), StopJob(Now, j) PROVE LiveHasRequest'
      <3>1. j \in Jobs /\ Live(j) /\ UNCHANGED <<nextId, creating>>
        BY <1>6, <2>2 DEF UpdateCampaignStatus, JobsOf, JobsIn, Now, Live
      <3>2. \A other \in Jobs : Live(other)' <=> Live(other)
        BY <1>0, <2>2, <3>1, StatusWritten DEF StopJob, JobStatus
      <3> QED
        BY <1>0, <2>2, <3>1, <3>2, StopJobKeeps, RequestsKeptStep
    <2> QED
      BY <1>6, <2>1, <2>2 DEF UpdateCampaignStatus
  <1>7. ASSUME NEW v \in Views, NEW c \in Campaigns, DeleteCampaign(v, c)
        PROVE  LiveHasRequest'
    <2>1. /\ Delete(JobsOf(c)) /\ Dropped(JobsOf(c))
          /\ JobsOf(c) \in SUBSET Jobs /\ UNCHANGED creating
      BY <1>0, <1>7, CascadeDrops DEF DeleteCampaign, Delete, JobsOf, JobsIn
    <2> QED
      BY <1>0, <2>1, DeleteKeeps, RequestsKeptStep
  <1>8. ASSUME NEW v \in Views, NEW c \in Campaigns, NEW j \in Jobs, NEW d \in Contents,
               CreateJob(v, c, j, d)
        PROVE  LiveHasRequest'
    <2>1. \A other \in Jobs : Live(other)' /\ creating'[other] = None =>
              Live(other) /\ creating[other] = None
      BY <1>0, <1>8, ConstantsAssumption DEF CreateJob, Live, Typed, StatusColumn
    <2> QED
      BY <1>1, <1>8, <2>1, RequestsKeptStep DEF CreateJob
  <1>9. ASSUME NEW v \in Views, NEW j \in Jobs, NEW d \in Contents,
               UpdatePending(v, j, d) \/ UpdateStopped(v, j, d)
        PROVE  LiveHasRequest'
    BY <1>1, <1>9, RequestsKeptStep DEF UpdatePending, UpdateStopped, Live
  <1>10. ASSUME NEW v \in Views, NEW j \in Jobs, NEW d \in Contents,
                NEW skillsKnown \in BOOLEAN, UpdateRejected(v, j, d, skillsKnown)
         PROVE  LiveHasRequest'
    <2>1. UNCHANGED creating /\ \A other \in Jobs : Live(other)' <=> Live(other)
      BY <1>0, <1>10, StatusWritten DEF UpdateRejected, JobStatus
    <2>2. CASE CreateRequest(j, d)
      BY <1>0, <2>1, <2>2, CreateRequestKeeps, RequestsKeptStep
    <2>3. CASE UNCHANGED requests
      BY <1>1, <2>1, <2>3, RequestsKeptStep
    <2> QED
      BY <1>10, <2>2, <2>3 DEF UpdateRejected
  <1>11. ASSUME NEW v \in Views, NEW j \in Jobs, NEW d \in Contents, UpdatePublished(v, j, d)
         PROVE  LiveHasRequest'
    BY <1>0, <1>11, CreateRequestKeeps, RequestsKeptStep DEF UpdatePublished, Live
  <1>12. ASSUME NEW v \in Views, NEW j \in Jobs, RequestPublication(v, j)
         PROVE  LiveHasRequest'
    <2>1. /\ requests[nextId] = None
          /\ \A r \in RequestIds \ {nextId} : requests'[r] = requests[r]
      BY <1>0, <1>12, RowInserted DEF RequestPublication, JobApprovalStatus, Typed, RowsOK
    <2>2. RowsKept({})
      BY <2>1 DEF RowsKept
    <2>3. UNCHANGED creating /\ \A other \in Jobs : Live(other)' <=> Live(other)
      BY <1>0, <1>12, StatusWritten DEF RequestPublication, JobStatus
    <2> QED
      BY <2>2, <2>3, RequestsKeptStep
  <1>13. ASSUME NEW v \in Views, NEW j \in Jobs, Stop(v, j) PROVE LiveHasRequest'
    <2>1. UNCHANGED creating /\ \A other \in Jobs : Live(other)' <=> Live(other)
      BY <1>0, <1>13, StatusWritten DEF Stop, StopJob, JobStatus
    <2> QED
      BY <1>0, <1>13, <2>1, StopJobKeeps, RequestsKeptStep DEF Stop
  <1>14. ASSUME NEW v \in Views, NEW j \in Jobs, DeleteJob(v, j) PROVE LiveHasRequest'
    <2>1. Delete({j}) /\ Dropped({j}) /\ UNCHANGED creating
      BY <1>0, <1>14, DetachDrops DEF DeleteJob, Delete, Inv
    <2> QED
      BY <1>0, <2>1, DeleteKeeps, RequestsKeptStep
  <1>15. ASSUME NEW v \in Views, NEW r \in RequestIds, NEW s \in AdminJobApprovalStatus,
                Approve(v, r, s)
         PROVE  LiveHasRequest'
    <2>1. RowsKept({})
      BY <1>0, <1>1, <1>15, DecideKeeps DEF Approve, AdminJobApprovalStatus, JobApprovalStatus
    <2>2. UNCHANGED creating /\ \A other \in Jobs : Live(other)' <=> Live(other)
      BY <1>0, <1>15, JobDecided, StatusWritten DEF Approve, JobStatus
    <2> QED
      BY <2>1, <2>2, RequestsKeptStep
  <1>16. ASSUME NEW v \in Views, NEW r \in RequestIds, RejectUpdate(v, r)
         PROVE  LiveHasRequest'
    BY <1>0, <1>16, DecideKeeps, RequestsKeptStep DEF RejectUpdate, JobApprovalStatus, Live
  <1>17. ASSUME NEW v \in Views, NEW r \in RequestIds, StopByAdmin(v, r)
         PROVE  LiveHasRequest'
    <2>1. RowsKept({})
      BY <1>0, <1>1, <1>17, DecideKeeps DEF StopByAdmin, JobApprovalStatus
    <2>2. UNCHANGED creating /\ \A other \in Jobs : Live(other)' <=> Live(other)
      BY <1>0, <1>17, JobDecided, StatusWritten DEF StopByAdmin, JobStatus
    <2> QED
      BY <2>1, <2>2, RequestsKeptStep
  <1>18. CASE UNCHANGED vars
    BY <1>1, <1>18, RequestsKeptStep DEF vars, Live
  <1> QED
    BY <1>2, <1>3, <1>4, <1>5, <1>6, <1>7, <1>8, <1>9, <1>10, <1>11, <1>12, <1>13,
       <1>14, <1>15, <1>16, <1>17, <1>18
       DEF Next, OwnerNext, AdminNext

\* When handlers run to their end, an administrator can approve every job under
\* review once its create handler is done, also after updates that failed and
\* deletions that went by an outdated view.
THEOREM Reviewable ==
    ASSUME Interruptions = FALSE
    PROVE  Spec => []PendingReviewable
  <1>1. Init => LiveHasRequest
    BY DEF Init, LiveHasRequest, Live, JobStatus
  <1>2. Inv /\ LiveHasRequest /\ [Next]_vars => LiveHasRequest'
    BY LiveHasRequestStep
  <1>3. LiveHasRequest => PendingReviewable
    BY DEF LiveHasRequest, PendingReviewable, Live, JobStatus
  <1> QED
    BY <1>1, <1>2, <1>3, Invariance, PTL DEF Spec

-----------------------------------------------------------------------------
(* When no request overlaps another: every handler sees the tables as they are. *)

\* The campaign of a job exists: so a campaign that is made for a new job has
\* no other job.
JobHasCampaign ==
    \A j \in Jobs : Live(j) =>
        campaignOf[j] \in Campaigns /\ campaign[campaignOf[j]] \in CampaignStatus

\* Nobody holds an outdated view, and a campaign has one job.
InvAlone ==
    /\ Inv
    /\ seen = {}
    /\ CampaignHasOneJob
    /\ JobHasCampaign

\* The only view is the current one.
LEMMA ViewIsNow ==
    ASSUME InvAlone, NEW v \in Views
    PROVE  v = Now
  BY DEF InvAlone, Views

LEMMA SeenStaysEmpty ==
    ASSUME MaxSnapshots = 0, InvAlone, [Next]_vars
    PROVE  seen' = {}
  <1>1. ~Authenticate
    BY FS_EmptySet DEF InvAlone, Authenticate
  <1>2. ~\E v \in seen : Leave(v)
    BY DEF InvAlone
  <1>3. ASSUME NEW v \in Views, OwnerNext(v) \/ AdminNext(v) PROVE UNCHANGED seen
    BY <1>3 DEF OwnerNext, AdminNext, UpdateCampaign, UpdateCampaignStatus, DeleteCampaign,
                CreateJob, UpdatePending, UpdateRejected, UpdateStopped, UpdatePublished,
                RequestPublication, Stop, DeleteJob, Delete, Approve, RejectUpdate, StopByAdmin
  <1> QED
    BY <1>1, <1>2, <1>3 DEF Next, vars, CreateCampaign, FinishCreate, AbandonCreate, InvAlone

\* Jobs that neither appear nor move share no campaign, and have theirs as long
\* as it is not deleted.
LEMMA CampaignsKept ==
    ASSUME CampaignHasOneJob, JobHasCampaign,
           \A j \in Jobs : Live(j)' =>
              /\ Live(j)
              /\ campaignOf'[j] = campaignOf[j]
              /\ campaign'[campaignOf[j]] \in {campaign[campaignOf[j]]} \cup CampaignStatus
    PROVE  CampaignHasOneJob' /\ JobHasCampaign'
  <1>1. CampaignHasOneJob'
    BY DEF CampaignHasOneJob
  <1>2. JobHasCampaign'
    BY DEF JobHasCampaign
  <1> QED
    BY <1>1, <1>2

\* Only CreateJob makes a job live or moves it, and it looks before.
LEMMA CampaignsStep ==
    ASSUME InvAlone, [Next]_vars
    PROVE  CampaignHasOneJob' /\ JobHasCampaign'
  <1>0. Typed /\ CampaignHasOneJob /\ JobHasCampaign
    BY DEF InvAlone, Inv
  <1>1. CASE UNCHANGED <<campaign, campaignOf>> /\ \A j \in Jobs : Live(j)' <=> Live(j)
    BY <1>0, <1>1, CampaignsKept
  <1>2. CASE UNCHANGED <<campaign, campaignOf, status>>
    BY <1>1, <1>2 DEF Live
  <1>3. CASE \/ Authenticate
             \/ \E v \in seen : Leave(v)
             \/ \E j \in Jobs : FinishCreate(j) \/ AbandonCreate(j)
             \/ UNCHANGED vars
    BY <1>2, <1>3 DEF Authenticate, Leave, tables, FinishCreate, AbandonCreate, vars
  <1>4. ASSUME NEW c \in Campaigns, CreateCampaign(c)
        PROVE  CampaignHasOneJob' /\ JobHasCampaign'
    BY <1>0, <1>4, CampaignsKept
       DEF CreateCampaign, Live, JobHasCampaign, CampaignStatus, Typed, CampaignTable
  <1>5. ASSUME NEW v \in Views, NEW c \in Campaigns, NEW s \in CampaignStatus,
               WriteCampaign(v, c, s), UNCHANGED campaignOf,
               \A j \in Jobs : Live(j)' <=> Live(j)
        PROVE  CampaignHasOneJob' /\ JobHasCampaign'
    BY <1>0, <1>5, CampaignsKept DEF WriteCampaign, JobHasCampaign, Typed, CampaignTable
  <1>6. ASSUME NEW v \in Views, NEW c \in Campaigns, NEW s \in CampaignStatus,
               \/ UpdateCampaign(v, c, s)
               \/ UpdateCampaignStatus(v, c, s)
        PROVE  CampaignHasOneJob' /\ JobHasCampaign'
    <2>1. WriteCampaign(v, c, s) /\ UNCHANGED campaignOf
      BY <1>6 DEF UpdateCampaign, UpdateCampaignStatus
    <2>2. CASE UNCHANGED status
      BY <1>5, <2>1, <2>2 DEF Live
    <2>3. ASSUME NEW j \in JobsOf(c), StopJob(Now, j)
          PROVE  CampaignHasOneJob' /\ JobHasCampaign'
      <3>1. j \in Jobs /\ Live(j)
        BY <2>3 DEF JobsOf, JobsIn, Now, Live
      <3>2. \A other \in Jobs : Live(other)' <=> Live(other)
        BY <1>0, <2>3, <3>1, StatusWritten DEF StopJob, JobStatus
      <3> QED
        BY <1>5, <2>1, <3>2
    <2> QED
      BY <1>6, <2>2, <2>3 DEF UpdateCampaign, UpdateCampaignStatus
  <1>7. ASSUME NEW v \in Views, NEW c \in Campaigns, DeleteCampaign(v, c)
        PROVE  CampaignHasOneJob' /\ JobHasCampaign'
    <2>1. \A j \in Jobs : Live(j)' => Live(j) /\ campaignOf'[j] = campaignOf[j] /\ campaignOf[j] # c
      BY <1>7 DEF DeleteCampaign, Delete, JobsOf, JobsIn, Now, Live, JobStatus
    <2>2. \A other \in Campaigns \ {c} : campaign'[other] = campaign[other]
      BY <1>0, <1>7 DEF DeleteCampaign, Typed, CampaignTable
    <2> QED
      BY <1>0, <2>1, <2>2, CampaignsKept DEF JobHasCampaign
  <1>8. ASSUME NEW v \in Views, NEW c \in Campaigns, NEW j \in Jobs, NEW d \in Contents,
               CreateJob(v, c, j, d)
        PROVE  CampaignHasOneJob' /\ JobHasCampaign'
    <2>1. /\ campaignOf'[j] = c
          /\ \A other \in Jobs \ {j} :
                (Live(other)' <=> Live(other)) /\ campaignOf'[other] = campaignOf[other]
      BY <1>0, <1>8 DEF CreateJob, Live, Typed, StatusColumn, CampaignColumn
    <2>2. ASSUME NEW other \in Jobs \ {j}, Live(other) PROVE campaignOf[other] # c
      <3>1. CASE JobsIn(v, c) = {}
        BY <2>2, <3>1, ViewIsNow DEF JobsIn, Now, Live
      <3>2. CASE campaign[c] = "none"
        BY <1>0, <2>2, <3>2 DEF JobHasCampaign, CampaignStatus
      <3> QED
        BY <1>8, <3>1, <3>2 DEF CreateJob
    <2>3. CampaignHasOneJob'
      BY <1>0, <2>1, <2>2 DEF CampaignHasOneJob
    <2>4. /\ campaign'[c] \in CampaignStatus
          /\ \A other \in Campaigns \ {c} : campaign'[other] = campaign[other]
      BY <1>0, <1>8 DEF CreateJob, Typed, CampaignTable, CampaignStatus
    <2>5. JobHasCampaign'
      BY <1>0, <2>1, <2>4 DEF JobHasCampaign
    <2> QED
      BY <2>3, <2>5
  <1>9. ASSUME NEW v \in Views, NEW j \in Jobs, DeleteJob(v, j)
        PROVE  CampaignHasOneJob' /\ JobHasCampaign'
    <2>1. UNCHANGED campaign
          /\ \A other \in Jobs : Live(other)' => Live(other) /\ campaignOf'[other] = campaignOf[other]
      BY <1>9 DEF DeleteJob, Delete, Live, JobStatus
    <2> QED
      BY <1>0, <2>1, CampaignsKept
  <1>10. ASSUME NEW v \in Views, NEW j \in Jobs, NEW d \in Contents,
                \/ UpdatePending(v, j, d)
                \/ UpdateStopped(v, j, d)
                \/ UpdatePublished(v, j, d)
         PROVE  CampaignHasOneJob' /\ JobHasCampaign'
    BY <1>2, <1>10 DEF UpdatePending, UpdateStopped, UpdatePublished
  <1>11. ASSUME NEW v \in Views, NEW j \in Jobs, Live(j), UNCHANGED <<campaign, campaignOf>>,
                NEW s \in JobStatus, WriteStatus(v, j, s) \/ UNCHANGED status
         PROVE  CampaignHasOneJob' /\ JobHasCampaign'
    BY <1>0, <1>1, <1>2, <1>11, StatusWritten
  <1>12. ASSUME NEW v \in Views, NEW j \in Jobs,
                \/ \E d \in Contents, skillsKnown \in BOOLEAN : UpdateRejected(v, j, d, skillsKnown)
                \/ RequestPublication(v, j)
                \/ Stop(v, j)
         PROVE  CampaignHasOneJob' /\ JobHasCampaign'
    BY <1>11, <1>12 DEF UpdateRejected, RequestPublication, Stop, StopJob, JobStatus
  <1>13. ASSUME NEW v \in Views, NEW r \in RequestIds,
                \/ \E s \in AdminJobApprovalStatus : Approve(v, r, s)
                \/ StopByAdmin(v, r)
         PROVE  CampaignHasOneJob' /\ JobHasCampaign'
    BY <1>0, <1>11, <1>13, JobDecided DEF Approve, StopByAdmin, JobStatus
  <1>14. ASSUME NEW v \in Views, NEW r \in RequestIds, RejectUpdate(v, r)
         PROVE  CampaignHasOneJob' /\ JobHasCampaign'
    BY <1>2, <1>14 DEF RejectUpdate
  <1> QED
    BY <1>3, <1>4, <1>6, <1>7, <1>8, <1>9, <1>10, <1>12, <1>13, <1>14
       DEF Next, OwnerNext, AdminNext

\* The invariants hold in every state of a service that answers one request after
\* the other.
THEOREM InvarianceAlone ==
    ASSUME MaxSnapshots = 0
    PROVE  Spec => []InvAlone
  <1>1. Init /\ Inv => InvAlone
    BY DEF Init, InvAlone, CampaignHasOneJob, JobHasCampaign, Live, JobStatus
  <1>2. InvAlone /\ Inv' /\ [Next]_vars => InvAlone'
    <2> SUFFICES ASSUME InvAlone, Inv', [Next]_vars PROVE InvAlone'
      OBVIOUS
    <2>1. seen' = {}
      BY SeenStaysEmpty
    <2>2. CampaignHasOneJob' /\ JobHasCampaign'
      BY CampaignsStep
    <2> QED
      BY <2>1, <2>2 DEF InvAlone
  <1> QED
    BY <1>1, <1>2, Invariance, PTL DEF Spec

\* While requests do not overlap, the handlers alone keep a campaign to one job:
\* no constraint of the database does.
THEOREM OneJob ==
    ASSUME MaxSnapshots = 0
    PROVE  Spec => []CampaignHasOneJob
  <1>1. InvAlone => CampaignHasOneJob
    BY DEF InvAlone
  <1> QED
    BY <1>1, InvarianceAlone, PTL

-----------------------------------------------------------------------------
(* The handlers implement the review. *)

ReviewVars == <<Public, Submitted>>

\* Nothing visible changes when no job enters or leaves the two statuses that
\* show a text, and the jobs that have one of them keep their text.
LEMMA ReviewStutters ==
    ASSUME \A j \in Jobs :
              \/ status'[j] = status[j] /\ content'[j] = content[j]
              \/ /\ status[j] \notin {"published", "pending"}
                 /\ status'[j] \notin {"published", "pending"}
    PROVE  UNCHANGED ReviewVars
  BY DEF ReviewVars, Public, Submitted

\* The other jobs look the same.
OthersSame(j) ==
    \A other \in Jobs \ {j} : status'[other] = status[other] /\ content'[other] = content[other]

\* A job that leaves both statuses is withdrawn.
LEMMA ReviewWithdraws ==
    ASSUME NEW j \in Jobs, OthersSame(j), status'[j] \notin {"published", "pending"}
    PROVE  Review!Next
  <1>1. Review!Withdraw(j)
    BY DEF Review!Withdraw, Public, Submitted, OthersSame
  <1> QED
    BY <1>1 DEF Review!Next

\* A job that enters review is submitted, with its new text unless it comes from
\* the site.
LEMMA ReviewSubmits ==
    ASSUME NEW j \in Jobs, OthersSame(j), status'[j] = "pending",
           content'[j] \in Contents,
           status[j] = "published" => content'[j] = content[j]
    PROVE  Review!Next
  <1>1. Review!Submit(j, content'[j])
    BY DEF Review!Submit, Public, Submitted, OthersSame
  <1> QED
    BY <1>1 DEF Review!Next

\* A job that goes from review to the site is published with the text it had.
LEMMA ReviewPublishes ==
    ASSUME NEW j \in Jobs, OthersSame(j), content[j] \in Contents,
           status[j] = "pending", status'[j] = "published", content'[j] = content[j]
    PROVE  Review!Next
  <1>1. Submitted[j] # None
    BY ConstantsAssumption DEF Submitted
  <1>2. Review!Publish(j)
    BY <1>1 DEF Review!Publish, Public, Submitted, OthersSame
  <1> QED
    BY <1>2 DEF Review!Next

\* The columns of one job, written by a handler that sees the tables as they are.
LEMMA StatusNow ==
    ASSUME Typed, NEW j \in Jobs, NEW s, WriteStatus(Now, j, s)
    PROVE  status'[j] = s /\ \A other \in Jobs \ {j} : status'[other] = status[other]
  BY DEF WriteStatus, Now, Typed, StatusColumn

LEMMA ContentNow ==
    ASSUME Typed, NEW j \in Jobs, NEW d, WriteContent(Now, j, d)
    PROVE  content'[j] = d /\ \A other \in Jobs \ {j} : content'[other] = content[other]
  BY DEF WriteContent, Now, Typed, ContentColumn

\* Stopping a job withdraws it.
LEMMA StopJobWithdraws ==
    ASSUME Typed, NEW j \in Jobs, StopJob(Now, j), UNCHANGED content
    PROVE  Review!Next
  <1>1. OthersSame(j) /\ status'[j] = "stopped"
    BY StatusNow DEF StopJob, OthersSame
  <1> QED
    BY <1>1, ReviewWithdraws

\* Deleting at most one job does too.
LEMMA DeleteWithdraws ==
    ASSUME NEW js \in SUBSET Jobs, Delete(js), \A j, other \in js : j = other
    PROVE  Review!Next \/ UNCHANGED ReviewVars
  <1>1. CASE js = {}
    BY <1>1, ReviewStutters DEF Delete
  <1>2. ASSUME NEW j \in js PROVE Review!Next
    <2>1. OthersSame(j) /\ status'[j] = "deleted"
      BY <1>2 DEF Delete, OthersSame
    <2> QED
      BY <2>1, ReviewWithdraws
  <1> QED
    BY <1>1, <1>2

\* Each handler that sees the tables as they are is a step of the review, or
\* invisible.
LEMMA ReviewStep ==
    ASSUME InvAlone, [Next]_vars
    PROVE  Review!Next \/ UNCHANGED ReviewVars
  <1>0. Typed /\ \A v \in Views : v = Now
    BY ViewIsNow DEF InvAlone, Inv
  <1>1. ASSUME UNCHANGED <<status, content>> PROVE UNCHANGED ReviewVars
    BY <1>1 DEF ReviewVars, Public, Submitted
  <1>2. CASE \/ Authenticate
             \/ \E v \in seen : Leave(v)
             \/ \E c \in Campaigns : CreateCampaign(c)
             \/ \E j \in Jobs : FinishCreate(j) \/ AbandonCreate(j)
             \/ UNCHANGED vars
    BY <1>1, <1>2 DEF Authenticate, Leave, tables, CreateCampaign, FinishCreate, AbandonCreate, vars
  <1>3. ASSUME NEW v \in Views, NEW c \in Campaigns, NEW s \in CampaignStatus,
               UpdateCampaign(v, c, s) \/ UpdateCampaignStatus(v, c, s)
        PROVE  Review!Next \/ UNCHANGED ReviewVars
    BY <1>0, <1>1, <1>3, StopJobWithdraws DEF UpdateCampaign, UpdateCampaignStatus, JobsOf, JobsIn
  <1>4. ASSUME NEW v \in Views, NEW c \in Campaigns, DeleteCampaign(v, c)
        PROVE  Review!Next \/ UNCHANGED ReviewVars
    <2>1. /\ JobsOf(c) \in SUBSET Jobs
          /\ \A j, other \in JobsOf(c) : j = other
      BY DEF InvAlone, CampaignHasOneJob, JobsOf, JobsIn, Now, Live
    <2> QED
      BY <1>4, <2>1, DeleteWithdraws DEF DeleteCampaign
  <1>5. ASSUME NEW v \in Views, NEW c \in Campaigns, NEW j \in Jobs, NEW d \in Contents,
               CreateJob(v, c, j, d)
        PROVE  Review!Next
    <2>1. /\ OthersSame(j) /\ status[j] = "none"
          /\ status'[j] = "pending" /\ content'[j] = d
      BY <1>0, <1>5 DEF CreateJob, OthersSame, Typed, StatusColumn, ContentColumn
    <2> QED
      BY <2>1, ReviewSubmits
  <1>6. ASSUME NEW v \in Views, NEW j \in Jobs, NEW d \in Contents, UpdatePending(v, j, d)
        PROVE  Review!Next
    <2>1. /\ OthersSame(j) /\ status[j] = "pending"
          /\ status'[j] = "pending" /\ content'[j] = d
      BY <1>0, <1>6, ContentNow DEF UpdatePending, OthersSame, Now
    <2> QED
      BY <2>1, ReviewSubmits
  <1>7. ASSUME NEW v \in Views, NEW j \in Jobs, NEW d \in Contents,
               NEW skillsKnown \in BOOLEAN, UpdateRejected(v, j, d, skillsKnown)
        PROVE  Review!Next \/ UNCHANGED ReviewVars
    <2>1. /\ status[j] = "rejected"
          /\ content'[j] = d
          /\ \A other \in Jobs \ {j} : content'[other] = content[other]
      BY <1>0, <1>7, ContentNow DEF UpdateRejected, Now
    <2>2. CASE WriteStatus(Now, j, "pending")
      BY <1>0, <2>1, <2>2, StatusNow, ReviewSubmits DEF OthersSame
    <2>3. CASE UNCHANGED status
      BY <2>1, <2>3, ReviewStutters
    <2> QED
      BY <1>0, <1>7, <2>2, <2>3 DEF UpdateRejected
  <1>8. ASSUME NEW v \in Views, NEW j \in Jobs, NEW d \in Contents, UpdateStopped(v, j, d)
        PROVE  UNCHANGED ReviewVars
    <2>1. OthersSame(j) /\ status[j] = "stopped" /\ UNCHANGED status
      BY <1>0, <1>8, ContentNow DEF UpdateStopped, OthersSame, Now
    <2> QED
      BY <2>1, ReviewStutters DEF OthersSame
  <1>9. ASSUME NEW v \in Views, NEW j \in Jobs, NEW d \in Contents, UpdatePublished(v, j, d)
        PROVE  UNCHANGED ReviewVars
    BY <1>1, <1>9 DEF UpdatePublished
  <1>10. ASSUME NEW v \in Views, NEW j \in Jobs, RequestPublication(v, j)
         PROVE  Review!Next \/ UNCHANGED ReviewVars
    <2>1. content[j] \in Contents /\ UNCHANGED content
      BY <1>10 DEF InvAlone, Inv, LiveHasContent, RequestPublication
    <2>2. CASE WriteStatus(Now, j, "pending")
      BY <1>0, <2>1, <2>2, StatusNow, ReviewSubmits DEF OthersSame
    <2> QED
      BY <1>0, <1>1, <1>10, <2>1, <2>2 DEF RequestPublication
  <1>11. ASSUME NEW v \in Views, NEW j \in Jobs, Stop(v, j) PROVE Review!Next
    BY <1>0, <1>11, StopJobWithdraws DEF Stop
  <1>12. ASSUME NEW v \in Views, NEW j \in Jobs, DeleteJob(v, j)
         PROVE  Review!Next \/ UNCHANGED ReviewVars
    BY <1>12, DeleteWithdraws DEF DeleteJob
  <1>13. ASSUME NEW v \in Views, NEW r \in RequestIds, NEW s \in AdminJobApprovalStatus,
                Approve(v, r, s)
         PROVE  Review!Next
    <2> DEFINE j == v.requests[r].job
    <2>1. j \in Jobs
      BY <1>0, <1>13, JobDecided DEF Approve
    <2>2. status[j] = "pending" /\ Live(j) /\ UNCHANGED content
      BY <1>0, <1>13 DEF Approve, Now
    <2>3. /\ OthersSame(j)
          /\ status'[j] = IF s = "approved" THEN "published" ELSE "rejected"
      BY <1>0, <1>13, <2>1, <2>2, StatusNow DEF Approve, OthersSame
    <2>4. content[j] \in Contents
      BY <2>1, <2>2 DEF InvAlone, Inv, LiveHasContent
    <2> QED
      BY <2>1, <2>2, <2>3, <2>4, ReviewPublishes, ReviewWithdraws
  <1>14. ASSUME NEW v \in Views, NEW r \in RequestIds, RejectUpdate(v, r)
         PROVE  UNCHANGED ReviewVars
    BY <1>1, <1>14 DEF RejectUpdate
  <1>15. ASSUME NEW v \in Views, NEW r \in RequestIds, StopByAdmin(v, r) PROVE Review!Next
    <2> DEFINE j == v.requests[r].job
    <2>1. j \in Jobs
      BY <1>0, <1>15, JobDecided DEF StopByAdmin
    <2>2. OthersSame(j) /\ status'[j] = "stopped"
      BY <1>0, <1>15, <2>1, StatusNow DEF StopByAdmin, OthersSame
    <2> QED
      BY <2>1, <2>2, ReviewWithdraws
  <1> QED
    BY <1>2, <1>3, <1>4, <1>5, <1>6, <1>7, <1>8, <1>9, <1>10, <1>11, <1>12, <1>13,
       <1>14, <1>15
       DEF Next, OwnerNext, AdminNext

\* While requests do not overlap, whatever owners and administrators do and
\* wherever a handler dies, visitors find a text only after an administrator
\* published it from review.
THEOREM ImplementsReview ==
    ASSUME MaxSnapshots = 0
    PROVE  Spec => ReviewSpec
  <1>1. Init => Review!Init
    BY DEF Init, Review!Init, Public, Submitted
  <1>2. InvAlone /\ [Next]_vars => [Review!Next]_(Review!vars)
    BY ReviewStep DEF ReviewVars, Review!vars
  <1> QED
    BY <1>1, <1>2, InvarianceAlone, PTL DEF Spec, ReviewSpec, Review!Spec

=============================================================================
