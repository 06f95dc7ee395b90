---------------------------- MODULE Applications ----------------------------
(***************************************************************************)
(* Applications of candidates to the campaigns of a business, and the      *)
(* numbers kept beside them (app/core/cv_applications, crud/campaign,      *)
(* crud/user).                                                             *)
(*                                                                         *)
(* A handler never suspends before its last write (the upload of a CV is a *)
(* plain call), but it goes by what its call saw when its user was         *)
(* authenticated: the rows it reads are the view's until its first commit, *)
(* and a row it has read stays as it was read.  The two counters differ in *)
(* that: the campaign is read with the job, from the view; the candidate's *)
(* own row only when it is counted up, after the commits before.           *)
(***************************************************************************)
EXTENDS Naturals, FiniteSets

CONSTANTS
    Users,      \* candidates
    Business,   \* the owner of the campaigns
    Campaigns,  \* campaign ids
    Calls,      \* calls at a time
    Answers,    \* what a business can answer
    MaxRows,    \* bound: rows the table cv_application ever holds
    None,       \* no row, no call
    Faults      \* {"death"}: a handler may die between two commits

ASSUME ConstantsAssumption ==
    /\ Business \notin Users
    /\ Answers \subseteq {"approved", "rejected", "interview"}
    /\ MaxRows \in Nat
    /\ Faults \subseteq {"death"}

VARIABLES
    campaign,       \* each campaign: whether it has a job that is open
    countApply,     \* Campaign.count_apply
    rows,           \* the table cv_application
    nextId,         \* the table's next id
    countJobApply,  \* User.count_job_apply
    call,           \* the calls that are authenticated and not handled
    accepted,       \* history: the applications accepted, of candidates not in together
    answered,       \* history: the rows whose CV, as stored, was answered
    together,       \* history: who had a call beside another call
    died            \* history: the candidates whose handler died between two commits

tables == <<campaign, countApply, rows, nextId, countJobApply>>
history == <<accepted, answered, together, died>>
vars == <<tables, call, history>>

RowIds == 1..MaxRows
CVApplicationStatus == {"pending"} \cup Answers
CVApplication == [user : Users, campaign : Campaigns, count : Nat, status : CVApplicationStatus]

ASSUME RowAssumption == None \notin CVApplication

\* A campaign with a job that is published and not past its deadline; without a
\* job or with another; and a campaign that is deleted.
CampaignTable == [Campaigns -> {"closed", "open", "deleted"}]
CountColumn == [Campaigns -> Nat]
RowTable == [RowIds -> CVApplication \cup {None}]
View == [campaign : CampaignTable, countApply : CountColumn, rows : RowTable]
Call == [who : Users \cup {Business}, view : View]

Now == [campaign |-> campaign, countApply |-> countApply, rows |-> rows]

TypeOK ==
    /\ Now \in View
    /\ nextId \in 1..(MaxRows + 1)
    /\ \A r \in RowIds : r >= nextId => rows[r] = None
    /\ countJobApply \in [Users -> Nat]
    /\ call \in [Calls -> Call \cup {None}]
    /\ accepted \in [Users \X Campaigns -> Nat]
    /\ answered \subseteq RowIds
    /\ together \subseteq Users \cup {Business}
    /\ died \subseteq Users

Init ==
    /\ campaign = [k \in Campaigns |-> "closed"]
    /\ countApply = [k \in Campaigns |-> 0]
    /\ rows = [r \in RowIds |-> None]
    /\ nextId = 1
    /\ countJobApply = [u \in Users |-> 0]
    /\ call = [c \in Calls |-> None]
    /\ accepted = [uk \in Users \X Campaigns |-> 0]
    /\ answered = {}
    /\ together = {}
    /\ died = {}

-----------------------------------------------------------------------------
RowsOfCampaign(v, k) == {r \in RowIds : v.rows[r] # None /\ v.rows[r].campaign = k}

RowsOfUser(v, u) == {r \in RowIds : v.rows[r] # None /\ v.rows[r].user = u}

\* mutant: an application that was answered is not looked for
BugFind(v, u, k) ==
    {r \in RowsOfUser(v, u) \cap RowsOfCampaign(v, k) : v.rows[r].status = "pending"}

\* The row of a candidate in a campaign, the oldest if there are several.
get_by_user_id_and_campaign_id(v, u, k) ==
    LET found == RowsOfUser(v, u) \cap RowsOfCampaign(v, k)
    IN  {r \in found : \A other \in found : r <= other}

job_open(v, k) == v.campaign[k] = "open"

InProgress == {call[c].who : c \in {d \in Calls : call[d] # None}}

Authenticate(c, who) ==
    /\ call[c] = None
    /\ call' = [call EXCEPT ![c] = [who |-> who, view |-> Now]]
    /\ together' = IF InProgress = {} THEN together ELSE together \cup InProgress \cup {who}
    /\ accepted' = [uk \in Users \X Campaigns |-> IF uk[1] \in together' THEN 0 ELSE accepted[uk]]
    /\ UNCHANGED <<tables, answered, died>>

Handled(c) == call' = [call EXCEPT ![c] = None]

By(c, who) == call[c] # None /\ call[c].who = who

\* A call that is refused, or ends before it writes.
Refused(c) ==
    /\ call[c] # None
    /\ Handled(c)
    /\ UNCHANGED <<tables, history>>

Accepted(u, k) ==
    accepted' = IF u \in together THEN accepted ELSE [accepted EXCEPT ![<<u, k>>] = @ + 1]

\* A candidate may apply three times in a campaign.
BelowLimit(v, r) == v.rows[r].count # 3

\* mutant: counts what the table says
BugNextCount(v, r) == rows[r].count + 1
NextCount(v, r) == v.rows[r].count + 1

\* mutant: a new CV keeps its answer
BugStatusAgain(v, r) == rows[r].status

\* An UPDATE writes what differs from the row that was read: a row that was
\* pending then is not set to it again.
StatusAgain(v, r) == IF v.rows[r].status = "pending" THEN rows[r].status ELSE "pending"

\* A candidate that has a row replaces its CV.
ApplyAgain(c, u, k) ==
    /\ By(c, u)
    /\ LET v == call[c].view IN
       /\ job_open(v, k)
       /\ \E r \in get_by_user_id_and_campaign_id(v, u, k) :
            /\ BelowLimit(v, r)
            /\ rows[r] # None
            /\ rows' = [rows EXCEPT ![r].count = NextCount(v, r),
                                    ![r].status = StatusAgain(v, r)]
            /\ answered' = answered \ {r}
    /\ Accepted(u, k)
    /\ Handled(c)
    /\ UNCHANGED <<campaign, countApply, nextId, countJobApply, together, died>>

\* mutant: the rows are counted as the call saw them
BugIncrease(v, k) == [countApply EXCEPT ![k] = Cardinality(RowsOfCampaign(v, k))]

increase_count_apply(v, k) == [countApply EXCEPT ![k] = v.countApply[k] + 1]

increase_count_job_apply(u) == [countJobApply EXCEPT ![u] = @ + 1]

\* mutant: the first CV counts as seen
BugNewRow(u, k) == [user |-> u, campaign |-> k, count |-> 1, status |-> "viewed"]
NewRow(u, k) == [user |-> u, campaign |-> k, count |-> 1, status |-> "pending"]

\* A candidate that has none, as the view shows, gets a row; the campaign and the
\* candidate are counted up, each in a commit of its own.  The database refuses a
\* row of a campaign that is gone.
ApplyFirst(c, u, k, commits) ==
    /\ By(c, u)
    /\ LET v == call[c].view IN
       /\ job_open(v, k)
       /\ get_by_user_id_and_campaign_id(v, u, k) = {}
       /\ campaign[k] # "deleted"
       /\ nextId <= MaxRows
       /\ rows' = [rows EXCEPT ![nextId] = NewRow(u, k)]
       /\ nextId' = nextId + 1
       /\ countApply' = IF commits > 1 THEN increase_count_apply(v, k) ELSE countApply
       /\ countJobApply' = IF commits > 2 THEN increase_count_job_apply(u) ELSE countJobApply
    /\ commits < 3 => "death" \in Faults
    /\ died' = IF commits < 3 THEN died \cup {u} ELSE died
    /\ Accepted(u, k)
    /\ Handled(c)
    /\ UNCHANGED <<campaign, answered, together>>

\* The business answers an application it sees.  The same answer again is not written.
Answer(c, r, s) ==
    /\ By(c, Business)
    /\ LET v == call[c].view IN
       /\ v.rows[r] # None
       /\ rows[r] # None
       /\ v.rows[r].status # s
    /\ rows' = [rows EXCEPT ![r].status = s]
    /\ answered' = answered \cup {r}
    /\ Handled(c)
    /\ UNCHANGED <<campaign, countApply, nextId, countJobApply, accepted, together, died>>

-----------------------------------------------------------------------------
\* What JobLifecycle does to a campaign's job: it is created, published, stopped,
\* deleted, followed by another, or past its deadline.
JobChanges(k, s) ==
    /\ campaign[k] \notin {s, "deleted"}
    /\ campaign' = [campaign EXCEPT ![k] = s]
    /\ UNCHANGED <<countApply, rows, nextId, countJobApply, call, history>>

\* A campaign is deleted, and the applications to it with it.  The session tries
\* to detach those it sees, which the column refuses.
DeleteCampaign(c, k) ==
    /\ By(c, Business)
    /\ RowsOfCampaign(call[c].view, k) = {}
    /\ campaign[k] # "deleted"
    /\ campaign' = [campaign EXCEPT ![k] = "deleted"]
    /\ rows' = [r \in RowIds |-> IF r \in RowsOfCampaign(Now, k) THEN None ELSE rows[r]]
    /\ answered' = answered \ RowsOfCampaign(Now, k)
    /\ Handled(c)
    /\ UNCHANGED <<countApply, nextId, countJobApply, accepted, together, died>>

Next ==
    \/ \E k \in Campaigns, s \in {"closed", "open"} : JobChanges(k, s)
    \/ \E c \in Calls :
        \/ \E who \in Users \cup {Business} : Authenticate(c, who)
        \/ Refused(c)
        \/ \E k \in Campaigns : DeleteCampaign(c, k)
        \/ \E r \in RowIds, s \in Answers : Answer(c, r, s)
        \/ \E u \in Users, k \in Campaigns :
            \/ ApplyAgain(c, u, k)
            \/ \E commits \in 1..3 : ApplyFirst(c, u, k, commits)

Spec == Init /\ [][Next]_vars

-----------------------------------------------------------------------------
\* The limit holds in every row, though calls that overlap check it on old rows,
\* because what they write is one more than what they checked.  A candidate whose
\* calls never ran beside another is accepted three times in a campaign at most,
\* whatever becomes of the job: a new job of the campaign does not start again.
AtMostThree ==
    /\ \A r \in RowIds : rows[r] # None => rows[r].count <= 3
    /\ \A u \in Users \ together, k \in Campaigns : accepted[<<u, k>>] <= 3

\* Such a candidate has one row in a campaign, which counts what was accepted.
\* No index of the table says so: it rests on the search before the insertion.
OneApplication ==
    \A u \in Users \ together, k \in Campaigns :
        /\ Cardinality(RowsOfUser(Now, u) \cap RowsOfCampaign(Now, k)) <= 1
        /\ \A r \in RowsOfUser(Now, u) \cap RowsOfCampaign(Now, k) : rows[r].count = accepted[<<u, k>>]

\* A campaign never counts more applications than it has, and counts all of them
\* if no applicant's call overlapped another or died half way.  The candidate's own
\* number loses nothing to overlaps.
CountsAgree ==
    /\ \A k \in Campaigns : campaign[k] # "deleted" =>
        /\ countApply[k] <= Cardinality(RowsOfCampaign(Now, k))
        /\ (\A r \in RowsOfCampaign(Now, k) : rows[r].user \notin together \cup died)
              => countApply[k] = Cardinality(RowsOfCampaign(Now, k))
    /\ \A u \in Users \ died : countJobApply[u] >= Cardinality(RowsOfUser(Now, u))

\* An answer belongs to the CV that is stored: a CV that replaces an answered one
\* waits again.  (Not so for calls that overlap: a CV sent while the row is being
\* answered keeps the answer to the CV before it.)
AnsweredAsStored ==
    \A r \in RowIds :
        rows[r] # None /\ rows[r].status # "pending" /\ rows[r].user \notin together => r \in answered
=============================================================================
