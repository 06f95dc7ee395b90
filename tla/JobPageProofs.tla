--------------------------- MODULE JobPageProofs ---------------------------
(***************************************************************************)
(* Proofs about JobPage, for any jobs, forms, categories and calls, with   *)
(* and without failures.                                                   *)
(***************************************************************************)
EXTENDS JobPage, FiniteSetTheorems, TLAPS

\* TypeOK, variable by variable.
Typed ==
    /\ job \in JobTable
    /\ position \in Int
    /\ category \in [Categories -> Int]
    /\ page \in [Jobs -> JobItemResponse \cup {None}]
    /\ filed \subseteq Jobs
    /\ call \in [Calls -> Call \cup {None}]
    /\ broken \subseteq Jobs
    /\ orderly \in BOOLEAN
    /\ excused \subseteq Jobs

LEMMA TypedIsTypeOK == Typed <=> TypeOK
  BY DEF Typed, TypeOK, Now, View

\* What FieldsTogether says of one job.
Together(row, isOrderly) ==
    /\ row.locations # None
    /\ row.times = row.locations
    /\ NamedBy(row.categories) = CategoriesOf[row.locations]
    /\ SkillsOf[row.locations] \subseteq row.skills
    /\ isOrderly => row.row = row.locations

LEMMA FieldsOneByOne ==
    /\ FieldsTogether <=> \A j \in Jobs \ broken : IsJob(job[j]) => Together(job[j], orderly)
    /\ FieldsTogether' <=>
            \A j \in Jobs \ broken' : IsJob(job'[j]) => Together(job'[j], orderly')
  BY DEF FieldsTogether, Together, IsJob, NamedBy

-----------------------------------------------------------------------------
(* What the helpers return. *)

LEMMA PageTyped ==
    ASSUME NEW row \in Job
    PROVE  get_info(row) \in JobItemResponse
  BY DEF Job, get_info, JobItemResponse, NamedBy, Rows

LEMMA CreatedTyped ==
    ASSUME NEW f \in Forms, NEW commits \in 1..5
    PROVE  create_fields(f, commits) \in Job
  BY ConstantsAssumption DEF create_fields, Job, JobStatus, Rows

LEMMA UpdatedTyped ==
    ASSUME NEW seen \in Job, NEW row \in Job, NEW f \in Forms, NEW commits \in 1..6,
           Updated(seen, row, f, commits).categories \in Rows
    PROVE  Updated(seen, row, f, commits) \in Job
<1> DEFINE categories == IF commits > 3 THEN UpdateCategories(row.categories, f) ELSE row.categories
<1>1. /\ Replaced(row.locations, f, commits, 2) \in Forms \cup {None}
      /\ Replaced(row.times, f, commits, 5) \in Forms \cup {None}
  BY DEF Replaced, Job
<1>2. categories \in Rows
  BY DEF Updated, Job
<1>3. /\ row.status \in JobStatus /\ row.row \in Forms
      /\ "pending" \in JobStatus
  BY DEF Job, JobStatus
<1> HIDE DEF categories
<1>4. Updated(seen, row, f, commits) =
        [row EXCEPT !.status = IF seen.status = "rejected" THEN "pending" ELSE @,
                    !.row = IF seen.row = f THEN @ ELSE f,
                    !.locations = Replaced(@, f, commits, 2),
                    !.categories = categories,
                    !.times = Replaced(@, f, commits, 5)]
  BY DEF Updated, categories
<1> QED
  BY <1>1, <1>2, <1>3, <1>4 DEF Job

\* The categories an update leaves are those of its form.
LEMMA UpdatedCategories ==
    ASSUME NEW rows \in Rows, NEW f \in Forms
    PROVE  NamedBy(UpdateCategories(rows, f)) = CategoriesOf[f]
  BY ConstantsAssumption DEF NamedBy, UpdateCategories, Rows

LEMMA JobTyped ==
    ASSUME NEW table \in JobTable, NEW j \in Jobs, IsJob(table[j])
    PROVE  table[j] \in Job
  BY DEF JobTable, IsJob

LEMMA Viewed ==
    ASSUME Typed, NEW c \in Calls, Handling(c)
    PROVE  call[c].view \in View
  BY DEF Typed, Handling, Call

LEMMA NowTyped == ASSUME Typed PROVE Now \in View
  BY DEF Typed, Now, View

-----------------------------------------------------------------------------
(* What the parts of the actions do. *)

LEMMA Counted ==
    ASSUME Typed, NEW v \in View, NEW j \in Jobs, v.job[j] \in Job, NEW old, NEW new,
           ReceiveAfterUpdate(v, j, old, new)
    PROVE  position' \in Int /\ category' \in [Categories -> Int]
<1> DEFINE by == IF new = "published" /\ old # "published" THEN 1
                 ELSE IF old = "published" /\ new # "published" THEN -1 ELSE 0
           rows == v.job[j].categories
<1>1. by \in Int
  OBVIOUS
<1>2. \A k \in Categories : rows[k] \in Int
  BY ConstantsAssumption DEF Job, Rows
<1>3. v.position \in Int /\ v.category \in [Categories -> Int]
  BY DEF View
<1>4. /\ position' = IF by = 0 THEN position ELSE v.position + by
      /\ category' = [k \in Categories |->
            IF by = 0 \/ rows[k] = 0 THEN category[k] ELSE v.category[k] + by * rows[k]]
  BY DEF ReceiveAfterUpdate
<1> HIDE DEF by, rows
<1>5. \A k \in Categories : by * rows[k] \in Int
  BY <1>1, <1>2
<1> QED
  BY <1>1, <1>3, <1>4, <1>5 DEF Typed

\* A status is set: no job but j changes, and of j only the status.
LEMMA StatusSet ==
    ASSUME Typed, NEW v \in View, NEW j \in Jobs, v.job[j] \in Job,
           NEW seen, NEW new \in JobStatus, NEW commits,
           update_status_job(seen, v, j, new, commits)
    PROVE  /\ job' \in JobTable
           /\ position' \in Int
           /\ category' \in [Categories -> Int]
           /\ \A i \in Jobs \ {j} : job'[i] = job[i]
           /\ job'[j] = job[j] \/ (IsJob(job[j]) /\ job'[j] = [job[j] EXCEPT !.status = new])
<1>1. position' \in Int /\ category' \in [Categories -> Int]
  BY Counted DEF update_status_job
<1>2. job \in JobTable
  BY DEF Typed
<1>3. CASE job' = job
  BY <1>1, <1>2, <1>3
<1>4. CASE IsJob(job[j]) /\ job' = [job EXCEPT ![j].status = new]
  <2>1. job[j] \in Job
    BY <1>2, <1>4, JobTyped
  <2>2. [job[j] EXCEPT !.status = new] \in Job
    BY <2>1 DEF Job
  <2> QED
    BY <1>1, <1>2, <1>4, <2>2 DEF JobTable
<1> QED
  BY <1>3, <1>4 DEF update_status_job

\* The handlers that set a status on behalf of a call.
SetsStatus(c, j, commits) ==
    \/ \E new \in {"published", "rejected"} : Approve(c, j, new, commits)
    \/ Stop(c, j, commits)
    \/ RequestPublication(c, j, commits)

OnlyStatus(j) ==
    /\ job' \in JobTable
    /\ position' \in Int
    /\ category' \in [Categories -> Int]
    /\ \A i \in Jobs \ {j} : job'[i] = job[i]
    /\ job'[j] = job[j] \/ (IsJob(job[j]) /\ \E s : job'[j] = [job[j] EXCEPT !.status = s])

LEMMA StatusHandled ==
    ASSUME Typed, NEW c \in Calls, NEW j \in Jobs, NEW commits, SetsStatus(c, j, commits)
    PROVE  /\ OnlyStatus(j)
           /\ Handling(c)
           /\ \E through : Written(c, j, through)
           /\ UNCHANGED <<page, broken>> /\ filed' \subseteq Jobs
           /\ orderly' \in BOOLEAN /\ (orderly' => orderly)
<1>1. /\ Handling(c)
      /\ \E through : Written(c, j, through)
      /\ UNCHANGED <<page, broken>> /\ filed' \subseteq Jobs
      /\ orderly' \in BOOLEAN /\ (orderly' => orderly)
  BY DEF SetsStatus, Approve, Stop, RequestPublication, Typed
<1>2. call[c].view \in View /\ IsJob(call[c].view.job[j])
  BY <1>1, Viewed DEF SetsStatus, Approve, Stop, RequestPublication
<1>3. call[c].view.job[j] \in Job
  BY <1>2, JobTyped DEF View
<1>4. PICK v \in View, new \in JobStatus :
        v.job[j] \in Job /\ update_status_job(call[c].view.job[j], v, j, new, commits)
  <2>1. CASE \E new \in {"published", "rejected"} : Approve(c, j, new, commits)
    BY <1>2, <1>3, <2>1 DEF Approve, JobStatus
  <2>2. CASE Stop(c, j, commits)
    BY <1>2, <1>3, <2>2 DEF Stop, JobStatus
  <2>3. CASE RequestPublication(c, j, commits)
    <3>1. Now.job[j] \in Job
      BY <2>3, JobTyped DEF RequestPublication, Now, Typed
    <3> QED
      BY <2>3, <3>1, NowTyped DEF RequestPublication, JobStatus
  <2> QED
    BY <2>1, <2>2, <2>3 DEF SetsStatus
<1>5. OnlyStatus(j)
  BY <1>4, StatusSet DEF OnlyStatus
<1> QED
  BY <1>1, <1>5

LEMMA CampaignStopped ==
    ASSUME Typed, NEW j \in Jobs, NEW commits, StopCampaign(j, commits)
    PROVE  OnlyStatus(j)
<1>1. Now.job[j] \in Job /\ Now.job[j] = job[j]
  BY JobTyped DEF StopCampaign, Now, Typed
<1>2. update_status_job(job[j], Now, j, "stopped", commits)
  BY DEF StopCampaign
<1> QED
  BY <1>1, <1>2, StatusSet, NowTyped DEF JobStatus, OnlyStatus

LEMMA FiledTyped ==
    ASSUME Typed, NEW c \in Calls, call[c] # None, Filed(c)
    PROVE  filed' \subseteq Jobs
  BY DEF Typed, Filed, Call

LEMMA WrittenTyped ==
    ASSUME Typed, NEW c \in Calls, NEW j \in Jobs, NEW through, Written(c, j, through)
    PROVE  call' \in [Calls -> Call \cup {None}] /\ excused' \subseteq Jobs
  BY DEF Typed, Written, Call

\* A writer of j leaves the pages fresh.
LEMMA WrittenFresh ==
    ASSUME Typed, PagesFresh, NEW c \in Calls, NEW j \in Jobs, NEW through,
           Handling(c), Written(c, j, through), page' = page,
           \A i \in Jobs \ {j} : job'[i] = job[i]
    PROVE  PagesFresh'
<1> SUFFICES ASSUME NEW i \in Jobs, page'[i] # None, ~IsPageOf(page[i], i)', 
                    i \notin excused'
             PROVE  \E d \in Calls : call'[d] = [at |-> "forgetting", job |-> i]
  BY DEF PagesFresh
<1>1. excused \subseteq excused' /\ (~through => j \in excused')
  BY DEF Written
<1>2. CASE i = j
  <2>1. through
    BY <1>1, <1>2
  <2>2. call'[c] = [at |-> "forgetting", job |-> j]
    BY <2>1 DEF Written, Typed
  <2> QED
    BY <1>2, <2>2
<1>3. CASE i # j
  <2>1. page[i] # None /\ ~IsPageOf(page[i], i) /\ i \notin excused
    BY <1>1, <1>3 DEF IsPageOf
  <2>2. PICK d \in Calls : call[d] = [at |-> "forgetting", job |-> i]
    BY <2>1 DEF PagesFresh
  <2>3. d # c
    BY <2>2 DEF Handling
  <2>4. call'[d] = call[d]
    BY <2>3 DEF Written, Typed
  <2> QED
    BY <2>2, <2>4
<1> QED
  BY <1>2, <1>3

\* What leaves the lists alone leaves them together.
LEMMA FieldsKept ==
    ASSUME FieldsTogether, broken' = broken, orderly' => orderly,
           \A i \in Jobs : IsJob(job'[i]) =>
               /\ IsJob(job[i])
               /\ job'[i].row = job[i].row
               /\ job'[i].skills = job[i].skills
               /\ job'[i].locations = job[i].locations
               /\ job'[i].categories = job[i].categories
               /\ job'[i].times = job[i].times
    PROVE  FieldsTogether'
  BY DEF FieldsTogether, IsJob

LEMMA StatusKeepsFields ==
    ASSUME Typed, FieldsTogether, NEW j \in Jobs, OnlyStatus(j),
           broken' = broken, orderly' => orderly
    PROVE  FieldsTogether'
<1>1. \A i \in Jobs : IsJob(job[i]) => job[i] \in Job
  BY JobTyped DEF Typed
<1>2. \A i \in Jobs : IsJob(job'[i]) =>
        /\ IsJob(job[i])
        /\ job'[i].row = job[i].row
        /\ job'[i].skills = job[i].skills
        /\ job'[i].locations = job[i].locations
        /\ job'[i].categories = job[i].categories
        /\ job'[i].times = job[i].times
  BY <1>1 DEF OnlyStatus, Job
<1> QED
  BY <1>2, FieldsKept

-----------------------------------------------------------------------------
(* Counting. *)

\* What a job counts for in the position's counter, and in that of a category.
IsPublished(row) == IsJob(row) /\ row.status = "published"
One(row) == IF IsPublished(row) THEN 1 ELSE 0
Part(row, k) == IF IsPublished(row) THEN row.categories[k] ELSE 0

\* Published, Deleted and PublishedRows, of a table that is given.
PublishedIn(table) == {j \in Jobs : IsPublished(table[j])}
DeletedIn(table) == {j \in Jobs : table[j] = Gone}
RowsIn(table, k) == {row \in Jobs \X (1..MaxRows) : row[2] <= Part(table[row[1]], k)}

\* CountersAgree, of tables that are given.
Agree(table, p, n) ==
    /\ p - Cardinality(PublishedIn(table))
            \in -Cardinality(DeletedIn(table))..Cardinality(DeletedIn(table))
    /\ \A k \in Categories :
        IF DeletedIn(table) = {} THEN n[k] = Cardinality(RowsIn(table, k))
        ELSE n[k] >= Cardinality(RowsIn(table, k))

LEMMA PartTyped ==
    ASSUME NEW table \in JobTable, NEW j \in Jobs, NEW k \in Categories
    PROVE  Part(table[j], k) \in 0..MaxRows
<1>1. CASE IsJob(table[j])
  <2>1. table[j] \in Job
    BY <1>1, JobTyped
  <2> QED
    BY <2>1, ConstantsAssumption DEF Part, Job, Rows
<1>2. CASE ~IsJob(table[j])
  BY <1>2, ConstantsAssumption DEF Part, IsPublished
<1> QED
  BY <1>1, <1>2

LEMMA AgreeIsCounters == CountersAgree <=> (orderly => Agree(job, position, category))
<1>1. Published = PublishedIn(job) /\ Deleted = DeletedIn(job)
  BY DEF Published, PublishedIn, IsPublished, Deleted, DeletedIn
<1>2. ASSUME NEW k \in Categories PROVE PublishedRows(k) = RowsIn(job, k)
  <2>1. ASSUME NEW row \in Jobs \X (1..MaxRows)
        PROVE  row[1] \in Published /\ row[2] <= job[row[1]].categories[k]
                    <=> row[2] <= Part(job[row[1]], k)
    <3>1. row[1] \in Jobs /\ row[2] \in 1..MaxRows
      OBVIOUS
    <3>2. CASE IsPublished(job[row[1]])
      BY <3>1, <3>2, <1>1 DEF Part, PublishedIn
    <3>3. CASE ~IsPublished(job[row[1]])
      BY <3>1, <3>3, <1>1, ConstantsAssumption DEF Part, PublishedIn
    <3> QED
      BY <3>2, <3>3
  <2> QED
    BY <2>1 DEF PublishedRows, RowsIn
<1> QED
  BY <1>1, <1>2 DEF CountersAgree, Agree

LEMMA FiniteCounts ==
    ASSUME NEW table, NEW k
    PROVE  /\ IsFiniteSet(PublishedIn(table)) /\ Cardinality(PublishedIn(table)) \in Nat
           /\ IsFiniteSet(DeletedIn(table)) /\ Cardinality(DeletedIn(table)) \in Nat
           /\ IsFiniteSet(RowsIn(table, k)) /\ Cardinality(RowsIn(table, k)) \in Nat
<1>1. IsFiniteSet(Jobs) /\ MaxRows \in Nat
  BY ConstantsAssumption
<1>2. IsFiniteSet(1..MaxRows)
  BY <1>1, FS_Interval
<1>3. IsFiniteSet(Jobs \X (1..MaxRows))
  BY <1>1, <1>2, FS_Product
<1>4. /\ PublishedIn(table) \subseteq Jobs /\ DeletedIn(table) \subseteq Jobs
      /\ RowsIn(table, k) \subseteq Jobs \X (1..MaxRows)
  BY DEF PublishedIn, DeletedIn, RowsIn
<1>5. /\ IsFiniteSet(PublishedIn(table)) /\ IsFiniteSet(DeletedIn(table))
      /\ IsFiniteSet(RowsIn(table, k))
  BY <1>1, <1>3, <1>4, FS_Subset
<1> QED
  BY <1>5, FS_CardinalityType

RowsOfOthers(table, j, k) == {row \in RowsIn(table, k) : row[1] # j}

\* The rows of a table are those of one job and those of the others.
LEMMA RowsOfOne ==
    ASSUME NEW table \in JobTable, NEW j \in Jobs, NEW k \in Categories
    PROVE  /\ Cardinality(RowsOfOthers(table, j, k)) \in Nat
           /\ Cardinality(RowsIn(table, k)) = Cardinality(RowsOfOthers(table, j, k)) + Part(table[j], k)
<1> DEFINE others == RowsOfOthers(table, j, k)
           its == {j} \X (1..Part(table[j], k))
<1>1. Part(table[j], k) \in 0..MaxRows /\ MaxRows \in Nat
  BY PartTyped, ConstantsAssumption
<1>2. RowsIn(table, k) = others \cup its
  <2>1. its \subseteq RowsIn(table, k)
    BY <1>1 DEF RowsIn
  <2>2. ASSUME NEW row \in RowsIn(table, k), row[1] = j PROVE row \in its
    BY <1>1, <2>2 DEF RowsIn
  <2> QED
    BY <2>1, <2>2 DEF RowsOfOthers
<1>3. others \cap its = {}
  BY DEF RowsOfOthers
<1>4. IsFiniteSet({j}) /\ Cardinality({j}) = 1
  BY FS_Singleton
<1>5. IsFiniteSet(1..Part(table[j], k)) /\ Cardinality(1..Part(table[j], k)) = Part(table[j], k)
  BY <1>1, FS_Interval
<1>6. IsFiniteSet(its) /\ Cardinality(its) = Part(table[j], k)
  BY <1>1, <1>4, <1>5, FS_Product
<1>7. IsFiniteSet(others) /\ Cardinality(others) \in Nat
  <2>1. others \in SUBSET RowsIn(table, k)
    BY DEF RowsOfOthers
  <2> QED
    BY <2>1, FiniteCounts, FS_Subset, FS_CardinalityType
<1> HIDE DEF others, its
<1>8. Cardinality(others \cup its) = Cardinality(others) + Cardinality(its) - Cardinality(others \cap its)
  BY <1>6, <1>7, FS_Union
<1>9. Cardinality(others \cap its) = 0
  BY <1>3, FS_EmptySet
<1>10. Cardinality(RowsIn(table, k)) = Cardinality(others) + Part(table[j], k)
  BY <1>1, <1>2, <1>6, <1>7, <1>8, <1>9
<1> QED
  BY <1>7, <1>10 DEF others

LEMMA WithoutOne ==
    ASSUME NEW table, NEW j \in Jobs
    PROVE  Cardinality(PublishedIn(table) \ {j}) = Cardinality(PublishedIn(table)) - One(table[j])
<1>1. j \in PublishedIn(table) <=> IsPublished(table[j])
  BY DEF PublishedIn
<1>2. Cardinality(PublishedIn(table) \ {j}) =
        IF j \in PublishedIn(table) THEN Cardinality(PublishedIn(table)) - 1
        ELSE Cardinality(PublishedIn(table))
  BY FiniteCounts, FS_RemoveElement
<1> QED
  BY <1>1, <1>2, FiniteCounts DEF One

\* Where one job changes, the counts change by what it counts for.
LEMMA CountedAgain ==
    ASSUME NEW t \in JobTable, NEW u \in JobTable, NEW j \in Jobs,
           \A i \in Jobs \ {j} : u[i] = t[i]
    PROVE  /\ Cardinality(PublishedIn(u)) = Cardinality(PublishedIn(t)) - One(t[j]) + One(u[j])
           /\ \A k \in Categories :
                Cardinality(RowsIn(u, k)) = Cardinality(RowsIn(t, k)) - Part(t[j], k) + Part(u[j], k)
<1>1. PublishedIn(t) \ {j} = PublishedIn(u) \ {j}
  BY DEF PublishedIn
<1>2. Cardinality(PublishedIn(t) \ {j}) = Cardinality(PublishedIn(t)) - One(t[j])
  BY WithoutOne
<1>3. Cardinality(PublishedIn(u) \ {j}) = Cardinality(PublishedIn(u)) - One(u[j])
  BY WithoutOne
<1>4. One(t[j]) \in Int /\ One(u[j]) \in Int
  BY DEF One
<1>5. ASSUME NEW k \in Categories
      PROVE  Cardinality(RowsIn(u, k)) = Cardinality(RowsIn(t, k)) - Part(t[j], k) + Part(u[j], k)
  <2>1. RowsOfOthers(t, j, k) = RowsOfOthers(u, j, k)
    <3>1. ASSUME NEW row \in Jobs \X (1..MaxRows), row[1] # j
          PROVE  t[row[1]] = u[row[1]]
      BY <3>1
    <3> QED
      BY <3>1 DEF RowsIn, RowsOfOthers
  <2>2. Part(t[j], k) \in Int /\ Part(u[j], k) \in Int
    BY PartTyped
  <2>3. /\ Cardinality(RowsOfOthers(t, j, k)) \in Nat
        /\ Cardinality(RowsIn(t, k)) = Cardinality(RowsOfOthers(t, j, k)) + Part(t[j], k)
        /\ Cardinality(RowsIn(u, k)) = Cardinality(RowsOfOthers(u, j, k)) + Part(u[j], k)
    BY RowsOfOne
  <2> QED
    BY <2>1, <2>2, <2>3
<1> QED
  BY <1>1, <1>2, <1>3, <1>4, <1>5, FiniteCounts

\* The counters follow a change of a job.
LEMMA Followed ==
    ASSUME Typed, Agree(job, position, category), job' \in JobTable, NEW j \in Jobs,
           \A i \in Jobs \ {j} : job'[i] = job[i],
           job[j] # Gone, job'[j] # Gone,
           position' = position - One(job[j]) + One(job'[j]),
           \A k \in Categories : category'[k] = category[k] - Part(job[j], k) + Part(job'[j], k)
    PROVE  Agree(job', position', category')
<1>1. DeletedIn(job') = DeletedIn(job)
  BY DEF DeletedIn
<1>2. /\ Cardinality(PublishedIn(job')) = Cardinality(PublishedIn(job)) - One(job[j]) + One(job'[j])
      /\ \A k \in Categories :
            Cardinality(RowsIn(job', k)) = Cardinality(RowsIn(job, k)) - Part(job[j], k) + Part(job'[j], k)
  BY CountedAgain DEF Typed
<1>3. One(job[j]) \in Int /\ One(job'[j]) \in Int /\ position \in Int
  BY DEF One, Typed
<1>4. \A k \in Categories : /\ Part(job[j], k) \in Int /\ Part(job'[j], k) \in Int
                            /\ category[k] \in Int
  BY PartTyped DEF Typed
<1>5. position' - Cardinality(PublishedIn(job')) = position - Cardinality(PublishedIn(job))
  <2>1. Cardinality(PublishedIn(job)) \in Int
    BY FiniteCounts
  <2> QED
    BY <1>2, <1>3, <2>1
<1>6. ASSUME NEW k \in Categories
      PROVE  IF DeletedIn(job') = {} THEN category'[k] = Cardinality(RowsIn(job', k))
             ELSE category'[k] >= Cardinality(RowsIn(job', k))
  <2>1. /\ Cardinality(RowsIn(job, k)) \in Int
        /\ IF DeletedIn(job) = {} THEN category[k] = Cardinality(RowsIn(job, k))
           ELSE category[k] >= Cardinality(RowsIn(job, k))
    BY FiniteCounts DEF Agree
  <2> QED
    BY <1>1, <1>2, <1>4, <2>1
<1> QED
  BY <1>1, <1>5, <1>6 DEF Agree

\* A deletion puts the position's counter off by one at most.
LEMMA Removed ==
    ASSUME Typed, Agree(job, position, category), NEW j \in Jobs, IsJob(job[j]),
           job' = [job EXCEPT ![j] = Gone],
           position' \in {position, position - 1}, category' = category
    PROVE  Agree(job', position', category')
<1>1. /\ job' \in JobTable /\ job'[j] = Gone
      /\ \A i \in Jobs \ {j} : job'[i] = job[i]
  BY DEF Typed, JobTable
<1>2. /\ Cardinality(PublishedIn(job')) = Cardinality(PublishedIn(job)) - One(job[j]) + One(job'[j])
      /\ \A k \in Categories :
            Cardinality(RowsIn(job', k)) = Cardinality(RowsIn(job, k)) - Part(job[j], k) + Part(job'[j], k)
  BY <1>1, CountedAgain DEF Typed
<1>3. One(job'[j]) = 0 /\ One(job[j]) \in 0..1 /\ \A k \in Categories : Part(job'[j], k) = 0
  BY <1>1 DEF One, Part, IsPublished, IsJob
<1>4. DeletedIn(job') = DeletedIn(job) \cup {j} /\ j \notin DeletedIn(job)
  BY <1>1 DEF DeletedIn, IsJob
<1>5. Cardinality(DeletedIn(job')) = Cardinality(DeletedIn(job)) + 1
  BY <1>4, FiniteCounts, FS_AddElement
<1>6. position' - Cardinality(PublishedIn(job'))
            \in -Cardinality(DeletedIn(job'))..Cardinality(DeletedIn(job'))
  <2>1. position \in Int /\ Cardinality(PublishedIn(job)) \in Int /\ Cardinality(DeletedIn(job)) \in Nat
    BY FiniteCounts DEF Typed
  <2>2. position - Cardinality(PublishedIn(job))
            \in -Cardinality(DeletedIn(job))..Cardinality(DeletedIn(job))
    BY DEF Agree
  <2> QED
    BY <1>2, <1>3, <1>5, <2>1, <2>2
<1>7. ASSUME NEW k \in Categories PROVE category'[k] >= Cardinality(RowsIn(job', k))
  <2>1. category[k] \in Int /\ Cardinality(RowsIn(job, k)) \in Int
    BY FiniteCounts DEF Typed
  <2>2. category[k] >= Cardinality(RowsIn(job, k))
    BY <2>1 DEF Agree
  <2>3. Part(job[j], k) \in Int /\ Part(job[j], k) >= 0
    BY PartTyped, ConstantsAssumption DEF Typed
  <2>4. Cardinality(RowsIn(job', k)) = Cardinality(RowsIn(job, k)) - Part(job[j], k) + 0
    BY <1>2, <1>3
  <2> QED
    BY <2>1, <2>2, <2>3, <2>4
<1> QED
  BY <1>4, <1>6, <1>7 DEF Agree

\* A status that is counted from the tables as they are, and written.
LEMMA CountedStatus ==
    ASSUME Typed, Agree(job, position, category), NEW j \in Jobs, IsJob(job[j]),
           NEW new \in JobStatus, update_status_job(job[j], Now, j, new, 2)
    PROVE  Agree(job', position', category')
<1>1. job[j] \in Job
  BY JobTyped DEF Typed
<1>2. /\ job'[j] = [job[j] EXCEPT !.status = new]
      /\ \A i \in Jobs \ {j} : job'[i] = job[i]
  <2>1. CASE job[j].status = new
    <3>1. job' = job
      BY <2>1 DEF update_status_job
    <3>2. [job[j] EXCEPT !.status = new] = job[j]
      BY <1>1, <2>1 DEF Job
    <3> QED
      BY <3>1, <3>2
  <2>2. CASE job[j].status # new
    <3>1. job' = [job EXCEPT ![j].status = new]
      BY <2>2 DEF update_status_job
    <3> QED
      BY <3>1 DEF Typed, JobTable
  <2> QED
    BY <2>1, <2>2
<1>3. /\ job'[j] \in Job /\ job'[j].status = new /\ job'[j].categories = job[j].categories
  BY <1>1, <1>2 DEF Job
<1>4. job' \in JobTable
  BY StatusSet, NowTyped, <1>1 DEF Now
<1>5. IsJob(job'[j])
  BY <1>3, GoneAssumption DEF IsJob
<1> DEFINE by == IF new = "published" /\ job[j].status # "published" THEN 1
                 ELSE IF job[j].status = "published" /\ new # "published" THEN -1 ELSE 0
           rows == job[j].categories
<1>6. /\ position' = IF by = 0 THEN position ELSE position + by
      /\ category' = [k \in Categories |->
            IF by = 0 \/ rows[k] = 0 THEN category[k] ELSE category[k] + by * rows[k]]
  BY DEF update_status_job, ReceiveAfterUpdate, Now
<1>7. by = One(job'[j]) - One(job[j])
  BY <1>3, <1>5 DEF One, IsPublished
<1>8. ASSUME NEW k \in Categories
      PROVE  category'[k] = category[k] - Part(job[j], k) + Part(job'[j], k)
  <2>1. rows[k] \in Int /\ category[k] \in Int
    BY <1>1, ConstantsAssumption DEF Typed, Job, Rows
  <2>2. by \in {-1, 0, 1}
    OBVIOUS
  <2>3. category'[k] = category[k] + by * rows[k]
    BY <1>6, <2>1, <2>2
  <2>4. by * rows[k] = Part(job'[j], k) - Part(job[j], k)
    BY <1>3, <1>5, <2>1 DEF Part, IsPublished
  <2>5. Part(job'[j], k) \in Int /\ Part(job[j], k) \in Int
    BY <1>4, PartTyped DEF Typed
  <2> QED
    BY <2>1, <2>3, <2>4, <2>5
<1>9. position' = position - One(job[j]) + One(job'[j])
  BY <1>6, <1>7 DEF Typed, One
<1>10. job[j] # Gone /\ job'[j] # Gone
  BY <1>5 DEF IsJob
<1> QED
  BY <1>2, <1>4, <1>8, <1>9, <1>10, Followed

-----------------------------------------------------------------------------
(* Every step preserves the invariants. *)

\* Types: one step per action.
LEMMA TypedStep ==
    ASSUME Typed, [Next]_vars
    PROVE  Typed'
<1>1. ASSUME NEW c \in Calls, Authenticate(c) PROVE Typed'
  BY <1>1, NowTyped DEF Authenticate, Typed, counters, Call
<1>2. ASSUME NEW c \in Calls, Refused(c) PROVE Typed'
  BY <1>2 DEF Refused, Typed, counters
<1>3. ASSUME NEW c \in Calls, cache_job_info(c) PROVE Typed'
  <2>1. call[c].job \in Jobs /\ call[c].page \in JobItemResponse
    BY <1>3 DEF cache_job_info, Typed, Call
  <2>2. filed' \subseteq Jobs
    BY <1>3, FiledTyped DEF cache_job_info
  <2> QED
    BY <1>3, <2>1, <2>2 DEF cache_job_info, Typed, counters
<1>4. ASSUME NEW c \in Calls, delete_job_info(c) PROVE Typed'
  BY <1>4 DEF delete_job_info, Typed, counters
<1>5. ASSUME NEW c \in Calls, CacheFails(c) PROVE Typed'
  <2>1. call[c].job \in Jobs
    BY <1>5 DEF CacheFails, Typed, Call
  <2>2. filed' \subseteq Jobs
    BY <1>5, FiledTyped DEF CacheFails
  <2> QED
    BY <1>5, <2>1, <2>2 DEF CacheFails, Typed, counters
<1>6. ASSUME NEW c \in Calls, NEW j \in Jobs, Look(c, j) PROVE Typed'
  <2>1. get_info(call[c].view.job[j]) \in JobItemResponse
    BY <1>6, Viewed, JobTyped, PageTyped DEF Look, View
  <2> DEFINE p == get_info(call[c].view.job[j])
  <2> HIDE DEF p
  <2>2. [at |-> "filling", job |-> j, creates |-> FALSE, page |-> p] \in Call
    BY <2>1 DEF Call, p
  <2>3. call' \in [Calls -> Call \cup {None}]
    BY <1>6, <2>2 DEF Look, Typed, p
  <2> QED
    BY <1>6, <2>3 DEF Look, Typed, counters
<1>7. ASSUME NEW c \in Calls, NEW j \in Jobs, UpdatePublished(c, j) PROVE Typed'
  BY <1>7, WrittenTyped DEF UpdatePublished, Typed, counters
<1>8. ASSUME NEW c \in Calls, NEW j \in Jobs, Delete(c, j) PROVE Typed'
  <2>1. call[c].view \in View
    BY <1>8, Viewed DEF Delete
  <2>2. job' \in JobTable
    BY <1>8 DEF Delete, Typed, JobTable
  <2>3. position' \in Int
    BY <1>8, <2>1 DEF Delete, View
  <2> QED
    BY <1>8, <2>2, <2>3, WrittenTyped DEF Delete, Typed
<1>9. ASSUME NEW c \in Calls, NEW j \in Jobs, NEW f \in Forms, NEW commits \in 1..5, Create(c, j, f, commits)
      PROVE  Typed'
  <2>1. create_fields(f, commits) \in Job
    BY <1>9, CreatedTyped
  <2>2. job' \in JobTable /\ job'[j] = create_fields(f, commits)
    BY <1>9, <2>1 DEF Create, Typed, JobTable
  <2>3. get_info(job'[j]) \in JobItemResponse
    BY <2>1, <2>2, PageTyped
  <2>4. [at |-> "filling", job |-> j, creates |-> TRUE, page |-> get_info(job'[j])] \in Call
    BY <2>3 DEF Call
  <2>5. call' \in [Calls -> Call \cup {None}] /\ broken' \subseteq Jobs
    BY <1>9, <2>4 DEF Create, Typed
  <2> QED
    BY <1>9, <2>2, <2>5 DEF Create, Typed, counters
<1>10. ASSUME NEW c \in Calls, NEW j \in Jobs, NEW f \in Forms, NEW commits \in 1..6, Update(c, j, f, commits)
       PROVE  Typed'
  <2>1. call[c].view \in View /\ IsJob(call[c].view.job[j]) /\ IsJob(job[j])
    BY <1>10, Viewed DEF Update
  <2>2. call[c].view.job[j] \in Job /\ job[j] \in Job
    BY <2>1, JobTyped DEF View, Typed
  <2> DEFINE u == Updated(call[c].view.job[j], job[j], f, commits)
  <2>3. job' = [job EXCEPT ![j] = u]
    BY <1>10 DEF Update
  <2> HIDE DEF u
  <2>4. job'[j] = u
    BY <2>3 DEF Typed, JobTable
  <2>5. u.categories \in Rows
    BY <1>10, <2>4 DEF Update
  <2>6. u \in Job
    BY <2>2, <2>5, UpdatedTyped DEF u
  <2>7. job' \in JobTable
    BY <2>3, <2>6 DEF Typed, JobTable
  <2>8. /\ broken' \subseteq Jobs /\ filed' \subseteq Jobs /\ orderly' \in BOOLEAN
        /\ UNCHANGED <<counters, page>>
    BY <1>10 DEF Update, Typed
  <2>9. PICK through : Written(c, j, through)
    BY <1>10 DEF Update
  <2>10. call' \in [Calls -> Call \cup {None}] /\ excused' \subseteq Jobs
    BY <2>9, WrittenTyped
  <2> QED
    BY <2>7, <2>8, <2>10 DEF Typed, counters
<1>11. ASSUME NEW c \in Calls, NEW j \in Jobs, NEW commits \in 1..2, SetsStatus(c, j, commits)
       PROVE  Typed'
  BY <1>11, StatusHandled, WrittenTyped DEF OnlyStatus, Typed
<1>12. ASSUME NEW j \in Jobs, Expire(j) PROVE Typed'
  BY <1>12 DEF Expire, Typed, counters
<1>13. ASSUME NEW j \in Jobs, DeleteCampaign(j) PROVE Typed'
  BY <1>13 DEF DeleteCampaign, Typed, counters, JobTable
<1>14. ASSUME NEW j \in Jobs, NEW commits \in 1..2, StopCampaign(j, commits) PROVE Typed'
  BY <1>14, CampaignStopped DEF OnlyStatus, StopCampaign, Typed
<1>15. CASE UNCHANGED vars
  BY <1>15 DEF Typed, vars, counters
<1> QED
  BY <1>1, <1>2, <1>3, <1>4, <1>5, <1>6, <1>7, <1>8, <1>9, <1>10, <1>11, <1>12, <1>13, <1>14, <1>15 DEF Next, SetsStatus

\* The lists stay together.
LEMMA FieldsStep ==
    ASSUME Typed, FieldsTogether, [Next]_vars
    PROVE  FieldsTogether'
<1>1. ASSUME NEW c \in Calls, Authenticate(c) PROVE FieldsTogether'
  BY <1>1, FieldsKept DEF Authenticate
<1>2. ASSUME NEW c \in Calls, Refused(c) PROVE FieldsTogether'
  BY <1>2, FieldsKept DEF Refused
<1>3. ASSUME NEW c \in Calls, cache_job_info(c) PROVE FieldsTogether'
  BY <1>3, FieldsKept DEF cache_job_info
<1>4. ASSUME NEW c \in Calls, delete_job_info(c) PROVE FieldsTogether'
  BY <1>4, FieldsKept DEF delete_job_info
<1>5. ASSUME NEW c \in Calls, CacheFails(c) PROVE FieldsTogether'
  BY <1>5, FieldsKept DEF CacheFails
<1>6. ASSUME NEW c \in Calls, NEW j \in Jobs, Look(c, j) PROVE FieldsTogether'
  BY <1>6, FieldsKept DEF Look
<1>7. ASSUME NEW c \in Calls, NEW j \in Jobs, UpdatePublished(c, j) PROVE FieldsTogether'
  BY <1>7, FieldsKept DEF UpdatePublished
<1>8. ASSUME NEW c \in Calls, NEW j \in Jobs, Delete(c, j) PROVE FieldsTogether'
  <2>1. \A i \in Jobs : IsJob(job'[i]) => job'[i] = job[i]
    BY <1>8 DEF Delete, Typed, JobTable, IsJob
  <2> QED
    BY <1>8, <2>1, FieldsKept DEF Delete
<1>9. ASSUME NEW c \in Calls, NEW j \in Jobs, NEW f \in Forms, NEW commits \in 1..5, Create(c, j, f, commits)
      PROVE  FieldsTogether'
  <2> DEFINE row == create_fields(f, commits)
  <2>1. job' = [job EXCEPT ![j] = row] /\ orderly' = orderly
    BY <1>9 DEF Create
  <2>2. \/ commits = 5 /\ broken' = broken
        \/ broken' = broken \cup {j}
    BY <1>9 DEF Create
  <2>3. commits = 5 => /\ row.row = f /\ row.locations = f /\ row.times = f
                       /\ row.skills = SkillsOf[f] /\ NamedBy(row.categories) = CategoriesOf[f]
    BY <1>9, ConstantsAssumption DEF create_fields, NamedBy
  <2> HIDE DEF row
  <2>4. SUFFICES ASSUME NEW i \in Jobs \ broken', IsJob(job'[i])
                 PROVE  Together(job'[i], orderly')
    BY FieldsOneByOne
  <2>5. CASE i = j
    <3>1. commits = 5 /\ job'[i] = row
      BY <2>1, <2>2, <2>4, <2>5 DEF Typed, JobTable
    <3> QED
      BY <2>3, <3>1, ConstantsAssumption DEF Together
  <2>6. CASE i # j
    <3>1. job'[i] = job[i] /\ i \notin broken
      BY <2>1, <2>2, <2>6, <2>4 DEF Typed, JobTable
    <3> QED
      BY <2>1, <2>4, <3>1, FieldsOneByOne
  <2> QED
    BY <2>5, <2>6
<1>10. ASSUME NEW c \in Calls, NEW j \in Jobs, NEW f \in Forms, NEW commits \in 1..6, Update(c, j, f, commits)
       PROVE  FieldsTogether'
  <2>1. call[c].view \in View /\ IsJob(call[c].view.job[j]) /\ IsJob(job[j])
    BY <1>10, Viewed DEF Update
  <2>2. call[c].view.job[j] \in Job /\ job[j] \in Job
    BY <2>1, JobTyped DEF View, Typed
  <2> DEFINE seen == call[c].view.job[j]
             u == Updated(seen, job[j], f, commits)
  <2>3. /\ job' = [job EXCEPT ![j] = u]
        /\ orderly' = (orderly /\ call[c].view = Now)
        /\ SkillsKnown(job[j], f) \/ commits = 1
        /\ broken' = IF commits < 6 THEN broken \cup {j} ELSE broken \ {j}
    BY <1>10 DEF Update
  <2>4. ASSUME commits = 6
        PROVE  /\ u.locations = f /\ u.times = f
               /\ u.categories = UpdateCategories(job[j].categories, f)
               /\ u.skills = job[j].skills
               /\ seen = job[j] => u.row = f
    BY <2>2, <2>4 DEF Updated, Replaced, Job
  <2> HIDE DEF u
  <2>5. SUFFICES ASSUME NEW i \in Jobs \ broken', IsJob(job'[i])
                 PROVE  Together(job'[i], orderly')
    BY FieldsOneByOne
  <2>6. CASE i = j
    <3>1. commits = 6 /\ job'[i] = u
      BY <1>10, <2>3, <2>5, <2>6 DEF Typed, JobTable
    <3>2. SkillsOf[f] \subseteq job[j].skills
      BY <2>3, <3>1 DEF SkillsKnown
    <3>3. NamedBy(u.categories) = CategoriesOf[f]
      BY <2>2, <2>4, <3>1, UpdatedCategories DEF Job
    <3>4. ASSUME orderly' PROVE seen = job[j]
      <4>1. call[c].view = Now
        BY <2>3, <3>4
      <4> QED
        BY <4>1 DEF Now
    <3> QED
      BY <2>4, <3>1, <3>2, <3>3, <3>4, ConstantsAssumption DEF Together
  <2>7. CASE i # j
    <3>1. job'[i] = job[i] /\ i \notin broken /\ (orderly' => orderly)
      BY <2>3, <2>5, <2>7 DEF Typed, JobTable
    <3> QED
      BY <2>5, <3>1, FieldsOneByOne DEF Together
  <2> QED
    BY <2>6, <2>7
<1>11. ASSUME NEW c \in Calls, NEW j \in Jobs, NEW commits \in 1..2, SetsStatus(c, j, commits)
       PROVE  FieldsTogether'
  BY <1>11, StatusHandled, StatusKeepsFields
<1>12. ASSUME NEW j \in Jobs, Expire(j) PROVE FieldsTogether'
  BY <1>12, FieldsKept DEF Expire
<1>13. ASSUME NEW j \in Jobs, DeleteCampaign(j) PROVE FieldsTogether'
  <2>1. \A i \in Jobs : IsJob(job'[i]) => job'[i] = job[i]
    BY <1>13 DEF DeleteCampaign, Typed, JobTable, IsJob
  <2> QED
    BY <1>13, <2>1, FieldsKept DEF DeleteCampaign
<1>14. ASSUME NEW j \in Jobs, NEW commits \in 1..2, StopCampaign(j, commits)
       PROVE  FieldsTogether'
  BY <1>14, CampaignStopped, StatusKeepsFields DEF StopCampaign
<1>15. CASE UNCHANGED vars
  BY <1>15, FieldsKept DEF vars, counters
<1> QED
  BY <1>1, <1>2, <1>3, <1>4, <1>5, <1>6, <1>7, <1>8, <1>9, <1>10, <1>11, <1>12, <1>13, <1>14, <1>15 DEF Next, SetsStatus

\* Old pages keep their reason.
LEMMA PagesStep ==
    ASSUME Typed, PagesFresh, [Next]_vars
    PROVE  PagesFresh'
<1>1. ASSUME NEW c \in Calls, Authenticate(c) PROVE PagesFresh'
  BY <1>1, ConstantsAssumption DEF Authenticate, PagesFresh, IsPageOf, Typed
<1>2. ASSUME NEW c \in Calls, Refused(c) PROVE PagesFresh'
  BY <1>2 DEF Refused, Handling, PagesFresh, IsPageOf, Typed
<1>3. ASSUME NEW c \in Calls, cache_job_info(c) PROVE PagesFresh'
  BY <1>3 DEF cache_job_info, PagesFresh, IsPageOf, Typed
<1>4. ASSUME NEW c \in Calls, delete_job_info(c) PROVE PagesFresh'
  BY <1>4 DEF delete_job_info, PagesFresh, IsPageOf, Typed
<1>5. ASSUME NEW c \in Calls, CacheFails(c) PROVE PagesFresh'
  BY <1>5 DEF CacheFails, PagesFresh, IsPageOf, Typed
<1>6. ASSUME NEW c \in Calls, NEW j \in Jobs, Look(c, j) PROVE PagesFresh'
  BY <1>6 DEF Look, Handling, PagesFresh, IsPageOf, Typed
<1>7. ASSUME NEW c \in Calls, NEW j \in Jobs, UpdatePublished(c, j) PROVE PagesFresh'
  BY <1>7, WrittenFresh DEF UpdatePublished
<1>8. ASSUME NEW c \in Calls, NEW j \in Jobs, Delete(c, j) PROVE PagesFresh'
  <2>1. \A i \in Jobs \ {j} : job'[i] = job[i]
    BY <1>8 DEF Delete, Typed, JobTable
  <2> QED
    BY <1>8, <2>1, WrittenFresh DEF Delete
<1>9. ASSUME NEW c \in Calls, NEW j \in Jobs, NEW f \in Forms, NEW commits \in 1..5, Create(c, j, f, commits)
      PROVE  PagesFresh'
  <2>1. \A i \in Jobs \ {j} : job'[i] = job[i]
    BY <1>9 DEF Create, Typed, JobTable
  <2>2. ~IsPageOf(page[j], j)
    BY <1>9 DEF Create, IsPageOf, IsJob
  <2>3. \A d \in Calls \ {c} : call'[d] = call[d]
    BY <1>9 DEF Create, Typed
  <2> QED
    BY <1>9, <2>1, <2>2, <2>3 DEF Create, Handling, PagesFresh, IsPageOf
<1>10. ASSUME NEW c \in Calls, NEW j \in Jobs, NEW f \in Forms, NEW commits \in 1..6, Update(c, j, f, commits)
       PROVE  PagesFresh'
  <2>1. \A i \in Jobs \ {j} : job'[i] = job[i]
    BY <1>10 DEF Update, Typed, JobTable
  <2>2. Handling(c) /\ page' = page
    BY <1>10 DEF Update
  <2>3. PICK through : Written(c, j, through)
    BY <1>10 DEF Update
  <2> QED
    BY <2>1, <2>2, <2>3, WrittenFresh
<1>11. ASSUME NEW c \in Calls, NEW j \in Jobs, NEW commits \in 1..2, SetsStatus(c, j, commits)
       PROVE  PagesFresh'
  BY <1>11, StatusHandled, WrittenFresh DEF OnlyStatus
<1>12. ASSUME NEW j \in Jobs, Expire(j) PROVE PagesFresh'
  BY <1>12 DEF Expire, PagesFresh, IsPageOf, Typed
<1>13. ASSUME NEW j \in Jobs, DeleteCampaign(j) PROVE PagesFresh'
  <2>1. \A i \in Jobs \ {j} : job'[i] = job[i]
    BY <1>13 DEF DeleteCampaign, Typed, JobTable
  <2> QED
    BY <1>13, <2>1 DEF DeleteCampaign, PagesFresh, IsPageOf
<1>14. ASSUME NEW j \in Jobs, NEW commits \in 1..2, StopCampaign(j, commits)
       PROVE  PagesFresh'
  BY <1>14, CampaignStopped DEF OnlyStatus, StopCampaign, PagesFresh, IsPageOf
<1>15. CASE UNCHANGED vars
  BY <1>15 DEF vars, counters, PagesFresh, IsPageOf
<1> QED
  BY <1>1, <1>2, <1>3, <1>4, <1>5, <1>6, <1>7, <1>8, <1>9, <1>10, <1>11, <1>12, <1>13, <1>14, <1>15 DEF Next, SetsStatus

\* The counters stay those of the published jobs.
LEMMA CountersStep ==
    ASSUME Typed, CountersAgree, [Next]_vars
    PROVE  CountersAgree'
<1> SUFFICES ASSUME orderly' PROVE Agree(job', position', category')
  <2>1. (CountersAgree <=> (orderly => Agree(job, position, category)))'
    BY AgreeIsCounters, PTL
  <2> QED
    BY <2>1
<1>a. orderly => Agree(job, position, category)
  BY AgreeIsCounters
<1>b. ASSUME UNCHANGED <<job, counters, orderly>> PROVE Agree(job', position', category')
  BY <1>a, <1>b DEF counters
<1>1. ASSUME NEW c \in Calls, Authenticate(c) PROVE Agree(job', position', category')
  BY <1>1, <1>b DEF Authenticate
<1>2. ASSUME NEW c \in Calls, Refused(c) PROVE Agree(job', position', category')
  BY <1>2, <1>b DEF Refused
<1>3. ASSUME NEW c \in Calls, cache_job_info(c) PROVE Agree(job', position', category')
  BY <1>3, <1>b DEF cache_job_info
<1>4. ASSUME NEW c \in Calls, delete_job_info(c) PROVE Agree(job', position', category')
  BY <1>4, <1>b DEF delete_job_info
<1>5. ASSUME NEW c \in Calls, CacheFails(c) PROVE Agree(job', position', category')
  BY <1>5, <1>b DEF CacheFails
<1>6. ASSUME NEW c \in Calls, NEW j \in Jobs, Look(c, j) PROVE Agree(job', position', category')
  BY <1>6, <1>b DEF Look
<1>7. ASSUME NEW c \in Calls, NEW j \in Jobs, UpdatePublished(c, j)
      PROVE  Agree(job', position', category')
  BY <1>7, <1>b DEF UpdatePublished
<1>8. ASSUME NEW c \in Calls, NEW j \in Jobs, Delete(c, j) PROVE Agree(job', position', category')
  <2>1. orderly /\ call[c].view = Now
    BY <1>8 DEF Delete
  <2>2. IsJob(job[j]) /\ position' = position - 1
    BY <1>8, <2>1 DEF Delete, Now
  <2> QED
    BY <1>8, <1>a, <2>1, <2>2, Removed DEF Delete
<1>9. ASSUME NEW c \in Calls, NEW j \in Jobs, NEW f \in Forms, NEW commits \in 1..5, Create(c, j, f, commits)
      PROVE  Agree(job', position', category')
  <2>1. /\ job[j] = None /\ job' = [job EXCEPT ![j] = create_fields(f, commits)]
        /\ orderly /\ position' = position /\ category' = category
    BY <1>9 DEF Create, counters
  <2>2. create_fields(f, commits) \in Job /\ create_fields(f, commits).status = "pending"
    BY CreatedTyped DEF create_fields
  <2>3. /\ job' \in JobTable /\ job'[j].status = "pending"
        /\ \A i \in Jobs \ {j} : job'[i] = job[i]
    BY <2>1, <2>2 DEF Typed, JobTable
  <2>4. /\ One(job[j]) = 0 /\ One(job'[j]) = 0
        /\ \A k \in Categories : Part(job[j], k) = 0 /\ Part(job'[j], k) = 0
    BY <2>1, <2>3 DEF One, Part, IsPublished, IsJob
  <2>5. job[j] # Gone /\ job'[j] # Gone
    BY <2>1, <2>2, GoneAssumption DEF Typed, JobTable
  <2>6. /\ position' = position - One(job[j]) + One(job'[j])
        /\ \A k \in Categories : category'[k] = category[k] - Part(job[j], k) + Part(job'[j], k)
    BY <2>1, <2>4 DEF Typed
  <2> QED
    BY <1>a, <2>1, <2>3, <2>5, <2>6, Followed
<1>10. ASSUME NEW c \in Calls, NEW j \in Jobs, NEW f \in Forms, NEW commits \in 1..6, Update(c, j, f, commits)
       PROVE  Agree(job', position', category')
  <2>1. orderly /\ call[c].view = Now /\ position' = position /\ category' = category
    BY <1>10 DEF Update, counters
  <2>2. /\ IsJob(job[j]) /\ job[j].status # "published"
        /\ job' = [job EXCEPT ![j] = Updated(job[j], job[j], f, commits)]
    BY <1>10, <2>1 DEF Update, Now
  <2>3. job[j] \in Job
    BY <2>2, JobTyped DEF Typed
  <2>4. job' \in JobTable
    <3>1. Typed'
      BY TypedStep
    <3> QED
      BY <3>1 DEF Typed
  <2>5. job'[j].status # "published"
    BY <2>2, <2>3 DEF Typed, JobTable, Updated, Job
  <2>6. /\ One(job[j]) = 0 /\ One(job'[j]) = 0
        /\ \A k \in Categories : Part(job[j], k) = 0 /\ Part(job'[j], k) = 0
    BY <2>2, <2>5 DEF One, Part, IsPublished
  <2>7. job[j] # Gone /\ job'[j] # Gone
    <3>1. Updated(job[j], job[j], f, commits) \in Job
      <4>1. job'[j] = Updated(job[j], job[j], f, commits)
        BY <2>2 DEF Typed, JobTable
      <4>2. job'[j].categories \in Rows
        BY <1>10 DEF Update
      <4> QED
        BY <2>3, <4>1, <4>2, UpdatedTyped
    <3> QED
      BY <2>2, <2>3, <3>1, GoneAssumption DEF Typed, JobTable
  <2>8. \A i \in Jobs \ {j} : job'[i] = job[i]
    BY <2>2 DEF Typed, JobTable
  <2>9. /\ position' = position - One(job[j]) + One(job'[j])
        /\ \A k \in Categories : category'[k] = category[k] - Part(job[j], k) + Part(job'[j], k)
    BY <2>1, <2>6 DEF Typed
  <2> QED
    BY <1>a, <2>1, <2>4, <2>7, <2>8, <2>9, Followed
<1>11. ASSUME NEW c \in Calls, NEW j \in Jobs, NEW commits \in 1..2, SetsStatus(c, j, commits)
       PROVE  Agree(job', position', category')
  <2>1. orderly /\ call[c].view = Now /\ commits = 2
    BY <1>11 DEF SetsStatus, Approve, Stop, RequestPublication
  <2>2. Now.job[j] = job[j]
    BY DEF Now
  <2>3. IsJob(job[j]) /\ \E new \in JobStatus : update_status_job(job[j], Now, j, new, 2)
    BY <1>11, <2>1, <2>2 DEF SetsStatus, Approve, Stop, RequestPublication, JobStatus
  <2> QED
    BY <1>a, <2>1, <2>3, CountedStatus
<1>12. ASSUME NEW j \in Jobs, Expire(j) PROVE Agree(job', position', category')
  BY <1>12, <1>b DEF Expire
<1>13. ASSUME NEW j \in Jobs, DeleteCampaign(j) PROVE Agree(job', position', category')
  BY <1>13, <1>a, Removed DEF DeleteCampaign, counters
<1>14. ASSUME NEW j \in Jobs, NEW commits \in 1..2, StopCampaign(j, commits)
       PROVE  Agree(job', position', category')
  BY <1>14, <1>a, CountedStatus DEF StopCampaign, JobStatus
<1>15. CASE UNCHANGED vars
  BY <1>15, <1>b DEF vars
<1> QED
  BY <1>1, <1>2, <1>3, <1>4, <1>5, <1>6, <1>7, <1>8, <1>9, <1>10, <1>11, <1>12, <1>13, <1>14, <1>15 DEF Next, SetsStatus

-----------------------------------------------------------------------------
(* The theorems. *)

LEMMA InitTyped == Init => Typed
  BY DEF Init, Typed, JobTable

\* TypeOK is an invariant: what a handler reads in an old view and writes over newer
\* rows never leaves the types, and counters stay numbers though they may be negative.
THEOREM PageTypes == Spec => []TypeOK
<1>1. Typed /\ [Next]_vars => Typed'
  BY TypedStep
<1>2. Spec => []Typed
  BY <1>1, InitTyped, PTL DEF Spec
<1> QED
  BY <1>2, TypedIsTypeOK, PTL

\* The lists of a job belong to one form, for any number of overlapping updates,
\* if no handler ended half way (job_helper.update_fields).
THEOREM ListsOfOneForm == Spec => []FieldsTogether
<1>1. Init => FieldsTogether
  BY DEF Init, FieldsTogether, IsJob
<1>2. Typed /\ FieldsTogether /\ [Next]_vars => Typed' /\ FieldsTogether'
  BY TypedStep, FieldsStep
<1> QED
  BY <1>1, <1>2, InitTyped, PTL DEF Spec

\* An old page is about to be forgotten or has one of the reasons named, for any
\* number of jobs, readers and writers (job_helper.get_info, delete_job_info).
THEOREM OldPagesExplained == Spec => []PagesFresh
<1>1. Init => PagesFresh
  BY DEF Init, PagesFresh
<1>2. Typed /\ PagesFresh /\ [Next]_vars => Typed' /\ PagesFresh'
  BY TypedStep, PagesStep
<1> QED
  BY <1>1, <1>2, InitTyped, PTL DEF Spec

\* For any number of jobs of a position, counters that the listeners read, add to and
\* write back are those of the published jobs as long as every writer goes by the
\* tables as they are and ends well, and are off only by what deletions leave
\* (model/job.py, receive_after_update and receive_before_delete).
THEOREM CountersHold == Spec => []CountersAgree
<1>1. Init => CountersAgree
  <2>1. SUFFICES ASSUME Init PROVE Agree(job, position, category)
    BY InitTyped, AgreeIsCounters
  <2>2. PublishedIn(job) = {} /\ DeletedIn(job) = {}
    BY <2>1, GoneAssumption DEF Init, PublishedIn, IsPublished, IsJob, DeletedIn
  <2>3. \A k \in Categories : RowsIn(job, k) = {}
    BY <2>1, ConstantsAssumption DEF Init, RowsIn, Part, IsPublished, IsJob
  <2>4. position = 0 /\ \A k \in Categories : category[k] = 0
    BY <2>1 DEF Init
  <2>5. Cardinality({}) = 0
    BY FS_EmptySet
  <2>6. position - Cardinality(PublishedIn(job))
            \in -Cardinality(DeletedIn(job))..Cardinality(DeletedIn(job))
    BY <2>2, <2>4, <2>5
  <2> QED
    BY <2>2, <2>3, <2>4, <2>5, <2>6 DEF Agree
<1>2. Typed /\ CountersAgree /\ [Next]_vars => Typed' /\ CountersAgree'
  BY TypedStep, CountersStep
<1> QED
  BY <1>1, <1>2, InitTyped, PTL DEF Spec
=============================================================================
