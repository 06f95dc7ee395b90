------------------------- MODULE ApplicationsProofs -------------------------
(***************************************************************************)
(* Proofs about Applications, for any candidates, campaigns, calls and     *)
(* rows, with and without handlers that die.                               *)
(***************************************************************************)
EXTENDS Applications, FiniteSetTheorems, TLAPS

\* TypeOK, variable by variable.
Typed ==
    /\ campaign \in CampaignTable
    /\ countApply \in CountColumn
    /\ rows \in RowTable
    /\ nextId \in 1..(MaxRows + 1)
    /\ \A r \in RowIds : r >= nextId => rows[r] = None
    /\ countJobApply \in [Users -> Nat]
    /\ call \in [Calls -> Call \cup {None}]
    /\ accepted \in [Users \X Campaigns -> Nat]
    /\ answered \subseteq RowIds
    /\ together \subseteq Users \cup {Business}
    /\ died \subseteq Users

\* A view v is behind the tables t, whose next id is next, and not beside them: what it
\* shows was written before, and is still there as far as the campaign is; a row never
\* changes its owner, counts three at most, and a campaign counts no more than it has.
BehindTables(v, t, next) ==
    /\ \A r \in RowIds : v.rows[r] # None =>
        /\ r < next
        /\ v.rows[r].count <= 3
        /\ t.rows[r] # None => /\ t.rows[r].user = v.rows[r].user
                               /\ t.rows[r].campaign = v.rows[r].campaign
        /\ t.campaign[v.rows[r].campaign] # "deleted" => t.rows[r] # None
    /\ \A k \in Campaigns : v.campaign[k] # "deleted" =>
        v.countApply[k] <= Cardinality(RowsOfCampaign(v, k))
    /\ \A k \in Campaigns : t.campaign[k] # "deleted" => v.campaign[k] # "deleted"

Behind ==
    /\ BehindTables(Now, Now, nextId)
    /\ \A c \in Calls : call[c] # None => BehindTables(call[c].view, Now, nextId)

\* The call of somebody not in together is alone, and its view shows the tables as
\* they are.
Alone ==
    \A c \in Calls : call[c] # None /\ call[c].who \notin together =>
        /\ \A d \in Calls : call[d] # None => d = c
        /\ call[c].view.rows = rows
        /\ call[c].view.countApply = countApply

Own(u, k) == {r \in RowIds : rows[r] # None /\ rows[r].user = u /\ rows[r].campaign = k}

\* What was accepted from a candidate not in together is what its one row counts.
Applied ==
    \A u \in Users \ together, k \in Campaigns :
        /\ \A r, s \in Own(u, k) : r = s
        /\ \A r \in Own(u, k) : rows[r].count = accepted[<<u, k>>]
        /\ campaign[k] # "deleted" /\ Own(u, k) = {} => accepted[<<u, k>>] = 0
        /\ accepted[<<u, k>>] <= 3

LEMMA TypedIsTypeOK == Typed <=> TypeOK
  BY DEF Typed, TypeOK, Now, View

LEMMA NowTyped == ASSUME Typed PROVE Now \in View
  BY DEF Typed, Now, View

LEMMA CallTyped ==
    ASSUME Typed, NEW c \in Calls, call[c] # None
    PROVE  /\ call[c] \in Call
           /\ call[c].view \in View
           /\ call[c].view.rows \in RowTable
           /\ call[c].view.campaign \in CampaignTable
           /\ call[c].view.countApply \in CountColumn
  BY DEF Typed, Call, View

\* A row that is found is one of the candidate and the campaign, as the view shows it.
LEMMA Found ==
    ASSUME NEW v, NEW u, NEW k, NEW r \in get_by_user_id_and_campaign_id(v, u, k)
    PROVE  r \in RowIds /\ v.rows[r] # None /\ v.rows[r].user = u /\ v.rows[r].campaign = k
  BY DEF get_by_user_id_and_campaign_id, RowsOfUser, RowsOfCampaign

\* An UPDATE of count and status leaves the rest of the table.
Rewrite(table, r, n, s) == [table EXCEPT ![r].count = n, ![r].status = s]

LEMMA Rewritten ==
    ASSUME NEW table \in RowTable, NEW r \in RowIds, table[r] # None,
           NEW n \in Nat, NEW s \in CVApplicationStatus
    PROVE  /\ Rewrite(table, r, n, s) \in RowTable
           /\ Rewrite(table, r, n, s)[r] \in CVApplication
           /\ Rewrite(table, r, n, s)[r].user = table[r].user
           /\ Rewrite(table, r, n, s)[r].campaign = table[r].campaign
           /\ Rewrite(table, r, n, s)[r].count = n
           /\ Rewrite(table, r, n, s)[r].status = s
           /\ \A i \in RowIds \ {r} : Rewrite(table, r, n, s)[i] = table[i]
  BY DEF RowTable, CVApplication, Rewrite

\* What applying again does to the table.
LEMMA AgainWrites ==
    ASSUME Typed, NEW c \in Calls, NEW u \in Users, NEW k \in Campaigns, ApplyAgain(c, u, k)
    PROVE  \E r \in RowIds :
               LET seen == call[c].view.rows[r] IN
               /\ seen \in CVApplication
               /\ seen.user = u /\ seen.campaign = k /\ seen.count # 3
               /\ rows[r] \in CVApplication
               /\ rows' \in RowTable
               /\ rows'[r] \in CVApplication
               /\ rows'[r].user = rows[r].user /\ rows'[r].campaign = rows[r].campaign
               /\ rows'[r].count = seen.count + 1
               /\ rows'[r].status = StatusAgain(call[c].view, r)
               /\ \A s \in RowIds \ {r} : rows'[s] = rows[s]
               /\ answered' = answered \ {r}
<1>1. PICK r \in get_by_user_id_and_campaign_id(call[c].view, u, k) :
         /\ BelowLimit(call[c].view, r)
         /\ rows[r] # None
         /\ rows' = [rows EXCEPT ![r].count = NextCount(call[c].view, r),
                                 ![r].status = StatusAgain(call[c].view, r)]
         /\ answered' = answered \ {r}
  BY DEF ApplyAgain
<1>2. call[c] # None
  BY DEF ApplyAgain, By
<1>3. /\ r \in RowIds /\ call[c].view.rows[r] \in CVApplication
      /\ call[c].view.rows[r].user = u /\ call[c].view.rows[r].campaign = k
      /\ rows[r] \in CVApplication
  BY <1>1, <1>2, Found, CallTyped DEF Typed, RowTable
<1>4. StatusAgain(call[c].view, r) \in CVApplicationStatus /\ NextCount(call[c].view, r) \in Nat
  BY <1>3 DEF StatusAgain, CVApplication, CVApplicationStatus, NextCount
<1>5. /\ rows' \in RowTable
      /\ rows'[r] \in CVApplication
      /\ rows'[r].user = rows[r].user /\ rows'[r].campaign = rows[r].campaign
      /\ rows'[r].count = NextCount(call[c].view, r)
      /\ rows'[r].status = StatusAgain(call[c].view, r)
      /\ \A i \in RowIds \ {r} : rows'[i] = rows[i]
  <2>1. /\ rows \in RowTable /\ r \in RowIds /\ rows[r] # None
        /\ NextCount(call[c].view, r) \in Nat /\ StatusAgain(call[c].view, r) \in CVApplicationStatus
    BY <1>1, <1>3, <1>4 DEF Typed
  <2>2. rows' = Rewrite(rows, r, NextCount(call[c].view, r), StatusAgain(call[c].view, r))
    BY <1>1 DEF Rewrite
  <2> QED
    BY <2>1, <2>2, Rewritten
<1> QED
  BY <1>1, <1>3, <1>5 DEF BelowLimit, NextCount

\* What an answer does to the table.
LEMMA AnswerWrites ==
    ASSUME Typed, NEW c \in Calls, NEW r \in RowIds, NEW s \in Answers, Answer(c, r, s)
    PROVE  /\ rows' \in RowTable
           /\ rows[r] \in CVApplication /\ rows'[r] \in CVApplication
           /\ rows'[r].user = rows[r].user /\ rows'[r].campaign = rows[r].campaign
           /\ rows'[r].count = rows[r].count
           /\ \A i \in RowIds \ {r} : rows'[i] = rows[i]
  BY DEF Answer, Typed, RowTable, CVApplication, CVApplicationStatus

LEMMA NewRowTyped ==
    ASSUME NEW u \in Users, NEW k \in Campaigns
    PROVE  /\ NewRow(u, k) \in CVApplication /\ NewRow(u, k) # None
           /\ NewRow(u, k).user = u /\ NewRow(u, k).campaign = k
           /\ NewRow(u, k).count = 1 /\ NewRow(u, k).status = "pending"
  BY RowAssumption DEF NewRow, CVApplication, CVApplicationStatus

\* What a first application does to the table.
LEMMA FirstWrites ==
    ASSUME Typed, NEW c \in Calls, NEW u \in Users, NEW k \in Campaigns,
           NEW commits \in 1..3, ApplyFirst(c, u, k, commits)
    PROVE  /\ nextId \in RowIds /\ rows[nextId] = None
           /\ rows' \in RowTable
           /\ rows'[nextId] = NewRow(u, k)
           /\ \A i \in RowIds \ {nextId} : rows'[i] = rows[i]
           /\ nextId' = nextId + 1
  BY ConstantsAssumption, NewRowTyped DEF ApplyFirst, Typed, RowTable, RowIds

-----------------------------------------------------------------------------
(* Types. *)

LEMMA AcceptedTyped ==
    ASSUME Typed, NEW u \in Users, NEW k \in Campaigns, Accepted(u, k)
    PROVE  accepted' \in [Users \X Campaigns -> Nat]
  BY DEF Accepted, Typed

LEMMA TypedStep ==
    ASSUME Typed, [Next]_vars
    PROVE  Typed'
<1>1. ASSUME NEW k \in Campaigns, NEW s \in {"closed", "open"}, JobChanges(k, s) PROVE Typed'
  BY <1>1 DEF JobChanges, Typed, CampaignTable, history
<1>2. ASSUME NEW c \in Calls, NEW who \in Users \cup {Business}, Authenticate(c, who) PROVE Typed'
  <2>1. call' \in [Calls -> Call \cup {None}]
    BY <1>2, NowTyped DEF Authenticate, Typed, Call
  <2>2. InProgress \subseteq Users \cup {Business}
    BY DEF InProgress, Typed, Call
  <2>3. together' \subseteq Users \cup {Business}
    BY <1>2, <2>2 DEF Authenticate, Typed
  <2>4. accepted' \in [Users \X Campaigns -> Nat]
    BY <1>2 DEF Authenticate, Typed
  <2> QED
    BY <1>2, <2>1, <2>3, <2>4 DEF Authenticate, Typed, tables
<1>3. ASSUME NEW c \in Calls, Refused(c) PROVE Typed'
  BY <1>3 DEF Refused, Handled, Typed, tables, history
<1>4. ASSUME NEW c \in Calls, NEW k \in Campaigns, DeleteCampaign(c, k) PROVE Typed'
  <2>1. rows' \in RowTable /\ campaign' \in CampaignTable
    BY <1>4 DEF DeleteCampaign, Typed, RowTable, CampaignTable
  <2> QED
    BY <1>4, <2>1 DEF DeleteCampaign, Handled, Typed, RowTable
<1>5. ASSUME NEW c \in Calls, NEW r \in RowIds, NEW s \in Answers, Answer(c, r, s) PROVE Typed'
  <2>1. \A i \in RowIds : i >= nextId => rows'[i] = None
    BY <1>5, AnswerWrites, RowAssumption DEF Typed, RowTable
  <2> QED
    BY <1>5, <2>1, AnswerWrites DEF Answer, Handled, Typed
<1>6. ASSUME NEW c \in Calls, NEW u \in Users, NEW k \in Campaigns, ApplyAgain(c, u, k) PROVE Typed'
  <2>1. rows' \in RowTable /\ answered' \subseteq RowIds
    BY <1>6, AgainWrites DEF Typed
  <2>2. \A i \in RowIds : i >= nextId => rows'[i] = None
    BY <1>6, AgainWrites, RowAssumption DEF Typed, RowTable
  <2>3. accepted' \in [Users \X Campaigns -> Nat]
    BY <1>6, AcceptedTyped DEF ApplyAgain
  <2> QED
    BY <1>6, <2>1, <2>2, <2>3 DEF ApplyAgain, Handled, Typed
<1>7. ASSUME NEW c \in Calls, NEW u \in Users, NEW k \in Campaigns, NEW commits \in 1..3,
             ApplyFirst(c, u, k, commits)
      PROVE  Typed'
  <2>1. accepted' \in [Users \X Campaigns -> Nat]
    BY <1>7, AcceptedTyped DEF ApplyFirst
  <2>2. call[c].view \in View
    BY <1>7, CallTyped DEF ApplyFirst, By
  <2>3. countApply' \in CountColumn /\ countJobApply' \in [Users -> Nat]
    BY <1>7, <2>2 DEF ApplyFirst, Typed, increase_count_apply, increase_count_job_apply, CountColumn, View
  <2>4. /\ rows' \in RowTable
        /\ nextId' \in 1..(MaxRows + 1)
        /\ \A i \in RowIds : i >= nextId' => rows'[i] = None
    BY <1>7, FirstWrites, ConstantsAssumption DEF Typed, RowIds
  <2> QED
    BY <1>7, <2>1, <2>3, <2>4 DEF ApplyFirst, Handled, Typed
<1>8. CASE UNCHANGED vars
  BY <1>8 DEF vars, tables, history, Typed
<1> QED
  BY <1>1, <1>2, <1>3, <1>4, <1>5, <1>6, <1>7, <1>8 DEF Next

-----------------------------------------------------------------------------
(* Views stay behind the tables. *)

\* What any handler may do to the tables.
Grows(t, next, new, newNext) ==
    /\ newNext >= next
    /\ \A r \in RowIds : new.rows[r] # None /\ r < next =>
        /\ t.rows[r] # None
        /\ new.rows[r].user = t.rows[r].user
        /\ new.rows[r].campaign = t.rows[r].campaign
    /\ \A r \in RowIds : t.rows[r] # None /\ new.campaign[t.rows[r].campaign] # "deleted"
        => new.rows[r] # None
    /\ \A k \in Campaigns : new.campaign[k] # "deleted" => t.campaign[k] # "deleted"

LEMMA StaysBehind ==
    ASSUME NEW v \in View, NEW t \in View, NEW new \in View, NEW next \in Nat, NEW newNext \in Nat,
           BehindTables(v, t, next), Grows(t, next, new, newNext)
    PROVE  BehindTables(v, new, newNext)
<1>1. ASSUME NEW r \in RowIds, v.rows[r] # None
      PROVE  /\ r < newNext
             /\ v.rows[r].count <= 3
             /\ new.rows[r] # None => /\ new.rows[r].user = v.rows[r].user
                                      /\ new.rows[r].campaign = v.rows[r].campaign
             /\ new.campaign[v.rows[r].campaign] # "deleted" => new.rows[r] # None
  <2>1. v.rows[r] \in CVApplication /\ r < next /\ r \in Nat
    BY <1>1, ConstantsAssumption DEF BehindTables, View, RowTable, RowIds
  <2>2. v.rows[r].campaign \in Campaigns
    BY <2>1 DEF CVApplication
  <2> QED
    BY <1>1, <2>1, <2>2 DEF BehindTables, Grows
<1>2. \A k \in Campaigns : v.campaign[k] # "deleted" =>
        v.countApply[k] <= Cardinality(RowsOfCampaign(v, k))
  BY DEF BehindTables
<1>3. \A k \in Campaigns : new.campaign[k] # "deleted" => v.campaign[k] # "deleted"
  BY DEF BehindTables, Grows
<1> QED
  BY <1>1, <1>2, <1>3 DEF BehindTables

LEMMA RowsFinite ==
    ASSUME NEW S \in SUBSET RowIds
    PROVE  IsFiniteSet(S) /\ Cardinality(S) \in Nat
<1>1. IsFiniteSet(RowIds)
  BY FS_Interval, ConstantsAssumption DEF RowIds
<1> QED
  BY <1>1, FS_Subset, FS_CardinalityType

LEMMA MoreRows ==
    ASSUME NEW S \in SUBSET RowIds, NEW T \in SUBSET S
    PROVE  Cardinality(T) <= Cardinality(S)
  BY RowsFinite, FS_Subset

\* The applications of a campaign that a view shows are still there.
LEMMA StillThere ==
    ASSUME NEW v \in View, NEW t \in View, NEW next, BehindTables(v, t, next),
           NEW k \in Campaigns, t.campaign[k] # "deleted"
    PROVE  /\ RowsOfCampaign(v, k) \subseteq RowsOfCampaign(t, k)
           /\ v.countApply[k] <= Cardinality(RowsOfCampaign(t, k))
<1>1. RowsOfCampaign(v, k) \subseteq RowsOfCampaign(t, k)
  BY DEF RowsOfCampaign, BehindTables
<1>2. /\ RowsOfCampaign(v, k) \in SUBSET RowIds
      /\ RowsOfCampaign(t, k) \in SUBSET RowIds
  BY DEF RowsOfCampaign
<1>3. v.countApply[k] <= Cardinality(RowsOfCampaign(v, k)) /\ v.countApply[k] \in Nat
  BY DEF BehindTables, View, CountColumn
<1> QED
  BY <1>1, <1>2, <1>3, MoreRows, RowsFinite

\* How the actions fit in.
LEMMA StepGrows ==
    ASSUME Typed, [Next]_vars
    PROVE  Grows(Now, nextId, Now', nextId')
<1> USE DEF Grows, Now
<1>1. ASSUME NEW k \in Campaigns, NEW s \in {"closed", "open"}, JobChanges(k, s)
      PROVE  Grows(Now, nextId, Now', nextId')
  BY <1>1 DEF JobChanges, Typed, CampaignTable
<1>2. ASSUME UNCHANGED tables
      PROVE  Grows(Now, nextId, Now', nextId')
  BY <1>2 DEF tables, Typed
<1>3. ASSUME NEW c \in Calls, NEW k \in Campaigns, DeleteCampaign(c, k)
      PROVE  Grows(Now, nextId, Now', nextId')
  BY <1>3 DEF DeleteCampaign, Typed, CampaignTable, RowsOfCampaign, RowTable, CVApplication
<1>4. ASSUME NEW c \in Calls, NEW r \in RowIds, NEW s \in Answers, Answer(c, r, s)
      PROVE  Grows(Now, nextId, Now', nextId')
  <2>1. campaign' = campaign /\ nextId' = nextId
    BY <1>4 DEF Answer
  <2> QED
    BY <1>4, <2>1, AnswerWrites, RowAssumption DEF Typed
<1>5. ASSUME NEW c \in Calls, NEW u \in Users, NEW k \in Campaigns, ApplyAgain(c, u, k)
      PROVE  Grows(Now, nextId, Now', nextId')
  <2>1. campaign' = campaign /\ nextId' = nextId
    BY <1>5 DEF ApplyAgain
  <2>2. PICK r \in RowIds :
           /\ rows[r] # None /\ rows'[r] # None
           /\ rows'[r].user = rows[r].user /\ rows'[r].campaign = rows[r].campaign
           /\ \A i \in RowIds \ {r} : rows'[i] = rows[i]
    BY <1>5, AgainWrites, RowAssumption
  <2> QED
    BY <2>1, <2>2 DEF Typed
<1>6. ASSUME NEW c \in Calls, NEW u \in Users, NEW k \in Campaigns, NEW commits \in 1..3,
             ApplyFirst(c, u, k, commits)
      PROVE  Grows(Now, nextId, Now', nextId')
  <2>1. campaign' = campaign
    BY <1>6 DEF ApplyFirst
  <2> QED
    BY <1>6, <2>1, FirstWrites, NewRowTyped, RowAssumption, ConstantsAssumption DEF Typed, RowIds
<1>7. CASE UNCHANGED vars
  BY <1>7, <1>2 DEF vars
<1> QED
  BY <1>1, <1>2, <1>3, <1>4, <1>5, <1>6, <1>7 DEF Next, Authenticate, Refused

\* A call that is not over is as it was, or just authenticated.
LEMMA CallStep ==
    ASSUME Typed, [Next]_vars, NEW c \in Calls, call'[c] # None
    PROVE  \/ call[c] = call'[c]
           \/ call'[c].view = Now /\ UNCHANGED tables
<1>1. ASSUME NEW d \in Calls, Handled(d) PROVE call[c] = call'[c]
  BY <1>1 DEF Handled, Typed
<1>2. ASSUME NEW d \in Calls, NEW who, Authenticate(d, who)
      PROVE  call[c] = call'[c] \/ (call'[c].view = Now /\ UNCHANGED tables)
  BY <1>2 DEF Authenticate, Typed
<1>3. CASE UNCHANGED vars
  BY <1>3 DEF vars
<1> QED
  BY <1>1, <1>2, <1>3
  DEF Next, JobChanges, Refused, DeleteCampaign, Answer, ApplyAgain, ApplyFirst

\* No row counts past three.
LEMMA LimitKept ==
    ASSUME Typed, Behind, [Next]_vars, NEW r \in RowIds, rows'[r] # None
    PROVE  rows'[r].count <= 3
<1>1. \A i \in RowIds : rows[i] # None => rows[i].count <= 3
  BY DEF Behind, BehindTables, Now
<1>2. ASSUME NEW c \in Calls, NEW u \in Users, NEW k \in Campaigns, ApplyAgain(c, u, k)
      PROVE  rows'[r].count <= 3
  <2>1. PICK i \in RowIds :
           /\ call[c].view.rows[i] \in CVApplication
           /\ call[c].view.rows[i].count # 3
           /\ rows'[i].count = call[c].view.rows[i].count + 1
           /\ \A s \in RowIds \ {i} : rows'[s] = rows[s]
    BY <1>2, AgainWrites
  <2>2. call[c].view.rows[i].count <= 3 /\ call[c].view.rows[i].count \in Nat
    BY <1>2, <2>1, RowAssumption DEF ApplyAgain, By, Behind, BehindTables, CVApplication
  <2> QED
    BY <1>1, <2>1, <2>2
<1>3. ASSUME NEW c \in Calls, NEW u \in Users, NEW k \in Campaigns, NEW commits \in 1..3,
             ApplyFirst(c, u, k, commits)
      PROVE  rows'[r].count <= 3
  BY <1>1, <1>3, FirstWrites, NewRowTyped
<1>4. ASSUME NEW c \in Calls, NEW i \in RowIds, NEW s \in Answers, Answer(c, i, s)
      PROVE  rows'[r].count <= 3
  BY <1>1, <1>4, AnswerWrites, RowAssumption
<1>5. ASSUME NEW c \in Calls, NEW k \in Campaigns, DeleteCampaign(c, k)
      PROVE  rows'[r].count <= 3
  BY <1>1, <1>5 DEF DeleteCampaign
<1>6. CASE UNCHANGED rows
  BY <1>1, <1>6
<1> QED
  BY <1>2, <1>3, <1>4, <1>5, <1>6
  DEF Next, JobChanges, Refused, Authenticate, vars, tables

\* A first application adds one row to its campaign and to its candidate.
LEMMA FirstAdds ==
    ASSUME Typed, NEW c \in Calls, NEW u \in Users, NEW k \in Campaigns,
           NEW commits \in 1..3, ApplyFirst(c, u, k, commits)
    PROVE  /\ RowsOfCampaign(Now', k) = RowsOfCampaign(Now, k) \cup {nextId}
           /\ Cardinality(RowsOfCampaign(Now', k)) = Cardinality(RowsOfCampaign(Now, k)) + 1
           /\ \A l \in Campaigns \ {k} : RowsOfCampaign(Now', l) = RowsOfCampaign(Now, l)
           /\ RowsOfUser(Now', u) = RowsOfUser(Now, u) \cup {nextId}
           /\ Cardinality(RowsOfUser(Now', u)) = Cardinality(RowsOfUser(Now, u)) + 1
           /\ \A w \in Users \ {u} : RowsOfUser(Now', w) = RowsOfUser(Now, w)
<1>1. /\ nextId \in RowIds /\ rows[nextId] = None
      /\ rows'[nextId] # None /\ rows'[nextId].user = u /\ rows'[nextId].campaign = k
      /\ \A i \in RowIds \ {nextId} : rows'[i] = rows[i]
  BY FirstWrites, NewRowTyped
<1>2. /\ RowsOfCampaign(Now', k) = RowsOfCampaign(Now, k) \cup {nextId}
      /\ \A l \in Campaigns \ {k} : RowsOfCampaign(Now', l) = RowsOfCampaign(Now, l)
      /\ nextId \notin RowsOfCampaign(Now, k)
  BY <1>1 DEF RowsOfCampaign, Now
<1>3. /\ RowsOfUser(Now', u) = RowsOfUser(Now, u) \cup {nextId}
      /\ \A w \in Users \ {u} : RowsOfUser(Now', w) = RowsOfUser(Now, w)
      /\ nextId \notin RowsOfUser(Now, u)
  BY <1>1 DEF RowsOfUser, Now
<1>4. IsFiniteSet(RowsOfCampaign(Now, k)) /\ IsFiniteSet(RowsOfUser(Now, u))
  BY RowsFinite DEF RowsOfCampaign, RowsOfUser
<1>5. Cardinality(RowsOfCampaign(Now, k) \cup {nextId}) = Cardinality(RowsOfCampaign(Now, k)) + 1
  BY <1>2, <1>4, FS_AddElement
<1>6. Cardinality(RowsOfUser(Now, u) \cup {nextId}) = Cardinality(RowsOfUser(Now, u)) + 1
  BY <1>3, <1>4, FS_AddElement
<1> QED
  BY <1>2, <1>3, <1>5, <1>6

\* A campaign never counts more applications than it has.
LEMMA CountKept ==
    ASSUME Typed, Typed', Behind, [Next]_vars,
           NEW k \in Campaigns, campaign'[k] # "deleted"
    PROVE  countApply'[k] <= Cardinality(RowsOfCampaign(Now', k))
<1>1. Now \in View /\ Now' \in View /\ nextId \in Nat /\ nextId' \in Nat
  BY NowTyped, ConstantsAssumption DEF Typed, Now, View
<1>2. BehindTables(Now, Now', nextId')
  BY <1>1, StepGrows, StaysBehind DEF Behind
<1>3. Now.countApply[k] <= Cardinality(RowsOfCampaign(Now', k))
  BY <1>1, <1>2, StillThere DEF Now
<1>4. CASE countApply' = countApply
  BY <1>3, <1>4 DEF Now
<1>5. ASSUME NEW c \in Calls, NEW u \in Users, NEW l \in Campaigns, NEW commits \in 1..3,
             ApplyFirst(c, u, l, commits)
      PROVE  countApply'[k] <= Cardinality(RowsOfCampaign(Now', k))
  <2>1. call[c] # None /\ campaign[l] # "deleted"
    BY <1>5 DEF ApplyFirst, By
  <2>2. call[c].view \in View /\ BehindTables(call[c].view, Now, nextId)
    BY <2>1, CallTyped DEF Behind
  <2>3. call[c].view.countApply[l] <= Cardinality(RowsOfCampaign(Now, l))
    BY <1>1, <2>1, <2>2, StillThere DEF Now
  <2>4. /\ Cardinality(RowsOfCampaign(Now', l)) = Cardinality(RowsOfCampaign(Now, l)) + 1
        /\ Cardinality(RowsOfCampaign(Now, l)) \in Nat
    BY <1>5, FirstAdds, RowsFinite DEF RowsOfCampaign
  <2>5. call[c].view.countApply[l] \in Nat
    BY <2>2 DEF View, CountColumn
  <2>6. \/ countApply' = countApply
        \/ countApply' = [countApply EXCEPT ![l] = call[c].view.countApply[l] + 1]
    BY <1>5 DEF ApplyFirst, increase_count_apply
  <2>7. CASE k # l
    BY <1>3, <2>6, <2>7 DEF Typed, CountColumn, Now
  <2>8. CASE k = l
    BY <1>4, <2>3, <2>4, <2>5, <2>6, <2>8 DEF Typed, CountColumn
  <2> QED
    BY <2>7, <2>8
<1> QED
  BY <1>4, <1>5
  DEF Next, JobChanges, Refused, Authenticate, DeleteCampaign, Answer, ApplyAgain, vars, tables

LEMMA BehindStep ==
    ASSUME Typed, Typed', Behind, [Next]_vars
    PROVE  Behind'
<1>1. Now \in View /\ Now' \in View /\ nextId \in Nat /\ nextId' \in Nat
  BY NowTyped, ConstantsAssumption DEF Typed, Now, View
<1>2. BehindTables(Now', Now', nextId')
  <2>1. ASSUME NEW r \in RowIds, rows'[r] # None
        PROVE  r < nextId' /\ rows'[r].count <= 3
    BY <1>1, <2>1, LimitKept, ConstantsAssumption DEF Typed, RowIds
  <2>2. rows' \in RowTable /\ campaign' \in CampaignTable
    BY DEF Typed
  <2> QED
    BY <2>1, <2>2, CountKept DEF BehindTables, Now
<1>3. ASSUME NEW c \in Calls, call'[c] # None
      PROVE  BehindTables(call'[c].view, Now', nextId')
  <2>1. CASE call'[c] = call[c]
    BY <1>1, <1>3, <2>1, CallTyped, StepGrows, StaysBehind DEF Behind
  <2>2. CASE call'[c].view = Now /\ UNCHANGED tables
    <3>1. Now' = Now /\ nextId' = nextId
      BY <2>2 DEF tables, Now
    <3> QED
      BY <2>2, <3>1 DEF Behind
  <2> QED
    BY <1>3, <2>1, <2>2, CallStep
<1> QED
  BY <1>2, <1>3 DEF Behind

-----------------------------------------------------------------------------
(* Calls that are alone. *)

LEMMA AloneStep ==
    ASSUME Typed, Alone, [Next]_vars
    PROVE  Alone'
<1>1. ASSUME NEW c \in Calls, NEW who \in Users \cup {Business}, Authenticate(c, who) PROVE Alone'
  <2>1. CASE InProgress = {}
    <3>1. \A d \in Calls : call[d] = None
      BY <2>1 DEF InProgress
    <3>2. \A d \in Calls \ {c} : call'[d] = None
      BY <1>1, <3>1 DEF Authenticate, Typed
    <3>3. call'[c].view = Now /\ rows' = rows /\ countApply' = countApply
      BY <1>1 DEF Authenticate, Typed, tables
    <3> QED
      BY <3>2, <3>3 DEF Alone, Now
  <2>2. CASE InProgress # {}
    <3>1. together' = together \cup InProgress \cup {who}
      BY <1>1, <2>2 DEF Authenticate
    <3>2. \A d \in Calls : call'[d] # None => call'[d].who \in together'
      BY <1>1, <3>1 DEF Authenticate, InProgress, Typed
    <3> QED
      BY <3>2 DEF Alone
  <2> QED
    BY <2>1, <2>2
<1>2. ASSUME NEW c \in Calls, call[c] # None, Handled(c), together' = together PROVE Alone'
  <2>1. \A d \in Calls : call'[d] # None => d # c /\ call[d] # None /\ call'[d] = call[d]
    BY <1>2 DEF Handled, Typed
  <2>2. \A d \in Calls : call'[d] # None => call'[d].who \in together'
    BY <1>2, <2>1 DEF Alone
  <2> QED
    BY <2>2 DEF Alone
<1>3. ASSUME UNCHANGED <<call, together, rows, countApply>> PROVE Alone'
  BY <1>3 DEF Alone
<1> QED
  BY <1>1, <1>2, <1>3
  DEF Next, JobChanges, Refused, DeleteCampaign, Answer, ApplyAgain, ApplyFirst, By,
      vars, tables, history

LEMMA OwnOf ==
    ASSUME NEW u, NEW k
    PROVE  RowsOfUser(Now, u) \cap RowsOfCampaign(Now, k) = Own(u, k)
  BY DEF RowsOfUser, RowsOfCampaign, Now, Own

\* Whose calls never overlapped finds its row, if it has one, and decides on it.
LEMMA FindsOwn ==
    ASSUME Typed, Alone, Applied, NEW c \in Calls, NEW u \in Users \ together,
           NEW k \in Campaigns, By(c, u)
    PROVE  /\ call[c].view.rows = rows
           /\ call[c].view.countApply = countApply
           /\ get_by_user_id_and_campaign_id(call[c].view, u, k) = Own(u, k)
<1>1. call[c].view.rows = rows /\ call[c].view.countApply = countApply
  BY DEF Alone, By
<1>2. \A r, s \in Own(u, k) : r <= s
  <2>1. \A r, s \in Own(u, k) : r = s
    BY DEF Applied
  <2>2. Own(u, k) \subseteq Nat
    BY ConstantsAssumption DEF Own, RowIds
  <2> QED
    BY <2>1, <2>2
<1>3. RowsOfUser(call[c].view, u) \cap RowsOfCampaign(call[c].view, k) = Own(u, k)
  BY <1>1 DEF RowsOfUser, RowsOfCampaign, Own
<1> QED
  BY <1>1, <1>2, <1>3 DEF get_by_user_id_and_campaign_id

\* What AppliedStep needs of a step that accepts nothing from a candidate.
LEMMA AppliedKept ==
    ASSUME Applied, NEW u \in Users \ together, NEW k \in Campaigns,
           \A r \in RowIds : rows'[r] # None /\ rows'[r].user = u /\ rows'[r].campaign = k =>
               rows[r] # None /\ rows[r].user = u /\ rows[r].campaign = k /\ rows'[r].count = rows[r].count,
           campaign'[k] # "deleted" => campaign[k] # "deleted" /\ Own(u, k) \subseteq Own(u, k)',
           accepted'[<<u, k>>] = accepted[<<u, k>>]
    PROVE  /\ \A r, s \in Own(u, k)' : r = s
           /\ \A r \in Own(u, k)' : rows'[r].count = accepted'[<<u, k>>]
           /\ campaign'[k] # "deleted" /\ Own(u, k)' = {} => accepted'[<<u, k>>] = 0
           /\ accepted'[<<u, k>>] <= 3
  BY DEF Applied, Own

LEMMA AppliedStep ==
    ASSUME Typed, Behind, Alone, Applied, [Next]_vars
    PROVE  Applied'
<1> SUFFICES ASSUME NEW u \in Users \ together', NEW k \in Campaigns
             PROVE  /\ \A r, s \in Own(u, k)' : r = s
                    /\ \A r \in Own(u, k)' : rows'[r].count = accepted'[<<u, k>>]
                    /\ campaign'[k] # "deleted" /\ Own(u, k)' = {} => accepted'[<<u, k>>] = 0
                    /\ accepted'[<<u, k>>] <= 3
  BY DEF Applied
<1> DEFINE Goal == /\ \A r, s \in Own(u, k)' : r = s
                   /\ \A r \in Own(u, k)' : rows'[r].count = accepted'[<<u, k>>]
                   /\ campaign'[k] # "deleted" /\ Own(u, k)' = {} => accepted'[<<u, k>>] = 0
                   /\ accepted'[<<u, k>>] <= 3
<1>1. ASSUME NEW l \in Campaigns, NEW s \in {"closed", "open"}, JobChanges(l, s) PROVE Goal
  <2>1. rows' = rows /\ accepted' = accepted /\ together' = together
    BY <1>1 DEF JobChanges, history
  <2>2. campaign'[k] # "deleted" => campaign[k] # "deleted"
    BY <1>1 DEF JobChanges, Typed, CampaignTable
  <2> QED
    BY <2>1, <2>2, AppliedKept DEF Own
<1>2. ASSUME NEW c \in Calls, NEW who \in Users \cup {Business}, Authenticate(c, who) PROVE Goal
  <2>1. rows' = rows /\ campaign' = campaign /\ together \subseteq together'
    BY <1>2 DEF Authenticate, tables
  <2>2. accepted'[<<u, k>>] = accepted[<<u, k>>]
    BY <1>2 DEF Authenticate
  <2> QED
    BY <2>1, <2>2, AppliedKept DEF Own
<1>3. ASSUME UNCHANGED <<rows, campaign, accepted, together>> PROVE Goal
  BY <1>3, AppliedKept DEF Own
<1>4. ASSUME NEW c \in Calls, NEW l \in Campaigns, DeleteCampaign(c, l) PROVE Goal
  <2>1. accepted' = accepted /\ together' = together
    BY <1>4 DEF DeleteCampaign
  <2>2. \A r \in RowIds : rows'[r] # None => rows'[r] = rows[r] /\ rows[r] # None
    BY <1>4 DEF DeleteCampaign
  <2>3. campaign'[k] # "deleted" => campaign[k] # "deleted" /\ Own(u, k) \subseteq Own(u, k)'
    BY <1>4 DEF DeleteCampaign, Typed, CampaignTable, RowsOfCampaign, Now, Own
  <2> QED
    BY <2>1, <2>2, <2>3, AppliedKept
<1>5. ASSUME NEW c \in Calls, NEW r \in RowIds, NEW s \in Answers, Answer(c, r, s) PROVE Goal
  <2>1. accepted' = accepted /\ together' = together /\ campaign' = campaign
    BY <1>5 DEF Answer
  <2>2. /\ rows[r] # None /\ rows'[r] # None
        /\ rows'[r].user = rows[r].user /\ rows'[r].campaign = rows[r].campaign
        /\ rows'[r].count = rows[r].count
        /\ \A i \in RowIds \ {r} : rows'[i] = rows[i]
    BY <1>5, AnswerWrites, RowAssumption
  <2> QED
    BY <2>1, <2>2, AppliedKept DEF Own
<1>6. ASSUME NEW c \in Calls, NEW w \in Users, NEW l \in Campaigns, ApplyAgain(c, w, l) PROVE Goal
  <2>1. /\ together' = together /\ campaign' = campaign
        /\ call[c] # None /\ By(c, w)
        /\ u \in Users \ together
    BY <1>6 DEF ApplyAgain, By
  <2>2. PICK r \in RowIds :
           LET seen == call[c].view.rows[r] IN
           /\ seen # None
           /\ seen.user = w /\ seen.campaign = l /\ seen.count # 3
           /\ rows[r] # None /\ rows'[r] # None
           /\ rows'[r].user = rows[r].user /\ rows'[r].campaign = rows[r].campaign
           /\ rows'[r].count = seen.count + 1
           /\ \A i \in RowIds \ {r} : rows'[i] = rows[i]
    BY <1>6, AgainWrites, RowAssumption
  <2>3. rows[r].user = w /\ rows[r].campaign = l
    BY <2>1, <2>2 DEF Behind, BehindTables, Now
  <2>4. Own(u, k)' = Own(u, k)
    BY <2>2 DEF Own
  <2>5. CASE <<u, k>> = <<w, l>>
    <3>1. accepted'[<<u, k>>] = accepted[<<u, k>>] + 1
      BY <1>6, <2>1, <2>5 DEF ApplyAgain, Accepted, Typed
    <3>2. r \in Own(u, k) /\ call[c].view.rows = rows
      BY <2>1, <2>2, <2>3, <2>5, FindsOwn DEF Own
    <3>3. rows[r].count = accepted[<<u, k>>] /\ accepted[<<u, k>>] <= 3 /\ accepted[<<u, k>>] \in Nat
      BY <2>1, <3>2 DEF Applied, Typed
    <3>4. \A s, t \in Own(u, k) : s = t
      BY <2>1 DEF Applied
    <3> QED
      BY <2>2, <2>4, <3>1, <3>2, <3>3, <3>4
  <2>6. CASE <<u, k>> # <<w, l>>
    <3>1. accepted'[<<u, k>>] = accepted[<<u, k>>]
      BY <1>6, <2>6 DEF ApplyAgain, Accepted, Typed
    <3> QED
      BY <2>1, <2>2, <2>3, <2>4, <2>6, <3>1, AppliedKept
  <2> QED
    BY <2>5, <2>6
<1>7. ASSUME NEW c \in Calls, NEW w \in Users, NEW l \in Campaigns, NEW commits \in 1..3,
             ApplyFirst(c, w, l, commits)
      PROVE  Goal
  <2>1. /\ together' = together /\ campaign' = campaign
        /\ campaign[l] # "deleted" /\ By(c, w)
        /\ get_by_user_id_and_campaign_id(call[c].view, w, l) = {}
        /\ u \in Users \ together
    BY <1>7 DEF ApplyFirst
  <2>2. /\ nextId \in RowIds /\ rows[nextId] = None
        /\ rows'[nextId] # None /\ rows'[nextId].count = 1
        /\ rows'[nextId].user = w /\ rows'[nextId].campaign = l
        /\ \A i \in RowIds \ {nextId} : rows'[i] = rows[i]
    BY <1>7, FirstWrites, NewRowTyped
  <2>3. CASE <<u, k>> = <<w, l>>
    <3>1. accepted'[<<u, k>>] = accepted[<<u, k>>] + 1
      BY <1>7, <2>1, <2>3 DEF ApplyFirst, Accepted, Typed
    <3>2. Own(u, k) = {}
      BY <2>1, <2>3, FindsOwn
    <3>3. Own(u, k)' = {nextId}
      BY <2>2, <2>3, <3>2 DEF Own
    <3>4. accepted[<<u, k>>] = 0
      BY <2>1, <2>3, <3>2 DEF Applied
    <3> QED
      BY <2>2, <3>1, <3>3, <3>4
  <2>4. CASE <<u, k>> # <<w, l>>
    <3>1. accepted'[<<u, k>>] = accepted[<<u, k>>]
      BY <1>7, <2>4 DEF ApplyFirst, Accepted, Typed
    <3>2. Own(u, k)' = Own(u, k)
      BY <2>2, <2>4 DEF Own
    <3> QED
      BY <2>1, <2>2, <2>4, <3>1, <3>2, AppliedKept
  <2> QED
    BY <2>3, <2>4
<1> QED
  BY <1>1, <1>2, <1>3, <1>4, <1>5, <1>6, <1>7 DEF Next, Refused, vars, tables, history

-----------------------------------------------------------------------------
(* The counts. *)

\* No applicant of the campaign had a call beside another or a handler that died.
Undisturbed(k) == \A r \in RowsOfCampaign(Now, k) : rows[r].user \notin together \cup died

CampaignCounted ==
    \A k \in Campaigns :
        campaign[k] # "deleted" /\ Undisturbed(k) => countApply[k] = Cardinality(RowsOfCampaign(Now, k))

CandidateCounted ==
    \A u \in Users \ died : countJobApply[u] >= Cardinality(RowsOfUser(Now, u))

LEMMA CountsAgreeParts ==
    ASSUME Behind, CampaignCounted, CandidateCounted
    PROVE  CountsAgree
  BY DEF Behind, BehindTables, CampaignCounted, Undisturbed, CandidateCounted, CountsAgree, Now

\* Steps that neither add nor remove a row change neither sets.
LEMMA SameOwners ==
    ASSUME \A r \in RowIds : /\ rows'[r] # None <=> rows[r] # None
                             /\ rows[r] # None => /\ rows'[r].user = rows[r].user
                                                  /\ rows'[r].campaign = rows[r].campaign
    PROVE  /\ \A k : RowsOfCampaign(Now', k) = RowsOfCampaign(Now, k)
           /\ \A u : RowsOfUser(Now', u) = RowsOfUser(Now, u)
  BY DEF RowsOfCampaign, RowsOfUser, Now

LEMMA QuietStep ==
    ASSUME Typed, [Next]_vars,
           ~ \E c \in Calls, u \in Users, k \in Campaigns, commits \in 1..3 : ApplyFirst(c, u, k, commits),
           ~ \E c \in Calls, k \in Campaigns : DeleteCampaign(c, k)
    PROVE  /\ \A r \in RowIds : /\ rows'[r] # None <=> rows[r] # None
                                /\ rows[r] # None => /\ rows'[r].user = rows[r].user
                                                     /\ rows'[r].campaign = rows[r].campaign
           /\ \A k \in Campaigns : campaign'[k] # "deleted" => campaign[k] # "deleted"
           /\ UNCHANGED <<countApply, countJobApply, died>>
           /\ together \subseteq together'
<1> DEFINE Goal == /\ \A r \in RowIds : /\ rows'[r] # None <=> rows[r] # None
                                        /\ rows[r] # None => /\ rows'[r].user = rows[r].user
                                                             /\ rows'[r].campaign = rows[r].campaign
                   /\ \A k \in Campaigns : campaign'[k] # "deleted" => campaign[k] # "deleted"
                   /\ UNCHANGED <<countApply, countJobApply, died>>
                   /\ together \subseteq together'
<1>1. ASSUME NEW k \in Campaigns, NEW s \in {"closed", "open"}, JobChanges(k, s) PROVE Goal
  BY <1>1 DEF JobChanges, history, Typed, CampaignTable
<1>2. ASSUME NEW c \in Calls, NEW who, Authenticate(c, who) PROVE Goal
  BY <1>2 DEF Authenticate, tables
<1>3. ASSUME NEW c \in Calls, Refused(c) PROVE Goal
  BY <1>3 DEF Refused, tables, history
<1>4. ASSUME NEW c \in Calls, NEW r \in RowIds, NEW s \in Answers, Answer(c, r, s) PROVE Goal
  <2>1. UNCHANGED <<campaign, countApply, countJobApply, died, together>>
    BY <1>4 DEF Answer
  <2>2. /\ rows[r] # None /\ rows'[r] # None
        /\ rows'[r].user = rows[r].user /\ rows'[r].campaign = rows[r].campaign
        /\ \A i \in RowIds \ {r} : rows'[i] = rows[i]
    BY <1>4, AnswerWrites, RowAssumption
  <2> QED
    BY <2>1, <2>2
<1>5. ASSUME NEW c \in Calls, NEW u \in Users, NEW k \in Campaigns, ApplyAgain(c, u, k) PROVE Goal
  <2>1. UNCHANGED <<campaign, countApply, countJobApply, died, together>>
    BY <1>5 DEF ApplyAgain
  <2>2. PICK r \in RowIds :
           /\ rows[r] # None /\ rows'[r] # None
           /\ rows'[r].user = rows[r].user /\ rows'[r].campaign = rows[r].campaign
           /\ \A i \in RowIds \ {r} : rows'[i] = rows[i]
    BY <1>5, AgainWrites, RowAssumption
  <2> QED
    BY <2>1, <2>2
<1>6. CASE UNCHANGED vars
  BY <1>6 DEF vars, tables, history
<1> QED
  BY <1>1, <1>2, <1>3, <1>4, <1>5, <1>6 DEF Next

LEMMA CampaignCountedStep ==
    ASSUME Typed, Alone, Applied, CampaignCounted, [Next]_vars
    PROVE  CampaignCounted'
<1> SUFFICES ASSUME NEW k \in Campaigns, campaign'[k] # "deleted", Undisturbed(k)'
             PROVE  countApply'[k] = Cardinality(RowsOfCampaign(Now', k))
  BY DEF CampaignCounted
<1>1. ASSUME NEW c \in Calls, NEW u \in Users, NEW l \in Campaigns, NEW commits \in 1..3,
             ApplyFirst(c, u, l, commits)
      PROVE  countApply'[k] = Cardinality(RowsOfCampaign(Now', k))
  <2>1. /\ campaign' = campaign /\ together' = together /\ By(c, u)
        /\ died' = IF commits < 3 THEN died \cup {u} ELSE died
        /\ countApply' = IF commits > 1 THEN [countApply EXCEPT ![l] = call[c].view.countApply[l] + 1]
                                        ELSE countApply
    BY <1>1 DEF ApplyFirst, increase_count_apply
  <2>2. /\ RowsOfCampaign(Now', l) = RowsOfCampaign(Now, l) \cup {nextId}
        /\ Cardinality(RowsOfCampaign(Now', l)) = Cardinality(RowsOfCampaign(Now, l)) + 1
        /\ \A i \in Campaigns \ {l} : RowsOfCampaign(Now', i) = RowsOfCampaign(Now, i)
    BY <1>1, FirstAdds
  <2>3. /\ rows[nextId] = None /\ rows'[nextId].user = u
        /\ \A i \in RowIds \ {nextId} : rows'[i] = rows[i]
    BY <1>1, FirstWrites, NewRowTyped
  <2>4. Undisturbed(k)
    BY <2>1, <2>2, <2>3 DEF Undisturbed, RowsOfCampaign, Now
  <2>5. countApply[k] = Cardinality(RowsOfCampaign(Now, k))
    BY <2>1, <2>4 DEF CampaignCounted
  <2>6. CASE k = l
    <3>1. u \notin together' \cup died'
      BY <2>2, <2>3, <2>6 DEF Undisturbed
    <3>2. ~(commits < 3)
      BY <2>1, <3>1
    <3>3. commits > 1 /\ u \in Users \ together
      BY <2>1, <3>1, <3>2
    <3>4. call[c].view.countApply = countApply
      BY <2>1, <3>3, FindsOwn
    <3> QED
      BY <2>1, <2>2, <2>5, <2>6, <3>3, <3>4 DEF Typed, CountColumn
  <2>7. CASE k # l
    BY <2>1, <2>2, <2>5, <2>7 DEF Typed, CountColumn
  <2> QED
    BY <2>6, <2>7
<1>2. ASSUME NEW c \in Calls, NEW l \in Campaigns, DeleteCampaign(c, l)
      PROVE  countApply'[k] = Cardinality(RowsOfCampaign(Now', k))
  <2>1. k # l /\ campaign[k] # "deleted" /\ UNCHANGED <<countApply, together, died>>
    BY <1>2 DEF DeleteCampaign, Typed, CampaignTable
  <2>2. \A r \in RowIds : rows'[r] = IF rows[r] # None /\ rows[r].campaign = l THEN None ELSE rows[r]
    BY <1>2 DEF DeleteCampaign, RowsOfCampaign, Now
  <2>3. RowsOfCampaign(Now', k) = RowsOfCampaign(Now, k)
    BY <2>1, <2>2 DEF RowsOfCampaign, Now
  <2>4. Undisturbed(k)
    BY <2>1, <2>2, <2>3 DEF Undisturbed, RowsOfCampaign, Now
  <2> QED
    BY <2>1, <2>3, <2>4 DEF CampaignCounted
<1>3. CASE /\ ~ \E c \in Calls, u \in Users, l \in Campaigns, commits \in 1..3 : ApplyFirst(c, u, l, commits)
           /\ ~ \E c \in Calls, l \in Campaigns : DeleteCampaign(c, l)
  <2>1. /\ \A r \in RowIds : rows[r] # None => rows'[r].user = rows[r].user
        /\ campaign[k] # "deleted" /\ UNCHANGED <<countApply, died>> /\ together \subseteq together'
    BY <1>3, QuietStep
  <2>2. RowsOfCampaign(Now', k) = RowsOfCampaign(Now, k)
    BY <1>3, QuietStep, SameOwners
  <2>3. Undisturbed(k)
    BY <2>1, <2>2 DEF Undisturbed, RowsOfCampaign, Now
  <2> QED
    BY <2>1, <2>2, <2>3 DEF CampaignCounted
<1> QED
  BY <1>1, <1>2, <1>3

LEMMA CandidateCountedStep ==
    ASSUME Typed, CandidateCounted, [Next]_vars
    PROVE  CandidateCounted'
<1> SUFFICES ASSUME NEW u \in Users \ died'
             PROVE  countJobApply'[u] >= Cardinality(RowsOfUser(Now', u))
  BY DEF CandidateCounted
<1>1. ASSUME NEW c \in Calls, NEW w \in Users, NEW k \in Campaigns, NEW commits \in 1..3,
             ApplyFirst(c, w, k, commits)
      PROVE  countJobApply'[u] >= Cardinality(RowsOfUser(Now', u))
  <2>1. /\ died' = IF commits < 3 THEN died \cup {w} ELSE died
        /\ countJobApply' = IF commits > 2 THEN [countJobApply EXCEPT ![w] = @ + 1] ELSE countJobApply
    BY <1>1 DEF ApplyFirst, increase_count_job_apply
  <2>2. countJobApply[u] >= Cardinality(RowsOfUser(Now, u)) /\ Cardinality(RowsOfUser(Now, u)) \in Nat
    BY <2>1, RowsFinite DEF CandidateCounted, RowsOfUser
  <2>3. CASE u = w
    BY <1>1, <2>1, <2>2, <2>3, FirstAdds DEF Typed
  <2>4. CASE u # w
    BY <1>1, <2>1, <2>2, <2>4, FirstAdds DEF Typed
  <2> QED
    BY <2>3, <2>4
<1>2. ASSUME NEW c \in Calls, NEW k \in Campaigns, DeleteCampaign(c, k)
      PROVE  countJobApply'[u] >= Cardinality(RowsOfUser(Now', u))
  <2>1. UNCHANGED <<countJobApply, died>>
    BY <1>2 DEF DeleteCampaign
  <2>2. RowsOfUser(Now', u) \subseteq RowsOfUser(Now, u)
    BY <1>2 DEF DeleteCampaign, RowsOfUser, Now
  <2>3. /\ Cardinality(RowsOfUser(Now', u)) <= Cardinality(RowsOfUser(Now, u))
        /\ Cardinality(RowsOfUser(Now, u)) \in Nat /\ Cardinality(RowsOfUser(Now', u)) \in Nat
    BY <2>2, MoreRows, RowsFinite DEF RowsOfUser
  <2>4. countJobApply[u] >= Cardinality(RowsOfUser(Now, u)) /\ countJobApply[u] \in Nat
    BY <2>1 DEF CandidateCounted, Typed
  <2> QED
    BY <2>1, <2>3, <2>4
<1>3. CASE /\ ~ \E c \in Calls, w \in Users, l \in Campaigns, commits \in 1..3 : ApplyFirst(c, w, l, commits)
           /\ ~ \E c \in Calls, l \in Campaigns : DeleteCampaign(c, l)
  <2>1. UNCHANGED <<countJobApply, died>> /\ RowsOfUser(Now', u) = RowsOfUser(Now, u)
    BY <1>3, QuietStep, SameOwners
  <2> QED
    BY <2>1 DEF CandidateCounted
<1> QED
  BY <1>1, <1>2, <1>3

-----------------------------------------------------------------------------
(* Answers. *)

LEMMA AnsweredStep ==
    ASSUME Typed, Behind, Alone, Applied, AnsweredAsStored, [Next]_vars
    PROVE  AnsweredAsStored'
<1> SUFFICES ASSUME NEW i \in RowIds, rows'[i] # None, rows'[i].status # "pending",
                    rows'[i].user \notin together'
             PROVE  i \in answered'
  BY DEF AnsweredAsStored
<1>1. ASSUME rows'[i] = rows[i], together \subseteq together' PROVE i \in answered
  BY <1>1 DEF AnsweredAsStored
<1>2. ASSUME NEW c \in Calls, NEW r \in RowIds, NEW s \in Answers, Answer(c, r, s)
      PROVE  i \in answered'
  BY <1>1, <1>2, AnswerWrites DEF Answer
<1>3. ASSUME NEW c \in Calls, NEW u \in Users, NEW k \in Campaigns, ApplyAgain(c, u, k)
      PROVE  i \in answered'
  <2>1. together' = together /\ By(c, u) /\ call[c] # None
    BY <1>3 DEF ApplyAgain, By
  <2>2. PICK r \in RowIds :
           LET seen == call[c].view.rows[r] IN
           /\ seen # None /\ seen.user = u
           /\ rows[r] # None
           /\ rows'[r].user = rows[r].user
           /\ rows'[r].status = StatusAgain(call[c].view, r)
           /\ \A j \in RowIds \ {r} : rows'[j] = rows[j]
           /\ answered' = answered \ {r}
    BY <1>3, AgainWrites, RowAssumption
  <2>3. CASE i = r
    <3>1. rows[r].user = u
      BY <2>1, <2>2 DEF Behind, BehindTables, Now
    <3>2. call[c].view.rows = rows
      BY <2>1, <2>2, <2>3, <3>1 DEF Alone, By
    <3>3. rows'[r].status = "pending"
      BY <2>2, <3>2 DEF StatusAgain
    <3> QED
      BY <2>3, <3>3
  <2> QED
    BY <1>1, <2>1, <2>2, <2>3
<1>4. ASSUME NEW c \in Calls, NEW u \in Users, NEW k \in Campaigns, NEW commits \in 1..3,
             ApplyFirst(c, u, k, commits)
      PROVE  i \in answered'
  BY <1>1, <1>4, FirstWrites, NewRowTyped DEF ApplyFirst
<1>5. ASSUME NEW c \in Calls, NEW k \in Campaigns, DeleteCampaign(c, k)
      PROVE  i \in answered'
  BY <1>1, <1>5 DEF DeleteCampaign
<1>6. ASSUME UNCHANGED <<rows, answered>>, together \subseteq together'
      PROVE  i \in answered'
  BY <1>1, <1>6
<1> QED
  BY <1>2, <1>3, <1>4, <1>5, <1>6 DEF Next, JobChanges, Refused, Authenticate, vars, tables, history

-----------------------------------------------------------------------------
(* The theorems. *)

Inv ==
    /\ Typed /\ Behind /\ Alone /\ Applied
    /\ CampaignCounted /\ CandidateCounted /\ AnsweredAsStored

LEMMA InitInv == Init => Inv
<1> SUFFICES ASSUME Init PROVE Inv
  OBVIOUS
<1>1. Typed
  BY ConstantsAssumption DEF Init, Typed, CampaignTable, CountColumn, RowTable, RowIds
<1>2. /\ \A k \in Campaigns : Cardinality(RowsOfCampaign(Now, k)) = 0
      /\ \A u \in Users : Cardinality(RowsOfUser(Now, u)) = 0
  <2>1. /\ \A k \in Campaigns : RowsOfCampaign(Now, k) = {}
        /\ \A u \in Users : RowsOfUser(Now, u) = {}
    BY DEF Init, RowsOfCampaign, RowsOfUser, Now
  <2> QED
    BY <2>1, FS_EmptySet
<1>3. Behind
  BY <1>2 DEF Init, Behind, BehindTables, Now
<1>4. Alone /\ Applied /\ AnsweredAsStored
  BY DEF Init, Alone, Applied, Own, AnsweredAsStored
<1>5. CampaignCounted /\ CandidateCounted
  BY <1>2 DEF Init, CampaignCounted, CandidateCounted
<1> QED
  BY <1>1, <1>3, <1>4, <1>5 DEF Inv

LEMMA Invariance == Spec => []Inv
<1>1. Inv /\ [Next]_vars => Inv'
  BY TypedStep, BehindStep, AloneStep, AppliedStep, CampaignCountedStep, CandidateCountedStep,
     AnsweredStep DEF Inv
<1> QED
  BY <1>1, InitInv, PTL DEF Spec

\* TypeOK is an invariant: no row past the next id, whatever views the handlers of
\* cv_applications_service write from.
THEOREM ApplicationTypes == Spec => []TypeOK
<1>1. Inv => TypeOK
  BY TypedIsTypeOK DEF Inv
<1> QED
  BY <1>1, Invariance, PTL

\* The limit of three holds in every row for any number of overlapping calls, and for
\* what is accepted from a candidate whose calls do not overlap.
THEOREM ThreeAtMost == Spec => []AtMostThree
<1>1. Inv => AtMostThree
  BY DEF Inv, Behind, BehindTables, Now, Applied, AtMostThree
<1> QED
  BY <1>1, Invariance, PTL

\* A candidate whose calls do not overlap has one row in a campaign, and the row
\* counts what was accepted (create finds what an earlier call wrote).
THEOREM OneRow == Spec => []OneApplication
<1>1. ASSUME Inv, NEW u \in Users \ together, NEW k \in Campaigns
      PROVE  /\ Cardinality(Own(u, k)) <= 1
             /\ \A r \in Own(u, k) : rows[r].count = accepted[<<u, k>>]
  <2>1. \A r, s \in Own(u, k) : r = s
    BY <1>1 DEF Inv, Applied
  <2>2. Own(u, k) = {} \/ \E r : Own(u, k) = {r}
    BY <2>1
  <2>3. Cardinality(Own(u, k)) = 0 \/ Cardinality(Own(u, k)) = 1
    BY <2>2, FS_EmptySet, FS_Singleton
  <2> QED
    BY <1>1, <2>3 DEF Inv, Applied
<1>2. Inv => OneApplication
  BY <1>1, OwnOf DEF OneApplication
<1> QED
  BY <1>2, Invariance, PTL

\* No count of a campaign is above its applications, and it is exact when nobody's
\* call overlapped or died; a candidate's count is never below (increase_count_apply,
\* increase_count_job_apply).
THEOREM CountsHold == Spec => []CountsAgree
<1>1. Inv => CountsAgree
  BY CountsAgreeParts DEF Inv
<1> QED
  BY <1>1, Invariance, PTL

\* An answer of the business is for the CV that is stored, unless the candidate's
\* calls overlapped others.
THEOREM AnswersHold == Spec => []AnsweredAsStored
<1>1. Inv => AnsweredAsStored
  BY DEF Inv
<1> QED
  BY <1>1, Invariance, PTL
=============================================================================
