----------------------------- MODULE MCJobPage -----------------------------
EXTENDS JobPage, TLC

CONSTANTS plain, full, a, s

\* One form without lists, one with a category and a skill.
MCCategoriesOf == plain :> {} @@ full :> {a}
MCSkillsOf == plain :> {} @@ full :> {s}

Alike == Permutations(Calls)

Outdated ==
    {c \in Calls : call[c] # None
        /\ \/ call[c].at = "handler" /\ call[c].view # Now
           \/ call[c].at = "filling" /\ ~IsPageOf(call[c].page, call[c].job)}

CountersOff ==
    \/ position # Cardinality(Published)
    \/ \E k \in Categories : category[k] # Cardinality(PublishedRows(k))

Handlers == {c \in Calls : call[c] # None /\ call[c].at = "handler"}

Unfiled ==
    {j \in Jobs \ filed : IsJob(job[j])
        /\ \A c \in Calls : call[c] # None /\ call[c].at = "filling" => ~call[c].creates}

\* One call goes by an old view at a time, once before a writer does, and not while a
\* page has its excuse; a call that begins after the job is deleted is not followed.
\* Counters that calls at once made wrong are not followed either.  What comes after a
\* handler ended half way, or left its job without a request, is one call at a time.
Bound ==
    /\ Cardinality(Outdated) <= 1
    /\ ~orderly \/ excused # {} => Handlers \cap Outdated = {}
    /\ CountersOff \/ broken # {} => orderly
    /\ Deleted # {} => Handlers \subseteq Outdated
    /\ broken # {} \/ Unfiled # {} \/ (CountersOff /\ Deleted = {}) =>
            Cardinality({c \in Calls : call[c] # None}) <= 1
=============================================================================
