--------------------------- MODULE MCApplications ---------------------------
EXTENDS Applications, TLC

\* Candidates are alike, campaigns are, and so are calls.
Alike == Permutations(Users) \cup Permutations(Campaigns) \cup Permutations(Calls)

\* The second campaign gets its job when the first has an application.
Bound == Cardinality({k \in Campaigns : campaign[k] # "closed"}) > 1 => nextId > 1
=============================================================================
