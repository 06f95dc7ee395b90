----------------------------- MODULE MCAccounts -----------------------------
EXTENDS Accounts, TLC

\* The ids that may be registered are alike, and so are the addresses.
Alike == Permutations(Ids) \cup Permutations(Addresses)

\* Two calls at a time when both change something and there was one
\* sign-in at most; two accounts signed in within the first minute and nobody out.
Bound ==
    LET busy == {c \in Calls : call[c] # Free}
    IN  /\ Cardinality(busy) > 1 =>
             (\A c \in busy : call[c].does # "nothing") /\ Cardinality(tokens) <= 2
        /\ Cardinality({t.id : t \in tokens}) > 1 => now = 0 /\ revoked = {}
=============================================================================
