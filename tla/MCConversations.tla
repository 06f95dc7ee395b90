-------------------------- MODULE MCConversations --------------------------
EXTENDS Conversations, TLC

CONSTANTS b, u1, u2, s1, s2

MCContacts == {<<u1, b>>, <<u2, b>>}

MCUserOf == (s1 :> b) @@ (s2 :> u1)

\* Bounds: two sessions work while there is one conversation and one message at most,
\* one of them at a time behind the tables; the second message and the second
\* conversation are for one session; a group has no attachments; attachments and
\* second conversations come without conversations that were left half founded and
\* without lists that expire; one session works after a file was abandoned; no parent
\* is further ahead than the next message.
Bound ==
    LET live == {s \in Sessions : session[s] # None}
        made == {c \in Conversations : creator[c] # None}
        group == \E c \in Conversations : count[c] > 2 \/ u2 \in members[c]
        attached == ~(Used \cup UNION {session[s].todo \cap Names : s \in live} \subseteq {None})
        founded == \A c \in made :
            creator[c] \in members[c] \/ \E s \in live : Founding(s) /\ session[s].conv = c
        more == Cardinality(made) > 1 \/ attached
    IN  /\ Cardinality({s \in live : session[s].view # Now}) <= 1
        /\ Cardinality(live) > 1 => Cardinality(made) <= 1 /\ Len(messages) <= 1
        /\ Cardinality(made) > 1 => ~group /\ ~attached
        /\ ~group \/ ~attached
        /\ more => founded /\ expiring = {}
        /\ abandoned # {} => Cardinality(live) <= 1
        /\ \A s \in live : session[s].parent <= Len(messages) + 1

Symmetry == Permutations(Conversations)
=============================================================================
