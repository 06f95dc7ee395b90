------------------------------ MODULE JobReview ------------------------------
(***************************************************************************)
(* What the review of job advertisements promises, told without campaigns, *)
(* approval requests or handlers: an administrator stands between a text   *)
(* its owner writes and the text visitors find.                            *)
(*                                                                         *)
(* JobLifecycle implements this specification.                             *)
(***************************************************************************)
CONSTANTS
    Jobs,      \* advertisements
    Contents,  \* the texts an advertisement can have
    None       \* no text

VARIABLES
    public,    \* public[j]: the text visitors find for j, or None
    submitted  \* submitted[j]: the text an administrator may publish, or None

vars == <<public, submitted>>

Init ==
    /\ public = [j \in Jobs |-> None]
    /\ submitted = [j \in Jobs |-> None]

\* The owner puts a text up for review.  The advertisement leaves the site
\* until it is reviewed, and a text that was on the site is submitted as it is.
Submit(j, c) ==
    /\ public[j] # None => c = public[j]
    /\ public' = [public EXCEPT ![j] = None]
    /\ submitted' = [submitted EXCEPT ![j] = c]

\* An administrator publishes the text that is under review.
Publish(j) ==
    /\ submitted[j] # None
    /\ public' = [public EXCEPT ![j] = submitted[j]]
    /\ submitted' = [submitted EXCEPT ![j] = None]

\* The advertisement is rejected, stopped or deleted.
Withdraw(j) ==
    /\ public' = [public EXCEPT ![j] = None]
    /\ submitted' = [submitted EXCEPT ![j] = None]

Next ==
    \E j \in Jobs :
        \/ \E c \in Contents : Submit(j, c)
        \/ Publish(j)
        \/ Withdraw(j)

Spec == Init /\ [][Next]_vars
==============================================================================
