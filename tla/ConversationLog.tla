--------------------------- MODULE ConversationLog ---------------------------
(***************************************************************************)
(* What the chat promises about a conversation, whatever caches, sessions  *)
(* and suspended handlers are behind it: nobody leaves a conversation or   *)
(* joins one in which something was said, and a message, once written,     *)
(* stays as it is and is by somebody who was a member then.                *)
(***************************************************************************)
EXTENDS Naturals, Sequences, FiniteSets

CONSTANTS Accounts, Conversations

VARIABLES
    members,  \* accounts in each conversation
    log       \* the messages: conversation and sender of each

vars == <<members, log>>

Init ==
    /\ members = [c \in Conversations |-> {}]
    /\ log = <<>>

\* The members come one by one, before the first message.
Join(c, u) ==
    /\ \A i \in 1..Len(log) : log[i].conv # c
    /\ members' = [members EXCEPT ![c] = @ \cup {u}]
    /\ UNCHANGED log

\* One message or several of one sender.
Post(c, sender) ==
    /\ sender \in members[c]
    /\ Len(log') > Len(log)
    /\ \A i \in 1..Len(log') :
        log'[i] = IF i <= Len(log) THEN log[i] ELSE [conv |-> c, sender |-> sender]
    /\ UNCHANGED members

Next ==
    \/ \E c \in Conversations : \E u \in Accounts : Join(c, u)
    \/ \E c \in Conversations : \E sender \in Accounts : Post(c, sender)

Spec == Init /\ [][Next]_vars
=============================================================================
