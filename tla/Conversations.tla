---------------------------- MODULE Conversations ----------------------------
(***************************************************************************)
(* Conversations, their members and messages, the cached list of a user's  *)
(* conversations and the uploads that wait for their message               *)
(* (app/core/conversation, app/core/message, the handlers of               *)
(* app/core/websocket, and the caches they use).  The sockets a message is *)
(* delivered to are in WebsocketManager.                                   *)
(*                                                                         *)
(* A session is one authenticated caller with its database session: an     *)
(* HTTP request, which makes one call, or a websocket, which makes one     *)
(* after the other.  The database fixes what a session reads at its        *)
(* authentication and again after each of its own commits (view); a        *)
(* websocket that only reads keeps the same view for hours.  What Redis    *)
(* answers is current.  A handler is atomic between two awaits, so each    *)
(* step that reads or writes Redis is an action.  So is each row of a new  *)
(* conversation: the requests that are authenticated meanwhile, in threads *)
(* of their own, see some of them.                                         *)
(***************************************************************************)
EXTENDS Naturals, Sequences, FiniteSets

CONSTANTS
    Users,          \* accounts of candidates
    Businesses,     \* accounts of businesses
    Contacts,       \* pairs of a candidate and a business it applied to
    Conversations,  \* conversation ids: never used twice
    Sessions,       \* HTTP requests and websockets at a time
    UserOf,         \* whose each of them is
    Names,          \* file names
    Files,          \* what is uploaded: a new file each time
    Images,         \* the files that are images
    None,           \* a missing entry
    MaxMessages,    \* bound: messages ever written
    Faults          \* what may fail: see FaultKinds

Accounts == Users \cup Businesses

\* A Redis call on a list fails, which the code survives; one on an upload fails,
\* which ends the handler; a handler dies between two rows.
FaultKinds == {"lists", "uploads", "rows"}

ASSUME ConstantsAssumption ==
    /\ Contacts \subseteq Users \X Businesses
    /\ UserOf \in [Sessions -> Accounts]
    /\ Images \subseteq Files
    /\ IsFiniteSet(Accounts)
    /\ None \notin Files \cup Accounts
    /\ MaxMessages \in Nat
    /\ Faults \subseteq FaultKinds

VARIABLES
    members,   \* the rows of conversation_member
    creator,   \* Conversation.account_id
    count,     \* Conversation.count_member
    messages,  \* the table message, with the attachments of each row
    listed,    \* the cached list of each account's conversations; {}: no key
    expiring,  \* the lists that have a time to live
    uploads,   \* the cached upload of each account, conversation and name
    abandoned, \* files sent by handlers that ended before they deleted the uploads (history)
    session    \* where each session is

vars == <<members, creator, count, messages, listed, expiring, uploads, abandoned, session>>
tables == <<members, creator, count, messages>>
files_kept == <<uploads, abandoned>>
caches == <<listed, expiring, files_kept>>

\* A row of the table.  opens marks the message a conversation was made for (history).
Message == [conv : Conversations, sender : Accounts, parent : 0..MaxMessages,
            files : SUBSET Files, opens : BOOLEAN]

\* The columns account_id and count_member of a conversation, and its members.
CreatorColumn == [Conversations -> Accounts \cup {None}]
CountColumn == [Conversations -> 0..Cardinality(Accounts)]
MemberTable == [Conversations -> SUBSET Accounts]

View == [members : MemberTable, upto : 0..MaxMessages]

\* Where a handler is suspended, or waits to be called.
Stage == {"list", "fill", "idle", "http", "rows", "open", "announce", "first",
          "attach", "member", "send", "files", "clean"}

Session == [at : Stage, view : View, conv : Conversations \cup {None},
            parent : 0..MaxMessages, todo : SUBSET (Accounts \cup Conversations \cup Names),
            names : SUBSET Names, files : SUBSET Files]

ASSUME SessionAssumption == None \notin Session

\* An upload waits under its account, conversation and name.
UploadKeys == Accounts \X Conversations \X Names
UploadCache == [UploadKeys -> Files \cup {None}]

TypeOK ==
    /\ members \in MemberTable
    /\ creator \in CreatorColumn
    /\ count \in CountColumn
    /\ messages \in Seq(Message) /\ Len(messages) <= MaxMessages
    /\ listed \in [Accounts -> SUBSET Conversations]
    /\ expiring \subseteq {u \in Accounts : listed[u] # {}}
    /\ uploads \in UploadCache
    /\ abandoned \subseteq Files
    /\ session \in [Sessions -> Session \cup {None}]

Init ==
    /\ members = [c \in Conversations |-> {}]
    /\ creator = [c \in Conversations |-> None]
    /\ count = [c \in Conversations |-> 0]
    /\ messages = <<>>
    /\ listed = [u \in Accounts |-> {}]
    /\ expiring = {}
    /\ uploads = [k \in UploadKeys |-> None]
    /\ abandoned = {}
    /\ session = [s \in Sessions |-> None]

-----------------------------------------------------------------------------
(* Sessions. *)

Now == [members |-> members, upto |-> Len(messages)]

\* A session that handles no message, and one that waits for its next message.
Blank(stage, view) == [at |-> stage, view |-> view, conv |-> None, parent |-> 0,
                       todo |-> {}, names |-> {}, files |-> {}]
Idle(s) == Blank("idle", session[s].view)

At(s, stage) == session[s] # None /\ session[s].at = stage

\* A request is authenticated: a websocket then asks for its list.
Authenticate(s, stage) ==
    /\ session[s] = None
    /\ session' = [session EXCEPT ![s] = Blank(stage, Now)]
    /\ UNCHANGED <<tables, caches>>

\* The members of a new conversation are being written.
Founding(s) == At(s, "rows") \/ At(s, "open")

\* A request is answered, a websocket disconnects, or an exception nobody catches ends
\* a handler: between two rows, or before the uploads of a message that was sent are
\* deleted, when something fails.
Close(s) ==
    /\ session[s] # None
    /\ Founding(s) => "rows" \in Faults
    /\ At(s, "clean") => "uploads" \in Faults
    /\ abandoned' = abandoned \cup IF At(s, "clean") THEN session[s].files ELSE {}
    /\ session' = [session EXCEPT ![s] = None]
    /\ UNCHANGED <<tables, listed, expiring, uploads>>

-----------------------------------------------------------------------------
(* The cached list of a user's conversations. *)

\* RPUSH: the key is made when it is missing, and has no time to live then.
AppendToList(u, c) ==
    /\ listed' = [listed EXCEPT ![u] = @ \cup {c}]
    /\ UNCHANGED <<expiring, files_kept>>

\* A websocket connects and asks for its list; without one the ids are read
\* from the table, as the session sees it, and appended one by one.
BugFillAll(s) ==
    /\ At(s, "list")
    /\ session' = [session EXCEPT ![s].at = "fill", ![s].todo = Conversations]
    /\ UNCHANGED <<tables, caches>>
ReadList(s) ==
    LET u == UserOf[s] IN
    /\ At(s, "list")
    /\ \/ /\ listed[u] # {}
          /\ session' = [session EXCEPT ![s].at = "idle"]
       \/ /\ listed[u] = {} \/ "lists" \in Faults
          /\ session' = [session EXCEPT ![s].at = "fill",
                ![s].todo = {c \in Conversations : u \in session[s].view.members[c]}]
    /\ UNCHANGED <<tables, caches>>

FillList(s, c) ==
    /\ At(s, "fill")
    /\ c \in session[s].todo
    /\ AppendToList(UserOf[s], c)
    /\ session' = [session EXCEPT ![s].todo = @ \ {c}]
    /\ UNCHANGED tables

BugExpireNothing(s) ==
    /\ At(s, "fill")
    /\ session[s].todo = {}
    /\ expiring' = expiring \cup {UserOf[s]}
    /\ session' = [session EXCEPT ![s] = Idle(s)]
    /\ UNCHANGED <<tables, listed, files_kept>>
\* EXPIRE, unless Redis failed before: then the list stays as it is.
FilledList(s) ==
    /\ At(s, "fill")
    /\ \/ /\ session[s].todo = {}
          /\ expiring' = expiring \cup {u \in {UserOf[s]} : listed[u] # {}}
       \/ "lists" \in Faults /\ UNCHANGED expiring
    /\ session' = [session EXCEPT ![s] = Idle(s)]
    /\ UNCHANGED <<tables, listed, files_kept>>

ExpireList(u) ==
    /\ u \in expiring
    /\ listed' = [listed EXCEPT ![u] = {}]
    /\ expiring' = expiring \ {u}
    /\ UNCHANGED <<tables, files_kept, session>>

-----------------------------------------------------------------------------
(* New conversations. *)

\* conversation_member.get_by_account_ids
Connected(v, group) == \E c \in Conversations : v.members[c] = group

\* conversation.get_private_conversation asks for one row that is of both.
PrivateOf(v, u, w) == {c \in Conversations : \E row \in v.members[c] : row = u /\ row = w}

\* A candidate and a business it applied to.
RelatedByJob(u, w) == <<u, w>> \in Contacts \/ <<w, u>> \in Contacts

\* A pair, or a business and candidates of its.
MayContact(u, others) ==
    \/ \E w \in others : others = {w} /\ RelatedByJob(u, w)
    \/ Cardinality(others) > 1 /\ u \in Businesses /\ others \X {u} \subseteq Contacts

\* Whom the row names as the creator: of a pair it is the one that was called on.
CreatorOf(u, others) == IF Cardinality(others) = 1 THEN CHOOSE w \in others : TRUE ELSE u

\* The row of the conversation is committed first; its members are to follow.
CreateRow(s, c, others, stage, parent) ==
    LET group == others \cup {UserOf[s]} IN
    /\ creator[c] = None
    /\ creator' = [creator EXCEPT ![c] = CreatorOf(UserOf[s], others)]
    /\ count' = [count EXCEPT ![c] = Cardinality(group)]
    /\ session' = [session EXCEPT ![s] =
        [Blank(stage, Now) EXCEPT !.conv = c, !.parent = parent, !.todo = group]]
    /\ UNCHANGED <<members, messages, caches>>

\* ConversationService.create, which leaves the cached lists as they are.
CreateByRequest(s, c, others) ==
    /\ At(s, "http")
    /\ UserOf[s] \notin others
    /\ MayContact(UserOf[s], others)
    /\ Cardinality(others) = 1 => \A w \in others : PrivateOf(session[s].view, UserOf[s], w) = {}
    /\ Cardinality(others) > 1 => ~Connected(session[s].view, others \cup {UserOf[s]})
    /\ CreateRow(s, c, others, "rows", 0)

\* A message without a conversation makes one.  Its parent is not looked at.
CreateByMessage(s, c, others, parent) ==
    /\ At(s, "idle")
    /\ UserOf[s] \notin others
    /\ MayContact(UserOf[s], others)
    /\ ~Connected(session[s].view, others \cup {UserOf[s]})
    /\ CreateRow(s, c, others, "open", parent)

\* The members are committed one by one, the one who is named the creator last:
\* create_private_conversation is given the two the other way round.
BugAddMember(s, u) ==
    LET left == session[s].todo \ {u}
        c == session[s].conv
    IN  /\ Founding(s)
        /\ u \in session[s].todo
        /\ members' = [members EXCEPT ![c] = @ \cup {u}]
        /\ UNCHANGED <<creator, count, messages, caches>>
        /\ session' = [session EXCEPT ![s] =
            IF left # {} THEN [@ EXCEPT !.todo = left, !.view = Now']
            ELSE IF At(s, "rows") THEN None
            ELSE [@ EXCEPT !.at = "announce", !.todo = members'[c], !.view = Now']]
AddMember(s, u) ==
    LET left == session[s].todo \ {u}
        c == session[s].conv
    IN  /\ Founding(s)
        /\ u \in session[s].todo
        /\ u = creator[c] => left = {}
        /\ members' = [members EXCEPT ![c] = @ \cup {u}]
        /\ UNCHANGED <<creator, count, messages, caches>>
        /\ session' = [session EXCEPT ![s] =
            IF left # {} THEN [@ EXCEPT !.todo = left, !.view = Now']
            ELSE IF At(s, "rows") THEN None
            ELSE [@ EXCEPT !.at = "announce", !.todo = members'[c], !.view = Now']]

\* The new conversation is appended to the list of one member after the other.
Announce(s, u) ==
    /\ At(s, "announce")
    /\ u \in session[s].todo
    /\ AppendToList(u, session[s].conv)
    /\ session' = [session EXCEPT ![s].todo = @ \ {u}]
    /\ UNCHANGED tables

\* A Redis that fails ends the loop, not the handler.
Announced(s) ==
    /\ At(s, "announce")
    /\ session[s].todo = {} \/ "lists" \in Faults
    /\ session' = [session EXCEPT ![s].at = "first", ![s].todo = {}]
    /\ UNCHANGED <<tables, caches>>

-----------------------------------------------------------------------------
(* Messages. *)

\* A message for a conversation comes in, with the names of its attachments.
ReceiveMessage(s, c, parent, names) ==
    /\ At(s, "idle")
    /\ session' = [session EXCEPT ![s].at = IF names = {} THEN "member" ELSE "attach",
                                  ![s].conv = c, ![s].parent = parent, ![s].todo = names]
    /\ UNCHANGED <<tables, caches>>

Entry(s, n) == <<UserOf[s], session[s].conv, n>>

\* One attachment is looked up; a name that has no upload is dropped.
CheckAttachment(s, n) ==
    /\ At(s, "attach")
    /\ n \in session[s].todo
    /\ LET found == {uploads[Entry(s, n)]} \ {None} IN
        session' = [session EXCEPT ![s].todo = @ \ {n},
                                   ![s].names = IF found = {} THEN @ ELSE @ \cup {n},
                                   ![s].files = @ \cup found]
    /\ UNCHANGED <<tables, caches>>

CheckedAttachments(s) ==
    /\ At(s, "attach")
    /\ session[s].todo = {}
    /\ session' = [session EXCEPT ![s] =
        IF session[s].files = {} THEN Idle(s) ELSE [@ EXCEPT !.at = "member"]]
    /\ UNCHANGED <<tables, caches>>

\* A list that is cached decides; the table is asked, as the session sees it, when
\* there is none.
IsJoined(s, byTable) ==
    /\ byTable \/ session[s].conv \in listed[UserOf[s]]
    /\ byTable => UserOf[s] \in session[s].view.members[session[s].conv]

\* check_parent_message
IsParent(s) ==
    LET p == session[s].parent IN
    p = 0 \/ (p <= session[s].view.upto /\ messages[p].conv = session[s].conv)

BugBelieveSender(s) ==
    /\ At(s, "member")
    /\ session' = [session EXCEPT ![s].at = "send"]
    /\ UNCHANGED <<tables, caches>>
BugAnyParent(s) ==
    /\ At(s, "member")
    /\ session' = [session EXCEPT ![s] =
        IF IsJoined(s, listed[UserOf[s]] = {}) /\ session[s].parent <= session[s].view.upto
        THEN [@ EXCEPT !.at = "send"] ELSE Idle(s)]
    /\ UNCHANGED <<tables, caches>>
CheckMember(s) ==
    /\ At(s, "member")
    /\ \E byTable \in {listed[UserOf[s]] = {}} \cup {"lists" \in Faults} :
        session' = [session EXCEPT ![s] =
            IF IsJoined(s, byTable) /\ IsParent(s) THEN [@ EXCEPT !.at = "send"] ELSE Idle(s)]
    /\ UNCHANGED <<tables, caches>>

Row(s, files) == [conv |-> session[s].conv, sender |-> UserOf[s],
                  parent |-> session[s].parent, files |-> files, opens |-> At(s, "first")]

\* A text is a row of its own, broadcast before the rows of its attachments are written.
\* The foreign key of its parent accepts the row itself; it refuses one that names a
\* message to come, which ends the handler (Close).
SendText(s) ==
    /\ At(s, "send") \/ At(s, "first")
    /\ Len(messages) < MaxMessages
    /\ session[s].parent <= Len(messages) + 1
    /\ messages' = Append(messages, Row(s, {}))
    /\ UNCHANGED <<members, creator, count, caches>>
    /\ session' = [session EXCEPT ![s] =
        IF @.files = {} THEN Blank("idle", Now')
                        ELSE [@ EXCEPT !.at = "files", !.view = Now']]

\* The images share one row, every other file has its own.
Parcels(files) == ({files \cap Images} \cup {{f} : f \in files \ Images}) \ {{}}

\* A handler that dies on the way has written some of the rows, the last one of
\* them perhaps with some of its files.
SendFiles(s) ==
    LET parcels == Parcels(session[s].files)
        all == Cardinality(parcels)
    IN  /\ At(s, "send") \/ At(s, "files")
        /\ parcels # {}
        /\ Len(messages) + all <= MaxMessages
        /\ UNCHANGED <<members, creator, count, listed, expiring, uploads>>
        /\ \E order \in [1..all -> parcels] : \E k \in 1..all : \E part \in SUBSET order[k] :
            LET done == k = all /\ part = order[k]
                sent == [i \in 1..k |-> IF i = k THEN part ELSE order[i]]
            IN  /\ \A p \in parcels : \E i \in 1..all : order[i] = p
                /\ done \/ "rows" \in Faults
                /\ messages' = messages \o [i \in 1..k |-> Row(s, sent[i])]
                /\ abandoned' = abandoned \cup
                    IF done THEN {} ELSE UNION {sent[i] : i \in 1..k}
                /\ session' = [session EXCEPT ![s] =
                    IF done THEN [@ EXCEPT !.at = "clean", !.view = Now'] ELSE None]

\* The entries of the attachments are deleted one by one, whatever they hold by now.
Forget(s, n) == [session[s] EXCEPT !.names = @ \ {n}]
BugKeepUpload(s, n) ==
    /\ At(s, "clean")
    /\ n \in session[s].names
    /\ session' = [session EXCEPT ![s] =
        IF session[s].names = {n} THEN Idle(s) ELSE Forget(s, n)]
    /\ UNCHANGED <<tables, caches>>
DeleteUpload(s, n) ==
    /\ At(s, "clean")
    /\ n \in session[s].names
    /\ uploads' = [uploads EXCEPT ![Entry(s, n)] = None]
    /\ session' = [session EXCEPT ![s] =
        IF session[s].names = {n} THEN Idle(s) ELSE Forget(s, n)]
    /\ UNCHANGED <<tables, listed, expiring, abandoned>>

Used == UNION ({messages[i].files : i \in 1..Len(messages)}
               \cup {session[s].files : s \in {x \in Sessions : session[x] # None}}
               \cup {{uploads[k]} : k \in UploadKeys})

\* An upload replaces the one of the same name.  A file that cannot be cached is lost.
UploadAttachment(s, c, n, file) ==
    /\ At(s, "http")
    /\ UserOf[s] \in session[s].view.members[c]
    /\ file \notin Used
    /\ uploads' = [uploads EXCEPT ![<<UserOf[s], c, n>>] = file]
    /\ session' = [session EXCEPT ![s] = None]
    /\ UNCHANGED <<tables, listed, expiring, abandoned>>

ExpireUpload(k) ==
    /\ uploads[k] # None
    /\ uploads' = [uploads EXCEPT ![k] = None]
    /\ UNCHANGED <<tables, listed, expiring, abandoned, session>>

-----------------------------------------------------------------------------
\* Between two rows of a conversation a handler does not wait, so the loop runs no other.
LoopFree(s) == \A x \in Sessions \ {s} : ~Founding(x)

Handle(s) ==
    \/ Authenticate(s, "list")
    \/ Close(s)
    \/ ReadList(s) \/ FilledList(s)
    \/ \E c \in Conversations : FillList(s, c)
    \/ \E c \in Conversations : \E others \in SUBSET Accounts : CreateByRequest(s, c, others)
    \/ \E c \in Conversations : \E others \in SUBSET Accounts : \E parent \in 0..MaxMessages :
        CreateByMessage(s, c, others, parent)
    \/ \E u \in Accounts : AddMember(s, u)
    \/ \E u \in Accounts : Announce(s, u)
    \/ Announced(s)
    \/ \E c \in Conversations : \E parent \in 0..MaxMessages : \E names \in SUBSET Names :
        ReceiveMessage(s, c, parent, names)
    \/ \E n \in Names : CheckAttachment(s, n)
    \/ CheckedAttachments(s) \/ CheckMember(s) \/ SendText(s) \/ SendFiles(s)
    \/ \E n \in Names : DeleteUpload(s, n)
    \/ \E c \in Conversations : \E n \in Names : \E file \in Files : UploadAttachment(s, c, n, file)

Step(s) == Authenticate(s, "http") \/ (LoopFree(s) /\ Handle(s))

Next ==
    \/ \E s \in Sessions : Step(s)
    \/ \E u \in Accounts : ExpireList(u)
    \/ \E k \in UploadKeys : ExpireUpload(k)

Spec == Init /\ [][Next]_vars

-----------------------------------------------------------------------------
(* Properties. *)

\* The cached list of a user names only conversations it is a member of, although it
\* is filled from a snapshot that may be hours old, appended to by other
\* users' handlers, and expires in between (message_cache_service.py).
ListedAreMembers ==
    \A u \in Accounts : \A c \in listed[u] : u \in members[c]

\* Whoever finds the creator of a conversation in it finds it whole, and so does
\* whoever reads the message it was made for, at any moment and also when a handler
\* died between two rows: the creator's row is the last (create_conversation_members).
CompleteConversation ==
    \A c \in Conversations :
        \/ creator[c] \in members[c]
        \/ \E i \in 1..Len(messages) : messages[i].conv = c /\ messages[i].opens
        => Cardinality(members[c]) = count[c]

\* A message answers an older one of its conversation.  The one message a
\* conversation was made for may answer one of elsewhere, or itself, because nothing
\* but the foreign key looks at its parent (websocket_handler.py:94-120).
RepliesStay ==
    /\ \A i \in 1..Len(messages) :
        LET p == messages[i].parent IN
        p # 0 => \/ p < i /\ messages[p].conv = messages[i].conv
                 \/ p <= i /\ messages[i].opens
    /\ \A i, j \in 1..Len(messages) :
        messages[i].opens /\ messages[j].opens /\ messages[i].conv = messages[j].conv => i = j

\* An upload that was sent is out of the cache, or will be when the handler that
\* sent it is done, so that no later message finds it again (websocket_helper.py:236):
\* unless that handler, or one that sent it at the same time, ended before it.
SentUploadsGone ==
    \A k \in UploadKeys : \A i \in 1..Len(messages) :
        uploads[k] \in messages[i].files =>
            \/ \E s \in Sessions : At(s, "clean") /\ uploads[k] \in session[s].files
            \/ uploads[k] \in abandoned

\* Messages are written by members of their conversation and never change; nobody
\* leaves a conversation, or joins one in which a message was written: the decision on
\* a cached list and the write after it are separate steps (is_join_conversation).
Log == INSTANCE ConversationLog WITH
    log <- [i \in 1..Len(messages) |->
               [conv |-> messages[i].conv, sender |-> messages[i].sender]]
LogSpec == Log!Spec
=============================================================================
