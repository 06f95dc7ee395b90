-------------------------- MODULE WebsocketManager --------------------------
(***************************************************************************)
(* The websockets of the process, the conversations they are in, and the   *)
(* listener tasks that hand them what Redis publishes                      *)
(* (app/core/websocket/websocket_manager.py, pubsub_manager.py, and the    *)
(* parts of websocket_service.py, websocket_handler.py and                 *)
(* conversation_service.py that use them).                                 *)
(*                                                                         *)
(* The manager keeps one pub/sub object, and each conversation that gets   *)
(* its first socket replaces it by a new one.  A task is suspended only    *)
(* while Redis answers (subscribe, unsubscribe, close) and while a text is *)
(* sent to a socket; what it does between two suspensions is one action.   *)
(* Objects are numbered in the order they are made; the newest is the one  *)
(* the manager holds.                                                      *)
(***************************************************************************)
EXTENDS Naturals, Sequences, FiniteSets

CONSTANTS
    Users,
    Sockets,        \* websockets; each connects once
    Requests,       \* requests that make conversations
    UserOf,         \* whose each of them is
    Conversations,
    MemberOf,       \* the accounts in each conversation
    Old,            \* conversations there are from the start
    None,
    MaxObjects,     \* bound: pub/sub objects ever made
    MaxMessages     \* bound: messages ever published

ASSUME ConstantsAssumption ==
    /\ Sockets \cap Requests = {} /\ IsFiniteSet(Sockets \cup Requests)
    /\ UserOf \in [Sockets \cup Requests -> Users]
    /\ MemberOf \in [Conversations -> SUBSET Users]
    /\ Old \subseteq Conversations /\ IsFiniteSet(Conversations)
    /\ MaxObjects \in Nat /\ MaxMessages \in Nat

VARIABLES
    made,        \* conversations that exist
    users,       \* user_id_to_websocket
    sets,        \* WebsocketManager.conversations; None: no key
    objects,     \* what each pub/sub object is subscribed to; None: it has no connection
    inbox,       \* messages waiting at each object
    listener,    \* the listener each subscription started; None: not yet, or ended
    socket,      \* where the handler of each socket and request is
    sent,        \* the conversations of the messages published
    got,         \* how often each socket was sent each message
    emptied      \* history: conversations whose last socket left

vars == <<made, users, sets, objects, inbox, listener, socket, sent, got, emptied>>

Handlers == Sockets \cup Requests
Objects == 1..MaxObjects
Messages == 1..MaxMessages
Pubsub == Len(objects)

\* "join": connecting; "open": waiting for a message; "make": adding the members of a
\* new conversation; "leave": disconnected; "gone": left; "dead": its handler raised.
Stage == {"new", "join", "open", "make", "leave", "gone", "dead"}

Lists == UNION {[1..n -> Conversations] : n \in 0..Cardinality(Conversations)}

\* ids: the conversations read at connection; todo: those still to join or leave;
\* wait: the object being subscribed to; conv, first: the conversation being made and
\* the members' sockets as they were when its loop was suspended.
Handler == [at : Stage, ids : Lists, todo : Lists, wait : 0..MaxObjects,
            conv : Conversations \cup {None}, first : SUBSET Sockets]

\* set: the sockets in the conversation when the listener looked last; todo: those it
\* has still to come by; were: history, those in the conversation when it began.
Listener == [on : Objects, msg : 0..MaxMessages, set : SUBSET Sockets, todo : SUBSET Sockets,
             were : SUBSET Sockets]
ASSUME NoneAssumption ==
    /\ \A set \in SUBSET Sockets : set # None
    /\ \A topics \in SUBSET Conversations : topics # None
    /\ \A one \in Listener : one # None

AtRest(q) == [on |-> q, msg |-> 0, set |-> {}, todo |-> {}, were |-> {}]

TypeOK ==
    /\ Old \subseteq made /\ made \subseteq Conversations
    /\ users \in [Users -> SUBSET Sockets]
    /\ sets \in [Conversations -> ((SUBSET Sockets) \ {{}}) \cup {None}]
    /\ objects \in Seq((SUBSET Conversations) \cup {None}) /\ Pubsub <= MaxObjects
    /\ inbox \in [Objects -> Seq(Messages)]
    /\ listener \in [Objects -> Listener \cup {None}]
    /\ socket \in [Handlers -> Handler]
    /\ sent \in Seq(Conversations) /\ Len(sent) <= MaxMessages
    /\ got \in [Sockets -> [Messages -> Nat]]
    /\ emptied \subseteq Conversations

Init ==
    /\ made = Old
    /\ users = [u \in Users |-> {}]
    /\ sets = [c \in Conversations |-> None]
    /\ objects = <<>>
    /\ inbox = [p \in Objects |-> <<>>]
    /\ listener = [p \in Objects |-> None]
    /\ socket = [x \in Handlers |-> [at |-> IF x \in Sockets THEN "new" ELSE "open", ids |-> <<>>, todo |-> <<>>, wait |-> 0,
                                    conv |-> None, first |-> {}]]
    /\ sent = <<>>
    /\ got = [w \in Sockets |-> [m \in Messages |-> 0]]
    /\ emptied = {}

At(w, stage) == socket[w].at = stage
SetOf(c) == IF sets[c] = None THEN {} ELSE sets[c]

\* The sockets of the members of a conversation.
BugMembers(c) == UNION {users[u] : u \in Users}
Members(c) == UNION {users[u] : u \in MemberOf[c]}

\* Where a loop over list stops first.
First(stops, list) ==
    IF stops = {} THEN Len(list) + 1 ELSE CHOOSE i \in stops : \A j \in stops : i <= j

-----------------------------------------------------------------------------
(* Joining. *)

\* A socket connects with the list of its user's conversations, which may be partial
\* and, when two fills overlapped, name a conversation twice.
Connect(w, ids) ==
    /\ At(w, "new")
    /\ \A i \in DOMAIN ids : ids[i] \in made /\ UserOf[w] \in MemberOf[ids[i]]
    /\ users' = [users EXCEPT ![UserOf[w]] = @ \cup {w}]
    /\ socket' = [socket EXCEPT ![w].at = "join", ![w].ids = ids, ![w].todo = ids]
    /\ UNCHANGED <<made, sets, objects, inbox, listener, sent, got, emptied>>

\* w is added to the conversations that have sockets, and opens c, whose key is there
\* before the subscription is awaited.
BugJoined(w, known, c) ==
    [d \in Conversations |-> IF d \in known THEN sets[d] \cup {w} ELSE sets[d]]
Joined(w, known, c) ==
    [d \in Conversations |-> IF d \in known \cup {c} THEN SetOf(d) \cup {w} ELSE sets[d]]

\* add_conversation for one conversation of the list after the other, up to one that
\* has no sockets: it gets a new object, and the loop waits for the subscription.
JoinConversations(w) ==
    LET todo == socket[w].todo
        n == First({i \in DOMAIN todo : sets[todo[i]] = None}, todo)
        known == {todo[i] : i \in 1..(n - 1)}
    IN
    /\ At(w, "join") /\ socket[w].wait = 0
    /\ IF n > Len(todo)
       THEN /\ sets' = [c \in Conversations |-> IF c \in known THEN sets[c] \cup {w} ELSE sets[c]]
            /\ socket' = [socket EXCEPT ![w].at = "open", ![w].todo = <<>>]
            /\ UNCHANGED objects
       ELSE /\ Pubsub < MaxObjects
            /\ objects' = Append(objects, None)
            /\ sets' = Joined(w, known, todo[n])
            /\ socket' = [socket EXCEPT ![w].wait = Pubsub + 1,
                                        ![w].todo = SubSeq(todo, n, Len(todo))]
    /\ UNCHANGED <<made, users, inbox, listener, sent, got, emptied>>

\* Redis subscribed the object the call began with; the listener is started on the one
\* the manager holds by now.
StartListener(p, c) ==
    /\ objects' = [objects EXCEPT ![p] = {c}]
    /\ listener' = [listener EXCEPT ![p] = AtRest(Pubsub)]

Subscribed(w) ==
    /\ At(w, "join") /\ socket[w].wait # 0
    /\ StartListener(socket[w].wait, Head(socket[w].todo))
    /\ socket' = [socket EXCEPT ![w].wait = 0, ![w].todo = Tail(@)]
    /\ UNCHANGED <<made, users, sets, inbox, sent, got, emptied>>

-----------------------------------------------------------------------------
(* Messages and new conversations. *)

\* A message for every object that is subscribed by now.
Deliver(c) ==
    /\ sent' = Append(sent, c)
    /\ inbox' = [p \in Objects |->
        IF p <= Pubsub /\ objects'[p] = {c} THEN Append(inbox[p], Len(sent) + 1) ELSE inbox[p]]

\* Messages that may still be published: one is kept for each conversation in the making.
Room == Len(sent) + Cardinality({x \in Handlers : At(x, "make")}) < MaxMessages

\* A member sends.  Without any connection yet there is no client to publish with.
Broadcast(w, c) ==
    /\ At(w, "open")
    /\ c \in made /\ UserOf[w] \in MemberOf[c]
    /\ Pubsub > 0 /\ Room
    /\ UNCHANGED objects
    /\ Deliver(c)
    /\ UNCHANGED <<made, users, sets, listener, socket, got, emptied>>

\* A conversation is committed, by a socket or by a request; its members' sockets are
\* added later.
NewConversation(x, c) ==
    /\ At(x, "open")
    /\ c \notin made /\ UserOf[x] \in MemberOf[c]
    /\ Room
    /\ made' = made \cup {c}
    /\ socket' = [socket EXCEPT ![x].at = "make", ![x].conv = c]
    /\ UNCHANGED <<users, sets, objects, inbox, listener, sent, got, emptied>>

\* The first of the members' sockets opens the conversation, unless a socket that
\* connected meanwhile did.
OpenConversation(x) ==
    LET c == socket[x].conv IN
    /\ At(x, "make") /\ socket[x].wait = 0
    /\ sets[c] = None
    /\ Pubsub < MaxObjects
    /\ objects' = Append(objects, None)
    /\ \E u \in MemberOf[c] : \E w \in users[u] :
        /\ sets' = [sets EXCEPT ![c] = {w}]
        /\ socket' = [socket EXCEPT ![x].wait = Pubsub + 1, ![x].first = users[u]]
    /\ UNCHANGED <<made, users, inbox, listener, sent, got, emptied>>

\* The loop over the members' sockets runs to its end and the conversation is announced;
\* a set of sockets that changed while the loop was suspended ends the handler.
AddMembers(x) ==
    LET c == socket[x].conv
        waited == socket[x].wait # 0
        changed == waited /\ \A u \in MemberOf[c] : users[u] # socket[x].first
    IN
    /\ At(x, "make")
    /\ waited \/ sets[c] # None \/ Members(c) = {}
    /\ IF waited THEN StartListener(socket[x].wait, c) ELSE UNCHANGED <<objects, listener>>
    /\ IF changed \/ Members(c) = {} THEN UNCHANGED sets
       ELSE sets' = [sets EXCEPT ![c] = SetOf(c) \cup Members(c)]
    /\ IF changed \/ Pubsub = 0 THEN UNCHANGED <<sent, inbox>> ELSE Deliver(c)
    /\ socket' = [socket EXCEPT ![x].at = IF changed THEN "dead" ELSE "open",
                                ![x].wait = 0, ![x].conv = None, ![x].first = {}]
    /\ UNCHANGED <<made, users, got, emptied>>

-----------------------------------------------------------------------------
(* Listeners. *)

Ended(p) == listener' = [listener EXCEPT ![p] = None]
Waiting(p) == listener[p] # None /\ listener[p].msg = 0
Current(p) == SetOf(sent[listener[p].msg])

\* The next message is for the sockets its conversation has now; without any the
\* lookup raises.
TakeMessage(p) ==
    LET q == listener[p].on
        m == Head(inbox[q])
    IN
    /\ Waiting(p)
    /\ inbox[q] # <<>>
    /\ inbox' = [inbox EXCEPT ![q] = Tail(@)]
    /\ IF sets[sent[m]] = None THEN Ended(p)
       ELSE listener' = [listener EXCEPT ![p] =
        [on |-> q, msg |-> m, set |-> sets[sent[m]], todo |-> sets[sent[m]], were |-> sets[sent[m]]]]
    /\ UNCHANGED <<made, users, sets, objects, socket, sent, got, emptied>>

Closed(w) == socket[w].at \in {"leave", "gone", "dead"}

\* One text to one socket; one that is closed may raise.
BugSendText(p, w) ==
    /\ listener[p] # None /\ w \in listener[p].todo
    /\ listener[p].todo = listener[p].set \/ Current(p) = listener[p].set
    /\ listener' = [listener EXCEPT ![p].todo = {}]
    /\ got' = [got EXCEPT ![w][listener[p].msg] = IF Closed(w) THEN @ ELSE @ + 1]
    /\ UNCHANGED <<made, users, sets, objects, inbox, socket, sent, emptied>>
SendText(p, w) ==
    /\ listener[p] # None /\ w \in listener[p].todo
    /\ listener[p].todo = listener[p].set \/ Current(p) = listener[p].set
    /\ \/ listener' = [listener EXCEPT ![p].todo = @ \ {w}]
       \/ Closed(w) /\ Ended(p)
    /\ got' = [got EXCEPT ![w][listener[p].msg] = IF Closed(w) THEN @ ELSE @ + 1]
    /\ UNCHANGED <<made, users, sets, objects, inbox, socket, sent, emptied>>

\* The iteration goes on, or is over.  Whoever came meanwhile may be ahead of it or
\* behind; but a set of another size, or one that was emptied, raises.
BugNextSocket(p) ==
    /\ listener[p] # None /\ listener[p].msg # 0 /\ listener[p].todo = {}
    /\ listener' = [listener EXCEPT ![p] = AtRest(@.on)]
    /\ UNCHANGED <<made, users, sets, objects, inbox, socket, sent, got, emptied>>
NextSocket(p) ==
    LET set == listener[p].set
        left == listener[p].todo \cap Current(p)
    IN
    /\ listener[p] # None /\ listener[p].msg # 0
    /\ listener[p].todo # set \/ set = {}
    /\ listener[p].todo = {} \/ Current(p) # set
    /\ IF set = {} \/ Cardinality(Current(p)) # Cardinality(set) THEN Ended(p)
       ELSE \E ahead \in SUBSET (Current(p) \ set) :
        listener' = [listener EXCEPT ![p] =
            IF left \cup ahead = {} THEN AtRest(@.on)
            ELSE [@ EXCEPT !.set = Current(p), !.todo = left \cup ahead]]
    /\ UNCHANGED <<made, users, sets, objects, inbox, socket, sent, got, emptied>>

\* Reading from an object that is closed, or that nobody has subscribed with yet, raises.
ReadUnconnected(p) ==
    /\ Waiting(p)
    /\ objects[listener[p].on] = None
    /\ Ended(p)
    /\ UNCHANGED <<made, users, sets, objects, inbox, socket, sent, got, emptied>>

-----------------------------------------------------------------------------
(* Leaving. *)

Disconnect(w) ==
    /\ At(w, "open")
    /\ users' = [users EXCEPT ![UserOf[w]] = @ \ {w}]
    /\ socket' = [socket EXCEPT ![w].at = "leave", ![w].todo = socket[w].ids]
    /\ UNCHANGED <<made, sets, objects, inbox, listener, sent, got, emptied>>

\* Sets without w; the key of a set that gets empty is deleted.
BugKeepOthers(w, left, last) == [c \in Conversations |-> IF c \in last THEN None ELSE sets[c]]
BugKeepKey(w, left, last) ==
    [c \in Conversations |-> IF c \in left \cup last THEN sets[c] \ {w} ELSE sets[c]]
Without(w, left, last) ==
    [c \in Conversations |->
        IF c \in last THEN None ELSE IF c \in left THEN sets[c] \ {w} ELSE sets[c]]

\* The newest object, if there is one, is told to unsubscribe, or is closed.
Newest(subscribed) ==
    IF Pubsub = 0 THEN objects ELSE [objects EXCEPT ![Pubsub] = subscribed]

\* The listeners that hand out a message of a conversation that got empty: theirs is
\* the set that was deleted, not one that comes after it.
Stranded(last) ==
    [p \in Objects |->
        IF listener[p] # None /\ listener[p].msg # 0 /\ sent[listener[p].msg] \in last
        THEN [listener[p] EXCEPT !.set = {}, !.todo = {}] ELSE listener[p]]

\* remove_conversations for one conversation of the list after the other.  Where the last
\* socket leaves, the key is deleted and the newest object, whichever was subscribed,
\* is told to unsubscribe, which is awaited.  A conversation without the socket raises,
\* and ends the handler.  After the last the newest object is closed.
LeaveConversations(w) ==
    LET todo == socket[w].todo
        again(i) == w \notin SetOf(todo[i]) \/ \E k \in 1..(i - 1) : todo[k] = todo[i]
        n == First({i \in DOMAIN todo : again(i) \/ sets[todo[i]] = {w}}, todo)
        left == {todo[i] : i \in 1..(n - 1)}
        newest == IF Pubsub = 0 \/ objects[Pubsub] = None THEN {} ELSE objects[Pubsub]
        last == IF n <= Len(todo) /\ ~again(n) THEN {todo[n]} ELSE {}
    IN
    /\ At(w, "leave")
    /\ sets' = Without(w, left, last)
    /\ emptied' = emptied \cup last
    /\ listener' = Stranded(last)
    /\ IF n > Len(todo)
       THEN /\ objects' = Newest(None)
            /\ inbox' = [p \in Objects |-> IF p = Pubsub THEN <<>> ELSE inbox[p]]
       ELSE /\ objects' = IF last = {} THEN objects ELSE Newest(newest \ last)
            /\ UNCHANGED inbox
    /\ socket' = [socket EXCEPT
        ![w].at = IF n > Len(todo) THEN "gone" ELSE IF last = {} THEN "dead" ELSE @,
        ![w].todo = IF last = {} THEN <<>> ELSE SubSeq(todo, n + 1, Len(todo))]
    /\ UNCHANGED <<made, users, sent, got>>

\* An exception the receive loop does not catch: nothing is cleaned up.
Fail(w) ==
    /\ At(w, "open")
    /\ socket' = [socket EXCEPT ![w].at = "dead"]
    /\ UNCHANGED <<made, users, sets, objects, inbox, listener, sent, got, emptied>>

-----------------------------------------------------------------------------
Listen(p) ==
    \/ TakeMessage(p) \/ NextSocket(p)
    \/ ReadUnconnected(p)
    \/ \E w \in Sockets : SendText(p, w)

Next ==
    \/ \E w \in Sockets :
        \/ \E ids \in Lists : Connect(w, ids)
        \/ JoinConversations(w) \/ Subscribed(w)
        \/ \E c \in Conversations : Broadcast(w, c)
        \/ Disconnect(w) \/ LeaveConversations(w) \/ Fail(w)
    \/ \E x \in Handlers :
        \/ \E c \in Conversations : NewConversation(x, c)
        \/ OpenConversation(x) \/ AddMembers(x)
    \/ \E p \in Objects : Listen(p)

\* The loop resumes a listener whenever Redis or the socket answers.
Fairness == \A p \in Objects : WF_vars(Listen(p))

Spec == Init /\ [][Next]_vars /\ Fairness

-----------------------------------------------------------------------------
(* Properties. *)

\* A socket is sent only what was said in conversations of its user, although sets and
\* objects are shared by all sockets and listeners read each other's objects.
DeliveredToMembers ==
    \A w \in Sockets : \A m \in 1..Len(sent) :
        got[w][m] > 0 => UserOf[w] \in MemberOf[sent[m]]

\* A socket is sent a message once, unless the conversation lost its last socket before:
\* then the old subscription stays beside the new one (websocket_manager.py:44-47).
\* Two sockets that join at the same time must not both subscribe.
DeliveredOnce ==
    \A w \in Sockets : \A m \in 1..Len(sent) :
        sent[m] \notin emptied => got[w][m] <= 1

\* A socket that disconnected is only left in conversations made after it connected.
LeavesClean ==
    \A w \in Sockets : At(w, "gone") =>
        \A i \in DOMAIN socket[w].ids : w \notin SetOf(socket[w].ids[i])

\* A listener is done with a message when each socket that was in the conversation when
\* it began has been sent it or is closed: sets that change under the iteration end the
\* listener and skip nobody in silence.
NobodySkipped ==
    [][\A p \in Objects :
        /\ listener[p] # None /\ listener[p].msg # 0
        /\ listener'[p] # None /\ listener'[p].msg # listener[p].msg
        => \A w \in listener[p].were : Closed(w) \/ got[w][listener[p].msg] > 0]_vars

\* Messages that wait at an object some listener reads, or are being handed out, are
\* handed out, or the listeners of the object end.
Heard(q) == {p \in Objects : listener[p] # None /\ listener[p].on = q}
Busy(q) == Heard(q) # {} /\ (inbox[q] # <<>> \/ \E p \in Heard(q) : listener[p].msg # 0)
HandedOut == \A q \in Objects : Busy(q) ~> ~Busy(q)
=============================================================================
