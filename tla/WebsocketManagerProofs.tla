----------------------- MODULE WebsocketManagerProofs -----------------------
(***************************************************************************)
(* Proofs about WebsocketManager, for any sockets, requests, conversations *)
(* and objects.                                                            *)
(*                                                                         *)
(* First what each action does to the fields of the one handler, object or *)
(* listener it is about (Step); then, of every such step, that it keeps    *)
(* the parts of the invariant.                                             *)
(***************************************************************************)
EXTENDS WebsocketManager, SequenceTheorems, FiniteSetTheorems, WellFoundedInduction, TLAPS

\* A set of numbers that is not empty has a least one.
LEMMA LeastOf ==
    ASSUME NEW stops \in SUBSET Nat, stops # {}
    PROVE  \E i \in stops : \A j \in stops : i <= j
<1>1. IsWellFoundedOn(OpToRel(<, Nat), Nat)
  BY NatLessThanWellFounded
<1>2. PICK i \in stops : \A j \in stops : <<j, i>> \notin OpToRel(<, Nat)
  BY <1>1, WFMin
<1>3. ASSUME NEW j \in stops PROVE i <= j
  <2>1. ~(j < i)
    BY <1>2, <1>3 DEF OpToRel
  <2> QED
    BY <2>1
<1> QED
  BY <1>3

\* What First finds: the least stop, or the place after the list.
LEMMA FirstStop ==
    ASSUME NEW list \in Seq(Conversations), NEW stops \in SUBSET (1..Len(list))
    PROVE  /\ First(stops, list) \in 1..(Len(list) + 1)
           /\ First(stops, list) <= Len(list) => First(stops, list) \in stops
           /\ \A i \in 1..(First(stops, list) - 1) : i \notin stops
<1>1. Len(list) \in Nat
  BY LenProperties
<1>2. CASE stops = {}
  BY <1>1, <1>2 DEF First
<1>3. CASE stops # {}
  <2>1. \E i \in stops : \A j \in stops : i <= j
    BY <1>3, LeastOf
  <2>2. First(stops, list) \in stops /\ \A j \in stops : First(stops, list) <= j
    BY <1>3, <2>1 DEF First
  <2>3. PICK n \in stops : n = First(stops, list) /\ \A j \in stops : n <= j
    BY <2>2
  <2>4. n \in 1..Len(list)
    BY <2>3
  <2>5. \A i \in 1..(n - 1) : i \notin stops
    BY <1>1, <2>3, <2>4
  <2> QED
    BY <1>1, <2>3, <2>4, <2>5
<1> QED
  BY <1>2, <1>3

\* Lists are the sequences no longer than there are conversations.
LEMMA ListsAre ==
    /\ Cardinality(Conversations) \in Nat
    /\ \A list : list \in Lists <=>
            list \in Seq(Conversations) /\ Len(list) <= Cardinality(Conversations)
<1>1. Cardinality(Conversations) \in Nat
  BY FS_CardinalityType, ConstantsAssumption
<1>2. ASSUME NEW list \in Lists
      PROVE  list \in Seq(Conversations) /\ Len(list) <= Cardinality(Conversations)
  <2>1. PICK n \in 0..Cardinality(Conversations) : list \in [1..n -> Conversations]
    BY DEF Lists
  <2> QED
    BY <1>1, <2>1
<1>3. ASSUME NEW list \in Seq(Conversations), Len(list) <= Cardinality(Conversations)
      PROVE  list \in Lists
  <2>1. list \in [1..Len(list) -> Conversations] /\ Len(list) \in Nat
    BY LenProperties
  <2> QED
    BY <1>1, <1>3, <2>1 DEF Lists
<1> QED
  BY <1>1, <1>2, <1>3

LEMMA EmptyListIs == <<>> \in Lists
<1>1. <<>> \in Seq(Conversations) /\ Len(<<>>) = 0
  BY EmptySeq
<1>2. Len(<<>>) <= Cardinality(Conversations)
  BY <1>1, ListsAre
<1> QED
  BY <1>1, <1>2, ListsAre, Zenon

\* What is left of a list from one of its places on.
LEMMA RestIs ==
    ASSUME NEW list \in Lists, NEW n \in 1..(Len(list) + 1)
    PROVE  /\ SubSeq(list, n, Len(list)) \in Lists
           /\ Len(SubSeq(list, n, Len(list))) = Len(list) - n + 1
           /\ \A i \in 1..(Len(list) - n + 1) : SubSeq(list, n, Len(list))[i] = list[n + i - 1]
<1>1. /\ list \in Seq(Conversations) /\ Len(list) \in Nat
      /\ Len(list) <= Cardinality(Conversations)
  BY ListsAre, LenProperties
<1>2. \A i \in n..Len(list) : list[i] \in Conversations
  BY <1>1, ElementOfSeq
<1>3. /\ SubSeq(list, n, Len(list)) \in Seq(Conversations)
      /\ Len(SubSeq(list, n, Len(list))) = Len(list) - n + 1
      /\ \A i \in 1..(Len(list) - n + 1) : SubSeq(list, n, Len(list))[i] = list[n + i - 1]
  BY <1>1, <1>2, SubSeqProperties
<1>4. Len(SubSeq(list, n, Len(list))) <= Cardinality(Conversations)
  BY <1>1, <1>3, ListsAre
<1> QED
  BY <1>3, <1>4, ListsAre

-----------------------------------------------------------------------------
(* What the parts of the state are. *)

LEMMA HandlerFields ==
    ASSUME NEW r \in Handler
    PROVE  /\ r.at \in Stage /\ r.ids \in Lists /\ r.todo \in Lists /\ r.wait \in 0..MaxObjects
           /\ r.conv \in Conversations \cup {None} /\ r.first \in SUBSET Sockets
  BY DEF Handler

LEMMA ListenerFields ==
    ASSUME NEW r \in Listener
    PROVE  /\ r # None /\ r.on \in Objects /\ r.msg \in 0..MaxMessages /\ r.set \in SUBSET Sockets
           /\ r.todo \in SUBSET Sockets /\ r.were \in SUBSET Sockets
  BY NoneAssumption DEF Listener

LEMMA ObjectsAre ==
    ASSUME TypeOK
    PROVE  /\ Pubsub \in Nat /\ Pubsub <= MaxObjects /\ DOMAIN objects = 1..Pubsub
           /\ \A p \in 1..Pubsub : objects[p] \in (SUBSET Conversations) \cup {None}
  BY LenProperties, ElementOfSeq DEF TypeOK, Pubsub

LEMMA SentAre ==
    ASSUME TypeOK
    PROVE  /\ Len(sent) \in Nat /\ Len(sent) <= MaxMessages
           /\ \A m \in 1..Len(sent) : sent[m] \in Conversations /\ m \in Messages
<1>1. sent \in Seq(Conversations)
  BY DEF TypeOK
<1>2. Len(sent) \in Nat /\ Len(sent) <= MaxMessages
  BY <1>1, LenProperties DEF TypeOK
<1>3. \A m \in 1..Len(sent) : sent[m] \in Conversations
  BY <1>1, ElementOfSeq
<1> QED
  BY <1>2, <1>3, ConstantsAssumption DEF Messages

\* A conversation has a key where it has sockets, and only there.
LEMMA SetsAre ==
    ASSUME TypeOK
    PROVE  \A c \in Conversations :
              /\ SetOf(c) \in SUBSET Sockets
              /\ sets[c] # None => SetOf(c) = sets[c] /\ sets[c] # {} /\ sets[c] \in SUBSET Sockets
              /\ SetOf(c) # {} => sets[c] # None
              /\ sets[c] = None => SetOf(c) = {}
<1> SUFFICES ASSUME NEW c \in Conversations
    PROVE  /\ SetOf(c) \in SUBSET Sockets
           /\ sets[c] # None => SetOf(c) = sets[c] /\ sets[c] # {} /\ sets[c] \in SUBSET Sockets
           /\ SetOf(c) # {} => sets[c] # None
           /\ sets[c] = None => SetOf(c) = {}
  OBVIOUS
<1>1. sets[c] \in ((SUBSET Sockets) \ {{}}) \cup {None}
  BY DEF TypeOK
<1>2. CASE sets[c] = None
  BY <1>2 DEF SetOf
<1>3. CASE sets[c] # None
  <2>1. SetOf(c) = sets[c]
    BY <1>3 DEF SetOf
  <2>2. sets[c] \in SUBSET Sockets /\ sets[c] # {}
    BY <1>1, <1>3
  <2> QED
    BY <1>3, <2>1, <2>2
<1> QED
  BY <1>2, <1>3

LEMMA InboxesAre ==
    ASSUME TypeOK, NEW p \in Objects
    PROVE  /\ inbox[p] \in Seq(Messages) /\ Len(inbox[p]) \in Nat
           /\ DOMAIN inbox[p] = 1..Len(inbox[p])
           /\ \A i \in 1..Len(inbox[p]) : inbox[p][i] \in Messages
<1>1. inbox[p] \in Seq(Messages)
  BY DEF TypeOK
<1> QED
  BY <1>1, LenProperties, ElementOfSeq

-----------------------------------------------------------------------------
(* Where the tasks stand. *)

\* Where the handlers stand: which of them wait for Redis, and what for.
Staged ==
    \A x \in Handlers :
        /\ socket[x].wait <= Pubsub
        /\ socket[x].wait # 0 => socket[x].at \in {"join", "make"}
        /\ socket[x].at = "join" /\ socket[x].wait # 0 => socket[x].todo # <<>>
        /\ socket[x].at = "make" => socket[x].conv \in Conversations

\* The messages that wait, are handed out or were sent are among those published.
Known ==
    /\ \A p \in Objects : \A i \in DOMAIN inbox[p] : inbox[p][i] <= Len(sent)
    /\ \A p \in Objects : listener[p] # None =>
          /\ listener[p].msg <= Len(sent)
          /\ listener[p].todo \subseteq listener[p].set
          /\ listener[p].msg = 0 => listener[p].set = {}
    /\ \A w \in Sockets, m \in Messages : m > Len(sent) => got[w][m] = 0

\* The handlers with a conversation in the making.
Making == {x \in Handlers : At(x, "make")}

\* Each conversation in the making may still be announced.
RoomLeft == Len(sent) + Cardinality(Making) <= MaxMessages

-----------------------------------------------------------------------------
(* What an object, a listener and the messages become. *)

\* One more object, without a connection.
Grows ==
    /\ objects' \in Seq((SUBSET Conversations) \cup {None})
    /\ Len(objects') = Pubsub + 1 /\ objects'[Pubsub + 1] = None
    /\ \A q \in 1..Pubsub : objects'[q] = objects[q]

\* One object is about topics now.
ObjectIs(p, topics) ==
    /\ objects' \in Seq((SUBSET Conversations) \cup {None})
    /\ Len(objects') = Pubsub
    /\ \A q \in 1..Pubsub : objects'[q] = IF q = p THEN topics ELSE objects[q]

LEMMA ObjectGrows ==
    ASSUME TypeOK, objects' = Append(objects, None)
    PROVE  Grows
<1>1. objects \in Seq((SUBSET Conversations) \cup {None})
  BY DEF TypeOK
<1> QED
  BY <1>1, AppendProperties DEF Grows, Pubsub

LEMMA ObjectBecomes ==
    ASSUME TypeOK, NEW p \in 1..Pubsub, NEW topics \in (SUBSET Conversations) \cup {None},
           objects' = [objects EXCEPT ![p] = topics]
    PROVE  ObjectIs(p, topics)
<1>1. objects \in Seq((SUBSET Conversations) \cup {None})
  BY DEF TypeOK
<1>2. p \in 1..Len(objects)
  BY DEF Pubsub
<1>3. /\ [objects EXCEPT ![p] = topics] \in Seq((SUBSET Conversations) \cup {None})
      /\ Len([objects EXCEPT ![p] = topics]) = Len(objects)
      /\ \A j \in 1..Len(objects) :
            [objects EXCEPT ![p] = topics][j] = IF j = p THEN topics ELSE objects[j]
  BY <1>1, <1>2, ExceptSeq
<1> QED
  BY <1>3 DEF ObjectIs, Pubsub

\* The newest object, if there is one, is about topics.
NewestIs(topics) == IF Pubsub = 0 THEN objects' = objects ELSE ObjectIs(Pubsub, topics)

LEMMA NewestBecomes ==
    ASSUME TypeOK, NEW topics \in (SUBSET Conversations) \cup {None}, objects' = Newest(topics)
    PROVE  NewestIs(topics)
<1>1. CASE Pubsub = 0
  BY <1>1 DEF Newest, NewestIs
<1>2. CASE Pubsub # 0
  <2>1. Pubsub \in 1..Pubsub
    BY <1>2, ObjectsAre
  <2>2. ObjectIs(Pubsub, topics)
    BY <1>2, <2>1, ObjectBecomes DEF Newest
  <2> QED
    BY <1>2, <2>2 DEF NewestIs
<1> QED
  BY <1>1, <1>2

\* No other listener than p changes.
OnlyListener(p) ==
    /\ listener' \in [Objects -> Listener \cup {None}]
    /\ \A q \in Objects \ {p} : listener'[q] = listener[q]

Stops(p) == OnlyListener(p) /\ listener'[p] = None

\* The listener p has these fields now.
Listens(p, on, msg, set, todo, were) ==
    /\ OnlyListener(p)
    /\ listener'[p] # None
    /\ listener'[p].on = on /\ listener'[p].msg = msg /\ listener'[p].set = set
    /\ listener'[p].todo = todo /\ listener'[p].were = were

LEMMA ListenerBecomes ==
    ASSUME TypeOK, NEW p \in Objects, NEW r,
           r = [on |-> r.on, msg |-> r.msg, set |-> r.set, todo |-> r.todo, were |-> r.were],
           r.on \in Objects, r.msg \in 0..MaxMessages, r.set \in SUBSET Sockets,
           r.todo \in SUBSET Sockets, r.were \in SUBSET Sockets,
           listener' = [listener EXCEPT ![p] = r]
    PROVE  Listens(p, r.on, r.msg, r.set, r.todo, r.were)
<1>1. r \in Listener
  BY DEF Listener
<1>2. r # None /\ listener \in [Objects -> Listener \cup {None}]
  BY <1>1, ListenerFields DEF TypeOK
<1> QED
  BY <1>1, <1>2 DEF Listens, OnlyListener

LEMMA ListenerStops ==
    ASSUME TypeOK, NEW p \in Objects, Ended(p)
    PROVE  Stops(p)
<1>1. listener \in [Objects -> Listener \cup {None}]
  BY DEF TypeOK
<1> QED
  BY <1>1 DEF Ended, Stops, OnlyListener

LEMMA ListenerStarts ==
    ASSUME TypeOK, NEW p \in Objects, Pubsub \in Objects,
           listener' = [listener EXCEPT ![p] = AtRest(Pubsub)]
    PROVE  Listens(p, Pubsub, 0, {}, {}, {})
<1> DEFINE r == AtRest(Pubsub)
<1>1. /\ r.on = Pubsub /\ r.msg = 0 /\ r.set = {} /\ r.todo = {} /\ r.were = {}
      /\ r = [on |-> r.on, msg |-> r.msg, set |-> r.set, todo |-> r.todo, were |-> r.were]
  BY DEF AtRest
<1>2. 0 \in 0..MaxMessages
  BY ConstantsAssumption
<1> HIDE DEF r
<1>3. listener' = [listener EXCEPT ![p] = r]
  BY DEF r
<1>4. Listens(p, r.on, r.msg, r.set, r.todo, r.were)
  BY <1>1, <1>2, <1>3, ListenerBecomes
<1> QED
  BY <1>1, <1>4

\* What starting a listener does.
LEMMA StartListenerDoes ==
    ASSUME TypeOK, NEW p \in 1..Pubsub, NEW c \in Conversations, StartListener(p, c)
    PROVE  ObjectIs(p, {c}) /\ Listens(p, Pubsub, 0, {}, {}, {})
<1>1. p \in Objects /\ Pubsub \in Objects
  BY ObjectsAre, ConstantsAssumption DEF Objects
<1>2. {c} \in (SUBSET Conversations) \cup {None}
  OBVIOUS
<1>3. ObjectIs(p, {c})
  BY <1>2, ObjectBecomes DEF StartListener
<1>4. Listens(p, Pubsub, 0, {}, {}, {})
  BY <1>1, ListenerStarts DEF StartListener
<1> QED
  BY <1>3, <1>4

\* The listeners at a message of c lose their set.
Strands(c) ==
    /\ listener' \in [Objects -> Listener \cup {None}]
    /\ \A p \in Objects :
          IF listener[p] # None /\ listener[p].msg # 0 /\ sent[listener[p].msg] = c
          THEN /\ listener'[p] # None
               /\ listener'[p].on = listener[p].on /\ listener'[p].msg = listener[p].msg
               /\ listener'[p].set = {} /\ listener'[p].todo = {}
               /\ listener'[p].were = listener[p].were
          ELSE listener'[p] = listener[p]

LEMMA StrandedAre ==
    ASSUME TypeOK, NEW c, listener' = Stranded({c})
    PROVE  Strands(c)
<1>1. ASSUME NEW p \in Objects
      PROVE  /\ listener'[p] \in Listener \cup {None}
             /\ IF listener[p] # None /\ listener[p].msg # 0 /\ sent[listener[p].msg] = c
                THEN /\ listener'[p] # None
                     /\ listener'[p].on = listener[p].on /\ listener'[p].msg = listener[p].msg
                     /\ listener'[p].set = {} /\ listener'[p].todo = {}
                     /\ listener'[p].were = listener[p].were
                ELSE listener'[p] = listener[p]
  <2>1. CASE listener[p] # None /\ listener[p].msg # 0 /\ sent[listener[p].msg] = c
    <3>1. listener[p] \in Listener
      BY <2>1 DEF TypeOK
    <3>2. listener'[p] = [listener[p] EXCEPT !.set = {}, !.todo = {}]
      BY <2>1 DEF Stranded
    <3>3. listener'[p] \in Listener
      BY <3>1, <3>2 DEF Listener
    <3>4. /\ listener'[p].on = listener[p].on /\ listener'[p].msg = listener[p].msg
          /\ listener'[p].set = {} /\ listener'[p].todo = {}
          /\ listener'[p].were = listener[p].were
      BY <3>1, <3>2 DEF Listener
    <3> QED
      BY <2>1, <3>3, <3>4, ListenerFields
  <2>2. CASE ~(listener[p] # None /\ listener[p].msg # 0 /\ sent[listener[p].msg] = c)
    <3>1. listener'[p] = listener[p]
      BY <2>2 DEF Stranded
    <3> QED
      BY <2>2, <3>1 DEF TypeOK
  <2> QED
    BY <2>1, <2>2
<1>2. listener' \in [Objects -> Listener \cup {None}]
  BY <1>1 DEF Stranded
<1> QED
  BY <1>1, <1>2 DEF Strands

\* Handlers are finitely many.
LEMMA MakingAre ==
    /\ IsFiniteSet(Making) /\ Cardinality(Making) \in Nat
    /\ \A x \in Making : Cardinality(Making) > 0
<1>1. IsFiniteSet(Handlers)
  BY ConstantsAssumption DEF Handlers
<1>2. Making \in SUBSET Handlers
  BY DEF Making
<1>3. IsFiniteSet(Making)
  BY <1>1, <1>2, FS_Subset
<1>4. Cardinality(Making) \in Nat /\ (Cardinality(Making) = 0 <=> Making = {})
  BY <1>3, FS_CardinalityType, FS_EmptySet
<1>5. \A x \in Making : Cardinality(Making) > 0
  BY <1>4
<1> QED
  BY <1>3, <1>4, <1>5

\* A message of c is published for the objects subscribed to c.
Delivers(c) ==
    /\ sent' \in Seq(Conversations) /\ Len(sent') = Len(sent) + 1 /\ Len(sent') <= MaxMessages
    /\ sent'[Len(sent) + 1] = c
    /\ \A m \in 1..Len(sent) : sent'[m] = sent[m]
    /\ inbox' \in [Objects -> Seq(Messages)]
    /\ \A p \in Objects :
          \/ /\ p <= Pubsub /\ objects'[p] = {c}
             /\ Len(inbox'[p]) = Len(inbox[p]) + 1
             /\ inbox'[p][Len(inbox[p]) + 1] = Len(sent) + 1
             /\ \A i \in 1..Len(inbox[p]) : inbox'[p][i] = inbox[p][i]
          \/ inbox'[p] = inbox[p]

\* What publishing does to messages and inboxes.
LEMMA DeliverDoes ==
    ASSUME TypeOK, Len(sent) < MaxMessages, NEW c \in Conversations, Deliver(c)
    PROVE  Delivers(c)
<1>1. Len(sent) \in Nat /\ sent \in Seq(Conversations)
  BY SentAre DEF TypeOK
<1>2. /\ sent' \in Seq(Conversations) /\ Len(sent') = Len(sent) + 1
      /\ sent'[Len(sent) + 1] = c /\ \A m \in 1..Len(sent) : sent'[m] = sent[m]
  BY <1>1, AppendProperties DEF Deliver
<1>3. Len(sent) + 1 \in Messages
  BY <1>1, ConstantsAssumption DEF Messages
<1>4. ASSUME NEW p \in Objects
      PROVE  /\ Append(inbox[p], Len(sent) + 1) \in Seq(Messages)
             /\ Len(Append(inbox[p], Len(sent) + 1)) = Len(inbox[p]) + 1
             /\ Append(inbox[p], Len(sent) + 1)[Len(inbox[p]) + 1] = Len(sent) + 1
             /\ \A i \in 1..Len(inbox[p]) : Append(inbox[p], Len(sent) + 1)[i] = inbox[p][i]
  BY <1>3, InboxesAre, AppendProperties
<1>5. \A p \in Objects : inbox'[p] =
        IF p <= Pubsub /\ objects'[p] = {c} THEN Append(inbox[p], Len(sent) + 1) ELSE inbox[p]
  BY DEF Deliver
<1>6. \A p \in Objects : inbox'[p] \in Seq(Messages)
  BY <1>4, <1>5, InboxesAre
<1>7. inbox' \in [Objects -> Seq(Messages)]
  BY <1>6 DEF Deliver
<1>8. \A p \in Objects :
          \/ /\ p <= Pubsub /\ objects'[p] = {c}
             /\ Len(inbox'[p]) = Len(inbox[p]) + 1
             /\ inbox'[p][Len(inbox[p]) + 1] = Len(sent) + 1
             /\ \A i \in 1..Len(inbox[p]) : inbox'[p][i] = inbox[p][i]
          \/ inbox'[p] = inbox[p]
  BY <1>4, <1>5
<1>9. Len(sent') <= MaxMessages
  BY <1>1, <1>2, ConstantsAssumption
<1> QED
  BY <1>2, <1>7, <1>8, <1>9 DEF Delivers

\* A message may be published where the guards say so: for each conversation in the
\* making one is kept.
LEMMA RoomFor ==
    ASSUME TypeOK, RoomLeft, Room \/ \E x \in Handlers : socket[x].at = "make"
    PROVE  Len(sent) < MaxMessages
<1>1. Len(sent) \in Nat /\ MaxMessages \in Nat /\ Cardinality(Making) \in Nat
  BY SentAre, MakingAre, ConstantsAssumption
<1>2. CASE Room
  BY <1>1, <1>2 DEF Room, Making
<1>3. CASE \E x \in Handlers : socket[x].at = "make"
  <2>1. Cardinality(Making) > 0
    BY <1>3, MakingAre DEF Making, At
  <2> QED
    BY <1>1, <2>1 DEF RoomLeft
<1> QED
  BY <1>2, <1>3

-----------------------------------------------------------------------------
(* What a handler becomes. *)

\* The handler x has these fields now, and no other handler changes.
Becomes(x, at, ids, todo, wait, conv, first) ==
    /\ socket' \in [Handlers -> Handler]
    /\ \A y \in Handlers \ {x} : socket'[y] = socket[y]
    /\ socket'[x].at = at /\ socket'[x].ids = ids /\ socket'[x].todo = todo
    /\ socket'[x].wait = wait /\ socket'[x].conv = conv /\ socket'[x].first = first

LEMMA OneBecomes ==
    ASSUME socket \in [Handlers -> Handler], NEW x \in Handlers, NEW r,
           r = [f \in DOMAIN socket[x] |-> r[f]],
           r.at \in Stage, r.ids \in Lists, r.todo \in Lists, r.wait \in 0..MaxObjects,
           r.conv \in Conversations \cup {None}, r.first \in SUBSET Sockets,
           socket' = [socket EXCEPT ![x] = r]
    PROVE  Becomes(x, r.at, r.ids, r.todo, r.wait, r.conv, r.first)
<1>1. socket[x] \in Handler
  OBVIOUS
<1>2. r \in Handler
  BY <1>1 DEF Handler
<1> QED
  BY <1>2 DEF Becomes

\* What connecting does.
Connects(w, ids) ==
    /\ socket[w].at = "new"
    /\ \A i \in DOMAIN ids : ids[i] \in made /\ UserOf[w] \in MemberOf[ids[i]]
    /\ users' = [users EXCEPT ![UserOf[w]] = @ \cup {w}]
    /\ Becomes(w, "join", ids, ids, socket[w].wait, socket[w].conv, socket[w].first)
    /\ UNCHANGED <<made, sets, objects, inbox, listener, sent, got, emptied>>

LEMMA ConnectDoes ==
    ASSUME TypeOK, NEW w \in Sockets, NEW ids \in Lists, Connect(w, ids)
    PROVE  Connects(w, ids)
<1> DEFINE r == [socket[w] EXCEPT !.at = "join", !.ids = ids, !.todo = ids]
<1>1. w \in Handlers /\ socket \in [Handlers -> Handler]
  BY DEF Handlers, TypeOK
<1>2. socket[w] \in Handler
  BY <1>1
<1>3. /\ r.at = "join" /\ r.ids = ids /\ r.todo = ids /\ r.wait = socket[w].wait
      /\ r.conv = socket[w].conv /\ r.first = socket[w].first
  BY <1>2 DEF Handler
<1>4. r = [f \in DOMAIN socket[w] |-> r[f]]
  BY <1>2 DEF Handler
<1>5. socket' = [socket EXCEPT ![w] = r]
  BY DEF Connect
<1> HIDE DEF r
<1>6. Becomes(w, "join", ids, ids, socket[w].wait, socket[w].conv, socket[w].first)
  BY <1>1, <1>2, <1>3, <1>4, <1>5, HandlerFields, OneBecomes DEF Stage
<1> QED
  BY <1>6 DEF Connect, Connects, At

\* Where the loop over the list of w stops, and the conversations before that.
JoinStop(w) ==
    First({i \in DOMAIN socket[w].todo : sets[socket[w].todo[i]] = None}, socket[w].todo)

\* The conversations joined before the loop waits.
JoinKnown(w) == {socket[w].todo[i] : i \in 1..(JoinStop(w) - 1)}

\* Where the loop over the list of a connecting socket stops: at the first conversation
\* without sockets.
LEMMA JoinStops ==
    ASSUME TypeOK, NEW w \in Sockets
    PROVE  /\ socket[w].todo \in Seq(Conversations) /\ Len(socket[w].todo) \in Nat
           /\ JoinStop(w) \in 1..(Len(socket[w].todo) + 1)
           /\ JoinStop(w) <= Len(socket[w].todo) =>
                 /\ socket[w].todo[JoinStop(w)] \in Conversations
                 /\ sets[socket[w].todo[JoinStop(w)]] = None
           /\ \A c \in JoinKnown(w) : c \in Conversations /\ sets[c] # None
<1>1. socket[w].todo \in Lists
  BY HandlerFields DEF TypeOK, Handlers
<1>2. socket[w].todo \in Seq(Conversations)
  BY <1>1, ListsAre
<1>3. /\ Len(socket[w].todo) \in Nat /\ DOMAIN socket[w].todo = 1..Len(socket[w].todo)
      /\ \A i \in 1..Len(socket[w].todo) : socket[w].todo[i] \in Conversations
  BY <1>2, LenProperties, ElementOfSeq
<1> DEFINE stops == {i \in DOMAIN socket[w].todo : sets[socket[w].todo[i]] = None}
<1>4. stops \in SUBSET (1..Len(socket[w].todo))
  BY <1>3
<1>5. /\ JoinStop(w) \in 1..(Len(socket[w].todo) + 1)
      /\ JoinStop(w) <= Len(socket[w].todo) => JoinStop(w) \in stops
      /\ \A i \in 1..(JoinStop(w) - 1) : i \notin stops
  <2>1. JoinStop(w) = First(stops, socket[w].todo)
    BY DEF JoinStop
  <2> HIDE DEF stops
  <2> QED
    BY <1>2, <1>4, <2>1, FirstStop
<1>6. \A i \in 1..(JoinStop(w) - 1) : i \in 1..Len(socket[w].todo)
  BY <1>3, <1>5
<1>7. \A c \in JoinKnown(w) : c \in Conversations /\ sets[c] # None
  BY <1>3, <1>5, <1>6 DEF JoinKnown
<1> QED
  BY <1>2, <1>3, <1>5, <1>7

\* What joining does, where every conversation has sockets and where one has none.
JoinsAll(w) ==
    /\ socket[w].at = "join" /\ socket[w].wait = 0
    /\ JoinStop(w) = Len(socket[w].todo) + 1
    /\ sets' = [c \in Conversations |->
                   IF c \in JoinKnown(w) THEN sets[c] \cup {w} ELSE sets[c]]
    /\ Becomes(w, "open", socket[w].ids, <<>>, 0, socket[w].conv, socket[w].first)
    /\ UNCHANGED <<made, users, objects, inbox, listener, sent, got, emptied>>

JoinsUpTo(w, c) ==
    /\ socket[w].at = "join" /\ socket[w].wait = 0
    /\ JoinStop(w) <= Len(socket[w].todo) /\ c = socket[w].todo[JoinStop(w)]
    /\ Pubsub < MaxObjects
    /\ Grows
    /\ sets' = Joined(w, JoinKnown(w), c)
    /\ Becomes(w, "join", socket[w].ids,
               SubSeq(socket[w].todo, JoinStop(w), Len(socket[w].todo)),
               Pubsub + 1, socket[w].conv, socket[w].first)
    /\ UNCHANGED <<made, users, inbox, listener, sent, got, emptied>>

LEMMA JoinDoes ==
    ASSUME TypeOK, NEW w \in Sockets, JoinConversations(w)
    PROVE  JoinsAll(w) \/ \E c \in Conversations : JoinsUpTo(w, c)
<1>1. w \in Handlers /\ socket \in [Handlers -> Handler] /\ socket[w] \in Handler
  BY DEF Handlers, TypeOK
<1>2. /\ socket[w].todo \in Seq(Conversations) /\ Len(socket[w].todo) \in Nat
      /\ JoinStop(w) \in 1..(Len(socket[w].todo) + 1)
  BY JoinStops
<1>3. socket[w].at = "join" /\ socket[w].wait = 0
  BY DEF JoinConversations, At
<1>4. CASE JoinStop(w) > Len(socket[w].todo)
  <2> DEFINE r == [socket[w] EXCEPT !.at = "open", !.todo = <<>>]
  <2>1. /\ r.at = "open" /\ r.ids = socket[w].ids /\ r.todo = <<>> /\ r.wait = 0
        /\ r.conv = socket[w].conv /\ r.first = socket[w].first
    BY <1>1, <1>3 DEF Handler
  <2>2. r = [f \in DOMAIN socket[w] |-> r[f]]
    BY <1>1 DEF Handler
  <2>3. /\ socket' = [socket EXCEPT ![w] = r]
        /\ sets' = [c \in Conversations |->
                       IF c \in JoinKnown(w) THEN sets[c] \cup {w} ELSE sets[c]]
        /\ objects' = objects
    BY <1>4 DEF JoinConversations, JoinStop, JoinKnown
  <2>4. <<>> \in Lists
    BY EmptyListIs
  <2>5. 0 \in 0..MaxObjects
    BY ConstantsAssumption
  <2> HIDE DEF r
  <2>6. Becomes(w, r.at, r.ids, r.todo, r.wait, r.conv, r.first)
    BY <1>1, <2>1, <2>2, <2>3, <2>4, <2>5, HandlerFields, OneBecomes DEF Stage
  <2>7. JoinStop(w) = Len(socket[w].todo) + 1
    BY <1>2, <1>4
  <2>8. UNCHANGED <<made, users, inbox, listener, sent, got, emptied>>
    BY DEF JoinConversations
  <2> QED
    BY <1>3, <2>1, <2>3, <2>6, <2>7, <2>8 DEF JoinsAll
<1>5. CASE JoinStop(w) <= Len(socket[w].todo)
  <2> DEFINE rest == SubSeq(socket[w].todo, JoinStop(w), Len(socket[w].todo))
             r == [socket[w] EXCEPT !.wait = Pubsub + 1, !.todo = rest]
  <2>1. /\ r.at = "join" /\ r.ids = socket[w].ids /\ r.todo = rest /\ r.wait = Pubsub + 1
        /\ r.conv = socket[w].conv /\ r.first = socket[w].first
    BY <1>1, <1>3 DEF Handler
  <2>2. r = [f \in DOMAIN socket[w] |-> r[f]]
    BY <1>1 DEF Handler
  <2>3. /\ socket' = [socket EXCEPT ![w] = r]
        /\ sets' = Joined(w, JoinKnown(w), socket[w].todo[JoinStop(w)])
        /\ objects' = Append(objects, None) /\ Pubsub < MaxObjects
    <3>1. ~(JoinStop(w) > Len(socket[w].todo))
      BY <1>2, <1>5
    <3>2. /\ objects' = Append(objects, None) /\ Pubsub < MaxObjects
          /\ sets' = Joined(w, JoinKnown(w), socket[w].todo[JoinStop(w)])
      BY <3>1 DEF JoinConversations, JoinStop, JoinKnown
    <3>3. socket' = [socket EXCEPT ![w] = r]
      BY <3>1 DEF JoinConversations, JoinStop
    <3> QED
      BY <3>2, <3>3
  <2>4. rest \in Lists
    BY <1>1, <1>2, <1>5, HandlerFields, RestIs
  <2>5. Pubsub + 1 \in 0..MaxObjects
    <3>1. Pubsub \in Nat
      BY LenProperties DEF TypeOK, Pubsub
    <3> QED
      BY <2>3, <3>1, ConstantsAssumption
  <2> HIDE DEF r, rest
  <2>6. Becomes(w, r.at, r.ids, r.todo, r.wait, r.conv, r.first)
    BY <1>1, <2>1, <2>2, <2>3, <2>4, <2>5, HandlerFields, OneBecomes DEF Stage
  <2>7. UNCHANGED <<made, users, inbox, listener, sent, got, emptied>>
    BY DEF JoinConversations
  <2>8. socket[w].todo[JoinStop(w)] \in Conversations
    BY <1>5, JoinStops
  <2>9. Grows
    BY <2>3, ObjectGrows
  <2>10. JoinsUpTo(w, socket[w].todo[JoinStop(w)])
    BY <1>3, <1>5, <2>1, <2>3, <2>6, <2>7, <2>9 DEF JoinsUpTo, rest
  <2> QED
    BY <2>8, <2>10
<1> QED
  BY <1>2, <1>4, <1>5

\* What the answer of Redis to a subscription does.
Subscribes(w) ==
    /\ socket[w].at = "join" /\ socket[w].wait \in 1..Pubsub
    /\ socket[w].todo # <<>> /\ Head(socket[w].todo) \in Conversations
    /\ ObjectIs(socket[w].wait, {Head(socket[w].todo)})
    /\ Listens(socket[w].wait, Pubsub, 0, {}, {}, {})
    /\ Becomes(w, "join", socket[w].ids, Tail(socket[w].todo), 0, socket[w].conv, socket[w].first)
    /\ UNCHANGED <<made, users, sets, inbox, sent, got, emptied>>

LEMMA SubscribedDoes ==
    ASSUME TypeOK, Staged, NEW w \in Sockets, Subscribed(w)
    PROVE  Subscribes(w)
<1> DEFINE r == [socket[w] EXCEPT !.wait = 0, !.todo = Tail(socket[w].todo)]
<1>1. w \in Handlers /\ socket \in [Handlers -> Handler] /\ socket[w] \in Handler
  BY DEF Handlers, TypeOK
<1>2. socket[w].at = "join" /\ socket[w].wait # 0
  BY DEF Subscribed, At
<1>3. socket[w].wait \in 1..Pubsub /\ socket[w].todo # <<>>
  <2>1. socket[w].wait \in 0..MaxObjects /\ Pubsub \in Nat
    BY <1>1, HandlerFields, LenProperties DEF TypeOK, Pubsub
  <2> QED
    BY <1>1, <1>2, <2>1 DEF Staged
<1>4. /\ socket[w].todo \in Seq(Conversations)
      /\ Len(socket[w].todo) <= Cardinality(Conversations)
  BY <1>1, HandlerFields, ListsAre
<1>5. /\ Head(socket[w].todo) \in Conversations
      /\ Tail(socket[w].todo) \in Seq(Conversations)
      /\ Len(Tail(socket[w].todo)) = Len(socket[w].todo) - 1 /\ Len(socket[w].todo) \in Nat
  BY <1>3, <1>4, HeadTailProperties, LenProperties
<1>6. Tail(socket[w].todo) \in Lists
  <2>1. Len(Tail(socket[w].todo)) <= Cardinality(Conversations)
    BY <1>4, <1>5, ListsAre
  <2> QED
    BY <1>5, <2>1, ListsAre
<1>7. /\ r.at = "join" /\ r.ids = socket[w].ids /\ r.todo = Tail(socket[w].todo) /\ r.wait = 0
      /\ r.conv = socket[w].conv /\ r.first = socket[w].first
  BY <1>1, <1>2 DEF Handler
<1>8. r = [f \in DOMAIN socket[w] |-> r[f]]
  BY <1>1 DEF Handler
<1>9. socket' = [socket EXCEPT ![w] = r]
  BY DEF Subscribed
<1>10. 0 \in 0..MaxObjects
  BY ConstantsAssumption
<1> HIDE DEF r
<1>11. Becomes(w, r.at, r.ids, r.todo, r.wait, r.conv, r.first)
  BY <1>1, <1>6, <1>7, <1>8, <1>9, <1>10, HandlerFields, OneBecomes DEF Stage
<1>12. /\ ObjectIs(socket[w].wait, {Head(socket[w].todo)})
       /\ Listens(socket[w].wait, Pubsub, 0, {}, {}, {})
  BY <1>3, <1>5, StartListenerDoes DEF Subscribed
<1> QED
  BY <1>2, <1>3, <1>5, <1>7, <1>11, <1>12 DEF Subscribed, Subscribes

\* What committing a new conversation does.
Begins(x, c) ==
    /\ socket[x].at = "open" /\ c \notin made /\ UserOf[x] \in MemberOf[c]
    /\ Room
    /\ made' = made \cup {c}
    /\ Becomes(x, "make", socket[x].ids, socket[x].todo, socket[x].wait, c, socket[x].first)
    /\ UNCHANGED <<users, sets, objects, inbox, listener, sent, got, emptied>>

LEMMA NewConversationDoes ==
    ASSUME TypeOK, NEW x \in Handlers, NEW c \in Conversations, NewConversation(x, c)
    PROVE  Begins(x, c)
<1> DEFINE r == [socket[x] EXCEPT !.at = "make", !.conv = c]
<1>1. socket \in [Handlers -> Handler] /\ socket[x] \in Handler
  BY DEF TypeOK
<1>2. /\ r.at = "make" /\ r.ids = socket[x].ids /\ r.todo = socket[x].todo
      /\ r.wait = socket[x].wait /\ r.conv = c /\ r.first = socket[x].first
  BY <1>1 DEF Handler
<1>3. r = [f \in DOMAIN socket[x] |-> r[f]]
  BY <1>1 DEF Handler
<1>4. socket' = [socket EXCEPT ![x] = r]
  BY DEF NewConversation
<1> HIDE DEF r
<1>5. Becomes(x, r.at, r.ids, r.todo, r.wait, r.conv, r.first)
  BY <1>1, <1>2, <1>3, <1>4, HandlerFields, OneBecomes DEF Stage
<1> QED
  BY <1>2, <1>5 DEF NewConversation, Begins, At

\* What the first of the members' sockets does to a conversation nobody opened.
Opens(x, u, w) ==
    /\ socket[x].at = "make" /\ socket[x].wait = 0
    /\ sets[socket[x].conv] = None
    /\ Pubsub < MaxObjects
    /\ Grows
    /\ u \in MemberOf[socket[x].conv] /\ w \in users[u]
    /\ sets' = [sets EXCEPT ![socket[x].conv] = {w}]
    /\ Becomes(x, "make", socket[x].ids, socket[x].todo, Pubsub + 1, socket[x].conv, users[u])
    /\ UNCHANGED <<made, users, inbox, listener, sent, got, emptied>>

LEMMA OpenConversationDoes ==
    ASSUME TypeOK, Staged, NEW x \in Handlers, OpenConversation(x)
    PROVE  \E u \in Users, w \in Sockets : Opens(x, u, w)
<1>1. socket \in [Handlers -> Handler] /\ socket[x] \in Handler
  BY DEF TypeOK
<1>2. socket[x].at = "make" /\ socket[x].conv \in Conversations
  BY DEF OpenConversation, At, Staged
<1>3. PICK u \in MemberOf[socket[x].conv] : \E w \in users[u] :
        /\ sets' = [sets EXCEPT ![socket[x].conv] = {w}]
        /\ socket' = [socket EXCEPT ![x].wait = Pubsub + 1, ![x].first = users[u]]
  BY DEF OpenConversation
<1>4. u \in Users /\ users[u] \in SUBSET Sockets
  BY <1>2, ConstantsAssumption DEF TypeOK
<1>5. PICK w \in users[u] :
        /\ sets' = [sets EXCEPT ![socket[x].conv] = {w}]
        /\ socket' = [socket EXCEPT ![x].wait = Pubsub + 1, ![x].first = users[u]]
  BY <1>3
<1> DEFINE r == [socket[x] EXCEPT !.wait = Pubsub + 1, !.first = users[u]]
<1>6. /\ r.at = "make" /\ r.ids = socket[x].ids /\ r.todo = socket[x].todo
      /\ r.wait = Pubsub + 1 /\ r.conv = socket[x].conv /\ r.first = users[u]
  BY <1>1, <1>2 DEF Handler
<1>7. r = [f \in DOMAIN socket[x] |-> r[f]]
  BY <1>1 DEF Handler
<1>8. socket' = [socket EXCEPT ![x] = r]
  BY <1>5
<1>9. Pubsub + 1 \in 0..MaxObjects
  <2>1. Pubsub \in Nat /\ Pubsub < MaxObjects
    BY LenProperties DEF TypeOK, Pubsub, OpenConversation
  <2> QED
    BY <2>1, ConstantsAssumption
<1> HIDE DEF r
<1>10. Becomes(x, r.at, r.ids, r.todo, r.wait, r.conv, r.first)
  BY <1>1, <1>4, <1>6, <1>7, <1>8, <1>9, HandlerFields, OneBecomes DEF Stage
<1>11. Grows
  BY ObjectGrows DEF OpenConversation
<1>12. Opens(x, u, w)
  BY <1>2, <1>5, <1>6, <1>10, <1>11 DEF OpenConversation, Opens
<1> QED
  BY <1>4, <1>12

\* What adding the members does.
Adds(x, c) ==
    /\ socket[x].at = "make" /\ socket[x].conv = c /\ socket[x].wait \in 0..Pubsub
    /\ socket[x].wait # 0 \/ sets[c] # None \/ Members(c) = {}
    /\ IF socket[x].wait # 0
       THEN /\ ObjectIs(socket[x].wait, {c})
            /\ Listens(socket[x].wait, Pubsub, 0, {}, {}, {})
       ELSE objects' = objects /\ listener' = listener
    /\ \/ sets' = sets
       \/ Members(c) # {} /\ sets' = [sets EXCEPT ![c] = SetOf(c) \cup Members(c)]
    /\ Delivers(c) \/ (sent' = sent /\ inbox' = inbox)
    /\ \E at \in {"open", "dead"} : Becomes(x, at, socket[x].ids, socket[x].todo, 0, None, {})
    /\ UNCHANGED <<made, users, got, emptied>>

LEMMA AddMembersDoes ==
    ASSUME TypeOK, Staged, RoomLeft, NEW x \in Handlers, AddMembers(x)
    PROVE  \E c \in Conversations : Adds(x, c)
<1> DEFINE c == socket[x].conv
           changed == socket[x].wait # 0 /\ \A u \in MemberOf[c] : users[u] # socket[x].first
           at == IF changed THEN "dead" ELSE "open"
           r == [socket[x] EXCEPT !.at = at, !.wait = 0, !.conv = None, !.first = {}]
<1>1. socket \in [Handlers -> Handler] /\ socket[x] \in Handler
  BY DEF TypeOK
<1>2. socket[x].at = "make" /\ c \in Conversations
  BY DEF AddMembers, At, Staged
<1>3. socket[x].wait \in 0..Pubsub
  <2>1. socket[x].wait \in 0..MaxObjects /\ Pubsub \in Nat
    BY <1>1, HandlerFields, LenProperties DEF TypeOK, Pubsub
  <2> QED
    BY <1>1, <2>1 DEF Staged
<1>4. /\ r.at = at /\ r.ids = socket[x].ids /\ r.todo = socket[x].todo
      /\ r.wait = 0 /\ r.conv = None /\ r.first = {}
  BY <1>1 DEF Handler
<1>5. r = [f \in DOMAIN socket[x] |-> r[f]]
  BY <1>1 DEF Handler
<1>6. socket' = [socket EXCEPT ![x] = r]
  BY DEF AddMembers
<1>7. /\ socket[x].wait # 0 \/ sets[c] # None \/ Members(c) = {}
      /\ IF socket[x].wait # 0 THEN StartListener(socket[x].wait, c)
         ELSE UNCHANGED <<objects, listener>>
      /\ IF changed \/ Members(c) = {} THEN UNCHANGED sets
         ELSE sets' = [sets EXCEPT ![c] = SetOf(c) \cup Members(c)]
      /\ IF changed \/ Pubsub = 0 THEN UNCHANGED <<sent, inbox>> ELSE Deliver(c)
      /\ UNCHANGED <<made, users, got, emptied>>
  BY DEF AddMembers
<1>8. 0 \in 0..MaxObjects
  BY ConstantsAssumption
<1>9. at \in {"open", "dead"}
  OBVIOUS
<1> HIDE DEF r, at
<1>10. Becomes(x, r.at, r.ids, r.todo, r.wait, r.conv, r.first)
  BY <1>1, <1>4, <1>5, <1>6, <1>8, <1>9, HandlerFields, OneBecomes DEF Stage
<1>11. Becomes(x, at, socket[x].ids, socket[x].todo, 0, None, {})
  BY <1>4, <1>10
<1>12. socket[x].wait # 0 =>
         ObjectIs(socket[x].wait, {c}) /\ Listens(socket[x].wait, Pubsub, 0, {}, {}, {})
  <2>1. socket[x].wait # 0 => socket[x].wait \in 1..Pubsub
    BY <1>3, ObjectsAre
  <2> HIDE DEF c
  <2> QED
    BY <1>2, <1>7, <2>1, StartListenerDoes
<1>13. Delivers(c) \/ (sent' = sent /\ inbox' = inbox)
  <2>1. Len(sent) < MaxMessages
    BY <1>2, RoomFor
  <2> HIDE DEF c
  <2> QED
    BY <1>2, <1>7, <2>1, DeliverDoes
<1>14. Adds(x, c)
  BY <1>2, <1>3, <1>7, <1>9, <1>11, <1>12, <1>13 DEF Adds
<1> QED
  BY <1>2, <1>14

\* What disconnecting does.
Disconnects(w) ==
    /\ socket[w].at = "open"
    /\ users' = [users EXCEPT ![UserOf[w]] = @ \ {w}]
    /\ Becomes(w, "leave", socket[w].ids, socket[w].ids, socket[w].wait, socket[w].conv,
               socket[w].first)
    /\ UNCHANGED <<made, sets, objects, inbox, listener, sent, got, emptied>>

LEMMA DisconnectDoes ==
    ASSUME TypeOK, NEW w \in Sockets, Disconnect(w)
    PROVE  Disconnects(w)
<1> DEFINE r == [socket[w] EXCEPT !.at = "leave", !.todo = socket[w].ids]
<1>1. w \in Handlers /\ socket \in [Handlers -> Handler] /\ socket[w] \in Handler
  BY DEF Handlers, TypeOK
<1>2. /\ r.at = "leave" /\ r.ids = socket[w].ids /\ r.todo = socket[w].ids
      /\ r.wait = socket[w].wait /\ r.conv = socket[w].conv /\ r.first = socket[w].first
  BY <1>1 DEF Handler
<1>3. r = [f \in DOMAIN socket[w] |-> r[f]]
  BY <1>1 DEF Handler
<1>4. socket' = [socket EXCEPT ![w] = r]
  BY DEF Disconnect
<1> HIDE DEF r
<1>5. Becomes(w, r.at, r.ids, r.todo, r.wait, r.conv, r.first)
  BY <1>1, <1>2, <1>3, <1>4, HandlerFields, OneBecomes DEF Stage
<1> QED
  BY <1>2, <1>5 DEF Disconnect, Disconnects, At

\* What an exception does that nothing catches.
Fails(w) ==
    /\ socket[w].at = "open"
    /\ Becomes(w, "dead", socket[w].ids, socket[w].todo, socket[w].wait, socket[w].conv,
               socket[w].first)
    /\ UNCHANGED <<made, users, sets, objects, inbox, listener, sent, got, emptied>>

LEMMA FailDoes ==
    ASSUME TypeOK, NEW w \in Sockets, Fail(w)
    PROVE  Fails(w)
<1> DEFINE r == [socket[w] EXCEPT !.at = "dead"]
<1>1. w \in Handlers /\ socket \in [Handlers -> Handler] /\ socket[w] \in Handler
  BY DEF Handlers, TypeOK
<1>2. /\ r.at = "dead" /\ r.ids = socket[w].ids /\ r.todo = socket[w].todo
      /\ r.wait = socket[w].wait /\ r.conv = socket[w].conv /\ r.first = socket[w].first
  BY <1>1 DEF Handler
<1>3. r = [f \in DOMAIN socket[w] |-> r[f]]
  BY <1>1 DEF Handler
<1>4. socket' = [socket EXCEPT ![w] = r]
  BY DEF Fail
<1> HIDE DEF r
<1>5. Becomes(w, r.at, r.ids, r.todo, r.wait, r.conv, r.first)
  BY <1>1, <1>2, <1>3, <1>4, HandlerFields, OneBecomes DEF Stage
<1> QED
  BY <1>2, <1>5 DEF Fail, Fails, At

\* Where the loop over the conversations w leaves stops, and those before that.
Again(w, i) ==
    \/ w \notin SetOf(socket[w].todo[i])
    \/ \E k \in 1..(i - 1) : socket[w].todo[k] = socket[w].todo[i]
LeaveStop(w) ==
    First({i \in DOMAIN socket[w].todo : Again(w, i) \/ sets[socket[w].todo[i]] = {w}},
          socket[w].todo)

\* The conversations left before the loop stops.
LeaveKnown(w) == {socket[w].todo[i] : i \in 1..(LeaveStop(w) - 1)}

\* Where the loop over the list of a leaving socket stops: at a conversation it is not
\* in, or is alone in.
LEMMA LeaveStops ==
    ASSUME TypeOK, NEW w \in Sockets
    PROVE  /\ socket[w].todo \in Seq(Conversations) /\ Len(socket[w].todo) \in Nat
           /\ LeaveStop(w) \in 1..(Len(socket[w].todo) + 1)
           /\ LeaveStop(w) <= Len(socket[w].todo) =>
                 /\ socket[w].todo[LeaveStop(w)] \in Conversations
                 /\ \/ Again(w, LeaveStop(w))
                    \/ sets[socket[w].todo[LeaveStop(w)]] = {w}
           /\ \A c \in LeaveKnown(w) : c \in Conversations /\ w \in SetOf(c) /\ sets[c] # {w}
<1>1. socket[w].todo \in Lists
  BY HandlerFields DEF TypeOK, Handlers
<1>2. socket[w].todo \in Seq(Conversations)
  BY <1>1, ListsAre
<1>3. /\ Len(socket[w].todo) \in Nat /\ DOMAIN socket[w].todo = 1..Len(socket[w].todo)
      /\ \A i \in 1..Len(socket[w].todo) : socket[w].todo[i] \in Conversations
  BY <1>2, LenProperties, ElementOfSeq
<1> DEFINE stops == {i \in DOMAIN socket[w].todo :
                        Again(w, i) \/ sets[socket[w].todo[i]] = {w}}
<1>4. stops \in SUBSET (1..Len(socket[w].todo))
  BY <1>3
<1>5. /\ LeaveStop(w) \in 1..(Len(socket[w].todo) + 1)
      /\ LeaveStop(w) <= Len(socket[w].todo) => LeaveStop(w) \in stops
      /\ \A i \in 1..(LeaveStop(w) - 1) : i \notin stops
  <2>1. LeaveStop(w) = First(stops, socket[w].todo)
    BY DEF LeaveStop
  <2> HIDE DEF stops
  <2> QED
    BY <1>2, <1>4, <2>1, FirstStop
<1>6. \A i \in 1..(LeaveStop(w) - 1) : i \in 1..Len(socket[w].todo)
  BY <1>3, <1>5
<1>7. \A i \in 1..(LeaveStop(w) - 1) : ~Again(w, i) /\ sets[socket[w].todo[i]] # {w}
  BY <1>3, <1>5, <1>6
<1>8. \A c \in LeaveKnown(w) : c \in Conversations /\ w \in SetOf(c) /\ sets[c] # {w}
  BY <1>3, <1>6, <1>7 DEF LeaveKnown, Again
<1> QED
  BY <1>2, <1>3, <1>5, <1>8

\* What leaving does: to the end, up to a conversation without the socket, or up to one
\* that gets empty.
LeavesAll(w) ==
    /\ socket[w].at = "leave" /\ LeaveStop(w) = Len(socket[w].todo) + 1
    /\ sets' = Without(w, LeaveKnown(w), {})
    /\ NewestIs(None)
    /\ inbox' = [p \in Objects |-> IF p = Pubsub THEN <<>> ELSE inbox[p]]
    /\ Becomes(w, "gone", socket[w].ids, <<>>, socket[w].wait, socket[w].conv, socket[w].first)
    /\ UNCHANGED <<made, users, listener, sent, got, emptied>>

LeavesInTheMiddle(w) ==
    /\ socket[w].at = "leave"
    /\ sets' = Without(w, LeaveKnown(w), {})
    /\ Becomes(w, "dead", socket[w].ids, <<>>, socket[w].wait, socket[w].conv, socket[w].first)
    /\ UNCHANGED <<made, users, objects, inbox, listener, sent, got, emptied>>

LeavesLast(w, c) ==
    /\ socket[w].at = "leave" /\ LeaveStop(w) <= Len(socket[w].todo)
    /\ c = socket[w].todo[LeaveStop(w)] /\ sets[c] = {w}
    /\ sets' = Without(w, LeaveKnown(w), {c})
    /\ NewestIs((IF Pubsub = 0 \/ objects[Pubsub] = None THEN {} ELSE objects[Pubsub]) \ {c})
    /\ emptied' = emptied \cup {c}
    /\ Strands(c)
    /\ Becomes(w, "leave", socket[w].ids,
               SubSeq(socket[w].todo, LeaveStop(w) + 1, Len(socket[w].todo)),
               socket[w].wait, socket[w].conv, socket[w].first)
    /\ UNCHANGED <<made, users, inbox, sent, got>>

LEMMA LeaveConversationsDoes ==
    ASSUME TypeOK, NEW w \in Sockets, LeaveConversations(w)
    PROVE  LeavesAll(w) \/ LeavesInTheMiddle(w) \/ \E c \in Conversations : LeavesLast(w, c)
<1> DEFINE todo == socket[w].todo
           n == LeaveStop(w)
           newest == IF Pubsub = 0 \/ objects[Pubsub] = None THEN {} ELSE objects[Pubsub]
           last == IF n <= Len(todo) /\ ~Again(w, n) THEN {todo[n]} ELSE {}
           at == IF n > Len(todo) THEN "gone" ELSE IF last = {} THEN "dead" ELSE "leave"
           rest == IF last = {} THEN <<>> ELSE SubSeq(todo, n + 1, Len(todo))
           r == [socket[w] EXCEPT !.at = at, !.todo = rest]
<1>1. w \in Handlers /\ socket \in [Handlers -> Handler] /\ socket[w] \in Handler
  BY DEF Handlers, TypeOK
<1>2. socket[w].at = "leave"
  BY DEF LeaveConversations, At
<1>3. /\ todo \in Seq(Conversations) /\ Len(todo) \in Nat
      /\ n \in 1..(Len(todo) + 1)
      /\ n <= Len(todo) => /\ todo[n] \in Conversations
                           /\ Again(w, n) \/ sets[todo[n]] = {w}
  BY LeaveStops
<1>4. /\ sets' = Without(w, LeaveKnown(w), last)
      /\ emptied' = emptied \cup last
      /\ listener' = Stranded(last)
      /\ UNCHANGED <<made, users, sent, got>>
  BY DEF LeaveConversations, LeaveStop, LeaveKnown, Again
<1>5. IF n > Len(todo)
      THEN /\ objects' = Newest(None)
           /\ inbox' = [p \in Objects |-> IF p = Pubsub THEN <<>> ELSE inbox[p]]
      ELSE /\ objects' = IF last = {} THEN objects ELSE Newest(newest \ last)
           /\ UNCHANGED inbox
  BY DEF LeaveConversations, LeaveStop, Again
<1>6. socket' = [socket EXCEPT ![w] = r]
  BY <1>2 DEF LeaveConversations, LeaveStop, Again
<1>7. rest \in Lists
  <2>1. n <= Len(todo) => n + 1 \in 1..(Len(todo) + 1)
    BY <1>3
  <2>2. todo \in Lists
    BY <1>1, HandlerFields
  <2>3. n <= Len(todo) => SubSeq(todo, n + 1, Len(todo)) \in Lists
    <3> HIDE DEF n
    <3> QED
      BY <2>1, <2>2, RestIs
  <2> HIDE DEF n
  <2>4. CASE last = {}
    BY <2>4, EmptyListIs
  <2>5. CASE last # {}
    <3>1. n <= Len(todo)
      BY <2>5
    <3>2. rest = SubSeq(todo, n + 1, Len(todo))
      BY <2>5
    <3> HIDE DEF rest
    <3> QED
      BY <2>3, <3>1, <3>2
  <2> QED
    BY <2>4, <2>5
<1>8. /\ r.at = at /\ r.ids = socket[w].ids /\ r.todo = rest /\ r.wait = socket[w].wait
      /\ r.conv = socket[w].conv /\ r.first = socket[w].first
  BY <1>1 DEF Handler
<1>9. r = [f \in DOMAIN socket[w] |-> r[f]]
  BY <1>1 DEF Handler
<1>10. at \in Stage
  BY DEF Stage
<1> HIDE DEF r
<1>11. Becomes(w, at, socket[w].ids, rest, socket[w].wait, socket[w].conv, socket[w].first)
  <2> HIDE DEF at, rest
  <2>1. Becomes(w, r.at, r.ids, r.todo, r.wait, r.conv, r.first)
    BY <1>1, <1>6, <1>7, <1>8, <1>9, <1>10, HandlerFields, OneBecomes
  <2> QED
    BY <1>8, <2>1
<1>12. CASE n > Len(todo)
  <2>1. last = {} /\ at = "gone" /\ rest = <<>> /\ n = Len(todo) + 1
    BY <1>3, <1>12
  <2>2. listener' = listener /\ emptied' = emptied
    BY <1>4, <2>1 DEF Stranded, TypeOK
  <2>3. NewestIs(None)
    BY <1>5, <1>12, NewestBecomes
  <2> QED
    BY <1>2, <1>4, <1>5, <1>11, <1>12, <2>1, <2>2, <2>3 DEF LeavesAll
<1>13. CASE n <= Len(todo) /\ Again(w, n)
  <2>1. last = {} /\ at = "dead" /\ rest = <<>> /\ ~(n > Len(todo))
    BY <1>3, <1>13
  <2>2. listener' = listener /\ emptied' = emptied
    BY <1>4, <2>1 DEF Stranded, TypeOK
  <2> QED
    BY <1>2, <1>4, <1>5, <1>11, <2>1, <2>2 DEF LeavesInTheMiddle
<1>14. CASE n <= Len(todo) /\ ~Again(w, n)
  <2>1. /\ last = {todo[n]} /\ at = "leave" /\ ~(n > Len(todo)) /\ last # {}
        /\ rest = SubSeq(todo, n + 1, Len(todo)) /\ sets[todo[n]] = {w}
    <3>1. sets[todo[n]] = {w} /\ ~(n > Len(todo))
      <4> HIDE DEF n
      <4> QED
        BY <1>3, <1>14
    <3>2. last = {todo[n]}
      BY <1>14
    <3>3. last # {}
      BY <3>2
    <3>4. at = "leave" /\ rest = SubSeq(todo, n + 1, Len(todo))
      <4> HIDE DEF last, n
      <4> QED
        BY <3>1, <3>3
    <3> QED
      BY <3>1, <3>2, <3>3, <3>4
  <2>2. objects' = Newest(newest \ {todo[n]}) /\ inbox' = inbox
    BY <1>5, <2>1
  <2>3. NewestIs(newest \ {todo[n]})
    <3>1. newest \ {todo[n]} \in (SUBSET Conversations) \cup {None}
      BY ObjectsAre
    <3> HIDE DEF newest, todo, n
    <3> QED
      BY <2>2, <3>1, NewestBecomes
  <2>4. Strands(todo[n])
    BY <1>4, <2>1, StrandedAre
  <2>5. LeavesLast(w, todo[n])
    BY <1>2, <1>4, <1>11, <1>14, <2>1, <2>2, <2>3, <2>4 DEF LeavesLast
  <2> QED
    BY <1>3, <1>14, <2>5
<1> QED
  BY <1>3, <1>12, <1>13, <1>14

\* What publishing a message does.
Broadcasts(w, c) ==
    /\ socket[w].at = "open" /\ UserOf[w] \in MemberOf[c]
    /\ Room /\ Delivers(c)
    /\ UNCHANGED <<made, users, sets, objects, listener, socket, got, emptied>>

LEMMA BroadcastDoes ==
    ASSUME TypeOK, RoomLeft, NEW w \in Sockets, NEW c \in Conversations, Broadcast(w, c)
    PROVE  Broadcasts(w, c)
<1>1. Len(sent) < MaxMessages
  BY RoomFor DEF Broadcast
<1>2. Delivers(c)
  BY <1>1, DeliverDoes DEF Broadcast
<1> QED
  BY <1>2 DEF Broadcast, Broadcasts, At

-----------------------------------------------------------------------------
(* What the listeners do. *)

\* The first message of an inbox is gone.
Shifts(q) ==
    /\ inbox' \in [Objects -> Seq(Messages)]
    /\ \A p \in Objects \ {q} : inbox'[p] = inbox[p]
    /\ Len(inbox[q]) > 0 /\ Len(inbox'[q]) = Len(inbox[q]) - 1
    /\ \A i \in 1..(Len(inbox[q]) - 1) : inbox'[q][i] = inbox[q][i + 1]

\* What taking the next message does: the listener ends, or knows the sockets of now.
TakesNext(p, q, m) ==
    /\ listener[p] # None /\ listener[p].msg = 0
    /\ q = listener[p].on /\ m = inbox[q][1] /\ m \in 1..Len(sent)
    /\ Shifts(q)
    /\ \/ Stops(p)
       \/ /\ sets[sent[m]] # None
          /\ Listens(p, q, m, sets[sent[m]], sets[sent[m]], sets[sent[m]])
    /\ UNCHANGED <<made, users, sets, objects, socket, sent, got, emptied>>

LEMMA TakeMessageDoes ==
    ASSUME TypeOK, Known, NEW p \in Objects, TakeMessage(p)
    PROVE  \E q \in Objects, m \in Messages : TakesNext(p, q, m)
<1> DEFINE q == listener[p].on
           m == Head(inbox[q])
<1>1. listener[p] # None /\ listener[p] \in Listener /\ listener[p].msg = 0
  BY DEF TakeMessage, Waiting, TypeOK
<1>2. q \in Objects
  BY <1>1, ListenerFields
<1>3. inbox[q] # <<>> /\ inbox' = [inbox EXCEPT ![q] = Tail(inbox[q])]
  BY DEF TakeMessage
<1> HIDE DEF q
<1>4. /\ inbox[q] \in Seq(Messages) /\ Len(inbox[q]) \in Nat
      /\ DOMAIN inbox[q] = 1..Len(inbox[q])
  BY <1>2, InboxesAre
<1>5. /\ Head(inbox[q]) = inbox[q][1] /\ Len(inbox[q]) > 0
      /\ Tail(inbox[q]) \in Seq(Messages) /\ Len(Tail(inbox[q])) = Len(inbox[q]) - 1
      /\ \A i \in 1..Len(Tail(inbox[q])) : Tail(inbox[q])[i] = inbox[q][i + 1]
  <2>1. Len(inbox[q]) > 0
    BY <1>3, <1>4, EmptySeq
  <2> QED
    BY <1>3, <1>4, <2>1, HeadTailProperties
<1>6. Shifts(q)
  <2>1. inbox \in [Objects -> Seq(Messages)]
    BY DEF TypeOK
  <2>2. inbox'[q] = Tail(inbox[q])
    BY <1>2, <1>3, <2>1
  <2> QED
    BY <1>2, <1>3, <1>5, <2>1, <2>2 DEF Shifts
<1>7. m \in 1..Len(sent) /\ m \in Messages /\ sent[m] \in Conversations
  <2>1. m = inbox[q][1] /\ 1 \in 1..Len(inbox[q])
    BY <1>4, <1>5
  <2>2. m \in Messages
    BY <1>2, <2>1, InboxesAre
  <2>3. m <= Len(sent)
    BY <1>2, <1>4, <2>1 DEF Known
  <2>4. m \in 1..Len(sent)
    BY <2>2, <2>3, SentAre, ConstantsAssumption DEF Messages
  <2> QED
    BY <2>2, <2>4, SentAre
<1>8. CASE sets[sent[m]] = None
  <2>1. Stops(p)
    BY <1>8, ListenerStops DEF TakeMessage, q
  <2>2. TakesNext(p, q, m)
    BY <1>1, <1>5, <1>6, <1>7, <2>1 DEF TakesNext, TakeMessage, q
  <2> QED
    BY <1>2, <1>7, <2>2
<1>9. CASE sets[sent[m]] # None
  <2> DEFINE S == sets[sent[m]]
             r == [on |-> q, msg |-> m, set |-> S, todo |-> S, were |-> S]
  <2>1. S \in SUBSET Sockets
    BY <1>7, <1>9, SetsAre
  <2>2. /\ r.on = q /\ r.msg = m /\ r.set = S /\ r.todo = S /\ r.were = S
        /\ r = [on |-> r.on, msg |-> r.msg, set |-> r.set, todo |-> r.todo, were |-> r.were]
    OBVIOUS
  <2>3. listener' = [listener EXCEPT ![p] = r]
    BY <1>9 DEF TakeMessage, q
  <2>4. m \in 0..MaxMessages
    BY <1>7, ConstantsAssumption DEF Messages
  <2> HIDE DEF r, m, S
  <2>5. Listens(p, r.on, r.msg, r.set, r.todo, r.were)
    BY <1>2, <2>1, <2>2, <2>3, <2>4, ListenerBecomes
  <2>6. Listens(p, q, m, S, S, S)
    BY <2>2, <2>5
  <2>7. TakesNext(p, q, m)
    BY <1>1, <1>5, <1>6, <1>7, <1>9, <2>6 DEF TakesNext, TakeMessage, q, m, S
  <2> QED
    BY <1>2, <1>7, <2>7
<1> QED
  BY <1>8, <1>9

\* w is sent m, unless it is closed.
Gets(w, m) ==
    /\ got' \in [Sockets -> [Messages -> Nat]]
    /\ \A v \in Sockets, k \in Messages :
          got'[v][k] = IF v = w /\ k = m /\ ~Closed(w) THEN got[v][k] + 1 ELSE got[v][k]

\* What sending one text does.
Sends(p, w, m) ==
    /\ listener[p] # None /\ w \in listener[p].todo /\ m = listener[p].msg /\ m \in 1..Len(sent)
    /\ \/ Listens(p, listener[p].on, m, listener[p].set, listener[p].todo \ {w}, listener[p].were)
       \/ Closed(w) /\ Stops(p)
    /\ Gets(w, m)
    /\ UNCHANGED <<made, users, sets, objects, inbox, socket, sent, emptied>>

LEMMA SendTextDoes ==
    ASSUME TypeOK, Known, NEW p \in Objects, NEW w \in Sockets, SendText(p, w)
    PROVE  \E m \in Messages : Sends(p, w, m)
<1> DEFINE m == listener[p].msg
           r == [listener[p] EXCEPT !.todo = listener[p].todo \ {w}]
<1>1. listener[p] # None /\ listener[p] \in Listener /\ w \in listener[p].todo
  BY DEF SendText, TypeOK
<1>2. m \in 1..Len(sent) /\ m \in Messages
  <2>1. m \in 0..MaxMessages /\ m <= Len(sent) /\ m # 0
    BY <1>1, ListenerFields DEF Known
  <2> QED
    BY <2>1, SentAre, ConstantsAssumption
<1>3. Gets(w, m)
  <2>1. got \in [Sockets -> [Messages -> Nat]]
    BY DEF TypeOK
  <2>2. got' = [got EXCEPT ![w] =
                  [got[w] EXCEPT ![m] = IF Closed(w) THEN got[w][m] ELSE got[w][m] + 1]]
    BY DEF SendText
  <2>3. got[w] \in [Messages -> Nat] /\ got[w][m] \in Nat
    BY <1>2, <2>1
  <2>4. [got[w] EXCEPT ![m] = IF Closed(w) THEN got[w][m] ELSE got[w][m] + 1]
            \in [Messages -> Nat]
    BY <1>2, <2>3
  <2> HIDE DEF m
  <2>5. got' \in [Sockets -> [Messages -> Nat]]
    BY <2>1, <2>2, <2>4
  <2>6. ASSUME NEW v \in Sockets, NEW k \in Messages
        PROVE  got'[v][k] = IF v = w /\ k = m /\ ~Closed(w) THEN got[v][k] + 1 ELSE got[v][k]
    <3>1. CASE v = w
      BY <1>2, <2>1, <2>2, <2>3, <3>1
    <3>2. CASE v # w
      BY <2>1, <2>2, <3>2
    <3> QED
      BY <3>1, <3>2
  <2> QED
    BY <2>5, <2>6 DEF Gets
<1>4. ASSUME listener' = [listener EXCEPT ![p].todo = @ \ {w}]
      PROVE  Listens(p, listener[p].on, m, listener[p].set, listener[p].todo \ {w},
                     listener[p].were)
  <2>1. listener' = [listener EXCEPT ![p] = r]
    BY <1>4
  <2>2. /\ r.on = listener[p].on /\ r.msg = m /\ r.set = listener[p].set
        /\ r.todo = listener[p].todo \ {w} /\ r.were = listener[p].were
        /\ r = [on |-> r.on, msg |-> r.msg, set |-> r.set, todo |-> r.todo, were |-> r.were]
    BY <1>1 DEF Listener
  <2>3. /\ listener[p].on \in Objects /\ m \in 0..MaxMessages /\ listener[p].set \in SUBSET Sockets
        /\ listener[p].todo \ {w} \in SUBSET Sockets /\ listener[p].were \in SUBSET Sockets
    BY <1>1, ListenerFields
  <2> HIDE DEF r, m
  <2>4. Listens(p, r.on, r.msg, r.set, r.todo, r.were)
    BY <2>1, <2>2, <2>3, ListenerBecomes
  <2> QED
    BY <2>2, <2>4
<1>5. \/ Listens(p, listener[p].on, m, listener[p].set, listener[p].todo \ {w}, listener[p].were)
      \/ Closed(w) /\ Stops(p)
  BY <1>4, ListenerStops DEF SendText
<1>6. UNCHANGED <<made, users, sets, objects, inbox, socket, sent, emptied>>
  BY DEF SendText
<1>7. Sends(p, w, m)
  BY <1>1, <1>2, <1>3, <1>5, <1>6 DEF Sends
<1> QED
  BY <1>2, <1>7

\* The listener is done with its message, goes on with the set as it is now, or ends.
MovesOn(p, m) ==
    /\ listener[p] # None /\ m = listener[p].msg /\ m \in 1..Len(sent)
    /\ \/ Stops(p)
       \/ /\ listener[p].todo \cap Current(p) = {}
          /\ Listens(p, listener[p].on, 0, {}, {}, {})
       \/ \E todo \in SUBSET Current(p) :
             /\ todo \cap listener[p].set = listener[p].todo \cap Current(p)
             /\ Listens(p, listener[p].on, m, Current(p), todo, listener[p].were)
    /\ UNCHANGED <<made, users, sets, objects, inbox, socket, sent, got, emptied>>

LEMMA NextSocketDoes ==
    ASSUME TypeOK, Known, NEW p \in Objects, NextSocket(p)
    PROVE  \E m \in Messages : MovesOn(p, m)
<1> DEFINE m == listener[p].msg
           set == listener[p].set
           left == listener[p].todo \cap Current(p)
<1>1. listener[p] # None /\ listener[p] \in Listener /\ m # 0
  BY DEF NextSocket, TypeOK
<1>2. m \in 1..Len(sent) /\ m \in Messages /\ Current(p) \in SUBSET Sockets
  <2>1. m \in 0..MaxMessages /\ m <= Len(sent)
    BY <1>1, ListenerFields DEF Known
  <2>2. m \in 1..Len(sent)
    BY <1>1, <2>1, SentAre, ConstantsAssumption
  <2>3. m \in Messages /\ sent[m] \in Conversations
    BY <2>2, SentAre
  <2> QED
    BY <2>2, <2>3, SetsAre DEF Current
<1>3. UNCHANGED <<made, users, sets, objects, inbox, socket, sent, got, emptied>>
  BY DEF NextSocket
<1>4. CASE Ended(p)
  <2>1. Stops(p)
    BY <1>4, ListenerStops
  <2>2. MovesOn(p, m)
    BY <1>1, <1>2, <1>3, <2>1 DEF MovesOn
  <2> QED
    BY <1>2, <2>2
<1>5. CASE ~Ended(p)
  <2>1. PICK ahead \in SUBSET (Current(p) \ set) :
            listener' = [listener EXCEPT ![p] =
                IF left \cup ahead = {} THEN AtRest(listener[p].on)
                ELSE [listener[p] EXCEPT !.set = Current(p), !.todo = left \cup ahead]]
    BY <1>5 DEF NextSocket
  <2>2. CASE left \cup ahead = {}
    <3> DEFINE r == AtRest(listener[p].on)
    <3>1. /\ r.on = listener[p].on /\ r.msg = 0 /\ r.set = {} /\ r.todo = {} /\ r.were = {}
          /\ r = [on |-> r.on, msg |-> r.msg, set |-> r.set, todo |-> r.todo, were |-> r.were]
      BY DEF AtRest
    <3>2. 0 \in 0..MaxMessages /\ listener[p].on \in Objects
      BY <1>1, ListenerFields, ConstantsAssumption
    <3>3. listener' = [listener EXCEPT ![p] = r]
      BY <2>1, <2>2
    <3> HIDE DEF r
    <3>4. Listens(p, r.on, r.msg, r.set, r.todo, r.were)
      BY <3>1, <3>2, <3>3, ListenerBecomes
    <3>5. Listens(p, listener[p].on, 0, {}, {}, {}) /\ left = {}
      BY <2>2, <3>1, <3>4
    <3>6. MovesOn(p, m)
      BY <1>1, <1>2, <1>3, <3>5 DEF MovesOn
    <3> QED
      BY <1>2, <3>6
  <2>3. CASE left \cup ahead # {}
    <3> DEFINE r == [listener[p] EXCEPT !.set = Current(p), !.todo = left \cup ahead]
    <3>1. /\ r.on = listener[p].on /\ r.msg = m /\ r.set = Current(p) /\ r.todo = left \cup ahead
          /\ r.were = listener[p].were
          /\ r = [on |-> r.on, msg |-> r.msg, set |-> r.set, todo |-> r.todo, were |-> r.were]
      <4> DEFINE T == left \cup ahead
                 S == Current(p)
      <4>1. r = [listener[p] EXCEPT !.set = S, !.todo = T]
        OBVIOUS
      <4>2. listener[p] \in Listener
        BY <1>1
      <4> HIDE DEF r, S, T, left
      <4>3. /\ r.on = listener[p].on /\ r.msg = listener[p].msg /\ r.set = S /\ r.todo = T
            /\ r.were = listener[p].were
            /\ r = [on |-> r.on, msg |-> r.msg, set |-> r.set, todo |-> r.todo, were |-> r.were]
        BY <4>1, <4>2 DEF Listener
      <4> QED
        BY <4>3 DEF S, T
    <3>2. /\ left \cup ahead \in SUBSET Sockets /\ left \cup ahead \in SUBSET Current(p)
          /\ (left \cup ahead) \cap set = listener[p].todo \cap Current(p)
      <4>1. listener[p].todo \subseteq set
        BY <1>1 DEF Known
      <4> QED
        BY <1>2, <4>1
    <3>3. /\ listener[p].on \in Objects /\ m \in 0..MaxMessages
          /\ listener[p].were \in SUBSET Sockets
      BY <1>1, ListenerFields
    <3>4. listener' = [listener EXCEPT ![p] = r]
      BY <2>1, <2>3
    <3> HIDE DEF r, left, m
    <3>5. Listens(p, r.on, r.msg, r.set, r.todo, r.were)
      BY <1>2, <3>1, <3>2, <3>3, <3>4, ListenerBecomes
    <3>6. Listens(p, listener[p].on, m, Current(p), left \cup ahead, listener[p].were)
      BY <3>1, <3>5
    <3>7. MovesOn(p, m)
      BY <1>1, <1>2, <1>3, <3>2, <3>6 DEF MovesOn, m
    <3> QED
      BY <1>2, <3>7
  <2> QED
    BY <2>2, <2>3
<1> QED
  BY <1>4, <1>5

\* What reading without a connection does.
EndsUnconnected(p) ==
    /\ listener[p] # None /\ listener[p].msg = 0
    /\ Stops(p)
    /\ UNCHANGED <<made, users, sets, objects, inbox, socket, sent, got, emptied>>

LEMMA ReadUnconnectedDoes ==
    ASSUME TypeOK, NEW p \in Objects, ReadUnconnected(p)
    PROVE  EndsUnconnected(p)
<1>1. Stops(p)
  BY ListenerStops DEF ReadUnconnected
<1> QED
  BY <1>1 DEF ReadUnconnected, Waiting, EndsUnconnected

-----------------------------------------------------------------------------
(* Every step is one of these. *)

\* A step, by what it does to the fields of one handler, object or listener.
Step ==
    \/ \E w \in Sockets :
        \/ \E ids \in Lists : Connects(w, ids)
        \/ JoinsAll(w) \/ Subscribes(w) \/ Disconnects(w) \/ Fails(w)
        \/ LeavesAll(w) \/ LeavesInTheMiddle(w)
        \/ \E c \in Conversations : JoinsUpTo(w, c) \/ Broadcasts(w, c) \/ LeavesLast(w, c)
    \/ \E x \in Handlers :
        \/ \E c \in Conversations : Begins(x, c) \/ Adds(x, c)
        \/ \E u \in Users, w \in Sockets : Opens(x, u, w)
    \/ \E p \in Objects :
        \/ \E q \in Objects, m \in Messages : TakesNext(p, q, m)
        \/ \E m \in Messages : MovesOn(p, m) \/ \E w \in Sockets : Sends(p, w, m)
        \/ EndsUnconnected(p)
    \/ UNCHANGED vars

\* The actions do what is said above.
LEMMA NextDoes ==
    ASSUME TypeOK, Staged, Known, RoomLeft, [Next]_vars
    PROVE  Step
<1>1. ASSUME NEW w \in Sockets, NEW ids \in Lists, Connect(w, ids) PROVE Step
  BY <1>1, ConnectDoes DEF Step
<1>2. ASSUME NEW w \in Sockets, JoinConversations(w) PROVE Step
  BY <1>2, JoinDoes DEF Step
<1>3. ASSUME NEW w \in Sockets, Subscribed(w) PROVE Step
  BY <1>3, SubscribedDoes DEF Step
<1>4. ASSUME NEW w \in Sockets, NEW c \in Conversations, Broadcast(w, c) PROVE Step
  BY <1>4, BroadcastDoes DEF Step
<1>5. ASSUME NEW w \in Sockets, Disconnect(w) PROVE Step
  BY <1>5, DisconnectDoes DEF Step
<1>6. ASSUME NEW w \in Sockets, LeaveConversations(w) PROVE Step
  BY <1>6, LeaveConversationsDoes DEF Step
<1>7. ASSUME NEW w \in Sockets, Fail(w) PROVE Step
  BY <1>7, FailDoes DEF Step
<1>8. ASSUME NEW x \in Handlers, NEW c \in Conversations, NewConversation(x, c) PROVE Step
  BY <1>8, NewConversationDoes DEF Step
<1>9. ASSUME NEW x \in Handlers, OpenConversation(x) PROVE Step
  BY <1>9, OpenConversationDoes DEF Step
<1>10. ASSUME NEW x \in Handlers, AddMembers(x) PROVE Step
  BY <1>10, AddMembersDoes DEF Step
<1>11. ASSUME NEW p \in Objects, TakeMessage(p) PROVE Step
  BY <1>11, TakeMessageDoes DEF Step
<1>12. ASSUME NEW p \in Objects, NextSocket(p) PROVE Step
  BY <1>12, NextSocketDoes DEF Step
<1>13. ASSUME NEW p \in Objects, ReadUnconnected(p) PROVE Step
  BY <1>13, ReadUnconnectedDoes DEF Step
<1>14. ASSUME NEW p \in Objects, NEW w \in Sockets, SendText(p, w) PROVE Step
  BY <1>14, SendTextDoes DEF Step
<1>15. CASE UNCHANGED vars
  BY <1>15 DEF Step
<1>16. CASE Next
  BY <1>1, <1>2, <1>3, <1>4, <1>5, <1>6, <1>7, <1>8, <1>9, <1>10, <1>11, <1>12, <1>13, <1>14,
     <1>16 DEF Next, Listen
<1> QED
  BY <1>15, <1>16

-----------------------------------------------------------------------------
(* Types. *)

\* Every step keeps the types.
LEMMA TypesHold ==
    ASSUME TypeOK, Step
    PROVE  TypeOK'
<1>1. ASSUME NEW w \in Sockets, NEW ids \in Lists, Connects(w, ids) PROVE TypeOK'
  <2>1. UserOf[w] \in Users
    BY ConstantsAssumption
  <2>2. users' \in [Users -> SUBSET Sockets]
    BY <1>1, <2>1 DEF Connects, TypeOK
  <2> QED
    BY <1>1, <2>2 DEF Connects, Becomes, TypeOK, Pubsub
<1>2. ASSUME NEW w \in Sockets, JoinsAll(w) PROVE TypeOK'
  <2>1. \A c \in Conversations : c \in JoinKnown(w) => sets[c] # None
    BY JoinStops
  <2>2. \A c \in Conversations : sets'[c] \in ((SUBSET Sockets) \ {{}}) \cup {None}
    BY <1>2, <2>1, SetsAre DEF JoinsAll, TypeOK
  <2>3. sets' \in [Conversations -> ((SUBSET Sockets) \ {{}}) \cup {None}]
    BY <1>2, <2>2 DEF JoinsAll
  <2> QED
    BY <1>2, <2>3 DEF JoinsAll, Becomes, TypeOK, Pubsub
<1>3. ASSUME NEW w \in Sockets, NEW d \in Conversations, JoinsUpTo(w, d) PROVE TypeOK'
  <2>1. \A c \in Conversations : sets'[c] \in ((SUBSET Sockets) \ {{}}) \cup {None}
    BY <1>3, SetsAre DEF JoinsUpTo, Joined, TypeOK
  <2>2. sets' \in [Conversations -> ((SUBSET Sockets) \ {{}}) \cup {None}]
    BY <1>3, <2>1 DEF JoinsUpTo, Joined
  <2>3. objects' \in Seq((SUBSET Conversations) \cup {None}) /\ Len(objects') <= MaxObjects
    BY <1>3, ObjectsAre, ConstantsAssumption DEF JoinsUpTo, Grows
  <2> QED
    BY <1>3, <2>2, <2>3 DEF JoinsUpTo, Becomes, TypeOK, Pubsub
<1>4. ASSUME NEW w \in Sockets, Subscribes(w) PROVE TypeOK'
  BY <1>4, ObjectsAre DEF Subscribes, ObjectIs, Listens, OnlyListener, Becomes, TypeOK, Pubsub
<1>5. ASSUME NEW w \in Sockets, NEW c \in Conversations, Broadcasts(w, c) PROVE TypeOK'
  BY <1>5 DEF Broadcasts, Delivers, TypeOK, Pubsub
<1>6. ASSUME NEW w \in Sockets, Disconnects(w) PROVE TypeOK'
  <2>1. users' \in [Users -> SUBSET Sockets]
    BY <1>6 DEF Disconnects, TypeOK
  <2> QED
    BY <1>6, <2>1 DEF Disconnects, Becomes, TypeOK, Pubsub
<1>7. ASSUME NEW w \in Sockets, Fails(w) PROVE TypeOK'
  BY <1>7 DEF Fails, Becomes, TypeOK, Pubsub
<1>8. ASSUME NEW w \in Sockets, LeavesAll(w) \/ LeavesInTheMiddle(w)
                                \/ \E d \in Conversations : LeavesLast(w, d)
      PROVE  TypeOK'
  <2>1. \A c \in LeaveKnown(w) : c \in Conversations /\ w \in SetOf(c) /\ sets[c] # {w}
    BY LeaveStops
  <2>2. ASSUME NEW c \in Conversations, c \in LeaveKnown(w)
        PROVE  sets[c] \ {w} \in (SUBSET Sockets) \ {{}}
    BY <2>1, <2>2, SetsAre
  <2>3. ASSUME NEW last, sets' = Without(w, LeaveKnown(w), last)
        PROVE  sets' \in [Conversations -> ((SUBSET Sockets) \ {{}}) \cup {None}]
    BY <2>2, <2>3 DEF Without, TypeOK
  <2>4. sets' \in [Conversations -> ((SUBSET Sockets) \ {{}}) \cup {None}]
    BY <1>8, <2>3 DEF LeavesAll, LeavesInTheMiddle, LeavesLast
  <2>5. CASE LeavesAll(w)
    <3>1. objects' \in Seq((SUBSET Conversations) \cup {None}) /\ Len(objects') <= MaxObjects
      BY <2>5, ObjectsAre DEF LeavesAll, NewestIs, ObjectIs, TypeOK, Pubsub
    <3>2. inbox' \in [Objects -> Seq(Messages)]
      BY <2>5, EmptySeq DEF LeavesAll, TypeOK
    <3> QED
      BY <2>4, <2>5, <3>1, <3>2 DEF LeavesAll, Becomes, TypeOK, Pubsub
  <2>6. CASE LeavesInTheMiddle(w)
    BY <2>4, <2>6 DEF LeavesInTheMiddle, Becomes, TypeOK, Pubsub
  <2>7. ASSUME NEW d \in Conversations, LeavesLast(w, d) PROVE TypeOK'
    <3>1. objects' \in Seq((SUBSET Conversations) \cup {None}) /\ Len(objects') <= MaxObjects
      BY <2>7, ObjectsAre DEF LeavesLast, NewestIs, ObjectIs, TypeOK, Pubsub
    <3> QED
      BY <2>4, <2>7, <3>1 DEF LeavesLast, Strands, Becomes, TypeOK, Pubsub
  <2> QED
    BY <1>8, <2>5, <2>6, <2>7
<1>9. ASSUME NEW x \in Handlers, NEW c \in Conversations, Begins(x, c) PROVE TypeOK'
  BY <1>9 DEF Begins, Becomes, TypeOK, Pubsub
<1>10. ASSUME NEW x \in Handlers, NEW u \in Users, NEW w \in Sockets, Opens(x, u, w) PROVE TypeOK'
  <2>1. sets' \in [Conversations -> ((SUBSET Sockets) \ {{}}) \cup {None}]
    BY <1>10 DEF Opens, TypeOK
  <2>2. objects' \in Seq((SUBSET Conversations) \cup {None}) /\ Len(objects') <= MaxObjects
    BY <1>10, ObjectsAre, ConstantsAssumption DEF Opens, Grows
  <2> QED
    BY <1>10, <2>1, <2>2 DEF Opens, Becomes, TypeOK, Pubsub
<1>11. ASSUME NEW x \in Handlers, NEW c \in Conversations, Adds(x, c) PROVE TypeOK'
  <2>1. Members(c) \in SUBSET Sockets
    BY ConstantsAssumption DEF Members, TypeOK
  <2>2. Members(c) # {} => SetOf(c) \cup Members(c) \in (SUBSET Sockets) \ {{}}
    BY <2>1, SetsAre
  <2>3. sets' \in [Conversations -> ((SUBSET Sockets) \ {{}}) \cup {None}]
    BY <1>11, <2>2 DEF Adds, TypeOK
  <2>4. objects' \in Seq((SUBSET Conversations) \cup {None}) /\ Len(objects') <= MaxObjects
    BY <1>11, ObjectsAre DEF Adds, ObjectIs, TypeOK, Pubsub
  <2>5. listener' \in [Objects -> Listener \cup {None}]
    BY <1>11 DEF Adds, Listens, OnlyListener, TypeOK
  <2>6. /\ sent' \in Seq(Conversations) /\ Len(sent') <= MaxMessages
        /\ inbox' \in [Objects -> Seq(Messages)]
    BY <1>11 DEF Adds, Delivers, TypeOK
  <2>7. socket' \in [Handlers -> Handler]
    BY <1>11 DEF Adds, Becomes
  <2> QED
    BY <1>11, <2>3, <2>4, <2>5, <2>6, <2>7 DEF Adds, TypeOK, Pubsub
<1>12. ASSUME NEW p \in Objects, NEW q \in Objects, NEW m \in Messages, TakesNext(p, q, m)
       PROVE  TypeOK'
  BY <1>12 DEF TakesNext, Shifts, Stops, Listens, OnlyListener, TypeOK, Pubsub
<1>13. ASSUME NEW p \in Objects, NEW m \in Messages, MovesOn(p, m) PROVE TypeOK'
  BY <1>13 DEF MovesOn, Stops, Listens, OnlyListener, TypeOK, Pubsub
<1>14. ASSUME NEW p \in Objects, NEW w \in Sockets, NEW m \in Messages, Sends(p, w, m)
       PROVE  TypeOK'
  BY <1>14 DEF Sends, Gets, Stops, Listens, OnlyListener, TypeOK, Pubsub
<1>15. ASSUME NEW p \in Objects, EndsUnconnected(p) PROVE TypeOK'
  BY <1>15 DEF EndsUnconnected, Stops, OnlyListener, TypeOK, Pubsub
<1>16. CASE UNCHANGED vars
  BY <1>16 DEF vars, TypeOK, Pubsub
<1> QED
  BY <1>1, <1>2, <1>3, <1>4, <1>5, <1>6, <1>7, <1>8, <1>9, <1>10, <1>11, <1>12, <1>13, <1>14,
     <1>15, <1>16 DEF Step

-----------------------------------------------------------------------------
(* Room for the announcements. *)

\* The bound on messages always has room for the conversations in the making.
LEMMA RoomHolds ==
    ASSUME TypeOK, RoomLeft, Step
    PROVE  RoomLeft'
<1>1. Len(sent) \in Nat /\ Cardinality(Making) \in Nat /\ MaxMessages \in Nat
  BY SentAre, MakingAre, ConstantsAssumption
<1>2. ASSUME \A y \in Handlers : socket'[y].at = "make" <=> socket[y].at = "make",
             Len(sent') = Len(sent)
      PROVE  RoomLeft'
  <2>1. Making' = Making
    BY <1>2 DEF Making, At
  <2> QED
    BY <1>2, <2>1 DEF RoomLeft
<1>4. \A w \in Sockets : w \in Handlers
  BY DEF Handlers
<1>5. \A x \in Handlers : x \in Making <=> socket[x].at = "make"
  BY DEF Making, At
<1>6. ASSUME NEW w \in Sockets, NEW ids \in Lists, Connects(w, ids) PROVE RoomLeft'
  BY <1>2, <1>4, <1>6 DEF Connects, Becomes
<1>7. ASSUME NEW w \in Sockets, JoinsAll(w) PROVE RoomLeft'
  BY <1>2, <1>4, <1>7 DEF JoinsAll, Becomes
<1>8. ASSUME NEW w \in Sockets, NEW c \in Conversations, JoinsUpTo(w, c) PROVE RoomLeft'
  BY <1>2, <1>4, <1>8 DEF JoinsUpTo, Becomes
<1>9. ASSUME NEW w \in Sockets, Subscribes(w) PROVE RoomLeft'
  BY <1>2, <1>4, <1>9 DEF Subscribes, Becomes
<1>10. ASSUME NEW w \in Sockets, NEW c \in Conversations, Broadcasts(w, c) PROVE RoomLeft'
  <2>1. Making' = Making
    BY <1>10 DEF Broadcasts, Making, At
  <2>2. Len(sent) + Cardinality(Making) < MaxMessages /\ Len(sent') = Len(sent) + 1
    BY <1>10 DEF Broadcasts, Room, Making, Delivers
  <2> QED
    BY <1>1, <2>1, <2>2 DEF RoomLeft
<1>11. ASSUME NEW w \in Sockets, Disconnects(w) PROVE RoomLeft'
  BY <1>2, <1>4, <1>11 DEF Disconnects, Becomes
<1>12. ASSUME NEW w \in Sockets, Fails(w) PROVE RoomLeft'
  BY <1>2, <1>4, <1>12 DEF Fails, Becomes
<1>13. ASSUME NEW w \in Sockets, LeavesAll(w) PROVE RoomLeft'
  BY <1>2, <1>4, <1>13 DEF LeavesAll, Becomes
<1>14. ASSUME NEW w \in Sockets, LeavesInTheMiddle(w) PROVE RoomLeft'
  BY <1>2, <1>4, <1>14 DEF LeavesInTheMiddle, Becomes
<1>15. ASSUME NEW w \in Sockets, NEW c \in Conversations, LeavesLast(w, c) PROVE RoomLeft'
  BY <1>2, <1>4, <1>15 DEF LeavesLast, Becomes
<1>16. ASSUME NEW x \in Handlers, NEW c \in Conversations, Begins(x, c) PROVE RoomLeft'
  <2>1. Making' = Making \cup {x}
    BY <1>16 DEF Begins, Becomes, Making, At
  <2>2. Len(sent) + Cardinality(Making) < MaxMessages /\ sent' = sent
    BY <1>16 DEF Begins, Room, Making
  <2>3. IsFiniteSet(Making)
    BY MakingAre
  <2>4. Cardinality(Making \cup {x}) = IF x \in Making THEN Cardinality(Making)
                                       ELSE Cardinality(Making) + 1
    BY <2>3, FS_AddElement
  <2>5. Len(sent') + Cardinality(Making') <= MaxMessages
    BY <1>1, <2>1, <2>2, <2>4
  <2> QED
    BY <2>5 DEF RoomLeft
<1>17. ASSUME NEW x \in Handlers, NEW u \in Users, NEW w \in Sockets, Opens(x, u, w)
       PROVE  RoomLeft'
  BY <1>2, <1>17 DEF Opens, Becomes
<1>18. ASSUME NEW x \in Handlers, NEW c \in Conversations, Adds(x, c) PROVE RoomLeft'
  <2>1. Making' = Making \ {x}
    BY <1>18 DEF Adds, Becomes, Making, At
  <2>2. x \in Making
    BY <1>5, <1>18 DEF Adds
  <2>5. IsFiniteSet(Making)
    BY MakingAre
  <2>6. Cardinality(Making \ {x}) = Cardinality(Making) - 1
    BY <2>2, <2>5, FS_RemoveElement
  <2>3. Cardinality(Making') = Cardinality(Making) - 1
    BY <2>1, <2>6
  <2>4. Len(sent') = Len(sent) \/ Len(sent') = Len(sent) + 1
    BY <1>18 DEF Adds, Delivers
  <2> QED
    BY <1>1, <2>3, <2>4 DEF RoomLeft
<1>19. ASSUME UNCHANGED <<socket, sent>> PROVE RoomLeft'
  BY <1>2, <1>19 DEF Making, At
<1>20. ASSUME NEW p \in Objects, NEW q \in Objects, NEW m \in Messages,
              \/ TakesNext(p, q, m) \/ MovesOn(p, m) \/ EndsUnconnected(p)
              \/ \E w \in Sockets : Sends(p, w, m)
       PROVE  RoomLeft'
  BY <1>19, <1>20 DEF TakesNext, MovesOn, EndsUnconnected, Sends
<1>21. ASSUME NEW p \in Objects, EndsUnconnected(p) PROVE RoomLeft'
  BY <1>19, <1>21 DEF EndsUnconnected
<1>22. CASE UNCHANGED vars
  BY <1>19, <1>22 DEF vars
<1> QED
  BY <1>6, <1>7, <1>8, <1>9, <1>10, <1>11, <1>12, <1>13, <1>14, <1>15, <1>16, <1>17, <1>18,
     <1>20, <1>21, <1>22 DEF Step

-----------------------------------------------------------------------------
(* Who waits for which object. *)

\* The conversation the loop of a connecting socket waits for is the first of what it
\* has left.
LEMMA RestOfJoin ==
    ASSUME TypeOK, NEW w \in Sockets, JoinStop(w) <= Len(socket[w].todo)
    PROVE  LET rest == SubSeq(socket[w].todo, JoinStop(w), Len(socket[w].todo)) IN
           /\ rest # <<>> /\ rest[1] = socket[w].todo[JoinStop(w)]
           /\ Head(rest) = rest[1]
<1> DEFINE rest == SubSeq(socket[w].todo, JoinStop(w), Len(socket[w].todo))
           n == JoinStop(w)
<1>1. socket[w].todo \in Lists
  BY HandlerFields DEF TypeOK, Handlers
<1>2. n \in 1..(Len(socket[w].todo) + 1) /\ Len(socket[w].todo) \in Nat
  BY JoinStops
<1>3. /\ rest \in Lists /\ Len(rest) = Len(socket[w].todo) - n + 1
      /\ \A i \in 1..(Len(socket[w].todo) - n + 1) : rest[i] = socket[w].todo[n + i - 1]
  BY <1>1, <1>2, RestIs
<1>4. 1 \in 1..(Len(socket[w].todo) - n + 1) /\ n + 1 - 1 = n
  BY <1>2
<1>5. Len(rest) # 0 /\ rest[1] = socket[w].todo[n]
  BY <1>2, <1>3, <1>4
<1>6. rest # <<>>
  BY <1>5, EmptySeq
<1>7. Head(rest) = rest[1]
  <2>1. rest \in Seq(Conversations)
    BY <1>3, ListsAre
  <2> HIDE DEF rest
  <2> QED
    BY <1>6, <2>1
<1> QED
  BY <1>5, <1>6, <1>7

\* Handlers wait for Redis where they join or make a conversation only.
LEMMA StagedHolds ==
    ASSUME TypeOK, Staged, Step
    PROVE  Staged'
<1>1. Pubsub \in Nat /\ \A w \in Sockets : w \in Handlers
  BY ObjectsAre DEF Handlers
<1>2. \A x \in Handlers : socket[x].wait \in Nat
  BY HandlerFields, ConstantsAssumption DEF TypeOK
<1>3. ASSUME Pubsub' = Pubsub \/ Pubsub' = Pubsub + 1, NEW x \in Handlers,
             \A y \in Handlers \ {x} : socket'[y] = socket[y],
             /\ socket'[x].wait <= Pubsub'
             /\ socket'[x].wait # 0 => socket'[x].at \in {"join", "make"}
             /\ socket'[x].at = "join" /\ socket'[x].wait # 0 => socket'[x].todo # <<>>
             /\ socket'[x].at = "make" => socket'[x].conv \in Conversations
      PROVE  Staged'
  BY <1>1, <1>2, <1>3 DEF Staged
<1>4. ASSUME UNCHANGED <<socket, objects>> PROVE Staged'
  BY <1>4 DEF Staged, Pubsub
<1>5. ASSUME NEW w \in Sockets, NEW ids \in Lists, Connects(w, ids) PROVE Staged'
  BY <1>1, <1>3, <1>5 DEF Connects, Becomes, Pubsub, Staged
<1>6. ASSUME NEW w \in Sockets, JoinsAll(w) PROVE Staged'
  BY <1>1, <1>3, <1>6 DEF JoinsAll, Becomes, Pubsub, Staged
<1>7. ASSUME NEW w \in Sockets, NEW c \in Conversations, JoinsUpTo(w, c) PROVE Staged'
  <2>1. Pubsub' = Pubsub + 1
    BY <1>7 DEF JoinsUpTo, Grows, Pubsub
  <2>2. socket'[w].todo # <<>>
    BY <1>7, RestOfJoin DEF JoinsUpTo, Becomes
  <2>3. /\ \A y \in Handlers \ {w} : socket'[y] = socket[y]
        /\ socket'[w].at = "join" /\ socket'[w].wait = Pubsub + 1
    BY <1>7 DEF JoinsUpTo, Becomes
  <2> QED
    BY <1>1, <1>3, <2>1, <2>2, <2>3
<1>8. ASSUME NEW w \in Sockets, Subscribes(w) PROVE Staged'
  <2>1. Pubsub' = Pubsub
    BY <1>8 DEF Subscribes, ObjectIs, Pubsub
  <2> QED
    BY <1>1, <1>3, <1>8, <2>1 DEF Subscribes, Becomes
<1>9. ASSUME NEW w \in Sockets, NEW c \in Conversations, Broadcasts(w, c) PROVE Staged'
  BY <1>4, <1>9 DEF Broadcasts
<1>10. ASSUME NEW w \in Sockets, Disconnects(w) PROVE Staged'
  BY <1>1, <1>3, <1>10 DEF Disconnects, Becomes, Pubsub, Staged
<1>11. ASSUME NEW w \in Sockets, Fails(w) PROVE Staged'
  BY <1>1, <1>3, <1>11 DEF Fails, Becomes, Pubsub, Staged
<1>12. ASSUME NEW w \in Sockets, LeavesAll(w) PROVE Staged'
  <2>1. Pubsub' = Pubsub
    BY <1>12 DEF LeavesAll, NewestIs, ObjectIs, Pubsub
  <2> QED
    BY <1>1, <1>3, <1>12, <2>1 DEF LeavesAll, Becomes, Staged
<1>13. ASSUME NEW w \in Sockets, LeavesInTheMiddle(w) PROVE Staged'
  BY <1>1, <1>3, <1>13 DEF LeavesInTheMiddle, Becomes, Pubsub, Staged
<1>14. ASSUME NEW w \in Sockets, NEW c \in Conversations, LeavesLast(w, c) PROVE Staged'
  <2>1. Pubsub' = Pubsub
    BY <1>14 DEF LeavesLast, NewestIs, ObjectIs, Pubsub
  <2> QED
    BY <1>1, <1>3, <1>14, <2>1 DEF LeavesLast, Becomes, Staged
<1>15. ASSUME NEW x \in Handlers, NEW c \in Conversations, Begins(x, c) PROVE Staged'
  BY <1>1, <1>3, <1>15 DEF Begins, Becomes, Pubsub, Staged
<1>16. ASSUME NEW x \in Handlers, NEW u \in Users, NEW w \in Sockets, Opens(x, u, w)
       PROVE  Staged'
  <2>1. Pubsub' = Pubsub + 1
    BY <1>16 DEF Opens, Grows, Pubsub
  <2>2. socket[x].conv \in Conversations
    BY <1>16 DEF Opens, Staged
  <2> QED
    BY <1>1, <1>3, <1>16, <2>1, <2>2 DEF Opens, Becomes
<1>17. ASSUME NEW x \in Handlers, NEW c \in Conversations, Adds(x, c) PROVE Staged'
  <2>1. Pubsub' = Pubsub
    BY <1>17 DEF Adds, ObjectIs, Pubsub
  <2> QED
    BY <1>1, <1>3, <1>17, <2>1 DEF Adds, Becomes
<1>18. ASSUME NEW p \in Objects, NEW q \in Objects, NEW m \in Messages, TakesNext(p, q, m)
       PROVE  Staged'
  BY <1>4, <1>18 DEF TakesNext
<1>19. ASSUME NEW p \in Objects, NEW m \in Messages,
              MovesOn(p, m) \/ EndsUnconnected(p) \/ \E w \in Sockets : Sends(p, w, m)
       PROVE  Staged'
  BY <1>4, <1>19 DEF MovesOn, EndsUnconnected, Sends
<1>20. ASSUME NEW p \in Objects, EndsUnconnected(p) PROVE Staged'
  BY <1>4, <1>20 DEF EndsUnconnected
<1>21. CASE UNCHANGED vars
  BY <1>4, <1>21 DEF vars
<1> QED
  BY <1>5, <1>6, <1>7, <1>8, <1>9, <1>10, <1>11, <1>12, <1>13, <1>14, <1>15, <1>16, <1>17, <1>18,
     <1>19, <1>20, <1>21 DEF Step

\* Two handlers never wait for the same object, and nobody listens there yet.
Waits ==
    /\ \A x, y \in Handlers : socket[x].wait # 0 /\ socket[x].wait = socket[y].wait => x = y
    /\ \A x \in Handlers : socket[x].wait # 0 => listener[socket[x].wait] = None
    /\ \A p \in Objects : listener[p] # None => p <= Pubsub

\* No two handlers wait for one object, and nobody listens under its number before.
LEMMA WaitsHold ==
    ASSUME TypeOK, Staged, Waits, Step
    PROVE  Waits'
<1>1. /\ Pubsub \in Nat /\ (\A w \in Sockets : w \in Handlers) /\ MaxObjects \in Nat
      /\ \A x \in Handlers :
            /\ socket[x].wait \in Nat /\ socket[x].wait <= Pubsub
            /\ socket[x].wait # 0 => socket[x].wait \in Objects
  <2>1. \A x \in Handlers : socket[x].wait \in 0..MaxObjects
    BY HandlerFields DEF TypeOK
  <2> QED
    BY <2>1, ObjectsAre, ConstantsAssumption DEF Handlers, Objects, Staged
<1>2. ASSUME \A y \in Handlers : socket'[y].wait = socket[y].wait \/ socket'[y].wait = 0,
             \A p \in Objects : listener'[p] # None => listener[p] # None,
             Pubsub' = Pubsub
      PROVE  Waits'
  <2>1. \A x \in Handlers : socket'[x].wait # 0 => listener'[socket'[x].wait] = None
    BY <1>1, <1>2 DEF Waits
  <2>2. \A x, y \in Handlers :
            socket'[x].wait # 0 /\ socket'[x].wait = socket'[y].wait => x = y
    BY <1>2 DEF Waits
  <2>3. \A p \in Objects : listener'[p] # None => p <= Pubsub'
    BY <1>2 DEF Waits
  <2> QED
    BY <2>1, <2>2, <2>3 DEF Waits
<1>3. ASSUME NEW x \in Handlers, \A y \in Handlers \ {x} : socket'[y] = socket[y],
             socket'[x].wait = Pubsub + 1, listener' = listener, Pubsub' = Pubsub + 1,
             Pubsub < MaxObjects
      PROVE  Waits'
  <2>1. \A p \in Objects : listener[p] # None => p <= Pubsub
    BY DEF Waits
  <2>2. Pubsub + 1 \in Objects /\ listener[Pubsub + 1] = None
    BY <1>1, <1>3, <2>1 DEF Objects
  <2>3. \A y \in Handlers \ {x} : socket'[y].wait # Pubsub + 1
    BY <1>1, <1>3
  <2>4. \A p \in Objects : listener'[p] # None => p <= Pubsub'
    BY <1>1, <1>3, <2>1 DEF Objects
  <2>5. \A y \in Handlers, z \in Handlers :
            socket'[y].wait # 0 /\ socket'[y].wait = socket'[z].wait => y = z
    BY <1>3, <2>3 DEF Waits
  <2>6. \A y \in Handlers : socket'[y].wait # 0 => listener'[socket'[y].wait] = None
    BY <1>1, <1>3, <2>2 DEF Waits
  <2> QED
    BY <2>4, <2>5, <2>6 DEF Waits
<1>4. ASSUME NEW x \in Handlers, socket[x].wait # 0,
             \A y \in Handlers \ {x} : socket'[y] = socket[y], socket'[x].wait = 0,
             OnlyListener(socket[x].wait), Pubsub' = Pubsub
      PROVE  Waits'
  <2>1. \A y \in Handlers \ {x} : socket[y].wait # 0 =>
            socket[y].wait # socket[x].wait /\ listener'[socket[y].wait] = listener[socket[y].wait]
    BY <1>1, <1>4 DEF Waits, OnlyListener
  <2>2. \A y \in Handlers : socket'[y].wait # 0 => listener'[socket'[y].wait] = None
    BY <1>4, <2>1 DEF Waits
  <2>3. \A y, z \in Handlers :
            socket'[y].wait # 0 /\ socket'[y].wait = socket'[z].wait => y = z
    BY <1>4 DEF Waits
  <2>4. \A p \in Objects : listener'[p] # None => p <= Pubsub'
    BY <1>1, <1>4 DEF Waits, OnlyListener
  <2> QED
    BY <2>2, <2>3, <2>4 DEF Waits
<1>5. ASSUME NEW w \in Sockets,
             \/ \E ids \in Lists : Connects(w, ids)
             \/ JoinsAll(w) \/ Disconnects(w) \/ Fails(w) \/ LeavesInTheMiddle(w)
      PROVE  Waits'
  <2>1. \A y \in Handlers : socket'[y].wait = socket[y].wait \/ socket'[y].wait = 0
    BY <1>5 DEF Connects, JoinsAll, Disconnects, Fails, LeavesInTheMiddle, Becomes
  <2>2. listener' = listener /\ objects' = objects
    BY <1>5 DEF Connects, JoinsAll, Disconnects, Fails, LeavesInTheMiddle
  <2> QED
    BY <1>2, <2>1, <2>2 DEF Pubsub
<1>6. ASSUME NEW w \in Sockets, NEW c \in Conversations, JoinsUpTo(w, c) PROVE Waits'
  <2>1. /\ \A y \in Handlers \ {w} : socket'[y] = socket[y]
        /\ socket'[w].wait = Pubsub + 1 /\ listener' = listener
    BY <1>6 DEF JoinsUpTo, Becomes
  <2>2. Pubsub' = Pubsub + 1 /\ Pubsub < MaxObjects
    BY <1>6 DEF JoinsUpTo, Grows, Pubsub
  <2> QED
    BY <1>1, <1>3, <2>1, <2>2
<1>7. ASSUME NEW w \in Sockets, Subscribes(w) PROVE Waits'
  <2>1. Pubsub' = Pubsub /\ socket[w].wait # 0
    BY <1>1, <1>7 DEF Subscribes, ObjectIs, Pubsub
  <2>2. /\ \A y \in Handlers \ {w} : socket'[y] = socket[y]
        /\ socket'[w].wait = 0 /\ OnlyListener(socket[w].wait)
    BY <1>7 DEF Subscribes, Becomes, Listens
  <2> QED
    BY <1>1, <1>4, <2>1, <2>2
<1>8. ASSUME NEW w \in Sockets, NEW c \in Conversations, Broadcasts(w, c) PROVE Waits'
  BY <1>2, <1>8 DEF Broadcasts, Pubsub
<1>9. ASSUME NEW w \in Sockets, LeavesAll(w) PROVE Waits'
  <2>1. \A y \in Handlers : socket'[y].wait = socket[y].wait
    BY <1>9 DEF LeavesAll, Becomes
  <2>2. Pubsub' = Pubsub /\ listener' = listener
    BY <1>9 DEF LeavesAll, NewestIs, ObjectIs, Pubsub
  <2> QED
    BY <1>2, <2>1, <2>2
<1>10. ASSUME NEW w \in Sockets, NEW c \in Conversations, LeavesLast(w, c) PROVE Waits'
  <2>1. \A y \in Handlers : socket'[y].wait = socket[y].wait
    BY <1>10 DEF LeavesLast, Becomes
  <2>2. Pubsub' = Pubsub
    BY <1>10 DEF LeavesLast, NewestIs, ObjectIs, Pubsub
  <2>3. \A p \in Objects : listener'[p] # None => listener[p] # None
    BY <1>10 DEF LeavesLast, Strands
  <2> QED
    BY <1>2, <2>1, <2>2, <2>3
<1>11. ASSUME NEW x \in Handlers, NEW c \in Conversations, Begins(x, c) PROVE Waits'
  <2>1. \A y \in Handlers : socket'[y].wait = socket[y].wait
    BY <1>11 DEF Begins, Becomes
  <2> QED
    BY <1>2, <1>11, <2>1 DEF Begins, Pubsub
<1>12. ASSUME NEW x \in Handlers, NEW u \in Users, NEW w \in Sockets, Opens(x, u, w)
       PROVE  Waits'
  <2>1. /\ \A y \in Handlers \ {x} : socket'[y] = socket[y]
        /\ socket'[x].wait = Pubsub + 1 /\ listener' = listener
    BY <1>12 DEF Opens, Becomes
  <2>2. Pubsub' = Pubsub + 1 /\ Pubsub < MaxObjects
    BY <1>12 DEF Opens, Grows, Pubsub
  <2> QED
    BY <1>3, <2>1, <2>2
<1>13. ASSUME NEW x \in Handlers, NEW c \in Conversations, Adds(x, c) PROVE Waits'
  <2>1. (\A y \in Handlers \ {x} : socket'[y] = socket[y]) /\ socket'[x].wait = 0
    BY <1>13 DEF Adds, Becomes
  <2>2. Pubsub' = Pubsub
    BY <1>13 DEF Adds, ObjectIs, Pubsub
  <2>3. CASE socket[x].wait = 0
    <3>1. listener' = listener
      BY <1>13, <2>3 DEF Adds
    <3>2. \A y \in Handlers : socket'[y].wait = socket[y].wait
      BY <2>1, <2>3
    <3> QED
      BY <1>2, <2>2, <3>1, <3>2
  <2>4. CASE socket[x].wait # 0
    <3>1. OnlyListener(socket[x].wait)
      BY <1>13, <2>4 DEF Adds, Listens
    <3> QED
      BY <1>4, <2>1, <2>2, <2>4, <3>1
  <2> QED
    BY <2>3, <2>4
<1>14. ASSUME NEW p \in Objects, listener[p] # None, OnlyListener(p),
              UNCHANGED <<socket, objects>>
       PROVE  Waits'
  BY <1>2, <1>14 DEF OnlyListener, Pubsub
<1>15. ASSUME NEW p \in Objects, NEW q \in Objects, NEW m \in Messages, TakesNext(p, q, m)
       PROVE  Waits'
  BY <1>14, <1>15 DEF TakesNext, Stops, Listens
<1>16. ASSUME NEW p \in Objects, NEW m \in Messages, MovesOn(p, m) PROVE Waits'
  BY <1>14, <1>16 DEF MovesOn, Stops, Listens
<1>17. ASSUME NEW p \in Objects, NEW m \in Messages, NEW w \in Sockets, Sends(p, w, m)
       PROVE  Waits'
  BY <1>14, <1>17 DEF Sends, Stops, Listens
<1>18. ASSUME NEW p \in Objects, EndsUnconnected(p) PROVE Waits'
  BY <1>14, <1>18 DEF EndsUnconnected, Stops
<1>19. CASE UNCHANGED vars
  BY <1>2, <1>19 DEF vars, Pubsub
<1> QED
  BY <1>5, <1>6, <1>7, <1>8, <1>9, <1>10, <1>11, <1>12, <1>13, <1>15, <1>16, <1>17, <1>18, <1>19
     DEF Step

\* Only messages that were published wait, are handed out or were sent.
LEMMA KnownHolds ==
    ASSUME TypeOK, Known, Step
    PROVE  Known'
<1>1. /\ Len(sent) \in Nat
      /\ \A p \in Objects : Len(inbox[p]) \in Nat /\ DOMAIN inbox[p] = 1..Len(inbox[p])
      /\ \A p \in Objects : \A i \in 1..Len(inbox[p]) : inbox[p][i] \in Nat /\ inbox[p][i] <= Len(sent)
  <2>1. \A p \in Objects : /\ Len(inbox[p]) \in Nat /\ DOMAIN inbox[p] = 1..Len(inbox[p])
                           /\ \A i \in 1..Len(inbox[p]) : inbox[p][i] \in Messages
    BY InboxesAre
  <2> QED
    BY <2>1, SentAre DEF Messages, Known
<1>2. ASSUME UNCHANGED <<inbox, listener, got, sent>> PROVE Known'
  BY <1>2 DEF Known
<1>3. ASSUME NEW p \in Objects, OnlyListener(p), sent' = sent,
             \A q \in Objects : \A i \in DOMAIN inbox'[q] : inbox'[q][i] <= Len(sent),
             \A w \in Sockets, m \in Messages : m > Len(sent) => got'[w][m] = 0,
             \/ listener'[p] = None
             \/ /\ listener'[p].msg <= Len(sent)
                /\ listener'[p].todo \subseteq listener'[p].set
                /\ listener'[p].msg = 0 => listener'[p].set = {}
      PROVE  Known'
  BY <1>3 DEF Known, OnlyListener
<1>4. ASSUME NEW c \in Conversations, Delivers(c), got' = got,
             \A p \in Objects :
                \/ listener'[p] = listener[p]
                \/ listener'[p].msg = 0 /\ listener'[p].set = {} /\ listener'[p].todo = {}
      PROVE  Known'
  <2>1. \A p \in Objects : DOMAIN inbox'[p] = 1..Len(inbox'[p])
    <3>1. \A p \in Objects : inbox'[p] \in Seq(Messages)
      BY <1>4 DEF Delivers
    <3> QED
      BY <3>1, LenProperties
  <2>2. Len(sent') = Len(sent) + 1
    BY <1>4 DEF Delivers
  <2>3. ASSUME NEW p \in Objects, NEW i \in DOMAIN inbox'[p]
        PROVE  inbox'[p][i] <= Len(sent')
    <3>1. CASE inbox'[p] = inbox[p]
      BY <1>1, <2>2, <3>1
    <3>2. CASE inbox'[p] # inbox[p]
      <4>1. /\ Len(inbox'[p]) = Len(inbox[p]) + 1
            /\ inbox'[p][Len(inbox[p]) + 1] = Len(sent) + 1
            /\ \A j \in 1..Len(inbox[p]) : inbox'[p][j] = inbox[p][j]
        BY <1>4, <3>2 DEF Delivers
      <4>2. i \in 1..Len(inbox[p]) \/ i = Len(inbox[p]) + 1
        BY <1>1, <2>1, <4>1
      <4> QED
        BY <1>1, <2>2, <4>1, <4>2
    <3> QED
      BY <3>1, <3>2
  <2>4. ASSUME NEW p \in Objects, listener'[p] # None
        PROVE  /\ listener'[p].msg <= Len(sent')
               /\ listener'[p].todo \subseteq listener'[p].set
               /\ listener'[p].msg = 0 => listener'[p].set = {}
    <3>1. CASE listener'[p] = listener[p]
      <4>1. listener[p].msg \in Nat
        BY <2>4, <3>1, ListenerFields, ConstantsAssumption DEF TypeOK
      <4> QED
        BY <1>1, <2>2, <2>4, <3>1, <4>1 DEF Known
    <3>2. CASE listener'[p] # listener[p]
      BY <1>1, <1>4, <2>2, <2>4, <3>2
    <3> QED
      BY <3>1, <3>2
  <2>5. \A w \in Sockets, m \in Messages : m > Len(sent') => got'[w][m] = 0
    BY <1>1, <1>4, <2>2 DEF Known, Messages
  <2> QED
    BY <2>3, <2>4, <2>5 DEF Known
<1>5. ASSUME NEW w \in Sockets,
             \/ \E ids \in Lists : Connects(w, ids)
             \/ JoinsAll(w) \/ Disconnects(w) \/ Fails(w) \/ LeavesInTheMiddle(w)
             \/ \E c \in Conversations : JoinsUpTo(w, c)
      PROVE  Known'
  BY <1>2, <1>5 DEF Connects, JoinsAll, Disconnects, Fails, LeavesInTheMiddle, JoinsUpTo
<1>6. ASSUME NEW w \in Sockets, Subscribes(w) PROVE Known'
  <2>1. socket[w].wait \in Objects
    BY <1>6, ObjectsAre, ConstantsAssumption DEF Subscribes, Objects
  <2> QED
    BY <1>1, <1>3, <1>6, <2>1 DEF Subscribes, Listens, Known
<1>7. ASSUME NEW w \in Sockets, NEW c \in Conversations, Broadcasts(w, c) PROVE Known'
  <2>1. Delivers(c) /\ got' = got /\ listener' = listener
    BY <1>7 DEF Broadcasts
  <2>2. \A p \in Objects : listener'[p] = listener[p]
    BY <2>1
  <2> QED
    BY <1>4, <2>1, <2>2
<1>8. ASSUME NEW w \in Sockets, LeavesAll(w) PROVE Known'
  <2>1. \A p \in Objects : inbox'[p] = <<>> \/ inbox'[p] = inbox[p]
    BY <1>8 DEF LeavesAll
  <2>2. listener' = listener /\ got' = got /\ sent' = sent
    BY <1>8 DEF LeavesAll
  <2>3. \A p \in Objects : \A i \in DOMAIN inbox'[p] : inbox'[p][i] <= Len(sent)
    BY <2>1 DEF Known
  <2> QED
    BY <2>2, <2>3 DEF Known
<1>9. ASSUME NEW w \in Sockets, NEW c \in Conversations, LeavesLast(w, c) PROVE Known'
  <2>1. inbox' = inbox /\ got' = got /\ sent' = sent /\ Strands(c)
    BY <1>9 DEF LeavesLast
  <2>2. ASSUME NEW p \in Objects, listener'[p] # None
        PROVE  /\ listener'[p].msg <= Len(sent)
               /\ listener'[p].todo \subseteq listener'[p].set
               /\ listener'[p].msg = 0 => listener'[p].set = {}
    <3>1. CASE listener'[p] = listener[p]
      BY <2>2, <3>1 DEF Known
    <3>2. CASE listener'[p] # listener[p]
      BY <2>1, <3>2 DEF Known, Strands
    <3> QED
      BY <3>1, <3>2
  <2> QED
    BY <2>1, <2>2 DEF Known
<1>10. ASSUME NEW x \in Handlers,
              \/ \E c \in Conversations : Begins(x, c)
              \/ \E u \in Users, w \in Sockets : Opens(x, u, w)
       PROVE  Known'
  BY <1>2, <1>10 DEF Begins, Opens
<1>11. ASSUME NEW x \in Handlers, NEW c \in Conversations, Adds(x, c) PROVE Known'
  <2>1. ASSUME NEW p \in Objects
        PROVE  \/ listener'[p] = listener[p]
               \/ listener'[p].msg = 0 /\ listener'[p].set = {} /\ listener'[p].todo = {}
    <3>1. CASE socket[x].wait = 0
      <4>1. listener' = listener
        BY <1>11, <3>1 DEF Adds
      <4> QED
        BY <4>1
    <3>2. CASE socket[x].wait # 0
      <4>1. Listens(socket[x].wait, Pubsub, 0, {}, {}, {})
        BY <1>11, <3>2 DEF Adds
      <4>2. CASE p = socket[x].wait
        BY <4>1, <4>2 DEF Listens
      <4>3. CASE p # socket[x].wait
        BY <4>1, <4>3 DEF Listens, OnlyListener
      <4> QED
        BY <4>2, <4>3
    <3> QED
      BY <3>1, <3>2
  <2>2. CASE Delivers(c)
    BY <1>4, <1>11, <2>1, <2>2 DEF Adds
  <2>3. CASE sent' = sent /\ inbox' = inbox
    <3>1. got' = got
      BY <1>11 DEF Adds
    <3> QED
      BY <1>1, <2>1, <2>3, <3>1 DEF Known
  <2> QED
    BY <1>11, <2>2, <2>3 DEF Adds
<1>12. ASSUME NEW p \in Objects, NEW q \in Objects, NEW m \in Messages, TakesNext(p, q, m)
       PROVE  Known'
  <2>1. sent' = sent /\ got' = got /\ m \in 1..Len(sent) /\ OnlyListener(p)
    BY <1>12 DEF TakesNext, Stops, Listens
  <2>2. ASSUME NEW o \in Objects, NEW i \in DOMAIN inbox'[o] PROVE inbox'[o][i] <= Len(sent)
    <3>1. CASE o # q
      BY <1>1, <1>12, <2>2, <3>1 DEF TakesNext, Shifts
    <3>2. CASE o = q
      <4>1. inbox'[q] \in Seq(Messages)
        BY <1>12 DEF TakesNext, Shifts
      <4>2. DOMAIN inbox'[q] = 1..Len(inbox'[q])
        BY <4>1, LenProperties
      <4>3. /\ Len(inbox'[q]) = Len(inbox[q]) - 1
            /\ \A j \in 1..(Len(inbox[q]) - 1) : inbox'[q][j] = inbox[q][j + 1]
        BY <1>12 DEF TakesNext, Shifts
      <4>4. i \in 1..(Len(inbox[q]) - 1) /\ i + 1 \in 1..Len(inbox[q])
        BY <1>1, <2>2, <3>2, <4>2, <4>3
      <4> QED
        BY <1>1, <3>2, <4>3, <4>4
    <3> QED
      BY <3>1, <3>2
  <2>3. \/ listener'[p] = None
        \/ /\ listener'[p].msg <= Len(sent)
           /\ listener'[p].todo \subseteq listener'[p].set
           /\ listener'[p].msg = 0 => listener'[p].set = {}
    BY <1>1, <1>12, <2>1 DEF TakesNext, Stops, Listens
  <2> QED
    BY <1>3, <2>1, <2>2, <2>3 DEF Known
<1>13. ASSUME NEW p \in Objects, NEW m \in Messages, MovesOn(p, m) PROVE Known'
  <2>1. UNCHANGED <<inbox, got, sent>> /\ m \in 1..Len(sent) /\ OnlyListener(p)
    BY <1>13 DEF MovesOn, Stops, Listens
  <2>2. \/ listener'[p] = None
        \/ /\ listener'[p].msg <= Len(sent)
           /\ listener'[p].todo \subseteq listener'[p].set
           /\ listener'[p].msg = 0 => listener'[p].set = {}
    BY <1>1, <1>13, <2>1 DEF MovesOn, Stops, Listens
  <2> QED
    BY <1>3, <2>1, <2>2 DEF Known
<1>14. ASSUME NEW p \in Objects, NEW m \in Messages, NEW w \in Sockets, Sends(p, w, m)
       PROVE  Known'
  <2>1. UNCHANGED <<inbox, sent>> /\ m \in 1..Len(sent) /\ OnlyListener(p)
    BY <1>14 DEF Sends, Stops, Listens
  <2>2. listener[p] # None /\ listener[p].todo \subseteq listener[p].set
    BY <1>14 DEF Sends, Known
  <2>3. \/ listener'[p] = None
        \/ /\ listener'[p].msg <= Len(sent)
           /\ listener'[p].todo \subseteq listener'[p].set
           /\ listener'[p].msg = 0 => listener'[p].set = {}
    BY <1>1, <1>14, <2>1, <2>2 DEF Sends, Stops, Listens
  <2>4. \A v \in Sockets, k \in Messages : k > Len(sent) => got'[v][k] = 0
    BY <1>1, <1>14, <2>1 DEF Sends, Gets, Known
  <2> QED
    BY <1>3, <2>1, <2>3, <2>4 DEF Known
<1>15. ASSUME NEW p \in Objects, EndsUnconnected(p) PROVE Known'
  BY <1>3, <1>15 DEF EndsUnconnected, Stops, Known
<1>16. CASE UNCHANGED vars
  BY <1>2, <1>16 DEF vars
<1> QED
  BY <1>5, <1>6, <1>7, <1>8, <1>9, <1>10, <1>11, <1>12, <1>13, <1>14, <1>15, <1>16 DEF Step

-----------------------------------------------------------------------------
(* Whose everything is. *)

\* The sockets kept for an account are its own.
Owned == \A u \in Users : \A w \in users[u] : UserOf[w] = u

\* A socket joins conversations of its user.
Joining ==
    \A w \in Sockets : socket[w].at = "join" =>
        \A i \in DOMAIN socket[w].todo : UserOf[w] \in MemberOf[socket[w].todo[i]]

\* The sockets in a conversation are its members'.
Inside == \A c \in Conversations : \A w \in SetOf(c) : UserOf[w] \in MemberOf[c]

\* So are those a listener hands a message of it.
Hearing ==
    \A p \in Objects : listener[p] # None /\ listener[p].msg # 0 =>
        \A w \in listener[p].set : UserOf[w] \in MemberOf[sent[listener[p].msg]]

LEMMA OwnedHolds ==
    ASSUME TypeOK, Owned, Step
    PROVE  Owned'
<1>1. ASSUME users' = users PROVE Owned'
  BY <1>1 DEF Owned
<1>2. ASSUME NEW w \in Sockets, NEW ids \in Lists, Connects(w, ids) PROVE Owned'
  BY <1>2 DEF Connects, Owned, TypeOK
<1>3. ASSUME NEW w \in Sockets, Disconnects(w) PROVE Owned'
  BY <1>3 DEF Disconnects, Owned, TypeOK
<1> QED
  BY <1>1, <1>2, <1>3 DEF Step, JoinsAll, Subscribes, Fails, LeavesAll, LeavesInTheMiddle,
     JoinsUpTo, Broadcasts, LeavesLast, Begins, Adds, Opens, TakesNext, MovesOn, Sends,
     EndsUnconnected, vars

\* What is left of a list is part of it.
LEMMA RestOfList ==
    ASSUME TypeOK, NEW w \in Sockets, NEW n \in 1..(Len(socket[w].todo) + 1)
    PROVE  LET rest == SubSeq(socket[w].todo, n, Len(socket[w].todo)) IN
           \A i \in DOMAIN rest : \E k \in DOMAIN socket[w].todo :
                k >= n /\ rest[i] = socket[w].todo[k]
<1> DEFINE rest == SubSeq(socket[w].todo, n, Len(socket[w].todo))
<1>1. socket[w].todo \in Lists
  BY HandlerFields DEF TypeOK, Handlers
<1>2. /\ socket[w].todo \in Seq(Conversations) /\ Len(socket[w].todo) \in Nat
      /\ DOMAIN socket[w].todo = 1..Len(socket[w].todo)
  BY <1>1, ListsAre, LenProperties
<1>3. /\ rest \in Lists /\ Len(rest) = Len(socket[w].todo) - n + 1
      /\ \A i \in 1..(Len(socket[w].todo) - n + 1) : rest[i] = socket[w].todo[n + i - 1]
  BY <1>1, RestIs
<1>4. DOMAIN rest = 1..Len(rest)
  <2>1. rest \in Seq(Conversations)
    BY <1>3, ListsAre
  <2> HIDE DEF rest
  <2> QED
    BY <2>1, LenProperties
<1> HIDE DEF rest
<1>5. ASSUME NEW i \in DOMAIN rest
      PROVE  \E k \in DOMAIN socket[w].todo : k >= n /\ rest[i] = socket[w].todo[k]
  <2>1. i \in 1..(Len(socket[w].todo) - n + 1)
    BY <1>3, <1>4
  <2>2. n + i - 1 \in 1..Len(socket[w].todo) /\ n + i - 1 >= n
    BY <1>2, <2>1
  <2> QED
    BY <1>2, <1>3, <2>1, <2>2
<1> QED
  BY <1>5 DEF rest

LEMMA TailOfList ==
    ASSUME TypeOK, NEW w \in Sockets, socket[w].todo # <<>>
    PROVE  \A i \in DOMAIN Tail(socket[w].todo) : \E k \in DOMAIN socket[w].todo :
                Tail(socket[w].todo)[i] = socket[w].todo[k]
<1>1. socket[w].todo \in Lists
  BY HandlerFields DEF TypeOK, Handlers
<1>2. /\ socket[w].todo \in Seq(Conversations) /\ Len(socket[w].todo) \in Nat
      /\ DOMAIN socket[w].todo = 1..Len(socket[w].todo)
  BY <1>1, ListsAre, LenProperties
<1>3. /\ Tail(socket[w].todo) \in Seq(Conversations)
      /\ Len(Tail(socket[w].todo)) = Len(socket[w].todo) - 1
      /\ \A i \in 1..Len(Tail(socket[w].todo)) : Tail(socket[w].todo)[i] = socket[w].todo[i + 1]
  BY <1>2, HeadTailProperties
<1>4. DOMAIN Tail(socket[w].todo) = 1..Len(Tail(socket[w].todo))
  BY <1>3, LenProperties
<1>5. ASSUME NEW i \in DOMAIN Tail(socket[w].todo)
      PROVE  \E k \in DOMAIN socket[w].todo : Tail(socket[w].todo)[i] = socket[w].todo[k]
  <2>1. i + 1 \in DOMAIN socket[w].todo
    BY <1>2, <1>3, <1>4
  <2> QED
    BY <1>3, <1>4, <2>1
<1> QED
  BY <1>5

\* A connecting socket keeps to conversations of its user.
LEMMA JoiningHolds ==
    ASSUME TypeOK, Joining, Step
    PROVE  Joining'
<1>1. ASSUME socket' = socket PROVE Joining'
  BY <1>1 DEF Joining
<1>2. ASSUME NEW x \in Handlers, \A y \in Handlers \ {x} : socket'[y] = socket[y],
             \/ socket'[x].at # "join"
             \/ x \in Sockets => \A i \in DOMAIN socket'[x].todo :
                                     UserOf[x] \in MemberOf[socket'[x].todo[i]]
      PROVE  Joining'
  BY <1>2 DEF Joining, Handlers
<1>3. \A w \in Sockets : w \in Handlers
  BY DEF Handlers
<1>4. ASSUME NEW w \in Sockets, NEW ids \in Lists, Connects(w, ids) PROVE Joining'
  BY <1>2, <1>3, <1>4 DEF Connects, Becomes
<1>5. ASSUME NEW w \in Sockets, NEW c \in Conversations, JoinsUpTo(w, c) PROVE Joining'
  <2> DEFINE rest == SubSeq(socket[w].todo, JoinStop(w), Len(socket[w].todo))
  <2>1. /\ socket[w].at = "join" /\ socket'[w].todo = rest
        /\ \A y \in Handlers \ {w} : socket'[y] = socket[y]
    BY <1>5 DEF JoinsUpTo, Becomes
  <2>2. \A i \in DOMAIN rest : \E k \in DOMAIN socket[w].todo : rest[i] = socket[w].todo[k]
    BY JoinStops, RestOfList
  <2> HIDE DEF rest
  <2>3. \A i \in DOMAIN rest : UserOf[w] \in MemberOf[rest[i]]
    BY <2>1, <2>2 DEF Joining
  <2> QED
    BY <1>2, <1>3, <2>1, <2>3
<1>6. ASSUME NEW w \in Sockets, Subscribes(w) PROVE Joining'
  <2> DEFINE rest == Tail(socket[w].todo)
  <2>1. /\ socket[w].at = "join" /\ socket'[w].todo = rest /\ socket[w].todo # <<>>
        /\ \A y \in Handlers \ {w} : socket'[y] = socket[y]
    BY <1>6 DEF Subscribes, Becomes
  <2>2. \A i \in DOMAIN rest : \E k \in DOMAIN socket[w].todo : rest[i] = socket[w].todo[k]
    BY <2>1, TailOfList
  <2> HIDE DEF rest
  <2>3. \A i \in DOMAIN rest : UserOf[w] \in MemberOf[rest[i]]
    BY <2>1, <2>2 DEF Joining
  <2> QED
    BY <1>2, <1>3, <2>1, <2>3
<1>7. ASSUME NEW w \in Sockets,
             \/ JoinsAll(w) \/ Disconnects(w) \/ Fails(w) \/ LeavesAll(w) \/ LeavesInTheMiddle(w)
             \/ \E c \in Conversations : LeavesLast(w, c)
      PROVE  Joining'
  <2>1. socket'[w].at # "join" /\ \A y \in Handlers \ {w} : socket'[y] = socket[y]
    BY <1>7 DEF JoinsAll, Disconnects, Fails, LeavesAll, LeavesInTheMiddle, LeavesLast, Becomes
  <2> QED
    BY <1>2, <1>3, <2>1
<1>8. ASSUME NEW x \in Handlers,
             \/ \E c \in Conversations : Begins(x, c) \/ Adds(x, c)
             \/ \E u \in Users, w \in Sockets : Opens(x, u, w)
      PROVE  Joining'
  <2>1. socket'[x].at # "join" /\ \A y \in Handlers \ {x} : socket'[y] = socket[y]
    BY <1>8 DEF Begins, Adds, Opens, Becomes
  <2> QED
    BY <1>2, <2>1
<1>9. ASSUME \/ \E w \in Sockets, c \in Conversations : Broadcasts(w, c)
             \/ \E p \in Objects :
                   \/ \E q \in Objects, m \in Messages : TakesNext(p, q, m)
                   \/ \E m \in Messages : MovesOn(p, m) \/ \E w \in Sockets : Sends(p, w, m)
                   \/ EndsUnconnected(p)
             \/ UNCHANGED vars
      PROVE  Joining'
  BY <1>1, <1>9 DEF Broadcasts, TakesNext, MovesOn, Sends, EndsUnconnected, vars
<1> QED
  BY <1>4, <1>5, <1>6, <1>7, <1>8, <1>9 DEF Step

-----------------------------------------------------------------------------
(* What the steps do to the sets of the conversations. *)

\* The set of c gets nobody but w, who may be in it.
Enters(w, c) ==
    /\ SetOf(c) \subseteq SetOf(c)'
    /\ \A v \in SetOf(c)' : v \in SetOf(c) \/ (v = w /\ UserOf[w] \in MemberOf[c])

LEMMA JoinsAllSets ==
    ASSUME TypeOK, Joining, NEW w \in Sockets, JoinsAll(w)
    PROVE  \A c \in Conversations : Enters(w, c) /\ (sets'[c] = None <=> sets[c] = None)
<1>1. \A c \in JoinKnown(w) : sets[c] # None /\ UserOf[w] \in MemberOf[c]
  <2>1. \A i \in 1..(JoinStop(w) - 1) : i \in DOMAIN socket[w].todo
    BY JoinStops, LenProperties
  <2>2. \A c \in JoinKnown(w) : UserOf[w] \in MemberOf[c]
    BY <2>1 DEF JoinsAll, Joining, JoinKnown
  <2> QED
    BY <2>2, JoinStops
<1>2. ASSUME NEW c \in Conversations, c \in JoinKnown(w)
      PROVE  Enters(w, c) /\ (sets'[c] = None <=> sets[c] = None)
  <2>1. sets'[c] = SetOf(c) \cup {w} /\ sets[c] # None
    BY <1>1, <1>2, SetsAre DEF JoinsAll
  <2>2. sets'[c] # None
    <3>1. SetOf(c) \cup {w} \in SUBSET Sockets
      BY SetsAre
    <3> QED
      BY <2>1, <3>1, NoneAssumption
  <2>3. SetOf(c)' = SetOf(c) \cup {w}
    BY <2>1, <2>2 DEF SetOf
  <2> QED
    BY <1>1, <1>2, <2>1, <2>2, <2>3 DEF Enters
<1>3. ASSUME NEW c \in Conversations, c \notin JoinKnown(w)
      PROVE  Enters(w, c) /\ (sets'[c] = None <=> sets[c] = None)
  <2>1. sets'[c] = sets[c]
    BY <1>3 DEF JoinsAll
  <2> QED
    BY <2>1 DEF Enters, SetOf
<1> QED
  BY <1>2, <1>3

LEMMA JoinsUpToSets ==
    ASSUME TypeOK, Joining, NEW w \in Sockets, NEW d \in Conversations, JoinsUpTo(w, d)
    PROVE  /\ sets[d] = None
           /\ \A c \in Conversations :
                 Enters(w, c) /\ (sets'[c] = None <=> sets[c] = None /\ c # d)
<1>1. \A c \in JoinKnown(w) : sets[c] # None /\ UserOf[w] \in MemberOf[c]
  <2>1. \A i \in 1..(JoinStop(w) - 1) : i \in DOMAIN socket[w].todo
    BY JoinStops, LenProperties
  <2>2. \A c \in JoinKnown(w) : UserOf[w] \in MemberOf[c]
    BY <2>1 DEF JoinsUpTo, Joining, JoinKnown
  <2> QED
    BY <2>2, JoinStops
<1>2. sets[d] = None /\ UserOf[w] \in MemberOf[d]
  <2>1. JoinStop(w) \in DOMAIN socket[w].todo /\ d = socket[w].todo[JoinStop(w)]
    BY JoinStops, LenProperties DEF JoinsUpTo
  <2> QED
    BY <2>1, JoinStops DEF JoinsUpTo, Joining
<1>3. ASSUME NEW c \in Conversations, c \in JoinKnown(w) \cup {d}
      PROVE  Enters(w, c) /\ sets'[c] # None
  <2>1. sets'[c] = SetOf(c) \cup {w}
    BY <1>3 DEF JoinsUpTo, Joined
  <2>2. sets'[c] # None
    <3>1. SetOf(c) \cup {w} \in SUBSET Sockets
      BY SetsAre
    <3> QED
      BY <2>1, <3>1, NoneAssumption
  <2>3. SetOf(c)' = SetOf(c) \cup {w}
    BY <2>1, <2>2 DEF SetOf
  <2> QED
    BY <1>1, <1>2, <1>3, <2>2, <2>3 DEF Enters
<1>4. ASSUME NEW c \in Conversations, c \notin JoinKnown(w) \cup {d}
      PROVE  Enters(w, c) /\ (sets'[c] = None <=> sets[c] = None)
  <2>1. sets'[c] = sets[c]
    BY <1>4 DEF JoinsUpTo, Joined
  <2> QED
    BY <2>1 DEF Enters, SetOf
<1> QED
  BY <1>1, <1>2, <1>3, <1>4

LEMMA OpensSets ==
    ASSUME TypeOK, Staged, Owned, NEW x \in Handlers, NEW u \in Users, NEW w \in Sockets,
           Opens(x, u, w)
    PROVE  /\ sets[socket[x].conv] = None
           /\ \A c \in Conversations :
                 Enters(w, c) /\ (sets'[c] = None <=> sets[c] = None /\ c # socket[x].conv)
<1> PICK d \in Conversations : d = socket[x].conv
  BY DEF Opens, Staged
<1>1. sets[d] = None /\ UserOf[w] \in MemberOf[d]
  BY DEF Opens, Owned
<1>2. sets' = [sets EXCEPT ![d] = {w}]
  BY DEF Opens
<1>3. sets'[d] = {w} /\ {w} # None /\ SetOf(d) = {}
  BY <1>1, <1>2, SetsAre, NoneAssumption DEF TypeOK
<1>4. \A c \in Conversations \ {d} : sets'[c] = sets[c]
  BY <1>2 DEF TypeOK
<1>5. Enters(w, d) /\ sets'[d] # None
  <2>1. SetOf(d)' = {w} /\ sets'[d] # None
    BY <1>3 DEF SetOf
  <2> QED
    BY <1>1, <1>3, <2>1 DEF Enters
<1>6. \A c \in Conversations \ {d} : Enters(w, c) /\ (sets'[c] = None <=> sets[c] = None)
  BY <1>4 DEF Enters, SetOf
<1>7. \A c \in Conversations : Enters(w, c) /\ (sets'[c] = None <=> sets[c] = None /\ c # d)
  BY <1>5, <1>6
<1> QED
  BY <1>1, <1>7

LEMMA AddsSets ==
    ASSUME TypeOK, NEW x \in Handlers, NEW c \in Conversations, Adds(x, c)
    PROVE  \A d \in Conversations :
              /\ SetOf(d) \subseteq SetOf(d)'
              /\ \A v \in SetOf(d)' : v \in SetOf(d) \/ (d = c /\ v \in Members(c))
              /\ sets'[d] = None => sets[d] = None
              /\ d # c => sets'[d] = sets[d]
<1>1. CASE sets' = sets
  BY <1>1 DEF SetOf
<1>2. CASE sets' = [sets EXCEPT ![c] = SetOf(c) \cup Members(c)]
  <2>1. SetOf(c) \cup Members(c) \in SUBSET Sockets
    BY SetsAre, ConstantsAssumption DEF Members, TypeOK
  <2>2. sets'[c] = SetOf(c) \cup Members(c) /\ sets'[c] # None
    BY <1>2, <2>1, NoneAssumption DEF TypeOK
  <2>3. SetOf(c)' = SetOf(c) \cup Members(c)
    BY <2>2 DEF SetOf
  <2>4. \A d \in Conversations \ {c} : sets'[d] = sets[d]
    BY <1>2 DEF TypeOK
  <2>5. \A d \in Conversations \ {c} : SetOf(d)' = SetOf(d)
    BY <2>4 DEF SetOf
  <2> QED
    BY <2>2, <2>3, <2>4, <2>5
<1> QED
  BY <1>1, <1>2 DEF Adds

\* Leaving takes w, and nobody else, out of the sets.
LEMMA LeavesSets ==
    ASSUME TypeOK, NEW w \in Sockets, NEW last, \A c \in last : sets[c] = {w},
           sets' = Without(w, LeaveKnown(w), last)
    PROVE  \A c \in Conversations :
              /\ SetOf(c)' \subseteq SetOf(c) /\ SetOf(c) \subseteq SetOf(c)' \cup {w}
              /\ c \notin last => (sets'[c] = None <=> sets[c] = None)
              /\ c \in LeaveKnown(w) \cup last => w \notin SetOf(c)'
<1> SUFFICES ASSUME NEW c \in Conversations
    PROVE  /\ SetOf(c)' \subseteq SetOf(c) /\ SetOf(c) \subseteq SetOf(c)' \cup {w}
           /\ c \notin last => (sets'[c] = None <=> sets[c] = None)
           /\ c \in LeaveKnown(w) \cup last => w \notin SetOf(c)'
  OBVIOUS
<1>1. sets'[c] = IF c \in last THEN None ELSE IF c \in LeaveKnown(w) THEN sets[c] \ {w} ELSE sets[c]
  BY DEF Without
<1>2. CASE c \in last
  <2>1. sets'[c] = None /\ sets[c] = {w} /\ {w} # None
    BY <1>1, <1>2, NoneAssumption
  <2> QED
    BY <1>2, <2>1 DEF SetOf
<1>3. CASE c \notin last /\ c \in LeaveKnown(w)
  <2>1. w \in SetOf(c) /\ sets[c] # None /\ SetOf(c) = sets[c] /\ sets[c] \in SUBSET Sockets
    BY <1>3, LeaveStops, SetsAre
  <2>2. sets'[c] = sets[c] \ {w} /\ sets'[c] # None
    BY <1>1, <1>3, <2>1, NoneAssumption
  <2>3. SetOf(c)' = SetOf(c) \ {w}
    BY <2>1, <2>2 DEF SetOf
  <2> QED
    BY <1>3, <2>1, <2>2, <2>3
<1>4. CASE c \notin last /\ c \notin LeaveKnown(w)
  BY <1>1, <1>4 DEF SetOf
<1> QED
  BY <1>2, <1>3, <1>4

\* Only sockets of members get into a conversation.
LEMMA InsideHolds ==
    ASSUME TypeOK, Staged, Owned, Joining, Inside, Step
    PROVE  Inside'
<1>1. ASSUME sets' = sets PROVE Inside'
  BY <1>1 DEF Inside, SetOf
<1>2. ASSUME \A c \in Conversations : \A v \in SetOf(c)' :
                v \in SetOf(c) \/ UserOf[v] \in MemberOf[c]
      PROVE  Inside'
  BY <1>2 DEF Inside
<1>3. ASSUME NEW w \in Sockets, JoinsAll(w) PROVE Inside'
  <2>1. \A c \in Conversations : Enters(w, c)
    BY <1>3, JoinsAllSets
  <2> QED
    BY <1>2, <2>1 DEF Enters
<1>4. ASSUME NEW w \in Sockets, NEW d \in Conversations, JoinsUpTo(w, d) PROVE Inside'
  <2>1. \A c \in Conversations : Enters(w, c)
    BY <1>4, JoinsUpToSets
  <2> QED
    BY <1>2, <2>1 DEF Enters
<1>5. ASSUME NEW x \in Handlers, NEW u \in Users, NEW w \in Sockets, Opens(x, u, w) PROVE Inside'
  <2>1. \A c \in Conversations : Enters(w, c)
    BY <1>5, OpensSets
  <2> QED
    BY <1>2, <2>1 DEF Enters
<1>6. ASSUME NEW x \in Handlers, NEW c \in Conversations, Adds(x, c) PROVE Inside'
  <2>1. \A v \in Members(c) : UserOf[v] \in MemberOf[c]
    BY ConstantsAssumption DEF Members, Owned
  <2>2. \A d \in Conversations : \A v \in SetOf(d)' : v \in SetOf(d) \/ (d = c /\ v \in Members(c))
    BY <1>6, AddsSets
  <2> QED
    BY <1>2, <2>1, <2>2
<1>7. ASSUME NEW w \in Sockets, NEW last, \A c \in last : sets[c] = {w},
             sets' = Without(w, LeaveKnown(w), last)
      PROVE  Inside'
  <2>1. \A c \in Conversations : SetOf(c)' \subseteq SetOf(c)
    BY <1>7, LeavesSets
  <2> QED
    BY <1>2, <2>1
<1>8. ASSUME NEW w \in Sockets, LeavesAll(w) \/ LeavesInTheMiddle(w) PROVE Inside'
  BY <1>7, <1>8 DEF LeavesAll, LeavesInTheMiddle
<1>9. ASSUME NEW w \in Sockets, NEW c \in Conversations, LeavesLast(w, c) PROVE Inside'
  <2>1. sets[c] = {w} /\ sets' = Without(w, LeaveKnown(w), {c})
    BY <1>9 DEF LeavesLast
  <2> QED
    BY <1>7, <2>1
<1>10. ASSUME \/ \E w \in Sockets :
                   \/ \E ids \in Lists : Connects(w, ids)
                   \/ Subscribes(w) \/ Disconnects(w) \/ Fails(w)
                   \/ \E c \in Conversations : Broadcasts(w, c)
              \/ \E x \in Handlers, c \in Conversations : Begins(x, c)
              \/ \E p \in Objects :
                   \/ \E q \in Objects, m \in Messages : TakesNext(p, q, m)
                   \/ \E m \in Messages : MovesOn(p, m) \/ \E w \in Sockets : Sends(p, w, m)
                   \/ EndsUnconnected(p)
              \/ UNCHANGED vars
       PROVE  Inside'
  BY <1>1, <1>10 DEF Connects, Subscribes, Disconnects, Fails, Broadcasts, Begins, TakesNext,
     MovesOn, Sends, EndsUnconnected, vars
<1> QED
  BY <1>3, <1>4, <1>5, <1>6, <1>8, <1>9, <1>10 DEF Step

\* What a listener copied of a set stays the sockets of members.
LEMMA HearingHolds ==
    ASSUME TypeOK, Known, Inside, Hearing, Step
    PROVE  Hearing'
<1>1. \A p \in Objects : listener[p] # None /\ listener[p].msg # 0 =>
            /\ listener[p].msg \in 1..Len(sent) /\ sent[listener[p].msg] \in Conversations
  <2>1. \A p \in Objects : listener[p] # None => listener[p].msg \in 0..MaxMessages
    BY ListenerFields DEF TypeOK
  <2> QED
    BY <2>1, SentAre, ConstantsAssumption DEF Known
<1>2. ASSUME sent' = sent \/ \E c \in Conversations : Delivers(c),
             \A p \in Objects :
                \/ listener'[p] = listener[p]
                \/ listener'[p] = None \/ listener'[p].msg = 0 \/ listener'[p].set = {}
      PROVE  Hearing'
  <2>1. \A m \in 1..Len(sent) : sent'[m] = sent[m]
    BY <1>2 DEF Delivers
  <2> QED
    BY <1>1, <1>2, <2>1 DEF Hearing
<1>3. ASSUME listener' = listener, sent' = sent \/ \E c \in Conversations : Delivers(c)
      PROVE  Hearing'
  BY <1>2, <1>3
<1>4. ASSUME NEW p \in Objects, OnlyListener(p), sent' = sent, listener'[p] # None,
             listener'[p].msg = 0
             \/ /\ sent[listener'[p].msg] \in Conversations
                /\ \/ listener'[p].set \subseteq SetOf(sent[listener'[p].msg])
                   \/ /\ listener[p] # None /\ listener'[p].msg = listener[p].msg
                      /\ listener'[p].set \subseteq listener[p].set
      PROVE  Hearing'
  BY <1>4 DEF OnlyListener, Hearing, Inside
<1>5. ASSUME NEW p \in Objects, Stops(p), sent' = sent PROVE Hearing'
  BY <1>2, <1>5 DEF Stops, OnlyListener
<1>6. ASSUME NEW w \in Sockets, Subscribes(w) PROVE Hearing'
  BY <1>2, <1>6 DEF Subscribes, Listens, OnlyListener
<1>7. ASSUME NEW w \in Sockets, NEW c \in Conversations, LeavesLast(w, c) PROVE Hearing'
  <2>1. sent' = sent /\ Strands(c)
    BY <1>7 DEF LeavesLast
  <2> QED
    BY <1>2, <2>1 DEF Strands
<1>8. ASSUME NEW x \in Handlers, NEW c \in Conversations, Adds(x, c) PROVE Hearing'
  <2>1. ASSUME NEW p \in Objects
        PROVE  listener'[p] = listener[p] \/ listener'[p].msg = 0
    <3>1. CASE socket[x].wait = 0
      <4>1. listener' = listener
        BY <1>8, <3>1 DEF Adds
      <4> QED
        BY <4>1
    <3>2. CASE socket[x].wait # 0
      <4>1. Listens(socket[x].wait, Pubsub, 0, {}, {}, {})
        BY <1>8, <3>2 DEF Adds
      <4> QED
        BY <4>1 DEF Listens, OnlyListener
    <3> QED
      BY <3>1, <3>2
  <2>2. sent' = sent \/ Delivers(c)
    BY <1>8 DEF Adds
  <2> QED
    BY <1>2, <2>1, <2>2
<1>9. ASSUME NEW p \in Objects, NEW q \in Objects, NEW m \in Messages, TakesNext(p, q, m)
      PROVE  Hearing'
  <2>1. sent' = sent /\ sent[m] \in Conversations
    BY <1>9, SentAre DEF TakesNext
  <2>2. CASE Stops(p)
    BY <1>5, <2>1, <2>2
  <2>3. CASE sets[sent[m]] # None /\ Listens(p, q, m, sets[sent[m]], sets[sent[m]], sets[sent[m]])
    <3>1. SetOf(sent[m]) = sets[sent[m]]
      BY <2>3 DEF SetOf
    <3>2. /\ OnlyListener(p) /\ listener'[p] # None /\ listener'[p].msg = m
          /\ listener'[p].set = sets[sent[m]]
      BY <2>3 DEF Listens
    <3> QED
      BY <1>4, <2>1, <3>1, <3>2
  <2> QED
    BY <1>9, <2>2, <2>3 DEF TakesNext
<1>10. ASSUME NEW p \in Objects, NEW m \in Messages, MovesOn(p, m) PROVE Hearing'
  <2>1. sent' = sent /\ sent[m] \in Conversations /\ m = listener[p].msg
    BY <1>10, SentAre DEF MovesOn
  <2>2. CASE Stops(p)
    BY <1>5, <2>1, <2>2
  <2>3. CASE Listens(p, listener[p].on, 0, {}, {}, {})
    BY <1>4, <2>1, <2>3 DEF Listens
  <2>4. ASSUME NEW todo, Listens(p, listener[p].on, m, Current(p), todo, listener[p].were)
        PROVE  Hearing'
    <3>1. /\ OnlyListener(p) /\ listener'[p] # None /\ listener'[p].msg = m
          /\ listener'[p].set = SetOf(sent[m])
      BY <2>1, <2>4 DEF Listens, Current
    <3> QED
      BY <1>4, <2>1, <3>1
  <2> QED
    BY <1>10, <2>2, <2>3, <2>4 DEF MovesOn
<1>11. ASSUME NEW p \in Objects, NEW m \in Messages, NEW w \in Sockets, Sends(p, w, m)
       PROVE  Hearing'
  <2>1. sent' = sent /\ sent[m] \in Conversations /\ m = listener[p].msg /\ listener[p] # None
    BY <1>11, SentAre DEF Sends
  <2>2. CASE Stops(p)
    BY <1>5, <2>1, <2>2
  <2>3. CASE ~Stops(p)
    <3>1. /\ OnlyListener(p) /\ listener'[p] # None /\ listener'[p].msg = m
          /\ listener'[p].set = listener[p].set
      BY <1>11, <2>3 DEF Sends, Listens
    <3> QED
      BY <1>4, <2>1, <3>1
  <2> QED
    BY <2>2, <2>3
<1>12. ASSUME NEW p \in Objects, EndsUnconnected(p) PROVE Hearing'
  BY <1>5, <1>12 DEF EndsUnconnected
<1>13. ASSUME \/ \E w \in Sockets :
                   \/ \E ids \in Lists : Connects(w, ids)
                   \/ JoinsAll(w) \/ Disconnects(w) \/ Fails(w) \/ LeavesAll(w)
                   \/ LeavesInTheMiddle(w)
                   \/ \E c \in Conversations : JoinsUpTo(w, c) \/ Broadcasts(w, c)
              \/ \E x \in Handlers :
                   \/ \E c \in Conversations : Begins(x, c)
                   \/ \E u \in Users, w \in Sockets : Opens(x, u, w)
              \/ UNCHANGED vars
       PROVE  Hearing'
  BY <1>3, <1>13 DEF Connects, JoinsAll, Disconnects, Fails, LeavesAll, LeavesInTheMiddle,
     JoinsUpTo, Broadcasts, Begins, Opens, vars
<1> QED
  BY <1>6, <1>7, <1>8, <1>9, <1>10, <1>11, <1>12, <1>13 DEF Step

\* Messages are published by sending and by adding members only.
LEMMA SaysNothing ==
    ASSUME Step, \A w \in Sockets, c \in Conversations : ~Broadcasts(w, c),
           \A x \in Handlers, c \in Conversations : ~Adds(x, c)
    PROVE  sent' = sent
<1>1. ASSUME NEW w \in Sockets,
             \/ \E ids \in Lists : Connects(w, ids)
             \/ JoinsAll(w) \/ Subscribes(w) \/ Disconnects(w) \/ Fails(w)
             \/ LeavesAll(w) \/ LeavesInTheMiddle(w)
             \/ \E c \in Conversations : JoinsUpTo(w, c) \/ LeavesLast(w, c)
      PROVE  sent' = sent
  BY <1>1 DEF Connects, JoinsAll, Subscribes, Disconnects, Fails, LeavesAll, LeavesInTheMiddle,
     JoinsUpTo, LeavesLast
<1>2. ASSUME NEW x \in Handlers,
             \/ \E c \in Conversations : Begins(x, c)
             \/ \E u \in Users, w \in Sockets : Opens(x, u, w)
      PROVE  sent' = sent
  BY <1>2 DEF Begins, Opens
<1>3. ASSUME NEW p \in Objects,
             \/ \E q \in Objects, m \in Messages : TakesNext(p, q, m)
             \/ \E m \in Messages : MovesOn(p, m) \/ \E w \in Sockets : Sends(p, w, m)
             \/ EndsUnconnected(p)
      PROVE  sent' = sent
  BY <1>3 DEF TakesNext, MovesOn, Sends, EndsUnconnected
<1>4. CASE UNCHANGED vars
  BY <1>4 DEF vars
<1> QED
  BY <1>1, <1>2, <1>3, <1>4 DEF Step

LEMMA SentGrows ==
    ASSUME Step
    PROVE  sent' = sent \/ \E c \in Conversations : Delivers(c)
<1>1. ASSUME NEW w \in Sockets, NEW c \in Conversations, Broadcasts(w, c) PROVE Delivers(c)
  BY <1>1 DEF Broadcasts
<1>2. ASSUME NEW x \in Handlers, NEW c \in Conversations, Adds(x, c)
      PROVE  sent' = sent \/ Delivers(c)
  BY <1>2 DEF Adds
<1> QED
  BY <1>1, <1>2, SaysNothing

\* What is sent goes to sockets of members.
LEMMA DeliveredHolds ==
    ASSUME TypeOK, Known, Hearing, DeliveredToMembers, Step
    PROVE  DeliveredToMembers'
<1>1. ASSUME got' = got, sent' = sent \/ \E c \in Conversations : Delivers(c)
      PROVE  DeliveredToMembers'
  <2>1. CASE sent' = sent
    BY <1>1, <2>1 DEF DeliveredToMembers
  <2>2. ASSUME NEW c \in Conversations, Delivers(c) PROVE DeliveredToMembers'
    <3>1. Len(sent) \in Nat /\ Len(sent') = Len(sent) + 1 /\ Len(sent') <= MaxMessages
      BY <2>2, SentAre DEF Delivers
    <3>2. \A m \in 1..Len(sent) : sent'[m] = sent[m]
      BY <2>2 DEF Delivers
    <3>3. \A w \in Sockets : got[w][Len(sent) + 1] = 0
      BY <3>1, ConstantsAssumption DEF Known, Messages
    <3>4. ASSUME NEW w \in Sockets, NEW m \in 1..Len(sent'), got'[w][m] > 0
          PROVE  UserOf[w] \in MemberOf[sent'[m]]
      <4>1. m \in 1..Len(sent)
        BY <1>1, <3>1, <3>3, <3>4
      <4> QED
        BY <1>1, <3>2, <3>4, <4>1 DEF DeliveredToMembers
    <3> QED
      BY <3>4 DEF DeliveredToMembers
  <2> QED
    BY <1>1, <2>1, <2>2
<1>2. ASSUME NEW p \in Objects, NEW m \in Messages, NEW w \in Sockets, Sends(p, w, m)
      PROVE  DeliveredToMembers'
  <2>1. sent' = sent /\ Gets(w, m) /\ m \in 1..Len(sent)
    BY <1>2 DEF Sends
  <2>2. UserOf[w] \in MemberOf[sent[m]]
    <3>1. listener[p] # None /\ w \in listener[p].set /\ m = listener[p].msg /\ m # 0
      BY <1>2, <2>1 DEF Sends, Known
    <3> QED
      BY <3>1 DEF Hearing
  <2>3. ASSUME NEW v \in Sockets, NEW k \in 1..Len(sent), got'[v][k] > 0
        PROVE  UserOf[v] \in MemberOf[sent[k]]
    <3>1. k \in Messages
      BY SentAre
    <3>2. CASE v = w /\ k = m
      BY <2>2, <3>2
    <3>3. CASE ~(v = w /\ k = m)
      <4>1. got'[v][k] = got[v][k]
        BY <2>1, <3>1, <3>3 DEF Gets
      <4> QED
        BY <2>3, <4>1 DEF DeliveredToMembers
    <3> QED
      BY <3>2, <3>3
  <2> QED
    BY <2>1, <2>3 DEF DeliveredToMembers
<1>3. ASSUME \/ \E w \in Sockets :
                  \/ \E ids \in Lists : Connects(w, ids)
                  \/ JoinsAll(w) \/ Subscribes(w) \/ Disconnects(w) \/ Fails(w) \/ LeavesAll(w)
                  \/ LeavesInTheMiddle(w)
                  \/ \E c \in Conversations : JoinsUpTo(w, c) \/ LeavesLast(w, c)
                                              \/ Broadcasts(w, c)
             \/ \E x \in Handlers :
                  \/ \E c \in Conversations : Begins(x, c) \/ Adds(x, c)
                  \/ \E u \in Users, w \in Sockets : Opens(x, u, w)
             \/ \E p \in Objects :
                  \/ \E q \in Objects, m \in Messages : TakesNext(p, q, m)
                  \/ \E m \in Messages : MovesOn(p, m)
                  \/ EndsUnconnected(p)
             \/ UNCHANGED vars
      PROVE  DeliveredToMembers'
  <2>1. got' = got
    BY <1>3 DEF Connects, JoinsAll, Subscribes, Disconnects, Fails, LeavesAll,
       LeavesInTheMiddle, JoinsUpTo, LeavesLast, Broadcasts, Begins, Adds, Opens, TakesNext,
       MovesOn, EndsUnconnected, vars
  <2> QED
    BY <1>1, <2>1, SentGrows
<1> QED
  BY <1>2, <1>3 DEF Step

-----------------------------------------------------------------------------
(* Leaving. *)

\* A socket that disconnected is kept for no account.
Forgotten ==
    \A w \in Sockets : socket[w].at \in {"leave", "gone"} => \A u \in Users : w \notin users[u]

\* While it leaves, the conversations it is still in are those still to leave.
Leaving ==
    \A w \in Sockets : socket[w].at = "leave" =>
        \A i \in DOMAIN socket[w].ids : w \in SetOf(socket[w].ids[i]) =>
            \E k \in DOMAIN socket[w].todo : socket[w].todo[k] = socket[w].ids[i]

\* A socket that leaves or left has just disconnected, goes on leaving or stays where
\* it is.
LEMMA WhoLeaves ==
    ASSUME Step, NEW v \in Sockets, socket'[v].at \in {"leave", "gone"}
    PROVE  \/ socket'[v] = socket[v]
           \/ Disconnects(v) \/ LeavesAll(v) \/ \E c \in Conversations : LeavesLast(v, c)
<1>1. v \in Handlers
  BY DEF Handlers
<1>2. ASSUME NEW w \in Sockets,
             \/ \E ids \in Lists : Connects(w, ids)
             \/ JoinsAll(w) \/ Subscribes(w) \/ Fails(w) \/ LeavesInTheMiddle(w)
             \/ \E c \in Conversations : JoinsUpTo(w, c)
      PROVE  socket'[v] = socket[v]
  <2>1. socket'[w].at \notin {"leave", "gone"} /\ \A y \in Handlers \ {w} : socket'[y] = socket[y]
    BY <1>2 DEF Connects, JoinsAll, Subscribes, Fails, LeavesInTheMiddle, JoinsUpTo, Becomes
  <2> QED
    BY <1>1, <2>1
<1>3. ASSUME NEW x \in Handlers,
             \/ \E c \in Conversations : Begins(x, c) \/ Adds(x, c)
             \/ \E u \in Users, w \in Sockets : Opens(x, u, w)
      PROVE  socket'[v] = socket[v]
  <2>1. socket'[x].at \notin {"leave", "gone"} /\ \A y \in Handlers \ {x} : socket'[y] = socket[y]
    BY <1>3 DEF Begins, Adds, Opens, Becomes
  <2> QED
    BY <1>1, <2>1
<1>4. ASSUME NEW w \in Sockets, w # v,
             Disconnects(w) \/ LeavesAll(w) \/ \E c \in Conversations : LeavesLast(w, c)
      PROVE  socket'[v] = socket[v]
  BY <1>1, <1>4 DEF Disconnects, LeavesAll, LeavesLast, Becomes
<1>5. ASSUME \/ \E w \in Sockets, c \in Conversations : Broadcasts(w, c)
             \/ \E p \in Objects :
                   \/ \E q \in Objects, m \in Messages : TakesNext(p, q, m)
                   \/ \E m \in Messages : MovesOn(p, m) \/ \E w \in Sockets : Sends(p, w, m)
                   \/ EndsUnconnected(p)
             \/ UNCHANGED vars
      PROVE  socket'[v] = socket[v]
  BY <1>5 DEF Broadcasts, TakesNext, MovesOn, Sends, EndsUnconnected, vars
<1> QED
  BY <1>2, <1>3, <1>4, <1>5 DEF Step

\* Who is new in a set is connecting or kept for its account.
LEMMA WhoComes ==
    ASSUME TypeOK, Staged, Owned, Joining, Step
    PROVE  \A c \in Conversations : \A v \in SetOf(c)' :
              v \in SetOf(c) \/ socket[v].at = "join" \/ \E u \in Users : v \in users[u]
<1>1. ASSUME sets' = sets
      PROVE  \A c \in Conversations : SetOf(c)' = SetOf(c)
  BY <1>1 DEF SetOf
<1>2. ASSUME NEW w \in Sockets, JoinsAll(w)
      PROVE  \A c \in Conversations : \A v \in SetOf(c)' : v \in SetOf(c) \/ socket[v].at = "join"
  <2>1. socket[w].at = "join" /\ \A c \in Conversations : Enters(w, c)
    BY <1>2, JoinsAllSets DEF JoinsAll
  <2> QED
    BY <2>1 DEF Enters
<1>3. ASSUME NEW w \in Sockets, NEW d \in Conversations, JoinsUpTo(w, d)
      PROVE  \A c \in Conversations : \A v \in SetOf(c)' : v \in SetOf(c) \/ socket[v].at = "join"
  <2>1. socket[w].at = "join" /\ \A c \in Conversations : Enters(w, c)
    BY <1>3, JoinsUpToSets DEF JoinsUpTo
  <2> QED
    BY <2>1 DEF Enters
<1>4. ASSUME NEW x \in Handlers, NEW u \in Users, NEW w \in Sockets, Opens(x, u, w)
      PROVE  \A c \in Conversations : \A v \in SetOf(c)' :
                v \in SetOf(c) \/ \E t \in Users : v \in users[t]
  <2>1. w \in users[u] /\ \A c \in Conversations : Enters(w, c)
    BY <1>4, OpensSets DEF Opens
  <2> QED
    BY <2>1 DEF Enters
<1>5. ASSUME NEW x \in Handlers, NEW d \in Conversations, Adds(x, d)
      PROVE  \A c \in Conversations : \A v \in SetOf(c)' :
                v \in SetOf(c) \/ \E t \in Users : v \in users[t]
  <2>1. \A v \in Members(d) : \E t \in Users : v \in users[t]
    BY ConstantsAssumption DEF Members
  <2>2. \A c \in Conversations : \A v \in SetOf(c)' : v \in SetOf(c) \/ v \in Members(d)
    BY <1>5, AddsSets
  <2> QED
    BY <2>1, <2>2
<1>6. ASSUME NEW w \in Sockets,
             LeavesAll(w) \/ LeavesInTheMiddle(w) \/ \E c \in Conversations : LeavesLast(w, c)
      PROVE  \A c \in Conversations : SetOf(c)' \subseteq SetOf(c)
  <2>1. CASE LeavesAll(w) \/ LeavesInTheMiddle(w)
    <3>1. sets' = Without(w, LeaveKnown(w), {})
      BY <2>1 DEF LeavesAll, LeavesInTheMiddle
    <3> QED
      BY <3>1, LeavesSets
  <2>2. ASSUME NEW d \in Conversations, LeavesLast(w, d)
        PROVE  \A c \in Conversations : SetOf(c)' \subseteq SetOf(c)
    <3>1. sets' = Without(w, LeaveKnown(w), {d}) /\ \A c \in {d} : sets[c] = {w}
      BY <2>2 DEF LeavesLast
    <3> QED
      BY <3>1, LeavesSets
  <2> QED
    BY <1>6, <2>1, <2>2
<1>7. ASSUME \/ \E w \in Sockets :
                  \/ \E ids \in Lists : Connects(w, ids)
                  \/ Subscribes(w) \/ Disconnects(w) \/ Fails(w)
                  \/ \E c \in Conversations : Broadcasts(w, c)
             \/ \E x \in Handlers, c \in Conversations : Begins(x, c)
             \/ \E p \in Objects :
                  \/ \E q \in Objects, m \in Messages : TakesNext(p, q, m)
                  \/ \E m \in Messages : MovesOn(p, m) \/ \E w \in Sockets : Sends(p, w, m)
                  \/ EndsUnconnected(p)
             \/ UNCHANGED vars
      PROVE  sets' = sets
  BY <1>7 DEF Connects, Subscribes, Disconnects, Fails, Broadcasts, Begins, TakesNext,
     MovesOn, Sends, EndsUnconnected, vars
<1> QED
  BY <1>1, <1>2, <1>3, <1>4, <1>5, <1>6, <1>7 DEF Step

\* The sockets of accounts change where one connects or disconnects.
LEMMA WhoseChange ==
    ASSUME Step
    PROVE  \/ users' = users
           \/ \E w \in Sockets : Disconnects(w) \/ \E ids \in Lists : Connects(w, ids)
<1>1. ASSUME NEW w \in Sockets,
             \/ JoinsAll(w) \/ Subscribes(w) \/ Fails(w) \/ LeavesAll(w) \/ LeavesInTheMiddle(w)
             \/ \E c \in Conversations : JoinsUpTo(w, c) \/ Broadcasts(w, c) \/ LeavesLast(w, c)
      PROVE  users' = users
  BY <1>1 DEF JoinsAll, Subscribes, Fails, LeavesAll, LeavesInTheMiddle, JoinsUpTo, Broadcasts,
     LeavesLast
<1>2. ASSUME NEW x \in Handlers,
             \/ \E c \in Conversations : Begins(x, c) \/ Adds(x, c)
             \/ \E u \in Users, w \in Sockets : Opens(x, u, w)
      PROVE  users' = users
  BY <1>2 DEF Begins, Adds, Opens
<1>3. ASSUME NEW p \in Objects,
             \/ \E q \in Objects, m \in Messages : TakesNext(p, q, m)
             \/ \E m \in Messages : MovesOn(p, m) \/ \E w \in Sockets : Sends(p, w, m)
             \/ EndsUnconnected(p)
      PROVE  users' = users
  BY <1>3 DEF TakesNext, MovesOn, Sends, EndsUnconnected
<1>4. CASE UNCHANGED vars
  BY <1>4 DEF vars
<1> QED
  BY <1>1, <1>2, <1>3, <1>4 DEF Step

\* A socket that disconnected is never kept for an account again.
LEMMA ForgottenHolds ==
    ASSUME TypeOK, Owned, Forgotten, Step
    PROVE  Forgotten'
<1>1. ASSUME NEW v \in Sockets, socket'[v].at \in {"leave", "gone"}, NEW u \in Users
      PROVE  v \notin users'[u]
  <2>1. CASE Disconnects(v)
    <3>1. users' = [users EXCEPT ![UserOf[v]] = @ \ {v}] /\ UserOf[v] \in Users
      BY <2>1, ConstantsAssumption DEF Disconnects
    <3> QED
      BY <3>1 DEF Owned, TypeOK
  <2>2. CASE LeavesAll(v) \/ \E c \in Conversations : LeavesLast(v, c)
    BY <2>2 DEF LeavesAll, LeavesLast, Forgotten
  <2>3. CASE socket'[v] = socket[v]
    <3>1. v \notin users[u]
      BY <1>1, <2>3 DEF Forgotten
    <3>2. ASSUME NEW w \in Sockets, NEW ids \in Lists, Connects(w, ids) PROVE v \notin users'[u]
      <4>1. w # v
        BY <1>1, <2>3, <3>2 DEF Connects
      <4> QED
        BY <3>1, <3>2, <4>1 DEF Connects, TypeOK
    <3>3. ASSUME NEW w \in Sockets, Disconnects(w) PROVE v \notin users'[u]
      BY <3>1, <3>3 DEF Disconnects, TypeOK
    <3> QED
      BY <3>1, <3>2, <3>3, WhoseChange
  <2> QED
    BY <1>1, <2>1, <2>2, <2>3, WhoLeaves
<1> QED
  BY <1>1 DEF Forgotten

\* Leaving up to a conversation that gets empty.
LEMMA LeavesLastSets ==
    ASSUME TypeOK, NEW w \in Sockets, NEW d \in Conversations, LeavesLast(w, d)
    PROVE  \A c \in Conversations :
              /\ SetOf(c)' \subseteq SetOf(c) /\ SetOf(c) \subseteq SetOf(c)' \cup {w}
              /\ c # d => (sets'[c] = None <=> sets[c] = None)
              /\ c \in LeaveKnown(w) \cup {d} => w \notin SetOf(c)'
<1>1. sets' = Without(w, LeaveKnown(w), {d}) /\ \A e \in {d} : sets[e] = {w}
  BY DEF LeavesLast
<1>2. \A c \in Conversations :
          /\ SetOf(c)' \subseteq SetOf(c) /\ SetOf(c) \subseteq SetOf(c)' \cup {w}
          /\ c \notin {d} => (sets'[c] = None <=> sets[c] = None)
          /\ c \in LeaveKnown(w) \cup {d} => w \notin SetOf(c)'
  BY <1>1, LeavesSets
<1> QED
  BY <1>2

\* What is left to leave after the last socket left a conversation.
LeaveRest(w) == SubSeq(socket[w].todo, LeaveStop(w) + 1, Len(socket[w].todo))

\* A conversation not left yet is still to leave.
LEMMA StillToLeave ==
    ASSUME TypeOK, NEW w \in Sockets, LeaveStop(w) <= Len(socket[w].todo)
    PROVE  \A k \in DOMAIN socket[w].todo :
              \/ socket[w].todo[k] \in LeaveKnown(w) \cup {socket[w].todo[LeaveStop(w)]}
              \/ \E j \in DOMAIN LeaveRest(w) : LeaveRest(w)[j] = socket[w].todo[k]
<1> PICK rest : rest = LeaveRest(w)
  OBVIOUS
<1> SUFFICES ASSUME NEW k \in DOMAIN socket[w].todo, socket[w].todo[k] \notin LeaveKnown(w),
                    socket[w].todo[k] # socket[w].todo[LeaveStop(w)]
             PROVE  \E j \in DOMAIN rest : rest[j] = socket[w].todo[k]
  OBVIOUS
<1>1. socket[w].todo \in Lists
  BY HandlerFields DEF TypeOK, Handlers
<1>2. DOMAIN socket[w].todo = 1..Len(socket[w].todo)
  BY LeaveStops, LenProperties
<1> PICK l \in Nat : l = Len(socket[w].todo)
  BY LeaveStops
<1> PICK n \in Nat : n = LeaveStop(w) /\ n >= 1
  BY LeaveStops
<1>3. k \in 1..l /\ n <= l /\ k # n /\ k \notin 1..(n - 1)
  BY <1>2 DEF LeaveKnown
<1>4. n + 1 \in 1..(l + 1) /\ k - n \in 1..(l - (n + 1) + 1) /\ (n + 1) + (k - n) - 1 = k
  <2> PICK h \in Nat : h = k
    BY <1>3
  <2>1. n < h /\ h <= l
    BY <1>3
  <2>2. n + 1 \in 1..(l + 1)
    BY <1>3
  <2>3. h - n \in 1..(l - (n + 1) + 1)
    BY <2>1
  <2>4. (n + 1) + (h - n) - 1 = h
    OBVIOUS
  <2> QED
    BY <2>2, <2>3, <2>4
<1>5. /\ rest \in Lists /\ Len(rest) = l - (n + 1) + 1
      /\ \A i \in 1..(l - (n + 1) + 1) : rest[i] = socket[w].todo[(n + 1) + i - 1]
  BY <1>1, <1>4, RestIs DEF LeaveRest
<1>6. DOMAIN rest = 1..Len(rest)
  BY <1>5, ListsAre, LenProperties
<1>7. k - n \in DOMAIN rest /\ rest[k - n] = socket[w].todo[k]
  BY <1>4, <1>5, <1>6
<1> QED
  BY <1>7

\* The loop that leaves misses no conversation it began with.
LEMMA LeavingHolds ==
    ASSUME TypeOK, Staged, Owned, Joining, Forgotten, Leaving, Step
    PROVE  Leaving'
<1> SUFFICES ASSUME NEW w \in Sockets, socket'[w].at = "leave",
                    NEW i \in DOMAIN socket'[w].ids, (w \in SetOf(socket[w].ids[i]))'
             PROVE  \E k \in DOMAIN socket'[w].todo : socket'[w].todo[k] = socket'[w].ids[i]
  BY DEF Leaving
<1>1. socket'[w].ids = socket[w].ids
  BY WhoLeaves DEF Disconnects, LeavesAll, LeavesLast, Becomes
<1> PICK c : c = socket[w].ids[i]
  OBVIOUS
<1>2. c \in Conversations
  <2>1. socket[w].ids \in Lists
    BY HandlerFields DEF TypeOK, Handlers
  <2>2. socket[w].ids \in Seq(Conversations)
    BY <2>1, ListsAre
  <2> QED
    BY <1>1, <2>2
<1>3. w \in SetOf(c)'
  BY <1>1 DEF SetOf
<1>4. CASE Disconnects(w)
  BY <1>1, <1>4 DEF Disconnects, Becomes
<1>5. CASE socket'[w] = socket[w]
  <2>1. w \in SetOf(c)
    BY <1>2, <1>3, <1>5, WhoComes DEF Forgotten
  <2> QED
    BY <1>5, <2>1 DEF Leaving
<1>6. ASSUME NEW d \in Conversations, LeavesLast(w, d)
      PROVE  \E k \in DOMAIN socket'[w].todo : socket'[w].todo[k] = socket'[w].ids[i]
  <2>1. /\ \A e \in {d} : sets[e] = {w}
        /\ sets' = Without(w, LeaveKnown(w), {d})
        /\ socket[w].at = "leave" /\ LeaveStop(w) <= Len(socket[w].todo)
        /\ d = socket[w].todo[LeaveStop(w)]
        /\ socket'[w].todo = LeaveRest(w)
    BY <1>6 DEF LeavesLast, Becomes, LeaveRest
  <2>2. w \in SetOf(c) /\ c \notin LeaveKnown(w) /\ c # d
    BY <1>2, <1>3, <1>6, LeavesLastSets
  <2>3. PICK k \in DOMAIN socket[w].todo : socket[w].todo[k] = c
    BY <1>1, <2>1, <2>2 DEF Leaving
  <2>4. \E j \in DOMAIN LeaveRest(w) : LeaveRest(w)[j] = c
    <3>1. LeaveStop(w) <= Len(socket[w].todo)
      BY <2>1
    <3>2. \A l \in DOMAIN socket[w].todo :
             \/ socket[w].todo[l] \in LeaveKnown(w) \cup {socket[w].todo[LeaveStop(w)]}
             \/ \E j \in DOMAIN LeaveRest(w) : LeaveRest(w)[j] = socket[w].todo[l]
      BY <3>1, StillToLeave
    <3> QED
      BY <2>1, <2>2, <2>3, <3>2
  <2> QED
    BY <1>1, <2>1, <2>4
<1>7. ~LeavesAll(w)
  BY DEF LeavesAll, Becomes
<1> QED
  BY <1>4, <1>5, <1>6, <1>7, WhoLeaves

\* When it is over the socket is in none of them, and nobody puts it back.
LEMMA LeavesCleanHolds ==
    ASSUME TypeOK, Staged, Owned, Joining, Forgotten, Leaving, LeavesClean, Step
    PROVE  LeavesClean'
<1> SUFFICES ASSUME NEW w \in Sockets, socket'[w].at = "gone",
                    NEW i \in DOMAIN socket'[w].ids, (w \in SetOf(socket[w].ids[i]))'
             PROVE  FALSE
  BY DEF LeavesClean, At
<1>1. socket'[w].ids = socket[w].ids
  BY WhoLeaves DEF Disconnects, LeavesAll, LeavesLast, Becomes
<1> PICK c : c = socket[w].ids[i]
  OBVIOUS
<1>2. c \in Conversations
  <2>1. socket[w].ids \in Lists
    BY HandlerFields DEF TypeOK, Handlers
  <2>2. socket[w].ids \in Seq(Conversations)
    BY <2>1, ListsAre
  <2> QED
    BY <1>1, <2>2
<1>3. w \in SetOf(c)'
  BY <1>1 DEF SetOf
<1>4. CASE socket'[w] = socket[w]
  <2>1. w \in SetOf(c)
    BY <1>2, <1>3, <1>4, WhoComes DEF Forgotten
  <2> QED
    BY <1>1, <1>4, <2>1 DEF LeavesClean, At
<1>5. CASE LeavesAll(w)
  <2>1. /\ sets' = Without(w, LeaveKnown(w), {}) /\ socket[w].at = "leave"
        /\ LeaveStop(w) = Len(socket[w].todo) + 1
    BY <1>5 DEF LeavesAll
  <2>2. w \in SetOf(c) /\ c \notin LeaveKnown(w)
    BY <1>2, <1>3, <2>1, LeavesSets
  <2>3. PICK k \in DOMAIN socket[w].todo : socket[w].todo[k] = c
    BY <1>1, <2>1, <2>2 DEF Leaving
  <2>4. Len(socket[w].todo) \in Nat /\ DOMAIN socket[w].todo = 1..Len(socket[w].todo)
    BY LeaveStops, LenProperties
  <2>5. k \in 1..(LeaveStop(w) - 1)
    BY <2>1, <2>3, <2>4
  <2> QED
    BY <2>2, <2>3, <2>5 DEF LeaveKnown
<1>6. ~Disconnects(w) /\ \A d \in Conversations : ~LeavesLast(w, d)
  BY DEF Disconnects, LeavesLast, Becomes
<1> QED
  BY <1>4, <1>5, <1>6, WhoLeaves

-----------------------------------------------------------------------------
(* One source for each conversation. *)

\* An object is subscribed to one conversation, to none, or is not connected.
Form ==
    \A p \in 1..Pubsub :
        objects[p] = None \/ objects[p] = {} \/ \E c \in Conversations : objects[p] = {c}

\* The conversation a handler waits to be subscribed to.
Opened(x) == IF socket[x].at = "join" THEN Head(socket[x].todo) ELSE socket[x].conv
Opening(x, c) == socket[x].wait # 0 /\ Opened(x) = c

\* An object that gets the messages of c.
Feeds(p, c) == p \in 1..Pubsub /\ objects[p] = {c}

\* One object gets the messages of c, or one handler waits to subscribe it; and c has sockets.
One(c) ==
    /\ \A p, q \in Objects : Feeds(p, c) /\ Feeds(q, c) => p = q
    /\ \A x, y \in Handlers : Opening(x, c) /\ Opening(y, c) => x = y
    /\ \A x \in Handlers, p \in Objects : ~(Opening(x, c) /\ Feeds(p, c))
    /\ sets[c] = None =>
          (\A x \in Handlers : ~Opening(x, c)) /\ (\A p \in Objects : ~Feeds(p, c))

\* So it is with each conversation that always had a socket since its first.
OneSource == \A c \in Conversations \ emptied : One(c)

\* Objects are subscribed to one conversation at most.
LEMMA FormHolds ==
    ASSUME TypeOK, Form, Step
    PROVE  Form'
<1>1. ASSUME objects' = objects PROVE Form'
  BY <1>1 DEF Form, Pubsub
<1>2. ASSUME Grows PROVE Form'
  BY <1>2, ObjectsAre DEF Form, Grows, Pubsub
<1>3. ASSUME NEW p, NEW topics, ObjectIs(p, topics),
             topics = None \/ topics = {} \/ \E c \in Conversations : topics = {c}
      PROVE  Form'
  BY <1>3, ObjectsAre DEF Form, ObjectIs, Pubsub
<1>4. ASSUME NEW w \in Sockets, NEW c \in Conversations, JoinsUpTo(w, c) PROVE Form'
  BY <1>2, <1>4 DEF JoinsUpTo
<1>5. ASSUME NEW x \in Handlers, NEW u \in Users, NEW w \in Sockets, Opens(x, u, w) PROVE Form'
  BY <1>2, <1>5 DEF Opens
<1>6. ASSUME NEW w \in Sockets, Subscribes(w) PROVE Form'
  BY <1>3, <1>6 DEF Subscribes
<1>7. ASSUME NEW x \in Handlers, NEW c \in Conversations, Adds(x, c) PROVE Form'
  BY <1>1, <1>3, <1>7 DEF Adds
<1>8. ASSUME NEW w \in Sockets, LeavesAll(w) PROVE Form'
  BY <1>1, <1>3, <1>8 DEF LeavesAll, NewestIs
<1>9. ASSUME NEW w \in Sockets, NEW c \in Conversations, LeavesLast(w, c) PROVE Form'
  <2> DEFINE topics == (IF Pubsub = 0 \/ objects[Pubsub] = None THEN {} ELSE objects[Pubsub]) \ {c}
  <2>1. Pubsub # 0 => Pubsub \in 1..Pubsub
    BY ObjectsAre
  <2>2. topics = {} \/ \E d \in Conversations : topics = {d}
    BY <2>1 DEF Form
  <2>3. NewestIs(topics)
    BY <1>9 DEF LeavesLast
  <2> HIDE DEF topics
  <2> QED
    BY <1>1, <1>3, <2>2, <2>3 DEF NewestIs
<1>10. ASSUME \/ \E w \in Sockets :
                   \/ \E ids \in Lists : Connects(w, ids)
                   \/ JoinsAll(w) \/ Disconnects(w) \/ Fails(w) \/ LeavesInTheMiddle(w)
                   \/ \E c \in Conversations : Broadcasts(w, c)
              \/ \E x \in Handlers, c \in Conversations : Begins(x, c)
              \/ \E p \in Objects :
                   \/ \E q \in Objects, m \in Messages : TakesNext(p, q, m)
                   \/ \E m \in Messages : MovesOn(p, m) \/ \E w \in Sockets : Sends(p, w, m)
                   \/ EndsUnconnected(p)
              \/ UNCHANGED vars
       PROVE  Form'
  BY <1>1, <1>10 DEF Connects, JoinsAll, Disconnects, Fails, LeavesInTheMiddle, Broadcasts,
     Begins, TakesNext, MovesOn, Sends, EndsUnconnected, vars
<1> QED
  BY <1>4, <1>5, <1>6, <1>7, <1>8, <1>9, <1>10 DEF Step

\* The sources of c stay or get less, one is gained, or a handler passes it to an object.
Keeps(c) ==
    /\ \A x \in Handlers : Opening(x, c)' => Opening(x, c)
    /\ \A p \in Objects : Feeds(p, c)' => Feeds(p, c)
    /\ sets'[c] = None => sets[c] = None

Gains(c, x) ==
    /\ sets[c] = None /\ sets'[c] # None
    /\ \A y \in Handlers \ {x} : Opening(y, c)' => Opening(y, c)
    /\ \A p \in Objects : Feeds(p, c)' => Feeds(p, c)

Passes(c, x, p) ==
    /\ Opening(x, c) /\ ~Opening(x, c)'
    /\ \A y \in Handlers \ {x} : Opening(y, c)' => Opening(y, c)
    /\ \A q \in Objects \ {p} : Feeds(q, c)' => Feeds(q, c)
    /\ sets'[c] = None => sets[c] = None

\* A conversation without a key has no source: whoever opens it is the first.
LEMMA OneKept ==
    ASSUME NEW c \in Conversations, One(c),
           \/ Keeps(c)
           \/ \E x \in Handlers : Gains(c, x)
           \/ \E x \in Handlers, p \in Objects : Passes(c, x, p)
    PROVE  One(c)'
<1>1. CASE Keeps(c)
  BY <1>1 DEF Keeps, One
<1>2. ASSUME NEW x \in Handlers, Gains(c, x) PROVE One(c)'
  BY <1>2 DEF Gains, One
<1>3. ASSUME NEW x \in Handlers, NEW p \in Objects, Passes(c, x, p) PROVE One(c)'
  <2>1. (\A y \in Handlers \ {x} : ~Opening(y, c)) /\ \A q \in Objects : ~Feeds(q, c)
    BY <1>3 DEF Passes, One
  <2>2. (\A y \in Handlers : ~Opening(y, c)') /\ \A q \in Objects \ {p} : ~Feeds(q, c)'
    BY <1>3, <2>1 DEF Passes
  <2>3. sets'[c] # None
    BY <1>3 DEF Passes, One
  <2> QED
    BY <2>2, <2>3 DEF One
<1> QED
  BY <1>1, <1>2, <1>3

\* What a change of one object does to who feeds c.
LEMMA FeedsAre ==
    ASSUME TypeOK, NEW c \in Conversations
    PROVE  /\ objects' = objects => \A p \in Objects : Feeds(p, c)' => Feeds(p, c)
           /\ Grows => \A p \in Objects : Feeds(p, c)' => Feeds(p, c)
           /\ \A p \in 1..Pubsub : \A topics : ObjectIs(p, topics) =>
                 \A q \in Objects : Feeds(q, c)' => Feeds(q, c) \/ (q = p /\ topics = {c})
<1>1. Pubsub \in Nat /\ {c} # None
  BY ObjectsAre, NoneAssumption
<1>2. ASSUME objects' = objects PROVE \A p \in Objects : Feeds(p, c)' => Feeds(p, c)
  BY <1>2 DEF Feeds, Pubsub
<1>3. ASSUME Grows PROVE \A p \in Objects : Feeds(p, c)' => Feeds(p, c)
  <2>1. ASSUME NEW p \in 1..(Pubsub + 1), objects'[p] = {c} PROVE p \in 1..Pubsub /\ objects[p] = {c}
    <3>1. p # Pubsub + 1
      BY <1>1, <1>3, <2>1 DEF Grows
    <3>2. p \in 1..Pubsub
      BY <1>1, <3>1
    <3> QED
      BY <1>3, <2>1, <3>2 DEF Grows
  <2>2. Pubsub' = Pubsub + 1
    BY <1>3 DEF Grows, Pubsub
  <2> QED
    BY <2>1, <2>2 DEF Feeds
<1>4. ASSUME NEW p \in 1..Pubsub, NEW topics, ObjectIs(p, topics)
      PROVE  \A q \in Objects : Feeds(q, c)' => Feeds(q, c) \/ (q = p /\ topics = {c})
  BY <1>4 DEF ObjectIs, Feeds, Pubsub
<1> QED
  BY <1>2, <1>3, <1>4

\* A handler that neither joins nor makes a conversation waits for nothing.
LEMMA StagedWait ==
    ASSUME Staged, NEW x \in Handlers, socket[x].at \notin {"join", "make"}
    PROVE  socket[x].wait = 0
  BY DEF Staged

\* A conversation that lost its last socket once is remembered.
LEMMA EmptiedGrows ==
    ASSUME Step
    PROVE  emptied \subseteq emptied'
<1>1. ASSUME NEW w \in Sockets,
             \/ \E ids \in Lists : Connects(w, ids)
             \/ JoinsAll(w) \/ Subscribes(w) \/ Disconnects(w) \/ Fails(w)
             \/ LeavesAll(w) \/ LeavesInTheMiddle(w)
             \/ \E c \in Conversations : JoinsUpTo(w, c) \/ Broadcasts(w, c)
      PROVE  emptied' = emptied
  BY <1>1 DEF Connects, JoinsAll, Subscribes, Disconnects, Fails, LeavesAll, LeavesInTheMiddle,
     JoinsUpTo, Broadcasts
<1>2. ASSUME NEW w \in Sockets, NEW c \in Conversations, LeavesLast(w, c)
      PROVE  emptied \subseteq emptied'
  BY <1>2 DEF LeavesLast
<1>3. ASSUME NEW x \in Handlers,
             \/ \E c \in Conversations : Begins(x, c) \/ Adds(x, c)
             \/ \E u \in Users, w \in Sockets : Opens(x, u, w)
      PROVE  emptied' = emptied
  BY <1>3 DEF Begins, Adds, Opens
<1>4. ASSUME NEW p \in Objects,
             \/ \E q \in Objects, m \in Messages : TakesNext(p, q, m)
             \/ \E m \in Messages : MovesOn(p, m) \/ \E w \in Sockets : Sends(p, w, m)
             \/ EndsUnconnected(p)
      PROVE  emptied' = emptied
  BY <1>4 DEF TakesNext, MovesOn, Sends, EndsUnconnected
<1>5. CASE UNCHANGED vars
  BY <1>5 DEF vars
<1> QED
  BY <1>1, <1>2, <1>3, <1>4, <1>5 DEF Step

\* Every step keeps the one source of a conversation that never got empty.
LEMMA OneHolds ==
    ASSUME TypeOK, Staged, Owned, Joining, Form, NEW c \in Conversations, c \notin emptied',
           One(c), Step
    PROVE  One(c)'
<1>1. \A w \in Sockets : w \in Handlers
  BY DEF Handlers
<1>2. \A x \in Handlers : socket'[x].wait = 0 => ~Opening(x, c)'
  BY DEF Opening
<1>3. ASSUME NEW x \in Handlers, \A y \in Handlers \ {x} : socket'[y] = socket[y]
      PROVE  \A y \in Handlers \ {x} : Opening(y, c)' => Opening(y, c)
  BY <1>3 DEF Opening, Opened
<1>4. ASSUME NEW x \in Handlers, \A y \in Handlers \ {x} : socket'[y] = socket[y],
             socket'[x].wait = 0, \A p \in Objects : Feeds(p, c)' => Feeds(p, c),
             sets'[c] = None => sets[c] = None
      PROVE  One(c)'
  BY <1>2, <1>3, <1>4, OneKept DEF Keeps
<1>5. ASSUME socket' = socket, objects' = objects, sets' = sets PROVE One(c)'
  BY <1>5 DEF One, Opening, Opened, Feeds, Pubsub
<1>6. ASSUME NEW w \in Sockets,
             (\E ids \in Lists : Connects(w, ids)) \/ Disconnects(w) \/ Fails(w)
      PROVE  One(c)'
  <2>1. socket'[w].wait = 0 /\ \A y \in Handlers \ {w} : socket'[y] = socket[y]
    BY <1>1, <1>6, StagedWait DEF Connects, Disconnects, Fails, Becomes
  <2>2. objects' = objects /\ sets' = sets
    BY <1>6 DEF Connects, Disconnects, Fails
  <2> QED
    BY <1>1, <1>4, <2>1, <2>2, FeedsAre
<1>7. ASSUME NEW w \in Sockets, JoinsAll(w) PROVE One(c)'
  <2>1. socket'[w].wait = 0 /\ \A y \in Handlers \ {w} : socket'[y] = socket[y]
    BY <1>7 DEF JoinsAll, Becomes
  <2>2. objects' = objects /\ (sets'[c] = None => sets[c] = None)
    BY <1>7, JoinsAllSets DEF JoinsAll
  <2> QED
    BY <1>1, <1>4, <2>1, <2>2, FeedsAre
<1>8. ASSUME NEW w \in Sockets, NEW d \in Conversations, JoinsUpTo(w, d) PROVE One(c)'
  <2>1. \A p \in Objects : Feeds(p, c)' => Feeds(p, c)
    BY <1>8, FeedsAre DEF JoinsUpTo
  <2>2. \A y \in Handlers \ {w} : Opening(y, c)' => Opening(y, c)
    BY <1>1, <1>3, <1>8 DEF JoinsUpTo, Becomes
  <2>3. Opened(w)' = d
    <3>1. JoinStop(w) <= Len(socket[w].todo) /\ d = socket[w].todo[JoinStop(w)]
      BY <1>8 DEF JoinsUpTo
    <3>2. Head(SubSeq(socket[w].todo, JoinStop(w), Len(socket[w].todo))) = d
      BY <3>1, RestOfJoin
    <3> QED
      BY <1>8, <3>2 DEF JoinsUpTo, Becomes, Opened
  <2>4. sets[d] = None /\ (sets'[c] = None <=> sets[c] = None /\ c # d)
    BY <1>8, JoinsUpToSets
  <2>5. CASE c = d
    <3>1. Gains(c, w)
      BY <2>1, <2>2, <2>4, <2>5 DEF Gains
    <3> QED
      BY <1>1, <3>1, OneKept
  <2>6. CASE c # d
    <3>1. ~Opening(w, c)'
      BY <2>3, <2>6 DEF Opening
    <3>2. Keeps(c)
      BY <2>1, <2>2, <2>4, <3>1 DEF Keeps
    <3> QED
      BY <3>2, OneKept
  <2> QED
    BY <2>5, <2>6
<1>9. ASSUME NEW x \in Handlers, NEW u \in Users, NEW w \in Sockets, Opens(x, u, w) PROVE One(c)'
  <2>1. \A p \in Objects : Feeds(p, c)' => Feeds(p, c)
    BY <1>9, FeedsAre DEF Opens
  <2>2. \A y \in Handlers \ {x} : Opening(y, c)' => Opening(y, c)
    BY <1>3, <1>9 DEF Opens, Becomes
  <2>3. Opened(x)' = socket[x].conv
    BY <1>9 DEF Opens, Becomes, Opened
  <2>4. sets[socket[x].conv] = None /\ (sets'[c] = None <=> sets[c] = None /\ c # socket[x].conv)
    BY <1>9, OpensSets
  <2>5. CASE c = socket[x].conv
    <3>1. Gains(c, x)
      BY <2>1, <2>2, <2>4, <2>5 DEF Gains
    <3> QED
      BY <3>1, OneKept
  <2>6. CASE c # socket[x].conv
    <3>1. ~Opening(x, c)'
      BY <2>3, <2>6 DEF Opening
    <3>2. Keeps(c)
      BY <2>1, <2>2, <2>4, <3>1 DEF Keeps
    <3> QED
      BY <3>2, OneKept
  <2> QED
    BY <2>5, <2>6
<1>10. ASSUME NEW x \in Handlers, NEW p \in Objects, NEW d \in Conversations,
              p \in 1..Pubsub, Opening(x, d), socket'[x].wait = 0, ObjectIs(p, {d}),
              \A y \in Handlers \ {x} : socket'[y] = socket[y],
              sets'[c] = None => sets[c] = None
       PROVE  One(c)'
  <2>1. \A q \in Objects : Feeds(q, c)' => Feeds(q, c) \/ (q = p /\ {d} = {c})
    BY <1>10, FeedsAre
  <2>2. CASE c = d
    <3>1. Passes(c, x, p)
      BY <1>2, <1>3, <1>10, <2>1, <2>2 DEF Passes
    <3> QED
      BY <3>1, OneKept
  <2>3. CASE c # d
    <3>1. \A q \in Objects : Feeds(q, c)' => Feeds(q, c)
      BY <2>1, <2>3
    <3> QED
      BY <1>4, <1>10, <3>1
  <2> QED
    BY <2>2, <2>3
<1>11. ASSUME NEW w \in Sockets, Subscribes(w) PROVE One(c)'
  <2> PICK d \in Conversations : d = Head(socket[w].todo)
    BY <1>11 DEF Subscribes
  <2>1. /\ socket[w].wait \in 1..Pubsub /\ ObjectIs(socket[w].wait, {d}) /\ sets' = sets
        /\ socket'[w].wait = 0 /\ \A y \in Handlers \ {w} : socket'[y] = socket[y]
    BY <1>11 DEF Subscribes, Becomes
  <2>2. socket[w].wait \in Objects /\ socket[w].wait # 0
    BY <2>1, ObjectsAre, ConstantsAssumption DEF Objects
  <2>3. Opening(w, d)
    BY <1>11, <2>2 DEF Subscribes, Opening, Opened
  <2> QED
    BY <1>1, <1>10, <2>1, <2>2, <2>3
<1>12. ASSUME NEW x \in Handlers, NEW d \in Conversations, Adds(x, d) PROVE One(c)'
  <2>1. socket'[x].wait = 0 /\ \A y \in Handlers \ {x} : socket'[y] = socket[y]
    BY <1>12 DEF Adds, Becomes
  <2>2. sets'[c] = None => sets[c] = None
    BY <1>12, AddsSets
  <2>3. CASE socket[x].wait = 0
    <3>1. objects' = objects
      BY <1>12, <2>3 DEF Adds
    <3> QED
      BY <1>4, <2>1, <2>2, <3>1, FeedsAre
  <2>4. CASE socket[x].wait # 0
    <3>1. ObjectIs(socket[x].wait, {d}) /\ socket[x].wait \in 0..Pubsub
      BY <1>12, <2>4 DEF Adds
    <3>2. socket[x].wait \in 1..Pubsub /\ socket[x].wait \in Objects
      BY <2>4, <3>1, ObjectsAre, ConstantsAssumption DEF Objects
    <3>3. Opening(x, d)
      BY <1>12, <2>4 DEF Adds, Opening, Opened
    <3> QED
      BY <1>10, <2>1, <2>2, <3>1, <3>2, <3>3
  <2> QED
    BY <2>3, <2>4
<1>13. ASSUME NEW w \in Sockets, LeavesAll(w) \/ LeavesInTheMiddle(w) PROVE One(c)'
  <2>1. socket'[w].wait = 0 /\ \A y \in Handlers \ {w} : socket'[y] = socket[y]
    BY <1>1, <1>13, StagedWait DEF LeavesAll, LeavesInTheMiddle, Becomes
  <2>2. sets' = Without(w, LeaveKnown(w), {})
    BY <1>13 DEF LeavesAll, LeavesInTheMiddle
  <2>3. sets'[c] = None <=> sets[c] = None
    BY <2>2, LeavesSets
  <2>4. \A p \in Objects : Feeds(p, c)' => Feeds(p, c)
    <3>1. CASE LeavesInTheMiddle(w)
      BY <3>1, FeedsAre DEF LeavesInTheMiddle
    <3>2. CASE LeavesAll(w)
      <4>1. NewestIs(None) /\ None # {c}
        BY <3>2, NoneAssumption DEF LeavesAll
      <4>2. Pubsub # 0 => Pubsub \in 1..Pubsub
        BY ObjectsAre
      <4> QED
        BY <4>1, <4>2, FeedsAre DEF NewestIs
    <3> QED
      BY <1>13, <3>1, <3>2
  <2> QED
    BY <1>1, <1>4, <2>1, <2>3, <2>4
<1>14. ASSUME NEW w \in Sockets, NEW d \in Conversations, LeavesLast(w, d) PROVE One(c)'
  <2>1. socket'[w].wait = 0 /\ \A y \in Handlers \ {w} : socket'[y] = socket[y]
    BY <1>1, <1>14, StagedWait DEF LeavesLast, Becomes
  <2>2. c # d
    BY <1>14 DEF LeavesLast
  <2>3. sets'[c] = None <=> sets[c] = None
    BY <1>14, <2>2, LeavesLastSets
  <2>4. \A p \in Objects : Feeds(p, c)' => Feeds(p, c)
    <3> DEFINE topics == (IF Pubsub = 0 \/ objects[Pubsub] = None THEN {} ELSE objects[Pubsub])
                         \ {d}
    <3>1. NewestIs(topics)
      BY <1>14 DEF LeavesLast
    <3>2. Pubsub # 0 => Pubsub \in 1..Pubsub /\ Pubsub \in Objects
      BY ObjectsAre, ConstantsAssumption DEF Objects
    <3>3. topics = {c} => Pubsub # 0 /\ Feeds(Pubsub, c)
      BY <2>2, <3>2 DEF Form, Feeds
    <3> HIDE DEF topics
    <3> QED
      BY <3>1, <3>2, <3>3, FeedsAre DEF NewestIs
  <2> QED
    BY <1>1, <1>4, <2>1, <2>3, <2>4
<1>15. ASSUME NEW x \in Handlers, NEW d \in Conversations, Begins(x, d) PROVE One(c)'
  <2>1. socket'[x].wait = 0 /\ \A y \in Handlers \ {x} : socket'[y] = socket[y]
    BY <1>15, StagedWait DEF Begins, Becomes
  <2>2. objects' = objects /\ sets' = sets
    BY <1>15 DEF Begins
  <2> QED
    BY <1>4, <2>1, <2>2, FeedsAre
<1>16. ASSUME \/ \E w \in Sockets, d \in Conversations : Broadcasts(w, d)
              \/ \E p \in Objects :
                   \/ \E q \in Objects, m \in Messages : TakesNext(p, q, m)
                   \/ \E m \in Messages : MovesOn(p, m) \/ \E w \in Sockets : Sends(p, w, m)
                   \/ EndsUnconnected(p)
              \/ UNCHANGED vars
       PROVE  One(c)'
  BY <1>5, <1>16 DEF Broadcasts, TakesNext, MovesOn, Sends, EndsUnconnected, vars
<1> QED
  BY <1>6, <1>7, <1>8, <1>9, <1>11, <1>12, <1>13, <1>14, <1>15, <1>16 DEF Step

LEMMA OneSourceHolds ==
    ASSUME TypeOK, Staged, Owned, Joining, Form, OneSource, Step
    PROVE  OneSource'
<1>1. emptied \subseteq emptied'
  BY EmptiedGrows
<1> QED
  BY <1>1, OneHolds DEF OneSource

-----------------------------------------------------------------------------
(* What the steps do to one listener, one inbox, one socket. *)

\* A listener that starts waits for its first message.
StartsOne(p) == listener[p] = None /\ listener'[p] # None /\ listener'[p].msg = 0

\* A listener is stranded where the last socket leaves its conversation.
StrandedAt(p, w, c) ==
    /\ LeavesLast(w, c) /\ listener[p] # None /\ listener[p].msg # 0
    /\ sent[listener[p].msg] = c
    /\ listener'[p] # None /\ listener'[p].msg = listener[p].msg
    /\ listener'[p].set = {} /\ listener'[p].todo = {} /\ listener'[p].were = listener[p].were

\* What a step can do to one listener.
LEMMA ListenerSteps ==
    ASSUME TypeOK, Waits, Step, NEW p \in Objects
    PROVE  \/ listener'[p] = listener[p]
           \/ listener'[p] = None
           \/ StartsOne(p)
           \/ \E w \in Sockets, c \in Conversations : StrandedAt(p, w, c)
           \/ \E q \in Objects, m \in Messages : TakesNext(p, q, m)
           \/ \E m \in Messages : MovesOn(p, m)
           \/ \E m \in Messages, w \in Sockets : Sends(p, w, m)
<1>1. ASSUME NEW w \in Sockets,
             \/ \E ids \in Lists : Connects(w, ids)
             \/ JoinsAll(w) \/ Disconnects(w) \/ Fails(w) \/ LeavesAll(w) \/ LeavesInTheMiddle(w)
             \/ \E c \in Conversations : JoinsUpTo(w, c) \/ Broadcasts(w, c)
      PROVE  listener'[p] = listener[p]
  BY <1>1 DEF Connects, JoinsAll, Disconnects, Fails, LeavesAll, LeavesInTheMiddle, JoinsUpTo,
     Broadcasts
<1>2. ASSUME NEW x \in Handlers,
             \/ \E c \in Conversations : Begins(x, c)
             \/ \E u \in Users, w \in Sockets : Opens(x, u, w)
      PROVE  listener'[p] = listener[p]
  BY <1>2 DEF Begins, Opens
<1>3. ASSUME NEW x \in Handlers, socket[x].wait # 0,
             Listens(socket[x].wait, Pubsub, 0, {}, {}, {})
      PROVE  listener'[p] = listener[p] \/ StartsOne(p)
  <2>1. listener[socket[x].wait] = None
    BY <1>3 DEF Waits
  <2> QED
    BY <1>3, <2>1 DEF Listens, OnlyListener, StartsOne
<1>4. ASSUME NEW w \in Sockets, Subscribes(w) PROVE listener'[p] = listener[p] \/ StartsOne(p)
  <2>1. w \in Handlers /\ socket[w].wait # 0 /\ Listens(socket[w].wait, Pubsub, 0, {}, {}, {})
    BY <1>4, ObjectsAre DEF Subscribes, Handlers
  <2> QED
    BY <1>3, <2>1
<1>5. ASSUME NEW x \in Handlers, NEW c \in Conversations, Adds(x, c)
      PROVE  listener'[p] = listener[p] \/ StartsOne(p)
  <2>1. CASE socket[x].wait = 0
    BY <1>5, <2>1 DEF Adds
  <2>2. CASE socket[x].wait # 0
    <3>1. Listens(socket[x].wait, Pubsub, 0, {}, {}, {})
      BY <1>5, <2>2 DEF Adds
    <3> QED
      BY <1>3, <2>2, <3>1
  <2> QED
    BY <2>1, <2>2
<1>6. ASSUME NEW w \in Sockets, NEW c \in Conversations, LeavesLast(w, c)
      PROVE  listener'[p] = listener[p] \/ StrandedAt(p, w, c)
  BY <1>6 DEF LeavesLast, Strands, StrandedAt
<1>7. ASSUME NEW r \in Objects, r # p,
             \/ \E q \in Objects, m \in Messages : TakesNext(r, q, m)
             \/ \E m \in Messages : MovesOn(r, m) \/ \E w \in Sockets : Sends(r, w, m)
             \/ EndsUnconnected(r)
      PROVE  listener'[p] = listener[p]
  BY <1>7 DEF TakesNext, MovesOn, Sends, EndsUnconnected, Stops, Listens, OnlyListener
<1>8. CASE EndsUnconnected(p)
  BY <1>8 DEF EndsUnconnected, Stops
<1>9. CASE UNCHANGED vars
  BY <1>9 DEF vars
<1> QED
  BY <1>1, <1>2, <1>4, <1>5, <1>6, <1>7, <1>8, <1>9 DEF Step

\* A socket is sent something by a listener only.
LEMMA SendsAre ==
    ASSUME TypeOK, Step
    PROVE  \/ got' = got
           \/ \E p \in Objects, m \in Messages, w \in Sockets : Sends(p, w, m)
<1>1. ASSUME NEW w \in Sockets,
             \/ \E ids \in Lists : Connects(w, ids)
             \/ JoinsAll(w) \/ Subscribes(w) \/ Disconnects(w) \/ Fails(w)
             \/ LeavesAll(w) \/ LeavesInTheMiddle(w)
             \/ \E c \in Conversations : JoinsUpTo(w, c) \/ Broadcasts(w, c) \/ LeavesLast(w, c)
      PROVE  got' = got
  BY <1>1 DEF Connects, JoinsAll, Subscribes, Disconnects, Fails, LeavesAll, LeavesInTheMiddle,
     JoinsUpTo, Broadcasts, LeavesLast
<1>2. ASSUME NEW x \in Handlers,
             \/ \E c \in Conversations : Begins(x, c) \/ Adds(x, c)
             \/ \E u \in Users, w \in Sockets : Opens(x, u, w)
      PROVE  got' = got
  BY <1>2 DEF Begins, Adds, Opens
<1>3. ASSUME NEW p \in Objects,
             \/ \E q \in Objects, m \in Messages : TakesNext(p, q, m)
             \/ \E m \in Messages : MovesOn(p, m)
             \/ EndsUnconnected(p)
      PROVE  got' = got
  BY <1>3 DEF TakesNext, MovesOn, EndsUnconnected
<1>4. CASE UNCHANGED vars
  BY <1>4 DEF vars
<1> QED
  BY <1>1, <1>2, <1>3, <1>4 DEF Step

\* A socket that is closed stays closed.
LEMMA StaysClosed ==
    ASSUME Step, NEW v \in Sockets, Closed(v)
    PROVE  Closed(v)'
<1>1. v \in Handlers
  BY DEF Handlers
<1>2. ASSUME NEW w \in Sockets,
             \/ \E ids \in Lists : Connects(w, ids)
             \/ JoinsAll(w) \/ Subscribes(w)
             \/ \E c \in Conversations : JoinsUpTo(w, c)
      PROVE  Closed(v)'
  <2>1. ~Closed(w) /\ \A y \in Handlers \ {w} : socket'[y] = socket[y]
    BY <1>2 DEF Connects, JoinsAll, Subscribes, JoinsUpTo, Becomes, Closed
  <2> QED
    BY <1>1, <2>1 DEF Closed
<1>3. ASSUME NEW w \in Sockets,
             \/ Disconnects(w) \/ Fails(w) \/ LeavesAll(w) \/ LeavesInTheMiddle(w)
             \/ \E c \in Conversations : LeavesLast(w, c)
      PROVE  Closed(v)'
  <2>1. Closed(w)' /\ \A y \in Handlers \ {w} : socket'[y] = socket[y]
    BY <1>3 DEF Disconnects, Fails, LeavesAll, LeavesInTheMiddle, LeavesLast, Becomes, Closed
  <2> QED
    BY <1>1, <2>1 DEF Closed
<1>4. ASSUME NEW x \in Handlers,
             \/ \E c \in Conversations : Begins(x, c) \/ Adds(x, c)
             \/ \E u \in Users, w \in Sockets : Opens(x, u, w)
      PROVE  Closed(v)'
  <2>1. ~Closed(x) /\ \A y \in Handlers \ {x} : socket'[y] = socket[y]
    BY <1>4 DEF Begins, Adds, Opens, Becomes, Closed
  <2> QED
    BY <1>1, <2>1 DEF Closed
<1>5. ASSUME \/ \E w \in Sockets, c \in Conversations : Broadcasts(w, c)
             \/ \E p \in Objects :
                   \/ \E q \in Objects, m \in Messages : TakesNext(p, q, m)
                   \/ \E m \in Messages : MovesOn(p, m) \/ \E w \in Sockets : Sends(p, w, m)
                   \/ EndsUnconnected(p)
             \/ UNCHANGED vars
      PROVE  Closed(v)'
  BY <1>5 DEF Broadcasts, TakesNext, MovesOn, Sends, EndsUnconnected, vars, Closed
<1> QED
  BY <1>2, <1>3, <1>4, <1>5 DEF Step

\* Only a closed socket is taken out of a set.
LEMMA WhoGoes ==
    ASSUME TypeOK, Staged, Owned, Joining, Step
    PROVE  \A c \in Conversations : \A v \in SetOf(c) : v \in SetOf(c)' \/ Closed(v)
<1>1. ASSUME sets' = sets
      PROVE  \A c \in Conversations : SetOf(c)' = SetOf(c)
  BY <1>1 DEF SetOf
<1>2. ASSUME NEW w \in Sockets, JoinsAll(w)
      PROVE  \A c \in Conversations : SetOf(c) \subseteq SetOf(c)'
  BY <1>2, JoinsAllSets DEF Enters
<1>3. ASSUME NEW w \in Sockets, NEW d \in Conversations, JoinsUpTo(w, d)
      PROVE  \A c \in Conversations : SetOf(c) \subseteq SetOf(c)'
  BY <1>3, JoinsUpToSets DEF Enters
<1>4. ASSUME NEW x \in Handlers, NEW u \in Users, NEW w \in Sockets, Opens(x, u, w)
      PROVE  \A c \in Conversations : SetOf(c) \subseteq SetOf(c)'
  BY <1>4, OpensSets DEF Enters
<1>5. ASSUME NEW x \in Handlers, NEW d \in Conversations, Adds(x, d)
      PROVE  \A c \in Conversations : SetOf(c) \subseteq SetOf(c)'
  BY <1>5, AddsSets
<1>6. ASSUME NEW w \in Sockets, LeavesAll(w) \/ LeavesInTheMiddle(w)
      PROVE  \A c \in Conversations : \A v \in SetOf(c) : v \in SetOf(c)' \/ Closed(v)
  <2>1. sets' = Without(w, LeaveKnown(w), {}) /\ Closed(w)
    BY <1>6 DEF LeavesAll, LeavesInTheMiddle, Closed
  <2>2. \A c \in Conversations : SetOf(c) \subseteq SetOf(c)' \cup {w}
    BY <2>1, LeavesSets
  <2> QED
    BY <2>1, <2>2
<1>7. ASSUME NEW w \in Sockets, NEW d \in Conversations, LeavesLast(w, d)
      PROVE  \A c \in Conversations : \A v \in SetOf(c) : v \in SetOf(c)' \/ Closed(v)
  <2>1. Closed(w)
    BY <1>7 DEF LeavesLast, Closed
  <2>2. \A c \in Conversations : SetOf(c) \subseteq SetOf(c)' \cup {w}
    BY <1>7, LeavesLastSets
  <2> QED
    BY <2>1, <2>2
<1>8. ASSUME \/ \E w \in Sockets :
                  \/ \E ids \in Lists : Connects(w, ids)
                  \/ Subscribes(w) \/ Disconnects(w) \/ Fails(w)
                  \/ \E c \in Conversations : Broadcasts(w, c)
             \/ \E x \in Handlers, c \in Conversations : Begins(x, c)
             \/ \E p \in Objects :
                  \/ \E q \in Objects, m \in Messages : TakesNext(p, q, m)
                  \/ \E m \in Messages : MovesOn(p, m) \/ \E w \in Sockets : Sends(p, w, m)
                  \/ EndsUnconnected(p)
             \/ UNCHANGED vars
      PROVE  sets' = sets
  BY <1>8 DEF Connects, Subscribes, Disconnects, Fails, Broadcasts, Begins, TakesNext,
     MovesOn, Sends, EndsUnconnected, vars
<1> QED
  BY <1>1, <1>2, <1>3, <1>4, <1>5, <1>6, <1>7, <1>8 DEF Step

-----------------------------------------------------------------------------
(* Nobody is skipped. *)

\* While a listener hands out a message: the sockets it knows of are still in the
\* conversation or closed, and those that were there when it began are still to come,
\* were sent the message or are closed.
WatchedAt(p) ==
    /\ \A v \in listener[p].set : v \in Current(p) \/ Closed(v)
    /\ \A v \in listener[p].were :
          Closed(v) \/ v \in listener[p].todo \/ got[v][listener[p].msg] > 0

\* The listener p is handing out a message.
HandsOut(p) == listener[p] # None /\ listener[p].msg # 0

Watched == \A p \in Objects : HandsOut(p) => WatchedAt(p)

\* The message it hands out is one of those published.
LEMMA HandsOutAre ==
    ASSUME TypeOK, Known, NEW p \in Objects, HandsOut(p)
    PROVE  /\ listener[p].msg \in 1..Len(sent) /\ listener[p].msg \in Messages
           /\ sent[listener[p].msg] \in Conversations
           /\ listener[p].set \in SUBSET Sockets /\ listener[p].todo \subseteq listener[p].set
           /\ listener[p].were \in SUBSET Sockets
<1>1. listener[p] \in Listener
  BY DEF TypeOK, HandsOut
<1>2. /\ listener[p].msg \in Nat /\ listener[p].set \in SUBSET Sockets
      /\ listener[p].were \in SUBSET Sockets
  BY <1>1, ListenerFields, ConstantsAssumption
<1>3. listener[p].msg \in 1..Len(sent)
  BY <1>2, SentAre DEF Known, HandsOut
<1> QED
  BY <1>2, <1>3, SentAre DEF Known, HandsOut

\* Messages are appended and stay.
LEMMA SentStays ==
    ASSUME TypeOK, Step
    PROVE  Len(sent') >= Len(sent) /\ \A m \in 1..Len(sent) : sent'[m] = sent[m]
<1>1. Len(sent) \in Nat
  BY SentAre
<1>2. CASE sent' = sent
  BY <1>1, <1>2
<1>3. ASSUME NEW c \in Conversations, Delivers(c)
      PROVE  Len(sent') >= Len(sent) /\ \A m \in 1..Len(sent) : sent'[m] = sent[m]
  BY <1>1, <1>3 DEF Delivers
<1> QED
  BY <1>2, <1>3, SentGrows

\* What was sent was sent.
LEMMA GotStays ==
    ASSUME TypeOK, Step, NEW v \in Sockets, NEW m \in Messages, got[v][m] > 0
    PROVE  got'[v][m] > 0
<1>1. got[v][m] \in Nat
  BY DEF TypeOK
<1>2. CASE got' = got
  BY <1>2
<1>3. ASSUME NEW p \in Objects, NEW k \in Messages, NEW w \in Sockets, Sends(p, w, k)
      PROVE  got'[v][m] > 0
  <2>1. got'[v][m] = got[v][m] + 1 \/ got'[v][m] = got[v][m]
    BY <1>3 DEF Sends, Gets
  <2> QED
    BY <1>1, <2>1
<1> QED
  BY <1>2, <1>3, SendsAre

\* Sets that change under a listener lose it nobody.
LEMMA WatchedHolds ==
    ASSUME TypeOK, Staged, Waits, Known, Owned, Joining, Watched, Step
    PROVE  Watched'
<1> SUFFICES ASSUME NEW p \in Objects, HandsOut(p)'
             PROVE  WatchedAt(p)'
  BY DEF Watched
<1>1. ASSUME NEW c \in Conversations, NEW v \in SetOf(c)
      PROVE  v \in Sockets /\ (v \in SetOf(c)' \/ Closed(v)')
  <2>1. v \in Sockets
    BY <1>1, SetsAre
  <2> QED
    BY <1>1, <2>1, WhoGoes, StaysClosed
<1>2. ASSUME HandsOut(p), listener'[p].msg = listener[p].msg,
             listener'[p].set \subseteq listener[p].set \/ listener'[p].set \subseteq Current(p),
             listener'[p].were = listener[p].were,
             \A v \in listener[p].todo :
                v \in listener'[p].todo \/ Closed(v)' \/ got'[v][listener[p].msg] > 0
      PROVE  WatchedAt(p)'
  <2> PICK m \in 1..Len(sent) : m = listener[p].msg
    BY <1>2, HandsOutAre
  <2>1. m \in Messages /\ sent[m] \in Conversations /\ sent'[m] = sent[m] /\ listener'[p].msg = m
    BY <1>2, SentAre, SentStays
  <2>2. Current(p)' = SetOf(sent[m])' /\ Current(p) = SetOf(sent[m])
    BY <2>1 DEF Current, SetOf
  <2>3. /\ \A v \in listener[p].set : v \in SetOf(sent[m]) \/ Closed(v)
        /\ \A v \in listener[p].were : Closed(v) \/ v \in listener[p].todo \/ got[v][m] > 0
    BY <1>2, <2>2 DEF Watched, WatchedAt
  <2>4. \A v \in listener'[p].set : v \in Current(p)' \/ Closed(v)'
    <3>1. ASSUME NEW v \in listener[p].set, Closed(v) PROVE Closed(v)'
      <4>1. v \in Sockets
        BY <1>2, HandsOutAre
      <4> QED
        BY <3>1, <4>1, StaysClosed
    <3>2. \A v \in SetOf(sent[m]) : v \in SetOf(sent[m])' \/ Closed(v)'
      BY <1>1, <2>1
    <3>3. \A v \in listener'[p].set : v \in SetOf(sent[m]) \/ (v \in listener[p].set /\ Closed(v))
      BY <1>2, <2>2, <2>3
    <3> QED
      BY <2>2, <3>1, <3>2, <3>3
  <2>5. ASSUME NEW v \in listener'[p].were
        PROVE  Closed(v)' \/ v \in listener'[p].todo \/ got'[v][m] > 0
    <3>1. v \in listener[p].were /\ v \in Sockets
      BY <1>2, <2>5, HandsOutAre
    <3>2. CASE Closed(v)
      BY <3>1, <3>2, StaysClosed
    <3>3. CASE got[v][m] > 0
      BY <2>1, <3>1, <3>3, GotStays
    <3>4. CASE v \in listener[p].todo
      BY <1>2, <3>4
    <3> QED
      BY <2>3, <3>1, <3>2, <3>3, <3>4
  <2> QED
    BY <2>1, <2>4, <2>5 DEF WatchedAt
<1>3. CASE listener'[p] = listener[p]
  BY <1>2, <1>3 DEF HandsOut
<1>4. ASSUME NEW w \in Sockets, NEW c \in Conversations, StrandedAt(p, w, c)
      PROVE  WatchedAt(p)'
  <2>1. HandsOut(p) /\ listener'[p].msg = listener[p].msg /\ listener'[p].set = {}
    BY <1>4 DEF StrandedAt, HandsOut
  <2>2. sets[c] = {w} /\ Closed(w) /\ Current(p) = SetOf(c)
    BY <1>4 DEF StrandedAt, LeavesLast, Closed, Current
  <2>3. SetOf(c) = {w}
    <3>1. {w} # None
      BY NoneAssumption
    <3> QED
      BY <2>2, <3>1 DEF SetOf
  <2>4. ASSUME NEW v \in listener[p].todo PROVE Closed(v)'
    <3>1. v \in listener[p].set /\ v \in Sockets
      BY <2>1, <2>4, HandsOutAre
    <3>2. v \in SetOf(c) \/ Closed(v)
      BY <2>1, <2>2, <3>1 DEF Watched, WatchedAt
    <3> QED
      BY <2>2, <2>3, <3>1, <3>2, StaysClosed
  <2>5. listener'[p].were = listener[p].were
    BY <1>4 DEF StrandedAt
  <2> QED
    BY <1>2, <2>1, <2>4, <2>5
<1>5. ASSUME NEW q \in Objects, NEW m \in Messages, TakesNext(p, q, m), listener'[p] # None
      PROVE  WatchedAt(p)'
  <2>1. /\ sets[sent[m]] # None /\ sets' = sets /\ sent' = sent
        /\ listener'[p].msg = m /\ listener'[p].set = sets[sent[m]]
        /\ listener'[p].todo = sets[sent[m]] /\ listener'[p].were = sets[sent[m]]
    BY <1>5 DEF TakesNext, Stops, Listens
  <2>2. Current(p)' = sets[sent[m]]
    BY <2>1 DEF Current, SetOf
  <2> QED
    BY <2>1, <2>2 DEF WatchedAt
<1>6. ASSUME NEW m \in Messages, MovesOn(p, m), listener'[p] # None
      PROVE  WatchedAt(p)'
  <2>1. HandsOut(p) /\ listener[p].msg = m
    BY <1>6 DEF MovesOn, HandsOut, Messages
  <2>2. PICK todo \in SUBSET Current(p) :
            /\ todo \cap listener[p].set = listener[p].todo \cap Current(p)
            /\ Listens(p, listener[p].on, m, Current(p), todo, listener[p].were)
    BY <1>6 DEF MovesOn, Stops, Listens, HandsOut
  <2>3. /\ listener'[p].msg = m /\ listener'[p].set = Current(p) /\ listener'[p].todo = todo
        /\ listener'[p].were = listener[p].were
    BY <2>2 DEF Listens
  <2>4. ASSUME NEW v \in listener[p].todo PROVE v \in todo \/ Closed(v)'
    <3>1. v \in listener[p].set /\ v \in Sockets
      BY <2>1, <2>4, HandsOutAre
    <3>2. v \in Current(p) \/ Closed(v)
      BY <2>1, <3>1 DEF Watched, WatchedAt
    <3> QED
      BY <2>2, <3>1, <3>2, StaysClosed
  <2> QED
    BY <1>2, <2>1, <2>3, <2>4
<1>7. ASSUME NEW m \in Messages, NEW w \in Sockets, Sends(p, w, m), listener'[p] # None
      PROVE  WatchedAt(p)'
  <2>1. HandsOut(p) /\ listener[p].msg = m
    BY <1>7 DEF Sends, HandsOut, Messages
  <2>2. /\ listener'[p].msg = m /\ listener'[p].set = listener[p].set
        /\ listener'[p].todo = listener[p].todo \ {w} /\ listener'[p].were = listener[p].were
    BY <1>7 DEF Sends, Stops, Listens
  <2>3. Closed(w)' \/ got'[w][m] > 0
    <3>1. got'[w][m] = IF Closed(w) THEN got[w][m] ELSE got[w][m] + 1
      BY <1>7 DEF Sends, Gets
    <3>2. got[w][m] \in Nat
      BY DEF TypeOK
    <3> QED
      BY <3>1, <3>2, StaysClosed
  <2> QED
    BY <1>2, <2>1, <2>2, <2>3
<1> QED
  BY <1>3, <1>4, <1>5, <1>6, <1>7, ListenerSteps DEF HandsOut, StartsOne

\* What NobodySkipped says of one step and one listener.
SkipsNobody(p) ==
    /\ listener[p] # None /\ listener[p].msg # 0
    /\ listener'[p] # None /\ listener'[p].msg # listener[p].msg
    => \A w \in listener[p].were : Closed(w) \/ got[w][listener[p].msg] > 0

\* A listener that goes on to wait has served everybody.
LEMMA NobodyIsSkipped ==
    ASSUME TypeOK, Waits, Known, Watched, Step, NEW p \in Objects
    PROVE  SkipsNobody(p)
<1> SUFFICES ASSUME HandsOut(p), listener'[p] # None, listener'[p].msg # listener[p].msg,
                    NEW w \in listener[p].were
             PROVE  Closed(w) \/ got[w][listener[p].msg] > 0
  BY DEF SkipsNobody, HandsOut
<1>1. PICK m \in Messages : MovesOn(p, m)
  BY ListenerSteps DEF HandsOut, StartsOne, StrandedAt, TakesNext, Sends, Listens, Stops
<1>2. listener[p].todo \cap Current(p) = {}
  BY <1>1 DEF MovesOn, Stops, Listens
<1>3. Closed(w) \/ w \in listener[p].todo \/ got[w][listener[p].msg] > 0
  BY DEF Watched, WatchedAt
<1>4. ASSUME w \in listener[p].todo PROVE Closed(w)
  <2>1. w \in listener[p].set
    BY <1>4, HandsOutAre
  <2> QED
    BY <1>2, <1>4, <2>1 DEF Watched, WatchedAt
<1> QED
  BY <1>3, <1>4

-----------------------------------------------------------------------------
(* One copy of each message. *)

\* A message waits at a place of an inbox, or is being handed out by a listener.
Queued(p, i, m) == i \in 1..Len(inbox[p]) /\ inbox[p][i] = m
Heeds(p, m) == listener[p] # None /\ listener[p].msg = m

\* A message waits once at one object, or one listener hands it out, and has sent it only to
\* sockets it is through with.
Single(m) ==
    /\ \A p, q \in Objects : \A i, j \in Nat : Queued(p, i, m) /\ Queued(q, j, m) => p = q /\ i = j
    /\ \A p, q \in Objects : Heeds(p, m) /\ Heeds(q, m) => p = q
    /\ \A p, q \in Objects : \A i \in Nat : ~(Queued(p, i, m) /\ Heeds(q, m))
    /\ \A p \in Objects : \A i \in Nat : Queued(p, i, m) => \A v \in Sockets : got[v][m] = 0
    /\ \A p \in Objects : Heeds(p, m) => \A v \in Sockets :
          Closed(v) \/ got[v][m] = 0 \/ v \in listener[p].set \ listener[p].todo
    /\ \A v \in Sockets : got[v][m] <= 1

\* So it is with each message of a conversation that always had a socket since its first.
OneCopy == \A m \in 1..Len(sent) : sent[m] \notin emptied => Single(m)

\* What waits at an object waited there before, at the same place or one further back.
Moves(m) ==
    \A p \in Objects :
        \/ \A i \in Nat : Queued(p, i, m)' => Queued(p, i, m)
        \/ \A i \in Nat : Queued(p, i, m)' => Queued(p, i + 1, m)

\* Inboxes get new messages at the end, lose the first, or are emptied.
LEMMA InboxMoves ==
    ASSUME TypeOK, Step, NEW m \in 1..Len(sent)
    PROVE  Moves(m)
<1>1. Len(sent) \in Nat
  BY SentAre
<1>2. ASSUME NEW p \in Objects, inbox'[p] = inbox[p]
      PROVE  \A i \in Nat : Queued(p, i, m)' => Queued(p, i, m)
  BY <1>2 DEF Queued
<1>3. ASSUME NEW c \in Conversations, Delivers(c) PROVE Moves(m)
  <2>1. ASSUME NEW p \in Objects PROVE \A i \in Nat : Queued(p, i, m)' => Queued(p, i, m)
    <3>1. CASE inbox'[p] = inbox[p]
      BY <1>2, <3>1
    <3>2. CASE /\ Len(inbox'[p]) = Len(inbox[p]) + 1
               /\ inbox'[p][Len(inbox[p]) + 1] = Len(sent) + 1
               /\ \A i \in 1..Len(inbox[p]) : inbox'[p][i] = inbox[p][i]
      <4>1. Len(inbox[p]) \in Nat
        BY InboxesAre
      <4>2. ASSUME NEW i \in 1..(Len(inbox[p]) + 1), inbox'[p][i] = m
            PROVE  i \in 1..Len(inbox[p])
        BY <1>1, <3>2, <4>1, <4>2
      <4>3. \A i \in 1..Len(inbox'[p]) : inbox'[p][i] = m => i \in 1..Len(inbox[p])
        BY <3>2, <4>2
      <4> QED
        BY <3>2, <4>3 DEF Queued
    <3> QED
      BY <1>3, <3>1, <3>2 DEF Delivers
  <2> QED
    BY <2>1 DEF Moves
<1>4. ASSUME NEW w \in Sockets, LeavesAll(w) PROVE Moves(m)
  <2>1. ASSUME NEW p \in Objects PROVE \A i \in Nat : Queued(p, i, m)' => Queued(p, i, m)
    <3>1. inbox'[p] = <<>> \/ inbox'[p] = inbox[p]
      BY <1>4 DEF LeavesAll
    <3>2. CASE inbox'[p] = <<>>
      <4>1. Len(inbox'[p]) = 0
        BY <3>2, EmptySeq
      <4> QED
        BY <4>1 DEF Queued
    <3> QED
      BY <1>2, <3>1, <3>2
  <2> QED
    BY <2>1 DEF Moves
<1>5. ASSUME NEW r \in Objects, NEW q \in Objects, NEW k \in Messages, TakesNext(r, q, k)
      PROVE  Moves(m)
  <2>1. Shifts(q)
    BY <1>5 DEF TakesNext
  <2>2. \A i \in Nat : Queued(q, i, m)' => Queued(q, i + 1, m)
    <3>1. /\ Len(inbox[q]) \in Nat /\ Len(inbox'[q]) = Len(inbox[q]) - 1
          /\ \A i \in 1..(Len(inbox[q]) - 1) : inbox'[q][i] = inbox[q][i + 1]
      BY <2>1, InboxesAre DEF Shifts
    <3>2. \A i \in 1..(Len(inbox[q]) - 1) : i + 1 \in 1..Len(inbox[q])
      BY <3>1
    <3> QED
      BY <3>1, <3>2 DEF Queued
  <2>3. \A p \in Objects \ {q} : inbox'[p] = inbox[p]
    BY <2>1 DEF Shifts
  <2> QED
    BY <1>2, <2>2, <2>3 DEF Moves
<1>6. ASSUME inbox' = inbox PROVE Moves(m)
  BY <1>2, <1>6 DEF Moves
<1>7. ASSUME NEW w \in Sockets,
             \/ \E ids \in Lists : Connects(w, ids)
             \/ JoinsAll(w) \/ Subscribes(w) \/ Disconnects(w) \/ Fails(w) \/ LeavesInTheMiddle(w)
             \/ \E c \in Conversations : JoinsUpTo(w, c) \/ LeavesLast(w, c)
      PROVE  Moves(m)
  BY <1>6, <1>7 DEF Connects, JoinsAll, Subscribes, Disconnects, Fails, LeavesInTheMiddle,
     JoinsUpTo, LeavesLast
<1>8. ASSUME NEW w \in Sockets, NEW c \in Conversations, Broadcasts(w, c) PROVE Moves(m)
  BY <1>3, <1>8 DEF Broadcasts
<1>9. ASSUME NEW x \in Handlers, NEW c \in Conversations, Adds(x, c) PROVE Moves(m)
  BY <1>3, <1>6, <1>9 DEF Adds
<1>10. ASSUME NEW x \in Handlers,
              \/ \E c \in Conversations : Begins(x, c)
              \/ \E u \in Users, w \in Sockets : Opens(x, u, w)
       PROVE  Moves(m)
  BY <1>6, <1>10 DEF Begins, Opens
<1>11. ASSUME NEW p \in Objects,
              \/ \E k \in Messages : MovesOn(p, k) \/ \E w \in Sockets : Sends(p, w, k)
              \/ EndsUnconnected(p)
       PROVE  Moves(m)
  BY <1>6, <1>11 DEF MovesOn, Sends, EndsUnconnected
<1>12. CASE UNCHANGED vars
  BY <1>6, <1>12 DEF vars
<1> QED
  BY <1>4, <1>5, <1>7, <1>8, <1>9, <1>10, <1>11, <1>12 DEF Step

\* A new message waits at one object at most, for its conversation has one source.
LEMMA SingleAtFirst ==
    ASSUME TypeOK, Known, NEW c \in Conversations, Delivers(c), One(c)',
           Pubsub' = Pubsub, got' = got,
           \A p \in Objects : listener'[p] = listener[p] \/ StartsOne(p),
           NEW m, m = Len(sent) + 1
    PROVE  Single(m)'
<1>1. Len(sent) \in Nat /\ m \in Messages /\ m \notin 1..Len(sent) /\ m > Len(sent)
  BY SentAre, ConstantsAssumption DEF Delivers, Messages
<1>2. \A v \in Sockets : got'[v][m] = 0
  BY <1>1 DEF Known
<1>3. \A p \in Objects : ~Heeds(p, m)'
  <2>1. ASSUME NEW p \in Objects, listener[p] # None PROVE listener[p].msg # m
    <3>1. listener[p].msg \in Nat /\ listener[p].msg <= Len(sent)
      BY <2>1, ListenerFields, ConstantsAssumption DEF TypeOK, Known
    <3> QED
      BY <1>1, <3>1
  <2> QED
    BY <1>1, <2>1 DEF Heeds, StartsOne
<1>4. ASSUME NEW p \in Objects, NEW i \in Nat, Queued(p, i, m)'
      PROVE  Feeds(p, c)' /\ i = Len(inbox[p]) + 1
  <2>1. Len(inbox[p]) \in Nat /\ \A j \in 1..Len(inbox[p]) : inbox[p][j] # m
    <3>1. /\ Len(inbox[p]) \in Nat /\ DOMAIN inbox[p] = 1..Len(inbox[p])
          /\ \A j \in 1..Len(inbox[p]) : inbox[p][j] \in Messages
      BY InboxesAre
    <3> QED
      BY <1>1, <3>1 DEF Known, Messages
  <2>2. inbox'[p] # inbox[p]
    BY <1>4, <2>1 DEF Queued
  <2>3. /\ p <= Pubsub /\ objects'[p] = {c}
        /\ Len(inbox'[p]) = Len(inbox[p]) + 1
        /\ \A j \in 1..Len(inbox[p]) : inbox'[p][j] = inbox[p][j]
    BY <2>2 DEF Delivers
  <2>4. i = Len(inbox[p]) + 1
    BY <1>4, <2>1, <2>3 DEF Queued
  <2>5. p \in 1..Pubsub'
    BY <2>3 DEF Objects
  <2> QED
    BY <2>3, <2>4, <2>5 DEF Feeds
<1>5. \A p, q \in Objects : \A i, j \in Nat : Queued(p, i, m)' /\ Queued(q, j, m)' => p = q /\ i = j
  <2>1. \A p, q \in Objects : Feeds(p, c)' /\ Feeds(q, c)' => p = q
    BY DEF One
  <2> QED
    BY <1>4, <2>1
<1> QED
  BY <1>2, <1>3, <1>5 DEF Single

\* Every step keeps a message single.
LEMMA SingleKept ==
    ASSUME TypeOK, Known, Waits, Watched, Step, NEW m \in 1..Len(sent), sent[m] \notin emptied',
           Single(m)
    PROVE  Single(m)'
<1>1. m \in Messages /\ m \in Nat /\ m # 0
  BY SentAre
<1>2. Moves(m)
  BY InboxMoves
<1>3. /\ \A p, q \in Objects : \A i, j \in Nat :
            Queued(p, i, m)' /\ Queued(q, j, m)' => p = q /\ i = j
      /\ \A p \in Objects, i \in Nat : Queued(p, i, m)' =>
            /\ \A q \in Objects : ~Heeds(q, m)
            /\ \A v \in Sockets : got[v][m] = 0
  <2>1. \A p \in Objects, i \in Nat : Queued(p, i, m)' => Queued(p, i, m) \/ Queued(p, i + 1, m)
    BY <1>2 DEF Moves
  <2>2. ASSUME NEW p \in Objects, NEW q \in Objects, NEW i \in Nat, NEW j \in Nat,
               Queued(p, i, m)', Queued(q, j, m)'
        PROVE  p = q /\ i = j
    <3>1. p = q
      BY <2>1, <2>2 DEF Single
    <3>2. CASE Queued(p, i, m) /\ Queued(p, j, m)
      BY <3>1, <3>2 DEF Single
    <3>3. CASE Queued(p, i + 1, m) /\ Queued(p, j + 1, m)
      <4>1. i + 1 = j + 1
        BY <3>3 DEF Single
      <4> QED
        BY <3>1, <4>1
    <3> QED
      BY <1>2, <2>2, <3>1, <3>2, <3>3 DEF Moves
  <2>3. ASSUME NEW p \in Objects, NEW i \in Nat, Queued(p, i, m)'
        PROVE  (\A q \in Objects : ~Heeds(q, m)) /\ \A v \in Sockets : got[v][m] = 0
    BY <2>1, <2>3 DEF Single
  <2> QED
    BY <2>2, <2>3
<1>4. ASSUME \A p \in Objects : Heeds(p, m)' => Heeds(p, m),
             \A v \in Sockets : got'[v][m] = got[v][m],
             \A p \in Objects : Heeds(p, m)' => \A v \in Sockets :
                v \in listener[p].set \ listener[p].todo =>
                    v \in listener'[p].set \ listener'[p].todo \/ Closed(v)'
      PROVE  Single(m)'
  <2>1. ASSUME NEW p \in Objects, Heeds(p, m)', NEW v \in Sockets
        PROVE  Closed(v)' \/ got'[v][m] = 0 \/ v \in listener'[p].set \ listener'[p].todo
    <3>1. Closed(v) \/ got[v][m] = 0 \/ v \in listener[p].set \ listener[p].todo
      BY <1>4, <2>1 DEF Single
    <3> QED
      BY <1>4, <2>1, <3>1, StaysClosed
  <2>2. \A p, q \in Objects : Heeds(p, m)' /\ Heeds(q, m)' => p = q
    BY <1>4 DEF Single
  <2>3. \A p, q \in Objects : \A i \in Nat : ~(Queued(p, i, m)' /\ Heeds(q, m)')
    BY <1>3, <1>4
  <2>4. \A p \in Objects : \A i \in Nat : Queued(p, i, m)' => \A v \in Sockets : got'[v][m] = 0
    BY <1>3, <1>4
  <2>5. \A v \in Sockets : got'[v][m] <= 1
    BY <1>4 DEF Single
  <2> QED
    BY <1>3, <2>1, <2>2, <2>3, <2>4, <2>5 DEF Single
<1>5. ASSUME NEW p \in Objects, NEW q \in Objects, TakesNext(p, q, m), listener'[p] # None
      PROVE  Single(m)'
  <2>1. /\ OnlyListener(p) /\ got' = got /\ Shifts(q) /\ inbox[q][1] = m
        /\ listener'[p].set = listener'[p].todo
    BY <1>5 DEF TakesNext, Stops, Listens
  <2>2. Queued(q, 1, m)
    <3>1. Len(inbox[q]) \in Nat /\ Len(inbox[q]) > 0
      BY <2>1, InboxesAre DEF Shifts
    <3> QED
      BY <2>1, <3>1 DEF Queued
  <2>3. (\A r \in Objects : ~Heeds(r, m)) /\ \A v \in Sockets : got'[v][m] = 0
    BY <2>1, <2>2 DEF Single
  <2>4. \A r \in Objects : Heeds(r, m)' => r = p
    BY <2>1, <2>3 DEF OnlyListener, Heeds
  <2>5. ASSUME NEW r \in Objects, NEW i \in Nat, Queued(r, i, m)' PROVE FALSE
    <3>1. CASE r = q
      <4>1. i >= 1 /\ Queued(q, i + 1, m)
        BY <2>1, <2>5, <3>1, InboxesAre DEF Shifts, Queued
      <4>2. i + 1 = 1
        BY <2>2, <4>1 DEF Single
      <4> QED
        BY <4>1, <4>2
    <3>2. CASE r # q
      <4>1. Queued(r, i, m)
        BY <2>1, <2>5, <3>2 DEF Shifts, Queued
      <4> QED
        BY <2>2, <3>2, <4>1 DEF Single
    <3> QED
      BY <3>1, <3>2
  <2> QED
    BY <2>3, <2>4, <2>5 DEF Single
<1>6. ASSUME NEW p \in Objects, NEW w \in Sockets, Sends(p, w, m) PROVE Single(m)'
  <2>1. /\ Heeds(p, m) /\ w \in listener[p].todo /\ OnlyListener(p) /\ inbox' = inbox
        /\ \A v \in Sockets : got'[v][m] =
              IF v = w /\ ~Closed(w) THEN got[v][m] + 1 ELSE got[v][m]
    BY <1>1, <1>6 DEF Sends, Heeds, Stops, Listens, Gets
  <2>2. /\ \A r \in Objects : Heeds(r, m) => r = p
        /\ \A r \in Objects, i \in Nat : ~Queued(r, i, m)
    BY <2>1 DEF Single
  <2>3. \A r \in Objects, i \in Nat : ~Queued(r, i, m)'
    BY <2>1, <2>2 DEF Queued
  <2>4. \A r \in Objects : Heeds(r, m)' => r = p
    BY <2>1, <2>2 DEF OnlyListener, Heeds
  <2>5. \A v \in Sockets : got'[v][m] <= 1
    BY <2>1 DEF Single
  <2>6. ASSUME Heeds(p, m)', NEW v \in Sockets
        PROVE  Closed(v)' \/ got'[v][m] = 0 \/ v \in listener'[p].set \ listener'[p].todo
    <3>1. listener'[p].set = listener[p].set /\ listener'[p].todo = listener[p].todo \ {w}
      BY <1>6, <2>6 DEF Sends, Stops, Listens, Heeds
    <3>2. w \in listener'[p].set \ listener'[p].todo
      BY <2>1, <3>1 DEF Known, Heeds
    <3>3. CASE v # w
      <4>1. Closed(v) \/ got[v][m] = 0 \/ v \in listener[p].set \ listener[p].todo
        BY <2>1 DEF Single
      <4> QED
        BY <2>1, <3>1, <3>3, <4>1, StaysClosed
    <3> QED
      BY <3>2, <3>3
  <2> QED
    BY <2>3, <2>4, <2>5, <2>6 DEF Single
<1>7. ASSUME \A p, q \in Objects : ~(TakesNext(p, q, m) /\ listener'[p] # None),
             \A p \in Objects, w \in Sockets : ~Sends(p, w, m)
      PROVE  Single(m)'
  <2>1. \A v \in Sockets : got'[v][m] = got[v][m]
    <3>1. ASSUME NEW p \in Objects, NEW k \in Messages, NEW w \in Sockets, Sends(p, w, k)
          PROVE  \A v \in Sockets : got'[v][m] = got[v][m]
      <4>1. k # m
        BY <1>7, <3>1
      <4>2. Gets(w, k)
        BY <3>1 DEF Sends
      <4> QED
        BY <1>1, <4>1, <4>2 DEF Gets
    <3> QED
      BY <3>1, SendsAre
  <2>2. ASSUME NEW p \in Objects, Heeds(p, m)'
        PROVE  /\ Heeds(p, m)
               /\ \A v \in Sockets : v \in listener[p].set \ listener[p].todo =>
                    v \in listener'[p].set \ listener'[p].todo \/ Closed(v)'
    <3>1. CASE listener'[p] = listener[p]
      BY <2>2, <3>1 DEF Heeds
    <3>2. ~StartsOne(p) /\ listener'[p] # None /\ listener'[p].msg = m
      BY <1>1, <2>2 DEF StartsOne, Heeds
    <3>3. ASSUME NEW w \in Sockets, NEW c \in Conversations, StrandedAt(p, w, c) PROVE FALSE
      BY <3>2, <3>3 DEF StrandedAt, LeavesLast
    <3>4. ASSUME NEW q \in Objects, NEW k \in Messages, TakesNext(p, q, k) PROVE FALSE
      BY <1>7, <3>2, <3>4 DEF TakesNext, Stops, Listens
    <3>5. ASSUME NEW k \in Messages, NEW w \in Sockets, Sends(p, w, k) PROVE FALSE
      BY <1>7, <3>2, <3>5 DEF Sends, Stops, Listens
    <3>6. ASSUME NEW k \in Messages, MovesOn(p, k)
          PROVE  /\ Heeds(p, m)
                 /\ \A v \in Sockets : v \in listener[p].set \ listener[p].todo =>
                      v \in listener'[p].set \ listener'[p].todo \/ Closed(v)'
      <4>1. PICK todo \in SUBSET Current(p) :
                /\ todo \cap listener[p].set = listener[p].todo \cap Current(p)
                /\ Listens(p, listener[p].on, k, Current(p), todo, listener[p].were)
        BY <1>1, <3>2, <3>6 DEF MovesOn, Stops, Listens
      <4>2. k = m /\ listener'[p].set = Current(p) /\ listener'[p].todo = todo
        BY <3>2, <4>1 DEF Listens
      <4>3. HandsOut(p) /\ Heeds(p, m)
        BY <1>1, <3>6, <4>2 DEF MovesOn, HandsOut, Heeds
      <4>4. ASSUME NEW v \in Sockets, v \in listener[p].set \ listener[p].todo
            PROVE  v \in listener'[p].set \ listener'[p].todo \/ Closed(v)'
        <5>1. v \in Current(p) \/ Closed(v)
          BY <4>3, <4>4 DEF Watched, WatchedAt
        <5> QED
          BY <4>1, <4>2, <4>4, <5>1, StaysClosed
      <4> QED
        BY <4>3, <4>4
    <3> QED
      BY <3>1, <3>2, <3>3, <3>4, <3>5, <3>6, ListenerSteps
  <2> QED
    BY <1>4, <2>1, <2>2
<1> QED
  BY <1>5, <1>6, <1>7

\* So messages stay single while their conversations keep a socket.
LEMMA OneCopyHolds ==
    ASSUME TypeOK, Known, Waits, Watched, OneCopy, OneSource', Step
    PROVE  OneCopy'
<1>1. Len(sent) \in Nat
  BY SentAre
<1>2. ASSUME NEW m \in 1..Len(sent), sent'[m] \notin emptied' PROVE Single(m)'
  <2>1. sent'[m] = sent[m] /\ emptied \subseteq emptied'
    BY SentStays, EmptiedGrows
  <2> QED
    BY <1>2, <2>1, SingleKept DEF OneCopy
<1>3. CASE sent' = sent
  BY <1>2, <1>3 DEF OneCopy
<1>4. ASSUME NEW c \in Conversations, Delivers(c), Pubsub' = Pubsub, got' = got,
             \A p \in Objects : listener'[p] = listener[p] \/ StartsOne(p)
      PROVE  OneCopy'
  <2> PICK m : m = Len(sent) + 1
    OBVIOUS
  <2>1. Len(sent') = m /\ sent'[m] = c
    BY <1>4 DEF Delivers
  <2>2. ASSUME c \notin emptied' PROVE Single(m)'
    <3>1. One(c)'
      BY <2>2 DEF OneSource
    <3> QED
      BY <1>4, <3>1, SingleAtFirst
  <2>3. \A k \in 1..Len(sent') : k \in 1..Len(sent) \/ k = m
    BY <1>1, <2>1
  <2> QED
    BY <1>2, <2>1, <2>2, <2>3 DEF OneCopy
<1>5. ASSUME NEW w \in Sockets, NEW c \in Conversations, Broadcasts(w, c) PROVE OneCopy'
  BY <1>4, <1>5 DEF Broadcasts, Pubsub
<1>6. ASSUME NEW x \in Handlers, NEW c \in Conversations, Adds(x, c) PROVE OneCopy'
  <2>1. got' = got /\ Pubsub' = Pubsub
    BY <1>6 DEF Adds, ObjectIs, Pubsub
  <2>2. \A p \in Objects : listener'[p] = listener[p] \/ StartsOne(p)
    <3>1. CASE socket[x].wait = 0
      BY <1>6, <3>1 DEF Adds
    <3>2. CASE socket[x].wait # 0
      <4>1. Listens(socket[x].wait, Pubsub, 0, {}, {}, {}) /\ listener[socket[x].wait] = None
        BY <1>6, <3>2 DEF Adds, Waits
      <4> QED
        BY <4>1 DEF Listens, OnlyListener, StartsOne
    <3> QED
      BY <3>1, <3>2
  <2> QED
    BY <1>3, <1>4, <1>6, <2>1, <2>2 DEF Adds
<1>7. ASSUME \A w \in Sockets, c \in Conversations : ~Broadcasts(w, c),
             \A x \in Handlers, c \in Conversations : ~Adds(x, c)
      PROVE  sent' = sent
  BY <1>7, SaysNothing
<1> QED
  BY <1>3, <1>5, <1>6, <1>7

-----------------------------------------------------------------------------
(* The invariant, and the theorems. *)

\* The invariant. Types and bounds; where the tasks stand; whose everything is;
\* leaving; one source for each conversation, and from it one copy of each message.
Inv ==
    /\ TypeOK /\ Staged /\ RoomLeft /\ Known /\ Waits
    /\ Owned /\ Joining /\ Inside /\ Hearing /\ DeliveredToMembers
    /\ Forgotten /\ Leaving /\ LeavesClean
    /\ Form /\ OneSource /\ Watched /\ OneCopy

\* It holds at the start.
LEMMA AtTheStart ==
    ASSUME Init
    PROVE  Inv
<1>1. /\ MaxObjects \in Nat /\ MaxMessages \in Nat /\ <<>> \in Lists
      /\ \A w \in Sockets : w \in Handlers
  BY ConstantsAssumption, EmptyListIs DEF Handlers
<1>2. /\ objects = <<>> /\ sent = <<>> /\ Len(objects) = 0 /\ Len(sent) = 0
      /\ \A p \in Objects : inbox[p] = <<>> /\ Len(inbox[p]) = 0 /\ DOMAIN inbox[p] = {}
      /\ \A p \in Objects : listener[p] = None
  <2>1. /\ objects = <<>> /\ sent = <<>> /\ \A p \in Objects : inbox[p] = <<>> /\ listener[p] = None
    BY DEF Init
  <2>2. Len(<<>>) = 0 /\ DOMAIN <<>> = {}
    OBVIOUS
  <2> QED
    BY <2>1, <2>2
<1>3. \A x \in Handlers :
          /\ socket[x].at \in {"new", "open"} /\ socket[x].wait = 0
          /\ socket[x] \in Handler
  <2> SUFFICES ASSUME NEW x \in Handlers
               PROVE  /\ socket[x].at \in {"new", "open"} /\ socket[x].wait = 0
                      /\ socket[x] \in Handler
    OBVIOUS
  <2>1. socket[x] = [at |-> IF x \in Sockets THEN "new" ELSE "open", ids |-> <<>>, todo |-> <<>>,
                     wait |-> 0, conv |-> None, first |-> {}]
    BY DEF Init
  <2>2. (IF x \in Sockets THEN "new" ELSE "open") \in {"new", "open"}
    OBVIOUS
  <2> QED
    BY <1>1, <2>1, <2>2 DEF Handler, Stage
<1>4. /\ \A c \in Conversations : sets[c] = None /\ SetOf(c) = {}
      /\ \A u \in Users : users[u] = {}
      /\ \A w \in Sockets, m \in Messages : got[w][m] = 0
  BY DEF Init, SetOf
<1>5. TypeOK
  <2>1. made = Old /\ emptied = {} /\ Old \subseteq Conversations
    BY ConstantsAssumption DEF Init
  <2>2. users \in [Users -> SUBSET Sockets] /\ got \in [Sockets -> [Messages -> Nat]]
    BY DEF Init
  <2>3. sets \in [Conversations -> ((SUBSET Sockets) \ {{}}) \cup {None}]
    BY DEF Init
  <2>4. objects \in Seq((SUBSET Conversations) \cup {None}) /\ sent \in Seq(Conversations)
    BY <1>2
  <2>5. inbox \in [Objects -> Seq(Messages)] /\ listener \in [Objects -> Listener \cup {None}]
    BY DEF Init
  <2>6. socket \in [Handlers -> Handler]
    <3>1. DOMAIN socket = Handlers /\ socket = [x \in Handlers |-> socket[x]]
      BY DEF Init
    <3> QED
      BY <1>3, <3>1
  <2> QED
    BY <1>1, <1>2, <2>1, <2>2, <2>3, <2>4, <2>5, <2>6 DEF TypeOK, Pubsub
<1>6. Staged
  BY <1>2, <1>3 DEF Staged, Pubsub
<1>7. RoomLeft
  <2>1. Making = {}
    BY <1>3 DEF Making, At
  <2> QED
    BY <1>1, <1>2, <2>1, FS_EmptySet DEF RoomLeft
<1>8. Known /\ Waits
  BY <1>2, <1>3, <1>4 DEF Known, Waits
<1>9. Owned /\ Joining /\ Inside /\ Hearing
  BY <1>1, <1>2, <1>3, <1>4 DEF Owned, Joining, Inside, Hearing
<1>10. DeliveredToMembers
  BY <1>2 DEF DeliveredToMembers
<1>11. Forgotten /\ Leaving /\ LeavesClean
  BY <1>1, <1>3 DEF Forgotten, Leaving, LeavesClean, At
<1>12. Form /\ OneSource
  BY <1>2, <1>3, <1>4 DEF Form, OneSource, One, Feeds, Opening, Pubsub
<1>13. Watched /\ OneCopy
  BY <1>2 DEF Watched, HandsOut, OneCopy
<1> QED
  BY <1>5, <1>6, <1>7, <1>8, <1>9, <1>10, <1>11, <1>12, <1>13 DEF Inv

\* Every step keeps it, and skips nobody.
LEMMA EveryStep ==
    ASSUME Inv, [Next]_vars
    PROVE  Inv' /\ \A p \in Objects : SkipsNobody(p)
<1> USE DEF Inv
<1>1. Step
  BY NextDoes
<1>2. TypeOK' /\ Staged' /\ RoomLeft' /\ Known' /\ Waits'
  BY <1>1, TypesHold, StagedHolds, RoomHolds, KnownHolds, WaitsHold
<1>3. Owned' /\ Joining' /\ Inside' /\ Hearing' /\ DeliveredToMembers'
  BY <1>1, OwnedHolds, JoiningHolds, InsideHolds, HearingHolds, DeliveredHolds
<1>4. Forgotten' /\ Leaving' /\ LeavesClean'
  BY <1>1, ForgottenHolds, LeavingHolds, LeavesCleanHolds
<1>5. Form' /\ OneSource'
  BY <1>1, FormHolds, OneSourceHolds
<1>6. Watched'
  BY <1>1, WatchedHolds
<1>7. OneCopy'
  BY <1>1, <1>5, OneCopyHolds
<1>8. \A p \in Objects : SkipsNobody(p)
  BY <1>1, NobodyIsSkipped
<1> QED
  BY <1>2, <1>3, <1>4, <1>5, <1>6, <1>7, <1>8

LEMMA Invariant == Spec => []Inv
<1>1. Init => Inv
  BY AtTheStart
<1>2. Inv /\ [Next]_vars => Inv'
  BY EveryStep
<1> QED
  BY <1>1, <1>2, PTL DEF Spec

\* Every variable has its type: handlers and listeners are where they can be, no object
\* is beyond the bound, and no message of a conversation in the making finds the log
\* full.
THEOREM SocketTypes == Spec => []TypeOK
<1>1. Inv => TypeOK
  BY DEF Inv
<1> QED
  BY <1>1, Invariant, PTL

\* Whatever sockets and handlers do to the shared sets and objects, and whichever
\* object a listener reads, a socket is sent only messages of conversations its user is
\* a member of.
THEOREM OnlyMembers == Spec => []DeliveredToMembers
<1>1. Inv => DeliveredToMembers
  BY DEF Inv
<1> QED
  BY <1>1, Invariant, PTL

\* A message of a conversation that kept a socket since its first is sent to no socket
\* twice: two tasks never subscribe it both.
THEOREM OnceEach == Spec => []DeliveredOnce
<1>1. Inv => DeliveredOnce
  BY DEF Inv, OneCopy, Single, DeliveredOnce
<1> QED
  BY <1>1, Invariant, PTL

\* A socket whose disconnect ran to its end is in none of the conversations it was
\* connected with, although members are added from other handlers meanwhile.
THEOREM LeftClean == Spec => []LeavesClean
<1>1. Inv => LeavesClean
  BY DEF Inv
<1> QED
  BY <1>1, Invariant, PTL

\* A listener goes on to the next message when everybody who was in the conversation
\* when it began has been sent this one or is closed.
THEOREM AllServed == Spec => NobodySkipped
<1>1. Inv /\ [Next]_vars => [\A p \in Objects : SkipsNobody(p)]_vars
  BY EveryStep
<1>2. Spec => [][\A p \in Objects : SkipsNobody(p)]_vars
  BY <1>1, Invariant, PTL DEF Spec
<1> QED
  BY <1>2 DEF NobodySkipped, SkipsNobody
=============================================================================
