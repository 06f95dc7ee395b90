------------------------ MODULE ConversationsProofs ------------------------
(***************************************************************************)
(* Proofs about Conversations, for any accounts, sessions, files and       *)
(* bounds, with and without faults.                                        *)
(***************************************************************************)
EXTENDS Conversations, FiniteSetTheorems, SequenceTheorems, TLAPS

\* A handler that makes a conversation, from its row to its first message; one that has
\* files in hand; and both, which have a conversation in hand.
Beginning == {"rows", "open", "announce", "first"}
Carrying == {"attach", "member", "send", "files", "clean"}
Engaged == Beginning \cup Carrying

Equipped(r) ==
    /\ r.at \in Engaged => r.conv \in Conversations
    /\ r.at \notin Carrying => r.files = {}
    /\ IsFiniteSet(r.files)

\* TypeOK, variable by variable, and what the stage of a session says of its columns.
Typed ==
    /\ members \in MemberTable
    /\ creator \in CreatorColumn
    /\ count \in CountColumn
    /\ messages \in Seq(Message) /\ Len(messages) <= MaxMessages
    /\ listed \in [Accounts -> SUBSET Conversations]
    /\ expiring \subseteq {u \in Accounts : listed[u] # {}}
    /\ uploads \in UploadCache
    /\ abandoned \subseteq Files
    /\ session \in [Sessions -> Session \cup {None}]
    /\ \A s \in Sessions : session[s] # None => Equipped(session[s])

\* An id that is not in use has no members; a message was written by a member.
Fresh == \A c \in Conversations : creator[c] = None => members[c] = {}
Authored == \A i \in 1..Len(messages) : messages[i].sender \in members[messages[i].conv]

\* A message in conversation c may answer p.
Answers(c, p, log) == p # 0 => p <= Len(log) /\ log[p].conv = c

\* The members r.todo of a conversation that u made are still to come, its creator among
\* them, and nobody wrote in it.
Joining(u, r, m, cr, n, log) ==
    /\ cr[r.conv] \in r.todo \ m[r.conv]
    /\ r.todo \subseteq Accounts
    /\ Cardinality(m[r.conv] \cup r.todo) = n[r.conv]
    /\ u \in m[r.conv] \cup r.todo
    /\ \A i \in 1..Len(log) : log[i].conv # r.conv

\* The members are there and the message the conversation was made for is not.
Opening(u, r, m, cr, n, log) ==
    /\ cr[r.conv] # None
    /\ u \in m[r.conv]
    /\ Cardinality(m[r.conv]) = n[r.conv]
    /\ \A i \in 1..Len(log) : log[i].conv = r.conv => ~log[i].opens

\* What a handler of u knows of the tables m, cr, n and log at its stage still holds,
\* however old it is.
StillSo(u, r, m, cr, n, log) ==
    /\ \A c \in Conversations : r.view.members[c] \subseteq m[c]
    /\ r.view.upto <= Len(log)
    /\ r.at = "fill" => \A c \in r.todo : c \in Conversations /\ u \in m[c]
    /\ r.at \in {"rows", "open"} => Joining(u, r, m, cr, n, log)
    /\ r.at \in {"announce", "first"} => Opening(u, r, m, cr, n, log)
    /\ r.at = "announce" => r.todo \subseteq m[r.conv]
    /\ r.at \in {"send", "files"} => u \in m[r.conv] /\ Answers(r.conv, r.parent, log)

Informed ==
    \A s \in Sessions : session[s] # None =>
        StillSo(UserOf[s], session[s], members, creator, count, messages)

\* Each conversation has one handler that makes it.
Elsewhere(s, c) ==
    \A x \in Sessions \ {s} :
        session[x] # None /\ session[x].at \in Beginning => session[x].conv # c
Alone ==
    \A s \in Sessions :
        session[s] # None /\ session[s].at \in Beginning => Elsewhere(s, session[s].conv)

\* A file is cached once, and under one of the names of each handler that has it in hand.
CachedOnce ==
    \A k, l \in UploadKeys : uploads[k] = uploads[l] /\ uploads[k] # None => k = l
InHand(r, u, cache) ==
    \A k \in UploadKeys : cache[k] \in r.files =>
        /\ k[1] = u /\ k[2] = r.conv /\ k[3] \in r.names
Held == \A s \in Sessions : session[s] # None => InHand(session[s], UserOf[s], uploads)

\* All of it about one session: r, of u, beside the tables and the cached uploads.
Sound(u, r, m, cr, n, log, cache) ==
    /\ r \in Session
    /\ Equipped(r)
    /\ StillSo(u, r, m, cr, n, log)
    /\ InHand(r, u, cache)

Inv ==
    /\ Typed /\ Fresh /\ Authored /\ Informed /\ Alone /\ CachedOnce /\ Held
    /\ ListedAreMembers /\ CompleteConversation /\ RepliesStay /\ SentUploadsGone

-----------------------------------------------------------------------------
(* What a session becomes. *)

LEMMA TypedIsTypeOK == Typed => TypeOK
  BY DEF Typed, TypeOK

LEMMA UserTyped == ASSUME NEW s \in Sessions PROVE UserOf[s] \in Accounts
  BY ConstantsAssumption

LEMMA NowTyped ==
    ASSUME Typed
    PROVE  /\ Now \in View /\ Now.members = members /\ Now.upto = Len(messages)
           /\ Len(messages) \in Nat
  BY ConstantsAssumption DEF Typed, Now, View

\* What Inv says of one session.
LEMMA SoundOne ==
    ASSUME Inv, NEW s \in Sessions, session[s] # None
    PROVE  Sound(UserOf[s], session[s], members, creator, count, messages, uploads)
  BY DEF Inv, Typed, Informed, Held, Sound

LEMMA BlankIsSound ==
    ASSUME NEW u, NEW m, NEW cr, NEW n, NEW log, NEW cache, NEW v \in View,
           NEW stage \in {"list", "idle", "http"},
           \A c \in Conversations : v.members[c] \subseteq m[c],
           v.upto <= Len(log)
    PROVE  /\ Sound(u, Blank(stage, v), m, cr, n, log, cache)
           /\ Blank(stage, v).at = stage /\ Blank(stage, v).at \notin Engaged
<1>1. Blank(stage, v) \in Session
  BY ConstantsAssumption DEF Blank, Session, Stage
<1>2. /\ Blank(stage, v).at = stage /\ Blank(stage, v).files = {} /\ Blank(stage, v).view = v
      /\ stage \notin Engaged
  BY DEF Blank, Engaged, Beginning, Carrying
<1>3. StillSo(u, Blank(stage, v), m, cr, n, log)
  BY <1>2 DEF StillSo
<1> QED
  BY <1>1, <1>2, <1>3, FS_EmptySet DEF Sound, InHand, Equipped

LEMMA IdleIsSound ==
    ASSUME Inv, NEW s \in Sessions, session[s] # None
    PROVE  /\ Sound(UserOf[s], Idle(s), members, creator, count, messages, uploads)
           /\ Idle(s).at = "idle" /\ Idle(s).at \notin Beginning
<1>1. session[s].view \in View
  BY SoundOne DEF Sound, Session
<1>2. /\ \A c \in Conversations : session[s].view.members[c] \subseteq members[c]
      /\ session[s].view.upto <= Len(messages)
  BY SoundOne DEF Sound, StillSo
<1> QED
  BY <1>1, <1>2, BlankIsSound DEF Idle, Engaged

\* A session that begins with nothing, or goes on with its own conversation, is alone in it.
LEMMA StaysAlone ==
    ASSUME Inv, NEW s \in Sessions, NEW t \in Session \cup {None},
           session' = [session EXCEPT ![s] = t],
           t # None /\ t.at \in Beginning => Elsewhere(s, t.conv)
    PROVE  Alone'
<1>1. session \in [Sessions -> Session \cup {None}]
  BY DEF Inv, Typed
<1>2. session'[s] = t /\ \A x \in Sessions \ {s} : session'[x] = session[x]
  BY <1>1
<1> SUFFICES ASSUME NEW x \in Sessions, session'[x] # None, session'[x].at \in Beginning,
                    NEW y \in Sessions \ {x}, session'[y] # None, session'[y].at \in Beginning
             PROVE  session'[y].conv # session'[x].conv
  BY DEF Alone, Elsewhere
<1>3. CASE x = s
  BY <1>2, <1>3 DEF Elsewhere
<1>4. CASE y = s
  BY <1>2, <1>4 DEF Elsewhere
<1>5. CASE x # s /\ y # s
  BY <1>2, <1>5 DEF Inv, Alone, Elsewhere
<1> QED
  BY <1>3, <1>4, <1>5

\* Such a session, when it makes a conversation, went on with the one it had.
Continues(s, t) ==
    t # None /\ t.at \in Beginning =>
        session[s] # None /\ session[s].at \in Beginning /\ t.conv = session[s].conv

\* A step of s that leaves tables and uploads alone.
LEMMA QuietStep ==
    ASSUME Inv, NEW s \in Sessions, NEW t,
           session' = [session EXCEPT ![s] = t], ~At(s, "clean"),
           UNCHANGED tables, UNCHANGED files_kept,
           listed' \in [Accounts -> SUBSET Conversations],
           expiring' \subseteq {u \in Accounts : listed'[u] # {}},
           \A u \in Accounts : \A c \in listed'[u] : u \in members[c],
           Continues(s, t),
           t # None => Sound(UserOf[s], t, members, creator, count, messages, uploads)
    PROVE  Inv'
<1>1. /\ members' = members /\ creator' = creator /\ count' = count /\ messages' = messages
      /\ uploads' = uploads /\ abandoned' = abandoned
  BY DEF tables, files_kept
<1>2. session \in [Sessions -> Session \cup {None}]
  BY DEF Inv, Typed
<1>3. t \in Session \cup {None}
  BY DEF Sound
<1>4. /\ session'[s] = t /\ \A x \in Sessions \ {s} : session'[x] = session[x]
      /\ session' \in [Sessions -> Session \cup {None}]
  BY <1>2, <1>3
<1>5. \A x \in Sessions : session'[x] # None =>
          Sound(UserOf[x], session'[x], members, creator, count, messages, uploads)
  BY <1>4, SoundOne
<1>6. /\ Informed' /\ Held'
      /\ \A x \in Sessions : session'[x] # None => Equipped(session'[x])
  BY <1>5, <1>1 DEF Informed, Held, Sound
<1>7. Typed'
  BY <1>1, <1>4, <1>6 DEF Inv, Typed
<1>8. SentUploadsGone'
  <2> SUFFICES ASSUME NEW k \in UploadKeys, NEW i \in 1..Len(messages),
                      uploads[k] \in messages[i].files, uploads[k] \notin abandoned
               PROVE  \E x \in Sessions : At(x, "clean")' /\ uploads[k] \in session'[x].files
    BY <1>1 DEF SentUploadsGone
  <2>1. PICK x \in Sessions : At(x, "clean") /\ uploads[k] \in session[x].files
    BY DEF Inv, SentUploadsGone
  <2>2. x # s
    BY <2>1
  <2> QED
    BY <2>1, <2>2, <1>4 DEF At
<1>9. /\ Fresh' /\ Authored' /\ CachedOnce' /\ CompleteConversation'
  BY <1>1 DEF Inv, Fresh, Authored, CachedOnce, CompleteConversation
<1>10. ListedAreMembers' 
  BY <1>1 DEF ListedAreMembers
<1>11. RepliesStay'
  BY <1>1 DEF Inv, RepliesStay
<1>12. Alone'
  BY <1>3, StaysAlone DEF Continues, Inv, Alone
<1> QED
  BY <1>6, <1>7, <1>8, <1>9, <1>10, <1>11, <1>12 DEF Inv

-----------------------------------------------------------------------------
(* The steps that leave tables and uploads alone. *)

\* The cached lists stay as they are.
LEMMA ListsStay ==
    ASSUME Inv, listed' = listed, expiring' = expiring
    PROVE  /\ listed' \in [Accounts -> SUBSET Conversations]
           /\ expiring' \subseteq {u \in Accounts : listed'[u] # {}}
           /\ \A u \in Accounts : \A c \in listed'[u] : u \in members[c]
  BY DEF Inv, Typed, ListedAreMembers

LEMMA AuthenticateKeeps ==
    ASSUME Inv, NEW s \in Sessions, NEW stage \in {"list", "http"}, Authenticate(s, stage)
    PROVE  Inv'
<1>1. Now \in View /\ Now.members = members /\ Now.upto = Len(messages) /\ Len(messages) \in Nat
  BY NowTyped DEF Inv
<1>2. /\ Sound(UserOf[s], Blank(stage, Now), members, creator, count, messages, uploads)
      /\ Blank(stage, Now).at \notin Engaged
  <2>1. stage \in {"list", "idle", "http"} /\ Len(messages) <= Len(messages)
    BY <1>1
  <2> QED
    BY <1>1, <2>1, BlankIsSound
<1>5. Continues(s, Blank(stage, Now))
  BY <1>2 DEF Continues, Engaged
<1>3. /\ session' = [session EXCEPT ![s] = Blank(stage, Now)] /\ ~At(s, "clean")
      /\ UNCHANGED tables /\ UNCHANGED <<listed, expiring, files_kept>>
  BY DEF Authenticate, At, caches
<1>4. \A u \in Accounts : \A c \in listed'[u] : u \in members[c]
  BY <1>3, ListsStay
<1> QED
  BY <1>2, <1>3, <1>4, <1>5, ListsStay, QuietStep

\* A session that changes its stage and what it has to do.
LEMMA ChangedStage ==
    ASSUME NEW r \in Session, NEW stage \in Stage
    PROVE  /\ [r EXCEPT !.at = stage] \in Session
           /\ [r EXCEPT !.at = stage].at = stage
           /\ [r EXCEPT !.at = stage].view = r.view
           /\ [r EXCEPT !.at = stage].conv = r.conv
           /\ [r EXCEPT !.at = stage].parent = r.parent
           /\ [r EXCEPT !.at = stage].names = r.names
           /\ [r EXCEPT !.at = stage].files = r.files
  BY DEF Session

Doing(r, stage, todo) == [r EXCEPT !.at = stage, !.todo = todo]

LEMMA ChangedTodo ==
    ASSUME NEW r \in Session, NEW stage \in Stage,
           NEW todo \in SUBSET (Accounts \cup Conversations \cup Names)
    PROVE  /\ Doing(r, stage, todo) \in Session
           /\ Doing(r, stage, todo).at = stage
           /\ Doing(r, stage, todo).todo = todo
           /\ Doing(r, stage, todo).view = r.view
           /\ Doing(r, stage, todo).conv = r.conv
           /\ Doing(r, stage, todo).parent = r.parent
           /\ Doing(r, stage, todo).names = r.names
           /\ Doing(r, stage, todo).files = r.files
  BY DEF Session, Doing

LEMMA LessTodo ==
    ASSUME NEW r \in Session, NEW x
    PROVE  LET t == [r EXCEPT !.todo = @ \ {x}] IN
           /\ t \in Session
           /\ t.at = r.at /\ t.todo = r.todo \ {x} /\ t.view = r.view /\ t.conv = r.conv
           /\ t.parent = r.parent /\ t.names = r.names /\ t.files = r.files
  BY DEF Session

\* A list is filled, or announced to, for one the less.
LEMMA LessIsSound ==
    ASSUME NEW u, NEW r, NEW x, NEW m, NEW cr, NEW n, NEW log, NEW cache,
           Sound(u, r, m, cr, n, log, cache), ~(r.at \in {"rows", "open"})
    PROVE  Sound(u, [r EXCEPT !.todo = @ \ {x}], m, cr, n, log, cache)
<1> DEFINE t == [r EXCEPT !.todo = @ \ {x}]
<1>1. /\ t \in Session
      /\ t.at = r.at /\ t.todo = r.todo \ {x} /\ t.view = r.view /\ t.conv = r.conv
      /\ t.parent = r.parent /\ t.names = r.names /\ t.files = r.files
  BY LessTodo DEF Sound
<1> HIDE DEF t
<1>2. StillSo(u, t, m, cr, n, log)
  BY <1>1 DEF Sound, StillSo, Opening
<1>3. InHand(t, u, cache)
  BY <1>1 DEF Sound, InHand
<1>4. Equipped(t)
  BY <1>1 DEF Sound, Equipped
<1>5. Sound(u, t, m, cr, n, log, cache)
  BY <1>1, <1>2, <1>3, <1>4 DEF Sound
<1> QED
  BY <1>5 DEF t

LEMMA ReadListKeeps ==
    ASSUME Inv, NEW s \in Sessions, ReadList(s)
    PROVE  Inv'
<1> DEFINE r == session[s]
           idle == [r EXCEPT !.at = "idle"]
           todo == {c \in Conversations : UserOf[s] \in r.view.members[c]}
           fill == Doing(r, "fill", todo)
<1>1. r # None /\ r.at = "list" /\ r \in Session
  BY SoundOne DEF ReadList, At, Sound
<1>2. Sound(UserOf[s], r, members, creator, count, messages, uploads)
  BY <1>1, SoundOne
<1>3. /\ ~At(s, "clean")
      /\ UNCHANGED tables /\ UNCHANGED <<listed, expiring, files_kept>>
  BY <1>1 DEF ReadList, At, caches
<1>4. CASE session' = [session EXCEPT ![s] = idle]
  <2>1. /\ idle \in Session /\ idle.at = "idle" /\ idle.view = r.view
        /\ idle.conv = r.conv /\ idle.names = r.names /\ idle.files = r.files
    BY <1>1, ChangedStage DEF Stage
  <2> HIDE DEF idle
  <2>3. StillSo(UserOf[s], idle, members, creator, count, messages)
    BY <1>2, <2>1 DEF Sound, StillSo
  <2>4. r.files = {} /\ "idle" \notin Engaged /\ "idle" \notin Beginning
    BY <1>1, <1>2 DEF Sound, Equipped, Engaged, Beginning, Carrying
  <2>5. Equipped(idle) /\ InHand(idle, UserOf[s], uploads) /\ Continues(s, idle)
    BY <2>1, <2>4, FS_EmptySet DEF InHand, Equipped, Continues
  <2>6. Sound(UserOf[s], idle, members, creator, count, messages, uploads)
    BY <2>1, <2>3, <2>5 DEF Sound
  <2> QED
    BY <1>3, <1>4, <2>5, <2>6, ListsStay, QuietStep
<1>5. CASE session' = [session EXCEPT ![s] = fill]
  <2>1. /\ fill \in Session /\ fill.at = "fill" /\ fill.view = r.view /\ fill.todo = todo
        /\ fill.conv = r.conv /\ fill.names = r.names /\ fill.files = r.files
    <3>1. todo \in SUBSET (Accounts \cup Conversations \cup Names) /\ "fill" \in Stage
      BY DEF Stage
    <3> HIDE DEF todo
    <3> QED
      BY <1>1, <3>1, ChangedTodo
  <2> HIDE DEF fill
  <2>2. \A c \in todo : c \in Conversations /\ UserOf[s] \in members[c]
    BY <1>2 DEF Sound, StillSo
  <2>3. StillSo(UserOf[s], fill, members, creator, count, messages)
    BY <1>2, <2>1, <2>2 DEF Sound, StillSo
  <2>4. r.files = {} /\ "fill" \notin Engaged /\ "fill" \notin Beginning
    BY <1>1, <1>2 DEF Sound, Equipped, Engaged, Beginning, Carrying
  <2>5. Equipped(fill) /\ InHand(fill, UserOf[s], uploads) /\ Continues(s, fill)
    BY <2>1, <2>4, FS_EmptySet DEF InHand, Equipped, Continues
  <2>6. Sound(UserOf[s], fill, members, creator, count, messages, uploads)
    BY <2>1, <2>3, <2>5 DEF Sound
  <2> QED
    BY <1>3, <1>5, <2>5, <2>6, ListsStay, QuietStep
<1>6. \/ session' = [session EXCEPT ![s] = idle]
      \/ session' = [session EXCEPT ![s] = fill]
  BY DEF ReadList, Doing
<1> QED
  BY <1>4, <1>5, <1>6

\* RPUSH to the list of a member.
LEMMA AppendKeeps ==
    ASSUME Inv, NEW s \in Sessions, session[s] # None, session[s].at \in {"fill", "announce"},
           NEW u \in Accounts, NEW c \in Conversations, u \in members[c],
           AppendToList(u, c), NEW x,
           session' = [session EXCEPT ![s].todo = @ \ {x}], UNCHANGED tables
    PROVE  Inv'
<1>1. /\ Sound(UserOf[s], [session[s] EXCEPT !.todo = @ \ {x}],
               members, creator, count, messages, uploads)
      /\ Continues(s, [session[s] EXCEPT !.todo = @ \ {x}])
  <2>1. Sound(UserOf[s], session[s], members, creator, count, messages, uploads)
    BY SoundOne
  <2>2. session[s] \in Session
    BY <2>1 DEF Sound
  <2> QED
    BY <2>1, <2>2, LessIsSound, LessTodo DEF Continues
<1>8. ~At(s, "clean")
  BY DEF At
<1>2. session' = [session EXCEPT ![s] = [session[s] EXCEPT !.todo = @ \ {x}]]
  OBVIOUS
<1>3. /\ listed' = [listed EXCEPT ![u] = @ \cup {c}]
      /\ expiring' = expiring /\ UNCHANGED files_kept
  BY DEF AppendToList
<1>4. listed \in [Accounts -> SUBSET Conversations]
  BY DEF Inv, Typed
<1>5. /\ listed' \in [Accounts -> SUBSET Conversations]
      /\ \A w \in Accounts : listed[w] \subseteq listed'[w]
      /\ \A w \in Accounts : listed'[w] \subseteq listed[w] \cup {d \in {c} : w = u}
  BY <1>3, <1>4
<1>6. expiring' \subseteq {w \in Accounts : listed'[w] # {}}
  BY <1>3, <1>5 DEF Inv, Typed
<1>7. \A w \in Accounts : \A d \in listed'[w] : w \in members[d]
  BY <1>5 DEF Inv, ListedAreMembers
<1> HIDE DEF Inv
<1> QED
  BY <1>1, <1>2, <1>3, <1>5, <1>6, <1>7, <1>8, QuietStep

LEMMA FillListKeeps ==
    ASSUME Inv, NEW s \in Sessions, NEW c \in Conversations, FillList(s, c)
    PROVE  Inv'
<1>1. session[s] # None /\ session[s].at = "fill" /\ ~At(s, "clean") /\ c \in session[s].todo
  BY DEF FillList, At
<1>2. UserOf[s] \in members[c]
  BY <1>1, SoundOne DEF Sound, StillSo
<1> QED
  BY <1>1, <1>2, UserTyped, AppendKeeps DEF FillList

LEMMA AnnounceKeeps ==
    ASSUME Inv, NEW s \in Sessions, NEW u \in Accounts, Announce(s, u)
    PROVE  Inv'
<1>1. session[s] # None /\ session[s].at = "announce" /\ ~At(s, "clean") /\ u \in session[s].todo
  BY DEF Announce, At
<1>2. session[s].conv \in Conversations /\ u \in members[session[s].conv]
  BY <1>1, SoundOne DEF Sound, StillSo, Equipped, Engaged, Beginning, Carrying
<1> QED
  BY <1>1, <1>2, AppendKeeps DEF Announce

LEMMA FilledListKeeps ==
    ASSUME Inv, NEW s \in Sessions, FilledList(s)
    PROVE  Inv'
<1>1. session[s] # None /\ ~At(s, "clean") /\ UserOf[s] \in Accounts
  BY UserTyped DEF FilledList, At
<1>2. Sound(UserOf[s], Idle(s), members, creator, count, messages, uploads) /\ Continues(s, Idle(s))
  BY <1>1, IdleIsSound DEF Continues
<1>3. /\ session' = [session EXCEPT ![s] = Idle(s)]
      /\ listed' = listed /\ UNCHANGED tables /\ UNCHANGED files_kept
      /\ expiring' \subseteq expiring \cup {u \in {UserOf[s]} : listed[u] # {}}
  BY DEF FilledList
<1>4. /\ listed' \in [Accounts -> SUBSET Conversations]
      /\ expiring' \subseteq {u \in Accounts : listed'[u] # {}}
      /\ \A u \in Accounts : \A c \in listed'[u] : u \in members[c]
  BY <1>1, <1>3 DEF Inv, Typed, ListedAreMembers
<1> HIDE DEF Idle
<1> QED
  BY <1>1, <1>2, <1>3, <1>4, QuietStep

LEMMA AnnouncedKeeps ==
    ASSUME Inv, NEW s \in Sessions, Announced(s)
    PROVE  Inv'
<1> DEFINE r == session[s]
           t == Doing(r, "first", {})
<1>1. /\ r # None /\ r.at = "announce" /\ ~At(s, "clean")
      /\ Sound(UserOf[s], r, members, creator, count, messages, uploads)
  BY SoundOne DEF Announced, At
<1>2. /\ t \in Session /\ t.at = "first" /\ t.todo = {} /\ t.view = r.view
      /\ t.conv = r.conv /\ t.parent = r.parent /\ t.names = r.names /\ t.files = r.files
  <2>1. {} \in SUBSET (Accounts \cup Conversations \cup Names) /\ "first" \in Stage
    BY DEF Stage
  <2> QED
    BY <1>1, <2>1, ChangedTodo DEF Sound
<1>3. /\ session' = [session EXCEPT ![s] = t]
      /\ UNCHANGED tables /\ UNCHANGED <<listed, expiring, files_kept>>
  BY DEF Announced, caches, Doing
<1> HIDE DEF t
<1>4. StillSo(UserOf[s], t, members, creator, count, messages)
  BY <1>1, <1>2 DEF Sound, StillSo, Opening
<1>5. Equipped(t) /\ InHand(t, UserOf[s], uploads) /\ Continues(s, t)
  BY <1>1, <1>2 DEF Sound, InHand, Equipped, Engaged, Beginning, Carrying, Continues
<1>6. Sound(UserOf[s], t, members, creator, count, messages, uploads)
  BY <1>2, <1>4, <1>5 DEF Sound
<1> QED
  BY <1>1, <1>3, <1>5, <1>6, ListsStay, QuietStep

Received(r, stage, c, p, names) ==
    [r EXCEPT !.at = stage, !.conv = c, !.parent = p, !.todo = names]

LEMMA ChangedByMessage ==
    ASSUME NEW r \in Session, NEW stage \in Stage, NEW c \in Conversations,
           NEW p \in 0..MaxMessages, NEW names \in SUBSET Names
    PROVE  /\ Received(r, stage, c, p, names) \in Session
           /\ Received(r, stage, c, p, names).at = stage
           /\ Received(r, stage, c, p, names).conv = c
           /\ Received(r, stage, c, p, names).parent = p
           /\ Received(r, stage, c, p, names).todo = names
           /\ Received(r, stage, c, p, names).view = r.view
           /\ Received(r, stage, c, p, names).names = r.names
           /\ Received(r, stage, c, p, names).files = r.files
  BY DEF Session, Received

LEMMA ReceiveMessageKeeps ==
    ASSUME Inv, NEW s \in Sessions, NEW c \in Conversations, NEW parent \in 0..MaxMessages,
           NEW names \in SUBSET Names, ReceiveMessage(s, c, parent, names)
    PROVE  Inv'
<1> DEFINE r == session[s]
           stage == IF names = {} THEN "member" ELSE "attach"
           t == Received(r, stage, c, parent, names)
<1>1. /\ r # None /\ r.at = "idle" /\ ~At(s, "clean")
      /\ Sound(UserOf[s], r, members, creator, count, messages, uploads)
  BY SoundOne DEF ReceiveMessage, At
<1>2. /\ r \in Session /\ r.files = {} /\ stage \in Stage /\ stage \in {"member", "attach"}
  BY <1>1 DEF Sound, Equipped, Engaged, Beginning, Carrying, Stage
<1>3. /\ session' = [session EXCEPT ![s] = t]
      /\ UNCHANGED tables /\ UNCHANGED <<listed, expiring, files_kept>>
  BY DEF ReceiveMessage, caches, Received
<1> HIDE DEF stage
<1>4. /\ t \in Session /\ t.at = stage /\ t.conv = c /\ t.parent = parent /\ t.todo = names
      /\ t.view = r.view /\ t.names = r.names /\ t.files = r.files
  BY <1>2, ChangedByMessage
<1> HIDE DEF t
<1>5. StillSo(UserOf[s], t, members, creator, count, messages)
  BY <1>1, <1>2, <1>4 DEF Sound, StillSo
<1>6. Equipped(t) /\ InHand(t, UserOf[s], uploads) /\ Continues(s, t)
  BY <1>2, <1>4, FS_EmptySet DEF InHand, Equipped, Engaged, Beginning, Carrying, Continues
<1>7. Sound(UserOf[s], t, members, creator, count, messages, uploads)
  BY <1>4, <1>5, <1>6 DEF Sound
<1> QED
  BY <1>1, <1>3, <1>6, <1>7, ListsStay, QuietStep

LookedUp(r, n, names, files) ==
    [r EXCEPT !.todo = @ \ {n}, !.names = names, !.files = files]

LEMMA ChangedByLookup ==
    ASSUME NEW r \in Session, NEW n, NEW names \in SUBSET Names, NEW files \in SUBSET Files
    PROVE  /\ LookedUp(r, n, names, files) \in Session
           /\ LookedUp(r, n, names, files).names = names
           /\ LookedUp(r, n, names, files).files = files
           /\ LookedUp(r, n, names, files).at = r.at
           /\ LookedUp(r, n, names, files).conv = r.conv
           /\ LookedUp(r, n, names, files).parent = r.parent
           /\ LookedUp(r, n, names, files).view = r.view
  BY DEF Session, LookedUp

LEMMA CheckAttachmentKeeps ==
    ASSUME Inv, NEW s \in Sessions, NEW n \in Names, CheckAttachment(s, n)
    PROVE  Inv'
<1> DEFINE r == session[s]
           k == Entry(s, n)
           found == {uploads[k]} \ {None}
           names == IF found = {} THEN r.names ELSE r.names \cup {n}
           files == r.files \cup found
           t == LookedUp(r, n, names, files)
<1>1. /\ r # None /\ r.at = "attach" /\ ~At(s, "clean")
      /\ Sound(UserOf[s], r, members, creator, count, messages, uploads)
  BY SoundOne DEF CheckAttachment, At
<1>2. /\ r \in Session /\ r.conv \in Conversations /\ IsFiniteSet(r.files)
  BY <1>1 DEF Sound, Equipped, Engaged, Beginning, Carrying
<1>3. k \in UploadKeys /\ k[1] = UserOf[s] /\ k[2] = r.conv /\ k[3] = n
  BY <1>2, UserTyped DEF Entry, UploadKeys
<1>4. uploads[k] \in Files \cup {None}
  BY <1>3 DEF Inv, Typed, UploadCache
<1>5. names \in SUBSET Names /\ files \in SUBSET Files /\ r.names \subseteq names
  BY <1>2, <1>4 DEF Session
<1>6. IsFiniteSet(files)
  <2>1. IsFiniteSet(r.files \cup {uploads[k]})
    BY <1>2, FS_AddElement
  <2> QED
    BY <2>1, FS_Subset
<1>7. /\ session' = [session EXCEPT ![s] = t]
      /\ UNCHANGED tables /\ UNCHANGED <<listed, expiring, files_kept>>
  BY DEF CheckAttachment, caches, LookedUp
<1>8. \A l \in UploadKeys : uploads[l] \in found => l = k /\ n \in names
  BY <1>3 DEF Inv, CachedOnce
<1>9. \A l \in UploadKeys : uploads[l] \in files =>
          l[1] = UserOf[s] /\ l[2] = r.conv /\ l[3] \in names
  BY <1>1, <1>3, <1>5, <1>8 DEF Sound, InHand
<1> HIDE DEF names, files, found
<1>10. /\ t \in Session /\ t.names = names /\ t.files = files
       /\ t.at = r.at /\ t.conv = r.conv /\ t.parent = r.parent /\ t.view = r.view
  BY <1>2, <1>5, ChangedByLookup
<1> HIDE DEF t
<1>11. StillSo(UserOf[s], t, members, creator, count, messages)
  BY <1>1, <1>10 DEF Sound, StillSo
<1>12. Equipped(t) /\ InHand(t, UserOf[s], uploads) /\ Continues(s, t)
  BY <1>1, <1>2, <1>6, <1>9, <1>10
     DEF Equipped, InHand, Engaged, Beginning, Carrying, Continues
<1>13. Sound(UserOf[s], t, members, creator, count, messages, uploads)
  BY <1>10, <1>11, <1>12 DEF Sound
<1> QED
  BY <1>1, <1>7, <1>12, <1>13, ListsStay, QuietStep

LEMMA CheckedAttachmentsKeeps ==
    ASSUME Inv, NEW s \in Sessions, CheckedAttachments(s)
    PROVE  Inv'
<1> DEFINE r == session[s]
           member == [r EXCEPT !.at = "member"]
<1>1. /\ r # None /\ r.at = "attach" /\ ~At(s, "clean")
      /\ Sound(UserOf[s], r, members, creator, count, messages, uploads)
  BY SoundOne DEF CheckedAttachments, At
<1>2. UNCHANGED tables /\ UNCHANGED <<listed, expiring, files_kept>>
  BY DEF CheckedAttachments, caches
<1>3. CASE session' = [session EXCEPT ![s] = Idle(s)]
  <2>1. /\ Sound(UserOf[s], Idle(s), members, creator, count, messages, uploads)
        /\ Continues(s, Idle(s))
    BY <1>1, IdleIsSound DEF Continues
  <2> QED
    BY <1>1, <1>2, <1>3, <2>1, ListsStay, QuietStep
<1>4. CASE session' = [session EXCEPT ![s] = member]
  <2>1. /\ member \in Session /\ member.at = "member" /\ member.view = r.view
        /\ member.conv = r.conv /\ member.parent = r.parent
        /\ member.names = r.names /\ member.files = r.files
    BY <1>1, ChangedStage DEF Stage, Sound
  <2> HIDE DEF member
  <2>2. /\ Sound(UserOf[s], member, members, creator, count, messages, uploads)
        /\ Continues(s, member)
    BY <1>1, <2>1 DEF Sound, StillSo, InHand, Equipped, Engaged, Beginning, Carrying, Continues
  <2> QED
    BY <1>1, <1>2, <1>4, <2>2, ListsStay, QuietStep
<1>5. \/ session' = [session EXCEPT ![s] = Idle(s)]
      \/ session' = [session EXCEPT ![s] = member]
  BY DEF CheckedAttachments
<1> QED
  BY <1>3, <1>4, <1>5

\* Whoever is joined, by its list or by an old view, is a member; and the parent of its
\* message is where it was.
LEMMA JoinedIsMember ==
    ASSUME Inv, NEW s \in Sessions, session[s] # None, session[s].conv \in Conversations,
           NEW byTable, IsJoined(s, byTable)
    PROVE  UserOf[s] \in members[session[s].conv]
  BY SoundOne, UserTyped DEF IsJoined, Sound, StillSo, Inv, ListedAreMembers

LEMMA CheckMemberKeeps ==
    ASSUME Inv, NEW s \in Sessions, CheckMember(s)
    PROVE  Inv'
<1> DEFINE r == session[s]
           send == [r EXCEPT !.at = "send"]
<1>1. /\ r # None /\ r.at = "member" /\ ~At(s, "clean")
      /\ Sound(UserOf[s], r, members, creator, count, messages, uploads)
  BY SoundOne DEF CheckMember, At
<1>2. UNCHANGED tables /\ UNCHANGED <<listed, expiring, files_kept>>
  BY DEF CheckMember, caches
<1>3. PICK byTable \in {listed[UserOf[s]] = {}} \cup {"lists" \in Faults} :
        session' = [session EXCEPT ![s] =
            IF IsJoined(s, byTable) /\ IsParent(s) THEN [@ EXCEPT !.at = "send"] ELSE Idle(s)]
  BY DEF CheckMember
<1>4. CASE IsJoined(s, byTable) /\ IsParent(s)
  <2>1. /\ send \in Session /\ send.at = "send" /\ send.view = r.view
        /\ send.conv = r.conv /\ send.parent = r.parent
        /\ send.names = r.names /\ send.files = r.files
    BY <1>1, ChangedStage DEF Stage, Sound
  <2>2. session' = [session EXCEPT ![s] = send]
    BY <1>3, <1>4
  <2> HIDE DEF send
  <2>3. r.conv \in Conversations
    BY <1>1 DEF Sound, Equipped, Engaged, Beginning, Carrying
  <2>4. UserOf[s] \in members[r.conv]
    BY <1>1, <1>4, <2>3, JoinedIsMember
  <2>5. Answers(r.conv, r.parent, messages)
    <3>1. r.parent \in Nat /\ r.view.upto \in Nat /\ Len(messages) \in Nat
      BY <1>1, ConstantsAssumption, NowTyped DEF Sound, Session, View, Inv
    <3>2. r.view.upto <= Len(messages)
      BY <1>1 DEF Sound, StillSo
    <3> QED
      BY <1>4, <3>1, <3>2 DEF Answers, IsParent
  <2>6. StillSo(UserOf[s], send, members, creator, count, messages)
    BY <1>1, <2>1, <2>4, <2>5 DEF Sound, StillSo
  <2>7. /\ Sound(UserOf[s], send, members, creator, count, messages, uploads)
        /\ Continues(s, send)
    BY <1>1, <2>1, <2>6 DEF Sound, InHand, Equipped, Engaged, Beginning, Carrying, Continues
  <2> QED
    BY <1>1, <1>2, <2>2, <2>7, ListsStay, QuietStep
<1>5. CASE ~(IsJoined(s, byTable) /\ IsParent(s))
  <2>1. session' = [session EXCEPT ![s] = Idle(s)]
    BY <1>3, <1>5
  <2>2. /\ Sound(UserOf[s], Idle(s), members, creator, count, messages, uploads)
        /\ Continues(s, Idle(s))
    BY <1>1, IdleIsSound DEF Continues
  <2> QED
    BY <1>1, <1>2, <2>1, <2>2, ListsStay, QuietStep
<1> QED
  BY <1>4, <1>5

-----------------------------------------------------------------------------
(* New conversations. *)

\* Tables that grew: nobody leaves, a conversation in use and a message stay as they are.
Grown(m, cr, n, log, m2, cr2, n2, log2) ==
    /\ \A c \in Conversations : m[c] \subseteq m2[c]
    /\ \A c \in Conversations : cr[c] # None => cr2[c] = cr[c] /\ n2[c] = n[c]
    /\ Len(log) \in Nat /\ Len(log2) \in Nat /\ Len(log) <= Len(log2)
    /\ \A i \in 1..Len(log) : log2[i] = log[i]

\* A handler that makes a conversation is left alone with it: nobody joins, nobody writes
\* before the members are there, and nobody else writes the message it is made for.
Undisturbed(r, m, log, m2, log2) ==
    r.at \in Beginning =>
        /\ m2[r.conv] = m[r.conv]
        /\ \A i \in (Len(log) + 1)..Len(log2) : log2[i].conv = r.conv =>
                ~log2[i].opens /\ r.at \notin {"rows", "open"}

\* What was known of the tables is still so when they have grown.
LEMMA StillSoGrown ==
    ASSUME NEW u, NEW r \in Session, Equipped(r),
           NEW m, NEW cr, NEW n, NEW log, NEW m2, NEW cr2, NEW n2, NEW log2,
           Grown(m, cr, n, log, m2, cr2, n2, log2), Undisturbed(r, m, log, m2, log2),
           StillSo(u, r, m, cr, n, log)
    PROVE  StillSo(u, r, m2, cr2, n2, log2)
<1>1. \A c \in Conversations : m[c] \subseteq m2[c]
  BY DEF Grown
<1>2. Len(log) \in Nat /\ Len(log2) \in Nat /\ Len(log) <= Len(log2)
  BY DEF Grown
<1>3. r.view.upto \in Nat /\ r.parent \in Nat
  BY ConstantsAssumption DEF Session, View
<1>4. r.at \in Engaged => r.conv \in Conversations
  BY DEF Equipped
<1>5. \A c \in Conversations : r.view.members[c] \subseteq m2[c]
  BY <1>1 DEF StillSo
<1>6. r.view.upto <= Len(log2)
  BY <1>2, <1>3 DEF StillSo
<1>7. r.at = "fill" => \A c \in r.todo : c \in Conversations /\ u \in m2[c]
  BY <1>1 DEF StillSo
<1>8. \A i \in 1..Len(log2) : i \in 1..Len(log) \/ i \in (Len(log) + 1)..Len(log2)
  BY <1>2
<1>9. ASSUME r.at \in {"rows", "open"}
      PROVE  Joining(u, r, m2, cr2, n2, log2)
  <2>1. r.conv \in Conversations /\ r.at \in Beginning
    BY <1>4, <1>9 DEF Engaged, Beginning
  <2>2. Joining(u, r, m, cr, n, log)
    BY <1>9 DEF StillSo
  <2>3. cr[r.conv] # None
    BY <2>2, ConstantsAssumption DEF Joining
  <2>4. m2[r.conv] = m[r.conv] /\ cr2[r.conv] = cr[r.conv] /\ n2[r.conv] = n[r.conv]
    BY <2>1, <2>3 DEF Grown, Undisturbed
  <2>5. \A i \in 1..Len(log2) : log2[i].conv # r.conv
    BY <1>8, <1>9, <2>1, <2>2 DEF Grown, Undisturbed, Joining
  <2> QED
    BY <2>2, <2>4, <2>5 DEF Joining
<1>10. ASSUME r.at \in {"announce", "first"}
       PROVE  Opening(u, r, m2, cr2, n2, log2)
  <2>1. r.conv \in Conversations /\ r.at \in Beginning
    BY <1>4, <1>10 DEF Engaged, Beginning
  <2>2. Opening(u, r, m, cr, n, log)
    BY <1>10 DEF StillSo
  <2>3. m2[r.conv] = m[r.conv] /\ cr2[r.conv] = cr[r.conv] /\ n2[r.conv] = n[r.conv]
    BY <2>1, <2>2 DEF Grown, Undisturbed, Opening
  <2>4. \A i \in 1..Len(log2) : log2[i].conv = r.conv => ~log2[i].opens
    BY <1>8, <2>1, <2>2 DEF Grown, Undisturbed, Opening
  <2> QED
    BY <2>2, <2>3, <2>4 DEF Opening
<1>11. r.at = "announce" => r.todo \subseteq m2[r.conv]
  BY <1>1, <1>4 DEF StillSo, Engaged, Beginning
<1>12. ASSUME r.at \in {"send", "files"}
       PROVE  u \in m2[r.conv] /\ Answers(r.conv, r.parent, log2)
  <2>1. r.conv \in Conversations /\ u \in m[r.conv] /\ Answers(r.conv, r.parent, log)
    BY <1>4, <1>12 DEF StillSo, Engaged, Carrying
  <2>2. r.parent # 0 => r.parent \in 1..Len(log) /\ r.parent <= Len(log2)
    BY <1>2, <1>3, <2>1 DEF Answers
  <2>3. r.parent # 0 => log2[r.parent] = log[r.parent]
    BY <2>2 DEF Grown
  <2> QED
    BY <1>1, <2>1, <2>2, <2>3 DEF Answers
<1> QED
  BY <1>5, <1>6, <1>7, <1>9, <1>10, <1>11, <1>12 DEF StillSo

\* A message that is written: by a member; either it answers one of its conversation, or it
\* is the one its conversation was made for; and its uploads are about to be deleted, or
\* their handler ended before.
Fit(i, log, m, log2, t, lost) ==
    /\ log2[i].sender \in m[log2[i].conv]
    /\ \/ ~log2[i].opens /\ Answers(log2[i].conv, log2[i].parent, log)
       \/ /\ Len(log2) = Len(log) + 1 /\ log2[i].parent <= i
          /\ log2[i].opens
          /\ \A j \in 1..Len(log) : log[j].conv = log2[i].conv => ~log[j].opens
    /\ log2[i].files # {} =>
        \/ t # None /\ t.at = "clean" /\ log2[i].files \subseteq t.files
        \/ log2[i].files \subseteq lost

\* A step of s in which the tables grow.
LEMMA GrownStep ==
    ASSUME Inv, NEW s \in Sessions, NEW t,
           session' = [session EXCEPT ![s] = t], ~At(s, "clean"),
           UNCHANGED <<listed, expiring, uploads>>,
           abandoned \subseteq abandoned', abandoned' \subseteq Files,
           members' \in MemberTable, creator' \in CreatorColumn, count' \in CountColumn,
           messages' \in Seq(Message), Len(messages') <= MaxMessages,
           Grown(members, creator, count, messages, members', creator', count', messages'),
           \A x \in Sessions \ {s} : session[x] # None =>
               Undisturbed(session[x], members, messages, members', messages'),
           Fresh', CompleteConversation',
           t # None => Sound(UserOf[s], t, members', creator', count', messages', uploads),
           t # None /\ t.at \in Beginning => Elsewhere(s, t.conv),
           \A i \in (Len(messages) + 1)..Len(messages') :
               Fit(i, messages, members', messages', t, abandoned')
    PROVE  Inv'
<1>1. /\ session \in [Sessions -> Session \cup {None}] /\ messages \in Seq(Message)
      /\ listed' = listed /\ expiring' = expiring /\ uploads' = uploads
      /\ Len(messages) \in Nat /\ Len(messages') \in Nat /\ Len(messages) <= Len(messages')
  BY DEF Inv, Typed, Grown
<1>2. t \in Session \cup {None}
  BY DEF Sound
<1>3. /\ session'[s] = t /\ \A x \in Sessions \ {s} : session'[x] = session[x]
      /\ session' \in [Sessions -> Session \cup {None}]
  BY <1>1, <1>2
<1>4. ASSUME NEW x \in Sessions, session'[x] # None
      PROVE  Sound(UserOf[x], session'[x], members', creator', count', messages', uploads)
  <2>1. CASE x = s
    BY <1>3, <1>4, <2>1
  <2>2. CASE x # s
    <3>1. session'[x] = session[x] /\ session[x] # None
      BY <1>3, <1>4, <2>2
    <3>2. Sound(UserOf[x], session[x], members, creator, count, messages, uploads)
      BY <3>1, SoundOne
    <3>3. Undisturbed(session[x], members, messages, members', messages')
      BY <2>2, <3>1
    <3>4. StillSo(UserOf[x], session[x], members', creator', count', messages')
      BY <3>2, <3>3, StillSoGrown DEF Sound
    <3> QED
      BY <3>1, <3>2, <3>4 DEF Sound
  <2> QED
    BY <2>1, <2>2
<1>5. /\ Informed' /\ Held'
      /\ \A x \in Sessions : session'[x] # None => Equipped(session'[x])
  BY <1>1, <1>4 DEF Informed, Held, Sound
<1>6. Typed'
  BY <1>1, <1>3, <1>5 DEF Inv, Typed
<1>7. ASSUME NEW i \in 1..Len(messages)
      PROVE  /\ i \in 1..Len(messages') /\ messages'[i] = messages[i]
             /\ messages[i] \in Message /\ messages[i].conv \in Conversations
             /\ messages[i].sender \in members'[messages[i].conv]
  <2>1. i \in 1..Len(messages') /\ messages'[i] = messages[i]
    BY <1>1 DEF Grown
  <2>2. messages[i] \in Message /\ messages[i].conv \in Conversations
    <3>1. messages[i] \in Message
      BY <1>1
    <3> QED
      BY <3>1 DEF Message
  <2>3. messages[i].sender \in members[messages[i].conv]
    BY DEF Inv, Authored
  <2> QED
    BY <2>1, <2>2, <2>3 DEF Grown
<1>8. \A i \in 1..Len(messages') :
          i \in 1..Len(messages) \/ i \in (Len(messages) + 1)..Len(messages')
  BY <1>1
<1>9. Authored'
  <2> SUFFICES ASSUME NEW i \in 1..Len(messages')
               PROVE  messages'[i].sender \in members'[messages'[i].conv]
    BY DEF Authored
  <2> QED
    BY <1>7, <1>8 DEF Fit
<1>10. RepliesStay'
  <2>1. ASSUME NEW i \in 1..Len(messages'), messages'[i].parent # 0
        PROVE  LET p == messages'[i].parent IN
               \/ p < i /\ messages'[p].conv = messages'[i].conv
               \/ p <= i /\ messages'[i].opens
    <3> DEFINE p == messages'[i].parent
    <3>1. p \in Nat
      <4>1. messages'[i] \in Message
        OBVIOUS
      <4> QED
        BY <4>1, ConstantsAssumption DEF Message
    <3>2. CASE i \in 1..Len(messages)
      <4>1. messages'[i] = messages[i] /\ messages[i].parent = p
        BY <1>7, <3>2
      <4>2. \/ p < i /\ messages[p].conv = messages[i].conv
            \/ p <= i /\ messages[i].opens
        BY <2>1, <3>2, <4>1 DEF Inv, RepliesStay
      <4>3. p < i => messages'[p] = messages[p]
        BY <1>1, <1>7, <2>1, <3>1, <3>2
      <4> QED
        BY <4>1, <4>2, <4>3
    <3>3. CASE i \in (Len(messages) + 1)..Len(messages')
      <4>1. \/ p <= Len(messages) /\ messages[p].conv = messages'[i].conv
            \/ p <= i /\ messages'[i].opens
        BY <2>1, <3>3 DEF Fit, Answers
      <4>2. p <= Len(messages) => p < i /\ messages'[p] = messages[p]
        BY <1>1, <1>7, <2>1, <3>1, <3>3
      <4> QED
        BY <4>1, <4>2
    <3> QED
      BY <1>8, <3>2, <3>3
  <2>2. ASSUME NEW i \in 1..Len(messages'), NEW j \in 1..Len(messages'), i <= j,
               messages'[i].opens, messages'[j].opens, messages'[i].conv = messages'[j].conv
        PROVE  i = j
    <3>1. CASE j \in 1..Len(messages)
      <4>1. i \in 1..Len(messages)
        BY <2>2, <3>1
      <4> QED
        BY <1>7, <2>2, <3>1, <4>1 DEF Inv, RepliesStay
    <3>2. CASE j \in (Len(messages) + 1)..Len(messages')
      <4>1. /\ Len(messages') = Len(messages) + 1
            /\ \A k \in 1..Len(messages) :
                  messages[k].conv = messages'[j].conv => ~messages[k].opens
        BY <2>2, <3>2 DEF Fit
      <4>2. i \notin 1..Len(messages)
        BY <1>7, <2>2, <4>1
      <4> QED
        BY <1>1, <1>8, <3>2, <4>1, <4>2
    <3> QED
      BY <1>8, <3>1, <3>2
  <2>3. \A i, j \in 1..Len(messages') :
            messages'[i].opens /\ messages'[j].opens /\ messages'[i].conv = messages'[j].conv
            => i = j
    <3> SUFFICES ASSUME NEW i \in 1..Len(messages'), NEW j \in 1..Len(messages'),
                        messages'[i].opens, messages'[j].opens,
                        messages'[i].conv = messages'[j].conv
                 PROVE  i = j
      OBVIOUS
    <3>1. i <= j \/ j <= i
      OBVIOUS
    <3> QED
      BY <2>2, <3>1
  <2> QED
    BY <2>1, <2>3 DEF RepliesStay
<1>11. SentUploadsGone'
  <2> SUFFICES ASSUME NEW k \in UploadKeys, NEW i \in 1..Len(messages'),
                      uploads[k] \in messages'[i].files, uploads[k] \notin abandoned'
               PROVE  \E x \in Sessions : At(x, "clean")' /\ uploads[k] \in session'[x].files
    BY <1>1 DEF SentUploadsGone
  <2>1. CASE i \in 1..Len(messages)
    <3>1. uploads[k] \in messages[i].files /\ uploads[k] \notin abandoned
      BY <1>7, <2>1
    <3>2. PICK x \in Sessions : At(x, "clean") /\ uploads[k] \in session[x].files
      BY <2>1, <3>1 DEF Inv, SentUploadsGone
    <3>3. x # s
      BY <3>2
    <3> QED
      BY <3>2, <3>3, <1>3 DEF At
  <2>2. CASE i \in (Len(messages) + 1)..Len(messages')
    <3>1. t # None /\ t.at = "clean" /\ messages'[i].files \subseteq t.files
      BY <2>2 DEF Fit
    <3> QED
      BY <1>3, <3>1 DEF At
  <2> QED
    BY <1>8, <2>1, <2>2
<1>12. ListedAreMembers'
  <2> SUFFICES ASSUME NEW u \in Accounts, NEW c \in listed[u]
               PROVE  u \in members'[c]
    BY <1>1 DEF ListedAreMembers
  <2>1. c \in Conversations
    BY DEF Inv, Typed
  <2>2. u \in members[c]
    BY DEF Inv, ListedAreMembers
  <2> QED
    BY <2>1, <2>2 DEF Grown
<1>13. CachedOnce'
  BY <1>1 DEF Inv, CachedOnce
<1>14. Alone'
  BY <1>2, StaysAlone
<1> QED
  BY <1>5, <1>6, <1>9, <1>10, <1>11, <1>12, <1>13, <1>14 DEF Inv

\* Whom a caller may contact are some others, and the one that is called on is another.
LEMMA OthersOf ==
    ASSUME NEW u \in Accounts, NEW others \in SUBSET Accounts, u \notin others,
           MayContact(u, others)
    PROVE  /\ IsFiniteSet(others) /\ Cardinality(others) \in Nat /\ Cardinality(others) >= 1
           /\ IsFiniteSet(others \cup {u})
           /\ Cardinality(others \cup {u}) = Cardinality(others) + 1
           /\ Cardinality(others) + 1 \in 0..Cardinality(Accounts)
           /\ CreatorOf(u, others) \in Accounts
           /\ Cardinality(others) = 1 => CreatorOf(u, others) \in others
           /\ Cardinality(others) # 1 => CreatorOf(u, others) = u
<1>1. IsFiniteSet(others)
  BY ConstantsAssumption, FS_Subset
<1>2. Cardinality(others) \in Nat
  BY <1>1, FS_CardinalityType
<1>3. Cardinality(others) >= 1
  <2>1. CASE Cardinality(others) > 1
    BY <1>2, <2>1
  <2>2. CASE \E w \in others : others = {w}
    <3>1. PICK w \in others : others = {w}
      BY <2>2
    <3>2. Cardinality({w}) = 1
      BY FS_Singleton
    <3> QED
      BY <3>1, <3>2
  <2> QED
    BY <2>1, <2>2 DEF MayContact
<1>4. IsFiniteSet(others \cup {u}) /\ Cardinality(others \cup {u}) = Cardinality(others) + 1
  BY <1>1, FS_AddElement
<1>5. Cardinality(others \cup {u}) <= Cardinality(Accounts) /\ Cardinality(Accounts) \in Nat
  <2>1. others \cup {u} \in SUBSET Accounts /\ IsFiniteSet(Accounts)
    BY ConstantsAssumption
  <2>2. Cardinality(others \cup {u}) <= Cardinality(Accounts)
    BY <2>1, FS_Subset
  <2> QED
    BY <2>1, <2>2, FS_CardinalityType
<1>6. Cardinality(others) = 1 => CreatorOf(u, others) \in others
  <2> SUFFICES ASSUME Cardinality(others) = 1
               PROVE  CreatorOf(u, others) \in others
    OBVIOUS
  <2>1. others # {}
    BY FS_EmptySet
  <2>2. (CHOOSE w \in others : TRUE) \in others
    BY <2>1
  <2> QED
    BY <2>2 DEF CreatorOf
<1>7. Cardinality(others) # 1 => CreatorOf(u, others) = u
  BY DEF CreatorOf
<1>8. Cardinality(others) + 1 \in 0..Cardinality(Accounts)
  BY <1>2, <1>4, <1>5
<1> QED
  BY <1>1, <1>2, <1>3, <1>4, <1>6, <1>7, <1>8

\* Rows that are not written leave everybody undisturbed who is left alone with its members.
LEMMA NobodyDisturbed ==
    ASSUME NEW r, NEW m, NEW m2, NEW log, Len(log) \in Nat,
           r.at \in Beginning => m2[r.conv] = m[r.conv]
    PROVE  Undisturbed(r, m, log, m2, log)
  BY DEF Undisturbed

\* The session that commits the row of a conversation.
Founder(s, c, others, stage, parent, v) ==
    [Blank(stage, v) EXCEPT !.conv = c, !.parent = parent, !.todo = others \cup {UserOf[s]}]

LEMMA CreateRowKeeps ==
    ASSUME Inv, NEW s \in Sessions, NEW c \in Conversations, NEW others \in SUBSET Accounts,
           NEW stage \in {"rows", "open"}, NEW parent \in 0..MaxMessages,
           session[s] # None, ~At(s, "clean"),
           UserOf[s] \notin others, MayContact(UserOf[s], others),
           CreateRow(s, c, others, stage, parent)
    PROVE  Inv'
<1> DEFINE u == UserOf[s]
           group == others \cup {u}
           first == CreatorOf(u, others)
           t == Founder(s, c, others, stage, parent, Now')
<1>1. /\ IsFiniteSet(others) /\ Cardinality(others) \in Nat
      /\ Cardinality(group) \in 0..Cardinality(Accounts)
      /\ first \in Accounts /\ first \in group
  BY UserTyped, OthersOf
<1>2. /\ creator[c] = None
      /\ creator' = [creator EXCEPT ![c] = first]
      /\ count' = [count EXCEPT ![c] = Cardinality(group)]
      /\ members' = members /\ messages' = messages
      /\ UNCHANGED <<listed, expiring, uploads>> /\ abandoned' = abandoned
      /\ session' = [session EXCEPT ![s] = t]
  <2>1. Now' = [members |-> members', upto |-> Len(messages')]
    BY DEF Now
  <2>2. Now' = Now
    BY <2>1 DEF CreateRow, Now
  <2> QED
    BY <2>2 DEF CreateRow, caches, files_kept, Founder, Blank
<1>3. /\ members \in MemberTable /\ creator \in CreatorColumn /\ count \in CountColumn
      /\ messages \in Seq(Message) /\ Len(messages) <= MaxMessages /\ Len(messages) \in Nat
      /\ abandoned \subseteq Files
  BY DEF Inv, Typed
<1> HIDE DEF first, group
<1>4. /\ creator'[c] = first /\ count'[c] = Cardinality(group)
      /\ \A d \in Conversations \ {c} : creator'[d] = creator[d] /\ count'[d] = count[d]
      /\ creator' \in CreatorColumn /\ count' \in CountColumn
  BY <1>1, <1>2, <1>3 DEF CreatorColumn, CountColumn
<1>5. members[c] = {} /\ \A i \in 1..Len(messages) : messages[i].conv # c
  BY <1>2 DEF Inv, Fresh, Authored
<1>6. Grown(members, creator, count, messages, members', creator', count', messages')
  BY <1>2, <1>3, <1>4 DEF Grown
<1>7. Fresh'
  BY <1>1, <1>2, <1>4, ConstantsAssumption DEF Inv, Fresh
<1>8. CompleteConversation'
  BY <1>1, <1>2, <1>4, <1>5 DEF Inv, CompleteConversation
<1>9. Now' \in View /\ Now'.members = members /\ Now'.upto = Len(messages)
  BY <1>2, <1>3, ConstantsAssumption DEF Now, View
<1>10. /\ t \in Session /\ t.at = stage /\ t.conv = c /\ t.files = {}
       /\ t.todo = group /\ t.view = Now'
  <2> DEFINE b == Blank(stage, Now')
  <2>1. b \in Session
    BY <1>9, ConstantsAssumption DEF Blank, Session, Stage
  <2>2. b.at = stage /\ b.files = {} /\ b.view = Now'
    BY DEF Blank
  <2>3. group \in SUBSET (Accounts \cup Conversations \cup Names)
    BY UserTyped DEF group
  <2>4. t = [b EXCEPT !.conv = c, !.parent = parent, !.todo = group]
    BY DEF Founder, group
  <2> HIDE DEF b, t
  <2> QED
    BY <2>1, <2>2, <2>3, <2>4 DEF Session
<1> HIDE DEF t
<1>11. Joining(u, t, members', creator', count', messages')
  <2>1. u \in group /\ group \subseteq Accounts
    BY UserTyped DEF group
  <2>2. members'[c] \cup group = group
    BY <1>2, <1>5
  <2> QED
    BY <1>1, <1>2, <1>4, <1>5, <1>10, <2>1, <2>2 DEF Joining
<1>12. Sound(u, t, members', creator', count', messages', uploads)
  <2>1. StillSo(u, t, members', creator', count', messages')
    BY <1>2, <1>3, <1>9, <1>10, <1>11 DEF StillSo
  <2>2. Equipped(t) /\ InHand(t, u, uploads)
    BY <1>10, FS_EmptySet DEF Equipped, InHand, Engaged, Carrying
  <2> QED
    BY <1>10, <2>1, <2>2 DEF Sound
<1>13. Elsewhere(s, t.conv)
  <2> SUFFICES ASSUME NEW x \in Sessions \ {s}, session[x] # None, session[x].at \in Beginning
               PROVE  session[x].conv # c
    BY <1>10 DEF Elsewhere
  <2>1. StillSo(UserOf[x], session[x], members, creator, count, messages)
    BY SoundOne DEF Sound
  <2>2. creator[session[x].conv] # None
    BY <2>1, ConstantsAssumption DEF StillSo, Joining, Opening, Beginning
  <2> QED
    BY <1>2, <2>2
<1>14. \A x \in Sessions \ {s} : session[x] # None =>
          Undisturbed(session[x], members, messages, members', messages')
  BY <1>2, <1>3, NobodyDisturbed
<1>15. (Len(messages) + 1)..Len(messages') = {}
  BY <1>2, <1>3
<1> QED
  BY <1>2, <1>3, <1>4, <1>6, <1>7, <1>8, <1>12, <1>13, <1>14, <1>15, GrownStep

LEMMA CreateByRequestKeeps ==
    ASSUME Inv, NEW s \in Sessions, NEW c \in Conversations, NEW others \in SUBSET Accounts,
           CreateByRequest(s, c, others)
    PROVE  Inv'
<1>1. /\ session[s] # None /\ ~At(s, "clean") /\ UserOf[s] \notin others
      /\ MayContact(UserOf[s], others) /\ CreateRow(s, c, others, "rows", 0)
  BY DEF CreateByRequest, At
<1>2. 0 \in 0..MaxMessages
  BY ConstantsAssumption
<1> QED
  BY <1>1, <1>2, CreateRowKeeps

LEMMA CreateByMessageKeeps ==
    ASSUME Inv, NEW s \in Sessions, NEW c \in Conversations, NEW others \in SUBSET Accounts,
           NEW parent \in 0..MaxMessages, CreateByMessage(s, c, others, parent)
    PROVE  Inv'
<1>1. /\ session[s] # None /\ ~At(s, "clean") /\ UserOf[s] \notin others
      /\ MayContact(UserOf[s], others) /\ CreateRow(s, c, others, "open", parent)
  BY DEF CreateByMessage, At
<1> QED
  BY <1>1, CreateRowKeeps

\* A session that goes on to another stage with another view.
Moved(r, stage, todo, v) == [r EXCEPT !.at = stage, !.todo = todo, !.view = v]

LEMMA ChangedByMember ==
    ASSUME NEW r \in Session, NEW stage \in Stage, NEW todo \in SUBSET Accounts, NEW v \in View
    PROVE  /\ Moved(r, stage, todo, v) \in Session
           /\ Moved(r, stage, todo, v).at = stage
           /\ Moved(r, stage, todo, v).todo = todo
           /\ Moved(r, stage, todo, v).view = v
           /\ Moved(r, stage, todo, v).conv = r.conv
           /\ Moved(r, stage, todo, v).files = r.files
  BY DEF Session, Moved

\* What one more member does to the tables.
LEMMA AddMemberDoes ==
    ASSUME Inv, NEW s \in Sessions, NEW u \in Accounts, AddMember(s, u)
    PROVE  LET r == session[s]
               left == r.todo \ {u}
           IN  /\ r # None /\ r \in Session /\ r.at \in {"rows", "open"} /\ r.conv \in Conversations
               /\ r.files = {} /\ left \in SUBSET Accounts
               /\ Joining(UserOf[s], r, members, creator, count, messages)
               /\ members'[r.conv] = members[r.conv] \cup {u}
               /\ members'[r.conv] \cup left = members[r.conv] \cup r.todo
               /\ \A c \in Conversations \ {r.conv} : members'[c] = members[c]
               /\ left # {} => creator[r.conv] \in left \ members'[r.conv]
               /\ members' \in MemberTable
               /\ creator' = creator /\ count' = count /\ messages' = messages
<1> DEFINE r == session[s]
           left == r.todo \ {u}
<1>1. /\ r # None /\ r.at \in {"rows", "open"} /\ u \in r.todo
      /\ u = creator[r.conv] => left = {}
      /\ members' = [members EXCEPT ![r.conv] = @ \cup {u}]
      /\ creator' = creator /\ count' = count /\ messages' = messages
  BY DEF AddMember, Founding, At
<1>2. /\ r \in Session /\ r.conv \in Conversations /\ r.files = {}
      /\ Joining(UserOf[s], r, members, creator, count, messages)
  BY <1>1, SoundOne DEF Sound, StillSo, Equipped, Engaged, Beginning, Carrying
<1>3. left \in SUBSET Accounts
  BY <1>2 DEF Joining
<1>4. members \in MemberTable
  BY DEF Inv, Typed
<1>5. /\ members'[r.conv] = members[r.conv] \cup {u} /\ members' \in MemberTable
      /\ \A c \in Conversations \ {r.conv} : members'[c] = members[c]
  BY <1>1, <1>2, <1>4 DEF MemberTable
<1>6. members'[r.conv] \cup left = members[r.conv] \cup r.todo
  BY <1>1, <1>5
<1>7. left # {} => creator[r.conv] \in left \ members'[r.conv]
  BY <1>1, <1>2, <1>5 DEF Joining
<1> QED
  BY <1>1, <1>2, <1>3, <1>5, <1>6, <1>7

LEMMA AddMemberKeeps ==
    ASSUME Inv, NEW s \in Sessions, NEW u \in Accounts, AddMember(s, u)
    PROVE  Inv'
<1> DEFINE r == session[s]
           c == r.conv
           w == UserOf[s]
           left == r.todo \ {u}
           more == Moved(r, r.at, left, Now')
           all == Moved(r, "announce", members'[c], Now')
           t == IF left # {} THEN more ELSE IF At(s, "rows") THEN None ELSE all
<1>1. /\ r # None /\ r \in Session /\ r.at \in {"rows", "open"} /\ c \in Conversations
      /\ r.files = {} /\ left \in SUBSET Accounts
      /\ Joining(w, r, members, creator, count, messages)
      /\ members'[c] = members[c] \cup {u}
      /\ members'[c] \cup left = members[c] \cup r.todo
      /\ \A d \in Conversations \ {c} : members'[d] = members[d]
      /\ left # {} => creator[c] \in left \ members'[c]
      /\ members' \in MemberTable
      /\ creator' = creator /\ count' = count /\ messages' = messages
  BY AddMemberDoes
<1>2. /\ session' = [session EXCEPT ![s] = t]
      /\ UNCHANGED <<listed, expiring, uploads>> /\ abandoned' = abandoned
  BY <1>1 DEF AddMember, Moved, caches, files_kept
<1>3. /\ creator \in CreatorColumn /\ count \in CountColumn /\ abandoned \subseteq Files
      /\ messages \in Seq(Message) /\ Len(messages) <= MaxMessages /\ Len(messages) \in Nat
  BY DEF Inv, Typed
<1>4. ~At(s, "clean") /\ r.at \in Beginning /\ r.at \in Stage /\ "announce" \in Stage
  BY <1>1 DEF At, Beginning, Stage
<1> HIDE DEF left
<1>5. /\ creator[c] \in r.todo \ members[c] /\ creator[c] # None
      /\ Cardinality(members[c] \cup r.todo) = count[c]
      /\ w \in members[c] \cup r.todo
      /\ \A i \in 1..Len(messages) : messages[i].conv # c
  BY <1>1, ConstantsAssumption DEF Joining
<1>6. left = {} => members'[c] = members[c] \cup r.todo
  BY <1>1
<1>7. Grown(members, creator, count, messages, members', creator', count', messages')
  BY <1>1, <1>3 DEF Grown
<1>8. \A x \in Sessions \ {s} : session[x] # None =>
          Undisturbed(session[x], members, messages, members', messages')
  <2> SUFFICES ASSUME NEW x \in Sessions \ {s}, session[x] # None, session[x].at \in Beginning
               PROVE  members'[session[x].conv] = members[session[x].conv]
    BY <1>1, <1>3, NobodyDisturbed
  <2>1. session[x].conv # c
    BY <1>1, <1>4 DEF Inv, Alone, Elsewhere
  <2>2. session[x].conv \in Conversations
    BY SoundOne DEF Sound, Equipped, Engaged
  <2> QED
    BY <1>1, <2>1, <2>2
<1>9. Fresh'
  BY <1>1, <1>5 DEF Inv, Fresh
<1>10. CompleteConversation'
  <2> SUFFICES ASSUME NEW d \in Conversations,
                      \/ creator[d] \in members'[d]
                      \/ \E i \in 1..Len(messages) : messages[i].conv = d /\ messages[i].opens
               PROVE  Cardinality(members'[d]) = count[d]
    BY <1>1 DEF CompleteConversation
  <2>1. CASE d # c
    BY <1>1, <2>1 DEF Inv, CompleteConversation
  <2>2. CASE d = c
    BY <1>1, <1>5, <1>6, <2>2
  <2> QED
    BY <2>1, <2>2
<1>11. Now' \in View /\ Now'.members = members' /\ Now'.upto = Len(messages)
  BY <1>1, <1>3, ConstantsAssumption DEF Now, View
<1>12. ASSUME left # {}
       PROVE  /\ Sound(w, more, members', creator', count', messages', uploads)
              /\ more.conv = c
  <2>1. /\ more \in Session /\ more.at = r.at /\ more.conv = c /\ more.files = {}
        /\ more.todo = left /\ more.view = Now'
    BY <1>1, <1>4, <1>11, ChangedByMember
  <2> HIDE DEF more
  <2>2. w \in members'[c] \cup left /\ Cardinality(members'[c] \cup left) = count[c]
    BY <1>1, <1>5
  <2>3. Joining(w, more, members', creator', count', messages')
    BY <1>1, <1>5, <1>12, <2>1, <2>2 DEF Joining
  <2>4. StillSo(w, more, members', creator', count', messages')
    BY <1>1, <1>3, <1>11, <2>1, <2>3 DEF StillSo
  <2>5. Equipped(more) /\ InHand(more, w, uploads)
    BY <1>1, <2>1, FS_EmptySet DEF Equipped, InHand
  <2> QED
    BY <2>1, <2>4, <2>5 DEF Sound
<1>13. ASSUME left = {}
       PROVE  /\ Sound(w, all, members', creator', count', messages', uploads)
              /\ all.conv = c
  <2>1. members'[c] \in SUBSET Accounts
    BY <1>1 DEF MemberTable
  <2>2. /\ all \in Session /\ all.at = "announce" /\ all.conv = c /\ all.files = {}
        /\ all.todo = members'[c] /\ all.view = Now'
    BY <1>1, <1>4, <1>11, <2>1, ChangedByMember
  <2> HIDE DEF all
  <2>3. Opening(w, all, members', creator', count', messages')
    BY <1>1, <1>5, <1>6, <1>13, <2>2 DEF Opening
  <2>4. StillSo(w, all, members', creator', count', messages')
    BY <1>1, <1>3, <1>11, <2>2, <2>3 DEF StillSo
  <2>5. Equipped(all) /\ InHand(all, w, uploads)
    BY <1>1, <2>2, FS_EmptySet DEF Equipped, InHand
  <2> QED
    BY <2>2, <2>4, <2>5 DEF Sound
<1>14. /\ t # None => Sound(w, t, members', creator', count', messages', uploads)
       /\ t # None => t.conv = c
  BY <1>12, <1>13
<1> HIDE DEF t
<1>15. t # None /\ t.at \in Beginning => Elsewhere(s, t.conv)
  BY <1>1, <1>4, <1>14 DEF Inv, Alone
<1>16. (Len(messages) + 1)..Len(messages') = {}
  BY <1>1, <1>3
<1> QED
  BY <1>1, <1>2, <1>3, <1>4, <1>7, <1>8, <1>9, <1>10, <1>14, <1>15, <1>16, GrownStep

-----------------------------------------------------------------------------
(* Messages that are written. *)

Viewing(r, stage, v) == [r EXCEPT !.at = stage, !.view = v]

LEMMA ChangedByWriting ==
    ASSUME NEW r \in Session, NEW stage \in Stage, NEW v \in View
    PROVE  /\ Viewing(r, stage, v) \in Session
           /\ Viewing(r, stage, v).at = stage
           /\ Viewing(r, stage, v).view = v
           /\ Viewing(r, stage, v).conv = r.conv
           /\ Viewing(r, stage, v).parent = r.parent
           /\ Viewing(r, stage, v).names = r.names
           /\ Viewing(r, stage, v).files = r.files
  BY DEF Session, Viewing

\* A handler that may write rows.
Writing(s) == session[s] # None /\ session[s].at \in {"send", "files", "first"}

\* A row that it writes.
LEMMA RowIsFit ==
    ASSUME Inv, NEW s \in Sessions, Writing(s), NEW files \in SUBSET session[s].files
    PROVE  /\ Row(s, files) \in Message
           /\ Row(s, files).sender = UserOf[s] /\ Row(s, files).conv = session[s].conv
           /\ Row(s, files).parent = session[s].parent /\ Row(s, files).files = files
           /\ Row(s, files).opens = At(s, "first")
           /\ session[s].conv \in Conversations
           /\ UserOf[s] \in members[session[s].conv]
           /\ session[s].at # "first" => Answers(session[s].conv, session[s].parent, messages)
           /\ session[s].at = "first" =>
                Opening(UserOf[s], session[s], members, creator, count, messages)
<1>1. Sound(UserOf[s], session[s], members, creator, count, messages, uploads)
  BY SoundOne DEF Writing
<1>2. session[s] \in Session /\ session[s].conv \in Conversations
  BY <1>1 DEF Sound, Equipped, Engaged, Beginning, Carrying, Writing
<1>3. At(s, "first") \in BOOLEAN
  BY DEF At
<1>4. Row(s, files) \in Message
  BY <1>2, <1>3, UserTyped DEF Row, Message, Session
<1>5. /\ Row(s, files).sender = UserOf[s] /\ Row(s, files).conv = session[s].conv
      /\ Row(s, files).parent = session[s].parent /\ Row(s, files).files = files
      /\ Row(s, files).opens = At(s, "first")
  BY DEF Row
<1>6. /\ session[s].at # "first" => UserOf[s] \in members[session[s].conv]
                                    /\ Answers(session[s].conv, session[s].parent, messages)
      /\ session[s].at = "first" =>
            Opening(UserOf[s], session[s], members, creator, count, messages)
  BY <1>1 DEF Sound, StillSo, Writing
<1>7. UserOf[s] \in members[session[s].conv]
  BY <1>6 DEF Opening
<1> QED
  BY <1>2, <1>4, <1>5, <1>6, <1>7

\* Rows of s appended to the messages.
LEMMA Written ==
    ASSUME Inv, NEW s \in Sessions, Writing(s), LoopFree(s),
           NEW N \in Nat, NEW rows \in [1..N -> Message],
           \A i \in 1..N : rows[i].conv = session[s].conv /\ rows[i].opens = At(s, "first"),
           messages' = messages \o rows, UNCHANGED <<members, creator, count>>,
           Len(messages) + N <= MaxMessages
    PROVE  /\ messages' \in Seq(Message) /\ Len(messages') = Len(messages) + N
           /\ Len(messages') <= MaxMessages
           /\ members' \in MemberTable /\ creator' \in CreatorColumn /\ count' \in CountColumn
           /\ \A i \in (Len(messages) + 1)..Len(messages') :
                i - Len(messages) \in 1..N /\ messages'[i] = rows[i - Len(messages)]
           /\ Grown(members, creator, count, messages, members', creator', count', messages')
           /\ \A x \in Sessions \ {s} : session[x] # None =>
                Undisturbed(session[x], members, messages, members', messages')
           /\ Fresh' /\ CompleteConversation'
           /\ Now' \in View /\ Now'.members = members /\ Now'.upto = Len(messages')
<1>1. messages \in Seq(Message) /\ Len(messages) \in Nat
  BY DEF Inv, Typed
<1>2. rows \in Seq(Message) /\ Len(rows) = N
  OBVIOUS
<1>3. /\ messages' \in Seq(Message) /\ Len(messages') = Len(messages) + N
      /\ \A i \in 1..Len(messages) : messages'[i] = messages[i]
      /\ \A i \in (Len(messages) + 1)..Len(messages') :
           i - Len(messages) \in 1..N /\ messages'[i] = rows[i - Len(messages)]
  <2>1. /\ messages \o rows \in Seq(Message) /\ Len(messages \o rows) = Len(messages) + Len(rows)
        /\ \A i \in 1..(Len(messages) + Len(rows)) :
             (messages \o rows)[i] = IF i <= Len(messages) THEN messages[i]
                                                          ELSE rows[i - Len(messages)]
    BY <1>1, <1>2, ConcatProperties
  <2> QED
    BY <1>1, <1>2, <2>1
<1>4. members' \in MemberTable /\ creator' \in CreatorColumn /\ count' \in CountColumn
  BY DEF Inv, Typed
<1>5. Grown(members, creator, count, messages, members', creator', count', messages')
  BY <1>1, <1>3 DEF Grown
<1>6. \A i \in 1..Len(messages') :
          i \in 1..Len(messages) \/ i \in (Len(messages) + 1)..Len(messages')
  BY <1>1, <1>3
<1>7. \A i \in (Len(messages) + 1)..Len(messages') :
          messages'[i].conv = session[s].conv /\ messages'[i].opens = At(s, "first")
  BY <1>3
<1>8. ASSUME NEW x \in Sessions \ {s}, session[x] # None
      PROVE  Undisturbed(session[x], members, messages, members', messages')
  <2> SUFFICES ASSUME session[x].at \in Beginning,
                      NEW i \in (Len(messages) + 1)..Len(messages'),
                      messages'[i].conv = session[x].conv
               PROVE  ~messages'[i].opens /\ session[x].at \notin {"rows", "open"}
    BY DEF Undisturbed
  <2>1. session[x].at \notin {"rows", "open"}
    BY <1>8 DEF LoopFree, Founding, At
  <2>2. ~At(s, "first")
    <3>1. session[x].conv = session[s].conv
      BY <1>7
    <3> QED
      BY <1>8, <3>1 DEF Inv, Alone, Elsewhere, At, Beginning
  <2> QED
    BY <1>7, <2>1, <2>2
<1>9. CompleteConversation'
  <2>1. session[s].at = "first" => Cardinality(members[session[s].conv]) = count[session[s].conv]
    <3>1. {} \in SUBSET session[s].files
      OBVIOUS
    <3> QED
      BY <3>1, RowIsFit DEF Opening
  <2>2. ASSUME NEW c \in Conversations, NEW i \in 1..Len(messages'),
               messages'[i].conv = c, messages'[i].opens
        PROVE  Cardinality(members[c]) = count[c]
    <3>1. CASE i \in 1..Len(messages)
      BY <1>3, <2>2, <3>1 DEF Inv, CompleteConversation
    <3>2. CASE i \in (Len(messages) + 1)..Len(messages')
      BY <1>7, <2>1, <2>2, <3>2 DEF At
    <3> QED
      BY <1>6, <3>1, <3>2
  <2> QED
    BY <2>2 DEF Inv, CompleteConversation
<1>10. Fresh'
  BY DEF Inv, Fresh
<1>11. Now' \in View /\ Now'.members = members /\ Now'.upto = Len(messages')
  BY <1>1, <1>3, <1>4, ConstantsAssumption DEF Now, View
<1> QED
  BY <1>3, <1>4, <1>5, <1>8, <1>9, <1>10, <1>11

LEMMA SendTextKeeps ==
    ASSUME Inv, NEW s \in Sessions, LoopFree(s), SendText(s)
    PROVE  Inv'
<1> DEFINE r == session[s]
           row == Row(s, {})
           rows == [i \in 1..1 |-> row]
           blank == Blank("idle", Now')
           t == Viewing(r, "files", Now')
<1>1. /\ r # None /\ r.at \in {"send", "first"} /\ ~At(s, "clean") /\ Writing(s)
      /\ Len(messages) < MaxMessages /\ r.parent <= Len(messages) + 1
      /\ messages' = Append(messages, row)
      /\ UNCHANGED <<members, creator, count>> /\ UNCHANGED <<listed, expiring, uploads>>
      /\ abandoned' = abandoned
      /\ session' = [session EXCEPT ![s] = IF r.files = {} THEN blank ELSE t]
  BY DEF SendText, At, caches, files_kept, Viewing, Writing
<1>2. /\ row \in Message /\ row.sender = UserOf[s] /\ row.conv = r.conv
      /\ row.parent = r.parent /\ row.files = {} /\ row.opens = At(s, "first")
      /\ r.conv \in Conversations /\ UserOf[s] \in members[r.conv]
      /\ r.at # "first" => Answers(r.conv, r.parent, messages)
      /\ r.at = "first" => Opening(UserOf[s], r, members, creator, count, messages)
  <2>1. {} \in SUBSET r.files
    OBVIOUS
  <2> QED
    BY <1>1, <2>1, RowIsFit
<1> HIDE DEF row
<1>3. /\ messages \in Seq(Message) /\ Len(messages) \in Nat /\ MaxMessages \in Nat
      /\ abandoned \subseteq Files
  BY ConstantsAssumption DEF Inv, Typed
<1>4. rows \in [1..1 -> Message] /\ Len(messages) + 1 <= MaxMessages /\ 1 \in Nat
  BY <1>1, <1>2, <1>3
<1>5. messages' = messages \o rows
  <2>1. rows = <<row>>
    OBVIOUS
  <2> QED
    BY <1>1, <1>2, <1>3, <2>1
<1>6. /\ messages' \in Seq(Message) /\ Len(messages') = Len(messages) + 1
      /\ Len(messages') <= MaxMessages
      /\ members' \in MemberTable /\ creator' \in CreatorColumn /\ count' \in CountColumn
      /\ \A i \in (Len(messages) + 1)..Len(messages') :
           i - Len(messages) \in 1..1 /\ messages'[i] = rows[i - Len(messages)]
      /\ Grown(members, creator, count, messages, members', creator', count', messages')
      /\ \A x \in Sessions \ {s} : session[x] # None =>
           Undisturbed(session[x], members, messages, members', messages')
      /\ Fresh' /\ CompleteConversation'
      /\ Now' \in View /\ Now'.members = members /\ Now'.upto = Len(messages')
  <2>1. \A i \in 1..1 : rows[i].conv = session[s].conv /\ rows[i].opens = At(s, "first")
    BY <1>2
  <2> HIDE DEF rows
  <2> QED
    BY <1>1, <1>4, <1>5, <2>1, Written
<1>7. ASSUME NEW i \in (Len(messages) + 1)..Len(messages'), NEW next
      PROVE  Fit(i, messages, members', messages', next, abandoned')
  <2>1. messages'[i] = row /\ i = Len(messages) + 1
    BY <1>3, <1>6
  <2>2. CASE r.at = "first"
    <3>1. row.opens
      BY <1>1, <1>2, <2>2 DEF At
    <3>2. \A j \in 1..Len(messages) : messages[j].conv = row.conv => ~messages[j].opens
      BY <1>2, <2>2 DEF Opening
    <3> QED
      BY <1>1, <1>2, <1>6, <2>1, <3>1, <3>2 DEF Fit
  <2>3. CASE r.at # "first"
    <3>1. ~row.opens
      BY <1>2, <2>3 DEF At
    <3> QED
      BY <1>1, <1>2, <2>1, <2>3, <3>1 DEF Fit
  <2> QED
    BY <2>2, <2>3
<1>8. Sound(UserOf[s], r, members, creator, count, messages, uploads)
  BY <1>1, SoundOne
<1>9. \A c \in Conversations : Now'.members[c] \subseteq members'[c]
  BY <1>1, <1>6
<1>10. CASE r.files = {}
  <2>1. /\ Sound(UserOf[s], blank, members', creator', count', messages', uploads)
        /\ blank.at \notin Beginning
    <3>1. /\ "idle" \in {"list", "idle", "http"} /\ Now' \in View
          /\ Now'.upto <= Len(messages')
      BY <1>3, <1>6
    <3>2. /\ Sound(UserOf[s], blank, members', creator', count', messages', uploads)
          /\ blank.at \notin Engaged
      BY <1>9, <3>1, BlankIsSound
    <3> QED
      BY <3>2 DEF Engaged
  <2>2. session' = [session EXCEPT ![s] = blank]
    BY <1>1, <1>10
  <2> HIDE DEF blank, rows
  <2> QED
    BY <1>1, <1>3, <1>6, <1>7, <2>1, <2>2, GrownStep
<1>11. CASE r.files # {}
  <2>1. /\ t \in Session /\ t.at = "files" /\ t.view = Now' /\ t.conv = r.conv
        /\ t.parent = r.parent /\ t.names = r.names /\ t.files = r.files
    <3>1. r \in Session /\ "files" \in Stage
      BY <1>8 DEF Sound, Stage
    <3> QED
      BY <1>6, <3>1, ChangedByWriting
  <2>2. session' = [session EXCEPT ![s] = t]
    BY <1>1, <1>11
  <2> HIDE DEF t, rows
  <2>3. r.at = "send"
    BY <1>1, <1>8, <1>11 DEF Sound, Equipped, Carrying
  <2>4. Answers(r.conv, r.parent, messages')
    <3>1. r.parent \in Nat
      BY <1>8, ConstantsAssumption DEF Sound, Session
    <3>2. Answers(r.conv, r.parent, messages)
      BY <1>2, <2>3
    <3>3. r.parent # 0 => messages'[r.parent] = messages[r.parent]
      BY <1>6, <3>1, <3>2 DEF Answers, Grown
    <3> QED
      BY <1>3, <1>6, <3>1, <3>2, <3>3 DEF Answers
  <2>5. StillSo(UserOf[s], t, members', creator', count', messages')
    BY <1>1, <1>2, <1>3, <1>6, <1>9, <2>1, <2>4 DEF StillSo
  <2>6. Equipped(t) /\ InHand(t, UserOf[s], uploads)
    BY <1>1, <1>2, <1>8, <2>1 DEF Sound, Equipped, InHand, Carrying
  <2>7. Sound(UserOf[s], t, members', creator', count', messages', uploads)
    BY <2>1, <2>5, <2>6 DEF Sound
  <2>8. t.at \notin Beginning
    BY <2>1 DEF Beginning
  <2> QED
    BY <1>1, <1>3, <1>6, <1>7, <2>2, <2>7, <2>8, GrownStep
<1> QED
  BY <1>10, <1>11

\* What is parcelled is in hand, and there is an end to it.
LEMMA ParcelsFinite ==
    ASSUME NEW files, IsFiniteSet(files)
    PROVE  Cardinality(Parcels(files)) \in Nat /\ Parcels(files) \subseteq SUBSET files
<1>1. Parcels(files) \in SUBSET (SUBSET files)
  BY DEF Parcels
<1>2. IsFiniteSet(SUBSET files)
  BY FS_SUBSET
<1>3. IsFiniteSet(Parcels(files))
  BY <1>1, <1>2, FS_Subset
<1>4. Cardinality(Parcels(files)) \in Nat
  BY <1>3, FS_CardinalityType
<1> QED
  BY <1>1, <1>4

\* What the rows of attachments are: all of them, or those that a handler which dies writes.
LEMMA SendFilesDoes ==
    ASSUME Inv, NEW s \in Sessions, SendFiles(s)
    PROVE  /\ Writing(s) /\ session[s].at # "first" /\ ~At(s, "clean")
           /\ UNCHANGED <<members, creator, count>> /\ UNCHANGED <<listed, expiring, uploads>>
           /\ abandoned \subseteq abandoned' /\ abandoned' \subseteq Files
           /\ \E k \in Nat \ {0} : \E sent \in [1..k -> SUBSET session[s].files] :
                \E done \in BOOLEAN :
                /\ Len(messages) + k <= MaxMessages
                /\ messages' = messages \o [i \in 1..k |-> Row(s, sent[i])]
                /\ session' = [session EXCEPT ![s] =
                    IF done THEN Viewing(session[s], "clean", Now') ELSE None]
                /\ ~done => \A i \in 1..k : sent[i] \subseteq abandoned'
<1> DEFINE r == session[s]
           parcels == Parcels(r.files)
           all == Cardinality(parcels)
<1>1. /\ Writing(s) /\ r.at # "first" /\ ~At(s, "clean") /\ r # None
      /\ UNCHANGED <<members, creator, count>> /\ UNCHANGED <<listed, expiring, uploads>>
      /\ Len(messages) + all <= MaxMessages
  BY DEF SendFiles, At, Writing
<1>2. Sound(UserOf[s], r, members, creator, count, messages, uploads)
  BY <1>1, SoundOne
<1>3. /\ all \in Nat /\ parcels \subseteq SUBSET r.files /\ r.files \subseteq Files
      /\ Len(messages) \in Nat /\ MaxMessages \in Nat /\ abandoned \subseteq Files
  BY <1>2, ParcelsFinite, ConstantsAssumption DEF Sound, Equipped, Session, Inv, Typed
<1> HIDE DEF parcels
<1>4. PICK order \in [1..all -> parcels] : \E k \in 1..all : \E part \in SUBSET order[k] :
        LET done == k = all /\ part = order[k]
            sent == [i \in 1..k |-> IF i = k THEN part ELSE order[i]]
        IN  /\ messages' = messages \o [i \in 1..k |-> Row(s, sent[i])]
            /\ abandoned' = abandoned \cup IF done THEN {} ELSE UNION {sent[i] : i \in 1..k}
            /\ session' = [session EXCEPT ![s] =
                IF done THEN [@ EXCEPT !.at = "clean", !.view = Now'] ELSE None]
  BY DEF SendFiles, parcels
<1>12. PICK k \in 1..all : \E part \in SUBSET order[k] :
        LET done == k = all /\ part = order[k]
            sent == [i \in 1..k |-> IF i = k THEN part ELSE order[i]]
        IN  /\ messages' = messages \o [i \in 1..k |-> Row(s, sent[i])]
            /\ abandoned' = abandoned \cup IF done THEN {} ELSE UNION {sent[i] : i \in 1..k}
            /\ session' = [session EXCEPT ![s] =
                IF done THEN [@ EXCEPT !.at = "clean", !.view = Now'] ELSE None]
  BY <1>4
<1>13. PICK part \in SUBSET order[k] :
        LET done == k = all /\ part = order[k]
            sent == [i \in 1..k |-> IF i = k THEN part ELSE order[i]]
        IN  /\ messages' = messages \o [i \in 1..k |-> Row(s, sent[i])]
            /\ abandoned' = abandoned \cup IF done THEN {} ELSE UNION {sent[i] : i \in 1..k}
            /\ session' = [session EXCEPT ![s] =
                IF done THEN [@ EXCEPT !.at = "clean", !.view = Now'] ELSE None]
  BY <1>12
<1> DEFINE done == k = all /\ part = order[k]
           sent == [i \in 1..k |-> IF i = k THEN part ELSE order[i]]
           t == IF done THEN Viewing(r, "clean", Now') ELSE None
<1> HIDE DEF all
<1>5. sent \in [1..k -> SUBSET r.files]
  <2>1. \A i \in 1..k : order[i] \in SUBSET r.files
    BY <1>3
  <2>2. part \in SUBSET r.files
    BY <1>3, <2>1
  <2> QED
    BY <2>1, <2>2
<1>6. /\ messages' = messages \o [i \in 1..k |-> Row(s, sent[i])]
      /\ abandoned' = abandoned \cup IF done THEN {} ELSE UNION {sent[i] : i \in 1..k}
      /\ session' = [session EXCEPT ![s] = t]
  BY <1>13 DEF Viewing
<1>7. k \in Nat \ {0} /\ Len(messages) + k <= MaxMessages
  BY <1>1, <1>3 DEF all
<1> HIDE DEF sent, done
<1>8. abandoned \subseteq abandoned' /\ abandoned' \subseteq Files
  <2>1. UNION {sent[i] : i \in 1..k} \subseteq Files
    BY <1>3, <1>5
  <2> QED
    BY <1>3, <1>6, <2>1
<1>9. ~done => \A i \in 1..k : sent[i] \subseteq abandoned'
  BY <1>6
<1>10. done \in BOOLEAN
  BY DEF done
<1> QED
  BY <1>1, <1>5, <1>6, <1>7, <1>8, <1>9, <1>10

LEMMA SendFilesKeeps ==
    ASSUME Inv, NEW s \in Sessions, LoopFree(s), SendFiles(s)
    PROVE  Inv'
<1> DEFINE r == session[s]
           after == Viewing(r, "clean", Now')
<1>1. /\ Writing(s) /\ r # None /\ r.at # "first" /\ ~At(s, "clean") /\ ~At(s, "first")
      /\ UNCHANGED <<members, creator, count>> /\ UNCHANGED <<listed, expiring, uploads>>
      /\ abandoned \subseteq abandoned' /\ abandoned' \subseteq Files
  BY SendFilesDoes DEF Writing, At
<1>2. PICK k \in Nat \ {0} : \E sent \in [1..k -> SUBSET r.files] : \E done \in BOOLEAN :
        /\ Len(messages) + k <= MaxMessages
        /\ messages' = messages \o [i \in 1..k |-> Row(s, sent[i])]
        /\ session' = [session EXCEPT ![s] = IF done THEN after ELSE None]
        /\ ~done => \A i \in 1..k : sent[i] \subseteq abandoned'
  BY SendFilesDoes
<1>15. PICK sent \in [1..k -> SUBSET r.files], done \in BOOLEAN :
        /\ Len(messages) + k <= MaxMessages
        /\ messages' = messages \o [i \in 1..k |-> Row(s, sent[i])]
        /\ session' = [session EXCEPT ![s] = IF done THEN after ELSE None]
        /\ ~done => \A i \in 1..k : sent[i] \subseteq abandoned'
  BY <1>2
<1>3. Sound(UserOf[s], r, members, creator, count, messages, uploads)
  BY <1>1, SoundOne
<1> DEFINE rows == [i \in 1..k |-> Row(s, sent[i])]
           t == IF done THEN after ELSE None
<1>4. ASSUME NEW i \in 1..k
      PROVE  /\ rows[i] \in Message /\ rows[i].sender = UserOf[s] /\ rows[i].conv = r.conv
             /\ rows[i].parent = r.parent /\ rows[i].files = sent[i] /\ sent[i] \subseteq r.files
             /\ rows[i].opens = At(s, "first")
             /\ UserOf[s] \in members[r.conv]
             /\ Answers(r.conv, r.parent, messages)
  <2>1. sent[i] \in SUBSET r.files
    OBVIOUS
  <2>2. rows[i] = Row(s, sent[i])
    OBVIOUS
  <2> QED
    BY <1>1, <2>1, <2>2, RowIsFit
<1>5. rows \in [1..k -> Message] /\ messages' = messages \o rows /\ k \in Nat
  BY <1>15, <1>4
<1>6. session' = [session EXCEPT ![s] = t]
  BY <1>15
<1> HIDE DEF rows
<1>7. /\ messages' \in Seq(Message) /\ Len(messages') = Len(messages) + k
      /\ Len(messages') <= MaxMessages
      /\ members' \in MemberTable /\ creator' \in CreatorColumn /\ count' \in CountColumn
      /\ \A i \in (Len(messages) + 1)..Len(messages') :
           i - Len(messages) \in 1..k /\ messages'[i] = rows[i - Len(messages)]
      /\ Grown(members, creator, count, messages, members', creator', count', messages')
      /\ \A x \in Sessions \ {s} : session[x] # None =>
           Undisturbed(session[x], members, messages, members', messages')
      /\ Fresh' /\ CompleteConversation'
      /\ Now' \in View /\ Now'.members = members /\ Now'.upto = Len(messages')
  BY <1>1, <1>15, <1>4, <1>5, Written
<1>8. /\ after \in Session /\ after.at = "clean" /\ after.view = Now' /\ after.conv = r.conv
      /\ after.parent = r.parent /\ after.names = r.names /\ after.files = r.files
  <2>1. r \in Session /\ "clean" \in Stage
    BY <1>3 DEF Sound, Stage
  <2> QED
    BY <1>7, <2>1, ChangedByWriting
<1> HIDE DEF after
<1>9. after # None
  BY <1>8, SessionAssumption
<1>10. StillSo(UserOf[s], after, members', creator', count', messages')
  <2>1. \A c \in Conversations : Now'.members[c] \subseteq members'[c]
    BY <1>1, <1>7
  <2>2. Len(messages') <= Len(messages')
    BY <1>7
  <2> QED
    BY <1>7, <1>8, <2>1, <2>2 DEF StillSo
<1>11. Equipped(after) /\ InHand(after, UserOf[s], uploads)
  BY <1>1, <1>3, <1>8 DEF Sound, Equipped, InHand, Engaged, Beginning, Carrying, Writing
<1>12. Sound(UserOf[s], after, members', creator', count', messages', uploads)
  BY <1>8, <1>10, <1>11 DEF Sound
<1>13. /\ t # None => Sound(UserOf[s], t, members', creator', count', messages', uploads)
       /\ t # None => t.at \notin Beginning
  BY <1>8, <1>12 DEF Beginning
<1>14. ASSUME NEW i \in (Len(messages) + 1)..Len(messages')
       PROVE  Fit(i, messages, members', messages', t, abandoned')
  <2> DEFINE j == i - Len(messages)
  <2>1. j \in 1..k /\ messages'[i] = rows[j]
    BY <1>7
  <2> HIDE DEF j
  <2>2. /\ rows[j].sender \in members'[rows[j].conv] /\ ~rows[j].opens
        /\ Answers(rows[j].conv, rows[j].parent, messages)
        /\ rows[j].files = sent[j] /\ sent[j] \subseteq r.files
    BY <1>1, <1>4, <2>1
  <2>3. \/ t # None /\ t.at = "clean" /\ rows[j].files \subseteq t.files
        \/ rows[j].files \subseteq abandoned'
    BY <1>15, <1>8, <1>9, <2>1, <2>2
  <2> QED
    BY <2>1, <2>2, <2>3 DEF Fit
<1> HIDE DEF t
<1> QED
  BY <1>1, <1>6, <1>7, <1>13, <1>14, GrownStep

-----------------------------------------------------------------------------
(* Uploads. *)

\* A step that leaves the tables and the lists alone.
LEMMA CacheStep ==
    ASSUME Inv, UNCHANGED <<tables, listed, expiring>>, uploads' \in UploadCache,
           session' \in [Sessions -> Session \cup {None}],
           abandoned' \subseteq Files,
           CachedOnce', SentUploadsGone', Alone',
           \A x \in Sessions : session'[x] # None =>
               Sound(UserOf[x], session'[x], members, creator, count, messages, uploads')
    PROVE  Inv'
<1>1. /\ members' = members /\ creator' = creator /\ count' = count /\ messages' = messages
      /\ listed' = listed /\ expiring' = expiring
  BY DEF tables
<1>2. /\ Informed' /\ Held'
      /\ \A x \in Sessions : session'[x] # None => Equipped(session'[x])
  BY <1>1 DEF Informed, Held, Sound
<1>3. Typed'
  BY <1>1, <1>2 DEF Inv, Typed
<1>4. /\ Fresh' /\ Authored' /\ CompleteConversation' /\ ListedAreMembers'
  BY <1>1 DEF Inv, Fresh, Authored, CompleteConversation, ListedAreMembers
<1>5. RepliesStay'
  BY <1>1 DEF Inv, RepliesStay
<1> QED
  BY <1>2, <1>3, <1>4, <1>5 DEF Inv

\* A session that ends: between two rows, or before the uploads it sent are deleted.
LEMMA CloseKeeps ==
    ASSUME Inv, NEW s \in Sessions, Close(s)
    PROVE  Inv'
<1>1. /\ session' = [session EXCEPT ![s] = None] /\ uploads' = uploads
      /\ UNCHANGED <<tables, listed, expiring>> /\ messages' = messages
      /\ abandoned' = abandoned \cup IF At(s, "clean") THEN session[s].files ELSE {}
      /\ session[s] # None
  BY DEF Close, tables
<1>2. /\ session \in [Sessions -> Session \cup {None}] /\ abandoned \subseteq Files
      /\ uploads \in UploadCache
  BY DEF Inv, Typed
<1>3. /\ session'[s] = None /\ \A x \in Sessions \ {s} : session'[x] = session[x]
      /\ session' \in [Sessions -> Session \cup {None}]
  BY <1>1, <1>2
<1>4. abandoned' \subseteq Files
  <2>1. session[s].files \subseteq Files
    BY <1>1, <1>2 DEF Session
  <2> QED
    BY <1>1, <1>2, <2>1
<1>5. CachedOnce'
  BY <1>1 DEF Inv, CachedOnce
<1>6. SentUploadsGone'
  <2> SUFFICES ASSUME NEW k \in UploadKeys, NEW i \in 1..Len(messages),
                      uploads[k] \in messages[i].files, uploads[k] \notin abandoned'
               PROVE  \E x \in Sessions : At(x, "clean")' /\ uploads[k] \in session'[x].files
    BY <1>1 DEF SentUploadsGone
  <2>1. PICK x \in Sessions : At(x, "clean") /\ uploads[k] \in session[x].files
    BY <1>1 DEF Inv, SentUploadsGone
  <2>2. x # s
    BY <1>1, <2>1
  <2> QED
    BY <1>3, <2>1, <2>2 DEF At
<1>7. Alone'
  BY <1>1, StaysAlone
<1>8. ASSUME NEW x \in Sessions, session'[x] # None
      PROVE  Sound(UserOf[x], session'[x], members, creator, count, messages, uploads')
  <2>1. session'[x] = session[x] /\ session[x] # None
    BY <1>3, <1>8
  <2> QED
    BY <1>1, <2>1, SoundOne
<1> QED
  BY <1>1, <1>2, <1>3, <1>4, <1>5, <1>6, <1>7, <1>8, CacheStep

\* Where an upload waits: for whom, where, and under which name.
LEMMA KeyParts ==
    ASSUME NEW k \in UploadKeys, NEW l \in UploadKeys, k[1] = l[1], k[2] = l[2], k[3] = l[3]
    PROVE  k = l
  BY DEF UploadKeys

\* An entry that is deleted: nothing comes in hand by it.
LEMMA Deleted ==
    ASSUME Inv, NEW e \in UploadKeys, uploads' = [uploads EXCEPT ![e] = None]
    PROVE  /\ uploads' \in UploadCache /\ uploads'[e] = None
           /\ \A k \in UploadKeys \ {e} : uploads'[k] = uploads[k]
           /\ CachedOnce'
           /\ \A r \in Session : \A u : InHand(r, u, uploads) => InHand(r, u, uploads')
<1>1. uploads \in UploadCache
  BY DEF Inv, Typed
<1>2. /\ uploads' \in UploadCache /\ uploads'[e] = None
      /\ \A k \in UploadKeys \ {e} : uploads'[k] = uploads[k]
  BY <1>1 DEF UploadCache
<1>3. CachedOnce'
  BY <1>2 DEF Inv, CachedOnce
<1>4. \A r \in Session : None \notin r.files
  BY ConstantsAssumption DEF Session
<1>5. \A r \in Session : \A u : InHand(r, u, uploads) => InHand(r, u, uploads')
  BY <1>2, <1>4 DEF InHand
<1> QED
  BY <1>2, <1>3, <1>5

LEMMA EntryTyped ==
    ASSUME Inv, NEW s \in Sessions, session[s] # None, session[s].at \in Engaged, NEW n \in Names
    PROVE  /\ Entry(s, n) \in UploadKeys
           /\ Entry(s, n)[1] = UserOf[s] /\ Entry(s, n)[2] = session[s].conv
           /\ Entry(s, n)[3] = n
<1>1. session[s].conv \in Conversations
  BY SoundOne DEF Sound, Equipped
<1> QED
  BY <1>1, UserTyped DEF Entry, UploadKeys

LEMMA ExpireUploadKeeps ==
    ASSUME Inv, NEW e \in UploadKeys, ExpireUpload(e)
    PROVE  Inv'
<1>1. /\ uploads' = [uploads EXCEPT ![e] = None] /\ session' = session
      /\ UNCHANGED <<tables, listed, expiring>> /\ abandoned' = abandoned
  BY DEF ExpireUpload
<1>2. /\ uploads' \in UploadCache /\ uploads'[e] = None
      /\ \A k \in UploadKeys \ {e} : uploads'[k] = uploads[k]
      /\ CachedOnce'
      /\ \A r \in Session : \A u : InHand(r, u, uploads) => InHand(r, u, uploads')
  BY <1>1, Deleted
<1>3. /\ messages' = messages /\ messages \in Seq(Message)
      /\ session' \in [Sessions -> Session \cup {None}]
  BY <1>1 DEF tables, Inv, Typed
<1>4. \A i \in 1..Len(messages) : None \notin messages[i].files
  <2> SUFFICES ASSUME NEW i \in 1..Len(messages)
               PROVE  None \notin messages[i].files
    OBVIOUS
  <2>1. messages[i] \in Message
    BY <1>3
  <2> QED
    BY <2>1, ConstantsAssumption DEF Message
<1>5. SentUploadsGone'
  BY <1>1, <1>2, <1>3, <1>4 DEF Inv, SentUploadsGone, At
<1>6. \A x \in Sessions : session'[x] # None =>
          Sound(UserOf[x], session'[x], members, creator, count, messages, uploads')
  BY <1>1, <1>2, SoundOne DEF Sound
<1>7. Alone' /\ abandoned' \subseteq Files
  BY <1>1 DEF Inv, Typed, Alone, Elsewhere
<1> QED
  BY <1>1, <1>2, <1>3, <1>5, <1>6, <1>7, CacheStep

LEMMA ChangedByDeletion ==
    ASSUME NEW s, NEW n, session[s] \in Session
    PROVE  /\ Forget(s, n) \in Session
           /\ Forget(s, n).names = session[s].names \ {n}
           /\ Forget(s, n).at = session[s].at
           /\ Forget(s, n).conv = session[s].conv
           /\ Forget(s, n).parent = session[s].parent
           /\ Forget(s, n).view = session[s].view
           /\ Forget(s, n).files = session[s].files
  BY DEF Session, Forget

LEMMA DeleteUploadKeeps ==
    ASSUME Inv, NEW s \in Sessions, NEW n \in Names, DeleteUpload(s, n)
    PROVE  Inv'
<1> DEFINE r == session[s]
           e == Entry(s, n)
           less == Forget(s, n)
           t == IF r.names = {n} THEN Idle(s) ELSE less
<1>1. /\ r # None /\ r.at = "clean" /\ n \in r.names
      /\ uploads' = [uploads EXCEPT ![e] = None]
      /\ session' = [session EXCEPT ![s] = t]
      /\ UNCHANGED <<tables, listed, expiring>> /\ abandoned' = abandoned
  BY DEF DeleteUpload, At
<1>2. Sound(UserOf[s], r, members, creator, count, messages, uploads)
  BY <1>1, SoundOne
<1>3. /\ e \in UploadKeys /\ e[1] = UserOf[s] /\ e[2] = r.conv /\ e[3] = n
  BY <1>1, EntryTyped DEF Engaged, Carrying
<1> HIDE DEF e
<1>4. /\ uploads' \in UploadCache /\ uploads'[e] = None
      /\ \A k \in UploadKeys \ {e} : uploads'[k] = uploads[k]
      /\ CachedOnce'
      /\ \A x \in Session : \A u : InHand(x, u, uploads) => InHand(x, u, uploads')
  BY <1>1, <1>3, Deleted
<1>5. /\ less \in Session /\ less.names = r.names \ {n} /\ less.at = "clean"
      /\ less.conv = r.conv /\ less.parent = r.parent /\ less.view = r.view
      /\ less.files = r.files
  BY <1>1, <1>2, ChangedByDeletion DEF Sound
<1>6. Sound(UserOf[s], Idle(s), members, creator, count, messages, uploads')
  <2>1. Sound(UserOf[s], Idle(s), members, creator, count, messages, uploads)
    BY <1>1, IdleIsSound
  <2> QED
    BY <2>1, <1>4 DEF Sound
<1>7. Sound(UserOf[s], less, members, creator, count, messages, uploads')
  <2> HIDE DEF less
  <2>1. StillSo(UserOf[s], less, members, creator, count, messages)
    BY <1>2, <1>5 DEF Sound, StillSo
  <2>2. Equipped(less)
    BY <1>1, <1>2, <1>5 DEF Sound, Equipped, Engaged, Beginning, Carrying
  <2>3. InHand(less, UserOf[s], uploads')
    <3> SUFFICES ASSUME NEW k \in UploadKeys, uploads'[k] \in r.files
                 PROVE  k[1] = UserOf[s] /\ k[2] = r.conv /\ k[3] \in r.names \ {n}
      BY <1>5 DEF InHand
    <3>1. InHand(r, UserOf[s], uploads')
      BY <1>2, <1>4 DEF Sound
    <3>2. k[1] = UserOf[s] /\ k[2] = r.conv /\ k[3] \in r.names
      BY <3>1 DEF InHand
    <3>3. None \notin r.files
      BY <1>2, ConstantsAssumption DEF Sound, Session
    <3>4. k # e
      BY <1>4, <3>3
    <3>5. k[3] # n
      BY <1>3, <3>2, <3>4, KeyParts
    <3> QED
      BY <3>2, <3>5
  <2> QED
    BY <1>5, <2>1, <2>2, <2>3 DEF Sound
<1>8. /\ t \in Session
      /\ Sound(UserOf[s], t, members, creator, count, messages, uploads')
      /\ r.names # {n} => t.at = "clean" /\ t.files = r.files
      /\ t.at \notin Beginning
  <2>1. Idle(s) \in Session /\ Idle(s).at \notin Beginning /\ "clean" \notin Beginning
    BY <1>1, <1>6, IdleIsSound DEF Sound, Beginning
  <2> HIDE DEF less
  <2> QED
    BY <1>5, <1>6, <1>7, <2>1
<1> HIDE DEF t, less
<1>9. /\ session \in [Sessions -> Session \cup {None}]
      /\ messages' = messages /\ messages \in Seq(Message)
  BY <1>1 DEF tables, Inv, Typed
<1>10. /\ session'[s] = t /\ \A x \in Sessions \ {s} : session'[x] = session[x]
       /\ session' \in [Sessions -> Session \cup {None}]
  BY <1>1, <1>8, <1>9
<1>11. SentUploadsGone'
  <2> SUFFICES ASSUME NEW k \in UploadKeys, NEW i \in 1..Len(messages),
                      uploads'[k] \in messages[i].files, uploads'[k] \notin abandoned
               PROVE  \E x \in Sessions : At(x, "clean")' /\ uploads'[k] \in session'[x].files
    BY <1>1, <1>9 DEF SentUploadsGone
  <2>1. messages[i] \in Message
    BY <1>9
  <2>2. None \notin messages[i].files
    BY <2>1, ConstantsAssumption DEF Message
  <2>3. k # e /\ uploads'[k] = uploads[k]
    BY <1>4, <2>2
  <2>4. PICK x \in Sessions : At(x, "clean") /\ uploads[k] \in session[x].files
    BY <2>3 DEF Inv, SentUploadsGone
  <2>5. CASE x # s
    BY <1>10, <2>3, <2>4, <2>5 DEF At
  <2>6. CASE x = s
    <3>1. uploads[k] \in r.files
      BY <2>4, <2>6
    <3>2. k[1] = UserOf[s] /\ k[2] = r.conv /\ k[3] \in r.names
      BY <1>2, <3>1 DEF Sound, InHand
    <3>3. k[3] # n
      BY <1>3, <2>3, <3>2, KeyParts
    <3>4. r.names # {n}
      BY <3>2, <3>3
    <3>5. t.at = "clean" /\ t.files = r.files /\ t # None
      BY <1>8, <3>4, SessionAssumption
    <3> QED
      BY <1>10, <2>3, <3>1, <3>5 DEF At
  <2> QED
    BY <2>5, <2>6
<1>12. ASSUME NEW x \in Sessions, session'[x] # None
       PROVE  Sound(UserOf[x], session'[x], members, creator, count, messages, uploads')
  <2>1. CASE x = s
    BY <1>8, <1>10, <2>1
  <2>2. CASE x # s
    <3>1. session'[x] = session[x] /\ session[x] # None
      BY <1>10, <1>12, <2>2
    <3> QED
      BY <1>4, <3>1, SoundOne DEF Sound
  <2> QED
    BY <2>1, <2>2
<1>13. Alone' /\ abandoned' \subseteq Files
  <2>1. Alone'
    BY <1>1, <1>8, StaysAlone
  <2> QED
    BY <1>1, <2>1 DEF Inv, Typed
<1> QED
  BY <1>1, <1>4, <1>10, <1>11, <1>12, <1>13, CacheStep

LEMMA UploadAttachmentKeeps ==
    ASSUME Inv, NEW s \in Sessions, NEW c \in Conversations, NEW n \in Names, NEW file \in Files,
           UploadAttachment(s, c, n, file)
    PROVE  Inv'
<1> DEFINE e == <<UserOf[s], c, n>>
<1>1. /\ ~At(s, "clean") /\ session[s] # None /\ file \notin Used
      /\ uploads' = [uploads EXCEPT ![e] = file]
      /\ session' = [session EXCEPT ![s] = None]
      /\ UNCHANGED <<tables, listed, expiring>> /\ abandoned' = abandoned
  BY DEF UploadAttachment, At
<1>2. e \in UploadKeys
  BY UserTyped DEF UploadKeys
<1> HIDE DEF e
<1>3. /\ uploads \in UploadCache /\ session \in [Sessions -> Session \cup {None}]
      /\ messages' = messages
  BY <1>1 DEF tables, Inv, Typed
<1>4. /\ uploads' \in UploadCache /\ uploads'[e] = file
      /\ \A k \in UploadKeys \ {e} : uploads'[k] = uploads[k]
  BY <1>1, <1>2, <1>3 DEF UploadCache
<1>5. /\ \A i \in 1..Len(messages) : file \notin messages[i].files
      /\ \A x \in Sessions : session[x] # None => file \notin session[x].files
      /\ \A k \in UploadKeys : uploads[k] # file
  BY <1>1 DEF Used
<1>6. /\ session'[s] = None /\ \A x \in Sessions \ {s} : session'[x] = session[x]
      /\ session' \in [Sessions -> Session \cup {None}]
  BY <1>1, <1>3
<1>7. CachedOnce'
  BY <1>4, <1>5 DEF Inv, CachedOnce
<1>8. SentUploadsGone'
  <2> SUFFICES ASSUME NEW k \in UploadKeys, NEW i \in 1..Len(messages),
                      uploads'[k] \in messages[i].files, uploads'[k] \notin abandoned
               PROVE  \E x \in Sessions : At(x, "clean")' /\ uploads'[k] \in session'[x].files
    BY <1>1, <1>3 DEF SentUploadsGone
  <2>1. uploads'[k] = uploads[k]
    BY <1>4, <1>5
  <2>2. PICK x \in Sessions : At(x, "clean") /\ uploads[k] \in session[x].files
    BY <2>1 DEF Inv, SentUploadsGone
  <2>3. x # s
    BY <1>1, <2>2
  <2> QED
    BY <1>6, <2>1, <2>2, <2>3 DEF At
<1>9. ASSUME NEW x \in Sessions, session'[x] # None
      PROVE  Sound(UserOf[x], session'[x], members, creator, count, messages, uploads')
  <2>1. session'[x] = session[x] /\ session[x] # None
    BY <1>6, <1>9
  <2>2. Sound(UserOf[x], session[x], members, creator, count, messages, uploads)
    BY <2>1, SoundOne
  <2>3. InHand(session[x], UserOf[x], uploads')
    BY <1>4, <1>5, <2>1, <2>2 DEF Sound, InHand
  <2> QED
    BY <2>1, <2>2, <2>3 DEF Sound
<1>10. Alone' /\ abandoned' \subseteq Files
  <2>1. Alone'
    BY <1>1, StaysAlone
  <2> QED
    BY <1>1, <2>1 DEF Inv, Typed
<1> QED
  BY <1>1, <1>4, <1>6, <1>7, <1>8, <1>9, <1>10, CacheStep

LEMMA ExpireListKeeps ==
    ASSUME Inv, NEW u \in Accounts, ExpireList(u)
    PROVE  Inv'
<1>1. /\ listed' = [listed EXCEPT ![u] = {}] /\ expiring' = expiring \ {u}
      /\ uploads' = uploads /\ abandoned' = abandoned /\ session' = session
      /\ members' = members /\ creator' = creator /\ count' = count /\ messages' = messages
  BY DEF ExpireList, tables, files_kept
<1>2. listed \in [Accounts -> SUBSET Conversations]
  BY DEF Inv, Typed
<1>3. /\ listed' \in [Accounts -> SUBSET Conversations]
      /\ listed'[u] = {} /\ \A w \in Accounts \ {u} : listed'[w] = listed[w]
  BY <1>1, <1>2
<1>4. expiring' \subseteq {w \in Accounts : listed'[w] # {}}
  BY <1>1, <1>3 DEF Inv, Typed
<1>5. Typed'
  BY <1>1, <1>3, <1>4 DEF Inv, Typed
<1>6. ListedAreMembers'
  BY <1>1, <1>3 DEF Inv, ListedAreMembers
<1>7. Fresh' /\ Authored' /\ CompleteConversation' /\ CachedOnce'
  BY <1>1 DEF Inv, Fresh, Authored, CompleteConversation, CachedOnce
<1>8. Informed' /\ Held' /\ Alone'
  BY <1>1 DEF Inv, Informed, Held, Alone, Elsewhere
<1>9. RepliesStay' /\ SentUploadsGone'
  BY <1>1 DEF Inv, RepliesStay, SentUploadsGone, At
<1> QED
  BY <1>5, <1>6, <1>7, <1>8, <1>9 DEF Inv

-----------------------------------------------------------------------------
(* The invariant. *)

LEMMA InitEstablishes == Init => Inv
<1> SUFFICES ASSUME Init PROVE Inv
  OBVIOUS
<1>1. Typed
  <2>1. messages \in Seq(Message) /\ Len(messages) = 0
    BY DEF Init
  <2>2. Cardinality(Accounts) \in Nat
    BY ConstantsAssumption, FS_CardinalityType
  <2>3. members \in MemberTable /\ creator \in CreatorColumn /\ count \in CountColumn
    BY <2>2 DEF Init, MemberTable, CreatorColumn, CountColumn
  <2>4. /\ listed \in [Accounts -> SUBSET Conversations]
        /\ expiring \subseteq {u \in Accounts : listed[u] # {}}
        /\ uploads \in UploadCache /\ abandoned \subseteq Files
        /\ session \in [Sessions -> Session \cup {None}]
        /\ \A s \in Sessions : session[s] = None
    BY DEF Init, UploadCache
  <2> QED
    BY <2>1, <2>3, <2>4, ConstantsAssumption DEF Typed
<1>2. Len(messages) = 0
  BY DEF Init
<1>3. Fresh /\ Authored /\ RepliesStay /\ SentUploadsGone
  BY <1>2 DEF Init, Fresh, Authored, RepliesStay, SentUploadsGone
<1>4. Informed /\ Held /\ Alone /\ CachedOnce
  BY DEF Init, Informed, Held, Alone, CachedOnce
<1>5. ListedAreMembers /\ CompleteConversation
  BY ConstantsAssumption DEF Init, ListedAreMembers, CompleteConversation
<1> QED
  BY <1>1, <1>3, <1>4, <1>5 DEF Inv

LEMMA HandleKeeps ==
    ASSUME Inv, NEW s \in Sessions, LoopFree(s), Handle(s)
    PROVE  Inv'
<1>1. CASE Authenticate(s, "list")
  BY <1>1, AuthenticateKeeps
<1>2. CASE Close(s)
  BY <1>2, CloseKeeps
<1>3. CASE ReadList(s) \/ FilledList(s)
  BY <1>3, ReadListKeeps, FilledListKeeps
<1>4. CASE \E c \in Conversations : FillList(s, c)
  BY <1>4, FillListKeeps
<1>5. CASE \E c \in Conversations : \E others \in SUBSET Accounts : CreateByRequest(s, c, others)
  BY <1>5, CreateByRequestKeeps
<1>6. CASE \E c \in Conversations : \E others \in SUBSET Accounts :
             \E parent \in 0..MaxMessages : CreateByMessage(s, c, others, parent)
  BY <1>6, CreateByMessageKeeps
<1>7. CASE \E u \in Accounts : AddMember(s, u) \/ Announce(s, u)
  BY <1>7, AddMemberKeeps, AnnounceKeeps
<1>8. CASE Announced(s)
  BY <1>8, AnnouncedKeeps
<1>9. CASE \E c \in Conversations : \E parent \in 0..MaxMessages :
             \E names \in SUBSET Names : ReceiveMessage(s, c, parent, names)
  BY <1>9, ReceiveMessageKeeps
<1>10. CASE \E n \in Names : CheckAttachment(s, n)
  BY <1>10, CheckAttachmentKeeps
<1>11. CASE CheckedAttachments(s) \/ CheckMember(s)
  BY <1>11, CheckedAttachmentsKeeps, CheckMemberKeeps
<1>12. CASE SendText(s) \/ SendFiles(s)
  BY <1>12, SendTextKeeps, SendFilesKeeps
<1>13. CASE \E n \in Names : DeleteUpload(s, n)
  BY <1>13, DeleteUploadKeeps
<1>14. CASE \E c \in Conversations : \E n \in Names : \E file \in Files :
              UploadAttachment(s, c, n, file)
  BY <1>14, UploadAttachmentKeeps
<1> QED
  BY <1>1, <1>2, <1>3, <1>4, <1>5, <1>6, <1>7, <1>8, <1>9, <1>10, <1>11, <1>12, <1>13, <1>14
     DEF Handle

LEMMA StepKeeps ==
    ASSUME Inv, NEW s \in Sessions, Step(s)
    PROVE  Inv'
  BY AuthenticateKeeps, HandleKeeps DEF Step

LEMMA NextKeeps == Inv /\ [Next]_vars => Inv'
<1> SUFFICES ASSUME Inv, [Next]_vars PROVE Inv'
  OBVIOUS
<1>1. CASE \E s \in Sessions : Step(s)
  BY <1>1, StepKeeps
<1>2. CASE \E u \in Accounts : ExpireList(u)
  BY <1>2, ExpireListKeeps
<1>3. CASE \E k \in UploadKeys : ExpireUpload(k)
  BY <1>3, ExpireUploadKeeps
<1>4. CASE UNCHANGED vars
  BY <1>4 DEF vars, Inv, Typed, Fresh, Authored, Informed, Alone, Elsewhere, CachedOnce, Held,
              ListedAreMembers, CompleteConversation, RepliesStay, SentUploadsGone, At
<1> QED
  BY <1>1, <1>2, <1>3, <1>4 DEF Next

LEMMA Invariance == Spec => []Inv
  BY InitEstablishes, NextKeeps, PTL DEF Spec

-----------------------------------------------------------------------------
(* What it is for. *)

\* Every variable has its type: no session is anywhere but at a stage it has, and
\* counts and messages stay within their bounds.
THEOREM ConversationTypes == Spec => []TypeOK
  BY Invariance, TypedIsTypeOK, PTL DEF Inv

\* However old the view is that a list is filled from, and whoever appends to it, it
\* names only conversations its owner is a member of.
THEOREM ListsNameOwn == Spec => []ListedAreMembers
  BY Invariance, PTL DEF Inv

\* Whoever finds the creator of a conversation in it, or the message it was made for, finds
\* all its members, wherever the handler that commits them one by one stands or died.
THEOREM FoundWhole == Spec => []CompleteConversation
  BY Invariance, PTL DEF Inv

\* A message answers an older one of its conversation, however old the view is that its
\* parent was found in; only the one that a conversation was made for is not looked at.
THEOREM AnswersStay == Spec => []RepliesStay
  BY Invariance, PTL DEF Inv

\* An upload is sent from the cache once: it is deleted, or about to be, unless a handler
\* that sent it ended before it came to that.
THEOREM SentOnce == Spec => []SentUploadsGone
  BY Invariance, PTL DEF Inv

\* The log of the abstract specification, of messages that are given.
Shown(log) == [i \in 1..Len(log) |-> [conv |-> log[i].conv, sender |-> log[i].sender]]

LEMMA ShownIsLong ==
    ASSUME NEW log, Len(log) \in Nat
    PROVE  /\ Len(Shown(log)) = Len(log)
           /\ \A i \in 1..Len(log) :
                Shown(log)[i] = [conv |-> log[i].conv, sender |-> log[i].sender]
<1>1. DOMAIN Shown(log) = 1..Len(log)
  BY DEF Shown
<1>2. Shown(log) \in Seq({[conv |-> log[i].conv, sender |-> log[i].sender] : i \in 1..Len(log)})
  BY DEF Shown
<1>3. Len(Shown(log)) = Len(log)
  BY <1>1, <1>2, LenProperties
<1> QED
  BY <1>3 DEF Shown

\* A step of the conversations that writes nothing the abstract one shows.
LEMMA LogStutters ==
    ASSUME UNCHANGED <<members, messages>>
    PROVE  UNCHANGED Log!vars
  BY DEF Log!vars

LEMMA LogJoins ==
    ASSUME Inv, NEW s \in Sessions, NEW u \in Accounts, AddMember(s, u)
    PROVE  Log!Next
<1> DEFINE c == session[s].conv
<1>1. /\ c \in Conversations /\ messages' = messages
      /\ members' = [members EXCEPT ![c] = @ \cup {u}]
      /\ \A i \in 1..Len(messages) : messages[i].conv # c
  BY AddMemberDoes DEF AddMember, Joining
<1>2. Len(messages) \in Nat
  BY DEF Inv, Typed
<1>3. \A i \in 1..Len(Shown(messages)) : Shown(messages)[i].conv # c
  <2>1. /\ Len(Shown(messages)) = Len(messages)
        /\ \A i \in 1..Len(messages) :
             Shown(messages)[i] = [conv |-> messages[i].conv, sender |-> messages[i].sender]
    BY <1>2, ShownIsLong
  <2> HIDE DEF c
  <2> SUFFICES ASSUME NEW i \in 1..Len(messages) PROVE Shown(messages)[i].conv # c
    BY <2>1
  <2>2. Shown(messages)[i] = [conv |-> messages[i].conv, sender |-> messages[i].sender]
    BY <2>1
  <2>3. Shown(messages)[i].conv = messages[i].conv
    BY <2>2
  <2> QED
    BY <1>1, <2>3
<1>4. Log!Join(c, u)
  BY <1>1, <1>3 DEF Log!Join, Shown
<1> QED
  BY <1>1, <1>4 DEF Log!Next

LEMMA LogPosts ==
    ASSUME Inv, NEW s \in Sessions, Writing(s), LoopFree(s),
           NEW N \in Nat \ {0}, NEW rows \in [1..N -> Message],
           \A i \in 1..N : /\ rows[i].conv = session[s].conv /\ rows[i].sender = UserOf[s]
                           /\ rows[i].opens = At(s, "first"),
           messages' = messages \o rows, UNCHANGED <<members, creator, count>>,
           Len(messages) + N <= MaxMessages
    PROVE  Log!Next
<1> DEFINE c == session[s].conv
           u == UserOf[s]
<1>1. c \in Conversations /\ u \in members[c] /\ u \in Accounts
  <2>1. {} \in SUBSET session[s].files
    OBVIOUS
  <2> QED
    BY <2>1, RowIsFit, UserTyped
<1>2. /\ Len(messages') = Len(messages) + N /\ Len(messages) \in Nat
      /\ \A i \in (Len(messages) + 1)..Len(messages') :
           i - Len(messages) \in 1..N /\ messages'[i] = rows[i - Len(messages)]
      /\ \A i \in 1..Len(messages) : messages'[i] = messages[i]
  BY Written DEF Inv, Typed, Grown
<1>3. /\ Len(Shown(messages)) = Len(messages) /\ Len(Shown(messages')) = Len(messages')
      /\ \A i \in 1..Len(messages) :
           Shown(messages)[i] = [conv |-> messages[i].conv, sender |-> messages[i].sender]
      /\ \A i \in 1..Len(messages') :
           Shown(messages')[i] = [conv |-> messages'[i].conv, sender |-> messages'[i].sender]
  <2>1. Len(messages) \in Nat /\ Len(messages') \in Nat
    BY <1>2
  <2>2. /\ Len(Shown(messages)) = Len(messages)
        /\ \A i \in 1..Len(messages) :
             Shown(messages)[i] = [conv |-> messages[i].conv, sender |-> messages[i].sender]
    BY <2>1, ShownIsLong
  <2>3. /\ Len(Shown(messages')) = Len(messages')
        /\ \A i \in 1..Len(messages') :
             Shown(messages')[i] = [conv |-> messages'[i].conv, sender |-> messages'[i].sender]
    BY <2>1, ShownIsLong
  <2> QED
    BY <2>2, <2>3
<1>4. ASSUME NEW i \in 1..Len(Shown(messages'))
      PROVE  Shown(messages')[i] = IF i <= Len(Shown(messages)) THEN Shown(messages)[i]
                                   ELSE [conv |-> c, sender |-> u]
  <2>1. CASE i \in 1..Len(messages)
    BY <1>2, <1>3, <2>1
  <2>2. CASE i \in (Len(messages) + 1)..Len(messages')
    <3>1. messages'[i].conv = c /\ messages'[i].sender = u
      BY <1>2, <2>2
    <3> QED
      BY <1>2, <1>3, <2>2, <3>1
  <2> QED
    BY <1>2, <1>3, <2>1, <2>2
<1>5. Len(Shown(messages')) > Len(Shown(messages))
  BY <1>2, <1>3
<1>6. Log!Post(c, u)
  BY <1>1, <1>4, <1>5 DEF Log!Post, Shown
<1> QED
  BY <1>1, <1>6 DEF Log!Next

LEMMA LogText ==
    ASSUME Inv, NEW s \in Sessions, LoopFree(s), SendText(s)
    PROVE  Log!Next
<1> DEFINE row == Row(s, {})
           rows == [i \in 1..1 |-> row]
<1>1. /\ Writing(s)
      /\ messages' = Append(messages, row) /\ UNCHANGED <<members, creator, count>>
      /\ Len(messages) < MaxMessages /\ Len(messages) \in Nat /\ MaxMessages \in Nat
      /\ messages \in Seq(Message)
  BY ConstantsAssumption DEF SendText, At, Writing, Inv, Typed
<1>2. /\ row \in Message /\ row.conv = session[s].conv /\ row.sender = UserOf[s]
      /\ row.opens = At(s, "first")
  <2>1. {} \in SUBSET session[s].files
    OBVIOUS
  <2> QED
    BY <1>1, <2>1, RowIsFit
<1> HIDE DEF row
<1>3. messages' = messages \o rows
  <2>1. rows = <<row>>
    OBVIOUS
  <2> QED
    BY <1>1, <1>2, <2>1
<1>4. /\ rows \in [1..1 -> Message] /\ 1 \in Nat \ {0} /\ Len(messages) + 1 <= MaxMessages
      /\ \A i \in 1..1 : /\ rows[i].conv = session[s].conv /\ rows[i].sender = UserOf[s]
                         /\ rows[i].opens = At(s, "first")
  BY <1>1, <1>2
<1> HIDE DEF rows
<1> QED
  BY <1>1, <1>3, <1>4, LogPosts

LEMMA LogFiles ==
    ASSUME Inv, NEW s \in Sessions, LoopFree(s), SendFiles(s)
    PROVE  Log!Next
<1>1. Writing(s) /\ UNCHANGED <<members, creator, count>>
  BY SendFilesDoes
<1>2. PICK k \in Nat \ {0} : \E sent \in [1..k -> SUBSET session[s].files] :
        /\ Len(messages) + k <= MaxMessages
        /\ messages' = messages \o [i \in 1..k |-> Row(s, sent[i])]
  BY SendFilesDoes
<1>3. PICK sent \in [1..k -> SUBSET session[s].files] :
        /\ Len(messages) + k <= MaxMessages
        /\ messages' = messages \o [i \in 1..k |-> Row(s, sent[i])]
  BY <1>2
<1> DEFINE rows == [i \in 1..k |-> Row(s, sent[i])]
<1>4. ASSUME NEW i \in 1..k
      PROVE  /\ rows[i] \in Message
             /\ rows[i].conv = session[s].conv /\ rows[i].sender = UserOf[s]
             /\ rows[i].opens = At(s, "first")
  <2>1. sent[i] \in SUBSET session[s].files /\ rows[i] = Row(s, sent[i])
    OBVIOUS
  <2> QED
    BY <1>1, <2>1, RowIsFit
<1>5. rows \in [1..k -> Message] /\ messages' = messages \o rows
  BY <1>3, <1>4
<1> HIDE DEF rows
<1> QED
  BY <1>1, <1>3, <1>4, <1>5, LogPosts

LEMMA LogStep ==
    ASSUME Inv, NEW s \in Sessions, Step(s)
    PROVE  Log!Next \/ UNCHANGED Log!vars
<1>1. CASE LoopFree(s) /\ \E u \in Accounts : AddMember(s, u)
  BY <1>1, LogJoins
<1>2. CASE LoopFree(s) /\ SendText(s)
  BY <1>2, LogText
<1>3. CASE LoopFree(s) /\ SendFiles(s)
  BY <1>3, LogFiles
<1>4. CASE UNCHANGED <<members, messages>>
  BY <1>4, LogStutters
<1>5. CASE UNCHANGED tables
  BY <1>5, LogStutters DEF tables
<1> QED
  BY <1>1, <1>2, <1>3, <1>4, <1>5
     DEF Step, Handle, Authenticate, Close, ReadList, FilledList, FillList, CreateByRequest,
         CreateByMessage, CreateRow, Announce, Announced, ReceiveMessage, CheckAttachment,
         CheckedAttachments, CheckMember, DeleteUpload, UploadAttachment

\* The chat keeps what ConversationLog promises, whatever its caches, old views and
\* suspended handlers do: nobody leaves a conversation or joins one in which something was
\* said, and a message is by a member and stays as it was written.
THEOREM ChatKeepsLog == Spec => LogSpec
<1>1. Init => Log!Init
  <2> SUFFICES ASSUME Init PROVE Log!Init
    OBVIOUS
  <2>1. messages = <<>> /\ Len(messages) = 0
    BY DEF Init
  <2>2. Shown(messages) = <<>>
    BY <2>1 DEF Shown
  <2> QED
    BY <2>2 DEF Init, Log!Init, Shown
<1>2. Inv /\ [Next]_vars => [Log!Next]_(Log!vars)
  <2> SUFFICES ASSUME Inv, [Next]_vars
               PROVE  Log!Next \/ UNCHANGED Log!vars
    OBVIOUS
  <2>1. CASE \E s \in Sessions : Step(s)
    BY <2>1, LogStep
  <2>2. CASE UNCHANGED <<members, messages>>
    BY <2>2, LogStutters
  <2> QED
    BY <2>1, <2>2 DEF Next, ExpireList, ExpireUpload, tables, vars
<1> QED
  BY <1>1, <1>2, Invariance, PTL DEF Spec, LogSpec, Log!Spec
=============================================================================
