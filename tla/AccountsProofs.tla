--------------------------- MODULE AccountsProofs ---------------------------
(***************************************************************************)
(* Proofs about Accounts, for any accounts, addresses, calls and bounds,   *)
(* with and without handlers that die.                                     *)
(***************************************************************************)
EXTENDS Accounts, TLAPS

Managers == {"business", "admin", "superuser"}
Candidates == {"user", "social_network"}

\* The rows an id has are those of its role, and a row comes after the rows it is
\* committed after; an id without a role has none.
RowsFit ==
    \A id \in All :
        /\ \A t \in Tables : id \in rows[t] => id \in rows["account"] /\ role[id] # None
        /\ id \in rows["manager"] => role[id] \in Managers
        /\ id \in rows["business"] => id \in rows["manager"] /\ role[id] = "business"
        /\ id \in rows["admin"] => role[id] \in {"admin", "superuser"}
        /\ id \in rows["manager"] /\ role[id] \in {"admin", "superuser"} => id \in rows["admin"]
        /\ id \in rows["user"] => role[id] \in Candidates
        /\ id \in rows["social_network"] => id \in rows["user"]
        /\ role[id] = "business" => id \in Ids

\* Who was ever signed in was whole then: it still is as far as it is there.
SignedIn(id) ==
    /\ role[id] # None
    /\ role[id] = "business" /\ id \in rows["manager"] => id \in rows["business"]
    /\ role[id] = "user" /\ id \in rows["account"] => id \in rows["user"]
    /\ role[id] = "social_network" /\ id \in rows["account"] => id \in rows["social_network"]
EverSigned == \A t \in tokens : SignedIn(t.id)

\* Two managers do not share an address, and a business has one; a code is of one of them.
OwnAddress ==
    /\ \A i, j \in rows["manager"] : email[i] = email[j] /\ email[i] # None => i = j
    /\ \A id \in rows["manager"] : role[id] = "business" => email[id] # None
    /\ \A k \in codes : k.id \in rows["manager"]

\* A call that was let through came with a token that was signed; one for a code is of a
\* business, and no other account whose code it sees has its address.
LetThrough ==
    \A c \in Calls : call[c].at = "granted" =>
        /\ call[c].token \in tokens
        /\ call[c].does \in {"send_verify_code", "verify_code"} => role[Caller(c)] = "business"
        /\ call[c].does = "verify_code" =>
            \A k \in call[c].codes :
                role[k.id] # None /\ (email[k.id] = email[Caller(c)] => k.id = Caller(c))

Inv == TypeOK /\ RowsFit /\ EverSigned /\ OwnAddress /\ LetThrough

-----------------------------------------------------------------------------
(* The routes and the rows. *)

\* A guarded route has an effect the model knows, and one for codes lets only a
\* business in.
LEMMA GuardedFits ==
    ASSUME NEW r \in Guarded
    PROVE  /\ r.needs \in Dependencies /\ r.does \in Effects
           /\ r.does \in {"send_verify_code", "verify_code"} => r.needs = "business"
<1>1. PICK router \in DOMAIN Route : \E route \in DOMAIN Route[router] :
        r = [needs |-> Route[router][route], does |-> Does(router, route)]
        /\ r.needs \in Dependencies
  BY DEF Guarded
<1>2. PICK route \in DOMAIN Route[router] :
        r = [needs |-> Route[router][route], does |-> Does(router, route)]
        /\ r.needs \in Dependencies
  BY <1>1
<1>3. r.needs = Route[router][route] /\ r.does = Does(router, route)
  BY <1>2
<1>4. CASE router = "verify"
  <2>1. Route["verify"] = Verify
    BY DEF Route
  <2>2. /\ DOMAIN Verify = {"send_verify_code", "verify_code"}
        /\ \A n \in {"send_verify_code", "verify_code"} : Verify[n] = "business"
    BY DEF Verify, OnlyFor
  <2>3. Does("verify", route) = route
    BY DEF Does
  <2> QED
    BY <1>2, <1>3, <1>4, <2>1, <2>2, <2>3 DEF Effects
<1>5. CASE router # "verify"
  <2>1. Does(router, route) \in Effects \ {"send_verify_code", "verify_code"}
    BY <1>5 DEF Does, Effects
  <2> QED
    BY <1>2, <1>3, <2>1
<1> QED
  BY <1>4, <1>5

\* What the rows of a role are, one after the other.
LEMMA RowsOfRole ==
    /\ Len(RowsOf("business")) = 3 /\ DOMAIN RowsOf("business") = 1..3
    /\ RowsOf("business")[1] = "account" /\ RowsOf("business")[2] = "manager"
    /\ RowsOf("business")[3] = "business"
    /\ Len(RowsOf("user")) = 2 /\ DOMAIN RowsOf("user") = 1..2
    /\ RowsOf("user")[1] = "account" /\ RowsOf("user")[2] = "user"
    /\ Len(RowsOf("social_network")) = 3 /\ DOMAIN RowsOf("social_network") = 1..3
    /\ RowsOf("social_network")[1] = "account" /\ RowsOf("social_network")[2] = "user"
    /\ RowsOf("social_network")[3] = "social_network"
<1>1. RowsOf("business") = BusinessRows
  BY DEF RowsOf
<1>2. RowsOf("user") = UserRows
  BY DEF RowsOf
<1>3. RowsOf("social_network") = GoogleRows
  BY DEF RowsOf
<1> QED
  BY <1>1, <1>2, <1>3 DEF BusinessRows, UserRows, GoogleRows

LEMMA RowsOfAdmin ==
    ASSUME NEW r \in {"admin", "superuser"}
    PROVE  /\ DOMAIN RowsOf(r) = 1..3
           /\ RowsOf(r)[1] = "account" /\ RowsOf(r)[2] = "manager" /\ RowsOf(r)[3] = "admin"
<1>1. RowsOf(r) = AdminRows
  BY DEF RowsOf
<1> QED
  BY <1>1 DEF AdminRows

\* The first n rows of a new account, table by table...
ByTable(id, r, n) ==
    /\ rows'["account"] = rows["account"] \cup {id}
    /\ rows'["manager"] = IF r = "business" /\ n >= 2 THEN rows["manager"] \cup {id}
                          ELSE rows["manager"]
    /\ rows'["business"] = IF r = "business" /\ n = 3 THEN rows["business"] \cup {id}
                           ELSE rows["business"]
    /\ rows'["admin"] = rows["admin"]
    /\ rows'["user"] = IF r # "business" /\ n >= 2 THEN rows["user"] \cup {id}
                       ELSE rows["user"]
    /\ rows'["social_network"] = IF r = "social_network" /\ n = 3
                                 THEN rows["social_network"] \cup {id}
                                 ELSE rows["social_network"]

\* ...and its columns: nobody else's change.
ByColumn(id, r, a, n) ==
    /\ rows' \in RowsTable
    /\ role' \in AccountColumns /\ role'[id] = r
    /\ \A x \in All \ {id} : role'[x] = role[x]
    /\ email' \in EmailColumn
    /\ \A x \in All \ {id} : email'[x] = email[x]
    /\ n >= 2 => email'[id] = a

LEMMA WrittenRows ==
    ASSUME TypeOK, NEW id \in Ids, NEW r \in {"business", "user", "social_network"},
           NEW a \in Addresses, NEW n \in 1..Len(RowsOf(r)), Written(id, r, a, n)
    PROVE  n \in 1..3 /\ ByTable(id, r, n) /\ ByColumn(id, r, a, n)
<1>1. n \in 1..3 /\ (r = "user" => n <= 2)
  <2>1. n \in 1..Len(RowsOf(r))
    OBVIOUS
  <2>2. r = "user" => Len(RowsOf(r)) = 2
    BY RowsOfRole
  <2>3. r # "user" => Len(RowsOf(r)) = 3
    BY RowsOfRole
  <2>4. CASE r = "user"
    <3>1. n \in 1..2
      BY <2>1, <2>2, <2>4
    <3> QED
      BY <3>1
  <2>5. CASE r # "user"
    <3>1. n \in 1..3
      BY <2>1, <2>3, <2>5
    <3> QED
      BY <3>1, <2>5
  <2> QED
    BY <2>4, <2>5
<1>2. \A t \in Tables : rows'[t] = IF \E i \in 1..n : RowsOf(r)[i] = t
                                   THEN rows[t] \cup {id} ELSE rows[t]
  BY DEF Written
<1>3. /\ "account" \in Tables /\ "manager" \in Tables /\ "business" \in Tables
      /\ "admin" \in Tables /\ "user" \in Tables /\ "social_network" \in Tables
  BY DEF Tables
<1>4. ASSUME r = "business" PROVE ByTable(id, r, n)
  <2>1. /\ \E i \in 1..n : RowsOf(r)[i] = "account"
        /\ (\E i \in 1..n : RowsOf(r)[i] = "manager") <=> n >= 2
        /\ (\E i \in 1..n : RowsOf(r)[i] = "business") <=> n = 3
        /\ ~(\E i \in 1..n : RowsOf(r)[i] = "admin")
        /\ ~(\E i \in 1..n : RowsOf(r)[i] = "user")
        /\ ~(\E i \in 1..n : RowsOf(r)[i] = "social_network")
    BY <1>1, <1>4, RowsOfRole
  <2> QED
    BY <1>1, <1>2, <1>3, <1>4, <2>1 DEF ByTable
<1>5. ASSUME r = "user" PROVE ByTable(id, r, n)
  <2>1. /\ \E i \in 1..n : RowsOf(r)[i] = "account"
        /\ (\E i \in 1..n : RowsOf(r)[i] = "user") <=> n >= 2
        /\ ~(\E i \in 1..n : RowsOf(r)[i] = "admin")
        /\ ~(\E i \in 1..n : RowsOf(r)[i] = "manager")
        /\ ~(\E i \in 1..n : RowsOf(r)[i] = "business")
        /\ ~(\E i \in 1..n : RowsOf(r)[i] = "social_network")
    BY <1>1, <1>5, RowsOfRole
  <2> QED
    BY <1>1, <1>2, <1>3, <1>5, <2>1 DEF ByTable
<1>6. ASSUME r = "social_network" PROVE ByTable(id, r, n)
  <2>1. /\ \E i \in 1..n : RowsOf(r)[i] = "account"
        /\ (\E i \in 1..n : RowsOf(r)[i] = "user") <=> n >= 2
        /\ (\E i \in 1..n : RowsOf(r)[i] = "social_network") <=> n = 3
        /\ ~(\E i \in 1..n : RowsOf(r)[i] = "admin")
        /\ ~(\E i \in 1..n : RowsOf(r)[i] = "manager")
        /\ ~(\E i \in 1..n : RowsOf(r)[i] = "business")
    BY <1>1, <1>6, RowsOfRole
  <2> QED
    BY <1>1, <1>2, <1>3, <1>6, <2>1 DEF ByTable
<1>7. rows' \in RowsTable
  BY DEF Written, TypeOK, RowsTable, All
<1>8. /\ role' \in AccountColumns /\ role'[id] = r
      /\ \A x \in All \ {id} : role'[x] = role[x]
  BY DEF Written, TypeOK, AccountColumns, All, Roles
<1>9. /\ email' \in EmailColumn
      /\ \A x \in All \ {id} : email'[x] = email[x]
      /\ n >= 2 => email'[id] = a
  BY <1>1 DEF Written, TypeOK, EmailColumn, All
<1>10. ByColumn(id, r, a, n)
  BY <1>7, <1>8, <1>9 DEF ByColumn
<1> QED
  BY <1>1, <1>4, <1>5, <1>6, <1>10

-----------------------------------------------------------------------------
(* What the actions share. *)

\* Roles and addresses are given once, and what was signed stays signed.
Kept ==
    /\ \A id \in All : role[id] # None => role'[id] = role[id] /\ email'[id] = email[id]
    /\ tokens \subseteq tokens'

LEMMA Signs ==
    ASSUME TypeOK, NEW id \in All, NEW types \in SUBSET {"access_token", "refresh_token"},
           signJWT(id, types)
    PROVE  /\ tokens' \subseteq TokenPayload /\ tokens \subseteq tokens'
           /\ \A t \in tokens' : t \in tokens \/ t.id = id
<1>1. Signed(id, types) \subseteq TokenPayload /\ \A t \in Signed(id, types) : t.id = id
  BY DEF Signed, TokenPayload, TypeOK
<1> QED
  BY <1>1 DEF signJWT, TypeOK

LEMMA BothTypes == Both \in SUBSET {"access_token", "refresh_token"}
  BY DEF Both

LEMMA GrantedCall ==
    ASSUME Inv, NEW c \in Calls, call[c].at = "granted"
    PROVE  /\ call[c].token \in tokens /\ Caller(c) \in All /\ role[Caller(c)] # None
           /\ SignedIn(Caller(c))
<1>1. call[c].token \in tokens
  BY DEF Inv, LetThrough
<1>2. call[c].token \in TokenPayload
  BY <1>1 DEF Inv, TypeOK
<1>3. Caller(c) \in All
  BY <1>2 DEF Caller, TokenPayload
<1>4. SignedIn(Caller(c))
  BY <1>1 DEF Inv, EverSigned, Caller
<1> QED
  BY <1>1, <1>3, <1>4 DEF SignedIn

\* The calls after a step that answers one of them, or none.
LEMMA CallsAfter ==
    ASSUME Inv, NEW c \in Calls, call' = call \/ Answered(c), Kept
    PROVE  call' \in [Calls -> Call] /\ LetThrough'
<1>1. call \in [Calls -> Call]
  BY DEF Inv, TypeOK
<1>2. Free \in Call /\ Free.at = "free"
  BY DEF Free, Call, Dependencies, Effects
<1> HIDE DEF Free
<1>3. /\ call' \in [Calls -> Call]
      /\ \A d \in Calls : call'[d] = call[d] \/ call'[d] = Free
  BY <1>1, <1>2 DEF Answered
<1>4. LetThrough'
  <2> SUFFICES ASSUME NEW d \in Calls, call'[d].at = "granted"
               PROVE  /\ call'[d].token \in tokens'
                      /\ call'[d].does \in {"send_verify_code", "verify_code"} =>
                            role'[call'[d].token.id] = "business"
                      /\ call'[d].does = "verify_code" =>
                            \A k \in call'[d].codes :
                                /\ role'[k.id] # None
                                /\ email'[k.id] = email'[call'[d].token.id]
                                      => k.id = call'[d].token.id
    BY DEF LetThrough, Caller
  <2>1. call'[d] = call[d]
    BY <1>2, <1>3
  <2>2. call[d].token \in tokens /\ Caller(d) \in All /\ role[Caller(d)] # None
    BY <2>1, GrantedCall
  <2>3. \A k \in call[d].codes : k.id \in All
    BY <1>1 DEF Call, VerifyCode, All
  <2> QED
    BY <2>1, <2>2, <2>3 DEF Inv, LetThrough, Kept, Caller
<1> QED
  BY <1>3, <1>4

\* A step that gives nobody a row or a role and takes none.
LEMMA RowsStay ==
    ASSUME Inv, UNCHANGED <<rows, role, email>>, codes' \subseteq VerifyCode,
           \A k \in codes' : k.id \in rows["manager"],
           tokens' \subseteq TokenPayload,
           \A t \in tokens' : SignedIn(t.id)
    PROVE  RowsFit' /\ EverSigned' /\ OwnAddress'
  BY DEF Inv, RowsFit, EverSigned, OwnAddress, SignedIn

-----------------------------------------------------------------------------
(* Registrations. *)

LEMMA RegisterKeeps ==
    ASSUME Inv, NEW id \in Ids, NEW r \in {"business", "user", "social_network"},
           NEW a \in Addresses, NEW n, Register(id, r, a, n)
    PROVE  Inv'
<1>1. /\ role[id] = None /\ n \in 1..Len(RowsOf(r)) /\ Written(id, r, a, n)
      /\ IF n = Len(RowsOf(r)) THEN signJWT(id, Both) ELSE tokens' = tokens
      /\ verified' = verified /\ codes' = codes /\ revoked' = revoked /\ now' = now
      /\ call' = call
      /\ \A x \in rows[EmailTable(r)] : email[x] # a
  BY DEF Register, Holders
<1>2. n \in 1..3 /\ ByTable(id, r, n) /\ ByColumn(id, r, a, n)
  <2>1. TypeOK
    BY DEF Inv
  <2> QED
    BY <1>1, <2>1, WrittenRows
<1>3. id \in All /\ \A t \in Tables : id \notin rows[t]
  BY <1>1 DEF Inv, RowsFit, All
<1>4. /\ "account" \in Tables /\ "manager" \in Tables /\ "business" \in Tables
      /\ "admin" \in Tables /\ "user" \in Tables /\ "social_network" \in Tables
      /\ \A t \in Tables : t \in {"account", "manager", "business", "admin", "user",
                                  "social_network"}
  BY DEF Tables
<1>5. /\ tokens' \subseteq TokenPayload /\ tokens \subseteq tokens'
      /\ \A t \in tokens' : t \in tokens \/ (t.id = id /\ n = Len(RowsOf(r)))
  BY <1>1, <1>3, Signs, BothTypes DEF Inv, TypeOK
<1>6. RowsFit'
  <2> SUFFICES ASSUME NEW x \in All
               PROVE  /\ \A t \in Tables :
                            x \in rows'[t] => x \in rows'["account"] /\ role'[x] # None
                      /\ x \in rows'["manager"] => role'[x] \in Managers
                      /\ x \in rows'["business"] =>
                            x \in rows'["manager"] /\ role'[x] = "business"
                      /\ x \in rows'["admin"] => role'[x] \in {"admin", "superuser"}
                      /\ x \in rows'["manager"] /\ role'[x] \in {"admin", "superuser"} =>
                            x \in rows'["admin"]
                      /\ x \in rows'["user"] => role'[x] \in Candidates
                      /\ x \in rows'["social_network"] => x \in rows'["user"]
                      /\ role'[x] = "business" => x \in Ids
    BY DEF RowsFit
  <2>1. CASE x = id
    BY <1>2, <1>3, <1>4, <2>1, RolesAssumption DEF Managers, Candidates, Roles, ByTable, ByColumn
  <2>2. CASE x # id
    <3>1. role'[x] = role[x] /\ \A t \in Tables : x \in rows'[t] <=> x \in rows[t]
      BY <1>2, <1>4, <2>2 DEF ByTable, ByColumn
    <3> QED
      BY <1>4, <3>1 DEF Inv, RowsFit
  <2> QED
    BY <2>1, <2>2
<1>7. EverSigned'
  <2> SUFFICES ASSUME NEW t \in tokens'
               PROVE  /\ role'[t.id] # None
                      /\ role'[t.id] = "business" /\ t.id \in rows'["manager"] =>
                            t.id \in rows'["business"]
                      /\ role'[t.id] = "user" /\ t.id \in rows'["account"] =>
                            t.id \in rows'["user"]
                      /\ role'[t.id] = "social_network" /\ t.id \in rows'["account"] =>
                            t.id \in rows'["social_network"]
    BY DEF EverSigned, SignedIn
  <2>1. t.id \in All
    BY <1>5 DEF TokenPayload
  <2>2. CASE t \in tokens
    <3>1. SignedIn(t.id) /\ t.id # id
      BY <1>1, <2>2 DEF Inv, EverSigned, SignedIn
    <3>2. role'[t.id] = role[t.id] /\ \A x \in Tables : t.id \in rows'[x] <=> t.id \in rows[x]
      BY <1>2, <1>4, <2>1, <3>1 DEF ByTable, ByColumn
    <3> QED
      BY <1>4, <3>1, <3>2 DEF SignedIn
  <2>3. CASE t.id = id /\ n = Len(RowsOf(r))
    <3>1. CASE r = "business"
      BY <1>2, <2>3, <3>1, RowsOfRole, RolesAssumption DEF Roles, ByTable, ByColumn
    <3>2. CASE r = "user"
      BY <1>2, <2>3, <3>2, RowsOfRole, RolesAssumption DEF Roles, ByTable, ByColumn
    <3>3. CASE r = "social_network"
      BY <1>2, <2>3, <3>3, RowsOfRole, RolesAssumption DEF Roles, ByTable, ByColumn
    <3> QED
      BY <3>1, <3>2, <3>3
  <2> QED
    BY <1>5, <2>2, <2>3
<1>8. OwnAddress'
  <2>1. \A x \in rows["manager"] : x \in All /\ x # id
    BY <1>3, <1>4 DEF Inv, TypeOK, RowsTable
  <2>2. CASE r = "business" /\ n >= 2
    <3>1. /\ rows'["manager"] = rows["manager"] \cup {id} /\ email'[id] = a
          /\ \A x \in rows["manager"] : email'[x] = email[x] /\ email[x] # a /\ role'[x] = role[x]
      BY <1>1, <1>2, <2>1, <2>2 DEF EmailTable, ByTable, ByColumn
    <3>2. a # None
      BY ConstantsAssumption
    <3> QED
      BY <1>1, <3>1, <3>2 DEF Inv, OwnAddress
  <2>3. CASE ~(r = "business" /\ n >= 2)
    <3>1. /\ rows'["manager"] = rows["manager"]
          /\ \A x \in rows["manager"] : email'[x] = email[x] /\ role'[x] = role[x]
      BY <1>2, <2>1, <2>3 DEF ByTable, ByColumn
    <3> QED
      BY <1>1, <3>1 DEF Inv, OwnAddress
  <2> QED
    BY <2>2, <2>3
<1>9. Kept
  BY <1>1, <1>2, <1>5 DEF Kept, ByTable, ByColumn
<1>10. call' \in [Calls -> Call] /\ LetThrough'
  <2>1. CASE Calls = {}
    BY <1>1, <2>1 DEF Inv, TypeOK, LetThrough
  <2>2. CASE Calls # {}
    BY <1>1, <1>9, <2>2, CallsAfter
  <2> QED
    BY <2>1, <2>2
<1>11. TypeOK'
  BY <1>1, <1>2, <1>5, <1>10 DEF Inv, TypeOK, ByTable, ByColumn
<1> QED
  BY <1>6, <1>7, <1>8, <1>10, <1>11 DEF Inv

-----------------------------------------------------------------------------
(* Sign-ins and calls. *)

\* A sign-in that changes nothing but the tokens, of somebody who is whole.
LEMMA SignInKeeps ==
    ASSUME Inv, NEW id \in All, SignedIn(id), signJWT(id, Both), UNCHANGED <<tables, now, call>>
    PROVE  Inv'
<1>1. /\ rows' = rows /\ role' = role /\ email' = email /\ verified' = verified
      /\ codes' = codes /\ revoked' = revoked /\ now' = now /\ call' = call
  BY DEF tables
<1>2. /\ tokens' \subseteq TokenPayload /\ tokens \subseteq tokens'
      /\ \A t \in tokens' : t \in tokens \/ t.id = id
  BY Signs, BothTypes DEF Inv
<1>3. \A t \in tokens' : SignedIn(t.id)
  BY <1>2 DEF Inv, EverSigned
<1>4. RowsFit' /\ EverSigned' /\ OwnAddress'
  BY <1>1, <1>2, <1>3, RowsStay DEF Inv, TypeOK, OwnAddress
<1>5. Kept
  BY <1>1, <1>2 DEF Kept
<1>6. call' \in [Calls -> Call] /\ LetThrough'
  <2>1. CASE Calls = {}
    BY <1>1, <2>1 DEF Inv, TypeOK, LetThrough
  <2>2. CASE Calls # {}
    BY <1>1, <1>5, <2>2, CallsAfter
  <2> QED
    BY <2>1, <2>2
<1>7. TypeOK'
  BY <1>1, <1>2, <1>6 DEF Inv, TypeOK
<1> QED
  BY <1>4, <1>6, <1>7 DEF Inv

LEMMA GoogleKnownKeeps ==
    ASSUME Inv, NEW id \in All, GoogleKnown(id)
    PROVE  Inv'
<1>1. id \in rows["social_network"]
  BY DEF GoogleKnown
<1>2. SignedIn(id)
  BY <1>1 DEF Inv, RowsFit, SignedIn, Tables, Candidates
<1> QED
  BY <1>2, SignInKeeps DEF GoogleKnown

LEMMA LoginManagerKeeps ==
    ASSUME Inv, NEW id \in All, LoginManager(id)
    PROVE  Inv'
<1>1. id \in rows["manager"] /\ id \in rows["business"] \cup rows["admin"]
  BY DEF LoginManager
<1>2. SignedIn(id)
  BY <1>1 DEF Inv, RowsFit, SignedIn, Tables, Managers
<1> QED
  BY <1>2, SignInKeeps DEF LoginManager

LEMMA LoginUserKeeps ==
    ASSUME Inv, NEW id \in All, LoginUser(id)
    PROVE  Inv'
<1>1. id \in rows["user"] /\ role[id] = "user"
  BY DEF LoginUser
<1>2. SignedIn(id)
  BY <1>1, RolesAssumption DEF SignedIn, Roles
<1> QED
  BY <1>2, SignInKeeps DEF LoginUser

LEMMA GoogleLinkKeeps ==
    ASSUME Inv, NEW id \in Ids, NEW dies \in BOOLEAN, GoogleLink(id, dies)
    PROVE  Inv'
<1>1. /\ id \in rows["user"] /\ id \in All /\ id \in rows["account"]
      /\ role[id] \in Candidates /\ role[id] # None
  BY DEF GoogleLink, Inv, RowsFit, All, Tables
<1>2. /\ verified' = verified \cup {id} /\ role' = role /\ email' = email /\ codes' = codes
      /\ revoked' = revoked /\ now' = now /\ call' = call
  BY DEF GoogleLink
<1>3. /\ rows' \in RowsTable
      /\ \A t \in Tables \ {"social_network"} : rows'[t] = rows[t]
      /\ rows["social_network"] \subseteq rows'["social_network"]
      /\ \A x \in rows'["social_network"] : x \in rows["social_network"] \/ x = id
      /\ tokens' \subseteq TokenPayload /\ tokens \subseteq tokens'
      /\ \A t \in tokens' : t \in tokens \/ (t.id = id /\ id \in rows'["social_network"])
  <2>1. CASE rows' = rows /\ tokens' = tokens
    BY <2>1 DEF Inv, TypeOK
  <2>2. CASE /\ rows' = [rows EXCEPT !["social_network"] = @ \cup {id}]
             /\ signJWT(id, Both)
    <3>1. /\ tokens' \subseteq TokenPayload /\ tokens \subseteq tokens'
          /\ \A t \in tokens' : t \in tokens \/ t.id = id
      BY <1>1, <2>2, Signs, BothTypes DEF Inv
    <3>2. "social_network" \in Tables /\ rows \in RowsTable
      BY DEF Tables, Inv, TypeOK
    <3>3. /\ rows' \in RowsTable
          /\ rows'["social_network"] = rows["social_network"] \cup {id}
          /\ \A t \in Tables \ {"social_network"} : rows'[t] = rows[t]
      BY <1>1, <2>2, <3>2 DEF RowsTable
    <3> QED
      BY <3>1, <3>3
  <2> QED
    BY <2>1, <2>2 DEF GoogleLink
<1>4. /\ "account" \in Tables \ {"social_network"} /\ "manager" \in Tables \ {"social_network"}
      /\ "business" \in Tables \ {"social_network"} /\ "admin" \in Tables \ {"social_network"}
      /\ "user" \in Tables \ {"social_network"} /\ "social_network" \in Tables
  BY DEF Tables
<1>5. RowsFit'
  <2> SUFFICES ASSUME NEW x \in All
               PROVE  /\ \A t \in Tables :
                            x \in rows'[t] => x \in rows'["account"] /\ role'[x] # None
                      /\ x \in rows'["manager"] => role'[x] \in Managers
                      /\ x \in rows'["business"] =>
                            x \in rows'["manager"] /\ role'[x] = "business"
                      /\ x \in rows'["admin"] => role'[x] \in {"admin", "superuser"}
                      /\ x \in rows'["manager"] /\ role'[x] \in {"admin", "superuser"} =>
                            x \in rows'["admin"]
                      /\ x \in rows'["user"] => role'[x] \in Candidates
                      /\ x \in rows'["social_network"] => x \in rows'["user"]
                      /\ role'[x] = "business" => x \in Ids
    BY DEF RowsFit
  <2>1. \A t \in Tables : x \in rows'[t] => x \in rows'["account"] /\ role'[x] # None
    BY <1>1, <1>2, <1>3, <1>4 DEF Inv, RowsFit
  <2>2. x \in rows'["social_network"] => x \in rows'["user"]
    BY <1>1, <1>3, <1>4 DEF Inv, RowsFit
  <2> QED
    BY <1>2, <1>3, <1>4, <2>1, <2>2 DEF Inv, RowsFit
<1>6. EverSigned'
  <2> SUFFICES ASSUME NEW t \in tokens'
               PROVE  /\ role[t.id] # None
                      /\ role[t.id] = "business" /\ t.id \in rows'["manager"] =>
                            t.id \in rows'["business"]
                      /\ role[t.id] = "user" /\ t.id \in rows'["account"] =>
                            t.id \in rows'["user"]
                      /\ role[t.id] = "social_network" /\ t.id \in rows'["account"] =>
                            t.id \in rows'["social_network"]
    BY <1>2 DEF EverSigned, SignedIn
  <2>1. CASE t \in tokens
    BY <1>3, <1>4, <2>1 DEF Inv, EverSigned, SignedIn
  <2>2. CASE t.id = id /\ id \in rows'["social_network"]
    BY <1>1, <1>3, <1>4, <2>2 DEF Candidates
  <2> QED
    BY <1>3, <2>1, <2>2
<1>7. OwnAddress'
  BY <1>2, <1>3, <1>4 DEF Inv, OwnAddress
<1>8. Kept
  BY <1>2, <1>3 DEF Kept
<1>9. call' \in [Calls -> Call] /\ LetThrough'
  <2>1. CASE Calls = {}
    BY <1>2, <2>1 DEF Inv, TypeOK, LetThrough
  <2>2. CASE Calls # {}
    BY <1>2, <1>8, <2>2, CallsAfter
  <2> QED
    BY <2>1, <2>2
<1>10. TypeOK'
  BY <1>1, <1>2, <1>3, <1>9 DEF Inv, TypeOK
<1> QED
  BY <1>5, <1>6, <1>7, <1>9, <1>10 DEF Inv

LEMMA AuthenticateKeeps ==
    ASSUME Inv, NEW c \in Calls, NEW t \in tokens, NEW r \in Guarded,
           Authenticate(c, t, r.needs, r.does)
    PROVE  Inv'
<1> DEFINE granted ==
           [at |-> "granted", needs |-> r.needs, does |-> r.does, token |-> t,
            unverified |-> r.does = "send_verify_code" /\ t.id \notin verified,
            codes |-> IF r.does = "verify_code" THEN codes ELSE {}]
<1>1. /\ rows' = rows /\ role' = role /\ email' = email /\ verified' = verified
      /\ codes' = codes /\ revoked' = revoked /\ now' = now /\ tokens' = tokens
      /\ call' = [call EXCEPT ![c] = granted]
      /\ IF r.needs = "websocket" THEN AcceptsWebsocket(t) ELSE Accepts(t, r.needs)
  BY DEF Authenticate, tables
<1>2. /\ r.needs \in Dependencies /\ r.does \in Effects
      /\ r.does \in {"send_verify_code", "verify_code"} => r.needs = "business"
  BY GuardedFits
<1>3. call \in [Calls -> Call] /\ codes \subseteq VerifyCode /\ t \in TokenPayload /\ t.id \in All
  BY DEF Inv, TypeOK, TokenPayload
<1>4. (r.does = "send_verify_code" /\ t.id \notin verified) \in BOOLEAN
  OBVIOUS
<1>5. /\ granted.at = "granted" /\ granted.does = r.does /\ granted.token = t
      /\ granted.codes = IF r.does = "verify_code" THEN codes ELSE {}
  OBVIOUS
<1>6. granted \in Call
  <2>1. (IF r.does = "verify_code" THEN codes ELSE {}) \in SUBSET VerifyCode
    BY <1>3
  <2> QED
    BY <1>2, <1>3, <1>4, <2>1 DEF Call
<1>7. r.does \in {"send_verify_code", "verify_code"} =>
        role[t.id] = "business" /\ t.id \in rows["manager"]
  BY <1>1, <1>2 DEF Accepts, ByRole
<1>8. r.does = "verify_code" =>
        \A k \in codes : role[k.id] # None /\ (email[k.id] = email[t.id] => k.id = t.id)
  <2> SUFFICES ASSUME r.does = "verify_code", NEW k \in codes
               PROVE  role[k.id] # None /\ (email[k.id] = email[t.id] => k.id = t.id)
    OBVIOUS
  <2>1. k.id \in rows["manager"] /\ t.id \in rows["manager"] /\ email[t.id] # None
    BY <1>7 DEF Inv, OwnAddress
  <2>2. k.id \in All
    BY <1>3 DEF VerifyCode, All
  <2>3. role[k.id] # None
    BY <2>1, <2>2 DEF Inv, RowsFit, Tables
  <2> QED
    BY <2>1, <2>3 DEF Inv, OwnAddress
<1> HIDE DEF granted
<1>9. call'[c] = granted /\ \A d \in Calls \ {c} : call'[d] = call[d]
  BY <1>1, <1>3
<1>10. call' \in [Calls -> Call]
  BY <1>1, <1>3, <1>6
<1>11. LetThrough'
  <2> SUFFICES ASSUME NEW d \in Calls, call'[d].at = "granted"
               PROVE  /\ call'[d].token \in tokens
                      /\ call'[d].does \in {"send_verify_code", "verify_code"} =>
                            role[call'[d].token.id] = "business"
                      /\ call'[d].does = "verify_code" =>
                            \A k \in call'[d].codes :
                                /\ role[k.id] # None
                                /\ email[k.id] = email[call'[d].token.id]
                                      => k.id = call'[d].token.id
    BY <1>1 DEF LetThrough, Caller
  <2>1. CASE d = c
    BY <1>5, <1>7, <1>8, <1>9, <2>1
  <2>2. CASE d # c
    BY <1>9, <2>2 DEF Inv, LetThrough, Caller
  <2> QED
    BY <2>1, <2>2
<1>12. RowsFit' /\ EverSigned' /\ OwnAddress'
  BY <1>1, RowsStay DEF Inv, TypeOK, OwnAddress, EverSigned
<1>13. TypeOK'
  BY <1>1, <1>10 DEF Inv, TypeOK
<1> QED
  BY <1>11, <1>12, <1>13 DEF Inv

\* A call that ends and changes none of the rows: tokens are signed for its caller
\* if any, and codes are of managers.
LEMMA EndKeeps ==
    ASSUME Inv, NEW c \in Calls, Answered(c), UNCHANGED <<rows, role, email, now>>,
           verified' \subseteq All, revoked' \subseteq TokenPayload,
           codes' \subseteq VerifyCode, \A k \in codes' : k.id \in rows["manager"],
           tokens' \subseteq TokenPayload, tokens \subseteq tokens',
           \A t \in tokens' : t \in tokens \/ SignedIn(t.id)
    PROVE  Inv'
<1>1. Kept
  BY DEF Kept
<1>2. call' \in [Calls -> Call] /\ LetThrough'
  BY <1>1, CallsAfter
<1>3. \A t \in tokens' : SignedIn(t.id)
  BY DEF Inv, EverSigned
<1>4. RowsFit' /\ EverSigned' /\ OwnAddress'
  BY <1>3, RowsStay
<1>5. TypeOK'
  BY <1>2 DEF Inv, TypeOK, BlacklistTable
<1> QED
  BY <1>2, <1>4, <1>5 DEF Inv

LEMMA AnswerKeeps ==
    ASSUME Inv, NEW c \in Calls, Answer(c)
    PROVE  Inv'
<1>1. /\ Answered(c) /\ rows' = rows /\ role' = role /\ email' = email /\ verified' = verified
      /\ codes' = codes /\ revoked' = revoked /\ now' = now /\ tokens' = tokens
  BY DEF Answer, tables
<1> QED
  BY <1>1, EndKeeps DEF Inv, TypeOK, OwnAddress, BlacklistTable

LEMMA RefreshKeeps ==
    ASSUME Inv, NEW c \in Calls, call[c].at = "granted", refresh_token(c)
    PROVE  Inv'
<1>1. /\ Answered(c) /\ rows' = rows /\ role' = role /\ email' = email /\ verified' = verified
      /\ codes' = codes /\ revoked' = revoked /\ now' = now
      /\ signJWT(Caller(c), {"access_token"})
  BY DEF refresh_token, tables
<1>2. Caller(c) \in All /\ SignedIn(Caller(c))
  BY GrantedCall
<1>3. /\ tokens' \subseteq TokenPayload /\ tokens \subseteq tokens'
      /\ \A t \in tokens' : t \in tokens \/ t.id = Caller(c)
  BY <1>1, <1>2, Signs DEF Inv
<1>4. \A t \in tokens' : t \in tokens \/ SignedIn(t.id)
  BY <1>2, <1>3
<1> QED
  BY <1>1, <1>3, <1>4, EndKeeps DEF Inv, TypeOK, OwnAddress, BlacklistTable

LEMMA LogoutKeeps ==
    ASSUME Inv, NEW c \in Calls, logout(c)
    PROVE  Inv'
<1>1. /\ Answered(c) /\ rows' = rows /\ role' = role /\ email' = email /\ verified' = verified
      /\ codes' = codes /\ revoked' = revoked \cup {call[c].token} /\ now' = now
      /\ tokens' = tokens /\ call[c].at = "granted"
  BY DEF logout, Granted
<1>2. call[c].token \in TokenPayload
  BY <1>1, GrantedCall DEF Inv, TypeOK
<1> QED
  BY <1>1, <1>2, EndKeeps DEF Inv, TypeOK, OwnAddress, BlacklistTable

\* A code of a business that is there.
LEMMA SendVerifyKeeps ==
    ASSUME Inv, NEW c \in Calls, send_verify_background(c)
    PROVE  Inv'
<1>1. /\ Answered(c) /\ rows' = rows /\ role' = role /\ email' = email /\ verified' = verified
      /\ codes' = codes \cup {[id |-> Caller(c), sent |-> now]} /\ revoked' = revoked
      /\ now' = now /\ tokens' = tokens
      /\ call[c].at = "granted" /\ call[c].does = "send_verify_code"
      /\ Caller(c) \in rows["manager"]
  BY DEF send_verify_background, Granted
<1>2. Caller(c) \in All /\ role[Caller(c)] = "business"
  BY <1>1, GrantedCall DEF Inv, LetThrough
<1>3. Caller(c) \in Ids
  BY <1>2 DEF Inv, RowsFit
<1>4. codes' \subseteq VerifyCode /\ \A k \in codes' : k.id \in rows["manager"]
  BY <1>1, <1>3 DEF VerifyCode, Inv, TypeOK, OwnAddress
<1> QED
  BY <1>1, <1>4, EndKeeps DEF Inv, TypeOK, BlacklistTable

LEMMA VerifyCodeKeeps ==
    ASSUME Inv, NEW c \in Calls, NEW k, NEW dies \in BOOLEAN, verify_code(c, k, dies)
    PROVE  Inv'
<1>1. /\ Answered(c) /\ rows' = rows /\ role' = role /\ email' = email
      /\ codes' = codes \ {k} /\ revoked' = revoked /\ now' = now /\ tokens' = tokens
      /\ call[c].at = "granted"
      /\ verified' = verified \/ verified' = verified \cup {Caller(c)}
  BY DEF verify_code, Granted
<1>2. Caller(c) \in All
  BY <1>1, GrantedCall
<1>3. verified' \subseteq All
  BY <1>1, <1>2 DEF Inv, TypeOK
<1> QED
  BY <1>1, <1>3, EndKeeps DEF Inv, TypeOK, OwnAddress, BlacklistTable

-----------------------------------------------------------------------------
(* Removals. *)

\* The rows that go: all of them, or those of a manager.
LEMMA RemovalKeeps ==
    ASSUME Inv, NEW c \in Calls, NEW id \in All,
           NEW gone \in {Tables, {"manager", "business", "admin"}},
           gone # Tables => id \in rows["manager"],
           rows' = [t \in Tables |-> IF t \in gone THEN rows[t] \ {id} ELSE rows[t]],
           codes' = {k \in codes : k.id # id},
           Answered(c), UNCHANGED <<role, email, verified, tokens, revoked, now>>
    PROVE  Inv'
<1>1. /\ "account" \in Tables /\ "manager" \in Tables /\ "business" \in Tables
      /\ "admin" \in Tables /\ "user" \in Tables /\ "social_network" \in Tables
      /\ \A t \in Tables : t \in {"account", "manager", "business", "admin", "user",
                                  "social_network"}
  BY DEF Tables
<1>2. /\ rows' \in RowsTable
      /\ \A t \in Tables : rows'[t] \subseteq rows[t]
      /\ \A t \in Tables, x \in All \ {id} : x \in rows'[t] <=> x \in rows[t]
      /\ id \notin rows'["manager"] /\ id \notin rows'["business"] /\ id \notin rows'["admin"]
  <2>1. \A t \in Tables : rows[t] \subseteq All
    BY DEF Inv, TypeOK, RowsTable
  <2>2. \A t \in Tables : rows'[t] = IF t \in gone THEN rows[t] \ {id} ELSE rows[t]
    OBVIOUS
  <2>3. "manager" \in gone /\ "business" \in gone /\ "admin" \in gone
    BY <1>1
  <2>4. rows' \in RowsTable
    BY <2>1 DEF RowsTable
  <2> QED
    BY <1>1, <2>2, <2>3, <2>4
<1>3. RowsFit'
  <2> SUFFICES ASSUME NEW x \in All
               PROVE  /\ \A t \in Tables :
                            x \in rows'[t] => x \in rows'["account"] /\ role[x] # None
                      /\ x \in rows'["manager"] => role[x] \in Managers
                      /\ x \in rows'["business"] =>
                            x \in rows'["manager"] /\ role[x] = "business"
                      /\ x \in rows'["admin"] => role[x] \in {"admin", "superuser"}
                      /\ x \in rows'["manager"] /\ role[x] \in {"admin", "superuser"} =>
                            x \in rows'["admin"]
                      /\ x \in rows'["user"] => role[x] \in Candidates
                      /\ x \in rows'["social_network"] => x \in rows'["user"]
                      /\ role[x] = "business" => x \in Ids
    BY DEF RowsFit
  <2>1. CASE x # id
    <3>1. \A t \in Tables : x \in rows'[t] <=> x \in rows[t]
      BY <1>2, <2>1
    <3> QED
      BY <1>1, <3>1 DEF Inv, RowsFit
  <2>2. CASE x = id /\ gone = Tables
    <3>1. \A t \in Tables : x \notin rows'[t]
      BY <2>2
    <3> QED
      BY <1>1, <3>1 DEF Inv, RowsFit
  <2>3. CASE x = id /\ gone # Tables
    <3>1. role[x] \in Managers
      BY <2>3 DEF Inv, RowsFit
    <3>2. x \notin rows["user"]
      BY <3>1, RolesAssumption DEF Inv, RowsFit, Managers, Candidates, Roles
    <3>3. x \notin rows["social_network"]
      BY <3>2 DEF Inv, RowsFit
    <3>4. x \in rows'["account"] <=> x \in rows["account"]
      BY <1>1, <2>3
    <3>5. x \notin rows'["user"] /\ x \notin rows'["social_network"]
      BY <1>1, <1>2, <3>2, <3>3
    <3> QED
      BY <1>1, <1>2, <2>3, <3>4, <3>5 DEF Inv, RowsFit
  <2> QED
    BY <2>1, <2>2, <2>3
<1>4. EverSigned'
  <2> SUFFICES ASSUME NEW t \in tokens
               PROVE  /\ role[t.id] # None
                      /\ role[t.id] = "business" /\ t.id \in rows'["manager"] =>
                            t.id \in rows'["business"]
                      /\ role[t.id] = "user" /\ t.id \in rows'["account"] =>
                            t.id \in rows'["user"]
                      /\ role[t.id] = "social_network" /\ t.id \in rows'["account"] =>
                            t.id \in rows'["social_network"]
    BY DEF EverSigned, SignedIn
  <2>1. t.id \in All /\ SignedIn(t.id)
    BY DEF Inv, TypeOK, TokenPayload, EverSigned
  <2>2. CASE t.id # id
    <3>1. \A x \in Tables : t.id \in rows'[x] <=> t.id \in rows[x]
      BY <1>2, <2>1, <2>2
    <3> QED
      BY <1>1, <2>1, <3>1 DEF SignedIn
  <2>3. CASE t.id = id /\ gone = Tables
    <3>1. \A x \in Tables : t.id \notin rows'[x]
      BY <2>3
    <3> QED
      BY <1>1, <2>1, <3>1 DEF SignedIn
  <2>4. CASE t.id = id /\ gone # Tables
    <3>1. role[t.id] \in Managers
      BY <2>1, <2>4 DEF Inv, RowsFit
    <3> QED
      BY <1>2, <2>1, <2>4, <3>1, RolesAssumption DEF SignedIn, Managers, Roles
  <2> QED
    BY <2>2, <2>3, <2>4
<1>5. OwnAddress'
  <2>1. \A k \in codes' : k \in codes /\ k.id # id /\ k.id \in All
    BY DEF Inv, TypeOK, VerifyCode, All
  <2>2. \A k \in codes' : k.id \in rows'["manager"]
    BY <1>1, <1>2, <2>1 DEF Inv, OwnAddress
  <2> QED
    BY <1>1, <1>2, <2>2 DEF Inv, OwnAddress
<1>6. Kept
  BY DEF Kept
<1>7. call' \in [Calls -> Call] /\ LetThrough'
  BY <1>6, CallsAfter
<1>8. TypeOK'
  BY <1>2, <1>7 DEF Inv, TypeOK
<1> QED
  BY <1>3, <1>4, <1>5, <1>7, <1>8 DEF Inv

LEMMA DeleteBusinessKeeps ==
    ASSUME Inv, NEW c \in Calls, delete_business(c)
    PROVE  Inv'
<1>1. Caller(c) \in All
  BY GrantedCall DEF delete_business, Granted
<1>2. rows' = [t \in Tables |-> IF t \in Tables THEN rows[t] \ {Caller(c)} ELSE rows[t]]
  BY DEF delete_business, Removed
<1> QED
  BY <1>1, <1>2, RemovalKeeps DEF delete_business, Removed

LEMMA DeleteUserKeeps ==
    ASSUME Inv, NEW c \in Calls, delete_user(c)
    PROVE  Inv'
<1>1. Caller(c) \in All
  BY GrantedCall DEF delete_user, Granted
<1>2. rows' = [t \in Tables |-> IF t \in Tables THEN rows[t] \ {Caller(c)} ELSE rows[t]]
  BY DEF delete_user, Removed
<1> QED
  BY <1>1, <1>2, RemovalKeeps DEF delete_user, Removed

LEMMA DeleteManagerKeeps ==
    ASSUME Inv, NEW c \in Calls, NEW id \in All, delete_manager(c, id)
    PROVE  Inv'
  BY RemovalKeeps DEF delete_manager

-----------------------------------------------------------------------------
(* The invariant. *)

LEMMA TickKeeps ==
    ASSUME Inv, Tick
    PROVE  Inv'
<1>1. /\ rows' = rows /\ role' = role /\ email' = email /\ verified' = verified
      /\ codes' = codes /\ revoked' = revoked /\ tokens' = tokens /\ call' = call
      /\ now < MaxTime /\ now' = now + 1
  BY DEF Tick, tables
<1>2. now' \in 0..MaxTime
  BY <1>1, ConstantsAssumption DEF Inv, TypeOK
<1>3. TypeOK'
  BY <1>1, <1>2 DEF Inv, TypeOK
<1>4. RowsFit' /\ EverSigned' /\ OwnAddress'
  BY <1>1, RowsStay DEF Inv, TypeOK, OwnAddress, EverSigned
<1>5. LetThrough'
  BY <1>1 DEF Inv, LetThrough, Caller
<1> QED
  BY <1>3, <1>4, <1>5 DEF Inv

LEMMA InitEstablishes == Init => Inv
<1> SUFFICES ASSUME Init PROVE Inv
  OBVIOUS
<1>1. /\ rows["account"] = Admins /\ rows["manager"] = Admins /\ rows["admin"] = Admins
      /\ rows["business"] = {} /\ rows["user"] = {} /\ rows["social_network"] = {}
      /\ \A t \in Tables : t \in {"account", "manager", "business", "admin", "user",
                                  "social_network"}
  BY DEF Init, Tables
<1>2. \A id \in All : /\ id \in Admins => role[id] \in {"admin", "superuser"}
                      /\ id \notin Admins => role[id] = None
                      /\ role[id] # "business" /\ email[id] = None
  BY ConstantsAssumption, RolesAssumption DEF Init, Roles
<1>3. \A id \in Admins : id \in All /\ role[id] # None
  BY <1>2, RolesAssumption DEF All, Roles
<1>4. TypeOK
  <2>1. rows \in RowsTable
    BY DEF Init, RowsTable, All
  <2>2. role \in AccountColumns /\ email \in EmailColumn
    BY DEF Init, AccountColumns, EmailColumn, Roles
  <2>3. Free \in Call
    BY DEF Free, Call, Dependencies, Effects
  <2>4. call \in [Calls -> Call]
    BY <2>3 DEF Init
  <2>5. now \in 0..MaxTime
    BY ConstantsAssumption DEF Init
  <2> QED
    BY <2>1, <2>2, <2>4, <2>5 DEF Init, TypeOK, BlacklistTable
<1>5. RowsFit
  BY <1>1, <1>2, <1>3 DEF RowsFit, Managers
<1>6. EverSigned
  BY DEF Init, EverSigned
<1>7. OwnAddress
  <2>1. codes = {}
    BY DEF Init
  <2> QED
    BY <1>1, <1>2, <1>3, <2>1 DEF OwnAddress
<1>8. LetThrough
  BY DEF Init, LetThrough, Free
<1> QED
  BY <1>4, <1>5, <1>6, <1>7, <1>8 DEF Inv

LEMMA SignInsKeep ==
    ASSUME Inv, SignIn
    PROVE  Inv'
<1>1. CASE \E id \in All : GoogleKnown(id) \/ LoginManager(id) \/ LoginUser(id)
  BY <1>1, GoogleKnownKeeps, LoginManagerKeeps, LoginUserKeeps
<1>2. CASE \E id \in Ids, dies \in BOOLEAN : GoogleLink(id, dies)
  BY <1>2, GoogleLinkKeeps
<1> QED
  BY <1>1, <1>2 DEF SignIn

LEMMA RegistrationKeeps ==
    ASSUME Inv, Registration
    PROVE  Inv'
<1>1. PICK id \in Ids, a \in Addresses, n \in 1..3,
           r \in {"business", "user", "social_network"} : Register(id, r, a, n)
  BY DEF Registration, RegisterBusiness, RegisterUser, GoogleNew
<1> QED
  BY <1>1, RegisterKeeps

LEMMA CallsKeep ==
    ASSUME Inv, NEW c \in Calls, CallOf(c)
    PROVE  Inv'
<1>1. CASE \E t \in tokens, r \in Guarded : Authenticate(c, t, r.needs, r.does)
  BY <1>1, AuthenticateKeeps
<1>2. CASE Answer(c)
  BY <1>2, AnswerKeeps
<1>3. CASE refresh_business(c) \/ refresh_user(c)
  BY <1>3, RefreshKeeps DEF refresh_business, refresh_user, Granted
<1>4. CASE logout(c)
  BY <1>4, LogoutKeeps
<1>5. CASE delete_business(c)
  BY <1>5, DeleteBusinessKeeps
<1>6. CASE delete_user(c)
  BY <1>6, DeleteUserKeeps
<1>7. CASE \E id \in All : delete_manager(c, id)
  BY <1>7, DeleteManagerKeeps
<1>8. CASE send_verify_background(c)
  BY <1>8, SendVerifyKeeps
<1>9. CASE \E k \in codes \cup call[c].codes, dies \in BOOLEAN : verify_code(c, k, dies)
  BY <1>9, VerifyCodeKeeps
<1> QED
  BY <1>1, <1>2, <1>3, <1>4, <1>5, <1>6, <1>7, <1>8, <1>9 DEF CallOf

LEMMA NextKeeps == Inv /\ [Next]_vars => Inv'
<1> SUFFICES ASSUME Inv, [Next]_vars PROVE Inv'
  OBVIOUS
<1>1. CASE Registration
  BY <1>1, RegistrationKeeps
<1>2. CASE SignIn
  BY <1>2, SignInsKeep
<1>3. CASE Tick
  BY <1>3, TickKeeps
<1>4. CASE \E c \in Calls : CallOf(c)
  BY <1>4, CallsKeep
<1>5. CASE UNCHANGED vars
  BY <1>5 DEF vars, Inv, TypeOK, RowsFit, EverSigned, SignedIn, OwnAddress, LetThrough, Caller
<1> QED
  BY <1>1, <1>2, <1>3, <1>4, <1>5 DEF Next

LEMMA Invariance == Spec => []Inv
<1>1. Init => Inv
  BY InitEstablishes
<1>2. Inv /\ [Next]_vars => Inv'
  BY NextKeeps
<1> QED
  BY <1>1, <1>2, PTL DEF Spec

-----------------------------------------------------------------------------
\* The rows, tokens, codes and calls are what the tables and the handlers can hold.
THEOREM AccountTypes == Spec => []TypeOK
<1>1. Inv => TypeOK
  BY DEF Inv
<1> QED
  BY <1>1, Invariance, PTL

\* A token is good until its owner logs out with it or a row of the account is
\* removed, whoever signs in, links or is removed in between.
THEOREM StaysIn == Spec => []SignedInStaysIn
<1>1. Inv => SignedInStaysIn
  <2> SUFFICES ASSUME Inv, NEW t \in tokens \ revoked,
                      t.id \in rows["account"],
                      role[t.id] \in {"admin", "superuser", "business"} =>
                          t.id \in rows["manager"]
               PROVE  Accepts(t, IF role[t.id] \in {"user", "social_network"}
                                 THEN "user" ELSE "business_admin_superuser")
    BY DEF SignedInStaysIn
  <2>1. t.id \in All /\ SignedIn(t.id)
    BY DEF Inv, TypeOK, TokenPayload, EverSigned
  <2>2. role[t.id] \in Roles
    BY <2>1 DEF Inv, TypeOK, AccountColumns, SignedIn
  <2>3. CASE role[t.id] = "user"
    BY <2>1, <2>3 DEF Accepts, AccountFromData, SignedIn
  <2>4. CASE role[t.id] = "social_network"
    BY <2>1, <2>4 DEF Accepts, AccountFromData, SignedIn
  <2>5. CASE role[t.id] \in Managers
    BY <2>5 DEF Accepts, ByRole, Managers
  <2> QED
    BY <2>2, <2>3, <2>4, <2>5 DEF Roles, Managers
<1> QED
  BY <1>1, Invariance, PTL

\* A call that is let through to an HTTP route is of an account with all of its rows.
\* It may be let through with a token that was signed long before; that the account
\* had its rows then, and that a removal takes them together, is the invariant.
THEOREM WholeAtTheDoor == Spec => WholeWhenGranted
<1>1. ASSUME Inv, [Next]_vars, NEW c \in Calls, call[c].at # "granted",
             call'[c].at = "granted", call'[c].needs # "websocket"
      PROVE  Whole(call'[c].token.id)
  <2>1. call \in [Calls -> Call]
    BY <1>1 DEF Inv, TypeOK
  <2>2. \A d \in Calls : ~Answered(d) /\ call' # call
    <3>1. ASSUME NEW d \in Calls, Answered(d) PROVE FALSE
      <4>1. call'[c] = call[c] \/ call'[c] = Free
        BY <2>1, <3>1 DEF Answered
      <4>2. Free.at # "granted"
        BY DEF Free
      <4> QED
        BY <1>1, <4>1, <4>2
    <3>2. call' # call
      BY <1>1
    <3> QED
      BY <3>1, <3>2
  <2>3. ~Registration /\ ~SignIn /\ ~Tick /\ ~UNCHANGED vars
    BY <1>1, <2>2 DEF Registration, RegisterBusiness, RegisterUser, GoogleNew, Register, SignIn,
         GoogleKnown, LoginManager, LoginUser, GoogleLink, Tick, vars
  <2>4. PICK d \in Calls : CallOf(d)
    BY <1>1, <2>3 DEF Next
  <2>5. ~Answered(d)
    BY <2>2
  <2>6. PICK t \in tokens, r \in Guarded : Authenticate(d, t, r.needs, r.does)
    BY <2>4, <2>5 DEF CallOf, Answer, refresh_business, refresh_user, refresh_token, logout,
         delete_business, delete_user, delete_manager, send_verify_background, verify_code
  <2>7. /\ call' = [call EXCEPT ![d] =
              [at |-> "granted", needs |-> r.needs, does |-> r.does, token |-> t,
               unverified |-> r.does = "send_verify_code" /\ t.id \notin verified,
               codes |-> IF r.does = "verify_code" THEN codes ELSE {}]]
        /\ IF r.needs = "websocket" THEN AcceptsWebsocket(t) ELSE Accepts(t, r.needs)
    BY <2>6 DEF Authenticate
  <2>8. c = d
    BY <1>1, <2>1, <2>7
  <2>9. call'[c].token = t /\ call'[c].needs = r.needs
    BY <2>1, <2>7, <2>8
  <2>10. Accepts(t, r.needs) /\ r.needs \in Dependencies \ {"websocket"}
    BY <1>1, <2>7, <2>9, GuardedFits
  <2>11. AccountFromData(t) \/ (role[t.id] \in Managers /\ t.id \in rows["manager"])
    BY <2>10 DEF Accepts, Dependencies, ByRole, UserOrBusinessVerify, Managers
  <2>12. t.id \in All /\ SignedIn(t.id)
    BY <1>1 DEF Inv, TypeOK, TokenPayload, EverSigned
  <2>13. role[t.id] # None
    BY <2>12 DEF SignedIn
  <2>14. CASE role[t.id] = "business"
    <3>1. t.id \in rows["account"] /\ t.id \in rows["manager"] /\ t.id \in rows["business"]
      BY <1>1, <2>11, <2>12, <2>14 DEF SignedIn, AccountFromData, Inv, RowsFit, Tables
    <3> QED
      BY <2>9, <2>13, <2>14, <3>1, RowsOfRole DEF Whole
  <2>15. CASE role[t.id] \in {"admin", "superuser"}
    <3>1. t.id \in rows["account"] /\ t.id \in rows["manager"] /\ t.id \in rows["admin"]
      BY <1>1, <2>11, <2>12, <2>15 DEF AccountFromData, Inv, RowsFit, Tables
    <3> QED
      BY <2>9, <2>13, <2>15, <3>1, RowsOfAdmin DEF Whole
  <2>16. CASE role[t.id] = "user"
    <3>1. t.id \in rows["account"] /\ t.id \in rows["user"]
      BY <1>1, <2>11, <2>12, <2>16 DEF AccountFromData, Managers, Inv, RowsFit, Tables
    <3> QED
      BY <2>9, <2>13, <2>16, <3>1, RowsOfRole DEF Whole
  <2>17. CASE role[t.id] = "social_network"
    <3>1. t.id \in rows["account"] /\ t.id \in rows["user"] /\ t.id \in rows["social_network"]
      BY <1>1, <2>11, <2>12, <2>17 DEF AccountFromData, Managers, Inv, RowsFit, Tables
    <3> QED
      BY <2>9, <2>13, <2>17, <3>1, RowsOfRole DEF Whole
  <2> QED
    BY <2>11, <2>14, <2>15, <2>16, <2>17 DEF AccountFromData, Managers
<1>2. Inv /\ [Next]_vars =>
        [\A c \in Calls :
            call[c].at # "granted" /\ call'[c].at = "granted" /\ call'[c].needs # "websocket"
                => Whole(call'[c].token.id)]_vars
  BY <1>1
<1> QED
  BY <1>2, Invariance, PTL DEF Spec, WholeWhenGranted

\* A business becomes verified by a code of its own that is still good, whatever codes
\* the call saw when it was let through: none of the others is of its address.
THEOREM ByItsOwnCode == Spec => VerifiedByCode
<1>1. ASSUME Inv, [Next]_vars, NEW id \in verified' \ verified, role[id] = "business"
      PROVE  \E c \in Calls : /\ Granted(c, "verify_code") /\ Caller(c) = id
                              /\ \E k \in call[c].codes : k.id = id /\ now - k.sent < Delta
  <2>1. verified' # verified
    BY <1>1
  <2>2. ~Registration /\ ~Tick /\ ~UNCHANGED vars
    BY <2>1 DEF Registration, RegisterBusiness, RegisterUser, GoogleNew, Register, Tick,
         tables, vars
  <2>3. ~SignIn
    <3>1. ASSUME NEW x \in Ids, NEW dies \in BOOLEAN, GoogleLink(x, dies) PROVE FALSE
      <4>1. x \in rows["user"] /\ x \in All /\ id = x
        BY <1>1, <3>1 DEF GoogleLink, All
      <4>2. role[x] \in Candidates
        BY <1>1, <4>1 DEF Inv, RowsFit
      <4> QED
        BY <1>1, <4>1, <4>2 DEF Candidates
    <3> QED
      BY <2>1, <3>1 DEF SignIn, GoogleKnown, LoginManager, LoginUser, tables
  <2>4. PICK c \in Calls : CallOf(c)
    BY <1>1, <2>2, <2>3 DEF Next
  <2>5. PICK k \in codes \cup call[c].codes, dies \in BOOLEAN : verify_code(c, k, dies)
    BY <2>1, <2>4 DEF CallOf, Authenticate, Answer, refresh_business, refresh_user, refresh_token,
         logout, delete_business, delete_user, Removed, delete_manager, send_verify_background,
         tables
  <2>6. /\ call[c].at = "granted" /\ call[c].does = "verify_code" /\ id = Caller(c)
        /\ k \in call[c].codes /\ email[k.id] = email[Caller(c)] /\ now - k.sent < Delta
    BY <1>1, <2>5 DEF verify_code, Granted, get_valid_code_by_session_id_and_email
  <2>7. k.id = id
    BY <1>1, <2>6 DEF Inv, LetThrough
  <2> QED
    BY <2>6, <2>7 DEF Granted
<1>2. Inv /\ [Next]_vars =>
        [\A id \in verified' \ verified :
            role[id] = "business" =>
                \E c \in Calls : /\ Granted(c, "verify_code") /\ Caller(c) = id
                                 /\ \E k \in call[c].codes :
                                        k.id = id /\ now - k.sent < Delta]_vars
  BY <1>1
<1> QED
  BY <1>2, Invariance, PTL DEF Spec, VerifiedByCode
=============================================================================
