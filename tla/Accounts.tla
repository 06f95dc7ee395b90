------------------------------ MODULE Accounts ------------------------------
(***************************************************************************)
(* Accounts of candidates, businesses and administrators, the tokens they  *)
(* sign in with, who may call which route, and the verification of a       *)
(* business's address (app/core/auth, user, business, admin and verify).   *)
(*                                                                         *)
(* An account is a row in one table and the rows of what it is in others,  *)
(* each committed on its own.  No handler here suspends: a registration    *)
(* and a sign-in, which need no token, are single steps, and any other     *)
(* call waits once, between its authentication, which a thread runs, and   *)
(* its handler.                                                            *)
(***************************************************************************)
EXTENDS Naturals, Sequences, FiniteSets, Routes

CONSTANTS
    Ids,        \* accounts that may be registered: ids are never used again
    Admins,     \* administrators that exist from the start
    Superusers, \* those of them that are superusers
    Addresses,  \* e-mail addresses
    Calls,      \* calls at a time
    Delta,      \* minutes a code is good for
    MaxTime,    \* bound: minutes
    MaxTokens,  \* bound: tokens ever signed
    None,       \* no role, no address, no token
    Faults      \* {"death"}: a handler may die between two commits

ASSUME ConstantsAssumption ==
    /\ Ids \cap Admins = {}
    /\ Superusers \subseteq Admins
    /\ {Delta, MaxTime, MaxTokens} \subseteq Nat
    /\ None \notin Addresses
    /\ Faults \subseteq {"death"}

VARIABLES
    rows,      \* the ids that have a row in each table
    role,      \* Account.role
    email,     \* Manager.email or User.email
    verified,  \* Business.is_verified_email and User.is_verified
    codes,     \* the table verify_code
    tokens,    \* what was ever signed
    revoked,   \* the table blacklist
    now,       \* minutes
    call       \* where each call is

vars == <<rows, role, email, verified, codes, tokens, revoked, now, call>>
tables == <<rows, role, email, verified, codes, revoked>>

All == Ids \cup Admins
Roles == {"user", "social_network", "business", "admin", "superuser"}

ASSUME RolesAssumption == None \notin Roles

Tables == {"account", "manager", "business", "admin", "user", "social_network"}
RowsTable == [Tables -> SUBSET All]
AccountColumns == [All -> Roles \cup {None}]
EmailColumn == [All -> Addresses \cup {None}]
VerifyCode == [id : Ids, sent : 0..MaxTime]
TokenPayload == [id : All, type : {"access_token", "refresh_token"}, iat : 0..MaxTime]

\* What a call knows: the token it came with and what it read when that was checked.
Call == [at : {"free", "granted"}, needs : Dependencies \cup {"anyone"}, does : Effects, token : TokenPayload \cup {None},
         unverified : BOOLEAN, codes : SUBSET VerifyCode]

Free == [at |-> "free", needs |-> "anyone", does |-> "nothing",
         token |-> None, unverified |-> FALSE, codes |-> {}]

BlacklistTable == SUBSET TokenPayload

TypeOK ==
    /\ rows \in RowsTable
    /\ role \in AccountColumns
    /\ email \in EmailColumn
    /\ verified \subseteq All
    /\ codes \subseteq VerifyCode
    /\ tokens \subseteq TokenPayload
    /\ revoked \in BlacklistTable
    /\ now \in 0..MaxTime
    /\ call \in [Calls -> Call]

-----------------------------------------------------------------------------
\* The rows an account of each role is made of, in the order they are committed.
AdminRows == <<"account", "manager", "admin">>
BusinessRows == <<"account", "manager", "business">>
UserRows == <<"account", "user">>
BugGoogleRows == <<"account", "user">>   \* mutant: the sign-in is not recorded
GoogleRows == <<"account", "user", "social_network">>

RowsOf(r) ==
    CASE r = "business" -> BusinessRows
      [] r = "user" -> UserRows
      [] r = "social_network" -> GoogleRows
      [] r \in {"admin", "superuser"} -> AdminRows

Whole(id) == /\ role[id] # None
             /\ \A i \in DOMAIN RowsOf(role[id]) : id \in rows[RowsOf(role[id])[i]]

\* Who holds an address among the managers, or among the candidates.
Holders(table, a) == {id \in rows[table] : email[id] = a}

EmailTable(r) == IF r = "business" THEN "manager" ELSE "user"

\* The first n of the rows of a new account; its address comes with the second.
Written(id, r, a, n) ==
    /\ rows' = [t \in Tables |-> IF \E i \in 1..n : RowsOf(r)[i] = t
                                 THEN rows[t] \cup {id} ELSE rows[t]]
    /\ role' = [role EXCEPT ![id] = r]
    /\ email' = IF n > 1 THEN [email EXCEPT ![id] = a] ELSE email

\* mutant: signed for the minute to come
BugSigned(id, types) == {[id |-> id, type |-> ty, iat |-> now + 1] : ty \in types}

\* The two tokens of a sign-in; the payload's role is the account's.
Signed(id, types) == {[id |-> id, type |-> ty, iat |-> now] : ty \in types}

signJWT(id, types) ==
    /\ Signed(id, types) \cap tokens = {}   \* bound: one sign-in a minute
    /\ Cardinality(tokens) + Cardinality(types) <= MaxTokens
    /\ tokens' = tokens \cup Signed(id, types)

Both == {"access_token", "refresh_token"}

Init ==
    /\ rows = [t \in Tables |-> IF t \in {"account", "manager", "admin"} THEN Admins ELSE {}]
    /\ role = [id \in All |-> IF id \in Superusers THEN "superuser"
                              ELSE IF id \in Admins THEN "admin" ELSE None]
    /\ email = [id \in All |-> None]
    /\ verified = {}
    /\ codes = {}
    /\ tokens = {}
    /\ revoked = {}
    /\ now = 0
    /\ call = [c \in Calls |-> Free]

-----------------------------------------------------------------------------
\* A registration, from the look for its address to the tokens.  The upload of an
\* avatar between them is a plain call: it suspends nothing.
Register(id, r, a, n) ==
    /\ role[id] = None
    /\ Holders(EmailTable(r), a) = {}
    /\ n \in 1..Len(RowsOf(r))
    /\ n < Len(RowsOf(r)) => "death" \in Faults
    /\ Written(id, r, a, n)
    /\ IF n = Len(RowsOf(r)) THEN signJWT(id, Both) ELSE tokens' = tokens
    /\ UNCHANGED <<verified, codes, revoked, now, call>>

RegisterBusiness(id, a, n) == Register(id, "business", a, n)

RegisterUser(id, a, n) == Register(id, "user", a, n)

\* Sign-in with Google, of an account that Google vouched for before...
GoogleKnown(id) ==
    /\ id \in rows["social_network"]
    /\ signJWT(id, Both)
    /\ UNCHANGED <<tables, now, call>>

\* ...of a candidate that registered with the address: it is verified in one
\* commit and linked in the next...
GoogleLink(id, dies) ==
    /\ id \in rows["user"] \ rows["social_network"]
    /\ dies => "death" \in Faults
    /\ verified' = verified \cup {id}
    /\ IF dies
       THEN UNCHANGED <<rows, tokens>>
       ELSE /\ rows' = [rows EXCEPT !["social_network"] = @ \cup {id}]
            /\ signJWT(id, Both)
    /\ UNCHANGED <<role, email, codes, revoked, now, call>>

\* ...and of an address no candidate has.
GoogleNew(id, a, n) == Register(id, "social_network", a, n)

\* mutant: the reply needs no row of a business
BugLoginManager(id) ==
    /\ id \in rows["manager"]
    /\ signJWT(id, Both)
    /\ UNCHANGED <<tables, now, call>>

\* Sign-in with the password.  The reply reads the business's row, or the
\* administrator's when there is none; without either there is no reply.
LoginManager(id) ==
    /\ id \in rows["manager"]
    /\ id \in rows["business"] \cup rows["admin"]
    /\ signJWT(id, Both)
    /\ UNCHANGED <<tables, now, call>>

\* An account that came from Google has no password.
LoginUser(id) ==
    /\ id \in rows["user"]
    /\ role[id] = "user"
    /\ signJWT(id, Both)
    /\ UNCHANGED <<tables, now, call>>

-----------------------------------------------------------------------------
\* What the dependency of a route asks of the token.
ByRole(t, roles) == /\ role[t.id] \in roles
                    /\ t.id \in rows["manager"]

AccountFromData(t) ==
    \/ role[t.id] = "user" /\ t.id \in rows["user"]
    \/ role[t.id] = "social_network" /\ t.id \in rows["social_network"]

UserOrBusinessVerify(t) ==
    /\ AccountFromData(t) \/ ByRole(t, {"business"})
    /\ t.id \in verified

Accepts(t, needs) ==
    CASE needs = "user" -> AccountFromData(t)
      [] needs = "user_or_business_verify" -> UserOrBusinessVerify(t)
      [] needs = "business" -> ByRole(t, {"business"})
      [] needs = "business_admin_superuser" -> ByRole(t, {"business", "admin", "superuser"})
      [] needs = "admin" -> ByRole(t, {"admin", "superuser"})
      [] needs = "superuser" -> ByRole(t, {"superuser"})

\* A websocket asks for the row of the account only, and of a candidate that it
\* is verified.
AcceptsWebsocket(t) ==
    /\ t.id \in rows["account"]
    /\ role[t.id] \in {"user", "social_network"} => t.id \in verified

check_blacklist(t) == t \in revoked

\* A call with a token is let through; the view of its database session is fixed.
Authenticate(c, t, needs, does) ==
    /\ call[c] = Free
    /\ ~check_blacklist(t)
    /\ IF needs = "websocket" THEN AcceptsWebsocket(t) ELSE Accepts(t, needs)
    /\ call' = [call EXCEPT ![c] =
           [at |-> "granted", needs |-> needs, does |-> does, token |-> t,
            unverified |-> does = "send_verify_code" /\ t.id \notin verified,
            codes |-> IF does = "verify_code" THEN codes ELSE {}]]
    /\ UNCHANGED <<tables, tokens, now>>

Granted(c, does) == call[c].at = "granted" /\ call[c].does = does
Answered(c) == call' = [call EXCEPT ![c] = Free]
Caller(c) == call[c].token.id

\* A route that changes nothing here, or a call that ends before it does.
Answer(c) ==
    /\ call[c].at # "free"
    /\ Answered(c)
    /\ UNCHANGED <<tables, tokens, now>>

\* The account signs in again by its refresh token; a manager must be a business.
refresh_token(c) ==
    /\ call[c].token.type = "refresh_token"
    /\ signJWT(Caller(c), {"access_token"})
    /\ Answered(c)
    /\ UNCHANGED <<tables, now>>

refresh_business(c) ==
    /\ Granted(c, "refresh_business")
    /\ role[Caller(c)] = "business"
    /\ refresh_token(c)

refresh_user(c) == Granted(c, "refresh_user") /\ refresh_token(c)

logout(c) ==
    /\ Granted(c, "logout")
    /\ revoked' = revoked \cup {call[c].token}
    /\ Answered(c)
    /\ UNCHANGED <<rows, role, email, verified, codes, tokens, now>>

\* The row of an account goes, and the rows that refer to it with it.
Removed(id) ==
    /\ rows' = [t \in Tables |-> rows[t] \ {id}]
    /\ codes' = {k \in codes : k.id # id}
    /\ UNCHANGED <<role, email, verified, tokens, revoked, now>>

delete_business(c) ==
    /\ Granted(c, "delete_business")
    /\ Removed(Caller(c))
    /\ Answered(c)

\* The row of Google has no rule for it: the database refuses to remove a
\* candidate it refers to.
delete_user(c) ==
    /\ Granted(c, "delete_user")
    /\ Caller(c) \notin rows["social_network"]
    /\ Removed(Caller(c))
    /\ Answered(c)

\* An administrator removes itself, a superuser anybody who is a manager: the
\* manager's row goes, with what it is made of, and the account's stays.
delete_manager(c, id) ==
    /\ Granted(c, "delete_manager")
    /\ id = Caller(c) \/ role[Caller(c)] = "superuser"
    /\ id \in rows["manager"]
    /\ rows' = [t \in Tables |-> IF t \in {"manager", "business", "admin"}
                                 THEN rows[t] \ {id} ELSE rows[t]]
    /\ codes' = {k \in codes : k.id # id}
    /\ Answered(c)
    /\ UNCHANGED <<role, email, verified, tokens, revoked, now>>

-----------------------------------------------------------------------------
\* A code is mailed to a business that is not verified, as the call sees it.
send_verify_background(c) ==
    /\ Granted(c, "send_verify_code")
    /\ call[c].unverified
    /\ Caller(c) \in rows["manager"]
    /\ [id |-> Caller(c), sent |-> now] \notin codes   \* bound: one a minute
    /\ codes' = codes \cup {[id |-> Caller(c), sent |-> now]}
    /\ Answered(c)
    /\ UNCHANGED <<rows, role, email, verified, tokens, revoked, now>>

\* mutant: by the session alone
BugSearch(c) == {k \in call[c].codes : now - k.sent < Delta}

\* The codes a call may name: of its own address, and mailed lately.
get_valid_code_by_session_id_and_email(c) ==
    {k \in call[c].codes : email[k.id] = email[Caller(c)] /\ now - k.sent < Delta}

\* A right code is used up in one commit and the business verified in the next,
\* which fails when the business is gone.  A wrong code is answered and changes
\* nothing: the update that would count it is refused by its own schema, so that
\* no code ever reaches the attempts that block an address.
verify_code(c, k, dies) ==
    /\ Granted(c, "verify_code")
    /\ k \in get_valid_code_by_session_id_and_email(c)
    /\ dies => "death" \in Faults
    /\ codes' = codes \ {k}
    /\ verified' = IF dies \/ Caller(c) \notin rows["business"]
                   THEN verified ELSE verified \cup {Caller(c)}
    /\ Answered(c)
    /\ UNCHANGED <<rows, role, email, tokens, revoked, now>>

Tick ==
    /\ now < MaxTime
    /\ now' = now + 1
    /\ UNCHANGED <<tables, tokens, call>>

SignIn ==
    \/ \E id \in All : GoogleKnown(id) \/ LoginManager(id) \/ LoginUser(id)
    \/ \E id \in Ids, dies \in BOOLEAN : GoogleLink(id, dies)

Registration ==
    \E id \in Ids, a \in Addresses, n \in 1..3 :
        RegisterBusiness(id, a, n) \/ RegisterUser(id, a, n) \/ GoogleNew(id, a, n)

CallOf(c) ==
    \/ \E t \in tokens, r \in Guarded : Authenticate(c, t, r.needs, r.does)
    \/ Answer(c)
    \/ refresh_business(c)
    \/ refresh_user(c)
    \/ logout(c)
    \/ delete_business(c)
    \/ delete_user(c)
    \/ \E id \in All : delete_manager(c, id)
    \/ send_verify_background(c)
    \/ \E k \in codes \cup call[c].codes, dies \in BOOLEAN : verify_code(c, k, dies)

Next == Registration \/ SignIn \/ Tick \/ (\E c \in Calls : CallOf(c))

Spec == Init /\ [][Next]_vars

-----------------------------------------------------------------------------
\* A call that is let through to an HTTP route is of an account that has all of
\* its rows at that moment: the handlers read current_user.manager.business,
\* .admin or .user without looking.  An account whose registration died or that
\* was removed since is not let through.
WholeWhenGranted ==
    [][\A c \in Calls :
        call[c].at # "granted" /\ call'[c].at = "granted" /\ call'[c].needs # "websocket"
            => Whole(call'[c].token.id)]_vars

\* A token is good until its owner logs out with it or a row of the account is
\* removed: nothing a sign-in, a link with Google or another call does in
\* between makes the routes of its kind refuse it.
SignedInStaysIn ==
    \A t \in tokens \ revoked :
        \/ Accepts(t, IF role[t.id] \in {"user", "social_network"}
                      THEN "user" ELSE "business_admin_superuser")
        \/ t.id \notin rows["account"]
        \/ role[t.id] \in {"admin", "superuser", "business"} /\ t.id \notin rows["manager"]

\* A business becomes verified only by a code that was mailed to its own address
\* less than Delta minutes ago, whatever codes of others the call may name and
\* however long it waited.
VerifiedByCode ==
    [][\A id \in verified' \ verified :
        role[id] = "business" =>
            \E c \in Calls : /\ Granted(c, "verify_code") /\ Caller(c) = id
                             /\ \E k \in call[c].codes : k.id = id /\ now - k.sent < Delta]_vars
=============================================================================
