----------------------------- MODULE AuthService -----------------------------
(***************************************************************************)
(* login_service, refresh_tokens_service and logout_service, with the      *)
(* routes that call them.                                                  *)
(* A handler is a coroutine: between two awaits other handlers and tasks   *)
(* run, so each await on Redis is a step of its own. The rate limits the   *)
(* handlers start with have keys of their own and are left out; a 429 is   *)
(* one of the ways a request can be refused.                               *)
(***************************************************************************)
EXTENDS SessionStore

CONSTANTS
    Reqs,       \* requests in flight at the same time
    Routes,     \* the endpoints the instance's clients call
    MaxLogins   \* bound: no login starts once this many have stored a session

VARIABLES
    req,        \* per request: program counter and local variables
    known       \* tokens some client has received

authVars == <<req, known>>

ReqPcs == {"idle", "login", "read", "delete", "store", "reply", "logout"}

Request == [pc : ReqPcs, tok : Tokens \cup {None}, agent : Agents \cup {None},
            rec : Session \cup {None}, new : Tokens \cup {None}]

IdleReq == [pc |-> "idle", tok |-> None, agent |-> None, rec |-> None, new |-> None]

AuthTypeOK ==
    /\ req \in [Reqs -> Request]
    /\ known \subseteq Tokens

AuthInit ==
    /\ req = [r \in Reqs |-> IdleReq]
    /\ known = {}

Goto(r, pc) == req' = [req EXCEPT ![r].pc = pc]
EndRequest(r) == req' = [req EXCEPT ![r] = IdleReq]

-----------------------------------------------------------------------------
(* POST /auth/login *)

(* User.authenticate accepts the password and both rate limits pass. A     *)
(* refused login changes no key of the store: it is no step.               *)
LoginAuthenticate(r, u, a) ==
    LET s == [user |-> u, agent |-> a] IN
    /\ "login" \in Routes
    /\ req[r].pc = "idle"
    /\ Cardinality({q \in issued : parent[q] = None}) < MaxLogins
    /\ req' = [req EXCEPT ![r] = [IdleReq EXCEPT !.pc = "login", !.agent = a, !.rec = s]]
    /\ logins' = logins \cup {s}
    /\ UNCHANGED <<rt, blrt, blat, issued, parent, owner, known>>

LoginStore(r, q) ==
    /\ req[r].pc = "login"
    /\ Mint(q, req[r].rec.user, req[r].agent, None)
    /\ req' = [req EXCEPT ![r] = [@ EXCEPT !.pc = "reply", !.new = q]]
    /\ UNCHANGED known

(* The audit message is queued and the pair sent: login and refresh end    *)
(* alike.                                                                  *)
Reply(r) ==
    /\ req[r].pc = "reply"
    /\ known' = known \cup {req[r].new}
    /\ EndRequest(r)
    /\ UNCHANGED storeVars

-----------------------------------------------------------------------------
(* POST /auth/refresh *)

(* GET rt:<hash>. An absent record raises InvalidRefreshTokenError and     *)
(* changes nothing: it is no step.                                         *)
RefreshRead(r, p, a) ==
    /\ "refresh" \in Routes
    /\ req[r].pc = "idle"
    /\ p \in known
    /\ rt[p] # None
    /\ req' = [req EXCEPT ![r] =
                 [IdleReq EXCEPT !.pc = "read", !.tok = p, !.agent = a, !.rec = rt[p]]]
    /\ UNCHANGED <<storeVars, known>>

(* Mutant: any user agent will do.                                         *)
RefreshCheckAnyAgent(r) ==
    /\ req[r].pc = "read"
    /\ Goto(r, "delete")
    /\ UNCHANGED <<storeVars, known>>

(* The user agent matches the record that was read and the user exists and *)
(* is active. The record is not read again.                                *)
RefreshCheck(r) ==
    /\ req[r].pc = "read"
    /\ req[r].rec.agent = req[r].agent
    /\ Goto(r, "delete")
    /\ UNCHANGED <<storeVars, known>>

(* Mutant: the old record is left in place.                                *)
RefreshNoDelete(r) ==
    /\ req[r].pc = "delete"
    /\ Goto(r, "store")
    /\ UNCHANGED <<storeVars, known>>

RefreshDelete(r) ==
    /\ req[r].pc = "delete"
    /\ Drop(req[r].tok)
    /\ Goto(r, "store")
    /\ UNCHANGED known

(* Mutant: the pair is minted for anyone who ever logged in.               *)
RefreshStoreOther(r, q) ==
    /\ req[r].pc = "store"
    /\ \E s \in logins : Mint(q, s.user, s.agent, req[r].tok)
    /\ req' = [req EXCEPT ![r] = [@ EXCEPT !.pc = "reply", !.new = q]]
    /\ UNCHANGED known

(* Mutant: the record is written back under the old token's key.           *)
RefreshStoreInPlace(r, q) ==
    /\ req[r].pc = "store"
    /\ rt' = [rt EXCEPT ![req[r].tok] = req[r].rec]
    /\ req' = [req EXCEPT ![r] = [@ EXCEPT !.pc = "reply", !.new = req[r].tok]]
    /\ UNCHANGED <<blrt, blat, issued, parent, owner, logins, known>>

RefreshStore(r, q) ==
    /\ req[r].pc = "store"
    /\ Mint(q, req[r].rec.user, req[r].agent, req[r].tok)
    /\ req' = [req EXCEPT ![r] = [@ EXCEPT !.pc = "reply", !.new = q]]
    /\ UNCHANGED known

-----------------------------------------------------------------------------
(* POST /auth/logout: either token may be missing from the request, and the*)
(* two need not be of one pair. The refresh cookie's key is set first.     *)
LogoutRefreshToken(r, p) ==
    /\ "logout" \in Routes
    /\ req[r].pc = "idle"
    /\ p \in known
    /\ BlacklistRefresh(p)
    /\ req' = [req EXCEPT ![r] = [IdleReq EXCEPT !.pc = "logout", !.tok = p]]
    /\ UNCHANGED known

LogoutAccessToken(r, p) ==
    /\ "logout" \in Routes
    /\ req[r].pc \in {"idle", "logout"}
    /\ p \in known
    /\ BlacklistAccess(p)
    /\ EndRequest(r)
    /\ UNCHANGED known

-----------------------------------------------------------------------------
(* A request that ends early: 429 from a rate limit, 401 for a wrong user  *)
(* agent or a missing or inactive user, an error of Redis, of the database *)
(* or of the broker, an exception from a callee, a cancelled handler, or a *)
(* process that dies. What was written stays written.                      *)
Abort(r) ==
    /\ req[r].pc # "idle"
    /\ EndRequest(r)
    /\ UNCHANGED <<storeVars, known>>

RequestStep(r) ==
    \/ \E u \in Users, a \in Agents : LoginAuthenticate(r, u, a)
    \/ \E q \in Tokens : LoginStore(r, q)
    \/ Reply(r)
    \/ \E p \in Tokens, a \in Agents : RefreshRead(r, p, a)
    \/ RefreshCheck(r)
    \/ RefreshDelete(r)
    \/ \E q \in Tokens : RefreshStore(r, q)
    \/ \E p \in Tokens : LogoutRefreshToken(r, p)
    \/ \E p \in Tokens : LogoutAccessToken(r, p)
    \/ Abort(r)

=============================================================================
