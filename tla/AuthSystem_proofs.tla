-------------------------- MODULE AuthSystem_proofs --------------------------
(***************************************************************************)
(* Proofs of AuthSystem's safety properties, and of SessionSweep's, for    *)
(* every set of users, agents, tokens, requests and tasks and every number *)
(* of workers.                                                             *)
(***************************************************************************)
EXTENDS SessionSweep, FiniteSetTheorems, TLAPS

(* A token nobody minted has no record and no relation to others.          *)
StoreInv ==
    /\ StoreTypeOK
    /\ \A q \in Tokens \ issued : rt[q] = None /\ parent[q] = None
    /\ \A q \in Tokens : rt[q] # None => rt[q] = owner[q]
    /\ \A q \in Tokens : parent[q] # None => parent[q] \in issued
    /\ SessionsComeFromLogin
    /\ PredecessorIsDead

(* What a handler carries from await to await: a record that came from a   *)
(* login, bound to its own agent once that was checked, and, past the      *)
(* DELETE, a token that is dead.                                           *)
RequestOK(r) ==
    /\ req[r].pc \in {"login", "read", "delete", "store"} => req[r].rec \in logins
    /\ req[r].pc \in {"read", "delete", "store"} => req[r].rec = owner[req[r].tok]
    /\ req[r].pc \in {"login", "delete", "store"} => req[r].rec.agent = req[r].agent
    /\ req[r].pc \in {"read", "delete", "store", "logout"} => req[r].tok \in issued
    /\ req[r].pc = "store" => rt[req[r].tok] = None
    /\ req[r].pc = "reply" => req[r].new \in issued

RequestInv ==
    /\ AuthTypeOK
    /\ known \subseteq issued
    /\ \A r \in Reqs : RequestOK(r)

(* A token that a task has finished with.                                  *)
Rotated(p) ==
    /\ rt[p] = None
    /\ p \in blrt
    /\ \E q \in Tokens : parent[q] = p

(* What a task has achieved by the time it reaches each of its steps.      *)
TaskOK(t) ==
    /\ task[t].pc # "idle" => task[t].tok \in issued
    /\ task[t].pc # "finally" => task[t].out = "none"
    /\ task[t].pc \in {"delete", "blrt", "blat", "store"} =>
         /\ task[t].rec \in logins /\ task[t].rec = owner[task[t].tok]
         /\ task[t].rec.agent = task[t].agent
    /\ task[t].pc \in {"blrt", "blat", "store"} => rt[task[t].tok] = None
    /\ task[t].pc \in {"blat", "store"} => task[t].tok \in blrt
    /\ task[t].pc \in {"mark", "commit"} => Rotated(task[t].tok)
    /\ task[t].out \in {"SUCCESS", "IDEMPOTENT"} => Rotated(task[t].tok)

TaskInv ==
    /\ TaskTypeOK
    /\ \A p \in idem : Rotated(p)
    /\ \A t \in Tasks : TaskOK(t)

(* The inductive invariant.                                                *)
IInv == StoreInv /\ RequestInv /\ TaskInv

(* Every step does one of these to the store.                              *)
StoreStep ==
    \/ UNCHANGED storeVars
    \/ \E s \in Session : logins' = logins \cup {s} /\ UNCHANGED <<rt, blrt, blat, issued, parent, owner>>
    \/ \E p \in Tokens : Drop(p) \/ BlacklistRefresh(p) \/ BlacklistAccess(p)
    \/ \E q \in Tokens, s \in logins, p \in issued \cup {None} :
          /\ p # None => rt[p] = None /\ owner[p] = s
          /\ Mint(q, s.user, s.agent, p)

-----------------------------------------------------------------------------
USE NoneAssumption, RefreshTaskAssumption

(* The inductive invariant holds before anyone has logged in.              *)
LEMMA InitInv == Init => IInv
  BY DEF Init, StoreInit, AuthInit, TaskInit, IInv, StoreInv, StoreTypeOK, SessionsComeFromLogin,
         PredecessorIsDead, RequestInv, AuthTypeOK, RequestOK, TaskInv, TaskTypeOK, TaskOK, Rotated,
         IdleReq, IdleTask, Request, ReqPcs, Task, TaskPcs, Outcomes

(* The store's invariant is preserved by each kind of step.                *)
LEMMA StoreStepInv == ASSUME StoreInv, StoreStep PROVE StoreInv'
<1> USE DEF StoreInv, StoreTypeOK, SessionsComeFromLogin, PredecessorIsDead
<1>1. CASE UNCHANGED storeVars
  BY <1>1 DEF storeVars
<1>2. CASE \E s \in Session : logins' = logins \cup {s} /\ UNCHANGED <<rt, blrt, blat, issued, parent, owner>>
  BY <1>2
<1>3. CASE \E p \in Tokens : Drop(p) \/ BlacklistRefresh(p) \/ BlacklistAccess(p)
  BY <1>3 DEF Drop, BlacklistRefresh, BlacklistAccess
<1>4. ASSUME NEW q \in Tokens, NEW s \in logins, NEW p \in issued \cup {None},
             p # None => rt[p] = None /\ owner[p] = s, Mint(q, s.user, s.agent, p)
      PROVE  StoreInv'
  <2>1. s \in Session /\ s = [user |-> s.user, agent |-> s.agent]
    BY DEF Session
  <2>2. /\ q \notin issued /\ issued' = issued \cup {q}
        /\ parent' = [parent EXCEPT ![q] = p]
        /\ rt' = [rt EXCEPT ![q] = s] /\ owner' = [owner EXCEPT ![q] = s]
        /\ UNCHANGED <<blrt, blat, logins>>
    BY <1>4, <2>1 DEF Mint
  <2> QED BY <1>4, <2>1, <2>2
<1> QED BY <1>1, <1>2, <1>3, <1>4 DEF StoreStep

(* Nothing that is minted, logged in, blacklisted or rotated is undone.    *)
LEMMA StoreMonotonic ==
  ASSUME StoreInv, StoreStep
  PROVE  /\ issued \subseteq issued' /\ logins \subseteq logins' /\ blrt \subseteq blrt'
         /\ \A p \in issued : owner'[p] = owner[p]
         /\ \A p \in issued : rt[p] = None => rt'[p] = None
         /\ \A p \in Tokens : Rotated(p) => p \in issued /\ Rotated(p)'
<1> USE DEF StoreInv, StoreTypeOK
<1>1. /\ issued \subseteq issued' /\ logins \subseteq logins' /\ blrt \subseteq blrt'
      /\ \A p \in issued : owner'[p] = owner[p]
      /\ \A p \in issued : rt[p] = None => rt'[p] = None
  BY DEF StoreStep, storeVars, Drop, BlacklistRefresh, BlacklistAccess, Mint
<1>2. \A q \in Tokens : parent[q] # None => parent'[q] = parent[q]
  BY DEF StoreStep, storeVars, Drop, BlacklistRefresh, BlacklistAccess, Mint
<1>3. ASSUME NEW p \in Tokens, Rotated(p) PROVE p \in issued /\ Rotated(p)'
  <2>1. PICK q \in Tokens : parent[q] = p
    BY <1>3 DEF Rotated
  <2>2. p # None /\ p \in issued
    BY <2>1
  <2>3. parent'[q] = p
    BY <1>2, <2>1, <2>2
  <2> QED BY <1>1, <1>3, <2>2, <2>3 DEF Rotated
<1> QED BY <1>1, <1>3

(* Those who do not move keep what they had.                               *)
LEMMA RequestStable ==
  ASSUME StoreInv, StoreStep, NEW r \in Reqs, RequestOK(r), req'[r] = req[r]
  PROVE  RequestOK(r)'
  BY StoreMonotonic DEF RequestOK

(* The same for a task,                                                    *)
LEMMA TaskStable ==
  ASSUME StoreInv, StoreStep, NEW t \in Tasks, TaskOK(t), task'[t] = task[t]
  PROVE  TaskOK(t)'
  BY StoreMonotonic DEF TaskOK, StoreInv, StoreTypeOK

(* and for a token whose marker is set.                                    *)
LEMMA IdemStable ==
  ASSUME StoreInv, StoreStep, idem \subseteq Tokens, \A p \in idem : Rotated(p)
  PROVE  \A p \in idem : Rotated(p)'
  BY StoreMonotonic

-----------------------------------------------------------------------------
(* What one step of a handler does: to the store, to itself, to no other.  *)
HandlerMoves(r) ==
    /\ StoreStep
    /\ AuthTypeOK'
    /\ known' \subseteq issued'
    /\ RequestOK(r)'
    /\ \A x \in Reqs \ {r} : req'[x] = req[x]

(* Handing over the new pair keeps a request a request.                    *)
LEMMA ReplyType ==
  ASSUME NEW x \in Request, NEW q \in Tokens
  PROVE  [x EXCEPT !.pc = "reply", !.new = q] \in Request
  BY DEF Request, ReqPcs

LEMMA ReplyKeepsType ==
  ASSUME AuthTypeOK, NEW r \in Reqs, NEW q \in Tokens,
         req' = [req EXCEPT ![r] = [req[r] EXCEPT !.pc = "reply", !.new = q]], known' = known
  PROVE  AuthTypeOK'
<1>1. req \in [Reqs -> Request] /\ known \subseteq Tokens /\ req[r] \in Request
  BY DEF AuthTypeOK
<1>2. [req[r] EXCEPT !.pc = "reply", !.new = q] \in Request
  BY <1>1, ReplyType
<1> QED BY <1>1, <1>2 DEF AuthTypeOK

(* Every step of a handler is such a move.                                 *)
LEMMA HandlerStep ==
  ASSUME StoreInv, RequestInv, NEW r \in Reqs, RequestStep(r)
  PROVE  HandlerMoves(r)
<1> USE DEF StoreInv, StoreTypeOK, RequestInv, AuthTypeOK, HandlerMoves, RequestOK, Request, ReqPcs,
            IdleReq, Goto, EndRequest, storeVars
<1>1. ASSUME NEW u \in Users, NEW a \in Agents, LoginAuthenticate(r, u, a) PROVE HandlerMoves(r)
  <2>1. [user |-> u, agent |-> a] \in Session
    BY DEF Session
  <2>2. StoreStep
    BY <1>1, <2>1 DEF LoginAuthenticate, StoreStep
  <2> QED BY <1>1, <2>1, <2>2 DEF LoginAuthenticate
<1>2. ASSUME NEW q \in Tokens, LoginStore(r, q) PROVE HandlerMoves(r)
  <2>1. req[r].rec \in logins /\ req[r].agent = req[r].rec.agent
    BY <1>2 DEF LoginStore
  <2>2. StoreStep
    BY <1>2, <2>1 DEF LoginStore, StoreStep
  <2>3. /\ req' = [req EXCEPT ![r] = [req[r] EXCEPT !.pc = "reply", !.new = q]]
        /\ known' = known /\ q \in issued' /\ issued \subseteq issued'
    BY <1>2 DEF LoginStore, Mint
  <2>4. AuthTypeOK'
    <3> HIDE DEF Request, ReqPcs, RequestOK, StoreInv, StoreTypeOK, HandlerMoves, AuthTypeOK
    <3> QED BY <2>3, ReplyKeepsType
  <2>5. RequestOK(r)'
    BY <2>3
  <2> QED BY <2>2, <2>3, <2>4, <2>5
<1>3. CASE Reply(r)
  BY <1>3 DEF Reply, StoreStep
<1>4. ASSUME NEW p \in Tokens, NEW a \in Agents, RefreshRead(r, p, a) PROVE HandlerMoves(r)
  <2>1. rt[p] \in logins
    BY <1>4 DEF RefreshRead, SessionsComeFromLogin
  <2> QED BY <1>4, <2>1 DEF RefreshRead, StoreStep
<1>5. CASE RefreshCheck(r)
  BY <1>5 DEF RefreshCheck, StoreStep
<1>6. CASE RefreshDelete(r)
  <2>1. StoreStep
    BY <1>6 DEF RefreshDelete, StoreStep
  <2> QED BY <1>6, <2>1 DEF RefreshDelete, Drop
<1>7. ASSUME NEW q \in Tokens, RefreshStore(r, q) PROVE HandlerMoves(r)
  <2>1. /\ req[r].rec \in logins /\ req[r].agent = req[r].rec.agent
        /\ req[r].tok \in issued /\ rt[req[r].tok] = None
    BY <1>7 DEF RefreshStore
  <2>2. StoreStep
    BY <1>7, <2>1 DEF RefreshStore, StoreStep
  <2>3. /\ req' = [req EXCEPT ![r] = [req[r] EXCEPT !.pc = "reply", !.new = q]]
        /\ known' = known /\ q \in issued' /\ issued \subseteq issued'
    BY <1>7 DEF RefreshStore, Mint
  <2>4. AuthTypeOK'
    <3> HIDE DEF Request, ReqPcs, RequestOK, StoreInv, StoreTypeOK, HandlerMoves, AuthTypeOK
    <3> QED BY <2>3, ReplyKeepsType
  <2>5. RequestOK(r)'
    BY <2>3
  <2> QED BY <2>2, <2>3, <2>4, <2>5
<1>8. ASSUME NEW p \in Tokens, LogoutRefreshToken(r, p) PROVE HandlerMoves(r)
  BY <1>8 DEF LogoutRefreshToken, StoreStep, BlacklistRefresh
<1>9. ASSUME NEW p \in Tokens, LogoutAccessToken(r, p) PROVE HandlerMoves(r)
  BY <1>9 DEF LogoutAccessToken, StoreStep, BlacklistAccess
<1>10. CASE Abort(r)
  BY <1>10 DEF Abort, StoreStep
<1> QED
  BY <1>1, <1>2, <1>3, <1>4, <1>5, <1>6, <1>7, <1>8, <1>9, <1>10 DEF RequestStep

-----------------------------------------------------------------------------
(* The same for one step of a task.                                        *)
TaskMoves(t) ==
    /\ StoreStep
    /\ TaskTypeOK'
    /\ \A p \in idem' : Rotated(p)'
    /\ TaskOK(t)'
    /\ \A x \in Tasks \ {t} : task'[x] = task[x]

(* How the two ways of moving a task's program counter change its record.  *)
LEMMA AdvanceLocals ==
  ASSUME task \in [Tasks -> Task], NEW t \in Tasks, NEW pc \in TaskPcs, Advance(t, pc)
  PROVE  /\ task' \in [Tasks -> Task]
         /\ \A x \in Tasks \ {t} : task'[x] = task[x]
         /\ task'[t].pc = pc
         /\ task'[t].tok = task[t].tok /\ task'[t].agent = task[t].agent
         /\ task'[t].rec = task[t].rec /\ task'[t].out = task[t].out
         /\ task'[t].tries = task[t].tries
<1>1. task[t] \in Task /\ task' = [task EXCEPT ![t] = [task[t] EXCEPT !.pc = pc]]
  BY DEF Advance
<1>2. [task[t] EXCEPT !.pc = pc] \in Task
  BY <1>1 DEF Task
<1> QED BY <1>1, <1>2 DEF Task

(* Leaving for the finally block drops the record that was read.           *)
LEMMA LeaveLocals ==
  ASSUME task \in [Tasks -> Task], NEW t \in Tasks, NEW out \in Outcomes, Leave(t, out)
  PROVE  /\ task' \in [Tasks -> Task]
         /\ \A x \in Tasks \ {t} : task'[x] = task[x]
         /\ task'[t].pc = "finally" /\ task'[t].tok = task[t].tok /\ task'[t].out = out
         /\ task'[t].tries = task[t].tries
<1> DEFINE new == [task[t] EXCEPT !.pc = "finally", !.out = out, !.rec = None]
<1>1. task[t] \in Task /\ task' = [task EXCEPT ![t] = new]
  BY DEF Leave
<1>2. new \in Task
  BY <1>1 DEF Task, TaskPcs
<1> QED BY <1>1, <1>2 DEF Task

(* A settled task is idle or queued again with the same token.             *)
LEMMA SettleLocals ==
  ASSUME task \in [Tasks -> Task], NEW t \in Tasks, NEW retry \in BOOLEAN, Settle(t, retry)
  PROVE  /\ task' \in [Tasks -> Task]
         /\ \A x \in Tasks \ {t} : task'[x] = task[x]
         /\ \/ task'[t].pc = "idle"
            \/ /\ task'[t].pc = "queued" /\ task'[t].tok = task[t].tok
               /\ task'[t].tries = task[t].tries + 1
         /\ task'[t].out = "none"
<1> DEFINE again == QueuedTask(task[t].tok, task[t].agent, task[t].tries + 1)
<1>1. task[t] \in Task
  OBVIOUS
<1>2. IdleTask \in Task /\ IdleTask.pc = "idle" /\ IdleTask.out = "none"
  BY DEF IdleTask, Task, TaskPcs, Outcomes
<1>3. CASE task' = [task EXCEPT ![t] = IdleTask]
  BY <1>2, <1>3
<1>4. CASE task[t].tries < MaxRetries /\ task' = [task EXCEPT ![t] = again]
  <2>1. again \in Task
    <3>1. task[t].tries \in 0 .. MaxRetries /\ task[t].tok \in Tokens \cup {None}
          /\ task[t].agent \in Agents \cup {None}
      BY <1>1 DEF Task
    <3>2. task[t].tries + 1 \in 0 .. MaxRetries
      BY <1>4, <3>1
    <3> QED BY <3>1, <3>2 DEF QueuedTask, Task, TaskPcs, Outcomes
  <2>2. /\ again.pc = "queued" /\ again.tok = task[t].tok /\ again.out = "none"
        /\ again.tries = task[t].tries + 1
    BY DEF QueuedTask
  <2> QED BY <1>4, <2>1, <2>2
<1> QED BY <1>3, <1>4 DEF Settle

(* Every step of a task is such a move.                                    *)
LEMMA WorkerStep ==
  ASSUME StoreInv, TaskInv, NEW t \in Tasks, TaskStep(t)
  PROVE  TaskMoves(t)
<1> USE DEF TaskInv, TaskTypeOK, TaskMoves
<1>a. StoreTypeOK /\ SessionsComeFromLogin
  BY DEF StoreInv
<1>b. /\ TaskOK(t) /\ task[t] \in Task
      /\ (task[t].pc # "idle" => task[t].tok \in issued \cap Tokens)
  BY <1>a DEF TaskOK, StoreTypeOK
<1>c. ASSUME StoreStep PROVE \A p \in Tokens : Rotated(p) => Rotated(p)'
  BY <1>c, StoreMonotonic
<1>1. CASE Start(t)
  <2>1. StoreStep
    BY <1>1 DEF Start, StoreStep
  <2> QED BY <1>1, <1>b, <1>c, <2>1, AdvanceLocals DEF Start, TaskPcs, TaskOK, storeVars
<1>2. CASE CheckIdem(t)
  <2>1. StoreStep
    BY <1>2 DEF CheckIdem, StoreStep
  <2>2. CASE task[t].tok \in idem
    BY <1>2, <1>b, <1>c, <2>1, <2>2, LeaveLocals DEF CheckIdem, Outcomes, TaskOK, storeVars
  <2>3. CASE task[t].tok \notin idem
    BY <1>2, <1>b, <1>c, <2>1, <2>3, AdvanceLocals DEF CheckIdem, TaskPcs, TaskOK, storeVars
  <2> QED BY <2>2, <2>3
<1>3. CASE AcquireLock(t)
  <2>1. StoreStep
    BY <1>3 DEF AcquireLock, StoreStep
  <2>2. CASE lock[task[t].tok] = None
    BY <1>3, <1>b, <1>c, <2>1, <2>2, AdvanceLocals DEF AcquireLock, TaskPcs, TaskOK, storeVars
  <2>3. CASE lock[task[t].tok] # None
    BY <1>3, <1>b, <1>c, <2>1, <2>3, LeaveLocals DEF AcquireLock, Outcomes, TaskOK, storeVars
  <2> QED BY <2>2, <2>3
<1>4. CASE GetSession(t)
  <2>1. StoreStep
    BY <1>4 DEF GetSession, StoreStep
  <2>2. CASE Leave(t, "INVALID")
    BY <1>4, <1>b, <1>c, <2>1, <2>2, LeaveLocals DEF GetSession, Outcomes, TaskOK, storeVars
  <2>3. ASSUME NEW s, s = rt[task[t].tok], s # None, s.agent = task[t].agent,
               task' = [task EXCEPT ![t] = [@ EXCEPT !.pc = "delete", !.rec = s]]
        PROVE  TaskMoves(t)
    <3>1. s \in Session /\ s \in logins /\ s = owner[task[t].tok]
      BY <1>4, <1>a, <1>b, <2>3 DEF GetSession, StoreInv, StoreTypeOK, SessionsComeFromLogin
    <3>2. [task[t] EXCEPT !.pc = "delete", !.rec = s] \in Task
      BY <1>b, <3>1 DEF Task, TaskPcs
    <3>3. /\ task' \in [Tasks -> Task] /\ \A x \in Tasks \ {t} : task'[x] = task[x]
          /\ task'[t].pc = "delete" /\ task'[t].rec = s /\ task'[t].tok = task[t].tok
          /\ task'[t].agent = task[t].agent /\ task'[t].out = task[t].out
      BY <1>b, <2>3, <3>2 DEF Task
    <3> QED BY <1>4, <1>b, <1>c, <2>1, <2>3, <3>1, <3>3 DEF GetSession, TaskOK, storeVars
  <2> QED BY <1>4, <2>2, <2>3 DEF GetSession
<1>5. CASE DeleteSession(t)
  <2>1. StoreStep
    BY <1>5, <1>b DEF DeleteSession, StoreStep
  <2>2. rt'[task[t].tok] = None /\ UNCHANGED <<issued, logins, owner>>
    BY <1>5, <1>a, <1>b DEF DeleteSession, Drop, StoreTypeOK
  <2> QED BY <1>5, <1>b, <1>c, <2>1, <2>2, AdvanceLocals DEF DeleteSession, TaskPcs, TaskOK
<1>6. CASE BlacklistOldRefresh(t)
  <2>1. StoreStep
    BY <1>6, <1>b DEF BlacklistOldRefresh, StoreStep
  <2> QED BY <1>6, <1>b, <1>c, <2>1, AdvanceLocals
            DEF BlacklistOldRefresh, BlacklistRefresh, TaskPcs, TaskOK
<1>7. CASE BlacklistOldAccess(t)
  <2>1. StoreStep
    BY <1>7, <1>a DEF BlacklistOldAccess, StoreStep, StoreTypeOK
  <2> QED BY <1>7, <1>b, <1>c, <2>1, AdvanceLocals
            DEF BlacklistOldAccess, BlacklistAccess, TaskPcs, TaskOK
<1>8. ASSUME NEW q \in Tokens, StoreSession(t, q) PROVE TaskMoves(t)
  <2>1. /\ task[t].rec \in logins /\ task[t].agent = task[t].rec.agent
        /\ task[t].tok \in issued /\ rt[task[t].tok] = None /\ task[t].tok \in blrt
        /\ owner[task[t].tok] = task[t].rec
    BY <1>8, <1>b DEF StoreSession, TaskOK
  <2>2. StoreStep
    BY <1>8, <2>1 DEF StoreSession, StoreStep
  <2>3. Rotated(task[t].tok)'
    <3>1. parent'[q] = task[t].tok /\ q # task[t].tok
      BY <1>8, <1>a, <2>1 DEF StoreSession, Mint, StoreTypeOK
    <3>2. rt'[task[t].tok] = None /\ task[t].tok \in blrt'
      BY <1>8, <1>a, <2>1, <3>1 DEF StoreSession, Mint, StoreTypeOK
    <3>3. task'[t].tok = task[t].tok
      BY <1>8, AdvanceLocals DEF StoreSession, TaskPcs
    <3> QED BY <3>1, <3>2, <3>3 DEF Rotated
  <2> QED BY <1>8, <1>b, <1>c, <2>1, <2>2, <2>3, AdvanceLocals DEF StoreSession, Mint, TaskPcs, TaskOK
<1>9. CASE MarkIdem(t)
  <2>1. StoreStep
    BY <1>9 DEF MarkIdem, StoreStep
  <2> QED BY <1>9, <1>b, <1>c, <2>1, AdvanceLocals DEF MarkIdem, TaskPcs, TaskOK, storeVars
<1>10. CASE Commit(t)
  <2>1. StoreStep
    BY <1>10 DEF Commit, StoreStep
  <2> QED BY <1>10, <1>b, <1>c, <2>1, LeaveLocals DEF Commit, Outcomes, TaskOK, storeVars
<1>11. CASE Fail(t)
  <2>1. StoreStep
    BY <1>11 DEF Fail, StoreStep
  <2>2. PICK out \in {"RETRY", "ERROR"} : Leave(t, out)
    BY <1>11 DEF Fail
  <2> QED BY <1>11, <1>b, <1>c, <2>1, <2>2, LeaveLocals DEF Fail, Running, Outcomes, TaskOK, storeVars
<1>12. ASSUME NEW retry \in BOOLEAN, task[t].pc = "finally", Settle(t, retry),
              UNCHANGED <<storeVars, idem>>, lock' \in [Tokens -> Tasks \cup {None}]
       PROVE  TaskMoves(t)
  <2>1. StoreStep
    BY <1>12 DEF StoreStep
  <2> QED BY <1>12, <1>b, <1>c, <2>1, SettleLocals DEF TaskOK, storeVars
<1>13. CASE Release(t)
  BY <1>13, <1>12 DEF Release
<1>14. CASE ReleaseFails(t)
  BY <1>14, <1>12 DEF ReleaseFails
<1>15. CASE Die(t)
  <2>1. StoreStep
    BY <1>15 DEF Die, StoreStep
  <2>2. task'[t] = IdleTask /\ IdleTask \in Task /\ IdleTask.pc = "idle" /\ IdleTask.out = "none"
    BY <1>15 DEF Die, IdleTask, Task, TaskPcs, Outcomes
  <2> QED BY <1>15, <1>b, <1>c, <2>1, <2>2 DEF Die, TaskOK, storeVars
<1> QED
  BY <1>1, <1>2, <1>3, <1>4, <1>5, <1>6, <1>7, <1>8, <1>9, <1>10, <1>11, <1>13, <1>14, <1>15
     DEF TaskStep, Progress

-----------------------------------------------------------------------------
(* The inductive invariant is preserved by every step of the system.       *)
LEMMA StepInv == ASSUME IInv, [Next]_vars PROVE IInv'
<1> USE DEF IInv
<1>0. /\ StoreInv /\ RequestInv /\ TaskInv
      /\ req \in [Reqs -> Request] /\ known \subseteq issued /\ idem \subseteq Tokens
  BY DEF RequestInv, AuthTypeOK, TaskInv, TaskTypeOK
<1>1. ASSUME NEW r \in Reqs, Handle(r) PROVE IInv'
  <2>1. HandlerMoves(r) /\ StoreStep
    BY <1>0, <1>1, HandlerStep DEF Handle, HandlerMoves
  <2>2. StoreInv'
    BY <1>0, <2>1, StoreStepInv
  <2>3. ASSUME NEW x \in Reqs PROVE RequestOK(x)'
    BY <1>0, <2>1, RequestStable DEF HandlerMoves, RequestInv
  <2>4. \A p \in idem : Rotated(p)'
    BY <1>0, <2>1, IdemStable DEF TaskInv
  <2>5. ASSUME NEW x \in Tasks PROVE TaskOK(x)'
    BY <1>0, <1>1, <2>1, TaskStable DEF Handle, TaskInv, taskVars
  <2>6. TaskInv'
    BY <1>0, <1>1, <2>4, <2>5 DEF Handle, TaskInv, TaskTypeOK, taskVars
  <2> QED BY <2>1, <2>2, <2>3, <2>6 DEF HandlerMoves, RequestInv
<1>2. ASSUME StoreStep, UNCHANGED authVars PROVE StoreInv' /\ RequestInv'
  <2>1. StoreInv' /\ issued \subseteq issued'
    BY <1>0, <1>2, StoreStepInv, StoreMonotonic
  <2>2. ASSUME NEW x \in Reqs PROVE RequestOK(x)'
    BY <1>0, <1>2, RequestStable DEF RequestInv, authVars
  <2> QED BY <1>0, <1>2, <2>1, <2>2 DEF RequestInv, AuthTypeOK, authVars
<1>3. ASSUME NEW t \in Tasks, Work(t) PROVE IInv'
  <2>1. TaskMoves(t) /\ StoreStep
    BY <1>0, <1>3, WorkerStep DEF Work, TaskMoves
  <2>2. ASSUME NEW x \in Tasks PROVE TaskOK(x)'
    BY <1>0, <2>1, TaskStable DEF TaskMoves, TaskInv
  <2>3. TaskInv'
    BY <2>1, <2>2 DEF TaskMoves, TaskInv
  <2> QED BY <1>2, <1>3, <2>1, <2>3 DEF Work
<1>4. ASSUME NEW t \in Tasks, Submit(t) PROVE IInv'
  <2>1. PICK p \in known, a \in Agents : Enqueue(t, p, a)
    BY <1>4 DEF Submit
  <2>2. StoreStep
    BY <2>1 DEF Enqueue, StoreStep
  <2>3. p \in issued /\ p \in Tokens
    BY <1>0 DEF RequestInv, AuthTypeOK
  <2> DEFINE new == QueuedTask(p, a, 0)
  <2>4. new \in Task /\ new.pc = "queued" /\ new.tok = p /\ new.out = "none"
    BY <2>3 DEF QueuedTask, Task, TaskPcs, Outcomes
  <2>5. /\ task' = [task EXCEPT ![t] = new]
        /\ UNCHANGED <<rt, blrt, blat, issued, parent, owner, logins, lock, idem>>
    BY <2>1 DEF Enqueue, storeVars
  <2> HIDE DEF new
  <2>6. TaskTypeOK'
    BY <1>0, <2>4, <2>5 DEF TaskInv, TaskTypeOK
  <2>7. ASSUME NEW x \in Tasks PROVE TaskOK(x)'
    <3>1. CASE x = t
      BY <1>0, <2>3, <2>4, <2>5, <3>1 DEF TaskOK, TaskInv, TaskTypeOK
    <3>2. CASE x # t
      BY <1>0, <2>2, <2>5, <3>2, TaskStable DEF TaskInv, TaskTypeOK
    <3> QED BY <3>1, <3>2
  <2>8. \A p_1 \in idem : Rotated(p_1)'
    BY <1>0, <2>2, IdemStable DEF TaskInv
  <2> QED BY <1>2, <1>4, <2>2, <2>5, <2>6, <2>7, <2>8 DEF Submit, TaskInv
<1>5. CASE TimePasses
  <2>1. PICK p \in Tokens :
           \/ ExpireSession(p) /\ UNCHANGED <<authVars, taskVars>>
           \/ (ExpireLock(p) \/ ExpireIdem(p)) /\ UNCHANGED authVars
    BY <1>5 DEF TimePasses
  <2>2. /\ StoreStep /\ UNCHANGED authVars /\ task' = task /\ idem' \subseteq idem
        /\ lock' \in [Tokens -> Tasks \cup {None}]
    BY <1>0, <2>1 DEF ExpireSession, ExpireLock, ExpireIdem, StoreStep, authVars, taskVars, TaskInv,
                      TaskTypeOK
  <2>3. ASSUME NEW x \in Tasks PROVE TaskOK(x)'
    BY <1>0, <2>2, TaskStable DEF TaskInv
  <2>4. \A q \in idem : Rotated(q)'
    BY <1>0, <2>2, IdemStable DEF TaskInv
  <2> QED BY <1>0, <1>2, <2>2, <2>3, <2>4 DEF TaskInv, TaskTypeOK
<1>6. CASE UNCHANGED vars
  <2>1. StoreStep /\ UNCHANGED <<authVars, taskVars>>
    BY <1>6 DEF vars, StoreStep
  <2>2. ASSUME NEW x \in Tasks PROVE TaskOK(x)'
    BY <1>0, <2>1, TaskStable DEF TaskInv, taskVars
  <2>3. \A q \in idem : Rotated(q)'
    BY <1>0, <2>1, IdemStable DEF TaskInv
  <2> QED BY <1>0, <1>2, <2>1, <2>2, <2>3 DEF TaskInv, TaskTypeOK, taskVars
<1> QED
  BY <1>1, <1>3, <1>4, <1>5, <1>6 DEF Next

(* The inductive invariant always holds.                                   *)
THEOREM Invariance == Spec => []IInv
  BY InitInv, StepInv, PTL DEF Spec

(* All variables keep their types: in particular no task is retried more   *)
(* often than max_retries allows, and no record is half-written.           *)
THEOREM TypeCorrect == Spec => []TypeOK
<1>1. IInv => TypeOK
  BY DEF IInv, StoreInv, RequestInv, TaskInv, TypeOK
<1> QED BY <1>1, Invariance, PTL

(* However many handlers, tasks and workers interleave, fail and die, each *)
(* live session belongs to a user and agent that logged in.                *)
THEOREM SessionsAreFromLogins == Spec => []SessionsComeFromLogin
<1>1. IInv => SessionsComeFromLogin
  BY DEF IInv, StoreInv
<1> QED BY <1>1, Invariance, PTL

(* A token that was rotated is dead before its successor is born, and is   *)
(* never revived.                                                          *)
THEOREM RotationKillsPredecessor == Spec => []PredecessorIsDead
<1>1. IInv => PredecessorIsDead
  BY DEF IInv, StoreInv
<1> QED BY <1>1, Invariance, PTL

(* What a task has achieved makes its report true.                         *)
LEMMA ReportIsTrue == IInv => ReportedMeansRotated
<1> SUFFICES ASSUME IInv, NEW t \in Tasks, task[t].out \in {"SUCCESS", "IDEMPOTENT"}
             PROVE  /\ rt[task[t].tok] = None
                    /\ task[t].tok \in blrt
                    /\ Successors(task[t].tok) # {}
  BY DEF ReportedMeansRotated
<1>1. Rotated(task[t].tok)
  BY DEF IInv, TaskInv, TaskOK
<1> QED BY <1>1 DEF Rotated, Successors

(* The reports SUCCESS and IDEMPOTENT of the refresh task are never false. *)
THEOREM ReportsAreTrue == Spec => []ReportedMeansRotated
  BY ReportIsTrue, Invariance, PTL

-----------------------------------------------------------------------------
(* The refinement. A step of the system is a step of the store,            *)
LEMMA StepOfStore == ASSUME IInv, [Next]_vars PROVE StoreStep
<1>0. StoreInv /\ RequestInv /\ TaskInv
  BY DEF IInv
<1>1. ASSUME NEW r \in Reqs, Handle(r) PROVE StoreStep
  BY <1>0, <1>1, HandlerStep DEF Handle, HandlerMoves
<1>2. ASSUME NEW t \in Tasks, Submit(t) PROVE StoreStep
  BY <1>2 DEF Submit, Enqueue, StoreStep
<1>3. ASSUME NEW t \in Tasks, Work(t) PROVE StoreStep
  BY <1>0, <1>3, WorkerStep DEF Work, TaskMoves
<1>4. CASE TimePasses
  BY <1>4 DEF TimePasses, ExpireSession, ExpireLock, ExpireIdem, StoreStep
<1>5. CASE UNCHANGED vars
  BY <1>5 DEF vars, StoreStep
<1> QED BY <1>1, <1>2, <1>3, <1>4, <1>5 DEF Next

(* and a step of the store is a step of a session's life, or none.         *)
LEMMA StoreStepLifecycle ==
  ASSUME StoreInv, StoreStep
  PROVE  [Lifecycle!Next]_(Lifecycle!vars)
<1> DEFINE Status == [p \in Tokens |-> IF p \notin issued THEN "unused"
                                       ELSE IF rt[p] # None THEN "live" ELSE "over"]
<1>0. /\ rt \in [Tokens -> Session \cup {None}] /\ owner \in [Tokens -> Session \cup {None}]
      /\ parent \in [Tokens -> Tokens \cup {None}] /\ issued \subseteq Tokens
      /\ \A p \in Tokens : p \notin issued => rt[p] = None
  BY DEF StoreInv, StoreTypeOK
<1> USE DEF Lifecycle!Next, Lifecycle!vars
<1>1. CASE UNCHANGED storeVars
  BY <1>1 DEF storeVars
<1>2. ASSUME NEW s \in Session,
             logins' = logins \cup {s}, UNCHANGED <<rt, blrt, blat, issued, parent, owner>>
      PROVE  [Lifecycle!Next]_(Lifecycle!vars)
  <2>1. PICK u \in Users, a \in Agents : s = [user |-> u, agent |-> a]
    BY DEF Session
  <2>2. Lifecycle!Authenticate(u, a)
    BY <1>2, <2>1 DEF Lifecycle!Authenticate
  <2> QED BY <2>2
<1>3. ASSUME NEW p \in Tokens, Drop(p) PROVE [Lifecycle!Next]_(Lifecycle!vars)
  <2>1. /\ rt' = [rt EXCEPT ![p] = None]
        /\ UNCHANGED <<issued, parent, owner, logins>>
    BY <1>3 DEF Drop
  <2>2. CASE rt[p] = None
    <3>1. rt' = rt
      BY <1>0, <2>1, <2>2
    <3> QED BY <2>1, <3>1
  <2>3. CASE rt[p] # None
    <3>1. p \in issued
      BY <1>0, <2>3
    <3>2. Status' = [Status EXCEPT ![p] = "over"] /\ Status[p] = "live"
      BY <1>0, <2>1, <2>3, <3>1
    <3>3. Lifecycle!End(p)
      BY <2>1, <3>2 DEF Lifecycle!End
    <3> QED BY <3>3
  <2> QED BY <2>2, <2>3
<1>4. ASSUME NEW p \in Tokens, BlacklistRefresh(p) \/ BlacklistAccess(p)
      PROVE  [Lifecycle!Next]_(Lifecycle!vars)
  BY <1>4 DEF BlacklistRefresh, BlacklistAccess
<1>5. ASSUME NEW q \in Tokens, NEW s \in logins, NEW p \in issued \cup {None},
             p # None => rt[p] = None /\ owner[p] = s, Mint(q, s.user, s.agent, p)
      PROVE  [Lifecycle!Next]_(Lifecycle!vars)
  <2>1. s = [user |-> s.user, agent |-> s.agent] /\ s \in Session
    BY DEF StoreInv, StoreTypeOK, Session
  <2>2. /\ q \notin issued /\ issued' = issued \cup {q}
        /\ parent' = [parent EXCEPT ![q] = p] /\ rt' = [rt EXCEPT ![q] = s]
        /\ owner' = [owner EXCEPT ![q] = s] /\ logins' = logins
    BY <1>5, <2>1 DEF Mint
  <2>3. s # None
    BY <2>1, NoneAssumption
  <2>4. Status' = [Status EXCEPT ![q] = "live"] /\ Status[q] = "unused"
    BY <1>0, <2>2, <2>3
  <2>5. CASE p = None
    <3>1. parent' = parent
      BY <1>0, <2>2, <2>5 DEF StoreInv
    <3>2. Lifecycle!Open(q)
      BY <2>2, <2>4, <3>1 DEF Lifecycle!Open
    <3> QED BY <3>2
  <2>6. CASE p # None
    <3>1. p \in Tokens /\ Status[p] = "over" /\ owner[p] = s
      BY <1>0, <1>5, <2>6
    <3>2. Lifecycle!Exchange(p, q)
      BY <2>2, <2>4, <3>1 DEF Lifecycle!Exchange
    <3> QED BY <3>1, <3>2
  <2> QED BY <2>5, <2>6
<1> QED BY <1>1, <1>2, <1>3, <1>4, <1>5 DEF StoreStep

(* Redis keys, handlers and tasks implement the life of a session: no token*)
(* ever comes back to life, and all successors of a token belong to the    *)
(* user and agent it was made for.                                         *)
THEOREM LifecycleImplemented == Spec => ImplementsLifecycle
<1>1. Init => Lifecycle!Init
  BY DEF Init, StoreInit, Lifecycle!Init
<1>2. IInv /\ [Next]_vars => [Lifecycle!Next]_(Lifecycle!vars)
  BY StepOfStore, StoreStepLifecycle DEF IInv
<1> QED BY <1>1, <1>2, Invariance, PTL DEF Spec, ImplementsLifecycle, Lifecycle!Spec

-----------------------------------------------------------------------------
(* Exchanging tokens never moves a session from one user or user agent to  *)
(* another: a token has the owner of the one it was exchanged for, and so  *)
(* of all before it (auth_service.py:146-150, refresh_token.py:83-87).     *)
OneOwner == \A q \in Tokens : parent[q] # None => owner[parent[q]] = owner[q]

(* A token that was issued and has no record never has one again, whoever  *)
(* ended it and whatever else is still at work with what it read before.   *)
EndedForGood == \A p \in issued : rt[p] = None => rt'[p] = None

(* A fresh token gets the owner of its predecessor; no other step touches  *)
(* an owner or a predecessor.                                              *)
LEMMA StoreStepOwner == ASSUME StoreInv, StoreStep, OneOwner PROVE OneOwner'
<1>1. /\ parent \in [Tokens -> Tokens \cup {None}]
      /\ \A q \in Tokens : parent[q] # None => q \in issued /\ parent[q] \in issued
  BY DEF StoreInv, StoreTypeOK
<1>2. \A p \in issued : owner'[p] = owner[p]
  BY StoreMonotonic
<1>3. ASSUME parent' = parent PROVE OneOwner'
  BY <1>1, <1>2, <1>3 DEF OneOwner
<1>4. ASSUME NEW q \in Tokens, NEW s \in logins, NEW p \in issued \cup {None},
             p # None => rt[p] = None /\ owner[p] = s, Mint(q, s.user, s.agent, p)
      PROVE  OneOwner'
  <2>1. s = [user |-> s.user, agent |-> s.agent]
    BY DEF StoreInv, StoreTypeOK, Session
  <2>2. /\ q \notin issued /\ parent' = [parent EXCEPT ![q] = p]
        /\ owner' = [owner EXCEPT ![q] = s] /\ owner \in [Tokens -> Session \cup {None}]
    BY <1>4, <2>1 DEF Mint, StoreInv, StoreTypeOK
  <2>3. ASSUME NEW x \in Tokens, parent'[x] # None PROVE owner'[parent'[x]] = owner'[x]
    <3>1. CASE x = q
      BY <1>1, <1>4, <2>2, <3>1, <2>3
    <3>2. CASE x # q
      <4>1. parent'[x] = parent[x]
        BY <1>1, <2>2, <3>2
      <4> QED BY <1>1, <1>2, <2>3, <4>1 DEF OneOwner
    <3> QED BY <3>1, <3>2
  <2> QED BY <2>3 DEF OneOwner
<1> QED BY <1>3, <1>4 DEF StoreStep, storeVars, Drop, BlacklistRefresh, BlacklistAccess

(* All tokens that descend from one login have its user and user agent.    *)
THEOREM FamiliesHaveOneOwner == Spec => []OneOwner
<1>1. Init => OneOwner
  BY DEF Init, StoreInit, OneOwner
<1>2. IInv /\ OneOwner /\ [Next]_vars => OneOwner'
  BY StepOfStore, StoreStepOwner DEF IInv
<1> QED BY <1>1, <1>2, Invariance, PTL DEF Spec

(* No step revives a session that ended by logout, rotation or expiry.     *)
THEOREM EndedStaysEnded == Spec => [][EndedForGood]_vars
<1>1. IInv /\ [Next]_vars => EndedForGood
  BY StepOfStore, StoreMonotonic DEF IInv, EndedForGood
<1> QED BY <1>1, Invariance, PTL DEF Spec

-----------------------------------------------------------------------------
(* No message for ever. What a task still has to do: its retries, and the  *)
(* steps of the present run.                                               *)
StepsToEnd ==
    [queued |-> 11, idem |-> 10, lock |-> 9, get |-> 8, delete |-> 7, blrt |-> 6, blat |-> 5,
     store |-> 4, mark |-> 3, commit |-> 2, finally |-> 1]
Left(t) ==
    IF task[t].pc = "idle" THEN 0
    ELSE 12 * (MaxRetries - task[t].tries) + StepsToEnd[task[t].pc]

(* Whatever happens to a message, steps forward, faults, retries and deaths*)
(* of its worker, leaves it less to do: it is settled after                *)
(* 12 * (MaxRetries + 1) steps of its own, if it takes them                *)
(* (refresh_token.py:25, 125-127).                                         *)
RunsDown == \A t \in Tasks : task[t].pc # "idle" /\ task'[t] # task[t] => Left(t)' < Left(t)

(* It is a number with a bound.                                            *)
LEMMA LeftType ==
  ASSUME TaskTypeOK, NEW t \in Tasks
  PROVE  Left(t) \in 0 .. (12 * (MaxRetries + 1))
<1>1. task[t].tries \in 0 .. MaxRetries /\ task[t].pc \in TaskPcs
  BY DEF TaskTypeOK, Task
<1> QED BY <1>1 DEF Left, StepsToEnd, TaskPcs

(* A step of a worker takes something off.                                 *)
LEMMA WorkRunsDown ==
  ASSUME TaskTypeOK, NEW t \in Tasks, TaskStep(t)
  PROVE  Left(t)' < Left(t)
<1>0. task \in [Tasks -> Task] /\ task[t].tries \in 0 .. MaxRetries
  BY DEF TaskTypeOK, Task
<1>1. ASSUME task'[t].tries = task[t].tries, task[t].pc \in TaskPcs \ {"idle"},
             task'[t].pc \in TaskPcs \ {"idle"},
             StepsToEnd[task'[t].pc] < StepsToEnd[task[t].pc]
      PROVE  Left(t)' < Left(t)
  BY <1>0, <1>1 DEF Left, StepsToEnd, TaskPcs
<1>2. ASSUME NEW pc \in TaskPcs \ {"idle"}, Advance(t, pc), task[t].pc \in TaskPcs \ {"idle"},
             StepsToEnd[pc] < StepsToEnd[task[t].pc]
      PROVE  Left(t)' < Left(t)
  <2>1. task'[t].pc = pc /\ task'[t].tries = task[t].tries
    BY <1>0, <1>2, AdvanceLocals
  <2> QED BY <1>1, <1>2, <2>1
<1>3. ASSUME NEW out \in Outcomes, Leave(t, out), task[t].pc \in TaskPcs \ {"idle", "finally"}
      PROVE  Left(t)' < Left(t)
  <2>1. task'[t].pc = "finally" /\ task'[t].tries = task[t].tries
    BY <1>0, <1>3, LeaveLocals
  <2>2. StepsToEnd["finally"] < StepsToEnd[task[t].pc]
    BY <1>3 DEF StepsToEnd, TaskPcs
  <2> QED BY <1>1, <1>3, <2>1, <2>2 DEF TaskPcs
<1>4. ASSUME task'[t].pc = "idle", task[t].pc \in TaskPcs \ {"idle"}
      PROVE  Left(t)' < Left(t)
  BY <1>0, <1>4 DEF Left, StepsToEnd, TaskPcs
<1>5. ASSUME NEW retry \in BOOLEAN, Settle(t, retry), task[t].pc = "finally"
      PROVE  Left(t)' < Left(t)
  <2>1. CASE task'[t].pc = "idle"
    BY <1>4, <1>5, <2>1 DEF TaskPcs
  <2>2. CASE task'[t].pc = "queued" /\ task'[t].tries = task[t].tries + 1
    BY <1>0, <1>5, <2>2 DEF Left, StepsToEnd
  <2> QED BY <1>0, <1>5, <2>1, <2>2, SettleLocals
<1>6. CASE Start(t) \/ CheckIdem(t) \/ AcquireLock(t)
  BY <1>2, <1>3, <1>6 DEF Start, CheckIdem, AcquireLock, TaskPcs, Outcomes, StepsToEnd
<1>7. CASE GetSession(t)
  <2>1. CASE Leave(t, "INVALID")
    BY <1>3, <1>7, <2>1 DEF GetSession, Outcomes, TaskPcs
  <2>2. CASE task' = [task EXCEPT ![t] = [@ EXCEPT !.pc = "delete", !.rec = rt[task[t].tok]]]
    <3>1. task'[t].pc = "delete" /\ task'[t].tries = task[t].tries
      BY <1>0, <2>2 DEF Task
    <3> QED BY <1>1, <1>7, <3>1 DEF GetSession, TaskPcs, StepsToEnd
  <2> QED BY <1>7, <2>1, <2>2 DEF GetSession
<1>8. CASE \/ DeleteSession(t) \/ BlacklistOldRefresh(t) \/ BlacklistOldAccess(t)
           \/ \E q \in Tokens : StoreSession(t, q)
           \/ MarkIdem(t) \/ Commit(t)
  BY <1>2, <1>3, <1>8 DEF DeleteSession, BlacklistOldRefresh, BlacklistOldAccess, StoreSession,
     MarkIdem, Commit, TaskPcs, Outcomes, StepsToEnd
<1>9. CASE Fail(t)
  <2>1. task[t].pc \in TaskPcs \ {"idle", "finally"}
    BY <1>0, <1>9 DEF Fail, Running, Task
  <2> QED BY <1>3, <1>9, <2>1 DEF Fail, Outcomes
<1>10. CASE Release(t) \/ ReleaseFails(t)
  BY <1>5, <1>10 DEF Release, ReleaseFails
<1>11. CASE Die(t)
  <2>1. task[t].pc \in TaskPcs \ {"idle"} /\ task'[t].pc = "idle"
    BY <1>0, <1>11 DEF Die, Running, Task, IdleTask
  <2> QED BY <1>4, <2>1
<1> QED BY <1>6, <1>7, <1>8, <1>9, <1>10, <1>11 DEF TaskStep, Progress

(* No other step touches a message under way.                              *)
LEMMA StepRunsDown == IInv /\ [Next]_vars => RunsDown
<1> SUFFICES ASSUME IInv, [Next]_vars PROVE RunsDown
  OBVIOUS
<1>1. TaskTypeOK
  BY DEF IInv, TaskInv
<1>2. ASSUME NEW t \in Tasks, Work(t) PROVE RunsDown
  <2>1. \A x \in Tasks \ {t} : task'[x] = task[x]
    BY <1>2, WorkerStep DEF Work, TaskMoves, IInv
  <2>2. Left(t)' < Left(t)
    BY <1>1, <1>2, WorkRunsDown DEF Work
  <2> QED BY <2>1, <2>2 DEF RunsDown
<1>3. ASSUME NEW t \in Tasks, Submit(t) PROVE RunsDown
  <2>1. task[t].pc = "idle" /\ \A x \in Tasks \ {t} : task'[x] = task[x]
    BY <1>1, <1>3 DEF Submit, Enqueue, TaskTypeOK
  <2> QED BY <2>1 DEF RunsDown
<1>4. CASE task' = task
  BY <1>4 DEF RunsDown
<1> QED BY <1>2, <1>3, <1>4
        DEF Next, Handle, TimePasses, ExpireSession, ExpireLock, ExpireIdem, taskVars, vars

(* Retries end: a message under way has at most 12 * (MaxRetries + 1) steps*)
(* to go, and each of its steps is one of them. Under the fairness of the  *)
(* workers this is why every message is settled.                           *)
THEOREM MessagesRunDown ==
  Spec => /\ [](\A t \in Tasks : Left(t) \in 0 .. (12 * (MaxRetries + 1)))
          /\ [][RunsDown]_vars
<1>1. IInv => \A t \in Tasks : Left(t) \in 0 .. (12 * (MaxRetries + 1))
  BY LeftType DEF IInv, TaskInv
<1> QED BY <1>1, StepRunsDown, Invariance, PTL DEF Spec

-----------------------------------------------------------------------------
(* The sweep. Its invariant: what is swept is issued and dead. Its         *)
(* deletions are steps of the store, so whatever handlers and tasks rely on*)
(* survives them, as it survives an expiry.                                *)
SweepInv ==
    /\ IInv
    /\ found \in [Users -> SUBSET issued]
    /\ \A u \in Users : found[u] \subseteq Matches[u]
    /\ swept \subseteq issued
    /\ SweptStaysDead

(* A step of the store by someone who is neither handler nor task.         *)
LEMMA OutsiderKeepsInv ==
  ASSUME IInv, StoreStep, UNCHANGED <<authVars, taskVars>>
  PROVE  IInv'
<1>1. /\ StoreInv /\ RequestInv /\ TaskInv
      /\ req' = req /\ known' = known /\ task' = task /\ idem' = idem /\ lock' = lock
  BY DEF IInv, authVars, taskVars
<1>2. StoreInv' /\ issued \subseteq issued'
  BY <1>1, StoreStepInv, StoreMonotonic
<1>3. ASSUME NEW r \in Reqs PROVE RequestOK(r)'
  BY <1>1, RequestStable DEF RequestInv
<1>4. RequestInv'
  BY <1>1, <1>2, <1>3 DEF RequestInv, AuthTypeOK
<1>5. ASSUME NEW t \in Tasks PROVE TaskOK(t)'
  BY <1>1, TaskStable DEF TaskInv
<1>6. \A p \in idem : Rotated(p)'
  BY <1>1, IdemStable DEF TaskInv, TaskTypeOK
<1>7. TaskInv'
  BY <1>1, <1>5, <1>6 DEF TaskInv, TaskTypeOK
<1> QED BY <1>2, <1>4, <1>7 DEF IInv

(* Every step is a step of the store that keeps the invariant.             *)
LEMMA SweepStep ==
  ASSUME SweepInv, [SweepNext]_<<vars, sweepVars>>
  PROVE  StoreStep /\ SweepInv'
<1>0. /\ IInv /\ StoreInv /\ Matches \in [Users -> SUBSET Tokens]
      /\ issued \subseteq Tokens /\ rt \in [Tokens -> Session \cup {None}]
      /\ found \in [Users -> SUBSET issued] /\ swept \subseteq issued
  BY SweepAssumption DEF SweepInv, IInv, StoreInv, StoreTypeOK
<1>1. ASSUME [Next]_vars, UNCHANGED sweepVars PROVE StoreStep /\ SweepInv'
  <2>1. StoreStep /\ IInv'
    BY <1>0, <1>1, StepOfStore, StepInv
  <2>2. issued \subseteq issued' /\ \A p \in issued : rt[p] = None => rt'[p] = None
    BY <1>0, <2>1, StoreMonotonic
  <2> QED BY <1>0, <1>1, <2>1, <2>2 DEF SweepInv, SweptStaysDead, sweepVars
<1>2. ASSUME NEW u \in Users, List(u) PROVE StoreStep /\ SweepInv'
  <2>1. UNCHANGED vars /\ swept' = swept /\ found' = [found EXCEPT ![u] = Matches[u] \cap Live]
    BY <1>2 DEF List
  <2>2. StoreStep /\ UNCHANGED <<authVars, taskVars>> /\ rt' = rt /\ issued' = issued
    BY <2>1 DEF vars, storeVars, StoreStep
  <2>3. Live \subseteq issued
    BY <1>0 DEF Live, StoreInv
  <2>4. IInv'
    BY <1>0, <2>2, OutsiderKeepsInv
  <2> QED BY <1>0, <2>1, <2>2, <2>3, <2>4 DEF SweepInv, SweptStaysDead
<1>3. ASSUME NEW u \in Users, Stop(u) PROVE StoreStep /\ SweepInv'
  <2>1. UNCHANGED vars /\ swept' = swept /\ found' = [found EXCEPT ![u] = {}]
    BY <1>3 DEF Stop
  <2>2. StoreStep /\ UNCHANGED <<authVars, taskVars>> /\ rt' = rt /\ issued' = issued
    BY <2>1 DEF vars, storeVars, StoreStep
  <2>3. IInv'
    BY <1>0, <2>2, OutsiderKeepsInv
  <2> QED BY <1>0, <2>1, <2>2, <2>3 DEF SweepInv, SweptStaysDead
<1>4. ASSUME NEW u \in Users, NEW p \in Tokens, Delete(u, p) PROVE StoreStep /\ SweepInv'
  <2>1. /\ p \in found[u] /\ Drop(p) /\ UNCHANGED <<authVars, taskVars>>
        /\ found' = [found EXCEPT ![u] = @ \ {p}] /\ swept' = swept \cup {p}
    BY <1>4 DEF Delete
  <2>2. StoreStep /\ issued' = issued /\ rt' = [rt EXCEPT ![p] = None]
    BY <2>1 DEF StoreStep, Drop
  <2>3. IInv'
    BY <1>0, <2>1, <2>2, OutsiderKeepsInv
  <2> QED BY <1>0, <2>1, <2>2, <2>3 DEF SweepInv, SweptStaysDead
<1>5. CASE UNCHANGED <<vars, sweepVars>>
  BY <1>1, <1>5
<1> QED BY <1>1, <1>2, <1>3, <1>4, <1>5 DEF SweepNext

(* The invariant holds beside a sweep too.                                 *)
THEOREM SweepInvariance == SweepSpec => []SweepInv
<1>1. SweepInit => SweepInv
  <2> SUFFICES ASSUME SweepInit PROVE SweepInv
    OBVIOUS
  <2>1. IInv
    BY InitInv DEF SweepInit
  <2> QED BY <2>1 DEF SweepInit, SweepInv, SweptStaysDead
<1>2. SweepInv /\ [SweepNext]_<<vars, sweepVars>> => SweepInv'
  BY SweepStep
<1> QED BY <1>1, <1>2, PTL DEF SweepSpec

(* A sweep lists only keys that exist and match, and every other variable  *)
(* keeps its type beside it.                                               *)
THEOREM SweepTypeCorrect == SweepSpec => []SweepTypeOK
<1>1. SweepInv => SweepTypeOK
  BY DEF SweepInv, SweepTypeOK, IInv, StoreInv, RequestInv, TaskInv, TypeOK
<1> QED BY <1>1, SweepInvariance, PTL

(* Sweeps take nothing from what holds without them: a session still comes *)
(* from a login, though a sweep deletes records under handlers and tasks,  *)
THEOREM SweepSessionsAreFromLogins == SweepSpec => []SessionsComeFromLogin
<1>1. SweepInv => SessionsComeFromLogin
  BY DEF SweepInv, IInv, StoreInv
<1> QED BY <1>1, SweepInvariance, PTL

(* a rotated token is dead and stays so, though a sweep and a rotation may *)
(* both have listed, read or deleted it,                                   *)
THEOREM SweepRotationKillsPredecessor == SweepSpec => []PredecessorIsDead
<1>1. SweepInv => PredecessorIsDead
  BY DEF SweepInv, IInv, StoreInv
<1> QED BY <1>1, SweepInvariance, PTL

(* and what a refresh task reports is true.                                *)
THEOREM SweepReportsAreTrue == SweepSpec => []ReportedMeansRotated
<1>1. SweepInv => ReportedMeansRotated
  BY ReportIsTrue DEF SweepInv
<1> QED BY <1>1, SweepInvariance, PTL

(* With sweeps, too, a family of tokens keeps its owner, and               *)
THEOREM SweepFamiliesHaveOneOwner == SweepSpec => []OneOwner
<1>1. SweepInit => OneOwner
  BY DEF SweepInit, Init, StoreInit, OneOwner
<1>2. SweepInv /\ OneOwner /\ [SweepNext]_<<vars, sweepVars>> => OneOwner'
  BY SweepStep, StoreStepOwner DEF SweepInv, IInv
<1> QED BY <1>1, <1>2, SweepInvariance, PTL DEF SweepSpec

(* an ended session stays ended: a handler that read the record before the *)
(* sweep deleted it brings another token to life, never this one.          *)
THEOREM SweepEndedStaysEnded == SweepSpec => [][EndedForGood]_<<vars, sweepVars>>
<1>1. SweepInv /\ [SweepNext]_<<vars, sweepVars>> => EndedForGood
  BY SweepStep, StoreMonotonic DEF SweepInv, IInv, EndedForGood
<1> QED BY <1>1, SweepInvariance, PTL DEF SweepSpec

(* invalidate_old_tokens: a session it has deleted is never live again,    *)
(* though handlers and tasks go on with records they read before.          *)
THEOREM SweptNeverReturns == SweepSpec => []SweptStaysDead
<1>1. SweepInv => SweptStaysDead
  BY DEF SweepInv
<1> QED BY <1>1, SweepInvariance, PTL

(* The sweep, too, only ends sessions.                                     *)
THEOREM SweepImplementsLifecycle == SweepSpec => ImplementsLifecycle
<1>1. SweepInit => Lifecycle!Init
  BY DEF SweepInit, Init, StoreInit, Lifecycle!Init
<1>2. SweepInv /\ [SweepNext]_<<vars, sweepVars>> => [Lifecycle!Next]_(Lifecycle!vars)
  BY SweepStep, StoreStepLifecycle DEF SweepInv, IInv
<1> QED BY <1>1, <1>2, SweepInvariance, PTL DEF SweepSpec, ImplementsLifecycle, Lifecycle!Spec

-----------------------------------------------------------------------------
(* Any number of workers and handlers. Those who have read a token's record*)
(* and not yet stored are counted together with its successors: while the  *)
(* record is there the token has none, and afterwards nobody joins.        *)
HoldPcs == {"read", "delete", "store"}
ExchangePcs == {"delete", "blrt", "blat", "store"}
Holders(p) == {r \in Reqs : req[r].pc \in HoldPcs /\ req[r].tok = p}
Exchangers(p) == {t \in Tasks : task[t].pc \in ExchangePcs /\ task[t].tok = p}
AtWork == {t \in Tasks : Running(t)}

BoundInv ==
    /\ Cardinality(AtWork) <= Workers
    /\ \A r \in Reqs : req[r].pc \in HoldPcs => r \in Refreshers
    /\ \A p \in Tokens :
          /\ IsFiniteSet(Successors(p))
          /\ Cardinality(Successors(p)) + Cardinality(Holders(p)) + Cardinality(Exchangers(p))
               <= Cardinality(Refreshers) + Workers

(* What a step may do to those who count for p.                            *)
NoneYet(p) == Successors(p)' = {}
NobodyJoins(p) ==
    /\ Successors(p)' = Successors(p)
    /\ Holders(p)' \subseteq Holders(p) /\ Exchangers(p)' \subseteq Exchangers(p)
OneStores(p) ==
    /\ \E q \in Tokens : Successors(p)' = Successors(p) \cup {q}
    /\ \/ \E r \in Holders(p) : Holders(p)' \subseteq Holders(p) \ {r}
          /\ Exchangers(p)' \subseteq Exchangers(p)
       \/ \E t \in Exchangers(p) : Exchangers(p)' \subseteq Exchangers(p) \ {t}
          /\ Holders(p)' \subseteq Holders(p)
Counts(p) == NoneYet(p) \/ NobodyJoins(p) \/ OneStores(p)

(* A set that loses an element is smaller.                                 *)
LEMMA OneLess ==
  ASSUME NEW S, NEW T, NEW x \in S, IsFiniteSet(S), T \subseteq S \ {x}
  PROVE  Cardinality(T) + 1 <= Cardinality(S) /\ Cardinality(S) \in Nat /\ Cardinality(T) \in Nat
<1>1. IsFiniteSet(S \ {x}) /\ Cardinality(S \ {x}) = Cardinality(S) - 1
  BY FS_RemoveElement
<1>2. IsFiniteSet(T) /\ Cardinality(T) <= Cardinality(S \ {x})
  BY <1>1, FS_Subset
<1>3. Cardinality(S) \in Nat /\ Cardinality(T) \in Nat
  BY <1>2, FS_CardinalityType
<1> QED BY <1>1, <1>2, <1>3

(* One element more makes a set larger by one at most.                     *)
LEMMA OneMore ==
  ASSUME NEW S, NEW x, IsFiniteSet(S)
  PROVE  IsFiniteSet(S \cup {x}) /\ Cardinality(S \cup {x}) <= Cardinality(S) + 1
<1>1. Cardinality(S) \in Nat
  BY FS_CardinalityType
<1>2. CASE x \in S
  <2>1. S \cup {x} = S
    BY <1>2
  <2>2. Cardinality(S) <= Cardinality(S) + 1
    BY <1>1
  <2> QED BY <2>1, <2>2, Zenon
<1>3. CASE x \notin S
  <2>1. IsFiniteSet(S \cup {x}) /\ Cardinality(S \cup {x}) = Cardinality(S) + 1
    BY <1>3, FS_AddElement, Zenon
  <2>2. Cardinality(S) + 1 <= Cardinality(S) + 1
    BY <1>1
  <2> QED BY <2>1, <2>2, Zenon
<1> QED BY <1>2, <1>3

(* None of these changes breaks the bound.                                 *)
LEMMA CountsKeep ==
  ASSUME IsFiniteSet(Reqs), IsFiniteSet(Tasks), BoundInv, NEW p \in Tokens, Counts(p),
         Cardinality(AtWork') <= Workers, \A r \in Reqs : req'[r].pc \in HoldPcs => r \in Refreshers
  PROVE  /\ IsFiniteSet(Successors(p)')
         /\ Cardinality(Successors(p)') + Cardinality(Holders(p)') + Cardinality(Exchangers(p)')
              <= Cardinality(Refreshers) + Workers
<1> DEFINE S == Successors(p)
           H == Holders(p)
           X == Exchangers(p)
           N == Cardinality(Refreshers) + Workers
<1>0. IsFiniteSet(Refreshers)
  BY FS_EmptySet DEF Refreshers
<1>1. /\ H \subseteq Refreshers /\ H' \subseteq Refreshers
      /\ X \subseteq Tasks /\ X' \subseteq AtWork' /\ AtWork' \subseteq Tasks
  BY DEF Holders, Exchangers, AtWork, Running, ExchangePcs, BoundInv
<1>2. IsFiniteSet(S) /\ Cardinality(S) + Cardinality(H) + Cardinality(X) <= N
  BY DEF BoundInv
<1> HIDE DEF S, H, X
<1>3. /\ IsFiniteSet(H) /\ IsFiniteSet(H') /\ IsFiniteSet(X) /\ IsFiniteSet(AtWork')
      /\ Cardinality(H') <= Cardinality(Refreshers) /\ Cardinality(X') <= Cardinality(AtWork') /\ IsFiniteSet(X')
  BY <1>0, <1>1, FS_Subset
<1>4. /\ Cardinality(S) \in Nat /\ Cardinality(H) \in Nat /\ Cardinality(X) \in Nat
      /\ Cardinality(H') \in Nat /\ Cardinality(X') \in Nat /\ Cardinality(AtWork') \in Nat
      /\ Cardinality(Refreshers) \in Nat /\ Workers \in Nat
  BY <1>0, <1>2, <1>3, FS_CardinalityType
<1>5. CASE NoneYet(p)
  <2>1. IsFiniteSet(S') /\ Cardinality(S') = 0
    BY <1>5, FS_EmptySet DEF NoneYet, S
  <2>2. Cardinality(S') + Cardinality(H') + Cardinality(X') <= N
    BY <1>3, <1>4, <2>1
  <2> QED BY <2>1, <2>2 DEF S, H, X
<1>6. CASE NobodyJoins(p)
  <2>1. S' = S /\ H' \subseteq H /\ X' \subseteq X
    BY <1>6 DEF NobodyJoins, S, H, X
  <2>2. Cardinality(H') <= Cardinality(H) /\ Cardinality(X') <= Cardinality(X)
    BY <1>3, <2>1, FS_Subset
  <2>3. Cardinality(S') + Cardinality(H') + Cardinality(X') <= N
    BY <1>2, <1>4, <2>1, <2>2
  <2> QED BY <1>2, <2>1, <2>3 DEF S, H, X
<1>7. CASE OneStores(p)
  <2>1. PICK q \in Tokens : S' = S \cup {q}
    BY <1>7 DEF OneStores, S
  <2>2. IsFiniteSet(S') /\ Cardinality(S') \in Nat /\ Cardinality(S') <= Cardinality(S) + 1
    BY <1>2, <1>4, <2>1, OneMore, FS_CardinalityType
  <2>3. Cardinality(H') + Cardinality(X') + 1 <= Cardinality(H) + Cardinality(X)
    <3>1. CASE \E r \in H : H' \subseteq H \ {r} /\ X' \subseteq X
      <4>1. PICK r \in H : H' \subseteq H \ {r} /\ X' \subseteq X
        BY <3>1
      <4>2. Cardinality(H') + 1 <= Cardinality(H)
        BY <1>3, <4>1, OneLess
      <4>3. Cardinality(X') <= Cardinality(X)
        BY <1>3, <4>1, FS_Subset
      <4> QED BY <1>4, <4>2, <4>3
    <3>2. CASE \E t \in X : X' \subseteq X \ {t} /\ H' \subseteq H
      <4>1. PICK t \in X : X' \subseteq X \ {t} /\ H' \subseteq H
        BY <3>2
      <4>2. Cardinality(X') + 1 <= Cardinality(X)
        BY <1>3, <4>1, OneLess
      <4>3. Cardinality(H') <= Cardinality(H)
        BY <1>3, <4>1, FS_Subset
      <4> QED BY <1>4, <4>2, <4>3
    <3> QED BY <1>7, <3>1, <3>2 DEF OneStores, H, X
  <2>4. Cardinality(S') + Cardinality(H') + Cardinality(X') <= N
    BY <1>2, <1>4, <2>2, <2>3
  <2> QED BY <2>2, <2>4 DEF S, H, X
<1> QED BY <1>5, <1>6, <1>7 DEF Counts

(* How far a handler's step can go: it lets go of its record or keeps it,  *)
(* reads one that is there, or stores the successor of one it holds.       *)
LEMMA HandlerHolds ==
  ASSUME IInv, NEW r \in Reqs, RequestStep(r)
  PROVE  \/ parent' = parent /\ (req'[r].pc \in HoldPcs =>
                                    req[r].pc \in HoldPcs /\ req'[r].tok = req[r].tok)
         \/ parent' = parent /\ rt[req'[r].tok] # None /\ r \in Refreshers
         \/ /\ req[r].pc = "store" /\ req'[r].pc = "reply"
            /\ \E q \in Tokens \ issued : parent' = [parent EXCEPT ![q] = req[r].tok]
<1>0. /\ parent \in [Tokens -> Tokens \cup {None}] /\ req \in [Reqs -> Request]
      /\ \A q \in Tokens : q \notin issued => parent[q] = None
  BY DEF IInv, StoreInv, StoreTypeOK, RequestInv, AuthTypeOK
<1>1. IdleReq.pc = "idle"
  BY DEF IdleReq
<1>2. EndRequest(r) => req'[r].pc = "idle"
  BY <1>0, <1>1 DEF EndRequest
<1>3. ASSUME NEW u \in Users, NEW a \in Agents, LoginAuthenticate(r, u, a)
      PROVE  parent' = parent /\ req'[r].pc = "login"
  BY <1>0, <1>3 DEF LoginAuthenticate, IdleReq
<1>4. ASSUME NEW q \in Tokens, LoginStore(r, q) PROVE parent' = parent /\ req'[r].pc = "reply"
  <2>1. q \notin issued /\ parent' = [parent EXCEPT ![q] = None]
    BY <1>4 DEF LoginStore, Mint
  <2>2. req'[r].pc = "reply"
    BY <1>0, <1>4 DEF LoginStore, Request
  <2> QED BY <1>0, <2>1, <2>2
<1>5. CASE Reply(r) \/ Abort(r)
  BY <1>2, <1>5 DEF Reply, Abort, storeVars, HoldPcs
<1>6. ASSUME NEW p \in Tokens, NEW a \in Agents, RefreshRead(r, p, a)
      PROVE  parent' = parent /\ rt[req'[r].tok] # None /\ r \in Refreshers
  <2> DEFINE new == [IdleReq EXCEPT !.pc = "read", !.tok = p, !.agent = a, !.rec = rt[p]]
  <2>1. new.tok = p
    BY DEF IdleReq
  <2>2. /\ parent' = parent /\ rt[p] # None /\ req' = [req EXCEPT ![r] = new]
        /\ r \in Refreshers
    BY <1>6 DEF RefreshRead, storeVars, Refreshers
  <2> HIDE DEF new
  <2> QED BY <1>0, <2>1, <2>2
<1>7. CASE RefreshCheck(r) \/ RefreshDelete(r)
  BY <1>0, <1>7 DEF RefreshCheck, RefreshDelete, Goto, Request, Drop, storeVars, HoldPcs
<1>8. ASSUME NEW q \in Tokens, RefreshStore(r, q)
      PROVE  /\ req[r].pc = "store" /\ req'[r].pc = "reply" /\ q \notin issued
             /\ parent' = [parent EXCEPT ![q] = req[r].tok]
  BY <1>0, <1>8 DEF RefreshStore, Mint, Request
<1>9. ASSUME NEW p \in Tokens, LogoutRefreshToken(r, p) \/ LogoutAccessToken(r, p)
      PROVE  parent' = parent /\ req'[r].pc \in {"idle", "logout"}
  <2>1. CASE LogoutAccessToken(r, p)
    BY <1>2, <2>1 DEF LogoutAccessToken, BlacklistAccess
  <2>2. CASE LogoutRefreshToken(r, p)
    <3> DEFINE new == [IdleReq EXCEPT !.pc = "logout", !.tok = p]
    <3>1. new.pc = "logout"
      BY DEF IdleReq
    <3>2. parent' = parent /\ req' = [req EXCEPT ![r] = new]
      BY <2>2 DEF LogoutRefreshToken, BlacklistRefresh
    <3> HIDE DEF new
    <3> QED BY <1>0, <3>1, <3>2
  <2> QED BY <1>9, <2>1, <2>2
<1> QED BY <1>3, <1>4, <1>5, <1>6, <1>7, <1>8, <1>9 DEF RequestStep, HoldPcs

(* The same of a task's step, which also leaves no more tasks at work than *)
(* there are workers.                                                      *)
LEMMA TaskHolds ==
  ASSUME IInv, NEW t \in Tasks, TaskStep(t)
  PROVE  /\ \/ parent' = parent /\ (task'[t].pc \in ExchangePcs =>
                                       task[t].pc \in ExchangePcs /\ task'[t].tok = task[t].tok)
            \/ parent' = parent /\ rt[task'[t].tok] # None
            \/ /\ task[t].pc = "store" /\ task'[t].pc = "mark"
               /\ \E q \in Tokens \ issued : parent' = [parent EXCEPT ![q] = task[t].tok]
         /\ Running(t) \/ Cardinality(AtWork) < Workers
<1>0. task \in [Tasks -> Task]
  BY DEF IInv, TaskInv, TaskTypeOK
<1>1. Running(t) \/ Cardinality(AtWork) < Workers
  BY DEF TaskStep, Progress, Start, CheckIdem, AcquireLock, GetSession, DeleteSession,
         BlacklistOldRefresh, BlacklistOldAccess, StoreSession, MarkIdem, Commit, Release, Fail,
         ReleaseFails, Die, Running, AtWork
<1>2. ASSUME NEW pc \in TaskPcs, Advance(t, pc), pc \in ExchangePcs => task[t].pc \in ExchangePcs
      PROVE  task'[t].pc \in ExchangePcs => task[t].pc \in ExchangePcs /\ task'[t].tok = task[t].tok
  BY <1>0, <1>2, AdvanceLocals
<1>3. ASSUME NEW out \in Outcomes, Leave(t, out) PROVE task'[t].pc \notin ExchangePcs
  BY <1>0, <1>3, LeaveLocals DEF ExchangePcs
<1>4. ASSUME NEW retry \in BOOLEAN, Settle(t, retry) PROVE task'[t].pc \notin ExchangePcs
  BY <1>0, <1>4, SettleLocals DEF ExchangePcs
<1>5. CASE Start(t) \/ CheckIdem(t) \/ AcquireLock(t)
  BY <1>1, <1>2, <1>3, <1>5 DEF Start, CheckIdem, AcquireLock, TaskPcs, Outcomes, storeVars, ExchangePcs
<1>6. CASE GetSession(t)
  <2>1. parent' = parent
    BY <1>6 DEF GetSession, storeVars
  <2>2. CASE Leave(t, "INVALID")
    BY <1>1, <1>3, <2>1, <2>2 DEF Outcomes
  <2>3. CASE /\ rt[task[t].tok] # None
             /\ task' = [task EXCEPT ![t] = [@ EXCEPT !.pc = "delete", !.rec = rt[task[t].tok]]]
    <3>1. task'[t].tok = task[t].tok
      BY <1>0, <2>3 DEF Task
    <3> QED BY <1>1, <2>1, <2>3, <3>1
  <2> QED BY <1>6, <2>2, <2>3 DEF GetSession
<1>7. CASE DeleteSession(t) \/ BlacklistOldRefresh(t) \/ BlacklistOldAccess(t)
  BY <1>1, <1>2, <1>7 DEF DeleteSession, BlacklistOldRefresh, BlacklistOldAccess, Drop,
     BlacklistRefresh, BlacklistAccess, TaskPcs, ExchangePcs
<1>8. ASSUME NEW q \in Tokens, StoreSession(t, q)
      PROVE  /\ task[t].pc = "store" /\ task'[t].pc = "mark" /\ q \notin issued
             /\ parent' = [parent EXCEPT ![q] = task[t].tok]
  <2>1. Advance(t, "mark")
    BY <1>8 DEF StoreSession
  <2>2. task'[t].pc = "mark"
    BY <1>0, <2>1, AdvanceLocals DEF TaskPcs
  <2> QED BY <1>8, <2>2 DEF StoreSession, Mint
<1>9. CASE MarkIdem(t) \/ Commit(t) \/ Fail(t)
  BY <1>1, <1>2, <1>3, <1>9 DEF MarkIdem, Commit, Fail, TaskPcs, Outcomes, storeVars, ExchangePcs
<1>10. CASE Release(t) \/ ReleaseFails(t)
  BY <1>1, <1>4, <1>10 DEF Release, ReleaseFails, storeVars
<1>11. CASE Die(t)
  <2>1. task'[t].pc = "idle" /\ parent' = parent
    BY <1>0, <1>11 DEF Die, IdleTask, storeVars
  <2> QED BY <1>1, <2>1 DEF ExchangePcs
<1> QED BY <1>1, <1>5, <1>6, <1>7, <1>8, <1>9, <1>10, <1>11 DEF TaskStep, Progress

(* A fresh token is a successor of the one it was minted from only.        *)
LEMMA MintedFrom ==
  ASSUME IInv, NEW q \in Tokens \ issued, NEW x \in Tokens, parent' = [parent EXCEPT ![q] = x],
         NEW p \in Tokens
  PROVE  Successors(p)' = IF p = x THEN Successors(p) \cup {q} ELSE Successors(p)
<1>1. parent \in [Tokens -> Tokens \cup {None}] /\ parent[q] = None /\ p # None
  BY DEF IInv, StoreInv, StoreTypeOK
<1> QED BY <1>1 DEF Successors

(* A token with a record has no successor.                                 *)
LEMMA LiveHasNone ==
  ASSUME IInv, NEW p \in Tokens, rt[p] # None
  PROVE  Successors(p) = {}
BY DEF IInv, StoreInv, PredecessorIsDead, Successors

(* Every step keeps the bound.                                             *)
LEMMA BoundStep ==
  ASSUME IsFiniteSet(Reqs), IsFiniteSet(Tasks), IInv, BoundInv, [Next]_vars
  PROVE  BoundInv'
<1>1. ASSUME Cardinality(AtWork') <= Workers, \A p \in Tokens : Counts(p),
             \A r \in Reqs : req'[r].pc \in HoldPcs => r \in Refreshers
      PROVE  BoundInv'
  <2>1. Refreshers' = Refreshers BY DEF Refreshers
  <2> QED BY <1>1, <2>1, CountsKeep DEF BoundInv
<1>h. ASSUME req' = req PROVE \A r \in Reqs : req'[r].pc \in HoldPcs => r \in Refreshers
  BY <1>h DEF BoundInv
<1>2. ASSUME NEW r \in Reqs, Handle(r) PROVE BoundInv'
  <2>1. RequestStep(r) /\ task' = task /\ \A x \in Reqs \ {r} : req'[x] = req[x]
    BY <1>2, HandlerStep DEF Handle, HandlerMoves, IInv, taskVars
  <2>2. AtWork' = AtWork /\ \A p \in Tokens : Exchangers(p)' = Exchangers(p)
    BY <2>1 DEF AtWork, Running, Exchangers
  <2>3. ASSUME NEW p \in Tokens PROVE Counts(p)
    <3>1. CASE parent' = parent /\ (req'[r].pc \in HoldPcs =>
                                       req[r].pc \in HoldPcs /\ req'[r].tok = req[r].tok)
      <4>1. Holders(p)' \subseteq Holders(p) BY <2>1, <3>1 DEF Holders
      <4> QED BY <2>2, <3>1, <4>1 DEF Counts, NobodyJoins, Successors
    <3>2. CASE parent' = parent /\ rt[req'[r].tok] # None
      <4>1. CASE p = req'[r].tok
        BY <3>2, <4>1, LiveHasNone DEF Counts, NoneYet, Successors
      <4>2. CASE p # req'[r].tok
        <5>1. Holders(p)' \subseteq Holders(p) BY <2>1, <4>2 DEF Holders
        <5> QED BY <2>2, <3>2, <5>1 DEF Counts, NobodyJoins, Successors
      <4> QED BY <4>1, <4>2
    <3>3. ASSUME req[r].pc = "store", req'[r].pc = "reply",
                 NEW q \in Tokens \ issued, parent' = [parent EXCEPT ![q] = req[r].tok]
          PROVE  Counts(p)
      <4>1. req[r].tok \in Tokens BY <3>3 DEF IInv, RequestInv, RequestOK, StoreInv, StoreTypeOK
      <4>2. Successors(p)' = IF p = req[r].tok THEN Successors(p) \cup {q} ELSE Successors(p)
        BY <3>3, <4>1, MintedFrom
      <4>3. Holders(p)' \subseteq Holders(p) \ {r} BY <2>1, <3>3 DEF Holders, HoldPcs
      <4>4. p = req[r].tok => r \in Holders(p) BY <3>3 DEF Holders, HoldPcs
      <4> QED BY <2>2, <4>2, <4>3, <4>4 DEF Counts, NobodyJoins, OneStores
    <3> QED BY <2>1, <3>1, <3>2, <3>3, HandlerHolds
  <2>4. \A x \in Reqs : req'[x].pc \in HoldPcs => x \in Refreshers
    <3>1. req'[r].pc \in HoldPcs => req[r].pc \in HoldPcs \/ r \in Refreshers
      BY <2>1, HandlerHolds DEF HoldPcs
    <3> QED BY <2>1, <3>1 DEF BoundInv
  <2> QED BY <1>1, <2>2, <2>3, <2>4 DEF BoundInv
<1>3. ASSUME NEW t \in Tasks, Work(t) PROVE BoundInv'
  <2>1. TaskStep(t) /\ req' = req /\ \A x \in Tasks \ {t} : task'[x] = task[x]
    BY <1>3, WorkerStep DEF Work, TaskMoves, IInv, authVars
  <2>2. \A p \in Tokens : Holders(p)' = Holders(p)
    BY <2>1 DEF Holders
  <2>3. Cardinality(AtWork') <= Workers
    <3>1. AtWork \subseteq Tasks /\ AtWork' \subseteq AtWork \cup {t}
      BY <2>1 DEF AtWork, Running
    <3>2. IsFiniteSet(AtWork) /\ Cardinality(AtWork) \in Nat /\ Cardinality(AtWork) <= Workers
      BY <3>1, FS_Subset, FS_CardinalityType DEF BoundInv
    <3>3. CASE Running(t)
      <4>1. AtWork' \subseteq AtWork BY <3>1, <3>3 DEF AtWork
      <4>2. Cardinality(AtWork') <= Cardinality(AtWork) /\ IsFiniteSet(AtWork')
        BY <3>2, <4>1, FS_Subset
      <4>3. Cardinality(AtWork') \in Nat BY <4>2, FS_CardinalityType
      <4> QED BY <3>2, <4>2, <4>3
    <3>4. CASE Cardinality(AtWork) < Workers
      <4>1. IsFiniteSet(AtWork \cup {t}) /\ Cardinality(AtWork \cup {t}) <= Cardinality(AtWork) + 1
        BY <3>2, OneMore
      <4>2. Cardinality(AtWork') <= Cardinality(AtWork \cup {t}) /\ IsFiniteSet(AtWork')
        BY <3>1, <4>1, FS_Subset
      <4>3. Cardinality(AtWork') \in Nat /\ Cardinality(AtWork \cup {t}) \in Nat
        BY <4>1, <4>2, FS_CardinalityType
      <4> QED BY <3>2, <3>4, <4>1, <4>2, <4>3
    <3> QED BY <2>1, <3>3, <3>4, TaskHolds
  <2>4. ASSUME NEW p \in Tokens PROVE Counts(p)
    <3>1. CASE parent' = parent /\ (task'[t].pc \in ExchangePcs =>
                                       task[t].pc \in ExchangePcs /\ task'[t].tok = task[t].tok)
      <4>1. Exchangers(p)' \subseteq Exchangers(p) BY <2>1, <3>1 DEF Exchangers
      <4> QED BY <2>2, <3>1, <4>1 DEF Counts, NobodyJoins, Successors
    <3>2. CASE parent' = parent /\ rt[task'[t].tok] # None
      <4>1. CASE p = task'[t].tok
        BY <3>2, <4>1, LiveHasNone DEF Counts, NoneYet, Successors
      <4>2. CASE p # task'[t].tok
        <5>1. Exchangers(p)' \subseteq Exchangers(p) BY <2>1, <4>2 DEF Exchangers
        <5> QED BY <2>2, <3>2, <5>1 DEF Counts, NobodyJoins, Successors
      <4> QED BY <4>1, <4>2
    <3>3. ASSUME task[t].pc = "store", task'[t].pc = "mark",
                 NEW q \in Tokens \ issued, parent' = [parent EXCEPT ![q] = task[t].tok]
          PROVE  Counts(p)
      <4>1. task[t].tok \in Tokens BY <3>3 DEF IInv, TaskInv, TaskOK, StoreInv, StoreTypeOK
      <4>2. Successors(p)' = IF p = task[t].tok THEN Successors(p) \cup {q} ELSE Successors(p)
        BY <3>3, <4>1, MintedFrom
      <4>3. Exchangers(p)' \subseteq Exchangers(p) \ {t} BY <2>1, <3>3 DEF Exchangers, ExchangePcs
      <4>4. p = task[t].tok => t \in Exchangers(p) BY <3>3 DEF Exchangers, ExchangePcs
      <4> QED BY <2>2, <4>2, <4>3, <4>4 DEF Counts, NobodyJoins, OneStores
    <3> QED BY <2>1, <3>1, <3>2, <3>3, TaskHolds
  <2> QED BY <1>1, <1>h, <2>1, <2>3, <2>4
<1>4. ASSUME parent' = parent, req' = req, NEW t \in Tasks, \A x \in Tasks \ {t} : task'[x] = task[x],
             task'[t] = task[t] \/ task'[t].pc = "queued"
      PROVE  BoundInv'
  <2>1. AtWork' \subseteq AtWork BY <1>4 DEF AtWork, Running
  <2>2. AtWork \subseteq Tasks BY DEF AtWork
  <2>3. /\ IsFiniteSet(AtWork) /\ IsFiniteSet(AtWork')
        /\ Cardinality(AtWork') <= Cardinality(AtWork) /\ Cardinality(AtWork) <= Workers
    BY <2>1, <2>2, FS_Subset DEF BoundInv
  <2>4. Cardinality(AtWork) \in Nat /\ Cardinality(AtWork') \in Nat BY <2>3, FS_CardinalityType
  <2>5. Cardinality(AtWork') <= Workers BY <2>3, <2>4
  <2>6. ASSUME NEW p \in Tokens PROVE Counts(p)
    <3>1. Exchangers(p)' \subseteq Exchangers(p) BY <1>4 DEF Exchangers, ExchangePcs
    <3> QED BY <1>4, <3>1 DEF Counts, NobodyJoins, Successors, Holders
  <2> QED BY <1>1, <1>h, <1>4, <2>5, <2>6
<1>5. ASSUME NEW t \in Tasks, Submit(t) PROVE BoundInv'
  <2>1. PICK p \in known, a \in Agents : Enqueue(t, p, a) BY <1>5 DEF Submit
  <2> DEFINE new == QueuedTask(p, a, 0)
  <2>2. new.pc = "queued" BY DEF QueuedTask
  <2>3. /\ task' = [task EXCEPT ![t] = new] /\ parent' = parent /\ req' = req
        /\ task \in [Tasks -> Task]
    BY <1>5, <2>1 DEF Enqueue, Submit, storeVars, authVars, IInv, TaskInv, TaskTypeOK
  <2> HIDE DEF new
  <2> QED BY <1>4, <2>2, <2>3
<1>6. CASE TimePasses \/ UNCHANGED vars
  <2>1. parent' = parent /\ task' = task /\ req' = req
    BY <1>6 DEF TimePasses, ExpireSession, ExpireLock, ExpireIdem, Drop, vars, storeVars, authVars,
                taskVars
  <2>2. AtWork' = AtWork /\ \A p \in Tokens : Counts(p)
    BY <2>1 DEF AtWork, Running, Counts, NobodyJoins, Successors, Holders, Exchangers
  <2> QED BY <1>1, <1>h, <2>1, <2>2 DEF BoundInv
<1> QED BY <1>2, <1>3, <1>5, <1>6 DEF Next

(* Before the first login nobody holds anything.                           *)
LEMMA BoundInit == ASSUME IsFiniteSet(Reqs), IsFiniteSet(Tasks) PROVE Init => BoundInv
<1> SUFFICES ASSUME Init PROVE BoundInv
  OBVIOUS
<1>1. AtWork = {}
  BY DEF Init, TaskInit, AtWork, Running, IdleTask
<1>2. /\ \A p \in Tokens : Successors(p) = {} /\ Holders(p) = {} /\ Exchangers(p) = {}
      /\ \A r \in Reqs : req[r].pc \notin HoldPcs
  BY DEF Init, StoreInit, AuthInit, TaskInit, Successors, Holders, Exchangers, HoldPcs, ExchangePcs,
         IdleTask, IdleReq
<1>3. Cardinality({}) = 0 /\ IsFiniteSet({}) /\ Cardinality(Refreshers) \in Nat /\ Workers \in Nat
  BY FS_EmptySet, FS_CardinalityType DEF Refreshers
<1>4. Cardinality(AtWork) <= Workers
  BY <1>1, <1>3
<1>5. ASSUME NEW p \in Tokens
      PROVE  /\ IsFiniteSet(Successors(p))
             /\ Cardinality(Successors(p)) + Cardinality(Holders(p)) + Cardinality(Exchangers(p))
                  <= Cardinality(Refreshers) + Workers
  <2>1. /\ IsFiniteSet(Successors(p)) /\ Cardinality(Successors(p)) = 0
        /\ Cardinality(Holders(p)) = 0 /\ Cardinality(Exchangers(p)) = 0
    BY <1>2, <1>3
  <2> QED BY <1>3, <2>1
<1> QED BY <1>2, <1>4, <1>5 DEF BoundInv

(* The successors of a token are among those who count for it.             *)
LEMMA BoundImplies ==
  ASSUME IsFiniteSet(Reqs), IsFiniteSet(Tasks)
  PROVE  BoundInv => SuccessorsBounded
<1> SUFFICES ASSUME BoundInv, NEW p \in Tokens
             PROVE  Cardinality(Successors(p)) <= Cardinality(Refreshers) + Workers
  BY DEF SuccessorsBounded
<1>1. Holders(p) \subseteq Reqs /\ Exchangers(p) \subseteq Tasks /\ IsFiniteSet(Successors(p))
  BY DEF Holders, Exchangers, BoundInv
<1>2. /\ Cardinality(Successors(p)) \in Nat /\ Cardinality(Holders(p)) \in Nat
      /\ Cardinality(Exchangers(p)) \in Nat /\ Cardinality(Refreshers) \in Nat
  BY <1>1, FS_EmptySet, FS_Subset, FS_CardinalityType DEF Refreshers
<1> QED BY <1>2 DEF BoundInv

(* However many handlers and workers refresh with one token at the same    *)
(* time, it never has more successors than there are of them together.     *)
THEOREM SuccessorsAreBounded ==
  ASSUME IsFiniteSet(Reqs), IsFiniteSet(Tasks)
  PROVE  Spec => []SuccessorsBounded
<1>1. Init => BoundInv
  BY BoundInit
<1>2. IInv /\ BoundInv /\ [Next]_vars => BoundInv'
  BY BoundStep
<1>3. BoundInv => SuccessorsBounded
  BY BoundImplies
<1> QED BY <1>1, <1>2, <1>3, Invariance, PTL DEF Spec

(* A step of a sweep moves no handler, no task and no predecessor.         *)
LEMMA BoundSweep ==
  ASSUME IsFiniteSet(Reqs), IsFiniteSet(Tasks), SweepInv, BoundInv,
         [SweepNext]_<<vars, sweepVars>>
  PROVE  BoundInv'
<1>1. CASE [Next]_vars
  BY <1>1, BoundStep DEF SweepInv
<1>2. ASSUME parent' = parent, task' = task, req' = req
      PROVE  BoundInv'
  <2>1. /\ AtWork' = AtWork
        /\ \A p \in Tokens : /\ Successors(p)' = Successors(p) /\ Holders(p)' = Holders(p)
                              /\ Exchangers(p)' = Exchangers(p)
    BY <1>2 DEF AtWork, Running, Successors, Holders, Exchangers
  <2> QED BY <1>2, <2>1 DEF BoundInv, Refreshers
<1>3. ASSUME NEW u \in Users, List(u) \/ Stop(u) \/ \E p \in Tokens : Delete(u, p)
      PROVE  parent' = parent /\ task' = task /\ req' = req
  BY <1>3 DEF List, Stop, Delete, Drop, vars, storeVars, authVars, taskVars
<1> QED BY <1>1, <1>2, <1>3 DEF SweepNext

(* The same bound beside sweeps: one that ends a session between a         *)
(* handler's read and its store makes nobody read or store once more       *)
(* (mfa_service.py:59-78, auth_service.py:96-150).                         *)
THEOREM SweepSuccessorsAreBounded ==
  ASSUME IsFiniteSet(Reqs), IsFiniteSet(Tasks)
  PROVE  SweepSpec => []SuccessorsBounded
<1>1. SweepInit => BoundInv
  BY BoundInit DEF SweepInit
<1>2. SweepInv /\ BoundInv /\ [SweepNext]_<<vars, sweepVars>> => BoundInv'
  BY BoundSweep
<1>3. BoundInv => SuccessorsBounded
  BY BoundImplies
<1> QED BY <1>1, <1>2, <1>3, SweepInvariance, PTL DEF SweepSpec

(* With one worker and no client of the direct endpoint a refresh token is *)
(* exchanged at most once, however many messages carry it and whatever     *)
(* fails, is retried or dies (refresh_token.py:25, 60-87).                 *)
THEOREM OneWorkerRotatesOnce ==
  ASSUME Workers = 1, "refresh" \notin Routes, IsFiniteSet(Reqs), IsFiniteSet(Tasks)
  PROVE  Spec => [](\A p \in Tokens : Cardinality(Successors(p)) <= 1)
<1>1. SuccessorsBounded => \A p \in Tokens : Cardinality(Successors(p)) <= 1
  <2>1. Cardinality(Refreshers) + Workers = 1
    BY FS_EmptySet DEF Refreshers
  <2> QED BY <2>1 DEF SuccessorsBounded
<1> QED BY <1>1, SuccessorsAreBounded, PTL

=============================================================================
