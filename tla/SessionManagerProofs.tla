------------------------ MODULE SessionManagerProofs ------------------------
(* Proofs about SessionManager, for every set of sessions and requests.     *)
EXTENDS SessionManager, FiniteSetTheorems, TLAPS

(* The steps of a request that knows its session. *)
SessionStep == {"checkRevoked", "readMeta", "touch", "touchTtl", "loadOfficer", "accepted",
                "revokeAccess", "revokeRefresh", "deleteHash", "unindex",
                "expireMeta", "addIndex", "writeTokens", "respond"}

(* A request that knows its session names one that was created. *)
SidsUsed == \A r \in Requests : pc[r] \in SessionStep => req[r].sid \in used

TokensUsed == \A t \in held : t[1] \in used

IndexUsed == index \subseteq used

TypeInv == TypeOK /\ SidsUsed /\ TokensUsed /\ IndexUsed

-----------------------------------------------------------------------------
LEMMA InitType == Init => TypeInv
BY SessionAssumption DEF Init, TypeInv, TypeOK, SidsUsed, TokensUsed, IndexUsed, Absent, Key, Age, Field,
   NoRequest, Request, Step, SessionStep, Kind

LEMMA NoRequestType == NoRequest \in Request
BY SessionAssumption DEF NoRequest, Request, Kind

LEMMA FinishType ==
    ASSUME NEW r \in Requests, TypeInv, Finish(r)
    PROVE  /\ pc' \in [Requests -> Step] /\ req' \in [Requests -> Request]
           /\ \A q \in Requests : pc'[q] \in SessionStep => pc'[q] = pc[q] /\ req'[q] = req[q]
BY NoRequestType DEF Finish, TypeInv, TypeOK, Step, SessionStep

LEMMA GotoType ==
    ASSUME NEW r \in Requests, NEW step \in Step, TypeInv, Goto(r, step)
    PROVE  /\ pc' \in [Requests -> Step]
           /\ \A q \in Requests : pc'[q] = IF q = r THEN step ELSE pc[q]
BY DEF Goto, TypeInv, TypeOK

LEMMA ExpireType ==
    ASSUME NEW s \in Sessions, session \in [Sessions -> Key], Expire(s)
    PROVE  session' \in [Sessions -> Key]
<1>1. Exists(s) \in BOOLEAN
  BY DEF Exists
<1>2. [session[s] EXCEPT !.ttl = Exists(s)] \in Key
  BY <1>1 DEF Key
<1>. QED
  BY <1>1, <1>2 DEF Expire, Key

LEMMA DeleteType ==
    ASSUME NEW S \in SUBSET Sessions, session \in [Sessions -> Key], Delete(S)
    PROVE  session' \in [Sessions -> Key]
BY SessionAssumption DEF Delete, Key, Absent, Age, Field

LEMMA NewKeyType == [Absent EXCEPT !.fields = {"created", "activity"}] \in Key
<1>1. Absent \in Key
  BY SessionAssumption DEF Absent, Key, Age, Field
<1>2. \A k \in Key : [k EXCEPT !.fields = {"created", "activity"}] \in Key
  BY DEF Key, Field
<1>. QED
  BY <1>1, <1>2

(* The updates of a request, as functions on its record. *)
LEMMA RequestUpdates ==
    ASSUME NEW q \in Request
    PROVE  /\ \A s \in Sessions : /\ [q EXCEPT !.sid = s, !.late = FALSE] \in Request
                                  /\ [q EXCEPT !.sid = s, !.late = FALSE].sid = s
           /\ \A jti \in 0..MaxAccess : [q EXCEPT !.jti = jti] \in Request
           /\ \A S \in SUBSET Sessions : [q EXCEPT !.sweep = S] \in Request
BY DEF Request

(* A step that only moves one request, to a step of a request that knows    *)
(* its session already or to one that need not.                             *)
LEMMA MoveType ==
    ASSUME NEW r \in Requests, NEW step \in Step, TypeInv, Goto(r, step),
           req' \in [Requests -> Request], UNCHANGED <<session, index, revoked, used, minted, held>>,
           \A q \in Requests \ {r} : req'[q] = req[q],
           step \in SessionStep => req'[r].sid \in used
    PROVE  TypeInv'
BY GotoType DEF TypeInv, TypeOK, SidsUsed, TokensUsed, IndexUsed

LEMMA AfterSweepType ==
    ASSUME NEW r \in Requests, TypeInv, AfterSweep(r)
    PROVE  /\ pc' \in [Requests -> Step] /\ req' \in [Requests -> Request]
           /\ \A q \in Requests : pc'[q] \in SessionStep => pc'[q] = pc[q] /\ req'[q] = req[q]
<1>1. CASE Sweeping(r) /\ req[r].kind = "reset"
  BY <1>1, FinishType DEF AfterSweep
<1>2. CASE ~(Sweeping(r) /\ req[r].kind = "reset")
  <2>. DEFINE step == IF Sweeping(r) THEN "enforce" ELSE "writeMeta"
  <2>1. req' = [req EXCEPT ![r].sweep = {}] /\ Goto(r, step)
    BY <1>2 DEF AfterSweep
  <2>2. [req[r] EXCEPT !.sweep = {}] \in Request
    BY RequestUpdates DEF TypeInv, TypeOK
  <2>3. step \in Step /\ step \notin SessionStep
    BY DEF Step, SessionStep
  <2>4. /\ pc' \in [Requests -> Step]
        /\ \A q \in Requests : pc'[q] = IF q = r THEN step ELSE pc[q]
    BY <2>1, <2>3, GotoType
  <2>. QED
    BY <2>1, <2>2, <2>3, <2>4 DEF TypeInv, TypeOK
<1>. QED
  BY <1>1, <1>2

LEMMA TypeStep == TypeInv /\ [Next]_vars => TypeInv'
<1>. SUFFICES ASSUME TypeInv, [Next]_vars PROVE TypeInv'
  OBVIOUS
<1>. USE SessionAssumption DEF TypeInv, TypeOK, SidsUsed, TokensUsed, IndexUsed
<1>1. ASSUME NEW r \in Requests, Login(r) PROVE TypeInv'
  <2>1. [NoRequest EXCEPT !.kind = "login"] \in Request
    BY NoRequestType DEF Request, Kind
  <2>. QED
    BY <1>1, <2>1, MoveType DEF Login, Step, SessionStep, store, tokens
<1>2. ASSUME NEW r \in Requests, Reset(r) PROVE TypeInv'
  <2>1. [NoRequest EXCEPT !.kind = "reset"] \in Request
    BY NoRequestType DEF Request, Kind
  <2>. QED
    BY <1>2, <2>1, MoveType DEF Reset, Step, SessionStep, store, tokens
<1>3. ASSUME NEW r \in Requests, NEW kind \in Kind, NEW s \in Sessions, NEW n \in 0..MaxAccess,
             Present(r, kind, s, n)
      PROVE  TypeInv'
  <2>1. /\ minted' \in [Sessions -> 0..MaxAccess]
        /\ s \in used
    BY <1>3 DEF Present
  <2>2. (Dead(s) \/ <<s, n>> \in revoked) \in BOOLEAN
    BY DEF Dead
  <2>3. req'[r] \in Request /\ req'[r].sid = s
    BY <1>3, <2>1, <2>2, NoRequestType DEF Present, Request
  <2>4. req' \in [Requests -> Request] /\ \A q \in Requests \ {r} : req'[q] = req[q]
    BY <1>3, <2>3 DEF Present
  <2>. QED
    BY <1>3, <2>1, <2>3, <2>4, GotoType DEF Present, Step, store
<1>4. ASSUME NEW r \in Requests, CheckRevoked(r) PROVE TypeInv'
  <2>1. CASE Finish(r)
    BY <1>4, <2>1, FinishType DEF CheckRevoked, store, tokens
  <2>2. CASE Goto(r, "readMeta") /\ UNCHANGED req
    BY <1>4, <2>2, MoveType DEF CheckRevoked, Step, SessionStep, store, tokens
  <2>. QED
    BY <1>4, <2>1, <2>2 DEF CheckRevoked
<1>5. ASSUME NEW r \in Requests, ReadMeta(r) PROVE TypeInv'
  <2>. DEFINE s == req[r].sid
  <2>0. s \in Sessions /\ s \in used
    BY <1>5 DEF ReadMeta, SessionStep
  <2>1. CASE Finish(r)
    BY <1>5, <2>1, FinishType DEF ReadMeta, store, tokens
  <2>2. CASE Goto(r, "touch") /\ UNCHANGED req
    BY <1>5, <2>0, <2>2, MoveType DEF ReadMeta, Step, SessionStep, store, tokens
  <2>3. ASSUME NEW jti \in 0..MaxAccess, NEW ref \in BOOLEAN, NEW known \in BOOLEAN,
               Goto(r, "revokeAccess"),
               req' = [req EXCEPT ![r].jti = jti, ![r].ref = ref, ![r].known = known]
        PROVE  TypeInv'
    <3>. DEFINE new == [req[r] EXCEPT !.jti = jti, !.ref = ref, !.known = known]
    <3>0. req[r] \in Request
      OBVIOUS
    <3>1. new \in Request /\ new.sid = s
      BY <2>3, <3>0 DEF Request
    <3>2. req' = [req EXCEPT ![r] = new]
      BY <2>3
    <3>3. req' \in [Requests -> Request] /\ req'[r] = new /\ \A q \in Requests \ {r} : req'[q] = req[q]
      BY <3>1, <3>2
    <3>. HIDE DEF new
    <3>. QED
      BY <1>5, <2>0, <2>3, <3>1, <3>3, MoveType DEF ReadMeta, Step, SessionStep, store, tokens
  <2>4. /\ ("tokens" \in session[s].fields) \in BOOLEAN /\ ("created" \in session[s].fields) \in BOOLEAN
        /\ session[s].jti \in 0..MaxAccess /\ req[r].tok \in 0..MaxAccess
    BY <2>0 DEF Key, Request
  <2>. QED
    BY <1>5, <2>1, <2>2, <2>3, <2>4 DEF ReadMeta
<1>6. ASSUME NEW r \in Requests, Touch(r) PROVE TypeInv'
  BY <1>6 DEF Touch, Key, Age, Field, Goto, Request, Step, SessionStep, tokens
<1>7. ASSUME NEW r \in Requests, TouchTtl(r) PROVE TypeInv'
  BY <1>7, ExpireType, GotoType DEF TouchTtl, Step, SessionStep, tokens
<1>8. ASSUME NEW r \in Requests, LoadOfficer(r) PROVE TypeInv'
  <2>0. req[r].sid \in Sessions
    BY <1>8 DEF LoadOfficer, SessionStep
  <2>1. CASE Goto(r, "accepted") /\ UNCHANGED <<session, req>>
    BY <1>8, <2>0, <2>1, MoveType DEF LoadOfficer, Step, SessionStep, tokens
  <2>2. CASE Finish(r) /\ UNCHANGED session
    BY <1>8, <2>2, FinishType DEF LoadOfficer, tokens
  <2>3. CASE Delete({req[r].sid}) /\ Finish(r)
    BY <1>8, <2>0, <2>3, FinishType, DeleteType DEF LoadOfficer, tokens
  <2>. QED
    BY <1>8, <2>1, <2>2, <2>3 DEF LoadOfficer
<1>9. ASSUME NEW r \in Requests, Serve(r) PROVE TypeInv'
  BY <1>9, FinishType DEF Serve, store, tokens
<1>10. ASSUME NEW r \in Requests, Logout(r) PROVE TypeInv'
  <2>1. ASSUME NEW ref \in BOOLEAN,
               req' = [req EXCEPT ![r].jti = req[r].tok, ![r].ref = ref, ![r].known = TRUE]
        PROVE  TypeInv'
    <3>. DEFINE new == [req[r] EXCEPT !.jti = req[r].tok, !.ref = ref, !.known = TRUE]
    <3>0. req[r] \in Request
      OBVIOUS
    <3>1. new \in Request /\ new.sid = req[r].sid
      BY <2>1, <3>0 DEF Request
    <3>2. req' = [req EXCEPT ![r] = new]
      BY <2>1
    <3>3. req' \in [Requests -> Request] /\ req'[r] = new /\ \A q \in Requests \ {r} : req'[q] = req[q]
      BY <3>1, <3>2
    <3>. HIDE DEF new
    <3>. QED
      BY <1>10, <2>1, <3>1, <3>3, MoveType DEF Logout, Step, SessionStep, store, tokens
  <2>. QED
    BY <1>10, <2>1 DEF Logout
<1>11. ASSUME NEW r \in Requests, ChangePassword(r) PROVE TypeInv'
  BY <1>11 DEF ChangePassword, Token, Goto, Request, Step, SessionStep, tokens
<1>12. ASSUME NEW r \in Requests, Refresh(r) PROVE TypeInv'
  BY <1>12 DEF Refresh, HSetTokens, Key, Field, Goto, Request, Step, SessionStep, tokens
<1>13. ASSUME NEW r \in Requests, RevokeAccess(r) PROVE TypeInv'
  BY <1>13 DEF RevokeAccess, Token, Goto, Request, Step, SessionStep, tokens
<1>14. ASSUME NEW r \in Requests, RevokeRefresh(r) PROVE TypeInv'
  BY <1>14 DEF RevokeRefresh, Token, Goto, Request, Step, SessionStep, tokens
<1>15. ASSUME NEW r \in Requests, DeleteHash(r) PROVE TypeInv'
  BY <1>15, GotoType, DeleteType DEF DeleteHash, Step, SessionStep, tokens
<1>16. ASSUME NEW r \in Requests, Unindex(r) PROVE TypeInv'
  BY <1>16, FinishType DEF Unindex, tokens
<1>17. ASSUME NEW r \in Requests, ReadIndex(r) PROVE TypeInv'
  <2>1. CASE AfterSweep(r)
    BY <1>17, <2>1, AfterSweepType DEF ReadIndex, store, tokens
  <2>2. CASE ~AfterSweep(r)
    <3>1. [req[r] EXCEPT !.sweep = index] \in Request
      BY DEF Request
    <3>. QED
      BY <1>17, <2>2, <3>1, MoveType DEF ReadIndex, Step, SessionStep, store, tokens
  <2>. QED
    BY <2>1, <2>2
<1>18. ASSUME NEW r \in Requests, DeleteSwept(r) PROVE TypeInv'
  <2>1. req[r].sweep \subseteq Sessions
    BY DEF Request
  <2>. QED
    BY <1>18, <2>1, AfterSweepType, DeleteType DEF DeleteSwept, tokens
<1>19. ASSUME NEW r \in Requests, Enforce(r) PROVE TypeInv'
  BY <1>19, MoveType DEF Enforce, Step, SessionStep, store, tokens
<1>20. ASSUME NEW r \in Requests, WriteMeta(r) PROVE TypeInv'
  <2>1. PICK s \in Sessions \ used :
              /\ used' = used \cup {s}
              /\ session' = [session EXCEPT ![s] = [Absent EXCEPT !.fields = {"created", "activity"}]]
              /\ req' = [req EXCEPT ![r].sid = s, ![r].late = FALSE]
    BY <1>20 DEF WriteMeta
  <2>2. [Absent EXCEPT !.fields = {"created", "activity"}] \in Key
    BY NewKeyType
  <2>. DEFINE new == [req[r] EXCEPT !.sid = s, !.late = FALSE]
  <2>5. new \in Request /\ new.sid = s
    BY RequestUpdates
  <2>6. req' = [req EXCEPT ![r] = new]
    BY <2>1
  <2>3. req' \in [Requests -> Request] /\ req'[r].sid = s
    BY <2>5, <2>6
  <2>4. \A q \in Requests \ {r} : req'[q] = req[q]
    BY <2>1
  <2>. QED
    BY <1>20, <2>1, <2>2, <2>3, <2>4, GotoType DEF WriteMeta, Step, SessionStep
<1>21. ASSUME NEW r \in Requests, ExpireMeta(r) PROVE TypeInv'
  BY <1>21, ExpireType, GotoType DEF ExpireMeta, Step, SessionStep, tokens
<1>22. ASSUME NEW r \in Requests, AddIndex(r) PROVE TypeInv'
  BY <1>22, GotoType DEF AddIndex, Step, SessionStep, tokens
<1>23. ASSUME NEW r \in Requests, WriteTokens(r) PROVE TypeInv'
  <2>0. req[r].sid \in Sessions /\ req[r].sid \in used
    BY <1>23 DEF WriteTokens, SessionStep
  <2>1. 1 \in 0..MaxAccess
    OBVIOUS
  <2>2. session' \in [Sessions -> Key]
    BY <1>23, <2>0, <2>1 DEF WriteTokens, HSetTokens, Key, Field
  <2>3. req' \in [Requests -> Request] /\ \A q \in Requests : req'[q].sid = req[q].sid
    BY <1>23, <2>1 DEF WriteTokens, Request
  <2>4. minted' \in [Sessions -> 0..MaxAccess]
    BY <1>23, <2>0, <2>1 DEF WriteTokens
  <2>5. SidsUsed'
    BY <1>23, <2>0, <2>3, GotoType DEF WriteTokens, Step, SessionStep
  <2>. QED
    BY <1>23, <2>2, <2>3, <2>4, <2>5, GotoType DEF WriteTokens, Step
<1>24. ASSUME NEW r \in Requests, Respond(r) PROVE TypeInv'
  <2>1. /\ req[r].sid \in Sessions /\ req[r].sid \in used
        /\ req[r].jti \in 0..MaxAccess
    BY <1>24 DEF Respond, SessionStep, Request
  <2>. QED
    BY <1>24, <2>1, FinishType DEF Respond, Token, store
<1>25. ASSUME NEW r \in Requests, Fail(r) PROVE TypeInv'
  BY <1>25, FinishType DEF Fail, store, tokens
<1>26. ASSUME NEW s \in Sessions, GrowIdle(s) \/ GrowOld(s) PROVE TypeInv'
  BY <1>26 DEF GrowIdle, GrowOld, Key, Age, tokens
<1>27. ASSUME NEW s \in Sessions, ExpireHash(s) PROVE TypeInv'
  BY <1>27, DeleteType DEF ExpireHash, tokens
<1>28. CASE ExpireIndex
  BY <1>28 DEF ExpireIndex, tokens
<1>29. CASE UNCHANGED vars
  BY <1>29 DEF vars
<1>. QED
  BY <1>1, <1>2, <1>3, <1>4, <1>5, <1>6, <1>7, <1>8, <1>9, <1>10, <1>11, <1>12, <1>13, <1>14,
     <1>15, <1>16, <1>17, <1>18, <1>19, <1>20, <1>21, <1>22, <1>23, <1>24, <1>25, <1>26,
     <1>27, <1>28, <1>29
  DEF Next, Arrive, Proceed, TimePasses

(* Every variable keeps its type: in particular no step works on a session  *)
(* that was never created, and no token number exceeds the bound.           *)
THEOREM TypeCorrect == Spec => []TypeOK
<1>1. TypeInv => TypeOK
  BY DEF TypeInv
<1>. QED
  BY <1>1, InitType, TypeStep, PTL DEF Spec

-----------------------------------------------------------------------------
(* What a removed session and a revoked token can never become again.       *)

(* DEL, EXPIRE and the HSETs of touch_session and update_session_tokens     *)
(* write no created_at; WriteMeta does, to a session that did not exist.    *)
LEMMA Monotone ==
    ASSUME TypeInv, [Next]_vars
    PROVE  /\ \A s \in Sessions : Dead(s) => Dead(s)'
           /\ revoked \subseteq revoked'
<1>. USE DEF TypeInv, TypeOK, Dead
<1>. DEFINE Goal == /\ \A s \in Sessions : Dead(s) => Dead(s)'
                    /\ revoked \subseteq revoked'
<1>1. ASSUME UNCHANGED session, used \subseteq used', revoked \subseteq revoked'
      PROVE  Goal
  BY <1>1
<1>2. ASSUME NEW S \in SUBSET Sessions, Delete(S), UNCHANGED <<used, revoked>> PROVE Goal
  BY <1>2 DEF Delete, Absent
<1>3. ASSUME NEW s \in Sessions, Expire(s), UNCHANGED <<used, revoked>> PROVE Goal
  BY <1>3 DEF Expire, Key
<1>4. ASSUME NEW s \in Sessions, NEW n \in 0..MaxAccess, HSetTokens(s, n), UNCHANGED <<used, revoked>>
      PROVE  Goal
  BY <1>4 DEF HSetTokens, Key
<1>5. ASSUME NEW r \in Requests, Login(r) \/ Reset(r) \/ Fail(r) PROVE Goal
  BY <1>5, <1>1 DEF Login, Reset, Fail, store, tokens
<1>6. ASSUME NEW r \in Requests, NEW kind \in Kind, NEW s \in Sessions, NEW n \in 0..MaxAccess,
             Present(r, kind, s, n)
      PROVE  Goal
  BY <1>6, <1>1 DEF Present, store
<1>7. ASSUME NEW r \in Requests,
             \/ CheckRevoked(r) \/ ReadMeta(r) \/ Serve(r) \/ Logout(r) \/ ReadIndex(r) \/ Enforce(r)
             \/ ChangePassword(r) \/ RevokeAccess(r) \/ RevokeRefresh(r) \/ Unindex(r) \/ AddIndex(r)
             \/ Respond(r)
      PROVE  Goal
  BY <1>7, <1>1 DEF CheckRevoked, ReadMeta, Serve, Logout, ReadIndex, Enforce, ChangePassword,
     RevokeAccess, RevokeRefresh, Unindex, AddIndex, Respond, store, tokens
<1>8. ASSUME NEW r \in Requests, Touch(r) PROVE Goal
  BY <1>8 DEF Touch, Key, tokens
<1>9. ASSUME NEW r \in Requests, TouchTtl(r) \/ ExpireMeta(r) PROVE Goal
  <2>1. req[r].sid \in Sessions
    BY <1>9 DEF TouchTtl, ExpireMeta, SidsUsed, SessionStep
  <2>. QED
    BY <1>9, <1>3, <2>1 DEF TouchTtl, ExpireMeta, tokens
<1>10. ASSUME NEW r \in Requests, LoadOfficer(r) PROVE Goal
  <2>1. req[r].sid \in Sessions
    BY <1>10 DEF LoadOfficer, SidsUsed, SessionStep
  <2>. QED
    BY <1>10, <1>1, <1>2, <2>1 DEF LoadOfficer, tokens
<1>11. ASSUME NEW r \in Requests, Refresh(r) \/ WriteTokens(r) PROVE Goal
  <2>1. /\ req[r].sid \in Sessions
        /\ req[r].jti \in 0..MaxAccess /\ 1 \in 0..MaxAccess
    BY <1>11, SessionAssumption DEF Refresh, WriteTokens, SidsUsed, SessionStep, Request
  <2>. QED
    BY <1>11, <1>4, <2>1 DEF Refresh, WriteTokens, tokens
<1>12. ASSUME NEW r \in Requests, DeleteHash(r) PROVE Goal
  <2>1. req[r].sid \in Sessions
    BY <1>12 DEF DeleteHash, SidsUsed, SessionStep
  <2>. QED
    BY <1>12, <1>2, <2>1 DEF DeleteHash, tokens
<1>13. ASSUME NEW r \in Requests, DeleteSwept(r) PROVE Goal
  <2>1. req[r].sweep \subseteq Sessions
    BY DEF Request
  <2>. QED
    BY <1>13, <1>2, <2>1 DEF DeleteSwept, tokens
<1>14. ASSUME NEW r \in Requests, WriteMeta(r) PROVE Goal
  BY <1>14 DEF WriteMeta
<1>15. ASSUME NEW s \in Sessions, GrowIdle(s) \/ GrowOld(s) PROVE Goal
  BY <1>15 DEF GrowIdle, GrowOld, Key, tokens
<1>16. ASSUME NEW s \in Sessions, ExpireHash(s) PROVE Goal
  BY <1>16, <1>2 DEF ExpireHash, tokens
<1>17. CASE ExpireIndex \/ UNCHANGED vars
  BY <1>17, <1>1 DEF ExpireIndex, vars, tokens
<1>. QED
  BY <1>5, <1>6, <1>7, <1>8, <1>9, <1>10, <1>11, <1>12, <1>13, <1>14, <1>15, <1>16, <1>17
  DEF Next, Arrive, Proceed, TimePasses

(* A late request never gets past validate_session_activity, and a request  *)
(* inside invalidate_session has done what its step says.                   *)
RequestSafe(r) ==
    LET s == req[r].sid IN
    /\ req[r].late =>
         \/ pc[r] = "checkRevoked" /\ (Dead(s) \/ <<s, req[r].tok>> \in revoked)
         \/ /\ pc[r] \in {"readMeta", "revokeAccess", "revokeRefresh", "deleteHash", "unindex"}
            /\ Dead(s)
    /\ pc[r] \in {"revokeRefresh", "deleteHash", "unindex"} => <<s, req[r].jti>> \in revoked
    /\ pc[r] = "unindex" => Dead(s)

IInv == TypeInv /\ \A r \in Requests : RequestSafe(r)

(* A request that does not move stays safe, whatever the others do. *)
LEMMA Frame ==
    ASSUME IInv, [Next]_vars, NEW q \in Requests, pc'[q] = pc[q], req'[q] = req[q]
    PROVE  RequestSafe(q)'
<1>1. /\ \A s \in Sessions : Dead(s) => Dead(s)'
      /\ revoked \subseteq revoked'
  BY Monotone DEF IInv
<1>2. pc[q] \in SessionStep => req[q].sid \in Sessions
  BY DEF IInv, TypeInv, TypeOK, SidsUsed
<1>. QED
  BY <1>1, <1>2 DEF IInv, RequestSafe, SessionStep

LEMMA FinishSafe ==
    ASSUME NEW r \in Requests, TypeInv, Finish(r)
    PROVE  RequestSafe(r)' /\ \A q \in Requests \ {r} : pc'[q] = pc[q] /\ req'[q] = req[q]
BY DEF Finish, TypeInv, TypeOK, RequestSafe, NoRequest

LEMMA SafeStep == IInv /\ [Next]_vars => IInv'
<1>. SUFFICES ASSUME IInv, [Next]_vars PROVE IInv'
  OBVIOUS
<1>0. TypeInv /\ TypeInv'
  BY TypeStep DEF IInv
<1>. DEFINE Others(r) == \A q \in Requests \ {r} : pc'[q] = pc[q] /\ req'[q] = req[q]
            Safe == \A r \in Requests : RequestSafe(r)'
<1>1. ASSUME NEW r \in Requests, Others(r), RequestSafe(r)' PROVE Safe
  BY <1>1, Frame
<1>. USE <1>0 DEF TypeInv, TypeOK
<1>2. ASSUME NEW r \in Requests, Finish(r) PROVE Safe
  BY <1>1, <1>2, FinishSafe
(* A step to a place where nothing is asked of a request that is not late.  *)
<1>3. ASSUME NEW r \in Requests, NEW step \in Step, Goto(r, step),
             step \notin {"revokeRefresh", "deleteHash", "unindex"},
             req' \in [Requests -> Request], \A q \in Requests \ {r} : req'[q] = req[q],
             ~req'[r].late
      PROVE  Safe
  <2>1. pc'[r] = step /\ Others(r)
    BY <1>3 DEF Goto
  <2>2. RequestSafe(r)'
    BY <1>3, <2>1 DEF RequestSafe
  <2>. QED
    BY <1>1, <2>1, <2>2
<1>4. ASSUME NEW r \in Requests, Login(r) \/ Reset(r) PROVE Safe
  <2>1. Others(r) /\ ~req'[r].late /\ pc'[r] \in {"enforce", "sweepRead"}
    BY <1>4 DEF Login, Reset, Goto, NoRequest
  <2>2. RequestSafe(r)'
    BY <2>1 DEF RequestSafe
  <2>. QED
    BY <1>1, <2>1, <2>2
<1>5. ASSUME NEW r \in Requests, NEW kind \in Kind, NEW s \in Sessions, NEW n \in 0..MaxAccess,
             Present(r, kind, s, n)
      PROVE  Safe
  <2>1. /\ Others(r) /\ pc'[r] = "checkRevoked"
        /\ req'[r].late => Dead(s) \/ <<s, n>> \in revoked
        /\ req'[r].sid = s /\ req'[r].tok = n
        /\ UNCHANGED <<session, used, revoked>>
    BY <1>5 DEF Present, Goto, NoRequest, store
  <2>2. RequestSafe(r)'
    BY <2>1 DEF RequestSafe, Dead
  <2>. QED
    BY <1>1, <2>1, <2>2
<1>6. ASSUME NEW r \in Requests, CheckRevoked(r) PROVE Safe
  <2>1. CASE <<req[r].sid, req[r].tok>> \in revoked
    BY <1>2, <1>6, <2>1 DEF CheckRevoked
  <2>2. CASE <<req[r].sid, req[r].tok>> \notin revoked
    <3>1. Others(r) /\ pc'[r] = "readMeta" /\ UNCHANGED <<req, session, used, revoked>>
      BY <1>6, <2>2 DEF CheckRevoked, Goto, store, tokens
    <3>2. RequestSafe(r)'
      BY <1>6, <2>2, <3>1 DEF IInv, RequestSafe, CheckRevoked, Dead
    <3>. QED
      BY <1>1, <3>1, <3>2
  <2>. QED
    BY <2>1, <2>2
<1>7. ASSUME NEW r \in Requests, ReadMeta(r) PROVE Safe
  <2>1. CASE Finish(r)
    BY <1>2, <2>1
  <2>2. CASE Fresh(req[r].sid) /\ Goto(r, "touch") /\ UNCHANGED req
    <3>1. ~Dead(req[r].sid)
      BY <2>2 DEF Fresh, Dead
    <3>2. ~req[r].late
      BY <1>7, <3>1 DEF IInv, RequestSafe, ReadMeta
    <3>. QED
      BY <1>3, <2>2, <3>2 DEF Step
  <2>3. CASE /\ Goto(r, "revokeAccess")
             /\ \E jti, ref, known :
                  req' = [req EXCEPT ![r].jti = jti, ![r].ref = ref, ![r].known = known]
    <3>1. /\ Others(r) /\ pc'[r] = "revokeAccess"
          /\ req'[r].sid = req[r].sid /\ req'[r].late = req[r].late
      BY <2>3 DEF Goto, Request
    <3>2. RequestSafe(r)'
      BY <1>7, <3>1 DEF IInv, RequestSafe, ReadMeta, Dead, store, tokens
    <3>. QED
      BY <1>1, <3>1, <3>2
  <2>. QED
    BY <1>7, <2>1, <2>2, <2>3 DEF ReadMeta
<1>8. ASSUME NEW r \in Requests,
             Touch(r) \/ TouchTtl(r) \/ ChangePassword(r) \/ Refresh(r) \/ Enforce(r) \/ ExpireMeta(r) \/ AddIndex(r)
      PROVE  Safe
  <2>1. /\ pc[r] \in {"touch", "touchTtl", "accepted", "enforce", "expireMeta", "addIndex"}
        /\ UNCHANGED req
        /\ \E step \in {"touchTtl", "loadOfficer", "sweepRead", "respond", "enforceRead", "writeMeta",
                        "addIndex", "writeTokens"} : Goto(r, step)
    BY <1>8 DEF Touch, TouchTtl, ChangePassword, Refresh, Enforce, ExpireMeta, AddIndex
  <2>2. ~req[r].late
    BY <2>1 DEF IInv, RequestSafe
  <2>. QED
    BY <1>3, <2>1, <2>2 DEF Step
<1>9. ASSUME NEW r \in Requests, LoadOfficer(r) PROVE Safe
  <2>1. CASE Goto(r, "accepted") /\ UNCHANGED req
    <3>1. ~req[r].late
      BY <1>9 DEF IInv, RequestSafe, LoadOfficer
    <3>. QED
      BY <1>3, <2>1, <3>1 DEF Step
  <2>. QED
    BY <1>2, <1>9, <2>1 DEF LoadOfficer
<1>10. ASSUME NEW r \in Requests, Serve(r) \/ Unindex(r) \/ Respond(r) \/ Fail(r) PROVE Safe
  BY <1>2, <1>10 DEF Serve, Unindex, Respond, Fail
<1>11. ASSUME NEW r \in Requests, Logout(r) PROVE Safe
  <2>1. ~req[r].late
    BY <1>11 DEF IInv, RequestSafe, Logout
  <2>2. /\ Others(r) /\ pc'[r] = "revokeAccess" /\ req'[r].late = req[r].late
    BY <1>11 DEF Logout, Goto, Request
  <2>3. RequestSafe(r)'
    BY <2>1, <2>2 DEF RequestSafe
  <2>. QED
    BY <1>1, <2>2, <2>3
<1>12. ASSUME NEW r \in Requests, RevokeAccess(r) PROVE Safe
  <2>1. /\ Others(r) /\ pc'[r] = "revokeRefresh" /\ UNCHANGED <<req, session, used>>
        /\ <<req[r].sid, req[r].jti>> \in revoked'
    BY <1>12 DEF RevokeAccess, Goto, tokens
  <2>2. RequestSafe(r)'
    BY <1>12, <2>1 DEF IInv, RequestSafe, RevokeAccess, Dead
  <2>. QED
    BY <1>1, <2>1, <2>2
<1>13. ASSUME NEW r \in Requests, RevokeRefresh(r) PROVE Safe
  <2>1. /\ Others(r) /\ pc'[r] = "deleteHash" /\ UNCHANGED <<req, session, used>>
        /\ revoked \subseteq revoked'
    BY <1>13 DEF RevokeRefresh, Goto, tokens
  <2>2. RequestSafe(r)'
    BY <1>13, <2>1 DEF IInv, RequestSafe, RevokeRefresh, Dead
  <2>. QED
    BY <1>1, <2>1, <2>2
<1>14. ASSUME NEW r \in Requests, DeleteHash(r) PROVE Safe
  <2>1. /\ Others(r) /\ pc'[r] = "unindex" /\ UNCHANGED <<req, used, revoked>>
    BY <1>14 DEF DeleteHash, Goto, tokens
  <2>2. req[r].sid \in Sessions /\ req[r].sid \in used
    BY <1>14 DEF DeleteHash, SidsUsed, SessionStep
  <2>3. Dead(req[r].sid)'
    BY <1>14, <2>1, <2>2 DEF DeleteHash, Delete, Absent, Dead
  <2>4. RequestSafe(r)'
    BY <1>14, <2>1, <2>3 DEF IInv, RequestSafe, DeleteHash
  <2>. QED
    BY <1>1, <2>1, <2>4
<1>15. ASSUME NEW r \in Requests, AfterSweep(r), ~req[r].late PROVE Safe
  <2>1. CASE ~(Sweeping(r) /\ req[r].kind = "reset")
    <3>1. /\ Others(r) /\ pc'[r] \in {"enforce", "writeMeta"} /\ req'[r].late = req[r].late
      BY <1>15, <2>1 DEF AfterSweep, Goto, Request
    <3>2. RequestSafe(r)'
      BY <1>15, <3>1 DEF RequestSafe
    <3>. QED
      BY <1>1, <3>1, <3>2
  <2>. QED
    BY <1>2, <1>15, <2>1 DEF AfterSweep
<1>16. ASSUME NEW r \in Requests, ReadIndex(r) PROVE Safe
  <2>1. ~req[r].late
    BY <1>16 DEF IInv, RequestSafe, ReadIndex
  <2>2. CASE index # {}
    <3>1. /\ Others(r) /\ pc'[r] \in {"sweepDelete", "enforceDelete"} /\ req'[r].late = req[r].late
      BY <1>16, <2>2 DEF ReadIndex, Goto, Request
    <3>2. RequestSafe(r)'
      BY <2>1, <3>1 DEF RequestSafe
    <3>. QED
      BY <1>1, <3>1, <3>2
  <2>. QED
    BY <1>15, <1>16, <2>1, <2>2 DEF ReadIndex
<1>17. ASSUME NEW r \in Requests, DeleteSwept(r) PROVE Safe
  <2>1. ~req[r].late
    BY <1>17 DEF IInv, RequestSafe, DeleteSwept
  <2>. QED
    BY <1>15, <1>17, <2>1 DEF DeleteSwept
<1>18. ASSUME NEW r \in Requests, WriteMeta(r) PROVE Safe
  <2>1. /\ Others(r) /\ pc'[r] = "expireMeta" /\ ~req'[r].late
    BY <1>18 DEF WriteMeta, Goto, Request
  <2>2. RequestSafe(r)'
    BY <2>1 DEF RequestSafe
  <2>. QED
    BY <1>1, <2>1, <2>2
<1>19. ASSUME NEW r \in Requests, WriteTokens(r) PROVE Safe
  <2>1. ~req[r].late
    BY <1>19 DEF IInv, RequestSafe, WriteTokens
  <2>2. /\ Others(r) /\ pc'[r] = "respond" /\ req'[r].late = req[r].late
    BY <1>19 DEF WriteTokens, Goto, Request
  <2>3. RequestSafe(r)'
    BY <2>1, <2>2 DEF RequestSafe
  <2>. QED
    BY <1>1, <2>2, <2>3
<1>20. ASSUME pc' = pc, req' = req PROVE Safe
  BY <1>20, Frame
<1>21. CASE TimePasses \/ UNCHANGED vars
  <2>1. pc' = pc /\ req' = req
    BY <1>21 DEF TimePasses, GrowIdle, GrowOld, ExpireHash, ExpireIndex, vars
  <2>. QED
    BY <1>20, <2>1 DEF IInv
<1>. QED
  BY <1>4, <1>5, <1>6, <1>7, <1>8, <1>9, <1>10, <1>11, <1>12, <1>13, <1>14, <1>16, <1>17, <1>18, <1>19, <1>21
  DEF Next, Arrive, Proceed, IInv

LEMMA Safety == Spec => []IInv
<1>1. Init => IInv
  BY InitType DEF Init, IInv, RequestSafe, NoRequest
<1>. QED
  BY <1>1, SafeStep, PTL DEF Spec

(* A request that arrives after its session was removed, or with a revoked  *)
(* token, is never accepted, however many requests run and fail beside it.  *)
THEOREM LateRequestsRefused == Spec => []NoLateAcceptance
<1>1. IInv => NoLateAcceptance
  BY DEF IInv, RequestSafe, NoLateAcceptance
<1>. QED
  BY <1>1, Safety, PTL

(* What invalidate_session has removed is removed for good.                 *)
THEOREM InvalidationHolds == Spec => []InvalidatedForGood
<1>1. IInv => InvalidatedForGood
  BY DEF IInv, RequestSafe, InvalidatedForGood
<1>. QED
  BY <1>1, Safety, PTL

(* No write of a running request brings the metadata of a removed session   *)
(* back.                                                                    *)
THEOREM RemovedSessionsStayRemoved == Spec => DeadStaysDead
<1>1. IInv /\ [Next]_vars => [\A s \in Sessions : Dead(s) => Dead(s)']_vars
  BY Monotone DEF IInv
<1>. QED
  BY <1>1, Safety, PTL DEF Spec, DeadStaysDead

-----------------------------------------------------------------------------
(* What leaves the officer's index.                                         *)

(* The steps that remove sessions from the index: the end of                *)
(* invalidate_session, whose session is dead, the sweeps, and the expiry of *)
(* an index that lists dead sessions only.                                  *)
LEMMA IndexShrinks ==
    ASSUME IInv, [Next]_vars, NEW s \in index \ index'
    PROVE  Dead(s)' \/ \E r \in Requests : DeleteSwept(r) /\ s \notin req[r].sweep
<1>0. /\ \A t \in Sessions : Dead(t) => Dead(t)'
      /\ s \in Sessions /\ TypeInv /\ TypeOK
  BY Monotone DEF IInv, TypeInv, TypeOK
<1>1. ASSUME NEW r \in Requests, Arrive(r) PROVE FALSE
  BY <1>1 DEF Arrive, Login, Reset, Present, store
<1>2. ASSUME NEW r \in Requests,
             \/ CheckRevoked(r) \/ ReadMeta(r) \/ Touch(r) \/ TouchTtl(r) \/ LoadOfficer(r)
             \/ Serve(r) \/ Logout(r) \/ ChangePassword(r) \/ Refresh(r)
             \/ RevokeAccess(r) \/ RevokeRefresh(r) \/ DeleteHash(r)
      PROVE  FALSE
  BY <1>2 DEF CheckRevoked, ReadMeta, Touch, TouchTtl, LoadOfficer, Serve, Logout, ChangePassword,
     Refresh, RevokeAccess, RevokeRefresh, DeleteHash, store
<1>3. ASSUME NEW r \in Requests,
             \/ ReadIndex(r) \/ Enforce(r) \/ WriteMeta(r) \/ ExpireMeta(r) \/ AddIndex(r)
             \/ WriteTokens(r) \/ Respond(r) \/ Fail(r)
      PROVE  FALSE
  BY <1>3 DEF ReadIndex, Enforce, WriteMeta, ExpireMeta, AddIndex, WriteTokens, Respond, Fail, store
<1>4. ASSUME NEW r \in Requests, Unindex(r) PROVE Dead(s)'
  <2>1. s = req[r].sid /\ pc[r] = "unindex"
    BY <1>4 DEF Unindex
  <2>2. Dead(s)
    BY <2>1 DEF IInv, RequestSafe
  <2>. QED
    BY <1>0, <2>2
<1>5. ASSUME NEW r \in Requests, DeleteSwept(r), s \in req[r].sweep PROVE Dead(s)'
  <2>1. /\ session'[s] = Absent /\ used' = used
    BY <1>0, <1>5 DEF DeleteSwept, Delete, tokens
  <2>2. CASE s \in used
    BY <2>1, <2>2 DEF Dead, Absent
  <2>3. s \in used
    BY <1>0 DEF TypeInv, IndexUsed
  <2>. QED
    BY <2>2, <2>3
<1>6. ASSUME NEW t \in Sessions, GrowIdle(t) \/ GrowOld(t) \/ ExpireHash(t) PROVE FALSE
  BY <1>6 DEF GrowIdle, GrowOld, ExpireHash
<1>7. CASE ExpireIndex
  BY <1>0, <1>7 DEF ExpireIndex
<1>8. CASE UNCHANGED vars
  BY <1>8 DEF vars
<1>. QED
  BY <1>1, <1>2, <1>3, <1>4, <1>5, <1>6, <1>7, <1>8 DEF Next, Proceed, TimePasses

(* However logins, sweeps, logouts and failures interleave, an open session *)
(* escapes the index only over a sweep that had read it too early.          *)
THEOREM OpenSessionsStayIndexed == Spec => IndexLoses
<1>1. IInv /\ [Next]_vars =>
        [\A s \in index \ index' :
            Dead(s)' \/ \E r \in Requests : DeleteSwept(r) /\ s \notin req[r].sweep]_vars
  BY IndexShrinks
<1>. QED
  BY <1>1, Safety, PTL DEF Spec, IndexLoses

-----------------------------------------------------------------------------
(* The limit of concurrent sessions.                                        *)

(* The steps from the check of the limit to the entry in the index, and     *)
(* those of them that come after the check.                                 *)
OpenStep == {"enforce", "enforceRead", "enforceDelete", "writeMeta", "expireMeta", "addIndex"}
Checked == {"writeMeta", "expireMeta", "addIndex"}

(* A request is of a kind its slot may carry and at a step of its kind. *)
KindFits(r) ==
    /\ pc[r] # "idle" => req[r].kind \in Kinds[r]
    /\ pc[r] \in OpenStep => req[r].kind \in {"login", "change"}
    /\ pc[r] \in {"sweepRead", "sweepDelete"} => req[r].kind \in {"change", "reset"}

Others(r) == \A q \in Requests \ {r} : pc'[q] = pc[q] /\ req'[q] = req[q]

(* A request that ends, or goes on as the kind it is. *)
LEMMA KindKept ==
    ASSUME TypeInv, \A q \in Requests : KindFits(q), NEW r \in Requests, Others(r),
           \/ pc'[r] = "idle"
           \/ /\ req'[r].kind = req[r].kind /\ pc[r] # "idle"
              /\ pc'[r] \in OpenStep => req[r].kind \in {"login", "change"}
              /\ pc'[r] \in {"sweepRead", "sweepDelete"} => req[r].kind \in {"change", "reset"}
    PROVE  \A q \in Requests : KindFits(q)'
BY DEF KindFits, Others, OpenStep

LEMMA KindStep ==
    ASSUME TypeInv, \A q \in Requests : KindFits(q), [Next]_vars
    PROVE  \A q \in Requests : KindFits(q)'
<1>. DEFINE Fits == \A q \in Requests : KindFits(q)'
<1>0. pc \in [Requests -> Step] /\ req \in [Requests -> Request]
  BY DEF TypeInv, TypeOK
<1>1. ASSUME NEW r \in Requests, Login(r) \/ Reset(r) PROVE Fits
  <2>1. /\ Others(r) /\ req'[r].kind \in Kinds[r]
        /\ \/ pc'[r] = "enforce" /\ req'[r].kind = "login"
           \/ pc'[r] = "sweepRead" /\ req'[r].kind = "reset"
    BY <1>0, <1>1 DEF Login, Reset, Goto, NoRequest, Others
  <2>. QED
    BY <2>1 DEF KindFits, Others, OpenStep
<1>2. ASSUME NEW r \in Requests, NEW kind \in Kind, NEW s \in Sessions, NEW n \in 0..MaxAccess,
             Present(r, kind, s, n)
      PROVE  Fits
  <2>1. /\ Others(r) /\ req'[r].kind = kind /\ kind \in Kinds[r] /\ pc'[r] = "checkRevoked"
    BY <1>0, <1>2 DEF Present, Goto, NoRequest, Others
  <2>. QED
    BY <2>1 DEF KindFits, Others, OpenStep
<1>3. ASSUME NEW r \in Requests, Finish(r) PROVE Fits
  <2>1. Others(r) /\ pc'[r] = "idle"
    BY <1>0, <1>3 DEF Finish, Others
  <2>. QED
    BY <2>1, KindKept
<1>4. ASSUME NEW r \in Requests, NEW step \in Step, Goto(r, step), pc[r] # "idle",
             req'[r].kind = req[r].kind, \A q \in Requests \ {r} : req'[q] = req[q],
             step \in OpenStep => req[r].kind \in {"login", "change"},
             step \in {"sweepRead", "sweepDelete"} => req[r].kind \in {"change", "reset"}
      PROVE  Fits
  <2>1. Others(r) /\ pc'[r] = step
    BY <1>0, <1>4 DEF Goto, Others
  <2>. QED
    BY <1>4, <2>1, KindKept
<1>5. ASSUME NEW r \in Requests,
             \/ CheckRevoked(r) \/ ReadMeta(r) \/ LoadOfficer(r) \/ Serve(r) \/ Unindex(r)
             \/ Respond(r) \/ Fail(r)
      PROVE  Fits
  <2>1. CASE Finish(r)
    BY <1>3, <2>1
  <2>2. CASE /\ \E step \in {"readMeta", "touch", "accepted", "revokeAccess"} : Goto(r, step)
             /\ pc[r] # "idle" /\ \A q \in Requests \ {r} : req'[q] = req[q]
             /\ req'[r].kind = req[r].kind
    BY <1>4, <2>2 DEF Step, OpenStep
  <2>3. CASE CheckRevoked(r)
    BY <2>1, <2>2, <2>3 DEF CheckRevoked
  <2>4. CASE LoadOfficer(r)
    BY <2>1, <2>2, <2>4 DEF LoadOfficer
  <2>5. CASE ReadMeta(r)
    <3>1. CASE Finish(r) \/ (Goto(r, "touch") /\ UNCHANGED req)
      BY <2>1, <2>2, <2>5, <3>1 DEF ReadMeta
    <3>2. ASSUME NEW jti, NEW ref, NEW known, Goto(r, "revokeAccess"),
                 req' = [req EXCEPT ![r].jti = jti, ![r].ref = ref, ![r].known = known]
          PROVE  Fits
      <4>1. req'[r].kind = req[r].kind /\ \A q \in Requests \ {r} : req'[q] = req[q]
        BY <1>0, <3>2 DEF Request
      <4>. QED
        BY <2>2, <2>5, <3>2, <4>1 DEF ReadMeta
    <3>. QED
      BY <2>5, <3>1, <3>2 DEF ReadMeta
  <2>. QED
    BY <1>5, <2>1, <2>3, <2>4, <2>5 DEF Serve, Unindex, Respond, Fail
<1>6. ASSUME NEW r \in Requests,
             \/ Touch(r) \/ TouchTtl(r) \/ RevokeAccess(r) \/ RevokeRefresh(r) \/ DeleteHash(r)
             \/ Refresh(r) \/ AddIndex(r)
      PROVE  Fits
  <2>1. /\ pc[r] # "idle" /\ UNCHANGED req
        /\ \E step \in {"touchTtl", "loadOfficer", "revokeRefresh", "deleteHash", "unindex",
                        "respond", "writeTokens"} : Goto(r, step)
    BY <1>6 DEF Touch, TouchTtl, RevokeAccess, RevokeRefresh, DeleteHash, Refresh, AddIndex
  <2>. QED
    BY <1>4, <2>1 DEF Step, OpenStep
<1>7. ASSUME NEW r \in Requests, Enforce(r) \/ ExpireMeta(r) PROVE Fits
  <2>1. /\ pc[r] \in OpenStep /\ pc[r] # "idle" /\ UNCHANGED req
        /\ \E step \in {"enforceRead", "writeMeta", "addIndex"} : Goto(r, step)
    BY <1>7 DEF Enforce, ExpireMeta, OpenStep
  <2>2. req[r].kind \in {"login", "change"}
    BY <2>1 DEF KindFits
  <2>. QED
    BY <1>4, <2>1, <2>2 DEF Step
<1>8. ASSUME NEW r \in Requests, Logout(r) PROVE Fits
  <2>1. PICK ref \in BOOLEAN :
           req' = [req EXCEPT ![r].jti = req[r].tok, ![r].ref = ref, ![r].known = TRUE]
    BY <1>8 DEF Logout
  <2>2. req'[r].kind = req[r].kind /\ \A q \in Requests \ {r} : req'[q] = req[q]
    BY <1>0, <2>1 DEF Request
  <2>. QED
    BY <1>4, <1>8, <2>2 DEF Logout, Step, OpenStep
<1>9. ASSUME NEW r \in Requests, ChangePassword(r) PROVE Fits
  BY <1>4, <1>9 DEF ChangePassword, Step, OpenStep
<1>10. ASSUME NEW r \in Requests, AfterSweep(r),
              pc[r] \in {"sweepRead", "sweepDelete", "enforceRead", "enforceDelete"}
       PROVE  Fits
  <2>1. CASE Finish(r)
    BY <1>3, <2>1
  <2>2. CASE ~(Sweeping(r) /\ req[r].kind = "reset")
    <3>1. req[r].kind \in {"login", "change"}
      BY <1>10, <2>2 DEF KindFits, Sweeping, OpenStep
    <3>2. /\ req' = [req EXCEPT ![r].sweep = {}]
          /\ Goto(r, "enforce") \/ Goto(r, "writeMeta")
      BY <1>10, <2>2 DEF AfterSweep
    <3>3. req'[r].kind = req[r].kind /\ \A q \in Requests \ {r} : req'[q] = req[q]
      BY <1>0, <3>2 DEF Request
    <3>. QED
      BY <1>4, <1>10, <3>1, <3>2, <3>3 DEF Step
  <2>. QED
    BY <1>10, <2>1, <2>2 DEF AfterSweep
<1>11. ASSUME NEW r \in Requests, ReadIndex(r) \/ DeleteSwept(r) PROVE Fits
  <2>1. pc[r] \in {"sweepRead", "sweepDelete", "enforceRead", "enforceDelete"}
    BY <1>11 DEF ReadIndex, DeleteSwept
  <2>2. CASE AfterSweep(r)
    BY <1>10, <2>1, <2>2
  <2>3. CASE ~AfterSweep(r)
    <3>1. /\ req' = [req EXCEPT ![r].sweep = index]
          /\ \/ pc[r] = "sweepRead" /\ Goto(r, "sweepDelete")
             \/ pc[r] = "enforceRead" /\ Goto(r, "enforceDelete")
      BY <1>11, <2>3 DEF ReadIndex, DeleteSwept, Sweeping
    <3>2. req'[r].kind = req[r].kind /\ \A q \in Requests \ {r} : req'[q] = req[q]
      BY <1>0, <3>1 DEF Request
    <3>3. /\ pc[r] = "sweepRead" => req[r].kind \in {"change", "reset"}
          /\ pc[r] = "enforceRead" => req[r].kind \in {"login", "change"}
      BY DEF KindFits, OpenStep
    <3>. QED
      BY <1>4, <3>1, <3>2, <3>3 DEF Step, OpenStep
  <2>. QED
    BY <2>2, <2>3
<1>12. ASSUME NEW r \in Requests, WriteMeta(r) PROVE Fits
  <2>1. PICK s \in Sessions : req' = [req EXCEPT ![r].sid = s, ![r].late = FALSE]
    BY <1>12 DEF WriteMeta
  <2>2. req'[r].kind = req[r].kind /\ \A q \in Requests \ {r} : req'[q] = req[q]
    BY <1>0, <2>1 DEF Request
  <2>3. req[r].kind \in {"login", "change"}
    BY <1>12 DEF WriteMeta, KindFits, OpenStep
  <2>. QED
    BY <1>4, <1>12, <2>2, <2>3 DEF WriteMeta, Step
<1>13. ASSUME NEW r \in Requests, WriteTokens(r) PROVE Fits
  <2>1. req'[r].kind = req[r].kind /\ \A q \in Requests \ {r} : req'[q] = req[q]
    BY <1>0, <1>13 DEF WriteTokens, Request
  <2>. QED
    BY <1>4, <1>13, <2>1 DEF WriteTokens, Step, OpenStep
<1>14. CASE TimePasses \/ UNCHANGED vars
  <2>1. pc' = pc /\ req' = req
    BY <1>14 DEF TimePasses, GrowIdle, GrowOld, ExpireHash, ExpireIndex, vars
  <2>. QED
    BY <2>1 DEF KindFits
<1>. QED
  BY <1>1, <1>2, <1>5, <1>6, <1>7, <1>8, <1>9, <1>11, <1>12, <1>13, <1>14
  DEF Next, Arrive, Proceed

(* The requests that have passed the check and not yet added their session. *)
Pending == {r \in Requests : pc[r] \in Checked}

LimitInv ==
    /\ IInv
    /\ \A r \in Requests : KindFits(r)
    /\ IsFiniteSet(index)
    /\ MaxSessions > 0 => Cardinality(index) + Cardinality(Pending) < MaxSessions + Cardinality(Openers)

LEMMA PendingOpen ==
    ASSUME IsFiniteSet(Requests), \A r \in Requests : KindFits(r)
    PROVE  /\ IsFiniteSet(Pending) /\ IsFiniteSet(Openers)
           /\ Cardinality(Pending) \in Nat /\ Cardinality(Openers) \in Nat
           /\ Cardinality(Pending) <= Cardinality(Openers)
<1>1. Pending \subseteq Openers
  BY DEF Pending, Checked, Openers, KindFits, OpenStep
<1>2. Pending \subseteq Requests /\ Openers \subseteq Requests
  BY DEF Pending, Openers
<1>3. IsFiniteSet(Pending) /\ IsFiniteSet(Openers)
  BY <1>2, FS_Subset
<1>. QED
  BY <1>1, <1>3, FS_Subset, FS_CardinalityType

(* A request comes past the check only from Enforce with room in the index, *)
(* or from a sweep that emptied it; only AddIndex makes the index larger.   *)
LEMMA PendingGrows ==
    ASSUME IInv, IsFiniteSet(index), [Next]_vars
    PROVE  \/ index' \subseteq index /\ Pending' \subseteq Pending
           \/ index' = {}
           \/ index' = index /\ (MaxSessions > 0 => Cardinality(index) < MaxSessions)
           \/ \E r \in Requests : AddIndex(r)
<1>. DEFINE Goal == \/ index' \subseteq index /\ Pending' \subseteq Pending
                    \/ index' = {}
                    \/ index' = index /\ (MaxSessions > 0 => Cardinality(index) < MaxSessions)
                    \/ \E r \in Requests : AddIndex(r)
<1>0. pc \in [Requests -> Step] /\ req \in [Requests -> Request] /\ MaxSessions \in Nat
  BY SessionAssumption DEF IInv, TypeInv, TypeOK
<1>1. ASSUME NEW r \in Requests, index' \subseteq index, pc[r] \in Checked \/ pc'[r] \notin Checked,
             \A q \in Requests \ {r} : pc'[q] = pc[q]
      PROVE  Goal
  BY <1>1 DEF Pending
<1>2. ASSUME NEW r \in Requests, index' \subseteq index,
             Finish(r) \/ \E step \in Step \ Checked : Goto(r, step)
      PROVE  Goal
  <2>1. pc'[r] \notin Checked /\ \A q \in Requests \ {r} : pc'[q] = pc[q]
    BY <1>0, <1>2 DEF Finish, Goto, Checked
  <2>. QED
    BY <1>1, <1>2, <2>1
<1>3. ASSUME NEW r \in Requests, Arrive(r) PROVE Goal
  <2>1. index' = index /\ \E step \in {"enforce", "sweepRead", "checkRevoked"} : Goto(r, step)
    BY <1>3 DEF Arrive, Login, Reset, Present, store
  <2>. QED
    BY <1>2, <2>1 DEF Step, Checked
<1>4. ASSUME NEW r \in Requests,
             \/ CheckRevoked(r) \/ ReadMeta(r) \/ Touch(r) \/ TouchTtl(r) \/ LoadOfficer(r)
             \/ Serve(r) \/ Logout(r) \/ ChangePassword(r) \/ Refresh(r)
      PROVE  Goal
  <2>1. /\ index' = index
        /\ Finish(r) \/ \E step \in {"readMeta", "touch", "revokeAccess", "touchTtl", "loadOfficer",
                                     "accepted", "sweepRead", "respond"} : Goto(r, step)
    BY <1>4 DEF CheckRevoked, ReadMeta, Touch, TouchTtl, LoadOfficer, Serve, Logout,
       ChangePassword, Refresh, store
  <2>. QED
    BY <1>2, <2>1 DEF Step, Checked
<1>5. ASSUME NEW r \in Requests,
             RevokeAccess(r) \/ RevokeRefresh(r) \/ DeleteHash(r) \/ Unindex(r) \/ WriteTokens(r)
             \/ Respond(r) \/ Fail(r)
      PROVE  Goal
  <2>1. /\ index' \subseteq index
        /\ Finish(r) \/ \E step \in {"revokeRefresh", "deleteHash", "unindex", "respond"} : Goto(r, step)
    BY <1>5 DEF RevokeAccess, RevokeRefresh, DeleteHash, Unindex, WriteTokens, Respond, Fail, store
  <2>. QED
    BY <1>2, <2>1 DEF Step, Checked
<1>6. ASSUME NEW r \in Requests, ReadIndex(r) \/ DeleteSwept(r) PROVE Goal
  <2>1. CASE index' = {}
    BY <2>1
  <2>2. CASE index' # {}
    <3>1. /\ index' = index
          /\ \E step \in {"sweepDelete", "enforceDelete"} : Goto(r, step)
      BY <1>6, <2>2 DEF ReadIndex, DeleteSwept, store
    <3>. QED
      BY <1>2, <3>1 DEF Step, Checked
  <2>. QED
    BY <2>1, <2>2
<1>7. ASSUME NEW r \in Requests, Enforce(r) PROVE Goal
  <2>0. index' = index
    BY <1>7 DEF Enforce, store
  <2>1. CASE MaxSessions > 0 /\ Cardinality(index) >= MaxSessions
    <3>1. Goto(r, "enforceRead")
      BY <1>7, <2>1 DEF Enforce
    <3>. QED
      BY <1>2, <2>0, <3>1 DEF Step, Checked
  <2>2. CASE MaxSessions = 0
    BY <2>0, <2>2
  <2>3. CASE MaxSessions > 0 /\ ~(Cardinality(index) >= MaxSessions)
    BY <1>0, <2>0, <2>3, FS_CardinalityType
  <2>. QED
    BY <1>0, <2>1, <2>2, <2>3
<1>8. ASSUME NEW r \in Requests, WriteMeta(r) \/ ExpireMeta(r) PROVE Goal
  <2>1. /\ index' = index /\ pc[r] \in Checked
        /\ \A q \in Requests \ {r} : pc'[q] = pc[q]
    BY <1>0, <1>8 DEF WriteMeta, ExpireMeta, Goto, Checked
  <2>. QED
    BY <1>1, <2>1
<1>9. CASE TimePasses \/ UNCHANGED vars
  <2>1. pc' = pc /\ index' \subseteq index
    BY <1>9 DEF TimePasses, GrowIdle, GrowOld, ExpireHash, ExpireIndex, vars, store
  <2>. QED
    BY <2>1 DEF Pending
<1>. QED
  BY <1>3, <1>4, <1>5, <1>6, <1>7, <1>8, <1>9 DEF Next, Proceed

LEMMA LimitStep ==
    ASSUME IsFiniteSet(Requests) PROVE LimitInv /\ [Next]_vars => LimitInv'
<1>. SUFFICES ASSUME LimitInv, [Next]_vars PROVE LimitInv'
  OBVIOUS
<1>1. IInv /\ IInv' /\ \A r \in Requests : KindFits(r) /\ KindFits(r)'
  BY SafeStep, KindStep DEF LimitInv, IInv
<1>2. /\ IsFiniteSet(Pending) /\ Cardinality(Pending) \in Nat /\ Cardinality(Openers) \in Nat
      /\ Cardinality(Pending) <= Cardinality(Openers)
  BY <1>1, PendingOpen
<1>3. /\ IsFiniteSet(Pending') /\ Cardinality(Pending') \in Nat
      /\ Cardinality(Pending') <= Cardinality(Openers)
  <2>1. Pending' \subseteq Openers /\ Openers \subseteq Requests
    BY <1>1 DEF Pending, Checked, Openers, KindFits, OpenStep
  <2>. QED
    BY <2>1, FS_Subset, FS_CardinalityType
<1>4. IsFiniteSet(index) /\ Cardinality(index) \in Nat /\ MaxSessions \in Nat
  BY SessionAssumption, FS_CardinalityType DEF LimitInv
<1>5. CASE index' \subseteq index /\ Pending' \subseteq Pending
  <2>1. /\ IsFiniteSet(index') /\ Cardinality(index') \in Nat
        /\ Cardinality(index') <= Cardinality(index) /\ Cardinality(Pending') <= Cardinality(Pending)
    BY <1>2, <1>4, <1>5, FS_Subset, FS_CardinalityType
  <2>. QED
    BY <1>1, <1>2, <1>3, <1>4, <2>1 DEF LimitInv
<1>6. CASE index' = {}
  <2>1. IsFiniteSet(index') /\ Cardinality(index') = 0
    BY <1>6, FS_EmptySet
  <2>. QED
    BY <1>1, <1>2, <1>3, <1>4, <2>1 DEF LimitInv
<1>7. CASE index' = index /\ (MaxSessions > 0 => Cardinality(index) < MaxSessions)
  BY <1>1, <1>2, <1>3, <1>4, <1>7 DEF LimitInv
<1>8. ASSUME NEW r \in Requests, AddIndex(r) PROVE LimitInv'
  <2>1. /\ pc[r] = "addIndex" /\ index' = index \cup {req[r].sid}
        /\ \A q \in Requests : pc'[q] = IF q = r THEN "writeTokens" ELSE pc[q]
    BY <1>1, <1>8 DEF AddIndex, Goto, IInv, TypeInv, TypeOK
  <2>2. /\ IsFiniteSet(index') /\ Cardinality(index') \in Nat
        /\ Cardinality(index') <= Cardinality(index) + 1
    <3>1. /\ IsFiniteSet(index \cup {req[r].sid})
          /\ \/ Cardinality(index \cup {req[r].sid}) = Cardinality(index)
             \/ Cardinality(index \cup {req[r].sid}) = Cardinality(index) + 1
      BY <1>4, FS_AddElement
    <3>. QED
      BY <1>4, <2>1, <3>1
  <2>3. r \in Pending /\ Pending' = Pending \ {r}
    BY <2>1 DEF Pending, Checked
  <2>4. Cardinality(Pending') = Cardinality(Pending) - 1
    BY <1>2, <2>3, FS_RemoveElement
  <2>. QED
    BY <1>1, <1>2, <1>3, <1>4, <2>2, <2>4 DEF LimitInv
<1>. QED
  BY <1>1, <1>4, <1>5, <1>6, <1>7, <1>8, PendingGrows

(* Logins at once exceed the limit by one session each, whatever sweeps,    *)
(* logouts and failures run beside them: for every limit and every number   *)
(* of requests.                                                             *)
THEOREM SessionsLimited == ASSUME IsFiniteSet(Requests) PROVE Spec => []ConcurrencyLimit
<1>1. Init => LimitInv
  <2>. SUFFICES ASSUME Init PROVE LimitInv
    OBVIOUS
  <2>1. IInv
    BY InitType DEF Init, IInv, RequestSafe, NoRequest
  <2>2. \A r \in Requests : KindFits(r)
    BY DEF Init, KindFits, OpenStep
  <2>3. IsFiniteSet(index) /\ Cardinality(index) = 0
    BY FS_EmptySet DEF Init
  <2>4. Cardinality(Pending) <= Cardinality(Openers)
        /\ Cardinality(Pending) \in Nat /\ Cardinality(Openers) \in Nat
    BY <2>2, PendingOpen
  <2>. QED
    BY <2>1, <2>2, <2>3, <2>4, SessionAssumption DEF LimitInv
<1>2. LimitInv => ConcurrencyLimit
  <2>. SUFFICES ASSUME LimitInv, MaxSessions > 0
                PROVE  Cardinality(index) < MaxSessions + Cardinality(Openers)
    BY DEF ConcurrencyLimit
  <2>1. Cardinality(Pending) \in Nat /\ Cardinality(Openers) \in Nat /\ Cardinality(index) \in Nat
    BY PendingOpen, FS_CardinalityType DEF LimitInv
  <2>. QED
    BY <2>1, SessionAssumption DEF LimitInv
<1>. QED
  BY <1>1, <1>2, LimitStep, PTL DEF Spec

-----------------------------------------------------------------------------
(* The expiry of the keys of open sessions.                                 *)

Issued(s) == \E n \in 0..MaxAccess : <<s, n>> \in held

(* An open session without an expiry. *)
Bare(s) == "created" \in session[s].fields /\ ~session[s].ttl

(* Nobody but the login that is about to give it one knows such a session.  *)
Unknown(s) == ~Issued(s) /\ \A r \in Requests : req[r].sid = s => pc[r] = "expireMeta"

KeyInv ==
    /\ TypeInv
    /\ \A r \in Requests : req[r].sid \in used \cup {NoSession}
    /\ \A s \in Sessions : Bare(s) => Unknown(s)

(* A step that leaves no session bare that was not, by a request that is    *)
(* not giving an expiry: it may come to know another session only if that   *)
(* one's tokens were issued.                                                *)
LEMMA KeyStep ==
    ASSUME KeyInv, TypeInv', NEW r \in Requests, Others(r), UNCHANGED <<used, held>>,
           \A s \in Sessions : Bare(s)' => Bare(s),
           req'[r].sid \in {req[r].sid, NoSession} \/ Issued(req'[r].sid),
           pc[r] # "expireMeta" \/ req'[r].sid = NoSession
    PROVE  KeyInv'
<1>1. \A q \in Requests : req'[q].sid \in used' \cup {NoSession}
  <2>1. Issued(req'[r].sid) => req'[r].sid \in used
    BY DEF Issued, KeyInv, TypeInv, TokensUsed
  <2>. QED
    BY <2>1 DEF KeyInv, Others
<1>2. ASSUME NEW s \in Sessions, Bare(s)' PROVE Unknown(s)'
  <2>1. ~Issued(s) /\ \A q \in Requests : req[q].sid = s => pc[q] = "expireMeta"
    BY <1>2 DEF KeyInv, Unknown
  <2>2. ~Issued(s)' /\ s # NoSession
    BY <2>1, SessionAssumption DEF Issued
  <2>3. req'[r].sid # s
    BY <2>1, <2>2
  <2>. QED
    BY <2>1, <2>2, <2>3 DEF Unknown, Others
<1>. QED
  BY <1>1, <1>2 DEF KeyInv

(* DEL and the HSETs leave no session bare that was not. *)
LEMMA KeyWrites ==
    ASSUME TypeInv
    PROVE  /\ UNCHANGED session => \A s \in Sessions : Bare(s)' => Bare(s)
           /\ \A S \in SUBSET Sessions : Delete(S) => \A s \in Sessions : Bare(s)' => Bare(s)
           /\ \A t \in Sessions : Expire(t) => \A s \in Sessions : Bare(s)' => Bare(s) /\ s # t
           /\ \A t \in Sessions, n \in 0..MaxAccess :
                 HSetTokens(t, n) => \A s \in Sessions : Bare(s)' => Bare(s)
<1>. USE DEF TypeInv, TypeOK
<1>1. UNCHANGED session => \A s \in Sessions : Bare(s)' => Bare(s)
  BY DEF Bare
<1>2. ASSUME NEW S \in SUBSET Sessions, Delete(S) PROVE \A s \in Sessions : Bare(s)' => Bare(s)
  BY <1>2 DEF Bare, Delete, Absent
<1>3. ASSUME NEW t \in Sessions, Expire(t), NEW s \in Sessions, Bare(s)'
      PROVE  Bare(s) /\ s # t
  <2>1. /\ session'[s].fields = session[s].fields
        /\ s # t => session'[s] = session[s]
        /\ s = t => session'[s].ttl = Exists(t)
    BY <1>3 DEF Expire, Key
  <2>2. s # t
    BY <1>3, <2>1 DEF Bare, Exists
  <2>. QED
    BY <1>3, <2>1, <2>2 DEF Bare
<1>4. ASSUME NEW t \in Sessions, NEW n \in 0..MaxAccess, HSetTokens(t, n)
      PROVE  \A s \in Sessions : Bare(s)' => Bare(s)
  BY <1>4 DEF Bare, HSetTokens, Key
<1>. QED
  BY <1>1, <1>2, <1>3, <1>4

LEMMA KeysStep == KeyInv /\ [Next]_vars => KeyInv'
<1>. SUFFICES ASSUME KeyInv, [Next]_vars PROVE KeyInv'
  OBVIOUS
<1>0. /\ TypeInv /\ TypeInv'
      /\ \A r \in Requests : req[r].sid \in used \cup {NoSession}
      /\ \A s \in Sessions : Bare(s) => Unknown(s)
      /\ session \in [Sessions -> Key]
      /\ req \in [Requests -> Request] /\ pc \in [Requests -> Step]
  BY TypeStep DEF KeyInv, TypeInv, TypeOK
<1>1. \A r \in Requests : pc[r] \in SessionStep => req[r].sid \in Sessions
  BY <1>0 DEF TypeInv, TypeOK, SidsUsed
<1>2. ASSUME NEW r \in Requests, Finish(r), UNCHANGED <<used, held>>,
             \A s \in Sessions : Bare(s)' => Bare(s)
      PROVE  KeyInv'
  <2>1. Others(r) /\ req'[r].sid = NoSession
    BY <1>0, <1>2 DEF Finish, Others, NoRequest
  <2>. QED
    BY <1>0, <1>2, <2>1, KeyStep
<1>3. ASSUME NEW r \in Requests, NEW step, Goto(r, step), pc[r] # "expireMeta",
             req'[r].sid = req[r].sid, \A q \in Requests \ {r} : req'[q] = req[q],
             UNCHANGED <<used, held>>, \A s \in Sessions : Bare(s)' => Bare(s)
      PROVE  KeyInv'
  <2>1. Others(r)
    BY <1>0, <1>3 DEF Goto, Others
  <2>. QED
    BY <1>0, <1>3, <2>1, KeyStep
<1>4. ASSUME UNCHANGED session PROVE \A s \in Sessions : Bare(s)' => Bare(s)
  BY <1>0, <1>4, KeyWrites
<1>5. ASSUME NEW r \in Requests, Login(r) \/ Reset(r) PROVE KeyInv'
  <2>1. /\ Others(r) /\ req'[r].sid = NoSession /\ UNCHANGED <<used, held, session>>
    BY <1>0, <1>5 DEF Login, Reset, Goto, NoRequest, Others, store, tokens
  <2>. QED
    BY <1>0, <1>4, <2>1, KeyStep
<1>6. ASSUME NEW r \in Requests, NEW kind \in Kind, NEW s \in Sessions, NEW n \in 0..MaxAccess,
             Present(r, kind, s, n)
      PROVE  KeyInv'
  <2>1. /\ Others(r) /\ req'[r].sid = s /\ <<s, n>> \in held
        /\ pc[r] = "idle" /\ UNCHANGED <<used, held, session>>
    BY <1>0, <1>6 DEF Present, Goto, NoRequest, Others, store
  <2>2. Issued(s)
    BY <2>1 DEF Issued
  <2>. QED
    BY <1>0, <1>4, <2>1, <2>2, KeyStep
<1>7. ASSUME NEW r \in Requests,
             \/ CheckRevoked(r) \/ ChangePassword(r) \/ RevokeAccess(r) \/ RevokeRefresh(r)
             \/ Serve(r) \/ Unindex(r) \/ Fail(r) \/ Enforce(r) \/ AddIndex(r)
      PROVE  KeyInv'
  <2>1. UNCHANGED <<used, held, session>>
    BY <1>7 DEF CheckRevoked, ChangePassword, RevokeAccess, RevokeRefresh, Serve, Unindex, Fail,
       Enforce, AddIndex, store, tokens
  <2>2. \/ Finish(r)
        \/ pc[r] # "expireMeta" /\ UNCHANGED req /\ \E step : Goto(r, step)
    BY <1>7 DEF CheckRevoked, ChangePassword, RevokeAccess, RevokeRefresh, Serve, Unindex, Fail,
       Enforce, AddIndex
  <2>. QED
    BY <1>2, <1>3, <1>4, <2>1, <2>2
<1>8. ASSUME NEW r \in Requests, ReadMeta(r) PROVE KeyInv'
  <2>1. UNCHANGED <<used, held, session>> /\ pc[r] = "readMeta"
    BY <1>8 DEF ReadMeta, store, tokens
  <2>2. CASE Finish(r)
    BY <1>2, <1>4, <2>1, <2>2
  <2>3. CASE Goto(r, "touch") /\ UNCHANGED req
    BY <1>3, <1>4, <2>1, <2>3
  <2>4. ASSUME NEW jti, NEW ref, NEW known, Goto(r, "revokeAccess"),
               req' = [req EXCEPT ![r].jti = jti, ![r].ref = ref, ![r].known = known]
        PROVE  KeyInv'
    <3>1. req'[r].sid = req[r].sid /\ \A q \in Requests \ {r} : req'[q] = req[q]
      BY <1>0, <2>4 DEF Request
    <3>. QED
      BY <1>3, <1>4, <2>1, <2>4, <3>1
  <2>. QED
    BY <1>8, <2>2, <2>3, <2>4 DEF ReadMeta
<1>9. ASSUME NEW r \in Requests, Logout(r) PROVE KeyInv'
  <2>1. PICK ref \in BOOLEAN :
           req' = [req EXCEPT ![r].jti = req[r].tok, ![r].ref = ref, ![r].known = TRUE]
    BY <1>9 DEF Logout
  <2>2. req'[r].sid = req[r].sid /\ \A q \in Requests \ {r} : req'[q] = req[q]
    BY <1>0, <2>1 DEF Request
  <2>3. UNCHANGED <<used, held, session>> /\ pc[r] # "expireMeta" /\ Goto(r, "revokeAccess")
    BY <1>9 DEF Logout, store, tokens
  <2>. QED
    BY <1>3, <1>4, <2>2, <2>3
<1>10. ASSUME NEW r \in Requests, Touch(r) PROVE KeyInv'
  <2>1. /\ UNCHANGED <<used, held, req>> /\ pc[r] # "expireMeta" /\ Goto(r, "touchTtl")
    BY <1>10 DEF Touch, tokens
  <2>2. \A s \in Sessions : Bare(s)' => Bare(s)
    BY <1>0, <1>10 DEF Touch, Bare, Key
  <2>. QED
    BY <1>3, <2>1, <2>2
<1>11. ASSUME NEW r \in Requests, TouchTtl(r) PROVE KeyInv'
  <2>1. /\ UNCHANGED <<used, held, req>> /\ pc[r] = "touchTtl" /\ Goto(r, "loadOfficer")
        /\ Expire(req[r].sid)
    BY <1>11 DEF TouchTtl, tokens
  <2>2. req[r].sid \in Sessions
    BY <1>1, <2>1 DEF SessionStep
  <2>3. \A s \in Sessions : Bare(s)' => Bare(s)
    BY <1>0, <2>1, <2>2, KeyWrites
  <2>. QED
    BY <1>3, <2>1, <2>3
<1>12. ASSUME NEW r \in Requests, LoadOfficer(r) PROVE KeyInv'
  <2>1. UNCHANGED <<used, held>> /\ pc[r] = "loadOfficer"
    BY <1>12 DEF LoadOfficer, tokens
  <2>2. CASE Goto(r, "accepted") /\ UNCHANGED <<session, req>>
    BY <1>3, <1>4, <2>1, <2>2
  <2>3. CASE Finish(r) /\ UNCHANGED session
    BY <1>2, <1>4, <2>1, <2>3
  <2>4. CASE Delete({req[r].sid}) /\ Finish(r)
    <3>1. req[r].sid \in Sessions
      BY <1>1, <2>1 DEF SessionStep
    <3>2. \A s \in Sessions : Bare(s)' => Bare(s)
      BY <1>0, <2>4, <3>1, KeyWrites
    <3>. QED
      BY <1>2, <2>1, <2>4, <3>2
  <2>. QED
    BY <1>12, <2>2, <2>3, <2>4 DEF LoadOfficer
<1>13. ASSUME NEW r \in Requests, Refresh(r) \/ WriteTokens(r) PROVE KeyInv'
  <2>1. /\ UNCHANGED <<used, held>> /\ pc[r] # "expireMeta" /\ Goto(r, "respond")
        /\ \E n \in 0..MaxAccess : HSetTokens(req[r].sid, n)
    BY <1>0, <1>13, SessionAssumption DEF Refresh, WriteTokens, Request, tokens
  <2>2. req[r].sid \in Sessions
    BY <1>1, <1>13, <1>0 DEF Refresh, WriteTokens, SessionStep
  <2>3. \A s \in Sessions : Bare(s)' => Bare(s)
    BY <1>0, <2>1, <2>2, KeyWrites
  <2>4. req'[r].sid = req[r].sid /\ \A q \in Requests \ {r} : req'[q] = req[q]
    BY <1>0, <1>13 DEF Refresh, WriteTokens, Request
  <2>. QED
    BY <1>3, <2>1, <2>3, <2>4
<1>14. ASSUME NEW r \in Requests, DeleteHash(r) PROVE KeyInv'
  <2>1. /\ UNCHANGED <<used, held, req>> /\ pc[r] = "deleteHash" /\ Goto(r, "unindex")
        /\ Delete({req[r].sid})
    BY <1>14 DEF DeleteHash, tokens
  <2>2. req[r].sid \in Sessions
    BY <1>1, <2>1 DEF SessionStep
  <2>3. \A s \in Sessions : Bare(s)' => Bare(s)
    BY <1>0, <2>1, <2>2, KeyWrites
  <2>. QED
    BY <1>3, <2>1, <2>3
<1>15. ASSUME NEW r \in Requests, ReadIndex(r) \/ DeleteSwept(r) PROVE KeyInv'
  <2>1. UNCHANGED <<used, held>> /\ pc[r] # "expireMeta"
    BY <1>15 DEF ReadIndex, DeleteSwept, store, tokens
  <2>2. \A s \in Sessions : Bare(s)' => Bare(s)
    <3>1. req[r].sweep \in SUBSET Sessions
      BY <1>0 DEF Request
    <3>2. UNCHANGED session \/ Delete(req[r].sweep)
      BY <1>15 DEF ReadIndex, DeleteSwept, store
    <3>. QED
      BY <1>0, <3>1, <3>2, KeyWrites
  <2>3. \/ Finish(r)
        \/ /\ \E step : Goto(r, step)
           /\ \E S : req' = [req EXCEPT ![r].sweep = S]
    BY <1>15 DEF ReadIndex, DeleteSwept, AfterSweep
  <2>4. ASSUME NEW S, req' = [req EXCEPT ![r].sweep = S]
        PROVE  req'[r].sid = req[r].sid /\ \A q \in Requests \ {r} : req'[q] = req[q]
    BY <1>0, <2>4 DEF Request
  <2>. QED
    BY <1>2, <1>3, <2>1, <2>2, <2>3, <2>4
(* The session that WriteMeta makes is bare, and new. *)
<1>16. ASSUME NEW r \in Requests, WriteMeta(r) PROVE KeyInv'
  <2>1. PICK s \in Sessions \ used :
              /\ used' = used \cup {s}
              /\ session' = [session EXCEPT ![s] = [Absent EXCEPT !.fields = {"created", "activity"}]]
              /\ req' = [req EXCEPT ![r].sid = s, ![r].late = FALSE]
    BY <1>16 DEF WriteMeta
  <2>2. /\ UNCHANGED held /\ pc[r] = "writeMeta" /\ pc'[r] = "expireMeta" /\ Others(r)
        /\ req'[r].sid = s
    BY <1>0, <1>16, <2>1 DEF WriteMeta, Goto, Others, Request
  <2>3. ~Issued(s) /\ s # NoSession /\ \A q \in Requests : req[q].sid # s
    BY <1>0, <2>1, SessionAssumption DEF Issued, TypeInv, TokensUsed
  <2>4. \A q \in Requests : req'[q].sid \in used' \cup {NoSession}
    BY <1>0, <2>1, <2>2 DEF Others
  <2>5. Unknown(s)'
    BY <2>2, <2>3 DEF Unknown, Issued, Others
  <2>6. ASSUME NEW t \in Sessions \ {s}, Bare(t)' PROVE Unknown(t)'
    <3>1. Bare(t)
      BY <2>1, <2>6 DEF Bare
    <3>2. Unknown(t)
      BY <1>0, <3>1
    <3>. QED
      BY <2>2, <2>6, <3>2 DEF Unknown, Issued, Others
  <2>. QED
    BY <1>0, <2>4, <2>5, <2>6 DEF KeyInv
<1>17. ASSUME NEW r \in Requests, ExpireMeta(r) PROVE KeyInv'
  <2>1. /\ UNCHANGED <<used, held, req>> /\ pc[r] = "expireMeta" /\ Others(r)
        /\ Expire(req[r].sid)
    BY <1>0, <1>17 DEF ExpireMeta, Goto, Others, tokens
  <2>2. req[r].sid \in Sessions
    BY <1>1, <2>1 DEF SessionStep
  <2>3. \A s \in Sessions : Bare(s)' => Bare(s) /\ s # req[r].sid
    BY <1>0, <2>1, <2>2, KeyWrites
  <2>4. ASSUME NEW s \in Sessions, Bare(s)' PROVE Unknown(s)'
    BY <1>0, <2>1, <2>3, <2>4 DEF Unknown, Issued, Others
  <2>. QED
    BY <1>0, <2>1, <2>4 DEF KeyInv
<1>18. ASSUME NEW r \in Requests, Respond(r) PROVE KeyInv'
  <2>1. /\ pc[r] = "respond" /\ UNCHANGED <<session, used>> /\ Others(r) /\ req'[r].sid = NoSession
        /\ held \subseteq held' /\ \A t \in held' \ held : t[1] = req[r].sid
    BY <1>0, <1>18 DEF Respond, Finish, Others, NoRequest, store
  <2>2. ASSUME NEW s \in Sessions, Bare(s)' PROVE Unknown(s)'
    <3>1. Unknown(s)
      BY <1>0, <2>1, <2>2 DEF Bare
    <3>2. req[r].sid # s /\ s # NoSession
      BY <2>1, <3>1, SessionAssumption DEF Unknown
    <3>3. ~Issued(s)'
      BY <2>1, <3>1, <3>2 DEF Unknown, Issued
    <3>. QED
      BY <2>1, <3>1, <3>2, <3>3 DEF Unknown, Others
  <2>. QED
    BY <1>0, <2>1, <2>2 DEF KeyInv, Others
<1>19. CASE TimePasses \/ UNCHANGED vars
  <2>1. UNCHANGED <<pc, req, used, held>>
    BY <1>19 DEF TimePasses, GrowIdle, GrowOld, ExpireHash, ExpireIndex, vars, tokens
  <2>2. \A s \in Sessions : Bare(s)' => Bare(s)
    <3>1. ASSUME NEW t \in Sessions, GrowIdle(t) \/ GrowOld(t)
          PROVE  \A s \in Sessions : Bare(s)' => Bare(s)
      BY <1>0, <3>1 DEF GrowIdle, GrowOld, Bare, Key
    <3>2. ASSUME NEW t \in Sessions, ExpireHash(t)
          PROVE  \A s \in Sessions : Bare(s)' => Bare(s)
      <4>1. Delete({t}) /\ {t} \in SUBSET Sessions
        BY <3>2 DEF ExpireHash
      <4>. QED
        BY <1>0, <4>1, KeyWrites
    <3>3. CASE ExpireIndex \/ UNCHANGED vars
      BY <1>4, <3>3 DEF ExpireIndex, vars
    <3>. QED
      BY <1>19, <3>1, <3>2, <3>3 DEF TimePasses
  <2>. QED
    BY <1>0, <2>1, <2>2 DEF KeyInv, Unknown, Issued
<1>. QED
  BY <1>5, <1>6, <1>7, <1>8, <1>9, <1>10, <1>11, <1>12, <1>13, <1>14, <1>15, <1>16, <1>17, <1>18,
     <1>19
  DEF Next, Arrive, Proceed

(* Every open session whose tokens were sent to a client has an expiry,     *)
(* whatever refreshes, late touches and failing requests write beside it.   *)
THEOREM SessionKeysExpire == Spec => []KeysExpire
<1>1. Init => KeyInv
  BY InitType, SessionAssumption DEF Init, KeyInv, Bare, Absent, NoRequest
<1>2. KeyInv => KeysExpire
  BY DEF KeyInv, Bare, Unknown, Issued, KeysExpire
<1>. QED
  BY <1>1, <1>2, KeysStep, PTL DEF Spec

-----------------------------------------------------------------------------
(* The store keeps the promise of SessionPromise.                           *)

Life == [s \in Sessions |-> LifeOf(s)]
Asks == [r \in Requests |-> AskOf(pc[r], req[r])]

(* The promise of a request that is not at work with a session. *)
Nothing == [sid |-> NoSession, state |-> "none"]

Moved(r, state) == [Asks EXCEPT ![r] = [sid |-> Asks[r].sid, state |-> state]]

Closed(S) == [s \in Sessions |-> IF s \in S THEN "closed" ELSE Life[s]]

(* A step of the promise, or a stutter. *)
PromiseStep ==
    \/ Life' = Life /\ Asks' = Asks
    \/ \E s \in Sessions :
          Life[s] = "unborn" /\ Life' = [Life EXCEPT ![s] = "open"] /\ Asks' = Asks
    \/ \E S \in SUBSET Sessions :
          (\A s \in S : Life[s] = "open") /\ Life' = Closed(S) /\ Asks' = Asks
    \/ \E r \in Requests :
          \/ Asks[r].state = "fit" /\ Asks' = Moved(r, "accepted") /\ Life' = Life
          \/ /\ \/ Asks[r].state \in {"fit", "accepted"}
                \/ Asks[r].state = "late" /\ Life[Asks[r].sid] = "closed"
             /\ Asks' = Moved(r, "removing") /\ Life' = Life
          \/ /\ Asks[r].state = "removing"
             /\ Life' = Closed({Asks[r].sid}) /\ Asks' = Moved(r, "removed")
          \/ /\ Asks[r].state = "fit"
             /\ Life' = Closed({Asks[r].sid}) /\ Asks' = [Asks EXCEPT ![r] = Nothing]
          \/ Asks' = [Asks EXCEPT ![r] = Nothing] /\ Life' = Life
          \/ \E s \in Sessions :
                /\ Asks[r].state = "none" /\ Life[s] # "unborn"
                /\ \/ /\ Life[s] = "open"
                      /\ Asks' = [Asks EXCEPT ![r] = [sid |-> s, state |-> "fit"]]
                   \/ Asks' = [Asks EXCEPT ![r] = [sid |-> s, state |-> "late"]]
                /\ Life' = Life

CheckStep == {"checkRevoked", "readMeta", "touch", "touchTtl", "loadOfficer"}
RemoveStep == {"revokeAccess", "revokeRefresh", "deleteHash"}

(* What a request asks, step by step. *)
LEMMA AskFacts ==
    ASSUME NEW step \in Step, NEW q
    PROVE  /\ step \in CheckStep =>
                 AskOf(step, q) = [sid |-> q.sid, state |-> IF q.late THEN "late" ELSE "fit"]
           /\ step = "accepted" => AskOf(step, q) = [sid |-> q.sid, state |-> "accepted"]
           /\ step \in RemoveStep => AskOf(step, q) = [sid |-> q.sid, state |-> "removing"]
           /\ step = "unindex" => AskOf(step, q) = [sid |-> q.sid, state |-> "removed"]
           /\ step \notin CheckStep \cup RemoveStep \cup {"accepted", "unindex"} =>
                 AskOf(step, q) = Nothing
<1>1. CASE step \in CheckStep
  BY <1>1 DEF AskOf, CheckStep, RemoveStep
<1>2. CASE step = "accepted"
  BY <1>2 DEF AskOf, CheckStep, RemoveStep
<1>3. CASE step \in RemoveStep
  BY <1>3 DEF AskOf, CheckStep, RemoveStep
<1>4. CASE step = "unindex"
  BY <1>4 DEF AskOf, CheckStep, RemoveStep
<1>5. CASE step \notin CheckStep \cup RemoveStep \cup {"accepted", "unindex"}
  BY <1>5 DEF AskOf, CheckStep, RemoveStep, Nothing
<1>. QED
  BY <1>1, <1>2, <1>3, <1>4, <1>5 DEF CheckStep, RemoveStep

(* Only the request that moves asks something new. *)
LEMMA AskMoves ==
    ASSUME NEW r \in Requests, Others(r)
    PROVE  /\ Asks' = [Asks EXCEPT ![r] = AskOf(pc'[r], req'[r])]
           /\ AskOf(pc'[r], req'[r]) = Asks[r] => Asks' = Asks
BY DEF Asks, Others

(* A session lives as long as created_at is there. *)
LEMMA LifeStays ==
    ASSUME used' = used,
           \A s \in Sessions : "created" \in session'[s].fields <=> "created" \in session[s].fields
    PROVE  Life' = Life
BY DEF Life, LifeOf, Dead

(* DEL closes the sessions that are open, and no other. *)
LEMMA DeleteCloses ==
    ASSUME NEW S \in SUBSET Sessions, Delete(S), used' = used
    PROVE  /\ Life' = Closed({s \in S : Life[s] = "open"})
           /\ \A s \in Sessions : S = {s} /\ s \in used => Life' = Closed({s})
<1>1. \A s \in Sessions : "created" \in session'[s].fields <=> "created" \in session[s].fields /\ s \notin S
  BY DEF Delete, Absent
<1>2. \A s \in Sessions : LifeOf(s)' = IF s \in S /\ LifeOf(s) = "open" THEN "closed" ELSE LifeOf(s)
  BY <1>1 DEF LifeOf, Dead
<1>3. \A s \in S : s \in used => LifeOf(s) \in {"open", "closed"}
  BY DEF LifeOf
<1>. QED
  BY <1>2, <1>3 DEF Life, Closed

(* Steps of requests. *)
LEMMA RequestsKeepPromise ==
    ASSUME IInv, IInv', NEW r \in Requests, Arrive(r) \/ Proceed(r) \/ Fail(r)
    PROVE  PromiseStep
<1>. USE DEF IInv, TypeInv, TypeOK
<1>ask. /\ pc[r] \in Step /\ pc'[r] \in Step
        /\ Asks[r] = AskOf(pc[r], req[r])
        /\ \A q \in Requests : pc[q] \in Step
  BY DEF Asks
<1>frame. ASSUME Others(r)
          PROVE  /\ Asks' = [Asks EXCEPT ![r] = AskOf(pc'[r], req'[r])]
                 /\ AskOf(pc'[r], req'[r]) = Asks[r] => Asks' = Asks
  BY <1>frame, AskMoves
<1>others. (\E step \in Step : Goto(r, step)) /\ (\A q \in Requests \ {r} : req'[q] = req[q]) => Others(r)
  BY DEF Goto, Others
<1>finish. Finish(r) => Others(r) /\ AskOf(pc'[r], req'[r]) = Nothing
  BY AskFacts DEF Finish, Others, Step, CheckStep, RemoveStep
<1>leave. ASSUME Others(r), Life' = Life, pc'[r] \notin CheckStep \cup RemoveStep \cup {"accepted", "unindex"}
          PROVE  PromiseStep
  BY <1>leave, <1>ask, <1>frame, AskFacts DEF PromiseStep
<1>finished. Finish(r) /\ Life' = Life => PromiseStep
  BY <1>finish, <1>frame DEF PromiseStep
<1>same. UNCHANGED <<session, used>> => Life' = Life
  BY LifeStays
<1>kept. ASSUME Others(r), Life' = Life, AskOf(pc'[r], req'[r]) = Asks[r]
         PROVE  PromiseStep
  BY <1>kept, <1>frame DEF PromiseStep
<1>none. pc[r] \notin CheckStep \cup RemoveStep \cup {"accepted", "unindex"} => Asks[r] = Nothing
  BY <1>ask, AskFacts
<1>check. pc[r] \in CheckStep => /\ req[r].sid \in used
                                 /\ Asks[r] = [sid |-> req[r].sid, state |-> IF req[r].late THEN "late" ELSE "fit"]
  BY <1>ask, AskFacts DEF SidsUsed, SessionStep, CheckStep
<1>life. \A s \in Sessions : /\ s \notin used <=> Life[s] = "unborn"
                             /\ s \in used /\ ~Dead(s) <=> Life[s] = "open"
                             /\ Dead(s) <=> Life[s] = "closed"
  BY DEF Life, LifeOf, Dead
<1>goto. ASSUME NEW step \in Step, Goto(r, step), \A q \in Requests \ {r} : req'[q] = req[q]
         PROVE  Others(r) /\ pc'[r] = step
  BY <1>goto, <1>others DEF Goto
<1>stay. ASSUME NEW step \in CheckStep, pc[r] \in CheckStep, Goto(r, step), UNCHANGED req, Life' = Life
         PROVE  PromiseStep
  <2>1. step \in Step
    BY DEF Step, CheckStep
  <2>2. Others(r) /\ pc'[r] = step
    BY <1>stay, <1>goto, <2>1
  <2>3. AskOf(pc'[r], req'[r]) = Asks[r]
    BY <1>stay, <1>check, <2>1, <2>2, AskFacts
  <2>. QED
    BY <1>stay, <1>kept, <2>2, <2>3
(* Steps that neither open nor close a session, between places where        *)
(* nothing is asked of it.                                                  *)
<1>1. CASE Login(r) \/ Reset(r)
  BY <1>1, <1>leave, <1>others, <1>same, <1>ask DEF Login, Reset, Goto, Step, CheckStep, RemoveStep, store, tokens
<1>2. ASSUME NEW kind \in Kind, NEW s \in Sessions, NEW n \in 0..MaxAccess, Present(r, kind, s, n)
      PROVE  PromiseStep
  <2>1. /\ Others(r) /\ Life' = Life
        /\ pc[r] = "idle" /\ pc'[r] = "checkRevoked"
        /\ req'[r].sid = s /\ req'[r].late = (Dead(s) \/ <<s, n>> \in revoked)
    BY <1>2, <1>others, <1>same DEF Present, Goto, Others, NoRequest, Step, store
  <2>2. Asks[r].state = "none"
    BY <2>1, <1>none DEF Nothing, CheckStep, RemoveStep
  <2>3. s \in used
    BY <1>2 DEF Present, TokensUsed
  <2>4. Asks' = [Asks EXCEPT ![r] = [sid |-> s, state |-> IF req'[r].late THEN "late" ELSE "fit"]]
    <3>1. AskOf("checkRevoked", req'[r]) = [sid |-> s, state |-> IF req'[r].late THEN "late" ELSE "fit"]
      BY <2>1, AskFacts DEF Step, CheckStep
    <3>. QED
      BY <2>1, <3>1, <1>frame
  <2>5. ~req'[r].late => Life[s] = "open"
    BY <2>1, <2>3, <1>life
  <2>6. Life[s] # "unborn"
    BY <2>3, <1>life
  <2>. QED
    BY <2>1, <2>2, <2>4, <2>5, <2>6 DEF PromiseStep
<1>3. CASE CheckRevoked(r)
  <2>1. Life' = Life
    BY <1>3, <1>same DEF CheckRevoked, store, tokens
  <2>2. CASE Goto(r, "readMeta") /\ UNCHANGED req
    BY <1>3, <2>1, <2>2, <1>stay DEF CheckRevoked, CheckStep
  <2>. QED
    BY <1>3, <2>1, <2>2, <1>finished DEF CheckRevoked
<1>4. CASE ReadMeta(r)
  <2>. DEFINE s == req[r].sid
  <2>1. Life' = Life /\ pc[r] = "readMeta" /\ s \in used
    BY <1>4, <1>same, <1>check DEF ReadMeta, store, tokens, CheckStep
  <2>2. CASE Goto(r, "touch") /\ UNCHANGED req
    BY <2>1, <2>2, <1>stay DEF CheckStep
  <2>3. CASE Goto(r, "revokeAccess") /\ req' = [req EXCEPT ![r] = req'[r]] /\ req'[r].sid = s
    <3>1. Others(r) /\ pc'[r] = "revokeAccess"
      BY <2>3, <1>others DEF Goto, Step
    <3>2. Asks' = Moved(r, "removing")
      <4>1. AskOf(pc'[r], req'[r]) = [sid |-> s, state |-> "removing"]
        BY <3>1, <2>3, <1>ask, AskFacts DEF RemoveStep
      <4>2. Asks[r].sid = s
        BY <2>1, <1>check DEF CheckStep
      <4>. QED
        BY <4>1, <4>2, <3>1, <1>frame DEF Moved
    <3>3. Asks[r].sid = s /\ (Asks[r].state = "fit" \/ (Asks[r].state = "late" /\ req[r].late))
      BY <2>1, <1>check DEF CheckStep
    <3>4. req[r].late => Life[s] = "closed"
      BY <2>1, <1>life DEF RequestSafe
    <3>. QED
      BY <2>1, <3>2, <3>3, <3>4 DEF PromiseStep
  <2>4. Finish(r) \/ (Goto(r, "touch") /\ UNCHANGED req)
        \/ (Goto(r, "revokeAccess") /\ req' = [req EXCEPT ![r] = req'[r]] /\ req'[r].sid = s)
    BY <1>4 DEF ReadMeta, Request
  <2>. QED
    BY <2>1, <2>2, <2>3, <2>4, <1>finished
<1>5. CASE Touch(r)
  <2>1. pc[r] = "touch" /\ Goto(r, "touchTtl") /\ UNCHANGED req /\ used' = used
    BY <1>5 DEF Touch, tokens
  <2>2. \A s \in Sessions : "created" \in session'[s].fields <=> "created" \in session[s].fields
    BY <1>5 DEF Touch, Key
  <2>3. Life' = Life
    BY <2>1, <2>2, LifeStays
  <2>. QED
    BY <2>1, <2>3, <1>stay DEF CheckStep
<1>6. CASE TouchTtl(r)
  <2>1. pc[r] = "touchTtl" /\ Goto(r, "loadOfficer") /\ UNCHANGED req /\ used' = used
    BY <1>6 DEF TouchTtl, tokens
  <2>2. \A s \in Sessions : "created" \in session'[s].fields <=> "created" \in session[s].fields
    BY <1>6 DEF TouchTtl, Expire, Key
  <2>3. Life' = Life
    BY <2>1, <2>2, LifeStays
  <2>. QED
    BY <2>1, <2>3, <1>stay DEF CheckStep
<1>7. CASE LoadOfficer(r)
  <2>. DEFINE s == req[r].sid
  <2>1. /\ pc[r] = "loadOfficer" /\ s \in Sessions /\ s \in used /\ used' = used
        /\ Asks[r] = [sid |-> s, state |-> "fit"]
    BY <1>7, <1>check DEF LoadOfficer, RequestSafe, CheckStep, tokens
  <2>2. CASE Goto(r, "accepted") /\ UNCHANGED <<session, req>>
    <3>1. Others(r) /\ pc'[r] = "accepted" /\ Life' = Life
      BY <2>1, <2>2, <1>others, <1>same DEF Goto, Step
    <3>2. Asks' = Moved(r, "accepted")
      <4>1. AskOf(pc'[r], req'[r]) = [sid |-> s, state |-> "accepted"]
        BY <3>1, <2>2, <1>ask, AskFacts
      <4>. QED
        BY <4>1, <2>1, <3>1, <1>frame DEF Moved
    <3>. QED
      BY <2>1, <3>1, <3>2 DEF PromiseStep
  <2>3. CASE Finish(r) /\ UNCHANGED session
    BY <2>1, <2>3, <1>finished, <1>same
  <2>4. CASE Delete({s}) /\ Finish(r)
    <3>1. Life' = Closed({s})
      BY <2>1, <2>4, DeleteCloses
    <3>2. Asks' = [Asks EXCEPT ![r] = Nothing]
      BY <2>4, <1>finish, <1>frame
    <3>3. Asks[r].state = "fit" /\ Life' = Closed({Asks[r].sid})
      BY <2>1, <3>1
    <3>. QED
      BY <3>2, <3>3 DEF PromiseStep
  <2>. QED
    BY <1>7, <2>2, <2>3, <2>4 DEF LoadOfficer
<1>8. CASE Serve(r)
  BY <1>8, <1>finished, <1>same DEF Serve, store, tokens
<1>9. CASE Logout(r)
  <2>1. /\ pc[r] = "accepted" /\ req'[r].sid = req[r].sid
        /\ Goto(r, "revokeAccess") /\ \A q \in Requests \ {r} : req'[q] = req[q]
    BY <1>9 DEF Logout, Request
  <2>2. Others(r) /\ pc'[r] = "revokeAccess"
    BY <2>1, <1>goto DEF Step
  <2>3. Asks[r] = [sid |-> req[r].sid, state |-> "accepted"]
    BY <2>1, <1>ask, AskFacts
  <2>4. AskOf(pc'[r], req'[r]) = [sid |-> req[r].sid, state |-> "removing"]
    BY <2>1, <2>2, <1>ask, AskFacts DEF RemoveStep
  <2>5. Life' = Life
    BY <1>9, <1>same DEF Logout, store, tokens
  <2>6. Asks' = Moved(r, "removing")
    BY <2>2, <2>3, <2>4, <1>frame DEF Moved
  <2>. QED
    BY <2>3, <2>5, <2>6 DEF PromiseStep
<1>10. CASE ChangePassword(r)
  BY <1>10, <1>leave, <1>goto, <1>same DEF ChangePassword, Step, CheckStep, RemoveStep, tokens
<1>11. CASE Refresh(r)
  <2>1. Goto(r, "respond") /\ UNCHANGED <<req, used>>
    BY <1>11 DEF Refresh, tokens
  <2>2. \A s \in Sessions : "created" \in session'[s].fields <=> "created" \in session[s].fields
    BY <1>11 DEF Refresh, HSetTokens, Key
  <2>. QED
    BY <2>1, <2>2, <1>leave, <1>goto, LifeStays DEF Step, CheckStep, RemoveStep
<1>12. CASE RevokeAccess(r) \/ RevokeRefresh(r)
  <2>1. /\ pc[r] \in RemoveStep /\ UNCHANGED <<session, used, req>>
        /\ Goto(r, "revokeRefresh") \/ Goto(r, "deleteHash")
    BY <1>12 DEF RevokeAccess, RevokeRefresh, RemoveStep, tokens
  <2>2. Others(r) /\ pc'[r] \in RemoveStep /\ Life' = Life
    BY <2>1, <1>goto, <1>same DEF Step, RemoveStep
  <2>3. AskOf(pc'[r], req'[r]) = Asks[r]
    BY <2>1, <2>2, <1>ask, AskFacts
  <2>. QED
    BY <2>2, <2>3, <1>kept
<1>13. CASE DeleteHash(r)
  <2>. DEFINE s == req[r].sid
  <2>1. /\ pc[r] = "deleteHash" /\ s \in used /\ s \in Sessions
        /\ Goto(r, "unindex") /\ Delete({s}) /\ UNCHANGED <<used, req>>
    BY <1>13 DEF DeleteHash, SidsUsed, SessionStep, tokens
  <2>2. Others(r) /\ pc'[r] = "unindex"
    BY <2>1, <1>goto DEF Step
  <2>3. Asks[r] = [sid |-> s, state |-> "removing"]
    BY <2>1, <1>ask, AskFacts DEF RemoveStep
  <2>4. AskOf(pc'[r], req'[r]) = [sid |-> s, state |-> "removed"]
    BY <2>1, <2>2, <1>ask, AskFacts
  <2>5. Life' = Closed({s})
    BY <2>1, DeleteCloses
  <2>6. Asks' = Moved(r, "removed")
    BY <2>2, <2>3, <2>4, <1>frame DEF Moved
  <2>7. Asks[r].state = "removing" /\ Asks[r].sid = s
    BY <2>3
  <2>8. Life' = Closed({Asks[r].sid})
    BY <2>5, <2>7
  <2>. QED
    BY <2>6, <2>7, <2>8 DEF PromiseStep
<1>14. CASE Unindex(r)
  BY <1>14, <1>finished, <1>same DEF Unindex, tokens
(* A sweep ends at a place where nothing is asked of a session.             *)
<1>swept. ASSUME AfterSweep(r)
          PROVE  Others(r) /\ pc'[r] \notin CheckStep \cup RemoveStep \cup {"accepted", "unindex"}
  <2>1. CASE Finish(r)
    BY <2>1 DEF Finish, Others, CheckStep, RemoveStep
  <2>2. CASE Goto(r, "enforce") /\ \A q \in Requests \ {r} : req'[q] = req[q]
    BY <2>2, <1>goto DEF Step, CheckStep, RemoveStep
  <2>3. CASE Goto(r, "writeMeta") /\ \A q \in Requests \ {r} : req'[q] = req[q]
    BY <2>3, <1>goto DEF Step, CheckStep, RemoveStep
  <2>. QED
    BY <1>swept, <2>1, <2>2, <2>3 DEF AfterSweep
<1>15. CASE ReadIndex(r)
  <2>1. Life' = Life
    BY <1>15, <1>same DEF ReadIndex, store, tokens
  <2>2. CASE AfterSweep(r)
    BY <2>1, <2>2, <1>swept, <1>leave
  <2>3. CASE /\ Goto(r, "sweepDelete") \/ Goto(r, "enforceDelete")
             /\ \A q \in Requests \ {r} : req'[q] = req[q]
    BY <2>1, <2>3, <1>goto, <1>leave DEF Step, CheckStep, RemoveStep
  <2>. QED
    BY <1>15, <2>2, <2>3 DEF ReadIndex
<1>16. CASE DeleteSwept(r)
  <2>. DEFINE S == {s \in req[r].sweep : Life[s] = "open"}
  <2>1. Life' = Closed(S) /\ S \in SUBSET Sessions
    BY <1>16, DeleteCloses DEF DeleteSwept, Request, tokens
  <2>2. AskOf(pc'[r], req'[r]) = Nothing
    BY <1>16, <1>swept, <1>ask, AskFacts DEF DeleteSwept
  <2>3. Asks[r] = Nothing
    BY <1>16, <1>none DEF DeleteSwept, CheckStep, RemoveStep
  <2>4. Asks' = Asks
    BY <1>16, <2>2, <2>3, <1>swept, <1>frame DEF DeleteSwept
  <2>. QED
    BY <2>1, <2>4 DEF PromiseStep
<1>17. CASE Enforce(r) \/ AddIndex(r)
  <2>1. /\ UNCHANGED <<session, used, req>>
        /\ \E step \in {"enforceRead", "writeMeta", "writeTokens"} : Goto(r, step)
    BY <1>17 DEF Enforce, AddIndex, store, tokens
  <2>. QED
    BY <2>1, <1>goto, <1>leave, <1>same DEF Step, CheckStep, RemoveStep
<1>18. CASE WriteMeta(r)
  <2>1. PICK s \in Sessions \ used :
          /\ used' = used \cup {s}
          /\ session' = [session EXCEPT ![s] = [Absent EXCEPT !.fields = {"created", "activity"}]]
          /\ req' = [req EXCEPT ![r].sid = s, ![r].late = FALSE]
    BY <1>18 DEF WriteMeta
  <2>2. pc[r] = "writeMeta" /\ Others(r) /\ pc'[r] = "expireMeta"
    BY <1>18, <2>1, <1>goto DEF WriteMeta, Step
  <2>3. Asks[r] = Nothing /\ AskOf(pc'[r], req'[r]) = Nothing
    BY <2>2, <1>none, <1>ask, AskFacts DEF CheckStep, RemoveStep
  <2>4. Asks' = Asks
    BY <2>2, <2>3, <1>frame
  <2>5. "created" \in session'[s].fields /\ \A t \in Sessions \ {s} : session'[t] = session[t]
    BY <2>1 DEF Absent
  <2>6. \A t \in Sessions : LifeOf(t)' = IF t = s THEN "open" ELSE LifeOf(t)
    BY <2>1, <2>5 DEF LifeOf, Dead
  <2>7. Life[s] = "unborn" /\ Life' = [Life EXCEPT ![s] = "open"]
    BY <2>1, <2>6, <1>life DEF Life
  <2>. QED
    BY <2>4, <2>7 DEF PromiseStep
<1>19. CASE ExpireMeta(r)
  <2>1. Goto(r, "addIndex") /\ UNCHANGED <<req, used>>
    BY <1>19 DEF ExpireMeta, tokens
  <2>2. \A s \in Sessions : "created" \in session'[s].fields <=> "created" \in session[s].fields
    BY <1>19 DEF ExpireMeta, Expire, Key
  <2>. QED
    BY <2>1, <2>2, <1>leave, <1>goto, LifeStays DEF Step, CheckStep, RemoveStep
<1>20. CASE WriteTokens(r)
  <2>1. Goto(r, "respond") /\ used' = used /\ \A q \in Requests \ {r} : req'[q] = req[q]
    BY <1>20 DEF WriteTokens
  <2>2. \A s \in Sessions : "created" \in session'[s].fields <=> "created" \in session[s].fields
    BY <1>20 DEF WriteTokens, HSetTokens, Key
  <2>. QED
    BY <2>1, <2>2, <1>leave, <1>goto, LifeStays DEF Step, CheckStep, RemoveStep
<1>21. CASE Respond(r) \/ Fail(r)
  BY <1>21, <1>finished, <1>same DEF Respond, Fail, store, tokens
<1>. QED
  BY <1>1, <1>2, <1>3, <1>4, <1>5, <1>6, <1>7, <1>8, <1>9, <1>10, <1>11, <1>12, <1>13, <1>14, <1>15,
     <1>16, <1>17, <1>18, <1>19, <1>20, <1>21 DEF Arrive, Proceed

(* Steps of time: only an expired key closes a session.                     *)
LEMMA TimeKeepsPromise ==
    ASSUME IInv, TimePasses
    PROVE  PromiseStep
<1>. USE DEF IInv, TypeInv, TypeOK
<1>1. UNCHANGED <<pc, req, used>> /\ Asks' = Asks
  BY DEF TimePasses, GrowIdle, GrowOld, ExpireHash, ExpireIndex, tokens, Asks
<1>2. ASSUME NEW s \in Sessions, GrowIdle(s) \/ GrowOld(s) PROVE PromiseStep
  <2>1. \A t \in Sessions : "created" \in session'[t].fields <=> "created" \in session[t].fields
    BY <1>2 DEF GrowIdle, GrowOld, Key
  <2>. QED
    BY <1>1, <2>1, LifeStays DEF PromiseStep
<1>3. ASSUME NEW s \in Sessions, ExpireHash(s) PROVE PromiseStep
  <2>. DEFINE S == {t \in {s} : Life[t] = "open"}
  <2>1. Life' = Closed(S) /\ S \in SUBSET Sessions
    BY <1>1, <1>3, DeleteCloses DEF ExpireHash
  <2>. QED
    BY <1>1, <2>1 DEF PromiseStep
<1>4. CASE ExpireIndex
  BY <1>1, <1>4, LifeStays DEF ExpireIndex, PromiseStep
<1>. QED
  BY <1>2, <1>3, <1>4 DEF TimePasses

(* The session store implements SessionPromise: each session is opened and  *)
(* closed once, and no request that came too late is accepted or closes a   *)
(* session, whatever commands of other requests come between its own.       *)
THEOREM SessionsKeepPromise == Spec => KeepsPromise
<1>1. Init => Promise!Init
  BY DEF Init, Promise!Init, Promise!NoAsk, LifeOf, AskOf
<1>2. IInv /\ IInv' /\ [Next]_vars
        => [Promise!Next]_<<[s \in Sessions |-> LifeOf(s)], [r \in Requests |-> AskOf(pc[r], req[r])]>>
  <2>. SUFFICES ASSUME IInv, IInv', [Next]_vars
                PROVE  Promise!Next \/ (Life' = Life /\ Asks' = Asks)
    BY DEF Life, Asks
  <2>1. CASE UNCHANGED vars
    BY <2>1 DEF vars, Life, LifeOf, Dead, Asks
  <2>2. CASE Next
    <3>1. PromiseStep
      BY <2>2, RequestsKeepPromise, TimeKeepsPromise DEF Next
    <3>. QED
      BY <3>1
      DEF PromiseStep, Promise!Next, Promise!Open, Promise!Lapse, Promise!Ask, Promise!Accept,
          Promise!StartRemoval, Promise!Removed, Promise!Refuse, Promise!Leave, Promise!Move,
          Promise!Become, Promise!Close, Promise!NoAsk, Nothing, Moved, Closed, Life, Asks
  <2>. QED
    BY <2>1, <2>2
<1>. QED
  BY <1>1, <1>2, Safety, PTL DEF Spec, KeepsPromise, Promise!Spec
=============================================================================
