--------------------------- MODULE SessionManager ---------------------------
(***************************************************************************)
(* The Redis session store of one officer and the HTTP requests that work  *)
(* on it (app/core/session_manager.py, app/core/redis_client.py and their   *)
(* callers in app/modules/auth).  Keys of different officers never meet, so *)
(* one officer is enough.                                                   *)
(*                                                                         *)
(* Every await on Redis is a step of its own: a handler is a sequence of    *)
(* single Redis commands that other requests interleave with, and that a    *)
(* Redis or database error may cut short.  Database reads that only decide  *)
(* whether the request goes on are part of the step that follows them.      *)
(***************************************************************************)
EXTENDS Naturals, FiniteSets

CONSTANTS
    Sessions,     \* session ids; each is handed out once (uuid4)
    Requests,     \* slots for HTTP requests in flight
    Kinds,        \* Kinds[r]: the requests that slot r may carry
    MaxSessions,  \* MAX_CONCURRENT_SESSIONS_PER_OFFICER, 0 for no limit
    MaxAccess,    \* bound: access tokens minted per session
    Failures,     \* may a Redis or database error abort a request?
    NoSession

Kind == {"login", "use", "refresh", "logout", "change", "reset"}

ASSUME SessionAssumption ==
    /\ NoSession \notin Sessions
    /\ Kinds \in [Requests -> SUBSET Kind]
    /\ MaxSessions \in Nat
    /\ MaxAccess \in Nat \ {0}
    /\ Failures \in BOOLEAN

VARIABLES
    session, \* session:{id} of each session
    index,   \* officer_sessions:{officer}
    revoked, \* the tokens with an entry revoked_jti:{jti}
    used,    \* session ids already generated
    minted,  \* access tokens minted so far, per session
    held,    \* tokens that were sent to the client
    pc,      \* the next step of each request
    req      \* the local state of each request

store == <<session, index, revoked>>
tokens == <<used, minted, held>>
vars == <<session, index, revoked, used, minted, held, pc, req>>

-----------------------------------------------------------------------------
(* "created" stands for officer_id and created_at, "activity" for           *)
(* last_activity, "tokens" for the four JTI fields.                         *)
Field == {"created", "activity", "tokens"}

(* last_activity and created_at are within their limits; last_activity is   *)
(* older than IDLE_TIMEOUT_SECONDS; created_at than MAX_SESSION_SECONDS.    *)
Age == {"fresh", "idle", "old"}

(* Token <<s, 0>> is the refresh token of session s, <<s, n>> its n-th      *)
(* access token.  A token is not seen to expire: that is a client that      *)
(* presents it no more, and its revocation entry lives as long.             *)
Token == Sessions \X (0..MaxAccess)

Key == [fields : SUBSET Field,
        jti    : 0..MaxAccess,  \* access_jti
        ttl    : BOOLEAN,       \* does the key carry an expiry?
        age    : Age]

Absent == [fields |-> {}, jti |-> 0, ttl |-> FALSE, age |-> "fresh"]

Step == {"idle", "checkRevoked", "readMeta", "touch", "touchTtl", "loadOfficer",
         "accepted", "revokeAccess", "revokeRefresh", "deleteHash", "unindex",
         "sweepRead", "sweepDelete", "enforce", "enforceRead", "enforceDelete",
         "writeMeta", "expireMeta", "addIndex", "writeTokens", "respond"}

Request == [kind  : Kind \cup {"none"},
            sid   : Sessions \cup {NoSession},
            tok   : 0..MaxAccess,   \* the token presented
            jti   : 0..MaxAccess,   \* the access token to revoke or to record
            ref   : BOOLEAN,        \* revoke the refresh token as well?
            known : BOOLEAN,        \* is the officer of the session known?
            sweep : SUBSET Sessions,\* smembers read by remove_officer_sessions
            late  : BOOLEAN]        \* arrived when its session or its token was gone

NoRequest == [kind |-> "none", sid |-> NoSession, tok |-> 0, jti |-> 0, ref |-> FALSE,
              known |-> FALSE, sweep |-> {}, late |-> FALSE]

Exists(s) == session[s].fields # {}

(* validate_session_activity accepts this session. *)
Fresh(s) == {"created", "activity"} \subseteq session[s].fields /\ session[s].age = "fresh"

(* The metadata of a session that once existed is gone. *)
Dead(s) == s \in used /\ "created" \notin session[s].fields

-----------------------------------------------------------------------------
Init ==
    /\ session = [s \in Sessions |-> Absent]
    /\ minted = [s \in Sessions |-> 0]
    /\ index = {} /\ revoked = {} /\ used = {} /\ held = {}
    /\ pc = [r \in Requests |-> "idle"]
    /\ req = [r \in Requests |-> NoRequest]

Goto(r, step) == pc' = [pc EXCEPT ![r] = step]

Finish(r) == /\ pc' = [pc EXCEPT ![r] = "idle"]
             /\ req' = [req EXCEPT ![r] = NoRequest]

(* DEL session:{id} for every id of S. *)
Delete(S) == session' = [s \in Sessions |-> IF s \in S THEN Absent ELSE session[s]]

(* HSET creates the key, without an expiry, when it is absent. *)
HSetTokens(s, n) == session' = [session EXCEPT ![s].fields = @ \cup {"tokens"}, ![s].jti = n]

(* EXPIRE does nothing on an absent key. *)
Expire(s) == session' = [session EXCEPT ![s].ttl = Exists(s)]

-----------------------------------------------------------------------------
(* Requests arrive.  The supply of session ids bounds the logins.           *)

Unborn == {r \in Requests : /\ req[r].kind \in {"login", "change"}
                            /\ pc[r] \notin {"expireMeta", "addIndex", "writeTokens", "respond"}}
IdsLeft == Cardinality(used) + Cardinality(Unborn) < Cardinality(Sessions)

(* AuthService.login, up to the verified password. *)
Login(r) ==
    /\ pc[r] = "idle" /\ "login" \in Kinds[r] /\ IdsLeft
    /\ Goto(r, "enforce")
    /\ req' = [req EXCEPT ![r] = [NoRequest EXCEPT !.kind = "login"]]
    /\ UNCHANGED <<store, tokens>>

(* A request presents the access token of its session, /auth/refresh the    *)
(* refresh token; the signature and the expiry are in order.  The number of *)
(* the token a refresh is going to mint is set aside here.                  *)
Present(r, kind, s, n) ==
    /\ pc[r] = "idle" /\ kind \in Kinds[r] \cap {"use", "refresh", "logout", "change"}
    /\ <<s, n>> \in held
    /\ (n = 0) <=> (kind = "refresh")
    /\ kind = "refresh" => minted[s] < MaxAccess
    /\ kind = "change" => IdsLeft
    /\ minted' = IF kind = "refresh" THEN [minted EXCEPT ![s] = @ + 1] ELSE minted
    /\ req' = [req EXCEPT ![r] = [NoRequest EXCEPT !.kind = kind, !.sid = s, !.tok = n,
                                    !.jti = minted'[s], !.late = Dead(s) \/ <<s, n>> \in revoked]]
    /\ Goto(r, "checkRevoked")
    /\ UNCHANGED <<store, used, held>>

(* A confirmed password reset, a deleted officer or a deleted person.       *)
Reset(r) ==
    /\ pc[r] = "idle" /\ "reset" \in Kinds[r]
    /\ Goto(r, "sweepRead")
    /\ req' = [req EXCEPT ![r] = [NoRequest EXCEPT !.kind = "reset"]]
    /\ UNCHANGED <<store, tokens>>

-----------------------------------------------------------------------------
(* get_current_officer and refresh_access_token.                            *)

CheckRevoked(r) ==
    /\ pc[r] = "checkRevoked"
    /\ IF <<req[r].sid, req[r].tok>> \in revoked
       THEN Finish(r)
       ELSE Goto(r, "readMeta") /\ UNCHANGED req
    /\ UNCHANGED <<store, tokens>>

(* Mutant: a key without created_at passes. *)
ReadMetaOfPartialKey(r) ==
    /\ pc[r] = "readMeta"
    /\ IF Exists(req[r].sid)
       THEN Goto(r, "touch") /\ UNCHANGED req
       ELSE Finish(r)
    /\ UNCHANGED <<store, tokens>>

(* validate_session_activity: no session; a usable one; or one that is idle,*)
(* too old or without its fields, which is invalidated.                     *)
ReadMeta(r) ==
    LET s == req[r].sid IN
    /\ pc[r] = "readMeta"
    /\ \/ ~Exists(s) /\ Finish(r)
       \/ Fresh(s) /\ Goto(r, "touch") /\ UNCHANGED req
       \/ /\ Exists(s) /\ ~Fresh(s)
          /\ Goto(r, "revokeAccess")
          /\ LET tokensKnown == "tokens" \in session[s].fields IN
             req' = [req EXCEPT ![r].jti = IF tokensKnown THEN session[s].jti ELSE req[r].tok,
                                ![r].ref = tokensKnown,
                                ![r].known = "created" \in session[s].fields]
    /\ UNCHANGED <<store, tokens>>

(* Mutant: touch_session writes the whole metadata back. *)
TouchWritesAll(r) ==
    /\ pc[r] = "touch"
    /\ session' = [session EXCEPT ![req[r].sid].fields = @ \cup {"created", "activity"}]
    /\ Goto(r, "touchTtl")
    /\ UNCHANGED <<index, revoked, tokens, req>>

(* last_activity is written anew; created_at is not. *)
Touch(r) ==
    LET s == req[r].sid IN
    /\ pc[r] = "touch"
    /\ session' = [session EXCEPT ![s].fields = @ \cup {"activity"},
                                  ![s].age = IF @ = "idle" THEN "fresh" ELSE @]
    /\ Goto(r, "touchTtl")
    /\ UNCHANGED <<index, revoked, tokens, req>>

(* Mutant: touch_session does not renew the expiry. *)
TouchWithoutTtl(r) ==
    /\ pc[r] = "touchTtl"
    /\ Goto(r, "loadOfficer")
    /\ UNCHANGED <<store, tokens, req>>

TouchTtl(r) ==
    /\ pc[r] = "touchTtl"
    /\ Expire(req[r].sid)
    /\ Goto(r, "loadOfficer")
    /\ UNCHANGED <<index, revoked, tokens, req>>

(* The cached profile or the officer row: accepted, refused, or refused     *)
(* because the role changed since the token was issued, which deletes the   *)
(* session (but neither its index entry nor its tokens).                    *)
LoadOfficer(r) ==
    /\ pc[r] = "loadOfficer"
    /\ \/ Goto(r, "accepted") /\ UNCHANGED <<session, req>>
       \/ Finish(r) /\ UNCHANGED session
       \/ req[r].kind # "refresh" /\ Delete({req[r].sid}) /\ Finish(r)
    /\ UNCHANGED <<index, revoked, tokens>>

-----------------------------------------------------------------------------
(* What the accepted request does.                                          *)

Serve(r) ==
    /\ pc[r] = "accepted" /\ req[r].kind = "use"
    /\ Finish(r)
    /\ UNCHANGED <<store, tokens>>

(* The body of a logout may leave the refresh token out. *)
Logout(r) ==
    /\ pc[r] = "accepted" /\ req[r].kind = "logout"
    /\ \E ref \in BOOLEAN :
         req' = [req EXCEPT ![r].jti = req[r].tok, ![r].ref = ref, ![r].known = TRUE]
    /\ Goto(r, "revokeAccess")
    /\ UNCHANGED <<store, tokens>>

ChangePassword(r) ==
    /\ pc[r] = "accepted" /\ req[r].kind = "change"
    /\ revoked' = revoked \cup {<<req[r].sid, req[r].tok>>}
    /\ Goto(r, "sweepRead")
    /\ UNCHANGED <<session, index, tokens, req>>

(* refresh_access_token records the new access token in the session.        *)
Refresh(r) ==
    /\ pc[r] = "accepted" /\ req[r].kind = "refresh"
    /\ HSetTokens(req[r].sid, req[r].jti)
    /\ Goto(r, "respond")
    /\ UNCHANGED <<index, revoked, tokens, req>>

-----------------------------------------------------------------------------
(* invalidate_session.                                                      *)

(* Mutant: the entry for the access token is left out. *)
RevokeNothing(r) ==
    /\ pc[r] = "revokeAccess"
    /\ Goto(r, "revokeRefresh")
    /\ UNCHANGED <<store, tokens, req>>

RevokeAccess(r) ==
    /\ pc[r] = "revokeAccess"
    /\ revoked' = revoked \cup {<<req[r].sid, req[r].jti>>}
    /\ Goto(r, "revokeRefresh")
    /\ UNCHANGED <<session, index, tokens, req>>

RevokeRefresh(r) ==
    /\ pc[r] = "revokeRefresh"
    /\ revoked' = revoked \cup {t \in {<<req[r].sid, 0>>} : req[r].ref}
    /\ Goto(r, "deleteHash")
    /\ UNCHANGED <<session, index, tokens, req>>

DeleteHash(r) ==
    /\ pc[r] = "deleteHash"
    /\ Delete({req[r].sid})
    /\ Goto(r, "unindex")
    /\ UNCHANGED <<index, revoked, tokens, req>>

(* Mutant: the whole index is deleted. *)
UnindexAll(r) ==
    /\ pc[r] = "unindex"
    /\ index' = {}
    /\ Finish(r)
    /\ UNCHANGED <<session, revoked, tokens>>

Unindex(r) ==
    /\ pc[r] = "unindex"
    /\ index' = {s \in index : req[r].known => s # req[r].sid}
    /\ Finish(r)
    /\ UNCHANGED <<session, revoked, tokens>>

-----------------------------------------------------------------------------
(* remove_officer_sessions: SMEMBERS, then one MULTI/EXEC pipeline that     *)
(* deletes the sessions it read and the whole index.                        *)

Sweeping(r) == pc[r] \in {"sweepRead", "sweepDelete"}

AfterSweep(r) ==
    IF Sweeping(r) /\ req[r].kind = "reset"
    THEN Finish(r)
    ELSE /\ Goto(r, IF Sweeping(r) THEN "enforce" ELSE "writeMeta")
         /\ req' = [req EXCEPT ![r].sweep = {}]

ReadIndex(r) ==
    /\ pc[r] \in {"sweepRead", "enforceRead"}
    /\ IF index = {}
       THEN AfterSweep(r)
       ELSE /\ Goto(r, IF Sweeping(r) THEN "sweepDelete" ELSE "enforceDelete")
            /\ req' = [req EXCEPT ![r].sweep = index]
    /\ UNCHANGED <<store, tokens>>

DeleteSwept(r) ==
    /\ pc[r] \in {"sweepDelete", "enforceDelete"}
    /\ Delete(req[r].sweep)
    /\ index' = {}
    /\ AfterSweep(r)
    /\ UNCHANGED <<revoked, tokens>>

-----------------------------------------------------------------------------
(* start_session: enforce_concurrent_sessions, then create_session.         *)

(* Mutant: one session more than the limit. *)
EnforceOneMore(r) ==
    /\ pc[r] = "enforce"
    /\ Goto(r, IF MaxSessions > 0 /\ Cardinality(index) > MaxSessions
               THEN "enforceRead" ELSE "writeMeta")
    /\ UNCHANGED <<store, tokens, req>>

(* Mutant: the index is written before the session has its id. *)
EnforceIndexFirst(r) ==
    /\ pc[r] = "enforce"
    /\ Goto(r, "addIndex")
    /\ UNCHANGED <<store, tokens, req>>

Enforce(r) ==
    /\ pc[r] = "enforce"
    /\ Goto(r, IF MaxSessions > 0 /\ Cardinality(index) >= MaxSessions
               THEN "enforceRead" ELSE "writeMeta")
    /\ UNCHANGED <<store, tokens, req>>

WriteMeta(r) ==
    /\ pc[r] = "writeMeta"
    /\ \E s \in Sessions \ used :
         /\ used' = used \cup {s}
         /\ session' = [session EXCEPT ![s] = [Absent EXCEPT !.fields = {"created", "activity"}]]
         /\ req' = [req EXCEPT ![r].sid = s, ![r].late = FALSE]
    /\ Goto(r, "expireMeta")
    /\ UNCHANGED <<index, revoked, minted, held>>

(* Mutant: write_session_metadata sets no expiry. *)
ExpireMetaNever(r) ==
    /\ pc[r] = "expireMeta"
    /\ Goto(r, "addIndex")
    /\ UNCHANGED <<store, tokens, req>>

ExpireMeta(r) ==
    /\ pc[r] = "expireMeta"
    /\ Expire(req[r].sid)
    /\ Goto(r, "addIndex")
    /\ UNCHANGED <<index, revoked, tokens, req>>

AddIndex(r) ==
    /\ pc[r] = "addIndex"
    /\ index' = index \cup {req[r].sid}
    /\ Goto(r, "writeTokens")
    /\ UNCHANGED <<session, revoked, tokens, req>>

WriteTokens(r) ==
    /\ pc[r] = "writeTokens"
    /\ HSetTokens(req[r].sid, 1)
    /\ minted' = [minted EXCEPT ![req[r].sid] = 1]
    /\ req' = [req EXCEPT ![r].jti = 1]
    /\ Goto(r, "respond")
    /\ UNCHANGED <<index, revoked, used, held>>

(* The response reaches the client: both tokens after a login or a changed  *)
(* password, the new access token alone after a refresh.                    *)
Respond(r) ==
    /\ pc[r] = "respond"
    /\ held' = held \cup {<<req[r].sid, req[r].jti>>}
                    \cup {t \in {<<req[r].sid, 0>>} : req[r].kind # "refresh"}
    /\ Finish(r)
    /\ UNCHANGED <<store, used, minted>>

-----------------------------------------------------------------------------
(* Errors and time.                                                         *)

Fail(r) ==
    /\ Failures /\ pc[r] # "idle"
    /\ Finish(r)
    /\ UNCHANGED <<store, tokens>>

(* A request runs for seconds and the limits are minutes to hours: no limit *)
(* that a running request has just renewed passes before it ends.           *)
Renewing(s) == \E r \in Requests :
    req[r].sid = s /\ pc[r] \notin {"checkRevoked", "readMeta", "touch"}

GrowIdle(s) ==
    /\ Fresh(s) /\ ~Renewing(s)
    /\ session' = [session EXCEPT ![s].age = "idle"]
    /\ UNCHANGED <<index, revoked, tokens, pc, req>>

GrowOld(s) ==
    /\ "created" \in session[s].fields /\ session[s].age # "old"
    /\ session' = [session EXCEPT ![s].age = "old"]
    /\ UNCHANGED <<index, revoked, tokens, pc, req>>

ExpireHash(s) ==
    /\ session[s].ttl /\ ~Renewing(s)
    /\ Delete({s})
    /\ UNCHANGED <<index, revoked, tokens, pc, req>>

(* Every touch of a session renews the index after the session's own key,   *)
(* so the index outlives all of them.                                       *)
ExpireIndex ==
    /\ index # {}
    /\ \A s \in index : Dead(s) /\ ~Renewing(s)
    /\ index' = {}
    /\ UNCHANGED <<session, revoked, tokens, pc, req>>

-----------------------------------------------------------------------------
Arrive(r) ==
    \/ Login(r)
    \/ Reset(r)
    \/ \E kind \in Kind, s \in Sessions, n \in 0..MaxAccess : Present(r, kind, s, n)

Proceed(r) ==
    \/ CheckRevoked(r) \/ ReadMeta(r) \/ Touch(r) \/ TouchTtl(r) \/ LoadOfficer(r)
    \/ Serve(r) \/ Logout(r) \/ ChangePassword(r) \/ Refresh(r)
    \/ RevokeAccess(r) \/ RevokeRefresh(r) \/ DeleteHash(r) \/ Unindex(r)
    \/ ReadIndex(r) \/ DeleteSwept(r)
    \/ Enforce(r) \/ WriteMeta(r) \/ ExpireMeta(r) \/ AddIndex(r) \/ WriteTokens(r)
    \/ Respond(r)

TimePasses ==
    \/ \E s \in Sessions : GrowIdle(s) \/ GrowOld(s) \/ ExpireHash(s)
    \/ ExpireIndex

Next ==
    \/ \E r \in Requests : Arrive(r) \/ Proceed(r) \/ Fail(r)
    \/ TimePasses

Spec == Init /\ [][Next]_vars

(* The event loop runs every request to its end; Redis drops expired keys.  *)
Fairness ==
    /\ \A r \in Requests : WF_vars(Proceed(r))
    /\ \A s \in Sessions : WF_vars(ExpireHash(s))

FairSpec == Spec /\ Fairness

-----------------------------------------------------------------------------
TypeOK ==
    /\ session \in [Sessions -> Key]
    /\ minted \in [Sessions -> 0..MaxAccess]
    /\ index \subseteq Sessions /\ used \subseteq Sessions
    /\ revoked \subseteq Token /\ held \subseteq Token
    /\ pc \in [Requests -> Step]
    /\ req \in [Requests -> Request]

(* Once the metadata of a session is gone, no request that was already      *)
(* running - a touch, a refresh, the end of a login - brings it back: the   *)
(* keys that late HSETs create are never complete again                     *)
(* (session_manager.touch_session, redis_client.update_session_tokens).     *)
DeadStaysDead == [][\A s \in Sessions : Dead(s) => Dead(s)']_vars

(* A request that arrives after its session was removed - by a logout, an   *)
(* idle timeout, a newer login, a password reset - or after its token was   *)
(* revoked is never accepted, even while late writes recreate parts of the  *)
(* session's key (get_current_officer, refresh_access_token).               *)
NoLateAcceptance == \A r \in Requests : pc[r] = "accepted" => ~req[r].late

(* Once invalidate_session has deleted the key, the session is gone for     *)
(* good and its access token is revoked, whatever touches, refreshes and    *)
(* failing requests run beside it.                                          *)
InvalidatedForGood == \A r \in Requests :
    pc[r] = "unindex" => /\ Dead(req[r].sid)
                         /\ <<req[r].sid, req[r].jti>> \in revoked

(* The slots that may open a session. *)
Openers == {r \in Requests : Kinds[r] \cap {"login", "change"} # {}}

(* Logins count the index before they add to it, so several of them may     *)
(* pass the check at once; but the index never lists more sessions than     *)
(* MAX_CONCURRENT_SESSIONS_PER_OFFICER and one for each login beside the    *)
(* one that was checked last, whatever sweeps, logouts and failures come    *)
(* between the check and the SADD (enforce_concurrent_sessions,             *)
(* create_session).                                                         *)
ConcurrencyLimit ==
    MaxSessions > 0 => Cardinality(index) < MaxSessions + Cardinality(Openers)

(* A session leaves the officer's index, where remove_officer_sessions finds *)
(* it, only when it is removed itself - or when a sweep deletes the whole   *)
(* index that had read it before the session was added, which is the one    *)
(* way an open session escapes the next reset.                              *)
IndexLoses == [][\A s \in index \ index' :
    Dead(s)' \/ \E r \in Requests : DeleteSwept(r) /\ s \notin req[r].sweep]_vars

(* A session whose tokens were sent to the client has an expiry as long as  *)
(* it is open: the keys without one that a late refresh recreates and a     *)
(* login that failed half-way leaves behind are never such a session        *)
(* (write_session_metadata, touch_session, update_session_tokens).          *)
KeysExpire == \A s \in Sessions :
    "created" \in session[s].fields /\ (\E n \in 0..MaxAccess : <<s, n>> \in held)
        => session[s].ttl

(* What a late write leaves of a removed session disappears in the end.     *)
RemainsVanish == \A s \in Sessions : Dead(s) ~> ~Exists(s)

-----------------------------------------------------------------------------
(* The promise that the store keeps.  A session is open from its first HSET *)
(* until created_at is gone; a request asks something of it from its        *)
(* arrival until it is accepted, and again while it removes it.             *)
LifeOf(s) == IF s \notin used THEN "unborn" ELSE IF Dead(s) THEN "closed" ELSE "open"

AskOf(step, q) ==
    LET state == CASE step \in {"checkRevoked", "readMeta", "touch", "touchTtl", "loadOfficer"} ->
                         IF q.late THEN "late" ELSE "fit"
                   [] step = "accepted" -> "accepted"
                   [] step \in {"revokeAccess", "revokeRefresh", "deleteHash"} -> "removing"
                   [] step = "unindex" -> "removed"
                   [] OTHER -> "none"
    IN [sid |-> IF state = "none" THEN NoSession ELSE q.sid, state |-> state]

Promise == INSTANCE SessionPromise WITH life <- [s \in Sessions |-> LifeOf(s)],
                                        ask <- [r \in Requests |-> AskOf(pc[r], req[r])]

(* However the commands of logins, refreshes, logouts, sweeps, expiries and *)
(* failing requests interleave, the store behaves as SessionPromise says:   *)
(* no session opens twice, none that was removed is open again, no late     *)
(* request is accepted or closes an open session (get_current_officer,      *)
(* validate_session_activity, invalidate_session).                          *)
KeepsPromise == Promise!Spec
=============================================================================
