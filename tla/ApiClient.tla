------------------------------ MODULE ApiClient ------------------------------
(***************************************************************************)
(* The HTTP client of the frontend (services/api/client.ts) with the       *)
(* session functions that use it (services/domain/auth.service.ts and the  *)
(* hooks useLogin, useLogout and useSession) and the query cache it fills, *)
(* in several tabs of a browser that share its cookies and its disk,       *)
(* against a server that may end a session or let a token expire at any    *)
(* time.                                                                   *)
(*                                                                         *)
(* A call occupies a slot from its start to its settlement.  The promise   *)
(* callbacks that a response sets off run in the step of the response, as  *)
(* the microtasks of the browser do.                                       *)
(***************************************************************************)
EXTENDS Naturals

CONSTANTS
    Tab, Call, TabOf,   \* the tabs, and the slots for calls of each
    Expires,            \* the cookies that may expire
    MaxLogins,          \* bound: logins
    MaxTokens,          \* bound: access tokens of a login in use at a time
    None

ASSUME ClientAssumption ==
    /\ TabOf \in [Call -> Tab]
    /\ Expires \subseteq {"refresh", "session"}
    /\ MaxLogins \in Nat
    /\ MaxTokens \in Nat \ {0}
    /\ None \notin Nat
    /\ None \notin [login : Nat, serial : Nat]

VARIABLES
    live,       \* server: the logins whose session is alive
    good,       \* server: the access tokens it accepts
    issued,     \* server: the logins there have been
    jar,        \* the cookies, shared by the tabs
    page,       \* per tab: the login page, or a page behind it
    store,      \* per tab: the login the auth store shows, or None
    memory,     \* per tab: the login whose lists the query cache holds, or None
    disk,       \* likewise the cache in localStorage, shared by the tabs
    refreshing, \* per tab: isRefreshing
    leaving,    \* per tab: window.location.href was set, the page not left yet
    call        \* the calls

server == <<live, good, issued>>
vars == <<live, good, issued, jar, page, store, memory, disk, refreshing, leaving,
          call>>
cache == <<memory, disk>>

Login == 1..MaxLogins

(* Serial 0 stands for the refresh token of the login. *)
Token == [login : Login, serial : 0..MaxTokens]
Access(n, k) == [login |-> n, serial |-> k]

(* A call is a query of a page, one whose cache was cleared meanwhile, the *)
(* query of the session, the two requests of a login, or a logout.         *)
Kind == {"page", "cleared", "session", "login", "profile", "logout"}
Leading == {"refreshing", "granted"}
Outstanding == {"sent", "accepted", "refused", "queued"} \cup Leading
Phase == {"idle", "ok"} \cup Outstanding

Jar == [access : Token \cup {None}, refresh : Login \cup {None},
        session : Login \cup {None}]
EmptyJar == [access |-> None, refresh |-> None, session |-> None]

Record == [kind : Kind, phase : Phase, token : Token \cup {None},
           retried : BOOLEAN, led : Nat, runs : Nat]

TypeOK ==
    /\ live \subseteq Login
    /\ good \subseteq Token
    /\ issued \subseteq Login
    /\ jar \in Jar
    /\ page \in [Tab -> {"login", "app"}]
    /\ store \in [Tab -> Login \cup {None}]
    /\ memory \in [Tab -> Login \cup {None}]
    /\ disk \in Login \cup {None}
    /\ refreshing \in [Tab -> BOOLEAN]
    /\ leaving \in [Tab -> BOOLEAN]
    /\ call \in [Call -> Record]

Rest(k, p) == [kind |-> k, phase |-> p, token |-> None,
               retried |-> FALSE, led |-> 0, runs |-> 0]

Init ==
    /\ live = {}
    /\ good = {}
    /\ issued = {}
    /\ jar = EmptyJar
    /\ page = [t \in Tab |-> "login"]
    /\ store = [t \in Tab |-> None]
    /\ memory = [t \in Tab |-> None]
    /\ disk = None
    /\ refreshing = [t \in Tab |-> FALSE]
    /\ leaving = [t \in Tab |-> FALSE]
    /\ call = [c \in Call |-> Rest("page", "idle")]

Pending(t) == {c \in Call : TabOf[c] = t /\ call[c].phase \in Outstanding}
Queue(t) == {c \in Pending(t) : call[c].phase = "queued"}

(* The request interceptor attaches the access token of the cookie. *)
Request(k) == [Rest(k, "sent") EXCEPT !.token = jar.access]

(* middleware.ts: without the session cookie only the public pages, with   *)
(* it only the others.                                                     *)
Routed == IF jar.session = None THEN "login" ELSE "app"

-----------------------------------------------------------------------------
(* The user and the page *)

(* The login form is disabled while a login is under way, a query is       *)
(* fetched once at a time, a logout may be started from two dialogs.       *)
MayStart(t, k) ==
    CASE k = "page" -> page[t] = "app"
      [] k = "login" -> /\ page[t] = "login"
                        /\ \A d \in Pending(t) : call[d].kind \notin {"login", "profile"}
      [] k = "session" -> \A d \in Pending(t) : call[d].kind # "session"
      [] k = "logout" -> page[t] = "app"
      [] OTHER -> FALSE

Start(c, k) ==
    /\ call[c].phase \notin Outstanding
    /\ call[c] # Rest("login", "ok")
    /\ ~leaving[TabOf[c]]
    /\ MayStart(TabOf[c], k)
    /\ call' = [call EXCEPT ![c] = Request(k)]
    /\ UNCHANGED <<server, jar, page, store, cache, refreshing, leaving>>

Navigate(t) ==
    /\ ~leaving[t]
    /\ page' = [page EXCEPT ![t] = Routed]
    /\ UNCHANGED <<server, jar, store, cache, refreshing, leaving, call>>

(* Leaving a page, or loading it again, forgets everything but cookies. *)
Reload(t) ==
    /\ page' = [page EXCEPT ![t] = Routed]
    /\ store' = [store EXCEPT ![t] = None]
    /\ refreshing' = [refreshing EXCEPT ![t] = FALSE]
    /\ leaving' = [leaving EXCEPT ![t] = FALSE]
    /\ call' = [c \in Call |->
          IF TabOf[c] = t THEN Rest("page", "idle") ELSE call[c]]
    /\ memory' = [memory EXCEPT ![t] = disk]
    /\ UNCHANGED <<server, jar, disk>>

(* ReactQueryProvider writes the cache to the disk some time after it      *)
(* changed; the lists that persister.ts lets through are meant here.       *)
Persist(t) ==
    /\ disk # memory[t]
    /\ disk' = memory[t]
    /\ UNCHANGED <<server, jar, page, store, memory, refreshing, leaving, call>>

-----------------------------------------------------------------------------
(* The server and the network *)

Of(n) == {k \in Token : k.login = n}

(* An answer has no use for the number of the token, only for its login. *)
Execute(c) ==
    call' = [call EXCEPT ![c].phase = "accepted", ![c].runs = @ + 1,
                         ![c].token = Access(@.login, 0)]

Accept(c) ==
    /\ call[c].phase = "sent"
    /\ call[c].kind # "login"
    /\ call[c].token \in good
    /\ Execute(c)
    /\ IF call[c].kind = "logout"
       THEN /\ live' = live \ {call[c].token.login}
            /\ good' = good \ Of(call[c].token.login)
       ELSE UNCHANGED <<live, good>>
    /\ UNCHANGED <<issued, jar, page, store, cache, refreshing, leaving>>

Refuse(c) ==
    /\ call[c].phase = "sent"
    /\ call[c].kind # "login"
    /\ call[c].token \notin good
    /\ call' = [call EXCEPT ![c].phase = "refused", ![c].token = None]
    /\ UNCHANGED <<server, jar, page, store, cache, refreshing, leaving>>

AcceptLogin(c) ==
    /\ call[c].phase = "sent"
    /\ call[c].kind = "login"
    /\ \E n \in Login :
          /\ n \notin issued
          /\ 1..(n - 1) \subseteq issued
          /\ live' = live \cup {n}
          /\ good' = good \cup {Access(n, 1)}
          /\ issued' = issued \cup {n}
          /\ call' = [call EXCEPT ![c].phase = "accepted",
                                  ![c].token = Access(n, 1), ![c].runs = @ + 1]
    /\ UNCHANGED <<jar, page, store, cache, refreshing, leaving>>

(* A token that neither the cookie nor an open call holds is nobody's any  *)
(* more: it is forgotten and its number is given to the next one, so that  *)
(* refreshes may go on for ever.                                           *)
Held == {jar.access} \cup {call[c].token : c \in Call}

Grant(c) ==
    LET n == call[c].token.login IN
    /\ call[c].phase = "refreshing"
    /\ n \in live
    /\ \E i \in 1..MaxTokens :
          LET k == Access(n, i) IN
          /\ k \notin Held
          /\ \A j \in 1..(i - 1) : Access(n, j) \in Held
          /\ good' = (good \cap Held) \cup {k}
          /\ call' = [call EXCEPT ![c].phase = "granted", ![c].token = k]
    /\ UNCHANGED <<live, issued, jar, page, store, cache, refreshing, leaving>>

(* An idle limit, another login, a password reset or an administrator ends *)
(* a session; a token and a cookie expire.  The cookie of the access token *)
(* lives as long as the token: without it a request is refused as with it. *)
EndSession(n) ==
    /\ n \in live
    /\ live' = live \ {n}
    /\ good' = good \ Of(n)
    /\ UNCHANGED <<issued, jar, page, store, cache, refreshing, leaving, call>>

ExpireToken(k) ==
    /\ k \in good \cap Held
    /\ good' = good \ {k}
    /\ UNCHANGED <<live, issued, jar, page, store, cache, refreshing, leaving, call>>

ExpireCookie(name) ==
    /\ jar[name] # None
    /\ jar' = [jar EXCEPT ![name] = None]
    /\ UNCHANGED <<server, page, store, cache, refreshing, leaving, call>>

-----------------------------------------------------------------------------
(* What follows the settlement of a call: useLogout clears the cookies and *)
(* the store whatever the answer; getSession turns every error into "no    *)
(* session"; a login shows the officer once the session was read.          *)

JarAfter(c) == IF call[c].kind = "logout" THEN EmptyJar ELSE jar

(* Mutant: the store gets the number of the token, not that of the login. *)
StoreAfterSwapped(c, ok) ==
    CASE call[c].kind = "logout" -> None
      [] call[c].kind = "session" -> IF ok THEN call[c].token.serial ELSE None
      [] call[c].kind = "profile" /\ ok -> call[c].token.login
      [] OTHER -> store[TabOf[c]]

StoreAfter(c, ok) ==
    CASE call[c].kind = "logout" -> None
      [] call[c].kind = "session" -> IF ok THEN call[c].token.login ELSE None
      [] call[c].kind = "profile" /\ ok -> call[c].token.login
      [] OTHER -> store[TabOf[c]]

(* The query cache after the calls C of a tab have settled: useLogout      *)
(* empties it, the answer of a query goes into it.                         *)
LogsOut(C) == \E c \in C : call[c].kind = "logout"

Cached(t, C, ok) ==
    /\ memory' = [memory EXCEPT ![t] =
          IF LogsOut(C) THEN None
          ELSE IF ok /\ \E c \in C : call[c].kind = "page"
               THEN call[CHOOSE c \in C : TRUE].token.login
               ELSE @]
    /\ disk' = IF LogsOut(C) THEN None ELSE disk

(* The queries in flight when the cache is emptied answer to nobody.       *)
Settled(t, C, r) ==
    call' = [d \in Call |->
        CASE d \in C -> r
          [] d \in Pending(t) \ C /\ LogsOut(C) /\ call[d].kind = "page" ->
               [call[d] EXCEPT !.kind = "cleared"]
          [] OTHER -> call[d]]

Fails(c) ==
    /\ Settled(TabOf[c], {c}, Rest("page", "idle"))
    /\ jar' = JarAfter(c)
    /\ store' = [store EXCEPT ![TabOf[c]] = StoreAfter(c, FALSE)]
    /\ Cached(TabOf[c], {c}, FALSE)
    /\ UNCHANGED <<server, page, refreshing, leaving>>

(* login: the four cookies are set before the session is read. *)
Opened(k) == [access |-> k, refresh |-> k.login, session |-> k.login]

Deliver(c) ==
    /\ call[c].phase = "accepted"
    /\ Settled(TabOf[c], {c},
               Rest(IF call[c].kind = "login" THEN "login" ELSE "page", "ok"))
    /\ jar' = IF call[c].kind = "login" THEN Opened(call[c].token) ELSE JarAfter(c)
    /\ store' = [store EXCEPT ![TabOf[c]] = StoreAfter(c, TRUE)]
    /\ Cached(TabOf[c], {c}, TRUE)
    /\ UNCHANGED <<server, page, refreshing, leaving>>

ReadProfile(c) ==
    /\ call[c] = Rest("login", "ok")
    /\ call' = [call EXCEPT ![c] = Request("profile")]
    /\ UNCHANGED <<server, jar, page, store, cache, refreshing, leaving>>

(* Mutant: a request whose answer was lost is sent again. *)
LoseResending(c) ==
    /\ call[c].phase = "accepted"
    /\ call' = [call EXCEPT ![c].phase = "sent"]
    /\ UNCHANGED <<server, jar, page, store, cache, refreshing, leaving>>

(* No answer, or one that is neither a success nor a 401. *)
Lose(c) ==
    /\ call[c].phase \in {"sent", "accepted", "refused"}
    /\ Fails(c)

-----------------------------------------------------------------------------
(* The response interceptor: a 401 *)

(* The refresh failed, or there is no refresh token: the requests that     *)
(* wait fail with the leader, the cookies go, and the page is left.        *)
ForcedLogout(c) ==
    LET t == TabOf[c]
        C == {c} \cup Queue(t)
    IN
    /\ Settled(t, C, Rest("page", "idle"))
    /\ Cached(t, C, FALSE)
    /\ jar' = EmptyJar
    /\ store' = [store EXCEPT ![t] = None]
    /\ refreshing' = [refreshing EXCEPT ![t] = FALSE]
    /\ leaving' = [leaving EXCEPT ![t] = TRUE]
    /\ UNCHANGED <<server, page>>

GiveUp(c) ==
    /\ call[c].phase = "refused"
    /\ call[c].retried
    /\ Fails(c)

(* Mutant: a request waits although no refresh is under way. *)
WaitForNobody(c) ==
    /\ call[c].phase = "refused"
    /\ ~call[c].retried
    /\ call' = [call EXCEPT ![c].phase = "queued"]
    /\ UNCHANGED <<server, jar, page, store, cache, refreshing, leaving>>

Wait(c) ==
    /\ call[c].phase = "refused"
    /\ ~call[c].retried
    /\ refreshing[TabOf[c]]
    /\ call' = [call EXCEPT ![c].phase = "queued"]
    /\ UNCHANGED <<server, jar, page, store, cache, refreshing, leaving>>

(* Mutant: isRefreshing is not looked at. *)
LeadBeside(c) ==
    /\ call[c].phase = "refused"
    /\ ~call[c].retried
    /\ IF jar.refresh = None
       THEN ForcedLogout(c)
       ELSE /\ call' = [call EXCEPT ![c].phase = "refreshing",
                                   ![c].token = Access(jar.refresh, 0),
                                   ![c].retried = TRUE, ![c].led = @ + 1]
            /\ refreshing' = [refreshing EXCEPT ![TabOf[c]] = TRUE]
            /\ UNCHANGED <<server, jar, page, store, cache, leaving>>

(* Mutant: the request is not marked as tried again. *)
LeadUnmarked(c) ==
    /\ call[c].phase = "refused"
    /\ ~call[c].retried
    /\ ~refreshing[TabOf[c]]
    /\ IF jar.refresh = None
       THEN ForcedLogout(c)
       ELSE /\ call' = [call EXCEPT ![c].phase = "refreshing",
                                   ![c].token = Access(jar.refresh, 0),
                                   ![c].led = @ + 1]
            /\ refreshing' = [refreshing EXCEPT ![TabOf[c]] = TRUE]
            /\ UNCHANGED <<server, jar, page, store, cache, leaving>>

Lead(c) ==
    /\ call[c].phase = "refused"
    /\ ~call[c].retried
    /\ ~refreshing[TabOf[c]]
    /\ IF jar.refresh = None
       THEN ForcedLogout(c)
       ELSE /\ call' = [call EXCEPT ![c].phase = "refreshing",
                                   ![c].token = Access(jar.refresh, 0),
                                   ![c].retried = TRUE, ![c].led = @ + 1]
            /\ refreshing' = [refreshing EXCEPT ![TabOf[c]] = TRUE]
            /\ UNCHANGED <<server, jar, page, store, cache, leaving>>

(* Mutant: the requests that waited are forgotten. *)
RefreshedAlone(c) ==
    /\ call[c].phase = "granted"
    /\ jar' = [jar EXCEPT !.access = call[c].token]
    /\ call' = [call EXCEPT ![c].phase = "sent"]
    /\ refreshing' = [refreshing EXCEPT ![TabOf[c]] = FALSE]
    /\ UNCHANGED <<server, page, store, cache, leaving>>

(* The new token is stored, and the leader and the requests that waited    *)
(* are sent again with it.                                                 *)
Refreshed(c) ==
    LET t == TabOf[c] IN
    /\ call[c].phase = "granted"
    /\ jar' = [jar EXCEPT !.access = call[c].token]
    /\ call' = [d \in Call |->
          IF d = c \/ d \in Queue(t)
          THEN [call[d] EXCEPT !.phase = "sent", !.token = call[c].token]
          ELSE call[d]]
    /\ refreshing' = [refreshing EXCEPT ![t] = FALSE]
    /\ UNCHANGED <<server, page, store, cache, leaving>>

RefreshFails(c) ==
    /\ call[c].phase \in Leading
    /\ ForcedLogout(c)

-----------------------------------------------------------------------------
Answered(c) ==
    \/ Accept(c) \/ Refuse(c) \/ AcceptLogin(c) \/ Deliver(c) \/ Lose(c)
    \/ GiveUp(c) \/ Wait(c) \/ Lead(c)
    \/ Grant(c) \/ Refreshed(c) \/ RefreshFails(c)

Happens ==
    \/ \E n \in Login : EndSession(n)
    \/ \E k \in good : ExpireToken(k)
    \/ \E name \in Expires : ExpireCookie(name)

Next ==
    \/ \E c \in Call, k \in Kind : Start(c, k)
    \/ \E c \in Call : ReadProfile(c) \/ Answered(c)
    \/ \E t \in Tab : Navigate(t) \/ Reload(t) \/ Persist(t)
    \/ Happens

Spec == Init /\ [][Next]_vars

(* Every request is answered or times out after 30 seconds, the callbacks  *)
(* of an answer run, and a page whose address was changed is left.         *)
Fairness ==
    /\ \A c \in Call : WF_vars(Answered(c)) /\ WF_vars(ReadProfile(c))
    /\ \A t \in Tab : WF_vars(leaving[t] /\ Reload(t))

FairSpec == Spec /\ Fairness

-----------------------------------------------------------------------------
(* Properties *)

(* client.ts:112-196, Frontend_Guide.md:176: in each tab one refresh is     *)
(* under way at most, and isRefreshing tells of it.                        *)
SingleFlight ==
    \A t \in Tab :
       LET leaders == {c \in Pending(t) : call[c].phase \in Leading} IN
       /\ \A c, d \in leaders : c = d
       /\ refreshing[t] <=> leaders # {}

(* client.ts:157-165: a request waits in the queue only while a refresh is *)
(* under way that will take it out again.                                  *)
QueueServed == \A t \in Tab : Queue(t) # {} => refreshing[t]

(* client.ts:153-165, Frontend_Guide.md:3878: no request asks for a second *)
(* refresh, however often it waited for those of others.                   *)
RefreshOnce == \A c \in Call : call[c].led <= 1

(* What is left of a call outside of the client. *)
StatusOf(r) ==
    CASE r.phase \notin Outstanding -> r.phase
      [] r.phase \in Outstanding /\ r.runs = 0 -> "pending"
      [] r.phase \in Outstanding /\ r.runs = 1 -> "executed"
      [] OTHER -> "repeated"

Promise == INSTANCE RequestPromise WITH status <- [c \in Call |-> StatusOf(call[c])]

(* The interceptors keep the promise of a request: whatever is queued and  *)
(* sent again, the server executes it at most once, and only an executed   *)
(* request succeeds.                                                       *)
KeepsPromise == Promise!Spec

(* client.ts:126-219: every request settles, whoever leads the refreshes   *)
(* it waits for and however they end, if from some time on no token that   *)
(* somebody holds ceases to be good.  While tokens go on to lapse, a       *)
(* request may wait for one refresh after another (157-165 do not mark it  *)
(* when it waits), and never settle.                                       *)
CallsSettle == <>[][good \cap Held \subseteq good']_vars => Promise!Settles

(* ccms-frontend/Instruction.md:1865, 1939: the query cache shows no       *)
(* officer the lists that another officer read on the same device; here    *)
(* every login is that of another officer.                                 *)
OwnLists ==
    \A t \in Tab : page[t] = "app" /\ jar.session # None /\ memory[t] # None
                    => memory[t] = jar.session
=============================================================================
