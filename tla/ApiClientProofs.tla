--------------------------- MODULE ApiClientProofs ---------------------------
(* Proofs about ApiClient, for every set of tabs and calls.                 *)
EXTENDS ApiClient, TLAPS

(* The token of an accepted call is the one the server accepted. *)
Accepted == \A c \in Call : call[c].phase = "accepted" => call[c].token \in Token

TypeInv == TypeOK /\ Accepted

-----------------------------------------------------------------------------
LEMMA RestType ==
    ASSUME NEW k \in Kind, NEW p \in {"idle", "ok"}
    PROVE  /\ Rest(k, p) \in Record
           /\ Rest(k, p).phase = p /\ Rest(k, p).retried = FALSE
           /\ Rest(k, p).led = 0 /\ Rest(k, p).runs = 0
BY DEF Rest, Record, Phase

LEMMA RequestType ==
    ASSUME NEW k \in Kind, jar \in Jar
    PROVE  /\ Request(k) \in Record
           /\ Request(k).phase = "sent" /\ Request(k).retried = FALSE
           /\ Request(k).led = 0 /\ Request(k).runs = 0
BY DEF Request, Rest, Record, Phase, Outstanding, Jar

(* How a record is changed by a step, and what the other fields keep. *)
LEMMA RecordUpdates ==
    ASSUME NEW r \in Record
    PROVE  /\ \A p \in Phase :
                /\ [r EXCEPT !.phase = p] \in Record
                /\ [r EXCEPT !.phase = p].phase = p
                /\ [r EXCEPT !.phase = p].retried = r.retried
                /\ [r EXCEPT !.phase = p].led = r.led
                /\ [r EXCEPT !.phase = p].runs = r.runs
                /\ [r EXCEPT !.phase = p].token = r.token
           /\ \A p \in Phase, k \in Token :
                /\ [r EXCEPT !.phase = p, !.token = k] \in Record
                /\ [r EXCEPT !.phase = p, !.token = k].phase = p
                /\ [r EXCEPT !.phase = p, !.token = k].token = k
                /\ [r EXCEPT !.phase = p, !.token = k].retried = r.retried
                /\ [r EXCEPT !.phase = p, !.token = k].led = r.led
                /\ [r EXCEPT !.phase = p, !.token = k].runs = r.runs
           /\ /\ [r EXCEPT !.kind = "cleared"] \in Record
              /\ [r EXCEPT !.kind = "cleared"].phase = r.phase
              /\ [r EXCEPT !.kind = "cleared"].token = r.token
              /\ [r EXCEPT !.kind = "cleared"].retried = r.retried
              /\ [r EXCEPT !.kind = "cleared"].led = r.led
              /\ [r EXCEPT !.kind = "cleared"].runs = r.runs
BY DEF Record, Kind

LEMMA CountedUpdate ==
    ASSUME NEW r \in Record, NEW k \in Token
    PROVE  LET q == [r EXCEPT !.phase = "accepted", !.runs = @ + 1, !.token = k] IN
           /\ q \in Record /\ q.phase = "accepted" /\ q.token = k
           /\ q.retried = r.retried /\ q.led = r.led /\ q.runs = r.runs + 1
<1>. r.runs + 1 \in Nat /\ "accepted" \in Phase
  BY DEF Record, Phase, Outstanding
<1>. QED
  BY DEF Record

LEMMA PhaseMembers ==
    /\ \A p \in {"sent", "accepted", "refused", "queued", "refreshing", "granted"} :
          p \in Phase /\ p \in Outstanding
    /\ \A p \in {"idle", "ok"} : p \in Phase /\ p \notin Outstanding
BY DEF Phase, Outstanding, Leading

LEMMA AccessType ==
    ASSUME NEW n \in Login, NEW k \in 0..MaxTokens
    PROVE  Access(n, k) \in Token /\ Access(n, k).login = n
BY DEF Access, Token
-----------------------------------------------------------------------------
(* The shapes of a step, in what they do to the calls.  A call that is only *)
(* no longer answered to, because the cache was emptied, is alike.          *)

Alike(d) == /\ call'[d].phase = call[d].phase
            /\ call'[d].retried = call[d].retried
            /\ call'[d].led = call[d].led
            /\ call'[d].runs = call[d].runs

Others(C) == \A d \in Call \ C : Alike(d)

Is(d, phase, retried, led, runs) ==
    /\ call'[d].phase = phase /\ call'[d].retried = retried
    /\ call'[d].led = led /\ call'[d].runs = runs

Still == Others({}) /\ UNCHANGED refreshing

Begins(c) == /\ call[c].phase \notin Outstanding
             /\ Is(c, "sent", FALSE, 0, 0)
             /\ Others({c}) /\ UNCHANGED refreshing

Executes(c) == /\ call[c].phase = "sent"
               /\ Is(c, "accepted", call[c].retried, call[c].led, call[c].runs + 1)
               /\ Others({c}) /\ UNCHANGED refreshing

Refused(c) == /\ call[c].phase = "sent"
              /\ Is(c, "refused", call[c].retried, call[c].led, call[c].runs)
              /\ Others({c}) /\ UNCHANGED refreshing

Waits(c) == /\ call[c].phase = "refused" /\ refreshing[TabOf[c]]
            /\ Is(c, "queued", call[c].retried, call[c].led, call[c].runs)
            /\ Others({c}) /\ UNCHANGED refreshing

Leads(c) == /\ call[c].phase = "refused"
            /\ ~call[c].retried /\ ~refreshing[TabOf[c]]
            /\ Is(c, "refreshing", TRUE, call[c].led + 1, call[c].runs)
            /\ Others({c})
            /\ refreshing' = [refreshing EXCEPT ![TabOf[c]] = TRUE]

Granted(c) == /\ call[c].phase = "refreshing"
              /\ Is(c, "granted", call[c].retried, call[c].led, call[c].runs)
              /\ Others({c}) /\ UNCHANGED refreshing

Resends(c) == /\ call[c].phase = "granted"
              /\ \A d \in {c} \cup Queue(TabOf[c]) :
                    Is(d, "sent", call[d].retried, call[d].led, call[d].runs)
              /\ Others({c} \cup Queue(TabOf[c]))
              /\ refreshing' = [refreshing EXCEPT ![TabOf[c]] = FALSE]

Succeeds(c) == /\ call[c].phase = "accepted"
               /\ Is(c, "ok", FALSE, 0, 0)
               /\ Others({c}) /\ UNCHANGED refreshing

Drops(c) == /\ call[c].phase \in {"sent", "accepted", "refused"}
            /\ Is(c, "idle", FALSE, 0, 0)
            /\ Others({c}) /\ UNCHANGED refreshing

Ends(c) == /\ \/ call[c].phase = "refused" /\ ~refreshing[TabOf[c]]
              \/ call[c].phase \in Leading
           /\ \A d \in {c} \cup Queue(TabOf[c]) : Is(d, "idle", FALSE, 0, 0)
           /\ Others({c} \cup Queue(TabOf[c]))
           /\ refreshing' = [refreshing EXCEPT ![TabOf[c]] = FALSE]

Reloads(t) == LET C == {c \in Call : TabOf[c] = t} IN
              /\ \A d \in C : Is(d, "idle", FALSE, 0, 0)
              /\ Others(C)
              /\ refreshing' = [refreshing EXCEPT ![t] = FALSE]

CallShape(c) ==
    \/ Begins(c) \/ Executes(c) \/ Refused(c) \/ Waits(c) \/ Leads(c) \/ Granted(c)
    \/ Resends(c) \/ Succeeds(c) \/ Drops(c) \/ Ends(c)

Shape == Still \/ (\E c \in Call : CallShape(c)) \/ (\E t \in Tab : Reloads(t))

(* A settlement leaves the calls of its set at rest, the others alike.      *)
LEMMA SettledShape ==
    ASSUME TypeOK, NEW t \in Tab, NEW C \in SUBSET Call,
           NEW k \in Kind, NEW p \in {"idle", "ok"}, Settled(t, C, Rest(k, p))
    PROVE  /\ call' \in [Call -> Record]
           /\ \A d \in C : Is(d, p, FALSE, 0, 0)
           /\ \A d \in Call \ C : Alike(d) /\ call'[d].token = call[d].token
<1>1. Rest(k, p) \in Record
  BY RestType
<1>2. \A d \in Call : call[d] \in Record
  BY DEF TypeOK
<1>3. \A d \in C : call'[d] = Rest(k, p)
  BY DEF Settled
<1>4. \A d \in Call \ C : call'[d] = call[d] \/ call'[d] = [call[d] EXCEPT !.kind = "cleared"]
  BY DEF Settled
<1>5. \A d \in Call \ C : call'[d] \in Record /\ Alike(d) /\ call'[d].token = call[d].token
  <2>. TAKE d \in Call \ C
  <2>1. CASE call'[d] = call[d]
    BY <2>1, <1>2 DEF Alike
  <2>2. CASE call'[d] = [call[d] EXCEPT !.kind = "cleared"]
    <3>1. PICK r \in Record : r = call[d]
      BY <1>2
    <3>. QED
      BY <3>1, <2>2, RecordUpdates DEF Alike
  <2>. QED
    BY <2>1, <2>2, <1>4
<1>6. call' = [d \in Call |-> call'[d]]
  BY DEF Settled
<1>7. \A d \in C : Is(d, p, FALSE, 0, 0)
  BY <1>3, RestType DEF Is
<1>8. \A d \in Call : call'[d] \in Record
  BY <1>1, <1>3, <1>5
<1>. QED
  BY <1>5, <1>6, <1>7, <1>8
(* One call moves to another phase, with the token it has or a new one.     *)
LEMMA MovedType ==
    ASSUME TypeInv, NEW c \in Call, NEW r \in Record,
           call' = [call EXCEPT ![c] = r],
           r.phase = "accepted" => r.token \in Token
    PROVE  /\ call' \in [Call -> Record] /\ Accepted'
           /\ call'[c] = r /\ Others({c})
BY DEF TypeInv, TypeOK, Accepted, Others, Alike

LEMMA FailsShape ==
    ASSUME TypeInv, NEW c \in Call, Fails(c), call[c].phase \in {"sent", "accepted", "refused"}
    PROVE  TypeInv' /\ Drops(c)
<1>1. /\ call' \in [Call -> Record]
      /\ Is(c, "idle", FALSE, 0, 0)
      /\ \A d \in Call \ {c} : Alike(d) /\ call'[d].token = call[d].token
  <2>1. Settled(TabOf[c], {c}, Rest("page", "idle")) /\ "page" \in Kind
    BY DEF Fails, Kind
  <2>2. TabOf[c] \in Tab /\ TypeOK /\ {c} \in SUBSET Call
    BY ClientAssumption DEF TypeInv
  <2>3. \A d \in {c} : Is(d, "idle", FALSE, 0, 0)
    BY <2>1, <2>2, SettledShape
  <2>. QED
    BY <2>1, <2>2, <2>3, SettledShape
<1>2. TabOf[c] \in Tab
  BY ClientAssumption
<1>3. jar' \in Jar
  BY DEF Fails, JarAfter, TypeInv, TypeOK, Jar, EmptyJar
<1>4. store' \in [Tab -> Login \cup {None}]
  BY <1>2 DEF Fails, StoreAfter, TypeInv, TypeOK
<1>5. memory' \in [Tab -> Login \cup {None}] /\ disk' \in Login \cup {None}
  BY <1>2 DEF Fails, Cached, TypeInv, TypeOK
<1>6. Accepted'
  BY <1>1 DEF Accepted, TypeInv, Is, Alike
<1>7. Others({c}) /\ UNCHANGED refreshing
  BY <1>1 DEF Others, Fails
<1>8. UNCHANGED <<live, good, issued, page, refreshing, leaving>>
  BY DEF Fails, server
<1>. QED
  BY <1>1, <1>3, <1>4, <1>5, <1>6, <1>7, <1>8 DEF TypeInv, TypeOK, Drops

LEMMA DeliverShape ==
    ASSUME TypeInv, NEW c \in Call, Deliver(c)
    PROVE  TypeInv' /\ Succeeds(c)
<1>. DEFINE k == IF call[c].kind = "login" THEN "login" ELSE "page"
<1>1. /\ call' \in [Call -> Record]
      /\ Is(c, "ok", FALSE, 0, 0)
      /\ \A d \in Call \ {c} : Alike(d) /\ call'[d].token = call[d].token
  <2>1. Settled(TabOf[c], {c}, Rest(k, "ok")) /\ k \in Kind
    BY DEF Deliver, Kind
  <2>2. TabOf[c] \in Tab /\ TypeOK /\ {c} \in SUBSET Call
    BY ClientAssumption DEF TypeInv
  <2>. HIDE DEF k
  <2>3. \A d \in {c} : Is(d, "ok", FALSE, 0, 0)
    BY <2>1, <2>2, SettledShape
  <2>. QED
    BY <2>1, <2>2, <2>3, SettledShape
<1>2. TabOf[c] \in Tab
  BY ClientAssumption
<1>3. call[c].token \in Token /\ call[c].token.login \in Login
  BY DEF Deliver, TypeInv, Accepted, Token
<1>4. jar' \in Jar
  BY <1>3 DEF Deliver, JarAfter, Opened, TypeInv, TypeOK, Jar, EmptyJar
<1>5. store' \in [Tab -> Login \cup {None}]
  BY <1>2, <1>3 DEF Deliver, StoreAfter, TypeInv, TypeOK
<1>6. memory' \in [Tab -> Login \cup {None}] /\ disk' \in Login \cup {None}
  <2>1. (CHOOSE d \in {c} : TRUE) = c
    OBVIOUS
  <2>. QED
    BY <1>2, <1>3, <2>1 DEF Deliver, Cached, TypeInv, TypeOK
<1>7. Accepted'
  BY <1>1 DEF Accepted, TypeInv, Is, Alike
<1>8. UNCHANGED <<live, good, issued, page, refreshing, leaving>>
  BY DEF Deliver, server
<1>9. Succeeds(c)
  BY <1>1, <1>8 DEF Succeeds, Others, Deliver
<1>. QED
  BY <1>1, <1>4, <1>5, <1>6, <1>7, <1>8, <1>9 DEF TypeInv, TypeOK

LEMMA ForcedShape ==
    ASSUME TypeInv, NEW c \in Call, ForcedLogout(c),
           \/ call[c].phase = "refused" /\ ~refreshing[TabOf[c]]
           \/ call[c].phase \in Leading
    PROVE  TypeInv' /\ Ends(c)
<1>. DEFINE t == TabOf[c]
<1>. DEFINE C == {c} \cup Queue(t)
<1>1. t \in Tab /\ C \in SUBSET Call
  BY ClientAssumption DEF Queue, Pending
<1>2. Settled(t, C, Rest("page", "idle")) /\ Cached(t, C, FALSE)
  BY DEF ForcedLogout
<1>3. /\ call' \in [Call -> Record]
      /\ \A d \in C : Is(d, "idle", FALSE, 0, 0)
      /\ \A d \in Call \ C : Alike(d) /\ call'[d].token = call[d].token
  <2>. HIDE DEF t, C
  <2>. QED
    BY <1>1, <1>2, SettledShape DEF TypeInv, Kind
<1>4. jar' \in Jar /\ store' \in [Tab -> Login \cup {None}]
  BY DEF ForcedLogout, TypeInv, TypeOK, Jar, EmptyJar
<1>5. memory' \in [Tab -> Login \cup {None}] /\ disk' \in Login \cup {None}
  BY <1>2 DEF Cached, TypeInv, TypeOK
<1>6. Accepted'
  BY <1>3 DEF Accepted, TypeInv, Is, Alike
<1>7. /\ refreshing' = [refreshing EXCEPT ![t] = FALSE]
      /\ leaving' \in [Tab -> BOOLEAN] /\ refreshing' \in [Tab -> BOOLEAN]
      /\ UNCHANGED <<live, good, issued, page>>
  BY DEF ForcedLogout, server, TypeInv, TypeOK
<1>8. Ends(c)
  BY <1>3, <1>7 DEF Ends, Others
<1>. QED
  BY <1>3, <1>4, <1>5, <1>6, <1>7, <1>8 DEF TypeInv, TypeOK
LEMMA InitType == Init => TypeInv
BY ClientAssumption, RestType DEF Init, TypeInv, TypeOK, Accepted, Jar, EmptyJar, Kind

LEMMA StillShape ==
    ASSUME TypeInv, UNCHANGED <<call, refreshing>>
    PROVE  Still /\ Accepted'
BY DEF Still, Others, Alike, TypeInv, Accepted

(* Every step keeps the types and has one of the shapes. *)
LEMMA StepShape ==
    ASSUME TypeInv, [Next]_vars
    PROVE  TypeInv' /\ Shape
<1>. USE DEF cache, server
<1>records. \A c \in Call : call[c] \in Record /\ TabOf[c] \in Tab
  BY ClientAssumption DEF TypeInv, TypeOK
<1>1. ASSUME NEW c \in Call, NEW k \in Kind, Start(c, k) PROVE TypeInv' /\ Begins(c)
  <2>1. call' = [call EXCEPT ![c] = Request(k)]
    BY <1>1 DEF Start
  <2>2. Request(k) \in Record /\ Is(c, "sent", FALSE, 0, 0)
    BY <2>1, RequestType DEF TypeInv, TypeOK, Is
  <2>3. call' \in [Call -> Record] /\ Accepted' /\ Others({c})
    BY <2>1, <2>2, MovedType, RequestType DEF TypeInv, TypeOK
  <2>. QED
    BY <1>1, <2>2, <2>3 DEF Start, Begins, TypeInv, TypeOK
<1>2. ASSUME NEW c \in Call, ReadProfile(c) PROVE TypeInv' /\ Begins(c)
  <2>1. call' = [call EXCEPT ![c] = Request("profile")] /\ "profile" \in Kind
    BY <1>2 DEF ReadProfile, Kind
  <2>2. Request("profile") \in Record /\ Is(c, "sent", FALSE, 0, 0)
    BY <2>1, RequestType DEF TypeInv, TypeOK, Is
  <2>3. call' \in [Call -> Record] /\ Accepted' /\ Others({c})
    BY <2>1, <2>2, MovedType, RequestType DEF TypeInv, TypeOK
  <2>4. call[c].phase \notin Outstanding
    BY <1>2, RestType, PhaseMembers DEF ReadProfile, Kind
  <2>. QED
    BY <1>2, <2>2, <2>3, <2>4 DEF ReadProfile, Begins, TypeInv, TypeOK
<1>3. ASSUME NEW c \in Call, Accept(c) PROVE TypeInv' /\ Executes(c)
  <2>. DEFINE k == Access(call[c].token.login, 0)
  <2>. DEFINE r == [call[c] EXCEPT !.phase = "accepted", !.runs = @ + 1, !.token = k]
  <2>0. k \in Token
    <3>1. call[c].token \in Token
      BY <1>3 DEF Accept, TypeInv, TypeOK
    <3>2. call[c].token.login \in Login /\ 0 \in 0..MaxTokens
      BY <3>1, ClientAssumption DEF Token
    <3>. QED
      BY <3>2, AccessType
  <2>2. call' = [call EXCEPT ![c] = r]
    BY <1>3, <1>records DEF Accept, Execute, Record
  <2>. HIDE DEF k
  <2>1. r \in Record /\ r.phase = "accepted" /\ r.token = k
        /\ r.retried = call[c].retried /\ r.led = call[c].led /\ r.runs = call[c].runs + 1
    BY <1>records, <2>0, CountedUpdate
  <2>. HIDE DEF r
  <2>4. call' \in [Call -> Record] /\ Accepted' /\ call'[c] = r /\ Others({c})
    BY <2>0, <2>1, <2>2, MovedType
  <2>5. live' \subseteq Login /\ good' \subseteq Token
    BY <1>3 DEF Accept, TypeInv, TypeOK
  <2>. QED
    BY <1>3, <2>1, <2>4, <2>5 DEF Accept, Executes, Is, TypeInv, TypeOK
<1>4. ASSUME NEW c \in Call, Refuse(c) PROVE TypeInv' /\ Refused(c)
  <2>. DEFINE r == [call[c] EXCEPT !.phase = "refused", !.token = None]
  <2>1. r \in Record /\ r.phase = "refused"
        /\ r.retried = call[c].retried /\ r.led = call[c].led /\ r.runs = call[c].runs
    BY <1>records, PhaseMembers DEF Record
  <2>2. call' = [call EXCEPT ![c] = r]
    BY <1>4 DEF Refuse
  <2>. HIDE DEF r
  <2>3. call' \in [Call -> Record] /\ Accepted' /\ call'[c] = r /\ Others({c})
    BY <2>1, <2>2, MovedType
  <2>. QED
    BY <1>4, <2>1, <2>3 DEF Refuse, Refused, Is, TypeInv, TypeOK
<1>5. ASSUME NEW c \in Call, AcceptLogin(c) PROVE TypeInv' /\ Executes(c)
  <2>1. PICK n \in Login :
          /\ live' = live \cup {n}
          /\ good' = good \cup {Access(n, 1)}
          /\ issued' = issued \cup {n}
          /\ call' = [call EXCEPT ![c].phase = "accepted",
                                  ![c].token = Access(n, 1), ![c].runs = @ + 1]
    BY <1>5 DEF AcceptLogin
  <2>2. Access(n, 1) \in Token /\ 1 \in 0..MaxTokens
    BY ClientAssumption, AccessType
  <2>. DEFINE r == [call[c] EXCEPT !.phase = "accepted", !.token = Access(n, 1),
                                   !.runs = @ + 1]
  <2>3. r \in Record /\ r.phase = "accepted" /\ r.token = Access(n, 1)
        /\ r.retried = call[c].retried /\ r.led = call[c].led /\ r.runs = call[c].runs + 1
    <3>1. call[c] \in Record /\ call[c].runs + 1 \in Nat
      BY <1>records DEF Record
    <3>. QED
      BY <2>2, <3>1, PhaseMembers DEF Record
  <2>4. call' = [call EXCEPT ![c] = r]
    BY <2>1, <1>records DEF Record
  <2>. HIDE DEF r
  <2>5. call' \in [Call -> Record] /\ Accepted' /\ call'[c] = r /\ Others({c})
    BY <2>2, <2>3, <2>4, MovedType
  <2>6. live' \subseteq Login /\ good' \subseteq Token /\ issued' \subseteq Login
    BY <2>1, <2>2 DEF TypeInv, TypeOK
  <2>. QED
    BY <1>5, <2>3, <2>5, <2>6 DEF AcceptLogin, Executes, Is, TypeInv, TypeOK
<1>6. ASSUME NEW c \in Call, Grant(c) PROVE TypeInv' /\ Granted(c)
  <2>0. call[c].token.login \in Login
    BY <1>6 DEF Grant, TypeInv, TypeOK
  <2>1. PICK k \in Token :
          /\ good' = (good \cap Held) \cup {k}
          /\ call' = [call EXCEPT ![c].phase = "granted", ![c].token = k]
    <3>1. \A i \in 1..MaxTokens : i \in 0..MaxTokens
      BY ClientAssumption
    <3>2. \A i \in 1..MaxTokens : Access(call[c].token.login, i) \in Token
      BY <2>0, <3>1, AccessType
    <3>. QED
      BY <1>6, <3>2 DEF Grant
  <2>. DEFINE r == [call[c] EXCEPT !.phase = "granted", !.token = k]
  <2>2. k \in Token
    OBVIOUS
  <2>3. call' = [call EXCEPT ![c] = r]
    BY <2>1, <1>records DEF Record
  <2>4. /\ live' = live /\ good' \subseteq Token
        /\ UNCHANGED <<issued, jar, page, store, cache, refreshing, leaving>>
    BY <1>6, <2>1 DEF Grant, TypeInv, TypeOK
  <2>5. r \in Record /\ r.phase = "granted"
        /\ r.retried = call[c].retried /\ r.led = call[c].led /\ r.runs = call[c].runs
    BY <1>records, <2>2, PhaseMembers DEF Record
  <2>. HIDE DEF r
  <2>6. call' \in [Call -> Record] /\ Accepted' /\ call'[c] = r /\ Others({c})
    BY <2>3, <2>5, MovedType
  <2>. QED
    BY <1>6, <2>4, <2>5, <2>6 DEF Grant, Granted, Is, TypeInv, TypeOK
<1>7. ASSUME NEW c \in Call, Wait(c) PROVE TypeInv' /\ Waits(c)
  <2>. DEFINE r == [call[c] EXCEPT !.phase = "queued"]
  <2>1. r \in Record /\ r.phase = "queued"
        /\ r.retried = call[c].retried /\ r.led = call[c].led /\ r.runs = call[c].runs
    BY <1>records, PhaseMembers DEF Record
  <2>2. call' = [call EXCEPT ![c] = r]
    BY <1>7 DEF Wait
  <2>. HIDE DEF r
  <2>3. call' \in [Call -> Record] /\ Accepted' /\ call'[c] = r /\ Others({c})
    BY <2>1, <2>2, MovedType
  <2>. QED
    BY <1>7, <2>1, <2>3 DEF Wait, Waits, Is, TypeInv, TypeOK
<1>8. ASSUME NEW c \in Call, Lead(c) PROVE TypeInv' /\ (Leads(c) \/ Ends(c))
  <2>1. CASE jar.refresh = None
    BY <1>8, <2>1, ForcedShape DEF Lead
  <2>2. CASE jar.refresh # None
    <3>. DEFINE k == Access(jar.refresh, 0)
    <3>. DEFINE r == [call[c] EXCEPT !.phase = "refreshing", !.token = k,
                                     !.retried = TRUE, !.led = @ + 1]
    <3>1. jar.refresh \in Login /\ 0 \in 0..MaxTokens
      BY <2>2, ClientAssumption DEF TypeInv, TypeOK, Jar
    <3>2. k \in Token
      BY <3>1, AccessType
    <3>3. call' = [call EXCEPT ![c] = r]
      BY <1>8, <2>2, <1>records DEF Lead, Record
    <3>. HIDE DEF k
    <3>4. r \in Record /\ r.phase = "refreshing" /\ r.retried = TRUE
          /\ r.led = call[c].led + 1 /\ r.runs = call[c].runs
      <4>1. call[c] \in Record /\ call[c].led + 1 \in Nat
        BY <1>records DEF Record
      <4>. QED
        BY <4>1, <3>2, PhaseMembers DEF Record
    <3>. HIDE DEF r
    <3>5. call' \in [Call -> Record] /\ Accepted' /\ call'[c] = r /\ Others({c})
      BY <3>3, <3>4, MovedType
    <3>. QED
      BY <1>8, <1>records, <2>2, <3>4, <3>5 DEF Lead, Leads, Is, TypeInv, TypeOK
  <2>. QED
    BY <2>1, <2>2
<1>9. ASSUME NEW c \in Call, Refreshed(c) PROVE TypeInv' /\ Resends(c)
  <2>. DEFINE C == {c} \cup Queue(TabOf[c])
  <2>. DEFINE k == call[c].token
  <2>1. /\ call[c].phase = "granted"
        /\ jar' = [jar EXCEPT !.access = k]
        /\ call' = [d \in Call |-> IF d \in C THEN [call[d] EXCEPT !.phase = "sent", !.token = k]
                                   ELSE call[d]]
        /\ refreshing' = [refreshing EXCEPT ![TabOf[c]] = FALSE]
        /\ UNCHANGED <<server, page, store, cache, leaving>>
    BY <1>9 DEF Refreshed
  <2>2. k \in Token \cup {None}
    BY <1>records DEF Record
  <2>3. jar' \in Jar
    BY <2>1, <2>2 DEF TypeInv, TypeOK, Jar
  <2>. HIDE DEF C, k
  <2>4. ASSUME NEW r \in Record
        PROVE  LET s == [r EXCEPT !.phase = "sent", !.token = k] IN
               /\ s \in Record /\ s.phase = "sent" /\ s.retried = r.retried
               /\ s.led = r.led /\ s.runs = r.runs
    BY <2>2, PhaseMembers DEF Record
  <2>5. \A d \in C \cap Call : /\ call'[d] \in Record
                            /\ Is(d, "sent", call[d].retried, call[d].led, call[d].runs)
    BY <2>1, <2>4, <1>records DEF Is
  <2>6. \A d \in Call \ C : call'[d] = call[d]
    BY <2>1
  <2>7. call' \in [Call -> Record] /\ Others(C)
    BY <2>1, <2>5, <2>6, <1>records DEF Others, Alike
  <2>8. Accepted'
    BY <2>5, <2>6 DEF Accepted, TypeInv, Is
  <2>9. C \in SUBSET Call
    BY DEF C, Queue, Pending
  <2>10. Resends(c)
    BY <2>1, <2>5, <2>7, <2>9 DEF Resends, C
  <2>. QED
    BY <2>1, <2>3, <2>7, <2>8, <2>10 DEF TypeInv, TypeOK
<1>10. ASSUME NEW t \in Tab, Reload(t) PROVE TypeInv' /\ Reloads(t)
  <2>1. Rest("page", "idle") \in Record /\ Rest("page", "idle").phase = "idle"
        /\ Rest("page", "idle").retried = FALSE /\ Rest("page", "idle").led = 0
        /\ Rest("page", "idle").runs = 0
    BY RestType DEF Kind
  <2>2. call' \in [Call -> Record]
    BY <1>10, <2>1, <1>records DEF Reload
  <2>3. Accepted'
    BY <1>10, <2>1 DEF Reload, Accepted, TypeInv
  <2>4. Reloads(t)
    BY <1>10, <2>1 DEF Reload, Reloads, Is, Others, Alike
  <2>. QED
    BY <1>10, <2>2, <2>3, <2>4 DEF Reload, Routed, TypeInv, TypeOK
<1>11. ASSUME NEW name \in Expires, ExpireCookie(name) PROVE jar' \in Jar
  <2>1. CASE name = "refresh"
    BY <1>11, <2>1 DEF ExpireCookie, Jar, TypeInv, TypeOK
  <2>2. CASE name = "session"
    BY <1>11, <2>2 DEF ExpireCookie, Jar, TypeInv, TypeOK
  <2>. QED
    BY <2>1, <2>2, ClientAssumption
<1>12. CASE \E name \in Expires : ExpireCookie(name)
  <2>1. jar' \in Jar /\ UNCHANGED <<server, page, store, cache, refreshing, leaving, call>>
    BY <1>11, <1>12 DEF ExpireCookie
  <2>. QED
    BY <2>1, StillShape DEF TypeInv, TypeOK, Shape
<1>13. ASSUME NEW n \in Login, EndSession(n) PROVE TypeInv' /\ Still
  <2>1. UNCHANGED <<call, refreshing>>
    BY <1>13 DEF EndSession
  <2>. QED
    BY <1>13, <2>1, StillShape DEF EndSession, TypeInv, TypeOK
<1>14. ASSUME NEW k \in good, ExpireToken(k) PROVE TypeInv' /\ Still
  <2>1. UNCHANGED <<call, refreshing>>
    BY <1>14 DEF ExpireToken
  <2>. QED
    BY <1>14, <2>1, StillShape DEF ExpireToken, TypeInv, TypeOK
<1>15. ASSUME NEW t \in Tab, Navigate(t) \/ Persist(t) PROVE TypeInv' /\ Still
  <2>1. UNCHANGED <<call, refreshing>>
    BY <1>15 DEF Navigate, Persist
  <2>. QED
    BY <1>15, <2>1, StillShape DEF Navigate, Persist, Routed, TypeInv, TypeOK
<1>16. CASE UNCHANGED vars
  BY <1>16, StillShape DEF vars, TypeInv, TypeOK, Shape
<1>17. ASSUME NEW c \in Call, Answered(c) PROVE TypeInv' /\ CallShape(c)
  <2>1. CASE Lose(c)
    BY <2>1, FailsShape DEF Lose, CallShape
  <2>2. CASE GiveUp(c)
    BY <2>2, FailsShape DEF GiveUp, CallShape
  <2>3. CASE RefreshFails(c)
    BY <2>3, ForcedShape DEF RefreshFails, CallShape
  <2>4. CASE Deliver(c)
    BY <2>4, DeliverShape DEF CallShape
  <2>. QED
    BY <1>17, <2>1, <2>2, <2>3, <2>4, <1>3, <1>4, <1>5, <1>6, <1>7, <1>8, <1>9
    DEF Answered, CallShape
<1>. QED
  BY <1>1, <1>2, <1>10, <1>12, <1>13, <1>14, <1>15, <1>16, <1>17
  DEF Next, Happens, Shape, CallShape
(* The frontend's types: whatever the server, the tabs and the expiry of    *)
(* cookies do, every variable of client.ts keeps its type.                  *)
THEOREM TypeCorrect == Spec => []TypeOK
<1>1. TypeInv /\ [Next]_vars => TypeInv'
  BY StepShape
<1>2. TypeInv => TypeOK
  BY DEF TypeInv
<1>. QED
  BY InitType, <1>1, <1>2, PTL DEF Spec

-----------------------------------------------------------------------------
(* The inductive invariant: SingleFlight and QueueServed call by call; only *)
(* a call that was retried led a refresh; and a call was executed once if   *)
(* the server accepted it, and not at all before that.                      *)
IsLeader(c) == call[c].phase \in Leading

OneLeader == \A c, d \in Call :
    TabOf[c] = TabOf[d] /\ IsLeader(c) /\ IsLeader(d) => c = d

LedBySome == \A t \in Tab :
    refreshing[t] <=> \E c \in Call : TabOf[c] = t /\ IsLeader(c)

Waiting == \A c \in Call : call[c].phase = "queued" => refreshing[TabOf[c]]

LedOnce == \A c \in Call : /\ call[c].led <= 1
                           /\ ~call[c].retried => call[c].led = 0

RunOnce == \A c \in Call :
    /\ call[c].phase = "accepted" => call[c].runs = 1
    /\ call[c].phase \in Outstanding \ {"accepted"} => call[c].runs = 0

Inv == TypeInv /\ OneLeader /\ LedBySome /\ Waiting /\ LedOnce /\ RunOnce

LEMMA InitInv == Init => Inv
<1>. SUFFICES ASSUME Init PROVE Inv
  OBVIOUS
<1>1. \A c \in Call : call[c].phase = "idle" /\ call[c].retried = FALSE /\ call[c].led = 0
  BY RestType DEF Init, Kind
<1>2. TypeInv
  BY InitType
<1>. QED
  BY <1>1, <1>2, PhaseMembers
  DEF Inv, Init, OneLeader, LedBySome, Waiting, LedOnce, RunOnce, IsLeader, Leading

(* The phases apart that the shapes tell apart. *)
LEMMA Phases ==
    /\ Leading = {"refreshing", "granted"}
    /\ Outstanding = {"sent", "accepted", "refused", "queued", "refreshing", "granted"}
BY DEF Leading, Outstanding

LEMMA QueueOf ==
    ASSUME NEW c \in Call
    PROVE  Queue(TabOf[c]) = {d \in Call : TabOf[d] = TabOf[c] /\ call[d].phase = "queued"}
BY Phases DEF Queue, Pending

(* The shapes that leave isRefreshing alone change no leader.               *)
LEMMA FlightStep ==
    ASSUME Inv, TypeInv', Shape
    PROVE  OneLeader' /\ LedBySome' /\ Waiting'
<1>. USE DEF IsLeader
<1>tabs. /\ \A c \in Call : TabOf[c] \in Tab
         /\ refreshing \in [Tab -> BOOLEAN] /\ refreshing' \in [Tab -> BOOLEAN]
  BY ClientAssumption DEF Inv, TypeInv, TypeOK
<1>. USE <1>tabs, Phases DEF OneLeader, LedBySome, Waiting
<1>same. ASSUME UNCHANGED refreshing,
                \A d \in Call : /\ IsLeader(d)' <=> IsLeader(d)
                                /\ call'[d].phase = "queued" =>
                                     call[d].phase = "queued" \/ refreshing[TabOf[d]]
         PROVE  OneLeader' /\ LedBySome' /\ Waiting'
  BY <1>same DEF Inv
<1>1. CASE Still
  BY <1>1, <1>same DEF Still, Others, Alike
<1>2. ASSUME NEW c \in Call,
             Begins(c) \/ Executes(c) \/ Refused(c) \/ Waits(c) \/ Granted(c)
             \/ Succeeds(c) \/ Drops(c)
      PROVE  OneLeader' /\ LedBySome' /\ Waiting'
  <2>1. UNCHANGED refreshing /\ Others({c})
    BY <1>2 DEF Begins, Executes, Refused, Waits, Granted, Succeeds, Drops
  <2>2. /\ IsLeader(c)' <=> IsLeader(c)
        /\ call'[c].phase = "queued" => call[c].phase = "queued" \/ refreshing[TabOf[c]]
    BY <1>2 DEF Begins, Executes, Refused, Waits, Granted, Succeeds, Drops, Is
  <2>. QED
    BY <2>1, <2>2, <1>same DEF Others, Alike
<1>3. ASSUME NEW c \in Call, Leads(c) PROVE OneLeader' /\ LedBySome' /\ Waiting'
  <2>1. /\ ~refreshing[TabOf[c]] /\ call'[c].phase = "refreshing"
        /\ refreshing' = [refreshing EXCEPT ![TabOf[c]] = TRUE]
        /\ \A d \in Call \ {c} : call'[d].phase = call[d].phase
    BY <1>3 DEF Leads, Is, Others, Alike
  <2>2. \A d \in Call : TabOf[d] = TabOf[c] => ~IsLeader(d)
    BY <2>1 DEF Inv
  <2>3. OneLeader'
    BY <2>1, <2>2 DEF Inv
  <2>4. LedBySome'
    BY <2>1, <2>2 DEF Inv
  <2>. QED
    BY <2>1, <2>3, <2>4 DEF Inv
<1>4. ASSUME NEW c \in Call, Resends(c) \/ Ends(c)
      PROVE  OneLeader' /\ LedBySome' /\ Waiting'
  <2>1. /\ refreshing' = [refreshing EXCEPT ![TabOf[c]] = FALSE]
        /\ \A d \in {c} \cup Queue(TabOf[c]) : call'[d].phase \in {"sent", "idle"}
        /\ \A d \in Call \ ({c} \cup Queue(TabOf[c])) : call'[d].phase = call[d].phase
    BY <1>4 DEF Resends, Ends, Is, Others, Alike
  <2>2. \A d \in Call : TabOf[d] = TabOf[c] /\ IsLeader(d) => d = c
    BY <1>4 DEF Resends, Ends, Inv
  <2>3. \A d \in Call : TabOf[d] = TabOf[c] => ~IsLeader(d)' /\ call'[d].phase # "queued"
    BY <2>1, <2>2, QueueOf
  <2>4. \A d \in Call : TabOf[d] # TabOf[c] => call'[d].phase = call[d].phase
    <3>. TAKE d \in Call
    <3>. HAVE TabOf[d] # TabOf[c]
    <3>1. d \notin {c} \cup Queue(TabOf[c])
      BY QueueOf
    <3>. QED
      BY <3>1, <2>1
  <2>. QED
    BY <2>1, <2>3, <2>4 DEF Inv
<1>5. ASSUME NEW t \in Tab, Reloads(t) PROVE OneLeader' /\ LedBySome' /\ Waiting'
  <2>1. /\ refreshing' = [refreshing EXCEPT ![t] = FALSE]
        /\ \A d \in Call : TabOf[d] = t => call'[d].phase = "idle"
        /\ \A d \in Call : TabOf[d] # t => call'[d].phase = call[d].phase
    BY <1>5 DEF Reloads, Is, Others, Alike
  <2>. QED
    BY <2>1 DEF Inv
<1>. QED
  BY <1>1, <1>2, <1>3, <1>4, <1>5 DEF Shape, CallShape

LEMMA CountStep ==
    ASSUME Inv, TypeInv', Shape
    PROVE  LedOnce' /\ RunOnce'
<1>. DEFINE Good(d) == /\ call'[d].led <= 1
                       /\ ~call'[d].retried => call'[d].led = 0
                       /\ call'[d].phase = "accepted" => call'[d].runs = 1
                       /\ call'[d].phase \in Outstanding \ {"accepted"} => call'[d].runs = 0
<1>alike. ASSUME NEW d \in Call, Alike(d) PROVE Good(d)
  BY <1>alike DEF Inv, LedOnce, RunOnce, Alike
<1>1. CASE Still
  BY <1>1, <1>alike DEF Still, Others, LedOnce, RunOnce
<1>2. ASSUME NEW c \in Call, CallShape(c) PROVE \A d \in Call : Good(d)
  <2>1. ASSUME Others({c}), Good(c) PROVE \A d \in Call : Good(d)
    <3>. HIDE DEF Good
    <3>. QED
      BY <2>1, <1>alike DEF Others
  <2>2. ASSUME Others({c} \cup Queue(TabOf[c])),
               \A d \in {c} \cup Queue(TabOf[c]) : d \in Call => Good(d)
        PROVE  \A d \in Call : Good(d)
    <3>. HIDE DEF Good
    <3>. QED
      BY <2>2, <1>alike DEF Others
  <2>3. CASE Begins(c) \/ Succeeds(c) \/ Drops(c)
    <3>1. Others({c}) /\ Good(c)
      BY <2>3 DEF Begins, Succeeds, Drops, Is, Outstanding, Leading
    <3>. QED
      BY <3>1, <2>1
  <2>4. CASE Executes(c) \/ Refused(c) \/ Waits(c) \/ Granted(c) \/ Leads(c)
    <3>1. Others({c}) /\ Good(c)
      BY <2>4, Phases DEF Executes, Refused, Waits, Granted, Leads, Is, Inv, LedOnce, RunOnce
    <3>. QED
      BY <3>1, <2>1
  <2>5. CASE Resends(c)
    <3>1. \A d \in {c} \cup Queue(TabOf[c]) : d \in Call => Good(d)
      BY <2>5, Phases, QueueOf DEF Resends, Is, Inv, LedOnce, RunOnce
    <3>. QED
      BY <2>5, <3>1, <2>2 DEF Resends
  <2>6. CASE Ends(c)
    <3>1. \A d \in {c} \cup Queue(TabOf[c]) : d \in Call => Good(d)
      BY <2>6, Phases DEF Ends, Is
    <3>. QED
      BY <2>6, <3>1, <2>2 DEF Ends
  <2>. QED
    BY <1>2, <2>3, <2>4, <2>5, <2>6 DEF CallShape
<1>3. ASSUME NEW t \in Tab, Reloads(t) PROVE \A d \in Call : Good(d)
  <2>1. \A d \in Call : Is(d, "idle", FALSE, 0, 0) \/ Alike(d)
    BY <1>3 DEF Reloads, Others
  <2>2. \A d \in Call : Is(d, "idle", FALSE, 0, 0) => Good(d)
    BY Phases DEF Is
  <2>. QED
    BY <2>1, <2>2, <1>alike
<1>. QED
  BY <1>1, <1>2, <1>3 DEF Shape, LedOnce, RunOnce

LEMMA StepInv == Inv /\ [Next]_vars => Inv'
<1>. SUFFICES ASSUME Inv, [Next]_vars PROVE Inv'
  OBVIOUS
<1>1. TypeInv' /\ Shape
  BY StepShape DEF Inv
<1>. QED
  BY <1>1, FlightStep, CountStep DEF Inv

LEMMA Invariance == Spec => []Inv
BY InitInv, StepInv, PTL DEF Spec

(* client.ts:112-196: one refresh per tab, and isRefreshing tells of it.    *)
THEOREM OneRefresh == Spec => []SingleFlight
<1>1. ASSUME Inv, NEW t \in Tab
      PROVE  LET leaders == {c \in Pending(t) : call[c].phase \in Leading} IN
             /\ \A c, d \in leaders : c = d
             /\ refreshing[t] <=> leaders # {}
  <2>1. {c \in Pending(t) : call[c].phase \in Leading}
           = {c \in Call : TabOf[c] = t /\ IsLeader(c)}
    BY Phases DEF Pending, IsLeader
  <2>2. \A c, d \in {e \in Call : TabOf[e] = t /\ IsLeader(e)} : c = d
    BY <1>1 DEF Inv, OneLeader
  <2>3. refreshing[t] <=> {c \in Call : TabOf[c] = t /\ IsLeader(c)} # {}
    BY <1>1 DEF Inv, LedBySome
  <2>. QED
    BY <2>1, <2>2, <2>3
<1>2. Inv => SingleFlight
  BY <1>1 DEF SingleFlight
<1>. QED
  BY Invariance, <1>2, PTL

(* client.ts:157-165: a request that waits, waits for a refresh that runs.  *)
THEOREM NobodyForgotten == Spec => []QueueServed
<1>1. Inv => QueueServed
  BY DEF Inv, Waiting, QueueServed, Queue, Pending
<1>. QED
  BY Invariance, <1>1, PTL

(* client.ts:153-165: no request leads two refreshes.                       *)
THEOREM NoSecondRefresh == Spec => []RefreshOnce
<1>1. Inv => RefreshOnce
  BY DEF Inv, LedOnce, RefreshOnce
<1>. QED
  BY Invariance, <1>1, PTL
-----------------------------------------------------------------------------
(* The client implements the promise of a request.                          *)
Abs == [c \in Call |-> StatusOf(call[c])]

LEMMA AbsChange ==
    ASSUME NEW C \in SUBSET Call, NEW s,
           \A d \in C : StatusOf(call'[d]) = s,
           \A d \in Call \ C : StatusOf(call'[d]) = StatusOf(call[d])
    PROVE  Abs' = [c \in Call |-> IF c \in C THEN s ELSE Abs[c]]
BY DEF Abs

LEMMA StatusFacts ==
    ASSUME NEW r \in Record
    PROVE  /\ r.phase \in {"idle", "ok"} => StatusOf(r) = r.phase
           /\ r.phase \in Outstanding /\ r.runs = 1 => StatusOf(r) = "executed"
           /\ r.phase \in Outstanding /\ r.runs = 0 => StatusOf(r) = "pending"
           /\ StatusOf(r) \in {"pending", "executed"} => r.phase \in Outstanding
BY Phases DEF StatusOf, Record, Phase

LEMMA AlikeStatus ==
    ASSUME NEW d \in Call, Alike(d)
    PROVE  StatusOf(call'[d]) = StatusOf(call[d])
BY DEF Alike, StatusOf

(* A step of the promise, or a stutter. *)
PromiseStep ==
    \/ Abs' = Abs
    \/ \E c \in Call :
          \/ /\ Abs[c] \notin {"pending", "executed"}
             /\ Abs' = [d \in Call |-> IF d \in {c} THEN "pending" ELSE Abs[d]]
          \/ /\ Abs[c] = "pending"
             /\ Abs' = [d \in Call |-> IF d \in {c} THEN "executed" ELSE Abs[d]]
          \/ /\ Abs[c] = "executed"
             /\ Abs' = [d \in Call |-> IF d \in {c} THEN "ok" ELSE Abs[d]]
    \/ \E C \in SUBSET Call : Abs' = [d \in Call |-> IF d \in C THEN "idle" ELSE Abs[d]]

LEMMA StepPromise ==
    ASSUME Inv, Inv', Shape
    PROVE  PromiseStep
<1>. USE DEF PromiseStep
<1>records. \A c \in Call : call[c] \in Record /\ call'[c] \in Record /\ Abs[c] = StatusOf(call[c])
  BY DEF Inv, TypeInv, TypeOK, Abs
<1>alike. \A d \in Call : Alike(d) => StatusOf(call'[d]) = StatusOf(call[d])
  BY AlikeStatus
<1>1. CASE Still
  <2>1. \A d \in Call : StatusOf(call'[d]) = StatusOf(call[d])
    BY <1>1, <1>alike DEF Still, Others
  <2>. QED
    BY <2>1 DEF Abs
<1>2. ASSUME NEW c \in Call, CallShape(c) PROVE PromiseStep
  <2>1. ASSUME NEW s, Others({c}), StatusOf(call'[c]) = s
        PROVE  Abs' = [d \in Call |-> IF d \in {c} THEN s ELSE Abs[d]]
    BY <2>1, <1>alike DEF Others, Abs
  <2>2. CASE Begins(c)
    <3>1. StatusOf(call'[c]) = "pending" /\ Abs[c] \notin {"pending", "executed"} /\ Others({c})
      BY <2>2, <1>records, StatusFacts, Phases DEF Begins, Is
    <3>. QED
      BY <3>1, <2>1
  <2>3. CASE Executes(c)
    <3>1. call[c].phase = "sent" /\ call[c].runs = 0 /\ call'[c].phase = "accepted"
          /\ call'[c].runs = 1 /\ Others({c})
      BY <2>3, Phases DEF Executes, Is, Inv, RunOnce
    <3>2. StatusOf(call'[c]) = "executed" /\ Abs[c] = "pending"
      BY <3>1, <1>records, StatusFacts, Phases
    <3>. QED
      BY <3>1, <3>2, <2>1
  <2>4. CASE Succeeds(c)
    <3>1. call[c].phase = "accepted" /\ call[c].runs = 1 /\ call'[c].phase = "ok" /\ Others({c})
      BY <2>4 DEF Succeeds, Is, Inv, RunOnce
    <3>2. StatusOf(call'[c]) = "ok" /\ Abs[c] = "executed"
      BY <3>1, <1>records, StatusFacts, Phases
    <3>. QED
      BY <3>1, <3>2, <2>1
  <2>5. CASE Drops(c)
    <3>1. StatusOf(call'[c]) = "idle" /\ Others({c})
      BY <2>5, <1>records, StatusFacts DEF Drops, Is
    <3>. QED
      BY <3>1, <2>1
  <2>6. CASE Refused(c) \/ Waits(c) \/ Granted(c) \/ Leads(c)
    <3>1. /\ call[c].phase \in Outstanding /\ call'[c].phase \in Outstanding
          /\ call'[c].runs = call[c].runs /\ Others({c})
      BY <2>6, Phases DEF Refused, Waits, Granted, Leads, Is
    <3>2. StatusOf(call'[c]) = StatusOf(call[c])
      BY <3>1 DEF StatusOf
    <3>. QED
      BY <3>1, <3>2, <1>alike DEF Others, Abs
  <2>7. CASE Resends(c)
    <3>1. \A d \in Call : \/ Alike(d)
                          \/ /\ call[d].phase \in Outstanding /\ call'[d].phase \in Outstanding
                             /\ call'[d].runs = call[d].runs
      BY <2>7, QueueOf, Phases DEF Resends, Is, Others
    <3>2. \A d \in Call : StatusOf(call'[d]) = StatusOf(call[d])
      BY <3>1, <1>alike DEF StatusOf
    <3>. QED
      BY <3>2 DEF Abs
  <2>8. CASE Ends(c)
    <3>. DEFINE C == {c} \cup Queue(TabOf[c])
    <3>1. C \in SUBSET Call /\ Others(C)
      BY <2>8, QueueOf DEF Ends
    <3>2. \A d \in C : StatusOf(call'[d]) = "idle"
      BY <2>8, <3>1, <1>records, StatusFacts DEF Ends, Is
    <3>. HIDE DEF C
    <3>3. Abs' = [d \in Call |-> IF d \in C THEN "idle" ELSE Abs[d]]
      BY <3>1, <3>2, <1>alike, AbsChange DEF Others
    <3>. QED
      BY <3>1, <3>3
  <2>. QED
    BY <1>2, <2>2, <2>3, <2>4, <2>5, <2>6, <2>7, <2>8 DEF CallShape
<1>3. ASSUME NEW t \in Tab, Reloads(t) PROVE PromiseStep
  <2>. DEFINE C == {c \in Call : TabOf[c] = t}
  <2>1. C \in SUBSET Call /\ Others(C)
    BY <1>3 DEF Reloads
  <2>2. \A d \in C : StatusOf(call'[d]) = "idle"
    BY <1>3, <2>1, <1>records, StatusFacts DEF Reloads, Is
  <2>. HIDE DEF C
  <2>3. Abs' = [d \in Call |-> IF d \in C THEN "idle" ELSE Abs[d]]
    BY <2>1, <2>2, <1>alike, AbsChange DEF Others
  <2>. QED
    BY <2>1, <2>3
<1>. QED
  BY <1>1, <1>2, <1>3 DEF Shape

(* Whatever is queued, refreshed and sent again, each request is executed   *)
(* at most once and succeeds only if it was.                                *)
THEOREM ClientKeepsPromise == Spec => KeepsPromise
<1>1. Init => Promise!Init
  BY RestType, Phases DEF Init, Promise!Init, StatusOf, Kind
<1>2. Inv /\ Inv' /\ [Next]_vars => [Promise!Next]_([c \in Call |-> StatusOf(call[c])])
  <2>. SUFFICES ASSUME Inv, Inv', [Next]_vars
                PROVE  Promise!Next \/ Abs' = Abs
    BY DEF Abs
  <2>1. Shape
    BY StepShape DEF Inv
  <2>. QED
    BY <2>1, StepPromise
    DEF PromiseStep, Promise!Next, Promise!Begin, Promise!Execute, Promise!Succeed, Promise!Drop,
        Promise!Become, Promise!Outstanding, Abs
<1>. QED
  BY <1>1, <1>2, Invariance, PTL DEF Spec, KeepsPromise, Promise!Spec
=============================================================================
