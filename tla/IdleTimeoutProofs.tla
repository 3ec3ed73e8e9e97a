-------------------------- MODULE IdleTimeoutProofs --------------------------
(* Proofs about IdleTimeout: for any number of tabs, any timeout and any    *)
(* offset of the warning.                                                   *)
EXTENDS IdleTimeout, TLAPS

(* The first tick on which a warning can come: the tick that starts with    *)
(* the last activity is over before the interval fires.                     *)
First == IF Threshold = 0 THEN 1 ELSE Threshold

LEMMA FirstInTime == /\ First \in Nat \ {0} /\ First < Timeout
                     /\ Threshold \in Nat /\ Threshold <= First
BY IdleAssumption DEF First, Threshold

(* The warning is on the screen, or a late transition has closed it.        *)
Warned(t) == modal[t] = "idle-warning" \/ missed[t]

(* The interval and the warning are those of a signed-in tab.  warningShown *)
(* may be left from before the session was read, but only with its warning; *)
(* so once the interval has fired in the first tick past the threshold, a   *)
(* warning is there, new or old.                                            *)
Timed(t) ==
    /\ due[t] \/ shown[t] => SignedIn(t)
    /\ shown[t] => Warned(t)
    /\ SignedIn(t) /\ (elapsed[t] > First \/ (elapsed[t] = First /\ ~due[t]))
          => Warned(t)

IdleInv == TypeOK /\ \A t \in Tab : Timed(t)

LEMMA IdleInit == Init => IdleInv
<1>. SUFFICES ASSUME Init PROVE IdleInv
  OBVIOUS
<1>1. TypeOK
  <2>1. /\ logins \in 0..MaxLogins /\ signed \in 0..logins
        /\ 0 \in 0..logins /\ 0 \in Elapsed /\ 0 \in 0..MaxLogouts
    BY IdleAssumption DEF Init, Elapsed
  <2>2. /\ auth \in [Tab -> 0..logins] /\ elapsed \in [Tab -> Elapsed]
        /\ logouts \in [Tab -> 0..MaxLogouts]
    BY <2>1 DEF Init
  <2>3. modal \in [Tab -> Modal]
    BY DEF Init, Modal
  <2>4. /\ due \in [Tab -> BOOLEAN] /\ shown \in [Tab -> BOOLEAN]
        /\ saving \in [Tab -> BOOLEAN] /\ missed \in [Tab -> BOOLEAN] /\ absent \in BOOLEAN
    BY DEF Init
  <2>. QED
    BY <2>1, <2>2, <2>3, <2>4 DEF TypeOK
<1>2. \A t \in Tab : ~due[t] /\ ~shown[t] /\ ~SignedIn(t)
  BY DEF Init, SignedIn
<1>. QED
  BY <1>1, <1>2 DEF IdleInv, Timed

-----------------------------------------------------------------------------
(* The tabs that a step leaves alone, and the tab it is about. *)
Same(t) == /\ auth'[t] = auth[t] /\ elapsed'[t] = elapsed[t] /\ due'[t] = due[t]
           /\ shown'[t] = shown[t] /\ modal'[t] = modal[t] /\ missed'[t] = missed[t]

LEMMA SameTimed == ASSUME NEW t \in Tab, Timed(t), Same(t) PROVE Timed(t)'
BY DEF Same, Timed, Warned, SignedIn

LEMMA UserStep ==
    ASSUME IdleInv, NEW t \in Tab, User(t)
    PROVE  /\ TypeOK' /\ \A u \in Tab \ {t} : Same(u)
           /\ Timed(t)'
<1>. USE IdleAssumption, FirstInTime DEF IdleInv, TypeOK, Elapsed
<1>0. UNCHANGED absent
  BY DEF User
<1>1. CASE Login(t)
  <2>1. TypeOK'
    BY <1>0, <1>1 DEF Login, SetSession
  <2>. QED
    BY <1>1, <2>1 DEF Login, SetSession, Same, Timed, Warned, SignedIn
<1>2. ASSUME NEW ok \in BOOLEAN, ReadSession(t, ok)
      PROVE  TypeOK' /\ (\A u \in Tab \ {t} : Same(u)) /\ Timed(t)'
  <2>1. TypeOK'
    <3>1. CASE signed # 0 /\ ok
      BY <1>0, <1>2, <3>1 DEF ReadSession, SetSession
    <3>2. CASE ~(signed # 0 /\ ok)
      <4>1. ClearSession(t) /\ UNCHANGED <<logins, signed, modal, saving, logouts>>
        BY <1>2, <3>2 DEF ReadSession
      <4>. QED
        BY <1>0, <4>1 DEF ClearSession
    <3>. QED
      BY <3>1, <3>2
  <2>. QED
    BY <1>2, <2>1 DEF ReadSession, SetSession, ClearSession, Same, Timed, Warned, SignedIn
<1>3. CASE Activity(t)
  <2>1. TypeOK'
    BY <1>0, <1>3 DEF Activity, Active
  <2>. QED
    BY <1>3, <2>1 DEF Activity, Active, Same, Timed, Warned, SignedIn
<1>4. ASSUME NEW m \in {"logout-confirm", "case-status-transition"}, Open(t, m)
      PROVE  TypeOK' /\ (\A u \in Tab \ {t} : Same(u)) /\ Timed(t)'
  <2>1. TypeOK'
    BY <1>0, <1>4 DEF Open, Active, Modal
  <2>. QED
    BY <1>4, <2>1 DEF Open, Active, Same, Timed, Warned, SignedIn
<1>5. CASE Close(t)
  <2>1. TypeOK'
    <3>1. CASE SignedIn(t)
      <4>1. /\ Active(t) /\ modal' = [modal EXCEPT ![t] = "none"]
            /\ UNCHANGED <<logins, signed, auth, due, saving, logouts>>
        BY <1>5, <3>1 DEF Close
      <4>. QED
        BY <1>0, <4>1 DEF Active, Modal
    <3>2. CASE ~SignedIn(t)
      BY <1>0, <1>5, <3>2 DEF Close, Modal
    <3>. QED
      BY <3>1, <3>2
  <2>. QED
    BY <1>5, <2>1 DEF Close, Active, Same, Timed, Warned, SignedIn
<1>6. CASE SignOut(t)
  <2>1. TypeOK'
    BY <1>0, <1>6 DEF SignOut, Active, Modal
  <2>. QED
    BY <1>6, <2>1 DEF SignOut, Active, Same, Timed, Warned, SignedIn
<1>7. CASE Save(t)
  <2>1. TypeOK'
    BY <1>0, <1>7 DEF Save, Active
  <2>. QED
    BY <1>7, <2>1 DEF Save, Active, Same, Timed, Warned, SignedIn
<1>. QED
  BY <1>1, <1>2, <1>3, <1>4, <1>5, <1>6, <1>7 DEF User

LEMMA AnswerStep ==
    ASSUME IdleInv, NEW t \in Tab, LogoutEnds(t) \/ \E ok \in BOOLEAN : SaveEnds(t, ok)
    PROVE  /\ TypeOK' /\ \A u \in Tab \ {t} : Same(u)
           /\ Timed(t)'
<1>. USE IdleAssumption, FirstInTime DEF IdleInv, TypeOK, Elapsed
<1>1. CASE LogoutEnds(t)
  <2>1. TypeOK'
    BY <1>1 DEF LogoutEnds, ClearSession
  <2>. QED
    BY <1>1, <2>1 DEF LogoutEnds, ClearSession, Same, Timed, Warned, SignedIn
<1>2. ASSUME NEW ok \in BOOLEAN, SaveEnds(t, ok)
      PROVE  TypeOK' /\ (\A u \in Tab \ {t} : Same(u)) /\ Timed(t)'
  <2>1. TypeOK'
    BY <1>2 DEF SaveEnds, Modal
  <2>. QED
    BY <1>2, <2>1 DEF SaveEnds, Same, Timed, Warned, SignedIn
<1>. QED
  BY <1>1, <1>2

LEMMA FireStep ==
    ASSUME IdleInv, NEW t \in Tab, Fire(t)
    PROVE  /\ TypeOK' /\ \A u \in Tab \ {t} : Same(u)
           /\ Timed(t)'
<1>. USE IdleAssumption, FirstInTime DEF IdleInv, TypeOK, Elapsed
<1>1. CASE TimeOut(t)
  <2>1. TypeOK'
    BY <1>1 DEF Fire, TimeOut
  <2>. QED
    BY <1>1, <2>1 DEF Fire, TimeOut, Same, Timed, Warned, SignedIn
<1>2. CASE Warn(t)
  <2>1. TypeOK'
    BY <1>2 DEF Fire, Warn, Modal
  <2>. QED
    BY <1>2, <2>1 DEF Fire, Warn, Same, Timed, Warned, SignedIn
<1>3. CASE Quiet(t)
  <2>1. TypeOK'
    BY <1>3 DEF Fire, Quiet
  <2>. QED
    BY <1>3, <2>1 DEF Fire, Quiet, Same, Timed, Warned, SignedIn
<1>. QED
  BY <1>1, <1>2, <1>3 DEF Fire

LEMMA TickStep == IdleInv /\ Tick => IdleInv'
<1>. SUFFICES ASSUME IdleInv, Tick PROVE IdleInv'
  OBVIOUS
<1>. USE IdleAssumption, FirstInTime DEF Elapsed
<1>1. TypeOK'
  BY DEF IdleInv, TypeOK, Tick, SignedIn
<1>2. ASSUME NEW t \in Tab PROVE Timed(t)'
  <2>1. /\ UNCHANGED <<auth, shown, modal, missed>> /\ ~due[t] /\ due'[t] = SignedIn(t)
        /\ elapsed[t] \in Nat /\ elapsed[t] <= Timeout /\ Timed(t)
    BY DEF IdleInv, TypeOK, Tick
  <2>2. CASE ~SignedIn(t)
    BY <2>1, <2>2 DEF Timed, Warned, SignedIn
  <2>3. CASE SignedIn(t) /\ elapsed[t] < Timeout
    <3>1. elapsed'[t] = elapsed[t] + 1 /\ due'[t]
      BY <2>1, <2>3 DEF Tick
    <3>. QED
      BY <2>1, <2>3, <3>1 DEF Timed, Warned, SignedIn
  <2>4. CASE SignedIn(t) /\ ~(elapsed[t] < Timeout)
    <3>1. elapsed'[t] = elapsed[t] /\ elapsed[t] > First
      BY <2>1, <2>4 DEF Tick
    <3>. QED
      BY <2>1, <2>4, <3>1 DEF Timed, Warned, SignedIn
  <2>. QED
    BY <2>2, <2>3, <2>4
<1>. QED
  BY <1>1, <1>2 DEF IdleInv

LEMMA IdleStep == IdleInv /\ [Next]_vars => IdleInv'
<1>. SUFFICES ASSUME IdleInv, [Next]_vars PROVE IdleInv'
  OBVIOUS
<1>1. ASSUME NEW t \in Tab, TypeOK', \A u \in Tab \ {t} : Same(u), Timed(t)'
      PROVE  IdleInv'
  BY <1>1, SameTimed DEF IdleInv
<1>2. CASE \E t \in Tab : User(t) \/ Fire(t) \/ LogoutEnds(t) \/ \E ok \in BOOLEAN : SaveEnds(t, ok)
  BY <1>1, <1>2, UserStep, FireStep, AnswerStep
<1>3. CASE UNCHANGED vars
  BY <1>3 DEF vars, IdleInv, TypeOK, Timed, Warned, SignedIn
<1>4. CASE Leave
  BY <1>4 DEF Leave, IdleInv, TypeOK, Timed, Warned, SignedIn
<1>. QED
  BY <1>2, <1>3, <1>4, TickStep DEF Next

LEMMA IdleInvariance == Spec => []IdleInv
BY IdleInit, IdleStep, PTL DEF Spec
-----------------------------------------------------------------------------
(* Every variable keeps its type. *)
THEOREM IdleTypeCorrect == Spec => []TypeOK
<1>1. IdleInv => TypeOK
  BY DEF IdleInv
<1>. QED
  BY <1>1, IdleInvariance, PTL

(* useIdleTimeout.ts:58-73: whatever the timeout and the offset, when the   *)
(* time of a tab is up, its warning is on the screen, or a late status      *)
(* transition has closed it since the officer's last act.                   *)
THEOREM IdleWarnedFirst == Spec => []WarnedFirst
<1>1. IdleInv => WarnedFirst
  BY FirstInTime, IdleAssumption DEF IdleInv, TypeOK, Timed, Warned, WarnedFirst, Elapsed
<1>. QED
  BY <1>1, IdleInvariance, PTL

LEMMA OneModal ==
    ASSUME IdleInv, [Next]_vars, NEW t \in Tab,
           shown[t], shown'[t], modal[t] = "idle-warning", ~saving[t]
    PROVE  modal'[t] = "idle-warning"
<1>0. SignedIn(t) /\ modal \in [Tab -> Modal] /\ shown \in [Tab -> BOOLEAN]
  BY DEF IdleInv, TypeOK, Timed
<1>1. ASSUME NEW u \in Tab, User(u) PROVE modal'[t] = "idle-warning"
  <2>1. CASE Login(u) \/ Activity(u) \/ Save(u)
    BY <2>1 DEF Login, Activity, Save
  <2>4. ASSUME NEW ok \in BOOLEAN, ReadSession(u, ok) PROVE modal'[t] = "idle-warning"
    BY <2>4 DEF ReadSession
  <2>2. ASSUME NEW m \in {"logout-confirm", "case-status-transition"}, Open(u, m)
        PROVE  modal'[t] = "idle-warning"
    BY <2>2, <1>0 DEF Open
  <2>3. CASE Close(u) \/ SignOut(u)
    BY <2>3, <1>0 DEF Close, SignOut, Active
  <2>. QED
    BY <1>1, <2>1, <2>2, <2>3, <2>4 DEF User
<1>2. ASSUME NEW u \in Tab, Fire(u) \/ LogoutEnds(u) PROVE modal'[t] = "idle-warning"
  BY <1>0, <1>2 DEF Fire, TimeOut, Warn, Quiet, LogoutEnds
<1>3. ASSUME NEW u \in Tab, NEW ok \in BOOLEAN, SaveEnds(u, ok)
      PROVE  modal'[t] = "idle-warning"
  BY <1>0, <1>3 DEF SaveEnds
<1>4. CASE Tick \/ Leave \/ UNCHANGED vars
  BY <1>4 DEF Tick, Leave, vars
<1>. QED
  BY <1>1, <1>2, <1>3, <1>4 DEF Next

(* ui.store.ts:30-31: while the officer does not act, nothing but a status  *)
(* transition that ends late takes the warning of a tab off the screen.     *)
THEOREM IdleWarningStays == Spec => WarningStays
<1>1. IdleInv /\ [Next]_vars
       => [\A t \in Tab : (shown[t] /\ shown'[t] /\ modal[t] = "idle-warning")
             => modal'[t] = "idle-warning" \/ saving[t]]_vars
  BY OneModal
<1>. QED
  BY <1>1, IdleInvariance, PTL DEF Spec, WarningStays
=============================================================================
