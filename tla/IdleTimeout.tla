----------------------------- MODULE IdleTimeout -----------------------------
(***************************************************************************)
(* The idle timer of the frontend (useIdleTimeout), the auth store it      *)
(* reads, the one modal slot of the ui store in which its warning, the     *)
(* logout dialog and the status drawer of a case replace one another, and  *)
(* the logouts in flight.  Every tab has its own timer and stores; the     *)
(* cookies of the session are common to all.  One officer works in them    *)
(* and may leave for good.                                                 *)
(*                                                                         *)
(* Time goes in ticks, and the interval of every tab fires between two of  *)
(* them.                                                                   *)
(***************************************************************************)
EXTENDS Naturals

CONSTANTS
    Tab,
    Timeout,        \* ticks without activity after which the tab logs out
    Offset,         \* the warning comes so much earlier
    MaxLogins,      \* bound: logins
    MaxLogouts      \* bound: logouts of a tab in flight

ASSUME IdleAssumption ==
    /\ Timeout \in Nat /\ Timeout > 1
    /\ Offset \in Nat \ {0}
    /\ MaxLogins \in Nat
    /\ MaxLogouts \in Nat \ {0}

VARIABLES
    logins,     \* how many logins there were
    signed,     \* the login whose cookies the tabs hold, or 0
    auth,       \* per tab: the login the auth store shows, or 0
    elapsed,    \* per tab: ticks since lastActivity
    due,        \* per tab: the interval has not fired in this tick
    shown,      \* per tab: warningShown
    modal,      \* per tab: activeModal
    saving,     \* per tab: a status transition is in flight
    logouts,    \* per tab: how many logouts are in flight
    missed,     \* history, per tab: a late status transition has closed the
                \* warning, and nothing was done and no warning opened since
    absent      \* the officer has left for good

vars == <<logins, signed, auth, elapsed, due, shown, modal, saving, logouts, missed, absent>>

Modal == {"none", "idle-warning", "logout-confirm", "case-status-transition"}

(* Mutant: the offset of the warning is ignored. *)
ThresholdLate == Timeout

Threshold == IF Timeout > Offset THEN Timeout - Offset ELSE 0

(* Past the timeout every tick is like another. *)
Elapsed == 0..Timeout

TypeOK ==
    /\ logins \in 0..MaxLogins
    /\ signed \in 0..logins
    /\ auth \in [Tab -> 0..logins]
    /\ elapsed \in [Tab -> Elapsed]
    /\ due \in [Tab -> BOOLEAN]
    /\ shown \in [Tab -> BOOLEAN]
    /\ modal \in [Tab -> Modal]
    /\ saving \in [Tab -> BOOLEAN]
    /\ logouts \in [Tab -> 0..MaxLogouts]
    /\ missed \in [Tab -> BOOLEAN]
    /\ absent \in BOOLEAN

Init ==
    /\ logins = 0
    /\ signed = 0
    /\ auth = [t \in Tab |-> 0]
    /\ elapsed = [t \in Tab |-> 0]
    /\ due = [t \in Tab |-> FALSE]
    /\ shown = [t \in Tab |-> FALSE]
    /\ modal = [t \in Tab |-> "none"]
    /\ saving = [t \in Tab |-> FALSE]
    /\ logouts = [t \in Tab |-> 0]
    /\ missed = [t \in Tab |-> FALSE]
    /\ absent = FALSE

SignedIn(t) == auth[t] # 0

(* The store of a tab with and without a session: the listeners and the    *)
(* interval exist only with one.                                           *)
SetSession(t, n) ==
    /\ auth' = [auth EXCEPT ![t] = n]
    /\ elapsed' = [elapsed EXCEPT ![t] = 0]

ClearSession(t) ==
    /\ auth' = [auth EXCEPT ![t] = 0]
    /\ elapsed' = [elapsed EXCEPT ![t] = 0]
    /\ due' = [due EXCEPT ![t] = FALSE]
    /\ shown' = [shown EXCEPT ![t] = FALSE]
    /\ missed' = [missed EXCEPT ![t] = FALSE]

Login(t) ==
    /\ ~SignedIn(t)
    /\ logins < MaxLogins
    /\ logins' = logins + 1
    /\ signed' = logins + 1
    /\ SetSession(t, logins + 1)
    /\ UNCHANGED <<due, shown, modal, saving, logouts, missed>>

(* Mutant: reading the session closes what is open. *)
ReadSessionClosing(t, ok) ==
    /\ IF signed # 0 /\ ok
       THEN SetSession(t, signed) /\ UNCHANGED <<due, shown, missed>>
       ELSE ClearSession(t)
    /\ modal' = [modal EXCEPT ![t] = "none"]
    /\ UNCHANGED <<logins, signed, saving, logouts>>

(* useSession: a query of the session sets the store, which counts as      *)
(* activity but does not reset warningShown; without cookies, and after    *)
(* any error, it clears the store, and the cookies stay.                   *)
ReadSession(t, ok) ==
    /\ IF signed # 0 /\ ok
       THEN SetSession(t, signed) /\ UNCHANGED <<due, shown, missed>>
       ELSE ClearSession(t)
    /\ UNCHANGED <<logins, signed, modal, saving, logouts>>

-----------------------------------------------------------------------------
(* The user *)

(* Any event of the mouse or the keyboard. *)
Active(t) ==
    /\ elapsed' = [elapsed EXCEPT ![t] = 0]
    /\ shown' = [shown EXCEPT ![t] = FALSE]
    /\ missed' = [missed EXCEPT ![t] = FALSE]

Activity(t) ==
    /\ SignedIn(t)
    /\ Active(t)
    /\ UNCHANGED <<logins, signed, auth, due, modal, saving, logouts>>

Open(t, m) ==
    /\ SignedIn(t)
    /\ modal[t] = "none"
    /\ Active(t)
    /\ modal' = [modal EXCEPT ![t] = m]
    /\ UNCHANGED <<logins, signed, auth, due, saving, logouts>>

(* Closing the warning, too, renews the activity: "stay signed in". *)
Close(t) ==
    /\ modal[t] # "none"
    /\ IF SignedIn(t) THEN Active(t) ELSE UNCHANGED <<elapsed, shown, missed>>
    /\ modal' = [modal EXCEPT ![t] = "none"]
    /\ UNCHANGED <<logins, signed, auth, due, saving, logouts>>

(* Either dialog confirms the logout and closes. *)
SignOut(t) ==
    /\ SignedIn(t)
    /\ modal[t] \in {"idle-warning", "logout-confirm"}
    /\ logouts[t] < MaxLogouts
    /\ Active(t)
    /\ modal' = [modal EXCEPT ![t] = "none"]
    /\ logouts' = [logouts EXCEPT ![t] = @ + 1]
    /\ UNCHANGED <<logins, signed, auth, due, saving>>

Save(t) ==
    /\ SignedIn(t)
    /\ modal[t] = "case-status-transition"
    /\ ~saving[t]
    /\ Active(t)
    /\ saving' = [saving EXCEPT ![t] = TRUE]
    /\ UNCHANGED <<logins, signed, auth, due, modal, logouts>>

-----------------------------------------------------------------------------
(* What comes back *)

(* The hook of the transition closes whatever modal is open by then; an    *)
(* error leaves it.                                                        *)
SaveEnds(t, ok) ==
    /\ saving[t]
    /\ saving' = [saving EXCEPT ![t] = FALSE]
    /\ modal' = IF ok THEN [modal EXCEPT ![t] = "none"] ELSE modal
    /\ missed' = [missed EXCEPT ![t] = @ \/ (ok /\ modal[t] = "idle-warning")]
    /\ UNCHANGED <<logins, signed, auth, elapsed, due, shown, logouts, absent>>

(* useLogout: success and failure clear the cookies and the store. *)
LogoutEnds(t) ==
    /\ logouts[t] > 0
    /\ logouts' = [logouts EXCEPT ![t] = @ - 1]
    /\ signed' = 0
    /\ ClearSession(t)
    /\ UNCHANGED <<logins, modal, saving, absent>>

-----------------------------------------------------------------------------
(* The clock *)

Tick ==
    /\ \A t \in Tab : ~due[t]
    /\ elapsed' = [t \in Tab |->
          IF SignedIn(t) /\ elapsed[t] < Timeout THEN elapsed[t] + 1 ELSE elapsed[t]]
    /\ due' = [t \in Tab |-> SignedIn(t)]
    /\ UNCHANGED <<logins, signed, auth, shown, modal, saving, logouts, missed, absent>>

(* Mutant: the timer hides the warning and does not log out. *)
TimeOutSilently(t) ==
    /\ elapsed[t] >= Timeout
    /\ shown' = [shown EXCEPT ![t] = FALSE]
    /\ UNCHANGED <<modal, logouts, missed>>

(* The timer asks for a logout in every tick until one has ended. *)
TimeOut(t) ==
    /\ elapsed[t] >= Timeout
    /\ shown' = [shown EXCEPT ![t] = FALSE]
    /\ logouts' = [logouts EXCEPT ![t] = IF @ < MaxLogouts THEN @ + 1 ELSE @]
    /\ UNCHANGED <<modal, missed>>

(* Mutant: the modal is opened under a name that is not one of them. *)
WarnMisnamed(t) ==
    /\ elapsed[t] < Timeout
    /\ elapsed[t] >= Threshold
    /\ ~shown[t]
    /\ modal' = [modal EXCEPT ![t] = "idle"]
    /\ shown' = [shown EXCEPT ![t] = TRUE]
    /\ missed' = [missed EXCEPT ![t] = FALSE]
    /\ UNCHANGED logouts

Warn(t) ==
    /\ elapsed[t] < Timeout
    /\ elapsed[t] >= Threshold
    /\ ~shown[t]
    /\ modal' = [modal EXCEPT ![t] = "idle-warning"]
    /\ shown' = [shown EXCEPT ![t] = TRUE]
    /\ missed' = [missed EXCEPT ![t] = FALSE]
    /\ UNCHANGED logouts

Quiet(t) ==
    /\ elapsed[t] < Timeout
    /\ elapsed[t] < Threshold \/ shown[t]
    /\ UNCHANGED <<modal, shown, logouts, missed>>

Fire(t) ==
    /\ due[t]
    /\ due' = [due EXCEPT ![t] = FALSE]
    /\ TimeOut(t) \/ Warn(t) \/ Quiet(t)
    /\ UNCHANGED <<logins, signed, auth, elapsed, saving, absent>>

-----------------------------------------------------------------------------
(* The session is read on loading, focus and reconnection.                 *)
User(t) ==
    /\ ~absent
    /\ \/ Login(t) \/ Activity(t)
       \/ \E ok \in BOOLEAN : ReadSession(t, ok)
       \/ \E m \in {"logout-confirm", "case-status-transition"} : Open(t, m)
       \/ Close(t) \/ SignOut(t) \/ Save(t)
    /\ UNCHANGED absent

(* From here on nobody touches a tab, and no tab is loaded, focused or      *)
(* reconnected: that would read the session, which counts as activity.     *)
Leave ==
    /\ ~absent
    /\ absent' = TRUE
    /\ UNCHANGED <<logins, signed, auth, elapsed, due, shown, modal, saving, logouts, missed>>

Next ==
    \/ \E t \in Tab :
          \/ User(t) \/ Fire(t) \/ LogoutEnds(t)
          \/ \E ok \in BOOLEAN : SaveEnds(t, ok)
    \/ Tick
    \/ Leave

Spec == Init /\ [][Next]_vars

(* Time passes, intervals fire, and a request is answered or times out.    *)
Fairness ==
    /\ WF_vars(Tick)
    /\ \A t \in Tab : WF_vars(Fire(t)) /\ WF_vars(LogoutEnds(t))

FairSpec == Spec /\ Fairness

-----------------------------------------------------------------------------
(* Properties *)

(* useIdleTimeout.ts:58-73: when the time of a tab is up and its timer     *)
(* asks for the logout, the warning is on the screen, also if the session  *)
(* was read in between and warningShown kept a second warning away; unless *)
(* a status transition that ended late has closed it since the officer's   *)
(* last act (useTransitionCaseStatus.ts:21).                               *)
WarnedFirst ==
    \A t \in Tab : (SignedIn(t) /\ elapsed[t] >= Timeout)
        => modal[t] = "idle-warning" \/ missed[t]

(* ui.store.ts:30-31, useTransitionCaseStatus.ts:21: the slot holds one     *)
(* modal, and of all that goes on only a status transition that ends late  *)
(* takes the warning off the screen of an officer who has not acted.       *)
WarningStays ==
    [][\A t \in Tab : (shown[t] /\ shown'[t] /\ modal[t] = "idle-warning")
          => modal'[t] = "idle-warning" \/ saving[t]]_vars

(* useIdleTimeout.ts:62-66: once the officer has left, every tab that      *)
(* shows a session ends it, in its store and in the cookies.  A tab whose  *)
(* read of the session failed shows none and has no timer: it ends nothing *)
(* (useSession.ts:17-18).                                                  *)
IdleEnds ==
    \A t \in Tab : (absent /\ SignedIn(t)) ~> (signed = 0 /\ ~SignedIn(t))
=============================================================================
