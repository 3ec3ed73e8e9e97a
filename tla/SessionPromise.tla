--------------------------- MODULE SessionPromise ---------------------------
(***************************************************************************)
(* What clients and officers may rely on: a session is opened once and     *)
(* closed once; a request is accepted only if it was fit - its session     *)
(* open, its token not revoked - when it came in; one that came too late    *)
(* closes no session that is open; and a session that a request has         *)
(* removed is closed.  Which keys of the store say so, and in how many      *)
(* commands they are written, is no part of the promise.                    *)
(***************************************************************************)
CONSTANTS Sessions, Requests, NoSession

VARIABLES
    life, \* of each session: unborn, open, closed
    ask   \* of each request: its session and how far it came with it

State == {"none", "fit", "late", "accepted", "removing", "removed"}

NoAsk == [sid |-> NoSession, state |-> "none"]

Init ==
    /\ life = [s \in Sessions |-> "unborn"]
    /\ ask = [r \in Requests |-> NoAsk]

Close(S) == life' = [s \in Sessions |-> IF s \in S THEN "closed" ELSE life[s]]

Become(r, a) == ask' = [ask EXCEPT ![r] = a]

Move(r, state) == Become(r, [sid |-> ask[r].sid, state |-> state])

(* A login, or a changed password, opens a session. *)
Open(s) ==
    /\ life[s] = "unborn"
    /\ life' = [life EXCEPT ![s] = "open"]
    /\ UNCHANGED ask

(* Open sessions end: by their limits, by a newer login, by a new password. *)
Lapse(S) ==
    /\ \A s \in S : life[s] = "open"
    /\ Close(S)
    /\ UNCHANGED ask

Ask(r, s) ==
    /\ ask[r].state = "none" /\ life[s] # "unborn"
    /\ \/ life[s] = "open" /\ Become(r, [sid |-> s, state |-> "fit"])
       \/ Become(r, [sid |-> s, state |-> "late"])
    /\ UNCHANGED life

Accept(r) ==
    /\ ask[r].state = "fit"
    /\ Move(r, "accepted")
    /\ UNCHANGED life

(* A logout removes the session, and so does a request that finds it idle,  *)
(* too old or incomplete.                                                   *)
StartRemoval(r) ==
    /\ \/ ask[r].state \in {"fit", "accepted"}
       \/ ask[r].state = "late" /\ life[ask[r].sid] = "closed"
    /\ Move(r, "removing")
    /\ UNCHANGED life

Removed(r) ==
    /\ ask[r].state = "removing"
    /\ Close({ask[r].sid})
    /\ Move(r, "removed")

(* A fit request that is refused for a changed role takes its session along.*)
Refuse(r) ==
    /\ ask[r].state = "fit"
    /\ Close({ask[r].sid})
    /\ Become(r, NoAsk)

(* Answered, failed, or busy with what is no longer about its session.      *)
Leave(r) ==
    /\ Become(r, NoAsk)
    /\ UNCHANGED life

Next ==
    \/ \E s \in Sessions : Open(s)
    \/ \E S \in SUBSET Sessions : Lapse(S)
    \/ \E r \in Requests :
          \/ Accept(r) \/ StartRemoval(r) \/ Removed(r) \/ Refuse(r) \/ Leave(r)
          \/ \E s \in Sessions : Ask(r, s)

Spec == Init /\ [][Next]_<<life, ask>>
=============================================================================
