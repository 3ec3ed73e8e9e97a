----------------------- MODULE CaseProceedingsProofs -----------------------
(* Proofs about CaseProceedings, for every set of charges and requests.     *)
EXTENDS CaseProceedings, TLAPS

(* The requests that change a charge. *)
ChargeEndpoint == {"file", "attach", "patchCharge", "dropCharge", "setCharge", "sentence"}

StatusEndpoint == {"patchCase", "caseStatus"}

(* What a request carries fits what it asks for, and what it waits for.     *)
Fits(endpoint, request, step) ==
    /\ endpoint = "verdict" => request.value \in VerdictEnum
    /\ endpoint \in ChargeEndpoint => request.charge \in Charges
    /\ endpoint \in {"patchCharge", "dropCharge", "setCharge"} => request.value \in ChargeStatus
    /\ endpoint \in StatusEndpoint => request.value \in Status
    /\ step = "insertCourt" => endpoint = "openCourt"
    /\ step = "insertSentence" => endpoint = "sentence"

Shape(r) == Fits(req[r].endpoint, req[r], pc[r])

TypeInv == TypeOK /\ \A r \in Requests : Shape(r)

-----------------------------------------------------------------------------
(* The rows of the court case. *)
CourtInv ==
    /\ courts <= 1
    /\ TerminalVerdictCloses
    /\ CourtFollowsReferral
    /\ status = "referred_to_court" => referred
    /\ \A r \in Requests : req[r].endpoint = "openCourt" => referred

(* A request for a sentence was let in by a conviction; past its insertion  *)
(* it is alone with its charge, which has no other sentence.                *)
SentenceRequest(r) ==
    /\ req[r].endpoint = "sentence" => req[r].charge \in convicted
    /\ Sentencing(r) => sentences[req[r].charge] = 0

SentenceAlone ==
    \A r, q \in Requests :
        Sentencing(r) /\ Sentencing(q) /\ req[r].charge = req[q].charge => r = q

SentenceInv ==
    /\ \A c \in Charges :
          /\ sentences[c] <= 1
          /\ sentences[c] > 0 => c \in convicted
          /\ charge[c].status = "convicted" => c \in convicted
    /\ \A r \in Requests : SentenceRequest(r)
    /\ SentenceAlone

IInv == TypeInv /\ CourtInv /\ SentenceInv

-----------------------------------------------------------------------------
(* How a request changes the program counters and the requests.             *)

Others(r) == \A q \in Requests \ {r} : req'[q] = req[q] /\ pc'[q] = pc[q]

LEMMA NoRequestType == NoRequest \in Request
BY ProceedingsAssumption DEF NoRequest, Request, Role, CourtRef

LEMMA EndFacts ==
    ASSUME NEW r \in Requests, TypeInv, End(r)
    PROVE  /\ pc' \in [Requests -> Step] /\ req' \in [Requests -> Request]
           /\ courtLock' \in Requests \cup {None} /\ caseLock' \in Requests \cup {None}
           /\ req'[r] = NoRequest /\ pc'[r] = "idle" /\ Others(r)
BY NoRequestType DEF End, TypeInv, TypeOK, Step, Others

LEMMA BeginFacts ==
    ASSUME NEW r \in Requests, NEW endpoint \in Endpoint, NEW request \in Request,
           NEW step \in Step, TypeInv, Begin(r, endpoint, request, step)
    PROVE  /\ pc' \in [Requests -> Step] /\ req' \in [Requests -> Request]
           /\ req'[r].endpoint = endpoint /\ req'[r].charge = request.charge
           /\ req'[r].value = request.value /\ req'[r].close = request.close
           /\ pc'[r] = step /\ Others(r)
           /\ UNCHANGED <<rows, history, locks>>
<1>. DEFINE new == [request EXCEPT !.endpoint = endpoint]
<1>1. /\ new \in Request /\ new.endpoint = endpoint
      /\ new.charge = request.charge /\ new.value = request.value /\ new.close = request.close
  BY DEF Request
<1>2. Goto(r, step) /\ req' = [req EXCEPT ![r] = new] /\ UNCHANGED <<rows, history, locks>>
  BY DEF Begin
<1>. HIDE DEF new
<1>. QED
  BY <1>1, <1>2 DEF Goto, TypeInv, TypeOK, Others

LEMMA GotoFacts ==
    ASSUME NEW r \in Requests, NEW step \in Step, TypeInv, Goto(r, step)
    PROVE  /\ pc' \in [Requests -> Step] /\ pc'[r] = step
           /\ \A q \in Requests \ {r} : pc'[q] = pc[q]
BY DEF Goto, TypeInv, TypeOK

(* Every arrival is a Begin that fits, and stands on what it has checked.   *)
Arrival(r) ==
    \E endpoint \in Endpoint, request \in Request, step \in Step :
        /\ Begin(r, endpoint, request, step)
        /\ Fits(endpoint, request, step)
        /\ endpoint = "openCourt" => status = "referred_to_court"
        /\ endpoint = "sentence" => /\ step = "insertSentence"
                                    /\ charge[request.charge].status = "convicted"
        /\ ~request.close
        /\ step \in {"insertCourt", "flushCourt", "insertSentence", "countAll", "commit"}
        /\ step = "flushCourt" => endpoint = "verdict"

LEMMA Arrivals == ASSUME NEW r \in Requests, TypeInv, Receive(r) PROVE Arrival(r)
<1>. USE DEF Fits, ChargeEndpoint, StatusEndpoint
<1>1. CASE OpenCourt(r)
  BY <1>1, NoRequestType DEF OpenCourt, Arrival, Endpoint, Step, NoRequest
<1>2. CASE RecordVerdict(r)
  <2>1. PICK v \in Verdicts :
            Begin(r, "verdict", [NoRequest EXCEPT !.value = v, !.court = "own"], "flushCourt")
    BY <1>2 DEF RecordVerdict
  <2>. DEFINE new == [NoRequest EXCEPT !.value = v, !.court = "own"]
  <2>2. v \in VerdictEnum
    BY ProceedingsAssumption
  <2>3. new \in Request /\ new.value = v /\ ~new.close
    BY <2>2, NoRequestType DEF Request, CourtRef, NoRequest
  <2>. HIDE DEF new
  <2>. QED
    BY <2>1, <2>2, <2>3 DEF Arrival, Endpoint, Step, new
<1>3. CASE FileCharge(r)
  <2>1. PICK c \in Charges, ref \in CourtRef :
            Begin(r, "file", [NoRequest EXCEPT !.charge = c, !.court = ref], "commit")
    BY <1>3 DEF FileCharge
  <2>. DEFINE new == [NoRequest EXCEPT !.charge = c, !.court = ref]
  <2>2. new \in Request /\ new.charge = c /\ ~new.close
    BY NoRequestType DEF Request, NoRequest
  <2>. HIDE DEF new
  <2>. QED
    BY <2>1, <2>2 DEF Arrival, Endpoint, Step, new
<1>4. CASE Attach(r)
  <2>1. PICK c \in Charges, ref \in CourtRef :
            Begin(r, "attach", [NoRequest EXCEPT !.charge = c, !.court = ref], "commit")
    BY <1>4 DEF Attach, Filed
  <2>. DEFINE new == [NoRequest EXCEPT !.charge = c, !.court = ref]
  <2>2. new \in Request /\ new.charge = c /\ ~new.close
    BY NoRequestType DEF Request, NoRequest
  <2>. HIDE DEF new
  <2>. QED
    BY <2>1, <2>2 DEF Arrival, Endpoint, Step, new
<1>5. CASE PatchCharge(r) \/ DropCharge(r) \/ SetCharge(r)
  <2>1. \A s \in ChargeStatus : ChargeTransitions[s] \subseteq ChargeStatus
    BY DEF ChargeTransitions, ChargeStatus
  <2>2. \A c \in Filed : charge[c].status \in ChargeStatus
    BY DEF TypeInv, TypeOK, Filed, Charge
  <2>3. PICK c \in Charges, s \in ChargeStatus,
             endpoint \in {"patchCharge", "dropCharge", "setCharge"} :
            Begin(r, endpoint, [NoRequest EXCEPT !.charge = c, !.value = s], "commit")
    <3>1. CASE PatchCharge(r)
      BY <2>1, <2>2, <3>1 DEF PatchCharge, Filed
    <3>2. CASE DropCharge(r)
      BY <3>2 DEF DropCharge, Filed, ChargeStatus
    <3>3. CASE SetCharge(r)
      BY <3>3 DEF SetCharge, Filed
    <3>. QED
      BY <1>5, <3>1, <3>2, <3>3
  <2>. DEFINE new == [NoRequest EXCEPT !.charge = c, !.value = s]
  <2>4. new \in Request /\ new.charge = c /\ new.value = s /\ ~new.close
    BY NoRequestType DEF Request, NoRequest
  <2>. HIDE DEF new
  <2>. QED
    BY <2>3, <2>4 DEF Arrival, Endpoint, Step, new
<1>6. CASE CreateSentence(r)
  <2>1. PICK c \in Charges :
            /\ charge[c].status = "convicted"
            /\ Begin(r, "sentence", [NoRequest EXCEPT !.charge = c, !.court = charge[c].court],
                     "insertSentence")
    BY <1>6 DEF CreateSentence, Filed
  <2>. DEFINE new == [NoRequest EXCEPT !.charge = c, !.court = charge[c].court]
  <2>2. charge[c].court \in CourtRef
    BY DEF TypeInv, TypeOK, Charge
  <2>3. new \in Request /\ new.charge = c /\ ~new.close
    BY <2>2, NoRequestType DEF Request, NoRequest
  <2>. HIDE DEF new
  <2>. QED
    BY <2>1, <2>3 DEF Arrival, Endpoint, Step, new
<1>7. CASE PatchCase(r) \/ UpdateCaseStatus(r)
  <2>1. PICK role \in Role, s \in Status, endpoint \in StatusEndpoint,
             step \in {"countAll", "commit"} :
            Begin(r, endpoint, [NoRequest EXCEPT !.role = role, !.value = s], step)
    BY <1>7 DEF PatchCase, UpdateCaseStatus, BeginStatus
  <2>. DEFINE new == [NoRequest EXCEPT !.role = role, !.value = s]
  <2>2. new \in Request /\ new.value = s /\ ~new.close
    BY NoRequestType DEF Request, NoRequest
  <2>. HIDE DEF new
  <2>. QED
    BY <2>1, <2>2 DEF Arrival, Endpoint, Step, new
<1>8. CASE DeleteCase(r)
  <2>. DEFINE new == [NoRequest EXCEPT !.role = "superadmin"]
  <2>1. new \in Request /\ ~new.close
    BY NoRequestType DEF Request, Role, NoRequest
  <2>. QED
    BY <1>8, <2>1 DEF DeleteCase, Arrival, Endpoint, Step
<1>. QED
  BY <1>1, <1>2, <1>3, <1>4, <1>5, <1>6, <1>7, <1>8 DEF Receive

-----------------------------------------------------------------------------
(* The type invariant. *)

LEMMA InitType == Init => TypeInv
<1>. SUFFICES ASSUME Init PROVE TypeInv
  OBVIOUS
<1>1. TypeOK
  BY NoRequestType DEF Init, TypeOK, Charge, CourtRef, VerdictEnum, Step
<1>2. \A r \in Requests : Shape(r)
  BY DEF Init, Shape, Fits, NoRequest, ChargeEndpoint, StatusEndpoint
<1>. QED
  BY <1>1, <1>2 DEF TypeInv

LEMMA EndShape ==
    ASSUME NEW r \in Requests, TypeInv, End(r)
    PROVE  \A q \in Requests : Shape(q)'
BY EndFacts DEF TypeInv, Shape, Fits, Others, NoRequest, ChargeEndpoint, StatusEndpoint

LEMMA GotoShape ==
    ASSUME NEW r \in Requests, NEW step \in Step, TypeInv, Goto(r, step), UNCHANGED req,
           step \notin {"insertCourt", "insertSentence"}
    PROVE  \A q \in Requests : Shape(q)'
BY GotoFacts DEF TypeInv, Shape, Fits

LEMMA CloseType ==
    ASSUME NEW r \in Requests, NEW b \in BOOLEAN, TypeInv, req' = [req EXCEPT ![r].close = b]
    PROVE  /\ req' \in [Requests -> Request]
           /\ \A q \in Requests : /\ req'[q].endpoint = req[q].endpoint
                                  /\ req'[q].charge = req[q].charge
                                  /\ req'[q].value = req[q].value
                                  /\ req'[q].role = req[q].role
<1>1. req[r] \in Request /\ req \in [Requests -> Request]
  BY DEF TypeInv, TypeOK
<1>2. [req[r] EXCEPT !.close = b] \in Request
  BY <1>1 DEF Request
<1>. QED
  BY <1>1, <1>2 DEF Request

LEMMA ClosingType ==
    ASSUME NEW r \in Requests, TypeInv, Closing(r)
    PROVE  status' \in Status /\ referred' \in BOOLEAN
BY DEF TypeInv, TypeOK, Closing, SetStatus, Status

LEMMA ProceedType == ASSUME NEW r \in Requests, TypeInv, Proceed(r) PROVE TypeInv'
<1>0. TypeOK
  BY DEF TypeInv
<1>1. CASE InsertCourt(r)
  <2>1. TypeOK'
    BY <1>0, <1>1, EndFacts DEF InsertCourt, TypeOK, history
  <2>. QED
    BY <2>1, <1>1, EndShape DEF InsertCourt, TypeInv
<1>2. CASE FlushCourt(r)
  <2>1. PICK step \in {"count", "commit"} : Goto(r, step)
    BY <1>2 DEF FlushCourt
  <2>2. TypeOK'
    BY <1>0, <1>2, <2>1, GotoFacts DEF FlushCourt, TypeOK, rows, court, history, Step
  <2>. QED
    BY <2>1, <2>2, <1>2, GotoShape DEF FlushCourt, TypeInv, Step
<1>3. CASE CountUnresolved(r) \/ ReadVerdict(r)
  <2>1. PICK step \in {"loadCase", "count", "commit"} : Goto(r, step)
    BY <1>3 DEF CountUnresolved, ReadVerdict
  <2>2. UNCHANGED <<rows, history, locks, req>>
    BY <1>3 DEF CountUnresolved, ReadVerdict
  <2>3. TypeOK'
    BY <1>0, <2>1, <2>2, GotoFacts DEF TypeOK, rows, court, history, locks, Step
  <2>. QED
    BY <2>1, <2>2, <2>3, GotoShape DEF TypeInv, Step
<1>4. CASE LoadCase(r)
  <2>. DEFINE b == ~deleted /\ status # "closed"
  <2>1. b \in BOOLEAN /\ req' = [req EXCEPT ![r].close = b]
    BY <1>0, <1>4 DEF LoadCase, TypeOK
  <2>. HIDE DEF b
  <2>2. PICK step \in {"lockCase", "commit"} : Goto(r, step)
    BY <1>4 DEF LoadCase
  <2>3. TypeOK'
    BY <1>0, <1>4, <2>1, <2>2, CloseType, GotoFacts
       DEF LoadCase, TypeOK, rows, court, history, locks, Step
  <2>4. \A q \in Requests : Shape(q)'
    BY <2>1, <2>2, CloseType, GotoFacts DEF TypeInv, Shape, Fits, Step
  <2>. QED
    BY <2>3, <2>4 DEF TypeInv
<1>5. CASE LockCase(r)
  <2>1. TypeOK'
    BY <1>0, <1>5, GotoFacts DEF LockCase, TypeOK, rows, court, history, Step
  <2>. QED
    BY <2>1, <1>5, GotoShape DEF LockCase, TypeInv, Step
<1>6. CASE InsertSentence(r) \/ CountAll(r)
  <2>1. UNCHANGED <<rows, history>>
    BY <1>6 DEF InsertSentence, CountAll
  <2>2. CASE End(r)
    <3>1. TypeOK'
      BY <1>0, <2>1, <2>2, EndFacts DEF TypeOK, rows, court, history
    <3>. QED
      BY <2>2, <3>1, EndShape DEF TypeInv
  <2>3. CASE UNCHANGED <<req, locks>> /\ \E step \in {"readVerdict", "commit"} : Goto(r, step)
    <3>1. TypeOK'
      BY <1>0, <2>1, <2>3, GotoFacts DEF TypeOK, rows, court, history, locks, Step
    <3>. QED
      BY <2>3, <3>1, GotoShape DEF TypeInv, Step
  <2>. QED
    BY <1>6, <2>2, <2>3 DEF InsertSentence, CountAll
<1>. QED
  BY <1>1, <1>2, <1>3, <1>4, <1>5, <1>6 DEF Proceed

(* What commits write has the type of its column. *)
LEMMA CommitTypes ==
    ASSUME NEW r \in Requests, TypeInv, Commit(r)
    PROVE  /\ status' \in Status /\ deleted' \in BOOLEAN
           /\ courts' = courts /\ verdict' \in VerdictEnum \cup {"none"}
           /\ concluded' \in BOOLEAN
           /\ charge' \in [Charges -> Charge] /\ sentences' \in [Charges -> Nat]
           /\ referred' \in BOOLEAN /\ convicted' \subseteq Charges
<1>1. TypeOK /\ Shape(r) /\ req[r] \in Request
  BY DEF TypeInv, TypeOK
<1>2. CASE CommitVerdict(r)
  BY <1>1, <1>2, ClosingType DEF CommitVerdict, Committing, TypeOK, Shape, Fits
<1>3. CASE CommitFile(r)
  <2>1. req[r].charge \in Charges /\ req[r].court \in CourtRef
    BY <1>1, <1>3 DEF CommitFile, Committing, Shape, Fits, ChargeEndpoint, Request
  <2>2. [status |-> "filed", court |-> req[r].court] \in Charge
    BY <2>1 DEF Charge, ChargeStatus
  <2>. QED
    BY <1>1, <1>3, <2>1, <2>2 DEF CommitFile, TypeOK, court, history
<1>4. CASE CommitAttach(r)
  <2>1. req[r].charge \in Charges /\ req[r].court \in CourtRef
    BY <1>1, <1>4 DEF CommitAttach, Committing, Shape, Fits, ChargeEndpoint, Request
  <2>2. charge[req[r].charge] \in Charge
    BY <1>1, <2>1 DEF TypeOK
  <2>3. [charge[req[r].charge] EXCEPT !.court = req[r].court] \in Charge
    BY <2>1, <2>2 DEF Charge
  <2>. QED
    BY <1>1, <1>4, <2>1, <2>3 DEF CommitAttach, TypeOK, court, history
<1>5. CASE CommitCharge(r)
  <2>1. req[r].charge \in Charges /\ req[r].value \in ChargeStatus
    BY <1>1, <1>5 DEF CommitCharge, Committing, Shape, Fits, ChargeEndpoint
  <2>2. charge[req[r].charge] \in Charge
    BY <1>1, <2>1 DEF TypeOK
  <2>3. [charge[req[r].charge] EXCEPT !.status = req[r].value] \in Charge
    BY <2>1, <2>2 DEF Charge
  <2>4. charge' \in [Charges -> Charge]
    BY <1>1, <1>5, <2>1, <2>3 DEF CommitCharge, TypeOK
  <2>5. convicted' \subseteq Charges
    BY <1>1, <1>5, <2>1 DEF CommitCharge, TypeOK
  <2>. QED
    BY <1>1, <1>5, <2>4, <2>5 DEF CommitCharge, TypeOK, court
<1>6. CASE CommitSentence(r)
  <2>1. sentences' \in [Charges -> Nat]
    BY <1>1, <1>6 DEF CommitSentence, Committing, Shape, Fits, ChargeEndpoint, TypeOK
  <2>. QED
    BY <1>1, <1>6, <2>1, ClosingType DEF CommitSentence, TypeOK, court
<1>7. CASE CommitStatus(r)
  BY <1>1, <1>7 DEF CommitStatus, Committing, Shape, Fits, StatusEndpoint, SetStatus, TypeOK, court
<1>8. CASE CommitDelete(r)
  BY <1>1, <1>8 DEF CommitDelete, TypeOK, court, history
<1>. QED
  BY <1>2, <1>3, <1>4, <1>5, <1>6, <1>7, <1>8 DEF Commit

LEMMA CommitEnds == ASSUME NEW r \in Requests, Commit(r) PROVE End(r)
BY DEF Commit, CommitVerdict, CommitFile, CommitAttach, CommitCharge, CommitSentence,
   CommitStatus, CommitDelete, Committing

LEMMA TypeStep == TypeInv /\ [Next]_vars => TypeInv'
<1>. SUFFICES ASSUME TypeInv, [Next]_vars PROVE TypeInv'
  OBVIOUS
<1>1. CASE UNCHANGED vars
  BY <1>1 DEF vars, rows, court, history, locks, TypeInv, TypeOK, Shape
<1>2. ASSUME NEW r \in Requests, Receive(r) PROVE TypeInv'
  <2>1. PICK endpoint \in Endpoint, request \in Request, step \in Step :
            Begin(r, endpoint, request, step) /\ Fits(endpoint, request, step)
    BY <1>2, Arrivals DEF Arrival
  <2>2. TypeOK'
    BY <2>1, BeginFacts DEF TypeInv, TypeOK, rows, court, history, locks
  <2>3. Shape(r)'
    BY <2>1, BeginFacts DEF Shape, Fits
  <2>4. \A q \in Requests \ {r} : Shape(q)'
    BY <2>1, BeginFacts DEF TypeInv, Shape, Others
  <2>. QED
    BY <2>2, <2>3, <2>4 DEF TypeInv
<1>3. ASSUME NEW r \in Requests, Proceed(r) PROVE TypeInv'
  BY <1>3, ProceedType
<1>4. ASSUME NEW r \in Requests, Commit(r) PROVE TypeInv'
  <2>1. TypeOK'
    BY <1>4, CommitTypes, CommitEnds, EndFacts DEF TypeInv, TypeOK
  <2>. QED
    BY <2>1, <1>4, CommitEnds, EndShape DEF TypeInv
<1>5. ASSUME NEW r \in Requests, Fail(r) PROVE TypeInv'
  <2>1. TypeOK'
    BY <1>5, EndFacts DEF Fail, TypeInv, TypeOK, rows, court, history
  <2>. QED
    BY <2>1, <1>5, EndShape DEF Fail, TypeInv
<1>. QED
  BY <1>1, <1>2, <1>3, <1>4, <1>5 DEF Next

(* Every reachable state has the types of its variables. *)
THEOREM TypeCorrect == Spec => []TypeOK
<1>1. TypeInv => TypeOK
  BY DEF TypeInv
<1>. QED
  BY InitType, TypeStep, <1>1, PTL DEF Spec

-----------------------------------------------------------------------------
(* The court case. *)

(* Whatever a step that is no commit does, it opens no new request for a    *)
(* court case but an arrival.                                               *)
LEMMA ProceedKeeps ==
    ASSUME NEW r \in Requests, TypeInv, Proceed(r)
    PROVE  \/ End(r)
           \/ /\ UNCHANGED <<rows, history>>
              /\ \A q \in Requests : /\ req'[q].endpoint = req[q].endpoint
                                     /\ req'[q].charge = req[q].charge
                                     /\ req'[q].value = req[q].value
                                     /\ req'[q].role = req[q].role
              /\ \A q \in Requests \ {r} : pc'[q] = pc[q]
              /\ pc[r] = "insertSentence" =>
                    /\ sentences[req[r].charge] = 0
                    /\ ~\E q \in Requests : Sentencing(q) /\ req[q].charge = req[r].charge
              /\ pc'[r] # "insertSentence"
<1>1. CASE InsertCourt(r)
  BY <1>1 DEF InsertCourt
<1>2. CASE FlushCourt(r) \/ CountUnresolved(r) \/ ReadVerdict(r) \/ LockCase(r)
  <2>1. PICK step \in {"count", "loadCase", "commit"} : Goto(r, step)
    BY <1>2 DEF FlushCourt, CountUnresolved, ReadVerdict, LockCase
  <2>2. UNCHANGED <<rows, history, req>> /\ pc[r] # "insertSentence"
    BY <1>2 DEF FlushCourt, CountUnresolved, ReadVerdict, LockCase
  <2>. QED
    BY <2>1, <2>2, GotoFacts DEF Step
<1>3. CASE LoadCase(r)
  <2>1. PICK step \in {"lockCase", "commit"} : Goto(r, step)
    BY <1>3 DEF LoadCase
  <2>. DEFINE b == ~deleted /\ status # "closed"
  <2>2. b \in BOOLEAN /\ req' = [req EXCEPT ![r].close = b]
    BY <1>3 DEF LoadCase, TypeInv, TypeOK
  <2>. HIDE DEF b
  <2>3. UNCHANGED <<rows, history>> /\ pc[r] # "insertSentence"
    BY <1>3 DEF LoadCase
  <2>. QED
    BY <2>1, <2>2, <2>3, GotoFacts, CloseType DEF Step
<1>4. CASE InsertSentence(r)
  <2>1. CASE End(r)
    BY <2>1
  <2>2. CASE ~End(r)
    <3>1. Goto(r, "readVerdict") /\ UNCHANGED <<req, rows, history>>
          /\ sentences[req[r].charge] = 0
      BY <1>4, <2>2 DEF InsertSentence
    <3>. QED
      BY <1>4, <3>1, GotoFacts DEF Step, InsertSentence
  <2>. QED
    BY <2>1, <2>2
<1>5. CASE CountAll(r)
  <2>1. CASE End(r)
    BY <2>1
  <2>2. CASE ~End(r)
    <3>1. Goto(r, "commit") /\ UNCHANGED <<req, rows, history>> /\ pc[r] # "insertSentence"
      BY <1>5, <2>2 DEF CountAll
    <3>. QED
      BY <3>1, GotoFacts DEF Step
  <2>. QED
    BY <2>1, <2>2
<1>. QED
  BY <1>1, <1>2, <1>3, <1>4, <1>5 DEF Proceed

LEMMA CourtStep == IInv /\ [Next]_vars => CourtInv'
<1>. SUFFICES ASSUME IInv, [Next]_vars PROVE CourtInv'
  OBVIOUS
<1>. USE DEF TerminalVerdictCloses, CourtFollowsReferral
<1>0. TypeInv /\ TypeOK /\ CourtInv
  BY DEF IInv, TypeInv
<1>1. CASE UNCHANGED vars
  BY <1>0, <1>1 DEF vars, rows, court, history, CourtInv
<1>2. ASSUME NEW r \in Requests, Receive(r) PROVE CourtInv'
  <2>1. PICK endpoint \in Endpoint, request \in Request, step \in Step :
            /\ Begin(r, endpoint, request, step)
            /\ endpoint = "openCourt" => status = "referred_to_court"
    BY <1>0, <1>2, Arrivals DEF Arrival
  <2>. QED
    BY <1>0, <2>1, BeginFacts DEF CourtInv, Others, rows, court, history
<1>3. ASSUME NEW r \in Requests, End(r) PROVE
          \A q \in Requests : req'[q].endpoint = "openCourt" => req[q].endpoint = "openCourt"
  BY <1>0, <1>3, EndFacts DEF Others, NoRequest
<1>4. ASSUME NEW r \in Requests, Proceed(r) PROVE CourtInv'
  <2>1. CASE InsertCourt(r)
    <3>1. req[r].endpoint = "openCourt" /\ courts \in Nat /\ End(r)
      BY <1>0, <2>1 DEF InsertCourt, TypeInv, TypeOK, Shape, Fits
    <3>. QED
      BY <1>0, <1>3, <2>1, <3>1 DEF CourtInv, InsertCourt, history
  <2>2. CASE ~InsertCourt(r)
    <3>1. UNCHANGED <<rows, history>>
      BY <1>4, <2>2 DEF Proceed, FlushCourt, CountUnresolved, LoadCase, LockCase,
         InsertSentence, ReadVerdict, CountAll
    <3>2. \A q \in Requests : req'[q].endpoint = "openCourt" => req[q].endpoint = "openCourt"
      BY <1>0, <1>3, <1>4, ProceedKeeps
    <3>. QED
      BY <1>0, <3>1, <3>2 DEF CourtInv, rows, court, history
  <2>. QED
    BY <2>1, <2>2
<1>5. ASSUME NEW r \in Requests, Commit(r) PROVE CourtInv'
  <2>1. End(r) /\ \A q \in Requests :
                     req'[q].endpoint = "openCourt" => req[q].endpoint = "openCourt"
    BY <1>3, <1>5, CommitEnds
  <2>2. UNCHANGED courts /\ (TerminalVerdictCloses')
    BY <1>0, <1>5 DEF Commit, CommitVerdict, CommitFile, CommitAttach, CommitCharge,
       CommitSentence, CommitStatus, CommitDelete, court, CourtInv
  <2>3. (referred => referred') /\ (status' = "referred_to_court" => referred')
    BY <1>0, <1>5 DEF Commit, CommitVerdict, CommitFile, CommitAttach, CommitCharge,
       CommitSentence, CommitStatus, CommitDelete, Closing, SetStatus, history, CourtInv
  <2>. QED
    BY <1>0, <2>1, <2>2, <2>3 DEF CourtInv
<1>6. ASSUME NEW r \in Requests, Fail(r) PROVE CourtInv'
  BY <1>0, <1>3, <1>6 DEF Fail, CourtInv, rows, court, history
<1>. QED
  BY <1>1, <1>2, <1>4, <1>5, <1>6 DEF Next

-----------------------------------------------------------------------------
(* The sentences. *)

(* A step that writes no charge and no sentence, and leaves r outside of    *)
(* the protected part.                                                      *)
LEMMA SentenceKept ==
    ASSUME NEW r \in Requests, IInv, UNCHANGED <<charge, sentences, convicted>>, Others(r),
           ~Sentencing(r)', req'[r].endpoint = "sentence" => req'[r].charge \in convicted
    PROVE  SentenceInv'
<1>1. SentenceInv
  BY DEF IInv
<1>2. \A q \in Requests \ {r} : /\ Sentencing(q)' = Sentencing(q)
                                /\ req'[q] = req[q]
  BY DEF Others, Sentencing
<1>3. \A q \in Requests : SentenceRequest(q)'
  BY <1>1, <1>2 DEF SentenceInv, SentenceRequest
<1>4. SentenceAlone'
  BY <1>1, <1>2 DEF SentenceInv, SentenceAlone
<1>. QED
  BY <1>1, <1>3, <1>4 DEF SentenceInv

LEMMA SentenceEnds ==
    ASSUME NEW r \in Requests, IInv, End(r), UNCHANGED <<charge, sentences, convicted>>
    PROVE  SentenceInv'
<1>1. TypeInv
  BY DEF IInv
<1>2. ~Sentencing(r)' /\ Others(r) /\ req'[r].endpoint # "sentence"
  BY <1>1, EndFacts DEF Sentencing, NoRequest
<1>. QED
  BY <1>2, SentenceKept

LEMMA SentenceProceeds == ASSUME NEW r \in Requests, IInv, Proceed(r) PROVE SentenceInv'
<1>0. TypeInv /\ SentenceInv
  BY DEF IInv
<1>1. CASE End(r)
  <2>1. UNCHANGED <<charge, sentences, convicted>>
    BY DEF Proceed, InsertCourt, FlushCourt, CountUnresolved, LoadCase, LockCase,
       InsertSentence, ReadVerdict, CountAll, rows, history
  <2>. QED
    BY <1>1, <2>1, SentenceEnds
<1>2. CASE ~End(r)
  <2>1. /\ UNCHANGED <<charge, sentences, convicted>>
        /\ \A q \in Requests : /\ req'[q].endpoint = req[q].endpoint
                               /\ req'[q].charge = req[q].charge
        /\ \A q \in Requests \ {r} : Sentencing(q)' = Sentencing(q)
        /\ Sentencing(r)' = (req[r].endpoint = "sentence")
    BY <1>0, <1>2, ProceedKeeps DEF rows, history, Sentencing
  <2>2. pc[r] # "insertSentence" => Sentencing(r)' = Sentencing(r)
    BY <2>1 DEF Sentencing
  <2>3. pc[r] = "insertSentence" =>
            /\ sentences[req[r].charge] = 0
            /\ ~\E q \in Requests : Sentencing(q) /\ req[q].charge = req[r].charge
    BY <1>0, <1>2, ProceedKeeps
  <2>4. \A q \in Requests : SentenceRequest(q)'
    BY <1>0, <2>1, <2>2, <2>3 DEF SentenceInv, SentenceRequest
  <2>5. SentenceAlone'
    BY <1>0, <2>1, <2>2, <2>3 DEF SentenceInv, SentenceAlone
  <2>. QED
    BY <1>0, <2>1, <2>4, <2>5 DEF SentenceInv
<1>. QED
  BY <1>1, <1>2

LEMMA SentenceCommits == ASSUME NEW r \in Requests, IInv, Commit(r) PROVE SentenceInv'
<1>0. TypeInv /\ TypeOK /\ SentenceInv /\ Shape(r)
  BY DEF IInv, TypeInv
<1>1. End(r) /\ Others(r) /\ req'[r].endpoint # "sentence" /\ ~Sentencing(r)'
  BY <1>0, CommitEnds, EndFacts DEF NoRequest, Sentencing
<1>2. \A q \in Requests \ {r} : (Sentencing(q)' = Sentencing(q)) /\ req'[q] = req[q]
  BY <1>1 DEF Others, Sentencing
<1>3. SentenceAlone'
  BY <1>0, <1>1, <1>2 DEF SentenceInv, SentenceAlone
<1>4. CASE CommitVerdict(r) \/ CommitStatus(r) \/ CommitDelete(r)
  <2>1. UNCHANGED <<charge, sentences, convicted>>
    BY <1>4 DEF CommitVerdict, CommitStatus, CommitDelete, history
  <2>. QED
    BY <1>1, <2>1, SentenceEnds
<1>5. CASE CommitFile(r) \/ CommitAttach(r) \/ CommitCharge(r)
  <2>1. req[r].charge \in Charges /\ UNCHANGED sentences
    BY <1>0, <1>5 DEF CommitFile, CommitAttach, CommitCharge, Committing, Shape, Fits,
       ChargeEndpoint
  <2>2. /\ \A c \in Charges : charge'[c].status = "convicted" => c \in convicted'
        /\ convicted \subseteq convicted'
    <3>1. CASE CommitFile(r)
      BY <1>0, <2>1, <3>1 DEF CommitFile, SentenceInv, TypeOK, Charge, history
    <3>2. CASE CommitAttach(r)
      <4>1. \A c \in Charges : charge[c] \in Charge
        BY <1>0 DEF TypeOK
      <4>2. \A c \in Charges : charge'[c].status = charge[c].status
        BY <1>0, <2>1, <3>2, <4>1 DEF CommitAttach, TypeOK, Charge
      <4>. QED
        BY <1>0, <3>2, <4>2 DEF CommitAttach, SentenceInv, history
    <3>3. CASE CommitCharge(r)
      <4>1. \A c \in Charges : charge[c] \in Charge
        BY <1>0 DEF TypeOK
      <4>2. \A c \in Charges : charge'[c].status =
                IF c = req[r].charge THEN req[r].value ELSE charge[c].status
        BY <1>0, <2>1, <3>3, <4>1 DEF CommitCharge, TypeOK, Charge
      <4>. QED
        BY <1>0, <3>3, <4>2 DEF CommitCharge, SentenceInv
    <3>. QED
      BY <1>5, <3>1, <3>2, <3>3
  <2>3. \A q \in Requests : SentenceRequest(q)'
    BY <1>0, <1>1, <1>2, <2>1, <2>2 DEF SentenceInv, SentenceRequest
  <2>. QED
    BY <1>0, <1>3, <2>1, <2>2, <2>3 DEF SentenceInv
<1>6. CASE CommitSentence(r)
  <2>. DEFINE c == req[r].charge
  <2>1. c \in Charges /\ Sentencing(r) /\ req[r].endpoint = "sentence"
    BY <1>0, <1>6 DEF CommitSentence, Committing, Shape, Fits, ChargeEndpoint, Sentencing
  <2>2. sentences[c] = 0 /\ c \in convicted
    BY <1>0, <2>1 DEF SentenceInv, SentenceRequest
  <2>3. /\ \A d \in Charges : sentences'[d] = IF d = c THEN 1 ELSE sentences[d]
        /\ UNCHANGED <<charge, convicted>>
    BY <1>0, <1>6, <2>1, <2>2 DEF CommitSentence, TypeOK
  <2>4. \A q \in Requests \ {r} : Sentencing(q) => req[q].charge # c
    BY <1>0, <2>1 DEF SentenceInv, SentenceAlone
  <2>5. \A q \in Requests : Sentencing(q) => req[q].charge \in Charges
    BY <1>0 DEF TypeInv, Shape, Fits, ChargeEndpoint, Sentencing
  <2>6. \A q \in Requests : SentenceRequest(q)'
    BY <1>0, <1>1, <1>2, <2>3, <2>4, <2>5 DEF SentenceInv, SentenceRequest
  <2>. QED
    BY <1>0, <1>3, <2>2, <2>3, <2>6 DEF SentenceInv
<1>. QED
  BY <1>4, <1>5, <1>6 DEF Commit

LEMMA SentenceStep == IInv /\ [Next]_vars => SentenceInv'
<1>. SUFFICES ASSUME IInv, [Next]_vars PROVE SentenceInv'
  OBVIOUS
<1>0. TypeInv /\ SentenceInv
  BY DEF IInv
<1>1. CASE UNCHANGED vars
  BY <1>0, <1>1 DEF vars, rows, history, SentenceInv, SentenceRequest, SentenceAlone, Sentencing
<1>2. ASSUME NEW r \in Requests, Receive(r) PROVE SentenceInv'
  <2>1. PICK endpoint \in Endpoint, request \in Request, step \in Step :
            /\ Begin(r, endpoint, request, step)
            /\ Fits(endpoint, request, step)
            /\ endpoint = "sentence" => /\ step = "insertSentence"
                                        /\ charge[request.charge].status = "convicted"
    BY <1>0, <1>2, Arrivals DEF Arrival
  <2>2. endpoint = "sentence" => request.charge \in convicted
    BY <1>0, <2>1 DEF Fits, ChargeEndpoint, SentenceInv
  <2>3. Others(r) /\ ~Sentencing(r)' /\ UNCHANGED <<charge, sentences, convicted>>
        /\ (req'[r].endpoint = "sentence" => req'[r].charge \in convicted)
    BY <1>0, <2>1, <2>2, BeginFacts DEF Sentencing, rows, history
  <2>. QED
    BY <2>3, SentenceKept
<1>3. ASSUME NEW r \in Requests, Fail(r) PROVE SentenceInv'
  BY <1>3, SentenceEnds DEF Fail, rows, history
<1>. QED
  BY <1>1, <1>2, <1>3, SentenceProceeds, SentenceCommits DEF Next

-----------------------------------------------------------------------------
LEMMA InitInv == Init => IInv
<1>. SUFFICES ASSUME Init PROVE IInv
  OBVIOUS
<1>1. CourtInv
  <2>1. courts = 0 /\ verdict \notin TerminalVerdicts /\ (status = "referred_to_court" => referred)
    BY DEF Init, TerminalVerdicts
  <2>2. \A r \in Requests : req[r].endpoint # "openCourt"
    BY DEF Init, NoRequest
  <2>. QED
    BY <2>1, <2>2 DEF CourtInv, TerminalVerdictCloses, CourtFollowsReferral
<1>2. SentenceInv
  BY DEF Init, SentenceInv, SentenceRequest, SentenceAlone, Sentencing, NoRequest
<1>. QED
  BY <1>1, <1>2, InitType DEF IInv

LEMMA Inductive == IInv /\ [Next]_vars => IInv'
BY TypeStep, CourtStep, SentenceStep DEF IInv

LEMMA Invariance == Spec => []IInv
BY InitInv, Inductive, PTL DEF Spec

(* However requests race, a case keeps at most one court case and a charge  *)
(* at most one sentence.                                                    *)
THEOREM RowsAreUnique == Spec => []UniqueRows
<1>1. IInv => UniqueRows
  BY DEF IInv, CourtInv, SentenceInv, UniqueRows
<1>. QED
  BY <1>1, Invariance, PTL

(* A terminal verdict always has a closing date. *)
THEOREM TerminalVerdictsClose == Spec => []TerminalVerdictCloses
<1>1. IInv => TerminalVerdictCloses
  BY DEF IInv, CourtInv
<1>. QED
  BY <1>1, Invariance, PTL

(* A court case exists only in a case that was referred to court. *)
THEOREM CourtsFollowReferral == Spec => []CourtFollowsReferral
<1>1. IInv => CourtFollowsReferral
  BY DEF IInv, CourtInv
<1>. QED
  BY <1>1, Invariance, PTL

(* A sentence exists only for a charge that was convicted. *)
THEOREM SentencesFollowConvictions == Spec => []SentencesFollowConviction
<1>1. IInv => SentencesFollowConviction
  BY DEF IInv, SentenceInv, SentencesFollowConviction
<1>. QED
  BY <1>1, Invariance, PTL

-----------------------------------------------------------------------------
(* Locks and closures.                                                      *)

ClosureStep == {"count", "loadCase", "lockCase"}

(* Whoever has the lock of the court case records a verdict; whoever has    *)
(* that of the case is about to commit a verdict or a sentence.             *)
LockShape(r) ==
    /\ courtLock = r => req[r].endpoint = "verdict" /\ pc[r] \in ClosureStep \cup {"commit"}
    /\ caseLock = r => req[r].endpoint \in {"verdict", "sentence"} /\ pc[r] = "commit"
    /\ pc[r] = "flushCourt" => req[r].endpoint = "verdict"
    /\ pc[r] = "readVerdict" => req[r].endpoint = "sentence"

(* What a request that is to close the case stands on.                      *)
ClosureShape(r) ==
    pc[r] \in ClosureStep \/ req[r].close =>
       /\ req[r].endpoint \in {"verdict", "sentence"}
       /\ req[r].endpoint = "verdict" => req[r].value \in TerminalVerdicts
       /\ req[r].endpoint = "sentence" /\ req[r].court = "own" => concluded

ClosureInv == \A r \in Requests : LockShape(r) /\ ClosureShape(r)

(* A request at its beginning or at its end holds no lock.                  *)
Plain(r) ==
    /\ courtLock' # r /\ caseLock' # r
    /\ pc'[r] \notin ClosureStep \cup {"readVerdict"} /\ ~req'[r].close
    /\ pc'[r] = "flushCourt" => req'[r].endpoint = "verdict"

LEMMA PlainShape ==
    ASSUME NEW r \in Requests, Plain(r) PROVE LockShape(r)' /\ ClosureShape(r)'
BY DEF Plain, LockShape, ClosureShape

(* What another request does leaves the shape of this one alone: it takes   *)
(* and releases its own locks only, and no closing date is ever cleared.    *)
LEMMA OthersShape ==
    ASSUME NEW q \in Requests, ClosureInv, pc'[q] = pc[q], req'[q] = req[q],
           courtLock' = q => courtLock = q, caseLock' = q => caseLock = q,
           concluded => concluded'
    PROVE  LockShape(q)' /\ ClosureShape(q)'
BY DEF ClosureInv, LockShape, ClosureShape

LEMMA EndClosure ==
    ASSUME TypeInv, ClosureInv, NEW r \in Requests, End(r), concluded => concluded'
    PROVE  ClosureInv'
<1>1. /\ req'[r] = NoRequest /\ pc'[r] = "idle" /\ Others(r)
  BY EndFacts
<1>2. /\ courtLock' # r /\ caseLock' # r
      /\ \A q \in Requests : courtLock' = q => courtLock = q
      /\ \A q \in Requests : caseLock' = q => caseLock = q
  BY ProceedingsAssumption DEF End
<1>3. Plain(r)
  BY <1>1, <1>2 DEF Plain, NoRequest, ClosureStep
<1>. QED
  BY <1>1, <1>2, <1>3, PlainShape, OthersShape DEF Others, ClosureInv

LEMMA CloseFlag ==
    ASSUME NEW r \in Requests, NEW b \in BOOLEAN, TypeInv, req' = [req EXCEPT ![r].close = b]
    PROVE  /\ req'[r].close = b /\ req'[r].court = req[r].court
           /\ req'[r].endpoint = req[r].endpoint /\ req'[r].value = req[r].value
           /\ \A q \in Requests \ {r} : req'[q] = req[q]
<1>1. req[r] \in Request /\ req \in [Requests -> Request]
  BY DEF TypeInv, TypeOK
<1>2. req'[r] = [req[r] EXCEPT !.close = b] /\ \A q \in Requests \ {r} : req'[q] = req[q]
  BY <1>1
<1>. QED
  BY <1>1, <1>2 DEF Request

LEMMA ClosureProceeds ==
    ASSUME IInv, ClosureInv, NEW r \in Requests, Proceed(r) PROVE ClosureInv'
<1>0. TypeInv /\ TypeOK /\ TerminalVerdictCloses /\ LockShape(r) /\ ClosureShape(r)
  BY DEF IInv, TypeInv, CourtInv, ClosureInv
<1>1. CASE End(r)
  <2>1. UNCHANGED concluded
    BY DEF Proceed, InsertCourt, FlushCourt, CountUnresolved, LoadCase, LockCase,
       InsertSentence, ReadVerdict, CountAll, rows, court
  <2>. QED
    BY <1>0, <1>1, <2>1, EndClosure
<1>2. CASE FlushCourt(r)
  <2>1. /\ pc[r] = "flushCourt" /\ courtLock = None /\ courtLock' = r
        /\ UNCHANGED <<rows, caseLock, req>>
        /\ Goto(r, IF req[r].value \in TerminalVerdicts THEN "count" ELSE "commit")
    BY <1>2 DEF FlushCourt
  <2>2. /\ pc'[r] \in {"count", "commit"}
        /\ pc'[r] = "count" => req[r].value \in TerminalVerdicts
        /\ \A q \in Requests \ {r} : pc'[q] = pc[q]
    BY <1>0, <2>1, GotoFacts DEF Step
  <2>3. LockShape(r)' /\ ClosureShape(r)'
    BY <1>0, <2>1, <2>2 DEF LockShape, ClosureShape, ClosureStep
  <2>4. ASSUME NEW q \in Requests \ {r} PROVE LockShape(q)' /\ ClosureShape(q)'
    BY <2>1, <2>2, OthersShape DEF rows, court
  <2>. QED
    BY <2>3, <2>4 DEF ClosureInv
<1>3. CASE CountUnresolved(r) \/ ReadVerdict(r)
  <2>1. /\ UNCHANGED <<rows, locks, req>>
        /\ pc[r] \in {"count", "readVerdict"}
        /\ \E step \in {"loadCase", "commit", "count"} : Goto(r, step)
    BY <1>3 DEF CountUnresolved, ReadVerdict
  <2>2. /\ pc'[r] \in {"loadCase", "commit", "count"}
        /\ \A q \in Requests \ {r} : pc'[q] = pc[q]
    BY <1>0, <2>1, GotoFacts DEF Step
  <2>3. pc[r] = "readVerdict" /\ req[r].court = "own" /\ pc'[r] \in ClosureStep => concluded
    <3>1. CASE ReadVerdict(r)
      <4>1. req[r].court = "own" /\ verdict \notin TerminalVerdicts => Goto(r, "commit")
        BY <3>1 DEF ReadVerdict
      <4>2. Goto(r, "commit") => pc'[r] = "commit"
        BY <1>0, GotoFacts DEF Step
      <4>. QED
        BY <1>0, <4>1, <4>2 DEF TerminalVerdictCloses, ClosureStep
    <3>2. CASE CountUnresolved(r)
      BY <3>2 DEF CountUnresolved
    <3>. QED
      BY <1>3, <3>1, <3>2
  <2>4. LockShape(r)' /\ ClosureShape(r)'
    BY <1>0, <2>1, <2>2, <2>3 DEF LockShape, ClosureShape, ClosureStep, locks, rows, court
  <2>5. ASSUME NEW q \in Requests \ {r} PROVE LockShape(q)' /\ ClosureShape(q)'
    BY <2>1, <2>2, OthersShape DEF rows, court, locks
  <2>. QED
    BY <2>4, <2>5 DEF ClosureInv
<1>4. CASE LoadCase(r)
  <2>. DEFINE b == ~deleted /\ status # "closed"
  <2>1. b \in BOOLEAN /\ req' = [req EXCEPT ![r].close = b]
    BY <1>0, <1>4 DEF LoadCase, TypeOK
  <2>. HIDE DEF b
  <2>2. /\ UNCHANGED <<rows, locks>> /\ pc[r] = "loadCase"
        /\ \E step \in {"lockCase", "commit"} : Goto(r, step)
    BY <1>4 DEF LoadCase
  <2>3. /\ pc'[r] \in {"lockCase", "commit"}
        /\ \A q \in Requests \ {r} : pc'[q] = pc[q]
    BY <1>0, <2>2, GotoFacts DEF Step
  <2>4. LockShape(r)' /\ ClosureShape(r)'
    BY <1>0, <2>1, <2>2, <2>3, CloseFlag DEF LockShape, ClosureShape, ClosureStep, locks, rows, court
  <2>5. ASSUME NEW q \in Requests \ {r} PROVE LockShape(q)' /\ ClosureShape(q)'
    BY <1>0, <2>1, <2>2, <2>3, CloseFlag, OthersShape DEF rows, court, locks
  <2>. QED
    BY <2>4, <2>5 DEF ClosureInv
<1>5. CASE LockCase(r)
  <2>1. /\ pc[r] = "lockCase" /\ caseLock' = r /\ Goto(r, "commit")
        /\ UNCHANGED <<rows, courtLock, req>>
    BY <1>5 DEF LockCase
  <2>2. pc'[r] = "commit" /\ \A q \in Requests \ {r} : pc'[q] = pc[q]
    BY <1>0, <2>1, GotoFacts DEF Step
  <2>3. LockShape(r)' /\ ClosureShape(r)'
    BY <1>0, <2>1, <2>2 DEF LockShape, ClosureShape, ClosureStep, rows, court
  <2>4. ASSUME NEW q \in Requests \ {r} PROVE LockShape(q)' /\ ClosureShape(q)'
    BY <2>1, <2>2, OthersShape DEF rows, court
  <2>. QED
    BY <2>3, <2>4 DEF ClosureInv
<1>6. CASE (InsertSentence(r) \/ CountAll(r)) /\ ~End(r)
  <2>1. /\ UNCHANGED <<rows, locks, req>>
        /\ \/ pc[r] = "insertSentence" /\ Goto(r, "readVerdict")
           \/ pc[r] = "countAll" /\ Goto(r, "commit")
    BY <1>6 DEF InsertSentence, CountAll
  <2>2. /\ \/ pc[r] = "insertSentence" /\ pc'[r] = "readVerdict"
           \/ pc[r] = "countAll" /\ pc'[r] = "commit"
        /\ \A q \in Requests \ {r} : pc'[q] = pc[q]
    BY <1>0, <2>1, GotoFacts DEF Step
  <2>3. pc[r] = "insertSentence" => req[r].endpoint = "sentence"
    BY <1>0 DEF TypeInv, Shape, Fits
  <2>4. LockShape(r)' /\ ClosureShape(r)'
    BY <1>0, <2>1, <2>2, <2>3 DEF LockShape, ClosureShape, ClosureStep, locks, rows, court
  <2>5. ASSUME NEW q \in Requests \ {r} PROVE LockShape(q)' /\ ClosureShape(q)'
    BY <2>1, <2>2, OthersShape DEF rows, court, locks
  <2>. QED
    BY <2>4, <2>5 DEF ClosureInv
<1>7. InsertCourt(r) => End(r)
  BY DEF InsertCourt
<1>. QED
  BY <1>1, <1>2, <1>3, <1>4, <1>5, <1>6, <1>7 DEF Proceed

LEMMA ClosureStays == IInv /\ ClosureInv /\ [Next]_vars => ClosureInv'
<1>. SUFFICES ASSUME IInv, ClosureInv, [Next]_vars PROVE ClosureInv'
  OBVIOUS
<1>0. TypeInv
  BY DEF IInv
<1>1. CASE UNCHANGED vars
  BY <1>1 DEF vars, rows, court, locks, ClosureInv, LockShape, ClosureShape
<1>2. ASSUME NEW r \in Requests, Receive(r) PROVE ClosureInv'
  <2>1. PICK endpoint \in Endpoint, request \in Request, step \in Step :
            /\ Begin(r, endpoint, request, step)
            /\ ~request.close
            /\ step \notin ClosureStep \cup {"readVerdict"}
            /\ step = "flushCourt" => endpoint = "verdict"
    BY <1>0, <1>2, Arrivals DEF Arrival, ClosureStep
  <2>0. pc[r] = "idle"
    BY <2>1 DEF Begin
  <2>2. /\ pc[r] = "idle" /\ pc'[r] = step /\ req'[r].endpoint = endpoint
        /\ req'[r].close = request.close
        /\ Others(r) /\ UNCHANGED <<rows, locks>>
    BY <1>0, <2>0, <2>1, BeginFacts
  <2>3. Plain(r)
    BY <2>1, <2>2 DEF Plain, ClosureInv, LockShape, ClosureStep, locks
  <2>. QED
    BY <2>2, <2>3, PlainShape, OthersShape DEF Others, ClosureInv, locks, rows, court
<1>3. ASSUME NEW r \in Requests, Commit(r) \/ Fail(r) PROVE ClosureInv'
  <2>1. End(r)
    BY <1>3, CommitEnds DEF Fail
  <2>2. concluded => concluded'
    BY <1>3 DEF Fail, Commit, CommitVerdict, CommitFile, CommitAttach, CommitCharge,
       CommitSentence, CommitStatus, CommitDelete, rows, court
  <2>. QED
    BY <1>0, <2>1, <2>2, EndClosure
<1>. QED
  BY <1>1, <1>2, <1>3, ClosureProceeds DEF Next

LEMMA ClosureSafety == Spec => [](IInv /\ ClosureInv)
<1>1. Init => ClosureInv
  BY ProceedingsAssumption
  DEF Init, ClosureInv, LockShape, ClosureShape, ClosureStep, NoRequest
<1>. QED
  BY <1>1, InitInv, Inductive, ClosureStays, PTL DEF Spec

(* However many requests wait for row locks and for each other's sentences, *)
(* no chain of waiting is longer than two and none is closed to a circle:   *)
(* who has the lock of the case waits for nobody, who is waited for         *)
(* otherwise waits at most for that lock.                                   *)
THEOREM WaitsAreShort == Spec => []ShortWaits
<1>1. ClosureInv => ShortWaits
  <2>. SUFFICES ASSUME ClosureInv, NEW r \in Requests, NEW q \in Requests, NEW p \in Requests,
                       NEW o \in Requests, WaitsFor(r, q), WaitsFor(q, p), WaitsFor(p, o)
                PROVE  FALSE
    BY DEF ShortWaits
  <2>1. LockShape(q) /\ LockShape(p)
    BY DEF ClosureInv
  <2>2. caseLock = q \/ courtLock = q \/ Sentencing(q)
    BY DEF WaitsFor
  <2>3. caseLock = p
    BY <2>1, <2>2 DEF LockShape, WaitsFor, Sentencing, ClosureStep
  <2>4. pc[p] = "commit" /\ req[p].endpoint \in {"verdict", "sentence"}
    BY <2>1, <2>3 DEF LockShape
  <2>. QED
    BY <2>4 DEF WaitsFor
<1>. QED
  BY <1>1, ClosureSafety, PTL

(* The case is closed by a verdict or a sentence of its own court case only *)
(* when that has a closing date, whatever became of the verdict meanwhile.  *)
THEOREM ClosuresAreConcluded == Spec => AutoCloseConcluded
<1>. DEFINE Good == \A r \in Requests :
              /\ Closes /\ req[r].court = "own"
              /\ CommitVerdict(r) \/ CommitSentence(r)
              => concluded'
<1>1. IInv /\ ClosureInv /\ [Next]_vars => [Good]_vars
  <2>. SUFFICES ASSUME ClosureInv, NEW r \in Requests, Closes, req[r].court = "own",
                       CommitVerdict(r) \/ CommitSentence(r)
                PROVE  concluded'
    OBVIOUS
  <2>1. req[r].close
    BY DEF Closes, CommitVerdict, CommitSentence, Closing
  <2>2. ClosureShape(r)
    BY DEF ClosureInv
  <2>3. CASE CommitVerdict(r)
    <3>1. req[r].endpoint = "verdict"
      BY <2>3 DEF CommitVerdict, Committing
    <3>2. req[r].value \in TerminalVerdicts
      BY <2>1, <2>2, <3>1 DEF ClosureShape
    <3>. QED
      BY <2>3, <3>2 DEF CommitVerdict
  <2>4. CASE CommitSentence(r)
    <3>1. req[r].endpoint = "sentence" /\ concluded' = concluded
      BY <2>4 DEF CommitSentence, Committing, court
    <3>2. concluded
      BY <2>1, <2>2, <3>1 DEF ClosureShape
    <3>. QED
      BY <3>1, <3>2
  <2>. QED
    BY <2>3, <2>4
<1>. QED
  BY <1>1, ClosureSafety, PTL DEF Spec, AutoCloseConcluded

(* A deletion is final, and nothing but an automatic closure that was under *)
(* way changes the status of a deleted case.                                *)
THEOREM DeletionsStay == Spec => DeletedStays
<1>. DEFINE Good == deleted => deleted' /\ (status' # status => status' = "closed")
<1>1. TypeInv /\ [Next]_vars => [Good]_vars
  <2>. SUFFICES ASSUME TypeInv, [Next]_vars PROVE Good
    OBVIOUS
  <2>1. CASE UNCHANGED vars
    BY <2>1 DEF vars, rows
  <2>2. ASSUME NEW r \in Requests, Receive(r) PROVE Good
    BY <2>2, Arrivals, BeginFacts DEF Arrival, rows
  <2>3. ASSUME NEW r \in Requests, Proceed(r) \/ Fail(r) PROVE UNCHANGED <<status, deleted>>
    BY <2>3 DEF Proceed, InsertCourt, FlushCourt, CountUnresolved, LoadCase, LockCase,
       InsertSentence, ReadVerdict, CountAll, Fail, rows
  <2>4. ASSUME NEW r \in Requests, Commit(r) PROVE Good
    BY <2>4 DEF Commit, CommitVerdict, CommitFile, CommitAttach, CommitCharge,
       CommitSentence, CommitStatus, CommitDelete, Closing, SetStatus
  <2>. QED
    BY <2>1, <2>2, <2>3, <2>4 DEF Next
<1>. QED
  BY <1>1, InitType, TypeStep, PTL DEF Spec, DeletedStays
=============================================================================
