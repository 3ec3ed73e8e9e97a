-------------------------- MODULE CaseProceedings --------------------------
(***************************************************************************)
(* One case from its investigation to its closure: the status of the case,  *)
(* its court case, its charges and their sentences, and the HTTP requests   *)
(* that change them (app/modules/legal and app/modules/case_management).    *)
(*                                                                         *)
(* A request is one database transaction at READ COMMITTED.  It reads and   *)
(* checks committed rows, writes, reads again and commits; the rows it      *)
(* writes are updated by primary key, whatever has become of the values it  *)
(* checked.  Until it commits, only the row locks of its writes are visible *)
(* to others, so its writes appear here when it commits.  Reads and writes  *)
(* that no other read of the same request separates are one step.           *)
(***************************************************************************)
EXTENDS Naturals, FiniteSets

CONSTANTS
    Charges,    \* charge ids
    Requests,   \* slots for requests in flight
    Endpoints,  \* bound: the operations that requests ask for
    Verdicts,   \* bound: the verdicts they record
    None

Endpoint == {"openCourt", "verdict", "file", "attach", "patchCharge", "dropCharge",
             "setCharge", "sentence", "patchCase", "caseStatus", "deleteCase"}
VerdictEnum == {"pending", "guilty", "not_guilty", "mistrial", "dismissed"}

ASSUME ProceedingsAssumption ==
    /\ Endpoints \subseteq Endpoint
    /\ Verdicts \subseteq VerdictEnum
    /\ None \notin Requests \cup Charges

VARIABLES
    status,    \* the status of the case
    deleted,   \* is the case soft-deleted?
    courts,    \* the number of court_case rows of the case
    verdict,   \* the verdict of the court case, "none" before the first
    concluded, \* is closed_at of the court case set?
    charge,    \* the row of each charge
    sentences, \* the number of sentence rows of each charge
    referred,  \* was the case ever referred to court?
    convicted, \* the charges that were ever convicted
    courtLock, \* the request that has an uncommitted write to the court case
    caseLock,  \* the request that has an uncommitted write to the case
    pc,        \* the next step of each request
    req        \* the local state of each request

history == <<referred, convicted>>
locks == <<courtLock, caseLock>>
court == <<courts, verdict, concluded>>
rows == <<status, deleted, court, charge, sentences>>
vars == <<rows, history, locks, pc, req>>

-----------------------------------------------------------------------------
Status == {"open", "under_investigation", "referred_to_court", "closed", "archived"}
ChargeStatus == {"filed", "pending", "dismissed", "convicted", "acquitted", "appealed"}
TerminalVerdicts == {"guilty", "not_guilty", "dismissed"}
TerminalChargeStatuses == {"convicted", "acquitted", "dismissed"}

(* Who changes the status of a case, as far as the rules tell them apart. *)
Role == {"officer", "admin", "superadmin"}

ChargeTransitions ==
    [s \in ChargeStatus |->
        CASE s = "filed"   -> {"pending", "dismissed"}
          [] s = "pending" -> {"dismissed", "convicted", "acquitted"}
          [] OTHER         -> {}]

ValidTransitions ==
    [s \in {"open", "under_investigation", "referred_to_court"} |->
        CASE s = "open"                -> "under_investigation"
          [] s = "under_investigation" -> "referred_to_court"
          [] s = "referred_to_court"   -> "closed"]

FollowsPath(old, new) == old \in DOMAIN ValidTransitions => new = ValidTransitions[old]

(* court: the court case a charge is attached to - none, that of this case  *)
(* or that of another case.                                                 *)
CourtRef == {"none", "own", "other"}
Charge == [status : ChargeStatus \cup {"unfiled"}, court : CourtRef]

Request == [endpoint : Endpoint \cup {"none"},
            role     : Role,
            charge   : Charges \cup {None},
            court    : CourtRef,
            value    : VerdictEnum \cup ChargeStatus \cup Status \cup {"none"},
            close    : BOOLEAN]   \* does the transaction close the case?

NoRequest == [endpoint |-> "none", role |-> "officer", charge |-> None, court |-> "none",
              value |-> "none", close |-> FALSE]

Step == {"idle", "insertCourt", "flushCourt", "insertSentence", "readVerdict", "count",
         "loadCase", "lockCase", "countAll", "commit"}

Filed == {c \in Charges : charge[c].status # "unfiled"}

Unresolved == {c \in Filed : charge[c].status \notin TerminalChargeStatuses}

(* count_unresolved_charges_for_court_case *)
UnresolvedAt(ref) == {c \in Unresolved : charge[c].court = ref}

-----------------------------------------------------------------------------
(* create_case takes any status. *)
Init ==
    /\ status \in Status
    /\ referred = (status = "referred_to_court")
    /\ deleted = FALSE
    /\ courts = 0 /\ verdict = "none" /\ concluded = FALSE
    /\ charge = [c \in Charges |-> [status |-> "unfiled", court |-> "none"]]
    /\ sentences = [c \in Charges |-> 0]
    /\ convicted = {}
    /\ courtLock = None /\ caseLock = None
    /\ pc = [r \in Requests |-> "idle"]
    /\ req = [r \in Requests |-> NoRequest]

Goto(r, step) == pc' = [pc EXCEPT ![r] = step]

(* A request arrives, passes the checks of its first reads and goes on. *)
Begin(r, endpoint, request, step) ==
    /\ pc[r] = "idle" /\ endpoint \in Endpoints
    /\ Goto(r, step)
    /\ req' = [req EXCEPT ![r] = [request EXCEPT !.endpoint = endpoint]]
    /\ UNCHANGED <<rows, history, locks>>

(* Mutant: the lock of the case is forgotten. *)
EndKeepsCaseLock(r) ==
    /\ pc' = [pc EXCEPT ![r] = "idle"]
    /\ req' = [req EXCEPT ![r] = NoRequest]
    /\ courtLock' = IF courtLock = r THEN None ELSE courtLock
    /\ UNCHANGED caseLock

(* The transaction ends: its locks are released. *)
End(r) ==
    /\ pc' = [pc EXCEPT ![r] = "idle"]
    /\ req' = [req EXCEPT ![r] = NoRequest]
    /\ courtLock' = IF courtLock = r THEN None ELSE courtLock
    /\ caseLock' = IF caseLock = r THEN None ELSE caseLock

(* The status written by the commit of request r. *)
SetStatus(new) == status' = new /\ referred' = (referred \/ new = "referred_to_court")

-----------------------------------------------------------------------------
(* create_court_case *)

(* Mutant: a case of any status. *)
OpenCourtEarly(r) ==
    /\ ~deleted /\ courts = 0
    /\ Begin(r, "openCourt", NoRequest, "insertCourt")

OpenCourt(r) ==
    /\ ~deleted /\ status = "referred_to_court" /\ courts = 0
    /\ Begin(r, "openCourt", NoRequest, "insertCourt")

(* The unique constraint on court_case.case_id refuses a second row. *)
InsertCourt(r) ==
    /\ pc[r] = "insertCourt"
    /\ courts' = IF courts = 0 THEN 1 ELSE courts
    /\ End(r)
    /\ UNCHANGED <<status, deleted, verdict, concluded, charge, sentences, history>>

-----------------------------------------------------------------------------
(* patch_court_case with a verdict; the deletion of the case is not asked.  *)

RecordVerdict(r) ==
    \E v \in Verdicts :
        /\ courts > 0 /\ verdict \notin TerminalVerdicts /\ v # verdict
        /\ Begin(r, "verdict", [NoRequest EXCEPT !.value = v, !.court = "own"], "flushCourt")

FlushCourt(r) ==
    /\ pc[r] = "flushCourt" /\ courtLock = None
    /\ courtLock' = r
    /\ Goto(r, IF req[r].value \in TerminalVerdicts THEN "count" ELSE "commit")
    /\ UNCHANGED <<rows, history, caseLock, req>>

(* The automatic closure, shared with create_sentence.  A charge of another *)
(* case that is attached to the same court case keeps it unresolved too.    *)
CountUnresolved(r) ==
    /\ pc[r] = "count"
    /\ \/ UnresolvedAt(req[r].court) = {} /\ Goto(r, "loadCase")
       \/ Goto(r, "commit")
    /\ UNCHANGED <<rows, history, locks, req>>

(* CaseRepository.update_case: a deleted case is left alone, and a status   *)
(* that is loaded as closed is not written again.                           *)
LoadCase(r) ==
    /\ pc[r] = "loadCase"
    /\ req' = [req EXCEPT ![r].close = ~deleted /\ status # "closed"]
    /\ Goto(r, IF deleted THEN "commit" ELSE "lockCase")
    /\ UNCHANGED <<rows, history, locks>>

LockCase(r) ==
    /\ pc[r] = "lockCase" /\ caseLock = None
    /\ caseLock' = r
    /\ Goto(r, "commit")
    /\ UNCHANGED <<rows, history, courtLock, req>>

Closing(r) == IF req[r].close THEN SetStatus("closed") ELSE UNCHANGED <<status, referred>>

Committing(r, endpoints) == pc[r] = "commit" /\ req[r].endpoint \in endpoints /\ End(r)

(* Mutant: the closing date is set only together with that of the case. *)
CommitVerdictOpen(r) ==
    /\ Committing(r, {"verdict"})
    /\ verdict' = req[r].value
    /\ concluded' = (concluded \/ req[r].close)
    /\ Closing(r)
    /\ UNCHANGED <<deleted, courts, charge, sentences, convicted>>

(* Mutant: the column is written by a request that has no verdict, too. *)
CommitVerdictOfAny(r) ==
    /\ Committing(r, Endpoint)
    /\ verdict' = req[r].value
    /\ concluded' = (concluded \/ req[r].value \in TerminalVerdicts)
    /\ Closing(r)
    /\ UNCHANGED <<deleted, courts, charge, sentences, convicted>>

CommitVerdict(r) ==
    /\ Committing(r, {"verdict"})
    /\ verdict' = req[r].value
    /\ concluded' = (concluded \/ req[r].value \in TerminalVerdicts)
    /\ Closing(r)
    /\ UNCHANGED <<deleted, courts, charge, sentences, convicted>>

-----------------------------------------------------------------------------
(* Charges.  No endpoint asks for the status of the case, and those of      *)
(* LegalService do not ask whether it is deleted once the charge is filed.  *)

(* LegalService.create_charge takes no court case or this case's own;       *)
(* CaseService.create_charge takes any.                                     *)
FileCharge(r) ==
    \E c \in Charges \ Filed, ref \in CourtRef :
        /\ ~deleted
        /\ ref = "own" => courts > 0
        /\ \A q \in Requests : req[q].charge # c   \* a new id
        /\ Begin(r, "file", [NoRequest EXCEPT !.charge = c, !.court = ref], "commit")

CommitFile(r) ==
    /\ Committing(r, {"file"})
    /\ charge' = [charge EXCEPT
                      ![req[r].charge] = [status |-> "filed", court |-> req[r].court]]
    /\ UNCHANGED <<status, deleted, court, sentences, history>>

(* CaseService.update_charge *)
Attach(r) ==
    \E c \in Filed, ref \in CourtRef :
        /\ ~deleted /\ ref # charge[c].court
        /\ ref = "own" => courts > 0
        /\ Begin(r, "attach", [NoRequest EXCEPT !.charge = c, !.court = ref], "commit")

CommitAttach(r) ==
    /\ Committing(r, {"attach"})
    /\ charge' = [charge EXCEPT ![req[r].charge].court = req[r].court]
    /\ UNCHANGED <<status, deleted, court, sentences, history>>

(* LegalService.patch_charge *)
PatchCharge(r) ==
    \E c \in Filed : \E s \in ChargeTransitions[charge[c].status] :
        /\ charge[c].status \notin TerminalChargeStatuses
        /\ Begin(r, "patchCharge", [NoRequest EXCEPT !.charge = c, !.value = s], "commit")

DropCharge(r) ==
    \E c \in Filed :
        /\ charge[c].status = "filed" /\ sentences[c] = 0
        /\ Begin(r, "dropCharge",
                 [NoRequest EXCEPT !.charge = c, !.value = "dismissed"], "commit")

(* CaseService.update_charge_status *)
SetCharge(r) ==
    \E c \in Filed, s \in ChargeStatus :
        /\ ~deleted /\ s # charge[c].status
        /\ Begin(r, "setCharge", [NoRequest EXCEPT !.charge = c, !.value = s], "commit")

CommitCharge(r) ==
    /\ Committing(r, {"patchCharge", "dropCharge", "setCharge"})
    /\ charge' = [charge EXCEPT ![req[r].charge].status = req[r].value]
    /\ convicted' = IF req[r].value = "convicted" THEN convicted \cup {req[r].charge}
                                                  ELSE convicted
    /\ UNCHANGED <<status, deleted, court, sentences, referred>>

-----------------------------------------------------------------------------
(* create_sentence *)

(* Mutant: the status of the charge is not looked at. *)
CreateAnySentence(r) ==
    \E c \in Filed :
        /\ charge[c].court # "none" /\ sentences[c] = 0
        /\ Begin(r, "sentence",
                 [NoRequest EXCEPT !.charge = c, !.court = charge[c].court], "insertSentence")

CreateSentence(r) ==
    \E c \in Filed :
        /\ charge[c].status = "convicted" /\ charge[c].court # "none" /\ sentences[c] = 0
        /\ Begin(r, "sentence",
                 [NoRequest EXCEPT !.charge = c, !.court = charge[c].court], "insertSentence")

(* Has the request a sentence that is inserted and not committed? *)
Sentencing(r) == req[r].endpoint = "sentence" /\ pc[r] # "insertSentence"

(* Mutant: the insertion does not wait for an uncommitted one. *)
InsertSentenceAtOnce(r) ==
    /\ pc[r] = "insertSentence"
    /\ IF sentences[req[r].charge] = 0
       THEN Goto(r, "readVerdict") /\ UNCHANGED <<req, locks>>
       ELSE End(r)
    /\ UNCHANGED <<rows, history>>

(* The unique constraint on sentence.charge_id: the insertion waits for an  *)
(* uncommitted one and is refused after a committed one.                    *)
InsertSentence(r) ==
    /\ pc[r] = "insertSentence"
    /\ ~\E q \in Requests : Sentencing(q) /\ req[q].charge = req[r].charge
    /\ IF sentences[req[r].charge] = 0
       THEN Goto(r, "readVerdict") /\ UNCHANGED <<req, locks>>
       ELSE End(r)
    /\ UNCHANGED <<rows, history>>

(* Mutant: the verdict is not looked at. *)
ReadNoVerdict(r) ==
    /\ pc[r] = "readVerdict"
    /\ Goto(r, "count")
    /\ UNCHANGED <<rows, history, locks, req>>

(* Another case's court case may have any verdict. *)
ReadVerdict(r) ==
    /\ pc[r] = "readVerdict"
    /\ \/ /\ req[r].court = "own" => verdict \in TerminalVerdicts
          /\ Goto(r, "count")
       \/ /\ req[r].court = "own" => verdict \notin TerminalVerdicts
          /\ Goto(r, "commit")
    /\ UNCHANGED <<rows, history, locks, req>>

CommitSentence(r) ==
    /\ Committing(r, {"sentence"})
    /\ sentences' = [sentences EXCEPT ![req[r].charge] = @ + 1]
    /\ Closing(r)
    /\ UNCHANGED <<deleted, court, charge, convicted>>

-----------------------------------------------------------------------------
(* The status of the case.                                                  *)

MayPatch(role, new) ==
    /\ status # "closed"
    /\ IF new = "archived" THEN role # "officer" ELSE FollowsPath(status, new)

MayUpdate(role, new) ==
    IF new = "archived"
    THEN role # "officer"
    ELSE role = "superadmin" \/ (status # "closed" /\ FollowsPath(status, new))

BeginStatus(r, endpoint, role, new) ==
    /\ ~deleted /\ new # status
    /\ Begin(r, endpoint, [NoRequest EXCEPT !.role = role, !.value = new],
             IF new = "closed" THEN "countAll" ELSE "commit")

PatchCase(r) ==
    \E role \in Role, new \in Status :
        MayPatch(role, new) /\ BeginStatus(r, "patchCase", role, new)

UpdateCaseStatus(r) ==
    \E role \in Role, new \in Status :
        MayUpdate(role, new) /\ BeginStatus(r, "caseStatus", role, new)

(* Every charge of the case counts here, wherever it is attached. *)
CountAll(r) ==
    /\ pc[r] = "countAll"
    /\ IF Unresolved = {} THEN Goto(r, "commit") /\ UNCHANGED <<req, locks>> ELSE End(r)
    /\ UNCHANGED <<rows, history>>

(* Mutant: the case is not read again. *)
CommitStatusBlindly(r) ==
    /\ Committing(r, {"patchCase", "caseStatus"}) /\ caseLock = None
    /\ SetStatus(req[r].value)
    /\ UNCHANGED <<deleted, court, charge, sentences, convicted>>

(* The case is read again for the answer: if it was deleted meanwhile there *)
(* is none, and the error rolls the transaction back.                       *)
CommitStatus(r) ==
    /\ Committing(r, {"patchCase", "caseStatus"}) /\ caseLock = None
    /\ IF deleted THEN UNCHANGED <<status, referred>> ELSE SetStatus(req[r].value)
    /\ UNCHANGED <<deleted, court, charge, sentences, convicted>>

(* soft_delete_case *)
DeleteCase(r) ==
    /\ ~deleted /\ verdict = "none"
    /\ Begin(r, "deleteCase", [NoRequest EXCEPT !.role = "superadmin"], "commit")

CommitDelete(r) ==
    /\ Committing(r, {"deleteCase"}) /\ caseLock = None
    /\ deleted' = TRUE
    /\ UNCHANGED <<status, court, charge, sentences, history>>

-----------------------------------------------------------------------------
(* get_db_session rolls back: an error or a lost connection, at any step. *)
Fail(r) ==
    /\ pc[r] # "idle"
    /\ End(r)
    /\ UNCHANGED <<rows, history>>

Receive(r) ==
    \/ OpenCourt(r) \/ RecordVerdict(r) \/ FileCharge(r) \/ Attach(r) \/ PatchCharge(r)
    \/ DropCharge(r) \/ SetCharge(r) \/ CreateSentence(r) \/ PatchCase(r)
    \/ UpdateCaseStatus(r) \/ DeleteCase(r)

Proceed(r) ==
    \/ InsertCourt(r) \/ FlushCourt(r) \/ CountUnresolved(r) \/ LoadCase(r) \/ LockCase(r)
    \/ InsertSentence(r) \/ ReadVerdict(r) \/ CountAll(r)

Commit(r) ==
    \/ CommitVerdict(r) \/ CommitFile(r) \/ CommitAttach(r) \/ CommitCharge(r)
    \/ CommitSentence(r) \/ CommitStatus(r) \/ CommitDelete(r)

Next == \E r \in Requests : Receive(r) \/ Proceed(r) \/ Commit(r) \/ Fail(r)

Spec == Init /\ [][Next]_vars

(* The event loop runs every handler on, and PostgreSQL hands a row lock to *)
(* those who wait for it in turn.                                           *)
FairSpec == Spec /\ \A r \in Requests : SF_vars(Proceed(r) \/ Commit(r))

-----------------------------------------------------------------------------
(* Type invariant. *)
TypeOK ==
    /\ status \in Status /\ deleted \in BOOLEAN
    /\ courts \in Nat /\ verdict \in VerdictEnum \cup {"none"} /\ concluded \in BOOLEAN
    /\ charge \in [Charges -> Charge] /\ sentences \in [Charges -> Nat]
    /\ referred \in BOOLEAN /\ convicted \subseteq Charges
    /\ courtLock \in Requests \cup {None} /\ caseLock \in Requests \cup {None}
    /\ pc \in [Requests -> Step] /\ req \in [Requests -> Request]

(* However requests interleave, a case has at most one court case and a     *)
(* charge at most one sentence: both services look for the row first, and   *)
(* between the look and the insertion any other request may insert it.      *)
UniqueRows == courts <= 1 /\ \A c \in Charges : sentences[c] <= 1

(* A terminal verdict is never without the closing date of the court case,  *)
(* although any other verdict may be written between the check of a         *)
(* terminal one and its commit.                                             *)
TerminalVerdictCloses == verdict \in TerminalVerdicts => concluded

(* Proceedings are only ever opened in a case that has been referred to     *)
(* court, whatever the status becomes while they are opened.                *)
CourtFollowsReferral == courts > 0 => referred

(* A sentence is only ever recorded for a charge that has been convicted,   *)
(* though the conviction may be overwritten before the sentence is written. *)
SentencesFollowConviction == \A c \in Charges : sentences[c] > 0 => c \in convicted

(* Every request comes to its end: the locks of the court case and of the   *)
(* case, and the wait for another request's sentence, never close a circle. *)
RequestsEnd == \A r \in Requests : (pc[r] # "idle") ~> (pc[r] = "idle")

(* What request r waits for, and who has it: a row lock, or the insertion   *)
(* of another sentence of the same charge.                                  *)
WaitsFor(r, q) ==
    \/ pc[r] = "flushCourt" /\ courtLock = q
    \/ /\ \/ pc[r] = "lockCase"
          \/ pc[r] = "commit" /\ req[r].endpoint \in {"patchCase", "caseStatus", "deleteCase"}
       /\ caseLock = q
    \/ /\ pc[r] = "insertSentence" /\ Sentencing(q)
       /\ req[q].charge = req[r].charge

(* However many requests there are, a request that waits, waits for one     *)
(* that runs, or that waits for one that runs: no circle of waiting is ever *)
(* closed and no queue of locks is longer than two (patch_court_case,       *)
(* create_sentence and the status requests take their rows in one order).   *)
ShortWaits ==
    \A r, q, p \in Requests :
        WaitsFor(r, q) /\ WaitsFor(q, p) => ~\E o \in Requests : WaitsFor(p, o)

(* Nothing but an automatic closure changes the status of a deleted case:   *)
(* status requests that passed their checks before the deletion are rolled  *)
(* back when they read the case again (soft_delete_case, patch_case,        *)
(* update_case_status).                                                     *)
DeletedStays == [][deleted => deleted' /\ (status' # status => status' = "closed")]_vars

Closes == status # "closed" /\ status' = "closed"

(* A sentence that closes the case, by a charge of its own court case, and  *)
(* a verdict that does, do so only if the court case has a closing date:    *)
(* the terminal verdict that create_sentence has read may be overwritten    *)
(* before the case is closed, its date may not.                             *)
AutoCloseConcluded ==
    [][\A r \in Requests :
          /\ Closes /\ req[r].court = "own"
          /\ CommitVerdict(r) \/ CommitSentence(r)
          => concluded']_vars

(* "Verdict is immutable once a terminal verdict has been recorded"         *)
(* (LegalService.patch_court_case, legal/service.py:154-157).               *)
VerdictFinal == [][(verdict \in TerminalVerdicts) => verdict' = verdict]_vars
=============================================================================
