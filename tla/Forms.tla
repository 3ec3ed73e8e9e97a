------------------------------- MODULE Forms -------------------------------
(***************************************************************************)
(* A form or dialog of FormTable, from one opening to the next.  What is   *)
(* entered is known by the opening in which it was entered, so that an     *)
(* entry that outlives its opening, or an answer that comes in a later     *)
(* one, can be told from the others.  Permissions are not looked at: this  *)
(* is what a form does for whoever may open it.                            *)
(***************************************************************************)
EXTENDS Naturals, FormTable

CONSTANTS
    Request,      \* the requests of the form that may be in flight together
    MaxOpenings,  \* bound: how often the form is opened
    FormNames     \* the forms to look at

ASSUME FormsAssumption ==
    /\ MaxOpenings \in Nat
    /\ FormNames \subseteq DOMAIN FormTable

VARIABLES
    form,      \* the form of this behaviour
    open,      \* it is open
    opening,   \* the number of its last opening
    entries,   \* the openings whose entries its inputs hold
    dirty,     \* the form takes its entries for unsaved
    asking,    \* the question whether to discard them is open
    limited,   \* the countdown of a rate limit runs
    sent       \* its requests in flight

formVars == <<form, open, opening, entries, dirty, asking, limited, sent>>

Opening == 1..MaxOpenings

NoRequest == [of |-> 0, holds |-> {}, own |-> FALSE]

(* A request: the opening that sent it, the entries it carries, and        *)
(* whether the hook that sent it is still mounted.                         *)
Submission == [of : Opening, holds : SUBSET Opening, own : BOOLEAN]

FormTypeOK ==
    /\ form \in {FormTable[n] : n \in FormNames}
    /\ open \in BOOLEAN /\ dirty \in BOOLEAN
    /\ asking \in BOOLEAN /\ limited \in BOOLEAN
    /\ opening \in 0..MaxOpenings
    /\ entries \subseteq Opening
    /\ sent \in [Request -> Submission \cup {NoRequest}]
    /\ asking => form.asks /\ (open \/ form.stays)

FormInit ==
    /\ \E n \in FormNames : form = FormTable[n]
    /\ open = FALSE
    /\ opening = 0
    /\ entries = {}
    /\ dirty = FALSE
    /\ asking = FALSE
    /\ limited = FALSE
    /\ sent = [r \in Request |-> NoRequest]

InFlight == {r \in Request : sent[r] # NoRequest}
Pending == \E r \in InFlight : sent[r].own

-----------------------------------------------------------------------------
(* The officer *)

(* Mutant: opening the form leaves its inputs as they were. *)
OpenFormFilled ==
    /\ ~open /\ ~asking
    /\ opening < MaxOpenings
    /\ open' = TRUE
    /\ opening' = opening + 1
    /\ dirty' = FALSE
    /\ UNCHANGED <<form, entries, asking, limited, sent>>

(* The question is a dialog of its own: nothing else is reached behind it.  *)
OpenForm ==
    /\ ~open /\ ~asking
    /\ opening < MaxOpenings
    /\ open' = TRUE
    /\ opening' = opening + 1
    /\ entries' = IF form.empties THEN {} ELSE entries
    /\ dirty' = FALSE
    /\ UNCHANGED <<form, asking, limited, sent>>

(* Mutant: something is entered before the form has been opened. *)
EnterUnopened ==
    /\ ~asking /\ ~limited
    /\ ~(form.locks /\ Pending)
    /\ entries' = entries \cup {opening}
    /\ dirty' = TRUE
    /\ UNCHANGED <<form, open, opening, asking, limited, sent>>

Enter ==
    /\ open /\ ~asking /\ ~limited
    /\ ~(form.locks /\ Pending)
    /\ entries' = entries \cup {opening}
    /\ dirty' = TRUE
    /\ UNCHANGED <<form, open, opening, asking, limited, sent>>

(* What is lost when a form is closed: a form that is unmounted loses its  *)
(* inputs, and its own hook tells it no more.                              *)
Orphaned(requests) ==
    IF form.stays \/ form.hook = "parent" THEN requests
    ELSE [r \in Request |-> [of |-> requests[r].of, holds |-> requests[r].holds,
                             own |-> FALSE]]

(* A form that stays mounted keeps what it holds, the question too: an     *)
(* answer may close CreateCourtCaseDrawer and leave its question behind.   *)
Shut(requests) ==
    /\ open' = FALSE
    /\ entries' = IF form.stays THEN entries ELSE {}
    /\ dirty' = IF form.stays THEN dirty ELSE FALSE
    /\ asking' = IF form.stays THEN asking ELSE FALSE
    /\ sent' = Orphaned(requests)
    /\ UNCHANGED <<form, opening>>

(* Mutant: the button is not disabled while a request runs. *)
SubmitBeside(r) ==
    LET requests == [sent EXCEPT ![r] =
                        [of |-> opening, holds |-> entries, own |-> TRUE]]
    IN
    /\ open /\ ~asking /\ ~limited
    /\ r \notin InFlight
    /\ form.blank \/ entries # {}
    /\ IF form.shuts
       THEN Shut(requests)
       ELSE /\ sent' = requests
            /\ UNCHANGED <<form, open, opening, entries, dirty, asking>>
    /\ UNCHANGED limited

Submit(r) ==
    LET requests == [sent EXCEPT ![r] =
                        [of |-> opening, holds |-> entries, own |-> TRUE]]
    IN
    /\ open /\ ~asking /\ ~limited
    /\ r \notin InFlight
    /\ ~Pending
    /\ form.blank \/ entries # {}
    /\ IF form.shuts
       THEN Shut(requests)
       ELSE /\ sent' = requests
            /\ UNCHANGED <<form, open, opening, entries, dirty, asking>>
    /\ UNCHANGED limited

(* Mutant: nobody is asked. *)
CloseUnasked ==
    /\ open /\ ~asking
    /\ Shut(sent)
    /\ UNCHANGED limited

CloseRequest ==
    /\ open /\ ~asking
    /\ IF form.asks /\ dirty
       THEN /\ asking' = TRUE
            /\ UNCHANGED <<form, open, opening, entries, dirty, sent>>
       ELSE Shut(sent)
    /\ UNCHANGED limited

Discard ==
    /\ asking
    /\ open' = FALSE
    /\ entries' = {}
    /\ dirty' = FALSE
    /\ asking' = FALSE
    /\ sent' = Orphaned(sent)
    /\ UNCHANGED <<form, opening, limited>>

KeepEditing ==
    /\ asking
    /\ asking' = FALSE
    /\ UNCHANGED <<form, open, opening, entries, dirty, limited, sent>>

-----------------------------------------------------------------------------
(* The page: what comes back to it *)

(* A form that follows its record is filled with the new version, behind   *)
(* the question, too.                                                      *)
RecordArrives ==
    /\ open /\ form.follows
    /\ entries' = {}
    /\ dirty' = FALSE
    /\ UNCHANGED <<form, open, opening, asking, limited, sent>>

Answered(r) == [sent EXCEPT ![r] = NoRequest]

Fails(r) ==
    /\ r \in InFlight
    /\ sent' = Answered(r)
    /\ UNCHANGED <<form, open, opening, entries, dirty, asking, limited>>

Limit(r) ==
    /\ r \in InFlight
    /\ form.waits /\ sent[r].own
    /\ limited' = TRUE
    /\ sent' = Answered(r)
    /\ UNCHANGED <<form, open, opening, entries, dirty, asking>>

CountDown ==
    /\ limited
    /\ limited' = FALSE
    /\ UNCHANGED <<form, open, opening, entries, dirty, asking, sent>>

(* The code that awaited the request closes whatever is open in the place  *)
(* of the form; a callback of the hook is dropped with its component.      *)
Succeeds(r) ==
    /\ r \in InFlight
    /\ CASE form.success = "clear" /\ sent[r].own ->
              /\ entries' = {}
              /\ dirty' = FALSE
              /\ sent' = Answered(r)
              /\ UNCHANGED <<form, open, opening, asking>>
         [] form.success = "close" /\ open -> Shut(Answered(r))
         [] form.success = "closeOwn" /\ open /\ sent[r].own -> Shut(Answered(r))
         [] OTHER ->
              /\ sent' = Answered(r)
              /\ UNCHANGED <<form, open, opening, entries, dirty, asking>>
    /\ UNCHANGED limited

FormNext ==
    \/ OpenForm \/ Enter \/ CloseRequest \/ Discard \/ KeepEditing
    \/ RecordArrives \/ CountDown
    \/ \E r \in Request : Submit(r) \/ Fails(r) \/ Limit(r) \/ Succeeds(r)

FormSpec == FormInit /\ [][FormNext]_formVars

-----------------------------------------------------------------------------
(* Properties *)

(* The effects on `open' and the mounting of the forms: a request carries  *)
(* nothing that was entered for an earlier opening, so for another record, *)
(* and a phrase or reason that confirms it was entered in its own.         *)
OwnEntries ==
    \A r \in InFlight :
       /\ sent[r].holds \subseteq {sent[r].of}
       /\ form.blank \/ sent[r].of \in sent[r].holds

(* LegalTab.tsx:128-187, CaseHeaderCard.tsx:62, the inline forms: where    *)
(* the hook outlives the opening, closing a form and opening it again does *)
(* not let its request be sent twice at a time.                            *)
OneAtATime ==
    form.stays \/ form.hook = "parent" => \A r, s \in InFlight : r = s

Holding == open /\ opening \in entries

(* handleCloseRequest of the drawers with a discard dialog: what was       *)
(* entered is lost by an answer to the question, by that of a request, or  *)
(* by a new version of the record.                                         *)
AskedFirst ==
    [][(form.asks /\ Holding /\ ~Holding')
        => \/ asking
           \/ \E r \in InFlight : sent'[r] = NoRequest
           \/ open' /\ form.follows]_formVars
=============================================================================
