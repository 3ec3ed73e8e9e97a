------------------------------ MODULE Mappers ------------------------------
(***************************************************************************)
(* services/api/mappers.ts, as far as a page decides by it which actions   *)
(* it offers: what becomes of the state of a record of the server.         *)
(***************************************************************************)

(* For each kind of record the states that the server tells apart, and     *)
(* those of kinds whose pages offer the same for every state.  "gone": the *)
(* list that is shown does not have the record.                            *)
RowStates ==
    [officer    |-> {"active", "inactive"},
     charge     |-> {"filed", "pending", "dismissed", "convicted", "acquitted",
                     "appealed", "gone"},
     department |-> {"headed", "headless"},
     other      |-> {"any"}]

mapOfficerItem(row) == IF row = "inactive" THEN "INACTIVE" ELSE "ACTIVE"

mapDepartmentItem(row) == IF row = "headed" THEN "headOfficer" ELSE "noHead"

(* toUpperCase, whether or not the pages know the result. *)
mapChargeItem(row) ==
    [filed |-> "FILED", pending |-> "PENDING", dismissed |-> "DISMISSED",
     convicted |-> "CONVICTED", acquitted |-> "ACQUITTED",
     appealed |-> "APPEALED", gone |-> "gone"][row]

mapItem(kind, row) ==
    CASE kind = "officer" -> mapOfficerItem(row)
      [] kind = "department" -> mapDepartmentItem(row)
      [] kind = "charge" -> mapChargeItem(row)
      [] OTHER -> row

(* features/legal/types/legal.types.ts, utils/chargeUtils.ts *)
TERMINAL_CHARGE_STATUSES == {"CONVICTED", "ACQUITTED", "DROPPED"}
isChargeTerminal(status) == status \in TERMINAL_CHARGE_STATUSES
=============================================================================
