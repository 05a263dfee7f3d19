------------------------------ MODULE Contract ------------------------------
(***************************************************************************)
(* What dmlpact promises, without saying how: a statement takes effect     *)
(* only on the table and the rows its plan approved, at most once for each *)
(* apply, after the apply has a prepared receipt; and a terminal receipt   *)
(* that names an outcome names the right one for good.                     *)
(***************************************************************************)
EXTENDS TargetTable

CONSTANTS Appliers, PlanOf, Schemas, Allowed, MaxRows, NoPlan

VARIABLES
  contents, schema,   \* the table
  approved,           \* approved[p]: the rows and catalog p was made for
  effective,          \* the applies whose statement has taken effect
  report              \* what the receipt of each apply says

vars == <<contents, schema, approved, effective, report>>

Init ==
  /\ contents \in Contents /\ schema \in Schemas
  /\ approved = [p \in Plans |-> NoPlan]
  /\ effective = {}
  /\ report = [a \in Appliers |-> "none"]

(* Other sessions change the table as they like.                           *)
Outside ==
  /\ contents' \in Contents /\ schema' \in Schemas
  /\ UNCHANGED <<approved, effective, report>>

Approve(p) ==
  /\ approved[p] = NoPlan
  /\ schema \in Allowed[p] /\ Count(p, contents) <= MaxRows
  /\ approved' = [approved EXCEPT ![p] =
                    [rows |-> TargetBag(p, contents), schema |-> schema]]
  /\ UNCHANGED <<contents, schema, effective, report>>

Prepare(a) ==
  /\ report[a] = "none" /\ approved[PlanOf[a]] /= NoPlan
  /\ report' = [report EXCEPT ![a] = "prepared"]
  /\ UNCHANGED <<contents, schema, approved, effective>>

(* The receipt of an apply that takes effect says prepared or uncertain.   *)
TakeEffect(a) ==
  /\ a \notin effective /\ report[a] \in {"prepared", "uncertain"}
  /\ approved[PlanOf[a]] =
       [rows |-> TargetBag(PlanOf[a], contents), schema |-> schema]
  /\ contents' \in Effects(PlanOf[a], contents)
  /\ effective' = effective \cup {a}
  /\ UNCHANGED <<schema, approved, report>>

Report(a) ==
  /\ report[a] = "prepared"
  /\ \/ a \in effective /\ report' = [report EXCEPT ![a] = "committed"]
     \/ /\ a \notin effective
        /\ \E s \in {"refused", "rolled_back"} :
             report' = [report EXCEPT ![a] = s]
     \/ report' = [report EXCEPT ![a] = "uncertain"]
  /\ UNCHANGED <<contents, schema, approved, effective>>

Next ==
  \/ Outside
  \/ \E p \in Plans : Approve(p)
  \/ \E a \in Appliers : Prepare(a) \/ TakeEffect(a) \/ Report(a)

Spec == Init /\ [][Next]_vars
=============================================================================
