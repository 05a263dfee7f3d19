----------------------------- MODULE TargetSet -----------------------------
(***************************************************************************)
(* What the evidence of the target rows is for, without bytes: a plan      *)
(* holds the fingerprint of one state of the table, an apply compares it   *)
(* with that of the table it has locked, once, and only equal fingerprints *)
(* let the statement touch exactly its targets. Apply takes the comparison *)
(* for this; TargetEvidence implements it with counts, streams and bytes.  *)
(***************************************************************************)
EXTENDS TargetTable

CONSTANTS MaxRows, NoPlan

VARIABLES
  contents,   \* the table
  plan,       \* the statement
  stage,      \* how far plan and apply are
  seen,       \* the state of the table last looked at
  approved,   \* the fingerprint in the plan
  touched     \* the rows the statement has touched

vars == <<contents, plan, stage, seen, approved, touched>>

Init ==
  /\ contents \in Contents /\ seen = contents
  /\ plan \in Plans /\ stage = "plan" /\ approved = NoPlan /\ touched = {}

(* Other sessions change the table, but not while apply holds its lock.    *)
Outside ==
  /\ stage \in {"plan", "planned", "refused"}
  /\ contents' \in Contents
  /\ UNCHANGED <<plan, stage, seen, approved, touched>>

Look ==
  /\ stage = "plan" /\ seen' = contents
  /\ UNCHANGED <<contents, plan, stage, approved, touched>>

Seal ==
  /\ stage = "plan" /\ stage' = "planned"
  /\ Count(plan, seen) <= MaxRows
  /\ approved' = Fingerprint(plan, seen)
  /\ UNCHANGED <<contents, plan, seen, touched>>

Lock ==
  /\ stage = "planned" /\ stage' = "locked" /\ seen' = contents
  /\ UNCHANGED <<contents, plan, approved, touched>>

Judge ==
  /\ stage = "locked"
  /\ stage' = IF Fingerprint(plan, contents) = approved THEN "verified"
                                                        ELSE "drifted"
  /\ UNCHANGED <<contents, plan, seen, approved, touched>>

(* For another reason than drift: a policy, a budget, a limit.             *)
Refuse ==
  /\ stage \in {"plan", "locked"} /\ stage' = "refused"
  /\ UNCHANGED <<contents, plan, approved, touched>>
  /\ seen' \in {seen, contents}

Execute ==
  /\ stage = "verified"
  /\ \/ stage' = "committed" /\ touched' = Targets(plan, contents)
     \/ stage' = "rolled_back" /\ UNCHANGED touched
  /\ UNCHANGED <<contents, plan, seen, approved>>

Next == Outside \/ Look \/ Seal \/ Lock \/ Judge \/ Refuse \/ Execute

Spec == Init /\ [][Next]_vars
=============================================================================
