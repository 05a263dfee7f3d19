------------------------------ MODULE MCApply ------------------------------
(***************************************************************************)
(* Small instances of Apply. Rows hold "old" or "new"; plan upd turns old  *)
(* rows into new ones, plan del deletes every row, plan ins adds an old    *)
(* one: each changes what the others target.                               *)
(***************************************************************************)
EXTENDS ApplyInvariant, TLC

CONSTANTS r1, r2, old, new, upd, del, ins, a1, a2, w1, s1, s2, s3, i1, i2

(* The WHERE clauses, the effects and the table policy.                    *)
PlanMatch == [p \in Plans |-> IF p = upd THEN {old}
                              ELSE IF p = del THEN Values ELSE {}]
PlanAfter == [p \in Plans |->
               [v \in Values |-> IF p = upd THEN new ELSE Absent]]
InsRow    == [p \in Inserts |-> old]

AnySchema == [p \in Plans |-> Schemas]
NotOnS3   == [p \in Plans |-> Schemas \ {s3}]

(* Which plan each process is given.                                       *)
SamePlan   == [a \in Appliers |-> del]
OnlyUpd    == [a \in Appliers |-> upd]
InsThenUpd == [a \in Appliers |-> IF a = a1 THEN ins ELSE upd]

(* to_jsonb sees the row, or only a column all rows agree on.              *)
WholeRow  == [v \in Values |-> v]
OneColumn == [v \in Values |-> "same"]

Symmetry    == Permutations(Rows) \cup Permutations(Appliers)
RowSymmetry == Permutations(Rows)
=============================================================================
