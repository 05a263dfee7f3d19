---------------------------- MODULE TablePolicy ----------------------------
(***************************************************************************)
(* enforce_table_policy of db.rs: which tables a statement may be run on.  *)
(* A table is the set of the features its catalog evidence shows.          *)
(***************************************************************************)

(* "index" stands for all evidence no policy looks at: columns,            *)
(* constraints, indexes. "implicit_value" is a default, an identity or a   *)
(* generated column.                                                       *)
Features == {"not_ordinary", "rewrite_rule", "inheritance",
             "referential_action", "trigger", "row_security",
             "implicit_value", "index"}

(* What --allow-triggers and --allow-row-security acknowledge.             *)
Acknowledgeable == {"trigger", "row_security"}

TableAllowed(kind, acks, evidence) ==
  /\ evidence \cap {"not_ordinary", "rewrite_rule", "inheritance",
                    "referential_action"} = {}
  /\ evidence \cap Acknowledgeable \subseteq acks
  /\ kind = "insert" => "implicit_value" \notin evidence
=============================================================================
