----------------------------- MODULE MCPlanFile -----------------------------
(* Two planners that write to one path, and an apply.                      *)
EXTENDS PlanInvariant, TLC

CONSTANTS q1, q2, b1, del, ins, bad

SomeAcks      == q1 :> {} @@ q2 :> {"trigger"}
SomeLifetimes == q1 :> 1 @@ q2 :> 2
Kinds         == del :> "delete" @@ ins :> "insert" @@ bad :> "update"
SomeReads     == <<"implicit_value", "index", "trigger">>
SomeCatalogs  == {{"trigger"}, {"implicit_value", "index"}}

(* A socket; two remote servers given by address under a local name.       *)
SomeConfigs == {[hosts |-> <<"/socket">>, addrs |-> <<>>],
                [hosts |-> <<"localhost", "localhost">>,
                 addrs |-> <<"one", "two">>]}

(* The second server calls itself by another address.                      *)
Translated == "one" :> "one" @@ "two" :> "inner"
=============================================================================
