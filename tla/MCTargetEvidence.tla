-------------------------- MODULE MCTargetEvidence --------------------------
(* Images whose concatenations collide: a.aba = aa.ba. One image that is   *)
(* not selected.                                                           *)
EXTENDS EvidenceInvariant, TLC

CONSTANTS r1, r2, r3

a == 1   b == 2

InTurn     == << <<a>>, <<a, a>>, <<a, b, a>>, <<b, a>>, <<b, b>> >>
SomeImages == ToSet(InTurn)
SomeOrder  == {<<InTurn[p[1]], InTurn[p[2]]>> :
                 p \in {q \in (1..5) \X (1..5) : q[1] < q[2]}}
SomeMatch  == SomeImages \ {<<b, b>>}

Where == {"where"}   Set == {"where", "assignments"}
Delete(more, exprs) ==
  << Statement("delete", Where \cup more, exprs, <<>>, 0) >>
Update(more, exprs) ==
  << Statement("update", Set \cup more, exprs, <<>>, 0) >>
Insert(more, widths, columns) ==
  << Statement("insert", more, {}, widths, columns) >>

SomeFiles ==
  { Delete({}, {}), Update({"alias"}, {}), Insert({}, <<2, 2>>, 2),
    Insert({}, <<1>>, 0), Insert({}, <<1, 1, 1>>, 0),
    Delete({"using"}, {}), Update({"limit"}, {}), Delete({}, {"function"}),
    Update({}, {"subquery"}), Insert({"on_conflict"}, <<1>>, 0),
    Insert({"select"}, <<>>, 0), Insert({}, <<1, 2>>, 0), Insert({}, <<2>>, 1),
    << Statement("delete", {}, {}, <<>>, 0) >>,
    << Statement("truncate", {}, {}, <<>>, 0) >>,
    Delete({}, {}) \o Delete({}, {}) }
=============================================================================
