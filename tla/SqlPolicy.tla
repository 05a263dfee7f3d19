----------------------------- MODULE SqlPolicy -----------------------------
(***************************************************************************)
(* analyze_sql of sql.rs: which SQL files are let through. A statement is  *)
(* what the parser makes of it, reduced to what the policy looks at: its   *)
(* kind, the clauses it has, the kinds of expression anywhere in it and,   *)
(* for an INSERT, the widths of its VALUES rows and how many columns it    *)
(* names.                                                                  *)
(***************************************************************************)
EXTENDS Naturals, Sequences, SequencesExt

(* "extension" is whatever other dialects add (hints, OR REPLACE, IGNORE,  *)
(* OVERWRITE, PARTITION, OUTPUT, ...); "modifier" what a query can have    *)
(* around VALUES (WITH, ORDER BY, LIMIT, FETCH, locks); "tables" the       *)
(* multi-table form of DELETE; "decorated" a target with arguments, hints, *)
(* a sample or a version; "long_name" a name of more than two parts.       *)
Clauses == {"where", "assignments", "alias", "column_alias", "from", "using",
            "tables", "join", "order", "limit", "returning", "on_conflict",
            "select", "modifier", "extension", "decorated", "long_name"}

Expressions == {"function", "subquery", "placeholder", "default"}

Statement(kind, clauses, exprs, widths, columns) ==
  [kind |-> kind, clauses |-> clauses, exprs |-> exprs,
   widths |-> widths, columns |-> columns]

(* All rows are as wide as the first, and as the column list if there is   *)
(* one.                                                                    *)
InsertAllowed(s) ==
  /\ s.clauses = {}
  /\ s.widths /= <<>> /\ 0 \notin ToSet(s.widths)
  /\ \A w \in ToSet(s.widths) : w = s.widths[1] /\ s.columns \in {0, w}

(* An alias may stand for the table, but not rename its columns.           *)
UpdateAllowed(s) ==
  /\ {"where", "assignments"} \subseteq s.clauses
  /\ s.clauses \subseteq {"where", "assignments", "alias"}

DeleteAllowed(s) ==
  /\ "where" \in s.clauses
  /\ s.clauses \subseteq {"where", "alias"}

AnyExpression(s) == TRUE   \* mutation: reject_unsafe_expressions not called
SafeExpressions(s) == s.exprs = {}

StatementAllowed(s) ==
  /\ SafeExpressions(s)
  /\ \/ s.kind = "insert" /\ InsertAllowed(s)
     \/ s.kind = "update" /\ UpdateAllowed(s)
     \/ s.kind = "delete" /\ DeleteAllowed(s)

(* The file holds exactly one statement.                                   *)
FileAllowed(file) == Len(file) = 1 /\ StatementAllowed(file[1])
=============================================================================
