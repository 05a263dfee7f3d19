---------------------------- MODULE TargetTable ----------------------------
(***************************************************************************)
(* The table a statement is aimed at, seen through the three questions the *)
(* tool asks of it: which rows does the statement target, how many are     *)
(* they, and what is the fingerprint of their contents; and through what   *)
(* PostgreSQL does to it when the statement takes effect.                  *)
(*                                                                         *)
(* A slot of Rows is a row version the tool cannot name: its evidence has  *)
(* no row identity, only row contents, so equal rows are exchangeable.     *)
(***************************************************************************)
EXTENDS Integers, FiniteSets, Functions

CONSTANTS
  Rows,      \* the slots of the table: a bound on its size
  Values,    \* the contents a row can have
  Absent,    \* what an unused slot holds
  Plans,     \* the statements a plan is made for
  Inserts,   \* those that are INSERT ... VALUES; the others UPDATE or DELETE
  NewRow,    \* NewRow[p]: the row INSERT p adds
  Match,     \* Match[p]: the contents the WHERE clause of p selects
  After,     \* After[p][v]: what p turns a selected row into, Absent if deleted
  Image      \* Image[v]: what to_jsonb(<row reference>) yields for a row v

ASSUME TableAssumption ==
  /\ IsFiniteSet(Rows)
  /\ Absent \notin Values
  /\ Inserts \subseteq Plans
  /\ NewRow \in [Inserts -> Values]
  /\ Match \in [Plans -> SUBSET Values]
  /\ \A p \in Inserts : Match[p] = {}
  /\ After \in [Plans -> [Values -> Values \cup {Absent}]]
  /\ DOMAIN Image = Values

Contents == [Rows -> Values \cup {Absent}]

(* The slots whose row the WHERE clause of p selects. *)
Targets(p, c) == {r \in Rows : c[r] \in Match[p]}

(* SELECT COUNT(star) ... WHERE; for an INSERT, the number of VALUES rows. *)
Count(p, c) == IF p \in Inserts THEN 1 ELSE Cardinality(Targets(p, c))

(* The digest of the length-delimited, sorted images of the selected rows: *)
(* it tells two target sets apart exactly when the images differ as bags.  *)
Fingerprint(p, c) ==
  [i \in Range(Image) |-> Cardinality({r \in Targets(p, c) : Image[c[r]] = i})]

(* The bag of rows the statement targets: what the operator approves.      *)
TargetBag(p, c) ==
  [v \in Match[p] |-> Cardinality({r \in Rows : c[r] = v})]

(* The contents the statement may leave. An INSERT into a table that has   *)
(* used up the bound Rows is not tracked further.                          *)
Inserted(p, c) ==
  LET free == {r \in Rows : c[r] = Absent} IN
  IF free = {} THEN {c} ELSE {[c EXCEPT ![r] = NewRow[p]] : r \in free}

Rewritten(p, c) ==
  [r \in Rows |-> IF c[r] \in Match[p] THEN After[p][c[r]] ELSE c[r]]

Effects(p, c) == IF p \in Inserts THEN Inserted(p, c) ELSE {Rewritten(p, c)}

(* The row evidence distinguishes any two rows. It does unless the table   *)
(* has a column called like the row reference, which to_jsonb then reads.  *)
ImageIsRow == \A v, w \in Values : Image[v] = Image[w] => v = w
=============================================================================
