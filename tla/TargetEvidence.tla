--------------------------- MODULE TargetEvidence ---------------------------
(***************************************************************************)
(* The evidence of one statement's target rows, byte by byte: how plan and *)
(* apply each count the rows, read their images in order, encode and cap   *)
(* them (target_count and target_set_sha256 of engine.rs), and what the    *)
(* statement then does. TargetTable takes the fingerprint for the bag of   *)
(* images; here that is a property.                                        *)
(***************************************************************************)
EXTENDS SqlPolicy, Integers, FiniteSets

CONSTANTS
  Slots,        \* the rows of the table
  Images,       \* row images: sequences of bytes
  Order,        \* ORDER BY: pairs of images, the first sorted before the second
  Absent,       \* what an unused slot holds
  Files,        \* SQL files: sequences of statements
  Match,        \* the images the WHERE clause selects
  PrefixBytes,  \* the width of a length: 8
  Cap,          \* MAX_TARGET_EVIDENCE_BYTES
  MaxRows,      \* the row budget
  MaxDrifts,    \* bound: changes made by others
  NoPlan

Contents == [Slots -> Images \cup {Absent}]

(* The value of the last byte of a number, of the one before it, and so on. *)
Weight[k \in 0..PrefixBytes] == IF k = 0 THEN 1 ELSE 256 * Weight[k - 1]

ASSUME EvidenceAssumption ==
  /\ IsFiniteSet(Slots) /\ Absent \notin Images /\ Match \subseteq Images
  /\ \A i \in Images : i \in Seq(0..255) /\ Len(i) < Weight[PrefixBytes]
  /\ \A i, j \in Images : <<i, j>> \in Order <=> i /= j /\ <<j, i>> \notin Order
  /\ \A i, j, k \in Images :
       <<i, j>> \in Order /\ <<j, k>> \in Order => <<i, k>> \in Order
  /\ \A f \in Files : \A n \in 1..Len(f) :
       /\ f[n].clauses \subseteq Clauses /\ f[n].exprs \subseteq Expressions
       /\ f[n].widths \in Seq(Nat) /\ f[n].columns \in Nat
  /\ PrefixBytes \in Nat /\ Cap \in Nat
  /\ MaxRows \in Nat \ {0} /\ MaxDrifts \in Nat

-----------------------------------------------------------------------------
(* PostgreSQL, so far as the policy keeps the tool from depending on it.   *)

Used(c) == {r \in Slots : c[r] /= Absent}
Selected(c) == {r \in Slots : c[r] \in Match}

(* What a WHERE clause selects may differ each time it is asked if it      *)
(* calls functions or looks at other tables.                               *)
Evaluations(s, c) ==
  IF s.exprs \cap {"function", "subquery"} = {} THEN {Selected(c)}
                                                ELSE SUBSET Used(c)

(* The existing rows a statement may touch: any part of those it selects,  *)
(* where a trigger, a policy, a join or a limit holds it back from others. *)
Touches(s, c) ==
  IF s.kind = "insert"
    THEN IF "on_conflict" \in s.clauses THEN SUBSET Used(c) ELSE {{}}
    ELSE UNION {SUBSET e : e \in Evaluations(s, c)}

(* How many rows it may report as affected.                                *)
Affected(s, rows) ==
  IF s.kind /= "insert" THEN {Cardinality(rows)}
  ELSE IF "select" \in s.clauses THEN 0..(MaxRows + 1)
  ELSE Cardinality(rows)..Len(s.widths)

(* The rows in any order, each read once: their images.                    *)
Readings(c, rows) ==
  LET n == Cardinality(rows) IN
  {[k \in 1..n |-> c[e[k]]] : e \in Bijection(1..n, rows)}

(* The answer to the evidence query over the rows selected: their images,  *)
(* sorted.                                                                 *)
InOrder(s) == \A j, k \in DOMAIN s : j < k => <<s[k], s[j]>> \notin Order

InTableOrder(c, rows) == Readings(c, rows)   \* mutation: no ORDER BY
Sorted(c, rows) == {s \in Readings(c, rows) : InOrder(s)}

BagOf(c, rows) ==
  [i \in Images |-> Cardinality({r \in rows : c[r] = i})]

-----------------------------------------------------------------------------
VARIABLES
  contents, drifts,  \* the table, and how often others changed it
  file,              \* the SQL file
  phase,             \* "plan" or "apply"
  pc,                \* next call
  snap,              \* the snapshot of the phase
  expected,          \* what target_count returned
  rest, observed,    \* images still to come, number of those received
  bytes,             \* the evidence so far
  sealed,            \* what the plan file holds
  touched            \* the rows the statement has touched

table == <<contents, drifts>>
query == <<snap, expected, rest, observed, bytes>>
vars  == <<table, file, phase, pc, query, sealed, touched>>

(* The digest is as good as the bytes. The field bag is not in the file.   *)
Digest(b) == b

Init ==
  /\ contents \in Contents /\ drifts = 0
  /\ file \in Files
  /\ phase = "plan" /\ pc = "analyze"
  /\ snap = contents /\ expected = 0 /\ rest = <<>> /\ observed = 0
  /\ bytes = <<>> /\ sealed = NoPlan /\ touched = {}

Goto(l) == pc' = l

(* read_and_analyze, then the transaction with its snapshot.               *)
AnalyzeWithOldSnapshot ==   \* mutation: snapshot before LOCK TABLE is granted
  /\ pc = "analyze"
  /\ Goto(IF FileAllowed(file) THEN "count" ELSE "denied")
  /\ snap' \in {snap, contents} /\ bytes' = <<>> /\ observed' = 0
  /\ UNCHANGED <<table, file, phase, expected, rest, sealed, touched>>

Analyze ==
  /\ pc = "analyze"
  /\ Goto(IF FileAllowed(file) THEN "count" ELSE "denied")
  /\ snap' = contents /\ bytes' = <<>> /\ observed' = 0
  /\ UNCHANGED <<table, file, phase, expected, rest, sealed, touched>>

TheStatement == file[1]

(* target_count, and what becomes of the count.                            *)
CountTargets ==
  /\ pc = "count"
  /\ \E rows \in Evaluations(TheStatement, snap) :
     LET n == IF TheStatement.kind = "insert" THEN Len(TheStatement.widths)
                                              ELSE Cardinality(rows) IN
     /\ expected' = n
     /\ Goto(IF phase = "apply" /\ n /= sealed.count THEN "drifted"
             ELSE IF n > MaxRows THEN "over_budget" ELSE "query")
  /\ UNCHANGED <<table, file, phase, snap, rest, observed, bytes, sealed,
                 touched>>

(* Send the evidence query. An INSERT has none: its digest is that of the  *)
(* statement.                                                              *)
SendQuery ==
  /\ pc = "query"
  /\ IF TheStatement.kind = "insert" THEN rest' = <<>>
     ELSE \E rows \in Evaluations(TheStatement, snap) :
            rest' \in Sorted(snap, rows)
  /\ Goto(IF TheStatement.kind = "insert" THEN "decide" ELSE "stream")
  /\ UNCHANGED <<table, file, phase, snap, expected, observed, bytes, sealed,
                 touched>>

(* The length, big-endian, then the image.                                 *)
Prefix(n) ==
  [k \in 1..PrefixBytes |-> (n \div Weight[PrefixBytes - k]) % 256]

EncodeBare(image) == image   \* mutation: the images are not delimited
Encode(image) == Prefix(Len(image)) \o image

FitsUncounted(image) ==   \* mutation: the length bytes are not counted
  Len(bytes) + Len(image) <= Cap
FitsBelow(image) ==   \* mutation: off by one
  Len(bytes) + PrefixBytes + Len(image) < Cap
Fits(image) == Len(bytes) + PrefixBytes + Len(image) <= Cap

ReceiveRow ==
  /\ pc = "stream" /\ rest /= <<>>
  /\ IF Fits(Head(rest))
       THEN /\ bytes' = bytes \o Encode(Head(rest))
            /\ observed' = observed + 1 /\ rest' = Tail(rest)
            /\ UNCHANGED pc
       ELSE Goto("too_large") /\ UNCHANGED <<bytes, observed, rest>>
  /\ UNCHANGED <<table, file, phase, snap, expected, sealed, touched>>

EndOfRows ==
  /\ pc = "stream" /\ rest = <<>>
  /\ Goto(IF observed = expected THEN "decide" ELSE "mismatch")
  /\ UNCHANGED <<table, file, phase, query, sealed, touched>>

(* plan seals count and digest.                                            *)
SealEvidence ==
  /\ pc = "decide" /\ phase = "plan"
  /\ sealed' = [count |-> expected, digest |-> Digest(bytes),
                bag |-> BagOf(snap, Selected(snap))]
  /\ phase' = "apply" /\ Goto("analyze")
  /\ UNCHANGED <<table, file, query, touched>>

(* apply compares the digest.                                              *)
Compare ==
  /\ pc = "decide" /\ phase = "apply"
  /\ Goto(IF Digest(bytes) = sealed.digest THEN "execute" ELSE "drifted")
  /\ UNCHANGED <<table, file, phase, query, sealed, touched>>

(* The statement, whose effect is rolled back unless it affected as many   *)
(* rows as were counted.                                                   *)
ExecuteUncompared ==   \* mutation: the affected rows are not compared
  /\ pc = "execute" /\ touched' \in Touches(TheStatement, contents)
  /\ Goto("committed")
  /\ UNCHANGED <<table, file, phase, query, sealed>>

Execute ==
  /\ pc = "execute"
  /\ \E t \in Touches(TheStatement, contents) :
       \E n \in Affected(TheStatement, t) :
         IF n = expected THEN touched' = t /\ Goto("committed")
                         ELSE UNCHANGED touched /\ Goto("rolled_back")
  /\ UNCHANGED <<table, file, phase, query, sealed>>

(* Other sessions change the table: never while apply holds its lock.      *)
Locked == phase = "apply" /\ pc /= "analyze"

DriftUnlocked ==   \* mutation: LOCK TABLE is not sent
  /\ drifts < MaxDrifts /\ pc /= "denied"
  /\ contents' \in Contents \ {contents} /\ drifts' = drifts + 1
  /\ UNCHANGED <<file, phase, pc, query, sealed, touched>>

Drift ==
  /\ drifts < MaxDrifts /\ ~Locked /\ pc /= "denied"
  /\ contents' \in Contents \ {contents} /\ drifts' = drifts + 1
  /\ UNCHANGED <<file, phase, pc, query, sealed, touched>>

Next ==
  \/ Analyze \/ CountTargets \/ SendQuery \/ ReceiveRow \/ EndOfRows
  \/ SealEvidence \/ Compare \/ Execute \/ Drift

Spec == Init /\ [][Next]_vars

-----------------------------------------------------------------------------
(* Every variable has its type, and the evidence is never larger than the  *)
(* cap allows.                                                             *)
TypeOK ==
  /\ contents \in Contents /\ snap \in Contents /\ drifts \in 0..MaxDrifts
  /\ file \in Files /\ phase \in {"plan", "apply"}
  /\ pc \in {"analyze", "denied", "count", "over_budget", "query", "stream",
             "too_large", "mismatch", "decide", "drifted", "execute",
             "committed", "rolled_back"}
  /\ expected \in Nat /\ observed \in 0..Cardinality(Slots)
  /\ rest \in Seq(Images)
  /\ bytes \in Seq(0..255) /\ Len(bytes) <= Cap
  /\ touched \subseteq Slots

(* When the statement runs, the rows it targets are the very rows, as a    *)
(* bag, the plan was sealed over: no two target sets have one encoding.    *)
DigestDecides ==
  pc = "execute" /\ TheStatement.kind /= "insert" =>
    BagOf(contents, Selected(contents)) = sealed.bag

(* A plan is called drifted only if its target rows did change: neither    *)
(* rows that moved nor changes to other rows make it stale.                *)
NoFalseDrift ==
  pc = "drifted" =>
    /\ TheStatement.kind /= "insert"
    /\ BagOf(contents, Selected(contents)) /= sealed.bag

(* What is committed is what was counted and fingerprinted: an UPDATE or   *)
(* DELETE touches exactly the approved rows, an INSERT no existing row.    *)
EffectIsEvidence ==
  pc = "committed" =>
    /\ expected = sealed.count /\ expected <= MaxRows
    /\ IF TheStatement.kind = "insert" THEN touched = {}
       ELSE /\ BagOf(contents, touched) = sealed.bag
            /\ Cardinality(touched) = expected

(* Evidence is refused for its size only if all of it, with the length     *)
(* bytes of every row, is larger than the cap. Each byte is named by its   *)
(* row and its place in the row's part of the evidence.                    *)
SizeOf(rows) ==
  Cardinality(UNION {{r} \X (1..PrefixBytes + Len(snap[r])) : r \in rows})

CapIsExact ==
  /\ pc = "too_large" => SizeOf(Selected(snap)) > Cap
  /\ pc = "decide" /\ TheStatement.kind /= "insert" =>
       SizeOf(Selected(snap)) <= Cap

-----------------------------------------------------------------------------
(* The comparison of rows that plan and apply amount to. An INSERT selects *)
(* no rows; what a statement makes of them plays no part.                  *)

TheKind == IF TheStatement.kind = "insert" THEN "insert" ELSE "change"

Stage ==
  IF pc \in {"denied", "over_budget", "too_large", "mismatch"} THEN "refused"
  ELSE IF pc \in {"drifted", "committed", "rolled_back"} THEN pc
  ELSE IF pc = "execute" THEN "verified"
  ELSE IF phase = "plan" THEN "plan"
  ELSE IF pc = "analyze" THEN "planned" ELSE "locked"

Approved ==
  IF phase = "plan" THEN NoPlan
  ELSE IF TheKind = "insert" THEN [i \in Images |-> 0] ELSE sealed.bag

Table == INSTANCE TargetSet WITH
  Rows     <- Slots,
  Values   <- Images,
  Plans    <- {"insert", "change"},
  Inserts  <- {"insert"},
  NewRow   <- [p \in {"insert"} |-> CHOOSE i \in Images : TRUE],
  Match    <- [p \in {"insert", "change"} |->
                 IF p = "insert" THEN {} ELSE Match],
  After    <- [p \in {"insert", "change"} |-> [i \in Images |-> Absent]],
  Image    <- [i \in Images |-> i],
  plan     <- TheKind,
  stage    <- Stage,
  seen     <- snap,
  approved <- Approved

(* Counts, streams, lengths, order and digests of plan and apply together  *)
(* do no more and no less than compare the bags of the target rows.        *)
ComparesTargets == Table!Spec
=============================================================================
