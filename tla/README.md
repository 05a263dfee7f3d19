# A TLA+ model of DMLPact

DMLPact (`src/src/*.rs`) makes a sealed plan for one `INSERT`, `UPDATE` or
`DELETE` on a PostgreSQL table, and later applies exactly that plan under a
table lock, or refuses, leaving a two-event receipt file. This directory holds
TLA+ modules translated from that code, TLC configurations that check them on
small instances, and TLAPS proofs for instances of any size.

## 1. Inventory

| Component | State it keeps | Operations | Interacts with |
| --- | --- | --- | --- |
| plan (`engine.rs` `create_plan`) | none; writes the plan file | one read-only `REPEATABLE READ` snapshot: identity, catalog, count, fingerprint; seal; write | database evidence, SQL policy, plan file |
| apply (`engine.rs` `apply_plan`, `apply_after_receipt`) | a connection, a transaction, the journal | validate, create receipt, connect, lock, compare, execute, commit, finish | everything below |
| receipt journal (`receipt.rs`) | the receipt file | `create`, `finalize`, `verify_receipt` | file system, clock |
| plan file (`receipt.rs`) | the plan file | `write_plan_new`, `seal_plan`, `read_plan` | file system |
| database evidence and policy (`db.rs`) | none | `connect_database`, `database_identity`, `table_evidence`, `enforce_table_policy`, `apply_local_timeouts` | PostgreSQL |
| SQL policy (`sql.rs`) | none | `analyze_sql`: accept one plain statement, derive the count and evidence queries | external parser |
| command line (`main.rs`, `error.rs`) | exit code, stdout | `run`, `emit_json` | all |
| documents, digests (`model.rs`, `integrity.rs`) | none | records, SHA-256, `unix_ms` | all |
| release gate, benchmarks, fuzzing, tests | none at run time | - | - |

The program is sequential; what is hard is around it:

- **Concurrency.** Other sessions write to the table and change its catalog
  before, between and during the checks; several applies, of one plan or of
  plans that change each other's targets, contend for the same lock.
- **Atomicity.** The checks, the statement and the commit are separate round
  trips. They are only one step because a snapshot is taken under a lock.
- **Failure.** Any round trip may fail; the client may be killed at any point;
  COMMIT may be decided after the client stopped listening; the receipt and the
  database cannot commit together.
- **Durability.** Each event of the receipt is written, then synced; so is the
  plan file. A kill or a host crash may leave part of either, or nothing.
- **Time.** Plans expire, locks and statements time out, the wall clock moves.
- **Things that change between plan and apply.** The SQL file, the plan file, the
  connection value, the server it leads to, the catalog of the table, the rows.
- **Evidence.** Rows are streamed, delimited, capped and hashed; two target sets
  must not have one digest, and one set must not have two.

What makes each component correct is written as the properties of section 4;
`PROJECT.json` lists each hazard at the line where it bites.

## 2. Modules

| Module | What it is |
| --- | --- |
| `TargetTable` | The table as `Apply` sees it: the rows a plan targets, their count and fingerprint, and the effect of each kind of statement. Pure operators. |
| `Apply` | The core: apply processes call by call, their transactions and the table lock on the server, other sessions, crashes, lost connections. |
| `Contract` | What the tool promises, without saying how: an effect only on what was approved, at most once for each apply and only behind a prepared receipt; terminal receipts right for good. |
| `ApplyInvariant`, `ApplyProofs`, `MCApply` | The inductive invariant of `Apply`, the theorems, small instances. |
| `ReceiptFile` | What a receipt is, whatever happens to the file: nothing, prepared, one terminal state; a host crash takes back only what was not assured. |
| `ReceiptJournal` | The receipt file line by line and sync by sync, kills, host crashes, the clock, and `verify_receipt`. |
| `JournalInvariant`, `ReceiptJournalProofs`, `MCReceiptJournal` | The same three for the journal. |
| `TablePolicy` | `enforce_table_policy`: which catalog evidence lets which statement through. Pure operators. |
| `Transport` | Where a connection value leads, and which may be used without TLS. Pure operators. |
| `PlanFile` | The life of a plan, from the options of `dmlpact plan` to the statement of an apply: every call and refusal of `create_plan`, the plan file, and what others change in between. |
| `PlanInvariant`, `PlanFileProofs`, `MCPlanFile` | The same three for the plan. |
| `SqlPolicy` | `analyze_sql`: which statement shapes are let through. Pure operators. |
| `TargetEvidence` | The evidence of the target rows byte by byte, in plan and in apply, and what the statement then touches. |
| `TargetSet` | What that evidence is for, without bytes: one state of the table is fingerprinted for the plan, the locked table is compared with it once, and only equal fingerprints let the statement touch exactly its targets. |
| `EvidenceInvariant`, `EvidenceProofs`, `MCTargetEvidence` | The same three for the evidence. |
| `DataLemmas` | Facts about numbers, functions and finite sets that `EvidenceProofs` needs: induction, functions defined step by step, division, counting. |

How they fit together. `ReceiptJournal` implements `ReceiptFile`; `Apply` uses its
receipts as `ReceiptFile` allows (`IsReceiptFile`, `UsesReceiptFile`), and
implements `Contract`. `PlanFile` contains the two pure policies and spells out,
call by call, what `Apply` does in `CreatePlan` and `AcceptInputs`; it stops where the
rows begin. `TargetEvidence` contains the SQL policy and is the detail of
`Fingerprint` and `CheckTargets`: `TargetTable`, whose operators `Apply` uses, takes
it for granted that the fingerprint is a function of the bag of target images.
`TargetSet` is the comparison of such fingerprints and nothing else, and
`TargetEvidence` implements it (`ComparesTargets`).

### Apply and the code

`pc[a]` is the call process `a` makes next, in the order of `apply_plan` and
`apply_after_receipt`:

    read -> create -> connect -> lock -> identity -> table -> targets
         -> execute -> commit -> wait -> finish -> exit -> done

| Code | Action |
| --- | --- |
| `create_plan` (one snapshot) | `CreatePlan` |
| `apply_plan`, up to the expiry check | `AcceptInputs`, `RejectInputs` |
| `ReceiptJournal::create` | `CreateReceipt` (refined by `ReceiptJournal`) |
| `connect_database`, BEGIN, SET LOCAL | `Connect`, `ConnectRefused` |
| `LOCK TABLE ... SHARE ROW EXCLUSIVE` | `Lock` |
| `database_identity` and its comparison | `CheckIdentity` |
| `table_evidence`, `enforce_table_policy` and their comparison | `CheckTable` |
| `target_count`, `target_set_sha256` and their comparison | `CheckTargets` |
| `transaction.execute`, affected rows | `Execute`, `ExecuteMismatch` |
| an error from any of these queries | `QueryFails` |
| `transaction.commit()` and its two results | `SendCommit`, `CommitConfirmed`, `CommitError` |
| `finish` and its variants | `Finish` |
| the drops at the end of `apply_after_receipt`, then `main` | `Exit` |

What is not under `src/` is modelled from how the code uses it: a transaction
holds its lock until it ends (`EndTxn`), `COMMIT` is decided by the server
whether or not the client still listens (`ServerCommit`, `ServerRejects`), a
session may end at any time (`Reap`, `Disconnect`), `SHARE ROW EXCLUSIVE`
excludes itself, every writer and every statement that changes the catalog
evidence (`Grantable`, `WriterBegin`, `AlterTable`). The first query of the
transaction fixes its snapshot: neither BEGIN, nor SET LOCAL, nor LOCK does.

Abstractions. A row is its contents; a catalog fingerprint, an identity and a
statement are members of small sets; SHA-256 does not collide. The reason of a
refusal is only *drift* or *failure*. The statement's effect becomes visible
when the server commits. `TargetBag`, the field `rows` of a plan and `Approved`
are not in the program: they say what the operator saw when approving.
`MaxChanges` bounds what other sessions do and `Rows` the size of the table: an
INSERT into a full table is not tracked further.

### ReceiptJournal and the code

`Create`, `Write`, `Sync`, `Finalize` are the calls of `ReceiptJournal::create`,
`finalize` and `write_event`; each may fail, and the failed write leaves nothing,
a part or the whole of its line. `told[a]` is what process `a` was told is
durable. `Kill` and `HostCrash` are the two kinds of crash; after a host crash a
file keeps at least what was synced, and a process not yet started may be
started and find what is left. `Verified(p)` is `verify_receipt`. A line that
only lacks its newline counts as whole, as it does for `str::lines`.

`IsReceiptFile` maps what the path holds of one process, whole lines only, to the
abstract receipt, and `told` to its assurance.

### PlanFile and the code

`pc[x]` is the next call of a planner or of an apply:

    options -> analyze -> connect -> identity -> evidence (query by query)
            -> policy -> targets -> stamp -> create -> write -> sync -> emit
    read -> analyze -> bind -> connect -> lock -> check -> execute

| Code | Action |
| --- | --- |
| `validate_limits`, lifetime range | `CheckOptions` |
| `read_and_analyze` | `Analyze` |
| `connect_database`, transport drift | `Connect` |
| BEGIN, `database_identity`, version | `ReadIdentity` |
| `table_evidence`, one query | `ReadEvidence` |
| `enforce_table_policy` | `EnforcePolicy`, with `TableAllowed` |
| count, budget, target set, EXPLAIN, commit | `CountTargets` |
| `checked_add`, the plan, `seal_plan` | `Stamp` |
| `write_plan_new` | `Create`, `Write`, `Sync` |
| `emit_json` | `EmitJson` |
| `read_plan`, `verified_plan_sha256` | `ReadPlan`, with `Verified` |
| `validate_plan_binding`, expiry, receipt | `Bind` |
| BEGIN, `LOCK TABLE` | `Lock` |
| identity, catalog and policy compared again | `Check` |
| the statement | `Execute` |

A document is a record; its two fields `by` and `peer` are not in the program: they
say who made it and which server it was connected to, so that the properties can.
The file has the document it holds, the one its digest was computed over, and
whether it is whole: an edit changes the first and not the second. A table is the
set of features its evidence shows. `plan` takes no lock, and its catalog queries
call functions (`pg_get_expr`, `pg_get_indexdef`, `format_type`, `to_regclass`)
that look at the catalog as it is and not at the snapshot; `ReadEvidence` lets
each query see either. An index dropped in between has the definition NULL, which
the code does not expect: it panics, and `ReadEvidence` exits 101. An apply, which
holds a lock no DDL passes, reads in one step. A kill in `Write` leaves a part of
the file or all of it; a host crash may take anything that was not synced. What
happens to rows, to the receipt and to the transaction is in `Apply`.

### TargetEvidence and the code

An image is a sequence of bytes, `PrefixBytes` the width of a length (8 in the
code), `Cap` the 64 MiB. `Order` is any strict total order of the images: the
collation of the database decides which. `Weight[k]` is `256 ^ k`. `CountTargets`, `SendQuery`, `ReceiveRow`, `EndOfRows` are
`target_count` and `target_set_sha256`, run once for the plan and once for the
apply; `SealEvidence`, `Compare` and `Execute` are what plan and apply do with the
result, up to the comparison of the affected rows. What PostgreSQL does with a
statement is as free as the shape of the statement leaves it: a function or a
subquery may select something else each time it is asked (`Evaluations`), a
trigger, a policy, a join or a limit may hold a statement back from some rows
(`Touches`). `SqlPolicy` decides what gets so far. A statement is what the parser
makes of it: its kind, its clauses, the kinds of expression in it, the widths of
its VALUES rows and the number of columns it names. Calls hidden from the text of the SQL file (operators and casts
defined by functions) are not modelled, and neither are collations in which
different images sort as equal.

### Mutations

Next to the definitions they alter, the modules keep a few altered forms marked
`mutation:` (a lock mode that is too weak, a dropped comparison, an ignored
error). They are not used by `Next`. `PROJECT.json` says which property each of
them breaks: this is how it is known that the properties can fail.

## 3. Fairness

`Apply!Fairness` asks three things of each process. Safety needs none of them.

- `WF(Step(a))`: a started process keeps going. Every call returns: the
  connection attempt has a timeout (`db.rs:54`), `lock_timeout` and
  `statement_timeout` bound each query (`db.rs:352-364`), and a connection that
  broke is noticed, at worst by TCP keepalive. Granting the lock is *not* assumed:
  `Lock` needs `Grantable` and a writer may hold its lock for ever. What is
  assumed is that the wait ends, which `QueryFails` models. The code bounds
  neither the TLS handshake nor a silent server during `BEGIN`: there the
  assumption rests on keepalive alone.
- `WF(Decide(a))`: the server decides a COMMIT it was sent. A server waiting for
  a synchronous standby that never answers would not.
- `WF(Reap(a))`: a session that stays open is ended in the end, by the
  `idle_in_transaction_session_timeout` (`db.rs:357`) or because its connection
  is gone.

Other sessions, new plans, crashes and expiry are under no fairness. The other
specifications state none: their properties are about safety.

## 4. Runs

All of them say `CHECK_DEADLOCK FALSE`: when every process has exited and the
bound on other sessions' changes is used up, the system really has nothing left
to do. Symmetry is used for rows (and for processes given the same plan), never
with a liveness property.

| Run | Instance | What holds |
| --- | --- | --- |
| `apply_drift` | 1 apply (DELETE), 1 writer, 2 identities, 3 catalogs of which the policy forbids one, budget 1 of 2 rows, 2 changes | `CommitMatchesSeal`: an effect only on the sealed table, rows, budget and identity, at the moment it takes effect. `KeepsContract`: refinement of `Contract`. |
| `apply_replay` | 2 applies of one DELETE, 1 writer, 1 change, which may rebind the name | `TypeOK`, `PreparedBeforeTxn`, `ReceiptTruthful`, `ExitTruthful`, `SnapshotFresh`; `ReplayRefused`: the rows are not deleted twice; `UsesReceiptFile`: refinement of `ReceiptFile` |
| `apply_mixed` | an INSERT whose row the UPDATE of the other apply targets | `IInv`, the inductive invariant; `KeepsContract` |
| `apply_liveness` | 2 applies, 1 writer that may never finish | `EveryApplyEnds`, `LockReleased` |
| `journal_crash` | 2 processes given one path, 2 outcomes, a clock that goes on or back | `PreparedSurvives` and `OutcomeSurvives`: what was called durable stays, and verifies unless the clock was set back; `AnswersStand`: what verify accepts is not taken back while the host is up; `IsReceiptFile`: refinement of `ReceiptFile`; `JInv`, the inductive invariant; `TypeOK` |
| `plan_lifecycle` | 2 planners given one path, 1 apply, 3 texts of which the policy forbids one, 2 catalogs, a socket and a value with two remote addresses under local names, one of them translated, a clock from 0 to 2 that moves both ways, 1 change by others, kills and a host crash | `OnlySealedPlansRun`: apply goes on with nothing but a plan as it was sealed after all its checks; `ConsistentAtExecution`: when the statement runs, table, policy, text, server and transport are the plan's, for a name that keeps its meaning (see `apply_rebound`); `PlaintextStaysLocal`; `GoodUntilExpiry`: to the millisecond; `ExitZeroDurable`, `RefusedLeavesNoFile`: what exit codes say of the file; `TypeOK` |
| `evidence` | 3 rows, 5 images, 16 SQL files, of which the policy lets 5 through, 2-byte lengths, a cap of 9 bytes, a budget of 2 rows, 1 change by others | `DigestDecides`: equal digests mean equal target rows; `NoFalseDrift`: other changes do not make a plan stale; `EffectIsEvidence`: what is committed is what was counted and fingerprinted; `CapIsExact`: evidence is refused for its size only if all of it is too large; `ComparesTargets`: refinement of `TargetSet`; `EInv`, the inductive invariant; `TypeOK` |

The bounds are enough for the interesting cases to occur: two rows and two
values let the target set change with the count unchanged, or grow beyond the
budget; two changes let the table drift and drift back; two applies give every
conflict over the lock and one a plan that goes stale through the other; two
processes on one path give every collision, one before and one after a crash. In
`plan_lifecycle` the two catalogs differ in a trigger, an implicit value and an
index, so that a table altered between two queries gives evidence of a table that
never was, and lifetimes of 1 and 2 with a largest time
of 2 give a sum that does not fit and a plan that is good for ever; all changes
are possible, one at a time, which is what keeps the run under five minutes. In
`evidence`, a, aa, aba and ba are images because a.aba and aa.ba are the same
bytes, and 9 bytes hold aba and aa with their lengths exactly, but not aba twice.

Runs that TLC finds violated, each a statement of the documentation that the
code does not meet (details under `findings` in `PROJECT.json`):

| Run | Statement | What happens |
| --- | --- | --- |
| `apply_expiry` | the expiry is compared under the lock | it is compared once, before the receipt and the connection |
| `apply_rebound` | the statement runs on the table that was compared | the requested name is resolved again, and may then mean another table |
| `apply_shadowed_row` | the exact target rows are compared | with a column named like the table or alias, only that column is |
| `apply_unreachable` | exit 0 tells a safety decision from a transport failure | an unreachable server is `refused`, exit 0 |
| `journal_clock_back` | every outcome is verifiable | a clock set back makes a finalized receipt fail verification |

Two more, listed under `hazards`, have no run of their own:

- A COMMIT that the server answers with an error is recorded as `uncertain`
  (`engine.rs:389`), though it is then known to be rolled back; `CONCEPT.md:60`
  reserves the word for a result that could not be observed. No property is
  violated: `uncertain` never contradicts the database.
- The directory of a new receipt or plan file is never synced
  (`receipt.rs:50, 158`). POSIX leaves open whether the entry is on disk once the
  file is; `EntryDurable` says that it is, and without it `PreparedSurvives`
  fails after a host crash. `PlanFile` assumes the same of the plan file.

## 5. Proofs

Everything below holds for every value of the constants that satisfies the named
assumptions of the modules (`TableAssumption`, `ApplyAssumption`,
`JournalAssumption`, `PlanAssumption`, `ServerAssumption`, `EvidenceAssumption`): mostly
that sentinels are not ordinary values and that functions have their domains.
Every property of every passing run is a theorem, liveness aside.

**Apply** (`ApplyProofs`). `TypeCorrect`, `SnapshotStaysFresh`,
`ReceiptsAreTruthful`, `ReceiptsComeFirst`, `ExitCodesAreTruthful` and
`ApplyUsesReceiptFile` need no further assumption, even when names can be rebound.
`AlwaysApproved` (`IInv`) assumes `~NameRebinding`. `CommitsMatchTheSeal` and
`ApplyKeepsContract` assume `~NameRebinding` and `ImageIsRow`: exactly the two
assumptions whose failure `apply_rebound` and `apply_shadowed_row` exhibit.
`ReplayIsRefused` assumes `~NameRebinding` and `OnePlan`, that all applies have one
plan: it says nothing of an INSERT by another apply that brings the rows back.

The properties are not inductive. That a committed statement matches its plan
depends on what the checks found two calls earlier, on the snapshot still being
the table, which depends on the lock, which depends on which process holds it.
`IInv` says so in three layers, each inductive given those before it:

- `RecordInv` ties receipt, verdict, exit code and transaction to `pc`;
- `TableInv`: who has a snapshot has the lock, the lock excludes writers, and so
  the snapshot is the table;
- `ApprovalInv`: a plan was sealed over some state of the table; what each check
  established stays true until the transaction ends, and for a COMMIT on its
  way even after its client is gone.

Two lemmas carry the data: `FingerprintDecides` (equal counts and fingerprints
mean equal target bags when images distinguish rows) and `EffectiveChanges`
(only `ServerCommit` makes a statement effective). `StepKeepsContract` maps each
action of `Apply` to a step of `Contract` or to a stutter. For `ReplayIsRefused` a
second invariant, `Gone`, says that once one apply has deleted the rows of a plan
no row the plan matches is there until another session changes the table.

**The journal** (`ReceiptJournalProofs`). All six properties of `journal_crash` are
theorems. `TypeCorrect`, `InvariantIsKept` and `AnswersAreKept` hold whatever a host
crash does to new directory entries; `PreparedIsKept`, `OutcomeIsKept` and
`ImplementsReceiptFile` need `EntryDurable`. `JInv` has three parts:
`create_new` gives a path to one process at a time (`OneOwner`), the file of a
process at work is what its calls have made of it (`ContentInv`), and what a
process was told lies, if `EntryDurable`, within what is synced (`ToldInv`), so no
crash takes it and no other process writes behind it. `ImplementsReceiptFile` maps a write that
completes to `Prepare` or `Conclude`, a sync to `Assure`, and a host crash to
`Lose`.

**The plan file** (`PlanFileProofs`). All seven properties of `plan_lifecycle` are
theorems. Two inductions: `PInv`, what is true of each planner and each apply at
each call (a planner seals once and only after its checks; the file's digest is
always of a document some planner sealed, because an edit leaves the digest alone
and a crash only cuts; while an apply compares, it holds the lock, so the catalog
stays as compared), and on top of it `KeptInv`, that a file in the making, or
reported with exit 0, is its planner's own and is where it was said to be.
`ServerAssumption`, that the servers one connection value leads to have different
addresses of their own, is needed because the identity has nothing else to tell them
apart: the address of every Unix socket is null, and behind an address translation
it is not the one the client connected to (`Inside`). `ExecutionIsConsistent` is about
one table: that the name in the statement still means it when the statement runs is
not claimed, and `apply_rebound` shows that it need not. `NextPInv` and `KeptHolds` have a lemma for each action; what a
process does not do is settled once, in `OthersStay`.

**The evidence** (`EvidenceProofs`). All seven properties of `evidence` are theorems,
for any table, images, strict total order, SQL files, width of the lengths, cap and
budget; what `EvidenceAssumption` asks of the images is that each length fits in its
bytes. `EInv` says that the evidence at each call is the encoding of the first
images of some sorted answer over the rows selected, that the count is that of the
same rows, that an apply from its lock on looks at the table itself, and that the
plan carries the count, the bag and the encoding of one sorted answer. The rest is
about data:

- *The encoding is injective.* A length is decided by its bytes, taken from the
  first byte to the last (`PrefixDecides`); so no image's encoding is the beginning
  of another's (`EncodeDecides`), an encoding only grows at its end
  (`EncodingsGrow`), and answers of one length with one encoding are equal image by
  image (`EncodingDecides`). Answers of different lengths are told apart by the
  count, which apply compares first: this is why the digest need not hold it.
- *A bag has one sorted answer.* Where two sorted answers first differ, the one with
  the smaller image would hold one more of it (`FirstDifference`,
  `SortedIsUnique`). With it, one bag has one digest, and `DigestIsBag` says that the
  two comparisons of apply are a comparison of bags.
- *The policy makes the statement ask once.* For a file that `SqlPolicy` lets through,
  count, query and statement select the same rows of the same table
  (`AllowedStatement`); a statement that affects as many rows as it selects touches
  all of them.
- *The size is the sum.* The bytes named by row and place are as many as those of the
  encoding of any answer (`SizeOfAnswer`), and what does not fit next does not fit in
  all (`NextDoesNotFit`).

These four are inductions over data. The library's induction theorems have an operator
parameter, which the provers cannot instantiate; `DataLemmas` states induction with
a set in its place (`Induction`: a set that has 0 and goes from each number to the
next has all up to n), from the fact that inclusion of finite sets is well-founded,
and derives the existence of functions defined step by step from it.

`EvidenceComparesTargets` maps `Analyze` to `Look` of a plan and to `Lock` of an
apply, `SealEvidence` to `Seal`, `Compare` or a count that differs to `Judge`, every
limit to `Refuse`, and the other calls to a stutter. The slots, images and `Match` of
`TargetEvidence` are the `Rows`, `Values` and `Match` of `TargetTable`; an INSERT
selects nothing there and here (`AbstractTargets`), and `AbstractVerdict` says that
the digests are equal exactly when the fingerprints of `TargetTable` are.

Only model-checked: liveness (fairness and ENABLED are out of the prover's reach) and
the `violation` runs, which are about what does not hold.

## 6. What is left

A run with two applies and one plan file that is written while they read it; more
than one change by others in `plan_lifecycle` (the proofs cover it); the text of
the catalog evidence rather than the presence of its features; collations in which
different images sort as equal, with which one target set could have two digests.

## 7. Not modelled

- `lint` and `inspect`: read-only reports that run the SQL policy and the table
  evidence modelled here. `inspect` reads its evidence in autocommit queries, so
  its report may describe no single state of the table; nothing reads it back.
- `capabilities`, `contract`, `schema`, `completions`: constant output.
- SQL parsing (an external library), JSON text and schemas, SHA-256, TLS, the
  printing of durations: no state, or none that the properties tell apart. The
  clock is taken to be after the epoch, and `localhost` to be a loopback address.
- Renaming an index or a type: it needs no lock that conflicts with that of apply,
  and changes words of the catalog evidence but nothing the statement does. Before
  the evidence is read it is refused like any change (drift), after it it goes
  unnoticed. A renamed schema whose name another one takes is a `Rebind`.
- Which of the exit codes 1, 2 and 3 an apply gives to inputs it rejects with one:
  `RejectInputs` has 1 for the three, and 5.
- A default that a column has from its domain type: `table_evidence` does not look
  at it, so the rule that an INSERT may rely on no default does not see it.
- Effects of triggers beyond the rows of the target table, and anything else the
  database does outside it: outside what the tool claims.
- The release gate, drills, benchmarks, fuzzing and tests.
