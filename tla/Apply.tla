------------------------------- MODULE Apply -------------------------------
(***************************************************************************)
(* `dmlpact apply` against a live PostgreSQL table: any number of apply    *)
(* processes (Appliers), each given a plan made by `dmlpact plan`, the     *)
(* other sessions that use the same table (Writers, DDL, renames), and the *)
(* server that holds the table lock and decides every transaction.         *)
(*                                                                         *)
(* Every client step is one call of engine.rs, in its order; a process may *)
(* be killed before any of them. The connection may break, the server may  *)
(* terminate the session, and COMMIT may be decided after the client has   *)
(* stopped listening.                                                      *)
(***************************************************************************)
EXTENDS TargetTable

CONSTANTS
  Appliers,        \* the apply processes
  Writers,         \* other sessions running DML on the table
  Nobody,          \* holder of a lock nobody holds
  Schemas,         \* safety-relevant catalog fingerprints the table can have
  Allowed,         \* Allowed[p]: those the table policy admits for plan p
  Idents,          \* database identities (endpoint, role, search path, ...)
  PlanOf,          \* PlanOf[a]: the plan apply process a is given
  NoPlan,          \* a plan file that does not exist
  NoSnapshot,      \* a transaction that has taken no snapshot
  MaxRows,         \* the row budget sealed in every plan
  MaxChanges,      \* bound: changes made by other sessions
  NameRebinding    \* whether other sessions can make the requested name
                   \* resolve to another table (an unqualified name and an
                   \* earlier schema of the search path they can write to)

(* What a plan file seals. The field rows is the target set itself, which  *)
(* the file holds only through its fingerprint, print.                     *)
Sealed == [rows : {TargetBag(p, c) : p \in Plans, c \in Contents},
           print : {Fingerprint(p, c) : p \in Plans, c \in Contents},
           count : Nat, schema : Schemas, ident : Idents]

(* The part of it that says what was approved.                             *)
Approved == [rows : {TargetBag(p, c) : p \in Plans, c \in Contents},
             schema : Schemas]

(* What a transaction sees: the committed table and its own identity.      *)
Snapshots == [contents : Contents, schema : Schemas, ident : Idents]

ASSUME ApplyAssumption ==
  /\ NoPlan \notin Sealed \cup Approved /\ NoSnapshot \notin Snapshots
  /\ Nobody \notin Appliers
  /\ Allowed \in [Plans -> SUBSET Schemas]
  /\ PlanOf \in [Appliers -> Plans]
  /\ MaxRows \in Nat /\ MaxChanges \in Nat
  /\ NameRebinding \in BOOLEAN

VARIABLES
  contents, schema,  \* the canonical table: committed rows and catalog
  binding,           \* what the requested name resolves to: "main", "shadow"
  holder,            \* who has the SHARE ROW EXCLUSIVE lock on the table
  writing,           \* writers with an open transaction (ROW EXCLUSIVE)
  changes,           \* changes made so far by other sessions
  plan, expired,     \* sealed plan files; plans past expires_at_unix_ms
  pc,                \* next call of each apply process
  link,              \* its connection is up
  txn, snap, hit,    \* its transaction: state, snapshot with the identity it
                     \* runs under, table its statement changed
  verdict, cause,    \* the outcome it is about to record, and why
  receipt, exit      \* its receipt file, its exit code

env    == <<contents, schema, binding, writing, changes>>
files  == <<plan, expired>>
server == <<holder, txn, snap, hit>>
client == <<pc, link, verdict, cause, receipt, exit>>
vars   == <<env, files, server, client>>

Verdicts == {"committed", "rolled_back", "refused", "uncertain"}
(* "none": no file, or no whole prepared event in it; "prepared": that     *)
(* event, and no whole terminal event behind it.                           *)
Receipts == {"none", "prepared"} \cup Verdicts
Running  == -1   \* the exit code of a process that has not exited
Queries  == {"lock", "identity", "table", "targets", "execute"}
Calls    == {"read", "create", "connect"} \cup Queries
              \cup {"commit", "wait", "finish", "exit", "done", "crashed"}

Init ==
  /\ contents \in Contents /\ schema \in Schemas /\ binding = "main"
  /\ holder = Nobody /\ writing = {} /\ changes = 0
  /\ plan = [p \in Plans |-> NoPlan] /\ expired = {}
  /\ pc = [a \in Appliers |-> "read"]
  /\ link = [a \in Appliers |-> FALSE]
  /\ txn = [a \in Appliers |-> "none"]
  /\ snap = [a \in Appliers |-> NoSnapshot]
  /\ hit = [a \in Appliers |-> "none"]
  /\ verdict = [a \in Appliers |-> "none"]
  /\ cause = [a \in Appliers |-> "none"]
  /\ receipt = [a \in Appliers |-> "none"]
  /\ exit = [a \in Appliers |-> Running]

-----------------------------------------------------------------------------
(* Building blocks.                                                        *)

Goto(a, l) == pc' = [pc EXCEPT ![a] = l]

(* Decide the outcome to record; the transaction is still as it was.       *)
Conclude(a, v, why) ==
  /\ verdict' = [verdict EXCEPT ![a] = v]
  /\ cause' = [cause EXCEPT ![a] = why]
  /\ Goto(a, "finish")

(* The server ends a transaction: what it held and saw is gone.            *)
EndTxn(a, outcome) ==
  /\ txn' = [txn EXCEPT ![a] = outcome]
  /\ snap' = [snap EXCEPT ![a] = NoSnapshot]
  /\ hit' = [hit EXCEPT ![a] = "none"]
  /\ holder' = IF holder = a THEN Nobody ELSE holder

(* A process that is gone decides nothing more.                            *)
Forget(a) ==
  /\ verdict' = [verdict EXCEPT ![a] = "none"]
  /\ cause' = [cause EXCEPT ![a] = "none"]

Session(a) == link[a] /\ txn[a] = "open"
ThePlan(a) == plan[PlanOf[a]]

WithinBudget(n) == n <= MaxRows

(* What the first query of a transaction with identity i reads and fixes.  *)
View(i) == [contents |-> contents, schema |-> schema, ident |-> i]

-----------------------------------------------------------------------------
(* dmlpact plan: one read-only REPEATABLE READ snapshot, then the file.    *)
(* The table the requested name means is by that the canonical one, main.  *)

CreatePlan(p) ==
  /\ plan[p] = NoPlan
  /\ binding = "main" /\ schema \in Allowed[p]
  /\ WithinBudget(Count(p, contents))
  /\ \E i \in Idents :
       plan' = [plan EXCEPT ![p] = [rows |-> TargetBag(p, contents),
                                    print |-> Fingerprint(p, contents),
                                    count |-> Count(p, contents),
                                    schema |-> schema, ident |-> i]]
  /\ UNCHANGED <<env, expired, server, client>>

-----------------------------------------------------------------------------
(* dmlpact apply: the client's calls.                                      *)

(* Plan hash, limits, SQL policy, plan/SQL binding and expiry all pass.    *)
AcceptInputs(a) ==
  /\ pc[a] = "read"
  /\ ThePlan(a) /= NoPlan /\ PlanOf[a] \notin expired
  /\ Goto(a, "create")
  /\ UNCHANGED <<env, files, server, link, verdict, cause,
                 receipt, exit>>

(* One of them fails: exit 5 for a contract error; 1 stands for the other  *)
(* classes too (usage 2, policy 3), which only these checks end with.      *)
RejectInputs(a) ==
  /\ pc[a] = "read"
  /\ \E code \in {1, 5} : exit' = [exit EXCEPT ![a] = code]
  /\ Goto(a, "done")
  /\ UNCHANGED <<env, files, server, link, verdict, cause, receipt>>

(* Create the receipt file and make the prepared event durable. The path   *)
(* may exist, the write may stop half way, or the sync may fail after the  *)
(* event is whole: then nothing else is attempted.                         *)
CreateReceiptIgnoringErrors(a) ==   \* mutation: the write error is dropped
  /\ pc[a] = "create"
  /\ \E left \in {"none", "prepared"} : receipt' = [receipt EXCEPT ![a] = left]
  /\ Goto(a, "connect")
  /\ UNCHANGED <<env, files, server, link, verdict, cause, exit>>

CreateReceipt(a) ==
  /\ pc[a] = "create"
  /\ \/ /\ receipt' = [receipt EXCEPT ![a] = "prepared"]
        /\ Goto(a, "connect") /\ UNCHANGED exit
     \/ /\ \E left \in {"none", "prepared"} :
             receipt' = [receipt EXCEPT ![a] = left]
        /\ exit' = [exit EXCEPT ![a] = 1] /\ Goto(a, "done")
  /\ UNCHANGED <<env, files, server, link, verdict, cause>>

(* Connect over the requested transport, BEGIN ISOLATION LEVEL REPEATABLE  *)
(* READ and set the local timeouts: none of these takes a snapshot.        *)
ConnectWithSnapshot(a) ==   \* mutation: a query runs before the lock is held
  /\ pc[a] = "connect"
  /\ link' = [link EXCEPT ![a] = TRUE]
  /\ txn' = [txn EXCEPT ![a] = "open"]
  /\ \E i \in Idents : snap' = [snap EXCEPT ![a] = View(i)]
  /\ Goto(a, "lock")
  /\ UNCHANGED <<env, files, holder, hit, verdict, cause, receipt, exit>>

Connect(a) ==
  /\ pc[a] = "connect"
  /\ link' = [link EXCEPT ![a] = TRUE]
  /\ txn' = [txn EXCEPT ![a] = "open"]
  /\ Goto(a, "lock")
  /\ UNCHANGED <<env, files, holder, snap, hit, verdict, cause, receipt, exit>>

(* The transport is not the plan's, or the server cannot be reached.       *)
ConnectRefused(a) ==
  /\ pc[a] = "connect"
  /\ \E why \in {"drift", "failure"} : Conclude(a, "refused", why)
  /\ UNCHANGED <<env, files, server, link, receipt, exit>>

(* LOCK TABLE <canonical table> IN SHARE ROW EXCLUSIVE MODE is granted: it *)
(* conflicts with itself and with the ROW EXCLUSIVE lock of every writer.  *)
SharedMode == writing = {}   \* mutation: SHARE mode, which two can hold
Grantable == holder = Nobody /\ writing = {}

Lock(a) ==
  /\ pc[a] = "lock" /\ Session(a) /\ Grantable
  /\ holder' = a
  /\ Goto(a, "identity")
  /\ UNCHANGED <<env, files, txn, snap, hit, link, verdict, cause,
                 receipt, exit>>

(* The first query fixes the snapshot and reads the database identity.     *)
CheckIdentity(a) ==
  /\ pc[a] = "identity" /\ Session(a)
  /\ \E i \in Idents :
       /\ snap' = [snap EXCEPT ![a] = View(i)]
       /\ IF i = ThePlan(a).ident
            THEN Goto(a, "table") /\ UNCHANGED <<verdict, cause>>
            ELSE Conclude(a, "refused", "drift")
  /\ UNCHANGED <<env, files, holder, txn, hit, link, receipt, exit>>

(* Resolve the requested name and compare canonical name, catalog          *)
(* fingerprint and table policy.                                           *)
AnyAllowedTable(a) ==   \* mutation: only the policy is checked again
  binding = "main" /\ snap[a].schema \in Allowed[PlanOf[a]]

TableAsPlanned(a) ==
  /\ binding = "main"
  /\ snap[a].schema = ThePlan(a).schema
  /\ snap[a].schema \in Allowed[PlanOf[a]]

CheckTable(a) ==
  /\ pc[a] = "table" /\ Session(a)
  /\ IF TableAsPlanned(a)
       THEN Goto(a, "targets") /\ UNCHANGED <<verdict, cause>>
       ELSE Conclude(a, "refused", "drift")
  /\ UNCHANGED <<env, files, server, link, receipt, exit>>

(* Count and fingerprint the target rows in the snapshot. A query whose    *)
(* table name now means another table may see anything.                    *)
BudgetOnly(a) ==   \* mutation: only the budget is checked again
  WithinBudget(Count(PlanOf[a], snap[a].contents))

CountOnly(a) ==   \* mutation: only the count is compared
  LET n == Count(PlanOf[a], snap[a].contents) IN
  n = ThePlan(a).count /\ WithinBudget(n)

TargetsAsPlanned(a) ==
  LET n == Count(PlanOf[a], snap[a].contents) IN
  /\ n = ThePlan(a).count
  /\ WithinBudget(n)
  /\ Fingerprint(PlanOf[a], snap[a].contents) = ThePlan(a).print

CheckTargets(a) ==
  /\ pc[a] = "targets" /\ Session(a)
  /\ \/ /\ binding = "main" => TargetsAsPlanned(a)
        /\ Goto(a, "execute") /\ UNCHANGED <<verdict, cause>>
     \/ /\ ~(binding = "main" /\ TargetsAsPlanned(a))
        /\ Conclude(a, "refused", "drift")
  /\ UNCHANGED <<env, files, server, link, receipt, exit>>

(* Run the statement; its effect becomes visible when the server commits.  *)
Execute(a) ==
  /\ pc[a] = "execute" /\ Session(a)
  /\ hit' = [hit EXCEPT ![a] = binding]
  /\ Goto(a, "commit")
  /\ UNCHANGED <<env, files, holder, txn, snap, link, verdict, cause,
                 receipt, exit>>

(* A trigger or a policy made the affected count differ: roll back and     *)
(* ignore whether the rollback reached the server.                         *)
ExecuteMismatch(a) ==
  /\ pc[a] = "execute" /\ Session(a)
  /\ \/ EndTxn(a, "aborted") /\ UNCHANGED link
     \/ link' = [link EXCEPT ![a] = FALSE] /\ UNCHANGED server
  /\ Conclude(a, "rolled_back", "drift")
  /\ UNCHANGED <<env, files, receipt, exit>>

(* A query fails: the server reports an error (lock_timeout and            *)
(* statement_timeout among them), which aborts the transaction, or the     *)
(* session is already gone.                                                *)
BoundedExceptLock(a) ==   \* mutation: no lock_timeout
  pc[a] \in Queries \ {"lock"}

Bounded(a) == pc[a] \in Queries

QueryFails(a) ==
  /\ Bounded(a)
  /\ IF Session(a) THEN EndTxn(a, "aborted") ELSE UNCHANGED server
  /\ Conclude(a, IF pc[a] = "execute" THEN "rolled_back" ELSE "refused",
              "failure")
  /\ UNCHANGED <<env, files, link, receipt, exit>>

(* transaction.commit(): COMMIT is sent if there is still a session.       *)
SendCommit(a) ==
  /\ pc[a] = "commit"
  /\ txn' = [txn EXCEPT ![a] = IF Session(a) THEN "committing" ELSE @]
  /\ Goto(a, "wait")
  /\ UNCHANGED <<env, files, holder, snap, hit, link, verdict, cause,
                 receipt, exit>>

(* commit() returns Ok.                                                    *)
CommitConfirmed(a) ==
  /\ pc[a] = "wait" /\ link[a] /\ txn[a] = "committed"
  /\ Conclude(a, "committed", "applied")
  /\ UNCHANGED <<env, files, server, link, receipt, exit>>

(* commit() returns an error: the server said so, or nobody answered.      *)
CommitErrorRollsBack(a) ==   \* mutation: any error is taken for a rollback
  /\ pc[a] = "wait"
  /\ ~link[a] \/ txn[a] = "aborted"
  /\ Conclude(a, "rolled_back", "lost")
  /\ UNCHANGED <<env, files, server, link, receipt, exit>>

CommitError(a) ==
  /\ pc[a] = "wait"
  /\ \/ link[a] /\ txn[a] = "aborted" /\ Conclude(a, "uncertain", "rejected")
     \/ ~link[a] /\ Conclude(a, "uncertain", "lost")
  /\ UNCHANGED <<env, files, server, link, receipt, exit>>

(* Append the terminal event and sync it. On failure the file keeps the    *)
(* prepared event, and may or may not have the whole terminal one.         *)
PlainErrorCode(v) == 1   \* mutation: the i/o error is returned as it is
AppendErrorCode(v) == IF v \in {"committed", "uncertain"} THEN 5 ELSE 1

FinishTruncating(a) ==   \* mutation: the file is opened anew, truncated
  /\ pc[a] = "finish"
  /\ \E left \in {"none", verdict[a]} : receipt' = [receipt EXCEPT ![a] = left]
  /\ Goto(a, "exit")
  /\ UNCHANGED <<env, files, server, link, verdict, cause, exit>>

Finish(a) ==
  /\ pc[a] = "finish"
  /\ \/ receipt' = [receipt EXCEPT ![a] = verdict[a]] /\ UNCHANGED exit
     \/ /\ \E left \in {"prepared", verdict[a]} :
             receipt' = [receipt EXCEPT ![a] = left]
        /\ exit' = [exit EXCEPT ![a] = AppendErrorCode(verdict[a])]
  /\ Goto(a, "exit")
  /\ UNCHANGED <<env, files, server, link, verdict, cause>>

(* apply_after_receipt returns, which drops the transaction (rollback) and *)
(* the connection; then main prints the result, or fails to, and exits.    *)
BudgetCode(v) == IF v = "uncertain" THEN 4 ELSE 0   \* mutation: wrong class
ResultCode(v) == IF v = "uncertain" THEN 5 ELSE 0

Exit(a) ==
  /\ pc[a] = "exit"
  /\ IF Session(a) THEN EndTxn(a, "aborted") ELSE UNCHANGED server
  /\ link' = [link EXCEPT ![a] = FALSE]
  /\ \/ /\ exit[a] = Running
        /\ \E code \in {ResultCode(verdict[a]), 1} :
             exit' = [exit EXCEPT ![a] = code]
     \/ exit[a] /= Running /\ UNCHANGED exit
  /\ Goto(a, "done") /\ Forget(a)
  /\ UNCHANGED <<env, files, receipt>>

(* The process is killed; the event it was writing may be whole or not.    *)
Crash(a) ==
  /\ pc[a] \notin {"read", "done", "crashed"}
  /\ \E left \in {receipt[a]}
                 \cup (IF pc[a] = "create" THEN {"prepared"} ELSE {})
                 \cup (IF pc[a] = "finish" THEN {verdict[a]} ELSE {}) :
       receipt' = [receipt EXCEPT ![a] = left]
  /\ link' = [link EXCEPT ![a] = FALSE]
  /\ exit' = [exit EXCEPT ![a] = Running]
  /\ Goto(a, "crashed") /\ Forget(a)
  /\ UNCHANGED <<env, files, server>>

-----------------------------------------------------------------------------
(* The server, the network and the other users of the table.               *)

Disconnect(a) ==
  /\ link[a] /\ link' = [link EXCEPT ![a] = FALSE]
  /\ UNCHANGED <<env, files, server, pc, verdict, cause, receipt, exit>>

(* COMMIT is processed, whether or not the client is still there.          *)
ServerCommit(a) ==
  /\ txn[a] = "committing"
  /\ EndTxn(a, "committed")
  /\ contents' \in IF hit[a] = "main" THEN Effects(PlanOf[a], contents)
                                      ELSE {contents}
  /\ UNCHANGED <<schema, binding, writing, changes, files, client>>

(* COMMIT fails (a deferred constraint) or never reaches the server.       *)
ServerRejects(a) ==
  /\ txn[a] = "committing"
  /\ EndTxn(a, "aborted")
  /\ UNCHANGED <<env, files, client>>

(* idle_in_transaction_session_timeout, which the client has set, or an    *)
(* administrator ends a session, and with it the transaction, whether or   *)
(* not its client is still there.                                          *)
IdleUnbounded(a) ==   \* mutation: no idle timeout for a client that vanished
  txn[a] = "open" /\ link[a]
IdleBounded(a) == txn[a] = "open"

Reap(a) ==
  /\ IdleBounded(a)
  /\ EndTxn(a, "aborted")
  /\ link' = [link EXCEPT ![a] = FALSE]
  /\ UNCHANGED <<env, files, pc, verdict, cause, receipt, exit>>

WriterBegin(w) ==
  /\ w \notin writing /\ holder = Nobody
  /\ writing' = writing \cup {w}
  /\ UNCHANGED <<contents, schema, binding, changes, files, server, client>>

(* One row inserted, updated or deleted.                                   *)
WriterCommit(w) ==
  /\ w \in writing /\ changes < MaxChanges
  /\ \E r \in Rows, v \in Values \cup {Absent} :
       v /= contents[r] /\ contents' = [contents EXCEPT ![r] = v]
  /\ writing' = writing \ {w} /\ changes' = changes + 1
  /\ UNCHANGED <<schema, binding, files, server, client>>

WriterRollback(w) ==
  /\ w \in writing
  /\ writing' = writing \ {w}
  /\ UNCHANGED <<contents, schema, binding, changes, files, server, client>>

(* ALTER TABLE, CREATE TRIGGER, CREATE INDEX ...: every statement that     *)
(* changes what the statement of a plan would do needs a lock that         *)
(* conflicts with ours. Renaming an index or a type does not; it changes   *)
(* only words of the evidence, and is left out.                            *)
AlterTable ==
  /\ holder = Nobody /\ writing = {} /\ changes < MaxChanges
  /\ schema' \in Schemas \ {schema} /\ changes' = changes + 1
  /\ UNCHANGED <<contents, binding, writing, files, server, client>>

(* A table of the same name appears in, or leaves, an earlier schema of    *)
(* the search path; or the schema is renamed and another one takes its     *)
(* name. It is another table: no lock of ours is in its way.               *)
Rebind ==
  /\ NameRebinding /\ changes < MaxChanges
  /\ binding' = (IF binding = "main" THEN "shadow" ELSE "main")
  /\ changes' = changes + 1
  /\ UNCHANGED <<contents, schema, writing, files, server, client>>

Expire(p) ==
  /\ plan[p] /= NoPlan /\ p \notin expired
  /\ expired' = expired \cup {p}
  /\ UNCHANGED <<env, plan, server, client>>

-----------------------------------------------------------------------------
(* A process that has started keeps going: every call it makes returns,    *)
(* because connecting has a timeout, statement_timeout and lock_timeout    *)
(* bound each query, and a broken connection is noticed.                   *)
Step(a) ==
  \/ CreateReceipt(a) \/ Connect(a) \/ ConnectRefused(a) \/ Lock(a)
  \/ CheckIdentity(a) \/ CheckTable(a) \/ CheckTargets(a)
  \/ Execute(a) \/ ExecuteMismatch(a) \/ QueryFails(a)
  \/ SendCommit(a) \/ CommitConfirmed(a) \/ CommitError(a)
  \/ Finish(a) \/ Exit(a)

Decide(a) == ServerCommit(a) \/ ServerRejects(a)

Others ==
  \/ \E w \in Writers : WriterBegin(w) \/ WriterCommit(w) \/ WriterRollback(w)
  \/ AlterTable \/ Rebind
  \/ \E p \in Plans : CreatePlan(p) \/ Expire(p)

Next ==
  \/ \E a \in Appliers :
       \/ AcceptInputs(a) \/ RejectInputs(a)
       \/ Step(a) \/ Decide(a)
       \/ Crash(a) \/ Disconnect(a) \/ Reap(a)
  \/ Others

Fairness == \A a \in Appliers : WF_vars(Step(a)) /\ WF_vars(Decide(a))
                                  /\ WF_vars(Reap(a))

Spec == Init /\ [][Next]_vars /\ Fairness

-----------------------------------------------------------------------------
(* Every variable holds a value the code, the files or the server can show.*)
TypeOK ==
  /\ contents \in Contents /\ schema \in Schemas
  /\ binding \in {"main", "shadow"}
  /\ holder \in Appliers \cup {Nobody} /\ writing \subseteq Writers
  /\ changes \in Nat
  /\ plan \in [Plans -> Sealed \cup {NoPlan}] /\ expired \subseteq Plans
  /\ pc \in [Appliers -> Calls] /\ link \in [Appliers -> BOOLEAN]
  /\ txn \in [Appliers ->
               {"none", "open", "committing", "committed", "aborted"}]
  /\ snap \in [Appliers -> Snapshots \cup {NoSnapshot}]
  /\ hit \in [Appliers -> {"none", "main", "shadow"}]
  /\ verdict \in [Appliers -> {"none"} \cup Verdicts]
  /\ cause \in [Appliers ->
                 {"none", "drift", "failure", "applied", "rejected", "lost"}]
  /\ receipt \in [Appliers -> Receipts]
  /\ exit \in [Appliers -> {Running, 0, 1, 5}]

(* The prepared event is durable before the server can know of the apply:  *)
(* a database effect always has a receipt beside it, whatever fails.       *)
PreparedBeforeTxn ==
  \A a \in Appliers : txn[a] /= "none" => receipt[a] /= "none"

(* A terminal receipt is never wrong about the database, now or later: a   *)
(* committed one has its commit, and behind a refused or rolled_back one   *)
(* no commit is on its way.                                                *)
ReceiptTruthful ==
  \A a \in Appliers :
    /\ receipt[a] = "committed" => txn[a] = "committed"
    /\ receipt[a] \in {"refused", "rolled_back"}
         => txn[a] \notin {"committing", "committed"}

(* What main's exit code lets automation conclude: 0 comes with a complete *)
(* receipt; and where the code is not 5 and the receipt on disk does not   *)
(* say committed or uncertain, the statement has not run and never will.   *)
ExitTruthful ==
  \A a \in Appliers :
    /\ exit[a] = 0 => receipt[a] \in {"committed", "rolled_back", "refused"}
    /\ /\ exit[a] \in {0, 1}
       /\ receipt[a] \notin {"committed", "uncertain"}
       => txn[a] \notin {"committing", "committed"}

(* While an apply still holds its transaction, its snapshot is the current *)
(* state of the table: nothing the checks compared can have moved.         *)
SnapshotFresh ==
  \A a \in Appliers :
    snap[a] /= NoSnapshot =>
      snap[a].contents = contents /\ snap[a].schema = schema

(* The table is as the plan was sealed: catalog, rows, budget, identity.   *)
AsSealed(a) ==
  /\ schema = ThePlan(a).schema /\ schema \in Allowed[PlanOf[a]]
  /\ TargetBag(PlanOf[a], contents) = ThePlan(a).rows
  /\ Count(PlanOf[a], contents) <= MaxRows
  /\ snap[a].ident = ThePlan(a).ident

(* A statement takes effect only on the table, the rows and the identity   *)
(* its plan was sealed for, at the moment it takes effect.                 *)
CommitMatchesSeal ==
  [][\A a \in Appliers :
       txn[a] /= "committed" /\ txn'[a] = "committed"
         => /\ ThePlan(a) /= NoPlan /\ AsSealed(a) /\ hit[a] = "main"
            /\ contents' \in Effects(PlanOf[a], contents)]_vars

(* Two processes given the same plan to delete rows cannot both delete     *)
(* them, unless another session put rows back in between.                  *)
DeletesOnce(p) == p \notin Inserts /\ \A v \in Match[p] : After[p][v] = Absent
ReplayRefused ==
  \A a, b \in Appliers :
    (a /= b /\ PlanOf[a] = PlanOf[b] /\ DeletesOnce(PlanOf[a])
       /\ ThePlan(a) /= NoPlan /\ txn[a] = "committed" /\ txn[b] = "committed")
    => ThePlan(a).count = 0 \/ changes > 0

(* A process that has opened its receipt ends, whatever the locks, the     *)
(* other sessions and the network do.                                      *)
EveryApplyEnds ==
  \A a \in Appliers : pc[a] = "create" ~> pc[a] \in {"done", "crashed"}

(* The table lock is given back, even by a process that died holding it.   *)
LockReleased == \A a \in Appliers : holder = a ~> holder /= a

-----------------------------------------------------------------------------
(* The tool keeps its contract: the approval is what the plan file sealed, *)
(* the report is the receipt file, and a statement has taken effect once   *)
(* its transaction is committed.                                           *)
Approvals == [p \in Plans |->
  IF plan[p] = NoPlan THEN NoPlan
  ELSE [rows |-> plan[p].rows, schema |-> plan[p].schema]]

Promise == INSTANCE Contract WITH
  approved  <- Approvals,
  effective <- {a \in Appliers : txn[a] = "committed"},
  report    <- receipt

(* Every behaviour of plan, apply, server and crashes is one the abstract  *)
(* contract allows.                                                        *)
KeepsContract == Promise!Spec

(* The receipt file each process writes to. By the time it has opened a    *)
(* transaction it was told that its prepared event is durable.             *)
File == INSTANCE ReceiptFile WITH
  Terminal <- Verdicts,
  report   <- receipt,
  assured  <- [a \in Appliers |-> IF txn[a] = "none" THEN "none"
                                                     ELSE "prepared"]

(* Apply takes its receipts for no more than ReceiptJournal makes of them, *)
(* and opens no transaction without the assurance of a prepared event.     *)
UsesReceiptFile == File!Spec

-----------------------------------------------------------------------------
(* Statements of the documentation the code does not meet.                 *)

(* The expiry is compared under the lock: no statement runs on an expired  *)
(* plan.                                                                   *)
NeverAppliedAfterExpiry ==
  [][\A a \in Appliers : Execute(a) => PlanOf[a] \notin expired]_vars

(* The statement takes effect on the table that was locked and compared.   *)
StatementHitsCheckedTable ==
  [][\A a \in Appliers : ServerCommit(a) => hit[a] = "main"]_vars

(* Exit 0 distinguishes a safety decision from a transport failure.        *)
ExitZeroIsADecision ==
  [][\A a \in Appliers : Exit(a) /\ exit'[a] = 0
                            => cause[a] /= "failure"]_vars
=============================================================================
