--------------------------- MODULE ApplyInvariant ---------------------------
(***************************************************************************)
(* The inductive invariant of Apply: why its safety properties hold when   *)
(* the requested name cannot be rebound and the row evidence is whole.     *)
(***************************************************************************)
EXTENDS Apply

(* Where a process is in its calls.                                        *)
Locked   == {"identity", "table", "targets", "execute", "commit"}
Snapped  == Locked \ {"identity"}
Vetted   == {"execute", "commit"}
InTxn    == Queries \cup {"commit"}

(* The lock excludes writers, and a snapshot is taken under it and agrees  *)
(* with the table as long as it exists.                                    *)
LockInv ==
  /\ holder /= Nobody => writing = {}
  /\ \A a \in Appliers :
       /\ txn[a] = "open" /\ pc[a] \in Locked => holder = a
       /\ txn[a] = "committing" => holder = a
       /\ snap[a] /= NoSnapshot => holder = a
       /\ txn[a] = "open" /\ pc[a] \in Snapped => snap[a] /= NoSnapshot

(* A plan file was sealed over some state of the table.                    *)
SealInv ==
  /\ ~NameRebinding => binding = "main"
  /\ \A p \in Plans : plan[p] /= NoPlan =>
       \E c \in Contents :
         /\ plan[p].rows = TargetBag(p, c)
         /\ plan[p].print = Fingerprint(p, c)
         /\ plan[p].count = Count(p, c)

(* What the checks have established about the snapshot so far.             *)
IdentityOK(a) == snap[a].ident = ThePlan(a).ident
TableOK(a) ==
  /\ snap[a].schema = ThePlan(a).schema
  /\ snap[a].schema \in Allowed[PlanOf[a]]

CheckedInv ==
  \A a \in Appliers :
    /\ txn[a] /= "none" \/ pc[a] \in {"create", "connect"} => ThePlan(a) /= NoPlan
    /\ txn[a] = "open" /\ pc[a] \in Snapped => IdentityOK(a)
    /\ txn[a] = "open" /\ pc[a] \in {"targets"} \cup Vetted => TableOK(a)
    /\ txn[a] = "open" /\ pc[a] \in Vetted => TargetsAsPlanned(a)
    /\ txn[a] = "open" /\ pc[a] = "commit" => hit[a] = "main"

(* ... which still holds of a COMMIT on its way, whatever became of the    *)
(* client that sent it.                                                    *)
CommitInv ==
  \A a \in Appliers : txn[a] = "committing" =>
    /\ snap[a] /= NoSnapshot
    /\ IdentityOK(a) /\ TableOK(a) /\ TargetsAsPlanned(a) /\ hit[a] = "main"

(* A verdict that could be written down now, or already is.                *)
Truthful(a, v) ==
  /\ v = "committed" => txn[a] = "committed"
  /\ v \in {"refused", "rolled_back"} => txn[a] \notin {"committing", "committed"}

(* How far the receipt, the transaction and the exit code of a process are *)
(* at each of its calls.                                                   *)
ProgressInv ==
  \A a \in Appliers :
    /\ pc[a] \in {"read", "create"} => txn[a] = "none" /\ receipt[a] = "none"
    /\ pc[a] = "connect" => txn[a] = "none" /\ receipt[a] = "prepared"
    /\ pc[a] \in InTxn => txn[a] \in {"open", "aborted"} /\ receipt[a] = "prepared"
    /\ pc[a] = "wait" => txn[a] /= "none" /\ receipt[a] = "prepared"
    /\ pc[a] = "finish" => verdict[a] /= "none" /\ receipt[a] = "prepared"
    /\ pc[a] \in {"finish", "exit"} => Truthful(a, verdict[a])
    /\ pc[a] = "exit" =>
         /\ receipt[a] \in {"prepared", verdict[a]} \ {"none"}
         /\ exit[a] = Running => receipt[a] = verdict[a]
         /\ exit[a] = 1 => verdict[a] \in {"refused", "rolled_back"}
         /\ exit[a] \in {Running, 1, 5}
    /\ pc[a] \notin {"exit", "done"} => exit[a] = Running
    /\ Truthful(a, receipt[a])

(* Three invariants, each inductive given those before it.                 *)
RecordInv == ProgressInv /\ PreparedBeforeTxn /\ ExitTruthful
TableInv  == LockInv /\ SnapshotFresh
ApprovalInv == SealInv /\ CheckedInv /\ CommitInv

IInv == TypeOK /\ RecordInv /\ TableInv /\ ApprovalInv
=============================================================================
