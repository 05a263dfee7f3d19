---------------------------- MODULE ApplyProofs ----------------------------
(***************************************************************************)
(* Proofs about Apply, for any number of processes, plans, writers, rows   *)
(* and catalogs.                                                           *)
(***************************************************************************)
EXTENDS ApplyInvariant, FiniteSetTheorems, TLAPS

-----------------------------------------------------------------------------
(* The operators of TargetTable.                                           *)

LEMMA CountType ==
  ASSUME NEW p \in Plans, NEW c \in Contents
  PROVE  Count(p, c) \in Nat
<1>1. IsFiniteSet(Targets(p, c))
  BY FS_Subset, TableAssumption DEF Targets
<1>2. QED
  BY <1>1, FS_CardinalityType DEF Count

LEMMA EffectsType ==
  ASSUME NEW p \in Plans, NEW c \in Contents
  PROVE  Effects(p, c) \subseteq Contents
<1>1. CASE p \in Inserts
  BY <1>1, TableAssumption DEF Effects, Inserted, Contents
<1>2. CASE p \notin Inserts
  <2>1. ASSUME NEW r \in Rows
        PROVE  (IF c[r] \in Match[p] THEN After[p][c[r]] ELSE c[r])
                 \in Values \cup {Absent}
    BY TableAssumption DEF Contents
  <2>2. QED
    BY <1>2, <2>1 DEF Effects, Rewritten, Contents
<1>3. QED
  BY <1>1, <1>2

(* A fingerprint of whole rows pins down the bag of targeted rows.         *)
LEMMA FingerprintDecides ==
  ASSUME ImageIsRow, NEW p \in Plans, NEW c \in Contents, NEW d \in Contents,
         Fingerprint(p, c) = Fingerprint(p, d)
  PROVE  TargetBag(p, c) = TargetBag(p, d)
<1>1. ASSUME NEW v \in Match[p], NEW e \in Contents
      PROVE  /\ Image[v] \in Range(Image)
             /\ Fingerprint(p, e)[Image[v]] = TargetBag(p, e)[v]
  <2>1. Match[p] \subseteq Values /\ v \in DOMAIN Image
    BY TableAssumption
  <2>2. {r \in Targets(p, e) : Image[e[r]] = Image[v]} = {r \in Rows : e[r] = v}
    BY <2>1 DEF Targets, ImageIsRow, Contents
  <2>3. Image[v] \in Range(Image)
    BY <2>1 DEF Range
  <2>4. QED
    BY <2>2, <2>3 DEF Fingerprint, TargetBag
<1>2. ASSUME NEW v \in Match[p]
      PROVE  TargetBag(p, c)[v] = TargetBag(p, d)[v]
  BY <1>1
<1>3. QED
  BY <1>2 DEF TargetBag

-----------------------------------------------------------------------------
(* Type correctness.                                                       *)

LEMMA SealedType ==
  ASSUME NEW p \in Plans, contents \in Contents, schema \in Schemas, NEW i \in Idents
  PROVE  [rows |-> TargetBag(p, contents), print |-> Fingerprint(p, contents),
          count |-> Count(p, contents), schema |-> schema, ident |-> i] \in Sealed
BY CountType DEF Sealed

LEMMA InitTypeOK == Init => TypeOK
BY ApplyAssumption DEF Init, TypeOK, Calls, Receipts, Running

LEMMA NextTypeOK == TypeOK /\ [Next]_vars => TypeOK'
<1> SUFFICES ASSUME TypeOK, [Next]_vars PROVE TypeOK'
  OBVIOUS
<1> USE DEF env, files, server, client, Goto, Conclude, EndTxn, Forget,
            Calls, Queries, Verdicts, Receipts, Running
<1>1. ASSUME NEW p \in Plans, CreatePlan(p) PROVE TypeOK'
  <2>1. PICK i \in Idents :
          plan' = [plan EXCEPT ![p] = [rows |-> TargetBag(p, contents),
                                       print |-> Fingerprint(p, contents),
                                       count |-> Count(p, contents),
                                       schema |-> schema, ident |-> i]]
    BY <1>1 DEF CreatePlan
  <2>2. plan' \in [Plans -> Sealed \cup {NoPlan}]
    BY <2>1, SealedType DEF TypeOK
  <2>3. QED
    BY <1>1, <2>2 DEF TypeOK, CreatePlan
<1>2. ASSUME NEW a \in Appliers, AcceptInputs(a) \/ RejectInputs(a)
      PROVE  TypeOK'
  BY <1>2 DEF TypeOK, AcceptInputs, RejectInputs
<1>3. ASSUME NEW a \in Appliers, CreateReceipt(a) PROVE TypeOK'
  BY <1>3 DEF TypeOK, CreateReceipt
<1>4. ASSUME NEW a \in Appliers, Connect(a) \/ ConnectRefused(a) PROVE TypeOK'
  <2>1. CASE Connect(a)
    BY <2>1 DEF TypeOK, Connect
  <2>2. CASE ConnectRefused(a)
    BY <2>2 DEF TypeOK, ConnectRefused
  <2>3. QED
    BY <1>4, <2>1, <2>2
<1>5. ASSUME NEW a \in Appliers, Lock(a) PROVE TypeOK'
  BY <1>5 DEF TypeOK, Lock
<1>6. ASSUME NEW a \in Appliers, CheckIdentity(a) PROVE TypeOK'
  BY <1>6 DEF TypeOK, CheckIdentity, View, Snapshots
<1>7. ASSUME NEW a \in Appliers, CheckTable(a) \/ CheckTargets(a) PROVE TypeOK'
  BY <1>7 DEF TypeOK, CheckTable, CheckTargets
<1>8. ASSUME NEW a \in Appliers, Execute(a) PROVE TypeOK'
  BY <1>8 DEF TypeOK, Execute
<1>9. ASSUME NEW a \in Appliers, ExecuteMismatch(a) PROVE TypeOK'
  BY <1>9 DEF TypeOK, ExecuteMismatch
<1>10. ASSUME NEW a \in Appliers, QueryFails(a) PROVE TypeOK'
  BY <1>10 DEF TypeOK, QueryFails
<1>11. ASSUME NEW a \in Appliers, SendCommit(a) \/ CommitConfirmed(a) \/ CommitError(a)
       PROVE  TypeOK'
  BY <1>11 DEF TypeOK, SendCommit, CommitConfirmed, CommitError
<1>12. ASSUME NEW a \in Appliers, Finish(a) PROVE TypeOK'
  BY <1>12 DEF TypeOK, Finish, AppendErrorCode
<1>13. ASSUME NEW a \in Appliers, Exit(a) PROVE TypeOK'
  BY <1>13 DEF TypeOK, Exit, ResultCode
<1>14. ASSUME NEW a \in Appliers, Crash(a) PROVE TypeOK'
  BY <1>14 DEF TypeOK, Crash
<1>15. ASSUME NEW a \in Appliers, Disconnect(a) \/ Reap(a) PROVE TypeOK'
  <2>1. CASE Disconnect(a)
    BY <2>1 DEF TypeOK, Disconnect
  <2>2. CASE Reap(a)
    BY <2>2 DEF TypeOK, Reap, IdleBounded
  <2>3. QED
    BY <1>15, <2>1, <2>2
<1>16. ASSUME NEW a \in Appliers, ServerCommit(a) PROVE TypeOK'
  <2>1. contents' \in Contents
    BY <1>16, EffectsType, ApplyAssumption DEF ServerCommit, TypeOK
  <2>2. QED
    BY <1>16, <2>1 DEF TypeOK, ServerCommit
<1>17. ASSUME NEW a \in Appliers, ServerRejects(a) PROVE TypeOK'
  BY <1>17 DEF TypeOK, ServerRejects
<1>18. ASSUME NEW w \in Writers, WriterBegin(w) \/ WriterRollback(w)
       PROVE  TypeOK'
  BY <1>18 DEF TypeOK, WriterBegin, WriterRollback
<1>19. ASSUME NEW w \in Writers, WriterCommit(w) PROVE TypeOK'
  BY <1>19 DEF TypeOK, WriterCommit, Contents
<1>20. ASSUME AlterTable \/ Rebind PROVE TypeOK'
  BY <1>20 DEF TypeOK, AlterTable, Rebind
<1>21. ASSUME NEW p \in Plans, Expire(p) PROVE TypeOK'
  BY <1>21 DEF TypeOK, Expire
<1>22. ASSUME UNCHANGED vars PROVE TypeOK'
  BY <1>22 DEF TypeOK, vars
<1>23. QED
  BY <1>1, <1>2, <1>3, <1>4, <1>5, <1>6, <1>7, <1>8, <1>9, <1>10, <1>11, <1>12,
     <1>13, <1>14, <1>15, <1>16, <1>17, <1>18, <1>19, <1>20, <1>21, <1>22
     DEF Next, Step, Decide, Others

(* Every variable keeps its type.                                          *)
THEOREM TypeCorrect == Spec => []TypeOK
BY InitTypeOK, NextTypeOK, PTL DEF Spec

-----------------------------------------------------------------------------
(* The lock protects the snapshot.                                         *)

LEMMA InitTableInv == Init => TableInv
BY DEF Init, TableInv, LockInv, SnapshotFresh, Locked, Snapped

LEMMA NextTableInv ==
  TypeOK /\ TableInv /\ [Next]_vars => TableInv'
<1> SUFFICES ASSUME TypeOK, TableInv, [Next]_vars
             PROVE  TableInv'
  OBVIOUS
<1> USE ApplyAssumption
   DEF TypeOK, TableInv, LockInv, SnapshotFresh, Locked, Snapped,
          env, files, server, client, Goto, Conclude, EndTxn, Forget, Session,
          Calls, Queries
<1>1. ASSUME NEW p \in Plans, CreatePlan(p) \/ Expire(p)
      PROVE  TableInv'
  BY <1>1 DEF CreatePlan, Expire
<1>2. ASSUME NEW a \in Appliers, AcceptInputs(a) \/ RejectInputs(a)
      PROVE  TableInv'
  BY <1>2 DEF AcceptInputs, RejectInputs
<1>3. ASSUME NEW a \in Appliers, CreateReceipt(a) PROVE TableInv'
  BY <1>3 DEF CreateReceipt
<1>4. ASSUME NEW a \in Appliers, Connect(a) PROVE TableInv'
  BY <1>4 DEF Connect
<1>5. ASSUME NEW a \in Appliers, ConnectRefused(a) PROVE TableInv'
  BY <1>5 DEF ConnectRefused
<1>6. ASSUME NEW a \in Appliers, Lock(a) PROVE TableInv'
  BY <1>6 DEF Lock, Grantable
<1>7. ASSUME NEW a \in Appliers, CheckIdentity(a) PROVE TableInv'
  <2>1. PICK i \in Idents : snap' = [snap EXCEPT ![a] =
          [contents |-> contents, schema |-> schema, ident |-> i]]
    BY <1>7 DEF CheckIdentity, View
  <2>2. holder = a /\ holder' = holder /\ txn' = txn /\ writing' = writing
    BY <1>7 DEF CheckIdentity, View
  <2>3. \A b \in Appliers : b /= a => pc'[b] = pc[b]
    BY <1>7 DEF CheckIdentity, View
  <2>4. SnapshotFresh'
    BY <1>7, <2>1 DEF CheckIdentity, View
  <2>5. snap'[a] /= NoSnapshot
    BY <2>1 DEF Snapshots
  <2>6. LockInv'
    BY <2>1, <2>2, <2>3, <2>5
  <2>7. QED
    BY <2>4, <2>6
<1>8. ASSUME NEW a \in Appliers, CheckTable(a) PROVE TableInv'
  BY <1>8 DEF CheckTable
<1>9. ASSUME NEW a \in Appliers, CheckTargets(a) PROVE TableInv'
  BY <1>9 DEF CheckTargets
<1>10. ASSUME NEW a \in Appliers, Execute(a) PROVE TableInv'
  BY <1>10 DEF Execute
<1>11. ASSUME NEW a \in Appliers, ExecuteMismatch(a) PROVE TableInv'
  BY <1>11 DEF ExecuteMismatch
<1>12. ASSUME NEW a \in Appliers, QueryFails(a) PROVE TableInv'
  BY <1>12 DEF QueryFails
<1>13. ASSUME NEW a \in Appliers, SendCommit(a) PROVE TableInv'
  BY <1>13 DEF SendCommit
<1>14. ASSUME NEW a \in Appliers, CommitConfirmed(a) \/ CommitError(a)
       PROVE  TableInv'
  BY <1>14 DEF CommitConfirmed, CommitError
<1>15. ASSUME NEW a \in Appliers, Finish(a) PROVE TableInv'
  BY <1>15 DEF Finish
<1>16. ASSUME NEW a \in Appliers, Exit(a) PROVE TableInv'
  BY <1>16 DEF Exit
<1>17. ASSUME NEW a \in Appliers, Crash(a) PROVE TableInv'
  BY <1>17 DEF Crash
<1>18. ASSUME NEW a \in Appliers, Disconnect(a) PROVE TableInv'
  BY <1>18 DEF Disconnect
<1>19. ASSUME NEW a \in Appliers, Reap(a) PROVE TableInv'
  BY <1>19 DEF Reap, IdleBounded
<1>20. ASSUME NEW a \in Appliers, ServerCommit(a) PROVE TableInv'
  BY <1>20 DEF ServerCommit
<1>21. ASSUME NEW a \in Appliers, ServerRejects(a) PROVE TableInv'
  BY <1>21 DEF ServerRejects
<1>22. ASSUME NEW w \in Writers, WriterBegin(w) \/ WriterCommit(w) \/ WriterRollback(w)
       PROVE  TableInv'
  BY <1>22 DEF WriterBegin, WriterCommit, WriterRollback
<1>23. ASSUME AlterTable \/ Rebind PROVE TableInv'
  BY <1>23 DEF AlterTable, Rebind
<1>24. ASSUME UNCHANGED vars PROVE TableInv'
  BY <1>24 DEF vars
<1>25. QED
  BY <1>1, <1>2, <1>3, <1>4, <1>5, <1>6, <1>7, <1>8, <1>9, <1>10, <1>11, <1>12,
     <1>13, <1>14, <1>15, <1>16, <1>17, <1>18, <1>19, <1>20, <1>21, <1>22, <1>23,
     <1>24 DEF Next, Step, Decide, Others

(* While an apply holds its transaction, nothing it compared has moved.    *)
THEOREM SnapshotStaysFresh == Spec => []SnapshotFresh
<1>1. Spec => []TableInv
  BY InitTableInv, NextTableInv, TypeCorrect, PTL DEF Spec
<1>2. TableInv => SnapshotFresh
  BY DEF TableInv
<1>3. QED
  BY <1>1, <1>2, PTL

-----------------------------------------------------------------------------
(* The receipt and the exit code keep up with the transaction.             *)

LEMMA InitRecordInv == Init => RecordInv
BY DEF Init, RecordInv, ProgressInv, PreparedBeforeTxn, ExitTruthful, Truthful,
       InTxn, Queries, Running

LEMMA NextRecordInv == TypeOK /\ RecordInv /\ [Next]_vars => RecordInv'
<1> SUFFICES ASSUME TypeOK, RecordInv, [Next]_vars PROVE RecordInv'
  OBVIOUS
<1> USE
   DEF TypeOK, RecordInv, ProgressInv, PreparedBeforeTxn, ExitTruthful, Truthful,
          InTxn, env, files, server, client, Goto, Conclude, EndTxn, Forget,
          Session, Queries, Running, Verdicts
<1>1. ASSUME NEW p \in Plans, CreatePlan(p) PROVE RecordInv'
  BY <1>1 DEF CreatePlan
<1>2. ASSUME NEW p \in Plans, Expire(p) PROVE RecordInv'
  BY <1>2 DEF Expire
<1>3. ASSUME NEW a \in Appliers, AcceptInputs(a) PROVE RecordInv'
  BY <1>3 DEF AcceptInputs
<1>4. ASSUME NEW a \in Appliers, RejectInputs(a) PROVE RecordInv'
  BY <1>4 DEF RejectInputs
<1>5. ASSUME NEW a \in Appliers, CreateReceipt(a) PROVE RecordInv'
  BY <1>5 DEF CreateReceipt
<1>6. ASSUME NEW a \in Appliers, Connect(a) PROVE RecordInv'
  BY <1>6 DEF Connect
<1>7. ASSUME NEW a \in Appliers, ConnectRefused(a) PROVE RecordInv'
  BY <1>7 DEF ConnectRefused
<1>8. ASSUME NEW a \in Appliers, Lock(a) PROVE RecordInv'
  BY <1>8 DEF Lock, Grantable
<1>9. ASSUME NEW a \in Appliers, CheckIdentity(a) PROVE RecordInv'
  BY <1>9 DEF CheckIdentity, View
<1>10. ASSUME NEW a \in Appliers, CheckTable(a) PROVE RecordInv'
  BY <1>10 DEF CheckTable, TableAsPlanned
<1>11. ASSUME NEW a \in Appliers, CheckTargets(a) PROVE RecordInv'
  BY <1>11 DEF CheckTargets
<1>12. ASSUME NEW a \in Appliers, Execute(a) PROVE RecordInv'
  BY <1>12 DEF Execute
<1>13. ASSUME NEW a \in Appliers, ExecuteMismatch(a) PROVE RecordInv'
  BY <1>13 DEF ExecuteMismatch
<1>14. ASSUME NEW a \in Appliers, QueryFails(a) PROVE RecordInv'
  BY <1>14 DEF QueryFails, Bounded
<1>15. ASSUME NEW a \in Appliers, SendCommit(a) PROVE RecordInv'
  BY <1>15 DEF SendCommit
<1>16. ASSUME NEW a \in Appliers, CommitConfirmed(a) PROVE RecordInv'
  BY <1>16 DEF CommitConfirmed
<1>17. ASSUME NEW a \in Appliers, CommitError(a) PROVE RecordInv'
  BY <1>17 DEF CommitError
<1>18. ASSUME NEW a \in Appliers, Finish(a) PROVE RecordInv'
  BY <1>18 DEF Finish, AppendErrorCode
<1>19. ASSUME NEW a \in Appliers, Exit(a) PROVE RecordInv'
  BY <1>19 DEF Exit, ResultCode
<1>20. ASSUME NEW a \in Appliers, Crash(a) PROVE RecordInv'
  BY <1>20 DEF Crash
<1>21. ASSUME NEW a \in Appliers, Disconnect(a) PROVE RecordInv'
  BY <1>21 DEF Disconnect
<1>22. ASSUME NEW a \in Appliers, Reap(a) PROVE RecordInv'
  BY <1>22 DEF Reap, IdleBounded
<1>23. ASSUME NEW a \in Appliers, ServerCommit(a) PROVE RecordInv'
  BY <1>23 DEF ServerCommit
<1>24. ASSUME NEW a \in Appliers, ServerRejects(a) PROVE RecordInv'
  BY <1>24 DEF ServerRejects
<1>25. ASSUME NEW w \in Writers, WriterBegin(w) \/ WriterCommit(w) \/ WriterRollback(w)
       PROVE  RecordInv'
  BY <1>25 DEF WriterBegin, WriterCommit, WriterRollback
<1>26. ASSUME AlterTable \/ Rebind PROVE RecordInv'
  BY <1>26 DEF AlterTable, Rebind
<1>27. ASSUME UNCHANGED vars PROVE RecordInv'
  BY <1>27 DEF vars
<1>28. QED
  BY <1>1, <1>2, <1>3, <1>4, <1>5, <1>6, <1>7, <1>8, <1>9, <1>10, <1>11,
     <1>12, <1>13, <1>14, <1>15, <1>16, <1>17, <1>18, <1>19, <1>20, <1>21,
     <1>22, <1>23, <1>24, <1>25, <1>26, <1>27
     DEF Next, Step, Decide, Others

LEMMA RecordsHold == Spec => []RecordInv
BY InitRecordInv, NextRecordInv, TypeCorrect, PTL DEF Spec

(* No receipt, at any time, claims an outcome the database does not have.  *)
THEOREM ReceiptsAreTruthful == Spec => []ReceiptTruthful
<1>1. RecordInv => ReceiptTruthful
  BY DEF RecordInv, ProgressInv, Truthful, ReceiptTruthful
<1>2. QED
  BY <1>1, RecordsHold, PTL

(* No transaction is ever without a prepared receipt beside it.            *)
THEOREM ReceiptsComeFirst == Spec => []PreparedBeforeTxn
<1>1. RecordInv => PreparedBeforeTxn
  BY DEF RecordInv
<1>2. QED
  BY <1>1, RecordsHold, PTL

(* The exit code, read with the receipt on disk, hides no effect.          *)
THEOREM ExitCodesAreTruthful == Spec => []ExitTruthful
<1>1. RecordInv => ExitTruthful
  BY DEF RecordInv
<1>2. QED
  BY <1>1, RecordsHold, PTL

-----------------------------------------------------------------------------
(* What the checks approve stays approved until the commit.                *)

LEMMA InitApprovalInv == Init => ApprovalInv
BY
   DEF Init, ApprovalInv, SealInv, CheckedInv, CommitInv, Snapped, Locked, Vetted

LEMMA NextApprovalInv ==
  ASSUME ~NameRebinding
  PROVE  TypeOK /\ RecordInv /\ TableInv /\ ApprovalInv /\ [Next]_vars => ApprovalInv'
<1> SUFFICES ASSUME TypeOK, RecordInv, TableInv, ApprovalInv, [Next]_vars
             PROVE  ApprovalInv'
  OBVIOUS
<1> USE ApplyAssumption DEF TypeOK, RecordInv, ProgressInv, TableInv, LockInv,
          ApprovalInv, SealInv, CheckedInv, CommitInv, IdentityOK, TableOK,
          TargetsAsPlanned, ThePlan, Snapped, Locked, Vetted, InTxn,
          env, files, server, client, Goto, Conclude, EndTxn, Forget, Session,
          Queries
<1>1. ASSUME NEW p \in Plans, CreatePlan(p) PROVE ApprovalInv'
  BY <1>1 DEF CreatePlan
<1>2. ASSUME NEW p \in Plans, Expire(p) PROVE ApprovalInv'
  BY <1>2 DEF Expire
<1>3. ASSUME NEW a \in Appliers, AcceptInputs(a) PROVE ApprovalInv'
  BY <1>3 DEF AcceptInputs
<1>4. ASSUME NEW a \in Appliers, RejectInputs(a) PROVE ApprovalInv'
  BY <1>4 DEF RejectInputs
<1>5. ASSUME NEW a \in Appliers, CreateReceipt(a) PROVE ApprovalInv'
  BY <1>5 DEF CreateReceipt
<1>6. ASSUME NEW a \in Appliers, Connect(a) PROVE ApprovalInv'
  BY <1>6 DEF Connect
<1>7. ASSUME NEW a \in Appliers, ConnectRefused(a) PROVE ApprovalInv'
  BY <1>7 DEF ConnectRefused
<1>8. ASSUME NEW a \in Appliers, Lock(a) PROVE ApprovalInv'
  BY <1>8 DEF Lock, Grantable
<1>9. ASSUME NEW a \in Appliers, CheckIdentity(a) PROVE ApprovalInv'
  BY <1>9 DEF CheckIdentity, View
<1>10. ASSUME NEW a \in Appliers, CheckTable(a) PROVE ApprovalInv'
  BY <1>10 DEF CheckTable, TableAsPlanned
<1>11. ASSUME NEW a \in Appliers, CheckTargets(a) PROVE ApprovalInv'
  BY <1>11 DEF CheckTargets
<1>12. ASSUME NEW a \in Appliers, Execute(a) PROVE ApprovalInv'
  BY <1>12 DEF Execute
<1>13. ASSUME NEW a \in Appliers, ExecuteMismatch(a) PROVE ApprovalInv'
  BY <1>13 DEF ExecuteMismatch
<1>14. ASSUME NEW a \in Appliers, QueryFails(a) PROVE ApprovalInv'
  BY <1>14 DEF QueryFails, Bounded
<1>15. ASSUME NEW a \in Appliers, SendCommit(a) PROVE ApprovalInv'
  BY <1>15 DEF SendCommit
<1>16. ASSUME NEW a \in Appliers, CommitConfirmed(a) PROVE ApprovalInv'
  BY <1>16 DEF CommitConfirmed
<1>17. ASSUME NEW a \in Appliers, CommitError(a) PROVE ApprovalInv'
  BY <1>17 DEF CommitError
<1>18. ASSUME NEW a \in Appliers, Finish(a) PROVE ApprovalInv'
  BY <1>18 DEF Finish, AppendErrorCode
<1>19. ASSUME NEW a \in Appliers, Exit(a) PROVE ApprovalInv'
  BY <1>19 DEF Exit, ResultCode
<1>20. ASSUME NEW a \in Appliers, Crash(a) PROVE ApprovalInv'
  BY <1>20 DEF Crash
<1>21. ASSUME NEW a \in Appliers, Disconnect(a) PROVE ApprovalInv'
  BY <1>21 DEF Disconnect
<1>22. ASSUME NEW a \in Appliers, Reap(a) PROVE ApprovalInv'
  BY <1>22 DEF Reap, IdleBounded
<1>23. ASSUME NEW a \in Appliers, ServerCommit(a) PROVE ApprovalInv'
  BY <1>23 DEF ServerCommit
<1>24. ASSUME NEW a \in Appliers, ServerRejects(a) PROVE ApprovalInv'
  BY <1>24 DEF ServerRejects
<1>25. ASSUME NEW w \in Writers, WriterBegin(w) \/ WriterCommit(w) \/ WriterRollback(w)
       PROVE  ApprovalInv'
  BY <1>25 DEF WriterBegin, WriterCommit, WriterRollback
<1>26. ASSUME AlterTable \/ Rebind PROVE ApprovalInv'
  BY <1>26 DEF AlterTable, Rebind
<1>27. ASSUME UNCHANGED vars PROVE ApprovalInv'
  BY <1>27 DEF vars
<1>28. QED
  BY <1>1, <1>2, <1>3, <1>4, <1>5, <1>6, <1>7, <1>8, <1>9, <1>10, <1>11,
     <1>12, <1>13, <1>14, <1>15, <1>16, <1>17, <1>18, <1>19, <1>20, <1>21,
     <1>22, <1>23, <1>24, <1>25, <1>26, <1>27
     DEF Next, Step, Decide, Others

(* The invariant that carries all of this, when names stay bound.          *)
THEOREM AlwaysApproved ==
  ASSUME ~NameRebinding
  PROVE  Spec => []IInv
<1>1. Spec => [](RecordInv /\ TableInv)
  BY InitRecordInv, NextRecordInv, InitTableInv, NextTableInv, TypeCorrect, PTL
     DEF Spec
<1>2. Spec => []ApprovalInv
  BY <1>1, InitApprovalInv, NextApprovalInv, TypeCorrect, PTL DEF Spec
<1>3. TypeOK /\ RecordInv /\ TableInv /\ ApprovalInv => IInv
  BY DEF IInv
<1>4. QED
  BY <1>1, <1>2, <1>3, TypeCorrect, PTL

-----------------------------------------------------------------------------
(* A statement takes effect in one way only, and only as it was approved.  *)

LEMMA OnlyServerCommits ==
  ASSUME TypeOK, [Next]_vars, NEW b \in Appliers
  PROVE  /\ txn[b] /= "committed" /\ txn'[b] = "committed" => ServerCommit(b)
         /\ txn[b] = "committed" /\ RecordInv => txn'[b] = "committed"
<1> DEFINE Goal == /\ txn[b] /= "committed" /\ txn'[b] = "committed" => ServerCommit(b)
                   /\ txn[b] = "committed" /\ RecordInv => txn'[b] = "committed"
<1> SUFFICES Goal
  OBVIOUS
<1> USE
   DEF TypeOK, env, files, server, client, EndTxn, Session, RecordInv, ProgressInv
<1>1. ASSUME NEW p \in Plans, CreatePlan(p) PROVE Goal
  BY <1>1 DEF CreatePlan
<1>2. ASSUME NEW p \in Plans, Expire(p) PROVE Goal
  BY <1>2 DEF Expire
<1>3. ASSUME NEW a \in Appliers, AcceptInputs(a) PROVE Goal
  BY <1>3 DEF AcceptInputs
<1>4. ASSUME NEW a \in Appliers, RejectInputs(a) PROVE Goal
  BY <1>4 DEF RejectInputs
<1>5. ASSUME NEW a \in Appliers, CreateReceipt(a) PROVE Goal
  BY <1>5 DEF CreateReceipt
<1>6. ASSUME NEW a \in Appliers, Connect(a) PROVE Goal
  BY <1>6 DEF Connect
<1>7. ASSUME NEW a \in Appliers, ConnectRefused(a) PROVE Goal
  BY <1>7 DEF ConnectRefused
<1>8. ASSUME NEW a \in Appliers, Lock(a) PROVE Goal
  BY <1>8 DEF Lock, Grantable
<1>9. ASSUME NEW a \in Appliers, CheckIdentity(a) PROVE Goal
  BY <1>9 DEF CheckIdentity, View
<1>10. ASSUME NEW a \in Appliers, CheckTable(a) PROVE Goal
  BY <1>10 DEF CheckTable, TableAsPlanned
<1>11. ASSUME NEW a \in Appliers, CheckTargets(a) PROVE Goal
  BY <1>11 DEF CheckTargets
<1>12. ASSUME NEW a \in Appliers, Execute(a) PROVE Goal
  BY <1>12 DEF Execute
<1>13. ASSUME NEW a \in Appliers, ExecuteMismatch(a) PROVE Goal
  BY <1>13 DEF ExecuteMismatch
<1>14. ASSUME NEW a \in Appliers, QueryFails(a) PROVE Goal
  BY <1>14 DEF QueryFails, Bounded
<1>15. ASSUME NEW a \in Appliers, SendCommit(a) PROVE Goal
  BY <1>15 DEF SendCommit
<1>16. ASSUME NEW a \in Appliers, CommitConfirmed(a) PROVE Goal
  BY <1>16 DEF CommitConfirmed
<1>17. ASSUME NEW a \in Appliers, CommitError(a) PROVE Goal
  BY <1>17 DEF CommitError
<1>18. ASSUME NEW a \in Appliers, Finish(a) PROVE Goal
  BY <1>18 DEF Finish, AppendErrorCode
<1>19. ASSUME NEW a \in Appliers, Exit(a) PROVE Goal
  BY <1>19 DEF Exit, ResultCode
<1>20. ASSUME NEW a \in Appliers, Crash(a) PROVE Goal
  BY <1>20 DEF Crash
<1>21. ASSUME NEW a \in Appliers, Disconnect(a) PROVE Goal
  BY <1>21 DEF Disconnect
<1>22. ASSUME NEW a \in Appliers, Reap(a) PROVE Goal
  BY <1>22 DEF Reap, IdleBounded
<1>23. ASSUME NEW a \in Appliers, ServerCommit(a) PROVE Goal
  BY <1>23 DEF ServerCommit
<1>24. ASSUME NEW a \in Appliers, ServerRejects(a) PROVE Goal
  BY <1>24 DEF ServerRejects
<1>25. ASSUME NEW w \in Writers, WriterBegin(w) \/ WriterCommit(w) \/ WriterRollback(w)
       PROVE  Goal
  BY <1>25 DEF WriterBegin, WriterCommit, WriterRollback
<1>26. ASSUME AlterTable \/ Rebind PROVE Goal
  BY <1>26 DEF AlterTable, Rebind
<1>27. ASSUME UNCHANGED vars PROVE Goal
  BY <1>27 DEF vars
<1>28. QED
  BY <1>1, <1>2, <1>3, <1>4, <1>5, <1>6, <1>7, <1>8, <1>9, <1>10, <1>11,
     <1>12, <1>13, <1>14, <1>15, <1>16, <1>17, <1>18, <1>19, <1>20, <1>21,
     <1>22, <1>23, <1>24, <1>25, <1>26, <1>27
     DEF Next, Step, Decide, Others

LEMMA CommitIsApproved ==
  ASSUME ~NameRebinding, ImageIsRow, IInv, NEW a \in Appliers, ServerCommit(a)
  PROVE  /\ ThePlan(a) /= NoPlan /\ AsSealed(a) /\ hit[a] = "main"
         /\ contents' \in Effects(PlanOf[a], contents)
<1> USE DEF IInv, ApprovalInv, TableInv
<1>1. /\ txn[a] = "committing" /\ ThePlan(a) /= NoPlan
      /\ snap[a] /= NoSnapshot /\ hit[a] = "main"
      /\ IdentityOK(a) /\ TableOK(a) /\ TargetsAsPlanned(a)
  BY DEF ServerCommit, CommitInv, CheckedInv
<1>2. snap[a].contents = contents /\ snap[a].schema = schema
  BY <1>1 DEF SnapshotFresh
<1>3. PlanOf[a] \in Plans /\ contents \in Contents
  BY ApplyAssumption DEF TypeOK
<1>4. PICK c \in Contents : /\ ThePlan(a).rows = TargetBag(PlanOf[a], c)
                            /\ ThePlan(a).print = Fingerprint(PlanOf[a], c)
  BY <1>1, <1>3 DEF SealInv, ThePlan
<1>5. TargetBag(PlanOf[a], contents) = ThePlan(a).rows
  <2>1. Fingerprint(PlanOf[a], contents) = Fingerprint(PlanOf[a], c)
    BY <1>1, <1>2, <1>4 DEF TargetsAsPlanned
  <2>2. QED
    BY <1>3, <1>4, <2>1, FingerprintDecides
<1>6. AsSealed(a)
  BY <1>1, <1>2, <1>5
     DEF AsSealed, IdentityOK, TableOK, TargetsAsPlanned, WithinBudget
<1>7. QED
  BY <1>1, <1>6 DEF ServerCommit

(* A statement takes effect only on the table, catalog, rows and identity  *)
(* its plan was sealed for, when names stay bound and rows show whole.     *)
THEOREM CommitsMatchTheSeal ==
  ASSUME ~NameRebinding, ImageIsRow
  PROVE  Spec => CommitMatchesSeal
<1> DEFINE Matches == \A a \in Appliers :
      txn[a] /= "committed" /\ txn'[a] = "committed"
        => /\ ThePlan(a) /= NoPlan /\ AsSealed(a) /\ hit[a] = "main"
           /\ contents' \in Effects(PlanOf[a], contents)
<1>1. IInv /\ [Next]_vars => Matches
  BY OnlyServerCommits, CommitIsApproved DEF IInv
<1>2. Spec => [][Matches]_vars
  BY <1>1, AlwaysApproved, PTL DEF Spec
<1>3. QED
  BY <1>2 DEF CommitMatchesSeal

-----------------------------------------------------------------------------
(* Every step of Apply is a step of Contract, or none.                     *)

Effective == {a \in Appliers : txn[a] = "committed"}

LEMMA EffectiveChanges ==
  ASSUME TypeOK, RecordInv, [Next]_vars
  PROVE  \/ Effective' = Effective
         \/ \E a \in Appliers : ServerCommit(a)
<1>1. SUFFICES ASSUME \A a \in Appliers : ~ServerCommit(a)
               PROVE  Effective' = Effective
  OBVIOUS
<1>2. \A b \in Appliers : txn'[b] = "committed" <=> txn[b] = "committed"
  BY <1>1, OnlyServerCommits
<1>3. QED
  BY <1>2 DEF Effective

LEMMA ApprovalsAre ==
  ASSUME TypeOK, NEW p \in Plans
  PROVE  Approvals[p] /= NoPlan <=> plan[p] /= NoPlan
BY ApplyAssumption DEF Approvals, Approved, Sealed, TypeOK

LEMMA ApprovalsChange ==
  ASSUME TypeOK, NEW p \in Plans, CreatePlan(p)
  PROVE  /\ Approvals[p] = NoPlan
         /\ Approvals' = [Approvals EXCEPT ![p] =
              [rows |-> TargetBag(p, contents), schema |-> schema]]
<1>1. PICK i \in Idents : plan' = [plan EXCEPT ![p] =
        [rows |-> TargetBag(p, contents), print |-> Fingerprint(p, contents),
         count |-> Count(p, contents), schema |-> schema, ident |-> i]]
  BY DEF CreatePlan
<1>2. plan'[p] /= NoPlan
  BY <1>1, SealedType, ApplyAssumption DEF TypeOK
<1>3. plan'[p].rows = TargetBag(p, contents) /\ plan'[p].schema = schema
  BY <1>1 DEF TypeOK
<1>4. \A q \in Plans : q /= p => plan'[q] = plan[q]
  BY <1>1 DEF TypeOK
<1>5. QED
  BY <1>2, <1>3, <1>4 DEF CreatePlan, Approvals

(* Contract speaks of the same table.                                      *)
LEMMA SameTable ==
  /\ Promise!Contents = Contents
  /\ \A p, c : /\ Promise!Count(p, c) = Count(p, c)
               /\ Promise!TargetBag(p, c) = TargetBag(p, c)
               /\ Promise!Effects(p, c) = Effects(p, c)
<1>0. \A S : Promise!Cardinality(S) = Cardinality(S)
  BY DEF Promise!Cardinality, Cardinality
<1>1. Promise!Contents = Contents
  BY DEF Promise!Contents, Contents
<1>2. ASSUME NEW p, NEW c
      PROVE  /\ Promise!Count(p, c) = Count(p, c)
             /\ Promise!TargetBag(p, c) = TargetBag(p, c)
             /\ Promise!Effects(p, c) = Effects(p, c)
  <2>1. Promise!Count(p, c) = Count(p, c)
    BY <1>0 DEF Promise!Count, Count, Promise!Targets, Targets
  <2>2. Promise!TargetBag(p, c) = TargetBag(p, c)
    BY <1>0 DEF Promise!TargetBag, TargetBag
  <2>3. Promise!Effects(p, c) = Effects(p, c)
    BY DEF Promise!Effects, Effects, Promise!Inserted, Inserted,
           Promise!Rewritten, Rewritten
  <2>4. QED
    BY <2>1, <2>2, <2>3
<1>3. QED
  BY <1>1, <1>2

LEMMA InitKeepsContract == Init => Promise!Init
<1> SUFFICES ASSUME Init PROVE Promise!Init
  OBVIOUS
<1>1. Approvals = [p \in Plans |-> NoPlan]
  BY DEF Init, Approvals
<1>2. Effective = {}
  BY DEF Init, Effective
<1>3. QED
  BY <1>1, <1>2, SameTable DEF Init, Promise!Init, Effective

LEMMA StepKeepsContract ==
  ASSUME ~NameRebinding, ImageIsRow, IInv, IInv', [Next]_vars
  PROVE  [Promise!Next]_(Promise!vars)
<1> USE DEF IInv, TypeOK
<1>1. CASE \E a \in Appliers : ServerCommit(a)
  <2>1. PICK a \in Appliers : ServerCommit(a)
    BY <1>1
  <2>2. /\ ThePlan(a) /= NoPlan /\ AsSealed(a)
        /\ contents' \in Effects(PlanOf[a], contents)
    BY <2>1, CommitIsApproved
  <2>3. PlanOf[a] \in Plans
    BY ApplyAssumption
  <2>4. Approvals[PlanOf[a]] =
          [rows |-> TargetBag(PlanOf[a], contents), schema |-> schema]
    BY <2>2, <2>3 DEF Approvals, AsSealed, ThePlan
  <2>5. receipt[a] \in {"prepared", "uncertain"}
    BY <2>1
       DEF ServerCommit, RecordInv, ProgressInv, Truthful, PreparedBeforeTxn,
                Receipts, Verdicts
  <2>6. a \notin Effective /\ Effective' = Effective \cup {a}
    BY <2>1 DEF ServerCommit, EndTxn, Effective
  <2>7. UNCHANGED <<schema, plan, receipt>>
    BY <2>1 DEF ServerCommit, files, client
  <2>8. Approvals' = Approvals
    BY <2>7 DEF Approvals
  <2>9. Promise!TakeEffect(a)
    BY <2>2, <2>4, <2>5, <2>6, <2>7, <2>8, SameTable
       DEF Promise!TakeEffect, Effective
  <2>10. QED
    BY <2>9 DEF Promise!Next
<1>2. CASE ~\E a \in Appliers : ServerCommit(a)
  <2>1. Effective' = Effective
    BY <1>2, EffectiveChanges
  <2>2. (plan' = plan) => Approvals' = Approvals
    BY DEF Approvals
  <2>3. UNCHANGED <<contents, schema, plan, receipt>> => UNCHANGED Promise!vars
    BY <2>1, <2>2 DEF Promise!vars, Effective
  <2>4. ASSUME NEW p \in Plans, CreatePlan(p) PROVE Promise!Approve(p)
    BY <2>1, <2>4, ApprovalsChange, SameTable
          DEF CreatePlan, Promise!Approve, WithinBudget, env, client, server, Effective
  <2>5. ASSUME NEW a \in Appliers, receipt' /= receipt,
               CreateReceipt(a) \/ (Crash(a) /\ pc[a] = "create")
        PROVE  Promise!Prepare(a)
    <3>1. receipt[a] = "none" /\ ThePlan(a) /= NoPlan
      BY <2>5 DEF RecordInv, ProgressInv, ApprovalInv, CheckedInv, CreateReceipt
    <3>2. receipt' = [receipt EXCEPT ![a] = "prepared"]
      BY <2>5, <3>1 DEF CreateReceipt, Crash
    <3>3. UNCHANGED <<contents, schema, plan>>
      BY <2>5 DEF CreateReceipt, Crash, env, files
    <3>4. Approvals[PlanOf[a]] /= NoPlan
      BY <3>1, ApplyAssumption, ApprovalsAre DEF ThePlan
    <3>5. QED
      BY <2>1, <2>2, <3>1, <3>2, <3>3, <3>4 DEF Promise!Prepare, Effective
  <2>6. ASSUME NEW a \in Appliers, receipt' /= receipt, pc[a] = "finish",
               Finish(a) \/ Crash(a)
        PROVE  Promise!Report(a)
    <3>1. /\ receipt[a] = "prepared" /\ verdict[a] \in Verdicts
          /\ Truthful(a, verdict[a])
      BY <2>6 DEF RecordInv, ProgressInv
    <3>2. receipt' = [receipt EXCEPT ![a] = verdict[a]]
      BY <2>6, <3>1 DEF Finish, Crash
    <3>3. UNCHANGED <<contents, schema, plan>>
      BY <2>6 DEF Finish, Crash, env, files
    <3>4. QED
      BY <2>1, <2>2, <3>1, <3>2, <3>3
         DEF Promise!Report, Effective, Truthful, Verdicts
  <2>7. ASSUME NEW a \in Appliers, Crash(a), pc[a] \notin {"create", "finish"}
        PROVE  UNCHANGED <<contents, schema, plan, receipt>>
    BY <2>7 DEF Crash, env, files
  <2>8. ASSUME NEW a \in Appliers,
               CreateReceipt(a) \/ Finish(a) \/ Crash(a)
        PROVE  Promise!Prepare(a) \/ Promise!Report(a) \/ UNCHANGED Promise!vars
    <3>1. UNCHANGED <<contents, schema, plan>>
      BY <2>8 DEF CreateReceipt, Finish, Crash, env, files
    <3>2. CASE receipt' = receipt
      BY <2>3, <3>1, <3>2
    <3>3. CASE receipt' /= receipt
      BY <2>5, <2>6, <2>7, <2>8, <3>3 DEF CreateReceipt, Finish
    <3>4. QED
      BY <3>2, <3>3
  <2>9. ASSUME NEW a \in Appliers,
               \/ AcceptInputs(a) \/ RejectInputs(a) \/ Connect(a)
               \/ ConnectRefused(a) \/ Lock(a) \/ CheckIdentity(a) \/ CheckTable(a)
               \/ CheckTargets(a) \/ Execute(a) \/ ExecuteMismatch(a)
               \/ QueryFails(a) \/ SendCommit(a) \/ CommitConfirmed(a)
               \/ CommitError(a) \/ Exit(a) \/ Disconnect(a) \/ Reap(a)
               \/ ServerRejects(a)
        PROVE  UNCHANGED <<contents, schema, plan, receipt>>
    BY <2>9 DEF AcceptInputs, RejectInputs, Connect, ConnectRefused, Lock,
         CheckIdentity, View, CheckTable, CheckTargets, Execute, ExecuteMismatch,
         QueryFails, SendCommit, CommitConfirmed, CommitError, Exit, Disconnect,
         Reap, IdleBounded, ServerRejects, env, files, client
  <2>10. ASSUME NEW w \in Writers, WriterCommit(w) PROVE Promise!Outside
    BY <2>1, <2>2, <2>10, NextTypeOK, SameTable
       DEF WriterCommit, Promise!Outside, files, client, Effective
  <2>11. ASSUME AlterTable PROVE Promise!Outside
    BY <2>1, <2>2, <2>11, NextTypeOK, SameTable
       DEF AlterTable, Promise!Outside, files, client, Effective
  <2>12. ASSUME \/ \E w \in Writers : WriterBegin(w) \/ WriterRollback(w)
                \/ Rebind \/ (\E p \in Plans : Expire(p)) \/ UNCHANGED vars
         PROVE  UNCHANGED <<contents, schema, plan, receipt>>
    BY <2>12
       DEF WriterBegin, WriterRollback, Rebind, Expire, vars, env, files, client
  <2>13. QED
    BY <1>2, <2>3, <2>4, <2>8, <2>9, <2>10, <2>11, <2>12
       DEF Next, Step, Decide, Others, Promise!Next
<1>3. QED
  BY <1>1, <1>2

(* What apply does, with all its failures, is what the contract allows.    *)
THEOREM ApplyKeepsContract ==
  ASSUME ~NameRebinding, ImageIsRow
  PROVE  Spec => KeepsContract
<1>1. IInv /\ IInv' /\ [Next]_vars => [Promise!Next]_(Promise!vars)
  BY StepKeepsContract
<1>2. Spec => [][Promise!Next]_(Promise!vars)
  BY <1>1, AlwaysApproved, PTL DEF Spec
<1>3. Spec => Promise!Init
  BY InitKeepsContract DEF Spec
<1>4. QED
  BY <1>2, <1>3 DEF KeepsContract, Promise!Spec

-----------------------------------------------------------------------------
(* Apply asks no more of its receipts than ReceiptFile promises.           *)

Assured == [b \in Appliers |-> IF txn[b] = "none" THEN "none" ELSE "prepared"]

(* Only Connect opens a transaction.                                       *)
LEMMA AssuredChanges ==
  ASSUME TypeOK, [Next]_vars, \A a \in Appliers : ~Connect(a)
  PROVE  Assured' = Assured
<1> SUFFICES ASSUME NEW b \in Appliers PROVE txn'[b] = "none" <=> txn[b] = "none"
  BY DEF Assured
<1> USE DEF TypeOK, env, files, server, client, EndTxn, Session
<1>1. ASSUME NEW a \in Appliers,
             \/ AcceptInputs(a) \/ RejectInputs(a) \/ CreateReceipt(a)
             \/ ConnectRefused(a) \/ Lock(a) \/ CheckIdentity(a) \/ CheckTable(a)
             \/ CheckTargets(a) \/ Execute(a) \/ CommitConfirmed(a)
             \/ CommitError(a) \/ Finish(a) \/ Crash(a) \/ Disconnect(a)
      PROVE  txn' = txn
  BY <1>1 DEF AcceptInputs, RejectInputs, CreateReceipt, ConnectRefused, Lock,
       CheckIdentity, CheckTable, CheckTargets, Execute, CommitConfirmed,
       CommitError, Finish, Crash, Disconnect
<1>2. ASSUME NEW a \in Appliers,
             \/ ExecuteMismatch(a) \/ QueryFails(a) \/ SendCommit(a) \/ Exit(a)
             \/ Reap(a) \/ ServerCommit(a) \/ ServerRejects(a)
      PROVE  txn'[b] = "none" <=> txn[b] = "none"
  BY <1>2 DEF ExecuteMismatch, QueryFails, SendCommit, Exit, Reap, IdleBounded,
       ServerCommit, ServerRejects
<1>3. ASSUME Others \/ UNCHANGED vars PROVE txn' = txn
  BY <1>3 DEF Others, WriterBegin, WriterCommit, WriterRollback, AlterTable,
       Rebind, CreatePlan, Expire, vars
<1>4. QED
  BY <1>1, <1>2, <1>3 DEF Next, Step, Decide

LEMMA StepUsesReceiptFile ==
  ASSUME TypeOK, RecordInv, [Next]_vars
  PROVE  [File!Next]_(File!vars)
<1>1. ASSUME NEW a \in Appliers, Connect(a) PROVE File!Assure(a)
  <2>1. receipt[a] = "prepared" /\ receipt' = receipt
    BY <1>1 DEF Connect, RecordInv, ProgressInv
  <2>2. txn' = [txn EXCEPT ![a] = "open"]
    BY <1>1 DEF Connect
  <2>3. Assured' = [Assured EXCEPT ![a] = "prepared"]
    BY <2>2 DEF Assured, TypeOK
  <2>4. QED
    BY <2>1, <2>3 DEF File!Assure, Assured
<1>2. CASE \A a \in Appliers : ~Connect(a)
  <2>1. Assured' = Assured
    BY <1>2, AssuredChanges
  <2>2. receipt' = receipt => UNCHANGED File!vars
    BY <2>1 DEF File!vars, Assured
  <2>3. ASSUME NEW a \in Appliers, receipt' /= receipt,
               CreateReceipt(a) \/ (Crash(a) /\ pc[a] = "create")
        PROVE  File!Prepare(a)
    <3>1. receipt[a] = "none"
      BY <2>3 DEF RecordInv, ProgressInv, CreateReceipt
    <3>2. receipt' = [receipt EXCEPT ![a] = "prepared"]
      BY <2>3, <3>1 DEF CreateReceipt, Crash, TypeOK
    <3>3. QED
      BY <2>1, <3>1, <3>2 DEF File!Prepare, Assured
  <2>4. ASSUME NEW a \in Appliers, receipt' /= receipt, pc[a] = "finish",
               Finish(a) \/ Crash(a)
        PROVE  File!Conclude(a)
    <3>1. receipt[a] = "prepared" /\ verdict[a] \in Verdicts
      BY <2>4 DEF RecordInv, ProgressInv, TypeOK
    <3>2. receipt' = [receipt EXCEPT ![a] = verdict[a]]
      BY <2>4, <3>1 DEF Finish, Crash, TypeOK
    <3>3. QED
      BY <2>1, <3>1, <3>2 DEF File!Conclude, Assured
  <2>5. ASSUME NEW a \in Appliers, Crash(a), pc[a] \notin {"create", "finish"}
        PROVE  receipt' = receipt
    BY <2>5 DEF Crash, TypeOK
  <2>6. ASSUME NEW a \in Appliers, CreateReceipt(a) \/ Finish(a) \/ Crash(a)
        PROVE  [File!Next]_(File!vars)
    BY <2>2, <2>3, <2>4, <2>5, <2>6 DEF CreateReceipt, Finish, File!Next
  <2>7. ASSUME NEW a \in Appliers,
               \/ AcceptInputs(a) \/ RejectInputs(a)
               \/ ConnectRefused(a) \/ Lock(a) \/ CheckIdentity(a) \/ CheckTable(a)
               \/ CheckTargets(a) \/ Execute(a) \/ ExecuteMismatch(a)
               \/ QueryFails(a) \/ SendCommit(a) \/ CommitConfirmed(a)
               \/ CommitError(a) \/ Exit(a) \/ Disconnect(a) \/ Reap(a)
               \/ ServerCommit(a) \/ ServerRejects(a)
        PROVE  receipt' = receipt
    BY <2>7 DEF AcceptInputs, RejectInputs, ConnectRefused, Lock,
         CheckIdentity, CheckTable, CheckTargets, Execute, ExecuteMismatch,
         QueryFails, SendCommit, CommitConfirmed, CommitError, Exit, Disconnect,
         Reap, IdleBounded, ServerCommit, ServerRejects, client
  <2>8. ASSUME Others \/ UNCHANGED vars PROVE receipt' = receipt
    BY <2>8 DEF Others, WriterBegin, WriterCommit, WriterRollback, AlterTable,
         Rebind, CreatePlan, Expire, vars, client
  <2>9. QED
    BY <1>2, <2>2, <2>6, <2>7, <2>8 DEF Next, Step, Decide
<1>3. QED
  BY <1>1, <1>2 DEF File!Next

(* Every step of apply, its crashes included, is one the receipt file      *)
(* allows, and no transaction is opened without a durable prepared event.  *)
THEOREM ApplyUsesReceiptFile == Spec => UsesReceiptFile
<1>1. Init => File!Init
  BY DEF Init, File!Init
<1>2. TypeOK /\ RecordInv /\ [Next]_vars => [File!Next]_(File!vars)
  BY StepUsesReceiptFile
<1>3. QED
  BY <1>1, <1>2, TypeCorrect, RecordsHold, PTL DEF Spec, UsesReceiptFile, File!Spec

-----------------------------------------------------------------------------
(* A plan that deletes rows, applied twice.                                *)

OnePlan == \A a, b \in Appliers : PlanOf[a] = PlanOf[b]

(* Until others change the table, the rows stay gone.                      *)
Gone ==
  changes = 0 =>
    \A a \in Appliers : txn[a] = "committed" /\ DeletesOnce(PlanOf[a]) =>
      Targets(PlanOf[a], contents) = {}

LEMMA DeleteEmpties ==
  ASSUME NEW p \in Plans, NEW c \in Contents, DeletesOnce(p)
  PROVE  Targets(p, Rewritten(p, c)) = {}
<1>1. Match[p] \subseteq Values /\ Absent \notin Match[p]
  BY TableAssumption
<1>2. \A r \in Rows : Rewritten(p, c)[r] \notin Match[p]
  BY <1>1 DEF Rewritten, DeletesOnce
<1>3. QED
  BY <1>2 DEF Targets

LEMMA NoTargets ==
  ASSUME NEW p \in Plans, NEW c, DeletesOnce(p), Targets(p, c) = {}
  PROVE  Count(p, c) = 0
BY FS_EmptySet DEF Count, DeletesOnce

(* The table changes by a commit of ours, or changes counts.               *)
LEMMA TableChanges ==
  ASSUME TypeOK, [Next]_vars, \A a \in Appliers : ~ServerCommit(a), changes' = 0
  PROVE  changes = 0 /\ contents' = contents
<1> USE DEF TypeOK, env, files, server, client
<1>1. ASSUME NEW a \in Appliers,
             \/ AcceptInputs(a) \/ RejectInputs(a) \/ Step(a)
             \/ ServerRejects(a) \/ Crash(a) \/ Disconnect(a) \/ Reap(a)
      PROVE  UNCHANGED <<changes, contents>>
  <2>1. CASE \/ AcceptInputs(a) \/ RejectInputs(a) \/ ServerRejects(a)
             \/ Crash(a) \/ Disconnect(a) \/ Reap(a)
    BY <2>1 DEF AcceptInputs, RejectInputs, ServerRejects, Crash, Disconnect,
       Reap
  <2>2. CASE Step(a)
    BY <2>2 DEF Step, CreateReceipt, Connect, ConnectRefused, Lock,
       CheckIdentity, CheckTable, CheckTargets, Execute, ExecuteMismatch,
       QueryFails, SendCommit, CommitConfirmed, CommitError, Finish, Exit
  <2>3. QED
    BY <1>1, <2>1, <2>2
<1>2. ASSUME Others
      PROVE  UNCHANGED <<changes, contents>> \/ changes' = changes + 1
  BY <1>2 DEF Others, WriterBegin, WriterCommit, WriterRollback, AlterTable,
     Rebind, CreatePlan, Expire
<1>3. UNCHANGED vars => UNCHANGED <<changes, contents>>
  BY DEF vars
<1>4. UNCHANGED <<changes, contents>> \/ changes' = changes + 1
  BY <1>1, <1>2, <1>3 DEF Next, Decide
<1>5. QED
  BY <1>4

(* A plan file that is there stays as it is.                               *)
LEMMA PlansStay ==
  ASSUME TypeOK, [Next]_vars, NEW p \in Plans, plan[p] /= NoPlan
  PROVE  plan'[p] = plan[p]
<1>1. ASSUME NEW r \in Plans, CreatePlan(r) PROVE plan'[p] = plan[p]
  <2>1. r /= p
    BY <1>1 DEF CreatePlan
  <2>2. \E d : plan' = [plan EXCEPT ![r] = d]
    BY <1>1 DEF CreatePlan
  <2>3. QED
    BY <2>1, <2>2 DEF TypeOK
<1>2. CASE plan' = plan
  BY <1>2
<1>3. plan' = plan \/ \E r \in Plans : CreatePlan(r)
  <2> USE DEF env, files, server, client
  <2>1. ASSUME NEW a \in Appliers,
               \/ AcceptInputs(a) \/ RejectInputs(a) \/ Decide(a)
               \/ Crash(a) \/ Disconnect(a) \/ Reap(a)
        PROVE  plan' = plan
    BY <2>1 DEF AcceptInputs, RejectInputs, Decide, ServerCommit,
       ServerRejects, Crash, Disconnect, Reap
  <2>2. ASSUME NEW a \in Appliers, Step(a) PROVE plan' = plan
    BY <2>2 DEF Step, CreateReceipt, Connect, ConnectRefused, Lock,
       CheckIdentity, CheckTable, CheckTargets, Execute, ExecuteMismatch,
       QueryFails, SendCommit, CommitConfirmed, CommitError, Finish, Exit
  <2>3. Others => plan' = plan \/ \E r \in Plans : CreatePlan(r)
    BY DEF Others, WriterBegin, WriterCommit, WriterRollback, AlterTable,
       Rebind, Expire
  <2>4. UNCHANGED vars => plan' = plan
    BY DEF vars
  <2>5. QED
    BY <2>1, <2>2, <2>3, <2>4 DEF Next
<1>4. QED
  BY <1>1, <1>2, <1>3

LEMMA CommittedHasPlan ==
  ASSUME IInv, NEW a \in Appliers, txn[a] /= "none"
  PROVE  PlanOf[a] \in Plans /\ ThePlan(a) /= NoPlan
BY ApplyAssumption DEF IInv, ApprovalInv, CheckedInv

LEMMA StepRefusesReplay ==
  ASSUME OnePlan, ~NameRebinding, IInv, Gone, ReplayRefused, [Next]_vars
  PROVE  Gone' /\ ReplayRefused'
<1>0. TypeOK /\ RecordInv /\ changes \in Nat
  BY DEF IInv, TypeOK
<1>1. CASE \A a \in Appliers : ~ServerCommit(a)
  <2>1. \A a \in Appliers : txn'[a] = "committed" <=> txn[a] = "committed"
    BY <1>0, <1>1, OnlyServerCommits
  <2>2. changes' = 0 => changes = 0 /\ contents' = contents
    BY <1>0, <1>1, TableChanges
  <2>3. Gone'
    BY <2>1, <2>2 DEF Gone
  <2>4. \A a \in Appliers : txn[a] = "committed" => ThePlan(a)' = ThePlan(a)
    BY <1>0, PlansStay, CommittedHasPlan DEF ThePlan
  <2>5. changes > 0 => changes' > 0
    <3>1. changes' \in Nat
      BY <1>0, NextTypeOK DEF TypeOK
    <3>2. QED
      BY <1>0, <2>2, <3>1
  <2>6. QED
    BY <2>1, <2>3, <2>4, <2>5, CommittedHasPlan DEF ReplayRefused
<1>2. ASSUME NEW b \in Appliers, ServerCommit(b) PROVE Gone' /\ ReplayRefused'
  <2>1. /\ txn[b] = "committing" /\ UNCHANGED <<changes, plan>>
        /\ txn' = [txn EXCEPT ![b] = "committed"]
    BY <1>2 DEF ServerCommit, EndTxn, files
  <2>2. /\ snap[b] /= NoSnapshot /\ TargetsAsPlanned(b) /\ hit[b] = "main"
        /\ snap[b].contents = contents
    BY <2>1 DEF IInv, ApprovalInv, CommitInv, TableInv, SnapshotFresh
  <2>3. Count(PlanOf[b], contents) = ThePlan(b).count
    BY <2>2 DEF TargetsAsPlanned
  <2>4. contents' \in Effects(PlanOf[b], contents)
    BY <1>2, <2>2 DEF ServerCommit
  <2>5. PlanOf[b] \in Plans /\ contents \in Contents
    BY <1>0, ApplyAssumption DEF TypeOK
  <2>6. DeletesOnce(PlanOf[b]) => Targets(PlanOf[b], contents') = {}
    BY <2>4, <2>5, DeleteEmpties DEF Effects, DeletesOnce
  <2>7. Gone'
    BY <2>6 DEF Gone, OnePlan
  <2>8. ASSUME NEW a \in Appliers, a /= b, txn[a] = "committed",
               DeletesOnce(PlanOf[b])
        PROVE  ThePlan(b).count = 0 \/ changes > 0
    <3>1. CASE changes = 0
      <4>1. Targets(PlanOf[b], contents) = {}
        BY <2>8, <3>1 DEF Gone, OnePlan
      <4>2. QED
        BY <2>3, <2>5, <2>8, <4>1, NoTargets
    <3>2. QED
      BY <1>0, <3>1
  <2>9. \A a \in Appliers : a /= b => txn'[a] = txn[a]
    BY <1>0, <2>1 DEF TypeOK
  <2>10. \A a \in Appliers : ThePlan(a)' = ThePlan(a)
    BY <2>1 DEF ThePlan
  <2>11. \A a \in Appliers : ThePlan(a) = ThePlan(b)
    BY DEF ThePlan, OnePlan
  <2>12. ReplayRefused'
    <3>1. SUFFICES ASSUME NEW a \in Appliers, NEW c \in Appliers, a /= c,
                          DeletesOnce(PlanOf[a]), ThePlan(a) /= NoPlan,
                          txn'[a] = "committed", txn'[c] = "committed"
                   PROVE  ThePlan(a).count = 0 \/ changes > 0
      BY <2>1, <2>10 DEF ReplayRefused
    <3>2. CASE a /= b /\ c /= b
      BY <2>9, <3>1, <3>2 DEF ReplayRefused, OnePlan
    <3>3. CASE a = b \/ c = b
      BY <2>8, <2>9, <2>11, <3>1, <3>3 DEF OnePlan
    <3>4. QED
      BY <3>2, <3>3
  <2>13. QED
    BY <2>7, <2>12
<1>3. QED
  BY <1>1, <1>2

(* Applies of one plan that deletes rows: at most one deletes any, unless  *)
(* another session has put rows back.                                      *)
THEOREM ReplayIsRefused ==
  ASSUME OnePlan, ~NameRebinding
  PROVE  Spec => []ReplayRefused
<1>1. Init => Gone /\ ReplayRefused
  BY DEF Init, Gone, ReplayRefused
<1>2. IInv /\ Gone /\ ReplayRefused /\ [Next]_vars => Gone' /\ ReplayRefused'
  BY StepRefusesReplay
<1>3. QED
  BY <1>1, <1>2, AlwaysApproved, PTL DEF Spec
=============================================================================
