------------------------------ MODULE PlanFile ------------------------------
(***************************************************************************)
(* The life of a plan, from `dmlpact plan` to the statement an apply runs  *)
(* with it: how create_plan gathers its evidence and refuses, how the plan *)
(* file is sealed, written and read back, and what may change in between:  *)
(* the table's catalog, the SQL file, the connection value, the clock, the *)
(* plan file itself. Planners share one output path.                       *)
(*                                                                         *)
(* Rows, receipts and the end of the transaction are in Apply.             *)
(***************************************************************************)
EXTENDS TablePolicy, Transport

CONSTANTS
  Planners, Appliers,   \* the processes
  Acks,          \* Acks[q]: what planner q acknowledges, set by its options
  Lifetime,      \* Lifetime[q]: --valid-for of planner q
  Plaintext,     \* the processes given --allow-insecure-localhost
  Texts,         \* what the SQL file may hold
  Lawful,        \* the texts the SQL policy accepts
  KindOf,        \* KindOf[t]: insert, update or delete
  Configs,       \* connection values of the environment variable
  Catalogs,      \* what the table can look like
  Reads,         \* the catalog queries of table_evidence, in order
  MaxTime,       \* the largest u64
  MaxChanges,    \* bound: changes made by others
  NoFile, NoDoc, NoText, NoConn, Nobody

Processes == Planners \cup Appliers

Peer == UNION {Peers(c) : c \in Configs}

(* A plan document. The fields by and peer are not in the file: who made   *)
(* it, connected to what.                                                  *)
Docs == [by : Planners, peer : Peer, text : Texts,
         acks : SUBSET Acknowledgeable, evidence : SUBSET Features,
         config : Configs, server : {ServerAddress(p) : p \in Peer},
         tls : BOOLEAN,
         created : 0..MaxTime, expires : 0..MaxTime]

(* The file: the document it holds, the one its plan_sha256 was computed   *)
(* over, and whether it is whole (but for the newline at its end).         *)
Files == [body : Docs, seal : Docs, whole : BOOLEAN]

Conns == [config : Configs, peer : Peer, tls : BOOLEAN]

(* What a process knows: the SQL it has read, its connection and, if it is *)
(* a planner, its snapshot, the evidence so far and the queries made.      *)
Memory == [text : Texts \cup {NoText}, conn : Conns \cup {NoConn},
           snap : SUBSET Features, seen : SUBSET Features,
           reads : 0..Len(Reads)]
Blank == [text |-> NoText, conn |-> NoConn, snap |-> {}, seen |-> {},
          reads |-> 0]

ASSUME PlanAssumption ==
  /\ Planners \cap Appliers = {} /\ Nobody \notin Appliers
  /\ Acks \in [Planners -> SUBSET Acknowledgeable]
  /\ Lifetime \in [Planners -> Nat \ {0}]
  /\ Plaintext \subseteq Processes
  /\ Lawful \subseteq Texts
  /\ KindOf \in [Texts -> {"insert", "update", "delete"}]
  /\ Reads \in Seq(Features) \ {<<>>}
  /\ Catalogs \subseteq SUBSET ToSet(Reads)
  /\ MaxTime \in Nat /\ MaxChanges \in Nat
  /\ NoFile \notin Files /\ NoDoc \notin Docs
  /\ NoText \notin Texts /\ NoConn \notin Conns

(* The servers one value leads to have different addresses of their own:   *)
(* otherwise (two Unix sockets, two containers behind forwarded ports) the *)
(* identity of the database does not tell them apart.                      *)
ASSUME ServerAssumption ==
  \A c \in Configs : \A p, r \in Peers(c) :
    ServerAddress(p) = ServerAddress(r) => p = r

VARIABLES
  now, catalog, sql, config,  \* clock, table, SQL file, environment
  changes,         \* changes made so far by others
  file, kept,      \* the plan file as readers see it; whether on disk
  pc, mem,         \* next call of each process, and what it knows
  doc,             \* the plan it has sealed, or read
  holder,          \* who has the lock on the table
  exit             \* exit codes

env  == <<now, catalog, sql, config, changes>>
disk == <<file, kept>>
proc == <<pc, mem, holder, exit>>
vars == <<env, disk, proc, doc>>

Running == -1
Calls == {"options", "read", "analyze", "bind", "connect", "identity",
          "evidence", "policy", "targets", "stamp", "create", "write",
          "sync", "emit", "lock", "check", "execute", "done", "dead"}

Init ==
  /\ now \in 0..MaxTime /\ catalog \in Catalogs
  /\ sql \in Texts /\ config \in Configs /\ changes = 0
  /\ file = NoFile /\ kept = FALSE
  /\ pc = [x \in Processes |-> IF x \in Planners THEN "options" ELSE "read"]
  /\ mem = [x \in Processes |-> Blank]
  /\ doc = [x \in Processes |-> NoDoc]
  /\ holder = Nobody
  /\ exit = [x \in Processes |-> Running]

-----------------------------------------------------------------------------
(* Building blocks.                                                        *)

Learn(x, m, l) ==
  /\ pc' = [pc EXCEPT ![x] = l] /\ mem' = [mem EXCEPT ![x] = m]
  /\ UNCHANGED <<holder, exit>>

Goto(x, l) == Learn(x, mem[x], l)

(* What a process knows and holds goes with it.                            *)
Vanish(x, l) ==
  /\ pc' = [pc EXCEPT ![x] = l] /\ mem' = [mem EXCEPT ![x] = Blank]
  /\ holder' = IF holder = x THEN Nobody ELSE holder

(* ErrorClass::exit_code: 1 io, 2 usage, 3 policy, 4 budget, 5 contract; a *)
(* panic exits 101.                                                        *)
Leave(x, code) == Vanish(x, "done") /\ exit' = [exit EXCEPT ![x] = code]
FailWith(x, codes) == \E code \in codes : Leave(x, code)

Begun(x) == pc[x] \notin {"options", "read", "done", "dead"}

-----------------------------------------------------------------------------
(* Calls plan and apply have in common.                                    *)

(* read_and_analyze: the SQL file is read once and goes through the policy.*)
Analyze(x) ==
  /\ pc[x] = "analyze"
  /\ \/ /\ sql \in Lawful
        /\ Learn(x, [mem[x] EXCEPT !.text = sql],
                 IF x \in Planners THEN "connect" ELSE "bind")
     \/ sql \notin Lawful /\ Leave(x, 3)
     \/ FailWith(x, {1, 2})
  /\ UNCHANGED <<env, disk, doc>>

(* connect_database. Errors of an apply, which has its receipt by now, end *)
(* in refused and exit 0; so does a transport other than the plan's.       *)
TransportAllowed(x) == x \in Plaintext => AllHostsAreLocal(config)

ConnClass(x, code) == IF x \in Planners THEN code ELSE 0

Connect(x) ==
  /\ pc[x] = "connect"
  /\ \/ TransportAllowed(x)
        /\ \E p \in Peers(config) :
             LET c == [config |-> config, peer |-> p, tls |-> x \notin Plaintext]
                 m == [mem[x] EXCEPT !.conn = c] IN
             IF x \in Planners THEN Learn(x, m, "identity")
             ELSE IF doc[x].tls = c.tls THEN Learn(x, m, "lock")
             ELSE Leave(x, 0)
     \/ ~TransportAllowed(x) /\ Leave(x, ConnClass(x, 3))
     \/ FailWith(x, {ConnClass(x, 1), ConnClass(x, 2)})
  /\ UNCHANGED <<env, disk, doc>>

-----------------------------------------------------------------------------
(* dmlpact plan.                                                           *)

(* validate_limits and the range of the lifetime.                          *)
CheckOptions(q) ==
  /\ pc[q] = "options"
  /\ Goto(q, "analyze") \/ Leave(q, 2)
  /\ UNCHANGED <<env, disk, doc>>

(* The first query of the transaction fixes the snapshot; PostgreSQL 13 is *)
(* the oldest supported.                                                   *)
ReadIdentity(q) ==
  /\ pc[q] = "identity"
  /\ \/ Learn(q, [mem[q] EXCEPT !.snap = catalog], "evidence")
     \/ FailWith(q, {1, 3})
  /\ UNCHANGED <<env, disk, doc>>

(* One query of table_evidence. Nothing is locked. The rows come from the  *)
(* snapshot, but to_regclass, format_type and the pg_get_ functions look   *)
(* at the catalog as it is now. The definition of an index that is gone    *)
(* from there is NULL, which Row::get does not take: a panic.              *)
ReadEvidence(q) ==
  /\ pc[q] = "evidence"
  /\ LET n == mem[q].reads + 1  f == Reads[n] IN
     \/ \E view \in {mem[q].snap, catalog} :
          Learn(q, [mem[q] EXCEPT !.seen = @ \cup ({f} \cap view),
                                  !.reads = n],
                IF n = Len(Reads) THEN "policy" ELSE "evidence")
     \/ /\ f = "index" /\ f \in mem[q].snap /\ f \notin catalog
        /\ Leave(q, 101)
     \/ FailWith(q, {1, 3})
  /\ UNCHANGED <<env, disk, doc>>

EnforcePolicy(q) ==
  /\ pc[q] = "policy"
  /\ IF TableAllowed(KindOf[mem[q].text], Acks[q], mem[q].seen)
       THEN Goto(q, "targets") ELSE Leave(q, 3)
  /\ UNCHANGED <<env, disk, doc>>

(* Count, budget, target set and EXPLAIN, then the end of the transaction. *)
CountTargets(q) ==
  /\ pc[q] = "targets"
  /\ Goto(q, "stamp") \/ FailWith(q, {1, 4, 5})
  /\ UNCHANGED <<env, disk, doc>>

(* created_at + lifetime, checked; then the document is sealed.            *)
Seal(q, expiry) ==
  LET m == mem[q] IN
  doc' = [doc EXCEPT ![q] =
    [by |-> q, peer |-> m.conn.peer, text |-> m.text, acks |-> Acks[q],
     evidence |-> m.seen, config |-> m.conn.config,
     server |-> ServerAddress(m.conn.peer), tls |-> m.conn.tls,
     created |-> now, expires |-> expiry]]

StampUnchecked(q) ==   \* mutation: the sum may not fit in 64 bits
  /\ pc[q] = "stamp"
  /\ Seal(q, now + Lifetime[q]) /\ Goto(q, "create")
  /\ UNCHANGED <<env, disk>>

StampWrapping(q) ==   \* mutation: wrapping_add
  /\ pc[q] = "stamp"
  /\ Seal(q, (now + Lifetime[q]) % (MaxTime + 1)) /\ Goto(q, "create")
  /\ UNCHANGED <<env, disk>>

Stamp(q) ==
  /\ pc[q] = "stamp"
  /\ IF now + Lifetime[q] <= MaxTime
       THEN Seal(q, now + Lifetime[q]) /\ Goto(q, "create")
       ELSE Leave(q, 2) /\ UNCHANGED doc
  /\ UNCHANGED <<env, disk>>

(* write_plan_new: the path must be new.                                   *)
TheFile(q, whole) == [body |-> doc[q], seal |-> doc[q], whole |-> whole]

Create(q) ==
  /\ pc[q] = "create"
  /\ \/ /\ file = NoFile /\ file' = TheFile(q, FALSE) /\ kept' = FALSE
        /\ Goto(q, "write")
     \/ Leave(q, 1) /\ UNCHANGED disk
  /\ UNCHANGED <<env, doc>>

(* write_all, which may stop on an error; then the file may be whole all   *)
(* the same, and a plan that failed is as good as any other.               *)
Write(q) ==
  /\ pc[q] = "write"
  /\ \/ file' = TheFile(q, TRUE) /\ Goto(q, "sync")
     \/ (\E whole \in BOOLEAN : file' = TheFile(q, whole)) /\ Leave(q, 1)
  /\ UNCHANGED <<env, kept, doc>>

SyncNothing(q) ==   \* mutation: flush() in place of sync_all()
  /\ pc[q] = "sync" /\ Goto(q, "emit")
  /\ UNCHANGED <<env, disk, doc>>

(* sync_all. As in the proofs about receipts, a synced file is taken to    *)
(* keep its directory entry.                                               *)
Sync(q) ==
  /\ pc[q] = "sync"
  /\ \/ kept' = TRUE /\ Goto(q, "emit")
     \/ Leave(q, 1) /\ UNCHANGED kept
  /\ UNCHANGED <<env, file, doc>>

(* emit_json, which may fail.                                              *)
EmitJsonContract(q) ==   \* mutation: the class of the error is contract
  /\ pc[q] = "emit" /\ FailWith(q, {0, 5})
  /\ UNCHANGED <<env, disk, doc>>

EmitJson(q) ==
  /\ pc[q] = "emit" /\ FailWith(q, {0, 1})
  /\ UNCHANGED <<env, disk, doc>>

-----------------------------------------------------------------------------
(* dmlpact apply.                                                          *)

(* read_plan: a whole JSON document whose digest is its plan_sha256.       *)
WholeJson == file.whole   \* mutation: the digest is not compared
Verified == file.whole /\ file.body = file.seal

ReadPlan(a) ==
  /\ pc[a] = "read"
  /\ IF file = NoFile THEN Leave(a, 1) /\ UNCHANGED doc
     ELSE IF Verified
       THEN doc' = [doc EXCEPT ![a] = file.body] /\ Goto(a, "analyze")
       ELSE Leave(a, 5) /\ UNCHANGED doc
  /\ UNCHANGED <<env, disk>>

(* validate_plan_binding and the expiry. The receipt file is created next, *)
(* which may fail.                                                         *)
Usable(a) == mem[a].text = doc[a].text /\ now <= doc[a].expires

Bind(a) ==
  /\ pc[a] = "bind"
  /\ \/ Usable(a) /\ (Goto(a, "connect") \/ Leave(a, 1))
     \/ ~Usable(a) /\ Leave(a, 5)
  /\ UNCHANGED <<env, disk, doc>>

Lock(a) ==
  /\ pc[a] = "lock"
  /\ \/ /\ holder = Nobody /\ holder' = a
        /\ pc' = [pc EXCEPT ![a] = "check"] /\ UNCHANGED <<mem, exit>>
     \/ Leave(a, 0)
  /\ UNCHANGED <<env, disk, doc>>

(* Identity, catalog evidence and policy are compared while no DDL can run.*)
PolicyAgain(a) ==   \* mutation: only the policy is looked at again
  TableAllowed(KindOf[mem[a].text], doc[a].acks, catalog)

AsPlanned(a) ==
  /\ mem[a].conn.config = doc[a].config
  /\ ServerAddress(mem[a].conn.peer) = doc[a].server
  /\ catalog = doc[a].evidence
  /\ TableAllowed(KindOf[mem[a].text], doc[a].acks, catalog)

Check(a) ==
  /\ pc[a] = "check"
  /\ IF AsPlanned(a) THEN Goto(a, "execute") ELSE Leave(a, 0)
  /\ UNCHANGED <<env, disk, doc>>

Execute(a) ==
  /\ pc[a] = "execute" /\ Leave(a, 0)
  /\ UNCHANGED <<env, disk, doc>>

-----------------------------------------------------------------------------
(* Everything else.                                                        *)

Tick ==
  /\ now' \in (0..MaxTime) \ {now}
  /\ UNCHANGED <<catalog, sql, config, changes, disk, proc, doc>>

Change == changes < MaxChanges /\ changes' = changes + 1

(* DDL on the table: it needs a lock that conflicts with an apply's, but   *)
(* with nothing a plan holds while it reads the evidence.                  *)
AlterTable ==
  /\ Change /\ holder = Nobody
  /\ catalog' \in Catalogs \ {catalog}
  /\ UNCHANGED <<now, sql, config, disk, proc, doc>>

EditSql ==
  /\ Change /\ sql' \in Texts \ {sql}
  /\ UNCHANGED <<now, catalog, config, disk, proc, doc>>

SetEnvironment ==
  /\ Change /\ config' \in Configs \ {config}
  /\ UNCHANGED <<now, catalog, sql, disk, proc, doc>>

(* Someone edits a field of the plan file and leaves its digest alone.     *)
EditPlan ==
  /\ Change /\ file /= NoFile
  /\ \E body \in {[file.body EXCEPT !.expires = MaxTime],
                  [file.body EXCEPT !.acks = Acknowledgeable],
                  [file.body EXCEPT !.text = sql]} :
       file' = [file EXCEPT !.body = body]
  /\ UNCHANGED <<now, catalog, sql, config, kept, proc, doc>>

(* The process is killed; the file it was writing may be whole or not.     *)
Kill(x) ==
  /\ Begun(x) /\ Vanish(x, "dead")
  /\ \/ UNCHANGED file
     \/ pc[x] = "write" /\ file' = TheFile(x, TRUE)
  /\ UNCHANGED <<env, kept, doc, exit>>

(* The host the processes run on crashes: a file not known to be on disk   *)
(* may be gone or cut off.                                                 *)
HostCrash ==
  /\ \E x \in Processes : Begun(x) \/ pc[x] = "done"
  /\ pc' = [x \in Processes |-> IF Begun(x) THEN "dead" ELSE pc[x]]
  /\ mem' = [x \in Processes |-> Blank] /\ holder' = Nobody
  /\ IF kept \/ file = NoFile THEN UNCHANGED disk
     ELSE /\ file' \in {NoFile, file, [file EXCEPT !.whole = FALSE]}
          /\ kept' = (file' /= NoFile)
  /\ UNCHANGED <<env, doc, exit>>

Plan(q) ==
  \/ CheckOptions(q) \/ Analyze(q) \/ Connect(q) \/ ReadIdentity(q)
  \/ ReadEvidence(q) \/ EnforcePolicy(q) \/ CountTargets(q) \/ Stamp(q)
  \/ Create(q) \/ Write(q) \/ Sync(q) \/ EmitJson(q)

Apply(a) ==
  \/ ReadPlan(a) \/ Analyze(a) \/ Bind(a) \/ Connect(a)
  \/ Lock(a) \/ Check(a) \/ Execute(a)

Others ==
  \/ Tick \/ AlterTable \/ EditSql \/ SetEnvironment \/ EditPlan
  \/ HostCrash \/ \E x \in Processes : Kill(x)

Next ==
  \/ \E q \in Planners : Plan(q)
  \/ \E a \in Appliers : Apply(a)
  \/ Others

Spec == Init /\ [][Next]_vars

-----------------------------------------------------------------------------
(* Every variable holds a value the processes, the file or the server can  *)
(* show.                                                                   *)
TypeOK ==
  /\ now \in 0..MaxTime /\ catalog \in Catalogs /\ sql \in Texts
  /\ config \in Configs /\ changes \in 0..MaxChanges
  /\ file \in Files \cup {NoFile} /\ kept \in BOOLEAN
  /\ pc \in [Processes -> Calls] /\ mem \in [Processes -> Memory]
  /\ doc \in [Processes -> Docs \cup {NoDoc}]
  /\ holder \in Appliers \cup {Nobody}
  /\ exit \in [Processes -> {Running, 0, 1, 2, 3, 4, 5, 101}]

(* What apply goes on with is, to the last field, a plan some dmlpact plan *)
(* sealed after all its checks, the policy among them: never a part of one *)
(* left by a kill or a host crash, nor one edited since.                   *)
OnlySealedPlansRun ==
  \A a \in Appliers : doc[a] /= NoDoc =>
    LET d == doc[a] IN
    /\ doc[d.by] = d /\ d.text \in Lawful
    /\ TableAllowed(KindOf[d.text], Acks[d.by], d.evidence)

(* When the statement runs, the table is the one the plan describes, even  *)
(* if the plan's evidence was read while the table was being altered; the  *)
(* policy holds under what the operator acknowledged; and the statement,   *)
(* the server and the transport are those of the plan. The table is the    *)
(* one the name meant when the catalog was compared; Apply has the names   *)
(* that mean another one by the time the statement runs.                   *)
ConsistentAtExecution ==
  \A a \in Appliers : pc[a] = "execute" =>
    LET d == doc[doc[a].by] IN
    /\ catalog = d.evidence
    /\ TableAllowed(KindOf[mem[a].text], Acks[d.by], catalog)
    /\ mem[a].text = d.text
    /\ mem[a].conn = [config |-> d.config, peer |-> d.peer, tls |-> d.tls]

(* No process talks to anything but a loopback peer without TLS.           *)
PlaintextStaysLocal ==
  \A x \in Processes :
    LET c == mem[x].conn IN c /= NoConn /\ ~c.tls => c.peer \in LocalPeers

(* A plan is good from the moment it is made up to and including its last  *)
(* millisecond, by the arithmetic of integers and not of u64: apply goes   *)
(* on with it then, and never refuses it then for being too old.           *)
InLifetime(d) == now <= d.created + Lifetime[d.by]
GoodUntilExpiry ==
  [][\A a \in Appliers : pc[a] = "bind" =>
       /\ pc'[a] = "connect" => InLifetime(doc[a])
       /\ exit'[a] = 5 => mem[a].text /= doc[a].text \/ ~InLifetime(doc[a])]_vars

(* Once plan has exited 0, its own plan is in the file whatever crashes;   *)
(* it can only be changed by hand.                                         *)
ExitZeroDurable ==
  \A q \in Planners : exit[q] = 0 =>
    /\ file /= NoFile /\ file.whole /\ file.seal = doc[q]
    /\ file.body /= doc[q] => changes > 0

(* A plan that was refused leaves nothing behind that could be applied.    *)
RefusedLeavesNoFile ==
  \A q \in Planners : exit[q] \in {2, 3, 4, 5, 101} =>
    /\ file = NoFile \/ file.seal.by /= q
    /\ \A a \in Appliers : doc[a] = NoDoc \/ doc[a].by /= q
=============================================================================
