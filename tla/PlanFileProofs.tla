--------------------------- MODULE PlanFileProofs ---------------------------
(***************************************************************************)
(* Proofs about PlanFile, for any planners, applies, texts, connection     *)
(* values, catalogs and clocks.                                            *)
(***************************************************************************)
EXTENDS PlanInvariant, SequenceTheorems, TLAPS

LEMMA PeersAre == ASSUME NEW c \in Configs PROVE Peers(c) \subseteq Peer
BY DEF Peer

LEMMA RangeOfReads ==
  /\ Len(Reads) \in Nat /\ 0 < Len(Reads)
  /\ \A n \in 1..Len(Reads) : Reads[n] \in Features
  /\ Catalogs \subseteq SUBSET Features
<1>1. Reads \in Seq(Features) /\ Reads /= <<>>
  BY PlanAssumption
<1>2. Len(Reads) \in Nat /\ 0 < Len(Reads)
  BY <1>1, EmptySeq, LenProperties
<1>3. \A n \in 1..Len(Reads) : Reads[n] \in Features
  BY <1>1, ElementOfSeq
<1>4. ToSet(Reads) \subseteq Features
  BY <1>2, <1>3, <1>1, LenProperties DEF ToSet
<1>5. QED
  BY <1>2, <1>3, <1>4, PlanAssumption

LEMMA BlankType == Blank \in Memory
<1>1. Len(Reads) \in Nat
  BY PlanAssumption, LenProperties
<1>2. QED
  BY <1>1 DEF Blank, Memory

LEMMA MemoryType ==
  ASSUME NEW m \in Memory
  PROVE  /\ \A t \in Texts : [m EXCEPT !.text = t] \in Memory
         /\ \A c \in Conns : [m EXCEPT !.conn = c] \in Memory
         /\ \A s \in SUBSET Features : [m EXCEPT !.snap = s] \in Memory
         /\ \A s \in SUBSET Features, n \in 0..Len(Reads) :
              [m EXCEPT !.seen = s, !.reads = n] \in Memory
BY DEF Memory

-----------------------------------------------------------------------------
(* What a step of one process leaves of the others.                        *)

(* The variables the steps of a process move have the values TypeOK gives. *)
ProcType ==
  /\ pc \in [Processes -> Calls] /\ mem \in [Processes -> Memory]
  /\ holder \in Appliers \cup {Nobody}
  /\ exit \in [Processes -> {Running, 0, 1, 2, 3, 4, 5, 101}]

Alone(x) ==
  /\ \A y \in Processes \ {x} : pc'[y] = pc[y] /\ mem'[y] = mem[y]
  /\ \A y \in Appliers \ {x} : holder = y => holder' = y
  /\ \A y \in Processes : pc'[y] /= "done" => exit'[y] = exit[y]

Frame(x) ==
  /\ catalog' = catalog
  /\ \A y \in Processes \ {x} : doc'[y] = doc[y]
  /\ \A q \in Planners : doc[q] /= NoDoc => doc'[q] = doc[q]

LEMMA LearnMoves ==
  ASSUME TypeOK, NEW x \in Processes, NEW m, NEW l, Learn(x, m, l), ExitInv,
         pc[x] /= "done"
  PROVE  /\ pc'[x] = l /\ mem'[x] = m /\ Alone(x) /\ holder' = holder
         /\ exit'[x] = exit[x] /\ ExitInv'
         /\ m \in Memory /\ l \in Calls => ProcType'
BY DEF TypeOK, ProcType, Alone, Learn, ExitInv

LEMMA VanishMoves ==
  ASSUME TypeOK, NEW x \in Processes, NEW l \in Calls, Vanish(x, l), ExitInv,
         \/ UNCHANGED exit /\ l /= "done" /\ pc[x] /= "done"
         \/ \E code \in {0, 1, 2, 3, 4, 5, 101} :
              l = "done" /\ exit' = [exit EXCEPT ![x] = code]
  PROVE  /\ pc'[x] = l /\ mem'[x] = Blank /\ Alone(x) /\ ProcType' /\ ExitInv'
BY BlankType DEF TypeOK, ProcType, Alone, Vanish, ExitInv

LEMMA LeaveMoves ==
  ASSUME TypeOK, ExitInv, NEW x \in Processes,
         NEW code \in {0, 1, 2, 3, 4, 5, 101}, Leave(x, code)
  PROVE  /\ pc'[x] = "done" /\ mem'[x] = Blank /\ Alone(x) /\ ProcType'
         /\ ExitInv' /\ exit'[x] = code
<1>1. pc'[x] = "done" /\ mem'[x] = Blank /\ Alone(x) /\ ProcType' /\ ExitInv'
  BY VanishMoves DEF Leave, Calls
<1>2. QED
  BY <1>1 DEF Leave, TypeOK

(* Documents stay sealed.                                                  *)
LEMMA SealedStays ==
  ASSUME NEW x \in Processes, Frame(x), NEW d, IsSealed(d)
  PROVE  IsSealed(d)'
<1>1. d.by \in Planners /\ doc[d.by] /= NoDoc
  BY PlanAssumption DEF IsSealed, Docs
<1>2. QED
  BY <1>1 DEF IsSealed, Frame

LEMMA OthersStay ==
  ASSUME PInv, NEW x \in Processes, Alone(x), Frame(x)
  PROVE  /\ \A q \in Planners \ {x} : PlannerAt(q)'
         /\ \A a \in Appliers \ {x} : ApplierAt(a)'
<1>1. ASSUME NEW q \in Planners \ {x} PROVE PlannerAt(q)'
  <2>1. PlannerAt(q) /\ q \in Processes \ {x}
    BY DEF PInv, PlannerInv, Processes
  <2>2. pc'[q] = pc[q] /\ mem'[q] = mem[q] /\ doc'[q] = doc[q]
    BY <2>1 DEF Alone, Frame
  <2>3. QED
    BY <2>1, <2>2 DEF PlannerAt, Reached, WellMade
<1>2. ASSUME NEW a \in Appliers \ {x} PROVE ApplierAt(a)'
  <2>1. ApplierAt(a) /\ a \in Processes \ {x}
    BY DEF PInv, ApplierInv, Processes
  <2>2. /\ pc'[a] = pc[a] /\ mem'[a] = mem[a] /\ doc'[a] = doc[a]
        /\ catalog' = catalog
        /\ holder = a => holder' = a
    BY <2>1 DEF Alone, Frame
  <2>3. doc'[a] /= NoDoc => IsSealed(doc[a])'
    <3>1. SUFFICES ASSUME doc[a] /= NoDoc PROVE IsSealed(doc[a])'
      BY <2>2
    <3>2. IsSealed(doc[a])
      BY <2>1, <3>1 DEF ApplierAt
    <3>3. doc[a].by \in Planners /\ doc[doc[a].by] /= NoDoc
      BY <3>1, <3>2 DEF IsSealed, Docs
    <3>4. QED
      BY <2>2, <3>2, <3>3 DEF IsSealed, Frame
  <2>4. QED
    BY <2>1, <2>2, <2>3 DEF ApplierAt, Reached, AsPlanned
<1>3. QED
  BY <1>1, <1>2

-----------------------------------------------------------------------------
(* What is left to show of a step of process x.                            *)

RestType ==
  /\ now \in 0..MaxTime /\ catalog \in Catalogs /\ sql \in Texts
  /\ config \in Configs /\ changes \in 0..MaxChanges
  /\ file \in Files \cup {NoFile} /\ kept \in BOOLEAN
  /\ doc \in [Processes -> Docs \cup {NoDoc}]

KnownLocal(x) ==
  LET c == mem[x].conn IN c /= NoConn /\ ~c.tls => c.peer \in LocalPeers

At(x) ==
  /\ x \in Planners => PlannerAt(x)
  /\ x \in Appliers => ApplierAt(x)
  /\ KnownLocal(x)

LEMMA AtHolds == ASSUME PInv, NEW x \in Processes PROVE At(x)
BY DEF PInv, PlannerInv, ApplierInv, PlaintextStaysLocal, At, KnownLocal

LEMMA StepKeeps ==
  ASSUME PInv, NEW x \in Processes, Alone(x), Frame(x), ProcType', RestType',
         ExitInv', FileInv', At(x)'
  PROVE  PInv'
<1>1. TypeOK'
  BY DEF ProcType, RestType, TypeOK
<1>2. PlannerInv'
  BY OthersStay DEF PlannerInv, At
<1>3. ApplierInv'
  BY OthersStay DEF ApplierInv, At
<1>4. PlaintextStaysLocal'
  BY DEF PInv, PlaintextStaysLocal, At, KnownLocal, Alone
<1>5. QED
  BY <1>1, <1>2, <1>3, <1>4 DEF PInv

(* The file is untouched, or edited.                                       *)
LEMMA FileStays ==
  ASSUME PInv, NEW x \in Processes, Frame(x),
         \/ file' = file
         \/ file /= NoFile /\ file' /= NoFile /\ file'.seal = file.seal
  PROVE  FileInv'
<1>1. SUFFICES ASSUME file' /= NoFile PROVE IsSealed(file.seal)'
  BY DEF FileInv
<1>2. file'.seal = file.seal /\ IsSealed(file.seal)
  BY <1>1 DEF PInv, FileInv
<1>3. file.seal.by \in Planners /\ doc[file.seal.by] /= NoDoc
  BY <1>2, PlanAssumption DEF IsSealed, Docs
<1>4. QED
  BY <1>2, <1>3 DEF IsSealed, Frame

LEMMA GoKeeps ==
  ASSUME PInv, NEW x \in Processes, NEW m \in Memory, NEW l \in Calls,
         Learn(x, m, l), pc[x] /= "done", UNCHANGED <<env, disk, doc>>, At(x)'
  PROVE  PInv'
<1>1. Alone(x) /\ ProcType' /\ ExitInv'
  BY LearnMoves DEF PInv
<1>2. Frame(x) /\ RestType'
  BY DEF PInv, TypeOK, RestType, Frame, env, disk
<1>3. FileInv'
  BY <1>2, FileStays DEF disk
<1>4. QED
  BY <1>1, <1>2, <1>3, StepKeeps

(* A process that ends needs nothing but the plan it has made.             *)
LEMMA EndKeeps ==
  ASSUME PInv, NEW x \in Processes, pc'[x] \in {"done", "dead"},
         mem'[x] = Blank, Alone(x), ProcType', ExitInv',
         UNCHANGED <<env, doc>>, file' \in Files \cup {NoFile},
         kept' \in BOOLEAN, FileInv'
  PROVE  PInv'
<1>1. Frame(x) /\ RestType'
  BY DEF PInv, TypeOK, RestType, Frame, env
<1>2. At(x)
  BY AtHolds
<1>3. x \in Planners => PlannerAt(x)'
  BY <1>2 DEF At, PlannerAt, WellMade, PlanCalls, Unsealed, Connected, Writing
<1>4. x \in Appliers => ApplierAt(x)'
  <2>1. SUFFICES ASSUME x \in Appliers PROVE ApplierAt(x)'
    OBVIOUS
  <2>2. doc'[x] = doc[x] /\ doc' = doc /\ ApplierAt(x)
    BY <1>2, <2>1 DEF At
  <2>3. doc'[x] /= NoDoc => IsSealed(doc[x])'
    BY <2>2 DEF ApplierAt, IsSealed
  <2>4. pc'[x] \in ApplyCalls /\ pc'[x] \notin {"analyze", "bind"} \cup Bound
    BY DEF ApplyCalls, Bound
  <2>5. QED
    BY <2>3, <2>4 DEF ApplierAt, Bound
<1>5. KnownLocal(x)'
  BY DEF KnownLocal, Blank
<1>6. QED
  BY <1>1, <1>3, <1>4, <1>5, StepKeeps DEF At

LEMMA LeaveKeeps ==
  ASSUME PInv, NEW x \in Processes, NEW code \in {0, 1, 2, 3, 4, 5, 101},
         Leave(x, code), UNCHANGED <<env, disk, doc>>
  PROVE  PInv'
<1>1. /\ pc'[x] = "done" /\ mem'[x] = Blank /\ Alone(x) /\ ProcType'
      /\ ExitInv'
  BY LeaveMoves DEF PInv
<1>2. Frame(x)
  BY DEF Frame, env
<1>3. FileInv'
  BY <1>2, FileStays DEF disk
<1>4. file' \in Files \cup {NoFile} /\ kept' \in BOOLEAN
  BY DEF PInv, TypeOK, disk
<1>5. QED
  BY <1>1, <1>3, <1>4, EndKeeps

-----------------------------------------------------------------------------
(* The steps, one by one.                                                  *)

(* A planner that goes on and leaves env, disk and doc as they are.        *)
LEMMA PlannerGoes ==
  ASSUME PInv, NEW q \in Planners, NEW m \in Memory, NEW l \in Calls,
         Learn(q, m, l), pc[q] /= "done", UNCHANGED <<env, disk, doc>>,
         PlannerAt(q)', KnownLocal(q)'
  PROVE  PInv'
<1>1. At(q)' /\ q \in Processes
  BY PlanAssumption DEF At, Processes
<1>2. QED
  BY <1>1, GoKeeps

LEMMA ApplierGoes ==
  ASSUME PInv, NEW a \in Appliers, NEW m \in Memory, NEW l \in Calls,
         Learn(a, m, l), pc[a] /= "done", UNCHANGED <<env, disk, doc>>,
         ApplierAt(a)', KnownLocal(a)'
  PROVE  PInv'
<1>1. At(a)' /\ a \in Processes
  BY PlanAssumption DEF At, Processes
<1>2. QED
  BY <1>1, GoKeeps

LEMMA PlannerHas ==
  ASSUME PInv, NEW q \in Planners
  PROVE  /\ q \in Processes /\ PlannerAt(q) /\ KnownLocal(q)
         /\ mem[q] \in Memory /\ pc[q] \in Calls /\ TypeOK /\ ExitInv
BY AtHolds DEF PInv, TypeOK, PlannerInv, At, Processes

LEMMA ApplierHas ==
  ASSUME PInv, NEW a \in Appliers
  PROVE  /\ a \in Processes /\ ApplierAt(a) /\ KnownLocal(a)
         /\ mem[a] \in Memory /\ pc[a] \in Calls /\ TypeOK /\ ExitInv
BY AtHolds DEF PInv, TypeOK, ApplierInv, At, Processes

LEMMA CheckOptionsKeeps ==
  ASSUME PInv, NEW q \in Planners, CheckOptions(q) PROVE PInv'
<1>1. CASE Leave(q, 2)
  BY <1>1, PlannerHas, LeaveKeeps DEF CheckOptions
<1>2. CASE Goto(q, "analyze")
  <2>1. Learn(q, mem[q], "analyze") /\ pc[q] = "options"
    BY <1>2 DEF Goto, CheckOptions
  <2>2. pc'[q] = "analyze" /\ mem'[q] = mem[q] /\ doc'[q] = doc[q]
    BY <2>1, LearnMoves, PlannerHas DEF CheckOptions
  <2>3. PlannerAt(q)' /\ KnownLocal(q)'
    BY <2>1, <2>2, PlannerHas DEF PlannerAt, KnownLocal, Unsealed, Connected,
       Writing, PlanCalls
  <2>4. QED
    BY <2>1, <2>3, PlannerHas, PlannerGoes DEF CheckOptions, Calls
<1>3. QED
  BY <1>1, <1>2 DEF CheckOptions

LEMMA PlannerAnalyzes ==
  ASSUME PInv, NEW q \in Planners, Analyze(q) PROVE PInv'
<1>1. CASE \E code \in {1, 2, 3} : Leave(q, code)
  BY <1>1, PlannerHas, LeaveKeeps DEF Analyze
<1>2. CASE sql \in Lawful /\ Learn(q, [mem[q] EXCEPT !.text = sql], "connect")
  <2> DEFINE m == [mem[q] EXCEPT !.text = sql]
  <2>1. m \in Memory /\ m.text = sql /\ m.reads = mem[q].reads
        /\ m.conn = mem[q].conn
    BY PlannerHas, MemoryType DEF TypeOK, Memory
  <2>2. pc'[q] = "connect" /\ mem'[q] = m /\ doc'[q] = doc[q]
        /\ pc[q] = "analyze"
    BY <1>2, LearnMoves, PlannerHas DEF Analyze
  <2>3. PlannerAt(q)' /\ KnownLocal(q)'
    BY <1>2, <2>1, <2>2, PlannerHas DEF PlannerAt, KnownLocal, Unsealed,
       Connected, Writing, PlanCalls
  <2>4. QED
    BY <1>2, <2>1, <2>2, <2>3, PlannerGoes DEF Analyze, Calls
<1>3. QED
  BY <1>1, <1>2 DEF Analyze, FailWith

LEMMA ApplierAnalyzes ==
  ASSUME PInv, NEW a \in Appliers, Analyze(a) PROVE PInv'
<1>1. CASE \E code \in {1, 2, 3} : Leave(a, code)
  BY <1>1, ApplierHas, LeaveKeeps DEF Analyze
<1>2. CASE sql \in Lawful /\ Learn(a, [mem[a] EXCEPT !.text = sql], "bind")
  <2> DEFINE m == [mem[a] EXCEPT !.text = sql]
  <2>1. m \in Memory /\ m.conn = mem[a].conn
    BY ApplierHas, MemoryType DEF TypeOK, Memory
  <2>2. pc'[a] = "bind" /\ mem'[a] = m /\ doc' = doc /\ pc[a] = "analyze"
    BY <1>2, LearnMoves, ApplierHas DEF Analyze
  <2>3. ApplierAt(a)' /\ KnownLocal(a)'
    BY <2>1, <2>2, ApplierHas DEF ApplierAt, KnownLocal, Bound, ApplyCalls,
       IsSealed
  <2>4. QED
    BY <1>2, <2>1, <2>2, <2>3, ApplierGoes DEF Analyze, Calls
<1>3. a \notin Planners
  BY PlanAssumption
<1>4. QED
  BY <1>1, <1>2, <1>3 DEF Analyze, FailWith

(* A connection is to one of the peers of its value, in the clear only to  *)
(* a local one.                                                            *)
LEMMA AllowedIsLocal ==
  ASSUME TypeOK, NEW x \in Processes, TransportAllowed(x),
         NEW p \in Peers(config)
  PROVE  LET c == [config |-> config, peer |-> p, tls |-> x \notin Plaintext] IN
         /\ c \in Conns /\ c.peer \in Peers(c.config)
         /\ ~c.tls => c.peer \in LocalPeers
<1>1. p \in Peer
  BY PeersAre DEF TypeOK
<1>2. x \in Plaintext => p \in LocalPeers
  BY DEF TransportAllowed, AllHostsAreLocal, Peers, LocalPeers
<1>3. QED
  BY <1>1, <1>2 DEF TypeOK, Conns

LEMMA PlannerConnects ==
  ASSUME PInv, NEW q \in Planners, Connect(q) PROVE PInv'
<1>1. CASE \E code \in {1, 2, 3} : Leave(q, code)
  BY <1>1, PlannerHas, LeaveKeeps DEF Connect
<1>2. ASSUME TransportAllowed(q), NEW p \in Peers(config),
             Learn(q, [mem[q] EXCEPT !.conn = [config |-> config, peer |-> p,
                                              tls |-> q \notin Plaintext]],
                   "identity")
      PROVE  PInv'
  <2> DEFINE c == [config |-> config, peer |-> p, tls |-> q \notin Plaintext]
  <2>1. /\ c \in Conns /\ c.peer \in Peers(c.config)
        /\ ~c.tls => c.peer \in LocalPeers
    BY <1>2, AllowedIsLocal, PlannerHas
  <2> HIDE DEF c
  <2> DEFINE m == [mem[q] EXCEPT !.conn = c]
  <2>2. m \in Memory /\ m.conn = c /\ m.text = mem[q].text
        /\ m.reads = mem[q].reads
    <3>1. m \in Memory
      BY <2>1, PlannerHas, MemoryType
    <3>2. QED
      BY <3>1, PlannerHas DEF Memory
  <2> HIDE DEF m
  <2>3. Learn(q, m, "identity")
    BY <1>2 DEF m, c
  <2>4. pc'[q] = "identity" /\ mem'[q] = m /\ doc'[q] = doc[q]
        /\ pc[q] = "connect"
    BY <2>3, LearnMoves, PlannerHas DEF Connect
  <2>5. PlannerAt(q)' /\ KnownLocal(q)'
    BY <2>1, <2>2, <2>4, PlannerHas DEF PlannerAt, KnownLocal, Unsealed,
       Connected, Writing, PlanCalls, Reached
  <2>6. QED
    BY <2>2, <2>3, <2>4, <2>5, PlannerGoes DEF Connect, Calls
<1>3. QED
  BY <1>1, <1>2 DEF Connect, FailWith, ConnClass

LEMMA ApplierConnects ==
  ASSUME PInv, NEW a \in Appliers, Connect(a) PROVE PInv'
<1>0. a \notin Planners
  BY PlanAssumption
<1>1. CASE Leave(a, 0)
  BY <1>1, ApplierHas, LeaveKeeps DEF Connect
<1>2. ASSUME TransportAllowed(a), NEW p \in Peers(config),
             doc[a].tls = (a \notin Plaintext),
             Learn(a, [mem[a] EXCEPT !.conn = [config |-> config, peer |-> p,
                                              tls |-> a \notin Plaintext]],
                   "lock")
      PROVE  PInv'
  <2> DEFINE c == [config |-> config, peer |-> p, tls |-> a \notin Plaintext]
  <2>1. /\ c \in Conns /\ c.peer \in Peers(c.config)
        /\ ~c.tls => c.peer \in LocalPeers
        /\ c.tls = doc[a].tls
    BY <1>2, AllowedIsLocal, ApplierHas
  <2> HIDE DEF c
  <2> DEFINE m == [mem[a] EXCEPT !.conn = c]
  <2>2. m \in Memory /\ m.conn = c /\ m.text = mem[a].text
    <3>1. m \in Memory
      BY <2>1, ApplierHas, MemoryType
    <3>2. QED
      BY <3>1, ApplierHas DEF Memory
  <2> HIDE DEF m
  <2>3. Learn(a, m, "lock")
    BY <1>2 DEF m, c
  <2>4. pc'[a] = "lock" /\ mem'[a] = m /\ doc' = doc /\ pc[a] = "connect"
    BY <2>3, LearnMoves, ApplierHas DEF Connect
  <2>5. ApplierAt(a)' /\ KnownLocal(a)'
    BY <2>1, <2>2, <2>4, ApplierHas DEF ApplierAt, KnownLocal, Bound,
       ApplyCalls, Reached, IsSealed
  <2>6. QED
    BY <2>2, <2>3, <2>4, <2>5, ApplierGoes DEF Connect, Calls
<1>3. QED
  BY <1>0, <1>1, <1>2 DEF Connect, FailWith, ConnClass

LEMMA ReadIdentityKeeps ==
  ASSUME PInv, NEW q \in Planners, ReadIdentity(q) PROVE PInv'
<1>1. CASE \E code \in {1, 3} : Leave(q, code)
  BY <1>1, PlannerHas, LeaveKeeps DEF ReadIdentity
<1>2. CASE Learn(q, [mem[q] EXCEPT !.snap = catalog], "evidence")
  <2> DEFINE m == [mem[q] EXCEPT !.snap = catalog]
  <2>1. catalog \in SUBSET Features
    BY PlannerHas, PlanAssumption, RangeOfReads DEF TypeOK
  <2>2. m \in Memory
    BY <2>1, PlannerHas, MemoryType
  <2>3. m.conn = mem[q].conn /\ m.text = mem[q].text /\ m.reads = mem[q].reads
    BY PlannerHas DEF Memory
  <2> HIDE DEF m
  <2>4. Learn(q, m, "evidence")
    BY <1>2 DEF m
  <2>5. pc'[q] = "evidence" /\ mem'[q] = m /\ doc'[q] = doc[q]
        /\ pc[q] = "identity"
    BY <2>4, LearnMoves, PlannerHas DEF ReadIdentity
  <2>6. 0 < Len(Reads)
    BY RangeOfReads
  <2>7. PlannerAt(q)' /\ KnownLocal(q)'
    BY <2>3, <2>5, <2>6, PlannerHas DEF PlannerAt, KnownLocal, Unsealed,
       Connected, Writing, PlanCalls, Reached
  <2>8. QED
    BY <2>2, <2>4, <2>5, <2>7, PlannerGoes DEF ReadIdentity, Calls
<1>3. QED
  BY <1>1, <1>2 DEF ReadIdentity, FailWith

LEMMA ReadEvidenceKeeps ==
  ASSUME PInv, NEW q \in Planners, ReadEvidence(q) PROVE PInv'
<1> DEFINE n == mem[q].reads + 1
           l == IF n = Len(Reads) THEN "policy" ELSE "evidence"
<1>1. CASE \E code \in {1, 3, 101} : Leave(q, code)
  BY <1>1, PlannerHas, LeaveKeeps DEF ReadEvidence
<1>2. ASSUME NEW view \in {mem[q].snap, catalog},
             Learn(q, [mem[q] EXCEPT
                         !.seen = @ \cup ({Reads[n]} \cap view),
                         !.reads = n], l)
      PROVE  PInv'
  <2> DEFINE s == mem[q].seen \cup ({Reads[n]} \cap view)
             m == [mem[q] EXCEPT !.seen = s, !.reads = n]
  <2>1. n \in 1..Len(Reads)
    <3>1. mem[q].reads \in Nat /\ mem[q].reads < Len(Reads) /\ Len(Reads) \in Nat
      BY PlannerHas, RangeOfReads DEF ReadEvidence, PlannerAt, Memory
    <3>2. QED
      BY <3>1
  <2>2. s \in SUBSET Features
    BY <2>1, PlannerHas, RangeOfReads DEF Memory
  <2> HIDE DEF n, s
  <2>3. m \in Memory
    <3>1. n \in 0..Len(Reads)
      BY <2>1, RangeOfReads
    <3>2. QED
      BY <2>2, <3>1, PlannerHas, MemoryType
  <2>4. m.conn = mem[q].conn /\ m.text = mem[q].text /\ m.reads = n
    BY PlannerHas DEF Memory
  <2>5. Learn(q, m, l)
    BY <1>2 DEF s
  <2> HIDE DEF m
  <2>6. pc'[q] = l /\ mem'[q] = m /\ doc'[q] = doc[q] /\ pc[q] = "evidence"
    BY <2>5, LearnMoves, PlannerHas DEF ReadEvidence
  <2>7. l = "evidence" => n < Len(Reads)
    BY <2>1, RangeOfReads
  <2>8. PlannerAt(q)' /\ KnownLocal(q)'
    BY <2>4, <2>6, <2>7, PlannerHas DEF PlannerAt, KnownLocal, Unsealed,
       Connected, Writing, PlanCalls, Reached
  <2>9. QED
    BY <2>3, <2>5, <2>6, <2>8, PlannerGoes DEF ReadEvidence, Calls
<1>3. QED
  BY <1>1, <1>2 DEF ReadEvidence, FailWith

LEMMA EnforcePolicyKeeps ==
  ASSUME PInv, NEW q \in Planners, EnforcePolicy(q) PROVE PInv'
<1>1. CASE Leave(q, 3)
  BY <1>1, PlannerHas, LeaveKeeps DEF EnforcePolicy
<1>2. CASE TableAllowed(KindOf[mem[q].text], Acks[q], mem[q].seen)
           /\ Goto(q, "targets")
  <2>1. Learn(q, mem[q], "targets") /\ pc[q] = "policy"
    BY <1>2 DEF Goto, EnforcePolicy
  <2>2. pc'[q] = "targets" /\ mem'[q] = mem[q] /\ doc'[q] = doc[q]
    BY <2>1, LearnMoves, PlannerHas DEF EnforcePolicy
  <2>3. PlannerAt(q)' /\ KnownLocal(q)'
    BY <1>2, <2>1, <2>2, PlannerHas DEF PlannerAt, KnownLocal, Unsealed,
       Connected, Writing, PlanCalls, Reached
  <2>4. QED
    BY <2>1, <2>3, PlannerHas, PlannerGoes DEF EnforcePolicy, Calls
<1>3. QED
  BY <1>1, <1>2 DEF EnforcePolicy

LEMMA CountTargetsKeeps ==
  ASSUME PInv, NEW q \in Planners, CountTargets(q) PROVE PInv'
<1>1. CASE \E code \in {1, 4, 5} : Leave(q, code)
  BY <1>1, PlannerHas, LeaveKeeps DEF CountTargets
<1>2. CASE Goto(q, "stamp")
  <2>1. Learn(q, mem[q], "stamp") /\ pc[q] = "targets"
    BY <1>2 DEF Goto, CountTargets
  <2>2. pc'[q] = "stamp" /\ mem'[q] = mem[q] /\ doc'[q] = doc[q]
    BY <2>1, LearnMoves, PlannerHas DEF CountTargets
  <2>3. PlannerAt(q)' /\ KnownLocal(q)'
    BY <2>1, <2>2, PlannerHas DEF PlannerAt, KnownLocal, Unsealed,
       Connected, Writing, PlanCalls, Reached
  <2>4. QED
    BY <2>1, <2>3, PlannerHas, PlannerGoes DEF CountTargets, Calls
<1>3. QED
  BY <1>1, <1>2 DEF CountTargets, FailWith

(* The only step that makes a document.                                    *)
LEMMA StampKeeps ==
  ASSUME PInv, NEW q \in Planners, Stamp(q) PROVE PInv'
<1>1. CASE Leave(q, 2) /\ UNCHANGED doc
  BY <1>1, PlannerHas, LeaveKeeps DEF Stamp
<1>2. CASE /\ now + Lifetime[q] <= MaxTime
           /\ Seal(q, now + Lifetime[q]) /\ Goto(q, "create")
  <2> DEFINE m == mem[q]
             d == [by |-> q, peer |-> m.conn.peer, text |-> m.text,
                   acks |-> Acks[q], evidence |-> m.seen,
                   config |-> m.conn.config,
                   server |-> ServerAddress(m.conn.peer), tls |-> m.conn.tls,
                   created |-> now, expires |-> now + Lifetime[q]]
  <2>1. /\ pc[q] = "stamp" /\ doc[q] = NoDoc /\ m.text \in Lawful
        /\ TableAllowed(KindOf[m.text], Acks[q], m.seen)
        /\ m.conn \in Conns /\ m.conn.peer \in Peers(m.conn.config)
        /\ m.seen \in SUBSET Features
    BY PlannerHas DEF Stamp, PlannerAt, Unsealed, Connected, Reached, Memory
  <2>2. now \in 0..MaxTime /\ now + Lifetime[q] \in 0..MaxTime
    BY <1>2, PlannerHas, PlanAssumption DEF TypeOK
  <2>3. /\ m.conn.config \in Configs /\ m.conn.peer \in Peer
        /\ m.conn.tls \in BOOLEAN
        /\ ServerAddress(m.conn.peer) \in {ServerAddress(p) : p \in Peer}
    BY <2>1 DEF Conns
  <2>4. d \in Docs
    BY <2>1, <2>2, <2>3, PlanAssumption DEF Docs
  <2>5. WellMade(d) /\ d.by = q /\ d /= NoDoc
    BY <2>1, <2>4, PlanAssumption DEF WellMade
  <2>6. doc' = [doc EXCEPT ![q] = d]
    BY <1>2 DEF Seal
  <2> HIDE DEF d
  <2>7. Learn(q, mem[q], "create")
    BY <1>2 DEF Goto
  <2>8. /\ pc'[q] = "create" /\ mem'[q] = mem[q] /\ Alone(q) /\ ProcType'
        /\ ExitInv'
    BY <2>1, <2>7, LearnMoves, PlannerHas DEF Calls
  <2>9. doc'[q] = d
    BY <2>6, PlannerHas DEF TypeOK
  <2>10. Frame(q)
    BY <2>1, <2>6 DEF Frame, Stamp, env
  <2>11. RestType'
    BY <2>4, <2>6, PlannerHas DEF RestType, TypeOK, Stamp, env, disk
  <2>12. FileInv'
    BY <2>10, FileStays, PlannerHas DEF Stamp, disk
  <2>13. WellMade(doc[q])'
    BY <2>5, <2>9 DEF WellMade
  <2>14. PlannerAt(q)'
    BY <2>5, <2>8, <2>9, <2>13 DEF PlannerAt, Unsealed, Connected, Writing,
       PlanCalls
  <2>15. At(q)'
    <3>1. KnownLocal(q)'
      BY <2>8, PlannerHas DEF KnownLocal
    <3>2. QED
      BY <2>14, <3>1, PlanAssumption DEF At
  <2>16. QED
    BY <2>8, <2>10, <2>11, <2>12, <2>15, PlannerHas, StepKeeps
<1>3. QED
  BY <1>1, <1>2 DEF Stamp

(* The steps that write the file.                                          *)
LEMMA OwnDocument ==
  ASSUME PInv, NEW q \in Planners, pc[q] \in Writing
  PROVE  /\ IsSealed(doc[q]) /\ pc[q] /= "done"
         /\ \A whole \in BOOLEAN :
              /\ TheFile(q, whole) \in Files
              /\ TheFile(q, whole).seal = doc[q]
BY PlannerHas DEF PlannerAt, WellMade, IsSealed, TheFile, Files, Writing

LEMMA WriterFile ==
  ASSUME PInv, NEW q \in Planners, pc[q] \in Writing, UNCHANGED <<env, doc>>,
         file' = file \/ \E whole \in BOOLEAN : file' = TheFile(q, whole)
  PROVE  Frame(q) /\ FileInv' /\ file' \in Files \cup {NoFile}
<1>1. Frame(q)
  BY DEF Frame, env
<1>2. CASE file' = file
  BY <1>1, <1>2, FileStays, PlannerHas DEF TypeOK
<1>3. ASSUME NEW whole \in BOOLEAN, file' = TheFile(q, whole)
      PROVE  FileInv' /\ file' \in Files \cup {NoFile}
  <2>1. file'.seal = doc[q] /\ file' \in Files /\ IsSealed(doc[q])
    BY <1>3, OwnDocument
  <2>2. IsSealed(file.seal)'
    BY <2>1 DEF IsSealed
  <2>3. QED
    BY <2>1, <2>2 DEF FileInv
<1>4. QED
  BY <1>1, <1>2, <1>3

LEMMA WriterGoes ==
  ASSUME PInv, NEW q \in Planners, pc[q] \in Writing, NEW l \in Writing,
         Goto(q, l), UNCHANGED <<env, doc>>, kept' \in BOOLEAN,
         file' = file \/ \E whole \in BOOLEAN : file' = TheFile(q, whole)
  PROVE  PInv'
<1>1. Learn(q, mem[q], l) /\ l \in Calls
  BY DEF Goto, Writing, Calls
<1>2. /\ pc'[q] = l /\ mem'[q] = mem[q] /\ Alone(q) /\ ProcType' /\ ExitInv'
  BY <1>1, LearnMoves, PlannerHas, OwnDocument
<1>3. Frame(q) /\ FileInv' /\ file' \in Files \cup {NoFile}
  BY WriterFile
<1>4. RestType'
  BY <1>3, PlannerHas DEF RestType, TypeOK, env
<1>5. PlannerAt(q)' /\ KnownLocal(q)'
  BY <1>2, PlannerHas DEF PlannerAt, WellMade, KnownLocal, Writing, Unsealed,
     Connected, PlanCalls
<1>6. At(q)'
  BY <1>5, PlanAssumption DEF At
<1>7. QED
  BY <1>2, <1>3, <1>4, <1>6, PlannerHas, StepKeeps

LEMMA WriterEnds ==
  ASSUME PInv, NEW q \in Planners, pc[q] \in Writing,
         NEW code \in {0, 1, 2, 3, 4, 5, 101}, Leave(q, code),
         UNCHANGED <<env, doc>>, kept' \in BOOLEAN,
         file' = file \/ \E whole \in BOOLEAN : file' = TheFile(q, whole)
  PROVE  PInv'
<1>1. /\ pc'[q] = "done" /\ mem'[q] = Blank /\ Alone(q) /\ ProcType'
      /\ ExitInv'
  BY LeaveMoves, PlannerHas
<1>2. FileInv' /\ file' \in Files \cup {NoFile}
  BY WriterFile
<1>3. QED
  BY <1>1, <1>2, PlannerHas, EndKeeps

LEMMA CreateKeeps ==
  ASSUME PInv, NEW q \in Planners, Create(q) PROVE PInv'
<1>1. pc[q] \in Writing /\ "write" \in Writing
  BY DEF Create, Writing
<1>2. CASE Leave(q, 1) /\ UNCHANGED disk
  BY <1>2, PlannerHas, LeaveKeeps DEF Create
<1>3. CASE file' = TheFile(q, FALSE) /\ kept' = FALSE /\ Goto(q, "write")
  BY <1>1, <1>3, WriterGoes DEF Create
<1>4. QED
  BY <1>2, <1>3 DEF Create

LEMMA WriteKeeps ==
  ASSUME PInv, NEW q \in Planners, Write(q) PROVE PInv'
<1>1. pc[q] \in Writing /\ "sync" \in Writing /\ kept' \in BOOLEAN
  BY PlannerHas DEF Write, Writing, TypeOK
<1>2. CASE file' = TheFile(q, TRUE) /\ Goto(q, "sync")
  BY <1>1, <1>2, WriterGoes DEF Write
<1>3. CASE (\E whole \in BOOLEAN : file' = TheFile(q, whole)) /\ Leave(q, 1)
  BY <1>1, <1>3, WriterEnds DEF Write
<1>4. QED
  BY <1>2, <1>3 DEF Write

LEMMA SyncKeeps ==
  ASSUME PInv, NEW q \in Planners, Sync(q) PROVE PInv'
<1>1. pc[q] \in Writing /\ "emit" \in Writing
  BY DEF Sync, Writing
<1>2. CASE kept' = TRUE /\ Goto(q, "emit")
  BY <1>1, <1>2, WriterGoes DEF Sync
<1>3. CASE Leave(q, 1) /\ UNCHANGED kept
  BY <1>3, PlannerHas, LeaveKeeps DEF Sync, disk
<1>4. QED
  BY <1>2, <1>3 DEF Sync

LEMMA EmitKeeps ==
  ASSUME PInv, NEW q \in Planners, EmitJson(q) PROVE PInv'
BY PlannerHas, LeaveKeeps DEF EmitJson, FailWith

LEMMA PlanKeeps == ASSUME PInv, NEW q \in Planners, Plan(q) PROVE PInv'
BY CheckOptionsKeeps, PlannerAnalyzes, PlannerConnects, ReadIdentityKeeps,
   ReadEvidenceKeeps, EnforcePolicyKeeps, CountTargetsKeeps, StampKeeps,
   CreateKeeps, WriteKeeps, SyncKeeps, EmitKeeps DEF Plan

-----------------------------------------------------------------------------
(* Steps of apply.                                                         *)

LEMMA ReadPlanKeeps ==
  ASSUME PInv, NEW a \in Appliers, ReadPlan(a) PROVE PInv'
<1>0. a \notin Planners /\ a \in Processes /\ pc[a] = "read"
  BY ApplierHas, PlanAssumption DEF ReadPlan
<1>1. CASE (\E code \in {1, 5} : Leave(a, code)) /\ UNCHANGED doc
  BY <1>1, ApplierHas, LeaveKeeps DEF ReadPlan
<1>2. CASE /\ file /= NoFile /\ Verified
           /\ doc' = [doc EXCEPT ![a] = file.body] /\ Goto(a, "analyze")
  <2>1. IsSealed(file.body) /\ file.body \in Docs
    BY <1>2 DEF Verified, PInv, FileInv, IsSealed
  <2>2. doc'[a] = file.body /\ \A y \in Processes \ {a} : doc'[y] = doc[y]
    BY <1>0, <1>2, ApplierHas DEF TypeOK
  <2>3. Frame(a)
    BY <1>0, <2>2 DEF Frame, Processes, ReadPlan, env
  <2>4. Learn(a, mem[a], "analyze")
    BY <1>2 DEF Goto
  <2>5. /\ pc'[a] = "analyze" /\ mem'[a] = mem[a] /\ Alone(a) /\ ProcType'
        /\ ExitInv'
    BY <1>0, <2>4, LearnMoves, ApplierHas DEF Calls
  <2>6. RestType'
    BY <1>2, <2>1, ApplierHas DEF RestType, TypeOK, ReadPlan, env, disk
  <2>7. FileInv'
    BY <2>3, FileStays, ApplierHas DEF ReadPlan, disk
  <2>8. IsSealed(doc[a])'
    <3>1. file.body.by \in Planners /\ doc[file.body.by] = file.body
      BY <2>1 DEF IsSealed, Docs
    <3>2. doc'[file.body.by] = file.body
      BY <1>0, <2>2, <3>1 DEF Processes
    <3>3. QED
      BY <2>1, <2>2, <3>2 DEF IsSealed
  <2>9. doc'[a] /= NoDoc
    BY <2>1, <2>2, PlanAssumption
  <2>10. ApplierAt(a)' /\ KnownLocal(a)'
    BY <2>5, <2>8, <2>9, ApplierHas DEF ApplierAt, KnownLocal, ApplyCalls,
       Bound
  <2>11. At(a)'
    BY <1>0, <2>10 DEF At
  <2>12. QED
    BY <1>0, <2>3, <2>5, <2>6, <2>7, <2>11, StepKeeps
<1>3. QED
  BY <1>1, <1>2 DEF ReadPlan

LEMMA BindKeeps == ASSUME PInv, NEW a \in Appliers, Bind(a) PROVE PInv'
<1>1. CASE \E code \in {1, 5} : Leave(a, code)
  BY <1>1, ApplierHas, LeaveKeeps DEF Bind
<1>2. CASE Usable(a) /\ Goto(a, "connect")
  <2>1. Learn(a, mem[a], "connect") /\ pc[a] = "bind"
    BY <1>2 DEF Goto, Bind
  <2>2. pc'[a] = "connect" /\ mem'[a] = mem[a] /\ doc' = doc
    BY <2>1, LearnMoves, ApplierHas DEF Bind
  <2>3. ApplierAt(a)' /\ KnownLocal(a)'
    BY <1>2, <2>1, <2>2, ApplierHas DEF ApplierAt, KnownLocal, Bound,
       ApplyCalls, IsSealed, Usable
  <2>4. QED
    BY <2>1, <2>3, ApplierHas, ApplierGoes DEF Bind, Calls
<1>3. QED
  BY <1>1, <1>2 DEF Bind

LEMMA LockKeeps == ASSUME PInv, NEW a \in Appliers, Lock(a) PROVE PInv'
<1>1. CASE Leave(a, 0)
  BY <1>1, ApplierHas, LeaveKeeps DEF Lock
<1>2. CASE /\ holder = Nobody /\ holder' = a
           /\ pc' = [pc EXCEPT ![a] = "check"] /\ UNCHANGED <<mem, exit>>
  <2>1. /\ pc'[a] = "check" /\ mem'[a] = mem[a] /\ doc' = doc
        /\ pc[a] = "lock" /\ a \in Processes
    BY <1>2, ApplierHas DEF TypeOK, Lock
  <2>2. Alone(a) /\ ProcType' /\ ExitInv'
    BY <1>2, <2>1, ApplierHas, PlanAssumption DEF Alone, TypeOK, ProcType,
       ExitInv, Calls
  <2>3. Frame(a) /\ RestType'
    BY ApplierHas DEF Frame, RestType, TypeOK, Lock, env, disk
  <2>4. FileInv'
    BY <2>1, <2>3, FileStays DEF Lock, disk
  <2>5. ApplierAt(a)' /\ KnownLocal(a)'
    BY <1>2, <2>1, ApplierHas DEF ApplierAt, KnownLocal, Bound, ApplyCalls,
       IsSealed, Reached
  <2>6. At(a)'
    BY <2>5, PlanAssumption DEF At
  <2>7. QED
    BY <2>1, <2>2, <2>3, <2>4, <2>6, StepKeeps
<1>3. QED
  BY <1>1, <1>2 DEF Lock

LEMMA CheckKeeps == ASSUME PInv, NEW a \in Appliers, Check(a) PROVE PInv'
<1>1. CASE Leave(a, 0)
  BY <1>1, ApplierHas, LeaveKeeps DEF Check
<1>2. CASE AsPlanned(a) /\ Goto(a, "execute")
  <2>1. Learn(a, mem[a], "execute") /\ pc[a] = "check"
    BY <1>2 DEF Goto, Check
  <2>2. /\ pc'[a] = "execute" /\ mem'[a] = mem[a] /\ doc' = doc
        /\ holder' = holder
    BY <2>1, LearnMoves, ApplierHas DEF Check
  <2>3. AsPlanned(a)'
    BY <1>2, <2>2 DEF AsPlanned, Check, env
  <2>4. ApplierAt(a)' /\ KnownLocal(a)'
    BY <2>1, <2>2, <2>3, ApplierHas DEF ApplierAt, KnownLocal, Bound,
       ApplyCalls, IsSealed, Reached
  <2>5. QED
    BY <2>1, <2>4, ApplierHas, ApplierGoes DEF Check, Calls
<1>3. QED
  BY <1>1, <1>2 DEF Check

LEMMA ApplyKeeps == ASSUME PInv, NEW a \in Appliers, Apply(a) PROVE PInv'
<1>1. CASE Execute(a)
  BY <1>1, ApplierHas, LeaveKeeps DEF Execute
<1>2. QED
  BY <1>1, ReadPlanKeeps, ApplierAnalyzes, BindKeeps, ApplierConnects,
     LockKeeps, CheckKeeps DEF Apply

-----------------------------------------------------------------------------
(* Steps of everything else.                                               *)

(* While somebody compares the table, nobody alters it.                    *)
LEMMA EnvironmentKeeps ==
  ASSUME PInv, UNCHANGED <<proc, doc>>, RestType', FileInv',
         catalog' = catalog \/ holder = Nobody
  PROVE  PInv'
<1>1. TypeOK'
  BY DEF PInv, TypeOK, RestType, proc
<1>2. ExitInv' /\ PlaintextStaysLocal'
  BY DEF PInv, ExitInv, PlaintextStaysLocal, proc
<1>3. PlannerInv'
  <2>1. SUFFICES ASSUME NEW q \in Planners PROVE PlannerAt(q)'
    BY DEF PlannerInv
  <2>2. pc'[q] = pc[q] /\ mem'[q] = mem[q] /\ doc'[q] = doc[q]
    BY DEF proc
  <2>3. QED
    BY <2>2, PlannerHas DEF PlannerAt, Reached, WellMade
<1>4. ApplierInv'
  <2>1. SUFFICES ASSUME NEW a \in Appliers PROVE ApplierAt(a)'
    BY DEF ApplierInv
  <2>2. /\ pc' = pc /\ mem' = mem /\ doc' = doc /\ holder' = holder
        /\ ApplierAt(a)
    BY ApplierHas DEF proc
  <2>3. pc[a] = "execute" => catalog' = catalog
    BY <2>2, PlanAssumption DEF ApplierAt
  <2>4. pc'[a] = "execute" => AsPlanned(a)'
    BY <2>2, <2>3 DEF ApplierAt, AsPlanned
  <2>5. QED
    BY <2>2, <2>4 DEF ApplierAt, Reached, IsSealed
<1>5. QED
  BY <1>1, <1>2, <1>3, <1>4 DEF PInv

(* An edit leaves the digest, and does not cut the file off.               *)
LEMMA EditedFile ==
  ASSUME PInv, EditPlan
  PROVE  /\ file' \in Files /\ file'.seal = file.seal
         /\ file'.whole = file.whole
<1>1. file \in Files /\ file /= NoFile /\ sql \in Texts
  BY DEF EditPlan, PInv, TypeOK
<1>2. /\ [file.body EXCEPT !.expires = MaxTime] \in Docs
      /\ [file.body EXCEPT !.acks = Acknowledgeable] \in Docs
      /\ [file.body EXCEPT !.text = sql] \in Docs
  <2>1. file.body \in Docs
    BY <1>1 DEF Files
  <2>2. MaxTime \in 0..MaxTime
    BY PlanAssumption
  <2>3. QED
    BY <1>1, <2>1, <2>2 DEF Docs
<1>3. PICK body \in Docs : file' = [file EXCEPT !.body = body]
  BY <1>2 DEF EditPlan
<1>4. QED
  BY <1>1, <1>3 DEF Files

LEMMA EditKeeps ==
  ASSUME PInv,
         Tick \/ AlterTable \/ EditSql \/ SetEnvironment \/ EditPlan
  PROVE  PInv'
<1>1. UNCHANGED <<proc, doc>>
  BY DEF Tick, AlterTable, EditSql, SetEnvironment, EditPlan
<1>2. catalog' = catalog \/ holder = Nobody
  BY DEF Tick, AlterTable, EditSql, SetEnvironment, EditPlan
<1>3. /\ now' \in 0..MaxTime /\ catalog' \in Catalogs /\ sql' \in Texts
      /\ config' \in Configs /\ changes' \in 0..MaxChanges
      /\ kept' \in BOOLEAN /\ doc' \in [Processes -> Docs \cup {NoDoc}]
  BY PlanAssumption
  DEF PInv, TypeOK, Tick, AlterTable, EditSql, SetEnvironment, EditPlan,
      Change, disk
<1>4. file' \in Files \cup {NoFile} /\ FileInv'
  <2>1. CASE file' = file
    BY <1>1, <2>1 DEF PInv, TypeOK, FileInv, IsSealed
  <2>2. CASE EditPlan
    <3>1. file /= NoFile /\ file' \in Files /\ file'.seal = file.seal
      BY <2>2, EditedFile DEF EditPlan
    <3>2. QED
      BY <1>1, <3>1 DEF PInv, FileInv, IsSealed
  <2>3. QED
    BY <2>1, <2>2 DEF Tick, AlterTable, EditSql, SetEnvironment, disk
<1>5. QED
  BY <1>1, <1>2, <1>3, <1>4, EnvironmentKeeps DEF RestType

LEMMA KillKeeps == ASSUME PInv, NEW x \in Processes, Kill(x) PROVE PInv'
<1>1. pc[x] /= "done" /\ TypeOK /\ ExitInv
  BY DEF Kill, Begun, PInv
<1>2. /\ pc'[x] = "dead" /\ mem'[x] = Blank /\ Alone(x) /\ ProcType'
      /\ ExitInv'
  BY <1>1, VanishMoves DEF Kill, Calls
<1>3. FileInv' /\ file' \in Files \cup {NoFile}
  <2>1. CASE file' = file
    BY <1>1, <2>1 DEF Kill, PInv, TypeOK, FileInv, IsSealed
  <2>2. CASE pc[x] = "write" /\ file' = TheFile(x, TRUE)
    <3>1. x \in Planners
      BY <2>2, ApplierHas DEF Processes, ApplierAt, ApplyCalls, Bound
    <3>2. QED
      BY <2>2, <3>1, WriterFile DEF Kill, Writing
  <2>3. QED
    BY <2>1, <2>2 DEF Kill
<1>4. kept' \in BOOLEAN /\ UNCHANGED <<env, doc>>
  BY <1>1 DEF Kill, TypeOK
<1>5. QED
  BY <1>2, <1>3, <1>4, EndKeeps

LEMMA HostCrashKeeps == ASSUME PInv, HostCrash PROVE PInv'
<1>1. /\ \A x \in Processes :
           \/ Begun(x) /\ pc'[x] = "dead"
           \/ ~Begun(x) /\ pc'[x] = pc[x]
      /\ \A x \in Processes : mem'[x] = Blank
      /\ pc' \in [Processes -> Calls] /\ mem' \in [Processes -> Memory]
  <2>1. pc \in [Processes -> Calls] /\ "dead" \in Calls
    BY DEF PInv, TypeOK, Calls
  <2>2. pc' = [x \in Processes |-> IF Begun(x) THEN "dead" ELSE pc[x]]
    BY DEF HostCrash
  <2>3. pc' \in [Processes -> Calls]
    BY <2>1, <2>2
  <2>4. mem' = [x \in Processes |-> Blank]
    BY DEF HostCrash
  <2>5. QED
    BY <2>2, <2>3, <2>4, BlankType
<1>2. doc' = doc /\ exit' = exit /\ holder' = Nobody /\ UNCHANGED env
  BY DEF HostCrash
<1>3. file' \in Files \cup {NoFile} /\ kept' \in BOOLEAN
  <2>1. CASE UNCHANGED disk
    BY <2>1 DEF PInv, TypeOK, disk
  <2>2. CASE /\ file /= NoFile
             /\ file' \in {NoFile, file, [file EXCEPT !.whole = FALSE]}
             /\ kept' = (file' /= NoFile)
    <3>1. [file EXCEPT !.whole = FALSE] \in Files
      BY <2>2 DEF PInv, TypeOK, Files
    <3>2. QED
      BY <2>2, <3>1 DEF PInv, TypeOK
  <2>3. QED
    BY <2>1, <2>2 DEF HostCrash
<1>4. file' = NoFile \/ (file /= NoFile /\ file'.seal = file.seal)
  <2>1. \/ file' = NoFile
        \/ file' = file
        \/ /\ file /= NoFile
           /\ file' = [file EXCEPT !.whole = FALSE]
    BY DEF HostCrash, disk
  <2>2. file /= NoFile => [file EXCEPT !.whole = FALSE].seal = file.seal
    BY DEF PInv, TypeOK, Files
  <2>3. QED
    BY <2>1, <2>2
<1>5. TypeOK'
  BY <1>1, <1>2, <1>3 DEF PInv, TypeOK, env
<1>6. FileInv'
  BY <1>2, <1>4 DEF PInv, FileInv, IsSealed
<1>7. ExitInv'
  BY <1>1, <1>2 DEF PInv, ExitInv, Begun
<1>8. PlaintextStaysLocal'
  BY <1>1 DEF PlaintextStaysLocal, Blank
<1>9. PlannerInv'
  <2>1. SUFFICES ASSUME NEW q \in Planners PROVE PlannerAt(q)'
    BY DEF PlannerInv
  <2>2. /\ pc'[q] \in {"options", "read", "done", "dead"}
        /\ pc'[q] \in {"dead", pc[q]}
        /\ mem'[q] = Blank /\ doc'[q] = doc[q]
    BY <1>1, <1>2, PlannerHas DEF Begun
  <2>3. QED
    BY <2>2, PlannerHas DEF PlannerAt, WellMade, Blank, Unsealed, Connected,
       Writing, PlanCalls
<1>10. ApplierInv'
  <2>1. SUFFICES ASSUME NEW a \in Appliers PROVE ApplierAt(a)'
    BY DEF ApplierInv
  <2>2. /\ pc'[a] \in {"options", "read", "done", "dead"}
        /\ pc'[a] \in {"dead", pc[a]} /\ doc' = doc /\ ApplierAt(a)
    BY <1>1, <1>2, ApplierHas DEF Begun
  <2>3. QED
    BY <2>2 DEF ApplierAt, IsSealed, ApplyCalls, Bound
<1>11. QED
  BY <1>5, <1>6, <1>7, <1>8, <1>9, <1>10 DEF PInv

-----------------------------------------------------------------------------
(* The invariant.                                                          *)

LEMMA InitPInv == Init => PInv
<1> SUFFICES ASSUME Init PROVE PInv
  OBVIOUS
<1>1. TypeOK
  <2>1. "options" \in Calls /\ "read" \in Calls
    BY DEF Calls
  <2>2. changes \in 0..MaxChanges
    BY PlanAssumption DEF Init
  <2>3. QED
    BY <2>1, <2>2, BlankType DEF Init, TypeOK
<1>2. PlannerInv
  BY DEF Init, PlannerInv, PlannerAt, Processes, Blank, PlanCalls, Unsealed,
     Connected, Writing
<1>3. ApplierInv
  BY PlanAssumption DEF Init, ApplierInv, ApplierAt, Processes, ApplyCalls,
     Bound
<1>4. FileInv /\ ExitInv /\ PlaintextStaysLocal
  BY DEF Init, FileInv, ExitInv, PlaintextStaysLocal, Blank
<1>5. QED
  BY <1>1, <1>2, <1>3, <1>4 DEF PInv

LEMMA NextPInv == PInv /\ [Next]_vars => PInv'
<1> SUFFICES ASSUME PInv, [Next]_vars PROVE PInv'
  OBVIOUS
<1>1. CASE Next
  <2>1. ASSUME NEW q \in Planners, Plan(q) PROVE PInv'
    BY <2>1, PlanKeeps
  <2>2. ASSUME NEW a \in Appliers, Apply(a) PROVE PInv'
    BY <2>2, ApplyKeeps
  <2>3. CASE Others
    BY <2>3, EditKeeps, HostCrashKeeps, KillKeeps DEF Others
  <2>4. QED
    BY <1>1, <2>1, <2>2, <2>3 DEF Next
<1>2. CASE UNCHANGED vars
  <2>1. UNCHANGED <<proc, doc>> /\ RestType' /\ FileInv' /\ catalog' = catalog
    BY <1>2 DEF vars, env, disk, PInv, TypeOK, RestType, FileInv, IsSealed
  <2>2. QED
    BY <2>1, EnvironmentKeeps
<1>3. QED
  BY <1>1, <1>2

LEMMA InvariantHolds == Spec => []PInv
BY InitPInv, NextPInv, PTL DEF Spec

(* Every variable holds a value the processes, the file or the server can  *)
(* show.                                                                   *)
THEOREM TypeCorrect == Spec => []TypeOK
<1>1. PInv => TypeOK
  BY DEF PInv
<1>2. QED
  BY <1>1, InvariantHolds, PTL

(* No process talks to anything but a loopback peer without TLS, whatever  *)
(* hosts and addresses its connection value mixes.                         *)
THEOREM PlaintextIsLocal == Spec => []PlaintextStaysLocal
<1>1. PInv => PlaintextStaysLocal
  BY DEF PInv
<1>2. QED
  BY <1>1, InvariantHolds, PTL

LEMMA SealedIsMade ==
  ASSUME PInv, NEW d, IsSealed(d)
  PROVE  d.by \in Planners /\ doc[d.by] = d /\ WellMade(d)
<1>1. d.by \in Planners /\ doc[d.by] = d /\ d /= NoDoc
  BY PlanAssumption DEF IsSealed, Docs
<1>2. QED
  BY <1>1, PlannerHas DEF PlannerAt

(* An apply goes on with nothing but a document that a dmlpact plan has    *)
(* sealed after all its checks.                                            *)
THEOREM SealedPlansRun == Spec => []OnlySealedPlansRun
<1>1. ASSUME PInv PROVE OnlySealedPlansRun
  <2>1. SUFFICES ASSUME NEW a \in Appliers, doc[a] /= NoDoc
                 PROVE  LET d == doc[a] IN
                        /\ doc[d.by] = d /\ d.text \in Lawful
                        /\ TableAllowed(KindOf[d.text], Acks[d.by], d.evidence)
    BY DEF OnlySealedPlansRun
  <2>2. IsSealed(doc[a])
    BY <1>1, <2>1, ApplierHas DEF ApplierAt
  <2>3. PICK d : d = doc[a]
    OBVIOUS
  <2>4. doc[d.by] = d /\ WellMade(d)
    BY <1>1, <2>2, <2>3, SealedIsMade
  <2>5. QED
    BY <2>3, <2>4 DEF WellMade
<1>2. QED
  BY <1>1, InvariantHolds, PTL

(* One server, one peer: what ServerAssumption is for.                     *)
LEMMA SamePeer ==
  ASSUME NEW c \in Configs, NEW p \in Peers(c), NEW r \in Peers(c),
         ServerAddress(p) = ServerAddress(r)
  PROVE  p = r
BY ServerAssumption

(* When the statement runs, the table, the policy, the statement, the      *)
(* server and the transport are those of the sealed plan. It is about one  *)
(* table: that the name in the statement still means it is not claimed.    *)
THEOREM ExecutionIsConsistent == Spec => []ConsistentAtExecution
<1>1. ASSUME PInv PROVE ConsistentAtExecution
  <2>1. SUFFICES ASSUME NEW a \in Appliers, pc[a] = "execute", NEW d,
                        d = doc[doc[a].by]
                 PROVE  /\ catalog = d.evidence
                        /\ TableAllowed(KindOf[mem[a].text], Acks[d.by], catalog)
                        /\ mem[a].text = d.text
                        /\ mem[a].conn = [config |-> d.config, peer |-> d.peer,
                                          tls |-> d.tls]
    BY DEF ConsistentAtExecution
  <2>2. /\ IsSealed(doc[a]) /\ AsPlanned(a) /\ Reached(a)
        /\ mem[a].text = doc[a].text /\ mem[a].conn.tls = doc[a].tls
    BY <1>1, <2>1, ApplierHas DEF ApplierAt, Bound
  <2>3. d = doc[a] /\ IsSealed(d)
    BY <2>1, <2>2 DEF IsSealed
  <2>4. WellMade(d)
    BY <1>1, <2>3, SealedIsMade
  <2>5. /\ catalog = d.evidence /\ mem[a].text = d.text
        /\ TableAllowed(KindOf[mem[a].text], Acks[d.by], catalog)
    BY <2>2, <2>3, <2>4 DEF AsPlanned, WellMade
  <2>6. /\ mem[a].conn \in Conns /\ mem[a].conn.config = d.config
        /\ mem[a].conn.peer \in Peers(d.config) /\ d.config \in Configs
        /\ mem[a].conn.tls = d.tls
    BY <2>2, <2>3 DEF Reached, AsPlanned, Conns
  <2>7. /\ d.peer \in Peers(d.config)
        /\ ServerAddress(d.peer) = ServerAddress(mem[a].conn.peer)
    BY <2>2, <2>3, <2>4 DEF AsPlanned, WellMade
  <2>8. mem[a].conn.peer = d.peer
    BY <2>6, <2>7, SamePeer
  <2>9. mem[a].conn = [config |-> d.config, peer |-> d.peer, tls |-> d.tls]
    BY <2>6, <2>8 DEF Conns
  <2>10. QED
    BY <2>5, <2>9
<1>2. QED
  BY <1>1, InvariantHolds, PTL

-----------------------------------------------------------------------------
(* The end of a plan's lifetime.                                           *)

Moves(x) == \A y \in Processes \ {x} : pc'[y] = pc[y]

LEMMA PlanMoves ==
  ASSUME TypeOK, NEW q \in Planners, Plan(q) PROVE Moves(q)
<1> USE DEF Moves, TypeOK, Goto, Learn, FailWith, Leave, Vanish
<1>1. CASE CheckOptions(q) \/ EnforcePolicy(q) \/ CountTargets(q)
  BY <1>1 DEF CheckOptions, EnforcePolicy, CountTargets
<1>2. CASE Analyze(q) \/ Connect(q)
  BY <1>2 DEF Analyze, Connect
<1>3. CASE ReadIdentity(q) \/ ReadEvidence(q) \/ Stamp(q)
  BY <1>3 DEF ReadIdentity, ReadEvidence, Stamp
<1>4. CASE Create(q) \/ Sync(q)
  <2>1. Goto(q, "write") \/ Goto(q, "emit") \/ Leave(q, 1)
    BY <1>4 DEF Create, Sync
  <2>2. QED
    BY <2>1
<1>5. CASE EmitJson(q)
  BY <1>5 DEF EmitJson
<1>6. CASE Write(q)
  <2>1. Goto(q, "sync") \/ Leave(q, 1)
    BY <1>6 DEF Write
  <2>2. QED
    BY <2>1
<1>7. QED
  BY <1>1, <1>2, <1>3, <1>4, <1>5, <1>6 DEF Plan

LEMMA ApplyMoves ==
  ASSUME TypeOK, NEW a \in Appliers, Apply(a) PROVE Moves(a)
<1> USE DEF Moves, TypeOK, Goto, Learn, FailWith, Leave, Vanish
<1>1. CASE ReadPlan(a) \/ Analyze(a) \/ Bind(a) \/ Connect(a)
  BY <1>1 DEF ReadPlan, Analyze, Bind, Connect
<1>2. CASE Lock(a) \/ Check(a) \/ Execute(a)
  BY <1>2 DEF Lock, Check, Execute
<1>3. QED
  BY <1>1, <1>2 DEF Apply

LEMMA OnlyBind ==
  ASSUME PInv, Next, NEW a \in Appliers, pc[a] = "bind",
         pc'[a] \in {"connect", "done"}
  PROVE  Bind(a)
<1>0. a \in Processes /\ a \notin Planners /\ TypeOK
  BY ApplierHas, PlanAssumption
<1>1. ASSUME NEW q \in Planners, Plan(q) PROVE FALSE
  BY <1>0, <1>1, PlanMoves DEF Moves
<1>2. ASSUME NEW b \in Appliers, Apply(b) PROVE Bind(a)
  <2>1. b = a
    BY <1>0, <1>2, ApplyMoves DEF Moves
  <2>2. QED
    BY <1>2, <2>1
    DEF Apply, ReadPlan, Analyze, Connect, Lock, Check, Execute
<1>3. ~Others
  <2>1. ~(Tick \/ AlterTable \/ EditSql \/ SetEnvironment \/ EditPlan)
    BY DEF Tick, AlterTable, EditSql, SetEnvironment, EditPlan, proc
  <2>2. ~HostCrash
    BY <1>0 DEF HostCrash
  <2>3. ASSUME NEW x \in Processes, Kill(x) PROVE FALSE
    BY <1>0, <2>3 DEF Kill, Vanish, TypeOK
  <2>4. QED
    BY <2>1, <2>2, <2>3 DEF Others
<1>4. QED
  BY <1>1, <1>2, <1>3 DEF Next

(* A plan is good up to and including its last millisecond, by the         *)
(* arithmetic of integers, and not after it.                               *)
THEOREM LifetimeIsExact == Spec => GoodUntilExpiry
<1>1. ASSUME PInv, PInv', Next, NEW a \in Appliers, pc[a] = "bind"
      PROVE  /\ pc'[a] = "connect" => InLifetime(doc[a])
             /\ exit'[a] = 5 =>
                  mem[a].text /= doc[a].text \/ ~InLifetime(doc[a])
  <2>1. IsSealed(doc[a]) /\ a \in Processes /\ TypeOK /\ exit[a] = Running
    BY <1>1, ApplierHas DEF ApplierAt, ExitInv
  <2>2. doc[a].expires = doc[a].created + Lifetime[doc[a].by]
    <3>1. PICK d : d = doc[a]
      OBVIOUS
    <3>2. QED
      BY <1>1, <2>1, <3>1, SealedIsMade DEF WellMade
  <2>3. Usable(a) <=> mem[a].text = doc[a].text /\ InLifetime(doc[a])
    BY <2>2 DEF Usable, InLifetime
  <2>4. exit'[a] = 5 => pc'[a] = "done"
    BY <1>1, <2>1 DEF PInv, ExitInv, Running
  <2>5. pc'[a] = "connect" \/ exit'[a] = 5 => Bind(a)
    BY <1>1, <2>4, OnlyBind
  <2>6. Bind(a) /\ pc'[a] = "connect" => Usable(a)
    BY <2>1 DEF Bind, Goto, Learn, Leave, Vanish, TypeOK
  <2>7. Bind(a) /\ exit'[a] = 5 => ~Usable(a)
    BY <2>1 DEF Bind, Goto, Learn, Leave, Vanish, TypeOK, Running
  <2>8. QED
    BY <2>3, <2>5, <2>6, <2>7
<1>2. PInv /\ PInv' /\ [Next]_vars =>
        [\A a \in Appliers : pc[a] = "bind" =>
           /\ pc'[a] = "connect" => InLifetime(doc[a])
           /\ exit'[a] = 5 =>
                mem[a].text /= doc[a].text \/ ~InLifetime(doc[a])]_vars
  BY <1>1
<1>3. QED
  BY <1>2, InvariantHolds, PTL DEF Spec, GoodUntilExpiry

-----------------------------------------------------------------------------
(* What exit codes promise of the file.                                    *)

Only(x) == \A y \in Processes \ {x} : pc'[y] = pc[y] /\ exit'[y] = exit[y]

Placing == {"write", "sync", "emit"}

Same(x) == Only(x) /\ UNCHANGED <<changes, disk>>
           /\ \A q \in Planners \ {x} : doc'[q] = doc[q]

LEMMA KeptHas ==
  ASSUME PInv, KeptInv, NEW q \in Planners
  PROVE  KeptAt(q) /\ (doc[q] /= NoDoc => doc[q].by = q)
         /\ (pc[q] /= "done" => exit[q] = Running)
BY PlannerHas DEF KeptInv, PlannerAt, ExitInv

LEMMA SameKeeps ==
  ASSUME PInv, KeptInv, NEW x \in Processes, Same(x),
         x \in Planners => KeptAt(x)'
  PROVE  KeptInv'
<1>1. ASSUME NEW q \in Planners, q /= x PROVE KeptAt(q)'
  <2>1. /\ pc'[q] = pc[q] /\ exit'[q] = exit[q] /\ doc'[q] = doc[q]
        /\ file' = file /\ kept' = kept /\ KeptAt(q)
    BY <1>1, KeptHas DEF Same, Only, disk, Processes
  <2>2. QED
    BY <2>1 DEF KeptAt
<1>2. EditsCount'
  BY DEF KeptInv, EditsCount, Same, disk
<1>3. QED
  BY <1>1, <1>2 DEF KeptInv

(* Who starts to write a file, or has one whole, is the only one.          *)
LEMMA OneWriter ==
  ASSUME PInv, KeptInv, NEW q \in Planners, NEW r \in Planners,
         pc[q] \in Placing, pc[r] \in Placing \/ exit[r] = 0
  PROVE  q = r
BY KeptHas DEF KeptAt, Placing

(* Leaving with an error before there is a document, or with none from     *)
(* then on.                                                                *)
LEMMA QuietLeave ==
  ASSUME PInv, KeptInv, NEW q \in Planners,
         NEW code \in {1, 2, 3, 4, 5, 101}, Leave(q, code),
         code = 1 \/ doc[q] = NoDoc, UNCHANGED <<env, disk, doc>>
  PROVE  KeptInv'
<1>1. pc'[q] = "done" /\ exit'[q] = code /\ q \in Processes
  BY LeaveMoves, PlannerHas
<1>2. Same(q)
  BY PlannerHas DEF Same, Only, Leave, Vanish, TypeOK, env
<1>3. KeptAt(q)'
  BY <1>1 DEF KeptAt
<1>4. QED
  BY <1>1, <1>2, <1>3, SameKeeps

LEMMA QuietLearn ==
  ASSUME PInv, KeptInv, NEW q \in Planners, NEW m, NEW l \in Calls \ Placing,
         Learn(q, m, l), pc[q] /= "done", UNCHANGED <<env, disk>>,
         \A r \in Planners \ {q} : doc'[r] = doc[r]
  PROVE  KeptInv'
<1>1. pc'[q] = l /\ exit'[q] = exit[q] /\ q \in Processes
      /\ exit[q] = Running
  BY LearnMoves, PlannerHas, KeptHas
<1>2. Same(q)
  BY PlannerHas DEF Same, Only, Learn, TypeOK, env
<1>3. KeptAt(q)'
  BY <1>1 DEF KeptAt, Placing, Running
<1>4. QED
  BY <1>1, <1>2, <1>3, SameKeeps

(* Everything a planner does before it creates the file.                   *)
LEMMA BeforeCreate ==
  ASSUME PInv, KeptInv, NEW q \in Planners,
         \/ CheckOptions(q) \/ Analyze(q) \/ Connect(q) \/ ReadIdentity(q)
         \/ ReadEvidence(q) \/ EnforcePolicy(q) \/ CountTargets(q)
         \/ Stamp(q)
  PROVE  KeptInv'
<1>1. /\ pc[q] \in Unsealed /\ pc[q] /= "done" /\ doc[q] = NoDoc
      /\ UNCHANGED <<env, disk>>
  BY PlannerHas DEF PlannerAt, CheckOptions, Analyze, Connect, ReadIdentity,
     ReadEvidence, EnforcePolicy, CountTargets, Stamp, Unsealed, Connected
<1>2. \A r \in Planners \ {q} : doc'[r] = doc[r]
  BY PlannerHas DEF CheckOptions, Analyze, Connect, ReadIdentity,
     ReadEvidence, EnforcePolicy, CountTargets, Stamp, Seal, TypeOK
<1>3. \/ /\ UNCHANGED doc
         /\ \E code \in {1, 2, 3, 4, 5, 101} : Leave(q, code)
      \/ \E m, l : l \in Calls \ Placing /\ Learn(q, m, l)
  <2>1. CASE CheckOptions(q) \/ EnforcePolicy(q) \/ CountTargets(q)
    BY <2>1 DEF CheckOptions, EnforcePolicy, CountTargets, Goto, FailWith,
       Calls, Placing
  <2>2. CASE Analyze(q) \/ Connect(q)
    BY <2>2 DEF Analyze, Connect, FailWith, ConnClass, Calls, Placing
  <2>3. CASE ReadIdentity(q) \/ ReadEvidence(q)
    BY <2>3 DEF ReadIdentity, ReadEvidence, FailWith, Calls, Placing
  <2>4. CASE Stamp(q)
    BY <2>4 DEF Stamp, Goto, Calls, Placing
  <2>5. QED
    BY <2>1, <2>2, <2>3, <2>4
<1>4. QED
  BY <1>1, <1>2, <1>3, QuietLeave, QuietLearn

(* A step of q that places its file: what is left to show of it.           *)
LEMMA PlacingKeeps ==
  ASSUME PInv, KeptInv, NEW q \in Planners, Only(q), UNCHANGED <<env, doc>>,
         \A r \in Planners \ {q} : ~(pc[r] \in Placing \/ exit[r] = 0),
         KeptAt(q)', file' /= NoFile => file'.body = file'.seal \/ changes > 0
  PROVE  KeptInv'
<1>1. ASSUME NEW r \in Planners, r /= q PROVE KeptAt(r)'
  <2>1. pc'[r] = pc[r] /\ exit'[r] = exit[r] /\ doc'[r] = doc[r]
    BY <1>1 DEF Only, Processes
  <2>2. QED
    BY <1>1, <2>1, KeptHas DEF KeptAt, Placing
<1>2. EditsCount'
  BY DEF EditsCount, env
<1>3. QED
  BY <1>1, <1>2 DEF KeptInv

LEMMA GotoMoves ==
  ASSUME PInv, NEW q \in Planners, NEW l, Goto(q, l)
  PROVE  pc'[q] = l /\ exit'[q] = exit[q] /\ Only(q)
BY PlannerHas DEF Goto, Learn, Only, TypeOK

LEMMA LeaveOnly ==
  ASSUME PInv, NEW x \in Processes, NEW code, Leave(x, code)
  PROVE  pc'[x] = "done" /\ exit'[x] = code /\ Only(x)
BY DEF PInv, Leave, Vanish, Only, TypeOK

LEMMA OwnFile ==
  ASSUME PInv, NEW q \in Planners, pc[q] \in Writing, NEW whole \in BOOLEAN,
         file' = TheFile(q, whole)
  PROVE  /\ file' /= NoFile /\ doc[q] /= NoDoc /\ file'.seal = doc[q]
         /\ file'.body = file'.seal /\ file'.whole = whole
<1>1. TheFile(q, whole) \in Files /\ IsSealed(doc[q])
  BY OwnDocument
<1>2. QED
  BY <1>1, PlanAssumption DEF TheFile, IsSealed

LEMMA CreateWriteSyncEmit ==
  ASSUME PInv, KeptInv, NEW q \in Planners,
         Create(q) \/ Write(q) \/ Sync(q) \/ EmitJson(q)
  PROVE  KeptInv'
<1>0. /\ pc[q] \in Writing /\ pc[q] /= "done" /\ UNCHANGED <<env, doc>>
      /\ exit[q] = Running /\ KeptAt(q)
  BY KeptHas DEF Create, Write, Sync, EmitJson, Writing
<1>1. CASE /\ file = NoFile /\ file' = TheFile(q, FALSE)
           /\ Goto(q, "write")
  <2>1. \A r \in Planners : ~(pc[r] \in Placing \/ exit[r] = 0)
    BY <1>1, KeptHas DEF KeptAt, Placing
  <2>2. /\ file' /= NoFile /\ doc[q] /= NoDoc /\ file'.seal = doc[q]
        /\ file'.body = file'.seal
    BY <1>0, <1>1, OwnFile
  <2>3. pc'[q] = "write" /\ exit'[q] = Running /\ Only(q)
    BY <1>0, <1>1, GotoMoves
  <2>4. KeptAt(q)'
    BY <1>0, <2>2, <2>3 DEF KeptAt, Running
  <2>5. QED
    BY <1>0, <2>1, <2>2, <2>3, <2>4, PlacingKeeps
<1>2. CASE Write(q)
  <2>1. pc[q] \in Placing /\ kept' = kept
    BY <1>2 DEF Write, Placing
  <2>2. \A r \in Planners \ {q} : ~(pc[r] \in Placing \/ exit[r] = 0)
    BY <2>1, OneWriter
  <2>3. ASSUME file' = TheFile(q, TRUE), Goto(q, "sync") PROVE KeptInv'
    <3>1. /\ file' /= NoFile /\ doc[q] /= NoDoc /\ file'.seal = doc[q]
          /\ file'.body = file'.seal /\ file'.whole
      BY <1>0, <2>3, OwnFile
    <3>2. pc'[q] = "sync" /\ exit'[q] = Running /\ Only(q)
      BY <1>0, <2>3, GotoMoves
    <3>3. KeptAt(q)'
      BY <1>0, <3>1, <3>2 DEF KeptAt, Running
    <3>4. QED
      BY <1>0, <2>2, <3>1, <3>2, <3>3, PlacingKeeps
  <2>4. ASSUME NEW whole \in BOOLEAN, file' = TheFile(q, whole), Leave(q, 1)
        PROVE  KeptInv'
    <3>1. file'.body = file'.seal
      BY <1>0, <2>4, OwnFile
    <3>2. pc'[q] = "done" /\ exit'[q] = 1 /\ Only(q)
      BY <2>4, LeaveOnly, PlannerHas
    <3>3. KeptAt(q)'
      BY <3>2 DEF KeptAt
    <3>4. QED
      BY <1>0, <2>2, <3>1, <3>2, <3>3, PlacingKeeps
  <2>5. QED
    BY <1>2, <2>3, <2>4 DEF Write
<1>3. CASE pc[q] = "sync" /\ kept' = TRUE /\ Goto(q, "emit") /\ file' = file
  <2>1. \A r \in Planners \ {q} : ~(pc[r] \in Placing \/ exit[r] = 0)
    BY <1>3, OneWriter DEF Placing
  <2>2. pc'[q] = "emit" /\ exit'[q] = Running /\ Only(q)
    BY <1>0, <1>3, GotoMoves
  <2>3. KeptAt(q)'
    BY <1>0, <1>3, <2>2 DEF KeptAt, Running
  <2>4. file' /= NoFile => file'.body = file'.seal \/ changes > 0
    BY <1>3 DEF KeptInv, EditsCount
  <2>5. QED
    BY <1>0, <2>1, <2>2, <2>3, <2>4, PlacingKeeps
<1>4. CASE EmitJson(q)
  <2>1. pc[q] = "emit" /\ (Leave(q, 0) \/ Leave(q, 1)) /\ UNCHANGED disk
    BY <1>4 DEF EmitJson, FailWith
  <2>2. pc'[q] = "done" /\ exit'[q] \in {0, 1} /\ Only(q)
    BY <2>1, LeaveOnly, PlannerHas
  <2>3. KeptAt(q)'
    BY <1>0, <2>1, <2>2 DEF KeptAt, disk
  <2>4. Same(q)
    BY <1>0, <2>1, <2>2 DEF Same, env
  <2>5. QED
    BY <2>3, <2>4, PlannerHas, SameKeeps
<1>5. CASE Leave(q, 1) /\ UNCHANGED disk
  BY <1>0, <1>5, QuietLeave
<1>6. QED
  BY <1>1, <1>2, <1>3, <1>4, <1>5 DEF Create, Sync, disk

LEMMA ApplyKept ==
  ASSUME PInv, KeptInv, NEW a \in Appliers, Apply(a) PROVE KeptInv'
<1>0. a \in Processes /\ a \notin Planners /\ TypeOK
  BY ApplierHas, PlanAssumption
<1>1. UNCHANGED <<env, disk>>
  BY DEF Apply, ReadPlan, Analyze, Bind, Connect, Lock, Check, Execute
<1>2. \A q \in Planners : doc'[q] = doc[q]
  <2>1. CASE UNCHANGED doc
    BY <2>1
  <2>2. CASE ReadPlan(a)
    <3>1. doc' = doc \/ doc' = [doc EXCEPT ![a] = file.body]
      BY <2>2 DEF ReadPlan
    <3>2. doc \in [Processes -> Docs \cup {NoDoc}]
      BY <1>0 DEF TypeOK
    <3>3. QED
      BY <1>0, <3>1, <3>2 DEF Processes
  <2>3. QED
    BY <2>1, <2>2 DEF Apply, Analyze, Bind, Connect, Lock, Check, Execute
<1>3. \A y \in Processes \ {a} : exit'[y] = exit[y]
  <2> USE <1>0 DEF TypeOK, Goto, Learn, FailWith, Leave, Vanish
  <2>1. CASE ReadPlan(a) \/ Analyze(a) \/ Bind(a) \/ Connect(a)
    BY <2>1 DEF ReadPlan, Analyze, Bind, Connect
  <2>2. CASE Lock(a) \/ Check(a) \/ Execute(a)
    BY <2>2 DEF Lock, Check, Execute
  <2>3. QED
    BY <2>1, <2>2 DEF Apply
<1>4. Same(a)
  BY <1>0, <1>1, <1>2, <1>3, ApplyMoves DEF Same, Only, Moves, env
<1>5. QED
  BY <1>0, <1>4, SameKeeps

LEMMA OthersKept == ASSUME PInv, KeptInv, Others PROVE KeptInv'
<1>1. UNCHANGED <<doc, exit>>
  BY DEF Others, Tick, AlterTable, EditSql, SetEnvironment, EditPlan,
     HostCrash, Kill, proc
<1>2. ASSUME UNCHANGED <<disk, pc>>, changes' \in {changes, changes + 1}
      PROVE  KeptInv'
  <2>1. \A q \in Planners : KeptAt(q)'
    BY <1>1, <1>2, KeptHas DEF KeptAt, disk
  <2>2. changes > 0 => changes' > 0
    BY <1>2 DEF PInv, TypeOK
  <2>3. EditsCount'
    BY <1>2, <2>2 DEF KeptInv, EditsCount, disk
  <2>4. QED
    BY <2>1, <2>3 DEF KeptInv
<1>3. CASE Tick \/ AlterTable \/ EditSql \/ SetEnvironment
  BY <1>2, <1>3 DEF Tick, AlterTable, EditSql, SetEnvironment, Change, proc
<1>4. CASE EditPlan
  <2>1. /\ file /= NoFile /\ file' /= NoFile /\ file'.seal = file.seal
        /\ file'.whole = file.whole
    BY <1>4, EditedFile, PlanAssumption DEF EditPlan
  <2>2. kept' = kept /\ pc' = pc /\ changes' = changes + 1
        /\ changes \in Nat
    BY <1>4 DEF EditPlan, Change, proc, PInv, TypeOK
  <2>3. \A q \in Planners : KeptAt(q)'
    BY <1>1, <2>1, <2>2, KeptHas DEF KeptAt
  <2>4. EditsCount'
    BY <2>2 DEF EditsCount
  <2>5. QED
    BY <2>3, <2>4 DEF KeptInv
<1>5. ASSUME NEW x \in Processes, Kill(x) PROVE KeptInv'
  <2>1. pc'[x] = "dead" /\ Only(x) /\ UNCHANGED <<env, kept>>
    BY <1>5 DEF Kill, Vanish, Only, PInv, TypeOK
  <2>2. exit[x] = Running
    BY <1>5 DEF Kill, Begun, PInv, ExitInv
  <2>3. x \in Planners => KeptAt(x)'
    BY <1>1, <2>1, <2>2 DEF KeptAt, Running
  <2>4. CASE file' = file
    BY <1>1, <2>1, <2>3, <2>4, SameKeeps DEF Same, env, disk
  <2>5. CASE pc[x] = "write" /\ file' = TheFile(x, TRUE)
    <3>1. x \in Planners
      BY <2>5, ApplierHas DEF Processes, ApplierAt, ApplyCalls, Bound
    <3>2. \A r \in Planners \ {x} : ~(pc[r] \in Placing \/ exit[r] = 0)
      BY <2>5, <3>1, OneWriter DEF Placing
    <3>3. file'.body = file'.seal
      BY <2>5, <3>1, OwnFile DEF Writing
    <3>4. QED
      BY <1>1, <2>1, <2>3, <3>1, <3>2, <3>3, PlacingKeeps
  <2>6. QED
    BY <1>5, <2>4, <2>5 DEF Kill
<1>6. CASE HostCrash
  <2>1. \A q \in Planners : pc'[q] \notin Placing
    BY <1>6 DEF HostCrash, Begun, Placing, Processes
  <2>2. \A q \in Planners : exit[q] = 0 => UNCHANGED disk
    BY <1>6, KeptHas DEF HostCrash, KeptAt
  <2>3. \A q \in Planners : KeptAt(q)'
    <3>1. SUFFICES ASSUME NEW q \in Planners PROVE KeptAt(q)'
      OBVIOUS
    <3>2. doc'[q] = doc[q] /\ exit'[q] = exit[q] /\ KeptAt(q)
      BY <1>1, KeptHas
    <3>3. exit[q] = 0 => pc[q] = "done" /\ pc'[q] = "done"
      BY <1>6, KeptHas DEF HostCrash, Begun, Running, Processes
    <3>4. exit[q] = 0 => file' = file /\ kept' = kept
      BY <2>2 DEF disk
    <3>5. pc'[q] \notin {"write", "sync", "emit"}
      BY <2>1 DEF Placing
    <3>6. QED
      BY <3>2, <3>3, <3>4, <3>5 DEF KeptAt
  <2>4. EditsCount'
    <3>1. CASE file' = file \/ file' = NoFile
      BY <1>6, <3>1 DEF KeptInv, EditsCount, HostCrash, env
    <3>2. CASE file /= NoFile /\ file' = [file EXCEPT !.whole = FALSE]
      <4>1. file'.body = file.body /\ file'.seal = file.seal
        BY <3>2 DEF PInv, TypeOK, Files
      <4>2. QED
        BY <1>6, <3>2, <4>1 DEF KeptInv, EditsCount, HostCrash, env
    <3>3. QED
      BY <1>6, <3>1, <3>2 DEF HostCrash, disk
  <2>5. QED
    BY <2>3, <2>4 DEF KeptInv
<1>7. QED
  BY <1>3, <1>4, <1>5, <1>6 DEF Others

LEMMA KeptHolds == Spec => []KeptInv
<1>1. Init => KeptInv
  BY DEF Init, KeptInv, KeptAt, EditsCount, Running, Processes
<1>2. PInv /\ KeptInv /\ [Next]_vars => KeptInv'
  <2> SUFFICES ASSUME PInv, KeptInv, [Next]_vars PROVE KeptInv'
    OBVIOUS
  <2>1. CASE Next
    BY <2>1, BeforeCreate, CreateWriteSyncEmit, ApplyKept, OthersKept
    DEF Next, Plan
  <2>2. CASE UNCHANGED vars
    BY <2>2 DEF vars, env, disk, proc, KeptInv, KeptAt, EditsCount
  <2>3. QED
    BY <2>1, <2>2
<1>3. QED
  BY <1>1, <1>2, InvariantHolds, PTL DEF Spec

(* Once plan has exited 0, its own plan is in the file whatever crashes;   *)
(* it can only be changed by hand.                                         *)
THEOREM ExitZeroIsDurable == Spec => []ExitZeroDurable
<1>1. ASSUME PInv, KeptInv PROVE ExitZeroDurable
  <2>1. SUFFICES ASSUME NEW q \in Planners, exit[q] = 0
                 PROVE  /\ file /= NoFile /\ file.whole /\ file.seal = doc[q]
                        /\ file.body /= doc[q] => changes > 0
    BY DEF ExitZeroDurable
  <2>2. KeptAt(q) /\ pc[q] = "done"
    BY <1>1, <2>1, KeptHas DEF Running
  <2>3. file /= NoFile /\ file.whole /\ file.seal = doc[q]
    BY <2>1, <2>2 DEF KeptAt
  <2>4. QED
    BY <1>1, <2>3 DEF KeptInv, EditsCount
<1>2. QED
  BY <1>1, InvariantHolds, KeptHolds, PTL

(* A plan that was refused leaves nothing behind that could be applied.    *)
THEOREM RefusedIsGone == Spec => []RefusedLeavesNoFile
<1>1. ASSUME PInv, KeptInv PROVE RefusedLeavesNoFile
  <2>1. SUFFICES ASSUME NEW q \in Planners, exit[q] \in {2, 3, 4, 5, 101}
                 PROVE  /\ file = NoFile \/ file.seal.by /= q
                        /\ \A a \in Appliers : doc[a] = NoDoc \/ doc[a].by /= q
    BY DEF RefusedLeavesNoFile
  <2>2. doc[q] = NoDoc
    BY <1>1, <2>1, KeptHas DEF KeptAt
  <2>3. ASSUME NEW d, IsSealed(d) PROVE d.by /= q
    BY <2>2, <2>3, PlanAssumption DEF IsSealed
  <2>4. file = NoFile \/ file.seal.by /= q
    BY <1>1, <2>3 DEF PInv, FileInv
  <2>5. \A a \in Appliers : doc[a] = NoDoc \/ doc[a].by /= q
    BY <1>1, <2>3, ApplierHas DEF ApplierAt
  <2>6. QED
    BY <2>4, <2>5
<1>2. QED
  BY <1>1, InvariantHolds, KeptHolds, PTL
=============================================================================
