--------------------------- MODULE PlanInvariant ---------------------------
(***************************************************************************)
(* The inductive invariant of PlanFile: why what an apply runs is what a   *)
(* dmlpact plan sealed, whatever was edited or altered in between.         *)
(***************************************************************************)
EXTENDS PlanFile

Connected == {"identity", "evidence", "policy", "targets", "stamp"}
Unsealed  == {"options", "analyze", "connect"} \cup Connected
Writing   == {"create", "write", "sync", "emit"}
Bound     == {"connect", "lock", "check", "execute"}

PlanCalls  == Unsealed \cup Writing \cup {"done", "dead"}
ApplyCalls == {"read", "analyze", "bind", "done", "dead"} \cup Bound

(* A document some planner has sealed, and what is true of each of those.  *)
IsSealed(d) == d \in Docs /\ doc[d.by] = d

WellMade(d) ==
  /\ d \in Docs
  /\ d.text \in Lawful
  /\ TableAllowed(KindOf[d.text], Acks[d.by], d.evidence)
  /\ d.acks = Acks[d.by]
  /\ d.peer \in Peers(d.config) /\ d.server = ServerAddress(d.peer)
  /\ d.expires = d.created + Lifetime[d.by]

Reached(x) ==
  LET c == mem[x].conn IN c \in Conns /\ c.peer \in Peers(c.config)

(* A planner seals once, when everything has been checked.                 *)
PlannerAt(q) ==
  /\ pc[q] \in PlanCalls
  /\ pc[q] \in Unsealed => doc[q] = NoDoc
  /\ doc[q] /= NoDoc => doc[q].by = q /\ WellMade(doc[q])
  /\ pc[q] \in Writing => doc[q] /= NoDoc
  /\ pc[q] \in {"connect"} \cup Connected => mem[q].text \in Lawful
  /\ pc[q] \in Connected => Reached(q)
  /\ pc[q] \in {"options", "analyze", "connect", "identity"} =>
       mem[q].reads = 0
  /\ pc[q] = "evidence" => mem[q].reads < Len(Reads)
  /\ pc[q] \in {"targets", "stamp"} =>
       TableAllowed(KindOf[mem[q].text], Acks[q], mem[q].seen)

PlannerInv == \A q \in Planners : PlannerAt(q)

(* An edit of the file leaves its digest alone.                            *)
FileInv == file /= NoFile => IsSealed(file.seal)

(* What an apply has compared stays as it was compared.                    *)
ApplierAt(a) ==
  /\ pc[a] \in ApplyCalls
  /\ doc[a] /= NoDoc => IsSealed(doc[a])
  /\ pc[a] \in {"analyze", "bind"} \cup Bound => doc[a] /= NoDoc
  /\ pc[a] \in Bound => mem[a].text = doc[a].text
  /\ pc[a] \in Bound \ {"connect"} =>
       Reached(a) /\ mem[a].conn.tls = doc[a].tls
  /\ pc[a] \in {"check", "execute"} => holder = a
  /\ pc[a] = "execute" => AsPlanned(a)

ApplierInv == \A a \in Appliers : ApplierAt(a)

ExitInv == \A x \in Processes : pc[x] /= "done" => exit[x] = Running

(* A file in the making, or reported with exit 0, is its planner's own.    *)
KeptAt(q) ==
  /\ exit[q] \in {2, 3, 4, 5, 101} => doc[q] = NoDoc
  /\ pc[q] \in {"write", "sync", "emit"} \/ exit[q] = 0 =>
       /\ doc[q] /= NoDoc /\ file /= NoFile /\ file.seal = doc[q]
       /\ pc[q] /= "write" => file.whole
       /\ pc[q] = "emit" \/ exit[q] = 0 => kept

EditsCount == file /= NoFile => file.body = file.seal \/ changes > 0

KeptInv == (\A q \in Planners : KeptAt(q)) /\ EditsCount

PInv == TypeOK /\ PlannerInv /\ FileInv /\ ApplierInv /\ ExitInv
                /\ PlaintextStaysLocal
=============================================================================
