-------------------------- MODULE JournalInvariant --------------------------
(***************************************************************************)
(* The inductive invariant of ReceiptJournal: why what a process was told  *)
(* is durable stays in its receipt.                                        *)
(***************************************************************************)
EXTENDS ReceiptJournal

IsPrepared(e, a) == e.by = a /\ e.state = "prepared" /\ e.whole
IsFinal(e, a)    == e.by = a /\ e.state \in Finals /\ e.whole

(* create_new gives a path to one process at a time.                       *)
OneOwner ==
  \A a, b \in Appliers :
    Started(a) /\ Started(b) /\ PathOf[a] = PathOf[b] => a = b

(* What the file of a process at work holds, call by call.                 *)
ContentInv ==
  \A a \in Appliers :
    LET p == PathOf[a] f == lines[p] IN
    /\ Started(a) => p \in exists /\ event[a] \in Events
    /\ pc[a] = "write_prepared" => f = <<>> /\ IsPrepared(event[a], a)
    /\ pc[a] = "sync_prepared" =>
         Len(f) = 1 /\ f[1] = event[a] /\ IsPrepared(event[a], a)
    /\ pc[a] \in {"finalize", "write_final"} =>
         Len(f) = 1 /\ IsPrepared(f[1], a)
    /\ pc[a] \in {"write_final", "sync_final"} => IsFinal(event[a], a)
    /\ pc[a] = "sync_final" =>
         Len(f) = 2 /\ IsPrepared(f[1], a) /\ f[2] = event[a]

(* What a process was told is on disk, and nobody can write behind it: if  *)
(* not even a host crash removes the directory entry of a synced file.     *)
ToldInv == EntryDurable =>
  \A a \in Appliers :
    LET p == PathOf[a] f == lines[p] IN
    /\ pc[a] = "create" => told[a] = "none"
    /\ told[a] /= "none" =>
         p \in exists /\ synced[p] >= 1 /\ IsPrepared(f[1], a)
    /\ told[a] \in Finals =>
         synced[p] = 2 /\ IsFinal(f[2], a) /\ f[2].state = told[a]

(* Only a terminal event follows another.                                  *)
FinalLast == \A p \in Paths : Len(lines[p]) = 2 => lines[p][2].state \in Finals

(* One process writes each file, each file holds what its calls have made  *)
(* of it, and what a process was told is durable is there.                 *)
JInv == TypeOK /\ OneOwner /\ ContentInv /\ ToldInv /\ FinalLast
=============================================================================
