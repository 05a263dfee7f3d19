------------------------ MODULE ReceiptJournalProofs ------------------------
(***************************************************************************)
(* Proofs about ReceiptJournal, for any processes, paths and terminal      *)
(* states: what was reported durable survives, and the file implements     *)
(* the receipt that Apply relies on (ReceiptFile).                         *)
(***************************************************************************)
EXTENDS JournalInvariant, SequenceTheorems, TLAPS

-----------------------------------------------------------------------------
(* Lines, and what is left of them.                                        *)

LEMMA TornType ==
  ASSUME NEW e \in Events
  PROVE  /\ Torn(e) \in Events /\ ~Torn(e).whole
         /\ Torn(e).by = e.by /\ Torn(e).state = e.state
BY DEF Events, Torn

LEMMA NewEventType ==
  ASSUME TypeOK, NEW a \in Appliers, NEW s \in {"prepared"} \cup Finals
  PROVE  NewEvent(a, s) \in Events
BY DEF TypeOK, NewEvent, Events

(* Where an interrupted write left something, that is the event, whole or  *)
(* cut off, behind what was there.                                         *)
LEMMA LeftoverLines ==
  ASSUME JInv, NEW a \in Appliers, Writing(a), NEW left \in Leftovers(a)
  PROVE  LET old == lines[PathOf[a]] IN
         \/ left = old
         \/ \E e \in {event[a], Torn(event[a])} :
              /\ e \in Events /\ left = Append(old, e) /\ left \in Seq(Events)
              /\ Len(left) = Len(old) + 1 /\ left[Len(old) + 1] = e
              /\ \A i \in 1..Len(old) : left[i] = old[i]
<1>1. PathOf[a] \in Paths /\ lines[PathOf[a]] \in Seq(Events)
  BY JournalAssumption DEF JInv, TypeOK
<1>2. event[a] \in Events
  BY DEF JInv, ContentInv, Writing, Started
<1>3. QED
  BY <1>1, <1>2, TornType, AppendProperties DEF Leftovers

(* What a host crash leaves of a file: what is on disk, and of the rest    *)
(* whole lines, the last one perhaps cut off.                              *)
LEMMA SurvivorLines ==
  ASSUME TypeOK, NEW p \in Paths, NEW g \in Survivors(p)
  PROVE  /\ g \in Seq(Events) /\ Len(g) \in synced[p]..Len(lines[p])
         /\ \A i \in 1..Len(g) : g[i] = lines[p][i] \/
              (i > synced[p] /\ lines[p][i] \in Events /\ g[i] = Torn(lines[p][i]))
<1> DEFINE f == lines[p]
           kept(n) == SubSeq(f, 1, n)
<1>1. f \in Seq(Events) /\ Len(f) \in Nat /\ \A i \in 1..Len(f) : f[i] \in Events
  BY DEF TypeOK
<1>2. synced[p] \in Nat
  BY DEF TypeOK
<1>3. ASSUME NEW n \in 0..Len(f)
      PROVE  /\ kept(n) \in Seq(Events) /\ Len(kept(n)) = n
             /\ \A i \in 1..n : kept(n)[i] = f[i]
  <2>1. 1 \in Int /\ n \in Int /\ \A i \in 1..n : f[i] \in Events
    BY <1>1
  <2>2. /\ kept(n) \in Seq(Events)
        /\ Len(kept(n)) = IF 1 <= n THEN n - 1 + 1 ELSE 0
        /\ \A i \in 1..n - 1 + 1 : kept(n)[i] = f[1 + i - 1]
    BY <2>1, SubSeqProperties
  <2>3. QED
    BY <2>2
<1> HIDE DEF kept
<1>4. CASE \E n \in synced[p]..Len(f) : g = kept(n)
  BY <1>1, <1>2, <1>3, <1>4
<1>5. CASE \E n \in (synced[p] + 1)..Len(f) : g = Append(kept(n - 1), Torn(f[n]))
  <2>1. PICK n \in (synced[p] + 1)..Len(f) : g = Append(kept(n - 1), Torn(f[n]))
    BY <1>5
  <2>2. n - 1 \in 0..Len(f) /\ f[n] \in Events /\ Torn(f[n]) \in Events
    BY <1>1, <1>2, <2>1, TornType
  <2>3. /\ g \in Seq(Events) /\ Len(g) = n /\ g[n] = Torn(f[n])
        /\ \A i \in 1..n - 1 : g[i] = f[i]
    BY <1>3, <2>1, <2>2, AppendProperties
  <2>4. QED
    BY <1>1, <1>2, <2>1, <2>2, <2>3
<1>6. QED
  BY <1>4, <1>5 DEF Survivors, kept

-----------------------------------------------------------------------------
(* The invariant.                                                          *)

LEMMA InitJInv == Init => JInv
<1> SUFFICES ASSUME Init PROVE JInv
  OBVIOUS
<1>1. TypeOK
  <2>1. lines \in [Paths -> Seq(Events)] /\ \A p \in Paths : Len(lines[p]) = 0
    BY EmptySeq DEF Init
  <2>2. QED
    BY <2>1, JournalAssumption DEF Init, TypeOK, Calls
<1>2. OneOwner /\ ContentInv
  BY DEF Init, OneOwner, ContentInv, Started
<1>3. ToldInv /\ FinalLast
  BY JournalAssumption DEF Init, ToldInv, FinalLast, TypeOK
<1>4. QED
  BY <1>1, <1>2, <1>3 DEF JInv

(* At a write, the file holds what was written before and nothing else.    *)
LEMMA WriterLines ==
  ASSUME JInv, NEW a \in Appliers, Writing(a), NEW left \in Leftovers(a)
  PROVE  LET f == lines[PathOf[a]] IN
         /\ PathOf[a] \in exists /\ event[a] \in Events /\ left \in Seq(Events)
         /\ \/ /\ pc[a] = "write_prepared" /\ f = <<>> /\ Len(f) = 0
               /\ IsPrepared(event[a], a)
               /\ \/ left = f
                  \/ Len(left) = 1 /\ left[1] \in {event[a], Torn(event[a])}
            \/ /\ pc[a] = "write_final" /\ Len(f) = 1
               /\ IsPrepared(f[1], a) /\ IsFinal(event[a], a)
               /\ \/ left = f
                  \/ /\ Len(left) = 2 /\ left[1] = f[1]
                     /\ left[2] \in {event[a], Torn(event[a])}
<1> DEFINE f == lines[PathOf[a]]
<1>1. f \in Seq(Events) /\ Len(f) \in Nat
  BY JournalAssumption DEF JInv, TypeOK
<1>2. PathOf[a] \in exists /\ event[a] \in Events
  BY DEF JInv, ContentInv, Writing, Started
<1>3. \/ left = f
      \/ /\ left \in Seq(Events) /\ Len(left) = Len(f) + 1
         /\ left[Len(f) + 1] \in {event[a], Torn(event[a])}
         /\ \A i \in 1..Len(f) : left[i] = f[i]
  BY LeftoverLines
<1>4. CASE pc[a] = "write_prepared"
  <2>1. f = <<>> /\ IsPrepared(event[a], a)
    BY <1>4 DEF JInv, ContentInv
  <2>2. Len(f) = 0
    BY <2>1
  <2>3. \/ left = f
        \/ Len(left) = 1 /\ left[1] \in {event[a], Torn(event[a])}
    <3>1. Len(f) + 1 = 1
      BY <2>2
    <3>2. QED
      BY <1>3, <3>1
  <2>4. QED
    BY <1>1, <1>2, <1>3, <1>4, <2>1, <2>2, <2>3
<1>5. CASE pc[a] = "write_final"
  <2>1. Len(f) = 1 /\ IsPrepared(f[1], a) /\ IsFinal(event[a], a)
    BY <1>5 DEF JInv, ContentInv
  <2>2. \/ left = f
        \/ /\ Len(left) = 2 /\ left[1] = f[1]
           /\ left[2] \in {event[a], Torn(event[a])}
    BY <1>3, <2>1
  <2>3. QED
    BY <1>1, <1>2, <1>3, <1>5, <2>1, <2>2
<1>6. QED
  BY <1>4, <1>5 DEF Writing

(* A write, whole or interrupted: what Write and Kill have in common.      *)
Writes(a, left, l) ==
  /\ Writing(a)
  /\ lines' = [lines EXCEPT ![PathOf[a]] = left]
  /\ UNCHANGED <<now, event, told, exists, synced>>
  /\ pc' = [pc EXCEPT ![a] = l]
  /\ \/ l \in {"returned", "dead"}
     \/ /\ left = Append(lines[PathOf[a]], event[a])
        /\ l = IF pc[a] = "write_final" THEN "sync_final" ELSE "sync_prepared"

LEMMA WritesFrame ==
  ASSUME JInv, NEW a \in Appliers, NEW left, NEW l, Writes(a, left, l)
  PROVE  /\ lines'[PathOf[a]] = left /\ pc'[a] = l
         /\ \A q \in Paths : q /= PathOf[a] => lines'[q] = lines[q]
         /\ \A b \in Appliers : b /= a => pc'[b] = pc[b]
         /\ \A b \in Appliers : Started(b)' => Started(b)
         /\ \A b \in Appliers : b /= a /\ PathOf[b] = PathOf[a] => ~Started(b)
<1>1. PathOf[a] \in Paths /\ Started(a)
  BY JournalAssumption DEF Writes, Writing, Started
<1>2. /\ lines'[PathOf[a]] = left
      /\ \A q \in Paths : q /= PathOf[a] => lines'[q] = lines[q]
  BY <1>1 DEF JInv, TypeOK, Writes
<1>3. pc'[a] = l /\ \A b \in Appliers : b /= a => pc'[b] = pc[b]
  BY DEF JInv, TypeOK, Writes
<1>4. \A b \in Appliers : Started(b)' => Started(b)
  BY <1>1, <1>3 DEF Started
<1>5. \A b \in Appliers : b /= a /\ PathOf[b] = PathOf[a] => ~Started(b)
  BY <1>1 DEF JInv, OneOwner
<1>6. QED
  BY <1>2, <1>3, <1>4, <1>5

(* A write that is followed by a sync has put the whole event there.       *)
LEMMA WrittenWhole ==
  ASSUME JInv, NEW a \in Appliers, NEW l, NEW left, Writes(a, left, l),
         l \notin {"returned", "dead"}
  PROVE  LET f == lines[PathOf[a]] IN
         \/ /\ l = "sync_prepared" /\ IsPrepared(event[a], a)
            /\ Len(left) = 1 /\ left[1] = event[a]
         \/ /\ l = "sync_final" /\ IsFinal(event[a], a) /\ IsPrepared(f[1], a)
            /\ Len(left) = 2 /\ left[1] = f[1] /\ left[2] = event[a]
<1> DEFINE f == lines[PathOf[a]]
<1>1. f \in Seq(Events) /\ Len(f) \in Nat
  BY JournalAssumption DEF JInv, TypeOK
<1>2. /\ Writing(a) /\ left \in Leftovers(a) /\ left = Append(f, event[a])
      /\ l = IF pc[a] = "write_final" THEN "sync_final" ELSE "sync_prepared"
  BY DEF Writes, Leftovers
<1>3. event[a] \in Events
  BY <1>2 DEF JInv, ContentInv, Writing, Started
<1>4. /\ Len(left) = Len(f) + 1 /\ left[Len(f) + 1] = event[a]
      /\ \A i \in 1..Len(f) : left[i] = f[i]
  <2>1. LET g == Append(f, event[a]) IN
        /\ Len(g) = Len(f) + 1 /\ g[Len(f) + 1] = event[a]
        /\ \A i \in 1..Len(f) : g[i] = f[i]
    BY <1>1, <1>3, AppendProperties
  <2>2. QED
    BY <1>2, <2>1
<1>5. CASE pc[a] = "write_prepared"
  <2>1. Len(f) = 0 /\ IsPrepared(event[a], a)
    BY <1>2, <1>5, WriterLines
  <2>2. Len(left) = 1 /\ left[1] = event[a]
    BY <1>1, <1>4, <2>1
  <2>3. QED
    BY <1>2, <1>5, <2>1, <2>2
<1>6. CASE pc[a] = "write_final"
  <2>1. Len(f) = 1 /\ IsPrepared(f[1], a) /\ IsFinal(event[a], a)
    BY <1>2, <1>6, WriterLines
  <2>2. Len(left) = 2 /\ left[1] = f[1] /\ left[2] = event[a]
    BY <1>1, <1>4, <2>1
  <2>3. QED
    BY <1>2, <1>6, <2>1, <2>2
<1>7. QED
  BY <1>2, <1>5, <1>6 DEF Writing

LEMMA WritesKeepJInv ==
  ASSUME JInv, NEW a \in Appliers, NEW left \in Leftovers(a), NEW l,
         Writes(a, left, l)
  PROVE  JInv'
<1> DEFINE p == PathOf[a]
           f == lines[p]
<1>1. p \in Paths /\ Writing(a) /\ f \in Seq(Events) /\ Len(f) \in Nat
  <2>1. p \in Paths
    BY JournalAssumption
  <2>2. f \in Seq(Events)
    BY <2>1 DEF JInv, TypeOK
  <2>3. QED
    BY <2>1, <2>2, LenProperties DEF Writes
<1>2. /\ lines'[p] = left /\ \A q \in Paths : q /= p => lines'[q] = lines[q]
      /\ pc'[a] = l /\ \A b \in Appliers : b /= a => pc'[b] = pc[b]
  BY WritesFrame
<1>3. /\ \A b \in Appliers : Started(b)' => Started(b)
      /\ \A b \in Appliers : b /= a /\ PathOf[b] = p => ~Started(b)
  BY WritesFrame
<1>4. /\ p \in exists /\ event[a] \in Events /\ left \in Seq(Events)
      /\ \/ /\ pc[a] = "write_prepared" /\ f = <<>> /\ Len(f) = 0
            /\ IsPrepared(event[a], a)
            /\ \/ left = f
               \/ Len(left) = 1 /\ left[1] \in {event[a], Torn(event[a])}
         \/ /\ pc[a] = "write_final" /\ Len(f) = 1
            /\ IsPrepared(f[1], a) /\ IsFinal(event[a], a)
            /\ \/ left = f
               \/ /\ Len(left) = 2 /\ left[1] = f[1]
                  /\ left[2] \in {event[a], Torn(event[a])}
  BY <1>1, WriterLines
<1>5. UNCHANGED <<now, event, told, exists, synced>>
  BY DEF Writes
<1>6. TypeOK'
  <2>1. pc' \in [Appliers -> Calls]
    BY DEF JInv, TypeOK, Calls, Writes
  <2>2. lines' \in [Paths -> Seq(Events)]
    BY <1>4 DEF JInv, TypeOK, Writes
  <2>3. ASSUME NEW q \in Paths
        PROVE  /\ Len(lines'[q]) <= 2 /\ synced[q] <= Len(lines'[q])
               /\ q \notin exists => lines'[q] = <<>>
    <3>1. CASE q = p
      <4>1. synced[p] \in Nat /\ synced[p] <= Len(f)
        BY <1>1 DEF JInv, TypeOK
      <4>2. lines'[q] = left /\ q \in exists
        BY <1>2, <1>4, <3>1
      <4>3. CASE left = f
        BY <1>2, <1>4, <3>1, <4>1, <4>3 DEF JInv, TypeOK
      <4>4. CASE left /= f /\ Len(f) = 0
        <5>1. Len(left) = 1
          BY <1>4, <4>4
        <5>2. synced[p] <= 0
          BY <4>1, <4>4
        <5>3. QED
          BY <3>1, <4>1, <4>2, <5>1, <5>2
      <4>5. CASE left /= f /\ Len(f) = 1
        <5>1. Len(left) = 2
          BY <1>4, <4>5
        <5>2. synced[p] <= 1
          BY <4>1, <4>5
        <5>3. QED
          BY <3>1, <4>1, <4>2, <5>1, <5>2
      <4>6. QED
        BY <1>4, <4>3, <4>4, <4>5
    <3>2. CASE q /= p
      BY <3>2, <1>2 DEF JInv, TypeOK
    <3>3. QED
      BY <3>1, <3>2
  <2>4. QED
    BY <1>5, <2>1, <2>2, <2>3 DEF JInv, TypeOK
<1>7. OneOwner'
  BY <1>3 DEF JInv, OneOwner
<1>8. ContentInv'
  <2> SUFFICES ASSUME NEW b \in Appliers
               PROVE  LET g == lines'[PathOf[b]] IN
      /\ Started(b)' => PathOf[b] \in exists' /\ event'[b] \in Events
      /\ pc'[b] = "write_prepared" => g = <<>> /\ IsPrepared(event'[b], b)
      /\ pc'[b] = "sync_prepared" =>
           Len(g) = 1 /\ g[1] = event'[b] /\ IsPrepared(event'[b], b)
      /\ pc'[b] \in {"finalize", "write_final"} =>
           Len(g) = 1 /\ IsPrepared(g[1], b)
      /\ pc'[b] \in {"write_final", "sync_final"} => IsFinal(event'[b], b)
      /\ pc'[b] = "sync_final" =>
           Len(g) = 2 /\ IsPrepared(g[1], b) /\ g[2] = event'[b]
    BY ZenonT(30) DEF ContentInv, IsPrepared, IsFinal
  <2>1. CASE b = a
    <3>1. CASE l \in {"returned", "dead"}
      BY <1>2, <2>1, <3>1 DEF Started
    <3>2. CASE l \notin {"returned", "dead"}
      <4>1. \/ /\ l = "sync_prepared" /\ IsPrepared(event[a], a)
               /\ Len(left) = 1 /\ left[1] = event[a]
            \/ /\ l = "sync_final" /\ IsFinal(event[a], a)
               /\ IsPrepared(f[1], a)
               /\ Len(left) = 2 /\ left[1] = f[1] /\ left[2] = event[a]
        BY <3>2, WrittenWhole
      <4>2. QED
        BY <1>2, <1>4, <1>5, <2>1, <4>1
    <3>3. QED
      BY <3>1, <3>2
  <2>2. CASE b /= a /\ PathOf[b] = p
    BY <1>2, <1>3, <2>2 DEF Started
  <2>3. CASE PathOf[b] /= p
    <3>1. lines'[PathOf[b]] = lines[PathOf[b]] /\ pc'[b] = pc[b]
      BY <1>2, <2>3, JournalAssumption
    <3>2. Started(b)' = Started(b)
      BY <3>1 DEF Started
    <3>3. QED
      BY <1>5, <3>1, <3>2 DEF JInv, ContentInv
  <2>4. QED
    BY <2>1, <2>2, <2>3
<1>9. ToldInv'
  <2> SUFFICES ASSUME EntryDurable, NEW b \in Appliers
               PROVE  LET q == PathOf[b] g == lines'[q] IN
      /\ pc'[b] = "create" => told'[b] = "none"
      /\ told'[b] /= "none" =>
           q \in exists' /\ synced'[q] >= 1 /\ IsPrepared(g[1], b)
      /\ told'[b] \in Finals =>
           synced'[q] = 2 /\ IsFinal(g[2], b) /\ g[2].state = told'[b]
    BY ZenonT(30) DEF ToldInv, IsPrepared, IsFinal
  <2>1. pc'[b] = "create" => pc[b] = "create"
    BY <1>2, <1>3 DEF Started, Writing, Writes
  <2>2. CASE PathOf[b] = p
    <3>1. synced[p] \in Nat /\ synced[p] <= Len(f)
      BY <1>1 DEF JInv, TypeOK
    <3>2. (Len(f) = 0 \/ Len(f) = 1) /\ (Len(f) = 1 => left[1] = f[1])
      <4>1. CASE pc[a] = "write_prepared"
        BY <1>4, <4>1
      <4>2. CASE pc[a] = "write_final"
        BY <1>4, <4>2
      <4>3. QED
        BY <1>4, <4>1, <4>2
    <3>3. told[b] \in Finals => synced[p] = 2
      BY <2>2 DEF JInv, ToldInv
    <3>4. told[b] \notin Finals
      <4>1. CASE Len(f) = 0
        BY <3>1, <3>3, <4>1
      <4>2. CASE Len(f) = 1
        BY <3>1, <3>3, <4>2
      <4>3. QED
        BY <3>2, <4>1, <4>2
    <3>5. told[b] /= "none" =>
            p \in exists /\ synced[p] >= 1 /\ IsPrepared(f[1], b)
      BY <2>2 DEF JInv, ToldInv
    <3>6. pc[b] = "create" => told[b] = "none"
      BY DEF JInv, ToldInv
    <3>7. told[b] /= "none" => left[1] = f[1]
      BY <1>1, <3>1, <3>2, <3>5
    <3>8. QED
      BY <1>2, <1>5, <2>1, <2>2, <3>4, <3>5, <3>6, <3>7
  <2>3. CASE PathOf[b] /= p
    <3>1. lines'[PathOf[b]] = lines[PathOf[b]]
      BY <1>2, <2>3, JournalAssumption
    <3>2. QED
      BY <1>5, <2>1, <3>1 DEF JInv, ToldInv
  <2>4. QED
    BY <2>2, <2>3
<1>10. FinalLast'
  <2> SUFFICES ASSUME NEW q \in Paths, Len(lines'[q]) = 2
               PROVE  lines'[q][2].state \in Finals
    BY DEF FinalLast
  <2>1. CASE q = p
    <3>1. CASE left = f
      BY <1>1, <1>2, <2>1, <3>1 DEF JInv, FinalLast
    <3>2. CASE left /= f
      <4>1. Len(left) = 2
        BY <1>2, <2>1
      <4>2. left[2] \in {event[a], Torn(event[a])} /\ IsFinal(event[a], a)
        BY <1>4, <3>2, <4>1
      <4>3. QED
        BY <1>2, <1>4, <2>1, <4>2, TornType DEF IsFinal
    <3>3. QED
      BY <3>1, <3>2
  <2>2. CASE q /= p
    BY <1>2, <2>2 DEF JInv, FinalLast
  <2>3. QED
    BY <2>1, <2>2
<1>11. QED
  BY <1>6, <1>7, <1>8, <1>9, <1>10 DEF JInv

LEMMA WriteIsWrites ==
  ASSUME NEW a \in Appliers, Write(a)
  PROVE  \E left \in Leftovers(a) :
           \E l \in Calls : Writes(a, left, l)
<1>1. CASE /\ lines' = [lines EXCEPT ![PathOf[a]] = Append(@, event[a])]
           /\ Goto(a, IF pc[a] = "write_final" THEN "sync_final"
                                               ELSE "sync_prepared")
  <2>1. Append(lines[PathOf[a]], event[a]) \in Leftovers(a)
    BY DEF Leftovers
  <2>2. Writes(a, Append(lines[PathOf[a]], event[a]),
               IF pc[a] = "write_final" THEN "sync_final" ELSE "sync_prepared")
    BY <1>1 DEF Write, Writes, Goto
  <2>3. QED
    BY <2>1, <2>2 DEF Calls
<1>2. CASE \E left \in Leftovers(a) :
             lines' = [lines EXCEPT ![PathOf[a]] = left] /\ Goto(a, "returned")
  BY <1>2 DEF Write, Writes, Goto, Calls
<1>3. QED
  BY <1>1, <1>2 DEF Write

LEMMA KillIsWrites ==
  ASSUME NEW a \in Appliers, Kill(a), Writing(a)
  PROVE  \E left \in Leftovers(a) : Writes(a, left, "dead")
BY DEF Kill, Writes, Goto

(* The processes that only move on keep the invariant.                     *)
LEMMA CreateKeepsJInv ==
  ASSUME JInv, NEW a \in Appliers, Create(a) PROVE JInv'
<1> DEFINE p == PathOf[a]
<1>1. p \in Paths /\ ~Started(a) /\ (EntryDurable => told[a] = "none")
  BY JournalAssumption DEF JInv, ToldInv, Create, Started
<1>2. /\ \A b \in Appliers : b /= a => pc'[b] = pc[b] /\ event'[b] = event[b]
      /\ UNCHANGED <<now, told, lines, synced>> /\ exists \subseteq exists'
  BY DEF JInv, TypeOK, Create, Goto
<1>3. event'[a] = NewEvent(a, "prepared") /\ NewEvent(a, "prepared") \in Events
  BY NewEventType DEF JInv, TypeOK, Create
<1>4. IsPrepared(event'[a], a)
  BY <1>3 DEF IsPrepared, NewEvent
<1>5. \/ /\ pc'[a] = "write_prepared" /\ p \notin exists /\ lines[p] = <<>>
         /\ exists' = exists \cup {p}
      \/ pc'[a] = "returned" /\ (exists' = exists \/ exists' = exists \cup {p})
  BY <1>1 DEF JInv, TypeOK, Create, Goto
<1>6. TypeOK'
  <2>1. event' \in [Appliers -> Events \cup {NoEvent}]
    BY <1>3 DEF JInv, TypeOK, Create
  <2>2. pc' \in [Appliers -> Calls]
    BY DEF JInv, TypeOK, Create, Goto, Calls
  <2>3. exists' \subseteq Paths
    BY <1>1, <1>5 DEF JInv, TypeOK
  <2>4. QED
    BY <1>2, <2>1, <2>2, <2>3 DEF JInv, TypeOK
<1>7. OneOwner'
  <2>1. ASSUME NEW b \in Appliers, b /= a, Started(b), PathOf[b] = p
        PROVE  p \in exists
    BY <2>1 DEF JInv, ContentInv
  <2>2. \A b \in Appliers : b /= a => Started(b)' = Started(b)
    BY <1>2 DEF Started
  <2>3. Started(a)' => p \notin exists
    BY <1>5 DEF Started
  <2>4. QED
    BY <2>1, <2>2, <2>3 DEF JInv, OneOwner
<1>8. ContentInv'
  <2> SUFFICES ASSUME NEW b \in Appliers
               PROVE  LET g == lines'[PathOf[b]] IN
      /\ Started(b)' => PathOf[b] \in exists' /\ event'[b] \in Events
      /\ pc'[b] = "write_prepared" => g = <<>> /\ IsPrepared(event'[b], b)
      /\ pc'[b] = "sync_prepared" =>
           Len(g) = 1 /\ g[1] = event'[b] /\ IsPrepared(event'[b], b)
      /\ pc'[b] \in {"finalize", "write_final"} =>
           Len(g) = 1 /\ IsPrepared(g[1], b)
      /\ pc'[b] \in {"write_final", "sync_final"} => IsFinal(event'[b], b)
      /\ pc'[b] = "sync_final" =>
           Len(g) = 2 /\ IsPrepared(g[1], b) /\ g[2] = event'[b]
    BY ZenonT(30) DEF ContentInv, IsPrepared, IsFinal
  <2>1. CASE b = a
    BY <1>2, <1>3, <1>4, <1>5, <2>1 DEF Started
  <2>2. CASE b /= a
    <3>1. Started(b)' = Started(b)
      BY <1>2, <2>2 DEF Started
    <3>2. QED
      BY <1>2, <2>2, <3>1 DEF JInv, ContentInv
  <2>3. QED
    BY <2>1, <2>2
<1>9. ToldInv'
  <2> SUFFICES ASSUME EntryDurable, NEW b \in Appliers
               PROVE  LET q == PathOf[b] g == lines'[q] IN
      /\ pc'[b] = "create" => told'[b] = "none"
      /\ told'[b] /= "none" =>
           q \in exists' /\ synced'[q] >= 1 /\ IsPrepared(g[1], b)
      /\ told'[b] \in Finals =>
           synced'[q] = 2 /\ IsFinal(g[2], b) /\ g[2].state = told'[b]
    BY ZenonT(30) DEF ToldInv, IsPrepared, IsFinal
  <2>1. CASE b = a
    BY <1>1, <1>2, <2>1, JournalAssumption
  <2>2. CASE b /= a
    BY <1>2, <2>2 DEF JInv, ToldInv
  <2>3. QED
    BY <2>1, <2>2
<1>10. FinalLast'
  BY <1>2 DEF JInv, FinalLast
<1>11. QED
  BY <1>6, <1>7, <1>8, <1>9, <1>10 DEF JInv

LEMMA FinalizeKeepsJInv ==
  ASSUME JInv, NEW a \in Appliers, Finalize(a) PROVE JInv'
<1>1. PICK s \in Finals : event' = [event EXCEPT ![a] = NewEvent(a, s)]
  BY DEF Finalize
<1>2. NewEvent(a, s) \in Events /\ event'[a] = NewEvent(a, s)
  BY <1>1, NewEventType DEF JInv, TypeOK
<1>3. IsFinal(event'[a], a)
  BY <1>2 DEF IsFinal, NewEvent
<1>4. /\ pc[a] = "finalize" /\ pc'[a] = "write_final"
      /\ \A b \in Appliers : b /= a => pc'[b] = pc[b] /\ event'[b] = event[b]
      /\ UNCHANGED <<now, told, exists, lines, synced>>
  BY DEF JInv, TypeOK, Finalize, Goto
<1>5. \A b \in Appliers : Started(b)' = Started(b)
  BY <1>4 DEF Started
<1>6. TypeOK'
  <2>1. pc' \in [Appliers -> Calls] /\ event' \in [Appliers -> Events \cup {NoEvent}]
    BY <1>1, <1>2 DEF JInv, TypeOK, Finalize, Goto, Calls
  <2>2. QED
    BY <1>4, <2>1 DEF JInv, TypeOK
<1>7. OneOwner'
  BY <1>5 DEF JInv, OneOwner
<1>8. ContentInv'
  <2> SUFFICES ASSUME NEW b \in Appliers
               PROVE  LET g == lines'[PathOf[b]] IN
      /\ Started(b)' => PathOf[b] \in exists' /\ event'[b] \in Events
      /\ pc'[b] = "write_prepared" => g = <<>> /\ IsPrepared(event'[b], b)
      /\ pc'[b] = "sync_prepared" =>
           Len(g) = 1 /\ g[1] = event'[b] /\ IsPrepared(event'[b], b)
      /\ pc'[b] \in {"finalize", "write_final"} =>
           Len(g) = 1 /\ IsPrepared(g[1], b)
      /\ pc'[b] \in {"write_final", "sync_final"} => IsFinal(event'[b], b)
      /\ pc'[b] = "sync_final" =>
           Len(g) = 2 /\ IsPrepared(g[1], b) /\ g[2] = event'[b]
    BY ZenonT(30) DEF ContentInv, IsPrepared, IsFinal
  <2>1. CASE b = a
    <3>1. Started(a)
      BY <1>4 DEF Started
    <3>2. /\ PathOf[a] \in exists /\ Len(lines[PathOf[a]]) = 1
          /\ IsPrepared(lines[PathOf[a]][1], a)
      BY <1>4, <3>1 DEF JInv, ContentInv
    <3>3. QED
      BY <1>2, <1>3, <1>4, <2>1, <3>2
  <2>2. CASE b /= a
    BY <1>4, <1>5, <2>2 DEF JInv, ContentInv
  <2>3. QED
    BY <2>1, <2>2
<1>9. ToldInv' /\ FinalLast'
  <2>1. \A b \in Appliers : pc'[b] = "create" => pc[b] = "create"
    BY <1>4
  <2>2. QED
    BY <1>4, <2>1 DEF JInv, ToldInv, FinalLast
<1>10. QED
  BY <1>6, <1>7, <1>8, <1>9 DEF JInv

LEMMA SyncKeepsJInv ==
  ASSUME JInv, NEW a \in Appliers, Sync(a) PROVE JInv'
<1> DEFINE p == PathOf[a]
           f == lines[p]
<1>1. p \in Paths /\ f \in Seq(Events) /\ Len(f) \in Nat /\ synced[p] \in Nat
      /\ synced[p] <= Len(f)
  <2>1. p \in Paths
    BY JournalAssumption
  <2>2. QED
    BY <2>1, LenProperties DEF JInv, TypeOK
<1>2. /\ UNCHANGED <<now, event, exists, lines>>
      /\ \A b \in Appliers : b /= a => pc'[b] = pc[b] /\ told'[b] = told[b]
      /\ Started(a) /\ pc'[a] \in {"finalize", "returned"}
  BY DEF JInv, TypeOK, Sync, Goto, Syncing, Started
<1>3. \/ /\ pc[a] = "sync_prepared" /\ Len(f) = 1 /\ f[1] = event[a]
         /\ IsPrepared(f[1], a)
      \/ /\ pc[a] = "sync_final" /\ Len(f) = 2 /\ f[2] = event[a]
         /\ IsPrepared(f[1], a) /\ IsFinal(f[2], a)
  BY DEF JInv, ContentInv, Sync, Syncing
<1>4. \/ /\ synced' = [synced EXCEPT ![p] = Len(f)]
         /\ told' = [told EXCEPT ![a] = event[a].state]
      \/ pc'[a] = "returned" /\ UNCHANGED <<synced, told>>
  BY DEF JInv, TypeOK, Sync, Goto
<1>5. pc'[a] = "finalize" => pc[a] = "sync_prepared"
  BY DEF JInv, TypeOK, Sync, Syncing, Goto
<1>6. /\ \A q \in Paths : q /= p => synced'[q] = synced[q]
      /\ synced'[p] \in {synced[p], Len(f)}
      /\ \/ told'[a] = told[a]
         \/ told'[a] = event[a].state /\ synced'[p] = Len(f)
  <2>1. CASE /\ synced' = [synced EXCEPT ![p] = Len(f)]
             /\ told' = [told EXCEPT ![a] = event[a].state]
    <3>1. synced'[p] = Len(f) /\ \A q \in Paths : q /= p => synced'[q] = synced[q]
      BY <1>1, <2>1 DEF JInv, TypeOK
    <3>2. told'[a] = event[a].state
      BY <2>1 DEF JInv, TypeOK
    <3>3. QED
      BY <3>1, <3>2
  <2>2. CASE UNCHANGED <<synced, told>>
    BY <2>2
  <2>3. QED
    BY <1>4, <2>1, <2>2
<1>7. \A b \in Appliers : Started(b)' => Started(b)
  BY <1>2 DEF Started
<1>8. event[a].state \in {"prepared"} \cup Finals
  BY <1>3 DEF IsPrepared, IsFinal
<1>9. TypeOK'
  <2>1. pc' \in [Appliers -> Calls] /\ told' \in [Appliers -> {"none", "prepared"} \cup Finals]
    BY <1>8 DEF JInv, TypeOK, Sync, Goto, Calls
  <2>2. synced' \in [Paths -> Nat]
    BY <1>1, <1>4 DEF JInv, TypeOK
  <2>3. ASSUME NEW q \in Paths PROVE synced'[q] <= Len(lines[q])
    <3>1. CASE q = p
      BY <1>1, <1>6, <3>1
    <3>2. CASE q /= p
      BY <1>6, <3>2 DEF JInv, TypeOK
    <3>3. QED
      BY <3>1, <3>2
  <2>4. QED
    BY <1>2, <2>1, <2>2, <2>3 DEF JInv, TypeOK
<1>10. OneOwner'
  BY <1>7 DEF JInv, OneOwner
<1>11. ContentInv'
  <2> SUFFICES ASSUME NEW b \in Appliers
               PROVE  LET g == lines'[PathOf[b]] IN
      /\ Started(b)' => PathOf[b] \in exists' /\ event'[b] \in Events
      /\ pc'[b] = "write_prepared" => g = <<>> /\ IsPrepared(event'[b], b)
      /\ pc'[b] = "sync_prepared" =>
           Len(g) = 1 /\ g[1] = event'[b] /\ IsPrepared(event'[b], b)
      /\ pc'[b] \in {"finalize", "write_final"} =>
           Len(g) = 1 /\ IsPrepared(g[1], b)
      /\ pc'[b] \in {"write_final", "sync_final"} => IsFinal(event'[b], b)
      /\ pc'[b] = "sync_final" =>
           Len(g) = 2 /\ IsPrepared(g[1], b) /\ g[2] = event'[b]
    BY ZenonT(30) DEF ContentInv, IsPrepared, IsFinal
  <2>1. CASE b = a
    <3>1. PathOf[a] \in exists /\ event[a] \in Events
      BY <1>2 DEF JInv, ContentInv
    <3>2. QED
      BY <1>2, <1>3, <1>5, <2>1, <3>1
  <2>2. CASE b /= a
    <3>1. Started(b)' = Started(b) /\ pc'[b] = pc[b]
      BY <1>2, <2>2 DEF Started
    <3>2. QED
      BY <1>2, <3>1 DEF JInv, ContentInv
  <2>3. QED
    BY <2>1, <2>2
<1>12. ToldInv'
  <2> SUFFICES ASSUME EntryDurable, NEW b \in Appliers
               PROVE  LET q == PathOf[b] g == lines'[q] IN
      /\ pc'[b] = "create" => told'[b] = "none"
      /\ told'[b] /= "none" =>
           q \in exists' /\ synced'[q] >= 1 /\ IsPrepared(g[1], b)
      /\ told'[b] \in Finals =>
           synced'[q] = 2 /\ IsFinal(g[2], b) /\ g[2].state = told'[b]
    BY ZenonT(30) DEF ToldInv, IsPrepared, IsFinal
  <2>1. ASSUME told[b] /= "none"
        PROVE  /\ PathOf[b] \in exists /\ synced'[PathOf[b]] >= 1
               /\ IsPrepared(lines[PathOf[b]][1], b)
    <3>1. /\ PathOf[b] \in exists /\ synced[PathOf[b]] >= 1
          /\ IsPrepared(lines[PathOf[b]][1], b)
      BY <2>1 DEF JInv, ToldInv
    <3>2. CASE PathOf[b] = p
      <4>1. synced[p] >= 1 /\ Len(f) >= 1
        BY <1>1, <3>1, <3>2
      <4>2. QED
        BY <1>6, <3>1, <3>2, <4>1
    <3>3. CASE PathOf[b] /= p
      BY <1>6, <3>1, <3>3, JournalAssumption
    <3>4. QED
      BY <3>2, <3>3
  <2>2. ASSUME told[b] \in Finals
        PROVE  /\ synced'[PathOf[b]] = 2 /\ IsFinal(lines[PathOf[b]][2], b)
               /\ lines[PathOf[b]][2].state = told[b]
    <3>1. /\ synced[PathOf[b]] = 2 /\ IsFinal(lines[PathOf[b]][2], b)
          /\ lines[PathOf[b]][2].state = told[b]
      BY <2>2 DEF JInv, ToldInv
    <3>2. CASE PathOf[b] = p
      <4>1. Len(f) = 2
        <5>1. CASE Len(f) = 1
          <6>1. synced[p] = 2 /\ synced[p] <= 1
            BY <1>1, <3>1, <3>2, <5>1
          <6>2. QED
            BY <6>1
        <5>2. QED
          BY <1>3, <5>1
      <4>2. QED
        BY <1>6, <3>1, <3>2, <4>1
    <3>3. CASE PathOf[b] /= p
      BY <1>6, <3>1, <3>3, JournalAssumption
    <3>4. QED
      BY <3>1, <3>2, <3>3
  <2>3. pc'[b] = "create" => told'[b] = "none"
    BY <1>2 DEF JInv, ToldInv
  <2>4. CASE told'[b] = told[b]
    BY <1>2, <2>1, <2>2, <2>3, <2>4
  <2>5. CASE b = a /\ told'[a] = event[a].state /\ synced'[p] = Len(f)
    <3>1. PathOf[a] \in exists
      BY <1>2 DEF JInv, ContentInv
    <3>2. CASE pc[a] = "sync_prepared"
      <4>1. synced'[p] = 1 /\ IsPrepared(f[1], a) /\ told'[a] = "prepared"
        BY <1>3, <2>5, <3>2 DEF IsPrepared
      <4>2. "prepared" \notin Finals
        BY JournalAssumption
      <4>3. QED
        BY <1>2, <2>3, <2>5, <3>1, <4>1, <4>2
    <3>3. CASE pc[a] = "sync_final"
      <4>1. /\ synced'[p] = 2 /\ IsPrepared(f[1], a) /\ IsFinal(f[2], a)
            /\ told'[a] = f[2].state
        BY <1>3, <2>5, <3>3
      <4>2. QED
        BY <1>2, <2>3, <2>5, <3>1, <4>1
    <3>4. QED
      BY <1>3, <3>2, <3>3
  <2>6. QED
    BY <1>2, <1>6, <2>4, <2>5
<1>13. FinalLast'
  BY <1>2 DEF JInv, FinalLast
<1>14. QED
  BY <1>9, <1>10, <1>11, <1>12, <1>13 DEF JInv

(* A process killed between its writes leaves the file as it is.           *)
LEMMA KillKeepsJInv ==
  ASSUME JInv, NEW a \in Appliers, Kill(a), ~Writing(a) PROVE JInv'
<1>1. /\ UNCHANGED <<now, event, told, exists, lines, synced>>
      /\ pc'[a] = "dead" /\ \A b \in Appliers : b /= a => pc'[b] = pc[b]
      /\ pc' \in [Appliers -> Calls]
  BY DEF JInv, TypeOK, Kill, Goto, Calls
<1>2. \A b \in Appliers : pc'[b] = "dead" \/ pc'[b] = pc[b]
  BY <1>1
<1>3. \A b \in Appliers : Started(b)' => Started(b)
  BY <1>2 DEF Started
<1>4. TypeOK'
  BY <1>1 DEF JInv, TypeOK
<1>5. OneOwner' /\ ContentInv'
  BY <1>1, <1>2, <1>3 DEF JInv, OneOwner, ContentInv, IsPrepared, IsFinal
<1>6. ToldInv' /\ FinalLast'
  BY <1>1, <1>2 DEF JInv, ToldInv, FinalLast, IsPrepared, IsFinal
<1>7. QED
  BY <1>4, <1>5, <1>6 DEF JInv

(* What is left of each file after a host crash: all that was synced,      *)
(* where a sync has put the directory entry on disk too.                   *)
LEMMA CrashLeaves ==
  ASSUME JInv, HostCrash, NEW p \in Paths
  PROVE  /\ lines'[p] \in Seq(Events) /\ synced'[p] = Len(lines'[p])
         /\ Len(lines'[p]) <= Len(lines[p])
         /\ p \notin exists' => lines'[p] = <<>>
         /\ EntryDurable /\ p \in exists /\ synced[p] >= 1 =>
              p \in exists' /\ Len(lines'[p]) >= synced[p]
         /\ \A i \in 1..Len(lines'[p]) :
              \/ lines'[p][i] = lines[p][i]
              \/ /\ lines[p][i] \in Events /\ i > synced[p]
                 /\ lines'[p][i] = Torn(lines[p][i])
<1>1. synced'[p] = Len(lines'[p])
  BY DEF HostCrash
<1>2. Len(lines[p]) \in Nat /\ synced[p] \in Nat
  BY LenProperties DEF JInv, TypeOK
<1>3. EntryDurable /\ p \in exists /\ synced[p] >= 1 => p \in exists'
  BY <1>2 DEF HostCrash, SureToStay
<1>4. CASE p \in exists'
  <2>1. lines'[p] \in Survivors(p)
    BY <1>4 DEF HostCrash
  <2>2. /\ lines'[p] \in Seq(Events)
        /\ Len(lines'[p]) \in synced[p]..Len(lines[p])
        /\ \A i \in 1..Len(lines'[p]) : lines'[p][i] = lines[p][i] \/
             (i > synced[p] /\ lines[p][i] \in Events
               /\ lines'[p][i] = Torn(lines[p][i]))
    BY <2>1, SurvivorLines DEF JInv
  <2>3. QED
    BY <1>1, <1>2, <1>3, <1>4, <2>2
<1>5. CASE p \notin exists'
  <2>1. lines'[p] = <<>>
    BY <1>5 DEF HostCrash
  <2>2. lines'[p] \in Seq(Events) /\ Len(lines'[p]) = 0
    BY <2>1, EmptySeq
  <2>3. Len(lines'[p]) <= Len(lines[p])
    BY <1>2, <2>2
  <2>4. ~(EntryDurable /\ p \in exists /\ synced[p] >= 1)
    BY <1>3, <1>5
  <2>5. QED
    BY <1>1, <2>1, <2>2, <2>3, <2>4
<1>6. QED
  BY <1>4, <1>5

LEMMA HostCrashKeepsJInv ==
  ASSUME JInv, HostCrash PROVE JInv'
<1>1. /\ UNCHANGED <<now, event, told>> /\ exists' \subseteq exists
      /\ \A b \in Appliers : pc'[b] = IF Started(b) THEN "dead" ELSE pc[b]
      /\ pc' \in [Appliers -> Calls]
  BY DEF JInv, TypeOK, HostCrash, Calls
<1>2. \A b \in Appliers : ~Started(b)' /\ (pc'[b] = "create" => pc[b] = "create")
  BY <1>1 DEF Started
<1>3. TypeOK'
  <2>1. /\ \A p \in Paths : lines'[p] \in Seq(Events)
        /\ lines' \in [Paths -> Seq(Events)]
    <3>1. \A p \in Paths : lines'[p] \in Seq(Events)
      BY CrashLeaves
    <3>2. lines' = [p \in Paths |-> lines'[p]]
      BY DEF HostCrash
    <3>3. QED
      BY <3>1, <3>2
  <2>2. synced' = [p \in Paths |-> Len(lines'[p])]
    BY DEF HostCrash
  <2>3. \A p \in Paths : Len(lines'[p]) \in Nat
    BY <2>1, LenProperties
  <2>4. ASSUME NEW p \in Paths
        PROVE  /\ Len(lines'[p]) <= 2 /\ synced'[p] <= Len(lines'[p])
               /\ p \notin exists' => lines'[p] = <<>>
    <3>1. /\ Len(lines'[p]) <= Len(lines[p]) /\ synced'[p] = Len(lines'[p])
          /\ p \notin exists' => lines'[p] = <<>>
      BY CrashLeaves
    <3>2. Len(lines[p]) <= 2 /\ Len(lines[p]) \in Nat
      BY LenProperties DEF JInv, TypeOK
    <3>3. Len(lines'[p]) \in Nat
      BY <2>3
    <3>4. QED
      BY <3>1, <3>2, <3>3
  <2>5. QED
    BY <1>1, <2>1, <2>2, <2>3, <2>4 DEF JInv, TypeOK
<1>4. OneOwner'
  BY <1>2 DEF OneOwner
<1>5. ContentInv'
  BY <1>2 DEF ContentInv, Started
<1>6. ToldInv'
  <2> SUFFICES ASSUME EntryDurable, NEW b \in Appliers
               PROVE  LET q == PathOf[b] g == lines'[q] IN
      /\ pc'[b] = "create" => told'[b] = "none"
      /\ told'[b] /= "none" =>
           q \in exists' /\ synced'[q] >= 1 /\ IsPrepared(g[1], b)
      /\ told'[b] \in Finals =>
           synced'[q] = 2 /\ IsFinal(g[2], b) /\ g[2].state = told'[b]
    BY ZenonT(30) DEF ToldInv, IsPrepared, IsFinal
  <2> DEFINE q == PathOf[b]
  <2>1. /\ q \in Paths /\ Len(lines'[q]) \in Nat /\ Len(lines[q]) \in Nat
        /\ synced[q] \in Nat /\ Len(lines[q]) <= 2
    <3>1. q \in Paths
      BY JournalAssumption
    <3>2. lines'[q] \in Seq(Events)
      BY <3>1, CrashLeaves
    <3>3. QED
      BY <3>1, <3>2, LenProperties DEF JInv, TypeOK
  <2>2. pc'[b] = "create" => told'[b] = "none"
    BY <1>1, <1>2 DEF JInv, ToldInv
  <2>3. ASSUME told[b] /= "none"
        PROVE  q \in exists' /\ synced'[q] >= 1 /\ IsPrepared(lines'[q][1], b)
    <3>1. q \in exists /\ synced[q] >= 1 /\ IsPrepared(lines[q][1], b)
      BY <2>3 DEF JInv, ToldInv
    <3>2. /\ q \in exists' /\ Len(lines'[q]) >= synced[q]
          /\ synced'[q] = Len(lines'[q])
      BY <2>1, <3>1, CrashLeaves
    <3>3. 1 \in 1..Len(lines'[q]) /\ ~(1 > synced[q])
      BY <2>1, <3>1, <3>2
    <3>4. lines'[q][1] = lines[q][1]
      BY <2>1, <3>3, CrashLeaves
    <3>5. QED
      BY <2>1, <3>1, <3>2, <3>3, <3>4
  <2>4. ASSUME told[b] \in Finals
        PROVE  /\ synced'[q] = 2 /\ IsFinal(lines'[q][2], b)
               /\ lines'[q][2].state = told[b]
    <3>1. /\ synced[q] = 2 /\ IsFinal(lines[q][2], b)
          /\ lines[q][2].state = told[b]
      BY <2>4 DEF JInv, ToldInv
    <3>2. q \in exists
      BY <2>4, JournalAssumption DEF JInv, ToldInv
    <3>3. /\ Len(lines'[q]) >= 2 /\ Len(lines'[q]) <= Len(lines[q])
          /\ synced'[q] = Len(lines'[q])
      BY <2>1, <3>1, <3>2, CrashLeaves
    <3>4. Len(lines'[q]) = 2
      <4>1. \A m, n \in Nat : m >= 2 /\ m <= n /\ n <= 2 => m = 2
        OBVIOUS
      <4>2. QED
        BY <2>1, <3>3, <4>1
    <3>5. lines'[q][2] = lines[q][2]
      <4>1. 2 \in 1..Len(lines'[q]) /\ ~(2 > synced[q])
        BY <3>1, <3>4
      <4>2. QED
        BY <2>1, <4>1, CrashLeaves
    <3>6. QED
      BY <3>1, <3>3, <3>4, <3>5
  <2>5. QED
    BY <1>1, <2>2, <2>3, <2>4
<1>7. FinalLast'
  <2> SUFFICES ASSUME NEW p \in Paths, Len(lines'[p]) = 2
               PROVE  lines'[p][2].state \in Finals
    BY DEF FinalLast
  <2>1. Len(lines[p]) <= 2 /\ Len(lines[p]) \in Nat /\ 2 <= Len(lines[p])
    BY LenProperties, CrashLeaves DEF JInv, TypeOK
  <2>2. lines[p][2].state \in Finals
    <3>1. \A n \in Nat : n <= 2 /\ 2 <= n => n = 2
      OBVIOUS
    <3>2. Len(lines[p]) = 2
      BY <2>1, <3>1
    <3>3. QED
      BY <3>2 DEF JInv, FinalLast
  <2>3. 2 \in 1..Len(lines'[p])
    OBVIOUS
  <2>4. \/ lines'[p][2] = lines[p][2]
        \/ lines[p][2] \in Events /\ lines'[p][2] = Torn(lines[p][2])
    BY <2>3, CrashLeaves
  <2>5. QED
    BY <2>2, <2>4, TornType
<1>8. QED
  BY <1>3, <1>4, <1>5, <1>6, <1>7 DEF JInv

LEMMA NextJInv == JInv /\ [Next]_vars => JInv'
<1> SUFFICES ASSUME JInv, [Next]_vars PROVE JInv'
  OBVIOUS
<1>1. ASSUME NEW a \in Appliers, Create(a) PROVE JInv'
  BY <1>1, CreateKeepsJInv
<1>2. ASSUME NEW a \in Appliers, Write(a) PROVE JInv'
  BY <1>2, WriteIsWrites, WritesKeepJInv
<1>3. ASSUME NEW a \in Appliers, Sync(a) PROVE JInv'
  BY <1>3, SyncKeepsJInv
<1>4. ASSUME NEW a \in Appliers, Finalize(a) PROVE JInv'
  BY <1>4, FinalizeKeepsJInv
<1>5. ASSUME NEW a \in Appliers, Kill(a) PROVE JInv'
  BY <1>5, KillIsWrites, WritesKeepJInv, KillKeepsJInv
<1>6. CASE Tick
  BY <1>6 DEF Tick, JInv, TypeOK, OneOwner, Started, ContentInv, IsPrepared,
              IsFinal, ToldInv, FinalLast
<1>7. CASE HostCrash
  BY <1>7, HostCrashKeepsJInv
<1>8. CASE UNCHANGED vars
  BY <1>8 DEF vars, JInv, TypeOK, OneOwner, Started, ContentInv, IsPrepared,
              IsFinal, ToldInv, FinalLast
<1>9. QED
  BY <1>1, <1>2, <1>3, <1>4, <1>5, <1>6, <1>7, <1>8 DEF Next

-----------------------------------------------------------------------------
(* What the receipts say, step by step.                                    *)

LEMMA ReportType ==
  ASSUME JInv, NEW a \in Appliers
  PROVE  Report(a) \in {"none", "prepared"} \cup Finals
<1>1. CASE Mine(a, 1) /\ Mine(a, 2)
  <2>1. PathOf[a] \in Paths
    BY JournalAssumption
  <2>2. 2 <= Len(lines[PathOf[a]])
    BY <1>1 DEF Mine
  <2>3. Len(lines[PathOf[a]]) = 2
    <3>1. \A n \in Nat : n <= 2 /\ 2 <= n => n = 2
      OBVIOUS
    <3>2. Len(lines[PathOf[a]]) \in Nat /\ Len(lines[PathOf[a]]) <= 2
      BY <2>1, LenProperties DEF JInv, TypeOK
    <3>3. QED
      BY <2>2, <3>1, <3>2
  <2>4. QED
    BY <1>1, <2>1, <2>3 DEF JInv, FinalLast, Report
<1>2. CASE ~Mine(a, 1) \/ ~Mine(a, 2)
  BY <1>2 DEF Report
<1>3. QED
  BY <1>1, <1>2

(* A write is seen in the receipt of its process alone, and moves that     *)
(* one on.                                                                 *)
LEMMA ReportsAfterWrites ==
  ASSUME JInv, NEW a \in Appliers, NEW left \in Leftovers(a), NEW l,
         Writes(a, left, l)
  PROVE  /\ \A b \in Appliers : b /= a => Report(b)' = Report(b)
         /\ \/ Report(a)' = Report(a)
            \/ Report(a) = "none" /\ Report(a)' = "prepared"
            \/ Report(a) = "prepared" /\ Report(a)' \in Finals
<1> DEFINE p == PathOf[a]
           f == lines[p]
<1>1. /\ lines'[p] = left /\ \A q \in Paths : q /= p => lines'[q] = lines[q]
  BY WritesFrame
<1>2. Writing(a)
  BY DEF Writes
<1>3. /\ event[a] \in Events
      /\ \/ /\ Len(f) = 0 /\ IsPrepared(event[a], a)
            /\ \/ left = f
               \/ Len(left) = 1 /\ left[1] \in {event[a], Torn(event[a])}
         \/ /\ Len(f) = 1 /\ IsPrepared(f[1], a) /\ IsFinal(event[a], a)
            /\ \/ left = f
               \/ /\ Len(left) = 2 /\ left[1] = f[1]
                  /\ left[2] \in {event[a], Torn(event[a])}
  BY <1>2, WriterLines
<1>4. /\ Torn(event[a]).by = a /\ event[a].by = a /\ ~Torn(event[a]).whole
      /\ event[a].whole
  BY <1>3, TornType DEF IsPrepared, IsFinal
<1>5. CASE left = f
  <2>1. \A b \in Appliers : lines'[PathOf[b]] = lines[PathOf[b]]
    BY <1>1, <1>5, JournalAssumption
  <2>2. QED
    BY <2>1 DEF Report, Mine
<1>6. CASE left /= f /\ Len(f) = 0
  <2>1. Len(left) = 1 /\ left[1] \in {event[a], Torn(event[a])}
    BY <1>3, <1>6
  <2>2. left[1].by = a
    BY <1>4, <2>1
  <2>3. ASSUME NEW b \in Appliers, PathOf[b] = p
        PROVE  ~Mine(b, 1) /\ ~Mine(b, 2)'
    BY <1>1, <1>6, <2>1, <2>3 DEF Mine
  <2>4. ASSUME NEW b \in Appliers, b /= a PROVE Report(b)' = Report(b)
    <3>1. CASE PathOf[b] = p
      <4>1. ~Mine(b, 1)'
        BY <1>1, <2>2, <2>4, <3>1 DEF Mine
      <4>2. QED
        BY <2>3, <3>1, <4>1 DEF Report
    <3>2. CASE PathOf[b] /= p
      <4>1. lines'[PathOf[b]] = lines[PathOf[b]]
        BY <1>1, <3>2, JournalAssumption
      <4>2. QED
        BY <4>1 DEF Report, Mine
    <3>3. QED
      BY <3>1, <3>2
  <2>5. Report(a) = "none" /\ Report(a)' \in {"none", "prepared"}
    BY <2>3 DEF Report
  <2>6. QED
    BY <2>4, <2>5
<1>7. CASE left /= f /\ Len(f) = 1
  <2>1. /\ Len(left) = 2 /\ left[1] = f[1] /\ IsPrepared(f[1], a)
        /\ left[2] \in {event[a], Torn(event[a])} /\ IsFinal(event[a], a)
    BY <1>3, <1>7
  <2>2. ASSUME NEW b \in Appliers, b /= a PROVE Report(b)' = Report(b)
    <3>1. CASE PathOf[b] = p
      <4>1. f[1].by = a /\ left[1].by = a
        BY <2>1 DEF IsPrepared
      <4>2. ~Mine(b, 1) /\ ~Mine(b, 1)'
        BY <1>1, <2>2, <3>1, <4>1 DEF Mine
      <4>3. QED
        BY <4>2 DEF Report
    <3>2. CASE PathOf[b] /= p
      <4>1. lines'[PathOf[b]] = lines[PathOf[b]]
        BY <1>1, <3>2, JournalAssumption
      <4>2. QED
        BY <4>1 DEF Report, Mine
    <3>3. QED
      BY <3>1, <3>2
  <2>3. Mine(a, 1) /\ Mine(a, 1)' /\ ~Mine(a, 2)
    BY <1>1, <1>7, <2>1 DEF Mine, IsPrepared
  <2>4. Report(a) = "prepared"
    BY <2>3 DEF Report
  <2>5. CASE left[2] = event[a]
    <3>1. Mine(a, 2)' /\ lines'[p][2].state \in Finals
      BY <1>1, <2>1, <2>5 DEF Mine, IsFinal
    <3>2. QED
      BY <2>2, <2>3, <2>4, <3>1 DEF Report
  <2>6. CASE left[2] = Torn(event[a])
    <3>1. ~Mine(a, 2)'
      BY <1>1, <1>4, <2>6 DEF Mine
    <3>2. QED
      BY <2>2, <2>3, <2>4, <3>1 DEF Report
  <2>7. QED
    BY <2>1, <2>5, <2>6
<1>8. QED
  BY <1>3, <1>5, <1>6, <1>7

LEMMA ReportsAfterSync ==
  ASSUME JInv, NEW a \in Appliers, Sync(a)
  PROVE  /\ \A b \in Appliers : Report(b)' = Report(b)
         /\ \/ told' = told
            \/ Report(a) /= "none" /\ told' = [told EXCEPT ![a] = Report(a)]
<1> DEFINE f == lines[PathOf[a]]
<1>1. lines' = lines
  BY DEF Sync
<1>2. \A b \in Appliers : Report(b)' = Report(b)
  BY <1>1 DEF Report, Mine
<1>3. told' = told \/ told' = [told EXCEPT ![a] = event[a].state]
  BY DEF Sync
<1>4. CASE pc[a] = "sync_prepared"
  <2>1. Len(f) = 1 /\ f[1] = event[a] /\ IsPrepared(event[a], a)
    BY <1>4 DEF JInv, ContentInv
  <2>2. Mine(a, 1) /\ ~Mine(a, 2) /\ event[a].state = "prepared"
    BY <2>1 DEF Mine, IsPrepared
  <2>3. QED
    BY <1>2, <1>3, <2>2 DEF Report
<1>5. CASE pc[a] = "sync_final"
  <2>1. /\ Len(f) = 2 /\ f[2] = event[a] /\ IsPrepared(f[1], a)
        /\ IsFinal(event[a], a)
    BY <1>5 DEF JInv, ContentInv
  <2>2. Mine(a, 1) /\ Mine(a, 2)
    BY <2>1 DEF Mine, IsPrepared, IsFinal
  <2>3. Report(a) = event[a].state /\ Report(a) \in Finals
    BY <2>1, <2>2 DEF Report, IsFinal
  <2>4. QED
    BY <1>2, <1>3, <2>3, JournalAssumption
<1>6. QED
  BY <1>4, <1>5 DEF Sync, Syncing

(* A host crash takes back what a receipt says only as far as ReceiptFile  *)
(* lets it, and never what was reported durable.                           *)
LEMMA ReportsAfterCrash ==
  ASSUME JInv, EntryDurable, HostCrash, NEW a \in Appliers
  PROVE  /\ Report(a)' \in {"none", "prepared"} \cup Finals
         /\ File!UpTo(Report(a)', Report(a))
         /\ File!UpTo(told[a], Report(a)')
<1> DEFINE p == PathOf[a]
           f == lines[p]
           g == lines'[p]
<1>1. /\ p \in Paths /\ Len(f) \in Nat /\ Len(f) <= 2
      /\ g \in Seq(Events) /\ Len(g) \in Nat /\ Len(g) <= Len(f)
  <2>1. p \in Paths
    BY JournalAssumption
  <2>2. g \in Seq(Events) /\ Len(g) <= Len(f)
    BY <2>1, CrashLeaves
  <2>3. QED
    BY <2>1, <2>2, LenProperties DEF JInv, TypeOK
<1>2. ASSUME NEW n \in {1, 2}, Mine(a, n)' PROVE g[n] = f[n] /\ Mine(a, n)
  <2>1. n \in 1..Len(g) /\ g[n].whole /\ g[n].by = a
    BY <1>1, <1>2 DEF Mine
  <2>2. \/ g[n] = f[n]
        \/ f[n] \in Events /\ g[n] = Torn(f[n])
    BY <1>1, <2>1, CrashLeaves
  <2>3. g[n] = f[n]
    BY <2>1, <2>2, TornType
  <2>4. n <= Len(f)
    BY <1>1, <2>1
  <2>5. QED
    BY <2>1, <2>3, <2>4 DEF Mine
<1>3. told[a] /= "none" => Mine(a, 1)'
  <2> SUFFICES ASSUME told[a] /= "none" PROVE Mine(a, 1)'
    OBVIOUS
  <2>1. p \in exists /\ synced[p] >= 1 /\ IsPrepared(f[1], a) /\ synced[p] \in Nat
    BY <1>1 DEF JInv, TypeOK, ToldInv
  <2>2. Len(g) >= synced[p]
    BY <1>1, <2>1, CrashLeaves
  <2>3. 1 \in 1..Len(g) /\ ~(1 > synced[p])
    BY <1>1, <2>1, <2>2
  <2>4. g[1] = f[1]
    BY <1>1, <2>3, CrashLeaves
  <2>5. QED
    BY <2>1, <2>3, <2>4 DEF Mine, IsPrepared
<1>4. told[a] \in Finals => Mine(a, 2)' /\ told[a] = f[2].state
  <2> SUFFICES ASSUME told[a] \in Finals
               PROVE  Mine(a, 2)' /\ told[a] = f[2].state
    OBVIOUS
  <2>1. p \in exists /\ synced[p] = 2 /\ IsFinal(f[2], a) /\ told[a] = f[2].state
    BY JournalAssumption DEF JInv, ToldInv
  <2>2. Len(g) >= 2
    BY <1>1, <2>1, CrashLeaves
  <2>3. 2 \in 1..Len(g) /\ ~(2 > synced[p])
    BY <1>1, <2>1, <2>2
  <2>4. g[2] = f[2]
    BY <1>1, <2>3, CrashLeaves
  <2>5. QED
    BY <2>1, <2>3, <2>4 DEF Mine, IsFinal
<1>5. told[a] \in {"none", "prepared"} \cup Finals /\ "none" \notin Finals
  BY JournalAssumption DEF JInv, TypeOK
<1>6. Report(a) \in {"none", "prepared"} \cup Finals
  BY ReportType
<1>7. Mine(a, 1) /\ Mine(a, 2) => Report(a) = f[2].state /\ f[2].state \in Finals
  <2>1. Mine(a, 2) => 2 <= Len(f)
    BY DEF Mine
  <2>2. \A n \in Nat : n <= 2 /\ 2 <= n => n = 2
    OBVIOUS
  <2>3. Mine(a, 2) => Len(f) = 2
    BY <1>1, <2>1, <2>2
  <2>4. QED
    BY <1>1, <2>3 DEF Report, JInv, FinalLast
<1>8. CASE ~Mine(a, 1)'
  <2>1. Report(a)' = "none" /\ told[a] = "none"
    BY <1>3, <1>8 DEF Report
  <2>2. QED
    BY <2>1 DEF File!UpTo
<1>9. CASE Mine(a, 1)' /\ ~Mine(a, 2)'
  <2>1. Report(a)' = "prepared" /\ told[a] \in {"none", "prepared"}
    BY <1>4, <1>5, <1>9 DEF Report
  <2>2. Mine(a, 1)
    BY <1>2, <1>9
  <2>3. Report(a) \in {"prepared"} \cup Finals
    BY <1>7, <2>2 DEF Report
  <2>4. QED
    BY <2>1, <2>3 DEF File!UpTo
<1>10. CASE Mine(a, 1)' /\ Mine(a, 2)'
  <2>1. Mine(a, 1) /\ Mine(a, 2) /\ g[2] = f[2]
    BY <1>2, <1>10
  <2>2. Report(a)' = f[2].state
    BY <1>10, <2>1 DEF Report
  <2>3. Report(a)' = Report(a) /\ Report(a) \in Finals
    BY <1>7, <2>1, <2>2
  <2>4. told[a] \in Finals => told[a] = Report(a)'
    BY <1>4, <2>2
  <2>5. QED
    BY <1>5, <2>3, <2>4 DEF File!UpTo
<1>11. QED
  BY <1>8, <1>9, <1>10

-----------------------------------------------------------------------------
(* The theorems. Those that assume EntryDurable hold where syncing a new   *)
(* file also brings its directory entry to disk.                           *)

(* The inductive invariant: create_new gives a receipt path to one process *)
(* at a time, at every call the file holds what the calls before it wrote, *)
(* and what create or finalize reported durable is synced and final.       *)
THEOREM InvariantIsKept == Spec => []JInv
<1>1. JInv /\ [Next]_vars => JInv'
  BY NextJInv
<1>2. QED
  BY InitJInv, <1>1, PTL DEF Spec

(* Whatever the processes write, wherever writes stop and whatever a host  *)
(* crash leaves, a receipt file holds at most two lines, each a prepared   *)
(* or terminal event of some process.                                      *)
THEOREM TypeCorrect == Spec => []TypeOK
<1>1. JInv => TypeOK
  BY DEF JInv
<1>2. QED
  BY <1>1, InvariantIsKept, PTL

(* Once create has returned Ok the receipt is headed by that apply's own   *)
(* prepared event, for ever.                                               *)
THEOREM PreparedIsKept == EntryDurable /\ Spec => []PreparedSurvives
<1> SUFFICES ASSUME EntryDurable PROVE Spec => []PreparedSurvives
  OBVIOUS
<1>1. JInv => PreparedSurvives
  <2> SUFFICES ASSUME JInv, NEW a \in Appliers, told[a] /= "none"
               PROVE  LET p == PathOf[a] IN
                      /\ p \in exists /\ Len(lines[p]) >= 1
                      /\ Prepared(lines[p]) /\ lines[p][1].by = a
    BY DEF PreparedSurvives
  <2> DEFINE p == PathOf[a]
  <2>1. /\ p \in Paths /\ synced[p] \in Nat /\ Len(lines[p]) \in Nat
        /\ synced[p] <= Len(lines[p])
    <3>1. p \in Paths
      BY JournalAssumption
    <3>2. QED
      BY <3>1, LenProperties DEF JInv, TypeOK
  <2>2. p \in exists /\ synced[p] >= 1 /\ IsPrepared(lines[p][1], a)
    BY DEF JInv, ToldInv
  <2>3. QED
    BY <2>1, <2>2 DEF Prepared, IsPrepared
<1>2. QED
  BY <1>1, InvariantIsKept, PTL

(* Once finalize has returned Ok the receipt holds that outcome for ever,  *)
(* and verify_receipt reports it unless the clock was set back.            *)
THEOREM OutcomeIsKept == EntryDurable /\ Spec => []OutcomeSurvives
<1> SUFFICES ASSUME EntryDurable PROVE Spec => []OutcomeSurvives
  OBVIOUS
<1>1. JInv => OutcomeSurvives
  <2> SUFFICES ASSUME JInv, NEW a \in Appliers, told[a] \in Finals
               PROVE  LET p == PathOf[a] f == lines[p] IN
                 /\ p \in exists /\ Len(f) = 2 /\ f[2].by = a
                 /\ f[2].state = told[a]
                 /\ Verified(p) = told[a] \/ Backdated(f)
    BY DEF OutcomeSurvives
  <2> DEFINE p == PathOf[a]
             f == lines[p]
  <2>1. /\ p \in exists /\ IsPrepared(f[1], a) /\ IsFinal(f[2], a)
        /\ synced[p] = 2 /\ f[2].state = told[a]
    BY JournalAssumption DEF JInv, ToldInv
  <2>2. f \in Seq(Events) /\ Len(f) = 2
    <3>1. \A n \in Nat : n <= 2 /\ 2 <= n => n = 2
      OBVIOUS
    <3>2. f \in Seq(Events) /\ Len(f) \in Nat /\ Len(f) <= 2 /\ 2 <= Len(f)
      BY <2>1, JournalAssumption, LenProperties DEF JInv, TypeOK
    <3>3. QED
      BY <3>1, <3>2
  <2>3. f[1].time \in Int /\ f[2].time \in Int
    <3>1. f[1] \in Events /\ f[2] \in Events
      BY <2>2, ElementOfSeq
    <3>2. QED
      BY <3>1, JournalAssumption DEF Events
  <2>4. CASE f[2].time >= f[1].time
    <3>1. Chained(f) /\ Prepared(f)
      BY <2>1, <2>4 DEF Chained, Prepared, IsPrepared, IsFinal
    <3>2. Verified(p) = f[2].state
      BY <2>1, <2>2, <3>1 DEF Verified
    <3>3. QED
      BY <2>1, <2>2, <3>2 DEF IsFinal
  <2>5. CASE ~(f[2].time >= f[1].time)
    BY <2>1, <2>2, <2>3, <2>5 DEF Backdated, IsFinal
  <2>6. QED
    BY <2>4, <2>5
<1>2. QED
  BY <1>1, InvariantIsKept, PTL

(* Moving one entry of the receipts is what the actions of ReceiptFile do. *)
LEMMA ReportsMove ==
  ASSUME NEW a \in Appliers, UNCHANGED told,
         \A b \in Appliers : b /= a => Report(b)' = Report(b),
         \/ Report(a)' = Report(a)
         \/ Report(a) = "none" /\ Report(a)' = "prepared"
         \/ Report(a) = "prepared" /\ Report(a)' \in Finals
  PROVE  [File!Next]_File!vars
<1> DEFINE rep == [b \in Appliers |-> Report(b)]
           new == [b \in Appliers |-> Report(b)']
<1>1. new = [rep EXCEPT ![a] = Report(a)']
  OBVIOUS
<1>2. rep[a] = Report(a)
  OBVIOUS
<1>3. CASE Report(a)' = Report(a)
  <2>1. new = rep
    BY <1>3
  <2>2. QED
    BY <2>1 DEF File!vars
<1>4. CASE Report(a) = "none" /\ Report(a)' = "prepared"
  <2>1. File!Prepare(a)
    BY <1>1, <1>2, <1>4 DEF File!Prepare
  <2>2. QED
    BY <2>1 DEF File!Next
<1>5. CASE Report(a) = "prepared" /\ Report(a)' \in Finals
  <2>1. File!Conclude(a)
    BY <1>1, <1>2, <1>5 DEF File!Conclude
  <2>2. QED
    BY <2>1 DEF File!Next
<1>6. QED
  BY <1>3, <1>4, <1>5

LEMMA ReportsStay ==
  ASSUME UNCHANGED <<told, lines>> PROVE [File!Next]_File!vars
<1>1. \A b \in Appliers : Report(b)' = Report(b)
  BY DEF Report, Mine
<1>2. [b \in Appliers |-> Report(b)'] = [b \in Appliers |-> Report(b)]
  BY <1>1
<1>3. QED
  BY <1>2 DEF File!vars

LEMMA NextIsReceiptFile ==
  ASSUME JInv, EntryDurable, [Next]_vars PROVE [File!Next]_File!vars
<1>1. ASSUME NEW a \in Appliers, Create(a) \/ Finalize(a)
      PROVE  [File!Next]_File!vars
  BY <1>1, ReportsStay DEF Create, Finalize
<1>2. ASSUME NEW a \in Appliers, NEW left \in Leftovers(a), NEW l,
             Writes(a, left, l)
      PROVE  [File!Next]_File!vars
  <2>1. told' = told
    BY <1>2 DEF Writes
  <2>2. QED
    BY <1>2, <2>1, ReportsAfterWrites, ReportsMove
<1>3. ASSUME NEW a \in Appliers, Write(a) PROVE [File!Next]_File!vars
  BY <1>2, <1>3, WriteIsWrites
<1>4. ASSUME NEW a \in Appliers, Kill(a) PROVE [File!Next]_File!vars
  <2>1. CASE Writing(a)
    BY <1>2, <1>4, <2>1, KillIsWrites
  <2>2. CASE ~Writing(a)
    BY <1>4, <2>2, ReportsStay DEF Kill
  <2>3. QED
    BY <2>1, <2>2
<1>5. ASSUME NEW a \in Appliers, Sync(a) PROVE [File!Next]_File!vars
  <2> DEFINE rep == [b \in Appliers |-> Report(b)]
  <2>1. /\ [b \in Appliers |-> Report(b)'] = rep
        /\ \/ told' = told
           \/ rep[a] /= "none" /\ told' = [told EXCEPT ![a] = rep[a]]
    BY <1>5, ReportsAfterSync
  <2>2. CASE told' = told
    BY <2>1, <2>2 DEF File!vars
  <2>3. CASE rep[a] /= "none" /\ told' = [told EXCEPT ![a] = rep[a]]
    <3>1. File!Assure(a)
      BY <2>1, <2>3 DEF File!Assure
    <3>2. QED
      BY <3>1 DEF File!Next
  <2>4. QED
    BY <2>1, <2>2, <2>3
<1>6. CASE HostCrash
  <2>1. \A a \in Appliers :
          /\ Report(a)' \in {"none", "prepared"} \cup Finals
          /\ File!UpTo(Report(a)', Report(a))
          /\ File!UpTo(told[a], Report(a)')
    BY <1>6, ReportsAfterCrash
  <2>2. told' = told
    BY <1>6 DEF HostCrash
  <2>3. File!Lose
    BY <2>1, <2>2 DEF File!Lose, File!States
  <2>4. QED
    BY <2>3 DEF File!Next
<1>7. CASE Tick
  BY <1>7, ReportsStay DEF Tick
<1>8. CASE UNCHANGED vars
  BY <1>8, ReportsStay DEF vars
<1>9. QED
  BY <1>1, <1>3, <1>4, <1>5, <1>6, <1>7, <1>8 DEF Next

(* The file implements the receipt: with every write, sync, kill, host     *)
(* crash and rival process, no receipt does what ReceiptFile does not      *)
(* allow.                                                                  *)
THEOREM ImplementsReceiptFile == EntryDurable /\ Spec => IsReceiptFile
<1> SUFFICES ASSUME EntryDurable PROVE Spec => IsReceiptFile
  OBVIOUS
<1>1. Init => File!Init
  <2> SUFFICES ASSUME Init PROVE File!Init
    OBVIOUS
  <2>1. \A a \in Appliers : Report(a) = "none"
    <3> SUFFICES ASSUME NEW a \in Appliers PROVE Report(a) = "none"
      OBVIOUS
    <3>1. lines[PathOf[a]] = <<>>
      BY JournalAssumption DEF Init
    <3>2. Len(lines[PathOf[a]]) = 0
      BY <3>1
    <3>3. ~Mine(a, 1)
      BY <3>2 DEF Mine
    <3>4. QED
      BY <3>3 DEF Report
  <2>2. QED
    BY <2>1 DEF Init, File!Init
<1>2. JInv /\ [Next]_vars => [File!Next]_File!vars
  BY NextIsReceiptFile
<1>3. QED
  BY <1>1, <1>2, InvariantIsKept, PTL DEF Spec, IsReceiptFile, File!Spec

(* What a write does to the answer of verify_receipt.                      *)
LEMMA WritesAnswer ==
  ASSUME JInv, NEW a \in Appliers, NEW left \in Leftovers(a), NEW l,
         Writes(a, left, l), NEW p \in Paths
  PROVE  /\ Verified(p) \in Finals => Verified(p)' = Verified(p)
         /\ Verified(p) = "prepared" =>
              \/ Verified(p)' \in {"prepared"} \cup Finals
              \/ /\ Verified(p)' = "invalid" /\ Len(lines'[p]) = 2
                 /\ ~lines'[p][2].whole \/ Backdated(lines'[p])
<1> DEFINE f == lines[p]
<1>1. exists' = exists /\ Writing(a)
  BY DEF Writes
<1>2. CASE lines'[p] = f
  BY <1>1, <1>2 DEF Verified, Prepared, Chained
<1>3. CASE lines'[p] /= f
  <2>1. p = PathOf[a] /\ lines'[p] = left /\ left /= f
    BY <1>3, WritesFrame
  <2>2. /\ event[a] \in Events /\ p \in exists
        /\ \/ Len(f) = 0
           \/ /\ Len(f) = 1 /\ IsPrepared(f[1], a) /\ IsFinal(event[a], a)
              /\ Len(left) = 2 /\ left[1] = f[1] /\ left \in Seq(Events)
              /\ left[2] \in {event[a], Torn(event[a])}
    BY <1>1, <2>1, WriterLines
  <2>3. CASE Len(f) = 0
    BY <2>2, <2>3, JournalAssumption DEF Verified
  <2>4. CASE Len(f) /= 0
    <3>1. /\ Len(f) = 1 /\ IsPrepared(f[1], a) /\ IsFinal(event[a], a)
          /\ Len(left) = 2 /\ left[1] = f[1]
          /\ left[2] \in {event[a], Torn(event[a])} /\ left \in Seq(Events)
      BY <2>2, <2>4
    <3>2. Verified(p) = "prepared"
      BY <2>2, <3>1 DEF Verified, Prepared, IsPrepared
    <3>3. Prepared(left)
      BY <3>1 DEF Prepared, IsPrepared
    <3>4. Verified(p)' = IF Chained(left) THEN left[2].state ELSE "invalid"
      BY <1>1, <2>1, <2>2, <3>1, <3>3 DEF Verified, Prepared, Chained
    <3>5. CASE Chained(left)
      BY <3>2, <3>4, <3>5, JournalAssumption DEF Chained
    <3>6. CASE ~Chained(left)
      <4>1. ~left[2].whole \/ left[2] = event[a]
        BY <2>2, <3>1, TornType
      <4>2. CASE left[2] = event[a]
        <5>1. left[1].time \in Int /\ left[2].time \in Int
          <6>1. left[1] \in Events /\ left[2] \in Events
            <7>1. 1 \in 1..Len(left) /\ 2 \in 1..Len(left)
              BY <3>1
            <7>2. QED
              BY <3>1, <7>1, ElementOfSeq
          <6>2. QED
            BY <6>1, JournalAssumption DEF Events
        <5>2. ~(left[2].time >= left[1].time)
          BY <3>1, <3>6, <4>2 DEF Chained, IsPrepared, IsFinal
        <5>3. Backdated(left)
          BY <3>1, <5>1, <5>2 DEF Backdated
        <5>4. QED
          BY <2>1, <3>1, <3>2, <3>4, <3>6, <5>3, JournalAssumption
      <4>3. CASE ~left[2].whole
        BY <2>1, <3>1, <3>2, <3>4, <3>6, <4>3, JournalAssumption
      <4>4. QED
        BY <4>1, <4>2, <4>3
    <3>7. QED
      BY <3>5, <3>6
  <2>5. QED
    BY <2>3, <2>4
<1>4. QED
  BY <1>2, <1>3

LEMMA NextAnswers ==
  ASSUME JInv, [Next]_vars, ~HostCrash, NEW p \in Paths
  PROVE  /\ Verified(p) \in Finals => Verified(p)' = Verified(p)
         /\ Verified(p) = "prepared" =>
              \/ Verified(p)' \in {"prepared"} \cup Finals
              \/ /\ Verified(p)' = "invalid" /\ Len(lines'[p]) = 2
                 /\ ~lines'[p][2].whole \/ Backdated(lines'[p])
<1>1. CASE lines' = lines /\ exists' = exists
  BY <1>1 DEF Verified, Prepared, Chained
<1>2. ASSUME NEW a \in Appliers, Create(a)
      PROVE  lines' = lines /\ (p \in exists => p \in exists')
  BY <1>2 DEF Create
<1>3. CASE lines' = lines /\ (p \in exists => p \in exists')
  <2>1. CASE p \in exists
    BY <1>3, <2>1 DEF Verified, Prepared, Chained
  <2>2. CASE p \notin exists
    BY <2>2, JournalAssumption DEF Verified
  <2>3. QED
    BY <2>1, <2>2
<1>4. ASSUME NEW a \in Appliers, Sync(a) \/ Finalize(a)
      PROVE  lines' = lines /\ exists' = exists
  BY <1>4 DEF Sync, Finalize
<1>5. ASSUME NEW a \in Appliers, Kill(a), ~Writing(a)
      PROVE  lines' = lines /\ exists' = exists
  BY <1>5 DEF Kill
<1>6. CASE Tick \/ UNCHANGED vars
  BY <1>1, <1>6 DEF Tick, vars
<1>7. QED
  BY <1>1, <1>2, <1>3, <1>4, <1>5, <1>6, WriteIsWrites, KillIsWrites,
     WritesAnswer DEF Next

(* While the host stays up, what verify_receipt accepts is not taken back, *)
(* however many processes write to its path.                               *)
THEOREM AnswersAreKept == Spec => AnswersStand
<1>1. JInv /\ [Next]_vars =>
        [~HostCrash => \A p \in Paths :
           /\ Verified(p) \in Finals => Verified(p)' = Verified(p)
           /\ Verified(p) = "prepared" =>
                \/ Verified(p)' \in {"prepared"} \cup Finals
                \/ /\ Verified(p)' = "invalid" /\ Len(lines'[p]) = 2
                   /\ ~lines'[p][2].whole \/ Backdated(lines'[p])]_vars
  BY NextAnswers
<1>2. QED
  BY <1>1, InvariantIsKept, PTL DEF Spec, AnswersStand
=============================================================================
