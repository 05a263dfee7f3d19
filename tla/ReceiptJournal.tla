--------------------------- MODULE ReceiptJournal ---------------------------
(***************************************************************************)
(* The receipt file of receipt.rs: how ReceiptJournal::create and finalize *)
(* write it, what a killed process or a host crash leaves of it, and what  *)
(* verify_receipt says of it at any moment. Several apply processes, one   *)
(* after the other or at once, may be given the same path.                 *)
(***************************************************************************)
EXTENDS Integers, Sequences

CONSTANTS
  Appliers,        \* the apply processes
  Paths,           \* receipt paths
  PathOf,          \* PathOf[a]: the path given to process a
  Finals,          \* the terminal states: committed, rolled_back, ...
  MaxTime,         \* bound: the largest wall-clock reading
  NoEvent,         \* a process that has made no event yet
  EntryDurable     \* whether syncing a new file puts its directory entry on
                   \* disk too (POSIX leaves it open; no directory is synced)

(* One line of the file. The chain hash, the receipt id and the plan and   *)
(* SQL hashes tie it to its apply: by (two applies of one plan could only  *)
(* be confused if they started in the same millisecond). A line that is    *)
(* not whole is cut off somewhere before the end of its JSON.              *)
Events == [by : Appliers, state : {"prepared"} \cup Finals,
           time : 0..MaxTime, whole : BOOLEAN]

ASSUME JournalAssumption ==
  /\ PathOf \in [Appliers -> Paths]
  /\ {"none", "prepared", "invalid"} \cap Finals = {}
  /\ NoEvent \notin Events
  /\ MaxTime \in Nat /\ EntryDurable \in BOOLEAN

VARIABLES
  now,      \* unix_ms()
  pc,       \* next call of each process
  event,    \* event[a]: the event it is writing
  told,     \* told[a]: the last state it was told is durable
  exists,   \* the paths at which there is a file
  lines,    \* lines[p]: the file as readers see it
  synced    \* how much of it, in lines, is on disk

vars == <<now, pc, event, told, exists, lines, synced>>

NewEvent(a, s) == [by |-> a, state |-> s, time |-> now, whole |-> TRUE]
Torn(e) == [e EXCEPT !.whole = FALSE]

Calls == {"create", "write_prepared", "sync_prepared", "finalize",
          "write_final", "sync_final", "returned", "dead"}
Started(a) == pc[a] \notin {"create", "returned", "dead"}

Init ==
  /\ now \in 0..MaxTime
  /\ pc = [a \in Appliers |-> "create"]
  /\ event = [a \in Appliers |-> NoEvent]
  /\ told = [a \in Appliers |-> "none"]
  /\ exists = {}
  /\ lines = [p \in Paths |-> <<>>]
  /\ synced = [p \in Paths |-> 0]

Goto(a, l) == pc' = [pc EXCEPT ![a] = l]

-----------------------------------------------------------------------------
(* ReceiptJournal::create and finalize.                                    *)

(* Take the timestamp, then open the file, which must be new. An error may *)
(* leave the new file behind, empty.                                       *)
CreateAny(a) ==   \* mutation: the file is opened without create_new
  /\ pc[a] = "create"
  /\ event' = [event EXCEPT ![a] = NewEvent(a, "prepared")]
  /\ exists' = exists \cup {PathOf[a]} /\ Goto(a, "write_prepared")
  /\ UNCHANGED <<now, told, lines, synced>>

Create(a) ==
  /\ pc[a] = "create"
  /\ event' = [event EXCEPT ![a] = NewEvent(a, "prepared")]
  /\ \/ /\ PathOf[a] \notin exists /\ exists' = exists \cup {PathOf[a]}
        /\ \E next \in {"write_prepared", "returned"} : Goto(a, next)
     \/ Goto(a, "returned") /\ UNCHANGED exists
  /\ UNCHANGED <<now, told, lines, synced>>

(* The terminal event is made when the outcome is known.                   *)
Finalize(a) ==
  /\ pc[a] = "finalize"
  /\ \E s \in Finals : event' = [event EXCEPT ![a] = NewEvent(a, s)]
  /\ Goto(a, "write_final")
  /\ UNCHANGED <<now, told, exists, lines, synced>>

Writing(a) == pc[a] \in {"write_prepared", "write_final"}
Syncing(a) == pc[a] \in {"sync_prepared", "sync_final"}

(* What an interrupted write leaves: nothing, a part, or the whole line.   *)
Leftovers(a) ==
  LET old == lines[PathOf[a]] IN
  {old} \cup {Append(old, e) : e \in {event[a], Torn(event[a])}}

(* write_all, which may stop on an error.                                  *)
Write(a) ==
  /\ Writing(a)
  /\ \/ /\ lines' = [lines EXCEPT ![PathOf[a]] = Append(@, event[a])]
        /\ Goto(a, IF pc[a] = "write_final" THEN "sync_final"
                                           ELSE "sync_prepared")
     \/ /\ \E left \in Leftovers(a) :
             lines' = [lines EXCEPT ![PathOf[a]] = left]
        /\ Goto(a, "returned")
  /\ UNCHANGED <<now, event, told, exists, synced>>

(* sync_all returns Ok once the file is on disk; on an error who knows.    *)
SyncNothing(a) ==   \* mutation: flush() in place of sync_all()
  /\ Syncing(a)
  /\ told' = [told EXCEPT ![a] = event[a].state]
  /\ Goto(a, IF pc[a] = "sync_final" THEN "returned" ELSE "finalize")
  /\ UNCHANGED <<now, event, exists, lines, synced>>

Sync(a) ==
  /\ Syncing(a)
  /\ \/ /\ synced' = [synced EXCEPT ![PathOf[a]] = Len(lines[PathOf[a]])]
        /\ told' = [told EXCEPT ![a] = event[a].state]
        /\ Goto(a, IF pc[a] = "sync_final" THEN "returned" ELSE "finalize")
     \/ Goto(a, "returned") /\ UNCHANGED <<synced, told>>
  /\ UNCHANGED <<now, event, exists, lines>>

-----------------------------------------------------------------------------
(* The clock, and the crashes.                                             *)

(* The wall clock goes on, or is set to any time.                          *)
Tick ==
  /\ now' \in 0..MaxTime \ {now}
  /\ UNCHANGED <<pc, event, told, exists, lines, synced>>

(* The process is killed; what it has handed to the system stays there.    *)
Kill(a) ==
  /\ Started(a)
  /\ IF Writing(a)
       THEN \E left \in Leftovers(a) :
              lines' = [lines EXCEPT ![PathOf[a]] = left]
       ELSE UNCHANGED lines
  /\ Goto(a, "dead")
  /\ UNCHANGED <<now, event, told, exists, synced>>

(* What a host crash can leave of a file: what is on disk, and perhaps     *)
(* more of what readers saw, the last line of it cut off anywhere.         *)
Survivors(p) ==
  LET kept(n) == SubSeq(lines[p], 1, n) IN
  {kept(n) : n \in synced[p]..Len(lines[p])}
    \cup {Append(kept(n - 1), Torn(lines[p][n])) :
            n \in (synced[p] + 1)..Len(lines[p])}

(* The directory entry of a file is sure to be on disk once a sync of the  *)
(* file is known to bring it there.                                        *)
SureToStay(p) == EntryDurable /\ synced[p] > 0

HostCrash ==
  /\ \E a \in Appliers : pc[a] /= "create"
  /\ pc' = [a \in Appliers |-> IF Started(a) THEN "dead" ELSE pc[a]]
  /\ exists' \in {left \in SUBSET exists :
                    \A p \in exists : SureToStay(p) => p \in left}
  /\ lines' \in {f \in [Paths -> {<<>>} \cup UNION {Survivors(p) : p \in Paths}] :
                   \A p \in Paths :
                     f[p] \in IF p \in exists' THEN Survivors(p) ELSE {<<>>}}
  /\ synced' = [p \in Paths |-> Len(lines'[p])]
  /\ UNCHANGED <<now, event, told>>

Next ==
  \/ \E a \in Appliers :
       Create(a) \/ Write(a) \/ Sync(a) \/ Finalize(a) \/ Kill(a)
  \/ Tick \/ HostCrash

Spec == Init /\ [][Next]_vars

-----------------------------------------------------------------------------
(* verify_receipt: "none" where there is no file, "invalid" where it is    *)
(* rejected, else the final_state it reports ("prepared": incomplete).     *)
Prepared(f) == f[1].whole /\ f[1].state = "prepared"

Chained(f) ==
  /\ f[2].whole /\ f[2].state \in Finals
  /\ f[2].by = f[1].by
  /\ f[2].time >= f[1].time

Verified(p) ==
  LET f == lines[p] IN
  IF p \notin exists THEN "none"
  ELSE IF Len(f) \notin 1..2 \/ ~Prepared(f) THEN "invalid"
  ELSE IF Len(f) = 1 THEN "prepared"
  ELSE IF Chained(f) THEN f[2].state ELSE "invalid"

-----------------------------------------------------------------------------
(* A receipt file never holds more than a prepared and a terminal event,   *)
(* and no file that is gone has contents.                                  *)
TypeOK ==
  /\ now \in 0..MaxTime
  /\ pc \in [Appliers -> Calls]
  /\ event \in [Appliers -> Events \cup {NoEvent}]
  /\ told \in [Appliers -> {"none", "prepared"} \cup Finals]
  /\ exists \subseteq Paths
  /\ lines \in [Paths -> Seq(Events)] /\ synced \in [Paths -> Nat]
  /\ \A p \in Paths :
       /\ Len(lines[p]) <= 2 /\ synced[p] <= Len(lines[p])
       /\ p \notin exists => lines[p] = <<>>

(* Once create has returned Ok, the prepared event of this very apply is   *)
(* the first line of its receipt file: after a kill, after a host crash,   *)
(* and whoever else was given the same path.                               *)
PreparedSurvives ==
  \A a \in Appliers : told[a] /= "none" =>
    LET p == PathOf[a] IN
    /\ p \in exists /\ Len(lines[p]) >= 1
    /\ Prepared(lines[p]) /\ lines[p][1].by = a

(* The terminal event is stamped earlier than the prepared one.            *)
Backdated(f) == Len(f) = 2 /\ f[2].time < f[1].time

(* Once finalize has returned Ok, the receipt holds that outcome of this   *)
(* apply for ever, and verify_receipt reports it as complete unless the    *)
(* clock was set back between the two events.                              *)
OutcomeSurvives ==
  \A a \in Appliers : told[a] \in Finals =>
    LET p == PathOf[a] f == lines[p] IN
    /\ p \in exists /\ Len(f) = 2 /\ f[2].by = a /\ f[2].state = told[a]
    /\ Verified(p) = told[a] \/ Backdated(f)

(* While the host stays up, what verify_receipt accepts is not taken back: *)
(* a prepared receipt can only become a terminal one, or be spoilt by a    *)
(* terminal line that is cut off or backdated; a terminal one stays.       *)
AnswersStand ==
  [][~HostCrash => \A p \in Paths :
       /\ Verified(p) \in Finals => Verified(p)' = Verified(p)
       /\ Verified(p) = "prepared" =>
            \/ Verified(p)' \in {"prepared"} \cup Finals
            \/ /\ Verified(p)' = "invalid" /\ Len(lines'[p]) = 2
               /\ ~lines'[p][2].whole \/ Backdated(lines'[p])]_vars

-----------------------------------------------------------------------------
(* The receipt of a is what its path holds of its own: whole lines only.   *)
Mine(a, n) ==
  LET f == lines[PathOf[a]] IN n <= Len(f) /\ f[n].by = a /\ f[n].whole

Report(a) ==
  IF ~Mine(a, 1) THEN "none"
  ELSE IF Mine(a, 2) THEN lines[PathOf[a]][2].state ELSE "prepared"

File == INSTANCE ReceiptFile WITH
  Terminal <- Finals,
  report   <- [a \in Appliers |-> Report(a)],
  assured  <- told

(* Writes that stop half way, syncs, kills, host crashes and other         *)
(* processes on the same path amount to no more than the abstract receipt  *)
(* allows: only what was never reported durable can be lost.               *)
IsReceiptFile == File!Spec

-----------------------------------------------------------------------------
(* A statement of the documentation the code does not meet.                *)

(* Every outcome finalize has reported as durable is integrity-verifiable. *)
OutcomeVerifiable ==
  \A a \in Appliers : told[a] \in Finals => Verified(PathOf[a]) = told[a]
=============================================================================
