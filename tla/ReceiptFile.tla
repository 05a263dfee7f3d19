---------------------------- MODULE ReceiptFile ----------------------------
(***************************************************************************)
(* What the receipt of an apply is, whatever the file holding it goes      *)
(* through: it says nothing, then prepared, then one terminal state. A     *)
(* host crash may take back what it says, but never what the process was   *)
(* told is durable. ReceiptJournal implements this with a file written and *)
(* synced line by line; Apply relies on it.                                *)
(***************************************************************************)
CONSTANTS
  Appliers,   \* the apply processes, each with a receipt of its own
  Terminal    \* the terminal states

VARIABLES
  report,     \* report[a]: what the receipt of a says
  assured     \* assured[a]: what a was told is durable

vars == <<report, assured>>

States == {"none", "prepared"} \cup Terminal

(* Whether a receipt that says s can have said r before.                   *)
UpTo(r, s) == r = s \/ r = "none" \/ (r = "prepared" /\ s \in Terminal)

Init ==
  /\ report = [a \in Appliers |-> "none"]
  /\ assured = [a \in Appliers |-> "none"]

Prepare(a) ==
  /\ report[a] = "none"
  /\ report' = [report EXCEPT ![a] = "prepared"] /\ UNCHANGED assured

Conclude(a) ==
  /\ report[a] = "prepared"
  /\ \E s \in Terminal : report' = [report EXCEPT ![a] = s]
  /\ UNCHANGED assured

Assure(a) ==
  /\ report[a] /= "none"
  /\ assured' = [assured EXCEPT ![a] = report[a]] /\ UNCHANGED report

Lose ==
  /\ report' \in [Appliers -> States]
  /\ \A a \in Appliers :
       UpTo(report'[a], report[a]) /\ UpTo(assured[a], report'[a])
  /\ UNCHANGED assured

Next == Lose \/ \E a \in Appliers : Prepare(a) \/ Conclude(a) \/ Assure(a)

Spec == Init /\ [][Next]_vars
=============================================================================
