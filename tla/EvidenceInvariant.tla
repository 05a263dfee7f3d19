------------------------- MODULE EvidenceInvariant -------------------------
(***************************************************************************)
(* The inductive invariant of TargetEvidence: what the evidence is worth   *)
(* at each call, and what is known of the plan it was sealed into.         *)
(***************************************************************************)
EXTENDS TargetEvidence

(* The encodings of the first k images of s, for each k.                   *)
Encodings(s) ==
  LET e[k \in 0..Len(s)] == IF k = 0 THEN <<>> ELSE e[k - 1] \o Encode(s[k])
  IN  e

(* The bag of the images in an answer.                                     *)
Tally(s) == [i \in Images |-> Cardinality({k \in DOMAIN s : s[k] = i})]

IsInsert == TheStatement.kind = "insert"

(* Nothing is asked of the database for a file that is not allowed.        *)
AllowedInv == phase = "apply" \/ pc \notin {"analyze", "denied"} =>
                FileAllowed(file)

(* What an apply looks at is the table itself, from its lock on.           *)
FreshInv == Locked => snap = contents

(* The count is that of the rows selected, or of the rows inserted.        *)
CountInv ==
  pc \notin {"analyze", "denied", "count", "over_budget", "drifted"} =>
    /\ expected <= MaxRows
    /\ expected = IF IsInsert THEN Len(TheStatement.widths)
                              ELSE Cardinality(Selected(snap))
    /\ phase = "apply" => expected = sealed.count

(* What was received is the first part of an answer to the query, and the  *)
(* evidence its encoding.                                                  *)
Received(s) ==
  /\ observed <= Len(s) /\ rest = SubSeq(s, observed + 1, Len(s))
  /\ bytes = Encodings(s)[observed]

StreamInv ==
  /\ pc \in {"count", "query"} => bytes = <<>> /\ observed = 0
  /\ pc \in {"stream", "too_large", "decide", "execute", "committed"} =>
       IF IsInsert THEN bytes = <<>> /\ pc \notin {"stream", "too_large"}
       ELSE \E s \in Sorted(snap, Selected(snap)) : Received(s)
  /\ pc = "too_large" => rest /= <<>> /\ ~Fits(Head(rest))
  /\ pc \in {"decide", "execute", "committed"} => IsInsert \/ rest = <<>>
  /\ pc /= "mismatch"

(* A sealed digest is the encoding of a sorted answer with the sealed      *)
(* count and bag.                                                          *)
SealInv ==
  phase = "apply" =>
    /\ sealed.count \in 0..MaxRows
    /\ IF IsInsert
         THEN sealed.count = Len(TheStatement.widths) /\ sealed.digest = <<>>
         ELSE \E s \in [1..sealed.count -> Images] :
                /\ InOrder(s) /\ Tally(s) = sealed.bag
                /\ sealed.digest = Encodings(s)[sealed.count]

(* What each verdict rests on.                                             *)
VerdictInv ==
  /\ pc \in {"drifted", "execute", "committed", "rolled_back"} =>
       phase = "apply"
  /\ NoFalseDrift
  /\ pc \in {"execute", "committed"} => bytes = sealed.digest
  /\ pc = "committed" =>
       touched = IF IsInsert THEN {} ELSE Selected(contents)

(* At every call count and evidence are those of the rows selected, a plan *)
(* carries those of the rows it was sealed over, and both decide the       *)
(* verdict.                                                                *)
EInv ==
  /\ TypeOK /\ AllowedInv /\ FreshInv /\ CountInv /\ StreamInv /\ SealInv
  /\ VerdictInv
=============================================================================
