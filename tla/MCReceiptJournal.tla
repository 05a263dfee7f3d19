-------------------------- MODULE MCReceiptJournal --------------------------
(* Two apply processes that are given the same receipt path.               *)
EXTENDS JournalInvariant, TLC

CONSTANTS a1, a2, p1

SamePath == a1 :> p1 @@ a2 :> p1
=============================================================================
