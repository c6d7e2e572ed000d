--------------------------- MODULE MCReceiptJournal ---------------------------
(* Two processes, two decisions: the model values of the journal's runs. *)
EXTENDS ReceiptJournal

CONSTANTS p1, p2, r1, r2

MCProcess == {p1, p2}
MCReceipt == {r1, r2}
Symmetric == Permutations(MCProcess) \cup Permutations(MCReceipt)
=============================================================================
