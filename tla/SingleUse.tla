------------------------------ MODULE SingleUse ------------------------------
(***************************************************************************)
(* What the authorization ledger promises its callers: an authorization id *)
(* is taken before it is used, it is used at most once, and once used it   *)
(* stays taken.  An id that was taken and never used may become free again *)
(* (a machine that loses power before the claim reached the disk).         *)
(***************************************************************************)
EXTENDS Naturals

CONSTANT Id              \* authorization ids

VARIABLES taken,         \* ids no later caller can obtain
          uses           \* how often each id let a caller proceed

Init == /\ taken = {}
        /\ uses = [i \in Id |-> 0]

Claim(i) == /\ i \notin taken
            /\ taken' = taken \cup {i}
            /\ UNCHANGED uses

Use(i) == /\ i \in taken
          /\ uses[i] = 0
          /\ uses' = [uses EXCEPT ![i] = 1]
          /\ UNCHANGED taken

Lose == /\ \E kept \in SUBSET taken :
              /\ \A i \in Id : uses[i] > 0 => i \in kept
              /\ taken' = kept
        /\ UNCHANGED uses

Next == Lose \/ \E i \in Id : Claim(i) \/ Use(i)

Spec == Init /\ [][Next]_<<taken, uses>>
==============================================================================
