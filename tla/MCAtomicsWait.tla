--------------------------- MODULE MCAtomicsWait ---------------------------
(* Small instances of AtomicsWait for TLC. *)
EXTENDS AtomicsWait, TLC

CONSTANTS a1, a2, a3, w1, w2, b1, b2

\* a1 is the thread whose waits are asynchronous.
OwnerOne == w1 :> a1
OwnerSame == w1 :> a1 @@ w2 :> a1
OwnerSplit == w1 :> a1 @@ w2 :> a2
OwnerNone == [w \in {} |-> a1]

\* One cell; and two cells of buffers of 16 bytes that lie side by side.
OneCell == {[buf |-> b1, off |-> 4]}
TwoCells == {[buf |-> b1, off |-> 8], [buf |-> b2, off |-> 4]}
FarApart == b1 :> 0 @@ b2 :> 1024
SideBySide == b1 :> 0 @@ b2 :> 16
=============================================================================
