---------------------------- MODULE MCConsumers ----------------------------
(* Combinators and AsyncGenerators side by side for TLC.  They share no      *)
(* state, so a behaviour runs one of them and the states add up rather than  *)
(* multiply.                                                                *)
EXTENDS Combinators, AsyncGenerators

VARIABLE machine   \* the one that runs

Init == machine \in {"combinator", "generator"} /\ CombInit /\ GenInit

Combine == machine = "combinator" /\ CombNext /\ UNCHANGED <<machine, genVars>>
Generate == machine = "generator" /\ GenNext /\ UNCHANGED <<machine, combVars>>
Next == Combine \/ Generate

Spec == Init /\ [][Next]_<<machine, combVars, genVars>> /\ GenFairness
=============================================================================
