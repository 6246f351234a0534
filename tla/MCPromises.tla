---------------------------- MODULE MCPromises ----------------------------
(* Small instances of Promises for TLC. *)
EXTENDS Promises

\* Scripts resolve with every kind of object.
AllObjects == {"thenable", "accessor"}

\* All calls of then: each handler is given or not.
AllCalls == BOOLEAN \X BOOLEAN
=============================================================================
