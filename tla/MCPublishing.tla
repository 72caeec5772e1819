---------------------------- MODULE MCPublishing ----------------------------
(* Publishing on small instances; the .cfg files choose who may do what. *)
EXTENDS Publishing, TLC

\* Article ids are interchangeable: no action or property tells them apart.
MCSymmetry == Permutations(Ids)
=============================================================================
