------------------------------ MODULE MCLogin ------------------------------
(* Login on small instances. *)
EXTENDS Login, TLC

PlainNames == {<<"admin">>}
DottedNames == {<<"sam", "lee">>}

\* Submits are interchangeable.
MCSymmetry == Permutations(Submits)
=============================================================================
