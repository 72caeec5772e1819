------------------------ MODULE MCPublishingHistory ------------------------
(* PublishingHistory on small instances. *)
EXTENDS PublishingHistory, TLC

\* Article ids are interchangeable: no action or property tells them apart.
MCSymmetry == Permutations(Ids)

\* So are slugs, when they are model values.
AllSymmetry == Permutations(Slugs) \cup MCSymmetry
=============================================================================
