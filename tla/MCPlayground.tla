---------------------------- MODULE MCPlayground ----------------------------
(***************************************************************************)
(* Playground on three small instances: one stream in all its steps, two   *)
(* without tools, of which the first may still be beating when the other   *)
(* is open, and many requests that compete for a stream.                   *)
(***************************************************************************)
EXTENDS Playground

CONSTANTS First, Second   \* the requests that get a stream

VARIABLE focus

MCInit == Init /\ focus \in {"stream", "two", "limit"}

Admits(s) == (Arrive(s) \/ Allow(s)) /\ UNCHANGED playgroundVars

\* All that the first one does to the second is to beat when it has returned.
Overlapping ==
    /\ \A s \in Streams : streams'[s].at # "round"
    /\ streams'[First].conn = "up" /\ streams'[First].left = 0
    /\ streams'[Second].beats = 0
    /\ streams'[Second].at # "idle" => At(First, {"returned"})

MCNext ==
    /\ UNCHANGED focus
    /\ \/ focus = "stream" /\ StreamNext /\ UNCHANGED limitVars
       \/ focus = "stream" /\ Admits(First)
       \/ focus = "two" /\ StreamNext /\ Overlapping /\ UNCHANGED limitVars
       \/ focus = "two" /\ (Admits(First) \/ (First \in Admitted /\ Admits(Second)))
       \/ focus = "limit" /\ LimitNext /\ UNCHANGED playgroundVars

MCSpec == MCInit /\ [][MCNext]_<<vars, focus>> /\ Fairness
=============================================================================
