-------------------------- MODULE MCClientOperation --------------------------
(* Instances of ClientOperation for TLC. *)
EXTENDS ClientOperation, TLC

CONSTANTS o1, o2, c1, c2, c3

\* Two goroutines on the first operation and one on the second.
MCOf == (c1 :> o1) @@ (c2 :> o1) @@ (c3 :> o2)

\* A sound connection that is there before the callers are, and one that is
\* made for them, which may fail and break.
MCEnvs ==
  {[last |-> 1, kept |-> TRUE, drops |-> 0, dialFails |-> FALSE, getFails |-> TRUE],
   [last |-> 2, kept |-> FALSE, drops |-> 1, dialFails |-> TRUE, getFails |-> FALSE]}
=============================================================================
