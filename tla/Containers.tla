----------------------------- MODULE Containers -----------------------------
(***************************************************************************)
(* The configuration of containers from two sides: Idmap, how a range of   *)
(* ids is found among many containers, and ContainerConfig, how the row,   *)
(* the files and the instance of one container keep in step whatever maps  *)
(* it is given.  They share no state, so that a behaviour is about one     *)
(* side and leaves the other at rest.                                      *)
(***************************************************************************)
EXTENDS Idmap, ContainerConfig

CONSTANT Sides   \* "ids", "config"

VARIABLE side

vars == <<idVars, cfgVars, side>>

Init ==
  /\ IdmapInit /\ ConfigInit /\ side \in Sides
  /\ side # "config" => wish = "map"

Next ==
  \/ side = "ids" /\ IdmapNext /\ UNCHANGED <<cfgVars, side>>
  \/ side = "config" /\ ConfigNext /\ UNCHANGED <<idVars, side>>

Spec == Init /\ [][Next]_vars

-----------------------------------------------------------------------------
(* The instances for TLC. *)

\* The ids of a container of its own are also the daemon's.
MCWithin == {<<"own", "whole">>}
MCCreated == [next : {"own"}, last : {"own"}, eph : BOOLEAN, lim : {1}]

Alike == Permutations(Ctn)

\* Behaviours are followed until a struct that is out of date was written or a
\* second thing has gone wrong, and with one goroutine of OnStop at a time;
\* the state in which this happens is checked and not continued.  Of the
\* isolated containers one at most is without a range of its own.
Followed ==
  /\ "stale" \notin marks /\ Cardinality(marks) <= 1 /\ Cardinality(hooks) <= 1
  /\ Cardinality(Isolated \ alone) <= 1
=============================================================================
