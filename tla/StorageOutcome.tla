--------------------------- MODULE StorageOutcome ---------------------------
(***************************************************************************)
(* How a call of a storage driver ends: whether it worked, what is on the  *)
(* pool then, whether the container's path (containers/<name>, the link    *)
(* that createContainerMountpoint makes last) is there, and the mark of an *)
(* end the driver and its caller do not put right.                         *)
(***************************************************************************)

Done(p) == [ok |-> TRUE, p |-> p, path |-> TRUE, mark |-> "none"]

(* Nothing of what was asked for is there. *)
Failed(p) == [ok |-> FALSE, p |-> p, path |-> FALSE, mark |-> "none"]

(* Cut after the path was made: a creation's caller deletes what is there. *)
Cut(p) == [Failed(p) EXCEPT !.path = TRUE]

(* Cut at a place that leaves the container or its snapshots as m says. *)
Left(p, m) == [Cut(p) EXCEPT !.mark = m]

(* Cut between the volume and its path: the caller, who asks for the path,  *)
(* finds nothing to delete.                                                *)
Unseen(p) == [Failed(p) EXCEPT !.mark = "unseen"]

(* Cut with an unfinished image on the pool. *)
Half(p) == [Failed(p) EXCEPT !.mark = "half"]
=============================================================================
