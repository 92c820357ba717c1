---------------------------- MODULE VolumeStore -----------------------------
(***************************************************************************)
(* What every storage driver promises the rest of the daemon: containers   *)
(* with a root file system and named snapshots of it.  An operation on one *)
(* container never touches another one, a snapshot keeps the data it was   *)
(* taken with until it is deleted, a copy holds the source's data, and a   *)
(* restore brings a snapshot's data back.                                  *)
(***************************************************************************)
EXTENDS Functions

CONSTANTS Container, SnapName, Image, Data

VARIABLES
  vols,   \* live container -> [data, snaps: snapshot name -> data]
  lost    \* containers a failure went too far with to promise anything of

Init ==
  /\ vols = [c \in {} |-> [data |-> "empty", snaps |-> [s \in {} |-> "empty"]]]
  /\ lost = {}

With(c, r) == [d \in DOMAIN vols \cup {c} |-> IF d = c THEN r ELSE vols[d]]

Create(c, v) ==
  /\ c \notin DOMAIN vols
  /\ vols' = With(c, [data |-> v, snaps |-> [s \in {} |-> v]])

Write(c, v) == vols' = [vols EXCEPT ![c].data = v]

Copy(t, c, S) ==
  /\ t \notin DOMAIN vols
  /\ vols' = With(t, [data |-> vols[c].data, snaps |-> Restrict(vols[c].snaps, S)])

CopySnapshot(t, c, s) ==
  /\ t \notin DOMAIN vols
  /\ vols' = With(t, [data |-> vols[c].snaps[s], snaps |-> [x \in {} |-> "empty"]])

Rename(c, n) ==
  /\ n \notin DOMAIN vols
  /\ vols' = [d \in (DOMAIN vols \ {c}) \cup {n} |-> vols[IF d = n THEN c ELSE d]]

Snapshot(c, s) ==
  /\ s \notin DOMAIN vols[c].snaps
  /\ vols' = [vols EXCEPT ![c].snaps =
                [x \in DOMAIN @ \cup {s} |-> IF x = s THEN vols[c].data ELSE @[x]]]

SnapshotRename(c, s, n) ==
  /\ n \notin DOMAIN vols[c].snaps
  /\ vols' = [vols EXCEPT ![c].snaps =
                [x \in (DOMAIN @ \ {s}) \cup {n} |-> @[IF x = n THEN s ELSE x]]]

(* Snapshots go: one that is deleted, or the ones a restore or a delete of  *)
(* the container removed before it failed.                                 *)
Forget(c, S) == vols' = [vols EXCEPT ![c].snaps = Restrict(@, S)]

Restore(c, s, S) ==
  /\ s \in S
  /\ vols' = [vols EXCEPT ![c] = [data |-> @.snaps[s], snaps |-> Restrict(@.snaps, S)]]

Delete(c) == vols' = Restrict(vols, DOMAIN vols \ {c})

(* A failure spoils the containers it was about and no other one. *)
Mishap ==
  /\ lost \subseteq lost' /\ lost' # lost
  /\ Restrict(vols', DOMAIN vols' \ lost') = Restrict(vols, DOMAIN vols \ lost')

Operation ==
  /\ vols' # vols
  /\ UNCHANGED lost
  /\ \/ \E c \in Container, v \in {"empty"} \cup Image : Create(c, v)
     \/ \E c \in DOMAIN vols :
          \/ \E v \in Data : Write(c, v)
          \/ \E t \in Container, S \in SUBSET DOMAIN vols[c].snaps : Copy(t, c, S)
          \/ \E t \in Container, s \in DOMAIN vols[c].snaps : CopySnapshot(t, c, s)
          \/ \E n \in Container : Rename(c, n)
          \/ \E s \in SnapName : Snapshot(c, s)
          \/ \E s \in DOMAIN vols[c].snaps, n \in SnapName : SnapshotRename(c, s, n)
          \/ \E S \in SUBSET DOMAIN vols[c].snaps : Forget(c, S)
          \/ \E S \in SUBSET DOMAIN vols[c].snaps, s \in DOMAIN vols[c].snaps : Restore(c, s, S)
          \/ Delete(c)

Next == Operation \/ Mishap

Spec == Init /\ [][Next]_<<vols, lost>>
=============================================================================
