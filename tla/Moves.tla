------------------------------- MODULE Moves --------------------------------
(***************************************************************************)
(* What is moved while commands fail, peers are lost or the daemon dies:   *)
(* an installation to the layout of a newer version (Upgrade), and a       *)
(* container to another host (Migration).  The one is done before the      *)
(* daemon serves and the other afterwards, so that a behaviour is about    *)
(* one of them.                                                            *)
(***************************************************************************)
EXTENDS Upgrade, Migration

CONSTANT Moved   \* "installation", "container"

VARIABLE what

movesVars == <<vars, moveVars, what>>

MovesInit ==
  /\ what \in Moved /\ Init /\ MoveInit
  /\ what = "installation" => job = (CHOOSE j \in Jobs : TRUE) /\ sct = "running"
  /\ what = "container" =>
       schema = Latest /\ applied = Patches /\ type = CHOOSE t \in Types : TRUE

UpgradeProceeds ==
  what = "installation" /\ ((Starts /\ UNCHANGED upgradeVars) \/ patchStorageApi) /\ UNCHANGED <<moveVars, what>>

MoveProceeds == what = "container" /\ MoveSteps /\ UNCHANGED <<vars, what>>

MovesNext ==
  \/ what = "installation" /\ Next /\ UNCHANGED <<moveVars, what>>
  \/ what = "container" /\ MoveNext /\ UNCHANGED <<vars, what>>

\* The daemon is started again whenever it is down, and runs; on both hosts
\* of a migration whatever can be done is, but faults need not happen.
MovesSpec ==
  MovesInit /\ [][MovesNext]_movesVars
    /\ WF_movesVars(UpgradeProceeds) /\ WF_movesVars(MoveProceeds)

-----------------------------------------------------------------------------
\* Every move comes to an end, however often it is cut or fails: the daemon
\* comes up (ComesUp), and both operations of a migration end (MigrationEnds),
\* but in the cases they name.
MovesEnd ==
  /\ what = "installation" => ComesUp
  /\ what = "container" => MigrationEnds

-----------------------------------------------------------------------------
(* The instance for TLC. *)

MCCtns == <<"c1", "c2">>
MCImgs == <<"i1">>

\* Over rsync between unlike drivers, pulled or pushed, and between two pools
\* of zfs and of btrfs; live or not, with and without a snapshot.
MCJobs ==
  {j \in [live : BOOLEAN, push : BOOLEAN, from : {"dir", "zfs", "btrfs"},
           to : {"lvm", "zfs", "btrfs"}, snaps : {0, 1}, big : BOOLEAN,
           script : BOOLEAN] :
     /\ j.to = (IF j.from = "dir" THEN "lvm" ELSE j.from)
     /\ j.from = "dir" => j.big
     /\ j.push => j.from = "dir"
     /\ ~j.live => j.script}
=============================================================================
