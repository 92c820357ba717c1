-------------------------------- MODULE Host --------------------------------
(***************************************************************************)
(* What the daemon keeps up on the host for the containers: storage pools  *)
(* (Pools) and the custom volumes attached to containers (VolumeAttach),   *)
(* networks (Networks), the CPUs containers are given (Scheduler), devices *)
(* that come and go (HotPlug), their network interfaces (Nics), their      *)
(* limits (Limits), the maps of their ids (RawIdmap) and the commands that *)
(* run in them (Exec).  In the code each has its own state and no lock or  *)
(* variable in common with the others, so that a behaviour is about one    *)
(* part and leaves the others as they were at first.                       *)
(***************************************************************************)
EXTENDS Pools, VolumeAttach, Networks, Scheduler, HotPlug, Nics, Limits, RawIdmap, Exec

CONSTANT HostParts

VARIABLE part

vars == <<poolVars, attVars, netVars, schedVars, hotVars, nicVars, limVars, rawVars, exVars, part>>

\* What a part that is at rest was given does not matter.
AtRest ==
  /\ part # "pools" => driver = CHOOSE d \in PoolDrivers : TRUE
  /\ part # "attach" => /\ vdriver = CHOOSE d \in VolDrivers : TRUE
                        /\ idmap = [c \in Users |-> CHOOSE m \in IdMaps : TRUE]
  /\ part # "cpus" => limit = [c \in Loads |-> CHOOSE l \in CpuLimits : TRUE]
  /\ part # "hotplug" => hotKind = CHOOSE k \in HotKinds : TRUE
  /\ part # "nics" => nicRow = TRUE
  /\ part # "limits" => swapAccounting = TRUE
  /\ part # "idmaps" => machine = CHOOSE h \in Hosts : TRUE
  /\ part # "exec" => tty /\ control

Init ==
  /\ part \in HostParts
  /\ PoolsInit /\ AttachInit /\ NetworksInit /\ SchedulerInit /\ HotPlugInit /\ NicsInit /\ LimitsInit
  /\ RawInit /\ ExecInit
  /\ AtRest

Next ==
  \/ part = "pools" /\ PoolsNext /\ UNCHANGED <<attVars, netVars, schedVars, hotVars, nicVars, limVars, rawVars, exVars, part>>
  \/ part = "attach" /\ AttachNext /\ UNCHANGED <<poolVars, netVars, schedVars, hotVars, nicVars, limVars, rawVars, exVars, part>>
  \/ part = "networks" /\ NetworksNext /\ UNCHANGED <<poolVars, attVars, schedVars, hotVars, nicVars, limVars, rawVars, exVars, part>>
  \/ part = "cpus" /\ SchedulerNext /\ UNCHANGED <<poolVars, attVars, netVars, hotVars, nicVars, limVars, rawVars, exVars, part>>
  \/ part = "hotplug" /\ HotPlugNext /\ UNCHANGED <<poolVars, attVars, netVars, schedVars, nicVars, limVars, rawVars, exVars, part>>
  \/ part = "nics" /\ NicsNext /\ UNCHANGED <<poolVars, attVars, netVars, schedVars, hotVars, limVars, rawVars, exVars, part>>
  \/ part = "limits" /\ LimitsNext /\ UNCHANGED <<poolVars, attVars, netVars, schedVars, hotVars, nicVars, rawVars, exVars, part>>
  \/ part = "idmaps" /\ RawNext /\ UNCHANGED <<poolVars, attVars, netVars, schedVars, hotVars, nicVars, limVars, exVars, part>>
  \/ part = "exec" /\ ExecNext /\ UNCHANGED <<poolVars, attVars, netVars, schedVars, hotVars, nicVars, limVars, rawVars, part>>

Spec == Init /\ [][Next]_vars

-----------------------------------------------------------------------------
\* Storage is what the database says: the pool and its volumes are there and
\* can be reached (PoolsWhole), and a running container finds an attached
\* volume there, with files of its own ids (AttachedUsable).
StorageServes == PoolsWhole /\ AttachedUsable

\* A container's devices are what its configuration says: the USB devices and
\* cards that are there (DevicesThere), and an interface that keeps the
\* address it was given first, with nothing left of it when it is gone
\* (NicKept).
DevicesKept == DevicesThere /\ NicKept
=============================================================================
