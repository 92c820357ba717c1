----------------------------- MODULE HostProofs -----------------------------
(***************************************************************************)
(* That storage, networks, devices and limits stay what the database says, *)
(* for every number of pools, volumes, networks, containers and requests.  *)
(* Each part of Host has its own inductive invariant, proved part by part, *)
(* here or in DevicesProofs; at the end they are put together, a step of   *)
(* one part being a stutter of every other.                                *)
(***************************************************************************)
EXTENDS Host, DevicesProofs

-----------------------------------------------------------------------------
(* Storage pools (Pools). *)

PoolNaming == [vg : {1, 2}, thin : {1, 2}, loop : BOOLEAN]
PoolAsks == [at : {"idle"} \cup Making \cup Removing \cup Updating \cup OnVolume,
             saw : PoolNaming \cup {NoPool}, wants : PoolNaming \cup {NoPool}]

FreshPool == [NewPool EXCEPT !.loop = FALSE]
DiskNames == [vg : {0, 1, 2}, thin : {0, 1, 2}]

PoolTypeInv ==
  /\ driver \in {"dir", "btrfs", "zfs", "lvm"} /\ poolRow \in PoolNaming \cup {NoPool}
  /\ poolNames \in DiskNames
  /\ reachable \in BOOLEAN /\ volRow \in BOOLEAN /\ volDisk \in BOOLEAN
  /\ preq \in [PoolReqs -> PoolAsks]
  /\ ~PoolThere => ~volRow

\* A request that updates the pool is about LVM, and has what it wants to
\* rename still before it.
PoolUpdateInv ==
  \A r \in PoolReqs : preq[r].at \in Updating =>
       /\ driver = "lvm" /\ preq[r].saw \in PoolNaming /\ preq[r].wants \in PoolNaming
       /\ preq[r].at = "thin" => preq[r].wants.thin = 3 - preq[r].saw.thin
       /\ preq[r].at = "vg" => preq[r].wants.vg = 3 - preq[r].saw.vg

\* As long as no request has met what it must not meet: the creation of the
\* pool is alone, its deletion is among deletions, and one request at most is
\* at work on the volume.
Alone(r) ==
  /\ At(r, "mkpool") \/ At(r, "mkrow") => poolRow = FreshPool /\ ~volRow
  /\ At(r, "mkrow") => poolNames = NamesOf(NewPool)
  /\ preq[r].at \in Removing => ~volRow
  /\ preq[r].at \in Updating \cup OnVolume => PoolThere
  /\ preq[r].at \in OnVolume => volRow
  /\ \A q \in PoolReqs \ {r} :
       /\ preq[r].at \in Making => At(q, "idle")
       /\ preq[r].at \in Removing => preq[q].at \in {"idle"} \cup Removing
       /\ preq[r].at \in OnVolume => preq[q].at \notin OnVolume

PoolAloneInv == "raced" \notin poolMarks => \A r \in PoolReqs : Alone(r)

Somewhere(at) == \E r \in PoolReqs : At(r, at)

\* What is on the disk while the pool is made, while it is removed and else.
PoolDiskInv ==
  poolMarks \cap {"raced", "leftover", "halfdone", "sourcelost"} = {} =>
    poolDisk = IF PoolThere /\ ~Somewhere("mkpool") /\ ~Somewhere("rmrow") THEN Full ELSE {}

\* The backing file is known to the row, so that it is attached again.
PoolReachInv ==
  poolMarks \cap {"raced", "halfdone", "sourcelost"} = {} =>
    /\ PoolThere /\ ~Somewhere("mkpool") /\ ~Somewhere("rmrow") => reachable
    /\ PoolThere /\ ~Somewhere("mkpool") /\ ~Somewhere("mkrow") => poolRow.loop
    /\ \A r \in PoolReqs : preq[r].at \in Updating => preq[r].saw.loop

\* The row of the volume is ahead of the disk while the volume is made and
\* behind while it is removed.
PoolVolumeInv ==
  poolMarks \cap {"raced", "halfdone", "rowleft"} = {} =>
    /\ volDisk <=> volRow /\ ~Somewhere("mkvol") /\ ~Somewhere("rmvolrow")
    /\ Somewhere("mkvol") \/ Somewhere("rmvol") \/ Somewhere("rmvolrow") => volRow

\* The requests that have renamed the thin pool, and the volume group, and
\* have not recorded it yet.  Two of them may have renamed the same to and fro
\* again, so that what counts is whether their number is even.
ThinAhead == {r \in PoolReqs : preq[r].at \in {"vg", "update"} /\ preq[r].wants.thin # preq[r].saw.thin}
VgAhead == {r \in PoolReqs : preq[r].at = "update" /\ preq[r].wants.vg # preq[r].saw.vg}
Turned(name, S) == IF Cardinality(S) % 2 = 0 THEN name ELSE 3 - name

PoolNamesInv ==
  poolMarks \cap {"raced", "halfdone", "renamed", "stale"} = {} /\ PoolThere /\ ~Somewhere("mkpool") =>
    /\ poolNames.thin = Turned(poolRow.thin, ThinAhead)
    /\ poolNames.vg = Turned(poolRow.vg, VgAhead)

PoolInv ==
  /\ PoolTypeInv /\ PoolUpdateInv /\ PoolAloneInv
  /\ PoolDiskInv /\ PoolReachInv /\ PoolVolumeInv /\ PoolNamesInv

\* A name that one more, or one less, request has turned.
LEMMA TurnAdd ==
  ASSUME NEW S, IsFiniteSet(S), NEW r, r \notin S, NEW name \in {1, 2}
  PROVE  Turned(name, S \cup {r}) = 3 - Turned(name, S)
<1>1. Cardinality(S \cup {r}) = Cardinality(S) + 1 /\ Cardinality(S) \in Nat  BY FS_AddElement, FS_CardinalityType
<1> QED  BY <1>1 DEF Turned

LEMMA TurnRemove ==
  ASSUME NEW S, IsFiniteSet(S), NEW r \in S, NEW name \in {1, 2}
  PROVE  Turned(name, S \ {r}) = 3 - Turned(name, S)
<1>1. Cardinality(S \ {r}) = Cardinality(S) - 1 /\ Cardinality(S) \in Nat /\ Cardinality(S \ {r}) \in Nat
  BY FS_RemoveElement, FS_CardinalityType
<1> QED  BY <1>1 DEF Turned

LEMMA TurnOther ==
  ASSUME NEW S, IsFiniteSet(S), NEW name \in {1, 2}
  PROVE  Turned(3 - name, S) = 3 - Turned(name, S) /\ Turned(name, S) \in {1, 2}
<1>1. Cardinality(S) \in Nat  BY FS_CardinalityType
<1> QED  BY <1>1 DEF Turned

LEMMA AheadFinite == IsFiniteSet(ThinAhead) /\ IsFiniteSet(VgAhead)
BY PoolsAssumption, FS_Subset DEF ThinAhead, VgAhead

\* The rows that there are.
LEMMA PoolRows ==
  /\ NoPool \notin PoolNaming /\ NewPool \in PoolNaming /\ NewPool.loop /\ NewPool # NoPool
  /\ FreshPool \in PoolNaming /\ ~FreshPool.loop /\ FreshPool # NoPool
  
  /\ NewPool.thin = 1 /\ NewPool.vg = 1 /\ FreshPool.thin = 1 /\ FreshPool.vg = 1
  /\ NamesOf(NewPool) \in DiskNames /\ NamesOf(FreshPool) = NamesOf(NewPool)
  /\ NamesOf(NewPool).thin = 1 /\ NamesOf(NewPool).vg = 1
<1>1. NoPool \notin PoolNaming  BY DEF NoPool, PoolNaming
<1>2. NewPool \in PoolNaming /\ NewPool.loop /\ NewPool # NoPool /\ NewPool.thin = 1 /\ NewPool.vg = 1
  BY DEF NoPool, NewPool, PoolNaming
<1>3. FreshPool \in PoolNaming /\ ~FreshPool.loop /\ FreshPool.thin = 1 /\ FreshPool.vg = 1
  BY <1>2 DEF PoolNaming, FreshPool
<1>4. FreshPool # NoPool  BY <1>1, <1>3
<1>5. NamesOf(NewPool) = [vg |-> 1, thin |-> 1]  BY DEF NewPool, NamesOf
<1>6. NamesOf(FreshPool) = [vg |-> 1, thin |-> 1]  BY <1>3 DEF NamesOf
<1>7. NamesOf(NewPool) \in DiskNames /\ NamesOf(NewPool).thin = 1 /\ NamesOf(NewPool).vg = 1
  BY <1>5 DEF DiskNames
<1> QED  BY <1>1, <1>2, <1>3, <1>4, <1>5, <1>6, <1>7

LEMMA PoolNamed ==
  ASSUME NEW n \in DiskNames, NEW w \in PoolNaming
  PROVE  /\ w.thin \in {1, 2} /\ w.vg \in {1, 2} /\ w.loop \in BOOLEAN
         /\ n = NamesOf(w) <=> n.thin = w.thin /\ n.vg = w.vg
BY DEF DiskNames, PoolNaming, NamesOf

Places == {"idle"} \cup Making \cup Removing \cup Updating \cup OnVolume

\* What the two ways to change a request do to it and to the others.
Goes(r, l) ==
  /\ preq' \in [PoolReqs -> PoolAsks] /\ \A q \in PoolReqs \ {r} : preq'[q] = preq[q]
  /\ preq'[r].at = l
  /\ l # "idle" => preq'[r].saw = preq[r].saw /\ preq'[r].wants = preq[r].wants

LEMMA PoolGoes ==
  ASSUME PoolTypeInv, NEW r \in PoolReqs
  PROVE  (\A l \in Places \ {"idle"} : Goto(r, l) => Goes(r, l)) /\ (Ends(r) => Goes(r, "idle"))
<1>1. ASSUME NEW l \in Places \ {"idle"}, Goto(r, l) PROVE Goes(r, l)
  BY <1>1 DEF PoolTypeInv, PoolAsks, Places, Goto, Goes
<1>2. ASSUME Ends(r) PROVE Goes(r, "idle")
  <2>1. Idle \in PoolAsks /\ Idle.at = "idle"  BY DEF Idle, PoolAsks
  <2> QED  BY <1>2, <2>1 DEF PoolTypeInv, Ends, Goes
<1> QED  BY <1>1, <1>2

\* The same of a request that begins.
LEMMA PoolBegins ==
  ASSUME PoolTypeInv, NEW r \in PoolReqs, NEW l \in Places \ {"idle"},
         NEW saw \in PoolNaming, NEW wants \in PoolNaming \cup {NoPool},
         preq' = [preq EXCEPT ![r] = [at |-> l, saw |-> saw, wants |-> wants]]
  PROVE  /\ preq' \in [PoolReqs -> PoolAsks] /\ \A q \in PoolReqs \ {r} : preq'[q] = preq[q]
         /\ preq'[r].at = l /\ preq'[r].saw = saw /\ preq'[r].wants = wants
BY DEF PoolTypeInv, PoolAsks, Places

\* A step that does not touch the names, and no request's being ahead of them.
LEMMA NamesStay ==
  ASSUME PoolNamesInv, poolRow' = poolRow, poolNames' = poolNames, poolMarks \subseteq poolMarks',
         Somewhere("mkpool") => Somewhere("mkpool")',
         NEW r \in PoolReqs, \A q \in PoolReqs \ {r} : preq'[q] = preq[q],
         r \in ThinAhead' <=> r \in ThinAhead, r \in VgAhead' <=> r \in VgAhead
  PROVE  PoolNamesInv'
<1>1. ThinAhead' = ThinAhead  BY DEF ThinAhead
<1>2. VgAhead' = VgAhead  BY DEF VgAhead
<1> QED  BY <1>1, <1>2 DEF PoolNamesInv, PoolThere

LEMMA PoolInvNext == ASSUME PoolInv, PoolsNext PROVE PoolInv'
<1>1. ASSUME NEW r \in PoolReqs, storagePoolDBCreate(r) PROVE PoolInv'
  <2>1. (\A l \in Places \ {"idle"} : Goto(r, l) => Goes(r, l)) /\ (Ends(r) => Goes(r, "idle"))
    BY PoolGoes DEF PoolInv
  <2>5. /\ At(r, "idle") /\ ~PoolThere /\ poolRow' = FreshPool /\ Goes(r, "mkpool")
        /\ poolMarks \subseteq poolMarks' /\ ("raced" \notin poolMarks' => \A q \in PoolReqs \ {r} : preq[q].at \notin Removing \cup Updating \cup OnVolume)
        /\ UNCHANGED <<driver, poolDisk, poolNames, reachable, volRow, volDisk>>
      BY <1>1, <2>1 DEF storagePoolDBCreate, Meets, PoolMark, FreshPool,  Places, Making, Removing,
      Updating, OnVolume
  <2>10. PoolTypeInv'  BY <2>5, PoolRows DEF PoolInv, PoolTypeInv, Goes, DiskNames, PoolThere, At
  <2>11. PoolUpdateInv'
    BY <2>5, PoolRows DEF PoolInv, PoolUpdateInv, Updating, At, PoolTypeInv, Goes
  <2>12. PoolAloneInv'
    <3> SUFFICES ASSUME "raced" \notin poolMarks', NEW p \in PoolReqs PROVE Alone(p)'
      BY DEF PoolAloneInv
    <3>1. (\A q \in PoolReqs : Alone(q)) /\ \A q \in PoolReqs \ {r} : preq[q].at \notin Removing \cup Updating \cup OnVolume
      BY <2>5 DEF PoolInv, PoolAloneInv
    <3>2. \A q \in PoolReqs \ {r} : preq[q].at \in {"idle"} \cup Making \cup Removing \cup Updating \cup OnVolume
      BY DEF PoolInv, PoolTypeInv, PoolAsks
    <3>3. \A q \in PoolReqs \ {r} : preq[q].at = "idle"
      BY <2>5, <3>1, <3>2, PoolRows DEF Alone, PoolThere, Making, Removing, Updating, OnVolume, At
    <3>4. CASE p = r
      BY <2>5, <3>1, <3>2, <3>3, <3>4, PoolRows DEF PoolInv, PoolTypeInv, Alone, At, Goes, PoolThere, Making, Removing, Updating, OnVolume
    <3>5. CASE p # r
      BY <2>5, <3>1, <3>2, <3>3, <3>5 DEF Alone, At, Goes, PoolThere, Making, Removing, Updating, OnVolume
    <3> QED  BY <3>4, <3>5
  <2>13. PoolDiskInv'
    BY <2>5, PoolRows DEF PoolInv, PoolTypeInv, Goes, PoolAloneInv, Alone, At, PoolThere, FreshPool,
      Making, Removing, Updating, OnVolume, PoolDiskInv, Somewhere, Full
  <2>14. PoolReachInv'
    BY <2>5, PoolRows DEF PoolInv, PoolTypeInv, Goes, PoolAloneInv, Alone, At, PoolThere, FreshPool,
      Making, Removing, Updating, OnVolume, PoolUpdateInv, PoolDiskInv, PoolReachInv, Somewhere, Full
  <2>15. PoolVolumeInv'
    BY <2>5, PoolRows DEF PoolInv, PoolTypeInv, Goes, PoolAloneInv, Alone, At, PoolThere, FreshPool,
      Making, Removing, Updating, OnVolume, PoolVolumeInv, Somewhere
  <2>16. PoolNamesInv'
    <3>1. Somewhere("mkpool")'  BY <2>5 DEF Somewhere, At, Goes
    <3> QED  BY <3>1 DEF PoolNamesInv
  <2> QED  BY <2>10, <2>11, <2>12, <2>13, <2>14, <2>15, <2>16 DEF PoolInv
<1>2. ASSUME NEW r \in PoolReqs, StoragePoolCreate(r) PROVE PoolInv'
  <2>1. (\A l \in Places \ {"idle"} : Goto(r, l) => Goes(r, l)) /\ (Ends(r) => Goes(r, "idle"))
    BY PoolGoes DEF PoolInv
  <2> DEFINE O1 ==
         /\ At(r, "mkpool") /\ Goes(r, "mkrow")
         /\ poolDisk' = Full /\ poolNames' = NamesOf(NewPool) /\ reachable' = TRUE
         /\ UNCHANGED <<driver, poolRow, volRow, volDisk, poolMarks>>
  <2> DEFINE O2 ==
         /\ At(r, "mkpool") /\ Goes(r, "idle") /\ poolRow' = NoPool /\ volRow' = FALSE
         /\ "layout" \in poolDisk
         /\ UNCHANGED <<driver, poolDisk, poolNames, reachable, volDisk, poolMarks>>
  <2> DEFINE O3 ==
         /\ At(r, "mkpool") /\ Goes(r, "idle") /\ poolRow' = NoPool /\ volRow' = FALSE
         /\ poolMarks \subseteq poolMarks' /\ (poolDisk' # {} => "leftover" \in poolMarks')
         /\ UNCHANGED <<driver, poolNames, reachable, volDisk>>
  <2>5. O1 \/ O2 \/ O3
      BY <1>2, <2>1 DEF Full, StoragePoolCreate, Refused, PoolMark, dbStoragePoolDelete, Leaves,
      dirLeaves, btrfsLeaves, zfsLeaves, lvmLeaves, PoolInv, PoolTypeInv, Places, Making, Removing,
      Updating, OnVolume
  <2>6. CASE O1
    <3>10. PoolTypeInv'  BY <2>6, PoolRows DEF PoolInv, PoolTypeInv, Goes, DiskNames, PoolThere, At
    <3>11. PoolUpdateInv'
      BY <2>6, PoolRows DEF PoolInv, PoolUpdateInv, Updating, At, PoolTypeInv, Goes
    <3>12. PoolAloneInv'
      BY <2>6, PoolRows DEF PoolInv, PoolTypeInv, Goes, PoolAloneInv, Alone, At, PoolThere,
        FreshPool, Making, Removing, Updating, OnVolume
    <3>13. PoolDiskInv'
      BY <2>6, PoolRows DEF PoolInv, PoolTypeInv, Goes, PoolAloneInv, Alone, At, PoolThere,
        FreshPool, Making, Removing, Updating, OnVolume, PoolDiskInv, Somewhere, Full
    <3>14. PoolReachInv'
      BY <2>6, PoolRows DEF PoolInv, PoolTypeInv, Goes, PoolAloneInv, Alone, At, PoolThere,
        FreshPool, Making, Removing, Updating, OnVolume, PoolUpdateInv, PoolDiskInv, PoolReachInv,
        Somewhere, Full
    <3>15. PoolVolumeInv'
      BY <2>6, PoolRows DEF PoolInv, PoolTypeInv, Goes, PoolAloneInv, Alone, At, PoolThere,
        FreshPool, Making, Removing, Updating, OnVolume, PoolVolumeInv, Somewhere
    <3>16. PoolNamesInv'
      <4> SUFFICES ASSUME "raced" \notin poolMarks', PoolThere' PROVE poolNames'.thin = Turned(poolRow'.thin, ThinAhead') /\ poolNames'.vg = Turned(poolRow'.vg, VgAhead')
        BY DEF PoolNamesInv
      <4>1. poolNames' = NamesOf(NewPool) /\ poolRow'.thin = 1 /\ poolRow'.vg = 1
        BY <2>6, PoolRows DEF PoolInv, PoolAloneInv, Alone, At, Making, PoolThere
      <4>2. \A q \in PoolReqs : preq'[q].at \notin {"vg", "update"}
        BY <2>6 DEF PoolInv, PoolAloneInv, Alone, At, Making, Goes
      <4>3. ThinAhead' = {} /\ VgAhead' = {}  BY <4>2 DEF ThinAhead, VgAhead
      <4>4. Turned(1, {}) = 1  BY FS_EmptySet DEF Turned
      <4> QED  BY <4>1, <4>3, <4>4, PoolRows
    <3> QED  BY <3>10, <3>11, <3>12, <3>13, <3>14, <3>15, <3>16 DEF PoolInv
  <2>7. CASE O2
    <3>10. PoolTypeInv'  BY <2>7, PoolRows DEF PoolInv, PoolTypeInv, Goes, DiskNames, PoolThere, At
    <3>11. PoolUpdateInv'
      BY <2>7, PoolRows DEF PoolInv, PoolUpdateInv, Updating, At, PoolTypeInv, Goes
    <3>12. PoolAloneInv'
      BY <2>7, PoolRows DEF PoolInv, PoolTypeInv, Goes, PoolAloneInv, Alone, At, PoolThere,
        FreshPool, Making, Removing, Updating, OnVolume
    <3>13. PoolDiskInv'
      BY <2>7, PoolRows DEF PoolInv, PoolTypeInv, Goes, PoolAloneInv, Alone, At, PoolThere,
        FreshPool, Making, Removing, Updating, OnVolume, PoolDiskInv, Somewhere, Full
    <3>14. PoolReachInv'
      BY <2>7, PoolRows DEF PoolInv, PoolTypeInv, Goes, PoolAloneInv, Alone, At, PoolThere,
        FreshPool, Making, Removing, Updating, OnVolume, PoolUpdateInv, PoolDiskInv, PoolReachInv,
        Somewhere, Full
    <3>15. PoolVolumeInv'
      BY <2>7, PoolRows DEF PoolInv, PoolTypeInv, Goes, PoolAloneInv, Alone, At, PoolThere,
        FreshPool, Making, Removing, Updating, OnVolume, PoolVolumeInv, Somewhere
    <3>16. PoolNamesInv'
      <4> QED  BY <2>7, PoolRows DEF PoolNamesInv, PoolThere
    <3> QED  BY <3>10, <3>11, <3>12, <3>13, <3>14, <3>15, <3>16 DEF PoolInv
  <2>8. CASE O3
    <3>10. PoolTypeInv'  BY <2>8, PoolRows DEF PoolInv, PoolTypeInv, Goes, DiskNames, PoolThere, At
    <3>11. PoolUpdateInv'
      BY <2>8, PoolRows DEF PoolInv, PoolUpdateInv, Updating, At, PoolTypeInv, Goes
    <3>12. PoolAloneInv'
      BY <2>8, PoolRows DEF PoolInv, PoolTypeInv, Goes, PoolAloneInv, Alone, At, PoolThere,
        FreshPool, Making, Removing, Updating, OnVolume
    <3>13. PoolDiskInv'
      BY <2>8, PoolRows DEF PoolInv, PoolTypeInv, Goes, PoolAloneInv, Alone, At, PoolThere,
        FreshPool, Making, Removing, Updating, OnVolume, PoolDiskInv, Somewhere, Full
    <3>14. PoolReachInv'
      BY <2>8, PoolRows DEF PoolInv, PoolTypeInv, Goes, PoolAloneInv, Alone, At, PoolThere,
        FreshPool, Making, Removing, Updating, OnVolume, PoolUpdateInv, PoolDiskInv, PoolReachInv,
        Somewhere, Full
    <3>15. PoolVolumeInv'
      BY <2>8, PoolRows DEF PoolInv, PoolTypeInv, Goes, PoolAloneInv, Alone, At, PoolThere,
        FreshPool, Making, Removing, Updating, OnVolume, PoolVolumeInv, Somewhere
    <3>16. PoolNamesInv'
      <4> QED  BY <2>8, PoolRows DEF PoolNamesInv, PoolThere
    <3> QED  BY <3>10, <3>11, <3>12, <3>13, <3>14, <3>15, <3>16 DEF PoolInv
  <2> QED  BY <2>5, <2>6, <2>7, <2>8
<1>3. ASSUME NEW r \in PoolReqs, storagePoolCreateInternal(r) PROVE PoolInv'
  <2>1. (\A l \in Places \ {"idle"} : Goto(r, l) => Goes(r, l)) /\ (Ends(r) => Goes(r, "idle"))
    BY PoolGoes DEF PoolInv
  <2> DEFINE O1 ==
         /\ At(r, "mkrow") /\ Goes(r, "idle")
         /\ poolRow' = (IF PoolThere THEN NewPool ELSE NoPool)
         /\ UNCHANGED <<driver, poolDisk, poolNames, reachable, volRow, volDisk, poolMarks>>
  <2> DEFINE O2 ==
         /\ At(r, "mkrow") /\ Goes(r, "idle") /\ poolRow' = NoPool /\ volRow' = FALSE
         /\ poolDisk' = {} /\ reachable' = FALSE /\ volDisk' = FALSE
         /\ UNCHANGED <<driver, poolNames, poolMarks>>
  <2>5. O1 \/ O2
      BY <1>3, <2>1 DEF storagePoolCreateInternal, PoolMark, dbStoragePoolDelete, Places, Making,
      Removing, Updating, OnVolume
  <2>6. CASE O1
    <3>10. PoolTypeInv'  BY <2>6, PoolRows DEF PoolInv, PoolTypeInv, Goes, DiskNames, PoolThere, At
    <3>11. PoolUpdateInv'
      BY <2>6, PoolRows DEF PoolInv, PoolUpdateInv, Updating, At, PoolTypeInv, Goes
    <3>12. PoolAloneInv'
      BY <2>6, PoolRows DEF PoolInv, PoolTypeInv, Goes, PoolAloneInv, Alone, At, PoolThere,
        FreshPool, Making, Removing, Updating, OnVolume
    <3>13. PoolDiskInv'
      BY <2>6, PoolRows DEF PoolInv, PoolTypeInv, Goes, PoolAloneInv, Alone, At, PoolThere,
        FreshPool, Making, Removing, Updating, OnVolume, PoolDiskInv, Somewhere, Full
    <3>14. PoolReachInv'
      BY <2>6, PoolRows DEF PoolInv, PoolTypeInv, Goes, PoolAloneInv, Alone, At, PoolThere,
        FreshPool, Making, Removing, Updating, OnVolume, PoolUpdateInv, PoolDiskInv, PoolReachInv,
        Somewhere, Full
    <3>15. PoolVolumeInv'
      BY <2>6, PoolRows DEF PoolInv, PoolTypeInv, Goes, PoolAloneInv, Alone, At, PoolThere,
        FreshPool, Making, Removing, Updating, OnVolume, PoolVolumeInv, Somewhere
    <3>16. PoolNamesInv'
      <4> SUFFICES ASSUME "raced" \notin poolMarks', PoolThere' PROVE poolNames'.thin = Turned(poolRow'.thin, ThinAhead') /\ poolNames'.vg = Turned(poolRow'.vg, VgAhead')
        BY DEF PoolNamesInv
      <4>1. poolNames' = NamesOf(NewPool) /\ poolRow'.thin = 1 /\ poolRow'.vg = 1
        BY <2>6, PoolRows DEF PoolInv, PoolAloneInv, Alone, At, Making, PoolThere
      <4>2. \A q \in PoolReqs : preq'[q].at \notin {"vg", "update"}
        BY <2>6 DEF PoolInv, PoolAloneInv, Alone, At, Making, Goes
      <4>3. ThinAhead' = {} /\ VgAhead' = {}  BY <4>2 DEF ThinAhead, VgAhead
      <4>4. Turned(1, {}) = 1  BY FS_EmptySet DEF Turned
      <4> QED  BY <4>1, <4>3, <4>4, PoolRows
    <3> QED  BY <3>10, <3>11, <3>12, <3>13, <3>14, <3>15, <3>16 DEF PoolInv
  <2>7. CASE O2
    <3>10. PoolTypeInv'  BY <2>7, PoolRows DEF PoolInv, PoolTypeInv, Goes, DiskNames, PoolThere, At
    <3>11. PoolUpdateInv'
      BY <2>7, PoolRows DEF PoolInv, PoolUpdateInv, Updating, At, PoolTypeInv, Goes
    <3>12. PoolAloneInv'
      BY <2>7, PoolRows DEF PoolInv, PoolTypeInv, Goes, PoolAloneInv, Alone, At, PoolThere,
        FreshPool, Making, Removing, Updating, OnVolume
    <3>13. PoolDiskInv'
      BY <2>7, PoolRows DEF PoolInv, PoolTypeInv, Goes, PoolAloneInv, Alone, At, PoolThere,
        FreshPool, Making, Removing, Updating, OnVolume, PoolDiskInv, Somewhere, Full
    <3>14. PoolReachInv'
      BY <2>7, PoolRows DEF PoolInv, PoolTypeInv, Goes, PoolAloneInv, Alone, At, PoolThere,
        FreshPool, Making, Removing, Updating, OnVolume, PoolUpdateInv, PoolDiskInv, PoolReachInv,
        Somewhere, Full
    <3>15. PoolVolumeInv'
      BY <2>7, PoolRows DEF PoolInv, PoolTypeInv, Goes, PoolAloneInv, Alone, At, PoolThere,
        FreshPool, Making, Removing, Updating, OnVolume, PoolVolumeInv, Somewhere
    <3>16. PoolNamesInv'
      <4> QED  BY <2>7, PoolRows DEF PoolNamesInv, PoolThere
    <3> QED  BY <3>10, <3>11, <3>12, <3>13, <3>14, <3>15, <3>16 DEF PoolInv
  <2> QED  BY <2>5, <2>6, <2>7
<1>4. ASSUME NEW r \in PoolReqs, storagePoolDelete(r) PROVE PoolInv'
  <2>1. (\A l \in Places \ {"idle"} : Goto(r, l) => Goes(r, l)) /\ (Ends(r) => Goes(r, "idle"))
    BY PoolGoes DEF PoolInv
  <2>5. /\ At(r, "idle") /\ PoolThere /\ ~volRow /\ Goes(r, "rmpool")
        /\ poolMarks \subseteq poolMarks' /\ ("raced" \notin poolMarks' => \A q \in PoolReqs \ {r} : preq[q].at \notin Making \cup Updating \cup OnVolume)
        /\ UNCHANGED <<driver, poolRow, poolDisk, poolNames, reachable, volRow, volDisk>>
    BY <1>4, <2>1 DEF storagePoolDelete, Meets, PoolMark, Places, Making, Removing, Updating, OnVolume
  <2>10. PoolTypeInv'  BY <2>5 DEF PoolInv, PoolTypeInv, Goes, DiskNames, PoolThere, At
  <2>11. PoolUpdateInv'  BY <2>5 DEF PoolInv, PoolUpdateInv, Updating, At, PoolTypeInv, Goes
  <2>12. PoolAloneInv'
    <3> SUFFICES ASSUME "raced" \notin poolMarks', NEW p \in PoolReqs PROVE Alone(p)'
      BY DEF PoolAloneInv
    <3>1. (\A q \in PoolReqs : Alone(q)) /\ \A q \in PoolReqs \ {r} : preq[q].at \notin Making \cup Updating \cup OnVolume
      BY <2>5 DEF PoolInv, PoolAloneInv
    <3>2. \A q \in PoolReqs \ {r} : preq[q].at \in {"idle"} \cup Making \cup Removing \cup Updating \cup OnVolume
      BY DEF PoolInv, PoolTypeInv, PoolAsks
    <3>3. \A q \in PoolReqs \ {r} : preq[q].at \in {"idle"} \cup Removing
      BY <2>5, <3>1, <3>2, PoolRows DEF Alone, PoolThere, Making, Removing, Updating, OnVolume, At
    <3>4. CASE p = r
      BY <2>5, <3>1, <3>2, <3>3, <3>4, PoolRows DEF PoolInv, PoolTypeInv, Alone, At, Goes, PoolThere, Making, Removing, Updating, OnVolume
    <3>5. CASE p # r
      BY <2>5, <3>1, <3>2, <3>3, <3>5 DEF Alone, At, Goes, PoolThere, Making, Removing, Updating, OnVolume
    <3> QED  BY <3>4, <3>5
  <2>13. PoolDiskInv'
    BY <2>5 DEF PoolInv, PoolTypeInv, Goes, PoolAloneInv, Alone, At, PoolThere, FreshPool, Making,
      Removing, Updating, OnVolume, PoolDiskInv, Somewhere, Full
  <2>14. PoolReachInv'
    BY <2>5 DEF PoolInv, PoolTypeInv, Goes, PoolAloneInv, Alone, At, PoolThere, FreshPool, Making,
      Removing, Updating, OnVolume, PoolUpdateInv, PoolDiskInv, PoolReachInv, Somewhere, Full
  <2>15. PoolVolumeInv'
    BY <2>5 DEF PoolInv, PoolTypeInv, Goes, PoolAloneInv, Alone, At, PoolThere, FreshPool, Making,
      Removing, Updating, OnVolume, PoolVolumeInv, Somewhere
  <2>16. PoolNamesInv'
    <3>1. r \in ThinAhead' <=> r \in ThinAhead  BY <2>5 DEF At, Goes, ThinAhead, PoolInv, PoolUpdateInv, Updating
    <3>2. r \in VgAhead' <=> r \in VgAhead  BY <2>5 DEF At, Goes, VgAhead
    <3>3. Somewhere("mkpool") => Somewhere("mkpool")'  BY <2>5 DEF Somewhere, At, Goes
    <3> QED  BY <2>5, <3>1, <3>2, <3>3, NamesStay DEF Goes, PoolInv
  <2> QED  BY <2>10, <2>11, <2>12, <2>13, <2>14, <2>15, <2>16 DEF PoolInv
<1>5. ASSUME NEW r \in PoolReqs, StoragePoolDelete(r) PROVE PoolInv'
  <2>1. (\A l \in Places \ {"idle"} : Goto(r, l) => Goes(r, l)) /\ (Ends(r) => Goes(r, "idle"))
    BY PoolGoes DEF PoolInv
  <2> DEFINE O1 ==
         /\ At(r, "rmpool") /\ PoolThere /\ Goes(r, "rmrow")
         /\ reachable' = FALSE /\ volDisk' = FALSE /\ poolMarks \subseteq poolMarks'
         /\ poolDisk' = {} \/ "sourcelost" \in poolMarks'
         /\ UNCHANGED <<driver, poolRow, poolNames, volRow>>
  <2> DEFINE O2 ==
         /\ At(r, "rmpool") /\ PoolThere /\ Goes(r, "idle")
         /\ poolDisk' \subseteq poolDisk /\ poolMarks \subseteq poolMarks'
         /\ poolDisk' # Full => "halfdone" \in poolMarks'
         /\ reachable' = (reachable /\ poolDisk' = Full) /\ volDisk' = (volDisk /\ poolDisk' = Full)
         /\ UNCHANGED <<driver, poolRow, poolNames, volRow>>
  <2> DEFINE O3 ==
         /\ At(r, "rmpool") /\ Goes(r, "idle")
         /\ UNCHANGED <<driver, poolRow, poolDisk, poolNames, reachable, volRow, volDisk, poolMarks>>
  <2>5. O1 \/ O2 \/ O3
      BY <1>5, <2>1 DEF StoragePoolDelete, KeepsFile, PoolMark, Remains, Places, Making, Removing,
      Updating, OnVolume
  <2>6. CASE O1
    <3>10. PoolTypeInv'  BY <2>6 DEF PoolInv, PoolTypeInv, Goes, DiskNames, PoolThere, At
    <3>11. PoolUpdateInv'  BY <2>6 DEF PoolInv, PoolUpdateInv, Updating, At, PoolTypeInv, Goes
    <3>12. PoolAloneInv'
      BY <2>6 DEF PoolInv, PoolTypeInv, Goes, PoolAloneInv, Alone, At, PoolThere, FreshPool, Making,
        Removing, Updating, OnVolume
    <3>13. PoolDiskInv'
      BY <2>6 DEF PoolInv, PoolTypeInv, Goes, PoolAloneInv, Alone, At, PoolThere, FreshPool, Making,
        Removing, Updating, OnVolume, PoolDiskInv, Somewhere, Full
    <3>14. PoolReachInv'
      BY <2>6 DEF PoolInv, PoolTypeInv, Goes, PoolAloneInv, Alone, At, PoolThere, FreshPool, Making,
        Removing, Updating, OnVolume, PoolUpdateInv, PoolDiskInv, PoolReachInv, Somewhere, Full
    <3>15. PoolVolumeInv'
      BY <2>6 DEF PoolInv, PoolTypeInv, Goes, PoolAloneInv, Alone, At, PoolThere, FreshPool, Making,
        Removing, Updating, OnVolume, PoolVolumeInv, Somewhere
    <3>16. PoolNamesInv'
      <4>1. r \in ThinAhead' <=> r \in ThinAhead  BY <2>6 DEF At, Goes, ThinAhead, PoolInv, PoolUpdateInv, Updating
      <4>2. r \in VgAhead' <=> r \in VgAhead  BY <2>6 DEF At, Goes, VgAhead
      <4>3. Somewhere("mkpool") => Somewhere("mkpool")'  BY <2>6 DEF Somewhere, At, Goes
      <4> QED  BY <2>6, <4>1, <4>2, <4>3, NamesStay DEF Goes, PoolInv
    <3> QED  BY <3>10, <3>11, <3>12, <3>13, <3>14, <3>15, <3>16 DEF PoolInv
  <2>7. CASE O2
    <3>10. PoolTypeInv'  BY <2>7 DEF PoolInv, PoolTypeInv, Goes, DiskNames, PoolThere, At
    <3>11. PoolUpdateInv'  BY <2>7 DEF PoolInv, PoolUpdateInv, Updating, At, PoolTypeInv, Goes
    <3>12. PoolAloneInv'
      BY <2>7 DEF PoolInv, PoolTypeInv, Goes, PoolAloneInv, Alone, At, PoolThere, FreshPool, Making,
        Removing, Updating, OnVolume
    <3>13. PoolDiskInv'
      BY <2>7 DEF PoolInv, PoolTypeInv, Goes, PoolAloneInv, Alone, At, PoolThere, FreshPool, Making,
        Removing, Updating, OnVolume, PoolDiskInv, Somewhere, Full
    <3>14. PoolReachInv'
      BY <2>7 DEF PoolInv, PoolTypeInv, Goes, PoolAloneInv, Alone, At, PoolThere, FreshPool, Making,
        Removing, Updating, OnVolume, PoolUpdateInv, PoolDiskInv, PoolReachInv, Somewhere, Full
    <3>15. PoolVolumeInv'
      BY <2>7 DEF PoolInv, PoolTypeInv, Goes, PoolAloneInv, Alone, At, PoolThere, FreshPool, Making,
        Removing, Updating, OnVolume, PoolVolumeInv, Somewhere
    <3>16. PoolNamesInv'
      <4>1. r \in ThinAhead' <=> r \in ThinAhead  BY <2>7 DEF At, Goes, ThinAhead, PoolInv, PoolUpdateInv, Updating
      <4>2. r \in VgAhead' <=> r \in VgAhead  BY <2>7 DEF At, Goes, VgAhead
      <4>3. Somewhere("mkpool") => Somewhere("mkpool")'  BY <2>7 DEF Somewhere, At, Goes
      <4> QED  BY <2>7, <4>1, <4>2, <4>3, NamesStay DEF Goes, PoolInv
    <3> QED  BY <3>10, <3>11, <3>12, <3>13, <3>14, <3>15, <3>16 DEF PoolInv
  <2>8. CASE O3
    <3>10. PoolTypeInv'  BY <2>8 DEF PoolInv, PoolTypeInv, Goes, DiskNames, PoolThere, At
    <3>11. PoolUpdateInv'  BY <2>8 DEF PoolInv, PoolUpdateInv, Updating, At, PoolTypeInv, Goes
    <3>12. PoolAloneInv'
      BY <2>8 DEF PoolInv, PoolTypeInv, Goes, PoolAloneInv, Alone, At, PoolThere, FreshPool, Making,
        Removing, Updating, OnVolume
    <3>13. PoolDiskInv'
      BY <2>8 DEF PoolInv, PoolTypeInv, Goes, PoolAloneInv, Alone, At, PoolThere, FreshPool, Making,
        Removing, Updating, OnVolume, PoolDiskInv, Somewhere, Full
    <3>14. PoolReachInv'
      BY <2>8 DEF PoolInv, PoolTypeInv, Goes, PoolAloneInv, Alone, At, PoolThere, FreshPool, Making,
        Removing, Updating, OnVolume, PoolUpdateInv, PoolDiskInv, PoolReachInv, Somewhere, Full
    <3>15. PoolVolumeInv'
      BY <2>8 DEF PoolInv, PoolTypeInv, Goes, PoolAloneInv, Alone, At, PoolThere, FreshPool, Making,
        Removing, Updating, OnVolume, PoolVolumeInv, Somewhere
    <3>16. PoolNamesInv'
      <4>1. r \in ThinAhead' <=> r \in ThinAhead  BY <2>8 DEF At, Goes, ThinAhead, PoolInv, PoolUpdateInv, Updating
      <4>2. r \in VgAhead' <=> r \in VgAhead  BY <2>8 DEF At, Goes, VgAhead
      <4>3. Somewhere("mkpool") => Somewhere("mkpool")'  BY <2>8 DEF Somewhere, At, Goes
      <4> QED  BY <2>8, <4>1, <4>2, <4>3, NamesStay DEF Goes, PoolInv
    <3> QED  BY <3>10, <3>11, <3>12, <3>13, <3>14, <3>15, <3>16 DEF PoolInv
  <2> QED  BY <2>5, <2>6, <2>7, <2>8
<1>6. ASSUME NEW r \in PoolReqs, DeletePoolRow(r) PROVE PoolInv'
  <2>1. (\A l \in Places \ {"idle"} : Goto(r, l) => Goes(r, l)) /\ (Ends(r) => Goes(r, "idle"))
    BY PoolGoes DEF PoolInv
  <2> DEFINE O1 ==
         /\ At(r, "rmrow") /\ Goes(r, "idle") /\ poolRow' = NoPool /\ volRow' = FALSE
         /\ UNCHANGED <<driver, poolDisk, poolNames, reachable, volDisk, poolMarks>>
  <2> DEFINE O2 ==
         /\ At(r, "rmrow") /\ Goes(r, "idle")
         /\ poolMarks' = poolMarks \cup {"halfdone"}
         /\ UNCHANGED <<driver, poolRow, poolDisk, poolNames, reachable, volRow, volDisk>>
  <2>5. O1 \/ O2
      BY <1>6, <2>1 DEF DeletePoolRow, PoolMark, dbStoragePoolDelete, Places, Making, Removing,
      Updating, OnVolume
  <2>6. CASE O1
    <3>10. PoolTypeInv'  BY <2>6, PoolRows DEF PoolInv, PoolTypeInv, Goes, DiskNames, PoolThere, At
    <3>11. PoolUpdateInv'
      BY <2>6, PoolRows DEF PoolInv, PoolUpdateInv, Updating, At, PoolTypeInv, Goes
    <3>12. PoolAloneInv'
      BY <2>6, PoolRows DEF PoolInv, PoolTypeInv, Goes, PoolAloneInv, Alone, At, PoolThere,
        FreshPool, Making, Removing, Updating, OnVolume
    <3>13. PoolDiskInv'
      BY <2>6, PoolRows DEF PoolInv, PoolTypeInv, Goes, PoolAloneInv, Alone, At, PoolThere,
        FreshPool, Making, Removing, Updating, OnVolume, PoolDiskInv, Somewhere, Full
    <3>14. PoolReachInv'
      BY <2>6, PoolRows DEF PoolInv, PoolTypeInv, Goes, PoolAloneInv, Alone, At, PoolThere,
        FreshPool, Making, Removing, Updating, OnVolume, PoolUpdateInv, PoolDiskInv, PoolReachInv,
        Somewhere, Full
    <3>15. PoolVolumeInv'
      BY <2>6, PoolRows DEF PoolInv, PoolTypeInv, Goes, PoolAloneInv, Alone, At, PoolThere,
        FreshPool, Making, Removing, Updating, OnVolume, PoolVolumeInv, Somewhere
    <3>16. PoolNamesInv'
      <4> QED  BY <2>6, PoolRows DEF PoolNamesInv, PoolThere
    <3> QED  BY <3>10, <3>11, <3>12, <3>13, <3>14, <3>15, <3>16 DEF PoolInv
  <2>7. CASE O2
    <3>10. PoolTypeInv'  BY <2>7, PoolRows DEF PoolInv, PoolTypeInv, Goes, DiskNames, PoolThere, At
    <3>11. PoolUpdateInv'
      BY <2>7, PoolRows DEF PoolInv, PoolUpdateInv, Updating, At, PoolTypeInv, Goes
    <3>12. PoolAloneInv'
      BY <2>7, PoolRows DEF PoolInv, PoolTypeInv, Goes, PoolAloneInv, Alone, At, PoolThere,
        FreshPool, Making, Removing, Updating, OnVolume
    <3>13. PoolDiskInv'
      BY <2>7, PoolRows DEF PoolInv, PoolTypeInv, Goes, PoolAloneInv, Alone, At, PoolThere,
        FreshPool, Making, Removing, Updating, OnVolume, PoolDiskInv, Somewhere, Full
    <3>14. PoolReachInv'
      BY <2>7, PoolRows DEF PoolInv, PoolTypeInv, Goes, PoolAloneInv, Alone, At, PoolThere,
        FreshPool, Making, Removing, Updating, OnVolume, PoolUpdateInv, PoolDiskInv, PoolReachInv,
        Somewhere, Full
    <3>15. PoolVolumeInv'
      BY <2>7, PoolRows DEF PoolInv, PoolTypeInv, Goes, PoolAloneInv, Alone, At, PoolThere,
        FreshPool, Making, Removing, Updating, OnVolume, PoolVolumeInv, Somewhere
    <3>16. PoolNamesInv'
      <4> QED  BY <2>7, PoolRows DEF PoolNamesInv, PoolThere
    <3> QED  BY <3>10, <3>11, <3>12, <3>13, <3>14, <3>15, <3>16 DEF PoolInv
  <2> QED  BY <2>5, <2>6, <2>7
<1>7. ASSUME NEW r \in PoolReqs, NEW keys \in SUBSET Changeable, storagePoolUpdate(r, keys) PROVE PoolInv'
  <2>1. poolRow \in PoolNaming  BY <1>7 DEF PoolInv, PoolTypeInv, PoolThere, storagePoolUpdate
  <2> DEFINE l == IF "thin" \in keys THEN "thin" ELSE "vg"
             w == [vg   |-> IF "vg" \in keys THEN 3 - poolRow.vg ELSE poolRow.vg,
                   thin |-> IF "thin" \in keys THEN 3 - poolRow.thin ELSE poolRow.thin,
                   loop |-> poolRow.loop /\ "vg" \notin keys]
  <2>2. /\ w \in PoolNaming /\ l \in Updating /\ driver = "lvm"
        /\ l = "thin" => w.thin = 3 - poolRow.thin
        /\ l = "vg" => w.vg = 3 - poolRow.vg /\ w.thin = poolRow.thin
    <3>1. driver = "lvm" /\ keys \subseteq {"thin", "vg"} /\ keys # {}
      BY <1>7 DEF storagePoolUpdate, Changeable
    <3>2. poolRow.vg \in {1, 2} /\ poolRow.thin \in {1, 2} /\ poolRow.loop \in BOOLEAN
      BY <2>1 DEF PoolNaming
    <3>3. w \in PoolNaming  BY <3>2 DEF PoolNaming
    <3> QED  BY <3>1, <3>2, <3>3 DEF Updating
  <2>3. preq' = [preq EXCEPT ![r] = [at |-> l, saw |-> poolRow, wants |-> w]]  BY <1>7 DEF storagePoolUpdate
  <2> HIDE DEF l, w
  <2>4. /\ preq' \in [PoolReqs -> PoolAsks] /\ \A q \in PoolReqs \ {r} : preq'[q] = preq[q]
        /\ preq'[r].at = l /\ preq'[r].saw = poolRow /\ preq'[r].wants = w /\ l \in {"thin", "vg"}
    BY <2>1, <2>2, <2>3, PoolBegins DEF PoolInv, Places, Updating, l
  <2>5. /\ At(r, "idle") /\ PoolThere
        /\ poolMarks \subseteq poolMarks' /\ ("raced" \notin poolMarks' => \A q \in PoolReqs \ {r} : preq[q].at \notin Making \cup Removing)
        /\ UNCHANGED <<driver, poolRow, poolDisk, poolNames, reachable, volRow, volDisk>>
    BY <1>7 DEF storagePoolUpdate, Meets, PoolMark
  <2>10. PoolTypeInv'
    BY <2>5, <2>1, <2>2, <2>4 DEF PoolInv, PoolTypeInv, Goes, DiskNames, PoolThere, At
  <2>11. PoolUpdateInv'
    BY <2>5, <2>1, <2>2, <2>4 DEF PoolInv, PoolUpdateInv, Updating, At, PoolTypeInv, Goes
  <2>12. PoolAloneInv'
    BY <2>5, <2>1, <2>2, <2>4 DEF PoolInv, PoolTypeInv, Goes, PoolAloneInv, Alone, At, PoolThere,
      FreshPool, Making, Removing, Updating, OnVolume
  <2>13. PoolDiskInv'
    BY <2>5, <2>1, <2>2, <2>4 DEF PoolInv, PoolTypeInv, Goes, PoolAloneInv, Alone, At, PoolThere,
      FreshPool, Making, Removing, Updating, OnVolume, PoolDiskInv, Somewhere, Full
  <2>14. PoolReachInv'
    BY <2>5, <2>1, <2>2, <2>4 DEF PoolInv, PoolTypeInv, Goes, PoolAloneInv, Alone, At, PoolThere,
      FreshPool, Making, Removing, Updating, OnVolume, PoolUpdateInv, PoolDiskInv, PoolReachInv,
      Somewhere, Full
  <2>15. PoolVolumeInv'
    BY <2>5, <2>1, <2>2, <2>4 DEF PoolInv, PoolTypeInv, Goes, PoolAloneInv, Alone, At, PoolThere,
      FreshPool, Making, Removing, Updating, OnVolume, PoolVolumeInv, Somewhere
  <2>16. PoolNamesInv'
    <3>1. r \in ThinAhead' <=> r \in ThinAhead  BY <2>5, <2>2, <2>4 DEF At, Goes, ThinAhead, PoolInv, PoolUpdateInv, Updating
    <3>2. r \in VgAhead' <=> r \in VgAhead  BY <2>5, <2>2, <2>4 DEF At, Goes, VgAhead
    <3>3. Somewhere("mkpool") => Somewhere("mkpool")'  BY <2>5, <2>2, <2>4 DEF Somewhere, At, Goes
    <3> QED  BY <2>5, <3>1, <3>2, <3>3, NamesStay, <2>2, <2>4 DEF Goes, PoolInv
  <2> QED  BY <2>10, <2>11, <2>12, <2>13, <2>14, <2>15, <2>16 DEF PoolInv
<1>8. ASSUME NEW r \in PoolReqs, RenameThinpool(r) PROVE PoolInv'
  <2>1. (\A l \in Places \ {"idle"} : Goto(r, l) => Goes(r, l)) /\ (Ends(r) => Goes(r, "idle"))
    BY PoolGoes DEF PoolInv
  <2>2. (IF preq[r].wants.vg = preq[r].saw.vg THEN "update" ELSE "vg") \in Places \ {"idle"}
    BY DEF Places, Updating
  <2> DEFINE O1 ==
         /\ At(r, "thin") /\ Goes(r, IF preq[r].wants.vg = preq[r].saw.vg THEN "update" ELSE "vg")
         /\ poolNames.thin = preq[r].saw.thin /\ poolNames.vg = preq[r].saw.vg
         /\ poolNames' = [poolNames EXCEPT !.thin = preq[r].wants.thin]
         /\ UNCHANGED <<driver, poolRow, poolDisk, reachable, volRow, volDisk, poolMarks>>
  <2> DEFINE O2 ==
         /\ At(r, "thin") /\ Goes(r, "idle")
         /\ UNCHANGED <<driver, poolRow, poolDisk, poolNames, reachable, volRow, volDisk, poolMarks>>
  <2>5. O1 \/ O2
      BY <1>8, <2>1, <2>2 DEF RenameThinpool, Found, At, PoolFault, Places, Making, Removing,
      Updating, OnVolume
  <2>6. CASE O1
    <3>10. PoolTypeInv'
      <4>0. preq[r].saw \in PoolNaming /\ preq[r].wants \in PoolNaming
        BY <2>6 DEF PoolInv, PoolUpdateInv, Updating, At
      <4>1. poolNames' \in DiskNames  BY <2>6, <4>0, PoolNamed DEF PoolInv, PoolTypeInv, DiskNames
      <4> QED  BY <2>6, <4>1, PoolRows DEF PoolInv, PoolTypeInv, PoolThere, Goes
    <3>11. PoolUpdateInv'
      <4>1. preq[r].saw.vg \in {1, 2} /\ preq[r].wants.vg \in {1, 2}
        BY <2>6 DEF PoolInv, PoolUpdateInv, Updating, At, PoolNaming
      <4> QED  BY <2>6, <4>1 DEF PoolInv, PoolUpdateInv, Updating, At, Goes
    <3>12. PoolAloneInv'
      BY <2>6 DEF PoolInv, PoolTypeInv, Goes, PoolAloneInv, Alone, At, PoolThere, FreshPool, Making,
        Removing, Updating, OnVolume
    <3>13. PoolDiskInv'
      BY <2>6 DEF PoolInv, PoolTypeInv, Goes, PoolAloneInv, Alone, At, PoolThere, FreshPool, Making,
        Removing, Updating, OnVolume, PoolDiskInv, Somewhere, Full
    <3>14. PoolReachInv'
      BY <2>6 DEF PoolInv, PoolTypeInv, Goes, PoolAloneInv, Alone, At, PoolThere, FreshPool, Making,
        Removing, Updating, OnVolume, PoolUpdateInv, PoolDiskInv, PoolReachInv, Somewhere, Full
    <3>15. PoolVolumeInv'
      BY <2>6 DEF PoolInv, PoolTypeInv, Goes, PoolAloneInv, Alone, At, PoolThere, FreshPool, Making,
        Removing, Updating, OnVolume, PoolVolumeInv, Somewhere
    <3>16. PoolNamesInv'
      <4> SUFFICES ASSUME poolMarks' \cap {"raced", "halfdone", "renamed", "stale"} = {}, PoolThere', ~Somewhere("mkpool")'
               PROVE poolNames'.thin = Turned(poolRow'.thin, ThinAhead') /\ poolNames'.vg = Turned(poolRow'.vg, VgAhead')
        BY DEF PoolNamesInv
      <4>1. poolMarks \cap {"raced", "halfdone", "renamed", "stale"} = {} /\ "raced" \notin poolMarks  BY <2>6
      <4>2. PoolThere /\ poolRow \in PoolNaming /\ preq[r].saw \in PoolNaming /\ preq[r].wants \in PoolNaming /\ poolNames \in DiskNames
        BY <2>6, <4>1 DEF PoolInv, PoolTypeInv, PoolUpdateInv, PoolAloneInv, Alone, Updating, At, PoolThere
      <4>3. ~Somewhere("mkpool")
        BY <2>6, <4>1 DEF PoolInv, PoolAloneInv, Alone, Somewhere, Making, At
      <4>4. poolNames.thin = Turned(poolRow.thin, ThinAhead) /\ poolNames.vg = Turned(poolRow.vg, VgAhead)
        BY <4>1, <4>2, <4>3 DEF PoolInv, PoolNamesInv
      <4>5. /\ poolRow.thin \in {1, 2} /\ poolRow.vg \in {1, 2}
           /\ preq[r].saw.thin \in {1, 2} /\ preq[r].saw.vg \in {1, 2}
           /\ preq[r].wants.thin \in {1, 2} /\ preq[r].wants.vg \in {1, 2}
        BY <4>2, PoolNamed
      <4>6. preq[r].wants.thin = 3 - preq[r].saw.thin  BY <2>6 DEF PoolInv, PoolUpdateInv, Updating, At
      <4>7. poolNames'.thin = 3 - poolNames.thin /\ poolNames'.vg = poolNames.vg
        BY <2>6, <4>2, <4>6 DEF DiskNames
      <4>8. r \notin ThinAhead  BY <2>6 DEF ThinAhead, At
      <4>9. ThinAhead' = ThinAhead \cup {r}  BY <2>6, <4>5, <4>6 DEF ThinAhead, Goes
      <4>10. VgAhead' = VgAhead  BY <2>6 DEF VgAhead, Goes, At
      <4>11. Turned(poolRow.thin, ThinAhead') = 3 - Turned(poolRow.thin, ThinAhead)
        BY <4>5, <4>8, <4>9, TurnAdd, AheadFinite
      <4> QED  BY <2>6, <4>4, <4>7, <4>10, <4>11
    <3> QED  BY <3>10, <3>11, <3>12, <3>13, <3>14, <3>15, <3>16 DEF PoolInv
  <2>7. CASE O2
    <3>10. PoolTypeInv'  BY <2>7 DEF PoolInv, PoolTypeInv, Goes, DiskNames, PoolThere, At
    <3>11. PoolUpdateInv'  BY <2>7 DEF PoolInv, PoolUpdateInv, Updating, At, PoolTypeInv, Goes
    <3>12. PoolAloneInv'
      BY <2>7 DEF PoolInv, PoolTypeInv, Goes, PoolAloneInv, Alone, At, PoolThere, FreshPool, Making,
        Removing, Updating, OnVolume
    <3>13. PoolDiskInv'
      BY <2>7 DEF PoolInv, PoolTypeInv, Goes, PoolAloneInv, Alone, At, PoolThere, FreshPool, Making,
        Removing, Updating, OnVolume, PoolDiskInv, Somewhere, Full
    <3>14. PoolReachInv'
      BY <2>7 DEF PoolInv, PoolTypeInv, Goes, PoolAloneInv, Alone, At, PoolThere, FreshPool, Making,
        Removing, Updating, OnVolume, PoolUpdateInv, PoolDiskInv, PoolReachInv, Somewhere, Full
    <3>15. PoolVolumeInv'
      BY <2>7 DEF PoolInv, PoolTypeInv, Goes, PoolAloneInv, Alone, At, PoolThere, FreshPool, Making,
        Removing, Updating, OnVolume, PoolVolumeInv, Somewhere
    <3>16. PoolNamesInv'
      <4>1. r \in ThinAhead' <=> r \in ThinAhead  BY <2>7 DEF At, Goes, ThinAhead, PoolInv, PoolUpdateInv, Updating
      <4>2. r \in VgAhead' <=> r \in VgAhead  BY <2>7 DEF At, Goes, VgAhead
      <4>3. Somewhere("mkpool") => Somewhere("mkpool")'  BY <2>7 DEF Somewhere, At, Goes
      <4> QED  BY <2>7, <4>1, <4>2, <4>3, NamesStay DEF Goes, PoolInv
    <3> QED  BY <3>10, <3>11, <3>12, <3>13, <3>14, <3>15, <3>16 DEF PoolInv
  <2> QED  BY <2>5, <2>6, <2>7
<1>9. ASSUME NEW r \in PoolReqs, RenameVolumeGroup(r) PROVE PoolInv'
  <2>1. (\A l \in Places \ {"idle"} : Goto(r, l) => Goes(r, l)) /\ (Ends(r) => Goes(r, "idle"))
    BY PoolGoes DEF PoolInv
  <2> DEFINE O1 ==
         /\ At(r, "vg") /\ Goes(r, "update") /\ Found(r)
         /\ poolNames' = [poolNames EXCEPT !.vg = preq[r].wants.vg]
         /\ UNCHANGED <<driver, poolRow, poolDisk, reachable, volRow, volDisk, poolMarks>>
  <2> DEFINE O2 ==
         /\ At(r, "vg") /\ Goes(r, "idle")
         /\ preq[r].wants.thin = preq[r].saw.thin
         /\ UNCHANGED <<driver, poolRow, poolDisk, poolNames, reachable, volRow, volDisk, poolMarks>>
  <2> DEFINE O3 ==
         /\ At(r, "vg") /\ Goes(r, "idle") /\ preq[r].wants.thin # preq[r].saw.thin
         /\ poolNames.thin = preq[r].wants.thin
         /\ poolNames' = [poolNames EXCEPT !.thin = preq[r].saw.thin]
         /\ UNCHANGED <<driver, poolRow, poolDisk, reachable, volRow, volDisk, poolMarks>>
  <2> DEFINE O4 ==
         /\ At(r, "vg") /\ Goes(r, "idle")
         /\ poolMarks' = poolMarks \cup {"renamed"}
         /\ UNCHANGED <<driver, poolRow, poolDisk, poolNames, reachable, volRow, volDisk>>
  <2>5. O1 \/ O2 \/ O3 \/ O4
      BY <1>9, <2>1 DEF RenameVolumeGroup, RevertThinpool, PoolMark, Places, Making, Removing,
      Updating, OnVolume
  <2>6. CASE O1
    <3>10. PoolTypeInv'
      <4>0. preq[r].saw \in PoolNaming /\ preq[r].wants \in PoolNaming
        BY <2>6 DEF PoolInv, PoolUpdateInv, Updating, At
      <4>1. poolNames' \in DiskNames  BY <2>6, <4>0, PoolNamed DEF PoolInv, PoolTypeInv, DiskNames
      <4> QED  BY <2>6, <4>1, PoolRows DEF PoolInv, PoolTypeInv, PoolThere, Goes
    <3>11. PoolUpdateInv'  BY <2>6 DEF PoolInv, PoolUpdateInv, Updating, At, PoolTypeInv, Goes
    <3>12. PoolAloneInv'
      BY <2>6 DEF PoolInv, PoolTypeInv, Goes, PoolAloneInv, Alone, At, PoolThere, FreshPool, Making,
        Removing, Updating, OnVolume
    <3>13. PoolDiskInv'
      BY <2>6 DEF PoolInv, PoolTypeInv, Goes, PoolAloneInv, Alone, At, PoolThere, FreshPool, Making,
        Removing, Updating, OnVolume, PoolDiskInv, Somewhere, Full
    <3>14. PoolReachInv'
      BY <2>6 DEF PoolInv, PoolTypeInv, Goes, PoolAloneInv, Alone, At, PoolThere, FreshPool, Making,
        Removing, Updating, OnVolume, PoolUpdateInv, PoolDiskInv, PoolReachInv, Somewhere, Full
    <3>15. PoolVolumeInv'
      BY <2>6 DEF PoolInv, PoolTypeInv, Goes, PoolAloneInv, Alone, At, PoolThere, FreshPool, Making,
        Removing, Updating, OnVolume, PoolVolumeInv, Somewhere
    <3>16. PoolNamesInv'
      <4> SUFFICES ASSUME poolMarks' \cap {"raced", "halfdone", "renamed", "stale"} = {}, PoolThere', ~Somewhere("mkpool")'
               PROVE poolNames'.thin = Turned(poolRow'.thin, ThinAhead') /\ poolNames'.vg = Turned(poolRow'.vg, VgAhead')
        BY DEF PoolNamesInv
      <4>1. poolMarks \cap {"raced", "halfdone", "renamed", "stale"} = {} /\ "raced" \notin poolMarks  BY <2>6
      <4>2. PoolThere /\ poolRow \in PoolNaming /\ preq[r].saw \in PoolNaming /\ preq[r].wants \in PoolNaming /\ poolNames \in DiskNames
        BY <2>6, <4>1 DEF PoolInv, PoolTypeInv, PoolUpdateInv, PoolAloneInv, Alone, Updating, At, PoolThere
      <4>3. ~Somewhere("mkpool")
        BY <2>6, <4>1 DEF PoolInv, PoolAloneInv, Alone, Somewhere, Making, At
      <4>4. poolNames.thin = Turned(poolRow.thin, ThinAhead) /\ poolNames.vg = Turned(poolRow.vg, VgAhead)
        BY <4>1, <4>2, <4>3 DEF PoolInv, PoolNamesInv
      <4>5. /\ poolRow.thin \in {1, 2} /\ poolRow.vg \in {1, 2}
           /\ preq[r].saw.thin \in {1, 2} /\ preq[r].saw.vg \in {1, 2}
           /\ preq[r].wants.thin \in {1, 2} /\ preq[r].wants.vg \in {1, 2}
        BY <4>2, PoolNamed
      <4>6. preq[r].wants.vg = 3 - preq[r].saw.vg  BY <2>6 DEF PoolInv, PoolUpdateInv, Updating, At
      <4>7. poolNames'.vg = 3 - poolNames.vg /\ poolNames'.thin = poolNames.thin
        BY <2>6, <4>2, <4>6 DEF DiskNames, Found
      <4>8. r \notin VgAhead  BY <2>6 DEF VgAhead, At
      <4>9. VgAhead' = VgAhead \cup {r}  BY <2>6, <4>5, <4>6 DEF VgAhead, Goes
      <4>10. ThinAhead' = ThinAhead  BY <2>6 DEF ThinAhead, Goes, At
      <4>11. Turned(poolRow.vg, VgAhead') = 3 - Turned(poolRow.vg, VgAhead)
        BY <4>5, <4>8, <4>9, TurnAdd, AheadFinite
      <4> QED  BY <2>6, <4>4, <4>7, <4>10, <4>11
    <3> QED  BY <3>10, <3>11, <3>12, <3>13, <3>14, <3>15, <3>16 DEF PoolInv
  <2>7. CASE O2
    <3>10. PoolTypeInv'  BY <2>7 DEF PoolInv, PoolTypeInv, Goes, DiskNames, PoolThere, At
    <3>11. PoolUpdateInv'  BY <2>7 DEF PoolInv, PoolUpdateInv, Updating, At, PoolTypeInv, Goes
    <3>12. PoolAloneInv'
      BY <2>7 DEF PoolInv, PoolTypeInv, Goes, PoolAloneInv, Alone, At, PoolThere, FreshPool, Making,
        Removing, Updating, OnVolume
    <3>13. PoolDiskInv'
      BY <2>7 DEF PoolInv, PoolTypeInv, Goes, PoolAloneInv, Alone, At, PoolThere, FreshPool, Making,
        Removing, Updating, OnVolume, PoolDiskInv, Somewhere, Full
    <3>14. PoolReachInv'
      BY <2>7 DEF PoolInv, PoolTypeInv, Goes, PoolAloneInv, Alone, At, PoolThere, FreshPool, Making,
        Removing, Updating, OnVolume, PoolUpdateInv, PoolDiskInv, PoolReachInv, Somewhere, Full
    <3>15. PoolVolumeInv'
      BY <2>7 DEF PoolInv, PoolTypeInv, Goes, PoolAloneInv, Alone, At, PoolThere, FreshPool, Making,
        Removing, Updating, OnVolume, PoolVolumeInv, Somewhere
    <3>16. PoolNamesInv'
      <4>1. r \in ThinAhead' <=> r \in ThinAhead  BY <2>7 DEF At, Goes, ThinAhead, PoolInv, PoolUpdateInv, Updating
      <4>2. r \in VgAhead' <=> r \in VgAhead  BY <2>7 DEF At, Goes, VgAhead
      <4>3. Somewhere("mkpool") => Somewhere("mkpool")'  BY <2>7 DEF Somewhere, At, Goes
      <4> QED  BY <2>7, <4>1, <4>2, <4>3, NamesStay DEF Goes, PoolInv
    <3> QED  BY <3>10, <3>11, <3>12, <3>13, <3>14, <3>15, <3>16 DEF PoolInv
  <2>8. CASE O3
    <3>10. PoolTypeInv'
      <4>0. preq[r].saw \in PoolNaming /\ preq[r].wants \in PoolNaming
        BY <2>8 DEF PoolInv, PoolUpdateInv, Updating, At
      <4>1. poolNames' \in DiskNames  BY <2>8, <4>0, PoolNamed DEF PoolInv, PoolTypeInv, DiskNames
      <4> QED  BY <2>8, <4>1, PoolRows DEF PoolInv, PoolTypeInv, PoolThere, Goes
    <3>11. PoolUpdateInv'  BY <2>8 DEF PoolInv, PoolUpdateInv, Updating, At, PoolTypeInv, Goes
    <3>12. PoolAloneInv'
      BY <2>8 DEF PoolInv, PoolTypeInv, Goes, PoolAloneInv, Alone, At, PoolThere, FreshPool, Making,
        Removing, Updating, OnVolume
    <3>13. PoolDiskInv'
      BY <2>8 DEF PoolInv, PoolTypeInv, Goes, PoolAloneInv, Alone, At, PoolThere, FreshPool, Making,
        Removing, Updating, OnVolume, PoolDiskInv, Somewhere, Full
    <3>14. PoolReachInv'
      BY <2>8 DEF PoolInv, PoolTypeInv, Goes, PoolAloneInv, Alone, At, PoolThere, FreshPool, Making,
        Removing, Updating, OnVolume, PoolUpdateInv, PoolDiskInv, PoolReachInv, Somewhere, Full
    <3>15. PoolVolumeInv'
      BY <2>8 DEF PoolInv, PoolTypeInv, Goes, PoolAloneInv, Alone, At, PoolThere, FreshPool, Making,
        Removing, Updating, OnVolume, PoolVolumeInv, Somewhere
    <3>16. PoolNamesInv'
      <4> SUFFICES ASSUME poolMarks' \cap {"raced", "halfdone", "renamed", "stale"} = {}, PoolThere', ~Somewhere("mkpool")'
               PROVE poolNames'.thin = Turned(poolRow'.thin, ThinAhead') /\ poolNames'.vg = Turned(poolRow'.vg, VgAhead')
        BY DEF PoolNamesInv
      <4>1. poolMarks \cap {"raced", "halfdone", "renamed", "stale"} = {} /\ "raced" \notin poolMarks  BY <2>8
      <4>2. PoolThere /\ poolRow \in PoolNaming /\ preq[r].saw \in PoolNaming /\ preq[r].wants \in PoolNaming /\ poolNames \in DiskNames
        BY <2>8, <4>1 DEF PoolInv, PoolTypeInv, PoolUpdateInv, PoolAloneInv, Alone, Updating, At, PoolThere
      <4>3. ~Somewhere("mkpool")
        BY <2>8, <4>1 DEF PoolInv, PoolAloneInv, Alone, Somewhere, Making, At
      <4>4. poolNames.thin = Turned(poolRow.thin, ThinAhead) /\ poolNames.vg = Turned(poolRow.vg, VgAhead)
        BY <4>1, <4>2, <4>3 DEF PoolInv, PoolNamesInv
      <4>5. /\ poolRow.thin \in {1, 2} /\ poolRow.vg \in {1, 2}
           /\ preq[r].saw.thin \in {1, 2} /\ preq[r].saw.vg \in {1, 2}
           /\ preq[r].wants.thin \in {1, 2} /\ preq[r].wants.vg \in {1, 2}
        BY <4>2, PoolNamed
      <4>6. preq[r].wants.thin = 3 - preq[r].saw.thin  BY <2>8, <4>5
      <4>7. poolNames'.thin = 3 - poolNames.thin /\ poolNames'.vg = poolNames.vg
        BY <2>8, <4>2, <4>5, <4>6 DEF DiskNames
      <4>8. r \in ThinAhead  BY <2>8 DEF ThinAhead, At
      <4>9. ThinAhead' = ThinAhead \ {r}  BY <2>8 DEF ThinAhead, Goes
      <4>10. VgAhead' = VgAhead  BY <2>8 DEF VgAhead, Goes, At
      <4>11. Turned(poolRow.thin, ThinAhead') = 3 - Turned(poolRow.thin, ThinAhead)
        BY <4>5, <4>8, <4>9, TurnRemove, AheadFinite
      <4> QED  BY <2>8, <4>4, <4>7, <4>10, <4>11
    <3> QED  BY <3>10, <3>11, <3>12, <3>13, <3>14, <3>15, <3>16 DEF PoolInv
  <2>9. CASE O4
    <3>10. PoolTypeInv'  BY <2>9 DEF PoolInv, PoolTypeInv, Goes, DiskNames, PoolThere, At
    <3>11. PoolUpdateInv'  BY <2>9 DEF PoolInv, PoolUpdateInv, Updating, At, PoolTypeInv, Goes
    <3>12. PoolAloneInv'
      BY <2>9 DEF PoolInv, PoolTypeInv, Goes, PoolAloneInv, Alone, At, PoolThere, FreshPool, Making,
        Removing, Updating, OnVolume
    <3>13. PoolDiskInv'
      BY <2>9 DEF PoolInv, PoolTypeInv, Goes, PoolAloneInv, Alone, At, PoolThere, FreshPool, Making,
        Removing, Updating, OnVolume, PoolDiskInv, Somewhere, Full
    <3>14. PoolReachInv'
      BY <2>9 DEF PoolInv, PoolTypeInv, Goes, PoolAloneInv, Alone, At, PoolThere, FreshPool, Making,
        Removing, Updating, OnVolume, PoolUpdateInv, PoolDiskInv, PoolReachInv, Somewhere, Full
    <3>15. PoolVolumeInv'
      BY <2>9 DEF PoolInv, PoolTypeInv, Goes, PoolAloneInv, Alone, At, PoolThere, FreshPool, Making,
        Removing, Updating, OnVolume, PoolVolumeInv, Somewhere
    <3>16. PoolNamesInv'
      <4> QED  BY <2>9, PoolRows DEF PoolNamesInv, PoolThere
    <3> QED  BY <3>10, <3>11, <3>12, <3>13, <3>14, <3>15, <3>16 DEF PoolInv
  <2> QED  BY <2>5, <2>6, <2>7, <2>8, <2>9
<1>10. ASSUME NEW r \in PoolReqs, dbStoragePoolUpdate(r) PROVE PoolInv'
  <2>1. (\A l \in Places \ {"idle"} : Goto(r, l) => Goes(r, l)) /\ (Ends(r) => Goes(r, "idle"))
    BY PoolGoes DEF PoolInv
  <2> DEFINE O1 ==
         /\ At(r, "update") /\ Goes(r, "idle")
         /\ poolRow' = (IF PoolThere THEN preq[r].wants ELSE NoPool)
         /\ poolMarks \subseteq poolMarks' /\ (poolRow # preq[r].saw => "stale" \in poolMarks')
         /\ preq[r].saw.loop /\ ~preq[r].wants.loop => "sourcelost" \in poolMarks'
         /\ UNCHANGED <<driver, poolDisk, poolNames, reachable, volRow, volDisk>>
  <2> DEFINE O2 ==
         /\ At(r, "update") /\ Goes(r, "idle")
         /\ poolMarks' = poolMarks \cup {"renamed"}
         /\ UNCHANGED <<driver, poolRow, poolDisk, poolNames, reachable, volRow, volDisk>>
  <2>5. O1 \/ O2
    BY <1>10, <2>1 DEF dbStoragePoolUpdate, PoolMark, Places, Making, Removing, Updating, OnVolume
  <2>6. CASE O1
    <3>10. PoolTypeInv'
      <4>1. preq[r].wants \in PoolNaming  BY <2>6 DEF PoolInv, PoolUpdateInv, Updating, At
      <4> QED  BY <2>6, <4>1, PoolRows DEF PoolInv, PoolTypeInv, PoolThere, Goes
    <3>11. PoolUpdateInv'  BY <2>6 DEF PoolInv, PoolUpdateInv, Updating, At, PoolTypeInv, Goes
    <3>12. PoolAloneInv'
      <4>1. "raced" \notin poolMarks' => PoolThere /\ poolRow' \in PoolNaming /\ poolRow' = preq[r].wants /\ \A q \in PoolReqs \ {r} : preq[q].at \notin Making \cup Removing
        BY <2>6 DEF PoolInv, PoolUpdateInv, PoolAloneInv, Alone, Making, Removing, Updating, OnVolume, PoolThere, At
      <4> QED
        BY <2>6, <4>1, PoolRows DEF PoolInv, PoolTypeInv, Goes, PoolAloneInv, Alone, At, PoolThere, FreshPool, Making,
          Removing, Updating, OnVolume, PoolAloneInv, Somewhere, Full, PoolUpdateInv
    <3>13. PoolDiskInv'
      <4>1. "raced" \notin poolMarks' => PoolThere /\ poolRow' \in PoolNaming /\ poolRow' = preq[r].wants /\ \A q \in PoolReqs \ {r} : preq[q].at \notin Making \cup Removing
        BY <2>6 DEF PoolInv, PoolUpdateInv, PoolAloneInv, Alone, Making, Removing, Updating, OnVolume, PoolThere, At
      <4> QED
        BY <2>6, <4>1, PoolRows DEF PoolInv, PoolTypeInv, Goes, PoolAloneInv, Alone, At, PoolThere, FreshPool, Making,
          Removing, Updating, OnVolume, PoolDiskInv, Somewhere, Full, PoolUpdateInv
    <3>14. PoolReachInv'
      <4>1. "raced" \notin poolMarks' => PoolThere /\ poolRow' \in PoolNaming /\ poolRow' = preq[r].wants /\ \A q \in PoolReqs \ {r} : preq[q].at \notin Making \cup Removing
        BY <2>6 DEF PoolInv, PoolUpdateInv, PoolAloneInv, Alone, Making, Removing, Updating, OnVolume, PoolThere, At
      <4> QED
        BY <2>6, <4>1, PoolRows DEF PoolInv, PoolTypeInv, Goes, PoolAloneInv, Alone, At, PoolThere, FreshPool, Making,
          Removing, Updating, OnVolume, PoolReachInv, Somewhere, Full, PoolUpdateInv
    <3>15. PoolVolumeInv'
      <4>1. "raced" \notin poolMarks' => PoolThere /\ poolRow' \in PoolNaming /\ poolRow' = preq[r].wants /\ \A q \in PoolReqs \ {r} : preq[q].at \notin Making \cup Removing
        BY <2>6 DEF PoolInv, PoolUpdateInv, PoolAloneInv, Alone, Making, Removing, Updating, OnVolume, PoolThere, At
      <4> QED
        BY <2>6, <4>1, PoolRows DEF PoolInv, PoolTypeInv, Goes, PoolAloneInv, Alone, At, PoolThere, FreshPool, Making,
          Removing, Updating, OnVolume, PoolVolumeInv, Somewhere, Full, PoolUpdateInv
    <3>16. PoolNamesInv'
      <4> SUFFICES ASSUME poolMarks' \cap {"raced", "halfdone", "renamed", "stale"} = {}, PoolThere', ~Somewhere("mkpool")'
               PROVE poolNames'.thin = Turned(poolRow'.thin, ThinAhead') /\ poolNames'.vg = Turned(poolRow'.vg, VgAhead')
        BY DEF PoolNamesInv
      <4>1. poolMarks \cap {"raced", "halfdone", "renamed", "stale"} = {} /\ "raced" \notin poolMarks  BY <2>6
      <4>2. PoolThere /\ poolRow \in PoolNaming /\ preq[r].saw \in PoolNaming /\ preq[r].wants \in PoolNaming /\ poolNames \in DiskNames
        BY <2>6, <4>1 DEF PoolInv, PoolTypeInv, PoolUpdateInv, PoolAloneInv, Alone, Updating, At, PoolThere
      <4>3. ~Somewhere("mkpool")
        BY <2>6, <4>1 DEF PoolInv, PoolAloneInv, Alone, Somewhere, Making, At
      <4>4. poolNames.thin = Turned(poolRow.thin, ThinAhead) /\ poolNames.vg = Turned(poolRow.vg, VgAhead)
        BY <4>1, <4>2, <4>3 DEF PoolInv, PoolNamesInv
      <4>5. /\ poolRow.thin \in {1, 2} /\ poolRow.vg \in {1, 2}
           /\ preq[r].saw.thin \in {1, 2} /\ preq[r].saw.vg \in {1, 2}
           /\ preq[r].wants.thin \in {1, 2} /\ preq[r].wants.vg \in {1, 2}
        BY <4>2, PoolNamed
      <4>6. poolRow = preq[r].saw /\ poolRow' = preq[r].wants /\ poolNames' = poolNames  BY <2>6, <4>2
      <4>7. ThinAhead' = ThinAhead \ {r}  BY <2>6 DEF ThinAhead, Goes
      <4>8. VgAhead' = VgAhead \ {r}  BY <2>6 DEF VgAhead, Goes
      <4>9. Turned(poolRow'.thin, ThinAhead') = Turned(poolRow.thin, ThinAhead)
        <5>1. CASE r \in ThinAhead
          <6>1. poolRow'.thin = 3 - poolRow.thin  BY <4>5, <4>6, <5>1 DEF ThinAhead
          <6>2. Turned(poolRow.thin, ThinAhead') = 3 - Turned(poolRow.thin, ThinAhead)
            BY <4>5, <4>7, <5>1, TurnRemove, AheadFinite
          <6>3. Turned(poolRow.thin, ThinAhead) \in {1, 2}  BY <4>5, TurnOther, AheadFinite
          <6>4. Turned(poolRow'.thin, ThinAhead') = 3 - Turned(poolRow.thin, ThinAhead')
            <7>1. IsFiniteSet(ThinAhead')  BY <4>7, FS_RemoveElement, FS_Subset, AheadFinite
            <7> QED  BY <4>5, <7>1, <6>1, TurnOther
          <6> QED  BY <6>2, <6>3, <6>4
        <5>2. CASE r \notin ThinAhead
          <6>1. poolRow'.thin = poolRow.thin  BY <2>6, <4>6, <5>2 DEF ThinAhead, At
          <6> QED  BY <4>7, <5>2, <6>1
        <5> QED  BY <5>1, <5>2
      <4>10. Turned(poolRow'.vg, VgAhead') = Turned(poolRow.vg, VgAhead)
        <5>1. CASE r \in VgAhead
          <6>1. poolRow'.vg = 3 - poolRow.vg  BY <4>5, <4>6, <5>1 DEF VgAhead
          <6>2. Turned(poolRow.vg, VgAhead') = 3 - Turned(poolRow.vg, VgAhead)
            BY <4>5, <4>8, <5>1, TurnRemove, AheadFinite
          <6>3. Turned(poolRow.vg, VgAhead) \in {1, 2}  BY <4>5, TurnOther, AheadFinite
          <6>4. Turned(poolRow'.vg, VgAhead') = 3 - Turned(poolRow.vg, VgAhead')
            <7>1. IsFiniteSet(VgAhead')  BY <4>8, FS_RemoveElement, FS_Subset, AheadFinite
            <7> QED  BY <4>5, <7>1, <6>1, TurnOther
          <6> QED  BY <6>2, <6>3, <6>4
        <5>2. CASE r \notin VgAhead
          <6>1. poolRow'.vg = poolRow.vg  BY <2>6, <4>6, <5>2 DEF VgAhead, At
          <6> QED  BY <4>8, <5>2, <6>1
        <5> QED  BY <5>1, <5>2
      <4> QED  BY <4>4, <4>6, <4>9, <4>10
    <3> QED  BY <3>10, <3>11, <3>12, <3>13, <3>14, <3>15, <3>16 DEF PoolInv
  <2>7. CASE O2
    <3>10. PoolTypeInv'  BY <2>7 DEF PoolInv, PoolTypeInv, Goes, DiskNames, PoolThere, At
    <3>11. PoolUpdateInv'  BY <2>7 DEF PoolInv, PoolUpdateInv, Updating, At, PoolTypeInv, Goes
    <3>12. PoolAloneInv'
      BY <2>7 DEF PoolInv, PoolTypeInv, Goes, PoolAloneInv, Alone, At, PoolThere, FreshPool, Making,
        Removing, Updating, OnVolume
    <3>13. PoolDiskInv'
      BY <2>7 DEF PoolInv, PoolTypeInv, Goes, PoolAloneInv, Alone, At, PoolThere, FreshPool, Making,
        Removing, Updating, OnVolume, PoolDiskInv, Somewhere, Full
    <3>14. PoolReachInv'
      BY <2>7 DEF PoolInv, PoolTypeInv, Goes, PoolAloneInv, Alone, At, PoolThere, FreshPool, Making,
        Removing, Updating, OnVolume, PoolUpdateInv, PoolDiskInv, PoolReachInv, Somewhere, Full
    <3>15. PoolVolumeInv'
      BY <2>7 DEF PoolInv, PoolTypeInv, Goes, PoolAloneInv, Alone, At, PoolThere, FreshPool, Making,
        Removing, Updating, OnVolume, PoolVolumeInv, Somewhere
    <3>16. PoolNamesInv'
      <4> QED  BY <2>7, PoolRows DEF PoolNamesInv, PoolThere
    <3> QED  BY <3>10, <3>11, <3>12, <3>13, <3>14, <3>15, <3>16 DEF PoolInv
  <2> QED  BY <2>5, <2>6, <2>7
<1>11. ASSUME NEW r \in PoolReqs, storagePoolVolumeDBCreate(r) PROVE PoolInv'
  <2>1. poolRow \in PoolNaming  BY <1>11 DEF PoolInv, PoolTypeInv, PoolThere, storagePoolVolumeDBCreate
  <2>2. /\ preq' \in [PoolReqs -> PoolAsks] /\ \A q \in PoolReqs \ {r} : preq'[q] = preq[q]
        /\ preq'[r].at = "mkvol"
    BY <1>11, <2>1, PoolBegins DEF PoolInv, Places, OnVolume, storagePoolVolumeDBCreate
  <2>5. /\ At(r, "idle") /\ PoolThere /\ ~volRow /\ volRow' = TRUE
        /\ poolMarks \subseteq poolMarks' /\ ("raced" \notin poolMarks' => \A q \in PoolReqs \ {r} : preq[q].at \notin Making \cup Removing \cup {"rmvol", "rmvolrow"})
        /\ UNCHANGED <<driver, poolRow, poolDisk, poolNames, reachable, volDisk>>
    BY <1>11 DEF storagePoolVolumeDBCreate, Meets, PoolMark
  <2>10. PoolTypeInv'  BY <2>5, <2>2 DEF PoolInv, PoolTypeInv, Goes, DiskNames, PoolThere, At
  <2>11. PoolUpdateInv'  BY <2>5, <2>2 DEF PoolInv, PoolUpdateInv, Updating, At, PoolTypeInv, Goes
  <2>12. PoolAloneInv'
    <3> SUFFICES ASSUME "raced" \notin poolMarks', NEW p \in PoolReqs PROVE Alone(p)'
      BY DEF PoolAloneInv
    <3>1. (\A q \in PoolReqs : Alone(q)) /\ \A q \in PoolReqs \ {r} : preq[q].at \notin Making \cup Removing \cup {"rmvol", "rmvolrow"}
      BY <2>5, <2>2 DEF PoolInv, PoolAloneInv
    <3>2. \A q \in PoolReqs \ {r} : preq[q].at \in {"idle"} \cup Making \cup Removing \cup Updating \cup OnVolume
      BY DEF PoolInv, PoolTypeInv, PoolAsks
    <3>3. \A q \in PoolReqs \ {r} : preq[q].at \in {"idle"} \cup Updating
      BY <2>5, <2>2, <3>1, <3>2, PoolRows DEF Alone, PoolThere, Making, Removing, Updating, OnVolume, At
    <3>4. CASE p = r
      BY <2>5, <2>2, <3>1, <3>2, <3>3, <3>4, PoolRows DEF PoolInv, PoolTypeInv, Alone, At, Goes, PoolThere, Making, Removing, Updating, OnVolume
    <3>5. CASE p # r
      BY <2>5, <2>2, <3>1, <3>2, <3>3, <3>5 DEF Alone, At, Goes, PoolThere, Making, Removing, Updating, OnVolume
    <3> QED  BY <3>4, <3>5
  <2>13. PoolDiskInv'
    BY <2>5, <2>2 DEF PoolInv, PoolTypeInv, Goes, PoolAloneInv, Alone, At, PoolThere, FreshPool,
      Making, Removing, Updating, OnVolume, PoolDiskInv, Somewhere, Full
  <2>14. PoolReachInv'
    BY <2>5, <2>2 DEF PoolInv, PoolTypeInv, Goes, PoolAloneInv, Alone, At, PoolThere, FreshPool,
      Making, Removing, Updating, OnVolume, PoolUpdateInv, PoolDiskInv, PoolReachInv, Somewhere, Full
  <2>15. PoolVolumeInv'
    BY <2>5, <2>2 DEF PoolInv, PoolTypeInv, Goes, PoolAloneInv, Alone, At, PoolThere, FreshPool,
      Making, Removing, Updating, OnVolume, PoolVolumeInv, Somewhere
  <2>16. PoolNamesInv'
    <3>1. r \in ThinAhead' <=> r \in ThinAhead  BY <2>5, <2>2 DEF At, Goes, ThinAhead, PoolInv, PoolUpdateInv, Updating
    <3>2. r \in VgAhead' <=> r \in VgAhead  BY <2>5, <2>2 DEF At, Goes, VgAhead
    <3>3. Somewhere("mkpool") => Somewhere("mkpool")'  BY <2>5, <2>2 DEF Somewhere, At, Goes
    <3> QED  BY <2>5, <3>1, <3>2, <3>3, NamesStay, <2>2 DEF Goes, PoolInv
  <2> QED  BY <2>10, <2>11, <2>12, <2>13, <2>14, <2>15, <2>16 DEF PoolInv
<1>12. ASSUME NEW r \in PoolReqs, StoragePoolVolumeCreate(r) PROVE PoolInv'
  <2>1. (\A l \in Places \ {"idle"} : Goto(r, l) => Goes(r, l)) /\ (Ends(r) => Goes(r, "idle"))
    BY PoolGoes DEF PoolInv
  <2> DEFINE O1 ==
         /\ At(r, "mkvol") /\ Goes(r, "idle") /\ ~volDisk /\ volDisk' = TRUE
         /\ UNCHANGED <<driver, poolRow, poolDisk, poolNames, reachable, volRow, poolMarks>>
  <2> DEFINE O2 ==
         /\ At(r, "mkvol") /\ Goes(r, "idle") /\ volRow' = FALSE
         /\ UNCHANGED <<driver, poolRow, poolDisk, poolNames, reachable, volDisk, poolMarks>>
  <2>5. O1 \/ O2
      BY <1>12, <2>1 DEF StoragePoolVolumeCreate, VolumeCreateUndo, Places, Making, Removing, Updating,
      OnVolume
  <2>6. CASE O1
    <3>10. PoolTypeInv'  BY <2>6 DEF PoolInv, PoolTypeInv, Goes, DiskNames, PoolThere, At
    <3>11. PoolUpdateInv'  BY <2>6 DEF PoolInv, PoolUpdateInv, Updating, At, PoolTypeInv, Goes
    <3>12. PoolAloneInv'
      BY <2>6 DEF PoolInv, PoolTypeInv, Goes, PoolAloneInv, Alone, At, PoolThere, FreshPool, Making,
        Removing, Updating, OnVolume
    <3>13. PoolDiskInv'
      BY <2>6 DEF PoolInv, PoolTypeInv, Goes, PoolAloneInv, Alone, At, PoolThere, FreshPool, Making,
        Removing, Updating, OnVolume, PoolDiskInv, Somewhere, Full
    <3>14. PoolReachInv'
      BY <2>6 DEF PoolInv, PoolTypeInv, Goes, PoolAloneInv, Alone, At, PoolThere, FreshPool, Making,
        Removing, Updating, OnVolume, PoolUpdateInv, PoolDiskInv, PoolReachInv, Somewhere, Full
    <3>15. PoolVolumeInv'
      BY <2>6 DEF PoolInv, PoolTypeInv, Goes, PoolAloneInv, Alone, At, PoolThere, FreshPool, Making,
        Removing, Updating, OnVolume, PoolVolumeInv, Somewhere
    <3>16. PoolNamesInv'
      <4>1. r \in ThinAhead' <=> r \in ThinAhead  BY <2>6 DEF At, Goes, ThinAhead, PoolInv, PoolUpdateInv, Updating
      <4>2. r \in VgAhead' <=> r \in VgAhead  BY <2>6 DEF At, Goes, VgAhead
      <4>3. Somewhere("mkpool") => Somewhere("mkpool")'  BY <2>6 DEF Somewhere, At, Goes
      <4> QED  BY <2>6, <4>1, <4>2, <4>3, NamesStay DEF Goes, PoolInv
    <3> QED  BY <3>10, <3>11, <3>12, <3>13, <3>14, <3>15, <3>16 DEF PoolInv
  <2>7. CASE O2
    <3>10. PoolTypeInv'  BY <2>7 DEF PoolInv, PoolTypeInv, Goes, DiskNames, PoolThere, At
    <3>11. PoolUpdateInv'  BY <2>7 DEF PoolInv, PoolUpdateInv, Updating, At, PoolTypeInv, Goes
    <3>12. PoolAloneInv'
      BY <2>7 DEF PoolInv, PoolTypeInv, Goes, PoolAloneInv, Alone, At, PoolThere, FreshPool, Making,
        Removing, Updating, OnVolume
    <3>13. PoolDiskInv'
      BY <2>7 DEF PoolInv, PoolTypeInv, Goes, PoolAloneInv, Alone, At, PoolThere, FreshPool, Making,
        Removing, Updating, OnVolume, PoolDiskInv, Somewhere, Full
    <3>14. PoolReachInv'
      BY <2>7 DEF PoolInv, PoolTypeInv, Goes, PoolAloneInv, Alone, At, PoolThere, FreshPool, Making,
        Removing, Updating, OnVolume, PoolUpdateInv, PoolDiskInv, PoolReachInv, Somewhere, Full
    <3>15. PoolVolumeInv'
      BY <2>7 DEF PoolInv, PoolTypeInv, Goes, PoolAloneInv, Alone, At, PoolThere, FreshPool, Making,
        Removing, Updating, OnVolume, PoolVolumeInv, Somewhere
    <3>16. PoolNamesInv'
      <4>1. r \in ThinAhead' <=> r \in ThinAhead  BY <2>7 DEF At, Goes, ThinAhead, PoolInv, PoolUpdateInv, Updating
      <4>2. r \in VgAhead' <=> r \in VgAhead  BY <2>7 DEF At, Goes, VgAhead
      <4>3. Somewhere("mkpool") => Somewhere("mkpool")'  BY <2>7 DEF Somewhere, At, Goes
      <4> QED  BY <2>7, <4>1, <4>2, <4>3, NamesStay DEF Goes, PoolInv
    <3> QED  BY <3>10, <3>11, <3>12, <3>13, <3>14, <3>15, <3>16 DEF PoolInv
  <2> QED  BY <2>5, <2>6, <2>7
<1>13. ASSUME NEW r \in PoolReqs, storagePoolVolumeTypeDelete(r) PROVE PoolInv'
  <2>1. poolRow \in PoolNaming  BY <1>13 DEF PoolInv, PoolTypeInv, PoolThere, storagePoolVolumeTypeDelete
  <2>2. /\ preq' \in [PoolReqs -> PoolAsks] /\ \A q \in PoolReqs \ {r} : preq'[q] = preq[q]
        /\ preq'[r].at = "rmvol"
    BY <1>13, <2>1, PoolBegins DEF PoolInv, Places, OnVolume, storagePoolVolumeTypeDelete
  <2>5. /\ At(r, "idle") /\ PoolThere /\ volRow
        /\ poolMarks \subseteq poolMarks' /\ ("raced" \notin poolMarks' => \A q \in PoolReqs \ {r} : preq[q].at \notin Making \cup Removing \cup OnVolume)
        /\ UNCHANGED <<driver, poolRow, poolDisk, poolNames, reachable, volRow, volDisk>>
    BY <1>13 DEF storagePoolVolumeTypeDelete, Meets, PoolMark
  <2>10. PoolTypeInv'  BY <2>5, <2>2 DEF PoolInv, PoolTypeInv, Goes, DiskNames, PoolThere, At
  <2>11. PoolUpdateInv'  BY <2>5, <2>2 DEF PoolInv, PoolUpdateInv, Updating, At, PoolTypeInv, Goes
  <2>12. PoolAloneInv'
    BY <2>5, <2>2 DEF PoolInv, PoolTypeInv, Goes, PoolAloneInv, Alone, At, PoolThere, FreshPool,
      Making, Removing, Updating, OnVolume
  <2>13. PoolDiskInv'
    BY <2>5, <2>2 DEF PoolInv, PoolTypeInv, Goes, PoolAloneInv, Alone, At, PoolThere, FreshPool,
      Making, Removing, Updating, OnVolume, PoolDiskInv, Somewhere, Full
  <2>14. PoolReachInv'
    BY <2>5, <2>2 DEF PoolInv, PoolTypeInv, Goes, PoolAloneInv, Alone, At, PoolThere, FreshPool,
      Making, Removing, Updating, OnVolume, PoolUpdateInv, PoolDiskInv, PoolReachInv, Somewhere, Full
  <2>15. PoolVolumeInv'
    BY <2>5, <2>2 DEF PoolInv, PoolTypeInv, Goes, PoolAloneInv, Alone, At, PoolThere, FreshPool,
      Making, Removing, Updating, OnVolume, PoolVolumeInv, Somewhere
  <2>16. PoolNamesInv'
    <3>1. r \in ThinAhead' <=> r \in ThinAhead  BY <2>5, <2>2 DEF At, Goes, ThinAhead, PoolInv, PoolUpdateInv, Updating
    <3>2. r \in VgAhead' <=> r \in VgAhead  BY <2>5, <2>2 DEF At, Goes, VgAhead
    <3>3. Somewhere("mkpool") => Somewhere("mkpool")'  BY <2>5, <2>2 DEF Somewhere, At, Goes
    <3> QED  BY <2>5, <3>1, <3>2, <3>3, NamesStay, <2>2 DEF Goes, PoolInv
  <2> QED  BY <2>10, <2>11, <2>12, <2>13, <2>14, <2>15, <2>16 DEF PoolInv
<1>14. ASSUME NEW r \in PoolReqs, StoragePoolVolumeDelete(r) PROVE PoolInv'
  <2>1. (\A l \in Places \ {"idle"} : Goto(r, l) => Goes(r, l)) /\ (Ends(r) => Goes(r, "idle"))
    BY PoolGoes DEF PoolInv
  <2> DEFINE O1 ==
         /\ At(r, "rmvol") /\ Goes(r, "rmvolrow") /\ volDisk' = FALSE
         /\ UNCHANGED <<driver, poolRow, poolDisk, poolNames, reachable, volRow, poolMarks>>
  <2> DEFINE O2 ==
         /\ At(r, "rmvol") /\ Goes(r, "idle")
         /\ UNCHANGED <<driver, poolRow, poolDisk, poolNames, reachable, volRow, volDisk, poolMarks>>
  <2>5. O1 \/ O2
    BY <1>14, <2>1 DEF StoragePoolVolumeDelete, Places, Making, Removing, Updating, OnVolume
  <2>6. CASE O1
    <3>10. PoolTypeInv'  BY <2>6 DEF PoolInv, PoolTypeInv, Goes, DiskNames, PoolThere, At
    <3>11. PoolUpdateInv'  BY <2>6 DEF PoolInv, PoolUpdateInv, Updating, At, PoolTypeInv, Goes
    <3>12. PoolAloneInv'
      BY <2>6 DEF PoolInv, PoolTypeInv, Goes, PoolAloneInv, Alone, At, PoolThere, FreshPool, Making,
        Removing, Updating, OnVolume
    <3>13. PoolDiskInv'
      BY <2>6 DEF PoolInv, PoolTypeInv, Goes, PoolAloneInv, Alone, At, PoolThere, FreshPool, Making,
        Removing, Updating, OnVolume, PoolDiskInv, Somewhere, Full
    <3>14. PoolReachInv'
      BY <2>6 DEF PoolInv, PoolTypeInv, Goes, PoolAloneInv, Alone, At, PoolThere, FreshPool, Making,
        Removing, Updating, OnVolume, PoolUpdateInv, PoolDiskInv, PoolReachInv, Somewhere, Full
    <3>15. PoolVolumeInv'
      BY <2>6 DEF PoolInv, PoolTypeInv, Goes, PoolAloneInv, Alone, At, PoolThere, FreshPool, Making,
        Removing, Updating, OnVolume, PoolVolumeInv, Somewhere
    <3>16. PoolNamesInv'
      <4>1. r \in ThinAhead' <=> r \in ThinAhead  BY <2>6 DEF At, Goes, ThinAhead, PoolInv, PoolUpdateInv, Updating
      <4>2. r \in VgAhead' <=> r \in VgAhead  BY <2>6 DEF At, Goes, VgAhead
      <4>3. Somewhere("mkpool") => Somewhere("mkpool")'  BY <2>6 DEF Somewhere, At, Goes
      <4> QED  BY <2>6, <4>1, <4>2, <4>3, NamesStay DEF Goes, PoolInv
    <3> QED  BY <3>10, <3>11, <3>12, <3>13, <3>14, <3>15, <3>16 DEF PoolInv
  <2>7. CASE O2
    <3>10. PoolTypeInv'  BY <2>7 DEF PoolInv, PoolTypeInv, Goes, DiskNames, PoolThere, At
    <3>11. PoolUpdateInv'  BY <2>7 DEF PoolInv, PoolUpdateInv, Updating, At, PoolTypeInv, Goes
    <3>12. PoolAloneInv'
      BY <2>7 DEF PoolInv, PoolTypeInv, Goes, PoolAloneInv, Alone, At, PoolThere, FreshPool, Making,
        Removing, Updating, OnVolume
    <3>13. PoolDiskInv'
      BY <2>7 DEF PoolInv, PoolTypeInv, Goes, PoolAloneInv, Alone, At, PoolThere, FreshPool, Making,
        Removing, Updating, OnVolume, PoolDiskInv, Somewhere, Full
    <3>14. PoolReachInv'
      BY <2>7 DEF PoolInv, PoolTypeInv, Goes, PoolAloneInv, Alone, At, PoolThere, FreshPool, Making,
        Removing, Updating, OnVolume, PoolUpdateInv, PoolDiskInv, PoolReachInv, Somewhere, Full
    <3>15. PoolVolumeInv'
      BY <2>7 DEF PoolInv, PoolTypeInv, Goes, PoolAloneInv, Alone, At, PoolThere, FreshPool, Making,
        Removing, Updating, OnVolume, PoolVolumeInv, Somewhere
    <3>16. PoolNamesInv'
      <4>1. r \in ThinAhead' <=> r \in ThinAhead  BY <2>7 DEF At, Goes, ThinAhead, PoolInv, PoolUpdateInv, Updating
      <4>2. r \in VgAhead' <=> r \in VgAhead  BY <2>7 DEF At, Goes, VgAhead
      <4>3. Somewhere("mkpool") => Somewhere("mkpool")'  BY <2>7 DEF Somewhere, At, Goes
      <4> QED  BY <2>7, <4>1, <4>2, <4>3, NamesStay DEF Goes, PoolInv
    <3> QED  BY <3>10, <3>11, <3>12, <3>13, <3>14, <3>15, <3>16 DEF PoolInv
  <2> QED  BY <2>5, <2>6, <2>7
<1>15. ASSUME NEW r \in PoolReqs, dbStoragePoolVolumeDelete(r) PROVE PoolInv'
  <2>1. (\A l \in Places \ {"idle"} : Goto(r, l) => Goes(r, l)) /\ (Ends(r) => Goes(r, "idle"))
    BY PoolGoes DEF PoolInv
  <2> DEFINE O1 ==
         /\ At(r, "rmvolrow") /\ Goes(r, "idle") /\ volRow' = FALSE
         /\ UNCHANGED <<driver, poolRow, poolDisk, poolNames, reachable, volDisk, poolMarks>>
  <2> DEFINE O2 ==
         /\ At(r, "rmvolrow") /\ Goes(r, "idle")
         /\ poolMarks' = poolMarks \cup {"halfdone"}
         /\ UNCHANGED <<driver, poolRow, poolDisk, poolNames, reachable, volRow, volDisk>>
  <2>5. O1 \/ O2
      BY <1>15, <2>1 DEF dbStoragePoolVolumeDelete, PoolMark, Places, Making, Removing, Updating,
      OnVolume
  <2>6. CASE O1
    <3>10. PoolTypeInv'  BY <2>6 DEF PoolInv, PoolTypeInv, Goes, DiskNames, PoolThere, At
    <3>11. PoolUpdateInv'  BY <2>6 DEF PoolInv, PoolUpdateInv, Updating, At, PoolTypeInv, Goes
    <3>12. PoolAloneInv'
      BY <2>6 DEF PoolInv, PoolTypeInv, Goes, PoolAloneInv, Alone, At, PoolThere, FreshPool, Making,
        Removing, Updating, OnVolume
    <3>13. PoolDiskInv'
      BY <2>6 DEF PoolInv, PoolTypeInv, Goes, PoolAloneInv, Alone, At, PoolThere, FreshPool, Making,
        Removing, Updating, OnVolume, PoolDiskInv, Somewhere, Full
    <3>14. PoolReachInv'
      BY <2>6 DEF PoolInv, PoolTypeInv, Goes, PoolAloneInv, Alone, At, PoolThere, FreshPool, Making,
        Removing, Updating, OnVolume, PoolUpdateInv, PoolDiskInv, PoolReachInv, Somewhere, Full
    <3>15. PoolVolumeInv'
      BY <2>6 DEF PoolInv, PoolTypeInv, Goes, PoolAloneInv, Alone, At, PoolThere, FreshPool, Making,
        Removing, Updating, OnVolume, PoolVolumeInv, Somewhere
    <3>16. PoolNamesInv'
      <4>1. r \in ThinAhead' <=> r \in ThinAhead  BY <2>6 DEF At, Goes, ThinAhead, PoolInv, PoolUpdateInv, Updating
      <4>2. r \in VgAhead' <=> r \in VgAhead  BY <2>6 DEF At, Goes, VgAhead
      <4>3. Somewhere("mkpool") => Somewhere("mkpool")'  BY <2>6 DEF Somewhere, At, Goes
      <4> QED  BY <2>6, <4>1, <4>2, <4>3, NamesStay DEF Goes, PoolInv
    <3> QED  BY <3>10, <3>11, <3>12, <3>13, <3>14, <3>15, <3>16 DEF PoolInv
  <2>7. CASE O2
    <3>10. PoolTypeInv'  BY <2>7 DEF PoolInv, PoolTypeInv, Goes, DiskNames, PoolThere, At
    <3>11. PoolUpdateInv'  BY <2>7 DEF PoolInv, PoolUpdateInv, Updating, At, PoolTypeInv, Goes
    <3>12. PoolAloneInv'
      BY <2>7 DEF PoolInv, PoolTypeInv, Goes, PoolAloneInv, Alone, At, PoolThere, FreshPool, Making,
        Removing, Updating, OnVolume
    <3>13. PoolDiskInv'
      BY <2>7 DEF PoolInv, PoolTypeInv, Goes, PoolAloneInv, Alone, At, PoolThere, FreshPool, Making,
        Removing, Updating, OnVolume, PoolDiskInv, Somewhere, Full
    <3>14. PoolReachInv'
      BY <2>7 DEF PoolInv, PoolTypeInv, Goes, PoolAloneInv, Alone, At, PoolThere, FreshPool, Making,
        Removing, Updating, OnVolume, PoolUpdateInv, PoolDiskInv, PoolReachInv, Somewhere, Full
    <3>15. PoolVolumeInv'
      BY <2>7 DEF PoolInv, PoolTypeInv, Goes, PoolAloneInv, Alone, At, PoolThere, FreshPool, Making,
        Removing, Updating, OnVolume, PoolVolumeInv, Somewhere
    <3>16. PoolNamesInv'
      <4> QED  BY <2>7, PoolRows DEF PoolNamesInv, PoolThere
    <3> QED  BY <3>10, <3>11, <3>12, <3>13, <3>14, <3>15, <3>16 DEF PoolInv
  <2> QED  BY <2>5, <2>6, <2>7
<1>16. CASE HostRestarts
  <2>5. /\ \A r \in PoolReqs : At(r, "idle")
        /\ reachable' = (reachable /\ (driver = "lvm" => poolRow.loop))
        /\ UNCHANGED <<driver, poolRow, poolDisk, poolNames, volRow, volDisk, poolMarks>> /\ preq' = preq
    BY <1>16 DEF HostRestarts
  <2>10. PoolTypeInv'  BY <2>5 DEF PoolInv, PoolTypeInv, Goes, DiskNames, PoolThere, At
  <2>11. PoolUpdateInv'  BY <2>5 DEF PoolInv, PoolUpdateInv, Updating, At, PoolTypeInv, Goes
  <2>12. PoolAloneInv'
    BY <2>5 DEF PoolInv, PoolTypeInv, Goes, PoolAloneInv, Alone, At, PoolThere, FreshPool, Making,
      Removing, Updating, OnVolume
  <2>13. PoolDiskInv'
    BY <2>5 DEF PoolInv, PoolTypeInv, Goes, PoolAloneInv, Alone, At, PoolThere, FreshPool, Making,
      Removing, Updating, OnVolume, PoolDiskInv, Somewhere, Full
  <2>14. PoolReachInv'
    BY <2>5 DEF PoolInv, PoolTypeInv, Goes, PoolAloneInv, Alone, At, PoolThere, FreshPool, Making,
      Removing, Updating, OnVolume, PoolUpdateInv, PoolDiskInv, PoolReachInv, Somewhere, Full
  <2>15. PoolVolumeInv'
    BY <2>5 DEF PoolInv, PoolTypeInv, Goes, PoolAloneInv, Alone, At, PoolThere, FreshPool, Making,
      Removing, Updating, OnVolume, PoolVolumeInv, Somewhere
  <2>16. PoolNamesInv'
    BY <2>5 DEF PoolInv, PoolTypeInv, Goes, PoolAloneInv, Alone, At, PoolThere, FreshPool, Making,
      Removing, Updating, OnVolume, PoolNamesInv, Somewhere, ThinAhead, VgAhead
  <2> QED  BY <2>10, <2>11, <2>12, <2>13, <2>14, <2>15, <2>16 DEF PoolInv
<1>17. ASSUME NEW r \in PoolReqs, CreateUndoFails(r) PROVE PoolInv'
  <2>1. Ends(r) => Goes(r, "idle")  BY PoolGoes DEF PoolInv
  <2>2. /\ Goes(r, "idle") /\ poolMarks' = poolMarks \cup {"halfdone"} /\ preq[r].at \in Making
        /\ reachable' \in BOOLEAN /\ volDisk' \in BOOLEAN
        /\ (poolRow' = NoPool /\ volRow' = FALSE) \/ UNCHANGED <<poolRow, volRow>>
        /\ UNCHANGED <<driver, poolNames>>
    <3>2. volDisk \in BOOLEAN /\ reachable \in BOOLEAN  BY DEF PoolInv, PoolTypeInv
    <3> QED  BY <1>17, <2>1, <3>2 DEF CreateUndoFails, PoolMark, dbStoragePoolDelete, Making, At
  <2>3. PoolTypeInv'
    <3>1. CASE poolRow' = NoPool /\ volRow' = FALSE  BY <2>2, <3>1 DEF PoolInv, PoolTypeInv, PoolThere, Goes
    <3>2. CASE UNCHANGED <<poolRow, volRow>>  BY <2>2, <3>2 DEF PoolInv, PoolTypeInv, PoolThere, Goes
    <3> QED  BY <2>2, <3>1, <3>2
  <2>4. PoolUpdateInv'  BY <2>2 DEF PoolInv, PoolUpdateInv, Updating, At, PoolTypeInv, Goes
  <2>5. PoolAloneInv'
    <3> SUFFICES ASSUME "raced" \notin poolMarks' PROVE \A q \in PoolReqs : Alone(q)'  BY DEF PoolAloneInv
    <3>1. \A q \in PoolReqs \ {r} : preq[q].at = "idle"  BY <2>2 DEF PoolInv, PoolAloneInv, Alone, At
    <3>2. \A q \in PoolReqs : preq'[q].at = "idle"  BY <2>2, <3>1 DEF Goes
    <3> QED  BY <3>2 DEF Alone, At, Making, Removing, Updating, OnVolume
  <2>6. PoolDiskInv' /\ PoolReachInv' /\ PoolVolumeInv' /\ PoolNamesInv'
    BY <2>2 DEF PoolDiskInv, PoolReachInv, PoolVolumeInv, PoolNamesInv
  <2> QED  BY <2>3, <2>4, <2>5, <2>6 DEF PoolInv
<1>18. ASSUME NEW r \in PoolReqs, VolumeRowStays(r) PROVE PoolInv'
  <2>1. Ends(r) => Goes(r, "idle")  BY PoolGoes DEF PoolInv
  <2>2. /\ Goes(r, "idle") /\ At(r, "mkvol") /\ poolMarks' = poolMarks \cup {"rowleft"}
        /\ UNCHANGED <<driver, poolRow, poolDisk, poolNames, reachable, volRow, volDisk>>
    BY <1>18, <2>1 DEF VolumeRowStays, PoolMark
  <2>3. PoolTypeInv'  BY <2>2 DEF PoolInv, PoolTypeInv, PoolThere, Goes
  <2>4. PoolUpdateInv'  BY <2>2 DEF PoolInv, PoolUpdateInv, Updating, At, PoolTypeInv, Goes
  <2>5. PoolAloneInv'
    BY <2>2 DEF PoolInv, PoolTypeInv, Goes, PoolAloneInv, Alone, At, PoolThere, FreshPool, Making,
      Removing, Updating, OnVolume
  <2>6. PoolDiskInv'
    BY <2>2 DEF PoolInv, PoolTypeInv, Goes, At, PoolThere, PoolDiskInv, Somewhere, Full
  <2>7. PoolReachInv'
    BY <2>2 DEF PoolInv, PoolTypeInv, Goes, At, PoolThere, Updating, PoolReachInv, Somewhere
  <2>8. PoolVolumeInv'  BY <2>2 DEF PoolVolumeInv
  <2>9. PoolNamesInv'
    <3>1. r \in ThinAhead' <=> r \in ThinAhead  BY <2>2 DEF At, Goes, ThinAhead
    <3>2. r \in VgAhead' <=> r \in VgAhead  BY <2>2 DEF At, Goes, VgAhead
    <3>3. Somewhere("mkpool") => Somewhere("mkpool")'  BY <2>2 DEF Somewhere, At, Goes
    <3> QED  BY <2>2, <3>1, <3>2, <3>3, NamesStay DEF Goes, PoolInv
  <2> QED  BY <2>3, <2>4, <2>5, <2>6, <2>7, <2>8, <2>9 DEF PoolInv
<1> QED
  BY <1>1, <1>2, <1>3, <1>4, <1>5, <1>6, <1>7, <1>8, <1>9, <1>10, <1>11, <1>12, <1>13, <1>14, <1>15,
    <1>16, <1>17, <1>18 DEF PoolsNext

LEMMA PoolInvInit == ASSUME PoolsInit PROVE PoolInv
<1>1. Idle.at = "idle" /\ Idle \in PoolAsks  BY DEF Idle, PoolAsks, NoPool
<1>2. /\ preq \in [PoolReqs -> PoolAsks] /\ \A r \in PoolReqs : At(r, "idle")
      /\ poolRow = NoPool /\ poolDisk = {} /\ reachable = FALSE /\ volRow = FALSE /\ volDisk = FALSE
  BY <1>1 DEF PoolsInit, At
<1>3. poolNames \in DiskNames  BY DEF PoolsInit, NamesOf, NoPool, DiskNames
<1>4. PoolTypeInv  BY <1>2, <1>3, PoolsAssumption DEF PoolsInit, PoolTypeInv
<1>5. PoolUpdateInv /\ PoolAloneInv
  BY <1>2 DEF PoolUpdateInv, PoolAloneInv, Alone, At, Making, Removing, Updating, OnVolume
<1>6. PoolDiskInv /\ PoolReachInv /\ PoolVolumeInv /\ PoolNamesInv
  BY <1>2 DEF PoolDiskInv, PoolReachInv, PoolVolumeInv, PoolNamesInv, PoolThere, Somewhere, At, Updating
<1> QED  BY <1>4, <1>5, <1>6 DEF PoolInv

LEMMA PoolInvStutter == ASSUME PoolInv, UNCHANGED poolVars PROVE PoolInv'
BY DEF poolVars, PoolInv, PoolTypeInv, PoolUpdateInv, PoolAloneInv, Alone, PoolDiskInv, PoolReachInv,
  PoolVolumeInv, PoolNamesInv, PoolThere, Somewhere, At, ThinAhead, VgAhead, Full

LEMMA WholeByInv == ASSUME PoolInv PROVE PoolsWhole
<1> SUFFICES ASSUME \A r \in PoolReqs : preq[r].at = "idle" PROVE PoolsWhole
  BY DEF PoolsWhole, At
<1>1. \A at : at # "idle" => ~Somewhere(at)  BY DEF Somewhere, At
<1>2. poolMarks \cap {"raced", "leftover", "halfdone", "sourcelost"} = {} =>
        poolDisk = (IF PoolThere THEN Full ELSE {})
  BY <1>1 DEF PoolInv, PoolDiskInv
<1>3. ASSUME PoolThere, poolMarks \cap {"raced", "halfdone", "renamed", "stale"} = {}
      PROVE  poolNames = NamesOf(poolRow)
  <2>1. ThinAhead = {} /\ VgAhead = {}  BY DEF ThinAhead, VgAhead
  <2>2. \A name : Turned(name, {}) = name  BY FS_EmptySet DEF Turned
  <2>3. poolNames.thin = poolRow.thin /\ poolNames.vg = poolRow.vg
    BY <1>1, <1>3, <2>1, <2>2 DEF PoolInv, PoolNamesInv
  <2>4. poolNames \in DiskNames /\ poolRow \in PoolNaming  BY <1>3 DEF PoolInv, PoolTypeInv, PoolThere
  <2> QED  BY <2>3, <2>4, PoolNamed
<1>4. PoolThere /\ poolMarks \cap {"raced", "halfdone", "sourcelost"} = {} => reachable
  BY <1>1 DEF PoolInv, PoolReachInv
<1>5. poolMarks \cap {"raced", "halfdone", "rowleft"} = {} => (volRow <=> volDisk)
  BY <1>1 DEF PoolInv, PoolVolumeInv
<1> QED  BY <1>2, <1>3, <1>4, <1>5 DEF PoolsWhole

-----------------------------------------------------------------------------
(* Custom volumes attached to containers (VolumeAttach). *)

ApcOf == {"idle", "load", "mount", "mounting", "waits", "shift", "record", "umount", "umountfail",
          "mount2", "mounting2", "waits2", "bind"}

AttTypeInv ==
  /\ idmap \in [Users -> Nat] /\ vlast \in Nat /\ vfiles \in Nat \cup {Mixed} /\ vmounted \in BOOLEAN
  /\ sees \in [Users -> {"nothing", "volume", "empty"}]
  /\ apc \in [Users -> ApcOf] /\ asaw \in [Users -> Nat] /\ aours \in [Users -> BOOLEAN]
  /\ edit.saw \in Nat

\* A container that attaches the volume does not see it yet; the mount that an
\* attaching request made for the shift is that of a driver that mounts.
AttPlaceInv ==
  /\ \A c \in Users : sees[c] # "nothing" => c \in live /\ c \in devRow /\ apc[c] = "idle"
  /\ \A c \in Users : aours[c] => Mounts /\ apc[c] \in {"shift", "record", "umount", "umountfail"}
  /\ \A c \in Users : apc[c] \in {"mounting", "mounting2", "waits", "waits2"} => Mounts
  /\ \A c \in Users : apc[c] \in {"umount", "umountfail"} => aours[c]
  /\ ~Mounts => vmounted

\* A request that has to shift the files.
Shifting(c) == Attaching(c) /\ asaw[c] # idmap[c]

\* As long as nothing has gone wrong, a request that shifts the files is the
\* only one that attaches the volume, nobody uses it meanwhile, and the files
\* have the map that the row says, or the container's once it is shifted.
AttAloneInv ==
  volMarks = {} =>
    /\ \A c \in Users : Shifting(c) => /\ \A d \in Users \ {c} : ~Attaching(d)
                                       /\ \A d \in Users : sees[d] = "nothing"
    /\ \A c \in Users : (apc[c] \in {"mount", "mounting", "waits", "shift"} \/ aours[c]) => Shifting(c)
    /\ \A c \in Users : apc[c] # "umountfail"

AttFilesInv ==
  volMarks = {} =>
    /\ \A c \in Users : apc[c] \in {"record", "umount", "mount2", "mounting2", "waits2", "bind"} =>
         vfiles = idmap[c]
    /\ \A c \in Users : Attaching(c) /\ asaw[c] = idmap[c] => vlast = idmap[c]
    /\ \A c \in Users : Shifting(c) /\ apc[c] \in {"mount", "mounting", "waits", "shift", "record"} =>
         asaw[c] = vlast
    /\ (\A c \in Users : Shifting(c) => apc[c] # "record") => vfiles = vlast
    /\ \A c \in Users : apc[c] \in {"shift", "bind"} => vmounted
    /\ \A c \in Users : sees[c] # "nothing" => sees[c] = "volume" /\ vfiles = idmap[c]

AttInv == AttTypeInv /\ AttPlaceInv /\ AttAloneInv /\ AttFilesInv

LEMMA AttInvNext == ASSUME AttInv, AttachNext PROVE AttInv'
<1> USE AttachAssumption
<1>1. ASSUME NEW c \in Users, Begin(c) PROVE AttInv'
  <2>10. AttTypeInv'  BY <1>1 DEF AttInv, AttTypeInv, ApcOf, Begin, attWorld
  <2>11. AttPlaceInv'  BY <1>1 DEF AttInv, AttTypeInv, ApcOf, AttPlaceInv, Mounts, Begin, attWorld
  <2>12. AttAloneInv'
    BY <1>1 DEF AttInv, AttTypeInv, ApcOf, AttPlaceInv, Mounts, AttAloneInv, Shifting, Attaching,
      Begin, attWorld
  <2>13. AttFilesInv'
    BY <1>1 DEF AttInv, AttTypeInv, ApcOf, AttPlaceInv, Mounts, AttAloneInv, Shifting, Attaching,
      AttFilesInv, Begin, attWorld
  <2> QED  BY <2>10, <2>11, <2>12, <2>13 DEF AttInv
<1>2. ASSUME NEW c \in Users, AttachLoad(c) PROVE AttInv'
  <2>10. AttTypeInv'
    BY <1>2 DEF AttInv, AttTypeInv, ApcOf, AttachLoad, attWorld, storagePoolVolumeUsedByGet,
      VolMark, Attaching
  <2>11. AttPlaceInv'
    BY <1>2 DEF AttInv, AttTypeInv, ApcOf, AttPlaceInv, Mounts, AttachLoad, attWorld,
      storagePoolVolumeUsedByGet, VolMark, Attaching
  <2>12. AttAloneInv'
    BY <1>2 DEF AttInv, AttTypeInv, ApcOf, AttPlaceInv, Mounts, AttAloneInv, Shifting, Attaching,
      AttachLoad, attWorld, storagePoolVolumeUsedByGet, VolMark
  <2>13. AttFilesInv'
    BY <1>2 DEF AttInv, AttTypeInv, ApcOf, AttPlaceInv, Mounts, AttAloneInv, Shifting, Attaching,
      AttFilesInv, AttachLoad, attWorld, storagePoolVolumeUsedByGet, VolMark
  <2> QED  BY <2>10, <2>11, <2>12, <2>13 DEF AttInv
<1>3. ASSUME NEW c \in Users, MountBegins(c) PROVE AttInv'
  <2>10. AttTypeInv'  BY <1>3 DEF AttInv, AttTypeInv, ApcOf, MountBegins, attWorld, Phase, Mounts
  <2>11. AttPlaceInv'
    BY <1>3 DEF AttInv, AttTypeInv, ApcOf, AttPlaceInv, Mounts, MountBegins, attWorld, Phase
  <2>12. AttAloneInv'
    BY <1>3 DEF AttInv, AttTypeInv, ApcOf, AttPlaceInv, Mounts, AttAloneInv, Shifting, Attaching,
      MountBegins, attWorld, Phase
  <2>13. AttFilesInv'
    BY <1>3 DEF AttInv, AttTypeInv, ApcOf, AttPlaceInv, Mounts, AttAloneInv, Shifting, Attaching,
      AttFilesInv, MountBegins, attWorld, Phase
  <2> QED  BY <2>10, <2>11, <2>12, <2>13 DEF AttInv
<1>4. ASSUME NEW c \in Users, Mount(c) PROVE AttInv'
  <2>10. AttTypeInv'  BY <1>4 DEF AttInv, AttTypeInv, ApcOf, Mount, attWorld, Phase
  <2>11. AttPlaceInv'
    BY <1>4 DEF AttInv, AttTypeInv, ApcOf, AttPlaceInv, Mounts, Mount, attWorld, Phase
  <2>12. AttAloneInv'
    BY <1>4 DEF AttInv, AttTypeInv, ApcOf, AttPlaceInv, Mounts, AttAloneInv, Shifting, Attaching,
      Mount, attWorld, Phase
  <2>13. AttFilesInv'
    BY <1>4 DEF AttInv, AttTypeInv, ApcOf, AttPlaceInv, Mounts, AttAloneInv, Shifting, Attaching,
      AttFilesInv, Mount, attWorld, Phase
  <2> QED  BY <2>10, <2>11, <2>12, <2>13 DEF AttInv
<1>5. ASSUME NEW c \in Users, MountWaited(c) PROVE AttInv'
  <2>10. AttTypeInv'  BY <1>5 DEF AttInv, AttTypeInv, ApcOf, MountWaited, attWorld, Phase, VolMark
  <2>11. AttPlaceInv'
    BY <1>5 DEF AttInv, AttTypeInv, ApcOf, AttPlaceInv, Mounts, MountWaited, attWorld, Phase,
      VolMark
  <2>12. AttAloneInv'
    BY <1>5 DEF AttInv, AttTypeInv, ApcOf, AttPlaceInv, Mounts, AttAloneInv, Shifting, Attaching,
      MountWaited, attWorld, Phase, VolMark
  <2>13. AttFilesInv'
    BY <1>5 DEF AttInv, AttTypeInv, ApcOf, AttPlaceInv, Mounts, AttAloneInv, Shifting, Attaching,
      AttFilesInv, MountWaited, attWorld, Phase, VolMark
  <2> QED  BY <2>10, <2>11, <2>12, <2>13 DEF AttInv
<1>6. ASSUME NEW c \in Users, AttachShift(c) PROVE AttInv'
  <2>10. AttTypeInv'
    BY <1>6 DEF AttInv, AttTypeInv, ApcOf, AttachShift, attWorld, Shifted, VolMark, Mounts, Mixed
  <2>11. AttPlaceInv'
    BY <1>6 DEF AttInv, AttTypeInv, ApcOf, AttPlaceInv, Mounts, AttachShift, attWorld, Shifted,
      VolMark, Mixed
  <2>12. AttAloneInv'
    BY <1>6 DEF AttInv, AttTypeInv, ApcOf, AttPlaceInv, Mounts, AttAloneInv, Shifting, Attaching,
      AttachShift, attWorld, Shifted, VolMark, Mixed
  <2>13. AttFilesInv'
    BY <1>6 DEF AttInv, AttTypeInv, ApcOf, AttPlaceInv, Mounts, AttAloneInv, Shifting, Attaching,
      AttFilesInv, AttachShift, attWorld, Shifted, VolMark, Mixed
  <2> QED  BY <2>10, <2>11, <2>12, <2>13 DEF AttInv
<1>7. ASSUME NEW c \in Users, AttachRecord(c) PROVE AttInv'
  <2>10. AttTypeInv'
    BY <1>7 DEF AttInv, AttTypeInv, ApcOf, AttachRecord, attWorld, Record, VolMark, AttFilesInv
  <2>11. AttPlaceInv'
    BY <1>7 DEF AttInv, AttTypeInv, ApcOf, AttPlaceInv, Mounts, AttachRecord, attWorld, Record,
      VolMark, AttFilesInv
  <2>12. AttAloneInv'
    BY <1>7 DEF AttInv, AttTypeInv, ApcOf, AttPlaceInv, Mounts, AttAloneInv, Shifting, Attaching,
      AttachRecord, attWorld, Record, VolMark, AttFilesInv
  <2>13. AttFilesInv'
    BY <1>7 DEF AttInv, AttTypeInv, ApcOf, AttPlaceInv, Mounts, AttAloneInv, Shifting, Attaching,
      AttFilesInv, AttachRecord, attWorld, Record, VolMark
  <2> QED  BY <2>10, <2>11, <2>12, <2>13 DEF AttInv
<1>8. ASSUME NEW c \in Users, AttachUmount(c) PROVE AttInv'
  <2>10. AttTypeInv'  BY <1>8 DEF AttInv, AttTypeInv, ApcOf, AttachUmount, attWorld
  <2>11. AttPlaceInv'
    BY <1>8 DEF AttInv, AttTypeInv, ApcOf, AttPlaceInv, Mounts, AttachUmount, attWorld
  <2>12. AttAloneInv'
    BY <1>8 DEF AttInv, AttTypeInv, ApcOf, AttPlaceInv, Mounts, AttAloneInv, Shifting, Attaching,
      AttachUmount, attWorld
  <2>13. AttFilesInv'
    BY <1>8 DEF AttInv, AttTypeInv, ApcOf, AttPlaceInv, Mounts, AttAloneInv, Shifting, Attaching,
      AttFilesInv, AttachUmount, attWorld
  <2> QED  BY <2>10, <2>11, <2>12, <2>13 DEF AttInv
<1>9. ASSUME NEW c \in Users, createDiskDevice(c) PROVE AttInv'
  <2>10. AttTypeInv'  BY <1>9 DEF AttInv, AttTypeInv, ApcOf, createDiskDevice
  <2>11. AttPlaceInv'  BY <1>9 DEF AttInv, AttTypeInv, ApcOf, AttPlaceInv, Mounts, createDiskDevice
  <2>12. AttAloneInv'
    BY <1>9 DEF AttInv, AttTypeInv, ApcOf, AttPlaceInv, Mounts, AttAloneInv, Shifting, Attaching,
      createDiskDevice
  <2>13. AttFilesInv'
    BY <1>9 DEF AttInv, AttTypeInv, ApcOf, AttPlaceInv, Mounts, AttAloneInv, Shifting, Attaching,
      AttFilesInv, createDiskDevice
  <2> QED  BY <2>10, <2>11, <2>12, <2>13 DEF AttInv
<1>10. ASSUME NEW c \in Users, removeDiskDevice(c) PROVE AttInv'
  <2>10. AttTypeInv'  BY <1>10 DEF AttInv, AttTypeInv, ApcOf, removeDiskDevice, attReq
  <2>11. AttPlaceInv'
    BY <1>10 DEF AttInv, AttTypeInv, ApcOf, AttPlaceInv, Mounts, removeDiskDevice, attReq
  <2>12. AttAloneInv'
    BY <1>10 DEF AttInv, AttTypeInv, ApcOf, AttPlaceInv, Mounts, AttAloneInv, Shifting, Attaching,
      removeDiskDevice, attReq
  <2>13. AttFilesInv'
    BY <1>10 DEF AttInv, AttTypeInv, ApcOf, AttPlaceInv, Mounts, AttAloneInv, Shifting, Attaching,
      AttFilesInv, removeDiskDevice, attReq
  <2> QED  BY <2>10, <2>11, <2>12, <2>13 DEF AttInv
<1>11. ASSUME NEW c \in Users, AddDevice(c) PROVE AttInv'
  <2>10. AttTypeInv'  BY <1>11 DEF AttInv, AttTypeInv, ApcOf, AddDevice, attReq
  <2>11. AttPlaceInv'  BY <1>11 DEF AttInv, AttTypeInv, ApcOf, AttPlaceInv, Mounts, AddDevice, attReq
  <2>12. AttAloneInv'
    BY <1>11 DEF AttInv, AttTypeInv, ApcOf, AttPlaceInv, Mounts, AttAloneInv, Shifting, Attaching,
      AddDevice, attReq
  <2>13. AttFilesInv'
    BY <1>11 DEF AttInv, AttTypeInv, ApcOf, AttPlaceInv, Mounts, AttAloneInv, Shifting, Attaching,
      AttFilesInv, AddDevice, attReq
  <2> QED  BY <2>10, <2>11, <2>12, <2>13 DEF AttInv
<1>12. ASSUME NEW c \in Users, StartWithout(c) PROVE AttInv'
  <2>10. AttTypeInv'  BY <1>12 DEF AttInv, AttTypeInv, ApcOf, StartWithout, attReq
  <2>11. AttPlaceInv'
    BY <1>12 DEF AttInv, AttTypeInv, ApcOf, AttPlaceInv, Mounts, StartWithout, attReq
  <2>12. AttAloneInv'
    BY <1>12 DEF AttInv, AttTypeInv, ApcOf, AttPlaceInv, Mounts, AttAloneInv, Shifting, Attaching,
      StartWithout, attReq
  <2>13. AttFilesInv'
    BY <1>12 DEF AttInv, AttTypeInv, ApcOf, AttPlaceInv, Mounts, AttAloneInv, Shifting, Attaching,
      AttFilesInv, StartWithout, attReq
  <2> QED  BY <2>10, <2>11, <2>12, <2>13 DEF AttInv
<1>13. ASSUME NEW c \in Users, removeDiskDevices(c) PROVE AttInv'
  <2>10. AttTypeInv'  BY <1>13 DEF AttInv, AttTypeInv, ApcOf, removeDiskDevices, attReq
  <2>11. AttPlaceInv'
    BY <1>13 DEF AttInv, AttTypeInv, ApcOf, AttPlaceInv, Mounts, removeDiskDevices, attReq
  <2>12. AttAloneInv'
    BY <1>13 DEF AttInv, AttTypeInv, ApcOf, AttPlaceInv, Mounts, AttAloneInv, Shifting, Attaching,
      removeDiskDevices, attReq
  <2>13. AttFilesInv'
    BY <1>13 DEF AttInv, AttTypeInv, ApcOf, AttPlaceInv, Mounts, AttAloneInv, Shifting, Attaching,
      AttFilesInv, removeDiskDevices, attReq
  <2> QED  BY <2>10, <2>11, <2>12, <2>13 DEF AttInv
<1>14. CASE VolumeHostRestarts
  <2>10. AttTypeInv'
    BY <1>14 DEF AttInv, AttTypeInv, ApcOf, VolumeHostRestarts, attReq, attWorld, Mounts
  <2>11. AttPlaceInv'
    BY <1>14 DEF AttInv, AttTypeInv, ApcOf, AttPlaceInv, Mounts, VolumeHostRestarts, attReq, attWorld
  <2>12. AttAloneInv'
    BY <1>14 DEF AttInv, AttTypeInv, ApcOf, AttPlaceInv, Mounts, AttAloneInv, Shifting, Attaching,
      VolumeHostRestarts, attReq, attWorld
  <2>13. AttFilesInv'
    BY <1>14 DEF AttInv, AttTypeInv, ApcOf, AttPlaceInv, Mounts, AttAloneInv, Shifting, Attaching,
      AttFilesInv, VolumeHostRestarts, attReq, attWorld
  <2> QED  BY <2>10, <2>11, <2>12, <2>13 DEF AttInv
<1>15. CASE EditBegins
  <2>10. AttTypeInv'  BY <1>15 DEF AttInv, AttTypeInv, ApcOf, EditBegins, attReq, NoEdit
  <2>11. AttPlaceInv'
    BY <1>15 DEF AttInv, AttTypeInv, ApcOf, AttPlaceInv, Mounts, EditBegins, attReq, NoEdit
  <2>12. AttAloneInv'
    BY <1>15 DEF AttInv, AttTypeInv, ApcOf, AttPlaceInv, Mounts, AttAloneInv, Shifting, Attaching,
      EditBegins, attReq, NoEdit
  <2>13. AttFilesInv'
    BY <1>15 DEF AttInv, AttTypeInv, ApcOf, AttPlaceInv, Mounts, AttAloneInv, Shifting, Attaching,
      AttFilesInv, EditBegins, attReq, NoEdit
  <2> QED  BY <2>10, <2>11, <2>12, <2>13 DEF AttInv
<1>16. CASE EditWrites
  <2>10. AttTypeInv'  BY <1>16 DEF AttInv, AttTypeInv, ApcOf, EditWrites, attReq, NoEdit, VolMark
  <2>11. AttPlaceInv'
    BY <1>16 DEF AttInv, AttTypeInv, ApcOf, AttPlaceInv, Mounts, EditWrites, attReq, NoEdit, VolMark
  <2>12. AttAloneInv'
    BY <1>16 DEF AttInv, AttTypeInv, ApcOf, AttPlaceInv, Mounts, AttAloneInv, Shifting, Attaching,
      EditWrites, attReq, NoEdit, VolMark
  <2>13. AttFilesInv'
    BY <1>16 DEF AttInv, AttTypeInv, ApcOf, AttPlaceInv, Mounts, AttAloneInv, Shifting, Attaching,
      AttFilesInv, EditWrites, attReq, NoEdit, VolMark
  <2> QED  BY <2>10, <2>11, <2>12, <2>13 DEF AttInv
<1> QED
  BY <1>1, <1>2, <1>3, <1>4, <1>5, <1>6, <1>7, <1>8, <1>9, <1>10, <1>11, <1>12, <1>13, <1>14, <1>15,
    <1>16 DEF AttachNext

LEMMA AttInvInit == ASSUME AttachInit PROVE AttInv
BY AttachAssumption DEF AttachInit, AttInv, AttTypeInv, ApcOf, AttPlaceInv, Mounts, AttAloneInv, Shifting, Attaching,
   AttFilesInv, NoEdit

LEMMA AttInvStutter == ASSUME AttInv, UNCHANGED attVars PROVE AttInv'
BY DEF attVars, AttInv, AttTypeInv, AttPlaceInv, Mounts, AttAloneInv, Shifting, Attaching, AttFilesInv

LEMMA UsableByInv == ASSUME AttInv PROVE AttachedUsable
BY DEF AttInv, AttFilesInv, AttachedUsable

-----------------------------------------------------------------------------
(* Networks (Networks). *)

Busy(r, n) == nreq[r].at # "idle" /\ nreq[r].net = n
Level(n) == IF netRow[n] = 0 THEN {} ELSE {netRow[n]}
Both(S) == [f \in Families |-> S]

\* The network is all that its row says; and there is nothing of it.
Served(n) ==
  /\ n \in bridge <=> netRow[n] # 0
  /\ addr[n] = Both(Level(n)) /\ rules[n] = Both(Level(n))
  /\ tunnels[n] = Level(n) /\ dnsmasq[n] = netRow[n] /\ (netRow[n] # 0 => n \in listed)

Bare(n) ==
  /\ n \notin bridge /\ addr[n] = Both({}) /\ rules[n] = Both({}) /\ tunnels[n] = {} /\ dnsmasq[n] = 0

Operations == {"none", "create", "update", "delete", "rename", "static", "clear", "lease", "boot"}
Starting == {"clear4", "set4", "clear6", "set6", "tunnel", "dns"}
Stopping == {"link", "unrule", "kill"}
Stages == {"idle", "bridge", "static", "hosts", "write"} \cup Starting \cup Stopping
NetAsks == [op : Operations, net : Nets \cup {NoReq.net}, set : Nat, at : Stages,
            saw : [Nets -> SUBSET Guests], left : SUBSET Nets]

\* A start writes the hosts of its own network only.
LeftOwn(ask) == ask.op \in {"static", "clear"} \/ ask.left \subseteq {ask.net}

NetFlags == {"raced", "halfapplied", "halfstopped", "misnamed", "robbed", "overtaken", "skipped"}

NetTypeInv ==
  /\ netRow \in [Nets -> Nat] /\ dnsmasq \in [Nets -> Nat]
  /\ bridge \subseteq Nets /\ boot \subseteq Nets /\ listed \subseteq Nets
  /\ addr \in [Nets -> [Families -> SUBSET Nat]] /\ rules \in [Nets -> [Families -> SUBSET Nat]]
  /\ tunnels \in [Nets -> SUBSET Nat]
  /\ hosts \in [Nets -> SUBSET Guests] /\ guests \in [Nets -> SUBSET Guests]
  /\ nreq \in [NetReqs -> NetAsks] /\ netMarks \in [Nets -> SUBSET NetFlags]
  /\ \A r \in NetReqs : IF nreq[r].at = "idle" THEN nreq[r] = NoReq ELSE nreq[r].net \in Nets /\ LeftOwn(nreq[r])

\* A starting daemon has only its own requests, for networks with a row.
NetBootInv ==
  /\ \A n \in boot : netRow[n] # 0
  /\ boot # {} => \A r \in NetReqs : nreq[r].at # "idle" => nreq[r].op = "boot"

\* How far a request has come with its network.
NetStarted(r, n) ==
  LET at == nreq[r].at
      new == {nreq[r].set}
      has(f, S) == addr[n][f] = S /\ rules[n][f] = S
  IN /\ at \in {"bridge"} \cup Starting => nreq[r].set = netRow[n] /\ netRow[n] # 0
     /\ at = "bridge" /\ nreq[r].op = "create" => Bare(n)
     /\ at \in Starting => n \in bridge /\ tunnels[n] = IF at = "dns" THEN new ELSE {}
     /\ at = "set4" => has(4, {})
     /\ at \in {"clear6", "set6", "tunnel", "dns"} => has(4, new)
     /\ at = "set6" => has(6, {})
     /\ at \in {"tunnel", "dns"} => has(6, new)
     /\ at \in {"static", "hosts"} => Served(n)

NetStopped(r, n) ==
  LET at == nreq[r].at
  IN /\ at \in {"write"} \cup Stopping => nreq[r].op \in {"create", "update", "delete", "rename"}
     /\ at = "link" => n \in bridge /\ (nreq[r].op # "create" => Served(n))
     /\ at \in {"unrule", "kill"} => n \notin bridge /\ addr[n] = Both({})
     /\ at = "kill" => rules[n] = Both({})
     /\ at = "write" => Bare(n) \/ (nreq[r].op = "update" /\ n \in bridge /\ Served(n))
     /\ at \in {"write"} \cup Stopping /\ nreq[r].op = "update" => netRow[n] # 0 /\ nreq[r].set # 0

\* Of a network on which nothing went wrong: one request at most is at work on
\* it, it is what the request has made of it so far, and without one it is
\* what its row says, or the daemon that starts will see to it.
NetworkInv(n) ==
  netMarks[n] \subseteq {"overtaken", "skipped"} =>
    /\ \A r, q \in NetReqs : Busy(r, n) /\ Busy(q, n) => r = q
    /\ \A r \in NetReqs : Busy(r, n) => NetStarted(r, n) /\ NetStopped(r, n)
    /\ (\A r \in NetReqs : ~Busy(r, n)) => Served(n) \/ (n \in boot /\ Bare(n))

\* Only a request that has the hosts of a network still to write may have
\* changed its guests.
Due(r, n) ==
  /\ Busy(r, n) /\ nreq[r].op \in {"create", "static", "clear", "lease"}
  /\ nreq[r].at = "hosts" => n \in nreq[r].left

NetHostsInv(n) ==
  netMarks[n] = {} /\ netRow[n] # 0 => (\E r \in NetReqs : Due(r, n)) \/ hosts[n] = guests[n]

NetInv == NetTypeInv /\ NetBootInv /\ \A n \in Nets : NetworkInv(n) /\ NetHostsInv(n)

Clean(n) == netMarks[n] \subseteq {"overtaken", "skipped"}

\* What another network's step may do to one: take its rules, and write its
\* hosts, as they should be or with a mark.
Kept(m) ==
  /\ netRow'[m] = netRow[m] /\ (m \in bridge' <=> m \in bridge) /\ addr'[m] = addr[m]
  /\ tunnels'[m] = tunnels[m] /\ dnsmasq'[m] = dnsmasq[m] /\ guests'[m] = guests[m]
  /\ hosts'[m] = hosts[m] \/ hosts'[m] = guests[m] \/ netMarks'[m] # {}
  /\ (m \in listed' <=> m \in listed) /\ (m \in boot' <=> m \in boot)
  /\ netMarks[m] \subseteq netMarks'[m] /\ (rules'[m] = rules[m] \/ "robbed" \in netMarks'[m])

Keeps(n) == \A m \in Nets \ {n} : Kept(m)

\* One request goes on.
Turns(r, n) ==
  /\ \A q \in NetReqs \ {r} : nreq'[q] = nreq[q]
  /\ Busy(r, n) \/ nreq[r].at = "idle"
  /\ nreq'[r].at # "idle" => nreq'[r].net = n

LEMMA BothIs ==
  ASSUME NEW h \in [Families -> SUBSET Nat], NEW S, h[4] = S, h[6] = S
  PROVE  h = Both(S)
<1>1. \A f \in Families : h[f] = Both(S)[f]  BY DEF Families, Both
<1>2. Both(S) = [f \in Families |-> Both(S)[f]] /\ h = [f \in Families |-> h[f]]  BY DEF Both
<1> QED  BY <1>1, <1>2

LEMMA BothAt == \A S : Both(S)[4] = S /\ Both(S)[6] = S
BY DEF Both, Families

LEMMA NoReqIdle == NoReq.at = "idle" /\ NoReq \in NetAsks /\ NoReq.op = "none"
BY DEF NoReq, Ask, NetAsks, Operations, Stages

LEMMA NetElsewhere ==
  ASSUME NetInv, NEW n \in Nets, NEW r \in NetReqs, Turns(r, n), NEW m \in Nets, m # n, Kept(m)
  PROVE  NetworkInv(m)' /\ NetHostsInv(m)'
<1>1. \A q \in NetReqs : (Busy(q, m)' <=> Busy(q, m)) /\ (Busy(q, m) => nreq'[q] = nreq[q])
  BY DEF Turns, Busy
<1>2. NetworkInv(m) /\ NetHostsInv(m)  BY DEF NetInv
<1>3. ASSUME Clean(m)' PROVE Clean(m) /\ rules'[m] = rules[m]
  BY <1>3 DEF Kept, Clean
<1>4. ASSUME Clean(m)'
      PROVE  (Served(m)' <=> Served(m)) /\ (Bare(m)' <=> Bare(m)) /\ (m \in boot' <=> m \in boot)
  BY <1>3, <1>4 DEF Kept, Served, Bare, Level
<1>5. ASSUME Clean(m)', NEW q \in NetReqs, Busy(q, m)
      PROVE  (NetStarted(q, m)' <=> NetStarted(q, m)) /\ (NetStopped(q, m)' <=> NetStopped(q, m))
  BY <1>1, <1>3, <1>4, <1>5 DEF Kept, NetStarted, NetStopped
<1>6. NetworkInv(m)'
  BY <1>1, <1>2, <1>3, <1>4, <1>5 DEF NetworkInv, Clean
<1>7. NetHostsInv(m)'
  BY <1>1, <1>2 DEF NetHostsInv, Due, Kept
<1> QED  BY <1>6, <1>7

LEMMA NetByOne ==
  ASSUME NetInv, NEW n \in Nets, NEW r \in NetReqs, Keeps(n), Turns(r, n),
         NetTypeInv', NetBootInv', NetworkInv(n)', NetHostsInv(n)'
  PROVE  NetInv'
BY NetElsewhere DEF NetInv, Keeps

\* What a network is with which the only request has got so far.
LEMMA NetAtWork ==
  ASSUME NetInv, NEW n \in Nets, NEW r \in NetReqs, Turns(r, n), Busy(r, n), Clean(n)' => Clean(n),
         Clean(n)' => IF nreq'[r].at = "idle" THEN Served(n)' ELSE NetStarted(r, n)' /\ NetStopped(r, n)'
  PROVE  NetworkInv(n)'
<1> SUFFICES ASSUME Clean(n)'
             PROVE  /\ \A p, q \in NetReqs : Busy(p, n)' /\ Busy(q, n)' => p = q
                    /\ \A q \in NetReqs : Busy(q, n)' => NetStarted(q, n)' /\ NetStopped(q, n)'
                    /\ (\A q \in NetReqs : ~Busy(q, n)') => Served(n)' \/ (n \in boot' /\ Bare(n)')
  BY DEF NetworkInv, Clean
<1>1. \A q \in NetReqs \ {r} : ~Busy(q, n)  BY DEF NetInv, NetworkInv, Clean
<1>2. \A q \in NetReqs \ {r} : ~Busy(q, n)'  BY <1>1 DEF Turns, Busy
<1>3. nreq'[r].at = "idle" \/ Busy(r, n)'  BY DEF Turns, Busy
<1> QED  BY <1>2, <1>3 DEF Busy

\* A request begins with a network that is at rest, or is marked.
LEMMA NetBegins ==
  ASSUME NetInv, NEW n \in Nets, NEW r \in NetReqs, NEW op \in Operations, NEW set \in Nat,
         NEW at \in Stages \ {"idle"}, Request(r, op, n, set, at)
  PROVE  /\ Turns(r, n) /\ nreq' \in [NetReqs -> NetAsks] /\ netMarks' \in [Nets -> SUBSET NetFlags]
         /\ nreq'[r].op = op /\ nreq'[r].net = n /\ nreq'[r].set = set /\ nreq'[r].at = at
         /\ \A q \in NetReqs : IF nreq'[q].at = "idle" THEN nreq'[q] = NoReq ELSE nreq'[q].net \in Nets /\ LeftOwn(nreq'[q])
         /\ \A m \in Nets \ {n} : netMarks'[m] = netMarks[m]
         /\ netMarks[n] \subseteq netMarks'[n]
         /\ Clean(n)' => Clean(n) /\ (\A q \in NetReqs : ~Busy(q, n)) /\ (Served(n) \/ (n \in boot /\ Bare(n)))
<1> DEFINE new == Ask(op, n, set, at)
<1>1. new \in NetAsks /\ new.at = at /\ new.net = n /\ new.op = op /\ new.set = set /\ LeftOwn(new)  BY DEF NetAsks, Ask, LeftOwn
<1>2. nreq[r] = NoReq /\ nreq' = [nreq EXCEPT ![r] = new]  BY DEF Request
<1> HIDE DEF new
<1>3. /\ nreq' \in [NetReqs -> NetAsks] /\ nreq'[r] = new /\ \A q \in NetReqs \ {r} : nreq'[q] = nreq[q]
  BY <1>1, <1>2 DEF NetInv, NetTypeInv
<1>4. Turns(r, n)  BY <1>1, <1>2, <1>3, NoReqIdle DEF Turns
<1>5. \A q \in NetReqs : IF nreq'[q].at = "idle" THEN nreq'[q] = NoReq ELSE nreq'[q].net \in Nets /\ LeftOwn(nreq'[q])
  BY <1>1, <1>3 DEF NetInv, NetTypeInv
<1>6. /\ netMarks' \in [Nets -> SUBSET NetFlags] /\ \A m \in Nets \ {n} : netMarks'[m] = netMarks[m]
      /\ netMarks[n] \subseteq netMarks'[n]
      /\ (\E q \in NetReqs : Busy(q, n)) => "raced" \in netMarks'[n]
  <2> DEFINE S == IF \E q \in NetReqs : nreq[q].at # "idle" /\ nreq[q].net = n THEN {"raced"} ELSE {}
  <2>1. S \subseteq NetFlags /\ ((\E q \in NetReqs : Busy(q, n)) => S = {"raced"})  BY DEF NetFlags, Busy
  <2>2. netMarks' = [netMarks EXCEPT ![n] = @ \cup S]  BY DEF Request, NetMark
  <2> HIDE DEF S
  <2>3. netMarks \in [Nets -> SUBSET NetFlags]  BY DEF NetInv, NetTypeInv
  <2>4. netMarks'[n] = netMarks[n] \cup S /\ \A m \in Nets \ {n} : netMarks'[m] = netMarks[m]  BY <2>2, <2>3
  <2> QED  BY <2>1, <2>2, <2>3, <2>4
<1>7. Clean(n)' => Clean(n) /\ (\A q \in NetReqs : ~Busy(q, n)) /\ (Served(n) \/ (n \in boot /\ Bare(n)))
  BY <1>6 DEF Clean, NetInv, NetworkInv
<1> QED  BY <1>1, <1>3, <1>4, <1>5, <1>6, <1>7 DEF new

\* The network on which one has begun.
LEMMA NetHasBegun ==
  ASSUME NetInv, NEW n \in Nets, NEW r \in NetReqs, Turns(r, n), Busy(r, n)',
         Clean(n)' => (\A q \in NetReqs : ~Busy(q, n)) /\ NetStarted(r, n)' /\ NetStopped(r, n)'
  PROVE  NetworkInv(n)'
<1> SUFFICES ASSUME Clean(n)'
             PROVE  /\ \A p, q \in NetReqs : Busy(p, n)' /\ Busy(q, n)' => p = q
                    /\ \A q \in NetReqs : Busy(q, n)' => NetStarted(q, n)' /\ NetStopped(q, n)'
                    /\ (\A q \in NetReqs : ~Busy(q, n)') => Served(n)' \/ (n \in boot' /\ Bare(n)')
  BY DEF NetworkInv, Clean
<1>1. \A q \in NetReqs \ {r} : ~Busy(q, n)'  BY DEF Turns, Busy
<1> QED  BY <1>1

\* A request at work goes on, or ends.
Same(r) == nreq'[r].op = nreq[r].op /\ nreq'[r].net = nreq[r].net /\ nreq'[r].set = nreq[r].set

LEMMA NetGoes ==
  ASSUME NetInv, NEW r \in NetReqs, nreq[r].at # "idle"
  PROVE  /\ nreq[r].net \in Nets /\ Busy(r, nreq[r].net) /\ nreq[r].set \in Nat /\ nreq[r].saw \in [Nets -> SUBSET Guests] /\ nreq[r].left \subseteq Nets
         /\ \A l \in Stages \ {"idle"} :
              NetGoto(r, l) =>
                /\ Turns(r, nreq[r].net) /\ nreq'[r].at = l /\ Same(r) /\ nreq'[r].left = nreq[r].left
                /\ nreq' \in [NetReqs -> NetAsks]
                /\ \A q \in NetReqs : IF nreq'[q].at = "idle" THEN nreq'[q] = NoReq ELSE nreq'[q].net \in Nets /\ LeftOwn(nreq'[q])
         /\ nreq' = [nreq EXCEPT ![r] = NoReq] =>
                /\ Turns(r, nreq[r].net) /\ nreq'[r].at = "idle"
                /\ nreq' \in [NetReqs -> NetAsks]
                /\ \A q \in NetReqs : IF nreq'[q].at = "idle" THEN nreq'[q] = NoReq ELSE nreq'[q].net \in Nets /\ LeftOwn(nreq'[q])
<1>1. nreq \in [NetReqs -> NetAsks] /\ nreq[r].net \in Nets  BY DEF NetInv, NetTypeInv
<1>2. \A q \in NetReqs : IF nreq[q].at = "idle" THEN nreq[q] = NoReq ELSE nreq[q].net \in Nets /\ LeftOwn(nreq[q])
  BY DEF NetInv, NetTypeInv
<1>3. Busy(r, nreq[r].net) /\ nreq[r].set \in Nat /\ nreq[r].saw \in [Nets -> SUBSET Guests] /\ nreq[r].left \subseteq Nets  BY <1>1 DEF Busy, NetAsks
<1>4. ASSUME NEW l \in Stages \ {"idle"}, NetGoto(r, l)
      PROVE  /\ Turns(r, nreq[r].net) /\ nreq'[r].at = l /\ Same(r) /\ nreq'[r].left = nreq[r].left
             /\ nreq' \in [NetReqs -> NetAsks]
             /\ \A q \in NetReqs : IF nreq'[q].at = "idle" THEN nreq'[q] = NoReq ELSE nreq'[q].net \in Nets /\ LeftOwn(nreq'[q])
  <2>1. /\ nreq'[r].at = l /\ Same(r) /\ nreq'[r].left = nreq[r].left /\ nreq' \in [NetReqs -> NetAsks]
        /\ \A q \in NetReqs \ {r} : nreq'[q] = nreq[q]
    BY <1>1, <1>4 DEF NetGoto, NetAsks, Same
  <2> QED  BY <1>1, <1>2, <1>3, <1>4, <2>1 DEF Turns, Same, LeftOwn
<1>5. ASSUME nreq' = [nreq EXCEPT ![r] = NoReq]
      PROVE  /\ Turns(r, nreq[r].net) /\ nreq'[r].at = "idle" /\ nreq' \in [NetReqs -> NetAsks]
             /\ \A q \in NetReqs : IF nreq'[q].at = "idle" THEN nreq'[q] = NoReq ELSE nreq'[q].net \in Nets /\ LeftOwn(nreq'[q])
  BY <1>1, <1>2, <1>3, <1>5, NoReqIdle DEF Turns
<1> QED  BY <1>1, <1>3, <1>4, <1>5

LEMMA NetMarked ==
  ASSUME NetInv, NEW n \in Nets, NEW S \in SUBSET NetFlags, NetMark(n, S)
  PROVE  /\ netMarks' \in [Nets -> SUBSET NetFlags] /\ netMarks'[n] = netMarks[n] \cup S
         /\ \A m \in Nets : netMarks[m] \subseteq netMarks'[m]
BY DEF NetMark, NetInv, NetTypeInv

\* What a start that fails comes to.
LEMMA NetFails ==
  ASSUME NetInv, NEW r \in NetReqs, nreq[r].at # "idle", StartFails(r)
  PROVE  LET n == nreq[r].net
         IN /\ n \in Nets /\ Busy(r, n) /\ Turns(r, n)
            /\ nreq' \in [NetReqs -> NetAsks] /\ netMarks' \in [Nets -> SUBSET NetFlags]
            /\ \A q \in NetReqs : IF nreq'[q].at = "idle" THEN nreq'[q] = NoReq ELSE nreq'[q].net \in Nets /\ LeftOwn(nreq'[q])
            /\ \A m \in Nets : netMarks[m] \subseteq netMarks'[m]
            /\ \/ nreq'[r].at = "idle" /\ "halfapplied" \in netMarks'[n]
               \/ /\ nreq[r].op = "create" /\ Same(r) /\ nreq'[r].at = IF n \in bridge THEN "link" ELSE "write"
                  /\ netMarks'[n] = netMarks[n]
<1> DEFINE n == nreq[r].net
           undo == nreq[r].op = "create" /\ ~IsUsed(n)
           l == IF n \in bridge THEN "link" ELSE "write"
<1>1. /\ nreq' = IF undo THEN [nreq EXCEPT ![r].at = l] ELSE [nreq EXCEPT ![r] = NoReq]
      /\ NetMark(n, IF undo THEN {} ELSE {"halfapplied"})
  BY DEF StartFails
<1>2. l \in Stages \ {"idle"} /\ (undo => nreq[r].op = "create")  BY DEF Stages, Stopping
<1>3. "halfapplied" \in NetFlags  BY DEF NetFlags
<1>4. n \in Nets  BY NetGoes
<1> HIDE DEF n, undo
<1>5. CASE undo
  <2>1. NetGoto(r, l) /\ NetMark(n, {})  BY <1>1, <1>5 DEF NetGoto
  <2>2. /\ netMarks' \in [Nets -> SUBSET NetFlags] /\ netMarks'[n] = netMarks[n]
        /\ \A m \in Nets : netMarks[m] \subseteq netMarks'[m]
    <3>1. {} \in SUBSET NetFlags /\ netMarks[n] \cup {} = netMarks[n]  OBVIOUS
    <3> QED  BY <1>4, <2>1, <3>1, NetMarked
  <2> HIDE DEF l
  <2>3. /\ Busy(r, nreq[r].net) /\ Turns(r, nreq[r].net) /\ nreq'[r].at = l /\ Same(r) /\ nreq' \in [NetReqs -> NetAsks]
        /\ \A q \in NetReqs : IF nreq'[q].at = "idle" THEN nreq'[q] = NoReq ELSE nreq'[q].net \in Nets /\ LeftOwn(nreq'[q])
    BY <1>2, <2>1, NetGoes
  <2> QED  BY <1>2, <1>4, <1>5, <2>2, <2>3 DEF n, l
<1>6. CASE ~undo
  <2>1. nreq' = [nreq EXCEPT ![r] = NoReq] /\ NetMark(n, {"halfapplied"})  BY <1>1, <1>6
  <2>2. /\ netMarks' \in [Nets -> SUBSET NetFlags] /\ "halfapplied" \in netMarks'[n]
        /\ \A m \in Nets : netMarks[m] \subseteq netMarks'[m]
    BY <1>3, <1>4, <2>1, NetMarked
  <2>3. /\ Busy(r, nreq[r].net) /\ Turns(r, nreq[r].net) /\ nreq'[r].at = "idle" /\ nreq' \in [NetReqs -> NetAsks]
        /\ \A q \in NetReqs : IF nreq'[q].at = "idle" THEN nreq'[q] = NoReq ELSE nreq'[q].net \in Nets /\ LeftOwn(nreq'[q])
    BY <2>1, NetGoes
  <2> QED  BY <1>4, <2>2, <2>3 DEF n
<1> QED  BY <1>5, <1>6

LEMMA NetFailing ==
  ASSUME NetInv, NEW r \in NetReqs, nreq[r].at \in {"bridge"} \cup Starting, StartFails(r),
         UNCHANGED <<netRow, bridge, hosts, listed, guests, boot>>,
         addr' \in [Nets -> [Families -> SUBSET Nat]], rules' \in [Nets -> [Families -> SUBSET Nat]],
         tunnels' \in [Nets -> SUBSET Nat], dnsmasq' \in [Nets -> Nat],
         \A m \in Nets \ {nreq[r].net} : /\ addr'[m] = addr[m] /\ rules'[m] = rules[m]
                                         /\ tunnels'[m] = tunnels[m] /\ dnsmasq'[m] = dnsmasq[m],
         nreq[r].at = "bridge" => UNCHANGED <<addr, rules, tunnels, dnsmasq>>
  PROVE  NetInv'
<1>1. nreq[r].at # "idle"  BY DEF Starting
<1> PICK n \in Nets : n = nreq[r].net  BY <1>1, NetGoes
<1>2. /\ n \in Nets /\ Busy(r, n) /\ Turns(r, n)
      /\ nreq' \in [NetReqs -> NetAsks] /\ netMarks' \in [Nets -> SUBSET NetFlags]
      /\ \A q \in NetReqs : IF nreq'[q].at = "idle" THEN nreq'[q] = NoReq ELSE nreq'[q].net \in Nets /\ LeftOwn(nreq'[q])
      /\ \A m \in Nets : netMarks[m] \subseteq netMarks'[m]
      /\ \/ nreq'[r].at = "idle" /\ "halfapplied" \in netMarks'[n]
         \/ /\ nreq[r].op = "create" /\ Same(r) /\ nreq'[r].at = IF n \in bridge THEN "link" ELSE "write"
            /\ netMarks'[n] = netMarks[n]
  BY <1>1, NetFails
<1>3. NetTypeInv'  BY <1>2 DEF NetInv, NetTypeInv
<1>4. NetBootInv'  BY <1>1, <1>2 DEF NetInv, NetBootInv, Turns, Same
<1>5. Keeps(n)  BY <1>2 DEF Keeps, Kept
<1>6. ASSUME Clean(n)'
      PROVE  Clean(n) /\ nreq'[r].at # "idle" /\ NetStarted(r, n)' /\ NetStopped(r, n)'
  <2>1. nreq[r].op = "create" /\ Same(r) /\ nreq'[r].at = (IF n \in bridge THEN "link" ELSE "write") /\ Clean(n)
    BY <1>2, <1>6 DEF Clean
  <2>2. NetStarted(r, n)  BY <1>2, <2>1 DEF NetInv, NetworkInv, Clean
  <2>3. n \notin bridge => Bare(n)'  BY <2>1, <2>2 DEF NetStarted, Bare, Starting
  <2> QED  BY <2>1, <2>3 DEF NetStarted, NetStopped, Starting, Stopping, Same
<1>7. NetworkInv(n)'  BY <1>2, <1>6, NetAtWork
<1>8. NetHostsInv(n)'
  <2>1. CASE nreq'[r].at = "idle"  BY <1>2, <2>1 DEF NetHostsInv, Due
  <2>2. CASE nreq[r].op = "create" /\ Same(r) /\ nreq'[r].at # "idle"
    BY <1>2, <2>2 DEF NetHostsInv, Due, Busy, Same, Turns
  <2> QED  BY <1>2, <2>1, <2>2
<1> QED  BY <1>2, <1>3, <1>4, <1>5, <1>7, <1>8, NetByOne

LEMMA NetInvNext == ASSUME NetInv, NetworksNext PROVE NetInv'
<1>1. ASSUME NEW r \in NetReqs, StartBridge(r) PROVE NetInv'
  <2>1. nreq[r].at = "bridge"  BY <1>1 DEF StartBridge, NetIs
  <2> PICK n \in Nets : n = nreq[r].net  BY <2>1, NetGoes DEF Starting, Stopping
  <2>2. n = nreq[r].net /\ Busy(r, n) /\ nreq[r].set \in Nat /\ nreq[r].saw \in [Nets -> SUBSET Guests] /\ nreq[r].left \subseteq Nets /\ (Clean(n) => NetStarted(r, n) /\ NetStopped(r, n))
    BY <2>1, NetGoes DEF NetInv, NetworkInv, Clean, Starting, Stopping
  <2>3. \/ /\ bridge' = bridge \cup {n} /\ tunnels' = [tunnels EXCEPT ![n] = {}]
           /\ NetGoto(r, "clear4")
           /\ UNCHANGED <<netRow, addr, rules, dnsmasq, hosts, listed, guests, boot, netMarks>>
        \/ StartFails(r) /\ UNCHANGED <<netRow, bridge, addr, rules, tunnels, dnsmasq, hosts, listed, guests, boot>>
    BY <1>1, <2>1 DEF StartBridge
  <2>4. CASE StartFails(r) /\ UNCHANGED <<netRow, bridge, addr, rules, tunnels, dnsmasq, hosts, listed, guests, boot>>
    BY <2>1, <2>2, <2>4, NetFailing DEF NetInv, NetTypeInv, Starting
  <2>5. ASSUME bridge' = bridge \cup {n} /\ tunnels' = [tunnels EXCEPT ![n] = {}],
               NetGoto(r, "clear4"),
               UNCHANGED <<netRow, addr, rules, dnsmasq, hosts, listed, guests, boot, netMarks>>
        PROVE  NetInv'
    <3>1. /\ Turns(r, n) /\ nreq'[r].at = "clear4" /\ Same(r) /\ nreq'[r].left = nreq[r].left
        /\ nreq' \in [NetReqs -> NetAsks]
        /\ \A q \in NetReqs : IF nreq'[q].at = "idle" THEN nreq'[q] = NoReq ELSE nreq'[q].net \in Nets /\ LeftOwn(nreq'[q])
      BY <2>1, <2>5, NetGoes DEF Stages, Starting, Stopping
    <3>2. NetTypeInv'  BY <2>2, <2>5, <3>1 DEF NetInv, NetTypeInv
    <3>3. NetBootInv'  BY <2>1, <2>5, <3>1 DEF NetInv, NetBootInv, Turns, Same
    <3>4. Keeps(n)  BY <2>2, <2>5 DEF Keeps, Kept, NetInv, NetTypeInv
    <3>6. ASSUME Clean(n)' PROVE Clean(n) /\ nreq'[r].at # "idle" /\ NetStarted(r, n)' /\ NetStopped(r, n)'
      <4>1. Clean(n) /\ NetStarted(r, n)  BY <2>2, <2>5, <3>6 DEF Clean
      <4>2. tunnels'[n] = {} /\ n \in bridge'  BY <2>2, <2>5 DEF NetInv, NetTypeInv
      <4> QED  BY <2>1, <2>5, <3>1, <4>1, <4>2 DEF NetStarted, NetStopped, Starting, Stopping, Same
    <3>7. NetworkInv(n)'  BY <2>2, <3>1, <3>6, NetAtWork
    <3>8. NetHostsInv(n)'  BY <2>2, <2>5, <3>1 DEF NetInv, NetHostsInv, Due, Busy, Same, Turns
    <3> QED  BY <2>2, <3>1, <3>2, <3>3, <3>4, <3>7, <3>8, NetByOne
  <2> QED  BY <2>3, <2>4, <2>5
<1>2. ASSUME NEW r \in NetReqs, StartClear(r) PROVE NetInv'
  <2>1. nreq[r].at \in {"clear4", "clear6"}  BY <1>2 DEF StartClear, NetIs
  <2> PICK n \in Nets : n = nreq[r].net  BY <2>1, NetGoes DEF Starting, Stopping
  <2>2. n = nreq[r].net /\ Busy(r, n) /\ nreq[r].set \in Nat /\ nreq[r].saw \in [Nets -> SUBSET Guests] /\ nreq[r].left \subseteq Nets /\ (Clean(n) => NetStarted(r, n) /\ NetStopped(r, n))
    BY <2>1, NetGoes DEF NetInv, NetworkInv, Clean, Starting, Stopping
  <2>3. \/ /\ n \in bridge
           /\ networkIptablesClear(n, {Family(r)}) /\ Flush(n, Family(r))
           /\ netMarks' = Robbed(n)
           /\ NetGoto(r, IF At4(r) THEN "set4" ELSE "set6")
           /\ UNCHANGED <<netRow, bridge, tunnels, dnsmasq, hosts, listed, guests, boot>>
        \/ StartFails(r) /\ UNCHANGED <<netRow, bridge, addr, rules, tunnels, dnsmasq, hosts, listed, guests, boot>>
    BY <1>2, <2>1 DEF StartClear
  <2>4. CASE StartFails(r) /\ UNCHANGED <<netRow, bridge, addr, rules, tunnels, dnsmasq, hosts, listed, guests, boot>>
    BY <2>1, <2>2, <2>4, NetFailing DEF NetInv, NetTypeInv, Starting
  <2>5. ASSUME n \in bridge,
               networkIptablesClear(n, {Family(r)}) /\ Flush(n, Family(r)),
               netMarks' = Robbed(n),
               NetGoto(r, IF At4(r) THEN "set4" ELSE "set6"),
               UNCHANGED <<netRow, bridge, tunnels, dnsmasq, hosts, listed, guests, boot>>
        PROVE  NetInv'
    <3>1. /\ Turns(r, n) /\ nreq'[r].at = (IF At4(r) THEN "set4" ELSE "set6") /\ Same(r) /\ nreq'[r].left = nreq[r].left
        /\ nreq' \in [NetReqs -> NetAsks]
        /\ \A q \in NetReqs : IF nreq'[q].at = "idle" THEN nreq'[q] = NoReq ELSE nreq'[q].net \in Nets /\ LeftOwn(nreq'[q])
      BY <2>1, <2>5, NetGoes DEF Stages, Starting, Stopping
    <3>5. /\ addr' \in [Nets -> [Families -> SUBSET Nat]] /\ rules' \in [Nets -> [Families -> SUBSET Nat]]
          /\ netMarks' \in [Nets -> SUBSET NetFlags] /\ \A m \in Nets : netMarks[m] \subseteq netMarks'[m]
          /\ \A m \in Nets \ {n} : addr'[m] = addr[m] /\ (rules'[m] = rules[m] \/ "robbed" \in netMarks'[m])
          /\ \A f \in Families : IF f = Family(r) THEN addr'[n][f] = {} /\ rules'[n][f] = {}
                                  ELSE addr'[n][f] = addr[n][f] /\ rules'[n][f] = rules[n][f]
      <4>1. Family(r) \in Families  BY DEF Family, Families
      <4>2. addr \in [Nets -> [Families -> SUBSET Nat]] /\ rules \in [Nets -> [Families -> SUBSET Nat]]
            /\ netMarks \in [Nets -> SUBSET NetFlags]
        BY DEF NetInv, NetTypeInv
      <4>3. /\ addr' \in [Nets -> [Families -> SUBSET Nat]] /\ \A m \in Nets \ {n} : addr'[m] = addr[m]
            /\ \A f \in Families : addr'[n][f] = IF f = Family(r) THEN {} ELSE addr[n][f]
        BY <2>5, <4>1, <4>2 DEF Flush
      <4>4. /\ rules' \in [Nets -> [Families -> SUBSET Nat]]
            /\ \A m \in Nets \ {n} : rules'[m] = rules[m] \/ <<n, m>> \in Longer
            /\ \A f \in Families : rules'[n][f] = IF f = Family(r) THEN {} ELSE rules[n][f]
        BY <2>5, <4>1, <4>2 DEF networkIptablesClear
      <4>5. /\ netMarks' \in [Nets -> SUBSET NetFlags] /\ \A m \in Nets : netMarks[m] \subseteq netMarks'[m]
            /\ \A m \in Nets : <<n, m>> \in Longer /\ rules'[m] # rules[m] => "robbed" \in netMarks'[m]
        BY <2>5, <4>2 DEF Robbed, NetFlags
      <4> QED  BY <4>3, <4>4, <4>5
    <3>2. NetTypeInv'  BY <2>2, <2>5, <3>1, <3>5 DEF NetInv, NetTypeInv
    <3>3. NetBootInv'  BY <2>1, <2>5, <3>1 DEF NetInv, NetBootInv, Turns, Same
    <3>4. Keeps(n)  BY <2>2, <2>5, <3>5 DEF Keeps, Kept, NetInv, NetTypeInv
    <3>6. ASSUME Clean(n)' PROVE Clean(n) /\ nreq'[r].at # "idle" /\ NetStarted(r, n)' /\ NetStopped(r, n)'
      <4>1. Clean(n) /\ NetStarted(r, n)  BY <2>2, <3>5, <3>6 DEF Clean
      <4>2. CASE nreq[r].at = "clear4"
        <5>1. Family(r) = 4 /\ nreq'[r].at = "set4"  BY <3>1, <4>2 DEF Family, At4
        <5>2. addr'[n][4] = {} /\ rules'[n][4] = {}  BY <3>5, <5>1 DEF Families
        <5> QED  BY <2>5, <3>1, <4>1, <4>2, <5>1, <5>2 DEF NetStarted, NetStopped, Starting, Stopping, Same
      <4>3. CASE nreq[r].at = "clear6"
        <5>1. Family(r) = 6 /\ nreq'[r].at = "set6"  BY <3>1, <4>3 DEF Family, At4
        <5>2. /\ addr'[n][6] = {} /\ rules'[n][6] = {}
              /\ addr'[n][4] = addr[n][4] /\ rules'[n][4] = rules[n][4]
          BY <3>5, <5>1 DEF Families
        <5> QED  BY <2>5, <3>1, <4>1, <4>3, <5>1, <5>2 DEF NetStarted, NetStopped, Starting, Stopping, Same
      <4> QED  BY <2>1, <4>2, <4>3
    <3>7. NetworkInv(n)'  BY <2>2, <3>1, <3>6, NetAtWork
    <3>8. NetHostsInv(n)'
      <4>1. netMarks'[n] = {} => netMarks[n] = {}  BY <3>5
      <4>2. \A q \in NetReqs : Due(q, n) => Due(q, n)'
        BY <2>2, <3>1 DEF Due, Busy, Same, Turns
      <4> QED  BY <2>2, <2>5, <4>1, <4>2 DEF NetInv, NetHostsInv
    <3> QED  BY <2>2, <3>1, <3>2, <3>3, <3>4, <3>7, <3>8, NetByOne
  <2> QED  BY <2>3, <2>4, <2>5
<1>3. ASSUME NEW r \in NetReqs, StartFamily(r) PROVE NetInv'
  <2>1. nreq[r].at \in {"set4", "set6"}  BY <1>3 DEF StartFamily, NetIs
  <2> PICK n \in Nets : n = nreq[r].net  BY <2>1, NetGoes DEF Starting, Stopping
  <2>2. n = nreq[r].net /\ Busy(r, n) /\ nreq[r].set \in Nat /\ nreq[r].saw \in [Nets -> SUBSET Guests] /\ nreq[r].left \subseteq Nets /\ (Clean(n) => NetStarted(r, n) /\ NetStopped(r, n))
    BY <2>1, NetGoes DEF NetInv, NetworkInv, Clean, Starting, Stopping
  <2>3. \/ /\ rules' = [rules EXCEPT ![n][Family(r)] = @ \cup {nreq[r].set}]
           /\ n \in bridge
           /\ addr' = [addr EXCEPT ![n][Family(r)] = @ \cup {nreq[r].set}]
           /\ NetGoto(r, IF At4(r) THEN "clear6" ELSE "tunnel")
           /\ UNCHANGED <<netRow, bridge, tunnels, dnsmasq, hosts, listed, guests, boot, netMarks>>
        \/ StartFails(r) /\ rules' = [rules EXCEPT ![n][Family(r)] = @ \cup {nreq[r].set}] /\ UNCHANGED <<netRow, bridge, addr, tunnels, dnsmasq, hosts, listed, guests, boot>>
    BY <1>3, <2>1 DEF StartFamily
  <2>4. CASE /\ StartFails(r) /\ rules' = [rules EXCEPT ![n][Family(r)] = @ \cup {nreq[r].set}]
             /\ UNCHANGED <<netRow, bridge, addr, tunnels, dnsmasq, hosts, listed, guests, boot>>
    <3>1. Family(r) \in Families  BY DEF Family, Families
    <3>2. rules' \in [Nets -> [Families -> SUBSET Nat]] /\ \A m \in Nets \ {n} : rules'[m] = rules[m]
      BY <2>2, <2>4, <3>1 DEF NetInv, NetTypeInv
    <3> QED  BY <2>1, <2>2, <2>4, <3>2, NetFailing DEF NetInv, NetTypeInv, Starting
  <2>5. ASSUME rules' = [rules EXCEPT ![n][Family(r)] = @ \cup {nreq[r].set}],
               n \in bridge,
               addr' = [addr EXCEPT ![n][Family(r)] = @ \cup {nreq[r].set}],
               NetGoto(r, IF At4(r) THEN "clear6" ELSE "tunnel"),
               UNCHANGED <<netRow, bridge, tunnels, dnsmasq, hosts, listed, guests, boot, netMarks>>
        PROVE  NetInv'
    <3>1. /\ Turns(r, n) /\ nreq'[r].at = (IF At4(r) THEN "clear6" ELSE "tunnel") /\ Same(r) /\ nreq'[r].left = nreq[r].left
        /\ nreq' \in [NetReqs -> NetAsks]
        /\ \A q \in NetReqs : IF nreq'[q].at = "idle" THEN nreq'[q] = NoReq ELSE nreq'[q].net \in Nets /\ LeftOwn(nreq'[q])
      BY <2>1, <2>5, NetGoes DEF Stages, Starting, Stopping
    <3>5. /\ addr' \in [Nets -> [Families -> SUBSET Nat]] /\ rules' \in [Nets -> [Families -> SUBSET Nat]]
          /\ \A m \in Nets \ {n} : addr'[m] = addr[m] /\ rules'[m] = rules[m]
          /\ \A f \in Families :
               /\ addr'[n][f] = IF f = Family(r) THEN addr[n][f] \cup {nreq[r].set} ELSE addr[n][f]
               /\ rules'[n][f] = IF f = Family(r) THEN rules[n][f] \cup {nreq[r].set} ELSE rules[n][f]
      <4>1. Family(r) \in Families  BY DEF Family, Families
      <4>2. addr \in [Nets -> [Families -> SUBSET Nat]] /\ rules \in [Nets -> [Families -> SUBSET Nat]]
        BY DEF NetInv, NetTypeInv
      <4> QED  BY <2>2, <2>5, <4>1, <4>2
    <3>2. NetTypeInv'  BY <2>2, <2>5, <3>1, <3>5 DEF NetInv, NetTypeInv
    <3>3. NetBootInv'  BY <2>1, <2>5, <3>1 DEF NetInv, NetBootInv, Turns, Same
    <3>4. Keeps(n)  BY <2>2, <2>5, <3>5 DEF Keeps, Kept, NetInv, NetTypeInv
    <3>6. ASSUME Clean(n)' PROVE Clean(n) /\ nreq'[r].at # "idle" /\ NetStarted(r, n)' /\ NetStopped(r, n)'
      <4>1. Clean(n) /\ NetStarted(r, n)  BY <2>2, <2>5, <3>6 DEF Clean
      <4>2. CASE nreq[r].at = "set4"
        <5>1. Family(r) = 4 /\ nreq'[r].at = "clear6"  BY <3>1, <4>2 DEF Family, At4
        <5>2. addr'[n][4] = {nreq[r].set} /\ rules'[n][4] = {nreq[r].set}
          BY <3>5, <4>1, <4>2, <5>1 DEF Families, NetStarted
        <5> QED  BY <2>2, <2>5, <3>1, <4>1, <4>2, <5>1, <5>2 DEF NetStarted, NetStopped, Starting, Stopping, Same
      <4>3. CASE nreq[r].at = "set6"
        <5>1. Family(r) = 6 /\ nreq'[r].at = "tunnel"  BY <3>1, <4>3 DEF Family, At4
        <5>2. /\ addr'[n][6] = {nreq[r].set} /\ rules'[n][6] = {nreq[r].set}
              /\ addr'[n][4] = addr[n][4] /\ rules'[n][4] = rules[n][4]
          BY <3>5, <4>1, <4>3, <5>1 DEF Families, NetStarted
        <5> QED  BY <2>2, <2>5, <3>1, <4>1, <4>3, <5>1, <5>2 DEF NetStarted, NetStopped, Starting, Stopping, Same
      <4> QED  BY <2>1, <4>2, <4>3
    <3>7. NetworkInv(n)'  BY <2>2, <3>1, <3>6, NetAtWork
    <3>8. NetHostsInv(n)'  BY <2>2, <2>5, <3>1 DEF NetInv, NetHostsInv, Due, Busy, Same, Turns
    <3> QED  BY <2>2, <3>1, <3>2, <3>3, <3>4, <3>7, <3>8, NetByOne
  <2> QED  BY <2>3, <2>4, <2>5
<1>4. ASSUME NEW r \in NetReqs, StartTunnels(r) PROVE NetInv'
  <2>1. nreq[r].at = "tunnel"  BY <1>4 DEF StartTunnels, NetIs
  <2> PICK n \in Nets : n = nreq[r].net  BY <2>1, NetGoes DEF Starting, Stopping
  <2>2. n = nreq[r].net /\ Busy(r, n) /\ nreq[r].set \in Nat /\ nreq[r].saw \in [Nets -> SUBSET Guests] /\ nreq[r].left \subseteq Nets /\ (Clean(n) => NetStarted(r, n) /\ NetStopped(r, n))
    BY <2>1, NetGoes DEF NetInv, NetworkInv, Clean, Starting, Stopping
  <2>3. \/ /\ n \in bridge
           /\ tunnels' = [tunnels EXCEPT ![n] = @ \cup {nreq[r].set}]
           /\ NetGoto(r, "dns")
           /\ UNCHANGED <<netRow, bridge, addr, rules, dnsmasq, hosts, listed, guests, boot, netMarks>>
        \/ StartFails(r) /\ UNCHANGED <<netRow, bridge, addr, rules, tunnels, dnsmasq, hosts, listed, guests, boot>>
    BY <1>4, <2>1 DEF StartTunnels
  <2>4. CASE StartFails(r) /\ UNCHANGED <<netRow, bridge, addr, rules, tunnels, dnsmasq, hosts, listed, guests, boot>>
    BY <2>1, <2>2, <2>4, NetFailing DEF NetInv, NetTypeInv, Starting
  <2>5. ASSUME n \in bridge,
               tunnels' = [tunnels EXCEPT ![n] = @ \cup {nreq[r].set}],
               NetGoto(r, "dns"),
               UNCHANGED <<netRow, bridge, addr, rules, dnsmasq, hosts, listed, guests, boot, netMarks>>
        PROVE  NetInv'
    <3>1. /\ Turns(r, n) /\ nreq'[r].at = "dns" /\ Same(r) /\ nreq'[r].left = nreq[r].left
        /\ nreq' \in [NetReqs -> NetAsks]
        /\ \A q \in NetReqs : IF nreq'[q].at = "idle" THEN nreq'[q] = NoReq ELSE nreq'[q].net \in Nets /\ LeftOwn(nreq'[q])
      BY <2>1, <2>5, NetGoes DEF Stages, Starting, Stopping
    <3>2. NetTypeInv'  BY <2>2, <2>5, <3>1 DEF NetInv, NetTypeInv
    <3>3. NetBootInv'  BY <2>1, <2>5, <3>1 DEF NetInv, NetBootInv, Turns, Same
    <3>4. Keeps(n)  BY <2>2, <2>5 DEF Keeps, Kept, NetInv, NetTypeInv
    <3>6. ASSUME Clean(n)' PROVE Clean(n) /\ nreq'[r].at # "idle" /\ NetStarted(r, n)' /\ NetStopped(r, n)'
      <4>1. Clean(n) /\ NetStarted(r, n)  BY <2>2, <2>5, <3>6 DEF Clean
      <4>2. tunnels'[n] = tunnels[n] \cup {nreq[r].set}  BY <2>2, <2>5 DEF NetInv, NetTypeInv
      <4>3. tunnels'[n] = {nreq[r].set}  BY <2>1, <4>1, <4>2 DEF NetStarted, Starting
      <4> QED  BY <2>1, <2>5, <3>1, <4>1, <4>3 DEF NetStarted, NetStopped, Starting, Stopping, Same
    <3>7. NetworkInv(n)'  BY <2>2, <3>1, <3>6, NetAtWork
    <3>8. NetHostsInv(n)'  BY <2>2, <2>5, <3>1 DEF NetInv, NetHostsInv, Due, Busy, Same, Turns
    <3> QED  BY <2>2, <3>1, <3>2, <3>3, <3>4, <3>7, <3>8, NetByOne
  <2> QED  BY <2>3, <2>4, <2>5
<1>5. ASSUME NEW r \in NetReqs, StartDnsmasq(r) PROVE NetInv'
  <2>1. nreq[r].at = "dns"  BY <1>5 DEF StartDnsmasq, NetIs
  <2> PICK n \in Nets : n = nreq[r].net  BY <2>1, NetGoes DEF Starting, Stopping
  <2>2. n = nreq[r].net /\ Busy(r, n) /\ nreq[r].set \in Nat /\ nreq[r].saw \in [Nets -> SUBSET Guests] /\ nreq[r].left \subseteq Nets /\ (Clean(n) => NetStarted(r, n) /\ NetStopped(r, n))
    BY <2>1, NetGoes DEF NetInv, NetworkInv, Clean, Starting, Stopping
  <2>3. \/ /\ n \in bridge
           /\ dnsmasq' = [dnsmasq EXCEPT ![n] = nreq[r].set]
           /\ NetGoto(r, "static") /\ listed' = listed \cup {n}
           /\ UNCHANGED <<netRow, bridge, addr, rules, tunnels, hosts, guests, boot, netMarks>>
        \/ StartFails(r) /\ dnsmasq' = [dnsmasq EXCEPT ![n] = 0] /\ UNCHANGED <<netRow, bridge, addr, rules, tunnels, hosts, listed, guests, boot>>
    BY <1>5, <2>1 DEF StartDnsmasq
  <2>4. CASE StartFails(r) /\ dnsmasq' = [dnsmasq EXCEPT ![n] = 0] /\ UNCHANGED <<netRow, bridge, addr, rules, tunnels, hosts, listed, guests, boot>>
    BY <2>1, <2>2, <2>4, NetFailing DEF NetInv, NetTypeInv, Starting
  <2>5. ASSUME n \in bridge,
               dnsmasq' = [dnsmasq EXCEPT ![n] = nreq[r].set],
               NetGoto(r, "static"), listed' = listed \cup {n},
               UNCHANGED <<netRow, bridge, addr, rules, tunnels, hosts, guests, boot, netMarks>>
        PROVE  NetInv'
    <3>1. /\ Turns(r, n) /\ nreq'[r].at = "static" /\ Same(r) /\ nreq'[r].left = nreq[r].left
        /\ nreq' \in [NetReqs -> NetAsks]
        /\ \A q \in NetReqs : IF nreq'[q].at = "idle" THEN nreq'[q] = NoReq ELSE nreq'[q].net \in Nets /\ LeftOwn(nreq'[q])
      BY <2>1, <2>5, NetGoes DEF Stages, Starting, Stopping
    <3>2. NetTypeInv'  BY <2>2, <2>5, <3>1 DEF NetInv, NetTypeInv
    <3>3. NetBootInv'  BY <2>1, <2>5, <3>1 DEF NetInv, NetBootInv, Turns, Same
    <3>4. Keeps(n)  BY <2>2, <2>5 DEF Keeps, Kept, NetInv, NetTypeInv
    <3>6. ASSUME Clean(n)' PROVE Clean(n) /\ nreq'[r].at # "idle" /\ NetStarted(r, n)' /\ NetStopped(r, n)'
      <4>1. Clean(n) /\ NetStarted(r, n)  BY <2>2, <2>5, <3>6 DEF Clean
      <4>2. dnsmasq'[n] = nreq[r].set  BY <2>2, <2>5 DEF NetInv, NetTypeInv
      <4>3. /\ nreq[r].set = netRow[n] /\ netRow[n] # 0 /\ n \in bridge /\ tunnels[n] = {nreq[r].set}
            /\ addr[n][4] = {nreq[r].set} /\ rules[n][4] = {nreq[r].set}
            /\ addr[n][6] = {nreq[r].set} /\ rules[n][6] = {nreq[r].set}
        BY <2>1, <4>1 DEF NetStarted, Starting
      <4>4. addr[n] = Both({nreq[r].set}) /\ rules[n] = Both({nreq[r].set})
        BY <4>3, BothIs DEF NetInv, NetTypeInv
      <4>5. Served(n)'  BY <2>5, <4>2, <4>3, <4>4 DEF Served, Level
      <4> QED  BY <3>1, <4>1, <4>5 DEF NetStarted, NetStopped, Starting, Stopping
    <3>7. NetworkInv(n)'  BY <2>2, <3>1, <3>6, NetAtWork
    <3>8. NetHostsInv(n)'  BY <2>2, <2>5, <3>1 DEF NetInv, NetHostsInv, Due, Busy, Same, Turns
    <3> QED  BY <2>2, <3>1, <3>2, <3>3, <3>4, <3>7, <3>8, NetByOne
  <2> QED  BY <2>3, <2>4, <2>5
<1>6. ASSUME NEW r \in NetReqs, UpdateStatic(r) PROVE NetInv'
  <2>1. nreq[r].at = "static"  BY <1>6 DEF UpdateStatic, NetIs
  <2> PICK n \in Nets : n = nreq[r].net  BY <2>1, NetGoes
  <2>2. /\ n = nreq[r].net /\ Busy(r, n) /\ nreq[r].saw \in [Nets -> SUBSET Guests] /\ nreq[r].left \subseteq Nets
        /\ (Clean(n) => NetStarted(r, n) /\ NetStopped(r, n))
    BY <2>1, NetGoes DEF NetInv, NetworkInv, Clean
  <2> DEFINE l == IF Wide(r) THEN {m \in Nets : netRow[m] # 0} ELSE {nreq[r].net}
  <2>3. /\ nreq' = [nreq EXCEPT ![r].saw = guests, ![r].at = "hosts", ![r].left = l]
        /\ UNCHANGED <<netRow, bridge, addr, rules, tunnels, dnsmasq, hosts, listed, guests, boot, netMarks>>
    BY <1>6 DEF UpdateStatic, netState
  <2>4. l \subseteq Nets /\ (netRow[n] # 0 => n \in l) /\ (Wide(r) \/ l \subseteq {n})  BY <2>2
  <2> HIDE DEF l
  <2>5. /\ Turns(r, n) /\ nreq'[r].at = "hosts" /\ nreq'[r].left = l /\ Same(r) /\ nreq' \in [NetReqs -> NetAsks]
        /\ \A q \in NetReqs : IF nreq'[q].at = "idle" THEN nreq'[q] = NoReq ELSE nreq'[q].net \in Nets /\ LeftOwn(nreq'[q])
    <3>1. nreq \in [NetReqs -> NetAsks] /\ guests \in [Nets -> SUBSET Guests]  BY DEF NetInv, NetTypeInv
    <3>2. /\ nreq'[r].at = "hosts" /\ nreq'[r].left = l /\ Same(r) /\ nreq' \in [NetReqs -> NetAsks]
          /\ \A q \in NetReqs \ {r} : nreq'[q] = nreq[q]
      <4> DEFINE ask == [nreq[r] EXCEPT !.saw = guests, !.at = "hosts", !.left = l]
      <4>1. nreq' = [nreq EXCEPT ![r] = ask]  BY <2>3
      <4>2. /\ ask.at = "hosts" /\ ask.left = l /\ ask.op = nreq[r].op /\ ask.net = nreq[r].net
            /\ ask.set = nreq[r].set /\ ask \in NetAsks
        BY <2>2, <2>4, <3>1 DEF NetAsks, Stages
      <4> HIDE DEF ask
      <4> QED  BY <3>1, <4>1, <4>2 DEF Same
    <3> QED  BY <2>1, <2>2, <2>4, <3>2 DEF Turns, Same, NetInv, NetTypeInv, LeftOwn, Wide
  <2>6. NetTypeInv'  BY <2>3, <2>5 DEF NetInv, NetTypeInv
  <2>7. NetBootInv'  BY <2>1, <2>3, <2>5 DEF NetInv, NetBootInv, Turns, Same
  <2>8. Keeps(n)  BY <2>3 DEF Keeps, Kept
  <2>9. Clean(n)' => Clean(n) /\ NetStarted(r, n)' /\ NetStopped(r, n)'
    BY <2>1, <2>2, <2>3, <2>5 DEF Clean, NetStarted, NetStopped, Starting, Stopping, Same, Served, Level
  <2>10. NetworkInv(n)'  BY <2>2, <2>5, <2>9, NetAtWork
  <2>11. NetHostsInv(n)'
    BY <2>1, <2>2, <2>3, <2>4, <2>5 DEF NetInv, NetHostsInv, Due, Busy, Same, Turns
  <2> QED  BY <2>5, <2>6, <2>7, <2>8, <2>10, <2>11, NetByOne
<1>7. ASSUME NEW r \in NetReqs, NEW m \in Nets, StaticHosts(r, m) PROVE NetInv'
  <2>1. nreq[r].at = "hosts"  BY <1>7 DEF StaticHosts, NetIs
  <2> PICK n \in Nets : n = nreq[r].net  BY <2>1, NetGoes
  <2>2. /\ n = nreq[r].net /\ Busy(r, n) /\ nreq[r].saw \in [Nets -> SUBSET Guests] /\ nreq[r].left \subseteq Nets
        /\ (Clean(n) => NetStarted(r, n) /\ NetStopped(r, n))
    BY <2>1, NetGoes DEF NetInv, NetworkInv, Clean
  <2>3. ASSUME nreq' = [nreq EXCEPT ![r].left = @ \ {m}]
        PROVE  /\ Turns(r, n) /\ nreq'[r].at = "hosts" /\ Same(r) /\ nreq' \in [NetReqs -> NetAsks]
               /\ nreq'[r].left = nreq[r].left \ {m}
               /\ \A q \in NetReqs : IF nreq'[q].at = "idle" THEN nreq'[q] = NoReq ELSE nreq'[q].net \in Nets /\ LeftOwn(nreq'[q])
    <3>1. nreq \in [NetReqs -> NetAsks]  BY DEF NetInv, NetTypeInv
    <3>2. /\ nreq'[r].at = "hosts" /\ Same(r) /\ nreq' \in [NetReqs -> NetAsks] /\ nreq'[r].left = nreq[r].left \ {m}
          /\ \A q \in NetReqs \ {r} : nreq'[q] = nreq[q]
      BY <2>1, <2>2, <2>3, <3>1 DEF NetAsks, Same
    <3> QED  BY <2>1, <2>2, <3>2 DEF Turns, Same, NetInv, NetTypeInv, LeftOwn
  <2>4. /\ m \in nreq[r].left /\ nreq' = [nreq EXCEPT ![r].left = @ \ {m}]
        /\ UNCHANGED <<netRow, bridge, addr, rules, tunnels, dnsmasq, listed, guests, boot>>
        /\ \/ hosts' = [hosts EXCEPT ![m] = nreq[r].saw[m]] /\ NetMark(m, IF nreq[r].saw[m] = guests[m] THEN {} ELSE {"overtaken"})
           \/ m \notin listed /\ hosts' = hosts /\ netMarks' = netMarks
    BY <1>7 DEF StaticHosts, WriteHosts
  <2>5. /\ Turns(r, n) /\ nreq'[r].at = "hosts" /\ Same(r) /\ nreq' \in [NetReqs -> NetAsks]
        /\ nreq'[r].left = nreq[r].left \ {m}
        /\ \A q \in NetReqs : IF nreq'[q].at = "idle" THEN nreq'[q] = NoReq ELSE nreq'[q].net \in Nets /\ LeftOwn(nreq'[q])
    BY <2>3, <2>4
  <2>6. /\ netMarks' \in [Nets -> SUBSET NetFlags] /\ \A k \in Nets : netMarks[k] \subseteq netMarks'[k]
        /\ hosts' \in [Nets -> SUBSET Guests]
        /\ \A k \in Nets \ {m} : hosts'[k] = hosts[k] /\ netMarks'[k] = netMarks[k]
        /\ netMarks'[m] \ netMarks[m] \subseteq {"overtaken"}
        /\ hosts'[m] = guests[m] \/ netMarks'[m] # {} \/ (m \notin listed /\ hosts'[m] = hosts[m])
    <3>0. hosts \in [Nets -> SUBSET Guests] /\ netMarks \in [Nets -> SUBSET NetFlags]  BY DEF NetInv, NetTypeInv
    <3>1. CASE m \notin listed /\ hosts' = hosts /\ netMarks' = netMarks  BY <3>0, <3>1
    <3>2. CASE /\ hosts' = [hosts EXCEPT ![m] = nreq[r].saw[m]]
               /\ NetMark(m, IF nreq[r].saw[m] = guests[m] THEN {} ELSE {"overtaken"})
      <4>1. nreq[r].saw[m] \in SUBSET Guests  BY <2>2
      <4>2. hosts' \in [Nets -> SUBSET Guests] /\ hosts'[m] = nreq[r].saw[m] /\ \A k \in Nets \ {m} : hosts'[k] = hosts[k]
        BY <3>0, <3>2, <4>1
      <4>3. CASE nreq[r].saw[m] = guests[m]
        <5>1. netMarks' = [netMarks EXCEPT ![m] = @ \cup {}]  BY <3>2, <4>3 DEF NetMark
        <5>2. netMarks' = netMarks  BY <3>0, <5>1
        <5> QED  BY <3>0, <4>2, <4>3, <5>2
      <4>4. CASE nreq[r].saw[m] # guests[m]
        <5>1. netMarks' = [netMarks EXCEPT ![m] = @ \cup {"overtaken"}]  BY <3>2, <4>4 DEF NetMark
        <5>2. /\ netMarks' \in [Nets -> SUBSET NetFlags] /\ netMarks'[m] = netMarks[m] \cup {"overtaken"}
              /\ \A k \in Nets \ {m} : netMarks'[k] = netMarks[k]
          BY <3>0, <5>1 DEF NetFlags
        <5> QED  BY <4>2, <5>2
      <4> QED  BY <4>3, <4>4
    <3> QED  BY <2>4, <3>1, <3>2
  <2>7. NetTypeInv'  BY <2>4, <2>5, <2>6 DEF NetInv, NetTypeInv
  <2>8. NetBootInv'  BY <2>1, <2>4, <2>5 DEF NetInv, NetBootInv, Turns, Same
  <2>9. Keeps(n)
    <3> SUFFICES ASSUME NEW k \in Nets \ {n} PROVE Kept(k)  BY DEF Keeps
    <3>1. hosts'[k] = hosts[k] \/ hosts'[k] = guests[k] \/ netMarks'[k] # {}  BY <2>6
    <3> QED  BY <2>4, <2>6, <3>1 DEF Kept
  <2>10. Clean(n)' => Clean(n) /\ NetStarted(r, n)' /\ NetStopped(r, n)'
    <3>1. Clean(n)' => Clean(n)  BY <2>6 DEF Clean
    <3> QED
      BY <2>1, <2>2, <2>4, <2>5, <3>1 DEF NetStarted, NetStopped, Starting, Stopping, Same, Served, Level
  <2>11. NetworkInv(n)'  BY <2>2, <2>5, <2>10, NetAtWork
  <2>12. NetHostsInv(n)'
    <3> SUFFICES ASSUME netMarks'[n] = {}, netRow[n] # 0 PROVE (\E q \in NetReqs : Due(q, n)') \/ hosts'[n] = guests'[n]
      BY <2>4 DEF NetHostsInv
    <3>1. netMarks[n] = {}  BY <2>6
    <3>2. n \in listed  BY <2>1, <2>2, <3>1 DEF NetStarted, Served, Clean
    <3>3. CASE n = m  BY <2>4, <2>6, <3>2, <3>3
    <3>4. CASE n # m
      <4>1. (\E q \in NetReqs : Due(q, n)) \/ hosts[n] = guests[n]  BY <3>1 DEF NetInv, NetHostsInv
      <4>2. \A q \in NetReqs \ {r} : Due(q, n) => Due(q, n)'  BY <2>5 DEF Due, Busy, Turns
      <4>3. Due(r, n) => Due(r, n)'  BY <2>1, <2>2, <2>5, <3>4 DEF Due, Busy, Same
      <4> QED  BY <2>4, <2>6, <3>4, <4>1, <4>2, <4>3
    <3> QED  BY <3>3, <3>4
  <2> QED  BY <2>5, <2>7, <2>8, <2>9, <2>11, <2>12, NetByOne
<1>8. ASSUME NEW r \in NetReqs, StopLink(r) PROVE NetInv'
  <2>1. nreq[r].at = "link"  BY <1>8 DEF StopLink, NetIs
  <2> PICK n \in Nets : n = nreq[r].net  BY <2>1, NetGoes DEF Starting, Stopping
  <2>2. n = nreq[r].net /\ Busy(r, n) /\ nreq[r].set \in Nat /\ nreq[r].saw \in [Nets -> SUBSET Guests] /\ nreq[r].left \subseteq Nets /\ (Clean(n) => NetStarted(r, n) /\ NetStopped(r, n))
    BY <2>1, NetGoes DEF NetInv, NetworkInv, Clean, Starting, Stopping
  <2>3. \/ /\ n \in bridge
           /\ bridge' = bridge \ {n}
           /\ addr' = [addr EXCEPT ![n] = Both({})]
           /\ NetGoto(r, "unrule")
           /\ UNCHANGED <<netRow, rules, tunnels, dnsmasq, hosts, listed, guests, boot, netMarks>>
        \/ /\ nreq' = [nreq EXCEPT ![r] = NoReq]
           /\ NetMark(n, IF nreq[r].op = "create" THEN {"halfapplied"} ELSE {})
           /\ UNCHANGED <<netRow, bridge, addr, rules, tunnels, dnsmasq, hosts, listed, guests, boot>>
    BY <1>8, <2>1 DEF StopLink, netState, Both
  <2>4. ASSUME n \in bridge,
               bridge' = bridge \ {n},
               addr' = [addr EXCEPT ![n] = Both({})],
               NetGoto(r, "unrule"),
               UNCHANGED <<netRow, rules, tunnels, dnsmasq, hosts, listed, guests, boot, netMarks>>
        PROVE  NetInv'
    <3>1. /\ Turns(r, n) /\ nreq'[r].at = "unrule" /\ Same(r) /\ nreq'[r].left = nreq[r].left
        /\ nreq' \in [NetReqs -> NetAsks]
        /\ \A q \in NetReqs : IF nreq'[q].at = "idle" THEN nreq'[q] = NoReq ELSE nreq'[q].net \in Nets /\ LeftOwn(nreq'[q])
      BY <2>1, <2>2, <2>4, NetGoes DEF Stages, Starting, Stopping
    <3>5. addr' \in [Nets -> [Families -> SUBSET Nat]] /\ addr'[n] = Both({})
      <4>1. Both({}) \in [Families -> SUBSET Nat]  BY DEF Both
      <4> QED  BY <2>4, <4>1 DEF NetInv, NetTypeInv
    <3>2. NetTypeInv'  BY <2>2, <2>4, <3>1, <3>5 DEF NetInv, NetTypeInv
    <3>3. NetBootInv'  BY <2>1, <2>2, <2>4, <3>1, <3>5 DEF NetInv, NetBootInv, Turns, Same, Busy
    <3>4. Keeps(n)  BY <2>2, <2>4, <3>5 DEF Keeps, Kept, NetInv, NetTypeInv
    <3>6. Clean(n)' => Clean(n) /\ IF nreq'[r].at = "idle" THEN Served(n)' ELSE NetStarted(r, n)' /\ NetStopped(r, n)'
      BY <2>1, <2>2, <2>4, <3>1, <3>5 DEF Clean, NetStarted, NetStopped, Starting, Stopping, Same
    <3>7. NetworkInv(n)'  BY <2>2, <3>1, <3>6, NetAtWork
    <3>8. NetHostsInv(n)'  BY <2>2, <2>4, <3>1, <3>5 DEF NetInv, NetHostsInv, Due, Busy, Same, Turns
    <3> QED  BY <2>2, <3>1, <3>2, <3>3, <3>4, <3>7, <3>8, NetByOne
  <2>5. ASSUME nreq' = [nreq EXCEPT ![r] = NoReq],
               NetMark(n, IF nreq[r].op = "create" THEN {"halfapplied"} ELSE {}),
               UNCHANGED <<netRow, bridge, addr, rules, tunnels, dnsmasq, hosts, listed, guests, boot>>
        PROVE  NetInv'
    <3>1. /\ Turns(r, n) /\ nreq'[r].at = "idle" /\ nreq' \in [NetReqs -> NetAsks]
          /\ \A q \in NetReqs : IF nreq'[q].at = "idle" THEN nreq'[q] = NoReq ELSE nreq'[q].net \in Nets /\ LeftOwn(nreq'[q])
      BY <2>1, <2>2, <2>5, NetGoes DEF Starting, Stopping
    <3>5. /\ netMarks' \in [Nets -> SUBSET NetFlags] /\ netMarks'[n] = netMarks[n] \cup (IF nreq[r].op = "create" THEN {"halfapplied"} ELSE {})
          /\ \A m \in Nets : netMarks[m] \subseteq netMarks'[m]
      <4>1. (IF nreq[r].op = "create" THEN {"halfapplied"} ELSE {}) \in SUBSET NetFlags  BY DEF NetFlags
      <4> QED  BY <2>5, <4>1, NetMarked
    <3>2. NetTypeInv'  BY <2>2, <2>5, <3>1, <3>5 DEF NetInv, NetTypeInv
    <3>3. NetBootInv'  BY <2>1, <2>2, <2>5, <3>1, <3>5 DEF NetInv, NetBootInv, Turns, Same, Busy
    <3>4. Keeps(n)  BY <2>2, <2>5, <3>5 DEF Keeps, Kept, NetInv, NetTypeInv
    <3>6. Clean(n)' => Clean(n) /\ IF nreq'[r].at = "idle" THEN Served(n)' ELSE NetStarted(r, n)' /\ NetStopped(r, n)'
      BY <2>1, <2>2, <2>5, <3>1, <3>5 DEF Clean, NetStopped, Served, Level
    <3>7. NetworkInv(n)'  BY <2>2, <3>1, <3>6, NetAtWork
    <3>8. NetHostsInv(n)'
      <4> SUFFICES ASSUME netMarks'[n] = {}, netRow'[n] # 0 PROVE hosts'[n] = guests'[n]
        BY DEF NetHostsInv, Due
      <4>1. netMarks[n] = {} /\ nreq[r].op # "create"  BY <3>5
      <4>2. nreq[r].op \in {"update", "delete", "rename"} /\ \A q \in NetReqs \ {r} : ~Busy(q, n)
        BY <2>1, <2>2, <4>1 DEF Clean, NetStopped, Stopping, NetInv, NetworkInv
      <4> QED  BY <2>5, <4>1, <4>2 DEF NetInv, NetHostsInv, Due
    <3> QED  BY <2>2, <3>1, <3>2, <3>3, <3>4, <3>7, <3>8, NetByOne
  <2> QED  BY <2>3, <2>4, <2>5
<1>9. ASSUME NEW r \in NetReqs, StopRules(r) PROVE NetInv'
  <2>1. nreq[r].at = "unrule"  BY <1>9 DEF StopRules, NetIs
  <2> PICK n \in Nets : n = nreq[r].net  BY <2>1, NetGoes DEF Starting, Stopping
  <2>2. n = nreq[r].net /\ Busy(r, n) /\ nreq[r].set \in Nat /\ nreq[r].saw \in [Nets -> SUBSET Guests] /\ nreq[r].left \subseteq Nets /\ (Clean(n) => NetStarted(r, n) /\ NetStopped(r, n))
    BY <2>1, NetGoes DEF NetInv, NetworkInv, Clean, Starting, Stopping
  <2>3. \/ /\ networkIptablesClear(n, Families)
           /\ netMarks' = Robbed(n)
           /\ NetGoto(r, "kill")
           /\ UNCHANGED <<netRow, bridge, addr, tunnels, dnsmasq, hosts, listed, guests, boot>>
        \/ /\ NetMark(n, {"halfstopped"})
           /\ nreq' = [nreq EXCEPT ![r] = NoReq]
           /\ UNCHANGED <<netRow, bridge, addr, rules, tunnels, dnsmasq, hosts, listed, guests, boot>>
    BY <1>9, <2>1 DEF StopRules, netState
  <2>4. ASSUME networkIptablesClear(n, Families),
               netMarks' = Robbed(n),
               NetGoto(r, "kill"),
               UNCHANGED <<netRow, bridge, addr, tunnels, dnsmasq, hosts, listed, guests, boot>>
        PROVE  NetInv'
    <3>1. /\ Turns(r, n) /\ nreq'[r].at = "kill" /\ Same(r) /\ nreq'[r].left = nreq[r].left
        /\ nreq' \in [NetReqs -> NetAsks]
        /\ \A q \in NetReqs : IF nreq'[q].at = "idle" THEN nreq'[q] = NoReq ELSE nreq'[q].net \in Nets /\ LeftOwn(nreq'[q])
      BY <2>1, <2>2, <2>4, NetGoes DEF Stages, Starting, Stopping
    <3>5. /\ rules' \in [Nets -> [Families -> SUBSET Nat]] /\ rules'[n] = Both({})
          /\ netMarks' \in [Nets -> SUBSET NetFlags] /\ \A m \in Nets : netMarks[m] \subseteq netMarks'[m]
          /\ \A m \in Nets \ {n} : rules'[m] = rules[m] \/ "robbed" \in netMarks'[m]
      <4>1. rules \in [Nets -> [Families -> SUBSET Nat]] /\ netMarks \in [Nets -> SUBSET NetFlags]
        BY DEF NetInv, NetTypeInv
      <4>2. /\ rules' \in [Nets -> [Families -> SUBSET Nat]]
            /\ \A m \in Nets \ {n} : rules'[m] = rules[m] \/ <<n, m>> \in Longer
            /\ \A f \in Families : rules'[n][f] = {}
        BY <2>4, <4>1 DEF networkIptablesClear
      <4>3. /\ netMarks' \in [Nets -> SUBSET NetFlags] /\ \A m \in Nets : netMarks[m] \subseteq netMarks'[m]
            /\ \A m \in Nets : <<n, m>> \in Longer /\ rules'[m] # rules[m] => "robbed" \in netMarks'[m]
        BY <2>4, <4>1 DEF Robbed, NetFlags
      <4>4. rules'[n] = Both({})  BY <4>2, BothIs DEF Families
      <4> QED  BY <4>2, <4>3, <4>4
    <3>2. NetTypeInv'  BY <2>2, <2>4, <3>1, <3>5 DEF NetInv, NetTypeInv
    <3>3. NetBootInv'  BY <2>1, <2>2, <2>4, <3>1, <3>5 DEF NetInv, NetBootInv, Turns, Same, Busy
    <3>4. Keeps(n)  BY <2>2, <2>4, <3>5 DEF Keeps, Kept, NetInv, NetTypeInv
    <3>6. Clean(n)' => Clean(n) /\ IF nreq'[r].at = "idle" THEN Served(n)' ELSE NetStarted(r, n)' /\ NetStopped(r, n)'
      BY <2>1, <2>2, <2>4, <3>1, <3>5 DEF Clean, NetStarted, NetStopped, Starting, Stopping, Same
    <3>7. NetworkInv(n)'  BY <2>2, <3>1, <3>6, NetAtWork
    <3>8. NetHostsInv(n)'
      <4>1. netMarks'[n] = {} => netMarks[n] = {}  BY <3>5
      <4>2. \A q \in NetReqs : Due(q, n) => Due(q, n)'
        BY <2>2, <3>1 DEF Due, Busy, Same, Turns
      <4> QED  BY <2>2, <2>4, <4>1, <4>2 DEF NetInv, NetHostsInv
    <3> QED  BY <2>2, <3>1, <3>2, <3>3, <3>4, <3>7, <3>8, NetByOne
  <2>5. ASSUME NetMark(n, {"halfstopped"}),
               nreq' = [nreq EXCEPT ![r] = NoReq],
               UNCHANGED <<netRow, bridge, addr, rules, tunnels, dnsmasq, hosts, listed, guests, boot>>
        PROVE  NetInv'
    <3>1. /\ Turns(r, n) /\ nreq'[r].at = "idle" /\ nreq' \in [NetReqs -> NetAsks]
          /\ \A q \in NetReqs : IF nreq'[q].at = "idle" THEN nreq'[q] = NoReq ELSE nreq'[q].net \in Nets /\ LeftOwn(nreq'[q])
      BY <2>1, <2>2, <2>5, NetGoes DEF Starting, Stopping
    <3>5. /\ netMarks' \in [Nets -> SUBSET NetFlags] /\ netMarks'[n] = netMarks[n] \cup {"halfstopped"}
          /\ \A m \in Nets : netMarks[m] \subseteq netMarks'[m]
      <4>1. {"halfstopped"} \in SUBSET NetFlags  BY DEF NetFlags
      <4> QED  BY <2>5, <4>1, NetMarked
    <3>2. NetTypeInv'  BY <2>2, <2>5, <3>1, <3>5 DEF NetInv, NetTypeInv
    <3>3. NetBootInv'  BY <2>1, <2>2, <2>5, <3>1, <3>5 DEF NetInv, NetBootInv, Turns, Same, Busy
    <3>4. Keeps(n)  BY <2>2, <2>5, <3>5 DEF Keeps, Kept, NetInv, NetTypeInv
    <3>6. Clean(n)' => Clean(n) /\ IF nreq'[r].at = "idle" THEN Served(n)' ELSE NetStarted(r, n)' /\ NetStopped(r, n)'
      BY <3>5 DEF Clean
    <3>7. NetworkInv(n)'  BY <2>2, <3>1, <3>6, NetAtWork
    <3>8. NetHostsInv(n)'  BY <3>5 DEF NetHostsInv, Due
    <3> QED  BY <2>2, <3>1, <3>2, <3>3, <3>4, <3>7, <3>8, NetByOne
  <2> QED  BY <2>3, <2>4, <2>5
<1>10. ASSUME NEW r \in NetReqs, StopDnsmasq(r) PROVE NetInv'
  <2>1. nreq[r].at = "kill"  BY <1>10 DEF StopDnsmasq, NetIs
  <2> PICK n \in Nets : n = nreq[r].net  BY <2>1, NetGoes DEF Starting, Stopping
  <2>2. n = nreq[r].net /\ Busy(r, n) /\ nreq[r].set \in Nat /\ nreq[r].saw \in [Nets -> SUBSET Guests] /\ nreq[r].left \subseteq Nets /\ (Clean(n) => NetStarted(r, n) /\ NetStopped(r, n))
    BY <2>1, NetGoes DEF NetInv, NetworkInv, Clean, Starting, Stopping
  <2>3. \/ /\ dnsmasq' = [dnsmasq EXCEPT ![n] = 0]
           /\ tunnels' = [tunnels EXCEPT ![n] = {}]
           /\ NetGoto(r, "write")
           /\ UNCHANGED <<netRow, bridge, addr, rules, hosts, listed, guests, boot, netMarks>>
        \/ /\ NetMark(n, {"halfstopped"})
           /\ nreq' = [nreq EXCEPT ![r] = NoReq]
           /\ UNCHANGED <<netRow, bridge, addr, rules, tunnels, dnsmasq, hosts, listed, guests, boot>>
    BY <1>10, <2>1 DEF StopDnsmasq, netState, AfterStop
  <2>4. ASSUME dnsmasq' = [dnsmasq EXCEPT ![n] = 0],
               tunnels' = [tunnels EXCEPT ![n] = {}],
               NetGoto(r, "write"),
               UNCHANGED <<netRow, bridge, addr, rules, hosts, listed, guests, boot, netMarks>>
        PROVE  NetInv'
    <3>1. /\ Turns(r, n) /\ nreq'[r].at = "write" /\ Same(r) /\ nreq'[r].left = nreq[r].left
        /\ nreq' \in [NetReqs -> NetAsks]
        /\ \A q \in NetReqs : IF nreq'[q].at = "idle" THEN nreq'[q] = NoReq ELSE nreq'[q].net \in Nets /\ LeftOwn(nreq'[q])
      BY <2>1, <2>2, <2>4, NetGoes DEF Stages, Starting, Stopping
    <3>5. dnsmasq'[n] = 0 /\ tunnels'[n] = {}  BY <2>4 DEF NetInv, NetTypeInv
    <3>2. NetTypeInv'  BY <2>2, <2>4, <3>1, <3>5 DEF NetInv, NetTypeInv
    <3>3. NetBootInv'  BY <2>1, <2>2, <2>4, <3>1, <3>5 DEF NetInv, NetBootInv, Turns, Same, Busy
    <3>4. Keeps(n)  BY <2>2, <2>4, <3>5 DEF Keeps, Kept, NetInv, NetTypeInv
    <3>6. Clean(n)' => Clean(n) /\ IF nreq'[r].at = "idle" THEN Served(n)' ELSE NetStarted(r, n)' /\ NetStopped(r, n)'
      <4>1. Clean(n) => Bare(n)'  BY <2>1, <2>2, <2>4, <3>5 DEF NetStopped, Bare
      <4> QED  BY <2>1, <2>2, <2>4, <3>1, <4>1 DEF Clean, NetStarted, NetStopped, Starting, Stopping, Same
    <3>7. NetworkInv(n)'  BY <2>2, <3>1, <3>6, NetAtWork
    <3>8. NetHostsInv(n)'  BY <2>2, <2>4, <3>1, <3>5 DEF NetInv, NetHostsInv, Due, Busy, Same, Turns
    <3> QED  BY <2>2, <3>1, <3>2, <3>3, <3>4, <3>7, <3>8, NetByOne
  <2>5. ASSUME NetMark(n, {"halfstopped"}),
               nreq' = [nreq EXCEPT ![r] = NoReq],
               UNCHANGED <<netRow, bridge, addr, rules, tunnels, dnsmasq, hosts, listed, guests, boot>>
        PROVE  NetInv'
    <3>1. /\ Turns(r, n) /\ nreq'[r].at = "idle" /\ nreq' \in [NetReqs -> NetAsks]
          /\ \A q \in NetReqs : IF nreq'[q].at = "idle" THEN nreq'[q] = NoReq ELSE nreq'[q].net \in Nets /\ LeftOwn(nreq'[q])
      BY <2>1, <2>2, <2>5, NetGoes DEF Starting, Stopping
    <3>5. /\ netMarks' \in [Nets -> SUBSET NetFlags] /\ netMarks'[n] = netMarks[n] \cup {"halfstopped"}
          /\ \A m \in Nets : netMarks[m] \subseteq netMarks'[m]
      <4>1. {"halfstopped"} \in SUBSET NetFlags  BY DEF NetFlags
      <4> QED  BY <2>5, <4>1, NetMarked
    <3>2. NetTypeInv'  BY <2>2, <2>5, <3>1, <3>5 DEF NetInv, NetTypeInv
    <3>3. NetBootInv'  BY <2>1, <2>2, <2>5, <3>1, <3>5 DEF NetInv, NetBootInv, Turns, Same, Busy
    <3>4. Keeps(n)  BY <2>2, <2>5, <3>5 DEF Keeps, Kept, NetInv, NetTypeInv
    <3>6. Clean(n)' => Clean(n) /\ IF nreq'[r].at = "idle" THEN Served(n)' ELSE NetStarted(r, n)' /\ NetStopped(r, n)'
      BY <3>5 DEF Clean
    <3>7. NetworkInv(n)'  BY <2>2, <3>1, <3>6, NetAtWork
    <3>8. NetHostsInv(n)'  BY <3>5 DEF NetHostsInv, Due
    <3> QED  BY <2>2, <3>1, <3>2, <3>3, <3>4, <3>7, <3>8, NetByOne
  <2> QED  BY <2>3, <2>4, <2>5
<1>11. ASSUME NEW r \in NetReqs, UpdateWrites(r) PROVE NetInv'
  <2>1. nreq[r].at = "write" /\ nreq[r].op = "update"  BY <1>11 DEF UpdateWrites, NetIs
  <2> PICK n \in Nets : n = nreq[r].net  BY <2>1, NetGoes DEF Starting, Stopping
  <2>2. n = nreq[r].net /\ Busy(r, n) /\ nreq[r].set \in Nat /\ nreq[r].saw \in [Nets -> SUBSET Guests] /\ nreq[r].left \subseteq Nets /\ (Clean(n) => NetStarted(r, n) /\ NetStopped(r, n))
    BY <2>1, NetGoes DEF NetInv, NetworkInv, Clean, Starting, Stopping
  <2>3. \/ /\ netRow' = [netRow EXCEPT ![n] = IF @ = 0 THEN 0 ELSE nreq[r].set]
           /\ NetGoto(r, "bridge")
           /\ UNCHANGED <<bridge, addr, rules, tunnels, dnsmasq, hosts, listed, guests, boot, netMarks>>
        \/ /\ NetMark(n, IF n \in bridge THEN {} ELSE {"halfapplied"})
           /\ nreq' = [nreq EXCEPT ![r] = NoReq]
           /\ UNCHANGED <<netRow, bridge, addr, rules, tunnels, dnsmasq, hosts, listed, guests, boot>>
    BY <1>11, <2>1 DEF UpdateWrites, netState
  <2>4. ASSUME netRow' = [netRow EXCEPT ![n] = IF @ = 0 THEN 0 ELSE nreq[r].set],
               NetGoto(r, "bridge"),
               UNCHANGED <<bridge, addr, rules, tunnels, dnsmasq, hosts, listed, guests, boot, netMarks>>
        PROVE  NetInv'
    <3>1. /\ Turns(r, n) /\ nreq'[r].at = "bridge" /\ Same(r) /\ nreq'[r].left = nreq[r].left
        /\ nreq' \in [NetReqs -> NetAsks]
        /\ \A q \in NetReqs : IF nreq'[q].at = "idle" THEN nreq'[q] = NoReq ELSE nreq'[q].net \in Nets /\ LeftOwn(nreq'[q])
      BY <2>1, <2>2, <2>4, NetGoes DEF Stages, Starting, Stopping
    <3>5. netRow'[n] = IF netRow[n] = 0 THEN 0 ELSE nreq[r].set  BY <2>4 DEF NetInv, NetTypeInv
    <3>2. NetTypeInv'  BY <2>2, <2>4, <3>1, <3>5 DEF NetInv, NetTypeInv
    <3>3. NetBootInv'  BY <2>1, <2>2, <2>4, <3>1, <3>5 DEF NetInv, NetBootInv, Turns, Same, Busy
    <3>4. Keeps(n)  BY <2>2, <2>4, <3>5 DEF Keeps, Kept, NetInv, NetTypeInv
    <3>6. Clean(n)' => Clean(n) /\ IF nreq'[r].at = "idle" THEN Served(n)' ELSE NetStarted(r, n)' /\ NetStopped(r, n)'
      BY <2>1, <2>2, <2>4, <3>1, <3>5 DEF Clean, NetStarted, NetStopped, Starting, Stopping, Same
    <3>7. NetworkInv(n)'  BY <2>2, <3>1, <3>6, NetAtWork
    <3>8. NetHostsInv(n)'  BY <2>2, <2>4, <3>1, <3>5 DEF NetInv, NetHostsInv, Due, Busy, Same, Turns
    <3> QED  BY <2>2, <3>1, <3>2, <3>3, <3>4, <3>7, <3>8, NetByOne
  <2>5. ASSUME NetMark(n, IF n \in bridge THEN {} ELSE {"halfapplied"}),
               nreq' = [nreq EXCEPT ![r] = NoReq],
               UNCHANGED <<netRow, bridge, addr, rules, tunnels, dnsmasq, hosts, listed, guests, boot>>
        PROVE  NetInv'
    <3>1. /\ Turns(r, n) /\ nreq'[r].at = "idle" /\ nreq' \in [NetReqs -> NetAsks]
          /\ \A q \in NetReqs : IF nreq'[q].at = "idle" THEN nreq'[q] = NoReq ELSE nreq'[q].net \in Nets /\ LeftOwn(nreq'[q])
      BY <2>1, <2>2, <2>5, NetGoes DEF Starting, Stopping
    <3>5. /\ netMarks' \in [Nets -> SUBSET NetFlags] /\ netMarks'[n] = netMarks[n] \cup (IF n \in bridge THEN {} ELSE {"halfapplied"})
          /\ \A m \in Nets : netMarks[m] \subseteq netMarks'[m]
      <4>1. (IF n \in bridge THEN {} ELSE {"halfapplied"}) \in SUBSET NetFlags  BY DEF NetFlags
      <4> QED  BY <2>5, <4>1, NetMarked
    <3>2. NetTypeInv'  BY <2>2, <2>5, <3>1, <3>5 DEF NetInv, NetTypeInv
    <3>3. NetBootInv'  BY <2>1, <2>2, <2>5, <3>1, <3>5 DEF NetInv, NetBootInv, Turns, Same, Busy
    <3>4. Keeps(n)  BY <2>2, <2>5, <3>5 DEF Keeps, Kept, NetInv, NetTypeInv
    <3>6. Clean(n)' => Clean(n) /\ IF nreq'[r].at = "idle" THEN Served(n)' ELSE NetStarted(r, n)' /\ NetStopped(r, n)'
      BY <2>1, <2>2, <2>5, <3>1, <3>5 DEF Clean, NetStopped, Served, Level, Bare
    <3>7. NetworkInv(n)'  BY <2>2, <3>1, <3>6, NetAtWork
    <3>8. NetHostsInv(n)'
      <4> SUFFICES ASSUME netMarks'[n] = {}, netRow'[n] # 0 PROVE hosts'[n] = guests'[n]
        BY DEF NetHostsInv, Due
      <4>1. netMarks[n] = {}  BY <3>5
      <4>2. \A q \in NetReqs \ {r} : ~Busy(q, n)
        BY <2>2, <4>1 DEF NetInv, NetworkInv
      <4> QED  BY <2>1, <2>5, <4>1, <4>2 DEF NetInv, NetHostsInv, Due
    <3> QED  BY <2>2, <3>1, <3>2, <3>3, <3>4, <3>7, <3>8, NetByOne
  <2> QED  BY <2>3, <2>4, <2>5
<1>12. ASSUME NEW r \in NetReqs, DeleteWrites(r) PROVE NetInv'
  <2>1. nreq[r].at = "write" /\ nreq[r].op \in {"delete", "create"}  BY <1>12 DEF DeleteWrites, NetIs
  <2> PICK n \in Nets : n = nreq[r].net  BY <2>1, NetGoes DEF Starting, Stopping
  <2>2. n = nreq[r].net /\ Busy(r, n) /\ nreq[r].set \in Nat /\ nreq[r].saw \in [Nets -> SUBSET Guests] /\ nreq[r].left \subseteq Nets /\ (Clean(n) => NetStarted(r, n) /\ NetStopped(r, n))
    BY <2>1, NetGoes DEF NetInv, NetworkInv, Clean, Starting, Stopping
  <2>4. NetInv'
    <3>0. /\ netRow' = [netRow EXCEPT ![n] = 0]
          /\ hosts' = [hosts EXCEPT ![n] = {}] /\ listed' = listed \ {n}
          /\ nreq' = [nreq EXCEPT ![r] = NoReq]
          /\ UNCHANGED <<bridge, addr, rules, tunnels, dnsmasq, guests, boot, netMarks>>
      BY <1>12, <2>1 DEF DeleteWrites, netState, WriteHosts
    <3>1. /\ Turns(r, n) /\ nreq'[r].at = "idle" /\ nreq' \in [NetReqs -> NetAsks]
          /\ \A q \in NetReqs : IF nreq'[q].at = "idle" THEN nreq'[q] = NoReq ELSE nreq'[q].net \in Nets /\ LeftOwn(nreq'[q])
      BY <2>1, <2>2, <3>0, NetGoes DEF Starting, Stopping
    <3>5. netRow'[n] = 0  BY <3>0 DEF NetInv, NetTypeInv
    <3>2. NetTypeInv'  BY <2>2, <3>0, <3>1, <3>5 DEF NetInv, NetTypeInv
    <3>3. NetBootInv'  BY <2>1, <2>2, <3>0, <3>1, <3>5 DEF NetInv, NetBootInv, Turns, Same, Busy
    <3>4. Keeps(n)  BY <2>2, <3>0, <3>5 DEF Keeps, Kept, NetInv, NetTypeInv
    <3>6. Clean(n)' => Clean(n) /\ IF nreq'[r].at = "idle" THEN Served(n)' ELSE NetStarted(r, n)' /\ NetStopped(r, n)'
      BY <2>1, <2>2, <3>0, <3>1, <3>5 DEF Clean, NetStopped, Bare, Served, Level
    <3>7. NetworkInv(n)'  BY <2>2, <3>1, <3>6, NetAtWork
    <3>8. NetHostsInv(n)'  BY <3>5 DEF NetHostsInv, Due
    <3> QED  BY <2>2, <3>1, <3>2, <3>3, <3>4, <3>7, <3>8, NetByOne
  <2> QED  BY <2>4
<1>13. ASSUME NEW r \in NetReqs, NEW n \in Nets, NEW set \in Settings, networksPost(r, n, set) PROVE NetInv'
  <2>4. NetInv'
    <3>0. /\ boot = {}
          /\ netRow[n] = 0
          /\ Request(r, "create", n, set, "bridge")
          /\ netRow' = [netRow EXCEPT ![n] = set]
          /\ UNCHANGED <<bridge, addr, rules, tunnels, dnsmasq, hosts, listed, guests, boot>>
      BY <1>13 DEF networksPost, netState, Booting
    <3>1. set \in Nat /\ "create" \in Operations /\ "bridge" \in Stages \ {"idle"}
      BY <1>13, NetworksAssumption DEF NetInv, NetTypeInv, Operations, Stages, Stopping
    <3>2. /\ Turns(r, n) /\ nreq' \in [NetReqs -> NetAsks] /\ netMarks' \in [Nets -> SUBSET NetFlags]
          /\ nreq'[r].op = "create" /\ nreq'[r].net = n /\ nreq'[r].set = set /\ nreq'[r].at = "bridge"
          /\ \A q \in NetReqs : IF nreq'[q].at = "idle" THEN nreq'[q] = NoReq ELSE nreq'[q].net \in Nets /\ LeftOwn(nreq'[q])
          /\ \A m \in Nets \ {n} : netMarks'[m] = netMarks[m]
          /\ netMarks[n] \subseteq netMarks'[n]
          /\ Clean(n)' => Clean(n) /\ (\A q \in NetReqs : ~Busy(q, n)) /\ (Served(n) \/ (n \in boot /\ Bare(n)))
      BY <3>0, <3>1, NetBegins
    <3>3. Busy(r, n)'  BY <3>1, <3>2 DEF Busy
    <3>4. netRow'[n] = set /\ set # 0 /\ set \in Nat  BY <3>0, NetworksAssumption DEF NetInv, NetTypeInv
    <3>5. NetTypeInv'  BY <3>0, <1>13, <3>2, NetworksAssumption DEF NetInv, NetTypeInv
    <3>6. NetBootInv'  BY <3>0, <3>2 DEF NetInv, NetBootInv, Turns, Busy
    <3>7. Keeps(n)  BY <3>0, <3>2 DEF Keeps, Kept, NetInv, NetTypeInv
    <3>8. ASSUME Clean(n)' PROVE (\A q \in NetReqs : ~Busy(q, n)) /\ NetStarted(r, n)' /\ NetStopped(r, n)'
      <4>1. Bare(n)'  BY <3>0, <3>2, <3>8 DEF Served, Level, Bare
      <4> QED  BY <3>0, <3>2, <3>4, <3>8, <4>1 DEF NetStarted, NetStopped, Starting, Stopping
    <3>9. NetworkInv(n)'  BY <3>2, <3>3, <3>8, NetHasBegun
    <3>10. NetHostsInv(n)'  BY <3>2, <3>3 DEF NetHostsInv, Due
    <3> QED  BY <3>2, <3>5, <3>6, <3>7, <3>9, <3>10, NetByOne
  <2> QED  BY <2>4
<1>14. ASSUME NEW r \in NetReqs, NEW n \in Nets, NEW set \in Settings, networkPut(r, n, set) PROVE NetInv'
  <2>3. \/ /\ boot = {}
           /\ netRow[n] # 0
           /\ Request(r, "update", n, set, "write")
           /\ UNCHANGED <<netRow, bridge, addr, rules, tunnels, dnsmasq, hosts, listed, guests, boot>>
        \/ /\ boot = {}
           /\ netRow[n] # 0
           /\ n \in bridge
           /\ Request(r, "update", n, set, "link")
           /\ UNCHANGED <<netRow, bridge, addr, rules, tunnels, dnsmasq, hosts, listed, guests, boot>>
    BY <1>14 DEF networkPut, netState, Booting
  <2>4. ASSUME boot = {},
               netRow[n] # 0,
               Request(r, "update", n, set, "write"),
               UNCHANGED <<netRow, bridge, addr, rules, tunnels, dnsmasq, hosts, listed, guests, boot>>
        PROVE  NetInv'
    <3>1. set \in Nat /\ "update" \in Operations /\ "write" \in Stages \ {"idle"}
      BY <1>14, NetworksAssumption DEF NetInv, NetTypeInv, Operations, Stages, Stopping
    <3>2. /\ Turns(r, n) /\ nreq' \in [NetReqs -> NetAsks] /\ netMarks' \in [Nets -> SUBSET NetFlags]
          /\ nreq'[r].op = "update" /\ nreq'[r].net = n /\ nreq'[r].set = set /\ nreq'[r].at = "write"
          /\ \A q \in NetReqs : IF nreq'[q].at = "idle" THEN nreq'[q] = NoReq ELSE nreq'[q].net \in Nets /\ LeftOwn(nreq'[q])
          /\ \A m \in Nets \ {n} : netMarks'[m] = netMarks[m]
          /\ netMarks[n] \subseteq netMarks'[n]
          /\ Clean(n)' => Clean(n) /\ (\A q \in NetReqs : ~Busy(q, n)) /\ (Served(n) \/ (n \in boot /\ Bare(n)))
      BY <2>4, <3>1, NetBegins
    <3>3. Busy(r, n)'  BY <3>1, <3>2 DEF Busy
    <3>5. NetTypeInv'  BY <2>4, <1>14, <3>2, NetworksAssumption DEF NetInv, NetTypeInv
    <3>6. NetBootInv'  BY <2>4, <3>2 DEF NetInv, NetBootInv, Turns, Busy
    <3>7. Keeps(n)  BY <2>4, <3>2 DEF Keeps, Kept, NetInv, NetTypeInv
    <3>8. ASSUME Clean(n)' PROVE (\A q \in NetReqs : ~Busy(q, n)) /\ NetStarted(r, n)' /\ NetStopped(r, n)'
      <4>1. Served(n)' /\ n \in bridge'  BY <2>4, <3>2, <3>8 DEF Served, Level
      <4> QED  BY <2>4, <3>2, <3>8, <4>1, NetworksAssumption DEF NetStarted, NetStopped, Starting, Stopping
    <3>9. NetworkInv(n)'  BY <3>2, <3>3, <3>8, NetHasBegun
    <3>10. NetHostsInv(n)'
      <4>1. ASSUME netMarks'[n] = {}, netRow'[n] # 0 PROVE hosts'[n] = guests'[n]
        <5>1. netMarks[n] = {} /\ \A q \in NetReqs : ~Busy(q, n)  BY <3>2, <4>1 DEF Clean
        <5> QED  BY <2>4, <4>1, <5>1 DEF NetInv, NetHostsInv, Due
      <4> QED  BY <4>1 DEF NetHostsInv, Due
    <3> QED  BY <3>2, <3>5, <3>6, <3>7, <3>9, <3>10, NetByOne
  <2>5. ASSUME boot = {},
               netRow[n] # 0,
               n \in bridge,
               Request(r, "update", n, set, "link"),
               UNCHANGED <<netRow, bridge, addr, rules, tunnels, dnsmasq, hosts, listed, guests, boot>>
        PROVE  NetInv'
    <3>1. set \in Nat /\ "update" \in Operations /\ "link" \in Stages \ {"idle"}
      BY <1>14, NetworksAssumption DEF NetInv, NetTypeInv, Operations, Stages, Stopping
    <3>2. /\ Turns(r, n) /\ nreq' \in [NetReqs -> NetAsks] /\ netMarks' \in [Nets -> SUBSET NetFlags]
          /\ nreq'[r].op = "update" /\ nreq'[r].net = n /\ nreq'[r].set = set /\ nreq'[r].at = "link"
          /\ \A q \in NetReqs : IF nreq'[q].at = "idle" THEN nreq'[q] = NoReq ELSE nreq'[q].net \in Nets /\ LeftOwn(nreq'[q])
          /\ \A m \in Nets \ {n} : netMarks'[m] = netMarks[m]
          /\ netMarks[n] \subseteq netMarks'[n]
          /\ Clean(n)' => Clean(n) /\ (\A q \in NetReqs : ~Busy(q, n)) /\ (Served(n) \/ (n \in boot /\ Bare(n)))
      BY <2>5, <3>1, NetBegins
    <3>3. Busy(r, n)'  BY <3>1, <3>2 DEF Busy
    <3>5. NetTypeInv'  BY <2>5, <1>14, <3>2, NetworksAssumption DEF NetInv, NetTypeInv
    <3>6. NetBootInv'  BY <2>5, <3>2 DEF NetInv, NetBootInv, Turns, Busy
    <3>7. Keeps(n)  BY <2>5, <3>2 DEF Keeps, Kept, NetInv, NetTypeInv
    <3>8. ASSUME Clean(n)' PROVE (\A q \in NetReqs : ~Busy(q, n)) /\ NetStarted(r, n)' /\ NetStopped(r, n)'
      <4>1. Served(n)' /\ n \in bridge'  BY <2>5, <3>2, <3>8 DEF Served, Level
      <4> QED  BY <2>5, <3>2, <3>8, <4>1, NetworksAssumption DEF NetStarted, NetStopped, Starting, Stopping
    <3>9. NetworkInv(n)'  BY <3>2, <3>3, <3>8, NetHasBegun
    <3>10. NetHostsInv(n)'
      <4>1. ASSUME netMarks'[n] = {}, netRow'[n] # 0 PROVE hosts'[n] = guests'[n]
        <5>1. netMarks[n] = {} /\ \A q \in NetReqs : ~Busy(q, n)  BY <3>2, <4>1 DEF Clean
        <5> QED  BY <2>5, <4>1, <5>1 DEF NetInv, NetHostsInv, Due
      <4> QED  BY <4>1 DEF NetHostsInv, Due
    <3> QED  BY <3>2, <3>5, <3>6, <3>7, <3>9, <3>10, NetByOne
  <2> QED  BY <2>3, <2>4, <2>5
<1>15. ASSUME NEW r \in NetReqs, NEW n \in Nets, networkDelete(r, n) PROVE NetInv'
  <2>4. NetInv'
    <3>0. /\ boot = {}
          /\ netRow[n] # 0
          /\ Request(r, "delete", n, netRow[n], IF n \in bridge THEN "link" ELSE "write")
          /\ UNCHANGED <<netRow, bridge, addr, rules, tunnels, dnsmasq, hosts, listed, guests, boot>>
      BY <1>15 DEF networkDelete, netState, Booting
    <3>1. netRow[n] \in Nat /\ "delete" \in Operations /\ (IF n \in bridge THEN "link" ELSE "write") \in Stages \ {"idle"}
      BY <1>15, NetworksAssumption DEF NetInv, NetTypeInv, Operations, Stages, Stopping
    <3>2. /\ Turns(r, n) /\ nreq' \in [NetReqs -> NetAsks] /\ netMarks' \in [Nets -> SUBSET NetFlags]
          /\ nreq'[r].op = "delete" /\ nreq'[r].net = n /\ nreq'[r].set = netRow[n] /\ nreq'[r].at = (IF n \in bridge THEN "link" ELSE "write")
          /\ \A q \in NetReqs : IF nreq'[q].at = "idle" THEN nreq'[q] = NoReq ELSE nreq'[q].net \in Nets /\ LeftOwn(nreq'[q])
          /\ \A m \in Nets \ {n} : netMarks'[m] = netMarks[m]
          /\ netMarks[n] \subseteq netMarks'[n]
          /\ Clean(n)' => Clean(n) /\ (\A q \in NetReqs : ~Busy(q, n)) /\ (Served(n) \/ (n \in boot /\ Bare(n)))
      BY <3>0, <3>1, NetBegins
    <3>3. Busy(r, n)'  BY <3>1, <3>2 DEF Busy
    <3>5. NetTypeInv'  BY <3>0, <1>15, <3>2, NetworksAssumption DEF NetInv, NetTypeInv
    <3>6. NetBootInv'  BY <3>0, <3>2 DEF NetInv, NetBootInv, Turns, Busy
    <3>7. Keeps(n)  BY <3>0, <3>2 DEF Keeps, Kept, NetInv, NetTypeInv
    <3>8. ASSUME Clean(n)' PROVE (\A q \in NetReqs : ~Busy(q, n)) /\ NetStarted(r, n)' /\ NetStopped(r, n)'
      <4>1. Served(n)' /\ n \in bridge'  BY <3>0, <3>2, <3>8 DEF Served, Level
      <4> QED  BY <3>0, <3>2, <3>8, <4>1 DEF NetStarted, NetStopped, Starting, Stopping
    <3>9. NetworkInv(n)'  BY <3>2, <3>3, <3>8, NetHasBegun
    <3>10. NetHostsInv(n)'
      <4>1. ASSUME netMarks'[n] = {}, netRow'[n] # 0 PROVE hosts'[n] = guests'[n]
        <5>1. netMarks[n] = {} /\ \A q \in NetReqs : ~Busy(q, n)  BY <3>2, <4>1 DEF Clean
        <5> QED  BY <3>0, <4>1, <5>1 DEF NetInv, NetHostsInv, Due
      <4> QED  BY <4>1 DEF NetHostsInv, Due
    <3> QED  BY <3>2, <3>5, <3>6, <3>7, <3>9, <3>10, NetByOne
  <2> QED  BY <2>4
<1>16. ASSUME NEW r \in NetReqs, NEW n \in Nets, Rename(r, n) PROVE NetInv'
  <2>4. NetInv'
    <3>0. /\ boot = {}
          /\ netRow[n] # 0
          /\ Request(r, "rename", n, netRow[n], IF n \in bridge THEN "link" ELSE "write")
          /\ UNCHANGED <<netRow, bridge, addr, rules, tunnels, dnsmasq, hosts, listed, guests, boot>>
      BY <1>16 DEF Rename, netState, Booting
    <3>1. netRow[n] \in Nat /\ "rename" \in Operations /\ (IF n \in bridge THEN "link" ELSE "write") \in Stages \ {"idle"}
      BY <1>16, NetworksAssumption DEF NetInv, NetTypeInv, Operations, Stages, Stopping
    <3>2. /\ Turns(r, n) /\ nreq' \in [NetReqs -> NetAsks] /\ netMarks' \in [Nets -> SUBSET NetFlags]
          /\ nreq'[r].op = "rename" /\ nreq'[r].net = n /\ nreq'[r].set = netRow[n] /\ nreq'[r].at = (IF n \in bridge THEN "link" ELSE "write")
          /\ \A q \in NetReqs : IF nreq'[q].at = "idle" THEN nreq'[q] = NoReq ELSE nreq'[q].net \in Nets /\ LeftOwn(nreq'[q])
          /\ \A m \in Nets \ {n} : netMarks'[m] = netMarks[m]
          /\ netMarks[n] \subseteq netMarks'[n]
          /\ Clean(n)' => Clean(n) /\ (\A q \in NetReqs : ~Busy(q, n)) /\ (Served(n) \/ (n \in boot /\ Bare(n)))
      BY <3>0, <3>1, NetBegins
    <3>3. Busy(r, n)'  BY <3>1, <3>2 DEF Busy
    <3>5. NetTypeInv'  BY <3>0, <1>16, <3>2, NetworksAssumption DEF NetInv, NetTypeInv
    <3>6. NetBootInv'  BY <3>0, <3>2 DEF NetInv, NetBootInv, Turns, Busy
    <3>7. Keeps(n)  BY <3>0, <3>2 DEF Keeps, Kept, NetInv, NetTypeInv
    <3>8. ASSUME Clean(n)' PROVE (\A q \in NetReqs : ~Busy(q, n)) /\ NetStarted(r, n)' /\ NetStopped(r, n)'
      <4>1. Served(n)' /\ n \in bridge'  BY <3>0, <3>2, <3>8 DEF Served, Level
      <4> QED  BY <3>0, <3>2, <3>8, <4>1 DEF NetStarted, NetStopped, Starting, Stopping
    <3>9. NetworkInv(n)'  BY <3>2, <3>3, <3>8, NetHasBegun
    <3>10. NetHostsInv(n)'
      <4>1. ASSUME netMarks'[n] = {}, netRow'[n] # 0 PROVE hosts'[n] = guests'[n]
        <5>1. netMarks[n] = {} /\ \A q \in NetReqs : ~Busy(q, n)  BY <3>2, <4>1 DEF Clean
        <5> QED  BY <3>0, <4>1, <5>1 DEF NetInv, NetHostsInv, Due
      <4> QED  BY <4>1 DEF NetHostsInv, Due
    <3> QED  BY <3>2, <3>5, <3>6, <3>7, <3>9, <3>10, NetByOne
  <2> QED  BY <2>4
<1>17. ASSUME NEW r \in NetReqs, NEW n \in Nets, NEW g \in Guests, AddGuest(r, n, g) PROVE NetInv'
  <2>4. NetInv'
    <3>0. /\ boot = {}
          /\ Request(r, "static", n, 0, "static")
          /\ guests' = [guests EXCEPT ![n] = @ \cup {g}]
          /\ UNCHANGED <<netRow, bridge, addr, rules, tunnels, dnsmasq, hosts, listed, boot>>
      BY <1>17 DEF AddGuest, netState, Booting
    <3>1. 0 \in Nat /\ "static" \in Operations /\ "static" \in Stages \ {"idle"}
      BY <1>17, NetworksAssumption DEF NetInv, NetTypeInv, Operations, Stages, Stopping
    <3>2. /\ Turns(r, n) /\ nreq' \in [NetReqs -> NetAsks] /\ netMarks' \in [Nets -> SUBSET NetFlags]
          /\ nreq'[r].op = "static" /\ nreq'[r].net = n /\ nreq'[r].set = 0 /\ nreq'[r].at = "static"
          /\ \A q \in NetReqs : IF nreq'[q].at = "idle" THEN nreq'[q] = NoReq ELSE nreq'[q].net \in Nets /\ LeftOwn(nreq'[q])
          /\ \A m \in Nets \ {n} : netMarks'[m] = netMarks[m]
          /\ netMarks[n] \subseteq netMarks'[n]
          /\ Clean(n)' => Clean(n) /\ (\A q \in NetReqs : ~Busy(q, n)) /\ (Served(n) \/ (n \in boot /\ Bare(n)))
      BY <3>0, <3>1, NetBegins
    <3>3. Busy(r, n)'  BY <3>1, <3>2 DEF Busy
    <3>5. NetTypeInv'  BY <3>0, <1>17, <3>2, NetworksAssumption DEF NetInv, NetTypeInv
    <3>6. NetBootInv'  BY <3>0, <3>2 DEF NetInv, NetBootInv, Turns, Busy
    <3>7. Keeps(n)  BY <3>0, <3>2 DEF Keeps, Kept, NetInv, NetTypeInv
    <3>8. ASSUME Clean(n)' PROVE (\A q \in NetReqs : ~Busy(q, n)) /\ NetStarted(r, n)' /\ NetStopped(r, n)'
      <4>1. Served(n)'  BY <3>0, <3>2, <3>8 DEF Served, Level
      <4> QED  BY <3>0, <3>2, <3>8, <4>1 DEF NetStarted, NetStopped, Starting, Stopping
    <3>9. NetworkInv(n)'  BY <3>2, <3>3, <3>8, NetHasBegun
    <3>10. NetHostsInv(n)'  BY <3>2, <3>3 DEF NetHostsInv, Due
    <3> QED  BY <3>2, <3>5, <3>6, <3>7, <3>9, <3>10, NetByOne
  <2> QED  BY <2>4
<1>18. ASSUME NEW r \in NetReqs, NEW n \in Nets, NEW g \in Guests, RemoveGuest(r, n, g) PROVE NetInv'
  <2> PICK op \in {"static", "clear"} : Request(r, op, n, 0, "static")  BY <1>18 DEF RemoveGuest
  <2>4. NetInv'
    <3>0. /\ boot = {}
          /\ Request(r, op, n, 0, "static")
          /\ guests' = [guests EXCEPT ![n] = @ \ {g}]
          /\ UNCHANGED <<netRow, bridge, addr, rules, tunnels, dnsmasq, hosts, listed, boot>>
      BY <1>18 DEF RemoveGuest, netState, Booting
    <3>1. 0 \in Nat /\ op \in Operations /\ "static" \in Stages \ {"idle"}
      BY <1>18, NetworksAssumption DEF NetInv, NetTypeInv, Operations, Stages, Stopping
    <3>2. /\ Turns(r, n) /\ nreq' \in [NetReqs -> NetAsks] /\ netMarks' \in [Nets -> SUBSET NetFlags]
          /\ nreq'[r].op = op /\ nreq'[r].net = n /\ nreq'[r].set = 0 /\ nreq'[r].at = "static"
          /\ \A q \in NetReqs : IF nreq'[q].at = "idle" THEN nreq'[q] = NoReq ELSE nreq'[q].net \in Nets /\ LeftOwn(nreq'[q])
          /\ \A m \in Nets \ {n} : netMarks'[m] = netMarks[m]
          /\ netMarks[n] \subseteq netMarks'[n]
          /\ Clean(n)' => Clean(n) /\ (\A q \in NetReqs : ~Busy(q, n)) /\ (Served(n) \/ (n \in boot /\ Bare(n)))
      BY <3>0, <3>1, NetBegins
    <3>3. Busy(r, n)'  BY <3>1, <3>2 DEF Busy
    <3>5. NetTypeInv'  BY <3>0, <1>18, <3>2, NetworksAssumption DEF NetInv, NetTypeInv
    <3>6. NetBootInv'  BY <3>0, <3>2 DEF NetInv, NetBootInv, Turns, Busy
    <3>7. Keeps(n)  BY <3>0, <3>2 DEF Keeps, Kept, NetInv, NetTypeInv
    <3>8. ASSUME Clean(n)' PROVE (\A q \in NetReqs : ~Busy(q, n)) /\ NetStarted(r, n)' /\ NetStopped(r, n)'
      <4>1. Served(n)'  BY <3>0, <3>2, <3>8 DEF Served, Level
      <4> QED  BY <3>0, <3>2, <3>8, <4>1 DEF NetStarted, NetStopped, Starting, Stopping
    <3>9. NetworkInv(n)'  BY <3>2, <3>3, <3>8, NetHasBegun
    <3>10. NetHostsInv(n)'  BY <3>2, <3>3 DEF NetHostsInv, Due
    <3> QED  BY <3>2, <3>5, <3>6, <3>7, <3>9, <3>10, NetByOne
  <2> QED  BY <2>4
<1>19. ASSUME NEW r \in NetReqs, NEW n \in Nets, networkStartup(r, n) PROVE NetInv'
  <2>4. NetInv'
    <3>0. /\ n \in boot
          /\ netRow[n] # 0
          /\ \A q \in NetReqs : nreq[q].at = "idle"
          /\ boot' = boot \ {n}
          /\ Request(r, "boot", n, netRow[n], "bridge")
          /\ UNCHANGED <<netRow, bridge, addr, rules, tunnels, dnsmasq, hosts, listed, guests>>
      BY <1>19, NoReqIdle DEF networkStartup, netState, NetInv, NetBootInv
    <3>1. netRow[n] \in Nat /\ "boot" \in Operations /\ "bridge" \in Stages \ {"idle"}
      BY <1>19, NetworksAssumption DEF NetInv, NetTypeInv, Operations, Stages, Stopping
    <3>2. /\ Turns(r, n) /\ nreq' \in [NetReqs -> NetAsks] /\ netMarks' \in [Nets -> SUBSET NetFlags]
          /\ nreq'[r].op = "boot" /\ nreq'[r].net = n /\ nreq'[r].set = netRow[n] /\ nreq'[r].at = "bridge"
          /\ \A q \in NetReqs : IF nreq'[q].at = "idle" THEN nreq'[q] = NoReq ELSE nreq'[q].net \in Nets /\ LeftOwn(nreq'[q])
          /\ \A m \in Nets \ {n} : netMarks'[m] = netMarks[m]
          /\ netMarks[n] \subseteq netMarks'[n]
          /\ Clean(n)' => Clean(n) /\ (\A q \in NetReqs : ~Busy(q, n)) /\ (Served(n) \/ (n \in boot /\ Bare(n)))
      BY <3>0, <3>1, NetBegins
    <3>3. Busy(r, n)'  BY <3>1, <3>2 DEF Busy
    <3>5. NetTypeInv'  BY <3>0, <1>19, <3>2, NetworksAssumption DEF NetInv, NetTypeInv
    <3>6. NetBootInv'  BY <3>0, <3>2 DEF NetInv, NetBootInv, Turns, Busy
    <3>7. Keeps(n)  BY <3>0, <3>2 DEF Keeps, Kept, NetInv, NetTypeInv
    <3>8. ASSUME Clean(n)' PROVE (\A q \in NetReqs : ~Busy(q, n)) /\ NetStarted(r, n)' /\ NetStopped(r, n)'
      BY <3>0, <3>2, <3>8 DEF NetStarted, NetStopped, Starting, Stopping
    <3>9. NetworkInv(n)'  BY <3>2, <3>3, <3>8, NetHasBegun
    <3>10. NetHostsInv(n)'
      <4>1. ASSUME netMarks'[n] = {}, netRow'[n] # 0 PROVE hosts'[n] = guests'[n]
        <5>1. netMarks[n] = {} /\ \A q \in NetReqs : ~Busy(q, n)  BY <3>2, <4>1 DEF Clean
        <5> QED  BY <3>0, <4>1, <5>1 DEF NetInv, NetHostsInv, Due
      <4> QED  BY <4>1 DEF NetHostsInv, Due
    <3> QED  BY <3>2, <3>5, <3>6, <3>7, <3>9, <3>10, NetByOne
  <2> QED  BY <2>4
<1>20. ASSUME NEW r \in NetReqs, NEW to \in Nets, RenameWrites(r, to) PROVE NetInv'
  <2>1. nreq[r].at = "write" /\ nreq[r].op = "rename"  BY <1>20 DEF RenameWrites, NetIs
  <2> PICK n \in Nets : n = nreq[r].net  BY <2>1, NetGoes
  <2>2. /\ netRow' = [netRow EXCEPT ![to] = netRow[n], ![n] = 0]
        /\ hosts' = [hosts EXCEPT ![to] = hosts[n], ![n] = {}]
        /\ listed' = (listed \ {to, n}) \cup (IF n \in listed THEN {to} ELSE {})
        /\ netMarks' = [m \in Nets |-> IF m \in {to, n} THEN netMarks[m] \cup {"misnamed"} ELSE netMarks[m]]
        /\ NetGoto(r, "bridge")
        /\ UNCHANGED <<bridge, addr, rules, tunnels, dnsmasq, guests, boot>>
    BY <1>20 DEF RenameWrites
  <2>3. /\ Turns(r, n) /\ nreq'[r].at = "bridge" /\ Same(r) /\ nreq'[r].left = nreq[r].left
      /\ nreq' \in [NetReqs -> NetAsks]
      /\ \A q \in NetReqs : IF nreq'[q].at = "idle" THEN nreq'[q] = NoReq ELSE nreq'[q].net \in Nets /\ LeftOwn(nreq'[q])
    BY <2>1, <2>2, NetGoes DEF Stages
  <2>4. NetTypeInv'  BY <2>2, <2>3 DEF NetInv, NetTypeInv, NetFlags
  <2>5. NetBootInv'
    <3>1. boot = {}  BY <2>1 DEF NetInv, NetBootInv
    <3> QED  BY <2>2, <3>1 DEF NetBootInv
  <2>6. ASSUME NEW m \in Nets \ {n, to} PROVE NetworkInv(m)' /\ NetHostsInv(m)'
    <3>1. Kept(m)  BY <2>2 DEF Kept, NetInv, NetTypeInv
    <3> QED  BY <2>3, <3>1, NetElsewhere
  <2>7. ASSUME NEW m \in {n, to} PROVE NetworkInv(m)' /\ NetHostsInv(m)'
    <3>1. "misnamed" \in netMarks'[m]  BY <2>2
    <3> QED  BY <3>1 DEF NetworkInv, NetHostsInv, Due
  <2> QED  BY <2>4, <2>5, <2>6, <2>7 DEF NetInv
<1>21. CASE DaemonStarts
  <2>1. /\ \A r \in NetReqs : nreq[r].at = "idle"
        /\ boot = {} /\ boot' = {n \in Nets : netRow[n] # 0}
        /\ UNCHANGED <<netRow, hosts, listed, guests, nreq, netMarks>>
    BY <1>21, NoReqIdle DEF DaemonStarts, netState, Booting
  <2>2. \A r \in NetReqs, n \in Nets : ~Busy(r, n) /\ ~Busy(r, n)'  BY <2>1 DEF Busy
  <2>3. NetBootInv'  BY <2>1 DEF NetBootInv
  <2>4. \A n \in Nets : NetHostsInv(n)'  BY <2>1, <2>2 DEF NetInv, NetHostsInv, Due
  <2>5. \A n \in Nets : Clean(n)' => Served(n)  BY <2>1, <2>2 DEF NetInv, NetworkInv, Clean
  <2>6. CASE UNCHANGED <<bridge, addr, rules, tunnels, dnsmasq>>
    <3>1. NetTypeInv'  BY <2>1, <2>6 DEF NetInv, NetTypeInv
    <3>2. \A n \in Nets : Clean(n)' => Served(n)'  BY <2>1, <2>5, <2>6 DEF Served, Level
    <3>3. \A n \in Nets : NetworkInv(n)'  BY <2>2, <3>2 DEF NetworkInv, Clean
    <3> QED  BY <2>3, <2>4, <3>1, <3>3 DEF NetInv
  <2>7. CASE /\ bridge' = {} /\ addr' = [n \in Nets |-> Both({})] /\ rules' = [n \in Nets |-> Both({})]
             /\ tunnels' = [n \in Nets |-> {}] /\ dnsmasq' = [n \in Nets |-> 0]
    <3>0. Both({}) \in [Families -> SUBSET Nat]  BY DEF Both
    <3>1. NetTypeInv'  BY <2>1, <2>7, <3>0 DEF NetInv, NetTypeInv
    <3>2. \A n \in Nets : Bare(n)' /\ (netRow[n] = 0 => Served(n)')  BY <2>1, <2>7 DEF Bare, Served, Level
    <3>3. \A n \in Nets : NetworkInv(n)'  BY <2>1, <2>2, <3>2 DEF NetworkInv
    <3> QED  BY <2>3, <2>4, <3>1, <3>3 DEF NetInv
  <2> QED  BY <1>21, <2>6, <2>7 DEF DaemonStarts, netState, Both
<1>22. ASSUME NEW r \in NetReqs, NEW m \in Nets, StaticStops(r, m) PROVE NetInv'
  <2>1. nreq[r].at = "hosts"  BY <1>22 DEF StaticStops, NetIs
  <2> PICK n \in Nets : n = nreq[r].net  BY <2>1, NetGoes
  <2>2. /\ n = nreq[r].net /\ Busy(r, n) /\ nreq[r].saw \in [Nets -> SUBSET Guests] /\ nreq[r].left \subseteq Nets
        /\ (Clean(n) => NetStarted(r, n) /\ NetStopped(r, n))
    BY <2>1, NetGoes DEF NetInv, NetworkInv, Clean
  <2>3. ASSUME nreq' = [nreq EXCEPT ![r].left = {}]
        PROVE  /\ Turns(r, n) /\ nreq'[r].at = "hosts" /\ Same(r) /\ nreq' \in [NetReqs -> NetAsks]
               /\ nreq'[r].left = {}
               /\ \A q \in NetReqs : IF nreq'[q].at = "idle" THEN nreq'[q] = NoReq ELSE nreq'[q].net \in Nets /\ LeftOwn(nreq'[q])
    <3>1. nreq \in [NetReqs -> NetAsks]  BY DEF NetInv, NetTypeInv
    <3>2. /\ nreq'[r].at = "hosts" /\ Same(r) /\ nreq' \in [NetReqs -> NetAsks] /\ nreq'[r].left = {}
          /\ \A q \in NetReqs \ {r} : nreq'[q] = nreq[q]
      BY <2>1, <2>2, <2>3, <3>1 DEF NetAsks, Same
    <3> QED  BY <2>1, <2>2, <3>2 DEF Turns, Same, NetInv, NetTypeInv, LeftOwn
  <2>4. /\ m \in nreq[r].left
        /\ UNCHANGED <<netRow, bridge, addr, rules, tunnels, dnsmasq, listed, guests, boot>>
        /\ hosts' = hosts \/ hosts' = [hosts EXCEPT ![m] = nreq[r].saw[m]]
    BY <1>22 DEF StaticStops, WriteHosts
  <2>5. hosts' \in [Nets -> SUBSET Guests] /\ \A k \in Nets \ {m} : hosts'[k] = hosts[k]
    BY <2>2, <2>4 DEF NetInv, NetTypeInv
  <2>6. CASE Wide(r)
    <3>1. /\ nreq' = [nreq EXCEPT ![r].left = {}]
          /\ netMarks' = [k \in Nets |-> IF k \in nreq[r].left /\ hosts'[k] # guests[k]
                                         THEN netMarks[k] \cup {"skipped"} ELSE netMarks[k]]
      BY <1>22, <2>6 DEF StaticStops
    <3>2. /\ Turns(r, n) /\ nreq'[r].at = "hosts" /\ Same(r) /\ nreq' \in [NetReqs -> NetAsks]
          /\ nreq'[r].left = {}
          /\ \A q \in NetReqs : IF nreq'[q].at = "idle" THEN nreq'[q] = NoReq ELSE nreq'[q].net \in Nets /\ LeftOwn(nreq'[q])
      BY <2>3, <3>1
    <3>3. /\ netMarks' \in [Nets -> SUBSET NetFlags]
          /\ \A k \in Nets : netMarks[k] \subseteq netMarks'[k] /\ netMarks'[k] \ netMarks[k] \subseteq {"skipped"}
          /\ \A k \in nreq[r].left : hosts'[k] = guests[k] \/ netMarks'[k] # {}
      BY <2>2, <3>1 DEF NetInv, NetTypeInv, NetFlags
    <3>4. NetTypeInv'  BY <2>4, <2>5, <3>2, <3>3 DEF NetInv, NetTypeInv
    <3>5. NetBootInv'  BY <2>1, <2>4, <3>2 DEF NetInv, NetBootInv, Turns, Same
    <3>6. Keeps(n)
      <4> SUFFICES ASSUME NEW k \in Nets \ {n} PROVE Kept(k)  BY DEF Keeps
      <4>1. hosts'[k] = hosts[k] \/ hosts'[k] = guests[k] \/ netMarks'[k] # {}  BY <2>4, <2>5, <3>3
      <4> QED  BY <2>4, <3>3, <4>1 DEF Kept
    <3>7. Clean(n)' => Clean(n) /\ NetStarted(r, n)' /\ NetStopped(r, n)'
      <4>1. Clean(n)' => Clean(n)  BY <3>3 DEF Clean
      <4> QED
        BY <2>1, <2>2, <2>4, <3>2, <4>1 DEF NetStarted, NetStopped, Starting, Stopping, Same, Served, Level
    <3>8. NetworkInv(n)'  BY <2>2, <3>2, <3>7, NetAtWork
    <3>9. NetHostsInv(n)'
      <4> SUFFICES ASSUME netMarks'[n] = {}, netRow[n] # 0
                   PROVE  (\E q \in NetReqs : Due(q, n)') \/ hosts'[n] = guests'[n]
        BY <2>4 DEF NetHostsInv
      <4>1. netMarks[n] = {}  BY <3>3
      <4>2. CASE n \in nreq[r].left  BY <2>4, <3>3, <4>2
      <4>3. CASE n \notin nreq[r].left
        <5>1. (\E q \in NetReqs : Due(q, n)) \/ hosts[n] = guests[n]  BY <4>1 DEF NetInv, NetHostsInv
        <5>2. \A q \in NetReqs : Due(q, n) => Due(q, n)'  BY <2>1, <3>2, <4>3 DEF Due, Busy, Turns
        <5> QED  BY <2>4, <2>5, <4>3, <5>1, <5>2
      <4> QED  BY <4>2, <4>3
    <3> QED  BY <3>2, <3>4, <3>5, <3>6, <3>8, <3>9, NetByOne
  <2>7. CASE ~Wide(r)
    <3>1. StartFails(r)  BY <1>22, <2>7 DEF StaticStops
    <3>2. /\ Turns(r, n) /\ nreq' \in [NetReqs -> NetAsks] /\ netMarks' \in [Nets -> SUBSET NetFlags]
          /\ \A q \in NetReqs : IF nreq'[q].at = "idle" THEN nreq'[q] = NoReq ELSE nreq'[q].net \in Nets /\ LeftOwn(nreq'[q])
          /\ \A k \in Nets : netMarks[k] \subseteq netMarks'[k]
          /\ \/ nreq'[r].at = "idle" /\ "halfapplied" \in netMarks'[n]
             \/ /\ nreq[r].op = "create" /\ Same(r) /\ nreq'[r].at = IF n \in bridge THEN "link" ELSE "write"
                /\ netMarks'[n] = netMarks[n]
      BY <2>1, <2>2, <3>1, NetFails
    <3>3. NetTypeInv'  BY <2>4, <2>5, <3>2 DEF NetInv, NetTypeInv
    <3>4. NetBootInv'  BY <2>1, <2>4, <3>2 DEF NetInv, NetBootInv, Turns, Same
    <3>5. ASSUME Clean(n)'
          PROVE  Clean(n) /\ nreq'[r].at # "idle" /\ NetStarted(r, n)' /\ NetStopped(r, n)'
      <4>1. nreq[r].op = "create" /\ Same(r) /\ nreq'[r].at = (IF n \in bridge THEN "link" ELSE "write") /\ Clean(n)
        BY <3>2, <3>5 DEF Clean
      <4>2. Served(n)  BY <2>1, <2>2, <4>1 DEF NetStarted
      <4>3. n \notin bridge => Bare(n)'  BY <2>4, <4>2 DEF Served, Bare, Level, Both
      <4> QED  BY <2>4, <4>1, <4>3 DEF NetStarted, NetStopped, Starting, Stopping, Same
    <3>6. NetworkInv(n)'  BY <2>2, <3>2, <3>5, NetAtWork
    <3>7. NetHostsInv(n)'
      <4>1. CASE nreq'[r].at = "idle"  BY <3>2, <4>1 DEF NetHostsInv
      <4>2. CASE nreq[r].op = "create" /\ Same(r) /\ nreq'[r].at \in {"link", "write"}
        BY <2>2, <4>2 DEF NetHostsInv, Due, Busy, Same
      <4> QED  BY <3>2, <4>1, <4>2
    <3>8. Keeps(n)
      <4>1. m = n \/ hosts' = hosts
        BY <2>1, <2>2, <2>4, <2>7 DEF NetInv, NetTypeInv, LeftOwn, Wide
      <4> SUFFICES ASSUME NEW k \in Nets \ {n} PROVE Kept(k)  BY DEF Keeps
      <4>2. hosts'[k] = hosts[k]  BY <2>5, <4>1
      <4> QED  BY <2>4, <3>2, <4>2 DEF Kept
    <3> QED  BY <3>2, <3>3, <3>4, <3>6, <3>7, <3>8, NetByOne
  <2> QED  BY <2>6, <2>7
<1>23. ASSUME NEW r \in NetReqs, StaticEnds(r) PROVE NetInv'
  <2>1. nreq[r].at = "hosts"  BY <1>23 DEF StaticEnds, NetIs
  <2> PICK n \in Nets : n = nreq[r].net  BY <2>1, NetGoes
  <2>2. /\ n = nreq[r].net /\ Busy(r, n) /\ nreq[r].saw \in [Nets -> SUBSET Guests] /\ nreq[r].left \subseteq Nets
        /\ (Clean(n) => NetStarted(r, n) /\ NetStopped(r, n))
    BY <2>1, NetGoes DEF NetInv, NetworkInv, Clean
  <2>3. /\ nreq[r].left = {}
        /\ UNCHANGED <<netRow, bridge, addr, rules, tunnels, hosts, listed, guests, boot, netMarks>>
        /\ \/ nreq' = [nreq EXCEPT ![r] = NoReq] /\ UNCHANGED dnsmasq
           \/ /\ nreq[r].op = "clear" /\ netRow[n] # 0
              /\ nreq' = [nreq EXCEPT ![r] = Ask("lease", n, netRow[n], "bridge")]
              /\ dnsmasq' = [dnsmasq EXCEPT ![n] = 0]
    BY <1>23, <2>2 DEF StaticEnds
  <2>4. CASE nreq' = [nreq EXCEPT ![r] = NoReq] /\ UNCHANGED dnsmasq
    <3>1. /\ Turns(r, n) /\ nreq'[r].at = "idle" /\ nreq' \in [NetReqs -> NetAsks]
          /\ \A q \in NetReqs : IF nreq'[q].at = "idle" THEN nreq'[q] = NoReq ELSE nreq'[q].net \in Nets /\ LeftOwn(nreq'[q])
      BY <2>1, <2>2, <2>4, NetGoes
    <3>2. NetTypeInv'  BY <2>3, <2>4, <3>1 DEF NetInv, NetTypeInv
    <3>3. NetBootInv'  BY <2>3, <3>1 DEF NetInv, NetBootInv, Turns
    <3>4. Keeps(n)  BY <2>3, <2>4 DEF Keeps, Kept
    <3>5. Clean(n)' => Clean(n) /\ Served(n)'
      BY <2>1, <2>2, <2>3, <2>4 DEF Clean, NetStarted, Served, Level
    <3>6. NetworkInv(n)'  BY <2>2, <3>1, <3>5, NetAtWork
    <3>7. NetHostsInv(n)'  BY <2>1, <2>3, <3>1 DEF NetInv, NetHostsInv, Due, Busy, Turns
    <3> QED  BY <3>1, <3>2, <3>3, <3>4, <3>6, <3>7, NetByOne
  <2>5. CASE /\ nreq[r].op = "clear" /\ netRow[n] # 0
             /\ nreq' = [nreq EXCEPT ![r] = Ask("lease", n, netRow[n], "bridge")]
             /\ dnsmasq' = [dnsmasq EXCEPT ![n] = 0]
    <3> DEFINE new == Ask("lease", n, netRow[n], "bridge")
    <3>0. netRow[n] \in Nat  BY DEF NetInv, NetTypeInv
    <3>1. /\ new \in NetAsks /\ new.at = "bridge" /\ new.net = n /\ new.op = "lease" /\ new.set = netRow[n]
         /\ LeftOwn(new)
      BY <3>0 DEF NetAsks, Ask, Operations, Stages, LeftOwn
    <3> HIDE DEF new
    <3>2. /\ Turns(r, n) /\ nreq'[r] = new /\ nreq' \in [NetReqs -> NetAsks] /\ Busy(r, n)'
          /\ \A q \in NetReqs : IF nreq'[q].at = "idle" THEN nreq'[q] = NoReq ELSE nreq'[q].net \in Nets /\ LeftOwn(nreq'[q])
      <4>1. /\ nreq' \in [NetReqs -> NetAsks] /\ nreq'[r] = new /\ \A q \in NetReqs \ {r} : nreq'[q] = nreq[q]
        BY <2>5, <3>1 DEF NetInv, NetTypeInv, new
      <4> QED  BY <2>2, <3>1, <4>1 DEF Turns, Busy, NetInv, NetTypeInv
    <3>3. NetTypeInv'  BY <2>3, <2>5, <3>2 DEF NetInv, NetTypeInv
    <3>4. NetBootInv'
      <4>1. boot = {}  BY <2>1, <2>5 DEF NetInv, NetBootInv
      <4> QED  BY <2>3, <4>1 DEF NetBootInv
    <3>5. Keeps(n)  BY <2>3, <2>5 DEF Keeps, Kept, NetInv, NetTypeInv
    <3>6. Clean(n)' => Clean(n) /\ NetStarted(r, n)' /\ NetStopped(r, n)'
      BY <2>3, <2>5, <3>1, <3>2 DEF Clean, NetStarted, NetStopped, Starting, Stopping
    <3>7. NetworkInv(n)'  BY <2>2, <3>1, <3>2, <3>6, NetAtWork
    <3>8. NetHostsInv(n)'  BY <3>1, <3>2 DEF NetHostsInv, Due
    <3> QED  BY <3>2, <3>3, <3>4, <3>5, <3>7, <3>8, NetByOne
  <2> QED  BY <2>3, <2>4, <2>5
<1> QED  BY <1>1, <1>2, <1>3, <1>4, <1>5, <1>6, <1>7, <1>8, <1>9, <1>10, <1>11, <1>12, <1>13, <1>14, <1>15, <1>16,
    <1>17, <1>18, <1>19, <1>20, <1>21, <1>22, <1>23 DEF NetworksNext

LEMMA NetInvInit == ASSUME NetworksInit PROVE NetInv
<1>1. Both({}) \in [Families -> SUBSET Nat]  BY DEF Both
<1>2. /\ nreq \in [NetReqs -> NetAsks] /\ \A r \in NetReqs : nreq[r] = NoReq /\ nreq[r].at = "idle"
  BY NoReqIdle DEF NetworksInit
<1>3. \A n \in Nets : netRow[n] = 0 /\ Served(n)  BY DEF NetworksInit, Served, Level, Both
<1>4. NetTypeInv  BY <1>1, <1>2 DEF NetworksInit, NetTypeInv, Both
<1>5. NetBootInv  BY DEF NetworksInit, NetBootInv
<1>6. \A n \in Nets : NetworkInv(n) /\ NetHostsInv(n)  BY <1>2, <1>3 DEF NetworkInv, NetHostsInv, Due, Busy
<1> QED  BY <1>4, <1>5, <1>6 DEF NetInv

LEMMA NetInvStutter == ASSUME NetInv, UNCHANGED netVars PROVE NetInv'
<1>1. NetTypeInv' /\ NetBootInv'  BY DEF netVars, netState, NetInv, NetTypeInv, NetBootInv
<1>2. ASSUME NEW n \in Nets PROVE NetworkInv(n)' /\ NetHostsInv(n)'
  <2>1. (Served(n)' <=> Served(n)) /\ (Bare(n)' <=> Bare(n))  BY DEF netVars, netState, Served, Bare, Level
  <2>2. \A r \in NetReqs : (NetStarted(r, n)' <=> NetStarted(r, n)) /\ (NetStopped(r, n)' <=> NetStopped(r, n))
    BY <2>1 DEF netVars, netState, NetStarted, NetStopped
  <2> QED  BY <2>1, <2>2 DEF netVars, netState, NetInv, NetworkInv, NetHostsInv, Due, Busy
<1> QED  BY <1>1, <1>2 DEF NetInv

LEMMA ServeByInv == ASSUME NetInv PROVE NetworksServe
<1> SUFFICES ASSUME boot = {}, \A r \in NetReqs : nreq[r] = NoReq, NEW n \in Nets
             PROVE  /\ netMarks[n] \subseteq {"overtaken", "skipped"} =>
                         LET k == IF netRow[n] = 0 THEN {} ELSE {netRow[n]}
                         IN /\ n \in bridge <=> k # {}
                            /\ addr[n] = [f \in Families |-> k] /\ rules[n] = [f \in Families |-> k]
                            /\ tunnels[n] = k /\ dnsmasq[n] = netRow[n]
                    /\ netMarks[n] = {} /\ netRow[n] # 0 => hosts[n] = guests[n]
  BY DEF NetworksServe
<1>1. \A r \in NetReqs : ~Busy(r, n)  BY NoReqIdle DEF Busy
<1>2. netMarks[n] \subseteq {"overtaken", "skipped"} => Served(n)  BY <1>1 DEF NetInv, NetworkInv
<1>3. netMarks[n] = {} /\ netRow[n] # 0 => hosts[n] = guests[n]  BY <1>1 DEF NetInv, NetHostsInv, Due
<1> QED  BY <1>2, <1>3 DEF Served, Level, Both

-----------------------------------------------------------------------------
(* The parts together. *)

\* A step of the host is a step of one part, which leaves the variables of
\* every other part as they were, or a stutter.
LEMMA StepPool == ASSUME [Next]_vars PROVE PoolsNext \/ UNCHANGED poolVars
BY DEF Next, vars

LEMMA StepAtt == ASSUME [Next]_vars PROVE AttachNext \/ UNCHANGED attVars
BY DEF Next, vars

LEMMA StepNet == ASSUME [Next]_vars PROVE NetworksNext \/ UNCHANGED netVars
BY DEF Next, vars

LEMMA StepHot == ASSUME [Next]_vars PROVE HotPlugNext \/ UNCHANGED hotVars
BY DEF Next, vars

LEMMA StepNic == ASSUME [Next]_vars PROVE NicsNext \/ UNCHANGED nicVars
BY DEF Next, vars

LEMMA StepLim == ASSUME [Next]_vars PROVE LimitsNext \/ UNCHANGED limVars
BY DEF Next, vars

LEMMA StepExec == ASSUME [Next]_vars PROVE ExecNext \/ UNCHANGED exVars
BY DEF Next, vars

LEMMA StepSched == ASSUME [Next]_vars PROVE SchedulerNext \/ UNCHANGED schedVars
BY DEF Next, vars

\* With any driver and any number of requests: when no request is under way, the
\* pool and the volume are on disk and reachable, under the names of the row,
\* exactly when the database has them; and a running container finds the volume
\* attached to it, with files of its own ids (storagePoolCreateInternal,
\* storagePoolDelete, storagePoolVolumeAttachPrepare). Each part holds as long
\* as nothing marked it: a request that met another ("raced"), a creation,
\* deletion or undoing that stopped half way ("leftover", "halfdone",
\* "rowleft"), a rename not recorded or recorded from a stale row ("renamed",
\* "stale"), a renamed pool without its file ("sourcelost"); and for the
\* attached volume two that attached it together ("together"), a failed mount
\* taken for made ("doubted"), a shift cut ("cut") or a row written from a copy
\* ("stale").
THEOREM StorageIsServed == Spec => []StorageServes
<1>1. Init => PoolInv /\ AttInv
  BY PoolInvInit, AttInvInit DEF Init
<1>2. PoolInv /\ AttInv /\ [Next]_vars => (PoolInv /\ AttInv)'
  BY StepPool, PoolInvNext, PoolInvStutter, StepAtt, AttInvNext, AttInvStutter
<1>3. PoolInv /\ AttInv => StorageServes
  BY WholeByInv, UsableByInv DEF StorageServes
<1> QED  BY <1>1, <1>2, <1>3, PTL DEF Spec

\* When no request about networks is under way, every network of the database
\* has its bridge, addresses, firewall rules, tunnels and dnsmasq, all of its
\* last configuration, with the fixed addresses of the containers on it, and a
\* deleted one has none of them (networksPost, doNetworkUpdate, network.Start,
\* network.Stop, networkUpdateStatic). Not claimed of a network on which two
\* requests met ("raced"), whose start or stop failed half way ("halfapplied",
\* "halfstopped"), which was renamed ("misnamed") or whose rules went with those
\* of a shorter name ("robbed"); nor of the addresses where an older reading was
\* written last ("overtaken") or the update for a container ended at another
\* network ("skipped").
THEOREM NetworksAreServed == Spec => []NetworksServe
<1>1. Init => NetInv
  BY NetInvInit DEF Init
<1>2. NetInv /\ [Next]_vars => NetInv'
  BY StepNet, NetInvNext, NetInvStutter
<1>3. NetInv => NetworksServe
  BY ServeByInv
<1> QED  BY <1>1, <1>2, <1>3, PTL DEF Spec

\* When no event, rebalance or update is under way and no running container has
\* a limit that cannot be parsed, every running container has the CPUs its limit
\* grants on the CPUs that are on, and containers that only ask for a number of
\* them leave no CPU with two more than another, though events are dropped and
\* none names a container. Not claimed, until the next rebalance, of a container
\* that was read in the middle of its start or of a change (early), and the even
\* spread only while there is none (deviceTaskSchedulerTrigger,
\* deviceEventListener, deviceTaskBalance).
THEOREM CpusAreBalanced == Spec => []Balanced
<1>1. Init => SchedInv
  BY SchedInvInit DEF Init
<1>2. SchedInv /\ [Next]_vars => SchedInv'
  BY StepSched, SchedInvNext, SchedInvStutter
<1>3. SchedInv => Balanced
  BY BalancedByInv
<1> QED  BY <1>1, <1>2, <1>3, PTL DEF Spec

\* When the kernel's events have been worked off, a running container has inside
\* exactly the USB devices and cards that are plugged in and that its
\* configuration asks for, with their control nodes, provided no two of its
\* entries are for one device (HotPlugAssumption); and its interface keeps the
\* address it was first given and leaves no host device and no filter behind
\* when it is gone (deviceUSBEvent, deviceEventListener, fillNetworkDevice,
\* cleanupHostVethDevices). Not claimed of a container with a mark: an event
\* that met a start, an update or a late cleanup, that another container's
\* failure kept from it ("skipped"), an update that failed half way or can no
\* longer see what it had to remove ("half", "stranded"); nor of an interface
\* whose requests met while the address was invented ("behind", "crossed"),
\* wrote an old copy ("stale") or failed half way ("half", "leftover").
THEOREM DevicesAreKept == Spec => []DevicesKept
<1>1. Init => HotInv /\ NicInv
  BY HotInvInit, NicInvInit DEF Init
<1>2. HotInv /\ NicInv /\ [Next]_vars => (HotInv /\ NicInv)'
  BY StepHot, HotInvNext, HotInvStutter, StepNic, NicInvNext, NicInvStutter
<1>3. HotInv /\ NicInv => DevicesKept
  BY ThereByInv, KeptByInv DEF DevicesKept
<1> QED  BY <1>1, <1>2, <1>3, PTL DEF Spec

\* However live updates, starts, stops and new interfaces follow one another:
\* when no update is under way, the kernel holds a running container to the
\* limits its configuration is documented to set, those of memory set in any of
\* their orders (initMERCURY, OnStart, Update, revertMemory,
\* deviceNetworkPriority). Not the write limit of a disk without a read limit,
\* which the code loses (WriteAlone); and nothing is claimed once an update
\* failed or was interrupted with values set ("left", "revert", "swappiness"), a
\* disk came or went ("devices") or an update overtook the start hook or the
\* netlink listener ("hook", "event").
THEOREM LimitsAreHeld == Spec => []LimitsHold
<1>1. Init => LimInv
  BY LimInvInit DEF Init
<1>2. LimInv /\ [Next]_vars => LimInv'
  BY StepLim, LimInvNext, LimInvStutter
<1>3. LimInv => LimitsHold
  BY HoldByInv
<1> QED  BY <1>1, <1>2, <1>3, PTL DEF Spec

\* A command that has ended, with nothing left in the background that holds a
\* pipe, leaves a goroutine of its session, or the client that reads its output,
\* a step to take until its operation is done, unless a mark names the case: the
\* control connection came in while the finisher looked for it ("control"), or
\* one of those below. And a client that got to the end of the streams has
\* exactly what the command wrote, in however many chunks and through whatever
\* order of reads, polls and sends, unless a process's hold on the terminal made
\* the reader drop it ("held"), the client ended its input, which closes the
\* terminal ("input"), or the channel was closed before a send ("panic")
\* (execWs.Do, ExecReaderToChannel, ReaderToChannel, WebsocketExecMirror).
THEOREM ExecIsWhole == Spec => []ExecWhole
<1>1. Init => ExecInv
  BY ExecInvInit DEF Init
<1>2. ExecInv /\ [Next]_vars => ExecInv'
  BY StepExec, ExecInvNext, ExecInvStutter
<1>3. ExecInv => ExecWhole
  BY ExecInvWhole
<1> QED  BY <1>1, <1>2, <1>3, PTL DEF Spec

=============================================================================
