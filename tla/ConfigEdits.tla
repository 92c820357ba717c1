----------------------------- MODULE ConfigEdits -----------------------------
(***************************************************************************)
(* Read-modify-write of what the daemon keeps: a container, the profile it *)
(* uses, the server's own configuration, a network, a storage pool, a      *)
(* custom volume, a trusted certificate.  The command line client reads    *)
(* the object and its ETag, changes one part of it and sends the whole of  *)
(* it back with the ETag (set, unset, device add, profile assign, network  *)
(* attach, edit); a text piped into "edit" comes without one, and so does  *)
(* a PATCH of the API.  The handlers load the row, compare the ETag and    *)
(* write later.  0 is the empty value.                                     *)
(***************************************************************************)
EXTENDS Integers, FiniteSets

CONSTANTS
  Editors,         \* the clients
  EditKinds,       \* the objects, one of each kind
  Values,          \* what a part of an object can be
  Hidden,          \* what the server shows of its password
  MaxEdits, MaxEditFaults

ASSUME EditsAssumption ==
  /\ EditKinds \subseteq {"container", "profile", "server", "network", "pool", "volume", "certificate"}
  /\ 0 \in Values /\ Hidden \notin Values /\ MaxEdits \in Nat /\ MaxEditFaults \in Nat

VARIABLES
  store,           \* object -> its row in the database
  memory,          \* the server's configuration as the daemon has it
  expect,          \* object -> what the last change of each part asked for
  ed,              \* client -> its request
  edits, editMarks, editFaults

editVars == <<store, memory, expect, ed, edits, editMarks, editFaults>>

\* devices: the property of one device, 0 when there is none; profiles: 1 when
\* the container uses the profile.
ItemsOf(e) ==
  CASE e = "server" -> {"config", "password"}
    [] e = "container" -> {"config", "devices", "profiles", "description"}
    [] e = "profile" -> {"config", "devices", "description"}
    [] e = "certificate" -> {"description"}
    [] OTHER -> {"config", "description"}

NoContent == [nothing |-> 0]
NoEtag == [content |-> NoContent, used |-> FALSE]

\* pc, the object, the ETag, the content sent, the parts the user changed,
\* the row and the container as the handler loaded them, the keys to be set
\* and the one that is being set.
AtRest == [pc |-> "idle", e |-> "none", etag |-> NoEtag, req |-> NoContent, means |-> {}, old |-> NoContent, ct |-> NoContent, keys |-> {},
           key |-> "none", patch |-> FALSE]

EditsInit ==
  /\ store = [e \in EditKinds |-> [i \in ItemsOf(e) |-> IF i = "description" THEN 0 ELSE 1]]
  /\ memory = [i \in ItemsOf("server") |-> 1]
  /\ expect = store /\ ed = [k \in Editors |-> AtRest]
  /\ edits = 0 /\ editMarks = {} /\ editFaults = 0

EdMark(S) == editMarks' = editMarks \cup S
EdGoes(k, to) == ed' = [ed EXCEPT ![k].pc = to]
EdEnds(k) == ed' = [ed EXCEPT ![k] = AtRest]
EdFault == editFaults < MaxEditFaults /\ editFaults' = editFaults + 1
At(k, pc) == ed[k].pc = pc

-----------------------------------------------------------------------------
(* What an object looks like and the hash over it *)

\* daemonConfigRender
Rendered(c) == [c EXCEPT !["password"] = IF @ = 0 THEN 0 ELSE Hidden]

Shown(e) == IF e = "server" THEN Rendered(memory) ELSE store[e]

\* The parts of an object its ETag is made from.
Hashed(e) ==
  CASE e = "container" -> {"config", "devices", "profiles"}
    [] e \in {"pool", "volume"} -> {"config"}
    [] OTHER -> ItemsOf(e)

EtagWithoutDevices(e, used) == [content |-> [i \in Hashed(e) \ {"devices"} |-> Shown(e)[i]], used |-> used]

\* used: the list of users of a volume that a GET puts into the object.
EtagOf(e, used) == [content |-> [i \in Hashed(e) |-> Shown(e)[i]], used |-> used]

EtagGiven(e) == EtagOf(e, e = "volume")
EtagWanted(e) == EtagOf(e, FALSE)

-----------------------------------------------------------------------------
(* Clients *)

ReadObject(k, e) ==
  /\ At(k, "idle") /\ edits < MaxEdits /\ edits' = edits + 1
  /\ ed' = [ed EXCEPT ![k] = [AtRest EXCEPT !.pc = "has", !.e = e, !.etag = EtagGiven(e), !.req = Shown(e)]]
  /\ UNCHANGED <<store, memory, expect, editMarks, editFaults>>

\* The object is sent back with one part of it changed.
Sends(k, e, i, v) ==
  /\ At(k, "has") /\ ed[k].e = e /\ v # ed[k].req[i]
  /\ ed' = [ed EXCEPT ![k].pc = "sent", ![k].req[i] = v, ![k].means = {i}]
  /\ UNCHANGED <<store, memory, expect, edits, editMarks, editFaults>>

\* Without a device, or with one.
AddsDevice(k, e, v) == ed[k].e = e /\ At(k, "has") /\ ed[k].req["devices"] = 0 /\ v # 0 /\ Sends(k, e, "devices", v)
ChangesDevice(k, e, v) == ed[k].e = e /\ At(k, "has") /\ ed[k].req["devices"] # 0 /\ Sends(k, e, "devices", v)

\* config set and unset
doSet(k, v) == Sends(k, "container", "config", v)

configServerSet(k, v) == \E i \in ItemsOf("server") : Sends(k, "server", i, v)

\* config device add, set, unset and remove, and those of a profile
deviceAdd(k, v) == \E which \in {"container", "profile"} : AddsDevice(k, which, v)

deviceSet(k, v) == \E which \in {"container", "profile"} : v # 0 /\ ChangesDevice(k, which, v)

\* The key goes, the device stays.
deviceUnset(k) == \E which \in {"container", "profile"} : ChangesDevice(k, which, 1)

deviceRm(k) == \E which \in {"container", "profile"} : ChangesDevice(k, which, 0)

doProfileAssign(k, v) == v \in {0, 1} /\ Sends(k, "container", "profiles", v)

doProfileAdd(k) == Sends(k, "container", "profiles", 1)

doProfileRemove(k) == Sends(k, "container", "profiles", 0)

doProfileSet(k, v) == Sends(k, "profile", "config", v)

doNetworkAttach(k, v) == AddsDevice(k, "container", v)

doNetworkAttachProfile(k, v) == AddsDevice(k, "profile", v)

doNetworkDetach(k) == ChangesDevice(k, "container", 0)

doNetworkDetachProfile(k) == ChangesDevice(k, "profile", 0)

doNetworkSet(k, v) == Sends(k, "network", "config", v)

doStoragePoolVolumeAttach(k, v) == AddsDevice(k, "container", v)

doStoragePoolVolumeAttachProfile(k, v) == AddsDevice(k, "profile", v)

doStoragePoolVolumeDetach(k) == ChangesDevice(k, "container", 0)

doStoragePoolVolumeDetachProfile(k) == ChangesDevice(k, "profile", 0)

doStoragePoolSet(k, v) == Sends(k, "pool", "config", v)

doStoragePoolVolumeSet(k, v) == Sends(k, "volume", "config", v)

\* The editor shows the whole object.
doContainerConfigEdit(k, v) == \E i \in ItemsOf("container") : (i = "profiles" => v < 2) /\ Sends(k, "container", i, v)

doDaemonConfigEdit(k, v) == \E i \in ItemsOf("server") : Sends(k, "server", i, v)

doProfileEdit(k, v) == \E i \in ItemsOf("profile") : Sends(k, "profile", i, v)

doNetworkEdit(k, v) == \E i \in ItemsOf("network") : Sends(k, "network", i, v)

doStoragePoolEdit(k, v) == \E i \in ItemsOf("pool") : Sends(k, "pool", i, v)

doStoragePoolVolumeEdit(k, v) == \E i \in ItemsOf("volume") : Sends(k, "volume", i, v)

UpdateCertificate(k, v) == Sends(k, "certificate", "description", v)

\* "The device already exists", "Can't unset key": nothing is sent.
ChangesNothing(k) ==
  /\ At(k, "has") /\ EdEnds(k) /\ UNCHANGED <<store, memory, expect, edits, editMarks, editFaults>>

AllSet(e, v) == [i \in ItemsOf(e) |-> IF i = "profiles" /\ v > 1 THEN 1 ELSE v]

\* A text piped into "edit".
EditFromStdin(k, e, v) ==
  /\ At(k, "idle") /\ edits < MaxEdits /\ edits' = edits + 1
  /\ ed' = [ed EXCEPT ![k] = [AtRest EXCEPT !.pc = "sent", !.e = e, !.req = AllSet(e, v), !.means = ItemsOf(e)]]
  /\ UNCHANGED <<store, memory, expect, editMarks, editFaults>>

PatchPart(k, e, i, v) ==
  /\ At(k, "idle") /\ edits < MaxEdits /\ edits' = edits + 1 /\ i \in ItemsOf(e) /\ (i = "profiles" => v < 2)
  /\ ed' = [ed EXCEPT ![k] = [AtRest EXCEPT !.pc = "sent", !.e = e, !.req = [j \in {i} |-> v], !.means = {i}, !.patch = TRUE]]
  /\ UNCHANGED <<store, memory, expect, editMarks, editFaults>>

\* After a refusal a command ends; the editor is opened again and what it
\* gives is sent with the ETag that was read first.
AfterRefusal(k) ==
  /\ At(k, "refused") /\ (EdEnds(k) \/ EdGoes(k, "sent"))
  /\ UNCHANGED <<store, memory, expect, edits, editMarks, editFaults>>

-----------------------------------------------------------------------------
(* Handlers: load, compare *)

FilledEmpty(e, req, old) == [i \in ItemsOf(e) |-> IF i \in DOMAIN req THEN req[i] ELSE 0]

\* The parts a PATCH leaves out.  Of a container, a pool and a volume the
\* description is not among those that are filled in.
Filled(e, req, old) ==
  [i \in ItemsOf(e) |-> IF i \in DOMAIN req THEN req[i]
                        ELSE IF i = "description" /\ e \in {"container", "pool", "volume"} THEN 0 ELSE old[i]]

Handles(k, e, patch) == At(k, "sent") /\ ed[k].e = e /\ ed[k].patch = patch

\* etagCheck, with the row as it was loaded for it.
etagCheck(k, old, req) ==
  LET match == ed[k].etag \in {NoEtag, EtagWanted(ed[k].e)}
  IN /\ ed' = IF match THEN [ed EXCEPT ![k].pc = "checked", ![k].old = old, ![k].req = req]
              ELSE [ed EXCEPT ![k].pc = "refused"]
     /\ UNCHANGED <<store, memory, expect, edits, editMarks, editFaults>>

Put(k, e) == Handles(k, e, FALSE) /\ etagCheck(k, store[e], ed[k].req)
Patch(k, e) == Handles(k, e, TRUE) /\ etagCheck(k, store[e], Filled(e, ed[k].req, store[e]))

\* storagePoolPatch and networkPatch return as soon as they have found the row.
PatchIgnored(k, e) ==
  /\ Handles(k, e, TRUE) /\ EdEnds(k) /\ EdMark({"ignored"}) /\ UNCHANGED <<store, memory, expect, edits, editFaults>>

containerPut(k) == Put(k, "container")

containerPatch(k) == Patch(k, "container")

profilePut(k) == Put(k, "profile")

profilePatch(k) == Patch(k, "profile")

networkPut(k) == Put(k, "network")

networkPatch(k) == PatchIgnored(k, "network")

storagePoolPut(k) == Put(k, "pool")

storagePoolPatch(k) == PatchIgnored(k, "pool")

storagePoolVolumeTypePut(k) == Put(k, "volume")

storagePoolVolumeTypePatch(k) == Patch(k, "volume")

certificateFingerprintPut(k) == Put(k, "certificate")

certificateFingerprintPatch(k) == Patch(k, "certificate")

\* api10Put and api10Patch read the values of the database before they compare.
dbConfigValuesGet(k) ==
  /\ At(k, "sent") /\ ed[k].e = "server"
  /\ ed' = [ed EXCEPT ![k].pc = "read", ![k].old = store["server"]]
  /\ UNCHANGED <<store, memory, expect, edits, editMarks, editFaults>>

api10Put(k) == At(k, "read") /\ ~ed[k].patch /\ etagCheck(k, ed[k].old, ed[k].req)

api10Patch(k) == At(k, "read") /\ ed[k].patch /\ etagCheck(k, ed[k].old, Filled("server", ed[k].req, ed[k].old))

\* The configuration does not pass the validation, or what has to be done
\* before the row is written fails: nothing is written.
UpdateFails(k) ==
  /\ At(k, "checked") /\ EdFault /\ EdEnds(k) /\ UNCHANGED <<store, memory, expect, edits, editMarks>>

-----------------------------------------------------------------------------
(* Handlers: write *)

Met(e, content, means) == [i \in ItemsOf(e) |-> IF i \in means THEN content[i] ELSE expect[e][i]]

\* A write over a row that is no longer what was loaded, or compared.
Raced(e, content, means) == IF \E i \in ItemsOf(e) \ means : content[i] # store[e][i] THEN {"raced"} ELSE {}

\* Description of a container, a pool or a volume: a PATCH without it, and
\* an edit that read another one.
DescriptionLost(k) ==
  LET r == ed[k]
  IN r.e \in {"container", "pool", "volume"} /\ "description" \notin r.means
     /\ r.req["description"] # store[r.e]["description"]

\* The row is written as the request has it.
WritesRow(k, e) ==
  LET r == ed[k]
  IN /\ At(k, "checked") /\ r.e = e
     /\ store' = [store EXCEPT ![e] = r.req]
     /\ expect' = [expect EXCEPT ![e] = Met(e, r.req, r.means)]
     /\ EdMark(IF DescriptionLost(k) THEN {"description"}
               ELSE IF store[e] # r.old THEN Raced(e, r.req, r.means) ELSE {})
     /\ EdEnds(k) /\ UNCHANGED <<memory, edits, editFaults>>

\* containerMERCURY.Update, in an operation when the request is a PUT.
ContainerUpdate(k) == WritesRow(k, "container")

doNetworkUpdate(k) == WritesRow(k, "network")

storagePoolUpdate(k) == WritesRow(k, "pool")

storagePoolVolumeUpdate(k) == WritesRow(k, "volume")

doCertificateUpdate(k) == WritesRow(k, "certificate")

\* doProfileUpdate loads the containers that use the profile.
getContainersWithProfile(k) ==
  /\ At(k, "checked") /\ ed[k].e = "profile"
  /\ ed' = [ed EXCEPT ![k].pc = "profile", ![k].ct = IF "container" \in EditKinds /\ store["container"]["profiles"] = 1
                                                 THEN store["container"] ELSE NoContent]
  /\ UNCHANGED <<store, memory, expect, edits, editMarks, editFaults>>

DescriptionOnly(r) == \A i \in {"config", "devices"} : r.req[i] = r.old[i]

\* The description is written when it differs from the one that was loaded,
\* the rest unless only the description does.
ProfileRow(r) ==
  [i \in ItemsOf("profile") |->
     IF i = "description" THEN IF r.req[i] # r.old[i] THEN r.req[i] ELSE store["profile"][i]
     ELSE IF DescriptionOnly(r) THEN store["profile"][i] ELSE r.req[i]]

ProfileCommits(k) ==
  LET r == ed[k] row == ProfileRow(ed[k])
  IN /\ At(k, "profile")
     /\ store' = [store EXCEPT !["profile"] = row]
     /\ expect' = [expect EXCEPT !["profile"] = Met("profile", row, r.means)]
     /\ EdMark(Raced("profile", row, r.means))
     /\ IF DescriptionOnly(r) \/ r.ct = NoContent THEN EdEnds(k) ELSE EdGoes(k, "spread")
     /\ UNCHANGED <<memory, edits, editFaults>>

\* The container is updated with what was loaded of it, without a description;
\* or its update fails.
ProfileSpreads(k) ==
  LET ct == [ed[k].ct EXCEPT !["description"] = 0]
  IN /\ At(k, "spread") /\ EdEnds(k)
     /\ \/ /\ store' = [store EXCEPT !["container"] = ct] /\ UNCHANGED editFaults
           /\ EdMark((IF ct["description"] # store["container"]["description"] THEN {"description"} ELSE {})
                     \cup (IF \E i \in Hashed("container") : ct[i] # store["container"][i] THEN {"raced"} ELSE {}))
        \/ EdFault /\ UNCHANGED <<store, editMarks>>
     /\ UNCHANGED <<memory, expect, edits>>

\* doApi10Update: a password that is still hidden is the old one; the keys
\* that differ from the values of the database are set.
doApi10Update(k) ==
  LET r == ed[k]
      req == [r.req EXCEPT !["password"] = IF @ = Hidden THEN r.old["password"] ELSE @]
  IN /\ At(k, "checked") /\ r.e = "server"
     /\ ed' = [ed EXCEPT ![k].pc = "set", ![k].req = req, ![k].keys = {i \in ItemsOf("server") : req[i] # r.old[i]}]
     /\ UNCHANGED <<store, memory, expect, edits, editMarks, editFaults>>

\* daemonConfigKey.Set: a value that memory has already is not written.
Changes(i, v) == memory[i] # v

\* Set of one key, in any order, up to the new value in memory.  A key that
\* is refused ends the request, with the keys before it set.
ServerSets(k, i) ==
  /\ At(k, "set") /\ i \in ed[k].keys
  /\ \/ /\ ~Changes(i, ed[k].req[i])
        /\ ed' = [ed EXCEPT ![k].keys = @ \ {i}]
        /\ expect' = [expect EXCEPT !["server"] = Met("server", ed[k].req, ed[k].means \cap {i})]
        /\ UNCHANGED <<memory, editMarks, editFaults>>
     \/ /\ Changes(i, ed[k].req[i]) /\ memory' = [memory EXCEPT ![i] = ed[k].req[i]]
        /\ EdMark(IF i \notin ed[k].means THEN {"raced"} ELSE {})
        /\ ed' = [ed EXCEPT ![k].pc = "save", ![k].keys = @ \ {i}, ![k].key = i] /\ UNCHANGED <<expect, editFaults>>
     \/ /\ EdFault /\ EdEnds(k) /\ UNCHANGED <<memory, expect>>
        /\ EdMark(IF Cardinality(ed[k].keys) < Cardinality({j \in ItemsOf("server") : ed[k].req[j] # ed[k].old[j]})
                  THEN {"partial"} ELSE {})
  /\ UNCHANGED <<store, edits>>

\* dbConfigValueSet, which may fail.
dbConfigValueSet(k) ==
  LET i == ed[k].key
  IN /\ At(k, "save")
     /\ \/ /\ store' = [store EXCEPT !["server"][i] = ed[k].req[i]]
           /\ expect' = [expect EXCEPT !["server"] = Met("server", ed[k].req, ed[k].means \cap {i})]
           /\ EdMark(IF memory[i] # ed[k].req[i] THEN {"raced"} ELSE {})
           /\ ed' = [ed EXCEPT ![k].pc = "set", ![k].key = "none"] /\ UNCHANGED editFaults
        \/ EdFault /\ EdMark({"memory"}) /\ EdEnds(k) /\ UNCHANGED <<store, expect>>
     /\ UNCHANGED <<memory, edits>>

ServerEnds(k) ==
  /\ At(k, "set") /\ ed[k].keys = {} /\ EdEnds(k)
  /\ UNCHANGED <<store, memory, expect, edits, editMarks, editFaults>>

\* The daemon starts again: daemonConfigInit reads the database.
DaemonAgain ==
  /\ EdFault /\ "server" \in EditKinds /\ memory' = store["server"]
  /\ ed' = [k \in Editors |-> IF At(k, "has") \/ At(k, "refused") THEN ed[k] ELSE AtRest]
  /\ EdMark(IF \E k \in Editors : ed[k].pc \in {"set", "save"} THEN {"partial"} ELSE {})
  /\ UNCHANGED <<store, expect, edits>>

-----------------------------------------------------------------------------
ClientNext(k) ==
  \/ ChangesNothing(k) \/ AfterRefusal(k) \/ deviceUnset(k) \/ deviceRm(k) \/ doProfileAdd(k) \/ doProfileRemove(k)
  \/ doNetworkDetach(k) \/ doNetworkDetachProfile(k) \/ doStoragePoolVolumeDetach(k) \/ doStoragePoolVolumeDetachProfile(k)
  \/ \E v \in Values :
       \/ doSet(k, v) \/ configServerSet(k, v) \/ deviceAdd(k, v) \/ deviceSet(k, v) \/ doProfileAssign(k, v)
       \/ doProfileSet(k, v) \/ doNetworkAttach(k, v) \/ doNetworkAttachProfile(k, v) \/ doNetworkSet(k, v)
       \/ doStoragePoolVolumeAttach(k, v) \/ doStoragePoolVolumeAttachProfile(k, v) \/ doStoragePoolSet(k, v)
       \/ doStoragePoolVolumeSet(k, v) \/ doContainerConfigEdit(k, v) \/ doDaemonConfigEdit(k, v) \/ doProfileEdit(k, v)
       \/ doNetworkEdit(k, v) \/ doStoragePoolEdit(k, v) \/ doStoragePoolVolumeEdit(k, v) \/ UpdateCertificate(k, v)
  \/ \E e \in EditKinds :
       \/ ReadObject(k, e)
       \/ \E v \in Values : EditFromStdin(k, e, v)
       \/ \E i \in ItemsOf(e), v \in Values : PatchPart(k, e, i, v)

HandlerNext(k) ==
  \/ containerPut(k) \/ containerPatch(k) \/ profilePut(k) \/ profilePatch(k) \/ networkPut(k) \/ networkPatch(k)
  \/ storagePoolPut(k) \/ storagePoolPatch(k) \/ storagePoolVolumeTypePut(k) \/ storagePoolVolumeTypePatch(k)
  \/ certificateFingerprintPut(k) \/ certificateFingerprintPatch(k)
  \/ dbConfigValuesGet(k) \/ api10Put(k) \/ api10Patch(k) \/ UpdateFails(k)
  \/ ContainerUpdate(k) \/ doNetworkUpdate(k) \/ storagePoolUpdate(k) \/ storagePoolVolumeUpdate(k) \/ doCertificateUpdate(k)
  \/ getContainersWithProfile(k) \/ ProfileCommits(k) \/ ProfileSpreads(k)
  \/ doApi10Update(k) \/ dbConfigValueSet(k) \/ ServerEnds(k)
  \/ \E i \in {"config", "password"} : ServerSets(k, i)

EditsNext == DaemonAgain \/ \E k \in Editors : ClientNext(k) \/ HandlerNext(k)

EditsSpec == EditsInit /\ [][EditsNext]_editVars

-----------------------------------------------------------------------------
\* The parts of every object are what the last change of that part asked for:
\* a client that read an object and writes back the whole of it takes nothing
\* of another client's change with it, a PATCH leaves the rest as it is, and
\* the update of a profile leaves the containers that use it as they are.  The
\* daemon's own configuration is what the database has.  The marks are the
\* places where the handlers do not keep this: a write between the comparison
\* and the commit of another request ("raced"), descriptions the ETag does not
\* cover ("description"), PATCH of networks and pools ("ignored"), a server
\* configuration that failed in the middle ("partial", "memory").
EditsKept ==
  editMarks = {} =>
    /\ \A e \in EditKinds \ {"server"} : store[e] = expect[e]
    /\ (\A k \in Editors : ~At(k, "save")) /\ "server" \in EditKinds =>
         store["server"] = expect["server"] /\ memory = store["server"]
=============================================================================
