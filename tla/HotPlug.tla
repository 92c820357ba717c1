------------------------------ MODULE HotPlug -------------------------------
(***************************************************************************)
(* USB devices and GPUs in containers: the nodes the daemon makes on the   *)
(* host and binds into the container when that starts, when its devices    *)
(* are updated, and, for USB, when the kernel tells that one was plugged   *)
(* in or out.  Nothing orders a start or an update and the kernel's events.*)
(***************************************************************************)
EXTENDS Naturals, Sequences, FiniteSets

CONSTANTS
  HotKinds,        \* "usb", "gpu"
  Boxes,           \* containers
  Parts,           \* the USB devices, or the cards
  Entries,         \* device entries of a container
  Matches(_),      \* the devices an entry is for, by vendor and product
  MaxPlugs, MaxHotFaults

ASSUME HotPlugAssumption ==
  /\ HotKinds \subseteq {"usb", "gpu"} /\ HotKinds # {}
  /\ \A e \in Entries : Matches(e) \subseteq Parts
  /\ \A e, f \in Entries : e # f => Matches(e) \cap Matches(f) = {}
  /\ MaxPlugs \in Nat /\ MaxHotFaults \in Nat

VARIABLES
  hotKind,
  plugged,         \* what the host has
  uevents,         \* the kernel's events, not yet handled
  hev,             \* the event being handled: the device, what happened to
                   \* it, and the containers still to look at
  devs,            \* entries of each container in the database
  box,             \* "stopped" or "running"
  nodes,           \* device nodes in the container's devices directory
  inside,          \* devices bound into the container
  ctl, ctlInside,  \* the same for the control devices that all cards share
  late,            \* containers whose stop is still being cleaned up after
  hreq,            \* a start or update of each container
  hotMarks, plugs, hotFaults

hotHost == <<hotKind, plugged, uevents, plugs>>
hotDev == <<nodes, inside, ctl, ctlInside>>
hotVars == <<hotHost, hev, devs, box, hotDev, late, hreq, hotMarks, hotFaults>>

NoEvent == [act |-> "none", dev |-> CHOOSE d \in Parts : TRUE, todo |-> {}]
NoHot == [op |-> "none", saw |-> {}, entry |-> CHOOSE e \in Entries : TRUE, todo |-> {}]

HotPlugInit ==
  /\ hotKind \in HotKinds
  /\ plugged \in (IF hotKind = "gpu" THEN {Parts} ELSE {{}})
  /\ uevents = <<>> /\ hev = NoEvent /\ devs = [c \in Boxes |-> {}]
  /\ box = [c \in Boxes |-> "stopped"]
  /\ nodes = [c \in Boxes |-> {}] /\ inside = [c \in Boxes |-> {}]
  /\ ctl = [c \in Boxes |-> FALSE] /\ ctlInside = [c \in Boxes |-> FALSE]
  /\ late = {} /\ hreq = [c \in Boxes |-> NoHot]
  /\ hotMarks = [c \in Boxes |-> {}] /\ plugs = 0 /\ hotFaults = 0

HotFault == hotFaults < MaxHotFaults /\ hotFaults' = hotFaults + 1
HotMark(C, S) == hotMarks' = [c \in Boxes |-> IF c \in C THEN hotMarks[c] \cup S ELSE hotMarks[c]]

Wanted(c) == UNION {Matches(e) : e \in devs[c]}

\* What the host has when it is asked, the nodes of each card as one device.
deviceLoadUsb == IF hotKind = "usb" THEN plugged ELSE {}
deviceLoadGpu == IF hotKind = "gpu" THEN plugged ELSE {}
Listed == deviceLoadUsb \cup deviceLoadGpu

\* The kernel makes the node before it tells.
Plug(d) ==
  /\ hotKind = "usb" /\ plugs < MaxPlugs /\ plugs' = plugs + 1
  /\ plugged' = IF d \in plugged THEN plugged \ {d} ELSE plugged \cup {d}
  /\ uevents' = Append(uevents, [act |-> IF d \in plugged THEN "remove" ELSE "add", dev |-> d])
  /\ UNCHANGED <<hotKind, hev, devs, box, hotDev, late, hreq, hotMarks, hotFaults>>

-----------------------------------------------------------------------------
\* createUnixDevice replaces a node that is there; insertMount binds it into
\* the container.
createUnixDevice(c, S) == nodes' = [nodes EXCEPT ![c] = @ \cup S]
insertUnixDevice(c, S) == createUnixDevice(c, S) /\ inside' = [inside EXCEPT ![c] = @ \cup S]

\* Faulty form: the node on the host stays.
removeMountOnly(c, S) == inside' = [inside EXCEPT ![c] = @ \ S] /\ UNCHANGED nodes

removeUnixDevice(c, S) ==
  /\ inside' = [inside EXCEPT ![c] = @ \ S] /\ nodes' = [nodes EXCEPT ![c] = @ \ S]

\* deviceUSBEvent goes through the containers; those that do not run, or have
\* no such entry in the database, are passed over.
TakeEvent ==
  /\ uevents # <<>> /\ hev = NoEvent
  /\ hev' = [act |-> Head(uevents).act, dev |-> Head(uevents).dev, todo |-> Boxes]
  /\ uevents' = Tail(uevents)
  /\ UNCHANGED <<hotKind, plugged, plugs, devs, box, hotDev, late, hreq, hotMarks, hotFaults>>

Concerned(c) == box[c] = "running" /\ hev.dev \in Wanted(c)

\* A node that is not there cannot be removed.
Handleable(c) == hev.act = "add" \/ hev.dev \in nodes[c]

\* The first container for which it fails ends the handling of the event.
deviceUSBEvent(c) ==
  /\ c \in hev.todo
  /\ LET rest == hev.todo \ {c}
         next == [hev EXCEPT !.todo = rest]
         crossed == IF hreq[c] # NoHot \/ c \in late THEN {"crossed"} ELSE {}
     IN \/ /\ ~Concerned(c)
           /\ hev' = IF rest = {} THEN NoEvent ELSE next
           /\ HotMark({c}, crossed) /\ UNCHANGED <<hotDev, hotFaults>>
        \/ /\ Concerned(c) /\ Handleable(c)
           /\ IF hev.act = "add" THEN insertUnixDevice(c, {hev.dev}) ELSE removeUnixDevice(c, {hev.dev})
           /\ hev' = IF rest = {} THEN NoEvent ELSE next
           /\ HotMark({c}, crossed) /\ UNCHANGED <<ctl, ctlInside, hotFaults>>
        \/ /\ Concerned(c)
           /\ IF Handleable(c) THEN HotFault /\ HotMark(rest \cup {c}, {"skipped"})
              ELSE UNCHANGED hotFaults /\ HotMark(rest, {"skipped"})
           /\ IF hev.act = "add" THEN createUnixDevice(c, {hev.dev}) ELSE UNCHANGED nodes
           /\ hev' = NoEvent /\ UNCHANGED <<inside, ctl, ctlInside>>
  /\ UNCHANGED <<hotHost, devs, box, late, hreq>>

-----------------------------------------------------------------------------
\* startCommon clears the directory, lists what the host has and makes nodes.
StartLists(c) ==
  /\ box[c] = "stopped" /\ hreq[c] = NoHot
  /\ LET S == Wanted(c) \cap Listed
     IN /\ hreq' = [hreq EXCEPT ![c] = [NoHot EXCEPT !.op = "start", !.saw = S]]
        /\ nodes' = [nodes EXCEPT ![c] = S]
        /\ ctl' = [ctl EXCEPT ![c] = hotKind = "gpu" /\ S # {}]
  /\ HotMark({c}, IF c \in late THEN {"late"} ELSE {})
  /\ UNCHANGED <<hotHost, hev, devs, box, inside, ctlInside, late, hotFaults>>

\* The container starts with the nodes that were set up bound into it.
StartRuns(c) ==
  /\ hreq[c].op = "start" /\ hreq' = [hreq EXCEPT ![c] = NoHot]
  /\ IF hreq[c].saw \subseteq nodes[c]
     THEN /\ box' = [box EXCEPT ![c] = "running"] /\ inside' = [inside EXCEPT ![c] = hreq[c].saw]
          /\ ctlInside' = [ctlInside EXCEPT ![c] = ctl[c]]
          /\ UNCHANGED <<nodes, ctl, late>>
     ELSE UNCHANGED <<box, hotDev>> /\ late' = late \cup {c}
  /\ UNCHANGED <<hotHost, hev, devs, hotMarks, hotFaults>>

StopBox(c) ==
  /\ box[c] = "running" /\ hreq[c] = NoHot
  /\ box' = [box EXCEPT ![c] = "stopped"] /\ late' = late \cup {c}
  /\ inside' = [inside EXCEPT ![c] = {}] /\ ctlInside' = [ctlInside EXCEPT ![c] = FALSE]
  /\ UNCHANGED <<hotHost, hev, devs, nodes, ctl, hreq, hotMarks, hotFaults>>

\* The goroutine of OnStop clears the directory; one that halted by itself may
\* have been started again by then.
removeUnixDevices(c) ==
  /\ c \in late /\ late' = late \ {c}
  /\ nodes' = [nodes EXCEPT ![c] = {}] /\ ctl' = [ctl EXCEPT ![c] = FALSE]
  /\ hotMarks' = [hotMarks EXCEPT ![c] = IF box[c] = "running" \/ hreq[c] # NoHot THEN @ \cup {"late"}
                                         ELSE {}]
  /\ UNCHANGED <<hotHost, hev, devs, box, inside, ctlInside, hreq, hotFaults>>

-----------------------------------------------------------------------------
\* An update of a container that does not run.
UpdateStopped(c, e) ==
  /\ box[c] = "stopped" /\ hreq[c] = NoHot /\ c \notin late
  /\ devs' = [devs EXCEPT ![c] = IF e \in @ THEN @ \ {e} ELSE @ \cup {e}]
  /\ UNCHANGED <<hotHost, hev, box, hotDev, late, hreq, hotMarks, hotFaults>>

\* An update of one that runs lists the host's devices; an unplugged one whose
\* event is still to come is not among them.
Pending(c, e) == (nodes[c] \cap Matches(e)) \ Listed # {}

UpdateLists(c, e) ==
  /\ box[c] = "running" /\ hreq[c] = NoHot
  /\ hreq' = [hreq EXCEPT ![c] =
       [op |-> IF e \in devs[c] THEN "remove" ELSE "add", saw |-> Matches(e) \cap Listed, entry |-> e,
        todo |-> Matches(e) \cap Listed]]
  /\ HotMark({c}, (IF e \in devs[c] /\ Pending(c, e) THEN {"stranded"} ELSE {})
                  \cup (IF c \in late THEN {"late"} ELSE {}))
  /\ UNCHANGED <<hotHost, hev, devs, box, hotDev, late, hotFaults>>

\* Devices one by one.  An entry whose device cannot be inserted is kept for
\* USB; else the update ends there, as it does when one cannot be removed, and
\* what was done so far is not undone.
UpdateApplies(c) ==
  /\ hreq[c].op \in {"add", "remove"}
  /\ \E d \in hreq[c].todo :
       LET next == hreq' = [hreq EXCEPT ![c].todo = @ \ {d}]
           ends == hreq' = [hreq EXCEPT ![c] = NoHot]
           can == hreq[c].op = "add" \/ d \in nodes[c]
       IN \/ /\ can /\ next /\ UNCHANGED <<hotFaults, hotMarks>>
             /\ IF hreq[c].op = "add" THEN insertUnixDevice(c, {d}) ELSE removeUnixDevice(c, {d})
          \/ /\ IF can THEN HotFault ELSE UNCHANGED hotFaults
             /\ IF hreq[c].op = "add" /\ hotKind = "usb" THEN next ELSE ends
             /\ IF hreq[c].op = "add" THEN createUnixDevice(c, {d}) ELSE UNCHANGED nodes
             /\ HotMark({c}, {"half"}) /\ UNCHANGED inside
  /\ UNCHANGED <<hotHost, hev, devs, box, ctl, ctlInside, late>>

\* Faulty form: the control devices go with the first card.
ControlGone(c) == FALSE

\* They stay as long as a card is left.
ControlStays(c) == ctlInside[c] /\ nodes[c] # {}

\* The control devices are added with the first card and removed with the
\* last; then the entry is written to the database.
DevicesCommit(c) ==
  /\ hreq[c].op \in {"add", "remove"} /\ hreq[c].todo = {}
  /\ LET new == IF hotKind = "usb" THEN FALSE
                ELSE IF hreq[c].op = "add" THEN ctlInside[c] \/ hreq[c].saw # {} ELSE ControlStays(c)
     IN ctl' = [ctl EXCEPT ![c] = new] /\ ctlInside' = [ctlInside EXCEPT ![c] = new]
  /\ devs' = [devs EXCEPT ![c] = IF hreq[c].op = "add" THEN @ \cup {hreq[c].entry} ELSE @ \ {hreq[c].entry}]
  /\ hreq' = [hreq EXCEPT ![c] = NoHot]
  /\ UNCHANGED <<hotHost, hev, box, nodes, inside, late, hotMarks, hotFaults>>

HotPlugNext ==
  \/ \E d \in Parts : Plug(d)
  \/ TakeEvent
  \/ \E c \in Boxes :
       \/ deviceUSBEvent(c) \/ StartLists(c) \/ StartRuns(c) \/ StopBox(c) \/ removeUnixDevices(c)
       \/ \E e \in Entries : UpdateStopped(c, e) \/ UpdateLists(c, e)
       \/ UpdateApplies(c) \/ DevicesCommit(c)

HotPlugSpec == HotPlugInit /\ [][HotPlugNext]_hotVars

-----------------------------------------------------------------------------
\* When all events are handled and no request is under way, a container that
\* runs has the devices its entries name and the host has, no others, and the
\* cards' control devices if it has a card, whatever was plugged in or out,
\* started or updated in which order; one that does not run has left no nodes.
\* Not so when an event met a start, an update or a late cleanup, when another
\* container ended its handling, or when an update failed half way or could no
\* longer see what it had to remove.
DevicesThere ==
  uevents = <<>> /\ hev = NoEvent =>
    \A c \in Boxes :
      hreq[c] = NoHot /\ c \notin late /\ hotMarks[c] = {} =>
        /\ inside[c] = (IF box[c] = "running" THEN Wanted(c) \cap plugged ELSE {})
        /\ nodes[c] = inside[c] /\ ctl[c] = ctlInside[c]
        /\ ctlInside[c] = (hotKind = "gpu" /\ inside[c] # {})
=============================================================================
