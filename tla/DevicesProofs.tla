--------------------------- MODULE DevicesProofs ----------------------------
(***************************************************************************)
(* The inductive invariants of what a running container is given: devices  *)
(* that come and go, its network interface, its limits and its CPUs; and   *)
(* of a command run in it with its streams.                                *)
(* HostProofs puts them together with the rest of the host.                *)
(***************************************************************************)
EXTENDS HotPlug, Nics, Limits, Scheduler, Exec, FiniteSetTheorems, TLAPS

-----------------------------------------------------------------------------
(* Devices that come and go (HotPlug). *)

HotEvents == [act : {"add", "remove"}, dev : Parts]
HotAsks == [op : {"none", "start", "add", "remove"}, saw : SUBSET Parts,
            entry : Entries \cup {NoHot.entry}, todo : SUBSET Parts]
HotTurns == [act : {"none", "add", "remove"}, dev : Parts \cup {NoEvent.dev}, todo : SUBSET Boxes]
HotMarkSet == {"crossed", "skipped", "late", "stranded", "half"}

HotTypeInv ==
  /\ hotKind \in {"usb", "gpu"} /\ plugged \subseteq Parts /\ uevents \in Seq(HotEvents)
  /\ hev \in HotTurns /\ (hev.todo # {} => hev.act \in {"add", "remove"} /\ hev.dev \in Parts)
  /\ devs \in [Boxes -> SUBSET Entries] /\ box \in [Boxes -> {"stopped", "running"}]
  /\ nodes \in [Boxes -> SUBSET Parts] /\ inside \in [Boxes -> SUBSET Parts]
  /\ ctl \in [Boxes -> BOOLEAN] /\ ctlInside \in [Boxes -> BOOLEAN] /\ late \subseteq Boxes
  /\ hotMarks \in [Boxes -> SUBSET HotMarkSet]
  /\ hreq \in [Boxes -> HotAsks]
  /\ \A c \in Boxes : /\ hreq[c].op = "none" <=> hreq[c] = NoHot
                      /\ hreq[c].op \in {"add", "remove"} => hreq[c].entry \in Entries

\* The last event of a device tells whether the host has it.
Queued(d) == \E i \in 1..Len(uevents) : uevents[i].dev = d

HotQueueInv ==
  /\ \A i \in 1..Len(uevents) :
       (\A j \in 1..Len(uevents) : j > i => uevents[j].dev # uevents[i].dev) =>
         (uevents[i].act = "add" <=> uevents[i].dev \in plugged)
  /\ hev.todo # {} /\ ~Queued(hev.dev) => (hev.act = "add" <=> hev.dev \in plugged)
  /\ hotKind = "gpu" => uevents = <<>> /\ hev.todo = {}

\* A container that does not run has no device in it, whatever happened.
HotStopped(c) ==
  IF box[c] = "running" THEN hreq[c].op # "start"
  ELSE inside[c] = {} /\ ~ctlInside[c] /\ hreq[c].op \in {"none", "start"}

\* S is what the host has of W, but for devices an event of which the
\* container has not seen yet.
Waiting(c, d) == (c \in hev.todo /\ hev.dev = d) \/ Queued(d)
Current(c, S, W) == S \subseteq W /\ \A d \in Parts : Waiting(c, d) \/ (d \in S <=> d \in W /\ d \in plugged)

\* What there is of an entry that is being added, or removed.
Adds(c) ==
  LET M == Matches(hreq[c].entry)
  IN /\ hreq[c].entry \notin devs[c] /\ hreq[c].todo \subseteq hreq[c].saw /\ inside[c] \cap M = hreq[c].saw \ hreq[c].todo
     /\ Current(c, inside[c] \ M, Wanted(c)) /\ Current(c, hreq[c].saw, M)
     /\ ctlInside[c] = (hotKind = "gpu" /\ inside[c] \ M # {})

Removes(c) ==
  LET M == Matches(hreq[c].entry)
  IN /\ hreq[c].entry \in devs[c] /\ hreq[c].todo \subseteq M /\ inside[c] \cap M \subseteq hreq[c].todo
     /\ Current(c, inside[c] \ M, Wanted(c) \ M)
     /\ hotKind = "usb" => ~ctlInside[c]
     /\ hotKind = "gpu" /\ inside[c] # {} => ctlInside[c]

HotBoxInv(c) ==
  hotMarks[c] = {} =>
    /\ box[c] = "stopped" /\ hreq[c] = NoHot /\ c \notin late => nodes[c] = {} /\ ~ctl[c]
    /\ box[c] = "running" \/ hreq[c] # NoHot => c \notin late
    /\ hreq[c].op = "start" =>
         /\ nodes[c] = hreq[c].saw /\ Current(c, hreq[c].saw, Wanted(c))
         /\ ctl[c] = (hotKind = "gpu" /\ hreq[c].saw # {})
    /\ box[c] = "running" => nodes[c] = inside[c] /\ ctl[c] = ctlInside[c]
    /\ box[c] = "running" /\ hreq[c] = NoHot =>
         Current(c, inside[c], Wanted(c)) /\ ctlInside[c] = (hotKind = "gpu" /\ inside[c] # {})
    /\ hreq[c].op = "add" => Adds(c)
    /\ hreq[c].op = "remove" => Removes(c)

HotInv == HotTypeInv /\ HotQueueInv /\ \A c \in Boxes : HotStopped(c) /\ HotBoxInv(c)

LEMMA HotInvStutter == ASSUME HotInv, UNCHANGED hotVars PROVE HotInv'
<1>1. HotTypeInv' /\ HotQueueInv'
  BY DEF hotVars, hotHost, hotDev, HotInv, HotTypeInv, HotQueueInv, Queued
<1>2. ASSUME NEW c \in Boxes PROVE HotStopped(c)' /\ HotBoxInv(c)'
  <2>1. HotStopped(c) /\ HotBoxInv(c)  BY DEF HotInv
  <2>2. HotStopped(c)'  BY <2>1 DEF hotVars, hotHost, hotDev, HotStopped
  <2>3. HotBoxInv(c)'
    BY <2>1 DEF hotVars, hotHost, hotDev, HotBoxInv, Adds, Removes, Current, Waiting, Queued, Wanted
  <2> QED  BY <2>2, <2>3
<1> QED  BY <1>1, <1>2 DEF HotInv

LEMMA NoHotIs ==
  /\ NoHot.op = "none" /\ NoHot.saw = {} /\ NoHot.todo = {}
  /\ NoHot \in HotAsks
  /\ NoEvent.todo = {} /\ NoEvent.act = "none" /\ NoEvent \in HotTurns
BY DEF NoHot, NoEvent, HotAsks, HotTurns

LEMMA ListedIs == ASSUME HotTypeInv PROVE Listed = plugged
BY DEF HotTypeInv, Listed, deviceLoadUsb, deviceLoadGpu

\* The devices of different entries are different ones.
LEMMA WantedIs ==
  ASSUME HotTypeInv, NEW c \in Boxes, NEW e \in Entries
  PROVE  /\ Wanted(c) \subseteq Parts /\ Matches(e) \subseteq Parts
         /\ e \in devs[c] => Matches(e) \subseteq Wanted(c)
         /\ e \notin devs[c] => Matches(e) \cap Wanted(c) = {}
<1>1. devs[c] \subseteq Entries  BY DEF HotTypeInv
<1>2. Wanted(c) \subseteq Parts /\ Matches(e) \subseteq Parts  BY <1>1, HotPlugAssumption DEF Wanted
<1>3. e \in devs[c] => Matches(e) \subseteq Wanted(c)  BY DEF Wanted
<1>4. e \notin devs[c] => \A f \in devs[c] : Matches(f) \cap Matches(e) = {}  BY <1>1, HotPlugAssumption
<1>5. e \notin devs[c] => Matches(e) \cap Wanted(c) = {}  BY <1>4 DEF Wanted
<1> QED  BY <1>2, <1>3, <1>5

LEMMA WantedNext ==
  ASSUME HotTypeInv, NEW c \in Boxes, NEW e \in Entries
  PROVE  /\ devs'[c] = devs[c] \cup {e} => Wanted(c)' = Wanted(c) \cup Matches(e)
         /\ devs'[c] = devs[c] \ {e} /\ e \in devs[c] => Wanted(c)' = Wanted(c) \ Matches(e)
<1>1. devs[c] \subseteq Entries  BY DEF HotTypeInv
<1>2. ASSUME devs'[c] = devs[c] \cup {e} PROVE Wanted(c)' = Wanted(c) \cup Matches(e)
  BY <1>2 DEF Wanted
<1>3. ASSUME devs'[c] = devs[c] \ {e}, e \in devs[c] PROVE Wanted(c)' = Wanted(c) \ Matches(e)
  <2>1. \A f \in devs[c] \ {e} : Matches(f) \cap Matches(e) = {}  BY <1>1, HotPlugAssumption
  <2> QED  BY <1>3, <2>1 DEF Wanted
<1> QED  BY <1>2, <1>3

\* A container that a step does not touch.
Untouched(c) ==
  /\ nodes'[c] = nodes[c] /\ inside'[c] = inside[c] /\ ctl'[c] = ctl[c] /\ ctlInside'[c] = ctlInside[c]
  /\ devs'[c] = devs[c] /\ box'[c] = box[c] /\ hreq'[c] = hreq[c] /\ (c \in late' <=> c \in late)
  /\ hotMarks'[c] = {} => hotMarks[c] = {}

LEMMA HotElsewhere ==
  ASSUME HotInv, NEW c \in Boxes, Untouched(c), hotKind' = hotKind,
         hotMarks'[c] = {} => \A d \in Parts : Waiting(c, d)' \/ (~Waiting(c, d) /\ (d \in plugged' <=> d \in plugged))
  PROVE  HotBoxInv(c)'
<1> SUFFICES ASSUME hotMarks'[c] = {} PROVE HotBoxInv(c)'
  BY DEF HotBoxInv
<1>1. HotBoxInv(c) /\ hotMarks[c] = {}  BY DEF HotInv, Untouched
<1>2. Wanted(c)' = Wanted(c)  BY DEF Wanted, Untouched
<1>3. \A S, W : Current(c, S, W) => Current(c, S, W)'  BY DEF Current
<1>4. Current(c, hreq[c].saw, Wanted(c)) => Current(c, hreq[c].saw, Wanted(c))'
  BY <1>2, <1>3 DEF Untouched
<1> QED  BY <1>1, <1>2, <1>3 DEF HotBoxInv, Untouched, Adds, Removes, Current

\* A step on one container, with no event in it.
LEMMA HotByOne ==
  ASSUME HotInv, NEW c \in Boxes, UNCHANGED <<hotHost, hev>>, \A b \in Boxes \ {c} : Untouched(b),
         HotTypeInv', HotStopped(c)', HotBoxInv(c)'
  PROVE  HotInv'
<1>1. HotQueueInv'  BY DEF hotHost, HotInv, HotQueueInv, Queued
<1>2. ASSUME NEW b \in Boxes \ {c} PROVE HotStopped(b)' /\ HotBoxInv(b)'
  <2>1. HotStopped(b)'  BY <1>2 DEF HotInv, HotStopped, Untouched
  <2>2. \A d \in Parts : Waiting(b, d)' <=> Waiting(b, d)  BY DEF hotHost, Waiting, Queued
  <2> QED  BY <1>2, <2>1, <2>2, HotElsewhere DEF hotHost
<1> QED  BY <1>1, <1>2 DEF HotInv

LEMMA CurrentStays ==
  ASSUME UNCHANGED <<hotHost, hev>>, NEW c, NEW S, NEW W
  PROVE  Current(c, S, W)' <=> Current(c, S, W)
BY DEF hotHost, Current, Waiting, Queued

LEMMA MarksOf ==
  ASSUME HotInv, NEW C, NEW S \in SUBSET HotMarkSet, HotMark(C, S)
  PROVE  /\ hotMarks' \in [Boxes -> SUBSET HotMarkSet]
         /\ \A b \in Boxes : /\ hotMarks'[b] = {} => hotMarks[b] = {} /\ (b \in C => S = {})
                             /\ b \notin C => hotMarks'[b] = hotMarks[b]
BY DEF HotMark, HotInv, HotTypeInv

LEMMA HotInvNext == ASSUME HotInv, HotPlugNext PROVE HotInv'
<1> USE DEF HotMarkSet
<1>1. ASSUME NEW d \in Parts, Plug(d) PROVE HotInv'
  <2> DEFINE L == Len(uevents)
             new == [act |-> IF d \in plugged THEN "remove" ELSE "add", dev |-> d]
  <2>1. /\ uevents' = Append(uevents, new) /\ new \in HotEvents /\ new.dev = d
        /\ new.act = "add" <=> d \in plugged'
        /\ \A e \in Parts : e # d => (e \in plugged' <=> e \in plugged)
        /\ plugged' \subseteq Parts /\ uevents \in Seq(HotEvents) /\ L \in Nat
        /\ UNCHANGED <<hotKind, hev, devs, box, nodes, inside, ctl, ctlInside, late, hreq, hotMarks>>
    BY <1>1 DEF Plug, hotDev, HotEvents, HotInv, HotTypeInv
  <2> HIDE DEF new
  <2>2. /\ uevents' \in Seq(HotEvents) /\ Len(uevents') = L + 1 /\ uevents'[L + 1] = new
        /\ \A i \in 1..L : uevents'[i] = uevents[i] /\ uevents[i] \in HotEvents
    BY <2>1
  <2> HIDE DEF L
  <2>3. \A e : Queued(e)' <=> Queued(e) \/ e = d
    BY <2>1, <2>2 DEF Queued, L
  <2>4. HotTypeInv'  BY <2>1, <2>2 DEF HotInv, HotTypeInv
  <2>5. HotQueueInv'
    <3>1. ASSUME NEW i \in 1..(L + 1), \A j \in 1..(L + 1) : j > i => uevents'[j].dev # uevents'[i].dev
          PROVE  uevents'[i].act = "add" <=> uevents'[i].dev \in plugged'
      <4>1. CASE i = L + 1  BY <2>1, <2>2, <4>1
      <4>2. CASE i \in 1..L
        <5>1. uevents'[i].dev # d  BY <2>1, <2>2, <3>1, <4>2
        <5>2. uevents[i].dev \in Parts  BY <2>2, <4>2 DEF HotEvents
        <5>3. \A j \in 1..L : j > i => uevents[j].dev # uevents[i].dev  BY <2>1, <2>2, <3>1, <4>2
        <5> QED  BY <2>1, <2>2, <4>2, <5>1, <5>2, <5>3 DEF HotInv, HotQueueInv, L
      <4>3. L \in Nat  BY <2>1
      <4> QED  BY <3>1, <4>1, <4>2, <4>3
    <3>2. hev.todo # {} /\ ~Queued(hev.dev)' => (hev.act = "add" <=> hev.dev \in plugged')
      BY <2>1, <2>3 DEF HotInv, HotQueueInv, HotTypeInv
    <3>3. hotKind' = "usb"  BY <1>1 DEF Plug
    <3> QED  BY <2>1, <2>2, <3>1, <3>2, <3>3 DEF HotQueueInv
  <2>6. \A c \in Boxes : HotStopped(c)'  BY <2>1 DEF HotInv, HotStopped
  <2>7. ASSUME NEW c \in Boxes PROVE HotBoxInv(c)'
    <3>1. Untouched(c)  BY <2>1 DEF Untouched
    <3>2. \A e \in Parts : Waiting(c, e)' \/ (~Waiting(c, e) /\ (e \in plugged' <=> e \in plugged))
      BY <2>1, <2>3 DEF Waiting
    <3> QED  BY <2>1, <3>1, <3>2, HotElsewhere
  <2> QED  BY <2>4, <2>5, <2>6, <2>7 DEF HotInv
<1>2. CASE TakeEvent
  <2> DEFINE L == Len(uevents)
  <2>1. /\ uevents # <<>> /\ hev.todo = {} /\ uevents' = Tail(uevents)
        /\ hev' = [act |-> Head(uevents).act, dev |-> Head(uevents).dev, todo |-> Boxes]
        /\ UNCHANGED <<hotKind, plugged, devs, box, nodes, inside, ctl, ctlInside, late, hreq, hotMarks>>
    BY <1>2, NoHotIs DEF TakeEvent, hotDev
  <2>2. uevents \in Seq(HotEvents) /\ L \in Nat /\ L > 0  BY <2>1 DEF HotInv, HotTypeInv
  <2>3. /\ uevents' \in Seq(HotEvents) /\ Len(uevents') = L - 1 /\ Head(uevents) = uevents[1]
        /\ \A i \in 1..(L - 1) : uevents'[i] = uevents[i + 1]
        /\ \A i \in 1..L : uevents[i] \in HotEvents
    BY <2>1, <2>2
  <2>4. hev'.act = uevents[1].act /\ hev'.dev = uevents[1].dev /\ hev'.todo = Boxes
        /\ uevents[1].act \in {"add", "remove"} /\ uevents[1].dev \in Parts
    BY <2>1, <2>2, <2>3 DEF HotEvents
  <2> HIDE DEF L
  <2>5. \A e : Queued(e) => Queued(e)' \/ e = uevents[1].dev
    <3> SUFFICES ASSUME NEW e, NEW i \in 1..L, uevents[i].dev = e PROVE Queued(e)' \/ e = uevents[1].dev
      BY DEF Queued, L
    <3>1. CASE i = 1  BY <3>1
    <3>2. CASE i # 1
      <4>1. i - 1 \in 1..(L - 1) /\ (i - 1) + 1 = i  BY <2>2, <3>2
      <4> QED  BY <2>3, <4>1 DEF Queued
    <3> QED  BY <3>1, <3>2
  <2>6. \A e : Queued(e)' => Queued(e)
    <3> SUFFICES ASSUME NEW e, NEW i \in 1..(L - 1), uevents'[i].dev = e PROVE Queued(e)
      BY <2>3 DEF Queued
    <3>1. i + 1 \in 1..L /\ uevents[i + 1].dev = e  BY <2>2, <2>3
    <3> QED  BY <3>1 DEF Queued, L
  <2>7. HotTypeInv'
    <3>1. hev' \in HotTurns  BY <2>1, <2>3, <2>4 DEF HotTurns
    <3> QED  BY <2>1, <2>3, <2>4, <3>1 DEF HotInv, HotTypeInv
  <2>8. HotQueueInv'
    <3>1. ASSUME NEW i \in 1..(L - 1), \A j \in 1..(L - 1) : j > i => uevents'[j].dev # uevents'[i].dev
          PROVE  uevents'[i].act = "add" <=> uevents'[i].dev \in plugged
      <4>1. \A j \in 1..L : j > i + 1 => uevents[j].dev # uevents[i + 1].dev
        <5> SUFFICES ASSUME NEW j \in 1..L, j > i + 1 PROVE uevents[j].dev # uevents[i + 1].dev
          OBVIOUS
        <5>1. j - 1 \in 1..(L - 1) /\ j - 1 > i /\ (j - 1) + 1 = j  BY <2>2
        <5> QED  BY <2>3, <3>1, <5>1
      <4>2. i + 1 \in 1..L  BY <2>2
      <4>3. uevents[i + 1].act = "add" <=> uevents[i + 1].dev \in plugged
        BY <4>1, <4>2 DEF HotInv, HotQueueInv, L
      <4> QED  BY <2>3, <4>3
    <3> PICK d \in Parts : d = uevents[1].dev  BY <2>4
    <3>2. ~Queued(d)' => (uevents[1].act = "add" <=> d \in plugged)
      <4> SUFFICES ASSUME ~Queued(d)' PROVE uevents[1].act = "add" <=> d \in plugged
        OBVIOUS
      <4>1. \A j \in 1..L : j > 1 => uevents[j].dev # d
        <5> SUFFICES ASSUME NEW j \in 1..L, j > 1 PROVE uevents[j].dev # d
          OBVIOUS
        <5>1. j - 1 \in 1..(L - 1) /\ (j - 1) + 1 = j  BY <2>2
        <5> QED  BY <2>3, <5>1 DEF Queued
      <4> QED  BY <2>2, <4>1 DEF HotInv, HotQueueInv, L
    <3>3. plugged' = plugged  BY <2>1
    <3>4. hev'.todo # {} /\ ~Queued(hev.dev)' => (hev'.act = "add" <=> hev'.dev \in plugged)
      BY <2>4, <3>2
    <3>5. \A i \in 1..Len(uevents') :
            (\A j \in 1..Len(uevents') : j > i => uevents'[j].dev # uevents'[i].dev) =>
              (uevents'[i].act = "add" <=> uevents'[i].dev \in plugged)
      BY <2>3, <3>1
    <3>6. hotKind # "gpu"  BY <2>1 DEF HotInv, HotQueueInv
    <3> QED  BY <2>1, <3>3, <3>4, <3>5, <3>6 DEF HotQueueInv
  <2>9. \A c \in Boxes : HotStopped(c)'  BY <2>1 DEF HotInv, HotStopped
  <2>10. ASSUME NEW c \in Boxes PROVE HotBoxInv(c)'
    <3>1. Untouched(c)  BY <2>1 DEF Untouched
    <3>2. \A e \in Parts : Waiting(c, e) => Waiting(c, e)'
      BY <2>1, <2>4, <2>5 DEF Waiting
    <3> QED  BY <2>1, <3>1, <3>2, HotElsewhere
  <2> QED  BY <2>7, <2>8, <2>9, <2>10 DEF HotInv
<1>3. ASSUME NEW c \in Boxes, StartLists(c) PROVE HotInv'
  <2> PICK S : S = Wanted(c) \cap plugged  OBVIOUS
  <2> DEFINE new == [NoHot EXCEPT !.op = "start", !.saw = S]
  <2>1. /\ box[c] = "stopped" /\ hreq[c] = NoHot
        /\ hreq' = [hreq EXCEPT ![c] = new] /\ nodes' = [nodes EXCEPT ![c] = S]
        /\ ctl' = [ctl EXCEPT ![c] = hotKind = "gpu" /\ S # {}]
        /\ HotMark({c}, IF c \in late THEN {"late"} ELSE {})
        /\ UNCHANGED <<hotHost, hev>> /\ UNCHANGED <<devs, box, inside, ctlInside, late>>
    BY <1>3, ListedIs DEF StartLists, HotInv
  <2>2. S \subseteq Parts  BY DEF HotInv, HotTypeInv
  <2>3. new \in HotAsks /\ new.op = "start" /\ new.saw = S /\ new # NoHot  BY <2>2 DEF NoHot, HotAsks
  <2> HIDE DEF new
  <2>4. /\ hotMarks' \in [Boxes -> SUBSET HotMarkSet]
        /\ \A b \in Boxes : hotMarks'[b] = {} => hotMarks[b] = {} /\ (b = c => c \notin late)
    BY <2>1, MarksOf
  <2>5. HotTypeInv'  BY <2>1, <2>2, <2>3, <2>4 DEF hotHost, HotInv, HotTypeInv
  <2>6. \A b \in Boxes \ {c} : Untouched(b)  BY <2>1, <2>4 DEF Untouched, HotInv, HotTypeInv
  <2>7. hreq'[c] = new /\ nodes'[c] = S /\ ctl'[c] = (hotKind = "gpu" /\ S # {})
    BY <2>1 DEF HotInv, HotTypeInv
  <2>8. HotStopped(c)'  BY <2>1, <2>3, <2>7 DEF HotInv, HotStopped
  <2>9. HotBoxInv(c)'
    <3>1. Current(c, S, Wanted(c))  BY DEF Current
    <3>2. Wanted(c)' = Wanted(c)  BY <2>1 DEF Wanted
    <3>3. Current(c, S, Wanted(c))'  BY <2>1, <3>1, <3>2, CurrentStays
    <3>4. hreq'[c].op = "start" /\ hreq'[c].saw = S /\ hreq'[c] # NoHot  BY <2>3, <2>7
    <3>5. Current(c, hreq[c].saw, Wanted(c))'  BY <3>3, <3>4
    <3>6. box'[c] = "stopped" /\ (hotMarks'[c] = {} => c \notin late') /\ hotKind' = hotKind
      BY <2>1, <2>4 DEF hotHost
    <3>7. nodes'[c] = hreq'[c].saw /\ ctl'[c] = (hotKind = "gpu" /\ hreq'[c].saw # {})  BY <2>7, <3>4
    <3> QED  BY <3>4, <3>5, <3>6, <3>7 DEF HotBoxInv
  <2> QED  BY <2>1, <2>5, <2>6, <2>8, <2>9, HotByOne
<1>4. ASSUME NEW c \in Boxes, StartRuns(c) PROVE HotInv'
  <2>1. /\ hreq[c].op = "start" /\ hreq' = [hreq EXCEPT ![c] = NoHot]
        /\ UNCHANGED <<hotHost, hev>> /\ UNCHANGED <<devs, nodes, ctl, hotMarks>>
    BY <1>4 DEF StartRuns, hotDev
  <2>2. hreq'[c] = NoHot /\ hreq' \in [Boxes -> HotAsks] /\ \A b \in Boxes \ {c} : hreq'[b] = hreq[b]
    BY <2>1, NoHotIs DEF HotInv, HotTypeInv
  <2>3. hreq[c].saw \subseteq Parts /\ box[c] = "stopped"
    BY <2>1 DEF HotInv, HotTypeInv, HotAsks, HotStopped
  <2>4. CASE /\ hreq[c].saw \subseteq nodes[c] /\ box' = [box EXCEPT ![c] = "running"]
             /\ inside' = [inside EXCEPT ![c] = hreq[c].saw] /\ ctlInside' = [ctlInside EXCEPT ![c] = ctl[c]]
             /\ UNCHANGED late
    <3>1. HotTypeInv'  BY <2>1, <2>2, <2>3, <2>4, NoHotIs DEF hotHost, HotInv, HotTypeInv
    <3>2. \A b \in Boxes \ {c} : Untouched(b)  BY <2>1, <2>2, <2>4 DEF Untouched, HotInv, HotTypeInv
    <3>3. box'[c] = "running" /\ inside'[c] = hreq[c].saw /\ ctlInside'[c] = ctl[c]
      BY <2>4 DEF HotInv, HotTypeInv
    <3>4. HotStopped(c)'  BY <2>2, <3>3, NoHotIs DEF HotStopped
    <3>5. HotBoxInv(c)'
      <4> SUFFICES ASSUME hotMarks[c] = {} PROVE HotBoxInv(c)'
        BY <2>1 DEF HotBoxInv
      <4>1. /\ nodes[c] = hreq[c].saw /\ Current(c, hreq[c].saw, Wanted(c)) /\ c \notin late
            /\ ctl[c] = (hotKind = "gpu" /\ hreq[c].saw # {})
        BY <2>1, NoHotIs DEF HotInv, HotBoxInv
      <4>2. PICK S : S = hreq[c].saw  OBVIOUS
      <4>3. Wanted(c)' = Wanted(c)  BY <2>1 DEF Wanted
      <4>4. Current(c, S, Wanted(c))'  BY <2>1, <4>1, <4>2, <4>3, CurrentStays
      <4> QED  BY <2>1, <2>2, <2>4, <3>3, <4>1, <4>2, <4>4, NoHotIs DEF HotBoxInv, hotHost
    <3> QED  BY <2>1, <3>1, <3>2, <3>4, <3>5, HotByOne
  <2>5. CASE ~(hreq[c].saw \subseteq nodes[c]) /\ UNCHANGED <<box, inside, ctlInside>> /\ late' = late \cup {c}
    <3>1. HotTypeInv'  BY <2>1, <2>2, <2>3, <2>5, NoHotIs DEF hotHost, HotInv, HotTypeInv
    <3>2. \A b \in Boxes \ {c} : Untouched(b)  BY <2>1, <2>2, <2>5 DEF Untouched, HotInv, HotTypeInv
    <3>3. HotStopped(c)'  BY <2>2, <2>3, <2>5, NoHotIs DEF HotStopped, HotInv
    <3>4. HotBoxInv(c)'  BY <2>1, <2>5 DEF HotInv, HotBoxInv
    <3> QED  BY <2>1, <3>1, <3>2, <3>3, <3>4, HotByOne
  <2> QED  BY <1>4, <2>4, <2>5 DEF StartRuns, hotDev
<1>5. ASSUME NEW c \in Boxes, StopBox(c) PROVE HotInv'
  <2>1. /\ box[c] = "running" /\ hreq[c] = NoHot /\ late' = late \cup {c}
        /\ box' = [box EXCEPT ![c] = "stopped"] /\ inside' = [inside EXCEPT ![c] = {}]
        /\ ctlInside' = [ctlInside EXCEPT ![c] = FALSE]
        /\ UNCHANGED <<hotHost, hev>> /\ UNCHANGED <<devs, nodes, ctl, hreq, hotMarks>>
    BY <1>5 DEF StopBox
  <2>2. HotTypeInv'  BY <2>1 DEF hotHost, HotInv, HotTypeInv
  <2>3. \A b \in Boxes \ {c} : Untouched(b)  BY <2>1 DEF Untouched, HotInv, HotTypeInv
  <2>4. box'[c] = "stopped" /\ inside'[c] = {} /\ ctlInside'[c] = FALSE
    BY <2>1 DEF HotInv, HotTypeInv
  <2>5. HotStopped(c)'  BY <2>1, <2>4, NoHotIs DEF HotStopped
  <2>6. HotBoxInv(c)'  BY <2>1, <2>4, NoHotIs DEF HotBoxInv
  <2> QED  BY <2>1, <2>2, <2>3, <2>5, <2>6, HotByOne
<1>6. ASSUME NEW c \in Boxes, removeUnixDevices(c) PROVE HotInv'
  <2>1. /\ late' = late \ {c}
        /\ nodes' = [nodes EXCEPT ![c] = {}] /\ ctl' = [ctl EXCEPT ![c] = FALSE]
        /\ hotMarks' = [hotMarks EXCEPT ![c] = IF box[c] = "running" \/ hreq[c] # NoHot THEN @ \cup {"late"} ELSE {}]
        /\ UNCHANGED <<hotHost, hev>> /\ UNCHANGED <<devs, box, inside, ctlInside, hreq>>
    BY <1>6 DEF removeUnixDevices
  <2>2. HotTypeInv'  BY <2>1 DEF hotHost, HotInv, HotTypeInv
  <2>3. \A b \in Boxes \ {c} : Untouched(b)  BY <2>1 DEF Untouched, HotInv, HotTypeInv
  <2>4. /\ nodes'[c] = {} /\ ctl'[c] = FALSE
        /\ hotMarks'[c] = {} => box[c] = "stopped" /\ hreq[c] = NoHot
    BY <2>1 DEF HotInv, HotTypeInv
  <2>5. HotStopped(c)'  BY <2>1 DEF HotInv, HotStopped
  <2>6. HotBoxInv(c)'  BY <2>1, <2>4, NoHotIs DEF HotBoxInv
  <2> QED  BY <2>1, <2>2, <2>3, <2>5, <2>6, HotByOne
<1>7. ASSUME NEW c \in Boxes, NEW e \in Entries, UpdateStopped(c, e) PROVE HotInv'
  <2>1. /\ box[c] = "stopped" /\ hreq[c] = NoHot /\ c \notin late
        /\ devs' = [devs EXCEPT ![c] = IF e \in @ THEN @ \ {e} ELSE @ \cup {e}]
        /\ UNCHANGED <<hotHost, hev>> /\ UNCHANGED <<box, nodes, inside, ctl, ctlInside, late, hreq, hotMarks>>
    BY <1>7 DEF UpdateStopped, hotDev
  <2>2. HotTypeInv'  BY <2>1 DEF hotHost, HotInv, HotTypeInv
  <2>3. \A b \in Boxes \ {c} : Untouched(b)  BY <2>1 DEF Untouched, HotInv, HotTypeInv
  <2>4. HotStopped(c)'  BY <2>1 DEF HotInv, HotStopped
  <2>5. HotBoxInv(c)'  BY <2>1, NoHotIs DEF HotInv, HotBoxInv
  <2> QED  BY <2>1, <2>2, <2>3, <2>4, <2>5, HotByOne
<1>8. ASSUME NEW c \in Boxes, NEW e \in Entries, UpdateLists(c, e) PROVE HotInv'
  <2> PICK M : M = Matches(e)  OBVIOUS
  <2> PICK S : S = M \cap plugged  OBVIOUS
  <2> PICK k \in {"add", "remove"} : k = "remove" <=> e \in devs[c]  OBVIOUS
  <2> DEFINE new == [op |-> k, saw |-> S, entry |-> e, todo |-> S]
  <2>1. /\ box[c] = "running" /\ hreq[c] = NoHot /\ hreq' = [hreq EXCEPT ![c] = new]
        /\ HotMark({c}, (IF e \in devs[c] /\ Pending(c, e) THEN {"stranded"} ELSE {})
                        \cup (IF c \in late THEN {"late"} ELSE {}))
        /\ UNCHANGED <<hotHost, hev>> /\ UNCHANGED <<devs, box, nodes, inside, ctl, ctlInside, late>>
    <3>1. Matches(e) \cap Listed = S  BY ListedIs DEF HotInv
    <3>2. (IF e \in devs[c] THEN "remove" ELSE "add") = k  OBVIOUS
    <3> QED  BY <1>8, <3>1, <3>2 DEF UpdateLists, hotDev
  <2>2. M \subseteq Parts /\ S \subseteq Parts  BY HotPlugAssumption
  <2>3. /\ new \in HotAsks /\ new.op = k /\ new.saw = S /\ new.todo = S /\ new.entry = e /\ new # NoHot
    BY <2>2, NoHotIs DEF HotAsks
  <2> HIDE DEF new
  <2>4. /\ hotMarks' \in [Boxes -> SUBSET HotMarkSet]
        /\ \A b \in Boxes : hotMarks'[b] = {} => hotMarks[b] = {}
        /\ hotMarks'[c] = {} => c \notin late /\ (e \in devs[c] => nodes[c] \cap M \subseteq plugged)
    <3>1. \A b \in Boxes : hotMarks'[b] = {} => hotMarks[b] = {}  BY <2>1, MarksOf
    <3>2. hotMarks'[c] = {} => c \notin late  BY <2>1, MarksOf
    <3>3. hotMarks'[c] = {} => ~(e \in devs[c] /\ Pending(c, e))  BY <2>1, MarksOf
    <3>4. Pending(c, e) <=> (nodes[c] \cap M) \ plugged # {}  BY ListedIs DEF Pending, HotInv
    <3>5. hotMarks' \in [Boxes -> SUBSET HotMarkSet]  BY <2>1, MarksOf
    <3> QED  BY <3>1, <3>2, <3>3, <3>4, <3>5
  <2>5. HotTypeInv'  BY <2>1, <2>3, <2>4 DEF hotHost, HotInv, HotTypeInv
  <2>6. \A b \in Boxes \ {c} : Untouched(b)  BY <2>1, <2>4 DEF Untouched, HotInv, HotTypeInv
  <2>7. hreq'[c] = new  BY <2>1 DEF HotInv, HotTypeInv
  <2>8. HotStopped(c)'  BY <2>1, <2>3, <2>7 DEF HotStopped
  <2>9. HotBoxInv(c)'
    <3> SUFFICES ASSUME hotMarks'[c] = {} PROVE HotBoxInv(c)'
      BY DEF HotBoxInv
    <3>1. /\ nodes[c] = inside[c] /\ ctl[c] = ctlInside[c] /\ c \notin late
          /\ Current(c, inside[c], Wanted(c)) /\ ctlInside[c] = (hotKind = "gpu" /\ inside[c] # {})
      BY <2>1, <2>4 DEF HotInv, HotBoxInv
    <3>2. /\ hreq'[c].op = k /\ hreq'[c].saw = S /\ hreq'[c].todo = S /\ hreq'[c].entry = e /\ hreq'[c] # NoHot
      BY <2>3, <2>7
    <3>3. Wanted(c)' = Wanted(c)  BY <2>1 DEF Wanted
    <3>4. inside[c] \subseteq Wanted(c)  BY <3>1 DEF Current
    <3>5. (e \in devs[c] => M \subseteq Wanted(c)) /\ (e \notin devs[c] => M \cap Wanted(c) = {})
      BY WantedIs DEF HotInv
    <3>6. k = "add" => Adds(c)'
      <4> SUFFICES ASSUME k = "add" PROVE Adds(c)'
        OBVIOUS
      <4>1. inside[c] \cap M = {} /\ inside[c] \ M = inside[c]  BY <3>4, <3>5
      <4>2. Current(c, S, M)  BY DEF Current
      <4>3. Current(c, S, M)'  BY <2>1, <4>2, CurrentStays
      <4>4. PICK I : I = inside[c]  OBVIOUS
      <4>5. Current(c, I, Wanted(c))'  BY <2>1, <3>1, <3>3, <4>4, CurrentStays
      <4>6. Current(c, inside[c] \ M, Wanted(c))'  BY <2>1, <4>1, <4>4, <4>5
      <4>7. hotKind' = hotKind  BY <2>1 DEF hotHost
      <4>8. Current(c, hreq[c].saw, M)'  BY <3>2, <4>3
      <4>9. Matches(hreq[c].entry)' = M  BY <3>2
      <4>10. inside'[c] \cap M = hreq'[c].saw \ hreq'[c].todo /\ hreq'[c].todo \subseteq hreq'[c].saw
             /\ hreq'[c].entry \notin devs'[c]
        BY <2>1, <3>2, <4>1
      <4>11. ctlInside'[c] = (hotKind' = "gpu" /\ inside'[c] \ M # {})  BY <2>1, <3>1, <4>1, <4>7
      <4> QED  BY <4>6, <4>8, <4>9, <4>10, <4>11 DEF Adds
    <3>7. k = "remove" => Removes(c)'
      <4> SUFFICES ASSUME k = "remove" PROVE Removes(c)'
        OBVIOUS
      <4>1. inside[c] \cap M \subseteq S  BY <2>4, <3>1
      <4>2. PICK I : I = inside[c] \ M  OBVIOUS
      <4>3. PICK W : W = Wanted(c) \ M  OBVIOUS
      <4>4. Current(c, I, W)  BY <3>1, <4>2, <4>3 DEF Current
      <4>5. Current(c, I, W)'  BY <2>1, <4>4, CurrentStays
      <4>6. inside'[c] \ M = I /\ Wanted(c)' \ M = W  BY <2>1, <3>3, <4>2, <4>3
      <4>7. Matches(hreq[c].entry)' = M  BY <3>2
      <4>8. hotKind' = hotKind  BY <2>1 DEF hotHost
      <4>9. Current(c, inside[c] \ M, Wanted(c) \ M)'  BY <4>5, <4>6
      <4>10. hreq'[c].entry \in devs'[c] /\ hreq'[c].todo \subseteq M /\ inside'[c] \cap M \subseteq hreq'[c].todo
        BY <2>1, <3>2, <4>1
      <4>11. (hotKind' = "usb" => ~ctlInside'[c]) /\ (hotKind' = "gpu" /\ inside'[c] # {} => ctlInside'[c])
        BY <2>1, <3>1, <4>8
      <4> QED  BY <4>7, <4>9, <4>10, <4>11 DEF Removes
    <3> QED  BY <2>1, <3>1, <3>2, <3>6, <3>7 DEF HotBoxInv
  <2> QED  BY <2>1, <2>5, <2>6, <2>8, <2>9, HotByOne
<1>9. ASSUME NEW c \in Boxes, UpdateApplies(c) PROVE HotInv'
  <2>1. PICK d \in hreq[c].todo :
          \/ /\ hreq' = [hreq EXCEPT ![c].todo = @ \ {d}] /\ UNCHANGED hotMarks
             /\ IF hreq[c].op = "add" THEN insertUnixDevice(c, {d}) ELSE removeUnixDevice(c, {d})
          \/ /\ hreq' = [hreq EXCEPT ![c].todo = @ \ {d}] \/ hreq' = [hreq EXCEPT ![c] = NoHot]
             /\ createUnixDevice(c, {d}) \/ UNCHANGED nodes
             /\ HotMark({c}, {"half"}) /\ UNCHANGED inside
    BY <1>9 DEF UpdateApplies
  <2>2. /\ UNCHANGED <<hotHost, hev>> /\ UNCHANGED <<devs, box, ctl, ctlInside, late>>
        /\ hreq[c].op \in {"add", "remove"} /\ box[c] = "running"
    BY <1>9 DEF UpdateApplies, HotInv, HotStopped
  <2>3. PICK q \in HotAsks : q = hreq[c]  BY DEF HotInv, HotTypeInv
  <2>4. q.todo \subseteq Parts /\ d \in Parts /\ q.entry \in Entries
    BY <2>1, <2>2, <2>3 DEF HotAsks, HotInv, HotTypeInv
  <2>5. PICK n : n = [q EXCEPT !.todo = @ \ {d}]  OBVIOUS
  <2>6. /\ n \in HotAsks /\ n.op = q.op /\ n.saw = q.saw /\ n.entry = q.entry /\ n.todo = q.todo \ {d}
        /\ n # NoHot
    BY <2>2, <2>3, <2>4, <2>5, NoHotIs DEF HotAsks
  <2>7. [hreq EXCEPT ![c].todo = @ \ {d}] = [hreq EXCEPT ![c] = n]
    BY <2>3, <2>5 DEF HotInv, HotTypeInv
  <2>8. \A b \in Boxes \ {c} : hreq'[b] = hreq[b] /\ nodes'[b] = nodes[b] /\ inside'[b] = inside[b]
    BY <2>1, <2>7 DEF insertUnixDevice, removeUnixDevice, createUnixDevice, HotInv, HotTypeInv
  <2>9. nodes' \in [Boxes -> SUBSET Parts] /\ inside' \in [Boxes -> SUBSET Parts]
    BY <2>1, <2>4 DEF insertUnixDevice, removeUnixDevice, createUnixDevice, HotInv, HotTypeInv
  <2>10. CASE /\ hreq' = [hreq EXCEPT ![c].todo = @ \ {d}] /\ UNCHANGED hotMarks
              /\ IF hreq[c].op = "add" THEN insertUnixDevice(c, {d}) ELSE removeUnixDevice(c, {d})
    <3>1. hreq'[c] = n /\ hreq' \in [Boxes -> HotAsks]
      BY <2>6, <2>7, <2>10 DEF HotInv, HotTypeInv
    <3>2. HotTypeInv'
      <4>1. \A b \in Boxes : /\ hreq'[b].op = "none" <=> hreq'[b] = NoHot
                             /\ hreq'[b].op \in {"add", "remove"} => hreq'[b].entry \in Entries
        BY <2>2, <2>3, <2>4, <2>6, <2>8, <3>1 DEF HotInv, HotTypeInv
      <4> QED  BY <2>2, <2>9, <2>10, <3>1, <4>1 DEF hotHost, HotInv, HotTypeInv
    <3>3. \A b \in Boxes \ {c} : Untouched(b)  BY <2>2, <2>8, <2>10 DEF Untouched
    <3>4. HotStopped(c)'  BY <2>2, <2>3, <2>6, <3>1 DEF HotStopped
    <3>5. HotBoxInv(c)'
      <4> SUFFICES ASSUME hotMarks[c] = {} PROVE HotBoxInv(c)'
        BY <2>10 DEF HotBoxInv
      <4> PICK M : M = Matches(q.entry)  OBVIOUS
      <4> PICK W : W = Wanted(c)  OBVIOUS
      <4> PICK I : I = inside[c]  OBVIOUS
      <4>1. Wanted(c)' = W /\ hotKind' = hotKind  BY <2>2 DEF Wanted, hotHost
      <4>2. nodes[c] = inside[c] /\ ctl[c] = ctlInside[c] /\ c \notin late  BY <2>2 DEF HotInv, HotBoxInv
      <4>3. nodes'[c] = inside'[c]
        <5>1. CASE insertUnixDevice(c, {d})
          BY <4>2, <5>1 DEF insertUnixDevice, createUnixDevice, HotInv, HotTypeInv
        <5>2. CASE removeUnixDevice(c, {d})
          BY <4>2, <5>2 DEF removeUnixDevice, HotInv, HotTypeInv
        <5> QED  BY <2>10, <5>1, <5>2
      <4>4. q.op = "add" => Adds(c)'
        <5> SUFFICES ASSUME q.op = "add" PROVE Adds(c)'
          OBVIOUS
        <5>1. /\ q.entry \notin devs[c] /\ q.todo \subseteq q.saw /\ I \cap M = q.saw \ q.todo
              /\ Current(c, I \ M, W) /\ Current(c, q.saw, M)
              /\ ctlInside[c] = (hotKind = "gpu" /\ I \ M # {})
          BY <2>2, <2>3 DEF HotInv, HotBoxInv, Adds
        <5>2. inside'[c] = I \cup {d}
          BY <2>3, <2>10 DEF insertUnixDevice, HotInv, HotTypeInv
        <5>3. q.saw \subseteq M /\ d \in M /\ d \in q.saw  BY <2>1, <2>3, <5>1 DEF Current
        <5>4. inside'[c] \ M = I \ M /\ inside'[c] \cap M = q.saw \ n.todo  BY <2>6, <5>1, <5>2, <5>3
        <5>5. PICK J : J = I \ M  OBVIOUS
        <5>6. PICK S : S = q.saw  OBVIOUS
        <5>7. Current(c, J, W)' /\ Current(c, S, M)'  BY <2>2, <5>1, <5>5, <5>6, CurrentStays
        <5>8. hreq'[c].entry = q.entry /\ hreq'[c].saw = S /\ hreq'[c].todo = n.todo  BY <2>6, <3>1, <5>6
        <5>9. Matches(hreq[c].entry)' = M  BY <5>8
        <5>10. Current(c, inside[c] \ M, Wanted(c))' /\ Current(c, hreq[c].saw, M)'
          BY <4>1, <5>4, <5>5, <5>7, <5>8
        <5>11. /\ hreq'[c].entry \notin devs'[c] /\ hreq'[c].todo \subseteq hreq'[c].saw
               /\ inside'[c] \cap M = hreq'[c].saw \ hreq'[c].todo
          BY <2>2, <2>6, <5>1, <5>4, <5>6, <5>8
        <5>12. ctlInside'[c] = (hotKind' = "gpu" /\ inside'[c] \ M # {})  BY <2>2, <4>1, <5>1, <5>4
        <5> QED  BY <5>9, <5>10, <5>11, <5>12 DEF Adds
      <4>5. q.op = "remove" => Removes(c)'
        <5> SUFFICES ASSUME q.op = "remove" PROVE Removes(c)'
          OBVIOUS
        <5>1. /\ q.entry \in devs[c] /\ q.todo \subseteq M /\ I \cap M \subseteq q.todo
              /\ Current(c, I \ M, W \ M)
              /\ (hotKind = "usb" => ~ctlInside[c]) /\ (hotKind = "gpu" /\ I # {} => ctlInside[c])
          BY <2>2, <2>3 DEF HotInv, HotBoxInv, Removes
        <5>2. inside'[c] = I \ {d}
          BY <2>3, <2>10 DEF removeUnixDevice, HotInv, HotTypeInv
        <5>3. d \in M  BY <2>1, <2>3, <5>1
        <5>4. inside'[c] \ M = I \ M /\ inside'[c] \cap M \subseteq n.todo  BY <2>6, <5>1, <5>2, <5>3
        <5>5. PICK J : J = I \ M  OBVIOUS
        <5>6. PICK V : V = W \ M  OBVIOUS
        <5>7. Current(c, J, V)'  BY <2>2, <5>1, <5>5, <5>6, CurrentStays
        <5>8. hreq'[c].entry = q.entry /\ hreq'[c].todo = n.todo  BY <2>6, <3>1
        <5>9. Matches(hreq[c].entry)' = M  BY <5>8
        <5>10. Current(c, inside[c] \ M, Wanted(c) \ M)'  BY <4>1, <5>4, <5>5, <5>6, <5>7
        <5>11. /\ hreq'[c].entry \in devs'[c] /\ hreq'[c].todo \subseteq M
               /\ inside'[c] \cap M \subseteq hreq'[c].todo
          BY <2>2, <2>6, <5>1, <5>4, <5>8
        <5>12. (hotKind' = "usb" => ~ctlInside'[c]) /\ (hotKind' = "gpu" /\ inside'[c] # {} => ctlInside'[c])
          BY <2>2, <4>1, <5>1, <5>2
        <5> QED  BY <5>9, <5>10, <5>11, <5>12 DEF Removes
      <4>6. hreq'[c].op = q.op /\ hreq'[c] # NoHot /\ q.op \in {"add", "remove"}  BY <2>2, <2>3, <2>6, <3>1
      <4> QED  BY <2>2, <4>2, <4>3, <4>4, <4>5, <4>6 DEF HotBoxInv
    <3> QED  BY <2>2, <3>2, <3>3, <3>4, <3>5, HotByOne
  <2>11. CASE /\ hreq' = [hreq EXCEPT ![c].todo = @ \ {d}] \/ hreq' = [hreq EXCEPT ![c] = NoHot]
              /\ HotMark({c}, {"half"}) /\ UNCHANGED inside
    <3>1. hreq'[c] \in {n, NoHot} /\ hreq' \in [Boxes -> HotAsks]
      <4>1. hreq' = [hreq EXCEPT ![c] = n] \/ hreq' = [hreq EXCEPT ![c] = NoHot]  BY <2>7, <2>11
      <4>2. hreq \in [Boxes -> HotAsks]  BY DEF HotInv, HotTypeInv
      <4> QED  BY <2>6, <4>1, <4>2, NoHotIs
    <3>2. /\ hotMarks' \in [Boxes -> SUBSET HotMarkSet] /\ hotMarks'[c] # {}
          /\ \A b \in Boxes : hotMarks'[b] = {} => hotMarks[b] = {}
      BY <2>11, MarksOf
    <3>3. HotTypeInv'
      <4>1. \A b \in Boxes : /\ hreq'[b].op = "none" <=> hreq'[b] = NoHot
                             /\ hreq'[b].op \in {"add", "remove"} => hreq'[b].entry \in Entries
        BY <2>2, <2>3, <2>4, <2>6, <2>8, <3>1, NoHotIs DEF HotInv, HotTypeInv
      <4> QED  BY <2>2, <2>9, <3>1, <3>2, <4>1 DEF hotHost, HotInv, HotTypeInv
    <3>4. \A b \in Boxes \ {c} : Untouched(b)  BY <2>2, <2>8, <3>2 DEF Untouched
    <3>5. HotStopped(c)'  BY <2>2, <2>3, <2>6, <3>1, NoHotIs DEF HotStopped
    <3>6. HotBoxInv(c)'  BY <3>2 DEF HotBoxInv
    <3> QED  BY <2>2, <3>3, <3>4, <3>5, <3>6, HotByOne
  <2> QED  BY <2>1, <2>10, <2>11
<1>10. ASSUME NEW c \in Boxes, DevicesCommit(c) PROVE HotInv'
  <2> PICK q \in HotAsks : q = hreq[c]  BY DEF HotInv, HotTypeInv
  <2> PICK new \in BOOLEAN :
        new = (IF hotKind = "usb" THEN FALSE
               ELSE IF q.op = "add" THEN ctlInside[c] \/ q.saw # {} ELSE ControlStays(c))
    BY DEF HotInv, HotTypeInv, ControlStays
  <2>1. /\ q.op \in {"add", "remove"} /\ q.todo = {} /\ q.entry \in Entries /\ box[c] = "running"
        /\ ctl' = [ctl EXCEPT ![c] = new] /\ ctlInside' = [ctlInside EXCEPT ![c] = new]
        /\ devs' = [devs EXCEPT ![c] = IF q.op = "add" THEN @ \cup {q.entry} ELSE @ \ {q.entry}]
        /\ hreq' = [hreq EXCEPT ![c] = NoHot]
        /\ UNCHANGED <<hotHost, hev>> /\ UNCHANGED <<box, nodes, inside, late, hotMarks>>
    BY <1>10 DEF DevicesCommit, HotInv, HotTypeInv, HotStopped
  <2>2. /\ hreq'[c] = NoHot /\ hreq' \in [Boxes -> HotAsks] /\ ctl'[c] = new /\ ctlInside'[c] = new
        /\ devs'[c] = (IF q.op = "add" THEN devs[c] \cup {q.entry} ELSE devs[c] \ {q.entry})
        /\ \A b \in Boxes \ {c} : hreq'[b] = hreq[b]
    BY <2>1, NoHotIs DEF HotInv, HotTypeInv
  <2>3. HotTypeInv'
    <3>1. devs' \in [Boxes -> SUBSET Entries]  BY <2>1 DEF HotInv, HotTypeInv
    <3>2. ctl' \in [Boxes -> BOOLEAN] /\ ctlInside' \in [Boxes -> BOOLEAN]  BY <2>1 DEF HotInv, HotTypeInv
    <3>3. \A b \in Boxes : /\ hreq'[b].op = "none" <=> hreq'[b] = NoHot
                           /\ hreq'[b].op \in {"add", "remove"} => hreq'[b].entry \in Entries
      BY <2>2, NoHotIs DEF HotInv, HotTypeInv
    <3> QED  BY <2>1, <2>2, <3>1, <3>2, <3>3 DEF hotHost, HotInv, HotTypeInv
  <2>4. \A b \in Boxes \ {c} : Untouched(b)  BY <2>1, <2>2 DEF Untouched, HotInv, HotTypeInv
  <2>5. HotStopped(c)'  BY <2>1, <2>2, NoHotIs DEF HotStopped
  <2>6. HotBoxInv(c)'
    <3> SUFFICES ASSUME hotMarks[c] = {} PROVE HotBoxInv(c)'
      BY <2>1 DEF HotBoxInv
    <3> PICK M : M = Matches(q.entry)  OBVIOUS
    <3> PICK W : W = Wanted(c)  OBVIOUS
    <3> PICK I : I = inside[c]  OBVIOUS
    <3> PICK V : V = (IF q.op = "add" THEN W \cup M ELSE W \ M)  OBVIOUS
    <3>1. nodes[c] = I /\ c \notin late /\ hotKind' = hotKind /\ hotKind \in {"usb", "gpu"}
      BY <2>1 DEF HotInv, HotBoxInv, HotTypeInv, hotHost
    <3>2. Current(c, I, V) /\ Wanted(c)' = V /\ new = (hotKind = "gpu" /\ I # {})
      <4>1. CASE q.op = "add"
        <5>1. /\ q.entry \notin devs[c] /\ I \cap M = q.saw
              /\ Current(c, I \ M, W) /\ Current(c, q.saw, M)
              /\ ctlInside[c] = (hotKind = "gpu" /\ I \ M # {})
          BY <2>1, <4>1 DEF HotInv, HotBoxInv, Adds
        <5>2. Current(c, I, V)  BY <4>1, <5>1 DEF Current
        <5>3. Wanted(c)' = V  BY <2>1, <2>2, <4>1, WantedNext DEF HotInv
        <5>4. new = (hotKind = "gpu" /\ I # {})  BY <3>1, <4>1, <5>1
        <5> QED  BY <5>2, <5>3, <5>4
      <4>2. CASE q.op = "remove"
        <5>1. /\ q.entry \in devs[c] /\ I \cap M = {}
              /\ Current(c, I \ M, W \ M)
              /\ (hotKind = "usb" => ~ctlInside[c]) /\ (hotKind = "gpu" /\ I # {} => ctlInside[c])
          BY <2>1, <4>2 DEF HotInv, HotBoxInv, Removes
        <5>2. I \ M = I  BY <5>1
        <5>3. Current(c, I, V)  BY <4>2, <5>1, <5>2
        <5>4. Wanted(c)' = V  BY <2>1, <2>2, <4>2, <5>1, WantedNext DEF HotInv
        <5>5. new = (hotKind = "gpu" /\ I # {})  BY <3>1, <4>2, <5>1 DEF ControlStays
        <5> QED  BY <5>3, <5>4, <5>5
      <4> QED  BY <2>1, <4>1, <4>2
    <3>3. Current(c, I, V)'  BY <2>1, <3>2, CurrentStays
    <3>4. inside'[c] = I /\ Current(c, inside[c], Wanted(c))'  BY <2>1, <3>2, <3>3
    <3>5. ctlInside'[c] = (hotKind' = "gpu" /\ inside'[c] # {})  BY <2>2, <3>1, <3>2, <3>4
    <3>6. /\ nodes'[c] = inside'[c] /\ ctl'[c] = ctlInside'[c] /\ c \notin late' /\ hreq'[c].op = "none"
          /\ box'[c] = "running"
      BY <2>1, <2>2, <3>1, <3>4, NoHotIs
    <3> QED  BY <3>4, <3>5, <3>6 DEF HotBoxInv
  <2> QED  BY <2>1, <2>3, <2>4, <2>5, <2>6, HotByOne
<1>11. ASSUME NEW c \in Boxes, deviceUSBEvent(c) PROVE HotInv'
  <2> PICK rest : rest = hev.todo \ {c}  OBVIOUS
  <2> PICK d : d = hev.dev  OBVIOUS
  <2> DEFINE goes == hev' = IF rest = {} THEN NoEvent ELSE [hev EXCEPT !.todo = rest]
             crossed == IF hreq[c] # NoHot \/ c \in late THEN {"crossed"} ELSE {}
  <2>1. /\ c \in hev.todo /\ d \in Parts /\ hev.act \in {"add", "remove"} /\ rest \subseteq Boxes
        /\ hotKind = "usb" /\ UNCHANGED <<hotHost>> /\ UNCHANGED <<devs, box, late, hreq>>
    BY <1>11 DEF deviceUSBEvent, HotInv, HotTypeInv, HotQueueInv, HotTurns
  <2>2. ctl' = ctl /\ ctlInside' = ctlInside /\ (~Concerned(c) => nodes' = nodes /\ inside' = inside)
    BY <1>11 DEF deviceUSBEvent, hotDev
  <2>3. \/ ~Concerned(c) /\ goes /\ HotMark({c}, crossed) /\ nodes' = nodes /\ inside' = inside
        \/ /\ Concerned(c) /\ goes /\ HotMark({c}, crossed)
           /\ IF hev.act = "add" THEN insertUnixDevice(c, {d}) ELSE removeUnixDevice(c, {d})
        \/ /\ Concerned(c) /\ hev' = NoEvent /\ inside' = inside
           /\ IF hev.act = "add" THEN createUnixDevice(c, {d}) ELSE nodes' = nodes
           /\ HotMark(rest \cup {c}, {"skipped"})
        \/ /\ Concerned(c) /\ hev' = NoEvent /\ inside' = inside /\ nodes' = nodes
           /\ hev.act = "remove" /\ d \notin nodes[c] /\ HotMark(rest, {"skipped"})
    BY <1>11, <2>1 DEF deviceUSBEvent, Handleable, hotDev
  <2>4. /\ nodes' \in [Boxes -> SUBSET Parts] /\ inside' \in [Boxes -> SUBSET Parts]
        /\ \A b \in Boxes \ {c} : nodes'[b] = nodes[b] /\ inside'[b] = inside[b]
    <3>1. CASE nodes' = nodes /\ inside' = inside
      BY <3>1 DEF HotInv, HotTypeInv
    <3>2. CASE insertUnixDevice(c, {d})
      BY <2>1, <3>2 DEF insertUnixDevice, createUnixDevice, HotInv, HotTypeInv
    <3>3. CASE removeUnixDevice(c, {d})
      BY <2>1, <3>3 DEF removeUnixDevice, HotInv, HotTypeInv
    <3>4. CASE createUnixDevice(c, {d}) /\ inside' = inside
      BY <2>1, <3>4 DEF createUnixDevice, HotInv, HotTypeInv
    <3> QED  BY <2>3, <3>1, <3>2, <3>3, <3>4
  <2>5. /\ hotMarks' \in [Boxes -> SUBSET HotMarkSet]
        /\ \A b \in Boxes : hotMarks'[b] = {} => hotMarks[b] = {}
        /\ hotMarks'[c] = {} =>
             (hreq[c] = NoHot /\ c \notin late) \/ (hev.act = "remove" /\ d \notin nodes[c] /\ Concerned(c)
                                                     /\ inside' = inside /\ nodes' = nodes)
        /\ \A b \in rest : hotMarks'[b] = {} => goes
    <3>1. CASE HotMark({c}, crossed) /\ goes
      BY <2>1, <3>1, MarksOf
    <3>2. CASE HotMark(rest \cup {c}, {"skipped"})
      BY <2>1, <3>2, MarksOf
    <3>3. CASE /\ HotMark(rest, {"skipped"}) /\ hev.act = "remove" /\ d \notin nodes[c] /\ Concerned(c)
               /\ inside' = inside /\ nodes' = nodes
      BY <2>1, <3>3, MarksOf
    <3> QED  BY <2>3, <3>1, <3>2, <3>3
  <2>6. \/ hev'.todo = {}
        \/ hev'.todo = rest /\ hev'.act = hev.act /\ hev'.dev = d
    <3>1. hev' = NoEvent \/ hev' = [hev EXCEPT !.todo = rest]  BY <2>3
    <3>2. CASE hev' = NoEvent  BY <3>2, NoHotIs
    <3>3. CASE hev' = [hev EXCEPT !.todo = rest]
      <4>1. hev \in HotTurns  BY DEF HotInv, HotTypeInv
      <4> QED  BY <3>3, <4>1 DEF HotTurns
    <3> QED  BY <3>1, <3>2, <3>3
  <2>7. goes /\ rest # {} => hev'.todo = rest /\ hev'.dev = d
    BY DEF HotInv, HotTypeInv, HotTurns
  <2>8. HotTypeInv'
    <3>1. hev'.todo # {} => hev'.act \in {"add", "remove"} /\ hev'.dev \in Parts
      BY <2>1, <2>6
    <3>2. hev' = NoEvent \/ hev' = [hev EXCEPT !.todo = rest]  BY <2>3
    <3>3. hev' \in HotTurns  BY <2>1, <3>2, NoHotIs DEF HotInv, HotTypeInv, HotTurns
    <3> QED  BY <2>1, <2>2, <2>4, <2>5, <3>1, <3>3 DEF hotHost, HotInv, HotTypeInv
  <2>9. \A e : Queued(e)' <=> Queued(e)  BY <2>1 DEF hotHost, Queued
  <2>10. HotQueueInv'
    <3>1. hev'.todo # {} /\ ~Queued(hev.dev)' => (hev'.act = "add" <=> hev'.dev \in plugged)
      <4> SUFFICES ASSUME hev'.todo # {}, ~Queued(hev.dev)' PROVE hev'.act = "add" <=> hev'.dev \in plugged
        OBVIOUS
      <4>1. hev'.act = hev.act /\ hev'.dev = d  BY <2>6
      <4>2. ~Queued(d)'  BY <4>1
      <4> QED  BY <2>1, <2>9, <4>1, <4>2 DEF HotInv, HotQueueInv
    <3> QED  BY <2>1, <3>1 DEF hotHost, HotInv, HotQueueInv
  <2>11. ASSUME NEW b \in Boxes PROVE HotStopped(b)'
    <3>1. HotStopped(b)  BY DEF HotInv
    <3>2. CASE b # c  BY <2>1, <2>2, <2>4, <3>1, <3>2 DEF HotStopped
    <3>3. CASE b = c
      <4>1. box[c] # "running" => inside' = inside  BY <2>2 DEF Concerned
      <4> QED  BY <2>1, <2>2, <3>1, <3>3, <4>1 DEF HotStopped
    <3> QED  BY <3>2, <3>3
  <2>12. ASSUME NEW b \in Boxes \ {c} PROVE HotBoxInv(b)'
    <3>1. Untouched(b)  BY <2>1, <2>2, <2>4, <2>5, <2>12 DEF Untouched
    <3>2. hotMarks'[b] = {} => \A e \in Parts : Waiting(b, e)' <=> Waiting(b, e)
      <4> SUFFICES ASSUME hotMarks'[b] = {}, NEW e \in Parts PROVE Waiting(b, e)' <=> Waiting(b, e)
        OBVIOUS
      <4>1. CASE b \in rest
        <5>1. hev'.todo = rest /\ hev'.dev = d /\ b \in hev.todo  BY <2>5, <2>7, <4>1
        <5> QED  BY <2>9, <4>1, <5>1 DEF Waiting
      <4>2. CASE b \notin rest
        <5>1. b \notin hev.todo /\ b \notin hev'.todo  BY <2>6, <2>12, <4>2
        <5> QED  BY <2>9, <5>1 DEF Waiting
      <4> QED  BY <4>1, <4>2
    <3>3. plugged' = plugged /\ hotKind' = hotKind  BY <2>1 DEF hotHost
    <3> QED  BY <2>12, <3>1, <3>2, <3>3, HotElsewhere
  <2>13. HotBoxInv(c)'
    <3> SUFFICES ASSUME hotMarks'[c] = {} PROVE HotBoxInv(c)'
      BY DEF HotBoxInv
    <3>1. hotMarks[c] = {} /\ HotBoxInv(c)  BY <2>5 DEF HotInv
    <3>2. plugged' = plugged /\ hotKind' = hotKind /\ hotKind = "usb" /\ Wanted(c)' = Wanted(c)
      BY <2>1 DEF hotHost, Wanted
    <3>3. \A e : Waiting(c, e)' <=> Queued(e)
      <4>1. c \notin hev'.todo  BY <2>6
      <4> QED  BY <2>9, <4>1 DEF Waiting
    <3>4. ~Queued(d) => (hev.act = "add" <=> d \in plugged)  BY <2>1 DEF HotInv, HotQueueInv
    <3>5. \A e \in Parts : Waiting(c, e) => Queued(e) \/ e = d  BY DEF Waiting
    <3>6. CASE ~Concerned(c) /\ hreq[c] = NoHot /\ c \notin late
      <4>1. nodes' = nodes /\ inside' = inside  BY <2>2, <3>6
      <4>2. CASE box[c] = "running"
        <5>1. Current(c, inside[c], Wanted(c)) /\ d \notin Wanted(c)
          BY <3>1, <3>6, <4>2 DEF HotBoxInv, Concerned
        <5>2. Current(c, inside[c], Wanted(c))'  BY <3>2, <3>3, <3>5, <4>1, <5>1 DEF Current
        <5> QED  BY <2>1, <2>2, <3>1, <3>2, <3>6, <4>1, <4>2, <5>2, NoHotIs DEF HotBoxInv
      <4>3. CASE box[c] # "running"
        BY <2>1, <2>2, <3>1, <3>2, <3>6, <4>1, <4>3, NoHotIs DEF HotBoxInv
      <4> QED  BY <4>2, <4>3
    <3>7. CASE /\ Concerned(c) /\ hreq[c] = NoHot /\ c \notin late
               /\ IF hev.act = "add" THEN insertUnixDevice(c, {d}) ELSE removeUnixDevice(c, {d})
      <4>1. /\ box[c] = "running" /\ d \in Wanted(c) /\ Current(c, inside[c], Wanted(c))
            /\ nodes[c] = inside[c] /\ ctl[c] = ctlInside[c] /\ ctlInside[c] = FALSE
        BY <2>1, <3>1, <3>7 DEF HotBoxInv, Concerned
      <4>2. /\ inside'[c] = (IF hev.act = "add" THEN inside[c] \cup {d} ELSE inside[c] \ {d})
            /\ nodes'[c] = inside'[c]
        <5>1. nodes \in [Boxes -> SUBSET Parts] /\ inside \in [Boxes -> SUBSET Parts]
          BY DEF HotInv, HotTypeInv
        <5>2. CASE insertUnixDevice(c, {d}) /\ hev.act = "add"
          <6>1. inside'[c] = inside[c] \cup {d}  BY <5>1, <5>2 DEF insertUnixDevice
          <6>2. nodes'[c] = nodes[c] \cup {d}  BY <5>1, <5>2 DEF insertUnixDevice, createUnixDevice
          <6> QED  BY <4>1, <5>2, <6>1, <6>2
        <5>3. CASE removeUnixDevice(c, {d}) /\ hev.act # "add"
          <6>1. inside'[c] = inside[c] \ {d}  BY <5>1, <5>3 DEF removeUnixDevice
          <6>2. nodes'[c] = nodes[c] \ {d}  BY <5>1, <5>3 DEF removeUnixDevice
          <6> QED  BY <4>1, <5>3, <6>1, <6>2
        <5> QED  BY <3>7, <5>2, <5>3
      <4>3. inside'[c] \subseteq Wanted(c)  BY <4>1, <4>2 DEF Current
      <4>4. ASSUME NEW e \in Parts, ~Queued(e) PROVE e \in inside'[c] <=> e \in Wanted(c) /\ e \in plugged
        <5>1. CASE e = d  BY <3>4, <4>1, <4>2, <4>4, <5>1
        <5>2. CASE e # d  BY <3>5, <4>1, <4>2, <4>4, <5>2 DEF Current
        <5> QED  BY <5>1, <5>2
      <4>5. Current(c, inside[c], Wanted(c))'  BY <3>2, <3>3, <4>3, <4>4 DEF Current
      <4> QED  BY <2>1, <2>2, <3>2, <3>7, <4>1, <4>2, <4>5, NoHotIs DEF HotBoxInv
    <3>8. CASE hev.act = "remove" /\ d \notin nodes[c] /\ Concerned(c) /\ inside' = inside /\ nodes' = nodes
      <4>1. /\ box[c] = "running" /\ d \in Wanted(c) /\ nodes[c] = inside[c] /\ d \notin inside[c]
            /\ ctl[c] = ctlInside[c] /\ c \notin late
        BY <3>1, <3>8 DEF HotBoxInv, Concerned
      <4>2. ASSUME NEW S, NEW W, Current(c, S, W), d \notin S
            PROVE  S \subseteq W /\ \A e \in Parts : Queued(e) \/ (e \in S <=> e \in W /\ e \in plugged)
        BY <3>4, <3>5, <3>8, <4>2 DEF Current
      <4>3. hreq[c] = NoHot => Current(c, inside[c], Wanted(c))'
        <5> SUFFICES ASSUME hreq[c] = NoHot PROVE Current(c, inside[c], Wanted(c))'
          OBVIOUS
        <5>1. Current(c, inside[c], Wanted(c))  BY <3>1, <4>1 DEF HotBoxInv
        <5> QED  BY <3>2, <3>3, <3>8, <4>1, <4>2, <5>1 DEF Current
      <4>4. hreq[c].op = "add" => Adds(c)'
        <5> SUFFICES ASSUME hreq[c].op = "add" PROVE Adds(c)'
          OBVIOUS
        <5> PICK M : M = Matches(hreq[c].entry)  OBVIOUS
        <5>1. Adds(c)  BY <3>1 DEF HotBoxInv
        <5>2. /\ hreq[c].entry \in Entries /\ M \cap Wanted(c) = {}
          BY <5>1, WantedIs DEF Adds, HotInv, HotTypeInv
        <5>3. Current(c, inside[c] \ M, Wanted(c)) /\ Current(c, hreq[c].saw, M)  BY <5>1 DEF Adds
        <5>4. d \notin hreq[c].saw  BY <4>1, <5>2, <5>3 DEF Current
        <5>5. Current(c, inside[c] \ M, Wanted(c))'
          <6>1. PICK S, W : S = inside[c] \ M /\ W = Wanted(c)  OBVIOUS
          <6>2. S \subseteq W /\ \A e \in Parts : Queued(e) \/ (e \in S <=> e \in W /\ e \in plugged)
            BY <4>1, <4>2, <5>3, <6>1
          <6>3. Current(c, S, W)'  BY <3>2, <3>3, <6>2 DEF Current
          <6> QED  BY <3>2, <3>8, <6>1, <6>3
        <5>6. Current(c, hreq[c].saw, M)'
          <6>1. PICK S : S = hreq[c].saw  OBVIOUS
          <6>2. S \subseteq M /\ \A e \in Parts : Queued(e) \/ (e \in S <=> e \in M /\ e \in plugged)
            BY <4>2, <5>3, <5>4, <6>1
          <6>3. Current(c, S, M)'  BY <3>2, <3>3, <6>2 DEF Current
          <6> QED  BY <2>1, <6>1, <6>3
        <5> QED  BY <2>1, <2>2, <3>2, <3>8, <5>1, <5>5, <5>6 DEF Adds
      <4>5. hreq[c].op = "remove" => Removes(c)'
        <5> SUFFICES ASSUME hreq[c].op = "remove" PROVE Removes(c)'
          OBVIOUS
        <5> PICK M : M = Matches(hreq[c].entry)  OBVIOUS
        <5>1. Removes(c)  BY <3>1 DEF HotBoxInv
        <5>2. Current(c, inside[c] \ M, Wanted(c) \ M)  BY <5>1 DEF Removes
        <5>3. Current(c, inside[c] \ M, Wanted(c) \ M)'
          <6>1. PICK S, W : S = inside[c] \ M /\ W = Wanted(c) \ M  OBVIOUS
          <6>2. S \subseteq W /\ \A e \in Parts : Queued(e) \/ (e \in S <=> e \in W /\ e \in plugged)
            BY <4>1, <4>2, <5>2, <6>1
          <6>3. Current(c, S, W)'  BY <3>2, <3>3, <6>2 DEF Current
          <6> QED  BY <3>2, <3>8, <6>1, <6>3
        <5> QED  BY <2>1, <2>2, <3>2, <3>8, <5>1, <5>3 DEF Removes
      <4>6. hreq[c].op # "start"  BY <4>1 DEF HotInv, HotStopped
      <4> QED  BY <2>1, <2>2, <3>1, <3>2, <3>8, <4>1, <4>3, <4>4, <4>5, <4>6 DEF HotBoxInv
    <3>9. CASE HotMark(rest \cup {c}, {"skipped"})  BY <2>1, <3>9, MarksOf
    <3>10. CASE HotMark({c}, crossed)
      <4>1. crossed = {}  BY <2>1, <3>10, MarksOf
      <4> QED  BY <2>3, <3>6, <3>7, <3>8, <3>9, <4>1
    <3> QED  BY <2>3, <3>8, <3>9, <3>10
  <2> QED  BY <2>8, <2>10, <2>11, <2>12, <2>13 DEF HotInv
<1> QED  BY <1>1, <1>2, <1>3, <1>4, <1>5, <1>6, <1>7, <1>8, <1>9, <1>10, <1>11 DEF HotPlugNext

LEMMA HotInvInit == ASSUME HotPlugInit PROVE HotInv
<1>1. /\ hotKind \in {"usb", "gpu"} /\ plugged \subseteq Parts /\ uevents = <<>> /\ hev = NoEvent
      /\ devs = [c \in Boxes |-> {}] /\ box = [c \in Boxes |-> "stopped"]
      /\ nodes = [c \in Boxes |-> {}] /\ inside = [c \in Boxes |-> {}]
      /\ ctl = [c \in Boxes |-> FALSE] /\ ctlInside = [c \in Boxes |-> FALSE]
      /\ late = {} /\ hreq = [c \in Boxes |-> NoHot] /\ hotMarks = [c \in Boxes |-> {}]
  BY HotPlugAssumption DEF HotPlugInit
<1>2. HotTypeInv  BY <1>1, NoHotIs DEF HotTypeInv
<1>3. HotQueueInv  BY <1>1, NoHotIs DEF HotQueueInv
<1>4. ASSUME NEW c \in Boxes PROVE HotStopped(c) /\ HotBoxInv(c)
  BY <1>1, NoHotIs DEF HotStopped, HotBoxInv
<1> QED  BY <1>2, <1>3, <1>4 DEF HotInv

LEMMA ThereByInv == ASSUME HotInv PROVE DevicesThere
<1> SUFFICES ASSUME uevents = <<>>, hev = NoEvent, NEW c \in Boxes,
                    hreq[c] = NoHot, c \notin late, hotMarks[c] = {}
             PROVE  /\ inside[c] = (IF box[c] = "running" THEN Wanted(c) \cap plugged ELSE {})
                    /\ nodes[c] = inside[c] /\ ctl[c] = ctlInside[c]
                    /\ ctlInside[c] = (hotKind = "gpu" /\ inside[c] # {})
  BY DEF DevicesThere
<1>1. \A d : ~Waiting(c, d)  BY NoHotIs DEF Waiting, Queued
<1>2. /\ HotStopped(c) /\ HotBoxInv(c) /\ Wanted(c) \subseteq Parts
      /\ box[c] \in {"stopped", "running"} /\ ctl[c] \in BOOLEAN /\ ctlInside[c] \in BOOLEAN
  BY HotPlugAssumption DEF HotInv, HotTypeInv, Wanted
<1>3. CASE box[c] = "running"
  <2>1. Current(c, inside[c], Wanted(c))  BY <1>2, <1>3 DEF HotBoxInv
  <2>2. inside[c] = Wanted(c) \cap plugged  BY <1>1, <1>2, <2>1 DEF Current
  <2> QED  BY <1>2, <1>3, <2>2 DEF HotBoxInv
<1>4. CASE box[c] = "stopped"  BY <1>2, <1>4 DEF HotStopped, HotBoxInv
<1> QED  BY <1>2, <1>3, <1>4

-----------------------------------------------------------------------------
(* The network interface (Nics). *)

NicAsks == [job : Jobs \cup {"none"}, at : {"idle", "fill", "filter", "run", "create", "detach", "commit"},
            dev : BOOLEAN, copy : Nat, use : Nat]

\* Where the request of a job can be.
NicSteps(job) ==
  CASE job = "start" -> {"fill", "filter", "run"} [] job = "query" -> {"fill"} [] job = "add" -> {"fill", "create", "commit"}
    [] job = "remove" -> {"fill", "detach", "commit"} [] job = "update" -> {"commit"} [] OTHER -> {"idle"}

NicTypeInv ==
  /\ nicRow \in BOOLEAN /\ hwaddr \in Nat /\ nextMac \in Nat \ {0} /\ nicUp \in BOOLEAN /\ liveMac \in Nat
  /\ filters \subseteq Nat /\ nicStop \subseteq Nat /\ given \in Nat
  /\ nic \in [NicReqs -> NicAsks]
  /\ \A r \in NicReqs : /\ nic[r].at \in NicSteps(nic[r].job)
                        /\ nic[r].job = "none" => nic[r] = NoNic

\* A start has the container for itself: it does not run, and the cleanup
\* after the last stop is done.
NicTurnInv ==
  /\ nicUp => nicStop = {}
  /\ ~nicUp => liveMac = 0
  /\ \A r \in NicReqs : nic[r].job = "start" =>
       ~nicUp /\ nicStop = {} /\ \A q \in NicReqs : nic[q].job = "start" => q = r

\* What a request knows is still so: whether there is the device, and the
\* address that was recorded for it.
NicKnows(r) ==
  /\ nic[r].job \in {"start", "query", "update"} => nic[r].dev = nicRow
  /\ nic[r].job = "query" => nicRow
  /\ nic[r].job = "add" => ~nicRow
  /\ nic[r].job = "remove" => nicRow /\ (nic[r].at = "commit" => liveMac = 0)
  /\ nic[r].copy \in {0, hwaddr} /\ nic[r].use \in {0, hwaddr}
  /\ nic[r].use # 0 => nic[r].copy = nic[r].use
  /\ nic[r].at \in {"filter", "create", "detach"} => nic[r].use # 0
  /\ nic[r].job = "start" /\ nic[r].at # "run" => nic[r].dev
  /\ nic[r].at = "run" => (nic[r].use # 0 <=> nic[r].dev)

NicMacInv ==
  nicMarks \cap {"behind", "stale", "crossed", "half"} = {} =>
    /\ hwaddr = given /\ liveMac \in {0, given}
    /\ \A r \in NicReqs : NicKnows(r)

\* The interface is there between the update that adds it and the one that
\* removes it.
Committing(job) == \E r \in NicReqs : nic[r].job = job /\ nic[r].at = "commit"
Launching == \E r \in NicReqs : nic[r].at = "run" /\ nic[r].dev
Attached == IF nicRow THEN ~Committing("remove") ELSE Committing("add")

NicFilterInv ==
  nicMarks = {} =>
    /\ veths = 0
    /\ nicUp => IF Attached THEN hwaddr # 0 /\ liveMac = hwaddr /\ filters = {hwaddr}
                ELSE liveMac = 0 /\ filters = {}
    /\ ~nicUp => IF nicStop # {} THEN filters \subseteq nicStop
                 ELSE IF Launching THEN filters = {hwaddr}
                 ELSE filters = {}

NicInv == NicTypeInv /\ NicTurnInv /\ NicMacInv /\ NicFilterInv

LEMMA NoNicIs ==
  /\ NoNic \in NicAsks /\ NoNic.job = "none" /\ NoNic.at = "idle" /\ ~NoNic.dev /\ NoNic.copy = 0 /\ NoNic.use = 0
  /\ NoNic.at \in NicSteps(NoNic.job)
BY DEF NoNic, NicAsks, NicSteps

LEMMA NicStepsAre ==
  /\ NicSteps("start") = {"fill", "filter", "run"} /\ NicSteps("query") = {"fill"}
  /\ NicSteps("add") = {"fill", "create", "commit"} /\ NicSteps("remove") = {"fill", "detach", "commit"}
  /\ NicSteps("update") = {"commit"} /\ NicSteps("none") = {"idle"}
BY DEF NicSteps

\* The job of a request that is at a step.
LEMMA NicJobAt ==
  ASSUME NicTypeInv, NEW r \in NicReqs
  PROVE  /\ nic[r] \in NicAsks
         /\ nic[r].at \in {"filter", "run"} => nic[r].job = "start"
         /\ nic[r].at = "fill" => nic[r].job \in {"start", "query", "add", "remove"}
         /\ nic[r].at = "create" => nic[r].job = "add"
         /\ nic[r].at = "detach" => nic[r].job = "remove"
         /\ nic[r].at = "commit" => nic[r].job \in {"add", "remove", "update"}
         /\ nic[r] = NoNic <=> nic[r].job = "none"
<1>1. nic[r] \in NicAsks /\ nic[r].at \in NicSteps(nic[r].job) /\ (nic[r].job = "none" => nic[r] = NoNic)
  BY DEF NicTypeInv
<1>2. nic[r].job \in {"start", "query", "add", "remove", "update", "none"}  BY <1>1 DEF NicAsks, Jobs
<1> QED  BY <1>1, <1>2, NicStepsAre, NoNicIs

LEMMA NicMoves ==
  ASSUME NicTypeInv, NEW r \in NicReqs, NEW x \in NicAsks, nic' = [nic EXCEPT ![r] = x],
         x.at \in NicSteps(x.job), x.job = "none" => x = NoNic,
         nicRow' \in BOOLEAN, hwaddr' \in Nat, nextMac' \in Nat \ {0}, nicUp' \in BOOLEAN, liveMac' \in Nat,
         filters' \subseteq Nat, nicStop' \subseteq Nat, given' \in Nat
  PROVE  NicTypeInv' /\ nic'[r] = x /\ \A q \in NicReqs \ {r} : nic'[q] = nic[q]
<1>1. nic' \in [NicReqs -> NicAsks] /\ nic'[r] = x /\ \A q \in NicReqs \ {r} : nic'[q] = nic[q]
  BY DEF NicTypeInv
<1>2. ASSUME NEW q \in NicReqs
      PROVE  nic'[q].at \in NicSteps(nic'[q].job) /\ (nic'[q].job = "none" => nic'[q] = NoNic)
  BY <1>1 DEF NicTypeInv
<1> QED  BY <1>1, <1>2 DEF NicTypeInv

LEMMA NicKnowsStays ==
  ASSUME NEW q \in NicReqs, NicKnows(q), nic'[q] = nic[q], nicRow' = nicRow, hwaddr' = hwaddr \/ hwaddr = 0,
         liveMac' = liveMac \/ liveMac' = 0 \/ nic[q].job # "remove"
  PROVE  NicKnows(q)'
BY DEF NicKnows

LEMMA NicInvStutter == ASSUME NicInv, UNCHANGED nicVars PROVE NicInv'
BY DEF nicVars, NicInv, NicTypeInv, NicTurnInv, NicMacInv, NicKnows, NicFilterInv, Attached, Committing, Launching

LEMMA NicInvInit == ASSUME NicsInit PROVE NicInv
<1>1. NicTypeInv
  <2>1. /\ hwaddr = 0 /\ nextMac = 1 /\ liveMac = 0 /\ filters = {}
        /\ nicStop = {} /\ nic = [r \in NicReqs |-> NoNic] /\ given = 0
    BY DEF NicsInit
  <2>2. nic \in [NicReqs -> NicAsks] /\ \A r \in NicReqs : nic[r] = NoNic  BY <2>1, NoNicIs
  <2>3. \A r \in NicReqs : nic[r].at \in NicSteps(nic[r].job) /\ (nic[r].job = "none" => nic[r] = NoNic)
    BY <2>2, NoNicIs
  <2>4. nicRow \in BOOLEAN /\ nicUp \in BOOLEAN  BY DEF NicsInit
  <2> QED  BY <2>1, <2>2, <2>3, <2>4 DEF NicTypeInv
<1>2. NicTurnInv  BY NoNicIs DEF NicsInit, NicTurnInv
<1>3. NicMacInv
  <2> SUFFICES ASSUME NEW r \in NicReqs PROVE hwaddr = given /\ liveMac = 0 /\ NicKnows(r)
    BY DEF NicsInit, NicMacInv
  <2> QED  BY NoNicIs DEF NicsInit, NicKnows
<1>4. NicFilterInv  BY NoNicIs DEF NicsInit, NicFilterInv, Launching
<1> QED  BY <1>1, <1>2, <1>3, <1>4 DEF NicInv

LEMMA KeptByInv == ASSUME NicInv PROVE NicKept
<1>1. nicMarks \cap {"behind", "stale", "crossed", "half"} = {} => liveMac \in {0, given}
  BY DEF NicInv, NicMacInv
<1>2. ASSUME \A r \in NicReqs : nic[r] = NoNic, nicStop = {}, nicMarks = {}
      PROVE  /\ filters = (IF nicUp /\ nicRow THEN {hwaddr} ELSE {})
             /\ nicUp => liveMac = (IF nicRow THEN hwaddr ELSE 0)
             /\ veths = 0
  <2>1. ~Committing("add") /\ ~Committing("remove") /\ ~Launching
    BY <1>2, NoNicIs DEF Committing, Launching
  <2> QED  BY <1>2, <2>1 DEF NicInv, NicFilterInv, Attached, NicTypeInv
<1> QED  BY <1>1, <1>2 DEF NicKept

\* A request that is done, and what the others are about then.
LEMMA NicDoneIs ==
  ASSUME NicInv, NEW r \in NicReqs, NicDone(r)
  PROVE  /\ nic'[r] = NoNic /\ \A q \in NicReqs \ {r} : nic'[q] = nic[q]
         /\ NicKnows(r)'
         /\ nic' = [nic EXCEPT ![r] = NoNic]
<1>1. nic'[r] = NoNic /\ \A q \in NicReqs \ {r} : nic'[q] = nic[q]
  BY DEF NicDone, NicInv, NicTypeInv
<1> QED  BY <1>1, NoNicIs DEF NicKnows, NicDone

LEMMA CommittingStays ==
  ASSUME NEW r \in NicReqs, \A q \in NicReqs \ {r} : nic'[q] = nic[q], NEW job,
         nic[r].job = job /\ nic[r].at = "commit" <=> nic'[r].job = job /\ nic'[r].at = "commit"
  PROVE  Committing(job)' <=> Committing(job)
BY DEF Committing

LEMMA LaunchingStays ==
  ASSUME NEW r \in NicReqs, \A q \in NicReqs \ {r} : nic'[q] = nic[q],
         nic[r].at = "run" /\ nic[r].dev <=> nic'[r].at = "run" /\ nic'[r].dev
  PROVE  Launching' <=> Launching
BY DEF Launching

\* Only a start that is launching can be.
LEMMA LaunchingIs ==
  ASSUME NicInv, NEW r \in NicReqs, nic[r].job = "start"
  PROVE  Launching <=> nic[r].at = "run" /\ nic[r].dev
BY NicJobAt DEF Launching, NicInv, NicTurnInv

LEMMA FilterStays ==
  ASSUME NicInv, nicMarks' = {} => nicMarks = {}, nicMarks' = {} => veths' = veths,
         UNCHANGED <<nicUp, liveMac, filters, nicStop>>,
         hwaddr' = hwaddr \/ (hwaddr = 0 /\ (nicMarks = {} => ~Launching)),
         nicUp => (Attached' <=> Attached), ~nicUp => (Launching' <=> Launching)
  PROVE  NicFilterInv'
BY DEF NicInv, NicFilterInv

\* A request that ends and changes nothing the others know.
LEMMA NicLeaves ==
  ASSUME NicInv, NEW r \in NicReqs, NicDone(r), nic[r].job # "start",
         UNCHANGED <<nicRow, hwaddr, nextMac, nicUp, nicStop, given>>,
         liveMac' \in {0, liveMac}, filters' \subseteq Nat,
         nicMarks \subseteq nicMarks',
         nicMarks' = {} => /\ liveMac' = liveMac /\ filters' = filters /\ veths' = veths
                           /\ nicUp => nic[r].at # "commit" \/ nic[r].job = "update"
  PROVE  NicInv'
<1>0. NicTypeInv /\ NicTurnInv /\ NicMacInv /\ NicFilterInv  BY DEF NicInv
<1>1. /\ nic'[r] = NoNic /\ \A q \in NicReqs \ {r} : nic'[q] = nic[q]
      /\ NicKnows(r)' /\ nic' = [nic EXCEPT ![r] = NoNic]
  BY NicDoneIs
<1>2. NicTypeInv'
  <2>1. /\ nicRow' \in BOOLEAN /\ hwaddr' \in Nat /\ nextMac' \in Nat \ {0} /\ nicUp' \in BOOLEAN
        /\ liveMac' \in Nat /\ filters' \subseteq Nat /\ nicStop' \subseteq Nat /\ given' \in Nat
    BY <1>0 DEF NicTypeInv
  <2> QED  BY <1>0, <1>1, <2>1, NoNicIs, NicMoves
<1>3. NicTurnInv'
  <2>1. ~nicUp => liveMac' = 0  BY <1>0 DEF NicTurnInv
  <2> QED  BY <1>0, <1>1, <2>1, NoNicIs DEF NicTurnInv
<1>4. NicMacInv'
  <2> SUFFICES ASSUME nicMarks' \cap {"behind", "stale", "crossed", "half"} = {}
               PROVE  hwaddr' = given' /\ liveMac' \in {0, given'} /\ \A q \in NicReqs : NicKnows(q)'
    BY DEF NicMacInv
  <2>1. nicMarks \cap {"behind", "stale", "crossed", "half"} = {}  OBVIOUS
  <2>2. \A q \in NicReqs \ {r} : NicKnows(q)'
    BY <1>0, <1>1, <2>1, NicKnowsStays DEF NicMacInv
  <2> QED  BY <1>0, <1>1, <2>1, <2>2 DEF NicMacInv
<1>5. NicFilterInv'
  <2> SUFFICES ASSUME nicMarks' = {} PROVE NicFilterInv'
    BY DEF NicFilterInv
  <2>1. Launching' <=> Launching
    <3>1. nic[r].at # "run"  BY <1>0, NicJobAt
    <3> QED  BY <1>1, <3>1, NoNicIs, LaunchingStays
  <2>2. nicUp => \A j \in {"add", "remove"} : Committing(j)' <=> Committing(j)
    <3> SUFFICES ASSUME nicUp, NEW j \in {"add", "remove"} PROVE Committing(j)' <=> Committing(j)
      OBVIOUS
    <3>1. ~(nic[r].job = j /\ nic[r].at = "commit") /\ ~(nic'[r].job = j /\ nic'[r].at = "commit")
      BY <1>1, NoNicIs
    <3> QED  BY <1>1, <3>1, CommittingStays
  <2>3. nicUp => (Attached' <=> Attached)  BY <2>2 DEF Attached
  <2> QED  BY <2>1, <2>3, FilterStays
<1> QED  BY <1>2, <1>3, <1>4, <1>5 DEF NicInv

\* A live update that has changed the interface.
LEMMA NicLive ==
  ASSUME NicInv, NEW r \in NicReqs, NEW d \in BOOLEAN,
         nic[r].at = "create" \/ nic[r].at = "detach",
         nic' = [nic EXCEPT ![r].at = "commit", ![r].dev = d], nicUp,
         UNCHANGED <<nicRow, hwaddr, nextMac, nicUp, veths, nicStop, given, nicMarks>>,
         liveMac' \in Nat, filters' \subseteq Nat,
         nicMarks \cap {"behind", "stale", "crossed", "half"} = {} =>
           IF nic[r].job = "add" THEN liveMac' = hwaddr ELSE liveMac' = 0,
         nicMarks = {} => filters' = (IF nic[r].job = "add" THEN {hwaddr} ELSE {})
  PROVE  NicInv'
<1>0. NicTypeInv /\ NicTurnInv /\ NicMacInv /\ NicFilterInv  BY DEF NicInv
<1>1. nic[r] \in NicAsks /\ nic[r].job \in {"add", "remove"} /\ nic[r].at # "commit" /\ nic[r].at # "run"
  BY <1>0, NicJobAt
<1>2. PICK x : x = [nic[r] EXCEPT !.at = "commit", !.dev = d]  OBVIOUS
<1>3. /\ x \in NicAsks /\ x.at = "commit" /\ x.job = nic[r].job /\ x.copy = nic[r].copy
      /\ x.use = nic[r].use /\ nic' = [nic EXCEPT ![r] = x]
  BY <1>0, <1>1, <1>2 DEF NicAsks, NicTypeInv
<1>4. NicTypeInv' /\ nic'[r] = x /\ \A q \in NicReqs \ {r} : nic'[q] = nic[q]
  <2>1. /\ nicRow' \in BOOLEAN /\ hwaddr' \in Nat /\ nextMac' \in Nat \ {0} /\ nicUp' \in BOOLEAN
        /\ liveMac' \in Nat /\ nicStop' \subseteq Nat /\ given' \in Nat
    BY <1>0 DEF NicTypeInv
  <2>2. x.at \in NicSteps(x.job) /\ (x.job = "none" => x = NoNic)  BY <1>1, <1>3, NicStepsAre
  <2> QED  BY <1>0, <1>3, <2>1, <2>2, NicMoves
<1>5. NicTurnInv'  BY <1>0, <1>1, <1>3, <1>4 DEF NicTurnInv
<1>6. NicMacInv'
  <2> SUFFICES ASSUME nicMarks \cap {"behind", "stale", "crossed", "half"} = {}
               PROVE  hwaddr = given /\ liveMac' \in {0, given} /\ \A q \in NicReqs : NicKnows(q)'
    BY DEF NicMacInv
  <2>1. hwaddr = given /\ \A q \in NicReqs : NicKnows(q)  BY <1>0 DEF NicMacInv
  <2>2. NicKnows(r)'
    <3>1. /\ nic'[r].job = nic[r].job /\ nic'[r].at = "commit" /\ nic'[r].copy = nic[r].copy /\ nic'[r].use = nic[r].use
      BY <1>3, <1>4
    <3> QED  BY <1>1, <2>1, <3>1 DEF NicKnows
  <2>3. ASSUME NEW q \in NicReqs \ {r} PROVE NicKnows(q)'
    <3>1. liveMac' = 0 \/ nic[q].job # "remove"  BY <1>1, <2>1 DEF NicKnows
    <3> QED  BY <1>4, <2>1, <3>1, NicKnowsStays
  <2> QED  BY <1>1, <2>1, <2>2, <2>3
<1>7. NicFilterInv'
  <2> SUFFICES ASSUME nicMarks = {} PROVE veths = 0 /\ IF Attached' THEN hwaddr # 0 /\ liveMac' = hwaddr /\ filters' = {hwaddr}
                                                     ELSE liveMac' = 0 /\ filters' = {}
    BY DEF NicFilterInv
  <2>1. \A j : j = nic[r].job => Committing(j)'  BY <1>3, <1>4 DEF Committing
  <2>2. NicKnows(r)  BY <1>0 DEF NicMacInv
  <2>3. CASE nic[r].job = "add"
    <3>1. nicRow' = nicRow /\ ~nicRow /\ hwaddr # 0  BY <2>2, <2>3 DEF NicKnows
    <3>2. Committing("add")'  BY <2>1, <2>3
    <3>3. Attached'  BY <3>1, <3>2 DEF Attached
    <3> QED  BY <1>0, <2>3, <3>1, <3>3 DEF NicFilterInv
  <2>4. CASE nic[r].job = "remove"
    <3>1. nicRow' = nicRow /\ nicRow  BY <2>2, <2>4 DEF NicKnows
    <3>2. Committing("remove")'  BY <2>1, <2>4
    <3>3. ~Attached'  BY <3>1, <3>2 DEF Attached
    <3> QED  BY <1>0, <2>4, <3>3 DEF NicFilterInv
  <2> QED  BY <1>1, <2>3, <2>4
<1> QED  BY <1>4, <1>5, <1>6, <1>7 DEF NicInv

LEMMA NicInvNext == ASSUME NicInv, NicsNext PROVE NicInv'
<1> DEFINE Bad == {"behind", "stale", "crossed", "half"}
<1>0. NicTypeInv /\ NicTurnInv /\ NicMacInv /\ NicFilterInv  BY DEF NicInv
<1>1. ASSUME NEW r \in NicReqs, NEW job \in Jobs, LoadNic(r, job) PROVE NicInv'
  <2> PICK at : at = CASE job = "start" -> IF nicRow THEN "fill" ELSE "run"
                       [] job = "query" -> "fill"
                       [] job = "update" -> "commit"
                       [] OTHER -> IF nicUp THEN "fill" ELSE "commit"
    OBVIOUS
  <2> PICK x : x = [job |-> job, dev |-> nicRow, copy |-> hwaddr, use |-> 0, at |-> at]  OBVIOUS
  <2>1. /\ nic[r] = NoNic /\ nic' = [nic EXCEPT ![r] = x]
        /\ job = "start" => ~nicUp /\ nicStop = {} /\ \A q \in NicReqs : nic[q].job # "start"
        /\ (job = "query" => nicUp /\ nicRow) /\ (job = "add" => ~nicRow) /\ (job = "remove" => nicRow)
        /\ UNCHANGED <<nicRow, hwaddr, nextMac, nicUp, liveMac, veths, filters, nicStop, given, nicMarks>>
    BY <1>1 DEF LoadNic
  <2>2. /\ job = "start" => at = IF nicRow THEN "fill" ELSE "run"
        /\ job = "query" => at = "fill"
        /\ job = "update" => at = "commit"
        /\ job \in {"add", "remove"} => at = IF nicUp THEN "fill" ELSE "commit"
        /\ job \in {"start", "query", "add", "remove", "update"}
    BY DEF Jobs
  <2>3. x \in NicAsks /\ x.at \in NicSteps(x.job) /\ x.job # "none"
    <3>1. at \in NicSteps(job)  BY <2>2, NicStepsAre
    <3>2. at \in {"fill", "run", "commit"}  BY <2>2
    <3> QED  BY <1>0, <2>2, <3>1, <3>2 DEF NicAsks, NicTypeInv
  <2>4. NicTypeInv' /\ nic'[r] = x /\ \A q \in NicReqs \ {r} : nic'[q] = nic[q]
    <3>1. /\ nicRow' \in BOOLEAN /\ hwaddr' \in Nat /\ nextMac' \in Nat \ {0} /\ nicUp' \in BOOLEAN
          /\ liveMac' \in Nat /\ filters' \subseteq Nat /\ nicStop' \subseteq Nat /\ given' \in Nat
      BY <1>0, <2>1 DEF NicTypeInv
    <3> QED  BY <1>0, <2>1, <2>3, <3>1, NicMoves
  <2>5. NicTurnInv'  BY <1>0, <2>1, <2>4 DEF NicTurnInv
  <2>6. NicMacInv'
    <3> SUFFICES ASSUME nicMarks \cap Bad = {} PROVE hwaddr = given /\ liveMac \in {0, given} /\ \A q \in NicReqs : NicKnows(q)'
      BY <2>1 DEF NicMacInv
    <3>1. NicKnows(r)'
      <4>1. job = "remove" /\ at = "commit" => liveMac = 0  BY <1>0, <2>2 DEF NicTurnInv
      <4>2. nic'[r].job = job /\ nic'[r].dev = nicRow /\ nic'[r].copy = hwaddr /\ nic'[r].use = 0 /\ nic'[r].at = at
        BY <2>4
      <4>3. at \in {"fill", "run", "commit"} /\ (at = "run" => ~nicRow) /\ (job = "start" /\ at # "run" => nicRow)
        BY <2>2
      <4> QED  BY <2>1, <4>1, <4>2, <4>3 DEF NicKnows
    <3>2. \A q \in NicReqs \ {r} : NicKnows(q)'
      BY <1>0, <2>1, <2>4, NicKnowsStays DEF NicMacInv
    <3> QED  BY <1>0, <3>1, <3>2 DEF NicMacInv
  <2>7. NicFilterInv'
    <3>1. Launching' <=> Launching
      <4>1. ~(nic[r].at = "run" /\ nic[r].dev) /\ ~(nic'[r].at = "run" /\ nic'[r].dev)
        BY <2>1, <2>2, <2>4, NoNicIs
      <4> QED  BY <2>4, <4>1, LaunchingStays
    <3>2. nicUp => \A j \in {"add", "remove"} : Committing(j)' <=> Committing(j)
      <4> SUFFICES ASSUME nicUp, NEW j \in {"add", "remove"} PROVE Committing(j)' <=> Committing(j)
        OBVIOUS
      <4>1. ~(nic[r].job = j /\ nic[r].at = "commit") /\ ~(nic'[r].job = j /\ nic'[r].at = "commit")
        BY <2>1, <2>2, <2>4, NoNicIs
      <4> QED  BY <2>4, <4>1, CommittingStays
    <3>3. nicUp => (Attached' <=> Attached)  BY <2>1, <3>2 DEF Attached
    <3> QED  BY <2>1, <3>1, <3>3, FilterStays
  <2> QED  BY <2>4, <2>5, <2>6, <2>7 DEF NicInv
<1>2. ASSUME NEW r \in NicReqs, fillNetworkDevice(r) PROVE NicInv'
  <2> PICK next : next = [start |-> "filter", query |-> "idle", add |-> "create", remove |-> "detach"][nic[r].job]
    OBVIOUS
  <2> DEFINE goes(copy, use) == nic' = [nic EXCEPT ![r] = IF next = "idle" THEN NoNic
                                        ELSE [@ EXCEPT !.at = next, !.copy = copy, !.use = use]]
  <2>1. PICK u, v :
          /\ goes(u, v) /\ nic[r].at = "fill"
          /\ UNCHANGED <<nicRow, nicUp, liveMac, veths, filters, nicStop>> /\ nextMac' \in Nat \ {0}
          /\ \/ /\ nic[r].copy # 0 /\ u = nic[r].copy /\ v = u /\ UNCHANGED <<hwaddr, given, nicMarks>>
             \/ /\ hwaddr = 0 /\ u = nextMac /\ v = u
                /\ hwaddr' = u /\ given' = (IF given = 0 THEN u ELSE given) /\ UNCHANGED nicMarks
             \/ u = hwaddr /\ v = nextMac /\ "behind" \in nicMarks' /\ UNCHANGED <<hwaddr, given>>
    <3>1. nextMac' \in Nat \ {0}  BY <1>0, <1>2 DEF fillNetworkDevice, NicTypeInv
    <3>2. CASE nic[r].copy # 0  BY <1>2, <3>1, <3>2 DEF fillNetworkDevice
    <3>3. CASE nic[r].copy = 0 /\ hwaddr = 0  BY <1>2, <3>1, <3>3 DEF fillNetworkDevice
    <3>4. CASE nic[r].copy = 0 /\ hwaddr # 0  BY <1>2, <3>1, <3>4 DEF fillNetworkDevice, NicMark
    <3> QED  BY <3>2, <3>3, <3>4
  <2>2. nic[r] \in NicAsks /\ nic[r].job \in {"start", "query", "add", "remove"}  BY <1>0, <2>1, NicJobAt
  <2>3. /\ nic[r].job = "start" => next = "filter"
        /\ nic[r].job = "query" => next = "idle"
        /\ nic[r].job = "add" => next = "create"
        /\ nic[r].job = "remove" => next = "detach"
    OBVIOUS
  <2>4. u \in Nat /\ v \in Nat /\ hwaddr' \in Nat /\ given' \in Nat
    BY <1>0, <2>1, <2>2 DEF NicTypeInv, NicAsks
  <2>5. PICK x : x = IF next = "idle" THEN NoNic ELSE [nic[r] EXCEPT !.at = next, !.copy = u, !.use = v]  OBVIOUS
  <2>6. /\ x \in NicAsks /\ x.at = next
        /\ next = "idle" => x = NoNic
        /\ next # "idle" => x.job = nic[r].job /\ x.dev = nic[r].dev /\ x.copy = u /\ x.use = v
    <3>1. CASE next = "idle"  BY <2>5, <3>1, NoNicIs
    <3>2. CASE next # "idle"
      <4>1. next \in {"filter", "create", "detach"}  BY <2>2, <2>3, <3>2
      <4> QED  BY <2>2, <2>4, <2>5, <3>2, <4>1 DEF NicAsks
    <3> QED  BY <3>1, <3>2
  <2>7. x.at \in NicSteps(x.job) /\ (x.job = "none" => x = NoNic)
    BY <2>2, <2>3, <2>6, NicStepsAre, NoNicIs
  <2>8. nic' = [nic EXCEPT ![r] = x]  BY <1>0, <2>1, <2>5 DEF NicTypeInv
  <2> HIDE DEF goes
  <2>9. NicTypeInv' /\ nic'[r] = x /\ \A q \in NicReqs \ {r} : nic'[q] = nic[q]
    <3>1. /\ nicRow' \in BOOLEAN /\ nicUp' \in BOOLEAN
          /\ liveMac' \in Nat /\ filters' \subseteq Nat /\ nicStop' \subseteq Nat
      BY <1>0, <2>1 DEF NicTypeInv
    <3> QED  BY <1>0, <2>1, <2>4, <2>6, <2>7, <2>8, <3>1, NicMoves
  <2>10. NicTurnInv'
    <3>1. x.job = "start" => nic[r].job = "start"  BY <2>6, NoNicIs
    <3> QED  BY <1>0, <2>1, <2>9, <3>1 DEF NicTurnInv
  <2>11. NicMacInv'
    <3> SUFFICES ASSUME nicMarks' \cap Bad = {}
                 PROVE  hwaddr' = given' /\ liveMac' \in {0, given'} /\ \A q \in NicReqs : NicKnows(q)'
      BY DEF NicMacInv
    <3>1. /\ nicMarks' = nicMarks
          /\ \/ nic[r].copy # 0 /\ u = nic[r].copy /\ v = u /\ hwaddr' = hwaddr /\ given' = given
             \/ /\ hwaddr = 0 /\ u = nextMac /\ v = u
                /\ hwaddr' = u /\ given' = IF given = 0 THEN u ELSE given
      BY <2>1
    <3>2. hwaddr = given /\ liveMac \in {0, given} /\ \A q \in NicReqs : NicKnows(q)
      BY <1>0, <3>1 DEF NicMacInv
    <3>3. hwaddr' = given' /\ liveMac' \in {0, given'} /\ u = hwaddr' /\ u # 0
      BY <1>0, <2>1, <3>1, <3>2 DEF NicKnows, NicTypeInv
    <3>4. NicKnows(r)'
      <4>1. CASE next = "idle"  BY <2>6, <2>9, <4>1, NoNicIs DEF NicKnows
      <4>2. CASE next # "idle"
        <5>1. /\ nic'[r].job = nic[r].job /\ nic'[r].dev = nic[r].dev /\ nic'[r].copy = u /\ nic'[r].use = u
              /\ nic'[r].at = next /\ next \in {"filter", "create", "detach"}
          BY <2>2, <2>3, <2>6, <2>9, <3>1, <4>2
        <5>2. next = "filter" => nic[r].dev
          <6>1. next = "filter" => nic[r].job = "start"  BY <2>2, <2>3
          <6> QED  BY <2>1, <3>2, <6>1 DEF NicKnows
        <5> QED  BY <2>1, <3>2, <3>3, <5>1, <5>2 DEF NicKnows
      <4> QED  BY <4>1, <4>2
    <3>5. \A q \in NicReqs \ {r} : NicKnows(q)'
      BY <2>1, <2>9, <3>1, <3>2, NicKnowsStays
    <3> QED  BY <3>3, <3>4, <3>5
  <2>12. NicFilterInv'
    <3>1. Launching' <=> Launching
      <4>1. nic[r].at # "run" /\ nic'[r].at # "run"
        BY <2>1, <2>2, <2>3, <2>6, <2>9
      <4> QED  BY <2>9, <4>1, LaunchingStays
    <3>2. \A j \in {"add", "remove"} : Committing(j)' <=> Committing(j)
      <4>1. nic[r].at # "commit" /\ nic'[r].at # "commit"
        BY <2>1, <2>2, <2>3, <2>6, <2>9
      <4> QED  BY <2>9, <4>1, CommittingStays
    <3>3. Attached' <=> Attached  BY <2>1, <3>2 DEF Attached
    <3>4. nicMarks = {} /\ hwaddr = 0 => ~Launching
      BY <1>0 DEF NicMacInv, NicKnows, Launching
    <3>5. (nicMarks' = {} => nicMarks = {}) /\ (hwaddr' = hwaddr \/ hwaddr = 0)  BY <2>1
    <3> QED  BY <2>1, <3>1, <3>3, <3>4, <3>5, FilterStays
  <2> QED  BY <2>9, <2>10, <2>11, <2>12 DEF NicInv
<1>3. ASSUME NEW r \in NicReqs, StartFilter(r) PROVE NicInv'
  <2>1. nic[r].at = "filter" /\ UNCHANGED <<nicRow, hwaddr, nextMac, nicUp, liveMac, veths, nicStop, given, nicMarks>>
    BY <1>3 DEF StartFilter
  <2>2. nic[r] \in NicAsks /\ nic[r].job = "start" /\ ~nicUp /\ nicStop = {}
    BY <1>0, <2>1, NicJobAt DEF NicTurnInv
  <2>3. CASE nic[r].use = nic[r].copy /\ filters' = {nic[r].copy} /\ nic' = [nic EXCEPT ![r].at = "run"]
    <3> PICK x : x = [nic[r] EXCEPT !.at = "run"]  OBVIOUS
    <3>1. /\ x \in NicAsks /\ x.at = "run" /\ x.job = "start" /\ x.dev = nic[r].dev /\ x.copy = nic[r].copy
          /\ x.use = nic[r].use /\ nic' = [nic EXCEPT ![r] = x]
      BY <1>0, <2>2, <2>3 DEF NicAsks, NicTypeInv
    <3>2. NicTypeInv' /\ nic'[r] = x /\ \A q \in NicReqs \ {r} : nic'[q] = nic[q]
      <4>1. /\ nicRow' \in BOOLEAN /\ hwaddr' \in Nat /\ nextMac' \in Nat \ {0} /\ nicUp' \in BOOLEAN
            /\ liveMac' \in Nat /\ nicStop' \subseteq Nat /\ given' \in Nat
        BY <1>0, <2>1 DEF NicTypeInv
      <4>2. filters' \subseteq Nat  BY <2>2, <2>3 DEF NicAsks
      <4>3. x.at \in NicSteps(x.job) /\ (x.job = "none" => x = NoNic)  BY <3>1, NicStepsAre
      <4> QED  BY <1>0, <3>1, <4>1, <4>2, <4>3, NicMoves
    <3>3. NicTurnInv'  BY <1>0, <2>1, <2>2, <3>1, <3>2 DEF NicTurnInv
    <3>4. nicMarks \cap Bad = {} => NicKnows(r) /\ NicKnows(r)'
      <4>1. nicMarks \cap Bad = {} => NicKnows(r)  BY <1>0 DEF NicMacInv
      <4> QED  BY <2>1, <2>2, <3>1, <3>2, <4>1 DEF NicKnows
    <3>5. NicMacInv'
      <4>1. nicMarks \cap Bad = {} => \A q \in NicReqs \ {r} : NicKnows(q)'
        BY <1>0, <2>1, <3>2, NicKnowsStays DEF NicMacInv
      <4> QED  BY <1>0, <2>1, <3>4, <4>1 DEF NicMacInv
    <3>6. NicFilterInv'
      <4> SUFFICES ASSUME nicMarks = {} PROVE veths = 0 /\ Launching' /\ filters' = {hwaddr}
        BY <2>1, <2>2 DEF NicFilterInv
      <4>1. nic[r].use # 0 /\ nic[r].use = hwaddr /\ nic[r].dev  BY <2>1, <2>2, <3>4 DEF NicKnows
      <4> QED  BY <1>0, <2>3, <3>1, <3>2, <4>1 DEF NicFilterInv, Launching
    <3> QED  BY <3>2, <3>3, <3>5, <3>6 DEF NicInv
  <2>4. CASE filters' = {} /\ NicDone(r)
    <3>1. /\ nic'[r] = NoNic /\ \A q \in NicReqs \ {r} : nic'[q] = nic[q]
          /\ NicKnows(r)' /\ nic' = [nic EXCEPT ![r] = NoNic]
      BY <2>4, NicDoneIs
    <3>2. NicTypeInv'
      <4>1. /\ nicRow' \in BOOLEAN /\ hwaddr' \in Nat /\ nextMac' \in Nat \ {0} /\ nicUp' \in BOOLEAN
            /\ liveMac' \in Nat /\ filters' \subseteq Nat /\ nicStop' \subseteq Nat /\ given' \in Nat
        BY <1>0, <2>1, <2>4 DEF NicTypeInv
      <4> QED  BY <1>0, <3>1, <4>1, NoNicIs, NicMoves
    <3>3. NicTurnInv'  BY <1>0, <2>1, <3>1, NoNicIs DEF NicTurnInv
    <3>4. NicMacInv'
      <4>1. nicMarks \cap Bad = {} => \A q \in NicReqs \ {r} : NicKnows(q)'
        BY <1>0, <2>1, <3>1, NicKnowsStays DEF NicMacInv
      <4> QED  BY <1>0, <2>1, <3>1, <4>1 DEF NicMacInv
    <3>5. ~Launching'
      <4>1. \A q \in NicReqs \ {r} : nic[q].at # "run"  BY <1>0, <2>2, NicJobAt DEF NicTurnInv
      <4> QED  BY <3>1, <4>1, NoNicIs DEF Launching
    <3>6. NicFilterInv'  BY <1>0, <2>1, <2>2, <2>4, <3>5 DEF NicFilterInv
    <3> QED  BY <3>2, <3>3, <3>4, <3>6 DEF NicInv
  <2> QED  BY <1>3, <2>3, <2>4 DEF StartFilter
<1>4. ASSUME NEW r \in NicReqs, StartRunsNic(r) PROVE NicInv'
  <2>1. nic[r].at = "run" /\ NicDone(r) /\ UNCHANGED <<nicRow, hwaddr, nextMac, veths, filters, nicStop, given>>
    BY <1>4 DEF StartRunsNic
  <2>2. nic[r] \in NicAsks /\ nic[r].job = "start" /\ ~nicUp /\ nicStop = {}
    BY <1>0, <2>1, NicJobAt DEF NicTurnInv
  <2>3. /\ nic'[r] = NoNic /\ \A q \in NicReqs \ {r} : nic'[q] = nic[q]
        /\ NicKnows(r)' /\ nic' = [nic EXCEPT ![r] = NoNic]
    BY <2>1, NicDoneIs
  <2>4. /\ nicMarks' \cap Bad = {} => nicMarks \cap Bad = {}
        /\ \/ nicUp' = TRUE /\ liveMac' = nic[r].use /\ nicMarks' = nicMarks \cup Crossed
           \/ "leftover" \in nicMarks' /\ UNCHANGED <<nicUp, liveMac>>
    BY <1>4 DEF StartRunsNic, NicMark
  <2>5. NicTypeInv'
    <3>1. /\ nicRow' \in BOOLEAN /\ hwaddr' \in Nat /\ nextMac' \in Nat \ {0} /\ nicUp' \in BOOLEAN
          /\ liveMac' \in Nat /\ filters' \subseteq Nat /\ nicStop' \subseteq Nat /\ given' \in Nat
      BY <1>0, <2>1, <2>2, <2>4 DEF NicTypeInv, NicAsks
    <3> QED  BY <1>0, <2>3, <3>1, NoNicIs, NicMoves
  <2>6. NicTurnInv'
    <3>1. \A q \in NicReqs : nic'[q].job # "start"  BY <1>0, <2>2, <2>3, NoNicIs DEF NicTurnInv
    <3> QED  BY <1>0, <2>1, <2>2, <2>4, <3>1 DEF NicTurnInv
  <2>7. "crossed" \notin nicMarks' => liveMac' = liveMac \/ \A q \in NicReqs : nic[q].job \notin {"add", "remove"}
    BY <2>4 DEF Crossed
  <2>8. NicMacInv'
    <3> SUFFICES ASSUME nicMarks' \cap Bad = {}
                 PROVE  hwaddr' = given' /\ liveMac' \in {0, given'} /\ \A q \in NicReqs : NicKnows(q)'
      BY DEF NicMacInv
    <3>1. hwaddr = given /\ liveMac \in {0, given} /\ \A q \in NicReqs : NicKnows(q)
      BY <1>0, <2>4 DEF NicMacInv
    <3>2. liveMac' \in {0, given}  BY <2>4, <3>1 DEF NicKnows
    <3>3. \A q \in NicReqs \ {r} : NicKnows(q)'
      BY <2>1, <2>3, <2>7, <3>1, NicKnowsStays
    <3> QED  BY <2>1, <2>3, <3>1, <3>2, <3>3
  <2>9. NicFilterInv'
    <3> SUFFICES ASSUME nicMarks' = {} PROVE NicFilterInv'
      BY DEF NicFilterInv
    <3>1. nicMarks = {} /\ nicUp' = TRUE /\ liveMac' = nic[r].use /\ Crossed = {}  BY <2>4
    <3>2. \A q \in NicReqs : nic[q].job \notin {"add", "remove"}  BY <3>1 DEF Crossed
    <3>3. ~Committing("add")' /\ ~Committing("remove")'  BY <2>3, <3>2, NoNicIs DEF Committing
    <3>4. Attached' <=> nicRow  BY <2>1, <3>3 DEF Attached
    <3>5. NicKnows(r) /\ veths = 0 /\ filters = IF nic[r].dev THEN {hwaddr} ELSE {}
      BY <1>0, <2>1, <2>2, <3>1, LaunchingIs DEF NicMacInv, NicFilterInv
    <3>6. nic[r].dev = nicRow /\ (nicRow => liveMac' = hwaddr /\ hwaddr # 0) /\ (~nicRow => liveMac' = 0)
      BY <2>1, <2>2, <3>1, <3>5 DEF NicKnows
    <3> QED  BY <2>1, <3>1, <3>4, <3>5, <3>6 DEF NicFilterInv
  <2> QED  BY <2>5, <2>6, <2>8, <2>9 DEF NicInv
<1>5. CASE NicStops
  <2>1. /\ nicUp /\ nicUp' = FALSE /\ liveMac' = 0 /\ nicStop' = {IF nicRow THEN hwaddr ELSE 0}
        /\ nicMarks' = nicMarks \cup Crossed
        /\ UNCHANGED <<nicRow, hwaddr, nextMac, veths, filters, nic, given>>
    BY <1>5 DEF NicStops, NicMark
  <2>2. NicTypeInv'
    <3>1. nicStop' \subseteq Nat /\ liveMac' \in Nat  BY <1>0, <2>1 DEF NicTypeInv
    <3>2. nicUp' \in BOOLEAN  BY <2>1
    <3> QED  BY <1>0, <2>1, <3>1, <3>2 DEF NicTypeInv
  <2>3. NicTurnInv'  BY <1>0, <2>1 DEF NicTurnInv
  <2>4. NicMacInv'
    <3>1. \A q \in NicReqs : NicKnows(q) => NicKnows(q)'  BY <2>1, NicKnowsStays
    <3> QED  BY <1>0, <2>1, <3>1 DEF NicMacInv
  <2>5. NicFilterInv'
    <3> SUFFICES ASSUME nicMarks' = {} PROVE veths = 0 /\ filters \subseteq nicStop'
      BY <2>1 DEF NicFilterInv
    <3>1. nicMarks = {} /\ ~Committing("add") /\ ~Committing("remove")  BY <2>1 DEF Crossed, Committing
    <3> QED  BY <1>0, <2>1, <3>1 DEF NicFilterInv, Attached
  <2> QED  BY <2>2, <2>3, <2>4, <2>5 DEF NicInv
<1>6. CASE removeNetworkFilters
  <2>1. /\ nicStop # {} /\ nicStop' = {} /\ filters' = filters \ nicStop /\ ~nicUp
        /\ UNCHANGED <<nicRow, hwaddr, nextMac, nicUp, liveMac, veths, nic, given, nicMarks>>
    BY <1>0, <1>6 DEF removeNetworkFilters, NicTurnInv
  <2>2. NicTypeInv'  BY <1>0, <2>1 DEF NicTypeInv
  <2>3. NicTurnInv'  BY <1>0, <2>1 DEF NicTurnInv
  <2>4. NicMacInv'
    <3>1. \A q \in NicReqs : NicKnows(q) => NicKnows(q)'  BY <2>1, NicKnowsStays
    <3> QED  BY <1>0, <2>1, <3>1 DEF NicMacInv
  <2>5. NicFilterInv'
    <3>1. ~Launching'  BY <1>0, <2>1, NicJobAt DEF Launching, NicTurnInv
    <3> QED  BY <1>0, <2>1, <3>1 DEF NicFilterInv
  <2> QED  BY <2>2, <2>3, <2>4, <2>5 DEF NicInv
<1>7. ASSUME NEW r \in NicReqs, createNetworkDevice(r) PROVE NicInv'
  <2>1. nic[r].at = "create" /\ UNCHANGED <<nicRow, hwaddr, nextMac, nicUp, nicStop, given>>
    BY <1>7 DEF createNetworkDevice
  <2>2. nic[r] \in NicAsks /\ nic[r].job = "add"  BY <1>0, <2>1, NicJobAt
  <2>3. CASE /\ nicUp /\ liveMac = 0 /\ liveMac' = nic[r].use /\ filters' = filters \cup {nic[r].use}
             /\ nic' = [nic EXCEPT ![r].at = "commit", ![r].dev = TRUE] /\ UNCHANGED <<veths, nicMarks>>
    <3>1. liveMac' \in Nat /\ filters' \subseteq Nat  BY <1>0, <2>2, <2>3 DEF NicAsks, NicTypeInv
    <3>2. nicMarks \cap Bad = {} => nic[r].use # 0 /\ nic[r].use = hwaddr /\ ~nicRow
      BY <1>0, <2>1, <2>2 DEF NicMacInv, NicKnows
    <3>3. nicMarks = {} => filters = {}  BY <1>0, <2>3, <3>2 DEF NicFilterInv, Attached
    <3>4. nicMarks = {} => filters' = {hwaddr}  BY <2>3, <3>2, <3>3
    <3> QED  BY <2>1, <2>2, <2>3, <3>1, <3>2, <3>4, NicLive
  <2>4. CASE /\ NicDone(r) /\ UNCHANGED liveMac /\ filters' \subseteq filters \cup {nic[r].use}
             /\ \/ UNCHANGED <<veths, filters, nicMarks>>
                \/ nicMarks' = nicMarks \cup {"leftover"}
    <3>1. filters' \subseteq Nat  BY <1>0, <2>2, <2>4 DEF NicAsks, NicTypeInv
    <3>2. nicMarks \subseteq nicMarks' /\ (nicMarks' = {} => veths' = veths /\ filters' = filters)  BY <2>4
    <3> QED  BY <2>1, <2>2, <2>4, <3>1, <3>2, NicLeaves
  <2> QED  BY <1>7, <2>3, <2>4 DEF createNetworkDevice, NicMark
<1>8. ASSUME NEW r \in NicReqs, removeNetworkDevice(r) PROVE NicInv'
  <2>1. nic[r].at = "detach" /\ UNCHANGED <<nicRow, hwaddr, nextMac, nicUp, veths, nicStop, given>>
    BY <1>8 DEF removeNetworkDevice
  <2>2. nic[r] \in NicAsks /\ nic[r].job = "remove"  BY <1>0, <2>1, NicJobAt
  <2>3. CASE /\ nicUp /\ liveMac # 0 /\ liveMac' = 0 /\ filters' = filters \ {nic[r].use}
             /\ nic' = [nic EXCEPT ![r].at = "commit", ![r].dev = FALSE] /\ UNCHANGED nicMarks
    <3>1. liveMac' \in Nat /\ filters' \subseteq Nat  BY <1>0, <2>3 DEF NicTypeInv
    <3>2. nicMarks = {} => filters' = {}
      BY <1>0, <2>1, <2>2, <2>3 DEF NicMacInv, NicKnows, NicFilterInv
    <3> QED  BY <2>1, <2>2, <2>3, <3>1, <3>2, NicLive
  <2>4. CASE NicDone(r) /\ UNCHANGED <<liveMac, filters, nicMarks>>
    <3>1. filters \subseteq Nat  BY <1>0 DEF NicTypeInv
    <3> QED  BY <2>1, <2>2, <2>4, <3>1, NicLeaves
  <2>5. CASE liveMac' = 0 /\ nicMarks' = nicMarks \cup {"half"} /\ NicDone(r) /\ UNCHANGED filters
    <3>1. filters \subseteq Nat  BY <1>0 DEF NicTypeInv
    <3> QED  BY <2>1, <2>2, <2>5, <3>1, NicLeaves
  <2> QED  BY <1>8, <2>3, <2>4, <2>5 DEF removeNetworkDevice, removeNetworkFilter, NicMark
<1>9. ASSUME NEW r \in NicReqs, NicCommit(r) PROVE NicInv'
  <2> PICK dev : dev = CASE nic[r].job = "add" -> TRUE [] nic[r].job = "remove" -> FALSE [] OTHER -> nic[r].dev
    OBVIOUS
  <2> PICK mac : mac = IF dev THEN nic[r].copy ELSE 0  OBVIOUS
  <2>1. /\ nic[r].at = "commit" /\ NicDone(r) /\ UNCHANGED <<nextMac, nicUp, liveMac, veths, filters, nicStop>>
        /\ \/ /\ nicRow' = dev /\ hwaddr' = mac /\ given' = (IF dev THEN given ELSE 0)
              /\ nicMarks \subseteq nicMarks'
              /\ (nic[r].job \in {"update", "add"} /\ mac # hwaddr) \/ (nic[r].job = "update" /\ dev # nicRow) =>
                   "stale" \in nicMarks'
              /\ nic[r].job # "update" /\ (\E q \in NicReqs \ {r} : nic[q] # NoNic) => "crossed" \in nicMarks'
           \/ /\ nicMarks' = nicMarks \cup (IF nicUp /\ nic[r].job # "update" THEN {"half"} ELSE {})
              /\ UNCHANGED <<nicRow, hwaddr, given>>
    BY <1>9 DEF NicCommit, NicMark
  <2>2. nic[r] \in NicAsks /\ nic[r].job \in {"add", "remove", "update"}  BY <1>0, <2>1, NicJobAt
  <2>3. CASE /\ nicMarks' = nicMarks \cup (IF nicUp /\ nic[r].job # "update" THEN {"half"} ELSE {})
             /\ UNCHANGED <<nicRow, hwaddr, given>>
    <3>1. filters \subseteq Nat  BY <1>0 DEF NicTypeInv
    <3>2. nicMarks' = {} /\ nicUp => nic[r].job = "update"  BY <2>3
    <3> QED  BY <2>1, <2>2, <2>3, <3>1, <3>2, NicLeaves
  <2>4. CASE /\ nicRow' = dev /\ hwaddr' = mac /\ given' = (IF dev THEN given ELSE 0)
             /\ nicMarks \subseteq nicMarks'
             /\ (nic[r].job \in {"update", "add"} /\ mac # hwaddr) \/ (nic[r].job = "update" /\ dev # nicRow) =>
                  "stale" \in nicMarks'
             /\ nic[r].job # "update" /\ (\E q \in NicReqs \ {r} : nic[q] # NoNic) => "crossed" \in nicMarks'
    <3>1. /\ nic'[r] = NoNic /\ \A q \in NicReqs \ {r} : nic'[q] = nic[q]
          /\ NicKnows(r)' /\ nic' = [nic EXCEPT ![r] = NoNic]
      BY <2>1, NicDoneIs
    <3>2. dev \in BOOLEAN /\ mac \in Nat
      <4>1. nic[r].dev \in BOOLEAN /\ nic[r].copy \in Nat  BY <2>2 DEF NicAsks
      <4>2. dev \in BOOLEAN  BY <2>2, <4>1
      <4> QED  BY <4>1, <4>2
    <3>3. NicTypeInv'
      <4>1. /\ nicRow' \in BOOLEAN /\ hwaddr' \in Nat /\ nextMac' \in Nat \ {0} /\ nicUp' \in BOOLEAN
            /\ liveMac' \in Nat /\ filters' \subseteq Nat /\ nicStop' \subseteq Nat /\ given' \in Nat
        BY <1>0, <2>1, <2>4, <3>2 DEF NicTypeInv
      <4> QED  BY <1>0, <3>1, <4>1, NoNicIs, NicMoves
    <3>4. NicTurnInv'  BY <1>0, <2>1, <3>1, NoNicIs DEF NicTurnInv
    <3>5. ASSUME nicMarks' \cap Bad = {}
          PROVE  /\ nicMarks \cap Bad = {} /\ hwaddr = given /\ liveMac \in {0, given} /\ NicKnows(r)
                 /\ nic[r].job = "update" => nicRow' = nicRow /\ hwaddr' = hwaddr /\ given' = given
                 /\ nic[r].job = "add" => nicRow' = TRUE /\ hwaddr' = hwaddr /\ given' = given
                 /\ nic[r].job = "remove" => nicRow' = FALSE /\ hwaddr' = 0 /\ given' = 0 /\ liveMac = 0
                 /\ nic[r].job # "update" => \A q \in NicReqs \ {r} : nic[q] = NoNic
      <4>1. nicMarks \cap Bad = {} /\ "stale" \notin nicMarks' /\ "crossed" \notin nicMarks'  BY <2>4, <3>5
      <4>2. hwaddr = given /\ liveMac \in {0, given} /\ NicKnows(r)  BY <1>0, <4>1 DEF NicMacInv
      <4>3. nic[r].job = "update" => nicRow' = nicRow /\ hwaddr' = hwaddr /\ given' = given
        BY <2>4, <4>1, <4>2
      <4>4. nic[r].job = "add" => nicRow' = TRUE /\ hwaddr' = hwaddr /\ given' = given
        BY <2>4, <4>1
      <4>5. nic[r].job = "remove" => nicRow' = FALSE /\ hwaddr' = 0 /\ given' = 0 /\ liveMac = 0
        BY <2>1, <2>4, <4>2 DEF NicKnows
      <4>6. nic[r].job # "update" => \A q \in NicReqs \ {r} : nic[q] = NoNic  BY <2>4, <4>1
      <4> QED  BY <4>1, <4>2, <4>3, <4>4, <4>5, <4>6
    <3>6. NicMacInv'
      <4> SUFFICES ASSUME nicMarks' \cap Bad = {}
                   PROVE  hwaddr' = given' /\ liveMac' \in {0, given'} /\ \A q \in NicReqs : NicKnows(q)'
        BY DEF NicMacInv
      <4>1. \A q \in NicReqs : NicKnows(q)  BY <1>0, <3>5 DEF NicMacInv
      <4>2. ASSUME NEW q \in NicReqs \ {r} PROVE NicKnows(q)'
        <5>1. CASE nic[r].job = "update"
          BY <2>1, <3>1, <3>5, <4>1, <5>1, NicKnowsStays
        <5>2. CASE nic[r].job # "update"
          <6>1. nic'[q] = NoNic  BY <3>1, <3>5, <5>2
          <6> QED  BY <6>1, NoNicIs DEF NicKnows
        <5> QED  BY <5>1, <5>2
      <4>3. hwaddr' = given' /\ liveMac' \in {0, given'}  BY <2>1, <2>2, <3>5
      <4> QED  BY <3>1, <4>2, <4>3
    <3>7. NicFilterInv'
      <4> SUFFICES ASSUME nicMarks' = {} PROVE NicFilterInv'
        BY DEF NicFilterInv
      <4>1. nicMarks = {} /\ nicMarks' \cap Bad = {}  BY <2>4
      <4>2. Launching' <=> Launching
        <5>1. nic[r].at # "run" /\ nic'[r].at # "run"  BY <2>1, <3>1, NoNicIs
        <5> QED  BY <3>1, <5>1, LaunchingStays
      <4>3. CASE nic[r].job = "update"
        <5>1. \A j \in {"add", "remove"} : Committing(j)' <=> Committing(j)
          <6> SUFFICES ASSUME NEW j \in {"add", "remove"} PROVE Committing(j)' <=> Committing(j)
            OBVIOUS
          <6>1. nic[r].job # j /\ nic'[r].job # j  BY <3>1, <4>3, NoNicIs
          <6> QED  BY <3>1, <6>1, CommittingStays
        <5>2. Attached' <=> Attached  BY <3>5, <4>1, <4>3, <5>1 DEF Attached
        <5> QED  BY <2>1, <3>5, <4>1, <4>2, <4>3, <5>2, FilterStays
      <4>4. CASE nic[r].job # "update"
        <5>1. ~Committing("add")' /\ ~Committing("remove")' /\ ~Launching /\ ~Launching'
          BY <2>1, <3>1, <3>5, <4>1, <4>2, <4>4, NoNicIs DEF Committing, Launching
        <5>2. Committing(nic[r].job)  BY <2>1 DEF Committing
        <5>3. CASE nic[r].job = "add"
          <6>1. ~nicRow /\ nicRow' = TRUE /\ hwaddr' = hwaddr  BY <3>5, <4>1, <5>3 DEF NicKnows
          <6>2. Attached /\ Attached'  BY <5>1, <5>2, <5>3, <6>1 DEF Attached
          <6> QED  BY <1>0, <2>1, <4>1, <5>1, <6>1, <6>2 DEF NicFilterInv
        <5>4. CASE nic[r].job = "remove"
          <6>1. nicRow /\ nicRow' = FALSE  BY <3>5, <4>1, <5>4 DEF NicKnows
          <6>2. ~Attached /\ ~Attached'  BY <5>1, <5>2, <5>4, <6>1 DEF Attached
          <6> QED  BY <1>0, <2>1, <4>1, <5>1, <6>2 DEF NicFilterInv
        <5> QED  BY <2>2, <4>4, <5>3, <5>4
      <4> QED  BY <4>3, <4>4
    <3> QED  BY <3>3, <3>4, <3>6, <3>7 DEF NicInv
  <2> QED  BY <2>1, <2>3, <2>4
<1> QED  BY <1>1, <1>2, <1>3, <1>4, <1>5, <1>6, <1>7, <1>8, <1>9 DEF NicsNext

-----------------------------------------------------------------------------
(* The limits of a container (Limits). *)

Configs ==
  [memory : Memories \cup {None}, enforce : {"hard", "soft"}, swap : {None, "true", "false"}, swapPriority : {None, 5},
   allowance : {None, "percent", "time"}, processes : {None, 7}, diskPriority : {None, 0, 3}, networkPriority : {None, 2},
   nic : NicLimits, root : DiskLimits, data : DiskLimits \cup {Gone}]

KernelOf(m, s, c, w, p, d, i, t) ==
  [memory |-> m, swappiness |-> s, cpu |-> c, weight |-> w, pids |-> p, disk |-> d, prio |-> i, tc |-> t]

LimTypeInv ==
  /\ swapAccounting \in BOOLEAN /\ conf \in Configs /\ links \subseteq Ifaces
  /\ upd.active \in BOOLEAN /\ (~upd.active => upd = NoUpdate)
  /\ upd.active => up /\ upd = [active |-> TRUE, new |-> upd.new, keys |-> upd.keys, before |-> upd.before]
                   /\ upd.new \in Configs /\ upd.keys \subseteq DiffKeys(upd.new)
  /\ up \/ hook = {}
  /\ \A h \in hook : \/ h.what = "networkPriority" /\ h.value = 2
                     \/ h.what = "nic"
  /\ netEvent.on \in BOOLEAN
  /\ netEvent.on => netEvent = [on |-> TRUE, iface |-> netEvent.iface, value |-> netEvent.value]
                    /\ netEvent.iface \in links /\ netEvent.value \in {None, 2}

\* What the kernel has of a configuration in whatever no goroutine sets.
KernelType(k) ==
  /\ k = KernelOf(k.memory, k.swappiness, k.cpu, k.weight, k.pids, k.disk, k.prio, k.tc)
  /\ k.prio = [i \in Ifaces |-> k.prio[i]]
  /\ \A i \in Ifaces \ links : k.prio[i] = 0

\* The memory's limits at a start.
MemoryFor(accounting, c) ==
  CASE c.memory = None -> [limit |-> Unlimited, memsw |-> Unlimited, soft |-> Unlimited]
    [] c.memory # None /\ c.enforce = "soft" -> [limit |-> Unlimited, memsw |-> Unlimited, soft |-> c.memory]
    [] OTHER -> [limit |-> c.memory, soft |-> SoftOf(c.memory),
                 memsw |-> IF accounting /\ ~SwapOff(c) THEN c.memory ELSE Unlimited]

OfConf(k) ==
  /\ k.memory = MemoryFor(swapAccounting, conf) /\ k.swappiness = StartSwappiness(conf) /\ k.cpu = deviceParseCPU(conf.allowance)
  /\ k.weight = Weight(conf.diskPriority) /\ k.pids = conf.processes

\* How far an update has come: a key that was applied has its new value, and
\* all of the memory's and of the swappiness' are applied with the first.
Done(K) == \E k \in K : k \notin upd.keys /\ upd.new[k] # conf[k]
Now(key) == IF upd.active /\ key \notin upd.keys THEN upd.new[key] ELSE conf[key]

OfUpdate ==
  /\ kernel.memory = (IF Done(MemoryKeys) THEN MemoryFor(swapAccounting, upd.new) ELSE MemoryFor(swapAccounting, conf))
  /\ kernel.swappiness = (IF Done({"swap", "swapPriority"}) THEN StartSwappiness(upd.new) ELSE StartSwappiness(conf))
  /\ kernel.cpu = deviceParseCPU(Now("allowance")) /\ kernel.weight = Weight(Now("diskPriority"))
  /\ kernel.pids = Now("processes")

\* The goroutines that are still to come do the rest.
Hooked(what) == \E h \in hook : h.what = what
Awaited(i) == netEvent.on /\ netEvent.iface = i
PrioLevel(p) == IF p = None THEN 0 ELSE p
PrioAt(k, p) ==
  Hooked("networkPriority") \/
    \A i \in links : IF Awaited(i) THEN k.prio[i] \in {0, PrioLevel(p)} ELSE k.prio[i] = PrioLevel(p)

\* Of a running container, where nothing was overtaken or left.
LimUp ==
  /\ KernelType(kernel) /\ kernel.disk = getDiskLimits(conf)
  /\ Hooked("nic") \/ kernel.tc = setNetworkLimits(conf.nic)
  /\ PrioAt(kernel, Now("networkPriority"))
  /\ upd.active =>
       /\ OfUpdate /\ KernelType(upd.before) /\ OfConf(upd.before)
       /\ upd.new.networkPriority # conf.networkPriority => PrioAt(upd.before, conf.networkPriority)
  /\ ~upd.active => OfConf(kernel)

LimInv == LimTypeInv /\ (limMarks = {} /\ up => LimUp)

\* The first n of at most six steps, one after the other.
AfterIs(f, m, steps, n) ==
  /\ f[0] = m /\ \A i \in 1 .. n : f[i] = SetMemory(f[i - 1], steps[i][1], steps[i][2])
  /\ AfterSteps(m, steps, n) = f[n]

LEMMA AfterExists ==
  ASSUME NEW m, NEW steps, NEW n \in 0 .. 6
  PROVE  \E f : AfterIs(f, m, steps, n)
<1> DEFINE Eq(f) == f = [i \in 0 .. n |-> IF i = 0 THEN m ELSE SetMemory(f[i - 1], steps[i][1], steps[i][2])]
           f0 == CHOOSE f : Eq(f)
           S(i, k) == SetMemory(k, steps[i][1], steps[i][2])
<1>1. \E f : Eq(f)
  <2> HIDE DEF S
  <2> PICK k1, k2, k3 : k1 = S(1, m) /\ k2 = S(2, k1) /\ k3 = S(3, k2)  OBVIOUS
  <2> PICK k4, k5, k6 : k4 = S(4, k3) /\ k5 = S(5, k4) /\ k6 = S(6, k5)  OBVIOUS
  <2> DEFINE f == [i \in 0 .. n |-> IF i = 0 THEN m ELSE IF i = 1 THEN k1 ELSE IF i = 2 THEN k2 ELSE IF i = 3 THEN k3
                                    ELSE IF i = 4 THEN k4 ELSE IF i = 5 THEN k5 ELSE k6]
  <2>1. ASSUME NEW i \in 0 .. n PROVE f[i] = IF i = 0 THEN m ELSE S(i, f[i - 1])
    <3>1. CASE i = 0  BY <3>1
    <3>2. CASE i # 0
      <4>1. i - 1 \in 0 .. n /\ i \in 1 .. 6  BY <3>2
      <4> HIDE DEF S
      <4> QED  BY <3>2, <4>1
    <3> QED  BY <3>1, <3>2
  <2> HIDE DEF S
  <2>2. f = [i \in 0 .. n |-> IF i = 0 THEN m ELSE S(i, f[i - 1])]
    <3> HIDE DEF S
    <3> DEFINE g == [i \in 0 .. n |-> IF i = 0 THEN m ELSE S(i, f[i - 1])]
    <3>1. DOMAIN f = DOMAIN g /\ \A i \in 0 .. n : f[i] = g[i]  BY <2>1
    <3>2. f = [i \in 0 .. n |-> f[i]] /\ g = [i \in 0 .. n |-> g[i]] OBVIOUS
    <3> HIDE DEF f, g
    <3> QED  BY <3>1, <3>2 DEF g
  <2> HIDE DEF f
  <2>3. Eq(f)  BY <2>2 DEF S
  <2> HIDE DEF Eq
  <2> QED  BY <2>3
<1>2. Eq(f0)
  <2> HIDE DEF Eq
  <2> QED  BY <1>1
<1>3. AfterSteps(m, steps, n) = f0[n]  BY DEF AfterSteps
<1> HIDE DEF f0
<1>4. f0[0] = m /\ \A i \in 1 .. n : f0[i] = SetMemory(f0[i - 1], steps[i][1], steps[i][2])
  <2>1. \A i \in 0 .. n : f0[i] = IF i = 0 THEN m ELSE SetMemory(f0[i - 1], steps[i][1], steps[i][2])  BY <1>2
  <2> QED  BY <2>1
<1> QED  BY <1>3, <1>4 DEF AfterIs

Memory == [limit : Nat, memsw : Nat, soft : Nat]

\* What the memory's limits always are.
MemoryInv(m) == m \in Memory /\ m.limit <= m.memsw /\ m.limit <= Unlimited /\ (~swapAccounting => m.memsw = Unlimited)

LEMMA MemoryOf ==
  ASSUME NEW l \in Nat, NEW s \in Nat, NEW w \in Nat, l <= w, l <= 1000, ~swapAccounting => w = 1000
  PROVE  MemoryInv([limit |-> l, memsw |-> w, soft |-> s])
<1> DEFINE m == [limit |-> l, memsw |-> w, soft |-> s]
<1>1. m.limit = l /\ m.memsw = w /\ m.soft = s  OBVIOUS
<1>2. m \in Memory  BY DEF Memory
<1> HIDE DEF m
<1>3. MemoryInv(m)  BY <1>1, <1>2 DEF MemoryInv, Unlimited
<1> QED  BY <1>3 DEF m

LEMMA StartMemoryInv == ASSUME NEW c \in Configs PROVE MemoryInv(StartMemory(c))
<1> DEFINE v == c.memory
           w == IF swapAccounting /\ ~SwapOff(c) THEN v ELSE 1000
           W == [limit |-> 1000, memsw |-> 1000, soft |-> 1000]
           F == [limit |-> 1000, memsw |-> 1000, soft |-> v]
           H == [limit |-> v, memsw |-> w, soft |-> SoftOf(v)]
<1>1. StartMemory(c) = CASE v = None -> W [] v # None /\ c.enforce = "soft" -> F [] OTHER -> H
  BY DEF StartMemory, Unlimited
<1>2. v = None \/ (v \in Nat /\ 1 <= v /\ v <= 1000)
  <2>1. v = None \/ v \in 1 .. Unlimited  BY LimitsAssumption DEF Configs
  <2> HIDE DEF v
  <2> QED  BY <2>1 DEF Unlimited
<1>3. ~swapAccounting => w = 1000  OBVIOUS
<1>4. w = v \/ w = 1000  OBVIOUS
<1> HIDE DEF v, w
<1>5. MemoryInv(W)  BY MemoryOf
<1>6. ASSUME v \in Nat, 1 <= v, v <= 1000 PROVE MemoryInv(F) /\ MemoryInv(H)
  <2>1. SoftOf(v) \in Nat  BY <1>6 DEF SoftOf, Unlimited
  <2>2. w \in Nat /\ v <= w  BY <1>4, <1>6
  <2>3. MemoryInv(F)  BY <1>6, MemoryOf
  <2>4. MemoryInv(H)  BY <1>3, <1>6, <2>1, <2>2, MemoryOf
  <2> QED  BY <2>3, <2>4
<1> HIDE DEF W, F, H
<1> QED  BY <1>1, <1>2, <1>5, <1>6

\* Steps there can be.
MemoryStep(s) == s[1] \in {"limit", "memsw", "soft"} /\ s[2] \in Nat /\ (~swapAccounting => s[1] # "memsw")

LEMMA SetMemoryIs ==
  ASSUME NEW m \in Memory, NEW v \in Nat
  PROVE  /\ SetMemory(m, "soft", v) = [m EXCEPT !.soft = v]
         /\ SetMemory(m, "limit", v) = IF v > m.memsw THEN m ELSE [m EXCEPT !.limit = v]
         /\ SetMemory(m, "memsw", v) = IF v < m.limit THEN m ELSE [m EXCEPT !.memsw = v]
BY DEF SetMemory, Memory

LEMMA SetMemoryKeeps ==
  ASSUME NEW m \in Memory, NEW v \in Nat, NEW field \in {"limit", "memsw", "soft"}
  PROVE  SetMemory(m, field, v) \in Memory /\ (field # "memsw" => SetMemory(m, field, v).memsw = m.memsw)
<1>1. CASE field = "soft"  BY <1>1, SetMemoryIs DEF Memory
<1>2. CASE field = "limit"  BY <1>2, SetMemoryIs DEF Memory
<1>3. CASE field = "memsw"  BY <1>3, SetMemoryIs DEF Memory
<1> QED  BY <1>1, <1>2, <1>3

\* An update that fails in the middle of the memory's steps puts it back.
LEMMA RevertIs ==
  ASSUME NEW old, MemoryInv(old), NEW m \in Memory, m.memsw >= old.limit, ~swapAccounting => m.memsw = old.memsw
  PROVE  RevertMemory(m, old) = old
<1>1. old \in Memory /\ old.limit <= old.memsw  BY DEF MemoryInv
<1>2. PICK s : s = [m EXCEPT !.soft = old.soft]  OBVIOUS
<1>3. s = SetMemory(m, "soft", old.soft)  BY <1>1, <1>2, SetMemoryIs DEF Memory
<1>4. s \in Memory /\ s.memsw = m.memsw /\ s.soft = old.soft  BY <1>1, <1>2 DEF Memory
<1>5. PICK l : l = [s EXCEPT !.limit = old.limit]  OBVIOUS
<1>6. old.limit \in Nat /\ old.memsw \in Nat /\ ~(old.limit > s.memsw)  BY <1>1, <1>4 DEF Memory
<1>7. l = SetMemory(s, "limit", old.limit)  BY <1>4, <1>5, <1>6, SetMemoryIs
<1>8. l \in Memory /\ l.memsw = m.memsw /\ l.soft = old.soft /\ l.limit = old.limit  BY <1>4, <1>5, <1>6 DEF Memory
<1>9. SetMemory(l, "memsw", old.memsw) = [l EXCEPT !.memsw = old.memsw]  BY <1>1, <1>6, <1>8, SetMemoryIs
<1>10. [l EXCEPT !.memsw = old.memsw] = old  BY <1>1, <1>8 DEF Memory
<1>11. ~swapAccounting => l = old  BY <1>1, <1>8 DEF Memory
<1> QED  BY <1>3, <1>7, <1>9, <1>10, <1>11 DEF RevertMemory

LEMMA AfterKeeps ==
  ASSUME NEW m \in Memory, NEW steps, NEW n \in 0 .. 6, \A i \in 1 .. n : MemoryStep(steps[i])
  PROVE  AfterSteps(m, steps, n) \in Memory /\ (~swapAccounting => AfterSteps(m, steps, n).memsw = m.memsw)
<1>3. PICK f : AfterIs(f, m, steps, n)  BY AfterExists
<1> DEFINE P(i) == f[i] \in Memory /\ (~swapAccounting => f[i].memsw = m.memsw)
<1>4. ASSUME NEW i \in 1 .. n, P(i - 1) PROVE P(i)
  <2> PICK field \in {"limit", "memsw", "soft"}, v \in Nat : field = steps[i][1] /\ v = steps[i][2]
    BY DEF MemoryStep
  <2>2. ~swapAccounting => field # "memsw"  BY DEF MemoryStep
  <2>3. f[i] = SetMemory(f[i - 1], field, v)  BY <1>3 DEF AfterIs
  <2>4. PICK k \in Memory : k = f[i - 1] /\ (~swapAccounting => k.memsw = m.memsw)  BY <1>4
  <2>5. SetMemory(k, field, v) \in Memory /\ (field # "memsw" => SetMemory(k, field, v).memsw = k.memsw)
    BY <2>4, SetMemoryKeeps
  <2>6. f[i] = SetMemory(k, field, v)  BY <2>3, <2>4
  <2> QED  BY <2>2, <2>4, <2>5, <2>6
<1>5. P(0)  BY <1>3 DEF AfterIs
<1> HIDE DEF P
<1>6. n >= 1 => P(1)  BY <1>4, <1>5
<1>7. n >= 2 => P(2)  BY <1>4, <1>6
<1>8. n >= 3 => P(3)  BY <1>4, <1>7
<1>9. n >= 4 => P(4)  BY <1>4, <1>8
<1>10. n >= 5 => P(5)  BY <1>4, <1>9
<1>11. n >= 6 => P(6)  BY <1>4, <1>10
<1>12. P(n)  BY <1>5, <1>6, <1>7, <1>8, <1>9, <1>10, <1>11
<1> QED  BY <1>3, <1>12 DEF P, AfterIs

\* The steps of an update, one by one.
StepsOf(s, c, v, U) ==
  /\ c.enforce = "soft" /\ swapAccounting =>
       /\ Len(s) = 4 /\ s[1] = <<"memsw", U>> /\ s[2] = <<"limit", U>> /\ s[3] = <<"soft", U>>
       /\ s[4] = <<"soft", v>>
  /\ c.enforce = "soft" /\ ~swapAccounting =>
       Len(s) = 3 /\ s[1] = <<"limit", U>> /\ s[2] = <<"soft", U>> /\ s[3] = <<"soft", v>>
  /\ c.enforce # "soft" /\ swapAccounting /\ ~SwapOff(c) =>
       /\ Len(s) = 6 /\ s[1] = <<"memsw", U>> /\ s[2] = <<"limit", U>> /\ s[3] = <<"soft", U>>
       /\ s[4] = <<"limit", v>> /\ s[5] = <<"memsw", v>> /\ s[6] = <<"soft", SoftOf(v)>>
  /\ c.enforce # "soft" /\ swapAccounting /\ SwapOff(c) =>
       /\ Len(s) = 5 /\ s[1] = <<"memsw", U>> /\ s[2] = <<"limit", U>> /\ s[3] = <<"soft", U>>
       /\ s[4] = <<"limit", v>> /\ s[5] = <<"soft", SoftOf(v)>>
  /\ c.enforce # "soft" /\ ~swapAccounting =>
       /\ Len(s) = 4 /\ s[1] = <<"limit", U>> /\ s[2] = <<"soft", U>>
       /\ s[3] = <<"limit", v>> /\ s[4] = <<"soft", SoftOf(v)>>

LEMMA StepsAre ==
  ASSUME NEW c \in Configs, NEW v, v = (IF c.memory = None THEN Unlimited ELSE c.memory), NEW U, U = Unlimited,
         NEW s, s = MemorySteps(c)
  PROVE  StepsOf(s, c, v, U)
<1> PICK mU, lU, sU : mU = <<"memsw", U>> /\ lU = <<"limit", U>> /\ sU = <<"soft", U>>  OBVIOUS
<1> PICK lv, mv, sv, tv : lv = <<"limit", v>> /\ mv = <<"memsw", v>> /\ sv = <<"soft", v>> /\ tv = <<"soft", SoftOf(v)>>
  OBVIOUS
<1>1. swapAccounting => MemorySteps(c) = (<<mU>> \o <<lU, sU>>) \o NewLimits(c)
  BY DEF MemorySteps
<1>2. ~swapAccounting => MemorySteps(c) = (<<>> \o <<lU, sU>>) \o NewLimits(c)
  BY DEF MemorySteps
<1>3. c.enforce = "soft" => NewLimits(c) = <<sv>>  BY DEF NewLimits
<1>4. c.enforce # "soft" /\ swapAccounting /\ ~SwapOff(c) => NewLimits(c) = (<<lv>> \o <<mv>>) \o <<tv>>
  BY DEF NewLimits
<1>5. c.enforce # "soft" /\ ~(swapAccounting /\ ~SwapOff(c)) => NewLimits(c) = (<<lv>> \o <<>>) \o <<tv>>
  BY DEF NewLimits
<1>6. CASE c.enforce = "soft"
  <2>1. CASE swapAccounting
    <3>1. MemorySteps(c) = (<<mU>> \o <<lU, sU>>) \o <<sv>>  BY <1>1, <1>3, <1>6, <2>1
    <3> QED  BY <1>6, <2>1, <3>1 DEF StepsOf
  <2>2. CASE ~swapAccounting
    <3>1. MemorySteps(c) = (<<>> \o <<lU, sU>>) \o <<sv>>  BY <1>2, <1>3, <1>6, <2>2
    <3> QED  BY <1>6, <2>2, <3>1 DEF StepsOf
  <2> QED  BY <2>1, <2>2
<1>7. CASE c.enforce # "soft" /\ swapAccounting /\ ~SwapOff(c)
  <2>1. MemorySteps(c) = (<<mU>> \o <<lU, sU>>) \o ((<<lv>> \o <<mv>>) \o <<tv>>)  BY <1>1, <1>4, <1>7
  <2> QED  BY <1>7, <2>1 DEF StepsOf
<1>8. CASE c.enforce # "soft" /\ swapAccounting /\ SwapOff(c)
  <2>1. MemorySteps(c) = (<<mU>> \o <<lU, sU>>) \o ((<<lv>> \o <<>>) \o <<tv>>)  BY <1>1, <1>5, <1>8
  <2> QED  BY <1>8, <2>1 DEF StepsOf
<1>9. CASE c.enforce # "soft" /\ ~swapAccounting
  <2>1. MemorySteps(c) = (<<>> \o <<lU, sU>>) \o ((<<lv>> \o <<>>) \o <<tv>>)  BY <1>2, <1>5, <1>9
  <2> QED  BY <1>9, <2>1 DEF StepsOf
<1> QED  BY <1>6, <1>7, <1>8, <1>9

LEMMA MemoryRange ==
  ASSUME NEW m, m = None \/ m \in Memories
  PROVE  m = None \/ m \in 1 .. 1000
<1>1. Memories \subseteq 1 .. 1000  BY LimitsAssumption DEF Unlimited
<1>2. ASSUME m \in Memories PROVE m \in 1 .. 1000
  <2> DEFINE S == 1 .. 1000
  <2>1. Memories \subseteq S  BY <1>1
  <2>2. m \in S
    <3> HIDE DEF S
    <3> QED  BY <1>2, <2>1
  <2> QED  BY <2>2
<1>3. m # None => m \in Memories  OBVIOUS
<1> QED  BY <1>2, <1>3

LEMMA StepsGoOn ==
  ASSUME NEW c \in Configs, NEW s, s = MemorySteps(c)
  PROVE  Len(s) \in 0 .. 6 /\ \A i \in 1 .. Len(s) : MemoryStep(s[i])
<1>0. c.memory = None \/ c.memory \in 1 .. 1000
  <2>1. PICK m : m = c.memory  OBVIOUS
  <2>2. m = None \/ m \in Memories  BY <2>1 DEF Configs
  <2> QED  BY <2>1, <2>2, MemoryRange
<1>1. PICK v \in 1 .. 1000 : v = (IF c.memory = None THEN Unlimited ELSE c.memory)  BY <1>0 DEF Unlimited
<1>2. PICK U \in Nat : U = Unlimited  BY DEF Unlimited
<1>3. v \in Nat /\ SoftOf(v) \in Nat  BY DEF SoftOf, Unlimited
<1>4. StepsOf(s, c, v, U)  BY <1>1, <1>2, StepsAre
<1>5. ASSUME NEW y \in Nat
      PROVE  /\ <<"limit", y>>[1] = "limit" /\ <<"limit", y>>[2] = y /\ <<"soft", y>>[1] = "soft" /\ <<"soft", y>>[2] = y
             /\ <<"memsw", y>>[1] = "memsw" /\ <<"memsw", y>>[2] = y
  OBVIOUS
<1>6. \A y \in Nat : /\ MemoryStep(<<"limit", y>>) /\ MemoryStep(<<"soft", y>>)
                     /\ swapAccounting => MemoryStep(<<"memsw", y>>)
  BY <1>5 DEF MemoryStep
<1>7. PICK mU, lU, sU, lv, mv, sv, tv :
        /\ mU = <<"memsw", U>> /\ lU = <<"limit", U>> /\ sU = <<"soft", U>>
        /\ lv = <<"limit", v>> /\ mv = <<"memsw", v>> /\ sv = <<"soft", v>> /\ tv = <<"soft", SoftOf(v)>>
  OBVIOUS
<1>8. /\ MemoryStep(lU) /\ MemoryStep(sU) /\ MemoryStep(lv) /\ MemoryStep(sv) /\ MemoryStep(tv)
      /\ swapAccounting => MemoryStep(mU) /\ MemoryStep(mv)
  BY <1>3, <1>6, <1>7
<1>9. CASE c.enforce = "soft" /\ swapAccounting
  <2>1. Len(s) = 4 /\ s[1] = mU /\ s[2] = lU /\ s[3] = sU /\ s[4] = sv  BY <1>4, <1>7, <1>9 DEF StepsOf
  <2> QED  BY <1>8, <1>9, <2>1
<1>10. CASE c.enforce = "soft" /\ ~swapAccounting
  <2>1. Len(s) = 3 /\ s[1] = lU /\ s[2] = sU /\ s[3] = sv  BY <1>4, <1>7, <1>10 DEF StepsOf
  <2> QED  BY <1>8, <2>1
<1>11. CASE c.enforce # "soft" /\ swapAccounting /\ ~SwapOff(c)
  <2>1. Len(s) = 6 /\ s[1] = mU /\ s[2] = lU /\ s[3] = sU /\ s[4] = lv /\ s[5] = mv /\ s[6] = tv
    BY <1>4, <1>7, <1>11 DEF StepsOf
  <2> QED  BY <1>8, <1>11, <2>1
<1>12. CASE c.enforce # "soft" /\ swapAccounting /\ SwapOff(c)
  <2>1. Len(s) = 5 /\ s[1] = mU /\ s[2] = lU /\ s[3] = sU /\ s[4] = lv /\ s[5] = tv
    BY <1>4, <1>7, <1>12 DEF StepsOf
  <2> QED  BY <1>8, <1>12, <2>1
<1>13. CASE c.enforce # "soft" /\ ~swapAccounting
  <2>1. Len(s) = 4 /\ s[1] = lU /\ s[2] = sU /\ s[3] = lv /\ s[4] = tv  BY <1>4, <1>7, <1>13 DEF StepsOf
  <2> QED  BY <1>8, <2>1
<1> QED  BY <1>9, <1>10, <1>11, <1>12, <1>13

MemOf(l, z, t) == [limit |-> l, memsw |-> z, soft |-> t]

LEMMA SetMemoryTo ==
  ASSUME NEW l \in Nat, NEW z \in Nat, NEW t \in Nat, NEW y \in Nat
  PROVE  /\ SetMemory(MemOf(l, z, t), "soft", y) = MemOf(l, z, y)
         /\ z >= y => SetMemory(MemOf(l, z, t), "limit", y) = MemOf(y, z, t)
         /\ l <= y => SetMemory(MemOf(l, z, t), "memsw", y) = MemOf(l, y, t)
<1>1. PICK k : k = MemOf(l, z, t)  OBVIOUS
<1>2. k.limit = l /\ k.memsw = z /\ k.soft = t /\ k \in Memory  BY <1>1 DEF MemOf, Memory
<1>3. [k EXCEPT !.soft = y] = MemOf(l, z, y)  BY <1>1 DEF MemOf
<1>4. [k EXCEPT !.limit = y] = MemOf(y, z, t)  BY <1>1 DEF MemOf
<1>5. [k EXCEPT !.memsw = y] = MemOf(l, y, t)  BY <1>1 DEF MemOf
<1>6. SetMemory(k, "soft", y) = MemOf(l, z, y)  BY <1>2, <1>3, SetMemoryIs
<1>7. z >= y => SetMemory(k, "limit", y) = MemOf(y, z, t)  BY <1>2, <1>4, SetMemoryIs
<1>8. l <= y => SetMemory(k, "memsw", y) = MemOf(l, y, t)  BY <1>2, <1>5, SetMemoryIs
<1> QED  BY <1>1, <1>6, <1>7, <1>8

StartIs(c, v, U, x) ==
  StartMemory(c) = IF c.enforce = "soft" THEN MemOf(U, U, v)
                   ELSE MemOf(v, IF swapAccounting /\ ~SwapOff(c) THEN v ELSE U, x)

LEMMA StartMemoryIs ==
  ASSUME NEW c \in Configs, NEW v \in 1 .. Unlimited, v = (IF c.memory = None THEN Unlimited ELSE c.memory),
         NEW U, U = Unlimited, NEW x, x = SoftOf(v)
  PROVE  StartIs(c, v, U, x)
<1> SUFFICES StartMemory(c) = IF c.enforce = "soft" THEN MemOf(U, U, v)
                              ELSE MemOf(v, IF swapAccounting /\ ~SwapOff(c) THEN v ELSE U, x)
  BY DEF StartIs
<1>1. CASE c.memory = None
  <2>1. v = U /\ x = U  BY <1>1 DEF SoftOf, Unlimited
  <2>2. StartMemory(c) = MemOf(U, U, U)  BY <1>1 DEF StartMemory, MemOf, Unlimited
  <2> QED  BY <2>1, <2>2
<1>2. CASE c.memory # None /\ c.enforce = "soft"
  <2>1. StartMemory(c) = [limit |-> U, memsw |-> U, soft |-> v]
    BY <1>2 DEF StartMemory, Unlimited
  <2> QED  BY <1>2, <2>1 DEF MemOf
<1>3. CASE c.memory # None /\ c.enforce # "soft"
  <2>1. v = c.memory  BY <1>3
  <2>2. StartMemory(c) = [limit |-> v, soft |-> x, memsw |-> IF swapAccounting /\ ~SwapOff(c) THEN v ELSE U]
    BY <1>3, <2>1 DEF StartMemory, Unlimited
  <2>3. PICK q : q = (IF swapAccounting /\ ~SwapOff(c) THEN v ELSE U)  OBVIOUS
  <2>4. [limit |-> v, soft |-> x, memsw |-> q] = MemOf(v, q, x)  BY DEF MemOf
  <2> QED  BY <1>3, <2>2, <2>3, <2>4
<1> QED  BY <1>1, <1>2, <1>3

LEMMA AfterStep ==
  ASSUME NEW f, NEW m, NEW steps, NEW n \in 0 .. 6, AfterIs(f, m, steps, n), NEW i \in 1 .. n,
         NEW field, NEW y, steps[i] = <<field, y>>
  PROVE  f[i] = SetMemory(f[i - 1], field, y)
<1>1. steps[i][1] = field /\ steps[i][2] = y  OBVIOUS
<1> QED  BY <1>1 DEF AfterIs

\* Whatever the memory's limits were, those of the configuration come out.
LEMMA StepsReach ==
  ASSUME NEW c \in Configs, NEW m, MemoryInv(m)
  PROVE  AfterSteps(m, MemorySteps(c), Len(MemorySteps(c))) = StartMemory(c)
<1>0. c.memory = None \/ c.memory \in 1 .. Unlimited  BY LimitsAssumption DEF Configs
<1>1. PICK v \in 1 .. Unlimited : v = (IF c.memory = None THEN Unlimited ELSE c.memory)  BY <1>0 DEF Unlimited
<1>2. PICK U \in Nat : U = Unlimited  BY DEF Unlimited
<1>3. PICK x \in Nat : x = SoftOf(v)  BY DEF SoftOf, Unlimited
<1>4. PICK s : s = MemorySteps(c)  OBVIOUS
<1>5. PICK n \in 0 .. 6 : n = Len(s)  BY <1>4, StepsGoOn
<1>6. StepsOf(s, c, v, U)  BY <1>1, <1>2, <1>4, StepsAre
<1>7. PICK f : AfterIs(f, m, s, n)  BY AfterExists
<1>8. f[0] = m /\ AfterSteps(m, s, n) = f[n]  BY <1>7 DEF AfterIs
<1>9. /\ c.enforce = "soft" => StartMemory(c) = MemOf(U, U, v)
      /\ c.enforce # "soft" => StartMemory(c) = MemOf(v, IF swapAccounting /\ ~SwapOff(c) THEN v ELSE U, x)
  <2>1. StartIs(c, v, U, x)  BY <1>1, <1>2, <1>3, StartMemoryIs
  <2> QED  BY <2>1 DEF StartIs
<1>10. PICK l0 \in Nat, z0 \in Nat, t0 \in Nat : m = MemOf(l0, z0, t0) /\ l0 <= U /\ (~swapAccounting => z0 = U)
  <2>1. m \in Memory /\ m.limit <= U /\ (~swapAccounting => m.memsw = U)  BY <1>2 DEF MemoryInv
  <2>2. m.limit \in Nat /\ m.memsw \in Nat /\ m.soft \in Nat /\ m = MemOf(m.limit, m.memsw, m.soft)
    BY <2>1 DEF Memory, MemOf
  <2> QED  BY <2>1, <2>2
<1>11. ASSUME NEW i \in 1 .. n, NEW k, f[i - 1] = k, NEW field, NEW y, s[i] = <<field, y>>
       PROVE  f[i] = SetMemory(k, field, y)
  BY <1>7, <1>11, AfterStep
<1>12. v \in Nat /\ v <= U  BY <1>2
<1>13. StartMemory(c) = f[n]
  \* Everything is reset first.
  <2>1. CASE swapAccounting
    <3>1. n >= 3 /\ s[1] = <<"memsw", U>> /\ s[2] = <<"limit", U>> /\ s[3] = <<"soft", U>>
      BY <1>5, <1>6, <2>1 DEF StepsOf
    <3>2. f[1] = SetMemory(MemOf(l0, z0, t0), "memsw", U)
      BY <1>8, <1>10, <1>11, <3>1
    <3>3. f[1] = MemOf(l0, U, t0)  BY <1>10, <3>2, SetMemoryTo
    <3>4. f[2] = SetMemory(MemOf(l0, U, t0), "limit", U)
      BY <1>11, <3>1, <3>3
    <3>5. f[2] = MemOf(U, U, t0)  BY <1>10, <3>4, SetMemoryTo
    <3>6. f[3] = SetMemory(MemOf(U, U, t0), "soft", U)
      BY <1>11, <3>1, <3>5
    <3>7. f[3] = MemOf(U, U, U)  BY <1>10, <3>6, SetMemoryTo
    <3>8. CASE c.enforce = "soft"
      <4>1. n = 4 /\ s[4] = <<"soft", v>>  BY <1>5, <1>6, <2>1, <3>8 DEF StepsOf
      <4>2. f[4] = SetMemory(MemOf(U, U, U), "soft", v)  BY <1>11, <3>7, <4>1
      <4>3. f[4] = MemOf(U, U, v)  BY <1>12, <4>2, SetMemoryTo
      <4> QED  BY <1>9, <3>8, <4>1, <4>3
    <3>9. CASE c.enforce # "soft" /\ ~SwapOff(c)
      <4>1. n = 6 /\ s[4] = <<"limit", v>> /\ s[5] = <<"memsw", v>> /\ s[6] = <<"soft", x>>
        BY <1>3, <1>5, <1>6, <2>1, <3>9 DEF StepsOf
      <4>2. f[4] = SetMemory(MemOf(U, U, U), "limit", v)  BY <1>11, <3>7, <4>1
      <4>3. f[4] = MemOf(v, U, U)  BY <1>12, <4>2, SetMemoryTo
      <4>4. f[5] = SetMemory(MemOf(v, U, U), "memsw", v)  BY <1>11, <4>1, <4>3
      <4>5. f[5] = MemOf(v, v, U)  BY <1>12, <4>4, SetMemoryTo
      <4>6. f[6] = SetMemory(MemOf(v, v, U), "soft", x)  BY <1>11, <4>1, <4>5
      <4>7. f[6] = MemOf(v, v, x)  BY <1>12, <4>6, SetMemoryTo
      <4> QED  BY <1>9, <2>1, <3>9, <4>1, <4>7
    <3>10. CASE c.enforce # "soft" /\ SwapOff(c)
      <4>1. n = 5 /\ s[4] = <<"limit", v>> /\ s[5] = <<"soft", x>>
        BY <1>3, <1>5, <1>6, <2>1, <3>10 DEF StepsOf
      <4>2. f[4] = SetMemory(MemOf(U, U, U), "limit", v)  BY <1>11, <3>7, <4>1
      <4>3. f[4] = MemOf(v, U, U)  BY <1>12, <4>2, SetMemoryTo
      <4>4. f[5] = SetMemory(MemOf(v, U, U), "soft", x)  BY <1>11, <4>1, <4>3
      <4>5. f[5] = MemOf(v, U, x)  BY <1>12, <4>4, SetMemoryTo
      <4> QED  BY <1>9, <3>10, <4>1, <4>5
    <3> QED  BY <3>8, <3>9, <3>10
  <2>2. CASE ~swapAccounting
    <3>1. n >= 2 /\ s[1] = <<"limit", U>> /\ s[2] = <<"soft", U>>
      BY <1>5, <1>6, <2>2 DEF StepsOf
    <3>2. f[1] = SetMemory(MemOf(l0, U, t0), "limit", U)
      BY <1>8, <1>10, <1>11, <2>2, <3>1
    <3>3. f[1] = MemOf(U, U, t0)  BY <1>10, <3>2, SetMemoryTo
    <3>4. f[2] = SetMemory(MemOf(U, U, t0), "soft", U)  BY <1>11, <3>1, <3>3
    <3>5. f[2] = MemOf(U, U, U)  BY <1>10, <3>4, SetMemoryTo
    <3>6. CASE c.enforce = "soft"
      <4>1. n = 3 /\ s[3] = <<"soft", v>>  BY <1>5, <1>6, <2>2, <3>6 DEF StepsOf
      <4>2. f[3] = SetMemory(MemOf(U, U, U), "soft", v)  BY <1>11, <3>5, <4>1
      <4>3. f[3] = MemOf(U, U, v)  BY <1>12, <4>2, SetMemoryTo
      <4> QED  BY <1>9, <3>6, <4>1, <4>3
    <3>7. CASE c.enforce # "soft"
      <4>1. n = 4 /\ s[3] = <<"limit", v>> /\ s[4] = <<"soft", x>>
        BY <1>3, <1>5, <1>6, <2>2, <3>7 DEF StepsOf
      <4>2. f[3] = SetMemory(MemOf(U, U, U), "limit", v)  BY <1>11, <3>5, <4>1
      <4>3. f[3] = MemOf(v, U, U)  BY <1>12, <4>2, SetMemoryTo
      <4>4. f[4] = SetMemory(MemOf(v, U, U), "soft", x)  BY <1>11, <4>1, <4>3
      <4>5. f[4] = MemOf(v, U, x)  BY <1>12, <4>4, SetMemoryTo
      <4> QED  BY <1>9, <2>2, <3>7, <4>1, <4>5
    <3> QED  BY <3>6, <3>7
  <2> QED  BY <2>1, <2>2
<1> QED  BY <1>4, <1>5, <1>8, <1>13

LEMMA ConfigWith ==
  ASSUME NEW c \in Configs, NEW v
  PROVE  /\ v \in Memories \cup {None} => [c EXCEPT !.memory = v] \in Configs
         /\ v \in {"hard", "soft"} => [c EXCEPT !.enforce = v] \in Configs
         /\ v \in {None, "true", "false"} => [c EXCEPT !.swap = v] \in Configs
         /\ v \in {None, 5} => [c EXCEPT !.swapPriority = v] \in Configs
         /\ v \in {None, "percent", "time"} => [c EXCEPT !.allowance = v] \in Configs
         /\ v \in {None, 7} => [c EXCEPT !.processes = v] \in Configs
         /\ v \in {None, 0, 3} => [c EXCEPT !.diskPriority = v] \in Configs
         /\ v \in {None, 2} => [c EXCEPT !.networkPriority = v] \in Configs
         /\ v \in NicLimits => [c EXCEPT !.nic = v] \in Configs
         /\ v \in DiskLimits => [c EXCEPT !.root = v] \in Configs
         /\ v \in DiskLimits \cup {Gone} => [c EXCEPT !.data = v] \in Configs
<1>1. v \in Memories \cup {None} => [c EXCEPT !.memory = v] \in Configs  BY DEF Configs
<1>2. v \in {"hard", "soft"} => [c EXCEPT !.enforce = v] \in Configs  BY DEF Configs
<1>3. v \in {None, "true", "false"} => [c EXCEPT !.swap = v] \in Configs  BY DEF Configs
<1>4. v \in {None, 5} => [c EXCEPT !.swapPriority = v] \in Configs  BY DEF Configs
<1>5. v \in {None, "percent", "time"} => [c EXCEPT !.allowance = v] \in Configs  BY DEF Configs
<1>6. v \in {None, 7} => [c EXCEPT !.processes = v] \in Configs  BY DEF Configs
<1>7. v \in {None, 0, 3} => [c EXCEPT !.diskPriority = v] \in Configs  BY DEF Configs
<1>8. v \in {None, 2} => [c EXCEPT !.networkPriority = v] \in Configs  BY DEF Configs
<1>9. v \in NicLimits => [c EXCEPT !.nic = v] \in Configs  BY DEF Configs
<1>10. v \in DiskLimits => [c EXCEPT !.root = v] \in Configs  BY DEF Configs
<1>11. v \in DiskLimits \cup {Gone} => [c EXCEPT !.data = v] \in Configs  BY DEF Configs
<1> QED  BY <1>1, <1>2, <1>3, <1>4, <1>5, <1>6, <1>7, <1>8, <1>9, <1>10, <1>11

\* What is asked for is a configuration.
LEMMA ChangesAre ==
  ASSUME LimTypeInv, NEW new \in Changes PROVE new \in Configs
<1>1. conf \in Configs  BY DEF LimTypeInv
<1>2. ASSUME NEW v \in Memories \cup {None}, NEW w \in {"hard", "soft"} PROVE WithMemory(v, w) \in Configs
  <2>1. PICK d \in Configs : d = [conf EXCEPT !.memory = v]  BY <1>1, ConfigWith
  <2>2. WithMemory(v, w) = [d EXCEPT !.enforce = w]  BY <2>1 DEF WithMemory
  <2>3. [d EXCEPT !.enforce = w] \in Configs  BY ConfigWith
  <2> QED  BY <2>2, <2>3
<1>3. ASSUME NEW v \in {None, "true", "false"}, NEW w \in {None, 5} PROVE WithSwap(v, w) \in Configs
  <2>1. PICK d \in Configs : d = [conf EXCEPT !.swap = v]  BY <1>1, ConfigWith
  <2>2. WithSwap(v, w) = [d EXCEPT !.swapPriority = w]  BY <2>1 DEF WithSwap
  <2>3. [d EXCEPT !.swapPriority = w] \in Configs  BY ConfigWith
  <2> QED  BY <2>2, <2>3
<1>4. ASSUME NEW v \in Memories \cup {None}, NEW w \in {None, "false"} PROVE WithMemorySwap(v, w) \in Configs
  <2>1. PICK d \in Configs : d = [conf EXCEPT !.memory = v]  BY <1>1, ConfigWith
  <2>2. WithMemorySwap(v, w) = [d EXCEPT !.swap = w]  BY <2>1 DEF WithMemorySwap
  <2>3. [d EXCEPT !.swap = w] \in Configs  BY ConfigWith
  <2> QED  BY <2>2, <2>3
<1>5. ASSUME NEW v \in {None, "percent", "time"}, NEW w \in {None, 7} PROVE WithCpu(v, w) \in Configs
  <2>1. PICK d \in Configs : d = [conf EXCEPT !.allowance = v]  BY <1>1, ConfigWith
  <2>2. WithCpu(v, w) = [d EXCEPT !.processes = w]  BY <2>1 DEF WithCpu
  <2>3. [d EXCEPT !.processes = w] \in Configs  BY ConfigWith
  <2> QED  BY <2>2, <2>3
<1>6. ASSUME NEW v \in {None, 0, 3}, NEW w \in {None, 2} PROVE WithPriorities(v, w) \in Configs
  <2>1. PICK d \in Configs : d = [conf EXCEPT !.diskPriority = v]  BY <1>1, ConfigWith
  <2>2. WithPriorities(v, w) = [d EXCEPT !.networkPriority = w]  BY <2>1 DEF WithPriorities
  <2>3. [d EXCEPT !.networkPriority = w] \in Configs  BY ConfigWith
  <2> QED  BY <2>2, <2>3
<1>7. ASSUME NEW v \in NicLimits, NEW w \in DiskLimits PROVE WithNic(v, w) \in Configs
  <2>1. PICK d \in Configs : d = [conf EXCEPT !.nic = v]  BY <1>1, ConfigWith
  <2>2. WithNic(v, w) = [d EXCEPT !.root = w]  BY <2>1 DEF WithNic
  <2>3. [d EXCEPT !.root = w] \in Configs  BY ConfigWith
  <2> QED  BY <2>2, <2>3
<1>8. ASSUME NEW v \in DiskLimits \cup {Gone} PROVE WithDisk(v) \in Configs  BY <1>1, ConfigWith DEF WithDisk
<1> QED  BY <1>2, <1>3, <1>4, <1>5, <1>6, <1>7, <1>8 DEF Changes

LEMMA BaseIs == Base \in Configs
<1>1. NoSpeed \in DiskLimits  BY DEF NoSpeed, DiskLimits
<1> QED  BY <1>1 DEF Base, Configs, NicLimits

LEMMA NoUpdateIs == NoUpdate.active = FALSE
BY DEF NoUpdate

\* A step of a part of the kernel leaves the rest.
LEMMA KernelParts ==
  ASSUME NEW k, k = KernelOf(k.memory, k.swappiness, k.cpu, k.weight, k.pids, k.disk, k.prio, k.tc), NEW a
  PROVE  /\ [k EXCEPT !.memory = a] = KernelOf(a, k.swappiness, k.cpu, k.weight, k.pids, k.disk, k.prio, k.tc)
         /\ [k EXCEPT !.cpu = a] = KernelOf(k.memory, k.swappiness, a, k.weight, k.pids, k.disk, k.prio, k.tc)
         /\ [k EXCEPT !.weight = a] = KernelOf(k.memory, k.swappiness, k.cpu, a, k.pids, k.disk, k.prio, k.tc)
         /\ [k EXCEPT !.pids = a] = KernelOf(k.memory, k.swappiness, k.cpu, k.weight, a, k.disk, k.prio, k.tc)
         /\ [k EXCEPT !.prio = a] = KernelOf(k.memory, k.swappiness, k.cpu, k.weight, k.pids, k.disk, a, k.tc)
         /\ [k EXCEPT !.tc = a] = KernelOf(k.memory, k.swappiness, k.cpu, k.weight, k.pids, k.disk, k.prio, a)
<1> PICK m, s, c, w, p, d, i, t : k = [memory |-> m, swappiness |-> s, cpu |-> c, weight |-> w, pids |-> p, disk |-> d, prio |-> i, tc |-> t]
  BY DEF KernelOf
<1>0. k.memory = m /\ k.swappiness = s /\ k.cpu = c /\ k.weight = w /\ k.pids = p /\ k.disk = d /\ k.prio = i /\ k.tc = t
  OBVIOUS
<1>1. [k EXCEPT !.memory = a] = KernelOf(a, k.swappiness, k.cpu, k.weight, k.pids, k.disk, k.prio, k.tc)  BY <1>0 DEF KernelOf
<1>2. [k EXCEPT !.cpu = a] = KernelOf(k.memory, k.swappiness, a, k.weight, k.pids, k.disk, k.prio, k.tc)  BY <1>0 DEF KernelOf
<1>3. [k EXCEPT !.weight = a] = KernelOf(k.memory, k.swappiness, k.cpu, a, k.pids, k.disk, k.prio, k.tc)  BY <1>0 DEF KernelOf
<1>4. [k EXCEPT !.pids = a] = KernelOf(k.memory, k.swappiness, k.cpu, k.weight, a, k.disk, k.prio, k.tc)  BY <1>0 DEF KernelOf
<1>5. [k EXCEPT !.prio = a] = KernelOf(k.memory, k.swappiness, k.cpu, k.weight, k.pids, k.disk, a, k.tc)  BY <1>0 DEF KernelOf
<1>6. [k EXCEPT !.tc = a] = KernelOf(k.memory, k.swappiness, k.cpu, k.weight, k.pids, k.disk, k.prio, a)  BY <1>0 DEF KernelOf
<1> QED  BY <1>1, <1>2, <1>3, <1>4, <1>5, <1>6

LEMMA KernelMemoryParts ==
  ASSUME NEW k, k = KernelOf(k.memory, k.swappiness, k.cpu, k.weight, k.pids, k.disk, k.prio, k.tc), NEW a, NEW b,
         NEW e, e = [k EXCEPT !.memory = a, !.swappiness = b]
  PROVE  e = KernelOf(a, b, k.cpu, k.weight, k.pids, k.disk, k.prio, k.tc)
<1> PICK m, s, c, w, p, d, i, t : k = [memory |-> m, swappiness |-> s, cpu |-> c, weight |-> w, pids |-> p, disk |-> d, prio |-> i, tc |-> t]
  BY DEF KernelOf
<1>0. k.memory = m /\ k.swappiness = s /\ k.cpu = c /\ k.weight = w /\ k.pids = p /\ k.disk = d /\ k.prio = i /\ k.tc = t
  OBVIOUS
<1>1. PICK h : h = [memory |-> a, swappiness |-> s, cpu |-> c, weight |-> w, pids |-> p, disk |-> d, prio |-> i, tc |-> t]
  OBVIOUS
<1>2. h = [k EXCEPT !.memory = a]  BY <1>1
<1>3. e = [h EXCEPT !.swappiness = b]  BY <1>2
<1>4. [h EXCEPT !.swappiness = b] = [memory |-> a, swappiness |-> b, cpu |-> c, weight |-> w, pids |-> p, disk |-> d, prio |-> i, tc |-> t]
  BY <1>1
<1> QED  BY <1>0, <1>3, <1>4 DEF KernelOf

LEMMA KernelDeviceParts ==
  ASSUME NEW k, k = KernelOf(k.memory, k.swappiness, k.cpu, k.weight, k.pids, k.disk, k.prio, k.tc), NEW a, NEW b,
         NEW f, f = [k EXCEPT !.disk = a, !.tc = b]
  PROVE  f = KernelOf(k.memory, k.swappiness, k.cpu, k.weight, k.pids, a, k.prio, b)
<1> PICK m, s, c, w, p, d, i, t : k = [memory |-> m, swappiness |-> s, cpu |-> c, weight |-> w, pids |-> p, disk |-> d, prio |-> i, tc |-> t]
  BY DEF KernelOf
<1>0. k.memory = m /\ k.swappiness = s /\ k.cpu = c /\ k.weight = w /\ k.pids = p /\ k.disk = d /\ k.prio = i /\ k.tc = t
  OBVIOUS
<1>1. PICK h : h = [memory |-> m, swappiness |-> s, cpu |-> c, weight |-> w, pids |-> p, disk |-> a, prio |-> i, tc |-> t]
  OBVIOUS
<1>2. h = [k EXCEPT !.disk = a]  BY <1>1
<1>3. f = [h EXCEPT !.tc = b]  BY <1>2
<1>4. [h EXCEPT !.tc = b] = [memory |-> m, swappiness |-> s, cpu |-> c, weight |-> w, pids |-> p, disk |-> a, prio |-> i, tc |-> b]
  BY <1>1
<1> QED  BY <1>0, <1>3, <1>4 DEF KernelOf

\* A disk without limits counts as none.
LEMMA NoSpeedIsGone ==
  ASSUME NEW c \in Configs, NEW e \in Configs, c.root = e.root, c.data \in {Gone, NoSpeed}, e.data \in {Gone, NoSpeed}
  PROVE  getDiskLimits(c) = getDiskLimits(e)
<1>1. PICK d, z : d = deviceParseDiskLimit(c.root) /\ z = deviceParseDiskLimit(NoSpeed)  OBVIOUS
<1>2. PICK one, two : one = <<d>> \o <<>> /\ two = <<d>> \o <<z>>  OBVIOUS
<1>3. DOMAIN one = {1} /\ DOMAIN two = {1, 2} /\ one[1] = d /\ two[1] = d /\ two[2] = z
  <2>1. Len(one) = 1 /\ one[1] = d /\ one \in Seq({d})  BY <1>2
  <2>2. Len(two) = 2 /\ two[1] = d /\ two[2] = z /\ two \in Seq({d, z})  BY <1>2
  <2> QED  BY <2>1, <2>2
<1>4. ASSUME NEW field \in {"read", "write"} PROVE Average(one, field) = Average(two, field)
  <2>1. z[field] = 0  BY <1>1 DEF deviceParseDiskLimit, NoSpeed
  <2> DEFINE A == {i \in DOMAIN one : one[i][field] > 0}
             B == {i \in DOMAIN two : two[i][field] > 0}
  <2>2. A = B /\ 2 \notin A /\ 2 \notin B
    <3>1. 2 \notin B  BY <1>3, <2>1
    <3>2. 1 \in A <=> 1 \in B  BY <1>3
    <3> QED  BY <1>3, <3>1, <3>2
  <2>3. Average(one, field) = IF A = {} THEN 0
           ELSE ((IF 1 \in A THEN one[1][field] ELSE 0) + (IF 2 \in A THEN one[2][field] ELSE 0)) \div Cardinality(A)
    BY DEF Average
  <2>4. Average(two, field) = IF B = {} THEN 0
           ELSE ((IF 1 \in B THEN two[1][field] ELSE 0) + (IF 2 \in B THEN two[2][field] ELSE 0)) \div Cardinality(B)
    BY DEF Average
  <2> HIDE DEF A, B
  <2>5. (IF 2 \in A THEN one[2][field] ELSE 0) = (IF 2 \in B THEN two[2][field] ELSE 0)  BY <2>2
  <2> QED  BY <1>3, <2>2, <2>3, <2>4, <2>5
<1>5. PICK r, w : /\ r = Average(one, "read") /\ w = Average(one, "write")
                  /\ r = Average(two, "read") /\ w = Average(two, "write")
  BY <1>4
<1>6. ASSUME NEW x \in Configs, x.root = c.root, x.data \in {Gone, NoSpeed}
      PROVE  getDiskLimits(x) = [read |-> r, write |-> w]
  <2>1. CASE x.data = Gone  BY <1>1, <1>2, <1>5, <1>6, <2>1 DEF getDiskLimits
  <2>2. CASE x.data # Gone  BY <1>1, <1>2, <1>5, <1>6, <2>2 DEF getDiskLimits
  <2> QED  BY <2>1, <2>2
<1> QED  BY <1>6

LEMMA MemoryForIs == \A c : MemoryFor(swapAccounting, c) = StartMemory(c)
BY DEF MemoryFor, StartMemory

LEMMA LimInvInit == LimitsInit => LimInv
<1> SUFFICES ASSUME LimitsInit PROVE LimInv  OBVIOUS
<1>1. LimTypeInv  BY BaseIs, NoUpdateIs DEF LimitsInit, LimTypeInv
<1> QED  BY <1>1 DEF LimitsInit, LimInv

LEMMA LimTypeStutter == LimTypeInv /\ UNCHANGED limVars => LimTypeInv'
BY DEF LimTypeInv, limVars, DiffKeys

LEMMA LimUpStutter == LimUp /\ UNCHANGED limVars => LimUp'
<1> SUFFICES ASSUME LimUp, UNCHANGED limVars PROVE LimUp'  OBVIOUS
<1>1. /\ swapAccounting' = swapAccounting /\ conf' = conf /\ kernel' = kernel /\ up' = up /\ upd' = upd /\ hook' = hook
      /\ links' = links /\ netEvent' = netEvent
  BY DEF limVars
<1>2. KernelType(kernel)' /\ (KernelType(upd.before) => KernelType(upd.before)')  BY <1>1 DEF LimUp, KernelType
<1>3. Hooked("nic")' = Hooked("nic")  BY <1>1 DEF Hooked
<1>4. PrioAt(kernel, Now("networkPriority"))' = PrioAt(kernel, Now("networkPriority"))
  BY <1>1 DEF PrioAt, Hooked, Awaited, Now
<1>5. PrioAt(upd.before, conf.networkPriority)' = PrioAt(upd.before, conf.networkPriority)
  BY <1>1 DEF PrioAt, Hooked, Awaited
<1>6. OfUpdate => OfUpdate'  BY <1>1 DEF OfUpdate, Done, Now
<1>7. (OfConf(kernel) => OfConf(kernel)') /\ (OfConf(upd.before) => OfConf(upd.before)')  BY <1>1 DEF OfConf
<1> QED  BY <1>1, <1>2, <1>3, <1>4, <1>5, <1>6, <1>7 DEF LimUp

LEMMA LimInvStutter == LimInv /\ UNCHANGED limVars => LimInv'
<1>1. UNCHANGED limVars => limMarks' = limMarks /\ up' = up  BY DEF limVars
<1> QED  BY <1>1, LimTypeStutter, LimUpStutter DEF LimInv

\* An update that ends without an effect leaves the kernel to the configuration.
LEMMA EndsAsBefore ==
  ASSUME LimInv, upd.active, limMarks \subseteq limMarks', upd' = NoUpdate,
         UNCHANGED <<swapAccounting, conf, up, hook, links, netEvent>>,
         limMarks' = {} => kernel' = kernel /\ upd.before = kernel
  PROVE  LimInv'
<1>1. LimTypeInv'  BY NoUpdateIs DEF LimInv, LimTypeInv
<1>2. ASSUME limMarks' = {}, up' PROVE LimUp'
  <2>1. LimUp /\ kernel' = kernel /\ upd.before = kernel /\ ~upd'.active  BY <1>2, NoUpdateIs DEF LimInv
  <2>2. KernelType(kernel)'  BY <2>1 DEF LimUp, KernelType
  <2>3. Hooked("nic")' = Hooked("nic")  BY DEF Hooked
  <2>4. PrioAt(kernel, conf.networkPriority)
    <3>1. CASE upd.new.networkPriority # conf.networkPriority  BY <2>1, <3>1 DEF LimUp
    <3>2. CASE upd.new.networkPriority = conf.networkPriority
      <4>1. Now("networkPriority") = conf.networkPriority  BY <3>2 DEF Now
      <4> QED  BY <2>1, <4>1 DEF LimUp
    <3> QED  BY <3>1, <3>2
  <2>5. PrioAt(kernel, Now("networkPriority"))'  BY <2>1, <2>4 DEF PrioAt, Hooked, Awaited, Now
  <2>6. OfConf(kernel)'  BY <2>1 DEF LimUp, OfConf
  <2> QED  BY <2>1, <2>2, <2>3, <2>5, <2>6 DEF LimUp
<1> QED  BY <1>1, <1>2 DEF LimInv

LEMMA FailsKeeps ==
  ASSUME LimInv, upd.active, NEW k, NEW marks, Fails(k, marks), limMarks = {} /\ marks = {} => k = kernel
  PROVE  LimInv'
<1>1. /\ upd' = NoUpdate /\ kernel' = k /\ UNCHANGED <<swapAccounting, conf, up, hook, links, netEvent>>
      /\ limMarks' = limMarks \cup (marks \cup (IF upd.before # kernel THEN {"left"} ELSE {}))
  BY DEF Fails, LMark
<1>2. limMarks' = {} => kernel' = kernel /\ upd.before = kernel  BY <1>1
<1> QED  BY <1>1, <1>2, EndsAsBefore

LEMMA UpdateCutKeeps == ASSUME LimInv, UpdateCut PROVE LimInv'
<1>1. CASE hook = {}
  <2>1. /\ upd.active /\ upd' = NoUpdate /\ kernel' = kernel /\ UNCHANGED <<swapAccounting, conf, up, hook, links, netEvent>>
        /\ limMarks' = limMarks \cup (IF upd.before # kernel THEN {"left"} ELSE {})
    BY <1>1 DEF UpdateCut, LMark
  <2>2. limMarks' = {} => upd.before = kernel  BY <2>1
  <2> QED  BY <2>1, <2>2, EndsAsBefore
<1>2. CASE hook # {}
  <2>1. limMarks' # {} /\ LimTypeInv'
    BY <1>2, NoUpdateIs DEF UpdateCut, LMark, LimInv, LimTypeInv
  <2> QED  BY <2>1 DEF LimInv
<1> QED  BY <1>1, <1>2

LEMMA KeysWithout ==
  ASSUME NEW u, NEW a, NEW n, NEW K, NEW B, NEW key, u = [active |-> a, new |-> n, keys |-> K, before |-> B]
  PROVE  [u EXCEPT !.keys = @ \ {key}] = [active |-> a, new |-> n, keys |-> K \ {key}, before |-> B]
OBVIOUS

\* A key that is applied has its new value in the kernel, the rest stays.
LEMMA AppliedKeeps ==
  ASSUME LimInv, upd.active, NEW key \in upd.keys, upd' = [upd EXCEPT !.keys = @ \ {key}], limMarks \subseteq limMarks',
         UNCHANGED <<swapAccounting, conf, up, hook, links, netEvent>>,
         NEW new, new = upd.new,
         limMarks' = {} =>
           /\ KernelType(kernel') /\ kernel'.disk = kernel.disk /\ kernel'.tc = kernel.tc
           /\ kernel'.memory = (IF key \in MemoryKeys THEN MemoryFor(swapAccounting, new) ELSE kernel.memory)
           /\ kernel'.swappiness = (IF key \in {"swap", "swapPriority"} THEN StartSwappiness(new) ELSE kernel.swappiness)
           /\ kernel'.cpu = (IF key = "allowance" THEN deviceParseCPU(new.allowance) ELSE kernel.cpu)
           /\ kernel'.weight = (IF key = "diskPriority" THEN Weight(new.diskPriority) ELSE kernel.weight)
           /\ kernel'.pids = (IF key = "processes" THEN new.processes ELSE kernel.pids)
           /\ kernel'.prio = (IF key = "networkPriority"
                              THEN [i \in Ifaces |-> IF i \in links THEN PrioLevel(new.networkPriority) ELSE kernel.prio[i]]
                              ELSE kernel.prio)
  PROVE  LimInv'
<1>1. PICK K, B : upd = [active |-> TRUE, new |-> new, keys |-> K, before |-> B]  BY DEF LimInv, LimTypeInv
<1>2. upd' = [active |-> TRUE, new |-> new, keys |-> K \ {key}, before |-> B]
  <2>1. PICK u : u = upd  OBVIOUS
  <2>2. PICK T : T = TRUE  OBVIOUS
  <2>3. u = [active |-> T, new |-> new, keys |-> K, before |-> B]  BY <1>1, <2>1, <2>2
  <2>4. upd' = [u EXCEPT !.keys = @ \ {key}]  BY <2>1
  <2>5. [u EXCEPT !.keys = @ \ {key}] = [active |-> T, new |-> new, keys |-> K \ {key}, before |-> B]
    BY ONLY <2>3, KeysWithout
  <2> QED  BY <2>2, <2>4, <2>5
<1>3. /\ upd.active /\ upd.new = new /\ upd.keys = K /\ upd.before = B
      /\ upd'.active /\ upd'.new = new /\ upd'.keys = K \ {key} /\ upd'.before = B
  BY <1>1, <1>2
<1>4. DiffKeys(new)' = DiffKeys(new)  BY DEF DiffKeys
<1>5. new[key] # conf[key] /\ key \in Keys /\ K \subseteq DiffKeys(new) /\ up /\ new \in Configs
  BY <1>3 DEF LimInv, LimTypeInv, DiffKeys
<1>6. LimTypeInv'
  <2>1. upd' = [active |-> TRUE, new |-> upd'.new, keys |-> upd'.keys, before |-> upd'.before]  BY <1>2, <1>3
  <2>2. upd'.keys \subseteq DiffKeys(upd.new)'  BY <1>3, <1>5 DEF DiffKeys
  <2> QED  BY <1>3, <1>5, <2>1, <2>2 DEF LimInv, LimTypeInv
<1>7. ASSUME limMarks' = {} PROVE LimUp'
  <2>1. LimUp /\ limMarks = {}  BY <1>5, <1>7 DEF LimInv
  <2>2. KernelType(kernel)'  BY <1>7 DEF KernelType
  <2>3. Hooked("nic")' = Hooked("nic")  BY DEF Hooked
  <2>4. PrioAt(kernel, Now("networkPriority"))'
    <3>1. CASE key = "networkPriority"
      <4>1. Now("networkPriority")' = new.networkPriority  BY <1>3, <3>1 DEF Now
      <4>2. \A i \in links : kernel'.prio[i] = PrioLevel(new.networkPriority)
        BY <1>7, <3>1 DEF LimInv, LimTypeInv
      <4> QED  BY <4>1, <4>2 DEF PrioAt
    <3>2. CASE key # "networkPriority"
      <4>1. Now("networkPriority")' = Now("networkPriority")  BY <1>3, <3>2 DEF Now
      <4>2. kernel'.prio = kernel.prio  BY <1>7, <3>2
      <4>3. PrioAt(kernel, Now("networkPriority"))  BY <2>1 DEF LimUp
      <4> QED  BY <4>1, <4>2, <4>3 DEF PrioAt, Hooked, Awaited
    <3> QED  BY <3>1, <3>2
  <2>5. OfUpdate'
    <3>0. OfUpdate  BY <1>3, <2>1 DEF LimUp
    <3>1. kernel'.memory = (IF Done(MemoryKeys)' THEN MemoryFor(swapAccounting, new) ELSE MemoryFor(swapAccounting, conf))
      <4>1. CASE key \in MemoryKeys
        <5>1. Done(MemoryKeys)'  BY <1>3, <1>5, <4>1 DEF Done
        <5> QED  BY <1>7, <4>1, <5>1
      <4>2. CASE key \notin MemoryKeys
        <5>1. Done(MemoryKeys)' <=> Done(MemoryKeys)  BY <1>3, <4>2 DEF Done
        <5> QED  BY <1>3, <1>7, <3>0, <4>2, <5>1 DEF OfUpdate
      <4> QED  BY <4>1, <4>2
    <3>2. kernel'.swappiness = (IF Done({"swap", "swapPriority"})' THEN StartSwappiness(new) ELSE StartSwappiness(conf))
      <4>1. CASE key \in {"swap", "swapPriority"}
        <5>1. Done({"swap", "swapPriority"})'  BY <1>3, <1>5, <4>1 DEF Done
        <5> QED  BY <1>7, <4>1, <5>1
      <4>2. CASE key \notin {"swap", "swapPriority"}
        <5>1. Done({"swap", "swapPriority"})' <=> Done({"swap", "swapPriority"})  BY <1>3, <4>2 DEF Done
        <5> QED  BY <1>3, <1>7, <3>0, <4>2, <5>1 DEF OfUpdate
      <4> QED  BY <4>1, <4>2
    <3>3. kernel'.cpu = deviceParseCPU(Now("allowance")')  BY <1>3, <1>7, <3>0 DEF OfUpdate, Now
    <3>4. kernel'.weight = Weight(Now("diskPriority")')  BY <1>3, <1>7, <3>0 DEF OfUpdate, Now
    <3>5. kernel'.pids = Now("processes")'  BY <1>3, <1>7, <3>0 DEF OfUpdate, Now
    <3> QED  BY <1>3, <3>1, <3>2, <3>3, <3>4, <3>5 DEF OfUpdate
  <2>6. KernelType(B)' /\ OfConf(B)'  BY <1>3, <2>1 DEF LimUp, KernelType, OfConf
  <2>7. new.networkPriority # conf.networkPriority => PrioAt(B, conf.networkPriority)'
    BY <1>3, <2>1 DEF LimUp, PrioAt, Hooked, Awaited
  <2>8. kernel'.disk = getDiskLimits(conf) /\ (Hooked("nic") \/ kernel'.tc = setNetworkLimits(conf.nic))
    BY <1>7, <2>1 DEF LimUp
  <2> QED  BY <1>3, <2>2, <2>3, <2>4, <2>5, <2>6, <2>7, <2>8 DEF LimUp
<1> QED  BY <1>5, <1>6, <1>7 DEF LimInv

\* While nothing was overtaken, the memory's limits are a configuration's.
LEMMA MemoryIsSound ==
  ASSUME LimInv, upd.active, limMarks = {} PROVE MemoryInv(kernel.memory) /\ KernelType(kernel)
<1>1. LimUp /\ OfUpdate /\ upd.new \in Configs /\ conf \in Configs  BY DEF LimInv, LimTypeInv, LimUp
<1>2. kernel.memory = StartMemory(upd.new) \/ kernel.memory = StartMemory(conf)  BY <1>1, MemoryForIs DEF OfUpdate
<1> QED  BY <1>1, <1>2, StartMemoryInv DEF LimUp

LEMMA LiveMemoryKeeps == ASSUME LimInv, NEW key \in MemoryKeys, LiveMemory(key) PROVE LimInv'
<1>1. PICK new \in Configs : upd.active /\ key \in upd.keys /\ new = upd.new  BY DEF LiveMemory, LimInv, LimTypeInv
<1>2. PICK steps : steps = MemorySteps(new)  OBVIOUS
<1>3. PICK done : done = AfterSteps(kernel.memory, steps, Len(steps))  OBVIOUS
<1>4. PICK sw : sw = LiveSwappiness(key, new, kernel.swappiness)  OBVIOUS
<1>5. CASE /\ kernel' = [kernel EXCEPT !.memory = done, !.swappiness = sw] /\ upd' = [upd EXCEPT !.keys = @ \ {key}]
           /\ LMark(IF key \in {"swap", "swapPriority"} /\ ~SwapOff(upd.new) /\ upd.new.swapPriority = None
                    THEN {"swappiness"} ELSE {})
           /\ UNCHANGED <<swapAccounting, conf, up, hook, links, netEvent, limEdits, limFaults>>
  <2> DEFINE live == IF key \in {"swap", "swapPriority"} THEN StartSwappiness(new) ELSE kernel.swappiness
  <2>1. ASSUME limMarks' = {}
        PROVE  /\ KernelType(kernel') /\ kernel'.disk = kernel.disk /\ kernel'.tc = kernel.tc
               /\ kernel'.memory = MemoryFor(swapAccounting, new)
               /\ kernel'.swappiness = live
               /\ kernel'.cpu = kernel.cpu /\ kernel'.weight = kernel.weight /\ kernel'.pids = kernel.pids
               /\ kernel'.prio = kernel.prio
    <3>1. /\ limMarks = {}
          /\ key \in {"swap", "swapPriority"} => SwapOff(new) \/ new.swapPriority # None
      BY <1>1, <1>5, <2>1 DEF LMark
    <3>2. MemoryInv(kernel.memory) /\ KernelType(kernel)  BY <1>1, <3>1, MemoryIsSound
    <3>3. kernel' = KernelOf(done, sw, kernel.cpu, kernel.weight, kernel.pids, kernel.disk, kernel.prio, kernel.tc)
      <4>1. kernel = KernelOf(kernel.memory, kernel.swappiness, kernel.cpu, kernel.weight, kernel.pids, kernel.disk, kernel.prio, kernel.tc)
        BY <3>2 DEF KernelType
      <4>2. PICK e : e = [kernel EXCEPT !.memory = done, !.swappiness = sw]  OBVIOUS
      <4>3. e = KernelOf(done, sw, kernel.cpu, kernel.weight, kernel.pids, kernel.disk, kernel.prio, kernel.tc)
        BY <4>1, <4>2, KernelMemoryParts
      <4> QED  BY <1>5, <4>2, <4>3
    <3>4. /\ kernel'.memory = done /\ kernel'.swappiness = sw /\ kernel'.cpu = kernel.cpu /\ kernel'.weight = kernel.weight
          /\ kernel'.pids = kernel.pids /\ kernel'.disk = kernel.disk /\ kernel'.prio = kernel.prio /\ kernel'.tc = kernel.tc
      BY <3>3 DEF KernelOf
    <3>5. KernelType(kernel')  BY <3>2, <3>3, <3>4 DEF KernelType
    <3>6. done = MemoryFor(swapAccounting, new)  BY <1>2, <1>3, <3>2, StepsReach, MemoryForIs
    <3>7. sw = live
      BY <1>4, <3>1 DEF LiveSwappiness, StartSwappiness
    <3> QED  BY <3>4, <3>5, <3>6, <3>7
  <2>2. limMarks \subseteq limMarks'  BY <1>5 DEF LMark
  <2>3. key \notin {"allowance", "diskPriority", "processes", "networkPriority"}  BY DEF MemoryKeys
  <2> HIDE DEF live
  <2>4. limMarks' = {} =>
          /\ KernelType(kernel') /\ kernel'.disk = kernel.disk /\ kernel'.tc = kernel.tc
          /\ kernel'.memory = (IF key \in MemoryKeys THEN MemoryFor(swapAccounting, new) ELSE kernel.memory)
          /\ kernel'.swappiness = live
          /\ kernel'.cpu = (IF key = "allowance" THEN deviceParseCPU(new.allowance) ELSE kernel.cpu)
          /\ kernel'.weight = (IF key = "diskPriority" THEN Weight(new.diskPriority) ELSE kernel.weight)
          /\ kernel'.pids = (IF key = "processes" THEN new.processes ELSE kernel.pids)
          /\ kernel'.prio = (IF key = "networkPriority"
                             THEN [i \in Ifaces |-> IF i \in links THEN PrioLevel(new.networkPriority) ELSE kernel.prio[i]]
                             ELSE kernel.prio)
    BY <2>1, <2>3
  <2>5. /\ LimInv /\ upd.active /\ key \in upd.keys /\ upd' = [upd EXCEPT !.keys = @ \ {key}] /\ new = upd.new
        /\ UNCHANGED <<swapAccounting, conf, up, hook, links, netEvent>>
    BY <1>1, <1>5
  <2> QED  BY <2>2, <2>4, <2>5, AppliedKeeps DEF live
<1>6. ASSUME NEW n \in 0 .. Len(steps) - 1, NEW m, m = AfterSteps(kernel.memory, steps, n), NEW marks,
             marks = IF m.memsw < kernel.memory.limit THEN {"revert"} ELSE {},
             Fails([kernel EXCEPT !.memory = RevertMemory(m, kernel.memory)], marks)
      PROVE  LimInv'
  <2>1. ASSUME limMarks = {}, marks = {} PROVE [kernel EXCEPT !.memory = RevertMemory(m, kernel.memory)] = kernel
    <3>1. MemoryInv(kernel.memory) /\ KernelType(kernel)  BY <1>1, <2>1, MemoryIsSound
    <3>2. Len(steps) \in 0 .. 6 /\ \A i \in 1 .. Len(steps) : MemoryStep(steps[i])  BY <1>2, StepsGoOn
    <3>3. n \in 0 .. 6 /\ \A i \in 1 .. n : MemoryStep(steps[i])  BY <3>2
    <3>4. kernel.memory \in Memory  BY <3>1 DEF MemoryInv
    <3>5. m \in Memory /\ (~swapAccounting => m.memsw = kernel.memory.memsw)  BY <1>6, <3>3, <3>4, AfterKeeps
    <3>6. m.memsw >= kernel.memory.limit
      <4>1. ~(m.memsw < kernel.memory.limit)  BY <1>6, <2>1
      <4>2. m.memsw \in Nat /\ kernel.memory.limit \in Nat  BY <3>4, <3>5 DEF Memory
      <4> QED  BY ONLY <4>1, <4>2
    <3>7. RevertMemory(m, kernel.memory) = kernel.memory  BY <3>1, <3>5, <3>6, RevertIs
    <3>8. kernel = KernelOf(kernel.memory, kernel.swappiness, kernel.cpu, kernel.weight, kernel.pids, kernel.disk, kernel.prio, kernel.tc)
      BY <3>1 DEF KernelType
    <3>9. [kernel EXCEPT !.memory = kernel.memory] = kernel  BY ONLY <3>8, KernelParts
    <3> QED  BY <3>7, <3>9
  <2> QED  BY <1>1, <1>6, <2>1, FailsKeeps
<1>7. CASE Fails([kernel EXCEPT !.memory = done], {"left"})
  <2>1. limMarks = {} /\ {"left"} = {} => [kernel EXCEPT !.memory = done] = kernel  OBVIOUS
  <2> QED  BY <1>1, <1>7, <2>1, FailsKeeps
<1>8. \/ /\ kernel' = [kernel EXCEPT !.memory = done, !.swappiness = sw] /\ upd' = [upd EXCEPT !.keys = @ \ {key}]
         /\ LMark(IF key \in {"swap", "swapPriority"} /\ ~SwapOff(upd.new) /\ upd.new.swapPriority = None
                  THEN {"swappiness"} ELSE {})
         /\ UNCHANGED <<swapAccounting, conf, up, hook, links, netEvent, limEdits, limFaults>>
      \/ \E n \in 0 .. Len(steps) - 1 :
             LET m == AfterSteps(kernel.memory, steps, n)
             IN Fails([kernel EXCEPT !.memory = RevertMemory(m, kernel.memory)],
                      IF m.memsw < kernel.memory.limit THEN {"revert"} ELSE {})
      \/ Fails([kernel EXCEPT !.memory = done], {"left"})
  BY <1>1, <1>2, <1>3, <1>4 DEF LiveMemory
<1> QED  BY <1>5, <1>6, <1>7, <1>8

LEMMA LivePartsKeep ==
  ASSUME LimInv, LiveDiskPriority \/ LiveNetworkPriority \/ LiveCpu \/ LiveProcesses PROVE LimInv'
<1>1. PICK new : new = upd.new /\ upd.active
  BY DEF LiveDiskPriority, LiveNetworkPriority, LiveCpu, LiveProcesses
<1>2. limMarks = {} => KernelType(kernel)  BY <1>1, MemoryIsSound
<1>3. ASSUME NEW key \in upd.keys, NEW k, Applied(key, k),
             limMarks = {} =>
               /\ KernelType(k) /\ k.disk = kernel.disk /\ k.tc = kernel.tc
               /\ key \notin MemoryKeys /\ k.memory = kernel.memory /\ k.swappiness = kernel.swappiness
               /\ k.cpu = (IF key = "allowance" THEN deviceParseCPU(new.allowance) ELSE kernel.cpu)
               /\ k.weight = (IF key = "diskPriority" THEN Weight(new.diskPriority) ELSE kernel.weight)
               /\ k.pids = (IF key = "processes" THEN new.processes ELSE kernel.pids)
               /\ k.prio = (IF key = "networkPriority"
                            THEN [i \in Ifaces |-> IF i \in links THEN PrioLevel(new.networkPriority) ELSE kernel.prio[i]]
                            ELSE kernel.prio)
      PROVE  LimInv'
  <2>1. /\ kernel' = k /\ upd' = [upd EXCEPT !.keys = @ \ {key}] /\ limMarks' = limMarks
        /\ UNCHANGED <<swapAccounting, conf, up, hook, links, netEvent>>
    BY <1>3 DEF Applied
  <2>2. key \notin MemoryKeys => key \notin {"swap", "swapPriority"}  BY DEF MemoryKeys
  <2> QED  BY <1>1, <1>3, <2>1, <2>2, AppliedKeeps
<1>4. Fails(kernel, {}) => LimInv'  BY <1>1, FailsKeeps
<1>5. CASE LiveDiskPriority
  <2>1. CASE "diskPriority" \in upd.keys /\ Applied("diskPriority", [kernel EXCEPT !.weight = Weight(upd.new.diskPriority)])
    <3>1. PICK w : w = Weight(new.diskPriority)  OBVIOUS
    <3>2. PICK k : k = [kernel EXCEPT !.weight = w]  OBVIOUS
    <3>3. ASSUME limMarks = {}
          PROVE  k = KernelOf(kernel.memory, kernel.swappiness, kernel.cpu, w, kernel.pids, kernel.disk, kernel.prio, kernel.tc)
      BY <1>2, <3>2, <3>3, KernelParts DEF KernelType
    <3>4. limMarks = {} => /\ k.memory = kernel.memory /\ k.swappiness = kernel.swappiness /\ k.cpu = kernel.cpu
                           /\ k.weight = w /\ k.pids = kernel.pids /\ k.disk = kernel.disk
                           /\ k.prio = kernel.prio /\ k.tc = kernel.tc
      BY <3>3 DEF KernelOf
    <3>5. limMarks = {} => KernelType(k)  BY <1>2, <3>3, <3>4 DEF KernelType
    <3>6. Applied("diskPriority", k)  BY <1>1, <2>1, <3>1, <3>2
    <3> QED  BY <1>3, <2>1, <3>1, <3>4, <3>5, <3>6 DEF MemoryKeys
  <2> QED  BY <1>4, <1>5, <2>1 DEF LiveDiskPriority
<1>6. CASE LiveProcesses
  <2>1. CASE "processes" \in upd.keys /\ Applied("processes", [kernel EXCEPT !.pids = upd.new.processes])
    <3>1. PICK w : w = new.processes  OBVIOUS
    <3>2. PICK k : k = [kernel EXCEPT !.pids = w]  OBVIOUS
    <3>3. ASSUME limMarks = {}
          PROVE  k = KernelOf(kernel.memory, kernel.swappiness, kernel.cpu, kernel.weight, w, kernel.disk, kernel.prio, kernel.tc)
      BY <1>2, <3>2, <3>3, KernelParts DEF KernelType
    <3>4. limMarks = {} => /\ k.memory = kernel.memory /\ k.swappiness = kernel.swappiness /\ k.cpu = kernel.cpu
                           /\ k.weight = kernel.weight /\ k.pids = w /\ k.disk = kernel.disk
                           /\ k.prio = kernel.prio /\ k.tc = kernel.tc
      BY <3>3 DEF KernelOf
    <3>5. limMarks = {} => KernelType(k)  BY <1>2, <3>3, <3>4 DEF KernelType
    <3>6. Applied("processes", k)  BY <1>1, <2>1, <3>1, <3>2
    <3> QED  BY <1>3, <2>1, <3>1, <3>4, <3>5, <3>6 DEF MemoryKeys
  <2> QED  BY <1>4, <1>6, <2>1 DEF LiveProcesses
<1>7. CASE LiveCpu
  <2>1. PICK w : w = deviceParseCPU(new.allowance)  OBVIOUS
  <2>2. CASE "allowance" \in upd.keys /\ Applied("allowance", [kernel EXCEPT !.cpu = w])
    <3>2. PICK k : k = [kernel EXCEPT !.cpu = w]  OBVIOUS
    <3>3. ASSUME limMarks = {}
          PROVE  k = KernelOf(kernel.memory, kernel.swappiness, w, kernel.weight, kernel.pids, kernel.disk, kernel.prio, kernel.tc)
      BY <1>2, <3>2, <3>3, KernelParts DEF KernelType
    <3>4. limMarks = {} => /\ k.memory = kernel.memory /\ k.swappiness = kernel.swappiness /\ k.cpu = w
                           /\ k.weight = kernel.weight /\ k.pids = kernel.pids /\ k.disk = kernel.disk
                           /\ k.prio = kernel.prio /\ k.tc = kernel.tc
      BY <3>3 DEF KernelOf
    <3>5. limMarks = {} => KernelType(k)  BY <1>2, <3>3, <3>4 DEF KernelType
    <3>6. Applied("allowance", k)  BY <2>2, <3>2
    <3> QED  BY <1>3, <2>1, <2>2, <3>4, <3>5, <3>6 DEF MemoryKeys
  <2>3. CASE Fails([kernel EXCEPT !.cpu.shares = w.shares], {"left"})
    <3>1. PICK k : k = [kernel EXCEPT !.cpu.shares = w.shares]  OBVIOUS
    <3>2. Fails(k, {"left"}) /\ {"left"} # {}  BY <2>3, <3>1
    <3> QED  BY <1>1, <3>2, FailsKeeps
  <2> QED  BY <1>1, <1>4, <1>7, <2>1, <2>2, <2>3 DEF LiveCpu
<1>8. CASE LiveNetworkPriority
  <2>1. CASE "networkPriority" \in upd.keys /\ Applied("networkPriority", WithPriority(kernel, PriorityOf(upd.new)))
    <3>1. PICK w : w = [i \in Ifaces |-> IF i \in links THEN PrioLevel(new.networkPriority) ELSE kernel.prio[i]]  OBVIOUS
    <3>2. PICK k : k = [kernel EXCEPT !.prio = w]  OBVIOUS
    <3>3. ASSUME limMarks = {}
          PROVE  k = KernelOf(kernel.memory, kernel.swappiness, kernel.cpu, kernel.weight, kernel.pids, kernel.disk, w, kernel.tc)
      BY <1>2, <3>2, <3>3, KernelParts DEF KernelType
    <3>4. limMarks = {} => /\ k.memory = kernel.memory /\ k.swappiness = kernel.swappiness /\ k.cpu = kernel.cpu
                           /\ k.weight = kernel.weight /\ k.pids = kernel.pids /\ k.disk = kernel.disk
                           /\ k.prio = w /\ k.tc = kernel.tc
      BY <3>3 DEF KernelOf
    <3>5. limMarks = {} => KernelType(k)
      <4>1. limMarks = {} => \A i \in Ifaces \ links : kernel.prio[i] = 0  BY <1>2 DEF KernelType
      <4>2. w = [i \in Ifaces |-> w[i]] /\ \A i \in Ifaces \ links : w[i] = kernel.prio[i]  BY <3>1
      <4> QED  BY <3>3, <3>4, <4>1, <4>2 DEF KernelType
    <3>6. Applied("networkPriority", k)
      <4>1. PriorityOf(upd.new) = PrioLevel(new.networkPriority)  BY <1>1 DEF PriorityOf, PrioLevel
      <4> QED  BY <2>1, <3>1, <3>2, <4>1 DEF WithPriority
    <3> QED  BY <1>3, <2>1, <3>1, <3>4, <3>5, <3>6 DEF MemoryKeys
  <2> QED  BY <1>4, <1>8, <2>1 DEF LiveNetworkPriority
<1> QED  BY <1>5, <1>6, <1>7, <1>8

LEMMA StartLimitsKeeps == ASSUME LimInv, StartLimits PROVE LimInv'
<1>1. PICK c \in Configs : c = conf  BY DEF LimInv, LimTypeInv
<1>2. /\ ~up /\ ~upd.active /\ up' /\ kernel' = initMERCURY(c)
      /\ UNCHANGED <<swapAccounting, conf, upd, links, netEvent, limMarks>>
      /\ hook' = {[what |-> "networkPriority", value |-> c.networkPriority] : x \in IF c.networkPriority = None THEN {} ELSE {1}}
                 \cup {[what |-> "nic", value |-> c.nic] : x \in IF c.nic = NoNicLimit THEN {} ELSE {1}}
  BY <1>1 DEF StartLimits, LimInv, LimTypeInv
<1>3. c.networkPriority \in {None, 2}  BY DEF Configs
<1>4. \A h \in hook' : (h.what = "networkPriority" /\ h.value = 2) \/ h.what = "nic"
  <2> TAKE h \in hook'
  <2>1. \/ h = [what |-> "networkPriority", value |-> c.networkPriority] /\ c.networkPriority # None
        \/ h = [what |-> "nic", value |-> c.nic]
    BY <1>2
  <2> QED  BY <1>3, <2>1
<1>5. LimTypeInv'  BY <1>2, <1>4 DEF LimInv, LimTypeInv, DiffKeys
<1>6. LimUp'
  <2>1. kernel' = KernelOf(StartMemory(c), StartSwappiness(c), deviceParseCPU(c.allowance), Weight(c.diskPriority), c.processes,
                           getDiskLimits(c), [i \in Ifaces |-> 0], NoTraffic)
    BY <1>2 DEF initMERCURY, KernelOf
  <2>2. /\ kernel'.memory = StartMemory(c) /\ kernel'.swappiness = StartSwappiness(c)
        /\ kernel'.cpu = deviceParseCPU(c.allowance) /\ kernel'.weight = Weight(c.diskPriority)
        /\ kernel'.pids = c.processes /\ kernel'.disk = getDiskLimits(c) /\ kernel'.prio = [i \in Ifaces |-> 0]
        /\ kernel'.tc = NoTraffic
    BY <2>1 DEF KernelOf
  <2>3. KernelType(kernel)'
    <3>1. kernel' = KernelOf(kernel'.memory, kernel'.swappiness, kernel'.cpu, kernel'.weight, kernel'.pids, kernel'.disk,
                             kernel'.prio, kernel'.tc)
      BY <2>1, <2>2
    <3>2. kernel'.prio = [i \in Ifaces |-> kernel'.prio[i]] /\ \A i \in Ifaces : kernel'.prio[i] = 0  BY <2>2
    <3> QED  BY <1>2, <3>1, <3>2 DEF KernelType
  <2>4. Hooked("nic")' \/ kernel'.tc = setNetworkLimits(c.nic)
    <3>1. CASE c.nic = NoNicLimit  BY <2>2, <3>1 DEF setNetworkLimits, NoNicLimit, NoTraffic
    <3>2. CASE c.nic # NoNicLimit
      <4>1. [what |-> "nic", value |-> c.nic] \in hook'  BY <1>2, <3>2
      <4> QED  BY <4>1 DEF Hooked
    <3> QED  BY <3>1, <3>2
  <2>5. PrioAt(kernel, Now("networkPriority"))'
    <3>1. CASE c.networkPriority = None
      <4>1. Now("networkPriority")' = None  BY <1>1, <1>2, <3>1 DEF Now
      <4>2. \A i \in links' : kernel'.prio[i] = 0  BY <1>2, <2>2 DEF LimInv, LimTypeInv
      <4> QED  BY <4>1, <4>2 DEF PrioAt, PrioLevel
    <3>2. CASE c.networkPriority # None
      <4>1. [what |-> "networkPriority", value |-> c.networkPriority] \in hook'  BY <1>2, <3>2
      <4> QED  BY <4>1 DEF Hooked, PrioAt
    <3> QED  BY <3>1, <3>2
  <2>6. OfConf(kernel)'  BY <1>1, <1>2, <2>2, MemoryForIs DEF OfConf
  <2> QED  BY <1>1, <1>2, <2>2, <2>3, <2>4, <2>5, <2>6 DEF LimUp
<1> QED  BY <1>5, <1>6 DEF LimInv

LEMMA StopLimitsKeeps == ASSUME LimInv, StopLimits PROVE LimInv'
BY DEF StopLimits, LimInv, LimTypeInv, DiffKeys

LEMMA NewInterfaceKeeps == ASSUME LimInv, NEW i \in Ifaces, NewInterface(i) PROVE LimInv'
<1>1. /\ i \notin links /\ links' = links \cup {i} /\ ~netEvent.on
      /\ netEvent' = [on |-> TRUE, iface |-> i, value |-> conf.networkPriority]
      /\ UNCHANGED <<swapAccounting, conf, kernel, up, upd, hook, limMarks>>
  BY DEF NewInterface
<1>2. netEvent'.on /\ netEvent'.iface = i /\ netEvent'.value = conf.networkPriority  BY <1>1
<1>3. conf.networkPriority \in {None, 2}  BY DEF LimInv, LimTypeInv, Configs
<1>4. LimTypeInv'  BY <1>1, <1>2, <1>3 DEF LimInv, LimTypeInv, DiffKeys
<1>5. ASSUME NEW k, KernelType(k), NEW p, PrioAt(k, p) PROVE PrioAt(k, p)'
  <2>1. k.prio[i] = 0  BY <1>1, <1>5 DEF KernelType
  <2>2. \A j \in links : ~Awaited(j)  BY <1>1 DEF Awaited
  <2>3. Awaited(i)'  BY <1>2 DEF Awaited
  <2>4. Hooked("networkPriority")' = Hooked("networkPriority")  BY <1>1 DEF Hooked
  <2> QED  BY <1>1, <1>5, <2>1, <2>2, <2>3, <2>4 DEF PrioAt
<1>6. ASSUME limMarks' = {}, up' PROVE LimUp'
  <2>1. LimUp  BY <1>1, <1>6 DEF LimInv
  <2> PICK k, b, n : k = kernel /\ b = upd.before /\ n = upd  OBVIOUS
  <2> PICK c, p : c = conf /\ p = Now("networkPriority")  OBVIOUS
  <2>2. kernel' = k /\ upd'.before = b /\ upd' = n /\ conf' = c /\ Now("networkPriority")' = p  BY <1>1 DEF Now
  <2>3. PrioAt(k, p) /\ KernelType(k)  BY <2>1 DEF LimUp
  <2>4. PrioAt(k, p)'  BY <1>5, <2>3
  <2>5. PrioAt(kernel, Now("networkPriority"))'  BY <2>2, <2>4 DEF PrioAt
  <2>6. KernelType(kernel)'  BY <1>1, <2>1 DEF LimUp, KernelType
  <2>7. upd.active => KernelType(upd.before)'  BY <1>1, <2>1 DEF LimUp, KernelType
  <2>8. upd.active /\ upd.new.networkPriority # conf.networkPriority => PrioAt(upd.before, conf.networkPriority)'
    <3> SUFFICES ASSUME upd.active, upd.new.networkPriority # conf.networkPriority
                 PROVE  PrioAt(upd.before, conf.networkPriority)'
      OBVIOUS
    <3> PICK q : q = conf.networkPriority  OBVIOUS
    <3>1. PrioAt(b, q) /\ KernelType(b)  BY <2>1 DEF LimUp
    <3>2. PrioAt(b, q)'  BY <1>5, <3>1
    <3>3. conf'.networkPriority = q  BY <1>1
    <3> QED  BY <2>2, <3>2, <3>3 DEF PrioAt
  <2>9. Hooked("nic")' = Hooked("nic")  BY <1>1 DEF Hooked
  <2>10. OfUpdate => OfUpdate'  BY <1>1 DEF OfUpdate, Done, Now
  <2>11. (OfConf(kernel) => OfConf(kernel)') /\ (OfConf(upd.before) => OfConf(upd.before)')  BY <1>1 DEF OfConf
  <2> QED  BY <1>1, <2>1, <2>5, <2>6, <2>7, <2>8, <2>9, <2>10, <2>11 DEF LimUp
<1> QED  BY <1>4, <1>6 DEF LimInv

\* What goroutines set is the network's alone.
LEMMA SetsKeep ==
  ASSUME LimInv, up, UNCHANGED <<swapAccounting, conf, up, upd, links>>, limMarks \subseteq limMarks', LimTypeInv',
         limMarks' = {} =>
           /\ KernelType(kernel') /\ kernel'.memory = kernel.memory /\ kernel'.swappiness = kernel.swappiness
           /\ kernel'.cpu = kernel.cpu /\ kernel'.weight = kernel.weight /\ kernel'.pids = kernel.pids
           /\ kernel'.disk = kernel.disk
           /\ Hooked("nic")' \/ kernel'.tc = setNetworkLimits(conf.nic)
           /\ PrioAt(kernel, Now("networkPriority"))'
           /\ upd.active /\ upd.new.networkPriority # conf.networkPriority => PrioAt(upd.before, conf.networkPriority)'
  PROVE  LimInv'
<1>1. ASSUME limMarks' = {} PROVE LimUp'
  <2>1. LimUp  BY <1>1 DEF LimInv
  <2>2. KernelType(kernel)' /\ (upd.active => KernelType(upd.before)')  BY <1>1, <2>1 DEF LimUp, KernelType
  <2>3. upd.active => OfUpdate' /\ OfConf(upd.before)'  BY <1>1, <2>1 DEF LimUp, OfUpdate, Done, Now, OfConf
  <2>4. ~upd.active => OfConf(kernel)'  BY <1>1, <2>1 DEF LimUp, OfConf
  <2>5. kernel'.disk = getDiskLimits(conf)  BY <1>1, <2>1 DEF LimUp
  <2> QED  BY <1>1, <2>2, <2>3, <2>4, <2>5 DEF LimUp
<1> QED  BY <1>1 DEF LimInv

LEMMA OnStartSetsKeeps == ASSUME LimInv, NEW h \in hook, OnStartSets(h) PROVE LimInv'
<1>1. /\ up /\ hook' = hook \ {h} /\ UNCHANGED <<swapAccounting, conf, up, upd, links, netEvent>>
      /\ kernel' = IF h.what = "nic" THEN [kernel EXCEPT !.tc = setNetworkLimits(h.value)] ELSE WithPriority(kernel, h.value)
      /\ limMarks' = limMarks \cup (IF conf[h.what] # h.value \/ (upd.active /\ upd.new[h.what] # h.value) THEN {"hook"} ELSE {})
  BY DEF OnStartSets, LMark
<1>2. LimTypeInv'  BY <1>1 DEF LimInv, LimTypeInv, DiffKeys
<1>3. ASSUME limMarks' = {}
      PROVE  /\ LimUp /\ conf[h.what] = h.value /\ (upd.active => upd.new[h.what] = h.value)
             /\ kernel = KernelOf(kernel.memory, kernel.swappiness, kernel.cpu, kernel.weight, kernel.pids, kernel.disk,
                                  kernel.prio, kernel.tc)
  BY <1>1, <1>3 DEF LimInv, LimUp, KernelType
<1>4. CASE h.what = "nic"
  <2> SUFFICES ASSUME limMarks' = {}
               PROVE  /\ KernelType(kernel') /\ kernel'.memory = kernel.memory /\ kernel'.swappiness = kernel.swappiness
                      /\ kernel'.cpu = kernel.cpu /\ kernel'.weight = kernel.weight /\ kernel'.pids = kernel.pids
                      /\ kernel'.disk = kernel.disk
                      /\ Hooked("nic")' \/ kernel'.tc = setNetworkLimits(conf.nic)
                      /\ PrioAt(kernel, Now("networkPriority"))'
                      /\ upd.active /\ upd.new.networkPriority # conf.networkPriority => PrioAt(upd.before, conf.networkPriority)'
    BY <1>1, <1>2, SetsKeep
  <2>1. PICK t : t = setNetworkLimits(conf.nic)  OBVIOUS
  <2>2. conf.nic = h.value /\ kernel' = [kernel EXCEPT !.tc = t]  BY <1>1, <1>3, <1>4, <2>1
  <2>3. kernel' = KernelOf(kernel.memory, kernel.swappiness, kernel.cpu, kernel.weight, kernel.pids, kernel.disk, kernel.prio, t)
    BY <1>3, <2>2, KernelParts
  <2>4. /\ kernel'.memory = kernel.memory /\ kernel'.swappiness = kernel.swappiness
        /\ kernel'.cpu = kernel.cpu /\ kernel'.weight = kernel.weight /\ kernel'.pids = kernel.pids
        /\ kernel'.disk = kernel.disk /\ kernel'.prio = kernel.prio /\ kernel'.tc = t
    BY <2>3 DEF KernelOf
  <2>5. KernelType(kernel')  BY <1>3, <2>3, <2>4 DEF KernelType, LimUp
  <2>6. Hooked("networkPriority")' = Hooked("networkPriority")  BY <1>1, <1>4 DEF Hooked
  <2>7. PrioAt(kernel, Now("networkPriority"))'  BY <1>1, <1>3, <2>4, <2>6 DEF LimUp, PrioAt, Awaited, Now
  <2>8. upd.active /\ upd.new.networkPriority # conf.networkPriority => PrioAt(upd.before, conf.networkPriority)'
    BY <1>1, <1>3, <2>6 DEF LimUp, PrioAt, Awaited
  <2> QED  BY <2>1, <2>4, <2>5, <2>7, <2>8
<1>5. CASE h.what # "nic"
  <2> SUFFICES ASSUME limMarks' = {}
               PROVE  /\ KernelType(kernel') /\ kernel'.memory = kernel.memory /\ kernel'.swappiness = kernel.swappiness
                      /\ kernel'.cpu = kernel.cpu /\ kernel'.weight = kernel.weight /\ kernel'.pids = kernel.pids
                      /\ kernel'.disk = kernel.disk
                      /\ Hooked("nic")' \/ kernel'.tc = setNetworkLimits(conf.nic)
                      /\ PrioAt(kernel, Now("networkPriority"))'
                      /\ upd.active /\ upd.new.networkPriority # conf.networkPriority => PrioAt(upd.before, conf.networkPriority)'
    BY <1>1, <1>2, SetsKeep
  <2>1. PICK w : w = [i \in Ifaces |-> IF i \in links THEN 2 ELSE kernel.prio[i]]  OBVIOUS
  <2>2. h.what = "networkPriority" /\ h.value = 2  BY <1>5 DEF LimInv, LimTypeInv
  <2>3. kernel' = [kernel EXCEPT !.prio = w]  BY <1>1, <1>5, <2>1, <2>2 DEF WithPriority
  <2>4. kernel' = KernelOf(kernel.memory, kernel.swappiness, kernel.cpu, kernel.weight, kernel.pids, kernel.disk, w, kernel.tc)
    BY <1>3, <2>3, KernelParts
  <2>5. /\ kernel'.memory = kernel.memory /\ kernel'.swappiness = kernel.swappiness
        /\ kernel'.cpu = kernel.cpu /\ kernel'.weight = kernel.weight /\ kernel'.pids = kernel.pids
        /\ kernel'.disk = kernel.disk /\ kernel'.prio = w /\ kernel'.tc = kernel.tc
    BY <2>4 DEF KernelOf
  <2>6. KernelType(kernel')
    <3>1. \A i \in Ifaces \ links : w[i] = 0  BY <1>3, <2>1 DEF LimUp, KernelType
    <3>2. w = [i \in Ifaces |-> w[i]]  BY <2>1
    <3> QED  BY <2>4, <2>5, <3>1, <3>2 DEF KernelType
  <2>7. conf.networkPriority = 2 /\ (upd.active => upd.new.networkPriority = 2)  BY <1>3, <2>2
  <2>8. PrioAt(kernel, Now("networkPriority"))'
    <3>1. Now("networkPriority")' = 2  BY <1>1, <2>7 DEF Now
    <3>2. PrioLevel(2) = 2  BY LimitsAssumption DEF PrioLevel
    <3>3. \A i \in links' : kernel'.prio[i] = 2  BY <1>1, <2>1, <2>5 DEF LimInv, LimTypeInv
    <3> QED  BY <3>1, <3>2, <3>3 DEF PrioAt
  <2>9. Hooked("nic")' = Hooked("nic")  BY <1>1, <1>5 DEF Hooked
  <2> QED  BY <1>3, <2>5, <2>6, <2>7, <2>8, <2>9 DEF LimUp
<1> QED  BY <1>4, <1>5

LEMMA deviceNetworkPriorityKeeps == ASSUME LimInv, deviceNetworkPriority PROVE LimInv'
<1>1. PICK i \in links, v \in {None, 2} :
        netEvent = [on |-> TRUE, iface |-> i, value |-> v] /\ netEvent.on /\ netEvent.iface = i /\ netEvent.value = v
  BY DEF deviceNetworkPriority, LimInv, LimTypeInv
<1>2. /\ netEvent' = [on |-> FALSE]
      /\ kernel' = IF up /\ v # None THEN [kernel EXCEPT !.prio[i] = v] ELSE kernel
      /\ limMarks' = limMarks \cup (IF up /\ (v # conf.networkPriority \/ (upd.active /\ v # upd.new.networkPriority))
                                    THEN {"event"} ELSE {})
      /\ UNCHANGED <<swapAccounting, conf, up, upd, hook, links>>
  BY <1>1 DEF deviceNetworkPriority, LMark
<1>3. ~netEvent'.on  BY <1>2
<1>4. LimTypeInv'  BY <1>2, <1>3 DEF LimInv, LimTypeInv, DiffKeys
<1>5. CASE ~up  BY <1>2, <1>4, <1>5 DEF LimInv
<1>6. CASE up
  <2> SUFFICES ASSUME limMarks' = {}
               PROVE  /\ KernelType(kernel') /\ kernel'.memory = kernel.memory /\ kernel'.swappiness = kernel.swappiness
                      /\ kernel'.cpu = kernel.cpu /\ kernel'.weight = kernel.weight /\ kernel'.pids = kernel.pids
                      /\ kernel'.disk = kernel.disk
                      /\ Hooked("nic")' \/ kernel'.tc = setNetworkLimits(conf.nic)
                      /\ PrioAt(kernel, Now("networkPriority"))'
                      /\ upd.active /\ upd.new.networkPriority # conf.networkPriority => PrioAt(upd.before, conf.networkPriority)'
    BY <1>2, <1>4, <1>6, SetsKeep
  <2>1. /\ LimUp /\ conf.networkPriority = v /\ (upd.active => upd.new.networkPriority = v) /\ KernelType(kernel)
    BY <1>2, <1>6 DEF LimInv, LimUp
  <2>2. PICK w : w = IF v # None THEN [kernel.prio EXCEPT ![i] = v] ELSE kernel.prio  OBVIOUS
  <2>3. kernel' = KernelOf(kernel.memory, kernel.swappiness, kernel.cpu, kernel.weight, kernel.pids, kernel.disk, w, kernel.tc)
    <3>1. CASE v = None  BY <1>2, <2>1, <2>2, <3>1 DEF KernelType
    <3>2. CASE v # None
      <4>1. kernel' = [kernel EXCEPT !.prio = w]  BY <1>2, <1>6, <2>2, <3>2
      <4> QED  BY <2>1, <4>1, KernelParts DEF KernelType
    <3> QED  BY <3>1, <3>2
  <2>4. /\ kernel'.memory = kernel.memory /\ kernel'.swappiness = kernel.swappiness
        /\ kernel'.cpu = kernel.cpu /\ kernel'.weight = kernel.weight /\ kernel'.pids = kernel.pids
        /\ kernel'.disk = kernel.disk /\ kernel'.prio = w /\ kernel'.tc = kernel.tc
    BY <2>3 DEF KernelOf
  <2>5. /\ kernel.prio = [j \in Ifaces |-> kernel.prio[j]] /\ \A j \in Ifaces \ links : kernel.prio[j] = 0
        /\ i \in Ifaces /\ links \subseteq Ifaces
    BY <2>1 DEF KernelType, LimInv, LimTypeInv
  <2>6. /\ w = [j \in Ifaces |-> w[j]] /\ \A j \in Ifaces \ {i} : w[j] = kernel.prio[j]
        /\ v # None => w[i] = v
        /\ v = None => w[i] = kernel.prio[i]
    BY <2>2, <2>5
  <2>7. KernelType(kernel')  BY <2>3, <2>4, <2>5, <2>6 DEF KernelType
  <2>8. Hooked("nic")' = Hooked("nic") /\ Hooked("networkPriority")' = Hooked("networkPriority")  BY <1>2 DEF Hooked
  <2>9. PrioAt(kernel, Now("networkPriority"))'
    <3>1. CASE Hooked("networkPriority")  BY <2>8, <3>1 DEF PrioAt
    <3>2. CASE ~Hooked("networkPriority")
      <4>1. Now("networkPriority") = v /\ Now("networkPriority")' = v  BY <1>2, <2>1 DEF Now
      <4>2. \A j \in links : IF Awaited(j) THEN kernel.prio[j] \in {0, PrioLevel(v)} ELSE kernel.prio[j] = PrioLevel(v)
        BY <2>1, <3>2, <4>1 DEF LimUp, PrioAt
      <4>3. \A j \in links : Awaited(j) <=> j = i  BY <1>1 DEF Awaited
      <4>4. \A j \in links : w[j] = PrioLevel(v)
        <5> TAKE j \in links
        <5>1. CASE j # i  BY <2>5, <2>6, <4>2, <4>3, <5>1
        <5>2. CASE j = i /\ v = None  BY <2>6, <4>2, <4>3, <5>2 DEF PrioLevel
        <5>3. CASE j = i /\ v # None  BY <2>6, <5>3 DEF PrioLevel
        <5> QED  BY <5>1, <5>2, <5>3
      <4>5. \A j \in links' : ~Awaited(j)'  BY <1>3 DEF Awaited
      <4> QED  BY <1>2, <2>4, <4>1, <4>4, <4>5 DEF PrioAt
    <3> QED  BY <3>1, <3>2
  <2> QED  BY <2>1, <2>4, <2>7, <2>8, <2>9 DEF LimUp
<1> QED  BY <1>5, <1>6

LEMMA UpdateLimitsKeeps == ASSUME LimInv, NEW new \in Changes, UpdateLimits(new) PROVE LimInv'
<1>1. new \in Configs  BY ChangesAre DEF LimInv
<1>2. /\ ~upd.active /\ UNCHANGED <<swapAccounting, kernel, up, hook, links, netEvent, limMarks>>
      /\ IF up THEN upd' = [active |-> TRUE, new |-> new, keys |-> DiffKeys(new), before |-> kernel] /\ UNCHANGED conf
               ELSE conf' = new /\ UNCHANGED upd
  BY DEF UpdateLimits
<1>3. CASE ~up  BY <1>1, <1>2, <1>3 DEF LimInv, LimTypeInv
<1>4. CASE up
  <2>1. PICK K, B : K = DiffKeys(new) /\ B = kernel  OBVIOUS
  <2>2. upd' = [active |-> TRUE, new |-> new, keys |-> K, before |-> B] /\ conf' = conf  BY <1>2, <1>4, <2>1
  <2>3. upd'.active /\ upd'.new = new /\ upd'.keys = K /\ upd'.before = B  BY <2>2
  <2>4. upd' = [active |-> TRUE, new |-> upd'.new, keys |-> upd'.keys, before |-> upd'.before]  BY <2>2, <2>3
  <2>5. upd'.keys \subseteq DiffKeys(upd.new)'  BY <2>1, <2>2, <2>3 DEF DiffKeys
  <2>6. LimTypeInv'  BY <1>1, <1>2, <1>4, <2>2, <2>3, <2>4, <2>5 DEF LimInv, LimTypeInv
  <2>7. ASSUME limMarks' = {} PROVE LimUp'
    <3>1. LimUp /\ ~upd.active  BY <1>2, <1>4, <2>7 DEF LimInv
    <3>2. \A k \in Keys : k \notin K => new[k] = conf[k]  BY <2>1 DEF DiffKeys
    <3>3. Now("networkPriority")' = conf.networkPriority /\ Now("networkPriority") = conf.networkPriority
      BY <1>2, <2>2, <2>3, <3>1, <3>2 DEF Now, Keys
    <3>4. PrioAt(kernel, conf.networkPriority)  BY <3>1, <3>3 DEF LimUp
    <3>5. PrioAt(kernel, Now("networkPriority"))' /\ PrioAt(upd.before, conf.networkPriority)'
      BY <1>2, <2>1, <2>2, <2>3, <3>3, <3>4 DEF PrioAt, Hooked, Awaited
    <3>6. OfConf(kernel) /\ KernelType(kernel)  BY <3>1 DEF LimUp
    <3>7. OfUpdate'
      <4>1. ~Done(MemoryKeys)' /\ ~Done({"swap", "swapPriority"})'  BY <2>2, <2>3, <3>2 DEF Done, Keys, MemoryKeys
      <4>2. Now("allowance")' = conf.allowance /\ Now("diskPriority")' = conf.diskPriority /\ Now("processes")' = conf.processes
        BY <2>2, <2>3, <3>2 DEF Now, Keys
      <4> QED  BY <1>2, <2>2, <3>6, <4>1, <4>2 DEF OfUpdate, OfConf
    <3>8. KernelType(kernel)' /\ KernelType(upd.before)'  BY <1>2, <2>1, <2>3, <3>6 DEF KernelType
    <3>9. OfConf(upd.before)'  BY <1>2, <2>1, <2>2, <2>3, <3>6 DEF OfConf
    <3>10. Hooked("nic")' = Hooked("nic")  BY <1>2 DEF Hooked
    <3> QED  BY <1>2, <2>2, <2>3, <3>1, <3>5, <3>7, <3>8, <3>9, <3>10 DEF LimUp
  <2> QED  BY <2>6, <2>7 DEF LimInv
<1> QED  BY <1>3, <1>4

\* What the kernel has of a configuration depends on the keys that are its own.
LEMMA SameMemory ==
  ASSUME NEW c, NEW e, \A k \in MemoryKeys : c[k] = e[k]
  PROVE  MemoryFor(swapAccounting, c) = MemoryFor(swapAccounting, e)
<1>1. c.memory = e.memory /\ c.enforce = e.enforce /\ c.swap = e.swap  BY DEF MemoryKeys
<1>2. SwapOff(c) = SwapOff(e)  BY <1>1 DEF SwapOff
<1> QED  BY <1>1, <1>2 DEF MemoryFor

LEMMA SameSwappiness ==
  ASSUME NEW c, NEW e, \A k \in {"swap", "swapPriority"} : c[k] = e[k]
  PROVE  StartSwappiness(c) = StartSwappiness(e)
<1>1. c.swap = e.swap /\ c.swapPriority = e.swapPriority  OBVIOUS
<1>2. SwapOff(c) = SwapOff(e)  BY <1>1 DEF SwapOff
<1> QED  BY <1>1, <1>2 DEF StartSwappiness

LEMMA SameDisks ==
  ASSUME NEW c \in Configs, NEW e \in Configs, c.root = e.root,
         c.data = e.data \/ (Gone \in {c.data, e.data} /\ {c.data, e.data} \ {Gone, NoSpeed} = {})
  PROVE  getDiskLimits(c) = getDiskLimits(e)
<1>1. CASE c.data = e.data  BY <1>1 DEF getDiskLimits
<1>2. CASE {c.data, e.data} \ {Gone, NoSpeed} = {}
  <2>1. c.data \in {Gone, NoSpeed} /\ e.data \in {Gone, NoSpeed}  BY <1>2
  <2> QED  BY <2>1, NoSpeedIsGone
<1> QED  BY <1>1, <1>2

\* Where all keys are applied, the kernel has the new configuration's values.
LEMMA AllApplied ==
  ASSUME LimInv, upd.active, upd.keys = {}, limMarks = {}
  PROVE  /\ kernel.memory = MemoryFor(swapAccounting, upd.new) /\ kernel.swappiness = StartSwappiness(upd.new)
         /\ kernel.cpu = deviceParseCPU(upd.new.allowance) /\ kernel.weight = Weight(upd.new.diskPriority)
         /\ kernel.pids = upd.new.processes /\ PrioAt(kernel, upd.new.networkPriority)
<1>1. LimUp /\ OfUpdate  BY DEF LimInv, LimTypeInv, LimUp
<1>2. kernel.memory = MemoryFor(swapAccounting, upd.new)
  <2>1. CASE Done(MemoryKeys)  BY <1>1, <2>1 DEF OfUpdate
  <2>2. CASE ~Done(MemoryKeys)
    <3>1. \A k \in MemoryKeys : upd.new[k] = conf[k]  BY <2>2 DEF Done
    <3> QED  BY <1>1, <2>2, <3>1, SameMemory DEF OfUpdate
  <2> QED  BY <2>1, <2>2
<1>3. kernel.swappiness = StartSwappiness(upd.new)
  <2>1. CASE Done({"swap", "swapPriority"})  BY <1>1, <2>1 DEF OfUpdate
  <2>2. CASE ~Done({"swap", "swapPriority"})
    <3>1. \A k \in {"swap", "swapPriority"} : upd.new[k] = conf[k]  BY <2>2 DEF Done
    <3> QED  BY <1>1, <2>2, <3>1, SameSwappiness DEF OfUpdate
  <2> QED  BY <2>1, <2>2
<1>4. /\ Now("allowance") = upd.new.allowance /\ Now("diskPriority") = upd.new.diskPriority
      /\ Now("processes") = upd.new.processes /\ Now("networkPriority") = upd.new.networkPriority
  BY DEF Now
<1> QED  BY <1>1, <1>2, <1>3, <1>4 DEF OfUpdate, LimUp

LEMMA CommitLimitsKeeps == ASSUME LimInv, CommitLimits PROVE LimInv'
<1>1. PICK new \in Configs : new = upd.new /\ upd.active /\ upd.keys = {} /\ conf \in Configs
  BY DEF CommitLimits, LimInv, LimTypeInv
<1>2. PICK nicNew \in BOOLEAN : nicNew = (new.nic # conf.nic)  OBVIOUS
<1>3. PICK disk : disk = IF DiskUpdated THEN getDiskLimits(new) ELSE kernel.disk  OBVIOUS
<1>4. PICK tc : tc = IF nicNew THEN setNetworkLimits(new.nic) ELSE kernel.tc  OBVIOUS
<1>5. CASE /\ conf' = new /\ upd' = NoUpdate /\ kernel' = [kernel EXCEPT !.disk = disk, !.tc = tc]
           /\ LMark(IF DiskCame THEN {"devices"} ELSE {})
           /\ UNCHANGED <<swapAccounting, up, hook, links, netEvent, limEdits, limFaults>>
  <2>1. LimTypeInv'  BY <1>5, NoUpdateIs DEF LimInv, LimTypeInv
  <2>2. ASSUME limMarks' = {}, up' PROVE LimUp'
    <3>1. LimUp /\ limMarks = {} /\ ~DiskCame  BY <1>5, <2>2 DEF LMark, LimInv
    <3>2. kernel = KernelOf(kernel.memory, kernel.swappiness, kernel.cpu, kernel.weight, kernel.pids, kernel.disk,
                            kernel.prio, kernel.tc)
      BY <3>1 DEF LimUp, KernelType
    <3>3. kernel' = KernelOf(kernel.memory, kernel.swappiness, kernel.cpu, kernel.weight, kernel.pids, disk, kernel.prio, tc)
      <4>1. PICK f : f = [kernel EXCEPT !.disk = disk, !.tc = tc]  OBVIOUS
      <4>2. f = KernelOf(kernel.memory, kernel.swappiness, kernel.cpu, kernel.weight, kernel.pids, disk, kernel.prio, tc)
        BY <3>2, <4>1, KernelDeviceParts
      <4> QED  BY <1>5, <4>1, <4>2
    <3>4. /\ kernel'.memory = kernel.memory /\ kernel'.swappiness = kernel.swappiness
          /\ kernel'.cpu = kernel.cpu /\ kernel'.weight = kernel.weight /\ kernel'.pids = kernel.pids
          /\ kernel'.disk = disk /\ kernel'.prio = kernel.prio /\ kernel'.tc = tc
      BY <3>3 DEF KernelOf
    <3>5. KernelType(kernel)'
      <4>1. links' = links  BY <1>5
      <4> QED  BY <3>1, <3>3, <3>4, <4>1 DEF KernelType, LimUp
    <3>6. kernel'.disk = getDiskLimits(conf')
      <4>1. CASE DiskUpdated  BY <1>3, <1>5, <3>4, <4>1
      <4>2. CASE ~DiskUpdated
        <5>1. new.root = conf.root /\ (new.data = conf.data \/ Gone \in {new.data, conf.data})
          BY <1>1, <4>2 DEF DiskUpdated
        <5>2. Gone \in {new.data, conf.data} => {new.data, conf.data} \ {Gone, NoSpeed} = {}
          BY <1>1, <3>1 DEF DiskCame
        <5>3. getDiskLimits(new) = getDiskLimits(conf)
          <6>1. PICK c \in Configs : c = conf  BY <1>1
          <6>2. getDiskLimits(new) = getDiskLimits(c)  BY <5>1, <5>2, <6>1, SameDisks
          <6> QED  BY <6>1, <6>2
        <5> QED  BY <1>3, <1>5, <3>1, <3>4, <4>2, <5>3 DEF LimUp
      <4> QED  BY <4>1, <4>2
    <3>7. Hooked("nic")' \/ kernel'.tc = setNetworkLimits(conf'.nic)
      <4>1. Hooked("nic")' = Hooked("nic")  BY <1>5 DEF Hooked
      <4>2. CASE nicNew  BY <1>4, <1>5, <3>4, <4>2
      <4>3. CASE ~nicNew
        <5>1. conf'.nic = conf.nic /\ kernel'.tc = kernel.tc  BY <1>2, <1>4, <1>5, <3>4, <4>3
        <5> QED  BY <3>1, <4>1, <5>1 DEF LimUp
      <4> QED  BY <4>2, <4>3
    <3>8. ~upd'.active  BY <1>5, NoUpdateIs
    <3>9. PrioAt(kernel, Now("networkPriority"))'
      <4>1. PrioAt(kernel, new.networkPriority)  BY <1>1, <3>1, AllApplied
      <4>2. Now("networkPriority")' = new.networkPriority  BY <1>5, <3>8 DEF Now
      <4> QED  BY <1>5, <3>4, <4>1, <4>2 DEF PrioAt, Hooked, Awaited
    <3>10. OfConf(kernel)'
      <4>1. /\ kernel.memory = MemoryFor(swapAccounting, new) /\ kernel.swappiness = StartSwappiness(new)
            /\ kernel.cpu = deviceParseCPU(new.allowance) /\ kernel.weight = Weight(new.diskPriority)
            /\ kernel.pids = new.processes
        BY <1>1, <3>1, AllApplied
      <4> QED  BY <1>5, <3>4, <4>1 DEF OfConf
    <3> QED  BY <3>5, <3>6, <3>7, <3>8, <3>9, <3>10 DEF LimUp
  <2> QED  BY <2>1, <2>2 DEF LimInv
<1>6. ASSUME NEW k, Fails(k, {"left"}) PROVE LimInv'
  <2>1. {"left"} # {}  OBVIOUS
  <2> QED  BY <1>1, <1>6, <2>1, FailsKeeps
<1>7. CASE Fails([kernel EXCEPT !.disk = disk, !.tc = tc], IF nicNew \/ DiskUpdated THEN {"left"} ELSE {})
  <2>1. PICK k : k = [kernel EXCEPT !.disk = disk, !.tc = tc]  OBVIOUS
  <2>2. CASE nicNew \/ DiskUpdated  BY <1>6, <1>7, <2>2
  <2>3. CASE ~nicNew /\ ~DiskUpdated
    <3>1. Fails(k, {})  BY <1>7, <2>1, <2>3
    <3>2. disk = kernel.disk /\ tc = kernel.tc  BY <1>3, <1>4, <2>3
    <3>3. ASSUME limMarks = {} PROVE k = kernel
      <4>1. kernel = KernelOf(kernel.memory, kernel.swappiness, kernel.cpu, kernel.weight, kernel.pids, kernel.disk,
                              kernel.prio, kernel.tc)
        BY <1>1, <3>3, MemoryIsSound DEF KernelType
      <4>2. k = [kernel EXCEPT !.disk = kernel.disk, !.tc = kernel.tc]  BY <2>1, <3>2
      <4> QED  BY <4>1, <4>2, KernelDeviceParts
    <3> QED  BY <1>1, <3>1, <3>3, FailsKeeps
  <2> QED  BY <2>2, <2>3
<1>8. \/ /\ conf' = new /\ upd' = NoUpdate /\ kernel' = [kernel EXCEPT !.disk = disk, !.tc = tc]
         /\ LMark(IF DiskCame THEN {"devices"} ELSE {})
         /\ UNCHANGED <<swapAccounting, up, hook, links, netEvent, limEdits, limFaults>>
      \/ \E k : Fails(k, {"left"})
      \/ Fails([kernel EXCEPT !.disk = disk, !.tc = tc], IF nicNew \/ DiskUpdated THEN {"left"} ELSE {})
  BY <1>1, <1>2, <1>3, <1>4 DEF CommitLimits
<1> QED  BY <1>5, <1>6, <1>7, <1>8

LEMMA LimInvNext == LimInv /\ LimitsNext => LimInv'
<1> SUFFICES ASSUME LimInv, LimitsNext PROVE LimInv'  OBVIOUS
<1>1. CASE StartLimits  BY <1>1, StartLimitsKeeps
<1>2. CASE StopLimits  BY <1>2, StopLimitsKeeps
<1>3. CASE deviceNetworkPriority  BY <1>3, deviceNetworkPriorityKeeps
<1>4. ASSUME NEW h \in hook, OnStartSets(h) PROVE LimInv'  BY <1>4, OnStartSetsKeeps
<1>5. ASSUME NEW i \in Ifaces, NewInterface(i) PROVE LimInv'  BY <1>5, NewInterfaceKeeps
<1>6. ASSUME NEW new \in Changes, UpdateLimits(new) PROVE LimInv'  BY <1>6, UpdateLimitsKeeps
<1>7. ASSUME NEW key \in MemoryKeys, LiveMemory(key) PROVE LimInv'  BY <1>7, LiveMemoryKeeps
<1>8. CASE LiveDiskPriority \/ LiveNetworkPriority \/ LiveCpu \/ LiveProcesses  BY <1>8, LivePartsKeep
<1>9. CASE CommitLimits  BY <1>9, CommitLimitsKeeps
<1>10. CASE UpdateCut  BY <1>10, UpdateCutKeeps
<1> QED  BY <1>1, <1>2, <1>3, <1>4, <1>5, <1>6, <1>7, <1>8, <1>9, <1>10 DEF LimitsNext

\* The average of the disks looks at one part of their limits only.
LEMMA AverageOfPart ==
  ASSUME NEW S, NEW T, NEW part, DOMAIN S = DOMAIN T, DOMAIN S \subseteq {1, 2},
         \A i \in DOMAIN S : S[i][part] = T[i][part]
  PROVE  Average(S, part) = Average(T, part)
<1> DEFINE A == {i \in DOMAIN S : S[i][part] > 0}
           B == {i \in DOMAIN T : T[i][part] > 0}
<1>1. A = B  OBVIOUS
<1>2. (1 \in A => S[1][part] = T[1][part]) /\ (2 \in A => S[2][part] = T[2][part])  OBVIOUS
<1>3. Average(S, part) = IF A = {} THEN 0
         ELSE ((IF 1 \in A THEN S[1][part] ELSE 0) + (IF 2 \in A THEN S[2][part] ELSE 0)) \div Cardinality(A)
  BY DEF Average
<1>4. Average(T, part) = IF B = {} THEN 0
         ELSE ((IF 1 \in B THEN T[1][part] ELSE 0) + (IF 2 \in B THEN T[2][part] ELSE 0)) \div Cardinality(B)
  BY DEF Average
<1> HIDE DEF A, B
<1> QED  BY <1>1, <1>2, <1>3, <1>4

\* What the code makes of the disks' limits is what is said of them, but for
\* those on writing alone.
LEMMA DisksAsSaid ==
  ASSUME NEW c
  PROVE  /\ getDiskLimits(c).read = DiskLimitsSaid(c).read
         /\ getDiskLimits(c).write = DiskLimitsSaid(c).write \/ WriteAlone(c)
<1>1. PICK d, e, f, g : /\ d = deviceParseDiskLimit(c.root) /\ e = deviceParseDiskLimit(c.data)
                        /\ f = SaidOf(c.root) /\ g = SaidOf(c.data)
  OBVIOUS
<1>2. d["read"] = f["read"] /\ e["read"] = g["read"]  BY <1>1 DEF deviceParseDiskLimit, SaidOf
<1>3. ~WriteAlone(c) => d["write"] = f["write"] /\ (c.data # Gone => e["write"] = g["write"])
  BY <1>1 DEF deviceParseDiskLimit, SaidOf, WriteAlone, WriteOnly
<1>4. CASE c.data = Gone
  <2>1. PICK S, T : S = <<d>> \o <<>> /\ T = <<f>> \o <<>>  OBVIOUS
  <2>2. DOMAIN S = {1} /\ S[1] = d  BY <2>1
  <2>3. DOMAIN T = {1} /\ T[1] = f  BY <2>1
  <2>4. Average(S, "read") = Average(T, "read")  BY <1>2, <2>2, <2>3, AverageOfPart
  <2>5. ~WriteAlone(c) => Average(S, "write") = Average(T, "write")  BY <1>3, <2>2, <2>3, AverageOfPart
  <2>6. getDiskLimits(c) = [read |-> Average(S, "read"), write |-> Average(S, "write")]
    BY <1>1, <1>4, <2>1 DEF getDiskLimits
  <2>7. DiskLimitsSaid(c) = [read |-> Average(T, "read"), write |-> Average(T, "write")]
    BY <1>1, <1>4, <2>1 DEF DiskLimitsSaid
  <2> QED  BY <2>4, <2>5, <2>6, <2>7
<1>5. CASE c.data # Gone
  <2>1. PICK S, T : S = <<d>> \o <<e>> /\ T = <<f>> \o <<g>>  OBVIOUS
  <2>2. DOMAIN S = {1, 2} /\ S[1] = d /\ S[2] = e
    <3>1. Len(S) = 2 /\ S[1] = d /\ S[2] = e /\ S \in Seq({d, e})  BY <2>1
    <3> QED  BY <3>1
  <2>3. DOMAIN T = {1, 2} /\ T[1] = f /\ T[2] = g
    <3>1. Len(T) = 2 /\ T[1] = f /\ T[2] = g /\ T \in Seq({f, g})  BY <2>1
    <3> QED  BY <3>1
  <2>4. Average(S, "read") = Average(T, "read")  BY <1>2, <2>2, <2>3, AverageOfPart
  <2>5. ~WriteAlone(c) => Average(S, "write") = Average(T, "write")  BY <1>3, <1>5, <2>2, <2>3, AverageOfPart
  <2>6. getDiskLimits(c) = [read |-> Average(S, "read"), write |-> Average(S, "write")]
    BY <1>1, <1>5, <2>1 DEF getDiskLimits
  <2>7. DiskLimitsSaid(c) = [read |-> Average(T, "read"), write |-> Average(T, "write")]
    BY <1>1, <1>5, <2>1 DEF DiskLimitsSaid
  <2> QED  BY <2>4, <2>5, <2>6, <2>7
<1> QED  BY <1>4, <1>5

LEMMA HoldByInv == LimInv => LimitsHold
<1> SUFFICES ASSUME LimInv, limMarks = {}, up, ~upd.active, hook = {}, ~netEvent.on
             PROVE  /\ kernel = [initMERCURY(conf) EXCEPT !.tc = setNetworkLimits(conf.nic), !.disk = kernel.disk,
                                                          !.prio = [i \in Ifaces |-> IF i \in links THEN PriorityOf(conf) ELSE 0]]
                    /\ kernel.disk.read = DiskLimitsSaid(conf).read
                    /\ kernel.disk.write = DiskLimitsSaid(conf).write \/ WriteAlone(conf)
  BY DEF LimitsHold
<1> PICK t, p : t = setNetworkLimits(conf.nic) /\ p = [i \in Ifaces |-> IF i \in links THEN PriorityOf(conf) ELSE 0]
  OBVIOUS
<1>1. LimUp /\ KernelType(kernel) /\ OfConf(kernel)  BY DEF LimInv, LimUp
<1>2. PICK m, s, c, w, d : /\ m = StartMemory(conf) /\ s = StartSwappiness(conf) /\ c = deviceParseCPU(conf.allowance)
                           /\ w = Weight(conf.diskPriority) /\ d = getDiskLimits(conf)
  OBVIOUS
<1>3. initMERCURY(conf) = [memory |-> m, swappiness |-> s, cpu |-> c, weight |-> w, pids |-> conf.processes,
                           disk |-> d, prio |-> [i \in Ifaces |-> 0], tc |-> NoTraffic]
  BY <1>2 DEF initMERCURY
<1>4. PICK f : f = [initMERCURY(conf) EXCEPT !.tc = t, !.disk = kernel.disk, !.prio = p]  BY Zenon
<1>0. kernel.disk = d  BY <1>1, <1>2 DEF LimUp
<1>5. f = KernelOf(m, s, c, w, conf.processes, d, p, t)
  <2>1. PICK q : q = [i \in Ifaces |-> 0]  OBVIOUS
  <2>2. PICK k : k = [memory |-> m, swappiness |-> s, cpu |-> c, weight |-> w, pids |-> conf.processes,
                      disk |-> d, prio |-> q, tc |-> NoTraffic]
    OBVIOUS
  <2>3. PICK h : h = [memory |-> m, swappiness |-> s, cpu |-> c, weight |-> w, pids |-> conf.processes,
                      disk |-> d, prio |-> q, tc |-> t]
    OBVIOUS
  <2>4. h = [k EXCEPT !.tc = t]  BY <2>2, <2>3
  <2>5. f = [k EXCEPT !.tc = t, !.disk = d, !.prio = p]  BY <1>0, <1>3, <1>4, <2>1, <2>2
  <2>7. h = [h EXCEPT !.disk = d]  BY <2>3
  <2>6. f = [h EXCEPT !.prio = p]  BY <2>4, <2>5, <2>7
  <2> QED  BY <2>3, <2>6 DEF KernelOf
<1>6. kernel.tc = t
  <2>1. ~Hooked("nic")  BY DEF Hooked
  <2> QED  BY <1>1, <2>1 DEF LimUp
<1>7. kernel.prio = p
  <2>1. ~Hooked("networkPriority") /\ \A i \in links : ~Awaited(i)  BY DEF Hooked, Awaited
  <2>2. Now("networkPriority") = conf.networkPriority  BY DEF Now
  <2>3. \A i \in links : kernel.prio[i] = PriorityOf(conf)  BY <1>1, <2>1, <2>2 DEF LimUp, PrioAt, PriorityOf, PrioLevel
  <2>4. \A i \in Ifaces : kernel.prio[i] = IF i \in links THEN PriorityOf(conf) ELSE 0  BY <1>1, <2>3 DEF KernelType
  <2> QED  BY <1>1, <2>4 DEF KernelType
<1>8. /\ kernel.memory = m /\ kernel.swappiness = s /\ kernel.cpu = c /\ kernel.weight = w /\ kernel.pids = conf.processes
      /\ kernel.disk = d
  BY <1>1, <1>2, MemoryForIs DEF OfConf, LimUp
<1>9. kernel = KernelOf(kernel.memory, kernel.swappiness, kernel.cpu, kernel.weight, kernel.pids, kernel.disk, kernel.prio, kernel.tc)
  BY <1>1 DEF KernelType
<1>10. kernel = f  BY <1>5, <1>6, <1>7, <1>8, <1>9
<1> QED  BY <1>0, <1>2, <1>4, <1>10, DisksAsSaid

-----------------------------------------------------------------------------
(* The CPU scheduler (Scheduler). *)

\* A rebalance that has not read yet is to come.
ToRead == chCPU > 0 \/ chSched > 0 \/ bal.at = "read"

Balances ==
  /\ bal.at \in {"idle", "read", "choose"}
  /\ bal = [at |-> bal.at, cpus |-> bal.cpus, lim |-> bal.lim, pin |-> bal.pin]
  /\ bal.at # "choose" => bal.cpus = {} /\ bal.lim = [c \in {} |-> NoLimit] /\ bal.pin = [c \in {} |-> {}]

SchedTypeInv ==
  /\ online \subseteq Cpus /\ online # {}
  /\ limit \in [Loads -> LimitType] /\ cstate \in [Loads -> {"stopped", "starting", "running"}]
  /\ cpuset \in [Loads -> SUBSET Cpus] /\ asked \in [Loads -> SUBSET LimitType]
  /\ chCPU \in Nat /\ chSched \in Nat /\ early \subseteq Loads /\ Balances

\* min(count, len(cpus))
AtMost(n, S) == IF n < Cardinality(S) THEN n ELSE Cardinality(S)

\* The choice so far: what is pinned, and sets of the size that is asked for.
Chosen(c) ==
  LET l == parseCpuset(bal.lim[c], bal.cpus)
  IN /\ l.pin # {} => bal.pin[c] = l.pin
     /\ l.pin = {} /\ bal.pin[c] # {} => Cardinality(bal.pin[c]) = AtMost(l.n, bal.cpus)

\* The containers that only ask for a number keep the CPUs even.
Counts(S, lim) == \A c \in S : lim[c].kind = "count" /\ lim[c].n > 0

ChoiceInv ==
  bal.at = "choose" =>
    /\ bal.cpus \subseteq Cpus /\ bal.cpus # {} /\ DOMAIN bal.pin \subseteq Loads
    /\ bal.pin = [c \in DOMAIN bal.pin |-> bal.pin[c]]
    /\ \A c \in DOMAIN bal.pin : bal.lim[c] \in LimitType /\ bal.pin[c] \subseteq bal.cpus /\ Chosen(c)
    /\ Counts(DOMAIN bal.pin, bal.lim) => \A i, j \in bal.cpus : Usage(i) <= Usage(j) + 1

\* What has changed since the rebalance read it asks for another.
ReadInv ==
  bal.at = "choose" /\ ~ToRead =>
    /\ bal.cpus = online
    /\ \A c \in Loads : cstate[c] # "stopped" => c \in DOMAIN bal.pin /\ (c \notin early => bal.lim[c] = limit[c])
    /\ \A c \in DOMAIN bal.pin : cstate[c] = "stopped" => c \in ending \/ early = Loads

Spread == Counts(Running, limit) => \A i, j \in online : Share(i) <= Share(j) + 1

SchedInv ==
  /\ SchedTypeInv /\ ChoiceInv /\ ReadInv
  /\ \A c \in Loads : cstate[c] = "starting" \/ (cstate[c] = "running" /\ asked[c] # {}) => ToRead \/ c \in early
  /\ ~ToRead /\ bal.at = "idle" =>
       /\ \A c \in Running \ early : Granted(c)
       /\ early = {} /\ ending = {} => Spread

LEMMA RestingIs ==
  Resting.at = "idle" /\ Resting = [at |-> "idle", cpus |-> {}, lim |-> [c \in {} |-> NoLimit], pin |-> [c \in {} |-> {}]]
BY DEF Resting

LEMMA CpusetOf ==
  ASSUME NEW l \in LimitType, NEW S \in SUBSET Cpus, S # {}
  PROVE  /\ parseCpuset(l, S).n \in Nat /\ parseCpuset(l, S).pin \subseteq S /\ (parseCpuset(l, S).n > 0 => parseCpuset(l, S).pin = {})
         /\ l.kind = "count" => parseCpuset(l, S).n = l.n /\ parseCpuset(l, S).pin = {}
<1>1. S \subseteq Nat /\ l.n \in Nat  BY SchedulerAssumption DEF LimitType
<1>2. PICK i \in Nat : i = CHOOSE j \in S : TRUE  BY <1>1
<1>3. CASE l.kind = "count"  BY <1>1, <1>3 DEF parseCpuset
<1>4. CASE l.kind = "pin"  BY <1>4 DEF parseCpuset
<1>5. CASE l.kind \notin {"count", "pin"}
  <2>1. parseCpuset(l, S) = IF Cardinality(S) = 1 THEN [n |-> i, pin |-> {}] ELSE [n |-> 0, pin |-> S]
    BY <1>2, <1>5 DEF parseCpuset
  <2>2. CASE Cardinality(S) = 1  BY <1>5, <2>1, <2>2
  <2>3. CASE Cardinality(S) # 1  BY <1>5, <2>1, <2>3
  <2> QED  BY <2>2, <2>3
<1> QED  BY <1>3, <1>4, <1>5

LEMMA CpusAreFinite == ASSUME NEW S \in SUBSET Cpus PROVE IsFiniteSet(S) /\ Cardinality(S) \in Nat
BY SchedulerAssumption, FS_Subset, FS_CardinalityType

LEMMA LoadsAreFinite == ASSUME NEW S \in SUBSET Loads PROVE IsFiniteSet(S) /\ Cardinality(S) \in Nat
BY SchedulerAssumption, FS_Subset, FS_CardinalityType

LEMMA SchedInvInit == SchedulerInit => SchedInv
<1> SUFFICES ASSUME SchedulerInit PROVE SchedInv  OBVIOUS
<1>1. SchedTypeInv  BY RestingIs, SchedulerAssumption DEF SchedulerInit, SchedTypeInv, Balances
<1>2. bal.at = "idle" /\ Running = {} /\ \A c \in Loads : cstate[c] = "stopped"
  BY RestingIs DEF SchedulerInit, Running
<1>3. Spread
  <2> SUFFICES ASSUME NEW i \in online, NEW j \in online PROVE Share(i) <= Share(j) + 1  BY DEF Spread
  <2>1. {c \in Running : i \in cpuset[c]} = {} /\ {c \in Running : j \in cpuset[c]} = {}  BY <1>2
  <2>2. Share(i) = 0 /\ Share(j) = 0  BY <2>1, FS_EmptySet DEF Share
  <2> QED  BY <2>2
<1> QED  BY <1>1, <1>2, <1>3 DEF SchedInv, ChoiceInv, ReadInv

LEMMA SchedInvStutter == SchedInv /\ UNCHANGED schedVars => SchedInv'
<1> SUFFICES ASSUME SchedInv, UNCHANGED schedVars PROVE SchedInv'  OBVIOUS
<1>1. /\ online' = online /\ limit' = limit /\ cstate' = cstate /\ cpuset' = cpuset /\ chCPU' = chCPU /\ chSched' = chSched
      /\ bal' = bal /\ asked' = asked /\ ending' = ending /\ early' = early
  BY DEF schedVars
<1>2. SchedTypeInv'  BY <1>1 DEF SchedInv, SchedTypeInv, Balances
<1>3. ChoiceInv'
  <2>1. (\A c : Chosen(c)' = Chosen(c)) /\ \A i : Usage(i)' = Usage(i)  BY <1>1 DEF Chosen, Usage
  <2> QED  BY <1>1, <2>1 DEF SchedInv, ChoiceInv, Counts
<1>4. ToRead' = ToRead  BY <1>1 DEF ToRead
<1>5. ReadInv'  BY <1>1, <1>4 DEF SchedInv, ReadInv
<1>6. Running' = Running  BY <1>1 DEF Running
<1>7. Spread' = Spread  BY <1>1, <1>6 DEF Spread, Share, Counts
<1>8. \A c : Granted(c)' = Granted(c)  BY <1>1 DEF Granted
<1> QED  BY <1>1, <1>2, <1>3, <1>4, <1>5, <1>6, <1>7, <1>8 DEF SchedInv

\* The choice is the rebalance's own.
LEMMA ChoiceStays == ASSUME ChoiceInv, bal' = bal PROVE ChoiceInv'
BY DEF ChoiceInv, Chosen, Counts, Usage

\* With an event in a channel a rebalance is to come that reads everything.
LEMMA EventKeeps ==
  ASSUME SchedInv, SchedTypeInv', bal' = bal, chCPU' > 0 \/ chSched' > 0 PROVE SchedInv'
<1>1. ToRead'  BY DEF ToRead
<1>2. ChoiceInv'  BY ChoiceStays DEF SchedInv
<1> QED  BY <1>1, <1>2 DEF SchedInv, ReadInv

LEMMA TriggerFills ==
  ASSUME SchedTypeInv, deviceTaskSchedulerTrigger PROVE chSched' \in Nat /\ chSched' > 0
BY DEF SchedTypeInv, deviceTaskSchedulerTrigger

LEMMA NetlinkKeeps == ASSUME SchedInv, NEW i \in Cpus, deviceNetlinkListener(i) PROVE SchedInv'
<1>1. /\ online' = (IF i \in online THEN online \ {i} ELSE online \cup {i}) /\ online # {i}
      /\ cpuset' = [c \in Loads |-> cpuset[c] \cap online'] /\ chCPU' = 1
      /\ UNCHANGED <<limit, cstate, chSched, bal, asked, ending, early>>
  BY DEF deviceNetlinkListener
<1>2. online' \subseteq Cpus /\ online' # {}  BY <1>1 DEF SchedInv, SchedTypeInv
<1>3. cpuset' \in [Loads -> SUBSET Cpus]  BY <1>1 DEF SchedInv, SchedTypeInv
<1>4. SchedTypeInv'  BY <1>1, <1>2, <1>3 DEF SchedInv, SchedTypeInv, Balances
<1> QED  BY <1>1, <1>4, EventKeeps

LEMMA SchedOnStartKeeps == ASSUME SchedInv, NEW c \in Loads, OnStart(c) PROVE SchedInv'
<1>1. /\ cstate' = [cstate EXCEPT ![c] = "starting"] /\ deviceTaskSchedulerTrigger
      /\ UNCHANGED <<online, limit, cpuset, chCPU, bal, asked, ending, early>>
  BY DEF OnStart
<1>2. SchedTypeInv'  BY <1>1, TriggerFills DEF SchedInv, SchedTypeInv, Balances
<1> QED  BY <1>1, <1>2, TriggerFills, EventKeeps DEF SchedInv

LEMMA StartedKeeps == ASSUME SchedInv, NEW c \in Loads, Started(c) PROVE SchedInv'
<1>1. /\ cstate[c] = "starting" /\ cstate' = [cstate EXCEPT ![c] = "running"] /\ cpuset' = [cpuset EXCEPT ![c] = online]
      /\ UNCHANGED <<online, limit, early, chCPU, chSched, bal, asked, ending>>
  BY DEF Started
<1>2. SchedTypeInv'  BY <1>1 DEF SchedInv, SchedTypeInv, Balances
<1>3. ToRead' = ToRead /\ ChoiceInv'  BY <1>1, ChoiceStays DEF ToRead, SchedInv
<1>4. ToRead \/ c \in early  BY <1>1 DEF SchedInv
<1>5. /\ cstate'[c] = "running" /\ \A d \in Loads \ {c} : cstate'[d] = cstate[d] /\ cpuset'[d] = cpuset[d]
  BY <1>1 DEF SchedInv, SchedTypeInv
<1>6. ReadInv'  BY <1>1, <1>3, <1>5 DEF SchedInv, SchedTypeInv, ChoiceInv, ReadInv
<1>7. \A d \in Loads : cstate'[d] = "starting" \/ (cstate'[d] = "running" /\ asked'[d] # {}) => ToRead' \/ d \in early'
  BY <1>1, <1>3, <1>4, <1>5 DEF SchedInv
<1>8. ASSUME ~ToRead', bal'.at = "idle" PROVE (\A d \in Running' \ early' : Granted(d)') /\ early' # {}
  <2>1. \A d \in Running' \ early' : d \in Running \ early /\ cpuset'[d] = cpuset[d]
    BY <1>1, <1>3, <1>4, <1>5, <1>8 DEF Running
  <2>2. \A d \in Running \ early : Granted(d)  BY <1>1, <1>3, <1>8 DEF SchedInv
  <2> QED  BY <1>1, <1>3, <1>4, <1>8, <2>1, <2>2 DEF Granted
<1> QED  BY <1>2, <1>3, <1>6, <1>7, <1>8 DEF SchedInv

LEMMA StopsKeeps == ASSUME SchedInv, NEW c \in Loads, Stops(c) PROVE SchedInv'
<1>1. /\ cstate[c] = "running" /\ cstate' = [cstate EXCEPT ![c] = "stopped"] /\ cpuset' = [cpuset EXCEPT ![c] = {}]
      /\ ending' = ending \cup {c} /\ UNCHANGED <<online, limit, chCPU, chSched, bal, asked, early>>
  BY DEF Stops
<1>2. SchedTypeInv'  BY <1>1 DEF SchedInv, SchedTypeInv, Balances
<1>3. ToRead' = ToRead /\ ChoiceInv'  BY <1>1, ChoiceStays DEF ToRead, SchedInv
<1>4. /\ cstate'[c] = "stopped" /\ \A d \in Loads \ {c} : cstate'[d] = cstate[d] /\ cpuset'[d] = cpuset[d]
  BY <1>1 DEF SchedInv, SchedTypeInv
<1>5. ReadInv'
  <2>1. bal'.at = "choose" => DOMAIN bal.pin \subseteq Loads  BY <1>1 DEF SchedInv, ChoiceInv
  <2> QED  BY <1>1, <1>3, <1>4, <2>1 DEF SchedInv, ReadInv
<1>6. \A d \in Loads : cstate'[d] = "starting" \/ (cstate'[d] = "running" /\ asked'[d] # {}) => ToRead' \/ d \in early'
  BY <1>1, <1>3, <1>4 DEF SchedInv
<1>7. ASSUME ~ToRead', bal'.at = "idle" PROVE (\A d \in Running' \ early' : Granted(d)') /\ ending' # {}
  <2>1. \A d \in Running' \ early' : d \in Running \ early /\ cpuset'[d] = cpuset[d]
    BY <1>1, <1>4 DEF Running
  <2>2. \A d \in Running \ early : Granted(d)  BY <1>1, <1>3, <1>7 DEF SchedInv
  <2> QED  BY <1>1, <2>1, <2>2 DEF Granted
<1> QED  BY <1>2, <1>3, <1>5, <1>6, <1>7 DEF SchedInv

LEMMA SchedOnStopKeeps == ASSUME SchedInv, NEW c \in Loads, OnStop(c) PROVE SchedInv'
<1>1. UNCHANGED <<online, limit, cstate, cpuset, chCPU, bal, asked>>  BY DEF OnStop
<1>2. CASE deviceTaskSchedulerTrigger /\ UNCHANGED early
  <2>1. SchedTypeInv'  BY <1>1, <1>2, TriggerFills DEF SchedInv, SchedTypeInv, Balances
  <2> QED  BY <1>1, <1>2, <2>1, TriggerFills, EventKeeps DEF SchedInv
<1>3. CASE early' = Loads /\ UNCHANGED chSched
  <2>1. SchedTypeInv'  BY <1>1, <1>3 DEF SchedInv, SchedTypeInv, Balances
  <2>2. ToRead' = ToRead /\ ChoiceInv'  BY <1>1, <1>3, ChoiceStays DEF ToRead, SchedInv
  <2>3. ReadInv'  BY <1>1, <1>3, <2>2 DEF SchedInv, ReadInv
  <2>4. Running' \subseteq early' /\ early' # {}  BY <1>1, <1>3 DEF Running
  <2> QED  BY <1>3, <2>1, <2>2, <2>3, <2>4 DEF SchedInv
<1> QED  BY <1>2, <1>3 DEF OnStop

LEMMA SchedUpdateKeeps == ASSUME SchedInv, NEW c \in Loads, NEW l \in CpuLimits, Update(c, l) PROVE SchedInv'
<1>1. /\ asked' = [asked EXCEPT ![c] = {l}] /\ UNCHANGED <<online, limit, cstate, cpuset, chCPU, bal, ending, early>>
      /\ IF cstate[c] = "stopped" THEN UNCHANGED chSched ELSE deviceTaskSchedulerTrigger
  BY DEF Update
<1>2. l \in LimitType /\ asked' \in [Loads -> SUBSET LimitType]
  BY <1>1, SchedulerAssumption DEF SchedInv, SchedTypeInv
<1>3. CASE cstate[c] # "stopped"
  <2>1. SchedTypeInv'  BY <1>1, <1>2, <1>3, TriggerFills DEF SchedInv, SchedTypeInv, Balances
  <2> QED  BY <1>1, <1>3, <2>1, TriggerFills, EventKeeps DEF SchedInv
<1>4. CASE cstate[c] = "stopped"
  <2>1. SchedTypeInv'  BY <1>1, <1>2, <1>4 DEF SchedInv, SchedTypeInv, Balances
  <2>2. ToRead' = ToRead /\ ChoiceInv'  BY <1>1, <1>4, ChoiceStays DEF ToRead, SchedInv
  <2>3. ReadInv'  BY <1>1, <2>2 DEF SchedInv, ReadInv
  <2>4. Running' = Running /\ (\A d : Granted(d)' = Granted(d))  BY <1>1 DEF Running, Granted
  <2>5. Spread' = Spread  BY <1>1, <2>4 DEF Spread, Share, Counts
  <2>6. \A d \in Loads \ {c} : asked'[d] = asked[d]  BY <1>1 DEF SchedInv, SchedTypeInv
  <2>7. \A d \in Loads : cstate'[d] = "starting" \/ (cstate'[d] = "running" /\ asked'[d] # {}) => ToRead' \/ d \in early'
    BY <1>1, <1>4, <2>2, <2>6 DEF SchedInv
  <2> QED  BY <1>1, <2>1, <2>2, <2>3, <2>4, <2>5, <2>7 DEF SchedInv
<1> QED  BY <1>3, <1>4

LEMMA UpdateCommitsKeeps == ASSUME SchedInv, NEW c \in Loads, UpdateCommits(c) PROVE SchedInv'
<1>1. /\ asked[c] # {} /\ asked' = [asked EXCEPT ![c] = {}]
      /\ UNCHANGED <<online, early, cstate, cpuset, chCPU, bal, ending>>
  BY DEF UpdateCommits
<1>2. asked' \in [Loads -> SUBSET LimitType]  BY <1>1 DEF SchedInv, SchedTypeInv
<1>3. CASE deviceTaskSchedulerTrigger /\ UNCHANGED limit
  <2>1. SchedTypeInv'  BY <1>1, <1>2, <1>3, TriggerFills DEF SchedInv, SchedTypeInv, Balances
  <2> QED  BY <1>1, <1>3, <2>1, TriggerFills, EventKeeps DEF SchedInv
<1>4. CASE limit' = [limit EXCEPT ![c] = CHOOSE l \in asked[c] : TRUE] /\ UNCHANGED chSched
  <2>1. PICK l \in LimitType : l = CHOOSE k \in asked[c] : TRUE
    <3>1. (CHOOSE k \in asked[c] : TRUE) \in asked[c]  BY <1>1
    <3> QED  BY <3>1 DEF SchedInv, SchedTypeInv
  <2>2. limit' = [limit EXCEPT ![c] = l] /\ limit' \in [Loads -> LimitType]  BY <1>4, <2>1 DEF SchedInv, SchedTypeInv
  <2>3. SchedTypeInv'  BY <1>1, <1>2, <1>4, <2>2 DEF SchedInv, SchedTypeInv, Balances
  <2>4. ToRead' = ToRead /\ ChoiceInv'  BY <1>1, <1>4, ChoiceStays DEF ToRead, SchedInv
  <2>5. cstate[c] # "stopped" => ToRead \/ c \in early
    <3>1. cstate[c] \in {"stopped", "starting", "running"}  BY DEF SchedInv, SchedTypeInv
    <3> QED  BY <1>1, <3>1 DEF SchedInv
  <2>6. \A d \in Loads \ {c} : limit'[d] = limit[d] /\ asked'[d] = asked[d]  BY <1>1, <2>2 DEF SchedInv, SchedTypeInv
  <2>7. ReadInv'  BY <1>1, <2>4, <2>5, <2>6 DEF SchedInv, ReadInv
  <2>8. Running' = Running  BY <1>1 DEF Running
  <2>9. ASSUME ~ToRead', bal'.at = "idle"
        PROVE (\A d \in Running' \ early' : Granted(d)') /\ (early' = {} /\ ending' = {} => Spread')
    <3>1. \A d \in Running \ early : limit'[d] = limit[d]  BY <2>4, <2>5, <2>6, <2>9 DEF Running
    <3>2. \A d \in Running \ early : Granted(d)  BY <1>1, <2>4, <2>9 DEF SchedInv
    <3>3. \A d \in Running' \ early' : Granted(d)'  BY <1>1, <2>8, <3>1, <3>2 DEF Granted
    <3>4. ASSUME early = {}, ending = {} PROVE Spread'
      <4>1. Spread  BY <1>1, <2>4, <2>9, <3>4 DEF SchedInv
      <4>2. \A d \in Running : limit'[d] = limit[d]  BY <3>1, <3>4
      <4>3. Counts(Running, limit)' => Counts(Running, limit)  BY <2>8, <4>2 DEF Counts
      <4>4. \A i : Share(i)' = Share(i)  BY <1>1, <2>8 DEF Share
      <4> QED  BY <1>1, <4>1, <4>3, <4>4 DEF Spread
    <3> QED  BY <1>1, <3>3, <3>4
  <2>10. \A d \in Loads : cstate'[d] = "starting" \/ (cstate'[d] = "running" /\ asked'[d] # {}) => ToRead' \/ d \in early'
    <3>1. asked'[c] = {}  BY <1>1 DEF SchedInv, SchedTypeInv
    <3> QED  BY <1>1, <2>4, <2>6, <3>1 DEF SchedInv
  <2> QED  BY <2>3, <2>4, <2>7, <2>9, <2>10 DEF SchedInv
<1> QED  BY <1>3, <1>4 DEF UpdateCommits


LEMMA EventListenerKeeps == ASSUME SchedInv, deviceEventListener PROVE SchedInv'
<1>1. /\ bal.at = "idle" /\ bal' = [bal EXCEPT !.at = "read"]
      /\ UNCHANGED <<online, limit, cstate, cpuset, asked, ending, early>>
  BY DEF deviceEventListener
<1>2. chCPU' \in Nat /\ chSched' \in Nat  BY DEF deviceEventListener, SchedInv, SchedTypeInv
<1>3. bal = [at |-> bal.at, cpus |-> bal.cpus, lim |-> bal.lim, pin |-> bal.pin]
  BY DEF SchedInv, SchedTypeInv, Balances
<1>4. bal' = [at |-> "read", cpus |-> bal.cpus, lim |-> bal.lim, pin |-> bal.pin]  BY <1>1, <1>3
<1>5. Balances'  BY <1>1, <1>4 DEF SchedInv, SchedTypeInv, Balances
<1>6. SchedTypeInv'  BY <1>1, <1>2, <1>5 DEF SchedInv, SchedTypeInv
<1>7. bal'.at = "read" /\ ToRead'  BY <1>4 DEF ToRead
<1> QED  BY <1>6, <1>7 DEF SchedInv, ChoiceInv, ReadInv

\* A rebalance that ends without a choice is one of a limit that cannot be parsed.
LEMMA ReadsKeeps == ASSUME SchedInv, BalanceReads PROVE SchedInv'
<1> DEFINE R == {c \in Loads : cstate[c] # "stopped"}
<1>1. bal.at = "read" /\ UNCHANGED <<online, limit, cstate, cpuset, chCPU, chSched, asked, ending>>
  BY DEF BalanceReads
<1>2. CASE (\E c \in R : limit[c].kind = "bad") /\ bal' = Resting /\ early' = Loads
  <2>1. bal'.at = "idle"  BY <1>2, RestingIs
  <2>2. SchedTypeInv'  BY <1>1, <1>2, RestingIs DEF SchedInv, SchedTypeInv, Balances
  <2>3. early' # {} /\ Running' \subseteq early'  BY <1>1, <1>2 DEF Running
  <2> QED  BY <1>2, <2>1, <2>2, <2>3 DEF SchedInv, ChoiceInv, ReadInv
<1>3. CASE /\ bal' = [at |-> "choose", cpus |-> online, lim |-> [c \in R |-> limit[c]],
                      pin |-> [c \in R |-> parseCpuset(limit[c], online).pin]]
           /\ early' = {c \in Loads : cstate[c] = "starting" \/ asked[c] # {}}
  <2>1. SchedTypeInv'  BY <1>1, <1>3 DEF SchedInv, SchedTypeInv, Balances
  <2>2. online \subseteq Cpus /\ online # {} /\ \A c \in R : limit[c] \in LimitType
    BY DEF SchedInv, SchedTypeInv
  <2>3. /\ bal'.at = "choose" /\ bal'.cpus = online /\ DOMAIN bal'.pin = R
        /\ \A c \in R : bal'.lim[c] = limit[c] /\ bal'.pin[c] = parseCpuset(limit[c], online).pin
    BY <1>3
  <2>4. \A c \in R : bal'.pin[c] \subseteq online /\ Chosen(c)'  BY <2>2, <2>3, CpusetOf DEF Chosen
  <2>5. ASSUME Counts(R, limit) PROVE \A i \in online : Usage(i)' = 0
    <3>1. \A c \in R : bal'.pin[c] = {}  BY <2>2, <2>3, <2>5, CpusetOf DEF Counts
    <3>2. \A i \in online : {c \in DOMAIN bal'.pin : i \in bal'.pin[c]} = {}  BY <2>3, <3>1
    <3> QED  BY <3>2, FS_EmptySet DEF Usage
  <2>6. Counts(DOMAIN bal'.pin, bal'.lim) => Counts(R, limit)  BY <2>3 DEF Counts
  <2>7. Counts(DOMAIN bal.pin, bal.lim)' => \A i, j \in online : Usage(i)' <= Usage(j)' + 1
    BY <2>5, <2>6 DEF Counts
  <2>8. bal'.pin = [c \in DOMAIN bal'.pin |-> bal'.pin[c]]  BY <1>3
  <2>9. ChoiceInv'  BY <2>2, <2>3, <2>4, <2>7, <2>8 DEF ChoiceInv
  <2>10. ReadInv'  BY <1>1, <2>3 DEF ReadInv
  <2>11. \A c \in Loads : cstate'[c] = "starting" \/ (cstate'[c] = "running" /\ asked'[c] # {}) => c \in early'
    BY <1>1, <1>3
  <2> QED  BY <2>1, <2>3, <2>9, <2>10, <2>11 DEF SchedInv
<1> QED  BY <1>2, <1>3 DEF BalanceReads

\* The least used CPUs are given to one more container.
LEMMA TaskBalanceKeeps == ASSUME SchedInv, deviceTaskBalance PROVE SchedInv'
<1>1. PICK c \in ToBalance, S \in SUBSET bal.cpus :
        /\ Cardinality(S) = AtMost(parseCpuset(bal.lim[c], bal.cpus).n, bal.cpus)
        /\ LeastUsed(S) /\ bal' = [bal EXCEPT !.pin[c] = S]
  BY DEF deviceTaskBalance, AtMost
<1>2. bal.at = "choose" /\ UNCHANGED <<online, limit, cstate, cpuset, chCPU, chSched, asked, ending, early>>
  BY DEF deviceTaskBalance
<1>3. bal = [at |-> bal.at, cpus |-> bal.cpus, lim |-> bal.lim, pin |-> bal.pin]
  BY DEF SchedInv, SchedTypeInv, Balances
<1>4. bal' = [at |-> "choose", cpus |-> bal.cpus, lim |-> bal.lim, pin |-> [bal.pin EXCEPT ![c] = S]]
  BY <1>1, <1>2, <1>3
<1>5. c \in DOMAIN bal.pin /\ bal.pin[c] = {}  BY DEF ToBalance
<1>6. /\ bal.cpus \subseteq Cpus /\ bal.cpus # {} /\ DOMAIN bal.pin \subseteq Loads
      /\ bal.pin = [d \in DOMAIN bal.pin |-> bal.pin[d]]
      /\ \A d \in DOMAIN bal.pin : bal.lim[d] \in LimitType /\ bal.pin[d] \subseteq bal.cpus /\ Chosen(d)
  BY <1>2 DEF SchedInv, ChoiceInv
<1>7. /\ bal'.at = "choose" /\ bal'.cpus = bal.cpus /\ bal'.lim = bal.lim /\ DOMAIN bal'.pin = DOMAIN bal.pin
      /\ bal'.pin = [bal.pin EXCEPT ![c] = S] /\ bal'.pin[c] = S
      /\ \A d \in DOMAIN bal.pin \ {c} : bal'.pin[d] = bal.pin[d]
  BY <1>4, <1>5
<1>8. SchedTypeInv'  BY <1>2, <1>4 DEF SchedInv, SchedTypeInv, Balances
<1>9. \A d \in DOMAIN bal.pin : bal'.pin[d] \subseteq bal.cpus /\ Chosen(d)'
  <2>1. parseCpuset(bal.lim[c], bal.cpus).pin = {}  BY <1>5, <1>6 DEF Chosen
  <2>2. Chosen(c)'  BY <1>1, <1>7, <2>1 DEF Chosen
  <2>3. \A d \in DOMAIN bal.pin \ {c} : Chosen(d)'  BY <1>6, <1>7 DEF Chosen
  <2> QED  BY <1>6, <1>7, <2>2, <2>3
<1>10. ASSUME Counts(DOMAIN bal.pin, bal.lim), NEW i \in bal.cpus, NEW j \in bal.cpus PROVE Usage(i)' <= Usage(j)' + 1
  <2> DEFINE Of(k) == {d \in DOMAIN bal.pin : k \in bal.pin[d]}
  <2>1. \A k \in bal.cpus : IsFiniteSet(Of(k)) /\ Cardinality(Of(k)) \in Nat /\ c \notin Of(k)
    BY <1>5, <1>6, LoadsAreFinite
  <2>2. \A k \in bal.cpus : {d \in DOMAIN bal'.pin : k \in bal'.pin[d]} = IF k \in S THEN Of(k) \cup {c} ELSE Of(k)
    BY <1>5, <1>7
  <2>3. ASSUME NEW k \in S PROVE Cardinality(Of(k) \cup {c}) = Cardinality(Of(k)) + 1
    <3>1. IsFiniteSet(Of(k)) /\ c \notin Of(k)  BY <1>1, <2>1
    <3> HIDE DEF Of
    <3> QED  BY <3>1, FS_AddElement
  <2>4. \A k \in bal.cpus : Usage(k) = Cardinality(Of(k))  BY DEF Usage
  <2>5. \A k \in bal.cpus : Usage(k)' = IF k \in S THEN Usage(k) + 1 ELSE Usage(k)
    BY <2>2, <2>3, <2>4 DEF Usage
  <2>6. Usage(i) <= Usage(j) + 1 /\ Usage(i) \in Nat /\ Usage(j) \in Nat
    BY <1>2, <1>10, <2>1, <2>4 DEF SchedInv, ChoiceInv
  <2>7. i \in S /\ j \notin S => Usage(i) <= Usage(j)  BY <1>1 DEF LeastUsed
  <2> QED  BY <2>5, <2>6, <2>7
<1>11. Counts(DOMAIN bal.pin, bal.lim)' <=> Counts(DOMAIN bal.pin, bal.lim)  BY <1>7 DEF Counts
<1>12. bal'.pin = [d \in DOMAIN bal'.pin |-> bal'.pin[d]]  BY <1>6, <1>7
<1>13. ChoiceInv'  BY <1>6, <1>7, <1>9, <1>10, <1>11, <1>12 DEF ChoiceInv
<1>14. ToRead' = ToRead  BY <1>2, <1>7 DEF ToRead
<1>15. ReadInv'  BY <1>2, <1>7, <1>14 DEF SchedInv, ReadInv
<1> QED  BY <1>2, <1>7, <1>8, <1>13, <1>14, <1>15 DEF SchedInv

\* What was chosen is what the limits grant, if nothing has changed since.
LEMMA AppliesKeeps == ASSUME SchedInv, BalanceApplies PROVE SchedInv'
<1>1. /\ bal.at = "choose" /\ ToBalance = {} /\ bal' = Resting
      /\ UNCHANGED <<online, limit, early, cstate, chCPU, chSched, asked, ending>>
      /\ cpuset' = [c \in Loads |->
           IF c \in DOMAIN bal.pin /\ cstate[c] = "running" /\ bal.pin[c] # {} /\ bal.pin[c] \subseteq online
           THEN bal.pin[c] ELSE cpuset[c]]
  BY DEF BalanceApplies
<1>2. bal'.at = "idle" /\ ToRead' = ToRead  BY <1>1, RestingIs DEF ToRead
<1>3. cpuset' \in [Loads -> SUBSET Cpus]  BY <1>1 DEF SchedInv, SchedTypeInv
<1>4. SchedTypeInv'  BY <1>1, <1>3, RestingIs DEF SchedInv, SchedTypeInv, Balances
<1>5. ASSUME ~ToRead PROVE (\A c \in Running' \ early' : Granted(c)') /\ (early' = {} /\ ending' = {} => Spread')
  <2>1. bal.cpus = online /\ online \subseteq Cpus /\ online # {} /\ Running' = Running
    BY <1>1, <1>5 DEF SchedInv, SchedTypeInv, ReadInv, Running
  <2>2. \A c \in Running \ early : c \in DOMAIN bal.pin /\ bal.lim[c] = limit[c] /\ limit[c] \in LimitType
    BY <1>1, <1>5 DEF SchedInv, SchedTypeInv, ReadInv, Running
  <2>3. \A c \in DOMAIN bal.pin : bal.pin[c] \subseteq online /\ Chosen(c)  BY <1>1, <2>1 DEF SchedInv, ChoiceInv
  <2>4. \A c \in Running \ early : bal.pin[c] # {} => cpuset'[c] = bal.pin[c]
    BY <1>1, <2>2, <2>3 DEF Running
  <2>5. ASSUME NEW c \in Running \ early PROVE Granted(c)'
    <3> DEFINE l == parseCpuset(limit[c], online)
    <3>1. Chosen(c) /\ bal.lim[c] = limit[c] /\ c \in DOMAIN bal.pin  BY <2>2, <2>3
    <3>2. l.n \in Nat /\ (l.n > 0 => l.pin = {})  BY <2>1, <2>2, CpusetOf
    <3>3. l.pin # {} => cpuset'[c] = l.pin  BY <2>1, <2>4, <3>1 DEF Chosen
    <3>4. l.n > 0 => bal.pin[c] # {}  BY <1>1, <2>1, <3>1 DEF ToBalance
    <3>5. l.n > 0 => cpuset'[c] = bal.pin[c] /\ Cardinality(bal.pin[c]) = AtMost(l.n, online)
      BY <2>1, <2>4, <3>1, <3>2, <3>4 DEF Chosen
    <3> QED  BY <1>1, <3>3, <3>5 DEF Granted, AtMost
  <2>6. ASSUME early = {}, ending = {} PROVE Spread'
    <3>1. DOMAIN bal.pin = Running
      <4>1. Running \subseteq DOMAIN bal.pin  BY <2>2, <2>6
      <4>2. ASSUME NEW c \in DOMAIN bal.pin PROVE c \in Running
        <5>1. c \in Loads  BY <1>1 DEF SchedInv, ChoiceInv
        <5>2. cstate[c] # "stopped"  BY <1>1, <1>5, <2>6, <5>1 DEF SchedInv, ReadInv
        <5>3. cstate[c] # "starting"  BY <1>5, <2>6, <5>1 DEF SchedInv
        <5>4. cstate[c] \in {"stopped", "starting", "running"}  BY <5>1 DEF SchedInv, SchedTypeInv
        <5> QED  BY <5>1, <5>2, <5>3, <5>4 DEF Running
      <4> QED  BY <4>1, <4>2
    <3>2. SUFFICES ASSUME Counts(Running, limit), NEW i \in online, NEW j \in online PROVE Share(i)' <= Share(j)' + 1
      BY <1>1, <2>1 DEF Spread, Counts
    <3>3. \A c \in Running : cpuset'[c] = bal.pin[c]
      <4>1. \A c \in Running : parseCpuset(bal.lim[c], bal.cpus).n > 0
        BY <2>1, <2>2, <2>6, <3>2, CpusetOf DEF Counts
      <4> QED  BY <1>1, <2>4, <2>6, <3>1, <4>1 DEF ToBalance
    <3>4. \A k : Share(k)' = Usage(k)
      <4>1. \A k : {c \in Running' : k \in cpuset'[c]} = {c \in DOMAIN bal.pin : k \in bal.pin[c]}
        BY <2>1, <3>1, <3>3
      <4> QED  BY <4>1 DEF Share, Usage
    <3>5. Counts(DOMAIN bal.pin, bal.lim)  BY <2>2, <2>6, <3>1, <3>2 DEF Counts
    <3>6. Usage(i) <= Usage(j) + 1  BY <1>1, <2>1, <3>2, <3>5 DEF SchedInv, ChoiceInv
    <3> QED  BY <3>4, <3>6
  <2> QED  BY <1>1, <2>1, <2>5, <2>6
<1>6. \A c \in Loads : cstate'[c] = "starting" \/ (cstate'[c] = "running" /\ asked'[c] # {}) => ToRead' \/ c \in early'
  BY <1>1, <1>2 DEF SchedInv
<1> QED  BY <1>2, <1>4, <1>5, <1>6 DEF SchedInv, ChoiceInv, ReadInv

LEMMA SchedInvNext == ASSUME SchedInv, SchedulerNext PROVE SchedInv'
<1>1. ASSUME NEW i \in Cpus, deviceNetlinkListener(i) PROVE SchedInv'  BY <1>1, NetlinkKeeps
<1>2. ASSUME NEW c \in Loads, OnStart(c) \/ Started(c) \/ Stops(c) \/ OnStop(c) \/ UpdateCommits(c) PROVE SchedInv'
  BY <1>2, SchedOnStartKeeps, StartedKeeps, StopsKeeps, SchedOnStopKeeps, UpdateCommitsKeeps
<1>3. ASSUME NEW c \in Loads, NEW l \in CpuLimits, Update(c, l) PROVE SchedInv'  BY <1>3, SchedUpdateKeeps
<1>4. CASE deviceEventListener \/ BalanceReads \/ deviceTaskBalance \/ BalanceApplies
  BY <1>4, EventListenerKeeps, ReadsKeeps, TaskBalanceKeeps, AppliesKeeps
<1> QED  BY <1>1, <1>2, <1>3, <1>4 DEF SchedulerNext

LEMMA BalancedByInv == SchedInv => Balanced
<1> SUFFICES ASSUME SchedInv, Quiet
             PROVE  /\ \A c \in Running \ early : Granted(c)
                    /\ early = {} /\ (\A c \in Running : limit[c].kind = "count" /\ limit[c].n > 0) =>
                         \A i, j \in online : Share(i) <= Share(j) + 1
  BY DEF Balanced
<1>1. chCPU = 0 /\ chSched = 0  BY DEF Quiet, SchedInv, SchedTypeInv
<1>2. ~ToRead /\ bal.at = "idle" /\ ending = {}  BY <1>1, RestingIs DEF ToRead, Quiet
<1> QED  BY <1>2 DEF SchedInv, Spread, Counts

-----------------------------------------------------------------------------
(* Commands with their streams on websockets (Exec). *)

Streams ==
  [buf : Nat, noise : BOOLEAN, rd : {"none", "poll", "in", "again", "has", "ended", "done"}, chunk : Nat,
   closed : BOOLEAN, snd : {"none", "takes", "sends", "done"}, has : Nat,
   wire : Nat, barrier : BOOLEAN, open : BOOLEAN, got : Nat]

ExecTypeInv ==
  /\ tty \in BOOLEAN /\ control \in BOOLEAN /\ holder \in BOOLEAN /\ ours \in BOOLEAN /\ deadFlag \in BOOLEAN
  /\ handler \in [Fds -> {"none", "upgraded", "control", "looks", "all", "done"}] /\ conns \subseteq Fds
  /\ peer \in [Fds -> {"none", "open", "closed", "ended"}]
  /\ allConnected \in {0, 1} /\ controlConnected \in {0, 1} /\ exited \in {0, 1}
  /\ doPc \in {"wait", "exec", "failed", "born", "waits", "asks", "exits", "tells", "drains", "done"}
  /\ ctlPc \in {"none", "born", "select", "loop", "gone"} /\ child \in {"none", "alive", "dead"}
  /\ strm \in [0 .. 2 -> Streams] /\ written \in [0 .. 2 -> Nat]
  /\ inPc \in {"none", "reads", "barrier", "done"} /\ watchPc \in {"none", "waits", "polls", "done"}
  /\ cli \in {"connects", "streams", "waits", "done", "gone"}

\* The client connects in order, and execWs goes on once all streams are there.
ConnectInv ==
  /\ \A f \in Fds : handler[f] # "none" \/ f \in conns => peer[f] # "none"
  /\ \A f, g \in Asked : f < g /\ peer[g] # "none" => peer[f] # "none"
  /\ \A f \in Fds : allConnected = 1 \/ handler[f] = "all" => DataFds \subseteq conns
  /\ \A f \in Fds : controlConnected = 1 \/ handler[f] = "control" => -1 \in conns
  /\ cli = "connects" => \E f \in DataFds : peer[f] = "none"
  /\ cli \in {"waits", "done", "gone"} => \A o \in Outs : peer[o] # "open"
  /\ cli = "gone" => \A f \in Fds : peer[f] # "open"
  /\ \A f \in DataFds : peer[f] # "ended" /\ (cli = "connects" => peer[f] # "closed")
                        /\ (cli \in {"streams", "waits", "done"} => peer[f] # "none")

\* Where the goroutines of a session are at each place of Do.
StageInv ==
  /\ doPc = "wait" =>
       /\ ctlPc = "none" /\ inPc = "none" /\ watchPc = "none" /\ strm = [o \in 0 .. 2 |-> NoStream]
       /\ written = [o \in 0 .. 2 |-> 0] /\ cli \in {"connects", "streams", "gone"}
  /\ doPc # "wait" => cli # "connects" /\ inPc # "none" /\ (tty => watchPc # "none")
  /\ child = "none" <=> doPc \in {"wait", "exec", "failed"}
  /\ child = "alive" => doPc \in {"born", "waits"}
  /\ ours <=> doPc \in {"exec", "failed", "born", "waits"}
  /\ doPc \in {"exec", "born"} /\ tty => ctlPc = "born"
  /\ doPc \in {"born", "exits"} => tty
  /\ doPc \in {"waits", "asks"} /\ tty => ctlPc \in {"select", "loop", "gone"} /\ (ctlPc # "select" => -1 \in conns)
  /\ doPc = "exits" => ctlPc = "select" \/ "control" \in exMarks
  /\ exited = 1 => doPc \in {"drains", "done"}
  /\ watchPc = "waits" /\ doPc \in {"drains", "done"} => exited = 1
  /\ watchPc # "none" => tty
  /\ deadFlag <=> watchPc \in {"polls", "done"}
  /\ deadFlag \/ holder => child = "dead"
  /\ inPc = "barrier" /\ tty => "input" \in exMarks

\* Nothing was dropped or broke.
Whole == cli # "gone" /\ exMarks \cap {"held", "input", "panic"} = {}

\* The output of the command is somewhere on its way, in order of its places.
OnItsWay(o) ==
  /\ strm[o].has # 0 => strm[o].snd = "sends"
  /\ Whole =>
       /\ strm[o].chunk # 0 => strm[o].rd = "has"
       /\ written[o] = strm[o].got + strm[o].wire + strm[o].has + strm[o].chunk + strm[o].buf
       /\ strm[o].rd \in {"ended", "done"} \/ strm[o].closed => child = "dead" /\ strm[o].buf = 0
       /\ strm[o].closed => strm[o].chunk = 0
       /\ ~strm[o].open \/ strm[o].snd = "done" => strm[o].closed
       /\ peer[o] = "closed" => strm[o].wire = 0 /\ strm[o].snd = "done"

\* A stream that has not come to its end has somebody who goes on with it.
Carried(o) ==
  /\ doPc # "wait" => strm[o].rd # "none" /\ strm[o].snd # "none"
  /\ strm[o].rd = "again" => deadFlag
  /\ strm[o].rd = "done" => strm[o].closed \/ "panic" \in exMarks
  /\ strm[o].snd = "done" /\ peer[o] = "open" => strm[o].barrier
  /\ strm[o].barrier => strm[o].snd = "done"
  /\ watchPc = "done" /\ holder =>
       strm[o].closed \/ strm[o].rd \in {"in", "again", "ended", "done"} \/ ToSend(o) \/ ~strm[o].open

ExecInv == ExecTypeInv /\ ConnectInv /\ StageInv /\ \A o \in Outs : OnItsWay(o) /\ Carried(o)

LEMMA FdsAre == /\ Fds = {-1, 0, 1, 2} /\ Outs \subseteq 0 .. 2 /\ Outs \subseteq DataFds /\ DataFds \subseteq 0 .. 2 /\ 0 \in DataFds
                /\ 0 .. 2 \subseteq Fds /\ DataFds \subseteq Asked /\ Asked \subseteq Fds
BY ExecAssumption DEF Fds, Outs, DataFds, Asked

LEMMA NoStreamIs ==
  /\ NoStream \in Streams /\ NoStream.buf = 0 /\ NoStream.rd = "none" /\ NoStream.chunk = 0 /\ ~NoStream.closed
  /\ NoStream.snd = "none" /\ NoStream.has = 0 /\ NoStream.wire = 0 /\ ~NoStream.barrier /\ NoStream.open = TRUE
  /\ NoStream.got = 0
BY DEF NoStream, Streams

LEMMA ExecInvInit == ExecInit => ExecInv
<1> SUFFICES ASSUME ExecInit PROVE ExecInv  OBVIOUS
<1>1. ExecTypeInv  BY NoStreamIs, FdsAre DEF ExecInit, ExecTypeInv
<1>2. ConnectInv  BY FdsAre DEF ExecInit, ConnectInv
<1>3. StageInv  BY DEF ExecInit, StageInv
<1>4. ASSUME NEW o \in Outs PROVE OnItsWay(o) /\ Carried(o)
  <2>1. strm[o] = NoStream /\ written[o] = 0 /\ peer[o] = "none"  BY <1>4, FdsAre DEF ExecInit
  <2> QED  BY <2>1, NoStreamIs DEF ExecInit, OnItsWay, Carried
<1> QED  BY <1>1, <1>2, <1>3, <1>4 DEF ExecInv

\* What is left alone.
LEMMA ConnectStays ==
  ASSUME ConnectInv, UNCHANGED <<tty, control, handler, conns, allConnected, peer, cli>>, controlConnected' \in {0, controlConnected}
  PROVE  ConnectInv'
BY FdsAre DEF ConnectInv, DataFds, Outs, Asked

LEMMA StageStays ==
  ASSUME StageInv, UNCHANGED <<tty, conns, doPc, ctlPc, inPc, watchPc, cli, child, ours, exited, deadFlag, holder>>,
         exMarks \subseteq exMarks', doPc = "wait" => UNCHANGED <<strm, written>>
  PROVE  StageInv'
BY DEF StageInv

LEMMA WayStays ==
  ASSUME NEW o, OnItsWay(o), strm'[o] = strm[o], written'[o] = written[o], Whole' => Whole,
         child = "dead" => child' = "dead", Whole' /\ peer'[o] = "closed" => peer[o] = "closed"
  PROVE  OnItsWay(o)'
BY DEF OnItsWay

LEMMA CarriedStays ==
  ASSUME NEW o, Carried(o), strm'[o] = strm[o], doPc = "wait" => doPc' = "wait", deadFlag => deadFlag',
         exMarks \subseteq exMarks', peer'[o] = "open" => peer[o] = "open" \/ strm[o].snd # "done",
         watchPc' = "done" /\ holder' => watchPc = "done" /\ holder
  PROVE  Carried(o)'
BY DEF Carried, ToSend

LEMMA WholeStays ==
  ASSUME exMarks \subseteq exMarks', cli' = cli \/ cli' = "gone" \/ cli # "gone" PROVE Whole' => Whole
BY DEF Whole

LEMMA StreamsStay ==
  ASSUME ExecInv, ExecTypeInv', ConnectInv', StageInv', UNCHANGED <<tty, strm, written>>, Whole' => Whole,
         child = "dead" => child' = "dead", doPc = "wait" => doPc' = "wait", deadFlag => deadFlag',
         exMarks \subseteq exMarks', watchPc' = "done" /\ holder' => watchPc = "done" /\ holder,
         \A o \in Outs : /\ Whole' /\ peer'[o] = "closed" => peer[o] = "closed"
                         /\ peer'[o] = "open" => peer[o] = "open" \/ strm[o].snd # "done"
  PROVE  ExecInv'
<1>1. Outs' = Outs  BY DEF Outs
<1>2. ASSUME NEW o \in Outs PROVE OnItsWay(o)' /\ Carried(o)'
  <2>1. OnItsWay(o) /\ Carried(o) /\ strm'[o] = strm[o] /\ written'[o] = written[o]  BY DEF ExecInv
  <2> QED  BY <2>1, WayStays, CarriedStays
<1> QED  BY <1>1, <1>2 DEF ExecInv

LEMMA ClientConnectsKeeps == ASSUME ExecInv, NEW f \in Fds, ClientConnects(f) PROVE ExecInv'
<1>1. /\ cli = "connects" /\ doPc = "wait" /\ peer[f] = "none" /\ f \in Asked /\ \A g \in Asked : g < f => peer[g] = "open"
      /\ peer' = [peer EXCEPT ![f] = "open"] /\ handler' = [handler EXCEPT ![f] = "upgraded"]
      /\ cli' = IF \A g \in Asked : g <= f THEN "streams" ELSE cli
      /\ UNCHANGED <<tty, control, conns, allConnected, controlConnected, exited, doPc, ctlPc, child, holder, ours, strm,
                     written, inPc, watchPc, deadFlag, exMarks>>
  BY DEF ClientConnects
<1>2. ExecTypeInv'  BY <1>1 DEF ExecInv, ExecTypeInv
<1>3. /\ peer \in [Fds -> {"none", "open", "closed", "ended"}] /\ handler \in [Fds -> {"none", "upgraded", "control", "looks", "all", "done"}]
      /\ Asked' = Asked /\ DataFds' = DataFds /\ Outs' = Outs
  BY <1>1 DEF ExecInv, ExecTypeInv, Asked, DataFds, Outs
<1>4. peer'[f] = "open" /\ handler'[f] = "upgraded" /\ \A g \in Fds \ {f} : peer'[g] = peer[g] /\ handler'[g] = handler[g]
  BY <1>1, <1>3
<1>5. cli' \in {"connects", "streams"}  BY <1>1
<1>6. ConnectInv'
  <2>1. \A g \in Fds : handler'[g] # "none" \/ g \in conns' => peer'[g] # "none"
    BY <1>1, <1>4 DEF ExecInv, ConnectInv
  <2>2. \A g, h \in Asked : g < h /\ peer'[h] # "none" => peer'[g] # "none"
    BY <1>1, <1>4, FdsAre DEF ExecInv, ConnectInv
  <2>3. /\ \A g \in Fds : allConnected' = 1 \/ handler'[g] = "all" => DataFds \subseteq conns'
        /\ \A g \in Fds : controlConnected' = 1 \/ handler'[g] = "control" => -1 \in conns'
    BY <1>1, <1>4 DEF ExecInv, ConnectInv
  <2>4. cli' = "connects" => \E g \in DataFds : peer'[g] = "none"
    <3> SUFFICES ASSUME cli' = "connects" PROVE \E g \in DataFds : peer'[g] = "none"
      OBVIOUS
    <3>1. PICK h \in Asked : ~(h <= f)  BY <1>1
    <3>2. h \in DataFds /\ f < h  BY <1>1, <3>1, FdsAre DEF Asked
    <3>3. peer[h] = "none"  BY <1>1, <3>2, FdsAre DEF ExecInv, ConnectInv
    <3> QED  BY <1>4, <3>2, <3>3, FdsAre
  <2>5. \A g \in DataFds : peer'[g] # "ended" /\ (cli' = "connects" => peer'[g] # "closed")
    BY <1>1, <1>4, FdsAre DEF ExecInv, ConnectInv
  <2>6. cli' = "streams" => \A g \in DataFds : peer'[g] # "none"
    <3> SUFFICES ASSUME cli' = "streams", NEW g \in DataFds PROVE peer'[g] # "none"
      OBVIOUS
    <3>1. g <= f /\ g \in Asked  BY <1>1, FdsAre
    <3>2. CASE g = f  BY <1>4, <3>2
    <3>3. CASE g # f
      <4>1. g < f  BY <3>1, <3>3, FdsAre
      <4> QED  BY <1>1, <1>4, <3>1, <3>3, <4>1, FdsAre
    <3> QED  BY <3>2, <3>3
  <2> QED  BY <1>3, <1>5, <2>1, <2>2, <2>3, <2>4, <2>5, <2>6 DEF ConnectInv
<1>7. StageInv'  BY <1>1, <1>5 DEF ExecInv, StageInv
<1>8. \A o \in Outs : strm[o].snd # "done" /\ (peer'[o] = "closed" => peer[o] = "closed")
  <2>1. \A o \in Outs : strm[o] = NoStream  BY <1>1, FdsAre DEF ExecInv, StageInv
  <2> QED  BY <1>4, <2>1, NoStreamIs, FdsAre
<1>9. Whole' => Whole  BY <1>1, <1>5 DEF Whole
<1> QED  BY <1>1, <1>2, <1>6, <1>7, <1>8, <1>9, StreamsStay

LEMMA ClientInputEndsKeeps == ASSUME ExecInv, ClientInputEnds PROVE ExecInv'
<1>1. /\ inPc = "reads" /\ inPc' = "barrier" /\ exMarks' = exMarks \cup (IF tty THEN {"input"} ELSE {})
      /\ UNCHANGED <<tty, control, handler, conns, allConnected, controlConnected, exited, peer, doPc, ctlPc, child, holder,
                     ours, strm, written, watchPc, deadFlag, cli>>
  BY DEF ClientInputEnds, ExMark
<1>2. ExecTypeInv'  BY <1>1 DEF ExecInv, ExecTypeInv
<1>3. ConnectInv'  BY <1>1, ConnectStays DEF ExecInv
<1>4. StageInv'  BY <1>1 DEF ExecInv, StageInv
<1>5. Whole' => Whole  BY <1>1, WholeStays
<1> QED  BY <1>1, <1>2, <1>3, <1>4, <1>5, StreamsStay

\* The client closes what it has open.
LEMMA ClientLeavesKeeps ==
  ASSUME ExecInv, cli \in {"connects", "streams", "waits"}, cli' = "gone" \/ (cli = "waits" /\ cli' = "done"),
         peer' = [f \in Fds |-> IF peer[f] = "open" THEN "closed" ELSE peer[f]],
         UNCHANGED <<tty, control, handler, conns, allConnected, controlConnected, exited, doPc, ctlPc, child, holder, ours,
                     strm, written, inPc, watchPc, deadFlag, exMarks>>
  PROVE  ExecInv'
<1>1. /\ Asked' = Asked /\ DataFds' = DataFds /\ Outs' = Outs
      /\ peer \in [Fds -> {"none", "open", "closed", "ended"}]
  BY DEF ExecInv, ExecTypeInv, Asked, DataFds, Outs
<1>2. \A f \in Fds : /\ peer'[f] = IF peer[f] = "open" THEN "closed" ELSE peer[f]
                     /\ peer'[f] # "open" /\ (peer'[f] = "none" <=> peer[f] = "none")
  OBVIOUS
<1>3. ExecTypeInv'  BY <1>1, <1>2 DEF ExecInv, ExecTypeInv
<1>4. ConnectInv'
  <2>1. /\ \A f \in Fds : handler'[f] # "none" \/ f \in conns' => peer'[f] # "none"
        /\ \A f, g \in Asked : f < g /\ peer'[g] # "none" => peer'[f] # "none"
    BY <1>2, FdsAre DEF ExecInv, ConnectInv
  <2>2. /\ \A f \in Fds : allConnected' = 1 \/ handler'[f] = "all" => DataFds \subseteq conns'
        /\ \A f \in Fds : controlConnected' = 1 \/ handler'[f] = "control" => -1 \in conns'
    BY DEF ExecInv, ConnectInv
  <2>3. \A f \in DataFds : peer'[f] # "ended" /\ (cli' = "done" => peer'[f] # "none")
    BY <1>2, FdsAre DEF ExecInv, ConnectInv
  <2> QED  BY <1>1, <1>2, <2>1, <2>2, <2>3, FdsAre DEF ConnectInv
<1>5. StageInv'  BY DEF ExecInv, StageInv
<1>6. Whole' => Whole /\ cli = "waits"  BY DEF Whole
<1>7. \A o \in Outs : Whole' /\ peer'[o] = "closed" => peer[o] = "closed"
  BY <1>2, <1>6, FdsAre DEF ExecInv, ConnectInv
<1>8. \A o \in Outs : peer'[o] # "open"  BY <1>2, FdsAre
<1> QED  BY <1>3, <1>4, <1>5, <1>6, <1>7, <1>8, StreamsStay

LEMMA HandlersKeep ==
  ASSUME ExecInv, NEW f \in Fds, ConnectMaps(f) \/ ConnectLooks(f) \/ ConnectTells(f) PROVE ExecInv'
<1>1. /\ UNCHANGED <<tty, control, exited, peer, doPc, ctlPc, child, holder, ours, strm, written, inPc, watchPc, deadFlag, cli, exMarks>>
      /\ handler[f] # "none" /\ conns \subseteq conns' /\ conns' \subseteq conns \cup {f}
      /\ \E h \in {"control", "looks", "all", "done"} : handler' = [handler EXCEPT ![f] = h]
  BY DEF ConnectMaps, ConnectLooks, ConnectTells
<1>2. /\ handler \in [Fds -> {"none", "upgraded", "control", "looks", "all", "done"}]
      /\ Asked' = Asked /\ DataFds' = DataFds /\ Outs' = Outs
  BY <1>1 DEF ExecInv, ExecTypeInv, Asked, DataFds, Outs
<1>3. \A g \in Fds \ {f} : handler'[g] = handler[g]  BY <1>1, <1>2
<1>4. allConnected' \in {0, 1} /\ controlConnected' \in {0, 1}
  BY DEF ExecInv, ExecTypeInv, ConnectMaps, ConnectLooks, ConnectTells
<1>5. ExecTypeInv'  BY <1>1, <1>2, <1>4 DEF ExecInv, ExecTypeInv
<1>6. ConnectInv'
  <2>1. \A g \in Fds : handler'[g] # "none" \/ g \in conns' => peer'[g] # "none"
    BY <1>1, <1>3 DEF ExecInv, ConnectInv
  <2>2. \A g \in Fds : allConnected' = 1 \/ handler'[g] = "all" => DataFds \subseteq conns'
    <3>1. CASE ConnectMaps(f)  BY <1>1, <1>2, <1>3, <3>1 DEF ConnectMaps, ExecInv, ConnectInv
    <3>2. CASE ConnectLooks(f)  BY <1>1, <1>2, <1>3, <3>2 DEF ConnectLooks, ExecInv, ConnectInv
    <3>3. CASE ConnectTells(f)  BY <1>1, <1>2, <1>3, <3>3 DEF ConnectTells, ExecInv, ConnectInv
    <3> QED  BY <3>1, <3>2, <3>3
  <2>3. \A g \in Fds : controlConnected' = 1 \/ handler'[g] = "control" => -1 \in conns'
    <3>1. CASE ConnectMaps(f)  BY <1>1, <1>2, <1>3, <3>1 DEF ConnectMaps, ExecInv, ConnectInv
    <3>2. CASE ConnectLooks(f)  BY <1>1, <1>2, <1>3, <3>2 DEF ConnectLooks, ExecInv, ConnectInv
    <3>3. CASE ConnectTells(f)  BY <1>1, <1>2, <1>3, <3>3 DEF ConnectTells, ExecInv, ConnectInv
    <3> QED  BY <3>1, <3>2, <3>3
  <2> QED  BY <1>1, <1>2, <2>1, <2>2, <2>3 DEF ExecInv, ConnectInv
<1>7. StageInv'
  <2>1. -1 \in conns => -1 \in conns'  BY <1>1
  <2> QED  BY <1>1, <2>1 DEF ExecInv, StageInv
<1>8. Whole' => Whole  BY <1>1 DEF Whole
<1> QED  BY <1>1, <1>5, <1>6, <1>7, <1>8, StreamsStay

\* A step of Do, of the control connection, of the command or of the watcher
\* that leaves client and streams alone.
LEMMA DoStays ==
  ASSUME ExecInv, ExecTypeInv', StageInv', UNCHANGED <<tty, control, handler, conns, allConnected, cli, strm, written>>,
         peer' = peer \/ peer' = [peer EXCEPT ![-1] = IF @ = "open" THEN "ended" ELSE @],
         controlConnected' \in {0, controlConnected}, exMarks \subseteq exMarks',
         child = "dead" => child' = "dead", doPc = "wait" => doPc' = "wait", deadFlag => deadFlag',
         watchPc' = "done" /\ holder' => watchPc = "done" /\ holder
  PROVE  ExecInv'
<1>1. /\ Asked' = Asked /\ DataFds' = DataFds /\ Outs' = Outs
      /\ peer \in [Fds -> {"none", "open", "closed", "ended"}]
  BY DEF ExecInv, ExecTypeInv, Asked, DataFds, Outs
<1>2. \A f \in Fds : /\ f # -1 => peer'[f] = peer[f]
                     /\ peer'[f] = "none" <=> peer[f] = "none"
                     /\ peer'[f] = "open" => peer[f] = "open"
  BY <1>1, FdsAre
<1>3. ConnectInv'
  <2>1. \A f \in DataFds \cup Outs : f \in Fds /\ f # -1 /\ peer'[f] = peer[f]  BY <1>2, FdsAre
  <2>2. /\ \A f \in Fds : handler'[f] # "none" \/ f \in conns' => peer'[f] # "none"
        /\ \A f, g \in Asked : f < g /\ peer'[g] # "none" => peer'[f] # "none"
        /\ \A f \in Fds : allConnected' = 1 \/ handler'[f] = "all" => DataFds \subseteq conns'
        /\ \A f \in Fds : controlConnected' = 1 \/ handler'[f] = "control" => -1 \in conns'
    BY <1>2, FdsAre DEF ExecInv, ConnectInv
  <2>3. /\ cli' = "connects" => \E f \in DataFds : peer'[f] = "none"
        /\ cli' \in {"waits", "done", "gone"} => \A o \in Outs : peer'[o] # "open"
        /\ cli' = "gone" => \A f \in Fds : peer'[f] # "open"
        /\ \A f \in DataFds : peer'[f] # "ended" /\ (cli' = "connects" => peer'[f] # "closed")
                              /\ (cli' \in {"streams", "waits", "done"} => peer'[f] # "none")
    BY <1>2, <2>1 DEF ExecInv, ConnectInv
  <2> QED  BY <1>1, <2>2, <2>3 DEF ConnectInv
<1>4. Whole' => Whole  BY WholeStays
<1>5. \A o \in Outs : peer'[o] = peer[o]  BY <1>2, FdsAre
<1> QED  BY <1>3, <1>4, <1>5, StreamsStay

LEMMA DoKeeps ==
  ASSUME ExecInv, Exec \/ Born \/ FinisherCloses \/ FinisherAsks \/ ControlExit \/ FinisherTells PROVE ExecInv'
<1>1. UNCHANGED <<tty, control, handler, conns, allConnected, controlConnected, cli, strm, written, inPc, watchPc, deadFlag, holder, exMarks>>
  BY DEF Exec, Born, FinisherCloses, FinisherAsks, ControlExit, FinisherTells
<1>2. /\ doPc # "wait" /\ (child = "dead" => child' = "dead")
      /\ peer' = peer \/ peer' = [peer EXCEPT ![-1] = IF @ = "open" THEN "ended" ELSE @]
  BY DEF ExecInv, StageInv, Exec, Born, FinisherCloses, FinisherAsks, ControlExit, FinisherTells
<1>3. ExecTypeInv'
  <2>1. peer' \in [Fds -> {"none", "open", "closed", "ended"}]  BY <1>2 DEF ExecInv, ExecTypeInv
  <2>2. CASE Exec  BY <1>1, <2>1, <2>2 DEF Exec, ExecInv, ExecTypeInv
  <2>3. CASE Born  BY <1>1, <2>1, <2>3 DEF Born, ExecInv, ExecTypeInv
  <2>4. CASE FinisherCloses
    <3>1. ours' \in BOOLEAN  BY <2>4, Zenon DEF FinisherCloses
    <3>2. doPc' = "asks" /\ UNCHANGED <<allConnected, controlConnected, exited, ctlPc, child>>  BY <2>4 DEF FinisherCloses
    <3> QED  BY <1>1, <2>1, <3>1, <3>2 DEF ExecInv, ExecTypeInv
  <2>5. CASE FinisherAsks  BY <1>1, <2>1, <2>5 DEF FinisherAsks, ExecInv, ExecTypeInv
  <2>6. CASE ControlExit  BY <1>1, <2>1, <2>6 DEF ControlExit, ExecInv, ExecTypeInv
  <2>7. CASE FinisherTells  BY <1>1, <2>1, <2>7 DEF FinisherTells, ExecInv, ExecTypeInv
  <2> QED  BY <2>2, <2>3, <2>4, <2>5, <2>6, <2>7
<1>4. StageInv'
  <2>1. CASE Exec  BY <1>1, <2>1 DEF Exec, ExecInv, ExecTypeInv, StageInv
  <2>2. CASE Born  BY <1>1, <2>2 DEF Born, ExecInv, ExecTypeInv, StageInv
  <2>3. CASE FinisherCloses  BY <1>1, <2>3 DEF FinisherCloses, ExecInv, ExecTypeInv, StageInv
  <2>4. CASE FinisherAsks  BY <1>1, <2>4 DEF FinisherAsks, ExecInv, ExecTypeInv, StageInv
  <2>5. CASE ControlExit  BY <1>1, <2>5 DEF ControlExit, ExecInv, ExecTypeInv, StageInv
  <2>6. CASE FinisherTells  BY <1>1, <2>6 DEF FinisherTells, ExecInv, ExecTypeInv, StageInv
  <2> QED  BY <2>1, <2>2, <2>3, <2>4, <2>5, <2>6
<1> QED  BY <1>1, <1>2, <1>3, <1>4, DoStays

LEMMA BesideKeeps ==
  ASSUME ExecInv, ControlConnected \/ ControlLoop \/ forwardSignal \/ Exits \/ HolderEnds \/ WatchTold PROVE ExecInv'
<1>1. /\ UNCHANGED <<tty, control, handler, conns, allConnected, peer, doPc, cli, strm, written, inPc, ours>>
      /\ exMarks \subseteq exMarks' /\ controlConnected' \in {0, controlConnected}
  BY DEF ControlConnected, ControlLoop, forwardSignal, Exits, HolderEnds, WatchTold, ExMark
<1>2. ExecTypeInv'
  <2>1. CASE ControlConnected  BY <1>1, <2>1 DEF ControlConnected, ExecInv, ExecTypeInv
  <2>2. CASE ControlLoop  BY <1>1, <2>2 DEF ControlLoop, ExecInv, ExecTypeInv
  <2>3. CASE forwardSignal  BY <1>1, <2>3 DEF forwardSignal, ExecInv, ExecTypeInv
  <2>4. CASE Exits  BY <1>1, <2>4 DEF Exits, ExecInv, ExecTypeInv
  <2>5. CASE HolderEnds
    <3>1. holder' \in BOOLEAN  BY <2>5, Zenon DEF HolderEnds
    <3>2. UNCHANGED <<controlConnected, exited, ctlPc, child, watchPc, deadFlag>>  BY <2>5 DEF HolderEnds
    <3> QED  BY <1>1, <3>1, <3>2 DEF ExecInv, ExecTypeInv
  <2>6. CASE WatchTold  BY <1>1, <2>6 DEF WatchTold, ExecInv, ExecTypeInv
  <2> QED  BY <2>1, <2>2, <2>3, <2>4, <2>5, <2>6
<1>3. child = "dead" => child' = "dead"
  BY DEF ControlConnected, ControlLoop, forwardSignal, Exits, HolderEnds, WatchTold
<1>4. StageInv'
  <2>1. CASE ControlConnected
    <3>1. /\ ctlPc = "select" /\ controlConnected = 1 /\ ctlPc' = "loop"
          /\ exMarks' = exMarks \cup (IF doPc = "exits" THEN {"control"} ELSE {})
          /\ UNCHANGED <<tty, conns, exited, child, holder, watchPc, deadFlag>>
      BY <2>1 DEF ControlConnected, ExMark
    <3>2. -1 \in conns  BY <3>1, FdsAre DEF ExecInv, ConnectInv
    <3> QED  BY <1>1, <3>1, <3>2 DEF ExecInv, ExecTypeInv, StageInv
  <2>2. CASE ControlLoop  BY <1>1, <2>2 DEF ControlLoop, ExecInv, ExecTypeInv, StageInv
  <2>3. CASE forwardSignal  BY <1>1, <2>3 DEF forwardSignal, ExecInv, ExecTypeInv, StageInv
  <2>4. CASE Exits  BY <1>1, <2>4 DEF Exits, ExecInv, ExecTypeInv, StageInv
  <2>5. CASE HolderEnds  BY <1>1, <2>5 DEF HolderEnds, ExecInv, ExecTypeInv, StageInv
  <2>6. CASE WatchTold  BY <1>1, <2>6 DEF WatchTold, ExecInv, ExecTypeInv, StageInv
  <2> QED  BY <2>1, <2>2, <2>3, <2>4, <2>5, <2>6
<1>5. /\ deadFlag => deadFlag'
      /\ watchPc' = "done" /\ holder' => watchPc = "done" /\ holder
  <2>1. CASE Exits
    <3>1. child = "alive" /\ UNCHANGED <<watchPc, deadFlag>>  BY <2>1 DEF Exits
    <3> QED  BY <3>1 DEF ExecInv, StageInv
  <2>2. CASE ~Exits
    BY <2>2 DEF ControlConnected, ControlLoop, forwardSignal, HolderEnds, WatchTold
  <2> QED  BY <2>1, <2>2
<1> QED  BY <1>1, <1>2, <1>3, <1>4, <1>5, DoStays

\* A step of one stream: the others are as before.
LEMMA OneStream ==
  ASSUME ExecInv, ExecTypeInv', ConnectInv', StageInv', tty' = tty, NEW p \in 0 .. 2,
         \A o \in 0 .. 2 \ {p} : strm'[o] = strm[o] /\ written'[o] = written[o] /\ peer'[o] = peer[o],
         Whole' => Whole, child = "dead" => child' = "dead", doPc = "wait" => doPc' = "wait", deadFlag => deadFlag',
         exMarks \subseteq exMarks', watchPc' = "done" /\ holder' => p = 0 \/ (watchPc = "done" /\ holder),
         p \in Outs => OnItsWay(p)' /\ Carried(p)'
  PROVE  ExecInv'
<1>1. Outs' = Outs /\ Outs \subseteq 0 .. 2  BY FdsAre DEF Outs
<1>2. ASSUME NEW o \in Outs, o # p PROVE OnItsWay(o)' /\ Carried(o)'
  <2>1. OnItsWay(o) /\ Carried(o) /\ strm'[o] = strm[o] /\ written'[o] = written[o] /\ peer'[o] = peer[o]
    BY <1>1, <1>2 DEF ExecInv
  <2>2. OnItsWay(o)'  BY <2>1, WayStays
  <2>3. watchPc' = "done" /\ holder' => watchPc = "done" /\ holder
    <3> SUFFICES ASSUME watchPc' = "done", holder', p = 0 PROVE FALSE
      OBVIOUS
    <3>1. tty  BY DEF StageInv
    <3>2. o = 0  BY <3>1 DEF Outs
    <3> QED  BY <1>2, <3>2
  <2> QED  BY <2>1, <2>2, <2>3, CarriedStays
<1> QED  BY <1>1, <1>2 DEF ExecInv
LEMMA HungUpMeans == ASSUME ExecInv, HungUp, doPc # "wait" PROVE child = "dead" /\ ~holder /\ ~ours
BY DEF ExecInv, ExecTypeInv, StageInv, HungUp

LEMMA ReadIs ==
  ASSUME NEW s \in Streams
  PROVE  /\ Read(s) \in Streams /\ Read(s).rd = "has" /\ Read(s).chunk = s.buf /\ Read(s).buf = 0 /\ Read(s).noise = FALSE
         /\ Read(s).closed = s.closed /\ Read(s).snd = s.snd /\ Read(s).has = s.has /\ Read(s).wire = s.wire
         /\ Read(s).barrier = s.barrier /\ Read(s).open = s.open /\ Read(s).got = s.got
BY DEF Streams, Read

\* A step of the reader or the sender of stream p.
LEMMA StreamStep ==
  ASSUME ExecInv, NEW p \in 0 .. 2, NEW x \in Streams, strm' = [strm EXCEPT ![p] = x], doPc # "wait",
         UNCHANGED <<tty, control, handler, conns, allConnected, controlConnected, exited, peer, doPc, ctlPc, child, holder,
                     ours, inPc, watchPc, deadFlag, cli>>,
         written' \in [0 .. 2 -> Nat], \A o \in 0 .. 2 \ {p} : written'[o] = written[o],
         exMarks \subseteq exMarks', p \in Outs => OnItsWay(p)' /\ Carried(p)'
  PROVE  ExecInv'
<1>1. strm' \in [0 .. 2 -> Streams] /\ \A o \in 0 .. 2 \ {p} : strm'[o] = strm[o]  BY DEF ExecInv, ExecTypeInv
<1>2. ExecTypeInv'  BY <1>1 DEF ExecInv, ExecTypeInv
<1>3. ConnectInv'  BY ConnectStays DEF ExecInv
<1>4. StageInv'  BY StageStays DEF ExecInv
<1>5. Whole' => Whole  BY WholeStays
<1> QED  BY <1>1, <1>2, <1>3, <1>4, <1>5, OneStream

LEMMA StreamFacts ==
  ASSUME ExecInv, NEW p \in 0 .. 2
  PROVE  /\ strm[p] \in Streams /\ written[p] \in Nat
         /\ strm[p].rd # "none" \/ strm[p].snd # "none" => doPc # "wait"
         /\ strm[p].buf \in Nat /\ strm[p].chunk \in Nat /\ strm[p].has \in Nat /\ strm[p].wire \in Nat /\ strm[p].got \in Nat
         /\ strm[p].open \in BOOLEAN /\ strm[p].closed \in BOOLEAN /\ strm[p].noise \in BOOLEAN
         /\ \A x : [strm EXCEPT ![p] = x][p] = x
BY NoStreamIs DEF ExecInv, ExecTypeInv, StageInv, Streams

\* All but stream p and what was broken is as before.
StreamAlone(p) ==
  /\ UNCHANGED <<tty, control, handler, conns, allConnected, controlConnected, exited, peer, doPc, ctlPc, child, holder,
                 ours, written, inPc, watchPc, deadFlag, cli>>
  /\ exMarks \subseteq exMarks'

\* The reader reads: nobody who writes has been forgotten by the watcher.
LEMMA ReadKeeps ==
  ASSUME ExecInv, NEW p \in 0 .. 2, StreamAlone(p), strm[p].rd \in {"poll", "in", "again"},
         strm' = [strm EXCEPT ![p] = Read(strm[p])], ~(watchPc = "done" /\ holder)
  PROVE  ExecInv'
<1> DEFINE s == strm[p]
<1>1. s \in Streams /\ doPc # "wait" /\ strm'[p] = Read(s)  BY StreamFacts
<1>2. strm'[p].rd = "has" /\ strm'[p].chunk = s.buf /\ strm'[p].buf = 0 /\ strm'[p].closed = s.closed /\ strm'[p].snd = s.snd
      /\ strm'[p].has = s.has /\ strm'[p].wire = s.wire /\ strm'[p].barrier = s.barrier /\ strm'[p].open = s.open
      /\ strm'[p].got = s.got
  <2> HIDE DEF s
  <2>1. /\ Read(s).rd = "has" /\ Read(s).chunk = s.buf /\ Read(s).buf = 0 /\ Read(s).closed = s.closed /\ Read(s).snd = s.snd
        /\ Read(s).has = s.has /\ Read(s).wire = s.wire /\ Read(s).barrier = s.barrier /\ Read(s).open = s.open
        /\ Read(s).got = s.got
    BY <1>1, ReadIs
  <2> DEFINE y == Read(s)
  <2>2. strm'[p] = y  BY <1>1
  <2> HIDE DEF y
  <2> QED  BY <2>1, <2>2 DEF y
<1>3. written'[p] = written[p] /\ peer'[p] = peer[p] /\ child' = child  BY DEF StreamAlone
<1>4. Whole' => Whole  BY WholeStays DEF StreamAlone
<1>5. written[p] \in Nat /\ s.buf \in Nat /\ s.chunk \in Nat /\ s.has \in Nat /\ s.wire \in Nat /\ s.got \in Nat
  BY StreamFacts
<1>6. ASSUME p \in Outs PROVE OnItsWay(p)'
  <2>1. OnItsWay(p)  BY <1>6 DEF ExecInv
  <2>2. strm'[p].has # 0 => strm'[p].snd = "sends"  BY <1>2, <2>1 DEF OnItsWay
  <2>3. ASSUME Whole'
        PROVE  /\ strm'[p].chunk # 0 => strm'[p].rd = "has"
               /\ strm'[p].rd \in {"ended", "done"} \/ strm'[p].closed => child' = "dead" /\ strm'[p].buf = 0
               /\ ~strm'[p].open \/ strm'[p].snd = "done" => strm'[p].closed
               /\ peer'[p] = "closed" => strm'[p].wire = 0 /\ strm'[p].snd = "done"
    BY <1>2, <1>3, <1>4, <2>1, <2>3 DEF OnItsWay
  <2>4. ASSUME Whole' PROVE s.chunk = 0  BY <1>4, <2>1, <2>4 DEF OnItsWay
  <2>5. ASSUME Whole'
        PROVE  written'[p] = strm'[p].got + strm'[p].wire + strm'[p].has + strm'[p].chunk + strm'[p].buf
    <3>1. written[p] = s.got + s.wire + s.has + s.chunk + s.buf  BY <1>4, <2>1, <2>5 DEF OnItsWay
    <3> HIDE DEF s
    <3>2. written[p] = s.got + s.wire + s.has + s.buf + 0  BY <1>5, <2>4, <2>5, <3>1
    <3> QED  BY <1>2, <1>3, <3>2
  <2>6. ASSUME Whole' PROVE strm'[p].closed => strm'[p].chunk = 0
    BY <1>2, <1>4, <2>1, <2>6 DEF OnItsWay
  <2> QED  BY <2>2, <2>3, <2>5, <2>6 DEF OnItsWay
<1>7. ASSUME p \in Outs PROVE Carried(p)'
  <2>1. Carried(p)  BY <1>7 DEF ExecInv
  <2>2. UNCHANGED <<watchPc, holder, doPc>>  BY DEF StreamAlone
  <2> QED  BY <1>2, <1>3, <2>1, <2>2 DEF Carried
<1> QED  BY <1>1, <1>6, <1>7, ReadIs, StreamStep DEF ExecInv, ExecTypeInv, StreamAlone

\* The reader goes to another place.
LEMMA RdKeeps ==
  ASSUME ExecInv, NEW p \in 0 .. 2, StreamAlone(p), strm[p].rd \in {"poll", "in", "again"}, NEW r \in {"in", "again", "ended"},
         strm' = [strm EXCEPT ![p] = [strm[p] EXCEPT !.rd = r]], r = "again" => deadFlag,
         p \in Outs /\ r = "ended" /\ Whole' => child = "dead" /\ strm[p].buf = 0
  PROVE  ExecInv'
<1> DEFINE s == strm[p]
           x == [s EXCEPT !.rd = r]
<1>1. s \in Streams /\ doPc # "wait" /\ strm'[p] = x  BY StreamFacts
<1>2. x \in Streams  BY <1>1 DEF Streams
<1>3. strm'[p].rd = r /\ strm'[p].chunk = s.chunk /\ strm'[p].buf = s.buf /\ strm'[p].closed = s.closed /\ strm'[p].snd = s.snd
      /\ strm'[p].has = s.has /\ strm'[p].wire = s.wire /\ strm'[p].barrier = s.barrier /\ strm'[p].open = s.open
      /\ strm'[p].got = s.got
  BY <1>1 DEF Streams
<1> HIDE DEF x
<1>4. written'[p] = written[p] /\ peer'[p] = peer[p] /\ child' = child /\ deadFlag' = deadFlag /\ doPc' = doPc
  BY DEF StreamAlone
<1>5. Whole' => Whole  BY WholeStays DEF StreamAlone
<1>6. ASSUME p \in Outs PROVE OnItsWay(p)'
  <2>1. OnItsWay(p)  BY <1>6 DEF ExecInv
  <2>2. Whole => s.chunk = 0  BY <2>1 DEF OnItsWay
  <2> QED  BY <1>3, <1>4, <1>5, <1>6, <2>1, <2>2 DEF OnItsWay
<1>7. ASSUME p \in Outs PROVE Carried(p)'
  <2>1. Carried(p)  BY <1>7 DEF ExecInv
  <2> QED  BY <1>1, <1>3, <1>4, <2>1 DEF Carried
<1> QED  BY <1>1, <1>2, <1>6, <1>7, StreamStep DEF ExecInv, ExecTypeInv, StreamAlone, x

LEMMA ReaderPollsKeeps == ASSUME ExecInv, NEW p \in 0 .. 2, ReaderPolls(p) PROVE ExecInv'
<1>1. /\ p \in Outs /\ strm[p].rd = "poll" /\ PollSays(p) # "poll" /\ StreamAlone(p)
      /\ strm' = [strm EXCEPT ![p] = IF PollSays(p) = "has" \/ (PollSays(p) = "in" /\ ~tty) THEN Read(strm[p])
                                     ELSE [strm[p] EXCEPT !.rd = PollSays(p)]]
  BY DEF ReaderPolls, StreamAlone
<1>2. doPc # "wait" /\ OnItsWay(p)  BY <1>1, StreamFacts DEF ExecInv
<1>3. CASE PollSays(p) = "has" \/ (PollSays(p) = "in" /\ ~tty)
  <2>1. HungUp \/ ~tty  BY <1>3, Zenon DEF PollSays
  <2>2. watchPc = "done" => tty  BY DEF ExecInv, StageInv
  <2>3. HungUp => ~holder  BY <1>2, HungUpMeans
  <2>4. strm' = [strm EXCEPT ![p] = Read(strm[p])]  BY <1>1, <1>3
  <2> QED  BY <1>1, <2>1, <2>2, <2>3, <2>4, ReadKeeps
<1>4. CASE ~(PollSays(p) = "has" \/ (PollSays(p) = "in" /\ ~tty))
  <2>1. PollSays(p) \in {"ended", "in"}  BY <1>1, <1>4 DEF PollSays
  <2>2. strm' = [strm EXCEPT ![p] = [strm[p] EXCEPT !.rd = PollSays(p)]]  BY <1>1, <1>4
  <2>3. PollSays(p) = "ended" => ~strm[p].open \/ (~ToSend(p) /\ HungUp)  BY DEF PollSays
  <2>4. ~ToSend(p) => strm[p].buf = 0  BY StreamFacts DEF ToSend
  <2>5. HungUp => child = "dead"  BY <1>2, HungUpMeans
  <2>6. Whole' => Whole  BY <1>1, WholeStays DEF StreamAlone
  <2>7. PollSays(p) = "ended" /\ Whole' => child = "dead" /\ strm[p].buf = 0
    BY <1>2, <2>3, <2>4, <2>5, <2>6 DEF OnItsWay
  <2> QED  BY <1>1, <2>1, <2>2, <2>7, RdKeeps
<1> QED  BY <1>3, <1>4

LEMMA ReaderLoadsKeeps == ASSUME ExecInv, NEW p \in 0 .. 2, ReaderLoads(p) PROVE ExecInv'
<1>1. /\ strm[p].rd = "in" /\ StreamAlone(p)
      /\ strm' = [strm EXCEPT ![p] = IF deadFlag THEN [strm[p] EXCEPT !.rd = "again"] ELSE Read(strm[p])]
  BY DEF ReaderLoads, StreamAlone
<1>2. CASE deadFlag
  <2>1. strm' = [strm EXCEPT ![p] = [strm[p] EXCEPT !.rd = "again"]]  BY <1>1, <1>2
  <2> QED  BY <1>1, <1>2, <2>1, RdKeeps
<1>3. CASE ~deadFlag
  <2>1. strm' = [strm EXCEPT ![p] = Read(strm[p])]  BY <1>1, <1>3
  <2>2. watchPc # "done"  BY <1>3 DEF ExecInv, StageInv
  <2> QED  BY <1>1, <2>1, <2>2, ReadKeeps
<1> QED  BY <1>2, <1>3

LEMMA ReaderAgainKeeps == ASSUME ExecInv, NEW p \in 0 .. 2, ReaderAgain(p) PROVE ExecInv'
<1>1. /\ strm[p].rd = "again" /\ StreamAlone(p)
      /\ exMarks' = exMarks \cup (IF ~HungUp /\ strm[p].buf > 0 THEN {"held"} ELSE {})
      /\ strm' = [strm EXCEPT ![p] = IF HungUp /\ strm[p].open THEN Read(strm[p]) ELSE [strm[p] EXCEPT !.rd = "ended"]]
  BY DEF ReaderAgain, StreamAlone, ExMark
<1>2. doPc # "wait"  BY <1>1, StreamFacts
<1>3. CASE HungUp /\ strm[p].open
  <2>1. ~holder  BY <1>2, <1>3, HungUpMeans
  <2>2. strm' = [strm EXCEPT ![p] = Read(strm[p])]  BY <1>1, <1>3
  <2> QED  BY <1>1, <2>1, <2>2, ReadKeeps
<1>4. CASE ~(HungUp /\ strm[p].open)
  <2>1. strm' = [strm EXCEPT ![p] = [strm[p] EXCEPT !.rd = "ended"]]  BY <1>1, <1>4
  <2>2. Whole' => Whole  BY <1>1, WholeStays DEF StreamAlone
  <2>3. ASSUME p \in Outs, Whole' PROVE child = "dead" /\ strm[p].buf = 0
    <3>1. OnItsWay(p) /\ Carried(p)  BY <2>3 DEF ExecInv
    <3>2. child = "dead"  BY <1>1, <3>1 DEF Carried, ExecInv, StageInv
    <3>3. ~(~HungUp /\ strm[p].buf > 0)
      <4>1. "held" \notin exMarks'  BY <2>3 DEF Whole
      <4> QED  BY <1>1, <4>1
    <3>4. strm[p].buf \in Nat  BY StreamFacts
    <3>5. ~strm[p].open => strm[p].buf = 0  BY <2>2, <2>3, <3>1 DEF OnItsWay
    <3> QED  BY <1>4, <3>2, <3>3, <3>4, <3>5
  <2> QED  BY <1>1, <2>1, <2>3, RdKeeps
<1> QED  BY <1>3, <1>4

LEMMA ReaderHandsKeeps == ASSUME ExecInv, NEW p \in 0 .. 2, ReaderHands(p) PROVE ExecInv'
<1> DEFINE s == strm[p]
<1>1. s.rd = "has" /\ StreamAlone(p)  BY DEF ReaderHands, StreamAlone, ExMark
<1>2. s \in Streams /\ doPc # "wait"  BY <1>1, StreamFacts
<1>3. written'[p] = written[p] /\ peer'[p] = peer[p] /\ child' = child /\ doPc' = doPc /\ watchPc' = watchPc /\ holder' = holder
  BY <1>1 DEF StreamAlone
<1>4. Whole' => Whole  BY <1>1, WholeStays DEF StreamAlone
<1>5. written[p] \in Nat /\ s.buf \in Nat /\ s.chunk \in Nat /\ s.has \in Nat /\ s.wire \in Nat /\ s.got \in Nat
  BY StreamFacts
<1>6. CASE ~s.closed /\ s.snd = "takes"
           /\ strm' = [strm EXCEPT ![p].rd = "poll", ![p].has = strm[p].chunk, ![p].chunk = 0, ![p].snd = "sends"]
  <2> DEFINE x == [s EXCEPT !.rd = "poll", !.has = s.chunk, !.chunk = 0, !.snd = "sends"]
  <2>1. strm' = [strm EXCEPT ![p] = x]  BY <1>6 DEF ExecInv, ExecTypeInv
  <2>2. x \in Streams  BY <1>2 DEF Streams
  <2>3. strm'[p] = x  BY <2>1, StreamFacts
  <2>4. /\ strm'[p].rd = "poll" /\ strm'[p].has = s.chunk /\ strm'[p].chunk = 0 /\ strm'[p].snd = "sends"
        /\ strm'[p].buf = s.buf /\ strm'[p].noise = s.noise /\ strm'[p].closed = s.closed /\ strm'[p].wire = s.wire
        /\ strm'[p].barrier = s.barrier /\ strm'[p].open = s.open /\ strm'[p].got = s.got
    BY <1>2, <2>3 DEF Streams
  <2> HIDE DEF x
  <2>5. ASSUME p \in Outs PROVE OnItsWay(p)'
    <3>1. OnItsWay(p)  BY <2>5 DEF ExecInv
    <3>2. s.has = 0  BY <1>6, <3>1 DEF OnItsWay
    <3>3. ASSUME Whole' PROVE written'[p] = strm'[p].got + strm'[p].wire + strm'[p].has + strm'[p].chunk + strm'[p].buf
      <4>1. written[p] = s.got + s.wire + s.has + s.chunk + s.buf  BY <1>4, <3>1, <3>3 DEF OnItsWay
      <4> HIDE DEF s
      <4>2. written[p] = s.got + s.wire + s.chunk + 0 + s.buf  BY <1>5, <3>2, <4>1
      <4> QED  BY <1>3, <2>4, <4>2
    <3>4. ASSUME Whole' PROVE ~(peer[p] = "closed") /\ s.open  BY <1>4, <1>6, <3>1, <3>4, StreamFacts DEF OnItsWay
    <3> QED  BY <1>3, <1>6, <2>4, <3>3, <3>4 DEF OnItsWay
  <2>6. ASSUME p \in Outs PROVE Carried(p)'
    <3>1. Carried(p)  BY <2>6 DEF ExecInv
    <3>2. watchPc = "done" /\ holder => ToSend(p) \/ ~s.open  BY <1>1, <1>6, <3>1 DEF Carried
    <3> QED  BY <1>1, <1>3, <1>6, <2>4, <3>1, <3>2 DEF Carried, ToSend, StreamAlone
  <2> QED  BY <1>1, <1>2, <2>1, <2>2, <2>5, <2>6, StreamStep DEF ExecInv, ExecTypeInv, StreamAlone
<1>7. CASE exMarks' = exMarks \cup {"panic"} /\ strm' = [strm EXCEPT ![p].rd = "done"]
  <2> DEFINE x == [s EXCEPT !.rd = "done"]
  <2>1. strm' = [strm EXCEPT ![p] = x]  BY <1>7 DEF ExecInv, ExecTypeInv
  <2>2. x \in Streams  BY <1>2 DEF Streams
  <2>3. strm'[p] = x  BY <2>1, StreamFacts
  <2>4. strm'[p].rd = "done" /\ strm'[p].has = s.has /\ strm'[p].snd = s.snd /\ strm'[p].closed = s.closed /\ strm'[p].barrier = s.barrier
    BY <1>2, <2>3 DEF Streams
  <2> HIDE DEF x
  <2>5. ~Whole'  BY <1>7 DEF Whole
  <2>6. p \in Outs => OnItsWay(p)'  BY <2>4, <2>5 DEF ExecInv, OnItsWay
  <2>7. p \in Outs => Carried(p)'  BY <1>2, <1>3, <1>7, <2>4 DEF ExecInv, Carried
  <2> QED  BY <1>1, <1>2, <2>1, <2>2, <2>6, <2>7, StreamStep DEF ExecInv, ExecTypeInv, StreamAlone
<1> QED  BY <1>6, <1>7 DEF ReaderHands, ExMark

LEMMA ReaderEndsKeeps == ASSUME ExecInv, NEW p \in 0 .. 2, ReaderEnds(p) PROVE ExecInv'
<1> DEFINE s == strm[p]
           x == [s EXCEPT !.rd = "done", !.closed = TRUE]
<1>1. s.rd = "ended" /\ StreamAlone(p) /\ strm' = [strm EXCEPT ![p].rd = "done", ![p].closed = TRUE]
  BY DEF ReaderEnds, StreamAlone
<1>2. s \in Streams /\ doPc # "wait"  BY <1>1, StreamFacts
<1>3. strm' = [strm EXCEPT ![p] = x]  BY <1>1 DEF ExecInv, ExecTypeInv
<1>4. x \in Streams /\ strm'[p] = x  BY <1>2, <1>3, StreamFacts DEF Streams
<1>5. /\ strm'[p].rd = "done" /\ strm'[p].closed /\ strm'[p].has = s.has /\ strm'[p].chunk = s.chunk /\ strm'[p].snd = s.snd
      /\ strm'[p].buf = s.buf /\ strm'[p].wire = s.wire /\ strm'[p].barrier = s.barrier /\ strm'[p].open = s.open /\ strm'[p].got = s.got
  BY <1>2, <1>4 DEF Streams
<1> HIDE DEF x
<1>6. /\ written'[p] = written[p] /\ peer'[p] = peer[p] /\ child' = child /\ deadFlag' = deadFlag /\ doPc' = doPc
      /\ (Whole' => Whole)
  BY <1>1, WholeStays DEF StreamAlone
<1>7. ASSUME p \in Outs PROVE OnItsWay(p)'
  <2>1. OnItsWay(p)  BY <1>7 DEF ExecInv
  <2>2. Whole => s.chunk = 0 /\ child = "dead" /\ s.buf = 0  BY <1>1, <2>1 DEF OnItsWay
  <2> QED  BY <1>5, <1>6, <2>1, <2>2 DEF OnItsWay
<1>8. p \in Outs => Carried(p)'  BY <1>2, <1>5, <1>6 DEF ExecInv, Carried
<1> QED  BY <1>1, <1>2, <1>3, <1>4, <1>7, <1>8, StreamStep DEF ExecInv, ExecTypeInv, StreamAlone

LEMMA SenderSendsKeeps == ASSUME ExecInv, NEW p \in 0 .. 2, SenderSends(p) PROVE ExecInv'
<1> DEFINE s == strm[p]
           x == IF peer[p] = "open" THEN [s EXCEPT !.snd = "takes", !.wire = s.wire + s.has, !.has = 0]
                ELSE [s EXCEPT !.snd = "done", !.has = 0, !.open = FALSE]
<1>1. s.snd = "sends" /\ StreamAlone(p) /\ strm' = [strm EXCEPT ![p] = x]  BY DEF SenderSends, StreamAlone
<1>2. s \in Streams /\ doPc # "wait" /\ strm'[p] = x  BY <1>1, StreamFacts
<1>3. /\ written'[p] = written[p] /\ peer'[p] = peer[p] /\ child' = child /\ deadFlag' = deadFlag /\ doPc' = doPc
      /\ watchPc' = watchPc /\ holder' = holder /\ (Whole' => Whole)
  BY <1>1, WholeStays DEF StreamAlone
<1>4. written[p] \in Nat /\ s.buf \in Nat /\ s.chunk \in Nat /\ s.has \in Nat /\ s.wire \in Nat /\ s.got \in Nat
  BY StreamFacts
<1>5. x \in Streams
  <2>1. [s EXCEPT !.snd = "takes", !.wire = s.wire + s.has, !.has = 0] \in Streams
    <3>1. s.wire + s.has \in Nat  BY <1>4
    <3> QED  BY <1>2, <3>1 DEF Streams
  <2>2. [s EXCEPT !.snd = "done", !.has = 0, !.open = FALSE] \in Streams  BY <1>2 DEF Streams
  <2> QED  BY <2>1, <2>2
<1>6. CASE peer[p] = "open"
  <2>1. /\ strm'[p].rd = s.rd /\ strm'[p].closed = s.closed /\ strm'[p].has = 0 /\ strm'[p].chunk = s.chunk /\ strm'[p].snd = "takes"
        /\ strm'[p].buf = s.buf /\ strm'[p].noise = s.noise /\ strm'[p].wire = s.wire + s.has /\ strm'[p].barrier = s.barrier
        /\ strm'[p].open = s.open /\ strm'[p].got = s.got
    BY <1>2, <1>6 DEF Streams
  <2> HIDE DEF x
  <2>2. ASSUME p \in Outs PROVE OnItsWay(p)'
    <3>1. OnItsWay(p)  BY <2>2 DEF ExecInv
    <3>2. ASSUME Whole' PROVE written'[p] = strm'[p].got + strm'[p].wire + strm'[p].has + strm'[p].chunk + strm'[p].buf
      <4>1. written[p] = s.got + s.wire + s.has + s.chunk + s.buf  BY <1>3, <3>1, <3>2 DEF OnItsWay
      <4> HIDE DEF s
      <4>2. written[p] = s.got + (s.wire + s.has) + 0 + s.chunk + s.buf  BY <1>4, <4>1
      <4> QED  BY <1>3, <2>1, <4>2
    <3> QED  BY <1>1, <1>3, <1>6, <2>1, <3>1, <3>2 DEF OnItsWay
  <2>3. p \in Outs => Carried(p)'  BY <1>1, <1>2, <1>3, <2>1 DEF ExecInv, Carried, ToSend, StreamAlone
  <2> QED  BY <1>1, <1>2, <1>5, <2>2, <2>3, StreamStep DEF ExecInv, ExecTypeInv, StreamAlone
<1>7. CASE peer[p] # "open"
  <2>1. /\ strm'[p].rd = s.rd /\ strm'[p].closed = s.closed /\ strm'[p].has = 0 /\ strm'[p].chunk = s.chunk /\ strm'[p].snd = "done"
        /\ strm'[p].buf = s.buf /\ strm'[p].noise = s.noise /\ strm'[p].wire = s.wire /\ strm'[p].barrier = s.barrier
        /\ strm'[p].open = FALSE /\ strm'[p].got = s.got
    BY <1>2, <1>7 DEF Streams
  <2> HIDE DEF x
  <2>2. ASSUME p \in Outs PROVE OnItsWay(p)'
    <3>1. OnItsWay(p)  BY <2>2 DEF ExecInv
    <3>2. peer[p] = "closed" \/ cli \in {"connects", "gone"}
      BY <1>7, <2>2, FdsAre DEF ExecInv, ExecTypeInv, ConnectInv
    <3>3. cli # "connects"  BY <1>2 DEF ExecInv, StageInv
    <3>4. ~Whole  BY <1>1, <3>1, <3>2, <3>3 DEF OnItsWay, Whole
    <3> QED  BY <1>3, <2>1, <3>4 DEF OnItsWay
  <2>3. p \in Outs => Carried(p)'  BY <1>1, <1>2, <1>3, <1>7, <2>1 DEF ExecInv, Carried, ToSend, StreamAlone
  <2> QED  BY <1>1, <1>2, <1>5, <2>2, <2>3, StreamStep DEF ExecInv, ExecTypeInv, StreamAlone
<1> QED  BY <1>6, <1>7

LEMMA SenderEndsKeeps == ASSUME ExecInv, NEW p \in 0 .. 2, SenderEnds(p) PROVE ExecInv'
<1> DEFINE s == strm[p]
           b == peer[p] = "open"
           x == [s EXCEPT !.snd = "done", !.barrier = b, !.open = FALSE]
<1>1. s.snd = "takes" /\ s.closed /\ StreamAlone(p)
      /\ strm' = [strm EXCEPT ![p].snd = "done", ![p].barrier = (peer[p] = "open"), ![p].open = FALSE]
  BY DEF SenderEnds, StreamAlone
<1>2. s \in Streams /\ doPc # "wait"  BY <1>1, StreamFacts
<1>3. b \in BOOLEAN  OBVIOUS
<1>4. strm' = [strm EXCEPT ![p] = x]  BY <1>1 DEF ExecInv, ExecTypeInv
<1>5. strm'[p] = x  BY <1>4, StreamFacts
<1>6. /\ written'[p] = written[p] /\ peer'[p] = peer[p] /\ child' = child /\ deadFlag' = deadFlag /\ doPc' = doPc
      /\ watchPc' = watchPc /\ holder' = holder /\ (Whole' => Whole)
  BY <1>1, WholeStays DEF StreamAlone
<1>7. b <=> peer[p] = "open"  OBVIOUS
<1> HIDE DEF b
<1>8. x \in Streams  BY <1>2, <1>3 DEF Streams
<1>9. /\ strm'[p].rd = s.rd /\ strm'[p].closed = s.closed /\ strm'[p].has = s.has /\ strm'[p].chunk = s.chunk /\ strm'[p].snd = "done"
      /\ strm'[p].buf = s.buf /\ strm'[p].noise = s.noise /\ strm'[p].wire = s.wire /\ strm'[p].barrier = b
      /\ strm'[p].open = FALSE /\ strm'[p].got = s.got
  BY <1>2, <1>5 DEF Streams
<1> HIDE DEF x
<1>10. ASSUME p \in Outs PROVE OnItsWay(p)'
  <2>1. OnItsWay(p)  BY <1>10 DEF ExecInv
  <2>2. Whole => peer[p] # "closed"  BY <1>1, <2>1 DEF OnItsWay
  <2>3. s.has = 0  BY <1>1, <2>1 DEF OnItsWay
  <2> QED  BY <1>1, <1>6, <1>9, <2>1, <2>2, <2>3 DEF OnItsWay
<1>11. p \in Outs => Carried(p)'  BY <1>1, <1>2, <1>6, <1>7, <1>9 DEF ExecInv, Carried, ToSend
<1> QED  BY <1>1, <1>2, <1>4, <1>8, <1>10, <1>11, StreamStep DEF ExecInv, ExecTypeInv, StreamAlone

LEMMA WritesKeeps == ASSUME ExecInv, NEW p \in 0 .. 2, Writes(p) PROVE ExecInv'
<1> DEFINE s == strm[p]
           x == [s EXCEPT !.buf = @ + 1]
<1>1. /\ child = "alive" /\ p \in Outs /\ s.open /\ written' = [written EXCEPT ![p] = @ + 1]
      /\ strm' = [strm EXCEPT ![p].buf = @ + 1]
      /\ UNCHANGED <<tty, control, handler, conns, allConnected, controlConnected, exited, peer, doPc, ctlPc, child, holder,
                     ours, inPc, watchPc, deadFlag, cli, exMarks>>
  BY DEF Writes
<1>2. s \in Streams /\ doPc # "wait" /\ written \in [0 .. 2 -> Nat]  BY <1>1, StreamFacts DEF ExecInv, ExecTypeInv, StageInv
<1>3. written[p] \in Nat /\ s.buf \in Nat /\ s.chunk \in Nat /\ s.has \in Nat /\ s.wire \in Nat /\ s.got \in Nat
  BY StreamFacts
<1>4. strm' = [strm EXCEPT ![p] = x]  BY <1>1 DEF ExecInv, ExecTypeInv
<1>5. x \in Streams /\ strm'[p] = x
  <2>1. s.buf + 1 \in Nat  BY <1>3
  <2> QED  BY <1>2, <1>4, <2>1, StreamFacts DEF Streams
<1>6. /\ strm'[p].rd = s.rd /\ strm'[p].closed = s.closed /\ strm'[p].has = s.has /\ strm'[p].chunk = s.chunk /\ strm'[p].snd = s.snd
      /\ strm'[p].buf = s.buf + 1 /\ strm'[p].noise = s.noise /\ strm'[p].wire = s.wire /\ strm'[p].barrier = s.barrier
      /\ strm'[p].open = s.open /\ strm'[p].got = s.got
  BY <1>2, <1>5 DEF Streams
<1> HIDE DEF x
<1>7. written'[p] = written[p] + 1 /\ written' \in [0 .. 2 -> Nat] /\ \A o \in 0 .. 2 \ {p} : written'[o] = written[o]
  BY <1>1, <1>2, <1>3
<1>8. Whole' <=> Whole  BY <1>1 DEF Whole
<1>9. OnItsWay(p) /\ Carried(p)  BY <1>1 DEF ExecInv
<1>10. OnItsWay(p)'
  <2>1. ASSUME Whole PROVE written'[p] = strm'[p].got + strm'[p].wire + strm'[p].has + strm'[p].chunk + strm'[p].buf
    <3>1. written[p] = s.got + s.wire + s.has + s.chunk + s.buf  BY <1>9, <2>1 DEF OnItsWay
    <3> HIDE DEF s
    <3>2. written[p] + 1 = s.got + s.wire + s.has + s.chunk + (s.buf + 1)  BY <1>3, <3>1
    <3> QED  BY <1>6, <1>7, <3>2
  <2>2. Whole => s.rd \notin {"ended", "done"} /\ ~s.closed  BY <1>1, <1>9 DEF OnItsWay
  <2> QED  BY <1>1, <1>6, <1>8, <1>9, <2>1, <2>2 DEF OnItsWay
<1>11. Carried(p)'
  <2>1. ~holder  BY <1>1 DEF ExecInv, StageInv
  <2> QED  BY <1>1, <1>6, <1>9, <2>1 DEF Carried
<1> QED  BY <1>1, <1>2, <1>4, <1>5, <1>7, <1>10, <1>11, StreamStep

LEMMA HolderWritesKeeps == ASSUME ExecInv, NEW p \in 0 .. 2, HolderWrites(p) PROVE ExecInv'
<1> DEFINE s == strm[p]
           x == [s EXCEPT !.noise = TRUE]
<1>1. holder /\ p \in Outs /\ StreamAlone(p) /\ strm' = [strm EXCEPT ![p].noise = TRUE]  BY DEF HolderWrites, StreamAlone
<1>2. s \in Streams /\ doPc # "wait"  BY <1>1, StreamFacts DEF ExecInv, StageInv
<1>3. strm' = [strm EXCEPT ![p] = x]  BY <1>1 DEF ExecInv, ExecTypeInv
<1>4. x \in Streams /\ strm'[p] = x  BY <1>2, <1>3, StreamFacts DEF Streams
<1>5. /\ strm'[p].rd = s.rd /\ strm'[p].closed = s.closed /\ strm'[p].has = s.has /\ strm'[p].chunk = s.chunk /\ strm'[p].snd = s.snd
      /\ strm'[p].buf = s.buf /\ strm'[p].noise = TRUE /\ strm'[p].wire = s.wire /\ strm'[p].barrier = s.barrier
      /\ strm'[p].open = s.open /\ strm'[p].got = s.got
  BY <1>2, <1>4 DEF Streams
<1> HIDE DEF x
<1>6. /\ written'[p] = written[p] /\ peer'[p] = peer[p] /\ child' = child /\ deadFlag' = deadFlag /\ doPc' = doPc
      /\ watchPc' = watchPc /\ holder' = holder /\ exMarks \subseteq exMarks' /\ (Whole' => Whole)
  BY <1>1, WholeStays DEF StreamAlone
<1>7. OnItsWay(p) /\ Carried(p)  BY <1>1 DEF ExecInv
<1>8. OnItsWay(p)'  BY <1>5, <1>6, <1>7 DEF OnItsWay
<1>9. Carried(p)'  BY <1>5, <1>6, <1>7 DEF Carried, ToSend
<1> QED  BY <1>1, <1>2, <1>3, <1>4, <1>8, <1>9, StreamStep DEF ExecInv, ExecTypeInv, StreamAlone

LEMMA WatchPollsKeeps == ASSUME ExecInv, WatchPolls PROVE ExecInv'
<1> DEFINE s == strm[0]
           b == s.closed \/ PollSays(0) = "poll"
           x == [s EXCEPT !.closed = b]
<1>1. /\ watchPc = "polls" /\ watchPc' = "done" /\ strm' = [strm EXCEPT ![0].closed = @ \/ PollSays(0) = "poll"]
      /\ exMarks' = exMarks \cup (IF PollSays(0) = "poll" /\ s.rd = "has" THEN {"panic"} ELSE {})
      /\ UNCHANGED <<tty, control, handler, conns, allConnected, controlConnected, exited, peer, doPc, ctlPc, child, holder,
                     ours, written, inPc, deadFlag, cli>>
  BY DEF WatchPolls, ExMark
<1>2. s \in Streams /\ 0 \in 0 .. 2  BY StreamFacts
<1>3. tty /\ doPc # "wait" /\ 0 \in Outs /\ child = "dead"  BY <1>1 DEF ExecInv, StageInv, Outs
<1>4. strm' = [strm EXCEPT ![0] = x]  BY <1>1 DEF ExecInv, ExecTypeInv
<1>5. b \in BOOLEAN /\ (b <=> s.closed \/ PollSays(0) = "poll")  BY <1>2 DEF Streams
<1> HIDE DEF b
<1>6. x \in Streams /\ strm'[0] = x  BY <1>2, <1>4, <1>5, StreamFacts DEF Streams
<1>7. /\ strm'[0].rd = s.rd /\ strm'[0].closed = b /\ strm'[0].has = s.has /\ strm'[0].chunk = s.chunk /\ strm'[0].snd = s.snd
      /\ strm'[0].buf = s.buf /\ strm'[0].noise = s.noise /\ strm'[0].wire = s.wire /\ strm'[0].barrier = s.barrier
      /\ strm'[0].open = s.open /\ strm'[0].got = s.got
  BY <1>2, <1>6 DEF Streams
<1> HIDE DEF x
<1>8. strm' \in [0 .. 2 -> Streams] /\ \A o \in 0 .. 2 \ {0} : strm'[o] = strm[o]
  BY <1>4, <1>6 DEF ExecInv, ExecTypeInv
<1>9. ExecTypeInv'  BY <1>1, <1>8 DEF ExecInv, ExecTypeInv
<1>10. ConnectInv'  BY <1>1, ConnectStays DEF ExecInv
<1>11. StageInv'  BY <1>1, <1>3 DEF ExecInv, StageInv
<1>12. Whole' => Whole /\ ~(PollSays(0) = "poll" /\ s.rd = "has")
  <2>1. Whole' => Whole  BY <1>1, WholeStays
  <2> QED  BY <1>1, <2>1 DEF Whole
<1>13. OnItsWay(0) /\ Carried(0)  BY <1>3 DEF ExecInv
<1>14. PollSays(0) = "poll" => s.open /\ ~ToSend(0)  BY Zenon DEF PollSays
<1>15. ~ToSend(0) => s.buf = 0  BY <1>2, StreamFacts DEF ToSend
<1>16. OnItsWay(0)'
  <2>1. Whole' /\ b => s.chunk = 0 /\ s.buf = 0  BY <1>5, <1>12, <1>13, <1>14, <1>15 DEF OnItsWay
  <2>2. UNCHANGED <<written, peer, child>>  BY <1>1
  <2> QED  BY <1>3, <1>5, <1>7, <1>12, <1>13, <2>1, <2>2 DEF OnItsWay
<1>17. Carried(0)'
  <2>1. PollSays(0) # "poll" => ToSend(0) \/ ~s.open \/ HungUp  BY DEF PollSays
  <2>2. HungUp => ~holder  BY <1>3, HungUpMeans
  <2>3. UNCHANGED <<doPc, peer, holder, deadFlag>> /\ exMarks \subseteq exMarks'  BY <1>1
  <2>4. holder => strm'[0].closed \/ ToSend(0)' \/ ~strm'[0].open
    BY <1>5, <1>7, <2>1, <2>2 DEF ToSend
  <2> QED  BY <1>5, <1>7, <1>13, <2>3, <2>4 DEF Carried
<1> QED  BY <1>1, <1>2, <1>8, <1>9, <1>10, <1>11, <1>12, <1>16, <1>17, OneStream

LEMMA ClientReceivesKeeps == ASSUME ExecInv, NEW p \in 0 .. 2, ClientReceives(p) PROVE ExecInv'
<1> DEFINE s == strm[p]
<1>1. /\ cli = "streams" /\ p \in Outs /\ peer[p] = "open"
      /\ UNCHANGED <<tty, control, handler, conns, allConnected, controlConnected, exited, doPc, ctlPc, child, holder, ours,
                     written, inPc, watchPc, deadFlag, exMarks>>
  BY DEF ClientReceives
<1>2. /\ s \in Streams /\ peer \in [Fds -> {"none", "open", "closed", "ended"}] /\ p \in Fds
      /\ Asked' = Asked /\ DataFds' = DataFds /\ Outs' = Outs
  BY <1>1, StreamFacts, FdsAre DEF ExecInv, ExecTypeInv, Asked, DataFds, Outs
<1>3. written[p] \in Nat /\ s.buf \in Nat /\ s.chunk \in Nat /\ s.has \in Nat /\ s.wire \in Nat /\ s.got \in Nat
  BY StreamFacts
<1>4. OnItsWay(p) /\ Carried(p)  BY <1>1 DEF ExecInv
<1>5. CASE s.wire > 0 /\ strm' = [strm EXCEPT ![p].wire = 0, ![p].got = @ + strm[p].wire] /\ UNCHANGED <<peer, cli>>
  <2> DEFINE x == [s EXCEPT !.wire = 0, !.got = s.got + s.wire]
  <2>1. doPc # "wait"  BY <1>1, <1>5, NoStreamIs DEF ExecInv, StageInv
  <2>2. strm' = [strm EXCEPT ![p] = x]  BY <1>5 DEF ExecInv, ExecTypeInv
  <2>3. x \in Streams /\ strm'[p] = x
    <3>1. s.got + s.wire \in Nat  BY <1>3
    <3> QED  BY <1>2, <2>2, <3>1, StreamFacts DEF Streams
  <2>4. /\ strm'[p].rd = s.rd /\ strm'[p].closed = s.closed /\ strm'[p].has = s.has /\ strm'[p].chunk = s.chunk /\ strm'[p].snd = s.snd
        /\ strm'[p].buf = s.buf /\ strm'[p].noise = s.noise /\ strm'[p].wire = 0 /\ strm'[p].barrier = s.barrier
        /\ strm'[p].open = s.open /\ strm'[p].got = s.got + s.wire
    BY <1>2, <2>3 DEF Streams
  <2> HIDE DEF x
  <2>5. OnItsWay(p)'
    <3>1. Whole' <=> Whole  BY <1>1, <1>5 DEF Whole
    <3>2. ASSUME Whole PROVE written'[p] = strm'[p].got + strm'[p].wire + strm'[p].has + strm'[p].chunk + strm'[p].buf
      <4>1. written[p] = s.got + s.wire + s.has + s.chunk + s.buf  BY <1>4, <3>2 DEF OnItsWay
      <4> HIDE DEF s
      <4>2. written[p] = (s.got + s.wire) + 0 + s.has + s.chunk + s.buf  BY <1>3, <4>1
      <4> QED  BY <1>1, <2>4, <4>2
    <3> QED  BY <1>1, <1>4, <1>5, <2>4, <3>1, <3>2 DEF OnItsWay
  <2>6. Carried(p)'  BY <1>1, <1>4, <1>5, <2>4 DEF Carried, ToSend
  <2> QED  BY <1>1, <1>5, <2>1, <2>2, <2>3, <2>5, <2>6, StreamStep DEF ExecInv, ExecTypeInv
<1>6. CASE /\ s.wire = 0 /\ s.barrier /\ strm' = [strm EXCEPT ![p].barrier = FALSE]
           /\ peer' = [peer EXCEPT ![p] = "closed"]
           /\ cli' = IF \A q \in Outs \ {p} : peer[q] = "closed" THEN "waits" ELSE cli
  <2> DEFINE x == [s EXCEPT !.barrier = FALSE]
  <2>1. doPc # "wait"  BY <1>1, <1>6, NoStreamIs DEF ExecInv, StageInv
  <2>2. strm' = [strm EXCEPT ![p] = x]  BY <1>6 DEF ExecInv, ExecTypeInv
  <2>3. x \in Streams /\ strm'[p] = x  BY <1>2, <2>2, StreamFacts DEF Streams
  <2>4. /\ strm'[p].rd = s.rd /\ strm'[p].closed = s.closed /\ strm'[p].has = s.has /\ strm'[p].chunk = s.chunk /\ strm'[p].snd = s.snd
        /\ strm'[p].buf = s.buf /\ strm'[p].noise = s.noise /\ strm'[p].wire = s.wire /\ strm'[p].barrier = FALSE
        /\ strm'[p].open = s.open /\ strm'[p].got = s.got
    BY <1>2, <2>3 DEF Streams
  <2> HIDE DEF x
  <2>5. peer'[p] = "closed" /\ \A f \in Fds \ {p} : peer'[f] = peer[f]  BY <1>2, <1>6
  <2>6. cli' \in {"streams", "waits"} /\ (cli' = "waits" => \A q \in Outs \ {p} : peer[q] = "closed")
    BY <1>1, <1>6
  <2>7. strm' \in [0 .. 2 -> Streams] /\ \A o \in 0 .. 2 \ {p} : strm'[o] = strm[o]
    BY <2>2, <2>3 DEF ExecInv, ExecTypeInv
  <2>8. ExecTypeInv'
    <3>1. peer' \in [Fds -> {"none", "open", "closed", "ended"}]  BY <1>2, <1>6
    <3> QED  BY <1>1, <2>6, <2>7, <3>1 DEF ExecInv, ExecTypeInv
  <2>9. ConnectInv'
    <3>1. \A f \in Fds : peer'[f] = "none" <=> peer[f] = "none"  BY <1>1, <2>5
    <3>2. /\ \A f \in Fds : handler'[f] # "none" \/ f \in conns' => peer'[f] # "none"
          /\ \A f, g \in Asked : f < g /\ peer'[g] # "none" => peer'[f] # "none"
          /\ \A f \in Fds : allConnected' = 1 \/ handler'[f] = "all" => DataFds \subseteq conns'
          /\ \A f \in Fds : controlConnected' = 1 \/ handler'[f] = "control" => -1 \in conns'
      BY <1>1, <3>1, FdsAre DEF ExecInv, ConnectInv
    <3>3. cli' = "waits" => \A o \in Outs : peer'[o] # "open"  BY <2>5, <2>6, FdsAre
    <3>4. \A f \in DataFds : peer'[f] # "ended" /\ peer'[f] # "none"
      BY <1>1, <2>5, <3>1, FdsAre DEF ExecInv, ConnectInv
    <3> QED  BY <1>2, <2>6, <3>2, <3>3, <3>4 DEF ConnectInv
  <2>10. StageInv'  BY <1>1, <2>1, <2>6 DEF ExecInv, StageInv
  <2>11. Whole' => Whole  BY <1>1 DEF Whole
  <2>12. s.snd = "done" /\ (Whole => s.wire = 0)
    <3>1. s.wire = 0  BY <1>6
    <3>2. s.snd = "done"  BY <1>4, <1>6 DEF Carried
    <3> QED  BY <3>1, <3>2
  <2>13. OnItsWay(p)'  BY <1>1, <1>4, <2>4, <2>11, <2>12 DEF OnItsWay
  <2>14. Carried(p)'  BY <1>1, <1>4, <2>4, <2>5 DEF Carried, ToSend
  <2>15. \A o \in 0 .. 2 \ {p} : peer'[o] = peer[o] /\ written'[o] = written[o]  BY <1>1, <2>5, FdsAre
  <2> QED  BY <1>1, <2>7, <2>8, <2>9, <2>10, <2>11, <2>13, <2>14, <2>15, OneStream
<1> QED  BY <1>1, <1>5, <1>6 DEF ClientReceives

LEMMA InputEndsKeeps == ASSUME ExecInv, InputEnds PROVE ExecInv'
<1> DEFINE s == strm[0]
           x == IF tty THEN [s EXCEPT !.open = FALSE] ELSE s
<1>1. /\ inPc' = "done" /\ strm' = (IF tty THEN [strm EXCEPT ![0].open = FALSE] ELSE strm)
      /\ child' \in (IF tty /\ child = "alive" THEN {"alive", "dead"} ELSE {child})
      /\ UNCHANGED <<tty, control, handler, conns, allConnected, controlConnected, exited, peer, doPc, ctlPc, holder, ours,
                     written, watchPc, deadFlag, cli, exMarks>>
  BY DEF InputEnds
<1>2. s \in Streams /\ 0 \in 0 .. 2 /\ inPc # "none"
  <2>1. inPc # "none"  BY DEF InputEnds
  <2> QED  BY <2>1, StreamFacts
<1>3. doPc # "wait" /\ cli # "connects"  BY <1>2 DEF ExecInv, StageInv
<1>4. strm' = [strm EXCEPT ![0] = x]
  <2>1. CASE tty  BY <1>1, <2>1 DEF ExecInv, ExecTypeInv
  <2>2. CASE ~tty  BY <1>1, <2>2 DEF ExecInv, ExecTypeInv
  <2> QED  BY <2>1, <2>2
<1>5. x \in Streams /\ strm'[0] = x
  <2>1. [s EXCEPT !.open = FALSE] \in Streams  BY <1>2 DEF Streams
  <2> QED  BY <1>2, <1>4, <2>1, StreamFacts
<1>6. /\ strm'[0].rd = s.rd /\ strm'[0].closed = s.closed /\ strm'[0].has = s.has /\ strm'[0].chunk = s.chunk /\ strm'[0].snd = s.snd
      /\ strm'[0].buf = s.buf /\ strm'[0].noise = s.noise /\ strm'[0].wire = s.wire /\ strm'[0].barrier = s.barrier
      /\ (~tty => strm'[0].open = s.open) /\ (~s.open => ~strm'[0].open) /\ strm'[0].got = s.got
  <2>1. CASE tty
    <3>1. strm'[0] = [s EXCEPT !.open = FALSE]  BY <1>5, <2>1
    <3> QED  BY <1>2, <2>1, <3>1 DEF Streams
  <2>2. CASE ~tty
    <3>1. strm'[0] = s  BY <1>5, <2>2
    <3> QED  BY <2>2, <3>1
  <2> QED  BY <2>1, <2>2
<1> HIDE DEF x
<1>7. strm' \in [0 .. 2 -> Streams] /\ \A o \in 0 .. 2 \ {0} : strm'[o] = strm[o]
  BY <1>4, <1>5 DEF ExecInv, ExecTypeInv
<1>8. /\ child' = child \/ (child = "alive" /\ child' = "dead")
      /\ child' \in {"none", "alive", "dead"}
  BY <1>1 DEF ExecInv, ExecTypeInv
<1>9. ExecTypeInv'  BY <1>1, <1>7, <1>8 DEF ExecInv, ExecTypeInv
<1>10. ConnectInv'  BY <1>1, ConnectStays DEF ExecInv
<1>11. StageInv'  BY <1>1, <1>3, <1>8 DEF ExecInv, StageInv
<1>12. Whole' => Whole  BY <1>1 DEF Whole
\* On a terminal that is the client's doing, or the stream has ended, or the client is gone.
<1>13. tty /\ Whole => s.closed
  <2> SUFFICES ASSUME tty, Whole PROVE s.closed
    OBVIOUS
  <2>1. 0 \in Outs /\ 0 \in Fds  BY FdsAre DEF Outs
  <2>2. OnItsWay(0) /\ peer[0] \in {"none", "open", "closed", "ended"}  BY <2>1 DEF ExecInv, ExecTypeInv
  <2>3. CASE inPc = "barrier"  BY <2>3 DEF ExecInv, StageInv, Whole
  <2>4. CASE peer[0] # "open"
    <3>1. peer[0] = "closed"  BY <1>3, <2>2, <2>4, FdsAre DEF ExecInv, ExecTypeInv, ConnectInv, Whole
    <3> QED  BY <2>2, <3>1 DEF OnItsWay
  <2> QED  BY <2>3, <2>4 DEF InputEnds
<1>14. ASSUME 0 \in Outs PROVE OnItsWay(0)'
  <2>1. tty  BY <1>14, ExecAssumption DEF Outs
  <2>2. OnItsWay(0)  BY <1>14 DEF ExecInv
  <2>3. Whole' => Whole /\ s.closed  BY <1>12, <1>13, <2>1
  <2>4. UNCHANGED <<written, peer>> /\ (child = "dead" => child' = "dead")  BY <1>1, <1>8
  <2> QED  BY <1>6, <2>2, <2>3, <2>4 DEF OnItsWay
<1>15. ASSUME 0 \in Outs PROVE Carried(0)'
  <2>1. Carried(0)  BY <1>15 DEF ExecInv
  <2> QED  BY <1>1, <1>6, <2>1 DEF Carried, ToSend
<1>16. child = "dead" => child' = "dead"  BY <1>8
<1>17. \A o \in 0 .. 2 \ {0} : peer'[o] = peer[o] /\ written'[o] = written[o]  BY <1>1
<1> QED  BY <1>1, <1>2, <1>7, <1>9, <1>10, <1>11, <1>12, <1>14, <1>15, <1>16, <1>17, OneStream

LEMMA DoOpensKeeps == ASSUME ExecInv, DoOpens PROVE ExecInv'
<1>1. /\ doPc = "wait" /\ allConnected = 1 /\ allConnected' = 0 /\ doPc' = "exec" /\ ours' = TRUE
      /\ ctlPc' = (IF tty THEN "born" ELSE "none") /\ inPc' = "reads" /\ watchPc' = (IF tty THEN "waits" ELSE "none")
      /\ strm' = [o \in 0 .. 2 |-> IF o \in Outs THEN [strm[o] EXCEPT !.rd = "poll", !.snd = "takes"] ELSE strm[o]]
      /\ UNCHANGED <<tty, control, handler, conns, controlConnected, exited, peer, child, holder, written, deadFlag, cli, exMarks>>
  BY DEF DoOpens
<1>2. \A o \in 0 .. 2 : strm[o] = NoStream /\ written[o] = 0  BY <1>1 DEF ExecInv, StageInv
<1>3. \A o \in Outs : /\ strm'[o] \in Streams /\ strm'[o].rd = "poll" /\ strm'[o].snd = "takes" /\ strm'[o].buf = 0
                      /\ strm'[o].chunk = 0 /\ ~strm'[o].closed /\ strm'[o].has = 0 /\ strm'[o].wire = 0
                      /\ ~strm'[o].barrier /\ strm'[o].open = TRUE /\ strm'[o].got = 0
  <2> TAKE o \in Outs
  <2> DEFINE x == [NoStream EXCEPT !.rd = "poll", !.snd = "takes"]
  <2>1. strm'[o] = x  BY <1>1, <1>2, FdsAre
  <2>2. /\ x \in Streams /\ x.rd = "poll" /\ x.snd = "takes" /\ x.buf = NoStream.buf
        /\ x.chunk = NoStream.chunk /\ x.closed = NoStream.closed /\ x.has = NoStream.has /\ x.wire = NoStream.wire
        /\ x.barrier = NoStream.barrier /\ x.open = NoStream.open /\ x.got = NoStream.got
    BY NoStreamIs DEF Streams
  <2> HIDE DEF x
  <2> QED  BY <2>1, <2>2, NoStreamIs
<1>4. strm' \in [0 .. 2 -> Streams]
  <2>1. \A o \in 0 .. 2 : strm'[o] \in Streams
    <3> TAKE o \in 0 .. 2
    <3>1. CASE o \in Outs  BY <1>3, <3>1
    <3>2. CASE o \notin Outs  BY <1>1, <1>2, <3>2, NoStreamIs
    <3> QED  BY <3>1, <3>2
  <2>2. strm' = [o \in 0 .. 2 |-> strm'[o]]  BY <1>1
  <2> QED  BY <2>1, <2>2
<1>5. DataFds \subseteq conns /\ \A f \in DataFds : peer[f] # "none"
  BY <1>1, FdsAre DEF ExecInv, ConnectInv
<1>6. cli # "connects"  BY <1>5 DEF ExecInv, ConnectInv
<1>7. Asked' = Asked /\ DataFds' = DataFds /\ Outs' = Outs  BY <1>1 DEF Asked, DataFds, Outs
<1>8. ExecTypeInv'
  <2>1. ours' \in BOOLEAN  BY <1>1, Zenon
  <2>2. /\ allConnected' \in {0, 1} /\ doPc' = "exec" /\ ctlPc' \in {"born", "none"} /\ inPc' = "reads"
        /\ watchPc' \in {"waits", "none"}
    BY <1>1
  <2>3. UNCHANGED <<tty, control, handler, conns, controlConnected, exited, peer, child, holder, written, deadFlag, cli, exMarks>>
    BY <1>1
  <2> QED  BY <1>4, <2>1, <2>2, <2>3 DEF ExecInv, ExecTypeInv
<1>9. ConnectInv'  BY <1>1, <1>5, <1>7 DEF ExecInv, ConnectInv
<1>10. StageInv'
  <2>1. ours' /\ doPc' = "exec" /\ inPc' = "reads"  BY <1>1
  <2>2. /\ tty => ctlPc' = "born" /\ watchPc' = "waits"
        /\ ~tty => watchPc' = "none"
    BY <1>1
  <2>3. child = "none" /\ ~holder /\ ~deadFlag /\ exited # 1
    BY <1>1 DEF ExecInv, ExecTypeInv, StageInv
  <2>4. UNCHANGED <<tty, conns, exited, child, holder, deadFlag, cli>>  BY <1>1
  <2> QED  BY <1>6, <2>1, <2>2, <2>3, <2>4 DEF StageInv
<1>11. ASSUME NEW o \in Outs PROVE OnItsWay(o)' /\ Carried(o)'
  <2>1. written'[o] = 0 /\ peer'[o] = peer[o] /\ holder' = holder /\ ~holder  BY <1>1, <1>2, FdsAre DEF ExecInv, StageInv
  <2>2. peer[o] = "closed" => ~Whole'
    <3>1. Whole' => Whole  BY <1>1 DEF Whole
    <3>2. strm[o].snd = "none"  BY <1>2, FdsAre, NoStreamIs
    <3> QED  BY <3>1, <3>2 DEF ExecInv, OnItsWay
  <2>3. OnItsWay(o)'  BY <1>3, <2>1, <2>2 DEF OnItsWay
  <2>4. Carried(o)'  BY <1>3, <2>1 DEF Carried
  <2> QED  BY <2>3, <2>4
<1> QED  BY <1>7, <1>8, <1>9, <1>10, <1>11 DEF ExecInv

LEMMA FinisherEndsKeeps == ASSUME ExecInv, FinisherEnds PROVE ExecInv'
<1>1. /\ doPc = "drains" /\ doPc' = "done" /\ strm' = [o \in 0 .. 2 |-> [strm[o] EXCEPT !.open = FALSE]]
      /\ \A o \in Outs : strm[o].snd = "done"
      /\ UNCHANGED <<tty, control, handler, conns, allConnected, controlConnected, exited, peer, ctlPc, child, holder, ours,
                     written, inPc, watchPc, deadFlag, cli, exMarks>>
  BY DEF FinisherEnds
<1>2. ASSUME NEW o \in 0 .. 2
      PROVE  /\ strm'[o] \in Streams /\ strm'[o].rd = strm[o].rd /\ strm'[o].closed = strm[o].closed /\ strm'[o].has = strm[o].has
             /\ strm'[o].chunk = strm[o].chunk /\ strm'[o].snd = strm[o].snd /\ strm'[o].buf = strm[o].buf
             /\ strm'[o].noise = strm[o].noise /\ strm'[o].wire = strm[o].wire /\ strm'[o].barrier = strm[o].barrier
             /\ strm'[o].open = FALSE /\ strm'[o].got = strm[o].got
  <2> DEFINE s == strm[o]
             x == [s EXCEPT !.open = FALSE]
  <2>1. s \in Streams  BY StreamFacts
  <2>2. strm'[o] = x  BY <1>1
  <2> HIDE DEF s
  <2>3. /\ x \in Streams /\ x.rd = s.rd /\ x.closed = s.closed /\ x.has = s.has /\ x.chunk = s.chunk /\ x.snd = s.snd
        /\ x.buf = s.buf /\ x.noise = s.noise /\ x.wire = s.wire /\ x.barrier = s.barrier /\ x.open = FALSE /\ x.got = s.got
    BY <2>1 DEF Streams
  <2> HIDE DEF x
  <2> QED  BY <2>2, <2>3 DEF s
<1>3. strm' \in [0 .. 2 -> Streams]
  <2>1. strm' = [o \in 0 .. 2 |-> strm'[o]]  BY <1>1
  <2> QED  BY <1>2, <2>1
<1>4. ExecTypeInv'  BY <1>1, <1>3 DEF ExecInv, ExecTypeInv
<1>5. ConnectInv'  BY <1>1, ConnectStays DEF ExecInv
<1>6. StageInv'  BY <1>1 DEF ExecInv, StageInv
<1>7. Outs' = Outs  BY <1>1 DEF Outs
<1>8. ASSUME NEW o \in Outs PROVE OnItsWay(o)' /\ Carried(o)'
  <2>1. OnItsWay(o) /\ Carried(o) /\ o \in 0 .. 2 /\ strm[o].snd = "done"  BY <1>1, FdsAre DEF ExecInv
  <2>2. UNCHANGED <<written, peer, child, deadFlag, exMarks, cli, watchPc, holder>> /\ doPc # "wait" /\ (Whole' <=> Whole)
    BY <1>1 DEF Whole
  <2>3. OnItsWay(o)'  BY <1>2, <2>1, <2>2 DEF OnItsWay
  <2>4. Carried(o)'  BY <1>2, <2>1, <2>2 DEF Carried, ToSend
  <2> QED  BY <2>3, <2>4
<1> QED  BY <1>4, <1>5, <1>6, <1>7, <1>8 DEF ExecInv

LEMMA ExecInvNext == ASSUME ExecInv, ExecNext PROVE ExecInv'
<1>1. CASE \E f \in Fds : ConnectMaps(f) \/ ConnectLooks(f) \/ ConnectTells(f)  BY <1>1, HandlersKeep
<1>2. CASE Exec \/ Born \/ FinisherCloses \/ FinisherAsks \/ ControlExit \/ FinisherTells  BY <1>2, DoKeeps
<1>3. CASE ControlConnected \/ ControlLoop \/ forwardSignal \/ Exits \/ HolderEnds \/ WatchTold  BY <1>3, BesideKeeps
<1>4. CASE DoOpens \/ FinisherEnds \/ WatchPolls \/ InputEnds
  BY <1>4, DoOpensKeeps, FinisherEndsKeeps, WatchPollsKeeps, InputEndsKeeps
<1>5. CASE \E o \in 0 .. 2 : ReaderPolls(o) \/ ReaderLoads(o) \/ ReaderAgain(o) \/ ReaderHands(o) \/ ReaderEnds(o)
  BY <1>5, ReaderPollsKeeps, ReaderLoadsKeeps, ReaderAgainKeeps, ReaderHandsKeeps, ReaderEndsKeeps
<1>6. CASE \E o \in 0 .. 2 : SenderSends(o) \/ SenderEnds(o) \/ ClientReceives(o) \/ Writes(o) \/ HolderWrites(o)
  BY <1>6, SenderSendsKeeps, SenderEndsKeeps, ClientReceivesKeeps, WritesKeeps, HolderWritesKeeps
<1>7. CASE (\E f \in Fds : ClientConnects(f)) \/ ClientInputEnds  BY <1>7, ClientConnectsKeeps, ClientInputEndsKeeps
<1>8. CASE ClientEnds  BY <1>8, ClientLeavesKeeps DEF ClientEnds
<1>9. CASE ClientGone  BY <1>9, ClientLeavesKeeps DEF ClientGone
<1> QED  BY <1>1, <1>2, <1>3, <1>4, <1>5, <1>6, <1>7, <1>8, <1>9 DEF ExecNext, ExecSteps

LEMMA ExecInvWhole == ExecInv => ExecWhole
<1> SUFFICES ASSUME ExecInv PROVE ExecWhole
  OBVIOUS
<1>1. ASSUME cli = "done", exMarks \cap {"held", "input", "panic"} = {}, NEW o \in Outs PROVE strm[o].got = written[o]
  <2>1. Whole  BY <1>1 DEF Whole
  <2>2. peer[o] = "closed"  BY <1>1, FdsAre DEF ExecInv, ExecTypeInv, ConnectInv
  <2>3. OnItsWay(o)  BY DEF ExecInv
  <2>4. strm[o].wire = 0 /\ strm[o].has = 0 /\ strm[o].chunk = 0 /\ strm[o].buf = 0
    BY <2>1, <2>2, <2>3 DEF OnItsWay
  <2>5. written[o] = strm[o].got + strm[o].wire + strm[o].has + strm[o].chunk + strm[o].buf
    BY <2>1, <2>3 DEF OnItsWay
  <2>6. strm[o].got \in Nat  BY StreamFacts, FdsAre
  <2> QED  BY <2>4, <2>5, <2>6
<1>2. ASSUME child = "dead", doPc # "done", exMarks = {}, holder => tty PROVE GoesOn
  <2>1. doPc \in {"born", "waits", "asks", "exits", "tells", "drains"}  BY <1>2 DEF ExecInv, ExecTypeInv, StageInv
  <2>2. CASE doPc \in {"born", "waits", "asks", "exits", "tells"}
    <3>1. doPc = "born" => ctlPc = "born"  BY DEF ExecInv, StageInv
    <3>2. doPc = "exits" => ctlPc = "select"  BY <1>2 DEF ExecInv, StageInv
    <3>3. doPc = "tells" => exited = 0  BY DEF ExecInv, ExecTypeInv, StageInv
    <3> QED  BY <1>2, <2>2, <3>1, <3>2, <3>3 DEF GoesOn
  <2>3. CASE doPc = "drains"
    <3>1. ~ours /\ (tty => watchPc # "none") /\ (watchPc = "waits" => exited = 1) /\ inPc # "none" /\ cli # "connects"
      BY <2>3 DEF ExecInv, StageInv
    <3>2. CASE watchPc \in {"waits", "polls"}  BY <3>1, <3>2 DEF GoesOn
    <3>3. CASE watchPc \notin {"waits", "polls"} /\ \E o \in Outs : strm[o].snd # "done"
      <4>1. PICK o \in Outs : strm[o].snd # "done"  BY <3>3
      <4>2. Carried(o) /\ strm[o] \in Streams  BY StreamFacts, FdsAre DEF ExecInv
      <4>3. strm[o].snd \in {"takes", "sends"} /\ strm[o].rd \in {"poll", "in", "again", "has", "ended", "done"}
        BY <2>3, <4>1, <4>2 DEF Carried, Streams
      <4>4. strm[o].rd = "done" => strm[o].closed  BY <1>2, <4>2 DEF Carried
      <4>5. ASSUME strm[o].rd = "poll", PollSays(o) = "poll" PROVE strm[o].closed
        <5>1. strm[o].open /\ ~ToSend(o) /\ ~HungUp  BY <4>5 DEF PollSays
        <5>2. holder  BY <1>2, <3>1, <5>1 DEF HungUp
        <5>3. watchPc = "done"  BY <1>2, <3>1, <3>3, <5>2 DEF ExecInv, ExecTypeInv
        <5> QED  BY <4>2, <4>5, <5>1, <5>2, <5>3 DEF Carried
      <4>6. StreamGoesOn(o)  BY <4>3, <4>4, <4>5 DEF StreamGoesOn
      <4> QED  BY <4>6 DEF GoesOn
    <3>4. CASE \A o \in Outs : strm[o].snd = "done"
      <4>1. CASE tty => inPc = "done"  BY <2>3, <3>4, <4>1 DEF GoesOn
      <4>2. CASE inPc = "barrier" \/ (inPc = "reads" /\ peer[0] # "open")  BY <4>2 DEF GoesOn
      <4>3. CASE tty /\ inPc = "reads" /\ peer[0] = "open"
        <5>1. 0 \in Outs /\ 0 \in Fds  BY <4>3, FdsAre DEF Outs
        <5>2. strm[0].barrier  BY <3>4, <4>3, <5>1 DEF ExecInv, Carried
        <5>3. cli = "streams"  BY <3>1, <4>3, <5>1 DEF ExecInv, ExecTypeInv, ConnectInv
        <5>4. StreamGoesOn(0)  BY <4>3, <5>2, <5>3 DEF StreamGoesOn
        <5> QED  BY <5>1, <5>4 DEF GoesOn
      <4> QED  BY <3>1, <4>1, <4>2, <4>3 DEF ExecInv, ExecTypeInv
    <3> QED  BY <3>2, <3>3, <3>4
  <2> QED  BY <2>1, <2>2, <2>3
<1> QED  BY <1>1, <1>2 DEF ExecWhole

LEMMA ExecInvStutter == ASSUME ExecInv, UNCHANGED exVars PROVE ExecInv'
BY DEF exVars, ExecInv, ExecTypeInv, ConnectInv, StageInv, OnItsWay, Carried, Whole, Streams, Outs, Asked, DataFds, ToSend

=============================================================================
