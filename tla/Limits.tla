------------------------------- MODULE Limits -------------------------------
(***************************************************************************)
(* The limits of a container: what its configuration asks for, what the    *)
(* kernel has, and the two ways from one to the other.  A start hands them *)
(* over with the container's configuration (initMERCURY) and sets the      *)
(* network's from goroutines of the start hook (OnStart); an update of a   *)
(* running container changes them one key after the other and writes the   *)
(* database at the end (Update).  Sizes are small numbers, the disks are   *)
(* on one block device, the value None stands for a key that is not set.   *)
(***************************************************************************)
EXTENDS Integers, FiniteSets, Sequences

CONSTANTS
  None, Gone,
  Memories,        \* sizes limits.memory can have
  Speeds,          \* speeds limits.read and limits.write can have
  Ifaces,          \* network interfaces of the host that may appear
  MaxLimitEdits, MaxLimitFaults

\* What the kernel has where nothing is limited, the largest value of all.
Unlimited == 1000

ASSUME LimitsAssumption ==
  /\ Memories \subseteq 1 .. Unlimited /\ Speeds \subseteq Nat \ {0} /\ None \notin Nat
  /\ MaxLimitEdits \in Nat /\ MaxLimitFaults \in Nat

VARIABLES
  swapAccounting,  \* cgSwapAccounting
  conf,            \* the configuration in the database
  kernel,          \* the values the kernel has
  up,              \* the container is running
  upd,             \* an update: the new configuration, the keys that are left
  hook,            \* what the goroutines of the start still have to set
  links,           \* the interfaces that are there
  netEvent,        \* an interface appeared: the interface and the priority read for it
  limEdits, limMarks, limFaults

limVars == <<swapAccounting, conf, kernel, up, upd, hook, links, netEvent, limEdits, limMarks, limFaults>>

MemoryKeys == {"memory", "enforce", "swap", "swapPriority"}
Keys == MemoryKeys \cup {"allowance", "processes", "diskPriority", "networkPriority"}
NoSpeed == [read |-> None, write |-> None]
NoTraffic == [in |-> None, out |-> None]
NoNicLimit == [max |-> None, in |-> None, out |-> None]
DiskLimits == {[read |-> r, write |-> w] : r \in Speeds \cup {None}, w \in Speeds \cup {None}}

\* data: a second disk; Gone: it is not in the configuration.
Base == [memory |-> None, enforce |-> "hard", swap |-> None, swapPriority |-> None, allowance |-> None, processes |-> None,
         diskPriority |-> None, networkPriority |-> None, nic |-> NoNicLimit, root |-> NoSpeed, data |-> Gone]

IsTrue(v) == v = "true"
SwapOff(c) == c.swap # None /\ ~IsTrue(c.swap)

-----------------------------------------------------------------------------
(* What a configuration means *)

\* Ten per cent less.
SoftOf(v) == IF v = Unlimited THEN Unlimited ELSE v - 1

\* deviceParseCPU: shares and quota.
deviceParseCPU(a) ==
  [shares |-> IF a = "percent" THEN 524 ELSE 1024, quota |-> IF a = "time" THEN 25 ELSE -1]

\* What the limits of one disk are said to be: each on its own (containers.md).
SaidOf(l) ==
  [read |-> IF l.read = None THEN 0 ELSE l.read, write |-> IF l.write = None THEN 0 ELSE l.write]

\* deviceParseDiskLimit: a limit on writing is passed over without one on reading.
deviceParseDiskLimit(l) ==
  [read |-> IF l.read = None THEN 0 ELSE l.read, write |-> IF l.read = None \/ l.write = None THEN 0 ELSE l.write]

Average(S, part) ==
  LET set == {i \in DOMAIN S : S[i][part] > 0}
      sum == (IF 1 \in set THEN S[1][part] ELSE 0) + (IF 2 \in set THEN S[2][part] ELSE 0)
  IN IF set = {} THEN 0 ELSE sum \div Cardinality(set)

\* The limits of the disks on the block device, averaged over those that have one.
getDiskLimits(c) ==
  LET disks == <<deviceParseDiskLimit(c.root)>> \o (IF c.data = Gone THEN <<>> ELSE <<deviceParseDiskLimit(c.data)>>)
  IN [read |-> Average(disks, "read"), write |-> Average(disks, "write")]

\* What they are said to be.
DiskLimitsSaid(c) ==
  LET disks == <<SaidOf(c.root)>> \o (IF c.data = Gone THEN <<>> ELSE <<SaidOf(c.data)>>)
  IN [read |-> Average(disks, "read"), write |-> Average(disks, "write")]

\* A disk that is limited in writing only.
WriteOnly(l) == l.read = None /\ l.write # None
WriteAlone(c) == WriteOnly(c.root) \/ (c.data # Gone /\ WriteOnly(c.data))

\* initMERCURY: what a start gives to the kernel, which has defaults of its own.
StartMemory(c) ==
  CASE c.memory = None -> [limit |-> Unlimited, memsw |-> Unlimited, soft |-> Unlimited]
    [] c.memory # None /\ c.enforce = "soft" -> [limit |-> Unlimited, memsw |-> Unlimited, soft |-> c.memory]
    [] OTHER -> [limit |-> c.memory, soft |-> SoftOf(c.memory),
                 memsw |-> IF swapAccounting /\ ~SwapOff(c) THEN c.memory ELSE Unlimited]

StartSwappiness(c) == IF SwapOff(c) THEN 0 ELSE IF c.swapPriority # None THEN 60 - 10 + c.swapPriority ELSE 60

Weight(p) == IF p = None THEN 500 ELSE IF p = 0 THEN 10 ELSE p * 100

\* prio: the priority of each interface; tc: the limit on the container's.
initMERCURY(c) ==
  [memory |-> StartMemory(c), swappiness |-> StartSwappiness(c), cpu |-> deviceParseCPU(c.allowance),
   weight |-> Weight(c.diskPriority), pids |-> c.processes, disk |-> getDiskLimits(c), prio |-> [i \in Ifaces |-> 0], tc |-> NoTraffic]

\* setNetworkLimits: limits.max stands for both.
setNetworkLimits(l) == IF l.max # None THEN [in |-> l.max, out |-> l.max] ELSE [in |-> l.in, out |-> l.out]

PriorityOf(c) == IF c.networkPriority = None THEN 0 ELSE c.networkPriority

-----------------------------------------------------------------------------
NoUpdate == [active |-> FALSE, new |-> Base, keys |-> {}, before |-> <<>>]

LimitsInit ==
  /\ swapAccounting \in BOOLEAN /\ conf = Base /\ up = FALSE /\ kernel = initMERCURY(Base)
  /\ upd = NoUpdate /\ hook = {} /\ links = {} /\ netEvent = [on |-> FALSE]
  /\ limEdits = 0 /\ limMarks = {} /\ limFaults = 0

LMark(S) == limMarks' = limMarks \cup S
LFault == limFaults < MaxLimitFaults /\ limFaults' = limFaults + 1

\* Start, with what the hook's goroutines will set; Stop.
StartLimits ==
  /\ ~up /\ ~upd.active /\ up' = TRUE /\ kernel' = initMERCURY(conf)
  /\ hook' = {[what |-> "networkPriority", value |-> conf.networkPriority] : x \in IF conf.networkPriority = None THEN {} ELSE {1}}
             \cup {[what |-> "nic", value |-> conf.nic] : x \in IF conf.nic = NoNicLimit THEN {} ELSE {1}}
  /\ UNCHANGED <<swapAccounting, conf, upd, links, netEvent, limEdits, limMarks, limFaults>>

StopLimits ==
  /\ up /\ ~upd.active /\ up' = FALSE /\ hook' = {} /\ kernel' = initMERCURY(Base)
  /\ UNCHANGED <<swapAccounting, conf, upd, links, netEvent, limEdits, limMarks, limFaults>>

\* setNetworkPriority: every interface that is there; setNetworkLimits.
WithPriority(k, p) == [k EXCEPT !.prio = [i \in Ifaces |-> IF i \in links THEN p ELSE k.prio[i]]]

OnStartSets(h) ==
  /\ h \in hook /\ up /\ hook' = hook \ {h}
  /\ kernel' = IF h.what = "nic" THEN [kernel EXCEPT !.tc = setNetworkLimits(h.value)] ELSE WithPriority(kernel, h.value)
  /\ LMark(IF conf[h.what] # h.value \/ (upd.active /\ upd.new[h.what] # h.value) THEN {"hook"} ELSE {})
  /\ UNCHANGED <<swapAccounting, conf, up, upd, links, netEvent, limEdits, limFaults>>

\* An interface appears; deviceNetworkPriority reads the configuration and
\* sets the priority for it.
NewInterface(i) ==
  /\ i \notin links /\ links' = links \cup {i} /\ ~netEvent.on
  /\ netEvent' = [on |-> TRUE, iface |-> i, value |-> conf.networkPriority]
  /\ UNCHANGED <<swapAccounting, conf, kernel, up, upd, hook, limEdits, limMarks, limFaults>>

deviceNetworkPriority ==
  /\ netEvent.on /\ netEvent' = [on |-> FALSE]
  /\ kernel' = IF up /\ netEvent.value # None THEN [kernel EXCEPT !.prio[netEvent.iface] = netEvent.value] ELSE kernel
  /\ LMark(IF up /\ (netEvent.value # conf.networkPriority \/ (upd.active /\ netEvent.value # upd.new.networkPriority))
           THEN {"event"} ELSE {})
  /\ UNCHANGED <<swapAccounting, conf, up, upd, hook, links, limEdits, limFaults>>

-----------------------------------------------------------------------------
(* Update of a container *)

DiffKeys(new) == {k \in Keys : new[k] # conf[k]}

\* A container that does not run gets its new configuration at once.
UpdateLimits(new) ==
  /\ ~upd.active /\ limEdits < MaxLimitEdits /\ limEdits' = limEdits + 1 /\ new # conf
  /\ IF up THEN upd' = [active |-> TRUE, new |-> new, keys |-> DiffKeys(new), before |-> kernel] /\ UNCHANGED conf
           ELSE conf' = new /\ UNCHANGED upd
  /\ UNCHANGED <<swapAccounting, kernel, up, hook, links, netEvent, limMarks, limFaults>>

\* An error ends the update; the configuration is put back, of the kernel what
\* the key that failed puts back itself.  marks: what it does not.
Fails(k, marks) ==
  /\ LFault /\ upd' = NoUpdate /\ kernel' = k
  /\ LMark(marks \cup (IF upd.before # kernel THEN {"left"} ELSE {}))
  /\ UNCHANGED <<swapAccounting, conf, up, hook, links, netEvent, limEdits>>

Applied(key, k) ==
  /\ kernel' = k /\ upd' = [upd EXCEPT !.keys = @ \ {key}]
  /\ UNCHANGED <<swapAccounting, conf, up, hook, links, netEvent, limEdits, limMarks, limFaults>>

\* The kernel keeps the limit of memory below that of memory and swap.
SetMemory(m, part, v) ==
  IF (part = "limit" /\ v > m.memsw) \/ (part = "memsw" /\ v < m.limit) THEN m ELSE [m EXCEPT ![part] = v]

NewLimits(c) ==
  LET v == IF c.memory = None THEN Unlimited ELSE c.memory
  IN IF c.enforce = "soft" THEN <<<<"soft", v>>>>
     ELSE <<<<"limit", v>>>> \o (IF swapAccounting /\ ~SwapOff(c) THEN <<<<"memsw", v>>>> ELSE <<>>) \o <<<<"soft", SoftOf(v)>>>>

StepsWithoutReset(c) == NewLimits(c)

\* Everything is reset first, then set.
MemorySteps(c) ==
  (IF swapAccounting THEN <<<<"memsw", Unlimited>>>> ELSE <<>>) \o <<<<"limit", Unlimited>>, <<"soft", Unlimited>>>> \o NewLimits(c)

\* The memory after the first n of the steps.
AfterSteps(m, steps, n) ==
  LET after[i \in 0 .. n] == IF i = 0 THEN m ELSE SetMemory(after[i - 1], steps[i][1], steps[i][2]) IN after[n]

\* revertMemory
RevertMemory(m, old) ==
  LET s == SetMemory(m, "soft", old.soft)
      l == SetMemory(s, "limit", old.limit)
  IN IF swapAccounting THEN SetMemory(l, "memsw", old.memsw) ELSE l

LiveSwappiness(key, c, now) ==
  IF key \notin {"swap", "swapPriority"} THEN now
  ELSE IF SwapOff(c) THEN 0 ELSE 60 - 10 + (IF c.swapPriority = None THEN 0 ELSE c.swapPriority)

LiveMemory(key) ==
  LET steps == MemorySteps(upd.new)
      done == AfterSteps(kernel.memory, steps, Len(steps))
      sw == LiveSwappiness(key, upd.new, kernel.swappiness)
  IN /\ upd.active /\ key \in upd.keys \cap MemoryKeys
     /\ \/ /\ kernel' = [kernel EXCEPT !.memory = done, !.swappiness = sw] /\ upd' = [upd EXCEPT !.keys = @ \ {key}]
           /\ LMark(IF key \in {"swap", "swapPriority"} /\ ~SwapOff(upd.new) /\ upd.new.swapPriority = None
                    THEN {"swappiness"} ELSE {})
           /\ UNCHANGED <<swapAccounting, conf, up, hook, links, netEvent, limEdits, limFaults>>
        \/ \E n \in 0 .. Len(steps) - 1 :
             LET m == AfterSteps(kernel.memory, steps, n)
             IN Fails([kernel EXCEPT !.memory = RevertMemory(m, kernel.memory)],
                      IF m.memsw < kernel.memory.limit THEN {"revert"} ELSE {})
        \/ key \in {"swap", "swapPriority"} /\ Fails([kernel EXCEPT !.memory = done], {"left"})

LiveDiskPriority ==
  /\ upd.active /\ "diskPriority" \in upd.keys
  /\ \/ Applied("diskPriority", [kernel EXCEPT !.weight = Weight(upd.new.diskPriority)])
     \/ Fails(kernel, {})

LiveNetworkPriority ==
  /\ upd.active /\ "networkPriority" \in upd.keys
  /\ \/ Applied("networkPriority", WithPriority(kernel, PriorityOf(upd.new)))
     \/ Fails(kernel, {})

\* Shares, then period and quota.
LiveCpu ==
  LET cpu == deviceParseCPU(upd.new.allowance)
  IN /\ upd.active /\ "allowance" \in upd.keys
     /\ \/ Applied("allowance", [kernel EXCEPT !.cpu = cpu])
        \/ Fails(kernel, {}) \/ Fails([kernel EXCEPT !.cpu.shares = cpu.shares], {"left"})

LiveProcesses ==
  /\ upd.active /\ "processes" \in upd.keys
  /\ Applied("processes", [kernel EXCEPT !.pids = upd.new.processes]) \/ Fails(kernel, {})

DiskUpdated == upd.new.root # conf.root \/ (upd.new.data # conf.data /\ Gone \notin {upd.new.data, conf.data})
\* A disk that has come or gone takes its limits with it only when another
\* one was changed.
DiskCame == Gone \in {upd.new.data, conf.data} /\ {upd.new.data, conf.data} \ {Gone, NoSpeed} # {}

\* The devices whose limits alone were changed, then the database.
CommitLimits ==
  LET nic == upd.new.nic # conf.nic
      disk == IF DiskUpdated THEN getDiskLimits(upd.new) ELSE kernel.disk
      tc == IF nic THEN setNetworkLimits(upd.new.nic) ELSE kernel.tc
  IN /\ upd.active /\ upd.keys = {}
     /\ \/ /\ conf' = upd.new /\ upd' = NoUpdate /\ kernel' = [kernel EXCEPT !.disk = disk, !.tc = tc]
           /\ LMark(IF DiskCame THEN {"devices"} ELSE {})
           /\ UNCHANGED <<swapAccounting, up, hook, links, netEvent, limEdits, limFaults>>
        \/ nic /\ \E t \in {NoTraffic, [tc EXCEPT !.out = None]} : Fails([kernel EXCEPT !.tc = t], {"left"})
        \/ DiskUpdated /\ Fails([kernel EXCEPT !.tc = tc, !.disk.read = disk.read], {"left"})
        \/ Fails([kernel EXCEPT !.disk = disk, !.tc = tc], IF nic \/ DiskUpdated THEN {"left"} ELSE {})

\* The daemon ends in the middle of an update.
UpdateCut ==
  /\ upd.active /\ LFault /\ upd' = NoUpdate /\ hook' = {}
  /\ LMark(IF upd.before # kernel \/ hook # {} THEN {"left"} ELSE {})
  /\ UNCHANGED <<swapAccounting, conf, kernel, up, links, netEvent, limEdits>>

-----------------------------------------------------------------------------
\* The configurations that are asked for: changes of one or two keys.
NicLimits == {NoNicLimit, [max |-> 9, in |-> 5, out |-> None], [max |-> None, in |-> 5, out |-> 3]}

WithMemory(m, e) == [conf EXCEPT !.memory = m, !.enforce = e]
WithSwap(s, p) == [conf EXCEPT !.swap = s, !.swapPriority = p]
WithMemorySwap(m, s) == [conf EXCEPT !.memory = m, !.swap = s]
WithCpu(a, p) == [conf EXCEPT !.allowance = a, !.processes = p]
WithPriorities(d, n) == [conf EXCEPT !.diskPriority = d, !.networkPriority = n]
WithNic(n, r) == [conf EXCEPT !.nic = n, !.root = r]
WithDisk(d) == [conf EXCEPT !.data = d]

Changes ==
  {WithMemory(m, e) : m \in Memories \cup {None}, e \in {"hard", "soft"}}
  \cup {WithSwap(s, p) : s \in {None, "true", "false"}, p \in {None, 5}}
  \cup {WithMemorySwap(m, s) : m \in Memories \cup {None}, s \in {None, "false"}}
  \cup {WithCpu(a, p) : a \in {None, "percent", "time"}, p \in {None, 7}}
  \cup {WithPriorities(d, n) : d \in {None, 0, 3}, n \in {None, 2}}
  \cup {WithNic(n, r) : n \in NicLimits, r \in DiskLimits} \cup {WithDisk(d) : d \in DiskLimits \cup {Gone}}

LimitsNext ==
  \/ StartLimits \/ StopLimits \/ deviceNetworkPriority
  \/ \E h \in hook : OnStartSets(h)
  \/ \E i \in Ifaces : NewInterface(i)
  \/ \E new \in Changes : UpdateLimits(new)
  \/ \E key \in MemoryKeys : LiveMemory(key)
  \/ LiveDiskPriority \/ LiveNetworkPriority \/ LiveCpu \/ LiveProcesses \/ CommitLimits \/ UpdateCut

LimitsSpec == LimitsInit /\ [][LimitsNext]_limVars

-----------------------------------------------------------------------------
\* The kernel holds a running container to what its configuration says: a live
\* update leaves the values a start with the new configuration gives, one that
\* failed those of the old one, the priorities of the interfaces and the limits
\* of the network are those of the configuration too, and disks are read and
\* written at the speeds the documentation gives to limits.read and
\* limits.write.  The exceptions: a disk limited in writing only, whose limit
\* the code loses (WriteAlone, devices.go:1177), and the marks: what a failed or
\* interrupted update has already set ("left"), an old limit put back before
\* that of memory and swap ("revert"), the swappiness without a priority
\* ("swappiness"), disks that come or go ("devices"), the goroutines of the
\* start hook ("hook") and of the netlink listener ("event") overtaken by an
\* update.
LimitsHold ==
  limMarks = {} /\ up /\ ~upd.active /\ hook = {} /\ ~netEvent.on =>
    /\ kernel = [initMERCURY(conf) EXCEPT !.tc = setNetworkLimits(conf.nic), !.disk = kernel.disk,
                                          !.prio = [i \in Ifaces |-> IF i \in links THEN PriorityOf(conf) ELSE 0]]
    /\ kernel.disk.read = DiskLimitsSaid(conf).read
    /\ kernel.disk.write = DiskLimitsSaid(conf).write \/ WriteAlone(conf)
=============================================================================
