----------------------------- MODULE Scheduler ------------------------------
(***************************************************************************)
(* The CPU scheduler of the daemon (apollo/devices.go): containers started,*)
(* stopped and given other limits, and CPUs that come and go, ask for a    *)
(* rebalance over channels that drop what does not fit; one goroutine      *)
(* takes the requests, reads the host and the database and sets the CPUs   *)
(* of every container.                                                     *)
(***************************************************************************)
EXTENDS Naturals, FiniteSets

CONSTANTS
  Cpus,            \* the CPUs of the host, by number
  Loads,           \* the containers
  CpuLimits,       \* values of limits.cpu: see LimitType
  MaxCpuEvents     \* bound on the events that ask for a rebalance

LimitType ==
  [kind : {"none", "count", "pin", "bad"}, n : Nat, cpus : SUBSET Cpus]

ASSUME SchedulerAssumption ==
  /\ Cpus \subseteq Nat /\ IsFiniteSet(Cpus) /\ Cpus # {} /\ IsFiniteSet(Loads)
  /\ CpuLimits \subseteq LimitType /\ MaxCpuEvents \in Nat

NoLimit == [kind |-> "none", n |-> 0, cpus |-> {}]

VARIABLES
  online,          \* CPUs that are on
  limit,           \* limits.cpu of each container, in the database
  cstate,          \* "stopped", "starting" or "running"
  cpuset,          \* cpuset.cpus of each container
  chCPU, chSched,  \* events in the channels
  bal,             \* the rebalance: where it is, what it has read and chosen
  asked,           \* limits of updates that are not in the database yet
  ending,          \* stopped containers whose goroutine is at work
  early,           \* containers a rebalance read in the middle of a change
  cpuEvents

schedVars == <<online, limit, cstate, cpuset, chCPU, chSched, bal, asked, ending, early, cpuEvents>>

Resting == [at |-> "idle", cpus |-> {}, lim |-> [c \in {} |-> NoLimit], pin |-> [c \in {} |-> {}]]

SchedulerInit ==
  /\ online = Cpus
  /\ limit \in [Loads -> CpuLimits] /\ cstate = [c \in Loads |-> "stopped"]
  /\ cpuset = [c \in Loads |-> {}]
  /\ chCPU = 0 /\ chSched = 0 /\ bal = Resting
  /\ asked = [c \in Loads |-> {}] /\ ending = {} /\ early = {} /\ cpuEvents = 0

-----------------------------------------------------------------------------
CpuEvent == cpuEvents < MaxCpuEvents /\ cpuEvents' = cpuEvents + 1

\* Faulty form: the channel has no room, so that only an idle listener hears.
TriggerUnbuffered == chSched' = IF bal.at = "idle" /\ chSched = 0 THEN 1 ELSE chSched

\* An event that does not fit into the channel is dropped.
deviceTaskSchedulerTrigger == chSched' = IF chSched < 2 THEN chSched + 1 ELSE chSched

\* A CPU comes or goes; the kernel takes one that goes from every cpuset.
deviceNetlinkListener(i) ==
  /\ CpuEvent /\ online # {i}
  /\ online' = IF i \in online THEN online \ {i} ELSE online \cup {i}
  /\ cpuset' = [c \in Loads |-> cpuset[c] \cap online']
  /\ chCPU' = 1
  /\ UNCHANGED <<limit, cstate, chSched, bal, asked, ending, early>>

\* The hook that runs before the container does; its control group is made
\* after that, with the CPUs of its parent.
OnStart(c) ==
  /\ CpuEvent /\ cstate[c] = "stopped"
  /\ cstate' = [cstate EXCEPT ![c] = "starting"] /\ deviceTaskSchedulerTrigger
  /\ UNCHANGED <<online, limit, cpuset, chCPU, bal, asked, ending, early>>

Started(c) ==
  /\ cstate[c] = "starting"
  /\ cstate' = [cstate EXCEPT ![c] = "running"] /\ cpuset' = [cpuset EXCEPT ![c] = online]
  /\ UNCHANGED <<online, limit, early, chCPU, chSched, bal, asked, ending, cpuEvents>>

Stops(c) ==
  /\ cstate[c] = "running" /\ c \notin ending
  /\ cstate' = [cstate EXCEPT ![c] = "stopped"] /\ cpuset' = [cpuset EXCEPT ![c] = {}]
  /\ ending' = ending \cup {c}
  /\ UNCHANGED <<online, limit, chCPU, chSched, bal, asked, early, cpuEvents>>

\* A container that reboots starts again instead; if that fails nobody is told.
OnStop(c) ==
  /\ c \in ending /\ ending' = ending \ {c}
  /\ \/ deviceTaskSchedulerTrigger /\ UNCHANGED early
     \/ cstate[c] = "stopped" /\ early' = Loads /\ UNCHANGED chSched
  /\ UNCHANGED <<online, limit, cstate, cpuset, chCPU, bal, asked, cpuEvents>>

\* An update of a running container asks for a rebalance before its new limit
\* is in the database, and once more if it fails.
Update(c, l) ==
  /\ CpuEvent /\ asked[c] = {} /\ l # limit[c]
  /\ asked' = [asked EXCEPT ![c] = {l}]
  /\ IF cstate[c] = "stopped" THEN UNCHANGED chSched ELSE deviceTaskSchedulerTrigger
  /\ UNCHANGED <<online, limit, cstate, cpuset, chCPU, bal, ending, early>>

UpdateCommits(c) ==
  /\ asked[c] # {} /\ asked' = [asked EXCEPT ![c] = {}]
  /\ \/ /\ limit' = [limit EXCEPT ![c] = CHOOSE l \in asked[c] : TRUE]
        /\ UNCHANGED chSched
     \/ deviceTaskSchedulerTrigger /\ UNCHANGED limit
  /\ UNCHANGED <<online, early, cstate, cpuset, chCPU, bal, ending, cpuEvents>>

-----------------------------------------------------------------------------
deviceEventListener ==
  /\ bal.at = "idle"
  /\ \/ chCPU > 0 /\ chCPU' = 0 /\ UNCHANGED chSched
     \/ chSched > 0 /\ chSched' = chSched - 1 /\ UNCHANGED chCPU
  /\ bal' = [bal EXCEPT !.at = "read"]
  /\ UNCHANGED <<online, limit, cstate, cpuset, asked, ending, early, cpuEvents>>

\* What a limit means on these CPUs.  Without one it is the list of them all,
\* which reads as a count if it is a single number.
parseCpuset(l, cpus) ==
  CASE l.kind = "count" -> [n |-> l.n, pin |-> {}]
    [] l.kind = "pin" -> [n |-> 0, pin |-> l.cpus \cap cpus]
    [] OTHER -> IF Cardinality(cpus) = 1 THEN [n |-> CHOOSE i \in cpus : TRUE, pin |-> {}]
                ELSE [n |-> 0, pin |-> cpus]

\* One container with a limit that cannot be parsed ends the rebalance of all.
BalanceReads ==
  /\ bal.at = "read"
  /\ LET R == {c \in Loads : cstate[c] # "stopped"}
     IN IF \E c \in R : limit[c].kind = "bad" THEN bal' = Resting /\ early' = Loads
        ELSE /\ bal' = [at |-> "choose", cpus |-> online, lim |-> [c \in R |-> limit[c]],
                        pin |-> [c \in R |-> parseCpuset(limit[c], online).pin]]
             /\ early' = {c \in Loads : cstate[c] = "starting" \/ asked[c] # {}}
  /\ UNCHANGED <<online, limit, cstate, cpuset, chCPU, chSched, asked, ending, cpuEvents>>

Usage(i) == Cardinality({c \in DOMAIN bal.pin : i \in bal.pin[c]})

\* Faulty form: any of the CPUs.
AnyOf(S) == TRUE

\* The CPUs are sorted by their use; of equals, and of the containers, any
\* comes first.
LeastUsed(S) == \A i \in S, j \in bal.cpus \ S : Usage(i) <= Usage(j)

ToBalance ==
  {c \in DOMAIN bal.pin : bal.pin[c] = {} /\ parseCpuset(bal.lim[c], bal.cpus).n > 0}

deviceTaskBalance ==
  /\ bal.at = "choose"
  /\ \E c \in ToBalance, S \in SUBSET bal.cpus :
       /\ LET n == parseCpuset(bal.lim[c], bal.cpus).n
          IN Cardinality(S) = IF n < Cardinality(bal.cpus) THEN n ELSE Cardinality(bal.cpus)
       /\ LeastUsed(S)
       /\ bal' = [bal EXCEPT !.pin[c] = S]
  /\ UNCHANGED <<online, limit, cstate, cpuset, chCPU, chSched, asked, ending, early, cpuEvents>>

\* A container that has stopped, or has no control group yet, is left; so is
\* one whose set has a CPU that has gone.
BalanceApplies ==
  /\ bal.at = "choose" /\ ToBalance = {}
  /\ cpuset' = [c \in Loads |->
       IF c \in DOMAIN bal.pin /\ cstate[c] = "running" /\ bal.pin[c] # {} /\ bal.pin[c] \subseteq online
       THEN bal.pin[c] ELSE cpuset[c]]
  /\ bal' = Resting
  /\ UNCHANGED <<online, limit, early, cstate, chCPU, chSched, asked, ending, cpuEvents>>

SchedulerNext ==
  \/ \E i \in Cpus : deviceNetlinkListener(i)
  \/ \E c \in Loads : \/ OnStart(c) \/ Started(c) \/ Stops(c) \/ OnStop(c) \/ UpdateCommits(c)
                      \/ \E l \in CpuLimits : Update(c, l)
  \/ deviceEventListener \/ BalanceReads \/ deviceTaskBalance \/ BalanceApplies

SchedulerSpec == SchedulerInit /\ [][SchedulerNext]_schedVars

-----------------------------------------------------------------------------
Quiet ==
  /\ chCPU + chSched = 0 /\ bal = Resting /\ ending = {}
  /\ \A c \in Loads : asked[c] = {} /\ cstate[c] # "starting"

Running == {c \in Loads : cstate[c] = "running"}

Granted(c) ==
  LET l == parseCpuset(limit[c], online)
  IN /\ l.pin # {} => cpuset[c] = l.pin
     /\ l.n > 0 => Cardinality(cpuset[c]) = IF l.n < Cardinality(online) THEN l.n ELSE Cardinality(online)

Share(i) == Cardinality({c \in Running : i \in cpuset[c]})

\* Events may be dropped and none is for a particular container, and still
\* every container ends up with the CPUs its limit grants on the CPUs that are
\* on now, and those that only ask for a number are spread so that no CPU has
\* two more than another.  Not so, until the next rebalance, for a container
\* whose start or new limit was not complete when the rebalance it asked for
\* read it, and for all after a limit that cannot be parsed or a failed reboot.
Balanced ==
  Quiet /\ (\A c \in Running : limit[c].kind # "bad") =>
    /\ \A c \in Running \ early : Granted(c)
    /\ early = {} /\ (\A c \in Running : limit[c].kind = "count" /\ limit[c].n > 0) =>
         \A i, j \in online : Share(i) <= Share(j) + 1
=============================================================================
