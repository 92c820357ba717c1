-------------------------------- MODULE Nics --------------------------------
(***************************************************************************)
(* The network interface of a container: the MAC address fillNetworkDevice *)
(* invents and records the first time anyone asks for it, the interface on *)
(* the host and the filter that binds it to the address.  Every request    *)
(* works on its own copy of the container's configuration.                 *)
(***************************************************************************)
EXTENDS Naturals, FiniteSets

CONSTANTS
  NicReqs,         \* requests on the container
  MaxMac,          \* bound on the addresses invented
  MaxNicFaults

ASSUME NicsAssumption == MaxMac \in Nat /\ MaxNicFaults \in Nat

VARIABLES
  nicRow,          \* the device is in the database
  hwaddr,          \* volatile.<device>.hwaddr in the database, 0 without
  nextMac,
  nicUp,           \* the container runs
  liveMac,         \* address of its interface, 0 without one
  veths,           \* host interfaces of the device that are not in use
  filters,         \* addresses with a filter
  nicStop,         \* the cleanup after a stop that is to come: the address
                   \* that was recorded when the hook loaded the container
  nic,             \* the requests: copy of the configuration, address used
  given,           \* the first address that was recorded for the device
  nicMarks, nicFaults

nicVars == <<nicRow, hwaddr, nextMac, nicUp, liveMac, veths, filters, nicStop, nic, given, nicMarks, nicFaults>>

NoNic == [job |-> "none", at |-> "idle", dev |-> FALSE, copy |-> 0, use |-> 0]

NicsInit ==
  /\ nicRow \in BOOLEAN /\ hwaddr = 0 /\ nextMac = 1 /\ nicUp = FALSE /\ liveMac = 0
  /\ veths = 0 /\ filters = {} /\ nicStop = {} /\ nic = [r \in NicReqs |-> NoNic]
  /\ given = 0 /\ nicMarks = {} /\ nicFaults = 0

NicFault == nicFaults < MaxNicFaults /\ nicFaults' = nicFaults + 1
NicMark(S) == nicMarks' = nicMarks \cup S
NicDone(r) == nic' = [nic EXCEPT ![r] = NoNic]

\* The device is being added or removed meanwhile.
Crossed == IF \E q \in NicReqs : nic[q].job \in {"add", "remove"} THEN {"crossed"} ELSE {}

-----------------------------------------------------------------------------
\* containerLoadByName.  Starts and stops hold the container's operation.
Jobs == {"start", "query", "add", "remove", "update"}

LoadNic(r, job) ==
  /\ nic[r] = NoNic
  /\ job = "start" => ~nicUp /\ nicStop = {} /\ \A q \in NicReqs : nic[q].job # "start"
  /\ job = "query" => nicUp /\ nicRow
  /\ job = "add" => ~nicRow
  /\ job = "remove" => nicRow
  /\ nic' = [nic EXCEPT ![r] =
       [job |-> job, dev |-> nicRow, copy |-> hwaddr, use |-> 0,
        at |-> CASE job = "start" -> IF nicRow THEN "fill" ELSE "run"
                 [] job = "query" -> "fill"
                 [] job = "update" -> "commit"
                 [] OTHER -> IF nicUp THEN "fill" ELSE "commit"]]
  /\ UNCHANGED <<nicRow, hwaddr, nextMac, nicUp, liveMac, veths, filters, nicStop, given, nicMarks, nicFaults>>

\* An address not in the copy is invented and inserted into the database.  If
\* another request was faster the copy gets what that recorded, while the
\* device goes on with the one just invented.
fillNetworkDevice(r) ==
  /\ nic[r].at = "fill"
  /\ LET next == [start |-> "filter", query |-> "idle", add |-> "create", remove |-> "detach"][nic[r].job]
         goes(copy, use) == nic' = [nic EXCEPT ![r] = IF next = "idle" THEN NoNic
                                    ELSE [@ EXCEPT !.at = next, !.copy = copy, !.use = use]]
     IN IF nic[r].copy # 0
        THEN goes(nic[r].copy, nic[r].copy) /\ UNCHANGED <<hwaddr, nextMac, given, nicMarks>>
        ELSE /\ nextMac <= MaxMac /\ nextMac' = nextMac + 1
             /\ IF hwaddr = 0
                THEN /\ hwaddr' = nextMac /\ given' = (IF given = 0 THEN nextMac ELSE given)
                     /\ goes(nextMac, nextMac) /\ UNCHANGED nicMarks
                ELSE goes(hwaddr, nextMac) /\ NicMark({"behind"}) /\ UNCHANGED <<hwaddr, given>>
  /\ UNCHANGED <<nicRow, nicUp, liveMac, veths, filters, nicStop, nicFaults>>

\* startCommon sets the filter for the address of the copy, on the interface
\* that the container's configuration has with that address.
StartFilter(r) ==
  /\ nic[r].at = "filter"
  /\ \/ /\ nic[r].use = nic[r].copy /\ filters' = {nic[r].copy}
        /\ nic' = [nic EXCEPT ![r].at = "run"] /\ UNCHANGED nicFaults
     \/ /\ IF nic[r].use = nic[r].copy THEN NicFault ELSE UNCHANGED nicFaults
        /\ filters' = {} /\ NicDone(r)
  /\ UNCHANGED <<nicRow, hwaddr, nextMac, nicUp, liveMac, veths, nicStop, given, nicMarks>>

\* A start that fails now leaves the filter to the next start.
StartRunsNic(r) ==
  /\ nic[r].at = "run" /\ NicDone(r)
  /\ \/ nicUp' = TRUE /\ liveMac' = nic[r].use /\ NicMark(Crossed) /\ UNCHANGED nicFaults
     \/ NicFault /\ NicMark({"leftover"}) /\ UNCHANGED <<nicUp, liveMac>>
  /\ UNCHANGED <<nicRow, hwaddr, nextMac, veths, filters, nicStop, given>>

NicStops ==
  /\ nicUp /\ nicUp' = FALSE /\ liveMac' = 0 /\ nicStop' = {IF nicRow THEN hwaddr ELSE 0} /\ NicMark(Crossed)
  /\ UNCHANGED <<nicRow, hwaddr, nextMac, veths, filters, nic, given, nicFaults>>

\* Then the goroutine of the hook removes the filter.
removeNetworkFilters ==
  /\ nicStop # {} /\ nicStop' = {} /\ filters' = filters \ nicStop
  /\ UNCHANGED <<nicRow, hwaddr, nextMac, nicUp, liveMac, veths, nic, given, nicMarks, nicFaults>>

-----------------------------------------------------------------------------
\* The live update.  A failed step leaves the interface, or that and the
\* filter, on the host; a container that has stopped has no use for it.
createNetworkDevice(r) ==
  /\ nic[r].at = "create"
  /\ \/ /\ nicUp /\ liveMac = 0
        /\ liveMac' = nic[r].use /\ filters' = filters \cup {nic[r].use}
        /\ nic' = [nic EXCEPT ![r].at = "commit", ![r].dev = TRUE]
        /\ UNCHANGED <<veths, nicMarks, nicFaults>>
     \/ /\ nicUp /\ liveMac = 0 /\ NicFault /\ NicDone(r)
        /\ \/ UNCHANGED <<veths, filters, nicMarks>>
           \/ /\ veths' = 1 /\ filters' \in {filters, filters \cup {nic[r].use}}
              /\ NicMark({"leftover"})
        /\ UNCHANGED liveMac
     \/ /\ ~(nicUp /\ liveMac = 0) /\ NicDone(r)
        /\ UNCHANGED <<liveMac, veths, filters, nicMarks, nicFaults>>
  /\ UNCHANGED <<nicRow, hwaddr, nextMac, nicUp, nicStop, given>>

\* Faulty form: the filter stays when the interface is removed.
removeFilterNot(mac) == UNCHANGED filters

removeNetworkFilter(mac) == filters' = filters \ {mac}

removeNetworkDevice(r) ==
  /\ nic[r].at = "detach"
  /\ \/ /\ nicUp /\ liveMac # 0
        /\ liveMac' = 0 /\ removeNetworkFilter(nic[r].use)
        /\ nic' = [nic EXCEPT ![r].at = "commit", ![r].dev = FALSE]
        /\ UNCHANGED <<nicMarks, nicFaults>>
     \/ /\ IF nicUp /\ liveMac # 0 THEN NicFault ELSE UNCHANGED nicFaults
        /\ NicDone(r) /\ UNCHANGED <<liveMac, filters, nicMarks>>
     \/ \* the interface is gone, the filter or the row is not
        /\ nicUp /\ liveMac # 0 /\ NicFault /\ liveMac' = 0 /\ NicMark({"half"}) /\ NicDone(r)
        /\ UNCHANGED filters
  /\ UNCHANGED <<nicRow, hwaddr, nextMac, nicUp, veths, nicStop, given>>

\* Update drops what is recorded for a device that is no longer there and
\* writes its copy over what the database has.
NicCommit(r) ==
  /\ nic[r].at = "commit" /\ NicDone(r)
  /\ LET dev == CASE nic[r].job = "add" -> TRUE [] nic[r].job = "remove" -> FALSE [] OTHER -> nic[r].dev
         mac == IF dev THEN nic[r].copy ELSE 0
     IN \/ /\ nicRow' = dev /\ hwaddr' = mac
           /\ given' = (IF dev THEN given ELSE 0)
           /\ NicMark((IF (nic[r].job \in {"update", "add"} /\ mac # hwaddr) \/ (nic[r].job = "update" /\ dev # nicRow)
                       THEN {"stale"} ELSE {})
                      \cup (IF nic[r].job # "update" /\ \E q \in NicReqs \ {r} : nic[q] # NoNic THEN {"crossed"} ELSE {}))
           /\ UNCHANGED nicFaults
        \/ /\ NicFault /\ NicMark(IF nicUp /\ nic[r].job # "update" THEN {"half"} ELSE {})
           /\ UNCHANGED <<nicRow, hwaddr, given>>
  /\ UNCHANGED <<nextMac, nicUp, liveMac, veths, filters, nicStop>>

NicsNext ==
  \/ \E r \in NicReqs :
       \/ \E job \in Jobs : LoadNic(r, job)
       \/ fillNetworkDevice(r) \/ StartFilter(r) \/ StartRunsNic(r)
       \/ createNetworkDevice(r) \/ removeNetworkDevice(r) \/ NicCommit(r)
  \/ NicStops \/ removeNetworkFilters

NicsSpec == NicsInit /\ [][NicsNext]_nicVars

-----------------------------------------------------------------------------
\* An interface has the address that was recorded for it first, in every run
\* of the container, and whenever no request is under way it is filtered for
\* that address and nothing is left on the host of one that is not there; but
\* for requests that met while the address was invented or wrote an old copy
\* of the configuration, and for updates and starts that failed half way.
NicKept ==
  /\ nicMarks \cap {"behind", "stale", "crossed", "half"} = {} => liveMac \in {0, given}
  /\ (\A r \in NicReqs : nic[r] = NoNic) /\ nicStop = {} /\ nicMarks = {} =>
       /\ filters = (IF nicUp /\ nicRow THEN {hwaddr} ELSE {})
       /\ nicUp => liveMac = (IF nicRow THEN hwaddr ELSE 0)
       /\ veths = 0
=============================================================================
