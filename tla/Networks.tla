------------------------------ MODULE Networks ------------------------------
(***************************************************************************)
(* The managed networks: their rows against the bridge, the addresses, the *)
(* firewall rules, the tunnels and the dnsmasq that serve them, under      *)
(* requests to create, update, rename and delete them, containers that     *)
(* come and go, and daemon and host restarts.  Start and Stop run command  *)
(* after command and end at the first that fails; nothing keeps two        *)
(* requests for one network apart.                                         *)
(***************************************************************************)
EXTENDS Naturals, FiniteSets

CONSTANTS
  Nets,            \* names of networks
  Longer,          \* <<n, m>>: the name of m begins with that of n
  Settings,        \* the configurations a network may be given
  Guests,          \* containers with an interface and a fixed address
  NetReqs,         \* requests that may be under way together
  MaxNetFaults, MaxNetStarts

ASSUME NetworksAssumption ==
  /\ Longer \subseteq Nets \X Nets /\ Settings \subseteq Nat \ {0}
  /\ MaxNetFaults \in Nat /\ MaxNetStarts \in Nat

Families == {4, 6}

VARIABLES
  netRow,          \* the settings in the database, 0 without a row
  bridge,          \* networks whose bridge is there
  addr,            \* settings whose addresses the bridge has, for 4 and for 6
  rules,           \* settings whose firewall rules are there
  tunnels,         \* settings whose tunnels are there
  dnsmasq,         \* settings of the dnsmasq that runs, 0 for none
  hosts,           \* guests in dnsmasq.hosts
  listed,          \* networks with a dnsmasq.hosts
  guests,          \* guests the database has on each network
  boot,            \* networks the starting daemon has not brought up
  nreq, netMarks, netFaults, netStarts

netState == <<bridge, addr, rules, tunnels, dnsmasq, hosts, listed>>
netVars == <<netRow, netState, guests, boot, nreq, netMarks, netFaults, netStarts>>

\* What a request works at; "saw" are the guests it has read and "left" the
\* networks whose hosts it has still to write.
Ask(op, n, set, where) ==
  [op |-> op, net |-> n, set |-> set, at |-> where, saw |-> [m \in Nets |-> {}], left |-> {}]

NoReq == Ask("none", CHOOSE n \in Nets : TRUE, 0, "idle")

NetworksInit ==
  /\ netRow = [n \in Nets |-> 0] /\ bridge = {}
  /\ addr = [n \in Nets |-> [f \in Families |-> {}]]
  /\ rules = [n \in Nets |-> [f \in Families |-> {}]]
  /\ tunnels = [n \in Nets |-> {}] /\ dnsmasq = [n \in Nets |-> 0]
  /\ hosts = [n \in Nets |-> {}] /\ listed = {} /\ guests = [n \in Nets |-> {}]
  /\ boot = {} /\ nreq = [r \in NetReqs |-> NoReq]
  /\ netMarks = [n \in Nets |-> {}] /\ netFaults = 0 /\ netStarts = 0

-----------------------------------------------------------------------------
NetFault == netFaults < MaxNetFaults /\ netFaults' = netFaults + 1
NetMark(n, S) == netMarks' = [netMarks EXCEPT ![n] = @ \cup S]
NetIs(r, where) == nreq[r].at = where
NetGoto(r, where) == nreq' = [nreq EXCEPT ![r].at = where]

Booting == boot # {} \/ \E r \in NetReqs : nreq[r].op = "boot"

\* A request begins; another may be at work on the same network.
Request(r, op, n, set, where) ==
  /\ nreq[r] = NoReq
  /\ nreq' = [nreq EXCEPT ![r] = Ask(op, n, set, where)]
  /\ NetMark(n, IF \E q \in NetReqs : nreq[q].at # "idle" /\ nreq[q].net = n
                THEN {"raced"} ELSE {})

IsUsed(n) == guests[n] # {}

\* The name must be free among the rows and the interfaces of the host.
networksPost(r, n, set) ==
  /\ ~Booting /\ netRow[n] = 0 /\ n \notin bridge
  /\ Request(r, "create", n, set, "bridge")
  /\ netRow' = [netRow EXCEPT ![n] = set]
  /\ UNCHANGED <<netState, guests, boot, netFaults, netStarts>>

\* The row is written before the network is started with the new settings; a
\* changed driver stops it first.
networkPut(r, n, set) ==
  /\ ~Booting /\ netRow[n] \notin {0, set}
  /\ \/ Request(r, "update", n, set, "write")
     \/ n \in bridge /\ Request(r, "update", n, set, "link")
  /\ UNCHANGED <<netRow, netState, guests, boot, netFaults, netStarts>>

UpdateWrites(r) ==
  /\ NetIs(r, "write") /\ nreq[r].op = "update"
  /\ \/ /\ netRow' = [netRow EXCEPT ![nreq[r].net] = IF @ = 0 THEN 0 ELSE nreq[r].set]
        /\ NetGoto(r, "bridge") /\ UNCHANGED <<netFaults, netMarks>>
     \/ /\ NetFault /\ nreq' = [nreq EXCEPT ![r] = NoReq]
        /\ NetMark(nreq[r].net, IF nreq[r].net \in bridge THEN {} ELSE {"halfapplied"})
        /\ UNCHANGED netRow
  /\ UNCHANGED <<netState, guests, boot, netStarts>>

networkDelete(r, n) ==
  /\ ~Booting /\ netRow[n] # 0 /\ ~IsUsed(n)
  /\ Request(r, "delete", n, netRow[n], IF n \in bridge THEN "link" ELSE "write")
  /\ UNCHANGED <<netRow, netState, guests, boot, netFaults, netStarts>>

Rename(r, n) ==
  /\ ~Booting /\ netRow[n] # 0 /\ ~IsUsed(n)
  /\ Request(r, "rename", n, netRow[n], IF n \in bridge THEN "link" ELSE "write")
  /\ UNCHANGED <<netRow, netState, guests, boot, netFaults, netStarts>>

\* The network is then started under the name the struct still has: the old.
RenameWrites(r, to) ==
  /\ NetIs(r, "write") /\ nreq[r].op = "rename" /\ netRow[to] = 0 /\ to \notin bridge
  /\ netRow' = [netRow EXCEPT ![to] = netRow[nreq[r].net], ![nreq[r].net] = 0]
  /\ hosts' = [hosts EXCEPT ![to] = hosts[nreq[r].net], ![nreq[r].net] = {}]
  /\ listed' = (listed \ {to, nreq[r].net}) \cup (IF nreq[r].net \in listed THEN {to} ELSE {})
  /\ netMarks' = [n \in Nets |-> IF n \in {to, nreq[r].net} THEN netMarks[n] \cup {"misnamed"} ELSE netMarks[n]]
  /\ NetGoto(r, "bridge")
  /\ UNCHANGED <<bridge, addr, rules, tunnels, dnsmasq, guests, boot, netFaults, netStarts>>

\* The row goes, and the directory with the hosts.
DeleteWrites(r) ==
  /\ NetIs(r, "write") /\ nreq[r].op \in {"delete", "create"}
  /\ netRow' = [netRow EXCEPT ![nreq[r].net] = 0]
  /\ hosts' = [hosts EXCEPT ![nreq[r].net] = {}] /\ listed' = listed \ {nreq[r].net}
  /\ nreq' = [nreq EXCEPT ![r] = NoReq]
  /\ UNCHANGED <<bridge, addr, rules, tunnels, dnsmasq, guests, boot, netMarks, netFaults, netStarts>>

-----------------------------------------------------------------------------
(* Start.                                                                   *)
\* A failed creation deletes the network again, unless it is used by now; any
\* other start that fails leaves the row and what was done so far.
StartFails(r) ==
  LET n == nreq[r].net
      undo == nreq[r].op = "create" /\ ~IsUsed(n)
  IN /\ nreq' = IF undo THEN [nreq EXCEPT ![r].at = IF n \in bridge THEN "link" ELSE "write"]
                ELSE [nreq EXCEPT ![r] = NoReq]
     /\ NetMark(n, IF undo THEN {} ELSE {"halfapplied"})

\* The bridge, its tunnels of before taken away, its MTU.
StartBridge(r) ==
  /\ NetIs(r, "bridge")
  /\ LET n == nreq[r].net
     IN \/ /\ bridge' = bridge \cup {n} /\ tunnels' = [tunnels EXCEPT ![n] = {}]
           /\ NetGoto(r, "clear4") /\ UNCHANGED <<netMarks, netFaults>>
        \/ NetFault /\ StartFails(r) /\ UNCHANGED <<bridge, tunnels>>
  /\ UNCHANGED <<netRow, addr, rules, dnsmasq, hosts, listed, guests, boot, netStarts>>

At4(r) == nreq[r].at \in {"clear4", "set4"}
Family(r) == IF At4(r) THEN 4 ELSE 6

\* Rules are found by a comment that contains the name; so are those of a
\* network whose name is longer.
networkIptablesClear(n, F) ==
  rules' = [m \in Nets |-> IF m = n \/ <<n, m>> \in Longer
                           THEN [f \in Families |-> IF f \in F THEN {} ELSE rules[m][f]]
                           ELSE rules[m]]

Robbed(n) ==
  [m \in Nets |-> IF <<n, m>> \in Longer /\ rules'[m] # rules[m]
                  THEN netMarks[m] \cup {"robbed"} ELSE netMarks[m]]

\* Faulty form: the addresses stay.
FlushNothing(n, f) == UNCHANGED addr

Flush(n, f) == addr' = [addr EXCEPT ![n][f] = {}]

StartClear(r) ==
  /\ nreq[r].at \in {"clear4", "clear6"}
  /\ LET n == nreq[r].net
     IN \/ /\ n \in bridge
           /\ networkIptablesClear(n, {Family(r)}) /\ Flush(n, Family(r))
           /\ netMarks' = Robbed(n)
           /\ NetGoto(r, IF At4(r) THEN "set4" ELSE "set6") /\ UNCHANGED netFaults
        \/ /\ IF n \in bridge THEN NetFault ELSE UNCHANGED netFaults
           /\ StartFails(r) /\ UNCHANGED <<rules, addr>>
  /\ UNCHANGED <<netRow, bridge, tunnels, dnsmasq, hosts, listed, guests, boot, netStarts>>

\* An address that is there already cannot be added.
StartFamily(r) ==
  /\ nreq[r].at \in {"set4", "set6"}
  /\ LET n == nreq[r].net
         f == Family(r)
         k == nreq[r].set
         can == n \in bridge /\ k \notin addr[n][f]
     IN /\ rules' = [rules EXCEPT ![n][f] = @ \cup {k}]
        /\ \/ /\ can /\ addr' = [addr EXCEPT ![n][f] = @ \cup {k}]
              /\ NetGoto(r, IF At4(r) THEN "clear6" ELSE "tunnel")
              /\ UNCHANGED <<netMarks, netFaults>>
           \/ /\ IF can THEN NetFault ELSE UNCHANGED netFaults
              /\ StartFails(r) /\ UNCHANGED addr
  /\ UNCHANGED <<netRow, bridge, tunnels, dnsmasq, hosts, listed, guests, boot, netStarts>>

StartTunnels(r) ==
  /\ NetIs(r, "tunnel")
  /\ LET n == nreq[r].net
         can == n \in bridge /\ nreq[r].set \notin tunnels[n]
     IN \/ /\ can /\ tunnels' = [tunnels EXCEPT ![n] = @ \cup {nreq[r].set}]
           /\ NetGoto(r, "dns") /\ UNCHANGED <<netMarks, netFaults>>
        \/ /\ IF can THEN NetFault ELSE UNCHANGED netFaults
           /\ StartFails(r) /\ UNCHANGED tunnels
  /\ UNCHANGED <<netRow, bridge, addr, rules, dnsmasq, hosts, listed, guests, boot, netStarts>>

\* The dnsmasq that runs is killed and one with the new settings started,
\* which reads dnsmasq.hosts.
StartDnsmasq(r) ==
  /\ NetIs(r, "dns")
  /\ LET n == nreq[r].net
     IN \/ /\ n \in bridge /\ dnsmasq' = [dnsmasq EXCEPT ![n] = nreq[r].set]
           /\ listed' = listed \cup {n}
           /\ NetGoto(r, "static") /\ UNCHANGED <<netMarks, netFaults>>
        \/ /\ IF n \in bridge THEN NetFault ELSE UNCHANGED netFaults
           /\ dnsmasq' = [dnsmasq EXCEPT ![n] = 0] /\ StartFails(r) /\ UNCHANGED listed
  /\ UNCHANGED <<netRow, bridge, addr, rules, tunnels, hosts, guests, boot, netStarts>>

-----------------------------------------------------------------------------
(* networkUpdateStatic, of one network or, for a container, of them all.    *)
Wide(r) == nreq[r].op \in {"static", "clear"}

\* It reads the guests and the rows once.
UpdateStatic(r) ==
  /\ NetIs(r, "static")
  /\ nreq' = [nreq EXCEPT ![r].saw = guests, ![r].at = "hosts",
                ![r].left = IF Wide(r) THEN {m \in Nets : netRow[m] # 0} ELSE {nreq[r].net}]
  /\ UNCHANGED <<netRow, netState, guests, boot, netMarks, netFaults, netStarts>>

\* Faulty form: dnsmasq.hosts is written only once.
WriteHostsOnce(n, S) == hosts' = [hosts EXCEPT ![n] = IF @ = {} THEN S ELSE @]

WriteHosts(n, S) == hosts' = [hosts EXCEPT ![n] = S]

\* One network after the other has its file written and its dnsmasq, which
\* must run, signalled; one without a file is passed over.
StaticHosts(r, m) ==
  /\ NetIs(r, "hosts") /\ m \in nreq[r].left
  /\ \/ /\ netRow[m] # 0 /\ m \in listed /\ dnsmasq[m] # 0 /\ WriteHosts(m, nreq[r].saw[m])
        /\ NetMark(m, IF nreq[r].saw[m] = guests[m] THEN {} ELSE {"overtaken"})
     \/ m \notin listed /\ UNCHANGED <<hosts, netMarks>>
  /\ nreq' = [nreq EXCEPT ![r].left = @ \ {m}]
  /\ UNCHANGED <<netRow, bridge, addr, rules, tunnels, dnsmasq, listed, guests, boot, netFaults, netStarts>>

\* The first network whose row is gone by then, whose file cannot be written or
\* whose dnsmasq is down ends it.  That fails a start; a container does not
\* notice, and the networks that were left keep the hosts they have.
StaticStops(r, m) ==
  /\ NetIs(r, "hosts") /\ m \in nreq[r].left
  /\ \/ netRow[m] = 0 /\ UNCHANGED <<hosts, netFaults>>
     \/ NetFault /\ UNCHANGED hosts
     \/ /\ netRow[m] # 0 /\ m \in listed /\ dnsmasq[m] = 0 /\ WriteHosts(m, nreq[r].saw[m])
        /\ UNCHANGED netFaults
  /\ IF Wide(r)
     THEN /\ nreq' = [nreq EXCEPT ![r].left = {}]
          /\ netMarks' = [k \in Nets |-> IF k \in nreq[r].left /\ hosts'[k] # guests[k]
                                         THEN netMarks[k] \cup {"skipped"} ELSE netMarks[k]]
     ELSE StartFails(r)
  /\ UNCHANGED <<netRow, bridge, addr, rules, tunnels, dnsmasq, listed, guests, boot, netStarts>>

\* A container that was deleted has its lease cleared next: its network's
\* dnsmasq is killed and the network started again.
StaticEnds(r) ==
  /\ NetIs(r, "hosts") /\ nreq[r].left = {}
  /\ LET n == nreq[r].net
         lease == nreq[r].op = "clear" /\ netRow[n] # 0 /\ n \in listed
     IN IF lease THEN /\ nreq' = [nreq EXCEPT ![r] = Ask("lease", n, netRow[n], "bridge")]
                      /\ dnsmasq' = [dnsmasq EXCEPT ![n] = 0]
                 ELSE nreq' = [nreq EXCEPT ![r] = NoReq] /\ UNCHANGED dnsmasq
  /\ UNCHANGED <<netRow, bridge, addr, rules, tunnels, hosts, listed, guests, boot, netMarks, netFaults, netStarts>>

-----------------------------------------------------------------------------
(* Stop, of a network that is renamed, deleted or given another driver.     *)
AfterStop(r) == NetGoto(r, "write")

\* The link goes, with its addresses; a link that is gone ends the request.
StopLink(r) ==
  /\ NetIs(r, "link")
  /\ LET n == nreq[r].net
     IN \/ /\ n \in bridge /\ bridge' = bridge \ {n}
           /\ addr' = [addr EXCEPT ![n] = [f \in Families |-> {}]]
           /\ NetGoto(r, "unrule") /\ UNCHANGED <<netMarks, netFaults>>
        \/ /\ IF n \in bridge THEN NetFault ELSE UNCHANGED netFaults
           /\ nreq' = [nreq EXCEPT ![r] = NoReq]
           /\ NetMark(n, IF nreq[r].op = "create" THEN {"halfapplied"} ELSE {})
           /\ UNCHANGED <<bridge, addr>>
  /\ UNCHANGED <<netRow, rules, tunnels, dnsmasq, hosts, listed, guests, boot, netStarts>>

\* Without its link a network counts as stopped, and is not stopped again.
StopRules(r) ==
  /\ NetIs(r, "unrule")
  /\ LET n == nreq[r].net
     IN \/ /\ networkIptablesClear(n, Families) /\ netMarks' = Robbed(n)
           /\ NetGoto(r, "kill") /\ UNCHANGED netFaults
        \/ /\ NetFault /\ NetMark(n, {"halfstopped"})
           /\ nreq' = [nreq EXCEPT ![r] = NoReq] /\ UNCHANGED rules
  /\ UNCHANGED <<netRow, bridge, addr, tunnels, dnsmasq, hosts, listed, guests, boot, netStarts>>

StopDnsmasq(r) ==
  /\ NetIs(r, "kill")
  /\ LET n == nreq[r].net
     IN \/ /\ dnsmasq' = [dnsmasq EXCEPT ![n] = 0] /\ tunnels' = [tunnels EXCEPT ![n] = {}]
           /\ AfterStop(r) /\ UNCHANGED <<netMarks, netFaults>>
        \/ /\ NetFault /\ NetMark(n, {"halfstopped"})
           /\ nreq' = [nreq EXCEPT ![r] = NoReq] /\ UNCHANGED <<dnsmasq, tunnels>>
  /\ UNCHANGED <<netRow, bridge, addr, rules, hosts, listed, guests, boot, netStarts>>

-----------------------------------------------------------------------------
(* Containers, and the daemon.                                              *)
\* A container is created with an interface on the network, or given one.
AddGuest(r, n, g) ==
  /\ ~Booting /\ g \notin guests[n]
  /\ Request(r, "static", n, 0, "static")
  /\ guests' = [guests EXCEPT ![n] = @ \cup {g}]
  /\ UNCHANGED <<netRow, netState, boot, netFaults, netStarts>>

\* An interface is taken from a container, or the container deleted.
RemoveGuest(r, n, g) ==
  /\ ~Booting /\ g \in guests[n]
  /\ guests' = [guests EXCEPT ![n] = @ \ {g}]
  /\ \E op \in {"static", "clear"} : Request(r, op, n, 0, "static")
  /\ UNCHANGED <<netRow, netState, boot, netFaults, netStarts>>

\* The daemon starts, after the host has or alone, and starts each network.
DaemonStarts ==
  /\ ~Booting /\ netStarts < MaxNetStarts /\ netStarts' = netStarts + 1
  /\ \A r \in NetReqs : nreq[r] = NoReq
  /\ boot' = {n \in Nets : netRow[n] # 0}
  /\ \/ UNCHANGED netState
     \/ /\ bridge' = {} /\ UNCHANGED <<hosts, listed>>
        /\ addr' = [n \in Nets |-> [f \in Families |-> {}]]
        /\ rules' = [n \in Nets |-> [f \in Families |-> {}]]
        /\ tunnels' = [n \in Nets |-> {}] /\ dnsmasq' = [n \in Nets |-> 0]
  /\ UNCHANGED <<netRow, guests, nreq, netMarks, netFaults>>

networkStartup(r, n) ==
  /\ n \in boot /\ \A q \in NetReqs : nreq[q] = NoReq
  /\ boot' = boot \ {n}
  /\ Request(r, "boot", n, netRow[n], "bridge")
  /\ UNCHANGED <<netRow, netState, guests, netFaults, netStarts>>

NetworksNext ==
  \/ \E r \in NetReqs :
       \/ \E n \in Nets :
            \/ \E set \in Settings : networksPost(r, n, set) \/ networkPut(r, n, set)
            \/ networkDelete(r, n) \/ Rename(r, n) \/ RenameWrites(r, n) \/ networkStartup(r, n)
            \/ StaticHosts(r, n) \/ StaticStops(r, n)
            \/ \E g \in Guests : AddGuest(r, n, g) \/ RemoveGuest(r, n, g)
       \/ UpdateWrites(r) \/ DeleteWrites(r)
       \/ StartBridge(r) \/ StartClear(r) \/ StartFamily(r) \/ StartTunnels(r) \/ StartDnsmasq(r)
       \/ UpdateStatic(r) \/ StaticEnds(r) \/ StopLink(r) \/ StopRules(r) \/ StopDnsmasq(r)
  \/ DaemonStarts

NetworksSpec == NetworksInit /\ [][NetworksNext]_netVars

-----------------------------------------------------------------------------
\* Once no request is under way a network with a row serves what the row says,
\* and nothing besides: bridge, addresses, rules, tunnels, dnsmasq and the
\* fixed addresses of its containers; one without a row has left nothing; also
\* after any number of updates and restarts over what already runs.  Not so
\* for a network on which two requests met, whose start or stop failed half
\* way, which was renamed (it runs under its old name) or whose rules were
\* taken by one with a shorter name.  The fixed addresses are not claimed
\* where an older reading of the containers was written last ("overtaken"),
\* nor where the update for a container ended at another network ("skipped").
NetworksServe ==
  (boot = {} /\ \A r \in NetReqs : nreq[r] = NoReq) =>
    \A n \in Nets :
      /\ netMarks[n] \subseteq {"overtaken", "skipped"} =>
           LET k == IF netRow[n] = 0 THEN {} ELSE {netRow[n]}
           IN /\ n \in bridge <=> k # {}
              /\ addr[n] = [f \in Families |-> k] /\ rules[n] = [f \in Families |-> k]
              /\ tunnels[n] = k /\ dnsmasq[n] = netRow[n]
      /\ netMarks[n] = {} /\ netRow[n] # 0 => hosts[n] = guests[n]
=============================================================================
