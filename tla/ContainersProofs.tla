-------------------------- MODULE ContainersProofs --------------------------
(***************************************************************************)
(* Theorems about Containers: what a container's row, files and instance   *)
(* keep in step (ContainerConfig), and that the ranges of ids which        *)
(* findIdmap gives are apart (Idmap), for any number of containers,        *)
(* requests, maps and deaths of the daemon.                                *)
(***************************************************************************)
EXTENDS Containers, FiniteSetTheorems, SequenceTheorems, TLAPS

-----------------------------------------------------------------------------
(* The configuration of one container. *)

Rows == [next : Maps, last : Maps, eph : BOOLEAN, lim : Limits]

PcOf == {"idle", "live", "commit", "walk", "unshift", "shift", "key", "fork", "stop", "wait", "unset", "reset"}

Asks == [job : {"none", "update", "start", "stop", "restart"}, pc : PcOf,
         s : Rows \cup {Nobody}, lim : Limits \cup {Nobody}, fresh : BOOLEAN]

\* The places a request of each job is at.
PlacesInv ==
  \A r \in Client :
    /\ reqs[r].job = "none" => reqs[r] = Resting
    /\ reqs[r].job # "none" => reqs[r].s \in Rows /\ reqs[r].lim \in Limits
    /\ reqs[r].job = "update" => reqs[r].pc \in {"live", "commit"}
    /\ reqs[r].job = "start" => reqs[r].pc \in {"walk", "unshift", "shift", "key", "fork"}
    /\ reqs[r].job = "stop" => reqs[r].pc \in {"stop", "wait"}
    /\ reqs[r].job = "restart" => reqs[r].pc \in PcOf \ {"idle", "live", "commit"}

CfgTypeInv ==
  /\ row # Nobody => row \in Rows
  /\ born \in BOOLEAN
  /\ reqs \in [Client -> Asks]
  /\ PlacesInv

Moving(r) == reqs[r].job \in {"start", "stop", "restart"}

\* One request at a time starts, stops or restarts the container, and there is
\* no instance while it starts.  A struct that nobody else has written since
\* it was loaded differs from the row only in what the request changes.
LoadedInv ==
  /\ \A r, q \in Client : Moving(r) /\ Moving(q) => r = q
  /\ \A r \in Client : reqs[r].pc \in {"wait", "walk", "unshift", "shift", "key", "fork"} => inst = Nobody
  /\ row # Nobody => \A r \in Client :
       reqs[r].job # "none" /\ reqs[r].fresh =>
         /\ reqs[r].s.last = row.last /\ reqs[r].s.eph = row.eph
         /\ reqs[r].job = "update" => reqs[r].lim = row.lim
         /\ Moving(r) => reqs[r].s.lim = row.lim
  /\ row # Nobody /\ "stale" \notin marks => \A r \in Client : Moving(r) => reqs[r].s.last = row.last

\* While a restart has the flag cleared the row has it cleared, and it is
\* cleared only by a restart.
EphemeralInv ==
  /\ \A r \in Client : reqs[r].job = "restart" /\ reqs[r].pc # "unset" => ~reqs[r].s.eph
  /\ \A r \in Client : reqs[r].pc = "reset" => reqs[r].s.eph # born
  /\ row # Nobody /\ "stale" \notin marks =>
       \A r \in Client : reqs[r].job = "restart" /\ reqs[r].pc # "unset" => ~row.eph
  /\ marks \cap {"stale", "slip"} = {} =>
       /\ \A r \in Client : reqs[r].pc = "unset" => reqs[r].s.eph = born
       /\ row # Nobody /\ (\A r \in Client : reqs[r].job = "restart" => reqs[r].s.eph = born) =>
            row.eph = born
  /\ "stale" \notin marks => \A h \in hooks : h.why = "restart" => ~h.eph

\* An update that was applied to the instance and is not written yet.
Applied(r) == At(r, "commit") /\ reqs[r].s.lim # reqs[r].lim

\* The instance has the limit of the row, or one that is about to be written.
LimitInv ==
  inst # Nobody /\ row # Nobody /\ marks \cap {"stale", "lag"} = {} =>
    /\ inst.lim = row.lim \/ \E r \in Client : Applied(r)
    /\ \A r \in Client : Applied(r) /\ reqs[r].fresh =>
         inst.lim = reqs[r].s.lim \/ \E q \in Client \ {r} : Applied(q)

\* Nothing was cut short, or only the remap of p was, which can be repeated.
Clean(p) == torn = {} \/ (torn = {p} /\ Resumable(p))

\* Whose the files may be at each place of a remap, and after it; those of a
\* remap that was cut short and is repeated are of both maps or of none.
WalkInv ==
  /\ \A p \in torn : p[1] # p[2]
  /\ \A r \in Client : Walking(r) => reqs[r].s.next # reqs[r].s.last
  /\ \A r \in Client : At(r, "fork") => reqs[r].s.next = reqs[r].s.last
  /\ row # Nobody /\ marks \cap {"stale", "spoiled"} = {} =>
       /\ \A r \in Client : At(r, "fork") => torn = {}
       /\ inst # Nobody => torn = {} /\ inst.map = row.last
       /\ \A r \in Client : Unrecorded(r) /\ Clean(Pair(reqs[r].s)) =>
            /\ files # {}
            /\ At(r, "unshift") => files \subseteq {reqs[r].s.last, "raw", reqs[r].s.next}
            /\ At(r, "unshift") /\ torn = {} => files = {reqs[r].s.last}
            /\ At(r, "shift") => files \subseteq {"raw", reqs[r].s.next}
            /\ At(r, "shift") /\ torn = {} => files = {"raw"}
            /\ At(r, "key") => files = {reqs[r].s.next}
       /\ (\A r \in Client : ~Unrecorded(r)) =>
            /\ torn = {} => files = {row.last}
            /\ \A p \in torn : torn = {p} /\ Resumable(p) => files # {} /\ files \subseteq {p[1], "raw", p[2]}

CfgInv == CfgTypeInv /\ LoadedInv /\ EphemeralInv /\ LimitInv /\ WalkInv

-----------------------------------------------------------------------------
\* What the three ways to change a request do to it and to the others.
LEMMA GotoFact ==
  ASSUME CfgTypeInv, NEW r \in Client, NEW l \in PcOf, Goto(r, l)
  PROVE  /\ reqs' \in [Client -> Asks] /\ \A q \in Client \ {r} : reqs'[q] = reqs[q]
         /\ reqs'[r].pc = l /\ reqs'[r].job = reqs[r].job /\ reqs'[r].s = reqs[r].s
         /\ reqs'[r].lim = reqs[r].lim /\ reqs'[r].fresh = reqs[r].fresh
BY DEF CfgTypeInv, Goto, Asks

LEMMA RestingFact == /\ Resting \in Asks /\ Resting.job = "none" /\ Resting.pc = "idle" /\ Resting.fresh = TRUE
                     /\ Resting.s = Nobody /\ Resting.lim = Nobody
BY DEF Resting, Asks, PcOf

\* What the place of a request says about its job.
LEMMA PlaceFact ==
  ASSUME CfgTypeInv, NEW q \in Client
  PROVE  /\ reqs[q].pc = "idle" <=> reqs[q].job = "none"
         /\ reqs[q].pc \in {"live", "commit"} <=> reqs[q].job = "update"
         /\ reqs[q].pc \in PcOf \ {"idle", "live", "commit"} <=> Moving(q)
         /\ reqs[q].pc \in {"wait", "stop"} => reqs[q].job \in {"stop", "restart"}
         /\ reqs[q].pc \in {"unset", "reset"} => reqs[q].job = "restart"
         /\ Moving(q) => reqs[q].s \in Rows
         /\ reqs[q].pc \in PcOf
<1>1. reqs[q].job \in {"none", "update", "start", "stop", "restart"} /\ reqs[q].pc \in PcOf
  BY DEF CfgTypeInv, Asks
<1>2. CASE reqs[q].job = "none"
  <2>1. reqs[q].pc = "idle"  BY <1>2, RestingFact DEF CfgTypeInv, PlacesInv
  <2> QED  BY <1>2, <2>1 DEF PcOf, Moving
<1>3. CASE reqs[q].job = "update"
  <2>1. reqs[q].pc \in {"live", "commit"}  BY <1>3 DEF CfgTypeInv, PlacesInv
  <2> QED  BY <1>3, <2>1 DEF PcOf, Moving
<1>4. CASE reqs[q].job = "start"
  <2>1. reqs[q].pc \in {"walk", "unshift", "shift", "key", "fork"} /\ reqs[q].s \in Rows
    BY <1>4 DEF CfgTypeInv, PlacesInv
  <2> QED  BY <1>4, <2>1 DEF PcOf, Moving
<1>5. CASE reqs[q].job = "stop"
  <2>1. reqs[q].pc \in {"stop", "wait"} /\ reqs[q].s \in Rows  BY <1>5 DEF CfgTypeInv, PlacesInv
  <2> QED  BY <1>5, <2>1 DEF PcOf, Moving
<1>6. CASE reqs[q].job = "restart"
  <2>1. reqs[q].pc \in PcOf \ {"idle", "live", "commit"} /\ reqs[q].s \in Rows
    BY <1>6 DEF CfgTypeInv, PlacesInv
  <2> QED  BY <1>6, <2>1 DEF PcOf, Moving
<1> QED  BY <1>1, <1>2, <1>3, <1>4, <1>5, <1>6

\* While a request moves the container no other one does.
LEMMA AloneFact ==
  ASSUME CfgInv, NEW r \in Client, reqs[r].pc \in PcOf \ {"idle", "live", "commit"}
  PROVE  /\ Moving(r) /\ reqs[r].s \in Rows
         /\ \A q \in Client \ {r} : /\ ~Moving(q) /\ ~Unrecorded(q) /\ ~Walking(q)
                                    /\ reqs[q].pc \in {"idle", "live", "commit"}
<1>1. Moving(r) /\ reqs[r].s \in Rows  BY PlaceFact DEF CfgInv
<1>2. \A q \in Client \ {r} : ~Moving(q)  BY <1>1 DEF CfgInv, LoadedInv
<1>3. \A q \in Client \ {r} : reqs[q].pc \in {"idle", "live", "commit"}  BY <1>2, PlaceFact DEF CfgInv, PcOf
<1>4. \A q \in Client \ {r} : ~Walking(q) /\ ~Unrecorded(q)
  BY <1>3 DEF Walking, Unrecorded, At
<1> QED  BY <1>1, <1>2, <1>3, <1>4

LEMMA AnswerFact ==
  ASSUME CfgTypeInv, NEW r \in Client, Answer(r)
  PROVE  /\ reqs' \in [Client -> Asks] /\ \A q \in Client \ {r} : reqs'[q] = reqs[q]
         /\ reqs'[r] = Resting
BY RestingFact DEF CfgTypeInv, Answer

LEMMA WriteFact ==
  ASSUME CfgTypeInv, NEW r \in Client, NEW s \in Rows, NEW l \in PcOf, reqs[r].job # "none", Write(r, s, l)
  PROVE  /\ row # Nobody /\ row' = s /\ reqs' \in [Client -> Asks]
         /\ \A q \in Client \ {r} :
              /\ reqs'[q].job = reqs[q].job /\ reqs'[q].pc = reqs[q].pc /\ reqs'[q].s = reqs[q].s
              /\ reqs'[q].lim = reqs[q].lim
              /\ reqs[q] = Resting => reqs'[q] = Resting
              /\ reqs[q] # Resting => ~reqs'[q].fresh
         /\ l = "idle" => reqs'[r] = Resting
         /\ l # "idle" => /\ reqs'[r].pc = l /\ reqs'[r].s = s /\ reqs'[r].job = reqs[r].job
                          /\ reqs'[r].lim = reqs[r].lim /\ reqs'[r].fresh = reqs[r].fresh
<1>1. row # Nobody /\ row' = s  BY DEF Write
<1>2. \A q \in Client : reqs[q] \in Asks  BY DEF CfgTypeInv
<1>3. ASSUME NEW q \in Client \ {r}
      PROVE  /\ reqs'[q] \in Asks
             /\ reqs'[q].job = reqs[q].job /\ reqs'[q].pc = reqs[q].pc /\ reqs'[q].s = reqs[q].s
             /\ reqs'[q].lim = reqs[q].lim
             /\ reqs[q] = Resting => reqs'[q] = Resting
             /\ reqs[q] # Resting => ~reqs'[q].fresh
  <2>1. reqs'[q] = [reqs[q] EXCEPT !.fresh = (reqs[q] = Resting)]  BY DEF Write
  <2>2. CASE reqs[q] = Resting
    <3>1. reqs'[q] = [Resting EXCEPT !.fresh = TRUE]  BY <2>1, <2>2
    <3>2. [Resting EXCEPT !.fresh = TRUE] = Resting
      <4>1. Resting = [f \in {"job", "pc", "s", "lim", "fresh"} |-> Resting[f]]  BY DEF Resting
      <4> QED  BY <4>1, RestingFact
    <3> QED  BY <2>2, <3>1, <3>2, RestingFact
  <2>3. CASE reqs[q] # Resting
    <3>1. reqs'[q] = [reqs[q] EXCEPT !.fresh = FALSE]  BY <2>1, <2>3
    <3> QED  BY <1>2, <2>3, <3>1 DEF Asks
  <2> QED  BY <2>2, <2>3
<1>4. reqs'[r] = IF l = "idle" THEN Resting ELSE [reqs[r] EXCEPT !.pc = l, !.s = s]
  BY DEF Write
<1>5. l = "idle" => reqs'[r] = Resting  BY <1>4
<1>6. l # "idle" => /\ reqs'[r] \in Asks /\ reqs'[r].pc = l /\ reqs'[r].s = s /\ reqs'[r].job = reqs[r].job
                    /\ reqs'[r].lim = reqs[r].lim /\ reqs'[r].fresh = reqs[r].fresh
  BY <1>2, <1>4 DEF Asks
<1>7. \A q \in Client : reqs'[q] \in Asks  BY <1>3, <1>5, <1>6, RestingFact
<1>8. reqs' \in [Client -> Asks]  BY <1>7 DEF Write
<1> QED  BY <1>1, <1>3, <1>5, <1>6, <1>8

LEMMA FinishFact ==
  ASSUME CfgTypeInv, NEW r \in Client, Finish(r)
  PROVE  /\ reqs' \in [Client -> Asks] /\ \A q \in Client \ {r} : reqs'[q] = reqs[q]
         /\ \/ reqs'[r] = Resting /\ ~(reqs[r].job = "restart" /\ reqs[r].s.eph # born)
            \/ /\ reqs[r].job = "restart" /\ reqs[r].s.eph # born
               /\ reqs'[r].pc = "reset" /\ reqs'[r].job = reqs[r].job /\ reqs'[r].s = reqs[r].s
               /\ reqs'[r].lim = reqs[r].lim /\ reqs'[r].fresh = reqs[r].fresh
<1>1. "reset" \in PcOf  BY DEF PcOf
<1>2. CASE reqs[r].job = "restart" /\ reqs[r].s.eph # born  BY <1>1, <1>2, GotoFact DEF Finish
<1>3. CASE ~(reqs[r].job = "restart" /\ reqs[r].s.eph # born)  BY <1>3, AnswerFact DEF Finish
<1> QED  BY <1>2, <1>3

\* What a walk makes of files of one map, and of files of a remap that was cut
\* short and is repeated.
LEMMA UnshiftOne == ASSUME NEW m PROVE Unshifted({m}, m) = {"raw"}
BY DEF Unshifted

LEMMA UnshiftAgain ==
  ASSUME NEW fs, NEW m, NEW n, fs # {}, fs \subseteq {m, "raw", n},
         <<n, m>> \notin Within, <<"raw", m>> \notin Within
  PROVE  Unshifted(fs, m) # {} /\ Unshifted(fs, m) \subseteq {"raw", n}
<1>1. CASE m = "raw"  BY <1>1 DEF Unshifted
<1>2. CASE m # "raw"
  <2>1. \A f \in fs : (IF f = m THEN "raw" ELSE IF <<f, m>> \in Within THEN "lost" ELSE f) \in {"raw", n}
    OBVIOUS
  <2> QED  BY <1>2, <2>1 DEF Unshifted
<1> QED  BY <1>1, <1>2

LEMMA ShiftAll ==
  ASSUME NEW fs, NEW n, fs # {}, fs \subseteq {"raw", n}, fs = {"raw"} \/ n \notin Wide
  PROVE  Shifted(fs, n) = {n}
<1>1. CASE n = "raw"  BY <1>1 DEF Shifted
<1>2. CASE n # "raw"
  <2>1. \A f \in fs : (IF f = "raw" THEN n ELSE IF n \in Wide THEN "lost" ELSE f) = n  OBVIOUS
  <2> QED  BY <1>2, <2>1 DEF Shifted
<1> QED  BY <1>1, <1>2

\* What a remap that can be repeated leaves when it is cut short.
LEMMA CutFact ==
  ASSUME CfgInv, NEW r \in Client, Unrecorded(r), row # Nobody, marks \cap {"stale", "spoiled"} = {},
         torn \subseteq {Pair(reqs[r].s)}, Resumable(Pair(reqs[r].s))
  PROVE  Halfway(r) # {} /\ Halfway(r) \subseteq {reqs[r].s.last, "raw", reqs[r].s.next}
<1>1. Clean(Pair(reqs[r].s))  BY DEF Clean
<1>2. /\ <<reqs[r].s.next, reqs[r].s.last>> \notin Within /\ <<"raw", reqs[r].s.last>> \notin Within
      /\ reqs[r].s.next \notin Wide
  BY DEF Resumable, Pair
<1>3. files # {}  BY <1>1 DEF CfgInv, WalkInv
<1>4. CASE At(r, "unshift")
  <2>1. files \subseteq {reqs[r].s.last, "raw", reqs[r].s.next}  BY <1>1, <1>4 DEF CfgInv, WalkInv
  <2>2. Halfway(r) = files \cup Unshifted(files, reqs[r].s.last)
    BY <1>4 DEF Halfway, Walking, Walked, At
  <2> QED  BY <1>2, <1>3, <2>1, <2>2, UnshiftAgain
<1>5. CASE At(r, "shift")
  <2>1. files \subseteq {"raw", reqs[r].s.next}  BY <1>1, <1>5 DEF CfgInv, WalkInv
  <2>2. Halfway(r) = files \cup Shifted(files, reqs[r].s.next)
    BY <1>5 DEF Halfway, Walking, Walked, At
  <2>3. Shifted(files, reqs[r].s.next) = {reqs[r].s.next}  BY <1>2, <1>3, <2>1, ShiftAll
  <2> QED  BY <1>3, <2>1, <2>2, <2>3
<1>6. CASE At(r, "key")
  <2>1. files = {reqs[r].s.next}  BY <1>1, <1>6 DEF CfgInv, WalkInv
  <2>2. Halfway(r) = files  BY <1>6 DEF Halfway, Walking, At
  <2> QED  BY <2>1, <2>2
<1> QED  BY <1>4, <1>5, <1>6 DEF Unrecorded, Walking, At
\* One lemma for the steps of all requests, with a step for each operation and
\* under it one for each part of the invariant.
LEMMA CfgInvNext == ASSUME CfgInv, ConfigNext PROVE CfgInv'
<1> USE RestingFact DEF At
<1>1. CASE CreateContainer
  <2>10. CfgTypeInv'
    <3>1. row' \in Created /\ born' = row'.eph /\ reqs' = reqs  BY <1>1 DEF CreateContainer
    <3>2. row' \in Rows /\ born' \in BOOLEAN  BY <3>1, ContainerConfigAssumption DEF Rows
    <3> QED  BY <3>1, <3>2 DEF CfgInv, CfgTypeInv, PlacesInv
  <2>11. LoadedInv'  BY <1>1 DEF CfgInv, CfgTypeInv, PlacesInv, PcOf, LoadedInv, Moving, CreateContainer
  <2>12. EphemeralInv'  BY <1>1 DEF CfgInv, CfgTypeInv, PlacesInv, PcOf, LoadedInv, Moving, EphemeralInv, CreateContainer
  <2>13. LimitInv'  BY <1>1 DEF CfgInv, CfgTypeInv, PlacesInv, PcOf, LoadedInv, Moving, LimitInv, Applied, CreateContainer
  <2>14. WalkInv'  BY <1>1 DEF CfgInv, CfgTypeInv, PlacesInv, PcOf, LoadedInv, Moving, WalkInv, Clean, Unrecorded, Walking, Pair, CreateContainer
  <2> QED  BY <2>10, <2>11, <2>12, <2>13, <2>14 DEF CfgInv
<1>2. CASE SelfHalt
  <2>10. CfgTypeInv'  BY <1>2 DEF CfgInv, CfgTypeInv, PlacesInv, PcOf, SelfHalt
  <2>11. LoadedInv'  BY <1>2 DEF CfgInv, CfgTypeInv, PlacesInv, PcOf, LoadedInv, Moving, SelfHalt
  <2>12. EphemeralInv'  BY <1>2 DEF CfgInv, CfgTypeInv, PlacesInv, PcOf, LoadedInv, Moving, EphemeralInv, SelfHalt
  <2>13. LimitInv'  BY <1>2 DEF CfgInv, CfgTypeInv, PlacesInv, PcOf, LoadedInv, Moving, LimitInv, Applied, SelfHalt
  <2>14. WalkInv'  BY <1>2 DEF CfgInv, CfgTypeInv, PlacesInv, PcOf, LoadedInv, Moving, WalkInv, Clean, Unrecorded, Walking, Pair, SelfHalt
  <2> QED  BY <2>10, <2>11, <2>12, <2>13, <2>14 DEF CfgInv
<1>3. CASE Die
  <2>10. CfgTypeInv'  BY <1>3 DEF CfgInv, CfgTypeInv, PlacesInv, PcOf, Die
  <2>11. LoadedInv'  BY <1>3 DEF CfgInv, CfgTypeInv, PlacesInv, PcOf, LoadedInv, Moving, Die
  <2>12. EphemeralInv'  BY <1>3 DEF CfgInv, CfgTypeInv, PlacesInv, PcOf, LoadedInv, Moving, EphemeralInv, Die
  <2>13. LimitInv'
    <3>1. /\ UNCHANGED <<row, inst>> /\ UNION {Lag(r) : r \in Client} \subseteq marks' /\ marks \subseteq marks'
          /\ \A r \in Client : reqs'[r] = Resting
      BY <1>3 DEF Die
    <3>2. \A r \in Client : inst # Nobody /\ Applied(r) => "lag" \in Lag(r)  BY DEF Applied, Lag
    <3>3. inst # Nobody /\ "lag" \notin marks' => \A r \in Client : ~Applied(r)  BY <3>1, <3>2
    <3>4. \A r \in Client : ~Applied(r)'  BY <3>1 DEF Applied
    <3> QED  BY <3>1, <3>3, <3>4 DEF CfgInv, LimitInv
  <2>14. WalkInv'
    <3>1. /\ UNCHANGED <<row, inst>> /\ marks \subseteq marks' /\ files' = UNION {Halfway(r) : r \in Client}
          /\ torn' = torn \cup {Pair(reqs[r].s) : r \in {q \in Client : Unrecorded(q)}}
          /\ \A r \in Client : reqs'[r] = Resting
      BY <1>3 DEF Die
    <3>2. \A r \in Client : ~Walking(r)' /\ ~Unrecorded(r)' /\ ~At(r, "fork")'
      BY <3>1 DEF Unrecorded, Walking
    <3>3. \A r \in Client : Unrecorded(r) => reqs[r].s.next # reqs[r].s.last /\ inst = Nobody /\ Moving(r)
      BY AloneFact DEF CfgInv, WalkInv, LoadedInv, Unrecorded, Walking, PcOf
    <3>4. \A p \in torn' : p[1] # p[2]  BY <3>1, <3>3 DEF CfgInv, WalkInv, Pair
    <3>5. CASE \A r \in Client : ~Unrecorded(r)
      <4>1. torn' = torn  BY <3>1, <3>5
      <4>2. \A r \in Client : Halfway(r) = files  BY <3>5 DEF Halfway, Unrecorded
      <4>3. files' = files  BY <3>1, <4>2, ContainerConfigAssumption
      <4> QED  BY <3>1, <3>2, <3>4, <3>5, <4>1, <4>3 DEF CfgInv, WalkInv
    <3>6. ASSUME NEW r \in Client, Unrecorded(r) PROVE WalkInv'
      <4>1. \A q \in Client \ {r} : ~Unrecorded(q)  BY <3>3, <3>6 DEF CfgInv, LoadedInv
      <4>2. torn' = torn \cup {Pair(reqs[r].s)}  BY <3>1, <3>6, <4>1
      <4>3. \A q \in Client \ {r} : Halfway(q) = files  BY <4>1 DEF Halfway, Unrecorded
      <4>4. files \subseteq Halfway(r)  BY DEF Halfway
      <4>5. files' = Halfway(r)  BY <3>1, <4>3, <4>4
      <4>6. inst = Nobody  BY <3>3, <3>6
      <4>7. ASSUME row # Nobody, marks \cap {"stale", "spoiled"} = {}, NEW p \in torn', torn' = {p}, Resumable(p)
            PROVE  files' # {} /\ files' \subseteq {p[1], "raw", p[2]}
        <5>1. p = Pair(reqs[r].s) /\ torn \subseteq {p}  BY <4>2, <4>7
        <5> QED  BY <3>6, <4>5, <4>7, <5>1, CutFact DEF Pair
      <4>8. torn' # {}  BY <4>2
      <4> QED  BY <3>1, <3>2, <3>4, <4>6, <4>7, <4>8 DEF WalkInv
    <3> QED  BY <3>5, <3>6
  <2> QED  BY <2>10, <2>11, <2>12, <2>13, <2>14 DEF CfgInv
<1>4. ASSUME NEW h \in hooks, OnStop(h) PROVE CfgInv'
  <2>10. CfgTypeInv'  BY <1>4 DEF CfgInv, CfgTypeInv, PlacesInv, PcOf, OnStop
  <2>11. LoadedInv'  BY <1>4 DEF CfgInv, CfgTypeInv, PlacesInv, PcOf, LoadedInv, Moving, OnStop
  <2>12. EphemeralInv'  BY <1>4 DEF CfgInv, CfgTypeInv, PlacesInv, PcOf, LoadedInv, Moving, EphemeralInv, OnStop
  <2>13. LimitInv'  BY <1>4 DEF CfgInv, CfgTypeInv, PlacesInv, PcOf, LoadedInv, Moving, LimitInv, Applied, OnStop
  <2>14. WalkInv'  BY <1>4 DEF CfgInv, CfgTypeInv, PlacesInv, PcOf, LoadedInv, Moving, WalkInv, Clean, Unrecorded, Walking, Pair, OnStop
  <2> QED  BY <2>10, <2>11, <2>12, <2>13, <2>14 DEF CfgInv
<1>5. ASSUME NEW r \in Client, NEW job \in {"update", "start", "stop", "restart"}, Load(r, job) PROVE CfgInv'
  <2>10. CfgTypeInv'
    <3>1. row # Nobody /\ row \in Rows  BY <1>5 DEF Load, CfgInv, CfgTypeInv
    <3>2. PICK s \in Rows : reqs' = [reqs EXCEPT ![r] = [job |-> job, pc |-> First(job, s), s |-> s,
                                                        lim |-> row.lim, fresh |-> TRUE]]
      BY <1>5, <3>1 DEF Load, Rows
    <3>3. /\ First(job, s) \in PcOf
          /\ job = "update" => First(job, s) = "live"
          /\ job = "start" => First(job, s) = "walk"
          /\ job = "stop" => First(job, s) = "stop"
          /\ job = "restart" => First(job, s) \in {"unset", "stop"}
      BY DEF First, PcOf
    <3>4. row.lim \in Limits  BY <3>1 DEF Rows
    <3>5. /\ reqs' \in [Client -> Asks] /\ \A q \in Client \ {r} : reqs'[q] = reqs[q]
          /\ reqs'[r].job = job /\ reqs'[r].pc = First(job, s) /\ reqs'[r].s = s /\ reqs'[r].lim = row.lim
      BY <3>2, <3>3, <3>4 DEF CfgInv, CfgTypeInv, Asks
    <3>6. UNCHANGED <<row, born>>  BY <1>5 DEF Load
    <3> QED  BY <3>3, <3>4, <3>5, <3>6 DEF CfgInv, CfgTypeInv, PlacesInv, PcOf
  <2>11. LoadedInv'  BY <1>5 DEF CfgInv, CfgTypeInv, PlacesInv, PcOf, LoadedInv, Moving, Load, First, Free, Resting, Asks, Rows
  <2>12. EphemeralInv'  BY <1>5 DEF CfgInv, CfgTypeInv, PlacesInv, PcOf, LoadedInv, Moving, EphemeralInv, Load, First, Free, Resting, Asks, Rows
  <2>13. LimitInv'  BY <1>5 DEF CfgInv, CfgTypeInv, PlacesInv, PcOf, LoadedInv, Moving, LimitInv, Applied, Load, First, Free, Resting, Asks, Rows
  <2>14. WalkInv'  BY <1>5 DEF CfgInv, CfgTypeInv, PlacesInv, PcOf, LoadedInv, Moving, WalkInv, Clean, Unrecorded, Walking, Pair, Load, First, Free, Resting, Asks, Rows
  <2> QED  BY <2>10, <2>11, <2>12, <2>13, <2>14 DEF CfgInv
<1>6. ASSUME NEW r \in Client, ApplyLive(r) PROVE CfgInv'
  <2>1. "commit" \in PcOf  BY DEF PcOf
  <2>2. /\ reqs' \in [Client -> Asks] /\ \A q \in Client \ {r} : reqs'[q] = reqs[q]
        /\ reqs'[r].pc = "commit" /\ reqs'[r].job = reqs[r].job /\ reqs'[r].s = reqs[r].s
        /\ reqs'[r].lim = reqs[r].lim /\ reqs'[r].fresh = reqs[r].fresh
    BY <1>6, <2>1, GotoFact DEF CfgInv, ApplyLive
  <2>10. CfgTypeInv'  BY <1>6, <2>1, <2>2 DEF CfgInv, CfgTypeInv, PlacesInv, PcOf, ApplyLive
  <2>11. LoadedInv'  BY <1>6, <2>1, <2>2 DEF CfgInv, CfgTypeInv, PlacesInv, PcOf, LoadedInv, Moving, ApplyLive
  <2>12. EphemeralInv'  BY <1>6, <2>1, <2>2 DEF CfgInv, CfgTypeInv, PlacesInv, PcOf, LoadedInv, Moving, EphemeralInv, ApplyLive
  <2>13. LimitInv'  BY <1>6, <2>1, <2>2 DEF CfgInv, CfgTypeInv, PlacesInv, PcOf, LoadedInv, Moving, LimitInv, Applied, ApplyLive
  <2>14. WalkInv'  BY <1>6, <2>1, <2>2 DEF CfgInv, CfgTypeInv, PlacesInv, PcOf, LoadedInv, Moving, WalkInv, Clean, Unrecorded, Walking, Pair, ApplyLive
  <2> QED  BY <2>10, <2>11, <2>12, <2>13, <2>14 DEF CfgInv
<1>7. ASSUME NEW r \in Client, Commit(r) PROVE CfgInv'
  <2> DEFINE w == reqs[r].s
  <2>1. reqs[r].job # "none" /\ w \in Rows /\ "idle" \in PcOf
    BY <1>7, RestingFact DEF CfgInv, CfgTypeInv, PlacesInv, PcOf, Rows, At, Commit
  <2>2. Write(r, w, "idle")  BY <1>7 DEF Commit
  <2>3. /\ row # Nobody /\ row' = w /\ reqs' \in [Client -> Asks]
        /\ \A q \in Client \ {r} :
             /\ reqs'[q].job = reqs[q].job /\ reqs'[q].pc = reqs[q].pc /\ reqs'[q].s = reqs[q].s
             /\ reqs'[q].lim = reqs[q].lim
             /\ reqs[q] = Resting => reqs'[q] = Resting
             /\ reqs[q] # Resting => ~reqs'[q].fresh
        /\ reqs'[r] = Resting
    BY <2>1, <2>2, WriteFact DEF CfgInv
  <2>10. CfgTypeInv'  BY <1>7, <2>1, <2>2, <2>3 DEF CfgInv, CfgTypeInv, PlacesInv, PcOf, Commit
  <2>11. LoadedInv'  BY <1>7, <2>1, <2>2, <2>3 DEF CfgInv, CfgTypeInv, PlacesInv, PcOf, LoadedInv, Moving, Commit, Stale
  <2>12. EphemeralInv'  BY <1>7, <2>1, <2>2, <2>3 DEF CfgInv, CfgTypeInv, PlacesInv, PcOf, LoadedInv, Moving, EphemeralInv, Commit, Stale
  <2>13. LimitInv'
    <3> SUFFICES ASSUME inst' # Nobody, row' # Nobody, marks' \cap {"stale", "lag"} = {}
                 PROVE  /\ inst'.lim = row'.lim \/ \E q \in Client : Applied(q)'
                        /\ \A q \in Client : Applied(q)' /\ reqs'[q].fresh =>
                             inst'.lim = reqs'[q].s.lim \/ \E p \in Client \ {q} : Applied(p)'
      BY DEF LimitInv
    <3>1. /\ inst' = inst /\ inst # Nobody /\ marks \cap {"stale", "lag"} = {} /\ reqs[r].fresh
      BY <1>7 DEF Commit, Stale
    <3>2. \A q \in Client : Applied(q)' => q # r /\ Applied(q) /\ ~reqs'[q].fresh
      BY <2>3 DEF Applied
    <3>3. \A q \in Client \ {r} : Applied(q) => Applied(q)'  BY <2>3 DEF Applied
    <3>4. reqs[r].job = "update" /\ reqs[r].lim = row.lim
      <4>1. reqs[r].job = "update"  BY <1>7, PlaceFact DEF Commit, CfgInv
      <4> QED  BY <2>3, <3>1, <4>1 DEF CfgInv, LoadedInv
    <3>5. CASE Applied(r)
      BY <2>3, <3>1, <3>2, <3>3, <3>5 DEF CfgInv, LimitInv
    <3>6. CASE ~Applied(r)
      <4>1. row'.lim = row.lim  BY <1>7, <2>3, <3>4, <3>6 DEF Applied, Commit
      <4> QED  BY <2>3, <3>1, <3>2, <3>3, <3>6, <4>1 DEF CfgInv, LimitInv
    <3> QED  BY <3>5, <3>6
  <2>14. WalkInv'  BY <1>7, <2>1, <2>2, <2>3 DEF CfgInv, CfgTypeInv, PlacesInv, PcOf, LoadedInv, Moving, WalkInv, Clean, Unrecorded, Walking, Pair, Commit, Stale
  <2> QED  BY <2>10, <2>11, <2>12, <2>13, <2>14 DEF CfgInv
<1>8. ASSUME NEW r \in Client, UpdateFails(r) PROVE CfgInv'
  <2>2. /\ reqs' \in [Client -> Asks] /\ \A q \in Client \ {r} : reqs'[q] = reqs[q]
        /\ reqs'[r] = Resting
    BY <1>8, AnswerFact DEF CfgInv, UpdateFails
  <2>10. CfgTypeInv'  BY <1>8, <2>2 DEF CfgInv, CfgTypeInv, PlacesInv, PcOf, UpdateFails
  <2>11. LoadedInv'  BY <1>8, <2>2 DEF CfgInv, CfgTypeInv, PlacesInv, PcOf, LoadedInv, Moving, UpdateFails, Lag
  <2>12. EphemeralInv'  BY <1>8, <2>2 DEF CfgInv, CfgTypeInv, PlacesInv, PcOf, LoadedInv, Moving, EphemeralInv, UpdateFails, Lag
  <2>13. LimitInv'  BY <1>8, <2>2 DEF CfgInv, CfgTypeInv, PlacesInv, PcOf, LoadedInv, Moving, LimitInv, Applied, UpdateFails, Lag
  <2>14. WalkInv'  BY <1>8, <2>2 DEF CfgInv, CfgTypeInv, PlacesInv, PcOf, LoadedInv, Moving, WalkInv, Clean, Unrecorded, Walking, Pair, UpdateFails, Lag
  <2> QED  BY <2>10, <2>11, <2>12, <2>13, <2>14 DEF CfgInv
<1>9. ASSUME NEW r \in Client, StartCommon(r) PROVE CfgInv'
  <2> DEFINE l == IF reqs[r].s.next = reqs[r].s.last THEN "key" ELSE "unshift"
  <2>1. l \in PcOf  BY DEF PcOf
  <2>2. /\ reqs' \in [Client -> Asks] /\ \A q \in Client \ {r} : reqs'[q] = reqs[q]
        /\ reqs'[r].pc = l /\ reqs'[r].job = reqs[r].job /\ reqs'[r].s = reqs[r].s
        /\ reqs'[r].lim = reqs[r].lim /\ reqs'[r].fresh = reqs[r].fresh
    BY <1>9, <2>1, GotoFact DEF CfgInv, StartCommon
  <2>10. CfgTypeInv'  BY <1>9, <2>1, <2>2 DEF CfgInv, CfgTypeInv, PlacesInv, PcOf, StartCommon
  <2>11. LoadedInv'  BY <1>9, <2>1, <2>2 DEF CfgInv, CfgTypeInv, PlacesInv, PcOf, LoadedInv, Moving, StartCommon
  <2>12. EphemeralInv'  BY <1>9, <2>1, <2>2 DEF CfgInv, CfgTypeInv, PlacesInv, PcOf, LoadedInv, Moving, EphemeralInv, StartCommon
  <2>13. LimitInv'  BY <1>9, <2>1, <2>2 DEF CfgInv, CfgTypeInv, PlacesInv, PcOf, LoadedInv, Moving, LimitInv, Applied, StartCommon
  <2>14. WalkInv'
    <3>1. UNCHANGED <<row, inst, marks, torn, files>> /\ At(r, "walk") /\ inst = Nobody
      BY <1>9 DEF StartCommon, CfgInv, LoadedInv
    <3>2. Moving(r) /\ \A q \in Client \ {r} : ~Unrecorded(q) /\ reqs[q].pc \in {"idle", "live", "commit"}
      <4>1. reqs[r].pc \in PcOf \ {"idle", "live", "commit"}  BY <3>1 DEF PcOf
      <4> QED  BY <4>1, AloneFact
    <3>3. \A q \in Client : ~Unrecorded(q) /\ ~At(q, "fork")
      BY <3>1, <3>2 DEF Walking, Unrecorded
    <3>4. \A q \in Client : ~At(q, "fork")' /\ ~At(q, "shift")' /\ (At(q, "unshift") \/ Unrecorded(q))' =>
            q = r /\ reqs'[r].pc = "unshift" /\ reqs[r].s.next # reqs[r].s.last
      BY <2>2, <3>1, <3>3 DEF Walking, Unrecorded
    <3>5. \A q \in Client : ~At(q, "fork")' /\ ~At(q, "shift")'  BY <2>2, <3>1, <3>3 DEF Unrecorded, Walking
    <3>6. ASSUME row # Nobody, marks \cap {"stale", "spoiled"} = {}, Clean(Pair(reqs[r].s))
          PROVE  /\ files # {} /\ files \subseteq {reqs[r].s.last, "raw", reqs[r].s.next}
                 /\ torn = {} => files = {reqs[r].s.last}
      <4>1. reqs[r].s.last = row.last  BY <3>2, <3>6 DEF CfgInv, LoadedInv
      <4> QED  BY <3>3, <3>6, <4>1 DEF CfgInv, WalkInv, Clean, Pair
    <3>7. Clean(Pair(reqs[r].s))' => Clean(Pair(reqs[r].s))  BY <2>2, <3>1 DEF Clean, Resumable, Pair
    <3>8. \A q \in Client : Walking(q)' => reqs'[q].s.next # reqs'[q].s.last
      BY <2>2, <3>4, <3>5 DEF Walking
    <3> QED
      BY <2>2, <3>1, <3>3, <3>4, <3>5, <3>6, <3>7, <3>8 DEF CfgInv, WalkInv
  <2> QED  BY <2>10, <2>11, <2>12, <2>13, <2>14 DEF CfgInv
<1>10. ASSUME NEW r \in Client, Walk(r) PROVE CfgInv'
  <2> DEFINE l == IF At(r, "unshift") THEN "shift" ELSE "key"
  <2>1. l \in PcOf  BY DEF PcOf
  <2>2. /\ reqs' \in [Client -> Asks] /\ \A q \in Client \ {r} : reqs'[q] = reqs[q]
        /\ reqs'[r].pc = l /\ reqs'[r].job = reqs[r].job /\ reqs'[r].s = reqs[r].s
        /\ reqs'[r].lim = reqs[r].lim /\ reqs'[r].fresh = reqs[r].fresh
    BY <1>10, <2>1, GotoFact DEF CfgInv, Walk
  <2>10. CfgTypeInv'  BY <1>10, <2>1, <2>2 DEF CfgInv, CfgTypeInv, PlacesInv, PcOf, Walk, Walked, Walking
  <2>11. LoadedInv'  BY <1>10, <2>1, <2>2 DEF CfgInv, CfgTypeInv, PlacesInv, PcOf, LoadedInv, Moving, Walk, Walked, Walking
  <2>12. EphemeralInv'  BY <1>10, <2>1, <2>2 DEF CfgInv, CfgTypeInv, PlacesInv, PcOf, LoadedInv, Moving, EphemeralInv, Walk, Walked, Walking
  <2>13. LimitInv'  BY <1>10, <2>1, <2>2 DEF CfgInv, CfgTypeInv, PlacesInv, PcOf, LoadedInv, Moving, LimitInv, Applied, Walk, Walked, Walking
  <2>14. WalkInv'
    <3>1. /\ UNCHANGED <<row, inst, marks, torn>> /\ files' = Walked(r) /\ Walking(r)
      BY <1>10 DEF Walk
    <3>2. reqs[r].s.next # reqs[r].s.last /\ inst = Nobody /\ Unrecorded(r)
      BY <3>1 DEF CfgInv, WalkInv, LoadedInv, Unrecorded, Walking
    <3>3. \A q \in Client \ {r} : ~Walking(q)' /\ ~Unrecorded(q)' /\ ~At(q, "fork")'
      <4>1. reqs[r].pc \in PcOf \ {"idle", "live", "commit"}  BY <3>1 DEF PcOf, Walking
      <4>2. \A q \in Client \ {r} : reqs[q].pc \in {"idle", "live", "commit"}  BY <4>1, AloneFact
      <4> QED  BY <2>2, <4>2 DEF Walking, Unrecorded
    <3>4. Unrecorded(r)' /\ Pair(reqs[r].s)' = Pair(reqs[r].s) /\ ~At(r, "fork")'
      BY <2>2, <3>1, <3>2 DEF Unrecorded, Walking, Pair
    <3>5. ASSUME row # Nobody, marks \cap {"stale", "spoiled"} = {}, Clean(Pair(reqs[r].s))
          PROVE  /\ files' # {}
                 /\ At(r, "shift")' => files' \subseteq {"raw", reqs[r].s.next}
                 /\ At(r, "shift")' /\ torn = {} => files' = {"raw"}
                 /\ At(r, "key")' => files' = {reqs[r].s.next}
      <4>1. CASE At(r, "unshift")
        <5>1. reqs'[r].pc = "shift" /\ files' = Unshifted(files, reqs[r].s.last)
          BY <2>2, <3>1, <4>1 DEF Walked
        <5>2. CASE torn = {}
          <6>1. files = {reqs[r].s.last}  BY <3>2, <3>5, <4>1, <5>2 DEF CfgInv, WalkInv
          <6> QED  BY <5>1, <6>1, UnshiftOne
        <5>3. CASE torn # {}
          <6>1. /\ torn = {Pair(reqs[r].s)} /\ Resumable(Pair(reqs[r].s)) /\ files # {}
                /\ files \subseteq {reqs[r].s.last, "raw", reqs[r].s.next}
            BY <3>2, <3>5, <4>1, <5>3 DEF CfgInv, WalkInv, Clean
          <6>2. <<reqs[r].s.next, reqs[r].s.last>> \notin Within /\ <<"raw", reqs[r].s.last>> \notin Within
            BY <6>1 DEF Resumable, Pair
          <6> QED  BY <5>1, <5>3, <6>1, <6>2, UnshiftAgain
        <5> QED  BY <5>2, <5>3
      <4>2. CASE At(r, "shift")
        <5>1. reqs'[r].pc = "key" /\ files' = Shifted(files, reqs[r].s.next)
          BY <2>2, <3>1, <4>2 DEF Walked
        <5>2. files # {} /\ files \subseteq {"raw", reqs[r].s.next}
          BY <3>2, <3>5, <4>2 DEF CfgInv, WalkInv
        <5>3. files = {"raw"} \/ reqs[r].s.next \notin Wide
          BY <3>2, <3>5, <4>2 DEF CfgInv, WalkInv, Clean, Resumable, Pair
        <5>4. files' = {reqs[r].s.next}  BY <5>1, <5>2, <5>3, ShiftAll
        <5> QED  BY <5>1, <5>4
      <4> QED  BY <3>1, <4>1, <4>2 DEF Walking
    <3>6. ~At(r, "unshift")'  BY <2>2
    <3>7. \A q \in Client : Walking(q)' => reqs'[q].s.next # reqs'[q].s.last
      BY <2>2, <3>2, <3>3
    <3>8. Clean(Pair(reqs[r].s))' => Clean(Pair(reqs[r].s))  BY <3>1, <3>4 DEF Clean, Resumable
    <3>9. /\ \A p \in torn' : p[1] # p[2] /\ \A q \in Client : ~At(q, "fork")'
          /\ ~(\A q \in Client : ~Unrecorded(q)')
      BY <3>1, <3>3, <3>4 DEF CfgInv, WalkInv
    <3>10. \A q \in Client : Unrecorded(q)' => q = r  BY <3>3
    <3> QED
      BY <2>2, <3>1, <3>2, <3>3, <3>4, <3>5, <3>6, <3>7, <3>8, <3>9, <3>10, CfgInv DEF CfgInv, WalkInv
  <2> QED  BY <2>10, <2>11, <2>12, <2>13, <2>14 DEF CfgInv
<1>11. ASSUME NEW r \in Client, RecordLast(r) PROVE CfgInv'
  <2> DEFINE w == [reqs[r].s EXCEPT !.last = reqs[r].s.next]
  <2>1. reqs[r].job # "none" /\ w \in Rows /\ "fork" \in PcOf
    BY <1>11, RestingFact DEF CfgInv, CfgTypeInv, PlacesInv, PcOf, Rows, At, RecordLast
  <2>2. Write(r, w, "fork")  BY <1>11 DEF RecordLast
  <2>3. /\ row # Nobody /\ row' = w /\ reqs' \in [Client -> Asks]
        /\ \A q \in Client \ {r} :
             /\ reqs'[q].job = reqs[q].job /\ reqs'[q].pc = reqs[q].pc /\ reqs'[q].s = reqs[q].s
             /\ reqs'[q].lim = reqs[q].lim
             /\ reqs[q] = Resting => reqs'[q] = Resting
             /\ reqs[q] # Resting => ~reqs'[q].fresh
        /\ reqs'[r].pc = "fork" /\ reqs'[r].s = w /\ reqs'[r].job = reqs[r].job
        /\ reqs'[r].lim = reqs[r].lim /\ reqs'[r].fresh = reqs[r].fresh
    BY <2>1, <2>2, WriteFact DEF CfgInv
  <2>4. /\ Moving(r) /\ reqs[r].s \in Rows
        /\ \A q \in Client \ {r} : /\ ~Moving(q) /\ ~Unrecorded(q) /\ ~Walking(q)
                                   /\ reqs[q].pc \in {"idle", "live", "commit"}
    <3>1. reqs[r].pc \in PcOf \ {"idle", "live", "commit"}  BY <1>11 DEF PcOf, RecordLast
    <3> QED  BY <3>1, AloneFact
  <2>5. w.last = reqs[r].s.next /\ w.next = reqs[r].s.next /\ w.lim = reqs[r].s.lim /\ w.eph = reqs[r].s.eph
    BY <1>11, <2>4 DEF Moving, CfgInv, CfgTypeInv, PlacesInv, Rows
  <2>10. CfgTypeInv'  BY <1>11, <2>1, <2>3, <2>4, <2>5 DEF CfgInv, CfgTypeInv, PlacesInv, PcOf, RecordLast
  <2>11. LoadedInv'
    <3>1. inst' = inst /\ Moving(r)' /\ reqs[r].job = reqs'[r].job
      BY <1>11, <2>3, <2>4 DEF RecordLast, Moving
    <3>2. \A q \in Client \ {r} : ~Moving(q)' /\ (reqs'[q].job = "none" \/ ~reqs'[q].fresh)
      BY <2>3, <2>4, RestingFact DEF Moving
    <3>3. \A q \in Client : reqs'[q].pc \in {"wait", "walk", "unshift", "shift", "key", "fork"} => inst = Nobody
      BY <1>11, <2>3, <2>4 DEF RecordLast, CfgInv, LoadedInv
    <3>4. reqs'[r].s = row'  BY <2>3
    <3>5. reqs'[r].job # "update"  BY <3>1 DEF Moving
    <3> QED  BY <3>1, <3>2, <3>3, <3>4, <3>5 DEF LoadedInv
  <2>12. EphemeralInv'
    <3>1. UNCHANGED <<born, hooks>> /\ marks \subseteq marks' /\ ("stale" \notin marks' => reqs[r].fresh) /\ At(r, "key")
      BY <1>11 DEF RecordLast, Stale
    <3>9. \A q \in Client \ {r} : reqs[q].job # "restart" /\ reqs'[q].job # "restart" /\ reqs'[q].pc \notin {"unset", "reset"}
      BY <2>3, <2>4 DEF Moving
    <3>2. "stale" \notin marks' => reqs[r].s.eph = row.eph
      BY <2>3, <2>4, <3>1 DEF CfgInv, LoadedInv, Moving
    <3>3. row'.eph = reqs[r].s.eph /\ reqs'[r].s.eph = reqs[r].s.eph  BY <2>3, <2>5
    <3>4. reqs[r].job # "none" /\ (reqs[r].job = "restart" => ~reqs[r].s.eph)
      BY <2>1, <3>1 DEF CfgInv, EphemeralInv
    <3>5. /\ \A q \in Client : reqs'[q].job = "restart" => q = r
          /\ \A q \in Client : reqs'[q].pc \notin {"unset", "reset"}
          /\ reqs'[r].job = reqs[r].job
          /\ \A q \in Client : reqs[q].job = "restart" => q = r
      BY <2>3, <3>9
    <3>6. row # Nobody  BY <2>3
    <3>7. ASSUME marks' \cap {"stale", "slip"} = {}, reqs[r].job = "restart" => reqs[r].s.eph = born
          PROVE  row'.eph = born
      <4>1. marks \cap {"stale", "slip"} = {} /\ row.eph = row'.eph  BY <3>1, <3>2, <3>3, <3>7
      <4>2. \A q \in Client : reqs[q].job = "restart" => reqs[q].s.eph = born  BY <3>5, <3>7
      <4> QED  BY <3>6, <4>1, <4>2 DEF CfgInv, EphemeralInv
    <3>8. "stale" \notin marks' => \A h \in hooks' : h.why = "restart" => ~h.eph
      BY <3>1 DEF CfgInv, EphemeralInv
    <3> QED  BY <3>1, <3>3, <3>4, <3>5, <3>7, <3>8 DEF EphemeralInv
  <2>13. LimitInv'
    <3>1. inst' = inst /\ (marks' \cap {"stale", "lag"} = {} => marks \cap {"stale", "lag"} = {} /\ reqs[r].fresh)
      BY <1>11 DEF RecordLast, Stale
    <3>2. reqs[r].fresh => row'.lim = row.lim
      BY <2>3, <2>4, <2>5 DEF CfgInv, LoadedInv, Moving
    <3>3. \A q \in Client : Applied(q)' <=> Applied(q) /\ q # r
      BY <1>11, <2>3 DEF Applied, RecordLast
    <3>4. ~Applied(r)  BY <1>11 DEF Applied, RecordLast
    <3>5. \A q \in Client : Applied(q)' => ~reqs'[q].fresh  BY <2>3, <3>3 DEF Applied
    <3> QED  BY <2>3, <3>1, <3>2, <3>3, <3>4, <3>5 DEF CfgInv, LimitInv
  <2>14. WalkInv'
    <3> DEFINE made == {p \in torn : p = Pair(reqs[r].s) /\ Resumable(p)}
    <3>1. /\ UNCHANGED <<inst, files>> /\ At(r, "key") /\ torn' = torn \ made /\ marks \subseteq marks'
          /\ marks' \cap {"stale", "spoiled"} = {} => torn = made
      BY <1>11 DEF RecordLast
    <3>2. inst = Nobody  BY <3>1 DEF CfgInv, LoadedInv
    <3>3. \A q \in Client : ~Walking(q)' /\ ~Unrecorded(q)' /\ (At(q, "fork")' => q = r)
      BY <2>3, <2>4 DEF Walking, Unrecorded
    <3>4. \A p \in torn' : p[1] # p[2]  BY <3>1 DEF CfgInv, WalkInv
    <3>5. ASSUME marks' \cap {"stale", "spoiled"} = {}
          PROVE  torn' = {} /\ files' = {row'.last}
      <4>1. torn' = {} /\ Clean(Pair(reqs[r].s)) /\ marks \cap {"stale", "spoiled"} = {}
        BY <3>1, <3>5 DEF Clean
      <4>2. reqs[r].s.last = row.last  BY <2>3, <2>4, <4>1 DEF CfgInv, LoadedInv
      <4>3. CASE reqs[r].s.next # reqs[r].s.last
        <5>1. Unrecorded(r)  BY <3>1, <4>3 DEF Unrecorded
        <5> QED  BY <2>3, <2>5, <3>1, <4>1, <5>1 DEF CfgInv, WalkInv
      <4>4. CASE reqs[r].s.next = reqs[r].s.last
        <5>1. \A q \in Client : ~Unrecorded(q)
          BY <2>4, <3>1, <4>4 DEF Walking, Unrecorded
        <5>2. torn = {}  BY <3>1, <3>5, <4>4 DEF Pair, CfgInv, WalkInv
        <5> QED  BY <2>3, <2>5, <3>1, <4>1, <4>2, <4>4, <5>1, <5>2 DEF CfgInv, WalkInv
      <4> QED  BY <4>3, <4>4
    <3>6. reqs'[r].s.next = reqs'[r].s.last  BY <2>3, <2>5
    <3> QED  BY <3>1, <3>2, <3>3, <3>4, <3>5, <3>6 DEF WalkInv
  <2> QED  BY <2>10, <2>11, <2>12, <2>13, <2>14 DEF CfgInv
<1>12. ASSUME NEW r \in Client, Fork(r) PROVE CfgInv'
  <2>2. /\ reqs' \in [Client -> Asks] /\ \A q \in Client \ {r} : reqs'[q] = reqs[q]
        /\ \/ reqs'[r] = Resting /\ ~(reqs[r].job = "restart" /\ reqs[r].s.eph # born)
           \/ /\ reqs[r].job = "restart" /\ reqs[r].s.eph # born
              /\ reqs'[r].pc = "reset" /\ reqs'[r].job = reqs[r].job /\ reqs'[r].s = reqs[r].s
              /\ reqs'[r].lim = reqs[r].lim /\ reqs'[r].fresh = reqs[r].fresh
    BY <1>12, FinishFact DEF CfgInv, Fork
  <2>4. /\ Moving(r) /\ reqs[r].s \in Rows
        /\ \A q \in Client \ {r} : /\ ~Moving(q) /\ ~Unrecorded(q) /\ ~Walking(q)
                                   /\ reqs[q].pc \in {"idle", "live", "commit"}
    <3>1. reqs[r].pc \in PcOf \ {"idle", "live", "commit"}  BY <1>12 DEF PcOf, Fork
    <3> QED  BY <3>1, AloneFact
  <2>10. CfgTypeInv'  BY <1>12, <2>2, <2>4 DEF CfgInv, CfgTypeInv, PlacesInv, PcOf, Fork
  <2>11. LoadedInv'
    <3>1. row' = row /\ (marks' \cap {"stale"} = {} => marks \cap {"stale"} = {})
      BY <1>12 DEF Fork
    <3>2. \A q \in Client : reqs'[q].pc \notin {"wait", "walk", "unshift", "shift", "key", "fork"}
      BY <2>2, <2>4
    <3> QED  BY <2>2, <2>4, <3>1, <3>2 DEF CfgInv, CfgTypeInv, PlacesInv, LoadedInv, Moving
  <2>12. EphemeralInv'  BY <1>12, <2>2, <2>4 DEF CfgInv, CfgTypeInv, PlacesInv, PcOf, LoadedInv, Moving, EphemeralInv, Fork, Stale
  <2>13. LimitInv'
    <3> SUFFICES ASSUME row' # Nobody, marks' \cap {"stale", "lag"} = {}
                 PROVE  inst'.lim = row'.lim /\ \A q \in Client : ~Applied(q)'
      BY DEF LimitInv
    <3>1. /\ row' = row /\ inst'.lim = reqs[r].s.lim /\ reqs[r].fresh
          /\ \A q \in Client : ~At(q, "commit")
      BY <1>12 DEF Fork, Stale
    <3>2. reqs[r].s.lim = row.lim  BY <2>4, <3>1 DEF CfgInv, LoadedInv, Moving
    <3>3. \A q \in Client : ~Applied(q)'  BY <2>2, <3>1 DEF Applied
    <3> QED  BY <3>1, <3>2, <3>3
  <2>14. WalkInv'
    <3>1. /\ UNCHANGED <<row, files, torn>> /\ inst'.map = reqs[r].s.next
          /\ (marks' \cap {"stale", "spoiled"} = {} => marks \cap {"stale", "spoiled"} = {})
      BY <1>12 DEF Fork
    <3>2. reqs[r].s.next = reqs[r].s.last  BY <1>12 DEF Fork, CfgInv, WalkInv
    <3>3. \A q \in Client : ~Walking(q)' /\ ~Unrecorded(q)' /\ ~At(q, "fork")'
      BY <2>2, <2>4 DEF Unrecorded, Walking
    <3>4. \A q \in Client : ~Unrecorded(q)
      BY <1>12, <2>4 DEF Fork, Unrecorded, Walking
    <3>5. row # Nobody /\ marks \cap {"stale", "spoiled"} = {} => torn = {} /\ reqs[r].s.last = row.last
      BY <1>12, <2>4 DEF Fork, CfgInv, WalkInv, LoadedInv
    <3> QED  BY <3>1, <3>2, <3>3, <3>4, <3>5 DEF CfgInv, WalkInv
  <2> QED  BY <2>10, <2>11, <2>12, <2>13, <2>14 DEF CfgInv
<1>13. ASSUME NEW r \in Client, StartFails(r) PROVE CfgInv'
  <2>2. /\ reqs' \in [Client -> Asks] /\ \A q \in Client \ {r} : reqs'[q] = reqs[q]
        /\ \/ reqs'[r] = Resting /\ ~(reqs[r].job = "restart" /\ reqs[r].s.eph # born)
           \/ /\ reqs[r].job = "restart" /\ reqs[r].s.eph # born
              /\ reqs'[r].pc = "reset" /\ reqs'[r].job = reqs[r].job /\ reqs'[r].s = reqs[r].s
              /\ reqs'[r].lim = reqs[r].lim /\ reqs'[r].fresh = reqs[r].fresh
    BY <1>13, FinishFact DEF CfgInv, StartFails
  <2>10. CfgTypeInv'  BY <1>13, <2>2 DEF CfgInv, CfgTypeInv, PlacesInv, PcOf, StartFails
  <2>11. LoadedInv'  BY <1>13, <2>2 DEF CfgInv, CfgTypeInv, PlacesInv, PcOf, LoadedInv, Moving, StartFails
  <2>12. EphemeralInv'  BY <1>13, <2>2 DEF CfgInv, CfgTypeInv, PlacesInv, PcOf, LoadedInv, Moving, EphemeralInv, StartFails
  <2>13. LimitInv'  BY <1>13, <2>2 DEF CfgInv, CfgTypeInv, PlacesInv, PcOf, LoadedInv, Moving, LimitInv, Applied, StartFails
  <2>14. WalkInv'  BY <1>13, <2>2 DEF CfgInv, CfgTypeInv, PlacesInv, PcOf, LoadedInv, Moving, WalkInv, Clean, Unrecorded, Walking, Pair, StartFails
  <2> QED  BY <2>10, <2>11, <2>12, <2>13, <2>14 DEF CfgInv
<1>14. ASSUME NEW r \in Client, RemapFails(r) PROVE CfgInv'
  <2>2. /\ reqs' \in [Client -> Asks] /\ \A q \in Client \ {r} : reqs'[q] = reqs[q]
        /\ \/ reqs'[r] = Resting /\ ~(reqs[r].job = "restart" /\ reqs[r].s.eph # born)
           \/ /\ reqs[r].job = "restart" /\ reqs[r].s.eph # born
              /\ reqs'[r].pc = "reset" /\ reqs'[r].job = reqs[r].job /\ reqs'[r].s = reqs[r].s
              /\ reqs'[r].lim = reqs[r].lim /\ reqs'[r].fresh = reqs[r].fresh
    BY <1>14, FinishFact DEF CfgInv, RemapFails
  <2>4. /\ Moving(r) /\ reqs[r].s \in Rows
        /\ \A q \in Client \ {r} : /\ ~Moving(q) /\ ~Unrecorded(q) /\ ~Walking(q)
                                   /\ reqs[q].pc \in {"idle", "live", "commit"}
    <3>1. reqs[r].pc \in PcOf \ {"idle", "live", "commit"}  BY <1>14 DEF PcOf, RemapFails, Unrecorded, Walking
    <3> QED  BY <3>1, AloneFact
  <2>10. CfgTypeInv'  BY <1>14, <2>2, <2>4 DEF CfgInv, CfgTypeInv, PlacesInv, PcOf, RemapFails
  <2>11. LoadedInv'  BY <1>14, <2>2, <2>4 DEF CfgInv, CfgTypeInv, PlacesInv, PcOf, LoadedInv, Moving, RemapFails, Halfway, Walked
  <2>12. EphemeralInv'
    <3>1. UNCHANGED <<row, born, inst, hooks, marks>> /\ reqs[r].pc # "unset"
      BY <1>14 DEF RemapFails, Unrecorded, Walking
    <3> QED  BY <2>2, <2>4, <3>1 DEF CfgInv, CfgTypeInv, PlacesInv, PcOf, LoadedInv, Moving, EphemeralInv
  <2>13. LimitInv'
    <3>1. UNCHANGED <<row, inst, marks>> /\ reqs[r].pc # "commit"
      BY <1>14 DEF RemapFails, Unrecorded, Walking
    <3> QED  BY <2>2, <3>1 DEF CfgInv, CfgTypeInv, PlacesInv, PcOf, LimitInv, Applied
  <2>14. WalkInv'
    <3>1. /\ UNCHANGED <<row, inst, marks>> /\ files' = Halfway(r) /\ torn' = torn \cup {Pair(reqs[r].s)}
          /\ Unrecorded(r)
      BY <1>14 DEF RemapFails
    <3>2. reqs[r].s.next # reqs[r].s.last /\ inst = Nobody
      BY <3>1 DEF CfgInv, WalkInv, LoadedInv, Unrecorded, Walking
    <3>3. \A q \in Client : ~Walking(q)' /\ ~Unrecorded(q)' /\ ~At(q, "fork")'
      BY <2>2, <2>4 DEF Unrecorded, Walking
    <3>4. \A p \in torn' : p[1] # p[2]  BY <3>1, <3>2 DEF CfgInv, WalkInv, Pair
    <3>5. ASSUME row # Nobody, marks \cap {"stale", "spoiled"} = {}, NEW p \in torn', torn' = {p}, Resumable(p)
          PROVE  files' # {} /\ files' \subseteq {p[1], "raw", p[2]}
      <4>1. p = Pair(reqs[r].s) /\ torn \subseteq {p}  BY <3>1, <3>5
      <4> QED  BY <3>1, <3>5, <4>1, CutFact DEF Pair
    <3>6. torn' # {}  BY <3>1
    <3> QED  BY <3>1, <3>2, <3>3, <3>4, <3>5, <3>6 DEF WalkInv
  <2> QED  BY <2>10, <2>11, <2>12, <2>13, <2>14 DEF CfgInv
<1>15. ASSUME NEW r \in Client, Stop(r) PROVE CfgInv'
  <2>1. "wait" \in PcOf  BY DEF PcOf
  <2>2. /\ reqs' \in [Client -> Asks] /\ \A q \in Client \ {r} : reqs'[q] = reqs[q]
        /\ reqs'[r].pc = "wait" /\ reqs'[r].job = reqs[r].job /\ reqs'[r].s = reqs[r].s
        /\ reqs'[r].lim = reqs[r].lim /\ reqs'[r].fresh = reqs[r].fresh
    BY <1>15, <2>1, GotoFact DEF CfgInv, Stop
  <2>10. CfgTypeInv'  BY <1>15, <2>1, <2>2 DEF CfgInv, CfgTypeInv, PlacesInv, PcOf, Stop
  <2>11. LoadedInv'  BY <1>15, <2>1, <2>2 DEF CfgInv, CfgTypeInv, PlacesInv, PcOf, LoadedInv, Moving, Stop
  <2>12. EphemeralInv'  BY <1>15, <2>1, <2>2 DEF CfgInv, CfgTypeInv, PlacesInv, PcOf, LoadedInv, Moving, EphemeralInv, Stop
  <2>13. LimitInv'  BY <1>15, <2>1, <2>2 DEF CfgInv, CfgTypeInv, PlacesInv, PcOf, LoadedInv, Moving, LimitInv, Applied, Stop
  <2>14. WalkInv'  BY <1>15, <2>1, <2>2 DEF CfgInv, CfgTypeInv, PlacesInv, PcOf, LoadedInv, Moving, WalkInv, Clean, Unrecorded, Walking, Pair, Stop
  <2> QED  BY <2>10, <2>11, <2>12, <2>13, <2>14 DEF CfgInv
<1>16. ASSUME NEW r \in Client, StopFails(r) PROVE CfgInv'
  <2>2. /\ reqs' \in [Client -> Asks] /\ \A q \in Client \ {r} : reqs'[q] = reqs[q]
        /\ \/ reqs'[r] = Resting /\ ~(reqs[r].job = "restart" /\ reqs[r].s.eph # born)
           \/ /\ reqs[r].job = "restart" /\ reqs[r].s.eph # born
              /\ reqs'[r].pc = "reset" /\ reqs'[r].job = reqs[r].job /\ reqs'[r].s = reqs[r].s
              /\ reqs'[r].lim = reqs[r].lim /\ reqs'[r].fresh = reqs[r].fresh
    BY <1>16, FinishFact DEF CfgInv, StopFails
  <2>10. CfgTypeInv'  BY <1>16, <2>2 DEF CfgInv, CfgTypeInv, PlacesInv, PcOf, StopFails
  <2>11. LoadedInv'  BY <1>16, <2>2 DEF CfgInv, CfgTypeInv, PlacesInv, PcOf, LoadedInv, Moving, StopFails
  <2>12. EphemeralInv'  BY <1>16, <2>2 DEF CfgInv, CfgTypeInv, PlacesInv, PcOf, LoadedInv, Moving, EphemeralInv, StopFails
  <2>13. LimitInv'  BY <1>16, <2>2 DEF CfgInv, CfgTypeInv, PlacesInv, PcOf, LoadedInv, Moving, LimitInv, Applied, StopFails
  <2>14. WalkInv'  BY <1>16, <2>2 DEF CfgInv, CfgTypeInv, PlacesInv, PcOf, LoadedInv, Moving, WalkInv, Clean, Unrecorded, Walking, Pair, StopFails
  <2> QED  BY <2>10, <2>11, <2>12, <2>13, <2>14 DEF CfgInv
<1>17. ASSUME NEW r \in Client, StopDone(r) PROVE CfgInv'
  <2>2. /\ reqs' \in [Client -> Asks] /\ \A q \in Client \ {r} : reqs'[q] = reqs[q]
        /\ \/ reqs'[r] = Resting /\ reqs[r].job # "restart"
           \/ /\ reqs'[r].pc = "walk" /\ reqs'[r].job = reqs[r].job /\ reqs'[r].s = reqs[r].s
              /\ reqs'[r].lim = reqs[r].lim /\ reqs'[r].fresh = reqs[r].fresh /\ reqs[r].job = "restart"
    <3>1. "walk" \in PcOf  BY DEF PcOf
    <3>2. CASE reqs[r].job = "restart"  BY <1>17, <3>1, <3>2, GotoFact DEF CfgInv, StopDone
    <3>3. CASE reqs[r].job # "restart"  BY <1>17, <3>3, AnswerFact DEF CfgInv, StopDone
    <3> QED  BY <3>2, <3>3
  <2>10. CfgTypeInv'  BY <1>17, <2>2 DEF CfgInv, CfgTypeInv, PlacesInv, PcOf, StopDone
  <2>11. LoadedInv'  BY <1>17, <2>2 DEF CfgInv, CfgTypeInv, PlacesInv, PcOf, LoadedInv, Moving, StopDone
  <2>12. EphemeralInv'  BY <1>17, <2>2 DEF CfgInv, CfgTypeInv, PlacesInv, PcOf, LoadedInv, Moving, EphemeralInv, StopDone
  <2>13. LimitInv'  BY <1>17, <2>2 DEF CfgInv, CfgTypeInv, PlacesInv, PcOf, LoadedInv, Moving, LimitInv, Applied, StopDone
  <2>14. WalkInv'  BY <1>17, <2>2 DEF CfgInv, CfgTypeInv, PlacesInv, PcOf, LoadedInv, Moving, WalkInv, Clean, Unrecorded, Walking, Pair, StopDone
  <2> QED  BY <2>10, <2>11, <2>12, <2>13, <2>14 DEF CfgInv
<1>18. ASSUME NEW r \in Client, Unset(r) PROVE CfgInv'
  <2> DEFINE w == [reqs[r].s EXCEPT !.eph = FALSE]
  <2>1. reqs[r].job # "none" /\ w \in Rows /\ "stop" \in PcOf
    BY <1>18, RestingFact DEF CfgInv, CfgTypeInv, PlacesInv, PcOf, Rows, At, Unset
  <2>2. Write(r, w, "stop")  BY <1>18 DEF Unset
  <2>3. /\ row # Nobody /\ row' = w /\ reqs' \in [Client -> Asks]
        /\ \A q \in Client \ {r} :
             /\ reqs'[q].job = reqs[q].job /\ reqs'[q].pc = reqs[q].pc /\ reqs'[q].s = reqs[q].s
             /\ reqs'[q].lim = reqs[q].lim
             /\ reqs[q] = Resting => reqs'[q] = Resting
             /\ reqs[q] # Resting => ~reqs'[q].fresh
        /\ reqs'[r].pc = "stop" /\ reqs'[r].s = w /\ reqs'[r].job = reqs[r].job
        /\ reqs'[r].lim = reqs[r].lim /\ reqs'[r].fresh = reqs[r].fresh
    BY <2>1, <2>2, WriteFact DEF CfgInv
  <2>4. /\ Moving(r) /\ reqs[r].s \in Rows
        /\ \A q \in Client \ {r} : /\ ~Moving(q) /\ ~Unrecorded(q) /\ ~Walking(q)
                                   /\ reqs[q].pc \in {"idle", "live", "commit"}
    <3>1. reqs[r].pc \in PcOf \ {"idle", "live", "commit"}  BY <1>18 DEF PcOf, Unset
    <3> QED  BY <3>1, AloneFact
  <2>5. w.eph = FALSE /\ w.last = reqs[r].s.last /\ w.next = reqs[r].s.next /\ w.lim = reqs[r].s.lim
    BY <2>1 DEF CfgInv, CfgTypeInv, PlacesInv, Rows
  <2>10. CfgTypeInv'  BY <1>18, <2>1, <2>3, <2>4, <2>5 DEF CfgInv, CfgTypeInv, PlacesInv, PcOf, Unset
  <2>11. LoadedInv'
    <3>1. inst' = inst /\ Moving(r)' /\ reqs[r].job = reqs'[r].job
      BY <1>18, <2>3, <2>4 DEF Unset, Moving
    <3>2. \A q \in Client \ {r} : ~Moving(q)' /\ (reqs'[q].job = "none" \/ ~reqs'[q].fresh)
      BY <2>3, <2>4, RestingFact DEF Moving
    <3>3. \A q \in Client : reqs'[q].pc \in {"wait", "walk", "unshift", "shift", "key", "fork"} => inst = Nobody
      BY <1>18, <2>3, <2>4 DEF Unset, CfgInv, LoadedInv
    <3>4. reqs'[r].s = row'  BY <2>3
    <3>5. reqs'[r].job # "update"  BY <3>1 DEF Moving
    <3> QED  BY <3>1, <3>2, <3>3, <3>4, <3>5 DEF LoadedInv
  <2>12. EphemeralInv'
    <3>1. UNCHANGED <<born, hooks>> /\ marks \subseteq marks' /\ ("stale" \notin marks' => reqs[r].fresh) /\ At(r, "unset")
      BY <1>18 DEF Unset, Stale
    <3>9. \A q \in Client \ {r} : reqs[q].job # "restart" /\ reqs'[q].job # "restart" /\ reqs'[q].pc \notin {"unset", "reset"}
      BY <2>3, <2>4 DEF Moving
    <3>2. reqs'[r].pc = "stop" /\ ~reqs'[r].s.eph /\ ~row'.eph  BY <2>3, <2>5
    <3>3. reqs[r].job = "restart" /\ reqs'[r].job = "restart"  BY <2>3, <3>1, PlaceFact DEF CfgInv
    <3>4. reqs'[r].s.eph = row'.eph  BY <2>3
    <3>8. "stale" \notin marks' => \A h \in hooks' : h.why = "restart" => ~h.eph
      BY <3>1 DEF CfgInv, EphemeralInv
    <3> QED  BY <3>1, <3>2, <3>3, <3>4, <3>8, <3>9 DEF EphemeralInv
  <2>13. LimitInv'
    <3>1. inst' = inst /\ (marks' \cap {"stale", "lag"} = {} => marks \cap {"stale", "lag"} = {} /\ reqs[r].fresh)
      BY <1>18 DEF Unset, Stale
    <3>2. reqs[r].fresh => row'.lim = row.lim
      BY <2>3, <2>4, <2>5 DEF CfgInv, LoadedInv, Moving
    <3>3. \A q \in Client : Applied(q)' <=> Applied(q) /\ q # r
      BY <1>18, <2>3 DEF Applied, Unset
    <3>4. ~Applied(r)  BY <1>18 DEF Applied, Unset
    <3>5. \A q \in Client : Applied(q)' => ~reqs'[q].fresh  BY <2>3, <3>3 DEF Applied
    <3> QED  BY <2>3, <3>1, <3>2, <3>3, <3>4, <3>5 DEF CfgInv, LimitInv
  <2>14. WalkInv'  BY <1>18, <2>1, <2>3, <2>4, <2>5 DEF CfgInv, CfgTypeInv, PlacesInv, PcOf, LoadedInv, Moving, WalkInv, Clean, Unrecorded, Walking, Pair, Unset, Stale
  <2> QED  BY <2>10, <2>11, <2>12, <2>13, <2>14 DEF CfgInv
<1>19. ASSUME NEW r \in Client, Reset(r) PROVE CfgInv'
  <2> DEFINE w == [reqs[r].s EXCEPT !.eph = TRUE]
  <2>1. reqs[r].job # "none" /\ w \in Rows /\ "idle" \in PcOf
    BY <1>19, RestingFact DEF CfgInv, CfgTypeInv, PlacesInv, PcOf, Rows, At, Reset
  <2>2. Write(r, w, "idle")  BY <1>19 DEF Reset
  <2>3. /\ row # Nobody /\ row' = w /\ reqs' \in [Client -> Asks]
        /\ \A q \in Client \ {r} :
             /\ reqs'[q].job = reqs[q].job /\ reqs'[q].pc = reqs[q].pc /\ reqs'[q].s = reqs[q].s
             /\ reqs'[q].lim = reqs[q].lim
             /\ reqs[q] = Resting => reqs'[q] = Resting
             /\ reqs[q] # Resting => ~reqs'[q].fresh
        /\ reqs'[r] = Resting
    BY <2>1, <2>2, WriteFact DEF CfgInv
  <2>4. /\ Moving(r) /\ reqs[r].s \in Rows
        /\ \A q \in Client \ {r} : /\ ~Moving(q) /\ ~Unrecorded(q) /\ ~Walking(q)
                                   /\ reqs[q].pc \in {"idle", "live", "commit"}
    <3>1. reqs[r].pc \in PcOf \ {"idle", "live", "commit"}  BY <1>19 DEF PcOf, Reset
    <3> QED  BY <3>1, AloneFact
  <2>5. w.eph = TRUE /\ w.last = reqs[r].s.last /\ w.next = reqs[r].s.next /\ w.lim = reqs[r].s.lim
    BY <2>1 DEF CfgInv, CfgTypeInv, PlacesInv, Rows
  <2>10. CfgTypeInv'  BY <1>19, <2>1, <2>3, <2>4, <2>5 DEF CfgInv, CfgTypeInv, PlacesInv, PcOf, Reset
  <2>11. LoadedInv'  BY <1>19, <2>1, <2>3, <2>4, <2>5 DEF CfgInv, CfgTypeInv, PlacesInv, PcOf, LoadedInv, Moving, Reset, Stale
  <2>12. EphemeralInv'
    <3>1. UNCHANGED <<born, hooks>> /\ marks \subseteq marks' /\ ("stale" \notin marks' => reqs[r].fresh) /\ At(r, "reset")
      BY <1>19 DEF Reset, Stale
    <3>9. \A q \in Client \ {r} : reqs[q].job # "restart" /\ reqs'[q].job # "restart" /\ reqs'[q].pc \notin {"unset", "reset"}
      BY <2>3, <2>4 DEF Moving
    <3>2. reqs'[r].pc = "idle" /\ reqs'[r].job = "none" /\ row'.eph  BY <2>3, <2>5
    <3>3. reqs[r].job = "restart"  BY <3>1, PlaceFact DEF CfgInv
    <3>4. ~reqs[r].s.eph /\ reqs[r].s.eph # born  BY <3>1, <3>3 DEF CfgInv, EphemeralInv
    <3>5. reqs[r].s.eph \in BOOLEAN /\ born \in BOOLEAN  BY <2>4 DEF CfgInv, CfgTypeInv, Rows
    <3>6. born = TRUE /\ row'.eph = TRUE  BY <2>3, <2>5, <3>4, <3>5
    <3>8. "stale" \notin marks' => \A h \in hooks' : h.why = "restart" => ~h.eph
      BY <3>1 DEF CfgInv, EphemeralInv
    <3> QED  BY <3>1, <3>2, <3>6, <3>8, <3>9 DEF EphemeralInv
  <2>13. LimitInv'
    <3>1. inst' = inst /\ (marks' \cap {"stale", "lag"} = {} => marks \cap {"stale", "lag"} = {} /\ reqs[r].fresh)
      BY <1>19 DEF Reset, Stale
    <3>2. reqs[r].fresh => row'.lim = row.lim
      BY <2>3, <2>4, <2>5 DEF CfgInv, LoadedInv, Moving
    <3>3. \A q \in Client : Applied(q)' <=> Applied(q) /\ q # r
      BY <1>19, <2>3 DEF Applied, Reset
    <3>4. ~Applied(r)  BY <1>19 DEF Applied, Reset
    <3>5. \A q \in Client : Applied(q)' => ~reqs'[q].fresh  BY <2>3, <3>3 DEF Applied
    <3> QED  BY <2>3, <3>1, <3>2, <3>3, <3>4, <3>5 DEF CfgInv, LimitInv
  <2>14. WalkInv'  BY <1>19, <2>1, <2>3, <2>4, <2>5 DEF CfgInv, CfgTypeInv, PlacesInv, PcOf, LoadedInv, Moving, WalkInv, Clean, Unrecorded, Walking, Pair, Reset, Stale
  <2> QED  BY <2>10, <2>11, <2>12, <2>13, <2>14 DEF CfgInv
<1>20. ASSUME NEW r \in Client, ResetFails(r) PROVE CfgInv'
  <2>2. /\ reqs' \in [Client -> Asks] /\ \A q \in Client \ {r} : reqs'[q] = reqs[q]
        /\ reqs'[r] = Resting
    BY <1>20, AnswerFact DEF CfgInv, ResetFails
  <2>10. CfgTypeInv'  BY <1>20, <2>2 DEF CfgInv, CfgTypeInv, PlacesInv, PcOf, ResetFails
  <2>11. LoadedInv'  BY <1>20, <2>2 DEF CfgInv, CfgTypeInv, PlacesInv, PcOf, LoadedInv, Moving, ResetFails
  <2>12. EphemeralInv'  BY <1>20, <2>2 DEF CfgInv, CfgTypeInv, PlacesInv, PcOf, LoadedInv, Moving, EphemeralInv, ResetFails
  <2>13. LimitInv'  BY <1>20, <2>2 DEF CfgInv, CfgTypeInv, PlacesInv, PcOf, LoadedInv, Moving, LimitInv, Applied, ResetFails
  <2>14. WalkInv'  BY <1>20, <2>2 DEF CfgInv, CfgTypeInv, PlacesInv, PcOf, LoadedInv, Moving, WalkInv, Clean, Unrecorded, Walking, Pair, ResetFails
  <2> QED  BY <2>10, <2>11, <2>12, <2>13, <2>14 DEF CfgInv
<1>21. ASSUME NEW r \in Client, UnsetFails(r) PROVE CfgInv'
  <2>2. /\ reqs' \in [Client -> Asks] /\ \A q \in Client \ {r} : reqs'[q] = reqs[q]
        /\ reqs'[r] = Resting
    BY <1>21, AnswerFact DEF CfgInv, UnsetFails
  <2>10. CfgTypeInv'  BY <1>21, <2>2 DEF CfgInv, CfgTypeInv, PlacesInv, PcOf, UnsetFails
  <2>11. LoadedInv'  BY <1>21, <2>2 DEF CfgInv, CfgTypeInv, PlacesInv, PcOf, LoadedInv, Moving, UnsetFails
  <2>12. EphemeralInv'  BY <1>21, <2>2 DEF CfgInv, CfgTypeInv, PlacesInv, PcOf, LoadedInv, Moving, EphemeralInv, UnsetFails
  <2>13. LimitInv'  BY <1>21, <2>2 DEF CfgInv, CfgTypeInv, PlacesInv, PcOf, LoadedInv, Moving, LimitInv, Applied, UnsetFails
  <2>14. WalkInv'  BY <1>21, <2>2 DEF CfgInv, CfgTypeInv, PlacesInv, PcOf, LoadedInv, Moving, WalkInv, Clean, Unrecorded, Walking, Pair, UnsetFails
  <2> QED  BY <2>10, <2>11, <2>12, <2>13, <2>14 DEF CfgInv
<1> QED
  BY <1>1, <1>2, <1>3, <1>4, <1>5, <1>6, <1>7, <1>8, <1>9, <1>10, <1>11, <1>12, <1>13, <1>14,
     <1>15, <1>16, <1>17, <1>18, <1>19, <1>20, <1>21 DEF ConfigNext

LEMMA CfgInvInit == ASSUME ConfigInit PROVE CfgInv
<1>1. reqs \in [Client -> Asks] /\ \A r \in Client : reqs[r] = Resting  BY RestingFact DEF ConfigInit
<1>2. \A r \in Client : reqs[r].job = "none" /\ reqs[r].pc = "idle"  BY <1>1, RestingFact
<1>3. row = Nobody /\ born = FALSE /\ inst = Nobody /\ hooks = {} /\ torn = {}  BY DEF ConfigInit
<1>4. CfgTypeInv  BY <1>1, <1>2, <1>3 DEF CfgTypeInv, PlacesInv
<1>5. LoadedInv /\ EphemeralInv /\ LimitInv /\ WalkInv
  BY <1>2, <1>3 DEF LoadedInv, Moving, EphemeralInv, LimitInv, WalkInv, Walking, At
<1> QED  BY <1>4, <1>5 DEF CfgInv

LEMMA CfgInvStutter == ASSUME CfgInv, UNCHANGED cfgVars PROVE CfgInv'
BY DEF cfgVars, CfgInv, CfgTypeInv, PlacesInv, LoadedInv, Moving, EphemeralInv, LimitInv, Applied,
       WalkInv, Clean, Resumable, Pair, Walking, Unrecorded, At

\* The files of a running container are owned by the ids of its map.
LEMMA MappedByInv == ASSUME CfgInv PROVE FilesMapped
<1> SUFFICES ASSUME inst # Nobody, row # Nobody, marks \cap {"stale", "spoiled"} = {}
             PROVE  files = {inst.map}
  BY DEF FilesMapped
<1>1. \A r \in Client : ~Unrecorded(r)  BY DEF CfgInv, LoadedInv, Unrecorded, Walking, At
<1> QED  BY <1>1 DEF CfgInv, WalkInv

LEMMA LiveByInv == ASSUME CfgInv PROVE LiveMatches
BY DEF CfgInv, LimitInv, LiveMatches, Applied

LEMMA KeptByInv == ASSUME CfgInv PROVE EphemeralKept
BY DEF CfgInv, EphemeralInv, EphemeralKept

-----------------------------------------------------------------------------
(* Ranges of ids (Idmap). *)

Configs == [kind : Kinds, prof : BOOLEAN, size : Sizes, base : Nat]

IdsAsks ==
  [pc : {"idle", "save", "find", "record"}, goal : {"", "isolated"}, todo : Seq(Ctn),
   mem : Configs \cup {None}, was : Seq({"none", "shared", "isolated", "privileged"} \X Nat),
   new : BOOLEAN, sole : BOOLEAN]

IdsTypeInv ==
  /\ conf \in [Ctn -> Configs \cup {None}] /\ profile \in {"", "isolated"}
  /\ asks \in [Req -> IdsAsks]
  /\ alone \subseteq {c \in Ctn : conf[c] \in Configs /\ Kind(conf[c]) = "isolated"}

Working(r) == asks[r].pc \in {"find", "record"}

\* A container is on the list of one request, once, and nobody else changes its
\* row; what the request found when it was loaded is what is still there.
TodoApart ==
  \A r, q \in Req : \A i \in DOMAIN asks[r].todo, j \in DOMAIN asks[q].todo :
    asks[r].todo[i] = asks[q].todo[j] => r = q /\ i = j

TodoOf(r) ==
  /\ asks[r].pc = "idle" => asks[r].todo = <<>>
  /\ asks[r].pc # "idle" => DOMAIN asks[r].was = DOMAIN asks[r].todo
  /\ \A i \in DOMAIN asks[r].todo :
       /\ conf[asks[r].todo[i]] \in Configs
       /\ ~asks[r].new => asks[r].was[i][2] = conf[asks[r].todo[i]].size
       /\ asks[r].new => asks[r].was[i][1] = "none" /\ Len(asks[r].todo) = 1 /\ asks[r].todo[i] \notin alone
  /\ Working(r) => asks[r].todo # <<>> /\ asks[r].mem \in Configs
  /\ asks[r].pc = "find" => asks[r].mem.base = conf[asks[r].todo[1]].base

InBounds(w) == HostBase < w.base /\ w.base + w.size <= HostBase + Span
Disjoint(w, v) == w.base + w.size <= v.base \/ v.base + v.size <= w.base

\* The range a request is about to record, if it was looked for when every
\* other isolated container had its own and nobody else was about to.
Found(r) == asks[r].pc = "record" /\ asks[r].sole /\ Kind(asks[r].mem) = "isolated"

AloneInv ==
  /\ \A c \in alone : InBounds(conf[c]) /\ \A d \in alone \ {c} : Disjoint(conf[c], conf[d])
  /\ \A r \in Req : Found(r) =>
       /\ InBounds(asks[r].mem)
       /\ \A d \in alone \ {asks[r].todo[1]} : Disjoint(asks[r].mem, conf[d])
       /\ \A q \in Req \ {r} : Found(q) => Disjoint(asks[r].mem, asks[q].mem)

IdsInv == IdsTypeInv /\ TodoApart /\ (\A r \in Req : TodoOf(r)) /\ AloneInv

LEMMA KindOf ==
  ASSUME profile \in {"", "isolated"}, NEW w \in Configs PROVE Kind(w) \in {"isolated", "privileged", "shared"}
BY IdmapAssumption DEF Kind, Configs

\* The others in any order of their first ids: every one of them is at its
\* place, and those that are apart follow one another.
LEMMA OrderOf ==
  ASSUME NEW S \in SUBSET Ctn, NEW es \in Orders(S)
  PROVE  /\ Len(es) = Cardinality(S) /\ Len(es) \in Nat /\ DOMAIN es = 1 .. Len(es)
         /\ \A i \in 1 .. Len(es) : es[i] \in S
         /\ \A d \in S : \E i \in 1 .. Len(es) : d = es[i]
         /\ \A i, j \in 1 .. Len(es) : i < j => conf[es[i]].base <= conf[es[j]].base
<1>1. Cardinality(S) \in Nat  BY IdmapAssumption, FS_Subset, FS_CardinalityType
<1>2. es \in [1 .. Cardinality(S) -> S]  BY DEF Orders
<1>3. Len(es) = Cardinality(S) /\ DOMAIN es = 1 .. Cardinality(S)  BY <1>1, <1>2
<1> QED  BY <1>1, <1>2, <1>3 DEF Orders, ToSet

\* What findIdmap takes for a gap is one.
LEMMA GapIsReal ==
  ASSUME NEW S \in SUBSET Ctn, NEW es \in Orders(S), NEW k \in 0 .. Len(es), NEW size \in Nat \ {0}, Gap(es, k, size),
         \A d \in S : conf[d] \in Configs /\ InBounds(conf[d]) /\ \A e \in S \ {d} : Disjoint(conf[d], conf[e])
  PROVE  /\ After(es, k) \in Nat /\ HostBase < After(es, k) /\ After(es, k) + size <= HostBase + Span
         /\ \A d \in S : After(es, k) + size <= conf[d].base \/ End(d) <= After(es, k)
<1> DEFINE n == Len(es)
<1>1. /\ n \in Nat /\ \A i \in 1 .. n : es[i] \in S
      /\ \A d \in S : \E i \in 1 .. n : d = es[i]
      /\ \A i, j \in 1 .. n : i < j => conf[es[i]].base <= conf[es[j]].base
  BY OrderOf
<1>2. HostBase \in Nat /\ Span \in Nat /\ Sizes \subseteq Nat \ {0}  BY IdmapAssumption
<1>3. \A d \in S : conf[d].base \in Nat /\ conf[d].size \in Nat \ {0}  BY <1>2 DEF Configs
<1>4. k \in Nat /\ k <= n  BY <1>1
<1> HIDE DEF n
<1>5. CASE k = 0
  <2>1. After(es, k) = HostBase + 1  BY <1>5 DEF After
  <2>2. CASE n = 0  BY <1>1, <1>2, <1>5, <2>1, <2>2 DEF Gap, n
  <2>3. CASE n # 0
    <3>1. HostBase + 1 + size <= conf[es[1]].base /\ es[1] \in S
      BY <1>1, <1>5, <2>1, <2>3 DEF Gap, n
    <3>2. \A d \in S : conf[es[1]].base <= conf[d].base  BY <1>1, <1>3, <2>3
    <3>3. conf[es[1]].base + conf[es[1]].size <= HostBase + Span  BY <3>1 DEF InBounds
    <3> QED  BY <1>2, <1>3, <2>1, <3>1, <3>2, <3>3
  <2> QED  BY <2>2, <2>3
<1>6. CASE k # 0
  <2> DEFINE e == es[k]
  <2>1. e \in S /\ After(es, k) = conf[e].base + conf[e].size /\ HostBase < conf[e].base
    BY <1>1, <1>4, <1>6 DEF After, End, InBounds
  <2>2. ASSUME NEW i \in 1 .. n, i <= k PROVE End(es[i]) <= After(es, k)
    <3>1. CASE es[i] = e  BY <1>3, <2>1, <3>1 DEF End
    <3>2. CASE es[i] # e
      <4>1. conf[es[i]].base <= conf[e].base /\ es[i] \in S  BY <1>1, <1>4, <1>6, <2>2, <3>2
      <4>2. Disjoint(conf[es[i]], conf[e])  BY <2>1, <3>2, <4>1
      <4>3. /\ conf[es[i]].base \in Nat /\ conf[es[i]].size \in Nat \ {0}
            /\ conf[e].base \in Nat /\ conf[e].size \in Nat \ {0}
        BY <1>3, <2>1, <4>1
      <4>4. conf[es[i]].base + conf[es[i]].size <= conf[e].base  BY <4>1, <4>2, <4>3 DEF Disjoint
      <4>5. End(es[i]) <= conf[e].base /\ End(es[i]) \in Nat  BY <4>3, <4>4 DEF End
      <4>6. conf[e].base <= After(es, k) /\ After(es, k) \in Nat  BY <2>1, <4>3
      <4> QED  BY <4>3, <4>5, <4>6
    <3> QED  BY <3>1, <3>2
  <2>3. CASE k = n
    <3>1. After(es, k) + size < HostBase + Span  BY <2>3 DEF Gap, n
    <3>2. \A d \in S : End(d) <= After(es, k)  BY <1>1, <2>2, <2>3
    <3>3. After(es, k) \in Nat /\ HostBase < After(es, k)  BY <1>2, <1>3, <2>1
    <3> QED  BY <1>2, <3>1, <3>2, <3>3
  <2>4. CASE k # n
    <3> DEFINE f == es[k + 1]
    <3>1. k + 1 \in 1 .. n  BY <1>1, <1>4, <2>4
    <3>2. After(es, k) + size < conf[f].base /\ f \in S
      BY <1>1, <1>6, <2>4, <3>1 DEF Gap, n
    <3>3. \A i \in 1 .. n : i > k => conf[f].base <= conf[es[i]].base
      BY <1>1, <1>3, <1>4, <3>1
    <3>4. conf[f].base + conf[f].size <= HostBase + Span  BY <3>2 DEF InBounds
    <3>5. \A d \in S : After(es, k) + size <= conf[d].base \/ End(d) <= After(es, k)
      <4> SUFFICES ASSUME NEW i \in 1 .. n PROVE After(es, k) + size <= conf[es[i]].base \/ End(es[i]) <= After(es, k)
        BY <1>1
      <4>1. es[i] \in S /\ After(es, k) \in Nat  BY <1>1, <1>3, <2>1
      <4> QED  BY <1>3, <1>4, <2>2, <3>2, <3>3, <4>1
    <3>6. After(es, k) \in Nat /\ HostBase < After(es, k)  BY <1>2, <1>3, <2>1
    <3>7. conf[f].base \in Nat /\ conf[f].size \in Nat \ {0}  BY <1>3, <3>2
    <3>8. After(es, k) + size <= HostBase + Span  BY <1>2, <3>2, <3>4, <3>6, <3>7
    <3> QED  BY <3>5, <3>6, <3>8
  <2> QED  BY <2>3, <2>4
<1> QED  BY <1>5, <1>6

LEMMA IdsInvInit == IdmapInit => IdsInv
<1> SUFFICES ASSUME IdmapInit PROVE IdsInv  OBVIOUS
<1>1. Idle \in IdsAsks /\ Idle.pc = "idle" /\ Idle.todo = <<>>  BY DEF Idle, IdsAsks
<1>2. IdsTypeInv  BY <1>1 DEF IdmapInit, IdsTypeInv
<1>3. \A r \in Req : asks[r] = Idle  BY DEF IdmapInit
<1>4. TodoApart /\ \A r \in Req : TodoOf(r)  BY <1>1, <1>3 DEF TodoApart, TodoOf, Working
<1>5. AloneInv  BY <1>1, <1>3 DEF IdmapInit, AloneInv, Found
<1> QED  BY <1>2, <1>4, <1>5 DEF IdsInv

LEMMA IdsInvStutter == IdsInv /\ UNCHANGED idVars => IdsInv'
<1> SUFFICES ASSUME IdsInv, UNCHANGED idVars PROVE IdsInv'  OBVIOUS
<1>1. conf' = conf /\ profile' = profile /\ asks' = asks /\ alone' = alone  BY DEF idVars
<1>2. \A w : Kind(w)' = Kind(w)  BY <1>1 DEF Kind
<1>3. IdsTypeInv'  BY <1>1, <1>2 DEF IdsInv, IdsTypeInv
<1>4. TodoApart' /\ \A r \in Req : TodoOf(r)'  BY <1>1 DEF IdsInv, TodoApart, TodoOf, Working
<1>5. AloneInv'  BY <1>1, <1>2 DEF IdsInv, AloneInv, Found
<1> QED  BY <1>3, <1>4, <1>5 DEF IdsInv


LEMMA NotBusy ==
  ASSUME NEW c, ~Busy(c) PROVE \A q \in Req : \A i \in DOMAIN asks[q].todo : asks[q].todo[i] # c
BY DEF Busy, ToSet

LEMMA IdleFact ==
  Idle \in IdsAsks /\ Idle.pc = "idle" /\ Idle.todo = <<>> /\ Idle.was = <<>> /\ Idle.new = FALSE /\ Idle.sole = TRUE
BY DEF Idle, IdsAsks

LEMMA TodoSeq ==
  ASSUME IdsTypeInv, NEW q \in Req
  PROVE  /\ asks[q] \in IdsAsks /\ asks[q].todo \in Seq(Ctn) /\ Len(asks[q].todo) \in Nat
         /\ DOMAIN asks[q].todo = 1 .. Len(asks[q].todo)
         /\ asks[q].todo # <<>> => 1 \in DOMAIN asks[q].todo /\ Len(asks[q].todo) > 0
         /\ \A i \in DOMAIN asks[q].todo : asks[q].todo[i] \in Ctn
<1>1. asks[q] \in IdsAsks  BY DEF IdsTypeInv
<1>2. asks[q].todo \in Seq(Ctn)  BY <1>1 DEF IdsAsks
<1> DEFINE t == asks[q].todo
<1> HIDE DEF t
<1>3. t \in Seq(Ctn)  BY <1>2 DEF t
<1>4. Len(t) \in Nat /\ DOMAIN t = 1 .. Len(t) /\ (t # <<>> => Len(t) > 0) /\ \A i \in DOMAIN t : t[i] \in Ctn
  BY <1>3
<1>5. t # <<>> => 1 \in DOMAIN t  BY <1>4
<1> QED  BY <1>1, <1>2, <1>4, <1>5 DEF t

LEMMA AsksOne ==
  ASSUME IdsTypeInv, NEW r \in Req, NEW x \in IdsAsks, asks' = [asks EXCEPT ![r] = x]
  PROVE  asks' \in [Req -> IdsAsks] /\ asks'[r] = x /\ \A q \in Req \ {r} : asks'[q] = asks[q]
BY DEF IdsTypeInv

\* The lists stay apart when one request gets another one, of its own.
LEMMA ApartKept ==
  ASSUME TodoApart, NEW r \in Req, \A q \in Req \ {r} : asks'[q].todo = asks[q].todo,
         \A i, j \in DOMAIN asks'[r].todo : asks'[r].todo[i] = asks'[r].todo[j] => i = j,
         \A i \in DOMAIN asks'[r].todo : \A q \in Req \ {r} : \A j \in DOMAIN asks[q].todo :
           asks[q].todo[j] # asks'[r].todo[i]
  PROVE  TodoApart'
<1> SUFFICES ASSUME NEW p \in Req, NEW q \in Req, NEW i \in DOMAIN asks'[p].todo, NEW j \in DOMAIN asks'[q].todo,
                    asks'[p].todo[i] = asks'[q].todo[j]
             PROVE  p = q /\ i = j
  BY DEF TodoApart
<1>1. CASE p = r /\ q = r  BY <1>1
<1>2. CASE p = r /\ q # r  BY <1>2
<1>3. CASE p # r /\ q = r  BY <1>3
<1>4. CASE p # r /\ q # r  BY <1>4 DEF TodoApart
<1> QED  BY <1>1, <1>2, <1>3, <1>4

LEMMA OthersTodo ==
  ASSUME NEW q \in Req, TodoOf(q), asks'[q] = asks[q],
         \A i \in DOMAIN asks[q].todo :
           conf'[asks[q].todo[i]] = conf[asks[q].todo[i]] /\ (asks[q].todo[i] \in alone' => asks[q].todo[i] \in alone),
         asks[q].todo # <<>> => 1 \in DOMAIN asks[q].todo
  PROVE  TodoOf(q)'
BY DEF TodoOf, Working

\* Nothing that is to be apart is new.
LEMMA AloneSame ==
  ASSUME AloneInv, alone' \subseteq alone, \A c \in alone' : conf'[c] = conf[c],
         \A q \in Req : Found(q)' => Found(q) /\ asks'[q].mem = asks[q].mem /\ asks'[q].todo = asks[q].todo
  PROVE  AloneInv'
<1>1. \A c \in alone' : InBounds(conf[c])' /\ \A d \in alone' \ {c} : Disjoint(conf[c], conf[d])'
  BY DEF AloneInv, InBounds, Disjoint
<1>2. ASSUME NEW q \in Req, Found(q)'
      PROVE  /\ InBounds(asks[q].mem)' /\ \A d \in alone' \ {asks'[q].todo[1]} : Disjoint(asks[q].mem, conf[d])'
             /\ \A p \in Req \ {q} : Found(p)' => Disjoint(asks[q].mem, asks[p].mem)'
  BY <1>2 DEF AloneInv, InBounds, Disjoint
<1> QED  BY <1>1, <1>2 DEF AloneInv

LEMMA CreateKeeps == ASSUME IdsInv, NEW r \in Req, NEW c \in Ctn, CreateRow(r, c) PROVE IdsInv'
<1>1. PICK w \in [kind : Kinds, prof : BOOLEAN, size : Sizes, base : {0}] :
        /\ conf' = [conf EXCEPT ![c] = w]
        /\ asks' = [asks EXCEPT ![r] = [Idle EXCEPT !.pc = "find", !.todo = <<c>>, !.mem = w, !.was = <<<<"none", 0>>>>, !.new = TRUE]]
  BY DEF CreateRow
<1> DEFINE x == [Idle EXCEPT !.pc = "find", !.todo = <<c>>, !.mem = w, !.was = <<<<"none", 0>>>>, !.new = TRUE]
<1>2. /\ asks[r] = Idle /\ conf[c] = None /\ UNCHANGED <<profile, alone>>
      /\ \A q \in Req : \A i \in DOMAIN asks[q].todo : asks[q].todo[i] # c
  BY NotBusy DEF CreateRow
<1>3. w \in Configs  BY DEF Configs
<1>4. x \in IdsAsks
  <2>1. <<c>> \in Seq(Ctn) /\ <<<<"none", 0>>>> \in Seq({"none", "shared", "isolated", "privileged"} \X Nat)  OBVIOUS
  <2> QED  BY <1>3, <2>1, IdleFact DEF IdsAsks
<1>5. asks' = [asks EXCEPT ![r] = x]  BY <1>1
<1>x. x.pc = "find" /\ x.todo = <<c>> /\ x.mem = w /\ x.was = <<<<"none", 0>>>> /\ x.new = TRUE
  BY IdleFact DEF IdsAsks
<1> HIDE DEF x
<1>6. asks' \in [Req -> IdsAsks] /\ asks'[r] = x /\ \A q \in Req \ {r} : asks'[q] = asks[q]
  BY <1>4, <1>5, AsksOne DEF IdsInv
<1>7. conf' \in [Ctn -> Configs \cup {None}] /\ conf'[c] = w /\ \A d \in Ctn \ {c} : conf'[d] = conf[d]
  BY <1>1, <1>3 DEF IdsInv, IdsTypeInv
<1>8. c \notin alone /\ alone \subseteq Ctn /\ \A d \in alone : conf'[d] = conf[d]
  BY <1>2, <1>7, IdmapAssumption DEF IdsInv, IdsTypeInv, Configs
<1>9. IdsTypeInv'  BY <1>2, <1>6, <1>7, <1>8 DEF IdsInv, IdsTypeInv, Kind
<1>10. TodoApart'
  <2>1. \A i \in DOMAIN x.todo : x.todo[i] = c /\ i = 1  BY <1>x
  <2> QED  BY <1>2, <1>6, <2>1, ApartKept DEF IdsInv
<1>11. TodoOf(r)'
  <2>1. /\ DOMAIN x.todo = {1} /\ x.todo[1] = c /\ DOMAIN x.was = {1} /\ x.was[1][1] = "none"
        /\ Len(x.todo) = 1 /\ x.todo # <<>>
    BY <1>x
  <2> QED  BY <1>2, <1>3, <1>6, <1>7, <1>8, <1>x, <2>1 DEF TodoOf, Working
<1>12. ASSUME NEW q \in Req \ {r} PROVE TodoOf(q)'
  <2>1. /\ asks[q].todo # <<>> => 1 \in DOMAIN asks[q].todo
        /\ TodoOf(q) /\ \A i \in DOMAIN asks[q].todo : asks[q].todo[i] \in Ctn
    BY TodoSeq DEF IdsInv
  <2> QED  BY <1>2, <1>6, <1>7, <2>1, OthersTodo
<1>13. \A q \in Req : Found(q)' => q # r  BY <1>6, <1>x DEF Found
<1>14. AloneInv'
  <2>1. \A q \in Req \ {r} : Found(q)' => Found(q)  BY <1>2, <1>6 DEF Found, Kind
  <2> QED  BY <1>2, <1>6, <1>8, <1>13, <2>1, AloneSame DEF IdsInv
<1> QED  BY <1>9, <1>10, <1>11, <1>12, <1>14 DEF IdsInv

LEMMA UpdateRowKeeps == ASSUME IdsInv, NEW r \in Req, NEW c \in Ctn, UpdateRow(r, c) PROVE IdsInv'
<1>1. PICK k \in Kinds, p \in BOOLEAN, s \in Sizes :
        asks' = [asks EXCEPT ![r] =
          [Idle EXCEPT !.pc = "find", !.todo = <<c>>, !.mem = [conf[c] EXCEPT !.kind = k, !.prof = p, !.size = s],
             !.was = <<<<Kind(conf[c]), conf[c].size>>>>]]
  BY DEF UpdateRow
<1> DEFINE w == [conf[c] EXCEPT !.kind = k, !.prof = p, !.size = s]
           x == [Idle EXCEPT !.pc = "find", !.todo = <<c>>, !.mem = w, !.was = <<<<Kind(conf[c]), conf[c].size>>>>]
<1>2. /\ asks[r] = Idle /\ conf[c] # None /\ UNCHANGED <<conf, profile, alone>>
      /\ \A q \in Req : \A i \in DOMAIN asks[q].todo : asks[q].todo[i] # c
  BY NotBusy DEF UpdateRow
<1>3. conf[c] \in Configs  BY <1>2 DEF IdsInv, IdsTypeInv
<1>4. w \in Configs /\ w.base = conf[c].base  BY <1>3 DEF Configs
<1>5. Kind(conf[c]) \in {"isolated", "privileged", "shared"} /\ conf[c].size \in Nat
  BY <1>3, KindOf, IdmapAssumption DEF Configs, IdsInv, IdsTypeInv
<1> HIDE DEF w
<1>6. x \in IdsAsks
  <2>1. <<c>> \in Seq(Ctn)  OBVIOUS
  <2>2. <<<<Kind(conf[c]), conf[c].size>>>> \in Seq({"none", "shared", "isolated", "privileged"} \X Nat)  BY <1>5
  <2> QED  BY <1>4, <2>1, <2>2, IdleFact DEF IdsAsks
<1>7. asks' = [asks EXCEPT ![r] = x]  BY <1>1 DEF w
<1>x. x.pc = "find" /\ x.todo = <<c>> /\ x.mem = w /\ x.was = <<<<Kind(conf[c]), conf[c].size>>>> /\ x.new = FALSE
  BY IdleFact DEF IdsAsks
<1> HIDE DEF x
<1>8. asks' \in [Req -> IdsAsks] /\ asks'[r] = x /\ \A q \in Req \ {r} : asks'[q] = asks[q]
  BY <1>6, <1>7, AsksOne DEF IdsInv
<1>9. IdsTypeInv'  BY <1>2, <1>8 DEF IdsInv, IdsTypeInv, Kind
<1>10. TodoApart'
  <2>1. \A i \in DOMAIN x.todo : x.todo[i] = c /\ i = 1  BY <1>x
  <2> QED  BY <1>2, <1>8, <2>1, ApartKept DEF IdsInv
<1>11. TodoOf(r)'
  <2>1. /\ DOMAIN x.todo = {1} /\ x.todo[1] = c /\ DOMAIN x.was = {1} /\ x.was[1][2] = conf[c].size
        /\ x.todo # <<>>
    BY <1>x
  <2> QED  BY <1>2, <1>3, <1>4, <1>8, <1>x, <2>1 DEF TodoOf, Working
<1>12. ASSUME NEW q \in Req \ {r} PROVE TodoOf(q)'
  <2>1. /\ asks[q].todo # <<>> => 1 \in DOMAIN asks[q].todo
        /\ TodoOf(q) /\ \A i \in DOMAIN asks[q].todo : asks[q].todo[i] \in Ctn
    BY TodoSeq DEF IdsInv
  <2> QED  BY <1>2, <1>8, <2>1, OthersTodo
<1>13. \A q \in Req : Found(q)' => q # r  BY <1>8, <1>x DEF Found
<1>14. AloneInv'
  <2>1. \A q \in Req \ {r} : Found(q)' => Found(q)  BY <1>2, <1>8 DEF Found, Kind
  <2> QED  BY <1>2, <1>8, <1>13, <2>1, AloneSame DEF IdsInv
<1> QED  BY <1>9, <1>10, <1>11, <1>12, <1>14 DEF IdsInv

LEMMA LoadUsersKeeps == ASSUME IdsInv, NEW r \in Req, LoadUsers(r) PROVE IdsInv'
<1> DEFINE users == {c \in There : conf[c].prof}
<1>1. PICK k \in {"", "isolated"}, t \in SetToSeqs(users) :
        asks' = [asks EXCEPT ![r] =
          [Idle EXCEPT !.pc = "save", !.goal = k, !.todo = t, !.was = [i \in DOMAIN t |-> <<Kind(conf[t[i]]), conf[t[i]].size>>]]]
  BY DEF LoadUsers
<1> DEFINE was == [i \in DOMAIN t |-> <<Kind(conf[t[i]]), conf[t[i]].size>>]
           x == [Idle EXCEPT !.pc = "save", !.goal = k, !.todo = t, !.was = was]
<1>2. /\ asks[r] = Idle /\ UNCHANGED <<conf, profile, alone>>
      /\ \A c \in users : \A q \in Req : \A i \in DOMAIN asks[q].todo : asks[q].todo[i] # c
  BY NotBusy DEF LoadUsers
<1>3. /\ \A c \in users : c \in Ctn /\ conf[c] \in Configs  BY DEF There, IdsInv, IdsTypeInv
<1>4. /\ t \in [1 .. Cardinality(users) -> users]
      /\ \A i, j \in 1 .. Cardinality(users) : i # j => t[i] # t[j]
  <2> HIDE DEF users
  <2> QED  BY DEF SetToSeqs
<1>5. Cardinality(users) \in Nat
  BY <1>3, IdmapAssumption, FS_Subset, FS_CardinalityType
<1> HIDE DEF users
<1>6. DOMAIN t = 1 .. Cardinality(users) /\ \A i \in DOMAIN t : t[i] \in users /\ t[i] \in Ctn /\ conf[t[i]] \in Configs
  BY <1>3, <1>4
<1>7. t \in Seq(Ctn) /\ DOMAIN t = 1 .. Len(t)
  <2> DEFINE n == Cardinality(users)
  <2>1. n \in Nat /\ t \in [1 .. n -> Ctn]  BY <1>3, <1>4, <1>5
  <2> HIDE DEF n
  <2>2. t \in Seq(Ctn)  BY <2>1, SeqDef
  <2> QED  BY <2>2, LenProperties
<1>8. was \in Seq({"none", "shared", "isolated", "privileged"} \X Nat)
  <2>1. \A i \in DOMAIN t : Kind(conf[t[i]]) \in {"isolated", "privileged", "shared"} /\ conf[t[i]].size \in Nat
    BY <1>6, KindOf, IdmapAssumption DEF Configs, IdsInv, IdsTypeInv
  <2> DEFINE n == Cardinality(users)
             V == {"none", "shared", "isolated", "privileged"} \X Nat
  <2>2. n \in Nat /\ was \in [1 .. n -> V]  BY <1>5, <1>6, <2>1
  <2> HIDE DEF n, was, V
  <2>3. was \in Seq(V)  BY <2>2, SeqDef
  <2> QED  BY <2>3 DEF V
<1>w. DOMAIN was = DOMAIN t /\ \A i \in DOMAIN t : was[i][2] = conf[t[i]].size  OBVIOUS
<1> HIDE DEF was
<1>9. x \in IdsAsks  BY <1>7, <1>8, IdleFact DEF IdsAsks
<1>10. asks' = [asks EXCEPT ![r] = x]  BY <1>1 DEF was
<1>11. x.pc = "save" /\ x.todo = t /\ ~x.new /\ x.was = was  BY IdleFact DEF IdsAsks
<1> HIDE DEF x
<1>12. asks' \in [Req -> IdsAsks] /\ asks'[r] = x /\ \A q \in Req \ {r} : asks'[q] = asks[q]
  BY <1>9, <1>10, AsksOne DEF IdsInv
<1>13. IdsTypeInv'  BY <1>2, <1>12 DEF IdsInv, IdsTypeInv, Kind
<1>14. TodoApart'
  <2>1. \A i, j \in DOMAIN asks'[r].todo : asks'[r].todo[i] = asks'[r].todo[j] => i = j
    BY <1>4, <1>6, <1>11, <1>12
  <2>2. \A i \in DOMAIN asks'[r].todo : \A q \in Req \ {r} : \A j \in DOMAIN asks[q].todo :
          asks[q].todo[j] # asks'[r].todo[i]
    BY <1>2, <1>6, <1>11, <1>12
  <2> QED  BY <1>12, <2>1, <2>2, ApartKept DEF IdsInv
<1>15. TodoOf(r)'  BY <1>2, <1>6, <1>w, <1>11, <1>12 DEF TodoOf, Working
<1>16. ASSUME NEW q \in Req \ {r} PROVE TodoOf(q)'
  <2>1. /\ asks[q].todo # <<>> => 1 \in DOMAIN asks[q].todo
        /\ TodoOf(q) /\ \A i \in DOMAIN asks[q].todo : asks[q].todo[i] \in Ctn
    BY TodoSeq DEF IdsInv
  <2> QED  BY <1>2, <1>12, <2>1, OthersTodo
<1>17. \A q \in Req : Found(q)' => q # r  BY <1>11, <1>12 DEF Found
<1>18. AloneInv'
  <2>1. \A q \in Req \ {r} : Found(q)' => Found(q)  BY <1>2, <1>12 DEF Found, Kind
  <2> QED  BY <1>2, <1>12, <1>17, <2>1, AloneSame DEF IdsInv
<1> QED  BY <1>13, <1>14, <1>15, <1>16, <1>18 DEF IdsInv


LEMMA SaveKeeps == ASSUME IdsInv, NEW r \in Req, SaveProfile(r) PROVE IdsInv'
<1> DEFINE b == [asks[r] EXCEPT !.sole = FALSE]
           x == IF b.todo = <<>> THEN Idle ELSE [b EXCEPT !.pc = "find", !.mem = conf[asks[r].todo[1]]]
<1>1. /\ asks[r].pc = "save" /\ profile' = asks[r].goal /\ conf' = conf
      /\ alone' = {c \in alone : ~conf[c].prof \/ conf[c].kind # ""}
  BY DEF SaveProfile
<1>2. asks' = [[q \in Req |-> [asks[q] EXCEPT !.sole = FALSE]] EXCEPT ![r] = x]  BY DEF SaveProfile
<1>3. \A q \in Req : asks[q] \in IdsAsks /\ TodoOf(q)  BY TodoSeq DEF IdsInv
<1>4. /\ b \in IdsAsks /\ b.todo = asks[r].todo /\ b.was = asks[r].was /\ b.new = asks[r].new /\ b.sole = FALSE
  BY <1>3 DEF IdsAsks
<1> HIDE DEF b
<1>5. asks[r].todo # <<>> => 1 \in DOMAIN asks[r].todo /\ conf[asks[r].todo[1]] \in Configs
  BY <1>3, TodoSeq DEF TodoOf, IdsInv
<1>6. x \in IdsAsks  BY <1>4, <1>5, IdleFact DEF IdsAsks
<1>7. /\ asks[r].todo = <<>> => x = Idle
      /\ asks[r].todo # <<>> =>
           /\ x.pc = "find" /\ x.todo = asks[r].todo /\ x.was = asks[r].was /\ x.new = asks[r].new /\ x.sole = FALSE
           /\ x.mem = conf[asks[r].todo[1]]
  BY <1>4 DEF IdsAsks
<1> HIDE DEF x
<1>8. /\ asks'[r] = x /\ \A q \in Req \ {r} : asks'[q] = [asks[q] EXCEPT !.sole = FALSE]
  BY <1>2
<1>9. \A q \in Req \ {r} : /\ asks'[q] \in IdsAsks /\ asks'[q].pc = asks[q].pc /\ asks'[q].todo = asks[q].todo
                           /\ asks'[q].was = asks[q].was /\ asks'[q].new = asks[q].new /\ asks'[q].mem = asks[q].mem
                           /\ asks'[q].sole = FALSE
  <2> SUFFICES ASSUME NEW q \in Req \ {r}
               PROVE  /\ asks'[q] \in IdsAsks /\ asks'[q].pc = asks[q].pc /\ asks'[q].todo = asks[q].todo
                      /\ asks'[q].was = asks[q].was /\ asks'[q].new = asks[q].new /\ asks'[q].mem = asks[q].mem
                      /\ asks'[q].sole = FALSE
    OBVIOUS
  <2>1. asks[q] \in IdsAsks /\ asks'[q] = [asks[q] EXCEPT !.sole = FALSE]  BY <1>3, <1>8
  <2> QED  BY <2>1 DEF IdsAsks
<1>10. asks' \in [Req -> IdsAsks]
  <2>1. asks' = [q \in Req |-> asks'[q]]  BY <1>2
  <2> QED  BY <1>6, <1>8, <1>9, <2>1
<1>11. IdsTypeInv'
  <2>1. profile' \in {"", "isolated"}  BY <1>1, <1>3 DEF IdsAsks
  <2>2. \A c \in alone' : c \in Ctn /\ conf'[c] \in Configs /\ Kind(conf[c])' = "isolated"
    BY <1>1 DEF IdsInv, IdsTypeInv, Kind
  <2> QED  BY <1>1, <1>10, <2>1, <2>2 DEF IdsInv, IdsTypeInv
<1>12. TodoApart'
  <2>1. \A i \in DOMAIN asks'[r].todo : i \in DOMAIN asks[r].todo /\ asks'[r].todo[i] = asks[r].todo[i]
    BY <1>7, <1>8, IdleFact
  <2>2. \A q \in Req \ {r} : asks'[q].todo = asks[q].todo  BY <1>9
  <2>3. \A i, j \in DOMAIN asks'[r].todo : asks'[r].todo[i] = asks'[r].todo[j] => i = j
    BY <2>1 DEF IdsInv, TodoApart
  <2>4. \A i \in DOMAIN asks'[r].todo : \A q \in Req \ {r} : \A j \in DOMAIN asks[q].todo :
          asks[q].todo[j] # asks'[r].todo[i]
    BY <2>1 DEF IdsInv, TodoApart
  <2> QED  BY <2>2, <2>3, <2>4, ApartKept DEF IdsInv
<1>13. TodoOf(r)'
  <2>1. CASE asks[r].todo = <<>>  BY <1>7, <1>8, <2>1, IdleFact DEF TodoOf, Working
  <2>2. CASE asks[r].todo # <<>>
    <3>1. /\ asks'[r].pc = "find" /\ asks'[r].todo = asks[r].todo /\ asks'[r].was = asks[r].was
          /\ asks'[r].new = asks[r].new /\ asks'[r].mem = conf[asks[r].todo[1]]
      BY <1>7, <1>8, <2>2
    <3>2. /\ conf[asks[r].todo[1]] \in Configs /\ alone' \subseteq alone /\ conf' = conf
          /\ TodoOf(r) /\ asks[r].pc = "save"
      BY <1>1, <1>3, <1>5, <2>2
    <3> QED  BY <2>2, <3>1, <3>2 DEF TodoOf, Working
  <2> QED  BY <2>1, <2>2
<1>14. ASSUME NEW q \in Req \ {r} PROVE TodoOf(q)'
  <2>1. TodoOf(q) /\ alone' \subseteq alone  BY <1>1, <1>3
  <2> QED  BY <1>1, <1>9, <2>1 DEF TodoOf, Working
<1>15. \A q \in Req : ~Found(q)'  BY <1>1, <1>7, <1>8, <1>9, IdleFact DEF Found
<1>16. AloneInv'  BY <1>1, <1>15, AloneSame DEF IdsInv
<1> QED  BY <1>11, <1>12, <1>13, <1>14, <1>16 DEF IdsInv

\* On to the next of its list: the others keep theirs.
LEMMA OnwardFact ==
  ASSUME IdsInv, NEW r \in Req, Working(r), Onward(r),
         \A d \in Ctn \ {asks[r].todo[1]} : conf'[d] = conf[d] /\ (d \in alone' => d \in alone)
  PROVE  /\ asks' \in [Req -> IdsAsks] /\ \A q \in Req \ {r} : asks'[q] = asks[q]
         /\ TodoApart' /\ (\A q \in Req : TodoOf(q)') /\ ~Found(r)'
<1> DEFINE a == asks[r]
           x == IF Len(a.todo) = 1 THEN Idle
                ELSE [a EXCEPT !.pc = "find", !.todo = Tail(a.todo), !.was = Tail(a.was), !.mem = conf[a.todo[2]]]
<1>1. asks' = [asks EXCEPT ![r] = x]  BY DEF Onward
<1>2. /\ a \in IdsAsks /\ a.todo \in Seq(Ctn) /\ Len(a.todo) \in Nat /\ DOMAIN a.todo = 1 .. Len(a.todo)
      /\ Len(a.todo) > 0 /\ 1 \in DOMAIN a.todo /\ \A i \in DOMAIN a.todo : a.todo[i] \in Ctn
  BY TodoSeq DEF IdsInv, TodoOf, Working
<1>3. /\ \A i \in DOMAIN a.todo : /\ conf[a.todo[i]] \in Configs
                                  /\ ~a.new => a.was[i][2] = conf[a.todo[i]].size
                                  /\ a.new => Len(a.todo) = 1
      /\ DOMAIN a.was = DOMAIN a.todo
  BY DEF IdsInv, TodoOf, Working
<1>4. a.was \in Seq({"none", "shared", "isolated", "privileged"} \X Nat)  BY <1>2 DEF IdsAsks
<1> HIDE DEF a
<1>5. Len(a.was) = Len(a.todo)
  <2>1. Len(a.was) \in Nat /\ DOMAIN a.was = 1 .. Len(a.was)  BY <1>4, LenProperties
  <2> QED  BY <1>2, <1>3, <2>1
<1>6. /\ Tail(a.todo) \in Seq(Ctn) /\ Len(Tail(a.todo)) = Len(a.todo) - 1
      /\ \A i \in 1 .. Len(Tail(a.todo)) : Tail(a.todo)[i] = a.todo[i + 1]
  BY <1>2, HeadTailProperties
<1>7. /\ Tail(a.was) \in Seq({"none", "shared", "isolated", "privileged"} \X Nat) /\ Len(Tail(a.was)) = Len(a.todo) - 1
      /\ \A i \in 1 .. Len(Tail(a.was)) : Tail(a.was)[i] = a.was[i + 1]
  <2>1. a.was # <<>>  BY <1>2, <1>3
  <2> QED  BY <1>4, <1>5, <2>1, HeadTailProperties
<1>8. /\ DOMAIN Tail(a.todo) = 1 .. Len(a.todo) - 1 /\ DOMAIN Tail(a.was) = 1 .. Len(a.todo) - 1
  BY <1>6, <1>7, LenProperties
<1>9. Len(a.todo) # 1 => 2 \in DOMAIN a.todo /\ 1 \in 1 .. Len(a.todo) - 1
  <2> DEFINE n == Len(a.todo)
  <2>1. n \in Nat /\ n > 0 /\ DOMAIN a.todo = 1 .. n  BY <1>2
  <2> HIDE DEF n
  <2>2. n # 1 => 2 \in DOMAIN a.todo /\ 1 \in 1 .. n - 1  BY <2>1
  <2> QED  BY <2>2 DEF n
<1>10. x \in IdsAsks  BY <1>2, <1>3, <1>6, <1>7, <1>9, IdleFact DEF IdsAsks
<1>11. /\ Len(a.todo) = 1 => x = Idle
       /\ Len(a.todo) # 1 => /\ x.pc = "find" /\ x.todo = Tail(a.todo) /\ x.was = Tail(a.was)
                             /\ x.new = a.new /\ x.mem = conf[a.todo[2]]
  BY <1>2 DEF IdsAsks
<1> HIDE DEF x
<1>12. asks' \in [Req -> IdsAsks] /\ asks'[r] = x /\ \A q \in Req \ {r} : asks'[q] = asks[q]
  BY <1>1, <1>10, AsksOne DEF IdsInv
<1>13. \A i \in DOMAIN asks'[r].todo : /\ Len(a.todo) # 1 /\ i + 1 \in DOMAIN a.todo /\ i \in Nat
                                       /\ asks'[r].todo[i] = a.todo[i + 1]
  <2>1. CASE Len(a.todo) = 1  BY <1>11, <1>12, <2>1, IdleFact
  <2>2. CASE Len(a.todo) # 1
    <3> SUFFICES ASSUME NEW i \in DOMAIN asks'[r].todo
                 PROVE  i + 1 \in DOMAIN a.todo /\ i \in Nat /\ asks'[r].todo[i] = a.todo[i + 1]
      BY <2>2
    <3>1. asks'[r].todo = Tail(a.todo)  BY <1>11, <1>12, <2>2
    <3> DEFINE n == Len(a.todo)
    <3>2. i \in 1 .. n - 1 /\ n \in Nat /\ DOMAIN a.todo = 1 .. n  BY <1>2, <1>8, <3>1
    <3>3. Tail(a.todo)[i] = a.todo[i + 1]  BY <1>6, <1>8, <3>1
    <3> HIDE DEF n
    <3>4. i + 1 \in DOMAIN a.todo /\ i \in Nat  BY <3>2
    <3> QED  BY <3>1, <3>3, <3>4
  <2> QED  BY <2>1, <2>2
<1>14. /\ \A i, j \in DOMAIN a.todo : a.todo[i] = a.todo[j] => i = j
       /\ \A i \in DOMAIN a.todo : \A q \in Req \ {r} : \A j \in DOMAIN asks[q].todo : asks[q].todo[j] # a.todo[i]
  BY DEF a, IdsInv, TodoApart
<1>15. TodoApart'
  <2>1. \A i, j \in DOMAIN asks'[r].todo : asks'[r].todo[i] = asks'[r].todo[j] => i = j
    <3> SUFFICES ASSUME NEW i \in DOMAIN asks'[r].todo, NEW j \in DOMAIN asks'[r].todo, asks'[r].todo[i] = asks'[r].todo[j]
                 PROVE  i = j
      OBVIOUS
    <3>1. i + 1 = j + 1  BY <1>13, <1>14
    <3> QED  BY <1>13, <3>1
  <2>2. \A i \in DOMAIN asks'[r].todo : \A q \in Req \ {r} : \A j \in DOMAIN asks[q].todo :
          asks[q].todo[j] # asks'[r].todo[i]
    BY <1>13, <1>14
  <2>3. \A q \in Req \ {r} : asks'[q].todo = asks[q].todo  BY <1>12
  <2> QED  BY <2>1, <2>2, <2>3, ApartKept DEF IdsInv
<1>16. \A i \in DOMAIN a.todo : i # 1 => conf'[a.todo[i]] = conf[a.todo[i]]  BY <1>2, <1>14 DEF a
<1>17. TodoOf(r)'
  <2>1. CASE Len(a.todo) = 1  BY <1>11, <1>12, <2>1, IdleFact DEF TodoOf, Working
  <2>2. CASE Len(a.todo) # 1
    <3>1. asks'[r].pc = "find" /\ ~asks'[r].new /\ asks'[r].mem = conf[a.todo[2]]
          /\ asks'[r].todo = Tail(a.todo) /\ asks'[r].was = Tail(a.was)
      BY <1>2, <1>3, <1>11, <1>12, <2>2
    <3>2. \A i \in DOMAIN asks'[r].todo : /\ conf'[asks'[r].todo[i]] \in Configs
                                          /\ asks'[r].was[i][2] = conf'[asks'[r].todo[i]].size
      <4> SUFFICES ASSUME NEW i \in DOMAIN asks'[r].todo
                   PROVE  /\ conf'[asks'[r].todo[i]] \in Configs
                          /\ asks'[r].was[i][2] = conf'[asks'[r].todo[i]].size
        OBVIOUS
      <4>1. i + 1 \in DOMAIN a.todo /\ i + 1 # 1 /\ asks'[r].todo[i] = a.todo[i + 1] /\ i \in Nat
        <5>1. i \in 1 .. Len(a.todo) - 1  BY <1>8, <3>1
        <5> QED  BY <1>2, <1>13, <5>1
      <4>2. asks'[r].was[i] = a.was[i + 1]  BY <1>7, <1>8, <3>1
      <4>3. ~a.new  BY <1>2, <1>3, <2>2
      <4> QED  BY <1>3, <1>16, <4>1, <4>2, <4>3
    <3>3. asks'[r].todo # <<>> /\ asks'[r].todo[1] = a.todo[2] /\ 1 \in DOMAIN asks'[r].todo
      <4>1. 1 \in 1 .. Len(a.todo) - 1  BY <1>9, <2>2
      <4> QED  BY <1>6, <1>8, <3>1, <4>1
    <3>4. conf'[a.todo[2]] = conf[a.todo[2]] /\ conf[a.todo[2]] \in Configs  BY <1>3, <1>9, <1>16, <2>2
    <3>5. DOMAIN asks'[r].was = DOMAIN asks'[r].todo  BY <1>8, <3>1
    <3> QED  BY <3>1, <3>2, <3>3, <3>4, <3>5 DEF TodoOf, Working
  <2> QED  BY <2>1, <2>2
<1>18. ASSUME NEW q \in Req \ {r} PROVE TodoOf(q)'
  <2>1. /\ asks[q].todo # <<>> => 1 \in DOMAIN asks[q].todo
        /\ TodoOf(q) /\ \A i \in DOMAIN asks[q].todo : asks[q].todo[i] \in Ctn
    BY TodoSeq DEF IdsInv
  <2>2. \A i \in DOMAIN asks[q].todo : asks[q].todo[i] # a.todo[1]  BY <1>2, <1>14
  <2> QED  BY <1>12, <2>1, <2>2, OthersTodo DEF a
<1>19. ~Found(r)'  BY <1>11, <1>12, IdleFact DEF Found
<1> QED  BY <1>12, <1>15, <1>17, <1>18, <1>19

\* What is found when the kind or the size has changed, and every other isolated
\* container has a range of its own, is apart from those ranges.
LEMMA FoundApart ==
  ASSUME IdsInv, NEW c \in Ctn, NEW size \in Sizes, NEW base \in findIdmap(c, size) \ {None},
         Isolated \ {c} \subseteq alone
  PROVE  /\ base \in Nat /\ HostBase < base /\ base + size <= HostBase + Span
         /\ \A d \in alone \ {c} : base + size <= conf[d].base \/ End(d) <= base
<1> DEFINE S == Isolated \ {c}
<1>1. S \in SUBSET Ctn  BY DEF Isolated, There
<1>2. PICK es \in Orders(S) :
        base \in (LET gaps == {k \in 0 .. Len(es) : Gap(es, k, size)}
                  IN IF gaps = {} THEN {None} ELSE {After(es, k) : k \in {g \in gaps : \A h \in gaps : g <= h}})
  BY DEF findIdmap
<1>3. PICK k \in 0 .. Len(es) : Gap(es, k, size) /\ base = After(es, k)  BY <1>2
<1>4. \A d \in alone : conf[d] \in Configs /\ InBounds(conf[d]) /\ \A e \in alone \ {d} : Disjoint(conf[d], conf[e])
  BY DEF IdsInv, IdsTypeInv, AloneInv
<1>5. alone \ {c} \subseteq S
  BY IdmapAssumption DEF IdsInv, IdsTypeInv, Isolated, There, Configs
<1>6. size \in Nat \ {0}  BY IdmapAssumption
<1>7. \A d \in S : conf[d] \in Configs /\ InBounds(conf[d]) /\ \A e \in S \ {d} : Disjoint(conf[d], conf[e])  BY <1>4
<1> HIDE DEF S
<1>8. /\ After(es, k) \in Nat /\ HostBase < After(es, k) /\ After(es, k) + size <= HostBase + Span
      /\ \A d \in S : After(es, k) + size <= conf[d].base \/ End(d) <= After(es, k)
  BY <1>1, <1>3, <1>6, <1>7, GapIsReal
<1> QED  BY <1>3, <1>5, <1>8

\* What findIdmap answers is a number.
LEMMA FoundNat ==
  ASSUME IdsTypeInv, NEW c \in Ctn, NEW size, NEW base \in findIdmap(c, size) \ {None}
  PROVE  base \in Nat
<1> DEFINE S == Isolated \ {c}
<1>1. S \in SUBSET Ctn /\ \A d \in S : conf[d] \in Configs  BY DEF Isolated, There, IdsTypeInv
<1>2. PICK es \in Orders(S) :
        base \in (LET gaps == {k \in 0 .. Len(es) : Gap(es, k, size)}
                  IN IF gaps = {} THEN {None} ELSE {After(es, k) : k \in {g \in gaps : \A h \in gaps : g <= h}})
  BY DEF findIdmap
<1>3. PICK k \in 0 .. Len(es) : base = After(es, k)  BY <1>2
<1> HIDE DEF S
<1>4. Len(es) \in Nat /\ \A i \in 1 .. Len(es) : es[i] \in S  BY <1>1, OrderOf
<1>5. CASE k = 0
  <2>1. base = HostBase + 1  BY <1>3, <1>5 DEF After
  <2>2. HostBase \in Nat  BY IdmapAssumption
  <2> QED  BY <2>1, <2>2
<1>6. CASE k # 0
  <2>1. k \in 1 .. Len(es)  BY <1>4, <1>6
  <2>2. conf[es[k]] \in Configs  BY <1>1, <1>4, <2>1
  <2>3. conf[es[k]].base \in Nat /\ conf[es[k]].size \in Nat  BY <2>2, IdmapAssumption DEF Configs
  <2> QED  BY <1>3, <1>6, <2>3 DEF After, End
<1> QED  BY <1>5, <1>6

LEMMA DisjointBack ==
  ASSUME NEW w \in Configs, NEW v \in Configs PROVE Disjoint(w, v) => Disjoint(v, w)
BY DEF Disjoint

LEMMA FindRangeKeeps == ASSUME IdsInv, NEW r \in Req, FindRange(r) PROVE IdsInv'
<1> DEFINE a == asks[r]
           c == a.todo[1]
           w == a.mem
           changed == a.was[1] # <<Kind(w), w.size>>
           bases == IF ~changed THEN {w.base}
                    ELSE IF Kind(w) = "isolated" THEN findIdmap(c, w.size) \ {None} ELSE {0}
           sole == IF changed
                   THEN /\ Isolated \ {c} \subseteq alone
                        /\ \A q \in Req \ {r} : asks[q].pc # "record"
                   ELSE c \in alone
<1>1. PICK base \in bases :
        asks' = [asks EXCEPT ![r].pc = "record", ![r].mem.base = base, ![r].sole = sole]
  BY DEF FindRange
<1>2. a.pc = "find" /\ UNCHANGED <<conf, profile, alone>>  BY DEF FindRange
<1>3. /\ a \in IdsAsks /\ TodoOf(r) /\ w \in Configs /\ 1 \in DOMAIN a.todo /\ c \in Ctn /\ conf[c] \in Configs
  BY <1>2, TodoSeq DEF IdsInv, TodoOf, Working
<1>4. base \in Nat
  <2>1. w.base \in Nat  BY <1>3 DEF Configs
  <2>2. \A b \in findIdmap(c, w.size) \ {None} : b \in Nat  BY <1>3, FoundNat DEF IdsInv
  <2> QED  BY <2>1, <2>2
<1>5. sole \in BOOLEAN
  <2>1. CASE changed  BY <2>1, Zenon
  <2>2. CASE ~changed
    <3>1. (c \in alone) \in BOOLEAN  OBVIOUS
    <3>2. sole = (c \in alone)  BY <2>2, Zenon
    <3> QED  BY <3>1, <3>2, Zenon
  <2> QED  BY <2>1, <2>2
<1>6. changed /\ sole => /\ Isolated \ {c} \subseteq alone
                         /\ \A q \in Req \ {r} : asks[q].pc # "record"
  OBVIOUS
<1>7. ~changed /\ sole => c \in alone  OBVIOUS
<1>8. /\ ~changed => base = w.base /\ a.was[1] = <<Kind(w), w.size>>
      /\ changed /\ Kind(w) = "isolated" => base \in findIdmap(c, w.size) \ {None}
  OBVIOUS
<1> DEFINE v == [w EXCEPT !.base = base]
           x == [a EXCEPT !.pc = "record", !.mem = v, !.sole = sole]
<1> HIDE DEF sole, bases, changed
<1>9. v \in Configs /\ v.base = base /\ v.size = w.size /\ v.kind = w.kind /\ v.prof = w.prof
  BY <1>3, <1>4 DEF Configs
<1>10. asks' = [asks EXCEPT ![r] = x]
  <2>1. asks \in [Req -> IdsAsks]  BY DEF IdsInv, IdsTypeInv
  <2> QED  BY <1>1, <2>1 DEF IdsAsks
<1> HIDE DEF v, w, c
<1>11. x \in IdsAsks  BY <1>3, <1>5, <1>9 DEF IdsAsks
<1>12. x.pc = "record" /\ x.todo = a.todo /\ x.was = a.was /\ x.new = a.new /\ x.mem = v /\ x.sole = sole
  BY <1>3 DEF IdsAsks
<1> HIDE DEF x
<1>13. asks' \in [Req -> IdsAsks] /\ asks'[r] = x /\ \A q \in Req \ {r} : asks'[q] = asks[q]
  BY <1>10, <1>11, AsksOne DEF IdsInv
<1>14. IdsTypeInv'  BY <1>2, <1>13 DEF IdsInv, IdsTypeInv, Kind
<1>15. TodoApart'
  <2>1. \A q \in Req : asks'[q].todo = asks[q].todo  BY <1>12, <1>13
  <2> QED  BY <2>1 DEF IdsInv, TodoApart
<1>16. TodoOf(r)'  BY <1>2, <1>3, <1>9, <1>12, <1>13 DEF TodoOf, Working
<1>17. ASSUME NEW q \in Req \ {r} PROVE TodoOf(q)'
  <2>1. (asks[q].todo # <<>> => 1 \in DOMAIN asks[q].todo) /\ TodoOf(q)  BY TodoSeq DEF IdsInv
  <2> QED  BY <1>2, <1>13, <2>1, OthersTodo
<1>18. \A q \in Req \ {r} : Found(q)' => Found(q) /\ asks'[q] = asks[q]  BY <1>2, <1>13 DEF Found, Kind
<1>19. Found(r)' => sole /\ Kind(w) = "isolated"
  <2>1. asks'[r].mem = v /\ asks'[r].sole = sole  BY <1>12, <1>13
  <2>2. Kind(asks[r].mem)' = Kind(w)  BY <1>2, <1>9, <2>1 DEF Kind
  <2> QED  BY <2>1, <2>2 DEF Found
<1>20. ASSUME Found(r)'
       PROVE  /\ InBounds(v) /\ \A d \in alone \ {c} : Disjoint(v, conf[d])
              /\ \A q \in Req \ {r} : Found(q) => Disjoint(v, asks[q].mem) /\ asks[q].mem \in Configs
  <2>1. CASE changed
    <3>1. w.size \in Sizes  BY <1>3 DEF Configs
    <3>2. /\ base \in Nat /\ HostBase < base /\ base + w.size <= HostBase + Span
          /\ \A d \in alone \ {c} : base + w.size <= conf[d].base \/ End(d) <= base
      BY <1>3, <1>6, <1>8, <1>19, <1>20, <2>1, <3>1, FoundApart
    <3>3. \A q \in Req \ {r} : ~Found(q)  BY <1>6, <1>19, <1>20, <2>1 DEF Found
    <3> QED  BY <1>9, <3>2, <3>3 DEF InBounds, Disjoint, End
  <2>2. CASE ~changed
    <3>1. c \in alone  BY <1>7, <1>19, <1>20, <2>2
    <3>2. ~a.new
      <4>1. w.kind \in Kinds /\ Kind(w) \in {"isolated", "privileged", "shared"}
        BY <1>3, KindOf DEF Configs, IdsInv, IdsTypeInv
      <4> QED  BY <1>3, <1>8, <2>2, <4>1 DEF TodoOf, c
    <3>3. w.size = conf[c].size  BY <1>3, <1>8, <2>2, <3>2 DEF TodoOf, c
    <3>4. w.base = conf[c].base  BY <1>2, <1>3 DEF TodoOf, w, c
    <3>5. v.base = conf[c].base /\ v.size = conf[c].size  BY <1>8, <1>9, <2>2, <3>3, <3>4
    <3>6. InBounds(conf[c]) /\ \A d \in alone \ {c} : Disjoint(conf[c], conf[d])  BY <3>1 DEF IdsInv, AloneInv
    <3>7. ASSUME NEW q \in Req \ {r}, Found(q) PROVE Disjoint(asks[q].mem, conf[c]) /\ asks[q].mem \in Configs
      <4>1. 1 \in DOMAIN asks[q].todo /\ asks[q].mem \in Configs
        BY <3>7, TodoSeq DEF IdsInv, TodoOf, Working, Found
      <4>2. asks[q].todo[1] # c  BY <1>3, <4>1 DEF IdsInv, TodoApart, c
      <4> QED  BY <3>1, <3>7, <4>1, <4>2 DEF IdsInv, AloneInv
    <3>8. \A q \in Req \ {r} : Found(q) => Disjoint(v, asks[q].mem) /\ asks[q].mem \in Configs
      <4> SUFFICES ASSUME NEW q \in Req \ {r}, Found(q) PROVE Disjoint(v, asks[q].mem) /\ asks[q].mem \in Configs
        OBVIOUS
      <4> QED  BY <3>5, <3>7 DEF Disjoint
    <3> QED  BY <3>5, <3>6, <3>8 DEF InBounds, Disjoint
  <2> QED  BY <2>1, <2>2
<1>21. AloneInv'
  <2>1. \A d \in alone' : InBounds(conf[d])' /\ \A e \in alone' \ {d} : Disjoint(conf[d], conf[e])'
    BY <1>2 DEF IdsInv, AloneInv
  <2>2. ASSUME NEW p \in Req, Found(p)'
        PROVE  /\ InBounds(asks[p].mem)' /\ \A d \in alone' \ {asks'[p].todo[1]} : Disjoint(asks[p].mem, conf[d])'
               /\ \A q \in Req \ {p} : Found(q)' => Disjoint(asks[p].mem, asks[q].mem)'
    <3>1. CASE p = r
      <4>1. asks'[r].mem = v /\ asks'[r].todo[1] = c  BY <1>12, <1>13 DEF c
      <4> QED  BY <1>2, <1>13, <1>18, <1>20, <2>2, <3>1, <4>1
    <3>2. CASE p # r
      <4>1. Found(p) /\ asks'[p] = asks[p]  BY <1>18, <2>2, <3>2
      <4>2. /\ InBounds(asks[p].mem) /\ \A d \in alone \ {asks[p].todo[1]} : Disjoint(asks[p].mem, conf[d])
            /\ \A q \in Req \ {p} : Found(q) => Disjoint(asks[p].mem, asks[q].mem)
        BY <4>1 DEF IdsInv, AloneInv
      <4>3. Found(r)' => Disjoint(asks[p].mem, v)
        <5>1. Found(r)' => Disjoint(v, asks[p].mem) /\ asks[p].mem \in Configs  BY <1>20, <3>2, <4>1
        <5> QED  BY <1>9, <5>1, DisjointBack
      <4>4. asks'[r].mem = v  BY <1>12, <1>13
      <4> QED  BY <1>2, <1>18, <4>1, <4>2, <4>3, <4>4
    <3> QED  BY <3>1, <3>2
  <2> QED  BY <2>1, <2>2 DEF AloneInv
<1> QED  BY <1>14, <1>15, <1>16, <1>17, <1>21 DEF IdsInv

LEMMA NoRangeKeeps == ASSUME IdsInv, NEW r \in Req, NoRange(r) PROVE IdsInv'
<1> DEFINE c == asks[r].todo[1]
<1>1. /\ asks[r].pc = "find" /\ Onward(r) /\ UNCHANGED <<profile, alone>>
      /\ conf' = IF asks[r].new THEN [conf EXCEPT ![c] = None] ELSE conf
  BY DEF NoRange
<1>2. c \in Ctn /\ (asks[r].new => c \notin alone)
  BY <1>1, TodoSeq DEF IdsInv, TodoOf, Working
<1>3. /\ conf' \in [Ctn -> Configs \cup {None}] /\ \A d \in Ctn \ {c} : conf'[d] = conf[d]
      /\ \A d \in alone : conf'[d] = conf[d]
  BY <1>1, <1>2 DEF IdsInv, IdsTypeInv
<1>4. Working(r)  BY <1>1 DEF Working
<1>5. /\ asks' \in [Req -> IdsAsks] /\ \A q \in Req \ {r} : asks'[q] = asks[q]
      /\ TodoApart' /\ (\A q \in Req : TodoOf(q)') /\ ~Found(r)'
  BY <1>1, <1>3, <1>4, OnwardFact
<1>6. IdsTypeInv'
  <2>1. /\ profile' = profile /\ alone' = alone /\ profile \in {"", "isolated"}
        /\ \A d \in alone : d \in Ctn /\ conf[d] \in Configs /\ Kind(conf[d]) = "isolated"
    BY <1>1 DEF IdsInv, IdsTypeInv
  <2>2. \A d \in alone' : d \in Ctn /\ conf'[d] \in Configs /\ Kind(conf[d])' = "isolated"
    BY <1>3, <2>1 DEF Kind
  <2> QED  BY <1>3, <1>5, <2>1, <2>2 DEF IdsTypeInv
<1>7. AloneInv'
  <2>1. \A q \in Req \ {r} : Found(q)' => Found(q)  BY <1>1, <1>5 DEF Found, Kind
  <2> QED  BY <1>1, <1>3, <1>5, <2>1, AloneSame DEF IdsInv
<1> QED  BY <1>5, <1>6, <1>7 DEF IdsInv

LEMMA RecordKeeps == ASSUME IdsInv, NEW r \in Req, RecordRange(r) PROVE IdsInv'
<1> DEFINE c == asks[r].todo[1]
           w == asks[r].mem
<1>1. /\ asks[r].pc = "record" /\ Onward(r) /\ profile' = profile /\ conf' = [conf EXCEPT ![c] = w]
      /\ alone' = IF asks[r].sole /\ Kind(w) = "isolated" THEN alone \cup {c} ELSE alone \ {c}
  BY DEF RecordRange
<1>2. c \in Ctn /\ w \in Configs /\ Working(r)
  BY <1>1, TodoSeq DEF IdsInv, TodoOf, Working
<1>3. /\ conf' \in [Ctn -> Configs \cup {None}] /\ conf'[c] = w /\ \A d \in Ctn \ {c} : conf'[d] = conf[d]
  BY <1>1, <1>2 DEF IdsInv, IdsTypeInv
<1>4. /\ asks' \in [Req -> IdsAsks] /\ \A q \in Req \ {r} : asks'[q] = asks[q]
      /\ TodoApart' /\ (\A q \in Req : TodoOf(q)') /\ ~Found(r)'
  BY <1>1, <1>2, <1>3, OnwardFact
<1>5. c \in alone' => Found(r) /\ Kind(w) = "isolated"  BY <1>1 DEF Found
<1>6. \A d \in alone' \ {c} : d \in alone /\ d \in Ctn /\ conf'[d] = conf[d]
  BY <1>1, <1>3 DEF IdsInv, IdsTypeInv
<1>7. IdsTypeInv'
  <2>1. \A d \in alone' : d \in Ctn /\ conf'[d] \in Configs /\ Kind(conf[d])' = "isolated"
    <3> SUFFICES ASSUME NEW d \in alone' PROVE d \in Ctn /\ conf'[d] \in Configs /\ Kind(conf[d])' = "isolated"
      OBVIOUS
    <3>1. CASE d = c  BY <1>1, <1>2, <1>3, <1>5, <3>1 DEF Kind
    <3>2. CASE d # c  BY <1>1, <1>6, <3>2 DEF IdsInv, IdsTypeInv, Kind
    <3> QED  BY <3>1, <3>2
  <2> QED  BY <1>1, <1>3, <1>4, <2>1 DEF IdsInv, IdsTypeInv
<1>8. Found(r) => /\ InBounds(w) /\ \A d \in alone \ {c} : Disjoint(w, conf[d])
                  /\ \A q \in Req \ {r} : Found(q) => Disjoint(w, asks[q].mem)
  BY DEF IdsInv, AloneInv
<1>9. \A d \in alone : conf[d] \in Configs /\ InBounds(conf[d]) /\ \A e \in alone \ {d} : Disjoint(conf[d], conf[e])
  BY DEF IdsInv, IdsTypeInv, AloneInv
<1> HIDE DEF c, w
<1>10. AloneInv'
  <2>1. ASSUME NEW d \in alone', NEW e \in alone' \ {d} PROVE InBounds(conf[d])' /\ Disjoint(conf[d], conf[e])'
    <3>1. CASE d = c  BY <1>3, <1>5, <1>6, <1>8, <3>1 DEF InBounds, Disjoint
    <3>2. CASE d # c /\ e = c
      <4>1. Disjoint(w, conf[d]) /\ conf[d] \in Configs  BY <1>5, <1>6, <1>8, <1>9, <3>2
      <4>2. Disjoint(conf[d], w)  BY <1>2, <4>1, DisjointBack
      <4> QED  BY <1>3, <1>6, <1>9, <3>2, <4>2 DEF InBounds, Disjoint
    <3>3. CASE d # c /\ e # c  BY <1>6, <1>9, <3>3 DEF InBounds, Disjoint
    <3> QED  BY <3>1, <3>2, <3>3
  <2>2. ASSUME NEW d \in alone' PROVE InBounds(conf[d])'
    <3>1. CASE d = c  BY <1>3, <1>5, <1>8, <2>2, <3>1 DEF InBounds
    <3>2. CASE d # c  BY <1>6, <1>9, <3>2 DEF InBounds
    <3> QED  BY <3>1, <3>2
  <2>3. ASSUME NEW p \in Req, Found(p)'
        PROVE  /\ InBounds(asks[p].mem)' /\ \A d \in alone' \ {asks'[p].todo[1]} : Disjoint(asks[p].mem, conf[d])'
               /\ \A q \in Req \ {p} : Found(q)' => Disjoint(asks[p].mem, asks[q].mem)'
    <3>1. p # r /\ asks'[p] = asks[p]  BY <1>4, <2>3
    <3>2. \A q \in Req \ {r} : Found(q)' => Found(q) /\ asks'[q] = asks[q]  BY <1>1, <1>4 DEF Found, Kind
    <3>3. Found(p)  BY <2>3, <3>1, <3>2
    <3>4. /\ InBounds(asks[p].mem) /\ \A d \in alone \ {asks[p].todo[1]} : Disjoint(asks[p].mem, conf[d])
          /\ \A q \in Req \ {p} : Found(q) => Disjoint(asks[p].mem, asks[q].mem)
      BY <3>3 DEF IdsInv, AloneInv
    <3>5. ASSUME NEW d \in alone' \ {asks[p].todo[1]} PROVE Disjoint(asks[p].mem, conf'[d])
      <4>1. CASE d = c
        <5>1. Found(r)  BY <1>5, <3>5, <4>1
        <5>2. Disjoint(asks[p].mem, w)  BY <3>1, <3>4, <5>1 DEF w
        <5> QED  BY <1>3, <4>1, <5>2
      <4>2. CASE d # c  BY <1>6, <3>4, <3>5, <4>2
      <4> QED  BY <4>1, <4>2
    <3>6. \A q \in Req \ {p} : Found(q)' => q # r  BY <1>4
    <3> QED  BY <3>1, <3>2, <3>4, <3>5, <3>6
  <2> QED  BY <2>1, <2>2, <2>3 DEF AloneInv
<1> QED  BY <1>4, <1>7, <1>10 DEF IdsInv

LEMMA DeleteRowKeeps == ASSUME IdsInv, NEW c \in Ctn, DeleteRow(c) PROVE IdsInv'
<1>1. /\ conf' = [conf EXCEPT ![c] = None] /\ alone' = alone \ {c} /\ UNCHANGED <<profile, asks>>
      /\ \A q \in Req : \A i \in DOMAIN asks[q].todo : asks[q].todo[i] # c
  BY NotBusy DEF DeleteRow
<1>2. /\ conf' \in [Ctn -> Configs \cup {None}] /\ \A d \in Ctn \ {c} : conf'[d] = conf[d]
      /\ \A d \in alone' : d \in alone /\ conf'[d] = conf[d]
  BY <1>1 DEF IdsInv, IdsTypeInv
<1>3. IdsTypeInv'  BY <1>1, <1>2 DEF IdsInv, IdsTypeInv, Kind
<1>4. TodoApart'  BY <1>1 DEF IdsInv, TodoApart
<1>5. ASSUME NEW q \in Req PROVE TodoOf(q)'
  <2>1. /\ asks[q].todo # <<>> => 1 \in DOMAIN asks[q].todo
        /\ TodoOf(q) /\ \A i \in DOMAIN asks[q].todo : asks[q].todo[i] \in Ctn
    BY TodoSeq DEF IdsInv
  <2> QED  BY <1>1, <1>2, <2>1, OthersTodo
<1>6. AloneInv'
  <2>1. \A q \in Req : Found(q)' => Found(q)  BY <1>1 DEF Found, Kind
  <2> QED  BY <1>1, <1>2, <2>1, AloneSame DEF IdsInv
<1> QED  BY <1>3, <1>4, <1>5, <1>6 DEF IdsInv

LEMMA IdmapDieKeeps == ASSUME IdsInv, IdmapDie PROVE IdsInv'
<1>1. asks' = [r \in Req |-> Idle] /\ UNCHANGED <<conf, profile, alone>>  BY DEF IdmapDie
<1>2. asks' \in [Req -> IdsAsks] /\ \A q \in Req : asks'[q] = Idle  BY <1>1, IdleFact
<1>3. IdsTypeInv'  BY <1>1, <1>2 DEF IdsInv, IdsTypeInv, Kind
<1>4. TodoApart' /\ \A q \in Req : TodoOf(q)'  BY <1>2, IdleFact DEF TodoApart, TodoOf, Working
<1>5. AloneInv'
  <2>1. \A q \in Req : ~Found(q)'  BY <1>2, IdleFact DEF Found
  <2> QED  BY <1>1, <2>1, AloneSame DEF IdsInv
<1> QED  BY <1>3, <1>4, <1>5 DEF IdsInv

LEMMA IdsInvNext == IdsInv /\ IdmapNext => IdsInv'
<1> SUFFICES ASSUME IdsInv, IdmapNext PROVE IdsInv'  OBVIOUS
<1>1. CASE \E r \in Req, c \in Ctn : CreateRow(r, c)  BY <1>1, CreateKeeps
<1>2. CASE \E r \in Req, c \in Ctn : UpdateRow(r, c)  BY <1>2, UpdateRowKeeps
<1>3. CASE \E r \in Req : LoadUsers(r)  BY <1>3, LoadUsersKeeps
<1>4. CASE \E r \in Req : SaveProfile(r)  BY <1>4, SaveKeeps
<1>5. CASE \E r \in Req : FindRange(r)  BY <1>5, FindRangeKeeps
<1>6. CASE \E r \in Req : NoRange(r)  BY <1>6, NoRangeKeeps
<1>7. CASE \E r \in Req : RecordRange(r)  BY <1>7, RecordKeeps
<1>8. CASE \E c \in Ctn : DeleteRow(c)  BY <1>8, DeleteRowKeeps
<1>9. CASE IdmapDie  BY <1>9, IdmapDieKeeps
<1> QED  BY <1>1, <1>2, <1>3, <1>4, <1>5, <1>6, <1>7, <1>8, <1>9 DEF IdmapNext

LEMMA ApartByInv == IdsInv => RangesApart
<1> SUFFICES ASSUME IdsInv, NEW c \in alone
             PROVE  /\ HostBase < conf[c].base /\ End(c) <= HostBase + Span
                    /\ \A d \in alone \ {c} : ~Overlap(c, d)
  BY DEF RangesApart
<1>1. InBounds(conf[c]) /\ conf[c] \in Configs  BY DEF IdsInv, IdsTypeInv, AloneInv
<1>2. ASSUME NEW d \in alone \ {c} PROVE ~Overlap(c, d)
  <2>1. Disjoint(conf[c], conf[d]) /\ conf[d] \in Configs  BY DEF IdsInv, IdsTypeInv, AloneInv
  <2>2. /\ conf[c].base \in Nat /\ conf[c].size \in Nat /\ conf[d].base \in Nat /\ conf[d].size \in Nat
    BY <1>1, <2>1, IdmapAssumption DEF Configs
  <2> QED  BY <2>1, <2>2 DEF Disjoint, Overlap, End
<1> QED  BY <1>1, <1>2 DEF InBounds, End

-----------------------------------------------------------------------------
\* After any number of changes of the map, failed starts and remaps that were
\* cut short and repeated, all files of a running container are owned by the ids
\* of the map it runs with (startCommon: UnshiftRootfs, ShiftRootfs and the
\* record in volatile.last_state.idmap); as long as no request has written a
\* struct that was out of date ("stale") and no cut remap was followed by one
\* with another map ("spoiled").
THEOREM FilesAreMapped == ConfigSpec => []FilesMapped
<1>1. ConfigInit => CfgInv  BY CfgInvInit
<1>2. CfgInv /\ [ConfigNext]_cfgVars => CfgInv'  BY CfgInvNext, CfgInvStutter
<1>3. CfgInv => FilesMapped  BY MappedByInv
<1> QED  BY <1>1, <1>2, <1>3, PTL DEF ConfigSpec

\* A running instance has the limits of its row whenever no update is between
\* applying and committing (containerMercury.Update applies, then commits); as
\* long as no update failed or died after it was applied ("lag") and no struct
\* that was out of date was written ("stale").
THEOREM LimitsFollowTheRow == ConfigSpec => []LiveMatches
<1>1. ConfigInit => CfgInv  BY CfgInvInit
<1>2. CfgInv /\ [ConfigNext]_cfgVars => CfgInv'  BY CfgInvNext, CfgInvStutter
<1>3. CfgInv => LiveMatches  BY LiveByInv
<1> QED  BY <1>1, <1>2, <1>3, PTL DEF ConfigSpec

\* The stop inside a restart does not make OnStop delete an ephemeral container,
\* as long as no request wrote a struct that was out of date ("stale"); and
\* outside of restarts the container is as ephemeral as it was created, as long
\* as, besides, no restart was cut short or failed to set the flag again
\* ("slip", containerStatePut).
THEOREM RestartKeepsEphemeral == ConfigSpec => []EphemeralKept
<1>1. ConfigInit => CfgInv  BY CfgInvInit
<1>2. CfgInv /\ [ConfigNext]_cfgVars => CfgInv'  BY CfgInvNext, CfgInvStutter
<1>3. CfgInv => EphemeralKept  BY KeptByInv
<1> QED  BY <1>1, <1>2, <1>3, PTL DEF ConfigSpec

\* The same, with the same exceptions, of the composition that the runs check,
\* in which a behaviour is about the ids of many containers or about the
\* configuration of one.
THEOREM ConfigurationsSafe == Spec => [](FilesMapped /\ LiveMatches /\ EphemeralKept)
<1>1. Init => CfgInv  BY CfgInvInit DEF Init
<1>2. CfgInv /\ [Next]_vars => CfgInv'  BY CfgInvNext, CfgInvStutter DEF Next, vars
<1>3. CfgInv => FilesMapped /\ LiveMatches /\ EphemeralKept  BY MappedByInv, LiveByInv, KeptByInv
<1> QED  BY <1>1, <1>2, <1>3, PTL DEF Spec

\* An isolated container whose range was looked for while every other had its
\* own in the database, and nobody was about to record one, has ids of the
\* daemon's and shares none with another such container: for any number of
\* containers and requests, any order in which findIdmap meets containers with
\* the same first id, and deaths between the look and the record.
THEOREM RangesAreApart == Spec => []RangesApart
<1>1. Init => IdsInv  BY IdsInvInit DEF Init
<1>2. IdsInv /\ [Next]_vars => IdsInv'  BY IdsInvNext, IdsInvStutter DEF Next, vars
<1>3. IdsInv => RangesApart  BY ApartByInv
<1> QED  BY <1>1, <1>2, <1>3, PTL DEF Spec
=============================================================================
