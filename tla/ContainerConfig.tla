--------------------------- MODULE ContainerConfig ---------------------------
(***************************************************************************)
(* One container's row in the database, and what must agree with it        *)
(* (apollo/container_mercury.go, container_state.go): the owners of its    *)
(* files, the limits of its running instance, its being ephemeral.         *)
(*                                                                         *)
(* A request loads the row into a struct, works on the struct, and writes  *)
(* it back whole (Update, ConfigKeySet).  Nothing keeps two requests on    *)
(* one container apart, except that those that start or stop it hold its   *)
(* operation, whose working is ContainerOp's subject.                      *)
(***************************************************************************)
EXTENDS Naturals, FiniteSets

CONSTANTS
  Client,       \* API requests
  Editor,       \* those that only update the configuration
  Nobody,       \* no row, no instance
  Maps,         \* id maps; "raw" is that of a privileged container
  Within,       \* <<m, n>>: the host ids of m are also host ids of n
  Wide,         \* maps whose ids in the container include host ids
  Limits,
  Wishes,       \* what updates change: "map", "limit"
  Created,      \* the rows of new containers
  Cuts          \* bound on remaps cut short, by an error or the daemon's death

ASSUME ContainerConfigAssumption ==
  /\ Client # {}
  /\ "raw" \notin Wide /\ Wide \subseteq Maps
  /\ Within \subseteq Maps \X Maps /\ Cuts \in Nat
  /\ Created \subseteq [next : Maps, last : Maps, eph : BOOLEAN, lim : Limits]
  /\ \A w \in Created : w.next = w.last

VARIABLES
  row,       \* the row: volatile.idmap.next, volatile.last_state.idmap, ...
  born,      \* whether it was created ephemeral (history)
  files,     \* the maps by which its files are owned
  inst,      \* the running instance: its map and its limit
  hooks,     \* goroutines of OnStop at work: why the container stopped, c.ephemeral
  reqs,      \* request -> its job, its place, its struct, the limit it has found
  torn,      \* remaps that were cut short: <<from, to>> (history)
  wish,      \* what they change in this behaviour
  marks,     \* what has gone wrong that the code does not put right (history)
  cuts

cfgVars == <<row, born, files, inst, hooks, reqs, torn, wish, marks, cuts>>

Resting == [job |-> "none", pc |-> "idle", s |-> Nobody, lim |-> Nobody, fresh |-> TRUE]

ConfigInit ==
  /\ row = Nobody /\ born = FALSE /\ files = {} /\ inst = Nobody
  /\ wish \in Wishes
  /\ hooks = {} /\ torn = {} /\ marks = {} /\ cuts = 0
  /\ reqs = [r \in Client |-> Resting]

At(r, pc) == reqs[r].pc = pc
Goto(r, pc) == reqs' = [reqs EXCEPT ![r].pc = pc]
Answer(r) == reqs' = [reqs EXCEPT ![r] = Resting]

-----------------------------------------------------------------------------
(* Files.  UnshiftRootfs and ShiftRootfs leave a file alone whose owner is  *)
(* not in the map, and cannot know one that was shifted before.             *)
Unshifted(fs, m) ==
  IF m = "raw" THEN fs
  ELSE {IF f = m THEN "raw" ELSE IF <<f, m>> \in Within THEN "lost" ELSE f : f \in fs}

Shifted(fs, m) ==
  IF m = "raw" THEN fs
  ELSE {IF f = "raw" THEN m ELSE IF m \in Wide THEN "lost" ELSE f : f \in fs}

(* What a walk over the files does, and what one that is cut short leaves. *)
Walked(r) ==
  IF At(r, "unshift") THEN Unshifted(files, reqs[r].s.last)
                      ELSE Shifted(files, reqs[r].s.next)
Walking(r) == reqs[r].pc \in {"unshift", "shift"}
Pair(s) == <<s.last, s.next>>

(* A remap that was cut short is made good by the same remap, unless it     *)
(* mistakes the files it has done for ones it has not.                      *)
Resumable(p) ==
  p[2] \notin Wide /\ <<p[2], p[1]>> \notin Within /\ <<"raw", p[1]>> \notin Within

-----------------------------------------------------------------------------
(* A container is created: its files are shifted into its map at once. *)
CreateContainer ==
  /\ row = Nobody /\ inst = Nobody /\ hooks = {}
  /\ \A r \in Client : reqs[r] = Resting
  /\ \E w \in Created : row' = w /\ files' = {w.last} /\ born' = w.eph
  /\ torn' = {} /\ marks' = {}
  /\ UNCHANGED <<inst, hooks, reqs, wish, cuts>>

(* Starts, stops and restarts exclude one another. *)
Free == \A q \in Client : reqs[q].job \in {"none", "update"}

(* Faulty form: a restart leaves the container ephemeral while it stops. *)
FirstStraight(job, s) ==
  [update |-> "live", start |-> "walk", stop |-> "stop", restart |-> "stop"][job]

First(job, s) ==
  [update |-> "live", start |-> "walk", stop |-> "stop",
   restart |-> IF s.eph THEN "unset" ELSE "stop"][job]

(* containerLoadByName, and what the request wants of the struct. *)
Load(r, job) ==
  /\ reqs[r] = Resting /\ row # Nobody
  /\ job # "update" => Free /\ r \notin Editor
  /\ job = "start" => inst = Nobody
  /\ \E s \in IF job # "update" THEN {row}
              ELSE IF wish = "map" THEN {[row EXCEPT !.next = m] : m \in Maps}
              ELSE {[row EXCEPT !.lim = l] : l \in Limits} :
       reqs' = [reqs EXCEPT ![r] = [job |-> job, pc |-> First(job, s), s |-> s, lim |-> row.lim, fresh |-> TRUE]]
  /\ UNCHANGED <<row, born, files, inst, hooks, torn, wish, marks, cuts>>

(* Faulty form: the running instance is left as it is. *)
ApplyNotLive(r) ==
  /\ At(r, "live") /\ Goto(r, "commit")
  /\ UNCHANGED <<row, born, files, inst, hooks, torn, wish, marks, cuts>>

(* Update: what has changed is applied to the running instance first. *)
ApplyLive(r) ==
  /\ At(r, "live") /\ Goto(r, "commit")
  /\ inst' = IF inst # Nobody /\ reqs[r].s.lim # reqs[r].lim
             THEN [inst EXCEPT !.lim = reqs[r].s.lim] ELSE inst
  /\ UNCHANGED <<row, born, files, hooks, torn, wish, marks, cuts>>

(* The row, written whole in a transaction, whatever it has become since it *)
(* was loaded; there is no row to write to if the container was deleted.    *)
Write(r, s, pc) ==
  /\ row # Nobody
  /\ row' = s
  /\ reqs' = [q \in Client |->
       IF q # r THEN [reqs[q] EXCEPT !.fresh = reqs[q] = Resting]
       ELSE IF pc = "idle" THEN Resting
       ELSE [reqs[r] EXCEPT !.pc = pc, !.s = s]]

(* History: the struct of the request is out of date. *)
Stale(r) == IF reqs[r].fresh THEN {} ELSE {"stale"}

Commit(r) ==
  /\ At(r, "commit")
  /\ Write(r, reqs[r].s, "idle")
  /\ marks' = marks \cup Stale(r)
  /\ UNCHANGED <<born, files, inst, hooks, torn, wish, cuts>>

(* History: the running instance has a limit that may not get to the row. *)
Lag(r) ==
  IF inst # Nobody /\ At(r, "commit") /\ reqs[r].s.lim # reqs[r].lim THEN {"lag"} ELSE {}

(* Update fails: the struct is put back, the running instance is not. *)
UpdateFails(r) ==
  /\ reqs[r].pc \in {"live", "commit"}
  /\ Answer(r)
  /\ marks' = marks \cup Lag(r)
  /\ UNCHANGED <<row, born, files, inst, hooks, torn, wish, cuts>>

-----------------------------------------------------------------------------
(* startCommon: the files are remapped if the map has changed ...          *)
StartCommon(r) ==
  /\ At(r, "walk")
  /\ Goto(r, IF reqs[r].s.next = reqs[r].s.last THEN "key" ELSE "unshift")
  /\ UNCHANGED <<row, born, files, inst, hooks, torn, wish, marks, cuts>>

(* Faulty form: the files are shifted from where they are. *)
ShiftOnly(r) ==
  /\ Walking(r)
  /\ Goto(r, IF At(r, "unshift") THEN "shift" ELSE "key")
  /\ files' = IF At(r, "unshift") THEN files ELSE Walked(r)
  /\ UNCHANGED <<row, born, inst, hooks, torn, wish, marks, cuts>>

Walk(r) ==
  /\ Walking(r)
  /\ Goto(r, IF At(r, "unshift") THEN "shift" ELSE "key")
  /\ files' = Walked(r)
  /\ UNCHANGED <<row, born, inst, hooks, torn, wish, marks, cuts>>

(* ... and volatile.last_state.idmap then says so. *)
RecordLast(r) ==
  LET s == [reqs[r].s EXCEPT !.last = reqs[r].s.next]
      made == {p \in torn : p = Pair(reqs[r].s) /\ Resumable(p)}
  IN
  /\ At(r, "key")
  /\ Write(r, s, "fork")
  /\ torn' = torn \ made
  /\ marks' = marks \cup Stale(r) \cup (IF torn = made THEN {} ELSE {"spoiled"})
  /\ UNCHANGED <<born, files, inst, hooks, wish, cuts>>

(* Faulty form: the restart of an ephemeral container just ends. *)
FinishAtOnce(r) == Answer(r)

(* What a request that started or stopped the container does at last: the   *)
(* restart of an ephemeral one sets the flag again.                         *)
Finish(r) ==
  IF reqs[r].job = "restart" /\ reqs[r].s.eph # born THEN Goto(r, "reset") ELSE Answer(r)

(* forkstart, with the configuration of the struct; an update that found    *)
(* the container stopped and has yet to write its row is not applied to it. *)
Fork(r) ==
  /\ At(r, "fork") /\ inst = Nobody
  /\ inst' = [map |-> reqs[r].s.next, lim |-> reqs[r].s.lim]
  /\ marks' = (marks \ {"lag"})
       \cup Stale(r)
       \cup (IF \E q \in Client : At(q, "commit") THEN {"lag"} ELSE {})
  /\ Finish(r)
  /\ UNCHANGED <<row, born, files, hooks, torn, wish, cuts>>

(* Start fails, not between the remap and its record. *)
StartFails(r) ==
  /\ reqs[r].pc \in {"walk", "key", "fork"}
  /\ At(r, "key") => reqs[r].s.next = reqs[r].s.last
  /\ Finish(r)
  /\ UNCHANGED <<row, born, files, inst, hooks, torn, wish, marks, cuts>>

(* It fails there, or a walk over the files does half way. *)
Unrecorded(r) == Walking(r) \/ (At(r, "key") /\ reqs[r].s.next # reqs[r].s.last)
Halfway(r) == IF Walking(r) THEN files \cup Walked(r) ELSE files

RemapFails(r) ==
  /\ cuts < Cuts /\ Unrecorded(r)
  /\ cuts' = cuts + 1
  /\ files' = Halfway(r)
  /\ torn' = torn \cup {Pair(reqs[r].s)}
  /\ Finish(r)
  /\ UNCHANGED <<row, born, inst, hooks, wish, marks>>

-----------------------------------------------------------------------------
(* Stop and Shutdown: the instance is gone; its OnStop hook loads the       *)
(* container from the database.                                             *)
Stop(r) ==
  /\ At(r, "stop") /\ inst # Nobody
  /\ inst' = Nobody
  /\ hooks' = IF row = Nobody THEN hooks ELSE hooks \cup {[why |-> reqs[r].job, eph |-> row.eph]}
  /\ Goto(r, "wait")
  /\ UNCHANGED <<row, born, files, torn, wish, marks, cuts>>

StopFails(r) ==
  /\ At(r, "stop")
  /\ Finish(r)
  /\ UNCHANGED <<row, born, files, inst, hooks, torn, wish, marks, cuts>>

(* They wait for the goroutine of the hook. *)
StopDone(r) ==
  /\ At(r, "wait")
  /\ \A h \in hooks : h.why # reqs[r].job
  /\ IF reqs[r].job = "restart" THEN Goto(r, "walk") ELSE Answer(r)
  /\ UNCHANGED <<row, born, files, inst, hooks, torn, wish, marks, cuts>>

(* The container halts by itself. *)
SelfHalt ==
  /\ inst # Nobody /\ row # Nobody
  /\ inst' = Nobody
  /\ hooks' = hooks \cup {[why |-> "self", eph |-> row.eph]}
  /\ UNCHANGED <<row, born, files, reqs, torn, wish, marks, cuts>>

(* The goroutine of OnStop ends; it deletes an ephemeral container. *)
OnStop(h) ==
  /\ h \in hooks
  /\ hooks' = hooks \ {h}
  /\ row' = IF h.eph THEN Nobody ELSE row
  /\ files' = IF h.eph THEN {} ELSE files
  /\ UNCHANGED <<born, inst, reqs, torn, wish, marks, cuts>>

(* The restart of an ephemeral container: the flag is cleared first ...     *)
Unset(r) ==
  /\ At(r, "unset")
  /\ Write(r, [reqs[r].s EXCEPT !.eph = FALSE], "stop")
  /\ marks' = marks \cup Stale(r)
  /\ UNCHANGED <<born, files, inst, hooks, torn, wish, cuts>>

(* ... and set again when the restart returns, in whatever way. *)
Reset(r) ==
  /\ At(r, "reset")
  /\ Write(r, [reqs[r].s EXCEPT !.eph = TRUE], "idle")
  /\ marks' = marks \cup Stale(r)
  /\ UNCHANGED <<born, files, inst, hooks, torn, wish, cuts>>

(* The error of that Update is ignored. *)
ResetFails(r) ==
  /\ At(r, "reset")
  /\ Answer(r)
  /\ marks' = marks \cup {"slip"}
  /\ UNCHANGED <<row, born, files, inst, hooks, torn, wish, cuts>>

UnsetFails(r) ==
  /\ At(r, "unset")
  /\ Answer(r)
  /\ UNCHANGED <<row, born, files, inst, hooks, torn, wish, marks, cuts>>

(* The daemon dies; the container runs on, or stays half remapped. *)
Die ==
  /\ cuts < Cuts
  /\ cuts' = cuts + 1
  /\ files' = UNION {Halfway(r) : r \in Client}
  /\ torn' = torn \cup {Pair(reqs[r].s) : r \in {q \in Client : Unrecorded(q)}}
  /\ marks' = marks
       \cup (IF \E r \in Client : reqs[r].job = "restart" /\ reqs[r].s.eph # born
             THEN {"slip"} ELSE {})
       \cup UNION {Lag(r) : r \in Client}
  /\ reqs' = [r \in Client |-> Resting]
  /\ hooks' = {}
  /\ UNCHANGED <<row, born, inst, wish>>

ConfigNext ==
  \/ CreateContainer \/ SelfHalt \/ Die
  \/ \E h \in hooks : OnStop(h)
  \/ \E r \in Client :
       \/ \E job \in {"update", "start", "stop", "restart"} : Load(r, job)
       \/ ApplyLive(r) \/ Commit(r) \/ UpdateFails(r)
       \/ StartCommon(r) \/ Walk(r) \/ RecordLast(r) \/ Fork(r) \/ StartFails(r) \/ RemapFails(r)
       \/ Stop(r) \/ StopFails(r) \/ StopDone(r)
       \/ Unset(r) \/ Reset(r) \/ ResetFails(r) \/ UnsetFails(r)

ConfigSpec == ConfigInit /\ [][ConfigNext]_cfgVars

-----------------------------------------------------------------------------
\* The files of a running container are owned by the ids of its map, all of
\* them: after any number of changes of the map, failed starts and remaps that
\* were cut short and repeated.  Not claimed once a struct that was out of date
\* has been written, or a cut remap was followed by another one.
FilesMapped ==
  inst # Nobody /\ row # Nobody /\ marks \cap {"stale", "spoiled"} = {} =>
    files = {inst.map}

\* A running instance has the limit of its row, unless an update failed or
\* died after it had been applied, or structs were out of date.
LiveMatches ==
  inst # Nobody /\ row # Nobody /\ marks \cap {"stale", "lag"} = {} /\
  (\A r \in Client : ~At(r, "commit")) => inst.lim = row.lim

\* The stop inside a restart does not make OnStop delete the container, and a
\* container stays as ephemeral as it was created, outside of restarts, unless
\* one of them was cut short or could not set the flag again.
EphemeralKept ==
  /\ "stale" \notin marks => \A h \in hooks : h.why = "restart" => ~h.eph
  /\ row # Nobody /\ marks \cap {"stale", "slip"} = {} /\
     (\A r \in Client : reqs[r].job # "restart") => row.eph = born
=============================================================================
