---------------------------- MODULE DaemonStart -----------------------------
(***************************************************************************)
(* The daemon's way up (apollo/daemon.go, db.go, db_update.go, patches.go): *)
(* create the database, bring its schema up to date, apply the patches,     *)
(* answer requests, become ready.  Updates and patches are recorded one by  *)
(* one after they ran, in statements of their own; the daemon may die       *)
(* between any two, or an update or a patch may fail, and it starts again.  *)
(***************************************************************************)
EXTENDS Naturals, FiniteSets

CONSTANTS
  Latest,      \* the newest schema version (dbGetLatestSchema)
  Redoable,    \* those whose update can be run again over its own traces
  Legacy,      \* those that have a legacy patch
  NPatches,    \* the patches are 1..NPatches, in the order of the list
  MaxFaults,   \* bound on deaths and failures
  Readiers     \* requests to /internal/ready

Versions == 1..Latest
Patches  == 1..NPatches

ASSUME StartAssumption ==
  /\ Latest \in Nat \ {0} /\ Legacy \subseteq Versions
  /\ Redoable \subseteq Versions
  /\ NPatches \in Nat /\ MaxFaults \in Nat

VARIABLES
  schema,     \* the highest version recorded in the database, 0 without any
  half,       \* the next update has left its traces, but is not recorded
  bak,        \* apollo.db.bak: "none", "clean" or made of a half updated database
  legacyRan,  \* versions whose legacy patch has run to its end
  applied,    \* recorded patches
  patched,    \* patches that have run to their end
  profile,    \* the default profile exists
  step,       \* what the daemon is doing
  backedUp,   \* this start has made its backup
  setupMode,  \* the daemon waits for /internal/ready before it is ready
  readyReq,   \* ready request -> "none", "called", "answered", "aborted"
  readyClosed,\* readyChan is closed
  faults      \* deaths and failures so far

dbVars    == <<schema, half, legacyRan, applied, patched, profile>>
readyVars == <<readyReq, readyClosed>>
startVars == <<dbVars, bak, step, backedUp, setupMode, readyVars, faults>>

StartInit ==
  /\ \E v \in 0..Latest, n \in 0..NPatches :
       /\ schema = v
       /\ applied = IF v = 0 THEN {} ELSE 1..n
  /\ half = FALSE /\ bak = "none"
  /\ legacyRan = {v \in Legacy : v <= schema}
  /\ patched = applied
  /\ profile = (schema > 0)
  /\ step = "down" /\ backedUp = FALSE /\ faults = 0
  /\ setupMode = FALSE
  /\ readyReq = [r \in Readiers |-> "none"] /\ readyClosed = FALSE

(* main_daemon: a database without a schema is created.  Setup mode is a    *)
(* file that the daemon only looks for.                                     *)
Boot ==
  /\ step = "down"
  /\ step' = IF schema = 0 THEN "create" ELSE "update"
  /\ backedUp' = FALSE
  /\ setupMode' \in BOOLEAN
  /\ readyReq' = [r \in Readiers |-> "none"] /\ readyClosed' = FALSE
  /\ UNCHANGED <<dbVars, bak, faults>>

(* createDb: the tables and the version of a new database... *)
CreateSchema ==
  /\ step = "create"
  /\ schema' = Latest
  /\ step' = "mark"
  /\ UNCHANGED <<half, legacyRan, applied, patched, profile, bak, backedUp, setupMode, readyVars, faults>>

(* ... which needs no patch: each is recorded, but whether that works is     *)
(* ignored...                                                               *)
MarkPatch ==
  /\ step = "mark"
  /\ \E p \in Patches :
       /\ \A q \in applied : q < p
       /\ applied' = applied \cup {p}
  /\ UNCHANGED <<schema, half, legacyRan, patched, profile, step, bak, backedUp, setupMode, readyVars, faults>>

(* ... but a default profile. *)
CreateProfile ==
  /\ step = "mark"
  /\ profile' = TRUE
  /\ step' = "update"
  /\ UNCHANGED <<schema, half, legacyRan, applied, patched, bak, backedUp, setupMode, readyVars, faults>>

-----------------------------------------------------------------------------
(* dbUpdatesApplyAll: the backup, once a start, before the first update. *)
Backup ==
  /\ step = "update" /\ schema < Latest /\ ~backedUp
  /\ bak' = IF half THEN "half" ELSE "clean"
  /\ backedUp' = TRUE
  /\ UNCHANGED <<dbVars, step, setupMode, readyVars, faults>>

(* The statements of an update, which are no transaction.  Over what an     *)
(* earlier run has left they run again only if each of them does (CREATE    *)
(* TABLE IF NOT EXISTS, UPDATE, DELETE).                                    *)
RunUpdate ==
  /\ step = "update" /\ schema < Latest /\ backedUp
  /\ half => schema + 1 \in Redoable
  /\ half' = TRUE
  /\ step' = "record"
  /\ UNCHANGED <<schema, legacyRan, applied, patched, profile, bak, backedUp, setupMode, readyVars, faults>>

(* The others (ALTER TABLE ADD COLUMN, CREATE TABLE) fail, for good.        *)
UpdateStuck ==
  /\ step = "update" /\ schema < Latest /\ backedUp
  /\ half /\ schema + 1 \notin Redoable
  /\ step' = "down"
  /\ UNCHANGED <<dbVars, bak, backedUp, setupMode, readyVars, faults>>

RecordUpdate ==
  /\ step = "record"
  /\ schema' = schema + 1
  /\ half' = FALSE
  /\ step' = "legacy"
  /\ UNCHANGED <<legacyRan, applied, patched, profile, bak, backedUp, setupMode, readyVars, faults>>

(* The legacy patch of a version runs after the version was recorded. *)
LegacyPatch ==
  /\ step = "legacy"
  /\ legacyRan' = legacyRan \cup (Legacy \cap {schema})
  /\ step' = "update"
  /\ UNCHANGED <<schema, half, applied, patched, profile, bak, backedUp, setupMode, readyVars, faults>>

UpdatesDone ==
  /\ step = "update" /\ schema = Latest
  /\ step' = "patch"
  /\ UNCHANGED <<dbVars, bak, backedUp, setupMode, readyVars, faults>>

-----------------------------------------------------------------------------
(* Faulty form: any patch that is not recorded. *)
NextPatchAny(p) == p \in Patches \ applied

(* patchesApplyAll: the first patch of the list that is not recorded. *)
NextPatch(p) == p \in Patches \ applied /\ \A q \in Patches : q < p => q \in applied

RunPatch(p) ==
  /\ step = "patch"
  /\ NextPatch(p)
  /\ patched' = patched \cup {p}
  /\ step' = "patched"
  /\ UNCHANGED <<schema, half, legacyRan, applied, profile, bak, backedUp, setupMode, readyVars, faults>>

RecordPatch(p) ==
  /\ step = "patched"
  /\ NextPatch(p) /\ p \in patched
  /\ applied' = applied \cup {p}
  /\ step' = "patch"
  /\ UNCHANGED <<schema, half, legacyRan, patched, profile, bak, backedUp, setupMode, readyVars, faults>>

(* Init then binds the sockets and, outside of setup mode, calls Ready. *)
Serve ==
  /\ step = "patch" /\ applied = Patches
  /\ step' = "serving"
  /\ UNCHANGED <<dbVars, bak, backedUp, setupMode, readyVars, faults>>

Ready ==
  /\ step = "serving" /\ ~setupMode /\ ~readyClosed
  /\ \A r \in Readiers : readyReq[r] # "called"
  /\ readyClosed' = TRUE
  /\ UNCHANGED <<dbVars, bak, step, backedUp, setupMode, readyReq, faults>>

(* internalReady: refused outside of setup mode, which ends when it is done. *)
(* Of two requests at once the second closes readyChan again: a panic that   *)
(* only ends the request, once its Ready has done everything else again.     *)
ReadyCall(r) ==
  /\ step = "serving" /\ setupMode /\ readyReq[r] = "none"
  /\ readyReq' = [readyReq EXCEPT ![r] = "called"]
  /\ UNCHANGED <<dbVars, bak, step, backedUp, setupMode, readyClosed, faults>>

ReadyReturns(r) ==
  /\ step = "serving" /\ readyReq[r] = "called"
  /\ readyReq' = [readyReq EXCEPT ![r] = IF readyClosed THEN "aborted" ELSE "answered"]
  /\ readyClosed' = TRUE
  /\ setupMode' = FALSE
  /\ UNCHANGED <<dbVars, bak, step, backedUp, faults>>

(* What it is doing fails: Init returns an error and the daemon is gone. *)
Exit ==
  /\ step' = "down"
  /\ UNCHANGED <<dbVars, bak, backedUp, setupMode, readyVars, faults>>

(* It dies, or something fails that need not. *)
Die ==
  /\ step # "down" /\ faults < MaxFaults
  /\ step' = "down"
  /\ faults' = faults + 1
  /\ UNCHANGED <<dbVars, bak, backedUp, setupMode, readyVars>>

StartTypeOK ==
  /\ schema \in 0..Latest /\ half \in BOOLEAN /\ bak \in {"none", "clean", "half"}
  /\ legacyRan \subseteq Legacy /\ applied \subseteq Patches /\ patched \subseteq Patches
  /\ profile \in BOOLEAN /\ backedUp \in BOOLEAN /\ setupMode \in BOOLEAN
  /\ step \in {"down", "create", "mark", "update", "record", "legacy",
               "patch", "patched", "serving"}
  /\ readyReq \in [Readiers -> {"none", "called", "answered", "aborted"}]
  /\ readyClosed \in BOOLEAN /\ faults \in 0..MaxFaults
=============================================================================
