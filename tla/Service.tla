------------------------------- MODULE Service -------------------------------
(***************************************************************************)
(* What the daemon keeps for its clients: images (Images), containers that *)
(* are brought back from what is left of them (Recovery), what the API     *)
(* shows and lets them edit (ConfigEdits) and the files of a container     *)
(* (Files).  The requests of one part touch no state of another: a         *)
(* behaviour is about one part and leaves the others as they were at       *)
(* first.                                                                  *)
(***************************************************************************)
EXTENDS Images, Recovery, ConfigEdits, Files, TLC

CONSTANT Services

VARIABLE service

vars == <<imgVars, recVars, editVars, fileVars, service>>

\* What a part that is at rest was given does not matter.
Resting ==
  /\ service # "images" =>
       /\ upstream = (CHOOSE f \in Fps : TRUE) /\ imgFile = {upstream} /\ imgVol = {}
       /\ ~ imgRow[upstream].cached
  /\ service # "recovery" => mounts
  /\ service # "files" =>
       /\ lastMap = (CHOOSE i \in Maps : TRUE) /\ nextMap = lastMap
       /\ template.when = (CHOOSE t \in Templates : TRUE).when

Init ==
  /\ service \in Services
  /\ ImagesInit /\ RecoveryInit /\ EditsInit /\ FilesInit
  /\ Resting

Next ==
  \/ service = "images" /\ ImagesNext /\ UNCHANGED <<recVars, editVars, fileVars, service>>
  \/ service = "recovery" /\ RecoveryNext /\ UNCHANGED <<imgVars, editVars, fileVars, service>>
  \/ service = "edits" /\ EditsNext /\ UNCHANGED <<imgVars, recVars, fileVars, service>>
  \/ service = "files" /\ FilesNext /\ UNCHANGED <<imgVars, recVars, editVars, service>>

Spec == Init /\ [][Next]_vars

-----------------------------------------------------------------------------
(* The instance for TLC. *)

MCTemplates == {[when |-> "create", createOnly |-> TRUE], [when |-> "start", createOnly |-> FALSE]}

\* The clients are alike, and the same ones in every part.
Alike == Permutations(ImgReqs \cup Editors \cup FileReqs)

\* A state with a mark is checked and its behaviour not continued: what the
\* first parts of ImagesWhole and Recoverable claim beyond it is left to the
\* proofs.  At most one container of those that are brought back has files at
\* a time.
Followed ==
  /\ imgMarks = {} /\ recMarks = {} /\ editMarks = {} /\ fileMarks = {}
  /\ Cardinality({p \in data : p[2] = ""}) <= 1

\* Which of the images is there at first does not matter.  A container that
\* is privileged before and after has no ids to map; a template that is
\* applied at every start is tried with maps that differ.
MCInit ==
  /\ Init /\ imgFile = {"f1"}
  /\ service = "files" => lastMap # nextMap \/ (lastMap # 0 /\ template.when = "create")

MCSpec == MCInit /\ [][Next]_vars
=============================================================================
