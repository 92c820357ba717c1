------------------------------- MODULE MCHost -------------------------------
(* An instance of Host for TLC. *)
EXTENDS Host, TLC

\* The name of the one network is the beginning of the other's.
MCLonger == {<<"br", "brx">>}

MCCpuLimits ==
  {[kind |-> "none", n |-> 0, cpus |-> {}], [kind |-> "count", n |-> 1, cpus |-> {}],
   [kind |-> "pin", n |-> 0, cpus |-> {1}], [kind |-> "bad", n |-> 0, cpus |-> {}]}

\* Each entry is for a device of its own.
MCMatches(e) == IF e = "first" THEN {"d1"} ELSE {"d2"}

\* Hosts with ids for root in /etc/subuid and /etc/subgid, in one file only,
\* in ranges that are too short, or without the files; the daemon itself may
\* be in a user namespace whose map has holes, or without its proc files.
All == <<<<0, 0, 40>>>>
Machine(shadow, uids, gids, puids, pgids) ==
  [shadow |-> shadow, subuid |-> uids, subgid |-> gids, procUid |-> puids, procGid |-> pgids]

MCHosts ==
  {Machine(TRUE, <<<<2, 2>>, <<8, 8>>>>, <<<<8, 8>>>>, All, All),
   Machine(TRUE, <<>>, <<<<8, 8>>>>, All, All),
   Machine(FALSE, <<>>, <<>>, All, All),
   Machine(FALSE, <<>>, <<>>, <<<<0, 100, 4>>, <<4, 200, 12>>>>, <<<<0, 100, 16>>>>),
   Machine(FALSE, <<>>, <<>>, <<<<0, 100, 4>>, <<10, 200, 12>>>>, <<<<0, 100, 16>>>>),
   Machine(FALSE, <<>>, <<>>, <<<<0, 0, 0>>>>, <<<<0, 0, 0>>>>),
   Machine(TRUE, <<<<14, 8>>>>, <<<<14, 8>>>>, <<<<0, 100, 16>>>>, <<<<0, 100, 16>>>>)}

\* Lines with ranges that are equal in length or not, and that meet at their
\* first or last id or not at all.
MCRawLines ==
  [kind : {"both", "uid", "gid"}, host : {30, 33}, hostSize : {1, 3}, ns : {0, 2, 7}, nsSize : {1, 3}]

\* Containers are alike, and requests are; the same two values stand for both.
Alike == Permutations(Loads)

\* A state with a mark is checked and its behaviour not continued, in a pool
\* one with a second mark: what NetworksServe claims of a network whose hosts
\* are out of date, and ExecWhole after some marks, is left to the proofs.
Followed ==
  /\ Cardinality(poolMarks) <= 1 /\ volMarks = {} /\ nicMarks = {} /\ limMarks = {} /\ exMarks = {}
  /\ \A n \in Nets : netMarks[n] = {}
  /\ \A c \in Boxes : hotMarks[c] = {}
=============================================================================
