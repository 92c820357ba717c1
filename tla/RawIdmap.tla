------------------------------ MODULE RawIdmap ------------------------------
(***************************************************************************)
(* The id maps themselves (shared/idmapset_linux.go): the one the daemon   *)
(* finds for itself at its start, from the shadow files or from what the   *)
(* kernel gives the namespace it runs in, and the one a container gets from *)
(* it with the lines of its raw.idmap put in (AddSafe).  A map is a sequence *)
(* of entries.  Numbers are scaled: Useful stands for 65536, Posix for 100000.  *)
(***************************************************************************)
EXTENDS Integers, FiniteSets, Sequences, SequencesExt

CONSTANTS
  Hosts,           \* what a host may have: shadow, subuid, subgid, procUid, procGid
  RawLines,        \* lines of raw.idmap: kind, host, hostSize, ns, nsSize
  Useful, Posix, AllIds,
  MaxRawLines

ASSUME RawIdmapAssumption == {Useful, Posix, AllIds, MaxRawLines} \subseteq Nat

VARIABLES
  machine,         \* the host
  rawAt,           \* "start", "up", "done"
  daemonMap,       \* d.IdmapSet; Unmapped: only privileged containers
  rawIdmap,        \* the lines of the container's raw.idmap
  ctnMap,          \* the container's map; Unmapped: refused
  rawMarks

rawVars == <<machine, rawAt, daemonMap, rawIdmap, ctnMap, rawMarks>>

Unmapped == <<>>
Entry(u, g, host, ns, n) == [uid |-> u, gid |-> g, host |-> host, ns |-> ns, range |-> n]

-----------------------------------------------------------------------------
(* EntriesFor *)

is_between(x, low, high) == x >= low /\ x < high
Meet(a, n, b, m) ==
  is_between(a, b, b + m) \/ is_between(b, a, a + n) \/ is_between(a + n, b, b + m) \/ is_between(b + m, a, a + n)
MeetWithin(a, n, b, m) ==
  \/ is_between(a, b, b + m - 1) \/ is_between(b, a, a + n - 1)
  \/ is_between(a + n - 1, b, b + m - 1) \/ is_between(b + m - 1, a, a + n - 1)
SameKind(e, i) == (e.uid /\ i.uid) \/ (e.gid /\ i.gid)

HostidsIntersect(e, i) == SameKind(e, i) /\ Meet(e.host, e.range, i.host, i.range)
Intersects(e, i) == SameKind(e, i) /\ (MeetWithin(e.host, e.range, i.host, i.range) \/ MeetWithin(e.ns, e.range, i.ns, i.range))

\* What really overlaps.
IdSpan(a, n) == a .. a + n - 1
RangesMeet(e, i) == SameKind(e, i) /\ (IdSpan(e.host, e.range) \cap IdSpan(i.host, i.range) # {} \/ IdSpan(e.ns, e.range) \cap IdSpan(i.ns, i.range) # {})

UpperFromStart(e, i) == [e EXCEPT !.host = @ + i.range, !.ns = i.ns + i.range, !.range = @ - i.range - (i.ns - e.ns)]

LowerPart(e, i) == [e EXCEPT !.range = i.ns - e.ns]

UpperPart(e, i) ==
  LET lower == LowerPart(e, i).range
  IN [e EXCEPT !.host = @ + lower + i.range, !.ns = i.ns + i.range, !.range = @ - i.range - lower]

\* What stands for an entry once i is in the set.
Broken(e, i) ==
  IF ~Intersects(e, i) THEN <<e>>
  ELSE SelectSeq(<<LowerPart(e, i), i, UpperPart(e, i)>>, LAMBDA p : p.range > 0)

\* [ok, set]: an entry whose host ids meet those of i refuses it.
AddSafe(set, i) ==
  LET hit == {k \in DOMAIN set : Intersects(set[k], i)}
      all == FlattenSeq([k \in DOMAIN set |-> Broken(set[k], i)])
  IN IF \E k \in hit : HostidsIntersect(set[k], i) THEN [ok |-> FALSE, set |-> set]
     ELSE [ok |-> TRUE, set |-> IF hit = {} THEN Append(set, i) ELSE all]

\* What AddSafe does not see.
Missed(set, i) ==
  (IF \E k \in DOMAIN set : RangesMeet(set[k], i) /\ ~Intersects(set[k], i) THEN {"edge"} ELSE {})
  \cup (IF \E k \in DOMAIN set : Intersects(set[k], i) /\ ((set[k].uid /\ ~i.uid) \/ (set[k].gid /\ ~i.gid)) THEN {"kinds"} ELSE {})

\* ValidRanges: entries that follow each other in the namespace are one range.
Less(e, i) ==
  IF e.uid # i.uid THEN e.uid ELSE IF e.gid # i.gid THEN e.gid ELSE e.ns < i.ns
AddRange(ranges, e) ==
  LET at == {k \in DOMAIN ranges : ranges[k].uid = e.uid /\ ranges[k].gid = e.gid /\ ranges[k].end + 1 = e.ns}
  IN IF at = {} THEN Append(ranges, [uid |-> e.uid, gid |-> e.gid, start |-> e.ns, end |-> e.ns + e.range - 1])
     ELSE [ranges EXCEPT ![CHOOSE k \in at : \A j \in at : k <= j].end = @ + e.range]
ValidRanges(set) == FoldLeft(AddRange, <<>>, SortSeq(set, Less))

InRange(r, id) == id >= r.start /\ id <= r.end

\* Every entry lies in one of the kernel's ranges.
Usable(set, ranges) ==
  \A k \in DOMAIN set :
    \A kind \in {"uid", "gid"} : set[k][kind] =>
      \E j \in DOMAIN ranges : ranges[j][kind] /\ InRange(ranges[j], set[k].host) /\ InRange(ranges[j], set[k].host + set[k].range - 1)

-----------------------------------------------------------------------------
(* The daemon's map *)

\* getFromProc: lines of ns, host, size.  Without the file of the kernel there
\* is one line of zeros.
ProcEntries(p, u) == [k \in DOMAIN p |-> Entry(u, ~u, p[k][2], p[k][1], p[k][3])]
CurrentIdmapSet(h) == ProcEntries(h.procUid, TRUE) \o ProcEntries(h.procGid, FALSE)

\* The first of the lines of root that is big enough.
FirstOf(S) == CHOOSE k \in S : \A j \in S : k <= j
FromShadow(lines, u) ==
  LET fit == {k \in DOMAIN lines : lines[k][2] >= Useful}
  IN IF fit = {} THEN <<>> ELSE <<Entry(u, ~u, lines[FirstOf(fit)][1], 0, lines[FirstOf(fit)][2])>>

\* The first of the kernel's ranges that is big enough past the system's ids.
FromKernel(ranges, u) ==
  LET start(k) == IF ranges[k].start < Posix THEN Posix ELSE ranges[k].start
      fit == {k \in DOMAIN ranges : (IF u THEN ranges[k].uid ELSE ranges[k].gid) /\ ranges[k].end >= Posix /\ ranges[k].end - start(k) >= Useful}
      k == FirstOf(fit)
  IN IF fit = {} THEN <<>> ELSE <<Entry(u, ~u, start(k), 0, ranges[k].end - start(k) + 1)>>

Fallback == <<Entry(TRUE, TRUE, Posix * 2, 0, AllIds \div 2)>>
FullRanges == <<[uid |-> TRUE, gid |-> FALSE, start |-> 0, end |-> AllIds - 1], [uid |-> FALSE, gid |-> TRUE, start |-> 0, end |-> AllIds - 1]>>

DefaultIdmapSet(h) ==
  LET ranges == ValidRanges(CurrentIdmapSet(h))
  IN IF h.shadow
     THEN IF <<>> \in {h.subuid, h.subgid} THEN Unmapped ELSE FromShadow(h.subuid, TRUE) \o FromShadow(h.subgid, FALSE)
     ELSE IF <<>> \in {h.procUid, h.procGid} \/ ranges = FullRanges THEN Fallback
     ELSE FromKernel(ranges, TRUE) \o FromKernel(ranges, FALSE)

RawInit ==
  /\ machine \in Hosts /\ rawAt = "start" /\ daemonMap = Unmapped /\ rawIdmap = <<>> /\ ctnMap = Unmapped /\ rawMarks = {}

\* daemon.Init: a map the kernel does not allow is no map.
InitIdmap ==
  LET set == DefaultIdmapSet(machine)
      proc == <<>> \notin {machine.procUid, machine.procGid}
  IN /\ rawAt = "start" /\ rawAt' = "up"
     /\ daemonMap' = IF proc /\ Usable(set, ValidRanges(CurrentIdmapSet(machine))) THEN set ELSE Unmapped
     /\ UNCHANGED <<machine, rawIdmap, ctnMap, rawMarks>>

-----------------------------------------------------------------------------
(* The container's map *)

RawLine(l) ==
  /\ rawAt = "up" /\ daemonMap # Unmapped /\ Len(rawIdmap) < MaxRawLines
  /\ rawIdmap' = Append(rawIdmap, l) /\ UNCHANGED <<machine, rawAt, daemonMap, ctnMap, rawMarks>>

\* Sizes that differ refuse the line.
EntryOf(l) == Entry(l.kind \in {"both", "uid"}, l.kind \in {"both", "gid"}, l.host, l.ns, l.nsSize)
parseRawIdmap(lines) ==
  FoldLeft(LAMBDA acc, l : IF ~acc.ok \/ l.hostSize # l.nsSize THEN [acc EXCEPT !.ok = FALSE]
                           ELSE LET a == AddSafe(acc.set, EntryOf(l))
                                IN [ok |-> a.ok, set |-> a.set, missed |-> acc.missed \cup Missed(acc.set, EntryOf(l))],
           [ok |-> TRUE, set |-> <<>>, missed |-> {}], lines)

\* findIdmap: what AddSafe refuses here is left out without a word.
findRawIdmap ==
  LET raw == parseRawIdmap(rawIdmap)
      put(acc, e) == LET a == AddSafe(acc.set, e)
                     IN [set |-> a.set, missed |-> acc.missed \cup Missed(acc.set, e) \cup (IF a.ok THEN {} ELSE {"dropped"})]
      all == FoldLeft(put, [set |-> daemonMap, missed |-> raw.missed], raw.set)
  IN /\ rawAt = "up" /\ daemonMap # Unmapped /\ rawAt' = "done"
     /\ ctnMap' = IF raw.ok THEN all.set ELSE Unmapped
     /\ rawMarks' = IF raw.ok THEN all.missed ELSE {}
     /\ UNCHANGED <<machine, daemonMap, rawIdmap>>

RawNext == InitIdmap \/ findRawIdmap \/ \E l \in RawLines : RawLine(l)

RawSpec == RawInit /\ [][RawNext]_rawVars

-----------------------------------------------------------------------------
\* What the kernel makes of a map, after ToLxcString has left out repetitions.
EntriesFor(set, kind, x) == {e \in Range(set) : e[kind] /\ x \in IdSpan(e.ns, e.range)}
HostOf(e, x) == e.host + x - e.ns
\* The last line that names the id, else the daemon's map.
Said(kind, x) ==
  LET named == {k \in DOMAIN rawIdmap : EntryOf(rawIdmap[k])[kind] /\ x \in IdSpan(rawIdmap[k].ns, rawIdmap[k].nsSize)}
      base == EntriesFor(daemonMap, kind, x)
  IN IF named # {} THEN LET l == rawIdmap[CHOOSE k \in named : \A j \in named : j <= k] IN {l.host + x - l.ns}
     ELSE {HostOf(e, x) : e \in base}

\* A container's map takes every id where the last line of raw.idmap that names
\* it says, every other id where the daemon's map does, each id once and no id
\* of the host twice; and the daemon's map lies in what the kernel allows, past
\* the system's own ids when the daemon has chosen it.  The marks: an overlap
\* that Intersects does not see, in a range of one id or at its end ("edge"), an
\* entry for both that a line for one takes away from the other ("kinds"), a
\* line that findIdmap drops without an error ("dropped").
IdsAsSaid ==
  /\ rawAt # "start" /\ ~machine.shadow => \A k \in DOMAIN daemonMap : daemonMap[k].host >= Posix
  /\ rawAt = "done" /\ ctnMap # Unmapped /\ rawMarks = {} =>
       \A kind \in {"uid", "gid"} :
         /\ \A x \in 0 .. AllIds : {HostOf(e, x) : e \in EntriesFor(ctnMap, kind, x)} = Said(kind, x)
         /\ \A e, f \in {e \in Range(ctnMap) : e[kind]} : e # f => ~RangesMeet(e, f)
=============================================================================
