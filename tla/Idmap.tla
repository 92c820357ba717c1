------------------------------- MODULE Idmap --------------------------------
(***************************************************************************)
(* Who gets which ids (apollo/container_mercury.go, profiles_utils.go):    *)
(* findIdmap looks for a range that no other isolated container has, when  *)
(* a container is created and when its configuration, or that of its       *)
(* profile, changes.  idmapLock is only held while it looks: the range is  *)
(* in the database, where the others look, a few steps later.              *)
(*                                                                         *)
(* Ids are counted in units of 65536.  A container is "shared" (it has the *)
(* daemon's whole map), "isolated" or "privileged" (no map), by its own    *)
(* configuration or else by that of the one profile there is here.         *)
(***************************************************************************)
EXTENDS Naturals, FiniteSets, Sequences, SequencesExt

CONSTANTS
  Ctn,         \* containers
  Req,         \* API requests
  None,
  HostBase,    \* where the daemon's ids begin
  Span,        \* how many it has
  Sizes,       \* values of security.idmap.size
  Kinds,       \* what a container's own configuration may say
  MaxDeaths    \* bound on deaths of the daemon

ASSUME IdmapAssumption ==
  /\ HostBase \in Nat \ {0} /\ Span \in Nat /\ MaxDeaths \in Nat
  /\ Sizes \subseteq Nat \ {0} /\ IsFiniteSet(Ctn)
  /\ None \notin [kind : Kinds, prof : BOOLEAN, size : Sizes, base : Nat]
  /\ Kinds \subseteq {"", "isolated", "privileged"}

VARIABLES
  conf,      \* container -> its row: own kind, uses the profile, size, base
  profile,   \* the profile's kind
  asks,      \* request -> what it is doing
  alone,     \* containers whose range was looked for when it was safe (history)
  idDeaths

idVars == <<conf, profile, asks, alone, idDeaths>>

(* The expanded configuration. *)
Kind(w) ==
  IF w.kind # "" THEN w.kind
  ELSE IF w.prof /\ profile # "" THEN profile ELSE "shared"

There == {c \in Ctn : conf[c] # None}
Isolated == {c \in There : Kind(conf[c]) = "isolated"}

-----------------------------------------------------------------------------
(* findIdmap: the others by their first id, those with the same in any order, *)
(* and the first gap that is wide enough.  Whenever its loop looks at a gap   *)
(* the offset is where the one before ends: the branch that skips an end      *)
(* beyond the offset is never taken.                                          *)
Orders(S) ==
  {es \in [1..Cardinality(S) -> S] :
     ToSet(es) = S /\ \A i, j \in DOMAIN es : i < j => conf[es[i]].base <= conf[es[j]].base}

End(x) == conf[x].base + conf[x].size
After(es, k) == IF k = 0 THEN HostBase + 1 ELSE End(es[k])

(* Faulty form: a gap between two need not hold the whole range. *)
GapNarrow(es, k, size) ==
  IF k = Len(es) THEN After(es, k) + size < HostBase + Span
  ELSE IF k = 0 THEN After(es, 0) + size <= conf[es[1]].base
  ELSE After(es, k) < conf[es[k + 1]].base

Gap(es, k, size) ==
  IF k = Len(es) THEN After(es, k) + size < HostBase + Span
  ELSE IF k = 0 THEN After(es, 0) + size <= conf[es[1]].base
  ELSE After(es, k) + size < conf[es[k + 1]].base

\* One answer for every order.
findIdmap(c, size) ==
  UNION {LET gaps == {k \in 0..Len(es) : Gap(es, k, size)}
         IN IF gaps = {} THEN {None} ELSE {After(es, k) : k \in {g \in gaps : \A h \in gaps : g <= h}}
           : es \in Orders(Isolated \ {c})}

-----------------------------------------------------------------------------
(* A request: its place, the containers it still has to update (first the   *)
(* one it is at), the struct of that one, the kinds of those before it.     *)
Idle == [pc |-> "idle", goal |-> "", todo |-> <<>>, mem |-> None, was |-> <<>>,
         new |-> FALSE, sole |-> TRUE]

IdmapInit ==
  /\ conf = [c \in Ctn |-> None]
  /\ profile = ""
  /\ asks = [r \in Req |-> Idle]
  /\ alone = {} /\ idDeaths = 0

(* Requests for the same container do not overlap here. *)
Busy(c) == \E r \in Req : c \in ToSet(asks[r].todo)

(* Create: the row is inserted, then its range is looked for. *)
CreateRow(r, c) ==
  /\ asks[r] = Idle /\ conf[c] = None /\ ~Busy(c)
  /\ \E w \in [kind : Kinds, prof : BOOLEAN, size : Sizes, base : {0}] :
       /\ conf' = [conf EXCEPT ![c] = w]
       /\ asks' = [asks EXCEPT ![r] = [Idle EXCEPT !.pc = "find", !.todo = <<c>>,
                                         !.mem = w, !.was = <<<<"none", 0>>>>, !.new = TRUE]]
  /\ UNCHANGED <<profile, alone, idDeaths>>

(* Update of one container: a new row in its struct. *)
UpdateRow(r, c) ==
  /\ asks[r] = Idle /\ conf[c] # None /\ ~Busy(c)
  /\ \E k \in Kinds, p \in BOOLEAN, s \in Sizes :
       asks' = [asks EXCEPT ![r] =
         [Idle EXCEPT !.pc = "find", !.todo = <<c>>,
            !.mem = [conf[c] EXCEPT !.kind = k, !.prof = p, !.size = s],
            !.was = <<<<Kind(conf[c]), conf[c].size>>>>]]
  /\ UNCHANGED <<conf, profile, alone, idDeaths>>

(* doProfileUpdate loads the containers that use the profile ...           *)
LoadUsers(r) ==
  LET users == {c \in There : conf[c].prof} IN
  /\ asks[r] = Idle
  /\ \A c \in users : ~Busy(c)
  /\ \E k \in {"", "isolated"} \ {profile}, q \in SetToSeqs(users) :
       asks' = [asks EXCEPT ![r] =
         [Idle EXCEPT !.pc = "save", !.goal = k, !.todo = q,
            !.was = [i \in DOMAIN q |-> <<Kind(conf[q[i]]), conf[q[i]].size>>]]]
  /\ UNCHANGED <<conf, profile, alone, idDeaths>>

(* ... saves it, and then updates them one by one. *)
SaveProfile(r) ==
  /\ asks[r].pc = "save"
  /\ profile' = asks[r].goal
  /\ alone' = {c \in alone : ~conf[c].prof \/ conf[c].kind # ""}
  /\ asks' = [[q \in Req |-> [asks[q] EXCEPT !.sole = FALSE]] EXCEPT ![r] =
       IF @.todo = <<>> THEN Idle ELSE [@ EXCEPT !.pc = "find", !.mem = conf[asks[r].todo[1]]]]
  /\ UNCHANGED <<conf, idDeaths>>

(* On to the next container of the request. *)
Onward(r) ==
  LET a == asks[r] IN
  asks' = [asks EXCEPT ![r] =
    IF Len(a.todo) = 1 THEN Idle
    ELSE [a EXCEPT !.pc = "find", !.todo = Tail(a.todo), !.was = Tail(a.was), !.mem = conf[a.todo[2]]]]

(* A range is looked for when the kind or the size has changed. *)
FindRange(r) ==
  LET c == asks[r].todo[1]
      w == asks[r].mem
      changed == asks[r].was[1] # <<Kind(w), w.size>>
      bases == IF ~changed THEN {w.base}
               ELSE IF Kind(w) = "isolated" THEN findIdmap(c, w.size) \ {None} ELSE {0}
  IN
  /\ asks[r].pc = "find"
  /\ \E base \in bases :
       asks' = [asks EXCEPT ![r].pc = "record", ![r].mem.base = base,
                            ![r].sole = IF changed
                              THEN /\ Isolated \ {c} \subseteq alone
                                   /\ \A q \in Req \ {r} : asks[q].pc # "record"
                              ELSE c \in alone]
  /\ UNCHANGED <<conf, profile, alone, idDeaths>>

(* "Not enough uid/gid available": a new container is deleted, an update is *)
(* undone, and a change of the profile goes on with the next container.     *)
NoRange(r) ==
  LET c == asks[r].todo[1]
      w == asks[r].mem
  IN
  /\ asks[r].pc = "find"
  /\ Kind(w) = "isolated" /\ asks[r].was[1] # <<Kind(w), w.size>>
  /\ None \in findIdmap(c, w.size)
  /\ conf' = IF asks[r].new THEN [conf EXCEPT ![c] = None] ELSE conf
  /\ Onward(r)
  /\ UNCHANGED <<profile, alone, idDeaths>>

(* The struct is written to the database. *)
RecordRange(r) ==
  LET c == asks[r].todo[1] IN
  /\ asks[r].pc = "record"
  /\ conf' = [conf EXCEPT ![c] = asks[r].mem]
  /\ alone' = IF asks[r].sole /\ Kind(asks[r].mem) = "isolated"
              THEN alone \cup {c} ELSE alone \ {c}
  /\ Onward(r)
  /\ UNCHANGED <<profile, idDeaths>>

DeleteRow(c) ==
  /\ conf[c] # None /\ ~Busy(c)
  /\ conf' = [conf EXCEPT ![c] = None]
  /\ alone' = alone \ {c}
  /\ UNCHANGED <<profile, asks, idDeaths>>

(* The daemon dies: what was not written is forgotten. *)
IdmapDie ==
  /\ idDeaths < MaxDeaths
  /\ idDeaths' = idDeaths + 1
  /\ asks' = [r \in Req |-> Idle]
  /\ UNCHANGED <<conf, profile, alone>>

IdmapNext ==
  \/ \E r \in Req :
       \/ \E c \in Ctn : CreateRow(r, c) \/ UpdateRow(r, c)
       \/ LoadUsers(r) \/ SaveProfile(r) \/ FindRange(r) \/ NoRange(r) \/ RecordRange(r)
  \/ \E c \in Ctn : DeleteRow(c)
  \/ IdmapDie

IdmapSpec == IdmapInit /\ [][IdmapNext]_idVars

-----------------------------------------------------------------------------
Overlap(c, d) == conf[c].base < End(d) /\ conf[d].base < End(c)

\* A container that is isolated and whose range was looked for while every
\* other had its own in the database shares none of its ids with another such
\* container, and has ids of the daemon's: whatever containers came, went,
\* grew and shrank before, findIdmap found a real gap.
RangesApart ==
  \A c \in alone \cap Isolated :
    /\ HostBase < conf[c].base /\ End(c) <= HostBase + Span
    /\ \A d \in (alone \cap Isolated) \ {c} : ~Overlap(c, d)

\* What doc/userns-idmap.md says of isolated containers, of those whose range
\* is in the database and on which no request is at work.
UniqueRange ==
  \A c, d \in {x \in Isolated : conf[x].base # 0 /\ ~Busy(x)} : c # d => ~Overlap(c, d)
=============================================================================
