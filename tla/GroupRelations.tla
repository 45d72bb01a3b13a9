---------------------------- MODULE GroupRelations ----------------------------
(***************************************************************************)
(* What the groups of a configuration promise (docs/input.rst, section     *)
(* DefineGroup): after every frame each group is a set of members and a    *)
(* relation, "b is in the coordination table of a", and these satisfy the  *)
(* definition of its kind with respect to the distances of this frame and  *)
(* to the groups it is defined from.  There is no order of updates here    *)
(* and there are no tables, numbers or rings; a static group satisfies its *)
(* definition in the first frame and keeps it.                             *)
(***************************************************************************)
EXTENDS Naturals, FiniteSets, Sequences, SequencesExt

CONSTANTS
  Defs,      (* the definitions, with the fields kind, of, static, ...; see Groups *)
  Distances, (* the possible functions from two atoms to their distance   *)
  Atoms,     (* the atoms                                                 *)
  TypeOf     (* the type of each atom                                     *)

VARIABLES
  dist,  (* the distances of this frame                                   *)
  rel,   (* for each group its members and its pairs                      *)
  past   (* for each group the members it had, frame by frame             *)

rvars == <<dist, rel, past>>

RInit ==
  /\ dist = [a \in Atoms |-> [b \in Atoms |-> 0]]
  /\ rel = [n \in {d.name : d \in Defs} |-> [members |-> {}, pairs |-> {}]]
  /\ past = [n \in {d.name : d \in Defs} |-> <<>>]

(* The row of an atom in a relation, and a relation cut down to members.    *)
Row(r, a) == {p[2] : p \in {q \in r.pairs : q[1] = a}}
Firsts(pairs) == {p[1] : p \in pairs}
Seconds(pairs) == {p[2] : p \in pairs}
Inverted(pairs) == {<<p[2], p[1]>> : p \in pairs}
CutTo(pairs, members) == {p \in pairs : p[1] \in members}

(* BOND: the atoms of the from-group with as many atoms of the to-group     *)
(* within the distances as the limits ask for.                              *)
Within(d, a, groups) ==
  {b \in groups[d.of[2]].members \ {a} : dist'[a][b] > d.minDist /\ dist'[a][b] < d.maxDist}

IsBond(d, r, groups) ==
  LET bonded == {a \in groups[d.of[1]].members :
                   Cardinality(Within(d, a, groups)) \in d.minCoord .. d.maxCoord}
      pairs == UNION {{<<a, b>> : b \in Within(d, a, groups)} : a \in bonded}
  IN  /\ r.pairs = pairs
      /\ r.members = bonded \cup (IF d.include THEN Seconds(pairs) ELSE {})

(* CORRESPONDING and INVERTCOORDINATION: the same bonds seen from the other *)
(* end.                                                                     *)
IsInverse(r, parent) ==
  /\ r.pairs = Inverted(parent.pairs)
  /\ r.members = Seconds(parent.pairs)

(* FINDSHORTEST: each atom of the from-group is in the table of one nearest *)
(* atom of the to-group.                                                    *)
IsShortest(d, r, groups) ==
  LET from == groups[d.of[1]].members
      to == groups[d.of[2]].members
  IN  /\ Seconds(r.pairs) = (IF to = {} THEN {} ELSE from)
      /\ Cardinality(r.pairs) = Cardinality(Seconds(r.pairs))
      /\ r.members = Firsts(r.pairs)
      /\ \A p \in r.pairs : /\ p[1] \in to
                            /\ \A b \in to : dist'[p[2]][p[1]] <= dist'[p[2]][b]

(* MEMBERHISTORY: the atoms to draw from that were members in at least and  *)
(* at most so many of the last MaxHistory frames.                           *)
IsHistory(d, r, groups) ==
  LET times == past'[d.of[2]]
      recent == {k \in DOMAIN times : k > Len(times) - d.maxHistory}
      memberTime(a) == Cardinality({k \in recent : a \in times[k]})
  IN  /\ r.pairs = {}
      /\ r.members = {a \in groups[d.of[1]].members \cap groups[d.of[3]].members :
                        memberTime(a) \in d.minCoord .. d.maxCoord}

(* The definition of each kind, over the groups of this frame.              *)
Satisfies(d, groups) ==
  LET r == groups[d.name]
      parent == groups[d.of[1]]
      others == {groups[d.of[k]] : k \in 2 .. Len(d.of)}
      inNone == {a \in parent.members : \A o \in others : a \notin o.members}
      inAll == {a \in parent.members : \A o \in others : a \in o.members}
      ofNumber == {a \in parent.members :
                     Cardinality(Row(parent, a)) \in d.minCoord .. d.maxCoord}
      all == {parent} \cup others
  IN CASE d.kind = "atomicnumber" ->
            r = [members |-> {a \in Atoms : TypeOf[a] \in d.types}, pairs |-> {}]
       [] d.kind = "list" -> r = [members |-> ToSet(d.ids) \cap Atoms, pairs |-> {}]
       [] d.kind = "subgroup" ->
            /\ r.pairs = {} /\ r.members \subseteq parent.members
            /\ Cardinality(r.members) = Cardinality({k \in ToSet(d.ids) : k < Cardinality(parent.members)})
       [] d.kind = "bond" -> IsBond(d, r, groups)
       [] d.kind \in {"corresponding", "invertcoordination"} -> IsInverse(r, parent)
       [] d.kind = "findshortest" -> IsShortest(d, r, groups)
       [] d.kind = "diff" -> r = [members |-> inNone, pairs |-> CutTo(parent.pairs, inNone)]
       [] d.kind = "intersection" -> r = [members |-> inAll, pairs |-> CutTo(parent.pairs, inAll)]
       [] d.kind = "sum" ->
            r = [members |-> UNION {g.members : g \in all}, pairs |-> UNION {g.pairs : g \in all}]
       [] d.kind = "subgroupcn" ->
            r = [members |-> ofNumber, pairs |-> CutTo(parent.pairs, ofNumber)]
       [] d.kind = "includecoordination" ->
            r = [members |-> parent.members \cup Seconds(parent.pairs), pairs |-> {}]
       [] d.kind = "addcoordination" ->
            r = [members |-> parent.members,
                 pairs |-> parent.pairs \cup
                   UNION {{<<p[1], c>> : c \in Row(groups[d.of[2]], p[2])} : p \in parent.pairs}]
       [] d.kind = "coordinationtableintersection" ->
            r = [members |-> parent.members,
                 pairs |-> {p \in parent.pairs : \A o \in others : p[2] \in o.members}]
       [] d.kind = "memberhistory" -> IsHistory(d, r, groups)

(* A frame.                                                                 *)
RNext ==
  /\ dist' \in Distances
  /\ past' = [n \in DOMAIN past |-> Append(past[n], rel'[n].members)]
  /\ \A d \in Defs :
       IF d.static /\ past[d.name] # <<>> THEN rel'[d.name] = rel[d.name]
       ELSE Satisfies(d, rel')

RSpec == RInit /\ [][RNext]_rvars
=============================================================================
