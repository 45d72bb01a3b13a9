-------------------------------- MODULE Groups --------------------------------
(***************************************************************************)
(* The groups of a configuration and their update in every frame.  Each    *)
(* DefineGroup is a serial action, so the groups are updated one after the *)
(* other in the order of the configuration (main.cpp, action.cpp), each by *)
(* Group::update (group.cpp) and the internalUpdate of its kind            *)
(* (group*.cpp).  A group is defined from groups that come before it.      *)
(*                                                                         *)
(* A definition is a record: name, kind, of (the groups it is defined      *)
(* from), static (the word Static), ids, types, minDist, maxDist,          *)
(* minCoord, maxCoord, maxHistory, include (IncludeToGroup) and            *)
(* corresponding (a name, or NoGroup).  MinMemberTime and MaxMemberTime    *)
(* are minCoord and maxCoord of a MEMBERHISTORY.  The distances of a frame *)
(* are its input.  Kinds that need coordinates, a file or a random number  *)
(* (REGION, READ, SUBGROUPRANDOM) are not here.                            *)
(***************************************************************************)
EXTENDS CoordinationTables, FiniteSets

CONSTANTS
  Config,     (* the DefineGroup commands, in order                        *)
  Ids,        (* the ids of the atoms, in the order of the dump file       *)
  TypeOf,     (* their types                                               *)
  Distances,  (* the possible distances: functions of two atoms            *)
  NumFrames,  (* bound: the frames of a behaviour                          *)
  NoGroup     (* no corresponding group                                    *)

Atoms == ToSet(Ids)

(* Distances are the multiples of some unit; an atom is at 0 from itself.   *)
ASSUME GroupsAssumption ==
  /\ Ids \in Seq(Nat) /\ IsInjective(Ids)
  /\ NumFrames \in Nat
  /\ \A d \in Distances : \A a, b \in Atoms : d[a][b] \in Nat /\ d[a][b] = d[b][a]

VARIABLES
  dist,      (* bonds: the distances of this frame                         *)
  vpGroups,  (* by name: group (atoms, numbers, tables), mUpdateCount,     *)
             (* mTotalSize and mvIsMember, the rings of a MEMBERHISTORY    *)
  past       (* history, by name: the members after each frame             *)

vars == <<dist, vpGroups, past>>

-----------------------------------------------------------------------------
(* Reading the configuration.                                               *)

SetKinds == {"sum", "diff", "intersection", "coordinationtableintersection"}

FindGroupWithId(defs, name) == defs[CHOOSE i \in DOMAIN defs : defs[i].name = name]

(* addConstituentGroup: a group named twice counts once.                    *)
Constituents(of) == FoldLeft(LAMBDA s, n : IF Contains(s, n) THEN s ELSE Append(s, n), <<>>, of)

(* The set kinds are static exactly if what they are defined from is; the   *)
(* other kinds when the command says so.  The corresponding group of a BOND *)
(* is created just before it, with the same Static.                         *)
ParseDefineGroup(defs, d) ==
  LET static == IF d.kind \in SetKinds
                THEN \A k \in DOMAIN d.of : FindGroupWithId(defs, d.of[k]).static
                ELSE d.static
      of == IF d.kind \in SetKinds THEN Constituents(d.of) ELSE d.of
      own == [d EXCEPT !.static = static, !.of = of]
      other == [d EXCEPT !.name = d.corresponding, !.kind = "corresponding", !.of = <<d.name>>]
  IN  IF d.kind = "bond" /\ d.corresponding # NoGroup THEN defs \o <<other, own>>
      ELSE Append(defs, own)

Definitions == FoldLeft(ParseDefineGroup, <<>>, Config)

Names == {Definitions[i].name : i \in DOMAIN Definitions}

Kinds == SetKinds \cup
  {"atomicnumber", "list", "subgroup", "bond", "subgroupcn", "invertcoordination",
   "includecoordination", "addcoordination", "findshortest", "memberhistory"}

(* The groups that a group is defined from, at least.                       *)
GroupsNeeded(kind) ==
  CASE kind \in {"atomicnumber", "list"} -> 0
    [] kind \in {"bond", "addcoordination", "findshortest"} -> 2
    [] kind = "memberhistory" -> 3
    [] OTHER -> 1

Commands ==
  [name : STRING, kind : Kinds, of : Seq(STRING), static : BOOLEAN, ids : Seq(Nat),
   types : SUBSET STRING, minDist : Nat, maxDist : Nat, minCoord : Nat, maxCoord : Nat,
   maxHistory : Nat \ {0}, include : BOOLEAN, corresponding : STRING]

(* A configuration that is read without an error: every group has a name of *)
(* its own (addGroup) and is defined from groups that are there already     *)
(* (FindGroupWithId), a BOND before its corresponding group is created.     *)
(* With a maxHistory of 0 there is no slot to write to.                     *)
ASSUME ConfigAssumption ==
  /\ Config \in Seq(Commands)
  /\ \A i \in DOMAIN Config : Len(Config[i].of) >= GroupsNeeded(Config[i].kind)
  /\ \A i, j \in DOMAIN Definitions : Definitions[i].name = Definitions[j].name => i = j
  /\ \A i \in DOMAIN Definitions : Definitions[i].kind # "corresponding" =>
       \A k \in DOMAIN Definitions[i].of :
         \E j \in 1 .. i - 1 : Definitions[j].name = Definitions[i].of[k]
  /\ \A i \in DOMAIN Definitions : Definitions[i].kind = "bond" =>
       \A k \in DOMAIN Definitions[i].of : Definitions[i].of[k] # Definitions[i].corresponding

-----------------------------------------------------------------------------
(* internalUpdate of each kind: the new group, from the groups as they are. *)

AddAtoms(g, atoms) == FoldLeft(AddAtom, g, atoms)

Filled(atoms) == AddAtoms(EmptyGroup, atoms)

AtomicNumber(d) == Filled(Among(Ids, {a \in Atoms : TypeOf[a] \in d.types}))

List(d) == Filled(Among(d.ids, Atoms))

(* The ids of a SUBGROUP are positions in its parent, from 0.               *)
SubGroup(d, g) ==
  FoldLeft(LAMBDA h, i : IF i < Len(g.atoms) THEN AddAtom(h, g.atoms[i + 1]) ELSE h,
           EmptyGroup, d.ids)

(* GroupBond: the list of to-atoms within the distances of a from-atom.     *)
ToList(d, a, bonds, togroup) ==
  Among(togroup.atoms,
        {b \in Atoms \ {a} : bonds[a][b] > d.minDist /\ bonds[a][b] < d.maxDist})

(* Mutated form: the upper limit is excluded.                               *)
Coordinated_BelowMax(d, n) == n >= d.minCoord /\ n < d.maxCoord

(* MinCoord and MaxCoord, or the member times of a MEMBERHISTORY.           *)
Coordinated(d, n) == n >= d.minCoord /\ n <= d.maxCoord

(* GroupBond: the to-atoms of a.  With IncludeToGroup a to-atom becomes a   *)
(* member too, perhaps before its own turn as a from-atom.                  *)
AddBonds(d, g, a, tolist) ==
  FoldLeft(LAMBDA h, b : LET k == AddToCoordinationTable(h, a, b, FALSE)
                         IN  IF d.include THEN AddAtom(k, b) ELSE k,
           SetCoordinationNumber(AddAtom(g, a), a, Len(tolist)), tolist)

(* GroupBond: from-atoms with a right number of to-atoms.                   *)
Bond(d, bonds, from, to) ==
  FoldLeft(LAMBDA g, a : LET tolist == ToList(d, a, bonds, to)
                         IN  IF Coordinated(d, Len(tolist)) THEN AddBonds(d, g, a, tolist) ELSE g,
           EmptyGroup, from.atoms)

(* GroupBond: the corresponding group is filled in the same loop.           *)
Corresponding(d, bonds, from, to) ==
  FoldLeft(LAMBDA g, a : LET tolist == ToList(d, a, bonds, to)
                         IN  IF Coordinated(d, Len(tolist)) THEN AddToTables(g, tolist, a) ELSE g,
           EmptyGroup, from.atoms)

(* GroupDiff and GroupIntersection: the members of the first constituent    *)
(* that are in S, with the coordination they have there.                    *)
Selected(first, S) ==
  FoldLeft(LAMBDA g, a : IF a \in S THEN CopyCoordination(AddAtom(g, a), a, first) ELSE g,
           EmptyGroup, first.atoms)

Diff(gs) == Selected(gs[1], {a \in Atoms : \A j \in 2 .. Len(gs) : ~IsMember(gs[j], a)})
Intersection(gs) == Selected(gs[1], {a \in Atoms : \A j \in 2 .. Len(gs) : IsMember(gs[j], a)})

SubGroupCN(d, g) == Selected(g, {a \in MembersOf(g) : Coordinated(d, NumberOf(g, a))})

SumWith(s, g) == FoldLeft(LAMBDA h, a : AddCoordinationFrom(AddAtom(h, a), a, g), s, g.atoms)

Sum(gs) == FoldLeft(SumWith, EmptyGroup, gs)

InvertCoordination(g) ==
  FoldLeft(LAMBDA s, a : AddToTables(s, TableOf(g, a), a), EmptyGroup, g.atoms)

IncludeCoordination(g) ==
  FoldLeft(LAMBDA s, a : AddAtoms(AddAtom(s, a), TableOf(g, a)), EmptyGroup, g.atoms)

(* GroupAddCoordination: b, and the table b has in the second group.        *)
AddSecond(s, a, bs, h) ==
  FoldLeft(LAMBDA k, b : AddToTable(AddPair(k, a, b), a,
                                    IF IsMember(h, b) THEN TableOf(h, b) ELSE <<>>),
           s, bs)

AddCoordination(g, h) ==
  FoldLeft(LAMBDA s, a : AddSecond(AddAtom(s, a), a, TableOf(g, a), h), EmptyGroup, g.atoms)

(* GroupCoordinationTableIntersection: as many entries of a table are read  *)
(* as the coordination number says.                                         *)
TableIntersection(gs) ==
  LET parent == gs[1]
      entries(a) == [j \in 1 .. NumberOf(parent, a) |-> TableOf(parent, a)[j]]
      inAll == {b \in Atoms : \A k \in 2 .. Len(gs) : IsMember(gs[k], b)}
  IN  FoldLeft(LAMBDA s, a : AddToTable(AddAtom(s, a), a, Among(entries(a), inAll)),
               EmptyGroup, parent.atoms)

(* GroupFindShortest: the position of the first of the nearest atoms of a   *)
(* list, 0 if it is empty.                                                  *)
Nearest(bonds, x, atoms) ==
  FoldLeftDomain(LAMBDA k, j : IF k = 0 \/ bonds[x][atoms[j]] < bonds[x][atoms[k]] THEN j ELSE k,
                 0, atoms)

FindShortest(bonds, from, to) ==
  FoldLeft(LAMBDA s, x : LET k == Nearest(bonds, x, to.atoms)
                         IN  IF k = 0 THEN s ELSE AddPair(s, to.atoms[k], x),
           EmptyGroup, from.atoms)

-----------------------------------------------------------------------------
(* GroupMemberHistory.  A ring for each position of the parent group, sized *)
(* at the first update (a parent that grows later is out of range);         *)
(* n % maxHistory is the slot of this frame.                                *)

(* Mutated form: the slot of this frame is one that is never read again.    *)
Rings_Stuck(d, n, rings, parent, memberOf) ==
  LET blank == [i \in 1 .. Len(parent.atoms) |-> [k \in 0 .. d.maxHistory - 1 |-> FALSE]]
      old == IF n = 0 THEN blank ELSE rings
  IN  [i \in DOMAIN old |->
         [old[i] EXCEPT ![0] = IsMember(memberOf, parent.atoms[i])]]

Rings(d, n, rings, parent, memberOf) ==
  LET blank == [i \in 1 .. Len(parent.atoms) |-> [k \in 0 .. d.maxHistory - 1 |-> FALSE]]
      old == IF n = 0 THEN blank ELSE rings
  IN  [i \in DOMAIN old |->
         IF i > Len(parent.atoms) THEN old[i]
         ELSE [old[i] EXCEPT ![n % d.maxHistory] = IsMember(memberOf, parent.atoms[i])]]

MemberHistory(d, rings, parent, drawFrom) ==
  LET count(i) == Cardinality({k \in DOMAIN rings[i] : rings[i][k]})
      i(a) == MemberId(parent, a)
  IN  Filled(Among(parent.atoms, {a \in MembersOf(drawFrom) \cap MembersOf(parent) :
                               Coordinated(d, count(i(a)))}))

(* The position of an atom in the parent says which ring is its own: with a *)
(* static parent this is the same one in every frame.                       *)
HistoriesFromStatic ==
  \A i \in DOMAIN Definitions : Definitions[i].kind = "memberhistory" =>
    FindGroupWithId(Definitions, Definitions[i].of[1]).static

-----------------------------------------------------------------------------
(* One frame.  gs are the groups while they are updated one by one.        *)

(* The kinds that are made from their definition and the groups before it.  *)
InternalUpdate(d, gs, bonds, rings) ==
  LET of(k) == gs[d.of[k]].group
      all == [k \in DOMAIN d.of |-> of(k)]
  IN CASE d.kind = "atomicnumber" -> AtomicNumber(d)
       [] d.kind = "list" -> List(d)
       [] d.kind = "subgroup" -> SubGroup(d, of(1))
       [] d.kind = "bond" -> Bond(d, bonds, of(1), of(2))
       [] d.kind = "sum" -> Sum(all)
       [] d.kind = "diff" -> Diff(all)
       [] d.kind = "intersection" -> Intersection(all)
       [] d.kind = "subgroupcn" -> SubGroupCN(d, of(1))
       [] d.kind = "invertcoordination" -> InvertCoordination(of(1))
       [] d.kind = "includecoordination" -> IncludeCoordination(of(1))
       [] d.kind = "addcoordination" -> AddCoordination(of(1), of(2))
       [] d.kind = "coordinationtableintersection" -> TableIntersection(all)
       [] d.kind = "findshortest" -> FindShortest(bonds, of(1), of(2))
       [] d.kind = "memberhistory" -> MemberHistory(d, rings, of(1), of(3))

(* Group::update after the internalUpdate: the counters.                    *)
Counted(g) == [g EXCEPT !.mUpdateCount = @ + 1, !.mTotalSize = @ + Len(g.group.atoms)]

(* Mutated form: the corresponding group is counted before it is filled.    *)
FillCorresponding_CountFirst(gs, d, bonds) ==
  IF d.corresponding = NoGroup THEN gs
  ELSE [gs EXCEPT ![d.corresponding] =
          [Counted(@) EXCEPT !.group =
             Corresponding(d, bonds, gs[d.of[1]].group, gs[d.of[2]].group)]]

(* The corresponding group is filled, and updated, by its BOND only.        *)
FillCorresponding(gs, d, bonds) ==
  IF d.corresponding = NoGroup THEN gs
  ELSE [gs EXCEPT ![d.corresponding] =
          Counted([@ EXCEPT !.group =
             Corresponding(d, bonds, gs[d.of[1]].group, gs[d.of[2]].group)])]

(* A static group is not updated again.                                     *)
Skipped(d, gs) == d.static /\ gs[d.name].mUpdateCount > 0

(* The group with its new content, before it is counted.                    *)
Renewed(gs, d, bonds) ==
  LET old == gs[d.name]
      rings == IF d.kind # "memberhistory" THEN <<>>
               ELSE Rings(d, old.mUpdateCount, old.mvIsMember,
                          gs[d.of[1]].group, gs[d.of[2]].group)
  IN  [old EXCEPT !.group = InternalUpdate(d, gs, bonds, rings), !.mvIsMember = rings]

(* Group::update; no action updates a corresponding group.                  *)
Update(gs, d, bonds) ==
  CASE d.kind = "corresponding" -> gs
    [] d.kind # "corresponding" /\ Skipped(d, gs) -> [gs EXCEPT ![d.name] = Counted(@)]
    [] OTHER -> LET filled == IF d.kind = "bond" THEN FillCorresponding(gs, d, bonds) ELSE gs
                IN  [filled EXCEPT ![d.name] = Counted(Renewed(gs, d, bonds))]

(* The DefineGroup actions of one frame, in their order.                    *)
UpdateGroups(gs, bonds) == FoldLeft(LAMBDA hs, d : Update(hs, d, bonds), gs, Definitions)

(* Before the first frame: no distances (all 0), no members.                *)
Init ==
  /\ dist = [a \in Atoms |-> [b \in Atoms |-> 0]]
  /\ vpGroups = [n \in Names |-> [group |-> EmptyGroup, mUpdateCount |-> 0,
                                  mTotalSize |-> 0, mvIsMember |-> <<>>]]
  /\ past = [n \in Names |-> <<>>]

Group(n) == vpGroups[n].group

(* A frame is read, its distances are computed, the groups are updated.     *)
Frame(bonds) ==
  /\ \A n \in Names : Len(past[n]) < NumFrames
  /\ dist' = bonds
  /\ vpGroups' = UpdateGroups(vpGroups, bonds)
  /\ past' = [n \in Names |-> Append(past[n], MembersOf(vpGroups'[n].group))]

Next == \E bonds \in Distances : Frame(bonds)

Spec == Init /\ [][Next]_vars

-----------------------------------------------------------------------------
(* The three vectors stay parallel, no atom is in a group or in a table     *)
(* twice, and the counters count.                                           *)
TypeOK ==
  /\ \A n \in Names :
       /\ Group(n).atoms \in Seq(Atoms) /\ IsInjective(Group(n).atoms)
       /\ Len(Group(n).numbers) = Len(Group(n).atoms)
       /\ Len(Group(n).table) = Len(Group(n).atoms)
       /\ \A i \in DOMAIN Group(n).table :
            Group(n).table[i] \in Seq(Atoms) /\ IsInjective(Group(n).table[i])
       /\ vpGroups[n].mUpdateCount \in 0 .. NumFrames
       /\ vpGroups[n].mTotalSize \in Nat

(* The coordination number of a member is the size of its table, though     *)
(* BOND, SUM, DIFF, INTERSECTION and SUBGROUPCN set the two apart from each *)
(* other (groupbond.cpp:38, groupcoordination.cpp:185): COORDINATIONTABLE-  *)
(* INTERSECTION reads as many entries of a table as the number says         *)
(* (groupcoordinationtableintersection.cpp:29).                             *)
NumbersMatchTables ==
  /\ TypeOK
  /\ \A n \in Names : \A i \in DOMAIN Group(n).atoms :
       Group(n).numbers[i] = Len(Group(n).table[i])

(* The sizes of a group in all frames, added up.                            *)
SizesOf(frames) == FoldLeft(LAMBDA s, members : s + Cardinality(members), 0, frames)

(* The average size that is printed, mTotalSize / mUpdateCount, is the      *)
(* average over the frames, also of static groups, of corresponding groups, *)
(* which no action updates, and of those of a static BOND, which are        *)
(* updated once (group.cpp:130, groupbond.cpp:53).                          *)
AverageSizesTrue ==
  \A n \in Names :
    vpGroups[n].mTotalSize * Len(past[n]) = vpGroups[n].mUpdateCount * SizesOf(past[n])

(* The groups of the example of docs/input.rst, section FINDSHORTEST: every *)
(* atom of the to-group is in exactly one of the SUBGROUPCNs of the         *)
(* shortest bonds and the DIFF that is left, and the coordination numbers   *)
(* of these add up to the from-group, whichever way ties are broken.        *)
Classified(shortest, classes, rest, from, to) ==
  /\ \A a \in MembersOf(Group(to)) :
       Cardinality({n \in classes \cup {rest} : IsMember(Group(n), a)}) = 1
  /\ \A n \in classes : MembersOf(Group(n)) \subseteq MembersOf(Group(shortest))
  /\ LET hydrogens(n) == FoldLeft(LAMBDA s, k : s + k, 0, Group(n).numbers)
     IN  FoldSet(LAMBDA n, s : s + hydrogens(n), 0, classes) =
           IF Group(to).atoms = <<>> THEN 0 ELSE Len(Group(from).atoms)

(* The groups implement what their definitions promise: GroupRelations,     *)
(* with the tables read as relations.                                       *)
Relations == INSTANCE GroupRelations WITH
  Defs <- {Definitions[i] : i \in DOMAIN Definitions},
  rel <- [n \in Names |-> [members |-> MembersOf(Group(n)), pairs |-> Pairs(Group(n))]]

RelationsSpec == Relations!RSpec
=============================================================================
