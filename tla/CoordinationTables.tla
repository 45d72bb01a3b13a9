-------------------------- MODULE CoordinationTables --------------------------
(***************************************************************************)
(* One group of atoms with its coordination tables: the three parallel     *)
(* vectors of GroupCoordination (groupcoordination.cpp, group.cpp) and the *)
(* operations that change them.                                            *)
(*                                                                         *)
(* An atom is its id.  Positions are from 1, where the code's are from 0.  *)
(***************************************************************************)
EXTENDS Naturals, Sequences, SequencesExt

EmptyGroup == [atoms |-> <<>>, numbers |-> <<>>, table |-> <<>>]

MembersOf(g) == ToSet(g.atoms)

IsMember(g, a) == a \in MembersOf(g)

(* The position of a member.                                                *)
MemberId(g, a) == CHOOSE i \in DOMAIN g.atoms : g.atoms[i] = a

(* addAtom: an atom that is a member already keeps its place.               *)
AddAtom(g, a) ==
  IF IsMember(g, a) THEN g
  ELSE [atoms |-> Append(g.atoms, a),
        numbers |-> Append(g.numbers, 0),
        table |-> Append(g.table, <<>>)]

(* setCoordinationNumber: whatever the table says.                          *)
SetCoordinationNumber(g, a, value) == [g EXCEPT !.numbers[MemberId(g, a)] = value]

(* addToCoordinationTable: b joins the table of a; without autoset the      *)
(* coordination number is left alone.                                       *)
AddToCoordinationTable(g, a, b, autoset) ==
  LET i == MemberId(g, a)
      row == IF b \in ToSet(g.table[i]) THEN g.table[i] ELSE Append(g.table[i], b)
  IN  [g EXCEPT !.table[i] = row, !.numbers[i] = IF autoset THEN Len(row) ELSE @]

(* How most kinds of group are filled: a becomes a member, if it is not     *)
(* one yet, and b joins its table.                                          *)
AddPair(g, a, b) == AddToCoordinationTable(AddAtom(g, a), a, b, TRUE)

(* The same for every atom of a list: a's table gets them, or they get a.   *)
AddToTable(g, a, bs) == FoldLeft(LAMBDA h, b : AddPair(h, a, b), g, bs)
AddToTables(g, bs, a) == FoldLeft(LAMBDA h, b : AddPair(h, b, a), g, bs)

(* The coordination table and the coordination number of a member.          *)
TableOf(g, a) == g.table[MemberId(g, a)]
NumberOf(g, a) == g.numbers[MemberId(g, a)]

(* Mutated form: the coordination number is not carried over.               *)
CopyCoordination_NoNumber(g, a, h) ==
  IF IsMember(h, a) THEN [g EXCEPT !.table[MemberId(g, a)] = TableOf(h, a)] ELSE g

(* copyCoordination: a gets the table and the number it has in h.           *)
CopyCoordination(g, a, h) ==
  IF IsMember(h, a)
  THEN SetCoordinationNumber([g EXCEPT !.table[MemberId(g, a)] = TableOf(h, a)],
                             a, NumberOf(h, a))
  ELSE g

(* addCoordinationFromOtherGroup: the table a has in h is added to its own. *)
Joined(g, a, bs) == FoldLeft(LAMBDA k, b : AddToCoordinationTable(k, a, b, FALSE), g, bs)

AddCoordinationFrom(g, a, h) ==
  LET joined == Joined(g, a, TableOf(h, a))
  IN  SetCoordinationNumber(joined, a, Len(TableOf(joined, a)))

(* The elements of s that are in S, in their order.                         *)
Among(s, S) == FoldLeft(LAMBDA t, x : IF x \in S THEN Append(t, x) ELSE t, <<>>, s)

(* The tables as a relation.                                                *)
Pairs(g) == UNION {{<<g.atoms[i], g.table[i][j]>> : j \in DOMAIN g.table[i]} :
                   i \in DOMAIN g.table}
=============================================================================
