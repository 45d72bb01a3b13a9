----------------------------- MODULE Groups_proofs -----------------------------
(***************************************************************************)
(* The groups of a configuration, for every configuration, any atoms, any  *)
(* distances and any number of frames.                                     *)
(*                                                                         *)
(* Every operation adds members and pairs to a group (Adds), and so does a *)
(* fold of such operations (AddsFold).  So each kind of group has the      *)
(* members and pairs its definition promises, and stays Sound: its numbers *)
(* are the sizes of its rows.  The updates of a frame, one after the       *)
(* other, leave every group as its action made it of groups that no later  *)
(* action changes (Made, FrameFacts).  From these follow the inductive     *)
(* invariant GroupsInv and, with what the rings of a MEMBERHISTORY say     *)
(* (RingsRight), the refinement of GroupRelations.                         *)
(***************************************************************************)
EXTENDS Groups, TLAPS, FiniteSetTheorems, NaturalsInduction, WellFoundedInduction

(* A set of numbers that is not empty has a least element.                 *)
LEMMA LeastElement ==
  ASSUME NEW S \in SUBSET Nat, S # {}
  PROVE  \E n \in S : \A m \in S : n <= m
<1> DEFINE R == OpToRel(<, Nat)
<1>1. IsWellFoundedOn(R, Nat)
  BY NatLessThanWellFounded
<1>2. \E n \in S : \A m \in S : ~(<<m, n>> \in R)
  <2> HIDE DEF R
  <2> QED BY <1>1, WFMin
<1>3. \A n, m \in Nat : <<m, n>> \in R <=> m < n
  BY DEF OpToRel
<1> HIDE DEF R
<1>4. \A n, m \in S : ~(<<m, n>> \in R) => n <= m
  BY <1>3
<1> QED BY <1>2, <1>4

(* What one value passes to the next, all values have.                     *)
LEMMA Everywhere ==
  ASSUME NEW n \in Nat, NEW S, 0 \in S, \A k \in 1 .. n : k - 1 \in S => k \in S
  PROVE  0 .. n \subseteq S
<1> DEFINE T == {k \in 0 .. n : k \notin S}
<1>1. ASSUME NEW k \in T, \A x \in T : k <= x
      PROVE  FALSE
  <2>1. k \in 1 .. n /\ k - 1 \in 0 .. n /\ k - 1 \notin T
    BY <1>1
  <2> QED BY <1>1, <2>1
<1>2. T = {}
  <2>1. T \in SUBSET Nat
    OBVIOUS
  <2> HIDE DEF T
  <2> QED BY <1>1, <2>1, LeastElement
<1> QED BY <1>2

-----------------------------------------------------------------------------
(* Folds over a list.  A run of a fold is the sequence of its results: r[k] *)
(* is what the first k elements have made of e.                            *)

IsRun(n, U, e, F, r) ==
  r \in [0 .. n -> U] /\ r[0] = e /\ \A k \in 1 .. n : r[k] = F[k][r[k - 1]]

(* Every step stays in U.                                                  *)
Closed(n, U, F) == \A k \in 1 .. n, x \in U : F[k][x] \in U

(* A fold whose steps stay in U has a run.                                 *)
LEMMA RunExists ==
  ASSUME NEW n \in Nat, NEW U, NEW e \in U, NEW F, \A k \in 1 .. n, x \in U : F[k][x] \in U
  PROVE  \E r : IsRun(n, U, e, F, r)
<1> DEFINE Good(m, w) == IsRun(m, U, e, F, w)
           S == {m \in 0 .. n : ~ \E w : Good(m, w)}
<1> HIDE DEF Good
<1>1. ASSUME NEW m \in S, \A x \in S : m <= x
      PROVE  FALSE
  <2>1. CASE m = 0
    <3> DEFINE w == [k \in 0 .. 0 |-> e]
    <3>1. w \in [0 .. 0 -> U] /\ w[0] = e /\ 1 .. 0 = {}
      OBVIOUS
    <3> HIDE DEF w
    <3>2. Good(0, w)
      BY <3>1 DEF Good, IsRun
    <3> QED BY <2>1, <3>2
  <2>2. CASE m # 0
    <3>1. m - 1 \in 0 .. n /\ m - 1 \notin S /\ m \in 1 .. n
      BY <1>1, <2>2
    <3>2. PICK v : Good(m - 1, v)
      BY <3>1
    <3> DEFINE w == [k \in 0 .. m |-> IF k = m THEN F[m][v[m - 1]] ELSE v[k]]
    <3>3. v[m - 1] \in U /\ F[m][v[m - 1]] \in U
      BY <3>1, <3>2 DEF Good, IsRun
    <3>4. \A k \in 0 .. m - 1 : w[k] = v[k] /\ v[k] \in U
      BY <3>1, <3>2 DEF Good, IsRun
    <3>5. w[m] = F[m][v[m - 1]]
      BY <3>1
    <3>6. w \in [0 .. m -> U]
      <4>1. \A k \in 0 .. m : k = m \/ k \in 0 .. m - 1
        BY <3>1
      <4>2. \A k \in 0 .. m : (IF k = m THEN F[m][v[m - 1]] ELSE v[k]) \in U
        BY <3>3, <3>4, <4>1
      <4> QED BY <4>2
    <3> HIDE DEF w
    <3>7. w[0] = e
      BY <3>1, <3>2, <3>4 DEF Good, IsRun
    <3>8. ASSUME NEW k \in 1 .. m
          PROVE  w[k] = F[k][w[k - 1]]
      <4>1. k - 1 \in 0 .. m - 1
        BY <3>1
      <4>2. w[k - 1] = v[k - 1]
        BY <3>4, <4>1
      <4>3. CASE k = m
        BY <3>5, <4>2, <4>3
      <4>4. CASE k # m
        <5>1. k \in 1 .. m - 1 /\ k \in 0 .. m - 1
          BY <3>1, <4>4
        <5> QED BY <3>2, <3>4, <4>2, <5>1 DEF Good, IsRun
      <4> QED BY <4>3, <4>4
    <3>9. Good(m, w)
      BY <3>6, <3>7, <3>8 DEF Good, IsRun
    <3> QED BY <3>9
  <2> QED BY <2>1, <2>2
<1>2. S = {}
  <2>1. S \in SUBSET Nat
    OBVIOUS
  <2> HIDE DEF S
  <2> QED BY <1>1, <2>1, LeastElement
<1>3. \E w : Good(n, w)
  <2>1. n \in 0 .. n
    OBVIOUS
  <2> QED BY <1>2, <2>1
<1> QED BY <1>3 DEF Good

(* The largest number of a set, which the folds take away first.           *)
LEMMA MaxFacts ==
  ASSUME NEW n \in Nat, NEW s \in SUBSET (1 .. n), s # {}
  PROVE  /\ Max(s) \in s /\ Max(s) \in 1 .. n
         /\ \A x \in s : x <= Max(s)
         /\ s \ {Max(s)} \in SUBSET (1 .. n)
<1> DEFINE T == {n - x : x \in s}
<1>1. T \in SUBSET Nat /\ T # {}
  <2>1. \A x \in s : n - x \in Nat
    OBVIOUS
  <2> QED BY <2>1
<1>2. PICK t \in T : \A u \in T : t <= u
  <2> HIDE DEF T
  <2> QED BY <1>1, LeastElement
<1>3. PICK x \in s : t = n - x
  BY <1>2
<1>4. \A y \in s : n - y \in T /\ y \in 1 .. n
  OBVIOUS
<1>5. \A y \in s : x >= y
  <2> HIDE DEF T
  <2> QED BY <1>2, <1>3, <1>4
<1>6. Max(s) \in s /\ \A y \in s : Max(s) >= y
  BY <1>5 DEF Max
<1> QED BY <1>4, <1>6

(* The first k positions: the largest is k, and k - 1 remain without it.   *)
LEMMA MaxInterval ==
  ASSUME NEW n \in Nat, NEW k \in 1 .. n
  PROVE  /\ 1 .. k \in SUBSET (1 .. n) /\ 1 .. k # {}
         /\ Max(1 .. k) = k /\ (1 .. k) \ {k} = 1 .. k - 1
<1>1. 1 .. k \in SUBSET (1 .. n) /\ k \in 1 .. k
  OBVIOUS
<1>2. Max(1 .. k) \in 1 .. k /\ k <= Max(1 .. k)
  BY <1>1, MaxFacts
<1>3. Max(1 .. k) = k
  BY <1>2
<1>4. (1 .. k) \ {k} = 1 .. k - 1
  OBVIOUS
<1> QED BY <1>1, <1>3, <1>4

(* The recursion by which a fold is defined: what the elements of a subset *)
(* of the positions make of e, the last one after the others.              *)
IsFold(n, U, e, F, w) ==
  /\ w \in [SUBSET (1 .. n) -> U]
  /\ w = [s \in SUBSET (1 .. n) |-> IF s = {} THEN e ELSE F[Max(s)][w[s \ {Max(s)}]]]

(* There is such a function for every list, by the run on its positions.   *)
LEMMA FoldExists ==
  ASSUME NEW n \in Nat, NEW U, NEW e \in U, NEW F, Closed(n, U, F)
  PROVE  \E w : IsFold(n, U, e, F, w)
<1> USE DEF Closed
<1> DEFINE G(s) == [k \in 1 .. n |-> [x \in U |-> IF k \in s THEN F[k][x] ELSE x]]
           R(s) == CHOOSE r : IsRun(n, U, e, G(s), r)
           w == [s \in SUBSET (1 .. n) |-> R(s)[n]]
<1>1. ASSUME NEW s
      PROVE  /\ R(s) \in [0 .. n -> U] /\ R(s)[0] = e
             /\ \A k \in 1 .. n : R(s)[k] = IF k \in s THEN F[k][R(s)[k - 1]] ELSE R(s)[k - 1]
  <2>1. \A k \in 1 .. n, x \in U : G(s)[k][x] = (IF k \in s THEN F[k][x] ELSE x) /\ G(s)[k][x] \in U
    OBVIOUS
  <2>2. \E r : IsRun(n, U, e, G(s), r)
    <3> HIDE DEF G
    <3> QED BY <2>1, RunExists
  <2>3. IsRun(n, U, e, G(s), R(s))
    <3> HIDE DEF G
    <3> QED BY <2>2
  <2>4. \A k \in 1 .. n : k - 1 \in 0 .. n
    OBVIOUS
  <2> HIDE DEF G, R
  <2> QED BY <2>1, <2>3, <2>4 DEF IsRun
<1> HIDE DEF R, G
<1>2. w \in [SUBSET (1 .. n) -> U]
  <2>1. n \in 0 .. n
    OBVIOUS
  <2> QED BY <1>1, <2>1
<1>3. ASSUME NEW s \in SUBSET (1 .. n), NEW m \in 0 .. n, \A x \in s : x <= m
      PROVE  R(s)[n] = R(s)[m]
  <2> DEFINE T == {k \in 0 .. n : k <= m \/ R(s)[k] = R(s)[m]}
  <2>1. 0 \in T
    OBVIOUS
  <2>2. ASSUME NEW k \in 1 .. n, k - 1 \in T
        PROVE  k \in T
    <3>1. CASE k <= m
      BY <3>1
    <3>2. CASE k > m
      <4>1. k \notin s /\ (k - 1 <= m => k - 1 = m)
        BY <1>3, <3>2
      <4>2. R(s)[k] = R(s)[k - 1]
        BY <1>1, <4>1
      <4> QED BY <2>2, <4>1, <4>2
    <3> QED BY <3>1, <3>2
  <2>3. n \in T
    <3> HIDE DEF T
    <3> QED BY <2>1, <2>2, Everywhere
  <2>4. n <= m => n = m
    OBVIOUS
  <2> QED BY <2>3, <2>4
<1>4. ASSUME NEW s \in SUBSET (1 .. n), s # {}
      PROVE  R(s)[n] = F[Max(s)][R(s \ {Max(s)})[n]]
  <2> DEFINE m == Max(s)
             t == s \ {m}
             T == {k \in 0 .. n : k <= m - 1 => R(s)[k] = R(t)[k]}
  <2>1. m \in s /\ m \in 1 .. n /\ (\A x \in s : x <= m) /\ t \in SUBSET (1 .. n)
    BY <1>4, MaxFacts
  <2> HIDE DEF m
  <2>2. m - 1 \in 0 .. n /\ m \in 0 .. n /\ \A x \in t : x <= m - 1
    BY <2>1
  <2>3. R(s)[n] = R(s)[m] /\ R(t)[n] = R(t)[m - 1]
    <3> HIDE DEF t
    <3> QED BY <1>3, <2>1, <2>2
  <2>4. R(s)[m] = F[m][R(s)[m - 1]]
    BY <1>1, <2>1
  <2>5. 0 \in T
    BY <1>1
  <2>6. ASSUME NEW k \in 1 .. n, k - 1 \in T
        PROVE  k \in T
    <3>1. CASE k <= m - 1
      <4>1. (k \in s <=> k \in t) /\ k - 1 <= m - 1
        BY <2>1, <3>1
      <4>2. R(s)[k - 1] = R(t)[k - 1]
        BY <2>6, <4>1
      <4> QED BY <1>1, <4>1, <4>2
    <3>2. CASE k > m - 1
      BY <2>1, <3>2
    <3> QED BY <2>1, <3>1, <3>2
  <2>7. m - 1 \in T
    <3> HIDE DEF T
    <3> QED BY <2>2, <2>5, <2>6, Everywhere
  <2> QED BY <2>2, <2>3, <2>4, <2>7 DEF m
<1>5. w = [s \in SUBSET (1 .. n) |-> IF s = {} THEN e ELSE F[Max(s)][w[s \ {Max(s)}]]]
  <2>1. R({})[n] = e
    <3>1. {} \in SUBSET (1 .. n) /\ 0 \in 0 .. n
      OBVIOUS
    <3> QED BY <1>1, <1>3, <3>1
  <2>2. ASSUME NEW s \in SUBSET (1 .. n), s # {}
        PROVE  w[s] = F[Max(s)][w[s \ {Max(s)}]]
    BY <1>4, <2>2, MaxFacts
  <2>3. {} \in SUBSET (1 .. n) /\ w[{}] = e
    BY <2>1
  <2> HIDE DEF w
  <2> QED BY <1>2, <2>2, <2>3
<1> QED BY <1>2, <1>5 DEF IsFold

(* What satisfies this recursion has a run.                                *)
Unfolds(n, U, e, F, c) ==
  /\ c[{}] = e
  /\ \A s \in SUBSET (1 .. n) :
       s # {} /\ c[s \ {Max(s)}] \in U => c[s] = F[Max(s)][c[s \ {Max(s)}]]

(* Such a recursion computes, for the first positions, the run of the      *)
(* fold.                                                                   *)
LEMMA FoldRuns ==
  ASSUME NEW n \in Nat, NEW U, NEW e \in U, NEW F, NEW c, Closed(n, U, F), Unfolds(n, U, e, F, c)
  PROVE  \E r : IsRun(n, U, e, F, r) /\ c[1 .. n] = r[n]
<1> USE DEF Closed, Unfolds
<1> DEFINE r == [k \in 0 .. n |-> c[1 .. k]]
           S == {k \in 0 .. n : r[k] \in U}
<1>1. r[0] = e
  <2>1. 1 .. 0 = {} /\ 0 \in 0 .. n
    OBVIOUS
  <2> QED BY <2>1
<1>2. ASSUME NEW k \in 1 .. n
      PROVE  /\ k - 1 \in 0 .. n /\ k \in 0 .. n
             /\ r[k - 1] \in U => r[k] = F[k][r[k - 1]]
  <2>1. k - 1 \in 0 .. n /\ k \in 0 .. n
    OBVIOUS
  <2>2. r[k] = c[1 .. k] /\ r[k - 1] = c[1 .. k - 1]
    BY <2>1
  <2>3. c[1 .. k - 1] \in U => c[1 .. k] = F[k][c[1 .. k - 1]]
    <3> DEFINE s == 1 .. k
    <3>1. s \in SUBSET (1 .. n) /\ s # {} /\ Max(s) = k /\ s \ {k} = 1 .. k - 1
      BY MaxInterval
    <3> HIDE DEF s
    <3>2. c[s \ {Max(s)}] \in U => c[s] = F[Max(s)][c[s \ {Max(s)}]]
      BY <3>1
    <3> QED BY <3>1, <3>2 DEF s
  <2> HIDE DEF r
  <2> QED BY <2>1, <2>2, <2>3
<1> HIDE DEF r
<1>3. 0 .. n \subseteq S
  <2>1. 0 \in S
    BY <1>1
  <2>2. \A k \in 1 .. n : k - 1 \in S => k \in S
    BY <1>2
  <2> HIDE DEF S
  <2> QED BY <2>1, <2>2, Everywhere
<1>4. IsRun(n, U, e, F, r)
  <2>1. r \in [0 .. n -> U]
    BY <1>3 DEF r
  <2> QED BY <1>1, <1>2, <2>1 DEF IsRun
<1>5. r[n] = c[1 .. n]
  BY DEF r
<1> QED BY <1>4, <1>5
-----------------------------------------------------------------------------
(* Lists.                                                                  *)

(* The first k elements of s.                                              *)
Upto(s, k) == {s[i] : i \in 1 .. k}

(* The first elements grow by one element at a time, up to the whole list. *)
LEMMA UptoFacts ==
  ASSUME NEW S, NEW s \in Seq(S)
  PROVE  /\ Len(s) \in Nat /\ DOMAIN s = 1 .. Len(s)
         /\ Upto(s, 0) = {} /\ Upto(s, Len(s)) = ToSet(s) /\ ToSet(s) \subseteq S
         /\ \A k \in 1 .. Len(s) : /\ s[k] \in S /\ s[k] \in ToSet(s)
                                  /\ Upto(s, k) = Upto(s, k - 1) \cup {s[k]}
                                  /\ Upto(s, k) \subseteq S
<1>1. Len(s) \in Nat /\ DOMAIN s = 1 .. Len(s) /\ \A k \in 1 .. Len(s) : s[k] \in S
  OBVIOUS
<1>2. Upto(s, 0) = {}
  <2>1. 1 .. 0 = {}
    OBVIOUS
  <2> QED BY <2>1 DEF Upto
<1>3. Upto(s, Len(s)) = ToSet(s) /\ ToSet(s) \subseteq S
  BY <1>1 DEF Upto, ToSet
<1>4. ASSUME NEW k \in 1 .. Len(s)
      PROVE  /\ s[k] \in S /\ s[k] \in ToSet(s)
             /\ Upto(s, k) = Upto(s, k - 1) \cup {s[k]} /\ Upto(s, k) \subseteq S
  <2>1. 1 .. k = (1 .. k - 1) \cup {k} /\ 1 .. k \subseteq 1 .. Len(s)
    BY <1>1
  <2>2. s[k] \in S /\ s[k] \in ToSet(s)
    BY <1>1 DEF ToSet
  <2> QED BY <1>1, <2>1, <2>2 DEF Upto
<1> QED BY <1>1, <1>2, <1>3, <1>4

-----------------------------------------------------------------------------
(* One group.                                                              *)

(* Lists without repetitions, as atoms and as rows of a table.             *)
Lists == {s \in Seq(Atoms) : IsInjective(s)}

(* Groups with parallel vectors.                                           *)
Tables == {g \in [atoms : Lists, numbers : Seq(Nat), table : Seq(Lists)] :
             Len(g.numbers) = Len(g.atoms) /\ Len(g.table) = Len(g.atoms)}

(* Groups in which every number is the size of its row.                    *)
Sound == {g \in Tables : \A i \in DOMAIN g.atoms : g.numbers[i] = Len(g.table[i])}

(* A new element at the end of a list.                                     *)
LEMMA AppendNew ==
  ASSUME NEW s \in Lists, NEW x \in Atoms, x \notin ToSet(s)
  PROVE  /\ Append(s, x) \in Lists
         /\ ToSet(Append(s, x)) = ToSet(s) \cup {x}
         /\ Len(Append(s, x)) = Len(s) + 1
<1> DEFINE t == Append(s, x)
<1>1. s \in Seq(Atoms) /\ \A i, j \in 1 .. Len(s) : s[i] = s[j] => i = j
  BY DEF Lists, IsInjective
<1>2. t \in Seq(Atoms) /\ Len(t) = Len(s) + 1 /\ t[Len(s) + 1] = x
      /\ \A i \in 1 .. Len(s) : t[i] = s[i] /\ s[i] # x
  BY <1>1 DEF ToSet
<1>3. \A i \in 1 .. Len(t) : i \in 1 .. Len(s) \/ i = Len(s) + 1
  BY <1>1, <1>2
<1> HIDE DEF t
<1>4. ASSUME NEW i \in 1 .. Len(t), NEW j \in 1 .. Len(t), t[i] = t[j]
      PROVE  i = j
  BY <1>1, <1>2, <1>3, <1>4
<1>5. t \in Lists
  BY <1>2, <1>4 DEF Lists, IsInjective
<1>6. ToSet(t) = ToSet(s) \cup {x}
  <2>1. DOMAIN s = 1 .. Len(s) /\ DOMAIN t = 1 .. Len(t)
    BY <1>1, <1>2
  <2>2. \A i \in 1 .. Len(s) : i \in 1 .. Len(t)
    BY <1>1, <1>2
  <2>3. Len(s) + 1 \in 1 .. Len(t)
    BY <1>1, <1>2
  <2>4. ToSet(t) \subseteq ToSet(s) \cup {x}
    BY <1>2, <1>3, <2>1 DEF ToSet
  <2>5. ToSet(s) \cup {x} \subseteq ToSet(t)
    BY <1>2, <2>1, <2>2, <2>3 DEF ToSet
  <2> QED BY <2>4, <2>5
<1> QED BY <1>2, <1>5, <1>6 DEF t

(* The empty list has no repetitions.                                      *)
LEMMA EmptyList == <<>> \in Lists /\ ToSet(<<>>) = {} /\ Len(<<>>) = 0
  BY DEF Lists, ToSet, IsInjective

(* The elements of a list without repetitions are all new when they come.  *)
LEMMA ListFacts ==
  ASSUME NEW s \in Lists
  PROVE  /\ s \in Seq(Atoms) /\ Len(s) \in Nat /\ DOMAIN s = 1 .. Len(s) /\ ToSet(s) \subseteq Atoms
         /\ \A i \in 1 .. Len(s) : s[i] \in Atoms /\ s[i] \in ToSet(s)
         /\ \A i, j \in 1 .. Len(s) : s[i] = s[j] => i = j
         /\ \A i \in 1 .. Len(s) : s[i] \notin Upto(s, i - 1)
<1>1. s \in Seq(Atoms) /\ \A i, j \in 1 .. Len(s) : s[i] = s[j] => i = j
  BY DEF Lists, IsInjective
<1>2. \A i \in 1 .. Len(s) : s[i] \notin Upto(s, i - 1)
  <2>1. \A i \in 1 .. Len(s) : \A j \in 1 .. i - 1 : j \in 1 .. Len(s) /\ j # i
    BY <1>1
  <2> QED BY <1>1, <2>1 DEF Upto
<1> QED BY <1>1, <1>2, UptoFacts

(* The parts of a group, and its members.                                  *)
LEMMA TablesFacts ==
  ASSUME NEW g \in Tables
  PROVE  /\ g.atoms \in Lists /\ g.numbers \in Seq(Nat) /\ g.table \in Seq(Lists)
         /\ g = [atoms |-> g.atoms, numbers |-> g.numbers, table |-> g.table]
         /\ Len(g.numbers) = Len(g.atoms) /\ Len(g.table) = Len(g.atoms)
         /\ MembersOf(g) = {g.atoms[i] : i \in 1 .. Len(g.atoms)}
         /\ MembersOf(g) \subseteq Atoms
         /\ \A i \in 1 .. Len(g.atoms) : g.atoms[i] \in MembersOf(g)
<1>1. /\ g.atoms \in Lists /\ g.numbers \in Seq(Nat) /\ g.table \in Seq(Lists)
      /\ g = [atoms |-> g.atoms, numbers |-> g.numbers, table |-> g.table]
      /\ Len(g.numbers) = Len(g.atoms) /\ Len(g.table) = Len(g.atoms)
  BY DEF Tables
<1> QED BY <1>1, ListFacts DEF MembersOf, ToSet

(* Three vectors of one length are a group.                                *)
LEMMA MakeTables ==
  ASSUME NEW atoms \in Lists, NEW numbers \in Seq(Nat), NEW table \in Seq(Lists),
         Len(numbers) = Len(atoms), Len(table) = Len(atoms)
  PROVE  [atoms |-> atoms, numbers |-> numbers, table |-> table] \in Tables
  BY DEF Tables

(* A member has one position, and a row and a number there.                *)
LEMMA MemberIdFacts ==
  ASSUME NEW g \in Tables, NEW a \in MembersOf(g)
  PROVE  /\ MemberId(g, a) \in 1 .. Len(g.atoms) /\ g.atoms[MemberId(g, a)] = a
         /\ MemberId(g, a) \in DOMAIN g.numbers /\ MemberId(g, a) \in DOMAIN g.table
         /\ \A i \in 1 .. Len(g.atoms) : g.atoms[i] = a => i = MemberId(g, a)
         /\ TableOf(g, a) \in Lists /\ NumberOf(g, a) \in Nat
<1>1. DOMAIN g.atoms = 1 .. Len(g.atoms)
  BY TablesFacts, ListFacts
<1>2. \E i \in DOMAIN g.atoms : g.atoms[i] = a
  BY <1>1, TablesFacts
<1>3. MemberId(g, a) \in 1 .. Len(g.atoms) /\ g.atoms[MemberId(g, a)] = a
  BY <1>1, <1>2 DEF MemberId
<1>4. \A i \in 1 .. Len(g.atoms) : g.atoms[i] = a => i = MemberId(g, a)
  BY <1>3, TablesFacts, ListFacts
<1>5. MemberId(g, a) \in DOMAIN g.numbers /\ MemberId(g, a) \in DOMAIN g.table
  BY <1>3, TablesFacts
<1>6. TableOf(g, a) \in Lists /\ NumberOf(g, a) \in Nat
  BY <1>5, TablesFacts DEF TableOf, NumberOf
<1> QED BY <1>3, <1>4, <1>5, <1>6

(* A group is sound if the number of every member is the size of its row.  *)
LEMMA SoundByMembers ==
  ASSUME NEW g \in Tables
  PROVE  g \in Sound <=> \A a \in MembersOf(g) : NumberOf(g, a) = Len(TableOf(g, a))
<1>0. DOMAIN g.atoms = 1 .. Len(g.atoms)
  BY TablesFacts, ListFacts
<1>1. ASSUME g \in Sound, NEW a \in MembersOf(g)
      PROVE  NumberOf(g, a) = Len(TableOf(g, a))
  BY <1>0, <1>1, MemberIdFacts DEF Sound, NumberOf, TableOf
<1>2. ASSUME \A a \in MembersOf(g) : NumberOf(g, a) = Len(TableOf(g, a))
      PROVE  g \in Sound
  <2>1. ASSUME NEW i \in DOMAIN g.atoms
        PROVE  g.numbers[i] = Len(g.table[i])
    <3>1. g.atoms[i] \in MembersOf(g)
      BY <1>0, TablesFacts
    <3>2. MemberId(g, g.atoms[i]) = i
      BY <1>0, <3>1, MemberIdFacts
    <3> QED BY <1>2, <3>1, <3>2 DEF NumberOf, TableOf
  <2> QED BY <2>1 DEF Sound
<1> QED BY <1>1, <1>2

(* Two groups with the same list of atoms.                                 *)
LEMMA SameAtoms ==
  ASSUME NEW g, NEW h, h.atoms = g.atoms
  PROVE  MembersOf(h) = MembersOf(g) /\ \A a : MemberId(h, a) = MemberId(g, a)
  BY DEF MembersOf, MemberId

(* The empty group is sound.                                               *)
LEMMA EmptyGroupFacts == EmptyGroup \in Sound /\ EmptyGroup \in Tables /\ MembersOf(EmptyGroup) = {}
<1>1. EmptyGroup.atoms = <<>> /\ EmptyGroup.numbers = <<>> /\ EmptyGroup.table = <<>>
  BY DEF EmptyGroup
<1>2. <<>> \in Seq(Nat) /\ <<>> \in Seq(Lists) /\ DOMAIN <<>> = {}
  OBVIOUS
<1>3. EmptyGroup \in Tables
  BY <1>2, EmptyList, MakeTables DEF EmptyGroup
<1> QED BY <1>1, <1>2, <1>3, EmptyList DEF Sound, MembersOf

(* addAtom makes a member, with an empty row if it was none, and changes   *)
(* nothing of the other members.                                           *)
LEMMA AddAtomFacts ==
  ASSUME NEW g \in Tables, NEW a \in Atoms
  PROVE  /\ AddAtom(g, a) \in Tables
         /\ MembersOf(AddAtom(g, a)) = MembersOf(g) \cup {a}
         /\ \A b \in MembersOf(g) : /\ TableOf(AddAtom(g, a), b) = TableOf(g, b)
                                    /\ NumberOf(AddAtom(g, a), b) = NumberOf(g, b)
         /\ a \notin MembersOf(g) => /\ TableOf(AddAtom(g, a), a) = <<>>
                                     /\ NumberOf(AddAtom(g, a), a) = 0
<1>1. CASE a \in MembersOf(g)
  BY <1>1 DEF AddAtom, IsMember
<1>2. CASE a \notin MembersOf(g)
  <2> DEFINE h == AddAtom(g, a)
             n == Len(g.atoms)
  <2>1. h = [atoms |-> Append(g.atoms, a), numbers |-> Append(g.numbers, 0),
             table |-> Append(g.table, <<>>)]
    BY <1>2 DEF AddAtom, IsMember
  <2>2. Append(g.atoms, a) \in Lists /\ ToSet(Append(g.atoms, a)) = MembersOf(g) \cup {a}
        /\ Len(Append(g.atoms, a)) = n + 1
    BY <1>2, TablesFacts, AppendNew DEF MembersOf
  <2>3. Append(g.numbers, 0) \in Seq(Nat) /\ Append(g.table, <<>>) \in Seq(Lists)
        /\ Len(Append(g.numbers, 0)) = n + 1 /\ Len(Append(g.table, <<>>)) = n + 1
    BY TablesFacts, EmptyList
  <2>4. h \in Tables
    BY <2>1, <2>2, <2>3, MakeTables
  <2>5. h.atoms = Append(g.atoms, a) /\ h.numbers = Append(g.numbers, 0)
        /\ h.table = Append(g.table, <<>>)
    BY <2>1
  <2> HIDE DEF h
  <2>6. MembersOf(h) = MembersOf(g) \cup {a}
    BY <2>2, <2>5 DEF MembersOf
  <2>7. n \in Nat /\ g.atoms \in Seq(Atoms) /\ g.numbers \in Seq(Nat) /\ g.table \in Seq(Lists)
        /\ Len(g.numbers) = n /\ Len(g.table) = n
    BY TablesFacts, ListFacts
  <2>8. ASSUME NEW b \in MembersOf(g)
        PROVE  TableOf(h, b) = TableOf(g, b) /\ NumberOf(h, b) = NumberOf(g, b)
    <3> DEFINE i == MemberId(g, b)
    <3>1. i \in 1 .. n /\ g.atoms[i] = b
      BY MemberIdFacts
    <3>2. i \in 1 .. Len(h.atoms) /\ h.atoms[i] = b /\ b \in MembersOf(h)
      BY <2>2, <2>5, <2>6, <2>7, <3>1
    <3>3. MemberId(h, b) = i
      BY <2>4, <3>2, MemberIdFacts
    <3>4. h.table[i] = g.table[i] /\ h.numbers[i] = g.numbers[i]
      BY <2>5, <2>7, <3>1
    <3> QED BY <3>3, <3>4 DEF TableOf, NumberOf
  <2>9. TableOf(h, a) = <<>> /\ NumberOf(h, a) = 0
    <3>1. n + 1 \in 1 .. Len(h.atoms) /\ h.atoms[n + 1] = a
      BY <2>2, <2>5, <2>7
    <3>2. MemberId(h, a) = n + 1
      BY <2>4, <2>6, <3>1, MemberIdFacts
    <3>3. h.table[n + 1] = <<>> /\ h.numbers[n + 1] = 0
      BY <2>5, <2>7, SMTT(30)
    <3> QED BY <3>2, <3>3 DEF TableOf, NumberOf
  <2> QED BY <2>4, <2>6, <2>8, <2>9 DEF h
<1> QED BY <1>1, <1>2

(* A group with another number at one position, as a record.               *)
LEMMA ExceptNumber ==
  ASSUME NEW g, g = [atoms |-> g.atoms, numbers |-> g.numbers, table |-> g.table], NEW i, NEW v
  PROVE  [g EXCEPT !.numbers[i] = v] =
           [atoms |-> g.atoms, numbers |-> [g.numbers EXCEPT ![i] = v], table |-> g.table]
  OBVIOUS

(* A group with another row at one position, as a record.                  *)
LEMMA ExceptTable ==
  ASSUME NEW g, g = [atoms |-> g.atoms, numbers |-> g.numbers, table |-> g.table], NEW i, NEW v
  PROVE  [g EXCEPT !.table[i] = v] =
           [atoms |-> g.atoms, numbers |-> g.numbers, table |-> [g.table EXCEPT ![i] = v]]
  OBVIOUS

(* setCoordinationNumber changes the number of one member only.            *)
LEMMA SetCoordinationNumberFacts ==
  ASSUME NEW g \in Tables, NEW a \in MembersOf(g), NEW value \in Nat
  PROVE  /\ SetCoordinationNumber(g, a, value) \in Tables
         /\ MembersOf(SetCoordinationNumber(g, a, value)) = MembersOf(g)
         /\ \A b \in MembersOf(g) :
              /\ TableOf(SetCoordinationNumber(g, a, value), b) = TableOf(g, b)
              /\ NumberOf(SetCoordinationNumber(g, a, value), b) =
                   IF b = a THEN value ELSE NumberOf(g, b)
<1> DEFINE h == SetCoordinationNumber(g, a, value)
           numbers == [g.numbers EXCEPT ![MemberId(g, a)] = value]
<1>1. h = [atoms |-> g.atoms, numbers |-> numbers, table |-> g.table]
  <2>1. g = [atoms |-> g.atoms, numbers |-> g.numbers, table |-> g.table]
    BY TablesFacts
  <2> QED BY <2>1, ExceptNumber DEF SetCoordinationNumber
<1>2. numbers \in Seq(Nat) /\ Len(numbers) = Len(g.atoms)
      /\ \A i \in DOMAIN g.numbers : numbers[i] = IF i = MemberId(g, a) THEN value ELSE g.numbers[i]
  BY TablesFacts, MemberIdFacts
<1>3. h \in Tables
  <2> HIDE DEF numbers
  <2> QED BY <1>1, <1>2, TablesFacts, MakeTables
<1>4. h.atoms = g.atoms /\ h.numbers = numbers /\ h.table = g.table
  BY <1>1
<1> HIDE DEF h, numbers
<1>5. MembersOf(h) = MembersOf(g) /\ \A b : MemberId(h, b) = MemberId(g, b)
  BY <1>4, SameAtoms
<1>6. ASSUME NEW b \in MembersOf(g)
      PROVE  /\ TableOf(h, b) = TableOf(g, b)
             /\ NumberOf(h, b) = IF b = a THEN value ELSE NumberOf(g, b)
  <2>1. MemberId(g, b) = MemberId(g, a) <=> b = a
    BY MemberIdFacts
  <2> QED BY <1>2, <1>4, <1>5, <2>1, MemberIdFacts DEF TableOf, NumberOf
<1> QED BY <1>3, <1>5, <1>6 DEF h

(* Another row for a member changes nothing of the other members.          *)
LEMMA SetTableFacts ==
  ASSUME NEW g \in Tables, NEW a \in MembersOf(g), NEW row \in Lists
  PROVE  /\ [g EXCEPT !.table[MemberId(g, a)] = row] \in Tables
         /\ MembersOf([g EXCEPT !.table[MemberId(g, a)] = row]) = MembersOf(g)
         /\ \A b : MemberId([g EXCEPT !.table[MemberId(g, a)] = row], b) = MemberId(g, b)
         /\ \A b \in MembersOf(g) :
              /\ TableOf([g EXCEPT !.table[MemberId(g, a)] = row], b) =
                   IF b = a THEN row ELSE TableOf(g, b)
              /\ NumberOf([g EXCEPT !.table[MemberId(g, a)] = row], b) = NumberOf(g, b)
<1> DEFINE h == [g EXCEPT !.table[MemberId(g, a)] = row]
           table == [g.table EXCEPT ![MemberId(g, a)] = row]
<1>1. h = [atoms |-> g.atoms, numbers |-> g.numbers, table |-> table]
  <2>1. g = [atoms |-> g.atoms, numbers |-> g.numbers, table |-> g.table]
    BY TablesFacts
  <2> QED BY <2>1, ExceptTable
<1>2. table \in Seq(Lists) /\ Len(table) = Len(g.atoms)
      /\ \A i \in DOMAIN g.table : table[i] = IF i = MemberId(g, a) THEN row ELSE g.table[i]
  BY TablesFacts, MemberIdFacts
<1>3. h \in Tables
  <2> HIDE DEF table
  <2> QED BY <1>1, <1>2, TablesFacts, MakeTables
<1>4. h.atoms = g.atoms /\ h.numbers = g.numbers /\ h.table = table
  BY <1>1
<1> HIDE DEF h, table
<1>5. MembersOf(h) = MembersOf(g) /\ \A b : MemberId(h, b) = MemberId(g, b)
  BY <1>4, SameAtoms
<1>6. ASSUME NEW b \in MembersOf(g)
      PROVE  /\ TableOf(h, b) = IF b = a THEN row ELSE TableOf(g, b)
             /\ NumberOf(h, b) = NumberOf(g, b)
  <2>1. MemberId(g, b) = MemberId(g, a) <=> b = a
    BY MemberIdFacts
  <2> QED BY <1>2, <1>4, <1>5, <2>1, MemberIdFacts DEF TableOf, NumberOf
<1> QED BY <1>3, <1>5, <1>6 DEF h

(* The row of a with b.                                                    *)
With(s, b) == IF b \in ToSet(s) THEN s ELSE Append(s, b)

(* A row gets an atom only once.                                           *)
LEMMA WithFacts ==
  ASSUME NEW s \in Lists, NEW b \in Atoms
  PROVE  With(s, b) \in Lists /\ ToSet(With(s, b)) = ToSet(s) \cup {b}
  BY AppendNew DEF With

(* addToCoordinationTable, which also sets the number.                     *)
LEMMA AddToTableAutoset ==
  ASSUME NEW g \in Tables, NEW a \in MembersOf(g), NEW b \in Atoms
  PROVE  /\ AddToCoordinationTable(g, a, b, TRUE) \in Tables
         /\ MembersOf(AddToCoordinationTable(g, a, b, TRUE)) = MembersOf(g)
         /\ TableOf(AddToCoordinationTable(g, a, b, TRUE), a) = With(TableOf(g, a), b)
         /\ NumberOf(AddToCoordinationTable(g, a, b, TRUE),
                     a) = Len(TableOf(AddToCoordinationTable(g, a, b, TRUE), a))
         /\ \A c \in MembersOf(g) \ {a} :
              /\ TableOf(AddToCoordinationTable(g, a, b, TRUE), c) = TableOf(g, c)
              /\ NumberOf(AddToCoordinationTable(g, a, b, TRUE), c) = NumberOf(g, c)
<1> DEFINE h == AddToCoordinationTable(g, a, b, TRUE)
           row == With(TableOf(g, a), b)
           value == Len(row)
           k == [g EXCEPT !.table[MemberId(g, a)] = row]
<1>1. row \in Lists /\ value \in Nat
  BY WithFacts, MemberIdFacts, ListFacts
<1>2. h = SetCoordinationNumber(k, a, value)
  <2>1. h = [g EXCEPT !.table[MemberId(g, a)] = row,
                      !.numbers[MemberId(g, a)] = Len(row)]
    BY DEF AddToCoordinationTable, With, TableOf
  <2>2. MemberId(k, a) = MemberId(g, a)
    BY <1>1, SetTableFacts
  <2> HIDE DEF row
  <2> QED BY <2>1, <2>2, TablesFacts DEF SetCoordinationNumber, NumberOf
<1>3. /\ k \in Tables /\ MembersOf(k) = MembersOf(g)
      /\ \A c \in MembersOf(g) :
           /\ TableOf(k, c) = IF c = a THEN row ELSE TableOf(g, c)
           /\ NumberOf(k, c) = NumberOf(g, c)
  BY <1>1, SetTableFacts
<1> HIDE DEF k, row, value
<1>4. /\ SetCoordinationNumber(k, a, value) \in Tables
      /\ MembersOf(SetCoordinationNumber(k, a, value)) = MembersOf(g)
      /\ \A c \in MembersOf(g) :
           /\ TableOf(SetCoordinationNumber(k, a, value), c) = TableOf(k, c)
           /\ NumberOf(SetCoordinationNumber(k, a, value), c) =
                IF c = a THEN value ELSE NumberOf(k, c)
  BY <1>1, <1>3, SetCoordinationNumberFacts
<1> HIDE DEF h
<1>5. /\ h \in Tables /\ MembersOf(h) = MembersOf(g)
      /\ \A c \in MembersOf(g) :
           /\ TableOf(h, c) = IF c = a THEN row ELSE TableOf(g, c)
           /\ NumberOf(h, c) = IF c = a THEN value ELSE NumberOf(g, c)
  BY <1>2, <1>3, <1>4
<1> QED BY <1>5 DEF h, row, value

(* addToCoordinationTable, which leaves the number alone.                  *)
LEMMA AddToTableNoAutoset ==
  ASSUME NEW g \in Tables, NEW a \in MembersOf(g), NEW b \in Atoms
  PROVE  /\ AddToCoordinationTable(g, a, b, FALSE) \in Tables
         /\ MembersOf(AddToCoordinationTable(g, a, b, FALSE)) = MembersOf(g)
         /\ TableOf(AddToCoordinationTable(g, a, b, FALSE), a) = With(TableOf(g, a), b)
         /\ NumberOf(AddToCoordinationTable(g, a, b, FALSE), a) = NumberOf(g, a)
         /\ \A c \in MembersOf(g) \ {a} :
              /\ TableOf(AddToCoordinationTable(g, a, b, FALSE), c) = TableOf(g, c)
              /\ NumberOf(AddToCoordinationTable(g, a, b, FALSE), c) = NumberOf(g, c)
<1> DEFINE h == AddToCoordinationTable(g, a, b, FALSE)
           row == With(TableOf(g, a), b)
           value == NumberOf(g, a)
           k == [g EXCEPT !.table[MemberId(g, a)] = row]
<1>1. row \in Lists /\ value \in Nat
  BY WithFacts, MemberIdFacts, ListFacts
<1>2. h = SetCoordinationNumber(k, a, value)
  <2>1. h = [g EXCEPT !.table[MemberId(g, a)] = row,
                      !.numbers[MemberId(g, a)] = @]
    BY DEF AddToCoordinationTable, With, TableOf
  <2>2. MemberId(k, a) = MemberId(g, a)
    BY <1>1, SetTableFacts
  <2> HIDE DEF row
  <2> QED BY <2>1, <2>2, TablesFacts DEF SetCoordinationNumber, NumberOf
<1>3. /\ k \in Tables /\ MembersOf(k) = MembersOf(g)
      /\ \A c \in MembersOf(g) :
           /\ TableOf(k, c) = IF c = a THEN row ELSE TableOf(g, c)
           /\ NumberOf(k, c) = NumberOf(g, c)
  BY <1>1, SetTableFacts
<1> HIDE DEF k, row, value
<1>4. /\ SetCoordinationNumber(k, a, value) \in Tables
      /\ MembersOf(SetCoordinationNumber(k, a, value)) = MembersOf(g)
      /\ \A c \in MembersOf(g) :
           /\ TableOf(SetCoordinationNumber(k, a, value), c) = TableOf(k, c)
           /\ NumberOf(SetCoordinationNumber(k, a, value), c) =
                IF c = a THEN value ELSE NumberOf(k, c)
  BY <1>1, <1>3, SetCoordinationNumberFacts
<1> HIDE DEF h
<1>5. /\ h \in Tables /\ MembersOf(h) = MembersOf(g)
      /\ \A c \in MembersOf(g) :
           /\ TableOf(h, c) = IF c = a THEN row ELSE TableOf(g, c)
           /\ NumberOf(h, c) = IF c = a THEN value ELSE NumberOf(g, c)
  BY <1>2, <1>3, <1>4
<1> QED BY <1>5 DEF h, row, value

-----------------------------------------------------------------------------
(* One element of the lists that the kinds of groups go through.           *)

(* BOND: a to-atom b of a.                                                 *)
WithBond(d, h, a, b) ==
  LET k == AddToCoordinationTable(h, a, b, FALSE) IN IF d.include THEN AddAtom(k, b) ELSE k

(* BOND: a from-atom a.                                                    *)
WithBonds(d, bonds, to, g, a) ==
  LET tolist == ToList(d, a, bonds, to)
  IN  IF Coordinated(d, Len(tolist)) THEN AddBonds(d, g, a, tolist) ELSE g

(* The corresponding group: a from-atom a.                                 *)
WithBack(d, bonds, to, g, a) ==
  LET tolist == ToList(d, a, bonds, to)
  IN  IF Coordinated(d, Len(tolist)) THEN AddToTables(g, tolist, a) ELSE g

(* ADDCOORDINATION: the row of b in the second group.                      *)
SecondRow(h, b) == IF IsMember(h, b) THEN TableOf(h, b) ELSE <<>>

(* COORDINATIONTABLEINTERSECTION: what is kept of the row of a.            *)
KeptRow(gs, a) ==
  Among([j \in 1 .. NumberOf(gs[1], a) |-> TableOf(gs[1], a)[j]],
        {b \in Atoms : \A k \in 2 .. Len(gs) : IsMember(gs[k], b)})

(* FINDSHORTEST: the nearer of the atoms at k and j.                       *)
Nearer(bonds, x, atoms, k, j) ==
  IF k = 0 \/ bonds[x][atoms[j]] < bonds[x][atoms[k]] THEN j ELSE k

(* FINDSHORTEST: a from-atom x.                                            *)
WithNearest(bonds, to, s, x) ==
  LET k == Nearest(bonds, x, to.atoms) IN IF k = 0 THEN s ELSE AddPair(s, to.atoms[k], x)

-----------------------------------------------------------------------------
(* What the operations add to a group.  U is Sound, or a weaker set while   *)
(* the number of an atom is not yet what it should be.                     *)

Adds(U, h, g, members, pairs) ==
  /\ h \in U
  /\ MembersOf(h) = MembersOf(g) \cup members
  /\ Pairs(h) = Pairs(g) \cup pairs

(* What the first n steps add, and what step k adds.                       *)
UnionTo(n, M) == UNION {M[k] : k \in 1 .. n}

StepsAdd(n, U, F, M, P) == \A k \in 1 .. n, h \in U : Adds(U, F[k][h], h, M[k], P[k])

(* What two operations add, one after the other.                           *)
LEMMA AddsTwice ==
  ASSUME NEW U, NEW V, NEW g, NEW h, NEW k, NEW m1, NEW m2, NEW p1, NEW p2,
         Adds(U, h, g, m1, p1), Adds(V, k, h, m2, p2)
  PROVE  Adds(V, k, g, m1 \cup m2, p1 \cup p2)
<1>1. MembersOf(k) = MembersOf(g) \cup (m1 \cup m2)
  BY DEF Adds
<1>2. Pairs(k) = Pairs(g) \cup (p1 \cup p2)
  BY DEF Adds
<1>3. k \in V
  BY DEF Adds
<1> QED BY <1>1, <1>2, <1>3 DEF Adds

(* Steps that add something stay in U.                                     *)
LEMMA StepsAddClosed ==
  ASSUME NEW n \in Nat, NEW U, NEW F, NEW M, NEW P, StepsAdd(n, U, F, M, P)
  PROVE  Closed(n, U, F)
  BY DEF StepsAdd, Closed, Adds

(* V holds of the results when what came before is as the fold made it.    *)
AddsInTurn(n, U, V, e, F, M, P) ==
  \A k \in 1 .. n, h \in U :
    Adds(V, h, e, UnionTo(k - 1, M), UnionTo(k - 1, P)) => Adds(V, F[k][h], h, M[k], P[k])

(* What a fold adds is what its steps add, if each does so in its turn.    *)
LEMMA AddsFoldInTurn ==
  ASSUME NEW n \in Nat, NEW U, NEW V, NEW g \in U, g \in V, NEW F, NEW c, NEW M, NEW P,
         Unfolds(n, U, g, F, c), Closed(n, U, F), AddsInTurn(n, U, V, g, F, M, P)
  PROVE  Adds(V, c[1 .. n], g, UnionTo(n, M), UnionTo(n, P))
<1>1. PICK r : IsRun(n, U, g, F, r) /\ c[1 .. n] = r[n]
  BY FoldRuns
<1> DEFINE S == {k \in 0 .. n : Adds(V, r[k], g, UnionTo(k, M), UnionTo(k, P))}
<1>2. 0 \in S
  <2>1. UnionTo(0, M) = {} /\ UnionTo(0, P) = {}
    BY DEF UnionTo
  <2>2. r[0] = g
    BY <1>1 DEF IsRun
  <2>3. Adds(V, r[0], g, {}, {})
    BY <2>2 DEF Adds
  <2> QED BY <2>1, <2>3
<1>3. ASSUME NEW k \in 1 .. n, k - 1 \in S
      PROVE  k \in S
  <2>1. k - 1 \in 0 .. n /\ k \in 0 .. n
    OBVIOUS
  <2>2. r[k - 1] \in U /\ r[k] = F[k][r[k - 1]]
    BY <1>1, <2>1 DEF IsRun
  <2>3. Adds(V, r[k - 1], g, UnionTo(k - 1, M), UnionTo(k - 1, P))
    BY <1>3
  <2>4. Adds(V, r[k], r[k - 1], M[k], P[k])
    BY <2>2, <2>3 DEF AddsInTurn
  <2>5. Adds(V, r[k], g, UnionTo(k - 1, M) \cup M[k], UnionTo(k - 1, P) \cup P[k])
    BY <2>3, <2>4, AddsTwice
  <2>6. 1 .. k = (1 .. k - 1) \cup {k}
    OBVIOUS
  <2>7. UnionTo(k, M) = UnionTo(k - 1, M) \cup M[k]
    BY <2>6 DEF UnionTo
  <2>8. UnionTo(k, P) = UnionTo(k - 1, P) \cup P[k]
    BY <2>6 DEF UnionTo
  <2> QED BY <2>1, <2>5, <2>7, <2>8
<1>4. n \in S
  <2>1. n \in 0 .. n
    OBVIOUS
  <2> HIDE DEF S
  <2> QED BY <1>2, <1>3, <2>1, Everywhere
<1> QED BY <1>1, <1>4

(* The same when the steps add what they add in any group of U.            *)
LEMMA AddsFold ==
  ASSUME NEW n \in Nat, NEW U, NEW g \in U, NEW F, NEW c, NEW M, NEW P,
         Unfolds(n, U, g, F, c), StepsAdd(n, U, F, M, P)
  PROVE  Adds(U, c[1 .. n], g, UnionTo(n, M), UnionTo(n, P))
<1>1. AddsInTurn(n, U, U, g, F, M, P)
  BY DEF StepsAdd, AddsInTurn
<1> QED BY <1>1, StepsAddClosed, AddsFoldInTurn

(* The pairs of one atom.                                                  *)
PairsOf(a, bs) == {<<a, b>> : b \in bs}

(* The pairs of a group, member by member.                                 *)
LEMMA PairsFacts ==
  ASSUME NEW g \in Tables
  PROVE  /\ Pairs(g) = UNION {PairsOf(a, ToSet(TableOf(g, a))) : a \in MembersOf(g)}
         /\ Pairs(g) \subseteq Atoms \X Atoms
<1>1. DOMAIN g.table = 1 .. Len(g.atoms)
  BY TablesFacts
<1>2. ASSUME NEW i \in DOMAIN g.table
      PROVE  /\ g.atoms[i] \in MembersOf(g)
             /\ {<<g.atoms[i], g.table[i][j]>> : j \in DOMAIN g.table[i]} =
                  PairsOf(g.atoms[i], ToSet(TableOf(g, g.atoms[i])))
  <2>1. g.atoms[i] \in MembersOf(g) /\ MemberId(g, g.atoms[i]) = i
    BY <1>1, TablesFacts, MemberIdFacts
  <2> QED BY <2>1 DEF PairsOf, ToSet, TableOf
<1>3. \A a \in MembersOf(g) : MemberId(g, a) \in DOMAIN g.table /\ g.atoms[MemberId(g, a)] = a
  BY <1>1, MemberIdFacts
<1>4. Pairs(g) = UNION {PairsOf(a, ToSet(TableOf(g, a))) : a \in MembersOf(g)}
  BY <1>2, <1>3 DEF Pairs
<1>5. \A a \in MembersOf(g) : a \in Atoms /\ ToSet(TableOf(g, a)) \subseteq Atoms
  BY TablesFacts, MemberIdFacts, ListFacts
<1> QED BY <1>4, <1>5 DEF PairsOf

(* The same for one pair.                                                  *)
LEMMA InPairs ==
  ASSUME NEW g \in Tables, NEW p
  PROVE  p \in Pairs(g) <=> \E a : a \in MembersOf(g) /\ p \in PairsOf(a, ToSet(TableOf(g, a)))
  BY PairsFacts

(* addAtom adds no pair.                                                   *)
LEMMA AddAtomPairs ==
  ASSUME NEW g \in Tables, NEW a \in Atoms
  PROVE  Pairs(AddAtom(g, a)) = Pairs(g)
<1> DEFINE h == AddAtom(g, a)
<1>1. /\ h \in Tables /\ MembersOf(h) = MembersOf(g) \cup {a}
      /\ \A b \in MembersOf(g) : TableOf(h, b) = TableOf(g, b) /\ NumberOf(h, b) = NumberOf(g, b)
      /\ a \notin MembersOf(g) => TableOf(h, a) = <<>> /\ NumberOf(h, a) = 0
  BY AddAtomFacts
<1> HIDE DEF h
<1>2. Pairs(h) = Pairs(g)
  <2>1. ASSUME NEW p
        PROVE  p \in Pairs(h) <=> p \in Pairs(g)
    <3>1. ASSUME NEW b
          PROVE  (b \in MembersOf(h) /\ p \in PairsOf(b, ToSet(TableOf(h, b)))) <=>
                 (b \in MembersOf(g) /\ p \in PairsOf(b, ToSet(TableOf(g, b))))
      <4>1. CASE b \in MembersOf(g)
        BY <1>1, <4>1
      <4>2. CASE b \notin MembersOf(g)
        <5>1. b \in MembersOf(h) => b = a
          BY <1>1, <4>2
        <5>2. b = a => PairsOf(b, ToSet(TableOf(h, b))) = {}
          BY <1>1, <4>2, EmptyList DEF PairsOf
        <5> QED BY <4>2, <5>1, <5>2
      <4> QED BY <4>1, <4>2
    <3> QED BY <1>1, <3>1, InPairs
  <2> QED BY <2>1
<1> QED BY <1>2 DEF h

(* addAtom adds one member.                                                *)
LEMMA AddAtomAdds ==
  ASSUME NEW g \in Sound, NEW a \in Atoms
  PROVE  Adds(Sound, AddAtom(g, a), g, {a}, {})
<1> DEFINE h == AddAtom(g, a)
<1>1. g \in Tables
  BY DEF Sound
<1>2. /\ h \in Tables /\ MembersOf(h) = MembersOf(g) \cup {a}
      /\ \A b \in MembersOf(g) : TableOf(h, b) = TableOf(g, b) /\ NumberOf(h, b) = NumberOf(g, b)
      /\ a \notin MembersOf(g) => TableOf(h, a) = <<>> /\ NumberOf(h, a) = 0
  BY <1>1, AddAtomFacts
<1> HIDE DEF h
<1>3. \A b \in MembersOf(h) : NumberOf(h, b) = Len(TableOf(h, b))
  BY <1>1, <1>2, SoundByMembers, EmptyList
<1>4. h \in Sound
  BY <1>2, <1>3, SoundByMembers
<1>5. Pairs(h) = Pairs(g)
  BY <1>1, AddAtomPairs DEF h
<1>6. Pairs(h) = Pairs(g) \cup {}
  BY <1>5
<1> QED BY <1>2, <1>4, <1>6 DEF Adds, h
(* b joins the table of a.  U is a set of tables of which a is a member.   *)
LEMMA RowPairs ==
  ASSUME NEW g \in Tables, NEW h \in Tables, NEW a \in MembersOf(g), NEW b,
         MembersOf(h) = MembersOf(g),
         ToSet(TableOf(h, a)) = ToSet(TableOf(g, a)) \cup {b},
         \A c \in MembersOf(g) \ {a} : TableOf(h, c) = TableOf(g, c)
  PROVE  Pairs(h) = Pairs(g) \cup {<<a, b>>}
<1>1. PairsOf(a, ToSet(TableOf(h, a))) = PairsOf(a, ToSet(TableOf(g, a))) \cup {<<a, b>>}
  BY DEF PairsOf
<1>2. ASSUME NEW p, NEW c
      PROVE  (c \in MembersOf(h) /\ p \in PairsOf(c, ToSet(TableOf(h, c)))) <=>
             \/ c \in MembersOf(g) /\ p \in PairsOf(c, ToSet(TableOf(g, c)))
             \/ c = a /\ p = <<a, b>>
  <2>1. CASE c = a
    BY <1>1, <2>1
  <2>2. CASE c # a
    BY <2>2
  <2> QED BY <2>1, <2>2
<1>3. ASSUME NEW p
      PROVE  p \in Pairs(h) <=> (p \in Pairs(g) \/ p = <<a, b>>)
  BY <1>2, InPairs
<1> QED BY <1>3

(* AddPair adds one member and one pair.                                   *)
LEMMA AddPairAdds ==
  ASSUME NEW g \in Sound, NEW a \in Atoms, NEW b \in Atoms
  PROVE  Adds(Sound, AddPair(g, a, b), g, {a}, {<<a, b>>})
<1> DEFINE h == AddAtom(g, a)
           k == AddToCoordinationTable(h, a, b, TRUE)
<1>1. Adds(Sound, h, g, {a}, {})
  BY AddAtomAdds
<1>2. h \in Sound /\ h \in Tables /\ a \in MembersOf(h)
  BY <1>1 DEF Adds, Sound
<1> HIDE DEF h
<1>3. /\ k \in Tables /\ MembersOf(k) = MembersOf(h)
      /\ TableOf(k, a) = With(TableOf(h, a), b)
      /\ NumberOf(k, a) = Len(TableOf(k, a))
      /\ \A c \in MembersOf(h) \ {a} : TableOf(k, c) = TableOf(h, c) /\ NumberOf(k,
                                                                                 c) = NumberOf(h, c)
  BY <1>2, AddToTableAutoset
<1> HIDE DEF k
<1>4. \A c \in MembersOf(k) : NumberOf(k, c) = Len(TableOf(k, c))
  BY <1>2, <1>3, SoundByMembers
<1>5. k \in Sound
  BY <1>3, <1>4, SoundByMembers
<1>6. ToSet(TableOf(k, a)) = ToSet(TableOf(h, a)) \cup {b}
  BY <1>2, <1>3, MemberIdFacts, WithFacts
<1>7. Pairs(k) = Pairs(h) \cup {<<a, b>>}
  BY <1>2, <1>3, <1>6, RowPairs
<1>8. Adds(Sound, k, h, {}, {<<a, b>>})
  <2>1. MembersOf(k) = MembersOf(h) \cup {}
    BY <1>3
  <2> QED BY <1>5, <1>7, <2>1 DEF Adds
<1>9. Adds(Sound, k, g, {a} \cup {}, {} \cup {<<a, b>>})
  BY <1>1, <1>8, AddsTwice
<1>10. {a} \cup {} = {a} /\ {} \cup {<<a, b>>} = {<<a, b>>}
  OBVIOUS
<1>11. Adds(Sound, k, g, {a}, {<<a, b>>})
  BY <1>9, <1>10
<1> QED BY <1>11 DEF k, h, AddPair

(* A new element at the end of any list.                                   *)
LEMMA AppendSet ==
  ASSUME NEW S, NEW s \in Seq(S), NEW x \in S
  PROVE  Append(s, x) \in Seq(S) /\ ToSet(Append(s, x)) = ToSet(s) \cup {x}
<1> DEFINE t == Append(s, x)
<1>1. t \in Seq(S) /\ Len(t) = Len(s) + 1 /\ t[Len(s) + 1] = x /\ Len(s) \in Nat
      /\ DOMAIN t = 1 .. Len(s) + 1 /\ DOMAIN s = 1 .. Len(s)
      /\ \A i \in 1 .. Len(s) : t[i] = s[i]
  OBVIOUS
<1>2. 1 .. Len(s) + 1 = (1 .. Len(s)) \cup {Len(s) + 1}
  BY <1>1
<1> HIDE DEF t
<1>3. ToSet(t) = ToSet(s) \cup {x}
  BY <1>1, <1>2 DEF ToSet
<1> QED BY <1>1, <1>3 DEF t

(* What is kept of a list.                                                 *)
LEMMA AmongFacts ==
  ASSUME NEW X, NEW s \in Seq(X), NEW S \in SUBSET Atoms
  PROVE  /\ Among(s, S) \in Seq(S) /\ Among(s, S) \in Seq(Atoms)
         /\ ToSet(Among(s, S)) = ToSet(s) \cap S
         /\ s \in Lists => Among(s, S) \in Lists
<1> DEFINE n == Len(s)
           e == <<>>
<1>1. n \in Nat /\ DOMAIN s = 1 .. n /\ e \in Seq(S)
  OBVIOUS
<1>2. /\ Upto(s, 0) = {} /\ Upto(s, n) = ToSet(s)
      /\ \A k \in 1 .. n : Upto(s, k) = Upto(s, k - 1) \cup {s[k]}
  BY UptoFacts
<1>2a. ToSet(e) = {} /\ e \in Lists
  BY EmptyList
<1>2b. s \in Lists => \A k \in 1 .. n : s[k] \notin Upto(s, k - 1)
  BY ListFacts
<1> HIDE DEF n
<1>3. \A k \in 1 .. n, h \in Seq(S) : (IF s[k] \in S THEN Append(h, s[k]) ELSE h) \in Seq(S)
  OBVIOUS
<1> DEFINE F == [k \in 1 .. n |-> [h \in Seq(S) |-> (IF s[k] \in S THEN Append(h, s[k]) ELSE h)]]
           Rec(c) == [p \in SUBSET (1 .. n) |-> IF p = {} THEN e
                        ELSE (IF s[Max(p)] \in S
                              THEN Append(c[p \ {Max(p)}], s[Max(p)]) ELSE c[p \ {Max(p)}])]
<1>4. \A k \in 1 .. n, h \in Seq(S) : F[k][h] = (IF s[k] \in S THEN Append(h, s[k]) ELSE h)
  OBVIOUS
<1>5. Closed(n, Seq(S), F)
  BY <1>3, <1>4 DEF Closed
<1> HIDE DEF F
<1>6. \E w : w = Rec(w)
  <2>1. PICK w : IsFold(n, Seq(S), e, F, w)
    <3> HIDE DEF Rec
    <3> QED BY <1>1, <1>5, FoldExists
  <2>2. \A p \in SUBSET (1 .. n) : p # {} =>
          F[Max(p)][w[p \ {Max(p)}]] = (IF s[Max(p)] \in S
                                        THEN Append(w[p \ {Max(p)}],
                                                    s[Max(p)]) ELSE w[p \ {Max(p)}])
    BY <1>1, <1>4, <2>1, MaxFacts DEF IsFold
  <2>3. w = Rec(w)
    BY <2>1, <2>2 DEF IsFold
  <2> HIDE DEF Rec
  <2> QED BY <2>3
<1>7. PICK c : c = Rec(c) /\ Among(s, S) = c[1 .. n]
  <2>1. Among(s, S) = (CHOOSE c : c = Rec(c))[1 .. n]
    BY <1>1 DEF e, Among, FoldLeft, MapThenFoldSet
  <2> HIDE DEF Rec
  <2> QED BY <1>6, <2>1
<1>8. Unfolds(n, Seq(S), e, F, c)
  <2>1. c[{}] = e
    BY <1>7
  <2>2. ASSUME NEW p \in SUBSET (1 .. n), p # {}, c[p \ {Max(p)}] \in Seq(S)
        PROVE  c[p] = F[Max(p)][c[p \ {Max(p)}]]
    <3>1. c[p] = (IF s[Max(p)] \in S THEN Append(c[p \ {Max(p)}], s[Max(p)]) ELSE c[p \ {Max(p)}])
      BY <1>7, <2>2
    <3>2. Max(p) \in 1 .. n
      BY <1>1, <2>2, MaxFacts
    <3> HIDE DEF Rec
    <3> QED BY <1>4, <2>2, <3>1, <3>2
  <2> HIDE DEF Rec
  <2> QED BY <2>1, <2>2 DEF Unfolds
<1> HIDE DEF Rec
<1> HIDE DEF e
<1>9. PICK r : IsRun(n, Seq(S), e, F, r) /\ c[1 .. n] = r[n]
  BY <1>1, <1>5, <1>8, FoldRuns
<1> DEFINE T == {k \in 0 .. n : /\ ToSet(r[k]) = Upto(s, k) \cap S
                                /\ s \in Lists => r[k] \in Lists}
<1>10. 0 \in T
  <2>1. r[0] = e
    BY <1>9 DEF IsRun
  <2>2. ToSet(r[0]) = Upto(s, 0) \cap S
    BY <1>2, <1>2a, <2>1
  <2> QED BY <1>1, <1>2a, <2>1, <2>2
<1>11. ASSUME NEW k \in 1 .. n, k - 1 \in T
       PROVE  k \in T
  <2> DEFINE h == r[k - 1]
             x == s[k]
  <2>1. h \in Seq(S) /\ r[k] = (IF x \in S THEN Append(h, x) ELSE h) /\ k \in 0 .. n
    <3>1. k - 1 \in 0 .. n /\ k \in 0 .. n
      BY <1>1
    <3>2. h \in Seq(S) /\ r[k] = F[k][h]
      BY <1>9, <3>1 DEF IsRun
    <3> HIDE DEF h
    <3> QED BY <1>4, <3>1, <3>2
  <2>2. ToSet(h) = Upto(s, k - 1) \cap S /\ (s \in Lists => h \in Lists)
    BY <1>11
  <2>3. Upto(s, k) = Upto(s, k - 1) \cup {x}
    BY <1>2
  <2>4. s \in Lists => x \notin Upto(s, k - 1)
    BY <1>2b
  <2> HIDE DEF h, x
  <2>5. CASE x \in S
    <3>1. r[k] = Append(h, x)
      BY <2>1, <2>5
    <3>2. ToSet(Append(h, x)) = ToSet(h) \cup {x}
      BY <2>1, <2>5, AppendSet
    <3>3. ToSet(r[k]) = Upto(s, k) \cap S
      BY <2>2, <2>3, <2>5, <3>1, <3>2
    <3>4. s \in Lists => x \notin ToSet(h) /\ x \in Atoms
      BY <2>2, <2>4, <2>5
    <3>5. s \in Lists => r[k] \in Lists
      BY <2>2, <3>1, <3>4, AppendNew
    <3> QED BY <2>1, <3>3, <3>5
  <2>6. CASE x \notin S
    <3>1. r[k] = h
      BY <2>1, <2>6
    <3>2. ToSet(r[k]) = Upto(s, k) \cap S
      BY <2>2, <2>3, <2>6, <3>1
    <3> QED BY <2>1, <2>2, <3>1, <3>2
  <2> QED BY <2>5, <2>6
<1>12. n \in T
  <2>1. n \in 0 .. n
    BY <1>1
  <2> HIDE DEF T
  <2> QED BY <1>1, <1>10, <1>11, <2>1, Everywhere
<1>13. r[n] \in Seq(S) /\ r[n] \in Seq(Atoms)
  <2>1. n \in 0 .. n
    BY <1>1
  <2>2. r[n] \in Seq(S)
    BY <1>9, <2>1 DEF IsRun
  <2> QED BY <2>2
<1>14. Among(s, S) = r[n]
  BY <1>7, <1>9
<1> QED BY <1>2, <1>12, <1>13, <1>14

(* Tables in which the number of a alone may not be the size of its row.   *)
Numbered(a, v) ==
  {g \in Tables : /\ a \in MembersOf(g) /\ NumberOf(g, a) = v
                  /\ \A c \in MembersOf(g) \ {a} : NumberOf(g, c) = Len(TableOf(g, c))}

(* Such a group is sound when the number of a is the size of its row.      *)
LEMMA NumberedFacts ==
  ASSUME NEW a, NEW v, NEW g
  PROVE  /\ g \in Numbered(a, v) =>
              /\ g \in Tables /\ a \in MembersOf(g) /\ a \in Atoms /\ NumberOf(g, a) = v
              /\ \A c \in MembersOf(g) \ {a} : NumberOf(g, c) = Len(TableOf(g, c))
         /\ g \in Numbered(a, v) /\ v = Len(TableOf(g, a)) => g \in Sound
         /\ g \in Sound /\ a \in MembersOf(g) => g \in Numbered(a, NumberOf(g, a))
<1>1. g \in Numbered(a, v) =>
        /\ g \in Tables /\ a \in MembersOf(g) /\ a \in Atoms /\ NumberOf(g, a) = v
        /\ \A c \in MembersOf(g) \ {a} : NumberOf(g, c) = Len(TableOf(g, c))
  BY TablesFacts DEF Numbered
<1>2. g \in Sound => g \in Tables
  BY DEF Sound
<1> QED BY <1>1, <1>2, SoundByMembers DEF Numbered

(* addAtom leaves the number of a alone.                                   *)
LEMMA AddAtomNumbered ==
  ASSUME NEW a, NEW v, NEW g \in Numbered(a, v), NEW b \in Atoms
  PROVE  Adds(Numbered(a, v), AddAtom(g, b), g, {b}, {})
<1> DEFINE h == AddAtom(g, b)
<1>1. /\ g \in Tables /\ a \in MembersOf(g) /\ NumberOf(g, a) = v
      /\ \A c \in MembersOf(g) \ {a} : NumberOf(g, c) = Len(TableOf(g, c))
  BY NumberedFacts
<1>2. /\ h \in Tables /\ MembersOf(h) = MembersOf(g) \cup {b}
      /\ \A c \in MembersOf(g) : TableOf(h, c) = TableOf(g, c) /\ NumberOf(h, c) = NumberOf(g, c)
      /\ b \notin MembersOf(g) => TableOf(h, b) = <<>> /\ NumberOf(h, b) = 0
  BY <1>1, AddAtomFacts
<1>3. Pairs(h) = Pairs(g)
  BY <1>1, AddAtomPairs
<1> HIDE DEF h
<1>4. \A c \in MembersOf(h) \ {a} : NumberOf(h, c) = Len(TableOf(h, c))
  BY <1>1, <1>2, EmptyList
<1>5. h \in Numbered(a, v)
  BY <1>1, <1>2, <1>4 DEF Numbered
<1>6. Pairs(h) = Pairs(g) \cup {}
  BY <1>3
<1> QED BY <1>2, <1>5, <1>6 DEF Adds, h

(* addToCoordinationTable without autoset adds a pair and leaves the       *)
(* number.                                                                 *)
LEMMA AddToTableNumbered ==
  ASSUME NEW a, NEW v, NEW g \in Numbered(a, v), NEW b \in Atoms
  PROVE  Adds(Numbered(a, v), AddToCoordinationTable(g, a, b, FALSE), g, {}, {<<a, b>>})
<1> DEFINE h == AddToCoordinationTable(g, a, b, FALSE)
<1>1. /\ g \in Tables /\ a \in MembersOf(g) /\ NumberOf(g, a) = v
      /\ \A c \in MembersOf(g) \ {a} : NumberOf(g, c) = Len(TableOf(g, c))
  BY NumberedFacts
<1>2. /\ h \in Tables /\ MembersOf(h) = MembersOf(g)
      /\ TableOf(h, a) = With(TableOf(g, a), b)
      /\ NumberOf(h, a) = NumberOf(g, a)
      /\ \A c \in MembersOf(g) \ {a} : TableOf(h, c) = TableOf(g, c) /\ NumberOf(h,
                                                                                 c) = NumberOf(g, c)
  BY <1>1, AddToTableNoAutoset
<1> HIDE DEF h
<1>3. h \in Numbered(a, v)
  BY <1>1, <1>2 DEF Numbered
<1>4. ToSet(TableOf(h, a)) = ToSet(TableOf(g, a)) \cup {b}
  BY <1>1, <1>2, MemberIdFacts, WithFacts
<1>5. Pairs(h) = Pairs(g) \cup {<<a, b>>}
  <2>1. \A c \in MembersOf(g) \ {a} : TableOf(h, c) = TableOf(g, c)
    BY <1>2
  <2>2. g \in Tables /\ h \in Tables /\ a \in MembersOf(g) /\ MembersOf(h) = MembersOf(g)
    BY <1>1, <1>2
  <2> QED BY <1>4, <2>1, <2>2, RowPairs
<1>6. MembersOf(h) = MembersOf(g) \cup {}
  BY <1>2
<1> QED BY <1>3, <1>5, <1>6 DEF Adds, h

(* setCoordinationNumber adds nothing.                                     *)
LEMMA SetNumberNumbered ==
  ASSUME NEW g \in Tables, NEW a \in MembersOf(g), NEW v \in Nat,
         \A c \in MembersOf(g) \ {a} : NumberOf(g, c) = Len(TableOf(g, c))
  PROVE  /\ Adds(Numbered(a, v), SetCoordinationNumber(g, a, v), g, {}, {})
         /\ TableOf(SetCoordinationNumber(g, a, v), a) = TableOf(g, a)
<1> DEFINE h == SetCoordinationNumber(g, a, v)
<1>1. /\ h \in Tables /\ MembersOf(h) = MembersOf(g)
      /\ \A b \in MembersOf(g) :
           TableOf(h, b) = TableOf(g, b) /\ NumberOf(h, b) = IF b = a THEN v ELSE NumberOf(g, b)
  BY SetCoordinationNumberFacts
<1> HIDE DEF h
<1>2. h \in Numbered(a, v)
  BY <1>1 DEF Numbered
<1>3. Pairs(h) = Pairs(g)
  <2>1. \A p : p \in Pairs(h) <=> p \in Pairs(g)
    BY <1>1, InPairs
  <2> QED BY <2>1
<1>4. MembersOf(h) = MembersOf(g) \cup {} /\ Pairs(h) = Pairs(g) \cup {}
  BY <1>1, <1>3
<1> QED BY <1>1, <1>2, <1>4 DEF Adds, h

(* A list without repetitions is as long as the set of its elements.       *)
LEMMA ListCardinality ==
  ASSUME NEW s \in Lists
  PROVE  IsFiniteSet(ToSet(s)) /\ Cardinality(ToSet(s)) = Len(s)
<1>1. Len(s) \in Nat /\ DOMAIN s = 1 .. Len(s) /\ \A i, j \in 1 .. Len(s) : s[i] = s[j] => i = j
  BY ListFacts
<1> DEFINE n == Len(s)
           f == [i \in 1 .. n |-> s[i]]
<1>2. f \in [1 .. n -> ToSet(s)] /\ IsInjective(f) /\ \A x \in ToSet(s) : \E i \in 1 .. n : f[i] = x
  BY <1>1 DEF ToSet, IsInjective
<1> HIDE DEF f, n
<1>3. f \in Bijection(1 .. n, ToSet(s))
  BY <1>2 DEF Bijection, Injection, Surjection
<1>4. ExistsBijection(1 .. n, ToSet(s))
  BY <1>3 DEF ExistsBijection
<1>5. n \in Nat
  BY <1>1 DEF n
<1>6. IsFiniteSet(1 .. n) /\ Cardinality(1 .. n) = n
  BY <1>5, FS_Interval
<1>7. IsFiniteSet(ToSet(s)) /\ Cardinality(ToSet(s)) = n
  BY <1>4, <1>6, FS_Bijection
<1> QED BY <1>7 DEF n

(* Two lists of the same elements are equally long.                        *)
LEMMA SameLength ==
  ASSUME NEW s \in Lists, NEW t \in Lists, ToSet(s) = ToSet(t)
  PROVE  Len(s) = Len(t)
  BY ListCardinality

(* addAtom for every atom of a list.                                       *)
LEMMA AddAtomsAdds ==
  ASSUME NEW g \in Sound, NEW bs \in Seq(Atoms)
  PROVE  Adds(Sound, AddAtoms(g, bs), g, ToSet(bs), {})
<1> DEFINE n == Len(bs)
<1>1. n \in Nat /\ DOMAIN bs = 1 .. n /\ g \in Sound
  OBVIOUS
<1>2. ToSet(bs) = {bs[k] : k \in 1 .. n}
  BY <1>1 DEF ToSet
<1> HIDE DEF n
<1>3. ASSUME NEW k \in 1 .. n, NEW h \in Sound
      PROVE  Adds(Sound, AddAtom(h, bs[k]), h, {bs[k]}, {})
  <2>1. bs[k] \in Atoms
    BY <1>1
  <2> QED BY <2>1, AddAtomAdds
<1> DEFINE F == [k \in 1 .. n |-> [h \in Sound |-> AddAtom(h, bs[k])]]
           Rec(c) == [p \in SUBSET (1 .. n) |-> IF p = {} THEN g
                        ELSE AddAtom(c[p \ {Max(p)}], bs[Max(p)])]
           M == [k \in 1 .. n |-> {bs[k]}]
           P == [k \in 1 .. n |-> {}]
<1>4. \A k \in 1 .. n, h \in Sound : F[k][h] = AddAtom(h, bs[k])
  OBVIOUS
<1>5. StepsAdd(n, Sound, F, M, P) /\ Closed(n, Sound, F)
  <2>1. StepsAdd(n, Sound, F, M, P)
    BY <1>3, <1>4 DEF StepsAdd
  <2> QED BY <1>1, <2>1, StepsAddClosed
<1> HIDE DEF F
<1>6. \E w : w = Rec(w)
  <2>1. PICK w : IsFold(n, Sound, g, F, w)
    <3> HIDE DEF Rec
    <3> QED BY <1>1, <1>5, FoldExists
  <2>2. \A p \in SUBSET (1 .. n) : p # {} =>
          F[Max(p)][w[p \ {Max(p)}]] = AddAtom(w[p \ {Max(p)}], bs[Max(p)])
    BY <1>1, <1>4, <2>1, MaxFacts DEF IsFold
  <2>3. w = Rec(w)
    BY <2>1, <2>2 DEF IsFold
  <2> HIDE DEF Rec
  <2> QED BY <2>3
<1>7. PICK c : c = Rec(c) /\ AddAtoms(g, bs) = c[1 .. n]
  <2>1. AddAtoms(g, bs) = (CHOOSE c : c = Rec(c))[1 .. n]
    BY <1>1 DEF AddAtoms, FoldLeft, MapThenFoldSet
  <2> HIDE DEF Rec
  <2> QED BY <1>6, <2>1
<1>8. Unfolds(n, Sound, g, F, c)
  <2>1. c[{}] = g
    BY <1>7
  <2>2. ASSUME NEW p \in SUBSET (1 .. n), p # {}, c[p \ {Max(p)}] \in Sound
        PROVE  c[p] = F[Max(p)][c[p \ {Max(p)}]]
    <3>1. c[p] = AddAtom(c[p \ {Max(p)}], bs[Max(p)])
      BY <1>7, <2>2
    <3>2. Max(p) \in 1 .. n
      BY <1>1, <2>2, MaxFacts
    <3> HIDE DEF Rec
    <3> QED BY <1>4, <2>2, <3>1, <3>2
  <2> HIDE DEF Rec
  <2> QED BY <2>1, <2>2 DEF Unfolds
<1> HIDE DEF Rec
<1>9. Adds(Sound, AddAtoms(g, bs), g, UnionTo(n, M), UnionTo(n, P))
  <2> HIDE DEF M, P
  <2> QED BY <1>1, <1>5, <1>7, <1>8, AddsFold
<1>10. UnionTo(n, M) = ToSet(bs)
  BY <1>1, <1>2 DEF UnionTo, PairsOf
<1>11. UnionTo(n, P) = {}
  BY <1>1, <1>2 DEF UnionTo, PairsOf
<1> QED BY <1>9, <1>10, <1>11

(* AddToTable gives a, which becomes a member if there is anything to add, *)
(* all atoms of a list.                                                    *)
LEMMA AddToTableAdds ==
  ASSUME NEW g \in Sound, NEW a \in Atoms, NEW bs \in Seq(Atoms)
  PROVE  Adds(Sound, AddToTable(g, a, bs), g, (IF bs = <<>> THEN {} ELSE {a}),
              PairsOf(a, ToSet(bs)))
<1> DEFINE n == Len(bs)
<1>1. n \in Nat /\ DOMAIN bs = 1 .. n /\ g \in Sound
  OBVIOUS
<1>2. ToSet(bs) = {bs[k] : k \in 1 .. n}
  BY <1>1 DEF ToSet
<1> HIDE DEF n
<1>3. ASSUME NEW k \in 1 .. n, NEW h \in Sound
      PROVE  Adds(Sound, AddPair(h, a, bs[k]), h, {a}, {<<a, bs[k]>>})
  <2>1. bs[k] \in Atoms
    BY <1>1
  <2> QED BY <2>1, AddPairAdds
<1> DEFINE F == [k \in 1 .. n |-> [h \in Sound |-> AddPair(h, a, bs[k])]]
           Rec(c) == [p \in SUBSET (1 .. n) |-> IF p = {} THEN g
                        ELSE AddPair(c[p \ {Max(p)}], a, bs[Max(p)])]
           M == [k \in 1 .. n |-> {a}]
           P == [k \in 1 .. n |-> {<<a, bs[k]>>}]
<1>4. \A k \in 1 .. n, h \in Sound : F[k][h] = AddPair(h, a, bs[k])
  OBVIOUS
<1>5. StepsAdd(n, Sound, F, M, P) /\ Closed(n, Sound, F)
  <2>1. StepsAdd(n, Sound, F, M, P)
    BY <1>3, <1>4 DEF StepsAdd
  <2> QED BY <1>1, <2>1, StepsAddClosed
<1> HIDE DEF F
<1>6. \E w : w = Rec(w)
  <2>1. PICK w : IsFold(n, Sound, g, F, w)
    <3> HIDE DEF Rec
    <3> QED BY <1>1, <1>5, FoldExists
  <2>2. \A p \in SUBSET (1 .. n) : p # {} =>
          F[Max(p)][w[p \ {Max(p)}]] = AddPair(w[p \ {Max(p)}], a, bs[Max(p)])
    BY <1>1, <1>4, <2>1, MaxFacts DEF IsFold
  <2>3. w = Rec(w)
    BY <2>1, <2>2 DEF IsFold
  <2> HIDE DEF Rec
  <2> QED BY <2>3
<1>7. PICK c : c = Rec(c) /\ AddToTable(g, a, bs) = c[1 .. n]
  <2>1. AddToTable(g, a, bs) = (CHOOSE c : c = Rec(c))[1 .. n]
    BY <1>1 DEF AddToTable, FoldLeft, MapThenFoldSet
  <2> HIDE DEF Rec
  <2> QED BY <1>6, <2>1
<1>8. Unfolds(n, Sound, g, F, c)
  <2>1. c[{}] = g
    BY <1>7
  <2>2. ASSUME NEW p \in SUBSET (1 .. n), p # {}, c[p \ {Max(p)}] \in Sound
        PROVE  c[p] = F[Max(p)][c[p \ {Max(p)}]]
    <3>1. c[p] = AddPair(c[p \ {Max(p)}], a, bs[Max(p)])
      BY <1>7, <2>2
    <3>2. Max(p) \in 1 .. n
      BY <1>1, <2>2, MaxFacts
    <3> HIDE DEF Rec
    <3> QED BY <1>4, <2>2, <3>1, <3>2
  <2> HIDE DEF Rec
  <2> QED BY <2>1, <2>2 DEF Unfolds
<1> HIDE DEF Rec
<1>9. Adds(Sound, AddToTable(g, a, bs), g, UnionTo(n, M), UnionTo(n, P))
  <2> HIDE DEF M, P
  <2> QED BY <1>1, <1>5, <1>7, <1>8, AddsFold
<1>10. UnionTo(n, M) = (IF bs = <<>> THEN {} ELSE {a})
  <2>1. CASE n = 0
    <3>1. bs = <<>>
      BY <2>1 DEF n
    <3> QED BY <2>1, <3>1 DEF UnionTo
  <2>2. CASE n # 0
    <3>1. bs # <<>> /\ 1 \in 1 .. n
      BY <1>1, <2>2 DEF n
    <3> QED BY <1>1, <3>1 DEF UnionTo
  <2> QED BY <2>1, <2>2
<1>11. UnionTo(n, P) = PairsOf(a, ToSet(bs))
  BY <1>1, <1>2 DEF UnionTo, PairsOf
<1> QED BY <1>9, <1>10, <1>11

(* AddToTables makes all atoms of a list members, each with a in its row.  *)
LEMMA AddToTablesAdds ==
  ASSUME NEW g \in Sound, NEW a \in Atoms, NEW bs \in Seq(Atoms)
  PROVE  Adds(Sound, AddToTables(g, bs, a), g, ToSet(bs), {<<b, a>> : b \in ToSet(bs)})
<1> DEFINE n == Len(bs)
<1>1. n \in Nat /\ DOMAIN bs = 1 .. n /\ g \in Sound
  OBVIOUS
<1>2. ToSet(bs) = {bs[k] : k \in 1 .. n}
  BY <1>1 DEF ToSet
<1> HIDE DEF n
<1>3. ASSUME NEW k \in 1 .. n, NEW h \in Sound
      PROVE  Adds(Sound, AddPair(h, bs[k], a), h, {bs[k]}, {<<bs[k], a>>})
  <2>1. bs[k] \in Atoms
    BY <1>1
  <2> QED BY <2>1, AddPairAdds
<1> DEFINE F == [k \in 1 .. n |-> [h \in Sound |-> AddPair(h, bs[k], a)]]
           Rec(c) == [p \in SUBSET (1 .. n) |-> IF p = {} THEN g
                        ELSE AddPair(c[p \ {Max(p)}], bs[Max(p)], a)]
           M == [k \in 1 .. n |-> {bs[k]}]
           P == [k \in 1 .. n |-> {<<bs[k], a>>}]
<1>4. \A k \in 1 .. n, h \in Sound : F[k][h] = AddPair(h, bs[k], a)
  OBVIOUS
<1>5. StepsAdd(n, Sound, F, M, P) /\ Closed(n, Sound, F)
  <2>1. StepsAdd(n, Sound, F, M, P)
    BY <1>3, <1>4 DEF StepsAdd
  <2> QED BY <1>1, <2>1, StepsAddClosed
<1> HIDE DEF F
<1>6. \E w : w = Rec(w)
  <2>1. PICK w : IsFold(n, Sound, g, F, w)
    <3> HIDE DEF Rec
    <3> QED BY <1>1, <1>5, FoldExists
  <2>2. \A p \in SUBSET (1 .. n) : p # {} =>
          F[Max(p)][w[p \ {Max(p)}]] = AddPair(w[p \ {Max(p)}], bs[Max(p)], a)
    BY <1>1, <1>4, <2>1, MaxFacts DEF IsFold
  <2>3. w = Rec(w)
    BY <2>1, <2>2 DEF IsFold
  <2> HIDE DEF Rec
  <2> QED BY <2>3
<1>7. PICK c : c = Rec(c) /\ AddToTables(g, bs, a) = c[1 .. n]
  <2>1. AddToTables(g, bs, a) = (CHOOSE c : c = Rec(c))[1 .. n]
    BY <1>1 DEF AddToTables, FoldLeft, MapThenFoldSet
  <2> HIDE DEF Rec
  <2> QED BY <1>6, <2>1
<1>8. Unfolds(n, Sound, g, F, c)
  <2>1. c[{}] = g
    BY <1>7
  <2>2. ASSUME NEW p \in SUBSET (1 .. n), p # {}, c[p \ {Max(p)}] \in Sound
        PROVE  c[p] = F[Max(p)][c[p \ {Max(p)}]]
    <3>1. c[p] = AddPair(c[p \ {Max(p)}], bs[Max(p)], a)
      BY <1>7, <2>2
    <3>2. Max(p) \in 1 .. n
      BY <1>1, <2>2, MaxFacts
    <3> HIDE DEF Rec
    <3> QED BY <1>4, <2>2, <3>1, <3>2
  <2> HIDE DEF Rec
  <2> QED BY <2>1, <2>2 DEF Unfolds
<1> HIDE DEF Rec
<1>9. Adds(Sound, AddToTables(g, bs, a), g, UnionTo(n, M), UnionTo(n, P))
  <2> HIDE DEF M, P
  <2> QED BY <1>1, <1>5, <1>7, <1>8, AddsFold
<1>10. UnionTo(n, M) = ToSet(bs)
  BY <1>1, <1>2 DEF UnionTo, PairsOf
<1>11. UnionTo(n, P) = {<<b, a>> : b \in ToSet(bs)}
  BY <1>1, <1>2 DEF UnionTo, PairsOf
<1> QED BY <1>9, <1>10, <1>11

(* A row joined to the row of a, while the number of a stays.              *)
LEMMA JoinedAdds ==
  ASSUME NEW a, NEW v, NEW g \in Numbered(a, v), NEW bs \in Seq(Atoms)
  PROVE  Adds(Numbered(a, v), Joined(g, a, bs), g, {}, PairsOf(a, ToSet(bs)))
<1> DEFINE n == Len(bs)
<1>1. n \in Nat /\ DOMAIN bs = 1 .. n /\ g \in Numbered(a, v)
  OBVIOUS
<1>2. ToSet(bs) = {bs[k] : k \in 1 .. n}
  BY <1>1 DEF ToSet
<1> HIDE DEF n
<1>3. ASSUME NEW k \in 1 .. n, NEW h \in Numbered(a, v)
      PROVE  Adds(Numbered(a, v), AddToCoordinationTable(h, a, bs[k], FALSE), h, {}, {<<a, bs[k]>>})
  <2>1. bs[k] \in Atoms
    BY <1>1
  <2> QED BY <2>1, AddToTableNumbered
<1> DEFINE F == [k \in 1 .. n |-> [h \in Numbered(a, v) |-> AddToCoordinationTable(h, a, bs[k],
                                                                                   FALSE)]]
           Rec(c) == [p \in SUBSET (1 .. n) |-> IF p = {} THEN g
                        ELSE AddToCoordinationTable(c[p \ {Max(p)}], a, bs[Max(p)], FALSE)]
           M == [k \in 1 .. n |-> {}]
           P == [k \in 1 .. n |-> {<<a, bs[k]>>}]
<1>4. \A k \in 1 .. n, h \in Numbered(a, v) : F[k][h] = AddToCoordinationTable(h, a, bs[k], FALSE)
  OBVIOUS
<1>5. StepsAdd(n, Numbered(a, v), F, M, P) /\ Closed(n, Numbered(a, v), F)
  <2>1. StepsAdd(n, Numbered(a, v), F, M, P)
    BY <1>3, <1>4 DEF StepsAdd
  <2> QED BY <1>1, <2>1, StepsAddClosed
<1> HIDE DEF F
<1>6. \E w : w = Rec(w)
  <2>1. PICK w : IsFold(n, Numbered(a, v), g, F, w)
    <3> HIDE DEF Rec
    <3> QED BY <1>1, <1>5, FoldExists
  <2>2. \A p \in SUBSET (1 .. n) : p # {} =>
          F[Max(p)][w[p \ {Max(p)}]] = AddToCoordinationTable(w[p \ {Max(p)}], a, bs[Max(p)], FALSE)
    BY <1>1, <1>4, <2>1, MaxFacts DEF IsFold
  <2>3. w = Rec(w)
    BY <2>1, <2>2 DEF IsFold
  <2> HIDE DEF Rec
  <2> QED BY <2>3
<1>7. PICK c : c = Rec(c) /\ Joined(g, a, bs) = c[1 .. n]
  <2>1. Joined(g, a, bs) = (CHOOSE c : c = Rec(c))[1 .. n]
    BY <1>1 DEF Joined, FoldLeft, MapThenFoldSet
  <2> HIDE DEF Rec
  <2> QED BY <1>6, <2>1
<1>8. Unfolds(n, Numbered(a, v), g, F, c)
  <2>1. c[{}] = g
    BY <1>7
  <2>2. ASSUME NEW p \in SUBSET (1 .. n), p # {}, c[p \ {Max(p)}] \in Numbered(a, v)
        PROVE  c[p] = F[Max(p)][c[p \ {Max(p)}]]
    <3>1. c[p] = AddToCoordinationTable(c[p \ {Max(p)}], a, bs[Max(p)], FALSE)
      BY <1>7, <2>2
    <3>2. Max(p) \in 1 .. n
      BY <1>1, <2>2, MaxFacts
    <3> HIDE DEF Rec
    <3> QED BY <1>4, <2>2, <3>1, <3>2
  <2> HIDE DEF Rec
  <2> QED BY <2>1, <2>2 DEF Unfolds
<1> HIDE DEF Rec
<1>9. Adds(Numbered(a, v), Joined(g, a, bs), g, UnionTo(n, M), UnionTo(n, P))
  <2> HIDE DEF M, P
  <2> QED BY <1>1, <1>5, <1>7, <1>8, AddsFold
<1>10. UnionTo(n, M) = {}
  BY <1>1, <1>2 DEF UnionTo, PairsOf
<1>11. UnionTo(n, P) = PairsOf(a, ToSet(bs))
  BY <1>1, <1>2 DEF UnionTo, PairsOf
<1> QED BY <1>9, <1>10, <1>11

(* addCoordinationFromOtherGroup leaves a sound group, with the rows       *)
(* joined.                                                                 *)
LEMMA AddCoordinationFromAdds ==
  ASSUME NEW g \in Sound, NEW a \in Atoms, NEW h \in Sound, a \in MembersOf(h)
  PROVE  Adds(Sound, AddCoordinationFrom(AddAtom(g, a), a, h), g, {a},
              PairsOf(a, ToSet(TableOf(h, a))))
<1> DEFINE k == AddAtom(g, a)
           v == NumberOf(k, a)
           bs == TableOf(h, a)
           joined == Joined(k, a, bs)
           w == Len(TableOf(joined, a))
           l == SetCoordinationNumber(joined, a, w)
<1>1. bs \in Seq(Atoms)
  BY MemberIdFacts, ListFacts DEF Sound
<1>2. Adds(Sound, k, g, {a}, {})
  BY AddAtomAdds
<1> HIDE DEF bs, k
<1>3. k \in Numbered(a, v)
  <2>1. k \in Sound /\ a \in MembersOf(k)
    BY <1>2 DEF Adds
  <2> QED BY <2>1, NumberedFacts
<1>4. Adds(Numbered(a, v), joined, k, {}, PairsOf(a, ToSet(bs)))
  BY <1>1, <1>3, JoinedAdds
<1>5. joined \in Numbered(a, v)
  BY <1>4 DEF Adds
<1> HIDE DEF joined, v
<1>6. /\ joined \in Tables /\ a \in MembersOf(joined)
      /\ \A c \in MembersOf(joined) \ {a} : NumberOf(joined, c) = Len(TableOf(joined, c))
  BY <1>5, NumberedFacts
<1>7. w \in Nat
  BY <1>6, MemberIdFacts, ListFacts
<1> HIDE DEF w
<1>8. Adds(Numbered(a, w), l, joined, {}, {}) /\ TableOf(l, a) = TableOf(joined, a)
  BY <1>6, <1>7, SetNumberNumbered
<1> HIDE DEF l
<1>9. l \in Sound
  <2>1. l \in Numbered(a, w)
    BY <1>8 DEF Adds
  <2> QED BY <1>8, <2>1, NumberedFacts DEF w
<1>10. Adds(Numbered(a, w), l, g, ({a} \cup {}) \cup {}, ({} \cup PairsOf(a, ToSet(bs))) \cup {})
  BY <1>2, <1>4, <1>8, AddsTwice
<1>11. ({a} \cup {}) \cup {} = {a}
  OBVIOUS
<1>12. ({} \cup PairsOf(a, ToSet(bs))) \cup {} = PairsOf(a, ToSet(bs))
  OBVIOUS
<1>13. Adds(Numbered(a, w), l, g, {a}, PairsOf(a, ToSet(bs)))
  BY <1>10, <1>11, <1>12
<1>14. Adds(Sound, l, g, {a}, PairsOf(a, ToSet(bs)))
  BY <1>9, <1>13 DEF Adds
<1>15. l = AddCoordinationFrom(AddAtom(g, a), a, h)
  BY DEF l, w, joined, bs, k, AddCoordinationFrom
<1> QED BY <1>14, <1>15 DEF bs

(* What a group says about one of its members, and the group as a whole.   *)
LEMMA PairsTogether ==
  ASSUME NEW g \in Tables
  PROVE  UNION {PairsOf(a, ToSet(TableOf(g, a))) : a \in MembersOf(g)} = Pairs(g)
  BY PairsFacts

(* SUM: one more group adds its members and its pairs.                     *)
LEMMA SumWithAdds ==
  ASSUME NEW s \in Sound, NEW g \in Sound
  PROVE  Adds(Sound, SumWith(s, g), s, MembersOf(g), Pairs(g))
<1> DEFINE n == Len(g.atoms)
<1>1. n \in Nat /\ DOMAIN g.atoms = 1 .. n /\ s \in Sound
  <2>1. g \in Tables
    BY DEF Sound
  <2>2. g.atoms \in Lists
    BY <2>1, TablesFacts
  <2> QED BY <2>2, ListFacts
<1>2. ToSet(g.atoms) = {g.atoms[k] : k \in 1 .. n}
  BY <1>1 DEF ToSet
<1> HIDE DEF n
<1>3. ASSUME NEW k \in 1 .. n, NEW h \in Sound
      PROVE  Adds(Sound, AddCoordinationFrom(AddAtom(h, g.atoms[k]), g.atoms[k], g), h,
                  {g.atoms[k]}, PairsOf(g.atoms[k], ToSet(TableOf(g, g.atoms[k]))))
  <2>1. g.atoms[k] \in Atoms /\ g.atoms[k] \in MembersOf(g)
    BY <1>1, <1>2, TablesFacts, ListFacts DEF MembersOf, Sound
  <2>2. TableOf(g, g.atoms[k]) \in Seq(Atoms)
    BY <2>1, MemberIdFacts, ListFacts DEF Sound
  <2> QED BY <2>1, AddCoordinationFromAdds
<1> DEFINE F == [k \in 1 .. n |-> [h \in Sound |-> AddCoordinationFrom(AddAtom(h, g.atoms[k]),
                                                                       g.atoms[k], g)]]
           Rec(c) == [p \in SUBSET (1 .. n) |-> IF p = {} THEN s
                        ELSE AddCoordinationFrom(AddAtom(c[p \ {Max(p)}], g.atoms[Max(p)]),
                                                 g.atoms[Max(p)], g)]
           M == [k \in 1 .. n |-> {g.atoms[k]}]
           P == [k \in 1 .. n |-> PairsOf(g.atoms[k], ToSet(TableOf(g, g.atoms[k])))]
<1>4. \A k \in 1 .. n, h \in Sound : F[k][h] = AddCoordinationFrom(AddAtom(h, g.atoms[k]),
                                                                   g.atoms[k], g)
  OBVIOUS
<1>5. StepsAdd(n, Sound, F, M, P) /\ Closed(n, Sound, F)
  <2>1. StepsAdd(n, Sound, F, M, P)
    BY <1>3, <1>4 DEF StepsAdd
  <2> QED BY <1>1, <2>1, StepsAddClosed
<1> HIDE DEF F
<1>6. \E w : w = Rec(w)
  <2>1. PICK w : IsFold(n, Sound, s, F, w)
    <3> HIDE DEF Rec
    <3> QED BY <1>1, <1>5, FoldExists
  <2>2. \A p \in SUBSET (1 .. n) : p # {} =>
          F[Max(p)][w[p \ {Max(p)}]] = AddCoordinationFrom(AddAtom(w[p \ {Max(p)}],
                                                                   g.atoms[Max(p)]),
                                                                   g.atoms[Max(p)], g)
    BY <1>1, <1>4, <2>1, MaxFacts DEF IsFold
  <2>3. w = Rec(w)
    BY <2>1, <2>2 DEF IsFold
  <2> HIDE DEF Rec
  <2> QED BY <2>3
<1>7. PICK c : c = Rec(c) /\ SumWith(s, g) = c[1 .. n]
  <2>1. SumWith(s, g) = (CHOOSE c : c = Rec(c))[1 .. n]
    BY <1>1 DEF SumWith, FoldLeft, MapThenFoldSet
  <2> HIDE DEF Rec
  <2> QED BY <1>6, <2>1
<1>8. Unfolds(n, Sound, s, F, c)
  <2>1. c[{}] = s
    BY <1>7
  <2>2. ASSUME NEW p \in SUBSET (1 .. n), p # {}, c[p \ {Max(p)}] \in Sound
        PROVE  c[p] = F[Max(p)][c[p \ {Max(p)}]]
    <3>1. c[p] = AddCoordinationFrom(AddAtom(c[p \ {Max(p)}], g.atoms[Max(p)]), g.atoms[Max(p)], g)
      BY <1>7, <2>2
    <3>2. Max(p) \in 1 .. n
      BY <1>1, <2>2, MaxFacts
    <3> HIDE DEF Rec
    <3> QED BY <1>4, <2>2, <3>1, <3>2
  <2> HIDE DEF Rec
  <2> QED BY <2>1, <2>2 DEF Unfolds
<1> HIDE DEF Rec
<1>9. Adds(Sound, SumWith(s, g), s, UnionTo(n, M), UnionTo(n, P))
  <2> HIDE DEF M, P
  <2> QED BY <1>1, <1>5, <1>7, <1>8, AddsFold
<1>10. UnionTo(n, M) = MembersOf(g)
  <2>1. {g.atoms[k] : k \in 1 .. n} = MembersOf(g)
    BY <1>2 DEF MembersOf
  <2> QED BY <1>1, <2>1 DEF UnionTo
<1>11. UnionTo(n, P) = Pairs(g)
  <2>1. {g.atoms[k] : k \in 1 .. n} = MembersOf(g)
    BY <1>2 DEF MembersOf
  <2>2. UnionTo(n, P) = UNION {PairsOf(a, ToSet(TableOf(g, a))) : a \in MembersOf(g)}
    BY <2>1 DEF UnionTo
  <2> QED BY <2>2, PairsTogether DEF Sound
<1> QED BY <1>9, <1>10, <1>11

(* SUM: the members and the pairs of all groups.                           *)
LEMMA SumAdds ==
  ASSUME NEW gs \in Seq(Sound)
  PROVE  Adds(Sound, Sum(gs), EmptyGroup, UNION {MembersOf(gs[k]) : k \in DOMAIN gs},
              UNION {Pairs(gs[k]) : k \in DOMAIN gs})
<1> DEFINE n == Len(gs)
<1>1. n \in Nat /\ DOMAIN gs = 1 .. n /\ EmptyGroup \in Sound
  BY EmptyGroupFacts
<1>2. ToSet(gs) = {gs[k] : k \in 1 .. n}
  BY <1>1 DEF ToSet
<1> HIDE DEF n
<1>3. ASSUME NEW k \in 1 .. n, NEW h \in Sound
      PROVE  Adds(Sound, SumWith(h, gs[k]), h, MembersOf(gs[k]), Pairs(gs[k]))
  <2>1. gs[k] \in Sound
    BY <1>1
  <2> QED BY <2>1, SumWithAdds
<1> DEFINE F == [k \in 1 .. n |-> [h \in Sound |-> SumWith(h, gs[k])]]
           Rec(c) == [p \in SUBSET (1 .. n) |-> IF p = {} THEN EmptyGroup
                        ELSE SumWith(c[p \ {Max(p)}], gs[Max(p)])]
           M == [k \in 1 .. n |-> MembersOf(gs[k])]
           P == [k \in 1 .. n |-> Pairs(gs[k])]
<1>4. \A k \in 1 .. n, h \in Sound : F[k][h] = SumWith(h, gs[k])
  OBVIOUS
<1>5. StepsAdd(n, Sound, F, M, P) /\ Closed(n, Sound, F)
  <2>1. StepsAdd(n, Sound, F, M, P)
    BY <1>3, <1>4 DEF StepsAdd
  <2> QED BY <1>1, <2>1, StepsAddClosed
<1> HIDE DEF F
<1>6. \E w : w = Rec(w)
  <2>1. PICK w : IsFold(n, Sound, EmptyGroup, F, w)
    <3> HIDE DEF Rec
    <3> QED BY <1>1, <1>5, FoldExists
  <2>2. \A p \in SUBSET (1 .. n) : p # {} =>
          F[Max(p)][w[p \ {Max(p)}]] = SumWith(w[p \ {Max(p)}], gs[Max(p)])
    BY <1>1, <1>4, <2>1, MaxFacts DEF IsFold
  <2>3. w = Rec(w)
    BY <2>1, <2>2 DEF IsFold
  <2> HIDE DEF Rec
  <2> QED BY <2>3
<1>7. PICK c : c = Rec(c) /\ Sum(gs) = c[1 .. n]
  <2>1. Sum(gs) = (CHOOSE c : c = Rec(c))[1 .. n]
    BY <1>1 DEF Sum, FoldLeft, MapThenFoldSet
  <2> HIDE DEF Rec
  <2> QED BY <1>6, <2>1
<1>8. Unfolds(n, Sound, EmptyGroup, F, c)
  <2>1. c[{}] = EmptyGroup
    BY <1>7
  <2>2. ASSUME NEW p \in SUBSET (1 .. n), p # {}, c[p \ {Max(p)}] \in Sound
        PROVE  c[p] = F[Max(p)][c[p \ {Max(p)}]]
    <3>1. c[p] = SumWith(c[p \ {Max(p)}], gs[Max(p)])
      BY <1>7, <2>2
    <3>2. Max(p) \in 1 .. n
      BY <1>1, <2>2, MaxFacts
    <3> HIDE DEF Rec
    <3> QED BY <1>4, <2>2, <3>1, <3>2
  <2> HIDE DEF Rec
  <2> QED BY <2>1, <2>2 DEF Unfolds
<1> HIDE DEF Rec
<1>9. Adds(Sound, Sum(gs), EmptyGroup, UnionTo(n, M), UnionTo(n, P))
  <2> HIDE DEF M, P
  <2> QED BY <1>1, <1>5, <1>7, <1>8, AddsFold
<1>10. UnionTo(n, M) = UNION {MembersOf(gs[k]) : k \in DOMAIN gs}
  BY <1>1, <1>2 DEF UnionTo, PairsOf
<1>11. UnionTo(n, P) = UNION {Pairs(gs[k]) : k \in DOMAIN gs}
  BY <1>1, <1>2 DEF UnionTo, PairsOf
<1> QED BY <1>9, <1>10, <1>11

(* INVERTCOORDINATION: the pairs seen from the other end, and who is in    *)
(* one.                                                                    *)
LEMMA InvertAdds ==
  ASSUME NEW g \in Sound
  PROVE  Adds(Sound, InvertCoordination(g), EmptyGroup,
              UNION {ToSet(TableOf(g, a)) : a \in MembersOf(g)},
              UNION {{<<b, a>> : b \in ToSet(TableOf(g, a))} : a \in MembersOf(g)})
<1> DEFINE n == Len(g.atoms)
<1>1. n \in Nat /\ DOMAIN g.atoms = 1 .. n /\ EmptyGroup \in Sound
  <2>1. g \in Tables
    BY DEF Sound
  <2>2. g.atoms \in Lists
    BY <2>1, TablesFacts
  <2> QED BY <2>2, ListFacts, EmptyGroupFacts
<1>2. ToSet(g.atoms) = {g.atoms[k] : k \in 1 .. n}
  BY <1>1 DEF ToSet
<1> HIDE DEF n
<1>3. ASSUME NEW k \in 1 .. n, NEW h \in Sound
      PROVE  Adds(Sound, AddToTables(h, TableOf(g, g.atoms[k]), g.atoms[k]), h,
                  ToSet(TableOf(g, g.atoms[k])),
                  {<<b, g.atoms[k]>> : b \in ToSet(TableOf(g, g.atoms[k]))})
  <2>1. g.atoms[k] \in Atoms /\ g.atoms[k] \in MembersOf(g)
    BY <1>1, <1>2, TablesFacts, ListFacts DEF MembersOf, Sound
  <2>2. TableOf(g, g.atoms[k]) \in Seq(Atoms)
    BY <2>1, MemberIdFacts, ListFacts DEF Sound
  <2> QED BY <2>1, <2>2, AddToTablesAdds
<1> DEFINE F == [k \in 1 .. n |-> [h \in Sound |-> AddToTables(h, TableOf(g, g.atoms[k]),
                                                               g.atoms[k])]]
           Rec(c) == [p \in SUBSET (1 .. n) |-> IF p = {} THEN EmptyGroup
                        ELSE AddToTables(c[p \ {Max(p)}], TableOf(g, g.atoms[Max(p)]),
                                         g.atoms[Max(p)])]
           M == [k \in 1 .. n |-> ToSet(TableOf(g, g.atoms[k]))]
           P == [k \in 1 .. n |-> {<<b, g.atoms[k]>> : b \in ToSet(TableOf(g, g.atoms[k]))}]
<1>4. \A k \in 1 .. n, h \in Sound : F[k][h] = AddToTables(h, TableOf(g, g.atoms[k]), g.atoms[k])
  OBVIOUS
<1>5. StepsAdd(n, Sound, F, M, P) /\ Closed(n, Sound, F)
  <2>1. StepsAdd(n, Sound, F, M, P)
    BY <1>3, <1>4 DEF StepsAdd
  <2> QED BY <1>1, <2>1, StepsAddClosed
<1> HIDE DEF F
<1>6. \E w : w = Rec(w)
  <2>1. PICK w : IsFold(n, Sound, EmptyGroup, F, w)
    <3> HIDE DEF Rec
    <3> QED BY <1>1, <1>5, FoldExists
  <2>2. \A p \in SUBSET (1 .. n) : p # {} =>
          F[Max(p)][w[p \ {Max(p)}]] = AddToTables(w[p \ {Max(p)}], TableOf(g, g.atoms[Max(p)]),
                                                   g.atoms[Max(p)])
    BY <1>1, <1>4, <2>1, MaxFacts DEF IsFold
  <2>3. w = Rec(w)
    BY <2>1, <2>2 DEF IsFold
  <2> HIDE DEF Rec
  <2> QED BY <2>3
<1>7. PICK c : c = Rec(c) /\ InvertCoordination(g) = c[1 .. n]
  <2>1. InvertCoordination(g) = (CHOOSE c : c = Rec(c))[1 .. n]
    BY <1>1 DEF InvertCoordination, FoldLeft, MapThenFoldSet
  <2> HIDE DEF Rec
  <2> QED BY <1>6, <2>1
<1>8. Unfolds(n, Sound, EmptyGroup, F, c)
  <2>1. c[{}] = EmptyGroup
    BY <1>7
  <2>2. ASSUME NEW p \in SUBSET (1 .. n), p # {}, c[p \ {Max(p)}] \in Sound
        PROVE  c[p] = F[Max(p)][c[p \ {Max(p)}]]
    <3>1. c[p] = AddToTables(c[p \ {Max(p)}], TableOf(g, g.atoms[Max(p)]), g.atoms[Max(p)])
      BY <1>7, <2>2
    <3>2. Max(p) \in 1 .. n
      BY <1>1, <2>2, MaxFacts
    <3> HIDE DEF Rec
    <3> QED BY <1>4, <2>2, <3>1, <3>2
  <2> HIDE DEF Rec
  <2> QED BY <2>1, <2>2 DEF Unfolds
<1> HIDE DEF Rec
<1>9. Adds(Sound, InvertCoordination(g), EmptyGroup, UnionTo(n, M), UnionTo(n, P))
  <2> HIDE DEF M, P
  <2> QED BY <1>1, <1>5, <1>7, <1>8, AddsFold
<1>10. UnionTo(n, M) = UNION {ToSet(TableOf(g, a)) : a \in MembersOf(g)}
  <2>1. {g.atoms[k] : k \in 1 .. n} = MembersOf(g)
    BY <1>2 DEF MembersOf
  <2>2. UnionTo(n, M) = UNION {ToSet(TableOf(g, a)) : a \in MembersOf(g)}
    BY <2>1 DEF UnionTo
  <2> QED BY <2>2
<1>11. UnionTo(n, P) = UNION {{<<b, a>> : b \in ToSet(TableOf(g, a))} : a \in MembersOf(g)}
  <2>1. {g.atoms[k] : k \in 1 .. n} = MembersOf(g)
    BY <1>2 DEF MembersOf
  <2>2. UnionTo(n, P) = UNION {{<<b, a>> : b \in ToSet(TableOf(g, a))} : a \in MembersOf(g)}
    BY <2>1 DEF UnionTo
  <2> QED BY <2>2
<1> QED BY <1>9, <1>10, <1>11

(* INCLUDECOORDINATION: the members and all atoms of their rows.           *)
LEMMA IncludeAdds ==
  ASSUME NEW g \in Sound
  PROVE  Adds(Sound, IncludeCoordination(g), EmptyGroup,
              UNION {{a} \cup ToSet(TableOf(g, a)) : a \in MembersOf(g)}, {})
<1> DEFINE n == Len(g.atoms)
<1>1. n \in Nat /\ DOMAIN g.atoms = 1 .. n /\ EmptyGroup \in Sound
  <2>1. g \in Tables
    BY DEF Sound
  <2>2. g.atoms \in Lists
    BY <2>1, TablesFacts
  <2> QED BY <2>2, ListFacts, EmptyGroupFacts
<1>2. ToSet(g.atoms) = {g.atoms[k] : k \in 1 .. n}
  BY <1>1 DEF ToSet
<1> HIDE DEF n
<1>3. ASSUME NEW k \in 1 .. n, NEW h \in Sound
      PROVE  Adds(Sound, AddAtoms(AddAtom(h, g.atoms[k]), TableOf(g, g.atoms[k])), h,
                  ({g.atoms[k]} \cup ToSet(TableOf(g, g.atoms[k]))), ({} \cup {}))
  <2>1. g.atoms[k] \in Atoms /\ g.atoms[k] \in MembersOf(g)
    BY <1>1, <1>2, TablesFacts, ListFacts DEF MembersOf, Sound
  <2>2. TableOf(g, g.atoms[k]) \in Seq(Atoms)
    BY <2>1, MemberIdFacts, ListFacts DEF Sound
  <2>3. Adds(Sound, AddAtom(h, g.atoms[k]), h, {g.atoms[k]}, {})
    BY <2>1, AddAtomAdds
  <2>4. AddAtom(h, g.atoms[k]) \in Sound
    BY <2>3 DEF Adds
  <2>5. Adds(Sound, AddAtoms(AddAtom(h, g.atoms[k]), TableOf(g, g.atoms[k])),
             AddAtom(h, g.atoms[k]),
             ToSet(TableOf(g, g.atoms[k])), {})
    BY <2>2, <2>4, AddAtomsAdds
  <2> QED BY <2>3, <2>5, AddsTwice
<1> DEFINE F == [k \in 1 .. n |-> [h \in Sound |-> AddAtoms(AddAtom(h, g.atoms[k]),
                                                            TableOf(g, g.atoms[k]))]]
           Rec(c) == [p \in SUBSET (1 .. n) |-> IF p = {} THEN EmptyGroup
                        ELSE AddAtoms(AddAtom(c[p \ {Max(p)}], g.atoms[Max(p)]),
                                      TableOf(g, g.atoms[Max(p)]))]
           M == [k \in 1 .. n |-> ({g.atoms[k]} \cup ToSet(TableOf(g, g.atoms[k])))]
           P == [k \in 1 .. n |-> ({} \cup {})]
<1>4. \A k \in 1 .. n, h \in Sound : F[k][h] = AddAtoms(AddAtom(h, g.atoms[k]),
                                                        TableOf(g, g.atoms[k]))
  OBVIOUS
<1>5. StepsAdd(n, Sound, F, M, P) /\ Closed(n, Sound, F)
  <2>1. StepsAdd(n, Sound, F, M, P)
    BY <1>3, <1>4 DEF StepsAdd
  <2> QED BY <1>1, <2>1, StepsAddClosed
<1> HIDE DEF F
<1>6. \E w : w = Rec(w)
  <2>1. PICK w : IsFold(n, Sound, EmptyGroup, F, w)
    <3> HIDE DEF Rec
    <3> QED BY <1>1, <1>5, FoldExists
  <2>2. \A p \in SUBSET (1 .. n) : p # {} =>
          F[Max(p)][w[p \ {Max(p)}]] = AddAtoms(AddAtom(w[p \ {Max(p)}], g.atoms[Max(p)]),
                                                TableOf(g, g.atoms[Max(p)]))
    BY <1>1, <1>4, <2>1, MaxFacts DEF IsFold
  <2>3. w = Rec(w)
    BY <2>1, <2>2 DEF IsFold
  <2> HIDE DEF Rec
  <2> QED BY <2>3
<1>7. PICK c : c = Rec(c) /\ IncludeCoordination(g) = c[1 .. n]
  <2>1. IncludeCoordination(g) = (CHOOSE c : c = Rec(c))[1 .. n]
    BY <1>1 DEF IncludeCoordination, FoldLeft, MapThenFoldSet
  <2> HIDE DEF Rec
  <2> QED BY <1>6, <2>1
<1>8. Unfolds(n, Sound, EmptyGroup, F, c)
  <2>1. c[{}] = EmptyGroup
    BY <1>7
  <2>2. ASSUME NEW p \in SUBSET (1 .. n), p # {}, c[p \ {Max(p)}] \in Sound
        PROVE  c[p] = F[Max(p)][c[p \ {Max(p)}]]
    <3>1. c[p] = AddAtoms(AddAtom(c[p \ {Max(p)}], g.atoms[Max(p)]), TableOf(g, g.atoms[Max(p)]))
      BY <1>7, <2>2
    <3>2. Max(p) \in 1 .. n
      BY <1>1, <2>2, MaxFacts
    <3> HIDE DEF Rec
    <3> QED BY <1>4, <2>2, <3>1, <3>2
  <2> HIDE DEF Rec
  <2> QED BY <2>1, <2>2 DEF Unfolds
<1> HIDE DEF Rec
<1>9. Adds(Sound, IncludeCoordination(g), EmptyGroup, UnionTo(n, M), UnionTo(n, P))
  <2> HIDE DEF M, P
  <2> QED BY <1>1, <1>5, <1>7, <1>8, AddsFold
<1>10. UnionTo(n, M) = UNION {{a} \cup ToSet(TableOf(g, a)) : a \in MembersOf(g)}
  <2>1. {g.atoms[k] : k \in 1 .. n} = MembersOf(g)
    BY <1>2 DEF MembersOf
  <2>2. UnionTo(n, M) = UNION {({a} \cup ToSet(TableOf(g, a))) : a \in MembersOf(g)}
    BY <2>1 DEF UnionTo
  <2> QED BY <2>2
<1>11. UnionTo(n, P) = {}
  BY DEF UnionTo
<1> QED BY <1>9, <1>10, <1>11

(* ADDCOORDINATION: what one member of the first group gets.               *)
LEMMA AddSecondAdds ==
  ASSUME NEW g \in Sound, NEW a \in Atoms, NEW k2 \in Sound, NEW bs \in Seq(Atoms)
  PROVE  Adds(Sound, AddSecond(g, a, bs, k2), g, (IF bs = <<>> THEN {} ELSE {a}),
              (PairsOf(a, ToSet(bs)) \cup UNION {PairsOf(a,
                                                         ToSet(SecondRow(k2,
                                                                         b))) : b \in ToSet(bs)}))
<1> DEFINE n == Len(bs)
<1>1. n \in Nat /\ DOMAIN bs = 1 .. n /\ g \in Sound
  OBVIOUS
<1>2. ToSet(bs) = {bs[k] : k \in 1 .. n}
  BY <1>1 DEF ToSet
<1> HIDE DEF n
<1>3. ASSUME NEW k \in 1 .. n, NEW h \in Sound
      PROVE  Adds(Sound, AddToTable(AddPair(h, a, bs[k]), a, SecondRow(k2, bs[k])), h,
                  ({a} \cup (IF SecondRow(k2, bs[k]) = <<>> THEN {} ELSE {a})),
                  ({<<a, bs[k]>>} \cup PairsOf(a, ToSet(SecondRow(k2, bs[k])))))
  <2>1. bs[k] \in Atoms
    BY <1>1
  <2>2. SecondRow(k2, bs[k]) \in Seq(Atoms)
    BY MemberIdFacts, ListFacts, EmptyList DEF SecondRow, IsMember, Sound
  <2>3. Adds(Sound, AddPair(h, a, bs[k]), h, {a}, {<<a, bs[k]>>})
    BY <2>1, AddPairAdds
  <2>4. AddPair(h, a, bs[k]) \in Sound
    BY <2>3 DEF Adds
  <2>5. Adds(Sound, AddToTable(AddPair(h, a, bs[k]), a, SecondRow(k2, bs[k])), AddPair(h, a, bs[k]),
             (IF SecondRow(k2, bs[k]) = <<>> THEN {} ELSE {a}),
             PairsOf(a, ToSet(SecondRow(k2, bs[k]))))
    BY <2>2, <2>4, AddToTableAdds
  <2> QED BY <2>3, <2>5, AddsTwice
<1> DEFINE F == [k \in 1 .. n |-> [h \in Sound |-> AddToTable(AddPair(h, a, bs[k]), a,
                                                              SecondRow(k2, bs[k]))]]
           Rec(c) == [p \in SUBSET (1 .. n) |-> IF p = {} THEN g
                        ELSE AddToTable(AddPair(c[p \ {Max(p)}], a, bs[Max(p)]), a,
                                        SecondRow(k2, bs[Max(p)]))]
           M == [k \in 1 .. n |-> ({a} \cup (IF SecondRow(k2, bs[k]) = <<>> THEN {} ELSE {a}))]
           P == [k \in 1 .. n |-> ({<<a, bs[k]>>} \cup PairsOf(a, ToSet(SecondRow(k2, bs[k]))))]
<1>4. \A k \in 1 .. n, h \in Sound : F[k][h] = AddToTable(AddPair(h, a, bs[k]), a,
                                                          SecondRow(k2, bs[k]))
  OBVIOUS
<1>5. StepsAdd(n, Sound, F, M, P) /\ Closed(n, Sound, F)
  <2>1. StepsAdd(n, Sound, F, M, P)
    BY <1>3, <1>4 DEF StepsAdd
  <2> QED BY <1>1, <2>1, StepsAddClosed
<1> HIDE DEF F
<1>6. \E w : w = Rec(w)
  <2>1. PICK w : IsFold(n, Sound, g, F, w)
    <3> HIDE DEF Rec
    <3> QED BY <1>1, <1>5, FoldExists
  <2>2. \A p \in SUBSET (1 .. n) : p # {} =>
          F[Max(p)][w[p \ {Max(p)}]] = AddToTable(AddPair(w[p \ {Max(p)}], a, bs[Max(p)]), a,
                                                  SecondRow(k2, bs[Max(p)]))
    BY <1>1, <1>4, <2>1, MaxFacts DEF IsFold
  <2>3. w = Rec(w)
    BY <2>1, <2>2 DEF IsFold
  <2> HIDE DEF Rec
  <2> QED BY <2>3
<1>7. PICK c : c = Rec(c) /\ AddSecond(g, a, bs, k2) = c[1 .. n]
  <2>1. AddSecond(g, a, bs, k2) = (CHOOSE c : c = Rec(c))[1 .. n]
    BY <1>1 DEF AddSecond, SecondRow, FoldLeft, MapThenFoldSet
  <2> HIDE DEF Rec
  <2> QED BY <1>6, <2>1
<1>8. Unfolds(n, Sound, g, F, c)
  <2>1. c[{}] = g
    BY <1>7
  <2>2. ASSUME NEW p \in SUBSET (1 .. n), p # {}, c[p \ {Max(p)}] \in Sound
        PROVE  c[p] = F[Max(p)][c[p \ {Max(p)}]]
    <3>1. c[p] = AddToTable(AddPair(c[p \ {Max(p)}], a, bs[Max(p)]), a, SecondRow(k2, bs[Max(p)]))
      BY <1>7, <2>2
    <3>2. Max(p) \in 1 .. n
      BY <1>1, <2>2, MaxFacts
    <3> HIDE DEF Rec
    <3> QED BY <1>4, <2>2, <3>1, <3>2
  <2> HIDE DEF Rec
  <2> QED BY <2>1, <2>2 DEF Unfolds
<1> HIDE DEF Rec
<1>9. Adds(Sound, AddSecond(g, a, bs, k2), g, UnionTo(n, M), UnionTo(n, P))
  <2> HIDE DEF M, P
  <2> QED BY <1>1, <1>5, <1>7, <1>8, AddsFold
<1>10. UnionTo(n, M) = (IF bs = <<>> THEN {} ELSE {a})
  <2>1. \A k \in 1 .. n : M[k] = {a}
    OBVIOUS
  <2> HIDE DEF M
  <2>2. CASE n = 0
    <3>1. bs = <<>>
      BY <2>2 DEF n
    <3> QED BY <2>2, <3>1 DEF UnionTo
  <2>3. CASE n # 0
    <3>1. bs # <<>> /\ 1 \in 1 .. n
      BY <1>1, <2>3 DEF n
    <3> QED BY <1>1, <2>1, <3>1 DEF UnionTo
  <2> QED BY <2>2, <2>3
<1>11. UnionTo(n, P) = (PairsOf(a, ToSet(bs)) \cup UNION {PairsOf(a,
                                                                  ToSet(SecondRow(k2,
                                                                                  b))) : b \in ToSet(bs)})
  <2>1. UnionTo(n, P) = UNION {{<<a, b>>} \cup PairsOf(a,
                                                       ToSet(SecondRow(k2, b))) : b \in ToSet(bs)}
    BY <1>2 DEF UnionTo
  <2> QED BY <2>1 DEF PairsOf
<1> QED BY <1>9, <1>10, <1>11

(* The pairs that a has in an ADDCOORDINATION.                             *)
SecondPairs(g, a, h) ==
  PairsOf(a, ToSet(TableOf(g, a))) \cup
    UNION {PairsOf(a, ToSet(SecondRow(h, b))) : b \in ToSet(TableOf(g, a))}

(* ADDCOORDINATION: the members of the first group with their pairs and    *)
(* the pairs one step further.                                             *)
LEMMA AddCoordinationAdds ==
  ASSUME NEW g \in Sound, NEW k2 \in Sound
  PROVE  Adds(Sound, AddCoordination(g, k2), EmptyGroup, MembersOf(g),
              UNION {SecondPairs(g, a, k2) : a \in MembersOf(g)})
<1> DEFINE n == Len(g.atoms)
<1>1. n \in Nat /\ DOMAIN g.atoms = 1 .. n /\ EmptyGroup \in Sound
  <2>1. g \in Tables
    BY DEF Sound
  <2>2. g.atoms \in Lists
    BY <2>1, TablesFacts
  <2> QED BY <2>2, ListFacts, EmptyGroupFacts
<1>2. ToSet(g.atoms) = {g.atoms[k] : k \in 1 .. n}
  BY <1>1 DEF ToSet
<1> HIDE DEF n
<1>3. ASSUME NEW k \in 1 .. n, NEW h \in Sound
      PROVE  Adds(Sound, AddSecond(AddAtom(h, g.atoms[k]), g.atoms[k], TableOf(g, g.atoms[k]),
                                   k2), h, ({g.atoms[k]} \cup (IF TableOf(g, g.atoms[k]) = <<>>
                                                               THEN {} ELSE {g.atoms[k]})),
                                                               ({} \cup SecondPairs(g, g.atoms[k],
                                                                                    k2)))
  <2>1. g.atoms[k] \in Atoms /\ g.atoms[k] \in MembersOf(g)
    BY <1>1, <1>2, TablesFacts, ListFacts DEF MembersOf, Sound
  <2>2. TableOf(g, g.atoms[k]) \in Seq(Atoms)
    BY <2>1, MemberIdFacts, ListFacts DEF Sound
  <2>3. Adds(Sound, AddAtom(h, g.atoms[k]), h, {g.atoms[k]}, {})
    BY <2>1, AddAtomAdds
  <2>4. AddAtom(h, g.atoms[k]) \in Sound
    BY <2>3 DEF Adds
  <2>5. Adds(Sound, AddSecond(AddAtom(h, g.atoms[k]), g.atoms[k], TableOf(g, g.atoms[k]), k2),
             AddAtom(h, g.atoms[k]), (IF TableOf(g, g.atoms[k]) = <<>> THEN {} ELSE {g.atoms[k]}),
             SecondPairs(g, g.atoms[k], k2))
    BY <2>1, <2>2, <2>4, AddSecondAdds DEF SecondPairs
  <2> QED BY <2>3, <2>5, AddsTwice
<1> DEFINE F == [k \in 1 .. n |-> [h \in Sound |-> AddSecond(AddAtom(h, g.atoms[k]), g.atoms[k],
                                                             TableOf(g, g.atoms[k]), k2)]]
           Rec(c) == [p \in SUBSET (1 .. n) |-> IF p = {} THEN EmptyGroup
                        ELSE AddSecond(AddAtom(c[p \ {Max(p)}], g.atoms[Max(p)]), g.atoms[Max(p)],
                                       TableOf(g, g.atoms[Max(p)]), k2)]
           M == [k \in 1 .. n |-> ({g.atoms[k]} \cup (IF TableOf(g, g.atoms[k]) = <<>> THEN {}
                                                      ELSE {g.atoms[k]}))]
           P == [k \in 1 .. n |-> ({} \cup SecondPairs(g, g.atoms[k], k2))]
<1>4. \A k \in 1 .. n, h \in Sound : F[k][h] = AddSecond(AddAtom(h, g.atoms[k]), g.atoms[k],
                                                         TableOf(g, g.atoms[k]), k2)
  OBVIOUS
<1>5. StepsAdd(n, Sound, F, M, P) /\ Closed(n, Sound, F)
  <2>1. StepsAdd(n, Sound, F, M, P)
    BY <1>3, <1>4 DEF StepsAdd
  <2> QED BY <1>1, <2>1, StepsAddClosed
<1> HIDE DEF F
<1>6. \E w : w = Rec(w)
  <2>1. PICK w : IsFold(n, Sound, EmptyGroup, F, w)
    <3> HIDE DEF Rec
    <3> QED BY <1>1, <1>5, FoldExists
  <2>2. \A p \in SUBSET (1 .. n) : p # {} =>
          F[Max(p)][w[p \ {Max(p)}]] = AddSecond(AddAtom(w[p \ {Max(p)}], g.atoms[Max(p)]),
                                                 g.atoms[Max(p)], TableOf(g, g.atoms[Max(p)]), k2)
    BY <1>1, <1>4, <2>1, MaxFacts DEF IsFold
  <2>3. w = Rec(w)
    BY <2>1, <2>2 DEF IsFold
  <2> HIDE DEF Rec
  <2> QED BY <2>3
<1>7. PICK c : c = Rec(c) /\ AddCoordination(g, k2) = c[1 .. n]
  <2>1. AddCoordination(g, k2) = (CHOOSE c : c = Rec(c))[1 .. n]
    BY <1>1 DEF AddCoordination, FoldLeft, MapThenFoldSet
  <2> HIDE DEF Rec
  <2> QED BY <1>6, <2>1
<1>8. Unfolds(n, Sound, EmptyGroup, F, c)
  <2>1. c[{}] = EmptyGroup
    BY <1>7
  <2>2. ASSUME NEW p \in SUBSET (1 .. n), p # {}, c[p \ {Max(p)}] \in Sound
        PROVE  c[p] = F[Max(p)][c[p \ {Max(p)}]]
    <3>1. c[p] = AddSecond(AddAtom(c[p \ {Max(p)}], g.atoms[Max(p)]), g.atoms[Max(p)],
                           TableOf(g, g.atoms[Max(p)]), k2)
      BY <1>7, <2>2
    <3>2. Max(p) \in 1 .. n
      BY <1>1, <2>2, MaxFacts
    <3> HIDE DEF Rec
    <3> QED BY <1>4, <2>2, <3>1, <3>2
  <2> HIDE DEF Rec
  <2> QED BY <2>1, <2>2 DEF Unfolds
<1> HIDE DEF Rec
<1>9. Adds(Sound, AddCoordination(g, k2), EmptyGroup, UnionTo(n, M), UnionTo(n, P))
  <2> HIDE DEF M, P
  <2> QED BY <1>1, <1>5, <1>7, <1>8, AddsFold
<1>10. UnionTo(n, M) = MembersOf(g)
  <2>1. \A k \in 1 .. n : M[k] = {g.atoms[k]}
    OBVIOUS
  <2>2. {g.atoms[k] : k \in 1 .. n} = MembersOf(g)
    BY <1>2 DEF MembersOf
  <2> HIDE DEF M
  <2> QED BY <1>1, <2>1, <2>2 DEF UnionTo
<1>11. UnionTo(n, P) = UNION {SecondPairs(g, a, k2) : a \in MembersOf(g)}
  <2>1. \A k \in 1 .. n : P[k] = SecondPairs(g, g.atoms[k], k2)
    OBVIOUS
  <2>2. {g.atoms[k] : k \in 1 .. n} = MembersOf(g)
    BY <1>2 DEF MembersOf
  <2> HIDE DEF P
  <2> QED BY <1>1, <2>1, <2>2 DEF UnionTo
<1> QED BY <1>9, <1>10, <1>11

(* COORDINATIONTABLEINTERSECTION reads a whole row, because the number is  *)
(* its size, and keeps who is in all the other groups.                     *)
LEMMA KeptRowFacts ==
  ASSUME NEW gs, gs[1] \in Sound, NEW a \in MembersOf(gs[1])
  PROVE  /\ KeptRow(gs, a) \in Seq(Atoms)
         /\ ToSet(KeptRow(gs, a)) =
              {b \in ToSet(TableOf(gs[1], a)) : \A k \in 2 .. Len(gs) : IsMember(gs[k], b)}
<1> DEFINE g == gs[1]
           s == TableOf(g, a)
           S == {b \in Atoms : \A k \in 2 .. Len(gs) : IsMember(gs[k], b)}
           t == [j \in 1 .. NumberOf(g, a) |-> s[j]]
<1>1. s \in Lists /\ NumberOf(g, a) = Len(s)
  BY MemberIdFacts, SoundByMembers DEF Sound
<1>2. s \in Seq(Atoms) /\ ToSet(s) \subseteq Atoms
  BY <1>1, ListFacts
<1> HIDE DEF s
<1>3. t = s
  BY <1>1, <1>2
<1>4. Among(s, S) \in Seq(Atoms) /\ ToSet(Among(s, S)) = ToSet(s) \cap S
  BY <1>2, AmongFacts
<1>5. KeptRow(gs, a) = Among(s, S)
  BY <1>3 DEF KeptRow, s
<1>6. ToSet(s) \cap S = {b \in ToSet(s) : \A k \in 2 .. Len(gs) : IsMember(gs[k], b)}
  BY <1>2
<1> QED BY <1>4, <1>5, <1>6 DEF s

(* COORDINATIONTABLEINTERSECTION: the members of the first group, with     *)
(* what is kept of their rows.                                             *)
LEMMA TableIntersectionAdds ==
  ASSUME NEW gs, NEW g \in Sound, g = gs[1]
  PROVE  Adds(Sound, TableIntersection(gs), EmptyGroup, MembersOf(g),
              UNION {PairsOf(a, ToSet(KeptRow(gs, a))) : a \in MembersOf(g)})
<1> DEFINE n == Len(g.atoms)
<1>1. n \in Nat /\ DOMAIN g.atoms = 1 .. n /\ EmptyGroup \in Sound
  <2>1. g \in Tables
    BY DEF Sound
  <2>2. g.atoms \in Lists
    BY <2>1, TablesFacts
  <2> QED BY <2>2, ListFacts, EmptyGroupFacts
<1>2. ToSet(g.atoms) = {g.atoms[k] : k \in 1 .. n}
  BY <1>1 DEF ToSet
<1> HIDE DEF n
<1>3. ASSUME NEW k \in 1 .. n, NEW h \in Sound
      PROVE  Adds(Sound, AddToTable(AddAtom(h, g.atoms[k]), g.atoms[k], KeptRow(gs, g.atoms[k])),
                  h, ({g.atoms[k]} \cup (IF KeptRow(gs, g.atoms[k]) = <<>> THEN {}
                                         ELSE {g.atoms[k]})),
                                         ({} \cup PairsOf(g.atoms[k],
                                                          ToSet(KeptRow(gs, g.atoms[k])))))
  <2>1. g.atoms[k] \in Atoms /\ g.atoms[k] \in MembersOf(g)
    BY <1>1, <1>2, TablesFacts, ListFacts DEF MembersOf, Sound
  <2>2. KeptRow(gs, g.atoms[k]) \in Seq(Atoms)
    BY <2>1, KeptRowFacts
  <2>3. Adds(Sound, AddAtom(h, g.atoms[k]), h, {g.atoms[k]}, {})
    BY <2>1, AddAtomAdds
  <2>4. AddAtom(h, g.atoms[k]) \in Sound
    BY <2>3 DEF Adds
  <2>5. Adds(Sound, AddToTable(AddAtom(h, g.atoms[k]), g.atoms[k], KeptRow(gs, g.atoms[k])),
             AddAtom(h, g.atoms[k]), (IF KeptRow(gs, g.atoms[k]) = <<>> THEN {} ELSE {g.atoms[k]}),
             PairsOf(g.atoms[k], ToSet(KeptRow(gs, g.atoms[k]))))
    BY <2>1, <2>2, <2>4, AddToTableAdds
  <2> QED BY <2>3, <2>5, AddsTwice
<1> DEFINE F == [k \in 1 .. n |-> [h \in Sound |-> AddToTable(AddAtom(h, g.atoms[k]), g.atoms[k],
                                                              KeptRow(gs, g.atoms[k]))]]
           Rec(c) == [p \in SUBSET (1 .. n) |-> IF p = {} THEN EmptyGroup
                        ELSE AddToTable(AddAtom(c[p \ {Max(p)}], g.atoms[Max(p)]),
                                        g.atoms[Max(p)], KeptRow(gs, g.atoms[Max(p)]))]
           M == [k \in 1 .. n |-> ({g.atoms[k]} \cup (IF KeptRow(gs, g.atoms[k]) = <<>> THEN {}
                                                      ELSE {g.atoms[k]}))]
           P == [k \in 1 .. n |-> ({} \cup PairsOf(g.atoms[k], ToSet(KeptRow(gs, g.atoms[k]))))]
<1>4. \A k \in 1 .. n, h \in Sound : F[k][h] = AddToTable(AddAtom(h, g.atoms[k]), g.atoms[k],
                                                          KeptRow(gs, g.atoms[k]))
  OBVIOUS
<1>5. StepsAdd(n, Sound, F, M, P) /\ Closed(n, Sound, F)
  <2>1. StepsAdd(n, Sound, F, M, P)
    BY <1>3, <1>4 DEF StepsAdd
  <2> QED BY <1>1, <2>1, StepsAddClosed
<1> HIDE DEF F
<1>6. \E w : w = Rec(w)
  <2>1. PICK w : IsFold(n, Sound, EmptyGroup, F, w)
    <3> HIDE DEF Rec
    <3> QED BY <1>1, <1>5, FoldExists
  <2>2. \A p \in SUBSET (1 .. n) : p # {} =>
          F[Max(p)][w[p \ {Max(p)}]] = AddToTable(AddAtom(w[p \ {Max(p)}], g.atoms[Max(p)]),
                                                  g.atoms[Max(p)], KeptRow(gs, g.atoms[Max(p)]))
    BY <1>1, <1>4, <2>1, MaxFacts DEF IsFold
  <2>3. w = Rec(w)
    BY <2>1, <2>2 DEF IsFold
  <2> HIDE DEF Rec
  <2> QED BY <2>3
<1>7. PICK c : c = Rec(c) /\ TableIntersection(gs) = c[1 .. n]
  <2>1. TableIntersection(gs) = (CHOOSE c : c = Rec(c))[1 .. n]
    BY <1>1 DEF TableIntersection, KeptRow, FoldLeft, MapThenFoldSet
  <2> HIDE DEF Rec
  <2> QED BY <1>6, <2>1
<1>8. Unfolds(n, Sound, EmptyGroup, F, c)
  <2>1. c[{}] = EmptyGroup
    BY <1>7
  <2>2. ASSUME NEW p \in SUBSET (1 .. n), p # {}, c[p \ {Max(p)}] \in Sound
        PROVE  c[p] = F[Max(p)][c[p \ {Max(p)}]]
    <3>1. c[p] = AddToTable(AddAtom(c[p \ {Max(p)}], g.atoms[Max(p)]), g.atoms[Max(p)],
                            KeptRow(gs, g.atoms[Max(p)]))
      BY <1>7, <2>2
    <3>2. Max(p) \in 1 .. n
      BY <1>1, <2>2, MaxFacts
    <3> HIDE DEF Rec
    <3> QED BY <1>4, <2>2, <3>1, <3>2
  <2> HIDE DEF Rec
  <2> QED BY <2>1, <2>2 DEF Unfolds
<1> HIDE DEF Rec
<1>9. Adds(Sound, TableIntersection(gs), EmptyGroup, UnionTo(n, M), UnionTo(n, P))
  <2> HIDE DEF M, P
  <2> QED BY <1>1, <1>5, <1>7, <1>8, AddsFold
<1>10. UnionTo(n, M) = MembersOf(g)
  <2>1. \A k \in 1 .. n : M[k] = {g.atoms[k]}
    OBVIOUS
  <2>2. {g.atoms[k] : k \in 1 .. n} = MembersOf(g)
    BY <1>2 DEF MembersOf
  <2> HIDE DEF M
  <2> QED BY <1>1, <2>1, <2>2 DEF UnionTo
<1>11. UnionTo(n, P) = UNION {PairsOf(a, ToSet(KeptRow(gs, a))) : a \in MembersOf(g)}
  <2>1. \A k \in 1 .. n : P[k] = PairsOf(g.atoms[k], ToSet(KeptRow(gs, g.atoms[k])))
    OBVIOUS
  <2>2. {g.atoms[k] : k \in 1 .. n} = MembersOf(g)
    BY <1>2 DEF MembersOf
  <2> HIDE DEF P
  <2> QED BY <1>1, <2>1, <2>2 DEF UnionTo
<1> QED BY <1>9, <1>10, <1>11

(* The to-atoms within the distances, each once.                           *)
LEMMA ToListFacts ==
  ASSUME NEW d, NEW a, NEW bonds, NEW to \in Sound
  PROVE  /\ ToList(d, a, bonds, to) \in Lists /\ ToList(d, a, bonds, to) \in Seq(Atoms)
         /\ ToSet(ToList(d, a, bonds, to)) =
              {b \in MembersOf(to) \ {a} : bonds[a][b] > d.minDist /\ bonds[a][b] < d.maxDist}
<1> DEFINE S == {b \in Atoms \ {a} : bonds[a][b] > d.minDist /\ bonds[a][b] < d.maxDist}
<1>1. to.atoms \in Lists /\ to.atoms \in Seq(Atoms) /\ ToSet(to.atoms) \subseteq Atoms
  BY TablesFacts, ListFacts DEF Sound
<1>2. S \in SUBSET Atoms
  OBVIOUS
<1>3. ToList(d, a, bonds, to) = Among(to.atoms, S)
  BY DEF ToList
<1> HIDE DEF S
<1>4. Among(to.atoms, S) \in Lists /\ Among(to.atoms, S) \in Seq(Atoms)
      /\ ToSet(Among(to.atoms, S)) = ToSet(to.atoms) \cap S
  BY <1>1, <1>2, AmongFacts
<1>5. ToSet(to.atoms) \cap S =
        {b \in ToSet(to.atoms) \ {a} : bonds[a][b] > d.minDist /\ bonds[a][b] < d.maxDist}
  BY <1>1 DEF S
<1> QED BY <1>3, <1>4, <1>5 DEF MembersOf

(* What a from-atom of a BOND brings.                                      *)
Bound(d, bonds, to, a) == Coordinated(d, Len(ToList(d, a, bonds, to)))
Partners(d, bonds, to, a) ==
  IF Bound(d, bonds, to, a) THEN ToSet(ToList(d, a, bonds, to)) ELSE {}

(* The corresponding group: the partners, with the from-atoms in their     *)
(* rows.                                                                   *)
LEMMA CorrespondingAdds ==
  ASSUME NEW d, NEW bonds, NEW g \in Sound, NEW to \in Sound
  PROVE  Adds(Sound, Corresponding(d, bonds, g, to), EmptyGroup,
              UNION {Partners(d, bonds, to, a) : a \in MembersOf(g)},
              UNION {{<<b, a>> : b \in Partners(d, bonds, to, a)} : a \in MembersOf(g)})
<1> DEFINE n == Len(g.atoms)
<1>1. n \in Nat /\ DOMAIN g.atoms = 1 .. n /\ EmptyGroup \in Sound
  <2>1. g \in Tables
    BY DEF Sound
  <2>2. g.atoms \in Lists
    BY <2>1, TablesFacts
  <2> QED BY <2>2, ListFacts, EmptyGroupFacts
<1>2. ToSet(g.atoms) = {g.atoms[k] : k \in 1 .. n}
  BY <1>1 DEF ToSet
<1> HIDE DEF n
<1>3. ASSUME NEW k \in 1 .. n, NEW h \in Sound
      PROVE  Adds(Sound, WithBack(d, bonds, to, h, g.atoms[k]), h,
                  Partners(d, bonds, to, g.atoms[k]),
                  {<<b, g.atoms[k]>> : b \in Partners(d, bonds, to, g.atoms[k])})
  <2>1. g.atoms[k] \in Atoms /\ g.atoms[k] \in MembersOf(g)
    BY <1>1, <1>2, TablesFacts, ListFacts DEF MembersOf, Sound
  <2> DEFINE a == g.atoms[k]
             tolist == ToList(d, a, bonds, to)
  <2>2. tolist \in Seq(Atoms)
    BY ToListFacts
  <2>3. CASE Bound(d, bonds, to, a)
    <3>1. Adds(Sound, AddToTables(h, tolist, a), h, ToSet(tolist), {<<b, a>> : b \in ToSet(tolist)})
      BY <2>1, <2>2, AddToTablesAdds
    <3> QED BY <2>3, <3>1 DEF WithBack, Bound, Partners
  <2>4. CASE ~Bound(d, bonds, to, a)
    <3>1. WithBack(d, bonds, to, h, a) = h /\ Partners(d, bonds, to, a) = {}
      BY <2>4 DEF WithBack, Bound, Partners
    <3>2. Adds(Sound, h, h, {}, {})
      BY DEF Adds
    <3>3. {<<b, a>> : b \in Partners(d, bonds, to, a)} = {}
      BY <3>1
    <3> HIDE DEF a
    <3>4. Adds(Sound, WithBack(d, bonds, to, h, a), h, Partners(d, bonds, to, a),
               {<<b, a>> : b \in Partners(d, bonds, to, a)})
      BY <3>1, <3>2, <3>3
    <3> QED BY <3>4 DEF a
  <2> QED BY <2>3, <2>4
<1> DEFINE F == [k \in 1 .. n |-> [h \in Sound |-> WithBack(d, bonds, to, h, g.atoms[k])]]
           Rec(c) == [p \in SUBSET (1 .. n) |-> IF p = {} THEN EmptyGroup
                        ELSE WithBack(d, bonds, to, c[p \ {Max(p)}], g.atoms[Max(p)])]
           M == [k \in 1 .. n |-> Partners(d, bonds, to, g.atoms[k])]
           P == [k \in 1 .. n |-> {<<b, g.atoms[k]>> : b \in Partners(d, bonds, to, g.atoms[k])}]
<1>4. \A k \in 1 .. n, h \in Sound : F[k][h] = WithBack(d, bonds, to, h, g.atoms[k])
  OBVIOUS
<1>5. StepsAdd(n, Sound, F, M, P) /\ Closed(n, Sound, F)
  <2>1. StepsAdd(n, Sound, F, M, P)
    BY <1>3, <1>4 DEF StepsAdd
  <2> QED BY <1>1, <2>1, StepsAddClosed
<1> HIDE DEF F
<1>6. \E w : w = Rec(w)
  <2>1. PICK w : IsFold(n, Sound, EmptyGroup, F, w)
    <3> HIDE DEF Rec
    <3> QED BY <1>1, <1>5, FoldExists
  <2>2. \A p \in SUBSET (1 .. n) : p # {} =>
          F[Max(p)][w[p \ {Max(p)}]] = WithBack(d, bonds, to, w[p \ {Max(p)}], g.atoms[Max(p)])
    BY <1>1, <1>4, <2>1, MaxFacts DEF IsFold
  <2>3. w = Rec(w)
    BY <2>1, <2>2 DEF IsFold
  <2> HIDE DEF Rec
  <2> QED BY <2>3
<1>7. PICK c : c = Rec(c) /\ Corresponding(d, bonds, g, to) = c[1 .. n]
  <2>1. Corresponding(d, bonds, g, to) = (CHOOSE c : c = Rec(c))[1 .. n]
    BY <1>1 DEF Corresponding, WithBack, FoldLeft, MapThenFoldSet
  <2> HIDE DEF Rec
  <2> QED BY <1>6, <2>1
<1>8. Unfolds(n, Sound, EmptyGroup, F, c)
  <2>1. c[{}] = EmptyGroup
    BY <1>7
  <2>2. ASSUME NEW p \in SUBSET (1 .. n), p # {}, c[p \ {Max(p)}] \in Sound
        PROVE  c[p] = F[Max(p)][c[p \ {Max(p)}]]
    <3>1. c[p] = WithBack(d, bonds, to, c[p \ {Max(p)}], g.atoms[Max(p)])
      BY <1>7, <2>2
    <3>2. Max(p) \in 1 .. n
      BY <1>1, <2>2, MaxFacts
    <3> HIDE DEF Rec
    <3> QED BY <1>4, <2>2, <3>1, <3>2
  <2> HIDE DEF Rec
  <2> QED BY <2>1, <2>2 DEF Unfolds
<1> HIDE DEF Rec
<1>9. Adds(Sound, Corresponding(d, bonds, g, to), EmptyGroup, UnionTo(n, M), UnionTo(n, P))
  <2> HIDE DEF M, P
  <2> QED BY <1>1, <1>5, <1>7, <1>8, AddsFold
<1>10. UnionTo(n, M) = UNION {Partners(d, bonds, to, a) : a \in MembersOf(g)}
  <2>1. {g.atoms[k] : k \in 1 .. n} = MembersOf(g)
    BY <1>2 DEF MembersOf
  <2>2. UnionTo(n, M) = UNION {Partners(d, bonds, to, a) : a \in MembersOf(g)}
    BY <2>1 DEF UnionTo
  <2> QED BY <2>2
<1>11. UnionTo(n, P) = UNION {{<<b, a>> : b \in Partners(d, bonds, to, a)} : a \in MembersOf(g)}
  <2>1. {g.atoms[k] : k \in 1 .. n} = MembersOf(g)
    BY <1>2 DEF MembersOf
  <2>2. UnionTo(n, P) = UNION {{<<b, a>> : b \in Partners(d, bonds, to, a)} : a \in MembersOf(g)}
    BY <2>1 DEF UnionTo
  <2> QED BY <2>2
<1> QED BY <1>9, <1>10, <1>11

(* SUBGROUP: the atoms at the positions that the parent has.               *)
LEMMA SubGroupAdds ==
  ASSUME NEW d, NEW ids \in Seq(Nat), ids = d.ids, NEW g \in Sound
  PROVE  Adds(Sound, SubGroup(d, g), EmptyGroup,
              {g.atoms[i + 1] : i \in {k \in ToSet(ids) : k < Len(g.atoms)}}, {})
<1> DEFINE n == Len(ids)
<1>1. n \in Nat /\ DOMAIN ids = 1 .. n /\ EmptyGroup \in Sound
  BY EmptyGroupFacts
<1>2. ToSet(ids) = {ids[k] : k \in 1 .. n}
  BY <1>1 DEF ToSet
<1> HIDE DEF n
<1>3. ASSUME NEW k \in 1 .. n, NEW h \in Sound
      PROVE  Adds(Sound, (IF ids[k] < Len(g.atoms) THEN AddAtom(h, g.atoms[ids[k] + 1]) ELSE h),
                  h, (IF ids[k] < Len(g.atoms) THEN {g.atoms[ids[k] + 1]} ELSE {}), {})
  <2>1. CASE ids[k] < Len(g.atoms)
    <3>1. g.atoms \in Lists
      BY TablesFacts DEF Sound
    <3>2. ids[k] + 1 \in 1 .. Len(g.atoms)
      BY <1>1, <2>1, <3>1, ListFacts
    <3>3. g.atoms[ids[k] + 1] \in Atoms
      BY <3>1, <3>2, ListFacts
    <3>4. Adds(Sound, AddAtom(h, g.atoms[ids[k] + 1]), h, {g.atoms[ids[k] + 1]}, {})
      BY <3>3, AddAtomAdds
    <3> QED BY <2>1, <3>4
  <2>2. CASE ~(ids[k] < Len(g.atoms))
    <3>1. Adds(Sound, h, h, {}, {})
      BY DEF Adds
    <3> QED BY <2>2, <3>1
  <2> QED BY <2>1, <2>2
<1> DEFINE F == [k \in 1 .. n |-> [h \in Sound |-> (IF ids[k] < Len(g.atoms)
                                                    THEN AddAtom(h, g.atoms[ids[k] + 1]) ELSE h)]]
           Rec(c) == [p \in SUBSET (1 .. n) |-> IF p = {} THEN EmptyGroup
                        ELSE (IF ids[Max(p)] < Len(g.atoms)
                              THEN AddAtom(c[p \ {Max(p)}],
                                           g.atoms[ids[Max(p)] + 1]) ELSE c[p \ {Max(p)}])]
           M == [k \in 1 .. n |-> (IF ids[k] < Len(g.atoms) THEN {g.atoms[ids[k] + 1]} ELSE {})]
           P == [k \in 1 .. n |-> {}]
<1>4. \A k \in 1 .. n, h \in Sound : F[k][h] = (IF ids[k] < Len(g.atoms)
                                                THEN AddAtom(h, g.atoms[ids[k] + 1]) ELSE h)
  OBVIOUS
<1>5. StepsAdd(n, Sound, F, M, P) /\ Closed(n, Sound, F)
  <2>1. StepsAdd(n, Sound, F, M, P)
    BY <1>3, <1>4 DEF StepsAdd
  <2> QED BY <1>1, <2>1, StepsAddClosed
<1> HIDE DEF F
<1>6. \E w : w = Rec(w)
  <2>1. PICK w : IsFold(n, Sound, EmptyGroup, F, w)
    <3> HIDE DEF Rec
    <3> QED BY <1>1, <1>5, FoldExists
  <2>2. \A p \in SUBSET (1 .. n) : p # {} =>
          F[Max(p)][w[p \ {Max(p)}]] = (IF ids[Max(p)] < Len(g.atoms)
                                        THEN AddAtom(w[p \ {Max(p)}],
                                                     g.atoms[ids[Max(p)] + 1]) ELSE w[p \ {Max(p)}])
    BY <1>1, <1>4, <2>1, MaxFacts DEF IsFold
  <2>3. w = Rec(w)
    BY <2>1, <2>2 DEF IsFold
  <2> HIDE DEF Rec
  <2> QED BY <2>3
<1>7. PICK c : c = Rec(c) /\ SubGroup(d, g) = c[1 .. n]
  <2>1. SubGroup(d, g) = (CHOOSE c : c = Rec(c))[1 .. n]
    BY <1>1 DEF SubGroup, FoldLeft, MapThenFoldSet
  <2> HIDE DEF Rec
  <2> QED BY <1>6, <2>1
<1>8. Unfolds(n, Sound, EmptyGroup, F, c)
  <2>1. c[{}] = EmptyGroup
    BY <1>7
  <2>2. ASSUME NEW p \in SUBSET (1 .. n), p # {}, c[p \ {Max(p)}] \in Sound
        PROVE  c[p] = F[Max(p)][c[p \ {Max(p)}]]
    <3>1. c[p] = (IF ids[Max(p)] < Len(g.atoms)
                  THEN AddAtom(c[p \ {Max(p)}], g.atoms[ids[Max(p)] + 1]) ELSE c[p \ {Max(p)}])
      BY <1>7, <2>2
    <3>2. Max(p) \in 1 .. n
      BY <1>1, <2>2, MaxFacts
    <3> HIDE DEF Rec
    <3> QED BY <1>4, <2>2, <3>1, <3>2
  <2> HIDE DEF Rec
  <2> QED BY <2>1, <2>2 DEF Unfolds
<1> HIDE DEF Rec
<1>9. Adds(Sound, SubGroup(d, g), EmptyGroup, UnionTo(n, M), UnionTo(n, P))
  <2> HIDE DEF M, P
  <2> QED BY <1>1, <1>5, <1>7, <1>8, AddsFold
<1>10. UnionTo(n, M) = {g.atoms[i + 1] : i \in {k \in ToSet(ids) : k < Len(g.atoms)}}
  BY <1>1, <1>2, SMTT(30) DEF UnionTo, PairsOf
<1>11. UnionTo(n, P) = {}
  BY <1>1, <1>2 DEF UnionTo, PairsOf
<1> QED BY <1>9, <1>10, <1>11

(* The position of a nearest atom.                                         *)
LEMMA NearestFacts ==
  ASSUME NEW bonds, NEW x, NEW atoms \in Seq(Atoms),
         \A j \in 1 .. Len(atoms) : bonds[x][atoms[j]] \in Nat
  PROVE  LET k == Nearest(bonds, x, atoms)
         IN  /\ k \in 0 .. Len(atoms) /\ (k = 0 <=> atoms = <<>>)
             /\ k # 0 => \A j \in 1 .. Len(atoms) : bonds[x][atoms[k]] <= bonds[x][atoms[j]]
<1> DEFINE n == Len(atoms)
           idx == [i \in DOMAIN atoms |-> i]
           W == 0 .. n
<1>1. n \in Nat /\ DOMAIN atoms = 1 .. n /\ DOMAIN idx = 1 .. n /\ 0 \in W
  OBVIOUS
<1>2. \A k \in 1 .. n : idx[k] = k
  OBVIOUS
<1> HIDE DEF n, idx
<1>3. \A k \in 1 .. n, h \in W : Nearer(bonds, x, atoms, h, idx[k]) \in W
  BY <1>1, <1>2 DEF Nearer
<1> HIDE DEF W
<1> DEFINE F == [k \in 1 .. n |-> [h \in W |-> Nearer(bonds, x, atoms, h, idx[k])]]
           Rec(c) == [p \in SUBSET (1 .. n) |-> IF p = {} THEN 0
                        ELSE Nearer(bonds, x, atoms, c[p \ {Max(p)}], idx[Max(p)])]
<1>4. \A k \in 1 .. n, h \in W : F[k][h] = Nearer(bonds, x, atoms, h, idx[k])
  OBVIOUS
<1>5. Closed(n, W, F)
  BY <1>3, <1>4 DEF Closed
<1> HIDE DEF F
<1>6. \E w : w = Rec(w)
  <2>1. PICK w : IsFold(n, W, 0, F, w)
    <3> HIDE DEF Rec
    <3> QED BY <1>1, <1>5, FoldExists
  <2>2. \A p \in SUBSET (1 .. n) : p # {} =>
          F[Max(p)][w[p \ {Max(p)}]] = Nearer(bonds, x, atoms, w[p \ {Max(p)}], idx[Max(p)])
    BY <1>1, <1>4, <2>1, MaxFacts DEF IsFold
  <2>3. w = Rec(w)
    BY <2>1, <2>2 DEF IsFold
  <2> HIDE DEF Rec
  <2> QED BY <2>3
<1>7. PICK c : c = Rec(c) /\ Nearest(bonds, x, atoms) = c[1 .. n]
  <2>1. Nearest(bonds, x, atoms) = (CHOOSE c : c = Rec(c))[1 .. n]
    BY <1>1 DEF Nearest, Nearer, FoldLeftDomain, idx, FoldLeft, MapThenFoldSet
  <2> HIDE DEF Rec
  <2> QED BY <1>6, <2>1
<1>8. Unfolds(n, W, 0, F, c)
  <2>1. c[{}] = 0
    BY <1>7
  <2>2. ASSUME NEW p \in SUBSET (1 .. n), p # {}, c[p \ {Max(p)}] \in W
        PROVE  c[p] = F[Max(p)][c[p \ {Max(p)}]]
    <3>1. c[p] = Nearer(bonds, x, atoms, c[p \ {Max(p)}], idx[Max(p)])
      BY <1>7, <2>2
    <3>2. Max(p) \in 1 .. n
      BY <1>1, <2>2, MaxFacts
    <3> HIDE DEF Rec
    <3> QED BY <1>4, <2>2, <3>1, <3>2
  <2> HIDE DEF Rec
  <2> QED BY <2>1, <2>2 DEF Unfolds
<1> HIDE DEF Rec
<1>9. PICK r : IsRun(n, W, 0, F, r) /\ c[1 .. n] = r[n]
  BY <1>1, <1>5, <1>8, FoldRuns
<1> DEFINE T == {k \in 0 .. n :
                   /\ r[k] \in 0 .. n /\ (r[k] = 0 <=> k = 0)
                   /\ r[k] # 0 => \A j \in 1 .. k : bonds[x][atoms[r[k]]] <= bonds[x][atoms[j]]}
<1>10. 0 \in T
  BY <1>1, <1>9 DEF IsRun, W
<1>11. ASSUME NEW k \in 1 .. n, k - 1 \in T
       PROVE  k \in T
  <2> DEFINE h == r[k - 1]
  <2>1. h \in 0 .. n /\ r[k] = Nearer(bonds, x, atoms, h, k) /\ k \in 0 .. n
    <3>1. k - 1 \in 0 .. n /\ k \in 0 .. n
      BY <1>1
    <3>2. h \in W /\ r[k] = F[k][h]
      BY <1>9, <3>1 DEF IsRun
    <3> HIDE DEF h
    <3>3. r[k] = Nearer(bonds, x, atoms, h, k)
      BY <1>2, <1>4, <3>2
    <3> QED BY <3>1, <3>2, <3>3 DEF W
  <2>2. (h = 0 <=> k - 1 = 0)
        /\ (h # 0 => \A j \in 1 .. k - 1 : bonds[x][atoms[h]] <= bonds[x][atoms[j]])
    BY <1>11
  <2> HIDE DEF h
  <2> DEFINE D(j) == bonds[x][atoms[j]]
  <2>3. \A j \in 1 .. n : D(j) \in Nat
    BY DEF n
  <2>4. \A j \in 1 .. k : j \in 1 .. n /\ (j = k \/ j \in 1 .. k - 1)
    BY <1>1
  <2>5. r[k] = IF h = 0 \/ D(k) < D(h) THEN k ELSE h
    BY <2>1 DEF Nearer
  <2>6. h # 0 => h \in 1 .. n /\ \A j \in 1 .. k - 1 : D(h) <= D(j)
    BY <1>1, <2>1, <2>2
  <2> HIDE DEF D
  <2>7. \A j \in 1 .. k : D(r[k]) <= D(j)
    <3>1. CASE h = 0
      <4>1. r[k] = k /\ 1 .. k = {k}
        BY <2>2, <2>5, <3>1
      <4> QED BY <2>3, <4>1
    <3>2. CASE h # 0 /\ D(k) < D(h)
      BY <2>3, <2>4, <2>5, <2>6, <3>2
    <3>3. CASE h # 0 /\ ~(D(k) < D(h))
      <4>1. r[k] = h /\ D(h) <= D(k)
        BY <2>3, <2>5, <2>6, <3>3
      <4> QED BY <2>3, <2>4, <2>6, <3>3, <4>1
    <3> QED BY <3>1, <3>2, <3>3
  <2>8. r[k] \in 0 .. n /\ r[k] # 0
    BY <1>1, <2>1, <2>5
  <2> QED BY <1>1, <2>1, <2>7, <2>8 DEF D
<1>12. n \in T
  <2>1. n \in 0 .. n
    BY <1>1
  <2> HIDE DEF T
  <2> QED BY <1>1, <1>10, <1>11, <2>1, Everywhere
<1>13. Nearest(bonds, x, atoms) = r[n]
  BY <1>7, <1>9
<1>14. n = 0 <=> atoms = <<>>
  BY DEF n
<1> QED BY <1>12, <1>13, <1>14 DEF n

(* The nearest atom, if there is one.                                      *)
NearestTo(bonds, x, to) ==
  LET k == Nearest(bonds, x, to.atoms) IN IF k = 0 THEN {} ELSE {to.atoms[k]}

(* There is a nearest atom unless there is none to choose from.            *)
LEMMA NearestToFacts ==
  ASSUME NEW bonds, NEW x \in Atoms, NEW to \in Sound, \A a, b \in Atoms : bonds[a][b] \in Nat
  PROVE  /\ Nearest(bonds, x, to.atoms) = 0 <=> MembersOf(to) = {}
         /\ Nearest(bonds, x, to.atoms) # 0 =>
              /\ to.atoms[Nearest(bonds, x, to.atoms)] \in MembersOf(to)
              /\ to.atoms[Nearest(bonds, x, to.atoms)] \in Atoms
              /\ \A b \in MembersOf(to) : bonds[x][to.atoms[Nearest(bonds, x,
                                                                    to.atoms)]] <= bonds[x][b]
<1> DEFINE atoms == to.atoms
           k == Nearest(bonds, x, atoms)
<1>1. atoms \in Lists /\ MembersOf(to) = {atoms[i] : i \in 1 .. Len(atoms)}
  BY TablesFacts DEF Sound
<1>2. atoms \in Seq(Atoms) /\ \A i \in 1 .. Len(atoms) : atoms[i] \in Atoms
  BY <1>1, ListFacts
<1>3. \A j \in 1 .. Len(atoms) : bonds[x][atoms[j]] \in Nat
  BY <1>2
<1> HIDE DEF atoms
<1>4. /\ k \in 0 .. Len(atoms) /\ (k = 0 <=> atoms = <<>>)
      /\ k # 0 => \A j \in 1 .. Len(atoms) : bonds[x][atoms[k]] <= bonds[x][atoms[j]]
  BY <1>2, <1>3, NearestFacts
<1>5. atoms = <<>> <=> MembersOf(to) = {}
  <2>1. atoms = <<>> <=> 1 .. Len(atoms) = {}
    BY <1>2
  <2> QED BY <1>1, <2>1
<1> HIDE DEF k
<1>6. k # 0 => k \in 1 .. Len(atoms)
  BY <1>2, <1>4
<1> QED BY <1>1, <1>2, <1>4, <1>5, <1>6 DEF atoms, k

(* FINDSHORTEST: the nearest atoms, with those they are nearest to.        *)
LEMMA FindShortestAdds ==
  ASSUME NEW bonds, NEW g \in Sound, NEW to \in Sound, \A a, b \in Atoms : bonds[a][b] \in Nat
  PROVE  Adds(Sound, FindShortest(bonds, g, to), EmptyGroup,
              UNION {NearestTo(bonds, a, to) : a \in MembersOf(g)},
              UNION {{<<b, a>> : b \in NearestTo(bonds, a, to)} : a \in MembersOf(g)})
<1> DEFINE n == Len(g.atoms)
<1>1. n \in Nat /\ DOMAIN g.atoms = 1 .. n /\ EmptyGroup \in Sound
  <2>1. g \in Tables
    BY DEF Sound
  <2>2. g.atoms \in Lists
    BY <2>1, TablesFacts
  <2> QED BY <2>2, ListFacts, EmptyGroupFacts
<1>2. ToSet(g.atoms) = {g.atoms[k] : k \in 1 .. n}
  BY <1>1 DEF ToSet
<1> HIDE DEF n
<1>3. ASSUME NEW k \in 1 .. n, NEW h \in Sound
      PROVE  Adds(Sound, WithNearest(bonds, to, h, g.atoms[k]), h,
                  NearestTo(bonds, g.atoms[k], to),
                  {<<b, g.atoms[k]>> : b \in NearestTo(bonds, g.atoms[k], to)})
  <2>1. g.atoms[k] \in Atoms /\ g.atoms[k] \in MembersOf(g)
    BY <1>1, <1>2, TablesFacts, ListFacts DEF MembersOf, Sound
  <2> DEFINE a == g.atoms[k]
             i == Nearest(bonds, a, to.atoms)
  <2>2. i = 0 \/ to.atoms[i] \in Atoms
    BY <2>1, NearestToFacts
  <2>3. CASE i = 0
    <3>1. WithNearest(bonds, to, h, a) = h /\ NearestTo(bonds, a, to) = {}
      BY <2>3 DEF WithNearest, NearestTo
    <3>2. {<<b, a>> : b \in NearestTo(bonds, a, to)} = {}
      BY <3>1
    <3>3. Adds(Sound, h, h, {}, {})
      BY DEF Adds
    <3> HIDE DEF a
    <3>4. Adds(Sound, WithNearest(bonds, to, h, a), h, NearestTo(bonds, a, to),
               {<<b, a>> : b \in NearestTo(bonds, a, to)})
      BY <3>1, <3>2, <3>3
    <3> QED BY <3>4 DEF a
  <2>4. CASE i # 0
    <3>1. Adds(Sound, AddPair(h, to.atoms[i], a), h, {to.atoms[i]}, {<<to.atoms[i], a>>})
      BY <2>1, <2>2, <2>4, AddPairAdds
    <3>2. NearestTo(bonds, a, to) = {to.atoms[i]}
      BY <2>4 DEF NearestTo
    <3>3. {<<b, a>> : b \in NearestTo(bonds, a, to)} = {<<to.atoms[i], a>>}
      BY <3>2
    <3>4. WithNearest(bonds, to, h, a) = AddPair(h, to.atoms[i], a)
      BY <2>4 DEF WithNearest
    <3> HIDE DEF a, i
    <3>5. Adds(Sound, WithNearest(bonds, to, h, a), h, NearestTo(bonds, a, to),
               {<<b, a>> : b \in NearestTo(bonds, a, to)})
      BY <3>1, <3>2, <3>3, <3>4
    <3> QED BY <3>5 DEF a
  <2> QED BY <2>3, <2>4
<1> DEFINE F == [k \in 1 .. n |-> [h \in Sound |-> WithNearest(bonds, to, h, g.atoms[k])]]
           Rec(c) == [p \in SUBSET (1 .. n) |-> IF p = {} THEN EmptyGroup
                        ELSE WithNearest(bonds, to, c[p \ {Max(p)}], g.atoms[Max(p)])]
           M == [k \in 1 .. n |-> NearestTo(bonds, g.atoms[k], to)]
           P == [k \in 1 .. n |-> {<<b, g.atoms[k]>> : b \in NearestTo(bonds, g.atoms[k], to)}]
<1>4. \A k \in 1 .. n, h \in Sound : F[k][h] = WithNearest(bonds, to, h, g.atoms[k])
  OBVIOUS
<1>5. StepsAdd(n, Sound, F, M, P) /\ Closed(n, Sound, F)
  <2>1. StepsAdd(n, Sound, F, M, P)
    BY <1>3, <1>4 DEF StepsAdd
  <2> QED BY <1>1, <2>1, StepsAddClosed
<1> HIDE DEF F
<1>6. \E w : w = Rec(w)
  <2>1. PICK w : IsFold(n, Sound, EmptyGroup, F, w)
    <3> HIDE DEF Rec
    <3> QED BY <1>1, <1>5, FoldExists
  <2>2. \A p \in SUBSET (1 .. n) : p # {} =>
          F[Max(p)][w[p \ {Max(p)}]] = WithNearest(bonds, to, w[p \ {Max(p)}], g.atoms[Max(p)])
    BY <1>1, <1>4, <2>1, MaxFacts DEF IsFold
  <2>3. w = Rec(w)
    BY <2>1, <2>2 DEF IsFold
  <2> HIDE DEF Rec
  <2> QED BY <2>3
<1>7. PICK c : c = Rec(c) /\ FindShortest(bonds, g, to) = c[1 .. n]
  <2>1. FindShortest(bonds, g, to) = (CHOOSE c : c = Rec(c))[1 .. n]
    BY <1>1 DEF FindShortest, WithNearest, FoldLeft, MapThenFoldSet
  <2> HIDE DEF Rec
  <2> QED BY <1>6, <2>1
<1>8. Unfolds(n, Sound, EmptyGroup, F, c)
  <2>1. c[{}] = EmptyGroup
    BY <1>7
  <2>2. ASSUME NEW p \in SUBSET (1 .. n), p # {}, c[p \ {Max(p)}] \in Sound
        PROVE  c[p] = F[Max(p)][c[p \ {Max(p)}]]
    <3>1. c[p] = WithNearest(bonds, to, c[p \ {Max(p)}], g.atoms[Max(p)])
      BY <1>7, <2>2
    <3>2. Max(p) \in 1 .. n
      BY <1>1, <2>2, MaxFacts
    <3> HIDE DEF Rec
    <3> QED BY <1>4, <2>2, <3>1, <3>2
  <2> HIDE DEF Rec
  <2> QED BY <2>1, <2>2 DEF Unfolds
<1> HIDE DEF Rec
<1>9. Adds(Sound, FindShortest(bonds, g, to), EmptyGroup, UnionTo(n, M), UnionTo(n, P))
  <2> HIDE DEF M, P
  <2> QED BY <1>1, <1>5, <1>7, <1>8, AddsFold
<1>10. UnionTo(n, M) = UNION {NearestTo(bonds, a, to) : a \in MembersOf(g)}
  <2>1. {g.atoms[k] : k \in 1 .. n} = MembersOf(g)
    BY <1>2 DEF MembersOf
  <2>2. UnionTo(n, M) = UNION {NearestTo(bonds, a, to) : a \in MembersOf(g)}
    BY <2>1 DEF UnionTo
  <2> QED BY <2>2
<1>11. UnionTo(n, P) = UNION {{<<b, a>> : b \in NearestTo(bonds, a, to)} : a \in MembersOf(g)}
  <2>1. {g.atoms[k] : k \in 1 .. n} = MembersOf(g)
    BY <1>2 DEF MembersOf
  <2>2. UnionTo(n, P) = UNION {{<<b, a>> : b \in NearestTo(bonds, a, to)} : a \in MembersOf(g)}
    BY <2>1 DEF UnionTo
  <2> QED BY <2>2
<1> QED BY <1>9, <1>10, <1>11

(* copyCoordination leaves a sound group, with a copy of the row.          *)
LEMMA CopyAdds ==
  ASSUME NEW g \in Sound, NEW a \in Atoms, NEW h \in Sound, a \in MembersOf(h)
  PROVE  /\ CopyCoordination(AddAtom(g, a), a, h) \in Sound
         /\ a \notin MembersOf(g) => Adds(Sound, CopyCoordination(AddAtom(g, a), a, h), g, {a},
                                          PairsOf(a, ToSet(TableOf(h, a))))
<1> DEFINE k == AddAtom(g, a)
           row == TableOf(h, a)
           t == [k EXCEPT !.table[MemberId(k, a)] = row]
           l == SetCoordinationNumber(t, a, NumberOf(h, a))
<1>1. Adds(Sound, k, g, {a}, {})
  BY AddAtomAdds
<1>2. row \in Lists /\ NumberOf(h, a) = Len(row) /\ Len(row) \in Nat
  BY MemberIdFacts, SoundByMembers, ListFacts DEF Sound
<1>3. g \in Tables /\ k \in Sound /\ k \in Tables /\ a \in MembersOf(k)
      /\ MembersOf(k) = MembersOf(g) \cup {a} /\ Pairs(k) = Pairs(g)
  BY <1>1 DEF Adds, Sound
<1>4. a \notin MembersOf(g) => TableOf(k, a) = <<>>
  BY <1>3, AddAtomFacts
<1> HIDE DEF k, row
<1>5. /\ t \in Tables /\ MembersOf(t) = MembersOf(k)
      /\ \A b \in MembersOf(k) :
           TableOf(t, b) = (IF b = a THEN row ELSE TableOf(k, b)) /\ NumberOf(t, b) = NumberOf(k, b)
  BY <1>2, <1>3, SetTableFacts
<1> HIDE DEF t
<1>6. \A c \in MembersOf(t) \ {a} : NumberOf(t, c) = Len(TableOf(t, c))
  BY <1>3, <1>5, SoundByMembers
<1>7. /\ Adds(Numbered(a, Len(row)), l, t, {}, {})
      /\ TableOf(l, a) = TableOf(t, a)
  BY <1>2, <1>3, <1>5, <1>6, SetNumberNumbered
<1> HIDE DEF l
<1>8. l \in Sound
  <2>1. l \in Numbered(a, Len(row)) /\ TableOf(l, a) = row
    BY <1>3, <1>5, <1>7 DEF Adds
  <2> QED BY <2>1, NumberedFacts
<1>9. l = CopyCoordination(AddAtom(g, a), a, h)
  BY DEF l, t, row, k, CopyCoordination, IsMember
<1>10. ASSUME a \notin MembersOf(g)
       PROVE  Adds(Sound, l, g, {a}, PairsOf(a, ToSet(row)))
  <2>1. PairsOf(a, ToSet(TableOf(k, a))) = {}
    BY <1>4, <1>10, EmptyList DEF PairsOf
  <2>2. ASSUME NEW p, NEW c
        PROVE  (c \in MembersOf(t) /\ p \in PairsOf(c, ToSet(TableOf(t, c)))) <=>
               \/ c \in MembersOf(k) /\ p \in PairsOf(c, ToSet(TableOf(k, c)))
               \/ c = a /\ p \in PairsOf(a, ToSet(row))
    <3>1. CASE c = a
      BY <1>3, <1>5, <2>1, <3>1
    <3>2. CASE c # a
      BY <1>5, <3>2
    <3> QED BY <3>1, <3>2
  <2>3. \A p : p \in Pairs(t) <=> p \in Pairs(k) \/ p \in PairsOf(a, ToSet(row))
    BY <1>3, <1>5, <2>2, InPairs
  <2>4. Pairs(t) = Pairs(g) \cup PairsOf(a, ToSet(row))
    BY <1>3, <2>3
  <2>5. MembersOf(l) = MembersOf(t)
    BY <1>7 DEF Adds
  <2>6. Pairs(l) = Pairs(t)
    BY <1>7 DEF Adds
  <2>7. MembersOf(l) = MembersOf(g) \cup {a}
    BY <1>3, <1>5, <2>5
  <2> QED BY <1>8, <2>4, <2>6, <2>7 DEF Adds
<1> QED BY <1>8, <1>9, <1>10 DEF row

(* What is added to the empty group is all there is.                       *)
LEMMA AddsToEmpty ==
  ASSUME NEW V, NEW h, NEW m, NEW p, Adds(V, h, EmptyGroup, m, p)
  PROVE  h \in V /\ MembersOf(h) = m /\ Pairs(h) = p
<1>1. MembersOf(EmptyGroup) = {}
  BY EmptyGroupFacts
<1>2. Pairs(EmptyGroup) = {}
  BY <1>1, PairsFacts, EmptyGroupFacts
<1>3. MembersOf(h) = m
  BY <1>1 DEF Adds
<1>4. Pairs(h) = p
  BY <1>2 DEF Adds
<1> QED BY <1>3, <1>4 DEF Adds

(* DIFF, INTERSECTION and SUBGROUPCN: the selected members, with the rows  *)
(* they have in the first group.                                           *)
LEMMA SelectedAdds ==
  ASSUME NEW first \in Sound, NEW S
  PROVE  Adds(Sound, Selected(first, S), EmptyGroup, MembersOf(first) \cap S,
              UNION {PairsOf(a, ToSet(TableOf(first, a))) : a \in MembersOf(first) \cap S})
<1> DEFINE n == Len(first.atoms)
<1>1. n \in Nat /\ DOMAIN first.atoms = 1 .. n /\ EmptyGroup \in Sound /\ EmptyGroup \in Sound
      /\ \A k \in 1 .. n : /\ first.atoms[k] \in Atoms /\ first.atoms[k] \in MembersOf(first)
                         /\ \A j \in 1 .. k - 1 : j \in 1 .. n /\ first.atoms[j] # first.atoms[k]
  <2>1. first \in Tables
    BY DEF Sound
  <2>2. first.atoms \in Lists
    BY <2>1, TablesFacts
  <2>3. n \in Nat /\ DOMAIN first.atoms = 1 .. n /\ \A i,
        j \in 1 .. n : first.atoms[i] = first.atoms[j] => i = j
    BY <2>2, ListFacts
  <2>4. \A k \in 1 .. n : first.atoms[k] \in Atoms /\ first.atoms[k] \in MembersOf(first)
    BY <2>2, ListFacts DEF MembersOf
  <2> HIDE DEF n
  <2>5. \A k \in 1 .. n : \A j \in 1 .. k - 1 : j \in 1 .. n /\ first.atoms[j] # first.atoms[k]
    BY <2>3
  <2> QED BY <2>3, <2>4, <2>5, EmptyGroupFacts
<1>2. ToSet(first.atoms) = {first.atoms[k] : k \in 1 .. n}
  BY <1>1 DEF ToSet
<1> HIDE DEF n
<1>3. \A k \in 1 .. n, h \in Sound : (IF first.atoms[k] \in S
                                      THEN CopyCoordination(AddAtom(h, first.atoms[k]),
                                                            first.atoms[k], first) ELSE h) \in Sound
  BY <1>1, CopyAdds
<1> DEFINE F == [k \in 1 .. n |-> [h \in Sound |-> (IF first.atoms[k] \in S
                                                    THEN CopyCoordination(AddAtom(h,
                                                                                  first.atoms[k]),
                                                                                  first.atoms[k],
                                                                                  first) ELSE h)]]
           Rec(c) == [p \in SUBSET (1 .. n) |-> IF p = {} THEN EmptyGroup
                        ELSE (IF first.atoms[Max(p)] \in S
                              THEN CopyCoordination(AddAtom(c[p \ {Max(p)}], first.atoms[Max(p)]),
                                                    first.atoms[Max(p)],
                                                    first) ELSE c[p \ {Max(p)}])]
           M == [k \in 1 .. n |-> (IF first.atoms[k] \in S THEN {first.atoms[k]} ELSE {})]
           P == [k \in 1 .. n |-> (IF first.atoms[k] \in S
                                   THEN PairsOf(first.atoms[k],
                                                ToSet(TableOf(first, first.atoms[k]))) ELSE {})]
<1>4. \A k \in 1 .. n, h \in Sound : F[k][h] = (IF first.atoms[k] \in S
                                                THEN CopyCoordination(AddAtom(h, first.atoms[k]),
                                                                      first.atoms[k], first) ELSE h)
  OBVIOUS
<1>5. Closed(n, Sound, F)
  BY <1>3, <1>4 DEF Closed
<1> HIDE DEF F
<1>6. \E w : w = Rec(w)
  <2>1. PICK w : IsFold(n, Sound, EmptyGroup, F, w)
    <3> HIDE DEF Rec
    <3> QED BY <1>1, <1>5, FoldExists
  <2>2. \A p \in SUBSET (1 .. n) : p # {} =>
          F[Max(p)][w[p \ {Max(p)}]] = (IF first.atoms[Max(p)] \in S
                                        THEN CopyCoordination(AddAtom(w[p \ {Max(p)}],
                                                                      first.atoms[Max(p)]),
                                                                      first.atoms[Max(p)],
                                                                      first) ELSE w[p \ {Max(p)}])
    BY <1>1, <1>4, <2>1, MaxFacts DEF IsFold
  <2>3. w = Rec(w)
    BY <2>1, <2>2 DEF IsFold
  <2> HIDE DEF Rec
  <2> QED BY <2>3
<1>7. PICK c : c = Rec(c) /\ Selected(first, S) = c[1 .. n]
  <2>1. Selected(first, S) = (CHOOSE c : c = Rec(c))[1 .. n]
    BY <1>1 DEF Selected, FoldLeft, MapThenFoldSet
  <2> HIDE DEF Rec
  <2> QED BY <1>6, <2>1
<1>8. Unfolds(n, Sound, EmptyGroup, F, c)
  <2>1. c[{}] = EmptyGroup
    BY <1>7
  <2>2. ASSUME NEW p \in SUBSET (1 .. n), p # {}, c[p \ {Max(p)}] \in Sound
        PROVE  c[p] = F[Max(p)][c[p \ {Max(p)}]]
    <3>1. c[p] = (IF first.atoms[Max(p)] \in S THEN CopyCoordination(AddAtom(c[p \ {Max(p)}],
                                                                             first.atoms[Max(p)]),
                                                                             first.atoms[Max(p)],
                                                                             first) ELSE c[p \ {Max(p)}])
      BY <1>7, <2>2
    <3>2. Max(p) \in 1 .. n
      BY <1>1, <2>2, MaxFacts
    <3> HIDE DEF Rec
    <3> QED BY <1>4, <2>2, <3>1, <3>2
  <2> HIDE DEF Rec
  <2> QED BY <2>1, <2>2 DEF Unfolds
<1> HIDE DEF Rec
<1>9. AddsInTurn(n, Sound, Sound, EmptyGroup, F, M, P)
  <2> SUFFICES ASSUME NEW k \in 1 .. n, NEW h \in Sound,
                      Adds(Sound, h, EmptyGroup, UnionTo(k - 1, M), UnionTo(k - 1, P))
               PROVE  Adds(Sound, F[k][h], h, M[k], P[k])
    BY DEF AddsInTurn
  <2>1. h \in Sound /\ MembersOf(h) = UnionTo(k - 1, M) /\ Pairs(h) = UnionTo(k - 1, P)
    BY AddsToEmpty
  <2>2. \A j \in 1 .. k - 1 : j \in 1 .. n /\ first.atoms[j] # first.atoms[k]
    BY <1>1
  <2> DEFINE a == first.atoms[k]
  <2>3. a \in Atoms /\ a \in MembersOf(first)
    BY <1>1
  <2>4. F[k][h] = IF a \in S THEN CopyCoordination(AddAtom(h, a), a, first) ELSE h
    BY <1>4
  <2>5. M[k] = (IF a \in S THEN {a} ELSE {})
    OBVIOUS
  <2>6. P[k] = (IF a \in S THEN PairsOf(a, ToSet(TableOf(first, a))) ELSE {})
    OBVIOUS
  <2>7. a \notin MembersOf(h)
    <3>1. \A j \in 1 .. k - 1 : M[j] \subseteq {first.atoms[j]}
      BY <2>2
    <3> HIDE DEF M
    <3> QED BY <2>1, <2>2, <3>1 DEF UnionTo
  <2> HIDE DEF a, M, P
  <2>8. CASE a \in S
    <3>1. Adds(Sound, CopyCoordination(AddAtom(h, a), a, first), h, {a},
               PairsOf(a, ToSet(TableOf(first, a))))
      BY <2>1, <2>3, <2>7, CopyAdds
    <3> QED BY <2>4, <2>5, <2>6, <2>8, <3>1
  <2>9. CASE a \notin S
    <3>1. Adds(Sound, h, h, {}, {})
      BY <2>1 DEF Adds
    <3> QED BY <2>4, <2>5, <2>6, <2>9, <3>1
  <2> QED BY <2>8, <2>9
<1>10. Adds(Sound, Selected(first, S), EmptyGroup, UnionTo(n, M), UnionTo(n, P))
  <2> HIDE DEF M, P
  <2> QED BY <1>1, <1>5, <1>7, <1>8, <1>9, AddsFoldInTurn
<1>11. UnionTo(n, M) = MembersOf(first) \cap S
  <2>1. {first.atoms[k] : k \in 1 .. n} = MembersOf(first)
    BY <1>2 DEF MembersOf
  <2>2. UnionTo(n, M) = UNION {(IF a \in S THEN {a} ELSE {}) : a \in MembersOf(first)}
    BY <2>1 DEF UnionTo
  <2> QED BY <2>2
<1>12. UnionTo(n, P) = UNION {PairsOf(a, ToSet(TableOf(first, a))) : a \in MembersOf(first) \cap S}
  <2>1. {first.atoms[k] : k \in 1 .. n} = MembersOf(first)
    BY <1>2 DEF MembersOf
  <2>2. UnionTo(n, P) =
          UNION {(IF a \in S THEN PairsOf(a, ToSet(TableOf(first, a)))
                  ELSE {}) : a \in MembersOf(first)}
    BY <2>1 DEF UnionTo
  <2> QED BY <2>2
<1> QED BY <1>10, <1>11, <1>12

(* The bonds of one from-atom.                                             *)
Bare(g, a, bs) == SetCoordinationNumber(AddAtom(g, a), a, Len(bs))

(* BOND: a from-atom gets its number before its row.                       *)
LEMMA BareAdds ==
  ASSUME NEW g \in Tables, NEW a \in Atoms, NEW bs \in Seq(Atoms)
  PROVE  /\ Bare(g, a, bs) \in Tables /\ a \in MembersOf(Bare(g, a, bs))
         /\ g \in Sound => Adds(Numbered(a, Len(bs)), Bare(g, a, bs), g, {a}, {})
<1> DEFINE k == AddAtom(g, a)
<1>1. k \in Tables /\ a \in MembersOf(k) /\ Len(bs) \in Nat
  BY AddAtomFacts
<1>2. ASSUME g \in Sound
      PROVE  Adds(Numbered(a, Len(bs)), Bare(g, a, bs), g, {a}, {})
  <2>1. Adds(Sound, k, g, {a}, {})
    BY <1>2, AddAtomAdds
  <2>2. k \in Sound
    BY <2>1 DEF Adds
  <2> HIDE DEF k
  <2>3. \A c \in MembersOf(k) \ {a} : NumberOf(k, c) = Len(TableOf(k, c))
    BY <1>1, <2>2, SoundByMembers
  <2>4. Adds(Numbered(a, Len(bs)), SetCoordinationNumber(k, a, Len(bs)), k, {}, {})
    BY <1>1, <2>3, SetNumberNumbered
  <2>5. Adds(Numbered(a, Len(bs)), SetCoordinationNumber(k, a, Len(bs)), g, {a} \cup {}, {} \cup {})
    BY <2>1, <2>4, AddsTwice
  <2>6. {a} \cup {} = {a} /\ {} \cup {} = {}
    OBVIOUS
  <2>7. Adds(Numbered(a, Len(bs)), SetCoordinationNumber(k, a, Len(bs)), g, {a}, {})
    BY <2>5, <2>6
  <2> QED BY <2>7 DEF Bare, k
<1>3. Bare(g, a, bs) \in Tables /\ a \in MembersOf(Bare(g, a, bs))
  <2> HIDE DEF k
  <2> QED BY <1>1, SetCoordinationNumberFacts DEF Bare, k
<1> QED BY <1>2, <1>3

(* Tables with a as a member.                                              *)
Holding(a) == {g \in Tables : a \in MembersOf(g)}

(* BOND: one to-atom leaves the from-atom a member.                        *)
LEMMA WithBondHolding ==
  ASSUME NEW d, NEW a, NEW g \in Holding(a), NEW b \in Atoms
  PROVE  WithBond(d, g, a, b) \in Holding(a)
<1> DEFINE k == AddToCoordinationTable(g, a, b, FALSE)
<1>1. k \in Tables /\ a \in MembersOf(k)
  BY AddToTableNoAutoset DEF Holding
<1> HIDE DEF k
<1>2. AddAtom(k, b) \in Tables /\ a \in MembersOf(AddAtom(k, b))
  BY <1>1, AddAtomFacts
<1> QED BY <1>1, <1>2 DEF WithBond, Holding, k

(* BOND: so do all to-atoms.                                               *)
LEMMA AddBondsHolding ==
  ASSUME NEW d, NEW g \in Tables, NEW a \in Atoms, NEW bs \in Seq(Atoms)
  PROVE  AddBonds(d, g, a, bs) \in Holding(a)
<1> DEFINE n == Len(bs)
<1>1. n \in Nat /\ DOMAIN bs = 1 .. n /\ Bare(g, a, bs) \in Holding(a)
  <2>1. Bare(g, a, bs) \in Holding(a)
    BY BareAdds DEF Holding
  <2> QED BY <2>1
<1> HIDE DEF n
<1>3. \A k \in 1 .. n, h \in Holding(a) : WithBond(d, h, a, bs[k]) \in Holding(a)
  <2>1. \A k \in 1 .. n : bs[k] \in Atoms
    BY DEF n
  <2> QED BY <2>1, WithBondHolding
<1> DEFINE F == [k \in 1 .. n |-> [h \in Holding(a) |-> WithBond(d, h, a, bs[k])]]
           Rec(c) == [p \in SUBSET (1 .. n) |-> IF p = {} THEN Bare(g, a, bs)
                        ELSE WithBond(d, c[p \ {Max(p)}], a, bs[Max(p)])]
<1>4. \A k \in 1 .. n, h \in Holding(a) : F[k][h] = WithBond(d, h, a, bs[k])
  OBVIOUS
<1>5. Closed(n, Holding(a), F)
  BY <1>3, <1>4 DEF Closed
<1> HIDE DEF F
<1>6. \E w : w = Rec(w)
  <2>1. PICK w : IsFold(n, Holding(a), Bare(g, a, bs), F, w)
    <3> HIDE DEF Rec
    <3> QED BY <1>1, <1>5, FoldExists
  <2>2. \A p \in SUBSET (1 .. n) : p # {} =>
          F[Max(p)][w[p \ {Max(p)}]] = WithBond(d, w[p \ {Max(p)}], a, bs[Max(p)])
    BY <1>1, <1>4, <2>1, MaxFacts DEF IsFold
  <2>3. w = Rec(w)
    BY <2>1, <2>2 DEF IsFold
  <2> HIDE DEF Rec
  <2> QED BY <2>3
<1>7. PICK c : c = Rec(c) /\ AddBonds(d, g, a, bs) = c[1 .. n]
  <2>1. AddBonds(d, g, a, bs) = (CHOOSE c : c = Rec(c))[1 .. n]
    BY <1>1 DEF AddBonds, WithBond, Bare, FoldLeft, MapThenFoldSet
  <2> HIDE DEF Rec
  <2> QED BY <1>6, <2>1
<1>8. Unfolds(n, Holding(a), Bare(g, a, bs), F, c)
  <2>1. c[{}] = Bare(g, a, bs)
    BY <1>7
  <2>2. ASSUME NEW p \in SUBSET (1 .. n), p # {}, c[p \ {Max(p)}] \in Holding(a)
        PROVE  c[p] = F[Max(p)][c[p \ {Max(p)}]]
    <3>1. c[p] = WithBond(d, c[p \ {Max(p)}], a, bs[Max(p)])
      BY <1>7, <2>2
    <3>2. Max(p) \in 1 .. n
      BY <1>1, <2>2, MaxFacts
    <3> HIDE DEF Rec
    <3> QED BY <1>4, <2>2, <3>1, <3>2
  <2> HIDE DEF Rec
  <2> QED BY <2>1, <2>2 DEF Unfolds
<1> HIDE DEF Rec
<1>9. PICK r : IsRun(n, Holding(a), Bare(g, a, bs), F, r) /\ c[1 .. n] = r[n]
  BY <1>1, <1>5, <1>8, FoldRuns
<1>10. r[n] \in Holding(a)
  <2>1. n \in 0 .. n
    BY <1>1
  <2> QED BY <1>9, <2>1 DEF IsRun
<1> QED BY <1>7, <1>9, <1>10

(* BOND: the to-atoms of a from-atom leave its number alone.               *)
LEMMA AddBondsNumbered ==
  ASSUME NEW d, NEW g \in Sound, NEW a \in Atoms, NEW bs \in Seq(Atoms), NEW v, v = Len(bs)
  PROVE  Adds(Numbered(a, v), AddBonds(d, g, a, bs), Bare(g, a, bs),
              (IF d.include THEN ToSet(bs) ELSE {}), PairsOf(a, ToSet(bs)))
<1> DEFINE n == Len(bs)
<1>1. n \in Nat /\ DOMAIN bs = 1 .. n /\ Bare(g, a, bs) \in Numbered(a, v)
  <2>1. Adds(Numbered(a, Len(bs)), Bare(g, a, bs), g, {a}, {})
    BY BareAdds DEF Sound
  <2>2. Bare(g, a, bs) \in Numbered(a, v)
    BY <2>1 DEF Adds
  <2> QED BY <2>2
<1>2. ToSet(bs) = {bs[k] : k \in 1 .. n}
  BY <1>1 DEF ToSet
<1> HIDE DEF n
<1>3. ASSUME NEW k \in 1 .. n, NEW h \in Numbered(a, v)
      PROVE  Adds(Numbered(a, v), WithBond(d, h, a, bs[k]), h,
                  ({} \cup (IF d.include THEN {bs[k]} ELSE {})), ({<<a, bs[k]>>} \cup {}))
  <2> DEFINE b == bs[k]
             l == AddToCoordinationTable(h, a, b, FALSE)
  <2>1. b \in Atoms
    BY <1>1
  <2>2. Adds(Numbered(a, v), l, h, {}, {<<a, b>>})
    BY <2>1, AddToTableNumbered
  <2>3. l \in Numbered(a, v)
    BY <2>2 DEF Adds
  <2> HIDE DEF l, b
  <2>4. Adds(Numbered(a, v), AddAtom(l, b), l, {b}, {})
    BY <2>1, <2>3, AddAtomNumbered
  <2>5. Adds(Numbered(a, v), l, l, {}, {})
    BY <2>3 DEF Adds
  <2>6. WithBond(d, h, a, b) = IF d.include THEN AddAtom(l, b) ELSE l
    BY DEF WithBond, l
  <2>7. Adds(Numbered(a, v), WithBond(d, h, a, b), l, (IF d.include THEN {b} ELSE {}), {})
    BY <2>4, <2>5, <2>6
  <2>8. Adds(Numbered(a, v), WithBond(d, h, a, b), h, {} \cup (IF d.include THEN {b} ELSE {}),
             {<<a, b>>} \cup {})
    BY <2>2, <2>7, AddsTwice
  <2> QED BY <2>8 DEF b
<1> DEFINE F == [k \in 1 .. n |-> [h \in Numbered(a, v) |-> WithBond(d, h, a, bs[k])]]
           Rec(c) == [p \in SUBSET (1 .. n) |-> IF p = {} THEN Bare(g, a, bs)
                        ELSE WithBond(d, c[p \ {Max(p)}], a, bs[Max(p)])]
           M == [k \in 1 .. n |-> ({} \cup (IF d.include THEN {bs[k]} ELSE {}))]
           P == [k \in 1 .. n |-> ({<<a, bs[k]>>} \cup {})]
<1>4. \A k \in 1 .. n, h \in Numbered(a, v) : F[k][h] = WithBond(d, h, a, bs[k])
  OBVIOUS
<1>5. StepsAdd(n, Numbered(a, v), F, M, P) /\ Closed(n, Numbered(a, v), F)
  <2>1. StepsAdd(n, Numbered(a, v), F, M, P)
    BY <1>3, <1>4 DEF StepsAdd
  <2> QED BY <1>1, <2>1, StepsAddClosed
<1> HIDE DEF F
<1>6. \E w : w = Rec(w)
  <2>1. PICK w : IsFold(n, Numbered(a, v), Bare(g, a, bs), F, w)
    <3> HIDE DEF Rec
    <3> QED BY <1>1, <1>5, FoldExists
  <2>2. \A p \in SUBSET (1 .. n) : p # {} =>
          F[Max(p)][w[p \ {Max(p)}]] = WithBond(d, w[p \ {Max(p)}], a, bs[Max(p)])
    BY <1>1, <1>4, <2>1, MaxFacts DEF IsFold
  <2>3. w = Rec(w)
    BY <2>1, <2>2 DEF IsFold
  <2> HIDE DEF Rec
  <2> QED BY <2>3
<1>7. PICK c : c = Rec(c) /\ AddBonds(d, g, a, bs) = c[1 .. n]
  <2>1. AddBonds(d, g, a, bs) = (CHOOSE c : c = Rec(c))[1 .. n]
    BY <1>1 DEF AddBonds, WithBond, Bare, FoldLeft, MapThenFoldSet
  <2> HIDE DEF Rec
  <2> QED BY <1>6, <2>1
<1>8. Unfolds(n, Numbered(a, v), Bare(g, a, bs), F, c)
  <2>1. c[{}] = Bare(g, a, bs)
    BY <1>7
  <2>2. ASSUME NEW p \in SUBSET (1 .. n), p # {}, c[p \ {Max(p)}] \in Numbered(a, v)
        PROVE  c[p] = F[Max(p)][c[p \ {Max(p)}]]
    <3>1. c[p] = WithBond(d, c[p \ {Max(p)}], a, bs[Max(p)])
      BY <1>7, <2>2
    <3>2. Max(p) \in 1 .. n
      BY <1>1, <2>2, MaxFacts
    <3> HIDE DEF Rec
    <3> QED BY <1>4, <2>2, <3>1, <3>2
  <2> HIDE DEF Rec
  <2> QED BY <2>1, <2>2 DEF Unfolds
<1> HIDE DEF Rec
<1>9. Adds(Numbered(a, v), AddBonds(d, g, a, bs), Bare(g, a, bs), UnionTo(n, M), UnionTo(n, P))
  <2> HIDE DEF M, P
  <2> QED BY <1>1, <1>5, <1>7, <1>8, AddsFold
<1>10. UnionTo(n, M) = (IF d.include THEN ToSet(bs) ELSE {})
  BY <1>1, <1>2 DEF UnionTo, PairsOf
<1>11. UnionTo(n, P) = PairsOf(a, ToSet(bs))
  BY <1>1, <1>2 DEF UnionTo, PairsOf
<1> QED BY <1>9, <1>10, <1>11

(* BOND: a from-atom that had no pairs ends with the number that was set   *)
(* before, because its to-atoms are a list without repetitions.            *)
LEMMA AddBondsAdds ==
  ASSUME NEW d, NEW g \in Sound, NEW a \in Atoms, NEW bs \in Lists,
         \A p \in Pairs(g) : p[1] # a
  PROVE  Adds(Sound, AddBonds(d, g, a, bs), g, {a} \cup (IF d.include THEN ToSet(bs) ELSE {}),
              PairsOf(a, ToSet(bs)))
<1> DEFINE l == AddBonds(d, g, a, bs)
           v == Len(bs)
           e == Bare(g, a, bs)
           included == IF d.include THEN ToSet(bs) ELSE {}
<1>1. bs \in Seq(Atoms)
  BY ListFacts
<1>2. Adds(Numbered(a, v), e, g, {a}, {})
  BY <1>1, BareAdds DEF Sound
<1>3. Adds(Numbered(a, v), l, e, included, PairsOf(a, ToSet(bs)))
  BY <1>1, AddBondsNumbered
<1> HIDE DEF l, e, v, included
<1>4. Adds(Numbered(a, v), l, g, {a} \cup included, {} \cup PairsOf(a, ToSet(bs)))
  BY <1>2, <1>3, AddsTwice
<1>5. l \in Numbered(a, v)
  BY <1>4 DEF Adds
<1>6. Pairs(l) = Pairs(g) \cup PairsOf(a, ToSet(bs))
  BY <1>4 DEF Adds
<1>7. MembersOf(l) = MembersOf(g) \cup ({a} \cup included)
  BY <1>4 DEF Adds
<1>8. ToSet(TableOf(l, a)) = ToSet(bs)
  <2>1. l \in Tables /\ a \in MembersOf(l)
    BY <1>5, NumberedFacts
  <2>2. \A b : <<a, b>> \in Pairs(l) <=> b \in ToSet(TableOf(l, a))
    <3>1. \A b, c, s : <<a, b>> \in PairsOf(c, s) <=> c = a /\ b \in s
      BY DEF PairsOf
    <3> QED BY <2>1, <3>1, InPairs
  <2>3. \A b : <<a, b>> \in Pairs(l) <=> b \in ToSet(bs)
    <3>1. \A b : <<a, b>> \notin Pairs(g)
      OBVIOUS
    <3>2. \A b : <<a, b>> \in PairsOf(a, ToSet(bs)) <=> b \in ToSet(bs)
      BY DEF PairsOf
    <3> QED BY <1>6, <3>1, <3>2
  <2> QED BY <2>2, <2>3
<1>9. l \in Sound
  <2>1. TableOf(l, a) \in Lists
    BY <1>5, NumberedFacts, MemberIdFacts
  <2>2. Len(TableOf(l, a)) = v
    BY <1>8, <2>1, SameLength DEF v
  <2> QED BY <1>5, <2>2, NumberedFacts
<1>10. Adds(Sound, l, g, {a} \cup included, PairsOf(a, ToSet(bs)))
  BY <1>6, <1>7, <1>9 DEF Adds
<1> QED BY <1>10 DEF l, included

(* The members that a from-atom brings.                                    *)
Brought(d, bonds, to, a) ==
  IF Bound(d, bonds, to, a) THEN {a} \cup (IF d.include THEN Partners(d, bonds, to, a)
                                           ELSE {}) ELSE {}

(* BOND: the from-atoms in turn.  A member that IncludeToGroup brought     *)
(* before its own turn has no pairs yet.                                   *)
LEMMA BondAdds ==
  ASSUME NEW d, NEW bonds, NEW g \in Sound, NEW to \in Sound
  PROVE  Adds(Sound, Bond(d, bonds, g, to), EmptyGroup,
              UNION {Brought(d, bonds, to, a) : a \in MembersOf(g)},
              UNION {PairsOf(a, Partners(d, bonds, to, a)) : a \in MembersOf(g)})
<1> DEFINE n == Len(g.atoms)
<1>1. n \in Nat /\ DOMAIN g.atoms = 1 .. n /\ EmptyGroup \in Tables /\ EmptyGroup \in Sound
      /\ \A k \in 1 .. n : /\ g.atoms[k] \in Atoms /\ g.atoms[k] \in MembersOf(g)
                         /\ \A j \in 1 .. k - 1 : j \in 1 .. n /\ g.atoms[j] # g.atoms[k]
  <2>1. g \in Tables
    BY DEF Sound
  <2>2. g.atoms \in Lists
    BY <2>1, TablesFacts
  <2>3. n \in Nat /\ DOMAIN g.atoms = 1 .. n /\ \A i,
        j \in 1 .. n : g.atoms[i] = g.atoms[j] => i = j
    BY <2>2, ListFacts
  <2>4. \A k \in 1 .. n : g.atoms[k] \in Atoms /\ g.atoms[k] \in MembersOf(g)
    BY <2>2, ListFacts DEF MembersOf
  <2> HIDE DEF n
  <2>5. \A k \in 1 .. n : \A j \in 1 .. k - 1 : j \in 1 .. n /\ g.atoms[j] # g.atoms[k]
    BY <2>3
  <2> QED BY <2>3, <2>4, <2>5, EmptyGroupFacts
<1>2. ToSet(g.atoms) = {g.atoms[k] : k \in 1 .. n}
  BY <1>1 DEF ToSet
<1> HIDE DEF n
<1>3. \A k \in 1 .. n, h \in Tables : WithBonds(d, bonds, to, h, g.atoms[k]) \in Tables
  BY <1>1, AddBondsHolding, ToListFacts DEF WithBonds, Holding
<1> DEFINE F == [k \in 1 .. n |-> [h \in Tables |-> WithBonds(d, bonds, to, h, g.atoms[k])]]
           Rec(c) == [p \in SUBSET (1 .. n) |-> IF p = {} THEN EmptyGroup
                        ELSE WithBonds(d, bonds, to, c[p \ {Max(p)}], g.atoms[Max(p)])]
           M == [k \in 1 .. n |-> Brought(d, bonds, to, g.atoms[k])]
           P == [k \in 1 .. n |-> PairsOf(g.atoms[k], Partners(d, bonds, to, g.atoms[k]))]
<1>4. \A k \in 1 .. n, h \in Tables : F[k][h] = WithBonds(d, bonds, to, h, g.atoms[k])
  OBVIOUS
<1>5. Closed(n, Tables, F)
  BY <1>3, <1>4 DEF Closed
<1> HIDE DEF F
<1>6. \E w : w = Rec(w)
  <2>1. PICK w : IsFold(n, Tables, EmptyGroup, F, w)
    <3> HIDE DEF Rec
    <3> QED BY <1>1, <1>5, FoldExists
  <2>2. \A p \in SUBSET (1 .. n) : p # {} =>
          F[Max(p)][w[p \ {Max(p)}]] = WithBonds(d, bonds, to, w[p \ {Max(p)}], g.atoms[Max(p)])
    BY <1>1, <1>4, <2>1, MaxFacts DEF IsFold
  <2>3. w = Rec(w)
    BY <2>1, <2>2 DEF IsFold
  <2> HIDE DEF Rec
  <2> QED BY <2>3
<1>7. PICK c : c = Rec(c) /\ Bond(d, bonds, g, to) = c[1 .. n]
  <2>1. Bond(d, bonds, g, to) = (CHOOSE c : c = Rec(c))[1 .. n]
    BY <1>1 DEF Bond, WithBonds, FoldLeft, MapThenFoldSet
  <2> HIDE DEF Rec
  <2> QED BY <1>6, <2>1
<1>8. Unfolds(n, Tables, EmptyGroup, F, c)
  <2>1. c[{}] = EmptyGroup
    BY <1>7
  <2>2. ASSUME NEW p \in SUBSET (1 .. n), p # {}, c[p \ {Max(p)}] \in Tables
        PROVE  c[p] = F[Max(p)][c[p \ {Max(p)}]]
    <3>1. c[p] = WithBonds(d, bonds, to, c[p \ {Max(p)}], g.atoms[Max(p)])
      BY <1>7, <2>2
    <3>2. Max(p) \in 1 .. n
      BY <1>1, <2>2, MaxFacts
    <3> HIDE DEF Rec
    <3> QED BY <1>4, <2>2, <3>1, <3>2
  <2> HIDE DEF Rec
  <2> QED BY <2>1, <2>2 DEF Unfolds
<1> HIDE DEF Rec
<1>9. AddsInTurn(n, Tables, Sound, EmptyGroup, F, M, P)
  <2> SUFFICES ASSUME NEW k \in 1 .. n, NEW h \in Tables,
                      Adds(Sound, h, EmptyGroup, UnionTo(k - 1, M), UnionTo(k - 1, P))
               PROVE  Adds(Sound, F[k][h], h, M[k], P[k])
    BY DEF AddsInTurn
  <2>1. h \in Sound /\ MembersOf(h) = UnionTo(k - 1, M) /\ Pairs(h) = UnionTo(k - 1, P)
    BY AddsToEmpty
  <2>2. \A j \in 1 .. k - 1 : j \in 1 .. n /\ g.atoms[j] # g.atoms[k]
    BY <1>1
  <2> DEFINE a == g.atoms[k]
             bs == ToList(d, a, bonds, to)
  <2>3. a \in Atoms /\ bs \in Lists
    BY <1>1, ToListFacts
  <2>4. F[k][h] = WithBonds(d, bonds, to, h, a)
    BY <1>4
  <2>5. M[k] = Brought(d, bonds, to, a)
    OBVIOUS
  <2>6. P[k] = PairsOf(a, Partners(d, bonds, to, a))
    OBVIOUS
  <2>7. \A p \in Pairs(h) : p[1] # a
    <3>1. \A j \in 1 .. k - 1 : \A p \in P[j] : p[1] = g.atoms[j]
      BY <2>2 DEF PairsOf
    <3> HIDE DEF P
    <3> QED BY <2>1, <2>2, <3>1 DEF UnionTo
  <2> HIDE DEF a, M, P
  <2>8. CASE Bound(d, bonds, to, a)
    <3>1. Partners(d, bonds, to, a) = ToSet(bs)
      BY <2>8 DEF Partners
    <3>2. Brought(d, bonds, to, a) = {a} \cup (IF d.include THEN ToSet(bs) ELSE {})
      BY <2>8, <3>1 DEF Brought
    <3>3. WithBonds(d, bonds, to, h, a) = AddBonds(d, h, a, bs)
      BY <2>8 DEF WithBonds, Bound
    <3> HIDE DEF bs
    <3>4. Adds(Sound, AddBonds(d, h, a, bs), h, {a} \cup (IF d.include THEN ToSet(bs) ELSE {}),
               PairsOf(a, ToSet(bs)))
      BY <2>1, <2>3, <2>7, AddBondsAdds
    <3> QED BY <2>4, <2>5, <2>6, <3>1, <3>2, <3>3, <3>4
  <2>9. CASE ~Bound(d, bonds, to, a)
    <3>1. WithBonds(d, bonds, to, h, a) = h
      BY <2>9 DEF WithBonds, Bound
    <3>2. Brought(d, bonds, to, a) = {}
      BY <2>9 DEF Brought
    <3>3. PairsOf(a, Partners(d, bonds, to, a)) = {}
      BY <2>9 DEF PairsOf, Partners
    <3>4. Adds(Sound, h, h, {}, {})
      BY <2>1 DEF Adds
    <3> QED BY <2>4, <2>5, <2>6, <3>1, <3>2, <3>3, <3>4
  <2> QED BY <2>8, <2>9
<1>10. Adds(Sound, Bond(d, bonds, g, to), EmptyGroup, UnionTo(n, M), UnionTo(n, P))
  <2> HIDE DEF M, P
  <2> QED BY <1>1, <1>5, <1>7, <1>8, <1>9, AddsFoldInTurn
<1>11. UnionTo(n, M) = UNION {Brought(d, bonds, to, a) : a \in MembersOf(g)}
  <2>1. {g.atoms[k] : k \in 1 .. n} = MembersOf(g)
    BY <1>2 DEF MembersOf
  <2>2. UnionTo(n, M) = UNION {Brought(d, bonds, to, a) : a \in MembersOf(g)}
    BY <2>1 DEF UnionTo
  <2> QED BY <2>2
<1>12. UnionTo(n, P) = UNION {PairsOf(a, Partners(d, bonds, to, a)) : a \in MembersOf(g)}
  <2>1. {g.atoms[k] : k \in 1 .. n} = MembersOf(g)
    BY <1>2 DEF MembersOf
  <2>2. UnionTo(n, P) = UNION {PairsOf(a, Partners(d, bonds, to, a)) : a \in MembersOf(g)}
    BY <2>1 DEF UnionTo
  <2> QED BY <2>2
<1> QED BY <1>10, <1>11, <1>12

-----------------------------------------------------------------------------
(* The definitions of a configuration.                                     *)

(* The kinds of groups, those that no command makes included.              *)
AllKinds == Kinds \cup {"corresponding"}

(* A command that has been read, with as many groups as its kind needs.    *)
WellDefined ==
  {d \in [name : STRING, kind : AllKinds, of : Seq(STRING), static : BOOLEAN, ids : Seq(Nat),
          types : SUBSET STRING, minDist : Nat, maxDist : Nat, minCoord : Nat, maxCoord : Nat,
          maxHistory : Nat \ {0}, include : BOOLEAN, corresponding : STRING] :
     Len(d.of) >= GroupsNeeded(d.kind)}

(* The corresponding group of a BOND.                                      *)
IsOther(other, d) ==
  /\ d.kind = "bond" /\ d.corresponding # NoGroup
  /\ other.kind = "corresponding" /\ other.name = d.corresponding
  /\ other.of = <<d.name>> /\ other.static = d.static

(* Bonds and corresponding groups come in pairs.                           *)
Paired(defs) ==
  /\ \A i \in DOMAIN defs : defs[i].kind = "bond" /\ defs[i].corresponding # NoGroup =>
       i - 1 \in DOMAIN defs /\ IsOther(defs[i - 1], defs[i])
  /\ \A i \in DOMAIN defs : defs[i].kind = "corresponding" =>
       i + 1 \in DOMAIN defs /\ IsOther(defs[i], defs[i + 1])

(* Such lists of definitions.                                              *)
DefinitionLists == {defs \in Seq(WellDefined) : Paired(defs)}

(* A command that makes one group keeps the pairing.                       *)
LEMMA PairedAppend ==
  ASSUME NEW defs \in DefinitionLists, NEW d \in WellDefined, d.kind # "corresponding",
         d.kind = "bond" => d.corresponding = NoGroup
  PROVE  Append(defs, d) \in DefinitionLists
<1> DEFINE t == Append(defs, d)
           n == Len(defs)
<1>1. t \in Seq(WellDefined) /\ DOMAIN t = 1 .. n + 1 /\ DOMAIN defs = 1 .. n /\ n \in Nat
      /\ t[n + 1] = d /\ \A i \in 1 .. n : t[i] = defs[i]
  BY DEF DefinitionLists
<1>2. \A i \in 1 .. n + 1 : i = n + 1 \/ i \in 1 .. n
  BY <1>1
<1>3. \A i \in 1 .. n : i \in 1 .. n + 1
  BY <1>1
<1> HIDE DEF t, n
<1>4. ASSUME NEW i \in DOMAIN t, t[i].kind = "bond", t[i].corresponding # NoGroup
      PROVE  i - 1 \in DOMAIN t /\ IsOther(t[i - 1], t[i])
  <2>1. i \in 1 .. n /\ t[i] = defs[i]
    BY <1>1, <1>2, <1>4
  <2>2. i - 1 \in 1 .. n /\ IsOther(defs[i - 1], defs[i])
    BY <1>1, <1>4, <2>1 DEF DefinitionLists, Paired
  <2> QED BY <1>1, <1>3, <2>1, <2>2
<1>5. ASSUME NEW i \in DOMAIN t, t[i].kind = "corresponding"
      PROVE  i + 1 \in DOMAIN t /\ IsOther(t[i], t[i + 1])
  <2>1. i \in 1 .. n /\ t[i] = defs[i]
    BY <1>1, <1>2, <1>5
  <2>2. i + 1 \in 1 .. n /\ IsOther(defs[i], defs[i + 1])
    BY <1>1, <1>5, <2>1 DEF DefinitionLists, Paired
  <2> QED BY <1>1, <1>3, <2>1, <2>2
<1>6. t \in DefinitionLists
  BY <1>1, <1>4, <1>5 DEF DefinitionLists, Paired
<1> QED BY <1>6 DEF t

(* A BOND and its corresponding group keep the pairing.                    *)
LEMMA PairedAppendTwo ==
  ASSUME NEW defs \in DefinitionLists, NEW d \in WellDefined, NEW other \in WellDefined,
         IsOther(other, d)
  PROVE  defs \o <<other, d>> \in DefinitionLists
<1> DEFINE t == defs \o <<other, d>>
           n == Len(defs)
<1>1. t \in Seq(WellDefined) /\ DOMAIN t = 1 .. n + 2 /\ DOMAIN defs = 1 .. n /\ n \in Nat
      /\ t[n + 1] = other /\ t[n + 2] = d /\ \A i \in 1 .. n : t[i] = defs[i]
  BY DEF DefinitionLists
<1>2. \A i \in 1 .. n + 2 : i = n + 1 \/ i = n + 2 \/ i \in 1 .. n
  BY <1>1
<1>3. /\ \A i \in 1 .. n : i \in 1 .. n + 2
      /\ n + 1 \in 1 .. n + 2 /\ n + 2 \in 1 .. n + 2 /\ (n + 1) + 1 = n + 2 /\ (n + 2) - 1 = n + 1
  BY <1>1
<1>4. other.kind = "corresponding" /\ d.kind = "bond"
  BY DEF IsOther
<1> HIDE DEF t, n
<1>5. ASSUME NEW i \in DOMAIN t, t[i].kind = "bond", t[i].corresponding # NoGroup
      PROVE  i - 1 \in DOMAIN t /\ IsOther(t[i - 1], t[i])
  <2>1. CASE i \in 1 .. n
    <3>1. i - 1 \in 1 .. n /\ IsOther(defs[i - 1], defs[i])
      BY <1>1, <1>5, <2>1 DEF DefinitionLists, Paired
    <3> QED BY <1>1, <1>3, <2>1, <3>1
  <2>2. CASE i = n + 2
    BY <1>1, <1>3, <2>2
  <2>3. i # n + 1
    BY <1>1, <1>5, <1>4
  <2> QED BY <1>1, <1>2, <2>1, <2>2, <2>3
<1>6. ASSUME NEW i \in DOMAIN t, t[i].kind = "corresponding"
      PROVE  i + 1 \in DOMAIN t /\ IsOther(t[i], t[i + 1])
  <2>1. CASE i \in 1 .. n
    <3>1. i + 1 \in 1 .. n /\ IsOther(defs[i], defs[i + 1])
      BY <1>1, <1>6, <2>1 DEF DefinitionLists, Paired
    <3> QED BY <1>1, <1>3, <2>1, <3>1
  <2>2. CASE i = n + 1
    BY <1>1, <1>3, <2>2
  <2>3. i # n + 2
    BY <1>1, <1>6, <1>4
  <2> QED BY <1>1, <1>2, <2>1, <2>2, <2>3
<1>7. t \in DefinitionLists
  BY <1>1, <1>5, <1>6 DEF DefinitionLists, Paired
<1> QED BY <1>7 DEF t

(* addConstituentGroup keeps at least the first group.                     *)
LEMMA ConstituentsFacts ==
  ASSUME NEW X, NEW names \in Seq(X)
  PROVE  Constituents(names) \in Seq(X) /\ (Len(names) >= 1 => Len(Constituents(names)) >= 1)
<1> DEFINE n == Len(names)
           e == <<>>
           W == Seq(X)
<1>1. n \in Nat /\ DOMAIN names = 1 .. n /\ e \in W /\ \A k \in 1 .. n : names[k] \in X
  OBVIOUS
<1>2. ASSUME NEW h \in W, NEW x \in X
      PROVE  /\ (IF Contains(h, x) THEN h ELSE Append(h, x)) \in W
             /\ Len(IF Contains(h, x) THEN h ELSE Append(h, x)) >= 1
  <2>1. CASE Contains(h, x)
    <3>1. PICK i \in 1 .. Len(h) : h[i] = x
      BY <2>1 DEF Contains
    <3>2. Len(h) \in Nat /\ Len(h) >= 1
      BY <3>1
    <3>3. (IF Contains(h, x) THEN h ELSE Append(h, x)) = h
      BY <2>1
    <3> QED BY <3>2, <3>3
  <2>2. CASE ~Contains(h, x)
    <3>1. Append(h, x) \in W /\ Len(Append(h, x)) = Len(h) + 1 /\ Len(h) \in Nat
      OBVIOUS
    <3>2. (IF Contains(h, x) THEN h ELSE Append(h, x)) = Append(h, x)
      BY <2>2
    <3>3. Len(Append(h, x)) >= 1
      BY <3>1
    <3> QED BY <3>1, <3>2, <3>3
  <2> QED BY <2>1, <2>2
<1> HIDE DEF n, W
<1>3. \A k \in 1 .. n, h \in W : (IF Contains(h, names[k]) THEN h ELSE Append(h, names[k])) \in W
  BY <1>1, <1>2
<1> DEFINE F == [k \in 1 .. n |-> [h \in W |-> (IF Contains(h, names[k]) THEN h
                                                ELSE Append(h, names[k]))]]
           Rec(c) == [p \in SUBSET (1 .. n) |-> IF p = {} THEN e
                        ELSE (IF Contains(c[p \ {Max(p)}], names[Max(p)])
                              THEN c[p \ {Max(p)}] ELSE Append(c[p \ {Max(p)}], names[Max(p)]))]
<1>4. \A k \in 1 .. n, h \in W : F[k][h] = (IF Contains(h, names[k]) THEN h
                                            ELSE Append(h, names[k]))
  OBVIOUS
<1>5. Closed(n, W, F)
  BY <1>3, <1>4 DEF Closed
<1> HIDE DEF F
<1>6. \E w : w = Rec(w)
  <2>1. PICK w : IsFold(n, W, e, F, w)
    <3> HIDE DEF Rec
    <3> QED BY <1>1, <1>5, FoldExists
  <2>2. \A p \in SUBSET (1 .. n) : p # {} =>
          F[Max(p)][w[p \ {Max(p)}]] = (IF Contains(w[p \ {Max(p)}], names[Max(p)])
                                        THEN w[p \ {Max(p)}] ELSE Append(w[p \ {Max(p)}],
                                                                         names[Max(p)]))
    BY <1>1, <1>4, <2>1, MaxFacts DEF IsFold
  <2>3. w = Rec(w)
    BY <2>1, <2>2 DEF IsFold
  <2> HIDE DEF Rec
  <2> QED BY <2>3
<1>7. PICK c : c = Rec(c) /\ Constituents(names) = c[1 .. n]
  <2>1. Constituents(names) = (CHOOSE c : c = Rec(c))[1 .. n]
    BY <1>1 DEF Constituents, e, FoldLeft, MapThenFoldSet
  <2> HIDE DEF Rec
  <2> QED BY <1>6, <2>1
<1>8. Unfolds(n, W, e, F, c)
  <2>1. c[{}] = e
    BY <1>7
  <2>2. ASSUME NEW p \in SUBSET (1 .. n), p # {}, c[p \ {Max(p)}] \in W
        PROVE  c[p] = F[Max(p)][c[p \ {Max(p)}]]
    <3>1. c[p] = (IF Contains(c[p \ {Max(p)}], names[Max(p)]) THEN c[p \ {Max(p)}]
                  ELSE Append(c[p \ {Max(p)}], names[Max(p)]))
      BY <1>7, <2>2
    <3>2. Max(p) \in 1 .. n
      BY <1>1, <2>2, MaxFacts
    <3> HIDE DEF Rec
    <3> QED BY <1>4, <2>2, <3>1, <3>2
  <2> HIDE DEF Rec
  <2> QED BY <2>1, <2>2 DEF Unfolds
<1> HIDE DEF Rec
<1> HIDE DEF e
<1>9. PICK r : IsRun(n, W, e, F, r) /\ c[1 .. n] = r[n]
  BY <1>1, <1>5, <1>8, FoldRuns
<1>10. r[n] \in W
  <2>1. n \in 0 .. n
    BY <1>1
  <2> QED BY <1>9, <2>1 DEF IsRun
<1>11. n >= 1 => Len(r[n]) >= 1
  <2> SUFFICES ASSUME n >= 1
               PROVE  Len(r[n]) >= 1
    OBVIOUS
  <2>1. n \in 1 .. n /\ n - 1 \in 0 .. n
    BY <1>1
  <2>2. r[n - 1] \in W /\ r[n] = F[n][r[n - 1]]
    BY <1>9, <2>1 DEF IsRun
  <2>3. r[n] = (IF Contains(r[n - 1], names[n]) THEN r[n - 1] ELSE Append(r[n - 1], names[n]))
    BY <1>4, <2>1, <2>2
  <2> QED BY <1>1, <1>2, <2>1, <2>2, <2>3
<1> QED BY <1>7, <1>9, <1>10, <1>11 DEF n, W

(* A command makes one group, or the two of a BOND.                        *)
LEMMA ParseDefineGroupType ==
  ASSUME NEW defs \in DefinitionLists, NEW d \in Commands, Len(d.of) >= GroupsNeeded(d.kind)
  PROVE  ParseDefineGroup(defs, d) \in DefinitionLists
<1> DEFINE static == IF d.kind \in SetKinds
                     THEN \A k \in DOMAIN d.of : FindGroupWithId(defs, d.of[k]).static
                     ELSE d.static
           of == IF d.kind \in SetKinds THEN Constituents(d.of) ELSE d.of
           own == [d EXCEPT !.static = static, !.of = of]
           other == [d EXCEPT !.name = d.corresponding, !.kind = "corresponding", !.of = <<d.name>>]
<1>1. d.kind \in Kinds /\ d.of \in Seq(STRING) /\ d.static \in BOOLEAN /\ d.name \in STRING
      /\ d.corresponding \in STRING
  BY DEF Commands
<1>2. static \in BOOLEAN
  <2>1. (\A k \in DOMAIN d.of : FindGroupWithId(defs, d.of[k]).static) \in BOOLEAN
    OBVIOUS
  <2> QED BY <1>1, <2>1
<1>3. of \in Seq(STRING) /\ Len(of) >= GroupsNeeded(d.kind)
  <2>1. CASE d.kind \in SetKinds
    <3>1. GroupsNeeded(d.kind) = 1
      BY <2>1 DEF SetKinds, GroupsNeeded
    <3> QED BY <1>1, <2>1, <3>1, ConstituentsFacts
  <2>2. CASE d.kind \notin SetKinds
    BY <1>1, <2>2
  <2> QED BY <2>1, <2>2
<1>4. d.kind # "corresponding" /\ d.kind \in AllKinds
  BY <1>1 DEF Kinds, SetKinds, AllKinds
<1> HIDE DEF static, of
<1>5. own \in WellDefined /\ own.kind = d.kind /\ own.corresponding = d.corresponding
      /\ own.name = d.name /\ own.static = static
  BY <1>2, <1>3, <1>4 DEF Commands, WellDefined
<1>6. CASE d.kind = "bond" /\ d.corresponding # NoGroup
  <2>1. static = d.static
    BY <1>6 DEF static, SetKinds
  <2>2. <<d.name>> \in Seq(STRING) /\ Len(<<d.name>>) = 1
    BY <1>1
  <2>3. GroupsNeeded("corresponding") = 1 /\ "corresponding" \in AllKinds
    BY DEF GroupsNeeded, AllKinds
  <2>4. other \in WellDefined /\ other.kind = "corresponding" /\ other.name = d.corresponding
        /\ other.of = <<d.name>> /\ other.static = d.static
    <3>1. /\ other.kind = "corresponding" /\ other.name = d.corresponding
          /\ other.of = <<d.name>> /\ other.static = d.static
      BY DEF Commands
    <3>2. /\ other \in [name : STRING, kind : AllKinds, of : Seq(STRING), static : BOOLEAN,
                        ids : Seq(Nat),
                        types : SUBSET STRING, minDist : Nat, maxDist : Nat, minCoord : Nat,
                        maxCoord : Nat, maxHistory : Nat \ {0}, include : BOOLEAN,
                        corresponding : STRING]
      BY <1>1, <2>2, <2>3 DEF Commands
    <3> HIDE DEF other
    <3>3. Len(other.of) >= GroupsNeeded(other.kind)
      BY <2>2, <2>3, <3>1
    <3>4. other \in WellDefined
      BY <3>2, <3>3 DEF WellDefined
    <3> QED BY <3>1, <3>4
  <2>5. ParseDefineGroup(defs, d) = defs \o <<other, own>>
    BY <1>6 DEF ParseDefineGroup, static, of
  <2> HIDE DEF own, other
  <2>6. IsOther(other, own)
    BY <1>5, <1>6, <2>1, <2>4 DEF IsOther
  <2> QED BY <1>5, <2>4, <2>5, <2>6, PairedAppendTwo
<1>7. CASE ~(d.kind = "bond" /\ d.corresponding # NoGroup)
  <2>1. ParseDefineGroup(defs, d) = Append(defs, own)
    BY <1>7 DEF ParseDefineGroup, static, of
  <2> HIDE DEF own
  <2> QED BY <1>4, <1>5, <1>7, <2>1, PairedAppend
<1> QED BY <1>6, <1>7

(* The definitions of a configuration are well defined and paired.         *)
LEMMA DefinitionsType == Definitions \in DefinitionLists
<1> DEFINE n == Len(Config)
           e == <<>>
           W == DefinitionLists
<1>1. n \in Nat /\ DOMAIN Config = 1 .. n /\ e \in W
  <2>1. e \in W
    BY DEF DefinitionLists, Paired
  <2> QED BY <2>1, ConfigAssumption
<1> HIDE DEF n
<1>3. \A k \in 1 .. n, h \in W : ParseDefineGroup(h, Config[k]) \in W
  <2>1. \A k \in 1 .. n : Config[k] \in Commands /\ Len(Config[k].of) >= GroupsNeeded(Config[k].kind)
    BY <1>1, ConfigAssumption
  <2> QED BY <2>1, ParseDefineGroupType
<1> HIDE DEF W
<1> DEFINE F == [k \in 1 .. n |-> [h \in W |-> ParseDefineGroup(h, Config[k])]]
           Rec(c) == [p \in SUBSET (1 .. n) |-> IF p = {} THEN e
                        ELSE ParseDefineGroup(c[p \ {Max(p)}], Config[Max(p)])]
<1>4. \A k \in 1 .. n, h \in W : F[k][h] = ParseDefineGroup(h, Config[k])
  OBVIOUS
<1>5. Closed(n, W, F)
  BY <1>3, <1>4 DEF Closed
<1> HIDE DEF F
<1>6. \E w : w = Rec(w)
  <2>1. PICK w : IsFold(n, W, e, F, w)
    <3> HIDE DEF Rec
    <3> QED BY <1>1, <1>5, FoldExists
  <2>2. \A p \in SUBSET (1 .. n) : p # {} =>
          F[Max(p)][w[p \ {Max(p)}]] = ParseDefineGroup(w[p \ {Max(p)}], Config[Max(p)])
    BY <1>1, <1>4, <2>1, MaxFacts DEF IsFold
  <2>3. w = Rec(w)
    BY <2>1, <2>2 DEF IsFold
  <2> HIDE DEF Rec
  <2> QED BY <2>3
<1>7. PICK c : c = Rec(c) /\ Definitions = c[1 .. n]
  <2>1. Definitions = (CHOOSE c : c = Rec(c))[1 .. n]
    BY <1>1 DEF Definitions, e, FoldLeft, MapThenFoldSet
  <2> HIDE DEF Rec
  <2> QED BY <1>6, <2>1
<1>8. Unfolds(n, W, e, F, c)
  <2>1. c[{}] = e
    BY <1>7
  <2>2. ASSUME NEW p \in SUBSET (1 .. n), p # {}, c[p \ {Max(p)}] \in W
        PROVE  c[p] = F[Max(p)][c[p \ {Max(p)}]]
    <3>1. c[p] = ParseDefineGroup(c[p \ {Max(p)}], Config[Max(p)])
      BY <1>7, <2>2
    <3>2. Max(p) \in 1 .. n
      BY <1>1, <2>2, MaxFacts
    <3> HIDE DEF Rec
    <3> QED BY <1>4, <2>2, <3>1, <3>2
  <2> HIDE DEF Rec
  <2> QED BY <2>1, <2>2 DEF Unfolds
<1> HIDE DEF Rec
<1> HIDE DEF e
<1>9. PICK r : IsRun(n, W, e, F, r) /\ c[1 .. n] = r[n]
  BY <1>1, <1>5, <1>8, FoldRuns
<1>10. r[n] \in W
  <2>1. n \in 0 .. n
    BY <1>1
  <2> QED BY <1>9, <2>1 DEF IsRun
<1> QED BY <1>7, <1>9, <1>10 DEF W

-----------------------------------------------------------------------------
(* The kinds of groups.                                                    *)

(* The ids of the atoms are a list without repetitions.                    *)
LEMMA IdsFacts == Ids \in Lists /\ Ids \in Seq(Nat) /\ ToSet(Ids) = Atoms /\ IsFiniteSet(Atoms)
<1>1. Ids \in Seq(Nat) /\ IsInjective(Ids)
  BY GroupsAssumption
<1>2. Ids \in Seq(Atoms)
  BY <1>1 DEF Atoms, ToSet
<1>3. Ids \in Lists
  BY <1>1, <1>2 DEF Lists
<1> QED BY <1>1, <1>3, ListCardinality DEF Atoms

(* The distances of a frame are numbers and symmetric.                     *)
LEMMA BondsFacts ==
  ASSUME NEW bonds \in Distances
  PROVE  \A a, b \in Atoms : bonds[a][b] \in Nat /\ bonds[a][b] = bonds[b][a]
  BY GroupsAssumption

(* A group that is filled from a list.                                     *)
LEMMA FilledAdds ==
  ASSUME NEW bs \in Seq(Atoms)
  PROVE  Adds(Sound, Filled(bs), EmptyGroup, ToSet(bs), {})
  BY EmptyGroupFacts, AddAtomsAdds DEF Filled

(* ATOMICNUMBER: the atoms of the types.                                   *)
LEMMA AtomicNumberAdds ==
  ASSUME NEW d
  PROVE  Adds(Sound, AtomicNumber(d), EmptyGroup, {a \in Atoms : TypeOf[a] \in d.types}, {})
<1> DEFINE S == {a \in Atoms : TypeOf[a] \in d.types}
           bs == Among(Ids, S)
<1>1. bs \in Seq(Atoms) /\ ToSet(bs) = ToSet(Ids) \cap S
  BY IdsFacts, AmongFacts
<1>2. ToSet(Ids) \cap S = S
  BY IdsFacts
<1>3. Adds(Sound, Filled(bs), EmptyGroup, S, {})
  <2> HIDE DEF bs, S
  <2> QED BY <1>1, <1>2, FilledAdds
<1> QED BY <1>3 DEF AtomicNumber

(* LIST: the atoms of the list that there are.                             *)
LEMMA ListAdds ==
  ASSUME NEW d, d.ids \in Seq(Nat)
  PROVE  Adds(Sound, List(d), EmptyGroup, ToSet(d.ids) \cap Atoms, {})
<1> DEFINE bs == Among(d.ids, Atoms)
<1>1. bs \in Seq(Atoms) /\ ToSet(bs) = ToSet(d.ids) \cap Atoms
  BY AmongFacts
<1> HIDE DEF bs
<1>2. Adds(Sound, Filled(bs), EmptyGroup, ToSet(d.ids) \cap Atoms, {})
  BY <1>1, FilledAdds
<1> QED BY <1>2 DEF List, bs

(* The atoms to draw from that have been members often enough.             *)
Remembered(d, rings, parent, drawFrom) ==
  {a \in MembersOf(drawFrom) \cap MembersOf(parent) :
     LET i == MemberId(parent, a)
     IN  Coordinated(d, Cardinality({k \in DOMAIN rings[i] : rings[i][k]}))}

(* MEMBERHISTORY: the atoms that have been members often enough.           *)
LEMMA MemberHistoryAdds ==
  ASSUME NEW d, NEW rings, NEW parent \in Sound, NEW drawFrom
  PROVE  Adds(Sound, MemberHistory(d, rings, parent, drawFrom), EmptyGroup,
              Remembered(d, rings, parent, drawFrom), {})
<1> DEFINE S == Remembered(d, rings, parent, drawFrom)
           bs == Among(parent.atoms, S)
<1>1. parent.atoms \in Seq(Atoms) /\ ToSet(parent.atoms) \subseteq Atoms
  BY TablesFacts, ListFacts DEF Sound
<1>2. S \subseteq ToSet(parent.atoms)
  BY DEF Remembered, MembersOf
<1>3. MemberHistory(d, rings, parent, drawFrom) = Filled(bs)
  BY DEF MemberHistory, Remembered
<1> HIDE DEF S
<1>4. bs \in Seq(Atoms) /\ ToSet(bs) = ToSet(parent.atoms) \cap S
  BY <1>1, <1>2, AmongFacts
<1>5. ToSet(parent.atoms) \cap S = S
  BY <1>2
<1> HIDE DEF bs
<1>6. Adds(Sound, Filled(bs), EmptyGroup, S, {})
  BY <1>4, <1>5, FilledAdds
<1> QED BY <1>3, <1>6 DEF S

-----------------------------------------------------------------------------
(* The groups of a configuration.                                          *)

(* The rings of a MEMBERHISTORY.                                           *)
RingSets == UNION {Seq([0 .. m - 1 -> BOOLEAN]) : m \in Nat}

(* A group and its counters.                                               *)
GroupStates ==
  [group : Sound, mUpdateCount : Nat, mTotalSize : Nat, mvIsMember : RingSets]

(* The groups by name.                                                     *)
States == [Names -> GroupStates]

(* A definition is well defined, and so are the groups it is made from.    *)
LEMMA DefinitionFacts ==
  ASSUME NEW i \in DOMAIN Definitions
  PROVE  LET d == Definitions[i]
         IN  /\ d \in WellDefined /\ d.name \in Names /\ d.kind \in AllKinds
             /\ d.of \in Seq(STRING) /\ d.ids \in Seq(Nat) /\ d.static \in BOOLEAN
             /\ d.maxHistory \in Nat \ {0} /\ Len(d.of) >= GroupsNeeded(d.kind)
             /\ d.kind # "corresponding" => \A k \in DOMAIN d.of : d.of[k] \in Names
<1>1. Definitions[i] \in WellDefined /\ DOMAIN Definitions = 1 .. Len(Definitions)
      /\ Len(Definitions) \in Nat
  BY DefinitionsType DEF DefinitionLists
<1>2. Definitions[i].name \in Names
  BY DEF Names
<1>3. Definitions[i].kind # "corresponding" =>
        \A k \in DOMAIN Definitions[i].of : Definitions[i].of[k] \in Names
  <2> SUFFICES ASSUME Definitions[i].kind # "corresponding", NEW k \in DOMAIN Definitions[i].of
               PROVE  Definitions[i].of[k] \in Names
    OBVIOUS
  <2>1. PICK j \in 1 .. i - 1 : Definitions[j].name = Definitions[i].of[k]
    BY ConfigAssumption
  <2>2. j \in DOMAIN Definitions
    BY <1>1
  <2> QED BY <2>1, <2>2 DEF Names
<1> QED BY <1>1, <1>2, <1>3 DEF WellDefined

(* internalUpdate of every kind makes a sound group from sound groups.     *)
LEMMA InternalUpdateSound ==
  ASSUME NEW gs \in States, NEW i \in DOMAIN Definitions, NEW d, d = Definitions[i],
         d.kind # "corresponding", NEW bonds \in Distances, NEW rings
  PROVE  InternalUpdate(d, gs, bonds, rings) \in Sound
<1> DEFINE of(k) == gs[d.of[k]].group
           all == [k \in DOMAIN d.of |-> of(k)]
<1>1. /\ d.kind \in Kinds /\ d.of \in Seq(STRING) /\ d.ids \in Seq(Nat)
      /\ Len(d.of) >= GroupsNeeded(d.kind)
  BY DefinitionFacts DEF AllKinds
<1>2. \A k \in DOMAIN d.of : of(k) \in Sound
  <2>1. \A k \in DOMAIN d.of : d.of[k] \in Names
    BY DefinitionFacts
  <2> QED BY <2>1 DEF States, GroupStates
<1>3. DOMAIN d.of = 1 .. Len(d.of) /\ Len(d.of) \in Nat
  BY <1>1
<1>4. all \in Seq(Sound) /\ DOMAIN all = DOMAIN d.of /\ \A k \in DOMAIN d.of : all[k] = of(k)
  BY <1>2, <1>3, SMTT(30)
<1> DEFINE u == InternalUpdate(d, gs, bonds, rings)
<1> HIDE DEF of, all
<1>5. /\ d.kind = "atomicnumber" => u = AtomicNumber(d)
      /\ d.kind = "list" => u = List(d)
      /\ d.kind = "subgroup" => u = SubGroup(d, of(1))
      /\ d.kind = "bond" => u = Bond(d, bonds, of(1), of(2))
      /\ d.kind = "sum" => u = Sum(all)
      /\ d.kind = "diff" => u = Diff(all)
      /\ d.kind = "intersection" => u = Intersection(all)
      /\ d.kind = "subgroupcn" => u = SubGroupCN(d, of(1))
      /\ d.kind = "invertcoordination" => u = InvertCoordination(of(1))
      /\ d.kind = "includecoordination" => u = IncludeCoordination(of(1))
      /\ d.kind = "addcoordination" => u = AddCoordination(of(1), of(2))
      /\ d.kind = "coordinationtableintersection" => u = TableIntersection(all)
      /\ d.kind = "findshortest" => u = FindShortest(bonds, of(1), of(2))
      /\ d.kind = "memberhistory" => u = MemberHistory(d, rings, of(1), of(3))
  BY DEF InternalUpdate, of, all
<1> SUFFICES u \in Sound
  OBVIOUS
<1> HIDE DEF u
<1>6. CASE d.kind \in {"atomicnumber", "list"}
  <2>1. CASE d.kind = "atomicnumber"
    <3>1. Adds(Sound, AtomicNumber(d), EmptyGroup, {a \in Atoms : TypeOf[a] \in d.types}, {})
      BY <1>1, AtomicNumberAdds
    <3> QED BY <1>5, <2>1, <3>1 DEF Adds
  <2>2. CASE d.kind = "list"
    <3>1. Adds(Sound, List(d), EmptyGroup, ToSet(d.ids) \cap Atoms, {})
      BY <1>1, ListAdds
    <3> QED BY <1>5, <2>2, <3>1 DEF Adds
  <2> QED BY <1>6, <2>1, <2>2
<1>7. CASE d.kind \notin {"atomicnumber", "list"}
  <2>1. Len(d.of) >= 1
    BY <1>1, <1>3, <1>7 DEF GroupsNeeded
  <2>2. of(1) \in Sound /\ all[1] = of(1)
    BY <1>2, <1>3, <1>4, <2>1
  <2>3. CASE d.kind = "subgroup"
    <3>1. Adds(Sound, SubGroup(d, of(1)), EmptyGroup,
               {of(1).atoms[i2 + 1] : i2 \in {k \in ToSet(d.ids) : k < Len(of(1).atoms)}}, {})
      BY <1>1, <2>2, SubGroupAdds
    <3> QED BY <1>5, <2>3, <3>1 DEF Adds
  <2>4. CASE d.kind \in {"bond", "addcoordination", "findshortest"}
    <3>1. 2 \in DOMAIN d.of
      BY <1>1, <1>3, <2>4 DEF GroupsNeeded
    <3>2. of(2) \in Sound
      BY <1>2, <3>1
    <3>3. CASE d.kind = "bond"
      <4>1. Adds(Sound, Bond(d, bonds, of(1), of(2)), EmptyGroup,
                 UNION {Brought(d, bonds, of(2), a) : a \in MembersOf(of(1))},
                 UNION {PairsOf(a, Partners(d, bonds, of(2), a)) : a \in MembersOf(of(1))})
        BY <2>2, <3>2, BondAdds
      <4> QED BY <1>5, <3>3, <4>1 DEF Adds
    <3>4. CASE d.kind = "addcoordination"
      <4>1. Adds(Sound, AddCoordination(of(1), of(2)), EmptyGroup, MembersOf(of(1)),
                 UNION {SecondPairs(of(1), a, of(2)) : a \in MembersOf(of(1))})
        BY <2>2, <3>2, AddCoordinationAdds
      <4> QED BY <1>5, <3>4, <4>1 DEF Adds
    <3>5. CASE d.kind = "findshortest"
      <4>1. Adds(Sound, FindShortest(bonds, of(1), of(2)), EmptyGroup,
                 UNION {NearestTo(bonds, a, of(2)) : a \in MembersOf(of(1))},
                 UNION {{<<b, a>> : b \in NearestTo(bonds, a, of(2))} : a \in MembersOf(of(1))})
        BY <2>2, <3>2, FindShortestAdds, BondsFacts
      <4> QED BY <1>5, <3>5, <4>1 DEF Adds
    <3> QED BY <2>4, <3>3, <3>4, <3>5
  <2>5. CASE d.kind = "sum"
    <3>1. Adds(Sound, Sum(all), EmptyGroup, UNION {MembersOf(all[k]) : k \in DOMAIN all},
               UNION {Pairs(all[k]) : k \in DOMAIN all})
      BY <1>4, SumAdds
    <3> QED BY <1>5, <2>5, <3>1 DEF Adds
  <2>6. CASE d.kind = "diff"
    <3> DEFINE S == {a \in Atoms : \A j \in 2 .. Len(all) : ~IsMember(all[j], a)}
    <3>1. \E m, p : Adds(Sound, Selected(of(1), S), EmptyGroup, m, p)
      <4> HIDE DEF S
      <4> QED BY <2>2, SelectedAdds
    <3>2. Diff(all) = Selected(of(1), S)
      BY <2>2 DEF Diff
    <3> QED BY <1>5, <2>6, <3>1, <3>2 DEF Adds
  <2>7. CASE d.kind = "intersection"
    <3> DEFINE S == {a \in Atoms : \A j \in 2 .. Len(all) : IsMember(all[j], a)}
    <3>1. \E m, p : Adds(Sound, Selected(of(1), S), EmptyGroup, m, p)
      <4> HIDE DEF S
      <4> QED BY <2>2, SelectedAdds
    <3>2. Intersection(all) = Selected(of(1), S)
      BY <2>2 DEF Intersection
    <3> QED BY <1>5, <2>7, <3>1, <3>2 DEF Adds
  <2>8. CASE d.kind = "subgroupcn"
    <3> DEFINE S == {a \in MembersOf(of(1)) : Coordinated(d, NumberOf(of(1), a))}
    <3>1. \E m, p : Adds(Sound, Selected(of(1), S), EmptyGroup, m, p)
      <4> HIDE DEF S
      <4> QED BY <2>2, SelectedAdds
    <3>2. SubGroupCN(d, of(1)) = Selected(of(1), S)
      BY <2>2 DEF SubGroupCN
    <3> QED BY <1>5, <2>8, <3>1, <3>2 DEF Adds
  <2>9. CASE d.kind = "invertcoordination"
    <3>1. Adds(Sound, InvertCoordination(of(1)), EmptyGroup,
               UNION {ToSet(TableOf(of(1), a)) : a \in MembersOf(of(1))},
               UNION {{<<b, a>> : b \in ToSet(TableOf(of(1), a))} : a \in MembersOf(of(1))})
      BY <2>2, InvertAdds
    <3> QED BY <1>5, <2>9, <3>1 DEF Adds
  <2>10. CASE d.kind = "includecoordination"
    <3>1. Adds(Sound, IncludeCoordination(of(1)), EmptyGroup,
               UNION {{a} \cup ToSet(TableOf(of(1), a)) : a \in MembersOf(of(1))}, {})
      BY <2>2, IncludeAdds
    <3> QED BY <1>5, <2>10, <3>1 DEF Adds
  <2>11. CASE d.kind = "coordinationtableintersection"
    <3>1. Adds(Sound, TableIntersection(all), EmptyGroup, MembersOf(of(1)),
               UNION {PairsOf(a, ToSet(KeptRow(all, a))) : a \in MembersOf(of(1))})
      BY <2>2, TableIntersectionAdds
    <3> QED BY <1>5, <2>11, <3>1 DEF Adds
  <2>12. CASE d.kind = "memberhistory"
    <3>1. Adds(Sound, MemberHistory(d, rings, of(1), of(3)), EmptyGroup,
               Remembered(d, rings, of(1), of(3)), {})
      BY <2>2, MemberHistoryAdds
    <3> QED BY <1>5, <2>12, <3>1 DEF Adds
  <2> QED BY <1>1, <1>7, <2>3, <2>4, <2>5, <2>6, <2>7, <2>8, <2>9, <2>10, <2>11, <2>12 DEF Kinds,
  SetKinds
<1> QED BY <1>6, <1>7

-----------------------------------------------------------------------------
(* The update of one group.                                                *)

(* The rings stay rings of one length.                                     *)
LEMMA RingsType ==
  ASSUME NEW d, d.maxHistory \in Nat \ {0}, NEW n \in Nat, NEW rings \in RingSets,
         NEW parent \in Sound, NEW memberOf
  PROVE  Rings(d, n, rings, parent, memberOf) \in RingSets
<1> DEFINE W(m) == [0 .. m - 1 -> BOOLEAN]
           blank == [i \in 1 .. Len(parent.atoms) |-> [k \in 0 .. d.maxHistory - 1 |-> FALSE]]
           old == IF n = 0 THEN blank ELSE rings
           new == [i \in DOMAIN old |->
                     IF i > Len(parent.atoms) THEN old[i]
                     ELSE [old[i] EXCEPT ![n % d.maxHistory] = IsMember(memberOf, parent.atoms[i])]]
<1>1. \E m \in Nat : old \in Seq(W(m))
  <2>1. CASE n = 0
    <3>1. Len(parent.atoms) \in Nat
      BY TablesFacts, ListFacts DEF Sound
    <3>2. blank \in [1 .. Len(parent.atoms) -> W(d.maxHistory)]
      OBVIOUS
    <3>3. blank \in Seq(W(d.maxHistory))
      <4> HIDE DEF W, blank
      <4> QED BY <3>1, <3>2
    <3> QED BY <2>1, <3>3
  <2>2. CASE n # 0
    <3>1. \E m \in Nat : rings \in Seq(W(m))
      BY DEF RingSets
    <3> QED BY <2>2, <3>1
  <2> QED BY <2>1, <2>2
<1>2. PICK m \in Nat : old \in Seq(W(m))
  BY <1>1
<1>3. \A i \in DOMAIN old : old[i] \in W(m) /\ DOMAIN old = 1 .. Len(old) /\ Len(old) \in Nat
  <2> HIDE DEF old, W
  <2> QED BY <1>2
<1>4. \A i \in DOMAIN old : new[i] \in W(m)
  <2> SUFFICES ASSUME NEW i \in DOMAIN old
               PROVE  new[i] \in W(m)
    OBVIOUS
  <2>1. old[i] \in W(m)
    BY <1>3
  <2>2. [old[i] EXCEPT ![n % d.maxHistory] = IsMember(memberOf, parent.atoms[i])] \in W(m)
    <3>1. IsMember(memberOf, parent.atoms[i]) \in BOOLEAN
      BY DEF IsMember
    <3> DEFINE v == IsMember(memberOf, parent.atoms[i])
               f == old[i]
    <3> HIDE DEF v, f, old
    <3> QED BY <2>1, <3>1 DEF v, f
  <2>3. new[i] = IF i > Len(parent.atoms) THEN old[i]
                 ELSE [old[i] EXCEPT ![n % d.maxHistory] = IsMember(memberOf, parent.atoms[i])]
    <3> HIDE DEF old
    <3> QED OBVIOUS
  <2> HIDE DEF old, new, W
  <2> QED BY <2>1, <2>2, <2>3
<1>5. new \in Seq(W(m))
  <2>1. new \in [1 .. Len(old) -> W(m)] /\ Len(old) \in Nat
    <3>1. DOMAIN new = DOMAIN old
      <4> HIDE DEF old
      <4> QED OBVIOUS
    <3>2. DOMAIN old = 1 .. Len(old) /\ Len(old) \in Nat
      <4> HIDE DEF old, W
      <4> QED BY <1>2
    <3>3. new = [i \in DOMAIN new |-> new[i]]
      <4> HIDE DEF old
      <4> QED OBVIOUS
    <3> HIDE DEF new, old, W
    <3> QED BY <1>4, <3>1, <3>2, <3>3
  <2> HIDE DEF new, old, W
  <2> QED BY <2>1
<1>6. new \in RingSets
  <2> HIDE DEF new
  <2> QED BY <1>5 DEF RingSets
<1> QED BY <1>6 DEF Rings

(* The counters count up.                                                  *)
LEMMA CountedType ==
  ASSUME NEW g \in GroupStates
  PROVE  /\ Counted(g) \in GroupStates
         /\ Counted(g).group = g.group /\ Counted(g).mvIsMember = g.mvIsMember
         /\ Counted(g).mUpdateCount = g.mUpdateCount + 1
         /\ Counted(g).mTotalSize = g.mTotalSize + Len(g.group.atoms)
<1> DEFINE x == g.mUpdateCount + 1
           y == g.mTotalSize + Len(g.group.atoms)
<1>1. Len(g.group.atoms) \in Nat
  BY TablesFacts, ListFacts DEF Sound, GroupStates
<1>2. x \in Nat /\ y \in Nat
  BY <1>1 DEF GroupStates
<1>3. Counted(g) = [g EXCEPT !.mUpdateCount = x, !.mTotalSize = y]
  BY DEF Counted
<1> HIDE DEF x, y
<1>4. /\ Counted(g) \in GroupStates
      /\ Counted(g).group = g.group /\ Counted(g).mvIsMember = g.mvIsMember
      /\ Counted(g).mUpdateCount = x /\ Counted(g).mTotalSize = y
  BY <1>2, <1>3 DEF GroupStates
<1> QED BY <1>4 DEF x, y

(* The rings of a group that is renewed.                                   *)
NewRings(gs, d) ==
  IF d.kind # "memberhistory" THEN <<>>
  ELSE Rings(d, gs[d.name].mUpdateCount, gs[d.name].mvIsMember, gs[d.of[1]].group,
             gs[d.of[2]].group)

(* The parts of a group that is renewed.                                   *)
LEMMA RenewedFacts ==
  ASSUME NEW gs \in States, NEW i \in DOMAIN Definitions, NEW d, d = Definitions[i],
         d.kind # "corresponding", NEW bonds \in Distances
  PROVE  /\ NewRings(gs, d) \in RingSets
         /\ Renewed(gs, d, bonds) \in GroupStates
         /\ Renewed(gs, d, bonds).group = InternalUpdate(d, gs, bonds, NewRings(gs, d))
         /\ Renewed(gs, d, bonds).mvIsMember = NewRings(gs, d)
         /\ Renewed(gs, d, bonds).mUpdateCount = gs[d.name].mUpdateCount
         /\ Renewed(gs, d, bonds).mTotalSize = gs[d.name].mTotalSize
<1>1. gs[d.name] \in GroupStates
  BY DefinitionFacts DEF States
<1>2. NewRings(gs, d) \in RingSets
  <2>1. CASE d.kind # "memberhistory"
    BY <2>1 DEF NewRings, RingSets
  <2>2. CASE d.kind = "memberhistory"
    <3>1. Len(d.of) >= 3 /\ d.of \in Seq(STRING) /\ d.maxHistory \in Nat \ {0}
          /\ \A k \in DOMAIN d.of : d.of[k] \in Names
      BY <2>2, DefinitionFacts DEF GroupsNeeded
    <3>2. 1 \in DOMAIN d.of
      BY <3>1
    <3>3. gs[d.of[1]].group \in Sound
      BY <3>1, <3>2 DEF States, GroupStates
    <3>4. gs[d.name].mUpdateCount \in Nat /\ gs[d.name].mvIsMember \in RingSets
      BY <1>1 DEF GroupStates
    <3> QED BY <2>2, <3>1, <3>3, <3>4, RingsType DEF NewRings
  <2> QED BY <2>1, <2>2
<1>3. InternalUpdate(d, gs, bonds, NewRings(gs, d)) \in Sound
  BY InternalUpdateSound
<1>4. Renewed(gs, d, bonds) =
        [gs[d.name] EXCEPT !.group = InternalUpdate(d, gs, bonds, NewRings(gs, d)),
                           !.mvIsMember = NewRings(gs, d)]
  BY DEF Renewed, NewRings
<1> QED BY <1>1, <1>2, <1>3, <1>4 DEF GroupStates

(* The group that a BOND fills besides its own.                            *)
Other(gs, d, bonds) ==
  [gs[d.corresponding] EXCEPT !.group =
     Corresponding(d, bonds, gs[d.of[1]].group, gs[d.of[2]].group)]

(* The parts of a corresponding group that is filled.                      *)
LEMMA OtherFacts ==
  ASSUME NEW gs \in States, NEW i \in DOMAIN Definitions, NEW d, d = Definitions[i],
         d.kind = "bond", d.corresponding \in Names, NEW bonds
  PROVE  /\ Other(gs, d, bonds) \in GroupStates
         /\ Other(gs, d, bonds).group =
              Corresponding(d, bonds, gs[d.of[1]].group, gs[d.of[2]].group)
         /\ Other(gs, d, bonds).mUpdateCount = gs[d.corresponding].mUpdateCount
         /\ Other(gs, d, bonds).mTotalSize = gs[d.corresponding].mTotalSize
<1>1. Len(d.of) >= 2 /\ d.of \in Seq(STRING) /\ \A k \in DOMAIN d.of : d.of[k] \in Names
  BY DefinitionFacts DEF GroupsNeeded
<1>2. 1 \in DOMAIN d.of /\ 2 \in DOMAIN d.of
  BY <1>1
<1>3. gs[d.of[1]].group \in Sound /\ gs[d.of[2]].group \in Sound
  BY <1>1, <1>2 DEF States, GroupStates
<1>4. Corresponding(d, bonds, gs[d.of[1]].group, gs[d.of[2]].group) \in Sound
  BY <1>3, CorrespondingAdds DEF Adds
<1>5. gs[d.corresponding] \in GroupStates
  BY DEF States
<1> QED BY <1>4, <1>5 DEF Other, GroupStates

(* The groups that an update changes.                                      *)
Touched(d) == {d.name} \cup (IF d.kind = "bond" /\ d.corresponding # NoGroup
                             THEN {d.corresponding} ELSE {})

(* Group::update changes the group of its definition and, for a BOND, the  *)
(* corresponding group, and no other.                                      *)
LEMMA UpdateFacts ==
  ASSUME NEW gs \in States, NEW i \in DOMAIN Definitions, NEW d, d = Definitions[i],
         NEW bonds \in Distances
  PROVE  LET h == Update(gs, d, bonds)
         IN  /\ h \in States
             /\ \A n \in Names \ Touched(d) : h[n] = gs[n]
             /\ d.kind = "corresponding" => h = gs
             /\ d.kind # "corresponding" =>
                  h[d.name] = IF Skipped(d, gs) THEN Counted(gs[d.name])
                              ELSE Counted(Renewed(gs, d, bonds))
             /\ d.kind = "bond" /\ d.corresponding \in Names \ {d.name, NoGroup} =>
                  h[d.corresponding] = IF Skipped(d, gs) THEN gs[d.corresponding]
                                       ELSE Counted(Other(gs, d, bonds))
<1> DEFINE h == Update(gs, d, bonds)
           fill == d.kind = "bond" /\ d.corresponding # NoGroup
           filled == IF fill THEN [gs EXCEPT ![d.corresponding] = Counted(Other(gs, d, bonds))]
                     ELSE gs
           own == Counted(Renewed(gs, d, bonds))
           kept == Counted(gs[d.name])
<1>1. /\ d.kind = "corresponding" => h = gs
      /\ d.kind # "corresponding" /\ Skipped(d, gs) => h = [gs EXCEPT ![d.name] = kept]
      /\ d.kind # "corresponding" /\ ~Skipped(d, gs) => h = [filled EXCEPT ![d.name] = own]
  BY DEF Update, FillCorresponding, Other
<1>2. d.name \in Names /\ gs[d.name] \in GroupStates
  BY DefinitionFacts DEF States
<1>3. kept \in GroupStates
  BY <1>2, CountedType
<1>4. d.kind # "corresponding" => own \in GroupStates
  BY RenewedFacts, CountedType
<1>5. d.corresponding \in Names /\ fill => Counted(Other(gs, d, bonds)) \in GroupStates
  BY OtherFacts, CountedType
<1>6. filled \in States
  BY <1>5 DEF States
<1>7. \A n \in Names \ Touched(d) : filled[n] = gs[n] /\ n # d.name
  BY DEF Touched, States
<1>8. d.corresponding \in Names \ {NoGroup} /\ d.kind = "bond" =>
        filled[d.corresponding] = Counted(Other(gs, d, bonds))
  BY DEF States
<1> HIDE DEF h, filled, own, kept
<1>9. CASE d.kind = "corresponding"
  BY <1>1, <1>9 DEF h
<1>10. CASE d.kind # "corresponding" /\ Skipped(d, gs)
  <2>1. h = [gs EXCEPT ![d.name] = kept]
    BY <1>1, <1>10
  <2>2. h \in States /\ h[d.name] = kept /\ \A n \in Names \ {d.name} : h[n] = gs[n]
    BY <1>2, <1>3, <2>1 DEF States
  <2> QED BY <1>7, <1>10, <2>2 DEF h, kept
<1>11. CASE d.kind # "corresponding" /\ ~Skipped(d, gs)
  <2>1. h = [filled EXCEPT ![d.name] = own]
    BY <1>1, <1>11
  <2>2. h \in States /\ h[d.name] = own /\ \A n \in Names \ {d.name} : h[n] = filled[n]
    BY <1>2, <1>4, <1>6, <1>11, <2>1 DEF States
  <2>3. d.kind = "bond" /\ d.corresponding \in Names \ {d.name, NoGroup} =>
          h[d.corresponding] = Counted(Other(gs, d, bonds))
    BY <1>8, <2>2
  <2> QED BY <1>7, <1>11, <2>2, <2>3 DEF h, own
<1> QED BY <1>9, <1>10, <1>11

-----------------------------------------------------------------------------
(* All the groups in a frame.                                              *)

(* The groups after each update of a frame.                                *)
IsUpdateRun(gs, bonds, r) ==
  /\ r \in [0 .. Len(Definitions) -> States] /\ r[0] = gs
  /\ \A k \in 1 .. Len(Definitions) : r[k] = Update(r[k - 1], Definitions[k], bonds)

(* The updates of a frame, one by one.                                     *)
LEMMA UpdateRun ==
  ASSUME NEW gs \in States, NEW bonds \in Distances
  PROVE  \E r : IsUpdateRun(gs, bonds, r) /\ UpdateGroups(gs, bonds) = r[Len(Definitions)]
<1> DEFINE n == Len(Definitions)
<1>1. n \in Nat /\ DOMAIN Definitions = 1 .. n
  BY DefinitionsType DEF DefinitionLists
<1> HIDE DEF n
<1>2. ASSUME NEW k \in 1 .. n, NEW h \in States
      PROVE  Update(h, Definitions[k], bonds) \in States
  BY <1>1, UpdateFacts
<1> DEFINE F == [k \in 1 .. n |-> [h \in States |-> Update(h, Definitions[k], bonds)]]
           Rec(c) == [p \in SUBSET (1 .. n) |-> IF p = {} THEN gs
                        ELSE Update(c[p \ {Max(p)}], Definitions[Max(p)], bonds)]
<1>3. \A k \in 1 .. n, h \in States : F[k][h] = Update(h, Definitions[k], bonds)
  OBVIOUS
<1>4. Closed(n, States, F)
  BY <1>1, <1>2, <1>3 DEF Closed
<1> HIDE DEF F
<1>5. \E w : w = Rec(w)
  <2>1. PICK w : IsFold(n, States, gs, F, w)
    <3> HIDE DEF Rec
    <3> QED BY <1>1, <1>4, FoldExists
  <2>2. \A p \in SUBSET (1 .. n) : p # {} =>
          F[Max(p)][w[p \ {Max(p)}]] = Update(w[p \ {Max(p)}], Definitions[Max(p)], bonds)
    BY <1>1, <1>3, <2>1, MaxFacts DEF IsFold
  <2>3. w = Rec(w)
    BY <2>1, <2>2 DEF IsFold
  <2> HIDE DEF Rec
  <2> QED BY <2>3
<1>6. PICK c : c = Rec(c) /\ UpdateGroups(gs, bonds) = c[1 .. n]
  <2>1. UpdateGroups(gs, bonds) = (CHOOSE c : c = Rec(c))[1 .. n]
    BY <1>1 DEF UpdateGroups, FoldLeft, MapThenFoldSet
  <2> HIDE DEF Rec
  <2> QED BY <1>5, <2>1
<1>7. Unfolds(n, States, gs, F, c)
  <2>1. c[{}] = gs
    BY <1>6
  <2>2. ASSUME NEW p \in SUBSET (1 .. n), p # {}, c[p \ {Max(p)}] \in States
        PROVE  c[p] = F[Max(p)][c[p \ {Max(p)}]]
    <3>1. c[p] = Update(c[p \ {Max(p)}], Definitions[Max(p)], bonds)
      BY <1>6, <2>2
    <3>2. Max(p) \in 1 .. n
      BY <1>1, <2>2, MaxFacts
    <3> HIDE DEF Rec
    <3> QED BY <1>3, <2>2, <3>1, <3>2
  <2> HIDE DEF Rec
  <2> QED BY <2>1, <2>2 DEF Unfolds
<1> HIDE DEF Rec
<1>8. PICK r : IsRun(n, States, gs, F, r) /\ c[1 .. n] = r[n]
  BY <1>1, <1>4, <1>7, FoldRuns
<1>9. r \in [0 .. n -> States] /\ r[0] = gs /\ \A k \in 1 .. n : r[k] = F[k][r[k - 1]]
  BY <1>8 DEF IsRun
<1>10. ASSUME NEW k \in 1 .. n
       PROVE  r[k] = Update(r[k - 1], Definitions[k], bonds)
  <2>1. k - 1 \in 0 .. n
    BY <1>1
  <2>2. r[k - 1] \in States
    BY <1>9, <2>1
  <2> QED BY <1>3, <1>9, <2>2
<1>11. IsUpdateRun(gs, bonds, r)
  BY <1>9, <1>10 DEF IsUpdateRun, n
<1> QED BY <1>6, <1>8, <1>11 DEF n

(* The action that a group gets its members from.                          *)
Writer(i) == IF Definitions[i].kind = "corresponding" THEN i + 1 ELSE i

(* Every group has one action that changes it: its own, or the BOND after  *)
(* it.                                                                     *)
LEMMA WriterFacts ==
  ASSUME NEW i \in DOMAIN Definitions
  PROVE  /\ Writer(i) \in DOMAIN Definitions
         /\ Definitions[Writer(i)].kind # "corresponding"
         /\ Definitions[i].kind = "corresponding" => IsOther(Definitions[i], Definitions[Writer(i)])
         /\ \A k \in DOMAIN Definitions \ {Writer(i)} :
              \/ Definitions[k].kind = "corresponding"
              \/ Definitions[i].name \notin Touched(Definitions[k])
<1>1. Paired(Definitions) /\ DOMAIN Definitions = 1 .. Len(Definitions) /\ Len(Definitions) \in Nat
  BY DefinitionsType DEF DefinitionLists
<1>2. Definitions[i].kind = "corresponding" =>
        Writer(i) \in DOMAIN Definitions /\ IsOther(Definitions[i], Definitions[Writer(i)])
  BY <1>1 DEF Writer, Paired
<1>3. Writer(i) \in DOMAIN Definitions /\ Definitions[Writer(i)].kind # "corresponding"
  <2>1. CASE Definitions[i].kind = "corresponding"
    BY <1>2, <2>1 DEF IsOther
  <2>2. CASE Definitions[i].kind # "corresponding"
    BY <2>2 DEF Writer
  <2> QED BY <2>1, <2>2
<1>4. ASSUME NEW k \in DOMAIN Definitions, k # Writer(i), Definitions[k].kind # "corresponding",
             Definitions[i].name \in Touched(Definitions[k])
      PROVE  FALSE
  <2>1. CASE Definitions[i].name = Definitions[k].name
    <3>1. i = k
      BY <2>1, ConfigAssumption
    <3> QED BY <1>4, <3>1 DEF Writer
  <2>2. CASE /\ Definitions[k].kind = "bond" /\ Definitions[k].corresponding # NoGroup
             /\ Definitions[i].name = Definitions[k].corresponding
    <3>1. k - 1 \in DOMAIN Definitions /\ IsOther(Definitions[k - 1], Definitions[k])
      BY <1>1, <2>2 DEF Paired
    <3>2. Definitions[k - 1].name = Definitions[i].name /\ Definitions[k - 1].kind = "corresponding"
      BY <2>2, <3>1 DEF IsOther
    <3>3. i = k - 1
      BY <3>1, <3>2, ConfigAssumption
    <3> QED BY <1>1, <1>4, <3>2, <3>3 DEF Writer
  <2> QED BY <1>4, <2>1, <2>2 DEF Touched
<1> QED BY <1>2, <1>3, <1>4

(* A group is as it was before the action of its writer, and as it will be *)
(* after it.                                                               *)
LEMMA RunFacts ==
  ASSUME NEW gs \in States, NEW bonds \in Distances, NEW r, IsUpdateRun(gs, bonds, r),
         NEW i \in DOMAIN Definitions, NEW k \in 0 .. Len(Definitions)
  PROVE  r[k][Definitions[i].name] =
           IF k < Writer(i) THEN gs[Definitions[i].name]
           ELSE r[Len(Definitions)][Definitions[i].name]
<1> DEFINE n == Len(Definitions)
           name == Definitions[i].name
           w == Writer(i)
<1>1. n \in Nat /\ DOMAIN Definitions = 1 .. n /\ w \in 1 .. n
  BY DefinitionsType, WriterFacts DEF DefinitionLists
<1>2. r \in [0 .. n -> States] /\ r[0] = gs
      /\ \A j \in 1 .. n : r[j] = Update(r[j - 1], Definitions[j], bonds)
  BY DEF IsUpdateRun
<1>3. ASSUME NEW j \in 1 .. n, j # w
      PROVE  r[j][name] = r[j - 1][name]
  <2>1. j - 1 \in 0 .. n
    BY <1>1
  <2>2. r[j - 1] \in States
    BY <1>2, <2>1
  <2>3. Definitions[j].kind = "corresponding" \/ name \notin Touched(Definitions[j])
    BY <1>1, <1>3, WriterFacts
  <2>4. name \in Names
    BY DEF Names
  <2>5. r[j] = Update(r[j - 1], Definitions[j], bonds)
    BY <1>2
  <2> HIDE DEF name
  <2> QED BY <1>1, <2>2, <2>3, <2>4, <2>5, UpdateFacts
<1> HIDE DEF n, name, w
<1> DEFINE S == {j \in 0 .. n : j < w => r[j][name] = gs[name]}
           T == {j \in 0 .. n : j >= w => r[j][name] = r[w][name]}
<1>4. 0 .. n \subseteq S
  <2>1. 0 \in S
    BY <1>1, <1>2
  <2>2. \A j \in 1 .. n : j - 1 \in S => j \in S
    <3> SUFFICES ASSUME NEW j \in 1 .. n, j - 1 \in S
                 PROVE  j \in S
      OBVIOUS
    <3>1. j \in 0 .. n /\ (j < w => j - 1 < w /\ j # w)
      BY <1>1
    <3> QED BY <1>3, <3>1
  <2> HIDE DEF S
  <2> QED BY <1>1, <2>1, <2>2, Everywhere
<1>5. 0 .. n \subseteq T
  <2>1. 0 \in T
    BY <1>1
  <2>2. \A j \in 1 .. n : j - 1 \in T => j \in T
    <3> SUFFICES ASSUME NEW j \in 1 .. n, j - 1 \in T
                 PROVE  j \in T
      OBVIOUS
    <3>1. j \in 0 .. n /\ (j >= w /\ j # w => j - 1 >= w)
      BY <1>1
    <3> QED BY <1>3, <3>1
  <2> HIDE DEF T
  <2> QED BY <1>1, <2>1, <2>2, Everywhere
<1>6. n \in 0 .. n /\ n >= w /\ k \in 0 .. n /\ (k < w \/ k >= w)
  BY <1>1 DEF n
<1>7. r[n][name] = r[w][name]
  BY <1>5, <1>6
<1>8. r[k][name] = IF k < w THEN gs[name] ELSE r[n][name]
  BY <1>4, <1>5, <1>6, <1>7
<1> QED BY <1>8 DEF n, name, w

(* What a frame makes of a group and of the group that a BOND fills: what  *)
(* its action makes of the groups as they were, h.                         *)
Made(gs, h, final, d, bonds) ==
  /\ h \in States /\ h[d.name] = gs[d.name]
  /\ \A k \in DOMAIN d.of : h[d.of[k]] = final[d.of[k]]
  /\ final[d.name] = IF Skipped(d, gs) THEN Counted(gs[d.name]) ELSE Counted(Renewed(h, d, bonds))
  /\ d.kind = "bond" /\ d.corresponding # NoGroup =>
       /\ d.corresponding \in Names /\ h[d.corresponding] = gs[d.corresponding]
       /\ final[d.corresponding] = IF Skipped(d, gs) THEN gs[d.corresponding]
                                   ELSE Counted(Other(h, d, bonds))

(* What a frame makes of every group.                                      *)
LEMMA FrameFacts ==
  ASSUME NEW gs \in States, NEW bonds \in Distances
  PROVE  /\ UpdateGroups(gs, bonds) \in States
         /\ \A i \in DOMAIN Definitions : Definitions[i].kind # "corresponding" =>
              \E h : Made(gs, h, UpdateGroups(gs, bonds), Definitions[i], bonds)
<1> DEFINE n == Len(Definitions)
<1>1. n \in Nat /\ DOMAIN Definitions = 1 .. n /\ Paired(Definitions)
  BY DefinitionsType DEF DefinitionLists
<1>2. PICK r : IsUpdateRun(gs, bonds, r) /\ UpdateGroups(gs, bonds) = r[n]
  BY UpdateRun
<1>3. r \in [0 .. n -> States]
      /\ \A j \in 1 .. n : r[j] = Update(r[j - 1], Definitions[j], bonds)
  BY <1>2 DEF IsUpdateRun
<1>4. n \in 0 .. n
  BY <1>1
<1>5. ASSUME NEW i \in 1 .. n, Definitions[i].kind # "corresponding"
      PROVE  Made(gs, r[i - 1], r[n], Definitions[i], bonds)
  <2> DEFINE d == Definitions[i]
             h == r[i - 1]
  <2>1. i - 1 \in 0 .. n /\ i \in 0 .. n /\ i - 1 < i /\ ~(i < i)
    BY <1>1
  <2>2. h \in States /\ r[i] = Update(h, d, bonds)
    BY <1>3, <2>1
  <2>3. Writer(i) = i
    BY <1>5 DEF Writer
  <2>4. h[d.name] = gs[d.name] /\ r[i][d.name] = r[n][d.name]
    <3>1. h[d.name] = IF i - 1 < Writer(i) THEN gs[d.name] ELSE r[n][d.name]
      BY <1>1, <1>2, <2>1, RunFacts
    <3>2. r[i][d.name] = IF i < Writer(i) THEN gs[d.name] ELSE r[n][d.name]
      BY <1>1, <1>2, <2>1, RunFacts
    <3> QED BY <2>1, <2>3, <3>1, <3>2
  <2>5. ASSUME NEW k \in DOMAIN d.of
        PROVE  h[d.of[k]] = r[n][d.of[k]]
    <3>1. PICK j \in 1 .. i - 1 : Definitions[j].name = d.of[k]
      BY <1>1, <1>5, ConfigAssumption
    <3>2. j \in 1 .. n /\ j <= i - 1
      BY <1>1, <3>1
    <3>3. Writer(j) <= i - 1
      <4>1. CASE Definitions[j].kind # "corresponding"
        BY <3>2, <4>1 DEF Writer
      <4>2. CASE Definitions[j].kind = "corresponding" /\ j # i - 1
        BY <1>1, <3>2, <4>2 DEF Writer
      <4>3. CASE Definitions[j].kind = "corresponding" /\ j = i - 1
        <5>1. IsOther(Definitions[j], d)
          BY <1>1, <3>2, <4>3 DEF Paired
        <5>2. d.kind = "bond" /\ d.of[k] = d.corresponding
          BY <3>1, <5>1 DEF IsOther
        <5> QED BY <1>1, <5>2, ConfigAssumption
      <4> QED BY <4>1, <4>2, <4>3
    <3>4. r[i - 1][Definitions[j].name] =
            IF i - 1 < Writer(j) THEN gs[Definitions[j].name] ELSE r[n][Definitions[j].name]
      BY <1>1, <1>2, <2>1, <3>2, RunFacts
    <3>5. Writer(j) \in Nat /\ i - 1 \in Nat
      BY <1>1, <3>2 DEF Writer
    <3>6. ~(i - 1 < Writer(j))
      BY <3>3, <3>5
    <3> QED BY <3>1, <3>4, <3>6
  <2>6. Skipped(d, h) <=> Skipped(d, gs)
    BY <2>4 DEF Skipped
  <2>7. r[n][d.name] = IF Skipped(d, gs) THEN Counted(gs[d.name]) ELSE Counted(Renewed(h, d, bonds))
    <3>1. r[i][d.name] = IF Skipped(d, h) THEN Counted(h[d.name]) ELSE Counted(Renewed(h, d, bonds))
      <4> HIDE DEF h
      <4> QED BY <1>1, <1>5, <2>2, UpdateFacts
    <3> HIDE DEF d, h
    <3> QED BY <2>4, <2>6, <3>1
  <2>8. ASSUME d.kind = "bond", d.corresponding # NoGroup
        PROVE  /\ d.corresponding \in Names /\ h[d.corresponding] = gs[d.corresponding]
               /\ r[n][d.corresponding] = IF Skipped(d, gs) THEN gs[d.corresponding]
                                          ELSE Counted(Other(h, d, bonds))
    <3>1. i - 1 \in 1 .. n /\ IsOther(Definitions[i - 1], d)
      BY <1>1, <2>8 DEF Paired
    <3>2. Definitions[i - 1].name = d.corresponding /\ Definitions[i - 1].kind = "corresponding"
      BY <3>1 DEF IsOther
    <3>3. d.corresponding \in Names
      BY <1>1, <3>1, <3>2 DEF Names
    <3>4. d.corresponding # d.name
      <4>1. i - 1 # i
        BY <1>1
      <4> QED BY <1>1, <3>1, <3>2, <4>1, ConfigAssumption
    <3>5. Writer(i - 1) = i
      BY <1>1, <3>2 DEF Writer
    <3>6. h[d.corresponding] = gs[d.corresponding] /\ r[i][d.corresponding] = r[n][d.corresponding]
      <4>1. h[d.corresponding] = IF i - 1 < Writer(i - 1) THEN gs[d.corresponding] ELSE r[n][d.corresponding]
        BY <1>1, <1>2, <2>1, <3>1, <3>2, RunFacts
      <4>2. r[i][d.corresponding] = IF i < Writer(i - 1) THEN gs[d.corresponding] ELSE r[n][d.corresponding]
        BY <1>1, <1>2, <2>1, <3>1, <3>2, RunFacts
      <4> QED BY <2>1, <3>5, <4>1, <4>2
    <3>7. r[i][d.corresponding] = IF Skipped(d,
                                             h) THEN h[d.corresponding] ELSE Counted(Other(h, d,
                                                                                           bonds))
      <4>1. d.corresponding \in Names \ {d.name, NoGroup}
        BY <2>8, <3>3, <3>4
      <4> HIDE DEF h
      <4> QED BY <1>1, <2>2, <2>8, <4>1, UpdateFacts
    <3> HIDE DEF d, h
    <3> QED BY <2>6, <3>3, <3>6, <3>7
  <2> HIDE DEF d, h
  <2>9. Made(gs, h, r[n], d, bonds)
    BY <2>2, <2>4, <2>5, <2>7, <2>8 DEF Made
  <2> QED BY <2>9 DEF d, h
<1> HIDE DEF n
<1>6. r[n] \in States
  BY <1>3, <1>4
<1> QED BY <1>1, <1>2, <1>5, <1>6

-----------------------------------------------------------------------------
(* The sizes in all frames, added up.                                      *)

(* The sum after each frame.                                               *)
IsSizesRun(frames, r) ==
  /\ r \in [0 .. Len(frames) -> Nat] /\ r[0] = 0
  /\ \A k \in 1 .. Len(frames) : r[k] = r[k - 1] + Cardinality(frames[k])

(* The sum, frame by frame.                                                *)
LEMMA SizesRun ==
  ASSUME NEW frames \in Seq(SUBSET Atoms)
  PROVE  \E r : IsSizesRun(frames, r) /\ SizesOf(frames) = r[Len(frames)]
<1> DEFINE n == Len(frames)
           W == Nat
<1>1. /\ n \in Nat /\ DOMAIN frames = 1 .. n /\ \A k \in 1 .. n : frames[k] \in SUBSET Atoms
      /\ 0 \in W
  OBVIOUS
<1> HIDE DEF n
<1>2. ASSUME NEW k \in 1 .. n, NEW h \in W
      PROVE  h + Cardinality(frames[k]) \in W
  <2>1. IsFiniteSet(frames[k])
    BY <1>1, IdsFacts, FS_Subset
  <2>2. Cardinality(frames[k]) \in Nat
    BY <2>1, FS_CardinalityType
  <2> QED BY <2>2
<1> HIDE DEF W
<1> DEFINE F == [k \in 1 .. n |-> [h \in W |-> h + Cardinality(frames[k])]]
           Rec(c) == [p \in SUBSET (1 .. n) |-> IF p = {} THEN 0
                        ELSE c[p \ {Max(p)}] + Cardinality(frames[Max(p)])]
<1>3. \A k \in 1 .. n, h \in W : F[k][h] = h + Cardinality(frames[k])
  OBVIOUS
<1>4. Closed(n, W, F)
  BY <1>1, <1>2, <1>3 DEF Closed
<1> HIDE DEF F
<1>5. \E w : w = Rec(w)
  <2>1. PICK w : IsFold(n, W, 0, F, w)
    <3> HIDE DEF Rec
    <3> QED BY <1>1, <1>4, FoldExists
  <2>2. \A p \in SUBSET (1 .. n) : p # {} =>
          F[Max(p)][w[p \ {Max(p)}]] = w[p \ {Max(p)}] + Cardinality(frames[Max(p)])
    BY <1>1, <1>3, <2>1, MaxFacts DEF IsFold
  <2>3. w = Rec(w)
    BY <2>1, <2>2 DEF IsFold
  <2> HIDE DEF Rec
  <2> QED BY <2>3
<1>6. PICK c : c = Rec(c) /\ SizesOf(frames) = c[1 .. n]
  <2>1. SizesOf(frames) = (CHOOSE c : c = Rec(c))[1 .. n]
    BY <1>1 DEF SizesOf, FoldLeft, MapThenFoldSet
  <2> HIDE DEF Rec
  <2> QED BY <1>5, <2>1
<1>7. Unfolds(n, W, 0, F, c)
  <2>1. c[{}] = 0
    BY <1>6
  <2>2. ASSUME NEW p \in SUBSET (1 .. n), p # {}, c[p \ {Max(p)}] \in W
        PROVE  c[p] = F[Max(p)][c[p \ {Max(p)}]]
    <3>1. c[p] = c[p \ {Max(p)}] + Cardinality(frames[Max(p)])
      BY <1>6, <2>2
    <3>2. Max(p) \in 1 .. n
      BY <1>1, <2>2, MaxFacts
    <3> HIDE DEF Rec
    <3> QED BY <1>3, <2>2, <3>1, <3>2
  <2> HIDE DEF Rec
  <2> QED BY <2>1, <2>2 DEF Unfolds
<1> HIDE DEF Rec
<1>8. PICK r : IsRun(n, W, 0, F, r) /\ c[1 .. n] = r[n]
  BY <1>1, <1>4, <1>7, FoldRuns
<1>9. r \in [0 .. n -> W] /\ r[0] = 0 /\ \A k \in 1 .. n : r[k] = F[k][r[k - 1]]
  BY <1>8 DEF IsRun
<1>10. ASSUME NEW k \in 1 .. n
       PROVE  r[k] = r[k - 1] + Cardinality(frames[k])
  <2>1. k - 1 \in 0 .. n
    BY <1>1
  <2>2. r[k - 1] \in W
    BY <1>9, <2>1
  <2> QED BY <1>3, <1>9, <2>2
<1>11. IsSizesRun(frames, r)
  BY <1>9, <1>10 DEF IsSizesRun, n, W
<1> QED BY <1>6, <1>8, <1>11 DEF n

(* Before the first frame the sum is 0.                                    *)
LEMMA SizesOfNone == SizesOf(<<>>) = 0
<1>1. <<>> \in Seq(SUBSET Atoms) /\ Len(<<>>) = 0
  OBVIOUS
<1>2. PICK r : IsSizesRun(<<>>, r) /\ SizesOf(<<>>) = r[Len(<<>>)]
  BY <1>1, SizesRun
<1> QED BY <1>1, <1>2 DEF IsSizesRun

(* A frame adds its size to the sum.                                       *)
LEMMA SizesOfAppend ==
  ASSUME NEW frames \in Seq(SUBSET Atoms), NEW x \in SUBSET Atoms
  PROVE  /\ SizesOf(frames) \in Nat /\ Cardinality(x) \in Nat
         /\ SizesOf(Append(frames, x)) = SizesOf(frames) + Cardinality(x)
<1> DEFINE n == Len(frames)
           t == Append(frames, x)
<1>1. /\ n \in Nat /\ t \in Seq(SUBSET Atoms) /\ Len(t) = n + 1 /\ t[n + 1] = x
      /\ \A k \in 1 .. n : t[k] = frames[k]
  OBVIOUS
<1>2. PICK r : IsSizesRun(frames, r) /\ SizesOf(frames) = r[n]
  BY SizesRun
<1>3. PICK q : IsSizesRun(t, q) /\ SizesOf(t) = q[n + 1]
  <2> HIDE DEF t
  <2> QED BY <1>1, SizesRun
<1> HIDE DEF n, t
<1>4. r \in [0 .. n -> Nat] /\ r[0] = 0 /\ \A k \in 1 .. n : r[k] = r[k - 1] + Cardinality(frames[k])
  BY <1>2 DEF IsSizesRun, n
<1>5. q \in [0 .. n + 1 -> Nat] /\ q[0] = 0
      /\ \A k \in 1 .. n + 1 : q[k] = q[k - 1] + Cardinality(t[k])
  BY <1>1, <1>3 DEF IsSizesRun
<1> DEFINE S == {k \in 0 .. n : q[k] = r[k]}
<1>6. 0 .. n \subseteq S
  <2>1. 0 \in S
    BY <1>1, <1>4, <1>5
  <2>2. ASSUME NEW k \in 1 .. n, k - 1 \in S
        PROVE  k \in S
    <3>1. k \in 0 .. n /\ k \in 1 .. n + 1
      BY <1>1
    <3> QED BY <1>1, <1>4, <1>5, <2>2, <3>1
  <2> HIDE DEF S
  <2> QED BY <1>1, <2>1, <2>2, Everywhere
<1>7. q[n] = r[n]
  BY <1>1, <1>6
<1>8. n + 1 \in 1 .. n + 1 /\ (n + 1) - 1 = n /\ n \in 0 .. n
  BY <1>1
<1>9. q[n + 1] = r[n] + Cardinality(x)
  BY <1>1, <1>5, <1>7, <1>8
<1>10. r[n] \in Nat
  BY <1>4, <1>8
<1>11. Cardinality(x) \in Nat
  BY IdsFacts, FS_Subset, FS_CardinalityType
<1> QED BY <1>2, <1>3, <1>9, <1>10, <1>11 DEF n, t

(* A group has as many members as its list is long.                        *)
LEMMA GroupSize ==
  ASSUME NEW g \in Sound
  PROVE  /\ MembersOf(g) \in SUBSET Atoms /\ Len(g.atoms) \in Nat
         /\ Cardinality(MembersOf(g)) = Len(g.atoms)
<1>1. g \in Tables /\ g.atoms \in Lists
  BY TablesFacts DEF Sound
<1> QED BY <1>1, TablesFacts, ListFacts, ListCardinality DEF MembersOf, Lists

-----------------------------------------------------------------------------
(* The invariant: the groups are sound, and the counters of group i have   *)
(* counted all frames, or only the first one if it is the corresponding    *)
(* group of a static BOND.                                                 *)

CountedOnce(i) == Definitions[i].kind = "corresponding" /\ Definitions[i].static

(* The counters of group g after the frames of times.                      *)
CountsAll(g, times) == g.mUpdateCount = Len(times) /\ g.mTotalSize = SizesOf(times)

(* The counters of a group that is counted in the first frame only.        *)
CountsFirst(g, times) ==
  LET size == Len(g.group.atoms)
  IN  /\ times = <<>> => g.mUpdateCount = 0 /\ g.mTotalSize = 0
      /\ times # <<>> => /\ g.mUpdateCount = 1 /\ g.mTotalSize = size
                         /\ SizesOf(times) = Len(times) * size

(* The counters of group i.                                                *)
Counts(i, g, times) == IF CountedOnce(i) THEN CountsFirst(g, times) ELSE CountsAll(g, times)

(* The counters of all groups.                                             *)
CountsRight(gs, hist) ==
  \A i \in DOMAIN Definitions : Counts(i, gs[Definitions[i].name], hist[Definitions[i].name])

(* Histories of equally many frames.                                       *)
Histories == {hist \in [Names -> Seq(SUBSET Atoms)] :
                \A m, n \in Names : Len(hist[m]) = Len(hist[n])}

(* The inductive invariant.                                                *)
GroupsInv ==
  /\ vpGroups \in States
  /\ past \in Histories
  /\ \A n \in Names : Len(past[n]) <= NumFrames
  /\ CountsRight(vpGroups, past)

(* A group of the frame with its new list of members.                      *)
LEMMA CountsAllStep ==
  ASSUME NEW g \in GroupStates, NEW times \in Seq(SUBSET Atoms), CountsAll(g, times),
         NEW h \in GroupStates, h.mUpdateCount = g.mUpdateCount, h.mTotalSize = g.mTotalSize
  PROVE  CountsAll(Counted(h), Append(times, MembersOf(Counted(h).group)))
<1>1. /\ Counted(h).group = h.group /\ Counted(h).mUpdateCount = Len(times) + 1
      /\ Counted(h).mTotalSize = SizesOf(times) + Len(h.group.atoms)
  BY CountedType DEF CountsAll
<1>2. h.group \in Sound
  BY DEF GroupStates
<1>3. Len(Append(times, MembersOf(h.group))) = Len(times) + 1
  BY <1>2, GroupSize
<1>4. SizesOf(Append(times, MembersOf(h.group))) = SizesOf(times) + Len(h.group.atoms)
  BY <1>2, GroupSize, SizesOfAppend
<1> QED BY <1>1, <1>3, <1>4 DEF CountsAll

(* A group that is counted in the first frame only, after another frame.   *)
LEMMA CountsFirstStep ==
  ASSUME NEW g \in GroupStates, NEW times \in Seq(SUBSET Atoms), CountsFirst(g, times),
         NEW h \in GroupStates, times = <<>> => h = Counted([g EXCEPT !.group = h.group]),
         times # <<>> => h = g
  PROVE  CountsFirst(h, Append(times, MembersOf(h.group)))
<1> DEFINE size == Len(h.group.atoms)
           all == Append(times, MembersOf(h.group))
<1>1. MembersOf(h.group) \in SUBSET Atoms /\ size \in Nat /\ Cardinality(MembersOf(h.group)) = size
  BY GroupSize DEF GroupStates
<1>2. Len(all) = Len(times) + 1 /\ all # <<>> /\ Len(times) \in Nat
  BY <1>1, SMTT(30)
<1>3. SizesOf(all) = SizesOf(times) + size
  BY <1>1, SizesOfAppend
<1>4. h.mUpdateCount = 1 /\ h.mTotalSize = size /\ SizesOf(times) = Len(times) * size
  <2>1. CASE times = <<>>
    <3> DEFINE k == [g EXCEPT !.group = h.group]
    <3>1. k \in GroupStates /\ k.mUpdateCount = 0 /\ k.mTotalSize = 0 /\ k.group = h.group
      BY <2>1 DEF GroupStates, CountsFirst
    <3>2. h = Counted(k)
      BY <2>1
    <3> HIDE DEF k
    <3>3. h.mUpdateCount = 1 /\ h.mTotalSize = size
      BY <1>1, <3>1, <3>2, CountedType
    <3>4. SizesOf(times) = 0 /\ Len(times) = 0
      BY <2>1, SizesOfNone
    <3> QED BY <1>1, <3>3, <3>4
  <2>2. CASE times # <<>>
    BY <2>2 DEF CountsFirst
  <2> QED BY <2>1, <2>2
<1>5. SizesOf(all) = Len(all) * size
  <2> HIDE DEF size, all
  <2>1. (Len(times) + 1) * size = Len(times) * size + size
    BY <1>1, <1>2
  <2> QED BY <1>2, <1>3, <1>4, <2>1
<1> HIDE DEF all
<1>6. CountsFirst(h, all)
  BY <1>2, <1>4, <1>5 DEF CountsFirst
<1> QED BY <1>6 DEF all

(* The invariant holds at the start.                                       *)
LEMMA InitRight == Init => GroupsInv
<1> SUFFICES ASSUME Init
             PROVE  GroupsInv
  OBVIOUS
<1>1. vpGroups \in States
  <2>1. <<>> \in RingSets
    BY DEF RingSets
  <2>2. [group |-> EmptyGroup, mUpdateCount |-> 0, mTotalSize |-> 0,
         mvIsMember |-> <<>>] \in GroupStates
    BY <2>1, EmptyGroupFacts DEF GroupStates
  <2> QED BY <2>2 DEF Init, States
<1>2. past = [n \in Names |-> <<>>]
  BY DEF Init
<1>3. past \in Histories
  BY <1>2 DEF Histories
<1>4. \A n \in Names : past[n] = <<>> /\ Len(past[n]) = 0
  BY <1>2
<1>5. \A n \in Names : Len(past[n]) <= NumFrames
  BY <1>4, GroupsAssumption
<1>6. CountsRight(vpGroups, past)
  <2> SUFFICES ASSUME NEW i \in DOMAIN Definitions
               PROVE  Counts(i, vpGroups[Definitions[i].name], past[Definitions[i].name])
    BY DEF CountsRight
  <2>1. Definitions[i].name \in Names
    BY DEF Names
  <2>2. vpGroups[Definitions[i].name].mUpdateCount = 0 /\ vpGroups[Definitions[i].name].mTotalSize = 0
    BY <2>1 DEF Init
  <2> QED BY <1>4, <2>1, <2>2, SizesOfNone DEF Counts, CountsAll, CountsFirst
<1> QED BY <1>1, <1>3, <1>5, <1>6 DEF GroupsInv

(* One frame and its members added to the history.                         *)
AddFrame(hist, final) == [n \in Names |-> Append(hist[n], MembersOf(final[n].group))]

(* A frame keeps the counters right.                                       *)
LEMMA FrameCounts ==
  ASSUME NEW gs \in States, NEW hist \in Histories, CountsRight(gs, hist), NEW bonds \in Distances,
         NEW final, final = UpdateGroups(gs, bonds)
  PROVE  final \in States /\ AddFrame(hist, final) \in Histories
         /\ CountsRight(final, AddFrame(hist, final))
<1>1. final \in States
  BY FrameFacts
<1>2. \A n \in Names : final[n].group \in Sound /\ MembersOf(final[n].group) \in SUBSET Atoms
  BY <1>1, GroupSize DEF States, GroupStates
<1>3. \A n \in Names : /\ hist[n] \in Seq(SUBSET Atoms) /\ gs[n] \in GroupStates /\ final[n] \in GroupStates
                      /\ AddFrame(hist, final)[n] = Append(hist[n], MembersOf(final[n].group))
  BY <1>1 DEF Histories, States, AddFrame
<1>4. AddFrame(hist, final) \in Histories
  <2>1. \A n \in Names : Append(hist[n], MembersOf(final[n].group)) \in Seq(SUBSET Atoms)
    BY <1>2, <1>3
  <2>2. \A n \in Names : Len(Append(hist[n], MembersOf(final[n].group))) = Len(hist[n]) + 1
    BY <1>3
  <2>3. \A m, n \in Names : Len(hist[m]) = Len(hist[n])
    BY DEF Histories
  <2> QED BY <2>1, <2>2, <2>3 DEF Histories, AddFrame
<1>5. ASSUME NEW i \in DOMAIN Definitions
      PROVE  Counts(i, final[Definitions[i].name], AddFrame(hist, final)[Definitions[i].name])
  <2> DEFINE n == Definitions[i].name
             g == gs[n]
             times == hist[n]
             w == Writer(i)
             d == Definitions[w]
  <2>1. n \in Names /\ w \in DOMAIN Definitions /\ d.kind # "corresponding" /\ d.name \in Names
    BY WriterFacts, DefinitionFacts
  <2>2. Counts(i, g, times) /\ Counts(w, gs[d.name], hist[d.name])
    BY <2>1 DEF CountsRight
  <2>3. PICK h : Made(gs, h, final, d, bonds)
    BY <2>1, FrameFacts
  <2>4. h \in States
    BY <2>3 DEF Made
  <2>5. times \in Seq(SUBSET Atoms) /\ g \in GroupStates /\ final[n] \in GroupStates
    BY <1>3, <2>1
  <2>6. AddFrame(hist, final)[n] = Append(times, MembersOf(final[n].group))
    BY <1>3, <2>1
  <2>7. CASE Definitions[i].kind # "corresponding"
    <3>1. w = i /\ d.name = n /\ CountsAll(g, times) /\ ~CountedOnce(i)
      BY <2>2, <2>7 DEF Writer, Counts, CountedOnce
    <3>2. \E k \in GroupStates : /\ final[n] = Counted(k) /\ k.mUpdateCount = g.mUpdateCount
                                 /\ k.mTotalSize = g.mTotalSize
      <4>1. CASE Skipped(d, gs)
        BY <2>3, <2>5, <3>1, <4>1 DEF Made
      <4>2. CASE ~Skipped(d, gs)
        <5>1. final[n] = Counted(Renewed(h, d, bonds)) /\ h[d.name] = g
          BY <2>3, <3>1, <4>2 DEF Made
        <5>2. /\ Renewed(h, d, bonds) \in GroupStates
              /\ Renewed(h, d, bonds).mUpdateCount = h[d.name].mUpdateCount
              /\ Renewed(h, d, bonds).mTotalSize = h[d.name].mTotalSize
          BY <2>1, <2>4, RenewedFacts
        <5> HIDE DEF d, g, n
        <5> QED BY <5>1, <5>2
      <4> QED BY <4>1, <4>2
    <3> HIDE DEF n, g, times, w, d
    <3>3. CountsAll(final[n], Append(times, MembersOf(final[n].group)))
      BY <2>5, <3>1, <3>2, CountsAllStep
    <3>4. Counts(i, final[n], Append(times, MembersOf(final[n].group)))
      BY <3>1, <3>3 DEF Counts
    <3> QED BY <2>6, <3>4 DEF n
  <2>8. CASE Definitions[i].kind = "corresponding"
    <3>1. IsOther(Definitions[i], d)
      BY <2>8, WriterFacts
    <3>2. /\ d.kind = "bond" /\ d.corresponding = n /\ n # NoGroup
          /\ Definitions[i].static = d.static
      BY <3>1 DEF IsOther
    <3>3. h[n] = g /\ final[n] = IF Skipped(d, gs) THEN g ELSE Counted(Other(h, d, bonds))
      BY <2>3, <3>2 DEF Made
    <3>4. /\ Other(h, d, bonds) \in GroupStates
          /\ Other(h, d, bonds).mUpdateCount = g.mUpdateCount
          /\ Other(h, d, bonds).mTotalSize = g.mTotalSize
      <4>1. d.corresponding \in Names /\ h[d.corresponding] = g
        BY <2>1, <3>2, <3>3
      <4> HIDE DEF d, g, n
      <4> QED BY <2>1, <2>4, <3>2, <4>1, OtherFacts DEF d
    <3>5. CASE ~d.static
      <4>1. CountsAll(g, times) /\ ~CountedOnce(i)
        BY <2>2, <3>2, <3>5 DEF Counts, CountedOnce
      <4>2. final[n] = Counted(Other(h, d, bonds))
        BY <3>3, <3>5 DEF Skipped
      <4> HIDE DEF n, g, times, w, d
      <4>3. CountsAll(final[n], Append(times, MembersOf(final[n].group)))
        BY <2>5, <3>4, <4>1, <4>2, CountsAllStep
      <4>4. Counts(i, final[n], Append(times, MembersOf(final[n].group)))
        BY <4>1, <4>3 DEF Counts
      <4> QED BY <2>6, <4>4 DEF n
    <3>6. CASE d.static
      <4>1. CountsFirst(g, times) /\ CountedOnce(i)
        BY <2>2, <2>8, <3>2, <3>6 DEF Counts, CountedOnce
      <4>2. Skipped(d, gs) <=> times # <<>>
        <5>1. gs[d.name].mUpdateCount = Len(hist[d.name])
          BY <2>2, <3>2 DEF Counts, CountedOnce, CountsAll
        <5>2. Len(hist[d.name]) = Len(times)
          BY <2>1 DEF Histories
        <5>3. Len(times) \in Nat /\ (Len(times) = 0 <=> times = <<>>)
          BY <2>5
        <5> QED BY <3>6, <5>1, <5>2, <5>3 DEF Skipped
      <4>3. times # <<>> => final[n] = g
        BY <3>3, <4>2
      <4>4. times = <<>> => final[n] = Counted([g EXCEPT !.group = final[n].group])
        <5> SUFFICES ASSUME times = <<>>
                     PROVE  final[n] = Counted([g EXCEPT !.group = final[n].group])
          OBVIOUS
        <5>1. final[n] = Counted(Other(h, d, bonds))
          BY <3>3, <4>2
        <5>2. final[n].group = Other(h, d, bonds).group
          BY <3>4, <5>1, CountedType
        <5>3. Other(h, d, bonds) = [g EXCEPT !.group =
                 Corresponding(d, bonds, h[d.of[1]].group, h[d.of[2]].group)]
          BY <3>2, <3>3 DEF Other
        <5>4. Other(h, d, bonds).group = Corresponding(d, bonds, h[d.of[1]].group, h[d.of[2]].group)
          <6> HIDE DEF d, n
          <6> QED BY <2>1, <2>4, <3>2, OtherFacts DEF d
        <5> HIDE DEF n, g, d, w, times
        <5> QED BY <5>1, <5>2, <5>3, <5>4
      <4> HIDE DEF n, g, times, w, d
      <4>5. CountsFirst(final[n], Append(times, MembersOf(final[n].group)))
        BY <2>5, <4>1, <4>3, <4>4, CountsFirstStep
      <4>6. Counts(i, final[n], Append(times, MembersOf(final[n].group)))
        BY <4>1, <4>5 DEF Counts
      <4> QED BY <2>6, <4>6 DEF n
    <3> QED BY <3>5, <3>6
  <2> QED BY <2>7, <2>8
<1>6. CountsRight(final, AddFrame(hist, final))
  BY <1>5 DEF CountsRight
<1> QED BY <1>1, <1>4, <1>6

(* A frame keeps the invariant.                                            *)
LEMMA NextRight == GroupsInv /\ [Next]_vars => GroupsInv'
<1> SUFFICES ASSUME GroupsInv, [Next]_vars
             PROVE  GroupsInv'
  OBVIOUS
<1>1. CASE UNCHANGED vars
  BY <1>1 DEF GroupsInv, vars
<1>2. CASE Next
  <2>1. PICK bonds \in Distances : Frame(bonds)
    BY <1>2 DEF Next
  <2>2. vpGroups' = UpdateGroups(vpGroups, bonds) /\ past' = AddFrame(past, vpGroups')
    BY <2>1 DEF Frame, AddFrame
  <2>3. vpGroups' \in States /\ past' \in Histories /\ CountsRight(vpGroups', past')
    BY <2>2, FrameCounts DEF GroupsInv
  <2>4. \A n \in Names : Len(past'[n]) <= NumFrames
    <3> SUFFICES ASSUME NEW n \in Names
                 PROVE  Len(past'[n]) <= NumFrames
      OBVIOUS
    <3>1. Len(past[n]) < NumFrames /\ past[n] \in Seq(SUBSET Atoms)
      BY <2>1 DEF Frame, GroupsInv, Histories
    <3>2. past'[n] = Append(past[n], MembersOf(vpGroups'[n].group))
      BY <2>2 DEF AddFrame
    <3>3. MembersOf(vpGroups'[n].group) \in SUBSET Atoms
      BY <2>3, GroupSize DEF States, GroupStates
    <3>4. Len(past'[n]) = Len(past[n]) + 1 /\ Len(past[n]) \in Nat
      BY <3>1, <3>2, <3>3
    <3> QED BY <3>1, <3>4, GroupsAssumption
  <2> QED BY <2>3, <2>4 DEF GroupsInv
<1> QED BY <1>1, <1>2

(* The counters of a group, by its name.                                   *)
LEMMA CountsWhat ==
  ASSUME GroupsInv, NEW n \in Names
  PROVE  \E i \in DOMAIN Definitions : Definitions[i].name = n /\ Counts(i, vpGroups[n], past[n])
  BY DEF Names, GroupsInv, CountsRight

(* What the invariant says about the vectors.                              *)
LEMMA GroupsInvTypeOK == GroupsInv => TypeOK
<1> SUFFICES ASSUME GroupsInv, NEW n \in Names
             PROVE  /\ Group(n).atoms \in Seq(Atoms) /\ IsInjective(Group(n).atoms)
                    /\ Len(Group(n).numbers) = Len(Group(n).atoms)
                    /\ Len(Group(n).table) = Len(Group(n).atoms)
                    /\ \A i \in DOMAIN Group(n).table :
                         Group(n).table[i] \in Seq(Atoms) /\ IsInjective(Group(n).table[i])
                    /\ vpGroups[n].mUpdateCount \in 0 .. NumFrames
                    /\ vpGroups[n].mTotalSize \in Nat
  BY DEF TypeOK
<1>1. Group(n) \in Tables /\ vpGroups[n].mUpdateCount \in Nat /\ vpGroups[n].mTotalSize \in Nat
  BY DEF GroupsInv, States, GroupStates, Sound, Group
<1>2. /\ Group(n).atoms \in Lists /\ Group(n).table \in Seq(Lists)
      /\ Len(Group(n).numbers) = Len(Group(n).atoms) /\ Len(Group(n).table) = Len(Group(n).atoms)
  BY <1>1, TablesFacts
<1>3. \A i \in DOMAIN Group(n).table : Group(n).table[i] \in Lists
  BY <1>2
<1>4. vpGroups[n].mUpdateCount <= NumFrames
  <2>1. PICK i \in DOMAIN Definitions : Counts(i, vpGroups[n], past[n])
    BY CountsWhat
  <2>2. Len(past[n]) <= NumFrames /\ past[n] \in Seq(SUBSET Atoms)
    BY DEF GroupsInv, Histories
  <2>3. Len(past[n]) \in Nat /\ (past[n] # <<>> => Len(past[n]) >= 1)
    BY <2>2
  <2>4. CASE CountsAll(vpGroups[n], past[n])
    BY <2>2, <2>4 DEF CountsAll
  <2>5. CASE CountsFirst(vpGroups[n], past[n])
    <3>1. \/ past[n] = <<>> /\ vpGroups[n].mUpdateCount = 0
          \/ past[n] # <<>> /\ vpGroups[n].mUpdateCount = 1
      BY <2>5 DEF CountsFirst
    <3> QED BY <2>2, <2>3, <3>1, GroupsAssumption
  <2> QED BY <2>1, <2>4, <2>5 DEF Counts
<1> QED BY <1>1, <1>2, <1>3, <1>4, GroupsAssumption DEF Lists

(* What it says about the numbers.                                         *)
LEMMA GroupsInvNumbers == GroupsInv => NumbersMatchTables
<1> SUFFICES ASSUME GroupsInv
             PROVE  NumbersMatchTables
  OBVIOUS
<1>1. \A n \in Names : Group(n) \in Sound
  BY DEF GroupsInv, States, GroupStates, Group
<1> QED BY <1>1, GroupsInvTypeOK DEF NumbersMatchTables, Sound

(* What it says about the averages.                                        *)
LEMMA GroupsInvAverages == GroupsInv => AverageSizesTrue
<1> SUFFICES ASSUME GroupsInv, NEW n \in Names
             PROVE  vpGroups[n].mTotalSize * Len(past[n]) = vpGroups[n].mUpdateCount * SizesOf(past[n])
  BY DEF AverageSizesTrue
<1> DEFINE total == vpGroups[n].mTotalSize
           count == vpGroups[n].mUpdateCount
           sizes == SizesOf(past[n])
           frames == Len(past[n])
           size == Len(vpGroups[n].group.atoms)
<1>1. past[n] \in Seq(SUBSET Atoms) /\ frames \in Nat /\ sizes \in Nat
  <2>1. past[n] \in Seq(SUBSET Atoms)
    BY DEF GroupsInv, Histories
  <2>2. {} \in SUBSET Atoms
    OBVIOUS
  <2>3. SizesOf(past[n]) \in Nat
    BY <2>1, <2>2, SizesOfAppend
  <2>4. Len(past[n]) \in Nat
    BY <2>1
  <2> QED BY <2>1, <2>3, <2>4
<1>2. total \in Nat /\ count \in Nat /\ size \in Nat
  BY GroupSize DEF GroupsInv, States, GroupStates
<1>3. PICK i \in DOMAIN Definitions : Counts(i, vpGroups[n], past[n])
  BY CountsWhat
<1>4. CASE CountsAll(vpGroups[n], past[n])
  <2>1. count = frames /\ total = sizes
    BY <1>4 DEF CountsAll
  <2> HIDE DEF total, count, sizes, frames
  <2>2. total * frames = count * sizes
    BY <1>1, <1>2, <2>1
  <2> QED BY <2>2 DEF total, count, sizes, frames
<1>5. CASE CountsFirst(vpGroups[n], past[n])
  <2>1. \/ frames = 0 /\ count = 0 /\ total = 0
        \/ count = 1 /\ total = size /\ sizes = frames * size
    BY <1>5 DEF CountsFirst
  <2> HIDE DEF total, count, sizes, frames, size
  <2>2. total * frames = count * sizes
    BY <1>1, <1>2, <2>1
  <2> QED BY <2>2 DEF total, count, sizes, frames
<1> QED BY <1>3, <1>4, <1>5 DEF Counts

(* The inductive invariant holds in every state: the groups are sound and  *)
(* the counters have counted the frames they are to count.                 *)
THEOREM Invariance == Spec => []GroupsInv
<1> QED BY InitRight, NextRight, PTL DEF Spec

(* The three vectors of every group stay parallel, without repetitions,    *)
(* and the counters count, for every configuration and any number of       *)
(* frames (groupcoordination.cpp, group.cpp).                              *)
THEOREM TypeCorrect == Spec => []TypeOK
<1> QED BY Invariance, GroupsInvTypeOK, PTL

(* The coordination number of a member is the size of its table in every   *)
(* group of every configuration, though BOND, SUM, DIFF, INTERSECTION and  *)
(* SUBGROUPCN set the two apart from each other (groupbond.cpp:38,         *)
(* groupcoordination.cpp:185).                                             *)
THEOREM NumbersRight == Spec => []NumbersMatchTables
<1> QED BY Invariance, GroupsInvNumbers, PTL

(* The average size that is printed is the average over the frames, for    *)
(* static groups and corresponding groups too (group.cpp:130,              *)
(* groupbond.cpp:53).                                                      *)
THEOREM AveragesRight == Spec => []AverageSizesTrue
<1> QED BY Invariance, GroupsInvAverages, PTL

-----------------------------------------------------------------------------
(* The groups as relations.                                                *)

(* A group as a relation.                                                  *)
RelationOf(g) == [members |-> MembersOf(g), pairs |-> Pairs(g)]

(* A group as a relation, from what was added to the empty group.          *)
LEMMA AddsToEmptyRelation ==
  ASSUME NEW V, NEW h, NEW m, NEW p, Adds(V, h, EmptyGroup, m, p)
  PROVE  RelationOf(h) = [members |-> m, pairs |-> p]
<1>1. MembersOf(h) = m
  BY AddsToEmpty
<1>2. Pairs(h) = p
  BY AddsToEmpty
<1> QED BY <1>1, <1>2 DEF RelationOf

(* ATOMICNUMBER has the atoms of its types.                                *)
LEMMA AtomicNumberSatisfied ==
  ASSUME NEW d, d.kind = "atomicnumber", NEW groups, groups[d.name] = RelationOf(AtomicNumber(d))
  PROVE  Relations!Satisfies(d, groups)
<1>1. RelationOf(AtomicNumber(d)) = [members |-> {a \in Atoms : TypeOf[a] \in d.types},
                                     pairs |-> {}]
  <2> DEFINE m == {a \in Atoms : TypeOf[a] \in d.types}
  <2>1. Adds(Sound, AtomicNumber(d), EmptyGroup, m, {})
    BY AtomicNumberAdds
  <2> HIDE DEF m
  <2>2. RelationOf(AtomicNumber(d)) = [members |-> m, pairs |-> {}]
    BY <2>1, AddsToEmptyRelation
  <2> QED BY <2>2 DEF m
<1> HIDE DEF RelationOf
<1> QED BY <1>1 DEF Relations!Satisfies

(* The operators of the abstract specification are those of the detailed   *)
(* one.                                                                    *)
LEMMA SameOperators ==
  /\ \A S : Relations!Cardinality(S) = Cardinality(S)
  /\ \A s : Relations!ToSet(s) = ToSet(s)
<1>1. \A S : Relations!Cardinality(S) = Cardinality(S)
  BY DEF Relations!Cardinality, Cardinality
<1>2. \A s : Relations!ToSet(s) = ToSet(s)
  BY DEF Relations!ToSet, ToSet
<1> QED BY <1>1, <1>2

(* Two sets whose elements correspond one to one have the same size.       *)
LEMMA SameSize ==
  ASSUME NEW S, IsFiniteSet(S), NEW T, NEW f \in [S -> T],
         \A x, y \in S : f[x] = f[y] => x = y, \A z \in T : \E x \in S : f[x] = z
  PROVE  IsFiniteSet(T) /\ Cardinality(T) = Cardinality(S)
<1>1. IsInjective(f)
  BY DEF IsInjective
<1>2. f \in Bijection(S, T)
  BY <1>1 DEF Bijection, Injection, Surjection
<1>3. ExistsBijection(S, T)
  BY <1>2 DEF ExistsBijection
<1> QED BY <1>3, FS_Bijection

(* LIST has its ids that are atoms.                                        *)
LEMMA ListSatisfied ==
  ASSUME NEW d, d.kind = "list", d.ids \in Seq(Nat), NEW groups,
         groups[d.name] = RelationOf(List(d))
  PROVE  Relations!Satisfies(d, groups)
<1> DEFINE m == ToSet(d.ids) \cap Atoms
<1>1. Adds(Sound, List(d), EmptyGroup, m, {})
  BY ListAdds
<1> HIDE DEF m
<1>2. RelationOf(List(d)) = [members |-> m, pairs |-> {}]
  BY <1>1, AddsToEmptyRelation
<1> QED BY <1>2, SameOperators DEF Relations!Satisfies, m

(* SUBGROUP has as many members as it has positions that the parent has,   *)
(* all from the parent.                                                    *)
LEMMA SubGroupSatisfied ==
  ASSUME NEW d, d.kind = "subgroup", d.ids \in Seq(Nat), NEW g \in Sound, NEW groups,
         groups[d.of[1]] = RelationOf(g), groups[d.name] = RelationOf(SubGroup(d, g))
  PROVE  Relations!Satisfies(d, groups)
<1> DEFINE n == Len(g.atoms)
           K == {k \in ToSet(d.ids) : k < n}
           m == {g.atoms[i + 1] : i \in K}
           f == [k \in K |-> g.atoms[k + 1]]
<1>1. Adds(Sound, SubGroup(d, g), EmptyGroup, m, {})
  BY SubGroupAdds
<1>2. RelationOf(SubGroup(d, g)) = [members |-> m, pairs |-> {}]
  <2> HIDE DEF m
  <2> QED BY <1>1, AddsToEmptyRelation
<1>3. /\ n \in Nat /\ \A i \in 1 .. n : g.atoms[i] \in MembersOf(g)
      /\ \A i, j \in 1 .. n : g.atoms[i] = g.atoms[j] => i = j
  <2>1. g \in Tables /\ g.atoms \in Lists
    BY TablesFacts DEF Sound
  <2> QED BY <2>1, TablesFacts, ListFacts
<1>4. Cardinality(MembersOf(g)) = n
  BY GroupSize
<1>5. ToSet(d.ids) \subseteq Nat
  BY DEF ToSet
<1> HIDE DEF n
<1>6. \A k \in K : k \in Nat /\ k \in 0 .. n - 1 /\ k + 1 \in 1 .. n
  BY <1>3, <1>5
<1>7. IsFiniteSet(K)
  <2>1. IsFiniteSet(0 .. n - 1)
    BY <1>3, FS_Interval
  <2>2. K \subseteq 0 .. n - 1
    BY <1>6
  <2> QED BY <2>1, <2>2, FS_Subset
<1>8. m \subseteq MembersOf(g)
  BY <1>3, <1>6
<1>9. f \in [K -> m] /\ \A x \in m : \E k \in K : f[k] = x
  OBVIOUS
<1>10. Cardinality(m) = Cardinality(K)
  <2>1. \A j, k \in K : f[j] = f[k] => j = k
    <3> SUFFICES ASSUME NEW j \in K, NEW k \in K, f[j] = f[k]
                 PROVE  j = k
      OBVIOUS
    <3>1. g.atoms[j + 1] = g.atoms[k + 1]
      OBVIOUS
    <3>2. j + 1 = k + 1
      BY <1>3, <1>6, <3>1
    <3> QED BY <1>6, <3>2
  <2> HIDE DEF f, K, m
  <2> QED BY <1>7, <1>9, <2>1, SameSize
<1>11. K = {k \in ToSet(d.ids) : k < Cardinality(MembersOf(g))}
  BY <1>4
<1>12. groups[d.name].pairs = {} /\ groups[d.name].members = m
       /\ groups[d.of[1]].members = MembersOf(g)
  <2> HIDE DEF m
  <2> QED BY <1>2 DEF RelationOf
<1> HIDE DEF m, K
<1>13. Relations!Cardinality(groups[d.name].members) =
         Relations!Cardinality({k \in Relations!ToSet(d.ids) :
                                  k < Relations!Cardinality(groups[d.of[1]].members)})
  BY <1>10, <1>11, <1>12, SameOperators
<1> QED BY <1>8, <1>12, <1>13 DEF Relations!Satisfies

(* The pairs of a sound group are a member and an atom of its row.         *)
LEMMA PairWhat ==
  ASSUME NEW g \in Sound
  PROVE  /\ \A p \in Pairs(g) : /\ p = <<p[1], p[2]>> /\ p[1] \in MembersOf(g)
                                /\ p[2] \in ToSet(TableOf(g, p[1]))
         /\ \A a \in MembersOf(g) : \A b \in ToSet(TableOf(g, a)) : <<a, b>> \in Pairs(g)
<1>1. g \in Tables
  BY DEF Sound
<1>2. ASSUME NEW p \in Pairs(g)
      PROVE  p = <<p[1], p[2]>> /\ p[1] \in MembersOf(g) /\ p[2] \in ToSet(TableOf(g, p[1]))
  <2>1. PICK a : a \in MembersOf(g) /\ p \in PairsOf(a, ToSet(TableOf(g, a)))
    BY <1>1, InPairs
  <2>2. PICK b \in ToSet(TableOf(g, a)) : p = <<a, b>>
    BY <2>1 DEF PairsOf
  <2> QED BY <2>1, <2>2
<1>3. ASSUME NEW a \in MembersOf(g), NEW b \in ToSet(TableOf(g, a))
      PROVE  <<a, b>> \in Pairs(g)
  <2>1. <<a, b>> \in PairsOf(a, ToSet(TableOf(g, a)))
    BY DEF PairsOf
  <2> QED BY <1>1, <2>1, InPairs
<1> QED BY <1>2, <1>3

(* The row of an atom is its table.                                        *)
LEMMA RowWhat ==
  ASSUME NEW g \in Sound, NEW a
  PROVE  Relations!Row(RelationOf(g), a) = IF a \in MembersOf(g) THEN ToSet(TableOf(g, a)) ELSE {}
<1> DEFINE row == {p[2] : p \in {q \in Pairs(g) : q[1] = a}}
<1>1. Relations!Row(RelationOf(g), a) = row
  BY DEF Relations!Row, RelationOf
<1>2. CASE a \in MembersOf(g)
  <2>1. ASSUME NEW b \in row
        PROVE  b \in ToSet(TableOf(g, a))
    <3>1. PICK p \in Pairs(g) : p[1] = a /\ p[2] = b
      OBVIOUS
    <3> QED BY <3>1, PairWhat
  <2>2. ASSUME NEW b \in ToSet(TableOf(g, a))
        PROVE  b \in row
    <3>1. <<a, b>> \in Pairs(g) /\ <<a, b>>[1] = a /\ <<a, b>>[2] = b
      BY <1>2, PairWhat
    <3>2. <<a, b>> \in {q \in Pairs(g) : q[1] = a}
      BY <3>1
    <3> QED BY <3>1, <3>2
  <2>3. row = ToSet(TableOf(g, a))
    <3> HIDE DEF row
    <3> QED BY <2>1, <2>2
  <2> QED BY <1>1, <1>2, <2>3
<1>3. CASE a \notin MembersOf(g)
  <2>1. row = {}
    BY <1>3, PairWhat
  <2> QED BY <1>1, <1>3, <2>1
<1> QED BY <1>2, <1>3

(* The same pairs seen from the other end.                                 *)
BothWays(M, T, P, Q, U) ==
  /\ P = UNION {PairsOf(a, T[a]) : a \in M}
  /\ Q = UNION {{<<b, a>> : b \in T[a]} : a \in M}
  /\ U = UNION {T[a] : a \in M}

(* The pairs turned round, and their first atoms.                          *)
LEMMA InverseWhat ==
  ASSUME NEW M, NEW T, NEW P, NEW Q, NEW U, BothWays(M, T, P, Q, U)
  PROVE  Q = {<<p[2], p[1]>> : p \in P} /\ U = {p[2] : p \in P}
<1>1. \A p \in P : \E a \in M : \E b \in T[a] : p = <<a, b>>
  BY DEF BothWays, PairsOf
<1>2. \A a \in M : \A b \in T[a] : <<a, b>> \in P
  BY DEF BothWays, PairsOf
<1>3. \A q \in Q : \E a \in M : \E b \in T[a] : q = <<b, a>>
  BY DEF BothWays
<1>4. \A a \in M : \A b \in T[a] : <<b, a>> \in Q
  BY DEF BothWays
<1>5. \A b : b \in U <=> \E a \in M : b \in T[a]
  BY DEF BothWays
<1>6. Q = {<<p[2], p[1]>> : p \in P}
  <2>1. ASSUME NEW q \in Q
        PROVE  q \in {<<p[2], p[1]>> : p \in P}
    <3>1. PICK a \in M : \E b \in T[a] : q = <<b, a>>
      BY <1>3
    <3>2. PICK b \in T[a] : q = <<b, a>>
      BY <3>1
    <3>3. <<a, b>> \in P /\ q = <<<<a, b>>[2], <<a, b>>[1]>>
      BY <1>2, <3>2
    <3> QED BY <3>3
  <2>2. ASSUME NEW p \in P
        PROVE  <<p[2], p[1]>> \in Q
    <3>1. PICK a \in M : \E b \in T[a] : p = <<a, b>>
      BY <1>1
    <3>2. PICK b \in T[a] : p = <<a, b>>
      BY <3>1
    <3> QED BY <1>4, <3>2
  <2> QED BY <2>1, <2>2
<1>7. U = {p[2] : p \in P}
  <2>1. ASSUME NEW b \in U
        PROVE  b \in {p[2] : p \in P}
    <3>1. PICK a \in M : b \in T[a]
      BY <1>5
    <3>2. <<a, b>> \in P /\ b = <<a, b>>[2]
      BY <1>2, <3>1
    <3> QED BY <3>2
  <2>2. ASSUME NEW p \in P
        PROVE  p[2] \in U
    <3>1. PICK a \in M : \E b \in T[a] : p = <<a, b>>
      BY <1>1
    <3>2. PICK b \in T[a] : p = <<a, b>>
      BY <3>1
    <3> QED BY <1>5, <3>2
  <2> QED BY <2>1, <2>2
<1> QED BY <1>6, <1>7

(* INVERTCOORDINATION is the inverse of its group.                         *)
LEMMA InvertSatisfied ==
  ASSUME NEW d, d.kind = "invertcoordination", NEW g \in Sound, NEW groups,
         groups[d.of[1]] = RelationOf(g), groups[d.name] = RelationOf(InvertCoordination(g))
  PROVE  Relations!Satisfies(d, groups)
<1> DEFINE M == MembersOf(g)
           T == [a \in M |-> ToSet(TableOf(g, a))]
           m == UNION {T[a] : a \in M}
           q == UNION {{<<b, a>> : b \in T[a]} : a \in M}
           P == UNION {PairsOf(a, T[a]) : a \in M}
<1>1. Adds(Sound, InvertCoordination(g), EmptyGroup, m, q)
  <2>1. m = UNION {ToSet(TableOf(g, a)) : a \in MembersOf(g)}
    OBVIOUS
  <2>2. q = UNION {{<<b, a>> : b \in ToSet(TableOf(g, a))} : a \in MembersOf(g)}
    OBVIOUS
  <2> HIDE DEF m, q
  <2> QED BY <2>1, <2>2, InvertAdds
<1>2. P = Pairs(g)
  <2>1. P = UNION {PairsOf(a, ToSet(TableOf(g, a))) : a \in MembersOf(g)}
    OBVIOUS
  <2> QED BY <2>1, PairsFacts DEF Sound
<1>3. q = {<<p[2], p[1]>> : p \in P} /\ m = {p[2] : p \in P}
  <2>1. BothWays(M, T, P, q, m)
    BY DEF BothWays
  <2> HIDE DEF T, M, P, m, q
  <2> QED BY <2>1, InverseWhat
<1> HIDE DEF m, q, P
<1>4. RelationOf(InvertCoordination(g)) = [members |-> m, pairs |-> q]
  BY <1>1, AddsToEmptyRelation
<1>5. Relations!IsInverse(groups[d.name], groups[d.of[1]])
  BY <1>2, <1>3, <1>4 DEF RelationOf, Relations!IsInverse, Relations!Inverted, Relations!Seconds
<1> QED BY <1>5 DEF Relations!Satisfies

(* The corresponding group is the inverse of its BOND.                     *)
LEMMA CorrespondingSatisfied ==
  ASSUME NEW d, d.kind = "corresponding", NEW e, NEW bonds, NEW g \in Sound, NEW to \in Sound,
         NEW groups, groups[d.of[1]] = RelationOf(Bond(e, bonds, g, to)),
         groups[d.name] = RelationOf(Corresponding(e, bonds, g, to))
  PROVE  Relations!Satisfies(d, groups)
<1> DEFINE M == MembersOf(g)
           T == [a \in M |-> Partners(e, bonds, to, a)]
           m == UNION {T[a] : a \in M}
           q == UNION {{<<b, a>> : b \in T[a]} : a \in M}
           P == UNION {PairsOf(a, T[a]) : a \in M}
           n == UNION {Brought(e, bonds, to, a) : a \in MembersOf(g)}
<1>1. Adds(Sound, Corresponding(e, bonds, g, to), EmptyGroup, m, q)
  <2>1. m = UNION {Partners(e, bonds, to, a) : a \in MembersOf(g)}
    OBVIOUS
  <2>2. q = UNION {{<<b, a>> : b \in Partners(e, bonds, to, a)} : a \in MembersOf(g)}
    OBVIOUS
  <2> HIDE DEF m, q
  <2> QED BY <2>1, <2>2, CorrespondingAdds
<1>2. Adds(Sound, Bond(e, bonds, g, to), EmptyGroup, n, P)
  <2>1. P = UNION {PairsOf(a, Partners(e, bonds, to, a)) : a \in MembersOf(g)}
    OBVIOUS
  <2> HIDE DEF P
  <2> QED BY <2>1, BondAdds
<1>3. q = {<<p[2], p[1]>> : p \in P} /\ m = {p[2] : p \in P}
  <2>1. BothWays(M, T, P, q, m)
    BY DEF BothWays
  <2> HIDE DEF T, M, P, m, q
  <2> QED BY <2>1, InverseWhat
<1> HIDE DEF m, q, P, n
<1>4. RelationOf(Corresponding(e, bonds, g, to)) = [members |-> m, pairs |-> q]
  BY <1>1, AddsToEmptyRelation
<1>5. RelationOf(Bond(e, bonds, g, to)) = [members |-> n, pairs |-> P]
  BY <1>2, AddsToEmptyRelation
<1>6. Relations!IsInverse(groups[d.name], groups[d.of[1]])
  BY <1>3, <1>4, <1>5 DEF Relations!IsInverse, Relations!Inverted, Relations!Seconds
<1> QED BY <1>6 DEF Relations!Satisfies

(* INCLUDECOORDINATION has the members and everyone in their rows.         *)
LEMMA IncludeSatisfied ==
  ASSUME NEW d, d.kind = "includecoordination", NEW g \in Sound, NEW groups,
         groups[d.of[1]] = RelationOf(g), groups[d.name] = RelationOf(IncludeCoordination(g))
  PROVE  Relations!Satisfies(d, groups)
<1> DEFINE m == UNION {{a} \cup ToSet(TableOf(g, a)) : a \in MembersOf(g)}
           s == {p[2] : p \in Pairs(g)}
<1>1. Adds(Sound, IncludeCoordination(g), EmptyGroup, m, {})
  BY IncludeAdds
<1>2. m = MembersOf(g) \cup s
  <2>1. ASSUME NEW x \in m
        PROVE  x \in MembersOf(g) \cup s
    <3>1. PICK a \in MembersOf(g) : x = a \/ x \in ToSet(TableOf(g, a))
      OBVIOUS
    <3>2. CASE x \in ToSet(TableOf(g, a))
      <4>1. <<a, x>> \in Pairs(g) /\ <<a, x>>[2] = x
        BY <3>2, PairWhat
      <4> QED BY <4>1
    <3> QED BY <3>1, <3>2
  <2>2. ASSUME NEW x \in MembersOf(g)
        PROVE  x \in m
    OBVIOUS
  <2>3. ASSUME NEW x \in s
        PROVE  x \in m
    <3>1. PICK p \in Pairs(g) : p[2] = x
      OBVIOUS
    <3>2. p[1] \in MembersOf(g) /\ x \in ToSet(TableOf(g, p[1]))
      BY <3>1, PairWhat
    <3> QED BY <3>2
  <2> HIDE DEF m, s
  <2> QED BY <2>1, <2>2, <2>3
<1> HIDE DEF m
<1>3. RelationOf(IncludeCoordination(g)) = [members |-> m, pairs |-> {}]
  BY <1>1, AddsToEmptyRelation
<1>4. Relations!Seconds(groups[d.of[1]].pairs) = s /\ groups[d.of[1]].members = MembersOf(g)
  BY DEF Relations!Seconds, RelationOf
<1> HIDE DEF s
<1> QED BY <1>2, <1>3, <1>4 DEF Relations!Satisfies

(* The groups that a group is defined from.                                *)
DefinedFrom(d, all, groups) ==
  /\ all \in Seq(Sound) /\ Len(all) = Len(d.of) /\ Len(all) >= 1
  /\ \A k \in 1 .. Len(all) : groups[d.of[k]] = RelationOf(all[k])

(* What they are as relations.                                             *)
LEMMA DefinedFromFacts ==
  ASSUME NEW d, NEW all, NEW groups, DefinedFrom(d, all, groups)
  PROVE  /\ Len(all) \in Nat /\ Len(d.of) = Len(all) /\ 1 \in 1 .. Len(all) /\ all[1] \in Sound
         /\ \A k \in 1 .. Len(all) : all[k] \in Sound /\ groups[d.of[k]] = RelationOf(all[k])
                                    /\ groups[d.of[k]].members = MembersOf(all[k])
                                    /\ groups[d.of[k]].pairs = Pairs(all[k])
         /\ \A k \in 2 .. Len(all) : k \in 1 .. Len(all)
         /\ \A a \in MembersOf(all[1]) : a \in Atoms
<1>1. Len(all) \in Nat /\ 1 \in 1 .. Len(all) /\ \A k \in 1 .. Len(all) : all[k] \in Sound
  BY DEF DefinedFrom
<1>2. \A a \in MembersOf(all[1]) : a \in Atoms
  BY <1>1, GroupSize
<1>3. \A k \in 2 .. Len(all) : k \in 1 .. Len(all)
  BY <1>1
<1> QED BY <1>1, <1>2, <1>3 DEF DefinedFrom, RelationOf

(* Selected members keep their pairs.                                      *)
LEMMA SelectedRelation ==
  ASSUME NEW first \in Sound, NEW S, NEW m, m = MembersOf(first) \cap S
  PROVE  RelationOf(Selected(first, S)) = [members |-> m,
                                           pairs |-> {p \in Pairs(first) : p[1] \in m}]
<1> DEFINE q == UNION {PairsOf(a, ToSet(TableOf(first, a))) : a \in MembersOf(first) \cap S}
<1>1. Adds(Sound, Selected(first, S), EmptyGroup, m, q)
  BY SelectedAdds
<1>2. q = {p \in Pairs(first) : p[1] \in m}
  <2>1. ASSUME NEW p \in q
        PROVE  p \in Pairs(first) /\ p[1] \in m
    <3>1. PICK a \in MembersOf(first) \cap S : p \in PairsOf(a, ToSet(TableOf(first, a)))
      OBVIOUS
    <3>2. PICK b \in ToSet(TableOf(first, a)) : p = <<a, b>>
      BY <3>1 DEF PairsOf
    <3> QED BY <3>1, <3>2, PairWhat
  <2>2. ASSUME NEW p \in Pairs(first), p[1] \in m
        PROVE  p \in q
    <3>1. p = <<p[1], p[2]>> /\ p[2] \in ToSet(TableOf(first, p[1]))
      BY PairWhat
    <3>2. p \in PairsOf(p[1], ToSet(TableOf(first, p[1])))
      BY <3>1 DEF PairsOf
    <3> QED BY <2>2, <3>2
  <2> HIDE DEF q
  <2> QED BY <2>1, <2>2
<1> HIDE DEF q
<1>3. RelationOf(Selected(first, S)) = [members |-> m, pairs |-> q]
  BY <1>1, AddsToEmptyRelation
<1> QED BY <1>2, <1>3

(* DIFF has the members that no other group has.                           *)
LEMMA DiffSatisfied ==
  ASSUME NEW d, d.kind = "diff", NEW all, NEW groups, DefinedFrom(d, all, groups),
         groups[d.name] = RelationOf(Diff(all))
  PROVE  Relations!Satisfies(d, groups)
<1> DEFINE S == {a \in Atoms : \A j \in 2 .. Len(all) : ~IsMember(all[j], a)}
           m == MembersOf(all[1]) \cap S
           inNone == {a \in groups[d.of[1]].members :
                        \A o \in {groups[d.of[k]] : k \in 2 .. Len(d.of)} : a \notin o.members}
<1>1. RelationOf(Diff(all)) = [members |-> m, pairs |-> {p \in Pairs(all[1]) : p[1] \in m}]
  <2>1. Diff(all) = Selected(all[1], S)
    BY DEF Diff
  <2>2. all[1] \in Sound
    BY DefinedFromFacts
  <2> HIDE DEF S
  <2> QED BY <2>1, <2>2, SelectedRelation
<1>2. inNone = m
  BY DefinedFromFacts DEF IsMember
<1>3. groups[d.name] = [members |-> inNone, pairs |-> Relations!CutTo(groups[d.of[1]].pairs,
                                                                      inNone)]
  <2>1. groups[d.of[1]].pairs = Pairs(all[1])
    BY DefinedFromFacts
  <2> HIDE DEF m, inNone
  <2> QED BY <1>1, <1>2, <2>1 DEF Relations!CutTo
<1> QED BY <1>3 DEF Relations!Satisfies

(* INTERSECTION has the members that all groups have.                      *)
LEMMA IntersectionSatisfied ==
  ASSUME NEW d, d.kind = "intersection", NEW all, NEW groups, DefinedFrom(d, all, groups),
         groups[d.name] = RelationOf(Intersection(all))
  PROVE  Relations!Satisfies(d, groups)
<1> DEFINE S == {a \in Atoms : \A j \in 2 .. Len(all) : IsMember(all[j], a)}
           m == MembersOf(all[1]) \cap S
           inAll == {a \in groups[d.of[1]].members :
                       \A o \in {groups[d.of[k]] : k \in 2 .. Len(d.of)} : a \in o.members}
<1>1. RelationOf(Intersection(all)) = [members |-> m, pairs |-> {p \in Pairs(all[1]) : p[1] \in m}]
  <2>1. Intersection(all) = Selected(all[1], S)
    BY DEF Intersection
  <2>2. all[1] \in Sound
    BY DefinedFromFacts
  <2> HIDE DEF S
  <2> QED BY <2>1, <2>2, SelectedRelation
<1>2. inAll = m
  BY DefinedFromFacts DEF IsMember
<1>3. groups[d.name] = [members |-> inAll, pairs |-> Relations!CutTo(groups[d.of[1]].pairs, inAll)]
  <2>1. groups[d.of[1]].pairs = Pairs(all[1])
    BY DefinedFromFacts
  <2> HIDE DEF m, inAll
  <2> QED BY <1>1, <1>2, <2>1 DEF Relations!CutTo
<1> QED BY <1>3 DEF Relations!Satisfies

(* SUM has the members and pairs of all groups.                            *)
LEMMA SumSatisfied ==
  ASSUME NEW d, d.kind = "sum", NEW all, NEW groups, DefinedFrom(d, all, groups),
         groups[d.name] = RelationOf(Sum(all))
  PROVE  Relations!Satisfies(d, groups)
<1> DEFINE m == UNION {MembersOf(all[k]) : k \in DOMAIN all}
           q == UNION {Pairs(all[k]) : k \in DOMAIN all}
           each == {groups[d.of[1]]} \cup {groups[d.of[k]] : k \in 2 .. Len(d.of)}
<1>1. RelationOf(Sum(all)) = [members |-> m, pairs |-> q]
  <2>1. all \in Seq(Sound)
    BY DEF DefinedFrom
  <2>2. Adds(Sound, Sum(all), EmptyGroup, m, q)
    BY <2>1, SumAdds
  <2> HIDE DEF m, q
  <2> QED BY <2>2, AddsToEmptyRelation
<1>2. DOMAIN all = 1 .. Len(all)
  BY DEF DefinedFrom
<1>3. \A k \in 1 .. Len(all) : groups[d.of[k]] \in each
  <2> SUFFICES ASSUME NEW k \in 1 .. Len(all)
               PROVE  groups[d.of[k]] \in each
    OBVIOUS
  <2>1. k = 1 \/ k \in 2 .. Len(d.of)
    BY DefinedFromFacts
  <2> QED BY <2>1
<1>4. \A g \in each : \E k \in 1 .. Len(all) : g = groups[d.of[k]]
  BY DefinedFromFacts
<1> HIDE DEF each
<1>5. m = UNION {g.members : g \in each}
  <2>1. ASSUME NEW a \in m
        PROVE  a \in UNION {g.members : g \in each}
    <3>1. PICK k \in 1 .. Len(all) : a \in MembersOf(all[k])
      BY <1>2
    <3>2. a \in groups[d.of[k]].members
      BY <3>1, DefinedFromFacts
    <3> QED BY <1>3, <3>2
  <2>2. ASSUME NEW g \in each, NEW a \in g.members
        PROVE  a \in m
    <3>1. PICK k \in 1 .. Len(all) : g = groups[d.of[k]]
      BY <1>4
    <3>2. a \in MembersOf(all[k])
      BY <2>2, <3>1, DefinedFromFacts
    <3> QED BY <1>2, <3>2
  <2> HIDE DEF m
  <2> QED BY <2>1, <2>2
<1>6. q = UNION {g.pairs : g \in each}
  <2>1. ASSUME NEW p \in q
        PROVE  p \in UNION {g.pairs : g \in each}
    <3>1. PICK k \in 1 .. Len(all) : p \in Pairs(all[k])
      BY <1>2
    <3>2. p \in groups[d.of[k]].pairs
      BY <3>1, DefinedFromFacts
    <3> QED BY <1>3, <3>2
  <2>2. ASSUME NEW g \in each, NEW p \in g.pairs
        PROVE  p \in q
    <3>1. PICK k \in 1 .. Len(all) : g = groups[d.of[k]]
      BY <1>4
    <3>2. p \in Pairs(all[k])
      BY <2>2, <3>1, DefinedFromFacts
    <3> QED BY <1>2, <3>2
  <2> HIDE DEF q
  <2> QED BY <2>1, <2>2
<1> HIDE DEF m, q
<1> QED BY <1>1, <1>5, <1>6 DEF Relations!Satisfies, each

(* COORDINATIONTABLEINTERSECTION keeps the pairs that end in all other     *)
(* groups.                                                                 *)
LEMMA TableIntersectionSatisfied ==
  ASSUME NEW d, d.kind = "coordinationtableintersection", NEW all, NEW groups,
         DefinedFrom(d, all, groups), groups[d.name] = RelationOf(TableIntersection(all))
  PROVE  Relations!Satisfies(d, groups)
<1> DEFINE g == all[1]
           q == UNION {PairsOf(a, ToSet(KeptRow(all, a))) : a \in MembersOf(g)}
           others == {groups[d.of[k]] : k \in 2 .. Len(d.of)}
           kept == {p \in groups[d.of[1]].pairs : \A o \in others : p[2] \in o.members}
<1>1. g \in Sound
  BY DefinedFromFacts
<1>2. RelationOf(TableIntersection(all)) = [members |-> MembersOf(g), pairs |-> q]
  <2>1. Adds(Sound, TableIntersection(all), EmptyGroup, MembersOf(g), q)
    BY <1>1, TableIntersectionAdds
  <2> HIDE DEF q, g
  <2> QED BY <2>1, AddsToEmptyRelation
<1>3. \A b : (\A o \in others : b \in o.members) <=> \A k \in 2 .. Len(all) : IsMember(all[k], b)
  BY DefinedFromFacts DEF IsMember
<1>4. groups[d.of[1]].pairs = Pairs(g) /\ groups[d.of[1]].members = MembersOf(g)
  BY DefinedFromFacts
<1> HIDE DEF others
<1>5. q = kept
  <2>1. ASSUME NEW p \in q
        PROVE  p \in kept
    <3>1. PICK a \in MembersOf(g) : p \in PairsOf(a, ToSet(KeptRow(all, a)))
      OBVIOUS
    <3>2. PICK b \in ToSet(KeptRow(all, a)) : p = <<a, b>>
      BY <3>1 DEF PairsOf
    <3>3. b \in ToSet(TableOf(g, a)) /\ \A k \in 2 .. Len(all) : IsMember(all[k], b)
      BY <1>1, KeptRowFacts
    <3>4. p \in Pairs(g) /\ p[2] = b
      BY <1>1, <3>2, <3>3, PairWhat
    <3> QED BY <1>3, <1>4, <3>3, <3>4
  <2>2. ASSUME NEW p \in kept
        PROVE  p \in q
    <3>1. p \in Pairs(g) /\ \A k \in 2 .. Len(all) : IsMember(all[k], p[2])
      BY <1>3, <1>4
    <3>2. p = <<p[1], p[2]>> /\ p[1] \in MembersOf(g) /\ p[2] \in ToSet(TableOf(g, p[1]))
      BY <1>1, <3>1, PairWhat
    <3>3. p[2] \in ToSet(KeptRow(all, p[1]))
      BY <1>1, <3>1, <3>2, KeptRowFacts
    <3>4. p \in PairsOf(p[1], ToSet(KeptRow(all, p[1])))
      BY <3>2, <3>3 DEF PairsOf
    <3> QED BY <3>2, <3>4
  <2> HIDE DEF q, kept
  <2> QED BY <2>1, <2>2
<1>6. groups[d.name] = [members |-> groups[d.of[1]].members, pairs |-> kept]
  <2> HIDE DEF q, kept, g
  <2> QED BY <1>2, <1>4, <1>5
<1> QED BY <1>6 DEF Relations!Satisfies, others

(* Coordinated is a range of numbers.                                      *)
LEMMA LimitsWhat ==
  ASSUME NEW i \in DOMAIN Definitions, NEW d, d = Definitions[i], NEW n \in Nat
  PROVE  Coordinated(d, n) <=> n \in d.minCoord .. d.maxCoord
<1>1. d.minCoord \in Nat /\ d.maxCoord \in Nat
  BY DefinitionFacts DEF WellDefined
<1> QED BY <1>1 DEF Coordinated

(* SUBGROUPCN has the members with as many pairs as it says.               *)
LEMMA SubGroupCNSatisfied ==
  ASSUME NEW i \in DOMAIN Definitions, NEW d, d = Definitions[i], d.kind = "subgroupcn",
         NEW g \in Sound, NEW groups,
         groups[d.of[1]] = RelationOf(g), groups[d.name] = RelationOf(SubGroupCN(d, g))
  PROVE  Relations!Satisfies(d, groups)
<1> DEFINE S == {a \in MembersOf(g) : Coordinated(d, NumberOf(g, a))}
           m == MembersOf(g) \cap S
           ofNumber == {a \in groups[d.of[1]].members :
                          Relations!Cardinality(Relations!Row(groups[d.of[1]], a))
                            \in d.minCoord .. d.maxCoord}
<1>1. RelationOf(SubGroupCN(d, g)) = [members |-> m, pairs |-> {p \in Pairs(g) : p[1] \in m}]
  <2>1. SubGroupCN(d, g) = Selected(g, S)
    BY DEF SubGroupCN
  <2> HIDE DEF S
  <2> QED BY <2>1, SelectedRelation
<1>2. groups[d.of[1]].members = MembersOf(g) /\ groups[d.of[1]].pairs = Pairs(g)
  BY DEF RelationOf
<1>3. ASSUME NEW a \in MembersOf(g)
      PROVE  Coordinated(d, NumberOf(g, a)) <=>
               Relations!Cardinality(Relations!Row(groups[d.of[1]], a)) \in d.minCoord .. d.maxCoord
  <2>1. Relations!Row(groups[d.of[1]], a) = ToSet(TableOf(g, a))
    BY RowWhat
  <2>2. TableOf(g, a) \in Lists /\ NumberOf(g, a) = Len(TableOf(g, a)) /\ NumberOf(g, a) \in Nat
    BY MemberIdFacts, SoundByMembers DEF Sound
  <2>3. Cardinality(ToSet(TableOf(g, a))) = NumberOf(g, a)
    BY <2>2, ListCardinality DEF Lists
  <2> QED BY <2>1, <2>2, <2>3, SameOperators, LimitsWhat
<1>4. ofNumber = m
  BY <1>2, <1>3
<1>5. groups[d.name] = [members |-> ofNumber, pairs |-> Relations!CutTo(groups[d.of[1]].pairs,
                                                                        ofNumber)]
  <2> HIDE DEF m, ofNumber
  <2> QED BY <1>1, <1>2, <1>4 DEF Relations!CutTo
<1> QED BY <1>5 DEF Relations!Satisfies

(* ADDCOORDINATION adds the composition of the two relations.              *)
LEMMA AddCoordinationSatisfied ==
  ASSUME NEW d, d.kind = "addcoordination", NEW g \in Sound, NEW h \in Sound, NEW groups,
         groups[d.of[1]] = RelationOf(g), groups[d.of[2]] = RelationOf(h),
         groups[d.name] = RelationOf(AddCoordination(g, h))
  PROVE  Relations!Satisfies(d, groups)
<1> DEFINE q == UNION {SecondPairs(g, a, h) : a \in MembersOf(g)}
           second == UNION {{<<p[1], c>> : c \in Relations!Row(groups[d.of[2]],
                                                               p[2])} : p \in Pairs(g)}
<1>1. RelationOf(AddCoordination(g, h)) = [members |-> MembersOf(g), pairs |-> q]
  <2>1. Adds(Sound, AddCoordination(g, h), EmptyGroup, MembersOf(g), q)
    BY AddCoordinationAdds
  <2> HIDE DEF q
  <2> QED BY <2>1, AddsToEmptyRelation
<1>2. \A b : ToSet(SecondRow(h, b)) = Relations!Row(groups[d.of[2]], b)
  <2> SUFFICES ASSUME NEW b
               PROVE  ToSet(SecondRow(h, b)) = Relations!Row(groups[d.of[2]], b)
    OBVIOUS
  <2>1. ToSet(<<>>) = {}
    BY EmptyList
  <2> QED BY <2>1, RowWhat DEF SecondRow, IsMember
<1>3. \A p : p \in q <=> \E a \in MembersOf(g) : p \in SecondPairs(g, a, h)
  OBVIOUS
<1>4. \A p : p \in second <=> \E r \in Pairs(g) : \E c \in Relations!Row(groups[d.of[2]],
                                                                         r[2]) : p = <<r[1], c>>
  OBVIOUS
<1> HIDE DEF q, second
<1>5. ASSUME NEW a \in MembersOf(g), NEW p
      PROVE  p \in SecondPairs(g, a, h) <=>
               \/ \E b \in ToSet(TableOf(g, a)) : p = <<a, b>>
               \/ \E b \in ToSet(TableOf(g, a)) : \E c \in ToSet(SecondRow(h, b)) : p = <<a, c>>
  BY DEF SecondPairs, PairsOf
<1>6. q = Pairs(g) \cup second
  <2>1. ASSUME NEW p \in q
        PROVE  p \in Pairs(g) \cup second
    <3>1. PICK a \in MembersOf(g) : p \in SecondPairs(g, a, h)
      BY <1>3
    <3>2. CASE \E b \in ToSet(TableOf(g, a)) : p = <<a, b>>
      BY <3>2, PairWhat
    <3>3. CASE \E b \in ToSet(TableOf(g, a)) : \E c \in ToSet(SecondRow(h, b)) : p = <<a, c>>
      <4>1. PICK b \in ToSet(TableOf(g, a)) : \E c \in ToSet(SecondRow(h, b)) : p = <<a, c>>
        BY <3>3
      <4>2. <<a, b>> \in Pairs(g) /\ <<a, b>>[1] = a /\ <<a, b>>[2] = b
        BY PairWhat
      <4>3. \E r \in Pairs(g) : \E c \in Relations!Row(groups[d.of[2]], r[2]) : p = <<r[1], c>>
        BY <1>2, <4>1, <4>2
      <4> QED BY <1>4, <4>3
    <3> QED BY <1>5, <3>1, <3>2, <3>3
  <2>2. ASSUME NEW p \in Pairs(g)
        PROVE  p \in q
    <3>1. p = <<p[1], p[2]>> /\ p[1] \in MembersOf(g) /\ p[2] \in ToSet(TableOf(g, p[1]))
      BY PairWhat
    <3> QED BY <1>3, <1>5, <3>1
  <2>3. ASSUME NEW p \in second
        PROVE  p \in q
    <3>1. PICK r \in Pairs(g) : \E c \in Relations!Row(groups[d.of[2]], r[2]) : p = <<r[1], c>>
      BY <1>4
    <3>2. r[1] \in MembersOf(g) /\ r[2] \in ToSet(TableOf(g, r[1]))
      BY PairWhat
    <3>3. \E c \in ToSet(SecondRow(h, r[2])) : p = <<r[1], c>>
      BY <1>2, <3>1
    <3>4. p \in SecondPairs(g, r[1], h)
      BY <1>5, <3>2, <3>3
    <3> QED BY <1>3, <3>2, <3>4
  <2> QED BY <2>1, <2>2, <2>3
<1>7. groups[d.of[1]].members = MembersOf(g) /\ groups[d.of[1]].pairs = Pairs(g)
  BY DEF RelationOf
<1>8. groups[d.name] = [members |-> groups[d.of[1]].members,
                        pairs |-> groups[d.of[1]].pairs \cup second]
  BY <1>1, <1>6, <1>7
<1> QED BY <1>7, <1>8 DEF Relations!Satisfies, second

(* BOND has the pairs within the distances, of from-atoms with a right     *)
(* number of them.                                                         *)
LEMMA BondSatisfied ==
  ASSUME NEW i \in DOMAIN Definitions, NEW d, d = Definitions[i], d.kind = "bond",
         NEW bonds, dist' = bonds, NEW g \in Sound, NEW to \in Sound, NEW groups,
         groups[d.of[1]] = RelationOf(g), groups[d.of[2]] = RelationOf(to),
         groups[d.name] = RelationOf(Bond(d, bonds, g, to))
  PROVE  Relations!Satisfies(d, groups)
<1> DEFINE W(a) == Relations!Within(d, a, groups)
           bonded == {a \in groups[d.of[1]].members :
                        Relations!Cardinality(W(a)) \in d.minCoord .. d.maxCoord}
           pairs == UNION {{<<a, b>> : b \in W(a)} : a \in bonded}
           m == UNION {Brought(d, bonds, to, a) : a \in MembersOf(g)}
           q == UNION {PairsOf(a, Partners(d, bonds, to, a)) : a \in MembersOf(g)}
           seconds == {p[2] : p \in pairs}
<1>1. RelationOf(Bond(d, bonds, g, to)) = [members |-> m, pairs |-> q]
  <2>1. Adds(Sound, Bond(d, bonds, g, to), EmptyGroup, m, q)
    BY BondAdds
  <2> HIDE DEF m, q
  <2> QED BY <2>1, AddsToEmptyRelation
<1>2. groups[d.of[1]].members = MembersOf(g) /\ groups[d.of[2]].members = MembersOf(to)
  BY DEF RelationOf
<1>3. \A a : W(a) = ToSet(ToList(d, a, bonds, to))
  <2> SUFFICES ASSUME NEW a
               PROVE  W(a) = ToSet(ToList(d, a, bonds, to))
    OBVIOUS
  <2>1. W(a) = {b \in MembersOf(to) \ {a} : bonds[a][b] > d.minDist /\ bonds[a][b] < d.maxDist}
    BY <1>2 DEF Relations!Within
  <2> QED BY <2>1, ToListFacts
<1>4. \A a : Bound(d, bonds, to, a) <=> Relations!Cardinality(W(a)) \in d.minCoord .. d.maxCoord
  <2> SUFFICES ASSUME NEW a
               PROVE  Bound(d, bonds, to, a) <=>
                        Relations!Cardinality(W(a)) \in d.minCoord .. d.maxCoord
    OBVIOUS
  <2> DEFINE l == ToList(d, a, bonds, to)
  <2>1. l \in Lists /\ Len(l) \in Nat
    BY ToListFacts
  <2>2. Cardinality(ToSet(l)) = Len(l)
    BY <2>1, ListCardinality DEF Lists
  <2>3. Relations!Cardinality(W(a)) = Len(l)
    BY <1>3, <2>2, SameOperators
  <2>4. Coordinated(d, Len(l)) <=> Len(l) \in d.minCoord .. d.maxCoord
    <3> HIDE DEF l
    <3> QED BY <2>1, LimitsWhat
  <2> HIDE DEF W
  <2> QED BY <2>3, <2>4 DEF Bound
<1> HIDE DEF W
<1>5. \A a : a \in bonded <=> a \in MembersOf(g) /\ Bound(d, bonds, to, a)
  BY <1>2, <1>4
<1>6. \A a : Partners(d, bonds, to, a) = IF Bound(d, bonds, to, a) THEN W(a) ELSE {}
  BY <1>3 DEF Partners
<1> HIDE DEF bonded
<1>7. q = pairs
  <2>1. ASSUME NEW p \in q
        PROVE  p \in pairs
    <3>1. PICK a \in MembersOf(g) : p \in PairsOf(a, Partners(d, bonds, to, a))
      OBVIOUS
    <3>2. PICK b \in Partners(d, bonds, to, a) : p = <<a, b>>
      BY <3>1 DEF PairsOf
    <3>3. a \in bonded /\ b \in W(a)
      BY <1>5, <1>6
    <3> QED BY <3>2, <3>3
  <2>2. ASSUME NEW p \in pairs
        PROVE  p \in q
    <3>1. PICK a \in bonded : \E b \in W(a) : p = <<a, b>>
      OBVIOUS
    <3>2. a \in MembersOf(g) /\ Partners(d, bonds, to, a) = W(a)
      BY <1>5, <1>6
    <3>3. p \in PairsOf(a, Partners(d, bonds, to, a))
      BY <3>1, <3>2 DEF PairsOf
    <3> QED BY <3>2, <3>3
  <2> HIDE DEF q, pairs
  <2> QED BY <2>1, <2>2
<1>8. \A b : b \in seconds <=> \E a \in bonded : b \in W(a)
  <2>1. ASSUME NEW b \in seconds
        PROVE  \E a \in bonded : b \in W(a)
    <3>1. PICK p \in pairs : b = p[2]
      OBVIOUS
    <3>2. PICK a \in bonded : \E c \in W(a) : p = <<a, c>>
      OBVIOUS
    <3> QED BY <3>1, <3>2
  <2>2. ASSUME NEW b, NEW a \in bonded, b \in W(a)
        PROVE  b \in seconds
    <3>1. <<a, b>> \in pairs /\ b = <<a, b>>[2]
      BY <2>2
    <3> HIDE DEF pairs
    <3> QED BY <3>1
  <2> HIDE DEF seconds
  <2> QED BY <2>1, <2>2
<1>9. m = bonded \cup (IF d.include THEN seconds ELSE {})
  <2>1. \A a : Brought(d, bonds, to, a) =
               IF Bound(d, bonds, to, a) THEN {a} \cup (IF d.include THEN W(a) ELSE {}) ELSE {}
    BY <1>6 DEF Brought
  <2>2. \A x : x \in m <=> \E a \in MembersOf(g) : x \in Brought(d, bonds, to, a)
    OBVIOUS
  <2> HIDE DEF m, seconds
  <2>3. \A x : x \in m <=> \E a \in bonded : x = a \/ (d.include /\ x \in W(a))
    BY <1>5, <2>1, <2>2
  <2> QED BY <1>8, <2>3
<1>10. Relations!IsBond(d, groups[d.name], groups)
  <2>1. groups[d.name].members = m /\ groups[d.name].pairs = q
    <3> HIDE DEF m, q
    <3> QED BY <1>1
  <2>2. Relations!Seconds(pairs) = seconds
    BY DEF Relations!Seconds
  <2> HIDE DEF m, q, seconds
  <2>3. /\ groups[d.name].pairs = pairs
        /\ groups[d.name].members = bonded \cup (IF d.include THEN Relations!Seconds(pairs) ELSE {})
    BY <1>7, <1>9, <2>1, <2>2
  <2> QED BY <2>3 DEF Relations!IsBond, bonded, W
<1> QED BY <1>10 DEF Relations!Satisfies

(* FINDSHORTEST gives every from-atom to one atom that is nearest.         *)
LEMMA FindShortestSatisfied ==
  ASSUME NEW d, d.kind = "findshortest", NEW bonds \in Distances, dist' = bonds,
         NEW g \in Sound, NEW to \in Sound, NEW groups,
         groups[d.of[1]] = RelationOf(g), groups[d.of[2]] = RelationOf(to),
         groups[d.name] = RelationOf(FindShortest(bonds, g, to))
  PROVE  Relations!Satisfies(d, groups)
<1> DEFINE from == MembersOf(g)
           near(a) == to.atoms[Nearest(bonds, a, to.atoms)]
           m == UNION {NearestTo(bonds, a, to) : a \in from}
           q == UNION {{<<b, a>> : b \in NearestTo(bonds, a, to)} : a \in from}
           firsts == {p[1] : p \in q}
           seconds == {p[2] : p \in q}
<1>1. \A a, b \in Atoms : bonds[a][b] \in Nat
  BY BondsFacts
<1>2. groups[d.name].members = m /\ groups[d.name].pairs = q
  <2>1. Adds(Sound, FindShortest(bonds, g, to), EmptyGroup, m, q)
    BY <1>1, FindShortestAdds
  <2> HIDE DEF m, q
  <2>2. RelationOf(FindShortest(bonds, g, to)) = [members |-> m, pairs |-> q]
    BY <2>1, AddsToEmptyRelation
  <2> QED BY <2>2
<1>3. groups[d.of[1]].members = from /\ groups[d.of[2]].members = MembersOf(to)
  BY DEF RelationOf
<1>4. from \subseteq Atoms /\ IsFiniteSet(from)
  BY GroupSize, IdsFacts, FS_Subset
<1>5. ASSUME NEW a \in from
      PROVE  /\ NearestTo(bonds, a, to) = IF MembersOf(to) = {} THEN {} ELSE {near(a)}
             /\ MembersOf(to) # {} => near(a) \in MembersOf(to)
                                      /\ \A b \in MembersOf(to) : bonds[a][near(a)] <= bonds[a][b]
  BY <1>1, <1>4, NearestToFacts DEF NearestTo
<1>6. CASE MembersOf(to) = {}
  <2>1. q = {} /\ m = {}
    BY <1>5, <1>6
  <2>2. firsts = {} /\ seconds = {}
    BY <2>1
  <2> HIDE DEF m, q, from
  <2> QED BY <1>2, <1>3, <1>6, <2>1, SameOperators
      DEF Relations!Satisfies, Relations!IsShortest, Relations!Firsts, Relations!Seconds
<1>7. CASE MembersOf(to) # {}
  <2> DEFINE f == [a \in from |-> <<near(a), a>>]
  <2>1. \A p \in q : p[2] \in from /\ p = <<near(p[2]), p[2]>>
    <3> SUFFICES ASSUME NEW p \in q
                 PROVE  p[2] \in from /\ p = <<near(p[2]), p[2]>>
      OBVIOUS
    <3>1. PICK a \in from : p \in {<<b, a>> : b \in NearestTo(bonds, a, to)}
      OBVIOUS
    <3>2. p = <<near(a), a>>
      <4> HIDE DEF near
      <4> QED BY <1>5, <1>7, <3>1
    <3> HIDE DEF near
    <3> QED BY <3>2
  <2>2. \A a \in from : <<near(a), a>> \in q
    <3> SUFFICES ASSUME NEW a \in from
                 PROVE  <<near(a), a>> \in q
      OBVIOUS
    <3>1. near(a) \in NearestTo(bonds, a, to)
      <4> HIDE DEF near
      <4> QED BY <1>5, <1>7
    <3> HIDE DEF near
    <3> QED BY <3>1
  <2>3. \A x : x \in m <=> \E a \in from : x = near(a)
    <3>1. \A x : x \in m <=> \E a \in from : x \in NearestTo(bonds, a, to)
      OBVIOUS
    <3> HIDE DEF near, m
    <3> QED BY <1>5, <1>7, <3>1
  <2> HIDE DEF near, q, m, from
  <2>4. seconds = from
    <3>1. ASSUME NEW a \in from
          PROVE  a \in seconds
      <4>1. <<near(a), a>> \in q /\ <<near(a), a>>[2] = a
        BY <2>2
      <4> QED BY <4>1
    <3> QED BY <2>1, <3>1
  <2>5. firsts = m
    <3>1. ASSUME NEW x \in m
          PROVE  x \in firsts
      <4>1. PICK a \in from : x = near(a)
        BY <2>3
      <4>2. <<near(a), a>> \in q /\ <<near(a), a>>[1] = x
        BY <2>2, <4>1
      <4> QED BY <4>2
    <3>2. ASSUME NEW p \in q
          PROVE  p[1] \in m
      BY <2>1, <2>3
    <3> QED BY <3>1, <3>2
  <2>6. Cardinality(q) = Cardinality(from)
    <3>1. f \in [from -> q] /\ \A x, y \in from : f[x] = f[y] => x = y
      BY <2>2
    <3>2. \A p \in q : \E x \in from : f[x] = p
      BY <2>1
    <3> HIDE DEF f
    <3> QED BY <1>4, <3>1, <3>2, SameSize
  <2>7. ASSUME NEW p \in q
        PROVE  /\ p[1] \in MembersOf(to)
               /\ \A b \in MembersOf(to) : dist'[p[2]][p[1]] <= dist'[p[2]][b]
    <3>1. p[2] \in from /\ p[1] = near(p[2])
      BY <2>1
    <3> QED BY <1>5, <1>7, <3>1
  <2>8. Relations!Seconds(q) = from /\ Relations!Firsts(q) = m
        /\ Relations!Cardinality(q) = Relations!Cardinality(Relations!Seconds(q))
    BY <2>4, <2>5, <2>6, SameOperators DEF Relations!Seconds, Relations!Firsts
  <2>9. Relations!IsShortest(d, groups[d.name], groups)
    BY <1>2, <1>3, <1>7, <2>7, <2>8 DEF Relations!IsShortest
  <2> QED BY <2>9 DEF Relations!Satisfies
<1> QED BY <1>6, <1>7

-----------------------------------------------------------------------------
(* MEMBERHISTORY.                                                          *)

(* The remainder of a division is the one number below the divisor.        *)
LEMMA ModUnique ==
  ASSUME NEW n \in Nat, NEW f \in Nat \ {0}, NEW q \in Int, NEW r \in 0 .. f - 1, n = f * q + r
  PROVE  n % f = r
<1> DEFINE p == n \div f
           s == n % f
<1>1. p \in Nat /\ s \in 0 .. f - 1 /\ n = f * p + s
  BY Z3
<1> HIDE DEF p, s
<1>2. \A a, b \in Int : a < b => f * b >= f * a + f
  <2> SUFFICES ASSUME NEW a \in Int, NEW b \in Int, a < b PROVE f * b >= f * a + f
    OBVIOUS
  <2>1. PICK d \in Nat : b = a + 1 + d
    <3>1. b - a - 1 \in Nat /\ b = a + 1 + (b - a - 1)
      OBVIOUS
    <3> QED BY <3>1
  <2>2. f * b = f * a + f + f * d /\ f * d >= 0
    BY <2>1
  <2>3. f * b \in Int /\ f * a \in Int /\ f * d \in Int
    BY <2>1
  <2> QED BY <2>2, <2>3
<1>3. f * p \in Int /\ f * q \in Int
  BY <1>1
<1>4. ~(p < q)
  <2>1. p < q => f * q >= f * p + f
    BY <1>1, <1>2
  <2> QED BY <1>1, <1>3, <2>1
<1>5. ~(q < p)
  <2>1. q < p => f * p >= f * q + f
    BY <1>1, <1>2
  <2> QED BY <1>1, <1>3, <2>1
<1>6. p = q
  BY <1>1, <1>4, <1>5
<1>7. s = r
  BY <1>1, <1>3, <1>6
<1> QED BY <1>7 DEF s

(* Every division has a remainder.                                         *)
LEMMA ModExists ==
  ASSUME NEW n \in Nat, NEW f \in Nat \ {0}
  PROVE  n % f \in 0 .. f - 1 /\ \E q \in Nat : n = f * q + (n % f)
<1> DEFINE p == n \div f
           s == n % f
<1>1. p \in Nat /\ s \in 0 .. f - 1 /\ n = f * p + s
  BY Z3
<1> HIDE DEF p, s
<1>2. s \in 0 .. f - 1 /\ \E q \in Nat : n = f * q + s
  BY <1>1
<1> QED BY <1>2 DEF s

(* Numbers that are closer to each other than the ring is long have        *)
(* different slots.                                                        *)
LEMMA ModDistinct ==
  ASSUME NEW f \in Nat \ {0}, NEW a \in Nat, NEW b \in Nat, a < b, b - a < f
  PROVE  a % f # b % f
<1> DEFINE r == a % f
           s == b % f
<1>1. PICK p \in Nat : a = f * p + r
  BY ModExists
<1>2. PICK q \in Nat : b = f * q + s
  BY ModExists
<1>3. r \in 0 .. f - 1 /\ s \in 0 .. f - 1
  BY ModExists
<1> HIDE DEF r, s
<1> SUFFICES ASSUME r = s PROVE FALSE
  BY DEF r, s
<1>4. f * p \in Int /\ f * q \in Int /\ f * q - f * p = b - a
  BY <1>1, <1>2, <1>3
<1>5. ~(q <= p)
  <2>1. SUFFICES ASSUME q <= p PROVE FALSE
    OBVIOUS
  <2>2. PICK d \in Nat : p = q + d
    <3>1. p - q \in Nat /\ p = q + (p - q)
      BY <2>1
    <3> QED BY <3>1
  <2>3. f * p = f * q + f * d /\ f * d >= 0 /\ f * d \in Int
    BY <2>2
  <2> QED BY <1>4, <2>3
<1>6. PICK d \in Nat : q = p + 1 + d
  <2>1. q - p - 1 \in Nat /\ q = p + 1 + (q - p - 1)
    BY <1>5
  <2> QED BY <2>1
<1>7. f * q = f * p + f + f * d /\ f * d >= 0 /\ f * d \in Int
  BY <1>6
<1> QED BY <1>4, <1>7

(* A number and the one a ring length before it have the same slot.        *)
LEMMA ModShift ==
  ASSUME NEW f \in Nat \ {0}, NEW n \in Nat, n - f \in Nat
  PROVE  (n - f) % f = n % f
<1> DEFINE r == n % f
<1>1. PICK q \in Nat : n = f * q + r
  BY ModExists
<1>2. r \in 0 .. f - 1
  BY ModExists
<1> HIDE DEF r
<1>3. q - 1 \in Int /\ f * (q - 1) = f * q - f /\ f * q \in Int
  OBVIOUS
<1>4. n - f = f * (q - 1) + r
  BY <1>1, <1>2, <1>3
<1>5. (n - f) % f = r
  BY <1>2, <1>3, <1>4, ModUnique
<1> QED BY <1>5 DEF r

(* The ring of atom a says of slot k: a was a member in the one of the     *)
(* last m frames that this slot is for.                                    *)
InSlot(times, m, a, k) ==
  \E s \in DOMAIN times : s > Len(times) - m /\ (s - 1) % m = k /\ a \in times[s]

(* The next frame takes the slot of the frame a ring length before it.     *)
LEMMA InSlotAppend ==
  ASSUME NEW times \in Seq(SUBSET Atoms), NEW x \in SUBSET Atoms, NEW m \in Nat \ {0}, NEW a, NEW k
  PROVE  InSlot(Append(times, x), m, a, k) <=>
           IF k = Len(times) % m THEN a \in x ELSE InSlot(times, m, a, k)
<1> DEFINE n == Len(times)
           t == Append(times, x)
<1>1. /\ n \in Nat /\ DOMAIN times = 1 .. n /\ DOMAIN t = 1 .. n + 1 /\ Len(t) = n + 1
      /\ t[n + 1] = x /\ \A s \in 1 .. n : t[s] = times[s]
  OBVIOUS
<1>2. InSlot(t, m, a, k) <=> \E s \in 1 .. n + 1 : s > n + 1 - m /\ (s - 1) % m = k /\ a \in t[s]
  <2>1. n \in Nat /\ DOMAIN t = 1 .. n + 1 /\ Len(t) = n + 1
    BY <1>1
  <2> HIDE DEF t, n
  <2>2. ASSUME InSlot(t, m, a, k)
        PROVE  \E s \in 1 .. n + 1 : s > n + 1 - m /\ (s - 1) % m = k /\ a \in t[s]
    <3>1. PICK s \in DOMAIN t : s > Len(t) - m /\ (s - 1) % m = k /\ a \in t[s]
      BY <2>2 DEF InSlot
    <3>2. s \in 1 .. n + 1 /\ s > n + 1 - m
      BY <2>1, <3>1
    <3> QED BY <3>1, <3>2
  <2>3. ASSUME NEW s \in 1 .. n + 1, s > n + 1 - m, (s - 1) % m = k, a \in t[s]
        PROVE  InSlot(t, m, a, k)
    <3>1. s \in DOMAIN t /\ s > Len(t) - m
      BY <2>1, <2>3
    <3> QED BY <2>3, <3>1 DEF InSlot
  <2> QED BY <2>2, <2>3
<1>3. InSlot(times, m, a, k) <=> \E s \in 1 .. n : s > n - m /\ (s - 1) % m = k /\ a \in times[s]
  BY <1>1 DEF InSlot
<1> HIDE DEF t, n
<1>4. \A s \in 1 .. n : s - 1 \in Nat /\ (s > n + 1 - m => (s - 1) % m # n % m)
  <2> SUFFICES ASSUME NEW s \in 1 .. n, s > n + 1 - m
               PROVE  (s - 1) % m # n % m
    BY <1>1
  <2>1. s - 1 \in Nat /\ s - 1 < n /\ n - (s - 1) < m
    BY <1>1
  <2> QED BY <1>1, <2>1, ModDistinct
<1>5. n + 1 - m \in 1 .. n => (n + 1 - m - 1) % m = n % m
  <2> SUFFICES ASSUME n + 1 - m \in 1 .. n
               PROVE  (n + 1 - m - 1) % m = n % m
    OBVIOUS
  <2>1. n - m \in Nat /\ n + 1 - m - 1 = n - m
    BY <1>1
  <2> QED BY <1>1, <2>1, ModShift
<1>6. CASE k = n % m
  <2>1. InSlot(t, m, a, k) <=> a \in x
    <3>1. \A s \in 1 .. n + 1 : s = n + 1 \/ s \in 1 .. n
      BY <1>1
    <3>2. n + 1 \in 1 .. n + 1 /\ n + 1 > n + 1 - m /\ n + 1 - 1 = n
      BY <1>1
    <3> QED BY <1>1, <1>2, <1>4, <1>6, <3>1, <3>2
  <2> QED BY <1>6, <2>1 DEF n, t
<1>7. CASE k # n % m
  <2>1. ASSUME InSlot(t, m, a, k)
        PROVE  InSlot(times, m, a, k)
    <3>1. PICK s \in 1 .. n + 1 : s > n + 1 - m /\ (s - 1) % m = k /\ a \in t[s]
      BY <1>2, <2>1
    <3>2. s # n + 1
      <4> SUFFICES ASSUME s = n + 1
                   PROVE  FALSE
        OBVIOUS
      <4>1. s - 1 = n
        BY <1>1
      <4>2. (s - 1) % m = n % m
        BY <4>1
      <4> QED BY <1>7, <3>1, <4>2
    <3>3. s \in 1 .. n /\ s > n - m
      BY <1>1, <3>1, <3>2
    <3> QED BY <1>1, <1>3, <3>1, <3>3
  <2>2. ASSUME InSlot(times, m, a, k)
        PROVE  InSlot(t, m, a, k)
    <3>1. PICK s \in 1 .. n : s > n - m /\ (s - 1) % m = k /\ a \in times[s]
      BY <1>3, <2>2
    <3>2. s # n + 1 - m
      <4> SUFFICES ASSUME s = n + 1 - m
                   PROVE  FALSE
        OBVIOUS
      <4>1. n + 1 - m \in 1 .. n
        OBVIOUS
      <4>2. (n + 1 - m - 1) % m = n % m
        BY <1>5, <4>1
      <4>3. s - 1 = n + 1 - m - 1
        BY <1>1
      <4>4. (s - 1) % m = n % m
        BY <4>2, <4>3
      <4> QED BY <1>7, <3>1, <4>4
    <3>3. s \in 1 .. n + 1 /\ s > n + 1 - m
      BY <1>1, <3>1, <3>2
    <3> QED BY <1>1, <1>2, <3>1, <3>3
  <2> QED BY <1>7, <2>1, <2>2 DEF n, t
<1> QED BY <1>6, <1>7

(* As many slots of a ring are set as there were such frames.              *)
Slots(times, m, a) == [k \in 0 .. m - 1 |-> InSlot(times, m, a, k)]
SlotsSet(ring) == {k \in DOMAIN ring : ring[k]}
Recently(times, m, a) == {s \in DOMAIN times : s > Len(times) - m /\ a \in times[s]}

(* Each of these frames has a slot of its own.                             *)
LEMMA SlotsCount ==
  ASSUME NEW times \in Seq(SUBSET Atoms), NEW m \in Nat \ {0}, NEW a
  PROVE  Cardinality(SlotsSet(Slots(times, m, a))) = Cardinality(Recently(times, m, a))
<1> DEFINE ring == Slots(times, m, a)
           n == Len(times)
           S == {s \in 1 .. n : s > n - m /\ a \in times[s]}
           T == {k \in 0 .. m - 1 : \E s \in S : (s - 1) % m = k}
           f == [s \in S |-> (s - 1) % m]
<1>1. n \in Nat /\ DOMAIN times = 1 .. n
  OBVIOUS
<1>2. Recently(times, m, a) = S
  BY <1>1 DEF Recently
<1>3. SlotsSet(ring) = T
  <2>1. \A k \in 0 .. m - 1 : ring[k] <=> \E s \in S : (s - 1) % m = k
    BY <1>1 DEF InSlot, Slots
  <2>2. DOMAIN ring = 0 .. m - 1
    BY DEF Slots
  <2> HIDE DEF S, ring
  <2> QED BY <2>1, <2>2 DEF SlotsSet
<1> HIDE DEF n, ring
<1>4. IsFiniteSet(S)
  <2>1. IsFiniteSet(1 .. n) /\ S \subseteq 1 .. n
    BY <1>1, FS_Interval
  <2> QED BY <2>1, FS_Subset
<1>5. \A s \in S : s - 1 \in Nat /\ (s - 1) % m \in 0 .. m - 1
  <2> SUFFICES ASSUME NEW s \in S
               PROVE  s - 1 \in Nat /\ (s - 1) % m \in 0 .. m - 1
    OBVIOUS
  <2>1. s - 1 \in Nat
    BY <1>1
  <2> QED BY <2>1, ModExists
<1>6. \A s, u \in S : s < u => (s - 1) % m # (u - 1) % m
  <2> SUFFICES ASSUME NEW s \in S, NEW u \in S, s < u
               PROVE  (s - 1) % m # (u - 1) % m
    OBVIOUS
  <2>1. s - 1 \in Nat /\ u - 1 \in Nat /\ s - 1 < u - 1 /\ (u - 1) - (s - 1) < m
    BY <1>1
  <2> QED BY <2>1, ModDistinct
<1>7. \A s, u \in S : s = u \/ s < u \/ u < s
  BY <1>1
<1> HIDE DEF S
<1>8. \A s \in S : f[s] = (s - 1) % m
  OBVIOUS
<1>9. f \in [S -> T]
  <2>1. \A s \in S : (s - 1) % m \in T
    BY <1>5
  <2> HIDE DEF T
  <2> QED BY <2>1
<1>10. \A s, u \in S : f[s] = f[u] => s = u
  BY <1>6, <1>7, <1>8
<1>11. \A k \in T : \E s \in S : f[s] = k
  BY <1>8
<1> HIDE DEF f, T
<1>12. Cardinality(T) = Cardinality(S)
  BY <1>4, <1>9, <1>10, <1>11, SameSize
<1> QED BY <1>2, <1>3, <1>12 DEF ring
(* The rings of all the atoms of the parent.                               *)
RingsOf(parent, times, m) ==
  [i \in 1 .. Len(parent.atoms) |-> [k \in 0 .. m - 1 |-> InSlot(times, m, parent.atoms[i], k)]]

(* A frame takes the rings of the last frames to the rings of the last     *)
(* frames.                                                                 *)
LEMMA RingsStep ==
  ASSUME NEW d, d.maxHistory \in Nat \ {0}, NEW parent \in Sound, NEW memberOf \in Sound,
         NEW times \in Seq(SUBSET Atoms), NEW rings,
         times # <<>> => rings = RingsOf(parent, times, d.maxHistory)
  PROVE  Rings(d, Len(times), rings, parent, memberOf) =
           RingsOf(parent, Append(times, MembersOf(memberOf)), d.maxHistory)
<1> DEFINE n == Len(times)
           m == d.maxHistory
           l == Len(parent.atoms)
           x == MembersOf(memberOf)
           blank == [i \in 1 .. l |-> [k \in 0 .. m - 1 |-> FALSE]]
           old == IF n = 0 THEN blank ELSE rings
           w == RingsOf(parent, times, m)
           u == RingsOf(parent, Append(times, x), m)
<1>1. n \in Nat /\ l \in Nat /\ x \in SUBSET Atoms /\ (n = 0 <=> times = <<>>)
  BY GroupSize
<1>2. /\ w = [i \in 1 .. l |-> [k \in 0 .. m - 1 |-> InSlot(times, m, parent.atoms[i], k)]]
      /\ u = [i \in 1 .. l |-> [k \in 0 .. m - 1 |-> InSlot(Append(times, x), m, parent.atoms[i],
                                                            k)]]
  BY DEF RingsOf
<1>3. n % m \in 0 .. m - 1
  BY <1>1, ModExists
<1>4. Rings(d, n, rings, parent, memberOf) =
        [i \in DOMAIN old |-> IF i > l THEN old[i]
                              ELSE [old[i] EXCEPT ![n % m] = parent.atoms[i] \in x]]
  BY DEF Rings, IsMember
<1> HIDE DEF u, w
<1>5. old = w
  <2>1. CASE n = 0
    <3>1. \A a, k : ~InSlot(times, m, a, k)
      BY <1>1, <2>1 DEF InSlot
    <3>2. \A i : [k \in 0 .. m - 1 |-> FALSE] = [k \in 0 .. m - 1 |-> InSlot(times, m,
                                                                             parent.atoms[i], k)]
      <4> SUFFICES ASSUME NEW i
                   PROVE  \A k \in 0 .. m - 1 : FALSE = InSlot(times, m, parent.atoms[i], k)
        OBVIOUS
      <4>1. \A k : InSlot(times, m, parent.atoms[i], k) \in BOOLEAN
        BY DEF InSlot
      <4> QED BY <3>1, <4>1
    <3>3. blank = w
      BY <1>2, <3>2
    <3> HIDE DEF n, blank
    <3> QED BY <2>1, <3>3
  <2>2. CASE n # 0
    <3>1. rings = w
      BY <1>1, <2>2 DEF w
    <3> QED BY <2>2, <3>1
  <2> QED BY <2>1, <2>2
<1>6. \A a, k : InSlot(Append(times, x), m, a, k) <=>
                  IF k = n % m THEN a \in x ELSE InSlot(times, m, a, k)
  <2> HIDE DEF m, x
  <2> SUFFICES ASSUME NEW a, NEW k
               PROVE  InSlot(Append(times, x), m, a, k) <=>
                        IF k = n % m THEN a \in x ELSE InSlot(times, m, a, k)
    OBVIOUS
  <2> QED BY <1>1, InSlotAppend DEF m
<1> HIDE DEF old, n, m, x, l
<1>7. ASSUME NEW i \in 1 .. l
      PROVE  (IF i > l THEN w[i] ELSE [w[i] EXCEPT ![n % m] = parent.atoms[i] \in x]) = u[i]
  <2>1. ~(i > l)
    BY <1>1
  <2>2. [w[i] EXCEPT ![n % m] = parent.atoms[i] \in x] = u[i]
    <3>1. w[i] = [k \in 0 .. m - 1 |-> InSlot(times, m, parent.atoms[i], k)]
      BY <1>2
    <3>2. u[i] = [k \in 0 .. m - 1 |-> InSlot(Append(times, x), m, parent.atoms[i], k)]
      BY <1>2
    <3>3. [w[i] EXCEPT ![n % m] = parent.atoms[i] \in x] =
            [k \in 0 .. m - 1 |-> IF k = n % m THEN parent.atoms[i] \in x ELSE w[i][k]]
      BY <3>1
    <3>4. \A k \in 0 .. m - 1 : (IF k = n % m THEN parent.atoms[i] \in x ELSE w[i][k]) =
                                  InSlot(Append(times, x), m, parent.atoms[i], k)
      <4> SUFFICES ASSUME NEW k \in 0 .. m - 1
                   PROVE  (IF k = n % m THEN parent.atoms[i] \in x ELSE w[i][k]) =
                             InSlot(Append(times, x), m, parent.atoms[i], k)
        OBVIOUS
      <4>1. w[i][k] = InSlot(times, m, parent.atoms[i], k)
        BY <3>1
      <4>2. InSlot(Append(times, x), m, parent.atoms[i], k) \in BOOLEAN
            /\ InSlot(times, m, parent.atoms[i], k) \in BOOLEAN
        BY DEF InSlot
      <4> QED BY <1>6, <4>1, <4>2
    <3> QED BY <3>2, <3>3, <3>4
  <2> QED BY <2>1, <2>2
<1>8. DOMAIN w = 1 .. l /\ DOMAIN u = 1 .. l /\ u = [i \in 1 .. l |-> u[i]]
  BY <1>2
<1>9. Rings(d, n, rings, parent, memberOf) = u
  BY <1>4, <1>5, <1>7, <1>8
<1> QED BY <1>9 DEF n, m, x, u

(* The rings of d say what the history says.                               *)
Recorded(hist, d, parent, rings) ==
  /\ hist[d.of[2]] \in Seq(SUBSET Atoms)
  /\ rings = RingsOf(parent, hist[d.of[2]], d.maxHistory)

(* MEMBERHISTORY has who was a member in as many of the last frames as it  *)
(* says.                                                                   *)
LEMMA MemberHistorySatisfied ==
  ASSUME NEW i \in DOMAIN Definitions, NEW d, d = Definitions[i], d.kind = "memberhistory",
         NEW parent \in Sound, NEW drawFrom \in Sound, NEW rings, Recorded(past', d, parent, rings),
         NEW groups,
         groups[d.of[1]] = RelationOf(parent), groups[d.of[3]] = RelationOf(drawFrom),
         groups[d.name] = RelationOf(MemberHistory(d, rings, parent, drawFrom))
  PROVE  Relations!Satisfies(d, groups)
<1> DEFINE m == d.maxHistory
           times == past'[d.of[2]]
           recent(a) == Recently(times, m, a)
           R == Remembered(d, rings, parent, drawFrom)
           drawn == MembersOf(parent) \cap MembersOf(drawFrom)
           count(a) == Cardinality(SlotsSet(rings[MemberId(parent, a)]))
<1>0. times \in Seq(SUBSET Atoms) /\ rings = RingsOf(parent, times, m) /\ m \in Nat \ {0}
  BY DefinitionFacts DEF Recorded
<1> HIDE DEF times, m
<1>1. RelationOf(MemberHistory(d, rings, parent, drawFrom)) = [members |-> R, pairs |-> {}]
  <2>1. Adds(Sound, MemberHistory(d, rings, parent, drawFrom), EmptyGroup, R, {})
    BY MemberHistoryAdds
  <2> DEFINE made == MemberHistory(d, rings, parent, drawFrom)
  <2> HIDE DEF R, made
  <2>2. Adds(Sound, made, EmptyGroup, R, {})
    BY <2>1 DEF made
  <2>3. RelationOf(made) = [members |-> R, pairs |-> {}]
    BY <2>2, AddsToEmptyRelation
  <2> QED BY <2>3 DEF made
<1>2. R = {a \in drawn : Coordinated(d, count(a))}
  BY DEF Remembered, SlotsSet
<1>3. ASSUME NEW a \in MembersOf(parent)
      PROVE  count(a) = Cardinality(recent(a)) /\ count(a) \in Nat
  <2>1. MemberId(parent, a) \in 1 .. Len(parent.atoms) /\ parent.atoms[MemberId(parent, a)] = a
    BY MemberIdFacts DEF Sound
  <2>2. rings[MemberId(parent, a)] = [k \in 0 .. m - 1 |-> InSlot(times, m, a, k)]
    BY <1>0, <2>1 DEF RingsOf
  <2>3. IsFiniteSet(recent(a))
    <3>1. DOMAIN times = 1 .. Len(times) /\ Len(times) \in Nat
      BY <1>0
    <3>2. IsFiniteSet(1 .. Len(times)) /\ recent(a) \subseteq 1 .. Len(times)
      BY <3>1, FS_Interval DEF Recently
    <3> QED BY <3>2, FS_Subset
  <2>4. Cardinality(recent(a)) \in Nat
    BY <2>3, FS_CardinalityType
  <2>5. count(a) = Cardinality(recent(a))
    <3>1. Cardinality(SlotsSet(Slots(times, m, a))) = Cardinality(recent(a))
      BY <1>0, SlotsCount
    <3> QED BY <2>2, <3>1 DEF Slots
  <2> QED BY <2>4, <2>5
<1> DEFINE often == {a \in drawn : Cardinality(recent(a)) \in d.minCoord .. d.maxCoord}
<1>4. R = often
  <2>1. \A a \in drawn : Coordinated(d, count(a)) <=>
                           Cardinality(recent(a)) \in d.minCoord .. d.maxCoord
    <3> SUFFICES ASSUME NEW a \in drawn
                 PROVE  Coordinated(d, count(a)) <=>
                          Cardinality(recent(a)) \in d.minCoord .. d.maxCoord
      OBVIOUS
    <3>1. count(a) = Cardinality(recent(a)) /\ count(a) \in Nat
      BY <1>3
    <3> HIDE DEF count, recent
    <3> QED BY <3>1, LimitsWhat
  <2> HIDE DEF count, recent, drawn, R
  <2> QED BY <1>2, <2>1
<1>5. /\ groups[d.name].members = R /\ groups[d.name].pairs = {}
      /\ groups[d.of[1]].members = MembersOf(parent) /\ groups[d.of[3]].members = MembersOf(drawFrom)
  <2> HIDE DEF R
  <2> QED BY <1>1 DEF RelationOf
<1> DEFINE memberTime(a) == Relations!Cardinality(
             {k \in {k \in DOMAIN times : k > Len(times) - m} : a \in times[k]})
<1>6. \A a : memberTime(a) = Cardinality(recent(a))
  <2> SUFFICES ASSUME NEW a
               PROVE  memberTime(a) = Cardinality(recent(a))
    OBVIOUS
  <2>1. {k \in {k \in DOMAIN times : k > Len(times) - m} : a \in times[k]} = recent(a)
    BY DEF Recently
  <2> QED BY <2>1, SameOperators
<1>7. often = {a \in drawn : memberTime(a) \in d.minCoord .. d.maxCoord}
  <2> HIDE DEF memberTime, recent
  <2> QED BY <1>6
<1>8. Relations!IsHistory(d, groups[d.name], groups)
  <2>1. groups[d.name].members = {a \in groups[d.of[1]].members \cap groups[d.of[3]].members :
                                    memberTime(a) \in d.minCoord .. d.maxCoord}
    <3> HIDE DEF memberTime, often, R
    <3> QED BY <1>4, <1>5, <1>7
  <2> QED BY <1>5, <2>1 DEF Relations!IsHistory, times, m
<1> QED BY <1>8 DEF Relations!Satisfies
(* A static group keeps its members from the first frame on.               *)
LEMMA StaticKept ==
  ASSUME NEW gs \in States, NEW hist \in Histories, CountsRight(gs, hist), NEW bonds \in Distances,
         NEW i \in DOMAIN Definitions, Definitions[i].static, hist[Definitions[i].name] # <<>>,
         NEW final, final = UpdateGroups(gs, bonds)
  PROVE  final[Definitions[i].name].group = gs[Definitions[i].name].group
<1> DEFINE n == Definitions[i].name
           w == Writer(i)
           d == Definitions[w]
<1>1. /\ n \in Names /\ w \in DOMAIN Definitions /\ d.kind # "corresponding" /\ d.name \in Names
      /\ Definitions[i].kind = "corresponding" => IsOther(Definitions[i], d)
  BY WriterFacts, DefinitionFacts
<1>2. d.static
  <2>1. CASE Definitions[i].kind = "corresponding"
    BY <1>1, <2>1 DEF IsOther
  <2>2. CASE Definitions[i].kind # "corresponding"
    BY <2>2 DEF Writer
  <2> QED BY <2>1, <2>2
<1>3. PICK h : Made(gs, h, final, d, bonds)
  BY <1>1, FrameFacts
<1>4. Skipped(d, gs)
  <2>1. gs[d.name].mUpdateCount = Len(hist[d.name])
    BY <1>1 DEF CountsRight, Counts, CountedOnce, CountsAll
  <2>2. hist[d.name] \in Seq(SUBSET Atoms) /\ Len(hist[d.name]) = Len(hist[n]) /\ hist[n] \in Seq(SUBSET Atoms)
    BY <1>1 DEF Histories
  <2>3. Len(hist[n]) \in Nat /\ Len(hist[n]) > 0
    BY <2>2
  <2> QED BY <1>2, <2>1, <2>2, <2>3 DEF Skipped
<1>5. CASE Definitions[i].kind # "corresponding"
  <2>1. d.name = n
    BY <1>5 DEF Writer
  <2>2. final[n] = Counted(gs[n]) /\ gs[n] \in GroupStates
    BY <1>1, <1>3, <1>4, <2>1 DEF Made, States
  <2> HIDE DEF n
  <2>3. final[n].group = gs[n].group
    BY <2>2, CountedType
  <2> QED BY <2>3 DEF n
<1>6. CASE Definitions[i].kind = "corresponding"
  <2>1. d.kind = "bond" /\ d.corresponding = n /\ d.corresponding # NoGroup
    BY <1>1, <1>6 DEF IsOther
  <2>2. final[n] = gs[n]
    BY <1>3, <1>4, <2>1 DEF Made
  <2> QED BY <2>2
<1> QED BY <1>5, <1>6

(* The rings after a frame are about the last frames.                      *)
RingsRight(gs, hist) ==
  \A i \in DOMAIN Definitions :
    LET d == Definitions[i]
    IN  d.kind = "memberhistory" /\ ~d.static /\ hist[d.name] # <<>> =>
          gs[d.name].mvIsMember = RingsOf(gs[d.of[1]].group, hist[d.of[2]], d.maxHistory)

(* A MEMBERHISTORY is defined from three groups.                           *)
LEMMA HistoryParts ==
  ASSUME NEW i \in DOMAIN Definitions, Definitions[i].kind = "memberhistory"
  PROVE  LET d == Definitions[i]
         IN  /\ Len(d.of) >= 3 /\ 1 \in DOMAIN d.of /\ 2 \in DOMAIN d.of /\ 3 \in DOMAIN d.of
             /\ d.of[1] \in Names /\ d.of[2] \in Names /\ d.of[3] \in Names
<1>1. /\ Len(Definitions[i].of) >= 3 /\ Definitions[i].of \in Seq(STRING)
      /\ \A k \in DOMAIN Definitions[i].of : Definitions[i].of[k] \in Names
  BY DefinitionFacts DEF GroupsNeeded
<1>2. 1 \in DOMAIN Definitions[i].of /\ 2 \in DOMAIN Definitions[i].of /\ 3 \in DOMAIN Definitions[i].of
  BY <1>1
<1> QED BY <1>1, <1>2

(* A static parent is the same list of atoms from the first frame on, so a *)
(* position stays with its atom.                                           *)
LEMMA ParentKept ==
  ASSUME HistoriesFromStatic, NEW gs \in States, NEW hist \in Histories, CountsRight(gs, hist),
         NEW bonds \in Distances, NEW i \in DOMAIN Definitions,
         Definitions[i].kind = "memberhistory",
         hist[Definitions[i].name] # <<>>, NEW final, final = UpdateGroups(gs, bonds)
  PROVE  final[Definitions[i].of[1]].group = gs[Definitions[i].of[1]].group
<1> DEFINE p == Definitions[i].of[1]
           Named(j) == Definitions[j].name = p
           c == CHOOSE j \in DOMAIN Definitions : Named(j)
<1>1. p \in Names /\ Definitions[i].name \in Names
  BY HistoryParts, DefinitionFacts
<1>2. c \in DOMAIN Definitions /\ Named(c)
  <2>1. \E j \in DOMAIN Definitions : Named(j)
    BY <1>1 DEF Names
  <2> HIDE DEF Named
  <2> QED BY <2>1
<1>3. Definitions[c].static
  BY DEF HistoriesFromStatic, FindGroupWithId
<1> HIDE DEF c
<1>4. hist[p] # <<>>
  <2>1. Len(hist[p]) = Len(hist[Definitions[i].name]) /\ hist[Definitions[i].name] \in Seq(SUBSET Atoms)
    BY <1>1 DEF Histories
  <2> QED BY <2>1
<1> QED BY <1>2, <1>3, <1>4, StaticKept

(* The rings that a frame writes say who was a member in the last frames.  *)
LEMMA NewRingsRight ==
  ASSUME HistoriesFromStatic, NEW gs \in States, NEW hist \in Histories, CountsRight(gs, hist),
         RingsRight(gs, hist), NEW bonds \in Distances,
         NEW i \in DOMAIN Definitions, NEW d, d = Definitions[i], d.kind = "memberhistory",
         ~Skipped(d, gs), NEW final, final = UpdateGroups(gs, bonds),
         NEW h, Made(gs, h, final, d, bonds)
  PROVE  NewRings(h, d) = RingsOf(final[d.of[1]].group, AddFrame(hist, final)[d.of[2]],
                                  d.maxHistory)
<1> DEFINE parent == final[d.of[1]].group
           memberOf == final[d.of[2]].group
           times == hist[d.of[2]]
           rings == gs[d.name].mvIsMember
<1>1. /\ 1 \in DOMAIN d.of /\ 2 \in DOMAIN d.of /\ d.of[1] \in Names /\ d.of[2] \in Names
      /\ d.name \in Names /\ d.maxHistory \in Nat \ {0}
  BY HistoryParts, DefinitionFacts
<1>2. /\ h[d.name] = gs[d.name] /\ h[d.of[1]].group = parent /\ h[d.of[2]].group = memberOf
  BY <1>1 DEF Made
<1>3. parent \in Sound /\ memberOf \in Sound
  <2>1. final \in States
    BY FrameFacts
  <2> QED BY <1>1, <2>1 DEF States, GroupStates
<1>4. /\ times \in Seq(SUBSET Atoms) /\ hist[d.name] \in Seq(SUBSET Atoms)
      /\ Len(hist[d.name]) = Len(times)
  BY <1>1 DEF Histories
<1>5. gs[d.name].mUpdateCount = Len(times)
  BY <1>4 DEF CountsRight, Counts, CountedOnce, CountsAll
<1>6. times # <<>> => ~d.static
  <2>1. times # <<>> => Len(times) > 0
    BY <1>4
  <2> QED BY <1>5, <2>1 DEF Skipped
<1>7. times # <<>> => rings = RingsOf(parent, times, d.maxHistory)
  <2> SUFFICES ASSUME times # <<>>
               PROVE  rings = RingsOf(parent, times, d.maxHistory)
    OBVIOUS
  <2>1. hist[d.name] # <<>>
    BY <1>4
  <2>2. rings = RingsOf(gs[d.of[1]].group, times, d.maxHistory)
    BY <1>6, <2>1 DEF RingsRight
  <2>3. parent = gs[d.of[1]].group
    BY <2>1, ParentKept
  <2> QED BY <2>2, <2>3
<1>8. NewRings(h, d) = Rings(d, Len(times), rings, parent, memberOf)
  BY <1>2, <1>5 DEF NewRings
<1>9. AddFrame(hist, final)[d.of[2]] = Append(times, MembersOf(memberOf))
  BY <1>1 DEF AddFrame
<1> HIDE DEF parent, memberOf, times, rings
<1>10. Rings(d, Len(times), rings, parent, memberOf) =
         RingsOf(parent, Append(times, MembersOf(memberOf)), d.maxHistory)
  BY <1>1, <1>3, <1>4, <1>7, RingsStep
<1> QED BY <1>8, <1>9, <1>10 DEF parent

(* A frame keeps the rings right.                                          *)
LEMMA FrameRings ==
  ASSUME HistoriesFromStatic, NEW gs \in States, NEW hist \in Histories, CountsRight(gs, hist),
         RingsRight(gs, hist), NEW bonds \in Distances, NEW final, final = UpdateGroups(gs, bonds)
  PROVE  RingsRight(final, AddFrame(hist, final))
<1> SUFFICES ASSUME NEW i \in DOMAIN Definitions, NEW d, d = Definitions[i],
                    d.kind = "memberhistory", ~d.static
             PROVE  final[d.name].mvIsMember =
                      RingsOf(final[d.of[1]].group, AddFrame(hist, final)[d.of[2]], d.maxHistory)
  BY DEF RingsRight
<1>1. PICK h : Made(gs, h, final, d, bonds)
  BY FrameFacts
<1>2. ~Skipped(d, gs)
  BY DEF Skipped
<1>3. final[d.name] = Counted(Renewed(h, d, bonds)) /\ h \in States
  BY <1>1, <1>2 DEF Made
<1>4. Renewed(h, d, bonds) \in GroupStates /\ Renewed(h, d, bonds).mvIsMember = NewRings(h, d)
  BY <1>3, RenewedFacts
<1>5. final[d.name].mvIsMember = NewRings(h, d)
  BY <1>3, <1>4, CountedType
<1> QED BY <1>1, <1>2, <1>5, NewRingsRight
-----------------------------------------------------------------------------
(* The refinement.                                                         *)

(* The refinement mapping: all groups as relations.                        *)
RelationsOf(gs) == [n \in Names |-> RelationOf(gs[n].group)]

(* What is made of a group, by its kind, is what its definition promises.  *)
LEMMA UpdateSatisfied ==
  ASSUME NEW h \in States, NEW i \in DOMAIN Definitions, NEW d, d = Definitions[i],
         d.kind # "corresponding", NEW bonds \in Distances, dist' = bonds, NEW rings, NEW groups,
         \A k \in DOMAIN d.of : groups[d.of[k]] = RelationOf(h[d.of[k]].group),
         groups[d.name] = RelationOf(InternalUpdate(d, h, bonds, rings)),
         d.kind = "memberhistory" => Recorded(past', d, h[d.of[1]].group, rings)
  PROVE  Relations!Satisfies(d, groups)
<1> DEFINE of(k) == h[d.of[k]].group
           all == [k \in DOMAIN d.of |-> of(k)]
           u == InternalUpdate(d, h, bonds, rings)
<1>1. /\ d.kind \in Kinds /\ d.of \in Seq(STRING) /\ d.ids \in Seq(Nat)
      /\ Len(d.of) >= GroupsNeeded(d.kind) /\ d.maxHistory \in Nat \ {0}
  BY DefinitionFacts DEF AllKinds
<1>2. \A k \in DOMAIN d.of : of(k) \in Sound
  <2>1. \A k \in DOMAIN d.of : d.of[k] \in Names
    BY DefinitionFacts
  <2> QED BY <2>1 DEF States, GroupStates
<1>3. DOMAIN d.of = 1 .. Len(d.of) /\ Len(d.of) \in Nat
  BY <1>1
<1>4. all \in Seq(Sound) /\ DOMAIN all = DOMAIN d.of /\ \A k \in DOMAIN d.of : all[k] = of(k)
  BY <1>2, <1>3
<1>5. \A k \in DOMAIN d.of : groups[d.of[k]] = RelationOf(of(k))
  OBVIOUS
<1>6. d.kind = "memberhistory" => Recorded(past', d, of(1), rings)
  OBVIOUS
<1>7. groups[d.name] = RelationOf(u)
  BY Zenon
<1> HIDE DEF of, all
<1>8. /\ d.kind = "atomicnumber" => u = AtomicNumber(d)
      /\ d.kind = "list" => u = List(d)
      /\ d.kind = "subgroup" => u = SubGroup(d, of(1))
      /\ d.kind = "bond" => u = Bond(d, bonds, of(1), of(2))
      /\ d.kind = "sum" => u = Sum(all)
      /\ d.kind = "diff" => u = Diff(all)
      /\ d.kind = "intersection" => u = Intersection(all)
      /\ d.kind = "subgroupcn" => u = SubGroupCN(d, of(1))
      /\ d.kind = "invertcoordination" => u = InvertCoordination(of(1))
      /\ d.kind = "includecoordination" => u = IncludeCoordination(of(1))
      /\ d.kind = "addcoordination" => u = AddCoordination(of(1), of(2))
      /\ d.kind = "coordinationtableintersection" => u = TableIntersection(all)
      /\ d.kind = "findshortest" => u = FindShortest(bonds, of(1), of(2))
      /\ d.kind = "memberhistory" => u = MemberHistory(d, rings, of(1), of(3))
  BY DEF InternalUpdate, of, all
<1> HIDE DEF u
<1>9. CASE d.kind = "atomicnumber"
  BY <1>7, <1>8, <1>9, AtomicNumberSatisfied
<1>10. CASE d.kind = "list"
  BY <1>1, <1>7, <1>8, <1>10, ListSatisfied
<1>11. CASE d.kind \notin {"atomicnumber", "list"}
  <2>1. Len(d.of) >= 1
    BY <1>1, <1>3, <1>11 DEF GroupsNeeded
  <2>2. of(1) \in Sound /\ 1 \in DOMAIN d.of /\ groups[d.of[1]] = RelationOf(of(1))
    BY <1>2, <1>3, <1>5, <2>1
  <2>3. DefinedFrom(d, all, groups)
    <3>1. Len(all) = Len(d.of) /\ DOMAIN all = 1 .. Len(all)
      BY <1>3, <1>4
    <3>2. \A k \in 1 .. Len(all) : groups[d.of[k]] = RelationOf(all[k])
      BY <1>3, <1>4, <1>5, <3>1
    <3> QED BY <1>4, <2>1, <3>1, <3>2 DEF DefinedFrom
  <2>4. CASE d.kind = "subgroup"
    BY <1>1, <1>7, <1>8, <2>2, <2>4, SubGroupSatisfied
  <2>5. CASE d.kind \in {"bond", "addcoordination", "findshortest", "memberhistory"}
    <3>1. 2 \in DOMAIN d.of
      BY <1>1, <1>3, <2>5 DEF GroupsNeeded
    <3>2. of(2) \in Sound /\ groups[d.of[2]] = RelationOf(of(2))
      BY <1>2, <1>5, <3>1
    <3>3. CASE d.kind = "bond"
      BY <1>7, <1>8, <2>2, <3>2, <3>3, BondSatisfied
    <3>4. CASE d.kind = "addcoordination"
      BY <1>7, <1>8, <2>2, <3>2, <3>4, AddCoordinationSatisfied
    <3>5. CASE d.kind = "findshortest"
      BY <1>7, <1>8, <2>2, <3>2, <3>5, FindShortestSatisfied
    <3>6. CASE d.kind = "memberhistory"
      <4>1. 3 \in DOMAIN d.of
        BY <1>1, <1>3, <3>6 DEF GroupsNeeded
      <4>2. of(3) \in Sound /\ groups[d.of[3]] = RelationOf(of(3))
        BY <1>2, <1>5, <4>1
      <4>3. Recorded(past', d, of(1), rings)
        BY <1>6, <3>6
      <4>4. groups[d.name] = RelationOf(MemberHistory(d, rings, of(1), of(3)))
        BY <1>7, <1>8, <3>6
      <4> QED BY <1>1, <2>2, <3>6, <4>2, <4>3, <4>4, MemberHistorySatisfied
    <3> QED BY <2>5, <3>3, <3>4, <3>5, <3>6
  <2>6. CASE d.kind = "sum"
    BY <1>7, <1>8, <2>3, <2>6, SumSatisfied
  <2>7. CASE d.kind = "diff"
    BY <1>7, <1>8, <2>3, <2>7, DiffSatisfied
  <2>8. CASE d.kind = "intersection"
    BY <1>7, <1>8, <2>3, <2>8, IntersectionSatisfied
  <2>9. CASE d.kind = "subgroupcn"
    BY <1>7, <1>8, <2>2, <2>9, SubGroupCNSatisfied
  <2>10. CASE d.kind = "invertcoordination"
    BY <1>7, <1>8, <2>2, <2>10, InvertSatisfied
  <2>11. CASE d.kind = "includecoordination"
    BY <1>7, <1>8, <2>2, <2>11, IncludeSatisfied
  <2>12. CASE d.kind = "coordinationtableintersection"
    BY <1>7, <1>8, <2>3, <2>12, TableIntersectionSatisfied
  <2> QED BY <1>1, <1>11, <2>4, <2>5, <2>6, <2>7, <2>8, <2>9, <2>10, <2>11, <2>12 DEF Kinds,
  SetKinds
<1> QED BY <1>9, <1>10, <1>11

(* What a frame makes of group i.                                          *)
LEMMA DefinitionSatisfied ==
  ASSUME HistoriesFromStatic, NEW gs \in States, NEW hist \in Histories, CountsRight(gs, hist),
         RingsRight(gs, hist), NEW bonds \in Distances, dist' = bonds,
         NEW final, final = UpdateGroups(gs, bonds), past' = AddFrame(hist, final),
         NEW i \in DOMAIN Definitions, NEW d, d = Definitions[i],
         ~(d.static /\ hist[d.name] # <<>>)
  PROVE  Relations!Satisfies(d, RelationsOf(final))
<1> DEFINE e == Definitions[Writer(i)]
<1>1. /\ Writer(i) \in DOMAIN Definitions /\ e.kind # "corresponding" /\ e.name \in Names
      /\ d.name \in Names /\ (d.kind = "corresponding" => IsOther(d, e))
  BY WriterFacts, DefinitionFacts
<1>2. PICK h : Made(gs, h, final, e, bonds)
  BY <1>1, FrameFacts
<1>3. h \in States /\ final \in States /\ \A k \in DOMAIN e.of : h[e.of[k]] = final[e.of[k]]
  BY <1>2, FrameFacts DEF Made
<1>4. ~Skipped(e, gs)
  <2>1. e.static = d.static
    BY <1>1 DEF Writer, IsOther
  <2>2. gs[e.name].mUpdateCount = Len(hist[e.name])
    BY <1>1 DEF CountsRight, Counts, CountedOnce, CountsAll
  <2>3. /\ hist[e.name] \in Seq(SUBSET Atoms) /\ hist[d.name] \in Seq(SUBSET Atoms)
        /\ Len(hist[e.name]) = Len(hist[d.name])
    BY <1>1 DEF Histories
  <2>4. Len(hist[d.name]) > 0 => hist[d.name] # <<>>
    BY <2>3
  <2> QED BY <2>1, <2>2, <2>3, <2>4 DEF Skipped
<1>5. final[e.name].group = InternalUpdate(e, h, bonds, NewRings(h, e))
  <2>1. final[e.name] = Counted(Renewed(h, e, bonds))
    BY <1>2, <1>4 DEF Made
  <2>2. /\ Renewed(h, e, bonds) \in GroupStates
        /\ Renewed(h, e, bonds).group = InternalUpdate(e, h, bonds, NewRings(h, e))
    BY <1>1, <1>3, RenewedFacts
  <2> HIDE DEF e
  <2> QED BY <2>1, <2>2, CountedType
<1>6. \A k \in DOMAIN e.of : e.of[k] \in Names
  BY <1>1, DefinitionFacts
<1>7. CASE d.kind # "corresponding"
  <2>1. e = d
    BY <1>7 DEF Writer
  <2>2. \A k \in DOMAIN d.of : RelationsOf(final)[d.of[k]] = RelationOf(h[d.of[k]].group)
    BY <1>3, <1>6, <2>1 DEF RelationsOf
  <2>3. RelationsOf(final)[d.name] = RelationOf(InternalUpdate(d, h, bonds, NewRings(h, d)))
    BY <1>1, <1>5, <2>1 DEF RelationsOf
  <2>4. ASSUME d.kind = "memberhistory"
        PROVE  Recorded(past', d, h[d.of[1]].group, NewRings(h, d))
    <3>1. NewRings(h, d) = RingsOf(final[d.of[1]].group, AddFrame(hist, final)[d.of[2]],
                                   d.maxHistory)
      BY <1>2, <1>4, <2>1, <2>4, NewRingsRight
    <3>2. 1 \in DOMAIN d.of /\ d.of[2] \in Names
      BY <2>4, HistoryParts
    <3>3. AddFrame(hist, final)[d.of[2]] \in Seq(SUBSET Atoms)
      BY <3>2, FrameCounts DEF Histories
    <3>4. h[d.of[1]].group = final[d.of[1]].group
      BY <1>3, <2>1, <3>2
    <3> QED BY <3>1, <3>3, <3>4 DEF Recorded
  <2> HIDE DEF e
  <2> QED BY <1>3, <1>7, <2>2, <2>3, <2>4, UpdateSatisfied
<1>8. CASE d.kind = "corresponding"
  <2>1. /\ e.kind = "bond" /\ e.corresponding = d.name /\ e.corresponding # NoGroup
        /\ d.of = <<e.name>>
    BY <1>1, <1>8 DEF IsOther
  <2> DEFINE from == h[e.of[1]].group
             to == h[e.of[2]].group
  <2>2. final[d.name] = Counted(Other(h, e, bonds))
    BY <1>2, <1>4, <2>1 DEF Made
  <2>3. /\ Other(h, e, bonds) \in GroupStates
        /\ Other(h, e, bonds).group = Corresponding(e, bonds, from, to)
    <3>1. e.corresponding \in Names
      BY <1>1, <2>1
    <3> HIDE DEF e
    <3> QED BY <1>1, <1>3, <2>1, <3>1, OtherFacts DEF e
  <2>4. final[d.name].group = Corresponding(e, bonds, from, to)
    <3> HIDE DEF e, from, to
    <3> QED BY <2>2, <2>3, CountedType
  <2>5. final[e.name].group = Bond(e, bonds, from, to)
    <3> HIDE DEF e
    <3> QED BY <1>5, <2>1 DEF InternalUpdate
  <2>6. from \in Sound /\ to \in Sound
    <3>1. Len(e.of) >= 2 /\ e.of \in Seq(STRING)
      BY <1>1, <2>1, DefinitionFacts DEF GroupsNeeded
    <3>2. 1 \in DOMAIN e.of /\ 2 \in DOMAIN e.of
      BY <3>1
    <3> QED BY <1>3, <1>6, <3>2 DEF States, GroupStates
  <2>7. d.of[1] = e.name
    BY <2>1
  <2>8. /\ RelationsOf(final)[d.of[1]] = RelationOf(Bond(e, bonds, from, to))
        /\ RelationsOf(final)[d.name] = RelationOf(Corresponding(e, bonds, from, to))
    BY <1>1, <2>4, <2>5, <2>7 DEF RelationsOf
  <2> HIDE DEF e, from, to
  <2> QED BY <1>8, <2>6, <2>8, CorrespondingSatisfied
<1> QED BY <1>7, <1>8

(* The invariant of the refinement.                                        *)
RelationsInv == GroupsInv /\ RingsRight(vpGroups, past)

(* The refinement mapping in this state.                                   *)
LEMMA RelationsNow ==
  [n \in Names |-> [members |-> MembersOf(Group(n)),
                    pairs |-> Pairs(Group(n))]] = RelationsOf(vpGroups)
  BY DEF RelationsOf, RelationOf, Group

(* The refinement mapping in the next state.                               *)
LEMMA RelationsNext ==
  [n \in Names |-> [members |-> MembersOf(Group(n)),
                    pairs |-> Pairs(Group(n))]]' = RelationsOf(vpGroups')
  BY DEF RelationsOf, RelationOf, Group

(* The initial states map to initial states.                               *)
LEMMA InitRelations == Init => RingsRight(vpGroups, past) /\ Relations!RInit
<1> SUFFICES ASSUME Init
             PROVE  RingsRight(vpGroups, past) /\ Relations!RInit
  OBVIOUS
<1>1. RingsRight(vpGroups, past)
  <2>1. \A i \in DOMAIN Definitions : past[Definitions[i].name] = <<>>
    BY DEF Init, Names
  <2> QED BY <2>1 DEF RingsRight
<1>2. Names = {d.name : d \in {Definitions[i] : i \in DOMAIN Definitions}}
  BY DEF Names
<1>3. \A n \in Names : RelationOf(Group(n)) = [members |-> {}, pairs |-> {}]
  <2>1. MembersOf(EmptyGroup) = {} /\ Pairs(EmptyGroup) = {}
    BY DEF MembersOf, Pairs, EmptyGroup, ToSet
  <2> QED BY <2>1 DEF Init, Group, RelationOf
<1>4. RelationsOf(vpGroups) = [n \in Names |-> [members |-> {}, pairs |-> {}]]
  BY <1>3 DEF RelationsOf, Group
<1>5. Relations!RInit
  BY <1>2, <1>4, RelationsNow DEF Relations!RInit, Init
<1> QED BY <1>1, <1>5

(* Every step maps to a step that makes all groups as they are defined.    *)
LEMMA StepRelations ==
  ASSUME HistoriesFromStatic, RelationsInv, [Next]_vars
  PROVE  RingsRight(vpGroups, past)' /\ [Relations!RNext]_(Relations!rvars)
<1>1. CASE UNCHANGED vars
  <2>1. vpGroups' = vpGroups /\ past' = past /\ dist' = dist
    BY <1>1 DEF vars
  <2>2. RingsRight(vpGroups, past)'
    BY <2>1 DEF RelationsInv
  <2>3. UNCHANGED Relations!rvars
    BY <2>1, RelationsNow, RelationsNext DEF Relations!rvars
  <2> QED BY <2>2, <2>3
<1>2. CASE Next
  <2>1. PICK bonds \in Distances : Frame(bonds)
    BY <1>2 DEF Next
  <2> DEFINE final == UpdateGroups(vpGroups, bonds)
  <2>2. /\ vpGroups' = final /\ past' = AddFrame(past, final) /\ dist' = bonds
        /\ vpGroups \in States /\ past \in Histories /\ CountsRight(vpGroups, past)
        /\ RingsRight(vpGroups, past)
    BY <2>1 DEF Frame, AddFrame, RelationsInv, GroupsInv
  <2>3. RingsRight(vpGroups, past)'
    <3>1. RingsRight(final, AddFrame(past, final))
      BY <2>2, FrameRings
    <3> QED BY <2>2, <3>1
  <2>4. Relations!RNext
    <3>1. past' = [n \in DOMAIN past |-> Append(past[n], RelationsOf(vpGroups')[n].members)]
      <4>1. DOMAIN past = Names
        BY <2>2 DEF Histories
      <4> QED BY <2>2, <4>1 DEF AddFrame, RelationsOf, RelationOf
    <3>2. ASSUME NEW i \in DOMAIN Definitions
          PROVE  LET d == Definitions[i]
                 IN  IF d.static /\ past[d.name] # <<>>
                     THEN RelationsOf(vpGroups')[d.name] = RelationsOf(vpGroups)[d.name]
                     ELSE Relations!Satisfies(d, RelationsOf(vpGroups'))
      <4> DEFINE d == Definitions[i]
      <4>1. CASE d.static /\ past[d.name] # <<>>
        <5>1. final[d.name].group = vpGroups[d.name].group
          BY <2>2, <4>1, StaticKept
        <5>2. d.name \in Names
          BY DefinitionFacts
        <5> QED BY <2>2, <4>1, <5>1, <5>2 DEF RelationsOf
      <4>2. CASE ~(d.static /\ past[d.name] # <<>>)
        <5> HIDE DEF d
        <5>1. Relations!Satisfies(d, RelationsOf(final))
          BY <2>2, <4>2, DefinitionSatisfied DEF d
        <5> QED BY <2>2, <4>2, <5>1 DEF d
      <4> QED BY <4>1, <4>2
    <3>3. \A d \in {Definitions[i] : i \in DOMAIN Definitions} :
            IF d.static /\ past[d.name] # <<>>
            THEN RelationsOf(vpGroups')[d.name] = RelationsOf(vpGroups)[d.name]
            ELSE Relations!Satisfies(d, RelationsOf(vpGroups'))
      BY <3>2
    <3>4. dist' \in Distances
      BY <2>2
    <3> HIDE DEF final
    <3> QED BY <3>1, <3>3, <3>4, RelationsNow, RelationsNext DEF Relations!RNext
  <2> QED BY <2>3, <2>4
<1> QED BY <1>1, <1>2

(* The groups implement their definitions: after every frame each group is *)
(* the relation that GroupRelations says it is, if the parent of every     *)
(* MEMBERHISTORY is static, whose rings are by position in the parent      *)
(* (groupmemberhistory.cpp:14).                                            *)
THEOREM RelationsRight == ASSUME HistoriesFromStatic PROVE Spec => RelationsSpec
<1>1. Init => RelationsInv /\ Relations!RInit
  BY InitRight, InitRelations DEF RelationsInv
<1>2. RelationsInv /\ [Next]_vars => RelationsInv' /\ [Relations!RNext]_(Relations!rvars)
  BY NextRight, StepRelations DEF RelationsInv
<1> QED BY <1>1, <1>2, PTL DEF Spec, RelationsSpec, Relations!RSpec
=============================================================================
