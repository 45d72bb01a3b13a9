--------------------------- MODULE Reactions_proofs ---------------------------
(***************************************************************************)
(* Proofs about Reactions: for every choice of the options, every set of   *)
(* atoms and every trajectory.                                             *)
(***************************************************************************)
EXTENDS Reactions, SequenceTheorems, FiniteSetTheorems, WellFoundedInduction, TLAPS

-----------------------------------------------------------------------------
(* The inductive invariant: what the variables hold instead of the         *)
(* trajectory.                                                             *)

Now == Len(trajectory)

NowIteration == IF trajectory = <<>> THEN 0 ELSE Iteration(Len(trajectory))

Times == [first : Nat, continuous : Nat, last : Nat]

Typed ==
  /\ settings \in Settings
  /\ trajectory \in Seq(Frames) /\ Now <= MaxFrames
  /\ entered \in [Entries -> Times]
  /\ memberBefore \in [Entries -> BOOLEAN]
  /\ saveCount = Now
  /\ saved \in [Atoms -> [Ring -> [data : 0 .. NowIteration, isProduct : BOOLEAN, isReactant : BOOLEAN]]]
  /\ toDo \subseteq [entry : Entries, time : 1 .. NowIteration + AfterTime]
  /\ pending \subseteq [atom : Atoms, duration : 1 .. Duration, delay : 0 .. Delay]
  /\ group \subseteq Atoms

(* Frame j counts as one in which e was a reactant since frame p, the last *)
(* at which it was a product or forbidden.                                 *)
CountsSince(e, p, j) == IsReactant(e, j) /\ ~(p > 0 /\ \A i \in p .. j : IsReactant(e, i))

(* These frames, at the end of the last frame.                             *)
Stays(e) ==
  LET p == LastEndBefore(e, Now + 1)
  IN {j \in p + 1 .. Now : CountsSince(e, p, j)}

(* The three times of an entry whose stays are S.                          *)
Describes(times, S) ==
  \/ S = {} /\ times.first = 0 /\ times.continuous = 0
  \/ \E lo, c, hi \in S :
       /\ \A j \in S : lo <= j /\ j <= hi
       /\ c .. hi \subseteq S /\ c - 1 \notin S
       /\ times.first = Iteration(lo)
       /\ times.continuous = Iteration(c)
       /\ times.last = Iteration(hi)

TimesInv ==
  \A e \in Entries :
    /\ Describes(entered[e], Stays(e))
    /\ memberBefore[e] <=> Now > 0 /\ IsReactant(e, Now)
    /\ entered[e].last <= NowIteration

ReportedInv == reported = UNION {{ExpectedLine(e, k) : k \in Reactions(e)} : e \in Entries}

(* The atoms fed to the defined group at frame k.                          *)
FedAt(k) == trajectory[k].parents \cup {e.atom : e \in {d \in Entries : k \in Reactions(d)}}

(* What is left of the duration and of the delay after i frames, and the   *)
(* element.                                                                *)
LeftDuration(i) == IF i > Delay THEN Duration - (i - Delay) ELSE Duration
LeftDelay(i)    == IF i > Delay THEN 0 ELSE Delay - i
Aged(a, i)      == [atom |-> a, duration |-> LeftDuration(i), delay |-> LeftDelay(i)]

PendingInv ==
  Duration > 0 =>
    /\ pending = UNION {{Aged(a, Now + 1 - k) : a \in FedAt(k)} :
                          k \in {j \in 1 .. Now : LeftDuration(Now + 1 - j) > 0}}
    /\ GroupFollowsReactions

(* The slot of the ring that frame j was saved in.                         *)
Slot(a, j) ==
  [data       |-> IF a \in trajectory[j].unbonded THEN 0 ELSE Iteration(j),
   isProduct  |-> ProductMustBe /\ a \in Members(trajectory[j].products),
   isReactant |-> ReactantMustBe /\ a \in Members(trajectory[j].reactants)]

RingInv ==
  \A a \in Atoms : \A j \in 1 .. Now :
    j > Now - RingSize => saved[a][(j - 1) % RingSize] = Slot(a, j)

EveryFrame == SuperEvery = 1 /\ AfterTime > 0

(* The to-do list of WhenGroupChanged: the changes whose window is not     *)
(* complete and those it has missed because the ring was not full.         *)
Outstanding(t) ==
  \E T \in Reactions(t.entry) :
    /\ t.time = T + AfterTime
    /\ T + AfterTime > Now \/ T < BeforeTime + 2

WindowInv ==
  EveryFrame =>
    /\ toDo = {t \in [entry : Entries, time : Nat] : Outstanding(t)}
    /\ WindowsAveraged

IInv == Typed /\ TimesInv /\ ReportedInv /\ PendingInv /\ RingInv /\ WindowInv

-----------------------------------------------------------------------------
(* The options.                                                            *)
LEMMA SettingFacts ==
  ASSUME settings \in Settings
  PROVE  /\ MinReactantTime \in Nat /\ MaxReactionTime \in Nat
         /\ BeforeTime \in Nat /\ AfterTime \in Nat /\ RingSize \in Nat \ {0}
         /\ Duration \in Nat /\ Delay \in Nat /\ MaxFrames \in Nat
         /\ SuperEvery \in Nat \ {0} /\ MinProductTime \in Int
         /\ \A e \in Entries : e.atom \in Atoms
<1>1. \A s \in Settings :
        /\ s.MinReactantTime \in Nat /\ s.MaxReactionTime \in Nat
        /\ s.BeforeTime \in Nat /\ s.AfterTime \in Nat
        /\ s.Duration \in Nat /\ s.Delay \in Nat /\ s.MaxFrames \in Nat
        /\ s.SuperEvery \in Nat \ {0} /\ s.MinProductTime \in Int
  BY SettingsAssumption
<1>2. /\ MinReactantTime \in Nat /\ MaxReactionTime \in Nat
      /\ BeforeTime \in Nat /\ AfterTime \in Nat
      /\ Duration \in Nat /\ Delay \in Nat /\ MaxFrames \in Nat
      /\ SuperEvery \in Nat \ {0} /\ MinProductTime \in Int
  BY <1>1 DEF MinReactantTime, MaxReactionTime, BeforeTime, AfterTime, Duration, Delay,
              MaxFrames, SuperEvery, MinProductTime
<1>3. RingSize \in Nat \ {0}
  BY <1>2 DEF RingSize
<1>4. ASSUME NEW e \in Entries PROVE e.atom \in Atoms
  <2>1. (IF CheckCoordinationTable THEN ShellAtoms ELSE ParentAtoms) \subseteq Atoms
    BY GroupsAssumption DEF CheckCoordinationTable, ShellAtoms, ParentAtoms, Atoms
  <2>2. e.atom \in IF CheckCoordinationTable THEN ShellAtoms ELSE ParentAtoms
    BY DEF Entries
  <2> QED BY <2>1, <2>2
<1> QED BY <1>2, <1>3, <1>4

(* The options do not change.                                              *)
LEMMA SettingsKept ==
  ASSUME settings' = settings
  PROVE  /\ MinReactantTime' = MinReactantTime /\ MaxReactionTime' = MaxReactionTime
         /\ Atoms' = Atoms /\ BeforeTime' = BeforeTime /\ AfterTime' = AfterTime
         /\ RingSize' = RingSize /\ Ring' = Ring
         /\ BondProperty' = BondProperty /\ ProductMustBe' = ProductMustBe
         /\ ReactantMustBe' = ReactantMustBe /\ MinProductTime' = MinProductTime
         /\ Duration' = Duration /\ Delay' = Delay /\ FromParentGroup' = FromParentGroup
         /\ SuperEvery' = SuperEvery /\ MaxFrames' = MaxFrames
         /\ Entries' = Entries /\ Frames' = Frames
         /\ \A k : Iteration(k)' = Iteration(k)
BY DEF MinReactantTime, MaxReactionTime, Atoms, BeforeTime, AfterTime, RingSize, Ring, BondProperty,
       ProductMustBe, ReactantMustBe, MinProductTime, Duration, Delay, FromParentGroup, SuperEvery,
       MaxFrames, Entries, Frames, Given, CheckCoordinationTable, ParentAtoms, ShellAtoms, Iteration

(* Iterations count up from 1.                                             *)
LEMMA IterationFacts ==
  ASSUME settings \in Settings
  PROVE  /\ \A k \in Nat \ {0} : Iteration(k) \in Nat \ {0}
         /\ \A j, k \in Nat \ {0} : j < k => Iteration(j) < Iteration(k)
         /\ SuperEvery = 1 => \A k \in Nat \ {0} : Iteration(k) = k
<1> DEFINE s == SuperEvery
<1>1. s \in Nat \ {0}
  BY SettingFacts
<1> HIDE DEF s
<1>2. \A a \in Nat : a * s \in Nat
  BY <1>1
<1>3. ASSUME NEW j \in Nat \ {0}, NEW k \in Nat \ {0}, j < k
      PROVE  (j - 1) * s < (k - 1) * s
  <2>1. k - j - 1 \in Nat /\ j - 1 \in Nat
    BY <1>3
  <2>2. (k - 1) * s = (j - 1) * s + (k - j - 1) * s + s
    BY <1>1
  <2> QED BY <1>1, <1>2, <2>1, <2>2
<1>4. \A k \in Nat \ {0} : (k - 1) * s \in Nat
  BY <1>2
<1>5. \A k : Iteration(k) = 1 + (k - 1) * s
  BY DEF Iteration, s
<1>6. s = 1 => \A k \in Nat \ {0} : Iteration(k) = k
  BY <1>5
<1> QED BY <1>3, <1>4, <1>5, <1>6 DEF s

-----------------------------------------------------------------------------
(* Sets of frames.                                                         *)

(* Every set of natural numbers that is not empty has a least element.     *)
LEMMA LeastElement ==
  ASSUME NEW S \in SUBSET Nat, S # {}
  PROVE  \E n \in S : \A m \in S : n <= m
<1> DEFINE R == OpToRel(<, Nat)
<1>1. IsWellFoundedOn(R, Nat)
  BY NatLessThanWellFounded
<1>2. \E n \in S : \A m \in S : ~(<<m, n>> \in R)
  <2> HIDE DEF R
  <2> QED BY <1>1, WFMin
<1>3. \A n, m \in Nat : <<m, n>> \in R <=> m < n
  BY DEF OpToRel
<1> HIDE DEF R
<1>4. \A n, m \in S : ~(<<m, n>> \in R) => n <= m
  BY <1>3
<1> QED BY <1>2, <1>4

(* Max and Min are what one expects of them.                               *)
LEMMA MaxIs ==
  ASSUME NEW S \in SUBSET Int, NEW m \in S, \A x \in S : x <= m
  PROVE  Max(S) = m
<1>1. Max(S) \in S /\ \A x \in S : Max(S) >= x
  BY DEF Max
<1>2. Max(S) >= m /\ Max(S) <= m /\ Max(S) \in Int /\ m \in Int
  BY <1>1
<1>3. \A a, b \in Int : a >= b /\ a <= b => a = b
  OBVIOUS
<1> QED BY <1>2, <1>3

LEMMA MinIs ==
  ASSUME NEW S \in SUBSET Int, NEW m \in S, \A x \in S : m <= x
  PROVE  Min(S) = m
<1>1. Min(S) \in S /\ \A x \in S : Min(S) <= x
  BY DEF Min
<1>2. Min(S) >= m /\ Min(S) <= m /\ Min(S) \in Int /\ m \in Int
  BY <1>1
<1>3. \A a, b \in Int : a >= b /\ a <= b => a = b
  OBVIOUS
<1> QED BY <1>2, <1>3

LEMMA MaxOfBounded ==
  ASSUME NEW n \in Nat, NEW S \in SUBSET (0 .. n), S # {}
  PROVE  Max(S) \in S /\ \A x \in S : x <= Max(S)
<1> DEFINE D == {n - x : x \in S}
<1>1. D \in SUBSET Nat /\ D # {}
  <2>1. \A x \in S : n - x \in Nat
    OBVIOUS
  <2>2. PICK x \in S : TRUE
    OBVIOUS
  <2>3. n - x \in D
    OBVIOUS
  <2> QED BY <2>1, <2>3
<1>2. PICK d \in D : \A y \in D : d <= y
  BY <1>1, LeastElement
<1>3. PICK m \in S : d = n - m
  BY <1>2
<1>4. \A x \in S : x <= m
  BY <1>2, <1>3
<1>5. Max(S) = m
  BY <1>4, MaxIs
<1> QED BY <1>4, <1>5

-----------------------------------------------------------------------------
(* The times of an entry.                                                  *)

(* The times of an entry that is a reactant at frame n + 1.                *)
LEMMA DescribesNext ==
  ASSUME settings \in Settings, NEW n \in Nat, NEW S \in SUBSET (1 .. n), NEW times \in Times,
         Describes(times, S), NEW before \in BOOLEAN,
         before /\ S # {} => n \in S, ~before => n \notin S
  PROVE  LET it == Iteration(n + 1)
         IN Describes(IF before THEN [times EXCEPT !.last = it]
                      ELSE [first |-> IF times.first = 0 THEN it ELSE times.first,
                            continuous |-> it, last |-> it],
                      IF before /\ S = {} THEN {} ELSE S \cup {n + 1})
<1> DEFINE it == Iteration(n + 1)
           kept == [times EXCEPT !.last = it]
           new == [first |-> IF times.first = 0 THEN it ELSE times.first,
                   continuous |-> it, last |-> it]
           more == S \cup {n + 1}
<1>1. /\ kept.first = times.first /\ kept.continuous = times.continuous /\ kept.last = it
      /\ new.first = IF times.first = 0 THEN it ELSE times.first
      /\ new.continuous = it /\ new.last = it
  BY DEF Times
<1> HIDE DEF kept, new
<1>2. CASE before /\ S = {}
  <2>1. Describes(kept, {})
    BY <1>1, <1>2 DEF Describes
  <2> QED BY <1>2, <2>1 DEF kept
<1>3. CASE before /\ S # {}
  <2>1. PICK lo, c, hi \in S :
          /\ \A j \in S : lo <= j /\ j <= hi
          /\ c .. hi \subseteq S /\ c - 1 \notin S
          /\ times.first = Iteration(lo)
          /\ times.continuous = Iteration(c)
          /\ times.last = Iteration(hi)
    BY <1>3 DEF Describes
  <2>2. lo \in 1 .. n /\ c \in 1 .. n /\ hi = n
    BY <1>3, <2>1
  <2>3. \A j \in more : lo <= j /\ j <= n + 1
    BY <2>1, <2>2
  <2>4. c .. n + 1 \subseteq more /\ c - 1 \notin more
    BY <2>1, <2>2
  <2>5. lo \in more /\ c \in more /\ n + 1 \in more
    BY <2>1
  <2>6. Describes(kept, more)
    <3> HIDE DEF more, it
    <3>1. /\ \A j \in more : lo <= j /\ j <= n + 1
          /\ c .. n + 1 \subseteq more /\ c - 1 \notin more
          /\ kept.first = Iteration(lo) /\ kept.continuous = Iteration(c)
          /\ kept.last = Iteration(n + 1)
      BY <1>1, <2>1, <2>3, <2>4 DEF it
    <3> QED BY <2>5, <3>1 DEF Describes
  <2> QED BY <1>3, <2>6 DEF kept
<1>4. CASE ~before
  <2>1. \A j \in more : j <= n + 1 /\ j \in Nat
    OBVIOUS
  <2>2. (n + 1) .. (n + 1) \subseteq more /\ n + 1 - 1 \notin more /\ n + 1 \in more
    BY <1>4
  <2>3. \E lo \in more : (\A j \in more : lo <= j) /\ new.first = Iteration(lo)
    <3>1. CASE S = {}
      <4>1. times.first = 0
        BY <3>1 DEF Describes
      <4> QED BY <1>1, <3>1, <4>1
    <3>2. CASE S # {}
      <4>1. PICK lo \in S : (\A j \in S : lo <= j) /\ times.first = Iteration(lo)
        BY <3>2 DEF Describes
      <4>2. Iteration(lo) # 0
        BY IterationFacts
      <4>3. \A j \in more : lo <= j
        BY <4>1
      <4> QED BY <1>1, <4>1, <4>2, <4>3
    <3> QED BY <3>1, <3>2
  <2>4. Describes(new, more)
    <3>1. new.continuous = Iteration(n + 1) /\ new.last = Iteration(n + 1)
      BY <1>1
    <3> HIDE DEF more, it
    <3>2. PICK lo \in more : (\A j \in more : lo <= j) /\ new.first = Iteration(lo)
      BY <2>3
    <3> QED BY <2>1, <2>2, <3>1, <3>2 DEF Describes
  <2> QED BY <1>4, <2>4 DEF new
<1> QED BY <1>2, <1>3, <1>4

(* What the times say of the stays.                                        *)
LEMMA DescribedTimes ==
  ASSUME settings \in Settings, NEW S \in SUBSET (Nat \ {0}), NEW times \in Times, Describes(times, S)
  PROVE  /\ times.first > 0 <=> S # {}
         /\ S # {} =>
              /\ times.first = Iteration(Min(S)) /\ times.last = Iteration(Max(S))
              /\ times.continuous = Iteration(Min({j \in S : j .. Max(S) \subseteq S}))
              /\ times.first <= times.continuous /\ times.continuous <= times.last
              /\ times.last > 0 /\ Max(S) \in S
<1>1. CASE S = {}
  BY <1>1 DEF Describes
<1>2. CASE S # {}
  <2>1. PICK lo, c, hi \in S :
          /\ \A j \in S : lo <= j /\ j <= hi
          /\ c .. hi \subseteq S /\ c - 1 \notin S
          /\ times.first = Iteration(lo)
          /\ times.continuous = Iteration(c)
          /\ times.last = Iteration(hi)
    BY <1>2 DEF Describes
  <2>2. Max(S) = hi /\ Min(S) = lo
    BY <2>1, MaxIs, MinIs
  <2>3. Min({j \in S : j .. hi \subseteq S}) = c
    <3> DEFINE C == {j \in S : j .. hi \subseteq S}
    <3>1. C \in SUBSET Int /\ c \in C
      <4>1. c \in C
        BY <2>1
      <4>2. C \subseteq S /\ S \subseteq Int
        OBVIOUS
      <4> QED BY <4>1, <4>2
    <3>2. ASSUME NEW j \in C PROVE c <= j
      <4>1. SUFFICES ASSUME j < c PROVE FALSE
        OBVIOUS
      <4>j. j \in S /\ j .. hi \subseteq S
        OBVIOUS
      <4> HIDE DEF C
      <4>2. j \in Int /\ c \in Int /\ hi \in Int /\ c <= hi
        <5>1. \A i \in S : i \in Int /\ i <= hi
          BY <2>1
        <5> QED BY <4>j, <5>1
      <4>3. c - 1 \in j .. hi
        BY <4>1, <4>2
      <4> QED BY <2>1, <4>j, <4>3
    <3> HIDE DEF C
    <3>3. Min(C) = c
      BY <3>1, <3>2, MinIs
    <3> QED BY <3>3 DEF C
  <2>4. /\ Iteration(lo) > 0 /\ Iteration(hi) > 0
        /\ Iteration(lo) <= Iteration(c) /\ Iteration(c) <= Iteration(hi)
    <3>1. \A j \in Nat \ {0} : Iteration(j) \in Nat \ {0}
      BY IterationFacts
    <3>2. lo = c \/ lo < c
      BY <2>1
    <3>3. c = hi \/ c < hi
      BY <2>1
    <3> QED BY <3>1, <3>2, <3>3, IterationFacts
  <2> QED BY <1>2, <2>1, <2>2, <2>3, <2>4
<1> QED BY <1>1, <1>2

-----------------------------------------------------------------------------
(* A frame more.                                                           *)

LEMMA StepFacts ==
  ASSUME Typed, NEW f \in Frames, Frame(f), NEW n, n = Now
  PROVE  /\ n \in Nat /\ settings' = settings /\ settings \in Settings
         /\ Now' = n + 1 /\ trajectory' \in Seq(Frames)
         /\ trajectory'[n + 1] = f
         /\ \A k \in 1 .. n : trajectory'[k] = trajectory[k] /\ trajectory[k] \in Frames
         /\ NowIteration' = Iteration(n + 1) /\ Iteration(n + 1) \in Nat \ {0}
         /\ NowIteration \in Nat /\ NowIteration < Iteration(n + 1)
         /\ \A k \in 1 .. n : Iteration(k) <= NowIteration
<1>1. trajectory \in Seq(Frames) /\ settings \in Settings /\ settings' = settings
      /\ trajectory' = Append(trajectory, f)
  BY DEF Typed, Frame
<1>2. n \in Nat /\ n = Len(trajectory)
  BY <1>1, LenProperties DEF Now
<1>3. /\ Len(trajectory') = n + 1 /\ trajectory' \in Seq(Frames)
      /\ trajectory'[n + 1] = f
      /\ \A k \in 1 .. n : trajectory'[k] = trajectory[k]
  BY <1>1, <1>2, AppendProperties
<1>4. \A k \in 1 .. n : trajectory[k] \in Frames
  BY <1>1, <1>2, ElementOfSeq
<1>5. trajectory = <<>> <=> n = 0
  BY <1>1, <1>2, EmptySeq
<1>6. /\ Iteration(n + 1) \in Nat \ {0}
      /\ \A k \in 1 .. n : Iteration(k) \in Nat /\ Iteration(k) < Iteration(n + 1)
                           /\ Iteration(k) <= Iteration(n)
  <2>1. ASSUME NEW k \in 1 .. n PROVE k \in Nat \ {0} /\ n \in Nat \ {0} /\ k < n + 1 /\ (k = n \/ k < n)
    BY <1>2
  <2>2. n + 1 \in Nat \ {0}
    BY <1>2
  <2>3. \A k \in Nat \ {0} : Iteration(k) \in Nat \ {0}
    BY <1>1, IterationFacts
  <2>4. \A j, k \in Nat \ {0} : j < k => Iteration(j) < Iteration(k)
    BY <1>1, IterationFacts
  <2>5. ASSUME NEW k \in 1 .. n
        PROVE  Iteration(k) \in Nat /\ Iteration(k) < Iteration(n + 1) /\ Iteration(k) <= Iteration(n)
    BY <2>1, <2>2, <2>3, <2>4
  <2> QED BY <2>2, <2>3, <2>5
<1>7. NowIteration = IF n = 0 THEN 0 ELSE Iteration(n)
  BY <1>2, <1>5 DEF NowIteration
<1>8. NowIteration \in Nat /\ NowIteration < Iteration(n + 1) /\ \A k \in 1 .. n : Iteration(k) <= NowIteration
  <2>1. CASE n = 0
    BY <1>6, <1>7, <2>1
  <2>2. CASE n # 0
    <3>1. n \in 1 .. n
      BY <1>2, <2>2
    <3> QED BY <1>6, <1>7, <2>2, <3>1
  <2> QED BY <2>1, <2>2
<1>9. NowIteration' = Iteration(n + 1)
  <2>1. trajectory' # <<>>
    BY <1>2, <1>3, EmptySeq
  <2>2. (Iteration(n + 1))' = Iteration(n + 1)
    BY <1>1, SettingsKept
  <2> QED BY <1>3, <2>1, <2>2 DEF NowIteration
<1>10. Now' = n + 1
  BY <1>3 DEF Now
<1> QED BY <1>1, <1>2, <1>3, <1>4, <1>6, <1>8, <1>9, <1>10

(* The past is what it was.                                                *)
LEMMA PastKept ==
  ASSUME Typed, NEW f \in Frames, Frame(f), NEW n, n = Now, NEW e \in Entries
  PROVE  /\ \A k \in 1 .. n : /\ IsReactant(e, k)' <=> IsReactant(e, k)
                              /\ IsProduct(e, k)' <=> IsProduct(e, k)
                              /\ IsForbidden(e, k)' <=> IsForbidden(e, k)
         /\ IsReactant(e, n + 1)' <=> e \in f.reactants
         /\ IsProduct(e, n + 1)' <=> e \in f.products
         /\ IsForbidden(e, n + 1)' <=> e \in f.cannotBe
         /\ \A k \in 1 .. n + 1 : LastEndBefore(e, k)' = LastEndBefore(e, k)
         /\ \A k \in 1 .. n : StaysBefore(e, k)' = StaysBefore(e, k)
<1>1. /\ n \in Nat /\ trajectory'[n + 1] = f
      /\ \A k \in 1 .. n : trajectory'[k] = trajectory[k]
  BY StepFacts
<1>2. /\ \A k \in 1 .. n : /\ IsReactant(e, k)' <=> IsReactant(e, k)
                           /\ IsProduct(e, k)' <=> IsProduct(e, k)
                           /\ IsForbidden(e, k)' <=> IsForbidden(e, k)
      /\ IsReactant(e, n + 1)' <=> e \in f.reactants
      /\ IsProduct(e, n + 1)' <=> e \in f.products
      /\ IsForbidden(e, n + 1)' <=> e \in f.cannotBe
  BY <1>1 DEF IsReactant, IsProduct, IsForbidden
<1>3. ASSUME NEW k \in 1 .. n + 1
      PROVE  LastEndBefore(e, k)' = LastEndBefore(e, k)
  <2>1. \A j \in 1 .. k - 1 : j \in 1 .. n
    BY <1>1
  <2>2. {j \in 1 .. k - 1 : IsProduct(e, j)' \/ IsForbidden(e, j)'}
          = {j \in 1 .. k - 1 : IsProduct(e, j) \/ IsForbidden(e, j)}
    BY <1>2, <2>1
  <2> QED BY <2>2 DEF LastEndBefore
<1>4. ASSUME NEW k \in 1 .. n
      PROVE  StaysBefore(e, k)' = StaysBefore(e, k)
  <2> DEFINE p == LastEndBefore(e, k)
  <2>1. p \in 0 .. k - 1
    <3> DEFINE E == {0} \cup {j \in 1 .. k - 1 : IsProduct(e, j) \/ IsForbidden(e, j)}
    <3>1. k - 1 \in Nat /\ E \in SUBSET (0 .. k - 1) /\ E # {}
      BY <1>1
    <3>2. p = Max(E)
      BY DEF LastEndBefore
    <3> HIDE DEF E, p
    <3> QED BY <3>1, <3>2, MaxOfBounded
  <2>2. k \in 1 .. n + 1
    BY <1>1
  <2>3. (LastEndBefore(e, k))' = p
    BY <1>3, <2>2
  <2> HIDE DEF p
  <2>4. ASSUME NEW j \in p + 1 .. k
        PROVE  /\ IsReactant(e, j)' <=> IsReactant(e, j)
               /\ p > 0 => ((\A i \in p .. j : IsReactant(e, i)') <=> \A i \in p .. j : IsReactant(e, i))
    <3>1. j \in 1 .. n /\ (p > 0 => \A i \in p .. j : i \in 1 .. n)
      BY <1>1, <2>1
    <3> QED BY <1>2, <3>1
  <2>5. {j \in p + 1 .. k : IsReactant(e, j)' /\ ~(p > 0 /\ \A i \in p .. j : IsReactant(e, i)')}
          = {j \in p + 1 .. k : IsReactant(e, j) /\ ~(p > 0 /\ \A i \in p .. j : IsReactant(e, i))}
    BY <2>4
  <2> QED BY <2>3, <2>5 DEF StaysBefore, p
<1> QED BY <1>2, <1>3, <1>4

(* So are the reactions and their lines.                                   *)
LEMMA ReactionsKept ==
  ASSUME Typed, NEW f \in Frames, Frame(f), NEW n, n = Now, NEW e \in Entries
  PROVE  /\ Reactions(e) \subseteq 1 .. n /\ Reactions(e)' \subseteq 1 .. n + 1
         /\ Reactions(e)' \cap (1 .. n) = Reactions(e)
         /\ \A k \in 1 .. n : ExpectedLine(e, k)' = ExpectedLine(e, k)
<1>1. /\ n \in Nat /\ Len(trajectory) = n /\ Len(trajectory') = n + 1 /\ settings' = settings
  BY StepFacts DEF Now
<1>2. /\ MinReactantTime' = MinReactantTime /\ MaxReactionTime' = MaxReactionTime
      /\ \A k : Iteration(k)' = Iteration(k)
  BY <1>1, SettingsKept
<1>3. Reactions(e) \subseteq 1 .. n /\ Reactions(e)' \subseteq 1 .. n + 1
  BY <1>1 DEF Reactions
<1>4. ASSUME NEW k \in 1 .. n
      PROVE  k \in Reactions(e)' <=> k \in Reactions(e)
  <2>1. k \in 1 .. n + 1
    BY <1>1
  <2>2. /\ StaysBefore(e, k)' = StaysBefore(e, k)
        /\ IsProduct(e, k)' <=> IsProduct(e, k)
        /\ IsForbidden(e, k)' <=> IsForbidden(e, k)
    BY PastKept
  <2> QED BY <1>1, <1>2, <2>1, <2>2 DEF Reactions
<1>5. ASSUME NEW k \in 1 .. n
      PROVE  ExpectedLine(e, k)' = ExpectedLine(e, k)
  <2>1. StaysBefore(e, k)' = StaysBefore(e, k)
    BY PastKept
  <2> QED BY <1>2, <2>1 DEF ExpectedLine, LastStayBegins
<1> QED BY <1>3, <1>4, <1>5

(* The last frame before k at which e was a product or forbidden.          *)
LEMMA LastEndFacts ==
  ASSUME NEW e, NEW k \in Nat \ {0}
  PROVE  /\ LastEndBefore(e, k) \in 0 .. k - 1
         /\ \A j \in 1 .. k - 1 : IsProduct(e, j) \/ IsForbidden(e, j) => j <= LastEndBefore(e, k)
<1> DEFINE E == {0} \cup {j \in 1 .. k - 1 : IsProduct(e, j) \/ IsForbidden(e, j)}
<1>1. k - 1 \in Nat /\ E \in SUBSET (0 .. k - 1) /\ E # {}
  OBVIOUS
<1>2. LastEndBefore(e, k) = Max(E)
  BY DEF LastEndBefore
<1>3. \A j \in 1 .. k - 1 : IsProduct(e, j) \/ IsForbidden(e, j) => j \in E
  OBVIOUS
<1> HIDE DEF E
<1>4. Max(E) \in E /\ \A x \in E : x <= Max(E)
  BY <1>1, MaxOfBounded
<1> QED BY <1>1, <1>2, <1>3, <1>4

(* The stays of an entry at the end of frame n, and whether it was in the  *)
(* middle of one.                                                          *)
LEMMA StaysFacts ==
  ASSUME Typed, TimesInv, NEW e \in Entries, NEW n \in Nat, n = Now
  PROVE  /\ Stays(e) \in SUBSET (1 .. n)
         /\ memberBefore[e] /\ Stays(e) # {} => n \in Stays(e)
         /\ ~memberBefore[e] => n \notin Stays(e)
<1> DEFINE p == LastEndBefore(e, n + 1)
<1>1. p \in 0 .. n
  BY LastEndFacts
<1>2. Stays(e) = {j \in p + 1 .. n : IsReactant(e, j) /\ ~(p > 0 /\ \A i \in p .. j : IsReactant(e, i))}
  BY DEF Stays, CountsSince
<1>3. memberBefore[e] <=> n > 0 /\ IsReactant(e, n)
  BY DEF TimesInv
<1> HIDE DEF p
<1>4. Stays(e) \in SUBSET (1 .. n)
  BY <1>1, <1>2
<1>5. ASSUME memberBefore[e], Stays(e) # {}
      PROVE  n \in Stays(e)
  <2>1. PICK j \in p + 1 .. n : ~(p > 0 /\ \A i \in p .. j : IsReactant(e, i))
    BY <1>2, <1>5
  <2>2. n \in p + 1 .. n /\ \A i \in p .. j : i \in p .. n
    BY <1>1, <2>1
  <2>3. ~(p > 0 /\ \A i \in p .. n : IsReactant(e, i))
    BY <2>1, <2>2
  <2> QED BY <1>2, <1>3, <1>5, <2>2, <2>3
<1>6. ASSUME ~memberBefore[e], n \in Stays(e)
      PROVE  FALSE
  <2>1. IsReactant(e, n) /\ n \in p + 1 .. n
    BY <1>2, <1>6
  <2> QED BY <1>1, <1>3, <1>6, <2>1
<1> QED BY <1>4, <1>5, <1>6

(* The stays in the middle of frame n + 1, before it is looked for among   *)
(* the products.                                                           *)
LEMMA StaysOfFrame ==
  ASSUME Typed, TimesInv, NEW f \in Frames, Frame(f), NEW n \in Nat, n = Now, NEW e \in Entries
  PROVE  StaysBefore(e, n + 1)' =
           IF e \notin f.reactants THEN Stays(e)
           ELSE IF memberBefore[e] /\ Stays(e) = {} THEN {} ELSE Stays(e) \cup {n + 1}
<1> DEFINE p == LastEndBefore(e, n + 1)
           S == Stays(e)
           R(j) == IsReactant(e, j)'
           new == StaysBefore(e, n + 1)'
<1>1. p \in 0 .. n
  BY LastEndFacts
<1>2. S = {j \in p + 1 .. n : IsReactant(e, j) /\ ~(p > 0 /\ \A i \in p .. j : IsReactant(e, i))}
  BY DEF Stays, CountsSince
<1>3. /\ \A k \in 1 .. n : R(k) <=> IsReactant(e, k)
      /\ R(n + 1) <=> e \in f.reactants
      /\ LastEndBefore(e, n + 1)' = p
  <2>1. n + 1 \in 1 .. n + 1
    OBVIOUS
  <2> QED BY <2>1, PastKept
<1>4. new = {j \in p + 1 .. n + 1 : R(j) /\ ~(p > 0 /\ \A i \in p .. j : R(i))}
  BY <1>3 DEF StaysBefore
<1>5. memberBefore[e] <=> n > 0 /\ IsReactant(e, n)
  BY DEF TimesInv
<1> HIDE DEF p, S, R, new
<1>6. \A j \in p + 1 .. n : j \in new <=> j \in S
  <2> SUFFICES ASSUME NEW j \in p + 1 .. n PROVE j \in new <=> j \in S
    OBVIOUS
  <2>1. j \in 1 .. n /\ j \in p + 1 .. n + 1 /\ (p > 0 => \A i \in p .. j : i \in 1 .. n)
    BY <1>1
  <2> QED BY <1>2, <1>3, <1>4, <2>1
<1>7. n + 1 \in new <=> R(n + 1) /\ ~(p > 0 /\ \A i \in p .. n + 1 : R(i))
  <2>1. n + 1 \in p + 1 .. n + 1
    BY <1>1
  <2> QED BY <1>4, <2>1
<1>8. new \subseteq (p + 1 .. n) \cup {n + 1} /\ S \subseteq p + 1 .. n
  <2>1. new \subseteq p + 1 .. n + 1 /\ S \subseteq p + 1 .. n
    BY <1>2, <1>4
  <2>2. p + 1 .. n + 1 \subseteq (p + 1 .. n) \cup {n + 1}
    BY <1>1
  <2> QED BY <2>1, <2>2
<1>9. n + 1 \notin p + 1 .. n
  BY <1>1
<1>10. CASE e \notin f.reactants
  BY <1>3, <1>6, <1>7, <1>8, <1>9, <1>10 DEF S, new
<1>11. CASE e \in f.reactants /\ ~memberBefore[e]
  <2>1. n + 1 \in new
    <3>1. SUFFICES ASSUME p > 0, \A i \in p .. n + 1 : R(i) PROVE FALSE
      BY <1>3, <1>7, <1>11
    <3>2. n \in p .. n + 1 /\ n \in 1 .. n /\ n > 0
      BY <1>1, <3>1
    <3> QED BY <1>3, <1>5, <1>11, <3>1, <3>2
  <2> QED BY <1>6, <1>8, <1>11, <2>1 DEF S, new
<1>12. CASE e \in f.reactants /\ memberBefore[e] /\ S = {}
  <2>1. n \notin S /\ n \in 1 .. n /\ R(n) /\ IsReactant(e, n)
    BY <1>3, <1>5, <1>12
  <2>2. p > 0 /\ \A i \in p .. n : R(i)
    <3>1. CASE p = n
      BY <2>1, <3>1
    <3>2. CASE p # n
      <4>1. n \in p + 1 .. n
        BY <1>1, <3>2
      <4>2. p > 0 /\ \A i \in p .. n : IsReactant(e, i)
        BY <1>2, <2>1, <4>1
      <4> QED BY <1>1, <1>3, <4>2
    <3> QED BY <3>1, <3>2
  <2>3. \A i \in p .. n + 1 : i \in p .. n \/ i = n + 1
    BY <1>1
  <2>4. n + 1 \notin new
    BY <1>3, <1>7, <1>12, <2>2, <2>3
  <2> QED BY <1>6, <1>8, <1>12, <2>4 DEF S, new
<1>13. CASE e \in f.reactants /\ memberBefore[e] /\ S # {}
  <2>1. PICK j \in p + 1 .. n : ~(p > 0 /\ \A i \in p .. j : IsReactant(e, i))
    BY <1>2, <1>13
  <2>2. n + 1 \in new
    <3>1. SUFFICES ASSUME p > 0, \A i \in p .. n + 1 : R(i) PROVE FALSE
      BY <1>3, <1>7, <1>13
    <3>2. \A i \in p .. j : i \in p .. n + 1 /\ i \in 1 .. n
      BY <1>1, <2>1, <3>1
    <3> QED BY <1>3, <2>1, <3>1, <3>2
  <2> QED BY <1>6, <1>8, <1>13, <2>2 DEF S, new
<1> QED BY <1>10, <1>11, <1>12, <1>13 DEF S, new

(* The times of an entry after it was looked for among the reactants and   *)
(* CannotBe describe the stays up to this frame.                           *)
LEMMA AllowedFacts ==
  ASSUME Typed, TimesInv, NEW f \in Frames, Frame(f), NEW n \in Nat, n = Now, NEW e \in Entries
  PROVE  LET times == Allowed(e, Iteration(n + 1), f.reactants, f.cannotBe)
             stays == StaysBefore(e, n + 1)'
         IN /\ times \in Times /\ times.last <= Iteration(n + 1)
            /\ stays \in SUBSET (1 .. n + 1)
            /\ e \in f.cannotBe => times = NeverEntered
            /\ e \notin f.cannotBe => Describes(times, stays)
<1> DEFINE it == Iteration(n + 1)
           S == Stays(e)
           t == Entered(e, it, f.reactants)
           stays == StaysBefore(e, n + 1)'
<1>1. settings \in Settings /\ it \in Nat \ {0} /\ NowIteration \in Nat /\ NowIteration < it
  BY StepFacts
<1>2. /\ entered[e] \in Times /\ Describes(entered[e], S) /\ entered[e].last <= NowIteration
      /\ memberBefore[e] \in BOOLEAN
  BY DEF Typed, TimesInv
<1>3. /\ S \in SUBSET (1 .. n)
      /\ memberBefore[e] /\ S # {} => n \in S
      /\ ~memberBefore[e] => n \notin S
  BY StaysFacts
<1>4. stays = IF e \notin f.reactants THEN S
              ELSE IF memberBefore[e] /\ S = {} THEN {} ELSE S \cup {n + 1}
  BY StaysOfFrame
<1>5. CheckCoordinationTable \/ f.cannotBe = {}
  BY DEF Frames, Given
<1>6. t \in Times /\ t.last <= it
  <2>1. \A a, b \in Nat : a < b => a <= b
    OBVIOUS
  <2>2. entered[e].last \in Nat /\ entered[e].last <= it
    BY <1>1, <1>2 DEF Times
  <2> QED BY <1>1, <1>2, <2>2 DEF Times, Entered
<1>7. stays \in SUBSET (1 .. n + 1)
  <2>1. 1 .. n \subseteq 1 .. n + 1 /\ n + 1 \in 1 .. n + 1
    OBVIOUS
  <2> HIDE DEF S, stays
  <2> QED BY <1>3, <1>4, <2>1
<1> HIDE DEF S, stays
<1>8. Describes(t, stays)
  <2>1. CASE e \notin f.reactants
    BY <1>2, <1>4, <2>1 DEF Entered
  <2>2. CASE e \in f.reactants
    <3> DEFINE u == IF memberBefore[e] THEN [entered[e] EXCEPT !.last = it]
                    ELSE [first |-> IF entered[e].first = 0 THEN it ELSE entered[e].first,
                          continuous |-> it, last |-> it]
    <3>1. t = u
      BY <2>2 DEF Entered
    <3>2. Describes(u, IF memberBefore[e] /\ S = {} THEN {} ELSE S \cup {n + 1})
      BY <1>1, <1>2, <1>3, DescribesNext
    <3> HIDE DEF t, u
    <3> QED BY <1>4, <2>2, <3>1, <3>2
  <2> QED BY <2>1, <2>2
<1>9. NeverEntered \in Times /\ NeverEntered.last <= it
  BY <1>1 DEF NeverEntered, Times
<1>10. Allowed(e, it, f.reactants, f.cannotBe) = IF e \in f.cannotBe THEN NeverEntered ELSE t
  BY <1>5 DEF Allowed
<1> HIDE DEF t, it
<1> QED BY <1>6, <1>7, <1>8, <1>9, <1>10 DEF it, stays

(* What ChangeGroupTime finds in a frame are the reactions of that frame.  *)
LEMMA ChangedFacts ==
  ASSUME Typed, TimesInv, NEW f \in Frames, Frame(f), NEW n \in Nat, n = Now, NEW e \in Entries
  PROVE  LET it == Iteration(n + 1)
         IN /\ Reacted(e, it, f) <=>
                 e \in f.products /\ e \notin f.cannotBe /\ StaysBefore(e, n + 1)' # {}
            /\ e \in Changed(it, f) <=> n + 1 \in Reactions(e)'
            /\ e \in Changed(it, f) => Line(e, it, f) = ExpectedLine(e, n + 1)'
<1> DEFINE it == Iteration(n + 1)
           t == Allowed(e, it, f.reactants, f.cannotBe)
           stays == StaysBefore(e, n + 1)'
<1>1. /\ settings \in Settings /\ it \in Nat \ {0} /\ Len(trajectory') = n + 1 /\ settings' = settings
  BY StepFacts DEF Now
<1>2. /\ t \in Times /\ t.last <= it /\ stays \in SUBSET (1 .. n + 1)
      /\ e \in f.cannotBe => t = NeverEntered
      /\ e \notin f.cannotBe => Describes(t, stays)
  BY AllowedFacts
<1>3. /\ MinReactantTime' = MinReactantTime /\ MaxReactionTime' = MaxReactionTime
      /\ \A k : Iteration(k)' = Iteration(k)
  BY <1>1, SettingsKept
<1>4. /\ IsProduct(e, n + 1)' <=> e \in f.products
      /\ IsForbidden(e, n + 1)' <=> e \in f.cannotBe
  BY PastKept
<1>5. Reacted(e, it, f) <=> e \in f.products /\ t.first > 0 /\ t.last > 0
  BY DEF Reacted
<1>6. e \in Changed(it, f) <=>
        Reacted(e, it, f) /\ t.last - t.first >= MinReactantTime /\ it - t.last <= MaxReactionTime
  BY DEF Changed, SatisfyPrintConstraints
<1>7. Line(e, it, f) = [entry |-> e, product |-> it, times |-> t]
  BY DEF Line
<1>8. n + 1 \in Reactions(e)' <=>
        /\ e \in f.products /\ e \notin f.cannotBe /\ stays # {}
        /\ Iteration(Max(stays)) - Iteration(Min(stays)) >= MinReactantTime
        /\ Iteration(n + 1) - Iteration(Max(stays)) <= MaxReactionTime
  <2>1. n + 1 \in 1 .. n + 1
    OBVIOUS
  <2> QED BY <1>1, <1>3, <1>4, <2>1 DEF Reactions
<1>9. ExpectedLine(e, n + 1)' =
        [entry |-> e, product |-> Iteration(n + 1),
         times |-> [first |-> Iteration(Min(stays)),
                    continuous |-> Iteration(Min({j \in stays : j .. Max(stays) \subseteq stays})),
                    last |-> Iteration(Max(stays))]]
  BY <1>3 DEF ExpectedLine, LastStayBegins
<1> HIDE DEF t, stays, it
<1>10. CASE e \in f.cannotBe
  <2>1. ~(t.first > 0)
    BY <1>2, <1>10 DEF NeverEntered
  <2> QED BY <1>5, <1>6, <1>8, <1>10, <2>1 DEF it, stays
<1>11. CASE e \notin f.cannotBe
  <2>1. stays \in SUBSET (Nat \ {0})
    BY <1>2
  <2>2. /\ t.first > 0 <=> stays # {}
        /\ stays # {} =>
              /\ t.first = Iteration(Min(stays)) /\ t.last = Iteration(Max(stays))
              /\ t.continuous = Iteration(Min({j \in stays : j .. Max(stays) \subseteq stays}))
              /\ t.last > 0
    BY <1>1, <1>2, <1>11, <2>1, DescribedTimes
  <2>3. Reacted(e, it, f) <=> e \in f.products /\ stays # {}
    BY <1>5, <2>2
  <2>4. e \in Changed(it, f) <=> n + 1 \in Reactions(e)'
    BY <1>6, <1>8, <1>11, <2>2, <2>3 DEF it
  <2>5. ASSUME e \in Changed(it, f)
        PROVE  Line(e, it, f) = ExpectedLine(e, n + 1)'
    <3>1. stays # {}
      BY <1>6, <2>3, <2>5
    <3>2. t = [first |-> t.first, continuous |-> t.continuous, last |-> t.last]
      BY <1>2 DEF Times
    <3> QED BY <1>7, <1>9, <2>2, <3>1, <3>2 DEF it
  <2> QED BY <1>11, <2>3, <2>4, <2>5 DEF it, stays
<1> QED BY <1>10, <1>11

(* The times at the end of the frame.                                      *)
LEMMA TimesStep ==
  ASSUME Typed, TimesInv, NEW f \in Frames, Frame(f)
  PROVE  TimesInv' /\ entered' \in [Entries -> Times] /\ memberBefore' \in [Entries -> BOOLEAN]
<1> DEFINE n == Now
           it == Iteration(n + 1)
<1>1. /\ n \in Nat /\ settings \in Settings /\ it \in Nat \ {0} /\ Now' = n + 1 /\ settings' = settings
      /\ NowIteration' = it
  BY StepFacts
<1>2. /\ entered' = [e \in Entries |-> IF Reacted(e, it, f) THEN NeverEntered
                                       ELSE Allowed(e, it, f.reactants, f.cannotBe)]
      /\ memberBefore' = [e \in Entries |-> e \in f.reactants]
  BY DEF Frame, ChangeGroupTimeAction, Now
<1>3. Entries' = Entries /\ \A k : Iteration(k)' = Iteration(k)
  BY <1>1, SettingsKept
<1>4. NeverEntered \in Times /\ NeverEntered.last <= it /\ NeverEntered.first = 0 /\ NeverEntered.continuous = 0
  BY <1>1 DEF NeverEntered, Times
<1>5. ASSUME NEW m \in Nat, m = n, NEW e \in Entries
      PROVE  /\ Describes(entered[e], Stays(e))'
             /\ entered'[e] \in Times /\ entered'[e].last <= it
             /\ memberBefore'[e] <=> IsReactant(e, m + 1)'
  <2> DEFINE t == Allowed(e, it, f.reactants, f.cannotBe)
             stays == StaysBefore(e, m + 1)'
             new == Stays(e)'
             p == LastEndBefore(e, m + 1)
             q == LastEndBefore(e, m + 2)'
             E == {0} \cup {j \in 1 .. m : IsProduct(e, j)' \/ IsForbidden(e, j)'}
             R(j) == IsReactant(e, j)'
  <2>1. /\ t \in Times /\ t.last <= it /\ stays \in SUBSET (1 .. m + 1)
        /\ e \in f.cannotBe => t = NeverEntered
        /\ e \notin f.cannotBe => Describes(t, stays)
    BY <1>5, AllowedFacts
  <2>2. Reacted(e, it, f) <=> e \in f.products /\ e \notin f.cannotBe /\ stays # {}
    BY <1>5, ChangedFacts
  <2>3. entered'[e] = IF Reacted(e, it, f) THEN NeverEntered ELSE t
    BY <1>2
  <2>4. entered'[e] \in Times /\ entered'[e].last <= it
    BY <1>4, <2>1, <2>3
  <2>5. memberBefore'[e] <=> IsReactant(e, m + 1)'
    BY <1>2, <1>5, PastKept
  <2>6. LastEndBefore(e, m + 1)' = p /\ p = (Max(E)) /\ E \in SUBSET (0 .. m) /\ E # {}
    <3>1. m + 1 \in 1 .. m + 1 /\ m + 1 - 1 = m
      OBVIOUS
    <3>2. LastEndBefore(e, m + 1)' = p
      BY <1>5, <3>1, PastKept
    <3>3. LastEndBefore(e, m + 1)' = Max(E)
      BY <3>1 DEF LastEndBefore
    <3> QED BY <3>2, <3>3
  <2>7. /\ IsProduct(e, m + 1)' <=> e \in f.products
        /\ IsForbidden(e, m + 1)' <=> e \in f.cannotBe
    BY <1>5, PastKept
  <2>8. q = Max(IF e \in f.products \/ e \in f.cannotBe THEN E \cup {m + 1} ELSE E)
    <3>1. 1 .. m + 2 - 1 = (1 .. m) \cup {m + 1}
      OBVIOUS
    <3>2. q = Max({0} \cup {j \in 1 .. m + 2 - 1 : IsProduct(e, j)' \/ IsForbidden(e, j)'})
      BY DEF LastEndBefore
    <3>3. {0} \cup {j \in 1 .. m + 2 - 1 : IsProduct(e, j)' \/ IsForbidden(e, j)'}
            = IF e \in f.products \/ e \in f.cannotBe THEN E \cup {m + 1} ELSE E
      BY <2>7, <3>1
    <3> HIDE DEF E
    <3> QED BY <3>2, <3>3
  <2>9. new = {j \in q + 1 .. m + 1 : R(j) /\ ~(q > 0 /\ \A i \in q .. j : R(i))}
    <3>1. Now' = m + 1 /\ m + 1 + 1 = m + 2
      BY <1>1, <1>5
    <3> QED BY <3>1 DEF Stays, CountsSince
  <2>10. stays = {j \in p + 1 .. m + 1 : R(j) /\ ~(p > 0 /\ \A i \in p .. j : R(i))}
    BY <2>6 DEF StaysBefore
  <2> HIDE DEF E, p, q, R
  <2>11. CASE e \in f.products \/ e \in f.cannotBe
    <3>1. q = m + 1
      <4>1. m + 1 \in E \cup {m + 1} /\ E \cup {m + 1} \in SUBSET Int /\ \A x \in E \cup {m + 1} : x <= m + 1
        BY <2>6
      <4> QED BY <2>8, <2>11, <4>1, MaxIs
    <3>2. new = {}
      <4>1. q + 1 .. m + 1 = {}
        BY <3>1
      <4> QED BY <2>9, <4>1
    <3>3. entered'[e].first = 0 /\ entered'[e].continuous = 0
      <4>1. CASE Reacted(e, it, f) \/ e \in f.cannotBe
        BY <1>4, <2>1, <2>3, <4>1
      <4>2. CASE ~Reacted(e, it, f) /\ e \notin f.cannotBe
        <5>1. Describes(t, {})
          BY <2>1, <2>2, <2>11, <4>2
        <5>2. t.first = 0 /\ t.continuous = 0
          BY <5>1 DEF Describes
        <5> QED BY <2>3, <4>2, <5>2
      <4> QED BY <4>1, <4>2
    <3>4. Describes(entered[e], Stays(e))'
      BY <3>2, <3>3 DEF Describes
    <3> QED BY <2>4, <2>5, <3>4
  <2>12. CASE ~(e \in f.products \/ e \in f.cannotBe)
    <3>1. q = p
      BY <2>6, <2>8, <2>12
    <3>2. new = stays
      BY <2>9, <2>10, <3>1
    <3>3. entered'[e] = t
      BY <2>2, <2>3, <2>12
    <3> HIDE DEF t, stays, new
    <3>4. Describes(entered'[e], new)
      BY <2>1, <2>12, <3>2, <3>3
    <3>5. Describes(entered[e], Stays(e))'
      BY <1>3, <3>4 DEF Describes, new
    <3> QED BY <2>4, <2>5, <3>5 DEF t
  <2> QED BY <2>11, <2>12
<1>6. PICK m \in Nat : m = n
  BY <1>1
<1>7. \A e \in Entries : memberBefore'[e] <=> Now' > 0 /\ IsReactant(e, Now)'
  <2>1. Now' = m + 1 /\ m + 1 > 0
    BY <1>1, <1>6
  <2>2. \A e \in Entries : memberBefore'[e] <=> IsReactant(e, m + 1)'
    BY <1>5, <1>6
  <2> QED BY <2>1, <2>2 DEF IsReactant
<1>8. \A e \in Entries : entered'[e] \in Times
  BY <1>5, <1>6
<1>9. \A e \in Entries : Describes(entered[e], Stays(e))' /\ entered'[e].last <= it
  BY <1>5, <1>6
<1> HIDE DEF it, n
<1>10. TimesInv'
  BY <1>1, <1>3, <1>7, <1>9 DEF TimesInv
<1> QED BY <1>2, <1>8, <1>10

(* The lines printed.                                                      *)
LEMMA ReportedStep ==
  ASSUME Typed, TimesInv, ReportedInv, NEW f \in Frames, Frame(f)
  PROVE  ReportedInv'
<1>1. PICK n \in Nat : n = Now
  BY StepFacts
<1> DEFINE it == Iteration(n + 1)
           lines == {Line(e, it, f) : e \in Changed(it, f)}
<1>2. reported' = reported \cup lines /\ Entries' = Entries
  BY <1>1, StepFacts, SettingsKept DEF Frame, ChangeGroupTimeAction, Now
<1>3. reported = UNION {{ExpectedLine(e, k) : k \in Reactions(e)} : e \in Entries}
  BY DEF ReportedInv
<1>4. ASSUME NEW e \in Entries
      PROVE  {ExpectedLine(e, k)' : k \in Reactions(e)'} =
               {ExpectedLine(e, k) : k \in Reactions(e)}
                 \cup IF e \in Changed(it, f) THEN {Line(e, it, f)} ELSE {}
  <2>1. /\ Reactions(e) \subseteq 1 .. n /\ Reactions(e)' \subseteq 1 .. n + 1
        /\ Reactions(e)' \cap (1 .. n) = Reactions(e)
        /\ \A k \in 1 .. n : ExpectedLine(e, k)' = ExpectedLine(e, k)
    BY <1>1, ReactionsKept
  <2>2. /\ e \in Changed(it, f) <=> n + 1 \in Reactions(e)'
        /\ e \in Changed(it, f) => Line(e, it, f) = ExpectedLine(e, n + 1)'
    BY <1>1, ChangedFacts
  <2>3. 1 .. n + 1 = (1 .. n) \cup {n + 1}
    OBVIOUS
  <2>4. Reactions(e)' = Reactions(e) \cup IF e \in Changed(it, f) THEN {n + 1} ELSE {}
    BY <2>1, <2>2, <2>3
  <2> DEFINE X == Reactions(e)
             Y == Reactions(e)'
             old(k) == ExpectedLine(e, k)
             new(k) == ExpectedLine(e, k)'
  <2>5. \A k \in X : old(k) = new(k)
    BY <2>1
  <2>6. e \in Changed(it, f) => Line(e, it, f) = new(n + 1)
    BY <2>2
  <2>7. Y = X \cup IF e \in Changed(it, f) THEN {n + 1} ELSE {}
    BY <2>4
  <2> HIDE DEF X, Y, old, new, it
  <2>8. {new(k) : k \in Y} = {old(k) : k \in X} \cup IF e \in Changed(it, f) THEN {Line(e, it, f)} ELSE {}
    BY <2>5, <2>6, <2>7
  <2> QED BY <2>8 DEF X, Y, old, new
<1>5. Changed(it, f) \subseteq Entries
  BY DEF Changed
<1> DEFINE old(e) == {ExpectedLine(e, k) : k \in Reactions(e)}
           new(e) == {ExpectedLine(e, k)' : k \in Reactions(e)'}
<1>6. \A e \in Entries : new(e) = old(e) \cup IF e \in Changed(it, f) THEN {Line(e, it, f)} ELSE {}
  BY <1>4
<1>7. reported = UNION {old(e) : e \in Entries}
  BY <1>3
<1> HIDE DEF old, new, it
<1>8. reported' = UNION {new(e) : e \in Entries}
  <2>1. \A x : x \in lines <=> \E e \in Entries : e \in Changed(it, f) /\ x = Line(e, it, f)
    BY <1>5
  <2>2. \A x : x \in reported <=> \E e \in Entries : x \in old(e)
    BY <1>7
  <2>3. \A x : x \in UNION {new(e) : e \in Entries} <=>
                 \E e \in Entries : x \in old(e) \/ (e \in Changed(it, f) /\ x = Line(e, it, f))
    BY <1>6
  <2>4. \A x : x \in reported' <=> x \in reported \/ x \in lines
    BY <1>2
  <2> HIDE DEF lines
  <2>5. \A x : x \in reported' <=> x \in UNION {new(e) : e \in Entries}
    BY <2>1, <2>2, <2>3, <2>4
  <2> QED BY <2>5
<1> QED BY <1>2, <1>8 DEF ReportedInv, new

-----------------------------------------------------------------------------
(* The defined group.                                                      *)

(* An element that was fed in i frames ago, worked off once more.          *)
LEMMA AgedFacts ==
  ASSUME settings \in Settings, Duration > 0, NEW i \in Nat
  PROVE  /\ LeftDuration(i) \in Int /\ LeftDelay(i) \in Nat
         /\ LeftDuration(i + 1) > 0 => LeftDuration(i) > 0
         /\ LeftDuration(i) <= Duration /\ LeftDelay(i) <= Delay
         /\ LeftDuration(i) > 0 /\ LeftDelay(i) <= 0 <=> Delay <= i /\ i < Delay + Duration
         /\ \A a : LeftDuration(i) > 0 =>
              /\ ProcessSingleToDo(Aged(a, i)) = Aged(a, i + 1)
              /\ Adds(Aged(a, i)) <=> LeftDelay(i) <= 0
         /\ \A a : /\ Aged(a, i).atom = a /\ Aged(a, i).duration = LeftDuration(i)
                   /\ Aged(a, i).delay = LeftDelay(i)
         /\ \A a : Aged(a, 0) = [atom |-> a, duration |-> Duration, delay |-> Delay]
         /\ LeftDuration(0) = Duration
<1>1. Duration \in Nat \ {0} /\ Delay \in Nat
  BY SettingFacts
<1> DEFINE u == Duration
           d == Delay
<1>2. \A j : /\ LeftDuration(j) = IF j > d THEN u - (j - d) ELSE u
             /\ LeftDelay(j) = IF j > d THEN 0 ELSE d - j
  BY DEF LeftDuration, LeftDelay
<1>3. \A a, j : /\ Aged(a, j) = [atom |-> a, duration |-> LeftDuration(j), delay |-> LeftDelay(j)]
                /\ Aged(a, j).atom = a /\ Aged(a, j).duration = LeftDuration(j)
                /\ Aged(a, j).delay = LeftDelay(j)
  BY DEF Aged
<1> HIDE DEF u, d
<1>4. u \in Nat \ {0} /\ d \in Nat /\ i + 1 \in Nat
  BY <1>1 DEF u, d
<1>5. /\ LeftDuration(i) \in Int /\ LeftDelay(i) \in Nat
      /\ LeftDuration(i + 1) > 0 => LeftDuration(i) > 0
      /\ LeftDuration(i) <= u /\ LeftDelay(i) <= d
      /\ LeftDuration(i) > 0 /\ LeftDelay(i) <= 0 <=> d <= i /\ i < d + u
      /\ LeftDuration(0) = u /\ LeftDelay(0) = d
  BY <1>2, <1>4
<1>6. /\ LeftDelay(i) > 0 => LeftDelay(i + 1) = LeftDelay(i) - 1 /\ LeftDuration(i + 1) = LeftDuration(i)
      /\ ~(LeftDelay(i) > 0) => LeftDelay(i + 1) = LeftDelay(i) /\ LeftDuration(i + 1) = LeftDuration(i) - 1
  BY <1>2, <1>4
<1>7. ASSUME NEW a, LeftDuration(i) > 0
      PROVE  /\ ProcessSingleToDo(Aged(a, i)) = Aged(a, i + 1)
             /\ Adds(Aged(a, i)) <=> LeftDelay(i) <= 0
  <2> DEFINE x == LeftDuration(i)
             y == LeftDelay(i)
  <2>1. x \in Nat /\ y \in Nat /\ x >= 0
    BY <1>5, <1>7
  <2>2. Aged(a, i) = [atom |-> a, duration |-> x, delay |-> y]
    BY <1>3
  <2>3. Aged(a, i + 1) = IF y > 0 THEN [atom |-> a, duration |-> x, delay |-> y - 1]
                         ELSE [atom |-> a, duration |-> x - 1, delay |-> y]
    BY <1>3, <1>6
  <2> HIDE DEF x, y
  <2>4. Adds(Aged(a, i)) <=> y <= 0
    BY <2>1, <2>2 DEF Adds
  <2>5. ProcessSingleToDo(Aged(a, i)) = Aged(a, i + 1)
    BY <2>1, <2>2, <2>3 DEF ProcessSingleToDo
  <2> QED BY <2>4, <2>5 DEF y
<1> QED BY <1>3, <1>5, <1>7 DEF u, d

(* The atoms fed in, of the past and of this frame.                        *)
LEMMA FedKept ==
  ASSUME Typed, TimesInv, NEW f \in Frames, Frame(f), NEW n \in Nat, n = Now
  PROVE  /\ \A k \in 1 .. n : FedAt(k)' = FedAt(k)
         /\ FedAt(n + 1)' = f.parents \cup {e.atom : e \in Changed(Iteration(n + 1), f)}
<1>1. /\ \A k \in 1 .. n : trajectory'[k] = trajectory[k]
      /\ trajectory'[n + 1] = f /\ Entries' = Entries
  BY StepFacts, SettingsKept
<1>2. ASSUME NEW k \in 1 .. n
      PROVE  FedAt(k)' = FedAt(k)
  <2>1. \A e \in Entries : k \in Reactions(e)' <=> k \in Reactions(e)
    BY ReactionsKept
  <2>2. {d \in Entries : k \in Reactions(d)'} = {d \in Entries : k \in Reactions(d)}
    BY <2>1
  <2> QED BY <1>1, <2>2 DEF FedAt
<1>3. FedAt(n + 1)' = f.parents \cup {e.atom : e \in Changed(Iteration(n + 1), f)}
  <2>1. \A e \in Entries : e \in Changed(Iteration(n + 1), f) <=> n + 1 \in Reactions(e)'
    BY ChangedFacts
  <2>2. Changed(Iteration(n + 1), f) \subseteq Entries
    BY DEF Changed
  <2>3. {d \in Entries : n + 1 \in Reactions(d)'} = Changed(Iteration(n + 1), f)
    BY <2>1, <2>2
  <2> QED BY <1>1, <2>3 DEF FedAt
<1> QED BY <1>2, <1>3

LEMMA PendingStep ==
  ASSUME Typed, TimesInv, PendingInv, NEW f \in Frames, Frame(f)
  PROVE  PendingInv'
<1>1. PICK n \in Nat : n = Now
  BY StepFacts
<1>2. settings' = settings /\ settings \in Settings /\ Now' = n + 1 /\ Len(trajectory') = n + 1
  BY <1>1, StepFacts DEF Now
<1>3. Duration' = Duration /\ Delay' = Delay /\ Entries' = Entries
  BY <1>2, SettingsKept
<1> SUFFICES ASSUME Duration > 0
             PROVE  /\ pending' = UNION {{Aged(a, Now + 1 - k)' : a \in FedAt(k)'} :
                                    k \in {j \in 1 .. Now' : LeftDuration(Now + 1 - j)' > 0}}
                    /\ GroupFollowsReactions'
  BY <1>3 DEF PendingInv
<1> DEFINE changed == {e.atom : e \in Changed(Iteration(n + 1), f)}
           work == pending \cup Fed(IF FromParentGroup THEN f.parents ELSE {}) \cup Fed(changed)
           Fd(k) == FedAt(k)'
<1>4. /\ group' = {e.atom : e \in {w \in work : Adds(w)}}
      /\ pending' = {x \in {ProcessSingleToDo(e) : e \in work} : x.duration > 0}
  BY <1>1 DEF Frame, DefineGroupAction, Now
<1>5. /\ \A k \in 1 .. n : Fd(k) = FedAt(k)
      /\ Fd(n + 1) = f.parents \cup changed
  BY <1>1, FedKept
<1>6. Fed(IF FromParentGroup THEN f.parents ELSE {}) \cup Fed(changed) = {Aged(a, 0) : a \in Fd(n + 1)}
  <2>1. FromParentGroup \/ f.parents = {}
    BY DEF Frames, Given
  <2>2. \A A : Fed(A) = {Aged(a, 0) : a \in A}
    <3>1. 0 \in Nat /\ \A a : Aged(a, 0) = [atom |-> a, duration |-> Duration, delay |-> Delay]
      BY <1>2, AgedFacts
    <3> QED BY <3>1 DEF Fed
  <2> HIDE DEF changed, Fd
  <2>3. Fed(IF FromParentGroup THEN f.parents ELSE {}) = {Aged(a, 0) : a \in f.parents}
    BY <2>1, <2>2
  <2> QED BY <1>5, <2>2, <2>3
<1>7. pending = UNION {{Aged(a, n + 1 - k) : a \in FedAt(k)} :
                         k \in {j \in 1 .. n : LeftDuration(n + 1 - j) > 0}}
  BY <1>1 DEF PendingInv
<1> HIDE DEF changed, work, Fd
<1>8. \A w : w \in work <=> \E k \in 1 .. n + 1 : \E a \in Fd(k) :
                              LeftDuration(n + 1 - k) > 0 /\ w = Aged(a, n + 1 - k)
  <2>1. \A w : w \in work <=> w \in pending \/ \E a \in Fd(n + 1) : w = Aged(a, 0)
    BY <1>6 DEF work
  <2>2. \A w : w \in pending <=> \E k \in 1 .. n : \E a \in Fd(k) :
                                   LeftDuration(n + 1 - k) > 0 /\ w = Aged(a, n + 1 - k)
    <3>1. \A w : w \in pending <=> \E k \in 1 .. n : LeftDuration(n + 1 - k) > 0
                                      /\ \E a \in FedAt(k) : w = Aged(a, n + 1 - k)
      BY <1>7
    <3> QED BY <1>5, <3>1
  <2>3. LeftDuration(n + 1 - (n + 1)) > 0 /\ n + 1 - (n + 1) = 0
    <3>1. n + 1 - (n + 1) = 0
      OBVIOUS
    <3>2. LeftDuration(0) = Duration
      BY <1>2, AgedFacts
    <3> QED BY <3>1, <3>2
  <2>4. 1 .. n + 1 = (1 .. n) \cup {n + 1}
    OBVIOUS
  <2> QED BY <2>1, <2>2, <2>3, <2>4
<1>9. \A x : x \in pending' <=> \E k \in 1 .. n + 1 : \E a \in Fd(k) :
                                  LeftDuration(n + 2 - k) > 0 /\ x = Aged(a, n + 2 - k)
  <2>1. ASSUME NEW k \in 1 .. n + 1
        PROVE  /\ n + 1 - k \in Nat /\ n + 2 - k = (n + 1 - k) + 1
               /\ LeftDuration(n + 2 - k) > 0 => LeftDuration(n + 1 - k) > 0
               /\ \A a : LeftDuration(n + 1 - k) > 0 => ProcessSingleToDo(Aged(a, n + 1 - k)) = Aged(a, n + 2 - k)
               /\ \A a : Aged(a, n + 2 - k).duration = LeftDuration(n + 2 - k)
    <3>1. n + 1 - k \in Nat /\ n + 2 - k \in Nat /\ n + 2 - k = (n + 1 - k) + 1
      OBVIOUS
    <3>2. \A i \in Nat : /\ LeftDuration(i + 1) > 0 => LeftDuration(i) > 0
                         /\ \A a : LeftDuration(i) > 0 => ProcessSingleToDo(Aged(a, i)) = Aged(a, i + 1)
                         /\ \A a : Aged(a, i).duration = LeftDuration(i)
      BY <1>2, AgedFacts
    <3> QED BY <3>1, <3>2
  <2>2. \A x : x \in pending' <=> \E w \in work : x = ProcessSingleToDo(w) /\ x.duration > 0
    BY <1>4
  <2>3. ASSUME NEW x, x \in pending'
        PROVE  \E k \in 1 .. n + 1 : \E a \in Fd(k) : LeftDuration(n + 2 - k) > 0 /\ x = Aged(a, n + 2 - k)
    <3>1. PICK w \in work : x = ProcessSingleToDo(w) /\ x.duration > 0
      BY <2>2, <2>3
    <3>2. PICK k \in 1 .. n + 1 : \E a \in Fd(k) : LeftDuration(n + 1 - k) > 0 /\ w = Aged(a, n + 1 - k)
      BY <1>8
    <3>3. PICK a \in Fd(k) : LeftDuration(n + 1 - k) > 0 /\ w = Aged(a, n + 1 - k)
      BY <3>2
    <3> QED BY <2>1, <3>1, <3>3
  <2>4. ASSUME NEW k \in 1 .. n + 1, NEW a \in Fd(k), LeftDuration(n + 2 - k) > 0
        PROVE  Aged(a, n + 2 - k) \in pending'
    <3>1. Aged(a, n + 1 - k) \in work
      BY <1>8, <2>1, <2>4
    <3> QED BY <2>1, <2>2, <2>4, <3>1
  <2> QED BY <2>3, <2>4
<1>10. pending' = UNION {{Aged(a, Now + 1 - k)' : a \in FedAt(k)'} :
                            k \in {j \in 1 .. Now' : LeftDuration(Now + 1 - j)' > 0}}
  <2>1. \A k \in 1 .. n + 1 : /\ LeftDuration(Now + 1 - k)' = LeftDuration(n + 2 - k)
                              /\ \A a : Aged(a, Now + 1 - k)' = Aged(a, n + 2 - k)
    <3>1. \A k \in 1 .. n + 1 : (n + 1) + 1 - k = n + 2 - k
      OBVIOUS
    <3> QED BY <1>2, <1>3, <3>1 DEF LeftDuration, LeftDelay, Aged
  <2> DEFINE new(a, k) == Aged(a, Now + 1 - k)'
             left(k) == LeftDuration(Now + 1 - k)'
             m == Now'
  <2>2. \A k \in 1 .. n + 1 : left(k) = LeftDuration(n + 2 - k) /\ \A a : new(a, k) = Aged(a, n + 2 - k)
    BY <2>1
  <2>3. m = n + 1
    BY <1>2
  <2> HIDE DEF new, left, m
  <2>4. pending' = UNION {{new(a, k) : a \in Fd(k)} : k \in {j \in 1 .. m : left(j) > 0}}
    <3>1. \A x : x \in UNION {{new(a, k) : a \in Fd(k)} : k \in {j \in 1 .. m : left(j) > 0}} <=>
                   \E k \in 1 .. m : left(k) > 0 /\ \E a \in Fd(k) : x = new(a, k)
      OBVIOUS
    <3>2. \A x : x \in UNION {{new(a, k) : a \in Fd(k)} : k \in {j \in 1 .. m : left(j) > 0}} <=> x \in pending'
      BY <1>9, <2>2, <2>3, <3>1
    <3> QED BY <3>2
  <2> QED BY <2>4 DEF new, left, m, Fd
<1>11. GroupFollowsReactions'
  <2>1. \A a : a \in group' <=> \E k \in 1 .. n + 1 : a \in Fd(k) /\ k + Delay <= n + 1 /\ n + 1 < k + Delay + Duration
    <3>1. ASSUME NEW k \in 1 .. n + 1
          PROVE  /\ LeftDuration(n + 1 - k) > 0 /\ LeftDelay(n + 1 - k) <= 0 <=>
                      k + Delay <= n + 1 /\ n + 1 < k + Delay + Duration
                 /\ \A a : Aged(a, n + 1 - k).atom = a
                 /\ \A a : LeftDuration(n + 1 - k) > 0 => (Adds(Aged(a, n + 1 - k)) <=> LeftDelay(n + 1 - k) <= 0)
      <4> DEFINE i == n + 1 - k
      <4>1. i \in Nat
        OBVIOUS
      <4>2. Delay \in Nat /\ Duration \in Nat
        BY <1>2, SettingFacts
      <4>3. (Delay <= i /\ i < Delay + Duration) <=> (k + Delay <= n + 1 /\ n + 1 < k + Delay + Duration)
        BY <4>2
      <4> HIDE DEF i
      <4>4. /\ LeftDuration(i) > 0 /\ LeftDelay(i) <= 0 <=> Delay <= i /\ i < Delay + Duration
            /\ \A a : Aged(a, i).atom = a
            /\ \A a : LeftDuration(i) > 0 => (Adds(Aged(a, i)) <=> LeftDelay(i) <= 0)
        BY <1>2, <4>1, AgedFacts
      <4> QED BY <4>3, <4>4 DEF i
    <3>2. \A a : a \in group' <=> \E w \in work : Adds(w) /\ a = w.atom
      BY <1>4
    <3>3. \A a : a \in group' <=> \E k \in 1 .. n + 1 : \E b \in Fd(k) :
                    /\ LeftDuration(n + 1 - k) > 0
                    /\ Adds(Aged(b, n + 1 - k)) /\ a = Aged(b, n + 1 - k).atom
      BY <1>8, <3>2
    <3> QED BY <3>1, <3>3
  <2>2. group' = UNION {Fd(k) : k \in {j \in 1 .. n + 1 : j + Delay <= n + 1 /\ n + 1 < j + Delay + Duration}}
    BY <2>1
  <2>3. \A k : Fd(k) = trajectory'[k].parents \cup {e.atom : e \in {d \in Entries : k \in Reactions(d)'}}
    BY <1>3 DEF Fd, FedAt
  <2>4. group' = UNION {trajectory'[k].parents \cup {e.atom : e \in {d \in Entries : k \in Reactions(d)'}} :
                          k \in {j \in 1 .. n + 1 : j + Delay <= n + 1 /\ n + 1 < j + Delay + Duration}}
    BY <2>2, <2>3
  <2> QED BY <1>2, <1>3, <2>4 DEF GroupFollowsReactions
<1> QED BY <1>10, <1>11

-----------------------------------------------------------------------------
(* The ring of WhenGroupChanged.                                           *)

LEMMA ModUnique ==
  ASSUME NEW n \in Nat, NEW f \in Nat \ {0}, NEW q \in Int, NEW r \in 0 .. f - 1, n = f * q + r
  PROVE  n % f = r
<1> DEFINE p == n \div f
           s == n % f
<1>1. p \in Nat /\ s \in 0 .. f - 1 /\ n = f * p + s
  BY Z3
<1> HIDE DEF p, s
<1>2. \A a, b \in Int : a < b => f * b >= f * a + f
  <2> SUFFICES ASSUME NEW a \in Int, NEW b \in Int, a < b PROVE f * b >= f * a + f
    OBVIOUS
  <2>1. PICK d \in Nat : b = a + 1 + d
    <3>1. b - a - 1 \in Nat /\ b = a + 1 + (b - a - 1)
      OBVIOUS
    <3> QED BY <3>1
  <2>2. f * b = f * a + f + f * d /\ f * d >= 0
    BY <2>1
  <2>3. f * b \in Int /\ f * a \in Int /\ f * d \in Int
    BY <2>1
  <2> QED BY <2>2, <2>3
<1>3. f * p \in Int /\ f * q \in Int
  BY <1>1
<1>4. ~(p < q)
  <2>1. p < q => f * q >= f * p + f
    BY <1>1, <1>2
  <2> QED BY <1>1, <1>3, <2>1
<1>5. ~(q < p)
  <2>1. q < p => f * p >= f * q + f
    BY <1>1, <1>2
  <2> QED BY <1>1, <1>3, <2>1
<1>6. p = q
  BY <1>1, <1>4, <1>5
<1>7. s = r
  BY <1>1, <1>3, <1>6
<1> QED BY <1>7 DEF s

LEMMA ModExists ==
  ASSUME NEW n \in Nat, NEW f \in Nat \ {0}
  PROVE  n % f \in 0 .. f - 1 /\ \E q \in Nat : n = f * q + (n % f)
<1> DEFINE p == n \div f
           s == n % f
<1>1. p \in Nat /\ s \in 0 .. f - 1 /\ n = f * p + s
  BY Z3
<1> HIDE DEF p, s
<1>2. s \in 0 .. f - 1 /\ \E q \in Nat : n = f * q + s
  BY <1>1
<1> QED BY <1>2 DEF s

(* Numbers that are closer to each other than the ring is long have        *)
(* different slots.                                                        *)
LEMMA ModDistinct ==
  ASSUME NEW f \in Nat \ {0}, NEW a \in Nat, NEW b \in Nat, a < b, b - a < f
  PROVE  a % f # b % f
<1> DEFINE r == a % f
           s == b % f
<1>1. PICK p \in Nat : a = f * p + r
  BY ModExists
<1>2. PICK q \in Nat : b = f * q + s
  BY ModExists
<1>3. r \in 0 .. f - 1 /\ s \in 0 .. f - 1
  BY ModExists
<1> HIDE DEF r, s
<1> SUFFICES ASSUME r = s PROVE FALSE
  BY DEF r, s
<1>4. f * p \in Int /\ f * q \in Int /\ f * q - f * p = b - a
  BY <1>1, <1>2, <1>3
<1>5. ~(q <= p)
  <2>1. SUFFICES ASSUME q <= p PROVE FALSE
    OBVIOUS
  <2>2. PICK d \in Nat : p = q + d
    <3>1. p - q \in Nat /\ p = q + (p - q)
      BY <2>1
    <3> QED BY <3>1
  <2>3. f * p = f * q + f * d /\ f * d >= 0 /\ f * d \in Int
    BY <2>2
  <2> QED BY <1>4, <2>3
<1>6. PICK d \in Nat : q = p + 1 + d
  <2>1. q - p - 1 \in Nat /\ q = p + 1 + (q - p - 1)
    BY <1>5
  <2> QED BY <2>1
<1>7. f * q = f * p + f + f * d /\ f * d >= 0 /\ f * d \in Int
  BY <1>6
<1> QED BY <1>4, <1>7

(* The last f numbers before n, and where a ring of f elements has them:   *)
(* everywhere, in order from n % f on.                                     *)
LEMMA ModWindow ==
  ASSUME NEW f \in Nat \ {0}, NEW n \in Nat, n >= f
  PROVE  /\ \A k \in 0 .. f - 1 : ((n % f) + k) % f = (n - f + k) % f
         /\ \A k \in 0 .. f - 1 : \E j \in n - f .. n - 1 : j % f = k
<1> DEFINE r == n % f
<1>1. PICK q \in Nat : n = f * q + r
  BY ModExists
<1>2. r \in 0 .. f - 1
  BY ModExists
<1> HIDE DEF r
<1>3. /\ f * q \in Int /\ f * (q - 1) = f * q - f /\ f * (q - 1) \in Int
      /\ q - 1 \in Int /\ f * 0 = 0 /\ f * 1 = f
  OBVIOUS
<1>4. ASSUME NEW k \in 0 .. f - 1
      PROVE  (r + k) % f = (n - f + k) % f
  <2>1. n - f + k \in Nat /\ r + k \in Nat
    BY <1>2
  <2>2. CASE r + k < f
    <3>1. r + k \in 0 .. f - 1 /\ n - f + k = f * (q - 1) + (r + k)
      BY <1>1, <1>2, <1>3, <2>2
    <3>2. (n - f + k) % f = r + k
      BY <1>3, <2>1, <3>1, ModUnique
    <3>3. r + k = f * 0 + (r + k)
      BY <1>2, <1>3
    <3>4. (r + k) % f = r + k
      BY <2>1, <3>1, <3>3, ModUnique
    <3> QED BY <3>2, <3>4
  <2>3. CASE r + k >= f
    <3>1. r + k - f \in 0 .. f - 1 /\ n - f + k = f * q + (r + k - f) /\ r + k = f * 1 + (r + k - f)
      BY <1>1, <1>2, <1>3, <2>3
    <3>2. (n - f + k) % f = r + k - f
      <4>1. q \in Int
        OBVIOUS
      <4> QED BY <2>1, <3>1, <4>1, ModUnique
    <3>3. (r + k) % f = r + k - f
      BY <2>1, <3>1, ModUnique
    <3> QED BY <3>2, <3>3
  <2> QED BY <1>2, <2>2, <2>3
<1>5. ASSUME NEW k \in 0 .. f - 1
      PROVE  \E j \in n - f .. n - 1 : j % f = k
  <2>1. CASE k < r
    <3>1. f * q + k \in n - f .. n - 1 /\ f * q + k \in Nat
      BY <1>1, <1>2, <1>3, <2>1
    <3>2. (f * q + k) % f = k
      BY <3>1, ModUnique
    <3> QED BY <3>1, <3>2
  <2>2. CASE k >= r
    <3>1. f * (q - 1) + k \in n - f .. n - 1 /\ f * (q - 1) + k \in Nat
      BY <1>1, <1>2, <1>3, <2>2
    <3>2. (f * (q - 1) + k) % f = k
      BY <1>3, <3>1, ModUnique
    <3> QED BY <3>1, <3>2
  <2> QED BY <1>2, <2>1, <2>2
<1> QED BY <1>4, <1>5 DEF r

(* A frame more in the ring.                                               *)
LEMMA RingStep ==
  ASSUME Typed, RingInv, NEW f \in Frames, Frame(f)
  PROVE  /\ RingInv'
         /\ saveCount' = Now'
         /\ saved' \in [Atoms -> [Ring -> [data : 0 .. NowIteration', isProduct : BOOLEAN, isReactant : BOOLEAN]]]
<1>1. PICK n \in Nat : n = Now
  BY StepFacts
<1> DEFINE it == Iteration(n + 1)
           R == RingSize
           new(a) == [data       |-> IF a \in f.unbonded THEN 0 ELSE it,
                      isProduct  |-> ProductMustBe /\ a \in Members(f.products),
                      isReactant |-> ReactantMustBe /\ a \in Members(f.reactants)]
           Kind(top) == [data : 0 .. top, isProduct : BOOLEAN, isReactant : BOOLEAN]
<1>2. /\ settings' = settings /\ settings \in Settings /\ Now' = n + 1 /\ it \in Nat \ {0}
      /\ trajectory'[n + 1] = f /\ \A k \in 1 .. n : trajectory'[k] = trajectory[k]
      /\ NowIteration \in Nat /\ NowIteration < it /\ NowIteration' = it
  BY <1>1, StepFacts
<1>3. /\ R \in Nat \ {0} /\ Ring = 0 .. R - 1 /\ saveCount = n
      /\ saved \in [Atoms -> [Ring -> Kind(NowIteration)]]
  BY <1>1, <1>2, SettingFacts DEF Typed, Ring
<1>4. n % R \in Ring
  BY <1>3, ModExists
<1>5. /\ saveCount' = n + 1
      /\ saved' = [a \in Atoms |-> [saved[a] EXCEPT ![n % R] = new(a)]]
  <2>1. \A a \in Atoms : [b \in Atoms |-> IF b \in f.unbonded THEN 0 ELSE it][a] = IF a \in f.unbonded THEN 0 ELSE it
    OBVIOUS
  <2> QED BY <1>1, <1>3, <2>1 DEF Frame, WhenGroupChangedAction, Saved, Now
<1>6. ASSUME NEW a \in Atoms
      PROVE  /\ saved'[a] \in [Ring -> Kind(it)]
             /\ saved'[a][n % R] = new(a)
             /\ \A k \in Ring : k # n % R => saved'[a][k] = saved[a][k]
  <2>1. new(a) \in Kind(it)
    <3>1. (ProductMustBe /\ a \in Members(f.products)) \in BOOLEAN
          /\ (ReactantMustBe /\ a \in Members(f.reactants)) \in BOOLEAN
      OBVIOUS
    <3>2. (IF a \in f.unbonded THEN 0 ELSE it) \in 0 .. it
      BY <1>2
    <3> HIDE DEF it
    <3> QED BY <3>1, <3>2
  <2>2. saved[a] \in [Ring -> Kind(it)]
    <3>1. 0 .. NowIteration \subseteq 0 .. it
      BY <1>2
    <3>2. Kind(NowIteration) \subseteq Kind(it)
      <4> HIDE DEF it
      <4> QED BY <3>1
    <3> HIDE DEF Kind, it
    <3> QED BY <1>3, <3>2
  <2> HIDE DEF Kind, it, new
  <2> QED BY <1>4, <1>5, <2>1, <2>2
<1>7. saved' \in [Atoms -> [Ring -> Kind(it)]]
  <2> HIDE DEF Kind, it, new
  <2>1. saved' = [a \in Atoms |-> saved'[a]]
    BY <1>5
  <2> QED BY <1>6, <2>1
<1>8. ASSUME NEW a \in Atoms, NEW j \in 1 .. n + 1, j > n + 1 - R
      PROVE  saved'[a][(j - 1) % R] = Slot(a, j)'
  <2>1. ProductMustBe' = ProductMustBe /\ ReactantMustBe' = ReactantMustBe /\ \A k : Iteration(k)' = Iteration(k)
    BY <1>2, SettingsKept
  <2>2. CASE j = n + 1
    <3>1. (j - 1) % R = n % R
      BY <2>2
    <3>2. Slot(a, j)' = new(a)
      BY <1>2, <2>1, <2>2 DEF Slot, Members
    <3> QED BY <1>6, <3>1, <3>2
  <2>3. CASE j # n + 1
    <3>1. j \in 1 .. n /\ j > n - R /\ j - 1 \in Nat /\ j - 1 < n /\ n - (j - 1) < R
      BY <1>3, <1>8, <2>3
    <3>2. (j - 1) % R # n % R
      BY <1>3, <3>1, ModDistinct
    <3>3. (j - 1) % R \in Ring
      BY <1>3, <3>1, ModExists
    <3>4. saved[a][(j - 1) % R] = Slot(a, j)
      BY <1>1, <3>1 DEF RingInv
    <3>5. Slot(a, j)' = Slot(a, j)
      BY <1>2, <2>1, <3>1 DEF Slot, Members
    <3> QED BY <1>6, <3>2, <3>3, <3>4, <3>5
  <2> QED BY <2>2, <2>3
<1>9. RingInv'
  <2>1. Atoms' = Atoms /\ RingSize' = R
    BY <1>2, SettingsKept
  <2> SUFFICES ASSUME NEW a \in Atoms', NEW j \in 1 .. Now', j > Now' - RingSize'
               PROVE  saved'[a][(j - 1) % RingSize'] = Slot(a, j)'
    BY DEF RingInv
  <2>2. a \in Atoms /\ j \in 1 .. n + 1 /\ j > n + 1 - R
    BY <1>2, <1>3, <2>1
  <2> QED BY <1>8, <2>1, <2>2
<1> QED BY <1>2, <1>5, <1>7, <1>9

-----------------------------------------------------------------------------
(* What is still to be done has the type it should have.                   *)
LEMMA ToDoTyped ==
  ASSUME Typed, NEW f \in Frames, Frame(f)
  PROVE  toDo' \subseteq [entry : Entries, time : 1 .. NowIteration' + AfterTime]
<1>1. PICK n \in Nat : n = Now
  BY StepFacts
<1> DEFINE it == Iteration(n + 1)
           A == AfterTime
           now == NowIteration
<1>2. /\ settings \in Settings /\ it \in Nat \ {0} /\ now \in Nat /\ now < it /\ NowIteration' = it
  BY <1>1, StepFacts
<1>3. A \in Nat
  BY <1>2, SettingFacts
<1>4. toDo' \subseteq toDo \cup {[entry |-> e, time |-> it + A] : e \in Changed(it, f)}
  BY <1>1 DEF Frame, WhenGroupChangedAction, Now
<1>5. toDo \subseteq [entry : Entries, time : 1 .. now + A]
  BY DEF Typed
<1>6. Changed(it, f) \subseteq Entries
  BY DEF Changed
<1> HIDE DEF it, A, now
<1>7. 1 .. now + A \subseteq 1 .. it + A /\ it + A \in 1 .. it + A
  BY <1>2, <1>3
<1>8. toDo' \subseteq [entry : Entries, time : 1 .. it + A]
  BY <1>4, <1>5, <1>6, <1>7
<1> QED BY <1>2, <1>8 DEF A

LEMMA GroupTyped ==
  ASSUME Typed, NEW f \in Frames, Frame(f)
  PROVE  /\ pending' \subseteq [atom : Atoms, duration : 1 .. Duration, delay : 0 .. Delay]
         /\ group' \subseteq Atoms
<1> DEFINE changed == {e.atom : e \in Changed(Iteration(Len(trajectory) + 1), f)}
           parents == IF FromParentGroup THEN f.parents ELSE {}
           work == pending \cup Fed(parents) \cup Fed(changed)
           u == Duration
           d == Delay
           Kind == [atom : Atoms, duration : 0 .. u, delay : 0 .. d]
<1>1. /\ group' = {e.atom : e \in {w \in work : Adds(w)}}
      /\ pending' = {x \in {ProcessSingleToDo(e) : e \in work} : x.duration > 0}
  BY DEF Frame, DefineGroupAction
<1>2. settings \in Settings /\ u \in Nat /\ d \in Nat /\ \A e \in Entries : e.atom \in Atoms
  BY SettingFacts DEF Typed
<1>3. changed \subseteq Atoms
  BY <1>2 DEF Changed
<1>4. parents \subseteq Atoms
  BY DEF Frames, Given
<1>5. \A B \in SUBSET Atoms : Fed(B) \subseteq Kind
  BY <1>2 DEF Fed
<1>6. pending \subseteq Kind
  <2>1. 1 .. u \subseteq 0 .. u
    BY <1>2
  <2>2. pending \subseteq [atom : Atoms, duration : 1 .. u, delay : 0 .. d]
    BY DEF Typed
  <2> HIDE DEF u, d
  <2> QED BY <2>1, <2>2
<1>7. work \subseteq Kind
  <2> HIDE DEF changed, parents, Kind
  <2> QED BY <1>3, <1>4, <1>5, <1>6
<1> HIDE DEF work, u, d
<1>8. group' \subseteq Atoms
  BY <1>1, <1>7
<1>9. ASSUME NEW w \in Kind, ProcessSingleToDo(w).duration > 0
      PROVE  ProcessSingleToDo(w) \in [atom : Atoms, duration : 1 .. u, delay : 0 .. d]
  <2>1. PICK a \in Atoms, t \in 0 .. u, l \in 0 .. d : w = [atom |-> a, duration |-> t, delay |-> l]
    OBVIOUS
  <2>2. ProcessSingleToDo(w) = IF l > 0 THEN [atom |-> a, duration |-> t, delay |-> l - 1]
                               ELSE [atom |-> a, duration |-> t - 1, delay |-> l]
    BY <1>2, <2>1 DEF ProcessSingleToDo
  <2>3. CASE l > 0
    <3>1. t > 0
      BY <1>9, <2>2, <2>3
    <3>2. t \in 1 .. u /\ l - 1 \in 0 .. d
      BY <1>2, <2>3, <3>1
    <3> QED BY <2>2, <2>3, <3>2
  <2>4. CASE ~(l > 0)
    <3>1. t - 1 > 0
      BY <1>9, <2>2, <2>4
    <3>2. t - 1 \in 1 .. u
      BY <1>2, <3>1
    <3> QED BY <2>2, <2>4, <3>2
  <2> QED BY <2>3, <2>4
<1>10. pending' \subseteq [atom : Atoms, duration : 1 .. u, delay : 0 .. d]
  <2>1. ASSUME NEW x \in pending' PROVE x \in [atom : Atoms, duration : 1 .. u, delay : 0 .. d]
    <3>1. PICK w \in work : x = ProcessSingleToDo(w) /\ x.duration > 0
      BY <1>1
    <3> QED BY <1>7, <1>9, <3>1
  <2> QED BY <2>1
<1> QED BY <1>8, <1>10 DEF u, d

LEMMA TypedStep ==
  ASSUME Typed, TimesInv, RingInv, NEW f \in Frames, Frame(f), Now < MaxFrames
  PROVE  Typed'
<1>1. PICK n \in Nat : n = Now
  BY StepFacts
<1>2. /\ settings' = settings /\ settings \in Settings /\ Now' = n + 1 /\ trajectory' \in Seq(Frames)
  BY <1>1, StepFacts
<1>3. /\ Atoms' = Atoms /\ AfterTime' = AfterTime /\ Ring' = Ring /\ Duration' = Duration
      /\ Delay' = Delay /\ MaxFrames' = MaxFrames /\ Entries' = Entries /\ Frames' = Frames
  BY <1>2, SettingsKept
<1>4. Now' <= MaxFrames
  <2>1. MaxFrames \in Nat
    BY <1>2, SettingFacts
  <2> QED BY <1>1, <1>2, <2>1
<1>5. entered' \in [Entries -> Times] /\ memberBefore' \in [Entries -> BOOLEAN]
  BY TimesStep
<1>6. /\ saveCount' = Now'
      /\ saved' \in [Atoms -> [Ring -> [data : 0 .. NowIteration', isProduct : BOOLEAN, isReactant : BOOLEAN]]]
  BY RingStep
<1>7. toDo' \subseteq [entry : Entries, time : 1 .. NowIteration' + AfterTime]
  BY ToDoTyped
<1>8. /\ pending' \subseteq [atom : Atoms, duration : 1 .. Duration, delay : 0 .. Delay]
      /\ group' \subseteq Atoms
  BY GroupTyped
<1>9. Times' = Times
  BY DEF Times
<1> QED BY <1>2, <1>3, <1>4, <1>5, <1>6, <1>7, <1>8, <1>9 DEF Typed

-----------------------------------------------------------------------------
(* The windows around the reactions, when every frame is used.             *)

(* The frames around a reaction at frame T, and what WhenGroupChanged asks *)
(* of them.                                                                *)
Around(T) == T - BeforeTime .. T + AfterTime

Complete(e, T) ==
  /\ \A j \in Around(T) : e.atom \notin trajectory[j].unbonded
  /\ ProductMustBe /\ MinProductTime > 0 =>
       Cardinality({j \in Around(T) : HasProduct(e, j)}) >= MinProductTime

LEMMA AroundIs ==
  ASSUME settings \in Settings, NEW T \in Int
  PROVE  {BinFrame(T, k) : k \in Ring} = Around(T)
<1> DEFINE B == BeforeTime
           A == AfterTime
<1>1. B \in Nat /\ A \in Nat
  BY SettingFacts
<1>2. Ring = 0 .. B + A /\ \A k \in Ring : BinFrame(T, k) = T - B + k
  <2>1. Ring = 0 .. B + A
    BY <1>1 DEF Ring, RingSize
  <2>2. \A k \in Ring : BinFrame(T, k) = T - B + k
    BY DEF BinFrame
  <2> QED BY <2>1, <2>2
<1>3. Around(T) = T - B .. T + A
  BY DEF Around
<1> HIDE DEF B, A
<1>4. \A k \in 0 .. B + A : T - B + k \in T - B .. T + A
  BY <1>1
<1>5. \A j \in T - B .. T + A : j - (T - B) \in 0 .. B + A /\ j = T - B + (j - (T - B))
  BY <1>1
<1> QED BY <1>2, <1>3, <1>4, <1>5

(* The windows that WindowsAveraged speaks of, and what is added for one.  *)
AllAveraged(e) == Averaged(e, BeforeTime + 2 .. MaxFrames)

Addition(e, T) == [entry |-> e, time |-> Iteration(T) + AfterTime, bins |-> ExpectedBins(e, T)]

(* Which reactions are averaged, before and after the frame.               *)
LEMMA AveragedIs ==
  ASSUME Typed, NEW f \in Frames, Frame(f), NEW n \in Nat, n = Now, NEW e \in Entries,
         NEW T \in BeforeTime + 2 .. MaxFrames
  PROVE  /\ T \in AllAveraged(e) <=>
              T \in Reactions(e) /\ T + AfterTime <= n /\ Complete(e, T)
         /\ T \in AllAveraged(e)' <=>
              T \in Reactions(e)' /\ T + AfterTime <= n + 1 /\ Complete(e, T)'
         /\ T + AfterTime <= n =>
              /\ Complete(e, T)' <=> Complete(e, T)
              /\ Addition(e, T)' = Addition(e, T)
<1>1. /\ settings \in Settings /\ settings' = settings
      /\ Len(trajectory) = n /\ Len(trajectory') = n + 1
      /\ \A k \in 1 .. n : trajectory'[k] = trajectory[k]
  BY StepFacts DEF Now
<1>range. T \in Int /\ T >= BeforeTime + 2
  <2>1. BeforeTime \in Nat /\ MaxFrames \in Nat
    BY <1>1, SettingFacts
  <2> QED BY <2>1
<1>2. {BinFrame(T, k) : k \in Ring} = Around(T)
  BY <1>range, <1>1, AroundIs
<1>3. /\ {BinFrame(T, k)' : k \in Ring'} = Around(T) /\ Around(T)' = Around(T)
      /\ ProductMustBe' = ProductMustBe /\ MinProductTime' = MinProductTime
  <2>1. /\ Ring' = Ring /\ BeforeTime' = BeforeTime /\ AfterTime' = AfterTime
        /\ ProductMustBe' = ProductMustBe /\ MinProductTime' = MinProductTime
    BY <1>1, SettingsKept
  <2>2. \A k : BinFrame(T, k)' = BinFrame(T, k)
    BY <2>1 DEF BinFrame
  <2>3. {BinFrame(T, k)' : k \in Ring'} = {BinFrame(T, k) : k \in Ring}
    BY <2>1, <2>2
  <2> QED BY <1>2, <2>1, <2>3 DEF Around
<1>4. \A m \in Nat : Around(T) \subseteq 1 .. m <=> T + AfterTime <= m
  <2>1. BeforeTime \in Nat /\ AfterTime \in Nat
    BY <1>1, SettingFacts
  <2>2. T + AfterTime \in Around(T) /\ \A j \in Around(T) : j \in Nat \ {0} /\ j <= T + AfterTime
    BY <1>range, <2>1 DEF Around
  <2> SUFFICES ASSUME NEW m \in Nat PROVE Around(T) \subseteq 1 .. m <=> T + AfterTime <= m
    OBVIOUS
  <2>3. T + AfterTime \in Nat
    BY <1>range, <2>1
  <2> DEFINE top == T + AfterTime
  <2> HIDE DEF top
  <2>4. top \in Nat /\ top \in Around(T) /\ \A j \in Around(T) : j \in Nat \ {0} /\ j <= top
    BY <2>2, <2>3 DEF top
  <2>5. Around(T) \subseteq 1 .. m => top <= m
    BY <2>4
  <2>6. ASSUME top <= m PROVE Around(T) \subseteq 1 .. m
    <3>1. \A j \in Around(T) : j \in 1 .. m
      BY <2>4, <2>6
    <3> QED BY <3>1
  <2> QED BY <2>5, <2>6 DEF top
<1>5. T \in AllAveraged(e) <=>
        T \in Reactions(e) /\ T + AfterTime <= n /\ Complete(e, T)
  <2>1. T \in AllAveraged(e) <=> T \in Reactions(e) /\ Around(T) \subseteq 1 .. n /\ Complete(e, T)
    BY <1>1, <1>2 DEF AllAveraged, Averaged, Complete
  <2> QED BY <1>4, <2>1
<1>6. T \in AllAveraged(e)' <=>
        T \in Reactions(e)' /\ T + AfterTime <= n + 1 /\ Complete(e, T)'
  <2>1. BeforeTime' = BeforeTime /\ MaxFrames' = MaxFrames
    BY <1>1, SettingsKept
  <2>2. T \in AllAveraged(e)' <=> T \in Reactions(e)' /\ Around(T) \subseteq 1 .. n + 1 /\ Complete(e, T)'
    BY <1>1, <1>3, <2>1 DEF AllAveraged, Averaged, Complete
  <2> QED BY <1>4, <2>2
<1>7. ASSUME T + AfterTime <= n
      PROVE  Complete(e, T)' <=> Complete(e, T)
  <2>1. Around(T) \subseteq 1 .. n
    BY <1>4, <1>7
  <2>2. \A j \in Around(T) : trajectory'[j] = trajectory[j]
    BY <1>1, <2>1
  <2>3. \A j \in Around(T) : HasProduct(e, j)' <=> HasProduct(e, j)
    BY <2>2 DEF HasProduct, Members
  <2>4. {j \in Around(T) : HasProduct(e, j)'} = {j \in Around(T) : HasProduct(e, j)}
    BY <2>3
  <2> QED BY <1>3, <2>2, <2>4 DEF Complete
<1>8. ASSUME T + AfterTime <= n
      PROVE  Addition(e, T)' = Addition(e, T)
  <2>1. /\ Ring' = Ring /\ BeforeTime' = BeforeTime /\ AfterTime' = AfterTime
        /\ ProductMustBe' = ProductMustBe /\ ReactantMustBe' = ReactantMustBe
        /\ \A k : Iteration(k)' = Iteration(k)
    BY <1>1, SettingsKept
  <2>2. \A k \in Ring : trajectory'[BinFrame(T, k)] = trajectory[BinFrame(T, k)]
    <3>1. Around(T) \subseteq 1 .. n
      BY <1>4, <1>8
    <3>2. \A k \in Ring : BinFrame(T, k) \in 1 .. n
      BY <1>2, <3>1
    <3> QED BY <1>1, <3>2
  <2>3. \A k \in Ring : /\ HasProduct(e, BinFrame(T, k))' <=> HasProduct(e, BinFrame(T, k))
                        /\ HasReactant(e, BinFrame(T, k))' <=> HasReactant(e, BinFrame(T, k))
                        /\ Iteration(BinFrame(T, k))' = Iteration(BinFrame(T, k))
    BY <2>1, <2>2 DEF HasProduct, HasReactant, Members, BinFrame, Iteration
  <2>4. ExpectedBins(e, T)' = ExpectedBins(e, T)
    BY <2>1, <2>3 DEF ExpectedBins, Skipped
  <2> QED BY <2>1, <2>4 DEF Addition
<1> QED BY <1>5, <1>6, <1>7, <1>8

(* The ring when it is full: the frames around the reaction that is        *)
(* AfterTime frames old, each in a slot of its own.                        *)
LEMMA RingWindow ==
  ASSUME Typed, RingInv', NEW f \in Frames, Frame(f), NEW n \in Nat, n = Now,
         NEW a \in Atoms, n + 1 > RingSize, NEW T \in Int, T = n + 1 - AfterTime
  PROVE  /\ Around(T) \subseteq 1 .. n + 1 /\ IsFiniteSet(Around(T))
         /\ \A k \in Ring : saved'[a][(Oldest(n + 1) + k) % RingSize] = Slot(a, BinFrame(T, k))'
         /\ \A j \in Around(T) : (j - 1) % RingSize \in Ring /\ saved'[a][(j - 1) % RingSize] = Slot(a, j)'
         /\ \A k \in Ring : \E j \in Around(T) : (j - 1) % RingSize = k
         /\ \A i, j \in Around(T) : (i - 1) % RingSize = (j - 1) % RingSize => i = j
<1> DEFINE R == RingSize
           B == BeforeTime
           A == AfterTime
           m == n + 1
<1>1. /\ settings \in Settings /\ settings' = settings /\ Now' = m
  BY StepFacts
<1>2. R \in Nat \ {0} /\ B \in Nat /\ A \in Nat /\ R = B + A + 1 /\ Ring = 0 .. R - 1
  BY <1>1, SettingFacts DEF RingSize, Ring
<1>3. RingSize' = R /\ Atoms' = Atoms /\ Ring' = Ring /\ BeforeTime' = B
  BY <1>1, SettingsKept
<1>4. Around(T) = T - B .. T + A
  BY DEF Around
<1> HIDE DEF R, B, A
<1>5. /\ T - B = m + 1 - R /\ T + A = m /\ m \in Nat /\ m >= R
      /\ m > R
  BY <1>2 DEF A, R
<1> HIDE DEF m
<1>6. Around(T) = m + 1 - R .. m
  BY <1>2, <1>4, <1>5
<1>numbers. R \in Nat \ {0} /\ m \in Nat /\ m > R
  BY <1>2, <1>5
<1>7. Around(T) \subseteq 1 .. m /\ IsFiniteSet(Around(T))
  <2>1. IsFiniteSet(m + 1 - R .. m)
    <3>1. m + 1 - R \in Int /\ m \in Int
      BY <1>2, <1>5
    <3> QED BY <3>1, FS_Interval
  <2>2. m + 1 - R .. m \subseteq 1 .. m
    BY <1>2, <1>5
  <2> QED BY <1>6, <2>1, <2>2
<1>8. ASSUME NEW j \in Around(T)
      PROVE  (j - 1) % R \in Ring /\ saved'[a][(j - 1) % R] = Slot(a, j)'
  <2>1. j \in 1 .. m /\ j > m - R /\ j - 1 \in Nat
    BY <1>numbers, <1>6
  <2>2. saved'[a][(j - 1) % R] = Slot(a, j)'
    <3>1. a \in Atoms' /\ j \in 1 .. Now' /\ j > Now' - RingSize'
      BY <1>1, <1>2, <1>3, <2>1
    <3> QED BY <1>3, <3>1 DEF RingInv
  <2>3. (j - 1) % R \in Ring
    BY <1>2, <2>1, ModExists
  <2> QED BY <2>2, <2>3
<1>9. /\ \A k \in Ring : ((m % R) + k) % R = (m - R + k) % R
      /\ \A k \in Ring : \E i \in m - R .. m - 1 : i % R = k
  <2>1. Ring = 0 .. R - 1 /\ m >= R
    BY <1>2, <1>5
  <2> QED BY <1>numbers, <2>1, ModWindow
<1>10. ASSUME NEW k \in Ring
       PROVE  saved'[a][(Oldest(m) + k) % R] = Slot(a, BinFrame(T, k))'
  <2>j. m - R + k + 1 \in Around(T) /\ k \in Nat /\ m - R + k + 1 \in Int
    BY <1>2, <1>numbers, <1>6
  <2> PICK j \in Int : j = m - R + k + 1
    BY <2>j
  <2>1. j \in Around(T) /\ j - 1 = m - R + k
    BY <1>numbers, <2>j
  <2>2. Oldest(m) = m % R
    BY DEF Oldest, R
  <2>3. BinFrame(T, k)' = j
    <3>1. BinFrame(T, k)' = T - B + k
      BY <1>3 DEF BinFrame
    <3>2. T - B + k = j
      BY <1>2, <1>5, <2>j
    <3> QED BY <3>1, <3>2
  <2>4. Slot(a, BinFrame(T, k))' = Slot(a, j)'
    BY <2>3 DEF Slot, Iteration, Members
  <2>5. (Oldest(m) + k) % R = (j - 1) % R
    BY <1>9, <2>1, <2>2
  <2>6. saved'[a][(j - 1) % R] = Slot(a, j)'
    BY <1>8, <2>1
  <2> QED BY <2>4, <2>5, <2>6, Zenon
<1>11. ASSUME NEW k \in Ring
       PROVE  \E j \in Around(T) : (j - 1) % R = k
  <2>1. PICK i \in m - R .. m - 1 : i % R = k
    BY <1>9
  <2>2. i + 1 \in Around(T) /\ (i + 1) - 1 = i
    BY <1>2, <1>5, <1>6
  <2> QED BY <2>1, <2>2
<1>12. ASSUME NEW i \in Around(T), NEW j \in Around(T), (i - 1) % R = (j - 1) % R
       PROVE  i = j
  <2>1. /\ i \in Nat /\ j \in Nat /\ i - 1 \in Nat /\ j - 1 \in Nat
        /\ (i - 1) - (j - 1) < R /\ (j - 1) - (i - 1) < R
    <3>1. \A x, y \in m + 1 - R .. m :
            /\ x \in Nat /\ y \in Nat /\ x - 1 \in Nat /\ y - 1 \in Nat
            /\ (x - 1) - (y - 1) < R
      BY <1>numbers
    <3> QED BY <1>6, <3>1
  <2>2. ~(i - 1 < j - 1) /\ ~(j - 1 < i - 1)
    BY <1>2, <1>12, <2>1, ModDistinct
  <2> QED BY <2>1, <2>2
<1> QED BY <1>7, <1>8, <1>10, <1>11, <1>12 DEF R, m

(* readyToGo asks of the ring what Complete asks of the frames.            *)
LEMMA ReadyIs ==
  ASSUME Typed, RingInv', NEW f \in Frames, Frame(f), NEW n \in Nat, n = Now,
         NEW e \in Entries, n + 1 > RingSize, NEW T \in Int, T = n + 1 - AfterTime
  PROVE  ReadyToGo(saved'[e.atom]) <=> Complete(e, T)'
<1> DEFINE a == e.atom
           ring == saved'[a]
           G == Around(T)
           slot(j) == (j - 1) % RingSize
<1>1. /\ settings \in Settings /\ settings' = settings /\ a \in Atoms
      /\ trajectory' \in Seq(Frames) /\ Len(trajectory') = n + 1
  BY StepFacts, SettingFacts DEF Now
<1>2. /\ G \subseteq 1 .. n + 1 /\ IsFiniteSet(G)
      /\ \A j \in G : slot(j) \in Ring /\ ring[slot(j)] = Slot(a, j)'
      /\ \A k \in Ring : \E j \in G : slot(j) = k
      /\ \A i, j \in G : slot(i) = slot(j) => i = j
  BY <1>1, RingWindow
<1>3. /\ ProductMustBe' = ProductMustBe /\ MinProductTime' = MinProductTime /\ G' = G
      /\ \A k : Iteration(k)' = Iteration(k)
  BY <1>1, SettingsKept DEF Around
<1>4. \A j \in G : trajectory'[j] \in Frames /\ Iteration(j) # 0
  <2>1. \A j \in G : j \in Nat \ {0} /\ j \in 1 .. Len(trajectory')
    BY <1>1, <1>2
  <2> QED BY <1>1, <2>1, IterationFacts, ElementOfSeq
<1>5. \A j \in G : /\ ring[slot(j)].data = IF a \in trajectory'[j].unbonded THEN 0 ELSE Iteration(j)
                   /\ ring[slot(j)].isProduct <=> ProductMustBe /\ HasProduct(e, j)'
  <2>1. \A j \in G : /\ Slot(a, j)'.data = IF a \in trajectory'[j].unbonded THEN 0 ELSE Iteration(j)
                     /\ Slot(a, j)'.isProduct <=> ProductMustBe /\ HasProduct(e, j)'
    BY <1>3 DEF Slot, HasProduct, Members
  <2> HIDE DEF ring, slot, G
  <2> QED BY <1>2, <2>1
<1> HIDE DEF ring, slot, G, a
<1>6. (BondProperty => \A k \in Ring : ring[k].data # 0) <=> \A j \in G : a \notin trajectory'[j].unbonded
  <2>1. (\A k \in Ring : ring[k].data # 0) <=> \A j \in G : ring[slot(j)].data # 0
    BY <1>2
  <2>2. (\A j \in G : ring[slot(j)].data # 0) <=> \A j \in G : a \notin trajectory'[j].unbonded
    BY <1>4, <1>5
  <2>3. BondProperty \/ \A j \in G : a \notin trajectory'[j].unbonded
    <3>1. BondProperty \/ \A x \in Frames : x.unbonded = {}
      BY DEF Frames, Given
    <3> QED BY <1>4, <3>1
  <2> QED BY <2>1, <2>2, <2>3
<1>7. ASSUME ProductMustBe
      PROVE  Cardinality({k \in Ring : ring[k].isProduct}) = Cardinality({j \in G : HasProduct(e, j)'})
  <2> DEFINE X == {j \in G : HasProduct(e, j)'}
             Y == {k \in Ring : ring[k].isProduct}
             h == [j \in X |-> slot(j)]
  <2>1. IsFiniteSet(X)
    <3>1. X \subseteq G
      OBVIOUS
    <3> QED BY <1>2, <3>1, FS_Subset
  <2>2. h \in [X -> Y]
    BY <1>2, <1>5, <1>7
  <2>3. \A i, j \in X : h[i] = h[j] => i = j
    BY <1>2
  <2>4. \A k \in Y : \E j \in X : h[j] = k
    <3> SUFFICES ASSUME NEW k \in Y PROVE \E j \in X : h[j] = k
      OBVIOUS
    <3>1. PICK j \in G : slot(j) = k
      BY <1>2
    <3>2. j \in X
      BY <1>5, <3>1
    <3> QED BY <3>1, <3>2
  <2> HIDE DEF X, Y, h
  <2>5. h \in Bijection(X, Y)
    BY <2>2, <2>3, <2>4 DEF Bijection, Injection, Surjection, IsInjective
  <2>6. ExistsBijection(X, Y)
    BY <2>5 DEF ExistsBijection
  <2>7. Cardinality(Y) = Cardinality(X)
    BY <2>1, <2>6, FS_Bijection
  <2> QED BY <2>7 DEF X, Y
<1>8. ReadyToGo(ring) <=>
        /\ BondProperty => \A k \in Ring : ring[k].data # 0
        /\ ProductMustBe /\ MinProductTime > 0 =>
             Cardinality({k \in Ring : ring[k].isProduct}) >= MinProductTime
  BY DEF ReadyToGo
<1>9. Complete(e, T)' <=>
        /\ \A j \in G : a \notin trajectory'[j].unbonded
        /\ ProductMustBe /\ MinProductTime > 0 =>
             Cardinality({j \in G : HasProduct(e, j)'}) >= MinProductTime
  BY <1>3 DEF Complete, G, a
<1>10. ReadyToGo(ring) <=> Complete(e, T)'
  BY <1>6, <1>7, <1>8, <1>9
<1> QED BY <1>10 DEF ring, a

(* The bins it fills are those of the reaction.                            *)
LEMMA BinsAre ==
  ASSUME Typed, RingInv', NEW f \in Frames, Frame(f), NEW n \in Nat, n = Now,
         NEW e \in Entries, n + 1 > RingSize, NEW T \in Int, T = n + 1 - AfterTime,
         Complete(e, T)'
  PROVE  Bins(saved'[e.atom], n + 1) = ExpectedBins(e, T)'
<1> DEFINE a == e.atom
           ring == saved'[a]
           b(k) == BinFrame(T, k)
<1>1. /\ settings \in Settings /\ settings' = settings /\ a \in Atoms
  BY StepFacts, SettingFacts
<1>2. /\ ProductMustBe' = ProductMustBe /\ ReactantMustBe' = ReactantMustBe
      /\ BeforeTime' = BeforeTime /\ Ring' = Ring
      /\ \A k : Iteration(k)' = Iteration(k)
  BY <1>1, SettingsKept
<1>3. \A k : BinFrame(T, k)' = b(k)
  BY <1>2 DEF BinFrame
<1>4. \A k \in Ring : ring[(Oldest(n + 1) + k) % RingSize] = Slot(a, BinFrame(T, k))'
  BY <1>1, RingWindow
<1>5. \A k \in Ring : a \notin trajectory'[b(k)].unbonded
  <2>1. \A k \in Ring : b(k) \in Around(T)
    BY <1>1, AroundIs
  <2>2. Around(T)' = Around(T)
    BY <1>1, SettingsKept DEF Around
  <2> HIDE DEF b
  <2> QED BY <2>1, <2>2 DEF Complete
<1> DEFINE s(k) == Slot(a, BinFrame(T, k))'
           skip(k) == \/ ProductMustBe /\ k > BeforeTime + 1 /\ ~HasProduct(e, b(k))'
                      \/ ReactantMustBe /\ k < BeforeTime \div 2 /\ ~HasReactant(e, b(k))'
<1>6. \A k \in Ring : /\ s(k).data = Iteration(b(k))
                      /\ s(k).isProduct <=> ProductMustBe /\ HasProduct(e, b(k))'
                      /\ s(k).isReactant <=> ReactantMustBe /\ HasReactant(e, b(k))'
  <2>1. \A k : s(k) = [data       |-> IF a \in trajectory'[BinFrame(T, k)'].unbonded THEN 0 ELSE Iteration(BinFrame(T, k)'),
                       isProduct  |-> ProductMustBe /\ a \in Members(trajectory'[BinFrame(T, k)'].products),
                       isReactant |-> ReactantMustBe /\ a \in Members(trajectory'[BinFrame(T, k)'].reactants)]
    BY <1>2 DEF Slot, Iteration, Members
  <2>2. \A k : s(k) = [data       |-> IF a \in trajectory'[b(k)].unbonded THEN 0 ELSE Iteration(b(k)),
                       isProduct  |-> ProductMustBe /\ a \in Members(trajectory'[b(k)].products),
                       isReactant |-> ReactantMustBe /\ a \in Members(trajectory'[b(k)].reactants)]
    BY <1>3, <2>1
  <2>3. \A k : /\ HasProduct(e, b(k))' <=> a \in Members(trajectory'[b(k)].products)
               /\ HasReactant(e, b(k))' <=> a \in Members(trajectory'[b(k)].reactants)
    BY <1>2 DEF HasProduct, HasReactant, Members, BinFrame
  <2> HIDE DEF s, b, a
  <2> QED BY <1>5, <2>2, <2>3
<1>7. Bins(ring, n + 1) = [k \in Ring |-> IF skip(k) THEN Skipped ELSE Iteration(b(k))]
  <2> DEFINE r(k) == ring[(Oldest(n + 1) + k) % RingSize]
  <2>1. Bins(ring, n + 1) =
          [k \in Ring |->
             IF \/ ProductMustBe /\ k > BeforeTime + 1 /\ ~r(k).isProduct
                \/ ReactantMustBe /\ k < BeforeTime \div 2 /\ ~r(k).isReactant
             THEN Skipped ELSE r(k).data]
    BY DEF Bins
  <2>2. \A k \in Ring : r(k) = s(k)
    BY <1>4
  <2>3. \A k \in Ring : /\ r(k).data = Iteration(b(k))
                        /\ r(k).isProduct <=> ProductMustBe /\ HasProduct(e, b(k))'
                        /\ r(k).isReactant <=> ReactantMustBe /\ HasReactant(e, b(k))'
    <3> HIDE DEF r, s, b
    <3> QED BY <1>6, <2>2
  <2> HIDE DEF r, s, b
  <2>4. \A k \in Ring :
          (IF \/ ProductMustBe /\ k > BeforeTime + 1 /\ ~r(k).isProduct
              \/ ReactantMustBe /\ k < BeforeTime \div 2 /\ ~r(k).isReactant
           THEN Skipped ELSE r(k).data) = IF skip(k) THEN Skipped ELSE Iteration(b(k))
    BY <2>3
  <2> QED BY <2>1, <2>4
<1>8. ExpectedBins(e, T)' = [k \in Ring |-> IF skip(k) THEN Skipped ELSE Iteration(b(k))]
  <2>1. ExpectedBins(e, T)' =
          [k \in Ring |->
             IF \/ ProductMustBe /\ k > BeforeTime + 1 /\ ~HasProduct(e, BinFrame(T, k))'
                \/ ReactantMustBe /\ k < BeforeTime \div 2 /\ ~HasReactant(e, BinFrame(T, k))'
             THEN Skipped ELSE Iteration(BinFrame(T, k))']
    BY <1>2 DEF ExpectedBins, Skipped
  <2>2. \A k \in Ring : /\ HasProduct(e, BinFrame(T, k))' <=> HasProduct(e, b(k))'
                        /\ HasReactant(e, BinFrame(T, k))' <=> HasReactant(e, b(k))'
                        /\ Iteration(BinFrame(T, k))' = Iteration(b(k))
    BY <1>2, <1>3 DEF HasProduct, HasReactant, Iteration
  <2> QED BY <2>1, <2>2
<1> QED BY <1>7, <1>8

(* The to-do list: what is worked off are the reactions whose window ends  *)
(* with this frame.                                                        *)
LEMMA ToDoStep ==
  ASSUME Typed, TimesInv, WindowInv, EveryFrame, NEW f \in Frames, Frame(f), NEW n \in Nat, n = Now
  PROVE  /\ toDo' = {t \in [entry : Entries, time : Nat] : Outstanding(t)}'
         /\ \A t \in [entry : Entries, time : Nat] :
              t \in Due(Iteration(n + 1)) <=>
                /\ n + 1 > RingSize /\ t.time = n + 1
                /\ n + 1 - AfterTime \in Reactions(t.entry)
<1> DEFINE it == Iteration(n + 1)
           A == AfterTime
           B == BeforeTime
           R == RingSize
           Kind == [entry : Entries, time : Nat]
<1>1. /\ settings \in Settings /\ settings' = settings /\ Now' = n + 1
  BY StepFacts
<1>2. /\ A \in Nat \ {0} /\ B \in Nat /\ R = A + B + 1 /\ it = n + 1
  <2>1. /\ A \in Nat /\ B \in Nat /\ A > 0
    BY <1>1, SettingFacts DEF EveryFrame
  <2>2. it = n + 1
    BY <1>1, IterationFacts DEF EveryFrame
  <2> QED BY <2>1, <2>2 DEF RingSize
<1>3. /\ saveCount = n /\ toDo = {t \in Kind : Outstanding(t)}
  BY DEF Typed, WindowInv
<1>4. toDo' = (toDo \ Due(it)) \cup {[entry |-> e, time |-> it + A] : e \in Changed(it, f)}
  BY DEF Frame, WhenGroupChangedAction, Now
<1>5. Due(it) = {t \in toDo : n + 1 > R /\ n + 1 = t.time}
  BY <1>2, <1>3 DEF Due
<1>6. /\ \A e \in Entries : Reactions(e) \subseteq 1 .. n /\ Reactions(e)' \subseteq 1 .. n + 1
                            /\ Reactions(e)' \cap (1 .. n) = Reactions(e)
      /\ \A e \in Entries : e \in Changed(it, f) <=> n + 1 \in Reactions(e)'
  BY ReactionsKept, ChangedFacts
<1>7. Changed(it, f) \subseteq Entries
  BY DEF Changed
<1>8. /\ Entries' = Entries /\ AfterTime' = A /\ BeforeTime' = B
  BY <1>1, SettingsKept
<1>9. \A t : /\ Outstanding(t) <=>
                  \E T \in Reactions(t.entry) : t.time = T + A /\ (T + A > n \/ T < B + 2)
             /\ Outstanding(t)' <=>
                  \E T \in Reactions(t.entry)' : t.time = T + A /\ (T + A > n + 1 \/ T < B + 2)
  BY <1>1, <1>8 DEF Outstanding
<1> HIDE DEF it, A, B, R, Kind
<1>10. ASSUME NEW t \in Kind
       PROVE  t \in Due(it) <=> n + 1 > R /\ t.time = n + 1 /\ n + 1 - A \in Reactions(t.entry)
  <2>1. t.entry \in Entries /\ t.time \in Nat
    BY DEF Kind
  <2>2. \A T \in Reactions(t.entry) : T \in Nat
    BY <1>6, <2>1
  <2>3. \A T \in Nat : n + 1 = T + A => T = n + 1 - A /\ T + A > n
    BY <1>2
  <2>4. n + 1 = (n + 1 - A) + A /\ (n + 1 - A) + A > n
    BY <1>2
  <2> QED BY <1>3, <1>5, <1>9, <2>1, <2>2, <2>3, <2>4
<1>11. ASSUME NEW t \in Kind
       PROVE  t \in toDo' <=> Outstanding(t)'
  <2>1. t.entry \in Entries /\ t.time \in Nat /\ t = [entry |-> t.entry, time |-> t.time]
    BY DEF Kind
  <2> DEFINE e == t.entry
             X == Reactions(e)
             Y == Reactions(e)'
  <2>2. /\ X \subseteq 1 .. n /\ Y \subseteq 1 .. n + 1 /\ Y \cap (1 .. n) = X
        /\ e \in Changed(it, f) <=> n + 1 \in Y
    BY <1>6, <2>1
  <2>3. t \in toDo <=> \E T \in X : t.time = T + A /\ (T + A > n \/ T < B + 2)
    BY <1>3, <1>9
  <2>4. t \in Due(it) <=> t \in toDo /\ n + 1 > R /\ n + 1 = t.time
    BY <1>5
  <2>5. t \in {[entry |-> d, time |-> it + A] : d \in Changed(it, f)} <=> e \in Changed(it, f) /\ t.time = it + A
    BY <1>7, <2>1
  <2>6. Outstanding(t)' <=> \E T \in Y : t.time = T + A /\ (T + A > n + 1 \/ T < B + 2)
    BY <1>9
  <2>7. t \in toDo' <=> (t \in toDo /\ ~(n + 1 > R /\ n + 1 = t.time)) \/ (n + 1 \in Y /\ t.time = n + 1 + A)
    BY <1>2, <1>4, <2>2, <2>4, <2>5
  <2> HIDE DEF e, X, Y
  <2>8. ASSUME NEW T \in X, t.time = T + A
        PROVE  (T + A > n \/ T < B + 2) /\ ~(n + 1 > R /\ n + 1 = t.time) <=> T + A > n + 1 \/ T < B + 2
    <3>1. T \in Nat
      BY <2>2
    <3> QED BY <1>2, <2>8, <3>1
  <2>9. t.time = n + 1 + A => t.time = (n + 1) + A /\ (n + 1) + A > n + 1
    BY <1>2
  <2>10. \A T \in Y : T \in X \/ T = n + 1
    BY <2>2
  <2>11. X \subseteq Y
    BY <2>2
  <2> QED BY <2>3, <2>6, <2>7, <2>8, <2>9, <2>10, <2>11
<1>12. toDo' \subseteq Kind
  <2>1. toDo \subseteq Kind
    BY <1>3
  <2>2. it + A \in Nat
    BY <1>2
  <2> QED BY <1>4, <1>7, <2>1, <2>2 DEF Kind
<1>13. Kind' = Kind
  BY <1>8 DEF Kind
<1>14. toDo' = {t \in Kind : Outstanding(t)}'
  BY <1>11, <1>12, <1>13
<1> QED BY <1>10, <1>14 DEF it, A, R, Kind

(* The histogram.                                                          *)
LEMMA HistogramStep ==
  ASSUME Typed, TimesInv, WindowInv, RingInv', EveryFrame, NEW f \in Frames, Frame(f), Now < MaxFrames
  PROVE  WindowsAveraged'
<1>1. PICK n \in Nat : n = Now
  BY StepFacts
<1> DEFINE it == Iteration(n + 1)
           A == AfterTime
           B == BeforeTime
           R == RingSize
           T == n + 1 - A
           Ready(t) == ReadyToGo(saved'[t.entry.atom])
           Filled(t) == [entry |-> t.entry, time |-> t.time, bins |-> Bins(saved'[t.entry.atom], n + 1)]
           added == {Filled(t) : t \in {d \in Due(it) : Ready(d)}}
<1>2. /\ settings \in Settings /\ settings' = settings /\ Now' = n + 1
  BY <1>1, StepFacts
<1>3. /\ A \in Nat \ {0} /\ B \in Nat /\ R = A + B + 1 /\ it = n + 1 /\ MaxFrames \in Nat /\ n < MaxFrames
  <2>1. /\ A \in Nat /\ B \in Nat /\ A > 0 /\ MaxFrames \in Nat
    BY <1>2, SettingFacts DEF EveryFrame
  <2>2. it = n + 1
    BY <1>2, IterationFacts DEF EveryFrame
  <2> QED BY <1>1, <2>1, <2>2 DEF RingSize
<1>4. Entries' = Entries
  BY <1>2, SettingsKept
<1>5. /\ histogram = UNION {{Addition(e, k) : k \in AllAveraged(e)} : e \in Entries}
      /\ WindowsAveraged' <=>
           histogram' = UNION {{Addition(e, k)' : k \in AllAveraged(e)'} : e \in Entries}
  BY <1>4 DEF WindowInv, WindowsAveraged, ExpectedHistogram, Addition, AllAveraged
<1>6. /\ toDo \subseteq [entry : Entries, time : Nat] /\ saveCount = n
  BY <1>1 DEF WindowInv, Typed
<1>7. histogram' = histogram \cup added
  <2>1. saved' = [a \in Atoms |-> Saved(a, [b \in Atoms |-> IF b \in f.unbonded THEN 0 ELSE it],
                                        Members(f.reactants), Members(f.products))]
    BY <1>1 DEF Frame, WhenGroupChangedAction, Now
  <2> QED BY <1>1, <1>6, <2>1 DEF Frame, WhenGroupChangedAction, Now
<1>8. \A e \in Entries : /\ AllAveraged(e) \subseteq B + 2 .. MaxFrames /\ AllAveraged(e)' \subseteq B + 2 .. MaxFrames
                         /\ Reactions(e) \subseteq 1 .. n /\ Reactions(e)' \cap (1 .. n) = Reactions(e)
  <2>1. BeforeTime' = B /\ MaxFrames' = MaxFrames
    BY <1>2, SettingsKept
  <2>2. \A e \in Entries : AllAveraged(e) \subseteq B + 2 .. MaxFrames /\ AllAveraged(e)' \subseteq B + 2 .. MaxFrames
    BY <2>1 DEF AllAveraged, Averaged
  <2> QED BY <1>1, <2>2, ReactionsKept
<1> HIDE DEF it, A, B, R, Ready, Filled, added
(* The reactions whose window ends with this frame.                        *)
<1>9. ASSUME NEW e \in Entries, n + 1 > R, NEW k \in Int, k = T
      PROVE  /\ Ready([entry |-> e, time |-> n + 1]) <=> Complete(e, k)'
             /\ Complete(e, k)' => Filled([entry |-> e, time |-> n + 1]) = Addition(e, k)'
  <2>1. /\ n + 1 > RingSize /\ k = n + 1 - AfterTime
    BY <1>9 DEF R, A
  <2>2. ReadyToGo(saved'[e.atom]) <=> Complete(e, k)'
    BY <1>1, <2>1, ReadyIs
  <2>3. ASSUME Complete(e, k)'
        PROVE  Filled([entry |-> e, time |-> n + 1]) = Addition(e, k)'
    <3>1. Bins(saved'[e.atom], n + 1) = ExpectedBins(e, k)'
      BY <1>1, <2>1, <2>3, BinsAre
    <3>2. Iteration(k)' + AfterTime' = n + 1
      <4>1. Iteration(k)' = Iteration(k) /\ AfterTime' = A
        BY <1>2, SettingsKept DEF A
      <4>2. k \in Nat \ {0} /\ k + A = n + 1
        BY <1>3, <1>9
      <4>3. Iteration(k) = k
        BY <1>2, <4>2, IterationFacts DEF EveryFrame
      <4> QED BY <4>1, <4>2, <4>3
    <3> QED BY <3>1, <3>2 DEF Filled, Addition
  <2> QED BY <2>2, <2>3 DEF Ready
<1>10. ASSUME NEW t \in [entry : Entries, time : Nat]
       PROVE  t \in Due(it) <=> n + 1 > R /\ t.time = n + 1 /\ T \in Reactions(t.entry)
  BY <1>1, ToDoStep DEF it, R, A
<1>11. PICK k0 \in Int : k0 = T
  BY <1>3
<1>12. n + 1 > R <=> k0 \in B + 2 .. MaxFrames
  BY <1>3, <1>11
<1>13. \A x : x \in added <=>
         \E e \in Entries : /\ n + 1 > R /\ k0 \in Reactions(e) /\ Complete(e, k0)'
                            /\ x = Addition(e, k0)'
  <2>1. \A x : x \in added <=> \E t \in Due(it) : Ready(t) /\ x = Filled(t)
    BY DEF added
  <2>2. Due(it) \subseteq [entry : Entries, time : Nat]
    BY <1>6 DEF Due
  <2>3. ASSUME NEW x \in added
        PROVE  \E e \in Entries : /\ n + 1 > R /\ k0 \in Reactions(e) /\ Complete(e, k0)'
                                  /\ x = Addition(e, k0)'
    <3>1. PICK t \in Due(it) : Ready(t) /\ x = Filled(t)
      BY <2>1
    <3>2. /\ t \in [entry : Entries, time : Nat] /\ n + 1 > R /\ t.time = n + 1 /\ T \in Reactions(t.entry)
      BY <1>10, <2>2
    <3>3. t.entry \in Entries /\ t = [entry |-> t.entry, time |-> n + 1]
      BY <3>2
    <3>4. Complete(t.entry, k0)' /\ x = Addition(t.entry, k0)'
      BY <1>9, <1>11, <3>1, <3>2, <3>3
    <3> QED BY <1>11, <3>2, <3>3, <3>4
  <2>4. ASSUME NEW e \in Entries, n + 1 > R, k0 \in Reactions(e), Complete(e, k0)'
        PROVE  Addition(e, k0)' \in added
    <3> DEFINE t == [entry |-> e, time |-> n + 1]
    <3>1. t \in [entry : Entries, time : Nat] /\ t.entry = e /\ t.time = n + 1
      OBVIOUS
    <3>2. t \in Due(it)
      BY <1>10, <1>11, <2>4, <3>1
    <3>3. Ready(t) /\ Filled(t) = Addition(e, k0)'
      BY <1>9, <1>11, <2>4
    <3> QED BY <2>1, <3>2, <3>3
  <2> QED BY <2>3, <2>4
<1> HIDE DEF T
<1>14. ASSUME NEW e \in Entries
       PROVE  /\ \A k \in AllAveraged(e) : k \in AllAveraged(e)' /\ Addition(e, k)' = Addition(e, k)
              /\ \A k \in AllAveraged(e)' : k \in AllAveraged(e) \/ (k = k0 /\ k0 \in Reactions(e) /\ Complete(e, k0)')
              /\ n + 1 > R /\ k0 \in Reactions(e) /\ Complete(e, k0)' => k0 \in AllAveraged(e)'
  <2>1. \A k \in B + 2 .. MaxFrames :
          /\ k \in AllAveraged(e) <=> k \in Reactions(e) /\ k + A <= n /\ Complete(e, k)
          /\ k \in AllAveraged(e)' <=> k \in Reactions(e)' /\ k + A <= n + 1 /\ Complete(e, k)'
          /\ k + A <= n => (Complete(e, k)' <=> Complete(e, k)) /\ Addition(e, k)' = Addition(e, k)
    BY <1>1, AveragedIs DEF A, B
  <2>2. k0 + A = n + 1
    BY <1>3, <1>11 DEF T
  <2>3. Reactions(e) \subseteq Reactions(e)'
    BY <1>8
  <2>4. ASSUME NEW k \in AllAveraged(e)
        PROVE  k \in AllAveraged(e)' /\ Addition(e, k)' = Addition(e, k)
    <3>1. k \in B + 2 .. MaxFrames /\ k + A <= n
      BY <1>8, <2>1
    <3>2. k + A <= n + 1
      BY <1>3, <3>1
    <3> QED BY <2>1, <2>3, <3>1, <3>2
  <2>5. ASSUME NEW k \in AllAveraged(e)'
        PROVE  k \in AllAveraged(e) \/ (k = k0 /\ k0 \in Reactions(e) /\ Complete(e, k0)')
    <3>1. /\ k \in B + 2 .. MaxFrames /\ k + A <= n + 1 /\ k \in Reactions(e)' /\ Complete(e, k)'
      BY <1>8, <2>1
    <3>2. k \in 1 .. n /\ (k + A <= n \/ k = k0)
      BY <1>3, <2>2, <3>1
    <3>3. k \in Reactions(e)
      BY <1>8, <3>1, <3>2
    <3> QED BY <2>1, <3>1, <3>2, <3>3
  <2>6. ASSUME n + 1 > R, k0 \in Reactions(e), Complete(e, k0)'
        PROVE  k0 \in AllAveraged(e)'
    <3>1. k0 \in B + 2 .. MaxFrames /\ k0 + A <= n + 1
      BY <1>12, <2>2, <2>6
    <3> QED BY <2>1, <2>3, <2>6, <3>1
  <2> QED BY <2>4, <2>5, <2>6
<1>15. \A e \in Entries : k0 \in AllAveraged(e)' => n + 1 > R
  BY <1>8, <1>12
<1>16. \A x : x \in histogram' <=> \E e \in Entries : \E k \in AllAveraged(e)' : x = Addition(e, k)'
  <2>1. \A x : x \in histogram <=> \E e \in Entries : \E k \in AllAveraged(e) : x = Addition(e, k)
    BY <1>5
  <2>2. ASSUME NEW x, x \in histogram'
        PROVE  \E e \in Entries : \E k \in AllAveraged(e)' : x = Addition(e, k)'
    <3>1. CASE x \in histogram
      <4>1. PICK e \in Entries : \E k \in AllAveraged(e) : x = Addition(e, k)
        BY <2>1, <3>1
      <4>2. PICK k \in AllAveraged(e) : x = Addition(e, k)
        BY <4>1
      <4>3. k \in AllAveraged(e)' /\ x = Addition(e, k)'
        BY <1>14, <4>2
      <4> QED BY <4>3
    <3>2. CASE x \in added
      <4>1. PICK e \in Entries : n + 1 > R /\ k0 \in Reactions(e) /\ Complete(e, k0)' /\ x = Addition(e, k0)'
        BY <1>13, <3>2
      <4>2. k0 \in AllAveraged(e)'
        BY <1>14, <4>1
      <4> QED BY <4>1, <4>2
    <3> QED BY <1>7, <2>2, <3>1, <3>2
  <2>3. ASSUME NEW e \in Entries, NEW k \in AllAveraged(e)'
        PROVE  Addition(e, k)' \in histogram'
    <3>1. CASE k \in AllAveraged(e)
      <4>1. Addition(e, k)' = Addition(e, k)
        BY <1>14, <3>1
      <4>2. Addition(e, k) \in histogram
        BY <2>1, <3>1
      <4> QED BY <1>7, <4>1, <4>2
    <3>2. CASE k \notin AllAveraged(e)
      <4>1. k = k0 /\ k0 \in Reactions(e) /\ Complete(e, k0)' /\ n + 1 > R
        BY <1>14, <1>15, <3>2
      <4>2. Addition(e, k0)' \in added
        BY <1>13, <4>1
      <4> QED BY <1>7, <4>1, <4>2
    <3> QED BY <3>1, <3>2
  <2> QED BY <2>2, <2>3
<1>17. histogram' = UNION {{Addition(e, k)' : k \in AllAveraged(e)'} : e \in Entries}
  <2> DEFINE new(e) == {Addition(e, k)' : k \in AllAveraged(e)'}
  <2>1. \A x : x \in UNION {new(e) : e \in Entries} <=> \E e \in Entries : \E k \in AllAveraged(e)' : x = Addition(e, k)'
    OBVIOUS
  <2>2. \A x : x \in histogram' <=> x \in UNION {new(e) : e \in Entries}
    <3> HIDE DEF new
    <3> QED BY <1>16, <2>1
  <2> HIDE DEF new
  <2>3. histogram' = UNION {new(e) : e \in Entries}
    BY <2>2
  <2> QED BY <2>3 DEF new
<1> QED BY <1>5, <1>17

LEMMA WindowStep ==
  ASSUME Typed, TimesInv, WindowInv, RingInv', NEW f \in Frames, Frame(f), Now < MaxFrames
  PROVE  WindowInv'
<1>1. settings' = settings
  BY StepFacts
<1>2. EveryFrame' <=> EveryFrame
  BY <1>1, SettingsKept DEF EveryFrame
<1> SUFFICES ASSUME EveryFrame
             PROVE  /\ toDo' = {t \in [entry : Entries, time : Nat] : Outstanding(t)}'
                    /\ WindowsAveraged'
  BY <1>2 DEF WindowInv
<1>3. PICK n \in Nat : n = Now
  BY StepFacts
<1>4. toDo' = {t \in [entry : Entries, time : Nat] : Outstanding(t)}'
  BY <1>3, ToDoStep
<1> QED BY <1>4, HistogramStep

-----------------------------------------------------------------------------
(* The invariant holds throughout.                                         *)

LEMMA InitInv == Init => IInv
<1> SUFFICES ASSUME Init PROVE IInv
  OBVIOUS
<1>1. /\ settings \in Settings /\ trajectory = <<>> /\ Now = 0 /\ Len(trajectory) = 0
      /\ NowIteration = 0 /\ trajectory \in Seq(Frames)
  BY EmptySeq DEF Init, Now, NowIteration
<1>2. /\ entered = [e \in Entries |-> NeverEntered] /\ memberBefore = [e \in Entries |-> FALSE]
      /\ reported = {} /\ saveCount = 0 /\ saved = [a \in Atoms |-> [k \in Ring |-> Blank]]
      /\ toDo = {} /\ histogram = {} /\ pending = {} /\ group = {}
  BY DEF Init, ChangeInit, SaveInit, GroupInit
<1>3. NeverEntered \in Times /\ NeverEntered.first = 0 /\ NeverEntered.continuous = 0 /\ NeverEntered.last = 0
  BY DEF NeverEntered, Times
<1>4. \A e : Reactions(e) = {}
  BY <1>1 DEF Reactions
<1>5. Typed
  <2>1. Now <= MaxFrames
    BY <1>1, SettingFacts
  <2>2. entered \in [Entries -> Times] /\ memberBefore \in [Entries -> BOOLEAN]
    BY <1>2, <1>3
  <2>3. saved \in [Atoms -> [Ring -> [data : 0 .. NowIteration, isProduct : BOOLEAN, isReactant : BOOLEAN]]]
    <3>1. Blank \in [data : 0 .. NowIteration, isProduct : BOOLEAN, isReactant : BOOLEAN]
      BY <1>1 DEF Blank
    <3> QED BY <1>2, <3>1
  <2> QED BY <1>1, <1>2, <2>1, <2>2, <2>3 DEF Typed
<1>6. TimesInv
  <2> SUFFICES ASSUME NEW e \in Entries
               PROVE  /\ Describes(entered[e], Stays(e))
                      /\ memberBefore[e] <=> Now > 0 /\ IsReactant(e, Now)
                      /\ entered[e].last <= NowIteration
    BY DEF TimesInv
  <2>1. Stays(e) = {}
    <3>1. LastEndBefore(e, 1) \in 0 .. 0
      BY LastEndFacts
    <3>2. LastEndBefore(e, Now + 1) = LastEndBefore(e, 1) /\ LastEndBefore(e, 1) + 1 .. Now = {}
      <4>1. LastEndBefore(e, 1) + 1 .. 0 = {}
        BY <3>1
      <4> QED BY <1>1, <4>1
    <3> QED BY <3>2 DEF Stays
  <2>2. Describes(entered[e], Stays(e))
    BY <1>2, <1>3, <2>1 DEF Describes
  <2> QED BY <1>1, <1>2, <1>3, <2>2
<1>7. ReportedInv
  BY <1>2, <1>4 DEF ReportedInv
<1>8. PendingInv
  <2>1. GroupFollowsReactions
    BY <1>1, <1>2 DEF GroupFollowsReactions
  <2>2. pending = UNION {{Aged(a, Now + 1 - k) : a \in FedAt(k)} :
                           k \in {j \in 1 .. Now : LeftDuration(Now + 1 - j) > 0}}
    BY <1>1, <1>2
  <2> QED BY <2>1, <2>2 DEF PendingInv
<1>9. RingInv
  BY <1>1 DEF RingInv
<1>10. WindowInv
  <2>1. \A t : ~Outstanding(t)
    BY <1>4 DEF Outstanding
  <2>2. WindowsAveraged
    <3>1. \A e, W : Averaged(e, W) = {}
      BY <1>4 DEF Averaged
    <3> QED BY <1>2, <3>1 DEF WindowsAveraged, ExpectedHistogram
  <2> QED BY <1>2, <2>1, <2>2 DEF WindowInv
<1> QED BY <1>5, <1>6, <1>7, <1>8, <1>9, <1>10 DEF IInv

LEMMA StutterInv ==
  ASSUME IInv, UNCHANGED vars
  PROVE  IInv'
<1>1. /\ settings' = settings /\ trajectory' = trajectory /\ entered' = entered
      /\ memberBefore' = memberBefore /\ reported' = reported /\ saveCount' = saveCount
      /\ saved' = saved /\ toDo' = toDo /\ histogram' = histogram /\ pending' = pending
      /\ group' = group
  BY DEF vars, changeVars, saveVars, groupVars
<1>2. /\ MinReactantTime' = MinReactantTime /\ MaxReactionTime' = MaxReactionTime
      /\ Atoms' = Atoms /\ BeforeTime' = BeforeTime /\ AfterTime' = AfterTime
      /\ RingSize' = RingSize /\ Ring' = Ring
      /\ ProductMustBe' = ProductMustBe
      /\ ReactantMustBe' = ReactantMustBe /\ MinProductTime' = MinProductTime
      /\ Duration' = Duration /\ Delay' = Delay
      /\ SuperEvery' = SuperEvery /\ MaxFrames' = MaxFrames
      /\ Entries' = Entries /\ Frames' = Frames
      /\ \A k : Iteration(k)' = Iteration(k)
  BY <1>1, SettingsKept
<1>3. Now' = Now /\ NowIteration' = NowIteration
  BY <1>1, <1>2 DEF Now, NowIteration, Iteration
<1>4. Typed'
  <2>1. Times' = Times
    BY DEF Times
  <2> QED BY <1>1, <1>2, <1>3, <2>1 DEF IInv, Typed
<1>5. \A e, k : /\ IsReactant(e, k)' <=> IsReactant(e, k)
                /\ IsProduct(e, k)' <=> IsProduct(e, k)
                /\ IsForbidden(e, k)' <=> IsForbidden(e, k)
                /\ HasProduct(e, k)' <=> HasProduct(e, k)
                /\ HasReactant(e, k)' <=> HasReactant(e, k)
  BY <1>1 DEF IsReactant, IsProduct, IsForbidden, HasProduct, HasReactant, Members
<1>6. \A e, k : LastEndBefore(e, k)' = LastEndBefore(e, k)
  BY <1>5 DEF LastEndBefore
<1>7. \A e, k : StaysBefore(e, k)' = StaysBefore(e, k)
  BY <1>5, <1>6 DEF StaysBefore
<1>8. \A e : Reactions(e)' = Reactions(e)
  BY <1>1, <1>2, <1>5, <1>7 DEF Reactions
<1>9. \A e : Stays(e)' = Stays(e)
  <2>1. \A e : LastEndBefore(e, Now + 1)' = LastEndBefore(e, Now + 1)
    BY <1>3, <1>5 DEF LastEndBefore, IsProduct, IsForbidden
  <2> QED BY <1>3, <1>5, <2>1 DEF Stays, CountsSince
<1>10. TimesInv'
  <2>1. \A e : IsReactant(e, Now)' <=> IsReactant(e, Now)
    BY <1>1, <1>3 DEF IsReactant
  <2>2. \A e \in Entries : Describes(entered[e], Stays(e))' <=> Describes(entered[e], Stays(e))
    BY <1>1, <1>2, <1>9 DEF Describes
  <2> QED BY <1>1, <1>2, <1>3, <2>1, <2>2 DEF IInv, TimesInv
<1>11. ReportedInv'
  <2>1. \A e, k : ExpectedLine(e, k)' = ExpectedLine(e, k)
    BY <1>2, <1>7 DEF ExpectedLine, LastStayBegins
  <2> QED BY <1>1, <1>2, <1>8, <2>1 DEF IInv, ReportedInv
<1>12. PendingInv'
  <2>1. \A k : FedAt(k)' = FedAt(k)
    BY <1>1, <1>2, <1>8 DEF FedAt
  <2>2. /\ \A k : LeftDuration(Now + 1 - k)' = LeftDuration(Now + 1 - k)
        /\ \A a, k : Aged(a, Now + 1 - k)' = Aged(a, Now + 1 - k)
    BY <1>2, <1>3 DEF LeftDuration, LeftDelay, Aged
  <2>3. GroupFollowsReactions' <=> GroupFollowsReactions
    BY <1>1, <1>2, <1>8 DEF GroupFollowsReactions
  <2> QED BY <1>1, <1>2, <1>3, <2>1, <2>2, <2>3 DEF IInv, PendingInv
<1>13. RingInv'
  <2>1. \A a, j : Slot(a, j)' = Slot(a, j)
    BY <1>1, <1>2 DEF Slot, Members
  <2> QED BY <1>1, <1>2, <1>3, <2>1 DEF IInv, RingInv
<1>14. WindowInv'
  <2>1. EveryFrame' <=> EveryFrame
    BY <1>2 DEF EveryFrame
  <2>2. \A t : Outstanding(t)' <=> Outstanding(t)
    BY <1>2, <1>3, <1>8 DEF Outstanding
  <2>3. WindowsAveraged' <=> WindowsAveraged
    <3>1. \A e, T, k : BinFrame(T, k)' = BinFrame(T, k)
      BY <1>2 DEF BinFrame
    <3>2. \A e, T : ExpectedBins(e, T)' = ExpectedBins(e, T)
      <4>1. \A e, T, k : /\ HasProduct(e, BinFrame(T, k))' <=> HasProduct(e, BinFrame(T, k))
                         /\ HasReactant(e, BinFrame(T, k))' <=> HasReactant(e, BinFrame(T, k))
                         /\ Iteration(BinFrame(T, k))' = Iteration(BinFrame(T, k))
        BY <1>1, <1>2, <3>1 DEF HasProduct, HasReactant, Members, Iteration
      <4> QED BY <1>2, <4>1 DEF ExpectedBins, Skipped
    <3>3. \A e : AllAveraged(e)' = AllAveraged(e)
      <4> DEFINE G(T) == {BinFrame(T, k) : k \in Ring}
                 H(T) == {BinFrame(T, k)' : k \in Ring'}
      <4>1. \A T : H(T) = G(T)
        BY <1>2, <3>1
      <4>2. \A e, T : {j \in H(T) : HasProduct(e, j)'} = {j \in G(T) : HasProduct(e, j)}
        <5> HIDE DEF G, H
        <5> QED BY <1>5, <4>1
      <4>3. \A e : AllAveraged(e) =
              {T \in Reactions(e) \cap (BeforeTime + 2 .. MaxFrames) :
                 /\ G(T) \subseteq 1 .. Len(trajectory)
                 /\ \A j \in G(T) : e.atom \notin trajectory[j].unbonded
                 /\ ProductMustBe /\ MinProductTime > 0 =>
                      Cardinality({j \in G(T) : HasProduct(e, j)}) >= MinProductTime}
        BY DEF AllAveraged, Averaged
      <4>4. \A e : AllAveraged(e)' =
              {T \in Reactions(e)' \cap (BeforeTime' + 2 .. MaxFrames') :
                 /\ H(T) \subseteq 1 .. Len(trajectory')
                 /\ \A j \in H(T) : e.atom \notin trajectory'[j].unbonded
                 /\ ProductMustBe' /\ MinProductTime' > 0 =>
                      Cardinality({j \in H(T) : HasProduct(e, j)'}) >= MinProductTime'}
        BY DEF AllAveraged, Averaged
      <4> HIDE DEF G, H
      <4> QED BY <1>1, <1>2, <1>8, <4>1, <4>2, <4>3, <4>4
    <3>4. \A e, T : Addition(e, T)' = Addition(e, T)
      BY <1>2, <3>2 DEF Addition
    <3>5. /\ WindowsAveraged <=> histogram = UNION {{Addition(e, k) : k \in AllAveraged(e)} : e \in Entries}
          /\ WindowsAveraged' <=> histogram' = UNION {{Addition(e, k)' : k \in AllAveraged(e)'} : e \in Entries'}
      BY DEF WindowsAveraged, ExpectedHistogram, Addition, AllAveraged
    <3> QED BY <1>1, <1>2, <3>3, <3>4, <3>5
  <2> QED BY <1>1, <1>2, <2>1, <2>2, <2>3 DEF IInv, WindowInv
<1> QED BY <1>4, <1>10, <1>11, <1>12, <1>13, <1>14 DEF IInv

(* What the variables hold follows from the trajectory, at every frame.    *)
THEOREM Invariance == Spec => []IInv
<1>1. IInv /\ [Next]_vars => IInv'
  <2>1. ASSUME IInv, Next PROVE IInv'
    <3>1. PICK f \in Frames : Frame(f)
      BY <2>1 DEF Next
    <3>2. Now < MaxFrames
      BY <2>1 DEF Next, Now
    <3>3. Typed /\ TimesInv /\ ReportedInv /\ PendingInv /\ RingInv /\ WindowInv
      BY <2>1 DEF IInv
    <3>4. RingInv'
      BY <3>1, <3>3, RingStep
    <3>5. Typed' /\ TimesInv'
      BY <3>1, <3>2, <3>3, TypedStep, TimesStep
    <3>6. ReportedInv' /\ PendingInv'
      BY <3>1, <3>3, ReportedStep, PendingStep
    <3>7. WindowInv'
      BY <3>1, <3>2, <3>3, <3>4, WindowStep
    <3> QED BY <3>4, <3>5, <3>6, <3>7 DEF IInv
  <2>2. ASSUME IInv, UNCHANGED vars PROVE IInv'
    BY <2>2, StutterInv
  <2> QED BY <2>1, <2>2
<1> QED BY <1>1, InitInv, PTL DEF Spec

(* ChangeGroupTime prints one line for each reaction of the trajectory and *)
(* no other, with the first, the continuous and the last time as a         *)
(* reactant (actionchangegrouptime.cpp), and the variables of the three    *)
(* actions keep their types: for any options, atoms and frames.            *)
THEOREM ReactionsReported == Spec => []ReportsReactions
<1>1. IInv => ReportsReactions
  <2> SUFFICES ASSUME IInv PROVE ReportsReactions
    OBVIOUS
  <2>1. /\ settings \in Settings /\ Len(trajectory) \in Nat /\ Len(trajectory) = Now
        /\ \A k \in 1 .. Len(trajectory) : k \in Nat \ {0}
    BY LenProperties DEF IInv, Typed, Now
  <2>2. NowIteration \in Nat
    <3>1. trajectory = <<>> \/ Len(trajectory) \in Nat \ {0}
      BY <2>1, EmptySeq DEF IInv, Typed
    <3> QED BY <2>1, <3>1, IterationFacts DEF NowIteration
  <2>3. ASSUME NEW e \in Entries
        PROVE  /\ 0 <= entered[e].first /\ entered[e].first <= entered[e].continuous
               /\ entered[e].continuous <= entered[e].last /\ entered[e].last <= NowIteration
    <3>1. /\ entered[e] \in Times /\ Describes(entered[e], Stays(e)) /\ entered[e].last <= NowIteration
      BY DEF IInv, Typed, TimesInv
    <3>2. Stays(e) \in SUBSET (1 .. Now) /\ Stays(e) \in SUBSET (Nat \ {0})
      <4>1. Stays(e) \in SUBSET (1 .. Now)
        BY <2>1, StaysFacts DEF IInv
      <4> QED BY <2>1, <4>1
    <3>3. /\ entered[e].first > 0 <=> Stays(e) # {}
          /\ Stays(e) # {} => entered[e].first <= entered[e].continuous /\ entered[e].continuous <= entered[e].last
      BY <2>1, <3>1, <3>2, DescribedTimes
    <3>4. Stays(e) = {} => entered[e].first = 0 /\ entered[e].continuous = 0
      BY <3>1 DEF Describes
    <3>5. entered[e].first \in Nat /\ entered[e].continuous \in Nat /\ entered[e].last \in Nat
      BY <3>1 DEF Times
    <3> QED BY <3>1, <3>3, <3>4, <3>5
  <2>4. \A a \in Atoms, k \in Ring : saved[a][k].data \in 0 .. NowIteration
    <3>1. saved \in [Atoms -> [Ring -> [data : 0 .. NowIteration, isProduct : BOOLEAN, isReactant : BOOLEAN]]]
      BY DEF IInv, Typed
    <3>2. \A a \in Atoms, k \in Ring :
            saved[a][k] \in [data : 0 .. NowIteration, isProduct : BOOLEAN, isReactant : BOOLEAN]
      BY <3>1
    <3> QED BY <3>2
  <2>5. /\ memberBefore \in [Entries -> BOOLEAN] /\ saveCount = Len(trajectory)
        /\ toDo \subseteq [entry : Entries, time : 1 .. NowIteration + AfterTime]
        /\ pending \subseteq [atom : Atoms, duration : 1 .. Duration, delay : 0 .. Delay]
        /\ group \subseteq Atoms
    BY DEF IInv, Typed, Now
  <2>6. TypeOK
    BY <2>3, <2>4, <2>5 DEF TypeOK, NowIteration
  <2>7. reported = UNION {{ExpectedLine(e, k) : k \in Reactions(e)} : e \in Entries}
    BY DEF IInv, ReportedInv
  <2> QED BY <2>6, <2>7 DEF ReportsReactions
<1> QED BY <1>1, Invariance, PTL

(* The group of WhenGroupChangedDefineGroup holds an atom from Delay       *)
(* frames after it was fed in, for Duration frames                         *)
(* (actionwhengroupchangeddefinegroup.cpp).  With a Duration of 0 an       *)
(* element without a Delay is in the group once all the same.              *)
THEOREM GroupFollows == Spec => [](Duration > 0 => GroupFollowsReactions)
<1>1. IInv => (Duration > 0 => GroupFollowsReactions)
  BY DEF IInv, PendingInv
<1> QED BY <1>1, Invariance, PTL

(* When every frame is used and the window ends after the reaction, the    *)
(* histogram of WhenGroupChanged holds the complete windows around the     *)
(* reactions, each frame in its own bin, and nothing else                  *)
(* (actionwhengroupchanged.cpp).                                           *)
THEOREM WindowsAreAveraged == Spec => [](SuperEvery = 1 /\ AfterTime > 0 => WindowsAveraged)
<1>1. IInv => (SuperEvery = 1 /\ AfterTime > 0 => WindowsAveraged)
  BY DEF IInv, WindowInv, EveryFrame
<1> QED BY <1>1, Invariance, PTL

(* What the run with every second frame refutes holds when every frame is  *)
(* used: each bin is at its own distance from the reaction.                *)
THEOREM BinsAreAligned == Spec => [](SuperEvery = 1 /\ AfterTime > 0 => BinsAligned)
<1>1. IInv => (SuperEvery = 1 /\ AfterTime > 0 => BinsAligned)
  <2> SUFFICES ASSUME IInv, EveryFrame, NEW h \in histogram, NEW k \in Ring
               PROVE  h.bins[k] \in {Skipped, h.time - AfterTime + (k - BeforeTime) * SuperEvery}
    BY DEF EveryFrame, BinsAligned
  <2>1. settings \in Settings /\ BeforeTime \in Nat /\ AfterTime \in Nat /\ MaxFrames \in Nat
        /\ SuperEvery = 1 /\ k \in Int
    BY SettingFacts DEF IInv, Typed, EveryFrame, Ring
  <2>2. histogram = UNION {{Addition(e, T) : T \in AllAveraged(e)} : e \in Entries}
    BY DEF IInv, WindowInv, WindowsAveraged, ExpectedHistogram, Addition, AllAveraged
  <2>3. PICK e \in Entries : \E T \in AllAveraged(e) : h = Addition(e, T)
    BY <2>2
  <2>4. PICK T \in AllAveraged(e) : h = Addition(e, T)
    BY <2>3
  <2>5. T \in BeforeTime + 2 .. MaxFrames
    BY DEF AllAveraged, Averaged
  <2>6. \A j \in Nat \ {0} : Iteration(j) = j
    BY <2>1, IterationFacts
  <2>7. T \in Nat \ {0} /\ T - BeforeTime + k \in Nat \ {0}
    <3>1. k \in Nat
      BY DEF Ring
    <3> QED BY <2>1, <2>5, <3>1
  <2>8. h.time = T + AfterTime
    BY <2>4, <2>6, <2>7 DEF Addition
  <2>9. h.bins[k] \in {Skipped, T - BeforeTime + k}
    <3>1. Iteration(BinFrame(T, k)) = T - BeforeTime + k
      BY <2>6, <2>7 DEF BinFrame
    <3>2. h.bins = ExpectedBins(e, T)
      BY <2>4 DEF Addition
    <3> QED BY <3>1, <3>2 DEF ExpectedBins
  <2>10. h.time - AfterTime + (k - BeforeTime) * SuperEvery = T - BeforeTime + k
    BY <2>1, <2>7, <2>8
  <2> QED BY <2>9, <2>10
<1> QED BY <1>1, Invariance, PTL

=============================================================================
