------------------------- MODULE ResidenceTimes_proofs -------------------------
(***************************************************************************)
(* What the two families of commands have counted, for every window, every *)
(* trajectory and all settings.                                            *)
(***************************************************************************)
EXTENDS ResidenceTimes, TTCF_proofs

(* One value per lag, and what is kept of a frame.                         *)
Results   == [Lags -> [value : Nat, count : Nat]]
Seens     == [bond : BOOLEAN, products : {"none", "member", "bond"}, identity : BOOLEAN]
Entries   == [in1 : BOOLEAN, in2 : BOOLEAN, care : BOOLEAN]

(* What the origins lo .. hi in G have added, as far as their partners are *)
(* not later than frame last.  H are the origins and lags at which what is *)
(* asked of an origin holds.                                               *)
Counted(lo, hi, last, G, H) ==
  [lag \in Lags |->
     [value |-> Cardinality({o \in lo .. hi : o + lag <= last /\ o \in G /\ <<o, lag>> \in H}),
      count |-> Cardinality({o \in lo .. hi : o + lag <= last /\ o \in G})]]

(* What one origin adds.                                                   *)
Contribution(o, last, G, H) ==
  [lag \in Lags |->
     IF o + lag > last \/ o \notin G THEN [value |-> 0, count |-> 0]
     ELSE [value |-> IF <<o, lag>> \in H THEN 1 ELSE 0, count |-> 1]]

LEMMA LagFacts == MaxTime \in Nat \ {0} /\ Lags \subseteq Nat /\ \A lag \in Lags : lag \in 0 .. MaxTime - 1
  BY MaxTimeAssumption DEF Lags

LEMMA NextOrigin ==
  ASSUME NEW lo \in Int, NEW hi \in Int, NEW last \in Int, NEW G, NEW H, lo <= hi + 1
  PROVE  Plus(Counted(lo, hi, last, G, H), Contribution(hi + 1, last, G, H))
           = Counted(lo, hi + 1, last, G, H)
<1> DEFINE A(lag, h) == {o \in lo .. h : o + lag <= last /\ o \in G}
           B(lag, h) == {o \in lo .. h : o + lag <= last /\ o \in G /\ <<o, lag>> \in H}
           added == Contribution(hi + 1, last, G, H)
<1>1. ASSUME NEW lag \in Lags
      PROVE  /\ Cardinality(A(lag, hi)) + added[lag].count = Cardinality(A(lag, hi + 1))
             /\ Cardinality(B(lag, hi)) + added[lag].value = Cardinality(B(lag, hi + 1))
  <2>1. /\ IsFiniteSet(lo .. hi) /\ A(lag, hi) \subseteq lo .. hi /\ B(lag, hi) \subseteq lo .. hi
    BY FS_Interval
  <2>2. /\ IsFiniteSet(A(lag, hi)) /\ IsFiniteSet(B(lag, hi))
        /\ Cardinality(A(lag, hi)) \in Nat /\ Cardinality(B(lag, hi)) \in Nat
    BY <2>1, FS_Subset, FS_CardinalityType
  <2>3. hi + 1 \notin A(lag, hi) /\ hi + 1 \notin B(lag, hi)
    OBVIOUS
  <2>4. /\ A(lag, hi + 1) = IF hi + 1 + lag > last \/ hi + 1 \notin G THEN A(lag, hi)
                           ELSE A(lag, hi) \cup {hi + 1}
        /\ B(lag, hi + 1) = IF hi + 1 + lag > last \/ hi + 1 \notin G \/ <<hi + 1, lag>> \notin H
                           THEN B(lag, hi) ELSE B(lag, hi) \cup {hi + 1}
    <3>1. lag \in Nat
      BY LagFacts
    <3>2. \A o \in lo .. hi + 1 : o = hi + 1 \/ o \in lo .. hi
      OBVIOUS
    <3>3. \A o \in lo .. hi : o \in lo .. hi + 1
      OBVIOUS
    <3>4. hi + 1 \in lo .. hi + 1
      OBVIOUS
    <3>5. ~(hi + 1 + lag > last) <=> hi + 1 + lag <= last
      BY <3>1
    <3> QED BY <3>2, <3>3, <3>4, <3>5
  <2> HIDE DEF A, B
  <2>5. /\ Cardinality(A(lag, hi) \cup {hi + 1}) = Cardinality(A(lag, hi)) + 1
        /\ Cardinality(B(lag, hi) \cup {hi + 1}) = Cardinality(B(lag, hi)) + 1
    BY <2>2, <2>3, FS_AddElement
  <2>6. added[lag] = IF hi + 1 + lag > last \/ hi + 1 \notin G THEN [value |-> 0, count |-> 0]
                     ELSE [value |-> IF <<hi + 1, lag>> \in H THEN 1 ELSE 0, count |-> 1]
    BY DEF Contribution
  <2> HIDE DEF added
  <2>7. CASE hi + 1 + lag > last \/ hi + 1 \notin G
    BY <2>2, <2>4, <2>6, <2>7
  <2>8. CASE ~(hi + 1 + lag > last \/ hi + 1 \notin G)
    BY <2>2, <2>4, <2>5, <2>6, <2>8, SMTT(30)
  <2> QED BY <2>7, <2>8
<1>2. \A h : Counted(lo, h, last, G, H)
        = [lag \in Lags |-> [value |-> Cardinality(B(lag, h)), count |-> Cardinality(A(lag, h))]]
  BY DEF Counted
<1> HIDE DEF A, B, added
<1> QED BY <1>1, <1>2 DEF Plus, added

LEMMA NoOrigins ==
  ASSUME NEW lo \in Int, NEW hi \in Int, NEW last, NEW G, NEW H, hi < lo
  PROVE  Counted(lo, hi, last, G, H) = Zero
<1>1. lo .. hi = {}
  OBVIOUS
<1> QED BY <1>1, FS_EmptySet DEF Counted, Zero

LEMMA CountedTyped ==
  ASSUME NEW lo \in Int, NEW hi \in Int, NEW last, NEW G, NEW H
  PROVE  Counted(lo, hi, last, G, H) \in Results
<1>1. \A T \in SUBSET (lo .. hi) : Cardinality(T) \in Nat
  BY FS_Interval, FS_Subset, FS_CardinalityType
<1>2. ASSUME NEW lag \in Lags
      PROVE  /\ {o \in lo .. hi : o + lag <= last /\ o \in G} \in SUBSET (lo .. hi)
             /\ {o \in lo .. hi : o + lag <= last /\ o \in G /\ <<o, lag>> \in H} \in SUBSET (lo .. hi)
  OBVIOUS
<1> QED BY <1>1, <1>2 DEF Counted, Results

(* The sets may differ where no origin is looked at, and the last frame    *)
(* where it is no limit.                                                   *)
LEMMA SameCounted ==
  ASSUME NEW lo \in Int, NEW hi \in Int, NEW last \in Int, NEW m \in Int,
         NEW G, NEW H, NEW G2, NEW H2,
         \A lag \in Lags, o \in lo .. hi : o + lag <= last <=> o + lag <= m,
         \A lag \in Lags, o \in lo .. hi :
           o + lag <= last => /\ o \in G <=> o \in G2
                              /\ o \in G => (<<o, lag>> \in H <=> <<o, lag>> \in H2)
  PROVE  Counted(lo, hi, last, G, H) = Counted(lo, hi, m, G2, H2)
<1>1. ASSUME NEW lag \in Lags
      PROVE  /\ {o \in lo .. hi : o + lag <= last /\ o \in G}
                  = {o \in lo .. hi : o + lag <= m /\ o \in G2}
             /\ {o \in lo .. hi : o + lag <= last /\ o \in G /\ <<o, lag>> \in H}
                  = {o \in lo .. hi : o + lag <= m /\ o \in G2 /\ <<o, lag>> \in H2}
  OBVIOUS
<1> QED BY <1>1 DEF Counted

(* Two functions that begin alike and go on alike are alike.               *)
LEMMA Agree ==
  ASSUME NEW n \in Nat, NEW u, NEW w, u[0] = w[0],
         \A k \in 1 .. n : u[k - 1] = w[k - 1] => u[k] = w[k]
  PROVE  \A k \in 0 .. n : u[k] = w[k]
<1> DEFINE S == {k \in 0 .. n : u[k] # w[k]}
<1>1. ASSUME NEW k \in S, \A x \in S : k <= x
      PROVE  FALSE
  <2>1. k \in 1 .. n /\ k - 1 \in 0 .. n /\ k - 1 \notin S
    BY <1>1
  <2> QED BY <1>1, <2>1
<1>2. S = {}
  <2>1. S \in SUBSET Nat
    OBVIOUS
  <2> HIDE DEF S
  <2> QED BY <1>1, <2>1, LeastElement
<1> QED BY <1>2

-----------------------------------------------------------------------------
(* The window of the old action.                                           *)

(* The window s holds the latest of the frames h.                          *)
Latest(s, h) ==
  /\ Len(s) <= Len(h)
  /\ \A k \in 1 .. Len(s) : s[k] = AddToTCF(h[Len(h) - Len(s) + k])

LEMMA AddedTyped ==
  ASSUME NEW f \in Seens
  PROVE  AddToTCF(f) \in Entries /\ Changed(f) \in BOOLEAN
<1>1. f.bond \in BOOLEAN /\ f.identity \in BOOLEAN
  BY DEF Seens
<1> QED BY <1>1 DEF AddToTCF, Changed, Entries

LEMMA SeenTyped == Seen \subseteq Seens
<1>1. ASSUME NEW f \in Seen
      PROVE  f \in Seens
  <2>1. f.bond \in BOOLEAN /\ f.identity \in BOOLEAN
    BY DEF Seen
  <2>2. f.products \in {"none", "member", "bond"}
    BY DEF Seen
  <2>3. f = [bond |-> f.bond, products |-> f.products, identity |-> f.identity]
    BY DEF Seen
  <2> QED BY <2>1, <2>2, <2>3 DEF Seens
<1> QED BY <1>1

LEMMA AppendLatest ==
  ASSUME NEW h \in Seq(Seens), NEW s \in Seq(Entries), NEW f \in Seens, Latest(s, h)
  PROVE  LET t == Append(s, AddToTCF(f))
             g == Append(h, f)
         IN /\ g \in Seq(Seens) /\ Len(g) = Len(h) + 1
            /\ t \in Seq(Entries) /\ Len(t) = Len(s) + 1
            /\ Latest(t, g)
            /\ \A k \in 1 .. Len(h) : g[k] = h[k]
<1> DEFINE a == AddToTCF(f)
           t == Append(s, a)
           g == Append(h, f)
<1>1. a \in Entries
  BY AddedTyped
<1> HIDE DEF a
<1>2. /\ g \in Seq(Seens) /\ Len(g) = Len(h) + 1 /\ g[Len(h) + 1] = f
      /\ t \in Seq(Entries) /\ Len(t) = Len(s) + 1 /\ t[Len(s) + 1] = a
      /\ \A k \in 1 .. Len(h) : g[k] = h[k]
      /\ \A k \in 1 .. Len(s) : t[k] = s[k]
      /\ Len(h) \in Nat /\ Len(s) \in Nat
  BY <1>1
<1> HIDE DEF t, g
<1>3. ASSUME NEW k \in 1 .. Len(t)
      PROVE  t[k] = AddToTCF(g[Len(g) - Len(t) + k])
  <2>1. CASE k = Len(s) + 1
    BY <1>2, <2>1 DEF a
  <2>2. CASE k # Len(s) + 1
    <3>1. k \in 1 .. Len(s)
      BY <1>2, <2>2
    <3>2. Len(h) - Len(s) + k \in 1 .. Len(h) /\ Len(g) - Len(t) + k = Len(h) - Len(s) + k
      BY <1>2, <3>1 DEF Latest
    <3> QED BY <1>2, <3>1, <3>2 DEF Latest
  <2> QED BY <2>1, <2>2
<1>4. Len(t) <= Len(g)
  BY <1>2 DEF Latest
<1> QED BY <1>2, <1>3, <1>4 DEF Latest, t, g, a

LEMMA TrimmedLatest ==
  ASSUME NEW h \in Seq(Seens), NEW s \in Seq(Entries), Latest(s, h), NEW m \in 0 .. Len(s)
  PROVE  LET w == SubSeq(s, Len(s) - m + 1, Len(s))
         IN w \in Seq(Entries) /\ Len(w) = m /\ Latest(w, h)
<1> DEFINE L == Len(s)
           w == SubSeq(s, L - m + 1, L)
<1>1. L \in Nat /\ m \in Nat /\ m <= L /\ Len(h) \in Nat
  OBVIOUS
<1>2. w \in Seq(Entries) /\ Len(w) = m /\ \A k \in 1 .. m : w[k] = s[L - m + k]
  <2>1. L - m + 1 \in 1 .. L + 1 /\ L \in L - m + 1 - 1 .. L
    BY <1>1
  <2>2. L - (L - m + 1) + 1 = m /\ \A k \in 1 .. m : L - m + 1 + k - 1 = L - m + k
    BY <1>1
  <2> HIDE DEF L
  <2>3. Len(w) = L - (L - m + 1) + 1
    BY <2>1, SubSeqProperties DEF L
  <2>4. w \in Seq(Entries) /\ \A k \in 1 .. L - (L - m + 1) + 1 : w[k] = s[L - m + 1 + k - 1]
    BY <2>1, SubSeqProperties DEF L
  <2> QED BY <2>2, <2>3, <2>4
<1> HIDE DEF w
<1>3. ASSUME NEW k \in 1 .. m
      PROVE  w[k] = AddToTCF(h[Len(h) - m + k])
  <2>1. L - m + k \in 1 .. L /\ Len(h) - L + (L - m + k) = Len(h) - m + k
    BY <1>1
  <2> QED BY <1>2, <2>1 DEF Latest
<1>4. m <= Len(h)
  BY <1>1 DEF Latest
<1> QED BY <1>2, <1>3, <1>4 DEF Latest, w

(* tidyInData: more than mTidyOld times MaxTime frames become MaxTime.     *)
TooLong(s) == settings.tidyOld > 0 /\ Len(s) > settings.tidyOld * MaxTime

LEMMA TidyBound ==
  ASSUME settings \in Settings
  PROVE  settings.tidyOld \in Int /\ settings.tidyOld * MaxTime \in Int
         /\ (settings.tidyOld > 0 => settings.tidyOld * MaxTime >= MaxTime)
<1>1. settings.tidyOld \in Int /\ MaxTime \in Nat \ {0}
  BY SettingsAssumption, MaxTimeAssumption
<1>2. ASSUME settings.tidyOld > 0 PROVE settings.tidyOld * MaxTime >= MaxTime
  <2>1. settings.tidyOld * MaxTime = MaxTime + (settings.tidyOld - 1) * MaxTime
    BY <1>1
  <2>2. (settings.tidyOld - 1) * MaxTime >= 0
    BY <1>1, <1>2
  <2>3. (settings.tidyOld - 1) * MaxTime \in Int
    BY <1>1
  <2> QED BY <1>1, <2>1, <2>2, <2>3
<1> QED BY <1>1, <1>2

LEMMA TidiedOldWindow ==
  ASSUME settings \in Settings, NEW h \in Seq(Seens), NEW s \in Seq(Entries), Latest(s, h)
  PROVE  LET w == TidiedOld(s)
         IN /\ w \in Seq(Entries) /\ Latest(w, h)
            /\ TooLong(s) => Len(w) = MaxTime
            /\ ~TooLong(s) => w = s
<1>1. MaxTime \in Nat \ {0}
  BY MaxTimeAssumption
<1>2. CASE TooLong(s)
  <2>1. Len(s) > MaxTime
    BY <1>1, <1>2, TidyBound DEF TooLong
  <2>2. GetMaxDTOld(s) = MaxTime - 1
    BY <1>1, <2>1 DEF GetMaxDTOld
  <2>3. TidiedOld(s) = SubSeq(s, Len(s) - (MaxTime - 1), Len(s))
    BY <1>2, <2>2 DEF TidiedOld, TooLong
  <2>4. Len(s) - (MaxTime - 1) = Len(s) - MaxTime + 1 /\ MaxTime \in 0 .. Len(s)
    BY <1>1, <2>1
  <2> QED BY <1>2, <2>3, <2>4, TrimmedLatest
<1>3. CASE ~TooLong(s)
  BY <1>3 DEF TidiedOld, TooLong
<1> QED BY <1>2, <1>3

-----------------------------------------------------------------------------
(* ResidenceTimeSSP: one origin.                                           *)

Bonds(h) == {o \in 1 .. Len(h) : h[o].bond}

HasReacted(f) == f.products = "bond" \/ Changed(f)

(* The origins of h that have not reacted at some lag.                     *)
Unreacteds(h) ==
  {p \in (1 .. Len(h)) \X Lags : \A f \in p[1] .. p[1] + p[2] : ~HasReacted(h[f])}

LEMMA FormedAt ==
  ASSUME NEW s \in Seq(Entries), NEW x \in 1 .. Len(s), NEW maxdt \in Nat, x + maxdt <= Len(s)
  PROVE  CorrelateSSP(s, x, maxdt) =
           [lag \in Lags |->
              IF lag > maxdt \/ ~s[x].in1 \/ ~s[x].care THEN [value |-> 0, count |-> 0]
              ELSE [value |-> IF \E d \in 0 .. lag : s[x + d].in2 THEN 0 ELSE 1, count |-> 1]]
<1> DEFINE Body(u) == [dt \in 0 .. maxdt |-> s[x + dt].in2 \/ (dt > 0 /\ u[dt - 1])]
           w == [dt \in 0 .. maxdt |-> \E d \in 0 .. dt : s[x + d].in2]
           formed == CHOOSE u : u = Body(u)
<1>1. w = Body(w)
  <2>1. ASSUME NEW dt \in 0 .. maxdt
        PROVE  w[dt] = (s[x + dt].in2 \/ (dt > 0 /\ w[dt - 1]))
    <3>1. x + dt \in 1 .. Len(s)
      OBVIOUS
    <3>2. s[x + dt] \in Entries
      BY <3>1
    <3>3. s[x + dt].in2 \in BOOLEAN
      BY <3>2 DEF Entries
    <3>4. w[dt] = \E d \in 0 .. dt : s[x + d].in2
      OBVIOUS
    <3>5. dt > 0 => w[dt - 1] = \E d \in 0 .. dt - 1 : s[x + d].in2
      <4>1. dt > 0 => dt - 1 \in 0 .. maxdt
        OBVIOUS
      <4> QED BY <4>1
    <3> HIDE DEF w
    <3>6. dt \in 0 .. dt /\ \A d \in 0 .. dt : d = dt \/ (dt > 0 /\ d \in 0 .. dt - 1)
      OBVIOUS
    <3>7. \A d \in 0 .. dt - 1 : d \in 0 .. dt
      OBVIOUS
    <3>8. (\E d \in 0 .. dt : s[x + d].in2)
            <=> (s[x + dt].in2 \/ (dt > 0 /\ \E d \in 0 .. dt - 1 : s[x + d].in2))
      BY <3>6, <3>7, Zenon
    <3> QED BY <3>4, <3>5, <3>8, Zenon
  <2>2. w = [dt \in 0 .. maxdt |-> w[dt]]
    OBVIOUS
  <2> HIDE DEF w
  <2> QED BY <2>1, <2>2
<1>2. formed = Body(formed)
  <2> HIDE DEF w, Body
  <2> QED BY <1>1
<1>3. \A dt \in 0 .. maxdt : formed[dt] = w[dt]
  <2> HIDE DEF formed
  <2>1. \A dt \in 0 .. maxdt : formed[dt] = (s[x + dt].in2 \/ (dt > 0 /\ formed[dt - 1]))
    BY <1>2
  <2>2. \A dt \in 0 .. maxdt : w[dt] = (s[x + dt].in2 \/ (dt > 0 /\ w[dt - 1]))
    <3> HIDE DEF w
    <3> QED BY <1>1
  <2> HIDE DEF w
  <2>3. formed[0] = w[0]
    <3>1. 0 \in 0 .. maxdt /\ (0 > 0) = FALSE
      OBVIOUS
    <3>2. formed[0] = (s[x + 0].in2 \/ FALSE)
      BY <2>1, <3>1
    <3>3. w[0] = (s[x + 0].in2 \/ FALSE)
      BY <2>2, <3>1
    <3> QED BY <3>2, <3>3
  <2>4. ASSUME NEW k \in 1 .. maxdt, formed[k - 1] = w[k - 1]
        PROVE  formed[k] = w[k]
    <3>1. k \in 0 .. maxdt
      OBVIOUS
    <3>2. formed[k] = (s[x + k].in2 \/ (k > 0 /\ formed[k - 1]))
      BY <2>1, <3>1
    <3>3. w[k] = (s[x + k].in2 \/ (k > 0 /\ w[k - 1]))
      BY <2>2, <3>1
    <3> QED BY <2>4, <3>2, <3>3
  <2>5. \A k \in 1 .. maxdt : formed[k - 1] = w[k - 1] => formed[k] = w[k]
    BY <2>4
  <2> HIDE DEF formed
  <2> QED BY <2>3, <2>5, Agree, ZenonT(60)
<1>4. CorrelateSSP(s, x, maxdt) =
        [lag \in Lags |->
           IF lag > maxdt \/ ~s[x].in1 \/ ~s[x].care THEN [value |-> 0, count |-> 0]
           ELSE [value |-> IF formed[lag] THEN 0 ELSE 1, count |-> 1]]
  BY DEF CorrelateSSP
<1> HIDE DEF formed
<1>5. ASSUME NEW lag \in Lags, ~(lag > maxdt)
      PROVE  formed[lag] <=> \E d \in 0 .. lag : s[x + d].in2
  <2>1. lag \in 0 .. maxdt
    BY <1>5, LagFacts
  <2> QED BY <1>3, <2>1
<1> QED BY <1>4, <1>5

(* An origin of the window counts once at every lag the window reaches.    *)
LEMMA SSPContribution ==
  ASSUME settings \in Settings, settings.otherwise = "product",
         NEW h \in Seq(Seens), NEW s \in Seq(Entries), Latest(s, h), NEW x \in 1 .. Len(s)
  PROVE  CorrelateSSP(s, x, Len(s) - x)
           = Contribution(Len(h) - Len(s) + x, Len(h), Bonds(h), Unreacteds(h))
<1> DEFINE o == Len(h) - Len(s) + x
<1>1. Len(s) \in Nat /\ Len(h) \in Nat /\ Len(s) <= Len(h) /\ Len(s) - x \in Nat
  BY DEF Latest
<1>2. o \in 1 .. Len(h)
  BY <1>1
<1>3. ASSUME NEW d \in 0 .. Len(s) - x
      PROVE  s[x + d] = AddToTCF(h[o + d])
  <2>1. x + d \in 1 .. Len(s) /\ Len(h) - Len(s) + (x + d) = o + d
    BY <1>1
  <2> QED BY <2>1 DEF Latest
<1> HIDE DEF o
<1>4. s[x] = AddToTCF(h[o])
  <2>1. 0 \in 0 .. Len(s) - x /\ x + 0 = x /\ o + 0 = o
    BY <1>1, <1>2
  <2> QED BY <1>3, <2>1
<1>5. s[x].care /\ (s[x].in1 <=> o \in Bonds(h))
  <2>1. s[x].in1 = h[o].bond /\ s[x].care = ~(Changed(h[o]) /\ settings.otherwise = "uncare")
    BY <1>4 DEF AddToTCF
  <2>2. settings.otherwise # "uncare"
    OBVIOUS
  <2>3. s[x].care
    BY <2>1, <2>2, Zenon
  <2>4. h[o].bond <=> o \in Bonds(h)
    BY <1>2 DEF Bonds
  <2> QED BY <2>1, <2>3, <2>4, Zenon
<1>6. ASSUME NEW lag \in Lags, lag <= Len(s) - x
      PROVE  (\E d \in 0 .. lag : s[x + d].in2) <=> <<o, lag>> \notin Unreacteds(h)
  <2>1. lag \in Nat /\ lag \in 0 .. Len(s) - x
    BY <1>6, LagFacts
  <2>2. \A d \in 0 .. lag : s[x + d].in2 <=> HasReacted(h[o + d])
    <3>1. \A d \in 0 .. lag : d \in 0 .. Len(s) - x
      BY <1>1, <2>1
    <3>2. ASSUME NEW d \in 0 .. lag
          PROVE  s[x + d].in2 <=> HasReacted(h[o + d])
      <4>1. s[x + d] = AddToTCF(h[o + d])
        BY <1>3, <3>1
      <4>2. s[x + d].in2 = (h[o + d].products = "bond" \/ Changed(h[o + d]))
        BY <4>1 DEF AddToTCF
      <4> QED BY <4>2, Zenon DEF HasReacted
    <3> QED BY <3>2
  <2>3. <<o, lag>> \in Unreacteds(h) <=> \A f \in o .. o + lag : ~HasReacted(h[f])
    BY <1>2 DEF Unreacteds
  <2>4. (\A f \in o .. o + lag : ~HasReacted(h[f])) <=> \A d \in 0 .. lag : ~HasReacted(h[o + d])
    <3>1. \A f \in o .. o + lag : f - o \in 0 .. lag /\ f = o + (f - o)
      BY <1>2, <2>1
    <3>2. \A d \in 0 .. lag : o + d \in o .. o + lag
      BY <1>2, <2>1
    <3> QED BY <3>1, <3>2
  <2> QED BY <2>2, <2>3, <2>4
<1>7. \A lag \in Lags : lag \in Nat /\ (lag > Len(s) - x <=> o + lag > Len(h))
                         /\ (~(lag > Len(s) - x) <=> lag <= Len(s) - x)
  BY <1>1, LagFacts DEF o
<1>8. CorrelateSSP(s, x, Len(s) - x) =
        [lag \in Lags |->
           IF lag > Len(s) - x \/ ~s[x].in1 \/ ~s[x].care THEN [value |-> 0, count |-> 0]
           ELSE [value |-> IF \E d \in 0 .. lag : s[x + d].in2 THEN 0 ELSE 1, count |-> 1]]
  <2>1. x + (Len(s) - x) <= Len(s)
    BY <1>1
  <2> QED BY <1>1, <2>1, FormedAt
<1>9. ASSUME NEW lag \in Lags
      PROVE  (IF lag > Len(s) - x \/ ~s[x].in1 \/ ~s[x].care THEN [value |-> 0, count |-> 0]
              ELSE [value |-> IF \E d \in 0 .. lag : s[x + d].in2 THEN 0 ELSE 1, count |-> 1])
             = (IF o + lag > Len(h) \/ o \notin Bonds(h) THEN [value |-> 0, count |-> 0]
                ELSE [value |-> IF <<o, lag>> \in Unreacteds(h) THEN 1 ELSE 0, count |-> 1])
  <2>1. CASE lag > Len(s) - x \/ ~s[x].in1
    BY <1>5, <1>7, <2>1
  <2>2. CASE ~(lag > Len(s) - x) /\ s[x].in1
    BY <1>5, <1>6, <1>7, <2>2
  <2> QED BY <2>1, <2>2
<1> QED BY <1>8, <1>9 DEF Contribution, o

-----------------------------------------------------------------------------
(* ResidenceTimeSSP: a frame, and the end of the trajectory.               *)

(* The window reaches back to the first frame or holds MaxTime frames.     *)
FarEnough(s, h) == Len(s) = Len(h) \/ Len(s) >= MaxTime

LEMMA CorrelateFrame ==
  ASSUME settings \in Settings, settings.command # "continuous", settings.otherwise = "product",
         NEW h \in Seq(Seens), NEW s \in Seq(Entries), Latest(s, h), FarEnough(s, h),
         NEW out, out = Counted(1, Len(h) - MaxTime, Len(h), Bonds(h), Unreacteds(h))
  PROVE  CorrelateWithLatest(s, out, -1)
           = Counted(1, Len(h) - MaxTime + 1, Len(h), Bonds(h), Unreacteds(h))
<1> DEFINE n == Len(h)
           L == Len(s)
<1>1. n \in Nat /\ L \in Nat /\ L <= n /\ MaxTime \in Nat \ {0} /\ (L = n \/ L >= MaxTime)
  BY MaxTimeAssumption DEF Latest, FarEnough
<1>2. CASE L < MaxTime
  <2>1. GetMaxDTOld(s) = L - 1
    BY <1>2 DEF GetMaxDTOld
  <2>2. L - 1 < MaxTime - 1 /\ -1 \notin 0 .. L - 1 - 1
    BY <1>1, <1>2
  <2>3. CorrelateWithLatest(s, out, -1) = out
    BY <2>1, <2>2 DEF CorrelateWithLatest
  <2>4. n - MaxTime < 1 /\ n - MaxTime + 1 < 1 /\ n - MaxTime \in Int /\ n - MaxTime + 1 \in Int
    BY <1>1, <1>2
  <2>5. out = Zero /\ Counted(1, n - MaxTime + 1, n, Bonds(h), Unreacteds(h)) = Zero
    BY <2>4, NoOrigins
  <2> QED BY <2>3, <2>5
<1>3. CASE L >= MaxTime
  <2>1. GetMaxDTOld(s) = MaxTime - 1
    BY <1>1, <1>3 DEF GetMaxDTOld
  <2>2. /\ ~(MaxTime - 1 < MaxTime - 1) /\ -1 \notin 0 .. MaxTime - 1 - 1
    BY <1>1
  <2>3. CorrelateWithLatest(s, out, -1)
          = Plus(out, CorrelateSSP(s, L - (MaxTime - 1), MaxTime - 1))
    BY <2>1, <2>2 DEF CorrelateWithLatest
  <2>4. /\ L - (MaxTime - 1) \in 1 .. L /\ L - (L - (MaxTime - 1)) = MaxTime - 1
        /\ n - L + (L - (MaxTime - 1)) = (n - MaxTime) + 1
    BY <1>1, <1>3
  <2>5. CorrelateSSP(s, L - (MaxTime - 1), MaxTime - 1)
          = Contribution((n - MaxTime) + 1, n, Bonds(h), Unreacteds(h))
    BY <2>4, SSPContribution
  <2>6. n - MaxTime \in Int /\ n \in Int /\ 1 <= (n - MaxTime) + 1
    BY <1>1, <1>3
  <2> HIDE DEF n, L
  <2>7. Plus(Counted(1, n - MaxTime, n, Bonds(h), Unreacteds(h)),
             Contribution((n - MaxTime) + 1, n, Bonds(h), Unreacteds(h)))
          = Counted(1, (n - MaxTime) + 1, n, Bonds(h), Unreacteds(h))
    BY <2>6, NextOrigin
  <2> QED BY <2>3, <2>5, <2>7 DEF n
<1> QED BY <1>1, <1>2, <1>3

(* One turn of the final loop: the origin lag frames before the end.       *)
LEMMA CorrelateShorter ==
  ASSUME settings \in Settings, settings.command # "continuous", settings.otherwise = "product",
         NEW h \in Seq(Seens), h # <<>>, NEW s \in Seq(Entries), Latest(s, h), FarEnough(s, h),
         NEW lag \in Nat, lag <= MaxTime - 1, Len(h) >= MaxTime => lag <= MaxTime - 2,
         NEW lo, lo = (IF Len(h) < MaxTime THEN 2 ELSE 1),
         NEW out, out = Counted(lo, Len(h) - lag - 1, Len(h), Bonds(h), Unreacteds(h))
  PROVE  CorrelateWithLatest(s, out, lag) = Counted(lo, Len(h) - lag, Len(h), Bonds(h), Unreacteds(h))
<1> DEFINE n == Len(h)
           L == Len(s)
           most == IF L < MaxTime THEN L - 1 ELSE MaxTime - 1
<1>1. /\ n \in Nat \ {0} /\ L \in Nat /\ L <= n /\ MaxTime \in Nat \ {0}
      /\ (L = n \/ L >= MaxTime) /\ L >= 1
  <2>1. n \in Nat \ {0}
    BY EmptySeq
  <2> QED BY <2>1, MaxTimeAssumption DEF Latest, FarEnough
<1>2. GetMaxDTOld(s) = most
  BY DEF GetMaxDTOld
<1>3. CASE lag >= most
  <2>1. L < MaxTime /\ L = n /\ lo = 2 /\ lag \notin 0 .. most - 1 /\ most = L - 1 /\ L - 1 < MaxTime - 1
    BY <1>1, <1>3
  <2>2. CorrelateWithLatest(s, out, lag) = out
    BY <1>2, <2>1 DEF CorrelateWithLatest
  <2>3. n - lag - 1 < lo /\ n - lag < lo /\ lo \in Int /\ n - lag - 1 \in Int /\ n - lag \in Int
    BY <1>1, <1>3, <2>1
  <2>4. out = Zero /\ Counted(lo, n - lag, n, Bonds(h), Unreacteds(h)) = Zero
    BY <2>3, NoOrigins
  <2> QED BY <2>2, <2>4
<1>4. CASE lag < most
  <2>1. lag \in 0 .. most - 1 /\ lag # most
    BY <1>1, <1>4
  <2>2. CorrelateWithLatest(s, out, lag) = Plus(out, CorrelateSSP(s, L - lag, lag))
    BY <1>2, <2>1 DEF CorrelateWithLatest
  <2>3. L - lag \in 1 .. L /\ L - (L - lag) = lag /\ n - L + (L - lag) = (n - lag - 1) + 1
    BY <1>1, <1>4
  <2>4. CorrelateSSP(s, L - lag, lag) = Contribution((n - lag - 1) + 1, n, Bonds(h), Unreacteds(h))
    BY <2>3, SSPContribution
  <2>5. n - lag - 1 \in Int /\ n \in Int /\ lo \in Int /\ lo <= (n - lag - 1) + 1
    BY <1>1, <1>4
  <2>6. (n - lag - 1) + 1 = n - lag
    BY <1>1
  <2> HIDE DEF n, L, most
  <2>7. Plus(Counted(lo, n - lag - 1, n, Bonds(h), Unreacteds(h)),
             Contribution((n - lag - 1) + 1, n, Bonds(h), Unreacteds(h)))
          = Counted(lo, (n - lag - 1) + 1, n, Bonds(h), Unreacteds(h))
    BY <2>5, NextOrigin
  <2> QED BY <2>2, <2>4, <2>6, <2>7 DEF n
<1> QED BY <1>1, <1>3, <1>4

(* The loop of internalFinalAction, from the largest lag down.             *)
LEMMA CorrelateAllShorter ==
  ASSUME settings \in Settings, settings.command # "continuous", settings.otherwise = "product",
         history \in Seq(Seens), history # <<>>, inData \in Seq(Entries),
         Latest(inData, history), FarEnough(inData, history), ~TooLong(inData),
         outData = Counted(1, Count - MaxTime + 1, Count, Bonds(history), Unreacteds(history))
  PROVE  FinalOutDataOld = Counted(IF Count < MaxTime THEN 2 ELSE 1, Count, Count,
                                   Bonds(history), Unreacteds(history))
<1> DEFINE start == IF MaxTime > Len(history) THEN MaxTime - 1 ELSE MaxTime - 2
           lo == IF Count < MaxTime THEN 2 ELSE 1
           C(i) == Counted(lo, Count - i, Count, Bonds(history), Unreacteds(history))
           s == TidiedOld(inData)
           Body(u) == [i \in 0 .. start + 1 |->
                         IF i = start + 1 THEN outData ELSE CorrelateWithLatest(s, u[i + 1], i)]
           out == CHOOSE u : u = Body(u)
           w == [i \in 0 .. start + 1 |-> C(i)]
<1>1. Count \in Nat \ {0} /\ Count = Len(history) /\ MaxTime \in Nat \ {0}
  BY EmptySeq, MaxTimeAssumption DEF Count
<1>2. s = inData
  BY TidiedOldWindow
<1>3. FinalOutDataOld = out[0]
  BY DEF FinalOutDataOld
<1>4. start + 1 \in Nat /\ start \in Int /\ start + 1 = IF Count < MaxTime THEN MaxTime ELSE MaxTime - 1
  BY <1>1
<1>5. outData = C(start + 1)
  <2>1. CASE Count < MaxTime
    <3>1. Count - MaxTime + 1 < 1 /\ Count - (start + 1) < lo /\ lo \in Int
          /\ Count - MaxTime + 1 \in Int /\ Count - (start + 1) \in Int
      BY <1>1, <1>4, <2>1
    <3> HIDE DEF start, lo
    <3> QED BY <3>1, NoOrigins
  <2>2. CASE ~(Count < MaxTime)
    <3>1. lo = 1 /\ Count - (start + 1) = Count - MaxTime + 1
      BY <1>1, <1>4, <2>2
    <3> QED BY <3>1
  <2> QED BY <2>1, <2>2
<1>6. ASSUME NEW i \in 0 .. start + 1, i # start + 1
      PROVE  CorrelateWithLatest(s, C(i + 1), i) = C(i)
  <2>1. i \in Nat /\ i <= MaxTime - 1 /\ (Len(history) >= MaxTime => i <= MaxTime - 2)
    BY <1>1, <1>4, <1>6
  <2>2. Count - (i + 1) = Len(history) - i - 1
    BY <1>1, <2>1
  <2>3. lo = IF Len(history) < MaxTime THEN 2 ELSE 1
    BY <1>1
  <2> HIDE DEF lo, start, s
  <2> QED BY <1>1, <1>2, <2>1, <2>2, <2>3, CorrelateShorter
<1> HIDE DEF C, s, start
<1>7. w = Body(w)
  <2>1. \A i \in 0 .. start + 1 : i # start + 1 => i + 1 \in 0 .. start + 1
    BY <1>4
  <2> QED BY <1>5, <1>6, <2>1
<1>8. out = Body(out)
  <2> HIDE DEF w, Body
  <2> QED BY <1>7
<1>9. out[0] = C(0)
  <2> HIDE DEF out
  <2> DEFINE u == [k \in 0 .. start + 1 |-> out[start + 1 - k]]
             v == [k \in 0 .. start + 1 |-> C(start + 1 - k)]
  <2>1. start + 1 \in 0 .. start + 1 /\ 0 \in 0 .. start + 1 /\ start + 1 - 0 = start + 1
        /\ start + 1 - (start + 1) = 0
    BY <1>4
  <2>2. u[0] = v[0]
    BY <1>5, <1>8, <2>1
  <2>3. ASSUME NEW k \in 1 .. start + 1, u[k - 1] = v[k - 1]
        PROVE  u[k] = v[k]
    <3> DEFINE i == start + 1 - k
    <3>1. /\ i \in 0 .. start + 1 /\ i # start + 1 /\ start + 1 - (k - 1) = i + 1
          /\ k \in 0 .. start + 1 /\ k - 1 \in 0 .. start + 1
      BY <1>4
    <3>2. out[i] = CorrelateWithLatest(s, out[i + 1], i)
      BY <1>8, <3>1
    <3>3. out[i + 1] = C(i + 1)
      BY <2>3, <3>1
    <3>4. out[i] = C(i)
      BY <1>6, <3>1, <3>2, <3>3
    <3> QED BY <3>1, <3>4
  <2>4. \A k \in 1 .. start + 1 : u[k - 1] = v[k - 1] => u[k] = v[k]
    BY <2>3
  <2> HIDE DEF u, v
  <2>5. u[start + 1] = v[start + 1]
    BY <1>4, <2>1, <2>2, <2>4, Agree
  <2> QED BY <2>1, <2>5 DEF u, v
<1>10. Count - 0 = Count
  BY <1>1
<1> QED BY <1>3, <1>9, <1>10 DEF C

-----------------------------------------------------------------------------
(* Functions that are defined from one value to the next.                  *)

(* The values 0 .. n of V that begin with e, F[k] being what computes value *)
(* k from value k - 1.                                                     *)
IsUpward(n, V, e, F, w) ==
  w \in [0 .. n -> V] /\ w[0] = e /\ \A k \in 1 .. n : w[k] = F[k][w[k - 1]]

(* The same from n down, as the loops of the final actions go.             *)
IsDownward(n, V, e, G, w) ==
  w \in [0 .. n -> V] /\ w[n] = e /\ \A i \in 0 .. n - 1 : w[i] = G[i][w[i + 1]]

LEMMA Recursion ==
  ASSUME NEW n \in Nat, NEW V, NEW e \in V, NEW F, \A k \in 1 .. n, x \in V : F[k][x] \in V
  PROVE  \E w : IsUpward(n, V, e, F, w)
<1> DEFINE Good(m, w) == IsUpward(m, V, e, F, w)
           S == {m \in 0 .. n : ~ \E w : Good(m, w)}
<1> HIDE DEF Good
<1>1. ASSUME NEW m \in S, \A x \in S : m <= x
      PROVE  FALSE
  <2>1. CASE m = 0
    <3> DEFINE w == [k \in 0 .. 0 |-> e]
    <3>1. w \in [0 .. 0 -> V] /\ w[0] = e /\ 1 .. 0 = {}
      OBVIOUS
    <3> HIDE DEF w
    <3>2. Good(0, w)
      BY <3>1 DEF Good, IsUpward
    <3> QED BY <2>1, <3>2
  <2>2. CASE m # 0
    <3>1. m - 1 \in 0 .. n /\ m - 1 \notin S /\ m \in 1 .. n
      BY <1>1, <2>2
    <3>2. PICK v : Good(m - 1, v)
      BY <3>1
    <3> DEFINE w == [k \in 0 .. m |-> IF k = m THEN F[m][v[m - 1]] ELSE v[k]]
    <3>3. v[m - 1] \in V /\ F[m][v[m - 1]] \in V
      BY <3>1, <3>2 DEF Good, IsUpward
    <3>4. \A k \in 0 .. m - 1 : w[k] = v[k] /\ v[k] \in V
      BY <3>1, <3>2 DEF Good, IsUpward
    <3>5. w[m] = F[m][v[m - 1]]
      BY <3>1
    <3>6. w \in [0 .. m -> V]
      <4>1. \A k \in 0 .. m : k = m \/ k \in 0 .. m - 1
        BY <3>1
      <4>2. \A k \in 0 .. m : (IF k = m THEN F[m][v[m - 1]] ELSE v[k]) \in V
        BY <3>3, <3>4, <4>1
      <4> QED BY <4>2
    <3> HIDE DEF w
    <3>7. w[0] = e
      BY <3>1, <3>2, <3>4 DEF Good, IsUpward
    <3>8. ASSUME NEW k \in 1 .. m
          PROVE  w[k] = F[k][w[k - 1]]
      <4>1. k - 1 \in 0 .. m - 1
        BY <3>1
      <4>2. w[k - 1] = v[k - 1]
        BY <3>4, <4>1
      <4>3. CASE k = m
        BY <3>5, <4>2, <4>3
      <4>4. CASE k # m
        <5>1. k \in 1 .. m - 1 /\ k \in 0 .. m - 1
          BY <3>1, <4>4
        <5> QED BY <3>2, <3>4, <4>2, <5>1 DEF Good, IsUpward
      <4> QED BY <4>3, <4>4
    <3>9. Good(m, w)
      BY <3>6, <3>7, <3>8 DEF Good, IsUpward
    <3> QED BY <3>9
  <2> QED BY <2>1, <2>2
<1>2. S = {}
  <2>1. S \in SUBSET Nat
    OBVIOUS
  <2> HIDE DEF S
  <2> QED BY <1>1, <2>1, LeastElement
<1>3. \E w : Good(n, w)
  <2>1. n \in 0 .. n
    OBVIOUS
  <2> QED BY <1>2, <2>1
<1> QED BY <1>3 DEF Good

(* What one value passes to the next, all values have.                     *)
LEMMA Everywhere ==
  ASSUME NEW n \in Nat, NEW S, 0 \in S, \A k \in 1 .. n : k - 1 \in S => k \in S
  PROVE  0 .. n \subseteq S
<1> DEFINE T == {k \in 0 .. n : k \notin S}
<1>1. ASSUME NEW k \in T, \A x \in T : k <= x
      PROVE  FALSE
  <2>1. k \in 1 .. n /\ k - 1 \in 0 .. n /\ k - 1 \notin T
    BY <1>1
  <2> QED BY <1>1, <2>1
<1>2. T = {}
  <2>1. T \in SUBSET Nat
    OBVIOUS
  <2> HIDE DEF T
  <2> QED BY <1>1, <2>1, LeastElement
<1> QED BY <1>2

LEMMA Downward ==
  ASSUME NEW n \in Nat, NEW V, NEW e \in V, NEW G, \A i \in 0 .. n - 1, x \in V : G[i][x] \in V
  PROVE  \E w : IsDownward(n, V, e, G, w)
<1> DEFINE F == [k \in 1 .. n |-> G[n - k]]
<1>1. \A k \in 1 .. n, x \in V : F[k][x] \in V
  <2>1. \A k \in 1 .. n : n - k \in 0 .. n - 1
    OBVIOUS
  <2> QED BY <2>1
<1>2. PICK v : IsUpward(n, V, e, F, v)
  <2> HIDE DEF F
  <2> QED BY <1>1, Recursion
<1> DEFINE w == [i \in 0 .. n |-> v[n - i]]
<1>3. w \in [0 .. n -> V] /\ w[n] = e
  <2>1. \A i \in 0 .. n : n - i \in 0 .. n
    OBVIOUS
  <2>2. n \in 0 .. n /\ n - n = 0
    OBVIOUS
  <2> QED BY <1>2, <2>1, <2>2 DEF IsUpward
<1>4. ASSUME NEW i \in 0 .. n - 1
      PROVE  w[i] = G[i][w[i + 1]]
  <2>1. n - i \in 1 .. n /\ n - (n - i) = i /\ n - i - 1 = n - (i + 1) /\ i \in 0 .. n /\ i + 1 \in 0 .. n
    OBVIOUS
  <2>2. v[n - i] = G[i][v[n - i - 1]]
    BY <1>2, <2>1 DEF IsUpward
  <2> QED BY <2>1, <2>2
<1> QED BY <1>3, <1>4 DEF IsDownward

-----------------------------------------------------------------------------
(* The loop of correlateFromOldIndex over the lags.                        *)

LoopStates == [stopped : BOOLEAN, known : BOOLEAN, value : {0, 1}, count : {0, 1}]
LoopStart  == [stopped |-> FALSE, known |-> FALSE, value |-> 0, count |-> 0]

(* One turn, after `before'.                                               *)
LoopTurn(s, old, dt, before) ==
  LET care  == DoICare(settings.conditions, Flags(s), old, old + dt)
      quick == QuickCorrelate(settings.conditions, Flags(s), old, old + dt)
      known == before.known \/ quick = "ValueRemaining"
  IN IF before.stopped \/ ~Reaches(Len(s), old, dt) \/ care = "UncareRemaining"
     THEN [stopped |-> TRUE, known |-> before.known, value |-> 0, count |-> 0]
     ELSE IF care = "UncareThis" THEN [before EXCEPT !.value = 0, !.count = 0]
     ELSE [stopped |-> FALSE, known |-> known, count |-> 1,
           value |-> IF known \/ quick = "ValueThis" THEN 0 ELSE InternalCorrelate(s, old, old + dt)]

(* The states after[-1] .. after[MaxTime - 1] of the loop.                 *)
IsLoop(s, old, after) ==
  /\ after \in [-1 .. MaxTime - 1 -> LoopStates]
  /\ after[-1] = LoopStart
  /\ \A dt \in Lags : after[dt] = LoopTurn(s, old, dt, after[dt - 1])

LEMMA TurnTyped ==
  ASSUME NEW s, NEW old, NEW dt, NEW before \in LoopStates
  PROVE  LoopTurn(s, old, dt, before) \in LoopStates
<1> DEFINE care  == DoICare(settings.conditions, Flags(s), old, old + dt)
           quick == QuickCorrelate(settings.conditions, Flags(s), old, old + dt)
           known == before.known \/ quick = "ValueRemaining"
           value == IF known \/ quick = "ValueThis" THEN 0 ELSE InternalCorrelate(s, old, old + dt)
           Stop  == [stopped |-> TRUE, known |-> before.known, value |-> 0, count |-> 0]
           Skip  == [before EXCEPT !.value = 0, !.count = 0]
           Go    == [stopped |-> FALSE, known |-> known, count |-> 1, value |-> value]
<1>1. /\ before.known \in BOOLEAN
      /\ before = [stopped |-> before.stopped, known |-> before.known, value |-> before.value,
                   count |-> before.count]
      /\ before.stopped \in BOOLEAN
  BY DEF LoopStates
<1>2. known \in BOOLEAN /\ value \in {0, 1}
  <2>1. InternalCorrelate(s, old, old + dt) \in {0, 1}
    BY DEF InternalCorrelate
  <2>2. known \in BOOLEAN
    BY <1>1, Zenon
  <2> HIDE DEF known, quick
  <2> QED BY <2>1, <2>2
<1>3. LoopTurn(s, old, dt, before) \in {Stop, Skip, Go}
  <2>1. LoopTurn(s, old, dt, before)
          = IF before.stopped \/ ~Reaches(Len(s), old, dt) \/ care = "UncareRemaining" THEN Stop
            ELSE IF care = "UncareThis" THEN Skip ELSE Go
    BY DEF LoopTurn
  <2> HIDE DEF Stop, Skip, Go, care
  <2> QED BY <2>1
<1> HIDE DEF known, value
<1>4. Stop \in LoopStates /\ Go \in LoopStates
  BY <1>1, <1>2 DEF LoopStates
<1>5. Skip \in LoopStates
  BY <1>1 DEF LoopStates
<1> HIDE DEF Stop, Skip, Go
<1> QED BY <1>3, <1>4, <1>5

LEMMA LoopRuns ==
  ASSUME NEW s, NEW old
  PROVE  \E after : /\ IsLoop(s, old, after)
                    /\ CorrelateFromOldIndex(s, old)
                         = [lag \in Lags |-> [value |-> after[lag].value, count |-> after[lag].count]]
<1> DEFINE Body(u) ==
      [dt \in -1 .. MaxTime - 1 |->
        IF dt < 0 THEN [stopped |-> FALSE, known |-> FALSE, value |-> 0, count |-> 0]
        ELSE LET before == u[dt - 1]
                 care   == DoICare(settings.conditions, Flags(s), old, old + dt)
                 quick  == QuickCorrelate(settings.conditions, Flags(s), old, old + dt)
                 known  == before.known \/ quick = "ValueRemaining"
             IN IF before.stopped \/ ~Reaches(Len(s), old, dt) \/ care = "UncareRemaining"
                THEN [stopped |-> TRUE, known |-> before.known, value |-> 0, count |-> 0]
                ELSE IF care = "UncareThis"
                THEN [before EXCEPT !.value = 0, !.count = 0]
                ELSE [stopped |-> FALSE, known |-> known, count |-> 1,
                      value |-> IF known \/ quick = "ValueThis" THEN 0
                                ELSE InternalCorrelate(s, old, old + dt)]]
           after == CHOOSE u : u = Body(u)
<1>1. \A u : Body(u) = [dt \in -1 .. MaxTime - 1 |->
                          IF dt < 0 THEN LoopStart ELSE LoopTurn(s, old, dt, u[dt - 1])]
  BY DEF LoopStart, LoopTurn
<1>2. CorrelateFromOldIndex(s, old)
        = [lag \in Lags |-> [value |-> after[lag].value, count |-> after[lag].count]]
  BY DEF CorrelateFromOldIndex
<1> HIDE DEF Body
<1>3. LoopStart \in LoopStates /\ MaxTime \in Nat \ {0}
  BY MaxTimeAssumption DEF LoopStart, LoopStates
<1>4. PICK w \in [0 .. MaxTime -> LoopStates] :
        w[0] = LoopStart /\ \A k \in 1 .. MaxTime : w[k] = LoopTurn(s, old, k - 1, w[k - 1])
  <2> DEFINE F == [k \in 1 .. MaxTime |-> [b \in LoopStates |-> LoopTurn(s, old, k - 1, b)]]
  <2>1. \A k \in 1 .. MaxTime, b \in LoopStates : F[k][b] \in LoopStates
    BY TurnTyped
  <2>2. \A k \in 1 .. MaxTime, b \in LoopStates : F[k][b] = LoopTurn(s, old, k - 1, b)
    OBVIOUS
  <2> HIDE DEF F
  <2>3. PICK w : IsUpward(MaxTime, LoopStates, LoopStart, F, w)
    BY <1>3, <2>1, Recursion
  <2>4. \A k \in 1 .. MaxTime : w[k - 1] \in LoopStates
    BY <1>3, <2>3 DEF IsUpward
  <2> QED BY <2>2, <2>3, <2>4 DEF IsUpward
<1> DEFINE v == [dt \in -1 .. MaxTime - 1 |-> w[dt + 1]]
<1>5. v = Body(v)
  <2>1. ASSUME NEW dt \in -1 .. MaxTime - 1
        PROVE  v[dt] = IF dt < 0 THEN LoopStart ELSE LoopTurn(s, old, dt, v[dt - 1])
    <3>1. CASE dt < 0
      BY <1>4, <3>1
    <3>2. CASE ~(dt < 0)
      <4>1. dt + 1 \in 1 .. MaxTime /\ dt - 1 \in -1 .. MaxTime - 1 /\ dt + 1 - 1 = dt /\ dt - 1 + 1 = dt
        BY <1>3, <3>2
      <4>2. w[dt + 1] = LoopTurn(s, old, dt, w[dt])
        BY <1>4, <4>1
      <4>3. v[dt] = w[dt + 1] /\ v[dt - 1] = w[dt]
        BY <4>1
      <4> HIDE DEF v
      <4> QED BY <3>2, <4>2, <4>3
    <3> QED BY <3>1, <3>2
  <2>2. v = [dt \in -1 .. MaxTime - 1 |-> v[dt]]
    OBVIOUS
  <2> HIDE DEF v
  <2> QED BY <1>1, <2>1, <2>2
<1>6. after = Body(after)
  <2> HIDE DEF v
  <2> QED BY <1>5
<1> HIDE DEF after
<1>7. /\ after = [dt \in -1 .. MaxTime - 1 |-> after[dt]]
      /\ \A dt \in -1 .. MaxTime - 1 :
           after[dt] = IF dt < 0 THEN LoopStart ELSE LoopTurn(s, old, dt, after[dt - 1])
  BY <1>1, <1>6
<1>8. \A dt \in -1 .. MaxTime - 1 : after[dt] \in LoopStates
  <2> DEFINE S == {k \in Nat : after[k - 1] \in LoopStates}
  <2>1. 0 \in S
    <3>1. 0 - 1 \in -1 .. MaxTime - 1 /\ 0 - 1 < 0
      BY <1>3
    <3> QED BY <1>3, <1>7, <3>1
  <2>2. \A k \in 1 .. MaxTime : k - 1 \in S => k \in S
    <3> SUFFICES ASSUME NEW k \in 1 .. MaxTime, k - 1 \in S PROVE k \in S
      OBVIOUS
    <3>1. k - 1 \in -1 .. MaxTime - 1 /\ ~(k - 1 < 0) /\ after[k - 1 - 1] \in LoopStates /\ k \in Nat
      BY <1>3
    <3>2. after[k - 1] = LoopTurn(s, old, k - 1, after[k - 1 - 1])
      BY <1>7, <3>1
    <3> QED BY <3>1, <3>2, TurnTyped
  <2>3. \A dt \in -1 .. MaxTime - 1 : dt + 1 \in 0 .. MaxTime /\ dt + 1 - 1 = dt
    BY <1>3
  <2>4. \A k \in S : after[k - 1] \in LoopStates
    OBVIOUS
  <2> HIDE DEF S
  <2>5. 0 .. MaxTime \subseteq S
    BY <1>3, <2>1, <2>2, Everywhere
  <2>6. ASSUME NEW dt \in -1 .. MaxTime - 1
        PROVE  after[dt] \in LoopStates
    <3>1. dt + 1 \in S
      BY <2>3, <2>5
    <3>2. after[dt + 1 - 1] \in LoopStates
      BY <2>4, <3>1
    <3> QED BY <2>3, <3>2
  <2> QED BY <2>6
<1>9. IsLoop(s, old, after)
  <2>1. after \in [-1 .. MaxTime - 1 -> LoopStates]
    BY <1>7, <1>8
  <2>2. -1 \in -1 .. MaxTime - 1 /\ -1 < 0 /\ \A dt \in Lags : dt \in -1 .. MaxTime - 1 /\ ~(dt < 0)
    BY <1>3 DEF Lags
  <2> QED BY <1>7, <2>1, <2>2 DEF IsLoop
<1> QED BY <1>2, <1>9

-----------------------------------------------------------------------------
(* Types.                                                                  *)

LEMMA PlusTyped ==
  ASSUME NEW r \in Results, NEW q \in Results
  PROVE  Plus(r, q) \in Results
<1>1. \A lag \in Lags : r[lag] \in [value : Nat, count : Nat] /\ q[lag] \in [value : Nat, count : Nat]
  BY DEF Results
<1>2. \A lag \in Lags : /\ r[lag].value + q[lag].value \in Nat
                        /\ r[lag].count + q[lag].count \in Nat
  BY <1>1
<1> QED BY <1>2 DEF Plus, Results

LEMMA CorrelatedTyped ==
  ASSUME NEW s, NEW out \in Results, NEW i
  PROVE  CorrelateWithLatest(s, out, i) \in Results
<1>1. \A x, maxdt : CorrelateSSP(s, x, maxdt) \in Results
  BY DEF CorrelateSSP, Results
<1>2. \A x, maxdt : CorrelateContinuous(s, x, maxdt) \in Results
  BY DEF CorrelateContinuous, Results
<1>3. \/ CorrelateWithLatest(s, out, i) = out
      \/ \E more \in Results : CorrelateWithLatest(s, out, i) = Plus(out, more)
  BY <1>1, <1>2 DEF CorrelateWithLatest
<1> QED BY <1>3, PlusTyped

LEMMA CorrelatedNewTyped ==
  ASSUME NEW s, NEW out \in Results, NEW i
  PROVE  CorrelateNew(s, out, i) \in Results
<1>1. ASSUME NEW old
      PROVE  CorrelateFromOldIndex(s, old) \in Results
  <2>1. PICK after : /\ IsLoop(s, old, after)
                     /\ CorrelateFromOldIndex(s, old)
                          = [lag \in Lags |-> [value |-> after[lag].value, count |-> after[lag].count]]
    BY LoopRuns
  <2>2. \A lag \in Lags : after[lag] \in LoopStates
    <3>1. \A lag \in Lags : lag \in -1 .. MaxTime - 1
      BY MaxTimeAssumption DEF Lags
    <3> QED BY <2>1, <3>1 DEF IsLoop
  <2>3. \A lag \in Lags : after[lag].value \in Nat /\ after[lag].count \in Nat
    BY <2>2 DEF LoopStates
  <2> QED BY <2>1, <2>3 DEF Results
<1>2. \/ CorrelateNew(s, out, i) = out
      \/ \E more \in Results : CorrelateNew(s, out, i) = Plus(out, more)
  BY <1>1 DEF CorrelateNew
<1> QED BY <1>2, PlusTyped

LEMMA FinalOldTyped ==
  ASSUME outData \in Results, history \in Seq(Seens)
  PROVE  FinalOutDataOld \in Results
<1> DEFINE start == IF MaxTime > Len(history) THEN MaxTime - 1 ELSE MaxTime - 2
           n == start + 1
           s == TidiedOld(inData)
           Body(u) == [i \in 0 .. start + 1 |->
                         IF i = start + 1 THEN outData ELSE CorrelateWithLatest(s, u[i + 1], i)]
           out == CHOOSE u : u = Body(u)
           G == [i \in 0 .. n - 1 |-> [r \in Results |-> CorrelateWithLatest(s, r, i)]]
<1>1. FinalOutDataOld \in {outData, out[0]}
  BY DEF FinalOutDataOld
<1>2. n \in Nat
  BY MaxTimeAssumption
<1> HIDE DEF n, s
<1>3. \A i \in 0 .. n - 1, r \in Results : G[i][r] \in Results
  BY CorrelatedTyped
<1>4. \A i \in 0 .. n - 1, r \in Results : G[i][r] = CorrelateWithLatest(s, r, i)
  OBVIOUS
<1> HIDE DEF G
<1>5. PICK w : IsDownward(n, Results, outData, G, w)
  BY <1>2, <1>3, Downward
<1>6. \A i \in 0 .. n : i # n => i \in 0 .. n - 1 /\ i + 1 \in 0 .. n
  BY <1>2
<1>7. w = Body(w)
  <2>1. \A i \in 0 .. n : w[i] = IF i = n THEN outData ELSE CorrelateWithLatest(s, w[i + 1], i)
    BY <1>4, <1>5, <1>6 DEF IsDownward
  <2> QED BY <1>5, <2>1 DEF IsDownward, n
<1>8. out = Body(out)
  <2> HIDE DEF Body
  <2> QED BY <1>7
<1> HIDE DEF out
<1>9. \A i \in 0 .. n : out[i] = IF i = n THEN outData ELSE CorrelateWithLatest(s, out[i + 1], i)
  BY <1>8 DEF n
<1>10. out[0] \in Results
  <2> DEFINE S == {k \in Nat : out[n - k] \in Results}
  <2>1. 0 \in S
    <3>1. n - 0 = n /\ n \in 0 .. n
      BY <1>2
    <3> QED BY <1>9, <3>1
  <2>2. ASSUME NEW k \in 1 .. n, k - 1 \in S
        PROVE  k \in S
    <3>1. n - k \in 0 .. n /\ n - k # n /\ n - k + 1 = n - (k - 1) /\ k \in Nat
      BY <1>2
    <3>2. out[n - k] = CorrelateWithLatest(s, out[n - k + 1], n - k)
      BY <1>9, <3>1
    <3>3. out[n - k + 1] \in Results
      BY <2>2, <3>1
    <3> QED BY <3>1, <3>2, <3>3, CorrelatedTyped
  <2>3. \A k \in 1 .. n : k - 1 \in S => k \in S
    BY <2>2
  <2>4. \A k \in S : out[n - k] \in Results
    OBVIOUS
  <2>5. n \in 0 .. n /\ n - n = 0
    BY <1>2
  <2> HIDE DEF S
  <2>6. 0 .. n \subseteq S
    BY <1>2, <2>1, <2>3, Everywhere
  <2>7. out[n - n] \in Results
    BY <2>4, <2>5, <2>6
  <2> QED BY <2>5, <2>7
<1> QED BY <1>1, <1>10

(* The turns of the final loop of the new actions, from MaxTime - 1 down.  *)
LEMMA FinalNewRuns ==
  ASSUME newOutData \in Results
  PROVE  \E out \in [0 .. MaxTime - 1 -> Results] :
           /\ FinalOutDataNew = out[0]
           /\ out[MaxTime - 1] = newOutData
           /\ \A i \in 0 .. MaxTime - 2 : out[i] = CorrelateNew(newInData, out[i + 1], i)
<1> DEFINE n == MaxTime - 1
           s == newInData
           Body(u) == [i \in 0 .. MaxTime - 1 |->
                         IF i = MaxTime - 1 THEN newOutData ELSE CorrelateNew(s, u[i + 1], i)]
           out == CHOOSE u : u = Body(u)
           G == [i \in 0 .. n - 1 |-> [r \in Results |-> CorrelateNew(s, r, i)]]
<1>1. FinalOutDataNew = out[0]
  BY DEF FinalOutDataNew
<1>2. n \in Nat /\ n - 1 = MaxTime - 2 /\ MaxTime \in Nat \ {0}
  BY MaxTimeAssumption
<1>3. \A i \in 0 .. n - 1, r \in Results : G[i][r] \in Results
  BY CorrelatedNewTyped
<1>4. \A i \in 0 .. n - 1, r \in Results : G[i][r] = CorrelateNew(s, r, i)
  OBVIOUS
<1> HIDE DEF G, s
<1>5. PICK w : IsDownward(n, Results, newOutData, G, w)
  <2> HIDE DEF n
  <2> QED BY <1>2, <1>3, Downward
<1>6. \A i \in 0 .. n : i # n => i \in 0 .. n - 1 /\ i + 1 \in 0 .. n
  BY <1>2
<1>7. w = Body(w)
  <2>1. \A i \in 0 .. n : w[i] = IF i = n THEN newOutData ELSE CorrelateNew(s, w[i + 1], i)
    BY <1>4, <1>5, <1>6 DEF IsDownward
  <2> QED BY <1>5, <2>1 DEF IsDownward
<1>8. out = Body(out)
  <2> HIDE DEF Body
  <2> QED BY <1>7
<1> HIDE DEF out
<1>9. /\ out = [i \in 0 .. n |-> out[i]]
      /\ \A i \in 0 .. n : out[i] = IF i = n THEN newOutData ELSE CorrelateNew(s, out[i + 1], i)
  BY <1>8
<1>10. \A i \in 0 .. n : out[i] \in Results
  <2> DEFINE S == {k \in Nat : out[n - k] \in Results}
  <2>1. 0 \in S
    <3>1. n - 0 = n /\ n \in 0 .. n
      BY <1>2
    <3> QED BY <1>9, <3>1
  <2>2. ASSUME NEW k \in 1 .. n, k - 1 \in S
        PROVE  k \in S
    <3>1. n - k \in 0 .. n /\ n - k # n /\ n - k + 1 = n - (k - 1) /\ k \in Nat
      BY <1>2
    <3>2. out[n - k] = CorrelateNew(s, out[n - k + 1], n - k)
      BY <1>9, <3>1
    <3>3. out[n - k + 1] \in Results
      BY <2>2, <3>1
    <3> QED BY <3>1, <3>2, <3>3, CorrelatedNewTyped
  <2>3. \A k \in 1 .. n : k - 1 \in S => k \in S
    BY <2>2
  <2>4. \A k \in S : out[n - k] \in Results
    OBVIOUS
  <2>5. \A i \in 0 .. n : n - i \in 0 .. n /\ n - (n - i) = i
    BY <1>2
  <2> HIDE DEF S, n
  <2>6. 0 .. n \subseteq S
    BY <1>2, <2>1, <2>3, Everywhere
  <2>7. ASSUME NEW i \in 0 .. n
        PROVE  out[i] \in Results
    <3>1. n - i \in S /\ n - (n - i) = i
      BY <2>5, <2>6
    <3>2. out[n - (n - i)] \in Results
      BY <2>4, <3>1
    <3> QED BY <3>1, <3>2
  <2> QED BY <2>7
<1>11. out \in [0 .. MaxTime - 1 -> Results]
  BY <1>9, <1>10
<1>12. /\ out[MaxTime - 1] = newOutData
       /\ \A i \in 0 .. MaxTime - 2 : out[i] = CorrelateNew(newInData, out[i + 1], i)
  <2>1. n \in 0 .. n /\ \A i \in 0 .. MaxTime - 2 : i \in 0 .. n /\ i # n
    BY <1>2
  <2> QED BY <1>9, <2>1 DEF s
<1> QED BY <1>1, <1>11, <1>12

-----------------------------------------------------------------------------
(* The windows of both actions.                                            *)

WindowInv(s) ==
  s \in Seq(Entries) /\ Latest(s, history) /\ FarEnough(s, history)

BaseInv ==
  /\ settings \in Settings
  /\ history \in Seq(Seens)
  /\ Count <= settings.frames
  /\ WindowInv(inData) /\ ~TooLong(inData)
  /\ WindowInv(newInData)
  /\ outData \in Results
  /\ newOutData \in Results
  /\ ended \in BOOLEAN

(* The window of the new action, after a frame: as TidiedWindow of         *)
(* TTCF_proofs, for what is kept here of a frame.                          *)
LEMMA TidiedNewWindow ==
  ASSUME NEW h \in Seq(Seens), NEW t \in Seq(Entries), Latest(t, h), FarEnough(t, h)
  PROVE  LET w == TidiedAfter(t, t, -1)
         IN w \in Seq(Entries) /\ Latest(w, h) /\ FarEnough(w, h)
<1> DEFINE w == TidiedAfter(t, t, -1)
           L == Len(t)
<1>1. L \in Nat /\ MaxTime \in Nat \ {0}
  BY MaxTimeAssumption
<1>2. CASE TidyOld > 0 /\ L > TidyOld * MaxTime
  <2>1. L > MaxTime
    BY <1>1, <1>2, TidyKeepsEnough, TidyOldAssumption
  <2>2. GetMaxDT(L, 0, 0) = MaxTime - 1
    BY <1>1, <2>1, MaxDTOfFullWindow
  <2>3. w = t \/ w = SubSeq(t, L - (MaxTime - 1), L)
    BY <2>2 DEF TidiedAfter, TidyInData
  <2>4. L - (MaxTime - 1) = L - MaxTime + 1 /\ MaxTime \in 0 .. L
    BY <1>1, <2>1
  <2>5. CASE w = t
    BY <2>5
  <2>6. CASE w = SubSeq(t, L - (MaxTime - 1), L)
    <3> DEFINE v == SubSeq(t, Len(t) - MaxTime + 1, Len(t))
    <3>0. v \in Seq(Entries) /\ Len(v) = MaxTime /\ Latest(v, h)
      BY <2>4, TrimmedLatest
    <3> HIDE DEF w
    <3>1. w \in Seq(Entries) /\ Len(w) = MaxTime /\ Latest(w, h)
      BY <2>4, <2>6, <3>0
    <3>2. FarEnough(w, h)
      BY <1>1, <3>1 DEF FarEnough
    <3> QED BY <3>1, <3>2 DEF w
  <2> QED BY <2>3, <2>5, <2>6
<1>3. CASE ~(TidyOld > 0 /\ L > TidyOld * MaxTime)
  <2>1. w = t
    BY <1>3 DEF TidiedAfter, TidyInData
  <2> QED BY <2>1
<1> QED BY <1>2, <1>3

LEMMA TidiedFarEnough ==
  ASSUME settings \in Settings, NEW h \in Seq(Seens), NEW s \in Seq(Entries), Latest(s, h),
         FarEnough(s, h)
  PROVE  LET w == TidiedOld(s)
         IN w \in Seq(Entries) /\ Latest(w, h) /\ FarEnough(w, h) /\ ~TooLong(w)
<1> DEFINE w == TidiedOld(s)
<1>1. w \in Seq(Entries) /\ Latest(w, h) /\ (TooLong(s) => Len(w) = MaxTime) /\ (~TooLong(s) => w = s)
  BY TidiedOldWindow
<1> HIDE DEF w
<1>2. MaxTime \in Nat \ {0}
  BY MaxTimeAssumption
<1>3. CASE TooLong(s)
  <2>1. Len(w) = MaxTime
    BY <1>1, <1>3
  <2>2. ~TooLong(w)
    BY <1>2, <2>1, TidyBound DEF TooLong
  <2> QED BY <1>1, <1>2, <2>1, <2>2 DEF FarEnough, w
<1>4. CASE ~TooLong(s)
  BY <1>1, <1>4 DEF w
<1> QED BY <1>3, <1>4

(* What a frame makes of the windows.                                      *)
LEMMA FrameWindows ==
  ASSUME BaseInv, NEW f \in Seen, Frame(f)
  PROVE  LET t == Append(newInData, AddToTCF(f))
             g == Append(history, f)
             s == Append(inData, AddToTCF(f))
         IN /\ f \in Seens /\ g \in Seq(Seens) /\ Len(g) = Len(history) + 1
            /\ \A k \in 1 .. Len(history) : g[k] = history[k]
            /\ t \in Seq(Entries) /\ Latest(t, g) /\ FarEnough(t, g) /\ Len(t) = Len(newInData) + 1
            /\ s \in Seq(Entries) /\ Latest(s, g) /\ FarEnough(s, g) /\ Len(s) = Len(inData) + 1
            /\ history' = g /\ inData' = TidiedOld(s) /\ newInData' = TidiedAfter(t, t, -1)
<1>1. f \in Seens
  BY SeenTyped
<1>2. /\ history \in Seq(Seens) /\ WindowInv(inData) /\ WindowInv(newInData)
  BY DEF BaseInv
<1>3. Len(history) \in Nat /\ Len(inData) \in Nat /\ Len(newInData) \in Nat /\ MaxTime \in Nat
  BY <1>2, MaxTimeAssumption DEF WindowInv
<1>4. LET t == Append(newInData, AddToTCF(f))
          g == Append(history, f)
      IN /\ g \in Seq(Seens) /\ Len(g) = Len(history) + 1
         /\ \A k \in 1 .. Len(history) : g[k] = history[k]
         /\ t \in Seq(Entries) /\ Latest(t, g) /\ Len(t) = Len(newInData) + 1
  BY <1>1, <1>2, AppendLatest DEF WindowInv
<1>5. LET s == Append(inData, AddToTCF(f))
          g == Append(history, f)
      IN s \in Seq(Entries) /\ Latest(s, g) /\ Len(s) = Len(inData) + 1
  BY <1>1, <1>2, AppendLatest DEF WindowInv
<1>6. LET g == Append(history, f)
      IN FarEnough(Append(inData, AddToTCF(f)), g) /\ FarEnough(Append(newInData, AddToTCF(f)), g)
  BY <1>2, <1>3, <1>4, <1>5 DEF WindowInv, FarEnough
<1>7. history' = Append(history, f)
      /\ inData' = TidiedOld(Append(inData, AddToTCF(f)))
      /\ newInData' = TidiedAfter(Append(newInData, AddToTCF(f)), Append(newInData, AddToTCF(f)), -1)
  BY DEF Frame
<1> QED BY <1>1, <1>4, <1>5, <1>6, <1>7

LEMMA BaseInit == Init => BaseInv
<1> SUFFICES ASSUME Init PROVE BaseInv
  OBVIOUS
<1>1. /\ settings \in Settings /\ history = <<>> /\ inData = <<>> /\ newInData = <<>> /\ ended = FALSE
      /\ outData = Zero /\ newOutData = Zero
  BY DEF Init
<1>2. Zero \in Results
  BY DEF Zero, Results
<1>3. settings.frames \in Nat
  BY <1>1, SettingsAssumption, NumFramesAssumption
<1>4. \A S : <<>> \in Seq(S) /\ Len(<<>>) = 0
  OBVIOUS
<1>5. WindowInv(<<>>)
  BY <1>1, <1>4 DEF WindowInv, Latest, FarEnough
<1>6. ~TooLong(<<>>)
  BY <1>1, MaxTimeAssumption, TidyBound DEF TooLong
<1>7. Count <= settings.frames
  BY <1>1, <1>3, <1>4 DEF Count
<1> QED BY <1>1, <1>2, <1>4, <1>5, <1>6, <1>7 DEF BaseInv

LEMMA SettingsKept == [Next]_vars => settings' = settings
  BY DEF Next, vars, Frame, FinalAction

LEMMA BaseStep == BaseInv /\ [Next]_vars => BaseInv'
<1> SUFFICES ASSUME BaseInv, [Next]_vars PROVE BaseInv'
  OBVIOUS
<1>1. settings' = settings
  BY SettingsKept
<1>2. \A s : TooLong(s)' <=> settings.tidyOld > 0 /\ Len(s') > settings.tidyOld * MaxTime
  BY <1>1 DEF TooLong
<1>3. ASSUME NEW f \in Seen, Frame(f)
      PROVE  BaseInv'
  <2> DEFINE s == Append(inData, AddToTCF(f))
             t == Append(newInData, AddToTCF(f))
             g == Append(history, f)
  <2>1. /\ g \in Seq(Seens) /\ Len(g) = Len(history) + 1
        /\ t \in Seq(Entries) /\ Latest(t, g) /\ FarEnough(t, g)
        /\ s \in Seq(Entries) /\ Latest(s, g) /\ FarEnough(s, g)
        /\ history' = g /\ inData' = TidiedOld(s) /\ newInData' = TidiedAfter(t, t, -1)
    BY <1>3, FrameWindows
  <2>2. settings \in Settings /\ outData \in Results /\ newOutData \in Results /\ history \in Seq(Seens)
    BY DEF BaseInv
  <2>3. /\ outData' = CorrelateWithLatest(inData', outData, -1)
        /\ newOutData' = CorrelateNew(t, newOutData, -1)
        /\ ended' = ended /\ ended = FALSE /\ Len(history) < settings.frames
    BY <1>3 DEF Frame
  <2> HIDE DEF s, t, g
  <2>4. inData' \in Seq(Entries) /\ Latest(inData', g) /\ FarEnough(inData', g) /\ ~TooLong(inData')
    BY <2>1, <2>2, TidiedFarEnough
  <2>5. newInData' \in Seq(Entries) /\ Latest(newInData', g) /\ FarEnough(newInData', g)
    BY <2>1, TidiedNewWindow
  <2>6. outData' \in Results /\ newOutData' \in Results
    BY <2>2, <2>3, CorrelatedTyped, CorrelatedNewTyped
  <2>7. Len(g) <= settings.frames
    <3>1. settings.frames \in Int /\ Len(history) \in Nat
      BY <2>2, SettingsAssumption
    <3> QED BY <2>1, <2>3, <3>1
  <2>8. WindowInv(inData)' /\ WindowInv(newInData)' /\ ~TooLong(inData)'
    <3>1. /\ Latest(inData, history)' <=> Latest(inData', history')
          /\ Latest(newInData, history)' <=> Latest(newInData', history')
      BY <1>1 DEF Latest, AddToTCF, Changed
    <3>2. /\ FarEnough(inData, history)' <=> FarEnough(inData', history')
          /\ FarEnough(newInData, history)' <=> FarEnough(newInData', history')
      BY DEF FarEnough
    <3>3. TooLong(inData)' <=> TooLong(inData')
      BY <1>1 DEF TooLong
    <3> QED BY <2>1, <2>4, <2>5, <3>1, <3>2, <3>3 DEF WindowInv
  <2> QED BY <1>1, <2>1, <2>2, <2>3, <2>6, <2>7, <2>8 DEF BaseInv, Count
<1>4. CASE FinalAction
  <2>1. /\ outData' = FinalOutDataOld /\ newOutData' = FinalOutDataNew /\ ended' = TRUE
        /\ inData' = TidiedOld(inData) /\ history' = history /\ newInData' = newInData
    BY <1>4 DEF FinalAction
  <2>2. inData' = inData
    BY <2>1, TidiedOldWindow DEF BaseInv, WindowInv
  <2>3. outData' \in Results
    BY <2>1, FinalOldTyped DEF BaseInv
  <2>4. newOutData' \in Results
    <3>1. MaxTime - 1 \in Nat /\ 0 \in 0 .. MaxTime - 1
      BY MaxTimeAssumption
    <3> QED BY <2>1, <3>1, FinalNewRuns DEF BaseInv
  <2> QED BY <1>1, <2>1, <2>2, <2>3, <2>4
          DEF BaseInv, Count, WindowInv, Latest, FarEnough, AddToTCF, Changed, TooLong
<1>5. CASE UNCHANGED vars
  BY <1>5 DEF vars, BaseInv, Count, WindowInv, Latest, FarEnough, AddToTCF, Changed, TooLong
<1> QED BY <1>3, <1>4, <1>5 DEF Next

-----------------------------------------------------------------------------
(* ResidenceTimeSSP: every origin.                                         *)

SSPInv ==
  settings.command # "continuous" /\ settings.otherwise = "product" =>
    outData = IF ended
              THEN Counted(IF Count < MaxTime THEN 2 ELSE 1, Count, Count,
                           Bonds(history), Unreacteds(history))
              ELSE Counted(1, Count - MaxTime + 1, Count, Bonds(history), Unreacteds(history))

(* A later frame changes nothing of the origins that are counted.          *)
LEMMA LaterFrame ==
  ASSUME NEW h \in Seq(Seens), NEW g \in Seq(Seens), Len(g) = Len(h) + 1,
         \A k \in 1 .. Len(h) : g[k] = h[k]
  PROVE  Counted(1, Len(h) - MaxTime + 1, Len(h), Bonds(h), Unreacteds(h))
           = Counted(1, Len(g) - MaxTime, Len(g), Bonds(g), Unreacteds(g))
<1> DEFINE n == Len(h)
           hi == n - MaxTime + 1
<1>1. n \in Nat /\ MaxTime \in Nat \ {0} /\ Len(g) = n + 1 /\ hi \in Int
  BY MaxTimeAssumption
<1>2. ASSUME NEW lag \in Lags, NEW o \in 1 .. hi
      PROVE  /\ o \in 1 .. n /\ o \in 1 .. n + 1 /\ o + lag <= n /\ o + lag <= n + 1
             /\ lag \in Nat /\ \A f \in o .. o + lag : f \in 1 .. n
  BY <1>1, LagFacts
<1>3. ASSUME NEW lag \in Lags, NEW o \in 1 .. hi
      PROVE  /\ o \in Bonds(h) <=> o \in Bonds(g)
             /\ <<o, lag>> \in Unreacteds(h) <=> <<o, lag>> \in Unreacteds(g)
  <2>1. o \in Bonds(h) <=> h[o].bond
    BY <1>2 DEF Bonds
  <2>2. o \in Bonds(g) <=> g[o].bond
    BY <1>1, <1>2 DEF Bonds
  <2>3. <<o, lag>> \in Unreacteds(h) <=> \A f \in o .. o + lag : ~HasReacted(h[f])
    BY <1>2 DEF Unreacteds
  <2>4. <<o, lag>> \in Unreacteds(g) <=> \A f \in o .. o + lag : ~HasReacted(g[f])
    BY <1>1, <1>2 DEF Unreacteds
  <2>5. \A f \in o .. o + lag : g[f] = h[f]
    BY <1>2
  <2>6. g[o] = h[o]
    BY <1>2
  <2> QED BY <2>1, <2>2, <2>3, <2>4, <2>5, <2>6
<1>4. Len(g) - MaxTime = hi /\ Len(g) \in Int /\ n \in Int
  BY <1>1
<1>5. \A lag \in Lags, o \in 1 .. hi : o + lag <= n <=> o + lag <= Len(g)
  BY <1>1, <1>2
<1> HIDE DEF hi, n
<1>6. Counted(1, hi, n, Bonds(h), Unreacteds(h)) = Counted(1, hi, Len(g), Bonds(g), Unreacteds(g))
  BY <1>1, <1>3, <1>4, <1>5, SameCounted
<1> QED BY <1>4, <1>6 DEF n, hi

LEMMA SSPInit == Init => SSPInv
<1> SUFFICES ASSUME Init PROVE SSPInv
  OBVIOUS
<1>1. history = <<>> /\ ended = FALSE /\ outData = Zero /\ Count = 0
  BY DEF Init, Count
<1>2. 0 - MaxTime + 1 < 1 /\ 0 - MaxTime + 1 \in Int
  BY MaxTimeAssumption
<1>3. Counted(1, 0 - MaxTime + 1, 0, Bonds(history), Unreacteds(history)) = Zero
  BY <1>2, NoOrigins
<1> QED BY <1>1, <1>3 DEF SSPInv

LEMMA SSPStep == BaseInv /\ SSPInv /\ [Next]_vars => SSPInv'
<1> SUFFICES ASSUME BaseInv, SSPInv, [Next]_vars PROVE SSPInv'
  OBVIOUS
<1>1. settings' = settings
  BY SettingsKept
<1> SUFFICES ASSUME settings.command # "continuous", settings.otherwise = "product" PROVE SSPInv'
  <2> QED BY <1>1 DEF SSPInv
<1>2. Bonds(history)' = Bonds(history') /\ Unreacteds(history)' = Unreacteds(history')
  BY <1>1 DEF Bonds, Unreacteds, HasReacted, Changed
<1>3. settings \in Settings /\ history \in Seq(Seens) /\ WindowInv(inData) /\ ~TooLong(inData)
  BY DEF BaseInv
<1>4. ASSUME NEW f \in Seen, Frame(f)
      PROVE  SSPInv'
  <2> DEFINE s == Append(inData, AddToTCF(f))
             g == Append(history, f)
  <2>1. /\ g \in Seq(Seens) /\ Len(g) = Len(history) + 1 /\ \A k \in 1 .. Len(history) : g[k] = history[k]
        /\ s \in Seq(Entries) /\ Latest(s, g) /\ FarEnough(s, g)
        /\ history' = g /\ inData' = TidiedOld(s)
    BY <1>4, FrameWindows
  <2>2. outData' = CorrelateWithLatest(inData', outData, -1) /\ ended' = FALSE /\ ended = FALSE
    BY <1>4 DEF Frame
  <2> HIDE DEF s, g
  <2>3. inData' \in Seq(Entries) /\ Latest(inData', g) /\ FarEnough(inData', g)
    BY <1>3, <2>1, TidiedFarEnough
  <2>4. outData = Counted(1, Len(g) - MaxTime, Len(g), Bonds(g), Unreacteds(g))
    BY <1>3, <2>1, <2>2, LaterFrame DEF SSPInv, Count
  <2>5. outData' = Counted(1, Len(g) - MaxTime + 1, Len(g), Bonds(g), Unreacteds(g))
    BY <1>3, <2>1, <2>2, <2>3, <2>4, CorrelateFrame
  <2> QED BY <1>1, <1>2, <2>1, <2>2, <2>5 DEF SSPInv, Count
<1>5. CASE FinalAction
  <2>1. outData' = FinalOutDataOld /\ ended = FALSE /\ ended' = TRUE /\ history' = history
    BY <1>5 DEF FinalAction
  <2>2. outData = Counted(1, Count - MaxTime + 1, Count, Bonds(history), Unreacteds(history))
    BY <2>1 DEF SSPInv
  <2>3. CASE history = <<>>
    <3>1. outData' = outData /\ Count = 0
      BY <2>1, <2>3 DEF FinalOutDataOld, Count
    <3>2. 0 - MaxTime + 1 < 1 /\ 0 - MaxTime + 1 \in Int /\ 0 < MaxTime
      BY MaxTimeAssumption
    <3>3. Counted(1, 0 - MaxTime + 1, 0, Bonds(history), Unreacteds(history)) = Zero
      BY <3>2, NoOrigins
    <3>4. Counted(2, 0, 0, Bonds(history), Unreacteds(history)) = Zero
      BY NoOrigins
    <3> QED BY <1>2, <2>1, <2>2, <3>1, <3>2, <3>3, <3>4 DEF SSPInv, Count
  <2>4. CASE history # <<>>
    <3>1. FinalOutDataOld = Counted(IF Count < MaxTime THEN 2 ELSE 1, Count, Count,
                                    Bonds(history), Unreacteds(history))
      BY <1>3, <2>2, <2>4, CorrelateAllShorter DEF WindowInv
    <3> QED BY <1>2, <2>1, <3>1 DEF SSPInv, Count
  <2> QED BY <2>3, <2>4
<1>6. CASE UNCHANGED vars
  BY <1>2, <1>6 DEF vars, SSPInv, Count
<1> QED BY <1>4, <1>5, <1>6 DEF Next

LEMMA SSPRight == BaseInv /\ SSPInv => SurvivalOfEachOrigin
<1> SUFFICES ASSUME BaseInv, SSPInv, settings.command # "continuous", settings.otherwise = "product"
             PROVE  SurvivalOfEachOrigin
  BY DEF SurvivalOfEachOrigin
<1> DEFINE lo == IF Count < MaxTime THEN 2 ELSE 1
           Due(lag) == IF ~ended THEN 1 .. Count - MaxTime + 1 ELSE lo .. Count - lag
           A(lag) == {o \in Due(lag) : Bonded(o)}
           B(lag) == {o \in A(lag) : Unreacted(o, o + lag)}
           first == IF ended THEN lo ELSE 1
           hi == IF ended THEN Count ELSE Count - MaxTime + 1
<1>1. Count = Len(history) /\ Count \in Nat /\ MaxTime \in Nat \ {0} /\ ended \in BOOLEAN
  BY MaxTimeAssumption DEF BaseInv, Count
<1>2. outData = Counted(first, hi, Count, Bonds(history), Unreacteds(history))
  BY DEF SSPInv
<1>3. ASSUME NEW lag \in Lags
      PROVE  /\ A(lag) = {o \in first .. hi : o + lag <= Count /\ o \in Bonds(history)}
             /\ B(lag) = {o \in first .. hi : o + lag <= Count /\ o \in Bonds(history)
                                                /\ <<o, lag>> \in Unreacteds(history)}
  <2>1. lag \in 0 .. MaxTime - 1
    BY LagFacts
  <2>2. \A o : o \in Due(lag) <=> o \in first .. hi /\ o + lag <= Count
    BY <1>1, <2>1
  <2>3. \A o \in Due(lag) : o \in 1 .. Count
    BY <1>1, <2>1
  <2>4. \A o \in 1 .. Count : Bonded(o) <=> o \in Bonds(history)
    BY <1>1 DEF Bonds, Bonded
  <2>5. \A o \in 1 .. Count : Unreacted(o, o + lag) <=> <<o, lag>> \in Unreacteds(history)
    <3>1. ASSUME NEW o \in 1 .. Count
          PROVE  <<o, lag>> \in Unreacteds(history) <=> \A f \in o .. o + lag : ~HasReacted(history[f])
      BY <1>1 DEF Unreacteds
    <3> QED BY <3>1 DEF Unreacted, HasReacted
  <2> HIDE DEF Due, first, hi, lo
  <2> QED BY <2>2, <2>3, <2>4, <2>5
<1>4. Counted(first, hi, Count, Bonds(history), Unreacteds(history))
        = [lag \in Lags |-> [value |-> Cardinality(B(lag)), count |-> Cardinality(A(lag))]]
  <2> HIDE DEF A, B, first, hi
  <2> QED BY <1>3 DEF Counted
<1>5. Sum(Due, Bonded, Unreacted)
        = [lag \in Lags |-> [value |-> Cardinality(B(lag)), count |-> Cardinality(A(lag))]]
  BY DEF Sum
<1>6. outData = Sum(Due, Bonded, Unreacted)
  <2> HIDE DEF A, B, Due, first, hi
  <2> QED BY <1>2, <1>4, <1>5
<1> QED BY <1>6 DEF SurvivalOfEachOrigin

-----------------------------------------------------------------------------
(* ResidenceTime: one origin.                                              *)

(* A lag that NewMustBeMember leaves out, and the membership of origin x   *)
(* at a lag, as the loop over the lags looks at them.                      *)
Skipped(s, x, d) == settings.newMustBe /\ ~s[x + d].in1

Remains(s, x, lag) ==
  /\ ~Skipped(s, x, lag)
  /\ settings.recrossings \/ \A d \in 0 .. lag - 1 : Skipped(s, x, d) \/ SingleCorrelate(s, x, d)
  /\ SingleCorrelate(s, x, lag)

LEMMA BrokenAt ==
  ASSUME settings \in Settings, NEW s, NEW x, NEW maxdt \in Nat
  PROVE  CorrelateContinuous(s, x, maxdt) =
           [lag \in Lags |->
              IF lag > maxdt \/ ~IsOldAMember(s, x) THEN [value |-> 0, count |-> 0]
              ELSE [value |-> IF Remains(s, x, lag) THEN 1 ELSE 0, count |-> 1]]
<1> DEFINE hit(d) == ~(settings.newMustBe /\ ~s[x + d].in1) /\ ~SingleCorrelate(s, x, d)
           Body(u) == [dt \in -1 .. maxdt |-> dt >= 0 /\ (u[dt - 1] \/ hit(dt))]
           w == [dt \in -1 .. maxdt |-> \E d \in 0 .. dt : hit(d)]
           broken == CHOOSE u : u = Body(u)
<1>1. CorrelateContinuous(s, x, maxdt) =
        [lag \in Lags |->
           IF lag > maxdt \/ ~IsOldAMember(s, x) THEN [value |-> 0, count |-> 0]
           ELSE [value |-> IF /\ ~(settings.newMustBe /\ ~s[x + lag].in1)
                              /\ ~(broken[lag - 1] /\ ~settings.recrossings)
                              /\ SingleCorrelate(s, x, lag)
                           THEN 1 ELSE 0,
                 count |-> 1]]
  BY DEF CorrelateContinuous
<1> HIDE DEF hit
<1>2. w = Body(w)
  <2>1. ASSUME NEW dt \in -1 .. maxdt
        PROVE  w[dt] = (dt >= 0 /\ (w[dt - 1] \/ hit(dt)))
    <3>1. w[dt] = \E d \in 0 .. dt : hit(d)
      OBVIOUS
    <3>2. dt >= 0 => w[dt - 1] = \E d \in 0 .. dt - 1 : hit(d)
      <4>1. dt >= 0 => dt - 1 \in -1 .. maxdt
        OBVIOUS
      <4> QED BY <4>1
    <3> HIDE DEF w
    <3>3. /\ \A d \in 0 .. dt : dt >= 0 /\ (d = dt \/ d \in 0 .. dt - 1)
          /\ \A d \in 0 .. dt - 1 : d \in 0 .. dt
          /\ dt >= 0 => dt \in 0 .. dt
      OBVIOUS
    <3>4. (\E d \in 0 .. dt : hit(d)) <=> (dt >= 0 /\ ((\E d \in 0 .. dt - 1 : hit(d)) \/ hit(dt)))
      BY <3>3, Zenon
    <3> QED BY <3>1, <3>2, <3>4, Zenon
  <2>2. w = [dt \in -1 .. maxdt |-> w[dt]]
    OBVIOUS
  <2> HIDE DEF w
  <2> QED BY <2>1, <2>2
<1>3. broken = Body(broken)
  <2> HIDE DEF w, Body
  <2> QED BY <1>2
<1>4. \A dt \in -1 .. maxdt : broken[dt] <=> \E d \in 0 .. dt : hit(d)
  <2> HIDE DEF broken
  <2>1. \A dt \in -1 .. maxdt : broken[dt] = (dt >= 0 /\ (broken[dt - 1] \/ hit(dt)))
    BY <1>3
  <2> DEFINE S == {k \in Nat : broken[k - 1] <=> \E d \in 0 .. k - 1 : hit(d)}
  <2>2. 0 \in S
    <3>1. 0 - 1 \in -1 .. maxdt /\ (0 - 1 >= 0) = FALSE /\ 0 .. 0 - 1 = {} /\ 0 \in Nat
      OBVIOUS
    <3>2. broken[0 - 1] = FALSE
      BY <2>1, <3>1
    <3> QED BY <3>1, <3>2
  <2>3. ASSUME NEW k \in 1 .. maxdt + 1, k - 1 \in S
        PROVE  k \in S
    <3>1. k - 1 \in -1 .. maxdt /\ (k - 1 >= 0) = TRUE /\ k \in Nat
      OBVIOUS
    <3>2. broken[k - 1] = (broken[k - 1 - 1] \/ hit(k - 1))
      BY <2>1, <3>1
    <3>3. broken[k - 1 - 1] <=> \E d \in 0 .. k - 1 - 1 : hit(d)
      BY <2>3
    <3>4. /\ \A d \in 0 .. k - 1 : d = k - 1 \/ d \in 0 .. k - 1 - 1
          /\ \A d \in 0 .. k - 1 - 1 : d \in 0 .. k - 1
          /\ k - 1 \in 0 .. k - 1
      OBVIOUS
    <3>5. broken[k - 1] <=> \E d \in 0 .. k - 1 : hit(d)
      BY <3>2, <3>3, <3>4, Zenon
    <3> QED BY <3>1, <3>5
  <2>4. \A k \in 1 .. maxdt + 1 : k - 1 \in S => k \in S
    BY <2>3
  <2>5. \A k \in S : broken[k - 1] <=> \E d \in 0 .. k - 1 : hit(d)
    OBVIOUS
  <2>6. maxdt + 1 \in Nat /\ \A dt \in -1 .. maxdt : dt + 1 \in 0 .. maxdt + 1 /\ dt + 1 - 1 = dt
    OBVIOUS
  <2> HIDE DEF S
  <2>7. 0 .. maxdt + 1 \subseteq S
    BY <2>2, <2>4, <2>6, Everywhere
  <2>8. ASSUME NEW dt \in -1 .. maxdt
        PROVE  broken[dt] <=> \E d \in 0 .. dt : hit(d)
    <3>1. dt + 1 \in S /\ dt + 1 - 1 = dt
      BY <2>6, <2>7
    <3>2. broken[dt + 1 - 1] <=> \E d \in 0 .. dt + 1 - 1 : hit(d)
      BY <2>5, <3>1
    <3> QED BY <3>1, <3>2
  <2> QED BY <2>8
<1> HIDE DEF broken
<1>5. ASSUME NEW lag \in Lags, ~(lag > maxdt)
      PROVE  (/\ ~(settings.newMustBe /\ ~s[x + lag].in1)
              /\ ~(broken[lag - 1] /\ ~settings.recrossings)
              /\ SingleCorrelate(s, x, lag)) <=> Remains(s, x, lag)
  <2>1. lag - 1 \in -1 .. maxdt
    BY <1>5, LagFacts
  <2>2. broken[lag - 1] <=> \E d \in 0 .. lag - 1 : hit(d)
    BY <1>4, <2>1
  <2>3. \A d : hit(d) <=> ~(Skipped(s, x, d) \/ SingleCorrelate(s, x, d))
    BY DEF hit, Skipped
  <2> QED BY <2>2, <2>3, Zenon DEF Remains, Skipped
<1> QED BY <1>1, <1>5

(* The membership in the frames h, as Stays has it in the trajectory.      *)
Away(h, f, limit) == \A g \in f .. f + limit : ~h[g].bond

EscapesIn(h, first, last, limit) == \E f \in first .. last - limit : Away(h, f, limit)

OutsideIn(h, first, last) == Cardinality({f \in first .. last : ~h[f].bond})

(* The limits that are given are kept.                                     *)
WithinIn(h, first, last) ==
  /\ settings.maxEscape >= 0 => ~EscapesIn(h, first, last, settings.maxEscape)
  /\ settings.maxTotalEscape >= 0 => OutsideIn(h, first, last) <= settings.maxTotalEscape

StaysIn(h, origin, last, presentAtEnd) ==
  IF Complicated
  THEN WithinIn(h, origin, last) /\ (presentAtEnd => h[last].bond)
  ELSE IF settings.newMustBe \/ settings.recrossings THEN h[last].bond
  ELSE ~EscapesIn(h, origin, last, 0)

LEMMA EscapesLater ==
  ASSUME NEW h, NEW o \in Int, NEW d \in Int, NEW e \in Int, d <= e, NEW limit \in Int,
         EscapesIn(h, o, o + d, limit)
  PROVE  EscapesIn(h, o, o + e, limit)
<1>1. PICK f \in o .. o + d - limit : Away(h, f, limit)
  BY DEF EscapesIn
<1>2. f \in o .. o + e - limit
  OBVIOUS
<1> QED BY <1>1, <1>2 DEF EscapesIn

LEMMA OutsideFacts ==
  ASSUME NEW h, NEW o \in Int, NEW d \in Nat
  PROVE  OutsideIn(h, o, o + d) \in Nat /\ OutsideIn(h, o, o + d) <= d + 1
<1> DEFINE S == {f \in o .. o + d : ~h[f].bond}
<1>1. IsFiniteSet(o .. o + d) /\ Cardinality(o .. o + d) = d + 1
  <2>1. o + d \in Int /\ ~(o > o + d) /\ (o + d) - o + 1 = d + 1
    OBVIOUS
  <2> QED BY <2>1, FS_Interval
<1>2. S \subseteq o .. o + d
  OBVIOUS
<1> HIDE DEF S
<1>3. IsFiniteSet(S) /\ Cardinality(S) <= Cardinality(o .. o + d)
  BY <1>1, <1>2, FS_Subset
<1>4. Cardinality(S) \in Nat
  BY <1>3, FS_CardinalityType
<1> QED BY <1>1, <1>3, <1>4 DEF OutsideIn, S

LEMMA OutsideLater ==
  ASSUME NEW h, NEW o \in Int, NEW d \in Nat, NEW e \in Nat, d <= e
  PROVE  OutsideIn(h, o, o + d) <= OutsideIn(h, o, o + e)
<1> DEFINE S == {f \in o .. o + d : ~h[f].bond}
           T == {f \in o .. o + e : ~h[f].bond}
<1>1. S \subseteq T /\ T \subseteq o .. o + e
  OBVIOUS
<1>2. IsFiniteSet(o .. o + e)
  BY FS_Interval
<1> HIDE DEF S, T
<1>3. IsFiniteSet(T)
  BY <1>1, <1>2, FS_Subset
<1>4. Cardinality(S) <= Cardinality(T)
  BY <1>1, <1>3, FS_Subset
<1> QED BY <1>4 DEF OutsideIn, S, T

(* Of the frames h only those from the first to the last one matter.       *)
LEMMA SameEscapes ==
  ASSUME NEW h, NEW g, NEW o \in Int, NEW lag \in Nat, \A f \in o .. o + lag : g[f] = h[f]
  PROVE  /\ \A limit \in Nat : EscapesIn(h, o, o + lag, limit) <=> EscapesIn(g, o, o + lag, limit)
         /\ OutsideIn(h, o, o + lag) = OutsideIn(g, o, o + lag)
<1>1. ASSUME NEW limit \in Nat
      PROVE  EscapesIn(h, o, o + lag, limit) <=> EscapesIn(g, o, o + lag, limit)
  <2>1. ASSUME NEW f \in o .. (o + lag) - limit
        PROVE  Away(h, f, limit) <=> Away(g, f, limit)
    <3>1. \A k \in f .. f + limit : k \in o .. o + lag
      OBVIOUS
    <3>2. \A k \in f .. f + limit : g[k] = h[k]
      BY <3>1
    <3> QED BY <3>2, Zenon DEF Away
  <2> QED BY <2>1, Zenon DEF EscapesIn
<1>2. {f \in o .. o + lag : ~h[f].bond} = {f \in o .. o + lag : ~g[f].bond}
  OBVIOUS
<1> QED BY <1>1, <1>2 DEF OutsideIn

LEMMA StaysLater ==
  ASSUME settings \in Settings, NEW h, NEW g, NEW o \in Int, NEW lag \in Nat,
         \A f \in o .. o + lag : g[f] = h[f], NEW present
  PROVE  StaysIn(h, o, o + lag, present) <=> StaysIn(g, o, o + lag, present)
<1>1. /\ \A limit \in Nat : EscapesIn(h, o, o + lag, limit) <=> EscapesIn(g, o, o + lag, limit)
      /\ OutsideIn(h, o, o + lag) = OutsideIn(g, o, o + lag)
  BY SameEscapes
<1>2. g[o + lag] = h[o + lag]
  <2>1. o + lag \in o .. o + lag
    OBVIOUS
  <2> QED BY <2>1
<1>3. settings.maxEscape >= 0 => settings.maxEscape \in Nat
  BY SettingsAssumption
<1>4. settings.maxEscape >= 0 =>
        (EscapesIn(h, o, o + lag, settings.maxEscape) <=> EscapesIn(g, o, o + lag, settings.maxEscape))
  BY <1>1, <1>3
<1>5. EscapesIn(h, o, o + lag, 0) <=> EscapesIn(g, o, o + lag, 0)
  BY <1>1
<1>6. WithinIn(h, o, o + lag) <=> WithinIn(g, o, o + lag)
  BY <1>1, <1>4, Zenon DEF WithinIn
<1> QED BY <1>2, <1>5, <1>6, Zenon DEF StaysIn

(* The flags F from x on are those of the frames from o on.                *)
Shows(F, x, h, o, lag) ==
  \A d \in 0 .. lag : F[x + d] = h[o + d].bond /\ F[x + d] \in BOOLEAN

AreFlags(b, h, o, lag) ==
  b \in [0 .. lag -> BOOLEAN] /\ \A k \in 0 .. lag : b[k] = h[o + k].bond

(* The counters run over them.                                             *)
LEMMA FlagsCounted ==
  ASSUME NEW h, NEW F, NEW x \in Int, NEW o \in Int, NEW lag \in Nat,
         Shows(F, x, h, o, lag)
  PROVE  \E b : AreFlags(b, h, o, lag) /\ CountedRight(b, lag, Zeroes(F, x, x + lag))
<1> DEFINE b == [k \in 0 .. lag |-> F[x + k * NumItems]]
<1>1. NumItems = 1
  BY OneItemAssumption
<1>2. \A k \in 0 .. lag : x + k * NumItems = x + k
  BY <1>1
<1>3. \A k \in 0 .. lag : b[k] = h[o + k].bond /\ b[k] \in BOOLEAN
  <2>1. \A k \in 0 .. lag : b[k] = F[x + k]
    BY <1>2
  <2> HIDE DEF b
  <2> QED BY <2>1 DEF Shows
<1>4. b \in [0 .. lag -> BOOLEAN]
  BY <1>3
<1>5. (x + lag - x) \div NumItems = lag
  BY <1>1
<1>6. CountedRight(b, lag, Zeroes(F, x, x + lag))
  <2>1. \A k \in 0 .. lag : b[k] = F[x + k * NumItems]
    OBVIOUS
  <2> HIDE DEF b
  <2> QED BY <1>4, <1>5, <2>1, ZeroesRight
<1>7. AreFlags(b, h, o, lag)
  <2> HIDE DEF b
  <2> QED BY <1>3, <1>4 DEF AreFlags
<1> HIDE DEF b
<1> QED BY <1>6, <1>7

(* The longest escape that they show is that of the frames.                *)
LEMMA LongestEscape ==
  ASSUME NEW h, NEW F, NEW x \in Int, NEW o \in Int, NEW lag \in Nat,
         \A d \in 0 .. lag : F[x + d] = h[o + d].bond /\ F[x + d] \in BOOLEAN,
         NEW limit \in Nat
  PROVE  Zeroes(F, x, x + lag).longest <= limit <=> ~EscapesIn(h, o, o + lag, limit)
<1>1. PICK b : AreFlags(b, h, o, lag) /\ CountedRight(b, lag, Zeroes(F, x, x + lag))
  <2>1. Shows(F, x, h, o, lag)
    BY Zenon DEF Shows
  <2> QED BY <2>1, FlagsCounted, Zenon
<1>2. \A k \in 0 .. lag : b[k] = h[o + k].bond
  BY <1>1 DEF AreFlags
<1>7. Zeroes(F, x, x + lag).longest <= limit <=> NoLongRun(b, lag, limit)
  BY <1>1 DEF CountedRight
<1>8. NoLongRun(b, lag, limit) <=> ~EscapesIn(h, o, o + lag, limit)
  <2>1. ASSUME NEW f \in 0 .. lag - limit, \A g \in f .. f + limit : ~b[g]
        PROVE  EscapesIn(h, o, o + lag, limit)
    <3>1. o + f \in o .. o + lag - limit
      OBVIOUS
    <3>2. ASSUME NEW g \in o + f .. o + f + limit
          PROVE  ~h[g].bond
      <4>1. g - o \in f .. f + limit /\ g - o \in 0 .. lag /\ o + (g - o) = g
        OBVIOUS
      <4> QED BY <1>2, <2>1, <4>1
    <3>3. Away(h, o + f, limit)
      BY <3>2 DEF Away
    <3> QED BY <3>1, <3>3 DEF EscapesIn
  <2>2. ASSUME NEW k \in o .. o + lag - limit, Away(h, k, limit)
        PROVE  ~NoLongRun(b, lag, limit)
    <3>1. k - o \in 0 .. lag - limit
      OBVIOUS
    <3>2. ASSUME NEW g \in k - o .. k - o + limit
          PROVE  ~b[g]
      <4>1. o + g \in k .. k + limit /\ g \in 0 .. lag
        OBVIOUS
      <4> QED BY <1>2, <2>2, <4>1 DEF Away
    <3> QED BY <3>1, <3>2 DEF NoLongRun
  <2>3. NoLongRun(b, lag, limit) <=> ~ \E f \in 0 .. lag - limit : \A g \in f .. f + limit : ~b[g]
    BY Zenon DEF NoLongRun
  <2>4. EscapesIn(h, o, o + lag, limit) => ~NoLongRun(b, lag, limit)
    BY <2>2 DEF EscapesIn
  <2> QED BY <2>1, <2>3, <2>4, Zenon
<1> QED BY <1>7, <1>8

LEMMA TotalOutside ==
  ASSUME NEW h, NEW F, NEW x \in Int, NEW o \in Int, NEW lag \in Nat,
         Shows(F, x, h, o, lag)
  PROVE  Zeroes(F, x, x + lag).total = OutsideIn(h, o, o + lag)
<1>1. PICK b : AreFlags(b, h, o, lag) /\ CountedRight(b, lag, Zeroes(F, x, x + lag))
  BY FlagsCounted, Zenon
<1>2. \A k \in 0 .. lag : b[k] = h[o + k].bond
  BY <1>1 DEF AreFlags
<1> DEFINE S == {k \in 0 .. lag : ~b[k]}
           T == {f \in o .. o + lag : ~h[f].bond}
           m == [k \in S |-> o + k]
<1>3. IsFiniteSet(S)
  <2>1. IsFiniteSet(0 .. lag) /\ S \subseteq 0 .. lag
    BY FS_Interval
  <2> HIDE DEF S
  <2> QED BY <2>1, FS_Subset
<1>4. \A k \in S : m[k] \in T
  <2>1. \A k \in 0 .. lag : o + k \in o .. o + lag
    OBVIOUS
  <2> QED BY <1>2, <2>1
<1>5. \A f \in T : f - o \in S /\ m[f - o] = f
  <2>1. \A f \in o .. o + lag : f - o \in 0 .. lag /\ o + (f - o) = f
    OBVIOUS
  <2>2. \A f \in T : f - o \in S
    BY <1>2, <2>1
  <2> QED BY <2>1, <2>2
<1>6. \A j, k \in S : m[j] = m[k] => j = k
  <2>1. \A j, k \in S : m[j] = o + j /\ m[k] = o + k /\ j \in Int /\ k \in Int
    OBVIOUS
  <2> HIDE DEF m, S
  <2> QED BY <2>1
<1>7. m \in [S -> T]
  BY <1>4
<1> HIDE DEF m
<1>8. m \in Bijection(S, T)
  <2> HIDE DEF S, T
  <2> QED BY <1>5, <1>6, <1>7 DEF Bijection, Injection, Surjection, IsInjective
<1> HIDE DEF S, T
<1>9. Cardinality(T) = Cardinality(S)
  BY <1>3, <1>8, FS_Bijection DEF ExistsBijection
<1> QED BY <1>1, <1>9 DEF CountedRight, FalseFlags, OutsideIn, S, T

(* The window s shows from x on the frames from o on.                      *)
LEMMA SingleRight ==
  ASSUME settings \in Settings,
         NEW h, NEW s \in Seq(Entries), NEW x \in 1 .. Len(s), NEW o \in Int,
         NEW d \in 0 .. MaxTime - 1, x + d <= Len(s),
         \A k \in 0 .. d : s[x + k].in1 = h[o + k].bond /\ s[x + k].in1 \in BOOLEAN,
         Complicated
  PROVE  SingleCorrelate(s, x, d) <=> WithinIn(h, o, o + d)
<1> DEFINE F == InData1(s)
           z == Zeroes(F, x, x + d)
           M == settings.maxEscape
           T == settings.maxTotalEscape
<1>1. M \in Int /\ T \in Int
  BY SettingsAssumption
<1>2. d \in Nat /\ x \in Int /\ d + 1 <= NotGiven /\ NotGiven \in Nat
  BY LimitAssumption, MaxTimeAssumption DEF NotGiven
<1>3. \A k \in 0 .. d : F[x + k] = h[o + k].bond /\ F[x + k] \in BOOLEAN
  <2>1. \A k \in 0 .. d : x + k \in DOMAIN s
    OBVIOUS
  <2> QED BY <2>1 DEF InData1
<1> HIDE DEF F
<1>4. \A limit \in Nat : z.longest <= limit <=> ~EscapesIn(h, o, o + d, limit)
  BY <1>2, <1>3, LongestEscape
<1>5. z.total = OutsideIn(h, o, o + d)
  <2>1. Shows(F, x, h, o, d)
    BY <1>3, Zenon DEF Shows
  <2>2. d \in Nat /\ x \in Int /\ o \in Int
    BY <1>2
  <2> QED BY <2>1, <2>2, TotalOutside
<1>6. OutsideIn(h, o, o + d) \in Nat /\ OutsideIn(h, o, o + d) <= NotGiven
  <2>1. OutsideIn(h, o, o + d) \in Nat /\ OutsideIn(h, o, o + d) <= d + 1
    BY <1>2, OutsideFacts, Zenon
  <2> QED BY <1>2, <2>1
<1>7. ~EscapesIn(h, o, o + d, NotGiven)
  <2>1. (o + d) - NotGiven < o
    BY <1>2
  <2> HIDE DEF NotGiven
  <2>2. \A f \in o .. (o + d) - NotGiven : FALSE
    BY <1>2, <2>1
  <2> QED BY <2>2 DEF EscapesIn
<1>8. SingleCorrelate(s, x, d) <=> z.longest <= Limit(M) /\ z.total <= Limit(T)
  BY DEF SingleCorrelate, F
<1> HIDE DEF z
<1>9. z.longest <= Limit(M) <=> (M >= 0 => ~EscapesIn(h, o, o + d, M))
  <2>1. CASE M >= 0
    BY <1>1, <1>4, <2>1 DEF Limit
  <2>2. CASE ~(M >= 0)
    <3>1. Limit(M) = NotGiven
      BY <1>1, <2>2 DEF Limit
    <3> HIDE DEF M
    <3> QED BY <1>2, <1>4, <1>7, <2>2, <3>1
  <2> QED BY <2>1, <2>2
<1>10. z.total <= Limit(T) <=> (T >= 0 => OutsideIn(h, o, o + d) <= T)
  BY <1>1, <1>5, <1>6 DEF Limit
<1> QED BY <1>8, <1>9, <1>10 DEF WithinIn

LEMMA RemainsRight ==
  ASSUME settings \in Settings,
         NEW h \in Seq(Seens), NEW s \in Seq(Entries), NEW x \in 1 .. Len(s), NEW o \in Int,
         NEW lag \in 0 .. MaxTime - 1, x + lag <= Len(s),
         \A d \in 0 .. lag : s[x + d].in1 = h[o + d].bond /\ s[x + d].in1 \in BOOLEAN
  PROVE  Remains(s, x, lag) <=> StaysIn(h, o, o + lag, settings.newMustBe)
<1> DEFINE Bond(d) == h[o + d].bond
           Single(d) == SingleCorrelate(s, x, d)
<1>1. settings.maxEscape \in Int /\ settings.newMustBe \in BOOLEAN /\ settings.recrossings \in BOOLEAN
  BY SettingsAssumption
<1>2. \A d \in 0 .. lag : (s[x + d].in1 <=> Bond(d)) /\ (Skipped(s, x, d) <=> settings.newMustBe /\ ~Bond(d))
  BY DEF Skipped
<1>3. lag \in Nat /\ lag \in 0 .. lag /\ \A d \in 0 .. lag - 1 : d \in 0 .. lag
  OBVIOUS
<1>4. CASE Complicated
  <2>1. ASSUME NEW d \in 0 .. lag
        PROVE  Single(d) <=> WithinIn(h, o, o + d)
    <3>1. d \in 0 .. MaxTime - 1 /\ x + d <= Len(s) /\ \A k \in 0 .. d : k \in 0 .. lag
      BY MaxTimeAssumption
    <3> QED BY <1>4, <3>1, SingleRight
  <2>2. ASSUME NEW d \in 0 .. lag, ~WithinIn(h, o, o + d)
        PROVE  ~WithinIn(h, o, o + lag)
    <3>1. d \in Nat /\ lag \in Nat /\ d <= lag
      OBVIOUS
    <3>2. EscapesIn(h, o, o + d, settings.maxEscape) => EscapesIn(h, o, o + lag, settings.maxEscape)
      BY <1>1, <3>1, EscapesLater
    <3>3. OutsideIn(h, o, o + d) <= OutsideIn(h, o, o + lag)
      BY <3>1, OutsideLater
    <3>4. OutsideIn(h, o, o + d) \in Nat /\ OutsideIn(h, o, o + lag) \in Nat
      BY <3>1, OutsideFacts
    <3>5. settings.maxTotalEscape \in Int
      BY SettingsAssumption
    <3>6. OutsideIn(h, o, o + lag) <= settings.maxTotalEscape
            => OutsideIn(h, o, o + d) <= settings.maxTotalEscape
      BY <3>3, <3>4, <3>5
    <3> QED BY <2>2, <3>2, <3>6 DEF WithinIn
  <2>4. StaysIn(h, o, o + lag, settings.newMustBe)
          <=> WithinIn(h, o, o + lag) /\ (settings.newMustBe => Bond(lag))
    BY <1>4 DEF StaysIn
  <2>5. Remains(s, x, lag)
          <=> /\ ~Skipped(s, x, lag)
              /\ settings.recrossings \/ \A d \in 0 .. lag - 1 : Skipped(s, x, d) \/ Single(d)
              /\ Single(lag)
    BY DEF Remains
  <2> HIDE DEF Single, Bond
  <2> QED BY <1>2, <1>3, <2>1, <2>2, <2>4, <2>5
<1>5. CASE ~Complicated
  <2>2. \A d \in 0 .. lag : Single(d) <=> Bond(d)
    BY <1>2, <1>5 DEF SingleCorrelate
  <2>3. (\A d \in 0 .. lag : Bond(d)) <=> ~EscapesIn(h, o, o + lag, 0)
    <3>1. ASSUME NEW d \in 0 .. lag, ~Bond(d)
          PROVE  EscapesIn(h, o, o + lag, 0)
      <4>1. o + d \in o .. o + lag - 0 /\ (o + d) .. (o + d) + 0 = {o + d}
        OBVIOUS
      <4>2. Away(h, o + d, 0)
        BY <3>1, <4>1 DEF Away
      <4> QED BY <4>1, <4>2 DEF EscapesIn
    <3>2. ASSUME NEW f \in o .. o + lag - 0, Away(h, f, 0)
          PROVE  ~ \A d \in 0 .. lag : Bond(d)
      <4>1. f - o \in 0 .. lag /\ o + (f - o) = f /\ f \in f .. f + 0
        OBVIOUS
      <4>2. ~h[o + (f - o)].bond
        BY <3>2, <4>1 DEF Away
      <4> QED BY <4>1, <4>2
    <3>3. EscapesIn(h, o, o + lag, 0) => ~ \A d \in 0 .. lag : Bond(d)
      BY <3>2 DEF EscapesIn
    <3> QED BY <3>1, <3>3
  <2>4. StaysIn(h, o, o + lag, settings.newMustBe)
          <=> IF settings.newMustBe \/ settings.recrossings THEN Bond(lag)
              ELSE \A d \in 0 .. lag : Bond(d)
    BY <1>5, <2>3 DEF StaysIn
  <2>5. Remains(s, x, lag)
          <=> /\ ~Skipped(s, x, lag)
              /\ settings.recrossings \/ \A d \in 0 .. lag - 1 : Skipped(s, x, d) \/ Single(d)
              /\ Single(lag)
    BY DEF Remains
  <2>6. \A d \in 0 .. lag : d = lag \/ d \in 0 .. lag - 1
    OBVIOUS
  <2> HIDE DEF Single, Bond
  <2> QED BY <1>1, <1>2, <1>3, <2>2, <2>4, <2>5, <2>6
<1> QED BY <1>4, <1>5

-----------------------------------------------------------------------------
(* ResidenceTime: every origin that is used.                               *)

Every == (settings.tidyOld - 1) * MaxTime + 1

(* The frames after the first trimming, up to the one at which origin o is *)
(* used, of the period from one trimming to the next.                      *)
Phase(n) == (n - settings.tidyOld * MaxTime - 1) % Every

(* The origin o is used too soon after a trimming.                         *)
Forgotten(o) ==
  /\ settings.tidyOld > 0
  /\ o + MaxTime > settings.tidyOld * MaxTime
  /\ Phase(o + MaxTime) <= settings.mustBeFor

(* The membership that is asked of an origin, as WasMember has it.         *)
WasMemberIn(h, o) ==
  IF settings.mustBeFor = 0 THEN h[o].bond
  ELSE /\ ~EscapesIn(h, o - settings.mustBeFor, o, Allowed(settings.oldMaxEscape))
       /\ OutsideIn(h, o - settings.mustBeFor, o) <= Allowed(settings.oldMaxTotalEscape)

MemberOrigins(h) ==
  {o \in 1 .. Len(h) : ~Forgotten(o) /\ o > settings.mustBeFor /\ WasMemberIn(h, o)}

Members(h) ==
  {p \in (1 .. Len(h)) \X Lags : StaysIn(h, p[1], p[1] + p[2], settings.newMustBe)}

(* How many of n frames the window holds.                                  *)
WindowLength(n) ==
  IF settings.tidyOld > 0 /\ n > settings.tidyOld * MaxTime THEN MaxTime + Phase(n) ELSE n

LengthInv == Len(inData) = WindowLength(Count)

LEMMA EveryFacts ==
  ASSUME settings \in Settings, settings.tidyOld > 0
  PROVE  /\ Every \in Nat \ {0} /\ Every = settings.tidyOld * MaxTime - MaxTime + 1
         /\ settings.tidyOld * MaxTime \in Nat \ {0} /\ MaxTime \in Nat \ {0}
<1>1. settings.tidyOld \in Int /\ MaxTime \in Nat \ {0}
  BY SettingsAssumption, MaxTimeAssumption
<1>2. (settings.tidyOld - 1) * MaxTime = settings.tidyOld * MaxTime - MaxTime
  BY <1>1
<1>3. settings.tidyOld * MaxTime \in Int /\ settings.tidyOld * MaxTime >= MaxTime
  BY TidyBound
<1> QED BY <1>1, <1>2, <1>3 DEF Every

LEMMA PhaseNext ==
  ASSUME settings \in Settings, settings.tidyOld > 0, NEW n \in Nat, n > settings.tidyOld * MaxTime
  PROVE  /\ Phase(n) \in 0 .. Every - 1
         /\ Phase(n + 1) = IF Phase(n) = Every - 1 THEN 0 ELSE Phase(n) + 1
<1> DEFINE P == settings.tidyOld * MaxTime
           m == n - P - 1
<1>1. Every \in Nat \ {0} /\ P \in Nat
  BY EveryFacts
<1>2. m \in Nat /\ (n + 1) - P - 1 = m + 1
  BY <1>1
<1>3. Phase(n) = m % Every /\ Phase(n + 1) = (m + 1) % Every
  <2>1. Phase(n) = (n - settings.tidyOld * MaxTime - 1) % Every
    BY DEF Phase
  <2>2. Phase(n + 1) = ((n + 1) - P - 1) % Every
    BY DEF Phase
  <2>3. Phase(n + 1) = (m + 1) % Every
    BY <1>2, <2>2
  <2> QED BY <2>1, <2>3 DEF m
<1> HIDE DEF P
<1> HIDE DEF m
<1>4. m % Every \in 0 .. m /\ m % Every < Every
  BY <1>1, <1>2, ModBounds
<1>5. (m + 1) % Every = IF m % Every = Every - 1 THEN 0 ELSE (m % Every) + 1
  BY <1>1, <1>2, ModSuccessor
<1>6. \A r \in 0 .. m : r < Every => r \in 0 .. Every - 1
  BY <1>1, <1>2
<1> QED BY <1>2, <1>3, <1>4, <1>5, <1>6

LEMMA PhaseStart ==
  ASSUME settings \in Settings, settings.tidyOld > 0
  PROVE  Phase(settings.tidyOld * MaxTime + 1) = 0
<1> DEFINE P == settings.tidyOld * MaxTime
<1>1. Every \in Nat \ {0} /\ P \in Nat
  BY EveryFacts
<1>2. Phase(P + 1) = ((P + 1) - P - 1) % Every
  BY DEF Phase
<1> HIDE DEF P
<1>3. (P + 1) - P - 1 = 0
  BY <1>1
<1>4. 0 % Every \in 0 .. 0
  BY <1>1, ModBounds
<1> QED BY <1>2, <1>3, <1>4 DEF P

LEMMA LengthNext ==
  ASSUME settings \in Settings, NEW n \in Nat, NEW h \in Seq(Seens), NEW s \in Seq(Entries), Latest(s, h),
         Len(s) = WindowLength(n) + 1
  PROVE  Len(TidiedOld(s)) = WindowLength(n + 1)
<1> DEFINE P == settings.tidyOld * MaxTime
<1>1. (TooLong(s) => Len(TidiedOld(s)) = MaxTime) /\ (~TooLong(s) => TidiedOld(s) = s)
  BY TidiedOldWindow
<1>2. settings.tidyOld \in Int /\ P \in Int /\ MaxTime \in Nat \ {0}
  BY SettingsAssumption, TidyBound, MaxTimeAssumption
<1>3. CASE ~(settings.tidyOld > 0)
  BY <1>1, <1>3 DEF WindowLength, TooLong
<1>4. CASE settings.tidyOld > 0
  <2>1. Every \in Nat \ {0} /\ Every = P - MaxTime + 1 /\ P \in Nat \ {0}
    BY <1>4, EveryFacts
  <2>2. TooLong(s) <=> Len(s) > P
    BY <1>4 DEF TooLong
  <2>3. \A k : WindowLength(k) = IF k > P THEN MaxTime + Phase(k) ELSE k
    BY <1>4 DEF WindowLength
  <2>4. n > P => Phase(n) \in 0 .. Every - 1 /\ Phase(n + 1) = IF Phase(n) = Every - 1 THEN 0 ELSE Phase(n) + 1
    BY <1>4, PhaseNext
  <2>5. Phase(P + 1) = 0
    BY <1>4, PhaseStart
  <2> HIDE DEF P
  <2>6. CASE n > P
    <3>1. Len(s) = MaxTime + Phase(n) + 1 /\ WindowLength(n + 1) = MaxTime + Phase(n + 1)
      BY <1>2, <2>3, <2>6
    <3>2. CASE Phase(n) = Every - 1
      <4>1. Len(s) > P /\ Phase(n + 1) = 0
        BY <1>2, <2>1, <2>4, <2>6, <3>1, <3>2
      <4> QED BY <1>1, <1>2, <2>2, <3>1, <4>1
    <3>3. CASE Phase(n) # Every - 1
      <4>1. ~(Len(s) > P) /\ Phase(n + 1) = Phase(n) + 1 /\ Phase(n) \in Int
        BY <1>2, <2>1, <2>4, <2>6, <3>1, <3>3
      <4>2. Len(TidiedOld(s)) = Len(s)
        BY <1>1, <2>2, <4>1
      <4> QED BY <1>2, <3>1, <4>1, <4>2
    <3> QED BY <3>2, <3>3
  <2>7. CASE n = P
    BY <1>1, <1>2, <2>1, <2>2, <2>3, <2>5, <2>7
  <2>8. CASE n < P
    BY <1>1, <1>2, <2>1, <2>2, <2>3, <2>8
  <2> QED BY <1>2, <2>1, <2>6, <2>7, <2>8
<1> QED BY <1>3, <1>4

(* The window s shows up to x the frames up to o.                          *)
LEMMA OldMemberRight ==
  ASSUME settings \in Settings,
         NEW h, NEW s \in Seq(Entries), NEW x \in 1 .. Len(s), NEW o \in Int,
         x > settings.mustBeFor,
         \A y \in x - settings.mustBeFor .. x :
           s[y].in1 = h[y + (o - x)].bond /\ s[y].in1 \in BOOLEAN
  PROVE  IsOldAMember(s, x) <=> WasMemberIn(h, o)
<1> DEFINE b == settings.mustBeFor
           F == InData1(s)
           first == x - b
           old == o - b
           z == Zeroes(F, first, x)
           E == Allowed(settings.oldMaxEscape)
           T == Allowed(settings.oldMaxTotalEscape)
<1>1. b \in Nat /\ E \in Nat /\ T \in Nat
  BY SettingsAssumption DEF Allowed
<1>2. /\ x \in Int /\ first \in Int /\ first >= 1 /\ first + b = x
      /\ old \in Int /\ old + b = o
  BY <1>1
<1>3. \A y \in first .. x : s[y].in1 = h[y + (o - x)].bond /\ s[y].in1 \in BOOLEAN
  OBVIOUS
<1>4. s[x].in1 = h[o].bond
  <2>1. x \in first .. x /\ x + (o - x) = o
    BY <1>1
  <2> HIDE DEF first
  <2> QED BY <1>3, <2>1
<1>5. Shows(F, first, h, old, b)
  <2> SUFFICES ASSUME NEW d \in 0 .. b
               PROVE  F[first + d] = h[old + d].bond /\ F[first + d] \in BOOLEAN
    BY DEF Shows
  <2>1. first + d \in first .. x /\ first + d \in DOMAIN s /\ (first + d) + (o - x) = old + d
    BY <1>1
  <2>2. F[first + d] = s[first + d].in1
    BY <2>1 DEF InData1
  <2> HIDE DEF F, first, old
  <2> QED BY <1>3, <2>1, <2>2
<1>6. IsOldAMember(s, x)
        <=> IF b = 0 THEN s[x].in1 ELSE first >= 1 /\ z.longest <= E /\ z.total <= T
  BY DEF IsOldAMember
<1>7. WasMemberIn(h, o)
        <=> IF b = 0 THEN h[o].bond ELSE ~EscapesIn(h, old, o, E) /\ OutsideIn(h, old, o) <= T
  BY DEF WasMemberIn
<1> HIDE DEF F, first, old, E, T, b
<1>8. z.longest <= E <=> ~EscapesIn(h, old, o, E)
  <2>1. \A d \in 0 .. b : F[first + d] = h[old + d].bond /\ F[first + d] \in BOOLEAN
    BY <1>5 DEF Shows
  <2>2. Zeroes(F, first, first + b).longest <= E <=> ~EscapesIn(h, old, old + b, E)
    BY <1>1, <1>2, <2>1, LongestEscape
  <2> QED BY <1>2, <2>2
<1>9. z.total = OutsideIn(h, old, o)
  <2>1. Zeroes(F, first, first + b).total = OutsideIn(h, old, old + b)
    <3>1. first \in Int /\ old \in Int /\ b \in Nat
      BY <1>1, <1>2
    <3> QED BY <1>5, <3>1, TotalOutside
  <2> QED BY <1>2, <2>1
<1> HIDE DEF z
<1> QED BY <1>2, <1>4, <1>6, <1>7, <1>8, <1>9

(* The origin that is due is used if the window reaches back far enough.   *)
LEMMA OriginUsed ==
  ASSUME settings \in Settings, NEW h \in Seq(Seens), NEW s \in Seq(Entries), Latest(s, h),
         Len(s) = WindowLength(Len(h)), Len(h) - MaxTime >= 1
  PROVE  Len(h) - MaxTime \in MemberOrigins(h)
           <=> Len(s) - MaxTime >= 1 /\ IsOldAMember(s, Len(s) - MaxTime)
<1> DEFINE n == Len(h)
           L == Len(s)
           o == n - MaxTime
           x == L - MaxTime
           b == settings.mustBeFor
<1>1. n \in Nat /\ L \in Nat /\ L <= n /\ MaxTime \in Nat \ {0} /\ b \in Nat /\ o >= 1
  BY MaxTimeAssumption, SettingsAssumption DEF Latest
<1>2. o \in 1 .. n /\ x \in Int /\ o + MaxTime = n /\ x <= o
  BY <1>1
<1>3. o > b /\ ~Forgotten(o) <=> x > b
  <2>1. CASE settings.tidyOld > 0 /\ n > settings.tidyOld * MaxTime
    <3>1. x = Phase(n)
      <4>1. L = MaxTime + Phase(n) /\ Phase(n) \in Int
        BY <1>1, <2>1, PhaseNext, EveryFacts DEF WindowLength
      <4> HIDE DEF L
      <4> QED BY <1>1, <4>1
    <3>2. Forgotten(o) <=> x <= b
      BY <1>2, <2>1, <3>1 DEF Forgotten
    <3> HIDE DEF o, x, b
    <3> QED BY <1>1, <1>2, <3>2
  <2>2. CASE ~(settings.tidyOld > 0 /\ n > settings.tidyOld * MaxTime)
    <3>1. L = n
      BY <2>2 DEF WindowLength
    <3>2. ~Forgotten(o)
      BY <1>2, <2>2 DEF Forgotten
    <3> QED BY <3>1, <3>2
  <2> QED BY <2>1, <2>2
<1>4. ASSUME x > b
      PROVE  IsOldAMember(s, x) <=> WasMemberIn(h, o)
  <2>1. x \in 1 .. L /\ o \in Int
    BY <1>1, <1>2, <1>4
  <2>2. ASSUME NEW y \in x - b .. x
        PROVE  s[y].in1 = h[y + (o - x)].bond /\ s[y].in1 \in BOOLEAN
    <3>1. y \in 1 .. L /\ n - L + y = y + (o - x)
      BY <1>1, <1>4
    <3>2. s[y] = AddToTCF(h[n - L + y])
      BY <3>1 DEF Latest
    <3>3. s[y] \in Entries
      BY <3>1
    <3> HIDE DEF n, L, o, x
    <3> QED BY <3>1, <3>2, <3>3 DEF AddToTCF, Entries
  <2> HIDE DEF o, x, n
  <2> QED BY <1>4, <2>1, <2>2, OldMemberRight
<1>5. IsOldAMember(s, x) => b = 0 \/ x > b
  BY <1>1, <1>2 DEF IsOldAMember
<1>6. o \in MemberOrigins(h) <=> ~Forgotten(o) /\ o > b /\ WasMemberIn(h, o)
  BY <1>2 DEF MemberOrigins
<1>7. x > b => x >= 1
  BY <1>1, <1>2
<1> HIDE DEF o, x, b
<1>8. o \in MemberOrigins(h) <=> x >= 1 /\ IsOldAMember(s, x)
  BY <1>1, <1>2, <1>3, <1>4, <1>5, <1>6, <1>7
<1> QED BY <1>8 DEF o, x

LEMMA MemberContribution ==
  ASSUME settings \in Settings, NEW h \in Seq(Seens), NEW s \in Seq(Entries), Latest(s, h),
         Len(s) = WindowLength(Len(h)), Len(s) - MaxTime >= 1
  PROVE  CorrelateContinuous(s, Len(s) - MaxTime, GetMaxDTOld(s))
           = Contribution(Len(h) - MaxTime, Len(h), MemberOrigins(h), Members(h))
<1> DEFINE n == Len(h)
           L == Len(s)
           o == n - MaxTime
           x == L - MaxTime
<1>1. n \in Nat /\ L \in Nat /\ L <= n /\ MaxTime \in Nat \ {0} /\ x >= 1
  BY MaxTimeAssumption DEF Latest
<1>2. o \in 1 .. n /\ x \in 1 .. L /\ n - L + x = o /\ o >= 1 /\ o \in Int
  BY <1>1
<1>3. GetMaxDTOld(s) = MaxTime - 1 /\ MaxTime - 1 \in Nat
  BY <1>1 DEF GetMaxDTOld
<1>4. IsOldAMember(s, x) <=> o \in MemberOrigins(h)
  BY <1>2, <1>1, OriginUsed
<1>5. ASSUME NEW lag \in Lags
      PROVE  /\ lag \in Nat /\ ~(lag > MaxTime - 1) /\ ~(o + lag > n) /\ x + lag <= L
             /\ Remains(s, x, lag) <=> <<o, lag>> \in Members(h)
  <2>1. lag \in Nat /\ ~(lag > MaxTime - 1) /\ ~(o + lag > n) /\ x + lag <= L
    BY <1>1, LagFacts
  <2>2. \A d \in 0 .. lag : s[x + d].in1 = h[o + d].bond /\ s[x + d].in1 \in BOOLEAN
    <3> SUFFICES ASSUME NEW d \in 0 .. lag
                 PROVE  s[x + d].in1 = h[o + d].bond /\ s[x + d].in1 \in BOOLEAN
      OBVIOUS
    <3>1. x + d \in 1 .. L /\ n - L + (x + d) = o + d
      BY <1>1, <2>1
    <3>2. s[x + d] = AddToTCF(h[o + d])
      BY <3>1 DEF Latest
    <3>3. s[x + d] \in Entries
      BY <3>1
    <3> QED BY <3>2, <3>3 DEF AddToTCF, Entries
  <2> HIDE DEF o, x, n, L
  <2>3. Remains(s, x, lag) <=> StaysIn(h, o, o + lag, settings.newMustBe)
    <3>1. lag \in 0 .. MaxTime - 1
      BY LagFacts
    <3> QED BY <1>2, <2>1, <2>2, <3>1, RemainsRight DEF L
  <2>4. <<o, lag>> \in Members(h) <=> StaysIn(h, o, o + lag, settings.newMustBe)
    BY <1>2 DEF Members, n
  <2> QED BY <2>1, <2>3, <2>4
<1>6. CorrelateContinuous(s, x, MaxTime - 1) =
        [lag \in Lags |->
           IF lag > MaxTime - 1 \/ ~IsOldAMember(s, x) THEN [value |-> 0, count |-> 0]
           ELSE [value |-> IF Remains(s, x, lag) THEN 1 ELSE 0, count |-> 1]]
  <2> HIDE DEF x
  <2> QED BY <1>3, BrokenAt
<1> HIDE DEF o, x, n
<1>7. CorrelateContinuous(s, x, MaxTime - 1) = Contribution(o, n, MemberOrigins(h), Members(h))
  BY <1>4, <1>5, <1>6 DEF Contribution
<1> QED BY <1>3, <1>7 DEF o, x, n

LEMMA CorrelateMember ==
  ASSUME settings \in Settings, settings.command = "continuous",
         NEW h \in Seq(Seens), NEW s \in Seq(Entries), Latest(s, h),
         Len(s) = WindowLength(Len(h)),
         NEW out, out = Counted(1, Len(h) - MaxTime - 1, Len(h), MemberOrigins(h), Members(h))
  PROVE  CorrelateWithLatest(s, out, -1)
           = Counted(1, Len(h) - MaxTime, Len(h), MemberOrigins(h), Members(h))
<1> DEFINE n == Len(h)
           L == Len(s)
           more == Contribution(n - MaxTime, n, MemberOrigins(h), Members(h))
<1>1. n \in Nat /\ L \in Nat /\ L <= n /\ MaxTime \in Nat \ {0}
  BY MaxTimeAssumption DEF Latest
<1>2. CorrelateWithLatest(s, out, -1)
        = IF L - MaxTime < 1 THEN out
          ELSE Plus(out, CorrelateContinuous(s, L - MaxTime, GetMaxDTOld(s)))
  BY DEF CorrelateWithLatest
<1>3. CASE n - MaxTime < 1
  <2>1. L - MaxTime < 1 /\ n - MaxTime - 1 < 1 /\ n - MaxTime \in Int /\ n - MaxTime - 1 \in Int
    BY <1>1, <1>3
  <2>2. out = Zero /\ Counted(1, n - MaxTime, n, MemberOrigins(h), Members(h)) = Zero
    BY <1>3, <2>1, NoOrigins
  <2> QED BY <1>2, <2>1, <2>2
<1>4. CASE n - MaxTime >= 1
  <2>1. n - MaxTime - 1 \in Int /\ n \in Int /\ 1 <= (n - MaxTime - 1) + 1 /\ (n - MaxTime - 1) + 1 = n - MaxTime
    BY <1>1, <1>4
  <2>2. Plus(out, more) = Counted(1, n - MaxTime, n, MemberOrigins(h), Members(h))
    <3> HIDE DEF n
    <3>1. Plus(Counted(1, n - MaxTime - 1, n, MemberOrigins(h), Members(h)),
               Contribution((n - MaxTime - 1) + 1, n, MemberOrigins(h), Members(h)))
            = Counted(1, (n - MaxTime - 1) + 1, n, MemberOrigins(h), Members(h))
      BY <2>1, NextOrigin
    <3> QED BY <2>1, <3>1 DEF n
  <2>3. CASE L - MaxTime < 1
    <3>1. n - MaxTime \notin MemberOrigins(h)
      BY <1>1, <1>4, <2>3, OriginUsed
    <3>2. more = Zero
      BY <3>1 DEF Contribution, Zero
    <3>3. out \in Results
      BY <2>1, CountedTyped
    <3>4. Plus(out, Zero) = out
      <4>1. \A lag \in Lags : out[lag] \in [value : Nat, count : Nat]
        BY <3>3 DEF Results
      <4>2. \A lag \in Lags : [value |-> out[lag].value + 0, count |-> out[lag].count + 0] = out[lag]
        BY <4>1
      <4>3. out = [lag \in Lags |-> out[lag]]
        BY <3>3 DEF Results
      <4> QED BY <4>2, <4>3 DEF Plus, Zero
    <3> QED BY <1>2, <2>2, <2>3, <3>2, <3>4
  <2>4. CASE ~(L - MaxTime < 1)
    <3>1. L - MaxTime >= 1
      BY <1>1, <2>4
    <3>2. CorrelateContinuous(s, L - MaxTime, GetMaxDTOld(s)) = more
      BY <3>1, MemberContribution
    <3> QED BY <1>2, <2>2, <2>4, <3>2
  <2> QED BY <2>3, <2>4
<1> QED BY <1>1, <1>3, <1>4

LEMMA SameMembership ==
  ASSUME settings \in Settings, NEW h, NEW g, NEW o \in Int, o > settings.mustBeFor,
         \A f \in 1 .. o : g[f] = h[f]
  PROVE  WasMemberIn(h, o) <=> WasMemberIn(g, o)
<1> DEFINE b == settings.mustBeFor
           old == o - b
           E == Allowed(settings.oldMaxEscape)
<1>1. b \in Nat /\ E \in Nat
  BY SettingsAssumption DEF Allowed
<1>2. old \in Int /\ old + b = o /\ old >= 1 /\ o \in 1 .. o
  BY <1>1
<1>3. \A f \in old .. old + b : g[f] = h[f]
  BY <1>1
<1>4. g[o] = h[o]
  BY <1>2
<1> HIDE DEF b, old, E
<1>5. /\ EscapesIn(h, old, old + b, E) <=> EscapesIn(g, old, old + b, E)
      /\ OutsideIn(h, old, old + b) = OutsideIn(g, old, old + b)
  <2>1. old \in Int /\ b \in Nat
    BY <1>1, <1>2
  <2>2. \A limit \in Nat : EscapesIn(h, old, old + b, limit) <=> EscapesIn(g, old, old + b, limit)
    BY <1>3, <2>1, SameEscapes
  <2>3. OutsideIn(h, old, old + b) = OutsideIn(g, old, old + b)
    BY <1>3, <2>1, SameEscapes
  <2> QED BY <1>1, <2>2, <2>3
<1> QED BY <1>2, <1>4, <1>5, Zenon DEF WasMemberIn, b, old, E

LEMMA LaterMember ==
  ASSUME settings \in Settings, NEW h \in Seq(Seens), NEW g \in Seq(Seens), Len(g) = Len(h) + 1,
         \A k \in 1 .. Len(h) : g[k] = h[k]
  PROVE  Counted(1, Len(h) - MaxTime, Len(h), MemberOrigins(h), Members(h))
           = Counted(1, Len(g) - MaxTime - 1, Len(g), MemberOrigins(g), Members(g))
<1> DEFINE n == Len(h)
           hi == n - MaxTime
           b == settings.mustBeFor
<1>1. n \in Nat /\ MaxTime \in Nat \ {0} /\ Len(g) = n + 1 /\ hi \in Int /\ b \in Nat
  BY MaxTimeAssumption, SettingsAssumption
<1>2. ASSUME NEW lag \in Lags, NEW o \in 1 .. hi
      PROVE  /\ o \in 1 .. n /\ o \in 1 .. n + 1 /\ o + lag <= n /\ o + lag <= n + 1
             /\ lag \in Nat /\ \A f \in o .. o + lag : f \in 1 .. n
  BY <1>1, LagFacts
<1>3. ASSUME NEW lag \in Lags, NEW o \in 1 .. hi
      PROVE  /\ o \in MemberOrigins(h) <=> o \in MemberOrigins(g)
             /\ <<o, lag>> \in Members(h) <=> <<o, lag>> \in Members(g)
  <2>1. o \in MemberOrigins(h)
          <=> ~Forgotten(o) /\ o > b /\ WasMemberIn(h, o)
    BY <1>2 DEF MemberOrigins
  <2>2. o \in MemberOrigins(g)
          <=> ~Forgotten(o) /\ o > b /\ WasMemberIn(g, o)
    BY <1>1, <1>2 DEF MemberOrigins
  <2>3. o > b => (WasMemberIn(h, o) <=> WasMemberIn(g, o))
    <3>1. o \in Int /\ \A f \in 1 .. o : g[f] = h[f]
      BY <1>1, <1>2
    <3> HIDE DEF b
    <3> QED BY <3>1, SameMembership DEF b
  <2>4. \A f \in o .. o + lag : g[f] = h[f]
    BY <1>2
  <2>5. o \in Int /\ lag \in Nat
    BY <1>2
  <2>6. StaysIn(h, o, o + lag, settings.newMustBe) <=> StaysIn(g, o, o + lag, settings.newMustBe)
    BY <2>4, <2>5, StaysLater
  <2>7. <<o, lag>> \in Members(h) <=> StaysIn(h, o, o + lag, settings.newMustBe)
    BY <1>2 DEF Members
  <2>8. <<o, lag>> \in Members(g) <=> StaysIn(g, o, o + lag, settings.newMustBe)
    BY <1>1, <1>2 DEF Members
  <2> HIDE DEF b
  <2> QED BY <2>1, <2>2, <2>3, <2>6, <2>7, <2>8
<1>4. Len(g) - MaxTime - 1 = hi /\ Len(g) \in Int /\ n \in Int
  BY <1>1
<1>5. \A lag \in Lags, o \in 1 .. hi : o + lag <= n <=> o + lag <= Len(g)
  BY <1>1, <1>2
<1> HIDE DEF hi, n
<1>6. Counted(1, hi, n, MemberOrigins(h), Members(h)) = Counted(1, hi, Len(g), MemberOrigins(g), Members(g))
  BY <1>1, <1>3, <1>4, <1>5, SameCounted
<1> QED BY <1>4, <1>6 DEF n, hi

MembersInv ==
  settings.command = "continuous" =>
    outData = Counted(1, Count - MaxTime, Count, MemberOrigins(history), Members(history))

LEMMA LengthInit == Init => LengthInv
<1> SUFFICES ASSUME Init PROVE LengthInv
  OBVIOUS
<1>1. settings \in Settings /\ Len(inData) = 0 /\ Count = 0
  BY DEF Init, Count
<1>2. settings.tidyOld > 0 => settings.tidyOld * MaxTime \in Nat
  BY <1>1, EveryFacts
<1>3. WindowLength(0) = 0
  <2>1. settings.tidyOld > 0 => ~(0 > settings.tidyOld * MaxTime)
    BY <1>2
  <2> QED BY <2>1 DEF WindowLength
<1> QED BY <1>1, <1>3 DEF LengthInv

LEMMA LengthStep == BaseInv /\ LengthInv /\ [Next]_vars => LengthInv'
<1> SUFFICES ASSUME BaseInv, LengthInv, [Next]_vars PROVE LengthInv'
  OBVIOUS
<1>1. settings' = settings
  BY SettingsKept
<1>2. \A n : WindowLength(n)' = WindowLength(n')
  BY <1>1 DEF WindowLength, Phase, Every
<1>3. settings \in Settings /\ history \in Seq(Seens) /\ WindowInv(inData) /\ ~TooLong(inData)
  BY DEF BaseInv
<1>4. ASSUME NEW f \in Seen, Frame(f)
      PROVE  LengthInv'
  <2> DEFINE s == Append(inData, AddToTCF(f))
             g == Append(history, f)
  <2>1. /\ g \in Seq(Seens) /\ Len(g) = Len(history) + 1
        /\ s \in Seq(Entries) /\ Latest(s, g) /\ Len(s) = Len(inData) + 1
        /\ history' = g /\ inData' = TidiedOld(s)
    BY <1>4, FrameWindows
  <2> HIDE DEF s, g
  <2>2. Len(s) = WindowLength(Len(history)) + 1 /\ Len(history) \in Nat
    BY <1>3, <2>1 DEF LengthInv, Count
  <2>3. Len(TidiedOld(s)) = WindowLength(Len(history) + 1)
    BY <1>3, <2>1, <2>2, LengthNext
  <2>4. Count' = Len(history) + 1
    BY <2>1 DEF Count
  <2>5. WindowLength(Count)' = WindowLength(Count')
    BY <1>1 DEF WindowLength, Phase, Every
  <2> QED BY <2>1, <2>3, <2>4, <2>5 DEF LengthInv
<1>5. CASE FinalAction
  <2>1. inData' = inData /\ history' = history
    BY <1>3, <1>5, TidiedOldWindow DEF FinalAction, WindowInv
  <2> QED BY <1>1, <2>1 DEF LengthInv, Count, WindowLength, Phase, Every
<1>6. CASE UNCHANGED vars
  BY <1>6 DEF vars, LengthInv, Count, WindowLength, Phase, Every
<1> QED BY <1>4, <1>5, <1>6 DEF Next

LEMMA MembersInit == Init => MembersInv
<1> SUFFICES ASSUME Init PROVE MembersInv
  OBVIOUS
<1>1. outData = Zero /\ Count = 0
  BY DEF Init, Count
<1>2. 0 - MaxTime < 1 /\ 0 - MaxTime \in Int
  BY MaxTimeAssumption
<1>3. Counted(1, 0 - MaxTime, 0, MemberOrigins(history), Members(history)) = Zero
  BY <1>2, NoOrigins
<1> QED BY <1>1, <1>3 DEF MembersInv

LEMMA MembersStep == BaseInv /\ LengthInv /\ LengthInv' /\ MembersInv /\ [Next]_vars => MembersInv'
<1> SUFFICES ASSUME BaseInv, LengthInv, LengthInv', MembersInv, [Next]_vars PROVE MembersInv'
  OBVIOUS
<1>1. settings' = settings
  BY SettingsKept
<1> SUFFICES ASSUME settings.command = "continuous" PROVE MembersInv'
  <2> QED BY <1>1 DEF MembersInv
<1>2. MemberOrigins(history)' = MemberOrigins(history') /\ Members(history)' = Members(history')
  BY <1>1 DEF MemberOrigins, WasMemberIn, Forgotten, Phase, Every, Members, StaysIn, Complicated,
                  WithinIn, EscapesIn, Away, OutsideIn
<1>3. settings \in Settings /\ history \in Seq(Seens) /\ WindowInv(inData) /\ ~TooLong(inData)
  BY DEF BaseInv
<1>4. ASSUME NEW f \in Seen, Frame(f)
      PROVE  MembersInv'
  <2> DEFINE s == Append(inData, AddToTCF(f))
             g == Append(history, f)
  <2>1. /\ g \in Seq(Seens) /\ Len(g) = Len(history) + 1 /\ \A k \in 1 .. Len(history) : g[k] = history[k]
        /\ s \in Seq(Entries) /\ Latest(s, g) /\ FarEnough(s, g)
        /\ history' = g /\ inData' = TidiedOld(s)
    BY <1>4, FrameWindows
  <2>2. outData' = CorrelateWithLatest(inData', outData, -1)
    BY <1>4 DEF Frame
  <2> HIDE DEF s, g
  <2>3. inData' \in Seq(Entries) /\ Latest(inData', g)
    BY <1>3, <2>1, TidiedFarEnough
  <2>4. Len(inData') = WindowLength(Len(g))
    BY <1>1, <2>1 DEF LengthInv, Count, WindowLength, Phase, Every
  <2>5. outData = Counted(1, Len(g) - MaxTime - 1, Len(g), MemberOrigins(g), Members(g))
    BY <1>3, <2>1, LaterMember DEF MembersInv, Count
  <2>6. outData' = Counted(1, Len(g) - MaxTime, Len(g), MemberOrigins(g), Members(g))
    BY <1>3, <2>1, <2>2, <2>3, <2>4, <2>5, CorrelateMember
  <2> QED BY <1>2, <2>1, <2>6 DEF MembersInv, Count
<1>5. CASE FinalAction
  <2>1. outData' = outData /\ history' = history
    BY <1>5 DEF FinalAction, FinalOutDataOld
  <2> QED BY <1>2, <2>1 DEF MembersInv, Count
<1>6. CASE UNCHANGED vars
  BY <1>2, <1>6 DEF vars, MembersInv, Count
<1> QED BY <1>4, <1>5, <1>6 DEF Next

LEMMA MembersRight == BaseInv /\ MembersInv => SurvivalOfMembers
<1> SUFFICES ASSUME BaseInv, MembersInv, settings.command = "continuous"
             PROVE  SurvivalOfMembers
  BY DEF SurvivalOfMembers
<1> DEFINE tidy == settings.tidyOld
           every == (tidy - 1) * MaxTime + 1
           Trimmed(o) == tidy > 0 /\ o + MaxTime > tidy * MaxTime
                           /\ (o + MaxTime - tidy * MaxTime - 1) % every <= settings.mustBeFor
           Due(lag) == {o \in 1 .. Count - MaxTime : ~Trimmed(o)}
           IsOrigin(o) == o > settings.mustBeFor /\ WasMember(o)
           Holds(o, last) == Stays(o, last, settings.newMustBe)
           A(lag) == {o \in Due(lag) : IsOrigin(o)}
           B(lag) == {o \in A(lag) : Holds(o, o + lag)}
           hi == Count - MaxTime
<1>1. Count = Len(history) /\ Count \in Nat /\ MaxTime \in Nat \ {0}
  BY MaxTimeAssumption DEF BaseInv, Count
<1>2. outData = Counted(1, hi, Count, MemberOrigins(history), Members(history))
  BY DEF MembersInv
<1>3. ASSUME NEW lag \in Lags
      PROVE  /\ A(lag) = {o \in 1 .. hi : o + lag <= Count /\ o \in MemberOrigins(history)}
             /\ B(lag) = {o \in 1 .. hi : o + lag <= Count /\ o \in MemberOrigins(history)
                                                /\ <<o, lag>> \in Members(history)}
  <2>1. lag \in 0 .. MaxTime - 1
    BY LagFacts
  <2>2. \A o \in 1 .. hi : o \in 1 .. Count /\ o + lag <= Count
    BY <1>1, <2>1
  <2>3. \A o \in 1 .. hi : Trimmed(o) <=> Forgotten(o)
    <3>1. ASSUME NEW o \in 1 .. hi
          PROVE  o + MaxTime - tidy * MaxTime - 1 = (o + MaxTime) - settings.tidyOld * MaxTime - 1
      <4>1. settings.tidyOld * MaxTime \in Int
        BY TidyBound DEF BaseInv
      <4> QED BY <1>1, <4>1
    <3> QED BY <3>1, Zenon DEF Forgotten, Phase, Every
  <2>4. \A o \in 1 .. hi : o \in MemberOrigins(history) <=> ~Trimmed(o) /\ IsOrigin(o)
    BY <1>1, <2>2, <2>3
       DEF MemberOrigins, WasMemberIn, WasMember, Escapes, EscapesIn, Away, FramesOutside, OutsideIn
  <2>5. \A o \in 1 .. hi : <<o, lag>> \in Members(history) <=> Holds(o, o + lag)
    BY <1>1, <2>2 DEF Members, StaysIn, WithinIn, EscapesIn, Away, OutsideIn, Stays, Escapes, FramesOutside
  <2> HIDE DEF Trimmed, IsOrigin, Holds, hi
  <2>6. A(lag) = {o \in 1 .. hi : o + lag <= Count /\ o \in MemberOrigins(history)}
    BY <2>2, <2>4 DEF hi
  <2> HIDE DEF A
  <2>7. B(lag) = {o \in 1 .. hi : o + lag <= Count /\ o \in MemberOrigins(history)
                                                /\ <<o, lag>> \in Members(history)}
    BY <2>5, <2>6
  <2> QED BY <2>6, <2>7
<1>4. Counted(1, hi, Count, MemberOrigins(history), Members(history))
        = [lag \in Lags |-> [value |-> Cardinality(B(lag)), count |-> Cardinality(A(lag))]]
  <2> HIDE DEF A, B, hi
  <2> QED BY <1>3 DEF Counted
<1>5. Sum(Due, IsOrigin, Holds)
        = [lag \in Lags |-> [value |-> Cardinality(B(lag)), count |-> Cardinality(A(lag))]]
  BY DEF Sum
<1>6. outData = Sum(Due, IsOrigin, Holds)
  <2> HIDE DEF A, B, Due, IsOrigin, Holds, hi
  <2> QED BY <1>2, <1>4, <1>5
<1> QED BY <1>6 DEF SurvivalOfMembers

-----------------------------------------------------------------------------
(* The new actions: one origin.                                            *)

(* The second condition, if there is one, at lag d of origin old.          *)
Goes(s, old, d) ==
  Len(settings.conditions) = 2 =>
    Fulfilled(settings.conditions[2], Flags(s)[2], old, old + d)

(* The boundary that the second condition is.                              *)
Second ==
  IF settings.command # "continuous" THEN Value("NewValue2", 0, 0, TRUE, "ValueRemaining")
  ELSE Value("NewValue1", -1, IF settings.maxEscape >= 0 THEN settings.maxEscape ELSE 0,
             FALSE, "ValueRemaining")

LEMMA DocumentedForms ==
  ASSUME Documented(settings)
  PROVE  \/ /\ settings.conditions = <<IsValue>> /\ Len(settings.conditions) = 1
            /\ settings.command = "continuous" =>
                 /\ ~(settings.maxEscape >= 0) /\ settings.maxTotalEscape < 0
                 /\ settings.newMustBe \/ settings.recrossings
         \/ /\ settings.conditions = <<IsValue, Second>> /\ Len(settings.conditions) = 2
            /\ settings.command = "continuous" =>
                 /\ settings.maxTotalEscape < 0
                 /\ settings.maxEscape >= 0 \/ ~(settings.newMustBe \/ settings.recrossings)
<1>1. Len(<<IsValue>>) = 1 /\ Len(<<IsValue, Second>>) = 2
  OBVIOUS
<1>2. \/ /\ settings.conditions = <<IsValue>>
         /\ settings.command = "continuous" =>
              /\ ~(settings.maxEscape >= 0) /\ settings.maxTotalEscape < 0
              /\ settings.newMustBe \/ settings.recrossings
      \/ /\ settings.conditions = <<IsValue, Second>>
         /\ settings.command = "continuous" =>
              /\ settings.maxTotalEscape < 0
              /\ settings.maxEscape >= 0 \/ ~(settings.newMustBe \/ settings.recrossings)
  BY DEF Documented, MemberOptions, Outside, Absorbing, Second
<1> QED BY <1>1, <1>2, Zenon

LEMMA LoopChecks ==
  ASSUME Documented(settings), NEW s \in Seq(Entries), NEW old \in 0 .. Len(s) - 1, NEW dt \in Nat,
         s[old + 1].in1 \in BOOLEAN
  PROVE  /\ DoICare(settings.conditions, Flags(s), old, old + dt)
              = IF s[old + 1].in1 THEN "NoConsequence" ELSE "UncareRemaining"
         /\ QuickCorrelate(settings.conditions, Flags(s), old, old + dt)
              = IF Goes(s, old, dt) THEN "NoConsequence" ELSE "ValueRemaining"
<1> DEFINE c == settings.conditions
           Check(q) == CheckTCFCondition(c, Flags(s), old, old + dt, q)
<1>1. /\ DOMAIN c = 1 .. Len(c) /\ c[1] = IsValue
      /\ Len(c) = 1 \/ (Len(c) = 2 /\ c[2] = Second)
  <2>1. CASE c = <<IsValue>>
    BY <2>1
  <2>2. CASE c = <<IsValue, Second>>
    BY <2>2
  <2> QED BY <2>1, <2>2, DocumentedForms
<1>2. IsValue.consequence = "UncareRemaining" /\ Second.consequence = "ValueRemaining"
  BY DEF IsValue, Second, Value
<1>3. Fulfilled(c[1], Flags(s)[1], old, old + dt) = s[old + 1].in1
  <2>1. Flags(s)[1] = [i \in 0 .. Len(s) - 1 |-> s[i + 1].in1]
    <3>1. 1 \in DOMAIN c /\ c[1].type = "OldValue1"
      BY <1>1 DEF IsValue, Value
    <3> QED BY <3>1 DEF Flags
  <2>2. Flags(s)[1][old] = s[old + 1].in1
    BY <2>1
  <2>3. 0 * NumItems = 0
    BY ItemAssumption
  <2>4. Fulfilled(IsValue, Flags(s)[1], old, old + dt)
          = CheckIfMemberFor(Flags(s)[1], old, 0 * NumItems, 0, -1, FALSE)
    BY DEF Fulfilled, IsValue, Value, AddCondition, OldTypes
  <2> QED BY <1>1, <2>2, <2>3, <2>4 DEF CheckIfMemberFor
<1>4. Check("UncareRemaining") <=> s[old + 1].in1
  <2>1. 1 \in DOMAIN c /\ c[1].consequence = "UncareRemaining"
    BY <1>1, <1>2
  <2>2. \A k \in DOMAIN c : k = 1 \/ c[k].consequence # "UncareRemaining"
    BY <1>1, <1>2
  <2>3. Check("UncareRemaining")
          <=> \A k \in DOMAIN c : c[k].consequence = "UncareRemaining" =>
                 Fulfilled(c[k], Flags(s)[k], old, old + dt)
    BY Zenon DEF CheckTCFCondition
  <2> HIDE DEF c, Check
  <2> QED BY <1>3, <2>1, <2>2, <2>3
<1>5. Check("UncareThis") /\ Check("ValueThis")
  BY <1>1, <1>2, SMTT(60) DEF CheckTCFCondition
<1>6. Check("ValueRemaining") <=> Goes(s, old, dt)
  BY <1>1, <1>2 DEF CheckTCFCondition, Goes
<1>7. DoICare(c, Flags(s), old, old + dt) = IF ~Check("UncareRemaining") THEN "UncareRemaining"
                                            ELSE IF ~Check("UncareThis") THEN "UncareThis"
                                            ELSE "NoConsequence"
  BY DEF DoICare
<1>8. QuickCorrelate(c, Flags(s), old, old + dt) = IF ~Check("ValueRemaining") THEN "ValueRemaining"
                                                   ELSE IF ~Check("ValueThis") THEN "ValueThis"
                                                   ELSE "NoConsequence"
  BY DEF QuickCorrelate
<1> HIDE DEF c, Check
<1> QED BY <1>4, <1>5, <1>6, <1>7, <1>8 DEF c

LEMMA LagReached ==
  ASSUME NEW size \in Nat, NEW old \in 0 .. size - 1, NEW dt \in Lags
  PROVE  Reaches(size, old, dt) <=> old + dt < size
<1>1. NumItems = 1 /\ Item = 0
  BY OneItemAssumption, ItemAssumption
<1>2. GetMaxDT(size, old, Item) = IF size - old < MaxTime - 1 THEN size - old - 1 ELSE MaxTime - 1
  <2>1. old \in 0 .. size /\ 0 \in 0 .. NumItems - 1 /\ old < size
    BY <1>1
  <2> QED BY <1>1, <2>1, MaxDTValue
<1>3. dt \in 0 .. MaxTime - 1 /\ MaxTime \in Nat \ {0}
  BY LagFacts
<1> QED BY <1>2, <1>3 DEF Reaches

LEMMA LoopOutcome ==
  ASSUME Documented(settings), NEW s \in Seq(Entries), NEW old \in 0 .. Len(s) - 1,
         NEW after, IsLoop(s, old, after)
  PROVE  \A dt \in Lags :
           IF s[old + 1].in1 /\ old + dt < Len(s)
           THEN /\ after[dt].count = 1
                /\ after[dt].value = IF \A d \in 0 .. dt : Goes(s, old, d)
                                     THEN InternalCorrelate(s, old, old + dt) ELSE 0
           ELSE after[dt].count = 0 /\ after[dt].value = 0
<1> DEFINE Right(dt, z) ==
             IF s[old + 1].in1 /\ old + dt < Len(s)
             THEN /\ z.stopped = FALSE /\ z.count = 1
                  /\ z.known <=> \E d \in 0 .. dt : ~Goes(s, old, d)
                  /\ z.value = IF \A d \in 0 .. dt : Goes(s, old, d)
                               THEN InternalCorrelate(s, old, old + dt) ELSE 0
             ELSE z.stopped = TRUE /\ z.count = 0 /\ z.value = 0
           S == {dt \in Nat : dt \in Lags => Right(dt, after[dt])}
<1>1. MaxTime \in Nat \ {0} /\ Len(s) \in Nat /\ s[old + 1].in1 \in BOOLEAN
  <2>1. s[old + 1] \in Entries
    OBVIOUS
  <2> QED BY <2>1, MaxTimeAssumption DEF Entries
<1>2. ASSUME NEW dt \in Lags,
             \/ dt = 0
             \/ dt - 1 \in Lags /\ Right(dt - 1, after[dt - 1])
      PROVE  Right(dt, after[dt])
  <2> DEFINE z == after[dt]
             before == after[dt - 1]
  <2>1. dt \in Nat /\ dt \in 0 .. MaxTime - 1
    BY LagFacts
  <2>2. z = LoopTurn(s, old, dt, before)
    BY DEF IsLoop
  <2>3. /\ DoICare(settings.conditions, Flags(s), old, old + dt)
              = IF s[old + 1].in1 THEN "NoConsequence" ELSE "UncareRemaining"
        /\ QuickCorrelate(settings.conditions, Flags(s), old, old + dt)
              = IF Goes(s, old, dt) THEN "NoConsequence" ELSE "ValueRemaining"
    BY <1>1, <2>1, LoopChecks
  <2>4. Reaches(Len(s), old, dt) <=> old + dt < Len(s)
    BY <1>1, LagReached
  <2>5. dt = 0 => before = LoopStart
    <3>1. dt = 0 => dt - 1 = -1
      OBVIOUS
    <3> QED BY <3>1 DEF IsLoop
  <2>6. CASE s[old + 1].in1 /\ old + dt < Len(s)
    <3>1. /\ before.stopped = FALSE
          /\ before.known <=> \E d \in 0 .. dt - 1 : ~Goes(s, old, d)
      <4>1. CASE dt = 0
        <5>1. 0 .. 0 - 1 = {}
          OBVIOUS
        <5>2. before.stopped = FALSE /\ before.known = FALSE
          BY <2>5, <4>1 DEF LoopStart
        <5> QED BY <4>1, <5>1, <5>2
      <4>2. CASE dt # 0
        <5>1. old + (dt - 1) < Len(s)
          BY <1>1, <2>1, <2>6
        <5> QED BY <1>2, <2>6, <4>2, <5>1
      <4> QED BY <4>1, <4>2
    <3> DEFINE known == before.known \/ ~Goes(s, old, dt)
    <3>2. known <=> \E d \in 0 .. dt : ~Goes(s, old, d)
      <4>1. /\ \A d \in 0 .. dt : d = dt \/ d \in 0 .. dt - 1
            /\ \A d \in 0 .. dt - 1 : d \in 0 .. dt
            /\ dt \in 0 .. dt
        BY <2>1
      <4> QED BY <3>1, <4>1, Zenon
    <3>3. z.stopped = FALSE /\ z.count = 1 /\ (z.known <=> known)
          /\ z.value = IF known THEN 0 ELSE InternalCorrelate(s, old, old + dt)
      <4> DEFINE quick == QuickCorrelate(settings.conditions, Flags(s), old, old + dt)
      <4>1. z = [stopped |-> FALSE, known |-> before.known \/ quick = "ValueRemaining", count |-> 1,
                 value |-> IF before.known \/ quick = "ValueRemaining" \/ quick = "ValueThis"
                           THEN 0 ELSE InternalCorrelate(s, old, old + dt)]
        <5> HIDE DEF before, z
        <5> QED BY <2>2, <2>3, <2>4, <2>6, <3>1 DEF LoopTurn
      <4>2. (quick = "ValueRemaining" <=> ~Goes(s, old, dt)) /\ quick # "ValueThis"
        BY <2>3
      <4> HIDE DEF before, quick, z
      <4>3. (before.known \/ quick = "ValueRemaining") <=> known
        BY <4>2
      <4> HIDE DEF known
      <4>4. (before.known \/ quick = "ValueRemaining" \/ quick = "ValueThis") <=> known
        BY <4>2, <4>3
      <4> QED BY <4>1, <4>3, <4>4
    <3> HIDE DEF z, known, before
    <3>5. Right(dt, z)
      BY <2>6, <3>2, <3>3
    <3> QED BY <3>5 DEF z
  <2>7. CASE ~(s[old + 1].in1 /\ old + dt < Len(s))
    <3>1. z = [stopped |-> TRUE, known |-> before.known, value |-> 0, count |-> 0]
      <4> HIDE DEF before, z
      <4> QED BY <2>2, <2>3, <2>4, <2>7 DEF LoopTurn
    <3> QED BY <2>7, <3>1
  <2> QED BY <2>6, <2>7
<1> HIDE DEF Right
<1>3. 0 \in S
  BY <1>2
<1>4. ASSUME NEW k \in 1 .. MaxTime - 1, k - 1 \in S
      PROVE  k \in S
  <2>1. k \in Nat /\ k \in Lags /\ k - 1 \in Lags
    BY <1>1 DEF Lags
  <2> QED BY <1>2, <1>4, <2>1
<1>5. \A k \in 1 .. MaxTime - 1 : k - 1 \in S => k \in S
  BY <1>4
<1>6. \A dt \in S : dt \in Lags => Right(dt, after[dt])
  OBVIOUS
<1> HIDE DEF S
<1>7. 0 .. MaxTime - 1 \subseteq S
  <2>1. MaxTime - 1 \in Nat
    BY <1>1
  <2> QED BY <1>3, <1>5, <2>1, Everywhere
<1>8. \A dt \in Lags : Right(dt, after[dt])
  BY <1>6, <1>7 DEF Lags
<1> QED BY <1>8 DEF Right

(* What the new actions are to find at frame last of an origin.            *)
Survives(h, o, last) ==
  IF settings.command = "continuous" THEN StaysIn(h, o, last, TRUE)
  ELSE IF Len(settings.conditions) = 2 THEN \A f \in o .. last : ~HasReacted(h[f])
  ELSE ~HasReacted(h[last])

Survivors(h) == {p \in (1 .. Len(h)) \X Lags : Survives(h, p[1], p[1] + p[2])}

(* One lag that the boundary lets through: the products are not formed at  *)
(* it, or no escape up to it was too long.                                 *)
LEMMA GoesRight ==
  ASSUME settings \in Settings, settings.conditions = <<IsValue, Second>>,
         NEW h \in Seq(Seens), NEW s \in Seq(Entries), Latest(s, h),
         NEW old \in 0 .. Len(s) - 1, s[old + 1].in1, NEW d \in Nat, old + d < Len(s)
  PROVE  LET o == Len(h) - Len(s) + old + 1
             limit == IF settings.maxEscape >= 0 THEN settings.maxEscape ELSE 0
         IN IF settings.command # "continuous" THEN Goes(s, old, d) <=> ~HasReacted(h[o + d])
            ELSE Goes(s, old, d) <=> ~EscapesIn(h, o, o + d, limit)
<1> DEFINE o == Len(h) - Len(s) + old + 1
           limit == IF settings.maxEscape >= 0 THEN settings.maxEscape ELSE 0
           c == settings.conditions
           F == Flags(s)[2]
<1>1. Len(s) \in Nat /\ Len(h) \in Nat /\ Len(s) <= Len(h) /\ NumItems = 1 /\ limit \in Nat
  BY OneItemAssumption, SettingsAssumption DEF Latest
<1>2. o \in Int /\ o >= 1
  BY <1>1
<1>3. \A e \in 0 .. d : /\ old + e \in 0 .. Len(s) - 1 /\ old + e + 1 \in 1 .. Len(s)
                        /\ Len(h) - Len(s) + (old + e + 1) = o + e
  BY <1>1
<1>4. \A e \in 0 .. d : s[old + e + 1] = AddToTCF(h[o + e]) /\ s[old + e + 1] \in Entries
  BY <1>3 DEF Latest
<1>5. Len(c) = 2 /\ c[2] = Second /\ 2 \in DOMAIN c
  OBVIOUS
<1>6. Goes(s, old, d) <=> Fulfilled(Second, F, old, old + d)
  BY <1>5 DEF Goes
<1> HIDE DEF o, limit
<1>7. d \in 0 .. d /\ 0 \in 0 .. d /\ o + 0 = o /\ old + 0 = old
  BY <1>2
<1>8. CASE settings.command # "continuous"
  <2>1. Second = Value("NewValue2", 0, 0, TRUE, "ValueRemaining")
    BY <1>8 DEF Second
  <2>2. F = [i \in 0 .. Len(s) - 1 |-> s[i + 1].in2]
    BY <1>5, <2>1 DEF Flags, Value
  <2>3. F[old + d] = s[old + d + 1].in2
    BY <1>3, <1>7, <2>2
  <2>4. Fulfilled(Second, F, old, old + d) = ~CheckIfMemberFor(F, old + d, 0 * NumItems, 0, 0, FALSE)
    BY <2>1 DEF Fulfilled, Value, AddCondition, OldTypes
  <2>5. 0 * NumItems = 0
    BY <1>1
  <2>6. Fulfilled(Second, F, old, old + d) = ~F[old + d]
    BY <2>4, <2>5 DEF CheckIfMemberFor
  <2>7. s[old + d + 1].in2 = (h[o + d].products = "bond" \/ Changed(h[o + d]))
    <3>1. s[old + d + 1] = AddToTCF(h[o + d])
      BY <1>4, <1>7
    <3> QED BY <3>1 DEF AddToTCF
  <2>8. Goes(s, old, d) <=> ~HasReacted(h[o + d])
    BY <1>6, <2>3, <2>6, <2>7, Zenon DEF HasReacted
  <2> QED BY <1>8, <2>8 DEF o
<1>9. CASE settings.command = "continuous"
  <2>1. Second = Value("NewValue1", -1, limit, FALSE, "ValueRemaining")
    BY <1>9 DEF Second, limit
  <2>2. F = [i \in 0 .. Len(s) - 1 |-> s[i + 1].in1]
    BY <1>5, <2>1 DEF Flags, Value
  <2>3. \A e \in 0 .. d : F[old + e] = h[o + e].bond /\ F[old + e] \in BOOLEAN
    <3> SUFFICES ASSUME NEW e \in 0 .. d PROVE F[old + e] = h[o + e].bond /\ F[old + e] \in BOOLEAN
      OBVIOUS
    <3>1. F[old + e] = s[old + e + 1].in1
      BY <1>3, <2>2
    <3>2. s[old + e + 1].in1 = h[o + e].bond
      <4>1. s[old + e + 1] = AddToTCF(h[o + e])
        BY <1>4
      <4> QED BY <4>1 DEF AddToTCF
    <3>3. s[old + e + 1].in1 \in BOOLEAN
      <4>1. s[old + e + 1] \in Entries
        BY <1>4
      <4> QED BY <4>1 DEF Entries
    <3> HIDE DEF F
    <3> QED BY <3>1, <3>2, <3>3
  <2>4. Fulfilled(Second, F, old, old + d)
          = CheckIfMemberFor(F, old + d, old + d - old, limit, -1, FALSE)
    BY <1>1, <2>1 DEF Fulfilled, Value, AddCondition, OldTypes
  <2>5. old + d - old = d
    OBVIOUS
  <2> HIDE DEF F
  <2>6. CASE d = 0
    <3>1. CheckIfMemberFor(F, old + d, 0, limit, -1, FALSE) = F[old + d]
      BY DEF CheckIfMemberFor
    <3>2. F[old + d] = h[o].bond /\ h[o].bond
      BY <1>4, <1>7, <2>3, <2>6 DEF AddToTCF
    <3>3. ~EscapesIn(h, o, o + 0, limit)
      <4>1. ASSUME NEW f \in o .. (o + 0) - limit, Away(h, f, limit)
            PROVE  FALSE
        <5>1. f = o /\ f \in f .. f + limit
          BY <1>1, <1>2
        <5> QED BY <3>2, <4>1, <5>1 DEF Away
      <4> QED BY <4>1 DEF EscapesIn
    <3> QED BY <1>6, <1>9, <2>4, <2>5, <2>6, <3>1, <3>2, <3>3 DEF o, limit
  <2>7. CASE d # 0
    <3>1. old + d - d = old /\ ~(old < 0) /\ old >= 0 /\ ~(-1 >= 0) /\ limit >= 0
      BY <1>1
    <3>2. CheckIfMemberFor(F, old + d, d, limit, -1, FALSE)
            <=> Zeroes(F, old, old + d).longest <= limit
      BY <2>7, <3>1 DEF CheckIfMemberFor
    <3>3. Zeroes(F, old, old + d).longest <= limit <=> ~EscapesIn(h, o, o + d, limit)
      <4>1. old \in Int
        OBVIOUS
      <4> QED BY <1>1, <1>2, <2>3, <4>1, LongestEscape
    <3> QED BY <1>6, <1>9, <2>4, <2>5, <3>2, <3>3 DEF o, limit
  <2> QED BY <2>6, <2>7
<1> QED BY <1>8, <1>9

(* All lags up to one, and the value at it.                                *)
LEMMA ValueRight ==
  ASSUME settings \in Settings, Documented(settings),
         NEW h \in Seq(Seens), NEW s \in Seq(Entries), Latest(s, h),
         NEW old \in 0 .. Len(s) - 1, s[old + 1].in1, NEW lag \in Nat, old + lag < Len(s)
  PROVE  LET o == Len(h) - Len(s) + old + 1
         IN (IF \A d \in 0 .. lag : Goes(s, old, d) THEN InternalCorrelate(s, old, old + lag) ELSE 0)
              = IF Survives(h, o, o + lag) THEN 1 ELSE 0
<1> DEFINE o == Len(h) - Len(s) + old + 1
           limit == IF settings.maxEscape >= 0 THEN settings.maxEscape ELSE 0
           f == h[o + lag]
<1>1. Len(s) \in Nat /\ Len(h) \in Nat /\ Len(s) <= Len(h) /\ limit \in Nat /\ o \in Int
  BY SettingsAssumption DEF Latest
<1>2. \A d \in 0 .. lag : d \in Nat /\ old + d < Len(s)
  BY <1>1
<1>3. s[old + lag + 1] = AddToTCF(f)
  <2>1. old + lag + 1 \in 1 .. Len(s) /\ Len(h) - Len(s) + (old + lag + 1) = o + lag
    BY <1>1
  <2> QED BY <2>1 DEF Latest
<1>4. InternalCorrelate(s, old, old + lag)
        = IF settings.command = "continuous" THEN IF f.bond THEN 1 ELSE 0
          ELSE IF HasReacted(f) THEN 0 ELSE 1
  <2>1. s[old + lag + 1].in1 = f.bond
    BY <1>3 DEF AddToTCF
  <2>2. s[old + lag + 1].in2 <=> HasReacted(f)
    <3>1. s[old + lag + 1].in2 = (f.products = "bond" \/ Changed(f))
      BY <1>3 DEF AddToTCF
    <3> HIDE DEF f
    <3> QED BY <3>1, Zenon DEF HasReacted
  <2> HIDE DEF f
  <2> QED BY <2>1, <2>2 DEF InternalCorrelate
<1>5. lag \in 0 .. lag
  OBVIOUS
<1>6. CASE settings.conditions = <<IsValue>>
  <2>1. Len(settings.conditions) = 1
    BY <1>6
  <2>2. \A d : Goes(s, old, d)
    BY <2>1 DEF Goes
  <2>3. Survives(h, o, o + lag) <=> IF settings.command = "continuous" THEN f.bond ELSE ~HasReacted(f)
    <3>1. settings.command = "continuous" =>
            ~Complicated /\ (settings.newMustBe \/ settings.recrossings)
      <4>1. settings.maxTotalEscape \in Int
        BY SettingsAssumption
      <4> QED BY <2>1, <4>1, DocumentedForms DEF Complicated
    <3> HIDE DEF o
    <3> QED BY <2>1, <3>1 DEF Survives, StaysIn, f
  <2> HIDE DEF o, f
  <2> QED BY <1>4, <2>2, <2>3 DEF o
<1>7. CASE settings.conditions = <<IsValue, Second>>
  <2>1. Len(settings.conditions) = 2
    BY <1>7
  <2>2. ASSUME NEW d \in 0 .. lag
        PROVE  IF settings.command # "continuous" THEN Goes(s, old, d) <=> ~HasReacted(h[o + d])
               ELSE Goes(s, old, d) <=> ~EscapesIn(h, o, o + d, limit)
    BY <1>2, <1>7, GoesRight
  <2>3. CASE settings.command # "continuous"
    <3>1. (\A d \in 0 .. lag : Goes(s, old, d)) <=> \A k \in o .. o + lag : ~HasReacted(h[k])
      <4>1. \A d \in 0 .. lag : o + d \in o .. o + lag
        BY <1>1
      <4>2. \A k \in o .. o + lag : k - o \in 0 .. lag /\ o + (k - o) = k
        BY <1>1
      <4> HIDE DEF o
      <4> QED BY <2>2, <2>3, <4>1, <4>2
    <3>2. Survives(h, o, o + lag) <=> \A k \in o .. o + lag : ~HasReacted(h[k])
      BY <2>1, <2>3 DEF Survives
    <3>3. (\A k \in o .. o + lag : ~HasReacted(h[k])) => ~HasReacted(f)
      BY <1>1
    <3> HIDE DEF o, f
    <3> QED BY <1>4, <2>3, <3>1, <3>2, <3>3 DEF o
  <2>4. CASE settings.command = "continuous"
    <3>1. ASSUME NEW d \in 0 .. lag, EscapesIn(h, o, o + d, limit)
          PROVE  EscapesIn(h, o, o + lag, limit)
      <4>1. d \in Int /\ lag \in Int /\ d <= lag /\ limit \in Int
        BY <1>1
      <4> HIDE DEF limit, o
      <4> QED BY <1>1, <3>1, <4>1, EscapesLater
    <3>2. (\A d \in 0 .. lag : Goes(s, old, d)) <=> ~EscapesIn(h, o, o + lag, limit)
      <4> HIDE DEF o, limit
      <4> QED BY <1>5, <2>2, <2>4, <3>1
    <3>3. limit = 0 /\ ~EscapesIn(h, o, o + lag, 0) => f.bond
      <4>1. o + lag \in o .. o + lag - 0 /\ (o + lag) .. (o + lag) + 0 = {o + lag}
        BY <1>1
      <4>2. ~f.bond => Away(h, o + lag, 0)
        BY <4>1 DEF Away
      <4> QED BY <4>1, <4>2 DEF EscapesIn
    <3>4. Survives(h, o, o + lag) <=> ~EscapesIn(h, o, o + lag, limit) /\ f.bond
      <4>1. Survives(h, o, o + lag) <=> StaysIn(h, o, o + lag, TRUE)
        BY <2>4 DEF Survives
      <4>2. ~(settings.maxTotalEscape >= 0)
        <5>1. settings.maxTotalEscape \in Int
          BY SettingsAssumption
        <5> QED BY <2>1, <2>4, <5>1, DocumentedForms
      <4>3. CASE settings.maxEscape >= 0
        BY <4>1, <4>3, <4>2 DEF StaysIn, Complicated, WithinIn
      <4>4. CASE ~(settings.maxEscape >= 0)
        <5>1. ~(settings.newMustBe \/ settings.recrossings)
          BY <2>1, <2>4, <4>4, DocumentedForms
        <5>2. StaysIn(h, o, o + lag, TRUE) <=> ~EscapesIn(h, o, o + lag, 0)
          BY <4>4, <4>2, <5>1 DEF StaysIn, Complicated
        <5>3. limit = 0
          BY <4>4
        <5> HIDE DEF limit, f, o
        <5> QED BY <3>3, <4>1, <5>2, <5>3
      <4> QED BY <4>3, <4>4
    <3> HIDE DEF o, f, limit
    <3> QED BY <1>4, <2>4, <3>2, <3>4 DEF o
  <2> QED BY <2>3, <2>4
<1> QED BY <1>6, <1>7, DocumentedForms

LEMMA NewContribution ==
  ASSUME settings \in Settings, Documented(settings),
         NEW h \in Seq(Seens), NEW s \in Seq(Entries), Latest(s, h), NEW old \in 0 .. Len(s) - 1
  PROVE  CorrelateFromOldIndex(s, old)
           = Contribution(Len(h) - Len(s) + old + 1, Len(h), Bonds(h), Survivors(h))
<1> DEFINE o == Len(h) - Len(s) + old + 1
<1>1. Len(s) \in Nat /\ Len(h) \in Nat /\ Len(s) <= Len(h)
  BY DEF Latest
<1>2. o \in 1 .. Len(h) /\ old + 1 \in 1 .. Len(s) /\ Len(h) - Len(s) + (old + 1) = o
  BY <1>1
<1>3. PICK after : /\ IsLoop(s, old, after)
                   /\ CorrelateFromOldIndex(s, old)
                        = [lag \in Lags |-> [value |-> after[lag].value, count |-> after[lag].count]]
  BY LoopRuns
<1>4. s[old + 1].in1 <=> o \in Bonds(h)
  <2>1. s[old + 1] = AddToTCF(h[o])
    BY <1>2 DEF Latest
  <2>2. s[old + 1].in1 = h[o].bond
    BY <2>1 DEF AddToTCF
  <2> QED BY <1>2, <2>2 DEF Bonds
<1>5. ASSUME NEW lag \in Lags
      PROVE  [value |-> after[lag].value, count |-> after[lag].count]
               = IF o + lag > Len(h) \/ o \notin Bonds(h) THEN [value |-> 0, count |-> 0]
                 ELSE [value |-> IF <<o, lag>> \in Survivors(h) THEN 1 ELSE 0, count |-> 1]
  <2>1. lag \in Nat /\ (old + lag < Len(s) <=> ~(o + lag > Len(h)))
    BY <1>1, LagFacts
  <2>2. IF s[old + 1].in1 /\ old + lag < Len(s)
        THEN /\ after[lag].count = 1
             /\ after[lag].value = IF \A d \in 0 .. lag : Goes(s, old, d)
                                   THEN InternalCorrelate(s, old, old + lag) ELSE 0
        ELSE after[lag].count = 0 /\ after[lag].value = 0
    BY <1>3, LoopOutcome
  <2>3. <<o, lag>> \in Survivors(h) <=> Survives(h, o, o + lag)
    BY <1>2 DEF Survivors
  <2>4. CASE s[old + 1].in1 /\ old + lag < Len(s)
    <3>1. after[lag].value = IF Survives(h, o, o + lag) THEN 1 ELSE 0
      BY <2>1, <2>2, <2>4, ValueRight
    <3> HIDE DEF o
    <3> QED BY <1>4, <2>1, <2>2, <2>3, <2>4, <3>1
  <2>5. CASE ~(s[old + 1].in1 /\ old + lag < Len(s))
    <3> HIDE DEF o
    <3> QED BY <1>4, <2>1, <2>2, <2>5
  <2> QED BY <2>4, <2>5
<1> HIDE DEF o
<1>6. CorrelateFromOldIndex(s, old) = Contribution(o, Len(h), Bonds(h), Survivors(h))
  BY <1>3, <1>5 DEF Contribution
<1> QED BY <1>6 DEF o

-----------------------------------------------------------------------------
(* The new actions: every origin.                                          *)

NewInv ==
  Documented(settings) =>
    newOutData = IF ended THEN Counted(1, Count, Count, Bonds(history), Survivors(history))
                 ELSE Counted(1, Count - MaxTime + 1, Count, Bonds(history), Survivors(history))

LEMMA LaterSurvivor ==
  ASSUME settings \in Settings, NEW h \in Seq(Seens), NEW g \in Seq(Seens), Len(g) = Len(h) + 1,
         \A k \in 1 .. Len(h) : g[k] = h[k]
  PROVE  Counted(1, Len(h) - MaxTime + 1, Len(h), Bonds(h), Survivors(h))
           = Counted(1, Len(g) - MaxTime, Len(g), Bonds(g), Survivors(g))
<1> DEFINE n == Len(h)
           hi == n - MaxTime + 1
<1>1. n \in Nat /\ MaxTime \in Nat \ {0} /\ Len(g) = n + 1 /\ hi \in Int
  BY MaxTimeAssumption
<1>2. ASSUME NEW lag \in Lags, NEW o \in 1 .. hi
      PROVE  /\ o \in 1 .. n /\ o \in 1 .. n + 1 /\ o + lag <= n /\ o + lag <= n + 1
             /\ lag \in Nat /\ o + lag \in o .. o + lag /\ \A f \in o .. o + lag : f \in 1 .. n
  BY <1>1, LagFacts
<1>3. ASSUME NEW lag \in Lags, NEW o \in 1 .. hi
      PROVE  /\ o \in Bonds(h) <=> o \in Bonds(g)
             /\ <<o, lag>> \in Survivors(h) <=> <<o, lag>> \in Survivors(g)
  <2>1. o \in Bonds(h) <=> h[o].bond
    BY <1>2 DEF Bonds
  <2>2. o \in Bonds(g) <=> g[o].bond
    BY <1>1, <1>2 DEF Bonds
  <2>3. <<o, lag>> \in Survivors(h) <=> Survives(h, o, o + lag)
    BY <1>2 DEF Survivors
  <2>4. <<o, lag>> \in Survivors(g) <=> Survives(g, o, o + lag)
    BY <1>1, <1>2 DEF Survivors
  <2>5. g[o] = h[o] /\ \A f \in o .. o + lag : g[f] = h[f]
    BY <1>2
  <2>6. StaysIn(h, o, o + lag, TRUE) <=> StaysIn(g, o, o + lag, TRUE)
    <3>1. o \in Int /\ lag \in Nat
      BY <1>2
    <3> QED BY <2>5, <3>1, StaysLater
  <2>7. Survives(h, o, o + lag) <=> Survives(g, o, o + lag)
    BY <1>2, <2>5, <2>6 DEF Survives
  <2> QED BY <2>1, <2>2, <2>3, <2>4, <2>5, <2>7
<1>4. Len(g) - MaxTime = hi /\ Len(g) \in Int /\ n \in Int
  BY <1>1
<1>5. \A lag \in Lags, o \in 1 .. hi : o + lag <= n <=> o + lag <= Len(g)
  BY <1>1, <1>2
<1> HIDE DEF hi, n
<1>6. Counted(1, hi, n, Bonds(h), Survivors(h)) = Counted(1, hi, Len(g), Bonds(g), Survivors(g))
  BY <1>1, <1>3, <1>4, <1>5, SameCounted
<1> QED BY <1>4, <1>6 DEF n, hi

(* One call of correlate: the origin j frames before the end, if the       *)
(* trajectory has it.                                                      *)
LEMMA CorrelateOne ==
  ASSUME settings \in Settings, Documented(settings),
         NEW h \in Seq(Seens), NEW s \in Seq(Entries), Latest(s, h), FarEnough(s, h),
         NEW j \in Lags, NEW i, i = j \/ (i = -1 /\ j = MaxTime - 1),
         NEW out, out = Counted(1, Len(h) - j - 1, Len(h), Bonds(h), Survivors(h))
  PROVE  CorrelateNew(s, out, i) = Counted(1, Len(h) - j, Len(h), Bonds(h), Survivors(h))
<1> DEFINE n == Len(h)
           L == Len(s)
           origins == OriginIndices(L, 1, i)
<1>1. /\ n \in Nat /\ L \in Nat /\ L <= n /\ MaxTime \in Nat \ {0} /\ (L = n \/ L >= MaxTime)
      /\ j \in 0 .. MaxTime - 1
  BY MaxTimeAssumption, LagFacts DEF Latest, FarEnough
<1>2. GetMaxDT(L, 0, 0) = IF L < MaxTime - 1 THEN L - 1 ELSE MaxTime - 1
  BY <1>1, MaxDTOfWindow
<1>3. ~TooShort(L, i) => StartLag(L, i) = j
  <2>1. CASE i >= 0
    BY <1>1, <2>1 DEF StartLag
  <2>2. CASE ~(i >= 0)
    BY <1>1, <1>2, <2>2 DEF StartLag, TooShort
  <2> QED BY <2>1, <2>2
<1>4. TooShort(L, i) => L < j + 1
  <2>1. StartLag(L, -1) = GetMaxDT(L, 0, 0)
    BY DEF StartLag
  <2>2. TooShort(L, i) => i = -1 /\ j = MaxTime - 1
    BY <1>1 DEF TooShort
  <2>3. TooShort(L, i) => L < MaxTime - 1
    BY <1>1, <1>2, <2>1, <2>2 DEF TooShort
  <2> QED BY <1>1, <2>2, <2>3
<1>5. ~TooShort(L, i) => origins = IF L < j + 1 THEN {} ELSE {L - (j + 1)}
  <2> SUFFICES ASSUME ~TooShort(L, i) PROVE origins = IF L < j + 1 THEN {} ELSE {L - (j + 1)}
    OBVIOUS
  <2>1. \A k : k \in 1 .. 1 <=> k = 1
    OBVIOUS
  <2>2. origins = {x \in 0 .. L - 1 : x = L - (j + 1)}
    BY <1>3, <2>1 DEF OriginIndices
  <2> HIDE DEF origins
  <2> QED BY <1>1, <2>2
<1>6. CASE L < j + 1
  <2>1. CorrelateNew(s, out, i) = out
    BY <1>5, <1>6 DEF CorrelateNew
  <2>2. n - j - 1 < 1 /\ n - j < 1 /\ n - j - 1 \in Int /\ n - j \in Int
    BY <1>1, <1>6
  <2>3. out = Zero /\ Counted(1, n - j, n, Bonds(h), Survivors(h)) = Zero
    BY <2>2, NoOrigins
  <2> QED BY <2>1, <2>3
<1>7. CASE ~(L < j + 1)
  <2>1. L - (j + 1) \in 0 .. L - 1 /\ n - L + (L - (j + 1)) + 1 = (n - j - 1) + 1
        /\ (n - j - 1) + 1 = n - j
    BY <1>1, <1>7
  <2>2. ~TooShort(L, i) /\ origins = {L - (j + 1)}
    BY <1>4, <1>5, <1>7
  <2>3. CorrelateNew(s, out, i) = Plus(out, CorrelateFromOldIndex(s, L - (j + 1)))
    <3>1. (CHOOSE x \in {L - (j + 1)} : TRUE) = L - (j + 1) /\ {L - (j + 1)} # {}
      OBVIOUS
    <3>2. CorrelateNew(s, out, i) = Plus(out, CorrelateFromOldIndex(s, CHOOSE x \in origins : TRUE))
      BY <2>2, <3>1 DEF CorrelateNew
    <3> HIDE DEF origins
    <3> QED BY <2>2, <3>1, <3>2
  <2>4. CorrelateFromOldIndex(s, L - (j + 1))
          = Contribution((n - j - 1) + 1, n, Bonds(h), Survivors(h))
    BY <2>1, NewContribution
  <2>5. n - j - 1 \in Int /\ n \in Int /\ 1 <= (n - j - 1) + 1
    BY <1>1, <1>7
  <2> HIDE DEF n, L
  <2>6. Plus(Counted(1, n - j - 1, n, Bonds(h), Survivors(h)),
             Contribution((n - j - 1) + 1, n, Bonds(h), Survivors(h)))
          = Counted(1, (n - j - 1) + 1, n, Bonds(h), Survivors(h))
    BY <2>5, NextOrigin
  <2> QED BY <2>1, <2>3, <2>4, <2>6 DEF n
<1> QED BY <1>6, <1>7

LEMMA NewInit == Init => NewInv
<1> SUFFICES ASSUME Init PROVE NewInv
  OBVIOUS
<1>1. ended = FALSE /\ newOutData = Zero /\ Count = 0
  BY DEF Init, Count
<1>2. 0 - MaxTime + 1 < 1 /\ 0 - MaxTime + 1 \in Int
  BY MaxTimeAssumption
<1>3. Counted(1, 0 - MaxTime + 1, 0, Bonds(history), Survivors(history)) = Zero
  BY <1>2, NoOrigins
<1> QED BY <1>1, <1>3 DEF NewInv

LEMMA NewStep == BaseInv /\ NewInv /\ [Next]_vars => NewInv'
<1> SUFFICES ASSUME BaseInv, NewInv, [Next]_vars PROVE NewInv'
  OBVIOUS
<1>1. settings' = settings
  BY SettingsKept
<1> SUFFICES ASSUME Documented(settings) PROVE NewInv'
  <2>1. Documented(settings)' <=> Documented(settings)
    BY <1>1 DEF Documented
  <2> QED BY <2>1 DEF NewInv
<1>2. Bonds(history)' = Bonds(history') /\ Survivors(history)' = Survivors(history')
  BY <1>1 DEF Bonds, Survivors, Survives, StaysIn, Complicated, WithinIn, EscapesIn, Away, OutsideIn,
                  HasReacted, Changed
<1>3. settings \in Settings /\ history \in Seq(Seens) /\ WindowInv(newInData) /\ newOutData \in Results
  BY DEF BaseInv
<1>4. MaxTime \in Nat \ {0} /\ Count \in Nat /\ Count = Len(history) /\ MaxTime - 1 \in Lags
  BY <1>3, MaxTimeAssumption DEF Count, Lags
<1>5. ASSUME NEW f \in Seen, Frame(f)
      PROVE  NewInv'
  <2> DEFINE t == Append(newInData, AddToTCF(f))
             g == Append(history, f)
  <2>1. /\ g \in Seq(Seens) /\ Len(g) = Len(history) + 1 /\ \A k \in 1 .. Len(history) : g[k] = history[k]
        /\ t \in Seq(Entries) /\ Latest(t, g) /\ FarEnough(t, g)
        /\ history' = g
    BY <1>5, FrameWindows
  <2>2. newOutData' = CorrelateNew(t, newOutData, -1) /\ ended = FALSE /\ ended' = FALSE
    BY <1>5 DEF Frame
  <2> HIDE DEF t, g
  <2>3. Len(g) - MaxTime = Len(g) - (MaxTime - 1) - 1 /\ Len(g) - MaxTime + 1 = Len(g) - (MaxTime - 1)
    BY <1>4, <2>1
  <2>4. newOutData = Counted(1, Len(g) - (MaxTime - 1) - 1, Len(g), Bonds(g), Survivors(g))
    <3>1. newOutData = Counted(1, Len(history) - MaxTime + 1, Len(history), Bonds(history), Survivors(history))
      BY <2>2 DEF NewInv, Count
    <3> QED BY <1>3, <2>1, <2>3, <3>1, LaterSurvivor
  <2>5. newOutData' = Counted(1, Len(g) - MaxTime + 1, Len(g), Bonds(g), Survivors(g))
    BY <1>3, <1>4, <2>1, <2>2, <2>3, <2>4, CorrelateOne
  <2> QED BY <1>1, <1>2, <2>1, <2>2, <2>5 DEF NewInv, Count
<1>6. CASE FinalAction
  <2>1. newOutData' = FinalOutDataNew /\ ended = FALSE /\ ended' = TRUE /\ history' = history
    BY <1>6 DEF FinalAction
  <2> DEFINE C(j) == Counted(1, Count - j, Count, Bonds(history), Survivors(history))
  <2>2. newOutData = C(MaxTime - 1)
    <3>1. Count - MaxTime + 1 = Count - (MaxTime - 1)
      BY <1>4
    <3> QED BY <2>1, <3>1 DEF NewInv
  <2>3. PICK out \in [0 .. MaxTime - 1 -> Results] :
           /\ FinalOutDataNew = out[0]
           /\ out[MaxTime - 1] = newOutData
           /\ \A i \in 0 .. MaxTime - 2 : out[i] = CorrelateNew(newInData, out[i + 1], i)
    BY <1>3, FinalNewRuns
  <2>4. ASSUME NEW j \in 0 .. MaxTime - 2, out[j + 1] = C(j + 1)
        PROVE  out[j] = C(j)
    <3>1. j \in Lags /\ Count - (j + 1) = Len(history) - j - 1
      BY <1>4 DEF Lags
    <3>2. CorrelateNew(newInData, C(j + 1), j) = C(j)
      BY <1>3, <1>4, <3>1, CorrelateOne DEF WindowInv
    <3> HIDE DEF C
    <3> QED BY <2>3, <2>4, <3>2
  <2>5. out[0] = C(0)
    <3> DEFINE n == MaxTime - 1
               S == {k \in Nat : out[n - k] = C(n - k)}
    <3>1. 0 \in S
      <4>1. n - 0 = n /\ 0 \in Nat
        BY <1>4
      <4> HIDE DEF C
      <4> QED BY <2>2, <2>3, <4>1
    <3>2. ASSUME NEW k \in 1 .. n, k - 1 \in S
          PROVE  k \in S
      <4>1. n - k \in 0 .. MaxTime - 2 /\ n - k + 1 = n - (k - 1) /\ k \in Nat
        BY <1>4
      <4> HIDE DEF C, n
      <4>2. out[n - k + 1] = C(n - k + 1)
        BY <3>2, <4>1
      <4> QED BY <2>4, <4>1, <4>2
    <3>3. \A k \in 1 .. n : k - 1 \in S => k \in S
      BY <3>2
    <3>4. n \in 0 .. n /\ n - n = 0 /\ n \in Nat
      BY <1>4
    <3>5. \A k \in S : out[n - k] = C(n - k)
      OBVIOUS
    <3> HIDE DEF S, C, n
    <3>6. n \in S
      BY <3>1, <3>3, <3>4, Everywhere
    <3>7. out[n - n] = C(n - n)
      BY <3>5, <3>6
    <3> QED BY <3>4, <3>7
  <2>6. Count - 0 = Count
    BY <1>4
  <2> QED BY <1>2, <2>1, <2>3, <2>5, <2>6 DEF NewInv, Count
<1>7. CASE UNCHANGED vars
  BY <1>2, <1>7 DEF vars, NewInv, Count
<1> QED BY <1>5, <1>6, <1>7 DEF Next

LEMMA NewRight == BaseInv /\ NewInv => NewVersionReplacesOld
<1> SUFFICES ASSUME BaseInv, NewInv, Documented(settings)
             PROVE  NewVersionReplacesOld
  BY DEF NewVersionReplacesOld
<1> DEFINE Due(lag) == IF ended THEN 1 .. Count - lag ELSE 1 .. Count - MaxTime + 1
           Holds(o, last) == IF settings.command = "continuous" THEN Stays(o, last, TRUE)
                             ELSE IF Len(settings.conditions) = 2 THEN Unreacted(o, last)
                             ELSE Unreacted(last, last)
           A(lag) == {o \in Due(lag) : Bonded(o)}
           B(lag) == {o \in A(lag) : Holds(o, o + lag)}
           hi == IF ended THEN Count ELSE Count - MaxTime + 1
<1>1. Count = Len(history) /\ Count \in Nat /\ MaxTime \in Nat \ {0} /\ ended \in BOOLEAN
  BY MaxTimeAssumption DEF BaseInv, Count
<1>2. newOutData = Counted(1, hi, Count, Bonds(history), Survivors(history))
  BY DEF NewInv
<1>3. ASSUME NEW lag \in Lags
      PROVE  /\ A(lag) = {o \in 1 .. hi : o + lag <= Count /\ o \in Bonds(history)}
             /\ B(lag) = {o \in 1 .. hi : o + lag <= Count /\ o \in Bonds(history)
                                                /\ <<o, lag>> \in Survivors(history)}
  <2>1. lag \in 0 .. MaxTime - 1
    BY LagFacts
  <2>2. \A o : o \in Due(lag) <=> o \in 1 .. hi /\ o + lag <= Count
    BY <1>1, <2>1
  <2>3. \A o \in Due(lag) : o \in 1 .. Count
    BY <1>1, <2>1
  <2>4. \A o \in 1 .. Count : Bonded(o) <=> o \in Bonds(history)
    BY <1>1 DEF Bonds, Bonded
  <2>5. \A o \in 1 .. Count : Holds(o, o + lag) <=> <<o, lag>> \in Survivors(history)
    <3>1. ASSUME NEW o \in 1 .. Count
          PROVE  <<o, lag>> \in Survivors(history) <=> Survives(history, o, o + lag)
      BY <1>1 DEF Survivors
    <3>2. \A o, last : Stays(o, last, TRUE) <=> StaysIn(history, o, last, TRUE)
      BY DEF Stays, StaysIn, WithinIn, Escapes, EscapesIn, Away, FramesOutside, OutsideIn
    <3>3. \A o, last : Unreacted(o, last) <=> \A f \in o .. last : ~HasReacted(history[f])
      BY DEF Unreacted, HasReacted
    <3>4. ASSUME NEW o \in 1 .. Count
          PROVE  Unreacted(o + lag, o + lag) <=> ~HasReacted(history[o + lag])
      <4>1. (o + lag) .. (o + lag) = {o + lag}
        BY <2>1
      <4> QED BY <3>3, <4>1
    <3> QED BY <3>1, <3>2, <3>3, <3>4 DEF Survives
  <2> HIDE DEF Due, hi, Holds
  <2> QED BY <2>2, <2>3, <2>4, <2>5
<1>4. Counted(1, hi, Count, Bonds(history), Survivors(history))
        = [lag \in Lags |-> [value |-> Cardinality(B(lag)), count |-> Cardinality(A(lag))]]
  <2> HIDE DEF A, B, hi
  <2> QED BY <1>3 DEF Counted
<1>5. Sum(Due, Bonded, Holds)
        = [lag \in Lags |-> [value |-> Cardinality(B(lag)), count |-> Cardinality(A(lag))]]
  BY DEF Sum
<1>6. newOutData = Sum(Due, Bonded, Holds)
  <2> HIDE DEF A, B, Due, Holds, hi
  <2> QED BY <1>2, <1>4, <1>5
<1> QED BY <1>6 DEF NewVersionReplacesOld

-----------------------------------------------------------------------------
(* The theorems.                                                           *)

IInv == BaseInv /\ LengthInv /\ SSPInv /\ MembersInv /\ NewInv

LEMMA InvInit == Init => IInv
  BY BaseInit, LengthInit, SSPInit, MembersInit, NewInit DEF IInv

LEMMA InvStep == IInv /\ [Next]_vars => IInv'
  BY BaseStep, LengthStep, SSPStep, MembersStep, NewStep DEF IInv

THEOREM Invariance == Spec => []IInv
<1>1. Init => IInv
  BY InvInit
<1>2. IInv /\ [Next]_vars => IInv'
  BY InvStep
<1> QED BY <1>1, <1>2, PTL DEF Spec

(* Both windows hold what was read of the latest frames, the results are   *)
(* sums, and the window of the old action never holds more than            *)
(* mTidyOld * mMaxTime frames (tidyInData of tcf.cpp).                     *)
THEOREM TypeCorrect == Spec => []TypeOK
<1>1. IInv => TypeOK
  <2> SUFFICES ASSUME BaseInv PROVE TypeOK
    BY DEF IInv
  <2>1. settings.tidyOld > 0 => Len(inData) <= settings.tidyOld * MaxTime
    <3>1. settings.tidyOld * MaxTime \in Int /\ Len(inData) \in Nat
      BY TidyBound DEF BaseInv, WindowInv
    <3> QED BY <3>1 DEF BaseInv, TooLong
  <2> QED BY <2>1 DEF BaseInv, TypeOK, WindowInv, Seens, Entries, Results
<1> QED BY <1>1, Invariance, PTL

(* ResidenceTimeSSP counts each origin once at each lag that the           *)
(* trajectory has for it, whatever was trimmed.                            *)
THEOREM SurvivalRight == Spec => []SurvivalOfEachOrigin
<1>1. IInv => SurvivalOfEachOrigin
  BY SSPRight DEF IInv
<1> QED BY <1>1, Invariance, PTL

(* ResidenceTime counts the survival of the membership from every origin   *)
(* of which the trimming has left enough.                                  *)
THEOREM MembershipRight == Spec => []SurvivalOfMembers
<1>1. IInv => SurvivalOfMembers
  BY MembersRight DEF IInv
<1> QED BY <1>1, Invariance, PTL

(* The documented Escape options replace the loops of the old commands.    *)
THEOREM ReplacementRight == Spec => []NewVersionReplacesOld
<1>1. IInv => NewVersionReplacesOld
  BY NewRight DEF IInv
<1> QED BY <1>1, Invariance, PTL

=============================================================================
