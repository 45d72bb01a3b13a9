----------------------------- MODULE TTCF_proofs -----------------------------
(***************************************************************************)
(* What one call of correlate() does to a window of consecutive frames,    *)
(* for every MaxTime, TidyOld and window size, and what the counters of    *)
(* the Escape conditions count, for all flags.                             *)
(***************************************************************************)
EXTENDS TTCFConditions, SequenceTheorems, FiniteSetTheorems, WellFoundedInduction, TLAPS

(* The window data holds consecutive frames and ends with frame m.         *)
Consecutive(data, m) ==
  \A k \in 1 .. Len(data) : data[k] = m - Len(data) + k

(* A window that is to be trimmed holds more than MaxTime frames.          *)
LEMMA TidyKeepsEnough == TidyOld > 0 => TidyOld * MaxTime >= MaxTime
  BY TidyOldAssumption, MaxTimeAssumption

(* Dividing the number of stored values by NumItems drops the frame of any *)
(* item but the first.                                                     *)
LEMMA StoredSteps ==
  ASSUME NEW k \in Nat, NEW item \in 0 .. NumItems - 1, k > 0 \/ item = 0
  PROVE  (NumItems * k - item) \div NumItems = IF item = 0 THEN k ELSE k - 1
<1> DEFINE n == NumItems
           a == n * k
           q == (a - item) \div n
           r == (a - item) % n
<1>1. n \in Nat \ {0} /\ item \in 0 .. n - 1 /\ k \in Nat
  BY ItemAssumption
<1>2. a \in Nat
  BY <1>1
<1> HIDE DEF n, a
<1>3. a - item \in Int
  BY <1>1, <1>2
<1>4. q \in Int /\ r \in 0 .. n - 1 /\ a - item = n * q + r
  BY <1>1, <1>3, Z3
<1> HIDE DEF q, r
<1>5. n * k - n * q = item + r
  BY <1>1, <1>4 DEF a
<1>6. q <= k
  <2> SUFFICES ASSUME q > k PROVE FALSE
    BY <1>1, <1>4
  <2>1. n * q >= n * k + n
    <3>1. n * (q - k - 1) >= 0
      BY <1>1, <1>4
    <3> QED BY <1>1, <1>4, <3>1
  <2> QED BY <1>1, <1>4, <1>5, <2>1
<1>7. q >= k - 1
  <2> SUFFICES ASSUME q < k - 1 PROVE FALSE
    BY <1>1, <1>4
  <2>1. n * k >= n * q + n + n
    <3>1. n * (k - q - 2) >= 0
      BY <1>1, <1>4
    <3> QED BY <1>1, <1>4, <3>1
  <2> QED BY <1>1, <1>4, <1>5, <2>1
<1>8. q = k \/ q = k - 1
  BY <1>1, <1>4, <1>6, <1>7
<1>9. n * (k - 1) = n * k - n /\ n * k \in Int
  BY <1>1
<1>10. CASE q = k
  BY <1>1, <1>4, <1>5, <1>9, <1>10 DEF q, a, n
<1>11. CASE q = k - 1
  <2>1. item + r = n
    BY <1>1, <1>4, <1>5, <1>9, <1>11
  <2>2. item # 0
    BY <1>1, <1>4, <2>1
  <2> QED BY <1>11, <2>2 DEF q, a, n
<1> QED BY <1>8, <1>10, <1>11

(* The largest lag, without the division.                                  *)
LEMMA MaxDTValue ==
  ASSUME NEW size \in Nat, NEW x \in 0 .. size, NEW item \in 0 .. NumItems - 1,
         x < size \/ item = 0
  PROVE  LET steps == IF item = 0 THEN size - x ELSE size - x - 1
         IN GetMaxDT(size, x, item) = IF steps < MaxTime - 1 THEN steps - 1
                                                           ELSE MaxTime - 1
<1>1. size - x \in Nat /\ (size - x > 0 \/ item = 0)
  OBVIOUS
<1>2. (NumItems * (size - x) - item) \div NumItems
        = IF item = 0 THEN size - x ELSE size - x - 1
  BY <1>1, StoredSteps
<1> QED BY <1>2 DEF GetMaxDT

LEMMA MaxDTOfWindow ==
  ASSUME NEW size \in Nat
  PROVE  GetMaxDT(size, 0, 0) = IF size < MaxTime - 1 THEN size - 1 ELSE MaxTime - 1
<1>1. 0 \in 0 .. size /\ 0 \in 0 .. NumItems - 1 /\ size - 0 = size
  BY ItemAssumption
<1> QED BY <1>1, MaxDTValue

(* A window of more than MaxTime frames reaches the largest lag.           *)
LEMMA MaxDTOfFullWindow ==
  ASSUME NEW size \in Nat, size >= MaxTime
  PROVE  GetMaxDT(size, 0, 0) = MaxTime - 1
  BY MaxTimeAssumption, MaxDTOfWindow

(* A scheduled correlation of the last n origins of a window that is long  *)
(* enough counts, at every lag, the n frames that have just got their      *)
(* MaxTime-th frame, as far as the window still holds them.                *)
LEMMA ScheduledOrigins ==
  ASSUME NEW m \in Nat, NEW n \in Nat \ {0}, NEW data \in Seq(Frames),
         Consecutive(data, m), ~TooShort(Len(data), -1),
         NEW dt \in Lags, NEW o \in Frames
  PROVE  Contributes(data, n, -1, dt, o) <=>
           /\ o >= m - Len(data) + 1
           /\ o >= m - MaxTime - n + 2
           /\ o <= m - MaxTime + 1
<1> DEFINE L == Len(data)
<1>1. L \in Nat /\ MaxTime \in Nat \ {0} /\ o \in Nat /\ dt \in 0 .. MaxTime - 1
  BY MaxTimeAssumption, NumFramesAssumption DEF Lags, Frames
<1>2. StartLag(L, -1) = MaxTime - 1
  BY <1>1, MaxDTOfWindow DEF TooShort, StartLag
<1>3. ASSUME Contributes(data, n, -1, dt, o)
      PROVE  o >= m - L + 1 /\ o >= m - MaxTime - n + 2 /\ o <= m - MaxTime + 1
  <2>0. PICK x \in OriginIndices(L, n, -1) : data[x + 1] = o
    BY <1>3 DEF Contributes
  <2>1. /\ x \in 0 .. L - 1
        /\ \E i \in 1 .. n : x = L - (MaxTime - 1 + i)
    BY <1>2, <2>0 DEF OriginIndices
  <2>2. data[x + 1] = m - L + (x + 1)
    <3>1. x + 1 \in 1 .. L
      BY <1>1, <2>1
    <3> QED BY <3>1 DEF Consecutive
  <2> QED BY <1>1, <2>0, <2>1, <2>2
<1>4. ASSUME o >= m - L + 1, o >= m - MaxTime - n + 2, o <= m - MaxTime + 1
      PROVE  Contributes(data, n, -1, dt, o)
  <2> DEFINE x == o - (m - L + 1)
             i == L - MaxTime + 1 - x
  <2>1. x \in 0 .. L - 1 /\ i \in 1 .. n /\ x = L - (MaxTime - 1 + i)
    BY <1>1, <1>4
  <2>2. data[x + 1] = o
    <3>1. x + 1 \in 1 .. L
      BY <1>1, <2>1
    <3>2. data[x + 1] = m - L + (x + 1)
      BY <3>1 DEF Consecutive
    <3> QED BY <1>1, <3>2
  <2>3. Reaches(L, x, dt)
    <3>1. GetMaxDT(L, x, Item) = MaxTime - 1
      <4>1. /\ x \in 0 .. L /\ x < L /\ Item \in 0 .. NumItems - 1
            /\ L - x - 1 >= MaxTime - 1 /\ L - x >= MaxTime - 1
        BY <1>1, <2>1, ItemAssumption
      <4> HIDE DEF x
      <4> QED BY <1>1, <4>1, MaxDTValue
    <3> QED BY <1>1, <2>1, <3>1 DEF Reaches
  <2>4. x \in OriginIndices(L, n, -1)
    BY <1>2, <2>1 DEF OriginIndices
  <2> QED BY <2>2, <2>3, <2>4 DEF Contributes
<1> QED BY <1>3, <1>4

(* A final correlation with a given lag j counts the single frame m - j,   *)
(* at the lags up to j, for the first item of a frame.                     *)
LEMMA FinalOrigin ==
  ASSUME NEW m \in Nat, NEW j \in 0 .. MaxTime - 2, NEW data \in Seq(Frames),
         Consecutive(data, m), NEW dt \in Lags, NEW o \in Frames, Item = 0
  PROVE  Contributes(data, 1, j, dt, o) <=>
           o = m - j /\ o >= m - Len(data) + 1 /\ dt <= j
<1> DEFINE L == Len(data)
<1>1. L \in Nat /\ MaxTime \in Nat \ {0} /\ o \in Nat /\ dt \in 0 .. MaxTime - 1
      /\ j \in Int
  BY MaxTimeAssumption, NumFramesAssumption DEF Lags, Frames
<1>2. StartLag(L, j) = j
  BY <1>1 DEF StartLag
<1>3. ASSUME Contributes(data, 1, j, dt, o)
      PROVE  o = m - j /\ o >= m - L + 1 /\ dt <= j
  <2>0. PICK x \in OriginIndices(L, 1, j) : data[x + 1] = o /\ Reaches(L, x, dt)
    BY <1>3 DEF Contributes
  <2>1. x \in 0 .. L - 1 /\ x = L - (j + 1)
    BY <1>1, <1>2, <2>0 DEF OriginIndices
  <2>2. data[x + 1] = m - L + (x + 1)
    <3>1. x + 1 \in 1 .. L
      BY <1>1, <2>1
    <3> QED BY <3>1 DEF Consecutive
  <2> QED BY <1>1, <2>0, <2>1, <2>2 DEF Reaches
<1>4. ASSUME o = m - j, o >= m - L + 1, dt <= j
      PROVE  Contributes(data, 1, j, dt, o)
  <2> DEFINE x == L - (j + 1)
  <2>1. x \in 0 .. L - 1
    BY <1>1, <1>4
  <2>2. data[x + 1] = o
    <3>1. x + 1 \in 1 .. L
      BY <1>1, <2>1
    <3>2. data[x + 1] = m - L + (x + 1)
      BY <3>1 DEF Consecutive
    <3> QED BY <1>1, <1>4, <3>2
  <2>3. Reaches(L, x, dt)
    <3>1. GetMaxDT(L, x, 0) = IF j + 1 < MaxTime - 1 THEN j ELSE MaxTime - 1
      <4>1. L - x = j + 1 /\ x \in 0 .. L /\ 0 \in 0 .. NumItems - 1
        BY <1>1, <2>1, ItemAssumption
      <4> QED BY <1>1, <4>1, MaxDTValue
    <3> QED BY <1>1, <1>4, <2>1, <3>1 DEF Reaches
  <2>4. x \in OriginIndices(L, 1, j)
    BY <1>2, <2>1 DEF OriginIndices
  <2> QED BY <2>2, <2>3, <2>4 DEF Contributes
<1> QED BY <1>3, <1>4

(* After a call of correlate() the window is unchanged, or it is the last  *)
(* MaxTime frames of a longer one; either way its frames are consecutive.  *)
LEMMA TidiedWindow ==
  ASSUME NEW m \in Nat, NEW data \in Seq(Frames), NEW externalmaxdt \in Int,
         Consecutive(data, m), NEW w, w = TidiedAfter(data, data, externalmaxdt)
  PROVE  /\ w \in Seq(Frames)
         /\ Consecutive(w, m)
         /\ w = data \/ (Len(w) = MaxTime /\ Len(data) > MaxTime)
         /\ TidyOld > 0 /\ ~TooShort(Len(data), externalmaxdt) =>
              Len(w) <= TidyOld * MaxTime
<1> DEFINE L == Len(data)
           P == TidyOld * MaxTime
<1>1. L \in Nat /\ MaxTime \in Nat \ {0} /\ TidyOld \in Nat
  BY MaxTimeAssumption, TidyOldAssumption
<1>2. P \in Nat /\ (TidyOld > 0 => P >= MaxTime)
  BY <1>1, TidyKeepsEnough
<1> HIDE DEF P
<1>3. CASE w = data
  <2>1. TidyOld > 0 /\ ~TooShort(L, externalmaxdt) => L <= P
    <3> SUFFICES ASSUME TidyOld > 0, ~TooShort(L, externalmaxdt), L > P
                 PROVE  FALSE
      BY <1>1, <1>2
    <3>1. w = SubSeq(data, L - GetMaxDT(L, 0, 0), L)
      BY DEF TidiedAfter, TidyInData, P
    <3>2. L > MaxTime
      BY <1>1, <1>2
    <3>3. GetMaxDT(L, 0, 0) = MaxTime - 1
      BY <1>1, <3>2, MaxDTOfFullWindow
    <3>4. Len(w) = MaxTime
      BY <1>1, <3>1, <3>2, <3>3
    <3> QED BY <1>1, <1>3, <3>2, <3>4
  <2> QED BY <1>3, <2>1 DEF P
<1>4. CASE w # data
  <2>1. /\ TidyOld > 0 /\ L > P
        /\ w = SubSeq(data, L - GetMaxDT(L, 0, 0), L)
    BY <1>4 DEF TidiedAfter, TidyInData, P
  <2>2. L > MaxTime /\ w = SubSeq(data, L - (MaxTime - 1), L)
    <3>1. L > MaxTime
      BY <1>1, <1>2, <2>1
    <3>2. GetMaxDT(L, 0, 0) = MaxTime - 1
      BY <1>1, <3>1, MaxDTOfFullWindow
    <3> QED BY <2>1, <3>1, <3>2
  <2>3. /\ w \in Seq(Frames) /\ Len(w) = MaxTime
        /\ \A k \in 1 .. MaxTime : w[k] = data[(L - (MaxTime - 1)) + k - 1]
    <3>1. L - (MaxTime - 1) \in 1 .. L + 1 /\ L \in L - (MaxTime - 1) - 1 .. L
      BY <1>1, <2>2
    <3> HIDE DEF L
    <3>2. Len(w) = L - (L - (MaxTime - 1)) + 1
      BY <2>2, <3>1, SubSeqProperties DEF L
    <3> QED BY <1>1, <2>2, <3>1, <3>2, SubSeqProperties DEF L
  <2>4. ASSUME NEW k \in 1 .. MaxTime
        PROVE  w[k] = m - MaxTime + k
    <3>1. L - (MaxTime - 1) + k - 1 \in 1 .. L
      BY <1>1, <2>2
    <3>2. w[k] = m - L + (L - (MaxTime - 1) + k - 1)
      BY <2>3, <3>1 DEF Consecutive
    <3> QED BY <1>1, <3>2
  <2> QED BY <1>1, <1>2, <2>1, <2>2, <2>3, <2>4 DEF Consecutive, P
<1> QED BY <1>3, <1>4

(* Storing one more frame extends a window of consecutive frames.          *)
LEMMA AppendFrame ==
  ASSUME NEW m \in Nat, m + 1 \in Frames, NEW data \in Seq(Frames),
         Consecutive(data, m)
  PROVE  /\ Append(data, m + 1) \in Seq(Frames)
         /\ Len(Append(data, m + 1)) = Len(data) + 1
         /\ Consecutive(Append(data, m + 1), m + 1)
<1> DEFINE L == Len(data)
           d == Append(data, m + 1)
<1>1. L \in Nat /\ d \in Seq(Frames) /\ Len(d) = L + 1
  OBVIOUS
<1>2. ASSUME NEW k \in 1 .. L + 1
      PROVE  d[k] = (m + 1) - (L + 1) + k
  <2>1. CASE k = L + 1
    BY <1>1, <2>1
  <2>2. CASE k # L + 1
    <3>1. k \in 1 .. L
      BY <1>1, <2>2
    <3>2. d[k] = data[k] /\ data[k] = m - L + k
      BY <3>1 DEF Consecutive
    <3> QED BY <1>1, <3>1, <3>2
  <2> QED BY <2>1, <2>2
<1> HIDE DEF d
<1>3. Consecutive(d, m + 1)
  BY <1>1, <1>2 DEF Consecutive
<1> QED BY <1>1, <1>3 DEF d

-----------------------------------------------------------------------------
(* Sums of counters are natural numbers.                                   *)
LEMMA CountsTyped ==
  ASSUME NEW out \in [Lags -> [Frames -> Nat]], NEW data, NEW n, NEW j
  PROVE  CorrelatedOut(data, out, n, j) \in [Lags -> [Frames -> Nat]]
<1>1. ASSUME NEW dt \in Lags, NEW o \in Frames
      PROVE  out[dt][o] + (IF Contributes(data, n, j, dt, o) THEN 1 ELSE 0) \in Nat
  OBVIOUS
<1> QED BY <1>1 DEF CorrelatedOut

(* Trimming keeps the elements of a sequence.                             *)
LEMMA TidiedTyped ==
  ASSUME NEW data \in Seq(Frames), NEW S, NEW s \in Seq(S), NEW j \in Int
  PROVE  TidiedAfter(data, s, j) \in Seq(S)
<1>1. GetMaxDT(Len(data), 0, 0) \in Int /\ GetMaxDT(Len(data), 0, 0) < MaxTime
  BY MaxTimeAssumption, MaxDTOfWindow
<1>2. CASE TidiedAfter(data, s, j) = s
  BY <1>2
<1>3. CASE TidiedAfter(data, s, j) # s
  <2> DEFINE d == GetMaxDT(Len(data), 0, 0)
  <2>1. /\ TidiedAfter(data, s, j) = SubSeq(s, Len(s) - d, Len(s))
        /\ Len(s) > TidyOld * MaxTime
    BY <1>3 DEF TidiedAfter, TidyInData
  <2>2. d < MaxTime
    BY <1>1
  <2>3. ASSUME NEW i \in Len(s) - d .. Len(s)
        PROVE  s[i] \in S
    <3>1. TidyOld > 0 /\ TidyOld * MaxTime >= MaxTime
      BY <1>3, TidyKeepsEnough DEF TidiedAfter, TidyInData
    <3>2. TidyOld * MaxTime \in Nat
      BY MaxTimeAssumption, TidyOldAssumption
    <3>3. Len(s) > MaxTime
      BY <2>1, <3>1, <3>2, MaxTimeAssumption
    <3>4. i \in 1 .. Len(s)
      BY <1>1, <2>2, <3>3, MaxTimeAssumption
    <3> QED BY <3>4
  <2>4. Len(s) - d \in Int /\ Len(s) \in Int
    BY <1>1
  <2> HIDE DEF d
  <2> QED BY <2>1, <2>3, <2>4, SubSeqProperties
<1> QED BY <1>2, <1>3

-----------------------------------------------------------------------------
(* A remainder is at most the number divided.                              *)
LEMMA ModBounds ==
  ASSUME NEW n \in Nat, NEW f \in Nat \ {0}
  PROVE  n % f \in 0 .. n /\ n % f < f
<1> DEFINE q == n \div f
           r == n % f
<1>1. q \in Nat /\ r \in 0 .. f - 1 /\ n = f * q + r
  BY Z3
<1> HIDE DEF q, r
<1>2. f * q >= 0 /\ f * q \in Int
  BY <1>1
<1>3. r \in 0 .. n /\ r < f
  BY <1>1, <1>2
<1> QED BY <1>3 DEF r

(* Counting up through a correlation period.                               *)
LEMMA ModSuccessor ==
  ASSUME NEW n \in Nat, NEW f \in Nat \ {0}
  PROVE  (n + 1) % f = IF n % f = f - 1 THEN 0 ELSE (n % f) + 1
<1> DEFINE q == n \div f
           r == n % f
           p == (n + 1) \div f
           s == (n + 1) % f
<1>1. /\ q \in Nat /\ r \in 0 .. f - 1 /\ n = f * q + r
      /\ p \in Nat /\ s \in 0 .. f - 1 /\ n + 1 = f * p + s
  BY Z3
<1> HIDE DEF q, r, p, s
<1>2. f * p - f * q = r + 1 - s
  BY <1>1
<1>3. p = q \/ p = q + 1
  <2>1. ~(p < q)
    <3> SUFFICES ASSUME p < q PROVE FALSE
      OBVIOUS
    <3>1. PICK d \in Nat : q = p + 1 + d
      <4> q - p - 1 \in Nat /\ q = p + 1 + (q - p - 1)
        BY <1>1
      <4> QED OBVIOUS
    <3>2. f * q = f * p + f + f * d /\ f * d >= 0
      BY <1>1, <3>1
    <3> QED BY <1>1, <1>2, <3>2
  <2>2. ~(p > q + 1)
    <3> SUFFICES ASSUME p > q + 1 PROVE FALSE
      OBVIOUS
    <3>1. PICK d \in Nat : p = q + 2 + d
      <4> p - q - 2 \in Nat /\ p = q + 2 + (p - q - 2)
        BY <1>1
      <4> QED OBVIOUS
    <3>2. f * p = f * q + f + f + f * d /\ f * d >= 0
      BY <1>1, <3>1
    <3> QED BY <1>1, <1>2, <3>2
  <2> QED BY <1>1, <2>1, <2>2
<1>4. f * (q + 1) = f * q + f
  BY <1>1
<1>5. CASE p = q
  <2>1. s = r + 1 /\ r # f - 1
    BY <1>1, <1>2, <1>5
  <2> QED BY <2>1 DEF r, s
<1>6. CASE p = q + 1
  <2>1. s = 0 /\ r = f - 1
    BY <1>1, <1>2, <1>4, <1>6
  <2> QED BY <2>1 DEF r, s
<1> QED BY <1>3, <1>5, <1>6

(* Every origin from first up to last is counted once at every lag, and    *)
(* nothing else is.                                                        *)
CountedThrough(out, first, last) ==
  \A dt \in Lags, o \in Frames :
    out[dt][o] = IF o >= first /\ o <= last THEN 1 ELSE 0

(* Every origin from first up to last is counted once at each lag whose    *)
(* partner frame is at most m.                                             *)
CountedAsFarAs(out, first, last, m) ==
  \A dt \in Lags, o \in Frames :
    out[dt][o] = IF o >= first /\ o <= last /\ o + dt <= m THEN 1 ELSE 0

(* A window of size frames that ends with frame m reaches back to the      *)
(* first frame or beyond the oldest origin not counted by time last.       *)
ReachesBack(size, m, first, last) ==
  /\ size >= 1
  /\ size <= m - first + 1
  /\ size = m - first + 1 \/ m - size + 1 <= last - MaxTime + 2

(* A scheduled correlation of the n newest frames that are due.            *)
LEMMA ScheduledCounts ==
  ASSUME NEW m \in Nat, NEW n \in Nat \ {0}, NEW first \in Nat \ {0},
         NEW data \in Seq(Frames), Consecutive(data, m),
         ReachesBack(Len(data), m, first, m - n),
         NEW out \in [Lags -> [Frames -> Nat]],
         CountedThrough(out, first, m - n - MaxTime + 1)
  PROVE  CountedThrough(CorrelatedOut(data, out, n, -1), first, m - MaxTime + 1)
<1> DEFINE L == Len(data)
           new == CorrelatedOut(data, out, n, -1)
<1>1. L \in Nat /\ MaxTime \in Nat \ {0}
  BY MaxTimeAssumption
<1> SUFFICES ASSUME NEW dt \in Lags, NEW o \in Frames
             PROVE  new[dt][o] = IF o >= first /\ o <= m - MaxTime + 1 THEN 1 ELSE 0
  BY DEF CountedThrough
<1>2. o \in Nat
  BY DEF Frames
<1>3. out[dt][o] = IF o >= first /\ o <= m - n - MaxTime + 1 THEN 1 ELSE 0
  BY DEF CountedThrough
<1>4. CASE TooShort(L, -1)
  <2>1. L < MaxTime - 1
    BY <1>1, <1>4, MaxDTOfWindow DEF TooShort, StartLag
  <2>2. new = out
    BY <1>4 DEF CorrelatedOut
  <2> QED BY <1>1, <1>2, <1>3, <2>1, <2>2 DEF ReachesBack
<1>5. CASE ~TooShort(L, -1)
  <2>1. new[dt][o] = out[dt][o] + IF Contributes(data, n, -1, dt, o) THEN 1 ELSE 0
    BY <1>5 DEF CorrelatedOut
  <2>2. Contributes(data, n, -1, dt, o) <=>
          o >= m - L + 1 /\ o >= m - MaxTime - n + 2 /\ o <= m - MaxTime + 1
    BY <1>5, ScheduledOrigins
  <2> HIDE DEF new, L
  <2>3. ReachesBack(L, m, first, m - n)
    BY DEF L
  <2> QED BY <1>1, <1>2, <1>3, <2>1, <2>2, <2>3 DEF ReachesBack
<1> QED BY <1>4, <1>5

(* One turn of the final loop.                                             *)
LEMMA FinalCounts ==
  ASSUME NEW m \in Nat, NEW j \in 0 .. MaxTime - 2, NEW first \in Nat \ {0},
         NEW data \in Seq(Frames), Consecutive(data, m),
         ReachesBack(Len(data), m, first, m),
         NEW out \in [Lags -> [Frames -> Nat]],
         CountedAsFarAs(out, first, m - j - 1, m), Item = 0
  PROVE  CountedAsFarAs(CorrelatedOut(data, out, 1, j), first, m - j, m)
<1> DEFINE L == Len(data)
           new == CorrelatedOut(data, out, 1, j)
<1>1. L \in Nat /\ MaxTime \in Nat \ {0} /\ j \in Nat /\ j <= MaxTime - 2
  BY MaxTimeAssumption
<1> SUFFICES ASSUME NEW dt \in Lags, NEW o \in Frames
             PROVE  new[dt][o] =
                      IF o >= first /\ o <= m - j /\ o + dt <= m THEN 1 ELSE 0
  BY DEF CountedAsFarAs
<1>2. o \in Nat /\ dt \in Nat
  BY DEF Frames, Lags
<1>3. out[dt][o] = IF o >= first /\ o <= m - j - 1 /\ o + dt <= m THEN 1 ELSE 0
  BY DEF CountedAsFarAs
<1>4. ~TooShort(L, j)
  BY <1>1 DEF TooShort
<1>5. new[dt][o] = out[dt][o] + IF Contributes(data, 1, j, dt, o) THEN 1 ELSE 0
  BY <1>4 DEF CorrelatedOut
<1>6. Contributes(data, 1, j, dt, o) <=> o = m - j /\ o >= m - L + 1 /\ dt <= j
  BY FinalOrigin
<1>7. /\ L <= m - first + 1
      /\ L = m - first + 1 \/ m - L + 1 <= m - MaxTime + 2
  BY DEF ReachesBack
<1> HIDE DEF new, L
<1>8. m - j >= m - L + 1 <=> m - j >= first
  BY <1>1, <1>7
<1>9. CASE o = m - j
  <2>1. out[dt][o] = 0 /\ (o + dt <= m <=> dt <= j)
    BY <1>1, <1>2, <1>3, <1>9
  <2>2. o >= m - L + 1 <=> o >= first
    BY <1>8, <1>9
  <2> QED BY <1>1, <1>2, <1>5, <1>6, <1>9, <2>1, <2>2, SMTT(30)
<1>10. CASE o # m - j
  <2>1. new[dt][o] = out[dt][o]
    BY <1>3, <1>5, <1>6, <1>10
  <2>2. o <= m - j - 1 <=> o <= m - j
    BY <1>1, <1>2, <1>10
  <2> QED BY <1>3, <2>1, <2>2
<1> QED BY <1>9, <1>10

(* Trimming after a call of correlate() leaves the frames the next call    *)
(* needs.                                                                  *)
LEMMA TidiedReachesBack ==
  ASSUME NEW m \in Nat, NEW first \in Nat \ {0}, NEW last \in Int, last <= m,
         NEW data \in Seq(Frames), Consecutive(data, m),
         ReachesBack(Len(data), m, first, last),
         NEW j \in Int, NEW w, w = TidiedAfter(data, data, j)
  PROVE  /\ w \in Seq(Frames)
         /\ Consecutive(w, m)
         /\ ReachesBack(Len(w), m, first, m)
<1>1. Len(data) \in Nat /\ MaxTime \in Nat \ {0}
  BY MaxTimeAssumption
<1>2. /\ w \in Seq(Frames) /\ Consecutive(w, m)
      /\ w = data \/ (Len(w) = MaxTime /\ Len(data) > MaxTime)
  BY TidiedWindow
<1>3. CASE w = data
  BY <1>1, <1>2, <1>3 DEF ReachesBack
<1>4. CASE Len(w) = MaxTime /\ Len(data) > MaxTime
  BY <1>1, <1>2, <1>4 DEF ReachesBack
<1> QED BY <1>2, <1>3, <1>4

-----------------------------------------------------------------------------
(* The counters of the Escape conditions.                                  *)

(* Every set of natural numbers that is not empty has a least element.     *)
LEMMA LeastElement ==
  ASSUME NEW S \in SUBSET Nat, S # {}
  PROVE  \E n \in S : \A m \in S : n <= m
<1> DEFINE R == OpToRel(<, Nat)
<1>1. IsWellFoundedOn(R, Nat)
  BY NatLessThanWellFounded
<1>2. \E n \in S : \A m \in S : ~(<<m, n>> \in R)
  <2> HIDE DEF R
  <2> QED BY <1>1, WFMin
<1>3. \A n, m \in Nat : <<m, n>> \in R <=> m < n
  BY DEF OpToRel
<1> HIDE DEF R
<1>4. \A n, m \in S : ~(<<m, n>> \in R) => n <= m
  BY <1>3
<1> QED BY <1>2, <1>4

(* One turn of the loop of checkIfMemberFor, and u the record of the turns *)
(* 0 .. n over the flags b.                                                *)
Turn(b, k, last) ==
  LET run == IF b[k] THEN 0 ELSE last.run + 1
  IN [run     |-> run,
      longest |-> IF run > last.longest THEN run ELSE last.longest,
      total   |-> last.total + IF b[k] THEN 0 ELSE 1]

NoTurns == [run |-> 0, longest |-> 0, total |-> 0]

IsCount(b, n, u) ==
  u = [k \in 0 .. n |-> Turn(b, k, IF k = 0 THEN NoTurns ELSE u[k - 1])]

LEMMA CountExists ==
  ASSUME NEW b, NEW n \in Nat
  PROVE  \E u : IsCount(b, n, u)
<1> DEFINE S == {m \in Nat : ~ \E u : IsCount(b, m, u)}
<1>1. ASSUME NEW m \in S, \A x \in S : m <= x
      PROVE  FALSE
  <2>1. CASE m = 0
    <3> DEFINE u == [k \in 0 .. 0 |-> Turn(b, k, NoTurns)]
    <3>1. u = [k \in 0 .. 0 |-> Turn(b, k, IF k = 0 THEN NoTurns ELSE u[k - 1])]
      OBVIOUS
    <3> HIDE DEF u
    <3> QED BY <2>1, <3>1 DEF IsCount
  <2>2. CASE m # 0
    <3>1. m - 1 \in Nat /\ m - 1 \notin S /\ m \in Nat
      BY <1>1, <2>2
    <3>2. PICK v : IsCount(b, m - 1, v)
      BY <3>1
    <3> DEFINE T(k, f) == Turn(b, k, IF k = 0 THEN NoTurns ELSE f[k - 1])
               u == [k \in 0 .. m |-> IF k < m THEN v[k] ELSE T(m, v)]
    <3>3. \A k \in 0 .. m - 1 : u[k] = v[k] /\ v[k] = T(k, v)
      BY <3>1, <3>2 DEF IsCount
    <3>4. u[m] = T(m, v)
      BY <3>1
    <3>5. u = [k \in 0 .. m |-> u[k]]
      OBVIOUS
    <3> HIDE DEF u
    <3>6. \A k \in 0 .. m : T(k, u) = T(k, v)
      <4> SUFFICES ASSUME NEW k \in 0 .. m PROVE T(k, u) = T(k, v)
        OBVIOUS
      <4>1. k = 0 \/ u[k - 1] = v[k - 1]
        BY <3>1, <3>3
      <4> QED BY <4>1
    <3>7. \A k \in 0 .. m : u[k] = T(k, u)
      <4> HIDE DEF T
      <4> SUFFICES ASSUME NEW k \in 0 .. m PROVE u[k] = T(k, u)
        OBVIOUS
      <4>1. k = m \/ k \in 0 .. m - 1
        BY <3>1
      <4> QED BY <3>3, <3>4, <3>6, <4>1
    <3>8. u = [k \in 0 .. m |-> T(k, u)]
      <4> HIDE DEF T
      <4> QED BY <3>5, <3>7
    <3> QED BY <3>8 DEF IsCount
  <2> QED BY <2>1, <2>2
<1>2. S = {}
  BY <1>1, LeastElement
<1> QED BY <1>2

(* Every stretch of c + 1 flags up to k holds a true one.                  *)
NoLongRun(b, k, c) == \A f \in 0 .. k - c : \E g \in f .. f + c : b[g]

FalseFlags(b, k) == Cardinality({j \in 0 .. k : ~b[j]})

(* What the counters say after turn k.                                     *)
CountedRight(b, k, z) ==
  /\ z.run \in 0 .. k + 1
  /\ \A j \in k - z.run + 1 .. k : ~b[j]
  /\ z.run = k + 1 \/ b[k - z.run]
  /\ z.longest \in Nat
  /\ \A c \in Nat : z.longest <= c <=> NoLongRun(b, k, c)
  /\ z.total = FalseFlags(b, k)

LEMMA NoLongRunNext ==
  ASSUME NEW n \in Nat, NEW b \in [0 .. n -> BOOLEAN], NEW k \in 0 .. n, NEW run \in 0 .. k + 1,
         \A j \in k - run + 1 .. k : ~b[j], run = k + 1 \/ b[k - run], NEW c \in Nat
  PROVE  NoLongRun(b, k, c) <=> (k = 0 \/ NoLongRun(b, k - 1, c)) /\ run <= c
<1>1. k \in Nat /\ run \in Nat
  OBVIOUS
<1>2. CASE c > k
  <2>1. run <= c
    BY <1>2
  <2>2. NoLongRun(b, k, c) /\ NoLongRun(b, k - 1, c)
    BY <1>1, <1>2 DEF NoLongRun
  <2> QED BY <2>1, <2>2
<1>3. CASE c <= k
  <2>1. (\E g \in k - c .. k : b[g]) <=> run <= c
    <3>1. ASSUME NEW g \in k - c .. k, b[g] PROVE run <= c
      BY <1>1, <1>3, <3>1
    <3>2. ASSUME run <= c PROVE k - run \in k - c .. k /\ b[k - run]
      BY <1>1, <1>3, <3>2
    <3> QED BY <3>1, <3>2
  <2>2. NoLongRun(b, k, c) <=> (k = 0 \/ NoLongRun(b, k - 1, c)) /\ \E g \in k - c .. k : b[g]
    <3>1. k - c \in 0 .. k - c /\ (k - c) + c = k
      BY <1>1, <1>3
    <3>2. \A f \in 0 .. k - c : f = k - c \/ (k # 0 /\ f \in 0 .. k - 1 - c)
      BY <1>1, <1>3
    <3>3. \A f \in 0 .. k - 1 - c : f \in 0 .. k - c
      BY <1>1
    <3> QED BY <3>1, <3>2, <3>3 DEF NoLongRun
  <2> QED BY <2>1, <2>2
<1> QED BY <1>1, <1>2, <1>3

LEMMA FalseFlagsNext ==
  ASSUME NEW n \in Nat, NEW b \in [0 .. n -> BOOLEAN], NEW k \in 0 .. n
  PROVE  /\ FalseFlags(b, k - 1) \in Nat
         /\ k = 0 => FalseFlags(b, k - 1) = 0
         /\ b[k] => FalseFlags(b, k) = FalseFlags(b, k - 1)
         /\ ~b[k] => FalseFlags(b, k) = FalseFlags(b, k - 1) + 1
<1> DEFINE D(m) == {j \in 0 .. m : ~b[j]}
<1>1. IsFiniteSet(D(k - 1))
  <2>1. IsFiniteSet(0 .. k - 1)
    BY FS_Interval
  <2> QED BY <2>1, FS_Subset
<1>2. Cardinality(D(k - 1)) \in Nat
  BY <1>1, FS_CardinalityType
<1>3. k = 0 => D(k - 1) = {}
  OBVIOUS
<1>4. b[k] => D(k) = D(k - 1)
  OBVIOUS
<1>5. ~b[k] => D(k) = D(k - 1) \cup {k} /\ k \notin D(k - 1)
  OBVIOUS
<1> HIDE DEF D
<1>6. ~b[k] => Cardinality(D(k)) = Cardinality(D(k - 1)) + 1
  BY <1>1, <1>5, FS_AddElement
<1>7. FalseFlags(b, k) = Cardinality(D(k)) /\ FalseFlags(b, k - 1) = Cardinality(D(k - 1))
  BY DEF FalseFlags, D
<1> QED BY <1>2, <1>3, <1>4, <1>6, <1>7, FS_EmptySet

LEMMA CountIsRight ==
  ASSUME NEW n \in Nat, NEW b \in [0 .. n -> BOOLEAN], NEW u, IsCount(b, n, u), NEW m \in 0 .. n
  PROVE  CountedRight(b, m, u[m])
<1> DEFINE S == {k \in 0 .. n : ~CountedRight(b, k, u[k])}
<1>1. ASSUME NEW k \in S, \A x \in S : k <= x
      PROVE  FALSE
  <2> DEFINE last == IF k = 0 THEN NoTurns ELSE u[k - 1]
             z    == u[k]
  <2>1. k \in 0 .. n /\ k \in Nat /\ z = Turn(b, k, last)
    BY <1>1 DEF IsCount
  <2>2. k # 0 => CountedRight(b, k - 1, last)
    <3>1. k # 0 => k - 1 \in 0 .. n /\ k - 1 \notin S
      BY <1>1, <2>1
    <3> QED BY <3>1
  <2>3. /\ last.run \in 0 .. k /\ last.longest \in Nat
        /\ \A j \in k - last.run .. k - 1 : ~b[j]
        /\ last.run = k \/ b[k - 1 - last.run]
    <3>1. CASE k = 0
      BY <3>1 DEF NoTurns
    <3>2. CASE k # 0
      <4>1. k - 1 + 1 = k /\ k - 1 - last.run + 1 = k - last.run
        BY <2>1, <2>2, <3>2 DEF CountedRight
      <4> HIDE DEF last
      <4> QED BY <2>2, <3>2, <4>1 DEF CountedRight
    <3> QED BY <3>1, <3>2
  <2>4. /\ z.run = IF b[k] THEN 0 ELSE last.run + 1
        /\ z.longest = IF z.run > last.longest THEN z.run ELSE last.longest
        /\ z.total = last.total + IF b[k] THEN 0 ELSE 1
    BY <2>1 DEF Turn
  <2>t. /\ b[k] => z.total = last.total + 0
        /\ ~b[k] => z.total = last.total + 1
    BY <2>4
  <2>5. last.total = FalseFlags(b, k - 1)
    BY <2>1, <2>2, FalseFlagsNext DEF CountedRight, NoTurns
  <2>6. \A c \in Nat : last.longest <= c <=> (k = 0 \/ NoLongRun(b, k - 1, c))
    BY <2>2 DEF CountedRight, NoTurns
  <2> HIDE DEF last, z
  <2>7. /\ z.run \in 0 .. k + 1
        /\ \A j \in k - z.run + 1 .. k : ~b[j]
        /\ z.run = k + 1 \/ b[k - z.run]
    <3>1. CASE b[k]
      BY <2>1, <2>4, <3>1
    <3>2. CASE ~b[k]
      <4>1. z.run = last.run + 1
        BY <2>4, <3>2
      <4>2. k - z.run + 1 = k - last.run /\ k - z.run = k - 1 - last.run
        BY <2>1, <2>3, <4>1
      <4>3. \A j \in k - last.run .. k : j = k \/ j \in k - last.run .. k - 1
        BY <2>1, <2>3
      <4> QED BY <2>1, <2>3, <3>2, <4>1, <4>2, <4>3
    <3> QED BY <3>1, <3>2
  <2>8. z.longest \in Nat /\ \A c \in Nat : z.longest <= c <=> NoLongRun(b, k, c)
    <3>1. z.run \in Nat /\ z.longest \in Nat
      BY <2>1, <2>3, <2>4, <2>7
    <3>2. \A c \in Nat : z.longest <= c <=> z.run <= c /\ last.longest <= c
      BY <2>3, <2>4, <3>1
    <3> QED BY <2>1, <2>6, <2>7, <3>1, <3>2, NoLongRunNext
  <2>9. z.total = FalseFlags(b, k)
    BY <2>1, <2>t, <2>5, FalseFlagsNext
  <2>10. CountedRight(b, k, z)
    BY <2>7, <2>8, <2>9 DEF CountedRight
  <2> QED BY <1>1, <2>10 DEF z
<1>2. S = {}
  <2>1. S \in SUBSET Nat
    OBVIOUS
  <2> HIDE DEF S
  <2> QED BY <1>1, <2>1, LeastElement
<1> QED BY <1>2

(* The counters of Zeroes, over the turns 0 .. n.                          *)
LEMMA ZeroesRight ==
  ASSUME NEW F, NEW start, NEW index, NEW n \in Nat, (index - start) \div NumItems = n,
         NEW b \in [0 .. n -> BOOLEAN], \A k \in 0 .. n : b[k] = F[start + k * NumItems]
  PROVE  CountedRight(b, n, Zeroes(F, start, index))
<1> DEFINE Body(u) ==
      [k \in 0 .. n |->
        LET last == IF k = 0 THEN [run |-> 0, longest |-> 0, total |-> 0] ELSE u[k - 1]
            run  == IF F[start + k * NumItems] THEN 0 ELSE last.run + 1
        IN [run     |-> run,
            longest |-> IF run > last.longest THEN run ELSE last.longest,
            total   |-> last.total + IF F[start + k * NumItems] THEN 0 ELSE 1]]
<1>1. \A u : Body(u) = [k \in 0 .. n |-> Turn(b, k, IF k = 0 THEN NoTurns ELSE u[k - 1])]
  BY DEF Turn, NoTurns
<1>2. \A u : u = Body(u) <=> IsCount(b, n, u)
  BY <1>1 DEF IsCount
<1> DEFINE upto == CHOOSE u : u = Body(u)
<1>3. Zeroes(F, start, index) = upto[n]
  BY DEF Zeroes
<1> HIDE DEF Body
<1>4. IsCount(b, n, upto)
  BY <1>2, CountExists
<1> HIDE DEF upto
<1> QED BY <1>3, <1>4, CountIsRight

=============================================================================
