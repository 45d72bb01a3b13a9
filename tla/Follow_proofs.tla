------------------------------ MODULE Follow_proofs ------------------------------
(***************************************************************************)
(* Proofs about the two halves of TMSDFollow.  First FollowWindow, for     *)
(* every MaxTime, TidyOld, frequency of correlation, set of sizes and      *)
(* position: the window of a position, what is counted from it, and the    *)
(* displacements that Discretize adds up.  Then FollowMatching, for every  *)
(* size of the group and every matrix of distances; its specification is   *)
(* MatchingSpec.                                                           *)
(***************************************************************************)
EXTENDS FollowWindow, FollowMatching, TTCF_proofs

JumpInfo  == [frame : Frames, same : BOOLEAN]
Intervals == [from : Frames, to : Frames]

(* The last frame, up to m, at which a correlation was due.                *)
LastDue(m) == m - (m % CorrelationFrequency)

(* One frame later a correlation is due, a period after the last one, or   *)
(* it is not.                                                              *)
LEMMA NextDue ==
  ASSUME NEW m \in Nat
  PROVE  /\ LastDue(m) \in 0 .. m
         /\ (m + 1) % CorrelationFrequency = 0 =>
              /\ LastDue(m) = (m + 1) - CorrelationFrequency
              /\ LastDue(m + 1) = m + 1
         /\ (m + 1) % CorrelationFrequency # 0 => LastDue(m + 1) = LastDue(m)
<1> DEFINE f == CorrelationFrequency
<1>1. f \in Nat \ {0}
  BY FollowAssumption
<1>2. (m + 1) % f = IF m % f = f - 1 THEN 0 ELSE (m % f) + 1
  BY <1>1, ModSuccessor
<1>3. m % f \in 0 .. m
  BY <1>1, ModBounds
<1> QED BY <1>1, <1>2, <1>3 DEF LastDue

(* The displacements of Discretize fill the MaxTime frames.                *)
LEMMA WholeDisplacements ==
  ASSUME DiscretizeAllowed
  PROVE  reducedMaxTime \in Nat /\ reducedMaxTime * CorrelationFrequency = MaxTime
<1> DEFINE q == MaxTime \div CorrelationFrequency
           r == MaxTime % CorrelationFrequency
<1>1. MaxTime \in Nat /\ CorrelationFrequency \in Nat \ {0}
  BY MaxTimeAssumption, FollowAssumption
<1>2. q \in Nat /\ r \in Nat /\ MaxTime = CorrelationFrequency * q + r
  BY <1>1, Z3
<1>3. r = 0
  BY DEF DiscretizeAllowed
<1> HIDE DEF q, r
<1>4. q * CorrelationFrequency = MaxTime
  BY <1>1, <1>2, <1>3
<1> QED BY <1>2, <1>4 DEF q, reducedMaxTime

LEMMA OneMore ==
  ASSUME NEW n \in Int
  PROVE  /\ (n + 1) * CorrelationFrequency
              = n * CorrelationFrequency + CorrelationFrequency
         /\ n * CorrelationFrequency \in Int
  BY FollowAssumption

-----------------------------------------------------------------------------
(* The flags belong to the frames of the window, one to one.               *)
FlagsOf(jumps, data) ==
  /\ Len(jumps) = Len(data)
  /\ \A k \in 1 .. Len(data) : jumps[k].frame = data[k]

(* Displacements follow each other up to the frame last, none from before  *)
(* the frame first.                                                        *)
Chain(intervals, last, first) ==
  \A k \in 1 .. Len(intervals) :
    /\ intervals[k].to = last - (Len(intervals) - k) * CorrelationFrequency
    /\ intervals[k].from = intervals[k].to - CorrelationFrequency
    /\ intervals[k].from >= first

(* A window, at frame m, of a group with this many positions, followed     *)
(* since the frame first, that still has to be correlated since the frame  *)
(* last.                                                                   *)
WindowOf(data, jumps, intervals, size, m, first, last) ==
  /\ Consecutive(data, m)
  /\ FlagsOf(jumps, data)
  /\ Position > size => data = <<>> /\ intervals = <<>>
  /\ Position <= size =>
       /\ first > 0
       /\ ReachesBack(Len(data), m, first, last)
       /\ options.discretize => Len(data) = m - first + 1

WindowInv ==
  WindowOf(inData1, jumpInfo, discretized, positions, mCount, followed, LastDue(mCount))

(* No origin is due before its last frame could be correlated.             *)
DueInv == \A o \in due : o + MaxTime - 1 <= LastDue(mCount)

ChainInv ==
  options.discretize /\ ~options.ignoreConflicts =>
    Chain(discretized, LastDue(mCount), followed)

OptionsInv == options.discretize => DiscretizeAllowed

IInv ==
  /\ TypeOK
  /\ OptionsInv
  /\ WindowInv
  /\ DueInv
  /\ CountsWhatIsDue
  /\ ChainInv
  /\ SegmentsTile
  /\ JumpsAreDiscrete

LEMMA InvInit == Init => IInv
<1> SUFFICES ASSUME Init PROVE IInv
  OBVIOUS
<1>1. /\ mCount = 0 /\ positions = 0 /\ inData1 = <<>> /\ jumpInfo = <<>>
      /\ discretized = <<>> /\ outData = NoCounts /\ segments = <<>>
      /\ followed = 0 /\ due = {} /\ OptionsInv
      /\ options \in [ignoreConflicts : BOOLEAN, discretize : BOOLEAN]
  BY DEF Init, OptionsInv
<1>2. TypeOK
  <2>1. outData \in [Lags -> [Frames -> Nat]]
    BY <1>1 DEF NoCounts
  <2> QED BY <1>1, <2>1, NumFramesAssumption DEF TypeOK
<1>3. WindowInv
  BY <1>1, FollowAssumption DEF WindowInv, WindowOf, Consecutive, FlagsOf
<1>4. DueInv /\ ChainInv
  BY <1>1 DEF DueInv, ChainInv, Chain
<1>5. CountsWhatIsDue
  BY <1>1 DEF CountsWhatIsDue, NoCounts
<1>6. SegmentsTile /\ JumpsAreDiscrete
  BY <1>1 DEF SegmentsTile, JumpsAreDiscrete
<1> QED BY <1>1, <1>2, <1>3, <1>4, <1>5, <1>6 DEF IInv

-----------------------------------------------------------------------------
(* One frame joins the window, or begins it anew.                          *)
Stored(size, held) ==
  /\ mCount < NumFrames /\ mCount' = mCount + 1 /\ options' = options
  /\ size \in Sizes
  /\ held \in {Held(TRUE), Held(FALSE), Cleared(size)}
  /\ AddToTCF(size, held)

LEMMA StoredCases ==
  ASSUME NEW size, NEW held, IInv, Stored(size, held)
  PROVE  \/ /\ held = Cleared(size)
            /\ positions' = size /\ followed' = mCount'
         \/ /\ \E same \in BOOLEAN : held = Held(same)
            /\ positions' = positions /\ followed' = followed
            /\ ~options.ignoreConflicts => size = positions
  BY DEF Stored, AddToTCF, StartAfresh, Matched

(* The window with this frame in it, before anything is correlated.        *)
HeldInv(held) ==
  /\ held.data \in Seq(Frames)
  /\ held.jumps \in Seq(JumpInfo)
  /\ held.intervals \in Seq(Intervals)
  /\ WindowOf(held.data, held.jumps, held.intervals, positions', mCount', followed',
              LastDue(mCount))
  /\ options.discretize /\ ~options.ignoreConflicts =>
       Chain(held.intervals, LastDue(mCount), followed')

LEMMA StoredFrame ==
  ASSUME NEW size, NEW held, IInv, Stored(size, held)
  PROVE  /\ mCount \in Nat /\ mCount' = mCount + 1 /\ mCount' \in Frames
         /\ mCount' \in 0 .. NumFrames /\ size \in Nat
         /\ positions' \in Sizes \union {0} /\ followed' \in 0 .. NumFrames
         /\ ~options.ignoreConflicts => size = positions'
<1>1. /\ mCount \in Nat /\ mCount' = mCount + 1 /\ mCount' \in Frames
      /\ mCount' \in 0 .. NumFrames /\ size \in Nat /\ size \in Sizes
      /\ positions \in Sizes \union {0} /\ followed \in 0 .. NumFrames
  BY NumFramesAssumption, FollowAssumption DEF Stored, IInv, TypeOK, Frames
<1> QED BY <1>1, StoredCases

LEMMA HeldWindow ==
  ASSUME NEW size, NEW held, IInv, Stored(size, held)
  PROVE  HeldInv(held)
<1> DEFINE m == mCount'
           L == Len(inData1)
<1>0. /\ mCount \in Nat /\ m = mCount + 1 /\ m \in Frames /\ m \in Nat \ {0}
      /\ size \in Nat /\ positions \in Nat /\ followed \in Nat
      /\ Position \in Nat \ {0} /\ MaxTime \in Nat \ {0} /\ L \in Nat
      /\ inData1 \in Seq(Frames) /\ jumpInfo \in Seq(JumpInfo)
      /\ discretized \in Seq(Intervals)
      /\ LastDue(mCount) \in 0 .. mCount
  <2>1. /\ inData1 \in Seq(Frames) /\ jumpInfo \in Seq(JumpInfo)
        /\ discretized \in Seq(Intervals)
        /\ positions \in Sizes \union {0} /\ followed \in 0 .. NumFrames
    BY DEF IInv, TypeOK, JumpInfo, Intervals
  <2>2. L \in Nat /\ positions \in Nat /\ followed \in Nat
    BY <2>1, FollowAssumption, NumFramesAssumption
  <2>3. mCount \in Nat /\ m = mCount + 1 /\ m \in Frames /\ size \in Nat
    BY StoredFrame
  <2>4. LastDue(mCount) \in 0 .. mCount
    BY <2>3, NextDue
  <2>5. m \in Nat \ {0}
    BY <2>3
  <2> HIDE DEF m, L
  <2> QED BY <2>1, <2>2, <2>3, <2>4, <2>5, FollowAssumption, MaxTimeAssumption
<1>1. CASE held = Cleared(size) /\ positions' = size /\ followed' = m
  <2>1. CASE Position > size
    <3>1. held = [data |-> <<>>, jumps |-> <<>>, intervals |-> <<>>]
      BY <1>1, <2>1 DEF Cleared
    <3> QED BY <1>0, <1>1, <2>1, <3>1
            DEF HeldInv, WindowOf, Consecutive, FlagsOf, Chain
  <2>2. CASE Position <= size
    <3>1. /\ held.data = <<m>> /\ held.jumps = <<[frame |-> m, same |-> TRUE]>>
          /\ held.intervals = <<>>
      <4>1. ~(Position > size)
        BY <1>0, <2>2
      <4>2. held = [data |-> <<m>>, jumps |-> <<[frame |-> m, same |-> TRUE]>>,
                    intervals |-> <<>>]
        BY <1>1, <4>1 DEF Cleared
      <4> HIDE DEF m
      <4> QED BY <4>2
    <3>2. held.jumps \in Seq(JumpInfo) /\ held.jumps[1].frame = m /\ Len(held.jumps) = 1
      BY <1>0, <3>1 DEF JumpInfo
    <3>3. held.data \in Seq(Frames) /\ held.data[1] = m /\ Len(held.data) = 1
      BY <1>0, <3>1
    <3>4. held.intervals \in Seq(Intervals) /\ Len(held.intervals) = 0
      BY <3>1
    <3>5. Consecutive(held.data, m) /\ FlagsOf(held.jumps, held.data)
      BY <1>0, <3>2, <3>3 DEF Consecutive, FlagsOf
    <3>6. ReachesBack(Len(held.data), m, m, LastDue(mCount))
      BY <1>0, <3>3 DEF ReachesBack
    <3>7. Chain(held.intervals, LastDue(mCount), followed')
      BY <3>4 DEF Chain
    <3>8. Len(held.data) = m - m + 1
      BY <1>0, <3>3
    <3> QED BY <1>0, <1>1, <2>2, <3>2, <3>3, <3>4, <3>5, <3>6, <3>7, <3>8
            DEF HeldInv, WindowOf
  <2> QED BY <1>0, <2>1, <2>2
<1>2. ASSUME NEW same \in BOOLEAN, held = Held(same), positions' = positions,
             followed' = followed
      PROVE  HeldInv(held)
  <2>0. WindowOf(inData1, jumpInfo, discretized, positions, mCount, followed,
                 LastDue(mCount))
    BY DEF IInv, WindowInv
  <2>1. CASE Position > positions
    <3>1. held.data = <<>> /\ held.intervals = <<>> /\ held.jumps = jumpInfo
      BY <1>2, <2>0, <2>1 DEF Held, WindowOf
    <3>2. Len(held.data) = 0 /\ Len(jumpInfo) = 0
      BY <2>0, <2>1, <3>1 DEF WindowOf, FlagsOf
    <3>3. ~(Position <= positions)
      BY <1>0, <2>1
    <3> QED BY <1>0, <1>2, <2>1, <3>1, <3>2, <3>3
            DEF HeldInv, WindowOf, Consecutive, FlagsOf, Chain
  <2>2. CASE Position <= positions
    <3> DEFINE jump == [frame |-> m, same |-> same]
    <3>1. /\ held.data = Append(inData1, m)
          /\ held.jumps = Append(jumpInfo, jump)
          /\ held.intervals = discretized
      BY <1>0, <1>2, <2>2 DEF Held
    <3>2. /\ held.data \in Seq(Frames) /\ Len(held.data) = L + 1
          /\ Consecutive(held.data, m)
      BY <1>0, <2>0, <3>1, AppendFrame DEF WindowOf
    <3>3. jump \in JumpInfo /\ jump.frame = m
      BY <1>0, <1>2 DEF JumpInfo
    <3> HIDE DEF jump
    <3>4. held.jumps \in Seq(JumpInfo) /\ Len(held.jumps) = Len(jumpInfo) + 1
      BY <1>0, <3>1, <3>3
    <3>5. FlagsOf(held.jumps, held.data)
      <4>1. Len(jumpInfo) = L /\ \A k \in 1 .. L : jumpInfo[k].frame = inData1[k]
        BY <2>0 DEF WindowOf, FlagsOf
      <4>2. ASSUME NEW k \in 1 .. L + 1
            PROVE  held.jumps[k].frame = held.data[k]
        <5>1. CASE k = L + 1
          BY <1>0, <3>1, <3>3, <4>1, <5>1
        <5>2. CASE k # L + 1
          <6>1. k \in 1 .. L
            BY <1>0, <5>2
          <6> QED BY <1>0, <3>1, <4>1, <6>1
        <5> QED BY <5>1, <5>2
      <4> QED BY <3>2, <3>4, <4>1, <4>2 DEF FlagsOf
    <3>6. ReachesBack(Len(held.data), m, followed, LastDue(mCount)) /\ followed > 0
      <4>1. ReachesBack(L, mCount, followed, LastDue(mCount)) /\ followed > 0
        BY <2>0, <2>2 DEF WindowOf
      <4> DEFINE last == LastDue(mCount)
      <4>2. last \in Nat
        BY <1>0
      <4> HIDE DEF last, L, m
      <4>3. ReachesBack(L, mCount, followed, last) => ReachesBack(L + 1, m, followed, last)
        BY <1>0, <4>2 DEF ReachesBack
      <4> QED BY <3>2, <4>1, <4>3 DEF last
    <3>7. options.discretize => Len(held.data) = m - followed + 1
      BY <1>0, <2>0, <2>2, <3>2 DEF WindowOf
    <3>8. options.discretize /\ ~options.ignoreConflicts =>
            Chain(held.intervals, LastDue(mCount), followed)
      BY <3>1 DEF IInv, ChainInv
    <3>9. ~(Position > positions)
      BY <1>0, <2>2
    <3> QED BY <1>0, <1>2, <3>1, <3>2, <3>4, <3>5, <3>6, <3>7, <3>8, <3>9
            DEF HeldInv, WindowOf
  <2> QED BY <1>0, <2>1, <2>2
<1> QED BY <1>1, <1>2, StoredCases

-----------------------------------------------------------------------------
(* Trimming takes the same frames from the values and from the flags.      *)
LEMMA TidiedFlags ==
  ASSUME NEW data \in Seq(Frames), NEW S, NEW jumps \in Seq(S), FlagsOf(jumps, data)
  PROVE  FlagsOf(TidiedAfter(data, jumps, -1), TidiedAfter(data, data, -1))
<1> DEFINE L == Len(data)
           a == L - (MaxTime - 1)
           d == TidiedAfter(data, data, -1)
           j == TidiedAfter(data, jumps, -1)
<1>1. L \in Nat /\ MaxTime \in Nat \ {0} /\ Len(jumps) = L
  BY MaxTimeAssumption DEF FlagsOf
<1>2. CASE TooShort(L, -1) \/ ~(TidyOld > 0 /\ L > TidyOld * MaxTime)
  <2>1. d = data /\ j = jumps
    BY <1>1, <1>2 DEF TidiedAfter, TidyInData
  <2> QED BY <2>1
<1>3. CASE ~TooShort(L, -1) /\ TidyOld > 0 /\ L > TidyOld * MaxTime
  <2>1. L > MaxTime
    <3>1. TidyOld * MaxTime \in Nat /\ TidyOld * MaxTime >= MaxTime
      BY <1>3, TidyKeepsEnough, TidyOldAssumption, MaxTimeAssumption
    <3> QED BY <1>1, <1>3, <3>1
  <2>2. GetMaxDT(L, 0, 0) = MaxTime - 1
    BY <1>1, <2>1, MaxDTOfFullWindow
  <2>3. d = SubSeq(data, a, L) /\ j = SubSeq(jumps, a, L)
    BY <1>1, <1>3, <2>2 DEF TidiedAfter, TidyInData
  <2>4. a \in 1 .. L + 1 /\ L \in a - 1 .. L /\ MaxTime = L - a + 1
    BY <1>1, <2>1
  <2> HIDE DEF a, d, j
  <2>5. Len(d) = MaxTime /\ \A k \in 1 .. MaxTime : d[k] = data[a + k - 1]
    BY <1>1, <2>3, <2>4, SubSeqProperties
  <2>7. Len(j) = MaxTime /\ \A k \in 1 .. MaxTime : j[k] = jumps[a + k - 1]
    <3> HIDE DEF L
    <3> QED BY <1>1, <2>3, <2>4, SubSeqProperties
  <2>6. ASSUME NEW k \in 1 .. MaxTime
        PROVE  j[k].frame = d[k]
    <3>1. a + k - 1 \in 1 .. L
      BY <1>1, <2>1, <2>4
    <3> QED BY <2>5, <2>7, <3>1 DEF FlagsOf
  <2> QED BY <2>5, <2>7, <2>6 DEF FlagsOf, d, j
<1> QED BY <1>2, <1>3

(* An empty window gives nothing.                                          *)
LEMMA EmptyWindow ==
  ASSUME NEW out \in [Lags -> [Frames -> Nat]], NEW n
  PROVE  /\ TidiedAfter(<<>>, <<>>, -1) = <<>>
         /\ \A dt \in Lags, o \in Frames :
              CorrelatedOut(<<>>, out, n, -1)[dt][o] = out[dt][o]
<1>1. Len(<<>>) = 0 /\ TidyOld * MaxTime \in Nat
  BY TidyOldAssumption, MaxTimeAssumption
<1>2. TidiedAfter(<<>>, <<>>, -1) = <<>>
  BY <1>1 DEF TidiedAfter, TidyInData
<1>3. ASSUME NEW dt \in Lags, NEW o \in Frames
      PROVE  CorrelatedOut(<<>>, out, n, -1)[dt][o] = out[dt][o]
  <2>1. ~Contributes(<<>>, n, -1, dt, o)
    BY <1>1 DEF Contributes, OriginIndices
  <2>2. out[dt][o] + 0 = out[dt][o]
    OBVIOUS
  <2> QED BY <2>1, <2>2 DEF CorrelatedOut
<1> QED BY <1>2, <1>3

(* The origin o has got its last frame since the frame m - n.              *)
NewlyDue(o, first, m, n) == o >= first /\ o + MaxTime - 1 \in m - n + 1 .. m

(* The counters new have one more than old for each of these origins.      *)
CountsNewlyDue(old, new, first, m, n) ==
  \A dt \in Lags, o \in Frames :
    /\ NewlyDue(o, first, m, n) => new[dt][o] = old[dt][o] + 1
    /\ ~NewlyDue(o, first, m, n) => new[dt][o] = old[dt][o]

(* A correlation counts, once at every lag, the origins that are due.      *)
LEMMA DueCounted ==
  ASSUME NEW m \in Nat, NEW n \in Nat \ {0}, NEW first \in Nat \ {0},
         NEW data \in Seq(Frames), Consecutive(data, m),
         ReachesBack(Len(data), m, first, m - n),
         NEW out \in [Lags -> [Frames -> Nat]]
  PROVE  CountsNewlyDue(out, CorrelatedOut(data, out, n, -1), first, m, n)
<1> SUFFICES ASSUME NEW dt \in Lags, NEW o \in Frames
             PROVE  LET new == CorrelatedOut(data, out, n, -1)[dt][o]
                    IN /\ NewlyDue(o, first, m, n) => new = out[dt][o] + 1
                       /\ ~NewlyDue(o, first, m, n) => new = out[dt][o]
  BY DEF CountsNewlyDue
<1> DEFINE L == Len(data)
           new == CorrelatedOut(data, out, n, -1)
<1>1. L \in Nat /\ MaxTime \in Nat \ {0} /\ o \in Nat /\ out[dt][o] \in Nat
  <2>1. out[dt][o] \in Nat
    OBVIOUS
  <2>2. o \in Nat
    BY DEF Frames
  <2> QED BY <2>1, <2>2, MaxTimeAssumption
<1>2. /\ L <= m - first + 1
      /\ L = m - first + 1 \/ m - L + 1 <= m - n - MaxTime + 2
  BY DEF ReachesBack
<1>3. CASE TooShort(L, -1)
  <2>1. L < MaxTime - 1
    BY <1>1, <1>3, MaxDTOfWindow DEF TooShort, StartLag
  <2>2. new = out
    BY <1>3 DEF CorrelatedOut
  <2>3. ~NewlyDue(o, first, m, n)
    BY <1>1, <1>2, <2>1 DEF NewlyDue
  <2> QED BY <2>2, <2>3
<1>4. CASE ~TooShort(L, -1)
  <2>1. new[dt][o] = out[dt][o] + IF Contributes(data, n, -1, dt, o) THEN 1 ELSE 0
    BY <1>4 DEF CorrelatedOut
  <2>2. Contributes(data, n, -1, dt, o) <=>
          o >= m - L + 1 /\ o >= m - MaxTime - n + 2 /\ o <= m - MaxTime + 1
    BY <1>4, ScheduledOrigins
  <2> HIDE DEF new, L
  <2>3. Contributes(data, n, -1, dt, o) <=>
          NewlyDue(o, first, m, n)
    BY <1>1, <1>2, <2>2 DEF NewlyDue
  <2> QED BY <1>1, <2>1, <2>3 DEF new
<1> QED BY <1>3, <1>4

-----------------------------------------------------------------------------
(* The three things that may follow, with what they leave.                 *)
Correlated(size, held) ==
  CorrelationDue(size) /\ ~options.discretize /\ Correlate(held)
Discretized(size, held) ==
  CorrelationDue(size) /\ options.discretize /\ DiscretizedCorrelate(held)
Kept(size, held) == ~CorrelationDue(size) /\ Keep(held)

DueNow(size, held) ==
  due' = IF CorrelationDue(size) /\ held.data # <<>> THEN due \union DueOrigins ELSE due

(* What all of them rely on.                                               *)
LEMMA HeldFacts ==
  ASSUME NEW size, NEW held, IInv, Stored(size, held)
  PROVE  /\ mCount \in Nat /\ mCount' = mCount + 1 /\ mCount' \in Nat
         /\ Position \in Nat \ {0} /\ size \in Nat /\ positions' \in Nat
         /\ followed' \in Nat
         /\ MaxTime \in Nat \ {0} /\ CorrelationFrequency \in Nat \ {0}
         /\ LastDue(mCount) \in 0 .. mCount
         /\ CorrelationDue(size) =>
              /\ LastDue(mCount) = mCount' - CorrelationFrequency
              /\ LastDue(mCount') = mCount'
         /\ LastDue(mCount') \in Nat /\ LastDue(mCount) <= LastDue(mCount')
         /\ mCount' % CorrelationFrequency # 0 => LastDue(mCount') = LastDue(mCount)
         /\ held.data # <<>> => Position <= positions'
<1>1. /\ mCount \in Nat /\ mCount' = mCount + 1 /\ mCount' \in Nat
      /\ Position \in Nat \ {0} /\ size \in Nat /\ positions' \in Nat
      /\ followed' \in Nat
      /\ MaxTime \in Nat \ {0} /\ CorrelationFrequency \in Nat \ {0}
  <2>1. positions' \in Sizes \union {0} /\ followed' \in 0 .. NumFrames
    BY StoredFrame
  <2>2. positions' \in Nat /\ followed' \in Nat
    BY <2>1, FollowAssumption, NumFramesAssumption
  <2>3. mCount \in Nat /\ mCount' = mCount + 1 /\ size \in Nat
    BY StoredFrame
  <2> QED BY <2>2, <2>3, FollowAssumption, MaxTimeAssumption
<1>2. /\ LastDue(mCount) \in 0 .. mCount
      /\ mCount' % CorrelationFrequency = 0 =>
              /\ LastDue(mCount) = mCount' - CorrelationFrequency
              /\ LastDue(mCount') = mCount'
      /\ mCount' % CorrelationFrequency # 0 => LastDue(mCount') = LastDue(mCount)
  BY <1>1, NextDue
<1> DEFINE before == LastDue(mCount)
           after  == LastDue(mCount')
<1>3. after \in Nat /\ before <= after
  <2>1. CASE mCount' % CorrelationFrequency = 0
    <3>1. before = mCount' - CorrelationFrequency /\ after = mCount'
      BY <1>2, <2>1
    <3> HIDE DEF before, after
    <3> QED BY <1>1, <3>1
  <2>2. CASE mCount' % CorrelationFrequency # 0
    <3>1. after = before /\ before \in 0 .. mCount
      BY <1>2, <2>2
    <3> HIDE DEF before, after
    <3> QED BY <1>1, <3>1
  <2> QED BY <2>1, <2>2
<1>4. held.data # <<>> => Position <= positions'
  <2>1. Position > positions' => held.data = <<>>
    BY HeldWindow DEF HeldInv, WindowOf
  <2> QED BY <1>1, <2>1
<1> QED BY <1>1, <1>2, <1>3, <1>4 DEF CorrelationDue

(* The origins that are due grow with the correlations.                    *)
LEMMA DueStep ==
  ASSUME NEW size, NEW held, IInv, Stored(size, held), DueNow(size, held)
  PROVE  DueInv' /\ due' \subseteq Frames
<1>1. due \subseteq Frames /\ DueOrigins \subseteq Frames
  BY DEF IInv, TypeOK, DueOrigins
<1>2. ASSUME NEW o \in due' PROVE o + MaxTime - 1 <= LastDue(mCount')
  <2>1. CASE o \in due
    <3> DEFINE before == LastDue(mCount)
               after  == LastDue(mCount')
    <3>1. /\ o + MaxTime - 1 <= before
          /\ o \in Nat /\ MaxTime \in Nat /\ before \in Nat /\ after \in Nat
          /\ before <= after
      BY <1>1, <2>1, HeldFacts DEF IInv, DueInv, Frames
    <3> HIDE DEF before, after
    <3>2. o + MaxTime - 1 <= after
      BY <3>1
    <3> QED BY <3>2 DEF after
  <2>2. CASE o \notin due
    <3>1. CorrelationDue(size) /\ o \in DueOrigins
      BY <1>2, <2>2 DEF DueNow
    <3>2. LastDue(mCount') = mCount'
      BY <3>1, HeldFacts
    <3>3. o + MaxTime - 1 <= mCount'
      BY <3>1, HeldFacts DEF DueOrigins
    <3> QED BY <3>2, <3>3
  <2> QED BY <2>1, <2>2
<1> QED BY <1>1, <1>2 DEF DueInv, DueNow

(* The displacement that ends with this frame lies in the window.          *)
LEMMA LastInterval ==
  ASSUME NEW size, NEW held, IInv, Stored(size, held)
  PROVE  LET L == Len(held.data)
             f == CorrelationFrequency
         IN /\ L \in Nat
            /\ DiscretizeLastInterval(held) \in Seq(Intervals)
            /\ L <= f => DiscretizeLastInterval(held) = held.intervals
            /\ L > f =>
                 /\ L - f \in 1 .. L
                 /\ DiscretizeLastInterval(held)
                      = Append(held.intervals, [from |-> mCount' - f, to |-> mCount'])
<1> DEFINE L == Len(held.data)
           f == CorrelationFrequency
           m == mCount'
<1>1. /\ held.data \in Seq(Frames) /\ held.intervals \in Seq(Intervals)
      /\ Consecutive(held.data, m) /\ L \in Nat /\ f \in Nat \ {0} /\ m \in Nat
  BY HeldWindow, HeldFacts DEF HeldInv, WindowOf
<1>2. CASE L <= f
  BY <1>1, <1>2 DEF DiscretizeLastInterval
<1>3. CASE L > f
  <2>1. L - f \in 1 .. L /\ L \in 1 .. L /\ ~(L <= f)
    BY <1>1, <1>3
  <2>2. /\ held.data[L - f] = m - L + (L - f) /\ held.data[L] = m - L + L
        /\ held.data[L - f] \in Frames /\ held.data[L] \in Frames
    <3>1. \A k \in 1 .. L : held.data[k] = m - L + k
      BY <1>1 DEF Consecutive
    <3>2. \A k \in 1 .. L : held.data[k] \in Frames
      BY <1>1
    <3> HIDE DEF L, f, m
    <3> QED BY <2>1, <3>1, <3>2
  <2>3. held.data[L - f] = m - f /\ held.data[L] = m
    BY <1>1, <2>2
  <2>4. [from |-> m - f, to |-> m] \in Intervals
    BY <2>2, <2>3 DEF Intervals
  <2>5. DiscretizeLastInterval(held)
          = Append(held.intervals, [from |-> m - f, to |-> m])
    BY <2>1, <2>3 DEF DiscretizeLastInterval
  <2> HIDE DEF m, f, L
  <2>6. Append(held.intervals, [from |-> m - f, to |-> m]) \in Seq(Intervals)
    BY <1>1, <2>4
  <2> QED BY <1>1, <2>1, <2>5, <2>6 DEF m, f, L
<1> QED BY <1>1, <1>2, <1>3

(* A window that reaches back far enough still does so later.              *)
LEMMA ReachesBackLater ==
  ASSUME NEW size \in Nat, NEW m \in Nat, NEW first \in Nat, NEW last \in Nat,
         NEW later \in Nat, last <= later, ReachesBack(size, m, first, last)
  PROVE  ReachesBack(size, m, first, later)
  BY MaxTimeAssumption DEF ReachesBack

(* The window after the frame.                                             *)
LEMMA WindowStep ==
  ASSUME NEW size, NEW held, IInv, Stored(size, held),
         Correlated(size, held) \/ Discretized(size, held) \/ Kept(size, held)
  PROVE  /\ inData1' \in Seq(Frames) /\ jumpInfo' \in Seq(JumpInfo)
         /\ discretized' \in Seq(Intervals)
         /\ WindowInv'
<1> DEFINE m      == mCount'
           before == LastDue(mCount)
           after  == LastDue(mCount')
           data   == held.data
           jumps  == held.jumps
<1>1. /\ data \in Seq(Frames) /\ jumps \in Seq(JumpInfo)
      /\ held.intervals \in Seq(Intervals)
      /\ Consecutive(data, m) /\ FlagsOf(jumps, data)
      /\ Position > positions' => data = <<>> /\ held.intervals = <<>>
      /\ Position <= positions' =>
           /\ followed' > 0
           /\ ReachesBack(Len(data), m, followed', before)
           /\ options.discretize => Len(data) = m - followed' + 1
  BY HeldWindow DEF HeldInv, WindowOf
<1>2. /\ m \in Nat /\ followed' \in Nat /\ Len(data) \in Nat
      /\ before \in Nat /\ after \in Nat /\ before <= after /\ before <= m
      /\ Position \in Nat \ {0} /\ positions' \in Nat /\ MaxTime \in Nat \ {0}
      /\ CorrelationFrequency \in Nat \ {0} /\ options' = options
  <2>1. before \in 0 .. mCount /\ mCount \in Nat /\ m = mCount + 1
    BY HeldFacts
  <2>2. /\ after \in Nat /\ before <= after /\ followed' \in Nat /\ positions' \in Nat
        /\ Position \in Nat \ {0} /\ MaxTime \in Nat \ {0}
        /\ CorrelationFrequency \in Nat \ {0}
    BY HeldFacts
  <2>3. options' = options
    BY DEF Stored
  <2>4. Len(data) \in Nat
    BY <1>1
  <2> HIDE DEF before, after, m, data
  <2> QED BY <2>1, <2>2, <2>3, <2>4
<1>3. Position <= positions' => ReachesBack(Len(data), m, followed', after)
  BY <1>1, <1>2, ReachesBackLater
<1>4. CASE Correlated(size, held)
  <2>1. /\ inData1' = TidiedAfter(data, data, -1)
        /\ jumpInfo' = TidiedAfter(data, jumps, -1)
        /\ discretized' = held.intervals /\ ~options.discretize
        /\ after = m
    BY <1>4, HeldFacts DEF Correlated, Correlate
  <2>2. inData1' \in Seq(Frames) /\ jumpInfo' \in Seq(JumpInfo)
    <3>1. -1 \in Int
      OBVIOUS
    <3>2. TidiedAfter(data, data, -1) \in Seq(Frames)
      BY <1>1, <3>1, TidiedTyped
    <3>3. TidiedAfter(data, jumps, -1) \in Seq(JumpInfo)
      BY <1>1, <3>1, TidiedTyped
    <3> QED BY <2>1, <3>2, <3>3
  <2>3. Consecutive(inData1', m)
    BY <1>1, <1>2, <2>1, TidiedWindow
  <2>4. FlagsOf(jumpInfo', inData1')
    BY <1>1, <2>1, TidiedFlags
  <2>5. Position > positions' => inData1' = <<>> /\ discretized' = <<>>
    <3>1. TidiedAfter(<<>>, <<>>, -1) = <<>>
      <4>1. NoCounts \in [Lags -> [Frames -> Nat]]
        BY DEF NoCounts
      <4> QED BY <4>1, EmptyWindow
    <3> QED BY <1>1, <2>1, <3>1
  <2>6. Position <= positions' => ReachesBack(Len(inData1'), m, followed', after)
    <3> SUFFICES ASSUME Position <= positions'
                 PROVE  ReachesBack(Len(inData1'), m, followed', after)
      OBVIOUS
    <3>1. /\ followed' \in Nat \ {0} /\ before \in Int /\ before <= m
          /\ ReachesBack(Len(data), m, followed', before)
      BY <1>1, <1>2
    <3>2. ReachesBack(Len(inData1'), m, followed', m)
      BY <1>1, <1>2, <2>1, <3>1, TidiedReachesBack
    <3> QED BY <2>1, <3>2
  <2> QED BY <1>1, <1>2, <2>1, <2>2, <2>3, <2>4, <2>5, <2>6 DEF WindowInv, WindowOf
<1>5. CASE Discretized(size, held)
  <2>1. /\ inData1' = data /\ jumpInfo' = jumps
        /\ discretized' = DiscretizeLastInterval(held) /\ Position <= size
    BY <1>5 DEF Discretized, DiscretizedCorrelate, CorrelationDue
  <2>2. discretized' \in Seq(Intervals)
    BY <2>1, LastInterval
  <2>3. Position > positions' => discretized' = <<>>
    <3> SUFFICES ASSUME Position > positions' PROVE discretized' = <<>>
      OBVIOUS
    <3>1. Len(data) = 0 /\ held.intervals = <<>>
      BY <1>1
    <3>2. Len(data) <= CorrelationFrequency
      BY <1>2, <3>1
    <3> QED BY <2>1, <3>1, <3>2, LastInterval
  <2> QED BY <1>1, <1>2, <1>3, <2>1, <2>2, <2>3 DEF WindowInv, WindowOf
<1>6. CASE Kept(size, held)
  <2>1. inData1' = data /\ jumpInfo' = jumps /\ discretized' = held.intervals
    BY <1>6 DEF Kept, Keep
  <2> QED BY <1>1, <1>2, <1>3, <2>1 DEF WindowInv, WindowOf
<1> QED BY <1>4, <1>5, <1>6

-----------------------------------------------------------------------------
(* The displacements that a discretised correlation uses.                  *)
StartIndex(held) == Len(DiscretizeLastInterval(held)) - reducedMaxTime
OldIndex(held)   == Len(held.data) - (GetMaxDT(Len(held.data), 0, 0) + 1)
Used(held) ==
  [dt \in 1 .. reducedMaxTime |->
     [from |-> DiscretizeLastInterval(held)[StartIndex(held) + dt].from,
      to |-> DiscretizeLastInterval(held)[StartIndex(held) + dt].to,
      continuous |-> Continuous(held, OldIndex(held), dt - 1)]]
UsedLags == {CorrelationFrequency * k : k \in 0 .. reducedMaxTime - 1}

LEMMA DiscretizedParts ==
  ASSUME NEW held, DiscretizedCorrelate(held)
  PROVE  /\ discretized' = DiscretizeLastInterval(held) /\ jumpInfo' = held.jumps
         /\ \/ segments' = <<>> /\ outData' = outData
            \/ /\ ~(StartIndex(held) < 0)
               /\ ~(GetMaxDT(Len(held.data), 0, 0) < MaxTime - 1)
               /\ segments' = Used(held)
               /\ outData' = [dt \in Lags |-> [o \in Frames |-> outData[dt][o] +
                    IF o = Used(held)[1].from /\ dt \in UsedLags THEN 1 ELSE 0]]
<1>1. CASE \/ StartIndex(held) < 0
           \/ GetMaxDT(Len(held.data), 0, 0) < MaxTime - 1
           \/ OldIndex(held) < 0
  BY <1>1 DEF DiscretizedCorrelate, StartIndex, OldIndex
<1>2. CASE ~(\/ StartIndex(held) < 0
             \/ GetMaxDT(Len(held.data), 0, 0) < MaxTime - 1
             \/ OldIndex(held) < 0)
  BY <1>2 DEF DiscretizedCorrelate, StartIndex, OldIndex, Used, UsedLags
<1> QED BY <1>1, <1>2

(* What has been counted after the frame.                                  *)
LEMMA CountsStep ==
  ASSUME NEW size, NEW held, IInv, Stored(size, held), DueNow(size, held),
         Correlated(size, held) \/ Discretized(size, held) \/ Kept(size, held)
  PROVE  outData' \in [Lags -> [Frames -> Nat]] /\ CountsWhatIsDue'
<1> DEFINE m == mCount'
           n == CorrelationFrequency
<1>1. /\ outData \in [Lags -> [Frames -> Nat]] /\ CountsWhatIsDue /\ DueInv
      /\ options' = options
  BY DEF IInv, TypeOK, Stored
<1>2. CASE Correlated(size, held)
  <2>1. /\ outData' = CorrelatedOut(held.data, outData, n, -1)
        /\ ~options.discretize /\ CorrelationDue(size)
    BY <1>2 DEF Correlated, Correlate
  <2>2. outData' \in [Lags -> [Frames -> Nat]]
    BY <1>1, <2>1, CountsTyped
  <2>3. ASSUME NEW dt \in Lags, NEW o \in Frames
        PROVE  outData'[dt][o] = IF o \in due' THEN 1 ELSE 0
    <3>0. outData[dt][o] = IF o \in due THEN 1 ELSE 0
      BY <1>1, <2>1 DEF CountsWhatIsDue
    <3>1. CASE held.data = <<>>
      <4>1. due' = due
        BY <3>1 DEF DueNow
      <4>2. outData'[dt][o] = outData[dt][o]
        BY <1>1, <2>1, <3>1, EmptyWindow
      <4> QED BY <3>0, <4>1, <4>2
    <3>2. CASE held.data # <<>>
      <4>1. /\ m \in Nat /\ n \in Nat \ {0} /\ followed' \in Nat
            /\ Position <= positions' /\ LastDue(mCount) = m - n
        BY <2>1, <3>2, HeldFacts
      <4>2. /\ held.data \in Seq(Frames) /\ Consecutive(held.data, m)
            /\ followed' > 0 /\ ReachesBack(Len(held.data), m, followed', m - n)
        BY <4>1, HeldWindow DEF HeldInv, WindowOf
      <4>3. followed' \in Nat \ {0}
        BY <4>1, <4>2
      <4>4. /\ NewlyDue(o, followed', m, n) => outData'[dt][o] = outData[dt][o] + 1
            /\ ~NewlyDue(o, followed', m, n) => outData'[dt][o] = outData[dt][o]
        <5>1. outData \in [Lags -> [Frames -> Nat]]
          BY <1>1
        <5> DEFINE first == followed'
                   data  == held.data
                   new   == CorrelatedOut(data, outData, n, -1)
        <5>2. CountsNewlyDue(outData, new, first, m, n)
          <6>1. /\ m \in Nat /\ n \in Nat \ {0} /\ first \in Nat \ {0}
                /\ data \in Seq(Frames) /\ Consecutive(data, m)
                /\ ReachesBack(Len(data), m, first, m - n)
            BY <4>1, <4>2, <4>3
          <6> HIDE DEF m, n, first, data
          <6> QED BY <5>1, <6>1, DueCounted
        <5> QED BY <2>1, <5>2 DEF CountsNewlyDue
      <4>5. o \in DueOrigins <=> NewlyDue(o, followed', m, n)
        BY DEF DueOrigins, NewlyDue
      <4>6. due' = due \union DueOrigins
        BY <2>1, <3>2 DEF DueNow
      <4>7. o \in due => o \notin DueOrigins
        <5> SUFFICES ASSUME o \in due, o \in DueOrigins PROVE FALSE
          OBVIOUS
        <5>1. o + MaxTime - 1 <= m - n
          BY <1>1, <4>1 DEF DueInv
        <5>2. o + MaxTime - 1 >= m - n + 1
          BY <4>5 DEF NewlyDue
        <5>3. o + MaxTime - 1 \in Int
          BY MaxTimeAssumption DEF Frames
        <5> HIDE DEF m, n
        <5> QED BY <4>1, <5>1, <5>2, <5>3
      <4>9. CASE o \in due
        <5>1. outData[dt][o] = 1 /\ outData'[dt][o] = outData[dt][o]
          BY <3>0, <4>4, <4>5, <4>7, <4>9
        <5> QED BY <4>6, <4>9, <5>1
      <4>10. CASE o \notin due
        <5>1. outData[dt][o] = 0
          BY <3>0, <4>10
        <5>2. o \in due' <=> o \in DueOrigins
          BY <4>6, <4>10
        <5> QED BY <4>4, <4>5, <5>1, <5>2
      <4> QED BY <4>9, <4>10
    <3> QED BY <3>1, <3>2
  <2> QED BY <2>2, <2>3 DEF CountsWhatIsDue
<1>3. CASE Discretized(size, held)
  <2>1. options.discretize /\ DiscretizedCorrelate(held)
    BY <1>3 DEF Discretized
  <2>2. CASE outData' = outData
    BY <1>1, <2>1, <2>2 DEF CountsWhatIsDue
  <2>3. CASE outData' # outData
    <3> DEFINE first   == Used(held)[1].from
               reached == UsedLags
    <3>1. outData' = [dt \in Lags |-> [o \in Frames |->
            outData[dt][o] + IF o = first /\ dt \in reached THEN 1 ELSE 0]]
      BY <2>1, <2>3, DiscretizedParts
    <3> HIDE DEF first, reached
    <3>2. ASSUME NEW dt \in Lags, NEW o \in Frames
          PROVE  outData[dt][o] + (IF o = first /\ dt \in reached THEN 1 ELSE 0) \in Nat
      BY <1>1
    <3>3. outData' \in [Lags -> [Frames -> Nat]]
      BY <3>1, <3>2
    <3> QED BY <1>1, <2>1, <3>3 DEF CountsWhatIsDue
  <2> QED BY <2>2, <2>3
<1>4. CASE Kept(size, held)
  <2>1. outData' = outData /\ ~CorrelationDue(size)
    BY <1>4 DEF Kept, Keep
  <2>2. due' = due
    BY <2>1 DEF DueNow
  <2> QED BY <1>1, <2>1, <2>2 DEF CountsWhatIsDue
<1> QED BY <1>2, <1>3, <1>4

(* The chain grows by a displacement, and has none when the frames since   *)
(* first are fewer than one is long.                                       *)
LEMMA ChainAppend ==
  ASSUME NEW intervals \in Seq(Intervals), NEW m \in Nat, NEW first \in Nat,
         NEW f, f = CorrelationFrequency,
         Chain(intervals, m - f, first), m - f >= first
  PROVE  Chain(Append(intervals, [from |-> m - f, to |-> m]), m, first)
<1> DEFINE N   == Len(intervals)
           new == [from |-> m - f, to |-> m]
           s   == Append(intervals, new)
<1>1. new.from = m - f /\ new.to = m
  OBVIOUS
<1>2. N \in Nat /\ f \in Nat \ {0}
  BY FollowAssumption
<1> HIDE DEF new
<1>3. Len(s) = N + 1 /\ s[N + 1] = new /\ \A k \in 1 .. N : s[k] = intervals[k]
  OBVIOUS
<1>4. \A k \in 1 .. N : /\ intervals[k].to = (m - f) - (N - k) * f
                        /\ intervals[k].from = intervals[k].to - f
                        /\ intervals[k].from >= first
  BY DEF Chain
<1> HIDE DEF s, N
<1>5. ASSUME NEW k \in 1 .. N + 1
      PROVE  /\ s[k].to = m - ((N + 1) - k) * f
             /\ s[k].from = s[k].to - f
             /\ s[k].from >= first
  <2>1. CASE k = N + 1
    <3>1. s[k] = new
      BY <1>3, <2>1
    <3>2. ((N + 1) - k) * f = 0
      BY <1>2, <2>1
    <3> QED BY <1>1, <1>2, <3>1, <3>2
  <2>2. CASE k # N + 1
    <3>1. k \in 1 .. N
      BY <1>2, <2>2
    <3>2. s[k] = intervals[k]
      BY <1>3, <3>1
    <3>3. /\ ((N - k) + 1) * f = (N - k) * f + f /\ (N - k) * f \in Int
          /\ (N - k) + 1 = (N + 1) - k
      BY <1>2, <3>1
    <3> DEFINE p == (N - k) * f
               q == ((N + 1) - k) * f
    <3>4. q = p + f /\ p \in Int
      BY <3>3
    <3>5. intervals[k].to = (m - f) - p
      BY <1>4, <3>1
    <3> HIDE DEF p, q
    <3>6. (m - f) - p = m - q
      BY <1>2, <3>4
    <3>7. s[k].to = m - q
      BY <3>2, <3>5, <3>6
    <3> QED BY <1>4, <3>1, <3>2, <3>7 DEF q
  <2> QED BY <2>1, <2>2
<1> QED BY <1>3, <1>5 DEF Chain, s, new

LEMMA ChainShort ==
  ASSUME NEW intervals \in Seq(Intervals), NEW m \in Nat, NEW first \in Nat,
         NEW f, f = CorrelationFrequency,
         Chain(intervals, m - f, first), m - first + 1 <= f
  PROVE  Len(intervals) = 0
<1> DEFINE N == Len(intervals)
           last == intervals[N]
<1>0. N \in Nat /\ f \in Nat \ {0}
  BY FollowAssumption
<1> SUFFICES ASSUME N # 0 PROVE FALSE
  OBVIOUS
<1>1. N \in 1 .. Len(intervals)
  BY <1>0
<1>2. last.to = (m - f) - (N - N) * f /\ last.from = last.to - f /\ last.from >= first
  BY <1>1 DEF Chain
<1>3. (N - N) * f = 0
  BY <1>0
<1> HIDE DEF last, N
<1>4. last.from = m - f - f
  BY <1>0, <1>2, <1>3
<1> QED BY <1>0, <1>2, <1>4

(* The chain of displacements grows by the one that ends with this frame.  *)
LEMMA ChainStep ==
  ASSUME NEW size, NEW held, IInv, Stored(size, held),
         Correlated(size, held) \/ Discretized(size, held) \/ Kept(size, held)
  PROVE  ChainInv'
<1> SUFFICES ASSUME options.discretize, ~options.ignoreConflicts
             PROVE  Chain(discretized', LastDue(mCount'), followed')
  BY DEF ChainInv, Stored
<1> DEFINE m      == mCount'
           f      == CorrelationFrequency
           before == LastDue(mCount)
           L      == Len(held.data)
           N      == Len(held.intervals)
           first  == followed'
<1>1. /\ Chain(held.intervals, before, first) /\ held.intervals \in Seq(Intervals)
      /\ size = positions' /\ N \in Nat
  BY HeldWindow, StoredFrame DEF HeldInv
<1>2. CASE Kept(size, held)
  <2>1. discretized' = held.intervals /\ ~CorrelationDue(size)
    BY <1>2 DEF Kept, Keep
  <2>2. CASE m % f = 0
    <3>1. Position > positions'
      BY <1>1, <2>1, <2>2, HeldFacts DEF CorrelationDue
    <3>2. Len(discretized') = 0
      BY <2>1, <3>1, HeldWindow DEF HeldInv, WindowOf
    <3> QED BY <3>2 DEF Chain
  <2>3. CASE m % f # 0
    BY <1>1, <2>1, <2>3, HeldFacts
  <2> QED BY <2>2, <2>3
<1>3. CASE Discretized(size, held)
  <2>1. discretized' = DiscretizeLastInterval(held) /\ CorrelationDue(size)
    BY <1>3 DEF Discretized, DiscretizedCorrelate
  <2>2. /\ before = m - f /\ LastDue(mCount') = m /\ m \in Nat /\ f \in Nat \ {0}
        /\ first \in Nat /\ Position <= positions'
    BY <1>1, <2>1, HeldFacts DEF CorrelationDue
  <2>3. L = m - first + 1 /\ L \in Nat
    BY <2>2, HeldWindow DEF HeldInv, WindowOf
  <2>4. CASE L <= f
    <3>1. discretized' = held.intervals
      BY <2>1, <2>4, LastInterval
    <3>2. N = 0
      BY <1>1, <2>2, <2>3, <2>4, ChainShort
    <3>3. Len(discretized') = 0
      BY <3>1, <3>2
    <3> QED BY <3>3 DEF Chain
  <2>5. CASE L > f
    <3>1. discretized' = Append(held.intervals, [from |-> m - f, to |-> m])
      BY <1>1, <2>1, <2>5, LastInterval
    <3>2. m - f >= first
      <4> HIDE DEF m, f, L, first
      <4> QED BY <2>2, <2>3, <2>5
    <3>3. Chain(discretized', m, first)
      BY <1>1, <2>2, <3>1, <3>2, ChainAppend
    <3> QED BY <2>2, <3>3
  <2>6. L <= f \/ L > f
    <3>1. L \in Nat /\ f \in Nat
      BY <2>2, <2>3
    <3> HIDE DEF f, L
    <3> QED BY <3>1
  <2> QED BY <2>4, <2>5, <2>6
<1>4. ~Correlated(size, held)
  BY DEF Correlated
<1> QED BY <1>2, <1>3, <1>4

-----------------------------------------------------------------------------
(* Which frames the flags of one displacement are from.                    *)
LEMMA FlagsOfDisplacement ==
  ASSUME NEW held, NEW data \in Seq(Frames), NEW jumps \in Seq(JumpInfo),
         held.jumps = jumps,
         NEW m \in Nat, NEW to \in Nat, NEW old \in Int, NEW dt \in Int,
         NEW f, f = CorrelationFrequency,
         Consecutive(data, m), FlagsOf(jumps, data),
         to <= m, to - f >= m - Len(data) + 1,
         old + (dt + 1) * f = to - m + Len(data)
  PROVE  Continuous(held, old, dt) <=>
           \A j \in DOMAIN jumps :
             jumps[j].frame \in to - f .. to => jumps[j].same
<1> DEFINE L     == Len(data)
           index == old + (dt + 1) * f - 1
<1>1. L \in Nat /\ f \in Nat \ {0} /\ (dt + 1) * f \in Int /\ to - f >= m - L + 1
  BY FollowAssumption
<1>2. index = to - m + L - 1
  BY <1>1
<1> HIDE DEF index
<1>3. DOMAIN jumps = 1 .. L /\ \A j \in 1 .. L : jumps[j].frame = m - L + j
  <2>1. Len(jumps) = L /\ \A j \in 1 .. L : jumps[j].frame = data[j]
    BY DEF FlagsOf
  <2> QED BY <2>1 DEF Consecutive
<1>4. CASE index < f
  <2>1. to - f < m - L + 1
    BY <1>1, <1>2, <1>4
  <2> HIDE DEF L
  <2> QED BY <1>1, <2>1
<1>5. CASE index >= f
  <2>1. Continuous(held, old, dt) <=>
          \A k \in index - f .. index : jumps[k + 1].same
    BY <1>5 DEF Continuous, index
  <2>2. ASSUME NEW j \in 1 .. L
        PROVE  jumps[j].frame \in to - f .. to <=> j - 1 \in index - f .. index
    <3>1. jumps[j].frame = m - L + j
      BY <1>3
    <3> HIDE DEF L
    <3>2. j \in Int
      OBVIOUS
    <3>3. m - L + j \in to - f .. to <=> j - 1 \in index - f .. index
      BY <1>1, <1>2, <3>2
    <3> QED BY <3>1, <3>3
  <2>3. ASSUME NEW k \in index - f .. index
        PROVE  k + 1 \in 1 .. L /\ k = (k + 1) - 1
    <3> HIDE DEF L
    <3> QED BY <1>1, <1>2, <1>5
  <2>4. ASSUME \A k \in index - f .. index : jumps[k + 1].same,
               NEW j \in 1 .. L, jumps[j].frame \in to - f .. to
        PROVE  jumps[j].same
    <3>1. j - 1 \in index - f .. index /\ (j - 1) + 1 = j
      BY <2>2, <2>4
    <3> QED BY <2>4, <3>1
  <2>5. ASSUME \A j \in 1 .. L : jumps[j].frame \in to - f .. to
                                    => jumps[j].same,
               NEW k \in index - f .. index
        PROVE  jumps[k + 1].same
    BY <2>2, <2>3, <2>5
  <2> QED BY <1>3, <2>1, <2>4, <2>5
<1>6. index < f \/ index >= f
  <2> HIDE DEF L
  <2> QED BY <1>1, <1>2
<1> QED BY <1>4, <1>5, <1>6

(* The last r displacements of a chain, counted from the first of them.    *)
LEMMA LastOfChain ==
  ASSUME NEW intervals \in Seq(Intervals), NEW m \in Nat, NEW first \in Nat,
         Chain(intervals, m, first), NEW r \in Nat, r <= Len(intervals),
         NEW k \in 1 .. r
  PROVE  LET s == intervals[Len(intervals) - r + k]
         IN /\ s.to = m - (r - k) * CorrelationFrequency
            /\ s.from = s.to - CorrelationFrequency /\ s.from >= first
<1> DEFINE N == Len(intervals)
           i == N - r + k
<1>1. N \in Nat /\ r \in Nat /\ k \in Nat
  OBVIOUS
<1>2. i \in 1 .. N /\ N - i = r - k
  <2>1. r <= N /\ k <= r /\ k >= 1
    OBVIOUS
  <2> HIDE DEF N
  <2> QED BY <1>1, <2>1
<1> HIDE DEF i
<1>3. /\ intervals[i].to = m - (N - i) * CorrelationFrequency
      /\ intervals[i].from = intervals[i].to - CorrelationFrequency
      /\ intervals[i].from >= first
  BY <1>2 DEF Chain
<1> QED BY <1>2, <1>3 DEF i

(* The displacements used by this frame, if it has used any.               *)
LEMMA UsedFacts ==
  ASSUME NEW size, NEW held, IInv, Stored(size, held), Discretized(size, held),
         segments' # <<>>
  PROVE  LET N == Len(discretized')
             r == reducedMaxTime
         IN /\ r \in Nat /\ r <= N /\ N \in Nat /\ discretized' \in Seq(Intervals)
            /\ r * CorrelationFrequency = MaxTime
            /\ OldIndex(held) = Len(held.data) - MaxTime
            /\ segments' = [k \in 1 .. r |->
                 [from |-> discretized'[N - r + k].from, to |-> discretized'[N - r + k].to,
                  continuous |-> Continuous(held, OldIndex(held), k - 1)]]
            /\ \A k \in 1 .. r : N - r + k \in 1 .. N
<1> DEFINE N == Len(discretized')
           r == reducedMaxTime
           L == Len(held.data)
<1>1. /\ DiscretizedCorrelate(held) /\ options.discretize
      /\ r \in Nat /\ r * CorrelationFrequency = MaxTime
  BY WholeDisplacements DEF Discretized, IInv, OptionsInv
<1>2. /\ discretized' = DiscretizeLastInterval(held)
      /\ ~(StartIndex(held) < 0) /\ ~(GetMaxDT(L, 0, 0) < MaxTime - 1)
      /\ segments' = Used(held)
  BY <1>1, DiscretizedParts
<1>3. discretized' \in Seq(Intervals) /\ L \in Nat
  BY <1>2, LastInterval
<1>4. N \in Nat /\ StartIndex(held) = N - r
  BY <1>2, <1>3 DEF StartIndex
<1>5. r <= N
  <2> HIDE DEF N, r
  <2> QED BY <1>1, <1>2, <1>4
<1>6. GetMaxDT(L, 0, 0) = MaxTime - 1
  <2>1. GetMaxDT(L, 0, 0) = IF L < MaxTime - 1 THEN L - 1 ELSE MaxTime - 1
    BY <1>3, MaxDTOfWindow
  <2> HIDE DEF L
  <2> QED BY <1>2, <1>3, <2>1, MaxTimeAssumption
<1>7. OldIndex(held) = L - MaxTime
  <2>1. OldIndex(held) = L - (GetMaxDT(L, 0, 0) + 1)
    BY DEF OldIndex
  <2> HIDE DEF L
  <2> QED BY <1>3, <1>6, <2>1, MaxTimeAssumption
<1>8. \A k \in 1 .. r : N - r + k \in 1 .. N
  <2> HIDE DEF N, r
  <2> QED BY <1>1, <1>4, <1>5
<1>9. segments' = [k \in 1 .. r |->
         [from |-> discretized'[N - r + k].from, to |-> discretized'[N - r + k].to,
          continuous |-> Continuous(held, OldIndex(held), k - 1)]]
  BY <1>2, <1>4 DEF Used
<1> QED BY <1>1, <1>3, <1>4, <1>5, <1>7, <1>8, <1>9

Segments == [from : Frames, to : Frames, continuous : BOOLEAN]

LEMMA SegmentsStep ==
  ASSUME NEW size, NEW held, IInv, Stored(size, held),
         Correlated(size, held) \/ Discretized(size, held) \/ Kept(size, held)
  PROVE  segments' \in Seq(Segments) /\ SegmentsTile' /\ JumpsAreDiscrete'
<1>1. CASE segments' = <<>>
  BY <1>1 DEF SegmentsTile, JumpsAreDiscrete
<1>2. CASE segments' # <<>>
  <2> DEFINE N     == Len(discretized')
             r     == reducedMaxTime
             f     == CorrelationFrequency
             m     == mCount'
             L     == Len(held.data)
             first == followed'
             old   == OldIndex(held)
  <2>1. Discretized(size, held)
    BY <1>2 DEF Correlated, Kept, Correlate, Keep
  <2>2. /\ r \in Nat /\ r <= N /\ N \in Nat /\ discretized' \in Seq(Intervals)
        /\ r * f = MaxTime /\ old = L - MaxTime
        /\ segments' = [k \in 1 .. r |->
             [from |-> discretized'[N - r + k].from, to |-> discretized'[N - r + k].to,
              continuous |-> Continuous(held, old, k - 1)]]
        /\ \A k \in 1 .. r : N - r + k \in 1 .. N
    BY <1>2, <2>1, UsedFacts
  <2>3. DOMAIN segments' = 1 .. r /\ Len(segments') = r
    BY <2>2
  <2>4. ASSUME NEW k \in 1 .. r
        PROVE  /\ discretized'[N - r + k] \in Intervals
               /\ segments'[k].from = discretized'[N - r + k].from
               /\ segments'[k].to = discretized'[N - r + k].to
               /\ segments'[k].continuous = Continuous(held, old, k - 1)
               /\ segments'[k] \in Segments
    <3>1. discretized'[N - r + k] \in Intervals
      <4>1. N - r + k \in 1 .. N
        BY <2>2
      <4> HIDE DEF r
      <4> QED BY <2>2, <4>1
    <3>2. segments'[k] = [from |-> discretized'[N - r + k].from,
                          to |-> discretized'[N - r + k].to,
                          continuous |-> Continuous(held, old, k - 1)]
      BY <2>2
    <3>3. Continuous(held, old, k - 1) \in BOOLEAN
      BY DEF Continuous
    <3>4. segments'[k] \in Segments
      BY <3>1, <3>2, <3>3 DEF Segments, Intervals
    <3> QED BY <3>1, <3>2, <3>4
  <2>5. segments' \in Seq(Segments)
    <3>1. segments' = [k \in 1 .. r |-> segments'[k]]
      BY <2>2
    <3>2. segments' \in [1 .. r -> Segments]
      BY <2>4, <3>1
    <3> QED BY <2>2, <3>2
  <2>6. options' = options
    BY DEF Stored
  <2>7. CASE options.ignoreConflicts
    BY <2>5, <2>6, <2>7 DEF SegmentsTile, JumpsAreDiscrete
  <2>8. CASE ~options.ignoreConflicts
    <3>1. Chain(discretized', m, first) /\ options.discretize /\ CorrelationDue(size)
      BY <2>1, <2>6, <2>8, ChainStep, HeldFacts DEF ChainInv, Discretized
    <3>2. /\ m \in Nat /\ first \in Nat /\ f \in Nat \ {0} /\ MaxTime \in Nat
          /\ Position <= positions' /\ L = m - first + 1
          /\ held.data \in Seq(Frames) /\ held.jumps \in Seq(JumpInfo)
          /\ Consecutive(held.data, m) /\ FlagsOf(held.jumps, held.data)
      <4>1. m \in Nat /\ first \in Nat /\ f \in Nat \ {0} /\ MaxTime \in Nat
        BY HeldFacts
      <4>2. Position <= positions'
        BY <2>8, <3>1, StoredFrame DEF CorrelationDue
      <4> QED BY <3>1, <4>1, <4>2, HeldWindow DEF HeldInv, WindowOf
    <3>3. L \in Nat
      BY LastInterval
    <3>4. ASSUME NEW k \in 1 .. r
          PROVE  /\ segments'[k].to = m - (r - k) * f
                 /\ segments'[k].from = segments'[k].to - f
                 /\ segments'[k].from >= first
                 /\ segments'[k].to \in Nat
      <4>1. /\ discretized'[N - r + k].to = m - (r - k) * f
            /\ discretized'[N - r + k].from = discretized'[N - r + k].to - f
            /\ discretized'[N - r + k].from >= first
        <5> DEFINE intervals == discretized'
        <5>1. intervals \in Seq(Intervals) /\ Chain(intervals, m, first)
              /\ r <= Len(intervals) /\ m \in Nat /\ first \in Nat /\ r \in Nat
          BY <2>2, <3>1, <3>2
        <5> HIDE DEF intervals, m, first, r
        <5>2. LET s == intervals[Len(intervals) - r + k]
              IN /\ s.to = m - (r - k) * CorrelationFrequency
                 /\ s.from = s.to - CorrelationFrequency /\ s.from >= first
          BY <5>1, LastOfChain
        <5> QED BY <5>2 DEF intervals
      <4>2. discretized'[N - r + k].to \in Nat
        BY <2>4 DEF Intervals, Frames
      <4> QED BY <2>4, <4>1, <4>2
    <3>5. SegmentsTile'
      <4>1. r >= 1
        <5> SUFFICES ASSUME r = 0 PROVE FALSE
          <6> HIDE DEF r
          <6> QED BY <2>2
        <5>1. Len(segments') = 0
          BY <2>3
        <5> QED BY <1>2, <2>5, <5>1
      <4>2. 1 \in 1 .. r /\ r \in 1 .. r
        <5> HIDE DEF r
        <5> QED BY <2>2, <4>1
      <4>3. Last(segments').to = m
        <5>1. Last(segments') = segments'[r]
          BY <2>3 DEF Last
        <5>2. (r - r) * f = 0
          <6> HIDE DEF r, f
          <6> QED BY <2>2, <3>2
        <5>3. segments'[r].to = m - (r - r) * f
          BY <3>4, <4>2
        <5> HIDE DEF m, r, f
        <5> QED BY <3>2, <5>1, <5>2, <5>3
      <4>4. ASSUME NEW k \in 1 .. r
            PROVE  /\ segments'[k].to = segments'[k].from + f
                   /\ k > 1 => segments'[k].from = segments'[k - 1].to
        <5> DEFINE to == segments'[k].to
                   from == segments'[k].from
        <5>1. to = from + f
          <6>1. from = to - f /\ to \in Nat
            BY <3>4
          <6> HIDE DEF to, from, f
          <6> QED BY <3>2, <6>1
        <5>2. ASSUME k > 1 PROVE from = segments'[k - 1].to
          <6>0. k - 1 \in 1 .. r
            <7> HIDE DEF r
            <7> QED BY <2>2, <5>2
          <6>1. segments'[k - 1].to = m - (r - (k - 1)) * f
            BY <3>4, <6>0
          <6>2. r - (k - 1) = (r - k) + 1 /\ r - k \in Int
            <7> HIDE DEF r
            <7> QED BY <2>2
          <6>3. ((r - k) + 1) * f = (r - k) * f + f /\ (r - k) * f \in Int
            BY <6>2, OneMore
          <6>4. from = m - (r - k) * f - f
            BY <3>4
          <6> DEFINE p == (r - k) * f
                     q == (r - (k - 1)) * f
          <6>5. q = p + f /\ p \in Int
            BY <6>2, <6>3
          <6>6. segments'[k - 1].to = m - q /\ from = m - p - f
            BY <6>1, <6>4
          <6> HIDE DEF p, q, from, f, m
          <6> QED BY <3>2, <6>5, <6>6
        <5> QED BY <5>1, <5>2
      <4> QED BY <2>3, <3>4, <4>2, <4>3, <4>4 DEF SegmentsTile
    <3>6. JumpsAreDiscrete'
      <4>1. jumpInfo' = held.jumps
        BY <2>1, DiscretizedParts DEF Discretized
      <4>2. ASSUME NEW k \in 1 .. r
            PROVE  segments'[k].continuous <=>
                     \A j \in DOMAIN jumpInfo' :
                       jumpInfo'[j].frame \in segments'[k].from .. segments'[k].to
                         => jumpInfo'[j].same
        <5> DEFINE to    == segments'[k].to
                   data  == held.data
                   jumps == held.jumps
                   p     == (r - k) * f
                   q     == ((k - 1) + 1) * f
        <5>1. to = m - p /\ to - f >= first /\ to \in Nat
          BY <3>4
        <5>2. p \in Nat /\ q \in Int /\ p + q = MaxTime
          <6>1. r * f = MaxTime /\ r - k \in Nat /\ (k - 1) + 1 = k /\ k \in Nat
            <7> HIDE DEF r
            <7> QED BY <2>2
          <6> HIDE DEF r, f
          <6>2. (r - k) * f + k * f = r * f /\ (r - k) * f \in Nat /\ k * f \in Int
            BY <2>2, <3>2, <6>1
          <6> QED BY <6>1, <6>2
        <5>3. to <= m /\ to - f >= m - L + 1 /\ old + q = to - m + L
          <6> HIDE DEF to, p, q, m, f, first, L, old
          <6> QED BY <2>2, <3>2, <3>3, <5>1, <5>2
        <5>4. old \in Int /\ k - 1 \in Int
          <6>1. old = L - MaxTime /\ L \in Nat /\ MaxTime \in Nat
            BY <2>2, <3>2, <3>3
          <6> HIDE DEF old, L
          <6> QED BY <6>1
        <5>5. Continuous(held, old, k - 1) <=>
                \A j \in DOMAIN jumps : jumps[j].frame \in to - f .. to => jumps[j].same
          <6>1. /\ data \in Seq(Frames) /\ jumps \in Seq(JumpInfo) /\ held.jumps = jumps
                /\ m \in Nat /\ f = CorrelationFrequency
                /\ Consecutive(data, m) /\ FlagsOf(jumps, data)
                /\ to <= m /\ to - f >= m - Len(data) + 1
                /\ old + ((k - 1) + 1) * f = to - m + Len(data)
            BY <3>2, <5>3
          <6> HIDE DEF to, data, jumps, p, q, m, f, old
          <6> QED BY <5>1, <5>4, <6>1, FlagsOfDisplacement
        <5>6. segments'[k].from = to - f
          BY <3>4
        <5> QED BY <2>4, <4>1, <5>5, <5>6
      <4> QED BY <2>3, <4>2 DEF JumpsAreDiscrete
    <3> QED BY <2>5, <3>5, <3>6
  <2> QED BY <2>7, <2>8
<1> QED BY <1>1, <1>2

-----------------------------------------------------------------------------
LEMMA InvStep == IInv /\ [Next]_vars => IInv'
<1> SUFFICES ASSUME IInv, [Next]_vars PROVE IInv'
  OBVIOUS
<1>1. CASE Next
  <2>1. PICK size \in Sizes : \E held \in {Held(TRUE), Held(FALSE), Cleared(size)} :
          /\ mCount < NumFrames /\ mCount' = mCount + 1 /\ options' = options
          /\ AddToTCF(size, held)
          /\ Correlated(size, held) \/ Discretized(size, held) \/ Kept(size, held)
          /\ DueNow(size, held)
    BY <1>1 DEF Next, Frame, Correlated, Discretized, Kept, DueNow
  <2>2. PICK held : /\ Stored(size, held) /\ DueNow(size, held)
                    /\ Correlated(size, held) \/ Discretized(size, held)
                         \/ Kept(size, held)
    BY <2>1 DEF Stored
  <2>3. /\ mCount' \in 0 .. NumFrames /\ positions' \in Sizes \union {0}
        /\ followed' \in 0 .. NumFrames
    BY <2>2, StoredFrame
  <2>4. /\ inData1' \in Seq(Frames) /\ jumpInfo' \in Seq(JumpInfo)
        /\ discretized' \in Seq(Intervals) /\ WindowInv'
    BY <2>2, WindowStep
  <2>5. segments' \in Seq(Segments) /\ SegmentsTile' /\ JumpsAreDiscrete'
    BY <2>2, SegmentsStep
  <2>6. outData' \in [Lags -> [Frames -> Nat]] /\ CountsWhatIsDue'
    BY <2>2, CountsStep
  <2>7. DueInv' /\ due' \subseteq Frames
    BY <2>2, DueStep
  <2>8. ChainInv'
    BY <2>2, ChainStep
  <2>9. /\ options' \in [ignoreConflicts : BOOLEAN, discretize : BOOLEAN]
        /\ OptionsInv'
    BY <2>2 DEF Stored, IInv, TypeOK, OptionsInv, DiscretizeAllowed
  <2>10. TypeOK'
    BY <2>3, <2>4, <2>5, <2>6, <2>7, <2>9 DEF TypeOK, JumpInfo, Intervals, Segments
  <2> QED BY <2>4, <2>5, <2>6, <2>7, <2>8, <2>9, <2>10 DEF IInv
<1>2. CASE UNCHANGED vars
  <2>1. /\ UNCHANGED <<options, mCount, positions, outData, segments, followed, due>>
        /\ UNCHANGED <<inData1, jumpInfo, discretized>>
    BY <1>2 DEF vars, window
  <2>2. TypeOK' /\ OptionsInv' /\ DueInv' /\ CountsWhatIsDue'
    BY <2>1 DEF IInv, TypeOK, OptionsInv, DueInv, CountsWhatIsDue
  <2>3. WindowInv' /\ ChainInv'
    BY <2>1 DEF IInv, WindowInv, WindowOf, ChainInv
  <2>4. SegmentsTile' /\ JumpsAreDiscrete'
    BY <2>1 DEF IInv, SegmentsTile, JumpsAreDiscrete
  <2> QED BY <2>2, <2>3, <2>4 DEF IInv
<1> QED BY <1>1, <1>2

THEOREM Invariance == Spec => []IInv
  BY InvInit, InvStep, PTL DEF Spec

(* The values and the flags of a position belong to the same frames, a     *)
(* gapless end of the trajectory that begins after the last conflict       *)
(* (actiontmsdfollow.cpp:210-267), whatever the conflicts, the jumps and   *)
(* the sizes of the group are.                                             *)
THEOREM Aligned == Spec => []WindowsAligned
<1>1. IInv => WindowsAligned
  <2> SUFFICES ASSUME IInv PROVE WindowsAligned
    OBVIOUS
  <2> DEFINE L == Len(inData1)
  <2>1. /\ TypeOK /\ inData1 \in Seq(Frames) /\ jumpInfo \in Seq(JumpInfo)
        /\ Consecutive(inData1, mCount) /\ FlagsOf(jumpInfo, inData1)
        /\ Position > positions => inData1 = <<>>
        /\ Position <= positions =>
             ReachesBack(L, mCount, followed, LastDue(mCount))
    BY DEF IInv, TypeOK, JumpInfo, WindowInv, WindowOf
  <2>2. inData1 = [k \in 1 .. L |-> mCount - L + k]
    <3>1. inData1 = [k \in 1 .. L |-> inData1[k]]
      BY <2>1
    <3>2. \A k \in 1 .. L : inData1[k] = mCount - L + k
      BY <2>1 DEF Consecutive
    <3> QED BY <3>1, <3>2
  <2>3. [k \in DOMAIN jumpInfo |-> jumpInfo[k].frame] = inData1
    <3>1. DOMAIN jumpInfo = 1 .. L /\ \A k \in 1 .. L : jumpInfo[k].frame = inData1[k]
      BY <2>1 DEF FlagsOf
    <3>2. inData1 = [k \in 1 .. L |-> inData1[k]]
      BY <2>1
    <3> QED BY <3>1, <3>2
  <2>4. inData1 # <<>> => inData1[1] >= followed
    <3> SUFFICES ASSUME inData1 # <<>> PROVE inData1[1] >= followed
      OBVIOUS
    <3>1. positions \in Nat /\ Position \in Nat /\ followed \in Nat /\ mCount \in Nat
      BY <2>1, FollowAssumption, NumFramesAssumption DEF TypeOK
    <3>2. L \in Nat /\ L <= mCount - followed + 1 /\ L >= 1
      BY <2>1, <3>1 DEF ReachesBack
    <3>3. inData1[1] = mCount - L + 1
      BY <2>1, <3>2 DEF Consecutive
    <3> HIDE DEF L
    <3> QED BY <3>1, <3>2, <3>3
  <2> QED BY <2>1, <2>2, <2>3, <2>4 DEF WindowsAligned
<1> QED BY Invariance, <1>1, PTL

(* Without Discretize exactly the origins that are due when a correlation  *)
(* comes are counted, once at each lag, for every pattern of conflicts.    *)
THEOREM CountedAsDue == Spec => []CountsWhatIsDue
<1>1. IInv => CountsWhatIsDue
  BY DEF IInv
<1> QED BY Invariance, <1>1, PTL

(* Discretised displacements tile the time up to the present frame.        *)
THEOREM Tiled == Spec => []SegmentsTile
<1>1. IInv => SegmentsTile
  BY DEF IInv
<1> QED BY Invariance, <1>1, PTL

(* A displacement is continuous exactly when the window has no jump in it, *)
(* its two end points included.                                            *)
THEOREM Discrete == Spec => []JumpsAreDiscrete
<1>1. IInv => JumpsAreDiscrete
  BY DEF IInv
<1> QED BY Invariance, <1>1, PTL

-----------------------------------------------------------------------------
(* The matching of the atoms to the positions (FollowMatching).            *)

(* The number of members, and the least that is said of distances.         *)
LEMMA MembersFacts ==
  ASSUME MatchingTypeOK
  PROVE  \E n \in Nat \ {0} :
           /\ Members = 1 .. n
           /\ Cardinality(Members) = n
           /\ IsFiniteSet(Members)
           /\ distance \in [Members -> [Members -> Nat]]
<1>1. PICK n \in 1 .. MaxSize : distance \in Matrices(n)
  BY DEF MatchingTypeOK
<1>2. n \in Nat \ {0} /\ Members = 1 .. n
  BY <1>1, MatchingAssumption DEF Matrices, Members
<1>3. Cardinality(1 .. n) = n /\ IsFiniteSet(1 .. n)
  BY <1>2, FS_Interval
<1>4. distance \in [1 .. n -> [1 .. n -> Nat]]
  BY <1>1, MatchingAssumption DEF Matrices
<1> QED BY <1>2, <1>3, <1>4

(* There is a nearest position among those that are not left out, it is    *)
(* what Nearest says, and no other of them is nearer.                      *)
LEMMA NearestFacts ==
  ASSUME MatchingTypeOK, NEW a \in Members, NEW ignored, Members \ {ignored} # {}
  PROVE  /\ Nearest(a, ignored) \in Members
         /\ Nearest(a, ignored) # ignored
         /\ \A q \in Members \ {ignored} :
              /\ distance[a][Nearest(a, ignored)] <= distance[a][q]
              /\ distance[a][Nearest(a, ignored)] = distance[a][q] => Nearest(a, ignored) <= q
<1> DEFINE P == Members \ {ignored}
           D == {distance[a][p] : p \in P}
<1>1. P \subseteq Nat /\ P # {} /\ \A p \in P : distance[a][p] \in Nat
  BY MembersFacts
<1>2. PICK d \in D : \A e \in D : d <= e
  <2>1. D \in SUBSET Nat /\ D # {}
    BY <1>1
  <2> QED BY <2>1, LeastElement
<1> DEFINE Q == {p \in P : distance[a][p] = d}
<1>3. PICK p \in Q : \A q \in Q : p <= q
  <2>1. Q \in SUBSET Nat /\ Q # {}
    BY <1>1, <1>2
  <2> QED BY <2>1, LeastElement
<1>4. p \in P /\ \A q \in P : /\ distance[a][p] <= distance[a][q]
                              /\ distance[a][p] = distance[a][q] => p <= q
  BY <1>2, <1>3
<1> HIDE DEF P
<1>5. /\ Nearest(a, ignored) \in P
      /\ \A q \in P :
           /\ distance[a][Nearest(a, ignored)] <= distance[a][q]
           /\ distance[a][Nearest(a, ignored)] = distance[a][q] => Nearest(a, ignored) <= q
  BY <1>4 DEF Nearest, P
<1> QED BY <1>5 DEF P

-----------------------------------------------------------------------------
(* The two vectors are inverse to each other.                              *)
Inverses ==
  /\ \A a \in Members : a < atom => switch[a] \in Members /\ occupied[switch[a]] = a
  /\ \A p \in Members : occupied[p] # 0 => occupied[p] < atom /\ switch[occupied[p]] = p

(* An atom that has been dealt with has its nearest position or, once      *)
(* that is somebody else's, the nearest of the others; a position once     *)
(* wanted is never free again; and vMinDists is the distance to it.        *)
Wishes ==
  \A a \in Members : a < atom =>
    /\ switch[a] = Nearest(a, 0) \/ switch[a] = Nearest(a, Nearest(a, 0))
    /\ occupied[Nearest(a, 0)] # 0
    /\ minDist[a] = distance[a][Nearest(a, 0)]

(* The inductive invariant.                                                *)
MatchingInv ==
  /\ MatchingTypeOK
  /\ method = "greedy" => Inverses /\ Wishes
  /\ method # "greedy" => ~conflict /\ (atom \in Members \/ occupied \in Assignments)

LEMMA MatchingInvInit == MatchingInit => MatchingInv
<1> SUFFICES ASSUME MatchingInit PROVE MatchingInv
  OBVIOUS
<1>1. PICK n \in 1 .. MaxSize : distance \in Matrices(n)
  BY DEF MatchingInit
<1>2. n \in Nat \ {0} /\ Members = 1 .. n /\ Cardinality(Members) = n
  BY <1>1, FS_Interval, MatchingAssumption DEF Matrices, Members
<1>3. MatchingTypeOK
  <2>1. -1 \in -1 .. MaxDistance
    BY MatchingAssumption
  <2>2. \E k \in 1 .. MaxSize : distance \in Matrices(k)
    BY <1>1
  <2>3. atom \in 1 .. Cardinality(Members) + 1
    <3>1. atom = 1
      BY DEF MatchingInit
    <3> QED BY <1>2, <3>1
  <2>5. conflict \in BOOLEAN /\ method \in Methods /\ resolution \in Resolutions
    BY DEF MatchingInit
  <2>4. /\ occupied \in [Members -> Members \union {0}]
        /\ switch \in [Members -> Members \union {0}]
        /\ minDist \in [Members -> -1 .. MaxDistance]
    BY <2>1 DEF MatchingInit
  <2> QED BY <2>2, <2>3, <2>4, <2>5 DEF MatchingTypeOK
<1>4. atom = 1 /\ ~conflict /\ \A p \in Members : occupied[p] = 0 /\ p >= 1
  BY <1>2 DEF MatchingInit
<1> QED BY <1>2, <1>3, <1>4 DEF MatchingInv, Inverses, Wishes

(* The position and the atoms a turn of the loop looks at.  An atom whose  *)
(* second best position is free is at its nearest one.                     *)
LEMMA TurnFacts ==
  ASSUME MatchingInv, Looping
  PROVE  /\ atom \in Members /\ Wanted \in Members
         /\ Previous # 0 =>
              /\ Previous \in Members /\ Previous < atom /\ switch[Previous] = Wanted
              /\ AltThis \in Members /\ AltThis # Wanted
              /\ AltPrevious \in Members /\ AltPrevious # Wanted
              /\ AltPreviousAllowed => Wanted = Nearest(Previous, 0)
<1>1. MatchingTypeOK /\ Inverses /\ Wishes /\ atom \in Members
  BY DEF MatchingInv, Looping
<1>2. PICK n \in Nat \ {0} : Members = 1 .. n
  BY <1>1, MembersFacts
<1>3. Wanted \in Members
  BY <1>1, <1>2, NearestFacts DEF Wanted
<1>4. ASSUME Previous # 0
      PROVE  /\ Previous \in Members /\ Previous < atom /\ switch[Previous] = Wanted
             /\ AltThis \in Members /\ AltThis # Wanted
             /\ AltPrevious \in Members /\ AltPrevious # Wanted
             /\ AltPreviousAllowed => Wanted = Nearest(Previous, 0)
  <2>1. Previous \in Members /\ Previous < atom /\ switch[Previous] = Wanted
    BY <1>1, <1>3, <1>4 DEF Previous, MatchingTypeOK, Inverses
  <2>2. Members \ {Wanted} # {}
    BY <1>1, <1>2, <2>1
  <2>3. AltThis \in Members /\ AltThis # Wanted
    BY <1>1, <2>2, NearestFacts DEF AltThis
  <2>4. AltPrevious \in Members /\ AltPrevious # Wanted
    BY <1>1, <2>1, <2>2, NearestFacts DEF AltPrevious
  <2>5. ASSUME AltPreviousAllowed, Wanted # Nearest(Previous, 0)
        PROVE  FALSE
    <3> DEFINE best == Nearest(Previous, 0)
    <3>1. best \in Members \ {Wanted} /\ occupied[best] # 0
      BY <1>1, <1>2, <2>1, <2>5, NearestFacts DEF Wishes
    <3>2. \A q \in Members : /\ distance[Previous][best] <= distance[Previous][q]
                             /\ distance[Previous][best] = distance[Previous][q] => best <= q
      <4>1. Members \ {0} = Members /\ Members # {}
        BY <1>2
      <4> QED BY <1>1, <2>1, <4>1, NearestFacts
    <3>3. /\ \A q \in Members \ {Wanted} : distance[Previous][AltPrevious] <= distance[Previous][q]
          /\ \A q \in Members \ {Wanted} :
               distance[Previous][AltPrevious] = distance[Previous][q] => AltPrevious <= q
      BY <1>1, <2>1, <2>2, NearestFacts DEF AltPrevious
    <3> HIDE DEF best
    <3>4. /\ distance[Previous][AltPrevious] \in Nat /\ distance[Previous][best] \in Nat
          /\ AltPrevious \in Nat /\ best \in Nat
      <4>1. distance \in [Members -> [Members -> Nat]]
        BY <1>1, MembersFacts
      <4>2. distance[Previous] \in [Members -> Nat]
        BY <2>1, <4>1
      <4>3. distance[Previous][AltPrevious] \in Nat /\ distance[Previous][best] \in Nat
        BY <2>4, <3>1, <4>2
      <4> QED BY <1>2, <2>4, <3>1, <4>3
    <3>5. AltPrevious = best
      <4>1. distance[Previous][AltPrevious] = distance[Previous][best]
        BY <2>4, <3>1, <3>2, <3>3, <3>4
      <4> QED BY <2>4, <3>1, <3>2, <3>3, <3>4, <4>1
    <3> QED BY <2>5, <3>1, <3>5 DEF AltPreviousAllowed
  <2> QED BY <2>1, <2>3, <2>4, <2>5
<1> QED BY <1>1, <1>3, <1>4

(* The nearest position is a matter of the distances alone.                *)
LEMMA NearestUnchanged ==
  ASSUME distance' = distance
  PROVE  Members' = Members /\ \A a, p : Nearest(a, p)' = Nearest(a, p)
BY DEF Nearest, Members

(* One turn of the loop in which atom gets position p and, if it makes     *)
(* room, the atom moved gets its second best position.                     *)
LEMMA TurnKeepsTypes ==
  ASSUME MatchingInv, Looping, TakeWanted \/ MoveThis \/ MovePrevious
  PROVE  MatchingTypeOK' /\ atom' = atom + 1 /\ minDist' = [minDist EXCEPT ![atom] = distance[atom][Wanted]]
<1>1. MatchingTypeOK
  BY DEF MatchingInv
<1>2. PICK n \in Nat \ {0} : Members = 1 .. n /\ Cardinality(Members) = n
  BY <1>1, MembersFacts
<1>3. /\ distance' = distance /\ method' = method /\ conflict' = conflict /\ resolution' = resolution
      /\ atom' = atom + 1
      /\ minDist' = [minDist EXCEPT ![atom] = distance[atom][Wanted]]
  BY DEF TakeWanted, MoveThis, MovePrevious, NextAtom
<1>4. Members' = Members
  BY <1>3, NearestUnchanged
<1>5. atom \in Members /\ Wanted \in Members
  BY TurnFacts
<1>6. atom' \in 1 .. Cardinality(Members) + 1
  BY <1>2, <1>3, <1>5
<1>7. minDist' \in [Members -> -1 .. MaxDistance]
  <2>1. PICK k \in 1 .. MaxSize : distance \in Matrices(k)
    BY <1>1 DEF MatchingTypeOK
  <2>2. Members = 1 .. k
    BY <2>1 DEF Matrices, Members
  <2>3. distance[atom][Wanted] \in 0 .. MaxDistance
    BY <1>5, <2>1, <2>2 DEF Matrices
  <2>4. distance[atom][Wanted] \in -1 .. MaxDistance
    BY <2>3, MatchingAssumption
  <2> QED BY <1>1, <1>3, <2>4 DEF MatchingTypeOK
<1>8. occupied' \in [Members -> Members \union {0}] /\ switch' \in [Members -> Members \union {0}]
  <2>1. CASE TakeWanted
    BY <1>1, <1>5, <2>1 DEF TakeWanted, MatchingTypeOK
  <2>2. CASE MoveThis
    <3>1. AltThis \in Members
      BY <2>2, TurnFacts DEF MoveThis
    <3> QED BY <1>1, <1>5, <2>2, <3>1 DEF MoveThis, MatchingTypeOK
  <2>3. CASE MovePrevious
    <3>1. AltPrevious \in Members /\ Previous \in Members
      BY <2>3, TurnFacts DEF MovePrevious
    <3>2. [occupied EXCEPT ![AltPrevious] = Previous, ![Wanted] = atom]
            \in [Members -> Members \union {0}]
      BY <1>1, <1>5, <3>1 DEF MatchingTypeOK
    <3>3. [switch EXCEPT ![Previous] = AltPrevious, ![atom] = Wanted]
            \in [Members -> Members \union {0}]
      BY <1>1, <1>5, <3>1 DEF MatchingTypeOK
    <3> QED BY <2>3, <3>2, <3>3 DEF MovePrevious
  <2> QED BY <2>1, <2>2, <2>3
<1> QED BY <1>1, <1>3, <1>4, <1>6, <1>7, <1>8 DEF MatchingTypeOK

(* ... keeps the two vectors inverse to each other, ...                    *)
LEMMA TurnKeepsInverses ==
  ASSUME MatchingInv, Looping, TakeWanted \/ MoveThis \/ MovePrevious
  PROVE  Inverses'
<1>1. MatchingTypeOK /\ Inverses /\ method = "greedy"
  BY DEF MatchingInv, Looping
<1>2. PICK n \in Nat \ {0} : Members = 1 .. n
  BY <1>1, MembersFacts
<1>3. distance' = distance /\ atom' = atom + 1
  BY DEF TakeWanted, MoveThis, MovePrevious, NextAtom
<1>4. Members' = Members
  BY <1>3, NearestUnchanged
<1>5. atom \in Members /\ Wanted \in Members
  BY TurnFacts
<1>6. occupied \in [Members -> Members \union {0}] /\ switch \in [Members -> Members \union {0}]
  BY <1>1 DEF MatchingTypeOK
<1>7. \A p \in Members : occupied[p] # atom
  BY <1>1, <1>2, <1>5 DEF Inverses
<1>8. CASE TakeWanted
  <2>1. /\ occupied' = [occupied EXCEPT ![Wanted] = atom]
        /\ switch' = [switch EXCEPT ![atom] = Wanted]
        /\ occupied[Wanted] = 0
    BY <1>8 DEF TakeWanted, Previous
  <2> QED BY <1>1, <1>2, <1>3, <1>4, <1>5, <1>6, <1>7, <2>1 DEF Inverses
<1>9. CASE MoveThis
  <2>1. /\ occupied' = [occupied EXCEPT ![AltThis] = atom]
        /\ switch' = [switch EXCEPT ![atom] = AltThis]
        /\ occupied[AltThis] = 0 /\ AltThis \in Members
    BY <1>9, TurnFacts DEF MoveThis, AltThisAllowed
  <2> QED BY <1>1, <1>2, <1>3, <1>4, <1>5, <1>6, <1>7, <2>1 DEF Inverses
<1>10. CASE MovePrevious
  <2>1. /\ occupied' = [occupied EXCEPT ![AltPrevious] = Previous, ![Wanted] = atom]
        /\ switch' = [switch EXCEPT ![Previous] = AltPrevious, ![atom] = Wanted]
        /\ occupied[AltPrevious] = 0 /\ AltPrevious \in Members /\ AltPrevious # Wanted
        /\ Previous \in Members /\ Previous < atom /\ switch[Previous] = Wanted
        /\ occupied[Wanted] = Previous
    BY <1>10, TurnFacts DEF MovePrevious, PreviousGivesWay, AltPreviousAllowed, Previous
  <2>2. ASSUME NEW a \in Members, a < atom'
        PROVE  switch'[a] \in Members /\ occupied'[switch'[a]] = a
    <3>1. CASE a = atom
      BY <1>2, <1>5, <1>6, <2>1, <3>1
    <3>2. CASE a = Previous
      BY <1>2, <1>5, <1>6, <2>1, <3>2
    <3>3. CASE a # atom /\ a # Previous
      <4>1. /\ switch'[a] = switch[a] /\ switch[a] \in Members /\ occupied[switch[a]] = a
        BY <1>1, <1>2, <1>3, <1>5, <1>6, <2>1, <2>2, <3>3 DEF Inverses
      <4>2. switch[a] # Wanted /\ switch[a] # AltPrevious
        BY <1>2, <2>1, <3>3, <4>1
      <4> QED BY <1>6, <2>1, <4>1, <4>2
    <3> QED BY <3>1, <3>2, <3>3
  <2>3. ASSUME NEW p \in Members, occupied'[p] # 0
        PROVE  occupied'[p] < atom' /\ switch'[occupied'[p]] = p
    <3>1. CASE p = Wanted
      BY <1>2, <1>3, <1>5, <1>6, <2>1, <3>1
    <3>2. CASE p = AltPrevious
      BY <1>2, <1>3, <1>5, <1>6, <2>1, <3>2
    <3>3. CASE p # Wanted /\ p # AltPrevious
      <4>1. occupied'[p] = occupied[p] /\ occupied[p] \in Members
        BY <1>6, <2>1, <2>3, <3>3
      <4>2. occupied[p] < atom /\ switch[occupied[p]] = p
        BY <1>1, <2>3, <4>1 DEF Inverses
      <4>3. occupied[p] # Previous /\ occupied[p] # atom
        BY <1>7, <2>1, <3>3, <4>2
      <4> QED BY <1>2, <1>3, <1>5, <1>6, <2>1, <4>1, <4>2, <4>3
    <3> QED BY <3>1, <3>2, <3>3
  <2> QED BY <1>4, <2>2, <2>3 DEF Inverses
<1> QED BY <1>8, <1>9, <1>10

(* ... and gives each atom its nearest position or the nearest of the      *)
(* others.                                                                 *)
LEMMA TurnKeepsWishes ==
  ASSUME MatchingInv, Looping, TakeWanted \/ MoveThis \/ MovePrevious
  PROVE  Wishes'
<1>1. MatchingTypeOK /\ Wishes
  BY DEF MatchingInv, Looping
<1>2. PICK n \in Nat \ {0} : Members = 1 .. n
  BY <1>1, MembersFacts
<1>3. /\ distance' = distance /\ atom' = atom + 1
      /\ minDist' = [minDist EXCEPT ![atom] = distance[atom][Wanted]]
  BY DEF TakeWanted, MoveThis, MovePrevious, NextAtom
<1>4. Members' = Members /\ \A a, p : Nearest(a, p)' = Nearest(a, p)
  BY <1>3, NearestUnchanged
<1>5. atom \in Members /\ Wanted \in Members /\ Wanted = Nearest(atom, 0)
  BY TurnFacts DEF Wanted
<1>6. /\ occupied \in [Members -> Members \union {0}] /\ switch \in [Members -> Members \union {0}]
      /\ minDist \in [Members -> -1 .. MaxDistance]
  BY <1>1 DEF MatchingTypeOK
<1>7. /\ switch'[atom] = Nearest(atom, 0) \/ switch'[atom] = Nearest(atom, Nearest(atom, 0))
      /\ occupied'[Wanted] # 0
      /\ \A p \in Members : occupied[p] # 0 => occupied'[p] # 0
      /\ \A a \in Members : a < atom =>
           switch'[a] = switch[a] \/ switch'[a] = Nearest(a, Nearest(a, 0))
  <2>1. CASE TakeWanted
    BY <1>2, <1>5, <1>6, <2>1 DEF TakeWanted
  <2>2. CASE MoveThis
    <3>1. AltThis = Nearest(atom, Nearest(atom, 0)) /\ AltThis \in Members /\ Previous # 0
      BY <1>5, <2>2, TurnFacts DEF MoveThis, AltThis
    <3>2. /\ occupied' = [occupied EXCEPT ![AltThis] = atom]
          /\ switch' = [switch EXCEPT ![atom] = AltThis]
      BY <2>2 DEF MoveThis
    <3> HIDE DEF Wanted
    <3> QED BY <1>2, <1>5, <1>6, <3>1, <3>2 DEF Previous
  <2>3. CASE MovePrevious
    <3>1. /\ AltPrevious = Nearest(Previous, Nearest(Previous, 0)) /\ AltPrevious \in Members
          /\ Previous \in Members /\ Previous < atom
      BY <2>3, TurnFacts DEF MovePrevious, PreviousGivesWay, AltPrevious
    <3>2. /\ occupied' = [occupied EXCEPT ![AltPrevious] = Previous, ![Wanted] = atom]
          /\ switch' = [switch EXCEPT ![Previous] = AltPrevious, ![atom] = Wanted]
      BY <2>3 DEF MovePrevious
    <3> QED BY <1>2, <1>5, <1>6, <3>1, <3>2
  <2> QED BY <2>1, <2>2, <2>3
<1>8. ASSUME NEW a \in Members, a < atom'
      PROVE  /\ switch'[a] = Nearest(a, 0) \/ switch'[a] = Nearest(a, Nearest(a, 0))
             /\ occupied'[Nearest(a, 0)] # 0
             /\ minDist'[a] = distance[a][Nearest(a, 0)]
  <2>1. CASE a = atom
    BY <1>3, <1>5, <1>6, <1>7, <2>1
  <2>2. CASE a # atom
    <3>1. a < atom
      BY <1>2, <1>3, <1>5, <1>8, <2>2
    <3>2. Nearest(a, 0) \in Members
      <4>1. Members \ {0} # {}
        BY <1>2
      <4> QED BY <1>1, <4>1, NearestFacts
    <3>3. /\ switch[a] = Nearest(a, 0) \/ switch[a] = Nearest(a, Nearest(a, 0))
          /\ occupied[Nearest(a, 0)] # 0
          /\ minDist[a] = distance[a][Nearest(a, 0)]
      BY <1>1, <3>1 DEF Wishes
    <3>4. minDist'[a] = minDist[a]
      BY <1>3, <1>6, <2>2
    <3> QED BY <1>7, <3>1, <3>2, <3>3, <3>4
  <2> QED BY <2>1, <2>2
<1>9. \A a \in Members : a < atom' =>
        /\ switch'[a] = Nearest(a, 0)' \/ switch'[a] = Nearest(a, Nearest(a, 0))'
        /\ occupied'[Nearest(a, 0)'] # 0
        /\ minDist'[a] = distance'[a][Nearest(a, 0)']
  BY <1>3, <1>4, <1>8
<1> QED BY <1>4, <1>9 DEF Wishes

LEMMA MatchingInvStep == MatchingInv /\ [MatchingNext]_matchingVars => MatchingInv'
<1> SUFFICES ASSUME MatchingInv, [MatchingNext]_matchingVars PROVE MatchingInv'
  OBVIOUS
<1>1. MatchingTypeOK
  BY DEF MatchingInv
<1>2. ASSUME TakeWanted \/ MoveThis \/ MovePrevious
      PROVE  MatchingInv'
  <2>1. Looping /\ method = "greedy" /\ method' = method
    BY <1>2 DEF TakeWanted, MoveThis, MovePrevious, Looping, NextAtom
  <2> QED BY <1>2, <2>1, TurnKeepsTypes, TurnKeepsInverses, TurnKeepsWishes DEF MatchingInv
<1>3. CASE GiveUp
  <2>1. /\ method = "greedy" /\ method' = method /\ distance' = distance /\ resolution' = resolution
        /\ atom' = atom /\ occupied' = occupied /\ switch' = switch /\ conflict' = TRUE
        /\ minDist' = [minDist EXCEPT ![atom] = distance[atom][Wanted]]
    BY <1>3 DEF GiveUp, Looping
  <2>2. atom \in Members /\ Wanted \in Members
    BY <1>3, TurnFacts DEF GiveUp
  <2>3. Members' = Members /\ \A a, p : Nearest(a, p)' = Nearest(a, p)
    BY <2>1, NearestUnchanged
  <2>4. minDist' \in [Members -> -1 .. MaxDistance]
    <3>1. PICK k \in 1 .. MaxSize : distance \in Matrices(k)
      BY <1>1 DEF MatchingTypeOK
    <3>2. Members = 1 .. k
      BY <3>1 DEF Matrices, Members
    <3>3. distance[atom][Wanted] \in 0 .. MaxDistance
      BY <2>2, <3>1, <3>2 DEF Matrices
    <3>4. distance[atom][Wanted] \in -1 .. MaxDistance
      BY <3>3, MatchingAssumption
    <3> QED BY <1>1, <2>1, <3>4 DEF MatchingTypeOK
  <2>5. MatchingTypeOK'
    BY <1>1, <2>1, <2>3, <2>4 DEF MatchingTypeOK
  <2>6. Inverses'
    BY <2>1, <2>3 DEF MatchingInv, Inverses
  <2>7. Wishes'
    <3>1. PICK n \in Nat \ {0} : Members = 1 .. n
      BY <1>1, MembersFacts
    <3>2. \A a \in Members : a < atom => minDist'[a] = minDist[a]
      BY <1>1, <2>1, <2>2, <3>1 DEF MatchingTypeOK
    <3>3. \A a \in Members : a < atom' =>
            /\ switch'[a] = Nearest(a, 0)' \/ switch'[a] = Nearest(a, Nearest(a, 0))'
            /\ occupied'[Nearest(a, 0)'] # 0
            /\ minDist'[a] = distance'[a][Nearest(a, 0)']
      BY <2>1, <2>3, <3>2 DEF MatchingInv, Wishes
    <3> QED BY <2>3, <3>3 DEF Wishes
  <2> QED BY <2>1, <2>5, <2>6, <2>7 DEF MatchingInv
<1>4. CASE AssignHungarian
  <2>1. /\ method # "greedy" /\ method' = method /\ distance' = distance /\ resolution' = resolution
        /\ switch' = switch /\ minDist' = minDist /\ conflict' = conflict
        /\ occupied' \in Assignments /\ atom' = Cardinality(Members) + 1
    BY <1>4 DEF AssignHungarian
  <2>2. Members' = Members
    BY <2>1, NearestUnchanged
  <2>3. occupied' \in [Members -> Members \union {0}]
    <3>1. occupied' \in [Members -> Members]
      BY <2>1 DEF Assignments, Bijection, Injection
    <3> QED BY <3>1
  <2>4. atom' \in 1 .. Cardinality(Members) + 1
    BY <1>1, <2>1, MembersFacts
  <2>5. MatchingTypeOK'
    BY <1>1, <2>1, <2>2, <2>3, <2>4 DEF MatchingTypeOK
  <2>6. Assignments' = Assignments
    BY <2>2 DEF Assignments
  <2> QED BY <2>1, <2>5, <2>6 DEF MatchingInv
<1>5. CASE UNCHANGED matchingVars
  <2>1. /\ distance' = distance /\ method' = method /\ atom' = atom /\ occupied' = occupied
        /\ switch' = switch /\ minDist' = minDist /\ conflict' = conflict /\ resolution' = resolution
    BY <1>5 DEF matchingVars
  <2>2. Members' = Members /\ \A a, p : Nearest(a, p)' = Nearest(a, p)
    BY <2>1, NearestUnchanged
  <2>3. Assignments' = Assignments
    BY <2>2 DEF Assignments
  <2>4. MatchingTypeOK' /\ (method = "greedy" => Inverses')
    BY <2>1, <2>2 DEF MatchingInv, MatchingTypeOK, Inverses
  <2>5. ASSUME method = "greedy" PROVE Wishes'
    <3>1. \A a \in Members : a < atom' =>
            /\ switch'[a] = Nearest(a, 0)' \/ switch'[a] = Nearest(a, Nearest(a, 0))'
            /\ occupied'[Nearest(a, 0)'] # 0
            /\ minDist'[a] = distance'[a][Nearest(a, 0)']
      BY <2>1, <2>2, <2>5 DEF MatchingInv, Wishes
    <3> QED BY <2>2, <3>1 DEF Wishes
  <2> QED BY <2>1, <2>2, <2>3, <2>4, <2>5 DEF MatchingInv
<1> QED BY <1>2, <1>3, <1>4, <1>5 DEF MatchingNext

(* Whatever the distances, the vectors stay inverse to each other and no   *)
(* atom is sent further than to its second best position.                  *)
THEOREM MatchingInvariance == MatchingSpec => []MatchingInv
BY MatchingInvInit, MatchingInvStep, PTL DEF MatchingSpec

-----------------------------------------------------------------------------
(* When the loop is through, every position has one atom.                  *)
LEMMA AllFollowed ==
  ASSUME MatchingInv, atom \notin Members
  PROVE  occupied \in Assignments
<1>1. MatchingTypeOK
  BY DEF MatchingInv
<1>2. PICK n \in Nat \ {0} : /\ Members = 1 .. n /\ Cardinality(Members) = n
                             /\ IsFiniteSet(Members)
  BY <1>1, MembersFacts
<1>3. CASE method # "greedy"
  BY <1>3 DEF MatchingInv
<1>4. CASE method = "greedy"
  <2>1. atom = n + 1
    BY <1>1, <1>2 DEF MatchingTypeOK
  <2>2. \A a \in Members : switch[a] \in Members /\ occupied[switch[a]] = a
    BY <1>2, <1>4, <2>1 DEF MatchingInv, Inverses
  <2>3. switch \in Injection(Members, Members)
    BY <1>1, <2>2 DEF MatchingTypeOK, Injection, IsInjective
  <2>4. switch \in Surjection(Members, Members)
    BY <1>2, <2>3, FS_Injection
  <2>5. \A p \in Members : \E a \in Members : switch[a] = p
    BY <2>4 DEF Surjection
  <2>6. occupied \in [Members -> Members]
    BY <1>1, <2>2, <2>5 DEF MatchingTypeOK
  <2>7. occupied \in Surjection(Members, Members)
    BY <2>2, <2>6 DEF Surjection
  <2>8. occupied \in Injection(Members, Members)
    BY <1>2, <2>7, FS_SurjSameCardinalityImpliesInj
  <2> QED BY <2>7, <2>8 DEF Assignments, Bijection
<1> QED BY <1>3, <1>4

(* Each atom dealt with has a position of its own, and without a conflict  *)
(* every position of the last frame is continued by exactly one atom,      *)
(* whatever the distances and however often atoms displace each other      *)
(* (actiontmsdfollow.cpp:113).                                             *)
THEOREM PositionsKept == MatchingSpec => []OnePositionEach
<1>1. MatchingInv => OnePositionEach
  BY AllFollowed DEF MatchingInv, Inverses, OnePositionEach
<1> QED BY MatchingInvariance, <1>1, PTL

(* vMinDists is only read where it is the distance an atom really is from  *)
(* where it is, although a move does not update it                         *)
(* (actiontmsdfollow.cpp:162).                                             *)
THEOREM MovementsReal == MatchingSpec => []MovementIsReal
<1>1. MatchingInv => MovementIsReal
  <2> SUFFICES ASSUME MatchingInv, Looping, Previous # 0, AltPreviousAllowed
               PROVE  minDist[Previous] = distance[Previous][switch[Previous]]
    BY DEF MovementIsReal
  <2>1. /\ Previous \in Members /\ Previous < atom
        /\ switch[Previous] = Wanted /\ Wanted = Nearest(Previous, 0)
    BY TurnFacts
  <2>2. minDist[Previous] = distance[Previous][Nearest(Previous, 0)]
    BY <2>1 DEF MatchingInv, Looping, Wishes
  <2> QED BY <2>1, <2>2
<1> QED BY MatchingInvariance, <1>1, PTL

(* No atom ends beyond the second best of all positions, however many      *)
(* atoms want the same one (actiontmsdfollow.cpp:137-190).                 *)
THEOREM SecondBestAtWorst == MatchingSpec => []FirstOrSecondBest
<1>1. MatchingInv => FirstOrSecondBest
  BY DEF MatchingInv, Wishes, FirstOrSecondBest
<1> QED BY MatchingInvariance, <1>1, PTL

-----------------------------------------------------------------------------
(* The sum of a function, as Total takes it.                               *)
SumOver(g) == FoldFunction(+, 0, g)

(* A fold over a set of two is what it should be, in either order.         *)
LEMMA SumOfTwo ==
  ASSUME NEW g, DOMAIN g = {1, 2}, g[1] \in Int, g[2] \in Int
  PROVE  SumOver(g) = g[1] + g[2]
<1> DEFINE first(s) == CHOOSE x \in s : TRUE
           Def(h) == [s \in SUBSET {1, 2} |->
                        IF s = {} THEN 0 ELSE g[first(s)] + h[s \ {first(s)}]]
           iter == CHOOSE h : h = Def(h)
           sum == [s \in SUBSET {1, 2} |-> IF s = {} THEN 0
                     ELSE IF s = {1} THEN g[1] ELSE IF s = {2} THEN g[2] ELSE g[1] + g[2]]
<1>1. \A s \in SUBSET {1, 2} : s = {} \/ s = {1} \/ s = {2} \/ s = {1, 2}
  OBVIOUS
<1>2. first({1}) = 1 /\ first({2}) = 2 /\ first({1, 2}) \in {1, 2}
  OBVIOUS
<1>3. SumOver(g) = iter[{1, 2}]
  BY DEF SumOver, FoldFunction, FoldFunctionOnSet, MapThenFoldSet
<1> HIDE DEF first
<1>4. sum = Def(sum)
  <2>1. ASSUME NEW s \in SUBSET {1, 2}
        PROVE  sum[s] = IF s = {} THEN 0 ELSE g[first(s)] + sum[s \ {first(s)}]
    <3>1. CASE s = {}
      BY <3>1
    <3>2. CASE s = {1}
      <4>1. sum[{}] = 0 /\ sum[{1}] = g[1] /\ {1} \ {first({1})} = {} /\ {1} # {}
        BY <1>2
      <4> HIDE DEF sum
      <4> QED BY <1>2, <3>2, <4>1
    <3>3. CASE s = {2}
      <4>1. sum[{}] = 0 /\ sum[{2}] = g[2] /\ {2} \ {first({2})} = {} /\ {2} # {}
        BY <1>2
      <4> HIDE DEF sum
      <4> QED BY <1>2, <3>3, <4>1
    <3>4. CASE s = {1, 2}
      <4>1. sum[{1}] = g[1] /\ sum[{2}] = g[2] /\ sum[{1, 2}] = g[1] + g[2] /\ {1, 2} # {}
        OBVIOUS
      <4>2. {1, 2} \ {1} = {2} /\ {1, 2} \ {2} = {1}
        OBVIOUS
      <4>3. g[2] + g[1] = g[1] + g[2]
        OBVIOUS
      <4> HIDE DEF sum
      <4>4. CASE first({1, 2}) = 1
        BY <3>4, <4>1, <4>2, <4>4
      <4>5. CASE first({1, 2}) = 2
        BY <3>4, <4>1, <4>2, <4>3, <4>5
      <4> QED BY <1>2, <4>4, <4>5
    <3> QED BY <1>1, <3>1, <3>2, <3>3, <3>4
  <2> QED BY <2>1
<1>5. iter = Def(iter)
  <2> HIDE DEF Def, sum
  <2> QED BY <1>4
<1>6. \A s \in SUBSET {1, 2} : iter[s] = IF s = {} THEN 0 ELSE g[first(s)] + iter[s \ {first(s)}]
  <2> HIDE DEF iter
  <2> QED BY <1>5
<1> HIDE DEF iter
<1>7. iter[{}] = 0
  BY <1>6
<1>8. iter[{1}] = g[1] /\ iter[{2}] = g[2]
  <2>1. {1} \ {1} = {} /\ {2} \ {2} = {} /\ {1} # {} /\ {2} # {}
    OBVIOUS
  <2>2. iter[{1}] = g[1] + iter[{}]
    BY <1>2, <1>6, <2>1
  <2>3. iter[{2}] = g[2] + iter[{}]
    BY <1>2, <1>6, <2>1
  <2> QED BY <1>7, <2>2, <2>3
<1>9. iter[{1, 2}] = g[1] + g[2]
  <2>1. {1, 2} \ {1} = {2} /\ {1, 2} \ {2} = {1} /\ {1, 2} # {}
    OBVIOUS
  <2>2. iter[{1, 2}] = g[first({1, 2})] + iter[{1, 2} \ {first({1, 2})}]
    BY <1>6, <2>1
  <2>3. g[2] + g[1] = g[1] + g[2]
    OBVIOUS
  <2>4. CASE first({1, 2}) = 1
    BY <1>8, <2>1, <2>2, <2>4
  <2>5. CASE first({1, 2}) = 2
    BY <1>8, <2>1, <2>2, <2>3, <2>5
  <2> QED BY <1>2, <2>4, <2>5
<1> QED BY <1>3, <1>9

(* Two atoms: their distances and penalties, and the two assignments.      *)
LEMMA TwoMembers ==
  ASSUME MatchingTypeOK, Cardinality(Members) = 2
  PROVE  /\ Members = {1, 2}
         /\ \A f \in Assignments : f \in [{1, 2} -> {1, 2}] /\ f[1] # f[2]
         /\ distance \in [{1, 2} -> [{1, 2} -> Nat]]
         /\ Penalties \in [{1, 2} -> [{1, 2} -> Nat]]
         /\ method = "greedy" => Penalties = distance
<1>1. PICK n \in Nat \ {0} : /\ Members = 1 .. n /\ Cardinality(Members) = n
                             /\ distance \in [Members -> [Members -> Nat]]
  BY MembersFacts
<1>2. Members = {1, 2}
  <2>1. n = 2 /\ 1 .. 2 = {1, 2}
    BY <1>1
  <2> QED BY <1>1, <2>1
<1>3. distance \in [{1, 2} -> [{1, 2} -> Nat]]
  BY <1>1, <1>2
<1>4. ASSUME NEW f \in Assignments
      PROVE  f \in [{1, 2} -> {1, 2}] /\ f[1] # f[2]
  BY <1>2 DEF Assignments, Bijection, Injection, IsInjective
<1>5. Penalties \in [{1, 2} -> [{1, 2} -> Nat]]
  <2> DEFINE pen(a, p) == IF Squared THEN distance[a][p] * distance[a][p] ELSE distance[a][p]
  <2>1. \A a, p \in {1, 2} : pen(a, p) \in Nat
    BY <1>3
  <2>2. Penalties = [a \in {1, 2} |-> [p \in {1, 2} |-> pen(a, p)]]
    BY <1>2 DEF Penalties
  <2> HIDE DEF pen
  <2> QED BY <2>1, <2>2
<1>6. ASSUME method = "greedy" PROVE Penalties = distance
  <2>1. Penalties = [a \in {1, 2} |-> [p \in {1, 2} |-> distance[a][p]]]
    BY <1>2, <1>6 DEF Penalties, Squared
  <2> QED BY <1>3, <2>1
<1> QED BY <1>2, <1>3, <1>4, <1>5, <1>6

(* The total of two.                                                       *)
LEMMA TotalOfTwo ==
  ASSUME MatchingTypeOK, Cardinality(Members) = 2,
         NEW f \in Assignments, NEW matrix \in [{1, 2} -> [{1, 2} -> Int]]
  PROVE  Total(f, matrix) = matrix[f[1]][1] + matrix[f[2]][2]
<1>1. Members = {1, 2} /\ f \in [{1, 2} -> {1, 2}]
  BY TwoMembers
<1> DEFINE g == [p \in Members |-> matrix[f[p]][p]]
<1>2. /\ g[1] \in Int /\ g[2] \in Int /\ DOMAIN g = {1, 2}
      /\ g[1] = matrix[f[1]][1] /\ g[2] = matrix[f[2]][2]
  BY <1>1
<1>3. Total(f, matrix) = SumOver(g)
  BY DEF Total, SumOver
<1>4. SumOver(g) = g[1] + g[2]
  <2> HIDE DEF g
  <2> QED BY <1>2, SumOfTwo
<1> QED BY <1>2, <1>3, <1>4

(* A cost, twice Scale times, is 200 times what is left to some number,    *)
(* give or take Scale.                                                     *)
LEMMA RoundedCosts ==
  ASSUME MatchingTypeOK, Cardinality(Members) = 2
  PROVE  /\ Scale \in Nat \ {0}
         /\ Submatrix \in [{1, 2} -> [{1, 2} -> Int]]
         /\ \E max \in Int : \A a, p \in {1, 2} :
              /\ 2 * Scale * Submatrix[a][p] <= 200 * (max - Penalties[a][p]) + Scale
              /\ 200 * (max - Penalties[a][p]) - Scale < 2 * Scale * Submatrix[a][p]
<1>1. Members = {1, 2} /\ Penalties \in [{1, 2} -> [{1, 2} -> Nat]]
  BY TwoMembers
<1>2. Scale \in Nat \ {0}
  <2>1. resolution \in Nat /\ resolution # 0
    BY MatchingAssumption DEF MatchingTypeOK
  <2>2. resolution * resolution \in Nat /\ resolution * resolution # 0
    BY <2>1
  <2> QED BY <2>1, <2>2 DEF Scale
<1> DEFINE all == {Penalties[a][p] : a, p \in Members}
           max == Max(all)
           x(a, p) == 200 * (max - Penalties[a][p]) + Scale
<1>3. max \in Int
  <2>1. /\ Penalties[1][1] \in Nat /\ Penalties[1][2] \in Nat
        /\ Penalties[2][1] \in Nat /\ Penalties[2][2] \in Nat
    BY <1>1
  <2>2. all = {Penalties[1][1], Penalties[1][2], Penalties[2][1], Penalties[2][2]}
    BY <1>1
  <2> HIDE DEF all
  <2>3. \E m \in all : \A y \in all : m >= y
    BY <2>1, <2>2
  <2>4. max \in all
    BY <2>3 DEF Max
  <2> QED BY <2>1, <2>2, <2>4
<1> HIDE DEF max
<1>4. ASSUME NEW a \in {1, 2}, NEW p \in {1, 2}
      PROVE  x(a, p) \in Int
  BY <1>1, <1>2, <1>3
<1>5. Submatrix = [a \in {1, 2} |-> [p \in {1, 2} |-> x(a, p) \div (2 * Scale)]]
  BY <1>1 DEF Submatrix, max
<1> HIDE DEF x
<1>6. \A z \in Int : /\ z \div (2 * Scale) \in Int
                     /\ 2 * Scale * (z \div (2 * Scale)) <= z
                     /\ z < 2 * Scale * (z \div (2 * Scale)) + 2 * Scale
  <2> DEFINE d == 2 * Scale
  <2>1. d \in Nat \ {0}
    BY <1>2
  <2> HIDE DEF d
  <2>2. \A z \in Int : z \div d \in Int /\ d * (z \div d) <= z /\ z < d * (z \div d) + d
    BY <2>1
  <2> QED BY <2>2 DEF d
<1>7. Submatrix \in [{1, 2} -> [{1, 2} -> Int]]
  BY <1>4, <1>5, <1>6
<1>8. ASSUME NEW a \in {1, 2}, NEW p \in {1, 2}
      PROVE  /\ 2 * Scale * Submatrix[a][p] <= 200 * (max - Penalties[a][p]) + Scale
             /\ 200 * (max - Penalties[a][p]) - Scale < 2 * Scale * Submatrix[a][p]
  <2> DEFINE q == x(a, p) \div (2 * Scale)
  <2>1. Submatrix[a][p] = q
    BY <1>5
  <2>2. x(a, p) \in Int /\ q \in Int /\ 2 * Scale * q <= x(a, p) /\ x(a, p) < 2 * Scale * q + 2 * Scale
    BY <1>4, <1>6
  <2> HIDE DEF q
  <2> DEFINE u == 2 * Scale * q
             v == 200 * (max - Penalties[a][p])
  <2>3. x(a, p) = v + Scale /\ v \in Int /\ u \in Int
    BY <1>1, <1>2, <1>3, <2>2 DEF x
  <2>4. u <= v + Scale /\ v + Scale < u + 2 * Scale
    BY <2>2, <2>3
  <2> HIDE DEF u, v
  <2>5. v - Scale < u
    BY <1>2, <2>3, <2>4
  <2> QED BY <2>1, <2>4, <2>5 DEF u, v
<1> QED BY <1>2, <1>3, <1>7, <1>8

(* By how much the total penalty of two atoms exceeds that of f.           *)
Movement(f) == Penalties[f[1]][1] + Penalties[f[2]][2]
Excess(g, f) == Movement(g) - Movement(f)

LeastMovement(g) ==
  \A f \in Assignments :
    IF method = "greedy" THEN Excess(g, f) <= 0 ELSE 100 * Excess(g, f) < 2 * Scale

LEMMA GreatestCost ==
  ASSUME MatchingTypeOK, Cardinality(Members) = 2, method # "greedy", NEW g \in Assignments,
         \A f \in Assignments : Total(f, Submatrix) <= Total(g, Submatrix)
  PROVE  LeastMovement(g)
<1> SUFFICES ASSUME NEW f \in Assignments PROVE 100 * Excess(g, f) < 2 * Scale
  BY DEF LeastMovement
<1> DEFINE C == Submatrix
           P == Penalties
<1>1. /\ f[1] \in {1, 2} /\ f[2] \in {1, 2} /\ g[1] \in {1, 2} /\ g[2] \in {1, 2}
      /\ P \in [{1, 2} -> [{1, 2} -> Int]] /\ C \in [{1, 2} -> [{1, 2} -> Int]]
      /\ Scale \in Nat \ {0}
  BY TwoMembers, RoundedCosts
<1>2. PICK max \in Int : \A a, p \in {1, 2} :
        /\ 2 * Scale * C[a][p] <= 200 * (max - P[a][p]) + Scale
        /\ 200 * (max - P[a][p]) - Scale < 2 * Scale * C[a][p]
  BY RoundedCosts
<1> HIDE DEF C, P
<1> DEFINE cf1 == C[f[1]][1]
           cf2 == C[f[2]][2]
           cg1 == C[g[1]][1]
           cg2 == C[g[2]][2]
           pf1 == P[f[1]][1]
           pf2 == P[f[2]][2]
           pg1 == P[g[1]][1]
           pg2 == P[g[2]][2]
<1>3. /\ cf1 \in Int /\ cf2 \in Int /\ cg1 \in Int /\ cg2 \in Int
      /\ pf1 \in Int /\ pf2 \in Int /\ pg1 \in Int /\ pg2 \in Int
  BY <1>1
<1>4. cf1 + cf2 <= cg1 + cg2
  BY <1>1, TotalOfTwo DEF C
<1>5. /\ 200 * (max - pf1) - Scale < 2 * Scale * cf1 /\ 200 * (max - pf2) - Scale < 2 * Scale * cf2
      /\ 2 * Scale * cg1 <= 200 * (max - pg1) + Scale /\ 2 * Scale * cg2 <= 200 * (max - pg2) + Scale
  BY <1>1, <1>2
<1>6. Excess(g, f) = (pg1 + pg2) - (pf1 + pf2)
  <2>1. Movement(g) = pg1 + pg2 /\ Movement(f) = pf1 + pf2
    BY DEF P, Movement
  <2> QED BY <2>1 DEF Excess
<1> HIDE DEF cf1, cf2, cg1, cg2, pf1, pf2, pg1, pg2
<1>7. 2 * Scale * cf1 + 2 * Scale * cf2 <= 2 * Scale * cg1 + 2 * Scale * cg2
  <2>1. 2 * Scale * (cf1 + cf2) <= 2 * Scale * (cg1 + cg2)
    BY <1>1, <1>3, <1>4
  <2>2. /\ 2 * Scale * (cf1 + cf2) = 2 * Scale * cf1 + 2 * Scale * cf2
        /\ 2 * Scale * (cg1 + cg2) = 2 * Scale * cg1 + 2 * Scale * cg2
    BY <1>1, <1>3
  <2> QED BY <2>1, <2>2
<1> DEFINE F1 == 2 * Scale * cf1
           F2 == 2 * Scale * cf2
           G1 == 2 * Scale * cg1
           G2 == 2 * Scale * cg2
<1>8. F1 \in Int /\ F2 \in Int /\ G1 \in Int /\ G2 \in Int
  BY <1>1, <1>3
<1>9. /\ 200 * (max - pf1) - Scale < F1 /\ 200 * (max - pf2) - Scale < F2
      /\ G1 <= 200 * (max - pg1) + Scale /\ G2 <= 200 * (max - pg2) + Scale
      /\ F1 + F2 <= G1 + G2
  BY <1>5, <1>7
<1> HIDE DEF F1, F2, G1, G2
<1>10. 100 * ((pg1 + pg2) - (pf1 + pf2)) < 2 * Scale
  BY <1>1, <1>3, <1>8, <1>9
<1> QED BY <1>6, <1>10

TwoInv ==
  Cardinality(Members) = 2 =>
    ~conflict /\ (atom \notin Members => LeastMovement(occupied))

(* The assignment that puts atom 1 at position x and atom 2 at y is the    *)
(* better one of two.                                                      *)
LEMMA BetterOfTwo ==
  ASSUME MatchingTypeOK, Cardinality(Members) = 2, method = "greedy",
         NEW g, NEW x \in {1, 2}, NEW y \in {1, 2}, x # y,
         g[x] = 1, g[y] = 2,
         distance[1][x] + distance[2][y] <= distance[1][y] + distance[2][x]
  PROVE  LeastMovement(g)
<1>1. /\ Members = {1, 2} /\ Penalties = distance
      /\ distance \in [{1, 2} -> [{1, 2} -> Nat]] /\ distance \in [{1, 2} -> [{1, 2} -> Int]]
  BY TwoMembers
<1> SUFFICES ASSUME NEW f \in Assignments PROVE Excess(g, f) <= 0
  BY DEF LeastMovement
<1>2. f[1] \in {1, 2} /\ f[2] \in {1, 2} /\ f[1] # f[2]
  BY TwoMembers
<1>3. /\ Movement(g) = distance[g[1]][1] + distance[g[2]][2]
      /\ Movement(f) = distance[f[1]][1] + distance[f[2]][2]
  BY <1>1 DEF Movement
<1>4. /\ distance[1][1] \in Nat /\ distance[1][2] \in Nat
      /\ distance[2][1] \in Nat /\ distance[2][2] \in Nat
  BY <1>1
<1>5. CASE x = 1
  BY <1>2, <1>3, <1>4, <1>5 DEF Excess
<1>6. CASE x = 2
  BY <1>2, <1>3, <1>4, <1>6 DEF Excess
<1> QED BY <1>5, <1>6

(* When the second of two atoms is dealt with, the first is at its nearest *)
(* position, and nothing but that is taken.                                *)
LEMMA SecondTurn ==
  ASSUME MatchingInv, Looping, Cardinality(Members) = 2, atom = 2
  PROVE  \E x, y \in {1, 2} :
           /\ x # y /\ x = Nearest(1, 0) /\ occupied[x] = 1 /\ occupied[y] = 0 /\ switch[1] = x
           /\ distance[1][x] <= distance[1][y]
<1>1. MatchingTypeOK /\ Inverses /\ Wishes
  BY DEF MatchingInv, Looping
<1>2. Members = {1, 2} /\ distance \in [{1, 2} -> [{1, 2} -> Nat]]
  BY <1>1, TwoMembers
<1>3. occupied \in [{1, 2} -> {0, 1, 2}]
  <2>1. {1, 2} \union {0} = {0, 1, 2}
    OBVIOUS
  <2> QED BY <1>1, <1>2, <2>1 DEF MatchingTypeOK
<1> DEFINE x == Nearest(1, 0)
           y == IF x = 1 THEN 2 ELSE 1
<1>4. x \in {1, 2} /\ \A q \in {1, 2} : distance[1][x] <= distance[1][q]
  <2>1. Members \ {0} = {1, 2}
    BY <1>2
  <2> QED BY <1>1, <1>2, <2>1, NearestFacts
<1>5. 1 < atom /\ \A p \in {1, 2} : occupied[p] # 0 => occupied[p] = 1 /\ switch[1] = p
  BY <1>1, <1>2, <1>3 DEF Inverses
<1>6. occupied[x] # 0
  BY <1>1, <1>2, <1>5 DEF Wishes
<1> HIDE DEF x
<1>7. y \in {1, 2} /\ x # y /\ occupied[x] = 1 /\ switch[1] = x /\ occupied[y] = 0
  BY <1>4, <1>5, <1>6
<1>8. distance[1][x] <= distance[1][y]
  BY <1>4, <1>7
<1> HIDE DEF y
<1> QED BY <1>4, <1>7, <1>8 DEF x

LEMMA TwoStep == MatchingInv /\ TwoInv /\ [MatchingNext]_matchingVars => TwoInv'
<1> SUFFICES ASSUME MatchingInv, TwoInv, [MatchingNext]_matchingVars,
                    Cardinality(Members') = 2
             PROVE  ~conflict' /\ (atom' \notin Members' => LeastMovement(occupied)')
  BY DEF TwoInv
<1>1. /\ MatchingTypeOK /\ distance' = distance /\ method' = method
      /\ resolution' = resolution
  BY DEF MatchingInv, MatchingNext, TakeWanted, MoveThis, MovePrevious, GiveUp, AssignHungarian,
         NextAtom, matchingVars
<1>2. Members' = Members
  BY <1>1, NearestUnchanged
<1>3. /\ Cardinality(Members) = 2 /\ Members = {1, 2}
      /\ distance \in [{1, 2} -> [{1, 2} -> Nat]]
      /\ ~conflict /\ (atom \notin Members => LeastMovement(occupied))
  BY <1>1, <1>2, TwoMembers DEF TwoInv
<1>4. Assignments' = Assignments
  BY <1>2 DEF Assignments
<1>5. LeastMovement(occupied') => LeastMovement(occupied)'
  <2>1. Scale' = Scale
    BY <1>1 DEF Scale, Squared
  <2>2. Penalties' = Penalties
    BY <1>1, <1>2, Zenon DEF Penalties, Squared
  <2>3. ASSUME NEW f PROVE Excess(occupied, f)' = Excess(occupied', f)
    BY <2>2 DEF Excess, Movement
  <2>4. LeastMovement(occupied)' =
          \A f \in Assignments :
            IF method = "greedy" THEN Excess(occupied, f)' <= 0 ELSE 100 * Excess(occupied, f)' < 2 * Scale
    BY <1>1, <1>4, <2>1 DEF LeastMovement
  <2> QED BY <2>3, <2>4 DEF LeastMovement
<1>6. ASSUME Looping, atom = 1, TakeWanted \/ MoveThis \/ MovePrevious
      PROVE  ~conflict' /\ atom' \in Members
  BY <1>3, <1>6 DEF TakeWanted, MoveThis, MovePrevious, NextAtom
<1>7. ASSUME Looping, atom = 2
      PROVE  ~GiveUp /\ (TakeWanted \/ MoveThis \/ MovePrevious =>
                           ~conflict' /\ LeastMovement(occupied'))
  <2>1. PICK x \in {1, 2}, y \in {1, 2} :
           /\ x # y /\ x = Nearest(1, 0) /\ occupied[x] = 1 /\ occupied[y] = 0 /\ switch[1] = x
           /\ distance[1][x] <= distance[1][y]
    BY <1>3, <1>7, SecondTurn
  <2>2. /\ occupied \in [{1, 2} -> {0, 1, 2}]
        /\ distance[1][x] \in Nat /\ distance[1][y] \in Nat
        /\ distance[2][x] \in Nat /\ distance[2][y] \in Nat
    <3>1. {1, 2} \union {0} = {0, 1, 2}
      OBVIOUS
    <3> QED BY <1>1, <1>3, <3>1 DEF MatchingTypeOK
  <2>3. Wanted \in {1, 2} /\ \A q \in {1, 2} : distance[2][Wanted] <= distance[2][q]
    <3>1. Members \ {0} = {1, 2} /\ 2 \in Members
      BY <1>3
    <3> QED BY <1>1, <1>3, <1>7, <3>1, NearestFacts DEF Wanted
  <2>4. ASSUME Previous # 0
        PROVE  /\ Previous = 1 /\ Wanted = x /\ AltThis = y /\ AltPrevious = y
               /\ AltThisAllowed /\ AltPreviousAllowed /\ minDist[1] = distance[1][x]
    <3>1. Previous = 1 /\ Wanted = x
      BY <2>1, <2>3, <2>4 DEF Previous
    <3>2. AltThis = y /\ AltPrevious = y
      BY <1>3, <1>7, <2>1, <2>4, <3>1, TurnFacts
    <3>3. minDist[1] = distance[1][x]
      BY <1>3, <1>7, <2>1 DEF MatchingInv, Looping, Wishes
    <3> QED BY <2>1, <3>1, <3>2, <3>3 DEF AltThisAllowed, AltPreviousAllowed
  <2>5. ~GiveUp
    BY <2>4 DEF GiveUp
  <2>6. ASSUME TakeWanted PROVE LeastMovement(occupied')
    <3>1. Wanted = y /\ occupied' = [occupied EXCEPT ![y] = 2]
      BY <1>7, <2>1, <2>3, <2>6 DEF TakeWanted, Previous
    <3>2. occupied'[x] = 1 /\ occupied'[y] = 2
      BY <2>1, <2>2, <3>1
    <3>3. distance[1][x] + distance[2][y] <= distance[1][y] + distance[2][x]
      BY <2>1, <2>2, <2>3, <3>1
    <3> QED BY <1>1, <1>3, <1>7, <2>1, <3>2, <3>3, BetterOfTwo DEF Looping
  <2>7. ASSUME MoveThis \/ MovePrevious PROVE LeastMovement(occupied')
    <3>1. Previous # 0
      BY <2>7 DEF MoveThis, MovePrevious
    <3> DEFINE p == distance[1][y] - distance[1][x]
               t == distance[2][y] - distance[2][x]
    <3>2. p \in Nat /\ t \in Nat /\ PreviousDelta = p /\ ThisDelta = t
      <4>1. p \in Nat /\ t \in Nat
        BY <2>1, <2>2, <2>3, <2>4, <3>1
      <4>2. PreviousDelta = Magnitude(p) /\ ThisDelta = Magnitude(t)
        BY <1>7, <2>4, <3>1 DEF PreviousDelta, ThisDelta
      <4> HIDE DEF p, t
      <4> QED BY <4>1, <4>2 DEF Magnitude
    <3>3. CASE MovePrevious
      <4>1. p < t
        BY <2>4, <3>1, <3>2, <3>3 DEF MovePrevious, PreviousGivesWay
      <4>2. occupied' = [occupied EXCEPT ![y] = 1, ![x] = 2]
        BY <1>7, <2>4, <3>1, <3>3 DEF MovePrevious
      <4>3. occupied'[y] = 1 /\ occupied'[x] = 2
        BY <2>1, <2>2, <4>2
      <4>4. distance[1][y] + distance[2][x] <= distance[1][x] + distance[2][y]
        BY <2>2, <4>1
      <4> QED BY <1>1, <1>3, <1>7, <2>1, <4>3, <4>4, BetterOfTwo DEF Looping
    <3>4. CASE MoveThis
      <4>1. ~(p < t)
        BY <2>4, <3>1, <3>2, <3>4 DEF MoveThis, PreviousGivesWay
      <4>2. occupied' = [occupied EXCEPT ![y] = 2]
        BY <1>7, <2>4, <3>1, <3>4 DEF MoveThis
      <4>3. occupied'[y] = 2 /\ occupied'[x] = 1
        BY <2>1, <2>2, <4>2
      <4>4. distance[1][x] + distance[2][y] <= distance[1][y] + distance[2][x]
        BY <2>2, <4>1
      <4> QED BY <1>1, <1>3, <1>7, <2>1, <4>3, <4>4, BetterOfTwo DEF Looping
    <3> QED BY <2>7, <3>3, <3>4
  <2>8. TakeWanted \/ MoveThis \/ MovePrevious => ~conflict'
    BY <1>3 DEF TakeWanted, MoveThis, MovePrevious, NextAtom
  <2> QED BY <2>5, <2>6, <2>7, <2>8
<1>8. CASE TakeWanted \/ MoveThis \/ MovePrevious
  <2>1. Looping /\ (atom = 1 \/ atom = 2)
    BY <1>3, <1>8 DEF TakeWanted, MoveThis, MovePrevious, Looping
  <2> QED BY <1>2, <1>5, <1>6, <1>7, <1>8, <2>1
<1>9. CASE GiveUp
  <2>1. Looping /\ (atom = 1 \/ atom = 2)
    BY <1>3, <1>9 DEF GiveUp, Looping
  <2>2. atom # 1
    <3>1. atom = 1 => Previous = 0
      <4> SUFFICES ASSUME atom = 1, Previous # 0 PROVE FALSE
        OBVIOUS
      <4>1. Previous \in {1, 2} /\ Previous < 1
        BY <1>3, <2>1, TurnFacts
      <4> QED BY <4>1
    <3> QED BY <1>9, <3>1 DEF GiveUp
  <2> QED BY <1>7, <1>9, <2>1, <2>2
<1>10. CASE AssignHungarian
  <2>1. /\ conflict' = conflict /\ method # "greedy" /\ occupied' \in Assignments
        /\ \A f \in Assignments : Total(f, Submatrix) <= Total(occupied', Submatrix)
    BY <1>10 DEF AssignHungarian
  <2>2. LeastMovement(occupied')
    BY <1>1, <1>3, <2>1, GreatestCost
  <2> QED BY <1>3, <1>5, <2>1, <2>2
<1>11. CASE UNCHANGED matchingVars
  BY <1>2, <1>3, <1>5, <1>11 DEF matchingVars
<1> QED BY <1>8, <1>9, <1>10, <1>11 DEF MatchingNext

(* Two atoms never give up.  The loop moves them as little together as any *)
(* assignment would; the Hungarian method rounds the costs to hundredths,  *)
(* and so is within two of them of the least penalty                       *)
(* (actiontmsdfollow.cpp:73, 168-185).                                     *)
THEOREM TwoMovedLeast == MatchingSpec => []TwoAtomsMoveLeast
<1>1. MatchingInit => TwoInv
  <2> SUFFICES ASSUME MatchingInit PROVE TwoInv
    OBVIOUS
  <2>1. ~conflict /\ atom = 1 /\ MatchingTypeOK
    BY MatchingInvInit DEF MatchingInit, MatchingInv
  <2>2. Cardinality(Members) = 2 => atom \in Members
    BY <2>1, TwoMembers
  <2> QED BY <2>1, <2>2 DEF TwoInv
<1>2. MatchingInv /\ TwoInv => TwoAtomsMoveLeast
  <2> SUFFICES ASSUME MatchingInv, TwoInv, Cardinality(Members) = 2, atom \notin Members,
                      NEW f \in Assignments
               PROVE  Total(occupied, Penalties) - Total(f, Penalties) = Excess(occupied, f)
    BY DEF TwoInv, LeastMovement, TwoAtomsMoveLeast
  <2>1. MatchingTypeOK /\ occupied \in Assignments
    BY AllFollowed DEF MatchingInv
  <2>2. Penalties \in [{1, 2} -> [{1, 2} -> Int]]
    BY <2>1, TwoMembers
  <2> QED BY <2>1, <2>2, TotalOfTwo DEF Excess, Movement
<1> QED BY MatchingInvariance, TwoStep, <1>1, <1>2, PTL DEF MatchingSpec
=============================================================================
