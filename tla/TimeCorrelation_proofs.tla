----------------------- MODULE TimeCorrelation_proofs -----------------------
(***************************************************************************)
(* Proofs about the time correlation functions.  First ActionTTCF, for     *)
(* every MaxTime, TidyOld, trajectory length and correlation frequency:    *)
(* type correctness without further assumptions, and, when ParentGroup     *)
(* never shrinks below the followed position, that every time origin is    *)
(* counted exactly once.  Then CorrelateFromOldIndex, for every window,    *)
(* every list of conditions and all flags: what one time origin adds to    *)
(* the correlation function; its specification is OriginSpec.              *)
(***************************************************************************)
EXTENDS ActionTTCF, CorrelateFromOldIndex, TTCF_proofs

USE DEF window

(* What correlate() leaves is well typed if what it was given is.          *)
LEMMA CorrelateTyped ==
  ASSUME TypeOK, NEW data \in Seq(Frames), NEW bools \in Seq(Frames),
         NEW n, NEW j \in Int, Correlate(data, bools, n, j)
  PROVE  /\ inData1' \in Seq(Frames)
         /\ boolInfo' \in Seq(Frames)
         /\ outData' \in [Lags -> [Frames -> Nat]]
  BY TidiedTyped, CountsTyped DEF Correlate, TypeOK

(* The loop variable of the final loop stays inside the loop's range.      *)
FinalLagInRange == phase = "final" => finalLag \in 0 .. MaxTime - 2

(* Type correctness, inductive once the loop variable's range is known.    *)
TypeInv == TypeOK /\ FinalLagInRange

LEMMA TypeInit == Init => TypeInv
<1> SUFFICES ASSUME Init PROVE TypeInv
  OBVIOUS
<1>1. outData \in [Lags -> [Frames -> Nat]]
  BY DEF Init, NoCounts
<1>2. inData1 \in Seq(Frames) /\ boolInfo \in Seq(Frames)
  BY DEF Init
<1>3. /\ mCount \in 0 .. NumFrames /\ joined \in 0 .. NumFrames
      /\ finalLag \in -1 .. MaxTime - 1
  BY MaxTimeAssumption, NumFramesAssumption DEF Init
<1>4. phase = "running" /\ present \in BOOLEAN
  BY DEF Init
<1> QED BY <1>1, <1>2, <1>3, <1>4 DEF TypeInv, TypeOK, FinalLagInRange

LEMMA TypeStep == TypeInv /\ [Next]_vars => TypeInv'
<1> SUFFICES ASSUME TypeInv, [Next]_vars PROVE TypeInv'
  OBVIOUS
<1>0. TypeOK /\ FinalLagInRange
  BY DEF TypeInv
<1>1. CASE ProcessFrame
  <2>1. /\ mCount' \in 1 .. NumFrames /\ mCount' \in Frames
        /\ phase' = "running" /\ finalLag' = finalLag
    BY <1>0, <1>1, NumFramesAssumption DEF ProcessFrame, TypeOK, Frames
  <2>2. CASE StoreFrame
    <3> DEFINE data  == Append(inData1, mCount')
               bools == Append(boolInfo, mCount')
    <3>1. data \in Seq(Frames) /\ bools \in Seq(Frames)
      BY <1>0, <2>1 DEF TypeOK
    <3>2. joined' \in 0 .. NumFrames /\ present' \in BOOLEAN
      BY <1>0, <2>1, <2>2, NumFramesAssumption DEF StoreFrame, TypeOK
    <3>3. Correlate(data, bools, CorrelationFrequency, -1) \/ KeepWindow(data, bools)
      BY <2>2 DEF StoreFrame
    <3> HIDE DEF data, bools
    <3>4. /\ inData1' \in Seq(Frames) /\ boolInfo' \in Seq(Frames)
          /\ outData' \in [Lags -> [Frames -> Nat]]
      <4>1. CASE Correlate(data, bools, CorrelationFrequency, -1)
        BY <1>0, <3>1, <4>1, CorrelateTyped
      <4>2. CASE KeepWindow(data, bools)
        BY <1>0, <3>1, <4>2 DEF KeepWindow, TypeOK
      <4> QED BY <3>3, <4>1, <4>2
    <3> QED BY <1>0, <2>1, <3>2, <3>4 DEF TypeInv, TypeOK, FinalLagInRange
  <2>3. CASE MissFrame
    <3>1. /\ present' \in BOOLEAN
          /\ UNCHANGED <<joined, inData1, boolInfo, outData>>
      BY <2>3 DEF MissFrame
    <3>2. mCount' \in 0 .. NumFrames
      BY <2>1, NumFramesAssumption
    <3> QED BY <1>0, <2>1, <3>1, <3>2 DEF TypeInv, TypeOK, FinalLagInRange
  <2> QED BY <1>1, <2>2, <2>3 DEF ProcessFrame
<1>2. CASE EndOfTrajectory
  <2> DEFINE n == mCount % CorrelationFrequency
  <2>1. Correlate(inData1, boolInfo, n, -1) \/ UNCHANGED window
    BY <1>2 DEF EndOfTrajectory
  <2> HIDE DEF n
  <2>2. /\ inData1' \in Seq(Frames) /\ boolInfo' \in Seq(Frames)
        /\ outData' \in [Lags -> [Frames -> Nat]]
    <3>1. CASE Correlate(inData1, boolInfo, n, -1)
      <4>1. inData1 \in Seq(Frames) /\ boolInfo \in Seq(Frames)
        BY <1>0 DEF TypeOK
      <4> QED BY <1>0, <3>1, <4>1, CorrelateTyped
    <3>2. CASE UNCHANGED window
      BY <1>0, <3>2 DEF TypeOK
    <3> QED BY <2>1, <3>1, <3>2
  <2>3. /\ phase' \in {"final", "done"} /\ (phase' = "final" => MaxTime > 1)
        /\ finalLag' = MaxTime - 2
        /\ UNCHANGED <<mCount, joined, present>>
    BY <1>2 DEF EndOfTrajectory
  <2> QED BY <1>0, <2>2, <2>3, MaxTimeAssumption DEF TypeInv, TypeOK, FinalLagInRange
<1>3. CASE FinalCorrelate
  <2>1. phase = "final" /\ finalLag \in 0 .. MaxTime - 2
    BY <1>0, <1>3 DEF FinalCorrelate, FinalLagInRange
  <2>2. /\ inData1' \in Seq(Frames) /\ boolInfo' \in Seq(Frames)
        /\ outData' \in [Lags -> [Frames -> Nat]]
    <3>1. inData1 \in Seq(Frames) /\ boolInfo \in Seq(Frames)
      BY <1>0 DEF TypeOK
    <3>2. Correlate(inData1, boolInfo, 1, finalLag) /\ finalLag \in Int
      BY <1>3, <2>1 DEF FinalCorrelate
    <3> QED BY <1>0, <3>1, <3>2, CorrelateTyped
  <2>3. /\ finalLag' = finalLag - 1
        /\ phase' = IF finalLag = 0 THEN "done" ELSE "final"
        /\ UNCHANGED <<mCount, joined, present>>
    BY <1>3 DEF FinalCorrelate
  <2> QED BY <1>0, <2>1, <2>2, <2>3, MaxTimeAssumption
          DEF TypeInv, TypeOK, FinalLagInRange
<1>4. CASE UNCHANGED vars
  BY <1>0, <1>4 DEF vars, TypeInv, TypeOK, FinalLagInRange
<1> QED BY <1>1, <1>2, <1>3, <1>4 DEF Next

(* Every reachable state is well typed, whether or not members leave the   *)
(* group: frame numbers, counters and window stay in their ranges through  *)
(* every frame, the end of the trajectory and the final loop.              *)
THEOREM TypeCorrect == Spec => []TypeOK
<1>1. TypeInv => TypeOK
  BY DEF TypeInv
<1> QED BY TypeInit, TypeStep, <1>1, PTL DEF Spec

-----------------------------------------------------------------------------
(* The frame up to which the window's obligations are settled.             *)
SettledTo == IF phase = "running" THEN LastCorrelation ELSE mCount

(* The window: consecutive frames with their flags, that end with the last *)
(* frame and reach back as far as the counting still needs.                *)
WindowInv ==
  /\ LagIsTimeDifference
  /\ FlagsAligned
  /\ present <=> joined # 0
  /\ joined = 0 => inData1 = <<>> /\ outData = NoCounts /\ phase # "final"
  /\ joined > 0 => ReachesBack(Len(inData1), mCount, joined, SettledTo)

(* The counters, in each phase.                                            *)
CountsInv ==
  joined > 0 =>
    /\ phase = "running" =>
         CountedThrough(outData, joined, LastCorrelation - MaxTime + 1)
    /\ phase = "final" =>
         /\ UseAllTimeOrigins
         /\ Item = 0 =>
              CountedAsFarAs(outData, joined, mCount - finalLag - 1, mCount)
    /\ phase = "done" /\ Item = 0 => FinalCountsExact

IInv == TypeInv /\ WindowInv /\ CountsInv

LEMMA InvInit == Init => IInv
<1> SUFFICES ASSUME Init PROVE IInv
  OBVIOUS
<1>1. TypeInv
  BY TypeInit
<1>2. inData1 = <<>> /\ boolInfo = <<>> /\ joined = 0 /\ present = FALSE
      /\ outData = NoCounts /\ phase = "running" /\ mCount = 0
  BY DEF Init
<1>3. Len(inData1) = 0
  BY <1>2
<1>4. LagIsTimeDifference
  BY <1>3 DEF LagIsTimeDifference
<1>5. WindowInv
  BY <1>2, <1>4 DEF WindowInv, FlagsAligned
<1> QED BY <1>1, <1>2, <1>5 DEF IInv, CountsInv

(* What the invariant says of a window that exists.                        *)
LEMMA WindowFacts ==
  ASSUME IInv
  PROVE  /\ mCount \in Nat /\ joined \in Nat
         /\ inData1 \in Seq(Frames) /\ boolInfo = inData1
         /\ outData \in [Lags -> [Frames -> Nat]]
         /\ Consecutive(inData1, mCount)
         /\ LastCorrelation \in 0 .. mCount
         /\ joined > 0 => ReachesBack(Len(inData1), mCount, joined, SettledTo)
<1>1. TypeOK
  BY DEF IInv, TypeInv
<1>2. mCount % CorrelationFrequency \in 0 .. mCount
  <2>1. mCount \in Nat
    BY <1>1, NumFramesAssumption DEF TypeOK
  <2> QED BY <2>1, CorrelationFrequencyAssumption, ModBounds
<1> QED BY <1>1, <1>2, NumFramesAssumption
        DEF IInv, TypeOK, WindowInv, LagIsTimeDifference, FlagsAligned,
            Consecutive, LastCorrelation

(* The window with one more frame, and the first frame of the followed     *)
(* member, which is this one when the member has just appeared.            *)
NewWindow  == Append(inData1, mCount + 1)
FirstFrame == IF joined = 0 THEN mCount + 1 ELSE joined

(* What a correlation finds when it is called on a stored frame.           *)
LEMMA StoredWindow ==
  ASSUME IInv, ProcessFrame, StoreFrame
  PROVE  /\ phase = "running" /\ phase' = "running" /\ mCount' = mCount + 1
         /\ mCount + 1 \in Frames /\ mCount + 1 \in Nat \ {0} /\ mCount \in Nat
         /\ joined' = FirstFrame /\ present' = TRUE
         /\ FirstFrame \in Nat \ {0} /\ FirstFrame <= mCount + 1
         /\ NewWindow \in Seq(Frames) /\ Consecutive(NewWindow, mCount + 1)
         /\ ReachesBack(Len(NewWindow), mCount + 1, FirstFrame, LastCorrelation)
         /\ CountedThrough(outData, FirstFrame, LastCorrelation - MaxTime + 1)
<1> DEFINE m     == mCount + 1
           data  == Append(inData1, m)
           first == IF joined = 0 THEN m ELSE joined
<1>1. /\ phase = "running" /\ phase' = "running" /\ mCount' = m
      /\ m \in Frames /\ m \in Nat \ {0} /\ mCount \in Nat
  BY NumFramesAssumption DEF ProcessFrame, IInv, TypeInv, TypeOK, Frames
<1>2. joined' = first /\ present' = TRUE /\ first \in Nat \ {0} /\ first <= m
  <2>1. joined' = first /\ present' = TRUE
    BY <1>1 DEF StoreFrame
  <2>2. CASE joined = 0
    BY <1>1, <2>1, <2>2
  <2>3. CASE joined # 0
    <3>1. joined \in Nat /\ ReachesBack(Len(inData1), mCount, joined, SettledTo)
      BY <2>3, WindowFacts
    <3>2. Len(inData1) \in Nat
      BY WindowFacts
    <3>3. joined <= m
      BY <1>1, <3>1, <3>2 DEF ReachesBack
    <3> QED BY <2>1, <2>3, <3>1, <3>3
  <2> QED BY <2>2, <2>3
<1>3. data \in Seq(Frames) /\ Len(data) = Len(inData1) + 1 /\ Consecutive(data, m)
  BY <1>1, WindowFacts, AppendFrame
<1>4. ReachesBack(Len(data), m, first, LastCorrelation)
  <2>1. CASE joined = 0
    <3>1. Len(data) = 1
      BY <1>3, <2>1 DEF IInv, WindowInv
    <3> QED BY <1>1, <2>1, <3>1 DEF ReachesBack
  <2>2. CASE joined # 0
    <3>1. ReachesBack(Len(inData1), mCount, joined, LastCorrelation)
      BY <1>1, <2>2, WindowFacts DEF SettledTo
    <3>2. Len(inData1) \in Nat
      BY WindowFacts
    <3> QED BY <1>1, <1>3, <2>2, <3>1, <3>2, WindowFacts, MaxTimeAssumption
            DEF ReachesBack
  <2> QED BY <2>1, <2>2
<1>5. CountedThrough(outData, first, LastCorrelation - MaxTime + 1)
  <2>1. CASE joined = 0
    <3>1. outData = NoCounts
      BY <2>1 DEF IInv, WindowInv
    <3>2. LastCorrelation - MaxTime + 1 < m
      BY <1>1, WindowFacts, MaxTimeAssumption
    <3>3. ASSUME NEW lag \in Lags, NEW o \in Frames
          PROVE  outData[lag][o] =
                   IF o >= m /\ o <= LastCorrelation - MaxTime + 1 THEN 1 ELSE 0
      BY <1>1, <3>1, <3>2, WindowFacts, MaxTimeAssumption DEF NoCounts, Frames
    <3> QED BY <2>1, <3>3 DEF CountedThrough
  <2>2. CASE joined # 0
    BY <1>1, <2>2, WindowFacts DEF IInv, CountsInv
  <2> QED BY <2>1, <2>2
<1>6. data = NewWindow /\ first = FirstFrame
  BY DEF NewWindow, FirstFrame
<1> HIDE DEF data, first
<1> QED BY <1>1, <1>2, <1>3, <1>4, <1>5, <1>6

(* The last frame at which a correlation was due, one frame later.         *)
LEMMA NextCorrelation ==
  ASSUME IInv, mCount' = mCount + 1
  PROVE  /\ mCount' % CorrelationFrequency = 0 =>
              /\ LastCorrelation = mCount' - CorrelationFrequency
              /\ LastCorrelation' = mCount'
         /\ mCount' % CorrelationFrequency # 0 => LastCorrelation' = LastCorrelation
<1> DEFINE f == CorrelationFrequency
<1>1. mCount \in Nat /\ f \in Nat \ {0}
  BY WindowFacts, CorrelationFrequencyAssumption
<1>2. mCount' % f = IF mCount % f = f - 1 THEN 0 ELSE (mCount % f) + 1
  BY <1>1, ModSuccessor
<1>3. mCount % f \in Nat
  BY <1>1, ModBounds
<1> QED BY <1>1, <1>2, <1>3 DEF LastCorrelation

(* A frame at which position i is in the group.                            *)
LEMMA StoreStep ==
  ASSUME IInv, ProcessFrame, StoreFrame
  PROVE  WindowInv' /\ CountsInv'
<1> DEFINE m == mCount'
           f == CorrelationFrequency
<1>0. m = mCount + 1
  BY StoredWindow
<1>1. \/ m % f = 0 /\ Correlate(NewWindow, NewWindow, f, -1)
      \/ m % f # 0 /\ KeepWindow(NewWindow, NewWindow)
  BY StoredWindow, WindowFacts DEF StoreFrame, CorrelationDue, NewWindow
<1>2. LastCorrelation \in Int /\ LastCorrelation <= m
  BY StoredWindow, WindowFacts
<1>3. CASE m % f = 0 /\ Correlate(NewWindow, NewWindow, f, -1)
  <2>1. LastCorrelation = m - f /\ LastCorrelation' = m
    BY <1>0, <1>3, NextCorrelation
  <2>2. /\ outData' = CorrelatedOut(NewWindow, outData, f, -1)
        /\ inData1' = TidiedAfter(NewWindow, NewWindow, -1)
        /\ boolInfo' = inData1'
    BY <1>3 DEF Correlate
  <2>3. /\ inData1' \in Seq(Frames) /\ Consecutive(inData1', m)
        /\ ReachesBack(Len(inData1'), m, FirstFrame, m)
    BY <1>2, <2>2, StoredWindow, TidiedReachesBack
  <2>4. CountedThrough(outData', FirstFrame, m - MaxTime + 1)
    BY <2>1, <2>2, StoredWindow, WindowFacts, ScheduledCounts,
       CorrelationFrequencyAssumption
  <2>5. WindowInv'
    BY <2>1, <2>2, <2>3, StoredWindow
       DEF WindowInv, LagIsTimeDifference, FlagsAligned, SettledTo, Consecutive
  <2> QED BY <2>1, <2>4, <2>5, StoredWindow DEF CountsInv
<1>4. CASE m % f # 0 /\ KeepWindow(NewWindow, NewWindow)
  <2>1. LastCorrelation' = LastCorrelation
    BY <1>0, <1>4, NextCorrelation
  <2>2. inData1' = NewWindow /\ boolInfo' = NewWindow /\ outData' = outData
    BY <1>4 DEF KeepWindow
  <2>3. WindowInv'
    BY <2>1, <2>2, StoredWindow
       DEF WindowInv, LagIsTimeDifference, FlagsAligned, SettledTo, Consecutive
  <2> QED BY <2>1, <2>2, <2>3, StoredWindow DEF CountsInv
<1> QED BY <1>1, <1>3, <1>4

(* A frame on which the followed TTCF does not exist yet.                  *)
LEMMA MissStep ==
  ASSUME ~MembersMayLeave, IInv, ProcessFrame, MissFrame
  PROVE  WindowInv' /\ CountsInv'
<1>1. /\ joined = 0 /\ joined' = 0 /\ present' = FALSE
      /\ inData1' = inData1 /\ boolInfo' = boolInfo /\ outData' = outData
  BY DEF MissFrame
<1>2. phase' = "running"
  BY DEF ProcessFrame
<1>3. inData1 = <<>> /\ boolInfo = <<>> /\ outData = NoCounts /\ Len(inData1) = 0
  BY <1>1 DEF IInv, WindowInv, FlagsAligned
<1>4. LagIsTimeDifference' /\ FlagsAligned'
  BY <1>1, <1>3 DEF LagIsTimeDifference, FlagsAligned
<1> QED BY <1>1, <1>2, <1>3, <1>4 DEF WindowInv, CountsInv

(* Once counted through the last origin with all its frames, an origin is  *)
(* counted at every lag exactly when its last frame exists.                *)
LEMMA AllLagsExist ==
  ASSUME NEW m \in Nat, NEW first \in Nat \ {0}, NEW out,
         CountedThrough(out, first, m - MaxTime + 1)
  PROVE  CountedAsFarAs(out, first, m - MaxTime + 1, m)
<1> SUFFICES ASSUME NEW lag \in Lags, NEW o \in Frames
             PROVE  out[lag][o] =
                      IF o >= first /\ o <= m - MaxTime + 1 /\ o + lag <= m
                      THEN 1 ELSE 0
  BY DEF CountedAsFarAs
<1>1. o \in Nat /\ lag \in Nat /\ lag <= MaxTime - 1 /\ MaxTime \in Nat \ {0}
  BY MaxTimeAssumption DEF Frames, Lags
<1>2. out[lag][o] = IF o >= first /\ o <= m - MaxTime + 1 THEN 1 ELSE 0
  BY DEF CountedThrough
<1> QED BY <1>1, <1>2

(* The end of the trajectory, and its last scheduled correlation.          *)
LEMMA EndStep ==
  ASSUME IInv, EndOfTrajectory
  PROVE  WindowInv' /\ CountsInv'
<1> DEFINE n == mCount % CorrelationFrequency
<1>1. /\ phase = "running" /\ finalLag' = MaxTime - 2
      /\ mCount' = mCount /\ joined' = joined /\ present' = present
      /\ phase' = IF present /\ UseAllTimeOrigins /\ MaxTime > 1
                  THEN "final" ELSE "done"
  BY DEF EndOfTrajectory
<1>2. mCount \in Nat /\ n \in Nat /\ LastCorrelation = mCount - n
  BY WindowFacts, CorrelationFrequencyAssumption, ModBounds DEF LastCorrelation
<1>3. present <=> joined # 0
  BY DEF IInv, WindowInv
<1>4. CASE joined = 0
  <2>1. UNCHANGED window
    BY <1>3, <1>4 DEF EndOfTrajectory
  <2>2. WindowInv'
    BY <1>1, <1>3, <1>4, <2>1
       DEF IInv, WindowInv, LagIsTimeDifference, FlagsAligned
  <2> QED BY <1>1, <1>4, <2>2 DEF CountsInv
<1>5. CASE joined # 0
  <2>0. joined \in Nat \ {0} /\ present
    BY <1>3, <1>5, WindowFacts
  <2>1. /\ ReachesBack(Len(inData1), mCount, joined, mCount - n)
        /\ CountedThrough(outData, joined, mCount - n - MaxTime + 1)
    BY <1>1, <1>2, <2>0, WindowFacts DEF SettledTo, IInv, CountsInv
  <2>2. /\ inData1' \in Seq(Frames) /\ Consecutive(inData1', mCount)
        /\ boolInfo' = inData1'
        /\ ReachesBack(Len(inData1'), mCount, joined, mCount)
        /\ CountedThrough(outData', joined, mCount - MaxTime + 1)
    <3>1. CASE n = 0
      <4>1. UNCHANGED window
        BY <1>2, <3>1 DEF EndOfTrajectory
      <4> HIDE DEF n
      <4>2. mCount - n = mCount /\ mCount - n - MaxTime + 1 = mCount - MaxTime + 1
        BY <1>2, <3>1, MaxTimeAssumption
      <4> QED BY <1>1, <2>1, <4>1, <4>2, WindowFacts
    <3>2. CASE n # 0
      <4>1. Correlate(inData1, inData1, n, -1)
        BY <1>2, <2>0, <3>2, WindowFacts DEF EndOfTrajectory
      <4>2. /\ outData' = CorrelatedOut(inData1, outData, n, -1)
            /\ inData1' = TidiedAfter(inData1, inData1, -1)
            /\ boolInfo' = inData1'
        BY <4>1 DEF Correlate
      <4> HIDE DEF n
      <4>3. n \in Nat \ {0} /\ mCount - n \in Int /\ mCount - n <= mCount
        BY <1>2, <3>2
      <4>4. CountedThrough(outData', joined, mCount - MaxTime + 1)
        BY <1>2, <2>0, <2>1, <4>2, <4>3, WindowFacts, ScheduledCounts
      <4> QED BY <1>2, <2>0, <2>1, <4>2, <4>3, <4>4, WindowFacts, TidiedReachesBack
    <3> QED BY <3>1, <3>2
  <2>3. WindowInv'
    BY <1>1, <1>3, <2>0, <2>2
       DEF WindowInv, LagIsTimeDifference, FlagsAligned, SettledTo, Consecutive
  <2>4. CASE phase' = "final"
    <3>1. UseAllTimeOrigins /\ mCount' - finalLag' - 1 = mCount - MaxTime + 1
      BY <1>1, <1>2, <2>4, MaxTimeAssumption
    <3>2. CountedAsFarAs(outData', joined', mCount' - finalLag' - 1, mCount')
      BY <1>1, <1>2, <2>0, <2>2, <3>1, AllLagsExist
    <3> QED BY <2>3, <2>4, <3>1, <3>2 DEF CountsInv
  <2>5. CASE phase' = "done"
    <3>1. ~UseAllTimeOrigins \/ MaxTime = 1
      BY <1>1, <2>0, <2>5, MaxTimeAssumption
    <3>2. FinalCountsExact'
      <4> SUFFICES ASSUME NEW lag \in Lags, NEW o \in Frames
                   PROVE  outData'[lag][o] =
                            IF /\ o >= joined'
                               /\ o + (IF UseAllTimeOrigins THEN lag ELSE MaxTime - 1)
                                    <= mCount'
                            THEN 1 ELSE 0
        BY DEF FinalCountsExact
      <4>1. outData'[lag][o] = IF o >= joined /\ o <= mCount - MaxTime + 1 THEN 1 ELSE 0
        BY <2>2 DEF CountedThrough
      <4>2. o \in Nat /\ lag \in 0 .. MaxTime - 1
        BY DEF Frames, Lags
      <4> HIDE DEF n
      <4> QED BY <1>1, <1>2, <2>0, <3>1, <4>1, <4>2, MaxTimeAssumption
    <3> QED BY <2>3, <2>5, <3>2 DEF CountsInv
  <2> QED BY <1>1, <2>4, <2>5
<1> QED BY <1>4, <1>5

(* One turn of the final loop.                                             *)
LEMMA FinalStep ==
  ASSUME IInv, FinalCorrelate
  PROVE  WindowInv' /\ CountsInv'
<1>1. /\ phase = "final" /\ finalLag' = finalLag - 1
      /\ phase' = IF finalLag = 0 THEN "done" ELSE "final"
      /\ mCount' = mCount /\ joined' = joined /\ present' = present
      /\ finalLag \in 0 .. MaxTime - 2
  BY DEF FinalCorrelate, IInv, TypeInv, FinalLagInRange
<1>2. joined \in Nat \ {0} /\ present /\ mCount \in Nat
  BY <1>1, WindowFacts DEF IInv, WindowInv
<1>3. /\ ReachesBack(Len(inData1), mCount, joined, mCount)
      /\ UseAllTimeOrigins
      /\ Item = 0 => CountedAsFarAs(outData, joined, mCount - finalLag - 1, mCount)
  BY <1>1, <1>2, WindowFacts DEF SettledTo, IInv, CountsInv
<1>4. /\ outData' = CorrelatedOut(inData1, outData, 1, finalLag)
      /\ inData1' = TidiedAfter(inData1, inData1, finalLag)
      /\ boolInfo' = inData1'
  BY WindowFacts DEF FinalCorrelate, Correlate
<1>5. Item = 0 => CountedAsFarAs(outData', joined, mCount - finalLag, mCount)
  BY <1>1, <1>2, <1>3, <1>4, WindowFacts, FinalCounts
<1>6. /\ inData1' \in Seq(Frames) /\ Consecutive(inData1', mCount)
      /\ ReachesBack(Len(inData1'), mCount, joined, mCount)
  <2>1. finalLag \in Int /\ mCount \in Int /\ mCount <= mCount
    BY <1>1, <1>2
  <2> QED BY <1>2, <1>3, <1>4, <2>1, WindowFacts, TidiedReachesBack
<1>7. WindowInv'
  BY <1>1, <1>2, <1>4, <1>6
     DEF WindowInv, LagIsTimeDifference, FlagsAligned, SettledTo, Consecutive
<1>8. CASE finalLag = 0
  <2>1. Item = 0 => FinalCountsExact'
    <3> SUFFICES ASSUME Item = 0, NEW lag \in Lags, NEW o \in Frames
                 PROVE  outData'[lag][o] =
                          IF /\ o >= joined'
                             /\ o + (IF UseAllTimeOrigins THEN lag ELSE MaxTime - 1)
                                  <= mCount'
                          THEN 1 ELSE 0
      BY DEF FinalCountsExact
    <3>1. outData'[lag][o] =
            IF o >= joined /\ o <= mCount - 0 /\ o + lag <= mCount THEN 1 ELSE 0
      BY <1>5, <1>8 DEF CountedAsFarAs
    <3>2. o \in Nat /\ lag \in Nat
      BY DEF Frames, Lags
    <3> QED BY <1>1, <1>2, <1>3, <3>1, <3>2
  <2> QED BY <1>1, <1>7, <1>8, <2>1 DEF CountsInv
<1>9. CASE finalLag # 0
  <2>1. mCount' - finalLag' - 1 = mCount - finalLag
    BY <1>1, <1>2
  <2> QED BY <1>1, <1>3, <1>5, <1>7, <1>9, <2>1 DEF CountsInv
<1> QED BY <1>8, <1>9

LEMMA InvStep == ASSUME ~MembersMayLeave PROVE IInv /\ [Next]_vars => IInv'
<1> SUFFICES ASSUME IInv, [Next]_vars PROVE IInv'
  OBVIOUS
<1>0. TypeInv'
  BY TypeStep DEF IInv
<1>1. CASE ProcessFrame
  BY <1>0, <1>1, StoreStep, MissStep DEF ProcessFrame, IInv
<1>2. CASE EndOfTrajectory
  BY <1>0, <1>2, EndStep DEF IInv
<1>3. CASE FinalCorrelate
  BY <1>0, <1>3, FinalStep DEF IInv
<1>4. CASE UNCHANGED vars
  BY <1>4 DEF vars, IInv, TypeInv, TypeOK, FinalLagInRange, WindowInv, CountsInv,
     LagIsTimeDifference, FlagsAligned, SettledTo, LastCorrelation, ReachesBack,
     CountedThrough, CountedAsFarAs, FinalCountsExact
<1> QED BY <1>1, <1>2, <1>3, <1>4 DEF Next

THEOREM Invariance == ASSUME ~MembersMayLeave PROVE Spec => []IInv
  BY InvInit, InvStep, PTL DEF Spec

-----------------------------------------------------------------------------
(***************************************************************************)
(* What the invariant says of every trajectory.                            *)
(***************************************************************************)

(* While a trajectory is read, every time origin that has all its frames   *)
(* is counted exactly once at every lag, and no other is: correlateAll     *)
(* every CorrelationFrequency frames neither loses nor doubles an origin,  *)
(* whenever the member joined and however tidyInData trims.                *)
THEOREM ExactlyOnce ==
  ASSUME ~MembersMayLeave PROVE Spec => []CountedExactlyOnce
<1>1. IInv => CountedExactlyOnce
  <2> SUFFICES ASSUME IInv, phase = "running", NEW lag \in Lags, NEW o \in Frames
               PROVE  outData[lag][o] =
                        IF joined > 0 /\ o \in joined .. LastCorrelation - MaxTime + 1
                        THEN 1 ELSE 0
    BY DEF CountedExactlyOnce
  <2>1. o \in Nat /\ joined \in Nat /\ LastCorrelation - MaxTime + 1 \in Int
    BY WindowFacts, MaxTimeAssumption DEF Frames
  <2>2. CASE joined = 0
    BY <2>1, <2>2 DEF IInv, WindowInv, NoCounts
  <2>3. CASE joined # 0
    <3>1. CountedThrough(outData, joined, LastCorrelation - MaxTime + 1)
      BY <2>1, <2>3 DEF IInv, CountsInv
    <3> QED BY <2>1, <2>3, <3>1 DEF CountedThrough
  <2> QED BY <2>2, <2>3
<1> QED BY Invariance, <1>1, PTL

(* When the final loop is over, an origin is counted at exactly those lags *)
(* at which the trajectory has a frame for it.                             *)
THEOREM FinalExact ==
  ASSUME ~MembersMayLeave, Item = 0 PROVE Spec => []FinalCountsExact
<1>1. IInv => FinalCountsExact
  BY DEF IInv, CountsInv, FinalCountsExact
<1> QED BY Invariance, <1>1, PTL

(* A lag is a time difference: the stored frames are consecutive, through  *)
(* every trimming.                                                         *)
THEOREM LagsAreTimes ==
  ASSUME ~MembersMayLeave PROVE Spec => []LagIsTimeDifference
<1>1. IInv => LagIsTimeDifference
  BY DEF IInv, WindowInv
<1> QED BY Invariance, <1>1, PTL

(* The membership flags stay beside the frames they belong to.             *)
THEOREM FlagsStayAligned ==
  ASSUME ~MembersMayLeave PROVE Spec => []FlagsAligned
<1>1. IInv => FlagsAligned
  BY DEF IInv, WindowInv
<1> QED BY Invariance, <1>1, PTL

(* No frame is trimmed away before it has been counted as an origin.       *)
THEOREM PendingStored ==
  ASSUME ~MembersMayLeave, Item = 0 PROVE Spec => []PendingOriginsStored
<1>1. IInv => PendingOriginsStored
  <2> SUFFICES ASSUME IInv, joined > 0, NEW o \in joined .. mCount, outData[0][o] = 0
               PROVE  \E k \in 1 .. Len(inData1) : inData1[k] = o
    BY DEF PendingOriginsStored
  <2> DEFINE L == Len(inData1)
  <2>1. /\ mCount \in Nat /\ joined \in Nat \ {0} /\ L \in Nat /\ o \in Nat
        /\ MaxTime \in Nat \ {0}
        /\ LastCorrelation \in 0 .. mCount
        /\ ReachesBack(L, mCount, joined, SettledTo)
    BY WindowFacts, MaxTimeAssumption
  <2>2. o \in Frames /\ 0 \in Lags
    BY <2>1, NumFramesAssumption DEF IInv, TypeInv, TypeOK, Frames, Lags
  <2>3. o >= SettledTo - MaxTime + 2
    <3>1. CASE phase = "running"
      <4>1. CountedThrough(outData, joined, LastCorrelation - MaxTime + 1)
        BY <2>1, <3>1 DEF IInv, CountsInv
      <4>2. ~(o >= joined /\ o <= LastCorrelation - MaxTime + 1)
        BY <2>2, <4>1 DEF CountedThrough
      <4> QED BY <2>1, <3>1, <4>2 DEF SettledTo
    <3>2. CASE phase = "final"
      <4>1. /\ CountedAsFarAs(outData, joined, mCount - finalLag - 1, mCount)
            /\ finalLag \in 0 .. MaxTime - 2
        BY <2>1, <3>2 DEF IInv, CountsInv, TypeInv, FinalLagInRange
      <4>2. ~(o >= joined /\ o <= mCount - finalLag - 1 /\ o + 0 <= mCount)
        BY <2>2, <4>1 DEF CountedAsFarAs
      <4> QED BY <2>1, <3>2, <4>1, <4>2 DEF SettledTo
    <3>3. CASE phase = "done"
      <4>1. FinalCountsExact
        BY <2>1, <3>3 DEF IInv, CountsInv
      <4>2. ~(o >= joined
               /\ o + (IF UseAllTimeOrigins THEN 0 ELSE MaxTime - 1) <= mCount)
        BY <2>2, <3>3, <4>1 DEF FinalCountsExact
      <4> QED BY <2>1, <3>3, <4>2 DEF SettledTo
    <3>4. phase \in {"running", "final", "done"}
      BY DEF IInv, TypeInv, TypeOK
    <3> QED BY <3>1, <3>2, <3>3, <3>4
  <2>4. SettledTo \in Int
    BY <2>1 DEF SettledTo
  <2>5. o - (mCount - L) \in 1 .. L
    BY <2>1, <2>3, <2>4 DEF ReachesBack
  <2>6. inData1[o - (mCount - L)] = mCount - L + (o - (mCount - L))
    BY <2>5, WindowFacts DEF Consecutive
  <2> QED BY <2>1, <2>5, <2>6
<1> QED BY Invariance, <1>1, PTL

-----------------------------------------------------------------------------
(* The window's size since the last scheduled correlation.                 *)
BoundInv ==
  TidyOld > 0 =>
    Len(inData1) <= TidyOld * MaxTime +
      IF phase = "running" THEN mCount % CorrelationFrequency
                           ELSE CorrelationFrequency - 1

(* A call of correlate() leaves a window that TidyOld allows, whatever     *)
(* size it had, and never a longer one than it was given.                  *)
LEMMA CorrelateBounds ==
  ASSUME NEW m \in Nat, NEW data \in Seq(Frames), Consecutive(data, m),
         NEW j \in Int, NEW w, w = TidiedAfter(data, data, j), TidyOld > 0
  PROVE  Len(w) <= Len(data) /\ (j < 0 => Len(w) <= TidyOld * MaxTime)
<1> DEFINE P == TidyOld * MaxTime
           L == Len(data)
<1>1. P \in Nat /\ P >= MaxTime /\ MaxTime \in Nat \ {0} /\ L \in Nat
  BY TidyKeepsEnough, MaxTimeAssumption, TidyOldAssumption
<1>2. /\ w = data \/ (Len(w) = MaxTime /\ L > MaxTime)
      /\ ~TooShort(L, j) => Len(w) <= P
  BY TidiedWindow
<1>3. TooShort(L, j) => w = data /\ L < MaxTime
  BY <1>1, MaxDTOfWindow DEF TooShort, StartLag, TidiedAfter
<1> HIDE DEF P
<1>4. Len(w) <= L
  BY <1>1, <1>2
<1>5. j < 0 => Len(w) <= P
  BY <1>1, <1>2, <1>3
<1> QED BY <1>4, <1>5 DEF P

LEMMA BoundStep ==
  ASSUME ~MembersMayLeave
  PROVE  IInv /\ BoundInv /\ [Next]_vars => BoundInv'
<1> SUFFICES ASSUME IInv, BoundInv, [Next]_vars, TidyOld > 0 PROVE BoundInv'
  BY DEF BoundInv
<1> DEFINE P == TidyOld * MaxTime
           L == Len(inData1)
           f == CorrelationFrequency
<1>1. /\ P \in Nat /\ P >= 1 /\ L \in Nat /\ f \in Nat \ {0}
      /\ mCount \in Nat /\ inData1 \in Seq(Frames) /\ boolInfo = inData1
      /\ Consecutive(inData1, mCount)
  <2>1. P \in Nat /\ P >= 1
    BY TidyKeepsEnough, MaxTimeAssumption, TidyOldAssumption
  <2>2. L \in Nat /\ f \in Nat \ {0}
    BY WindowFacts, CorrelationFrequencyAssumption
  <2> QED BY <2>1, <2>2, WindowFacts
<1>2. mCount % f \in 0 .. f - 1
  BY <1>1, ModBounds
<1>3. L <= P + IF phase = "running" THEN mCount % f ELSE f - 1
  BY DEF BoundInv
<1> SUFFICES Len(inData1') <= P + IF phase' = "running" THEN mCount' % f ELSE f - 1
  BY DEF BoundInv
<1> HIDE DEF P
<1>4. CASE ProcessFrame
  <2> DEFINE m == mCount + 1
             data == Append(inData1, m)
  <2>1. phase = "running" /\ phase' = "running" /\ mCount' = m /\ m \in Frames
    BY <1>1, <1>4, NumFramesAssumption DEF ProcessFrame, IInv, TypeInv, TypeOK, Frames
  <2>2. m % f \in 0 .. f - 1
    BY <1>1, ModBounds
  <2>3. m % f = IF mCount % f = f - 1 THEN 0 ELSE (mCount % f) + 1
    BY <1>1, ModSuccessor
  <2>4. data \in Seq(Frames) /\ Len(data) = L + 1 /\ Consecutive(data, m)
    BY <1>1, <2>1, AppendFrame
  <2>5. CASE StoreFrame
    <3>1. \/ m % f = 0 /\ inData1' = TidiedAfter(data, data, -1)
          \/ m % f # 0 /\ inData1' = data
      BY <2>1, <2>5 DEF StoreFrame, CorrelationDue, Correlate, KeepWindow
    <3> HIDE DEF data
    <3>2. m % f = 0 => Len(inData1') <= P
      BY <1>1, <2>4, <3>1, CorrelateBounds DEF P
    <3>3. m % f # 0 => Len(inData1') = L + 1
      BY <2>4, <3>1
    <3>4. Len(inData1') \in Nat
      <4>1. inData1' \in Seq(Frames)
        BY TypeStep DEF IInv, TypeInv, TypeOK
      <4> QED BY <4>1
    <3> QED BY <1>1, <1>2, <1>3, <2>1, <2>2, <2>3, <3>2, <3>3, <3>4
  <2>6. CASE MissFrame
    <3>1. joined = 0 /\ inData1' = inData1
      BY <2>6 DEF MissFrame, window
    <3>2. inData1 = <<>>
      BY <3>1 DEF IInv, WindowInv
    <3>3. Len(inData1') = 0
      BY <3>1, <3>2
    <3> QED BY <1>1, <2>1, <2>2, <3>3
  <2> QED BY <1>4, <2>5, <2>6 DEF ProcessFrame
<1>5. CASE EndOfTrajectory
  <2>1. phase = "running" /\ phase' # "running"
    BY <1>5 DEF EndOfTrajectory
  <2>2. inData1' = inData1 \/ inData1' = TidiedAfter(inData1, inData1, -1)
    BY <1>5 DEF EndOfTrajectory, Correlate, window
  <2>3. Len(inData1') <= L
    BY <1>1, <2>2, CorrelateBounds
  <2>4. Len(inData1') \in Nat
    <3>1. inData1' \in Seq(Frames)
      BY TypeStep DEF IInv, TypeInv, TypeOK
    <3> QED BY <3>1
  <2> QED BY <1>1, <1>2, <1>3, <2>1, <2>3, <2>4
<1>6. CASE FinalCorrelate
  <2>1. phase = "final" /\ phase' # "running" /\ finalLag \in Int
    BY <1>6 DEF FinalCorrelate, IInv, TypeInv, FinalLagInRange
  <2>2. inData1' = TidiedAfter(inData1, inData1, finalLag)
    BY <1>6 DEF FinalCorrelate, Correlate
  <2>3. Len(inData1') <= L
    BY <1>1, <2>1, <2>2, CorrelateBounds
  <2>4. Len(inData1') \in Nat
    <3>1. inData1' \in Seq(Frames)
      BY TypeStep DEF IInv, TypeInv, TypeOK
    <3> QED BY <3>1
  <2> QED BY <1>1, <1>3, <2>1, <2>3, <2>4
<1>7. CASE UNCHANGED vars
  BY <1>3, <1>7 DEF vars
<1> QED BY <1>4, <1>5, <1>6, <1>7 DEF Next

(* Memory stays bounded: with TidyOld given, the window never holds more   *)
(* frames than TidyOld allows and one correlation period adds.             *)
THEOREM Bounded ==
  ASSUME ~MembersMayLeave PROVE Spec => []WindowBounded
<1>1. Init => BoundInv
  <2>1. Init => Len(inData1) = 0 /\ mCount = 0 /\ phase = "running"
    BY DEF Init
  <2>2. 0 % CorrelationFrequency \in Nat
    BY CorrelationFrequencyAssumption, ModBounds
  <2>3. TidyOld * MaxTime \in Nat
    BY MaxTimeAssumption, TidyOldAssumption
  <2> QED BY <2>1, <2>2, <2>3 DEF BoundInv
<1>2. IInv /\ BoundInv => WindowBounded
  <2> SUFFICES ASSUME IInv, BoundInv, TidyOld > 0
               PROVE  Len(inData1) < TidyOld * MaxTime + CorrelationFrequency
    BY DEF WindowBounded
  <2>1. mCount % CorrelationFrequency < CorrelationFrequency
        /\ mCount % CorrelationFrequency \in Nat
    BY WindowFacts, CorrelationFrequencyAssumption, ModBounds, SMTT(30)
  <2>2. TidyOld * MaxTime \in Nat /\ Len(inData1) \in Nat
    BY WindowFacts, MaxTimeAssumption, TidyOldAssumption
  <2> QED BY <2>1, <2>2, CorrelationFrequencyAssumption DEF BoundInv
<1> QED BY Invariance, BoundStep, <1>1, <1>2, PTL DEF Spec
-----------------------------------------------------------------------------
(***************************************************************************)
(* ActionTTCF implements CorrelationLedger: windows, trimming and the      *)
(* correlation schedule only decide when an origin is entered, never       *)
(* whether it is entered twice, too early or at some of its lags only.     *)
(***************************************************************************)
LEMMA LedgerInit == Init => Ledger!Init
  BY DEF Init, NoCounts, Lags, Frames, Ledger!Init, Ledger!Lags, Ledger!Frames

(* Nothing is entered when nothing is counted.                             *)
LEMMA EnterNothing ==
  ASSUME outData \in [Lags -> [Frames -> Nat]], outData' = outData, NEW last
  PROVE  Ledger!Enter(1 .. 0, last)
<1> DEFINE entered == [lag \in Lags |-> [o \in Frames |->
                         outData[lag][o] + IF o \in 1 .. 0 /\ o + lag <= last
                                          THEN 1 ELSE 0]]
<1>1. ASSUME NEW lag \in Lags, NEW o \in Frames
      PROVE  outData[lag][o] + (IF o \in 1 .. 0 /\ o + lag <= last THEN 1 ELSE 0)
               = outData[lag][o]
  <2>1. o \notin 1 .. 0 /\ outData[lag][o] \in Nat
    OBVIOUS
  <2> QED BY <2>1
<1>2. entered = outData
  BY <1>1
<1> QED BY <1>2 DEF Ledger!Enter, Ledger!Lags, Ledger!Frames, Lags, Frames

(* A correlation that counts the origins of O, each at the lags that exist *)
(* by frame last, is an entry of O in the ledger.                          *)
LEMMA EnterContributions ==
  ASSUME NEW data, NEW n, NEW j, ~TooShort(Len(data), j),
         outData' = CorrelatedOut(data, outData, n, j), NEW O, NEW last,
         \A lag \in Lags, o \in Frames :
           Contributes(data, n, j, lag, o) <=> o \in O /\ o + lag <= last
  PROVE  Ledger!Enter(O, last)
<1>1. outData' = [lag \in Lags |-> [o \in Frames |->
                    outData[lag][o] + IF o \in O /\ o + lag <= last THEN 1 ELSE 0]]
  BY DEF CorrelatedOut
<1> QED BY <1>1 DEF Ledger!Enter, Ledger!Lags, Ledger!Frames, Lags, Frames

(* The origins of a scheduled correlation, as an interval of frame numbers *)
(* that the ledger can enter.                                              *)
LEMMA ScheduledEntry ==
  ASSUME NEW m \in Nat, NEW n \in Nat \ {0}, NEW first \in Nat \ {0},
         m <= NumFrames, NEW data \in Seq(Frames), Consecutive(data, m),
         ReachesBack(Len(data), m, first, m - n),
         outData \in [Lags -> [Frames -> Nat]],
         CountedThrough(outData, first, m - n - MaxTime + 1),
         outData' = CorrelatedOut(data, outData, n, -1)
  PROVE  \E a, b \in 0 .. NumFrames + 1 :
           /\ \A o \in a .. b \cap Frames :
                /\ \A lag \in Lags : outData[lag][o] = 0
                /\ o + MaxTime - 1 <= m
           /\ Ledger!Enter(a .. b, m)
<1> DEFINE L   == Len(data)
           old == m - L + 1
           low == m - MaxTime - n + 2
           a   == IF old > low THEN old ELSE low
           b   == m - MaxTime + 1
<1>1. /\ L \in Nat /\ MaxTime \in Nat \ {0} /\ NumFrames \in Nat
      /\ old >= first /\ old <= m
  BY MaxTimeAssumption, NumFramesAssumption DEF ReachesBack
<1>2. CASE TooShort(L, -1) \/ b < a
  <2>1. outData' = outData
    <3>1. CASE TooShort(L, -1)
      BY <3>1 DEF CorrelatedOut
    <3>2. CASE ~TooShort(L, -1) /\ b < a
      <4>1. ASSUME NEW lag \in Lags, NEW o \in Frames
            PROVE  ~Contributes(data, n, -1, lag, o)
        <5>1. Contributes(data, n, -1, lag, o) <=> o >= old /\ o >= low /\ o <= b
          BY <3>2, ScheduledOrigins
        <5>2. o \in Nat
          BY DEF Frames
        <5> QED BY <1>1, <3>2, <5>1, <5>2
      <4>2. ASSUME NEW lag \in Lags, NEW o \in Frames
            PROVE  outData[lag][o] + (IF Contributes(data, n, -1, lag, o)
                                     THEN 1 ELSE 0) = outData[lag][o]
        BY <4>1
      <4>3. [lag \in Lags |-> [o \in Frames |->
               outData[lag][o] + IF Contributes(data, n, -1, lag, o)
                                THEN 1 ELSE 0]] = outData
        BY <4>2
      <4> QED BY <3>2, <4>3 DEF CorrelatedOut
    <3> QED BY <1>2, <3>1, <3>2
  <2>2. Ledger!Enter(1 .. 0, m)
    BY <2>1, EnterNothing
  <2>3. 0 \in 0 .. NumFrames + 1 /\ 1 \in 0 .. NumFrames + 1 /\ 1 .. 0 = {}
    BY <1>1
  <2> QED BY <2>2, <2>3
<1>3. CASE ~TooShort(L, -1) /\ a <= b
  <2>1. a \in 0 .. NumFrames + 1 /\ b \in 0 .. NumFrames + 1 /\ a >= first
    BY <1>1, <1>3
  <2>2. ASSUME NEW o \in a .. b \cap Frames
        PROVE  (\A lag \in Lags : outData[lag][o] = 0) /\ o + MaxTime - 1 <= m
    <3>1. o \in Int /\ o >= a /\ o <= b
      BY <2>1
    <3>2. o > m - n - MaxTime + 1
      BY <1>1, <3>1
    <3>3. ASSUME NEW lag \in Lags PROVE outData[lag][o] = 0
      BY <1>1, <3>1, <3>2 DEF CountedThrough
    <3> QED BY <1>1, <3>1, <3>3
  <2>3. ASSUME NEW lag \in Lags, NEW o \in Frames
        PROVE  Contributes(data, n, -1, lag, o) <=> o \in a .. b /\ o + lag <= m
    <3>1. Contributes(data, n, -1, lag, o) <=> o >= old /\ o >= low /\ o <= b
      BY <1>3, ScheduledOrigins
    <3>2. o \in Nat /\ lag \in 0 .. MaxTime - 1
      BY DEF Frames, Lags
    <3> QED BY <1>1, <3>1, <3>2
  <2> HIDE DEF a, b
  <2>4. Ledger!Enter(a .. b, m)
    BY <1>3, <2>3, EnterContributions
  <2> QED BY <2>1, <2>2, <2>4
<1> QED BY <1>1, <1>2, <1>3

LEMMA SameLedgerDomain == Ledger!Lags = Lags /\ Ledger!Frames = Frames
  BY DEF Ledger!Lags, Ledger!Frames, Lags, Frames

(* A frame of the trajectory is a Read.                                    *)
LEMMA ReadStep ==
  ASSUME ~MembersMayLeave, IInv, ProcessFrame
  PROVE  Ledger!Read
<1> DEFINE m == mCount + 1
           f == CorrelationFrequency
<1>1. /\ phase = "running" /\ phase' = "running" /\ mCount' = m
      /\ m \in Frames /\ m \in Nat \ {0} /\ mCount \in Nat /\ m <= NumFrames
      /\ outData \in [Lags -> [Frames -> Nat]]
  BY NumFramesAssumption DEF ProcessFrame, IInv, TypeInv, TypeOK, Frames
<1> SUFFICES \E a, b \in 0 .. NumFrames + 1 :
               /\ \A o \in a .. b \cap Frames :
                    /\ \A lag \in Lags : outData[lag][o] = 0
                    /\ o + MaxTime - 1 <= m
               /\ Ledger!Enter(a .. b, m)
  BY <1>1, SameLedgerDomain DEF Ledger!Read, Ledger!Fresh
<1>2. CASE outData' = outData
  <2>1. Ledger!Enter(1 .. 0, m)
    BY <1>1, <1>2, EnterNothing
  <2>2. 0 \in 0 .. NumFrames + 1 /\ 1 \in 0 .. NumFrames + 1 /\ 1 .. 0 = {}
    BY <1>1, NumFramesAssumption
  <2> QED BY <2>1, <2>2
<1>3. CASE outData' # outData
  <2>1. /\ StoreFrame
        /\ m % f = 0
        /\ outData' = CorrelatedOut(NewWindow, outData, f, -1)
    BY <1>1, <1>3 DEF ProcessFrame, StoreFrame, MissFrame, CorrelationDue, Correlate,
                      KeepWindow, window, NewWindow
  <2>2. /\ FirstFrame \in Nat \ {0}
        /\ NewWindow \in Seq(Frames) /\ Consecutive(NewWindow, m)
        /\ ReachesBack(Len(NewWindow), m, FirstFrame, m - f)
        /\ CountedThrough(outData, FirstFrame, m - f - MaxTime + 1)
    <3>1. LastCorrelation = m - f
      BY <1>1, <2>1, NextCorrelation
    <3> QED BY <2>1, <3>1, StoredWindow
  <2> QED BY <1>1, <2>1, <2>2, CorrelationFrequencyAssumption, ScheduledEntry
<1> QED BY <1>2, <1>3

(* The end of the trajectory is a Close.                                   *)
LEMMA EndIsClose ==
  ASSUME IInv, EndOfTrajectory
  PROVE  Ledger!Close
<1> DEFINE n == mCount % CorrelationFrequency
<1>1. /\ phase = "running" /\ phase' # "running" /\ mCount' = mCount
      /\ mCount \in Nat /\ mCount <= NumFrames
      /\ outData \in [Lags -> [Frames -> Nat]]
  <2>1. mCount \in 0 .. NumFrames
    BY DEF IInv, TypeInv, TypeOK
  <2> QED BY <2>1, WindowFacts, NumFramesAssumption DEF EndOfTrajectory
<1> SUFFICES \E a, b \in 0 .. NumFrames + 1 :
               /\ \A o \in a .. b \cap Frames :
                    /\ \A lag \in Lags : outData[lag][o] = 0
                    /\ o <= mCount
               /\ Ledger!Enter(a .. b, mCount)
  BY <1>1, SameLedgerDomain DEF Ledger!Close, Ledger!Fresh
<1>2. CASE outData' = outData
  <2>1. Ledger!Enter(1 .. 0, mCount)
    BY <1>1, <1>2, EnterNothing
  <2>2. 0 \in 0 .. NumFrames + 1 /\ 1 \in 0 .. NumFrames + 1 /\ 1 .. 0 = {}
    BY <1>1, NumFramesAssumption
  <2> QED BY <2>1, <2>2
<1>3. CASE outData' # outData
  <2>1. /\ present /\ n > 0
        /\ outData' = CorrelatedOut(inData1, outData, n, -1)
    BY <1>3 DEF EndOfTrajectory, Correlate, window
  <2>2. /\ joined \in Nat \ {0} /\ n \in Nat \ {0} /\ LastCorrelation = mCount - n
    BY <1>1, <2>1, WindowFacts, CorrelationFrequencyAssumption, ModBounds
       DEF LastCorrelation, IInv, WindowInv
  <2>3. /\ inData1 \in Seq(Frames) /\ Consecutive(inData1, mCount)
        /\ ReachesBack(Len(inData1), mCount, joined, mCount - n)
        /\ CountedThrough(outData, joined, mCount - n - MaxTime + 1)
    BY <1>1, <2>2, WindowFacts DEF SettledTo, IInv, CountsInv
  <2> HIDE DEF n
  <2>4. PICK a \in 0 .. NumFrames + 1, b \in 0 .. NumFrames + 1 :
          /\ \A o \in a .. b \cap Frames :
               /\ \A lag \in Lags : outData[lag][o] = 0
               /\ o + MaxTime - 1 <= mCount
          /\ Ledger!Enter(a .. b, mCount)
    BY <1>1, <2>1, <2>2, <2>3, ScheduledEntry
  <2>5. ASSUME NEW o \in a .. b \cap Frames PROVE o <= mCount
    BY <1>1, <2>4, MaxTimeAssumption DEF Frames
  <2> QED BY <2>4, <2>5
<1> QED BY <1>2, <1>3

(* A turn of the final loop is a Close as well.                            *)
LEMMA FinalIsClose ==
  ASSUME Item = 0, IInv, FinalCorrelate
  PROVE  Ledger!Close
<1> DEFINE x == mCount - finalLag
<1>1. /\ phase = "final" /\ phase' # "running" /\ mCount' = mCount
      /\ finalLag \in 0 .. MaxTime - 2 /\ finalLag \in Nat
      /\ mCount \in Nat /\ mCount <= NumFrames
      /\ outData \in [Lags -> [Frames -> Nat]]
  <2>1. mCount \in 0 .. NumFrames
    BY DEF IInv, TypeInv, TypeOK
  <2> QED BY <2>1, WindowFacts, NumFramesAssumption
          DEF FinalCorrelate, IInv, TypeInv, FinalLagInRange
<1>2. /\ joined \in Nat \ {0}
      /\ inData1 \in Seq(Frames) /\ Consecutive(inData1, mCount)
      /\ ReachesBack(Len(inData1), mCount, joined, mCount)
      /\ CountedAsFarAs(outData, joined, mCount - finalLag - 1, mCount)
      /\ outData' = CorrelatedOut(inData1, outData, 1, finalLag)
  BY <1>1, WindowFacts
     DEF SettledTo, IInv, WindowInv, CountsInv, FinalCorrelate, Correlate
<1> SUFFICES \E a, b \in 0 .. NumFrames + 1 :
               /\ \A o \in a .. b \cap Frames :
                    /\ \A lag \in Lags : outData[lag][o] = 0
                    /\ o <= mCount
               /\ Ledger!Enter(a .. b, mCount)
  BY <1>1, SameLedgerDomain DEF Ledger!Close, Ledger!Fresh
<1>3. ~TooShort(Len(inData1), finalLag)
  BY <1>1 DEF TooShort
<1>4. ASSUME NEW lag \in Lags, NEW o \in Frames
      PROVE  Contributes(inData1, 1, finalLag, lag, o) <=>
               o = x /\ o >= mCount - Len(inData1) + 1 /\ lag <= finalLag
  BY <1>1, <1>2, FinalOrigin
<1>5. Len(inData1) \in Nat /\ MaxTime \in Nat \ {0} /\ NumFrames \in Nat
  BY <1>2, MaxTimeAssumption, NumFramesAssumption
<1>6. CASE x >= mCount - Len(inData1) + 1
  <2>1. x \in 0 .. NumFrames + 1 /\ x >= joined
    BY <1>1, <1>2, <1>5, <1>6 DEF ReachesBack
  <2>2. ASSUME NEW lag \in Lags, NEW o \in Frames
        PROVE  Contributes(inData1, 1, finalLag, lag, o) <=>
                 o \in x .. x /\ o + lag <= mCount
    <3>1. o \in Nat /\ lag \in Nat
      BY DEF Frames, Lags
    <3> QED BY <1>1, <1>4, <1>6, <3>1
  <2>3. Ledger!Enter(x .. x, mCount)
    BY <1>2, <1>3, <2>2, EnterContributions
  <2>4. ASSUME NEW o \in x .. x \cap Frames
        PROVE  (\A lag \in Lags : outData[lag][o] = 0) /\ o <= mCount
    <3>1. o = x
      BY <1>1
    <3>2. ASSUME NEW lag \in Lags PROVE outData[lag][o] = 0
      <4>1. ~(o <= mCount - finalLag - 1)
        BY <1>1, <3>1
      <4> QED BY <1>2, <4>1 DEF CountedAsFarAs
    <3> QED BY <1>1, <3>1, <3>2
  <2> QED BY <2>1, <2>3, <2>4
<1>7. CASE x < mCount - Len(inData1) + 1
  <2>1. ASSUME NEW lag \in Lags, NEW o \in Frames
        PROVE  ~Contributes(inData1, 1, finalLag, lag, o)
    BY <1>1, <1>4, <1>5, <1>7
  <2>2. ASSUME NEW lag \in Lags, NEW o \in Frames
        PROVE  Contributes(inData1, 1, finalLag, lag, o) <=>
                 o \in 1 .. 0 /\ o + lag <= mCount
    BY <2>1
  <2>3. Ledger!Enter(1 .. 0, mCount)
    BY <1>2, <1>3, <2>2, EnterContributions
  <2>4. 0 \in 0 .. NumFrames + 1 /\ 1 \in 0 .. NumFrames + 1 /\ 1 .. 0 = {}
    BY <1>5
  <2> QED BY <2>3, <2>4
<1> QED BY <1>1, <1>5, <1>6, <1>7

LEMMA LedgerStep ==
  ASSUME ~MembersMayLeave, Item = 0
  PROVE  IInv /\ [Next]_vars => [Ledger!Next]_(Ledger!vars)
<1> SUFFICES ASSUME IInv, [Next]_vars PROVE [Ledger!Next]_(Ledger!vars)
  OBVIOUS
<1>1. CASE ProcessFrame
  BY <1>1, ReadStep DEF Ledger!Next
<1>2. CASE EndOfTrajectory
  BY <1>2, EndIsClose DEF Ledger!Next
<1>3. CASE FinalCorrelate
  BY <1>3, FinalIsClose DEF Ledger!Next
<1>4. CASE UNCHANGED vars
  BY <1>4 DEF vars, Ledger!vars
<1> QED BY <1>1, <1>2, <1>3, <1>4 DEF Next

(* Every behaviour of the action is a behaviour of the ledger: an origin   *)
(* is entered once, at all its lags in one step, and only when all its     *)
(* frames have been read or the trajectory has ended.                      *)
THEOREM ImplementsLedger ==
  ASSUME ~MembersMayLeave, Item = 0 PROVE Spec => LedgerSpec
  BY Invariance, LedgerInit, LedgerStep, PTL DEF Spec, LedgerSpec, Ledger!Spec

-----------------------------------------------------------------------------
(* One time origin: CorrelateFromOldIndex.                                 *)

(* A condition with this consequence is not fulfilled at the lag.          *)
Fires(consequence, lag) ==
  ~CheckTCFCondition(conditions, flags, oldindex, oldindex + lag * NumItems, consequence)

(* The lag settles the result, unless an UncareRemaining comes before it.  *)
Settles(lag) == ~Fires("UncareThis", lag) /\ Fires("ValueRemaining", lag)

Empty == [zeroes |-> 0, values |-> 0]
Zero  == [zeroes |-> 1, values |-> 0]
Value == [zeroes |-> 0, values |-> 1]

(* What one turn of the loop adds to its lag.                              *)
Added(lag) ==
  IF Fires("UncareThis", lag) THEN Empty
  ELSE IF Fires("ValueThis", lag) \/ \E e \in 0 .. lag : Settles(e) THEN Zero
  ELSE Value

(* All the lags before this one have been gone through.                    *)
WentThrough(d) ==
  \A e \in 0 .. d - 1 : e \in Reached /\ ~Fires("UncareRemaining", e)

(* tempOutData up to dt is what the turns have added, from dt on nothing.  *)
Collected ==
  \A lag \in Lags : tempOutData[lag] = IF lag < dt THEN Added(lag) ELSE Empty

(* ValuePrecedenceOverUncare has filled the lags from dt on with zeroes.   *)
Filled ==
  \A lag \in Lags : tempOutData[lag] =
    IF lag < dt THEN Added(lag) ELSE IF lag <= MaxDT THEN Zero ELSE Empty

SettledBefore(d) == \E e \in 0 .. d - 1 : Settles(e)

(* The loop is still running.                                              *)
Looping ==
  /\ doicare # "UncareRemaining"
  /\ resultisknown <=> SettledBefore(dt)
  /\ options[1] => ~SettledBefore(dt)
  /\ Collected

(* The three ways to leave it.                                             *)
EndedUncare ==
  /\ doicare = "UncareRemaining"
  /\ dt \in Reached /\ Fires("UncareRemaining", dt)
  /\ options[1] => ~SettledBefore(dt)
  /\ Collected

EndedExhausted ==
  /\ doicare # "UncareRemaining"
  /\ dt \notin Reached
  /\ options[1] => ~SettledBefore(dt)
  /\ Collected

EndedFilled ==
  /\ doicare # "UncareRemaining"
  /\ options[1]
  /\ dt \in Reached /\ ~Fires("UncareRemaining", dt) /\ Settles(dt)
  /\ ~SettledBefore(dt)
  /\ Filled

Ended == EndedUncare \/ EndedExhausted \/ EndedFilled

(* The inductive invariant.                                                *)
LoopInv ==
  /\ WentThrough(dt)
  /\ pc = "loop" => Looping
  /\ pc # "loop" => Ended
  /\ pc # "done" => mOutData = Nothing
  /\ pc = "done" => mOutData = IF doicare = "UncareRemaining" /\ options[2]
                              THEN Nothing ELSE tempOutData

(* dt stops one after the largest lag, which the invariant of the types    *)
(* has to know.                                                            *)
OriginTypeInv ==
  /\ OriginTypeOK
  /\ conditions \in ConditionLists
  /\ flags \in [DOMAIN conditions -> [Indices -> BOOLEAN]]
  /\ options \in BOOLEAN \X BOOLEAN
  /\ dt \in 0 .. MaxDT + 1

OriginInv == OriginTypeInv /\ LoopInv

-----------------------------------------------------------------------------
(* The loop is entered for the lags that are reached.                      *)
LEMMA RangeOfMaxDT ==
  ASSUME origin \in 0 .. NumFrames - 1
  PROVE  MaxDT \in -1 .. MaxTime - 1
<1>1. origin \in 0 .. NumFrames /\ NumFrames \in Nat /\ origin < NumFrames /\ MaxTime \in Nat \ {0}
  BY NumFramesAssumption, MaxTimeAssumption
<1>2. NumItems \in Nat \ {0} /\ Item \in 0 .. NumItems - 1
  BY ItemAssumption
<1>3. LET steps == IF Item = 0 THEN NumFrames - origin ELSE NumFrames - origin - 1
      IN MaxDT = IF steps < MaxTime - 1 THEN steps - 1 ELSE MaxTime - 1
  BY <1>1, <1>2, MaxDTValue DEF MaxDT
<1> QED BY <1>1, <1>3

LEMMA IndexInWindow ==
  ASSUME NEW n \in Nat \ {0}, NEW item \in 0 .. n - 1, NEW f \in Nat, NEW d \in Nat, NEW size \in Nat
  PROVE  n * f + item + d * n < n * size <=> f + d < size
<1>1. CASE f + d < size
  <2>1. f + d + 1 <= size
    BY <1>1
  <2>2. n * (f + d + 1) <= n * size
    BY <2>1
  <2>3. n * (f + d + 1) = n * f + d * n + n
    OBVIOUS
  <2> QED BY <1>1, <2>2, <2>3
<1>2. CASE f + d >= size
  <2>1. n * (f + d) >= n * size
    BY <1>2
  <2>2. n * (f + d) = n * f + d * n
    OBVIOUS
  <2> QED BY <1>2, <2>1, <2>2
<1> QED BY <1>1, <1>2

LEMMA InLoopReached ==
  ASSUME OriginTypeInv
  PROVE  InLoop <=> pc = "loop" /\ dt \in Reached
<1>1. /\ origin \in 0 .. NumFrames - 1 /\ NumFrames \in Nat /\ MaxTime \in Nat \ {0}
      /\ NumItems \in Nat \ {0} /\ Item \in 0 .. NumItems - 1
      /\ MaxDT \in -1 .. MaxTime - 1 /\ dt \in Nat
  BY NumFramesAssumption, MaxTimeAssumption, ItemAssumption, RangeOfMaxDT DEF OriginTypeInv, OriginTypeOK
<1>2. newindex < NumItems * NumFrames <=> origin + dt < NumFrames
  <2>1. origin \in Nat
    BY <1>1
  <2>2. NumItems * origin + Item + dt * NumItems < NumItems * NumFrames
          <=> origin + dt < NumFrames
    BY <1>1, <2>1, IndexInWindow
  <2> QED BY <2>2 DEF newindex, oldindex
<1> QED BY <1>1, <1>2 DEF InLoop, Reached, Lags

LEMMA ReachedDownward ==
  ASSUME OriginTypeInv, NEW a \in Reached, NEW b \in 0 .. a
  PROVE  b \in Reached
<1>1. MaxDT \in -1 .. MaxTime - 1 /\ MaxTime \in Nat \ {0} /\ NumFrames \in Nat
      /\ origin \in 0 .. NumFrames - 1
  BY RangeOfMaxDT, NumFramesAssumption, MaxTimeAssumption DEF OriginTypeInv, OriginTypeOK
<1> QED BY <1>1 DEF Reached, Lags

(* What is fixed by the input stays as it is.                              *)
LEMMA InputFixed ==
  ASSUME UNCHANGED input
  PROVE  /\ MaxDT' = MaxDT /\ Reached' = Reached
         /\ \A lag : /\ Fires("UncareRemaining", lag)' <=> Fires("UncareRemaining", lag)
                     /\ Settles(lag)' <=> Settles(lag)
                     /\ Added(lag)' = Added(lag)
<1>1. conditions' = conditions /\ flags' = flags /\ origin' = origin
  BY DEF input
<1>2. oldindex' = oldindex /\ MaxDT' = MaxDT
  BY <1>1 DEF oldindex, MaxDT
<1>3. Reached' = Reached
  BY <1>1, <1>2 DEF Reached
<1>4. \A lag : /\ Fires("UncareRemaining", lag)' <=> Fires("UncareRemaining", lag)
               /\ Fires("UncareThis", lag)' <=> Fires("UncareThis", lag)
               /\ Fires("ValueThis", lag)' <=> Fires("ValueThis", lag)
               /\ Fires("ValueRemaining", lag)' <=> Fires("ValueRemaining", lag)
  BY <1>1, <1>2 DEF Fires
<1>5. \A lag : Settles(lag)' <=> Settles(lag)
  BY <1>4 DEF Settles
<1>6. \A lag : Added(lag)' = Added(lag)
  BY <1>4, <1>5 DEF Added
<1> QED BY <1>2, <1>3, <1>4, <1>5, <1>6

(* The outcomes of doICare and quickCorrelate are those of the conditions. *)
LEMMA Outcomes ==
  /\ Care = "UncareRemaining" <=> Fires("UncareRemaining", dt)
  /\ Care = "UncareThis" <=> ~Fires("UncareRemaining", dt) /\ Fires("UncareThis", dt)
  /\ Care = "NoConsequence" <=> ~Fires("UncareRemaining", dt) /\ ~Fires("UncareThis", dt)
  /\ Quick = "ValueRemaining" <=> Fires("ValueRemaining", dt)
  /\ Quick = "ValueThis" <=> ~Fires("ValueRemaining", dt) /\ Fires("ValueThis", dt)
  /\ Quick = "NoConsequence" <=> ~Fires("ValueRemaining", dt) /\ ~Fires("ValueThis", dt)
BY DEF Care, Quick, DoICare, QuickCorrelate, Fires, newindex

-----------------------------------------------------------------------------
LEMMA OriginInvInit == OriginInit => OriginInv
<1> SUFFICES ASSUME OriginInit PROVE OriginInv
  OBVIOUS
<1>1. origin \in 0 .. NumFrames - 1 /\ MaxDT \in -1 .. MaxTime - 1 /\ MaxTime \in Nat \ {0}
  BY RangeOfMaxDT, MaxTimeAssumption DEF OriginInit
<1>2. Nothing \in [Lags -> [zeroes : Nat, values : Nat]]
  BY DEF Nothing
<1>3. OriginTypeOK
  <2>1. dt = 0 /\ doicare = "NoConsequence" /\ resultisknown = FALSE
        /\ pc = "loop" /\ tempOutData = Nothing /\ mOutData = Nothing
    BY DEF OriginInit
  <2>2. dt \in 0 .. MaxTime
    BY <1>1, <2>1
  <2>3. doicare \in Consequences
    BY <2>1 DEF Consequences
  <2> QED BY <1>1, <1>2, <2>1, <2>2, <2>3 DEF OriginTypeOK
<1>4. OriginTypeInv
  BY <1>1, <1>3, OptionsAssumption DEF OriginInit, OriginTypeInv
<1>5. WentThrough(dt) /\ ~SettledBefore(dt)
  BY DEF OriginInit, WentThrough, SettledBefore
<1>6. Collected
  BY <1>1 DEF OriginInit, Collected, Nothing, Empty, Lags
<1> QED BY <1>4, <1>5, <1>6 DEF OriginInit, OriginInv, LoopInv, Looping

(* One more lag has been gone through.                                     *)
LEMMA NextTurn ==
  ASSUME OriginInv, InLoop, UNCHANGED input, dt' = dt + 1, pc' = pc, mOutData' = mOutData,
         ~Fires("UncareRemaining", dt),
         doicare' \in Consequences \ {"UncareRemaining"},
         resultisknown' \in BOOLEAN, resultisknown' <=> resultisknown \/ Settles(dt),
         options[1] => ~Settles(dt),
         tempOutData' \in [Lags -> [zeroes : Nat, values : Nat]],
         \A lag \in Lags : tempOutData'[lag] = IF lag = dt THEN Added(dt) ELSE tempOutData[lag]
  PROVE  OriginInv'
<1>1. /\ dt \in Reached /\ pc = "loop" /\ dt \in Nat /\ dt <= MaxDT
      /\ MaxDT \in -1 .. MaxTime - 1 /\ MaxTime \in Nat \ {0}
  BY InLoopReached, RangeOfMaxDT, MaxTimeAssumption DEF OriginInv, OriginTypeInv, OriginTypeOK, Reached
<1>2. dt + 1 \in 0 .. MaxDT + 1 /\ dt + 1 \in 0 .. MaxTime
  BY <1>1
<1>3. OriginTypeInv'
  <2>1. OriginTypeOK'
    BY <1>2 DEF OriginInv, OriginTypeInv, OriginTypeOK, input
  <2> QED BY <1>2, <2>1, InputFixed DEF OriginInv, OriginTypeInv, input, Indices
<1>4. WentThrough(dt)'
  BY <1>1, InputFixed DEF OriginInv, LoopInv, WentThrough
<1>5. SettledBefore(dt)' <=> SettledBefore(dt) \/ Settles(dt)
  BY <1>1, InputFixed DEF SettledBefore
<1>6. Collected'
  <2> SUFFICES ASSUME NEW lag \in Lags
               PROVE  tempOutData'[lag] = IF lag < dt + 1 THEN Added(lag) ELSE Empty
    BY InputFixed DEF Collected
  <2>1. Collected /\ lag \in Nat
    BY <1>1 DEF OriginInv, LoopInv, Looping, Lags
  <2>2. tempOutData[lag] = IF lag < dt THEN Added(lag) ELSE Empty
    BY <2>1 DEF Collected
  <2> HIDE DEF Added
  <2>3. CASE lag = dt
    BY <1>1, <2>3
  <2>4. CASE lag < dt
    BY <1>1, <2>1, <2>2, <2>4
  <2>5. CASE lag > dt
    BY <1>1, <2>1, <2>2, <2>5
  <2> QED BY <1>1, <2>1, <2>3, <2>4, <2>5
<1>7. options' = options
  BY DEF input
<1> QED BY <1>1, <1>3, <1>4, <1>5, <1>6, <1>7 DEF OriginInv, LoopInv, Looping
LEMMA OriginInvNext == OriginInv /\ [OriginNext]_originVars => OriginInv'
<1> SUFFICES ASSUME OriginInv, [OriginNext]_originVars PROVE OriginInv'
  OBVIOUS
<1>0. /\ OriginTypeInv /\ OriginTypeOK /\ LoopInv /\ dt \in Nat
      /\ MaxDT \in -1 .. MaxTime - 1 /\ MaxTime \in Nat \ {0}
  BY RangeOfMaxDT, MaxTimeAssumption DEF OriginInv, OriginTypeInv, OriginTypeOK
<1>t. /\ tempOutData \in [Lags -> [zeroes : Nat, values : Nat]]
      /\ resultisknown \in BOOLEAN
  BY <1>0 DEF OriginTypeOK
(* What a turn adds to its lag, when nothing had been added to it.         *)
<1>a. ASSUME InLoop
      PROVE  /\ dt \in Reached /\ dt \in Lags /\ dt <= MaxDT /\ Looping
             /\ tempOutData[dt] = Empty
             /\ Fires("UncareThis", dt) => Added(dt) = Empty
             /\ ~Fires("UncareThis", dt) /\ (SettledBefore(dt) \/ Settles(dt)) => Added(dt) = Zero
             /\ ~Fires("UncareThis", dt) /\ ~SettledBefore(dt) /\ ~Settles(dt)
                  => Added(dt) = IF Fires("ValueThis", dt) THEN Zero ELSE Value
  <2>1. dt \in Reached /\ dt \in Lags /\ dt <= MaxDT /\ Looping
    BY <1>0, <1>a, InLoopReached DEF LoopInv, Reached
  <2>2. tempOutData[dt] = Empty
    BY <1>0, <2>1 DEF Looping, Collected
  <2>3. (\E e \in 0 .. dt : Settles(e)) <=> SettledBefore(dt) \/ Settles(dt)
    BY <1>0 DEF SettledBefore
  <2> QED BY <2>1, <2>2, <2>3 DEF Added
(* The same with the field of the counter that the action names.           *)
<1>b. ASSUME NEW field \in {"zeroes", "values"}, Add({dt}, field), InLoop
      PROVE  /\ tempOutData' \in [Lags -> [zeroes : Nat, values : Nat]]
             /\ \A lag \in Lags :
                  tempOutData'[lag] = IF lag = dt THEN IF field = "zeroes" THEN Zero ELSE Value
                                      ELSE tempOutData[lag]
  <2>1. dt \in Lags /\ tempOutData[dt] = Empty
    BY <1>a, <1>b
  <2>2. [tempOutData[dt] EXCEPT ![field] = @ + 1] = IF field = "zeroes" THEN Zero ELSE Value
    BY <2>1 DEF Empty, Zero, Value
  <2>3. \A lag \in Lags :
          tempOutData'[lag] = IF lag = dt THEN IF field = "zeroes" THEN Zero ELSE Value
                              ELSE tempOutData[lag]
    BY <1>b, <2>2 DEF Add
  <2>4. Zero \in [zeroes : Nat, values : Nat] /\ Value \in [zeroes : Nat, values : Nat]
    BY DEF Zero, Value
  <2>5. tempOutData' = [lag \in Lags |-> tempOutData'[lag]]
    BY <1>b DEF Add
  <2>6. \A lag \in Lags : tempOutData'[lag] \in [zeroes : Nat, values : Nat]
    BY <1>t, <2>3, <2>4
  <2> QED BY <2>3, <2>5, <2>6
<1>1. CASE UncareRemaining
  <2>1. UNCHANGED input /\ dt' = dt /\ tempOutData' = tempOutData /\ mOutData' = mOutData
        /\ InLoop /\ Fires("UncareRemaining", dt) /\ resultisknown' = resultisknown
        /\ doicare' = "UncareRemaining" /\ pc' = "commit"
    BY <1>1, Outcomes DEF UncareRemaining
  <2>2. dt \in Reached /\ Looping /\ options' = options
    BY <1>a, <2>1 DEF input
  <2>3. OriginTypeInv'
    <3>1. OriginTypeOK'
      BY <1>0, <2>1 DEF OriginTypeOK, input, Consequences
    <3> QED BY <1>0, <2>1, <3>1, InputFixed DEF OriginTypeInv, input, Indices
  <2>4. WentThrough(dt)'
    BY <1>0, <2>1, InputFixed DEF LoopInv, WentThrough
  <2>5. EndedUncare'
    <3>1. SettledBefore(dt)' <=> SettledBefore(dt)
      BY <2>1, InputFixed DEF SettledBefore
    <3>2. Collected'
      BY <2>1, <2>2, InputFixed DEF Looping, Collected
    <3>3. dt' \in Reached' /\ Fires("UncareRemaining", dt)'
      <4>1. Fires("UncareRemaining", dt)' <=> Fires("UncareRemaining", dt)
        BY <2>1 DEF Fires, oldindex, input
      <4> QED BY <2>1, <2>2, <4>1, InputFixed
    <3> QED BY <2>1, <2>2, <3>1, <3>2, <3>3 DEF EndedUncare, Looping
  <2> QED BY <1>1, <1>0, <2>1, <2>3, <2>4, <2>5, InLoopReached DEF OriginInv, LoopInv, Ended, InLoop, Nothing
<1>2. CASE UncareThis
  <2>1. /\ InLoop /\ UNCHANGED input /\ dt' = dt + 1 /\ pc' = pc /\ mOutData' = mOutData
        /\ ~Fires("UncareRemaining", dt) /\ Fires("UncareThis", dt)
        /\ doicare' = "UncareThis" /\ resultisknown' = resultisknown
        /\ tempOutData' = tempOutData
    BY <1>2, Outcomes DEF UncareThis, NextLag
  <2>2. ~Settles(dt) /\ tempOutData[dt] = Added(dt)
    BY <1>a, <2>1 DEF Settles
  <2>3. doicare' \in Consequences \ {"UncareRemaining"}
    BY <2>1 DEF Consequences
  <2> QED BY <1>t, <2>1, <2>2, <2>3, NextTurn
<1>3. CASE ResultIsKnown
  <2>1. /\ InLoop /\ UNCHANGED input /\ dt' = dt + 1 /\ pc' = pc /\ mOutData' = mOutData
        /\ ~Fires("UncareRemaining", dt) /\ ~Fires("UncareThis", dt)
        /\ doicare' = "NoConsequence" /\ resultisknown' = resultisknown /\ resultisknown
        /\ Add({dt}, "zeroes")
    BY <1>3, Outcomes DEF ResultIsKnown, NextLag
  <2>2. SettledBefore(dt) /\ ~options[1]
    BY <1>a, <2>1 DEF Looping
  <2>3. Added(dt) = Zero
    BY <1>a, <2>1, <2>2
  <2>4. doicare' \in Consequences \ {"UncareRemaining"}
    BY <2>1 DEF Consequences
  <2>5. /\ tempOutData' \in [Lags -> [zeroes : Nat, values : Nat]]
        /\ \A lag \in Lags : tempOutData'[lag] = IF lag = dt THEN Added(dt) ELSE tempOutData[lag]
    BY <1>b, <2>1, <2>3
  <2> QED BY <1>t, <2>1, <2>2, <2>4, <2>5, NextTurn
<1>4. CASE ValueRemaining
  <2>1. /\ InLoop /\ UNCHANGED input /\ mOutData' = mOutData
        /\ ~Fires("UncareRemaining", dt) /\ ~Fires("UncareThis", dt) /\ Settles(dt)
        /\ doicare' = "NoConsequence" /\ ~resultisknown /\ resultisknown' = TRUE
    BY <1>4, Outcomes DEF ValueRemaining, Settles
  <2>2. dt \in Reached /\ dt \in Lags /\ dt <= MaxDT /\ Looping /\ Added(dt) = Zero
        /\ ~SettledBefore(dt)
    BY <1>a, <2>1 DEF Looping
  <2>3. doicare' \in Consequences \ {"UncareRemaining"}
    BY <2>1 DEF Consequences
  <2>4. CASE ~options[1] /\ Add({dt}, "zeroes") /\ NextLag
    <3>1. /\ tempOutData' \in [Lags -> [zeroes : Nat, values : Nat]]
          /\ \A lag \in Lags : tempOutData'[lag] = IF lag = dt THEN Added(dt) ELSE tempOutData[lag]
      BY <1>b, <2>1, <2>2, <2>4
    <3>2. dt' = dt + 1 /\ pc' = pc /\ (resultisknown' <=> resultisknown \/ Settles(dt))
      BY <2>1, <2>4 DEF NextLag
    <3> QED BY <1>t, <2>1, <2>3, <2>4, <3>1, <3>2, NextTurn
  <2>5. CASE options[1] /\ Add(dt .. MaxDT, "zeroes") /\ pc' = "commit" /\ UNCHANGED dt
    <3>1. \A lag \in Lags :
            /\ lag \in dt .. MaxDT => tempOutData'[lag] = [tempOutData[lag] EXCEPT !["zeroes"] = @ + 1]
            /\ lag \notin dt .. MaxDT => tempOutData'[lag] = tempOutData[lag]
      BY <2>5 DEF Add
    <3>2. \A lag \in Lags : /\ lag < dt => tempOutData[lag] = Added(lag)
                            /\ ~(lag < dt) => tempOutData[lag] = Empty
      BY <2>2 DEF Looping, Collected
    <3>3. [Empty EXCEPT !["zeroes"] = @ + 1] = Zero
      BY DEF Empty, Zero
    <3>4. \A lag \in Lags : /\ lag \in Nat
                            /\ lag < dt => lag \notin dt .. MaxDT
                            /\ lag >= dt => ~(lag < dt) /\ (lag \in dt .. MaxDT <=> lag <= MaxDT)
                            /\ lag < dt \/ lag >= dt
      BY <1>0 DEF Lags
    <3>5. \A lag \in Lags : tempOutData'[lag] =
            IF lag < dt THEN Added(lag) ELSE IF lag <= MaxDT THEN Zero ELSE Empty
      BY <3>1, <3>2, <3>3, <3>4, Zenon
    <3>6. Filled'
      BY <2>1, <2>5, <3>5, InputFixed DEF Filled
    <3>7. tempOutData' \in [Lags -> [zeroes : Nat, values : Nat]]
      <4>1. Zero \in [zeroes : Nat, values : Nat] /\ Empty \in [zeroes : Nat, values : Nat]
        BY DEF Zero, Empty
      <4>2. \A lag \in Lags : tempOutData'[lag] \in [zeroes : Nat, values : Nat]
        <5> SUFFICES ASSUME NEW lag \in Lags
                     PROVE  tempOutData'[lag] \in [zeroes : Nat, values : Nat]
          OBVIOUS
        <5>1. CASE lag \in dt .. MaxDT
          BY <1>0, <3>4, <3>5, <4>1, <5>1
        <5>2. CASE lag \notin dt .. MaxDT
          BY <1>t, <3>1, <5>2
        <5> QED BY <5>1, <5>2
      <4>3. tempOutData' = [lag \in Lags |-> tempOutData'[lag]]
        BY <2>5 DEF Add
      <4> QED BY <4>2, <4>3
    <3>8. OriginTypeInv'
      <4>1. OriginTypeOK'
        BY <1>0, <2>1, <2>3, <2>5, <3>7 DEF OriginTypeOK, input
      <4> QED BY <1>0, <2>1, <2>5, <4>1, InputFixed DEF OriginTypeInv, input, Indices
    <3>9. WentThrough(dt)'
      BY <1>0, <2>1, <2>5, InputFixed DEF LoopInv, WentThrough
    <3>10. EndedFilled'
      <4>1. /\ Fires("UncareRemaining", dt)' <=> Fires("UncareRemaining", dt)
            /\ Settles(dt)' <=> Settles(dt)
        BY <2>1, <2>5 DEF Settles, Fires, oldindex, input
      <4>2. SettledBefore(dt)' <=> SettledBefore(dt)
        BY <2>1, <2>5, InputFixed DEF SettledBefore
      <4>3. options'[1] = options[1]
        BY <2>1 DEF input
      <4> QED BY <2>1, <2>2, <2>5, <3>6, <4>1, <4>2, <4>3, InputFixed DEF EndedFilled
    <3>11. mOutData' = Nothing' /\ pc' = "commit"
      BY <1>0, <2>1, <2>5 DEF LoopInv, InLoop, Nothing
    <3> QED BY <3>8, <3>9, <3>10, <3>11 DEF OriginInv, LoopInv, Ended
  <2> QED BY <1>4, <2>4, <2>5 DEF ValueRemaining
<1>5. CASE ValueThis
  <2>1. /\ InLoop /\ UNCHANGED input /\ dt' = dt + 1 /\ pc' = pc /\ mOutData' = mOutData
        /\ ~Fires("UncareRemaining", dt) /\ ~Fires("UncareThis", dt) /\ ~Settles(dt)
        /\ Fires("ValueThis", dt)
        /\ doicare' = "NoConsequence" /\ ~resultisknown /\ resultisknown' = resultisknown
        /\ Add({dt}, "zeroes")
    BY <1>5, Outcomes DEF ValueThis, NextLag, Settles
  <2>2. ~SettledBefore(dt) /\ Added(dt) = Zero
    BY <1>a, <2>1 DEF Looping
  <2>3. doicare' \in Consequences \ {"UncareRemaining"}
    BY <2>1 DEF Consequences
  <2>4. /\ tempOutData' \in [Lags -> [zeroes : Nat, values : Nat]]
        /\ \A lag \in Lags : tempOutData'[lag] = IF lag = dt THEN Added(dt) ELSE tempOutData[lag]
    BY <1>b, <2>1, <2>2
  <2> QED BY <1>t, <2>1, <2>3, <2>4, NextTurn
<1>6. CASE CorrelateWithLatest
  <2>1. /\ InLoop /\ UNCHANGED input /\ dt' = dt + 1 /\ pc' = pc /\ mOutData' = mOutData
        /\ ~Fires("UncareRemaining", dt) /\ ~Fires("UncareThis", dt) /\ ~Settles(dt)
        /\ ~Fires("ValueThis", dt)
        /\ doicare' = "NoConsequence" /\ ~resultisknown /\ resultisknown' = resultisknown
        /\ Add({dt}, "values")
    BY <1>6, Outcomes DEF CorrelateWithLatest, NextLag, Settles
  <2>2. ~SettledBefore(dt) /\ Added(dt) = Value
    BY <1>a, <2>1 DEF Looping
  <2>3. doicare' \in Consequences \ {"UncareRemaining"}
    BY <2>1 DEF Consequences
  <2>4. /\ tempOutData' \in [Lags -> [zeroes : Nat, values : Nat]]
        /\ \A lag \in Lags : tempOutData'[lag] = IF lag = dt THEN Added(dt) ELSE tempOutData[lag]
    BY <1>b, <2>1, <2>2
  <2> QED BY <1>t, <2>1, <2>3, <2>4, NextTurn
<1>7. CASE LeaveLoop
  <2>1. /\ UNCHANGED <<input, dt, doicare, resultisknown, tempOutData, mOutData>>
        /\ pc = "loop" /\ pc' = "commit" /\ dt \notin Reached
    BY <1>7, <1>0, InLoopReached DEF LeaveLoop
  <2>2. Looping /\ options' = options
    BY <1>0, <2>1 DEF LoopInv, input
  <2>3. OriginTypeInv'
    <3>1. OriginTypeOK'
      BY <1>0, <2>1 DEF OriginTypeOK, input
    <3> QED BY <1>0, <2>1, <3>1, InputFixed DEF OriginTypeInv, input, Indices
  <2>4. WentThrough(dt)'
    BY <1>0, <2>1, InputFixed DEF LoopInv, WentThrough
  <2>5. EndedExhausted'
    <3>1. SettledBefore(dt)' <=> SettledBefore(dt)
      BY <2>1, InputFixed DEF SettledBefore
    <3>2. Collected'
      BY <2>1, <2>2, InputFixed DEF Looping, Collected
    <3> QED BY <2>1, <2>2, <3>1, <3>2, InputFixed DEF EndedExhausted, Looping
  <2> QED BY <1>0, <2>1, <2>3, <2>4, <2>5 DEF OriginInv, LoopInv, Ended, Nothing
<1>8. ASSUME UNCHANGED <<input, dt, doicare, resultisknown, tempOutData>>
      PROVE  WentThrough(dt)' /\ (Ended' <=> Ended) /\ (Looping' <=> Looping)
  <2>1. WentThrough(dt)' /\ (SettledBefore(dt)' <=> SettledBefore(dt))
    BY <1>0, <1>8, InputFixed DEF LoopInv, WentThrough, SettledBefore
  <2>2. (Collected' <=> Collected) /\ (Filled' <=> Filled)
    BY <1>8, InputFixed DEF Collected, Filled
  <2>3. /\ Fires("UncareRemaining", dt)' <=> Fires("UncareRemaining", dt)
        /\ Settles(dt)' <=> Settles(dt)
    BY <1>8 DEF Settles, Fires, oldindex, input
  <2>4. options' = options /\ Reached' = Reached
    BY <1>8, InputFixed DEF input
  <2> QED BY <1>8, <2>1, <2>2, <2>3, <2>4
          DEF Ended, EndedUncare, EndedExhausted, EndedFilled, Looping
<1>9. CASE Commit
  <2>1. /\ UNCHANGED <<input, dt, doicare, resultisknown, tempOutData>>
        /\ pc = "commit" /\ pc' = "done" /\ Ended /\ mOutData = Nothing /\ options' = options
    BY <1>9, <1>0 DEF Commit, LoopInv, input
  <2>2. mOutData' = IF doicare = "UncareRemaining" /\ options[2] THEN Nothing ELSE tempOutData
    <3>1. CASE doicare = "UncareRemaining" /\ options[2]
      BY <1>9, <2>1, <3>1 DEF Commit
    <3>2. CASE ~(doicare = "UncareRemaining" /\ options[2])
      <4>1. mOutData' = [lag \in Lags |->
              [zeroes |-> mOutData[lag].zeroes + tempOutData[lag].zeroes,
               values |-> mOutData[lag].values + tempOutData[lag].values]]
        BY <1>9, <3>2 DEF Commit
      <4>2. \A lag \in Lags : mOutData[lag].zeroes = 0 /\ mOutData[lag].values = 0
        BY <2>1 DEF Nothing
      <4>3. \A lag \in Lags :
              [zeroes |-> mOutData[lag].zeroes + tempOutData[lag].zeroes,
               values |-> mOutData[lag].values + tempOutData[lag].values] = tempOutData[lag]
        BY <1>t, <4>2
      <4>4. tempOutData = [lag \in Lags |-> tempOutData[lag]]
        BY <1>t
      <4> QED BY <3>2, <4>1, <4>3, <4>4
    <3> QED BY <3>1, <3>2
  <2>3. mOutData' \in [Lags -> [zeroes : Nat, values : Nat]]
    BY <1>t, <2>2 DEF Nothing
  <2>4. OriginTypeInv'
    <3>1. OriginTypeOK'
      BY <1>0, <2>1, <2>3 DEF OriginTypeOK, input
    <3> QED BY <1>0, <2>1, <3>1, InputFixed DEF OriginTypeInv, input, Indices
  <2> QED BY <1>8, <2>1, <2>2, <2>4 DEF OriginInv, LoopInv, Nothing
<1>10. CASE UNCHANGED originVars
  <2>1. UNCHANGED <<input, dt, doicare, resultisknown, tempOutData, mOutData, pc, options>>
    BY <1>10 DEF originVars, input
  <2>2. OriginTypeInv'
    <3>1. OriginTypeOK'
      BY <1>0, <2>1 DEF OriginTypeOK, input
    <3> QED BY <1>0, <2>1, <3>1, InputFixed DEF OriginTypeInv, input, Indices
  <2> QED BY <1>0, <1>8, <2>1, <2>2 DEF OriginInv, LoopInv, Nothing
<1> QED BY <1>1, <1>2, <1>3, <1>4, <1>5, <1>6, <1>7, <1>9, <1>10 DEF OriginNext

(* The invariant holds in every state.                                     *)
THEOREM OriginInvariance == OriginSpec => []OriginInv
<1> QED BY OriginInvInit, OriginInvNext, PTL DEF OriginSpec

(* An origin never adds more samples to a longer lag than to a shorter.    *)
LEMMA DecreaseInv == OriginInv => SamplesDecrease
<1> SUFFICES ASSUME OriginInv, NoUncareThis, NEW short \in Lags, NEW long \in Lags, short <= long
             PROVE  mOutData[long].zeroes + mOutData[long].values
                      <= mOutData[short].zeroes + mOutData[short].values
  BY DEF SamplesDecrease
<1>1. /\ MaxDT \in -1 .. MaxTime - 1 /\ MaxTime \in Nat \ {0} /\ dt \in Nat
      /\ short \in Nat /\ long \in Nat
  BY RangeOfMaxDT, MaxTimeAssumption DEF OriginInv, OriginTypeInv, OriginTypeOK, Lags, Reached
<1>2. \A lag : ~Fires("UncareThis", lag)
  BY DEF NoUncareThis, Fires, CheckTCFCondition
<1>3. \A lag : Added(lag) = Zero \/ Added(lag) = Value
  BY <1>2 DEF Added
<1> DEFINE Samples(r) == r.zeroes + r.values
<1>4. Samples(Zero) = 1 /\ Samples(Value) = 1 /\ Samples(Empty) = 0
  BY DEF Zero, Value, Empty
<1>5. \A lag : Samples(Added(lag)) = 1
  BY <1>3, <1>4
<1>6. CASE mOutData = Nothing
  BY <1>6 DEF Nothing
<1>7. CASE pc = "done" /\ mOutData = tempOutData
  <2>1. \A lag \in {short, long} : lag < dt => Samples(tempOutData[lag]) = 1
    BY <1>5, <1>7 DEF OriginInv, LoopInv, Ended, EndedUncare, EndedExhausted, EndedFilled,
       Collected, Filled
  <2>2. CASE Collected
    <3>1. /\ ~(short < dt) => Samples(tempOutData[short]) = 0
          /\ ~(long < dt) => Samples(tempOutData[long]) = 0
          /\ short < dt => Samples(tempOutData[short]) = 1
          /\ long < dt => Samples(tempOutData[long]) = 1
      BY <1>4, <2>1, <2>2 DEF Collected
    <3> HIDE DEF Samples
    <3>2. Samples(tempOutData[long]) <= Samples(tempOutData[short])
      <4>1. CASE long < dt
        <5>1. short < dt
          BY <1>1, <4>1
        <5> QED BY <3>1, <4>1, <5>1
      <4>2. CASE ~(long < dt)
        BY <3>1, <4>2
      <4> QED BY <4>1, <4>2
    <3> QED BY <1>7, <3>2 DEF Samples
  <2>3. CASE Filled /\ dt \in Reached
    <3>1. /\ short <= MaxDT \/ short < dt => Samples(tempOutData[short]) = 1
          /\ long <= MaxDT \/ long < dt => Samples(tempOutData[long]) = 1
          /\ short <= MaxDT \/ short < dt \/ Samples(tempOutData[short]) = 0
          /\ long <= MaxDT \/ long < dt \/ Samples(tempOutData[long]) = 0
      BY <1>4, <2>1, <2>3 DEF Filled
    <3> HIDE DEF Samples
    <3>2. Samples(tempOutData[long]) <= Samples(tempOutData[short])
      <4>1. CASE long <= MaxDT \/ long < dt
        <5>1. short <= MaxDT \/ short < dt
          BY <1>1, <4>1
        <5> QED BY <3>1, <4>1, <5>1
      <4>2. CASE ~(long <= MaxDT \/ long < dt)
        BY <3>1, <4>2
      <4> QED BY <4>1, <4>2
    <3> QED BY <1>7, <3>2 DEF Samples
  <2> QED BY <1>7, <2>2, <2>3 DEF OriginInv, LoopInv, Ended, EndedUncare, EndedExhausted, EndedFilled
<1> QED BY <1>6, <1>7 DEF OriginInv, LoopInv

(* Whatever the conditions, the options and the flags, as long as there is *)
(* no UncareThis.                                                          *)
THEOREM Decreasing == OriginSpec => []SamplesDecrease
<1> QED BY OriginInvariance, DecreaseInv, PTL

-----------------------------------------------------------------------------
(***************************************************************************)
(* The conditions themselves.  The numbers of a condition make sense when  *)
(* the coordination and second value types, whose numbers addCondition     *)
(* drops, have none, and when a condition on the current frame alone has   *)
(* the limit 0.                                                            *)
(***************************************************************************)
ConditionType(c) ==
  /\ c.type \in OldTypes \cup NewTypes
  /\ c.history \in Int /\ c.continuous \in Int /\ c.max \in Int
  /\ c.negate \in BOOLEAN /\ c.softhistory \in BOOLEAN

Sensible(c) ==
  /\ c.type \notin {"OldMember", "NewMember", "OldValue1", "NewValue1"}
       => c.history = 0 /\ c.continuous = 0 /\ c.max = 0
  /\ c.history <= 0 => c.continuous = 0 \/ c.max = 0
  /\ c.softhistory => Item = 0

SensibleLists ==
  \A list \in ConditionLists : \A k \in DOMAIN list : ConditionType(list[k]) /\ Sensible(list[k])

-----------------------------------------------------------------------------
(* Kept, for the flags F and numbers given one by one.                     *)
KeptTo(F, continuous, max, first, last) ==
  /\ max >= 0 => Cardinality({f \in first .. last : ~F[Frame(f)]}) <= max
  /\ continuous >= 0 =>
       \A f \in first .. last - continuous : \E g \in f .. f + continuous : F[Frame(g)]

LEMMA FrameFacts ==
  ASSUME NEW f \in Int, NEW h \in Int
  PROVE  /\ Frame(f) - h * NumItems = Frame(f - h)
         /\ Frame(f) + h * NumItems = Frame(f + h)
         /\ Frame(f) >= 0 <=> f >= 0
         /\ Frame(f) \in Int
<1>1. NumItems \in Nat \ {0} /\ Item \in 0 .. NumItems - 1
  BY ItemAssumption
<1>2. NumItems * (f - h) = NumItems * f - h * NumItems /\ NumItems * (f + h) = NumItems * f + h * NumItems
  BY <1>1
<1>3. NumItems * f \in Int /\ h * NumItems \in Int
  BY <1>1
<1>4. f >= 0 => NumItems * f >= 0
  BY <1>1
<1>5. ~(f >= 0) => NumItems * f <= -NumItems
  <2>1. ASSUME f <= -1 PROVE NumItems * (-1 - f) >= 0
    BY <1>1, <2>1
  <2>2. NumItems * (-1 - f) = -NumItems - NumItems * f
    BY <1>1
  <2> QED BY <1>1, <1>3, <2>1, <2>2
<1> QED BY <1>1, <1>2, <1>3, <1>4, <1>5 DEF Frame

LEMMA QuotientOfProduct ==
  ASSUME NEW n \in Nat \ {0}, NEW k \in Nat
  PROVE  (n * k) \div n = k
<1>1. n * k = n * k + 0 /\ n * k \in Nat
  OBVIOUS
<1> QED BY <1>1

LEMMA FrameInWindow ==
  ASSUME NEW f \in 0 .. NumFrames - 1
  PROVE  Frame(f) \in Indices
<1>1. NumItems \in Nat \ {0} /\ Item \in 0 .. NumItems - 1 /\ NumFrames \in Nat /\ f \in Nat
  BY ItemAssumption, NumFramesAssumption
<1>2. NumItems * f + Item + 0 * NumItems < NumItems * NumFrames
  BY <1>1, IndexInWindow
<1>3. NumItems * f \in Nat /\ NumItems * NumFrames \in Nat
  BY <1>1
<1> QED BY <1>1, <1>2, <1>3 DEF Frame, Indices

(* The limits, as the counters tell them over the frames first .. last.    *)
LEMMA CountersTellKept ==
  ASSUME NEW F \in [Indices -> BOOLEAN], NEW last \in 0 .. NumFrames - 1, NEW first \in 0 .. last,
         NEW continuous \in Int, NEW max \in Int
  PROVE  LET z == Zeroes(F, Frame(first), Frame(last))
         IN KeptTo(F, continuous, max, first, last)
              <=> /\ continuous >= 0 => z.longest <= continuous
                  /\ max >= 0 => z.total <= max
<1> DEFINE n == last - first
           b == [j \in 0 .. n |-> F[Frame(first + j)]]
           z == Zeroes(F, Frame(first), Frame(last))
<1>1. n \in Nat /\ first \in Nat /\ last \in Nat /\ first + n = last /\ NumFrames \in Nat
  BY NumFramesAssumption
<1>2. b \in [0 .. n -> BOOLEAN]
  BY <1>1, FrameInWindow
<1>3. \A j \in 0 .. n : b[j] = F[Frame(first) + j * NumItems]
  <2>1. \A j \in 0 .. n : Frame(first) + j * NumItems = Frame(first + j)
    BY <1>1, FrameFacts
  <2> QED BY <2>1
<1>4. (Frame(last) - Frame(first)) \div NumItems = n
  <2>1. Frame(last) = Frame(first) + n * NumItems /\ Frame(first) \in Int
    BY <1>1, FrameFacts
  <2>2. NumItems \in Nat \ {0} /\ n * NumItems \in Nat /\ n * NumItems = NumItems * n
    BY <1>1, ItemAssumption
  <2>3. Frame(last) - Frame(first) = NumItems * n
    BY <2>1, <2>2
  <2> QED BY <1>1, <2>2, <2>3, QuotientOfProduct
<1>5. \A j \in 0 .. n : b[j] <=> F[Frame(first + j)]
  OBVIOUS
<1> HIDE DEF n, b
<1>6. CountedRight(b, n, z)
  BY <1>1, <1>2, <1>3, <1>4, ZeroesRight
<1> HIDE DEF z
<1>7. z.total = Cardinality({f \in first .. last : ~F[Frame(f)]})
  <2> DEFINE S == {j \in 0 .. n : ~b[j]}
             T == {f \in first .. last : ~F[Frame(f)]}
             shift == [j \in S |-> first + j]
  <2>1. IsFiniteSet(S)
    <3>1. IsFiniteSet(0 .. n) /\ S \in SUBSET (0 .. n)
      BY <1>1, FS_Interval
    <3> QED BY <3>1, FS_Subset
  <2>2. shift \in [S -> T]
    BY <1>1, <1>5
  <2>3. \A i, j \in S : shift[i] = shift[j] => i = j
    BY <1>1
  <2>4. \A f \in T : \E j \in S : shift[j] = f
    <3> TAKE f \in T
    <3>1. f - first \in 0 .. n /\ first + (f - first) = f
      BY <1>1
    <3>2. f - first \in S
      BY <1>5, <3>1
    <3> QED BY <3>1, <3>2
  <2>5. shift \in Bijection(S, T)
    BY <2>2, <2>3, <2>4 DEF Bijection, Injection, Surjection, IsInjective
  <2>6. Cardinality(S) = Cardinality(T)
    BY <2>1, <2>5, FS_Bijection DEF ExistsBijection
  <2> QED BY <1>6, <2>6 DEF CountedRight, FalseFlags
<1>8. continuous >= 0 =>
        (NoLongRun(b, n, continuous) <=>
           \A f \in first .. last - continuous : \E g \in f .. f + continuous : F[Frame(g)])
  <2> HAVE continuous >= 0
  <2>1. ASSUME NoLongRun(b, n, continuous), NEW f \in first .. last - continuous
        PROVE  \E g \in f .. f + continuous : F[Frame(g)]
    <3>1. f - first \in 0 .. n - continuous
      BY <1>1, <2>1
    <3>2. PICK j \in f - first .. f - first + continuous : b[j]
      BY <2>1, <3>1 DEF NoLongRun
    <3>3. j \in 0 .. n /\ first + j \in f .. f + continuous
      BY <1>1, <3>1
    <3> QED BY <1>5, <3>2, <3>3
  <2>2. ASSUME \A f \in first .. last - continuous : \E g \in f .. f + continuous : F[Frame(g)],
               NEW e \in 0 .. n - continuous
        PROVE  \E j \in e .. e + continuous : b[j]
    <3>1. first + e \in first .. last - continuous
      BY <1>1
    <3>2. PICK g \in first + e .. first + e + continuous : F[Frame(g)]
      BY <2>2, <3>1
    <3>3. g - first \in e .. e + continuous /\ g - first \in 0 .. n /\ first + (g - first) = g
      BY <1>1, <3>1
    <3> QED BY <1>5, <3>2, <3>3
  <2> QED BY <2>1, <2>2 DEF NoLongRun
<1>9. continuous >= 0 => (z.longest <= continuous <=> NoLongRun(b, n, continuous))
  BY <1>6 DEF CountedRight
<1> QED BY <1>7, <1>8, <1>9 DEF KeptTo, z

(* checkIfMemberFor at a frame of the window, over h frames before it.     *)
LEMMA MemberTellsKept ==
  ASSUME NEW F \in [Indices -> BOOLEAN], NEW last \in 0 .. NumFrames - 1, NEW h \in Nat,
         NEW continuous \in Int, NEW max \in Int, NEW soft \in BOOLEAN,
         h = 0 => continuous = 0 \/ max = 0, soft => Item = 0
  PROVE  CheckIfMemberFor(F, Frame(last), h * NumItems, continuous, max, soft)
           <=> /\ last - h >= 0 \/ soft
               /\ KeptTo(F, continuous, max, IF last - h < 0 THEN 0 ELSE last - h, last)
<1>1. last \in Nat /\ NumFrames \in Nat /\ NumItems \in Nat \ {0} /\ Item \in 0 .. NumItems - 1
  BY NumFramesAssumption, ItemAssumption
<1>2. CASE h = 0
  <2>1. h * NumItems = 0
    BY <1>1, <1>2
  <2>2. CheckIfMemberFor(F, Frame(last), h * NumItems, continuous, max, soft) <=> F[Frame(last)]
    BY <2>1 DEF CheckIfMemberFor
  <2>3. F[Frame(last)] \in BOOLEAN
    BY FrameInWindow
  <2>4. CASE F[Frame(last)]
    <3>1. {f \in last .. last : ~F[Frame(f)]} = {}
      BY <1>1, <2>4
    <3>2. Cardinality({f \in last .. last : ~F[Frame(f)]}) = 0
      BY <3>1, FS_EmptySet
    <3>3. \A f \in last .. last - continuous :
            continuous >= 0 => last \in f .. f + continuous
      BY <1>1
    <3>4. KeptTo(F, continuous, max, last, last)
      BY <2>4, <3>2, <3>3 DEF KeptTo
    <3> QED BY <1>1, <1>2, <2>2, <2>4, <3>4
  <2>5. CASE ~F[Frame(last)]
    <3>1. {f \in last .. last : ~F[Frame(f)]} = {last}
      BY <1>1, <2>5
    <3>2. Cardinality({f \in last .. last : ~F[Frame(f)]}) = 1
      BY <3>1, FS_Singleton
    <3>3. last \in last .. last - 0 /\ \A g \in last .. last + 0 : g = last
      BY <1>1
    <3>4. ~KeptTo(F, continuous, max, last, last)
      BY <1>2, <2>5, <3>2, <3>3 DEF KeptTo
    <3> QED BY <1>1, <1>2, <2>2, <2>5, <3>4
  <2> QED BY <2>4, <2>5
<1>3. CASE h # 0
  <2> DEFINE start == Frame(last) - h * NumItems
             first == IF last - h < 0 THEN 0 ELSE last - h
  <2>1. h * NumItems # 0
    BY <1>1, <1>3
  <2>2. start = Frame(last - h) /\ (start >= 0 <=> last - h >= 0) /\ start \in Int
    BY <1>1, FrameFacts
  <2>3. CASE ~(last - h >= 0 \/ soft)
    BY <2>1, <2>2, <2>3 DEF CheckIfMemberFor
  <2>4. CASE last - h >= 0 \/ soft
    <3>1. (IF start < 0 THEN 0 ELSE start) = Frame(first)
      <4>1. CASE last - h >= 0
        BY <1>1, <2>2, <4>1
      <4>2. CASE ~(last - h >= 0)
        <5>1. Frame(0) = 0
          BY <1>1, <2>4, <4>2 DEF Frame
        <5> QED BY <1>1, <2>2, <4>2, <5>1
      <4> QED BY <4>1, <4>2
    <3>2. first \in 0 .. last
      BY <1>1
    <3>3. CheckIfMemberFor(F, Frame(last), h * NumItems, continuous, max, soft)
            <=> LET z == Zeroes(F, IF start < 0 THEN 0 ELSE start, Frame(last))
                IN /\ start >= 0 \/ soft
                   /\ continuous >= 0 => z.longest <= continuous
                   /\ max >= 0 => z.total <= max
      BY <2>1 DEF CheckIfMemberFor
    <3> HIDE DEF first, start
    <3>4. CheckIfMemberFor(F, Frame(last), h * NumItems, continuous, max, soft)
            <=> KeptTo(F, continuous, max, first, last)
      BY <2>2, <2>4, <3>1, <3>2, <3>3, CountersTellKept
    <3> QED BY <2>4, <3>4 DEF first
  <2> QED BY <2>3, <2>4
<1> QED BY <1>2, <1>3

(* For sensible conditions the loops of the code and the documentation     *)
(* agree at every lag that is reached.                                     *)
LEMMA ConditionsAgree ==
  ASSUME OriginTypeInv, SensibleLists, NEW k \in DOMAIN conditions, NEW lag \in Reached
  PROVE  Fulfilled(conditions[k], flags[k], oldindex, oldindex + lag * NumItems) <=> Meets(k, lag)
<1> DEFINE c     == conditions[k]
           F     == flags[k]
           old   == c.type \in OldTypes
           last  == IF old THEN origin ELSE origin + lag
           h     == IF c.history < 0 THEN lag ELSE c.history
           first == last - h
<1>1. F \in [Indices -> BOOLEAN] /\ ConditionType(c) /\ Sensible(c)
  BY DEF OriginTypeInv, SensibleLists
<1>2. /\ origin \in 0 .. NumFrames - 1 /\ NumFrames \in Nat /\ lag \in Nat
      /\ origin + lag < NumFrames /\ NumItems \in Nat \ {0}
  BY NumFramesAssumption, MaxTimeAssumption, ItemAssumption DEF OriginTypeInv, OriginTypeOK, Reached, Lags
<1>3. last \in 0 .. NumFrames - 1 /\ h \in Nat
  BY <1>1, <1>2 DEF ConditionType
<1>4. AddCondition(c) = <<c.history, c.continuous, c.max>>
  BY <1>1 DEF AddCondition, Sensible
<1>5. oldindex = Frame(origin) /\ oldindex + lag * NumItems = Frame(origin + lag)
  <2>1. oldindex = Frame(origin)
    BY DEF oldindex, Frame
  <2> QED BY <1>2, <2>1, FrameFacts
<1>6. (IF old THEN oldindex ELSE oldindex + lag * NumItems) = Frame(last)
  BY <1>5
<1>7. (IF c.history < 0 THEN (oldindex + lag * NumItems) - oldindex ELSE c.history * NumItems)
        = h * NumItems
  <2>1. oldindex \in Int /\ lag * NumItems \in Int
    BY <1>2, <1>5, FrameFacts
  <2>2. (oldindex + lag * NumItems) - oldindex = lag * NumItems
    BY <2>1
  <2> QED BY <2>2
<1> DEFINE member == CheckIfMemberFor(F, Frame(last), h * NumItems, c.continuous, c.max, c.softhistory)
<1>8. Fulfilled(c, F, oldindex, oldindex + lag * NumItems) <=> IF c.negate THEN ~member ELSE member
  <2>1. AddCondition(c)[1] = c.history /\ AddCondition(c)[2] = c.continuous
        /\ AddCondition(c)[3] = c.max
    BY <1>4
  <2> HIDE DEF last, h, c, F
  <2> QED BY <1>6, <1>7, <2>1 DEF Fulfilled
<1>9. member <=> /\ first >= 0 \/ c.softhistory
                 /\ KeptTo(F, c.continuous, c.max, IF first < 0 THEN 0 ELSE first, last)
  <2>1. /\ c.continuous \in Int /\ c.max \in Int /\ c.softhistory \in BOOLEAN
        /\ h = 0 => c.continuous = 0 \/ c.max = 0
        /\ c.softhistory => Item = 0
    BY <1>1, <1>2 DEF ConditionType, Sensible
  <2> HIDE DEF last, h, c, F
  <2> QED BY <1>1, <1>3, <2>1, MemberTellsKept
<1>10. Meets(k, lag) <=> LET kept == /\ first >= 0 \/ c.softhistory
                                     /\ KeptTo(F, c.continuous, c.max,
                                               IF first < 0 THEN 0 ELSE first, last)
                         IN IF c.negate THEN ~kept ELSE kept
  BY DEF Meets, Kept, KeptTo
<1> HIDE DEF member, first, last, h
<1> QED BY <1>8, <1>9, <1>10

LEMMA FiresAsTriggered ==
  ASSUME OriginTypeInv, SensibleLists, NEW consequence, NEW lag \in Reached
  PROVE  Fires(consequence, lag) <=> Triggered(consequence, lag)
BY ConditionsAgree DEF Fires, Triggered, CheckTCFCondition

(* What is added in the end is what is expected, in each of the three ways *)
(* to leave the loop.                                                      *)
LEMMA ExpectedAtEnd ==
  ASSUME OriginInv, SensibleLists, pc = "done", NEW lag \in Lags
  PROVE  mOutData[lag] = Expected(lag)
<1>1. /\ OriginTypeInv /\ WentThrough(dt) /\ Ended /\ dt \in Nat /\ lag \in Nat
      /\ MaxDT \in -1 .. MaxTime - 1 /\ MaxTime \in Nat \ {0}
  <2>1. OriginTypeInv /\ WentThrough(dt) /\ Ended
    BY DEF OriginInv, LoopInv
  <2>2. origin \in 0 .. NumFrames - 1 /\ dt \in Nat
    BY <2>1, MaxTimeAssumption DEF OriginTypeInv, OriginTypeOK
  <2> QED BY <2>1, <2>2, RangeOfMaxDT, MaxTimeAssumption DEF Lags
<1>2. \A d \in Reached : /\ d \in Nat /\ d <= MaxDT
                         /\ \A e \in 0 .. d : e \in Reached
                         /\ Fires("UncareRemaining", d) <=> Triggered("UncareRemaining", d)
                         /\ Fires("UncareThis", d) <=> Triggered("UncareThis", d)
                         /\ Fires("ValueRemaining", d) <=> Triggered("ValueRemaining", d)
                         /\ Fires("ValueThis", d) <=> Triggered("ValueThis", d)
  BY <1>1, FiresAsTriggered, ReachedDownward DEF Reached, Lags
<1>3. \A d \in Nat : d < dt => d \in Cared
  <2> SUFFICES ASSUME NEW d \in Nat, d < dt PROVE d \in Cared
    OBVIOUS
  <2>1. \A e \in 0 .. d : e \in Reached /\ ~Triggered("UncareRemaining", e)
    BY <1>1, <1>2 DEF WentThrough
  <2> QED BY <2>1 DEF Cared
<1>4. \A d \in Cared : d \in Reached /\ ~Triggered("UncareRemaining", d)
  BY <1>2 DEF Cared
<1>5. \A d \in Nat : d < dt => (d \in Used <=> ~Fires("UncareThis", d))
  BY <1>2, <1>3, <1>4 DEF Used
<1>6. \A d \in Nat : d < dt => (Settles(d) <=> d \in Used /\ Triggered("ValueRemaining", d))
  BY <1>2, <1>3, <1>4, <1>5 DEF Settles
(* The lags before dt, wherever the loop stopped.                          *)
<1>7. lag < dt => (lag \in Settled <=> \E e \in 0 .. lag : Settles(e))
  <2> HAVE lag < dt
  <2>1. ASSUME NEW d \in Used, d <= lag, Triggered("ValueRemaining", d)
        PROVE  d \in 0 .. lag /\ Settles(d)
    <3>1. d \in Nat
      BY <1>2, <1>4 DEF Used
    <3> QED BY <1>1, <1>6, <2>1, <3>1
  <2>2. ASSUME NEW e \in 0 .. lag, Settles(e)
        PROVE  e \in Used /\ e <= lag /\ Triggered("ValueRemaining", e)
    BY <1>1, <1>6, <2>2
  <2> QED BY <2>1, <2>2 DEF Settled
<1> DEFINE dropped == options[2] /\ Cared # Reached /\ ~(options[1] /\ Settled # {})
           used    == lag \in Used \/ (options[1] /\ lag \in Settled /\ lag <= MaxDT)
           zero    == lag \in Settled \/ Triggered("ValueThis", lag)
<1>8. Expected(lag) = IF dropped \/ ~used THEN Empty ELSE IF zero THEN Zero ELSE Value
  BY DEF Expected, Empty, Zero, Value
<1>9. lag < dt => /\ lag <= MaxDT
                  /\ Added(lag) = IF Fires("UncareThis", lag) THEN Empty
                                  ELSE IF zero THEN Zero ELSE Value
  <2> HAVE lag < dt
  <2>1. lag \in Reached /\ lag <= MaxDT
    BY <1>1, <1>2, <1>3, <1>4
  <2>2. zero <=> Fires("ValueThis", lag) \/ \E e \in 0 .. lag : Settles(e)
    BY <1>2, <1>7, <2>1
  <2> HIDE DEF zero
  <2> QED BY <2>1, <2>2 DEF Added
<1> HIDE DEF dropped, used, zero
<1>10. mOutData[lag] = IF doicare = "UncareRemaining" /\ options[2] THEN Empty ELSE tempOutData[lag]
  BY DEF OriginInv, LoopInv, Nothing, Empty
(* No lag from dt on is used, when dt itself is not.                       *)
<1>11. ASSUME dt \notin Cared
       PROVE  /\ \A d \in Cared : d < dt
              /\ lag < dt \/ lag \notin Used
              /\ ~SettledBefore(dt) => Settled = {}
  <2>1. ASSUME NEW d \in Cared PROVE d < dt /\ d \in Nat
    <3>1. d \in Reached /\ d \in Nat /\ \A e \in 0 .. d : ~Triggered("UncareRemaining", e)
      BY <1>2, <1>4 DEF Cared
    <3>2. ASSUME dt <= d PROVE dt \in Cared
      <4>1. dt \in Reached
        BY <1>1, <1>2, <3>1, <3>2
      <4>2. \A e \in 0 .. dt : e \in 0 .. d
        BY <1>1, <3>1, <3>2
      <4> QED BY <3>1, <4>1, <4>2 DEF Cared
    <3> QED BY <1>1, <1>11, <3>1, <3>2
  <2>2. lag < dt \/ lag \notin Used
    BY <2>1 DEF Used
  <2>3. ASSUME ~SettledBefore(dt) PROVE Settled = {}
    <3>1. ASSUME NEW d \in Used, Triggered("ValueRemaining", d) PROVE FALSE
      <4>1. d \in Cared /\ d < dt /\ d \in Nat
        BY <2>1 DEF Used
      <4>2. Settles(d)
        BY <1>6, <3>1, <4>1
      <4> QED BY <1>1, <2>3, <4>1, <4>2 DEF SettledBefore
    <3> QED BY <3>1 DEF Settled
  <2> QED BY <2>1, <2>2, <2>3
(* The origin was used up to dt and not beyond.                            *)
<1>12. ASSUME dt \notin Cared, Collected, options[1] => ~SettledBefore(dt),
              ~dropped
       PROVE  tempOutData[lag] = Expected(lag)
  <2>1. used <=> lag < dt /\ ~Fires("UncareThis", lag)
    <3>1. options[1] => Settled = {}
      BY <1>11, <1>12
    <3> QED BY <1>1, <1>5, <1>11, <1>12, <3>1 DEF used
  <2>2. tempOutData[lag] = IF lag < dt THEN Added(lag) ELSE Empty
    BY <1>12 DEF Collected
  <2> QED BY <1>8, <1>9, <1>12, <2>1, <2>2
<1>13. CASE EndedUncare
  <2>1. /\ doicare = "UncareRemaining" /\ dt \in Reached /\ Fires("UncareRemaining", dt)
        /\ options[1] => ~SettledBefore(dt)
        /\ Collected
    BY <1>13 DEF EndedUncare
  <2>2. dt \notin Cared /\ Cared # Reached
    BY <1>2, <1>4, <2>1
  <2>3. dropped <=> options[2]
    BY <1>11, <2>1, <2>2 DEF dropped
  <2>4. CASE options[2]
    BY <1>8, <1>10, <2>1, <2>3, <2>4
  <2>5. CASE ~options[2]
    BY <1>10, <1>12, <2>1, <2>2, <2>3, <2>5
  <2> QED BY <2>4, <2>5
<1>14. CASE EndedExhausted
  <2>1. /\ doicare # "UncareRemaining" /\ dt \notin Reached
        /\ options[1] => ~SettledBefore(dt)
        /\ Collected
    BY <1>14 DEF EndedExhausted
  <2>2. Cared = Reached
    <3>1. ASSUME NEW d \in Reached PROVE d \in Cared
      <4>1. d < dt
        BY <1>1, <1>2, <2>1
      <4> QED BY <1>2, <1>3, <4>1
    <3> QED BY <1>4, <3>1
  <2>3. ~dropped /\ dt \notin Cared
    BY <2>1, <2>2 DEF dropped
  <2> QED BY <1>10, <1>12, <2>1, <2>3
<1>15. CASE EndedFilled
  <2>1. /\ doicare # "UncareRemaining" /\ options[1] /\ dt \in Reached
        /\ ~Fires("UncareRemaining", dt) /\ Settles(dt) /\ ~SettledBefore(dt) /\ Filled
    BY <1>15 DEF EndedFilled
  <2>2. dt \in Used /\ Triggered("ValueRemaining", dt) /\ dt <= MaxDT
    <3>1. \A e \in 0 .. dt : e \in Reached /\ ~Triggered("UncareRemaining", e)
      <4>1. \A e \in 0 .. dt : e = dt \/ e \in 0 .. dt - 1
        BY <1>1
      <4> QED BY <1>1, <1>2, <2>1, <4>1 DEF WentThrough
    <3> QED BY <1>2, <2>1, <3>1 DEF Used, Cared, Settles
  <2>3. dt \in Settled
    BY <1>1, <1>2, <2>1, <2>2 DEF Settled, Reached
  <2>4. ~dropped
    BY <2>1, <2>3 DEF dropped
  <2>5. tempOutData[lag] = IF lag < dt THEN Added(lag) ELSE IF lag <= MaxDT THEN Zero ELSE Empty
    BY <2>1 DEF Filled
  <2>6. CASE lag < dt
    <3>1. lag \notin Settled
      BY <1>1, <1>7, <2>1, <2>6 DEF SettledBefore
    <3>2. used <=> ~Fires("UncareThis", lag)
      BY <1>1, <1>5, <2>6, <3>1 DEF used
    <3> QED BY <1>8, <1>9, <1>10, <2>1, <2>4, <2>5, <2>6, <3>2
  <2>7. CASE ~(lag < dt)
    <3>1. lag \in Settled
      BY <1>1, <2>2, <2>7 DEF Settled
    <3>2. zero /\ (used <=> lag <= MaxDT)
      <4>1. lag \in Used => lag <= MaxDT
        BY <1>2, <1>4 DEF Used
      <4> QED BY <2>1, <3>1, <4>1 DEF zero, used
    <3> QED BY <1>8, <1>10, <2>1, <2>4, <2>5, <2>7, <3>2
  <2> QED BY <2>6, <2>7
<1> QED BY <1>1, <1>13, <1>14, <1>15 DEF Ended

LEMMA RulesInv == OriginInv /\ SensibleLists => RulesFollowed
BY ExpectedAtEnd DEF RulesFollowed, OriginInv, OriginTypeInv

(* Every origin adds what the Escape options promise, to every lag,        *)
(* whatever the flags, if the numbers of the conditions are sensible.      *)
THEOREM RulesAreFollowed ==
  ASSUME SensibleLists
  PROVE  OriginSpec => []RulesFollowed
<1>1. OriginInv => RulesFollowed
  BY RulesInv
<1> QED BY <1>1, OriginInvariance, PTL

=============================================================================
