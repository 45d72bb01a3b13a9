----------------------------- MODULE ActionTTCF -----------------------------
(***************************************************************************)
(* How an action of the T... family (TMSD, TVACF, TResidenceTime, ...)     *)
(* drives the TTCF objects it owns: actionttcf.cpp and the counting part   *)
(* of Action::action.                                                      *)
(*                                                                         *)
(* One TTCF is followed: the one at a fixed position i of ParentGroup      *)
(* (mTCF[i]).  It is created at the first processed frame at which the     *)
(* group has more than i members, which need not be the first frame of the *)
(* trajectory: the group may grow later, and after ReadRestart the leading *)
(* frames only advance mCount.                                             *)
(*                                                                         *)
(* A frame is one atomic step, because Action::action runs to completion   *)
(* for one frame before the main loop reads the next.  The final action is *)
(* one step per call of correlate(), as the loop of internalFinalAction.   *)
(***************************************************************************)
EXTENDS TTCF

CONSTANTS
  CorrelationFrequency,   (* mCorrelationFrequency                            *)
  UseAllTimeOrigins,      (* FALSE after DontUseAllTimeOrigins                *)
  MembersMayLeave         (* TRUE: ParentGroup may shrink below position i    *)

ASSUME CorrelationFrequencyAssumption == CorrelationFrequency \in Nat \ {0}
ASSUME FlagsAssumption == UseAllTimeOrigins \in BOOLEAN /\ MembersMayLeave \in BOOLEAN

VARIABLES
  mCount,     (* frames on which the action has run; also the frame's name  *)
  joined,     (* the frame at which mTCF[i] was created, 0 if it was not    *)
  present,    (* position i was in the group at the last frame              *)
  inData1,    (* see TTCF                                                   *)
  boolInfo,   (* see TTCF                                                   *)
  outData,    (* see TTCF                                                   *)
  phase,      (* "running", then "final" and "done"                         *)
  finalLag    (* j of the loop in internalFinalAction                       *)

vars == <<mCount, joined, present, inData1, boolInfo, outData, phase, finalLag>>
window == <<inData1, boolInfo, outData>>

Init ==
  /\ mCount = 0
  /\ joined = 0
  /\ present = FALSE
  /\ inData1 = <<>>
  /\ boolInfo = <<>>
  /\ outData = NoCounts
  /\ phase = "running"
  /\ finalLag = -1

(* Mutated form: tidyInData forgets the flags.                             *)
Correlate_FlagsNotTidied(data, bools, n, externalmaxdt) ==
  /\ outData'  = CorrelatedOut(data, outData, n, externalmaxdt)
  /\ inData1'  = TidiedAfter(data, data, externalmaxdt)
  /\ boolInfo' = bools

(* mTCF[i]->correlate(n, externalmaxdt) on a window holding data and bools *)
Correlate(data, bools, n, externalmaxdt) ==
  /\ outData'  = CorrelatedOut(data, outData, n, externalmaxdt)
  /\ inData1'  = TidiedAfter(data, data, externalmaxdt)
  /\ boolInfo' = TidiedAfter(data, bools, externalmaxdt)

(* A frame on which no correlation is due leaves it at storing the frame.  *)
KeepWindow(data, bools) ==
  /\ inData1' = data
  /\ boolInfo' = bools
  /\ UNCHANGED outData

(* The correlation is due on frames whose number the frequency divides.    *)
CorrelationDue == mCount' % CorrelationFrequency = 0

(* internalAction with position i in the group: store the frame, and       *)
(* correlate the last CorrelationFrequency origins when that is due.       *)
StoreFrame ==
  LET data  == Append(inData1, mCount')
      bools == Append(boolInfo, mCount')
  IN /\ joined' = IF joined = 0 THEN mCount' ELSE joined
     /\ present' = TRUE
     /\ \/ CorrelationDue /\ Correlate(data, bools, CorrelationFrequency, -1)
        \/ ~CorrelationDue /\ KeepWindow(data, bools)

(* A frame on which this TTCF is not touched: it does not exist yet, or    *)
(* the loops over mpGroup->size() do not reach it.                         *)
MissFrame ==
  /\ joined = 0 \/ MembersMayLeave
  /\ present' = FALSE
  /\ UNCHANGED <<joined, window>>

ProcessFrame ==
  /\ phase = "running"
  /\ mCount < NumFrames
  /\ mCount' = mCount + 1
  /\ StoreFrame \/ MissFrame
  /\ UNCHANGED <<phase, finalLag>>

(* Mutated form: a whole period is correlated at the end.                  *)
EndOfTrajectory_WholePeriod ==
  /\ phase = "running"
  /\ \/ present /\ Correlate(inData1, boolInfo, CorrelationFrequency, -1)
     \/ ~present /\ UNCHANGED window
  /\ phase' = IF present /\ UseAllTimeOrigins /\ MaxTime > 1 THEN "final" ELSE "done"
  /\ finalLag' = MaxTime - 2
  /\ UNCHANGED <<mCount, joined, present>>

(* The trajectory ends, or SIGINT or MaxTimeStep ends the main loop:       *)
(* correlateAll(mCount % CorrelationFrequency), which does nothing for 0.  *)
EndOfTrajectory ==
  /\ phase = "running"
  /\ LET n == mCount % CorrelationFrequency IN
       \/ present /\ n > 0 /\ Correlate(inData1, boolInfo, n, -1)
       \/ ~(present /\ n > 0) /\ UNCHANGED window
  /\ phase' = IF present /\ UseAllTimeOrigins /\ MaxTime > 1 THEN "final" ELSE "done"
  /\ finalLag' = MaxTime - 2
  /\ UNCHANGED <<mCount, joined, present>>

(* Mutated forms: the loop runs past lag 0; it stops before lag 0.         *)
FinalCorrelate_PastZero ==
  /\ phase = "final"
  /\ Correlate(inData1, boolInfo, 1, finalLag)
  /\ finalLag' = finalLag - 1
  /\ phase' = IF finalLag < 0 THEN "done" ELSE "final"
  /\ UNCHANGED <<mCount, joined, present>>
FinalCorrelate_StopsEarly ==
  /\ phase = "final"
  /\ Correlate(inData1, boolInfo, 1, finalLag)
  /\ finalLag' = finalLag - 1
  /\ phase' = IF finalLag <= 1 THEN "done" ELSE "final"
  /\ UNCHANGED <<mCount, joined, present>>

(* One turn of the loop over the time origins whose windows are cut off.   *)
FinalCorrelate ==
  /\ phase = "final"
  /\ Correlate(inData1, boolInfo, 1, finalLag)
  /\ finalLag' = finalLag - 1
  /\ phase' = IF finalLag = 0 THEN "done" ELSE "final"
  /\ UNCHANGED <<mCount, joined, present>>

Next == ProcessFrame \/ EndOfTrajectory \/ FinalCorrelate

Spec == Init /\ [][Next]_vars

(* The main loop never pauses: as long as it can take a step it takes one. *)
FairSpec == Spec /\ WF_vars(Next)

-----------------------------------------------------------------------------
(* The last frame at which a correlation was due.                          *)
LastCorrelation == mCount - (mCount % CorrelationFrequency)

(* Types only.                                                             *)
TypeOK ==
  /\ mCount \in 0 .. NumFrames
  /\ joined \in 0 .. NumFrames
  /\ present \in BOOLEAN
  /\ inData1 \in Seq(Frames)
  /\ boolInfo \in Seq(Frames)
  /\ outData \in [Lags -> [Frames -> Nat]]
  /\ phase \in {"running", "final", "done"}
  /\ finalLag \in -1 .. MaxTime - 1

(* While a trajectory is read, exactly the origins whose MaxTime frames    *)
(* had been seen at the last due correlation are counted, once, at every   *)
(* lag: neither the trimming of the window (tidyInData) nor a correlation  *)
(* frequency that does not fit the moment the member joined loses or       *)
(* doubles one.                                                            *)
CountedExactlyOnce ==
  phase = "running" =>
    \A dt \in Lags, o \in Frames :
      outData[dt][o] =
        IF joined > 0 /\ o \in joined .. LastCorrelation - MaxTime + 1 THEN 1 ELSE 0

(* Two frames lie dt apart in the window exactly when they lie dt apart in *)
(* the trajectory: a lag is a time difference.  The trimming may only drop *)
(* frames from the front, never from the middle.                           *)
LagIsTimeDifference ==
  \A k \in 1 .. Len(inData1) : inData1[k] = mCount - Len(inData1) + k

(* The flags used for an origin are those of the origin's own frame: the   *)
(* separately trimmed vectors of a TTCF never drift apart.                 *)
FlagsAligned == boolInfo = inData1

(* A stored frame is not trimmed away before it has been counted as a time *)
(* origin: tidyInData never outruns the correlation schedule.              *)
PendingOriginsStored ==
  joined > 0 =>
    \A o \in joined .. mCount :
      outData[0][o] = 0 => \E k \in 1 .. Len(inData1) : inData1[k] = o

(* When all is over, an origin has been counted at exactly those lags at   *)
(* which the trajectory has a frame; with DontUseAllTimeOrigins only if    *)
(* the trajectory does not end before the origin's MaxTime frames do.      *)
FinalCountsExact ==
  phase = "done" /\ joined > 0 =>
    \A dt \in Lags, o \in Frames :
      outData[dt][o] =
        IF /\ o >= joined
           /\ o + (IF UseAllTimeOrigins THEN dt ELSE MaxTime - 1) <= mCount
        THEN 1 ELSE 0

(* The window is bounded by what TidyOld allows plus the frames between    *)
(* two correlations.                                                       *)
WindowBounded ==
  TidyOld > 0 => Len(inData1) < TidyOld * MaxTime + CorrelationFrequency

(* Every stored frame is eventually used as a time origin.                 *)
EveryFrameBecomesOrigin ==
  \A o \in Frames :
    (joined > 0 /\ o \in joined .. mCount) ~> (outData[0][o] = 1)

(* The counters implement the ledger of CorrelationLedger.                 *)
Ledger == INSTANCE CorrelationLedger WITH
            seen <- mCount, ledger <- outData, closed <- phase # "running"

LedgerSpec == Ledger!Spec
=============================================================================
