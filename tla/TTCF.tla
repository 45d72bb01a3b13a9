-------------------------------- MODULE TTCF --------------------------------
(***************************************************************************)
(* The sliding window behind one time correlation function: the class      *)
(* TTCF of ttcf.cpp, as operators on the three things it stores.           *)
(*                                                                         *)
(*   inData1   the frames still held in memory, oldest first.  The payload *)
(*             of a frame is abstracted to the frame's own number, so that *)
(*             "which frame is correlated with which" can be stated.       *)
(*   boolInfo  the membership flags kept beside inData1 (mBoolInfo), one   *)
(*             entry per frame, again represented by the frame's number.   *)
(*   outData   outData[dt][o] is the number of times the time origin o     *)
(*             was added to lag dt; mOutData[dt].second is the sum of      *)
(*             outData[dt][o] over the origins o.                          *)
(*                                                                         *)
(* Indices are those of the code, 0-based, but counted in frames: the code *)
(* stores NumItems values per frame (the atoms of a coordination shell, or *)
(* the coordinates of a position) and multiplies by NumItems.  Item is the *)
(* value followed here, so outData is what that item contributes.          *)
(***************************************************************************)
EXTENDS Integers, Sequences

CONSTANTS
  MaxTime,    (* mMaxTime: number of lags, 0 .. MaxTime - 1               *)
  TidyOld,    (* mTidyOld: the window is trimmed above TidyOld * MaxTime  *)
  NumFrames,  (* frames in the trajectory                                 *)
  NumItems,   (* mNumItemsPerTimeStep                                     *)
  Item        (* j of the loop in correlate(), 0 under mJoinedCorrelation *)

ASSUME MaxTimeAssumption   == MaxTime \in Nat \ {0}
ASSUME TidyOldAssumption   == TidyOld \in Nat
ASSUME NumFramesAssumption == NumFrames \in Nat
ASSUME ItemAssumption      == NumItems \in Nat \ {0} /\ Item \in 0 .. NumItems - 1

Lags   == 0 .. MaxTime - 1
Frames == 1 .. NumFrames

(* Every lag of every origin is still empty.                               *)
NoCounts == [dt \in Lags |-> [o \in Frames |-> 0]]

(***************************************************************************)
(* The largest lag available in a window of `size' frames from the given   *)
(* item of frame oldindex, getMaxDT(NumItems * oldindex + item).  The      *)
(* division drops the frame of any item but the first, and the comparison  *)
(* with MaxTime - 1 rounds MaxTime - 1 frames up to MaxTime of them.       *)
(***************************************************************************)
GetMaxDT(size, oldindex, item) ==
  LET numstoredsteps == (NumItems * (size - oldindex) - item) \div NumItems IN
  IF numstoredsteps < MaxTime - 1 THEN numstoredsteps - 1 ELSE MaxTime - 1

(* The lag at which correlate() starts; externalmaxdt = -1 is "not given". *)
StartLag(size, externalmaxdt) ==
  IF externalmaxdt >= 0 THEN externalmaxdt ELSE GetMaxDT(size, 0, 0)

(* correlate() returns at once when the window is not yet full.            *)
TooShort(size, externalmaxdt) ==
  /\ externalmaxdt < 0
  /\ StartLag(size, externalmaxdt) < MaxTime - 1

(* Mutated form: only the newest of the time origins that are due.         *)
OriginIndices_NewestOnly(size, numtimeorigins, externalmaxdt) ==
  {x \in 0 .. size - 1 : x = size - (StartLag(size, externalmaxdt) + 1)}

(* The indices of the time origins one call of correlate() works through.  *)
OriginIndices(size, numtimeorigins, externalmaxdt) ==
  {x \in 0 .. size - 1 :
     \E i \in 1 .. numtimeorigins : x = size - (StartLag(size, externalmaxdt) + i)}

(* Mutated form: the loop over the lags stops before the largest.          *)
Reaches_NotLargest(size, x, dt) ==
  /\ dt < GetMaxDT(size, x, Item)
  /\ x + dt < size

(* Lag dt is reached by correlateFromOldIndex(NumItems * x + Item).        *)
Reaches(size, x, dt) ==
  /\ dt <= GetMaxDT(size, x, Item)
  /\ x + dt < size

(* The frame o is one of the origins of the call, and lag dt is reached.   *)
Contributes(data, numtimeorigins, externalmaxdt, dt, o) ==
  \E x \in OriginIndices(Len(data), numtimeorigins, externalmaxdt) :
    data[x + 1] = o /\ Reaches(Len(data), x, dt)

(* Mutated forms: the newest frames are erased; nothing is ever erased.    *)
TidyInData_KeepsOldest(data, s) ==
  IF TidyOld > 0 /\ Len(s) > TidyOld * MaxTime
  THEN SubSeq(s, 1, GetMaxDT(Len(data), 0, 0) + 1)
  ELSE s
TidyInData_Never(data, s) == s

(***************************************************************************)
(* tidyInData: each vector is trimmed by its own length, but all of them   *)
(* to the window that inData1 asks for.                                    *)
(***************************************************************************)
TidyInData(data, s) ==
  IF TidyOld > 0 /\ Len(s) > TidyOld * MaxTime
  THEN SubSeq(s, Len(s) - GetMaxDT(Len(data), 0, 0), Len(s))
  ELSE s

(* What correlate() leaves in the window and in the counters.              *)
CorrelatedOut(data, out, numtimeorigins, externalmaxdt) ==
  IF TooShort(Len(data), externalmaxdt) THEN out
  ELSE [dt \in Lags |-> [o \in Frames |->
          out[dt][o] + IF Contributes(data, numtimeorigins, externalmaxdt, dt, o)
                       THEN 1 ELSE 0]]

TidiedAfter(data, s, externalmaxdt) ==
  IF TooShort(Len(data), externalmaxdt) THEN s ELSE TidyInData(data, s)

=============================================================================
