----------------------------- MODULE FollowWindow -----------------------------
(***************************************************************************)
(* The windows of TMSDFollow: internalComplicatedAddToTCF after the atoms  *)
(* have been matched (actiontmsdfollow.cpp), TTCFMSDFollow with its        *)
(* discretised displacements (ttcfmsdfollow.cpp), and the schedule of      *)
(* ActionTTCF around them.                                                 *)
(*                                                                         *)
(* One position is followed, the TTCF mTCF[Position - 1].  What the        *)
(* matching finds is an input of the frame (see FollowMatching): the atom  *)
(* at the position is the one of the last frame or another, or there is a  *)
(* conflict, which takes three atoms.  A value is the frame it is from.    *)
(* The three coordinates are correlated together (mJoinedCorrelation), so  *)
(* NumItems is 1 here.  internalFinalAction correlates nothing for this    *)
(* type of action.                                                         *)
(***************************************************************************)
EXTENDS TTCF, FiniteSets, SequencesExt

CONSTANTS
  CorrelationFrequency,  (* mCorrelationFrequency, the interval of Discretize *)
  Sizes,                 (* the sizes ParentGroup may have                    *)
  Position               (* the position followed, from 1                     *)

ASSUME FollowAssumption ==
  /\ CorrelationFrequency \in Nat \ {0}
  /\ Sizes \subseteq Nat
  /\ Position \in Nat \ {0}

VARIABLES
  options,     (* IgnoreConflicts and Discretize                           *)
  mCount,      (* frames so far                                            *)
  positions,   (* how many positions mOldPositions holds                   *)
  inData1,     (* see TTCF                                                 *)
  jumpInfo,    (* flags of NewJumpMemberFor1 with their frames             *)
  discretized, (* mDiscretizedInData: first and last frame of each         *)
  outData,     (* see TTCF                                                 *)
  segments,    (* history: what the last discretised correlation used      *)
  followed,    (* history: since which frame the windows are kept          *)
  due          (* history: the origins whose correlation has come          *)

window == <<inData1, jumpInfo, discretized>>
vars == <<options, mCount, positions, window, outData, segments, followed, due>>

(* internalInitialize accepts Discretize only for whole displacements.     *)
DiscretizeAllowed == MaxTime % CorrelationFrequency = 0

Init ==
  /\ options \in [ignoreConflicts : BOOLEAN, discretize : BOOLEAN]
  /\ options.discretize => DiscretizeAllowed
  /\ mCount = 0
  /\ positions = 0
  /\ inData1 = <<>>
  /\ jumpInfo = <<>>
  /\ discretized = <<>>
  /\ outData = NoCounts
  /\ segments = <<>>
  /\ followed = 0
  /\ due = {}

(* Mutated form: a flag is stored for the value of the last frame.          *)
Held_NoFlag(same) ==
  IF Position > positions THEN [data |-> inData1, jumps |-> jumpInfo, intervals |-> discretized]
  ELSE [data |-> Append(inData1, mCount'),
        jumps |-> IF same THEN Append(jumpInfo, [frame |-> mCount', same |-> same]) ELSE jumpInfo,
        intervals |-> discretized]

(* The window with this frame in it.                                       *)
Held(same) ==
  IF Position > positions THEN [data |-> inData1, jumps |-> jumpInfo, intervals |-> discretized]
  ELSE [data |-> Append(inData1, mCount'),
        jumps |-> Append(jumpInfo, [frame |-> mCount', same |-> same]),
        intervals |-> discretized]

(* Mutated forms: the values, or the discretised displacements, survive a  *)
(* conflict.                                                               *)
Cleared_ValuesKept(size) ==
  IF Position > size THEN [data |-> <<>>, jumps |-> <<>>, intervals |-> <<>>]
  ELSE [data |-> Append(inData1, mCount'),
        jumps |-> Append(jumpInfo, [frame |-> mCount', same |-> TRUE]), intervals |-> <<>>]
Cleared_IntervalsKept(size) ==
  IF Position > size THEN [data |-> <<>>, jumps |-> <<>>, intervals |-> discretized]
  ELSE [data |-> <<mCount'>>, jumps |-> <<[frame |-> mCount', same |-> TRUE]>>,
        intervals |-> discretized]

(* The window after TTCFMSDFollow::clear, with this frame as its first.    *)
Cleared(size) ==
  IF Position > size THEN [data |-> <<>>, jumps |-> <<>>, intervals |-> <<>>]
  ELSE [data |-> <<mCount'>>, jumps |-> <<[frame |-> mCount', same |-> TRUE]>>,
        intervals |-> <<>>]

(* What the matching finds in a group of this size.  Without positions     *)
(* there is nothing to match.                                              *)
Matched(size) == positions # 0 /\ size = positions
Conflict(size) == positions # 0 /\ (size # positions \/ size >= 3)

(* All windows begin anew with the positions of this frame.                *)
StartAfresh(size, held) ==
  /\ held = Cleared(size)
  /\ positions' = size
  /\ followed' = mCount'

(* internalComplicatedAddToTCF: all windows begin anew, or each position   *)
(* is continued, with or without a jump to another atom, or a conflict is  *)
(* ignored and the positions of the last frame are used again.             *)
AddToTCF(size, held) ==
  \/ /\ positions = 0 \/ (Conflict(size) /\ ~options.ignoreConflicts)
     /\ StartAfresh(size, held)
  \/ /\ Matched(size) \/ (Conflict(size) /\ options.ignoreConflicts)
     /\ held = Held(TRUE)
     /\ UNCHANGED <<positions, followed>>
  \/ /\ Matched(size)
     /\ held = Held(FALSE)
     /\ UNCHANGED <<positions, followed>>

DiscretizeLastInterval(held) ==
  LET last == Len(held.data) IN
  IF last <= CorrelationFrequency THEN held.intervals
  ELSE Append(held.intervals,
              [from |-> held.data[last - CorrelationFrequency], to |-> held.data[last]])

reducedMaxTime == MaxTime \div CorrelationFrequency

(* Mutated form: the flags begin where the next segment does.              *)
Continuous_NextSegment(held, oldindex, dt) ==
  LET index == oldindex + (dt + 1) * CorrelationFrequency
  IN \A k \in index - CorrelationFrequency .. index : k < Len(held.jumps) => held.jumps[k + 1].same

(* checkIfMemberFor(newindex - 1, bii, n): the flags of n + 1 frames, none *)
(* before the front of the window.                                         *)
Continuous(held, oldindex, dt) ==
  LET index == oldindex + (dt + 1) * CorrelationFrequency - 1
  IN /\ index >= CorrelationFrequency
     /\ \A k \in index - CorrelationFrequency .. index : held.jumps[k + 1].same

(* TTCFMSDFollow::correlate with Discretize.                               *)
DiscretizedCorrelate(held) ==
  LET intervals  == DiscretizeLastInterval(held)
      startindex == Len(intervals) - reducedMaxTime
      maxdt      == GetMaxDT(Len(held.data), 0, 0)
      oldindex   == Len(held.data) - (maxdt + 1)
      used       == [dt \in 1 .. reducedMaxTime |->
                       [from |-> intervals[startindex + dt].from,
                        to |-> intervals[startindex + dt].to,
                        continuous |-> Continuous(held, oldindex, dt - 1)]]
  IN /\ inData1' = held.data
     /\ jumpInfo' = held.jumps
     /\ discretized' = intervals
     /\ IF startindex < 0 \/ maxdt < MaxTime - 1 \/ oldindex < 0
        THEN segments' = <<>> /\ UNCHANGED outData
        ELSE /\ segments' = used
             /\ outData' = [dt \in Lags |-> [o \in Frames |-> outData[dt][o] +
                  IF o = used[1].from /\ dt \in {CorrelationFrequency * k : k \in 0 .. reducedMaxTime - 1}
                  THEN 1 ELSE 0]]

(* TTCF::correlate                                                         *)
Correlate(held) ==
  /\ inData1' = TidiedAfter(held.data, held.data, -1)
  /\ jumpInfo' = TidiedAfter(held.data, held.jumps, -1)
  /\ discretized' = held.intervals
  /\ outData' = CorrelatedOut(held.data, outData, CorrelationFrequency, -1)
  /\ segments' = <<>>

(* A frame on which this position is not correlated.                       *)
Keep(held) ==
  /\ inData1' = held.data
  /\ jumpInfo' = held.jumps
  /\ discretized' = held.intervals
  /\ segments' = <<>>
  /\ UNCHANGED outData

CorrelationDue(size) == mCount' % CorrelationFrequency = 0 /\ Position <= size

(* The origins whose MaxTime frames have been read since the last time a   *)
(* correlation was due, as far as the windows go back.                     *)
DueOrigins ==
  {o \in Frames : o >= followed' /\ o + MaxTime - 1 \in mCount' - CorrelationFrequency + 1 .. mCount'}

Frame ==
  /\ mCount < NumFrames
  /\ mCount' = mCount + 1
  /\ UNCHANGED options
  /\ \E size \in Sizes : \E held \in {Held(TRUE), Held(FALSE), Cleared(size)} :
       /\ AddToTCF(size, held)
       /\ \/ CorrelationDue(size) /\ ~options.discretize /\ Correlate(held)
          \/ CorrelationDue(size) /\ options.discretize /\ DiscretizedCorrelate(held)
          \/ ~CorrelationDue(size) /\ Keep(held)
       /\ due' = IF CorrelationDue(size) /\ held.data # <<>> THEN due \union DueOrigins ELSE due

Next == Frame

Spec == Init /\ [][Next]_vars

-----------------------------------------------------------------------------
(* Types only.                                                             *)
TypeOK ==
  /\ options \in [ignoreConflicts : BOOLEAN, discretize : BOOLEAN]
  /\ mCount \in 0 .. NumFrames
  /\ positions \in Sizes \union {0}
  /\ inData1 \in Seq(Frames)
  /\ jumpInfo \in Seq([frame : Frames, same : BOOLEAN])
  /\ discretized \in Seq([from : Frames, to : Frames])
  /\ outData \in [Lags -> [Frames -> Nat]]
  /\ segments \in Seq([from : Frames, to : Frames, continuous : BOOLEAN])
  /\ followed \in 0 .. NumFrames
  /\ due \subseteq Frames

(* The window of a position holds the frames since the last conflict that  *)
(* counted, without a gap, each with the flag of its own frame, also when  *)
(* conflicts are ignored or the group shrinks and grows (lines 211-267).   *)
WindowsAligned ==
  /\ TypeOK
  /\ inData1 = [k \in 1 .. Len(inData1) |-> mCount - Len(inData1) + k]
  /\ [k \in DOMAIN jumpInfo |-> jumpInfo[k].frame] = inData1
  /\ inData1 # <<>> => inData1[1] >= followed

(* Without Discretize an origin is counted, once and at every lag, exactly *)
(* if the group still has the position at the first correlation that is    *)
(* due after its MaxTime frames, and no conflict in between has thrown its *)
(* window away: no pair of frames is counted across a conflict.            *)
CountsWhatIsDue ==
  ~options.discretize =>
    \A dt \in Lags, o \in Frames : outData[dt][o] = IF o \in due THEN 1 ELSE 0

(* The displacements that a discretised correlation adds up follow each    *)
(* other without gap or overlap, are CorrelationFrequency frames long, end *)
(* at the present frame and lie in one window, unless conflicts are        *)
(* ignored while the group is too small for this position to be            *)
(* discretised (ttcfmsdfollow.cpp:39).                                     *)
SegmentsTile ==
  segments # <<>> /\ ~options.ignoreConflicts =>
    /\ Last(segments).to = mCount
    /\ segments[1].from >= followed
    /\ \A k \in DOMAIN segments :
         /\ segments[k].to = segments[k].from + CorrelationFrequency
         /\ k > 1 => segments[k].from = segments[k - 1].to

(* A displacement during which the position went to another atom is never  *)
(* counted as continuous (line 67); one whose first frame is such a jump   *)
(* is not either, although that jump belongs to the displacement before.   *)
JumpsAreDiscrete ==
  ~options.ignoreConflicts =>
    \A k \in DOMAIN segments :
      segments[k].continuous <=>
        \A j \in DOMAIN jumpInfo :
          jumpInfo[j].frame \in segments[k].from .. segments[k].to => jumpInfo[j].same
=============================================================================
