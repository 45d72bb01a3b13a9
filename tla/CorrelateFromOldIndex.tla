------------------------ MODULE CorrelateFromOldIndex ------------------------
(***************************************************************************)
(* correlateFromOldIndex of ttcf.cpp: how one time origin is added to the  *)
(* time correlation function, one step per turn of its loop over the lags. *)
(*                                                                         *)
(* The value of a lag is abstracted to two counters: zeroes counts the     *)
(* times a plain 0 was added by a Value... consequence, values the times   *)
(* the correlation of the two frames was added.  Their sum is what the     *)
(* code adds to mOutData[dt].second.                                       *)
(*                                                                         *)
(* The window holds the NumFrames frames 0 .. NumFrames - 1.               *)
(***************************************************************************)
EXTENDS TTCFConditions, FiniteSets

CONSTANTS
  ConditionLists,   (* the lists of conditions to choose from               *)
  Options           (* values of <<valuePrecedenceOverUncare(),             *)
                    (*   uncareAllWhenUncareRemaining()>> to choose from    *)

ASSUME OptionsAssumption == Options \subseteq BOOLEAN \X BOOLEAN

VARIABLES
  conditions,      (* mvTCFConditions                                       *)
  flags,           (* mBoolInfo: flags[k][index] belongs to conditions[k]   *)
  options,         (* see Options                                           *)
  origin,          (* the frame of oldindex                                 *)
  dt,              (* the loop variable                                     *)
  doicare,         (* the outcome of the last doICare                       *)
  resultisknown,   (* a ValueRemaining condition was not fulfilled          *)
  tempOutData,     (* what this origin adds to each lag                     *)
  mOutData,         (* what was added before                                 *)
  pc               (* "loop", "commit", "done"                              *)

input == <<conditions, flags, options, origin>>
originVars  == <<conditions, flags, options, origin, dt, doicare, resultisknown,
           tempOutData, mOutData, pc>>

Nothing == [lag \in Lags |-> [zeroes |-> 0, values |-> 0]]
Indices == 0 .. NumItems * NumFrames - 1
MaxDT   == GetMaxDT(NumFrames, origin, Item)

oldindex == NumItems * origin + Item
newindex == oldindex + dt * NumItems

OriginInit ==
  /\ conditions \in ConditionLists
  /\ flags \in [DOMAIN conditions -> [Indices -> BOOLEAN]]
  /\ options \in Options
  /\ origin \in 0 .. NumFrames - 1
  /\ dt = 0
  /\ doicare = "NoConsequence"
  /\ resultisknown = FALSE
  /\ tempOutData = Nothing
  /\ mOutData = Nothing
  /\ pc = "loop"

(* The loop is entered again for lag dt.                                   *)
InLoop == pc = "loop" /\ dt <= MaxDT /\ newindex < NumItems * NumFrames

(* The outcome of doICare, and of quickCorrelate, at lag dt.               *)
Care  == DoICare(conditions, flags, oldindex, newindex)
Quick == QuickCorrelate(conditions, flags, oldindex, newindex)

NextLag == dt' = dt + 1 /\ pc' = pc

Add(lags, field) ==
  tempOutData' = [lag \in Lags |->
    IF lag \in lags THEN [tempOutData[lag] EXCEPT ![field] = @ + 1] ELSE tempOutData[lag]]

(* Mutated form: the lag is skipped, the ones after it are not.            *)
UncareRemaining_Continues ==
  /\ InLoop
  /\ Care = "UncareRemaining"
  /\ doicare' = "UncareRemaining"
  /\ NextLag
  /\ UNCHANGED <<resultisknown, tempOutData, mOutData, input>>

(* No lag from here on is of interest.                                     *)
UncareRemaining ==
  /\ InLoop
  /\ Care = "UncareRemaining"
  /\ doicare' = "UncareRemaining"
  /\ pc' = "commit"
  /\ UNCHANGED <<dt, resultisknown, tempOutData, mOutData, input>>

(* This lag is not of interest; the Value conditions are not looked at.    *)
UncareThis ==
  /\ InLoop
  /\ Care = "UncareThis"
  /\ doicare' = "UncareThis"
  /\ NextLag
  /\ UNCHANGED <<resultisknown, tempOutData, mOutData, input>>

(* An earlier lag has settled the result.                                  *)
ResultIsKnown ==
  /\ InLoop
  /\ Care = "NoConsequence"
  /\ resultisknown
  /\ doicare' = "NoConsequence"
  /\ Add({dt}, "zeroes")
  /\ NextLag
  /\ UNCHANGED <<resultisknown, mOutData, input>>

(* The result is 0 from here on.  ValuePrecedenceOverUncare fills all the  *)
(* remaining lags at once and leaves the loop.                             *)
ValueRemaining ==
  /\ InLoop
  /\ Care = "NoConsequence" /\ ~resultisknown /\ Quick = "ValueRemaining"
  /\ doicare' = "NoConsequence"
  /\ resultisknown' = TRUE
  /\ \/ /\ options[1]
        /\ Add(dt .. MaxDT, "zeroes")
        /\ pc' = "commit"
        /\ UNCHANGED dt
     \/ /\ ~options[1]
        /\ Add({dt}, "zeroes")
        /\ NextLag
  /\ UNCHANGED <<mOutData, input>>

(* The result is 0 for this lag.                                           *)
ValueThis ==
  /\ InLoop
  /\ Care = "NoConsequence" /\ ~resultisknown /\ Quick = "ValueThis"
  /\ doicare' = "NoConsequence"
  /\ Add({dt}, "zeroes")
  /\ NextLag
  /\ UNCHANGED <<resultisknown, mOutData, input>>

(* internalCorrelateWithLatest.                                            *)
CorrelateWithLatest ==
  /\ InLoop
  /\ Care = "NoConsequence" /\ ~resultisknown /\ Quick = "NoConsequence"
  /\ doicare' = "NoConsequence"
  /\ Add({dt}, "values")
  /\ NextLag
  /\ UNCHANGED <<resultisknown, mOutData, input>>

(* The lags, or the frames of the window, are exhausted.                   *)
LeaveLoop ==
  /\ pc = "loop"
  /\ ~InLoop
  /\ pc' = "commit"
  /\ UNCHANGED <<dt, doicare, resultisknown, tempOutData, mOutData, input>>

(* Mutated form: mUncareAllWhenUncareRemaining is not looked at.           *)
Commit_Always ==
  /\ pc = "commit"
  /\ mOutData' = [lag \in Lags |->
       [zeroes |-> mOutData[lag].zeroes + tempOutData[lag].zeroes,
        values |-> mOutData[lag].values + tempOutData[lag].values]]
  /\ pc' = "done"
  /\ UNCHANGED <<dt, doicare, resultisknown, tempOutData, input>>

(* The collected changes are added, or dropped as a whole.                 *)
Commit ==
  /\ pc = "commit"
  /\ IF doicare = "UncareRemaining" /\ options[2] THEN UNCHANGED mOutData
     ELSE mOutData' = [lag \in Lags |->
            [zeroes |-> mOutData[lag].zeroes + tempOutData[lag].zeroes,
             values |-> mOutData[lag].values + tempOutData[lag].values]]
  /\ pc' = "done"
  /\ UNCHANGED <<dt, doicare, resultisknown, tempOutData, input>>

OriginNext ==
  \/ UncareRemaining
  \/ UncareThis
  \/ ResultIsKnown
  \/ ValueRemaining
  \/ ValueThis
  \/ CorrelateWithLatest
  \/ LeaveLoop
  \/ Commit

OriginSpec == OriginInit /\ [][OriginNext]_originVars

-----------------------------------------------------------------------------
(***************************************************************************)
(* What the documentation of the Escape options says, without loops: a     *)
(* frame is looked at when it lies in the history, the flags that are      *)
(* false there may not be more than max, nor more than continuous in a     *)
(* row, and the consequences are taken in the order of the lags.           *)
(***************************************************************************)
Frame(f) == NumItems * f + Item

(* The flag has kept to the limits over the frames first .. last.          *)
Kept(c, k, first, last) ==
  /\ c.max >= 0 =>
       Cardinality({f \in first .. last : ~flags[k][Frame(f)]}) <= c.max
  /\ c.continuous >= 0 =>
       \A f \in first .. last - c.continuous :
         \E g \in f .. f + c.continuous : flags[k][Frame(g)]

(* The condition, for the given origin and lag.                            *)
Meets(k, lag) ==
  LET c     == conditions[k]
      last  == IF c.type \in OldTypes THEN origin ELSE origin + lag
      first == last - IF c.history < 0 THEN lag ELSE c.history
      kept  == /\ first >= 0 \/ c.softhistory
               /\ Kept(c, k, IF first < 0 THEN 0 ELSE first, last)
  IN IF c.negate THEN ~kept ELSE kept

Triggered(consequence, lag) ==
  \E k \in DOMAIN conditions :
    conditions[k].consequence = consequence /\ ~Meets(k, lag)

Reached == {lag \in Lags : lag <= MaxDT /\ origin + lag < NumFrames}

(* The lags before any UncareRemaining, and those at which the origin is   *)
(* of interest.                                                            *)
Cared == {lag \in Reached : \A d \in 0 .. lag : ~Triggered("UncareRemaining", d)}
Used  == {lag \in Cared : ~Triggered("UncareThis", lag)}

(* From the first used lag with a ValueRemaining on, the result is 0.      *)
Settled == {lag \in Lags : \E d \in Used : d <= lag /\ Triggered("ValueRemaining", d)}

Expected(lag) ==
  LET dropped == options[2] /\ Cared # Reached /\ ~(options[1] /\ Settled # {})
      used    == lag \in Used \/ (options[1] /\ lag \in Settled /\ lag <= MaxDT)
      zero    == lag \in Settled \/ Triggered("ValueThis", lag)
  IN IF dropped \/ ~used THEN [zeroes |-> 0, values |-> 0]
     ELSE IF zero THEN [zeroes |-> 1, values |-> 0]
     ELSE [zeroes |-> 0, values |-> 1]

(* Types only.                                                             *)
OriginTypeOK ==
  /\ origin \in 0 .. NumFrames - 1
  /\ dt \in 0 .. MaxTime
  /\ doicare \in Consequences
  /\ resultisknown \in BOOLEAN
  /\ tempOutData \in [Lags -> [zeroes : Nat, values : Nat]]
  /\ mOutData \in [Lags -> [zeroes : Nat, values : Nat]]
  /\ pc \in {"loop", "commit", "done"}

(* The loop, with its early exits and its remembered result, adds to every *)
(* lag exactly what the Escape options promise for it.                     *)
RulesFollowed ==
  /\ OriginTypeOK
  /\ pc = "done" => \A lag \in Lags : mOutData[lag] = Expected(lag)

NoUncareThis == \A k \in DOMAIN conditions : conditions[k].consequence # "UncareThis"

(* With no UncareThis, a longer lag never has more samples than a shorter: *)
(* an origin is used up to some lag and not beyond, whatever combination   *)
(* of early exit, filling up and dropping its conditions lead to.          *)
SamplesDecrease ==
  NoUncareThis =>
    \A short, long \in Lags :
      short <= long =>
        mOutData[long].zeroes + mOutData[long].values
          <= mOutData[short].zeroes + mOutData[short].values
=============================================================================
