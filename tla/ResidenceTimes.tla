--------------------------- MODULE ResidenceTimes ---------------------------
(***************************************************************************)
(* The residence times of one atom (or of one atom and one atom of its     *)
(* shell, which is one item of a coordination shell), as computed by the   *)
(* two families of commands:                                               *)
(*                                                                         *)
(*   ResidenceTimeSSP, ResidenceTimeSSPCoordinationShell, ResidenceTime    *)
(*   and ResidenceTimeCoordinationShell, on the class TCF (tcf.cpp), each  *)
(*   with a loop over the lags of its own;                                 *)
(*   TResidenceTime and TResidenceTimeSSP, on the class TTCF, whose        *)
(*   Escape options are to replace those loops.                            *)
(*                                                                         *)
(* Both read the same frames.  A frame is what the action sees of it:      *)
(* whether the reactants hold the item, whether the products hold the atom *)
(* or the item itself, and whether the atom is still of the kind that      *)
(* CenterMustBe or ShellMustBe names.                                      *)
(***************************************************************************)
EXTENDS TTCFConditions, FiniteSets

CONSTANT Settings   (* the commands to choose from, see settings            *)

ASSUME OneItemAssumption == NumItems = 1
ASSUME SettingsAssumption ==
  \A s \in Settings :
    /\ s.command \in {"ssp", "sspshell", "continuous"}
    /\ s.otherwise \in {"product", "uncare"}
    /\ s.tidyOld \in Int /\ s.mustBeFor \in Nat /\ s.maxEscape \in Int
    /\ s.maxTotalEscape \in Int /\ s.oldMaxEscape \in Int /\ s.oldMaxTotalEscape \in Int
    /\ s.newMustBe \in BOOLEAN /\ s.recrossings \in BOOLEAN
    /\ s.frames \in 0 .. NumFrames

(* The limit on the frames outside that holds when none is given: a window *)
(* is not that long.                                                       *)
NotGiven == 1000000

ASSUME LimitAssumption == MaxTime <= NotGiven

VARIABLES
  settings,   (* command        "ssp", "sspshell" or "continuous"           *)
              (* tidyOld        mTidyOld of the old action                  *)
              (* mustBe         "none", "center" or "shell"                 *)
              (* otherwise      "product" or "uncare"                       *)
              (* mustBeFor      mOldMustBeMemberFor                         *)
              (* oldMaxEscape, oldMaxTotalEscape                            *)
              (*                mOldMaxContinuousEscapeTime and             *)
              (*                mOldMaxTotalEscapeTime, -1: not given       *)
              (* maxEscape, maxTotalEscape                                  *)
              (*                mNewMaxContinuousEscapeTime and             *)
              (*                mNewMaxTotalEscapeTime, -1: not given       *)
              (* newMustBe      mNewMustBeMember                            *)
              (* recrossings    mAllowRecrossings                           *)
              (* conditions     the Escape options of the new action        *)
              (* frames         bound: length of the trajectory             *)
  history,    (* the frames read so far                                     *)
  inData,     (* mInData1, mInData2 and mDoICare of the old action          *)
  outData,    (* mOutData of the old action                                 *)
  newInData,  (* the window of the new action                               *)
  newOutData, (* mOutData of the new action                                 *)
  ended

vars == <<settings, history, inData, outData, newInData, newOutData, ended>>

Zero == [lag \in Lags |-> [value |-> 0, count |-> 0]]

Init ==
  /\ settings \in Settings
  /\ history = <<>>
  /\ inData = <<>>
  /\ outData = Zero
  /\ newInData = <<>>
  /\ newOutData = Zero
  /\ ended = FALSE

(* What a frame can look like to the command.                              *)
Seen ==
  [bond     : BOOLEAN,
   products : CASE settings.command = "continuous" -> {"none"}
                [] settings.command = "ssp"        -> {"none", "bond"}
                [] OTHER                           -> {"none", "member", "bond"},
   identity : IF settings.mustBe = "none" THEN {TRUE} ELSE BOOLEAN]

-----------------------------------------------------------------------------
(* internalAddToTCF of the old actions.                                    *)

(* The atom or the item is not of the kind it must be.  The shell is only  *)
(* looked at for an atom that is in the products.                          *)
Changed(f) ==
  ~f.identity /\ (settings.mustBe = "center" \/ (settings.mustBe = "shell" /\ f.products # "none"))

AddToTCF(f) ==
  [in1 |-> f.bond, in2 |-> f.products = "bond" \/ Changed(f),
   care |-> ~(Changed(f) /\ settings.otherwise = "uncare")]

-----------------------------------------------------------------------------
(* correlateWithLatest of the old actions.  Positions in the window s are  *)
(* numbered from 1 here.                                                   *)

GetMaxDTOld(s) == IF Len(s) < MaxTime THEN Len(s) - 1 ELSE MaxTime - 1

(* Mutated form: nothing is erased.                                        *)
TidiedOld_Never(s) == s

TidiedOld(s) ==
  IF settings.tidyOld > 0 /\ Len(s) > settings.tidyOld * MaxTime
  THEN SubSeq(s, Len(s) - GetMaxDTOld(s), Len(s)) ELSE s

(* The lags from origin x of the window s that add to the correlation      *)
(* function of SSP: none unless x is a reactant.  formed[dt] is            *)
(* vProductToBeSure, and the origin itself is asked for vDoIActuallyCare.  *)
CorrelateSSP(s, x, maxdt) ==
  LET formed[dt \in 0 .. maxdt] == s[x + dt].in2 \/ (dt > 0 /\ formed[dt - 1])
  IN [lag \in Lags |->
        IF lag > maxdt \/ ~s[x].in1 \/ ~s[x].care THEN [value |-> 0, count |-> 0]
        ELSE [value |-> IF formed[lag] THEN 0 ELSE 1, count |-> 1]]

(* mNewMembershipType = Complicated, and the limits of both memberships.  *)
Complicated == settings.maxEscape >= 0 \/ settings.maxTotalEscape >= 0

Limit(given)   == IF given < 0 THEN NotGiven ELSE given
Allowed(given) == IF given < 0 THEN 0 ELSE given

InData1(s) == [y \in DOMAIN s |-> s[y].in1]

(* isOldAMember.  A limit that is not given is passed on as -1 and, as 0   *)
(* does, allows no frame outside.                                          *)
IsOldAMember(s, x) ==
  LET first == x - settings.mustBeFor
      z     == Zeroes(InData1(s), first, x)
  IN IF settings.mustBeFor = 0 THEN s[x].in1
     ELSE /\ first >= 1
          /\ z.longest <= Allowed(settings.oldMaxEscape)
          /\ z.total <= Allowed(settings.oldMaxTotalEscape)

(* Mutated form: an escape as long as the limit breaks the membership.     *)
SingleCorrelate_Reached(s, x, dt) ==
  LET z == Zeroes(InData1(s), x, x + dt)
  IN IF ~Complicated THEN s[x + dt].in1
     ELSE /\ z.longest < Limit(settings.maxEscape)
          /\ z.total < Limit(settings.maxTotalEscape)

(* singleInternalCorrelateWithLatest with OldMustBeMember: Simple and      *)
(* Complicated membership.                                                 *)
SingleCorrelate(s, x, dt) ==
  LET z == Zeroes(InData1(s), x, x + dt)
  IN IF ~Complicated THEN s[x + dt].in1
     ELSE /\ z.longest <= Limit(settings.maxEscape)
          /\ z.total <= Limit(settings.maxTotalEscape)

(* The same for ResidenceTime with OldMustBeMember.  broken[dt] is vBroken *)
(* after lag dt.                                                           *)
CorrelateContinuous(s, x, maxdt) ==
  LET skipped(dt) == settings.newMustBe /\ ~s[x + dt].in1
      broken[dt \in -1 .. maxdt] ==
        dt >= 0 /\ (broken[dt - 1] \/ (~skipped(dt) /\ ~SingleCorrelate(s, x, dt)))
      ends(dt) == broken[dt - 1] /\ ~settings.recrossings
  IN [lag \in Lags |->
        IF lag > maxdt \/ ~IsOldAMember(s, x) THEN [value |-> 0, count |-> 0]
        ELSE [value |-> IF ~skipped(lag) /\ ~ends(lag) /\ SingleCorrelate(s, x, lag)
                        THEN 1 ELSE 0,
              count |-> 1]]

Plus(out, more) ==
  [lag \in Lags |-> [value |-> out[lag].value + more[lag].value,
                     count |-> out[lag].count + more[lag].count]]

(* Mutated form: a window that is not yet full is correlated, too.         *)
CorrelateWithLatest_Partial(s, out, externalmaxdt) ==
  LET largest == GetMaxDTOld(s)
      maxdt   == IF externalmaxdt \in 0 .. largest - 1 THEN externalmaxdt ELSE largest
      latest  == Len(s) - MaxTime
  IN IF settings.command = "continuous"
     THEN IF latest < 1 THEN out ELSE Plus(out, CorrelateContinuous(s, latest, largest))
     ELSE Plus(out, CorrelateSSP(s, Len(s) - maxdt, maxdt))

(* correlateWithLatest(externalmaxdt), -1 when it is not given, on the     *)
(* tidied window.  The origin of ResidenceTime is one frame older than its *)
(* largest lag.                                                            *)
CorrelateWithLatest(s, out, externalmaxdt) ==
  LET largest == GetMaxDTOld(s)
      maxdt   == IF externalmaxdt \in 0 .. largest - 1 THEN externalmaxdt ELSE largest
      latest  == Len(s) - MaxTime
  IN IF settings.command = "continuous"
     THEN IF latest < 1 THEN out ELSE Plus(out, CorrelateContinuous(s, latest, largest))
     ELSE IF maxdt = largest /\ largest < MaxTime - 1 THEN out
     ELSE Plus(out, CorrelateSSP(s, Len(s) - maxdt, maxdt))

(* internalFinalAction: ResidenceTime has no correlations left to do.  Of  *)
(* an empty trajectory no frame has created the correlation function.      *)
FinalOutDataOld ==
  LET start == IF MaxTime > Len(history) THEN MaxTime - 1 ELSE MaxTime - 2
      s     == TidiedOld(inData)
      out[i \in 0 .. start + 1] ==
        IF i = start + 1 THEN outData ELSE CorrelateWithLatest(s, out[i + 1], i)
  IN IF settings.command = "continuous" \/ history = <<>> THEN outData ELSE out[0]

-----------------------------------------------------------------------------
(* The new actions: the loop of correlateFromOldIndex as a fold.           *)

(* The flags of the conditions, addValueBoolInfo: the first value for the  *)
(* group, the second for the products.  0-based, as in TTCFConditions.     *)
Flags(s) ==
  [k \in DOMAIN settings.conditions |->
     [i \in 0 .. Len(s) - 1 |->
        IF settings.conditions[k].type \in {"OldValue2", "NewValue2"}
        THEN s[i + 1].in2 ELSE s[i + 1].in1]]

(* Mutated form: the products of the origin.                               *)
InternalCorrelate_OldProduct(s, old, new) ==
  IF settings.command = "continuous" THEN IF s[old + 1].in1 /\ s[new + 1].in1 THEN 1 ELSE 0
  ELSE IF s[old + 1].in1 /\ s[old + 1].in2 THEN 0 ELSE 1

(* internalCorrelateWithLatest of TResidenceTime and TResidenceTimeSSP.    *)
InternalCorrelate(s, old, new) ==
  IF settings.command = "continuous" THEN IF s[old + 1].in1 /\ s[new + 1].in1 THEN 1 ELSE 0
  ELSE IF s[old + 1].in1 /\ s[new + 1].in2 THEN 0 ELSE 1

(* The lags that origin old adds: after[dt] is the state of the loop       *)
(* behind lag dt.  The options on the precedence of Uncare are not set.    *)
CorrelateFromOldIndex(s, old) ==
  LET conditions == settings.conditions
      after[dt \in -1 .. MaxTime - 1] ==
        IF dt < 0 THEN [stopped |-> FALSE, known |-> FALSE, value |-> 0, count |-> 0]
        ELSE LET before == after[dt - 1]
                 care   == DoICare(conditions, Flags(s), old, old + dt)
                 quick  == QuickCorrelate(conditions, Flags(s), old, old + dt)
                 known  == before.known \/ quick = "ValueRemaining"
             IN IF before.stopped \/ ~Reaches(Len(s), old, dt) \/ care = "UncareRemaining"
                THEN [stopped |-> TRUE, known |-> before.known, value |-> 0, count |-> 0]
                ELSE IF care = "UncareThis"
                THEN [before EXCEPT !.value = 0, !.count = 0]
                ELSE [stopped |-> FALSE, known |-> known, count |-> 1,
                      value |-> IF known \/ quick = "ValueThis" THEN 0
                                ELSE InternalCorrelate(s, old, old + dt)]
  IN [lag \in Lags |-> [value |-> after[lag].value, count |-> after[lag].count]]

(* correlate(1, externalmaxdt): at most one origin.                        *)
CorrelateNew(s, out, externalmaxdt) ==
  LET origins == OriginIndices(Len(s), 1, externalmaxdt)
  IN IF TooShort(Len(s), externalmaxdt) \/ origins = {} THEN out
     ELSE Plus(out, CorrelateFromOldIndex(s, CHOOSE x \in origins : TRUE))

(* The loop of internalFinalAction over the windows that are cut off.      *)
FinalOutDataNew ==
  LET out[i \in 0 .. MaxTime - 1] ==
        IF i = MaxTime - 1 THEN newOutData
        ELSE CorrelateNew(newInData, out[i + 1], i)
  IN out[0]

-----------------------------------------------------------------------------
(* One frame: push_back_in_data of the old action, internalAction of the   *)
(* new one.                                                                *)
Frame(f) ==
  LET added == AddToTCF(f)
      s     == TidiedOld(Append(inData, added))
      t     == Append(newInData, added)
  IN /\ ~ended
     /\ Len(history) < settings.frames
     /\ history' = Append(history, f)
     /\ inData' = s
     /\ outData' = CorrelateWithLatest(s, outData, -1)
     /\ newInData' = TidiedAfter(t, t, -1)
     /\ newOutData' = CorrelateNew(t, newOutData, -1)
     /\ UNCHANGED <<settings, ended>>

(* The trajectory ends.                                                    *)
FinalAction ==
  /\ ~ended
  /\ ended' = TRUE
  /\ outData' = FinalOutDataOld
  /\ newOutData' = FinalOutDataNew
  /\ inData' = TidiedOld(inData)
  /\ UNCHANGED <<settings, history, newInData>>

Next == FinalAction \/ \E f \in Seen : Frame(f)

Spec == Init /\ [][Next]_vars

-----------------------------------------------------------------------------
(* Expected results, from the frames alone.                                *)

Count == Len(history)

(* Frames first .. last hold a stretch outside that is longer than limit.  *)
Escapes(first, last, limit) ==
  \E f \in first .. last - limit : \A g \in f .. f + limit : ~history[g].bond

FramesOutside(first, last) == Cardinality({f \in first .. last : ~history[f].bond})

(* The reaction has not taken place until `last', seen from the origin.    *)
Unreacted(origin, last) ==
  \A f \in origin .. last : ~(history[f].products = "bond" \/ Changed(history[f]))

(* The membership has lasted from the origin to the frame `last'.          *)
Stays(origin, last, presentAtEnd) ==
  IF Complicated
  THEN /\ settings.maxEscape >= 0 => ~Escapes(origin, last, settings.maxEscape)
       /\ settings.maxTotalEscape >= 0 => FramesOutside(origin, last) <= settings.maxTotalEscape
       /\ presentAtEnd => history[last].bond
  ELSE IF settings.newMustBe \/ settings.recrossings THEN history[last].bond
  ELSE ~Escapes(origin, last, 0)

(* The membership before the origin that OldMustBeMemberFor asks for.      *)
WasMember(origin) ==
  LET first == origin - settings.mustBeFor
  IN IF settings.mustBeFor = 0 THEN history[origin].bond
     ELSE /\ ~Escapes(first, origin, Allowed(settings.oldMaxEscape))
          /\ FramesOutside(first, origin) <= Allowed(settings.oldMaxTotalEscape)

(* What the origins that are due at a lag add up to.                       *)
Sum(Due(_), IsOrigin(_), Holds(_, _)) ==
  [lag \in Lags |->
     LET origins == {o \in Due(lag) : IsOrigin(o)}
     IN [value |-> Cardinality({o \in origins : Holds(o, o + lag)}),
         count |-> Cardinality(origins)]]

Bonded(o) == history[o].bond

(* Types, and the memory that TidyOld is to bound.                         *)
TypeOK ==
  /\ settings \in Settings
  /\ history \in Seq([bond : BOOLEAN, products : {"none", "member", "bond"},
                      identity : BOOLEAN]) /\ Count <= settings.frames
  /\ inData \in Seq([in1 : BOOLEAN, in2 : BOOLEAN, care : BOOLEAN])
  /\ settings.tidyOld > 0 => Len(inData) <= settings.tidyOld * MaxTime
  /\ newInData \in Seq([in1 : BOOLEAN, in2 : BOOLEAN, care : BOOLEAN])
  /\ outData \in [Lags -> [value : Nat, count : Nat]]
  /\ newOutData \in [Lags -> [value : Nat, count : Nat]]
  /\ ended \in BOOLEAN

(* ResidenceTimeSSP holds the survival of the reactants against an         *)
(* absorbing boundary: each origin once, whatever was trimmed, and at the  *)
(* end the shorter windows, too.  Of a trajectory shorter than MaxTime the *)
(* first origin is not used: the final action begins with a lag that       *)
(* correlateWithLatest refuses (actionresidencetimessp.cpp:55).            *)
SurvivalOfEachOrigin ==
  settings.command # "continuous" /\ settings.otherwise = "product" =>
    LET Due(lag) == IF ~ended THEN 1 .. Count - MaxTime + 1
                    ELSE (IF Count < MaxTime THEN 2 ELSE 1) .. Count - lag
    IN outData = Sum(Due, Bonded, Unreacted)

(* ResidenceTime holds, for each origin it uses, the survival of the       *)
(* membership as the comment at its head has it                            *)
(* (tcfresidencetimecontinuous.cpp:6).  It uses an origin one frame later  *)
(* than it could, loses one whenever the window is trimmed, and those of   *)
(* the last MaxTime frames are never used.  With OldMustBeMemberFor it     *)
(* loses as many more, whose past has been trimmed.                        *)
SurvivalOfMembers ==
  settings.command = "continuous" =>
    LET tidy  == settings.tidyOld
        every == (tidy - 1) * MaxTime + 1  \* frames from one trimming to the next
        Trimmed(o) == tidy > 0 /\ o + MaxTime > tidy * MaxTime
                               /\ (o + MaxTime - tidy * MaxTime - 1) % every <= settings.mustBeFor
        Due(lag) == {o \in 1 .. Count - MaxTime : ~Trimmed(o)}
        IsOrigin(o) == o > settings.mustBeFor /\ WasMember(o)
        Holds(o, last) == Stays(o, last, settings.newMustBe)
    IN outData = Sum(Due, IsOrigin, Holds)

(* The Escape options that the documentation gives for the new commands:   *)
(* the value at the origin selects it, and the loop over the conditions is *)
(* the absorbing boundary (docs/input.rst:1504-1523, 1540).  Without       *)
(* NewValueEscape2 the reactants come back (docs/input.rst:1612).          *)
Value(type, frames, continuous, negate, consequence) ==
  [type |-> type, history |-> frames, continuous |-> continuous, max |-> -1,
   negate |-> negate, softhistory |-> FALSE, consequence |-> consequence]

IsValue == Value("OldValue1", 0, 0, FALSE, "UncareRemaining")

Absorbing == <<IsValue, Value("NewValue2", 0, 0, TRUE, "ValueRemaining")>>

Outside(limit) == <<IsValue, Value("NewValue1", -1, limit, FALSE, "ValueRemaining")>>

MemberOptions(maxEscape, newMustBe, recrossings) ==
  IF maxEscape >= 0 THEN Outside(maxEscape)
  ELSE IF newMustBe \/ recrossings THEN <<IsValue>>
  ELSE Outside(0)

Documented(s) ==
  IF s.command = "continuous"
  THEN s.maxTotalEscape < 0 /\ s.conditions = MemberOptions(s.maxEscape, s.newMustBe, s.recrossings)
  ELSE s.conditions \in {<<IsValue>>, Absorbing}

(* These options make the new commands compute the same survival as the    *)
(* old ones, of every origin of the trajectory.                            *)
NewVersionReplacesOld ==
  Documented(settings) =>
    LET Due(lag) == IF ended THEN 1 .. Count - lag ELSE 1 .. Count - MaxTime + 1
        Holds(o, last) == IF settings.command = "continuous" THEN Stays(o, last, TRUE)
                          ELSE IF Len(settings.conditions) = 2 THEN Unreacted(o, last)
                          ELSE Unreacted(last, last)
    IN newOutData = Sum(Due, Bonded, Holds)

(* "if you're told not to care about this dt, then do not care at any      *)
(* greater dt either" (tcfresidencetimessp.cpp:50): once the atom is not   *)
(* of the kind it must be, Uncare leaves the origin out from there on,     *)
(* unless the product was formed before.                                   *)
UncaredIsLeftOut ==
  ended /\ settings.otherwise = "uncare" =>
    \A lag \in Lags :
      outData[lag].count <=
        Cardinality({o \in 1 .. Count - lag :
          Bonded(o) /\ \A f \in o .. o + lag :
            Changed(history[f]) => \E g \in o .. f - 1 : history[g].products = "bond"})

=============================================================================
