--------------------------- MODULE MainLoop_proofs ---------------------------
(***************************************************************************)
(* The main loop, for all settings, all paths and all dump files.          *)
(***************************************************************************)
EXTENDS MainLoop, SequenceTheorems, FiniteSetTheorems, WellFoundedInduction, TLAPS

DumpFrame == [number : Nat, size : Nat]
Accepted  == [number : Nat, xu : Int, vx : Int]

(* What the input is: nothing changes it.                                  *)
InputInv ==
  /\ settings \in Settings
  /\ dump # <<>> /\ dump \in Seq(Seq(DumpFrame))
  /\ \A i \in DOMAIN dump : \A j \in DOMAIN dump[i] :
       dump[i][j].number \in DOMAIN path /\ path[dump[i][j].number] \in Int

(* Where the program is; the sizes are those of frames of the files.       *)
LoopTypes ==
  /\ dumpfileindex \in 1 .. Len(dump) /\ position \in 1 .. Len(File) + 1
  /\ keepRunning \in BOOLEAN
  /\ phase \in {"loop", "final", "done", "aborted", "exception"}
  /\ number \in Int
  /\ atoms \in [size : {0} \cup {f.size : f \in UNION {Range(g) : g \in Range(dump)}},
                xu : Int, vx : Int]
  /\ accepted \in Seq(Accepted)

RunTypes ==
  /\ totaltimesteps \in Nat /\ mCount \in Nat /\ handled \in Seq(Nat) /\ totalSize \in Nat
  /\ totaltimesteps <= loopcount /\ mCount <= totaltimesteps /\ Len(handled) <= mCount

-----------------------------------------------------------------------------
(* The frames read and counted.                                            *)
CountedOf(frames, increase) ==
  {i \in 1 .. Len(frames) : increase => \A j \in 1 .. i - 1 : frames[j].number < frames[i].number}

OrderOf(acc, frames, increase) ==
  /\ Len(acc) = Cardinality(CountedOf(frames, increase))
  /\ \A i \in CountedOf(frames, increase) :
       acc[Cardinality({j \in CountedOf(frames, increase) : j <= i})].number = frames[i].number

(* number is the highest number of a frame read so far.                    *)
HighestOf(num, frames) ==
  /\ frames = <<>> => num < 0
  /\ frames # <<>> => \E j \in 1 .. Len(frames) : frames[j].number = num
  /\ \A j \in 1 .. Len(frames) : frames[j].number <= num

OrderInv ==
  /\ phase # "exception" => OrderOf(accepted, FramesRead, FrameNumbersMustIncrease)
  /\ phase = "loop" /\ FrameNumbersMustIncrease => HighestOf(number, FramesRead)

(* atoms holds the last frame read.                                        *)
SizeInv ==
  /\ phase = "loop" /\ FramesRead # <<>> => atoms.size = FramesRead[Len(FramesRead)].size
  /\ ThrowsOnlyWhenSizeChanges

-----------------------------------------------------------------------------
(* Every frame read is counted; the last need not be when it makes the     *)
(* program give up.                                                        *)
NoneSkipped == Len(FramesRead) = IF phase = "exception" THEN loopcount + 1 ELSE loopcount

(* ... and no atom moves half a cell or more from one to the next.         *)
Followable ==
  /\ NoneSkipped
  /\ \A i \in 2 .. loopcount :
       LET step == path[accepted[i].number] - path[accepted[i - 1].number]
       IN 2 * step < CellLength /\ -CellLength < 2 * step

(* The unwrapped coordinate is the path but for whole cells.               *)
UnwrapInv ==
  DoIntelligentUnwrap /\ NoneSkipped =>
    /\ phase = "loop" /\ loopcount >= 1 => atoms.xu = accepted[loopcount].xu
    /\ \A i \in 1 .. loopcount :
         /\ path[accepted[i].number] \in Int
         /\ \E k \in Int : accepted[i].xu = path[accepted[i].number] + CellLength * k
    /\ DoCalculateVelocities =>
         \A i \in 2 .. loopcount : accepted[i].vx = accepted[i].xu - accepted[i - 1].xu
    /\ Followable => UnwrapFollowsPath

-----------------------------------------------------------------------------
(* The numbers of the frames that are wanted when no Timesteps are given,  *)
(* and the first of them.                                                  *)
Regular(k, min, super) == k >= min /\ (k - 1) % super = 0
FirstOf(min, super) ==
  CHOOSE w \in Nat \ {0} : Regular(w, min, super) /\ \A k \in Nat \ {0} : Regular(k, min, super) => w <= k
First == FirstOf(MinTimestep, SuperEvery)

(* Frame First + SuperEvery * n is the n-th handed to the actions, and     *)
(* every Every-th of these is counted and, from some one on, handled.      *)
ScheduleInv ==
  Timesteps = {} =>
    /\ loopcount < First + SuperEvery * totaltimesteps
    /\ totaltimesteps > 0 => First + SuperEvery * (totaltimesteps - 1) <= loopcount
    /\ ~IfGroup =>
         /\ totaltimesteps <= Every * mCount
         /\ mCount > 0 => Every * (mCount - 1) < totaltimesteps
         /\ NumbersRise =>
              \A i \in 1 .. Len(handled) :
                handled[i] = First + SuperEvery * Every * (mCount - Len(handled) + i - 1)

(* Once a frame was handled all that are counted are.                      *)
HandledInv ==
  /\ phase = "loop" /\ loopcount > 0 => number = accepted[loopcount].number
  /\ NumbersRise /\ handled # <<>> /\ phase = "loop" => mCount >= MinCount /\ number >= MinTimestepNumber
  /\ MinCount <= 1 /\ MinTimestepNumber <= 0 => Len(handled) = mCount

-----------------------------------------------------------------------------
(* After Ctrl-C no further pass begins, and the one under way, if any, has *)
(* counted nothing yet.                                                    *)
InterruptInv ==
  /\ inPass \in BOOLEAN /\ caught \in -1 .. loopcount
  /\ caught # -1 => ~keepRunning /\ loopcount <= caught + 1
  /\ caught # -1 /\ inPass => loopcount = caught

WantedFrames(n) == {k \in 1 .. n : Wanted(k)}

(* Every frame that is wanted has been handed to the actions.              *)
HandedOver == totaltimesteps = Cardinality(WantedFrames(loopcount))

IInv ==
  /\ InputInv /\ LoopTypes /\ RunTypes /\ OrderInv /\ SizeInv /\ UnwrapInv /\ ScheduleInv
  /\ HandledInv /\ InterruptInv /\ HandedOver

-----------------------------------------------------------------------------
(* Every set of natural numbers that is not empty has a least element.     *)
LEMMA LeastElement ==
  ASSUME NEW S \in SUBSET Nat, S # {}
  PROVE  \E n \in S : \A m \in S : n <= m
<1> DEFINE R == OpToRel(<, Nat)
<1>1. IsWellFoundedOn(R, Nat)
  BY NatLessThanWellFounded
<1>2. \E n \in S : \A m \in S : ~(<<m, n>> \in R)
  <2> HIDE DEF R
  <2> QED BY <1>1, WFMin
<1>3. \A n, m \in Nat : <<m, n>> \in R <=> m < n
  BY DEF OpToRel
<1> HIDE DEF R
<1>4. \A n, m \in S : ~(<<m, n>> \in R) => n <= m
  BY <1>3
<1> QED BY <1>2, <1>4

(* The function behind FlattenSeq, for the first n sequences of d.         *)
IsFlat(d, n, f) == f = [i \in 1 .. n |-> IF i = 1 THEN d[i] ELSE f[i - 1] \o d[i]]

LEMMA FlatExists ==
  ASSUME NEW d, NEW n \in Nat
  PROVE  \E f : IsFlat(d, n, f)
<1> DEFINE S == {m \in Nat : ~ \E f : IsFlat(d, m, f)}
<1>1. ASSUME NEW m \in S, \A x \in S : m <= x
      PROVE  FALSE
  <2>1. CASE m = 0
    <3>1. IsFlat(d, 0, [i \in 1 .. 0 |-> d[i]])
      BY DEF IsFlat
    <3> QED BY <1>1, <2>1, <3>1
  <2>2. CASE m # 0
    <3>1. m - 1 \in Nat /\ m - 1 \notin S /\ m \in Nat
      BY <1>1, <2>2
    <3>2. PICK g : IsFlat(d, m - 1, g)
      BY <3>1
    <3> DEFINE T(i, f) == IF i = 1 THEN d[i] ELSE f[i - 1] \o d[i]
               f == [i \in 1 .. m |-> IF i < m THEN g[i] ELSE T(m, g)]
    <3>3. \A i \in 1 .. m - 1 : f[i] = g[i] /\ g[i] = T(i, g)
      <4>1. \A i \in 1 .. m - 1 : g[i] = T(i, g)
        BY <3>2, Zenon DEF IsFlat
      <4>2. \A i \in 1 .. m - 1 : i \in 1 .. m /\ i < m
        BY <3>1
      <4>3. \A i \in 1 .. m - 1 : f[i] = g[i]
        <5> HIDE DEF T
        <5> QED BY <4>2
      <4> HIDE DEF f, T
      <4> QED BY <4>1, <4>3
    <3>4. f[m] = T(m, g)
      BY <3>1, <2>2
    <3>5. f = [i \in 1 .. m |-> f[i]]
      OBVIOUS
    <3> HIDE DEF f
    <3>6. \A i \in 1 .. m : T(i, f) = T(i, g)
      <4> SUFFICES ASSUME NEW i \in 1 .. m PROVE T(i, f) = T(i, g)
        OBVIOUS
      <4>1. i = 1 \/ f[i - 1] = g[i - 1]
        BY <3>1, <3>3
      <4> QED BY <4>1
    <3> HIDE DEF T
    <3>7. \A i \in 1 .. m : f[i] = T(i, f)
      <4> SUFFICES ASSUME NEW i \in 1 .. m PROVE f[i] = T(i, f)
        OBVIOUS
      <4>1. i = m \/ i \in 1 .. m - 1
        BY <3>1
      <4> QED BY <3>3, <3>4, <3>6, <4>1
    <3>8. f = [i \in 1 .. m |-> T(i, f)]
      BY <3>5, <3>7
    <3> QED BY <1>1, <3>8 DEF IsFlat, T
  <2> QED BY <2>1, <2>2
<1>2. S = {}
  <2>1. S \in SUBSET Nat
    OBVIOUS
  <2> HIDE DEF S
  <2> QED BY <1>1, <2>1, LeastElement
<1> QED BY <1>2

(* Two of them agree as far as both go, and are made of sequences.         *)
LEMMA FlatUnique ==
  ASSUME NEW S, NEW d, NEW e, NEW n \in Nat, NEW m \in n .. n + 1, NEW f, NEW g,
         IsFlat(d, n, f), IsFlat(e, m, g), \A i \in 1 .. n : e[i] = d[i] /\ d[i] \in Seq(S)
  PROVE  \A i \in 1 .. n : f[i] = g[i] /\ f[i] \in Seq(S)
<1> DEFINE D == {i \in 1 .. n : ~(f[i] = g[i] /\ f[i] \in Seq(S))}
<1>1. ASSUME NEW k \in D, \A x \in D : k <= x
      PROVE  FALSE
  <2>1. /\ k \in 1 .. n /\ k \in 1 .. m /\ d[k] = e[k] /\ d[k] \in Seq(S)
        /\ f[k] = IF k = 1 THEN d[k] ELSE f[k - 1] \o d[k]
        /\ g[k] = IF k = 1 THEN e[k] ELSE g[k - 1] \o e[k]
    <3>1. k \in 1 .. n /\ k \in 1 .. m /\ d[k] = e[k] /\ d[k] \in Seq(S)
      BY <1>1
    <3>2. f[k] = IF k = 1 THEN d[k] ELSE f[k - 1] \o d[k]
      BY <3>1, Zenon DEF IsFlat
    <3>3. g[k] = IF k = 1 THEN e[k] ELSE g[k - 1] \o e[k]
      BY <3>1, Zenon DEF IsFlat
    <3> HIDE DEF D
    <3> QED BY <3>1, <3>2, <3>3
  <2>2. CASE k = 1
    BY <1>1, <2>1, <2>2
  <2>3. CASE k # 1
    <3>1. k - 1 \in 1 .. n /\ k - 1 \notin D
      BY <1>1, <2>1, <2>3
    <3>2. f[k - 1] = g[k - 1] /\ f[k - 1] \in Seq(S)
      BY <3>1
    <3>3. f[k] = g[k] /\ f[k] = f[k - 1] \o d[k]
      BY <2>1, <2>3, <3>2
    <3>4. f[k] \in Seq(S)
      BY <2>1, <3>2, <3>3, ConcatProperties
    <3> QED BY <1>1, <3>3, <3>4
  <2> QED BY <2>2, <2>3
<1>2. D = {}
  <2>1. D \in SUBSET Nat
    OBVIOUS
  <2> HIDE DEF D
  <2> QED BY <1>1, <2>1, LeastElement
<1> QED BY <1>2

(* FlattenSeq is such a function at its last place.                        *)
LEMMA FlattenIsFlat ==
  ASSUME NEW d, NEW n \in Nat \ {0}, Len(d) = n
  PROVE  \E f : IsFlat(d, n, f) /\ FlattenSeq(d) = f[n]
<1> DEFINE Body(f) == [i \in 1 .. Len(d) |-> IF i = 1 THEN d[i] ELSE f[i - 1] \o d[i]]
           flatten == CHOOSE f : f = Body(f)
<1>1. FlattenSeq(d) = flatten[n]
  BY DEF FlattenSeq
<1>2. \A f : f = Body(f) <=> IsFlat(d, n, f)
  BY DEF IsFlat
<1> HIDE DEF Body
<1>3. IsFlat(d, n, flatten)
  BY <1>2, FlatExists
<1> QED BY <1>1, <1>3

(* One more sequence is put at the end.                                    *)
LEMMA FlattenNext ==
  ASSUME NEW S, NEW d \in Seq(Seq(S)), NEW k \in 1 .. Len(d)
  PROVE  /\ FlattenSeq(SubSeq(d, 1, k - 1)) \in Seq(S)
         /\ FlattenSeq(SubSeq(d, 1, k)) = FlattenSeq(SubSeq(d, 1, k - 1)) \o d[k]
<1> DEFINE e == SubSeq(d, 1, k)
           b == SubSeq(d, 1, k - 1)
<1>1. Len(d) \in Nat /\ k \in Nat \ {0} /\ \A i \in 1 .. Len(d) : d[i] \in Seq(S)
  BY LenProperties, ElementOfSeq
<1>2. Len(e) = k /\ \A i \in 1 .. k : e[i] = d[i]
  <2>1. \A i \in 1 .. k : d[i] \in Seq(S)
    BY <1>1
  <2> QED BY <1>1, <2>1, SubSeqProperties
<1>3. Len(b) = k - 1 /\ \A i \in 1 .. k - 1 : b[i] = d[i]
  <2>1. \A i \in 1 .. k - 1 : d[i] \in Seq(S)
    BY <1>1
  <2> QED BY <1>1, <2>1, SubSeqProperties
<1>4. PICK g : IsFlat(e, k, g) /\ FlattenSeq(e) = g[k]
  BY <1>1, <1>2, FlattenIsFlat
<1>5. CASE k = 1
  <2>1. b = <<>>
    BY <1>5, SubSeqEmpty
  <2>2. FlattenSeq(b) = <<>>
    BY <2>1 DEF FlattenSeq
  <2>3. FlattenSeq(e) = d[1]
    BY <1>2, <1>4, <1>5 DEF IsFlat
  <2>4. d[1] \in Seq(S) /\ <<>> \o d[1] = d[1]
    BY <1>1, <1>5, ConcatEmptySeq
  <2>5. <<>> \in Seq(S)
    OBVIOUS
  <2> HIDE DEF e, b
  <2>6. FlattenSeq(b) \in Seq(S) /\ FlattenSeq(e) = FlattenSeq(b) \o d[1]
    BY <2>2, <2>3, <2>4, <2>5
  <2> QED BY <1>5, <2>6 DEF e, b
<1>6. CASE k # 1
  <2>1. k - 1 \in Nat \ {0} /\ k \in k - 1 .. (k - 1) + 1 /\ k - 1 \in 1 .. k - 1 /\ k \in 1 .. k
    BY <1>1, <1>6
  <2>2. PICK f : IsFlat(b, k - 1, f) /\ FlattenSeq(b) = f[k - 1]
    BY <1>3, <2>1, FlattenIsFlat
  <2>3. \A i \in 1 .. k - 1 : e[i] = b[i] /\ b[i] \in Seq(S)
    BY <1>1, <1>2, <1>3
  <2> HIDE DEF e, b
  <2>4. f[k - 1] = g[k - 1] /\ f[k - 1] \in Seq(S)
    BY <1>4, <2>1, <2>2, <2>3, FlatUnique
  <2>5. g[k] = g[k - 1] \o e[k]
    BY <1>4, <1>6, <2>1 DEF IsFlat
  <2> QED BY <1>2, <1>4, <2>1, <2>2, <2>4, <2>5 DEF e, b
<1> QED BY <1>5, <1>6

-----------------------------------------------------------------------------
(* The frames read, when a file is changed and when a frame is read.       *)
LEMMA CurrentFile ==
  ASSUME InputInv, LoopTypes
  PROVE  /\ dumpfileindex \in 1 .. Len(dump) /\ Len(dump) \in Nat
         /\ File \in Seq(DumpFrame) /\ Len(File) \in Nat /\ position \in 1 .. Len(File) + 1
         /\ SubSeq(File, 1, position - 1) \in Seq(DumpFrame)
         /\ FramesRead \in Seq(DumpFrame)
         /\ FlattenSeq(SubSeq(dump, 1, dumpfileindex - 1)) \in Seq(DumpFrame)
<1>1. dumpfileindex \in 1 .. Len(dump) /\ dump \in Seq(Seq(DumpFrame)) /\ Len(dump) \in Nat
      /\ position \in 1 .. Len(File) + 1
  BY LenProperties DEF InputInv, LoopTypes
<1>2. File \in Seq(DumpFrame) /\ Len(File) \in Nat
  BY <1>1, ElementOfSeq, LenProperties DEF File
<1>3. SubSeq(File, 1, position - 1) \in Seq(DumpFrame)
  <2>1. \A i \in 1 .. position - 1 : File[i] \in DumpFrame
    BY <1>1, <1>2, ElementOfSeq
  <2> QED BY <1>1, <1>2, <2>1, SubSeqProperties
<1>4. FlattenSeq(SubSeq(dump, 1, dumpfileindex - 1)) \in Seq(DumpFrame)
  BY <1>1, FlattenNext
<1>5. FramesRead \in Seq(DumpFrame)
  BY <1>3, <1>4, ConcatProperties DEF FramesRead
<1> QED BY <1>1, <1>2, <1>3, <1>4, <1>5

LEMMA NextFileRead ==
  ASSUME InputInv, LoopTypes, position > Len(File), dumpfileindex < Len(dump),
         UNCHANGED dump, dumpfileindex' = dumpfileindex + 1, position' = 1
  PROVE  FramesRead' = FramesRead
<1>1. position - 1 = Len(File)
  BY CurrentFile
<1>2. SubSeq(File, 1, position - 1) = File
  BY <1>1, CurrentFile, SubSeqFull
<1>3. FramesRead = FlattenSeq(SubSeq(dump, 1, dumpfileindex - 1)) \o dump[dumpfileindex]
  BY <1>2 DEF FramesRead, File
<1>4. FramesRead = FlattenSeq(SubSeq(dump, 1, dumpfileindex))
  BY <1>3, CurrentFile, FlattenNext DEF InputInv
<1>5. FramesRead' = FlattenSeq(SubSeq(dump, 1, dumpfileindex)) \o <<>>
  <2>1. dumpfileindex' - 1 = dumpfileindex /\ position' - 1 = 0
    BY CurrentFile
  <2>2. SubSeq(File', 1, 0) = <<>>
    BY SubSeqEmpty
  <2>3. FramesRead' = FlattenSeq(SubSeq(dump', 1, dumpfileindex' - 1)) \o SubSeq(File', 1, position' - 1)
    BY DEF FramesRead
  <2>4. SubSeq(File', 1, position' - 1) = <<>>
    BY <2>1, <2>2
  <2> QED BY <2>1, <2>3, <2>4
<1> QED BY <1>4, <1>5, CurrentFile, ConcatEmptySeq

LEMMA NextFrameRead ==
  ASSUME InputInv, LoopTypes, position <= Len(File),
         UNCHANGED <<dump, dumpfileindex>>, position' = position + 1
  PROVE  /\ FramesRead' = Append(FramesRead, File[position])
         /\ File[position] \in DumpFrame
<1>1. position \in 1 .. Len(File) /\ File[position] \in DumpFrame /\ File' = File
  BY CurrentFile, ElementOfSeq DEF File
<1>2. SubSeq(File, 1, position) = SubSeq(File, 1, position - 1) \o <<File[position]>>
  <2>1. 1 \in 1 .. Len(File) /\ position \in 1 .. Len(File)
    BY <1>1, CurrentFile
  <2> QED BY <2>1, CurrentFile, SubSeqRecursiveSecond
<1>3. <<File[position]>> \in Seq(DumpFrame)
  BY <1>1
<1>4. FramesRead' = FlattenSeq(SubSeq(dump, 1, dumpfileindex - 1)) \o SubSeq(File, 1, position)
  <2>1. position + 1 - 1 = position
    BY CurrentFile
  <2> QED BY <1>1, <2>1 DEF FramesRead
<1>5. FramesRead' = FramesRead \o <<File[position]>>
  <2> DEFINE x == FlattenSeq(SubSeq(dump, 1, dumpfileindex - 1))
             y == SubSeq(File, 1, position - 1)
             z == <<File[position]>>
  <2>1. x \in Seq(DumpFrame) /\ y \in Seq(DumpFrame) /\ z \in Seq(DumpFrame)
    BY <1>3, CurrentFile
  <2>2. FramesRead = x \o y /\ FramesRead' = x \o (y \o z)
    BY <1>2, <1>4 DEF FramesRead
  <2> HIDE DEF x, y, z
  <2>3. (x \o y) \o z = x \o (y \o z)
    BY <2>1, ConcatAssociative, SMTT(30)
  <2> QED BY <2>2, <2>3 DEF z
<1> QED BY <1>1, <1>5, CurrentFile, AppendIsConcat

-----------------------------------------------------------------------------
(* What a step does that neither reads a frame nor runs the actions.       *)
Quiet ==
  /\ UNCHANGED <<input, number, accepted, runVars>>
  /\ FramesRead' = FramesRead
  /\ phase' = "loop" => phase = "loop" /\ atoms' = atoms
  /\ phase' = "exception" <=> phase = "exception"
  /\ LoopTypes'

LEMMA StepKinds ==
  ASSUME InputInv, LoopTypes, [Next]_vars
  PROVE  Quiet \/ SkipFrame \/ ThrowException \/ UseFrame
<1> DEFINE Place == <<dump, dumpfileindex, position>>
<1>1. /\ dumpfileindex \in 1 .. Len(dump) /\ position \in 1 .. Len(File) + 1
      /\ keepRunning \in BOOLEAN
      /\ phase \in {"loop", "final", "done", "aborted", "exception"}
      /\ number \in Int /\ accepted \in Seq(Accepted)
      /\ atoms \in [size : {0} \cup {f.size : f \in UNION {Range(g) : g \in Range(dump)}},
                    xu : Int, vx : Int]
  BY DEF LoopTypes
<1>2. NoAtoms \in [size : {0} \cup {f.size : f \in UNION {Range(g) : g \in Range(dump)}},
                   xu : Int, vx : Int]
  BY DEF NoAtoms
<1>3. UNCHANGED Place => FramesRead' = FramesRead /\ File' = File
  BY DEF FramesRead, File
<1>4. ASSUME UNCHANGED <<Place, input, number, accepted, runVars>>,
             atoms' = atoms \/ (atoms' = NoAtoms /\ phase' # "loop"),
             keepRunning' \in BOOLEAN,
             phase' \in {"loop", "final", "done", "aborted", "exception"},
             phase' = "loop" => phase = "loop", phase' = "exception" <=> phase = "exception"
      PROVE  Quiet
  <2>1. LoopTypes'
    <3>1. dump' = dump /\ File' = File
      BY <1>3, <1>4
    <3>2. atoms' \in [size : {0} \cup {f.size : f \in UNION {Range(g) : g \in Range(dump')}},
                      xu : Int, vx : Int]
      BY <1>1, <1>2, <1>4, <3>1, Zenon
    <3> QED BY <1>1, <1>4, <3>1, <3>2 DEF LoopTypes
  <2> QED BY <1>3, <1>4, <2>1 DEF Quiet
<1>5. CASE Interrupt
  BY <1>4, <1>5 DEF Interrupt, input, loopVars
<1>6. CASE Leave
  BY <1>1, <1>4, <1>6 DEF Leave, AtHead, input, loopVars
<1>7. CASE FinalActions
  BY <1>1, <1>4, <1>7 DEF FinalActions, input, loopVars
<1>8. CASE ReachMaxTimestep
  <2>1. /\ UNCHANGED <<Place, input, number, accepted, runVars, keepRunning>>
        /\ atoms' = NoAtoms /\ phase = "loop" /\ phase' = "final"
    BY <1>8 DEF ReachMaxTimestep, RestOfPass, input
  <2> QED BY <1>1, <1>4, <2>1
<1>9. CASE EndOfDumpFiles
  <2>1. /\ UNCHANGED <<Place, input, number, accepted, runVars, keepRunning>>
        /\ atoms' = NoAtoms /\ phase = "loop" /\ phase' = "final"
    BY <1>9 DEF EndOfDumpFiles, Pass, RestOfPass, input
  <2> QED BY <1>1, <1>4, <2>1
<1>10. CASE UNCHANGED vars
  BY <1>1, <1>4, <1>10 DEF vars, input, loopVars
<1>11. ASSUME OpenNextFile \/ FailToOpen
       PROVE  Quiet
  <2>1. /\ position > Len(File) /\ dumpfileindex < Len(dump) /\ phase = "loop"
        /\ UNCHANGED <<input, dump, number, accepted, runVars, keepRunning>>
        /\ dumpfileindex' = dumpfileindex + 1 /\ position' = 1
        /\ atoms' = atoms \/ (atoms' = NoAtoms /\ phase' # "loop")
        /\ phase' \in {"loop", "aborted"}
    BY <1>11 DEF OpenNextFile, FailToOpen, Pass, RestOfPass, input
  <2>2. FramesRead' = FramesRead
    BY <2>1, NextFileRead
  <2>3. dumpfileindex' \in 1 .. Len(dump')
    BY <1>1, <2>1, CurrentFile
  <2>4. position' \in 1 .. Len(File') + 1
    <3>1. File' = dump[dumpfileindex + 1] /\ dump \in Seq(Seq(DumpFrame))
      BY <2>1 DEF File, InputInv
    <3>2. File' \in Seq(DumpFrame)
      BY <2>1, <2>3, <3>1, ElementOfSeq
    <3>3. Len(File') \in Nat
      BY <3>2, LenProperties
    <3> QED BY <2>1, <3>3
  <2>5. atoms' \in [size : {0} \cup {f.size : f \in UNION {Range(g) : g \in Range(dump')}},
                    xu : Int, vx : Int]
    BY <1>1, <1>2, <2>1, Zenon
  <2>6. LoopTypes'
    <3>1. /\ keepRunning' \in BOOLEAN /\ number' \in Int /\ accepted' \in Seq(Accepted)
          /\ phase' \in {"loop", "final", "done", "aborted", "exception"}
      BY <1>1, <2>1
    <3> QED BY <2>3, <2>4, <2>5, <3>1 DEF LoopTypes
  <2> QED BY <2>1, <2>2, <2>6 DEF Quiet
<1>12. CASE BeginPass
  BY <1>1, <1>4, <1>12 DEF BeginPass, input, loopVars
<1> QED BY <1>5, <1>6, <1>7, <1>8, <1>9, <1>10, <1>11, <1>12 DEF Next, Program

-----------------------------------------------------------------------------
LEMMA FrameSize ==
  ASSUME InputInv, LoopTypes, position <= Len(File)
  PROVE  /\ File[position].size \in {f.size : f \in UNION {Range(g) : g \in Range(dump)}}
         /\ File[position].number \in Nat /\ File[position].size \in Nat
         /\ File[position].number \in DOMAIN path
         /\ path[File[position].number] \in Int
         /\ ReadFrame(File[position]).xu \in Int
<1>1. /\ dumpfileindex \in DOMAIN dump /\ File = dump[dumpfileindex]
      /\ position \in DOMAIN File /\ File[position] \in DumpFrame
  <2>1. position \in 1 .. Len(File) /\ DOMAIN File = 1 .. Len(File) /\ DOMAIN dump = 1 .. Len(dump)
    BY CurrentFile, LenProperties DEF InputInv
  <2> QED BY <2>1, CurrentFile, ElementOfSeq DEF File
<1>2. File \in Range(dump) /\ File[position] \in Range(File)
  BY <1>1, Zenon DEF Range
<1>3. File[position].number \in DOMAIN path /\ path[File[position].number] \in Int
  BY <1>1 DEF InputInv
<1>4. CellLength \in Nat \ {0}
  BY LoopAssumption DEF InputInv, CellLength
<1>5. path[File[position].number] % CellLength \in Int
  BY <1>3, <1>4
<1> QED BY <1>1, <1>2, <1>3, <1>5 DEF DumpFrame, ReadFrame

LEMMA VicinityType ==
  ASSUME NEW p \in Int, NEW c \in Int, CellLength \in Nat \ {0}
  PROVE  TranslateToVicinity(p, c) \in Int
<1> DEFINE L == CellLength
<1>1. /\ 2 * (p - c) - L + 2 * L - 1 \in Int /\ 2 * (c - p) - L + 2 * L - 1 \in Int
      /\ 2 * L \in Nat \ {0}
  OBVIOUS
<1>2. Ceiling(2 * (p - c) - L, 2 * L) \in Int /\ Ceiling(2 * (c - p) - L, 2 * L) \in Int
  BY <1>1 DEF Ceiling
<1> HIDE DEF L
<1>3. /\ p - L * Ceiling(2 * (p - c) - L, 2 * L) \in Int
      /\ p + L * Ceiling(2 * (c - p) - L, 2 * L) \in Int
  BY <1>2 DEF L
<1> QED BY <1>3 DEF TranslateToVicinity, L

(* What a frame becomes: its size stays, its numbers are numbers.          *)
LEMMA PreparedTypes ==
  ASSUME NEW old, NEW new, old.xu \in Int, CellLength \in Nat \ {0},
         NEW Sizes, new \in [size : Sizes, xu : Int, vx : Int]
  PROVE  Prepared(old, new) \in [size : Sizes, xu : Int, vx : Int] /\ Prepared(old, new).size = new.size
<1>1. TranslateToVicinity(new.xu, old.xu) \in Int
  BY VicinityType
<1> DEFINE u == Unwrapped(old, new)
<1>2. u \in [size : Sizes, xu : Int, vx : Int] /\ u.size = new.size
  BY <1>1 DEF Unwrapped
<1> HIDE DEF u
<1>3. WithVelocity(old, u) \in [size : Sizes, xu : Int, vx : Int] /\ WithVelocity(old, u).size = u.size
  BY <1>2 DEF WithVelocity
<1> QED BY <1>2, <1>3 DEF Prepared, u

-----------------------------------------------------------------------------
TypeInv == InputInv /\ LoopTypes /\ RunTypes

LEMMA TypesInit == Init => TypeInv
<1> SUFFICES ASSUME Init PROVE TypeInv
  OBVIOUS
<1>1. PICK r \in Runs : settings = r.settings /\ path \in r.paths /\ dump \in r.dumps
  BY DEF Init
<1>2. InputInv
  <2>1. settings \in Settings
    BY <1>1, RunsAssumption
  <2>2. dump # <<>> /\ dump \in Seq(Seq(DumpFrame))
    BY <1>1, RunsAssumption DEF DumpFrame
  <2>3. \A i \in DOMAIN dump : \A j \in DOMAIN dump[i] :
          dump[i][j].number \in DOMAIN path /\ path[dump[i][j].number] \in Int
    BY <1>1, RunsAssumption
  <2> QED BY <2>1, <2>2, <2>3 DEF InputInv
<1>3. Len(dump) \in Nat \ {0}
  BY <1>2, EmptySeq DEF InputInv
<1>4. File \in Seq(DumpFrame) /\ Len(File) \in Nat
  BY <1>2, <1>3, ElementOfSeq, LenProperties DEF InputInv, Init, File
<1>5. dumpfileindex \in 1 .. Len(dump) /\ position \in 1 .. Len(File) + 1
  BY <1>3, <1>4 DEF Init
<1>6. atoms \in [size : {0} \cup {f.size : f \in UNION {Range(g) : g \in Range(dump)}},
                 xu : Int, vx : Int]
  <2>1. atoms = NoAtoms
    BY DEF Init
  <2> QED BY <2>1 DEF NoAtoms
<1>7. LoopTypes
  <2>1. number = -1000 /\ accepted = <<>> /\ keepRunning = TRUE /\ phase = "loop"
    BY DEF Init
  <2>2. accepted \in Seq(Accepted)
    BY <2>1
  <2>3. number \in Int /\ keepRunning \in BOOLEAN
    BY <2>1
  <2> QED BY <1>5, <1>6, <2>1, <2>2, <2>3 DEF LoopTypes
<1>8. RunTypes
  <2>1. totaltimesteps = 0 /\ mCount = 0 /\ handled = <<>> /\ totalSize = 0 /\ accepted = <<>>
    BY DEF Init, ActionInit
  <2>2. handled \in Seq(Nat) /\ Len(handled) = 0 /\ loopcount = 0
    BY <2>1 DEF loopcount
  <2> QED BY <2>1, <2>2 DEF RunTypes
<1> QED BY <1>2, <1>7, <1>8 DEF TypeInv

(* The settings, with the types the program gives them.                    *)
LEMMA SettingTypes ==
  ASSUME InputInv
  PROVE  /\ CellLength \in Nat \ {0} /\ SuperEvery \in Nat \ {0}
         /\ MaxTimestep \in Nat /\ MinTimestep \in Nat /\ Timesteps \subseteq Nat
         /\ GroupSizes \subseteq Nat
         /\ Every \in Nat \ {0} /\ MinCount \in Nat /\ MinTimestepNumber \in Int
         /\ IfGroup \in BOOLEAN /\ FrameNumbersMustIncrease \in BOOLEAN
         /\ DoIntelligentUnwrap \in BOOLEAN /\ DoCalculateVelocities \in BOOLEAN
BY LoopAssumption, ActionAssumption
   DEF InputInv, CellLength, SuperEvery, MaxTimestep, MinTimestep, Timesteps, GroupSizes,
       Every, MinCount, MinTimestepNumber, IfGroup, FrameNumbersMustIncrease,
       DoIntelligentUnwrap, DoCalculateVelocities

(* What the step that counts a frame does.                                 *)
LEMMA UseFrameFacts ==
  ASSUME TypeInv, UseFrame
  PROVE  LET frame == File[position]
             atom  == Prepared(atoms, ReadFrame(frame))
             entry == [number |-> frame.number, xu |-> atom.xu, vx |-> atom.vx]
         IN /\ phase = "loop" /\ phase' = phase
            /\ UNCHANGED input /\ frame \in DumpFrame
            /\ FrameNumbersMustIncrease => frame.number > number
            /\ FramesRead' = Append(FramesRead, frame)
            /\ FramesRead \in Seq(DumpFrame)
            /\ ~Throws(atoms, ReadFrame(frame))
            /\ atoms' = atom /\ atom.size = frame.size
            /\ number' = frame.number
            /\ entry \in Accepted
            /\ accepted' = Append(accepted, entry)
            /\ loopcount \in Nat /\ loopcount' = loopcount + 1
            /\ accepted'[loopcount + 1] = entry
            /\ \A i \in 1 .. loopcount : accepted'[i] = accepted[i]
            /\ path[frame.number] \in Int
            /\ LoopTypes'
<1> DEFINE frame == File[position]
           new   == ReadFrame(frame)
           atom  == Prepared(atoms, new)
           entry == [number |-> frame.number, xu |-> atom.xu, vx |-> atom.vx]
           Sizes == {0} \cup {f.size : f \in UNION {Range(g) : g \in Range(dump)}}
<1>1. /\ phase = "loop" /\ phase' = phase
      /\ UNCHANGED <<input, dump, dumpfileindex>>
      /\ position <= Len(File) /\ position' = position + 1
      /\ FrameNumbersMustIncrease => frame.number > number
      /\ ~Throws(atoms, new)
      /\ atoms' = atom /\ number' = frame.number
      /\ accepted' = Append(accepted, entry)
  BY DEF UseFrame, Accepts, Pass, RestOfPass, input
<1>2. InputInv /\ LoopTypes /\ keepRunning' \in BOOLEAN
  <2>1. InputInv /\ LoopTypes /\ keepRunning \in BOOLEAN
    BY DEF TypeInv, LoopTypes
  <2>2. keepRunning' \in BOOLEAN
    <3>1. CASE Wanted(loopcount + 1)
      <4>1. \E size \in GroupSizes : Process(size, frame)
        BY <3>1 DEF UseFrame
      <4> QED BY <2>1, <4>1 DEF Process
    <3>2. CASE ~Wanted(loopcount + 1)
      <4>1. keepRunning' = keepRunning
        BY <3>2 DEF UseFrame
      <4> QED BY <2>1, <4>1
    <3> QED BY <3>1, <3>2
  <2> QED BY <2>1, <2>2
<1>3. FramesRead' = Append(FramesRead, frame) /\ frame \in DumpFrame /\ FramesRead \in Seq(DumpFrame)
  BY <1>1, <1>2, NextFrameRead, CurrentFile
<1>4. new \in [size : Sizes, xu : Int, vx : Int] /\ new.size = frame.size
  BY <1>1, <1>2, FrameSize DEF ReadFrame
<1>5. atom \in [size : Sizes, xu : Int, vx : Int] /\ atom.size = frame.size
  <2>1. atoms.xu \in Int
    BY <1>2 DEF LoopTypes
  <2> HIDE DEF new, Sizes
  <2> QED BY <1>2, <1>4, <2>1, PreparedTypes, SettingTypes
<1>6. entry \in Accepted
  <2> HIDE DEF atom
  <2> QED BY <1>3, <1>5 DEF Accepted, DumpFrame
<1> HIDE DEF entry, atom
<1>7. /\ accepted' \in Seq(Accepted) /\ loopcount \in Nat /\ loopcount' = loopcount + 1
      /\ accepted'[loopcount + 1] = entry
      /\ \A i \in 1 .. loopcount : accepted'[i] = accepted[i]
  <2>1. accepted \in Seq(Accepted)
    BY <1>2 DEF LoopTypes
  <2> QED BY <1>1, <1>6, <2>1, AppendProperties, LenProperties DEF loopcount
<1>8. LoopTypes'
  <2>1. dump' = dump /\ File' = File /\ dumpfileindex' \in 1 .. Len(dump')
    BY <1>1, <1>2 DEF LoopTypes, File
  <2>2. position' \in 1 .. Len(File') + 1
    BY <1>1, <1>2, <2>1, CurrentFile
  <2>3. atoms' \in [size : {0} \cup {f.size : f \in UNION {Range(g) : g \in Range(dump')}},
                    xu : Int, vx : Int]
    BY <1>1, <1>5, <2>1, Zenon
  <2>4. number' \in Int
    BY <1>1, <1>3 DEF DumpFrame
  <2> QED BY <1>1, <1>2, <1>7, <2>1, <2>2, <2>3, <2>4 DEF LoopTypes
<1>9. path[frame.number] \in Int
  BY <1>1, <1>2, FrameSize
<1> QED BY <1>1, <1>3, <1>5, <1>6, <1>7, <1>8, <1>9 DEF entry, atom

(* What the two steps do that read a frame but do not count it.            *)
LEMMA OtherFrameFacts ==
  ASSUME TypeInv, SkipFrame \/ ThrowException
  PROVE  LET frame == File[position]
         IN /\ phase = "loop" /\ UNCHANGED <<input, accepted, runVars>>
            /\ SkipFrame => /\ phase' = "loop" /\ number' = number
                            /\ FrameNumbersMustIncrease /\ frame.number <= number
            /\ ThrowException => phase' = "exception" /\ Throws(atoms, ReadFrame(frame))
            /\ frame \in DumpFrame
            /\ FramesRead' = Append(FramesRead, frame) /\ FramesRead \in Seq(DumpFrame)
            /\ atoms' = ReadFrame(frame)
            /\ LoopTypes'
<1> DEFINE frame == File[position]
           Sizes == {0} \cup {f.size : f \in UNION {Range(g) : g \in Range(dump)}}
<1>1. /\ phase = "loop" /\ UNCHANGED <<input, dump, dumpfileindex, accepted, runVars, keepRunning>>
      /\ position <= Len(File) /\ position' = position + 1
      /\ SkipFrame => /\ phase' = "loop" /\ number' = number
                      /\ FrameNumbersMustIncrease /\ frame.number <= number
      /\ ThrowException => /\ phase' = "exception" /\ number' = frame.number
                           /\ Throws(atoms, ReadFrame(frame))
      /\ atoms' = ReadFrame(frame)
  BY DEF SkipFrame, ThrowException, Accepts, Pass, RestOfPass, input
<1>2. InputInv /\ LoopTypes
  BY DEF TypeInv
<1>3. FramesRead' = Append(FramesRead, frame) /\ frame \in DumpFrame /\ FramesRead \in Seq(DumpFrame)
  BY <1>1, <1>2, NextFrameRead, CurrentFile
<1>4. ReadFrame(frame) \in [size : Sizes, xu : Int, vx : Int]
  BY <1>1, <1>2, FrameSize DEF ReadFrame
<1>5. LoopTypes'
  <2>1. dump' = dump /\ File' = File /\ dumpfileindex' \in 1 .. Len(dump')
    BY <1>1, <1>2 DEF LoopTypes, File
  <2>2. position' \in 1 .. Len(File') + 1
    BY <1>1, <1>2, <2>1, CurrentFile, SMTT(30)
  <2>3. atoms' \in [size : {0} \cup {f.size : f \in UNION {Range(g) : g \in Range(dump')}},
                    xu : Int, vx : Int]
    BY <1>1, <1>4, <2>1, Zenon
  <2>4. number' \in Int
    <3>1. number \in Int /\ frame.number \in Int
      BY <1>2, <1>3 DEF LoopTypes, DumpFrame
    <3> QED BY <1>1, <3>1
  <2>5. keepRunning' \in BOOLEAN /\ accepted' \in Seq(Accepted)
    BY <1>1, <1>2 DEF LoopTypes
  <2>6. phase' \in {"loop", "final", "done", "aborted", "exception"}
    BY <1>1
  <2> QED BY <2>1, <2>2, <2>3, <2>4, <2>5, <2>6 DEF LoopTypes
<1> QED BY <1>1, <1>3, <1>5

(* What the actions do with a frame that is counted.                       *)
LEMMA ProcessFacts ==
  ASSUME TypeInv, UseFrame, NEW size \in GroupSizes, Process(size, File[position])
  PROVE  /\ totaltimesteps' = totaltimesteps + 1 /\ totalSize' \in Nat
         /\ UNCHANGED actionVars \/
              /\ Counts(totaltimesteps) /\ mCount' = mCount + 1
              /\ \/ /\ mCount' >= MinCount /\ File[position].number >= MinTimestepNumber
                    /\ handled' = Append(handled, loopcount + 1)
                    /\ handled' \in Seq(Nat) /\ Len(handled') = Len(handled) + 1
                    /\ handled'[Len(handled) + 1] = loopcount + 1
                    /\ \A i \in 1 .. Len(handled) : handled'[i] = handled[i]
                 \/ /\ ~(mCount' >= MinCount /\ File[position].number >= MinTimestepNumber)
                    /\ handled' = handled
         /\ ~IfGroup => (Counts(totaltimesteps) <=> mCount' = mCount + 1)
<1>1. /\ ActionStep(totaltimesteps, File[position].number, loopcount + 1)
      /\ totaltimesteps' = totaltimesteps + 1 /\ totalSize' = totalSize + size
  BY DEF Process
<1>2. totalSize' \in Nat /\ mCount \in Nat /\ handled \in Seq(Nat) /\ loopcount + 1 \in Nat
  <2>1. totalSize \in Nat /\ mCount \in Nat /\ handled \in Seq(Nat) /\ InputInv
    BY DEF TypeInv, RunTypes
  <2>2. size \in Nat
    BY <2>1, SettingTypes
  <2>3. loopcount \in Nat
    BY UseFrameFacts
  <2> QED BY <1>1, <2>1, <2>2, <2>3
<1>3. CASE PassOver(totaltimesteps)
  BY <1>1, <1>2, <1>3 DEF PassOver, actionVars
<1>4. CASE Handle(totaltimesteps, File[position].number, loopcount + 1)
  <2>1. /\ Counts(totaltimesteps) /\ mCount' = mCount + 1
        /\ handled' = IF mCount' >= MinCount /\ File[position].number >= MinTimestepNumber
                      THEN Append(handled, loopcount + 1) ELSE handled
    BY <1>4 DEF Handle
  <2>2. CASE mCount' >= MinCount /\ File[position].number >= MinTimestepNumber
    <3>1. handled' = Append(handled, loopcount + 1)
      BY <2>1, <2>2
    <3>2. /\ handled' \in Seq(Nat) /\ Len(handled') = Len(handled) + 1
          /\ handled'[Len(handled) + 1] = loopcount + 1
          /\ \A i \in 1 .. Len(handled) : handled'[i] = handled[i]
      BY <1>2, <3>1, AppendProperties
    <3> QED BY <1>1, <1>2, <2>1, <2>2, <3>1, <3>2
  <2>3. CASE ~(mCount' >= MinCount /\ File[position].number >= MinTimestepNumber)
    BY <1>1, <1>2, <2>1, <2>3
  <2> QED BY <2>2, <2>3
<1> QED BY <1>1, <1>3, <1>4 DEF ActionStep

LEMMA TypesNext == TypeInv /\ [Next]_vars => TypeInv'
<1> SUFFICES ASSUME TypeInv, [Next]_vars PROVE TypeInv'
  OBVIOUS
<1>1. InputInv /\ LoopTypes /\ RunTypes
  BY DEF TypeInv
<1>2. ASSUME UNCHANGED input PROVE InputInv'
  BY <1>1, <1>2 DEF InputInv, input
<1>3. ASSUME UNCHANGED <<input, accepted, runVars>>, LoopTypes' PROVE TypeInv'
  BY <1>1, <1>2, <1>3 DEF TypeInv, RunTypes, runVars, actionVars, loopcount
<1>4. CASE Quiet
  BY <1>3, <1>4 DEF Quiet
<1>5. CASE SkipFrame \/ ThrowException
  <2>1. UNCHANGED <<input, accepted, runVars>> /\ LoopTypes'
    BY <1>5, OtherFrameFacts
  <2> QED BY <1>3, <2>1
<1>6. CASE UseFrame
  <2>1. UNCHANGED input /\ LoopTypes' /\ loopcount \in Nat /\ loopcount' = loopcount + 1
    BY <1>6, UseFrameFacts
  <2>2. /\ totaltimesteps \in Nat /\ mCount \in Nat /\ handled \in Seq(Nat) /\ Len(handled) \in Nat
        /\ totaltimesteps <= loopcount /\ mCount <= totaltimesteps /\ Len(handled) <= mCount
    BY <1>1, LenProperties DEF RunTypes
  <2>3. CASE Wanted(loopcount + 1)
    <3>1. PICK size \in GroupSizes : Process(size, File[position])
      BY <1>6, <2>3 DEF UseFrame
    <3>2. totaltimesteps' = totaltimesteps + 1 /\ totalSize' \in Nat
      BY <1>6, <3>1, ProcessFacts
    <3>3. \/ mCount' = mCount /\ handled' = handled
          \/ mCount' = mCount + 1 /\ handled' = handled
          \/ mCount' = mCount + 1 /\ handled' \in Seq(Nat) /\ Len(handled') = Len(handled) + 1
      BY <1>6, <3>1, ProcessFacts DEF actionVars
    <3>4. RunTypes'
      BY <2>1, <2>2, <3>2, <3>3 DEF RunTypes
    <3> QED BY <1>2, <2>1, <3>4 DEF TypeInv
  <2>4. CASE ~Wanted(loopcount + 1)
    <3>1. UNCHANGED runVars
      BY <1>6, <2>4 DEF UseFrame
    <3>2. RunTypes'
      BY <1>1, <2>1, <2>2, <3>1 DEF RunTypes, runVars, actionVars
    <3> QED BY <1>2, <2>1, <3>2 DEF TypeInv
  <2> QED BY <2>3, <2>4
<1> QED BY <1>1, <1>4, <1>5, <1>6, StepKinds

-----------------------------------------------------------------------------
(* The frames are counted in the order in which they are read.             *)
LEMMA NoFrameRead == Init => FramesRead = <<>> /\ accepted = <<>> /\ phase = "loop" /\ number = -1000
<1> SUFFICES ASSUME Init
             PROVE  FramesRead = <<>> /\ accepted = <<>> /\ phase = "loop" /\ number = -1000
  OBVIOUS
<1>1. accepted = <<>> /\ phase = "loop" /\ number = -1000 /\ dumpfileindex = 1 /\ position = 1
  BY DEF Init
<1>2. SubSeq(dump, 1, 0) = <<>> /\ SubSeq(File, 1, 0) = <<>>
  BY SubSeqEmpty
<1>3. FlattenSeq(<<>>) = <<>>
  BY DEF FlattenSeq
<1>4. 1 - 1 = 0 /\ <<>> \o <<>> = <<>>
  OBVIOUS
<1>5. FramesRead = <<>>
  BY <1>1, <1>2, <1>3, <1>4 DEF FramesRead
<1> QED BY <1>1, <1>5

(* The frames that are counted are finite in number; a frame more may be   *)
(* one more of them.                                                       *)
LEMMA CountedFinite ==
  ASSUME NEW frames \in Seq(DumpFrame), NEW increase
  PROVE  /\ Len(frames) \in Nat /\ CountedOf(frames, increase) \subseteq 1 .. Len(frames)
         /\ IsFiniteSet(CountedOf(frames, increase))
         /\ Cardinality(CountedOf(frames, increase)) \in Nat
<1>1. Len(frames) \in Nat /\ CountedOf(frames, increase) \subseteq 1 .. Len(frames)
  BY LenProperties DEF CountedOf
<1>2. IsFiniteSet(1 .. Len(frames))
  BY <1>1, FS_Interval
<1>3. IsFiniteSet(CountedOf(frames, increase))
  BY <1>1, <1>2, FS_Subset
<1> QED BY <1>1, <1>3, FS_CardinalityType

LEMMA CountedAppend ==
  ASSUME NEW frames \in Seq(DumpFrame), NEW frame \in DumpFrame, NEW increase \in BOOLEAN
  PROVE  LET counted == increase => \A j \in 1 .. Len(frames) : frames[j].number < frame.number
             C       == CountedOf(frames, increase)
         IN /\ counted => CountedOf(Append(frames, frame), increase) = C \cup {Len(frames) + 1}
            /\ ~counted => CountedOf(Append(frames, frame), increase) = C
<1> DEFINE N == Len(frames)
           more == Append(frames, frame)
           counted == increase => \A j \in 1 .. N : frames[j].number < frame.number
           C == CountedOf(frames, increase)
           Rises(s, i) == increase => \A j \in 1 .. i - 1 : s[j].number < s[i].number
<1>1. N \in Nat /\ Len(more) = N + 1 /\ more[N + 1] = frame /\ \A i \in 1 .. N : more[i] = frames[i]
  BY LenProperties, AppendProperties
<1>2. CountedOf(more, increase) = {i \in 1 .. N + 1 : Rises(more, i)} /\ C = {i \in 1 .. N : Rises(frames, i)}
  BY <1>1 DEF CountedOf
<1> HIDE DEF more
<1>3. \A i \in 1 .. N : Rises(more, i) <=> Rises(frames, i)
  <2> SUFFICES ASSUME NEW i \in 1 .. N PROVE Rises(more, i) <=> Rises(frames, i)
    OBVIOUS
  <2>1. \A j \in 1 .. i - 1 : j \in 1 .. N /\ more[j] = frames[j]
    BY <1>1
  <2>2. more[i] = frames[i]
    BY <1>1
  <2> QED BY <2>1, <2>2
<1>4. Rises(more, N + 1) <=> counted
  <2>1. N + 1 - 1 = N
    BY <1>1
  <2> QED BY <1>1, <2>1
<1>5. 1 .. N + 1 = 1 .. N \cup {N + 1}
  BY <1>1
<1> HIDE DEF Rises, C
<1>6. CountedOf(more, increase) = {i \in 1 .. N : Rises(frames, i)} \cup {i \in {N + 1} : counted}
  <2> HIDE DEF counted
  <2> QED BY <1>2, <1>3, <1>4, <1>5, Zenon
<1> HIDE DEF counted
<1>7. (counted => CountedOf(more, increase) = C \cup {N + 1}) /\ (~counted => CountedOf(more, increase) = C)
  BY <1>2, <1>6
<1> QED BY <1>7 DEF counted, more, C

(* What is counted is put at the end of what was counted before.           *)
LEMMA OrderAppend ==
  ASSUME NEW frames \in Seq(DumpFrame), NEW frame \in DumpFrame, NEW increase \in BOOLEAN,
         NEW acc \in Seq(Accepted), NEW entry \in Accepted, entry.number = frame.number,
         OrderOf(acc, frames, increase),
         increase => \A j \in 1 .. Len(frames) : frames[j].number < frame.number
  PROVE  OrderOf(Append(acc, entry), Append(frames, frame), increase)
<1> DEFINE N == Len(frames)
           C == CountedOf(frames, increase)
           D == CountedOf(Append(frames, frame), increase)
           more == Append(frames, frame)
           longer == Append(acc, entry)
<1>1. /\ N \in Nat /\ C \subseteq 1 .. N /\ IsFiniteSet(C) /\ Cardinality(C) \in Nat
      /\ D = C \cup {N + 1} /\ Len(acc) = Cardinality(C) /\ N + 1 \notin C
      /\ \A i \in C : acc[Cardinality({j \in C : j <= i})].number = frames[i].number
  <2>1. N \in Nat /\ C \subseteq 1 .. N /\ IsFiniteSet(C) /\ Cardinality(C) \in Nat
    BY CountedFinite
  <2>2. D = C \cup {N + 1}
    BY CountedAppend
  <2>3. Len(acc) = Cardinality(C) /\ \A i \in C : acc[Cardinality({j \in C : j <= i})].number = frames[i].number
    BY DEF OrderOf
  <2> HIDE DEF C
  <2>4. N + 1 \notin C
    BY <2>1
  <2> QED BY <2>1, <2>2, <2>3, <2>4
<1>2. more[N + 1] = frame /\ \A i \in 1 .. N : more[i] = frames[i]
  BY AppendProperties, LenProperties
<1>3. /\ Len(longer) = Len(acc) + 1 /\ longer[Len(acc) + 1] = entry
      /\ \A i \in 1 .. Len(acc) : longer[i] = acc[i]
  BY AppendProperties, LenProperties
<1> HIDE DEF C, D, N, more, longer
<1>frames. N \in Nat /\ C \subseteq 1 .. N /\ D = C \cup {N + 1}
  BY <1>1
<1>4. Cardinality(D) = Len(acc) + 1
  <2>1. Cardinality(C \cup {N + 1}) = Cardinality(C) + 1
    BY <1>1, FS_AddElement
  <2> QED BY <1>1, <2>1
<1>5. ASSUME NEW i \in D
      PROVE  longer[Cardinality({j \in D : j <= i})].number = more[i].number
  <2>1. CASE i \in C
    <3> DEFINE B == {j \in C : j <= i}
    <3>1. i \in 1 .. N /\ {j \in D : j <= i} = B
      <4>1. i \in 1 .. N
        BY <1>frames, <2>1
      <4>2. ~(N + 1 <= i)
        BY <1>frames, <4>1
      <4> QED BY <1>frames, <4>1, <4>2
    <3>2. B \subseteq C /\ i \in B /\ {i} \subseteq B
      <4>1. i <= i
        BY <3>1, <1>frames
      <4> QED BY <2>1, <4>1
    <3> HIDE DEF B
    <3>3. IsFiniteSet(B) /\ Cardinality(B) <= Cardinality(C)
      BY <1>1, <3>2, FS_Subset
    <3>4. Cardinality({i}) <= Cardinality(B) /\ Cardinality({i}) = 1
      BY <3>2, <3>3, FS_Subset, FS_Singleton
    <3>5. Cardinality(B) \in Nat
      BY <3>3, FS_CardinalityType
    <3>6. Cardinality(B) \in 1 .. Len(acc)
      BY <1>1, <3>3, <3>4, <3>5
    <3>7. longer[Cardinality(B)] = acc[Cardinality(B)] /\ acc[Cardinality(B)].number = frames[i].number
      <4>1. acc[Cardinality(B)].number = frames[i].number
        BY <1>1, <2>1 DEF B
      <4> QED BY <1>3, <3>6, <4>1
    <3> QED BY <1>2, <3>1, <3>7
  <2>2. CASE i = N + 1
    <3>1. {j \in D : j <= i} = D
      <4>1. \A j \in 1 .. N : j <= N + 1
        BY <1>frames
      <4>2. \A j \in D : j <= i
        BY <1>frames, <2>2, <4>1
      <4> QED BY <4>2
    <3> QED BY <1>2, <1>3, <1>4, <2>2, <3>1
  <2> QED BY <1>1, <2>1, <2>2
<1> QED BY <1>3, <1>4, <1>5 DEF OrderOf, D, more, longer

(* number tells whether the next frame has a higher number than all.       *)
LEMMA HighestAppend ==
  ASSUME NEW frames \in Seq(DumpFrame), NEW frame \in DumpFrame, NEW num \in Int,
         HighestOf(num, frames)
  PROVE  /\ frame.number > num =>
              /\ \A j \in 1 .. Len(frames) : frames[j].number < frame.number
              /\ HighestOf(frame.number, Append(frames, frame))
         /\ frame.number <= num =>
              /\ ~ \A j \in 1 .. Len(frames) : frames[j].number < frame.number
              /\ HighestOf(num, Append(frames, frame))
<1> DEFINE N == Len(frames)
           more == Append(frames, frame)
<1>1. /\ N \in Nat /\ Len(more) = N + 1 /\ more[N + 1] = frame /\ more # <<>>
      /\ \A i \in 1 .. N : more[i] = frames[i]
  BY LenProperties, AppendProperties
<1>2. frame.number \in Nat /\ \A i \in 1 .. N : frames[i].number \in Nat
  <2>1. \A i \in 1 .. N : frames[i] \in DumpFrame
    BY ElementOfSeq
  <2> QED BY <2>1 DEF DumpFrame
<1>3. /\ frames = <<>> => num < 0
      /\ frames # <<>> => \E j \in 1 .. N : frames[j].number = num
      /\ \A j \in 1 .. N : frames[j].number <= num
  BY DEF HighestOf
<1>4. \A j \in 1 .. N + 1 : j \in 1 .. N \/ j = N + 1
  BY <1>1
<1>5. \A j \in 1 .. N : j \in 1 .. N + 1
  BY <1>1
<1> HIDE DEF N, more
<1>6. CASE frame.number > num
  <2>1. \A j \in 1 .. N : frames[j].number < frame.number
    BY <1>2, <1>3, <1>6
  <2>2. N + 1 \in 1 .. N + 1
    BY <1>1
  <2>3. \A j \in 1 .. N + 1 : more[j].number <= frame.number
    BY <1>1, <1>2, <1>4, <2>1
  <2>4. HighestOf(frame.number, more)
    BY <1>1, <2>2, <2>3 DEF HighestOf
  <2> QED BY <1>2, <1>6, <2>1, <2>4 DEF N, more
<1>7. CASE frame.number <= num
  <2>1. PICK j \in 1 .. N : frames[j].number = num
    BY <1>2, <1>3, <1>7
  <2>2. ~(frames[j].number < frame.number)
    BY <1>2, <1>7, <2>1
  <2>3. \A k \in 1 .. N + 1 : more[k].number <= num
    BY <1>1, <1>3, <1>4, <1>7
  <2>4. j \in 1 .. N + 1 /\ more[j].number = num
    BY <1>1, <1>5, <2>1
  <2>5. HighestOf(num, more)
    BY <1>1, <2>3, <2>4 DEF HighestOf
  <2> QED BY <1>2, <1>7, <2>2, <2>5 DEF N, more
<1> QED BY <1>2, <1>6, <1>7

LEMMA OrderInit == Init => OrderInv
<1> SUFFICES ASSUME Init PROVE OrderInv
  OBVIOUS
<1>1. CountedOf(<<>>, FrameNumbersMustIncrease) = {}
  BY DEF CountedOf
<1>2. Cardinality({}) = 0
  BY FS_EmptySet
<1>3. OrderOf(<<>>, <<>>, FrameNumbersMustIncrease)
  BY <1>1, <1>2 DEF OrderOf
<1>4. HighestOf(-1000, <<>>)
  BY DEF HighestOf
<1> QED BY <1>3, <1>4, NoFrameRead DEF OrderInv

LEMMA OrderNext == TypeInv /\ OrderInv /\ [Next]_vars => OrderInv'
<1> SUFFICES ASSUME TypeInv, OrderInv, [Next]_vars PROVE OrderInv'
  OBVIOUS
<1>1. /\ InputInv /\ LoopTypes /\ number \in Int /\ accepted \in Seq(Accepted)
      /\ FrameNumbersMustIncrease \in BOOLEAN
  BY SettingTypes DEF TypeInv, LoopTypes
<1>2. CASE Quiet
  BY <1>2 DEF Quiet, OrderInv, input, FrameNumbersMustIncrease
<1>3. CASE UseFrame
  <2> DEFINE frame == File[position]
             entry == accepted'[loopcount + 1]
  <2>1. /\ phase = "loop" /\ frame \in DumpFrame /\ FramesRead \in Seq(DumpFrame)
        /\ FramesRead' = Append(FramesRead, frame)
        /\ entry \in Accepted /\ entry.number = frame.number /\ accepted' = Append(accepted, entry)
        /\ FrameNumbersMustIncrease => frame.number > number
        /\ number' = frame.number /\ settings' = settings
    BY <1>3, UseFrameFacts DEF input
  <2> HIDE DEF entry, frame
  <2>2. FrameNumbersMustIncrease =>
          /\ \A j \in 1 .. Len(FramesRead) : FramesRead[j].number < frame.number
          /\ HighestOf(frame.number, FramesRead')
    BY <1>1, <2>1, HighestAppend DEF OrderInv
  <2>3. OrderOf(accepted', FramesRead', FrameNumbersMustIncrease)
    BY <1>1, <2>1, <2>2, OrderAppend DEF OrderInv
  <2> QED BY <2>1, <2>2, <2>3 DEF OrderInv, FrameNumbersMustIncrease
<1>4. CASE SkipFrame
  <2> DEFINE frame == File[position]
  <2>1. /\ phase = "loop" /\ phase' = "loop" /\ frame \in DumpFrame /\ FramesRead \in Seq(DumpFrame)
        /\ FramesRead' = Append(FramesRead, frame)
        /\ FrameNumbersMustIncrease /\ frame.number <= number
        /\ number' = number /\ accepted' = accepted /\ settings' = settings
    BY <1>4, OtherFrameFacts DEF input
  <2> HIDE DEF frame
  <2>2. /\ ~ \A j \in 1 .. Len(FramesRead) : FramesRead[j].number < frame.number
        /\ HighestOf(number, FramesRead')
    BY <1>1, <2>1, HighestAppend DEF OrderInv
  <2> DEFINE C == CountedOf(FramesRead, FrameNumbersMustIncrease)
  <2>3. CountedOf(FramesRead', FrameNumbersMustIncrease) = C
    BY <1>1, <2>1, <2>2, CountedAppend
  <2>4. \A i \in C : i \in 1 .. Len(FramesRead)
    BY DEF CountedOf
  <2>5. \A i \in C : FramesRead'[i] = FramesRead[i]
    <3>1. \A i \in 1 .. Len(FramesRead) : FramesRead'[i] = FramesRead[i]
      BY <2>1, AppendProperties
    <3> HIDE DEF C
    <3> QED BY <2>4, <3>1
  <2>6. OrderOf(accepted, FramesRead, FrameNumbersMustIncrease)
    BY <2>1 DEF OrderInv
  <2> HIDE DEF C
  <2>7. OrderOf(accepted', FramesRead', FrameNumbersMustIncrease)
    BY <2>1, <2>3, <2>5, <2>6 DEF OrderOf, C
  <2>8. FrameNumbersMustIncrease' = FrameNumbersMustIncrease
    BY <2>1 DEF FrameNumbersMustIncrease
  <2> QED BY <2>1, <2>2, <2>7, <2>8 DEF OrderInv
<1>5. CASE ThrowException
  <2>1. phase' = "exception"
    BY <1>5, OtherFrameFacts
  <2> QED BY <2>1 DEF OrderInv
<1> QED BY <1>1, <1>2, <1>3, <1>4, <1>5, StepKinds

-----------------------------------------------------------------------------
(* Only a change of the number of atoms makes the program give up.         *)
LEMMA SizesInit == Init => SizeInv
<1> SUFFICES ASSUME Init PROVE SizeInv
  OBVIOUS
<1>1. phase = "loop" /\ dumpfileindex = 1 /\ position = 1
  BY DEF Init
<1>2. FramesRead = <<>>
  <2>1. SubSeq(dump, 1, 0) = <<>> /\ SubSeq(File, 1, 0) = <<>>
    BY SubSeqEmpty
  <2>2. FlattenSeq(<<>>) = <<>>
    BY DEF FlattenSeq
  <2>3. 1 - 1 = 0 /\ <<>> \o <<>> = <<>>
    OBVIOUS
  <2> QED BY <1>1, <2>1, <2>2, <2>3 DEF FramesRead
<1> QED BY <1>1, <1>2 DEF SizeInv, ThrowsOnlyWhenSizeChanges

LEMMA TwoSizes ==
  ASSUME NEW frames \in Seq(DumpFrame), NEW i \in 1 .. Len(frames), NEW j \in 1 .. Len(frames),
         frames[i].size # frames[j].size
  PROVE  Cardinality({f.size : f \in Range(frames)}) > 1
<1> DEFINE R == Range(frames)
           T == {f.size : f \in R}
<1>1. IsFiniteSet(T)
  <2>1. IsFiniteSet(1 .. Len(frames))
    BY LenProperties, FS_Interval
  <2> DEFINE g == [k \in 1 .. Len(frames) |-> frames[k].size]
  <2>2. T = {frames[k].size : k \in 1 .. Len(frames)}
    BY LenProperties DEF Range
  <2>3. g \in [1 .. Len(frames) -> T] /\ \A t \in T : \E k \in 1 .. Len(frames) : g[k] = t
    <3> HIDE DEF T
    <3> QED BY <2>2
  <2>4. g \in Surjection(1 .. Len(frames), T)
    <3> HIDE DEF T, g
    <3> QED BY <2>3 DEF Surjection
  <2> HIDE DEF T, g
  <2> QED BY <2>1, <2>4, FS_Surjection
<1>2. {frames[i].size, frames[j].size} \subseteq T
  BY LenProperties DEF Range
<1>3. Cardinality({frames[i].size}) = 1 /\ IsFiniteSet({frames[i].size})
  BY FS_Singleton
<1>4. Cardinality({frames[i].size} \cup {frames[j].size}) = 2
  <2>1. frames[j].size \notin {frames[i].size}
    OBVIOUS
  <2>2. Cardinality({frames[i].size} \cup {frames[j].size}) = Cardinality({frames[i].size}) + 1
    BY <1>3, <2>1, FS_AddElement
  <2> QED BY <1>3, <2>2
<1>5. {frames[i].size, frames[j].size} = {frames[i].size} \cup {frames[j].size}
  OBVIOUS
<1> HIDE DEF T
<1>6. Cardinality({frames[i].size, frames[j].size}) <= Cardinality(T)
  BY <1>1, <1>2, FS_Subset
<1>7. Cardinality(T) \in Nat
  BY <1>1, FS_CardinalityType
<1> QED BY <1>4, <1>5, <1>6, <1>7 DEF T

LEMMA SizesNext ==
  ASSUME TypeInv, SizeInv, OrderInv, [Next]_vars
  PROVE  SizeInv'
<1>0. InputInv /\ LoopTypes
  BY DEF TypeInv
<1>1. CASE Quiet
  <2>1. FramesRead' = FramesRead /\ (phase' = "loop" => phase = "loop" /\ atoms' = atoms)
        /\ (phase' = "exception" => phase = "exception")
    BY <1>1 DEF Quiet
  <2> QED BY <2>1 DEF SizeInv, ThrowsOnlyWhenSizeChanges
<1>2. CASE SkipFrame \/ UseFrame
  <2>1. /\ phase' = "loop" /\ FramesRead \in Seq(DumpFrame) /\ File[position] \in DumpFrame
        /\ FramesRead' = Append(FramesRead, File[position])
        /\ atoms'.size = File[position].size
    BY <1>2, OtherFrameFacts, UseFrameFacts DEF ReadFrame
  <2>2. FramesRead'[Len(FramesRead')] = File[position]
    BY <2>1, AppendProperties
  <2> QED BY <2>1, <2>2 DEF SizeInv, ThrowsOnlyWhenSizeChanges
<1>3. CASE ThrowException
  <2>1. /\ phase = "loop" /\ phase' = "exception" /\ Throws(atoms, ReadFrame(File[position]))
        /\ FramesRead \in Seq(DumpFrame) /\ File[position] \in DumpFrame
        /\ FramesRead' = Append(FramesRead, File[position])
    BY <1>3, OtherFrameFacts
  <2>2. atoms.size # File[position].size /\ loopcount >= 1
    BY <2>1 DEF Throws, ReadFrame
  <2>3. FramesRead # <<>>
    <3>1. ASSUME FramesRead = <<>> PROVE FALSE
      <4>1. CountedOf(FramesRead, FrameNumbersMustIncrease) = {}
        BY <3>1 DEF CountedOf
      <4>2. loopcount = 0
        BY <2>1, <4>1, FS_EmptySet DEF OrderInv, OrderOf, loopcount
      <4> QED BY <2>2, <4>2
    <3> QED BY <3>1
  <2>4. /\ Len(FramesRead) \in 1 .. Len(FramesRead') /\ Len(FramesRead') \in 1 .. Len(FramesRead')
        /\ FramesRead' \in Seq(DumpFrame)
        /\ FramesRead'[Len(FramesRead)] = FramesRead[Len(FramesRead)]
        /\ FramesRead'[Len(FramesRead')] = File[position]
    BY <2>1, <2>3, AppendProperties, EmptySeq
  <2>5. FramesRead'[Len(FramesRead)].size # FramesRead'[Len(FramesRead')].size
    BY <2>1, <2>2, <2>3, <2>4 DEF SizeInv
  <2>6. Cardinality({f.size : f \in Range(FramesRead')}) > 1
    BY <2>4, <2>5, TwoSizes
  <2> QED BY <2>1, <2>6 DEF SizeInv, ThrowsOnlyWhenSizeChanges
<1> QED BY <1>0, <1>1, <1>2, <1>3, StepKinds
-----------------------------------------------------------------------------
(* Whole cells.                                                            *)
LEMMA QuotientIs ==
  ASSUME NEW m \in Nat \ {0}, NEW q \in Int, NEW r \in Int, 0 <= r, r < m, NEW n \in Int, n = m * q + r
  PROVE  n \div m = q
<1> DEFINE d == n \div m
           e == n % m
<1>1. d \in Int /\ e \in Int /\ 0 <= e /\ e < m /\ n = m * d + e
  BY Z3
<1> HIDE DEF d, e
<1>2. m * (d - q) = r - e
  <2>1. m * (d - q) = m * d - m * q
    BY <1>1
  <2>2. m * d \in Int /\ m * q \in Int
    BY <1>1
  <2> QED BY <1>1, <2>1, <2>2
<1>3. \A x \in Int : (x >= 1 => m * x >= m) /\ (x <= -1 => m * x <= -m)
  OBVIOUS
<1>4. ~(d - q >= 1) /\ ~(d - q <= -1)
  <2>1. d - q \in Int /\ r - e < m /\ r - e > -m
    BY <1>1
  <2> QED BY <1>1, <1>2, <1>3, <2>1
<1>5. d = q
  BY <1>1, <1>4
<1> QED BY <1>5 DEF d

(* What is whole cells away from x, and x near c, is put to x.             *)
LEMMA VicinityIs ==
  ASSUME CellLength \in Nat \ {0}, NEW p \in Int, NEW c \in Int, NEW x \in Int, NEW k \in Int,
         p = x + CellLength * k, 2 * (x - c) < CellLength, -CellLength < 2 * (x - c)
  PROVE  TranslateToVicinity(p, c) = x
<1> DEFINE L == CellLength
           y == L * k
           z == 2 * (x - c)
<1>1. L \in Nat \ {0} /\ y \in Int /\ z \in Int /\ p = x + y /\ z < L /\ -L < z
  OBVIOUS
<1>2. 2 * (p - c) = z + 2 * y /\ 2 * (c - p) = -(z + 2 * y)
  BY <1>1
<1>3. (2 * L) * k = 2 * y /\ (2 * L) * (-k) = -(2 * y)
  OBVIOUS
<1>4. L * (-k) = -y
  OBVIOUS
<1>5. k # 0 => y >= L \/ y <= -L
  OBVIOUS
<1> HIDE DEF L, y, z
<1>6. Ceiling(2 * (p - c) - L, 2 * L) = k
  <2>1. 2 * (p - c) - L + 2 * L - 1 = (2 * L) * k + (z + L - 1)
    BY <1>1, <1>2, <1>3
  <2>2. 2 * L \in Nat \ {0} /\ z + L - 1 \in Int /\ 0 <= z + L - 1 /\ z + L - 1 < 2 * L
    BY <1>1
  <2>3. 2 * (p - c) - L + 2 * L - 1 \in Int
    BY <1>1
  <2>4. (2 * (p - c) - L + 2 * L - 1) \div (2 * L) = k
    BY <2>1, <2>2, <2>3, QuotientIs
  <2> QED BY <2>4 DEF Ceiling
<1>7. Ceiling(2 * (c - p) - L, 2 * L) = -k
  <2>1. 2 * (c - p) - L + 2 * L - 1 = (2 * L) * (-k) + (-z + L - 1)
    BY <1>1, <1>2, <1>3
  <2>2. 2 * L \in Nat \ {0} /\ -z + L - 1 \in Int /\ 0 <= -z + L - 1 /\ -z + L - 1 < 2 * L /\ -k \in Int
    BY <1>1
  <2>3. 2 * (c - p) - L + 2 * L - 1 \in Int
    BY <1>1
  <2>4. (2 * (c - p) - L + 2 * L - 1) \div (2 * L) = -k
    <3> DEFINE n == 2 * (c - p) - L + 2 * L - 1
               m == 2 * L
               q == -k
               r == -z + L - 1
    <3>1. /\ m \in Nat \ {0} /\ q \in Int /\ r \in Int /\ 0 <= r /\ r < m /\ n \in Int
          /\ n = m * q + r
      BY <2>1, <2>2, <2>3
    <3> HIDE DEF n, m, q, r
    <3>2. n \div m = q
      BY <3>1, QuotientIs
    <3> QED BY <3>2 DEF n, m, q
  <2> QED BY <2>4 DEF Ceiling
<1>8. p - y = x /\ p + (-y) = x
  BY <1>1
<1>9. ~(2 * (c - p) < -L) /\ ~(2 * (c - p) > L) => k = 0
  BY <1>1, <1>2, <1>5
<1>10. k = 0 => p = x
  BY <1>1 DEF y
<1>11. L * k = y
  BY DEF y
<1> QED BY <1>4, <1>6, <1>7, <1>8, <1>9, <1>10, <1>11 DEF TranslateToVicinity, L

(* It is moved by whole cells in any case.                                 *)
LEMMA VicinityMoves ==
  ASSUME CellLength \in Nat \ {0}, NEW p \in Int, NEW c \in Int
  PROVE  \E k \in Int : TranslateToVicinity(p, c) = p + CellLength * k
<1> DEFINE a == Ceiling(2 * (p - c) - CellLength, 2 * CellLength)
           b == Ceiling(2 * (c - p) - CellLength, 2 * CellLength)
<1>1. a \in Int /\ b \in Int
  <2>1. /\ 2 * (p - c) - CellLength + 2 * CellLength - 1 \in Int
        /\ 2 * (c - p) - CellLength + 2 * CellLength - 1 \in Int
        /\ 2 * CellLength \in Nat \ {0}
    OBVIOUS
  <2> QED BY <2>1 DEF Ceiling
<1>2. \/ TranslateToVicinity(p, c) = p - CellLength * a
      \/ TranslateToVicinity(p, c) = p + CellLength * b
      \/ TranslateToVicinity(p, c) = p
  BY DEF TranslateToVicinity
<1> HIDE DEF a, b
<1>3. p - CellLength * a = p + CellLength * (-a) /\ -a \in Int /\ p = p + CellLength * 0
  BY <1>1
<1> DEFINE v == TranslateToVicinity(p, c)
           At(k) == p + CellLength * k
<1>4. v = At(-a) \/ v = At(b) \/ v = At(0)
  BY <1>2, <1>3
<1> HIDE DEF v, At
<1>5. \E k \in Int : v = At(k)
  BY <1>1, <1>3, <1>4
<1> QED BY <1>5 DEF v, At

(* read_frame puts the coordinate into the cell.                           *)
LEMMA Folded ==
  ASSUME CellLength \in Nat \ {0}, NEW x \in Int
  PROVE  \E k \in Int : x % CellLength = x + CellLength * k
<1> DEFINE d == x \div CellLength
           e == x % CellLength
<1>1. d \in Int /\ e \in Int /\ x = CellLength * d + e
  BY Z3
<1> HIDE DEF d, e
<1>2. CellLength * (-d) = -(CellLength * d) /\ CellLength * d \in Int /\ -d \in Int
  BY <1>1
<1>3. e = x + CellLength * (-d)
  BY <1>1, <1>2
<1> QED BY <1>2, <1>3 DEF e

LEMMA PreparedIs ==
  ASSUME NEW old, NEW new, new = [size |-> new.size, xu |-> new.xu, vx |-> new.vx]
  PROVE  LET atom == Prepared(old, new)
         IN /\ DoIntelligentUnwrap /\ loopcount >= 1 => atom.xu = TranslateToVicinity(new.xu, old.xu)
            /\ ~(loopcount >= 1) => atom.xu = new.xu
            /\ DoCalculateVelocities /\ loopcount >= 1 => atom.vx = atom.xu - old.xu
<1> DEFINE u == Unwrapped(old, new)
           v == TranslateToVicinity(new.xu, old.xu)
<1>1. /\ DoIntelligentUnwrap /\ loopcount >= 1 => u = [size |-> new.size, xu |-> v, vx |-> new.vx]
      /\ ~(DoIntelligentUnwrap /\ loopcount >= 1) => u = new
  <2> HIDE DEF v
  <2> QED BY DEF Unwrapped, v
<1>2. u = [size |-> u.size, xu |-> u.xu, vx |-> u.vx]
  <2> HIDE DEF u, v
  <2> QED BY <1>1
<1> HIDE DEF u, v
<1>3. WithVelocity(old, u).xu = u.xu
  BY <1>2 DEF WithVelocity
<1>4. DoCalculateVelocities /\ loopcount >= 1 => WithVelocity(old, u).vx = u.xu - old.xu
  BY <1>2 DEF WithVelocity
<1> QED BY <1>1, <1>3, <1>4 DEF Prepared, u, v

-----------------------------------------------------------------------------
(* The unwrapped coordinate stays with the path.                           *)
LEMMA UnwrapInit == Init => UnwrapInv
<1> SUFFICES ASSUME Init PROVE UnwrapInv
  OBVIOUS
<1>1. loopcount = 0
  BY NoFrameRead DEF loopcount
<1>2. 1 .. 0 = {} /\ 2 .. 0 = {}
  OBVIOUS
<1> QED BY <1>1, <1>2 DEF UnwrapInv, UnwrapFollowsPath

LEMMA NotSkipping ==
  ASSUME TypeInv, OrderInv, SkipFrame
  PROVE  ~NoneSkipped'
<1>1. /\ phase = "loop" /\ phase' = "loop" /\ FramesRead \in Seq(DumpFrame)
      /\ FramesRead' = Append(FramesRead, File[position]) /\ File[position] \in DumpFrame
      /\ accepted' = accepted
  BY OtherFrameFacts
<1>2. Len(FramesRead') = Len(FramesRead) + 1 /\ Len(FramesRead) \in Nat
  BY <1>1, AppendProperties, LenProperties
<1> DEFINE C == CountedOf(FramesRead, FrameNumbersMustIncrease)
<1>3. loopcount = Cardinality(C)
  BY <1>1 DEF OrderInv, OrderOf, loopcount
<1>4. C \subseteq 1 .. Len(FramesRead) /\ IsFiniteSet(1 .. Len(FramesRead))
  BY <1>1, <1>2, CountedFinite, FS_Interval
<1> HIDE DEF C
<1>5. Cardinality(C) <= Cardinality(1 .. Len(FramesRead)) /\ Cardinality(C) \in Nat
  <2>1. IsFiniteSet(C)
    BY <1>4, FS_Subset
  <2> QED BY <1>4, <2>1, FS_Subset, FS_CardinalityType
<1>6. Cardinality(1 .. Len(FramesRead)) = Len(FramesRead)
  <2>1. Cardinality(1 .. Len(FramesRead)) =
          IF 1 > Len(FramesRead) THEN 0 ELSE Len(FramesRead) - 1 + 1
    BY <1>2, FS_Interval
  <2> QED BY <1>2, <2>1
<1>7. loopcount' = loopcount
  BY <1>1 DEF loopcount
<1>8. ~(Len(FramesRead') = loopcount)
  BY <1>2, <1>3, <1>5, <1>6
<1> QED BY <1>1, <1>7, <1>8 DEF NoneSkipped

LEMMA UnwrapNext == TypeInv /\ OrderInv /\ UnwrapInv /\ [Next]_vars => UnwrapInv'
<1> SUFFICES ASSUME TypeInv, OrderInv, UnwrapInv, [Next]_vars PROVE UnwrapInv'
  OBVIOUS
<1>1. /\ InputInv /\ LoopTypes /\ accepted \in Seq(Accepted) /\ loopcount \in Nat
      /\ CellLength \in Nat \ {0} /\ atoms.xu \in Int
  BY SettingTypes, LenProperties DEF TypeInv, LoopTypes, loopcount
<1>2. ASSUME UNCHANGED <<input, accepted>>, phase' = "loop" => phase = "loop" /\ atoms' = atoms,
             NoneSkipped' => NoneSkipped
      PROVE  UnwrapInv'
  <2>1. UNCHANGED <<settings, path, accepted>>
    BY <1>2 DEF input
  <2>2. /\ loopcount' = loopcount /\ CellLength' = CellLength
        /\ DoIntelligentUnwrap' = DoIntelligentUnwrap
        /\ DoCalculateVelocities' = DoCalculateVelocities
    BY <2>1 DEF loopcount, CellLength, DoIntelligentUnwrap, DoCalculateVelocities
  <2>3. Followable' => Followable
    BY <1>2, <2>1, <2>2 DEF Followable
  <2>4. UnwrapFollowsPath => UnwrapFollowsPath'
    BY <2>1, <2>2 DEF UnwrapFollowsPath
  <2> QED BY <1>2, <2>1, <2>2, <2>3, <2>4 DEF UnwrapInv
<1>3. CASE Quiet
  <2>1. NoneSkipped' => NoneSkipped
    BY <1>3 DEF Quiet, NoneSkipped, loopcount
  <2> QED BY <1>2, <1>3, <2>1 DEF Quiet
<1>4. CASE SkipFrame
  BY <1>4, NotSkipping DEF UnwrapInv, Followable
<1>5. CASE ThrowException
  <2>1. /\ phase = "loop" /\ phase' = "exception" /\ UNCHANGED <<input, accepted>>
        /\ FramesRead \in Seq(DumpFrame) /\ File[position] \in DumpFrame
        /\ FramesRead' = Append(FramesRead, File[position])
    BY <1>5, OtherFrameFacts
  <2>2. Len(FramesRead') = Len(FramesRead) + 1 /\ Len(FramesRead) \in Nat /\ loopcount' = loopcount
    BY <2>1, AppendProperties, LenProperties DEF loopcount
  <2>3. NoneSkipped' => NoneSkipped
    BY <1>1, <2>1, <2>2 DEF NoneSkipped
  <2> QED BY <1>2, <2>1, <2>3
<1>6. CASE UseFrame
  <2> SUFFICES ASSUME DoIntelligentUnwrap', NoneSkipped' PROVE UnwrapInv'
    BY DEF UnwrapInv
  <2> DEFINE n == loopcount
             frame == File[position]
             new == ReadFrame(frame)
             entry == accepted'[n + 1]
             X(i) == accepted'[i].xu
             W(i) == path[accepted'[i].number]
  <2>1. /\ phase = "loop" /\ phase' = phase /\ UNCHANGED <<settings, path>> /\ frame \in DumpFrame
        /\ FramesRead' = Append(FramesRead, frame) /\ FramesRead \in Seq(DumpFrame)
        /\ atoms' = Prepared(atoms, new)
        /\ entry = [number |-> frame.number, xu |-> atoms'.xu, vx |-> atoms'.vx]
        /\ entry \in Accepted /\ loopcount' = n + 1
        /\ \A i \in 1 .. n : accepted'[i] = accepted[i]
        /\ path[frame.number] \in Int
    BY <1>6, UseFrameFacts DEF input
  <2>2. /\ CellLength' = CellLength /\ DoIntelligentUnwrap /\ DoIntelligentUnwrap'
        /\ DoCalculateVelocities' = DoCalculateVelocities
    BY <2>1 DEF CellLength, DoIntelligentUnwrap, DoCalculateVelocities
  <2>3. NoneSkipped
    <3>1. Len(FramesRead') = Len(FramesRead) + 1 /\ Len(FramesRead) \in Nat
      BY <2>1, AppendProperties, LenProperties
    <3> QED BY <1>1, <2>1, <3>1 DEF NoneSkipped
  <2>4. /\ n >= 1 => atoms.xu = accepted[n].xu
        /\ \A i \in 1 .. n : /\ path[accepted[i].number] \in Int
                             /\ \E k \in Int : accepted[i].xu = path[accepted[i].number] + CellLength * k
        /\ DoCalculateVelocities =>
             \A i \in 2 .. n : accepted[i].vx = accepted[i].xu - accepted[i - 1].xu
        /\ Followable => UnwrapFollowsPath
    BY <2>1, <2>2, <2>3 DEF UnwrapInv
  <2>5. /\ new = [size |-> new.size, xu |-> new.xu, vx |-> new.vx]
        /\ new.xu = path[frame.number] % CellLength
    BY DEF ReadFrame
  <2>6. new.xu \in Int /\ \E k \in Int : new.xu = path[frame.number] + CellLength * k
    <3> DEFINE x == path[frame.number]
    <3>1. x \in Int
      BY <2>1
    <3> HIDE DEF x
    <3>2. \E k \in Int : x % CellLength = x + CellLength * k
      BY <1>1, <3>1, Folded
    <3>3. x % CellLength \in Int
      BY <1>1, <3>1
    <3> HIDE DEF new
    <3> QED BY <2>5, <3>2, <3>3 DEF x
  <2> HIDE DEF new, frame
  <2>7. /\ n >= 1 => atoms'.xu = TranslateToVicinity(new.xu, atoms.xu)
        /\ ~(n >= 1) => atoms'.xu = new.xu
        /\ DoCalculateVelocities /\ n >= 1 => atoms'.vx = atoms'.xu - atoms.xu
    BY <2>1, <2>2, <2>5, PreparedIs
  <2>8. X(n + 1) = atoms'.xu /\ W(n + 1) = path[frame.number] /\ X(n + 1) \in Int /\ W(n + 1) \in Int
    BY <2>1 DEF Accepted
  <2>9. \A i \in 1 .. n : X(i) = accepted[i].xu /\ W(i) = path[accepted[i].number]
    BY <2>1
  <2>10. \A i \in 1 .. n + 1 : i \in 1 .. n \/ i = n + 1
    BY <1>1
  <2>11. \A i \in 1 .. n : X(i) \in Int /\ W(i) \in Int
    <3>1. \A i \in 1 .. n : accepted[i] \in Accepted
      BY <1>1, ElementOfSeq DEF loopcount
    <3>2. \A i \in 1 .. n : X(i) \in Int
      BY <2>9, <3>1 DEF Accepted
    <3> QED BY <2>4, <2>9, <3>2
  <2> HIDE DEF X, W, n
  <2>12. \E k \in Int : X(n + 1) = W(n + 1) + CellLength * k
    <3>1. PICK k \in Int : new.xu = W(n + 1) + CellLength * k
      BY <2>6, <2>8
    <3>2. CASE n >= 1
      <4>1. PICK l \in Int : X(n + 1) = new.xu + CellLength * l
        <5>1. \E l \in Int : TranslateToVicinity(new.xu, atoms.xu) = new.xu + CellLength * l
          BY <1>1, <2>6, VicinityMoves
        <5> QED BY <2>7, <2>8, <3>2, <5>1
      <4>2. CellLength * (k + l) = CellLength * k + CellLength * l /\ k + l \in Int
        BY <1>1
      <4>3. CellLength * k \in Int /\ CellLength * l \in Int
        BY <1>1
      <4>4. X(n + 1) = W(n + 1) + CellLength * (k + l)
        BY <2>8, <3>1, <4>1, <4>2, <4>3
      <4> QED BY <4>2, <4>4
    <3>3. CASE ~(n >= 1)
      BY <2>7, <2>8, <3>1, <3>3
    <3> QED BY <3>2, <3>3
  <2>13. \A i \in 1 .. n + 1 : W(i) \in Int /\ \E k \in Int : X(i) = W(i) + CellLength * k
    BY <2>4, <2>8, <2>9, <2>10, <2>12
  <2>14. ASSUME DoCalculateVelocities, NEW i \in 2 .. n + 1
         PROVE  accepted'[i].vx = X(i) - X(i - 1)
    <3>1. CASE i \in 2 .. n
      <4>1. i \in 1 .. n /\ i - 1 \in 1 .. n
        BY <1>1, <3>1 DEF n
      <4> QED BY <2>1, <2>4, <2>9, <2>14, <3>1, <4>1
    <3>2. CASE i = n + 1
      <4>1. n >= 1 /\ i - 1 = n /\ n \in 1 .. n
        BY <1>1, <2>14, <3>2 DEF n
      <4>2. accepted'[i].vx = atoms'.vx
        BY <2>1, <3>2
      <4> QED BY <2>4, <2>7, <2>8, <2>9, <2>14, <3>2, <4>1, <4>2
    <3>3. i \in 2 .. n \/ i = n + 1
      BY <1>1 DEF n
    <3> QED BY <3>1, <3>2, <3>3
  <2>15. ASSUME Followable' PROVE UnwrapFollowsPath'
    <3>1. \A i \in 2 .. n + 1 : 2 * (W(i) - W(i - 1)) < CellLength /\ -CellLength < 2 * (W(i) - W(i - 1))
      BY <2>1, <2>2, <2>15 DEF Followable, W
    <3>2. Followable
      <4>1. \A i \in 2 .. n : i \in 2 .. n + 1 /\ i \in 1 .. n /\ i - 1 \in 1 .. n
        BY <1>1 DEF n
      <4>2. \A i \in 2 .. n : W(i) = path[accepted[i].number] /\ W(i - 1) = path[accepted[i - 1].number]
        BY <2>9, <4>1
      <4> QED BY <2>3, <3>1, <4>1, <4>2 DEF Followable, n
    <3>3. \A i, j \in 1 .. n : X(j) - X(i) = W(j) - W(i)
      BY <2>2, <2>4, <2>9, <3>2 DEF UnwrapFollowsPath, n
    <3>4. n >= 1 => X(n + 1) - X(n) = W(n + 1) - W(n)
      <4> SUFFICES ASSUME n >= 1 PROVE X(n + 1) - X(n) = W(n + 1) - W(n)
        OBVIOUS
      <4>1. n + 1 \in 2 .. n + 1 /\ n + 1 - 1 = n /\ n \in 1 .. n /\ n \in Nat
        BY <1>1 DEF n
      <4>2. atoms.xu = X(n) /\ X(n) \in Int /\ W(n) \in Int /\ X(n + 1) \in Int /\ W(n + 1) \in Int
        BY <2>4, <2>8, <2>9, <2>11, <4>1
      <4>3. PICK k \in Int : new.xu = W(n + 1) + CellLength * k
        BY <2>6, <2>8
      <4>4. PICK l \in Int : X(n) = W(n) + CellLength * l
        BY <2>4, <2>9, <4>1
      <4> DEFINE x == W(n + 1) - W(n) + X(n)
      <4>5. x \in Int /\ x - X(n) = W(n + 1) - W(n)
        BY <4>2
      <4>6. new.xu = x + CellLength * (k - l) /\ k - l \in Int
        <5>1. CellLength * (k - l) = CellLength * k - CellLength * l /\ k - l \in Int
          BY <1>1
        <5>2. CellLength * k \in Int /\ CellLength * l \in Int
          BY <1>1
        <5> QED BY <4>2, <4>3, <4>4, <5>1, <5>2
      <4>7. 2 * (x - X(n)) < CellLength /\ -CellLength < 2 * (x - X(n))
        BY <3>1, <4>1, <4>5
      <4> HIDE DEF x
      <4>8. TranslateToVicinity(new.xu, X(n)) = x
        BY <1>1, <2>6, <4>2, <4>5, <4>6, <4>7, VicinityIs
      <4> QED BY <2>7, <2>8, <4>2, <4>5, <4>8
    <3>5. ASSUME NEW i \in 1 .. n + 1, NEW j \in 1 .. n + 1
          PROVE  X(j) - X(i) = W(j) - W(i)
      <4> DEFINE m == n + 1
      <4>1. ASSUME NEW h \in 1 .. n PROVE X(m) - X(h) = W(m) - W(h)
        <5>1. n >= 1 /\ n \in 1 .. n
          BY <1>1 DEF n
        <5>2. X(n) - X(h) = W(n) - W(h) /\ X(n + 1) - X(n) = W(n + 1) - W(n)
          BY <3>3, <3>4, <5>1
        <5>3. {X(n), X(h), W(n), W(h), X(n + 1), W(n + 1)} \subseteq Int
          BY <2>8, <2>11, <5>1
        <5> HIDE DEF m
        <5> QED BY <5>2, <5>3 DEF m
      <4>2. X(m) \in Int /\ W(m) \in Int
        BY <2>8
      <4>3. (i \in 1 .. n \/ i = m) /\ (j \in 1 .. n \/ j = m)
        BY <2>10
      <4> HIDE DEF m
      <4>4. i = m /\ j = m => X(j) - X(i) = W(j) - W(i)
        BY <4>2
      <4>5. i \in 1 .. n /\ j = m => X(j) - X(i) = W(j) - W(i)
        BY <4>1
      <4>6. i = m /\ j \in 1 .. n => X(j) - X(i) = W(j) - W(i)
        <5> SUFFICES ASSUME i = m, j \in 1 .. n PROVE X(j) - X(i) = W(j) - W(i)
          OBVIOUS
        <5>1. X(m) - X(j) = W(m) - W(j) /\ {X(m), X(j), W(m), W(j)} \subseteq Int
          BY <2>11, <4>1, <4>2
        <5> QED BY <5>1
      <4> QED BY <3>3, <4>3, <4>4, <4>5, <4>6
    <3> QED BY <2>1, <3>5 DEF UnwrapFollowsPath, X, W, n
  <2>16. phase' = "loop" /\ loopcount' >= 1 => atoms'.xu = accepted'[loopcount'].xu
    BY <2>1, <2>8 DEF X, n
  <2>17. \A i \in 1 .. loopcount' :
            /\ path'[accepted'[i].number] \in Int
            /\ \E k \in Int : accepted'[i].xu = path'[accepted'[i].number] + CellLength' * k
    BY <2>1, <2>2, <2>13 DEF X, W, n
  <2>18. DoCalculateVelocities' =>
           \A i \in 2 .. loopcount' : accepted'[i].vx = accepted'[i].xu - accepted'[i - 1].xu
    BY <2>1, <2>2, <2>14 DEF X, n
  <2> QED BY <2>15, <2>16, <2>17, <2>18 DEF UnwrapInv
<1> QED BY <1>1, <1>3, <1>4, <1>5, <1>6, StepKinds

-----------------------------------------------------------------------------
(* Which frames are handed to the actions.                                 *)
LEMMA FirstIs ==
  ASSUME NEW min \in Nat, NEW super \in Nat \ {0}
  PROVE  LET f == FirstOf(min, super)
         IN f \in Nat \ {0} /\ Regular(f, min, super) /\ \A k \in Nat \ {0} : Regular(k, min, super) => f <= k
<1> DEFINE S == {k \in Nat \ {0} : Regular(k, min, super)}
           w == 1 + super * min
<1>1. w \in S
  <2>1. w \in Nat \ {0} /\ w >= min /\ w - 1 = super * min
    <3>1. super * min >= min /\ super * min \in Nat
      OBVIOUS
    <3> QED BY <3>1
  <2>2. (super * min) % super = 0
    BY Z3
  <2> QED BY <2>1, <2>2 DEF Regular
<1>2. S \in SUBSET Nat
  OBVIOUS
<1> HIDE DEF w, S
<1>3. PICK n \in S : \A m \in S : n <= m
  BY <1>1, <1>2, LeastElement
<1>4. n \in Nat \ {0} /\ Regular(n, min, super) /\ \A k \in Nat \ {0} : Regular(k, min, super) => n <= k
  BY <1>3 DEF S
<1> QED BY <1>4, Zenon DEF FirstOf

LEMMA RegularIs ==
  ASSUME NEW min \in Nat, NEW super \in Nat \ {0}, NEW k \in Nat \ {0}
  PROVE  Regular(k, min, super) <=> \E n \in Nat : k = FirstOf(min, super) + super * n
<1> DEFINE f == FirstOf(min, super)
<1>1. f \in Nat \ {0} /\ Regular(f, min, super) /\ \A m \in Nat \ {0} : Regular(m, min, super) => f <= m
  BY FirstIs
<1> HIDE DEF f
<1>2. PICK b \in Int : f - 1 = super * b
  <2>1. f - 1 \in Nat /\ (f - 1) % super = 0
    BY <1>1 DEF Regular
  <2> DEFINE h == f - 1
  <2> HIDE DEF h
  <2>2. h \in Nat /\ h % super = 0
    BY <2>1 DEF h
  <2>3. h = super * (h \div super) /\ h \div super \in Int
    BY <2>2, Z3
  <2> QED BY <2>3 DEF h
<1>3. ASSUME Regular(k, min, super) PROVE \E n \in Nat : k = f + super * n
  <2> DEFINE g == k - 1
  <2>1. g \in Nat /\ g % super = 0 /\ f <= k
    BY <1>1, <1>3 DEF Regular
  <2> HIDE DEF g
  <2>2. g = super * (g \div super) /\ g \div super \in Int
    BY <2>1, Z3
  <2>3. PICK a \in Int : g = super * a
    BY <2>2
  <2>4. super * (a - b) = super * a - super * b /\ super * a \in Int /\ super * b \in Int
    OBVIOUS
  <2>5. super * (a - b) = k - f
    BY <1>1, <1>2, <2>3, <2>4 DEF g
  <2>6. \A x \in Int : x < 0 => super * x < 0
    OBVIOUS
  <2>7. a - b \in Nat
    <3>1. a - b \in Int /\ ~(k - f < 0)
      BY <1>1, <2>1
    <3> QED BY <2>5, <2>6, <3>1
  <2>8. k = f + super * (a - b)
    BY <1>1, <2>5
  <2> QED BY <2>7, <2>8
<1>4. ASSUME NEW n \in Nat, k = f + super * n PROVE Regular(k, min, super)
  <2>1. super * (b + n) = super * b + super * n /\ super * b \in Int /\ super * n \in Nat /\ b + n \in Int
    OBVIOUS
  <2>2. k - 1 = super * (b + n)
    BY <1>1, <1>2, <1>4, <2>1
  <2>3. (k - 1) % super = 0
    <3> DEFINE c == b + n
    <3>1. c \in Int /\ k - 1 = super * c
      BY <2>1, <2>2
    <3> HIDE DEF c
    <3>2. (super * c) % super = 0
      BY <3>1, Z3
    <3> QED BY <3>1, <3>2
  <2>4. k >= f /\ f >= min
    BY <1>1, <1>4, <2>1 DEF Regular
  <2> QED BY <1>1, <2>3, <2>4 DEF Regular
<1> QED BY <1>3, <1>4 DEF f

(* A frame that is handed to the actions is the next in the series.        *)
LEMMA NextInSeries ==
  ASSUME NEW f \in Nat \ {0}, NEW super \in Nat \ {0}, NEW total \in Nat, NEW k \in Nat \ {0},
         k - 1 < f + super * total, total > 0 => f + super * (total - 1) <= k - 1
  PROVE  /\ (\E n \in Nat : k = f + super * n) => k = f + super * total
         /\ k = f + super * total => k < f + super * (total + 1)
         /\ k # f + super * total => k < f + super * total
<1>1. \A x, y \in Int : super * (x - y) = super * x - super * y /\ super * x \in Int
  OBVIOUS
<1>2. \A x \in Int : (x >= 1 => super * x >= super) /\ (x <= -1 => super * x <= -super)
  OBVIOUS
<1>3. super * (total + 1) = super * total + super /\ super * (total - 1) = super * total - super
      /\ super * total \in Int
  OBVIOUS
<1>4. ASSUME NEW n \in Nat, k = f + super * n PROVE n = total
  <2>1. super * (n - total) = super * n - super * total /\ super * n \in Int
    BY <1>1
  <2>2. ~(n - total >= 1)
    <3>1. n - total >= 1 => super * (n - total) >= super
      BY <1>2
    <3> QED BY <1>3, <1>4, <2>1, <3>1
  <2>3. ~(n - total <= -1)
    <3>1. n - total <= -1 => super * (n - total) <= -super
      BY <1>2
    <3>2. n - total <= -1 => total > 0
      OBVIOUS
    <3> QED BY <1>3, <1>4, <2>1, <3>1, <3>2
  <2> QED BY <2>2, <2>3
<1>5. (\E n \in Nat : k = f + super * n) => k = f + super * total
  BY <1>4
<1>6. k = f + super * total => k < f + super * (total + 1)
  BY <1>3
<1>7. k # f + super * total => k < f + super * total
  BY <1>3
<1> QED BY <1>5, <1>6, <1>7

(* Of the frames of the series each Every-th is counted.                   *)
LEMMA NextCounted ==
  ASSUME NEW every \in Nat \ {0}, NEW total \in Nat, NEW count \in Nat,
         total <= every * count, count > 0 => every * (count - 1) < total
  PROVE  /\ total % every = 0 => total = every * count
         /\ total # every * count => total + 1 <= every * count
         /\ total + 1 <= every * (count + 1)
<1>1. ASSUME total % every = 0 PROVE total = every * count
  <2>1. PICK q \in Int : total = every * q
    <3>1. total = every * (total \div every) /\ total \div every \in Int
      BY <1>1, Z3
    <3> QED BY <3>1
  <2>2. \A x \in Int : (x >= 1 => every * x >= every) /\ (x <= -1 => every * x <= -every)
    OBVIOUS
  <2>3. every * (q - count) = every * q - every * count /\ every * q \in Int /\ every * count \in Int
    OBVIOUS
  <2>4. every * (count - 1) = every * count - every
    OBVIOUS
  <2>5. ~(q - count >= 1)
    BY <2>1, <2>2, <2>3
  <2>6. ~(q - count <= -1)
    <3>1. q - count <= -1 => every * (q - count) <= -every
      BY <2>2
    <3>2. q - count <= -1 /\ count = 0 => FALSE
      <4>1. q <= -1 => every * q <= -every
        BY <2>2
      <4> QED BY <2>1, <4>1
    <3> QED BY <2>1, <2>3, <2>4, <3>1, <3>2
  <2>7. q = count
    BY <2>5, <2>6
  <2> QED BY <2>1, <2>7
<1>2. every * (count + 1) = every * count + every /\ every * count \in Int
  OBVIOUS
<1> QED BY <1>1, <1>2

LEMMA RisesOn ==
  ASSUME TypeInv, HandledInv, UseFrame, NumbersRise'
  PROVE  NumbersRise /\ (loopcount > 0 => File[position].number >= number)
<1> DEFINE n == loopcount
<1>1. /\ n \in Nat /\ loopcount' = n + 1 /\ phase = "loop"
      /\ \A i \in 1 .. n : accepted'[i] = accepted[i]
      /\ accepted'[n + 1].number = File[position].number
  BY UseFrameFacts
<1>2. \A i \in 2 .. n + 1 : accepted'[i - 1].number <= accepted'[i].number
  BY <1>1 DEF NumbersRise
<1>3. n > 0 => number = accepted[n].number
  BY <1>1 DEF HandledInv
<1>4. \A i \in 2 .. n : i \in 2 .. n + 1 /\ i \in 1 .. n /\ i - 1 \in 1 .. n
  BY <1>1
<1>5. NumbersRise
  BY <1>1, <1>2, <1>4 DEF NumbersRise
<1>6. ASSUME n > 0 PROVE File[position].number >= number
  <2>1. n + 1 \in 2 .. n + 1 /\ n + 1 - 1 = n /\ n \in 1 .. n
    BY <1>1, <1>6
  <2>2. accepted'[n].number <= accepted'[n + 1].number
    BY <1>2, <2>1
  <2> QED BY <1>1, <1>3, <1>6, <2>1, <2>2
<1> QED BY <1>5, <1>6

LEMMA HandledInit == Init => HandledInv
<1> SUFFICES ASSUME Init PROVE HandledInv
  OBVIOUS
<1>1. loopcount = 0 /\ handled = <<>> /\ mCount = 0 /\ Len(handled) = 0
  BY DEF Init, ActionInit, loopcount
<1> QED BY <1>1 DEF HandledInv

LEMMA HandledNext == TypeInv /\ HandledInv /\ [Next]_vars => HandledInv'
<1> SUFFICES ASSUME TypeInv, HandledInv, [Next]_vars PROVE HandledInv'
  OBVIOUS
<1>1. /\ InputInv /\ LoopTypes /\ MinCount \in Nat /\ MinTimestepNumber \in Int /\ number \in Int
      /\ totaltimesteps \in Nat /\ mCount \in Nat /\ handled \in Seq(Nat) /\ Len(handled) \in Nat
      /\ totaltimesteps <= loopcount /\ mCount <= totaltimesteps /\ Len(handled) <= mCount
  BY SettingTypes, LenProperties DEF TypeInv, LoopTypes, RunTypes
<1>2. ASSUME UNCHANGED <<input, accepted, runVars>>, phase' = "loop" => phase = "loop" /\ number' = number
      PROVE  HandledInv'
  <2>1. UNCHANGED <<settings, accepted, mCount, handled>>
    BY <1>2 DEF input, runVars, actionVars
  <2>2. /\ loopcount' = loopcount /\ MinCount' = MinCount /\ MinTimestepNumber' = MinTimestepNumber
        /\ NumbersRise' => NumbersRise
    BY <2>1 DEF loopcount, MinCount, MinTimestepNumber, NumbersRise
  <2> QED BY <1>2, <2>1, <2>2 DEF HandledInv
<1>3. CASE Quiet
  BY <1>2, <1>3 DEF Quiet
<1>4. CASE SkipFrame \/ ThrowException
  BY <1>2, <1>4, OtherFrameFacts
<1>5. CASE UseFrame
  <2> DEFINE k == loopcount + 1
             low == MinCount <= 1 /\ MinTimestepNumber <= 0
             good == NumbersRise' /\ handled' # <<>> => mCount' >= MinCount /\ number' >= MinTimestepNumber
             all == low => Len(handled') = mCount'
  <2>1. /\ phase = "loop" /\ phase' = "loop" /\ settings' = settings
        /\ loopcount \in Nat /\ loopcount' = k /\ accepted'[k].number = number'
        /\ number' = File[position].number /\ File[position].number \in Nat
    BY <1>5, UseFrameFacts DEF input, DumpFrame
  <2>2. MinCount' = MinCount /\ MinTimestepNumber' = MinTimestepNumber
    BY <2>1 DEF MinCount, MinTimestepNumber
  <2>3. NumbersRise' => NumbersRise /\ (loopcount > 0 => number' >= number)
    BY <1>5, <2>1, RisesOn
  <2>4. /\ NumbersRise /\ handled # <<>> => mCount >= MinCount /\ number >= MinTimestepNumber
        /\ low => Len(handled) = mCount
    BY <2>1 DEF HandledInv
  <2>5. handled # <<>> => loopcount > 0
    BY <1>1, <2>1, EmptySeq
  <2>6. ASSUME mCount' = mCount \/ mCount' = mCount + 1, handled' = handled PROVE good
    BY <1>1, <2>1, <2>3, <2>4, <2>5, <2>6
  <2>7. CASE Wanted(k)
    <3>1. PICK size \in GroupSizes : Process(size, File[position])
      BY <1>5, <2>7 DEF UseFrame
    <3>2. CASE UNCHANGED actionVars
      <4>1. mCount' = mCount /\ handled' = handled
        BY <3>2 DEF actionVars
      <4> QED BY <2>1, <2>2, <2>4, <2>6, <4>1 DEF HandledInv
    <3>3. CASE /\ mCount' = mCount + 1 /\ handled' = handled
               /\ ~(mCount' >= MinCount /\ File[position].number >= MinTimestepNumber)
      <4>1. ~low
        BY <1>1, <2>1, <3>3
      <4> HIDE DEF low
      <4> QED BY <2>1, <2>2, <2>6, <3>3, <4>1 DEF HandledInv, low
    <3>4. CASE /\ mCount' = mCount + 1 /\ Len(handled') = Len(handled) + 1
               /\ mCount' >= MinCount /\ File[position].number >= MinTimestepNumber
      BY <2>1, <2>2, <2>4, <3>4 DEF HandledInv
    <3> QED BY <1>5, <3>1, <3>2, <3>3, <3>4, ProcessFacts
  <2>8. CASE ~Wanted(k)
    <3>1. mCount' = mCount /\ handled' = handled
      BY <1>5, <2>8 DEF UseFrame, runVars, actionVars
    <3> QED BY <2>1, <2>2, <2>4, <2>6, <3>1 DEF HandledInv
  <2> QED BY <2>7, <2>8
<1> QED BY <1>1, <1>3, <1>4, <1>5, StepKinds

LEMMA ScheduleInit == Init => ScheduleInv
<1> SUFFICES ASSUME Init PROVE ScheduleInv
  OBVIOUS
<1>1. /\ loopcount = 0 /\ totaltimesteps = 0 /\ handled = <<>> /\ mCount = 0 /\ Len(handled) = 0
      /\ InputInv
  BY TypesInit DEF Init, ActionInit, loopcount, TypeInv
<1>2. First \in Nat \ {0} /\ SuperEvery \in Nat \ {0} /\ Every \in Nat \ {0}
  BY <1>1, SettingTypes, FirstIs DEF First
<1> HIDE DEF First
<1> QED BY <1>1, <1>2 DEF ScheduleInv

LEMMA ScheduleNext == TypeInv /\ HandledInv /\ ScheduleInv /\ [Next]_vars => ScheduleInv'
<1> SUFFICES ASSUME TypeInv, HandledInv, ScheduleInv, [Next]_vars PROVE ScheduleInv'
  OBVIOUS
<1>1. /\ InputInv /\ LoopTypes
      /\ SuperEvery \in Nat \ {0} /\ Every \in Nat \ {0} /\ MinTimestep \in Nat
      /\ MinCount \in Nat /\ MinTimestepNumber \in Int /\ number \in Int
      /\ totaltimesteps \in Nat /\ mCount \in Nat /\ handled \in Seq(Nat) /\ Len(handled) \in Nat
      /\ totaltimesteps <= loopcount /\ mCount <= totaltimesteps /\ Len(handled) <= mCount
  BY SettingTypes, LenProperties DEF TypeInv, LoopTypes, RunTypes
<1>2. First \in Nat \ {0}
  BY <1>1, FirstIs DEF First
<1>3. settings' = settings =>
        /\ First' = First /\ SuperEvery' = SuperEvery /\ Every' = Every /\ Timesteps' = Timesteps
        /\ IfGroup' = IfGroup /\ MinCount' = MinCount /\ MinTimestepNumber' = MinTimestepNumber
  BY DEF First, MinTimestep, SuperEvery, Every, Timesteps, IfGroup, MinCount, MinTimestepNumber
<1> HIDE DEF First
<1>4. ASSUME UNCHANGED <<input, accepted, runVars>> PROVE ScheduleInv'
  <2>1. UNCHANGED <<settings, accepted, totaltimesteps, mCount, handled>>
    BY <1>4 DEF input, runVars, actionVars
  <2>2. loopcount' = loopcount /\ (NumbersRise' => NumbersRise)
    BY <2>1 DEF loopcount, NumbersRise
  <2> QED BY <1>3, <2>1, <2>2 DEF ScheduleInv
<1>5. CASE Quiet
  BY <1>4, <1>5 DEF Quiet
<1>6. CASE SkipFrame \/ ThrowException
  BY <1>4, <1>6, OtherFrameFacts
<1>7. CASE UseFrame
  <2> SUFFICES ASSUME Timesteps = {} PROVE ScheduleInv'
    <3>1. settings' = settings
      BY <1>7, UseFrameFacts DEF input
    <3> QED BY <1>3, <3>1 DEF ScheduleInv
  <2> DEFINE k == loopcount + 1
  <2>1. /\ phase = "loop" /\ settings' = settings
        /\ loopcount \in Nat /\ loopcount' = k
        /\ number' = File[position].number /\ File[position].number \in Nat
    BY <1>7, UseFrameFacts DEF input, DumpFrame
  <2>2. k \in Nat \ {0} /\ k - 1 = loopcount
    BY <2>1
  <2>3. /\ loopcount < First + SuperEvery * totaltimesteps
        /\ totaltimesteps > 0 => First + SuperEvery * (totaltimesteps - 1) <= loopcount
    BY DEF ScheduleInv
  <2>4. Wanted(k) <=> \E n \in Nat : k = First + SuperEvery * n
    <3>1. Wanted(k) <=> Regular(k, MinTimestep, SuperEvery)
      BY DEF Wanted, Regular
    <3> QED BY <1>1, <2>2, <3>1, RegularIs DEF First
  <2> HIDE DEF k
  <2>5. /\ (\E n \in Nat : k = First + SuperEvery * n) => k = First + SuperEvery * totaltimesteps
        /\ k = First + SuperEvery * totaltimesteps => k < First + SuperEvery * (totaltimesteps + 1)
        /\ k # First + SuperEvery * totaltimesteps => k < First + SuperEvery * totaltimesteps
    BY <1>1, <1>2, <2>2, <2>3, NextInSeries
  <2>6. ~IfGroup =>
          /\ totaltimesteps <= Every * mCount
          /\ mCount > 0 => Every * (mCount - 1) < totaltimesteps
          /\ NumbersRise =>
               \A i \in 1 .. Len(handled) :
                 handled[i] = First + SuperEvery * Every * (mCount - Len(handled) + i - 1)
    BY DEF ScheduleInv
  <2>7. NumbersRise' => NumbersRise /\ (loopcount > 0 => number' >= number)
    BY <1>7, <2>1, RisesOn
  <2>8. CASE Wanted(k)
    <3>1. PICK size \in GroupSizes : Process(size, File[position])
      BY <1>7, <2>8 DEF UseFrame, k
    <3>2. k = First + SuperEvery * totaltimesteps
      BY <2>4, <2>5, <2>8
    <3>3. totaltimesteps' = totaltimesteps + 1
      BY <1>7, <3>1, ProcessFacts
    <3>4. /\ loopcount' < First + SuperEvery * totaltimesteps'
          /\ First + SuperEvery * (totaltimesteps' - 1) <= loopcount'
      <4>1. (totaltimesteps + 1) - 1 = totaltimesteps
        BY <1>1
      <4>2. loopcount' < First + SuperEvery * (totaltimesteps + 1)
        BY <2>1, <2>5, <3>2
      <4>3. First + SuperEvery * ((totaltimesteps + 1) - 1) <= loopcount'
        BY <2>1, <2>2, <3>2, <4>1
      <4> DEFINE A(x) == loopcount' < First + SuperEvery * x
                 B(x) == First + SuperEvery * (x - 1) <= loopcount'
      <4>4. A(totaltimesteps + 1) /\ B(totaltimesteps + 1)
        BY <4>2, <4>3, Zenon
      <4> HIDE DEF A, B
      <4>5. A(totaltimesteps') /\ B(totaltimesteps')
        BY <3>3, <4>4
      <4> QED BY <4>5 DEF A, B
    <3>5. ASSUME ~IfGroup
          PROVE  /\ totaltimesteps' <= Every * mCount'
                 /\ mCount' > 0 => Every * (mCount' - 1) < totaltimesteps'
                 /\ NumbersRise' =>
                      \A i \in 1 .. Len(handled') :
                        handled'[i] = First + SuperEvery * Every * (mCount' - Len(handled') + i - 1)
      <4>1. /\ totaltimesteps % Every = 0 => totaltimesteps = Every * mCount
            /\ totaltimesteps # Every * mCount => totaltimesteps + 1 <= Every * mCount
            /\ totaltimesteps + 1 <= Every * (mCount + 1)
        BY <1>1, <2>6, <3>5, NextCounted
      <4>2. /\ Counts(totaltimesteps) <=> mCount' = mCount + 1
            /\ UNCHANGED actionVars \/
                 /\ Counts(totaltimesteps) /\ mCount' = mCount + 1
                 /\ \/ /\ Len(handled') = Len(handled) + 1 /\ handled'[Len(handled) + 1] = k
                       /\ \A i \in 1 .. Len(handled) : handled'[i] = handled[i]
                    \/ /\ ~(mCount' >= MinCount /\ File[position].number >= MinTimestepNumber)
                       /\ handled' = handled
        BY <1>7, <3>1, <3>5, ProcessFacts DEF k
      <4>3. CASE UNCHANGED actionVars
        <5>1. mCount' = mCount /\ handled' = handled /\ ~Counts(totaltimesteps)
          BY <1>1, <4>2, <4>3 DEF actionVars
        <5>2. totaltimesteps # Every * mCount
          <6>1. (Every * mCount) % Every = 0
            BY <1>1, Z3
          <6> QED BY <5>1, <6>1 DEF Counts
        <5>3. totaltimesteps + 1 <= Every * mCount
          BY <4>1, <5>2
        <5>4. mCount > 0 => Every * (mCount - 1) < totaltimesteps + 1
          <6>1. ASSUME mCount > 0 PROVE Every * (mCount - 1) < totaltimesteps + 1
            <7>1. Every * (mCount - 1) < totaltimesteps /\ Every * (mCount - 1) \in Int
              BY <1>1, <2>6, <3>5, <6>1
            <7> QED BY <1>1, <7>1
          <6> QED BY <6>1
        <5> QED BY <2>6, <2>7, <3>3, <3>5, <5>1, <5>3, <5>4
      <4>4. CASE ~ UNCHANGED actionVars
        <5>1. /\ totaltimesteps = Every * mCount /\ mCount' = mCount + 1
              /\ \/ /\ Len(handled') = Len(handled) + 1 /\ handled'[Len(handled) + 1] = k
                    /\ \A i \in 1 .. Len(handled) : handled'[i] = handled[i]
                 \/ /\ ~(mCount' >= MinCount /\ File[position].number >= MinTimestepNumber)
                    /\ handled' = handled
          BY <4>1, <4>2, <4>4 DEF Counts
        <5>2. totaltimesteps' <= Every * mCount' /\ (mCount' > 0 => Every * (mCount' - 1) < totaltimesteps')
          <6>1. (mCount + 1) - 1 = mCount /\ Every * mCount < totaltimesteps + 1
            BY <1>1, <5>1
          <6>2. Every * ((mCount + 1) - 1) < totaltimesteps + 1
            BY <6>1
          <6> DEFINE A(t, c) == t <= Every * c /\ (c > 0 => Every * (c - 1) < t)
          <6>3. A(totaltimesteps + 1, mCount + 1)
            BY <4>1, <6>2, Zenon
          <6> HIDE DEF A
          <6>4. A(totaltimesteps', mCount')
            BY <3>3, <5>1, <6>3
          <6> QED BY <6>4 DEF A
        <5>3. ASSUME NumbersRise', NEW i \in 1 .. Len(handled')
              PROVE  handled'[i] = First + SuperEvery * Every * (mCount' - Len(handled') + i - 1)
          <6>1. /\ NumbersRise /\ (loopcount > 0 => number' >= number)
                /\ \A j \in 1 .. Len(handled) :
                     handled[j] = First + SuperEvery * Every * (mCount - Len(handled) + j - 1)
            BY <2>6, <2>7, <3>5, <5>3
          <6>2. Len(handled') = Len(handled) + 1 /\ handled'[Len(handled) + 1] = k
                /\ \A j \in 1 .. Len(handled) : handled'[j] = handled[j]
            <7>1. ASSUME ~(mCount' >= MinCount /\ File[position].number >= MinTimestepNumber),
                         handled' = handled
                  PROVE  FALSE
              <8>1. Len(handled) > 0 /\ handled # <<>> /\ loopcount > 0
                <9>1. Len(handled) > 0
                  BY <1>1, <5>3, <7>1
                <9> QED BY <1>1, <2>1, <9>1, EmptySeq
              <8>2. mCount >= MinCount /\ number >= MinTimestepNumber
                BY <2>1, <6>1, <8>1 DEF HandledInv
              <8> QED BY <1>1, <2>1, <5>1, <6>1, <7>1, <8>1, <8>2
            <7> QED BY <5>1, <7>1
          <6>3. CASE i \in 1 .. Len(handled)
            <7>1. mCount' - Len(handled') + i - 1 = mCount - Len(handled) + i - 1
              BY <1>1, <5>1, <6>2, <6>3
            <7> QED BY <6>1, <6>2, <6>3, <7>1
          <6>4. CASE i = Len(handled) + 1
            <7>1. mCount' - Len(handled') + i - 1 = mCount
              BY <1>1, <5>1, <6>2, <6>4
            <7>2. SuperEvery * Every * mCount = SuperEvery * totaltimesteps
              BY <1>1, <5>1
            <7> QED BY <3>2, <6>2, <6>4, <7>1, <7>2
          <6> QED BY <1>1, <5>3, <6>2, <6>3, <6>4
        <5> QED BY <5>2, <5>3
      <4> QED BY <4>3, <4>4
    <3> QED BY <1>3, <2>1, <3>4, <3>5 DEF ScheduleInv
  <2>9. CASE ~Wanted(k)
    <3>1. UNCHANGED <<totaltimesteps, mCount, handled>>
      BY <1>7, <2>9 DEF UseFrame, runVars, actionVars, k
    <3>2. k # First + SuperEvery * totaltimesteps
      BY <1>1, <2>4, <2>9
    <3>3. loopcount' < First + SuperEvery * totaltimesteps
      BY <2>1, <2>5, <3>2
    <3>4. totaltimesteps > 0 => First + SuperEvery * (totaltimesteps - 1) <= loopcount'
      <4>1. ASSUME totaltimesteps > 0 PROVE First + SuperEvery * (totaltimesteps - 1) <= loopcount'
        <5>1. First + SuperEvery * (totaltimesteps - 1) <= loopcount
          BY <2>3, <4>1
        <5>2. SuperEvery * (totaltimesteps - 1) \in Int
          BY <1>1
        <5> QED BY <1>2, <2>1, <5>1, <5>2 DEF k
      <4> QED BY <4>1
    <3> QED BY <1>3, <2>1, <2>6, <2>7, <3>1, <3>3, <3>4 DEF ScheduleInv
  <2> QED BY <2>8, <2>9
<1> QED BY <1>1, <1>5, <1>6, <1>7, StepKinds

-----------------------------------------------------------------------------
-----------------------------------------------------------------------------
(* Ctrl-C, and what is handed to the actions.                              *)
LEMMA InterruptInit == Init => InterruptInv /\ HandedOver
<1> SUFFICES ASSUME Init PROVE InterruptInv /\ HandedOver
  OBVIOUS
<1>1. /\ accepted = <<>> /\ caught = -1 /\ inPass = FALSE /\ totaltimesteps = 0
  BY DEF Init
<1>2. loopcount = 0
  BY <1>1 DEF loopcount
<1>3. InterruptInv
  <2>1. caught \in -1 .. loopcount
    BY <1>1, <1>2
  <2> QED BY <1>1, <2>1 DEF InterruptInv
<1>4. WantedFrames(0) = {}
  BY DEF WantedFrames
<1>5. HandedOver
  BY <1>1, <1>2, <1>4, FS_EmptySet DEF HandedOver
<1> QED BY <1>3, <1>5

LEMMA InterruptNext == TypeInv /\ InterruptInv /\ [Next]_vars => InterruptInv'
<1> SUFFICES ASSUME TypeInv, InterruptInv, [Next]_vars PROVE InterruptInv'
  OBVIOUS
<1>1. /\ inPass \in BOOLEAN /\ caught \in -1 .. loopcount /\ loopcount \in Nat
      /\ caught # -1 => ~keepRunning /\ loopcount <= caught + 1
      /\ caught # -1 /\ inPass => loopcount = caught
  BY LenProperties DEF TypeInv, LoopTypes, InterruptInv, loopcount
<1>2. CASE Interrupt
  <2>1. inPass' = inPass /\ ~keepRunning' /\ caught' = loopcount /\ accepted' = accepted
    BY <1>2 DEF Interrupt, loopVars
  <2>2. loopcount' = loopcount
    BY <2>1 DEF loopcount
  <2> QED BY <1>1, <2>1, <2>2 DEF InterruptInv
<1>3. CASE BeginPass
  <2>1. inPass' /\ inPass' \in BOOLEAN /\ keepRunning /\ caught' = caught /\ accepted' = accepted
    BY <1>3 DEF BeginPass, loopVars
  <2>2. loopcount' = loopcount
    BY <2>1 DEF loopcount
  <2> QED BY <1>1, <2>1, <2>2 DEF InterruptInv
<1>4. CASE Leave \/ FinalActions \/ UNCHANGED vars
  <2>1. UNCHANGED <<inPass, caught, keepRunning, accepted>>
    BY <1>4 DEF Leave, FinalActions, vars, passVars, loopVars
  <2>2. loopcount' = loopcount
    BY <2>1 DEF loopcount
  <2> QED BY <1>1, <2>1, <2>2 DEF InterruptInv
<1>5. CASE \/ ReachMaxTimestep \/ OpenNextFile \/ FailToOpen \/ EndOfDumpFiles
           \/ SkipFrame \/ ThrowException
  <2>1. inPass' = FALSE /\ UNCHANGED <<caught, keepRunning, accepted>>
    BY <1>5 DEF ReachMaxTimestep, OpenNextFile, FailToOpen, EndOfDumpFiles, SkipFrame,
                ThrowException, Accepts, Pass, RestOfPass
  <2>2. loopcount' = loopcount
    BY <2>1 DEF loopcount
  <2> QED BY <1>1, <2>1, <2>2 DEF InterruptInv
<1>6. CASE UseFrame
  <2>1. inPass /\ inPass' = FALSE /\ caught' = caught
    BY <1>6 DEF UseFrame, Accepts, Pass, RestOfPass
  <2>2. loopcount' = loopcount + 1
    BY <1>6, UseFrameFacts
  <2>3. ~keepRunning => ~keepRunning'
    <3>1. CASE Wanted(loopcount + 1)
      <4>1. \E size \in GroupSizes : Process(size, File[position])
        BY <1>6, <3>1 DEF UseFrame
      <4> QED BY <4>1 DEF Process
    <3>2. CASE ~Wanted(loopcount + 1)
      BY <1>6, <3>2 DEF UseFrame
    <3> QED BY <3>1, <3>2
  <2>4. caught' \in -1 .. loopcount'
    BY <1>1, <2>1, <2>2
  <2>5. caught' # -1 => ~keepRunning' /\ loopcount' <= caught' + 1
    BY <1>1, <2>1, <2>2, <2>3
  <2> QED BY <2>1, <2>4, <2>5 DEF InterruptInv
<1> QED BY <1>2, <1>3, <1>4, <1>5, <1>6 DEF Next, Program

(* One more frame.                                                         *)
LEMMA WantedFramesNext ==
  ASSUME NEW n \in Nat
  PROVE  /\ Wanted(n + 1) => Cardinality(WantedFrames(n + 1)) = Cardinality(WantedFrames(n)) + 1
         /\ ~Wanted(n + 1) => WantedFrames(n + 1) = WantedFrames(n)
<1>1. 1 .. n + 1 = 1 .. n \cup {n + 1} /\ n + 1 \notin 1 .. n
  OBVIOUS
<1>2. IsFiniteSet(WantedFrames(n))
  <2>1. IsFiniteSet(1 .. n) /\ WantedFrames(n) \subseteq 1 .. n
    BY FS_Interval DEF WantedFrames
  <2> QED BY <2>1, FS_Subset
<1>3. n + 1 \notin WantedFrames(n)
  BY <1>1 DEF WantedFrames
<1>4. ASSUME Wanted(n + 1)
      PROVE  Cardinality(WantedFrames(n + 1)) = Cardinality(WantedFrames(n)) + 1
  <2>1. WantedFrames(n + 1) = WantedFrames(n) \cup {n + 1}
    BY <1>1, <1>4, Zenon DEF WantedFrames
  <2> QED BY <1>2, <1>3, <2>1, FS_AddElement
<1>5. ASSUME ~Wanted(n + 1)
      PROVE  WantedFrames(n + 1) = WantedFrames(n)
  BY <1>1, <1>5, Zenon DEF WantedFrames
<1> QED BY <1>4, <1>5

LEMMA HandedNext == TypeInv /\ HandedOver /\ [Next]_vars => HandedOver'
<1> SUFFICES ASSUME TypeInv, HandedOver, [Next]_vars PROVE HandedOver'
  OBVIOUS
<1>1. ASSUME UNCHANGED <<input, accepted, runVars>> PROVE HandedOver'
  <2>1. WantedFrames(loopcount)' = WantedFrames(loopcount) /\ totaltimesteps' = totaltimesteps
    BY <1>1 DEF WantedFrames, Wanted, MinTimestep, SuperEvery, Timesteps, input, loopcount, runVars
  <2> QED BY <2>1 DEF HandedOver
<1>2. CASE Quiet
  BY <1>1, <1>2 DEF Quiet
<1>3. CASE SkipFrame \/ ThrowException
  <2>1. UNCHANGED <<input, accepted, runVars>>
    BY <1>3, OtherFrameFacts
  <2> QED BY <1>1, <2>1
<1>4. CASE UseFrame
  <2>1. UNCHANGED input /\ loopcount \in Nat /\ loopcount' = loopcount + 1
    BY <1>4, UseFrameFacts
  <2>2. WantedFrames(loopcount)' = WantedFrames(loopcount + 1)
    BY <2>1 DEF WantedFrames, Wanted, MinTimestep, SuperEvery, Timesteps, input
  <2>3. CASE Wanted(loopcount + 1)
    <3>1. \E size \in GroupSizes : Process(size, File[position])
      BY <1>4, <2>3 DEF UseFrame
    <3>2. totaltimesteps' = totaltimesteps + 1
      BY <3>1 DEF Process
    <3> QED BY <2>1, <2>2, <2>3, <3>2, WantedFramesNext DEF HandedOver
  <2>4. CASE ~Wanted(loopcount + 1)
    <3>1. totaltimesteps' = totaltimesteps
      BY <1>4, <2>4 DEF UseFrame, runVars
    <3> QED BY <2>1, <2>2, <2>4, <3>1, WantedFramesNext DEF HandedOver
  <2> QED BY <2>3, <2>4
<1>5. InputInv /\ LoopTypes
  BY DEF TypeInv
<1> QED BY <1>2, <1>3, <1>4, <1>5, StepKinds

-----------------------------------------------------------------------------
LEMMA InitIInv == Init => IInv
BY TypesInit, OrderInit, SizesInit, UnwrapInit, ScheduleInit, HandledInit, InterruptInit DEF IInv, TypeInv

LEMMA NextIInv == IInv /\ [Next]_vars => IInv'
BY TypesNext, OrderNext, SizesNext, UnwrapNext, ScheduleNext, HandledNext, InterruptNext, HandedNext
   DEF IInv, TypeInv

(* The inductive invariant: types, the order of the frames, their sizes,   *)
(* the unwrapped path, the schedule of the action, Ctrl-C.                 *)
THEOREM Invariance == Spec => []IInv
<1>1. Init => IInv
  BY InitIInv
<1>2. IInv /\ [Next]_vars => IInv'
  BY NextIInv
<1> QED BY <1>1, <1>2, PTL DEF Spec

(* The frames counted are those read, none lost or counted twice when a    *)
(* file is changed, whatever the files, the settings and the interrupts.   *)
THEOREM EachFrameInOrder == Spec => []FramesInOrder
<1>1. IInv => FramesInOrder
  <2> SUFFICES ASSUME IInv PROVE FramesInOrder
    OBVIOUS
  <2>1. TypeOK
    BY DEF IInv, LoopTypes, RunTypes, InterruptInv, TypeOK
  <2>2. CountedFrames = CountedOf(FramesRead, FrameNumbersMustIncrease)
    BY DEF CountedFrames, CountedOf
  <2>3. phase # "exception" =>
          /\ loopcount = Cardinality(CountedFrames)
          /\ \A i \in CountedFrames :
               accepted[Cardinality({j \in CountedFrames : j <= i})].number = FramesRead[i].number
    BY <2>2 DEF IInv, OrderInv, OrderOf, loopcount
  <2> QED BY <2>1, <2>3 DEF FramesInOrder
<1> QED BY <1>1, Invariance, PTL

(* As long as no frame read was left out and no atom moved half a cell or  *)
(* more from one frame to the next, the unwrapped coordinate follows the   *)
(* path of the atom, ...                                                   *)
THEOREM PathIsFollowed == Spec => [](Followable => UnwrapFollowsPath)
<1>1. IInv => (Followable => UnwrapFollowsPath)
  BY DEF IInv, UnwrapInv, UnwrapFollowsPath, Followable
<1> QED BY <1>1, Invariance, PTL

(* ... and the velocity is the displacement from frame to frame.           *)
THEOREM VelocitiesAreDisplacements == Spec => [](Followable => VelocityIsDisplacement)
<1>1. IInv => (Followable => VelocityIsDisplacement)
  <2> SUFFICES ASSUME IInv, Followable, DoCalculateVelocities, DoIntelligentUnwrap,
                      NEW i \in 2 .. loopcount
               PROVE  accepted[i].vx = path[accepted[i].number] - path[accepted[i - 1].number]
    BY DEF VelocityIsDisplacement
  <2>1. i \in 1 .. loopcount /\ i - 1 \in 1 .. loopcount
    BY LenProperties DEF IInv, LoopTypes, loopcount
  <2>2. accepted[i].vx = accepted[i].xu - accepted[i - 1].xu /\ UnwrapFollowsPath
    BY DEF IInv, UnwrapInv, Followable
  <2>3. accepted[i].xu - accepted[i - 1].xu = path[accepted[i].number] - path[accepted[i - 1].number]
    BY <2>1, <2>2 DEF UnwrapFollowsPath
  <2> QED BY <2>2, <2>3
<1> QED BY <1>1, Invariance, PTL

(* Only files whose frames differ in their numbers of atoms make the       *)
(* program give up.                                                        *)
THEOREM GivesUpOnlyWhenSizeChanges == Spec => []ThrowsOnlyWhenSizeChanges
<1>1. IInv => ThrowsOnlyWhenSizeChanges
  BY DEF IInv, SizeInv
<1> QED BY <1>1, Invariance, PTL

(* The frames that an action handles are SuperEvery * Every apart, from    *)
(* the first that is wanted on.                                            *)
THEOREM HandledEvenly == Spec => []EvenlySpaced
<1>1. IInv => EvenlySpaced
  <2> SUFFICES ASSUME IInv, Timesteps = {}, ~IfGroup, NumbersRise
               PROVE  /\ \A i \in 2 .. Len(handled) : handled[i] - handled[i - 1] = SuperEvery * Every
                      /\ handled # <<>> /\ MinCount <= 1 /\ MinTimestepNumber <= 0 =>
                           ~ \E k \in 1 .. handled[1] - 1 : Wanted(k)
    BY DEF EvenlySpaced
  <2>1. /\ MinTimestep \in Nat /\ SuperEvery \in Nat \ {0} /\ Every \in Nat \ {0} /\ mCount \in Nat
        /\ handled \in Seq(Nat) /\ Len(handled) \in Nat /\ (handled # <<>> => Len(handled) >= 1)
    BY SettingTypes, LenProperties, EmptySeq DEF IInv, RunTypes
  <2>2. First \in Nat \ {0} /\ \A k \in Nat \ {0} : Regular(k, MinTimestep, SuperEvery) => First <= k
    BY <2>1, FirstIs DEF First
  <2>3. \A i \in 1 .. Len(handled) :
          handled[i] = First + SuperEvery * Every * (mCount - Len(handled) + i - 1)
    BY DEF IInv, ScheduleInv
  <2> HIDE DEF First
  <2>4. ASSUME NEW i \in 2 .. Len(handled)
        PROVE  handled[i] - handled[i - 1] = SuperEvery * Every
    <3> DEFINE a == SuperEvery * Every
               m == mCount - Len(handled) + i - 2
    <3>1. a \in Int /\ m \in Int /\ i \in 1 .. Len(handled) /\ i - 1 \in 1 .. Len(handled)
          /\ mCount - Len(handled) + i - 1 = m + 1 /\ mCount - Len(handled) + (i - 1) - 1 = m
      BY <2>1
    <3>2. handled[i] = First + a * (m + 1) /\ handled[i - 1] = First + a * m
      <4> HIDE DEF m
      <4> QED BY <2>3, <3>1
    <3> HIDE DEF a, m
    <3>3. a * (m + 1) = a * m + a /\ a * m \in Int
      BY <3>1
    <3> QED BY <2>2, <3>1, <3>2, <3>3 DEF a
  <2>5. ASSUME handled # <<>>, MinCount <= 1, MinTimestepNumber <= 0,
               NEW k \in 1 .. handled[1] - 1, Wanted(k)
        PROVE  FALSE
    <3>1. Len(handled) = mCount
      BY <2>5 DEF IInv, HandledInv
    <3>2. 1 \in 1 .. Len(handled) /\ mCount - Len(handled) + 1 - 1 = 0
      BY <2>1, <2>5, <3>1
    <3>3. SuperEvery * Every * 0 = 0
      BY <2>1
    <3>4. handled[1] = First
      BY <2>2, <2>3, <3>2, <3>3
    <3>5. First <= k
      BY <2>2, <2>5, <3>4 DEF Wanted, Regular
    <3> QED BY <2>2, <3>4, <3>5
  <2> QED BY <2>4, <2>5
<1> QED BY <1>1, Invariance, PTL

(* Whenever Ctrl-C comes, the frame under way is the last to be counted,   *)
(* and every frame counted that is wanted goes to the actions.             *)
THEOREM FrameUnderWayIsFinished == Spec => []FinishesFrameUnderWay
<1>1. IInv => FinishesFrameUnderWay
  BY DEF IInv, InterruptInv, HandedOver, WantedFrames, FinishesFrameUnderWay
<1> QED BY <1>1, Invariance, PTL
=============================================================================
