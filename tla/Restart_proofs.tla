--------------------------- MODULE Restart_proofs ---------------------------
(***************************************************************************)
(* The chain of runs, for all lengths of the window, of the trajectory and *)
(* of the chain, all intervals of correlation and of printing and any      *)
(* number of restart files.                                                *)
(***************************************************************************)
EXTENDS Restart, TTCF_proofs

(* The counters are those of the blocks bs, ...                            *)
CountsOf(out, bs) ==
  \A dt \in Lags, o \in Frames : out[dt][o] = CountOfBlocks(bs, o, dt)

(* ... or these and the origins from first to last, at all lags or at      *)
(* those whose partner frame is at most m.                                 *)
CountsThrough(out, bs, first, last) ==
  \A dt \in Lags, o \in Frames :
    out[dt][o] = CountOfBlocks(bs, o, dt) + IF o >= first /\ o <= last THEN 1 ELSE 0
CountsAsFarAs(out, bs, first, last, m) ==
  \A dt \in Lags, o \in Frames :
    out[dt][o] = CountOfBlocks(bs, o, dt) + IF o >= first /\ o <= last /\ o + dt <= m THEN 1 ELSE 0

(* The blocks follow one another, up to frame n.                           *)
Apart(bs, n) ==
  /\ \A k, l \in 1 .. Len(bs) : k < l => bs[k].upto < bs[l].from
  /\ \A k \in 1 .. Len(bs) : bs[k].upto <= n

(* What each restart file holds: a number that nothing counted in it is    *)
(* beyond, unless it was written too early.                                *)
FilesInv ==
  \A f \in RestartFiles :
    /\ CountsOf(files[f].counts, files[f].blocks)
    /\ ~rewound => Apart(files[f].blocks, files[f].number)

Reading == phase \in {"running", "printing"}

(* Where the program is.                                                   *)
PlaceInv ==
  /\ mCount <= number
  /\ phase = "off" => mCount = 0
  /\ mCount = 0 => inData1 = <<>> /\ outData = NoCounts /\ blocks = <<>> /\ minTimestepNumber = 1
  /\ phase = "final" => UseAllTimeOrigins /\ finalLag \in 0 .. MaxTime - 2
  /\ phase \in {"printing", "finalPrint"} /\ ~rewound => number + 1 >= minTimestepNumber

(* The last frame at which a correlation was due.                          *)
Settled == IF Reading THEN number - (mCount % CorrelationFrequency) ELSE number

(* Before the run has stored a frame the counters are those it has read.   *)
BeforeInv ==
  inData1 = <<>> =>
    /\ CountsOf(outData, blocks)
    /\ ~rewound => Apart(blocks, minTimestepNumber - 1)

(* The stretch of this run, which is the last of the blocks.               *)
OwnBlock(first, upto, cutOff) == [from |-> first, upto |-> upto, cutOff |-> cutOff]

(* Then they are those, in base, and the origins of its own stretch, for   *)
(* which the window reaches back as far as is needed.                      *)
StretchInv ==
  inData1 # <<>> =>
    \E base \in Seq(Blocks), first \in Frames, cutOff \in BOOLEAN :
      /\ first >= minTimestepNumber
      /\ Consecutive(inData1, number)
      /\ ReachesBack(Len(inData1), number, first, Settled)
      /\ blocks = Append(base, OwnBlock(first, IF Settled >= first THEN Settled ELSE 0, cutOff))
      /\ Reading => ~cutOff /\ CountsThrough(outData, base, first, Settled - MaxTime + 1)
      /\ phase = "final" => CountsAsFarAs(outData, base, first, number - finalLag - 1, number)
      /\ phase = "finalPrint" => CountsOf(outData, blocks)
      /\ ~rewound => Apart(base, minTimestepNumber - 1)

IInv == TypeOK /\ FilesInv /\ PlaceInv /\ BeforeInv /\ StretchInv
-----------------------------------------------------------------------------
(* Counting blocks.                                                        *)
LEMMA NoBlocks == \A o, dt : CountOfBlocks(<<>>, o, dt) = 0
<1> SUFFICES ASSUME NEW o, NEW dt PROVE CountOfBlocks(<<>>, o, dt) = 0
  OBVIOUS
<1>1. {k \in DOMAIN <<>> : Covers(<<>>[k], o, dt)} = {}
  OBVIOUS
<1> QED BY <1>1, FS_EmptySet DEF CountOfBlocks

LEMMA BlockCount ==
  ASSUME NEW bs \in Seq(Blocks), NEW o, NEW dt
  PROVE  LET K == {k \in 1 .. Len(bs) : Covers(bs[k], o, dt)}
         IN /\ IsFiniteSet(K) /\ CountOfBlocks(bs, o, dt) = Cardinality(K)
            /\ CountOfBlocks(bs, o, dt) \in Nat
<1> DEFINE K == {k \in 1 .. Len(bs) : Covers(bs[k], o, dt)}
<1>1. DOMAIN bs = 1 .. Len(bs) /\ Len(bs) \in Nat
  OBVIOUS
<1>2. CountOfBlocks(bs, o, dt) = Cardinality(K)
  BY <1>1 DEF CountOfBlocks
<1>3. K \in SUBSET (1 .. Len(bs)) /\ IsFiniteSet(1 .. Len(bs))
  BY <1>1, FS_Interval
<1> HIDE DEF K
<1>4. IsFiniteSet(K)
  BY <1>3, FS_Subset
<1> QED BY <1>2, <1>4, FS_CardinalityType DEF K

LEMMA CountAppend ==
  ASSUME NEW bs \in Seq(Blocks), NEW b \in Blocks, NEW o, NEW dt
  PROVE  CountOfBlocks(Append(bs, b), o, dt) = CountOfBlocks(bs, o, dt) + IF Covers(b, o, dt) THEN 1 ELSE 0
<1> DEFINE more == Append(bs, b)
           n == Len(bs)
           K == {k \in 1 .. Len(bs) : Covers(bs[k], o, dt)}
           M == {k \in 1 .. Len(more) : Covers(more[k], o, dt)}
<1>1. /\ n \in Nat /\ more \in Seq(Blocks) /\ Len(more) = n + 1 /\ more[n + 1] = b
      /\ \A k \in 1 .. n : more[k] = bs[k]
  OBVIOUS
<1>2. CountOfBlocks(bs, o, dt) = Cardinality(K) /\ IsFiniteSet(K) /\ Cardinality(K) \in Nat
  BY BlockCount
<1>3. CountOfBlocks(more, o, dt) = Cardinality(M)
  <2> HIDE DEF more
  <2>1. DOMAIN more = 1 .. Len(more)
    BY <1>1
  <2> QED BY <2>1 DEF CountOfBlocks
<1> HIDE DEF more
<1>4. \A k \in 1 .. n + 1 : k \in 1 .. n \/ k = n + 1
  BY <1>1
<1>5. CASE Covers(b, o, dt)
  <2>1. M = K \cup {n + 1} /\ n + 1 \notin K
    BY <1>1, <1>4, <1>5
  <2> HIDE DEF M, K
  <2>2. Cardinality(M) = Cardinality(K) + 1
    BY <1>2, <2>1, FS_AddElement
  <2> QED BY <1>2, <1>3, <1>5, <2>2 DEF more
<1>6. CASE ~Covers(b, o, dt)
  <2>1. M = K
    BY <1>1, <1>4, <1>6
  <2> HIDE DEF M, K
  <2> QED BY <1>2, <1>3, <1>6, <2>1 DEF more
<1> QED BY <1>5, <1>6

(* Blocks that are apart count a pair of frames at most once, and none     *)
(* that begins after the last of them.                                     *)
LEMMA ApartCounts ==
  ASSUME NEW bs \in Seq(Blocks), NEW n \in Int, Apart(bs, n), NEW o \in Frames, NEW dt \in Lags
  PROVE  CountOfBlocks(bs, o, dt) <= 1 /\ (o > n => CountOfBlocks(bs, o, dt) = 0)
<1> DEFINE K == {k \in 1 .. Len(bs) : Covers(bs[k], o, dt)}
<1>1. CountOfBlocks(bs, o, dt) = Cardinality(K) /\ CountOfBlocks(bs, o, dt) \in Nat
  BY BlockCount
<1>2. ASSUME NEW k \in K PROVE k \in 1 .. Len(bs) /\ bs[k].from <= o /\ o <= bs[k].upto
                               /\ bs[k].from \in Nat /\ bs[k].upto \in Nat
  <2>1. k \in 1 .. Len(bs) /\ Covers(bs[k], o, dt)
    OBVIOUS
  <2>2. bs[k] \in Blocks
    BY <2>1
  <2>3. bs[k].from \in Nat /\ bs[k].upto \in Nat
    BY <2>2, NumFramesAssumption DEF Blocks, Frames
  <2>4. o \in Nat /\ dt \in Nat /\ MaxTime - 1 \in Nat
    BY MaxTimeAssumption DEF Frames, Lags
  <2> QED BY <2>1, <2>3, <2>4 DEF Covers
<1>3. \A k, l \in K : k = l
  <2> SUFFICES ASSUME NEW k \in K, NEW l \in K, k < l PROVE FALSE
    OBVIOUS
  <2>1. bs[k].upto < bs[l].from
    BY <1>2 DEF Apart
  <2> QED BY <1>2, <2>1 DEF Frames
<1>4. o > n => K = {}
  <2> SUFFICES ASSUME o > n, NEW k \in K PROVE FALSE
    OBVIOUS
  <2>1. bs[k].upto <= n
    BY <1>2 DEF Apart
  <2> QED BY <1>2, <2>1 DEF Frames
<1> HIDE DEF K
<1>5. K = {} \/ \E k : K = {k}
  <2>1. CASE K # {}
    <3>1. PICK k \in K : TRUE
      BY <2>1
    <3>2. K = {k}
      BY <1>3, <3>1
    <3> QED BY <3>2
  <2> QED BY <2>1
<1>6. Cardinality({}) = 0 /\ \A k : Cardinality({k}) = 1
  BY FS_EmptySet, FS_Singleton
<1>7. Cardinality(K) = 0 \/ Cardinality(K) = 1
  BY <1>5, <1>6
<1>8. K = {} => Cardinality(K) = 0
  BY <1>6
<1> DEFINE c == CountOfBlocks(bs, o, dt)
<1> HIDE DEF c
<1>9. c = Cardinality(K)
  BY <1>1 DEF c
<1>10. c <= 1 /\ (o > n => c = 0)
  BY <1>4, <1>7, <1>8, <1>9
<1> QED BY <1>10 DEF c

-----------------------------------------------------------------------------
(* What a correlation adds does not depend on what was counted before.     *)
LEMMA AddsAlike ==
  ASSUME NEW a \in Counts, NEW b \in Counts, NEW data, NEW n, NEW j, NEW dt \in Lags, NEW o \in Frames
  PROVE  CorrelatedOut(data, a, n, j)[dt][o] - a[dt][o] = CorrelatedOut(data, b, n, j)[dt][o] - b[dt][o]
<1>1. a[dt][o] \in Nat /\ b[dt][o] \in Nat
  BY DEF Counts
<1>2. CASE TooShort(Len(data), j)
  BY <1>1, <1>2 DEF CorrelatedOut
<1>3. CASE ~TooShort(Len(data), j)
  <2>1. \A out : CorrelatedOut(data, out, n, j)[dt][o] =
                   out[dt][o] + IF Contributes(data, n, j, dt, o) THEN 1 ELSE 0
    BY <1>3 DEF CorrelatedOut
  <2> QED BY <1>1, <2>1
<1> QED BY <1>2, <1>3

LEMMA NothingAdded ==
  ASSUME NEW out \in Counts, NEW data \in Seq(Frames), NEW n, NEW j, n = 0 \/ data = <<>>,
         NEW dt \in Lags, NEW o \in Frames
  PROVE  CorrelatedOut(data, out, n, j)[dt][o] = out[dt][o]
<1>1. out[dt][o] \in Nat
  BY DEF Counts
<1>2. OriginIndices(Len(data), n, j) = {}
  BY DEF OriginIndices
<1>3. ~Contributes(data, n, j, dt, o)
  BY <1>2 DEF Contributes
<1> QED BY <1>1, <1>3 DEF CorrelatedOut

(* A scheduled correlation, and a turn of the final loop, on top of what   *)
(* the blocks count.                                                       *)
LEMMA ScheduledMore ==
  ASSUME NEW m \in Nat, NEW n \in Nat \ {0}, NEW first \in Nat \ {0},
         NEW data \in Seq(Frames), Consecutive(data, m),
         ReachesBack(Len(data), m, first, m - n),
         NEW out \in Counts, NEW bs \in Seq(Blocks),
         CountsThrough(out, bs, first, m - n - MaxTime + 1)
  PROVE  CountsThrough(CorrelatedOut(data, out, n, -1), bs, first, m - MaxTime + 1)
<1> DEFINE own == [dt \in Lags |-> [o \in Frames |->
                     IF o >= first /\ o <= m - n - MaxTime + 1 THEN 1 ELSE 0]]
<1>1. own \in Counts /\ CountedThrough(own, first, m - n - MaxTime + 1)
  BY DEF Counts, CountedThrough
<1> HIDE DEF own
<1>2. CountedThrough(CorrelatedOut(data, own, n, -1), first, m - MaxTime + 1)
  BY <1>1, ScheduledCounts DEF Counts
<1> SUFFICES ASSUME NEW dt \in Lags, NEW o \in Frames
             PROVE  CorrelatedOut(data, out, n, -1)[dt][o] =
                      CountOfBlocks(bs, o, dt) + IF o >= first /\ o <= m - MaxTime + 1 THEN 1 ELSE 0
  BY DEF CountsThrough
<1> DEFINE was == IF o >= first /\ o <= m - n - MaxTime + 1 THEN 1 ELSE 0
           is == IF o >= first /\ o <= m - MaxTime + 1 THEN 1 ELSE 0
           new == CorrelatedOut(data, out, n, -1)[dt][o]
           c == CountOfBlocks(bs, o, dt)
<1>3. own[dt][o] = was /\ CorrelatedOut(data, own, n, -1)[dt][o] = is
  BY <1>1, <1>2 DEF CountedThrough
<1>4. out[dt][o] = c + was
  BY DEF CountsThrough
<1>5. new - out[dt][o] = is - was
  BY <1>1, <1>3, AddsAlike
<1>6. c \in Nat /\ was \in Nat /\ is \in Nat
  BY BlockCount
<1>7. new \in Nat
  <2> DEFINE all == CorrelatedOut(data, out, n, -1)
  <2>1. all \in [Lags -> [Frames -> Nat]]
    BY CountsTyped DEF Counts
  <2> HIDE DEF all
  <2>2. all[dt][o] \in Nat
    BY <2>1
  <2> QED BY <2>2 DEF all
<1> HIDE DEF was, is, new, c
<1>8. new = c + is
  BY <1>4, <1>5, <1>6, <1>7
<1> QED BY <1>8 DEF new, c, is

LEMMA FinalMore ==
  ASSUME NEW m \in Nat, NEW j \in 0 .. MaxTime - 2, NEW first \in Nat \ {0},
         NEW data \in Seq(Frames), Consecutive(data, m),
         ReachesBack(Len(data), m, first, m),
         NEW out \in Counts, NEW bs \in Seq(Blocks),
         CountsAsFarAs(out, bs, first, m - j - 1, m), Item = 0
  PROVE  CountsAsFarAs(CorrelatedOut(data, out, 1, j), bs, first, m - j, m)
<1> DEFINE own == [dt \in Lags |-> [o \in Frames |->
                     IF o >= first /\ o <= m - j - 1 /\ o + dt <= m THEN 1 ELSE 0]]
<1>1. own \in Counts /\ CountedAsFarAs(own, first, m - j - 1, m)
  BY DEF Counts, CountedAsFarAs
<1> HIDE DEF own
<1>2. CountedAsFarAs(CorrelatedOut(data, own, 1, j), first, m - j, m)
  BY <1>1, FinalCounts DEF Counts
<1> SUFFICES ASSUME NEW dt \in Lags, NEW o \in Frames
             PROVE  CorrelatedOut(data, out, 1, j)[dt][o] =
                      CountOfBlocks(bs, o, dt) + IF o >= first /\ o <= m - j /\ o + dt <= m THEN 1 ELSE 0
  BY DEF CountsAsFarAs
<1> DEFINE was == IF o >= first /\ o <= m - j - 1 /\ o + dt <= m THEN 1 ELSE 0
           is == IF o >= first /\ o <= m - j /\ o + dt <= m THEN 1 ELSE 0
           new == CorrelatedOut(data, out, 1, j)[dt][o]
           c == CountOfBlocks(bs, o, dt)
<1>3. own[dt][o] = was /\ CorrelatedOut(data, own, 1, j)[dt][o] = is
  BY <1>1, <1>2 DEF CountedAsFarAs
<1>4. out[dt][o] = c + was
  BY DEF CountsAsFarAs
<1>5. new - out[dt][o] = is - was
  BY <1>1, <1>3, AddsAlike
<1>6. c \in Nat /\ was \in Nat /\ is \in Nat
  BY BlockCount
<1>7. new \in Nat
  <2> DEFINE all == CorrelatedOut(data, out, 1, j)
  <2>1. all \in [Lags -> [Frames -> Nat]]
    BY CountsTyped DEF Counts
  <2> HIDE DEF all
  <2>2. all[dt][o] \in Nat
    BY <2>1
  <2> QED BY <2>2 DEF all
<1> HIDE DEF was, is, new, c
<1>8. new = c + is
  BY <1>4, <1>5, <1>6, <1>7
<1> QED BY <1>8 DEF new, c, is

-----------------------------------------------------------------------------
(* The last block of a sequence is changed, the others are not.            *)
LEMMA LastChanged ==
  ASSUME NEW base \in Seq(Blocks), NEW b \in Blocks, NEW c \in Blocks, NEW bs,
         bs = [Append(base, b) EXCEPT ![Len(Append(base, b))] = c]
  PROVE  bs = Append(base, c)
<1> DEFINE n == Len(base)
           x == Append(base, b)
           y == Append(base, c)
<1>1. n \in Nat /\ x \in Seq(Blocks) /\ y \in Seq(Blocks) /\ Len(x) = n + 1 /\ Len(y) = n + 1
  OBVIOUS
<1>2. y[n + 1] = c /\ \A i \in 1 .. n : y[i] = x[i]
  OBVIOUS
<1> HIDE DEF x, y
<1>3. bs \in Seq(Blocks) /\ Len(bs) = n + 1 /\ \A i \in 1 .. n + 1 : bs[i] = IF i = n + 1 THEN c ELSE x[i]
  <2>1. n + 1 \in 1 .. Len(x) /\ bs = [x EXCEPT ![n + 1] = c]
    BY <1>1 DEF x
  <2> QED BY <1>1, <2>1, ExceptSeq
<1>4. \A i \in 1 .. n + 1 : i \in 1 .. n \/ i = n + 1
  BY <1>1
<1>5. \A i \in 1 .. n + 1 : bs[i] = y[i]
  <2> SUFFICES ASSUME NEW i \in 1 .. n + 1 PROVE bs[i] = y[i]
    OBVIOUS
  <2>1. CASE i = n + 1
    BY <1>2, <1>3, <2>1
  <2>2. CASE i # n + 1
    BY <1>2, <1>3, <1>4, <2>2
  <2> QED BY <2>1, <2>2
<1> QED BY <1>1, <1>3, <1>5, SeqEqual DEF y

LEMMA LastUptoOf ==
  ASSUME NEW base \in Seq(Blocks), NEW first \in Frames, NEW u \in 0 .. NumFrames,
         NEW v \in 0 .. NumFrames, NEW cutOff \in BOOLEAN
  PROVE  LastUpto(Append(base, OwnBlock(first, u, cutOff)), v) = Append(base, OwnBlock(first, v, cutOff))
<1> DEFINE b == OwnBlock(first, u, cutOff)
           c == OwnBlock(first, v, cutOff)
           x == Append(base, b)
<1>1. b \in Blocks /\ c \in Blocks /\ [b EXCEPT !.upto = v] = c
  BY DEF OwnBlock, Blocks
<1>2. x[Len(x)] = b
  <2> HIDE DEF b
  <2> QED BY <1>1, AppendProperties
<1> HIDE DEF b, c
<1>3. LastUpto(x, v) = [x EXCEPT ![Len(x)] = c]
  <2> HIDE DEF x
  <2>1. LastUpto(x, v) = [x EXCEPT ![Len(x)] = [x[Len(x)] EXCEPT !.upto = v]]
    BY DEF LastUpto
  <2> QED BY <1>1, <1>2, <2>1
<1>4. LastUpto(x, v) = Append(base, c)
  BY <1>1, <1>3, LastChanged
<1> QED BY <1>4 DEF b, c

CutOffLast(bs) == [bs EXCEPT ![Len(bs)].cutOff = TRUE]

LEMMA LastCutOffOf ==
  ASSUME NEW base \in Seq(Blocks), NEW first \in Frames, NEW u \in 0 .. NumFrames,
         NEW cutOff \in BOOLEAN
  PROVE  CutOffLast(Append(base, OwnBlock(first, u, cutOff))) = Append(base, OwnBlock(first, u, TRUE))
<1> DEFINE b == OwnBlock(first, u, cutOff)
           c == OwnBlock(first, u, TRUE)
           x == Append(base, b)
<1>1. b \in Blocks /\ c \in Blocks /\ [b EXCEPT !.cutOff = TRUE] = c
  <2>1. b \in Blocks /\ c \in Blocks
    BY DEF OwnBlock, Blocks
  <2>2. \A t, r : [OwnBlock(first, u, t) EXCEPT !.cutOff = r] = OwnBlock(first, u, r)
    BY DEF OwnBlock
  <2>3. [b EXCEPT !.cutOff = TRUE] = c
    BY <2>2, Zenon
  <2> QED BY <2>1, <2>3
<1>2. x[Len(x)] = b
  <2> HIDE DEF b
  <2> QED BY <1>1, AppendProperties
<1> HIDE DEF b, c
<1>3. CutOffLast(x) = [x EXCEPT ![Len(x)] = c]
  <2> HIDE DEF x
  <2>1. CutOffLast(x) = [x EXCEPT ![Len(x)] = [x[Len(x)] EXCEPT !.cutOff = TRUE]]
    BY DEF CutOffLast
  <2> QED BY <1>1, <1>2, <2>1
<1>4. CutOffLast(x) = Append(base, c)
  BY <1>1, <1>3, LastChanged
<1> QED BY <1>4 DEF b, c

-----------------------------------------------------------------------------
FileTypes == [complete : BOOLEAN, number : 0 .. NumFrames, counts : Counts, blocks : Seq(Blocks)]

(* What is put into a file.                                                *)
LEMMA FilesNext ==
  ASSUME files \in [RestartFiles -> FileTypes], FilesInv, NEW w, NEW v \in FileTypes,
         CountsOf(v.counts, v.blocks),
         ~rewound' => ~rewound /\ Apart(v.blocks, v.number),
         files' = [files EXCEPT ![w] = v]
  PROVE  files' \in [RestartFiles -> FileTypes] /\ FilesInv'
<1>1. files' \in [RestartFiles -> FileTypes]
  OBVIOUS
<1>2. \A f \in RestartFiles : files'[f] = v \/ files'[f] = files[f]
  OBVIOUS
<1> QED BY <1>1, <1>2 DEF FilesInv

LEMMA TruncatedFits ==
  Truncated \in FileTypes /\ CountsOf(Truncated.counts, Truncated.blocks) /\ Apart(Truncated.blocks, Truncated.number)
<1>1. <<>> \in Seq(Blocks) /\ NoCounts \in Counts /\ 0 \in 0 .. NumFrames
  BY NumFramesAssumption DEF NoCounts, Counts
<1>2. CountsOf(NoCounts, <<>>)
  BY NoBlocks DEF CountsOf, NoCounts
<1> QED BY <1>1, <1>2 DEF Truncated, FileTypes, Apart

LEMMA FilesTruncated ==
  ASSUME files \in [RestartFiles -> FileTypes], FilesInv, NEW w, rewound => rewound',
         \/ files' = files
         \/ files' = [files EXCEPT ![w] = Truncated]
  PROVE  files' \in [RestartFiles -> FileTypes] /\ FilesInv'
<1>1. CASE files' = files
  BY <1>1 DEF FilesInv
<1>2. CASE files' = [files EXCEPT ![w] = Truncated]
  BY <1>2, FilesNext, TruncatedFits
<1> QED BY <1>1, <1>2

(* Nothing is in memory.                                                   *)
LEMMA OffInv ==
  ASSUME files \in [RestartFiles -> FileTypes], FilesInv, runs \in 0 .. MaxRuns, rewound \in BOOLEAN,
         phase = "off", config = [read |-> NoFile, write |-> NoFile, printEvery |-> 0],
         number = 0, mCount = 0, minTimestepNumber = 1, inData1 = <<>>, outData = NoCounts,
         finalLag = -1, blocks = <<>>
  PROVE  IInv
<1>1. /\ <<>> \in Seq(Blocks) /\ <<>> \in Seq(Frames) /\ NoCounts \in Counts
      /\ NumFrames \in Nat /\ MaxTime \in Nat \ {0}
  BY NumFramesAssumption, MaxTimeAssumption DEF NoCounts, Counts
<1>2. TypeOK
  BY <1>1 DEF TypeOK, FileTypes
<1>3. PlaceInv
  BY DEF PlaceInv
<1>4. BeforeInv
  <2>1. CountsOf(NoCounts, <<>>)
    BY NoBlocks DEF CountsOf, NoCounts
  <2> QED BY <2>1 DEF BeforeInv, Apart
<1>5. StretchInv
  BY DEF StretchInv
<1> QED BY <1>2, <1>3, <1>4, <1>5 DEF IInv

LEMMA InvInit == Init => IInv
<1> SUFFICES ASSUME Init PROVE IInv
  OBVIOUS
<1>1. files = [f \in RestartFiles |-> Truncated] /\ rewound = FALSE /\ runs = 0
  BY DEF Init
<1>2. files \in [RestartFiles -> FileTypes] /\ FilesInv
  BY <1>1, TruncatedFits DEF FilesInv
<1>3. runs \in 0 .. MaxRuns /\ rewound \in BOOLEAN
  <2>1. MaxRuns \in Nat /\ runs = 0
    BY <1>1, RestartAssumption
  <2>2. runs \in 0 .. MaxRuns
    BY <2>1
  <2>3. rewound \in BOOLEAN
    BY <1>1
  <2> QED BY <2>2, <2>3
<1> QED BY <1>2, <1>3, OffInv DEF Init

(* ... nor after the process has gone.                                     *)
LEMMA LostInv ==
  ASSUME TypeOK, FilesInv', files' \in [RestartFiles -> FileTypes], runs' = runs, rewound' \in BOOLEAN,
         MemoryLost
  PROVE  IInv'
<1>1. /\ <<>> \in Seq(Blocks) /\ <<>> \in Seq(Frames) /\ NoCounts \in Counts
      /\ NumFrames \in Nat /\ MaxTime \in Nat \ {0}
  BY NumFramesAssumption, MaxTimeAssumption DEF NoCounts, Counts
<1>2. TypeOK'
  BY <1>1 DEF TypeOK, FileTypes, MemoryLost
<1>3. PlaceInv'
  BY DEF PlaceInv, MemoryLost
<1>4. BeforeInv'
  <2>1. CountsOf(NoCounts, <<>>)
    BY NoBlocks DEF CountsOf, NoCounts
  <2> QED BY <2>1 DEF BeforeInv, Apart, MemoryLost
<1>5. StretchInv'
  BY DEF StretchInv, MemoryLost
<1> QED BY <1>2, <1>3, <1>4, <1>5 DEF IInv

-----------------------------------------------------------------------------
LEMMA TypeFacts ==
  ASSUME IInv
  PROVE  /\ NumFrames \in Nat /\ MaxTime \in Nat \ {0} /\ CorrelationFrequency \in Nat \ {0}
         /\ files \in [RestartFiles -> FileTypes]
         /\ number \in 0 .. NumFrames /\ number \in Nat
         /\ mCount \in Nat /\ mCount <= number
         /\ mCount % CorrelationFrequency \in 0 .. mCount
         /\ minTimestepNumber \in 1 .. NumFrames + 1 /\ minTimestepNumber \in Nat
         /\ inData1 \in Seq(Frames) /\ outData \in Counts /\ blocks \in Seq(Blocks)
         /\ rewound \in BOOLEAN /\ config.read \in RestartFiles \union {NoFile}
<1>1. /\ NumFrames \in Nat /\ MaxTime \in Nat \ {0} /\ CorrelationFrequency \in Nat \ {0}
      /\ files \in [RestartFiles -> FileTypes]
      /\ number \in 0 .. NumFrames /\ mCount \in 0 .. NumFrames /\ mCount <= number
      /\ minTimestepNumber \in 1 .. NumFrames + 1
      /\ inData1 \in Seq(Frames) /\ outData \in Counts /\ blocks \in Seq(Blocks)
      /\ rewound \in BOOLEAN
  BY NumFramesAssumption, MaxTimeAssumption, RestartAssumption DEF IInv, TypeOK, PlaceInv, FileTypes
<1>2. config.read \in RestartFiles \union {NoFile}
  BY DEF IInv, TypeOK
<1>3. mCount \in Nat /\ number \in Nat /\ minTimestepNumber \in Nat
  BY <1>1
<1>4. mCount % CorrelationFrequency \in 0 .. mCount
  BY <1>1, <1>3, ModBounds
<1> QED BY <1>1, <1>2, <1>3, <1>4

(* What a run goes on from: what it has in memory or what it has read.     *)
LEMMA RestoredFacts ==
  ASSUME IInv
  PROVE  /\ Restored.counts \in Counts /\ Restored.blocks \in Seq(Blocks)
         /\ Restored.number \in 0 .. NumFrames
         /\ inData1 = <<>> => /\ CountsOf(Restored.counts, Restored.blocks)
                              /\ ~rewound => Apart(Restored.blocks, Restored.number)
         /\ inData1 # <<>> => /\ Restored.counts = outData /\ Restored.blocks = blocks
                              /\ Restored.number = minTimestepNumber - 1
<1>1. CASE mCount = 0 /\ config.read # NoFile
  <2> DEFINE f == config.read
  <2>1. f \in RestartFiles /\ files[f] \in FileTypes
    BY <1>1, TypeFacts
  <2>2. Restored = [number |-> files[f].number, counts |-> files[f].counts, blocks |-> files[f].blocks]
    BY <1>1 DEF Restored
  <2> HIDE DEF f
  <2>3. /\ CountsOf(files[f].counts, files[f].blocks)
        /\ ~rewound => Apart(files[f].blocks, files[f].number)
    BY <2>1 DEF IInv, FilesInv
  <2>4. inData1 = <<>>
    BY <1>1 DEF IInv, PlaceInv
  <2> QED BY <2>1, <2>2, <2>3, <2>4 DEF FileTypes
<1>2. CASE ~(mCount = 0 /\ config.read # NoFile)
  <2>1. Restored = [number |-> minTimestepNumber - 1, counts |-> outData, blocks |-> blocks]
    BY <1>2 DEF Restored
  <2>2. minTimestepNumber - 1 \in 0 .. NumFrames
    BY TypeFacts
  <2> QED BY <2>1, <2>2, TypeFacts DEF IInv, BeforeInv
<1> QED BY <1>1, <1>2

(* The stretch that a stored frame belongs to.                             *)
LEMMA OwnStretch ==
  ASSUME IInv, phase = "running", number' = number + 1, number + 1 \in Frames,
         minTimestepNumber' = Restored.number + 1, number' >= minTimestepNumber'
  PROVE  LET data == Append(inData1, number')
             last == number - (mCount % CorrelationFrequency)
             own  == WithOwnBlock(Restored.blocks)
         IN /\ data \in Seq(Frames) /\ Consecutive(data, number')
            /\ \E base \in Seq(Blocks), first \in Frames :
                 /\ first >= minTimestepNumber'
                 /\ ReachesBack(Len(data), number', first, last)
                 /\ own = Append(base, OwnBlock(first, IF last >= first THEN last ELSE 0, FALSE))
                 /\ CountsThrough(Restored.counts, base, first, last - MaxTime + 1)
                 /\ ~rewound => Apart(base, minTimestepNumber' - 1)
<1> DEFINE data == Append(inData1, number')
           last == number - (mCount % CorrelationFrequency)
           own  == WithOwnBlock(Restored.blocks)
           Stretch(base, first) ==
                 /\ first >= minTimestepNumber'
                 /\ ReachesBack(Len(data), number', first, last)
                 /\ own = Append(base, OwnBlock(first, IF last >= first THEN last ELSE 0, FALSE))
                 /\ CountsThrough(Restored.counts, base, first, last - MaxTime + 1)
                 /\ ~rewound => Apart(base, minTimestepNumber' - 1)
<1>1. number \in Nat /\ number + 1 \in Frames /\ last \in Int /\ last <= number /\ MaxTime \in Nat \ {0}
  BY TypeFacts
<1>2. minTimestepNumber' - 1 = Restored.number /\ Restored.number \in Nat
  BY RestoredFacts
<1>3. Consecutive(inData1, number)
  <2>1. CASE inData1 = <<>>
    BY <2>1 DEF Consecutive
  <2>2. CASE inData1 # <<>>
    BY <2>2 DEF IInv, StretchInv
  <2> QED BY <2>1, <2>2
<1>4. data \in Seq(Frames) /\ Len(data) = Len(inData1) + 1 /\ Consecutive(data, number')
  BY <1>1, <1>3, TypeFacts, AppendFrame
<1>5. CASE inData1 = <<>>
  <2> DEFINE base == Restored.blocks
             first == number'
  <2>1. base \in Seq(Blocks) /\ first \in Frames /\ first \in Nat \ {0}
    BY <1>1, RestoredFacts
  <2>2. ReachesBack(Len(data), number', first, last)
    <3>1. Len(data) = 1
      BY <1>4, <1>5
    <3> QED BY <1>1, <3>1 DEF ReachesBack
  <2>3. ~(last >= first) /\ last - MaxTime + 1 < first
    BY <1>1
  <2>4. own = Append(base, OwnBlock(first, IF last >= first THEN last ELSE 0, FALSE))
    BY <1>5, <2>3 DEF WithOwnBlock, OwnBlock
  <2>5. CountsThrough(Restored.counts, base, first, last - MaxTime + 1)
    <3>1. CountsOf(Restored.counts, base)
      BY <1>5, RestoredFacts
    <3> SUFFICES ASSUME NEW dt \in Lags, NEW o \in Frames
                 PROVE  Restored.counts[dt][o] =
                          CountOfBlocks(base, o, dt) + IF o >= first /\ o <= last - MaxTime + 1 THEN 1 ELSE 0
      BY DEF CountsThrough
    <3>2. Restored.counts[dt][o] = CountOfBlocks(base, o, dt) /\ CountOfBlocks(base, o, dt) \in Nat
      BY <2>1, <3>1, BlockCount DEF CountsOf
    <3>3. ~(o >= first /\ o <= last - MaxTime + 1)
      BY <1>1, <2>1, <2>3 DEF Frames
    <3> QED BY <3>2, <3>3
  <2>6. ~rewound => Apart(base, minTimestepNumber' - 1)
    BY <1>2, <1>5, RestoredFacts
  <2>7. Stretch(base, first)
    BY <2>2, <2>4, <2>5, <2>6
  <2> HIDE DEF base, first, Stretch
  <2>8. \E b \in Seq(Blocks), f \in Frames : Stretch(b, f)
    BY <2>1, <2>7
  <2> QED BY <1>4, <2>8 DEF Stretch
<1>6. CASE inData1 # <<>>
  <2>1. Settled = last /\ Reading /\ minTimestepNumber' = minTimestepNumber
    BY <1>6, TypeFacts, RestoredFacts DEF Settled, Reading
  <2>2. PICK base \in Seq(Blocks), first \in Frames, cutOff \in BOOLEAN :
          /\ first >= minTimestepNumber
          /\ ReachesBack(Len(inData1), number, first, last)
          /\ blocks = Append(base, OwnBlock(first, IF last >= first THEN last ELSE 0, cutOff))
          /\ ~cutOff /\ CountsThrough(outData, base, first, last - MaxTime + 1)
          /\ ~rewound => Apart(base, minTimestepNumber - 1)
    <3> HIDE DEF last
    <3> QED BY <1>6, <2>1 DEF IInv, StretchInv
  <2>3. ReachesBack(Len(data), number', first, last)
    <3>1. Len(inData1) \in Nat /\ first \in Nat
      BY TypeFacts, LenProperties DEF Frames
    <3>2. \A size, m \in Nat, l \in Int : ReachesBack(size, m, first, l) => ReachesBack(size + 1, m + 1, first, l)
      BY <1>1, <3>1 DEF ReachesBack
    <3> HIDE DEF last, data
    <3>3. ReachesBack(Len(inData1) + 1, number + 1, first, last)
      BY <1>1, <2>2, <3>1, <3>2
    <3> QED BY <1>4, <3>3
  <2>4. own = Append(base, OwnBlock(first, IF last >= first THEN last ELSE 0, FALSE))
    <3>1. own = blocks
      BY <1>6, RestoredFacts DEF WithOwnBlock
    <3>2. cutOff = FALSE
      BY <2>2
    <3> QED BY <2>2, <3>1, <3>2
  <2>5. Stretch(base, first)
    BY <1>6, <2>1, <2>2, <2>3, <2>4, RestoredFacts
  <2> HIDE DEF Stretch
  <2>6. \E b \in Seq(Blocks), f \in Frames : Stretch(b, f)
    BY <2>5
  <2> QED BY <1>4, <2>6 DEF Stretch
<1> QED BY <1>5, <1>6

-----------------------------------------------------------------------------
(* The counters are those of the blocks, the own stretch included, at the  *)
(* last correlation that was due ...                                       *)
LEMMA SettledCounts ==
  ASSUME NEW base \in Seq(Blocks), NEW first \in Frames, NEW last \in 0 .. NumFrames, NEW out,
         CountsThrough(out, base, first, last - MaxTime + 1)
  PROVE  CountsOf(out, Append(base, OwnBlock(first, IF last >= first THEN last ELSE 0, FALSE)))
<1> DEFINE u == IF last >= first THEN last ELSE 0
           b == OwnBlock(first, u, FALSE)
<1>1. first \in Nat \ {0} /\ last \in Nat /\ u \in 0 .. NumFrames /\ MaxTime \in Nat \ {0}
  BY MaxTimeAssumption, NumFramesAssumption DEF Frames
<1>2. b \in Blocks
  BY <1>1 DEF OwnBlock, Blocks
<1> SUFFICES ASSUME NEW dt \in Lags, NEW o \in Frames
             PROVE  out[dt][o] = CountOfBlocks(Append(base, b), o, dt)
  BY DEF CountsOf
<1>3. o \in Nat
  BY DEF Frames
<1>4. Covers(b, o, dt) <=> o >= first /\ o <= last - MaxTime + 1
  <2>1. Covers(b, o, dt) <=> o >= first /\ o + (MaxTime - 1) <= u
    BY DEF Covers, OwnBlock
  <2>2. o >= first /\ o + (MaxTime - 1) <= u <=> o >= first /\ o <= last - MaxTime + 1
    BY <1>1, <1>3
  <2> HIDE DEF b, u
  <2> QED BY <2>1, <2>2
<1> HIDE DEF b
<1>5. CountOfBlocks(Append(base, b), o, dt) = CountOfBlocks(base, o, dt) + IF Covers(b, o, dt) THEN 1 ELSE 0
  BY <1>2, CountAppend
<1>6. out[dt][o] = CountOfBlocks(base, o, dt) + IF o >= first /\ o <= last - MaxTime + 1 THEN 1 ELSE 0
  BY DEF CountsThrough
<1> QED BY <1>4, <1>5, <1>6

(* ... and after the final loop.                                           *)
LEMMA CutOffCounts ==
  ASSUME NEW base \in Seq(Blocks), NEW first \in Frames, NEW last \in 0 .. NumFrames, NEW out,
         CountsAsFarAs(out, base, first, last, last)
  PROVE  CountsOf(out, Append(base, OwnBlock(first, last, TRUE)))
<1> DEFINE b == OwnBlock(first, last, TRUE)
<1>1. first \in Nat /\ last \in Nat
  BY NumFramesAssumption DEF Frames
<1>2. b \in Blocks
  BY DEF OwnBlock, Blocks
<1> SUFFICES ASSUME NEW dt \in Lags, NEW o \in Frames
             PROVE  out[dt][o] = CountOfBlocks(Append(base, b), o, dt)
  BY DEF CountsOf
<1>3. o \in Nat /\ dt \in Nat
  BY MaxTimeAssumption DEF Frames, Lags
<1>4. Covers(b, o, dt) <=> o >= first /\ o <= last /\ o + dt <= last
  <2>1. Covers(b, o, dt) <=> o >= first /\ o + dt <= last
    BY DEF Covers, OwnBlock
  <2>2. o >= first /\ o + dt <= last <=> o >= first /\ o <= last /\ o + dt <= last
    BY <1>1, <1>3
  <2> HIDE DEF b
  <2> QED BY <2>1, <2>2
<1> HIDE DEF b
<1>5. CountOfBlocks(Append(base, b), o, dt) = CountOfBlocks(base, o, dt) + IF Covers(b, o, dt) THEN 1 ELSE 0
  BY <1>2, CountAppend
<1>6. out[dt][o] = CountOfBlocks(base, o, dt) + IF o >= first /\ o <= last /\ o + dt <= last THEN 1 ELSE 0
  BY DEF CountsAsFarAs
<1> QED BY <1>4, <1>5, <1>6

(* Once counted through the last origin with all its frames, an origin is  *)
(* counted at every lag whose frame exists.                                *)
LEMMA ThroughAsFarAs ==
  ASSUME NEW bs, NEW first \in Frames, NEW last \in Nat, NEW out,
         CountsThrough(out, bs, first, last - MaxTime + 1)
  PROVE  CountsAsFarAs(out, bs, first, last - MaxTime + 1, last)
<1> SUFFICES ASSUME NEW dt \in Lags, NEW o \in Frames
             PROVE  out[dt][o] = CountOfBlocks(bs, o, dt) +
                      IF o >= first /\ o <= last - MaxTime + 1 /\ o + dt <= last THEN 1 ELSE 0
  BY DEF CountsAsFarAs
<1>1. o \in Nat /\ dt \in Nat /\ dt <= MaxTime - 1 /\ MaxTime \in Nat \ {0}
  BY MaxTimeAssumption DEF Frames, Lags
<1>2. out[dt][o] = CountOfBlocks(bs, o, dt) + IF o >= first /\ o <= last - MaxTime + 1 THEN 1 ELSE 0
  BY DEF CountsThrough
<1>3. o <= last - MaxTime + 1 => o + dt <= last
  BY <1>1
<1> QED BY <1>2, <1>3

LEMMA NothingChanged ==
  ASSUME NEW out \in Counts, NEW data \in Seq(Frames), NEW n, NEW j, n = 0 \/ data = <<>>
  PROVE  CorrelatedOut(data, out, n, j) = out
<1> DEFINE new == CorrelatedOut(data, out, n, j)
<1>1. new \in Counts
  BY CountsTyped DEF Counts
<1>2. \A dt \in Lags, o \in Frames : new[dt][o] = out[dt][o]
  BY NothingAdded
<1> HIDE DEF new
<1>3. \A dt \in Lags : new[dt] = out[dt]
  BY <1>1, <1>2 DEF Counts
<1>4. new = out
  BY <1>1, <1>3 DEF Counts
<1> QED BY <1>4 DEF new

(* Stretches that are apart and one that begins after them.                *)
LEMMA ApartAppend ==
  ASSUME NEW base \in Seq(Blocks), NEW n \in Nat, Apart(base, n), NEW b \in Blocks, n < b.from,
         NEW m \in Nat, n <= m, b.upto <= m
  PROVE  Apart(Append(base, b), m)
<1> DEFINE x == Append(base, b)
           L == Len(base)
<1>1. /\ L \in Nat /\ Len(x) = L + 1 /\ x[L + 1] = b
      /\ \A k \in 1 .. L : x[k] = base[k] /\ base[k] \in Blocks
  OBVIOUS
<1>2. \A k \in 1 .. L : x[k].upto <= n /\ x[k].upto \in Nat
  BY <1>1, NumFramesAssumption DEF Apart, Blocks
<1>3. b.from \in Nat /\ b.upto \in Nat
  BY NumFramesAssumption DEF Blocks, Frames
<1> HIDE DEF x, L
<1>4. \A k \in 1 .. L + 1 : k \in 1 .. L \/ k = L + 1
  BY <1>1
<1>5. ASSUME NEW k \in 1 .. L + 1, NEW l \in 1 .. L + 1, k < l PROVE x[k].upto < x[l].from
  <2>1. k \in 1 .. L
    BY <1>1, <1>5
  <2>2. CASE l = L + 1
    BY <1>1, <1>2, <1>3, <2>1, <2>2
  <2>3. CASE l \in 1 .. L
    BY <1>1, <1>5, <2>1, <2>3 DEF Apart, L
  <2> QED BY <1>4, <2>2, <2>3
<1>6. \A k \in 1 .. L + 1 : x[k].upto <= m
  BY <1>1, <1>2, <1>3, <1>4
<1> QED BY <1>1, <1>5, <1>6 DEF Apart, x

LEMMA ApartLater ==
  ASSUME NEW bs \in Seq(Blocks), NEW n \in Nat, Apart(bs, n), NEW m \in Nat, n <= m
  PROVE  Apart(bs, m)
<1>1. \A k \in 1 .. Len(bs) : bs[k].upto \in Nat /\ bs[k].upto <= n
  <2>1. \A k \in 1 .. Len(bs) : bs[k] \in Blocks
    OBVIOUS
  <2> QED BY <2>1, NumFramesAssumption DEF Apart, Blocks
<1>2. \A k \in 1 .. Len(bs) : bs[k].upto <= m
  BY <1>1
<1> QED BY <1>2 DEF Apart

-----------------------------------------------------------------------------
(* A print may come next: the file is opened, or nothing is done.          *)
LEMMA PrintOpens ==
  ASSUME IInv, minTimestepNumber' \in Nat, number' \in Nat, NEW goal,
         \/ OpenForPrint(goal)
         \/ UNCHANGED <<files, rewound>>
  PROVE  /\ files' \in [RestartFiles -> FileTypes] /\ FilesInv'
         /\ rewound' \in BOOLEAN /\ (rewound => rewound')
         /\ OpenForPrint(goal) /\ ~rewound' => number' + 1 >= minTimestepNumber'
<1>1. files \in [RestartFiles -> FileTypes] /\ FilesInv /\ rewound \in BOOLEAN
  BY TypeFacts DEF IInv
<1>2. CASE OpenForPrint(goal)
  <2> DEFINE w == OpenedForWriting(config)
  <2>1. files' = [files EXCEPT ![w] = Truncated] /\ rewound' = (rewound \/ number' + 1 < minTimestepNumber')
    BY <1>2 DEF OpenForPrint
  <2> HIDE DEF w
  <2>2. rewound => rewound'
    BY <2>1
  <2>3. rewound' \in BOOLEAN
    BY <2>1
  <2>4. ~rewound' => number' + 1 >= minTimestepNumber'
    <3> DEFINE late == number' + 1 < minTimestepNumber'
    <3>1. ~late => number' + 1 >= minTimestepNumber'
      <4>1. \A a, b \in Nat : ~(a + 1 < b) => a + 1 >= b
        OBVIOUS
      <4> QED BY <4>1
    <3>2. rewound' = (rewound \/ late)
      BY <2>1
    <3> HIDE DEF late
    <3>3. ~rewound' => ~late
      BY <3>2, Zenon
    <3> QED BY <3>1, <3>3
  <2>5. files' \in [RestartFiles -> FileTypes] /\ FilesInv'
    BY <1>1, <2>1, <2>2, FilesTruncated
  <2> QED BY <2>2, <2>3, <2>4, <2>5
<1>3. CASE UNCHANGED <<files, rewound>> /\ ~OpenForPrint(goal)
  <2>1. files' \in [RestartFiles -> FileTypes] /\ FilesInv'
    BY <1>1, <1>3, FilesTruncated
  <2> QED BY <1>1, <1>3, <2>1
<1> QED BY <1>2, <1>3

LEMMA ReadFacts ==
  ASSUME IInv, ReadFrame
  PROVE  /\ phase = "running" /\ phase' \in {"running", "printing"}
         /\ number' = number + 1 /\ number + 1 \in Frames
         /\ mCount' = mCount + 1
         /\ minTimestepNumber' = Restored.number + 1 /\ minTimestepNumber' \in 1 .. NumFrames + 1
         /\ files' \in [RestartFiles -> FileTypes] /\ FilesInv'
         /\ rewound' \in BOOLEAN /\ (rewound => rewound')
         /\ phase' = "printing" /\ ~rewound' => number' + 1 >= minTimestepNumber'
         /\ runs' = runs /\ config' = config /\ finalLag' = finalLag
<1>1. /\ phase = "running" /\ number' = number + 1 /\ mCount' = mCount + 1 /\ number < NumFrames
      /\ minTimestepNumber' = Restored.number + 1
      /\ runs' = runs /\ config' = config /\ finalLag' = finalLag
  BY DEF ReadFrame
<1>2. number + 1 \in Frames
  BY <1>1, TypeFacts DEF Frames
<1>3. minTimestepNumber' \in 1 .. NumFrames + 1
  <2>1. Restored.number \in 0 .. NumFrames /\ NumFrames \in Nat
    BY RestoredFacts, TypeFacts
  <2>2. Restored.number + 1 \in 1 .. NumFrames + 1
    BY <2>1
  <2> QED BY <1>1, <2>2
<1>4. minTimestepNumber' \in Nat /\ number' \in Nat
  BY <1>1, <1>3, TypeFacts, SMTT(30)
<1>5. CASE OpenForPrint("printing")
  <2>1. phase' = "printing"
    BY <1>5 DEF OpenForPrint
  <2> QED BY <1>1, <1>2, <1>3, <1>4, <1>5, <2>1, PrintOpens
<1>6. CASE UNCHANGED <<phase, files, rewound>>
  <2>1. phase' = "running"
    BY <1>1, <1>6
  <2> QED BY <1>1, <1>2, <1>3, <1>4, <1>6, <2>1, PrintOpens
<1> QED BY <1>5, <1>6 DEF ReadFrame, PrintMaybe

LEMMA ReadTyped ==
  ASSUME IInv, ReadFrame, inData1' \in Seq(Frames), outData' \in Counts, blocks' \in Seq(Blocks)
  PROVE  TypeOK' /\ PlaceInv'
<1>1. number' \in 0 .. NumFrames /\ mCount' \in 0 .. NumFrames /\ mCount' <= number' /\ mCount' # 0
  BY ReadFacts, TypeFacts, SMTT(30) DEF Frames
<1>2. runs' \in 0 .. MaxRuns /\ finalLag' \in -1 .. MaxTime
  BY ReadFacts DEF IInv, TypeOK
<1>3. config' \in [read : RestartFiles \union {NoFile}, write : RestartFiles \union {NoFile},
                 printEvery : PrintEverys \union {0}]
  BY ReadFacts DEF IInv, TypeOK
<1>4. TypeOK'
  BY <1>1, <1>2, <1>3, ReadFacts DEF TypeOK, FileTypes
<1>5. PlaceInv'
  BY <1>1, ReadFacts DEF PlaceInv
<1> QED BY <1>4, <1>5

LEMMA PassStep ==
  ASSUME IInv, ReadFrame, PassOver
  PROVE  IInv'
<1>1. inData1 = <<>>
  <2> SUFFICES ASSUME inData1 # <<>> PROVE FALSE
    OBVIOUS
  <2>1. PICK first \in Frames : first >= minTimestepNumber /\ ReachesBack(Len(inData1), number, first, Settled)
    BY DEF IInv, StretchInv
  <2>2. Len(inData1) \in Nat /\ number \in Nat /\ first \in Nat /\ minTimestepNumber \in Nat
    BY TypeFacts DEF Frames
  <2>3. number >= minTimestepNumber
    BY <2>1, <2>2 DEF ReachesBack
  <2>4. minTimestepNumber' = minTimestepNumber /\ number' = number + 1
    BY <2>2, ReadFacts, RestoredFacts
  <2>5. number' < minTimestepNumber'
    BY DEF PassOver
  <2> QED BY <2>2, <2>3, <2>4, <2>5
<1>2. inData1' = <<>> /\ outData' = Restored.counts /\ blocks' = Restored.blocks
  BY <1>1 DEF PassOver
<1>3. TypeOK' /\ PlaceInv'
  <2>1. <<>> \in Seq(Frames)
    OBVIOUS
  <2> QED BY <1>2, <2>1, RestoredFacts, ReadTyped
<1>4. BeforeInv'
  <2>1. minTimestepNumber' - 1 = Restored.number
    BY ReadFacts, RestoredFacts
  <2>2. CountsOf(outData', blocks')
    BY <1>1, <1>2, RestoredFacts
  <2>3. ~rewound' => Apart(blocks', minTimestepNumber' - 1)
    BY <1>1, <1>2, <2>1, RestoredFacts, ReadFacts
  <2> QED BY <2>2, <2>3 DEF BeforeInv, CountsOf, Apart
<1>5. StretchInv'
  BY <1>2 DEF StretchInv
<1> QED BY <1>3, <1>4, <1>5, ReadFacts DEF IInv

LEMMA StoreStep ==
  ASSUME IInv, ReadFrame, StoreFrame
  PROVE  IInv'
<1> DEFINE data == Append(inData1, number')
           last == number - (mCount % CorrelationFrequency)
           own == WithOwnBlock(Restored.blocks)
           upto(l, f) == IF l >= f THEN l ELSE 0
<1>1. /\ number \in Nat /\ number' \in Nat /\ number' = number + 1 /\ number' \in Frames
      /\ last \in Int /\ last <= number /\ MaxTime \in Nat \ {0} /\ number' >= minTimestepNumber'
      /\ CorrelationFrequency \in Nat \ {0} /\ mCount \in Nat /\ mCount' = mCount + 1
      /\ mCount % CorrelationFrequency \in 0 .. mCount /\ last \in Nat /\ last \in 0 .. NumFrames
  <2>1. number' >= minTimestepNumber'
    BY DEF StoreFrame
  <2> QED BY <2>1, TypeFacts, ReadFacts
<1>2. data \in Seq(Frames) /\ Consecutive(data, number')
  BY <1>1, ReadFacts, OwnStretch
<1>3. PICK base \in Seq(Blocks), first \in Frames :
        /\ first >= minTimestepNumber'
        /\ ReachesBack(Len(data), number', first, last)
        /\ own = Append(base, OwnBlock(first, upto(last, first), FALSE))
        /\ CountsThrough(Restored.counts, base, first, last - MaxTime + 1)
        /\ ~rewound => Apart(base, minTimestepNumber' - 1)
  <2> HIDE DEF data, last, own
  <2> QED BY <1>1, ReadFacts, OwnStretch DEF data, last, own
<1>4. first \in Nat \ {0} /\ Len(data) \in Nat /\ first <= number'
  <2>1. first \in Nat \ {0} /\ Len(data) \in Nat
    BY <1>2, LenProperties DEF Frames
  <2> QED BY <1>1, <1>3, <2>1 DEF ReachesBack
<1>5. Reading'
  BY ReadFacts DEF Reading
<1>uptoTyped. \A l \in 0 .. NumFrames : \A f : upto(l, f) \in 0 .. NumFrames
  BY TypeFacts
<1> DEFINE Stretch(window, out, bs, l) ==
        /\ window \in Seq(Frames) /\ Consecutive(window, number')
        /\ ReachesBack(Len(window), number', first, l)
        /\ bs = Append(base, OwnBlock(first, upto(l, first), FALSE))
        /\ out \in Counts /\ CountsThrough(out, base, first, l - MaxTime + 1)
<1> HIDE DEF data, own, upto
<1>6. Stretch(inData1', outData', blocks', Settled') /\ Settled' \in 0 .. NumFrames
  <2>1. CASE mCount' % CorrelationFrequency = 0
    <3> DEFINE n == CorrelationFrequency
    <3>1. last = number' - n
      <4>1. mCount % CorrelationFrequency = n - 1
        <5> DEFINE r == mCount % CorrelationFrequency
                   s == (mCount + 1) % CorrelationFrequency
        <5>1. s = 0
          BY <1>1, <2>1
        <5>2. s = IF r = n - 1 THEN 0 ELSE r + 1
          BY <1>1, ModSuccessor
        <5>3. r \in Nat
          BY <1>1
        <5> HIDE DEF r, s, n
        <5>4. r = n - 1
          BY <5>1, <5>2, <5>3
        <5> QED BY <5>4 DEF r
      <4> QED BY <1>1, <4>1
    <3>2. Settled' = number'
      BY <1>1, <1>5, <2>1 DEF Settled, Reading
    <3>3. /\ outData' = CorrelatedOut(data, Restored.counts, n, -1)
          /\ inData1' = TidiedAfter(data, data, -1)
          /\ blocks' = LastUpto(own, number')
      BY <2>1 DEF StoreFrame, data, own
    <3>4. CountsThrough(outData', base, first, number' - MaxTime + 1)
      <4>1. /\ ReachesBack(Len(data), number', first, number' - n)
            /\ CountsThrough(Restored.counts, base, first, number' - n - MaxTime + 1)
        <5> HIDE DEF last, n
        <5> QED BY <1>3, <3>1
      <4>2. Restored.counts \in Counts
        BY RestoredFacts
      <4> HIDE DEF last
      <4> QED BY <1>1, <1>2, <1>4, <3>3, <4>1, <4>2, ScheduledMore
    <3>5. outData' \in Counts
      BY <3>3, RestoredFacts, CountsTyped DEF Counts
    <3>6. inData1' \in Seq(Frames) /\ Consecutive(inData1', number') /\ ReachesBack(Len(inData1'), number', first, number')
      <4>1. last <= number'
        BY <1>1
      <4> HIDE DEF last
      <4> QED BY <1>1, <1>2, <1>3, <1>4, <3>3, <4>1, TidiedReachesBack
    <3>7. blocks' = Append(base, OwnBlock(first, upto(number', first), FALSE))
      <4>1. upto(number', first) = number' /\ number' \in 0 .. NumFrames
        BY <1>1, <1>4 DEF upto, Frames
      <4>2. upto(last, first) \in 0 .. NumFrames
        <5> HIDE DEF last
        <5> QED BY <1>1, <1>uptoTyped
      <4>3. first \in Frames /\ base \in Seq(Blocks)
        BY <1>3
      <4> HIDE DEF last
      <4>4. LastUpto(Append(base, OwnBlock(first, upto(last, first), FALSE)), number')
              = Append(base, OwnBlock(first, number', FALSE))
        BY <4>1, <4>2, <4>3, LastUptoOf, ZenonT(60)
      <4> QED BY <1>3, <3>3, <4>1, <4>4
    <3>8. number' \in 0 .. NumFrames
      BY <1>1 DEF Frames
    <3> QED BY <3>2, <3>4, <3>5, <3>6, <3>7, <3>8
  <2>2. CASE mCount' % CorrelationFrequency # 0
    <3>1. Settled' = last
      <4>1. mCount' % CorrelationFrequency = (mCount % CorrelationFrequency) + 1
        BY <1>1, <2>2, ModSuccessor
      <4> QED BY <1>1, <1>5, <4>1 DEF Settled, Reading
    <3>2. outData' = Restored.counts /\ inData1' = data /\ blocks' = own
      BY <2>2 DEF StoreFrame, data, own
    <3> HIDE DEF last
    <3> QED BY <1>1, <1>2, <1>3, <3>1, <3>2, RestoredFacts
  <2> QED BY <2>1, <2>2
<1>7. inData1' # <<>>
  BY <1>4, <1>6 DEF ReachesBack
<1>8. first >= minTimestepNumber' /\ (~rewound' => Apart(base, minTimestepNumber' - 1))
  BY <1>3, ReadFacts
<1>9. StretchInv'
  <2>1. phase' # "final" /\ phase' # "finalPrint"
    BY ReadFacts
  <2> HIDE DEF last
  <2> QED BY <1>6, <1>8, <2>1 DEF StretchInv, Consecutive, ReachesBack, CountsThrough, Apart, upto
<1>10. BeforeInv'
  BY <1>7 DEF BeforeInv
<1>11. TypeOK' /\ PlaceInv'
  <2>1. upto(Settled', first) \in 0 .. NumFrames
    BY <1>6, <1>uptoTyped
  <2>2. OwnBlock(first, upto(Settled', first), FALSE) \in Blocks
    BY <2>1 DEF OwnBlock, Blocks
  <2>3. blocks' \in Seq(Blocks)
    BY <1>6, <2>2, AppendProperties
  <2> QED BY <1>6, <2>3, ReadTyped
<1> QED BY <1>9, <1>10, <1>11, ReadFacts DEF IInv

-----------------------------------------------------------------------------
(* What writeRestart writes fits what it has counted.                      *)
LEMMA WrittenFits ==
  ASSUME IInv, phase \in {"printing", "finalPrint"}, Written, rewound' = rewound
  PROVE  files' \in [RestartFiles -> FileTypes] /\ FilesInv'
<1> DEFINE v == [complete |-> TRUE, number |-> IF mCount = 0 THEN 0 ELSE number,
                 counts |-> outData, blocks |-> blocks]
           w == OpenedForWriting(config)
<1>1. /\ number \in Nat /\ number \in 0 .. NumFrames /\ NumFrames \in Nat
      /\ minTimestepNumber \in Nat /\ minTimestepNumber \in 1 .. NumFrames + 1
  BY TypeFacts
<1>2. v \in FileTypes
  BY <1>1, TypeFacts DEF FileTypes
<1>3. CountsOf(outData, blocks) /\ (~rewound => Apart(blocks, v.number))
  <2>1. CASE inData1 = <<>>
    <3>1. CountsOf(outData, blocks) /\ (~rewound => Apart(blocks, minTimestepNumber - 1))
      BY <2>1 DEF IInv, BeforeInv
    <3>2. CASE mCount = 0
      <4>1. blocks = <<>>
        BY <3>2 DEF IInv, PlaceInv
      <4> QED BY <3>1, <4>1 DEF Apart
    <3>3. CASE mCount # 0
      <4>1. v.number = number /\ blocks \in Seq(Blocks)
        BY <3>3, TypeFacts
      <4>2. ~rewound => number + 1 >= minTimestepNumber
        BY DEF IInv, PlaceInv
      <4>3. ~rewound => minTimestepNumber - 1 \in Nat /\ minTimestepNumber - 1 <= number
        BY <1>1, <4>2
      <4> HIDE DEF v
      <4>4. ~rewound => Apart(blocks, v.number)
        BY <1>1, <3>1, <4>1, <4>3, ApartLater
      <4> QED BY <3>1, <4>4
    <3> QED BY <3>2, <3>3
  <2>2. CASE inData1 # <<>>
    <3>1. mCount # 0
      BY <2>2 DEF IInv, PlaceInv
    <3>2. PICK base \in Seq(Blocks), first \in Frames, cutOff \in BOOLEAN :
            /\ first >= minTimestepNumber
            /\ ReachesBack(Len(inData1), number, first, Settled)
            /\ blocks = Append(base, OwnBlock(first, IF Settled >= first THEN Settled ELSE 0, cutOff))
            /\ Reading => ~cutOff /\ CountsThrough(outData, base, first, Settled - MaxTime + 1)
            /\ phase = "finalPrint" => CountsOf(outData, blocks)
            /\ ~rewound => Apart(base, minTimestepNumber - 1)
      BY <2>2 DEF IInv, StretchInv
    <3>3. Settled \in 0 .. NumFrames /\ Settled <= number
      BY TypeFacts DEF Settled
    <3>4. CountsOf(outData, blocks)
      <4>1. CASE phase = "finalPrint"
        BY <3>2, <4>1
      <4>2. CASE phase = "printing"
        <5>1. cutOff = FALSE /\ CountsThrough(outData, base, first, Settled - MaxTime + 1)
          BY <3>2, <4>2 DEF Reading
        <5> QED BY <3>2, <3>3, <5>1, SettledCounts
      <4> QED BY <4>1, <4>2
    <3>5. ASSUME ~rewound PROVE Apart(blocks, v.number)
      <4> DEFINE u == IF Settled >= first THEN Settled ELSE 0
                 b == OwnBlock(first, u, cutOff)
      <4>1. v.number = number
        BY <3>1
      <4>2. first \in Nat /\ Len(inData1) \in Nat
        BY TypeFacts, LenProperties DEF Frames
      <4>3. minTimestepNumber - 1 \in Nat /\ minTimestepNumber - 1 < first /\ first <= number
        BY <1>1, <3>2, <4>2 DEF ReachesBack
      <4>4. u \in 0 .. NumFrames /\ u <= number
        BY <1>1, <3>3
      <4>5. b \in Blocks /\ b.from = first /\ b.upto = u
        BY <4>4 DEF OwnBlock, Blocks
      <4>6. blocks = Append(base, b)
        BY <3>2
      <4>7. minTimestepNumber - 1 <= number
        BY <1>1, <4>2, <4>3
      <4> HIDE DEF u, b, v
      <4>8. Apart(base, minTimestepNumber - 1)
        BY <3>2, <3>5
      <4>9. Apart(Append(base, b), number)
        BY <1>1, <4>3, <4>4, <4>5, <4>7, <4>8, ApartAppend
      <4> QED BY <4>1, <4>6, <4>9
    <3> QED BY <3>4, <3>5
  <2> QED BY <2>1, <2>2
<1>4. files' = [files EXCEPT ![w] = v]
  BY DEF Written
<1>5. files \in [RestartFiles -> FileTypes] /\ FilesInv
  BY TypeFacts DEF IInv
<1>6. v.counts = outData /\ v.blocks = blocks
  OBVIOUS
<1> HIDE DEF v, w
<1>7. CountsOf(v.counts, v.blocks)
  BY <1>3, <1>6
<1>8. ~rewound' => ~rewound /\ Apart(v.blocks, v.number)
  BY <1>3, <1>6
<1> QED BY <1>2, <1>4, <1>5, <1>7, <1>8, FilesNext

LEMMA WriteStep ==
  ASSUME IInv, WriteRestart
  PROVE  IInv'
<1>1. /\ phase = "printing" /\ phase' = "running" /\ Written
      /\ UNCHANGED <<runs, config, number, mCount, minTimestepNumber, inData1, outData, finalLag, blocks, rewound>>
  BY DEF WriteRestart, memory
<1>2. files' \in [RestartFiles -> FileTypes] /\ FilesInv'
  BY <1>1, WrittenFits
<1>3. TypeOK'
  BY <1>1, <1>2 DEF IInv, TypeOK, FileTypes
<1>4. PlaceInv'
  BY <1>1 DEF IInv, PlaceInv
<1>5. BeforeInv'
  BY <1>1 DEF IInv, BeforeInv, CountsOf, Apart
<1>6. StretchInv'
  <2>1. Reading /\ Reading' /\ Settled' = Settled
    BY <1>1 DEF Reading, Settled
  <2>2. CASE inData1 = <<>>
    BY <1>1, <2>2 DEF StretchInv
  <2>3. CASE inData1 # <<>>
    <3>1. PICK base \in Seq(Blocks), first \in Frames, cutOff \in BOOLEAN :
            /\ first >= minTimestepNumber
            /\ Consecutive(inData1, number)
            /\ ReachesBack(Len(inData1), number, first, Settled)
            /\ blocks = Append(base, OwnBlock(first, IF Settled >= first THEN Settled ELSE 0, cutOff))
            /\ ~cutOff /\ CountsThrough(outData, base, first, Settled - MaxTime + 1)
            /\ ~rewound => Apart(base, minTimestepNumber - 1)
      BY <2>1, <2>3 DEF IInv, StretchInv
    <3>2. /\ Consecutive(inData1', number')
          /\ ReachesBack(Len(inData1'), number', first, Settled')
          /\ blocks' = Append(base, OwnBlock(first, IF Settled' >= first THEN Settled' ELSE 0, cutOff))
          /\ ~cutOff /\ CountsThrough(outData', base, first, Settled' - MaxTime + 1)
          /\ ~rewound' => Apart(base, minTimestepNumber' - 1)
          /\ first >= minTimestepNumber'
      BY <1>1, <2>1, <3>1
    <3>3. phase' # "final" /\ phase' # "finalPrint"
      BY <1>1
    <3> QED BY <3>2, <3>3 DEF StretchInv, CountsThrough, Apart, Consecutive, ReachesBack
  <2> QED BY <2>2, <2>3
<1> QED BY <1>2, <1>3, <1>4, <1>5, <1>6 DEF IInv

LEMMA StartStep ==
  ASSUME IInv, Start
  PROVE  IInv'
<1>1. /\ phase = "off" /\ phase' = "running" /\ runs < MaxRuns /\ runs' = runs + 1
      /\ files' = [files EXCEPT ![OpenedForWriting(config')] = Truncated]
      /\ UNCHANGED <<mCount, minTimestepNumber, inData1, outData, finalLag, blocks, rewound>>
  BY DEF Start
<1>2. PICK r \in RestartFiles \union {NoFile}, w \in RestartFiles, p \in PrintEverys :
        /\ config' = [read |-> r, write |-> w, printEvery |-> p]
        /\ number' = 0 \/ (r # NoFile /\ number' = files[r].number)
  BY DEF Start
<1>3. number' \in 0 .. NumFrames
  <2>1. CASE number' = 0
    BY <2>1, TypeFacts
  <2>2. CASE r # NoFile /\ number' = files[r].number
    <3>1. files[r] \in FileTypes
      BY <2>2, TypeFacts
    <3> QED BY <2>2, <3>1 DEF FileTypes
  <2> QED BY <1>2, <2>1, <2>2
<1>4. files' \in [RestartFiles -> FileTypes] /\ FilesInv'
  BY <1>1, TypeFacts, FilesTruncated DEF IInv
<1>5. mCount = 0 /\ inData1 = <<>>
  BY <1>1 DEF IInv, PlaceInv
<1>6. TypeOK'
  <2>1. runs' \in 0 .. MaxRuns
    <3>1. runs \in 0 .. MaxRuns /\ MaxRuns \in Nat
      BY RestartAssumption DEF IInv, TypeOK
    <3> QED BY <1>1, <3>1
  <2>2. config' \in [read : RestartFiles \union {NoFile}, write : RestartFiles \union {NoFile},
                     printEvery : PrintEverys \union {0}]
    BY <1>2
  <2> QED BY <1>1, <1>3, <1>4, <2>1, <2>2 DEF IInv, TypeOK, FileTypes
<1>7. PlaceInv'
  BY <1>1, <1>3, <1>5, TypeFacts DEF IInv, PlaceInv
<1>8. BeforeInv'
  BY <1>1 DEF IInv, BeforeInv, CountsOf, Apart
<1>9. StretchInv'
  BY <1>1, <1>5 DEF StretchInv
<1> QED BY <1>4, <1>6, <1>7, <1>8, <1>9 DEF IInv

-----------------------------------------------------------------------------
(* The end of a run: what goes on, and what it leaves alone.               *)
LEMMA ClosingTyped ==
  ASSUME IInv, UNCHANGED <<runs, config, number, mCount, minTimestepNumber>>, phase \in {"running", "final"},
         inData1' \in Seq(Frames), outData' \in Counts, blocks' \in Seq(Blocks),
         finalLag' \in -1 .. MaxTime - 2,
         mCount = 0 => inData1' = inData1 /\ outData' = outData /\ blocks' = blocks,
         \/ phase' = "final" /\ UNCHANGED <<files, rewound>> /\ UseAllTimeOrigins /\ finalLag' >= 0
         \/ OpenForPrint("finalPrint")
  PROVE  TypeOK' /\ PlaceInv' /\ FilesInv' /\ (rewound => rewound')
<1>1. /\ number' \in Nat /\ minTimestepNumber' \in Nat /\ minTimestepNumber' = minTimestepNumber
      /\ MaxTime \in Nat \ {0}
  BY TypeFacts
<1>2. /\ files' \in [RestartFiles -> FileTypes] /\ FilesInv'
      /\ rewound' \in BOOLEAN /\ (rewound => rewound')
      /\ OpenForPrint("finalPrint") /\ ~rewound' => number' + 1 >= minTimestepNumber'
  <2>1. OpenForPrint("finalPrint") \/ UNCHANGED <<files, rewound>>
    OBVIOUS
  <2> QED BY <1>1, <2>1, PrintOpens
<1>3. phase' = "final" \/ (phase' = "finalPrint" /\ OpenForPrint("finalPrint"))
  BY DEF OpenForPrint
<1>4. finalLag' \in -1 .. MaxTime
  BY <1>1
<1>5. TypeOK'
  BY <1>2, <1>3, <1>4 DEF IInv, TypeOK, FileTypes
<1>6. PlaceInv'
  <2>1. mCount' <= number'
    BY TypeFacts
  <2>2. mCount' = 0 => inData1' = <<>> /\ outData' = NoCounts /\ blocks' = <<>> /\ minTimestepNumber' = 1
    BY <1>1 DEF IInv, PlaceInv
  <2>3. phase' = "final" => UseAllTimeOrigins /\ finalLag' \in 0 .. MaxTime - 2
    <3>1. phase' = "final" => UseAllTimeOrigins /\ finalLag' >= 0
      BY DEF OpenForPrint
    <3> QED BY <1>1, <3>1
  <2>4. phase' \in {"printing", "finalPrint"} /\ ~rewound' => number' + 1 >= minTimestepNumber'
    BY <1>2, <1>3
  <2>5. phase' # "off"
    BY <1>3
  <2> QED BY <2>1, <2>2, <2>3, <2>4, <2>5 DEF PlaceInv
<1> QED BY <1>2, <1>5, <1>6

LEMMA EmptyTidied == \A j : TidiedAfter(<<>>, <<>>, j) = <<>>
<1>1. Len(<<>>) = 0 /\ TidyOld \in Nat /\ MaxTime \in Nat
  BY TidyOldAssumption, MaxTimeAssumption
<1>2. TidyOld * MaxTime \in Nat
  BY <1>1
<1>3. ~(Len(<<>>) > TidyOld * MaxTime)
  <2> DEFINE t == TidyOld * MaxTime
  <2> HIDE DEF t
  <2>1. ~(Len(<<>>) > t)
    BY <1>1, <1>2 DEF t
  <2> QED BY <2>1 DEF t
<1> QED BY <1>3 DEF TidiedAfter, TidyInData

(* The window of a run that has stored no frame.                           *)
LEMMA EmptyClosing ==
  ASSUME IInv, UNCHANGED <<number, mCount, minTimestepNumber>>, inData1 = <<>>, inData1' = <<>>,
         outData' = outData, blocks' = blocks, rewound => rewound'
  PROVE  BeforeInv' /\ StretchInv'
<1>1. StretchInv'
  BY DEF StretchInv
<1>2. CountsOf(outData', blocks') /\ (~rewound' => Apart(blocks', minTimestepNumber' - 1))
  BY DEF IInv, BeforeInv
<1> QED BY <1>1, <1>2 DEF BeforeInv, CountsOf, Apart

(* The own stretch of a run that has stored a frame, as the final action   *)
(* finds it.                                                               *)
LEMMA ClosingFacts ==
  ASSUME IInv, inData1 # <<>>
  PROVE  /\ mCount # 0
         /\ \E base \in Seq(Blocks), first \in Frames, cutOff \in BOOLEAN :
              /\ first >= minTimestepNumber /\ first <= number
              /\ Consecutive(inData1, number)
              /\ ReachesBack(Len(inData1), number, first, Settled)
              /\ blocks = Append(base, OwnBlock(first, IF Settled >= first THEN Settled ELSE 0, cutOff))
              /\ Reading => cutOff = FALSE /\ CountsThrough(outData, base, first, Settled - MaxTime + 1)
              /\ phase = "final" => CountsAsFarAs(outData, base, first, number - finalLag - 1, number)
              /\ ~rewound => Apart(base, minTimestepNumber - 1)
<1>1. mCount # 0
  BY DEF IInv, PlaceInv
<1>2. PICK base \in Seq(Blocks), first \in Frames, cutOff \in BOOLEAN :
              /\ first >= minTimestepNumber
              /\ Consecutive(inData1, number)
              /\ ReachesBack(Len(inData1), number, first, Settled)
              /\ blocks = Append(base, OwnBlock(first, IF Settled >= first THEN Settled ELSE 0, cutOff))
              /\ Reading => ~cutOff /\ CountsThrough(outData, base, first, Settled - MaxTime + 1)
              /\ phase = "final" => CountsAsFarAs(outData, base, first, number - finalLag - 1, number)
              /\ ~rewound => Apart(base, minTimestepNumber - 1)
  BY DEF IInv, StretchInv
<1>3. first <= number
  <2>1. first \in Nat /\ number \in Nat /\ Len(inData1) \in Nat
    BY TypeFacts, LenProperties DEF Frames
  <2> QED BY <1>2, <2>1 DEF ReachesBack
<1>4. ~cutOff => cutOff = FALSE
  OBVIOUS
<1> QED BY <1>1, <1>2, <1>3, <1>4

LEMMA EndStep ==
  ASSUME IInv, EndOfTrajectory
  PROVE  IInv'
<1> DEFINE n == mCount % CorrelationFrequency
           goesOn == UseAllTimeOrigins /\ MaxTime > 1
<1>1. /\ phase = "running" /\ finalLag' = MaxTime - 2
      /\ outData' = CorrelatedOut(inData1, outData, n, -1)
      /\ inData1' = IF n > 0 THEN TidiedAfter(inData1, inData1, -1) ELSE inData1
      /\ blocks' = IF inData1 = <<>> THEN blocks ELSE LastUpto(blocks, number)
      /\ UNCHANGED <<runs, config, number, mCount, minTimestepNumber>>
      /\ \/ goesOn /\ phase' = "final" /\ UNCHANGED <<files, rewound>>
         \/ ~goesOn /\ OpenForPrint("finalPrint")
  BY DEF EndOfTrajectory
<1>2. /\ number \in Nat /\ number \in 0 .. NumFrames /\ MaxTime \in Nat \ {0} /\ n \in Nat /\ n <= number
      /\ inData1 \in Seq(Frames) /\ outData \in Counts /\ mCount \in Nat /\ blocks \in Seq(Blocks)
  BY TypeFacts
<1>3. outData' \in Counts
  BY <1>1, <1>2, CountsTyped DEF Counts
<1>4. finalLag' \in -1 .. MaxTime - 2 /\ (goesOn => finalLag' >= 0)
  BY <1>1, <1>2
<1>5. \/ phase' = "final" /\ UNCHANGED <<files, rewound>> /\ UseAllTimeOrigins /\ finalLag' >= 0
      \/ OpenForPrint("finalPrint")
  BY <1>1, <1>4
<1>6. phase' = "final" \/ phase' = "finalPrint"
  BY <1>5 DEF OpenForPrint
<1>7. CASE inData1 = <<>>
  <2>1. inData1' = <<>> /\ outData' = outData /\ blocks' = blocks
    BY <1>1, <1>2, <1>7, EmptyTidied, NothingChanged
  <2> HIDE DEF n, goesOn
  <2>2. TypeOK' /\ PlaceInv' /\ FilesInv' /\ (rewound => rewound')
    BY <1>1, <1>2, <1>3, <1>4, <1>5, <1>7, <2>1, ClosingTyped
  <2>3. BeforeInv' /\ StretchInv'
    BY <1>1, <1>7, <2>1, <2>2, EmptyClosing
  <2> QED BY <2>2, <2>3 DEF IInv
<1>8. CASE inData1 # <<>>
  <2>1. Reading /\ Settled = number - n /\ Settled \in 0 .. NumFrames /\ Settled <= number /\ Settled \in Int
    <3>1. Reading /\ Settled = number - n
      BY <1>1 DEF Reading, Settled
    <3>2. number - n \in 0 .. NumFrames /\ number - n <= number /\ number - n \in Int
      <4>1. NumFrames \in Nat
        BY TypeFacts
      <4> HIDE DEF n
      <4> QED BY <1>2, <4>1
    <3> QED BY <3>1, <3>2
  <2>2. PICK base \in Seq(Blocks), first \in Frames, cutOff \in BOOLEAN :
              /\ first >= minTimestepNumber /\ first <= number
              /\ Consecutive(inData1, number)
              /\ ReachesBack(Len(inData1), number, first, Settled)
              /\ blocks = Append(base, OwnBlock(first, IF Settled >= first THEN Settled ELSE 0, cutOff))
              /\ cutOff = FALSE /\ CountsThrough(outData, base, first, Settled - MaxTime + 1)
              /\ ~rewound => Apart(base, minTimestepNumber - 1)
    BY <1>8, <2>1, ClosingFacts
  <2>3. first \in Nat \ {0} /\ first \in Nat /\ mCount # 0
    BY <1>8, ClosingFacts DEF Frames
  <2> HIDE DEF n, goesOn
  <2>4. /\ CountsThrough(outData', base, first, number - MaxTime + 1)
        /\ inData1' \in Seq(Frames) /\ Consecutive(inData1', number)
        /\ ReachesBack(Len(inData1'), number, first, number)
    <3>1. CASE n = 0
      <4>1. outData' = outData /\ inData1' = inData1 /\ Settled = number
        BY <1>1, <1>2, <2>1, <3>1, NothingChanged
      <4> QED BY <1>2, <2>2, <4>1
    <3>2. CASE n # 0
      <4>1. n \in Nat \ {0} /\ n > 0
        BY <1>2, <3>2
      <4>2. inData1' = TidiedAfter(inData1, inData1, -1)
        BY <1>1, <4>1
      <4>3. ReachesBack(Len(inData1), number, first, number - n)
            /\ CountsThrough(outData, base, first, number - n - MaxTime + 1)
        BY <2>1, <2>2
      <4>4. CountsThrough(outData', base, first, number - MaxTime + 1)
        BY <1>1, <1>2, <2>2, <2>3, <4>1, <4>3, ScheduledMore
      <4>5. inData1' \in Seq(Frames) /\ Consecutive(inData1', number) /\ ReachesBack(Len(inData1'), number, first, number)
        BY <1>2, <2>1, <2>2, <2>3, <4>2, TidiedReachesBack
      <4> QED BY <4>4, <4>5
    <3> QED BY <3>1, <3>2
  <2>5. blocks' = Append(base, OwnBlock(first, number, FALSE))
    <3>1. blocks' = LastUpto(blocks, number)
      BY <1>1, <1>8
    <3> DEFINE u == IF Settled >= first THEN Settled ELSE 0
    <3>2. u \in 0 .. NumFrames
      <4>1. \A l \in 0 .. NumFrames : \A f : (IF l >= f THEN l ELSE 0) \in 0 .. NumFrames
        BY TypeFacts
      <4> QED BY <2>1, <4>1
    <3>3. blocks = Append(base, OwnBlock(first, u, FALSE))
      BY <2>2
    <3> HIDE DEF u
    <3> QED BY <1>2, <3>1, <3>2, <3>3, LastUptoOf
  <2>6. blocks' \in Seq(Blocks)
    <3>1. OwnBlock(first, number, FALSE) \in Blocks
      BY <1>2 DEF OwnBlock, Blocks
    <3> QED BY <2>5, <3>1, AppendProperties
  <2>7. TypeOK' /\ PlaceInv' /\ FilesInv' /\ (rewound => rewound')
    BY <1>1, <1>3, <1>4, <1>5, <2>3, <2>4, <2>6, ClosingTyped
  <2>8. CountsAsFarAs(outData', base, first, number - finalLag' - 1, number)
    <3>1. number - finalLag' - 1 = number - MaxTime + 1
      BY <1>1, <1>2
    <3>2. CountsAsFarAs(outData', base, first, number - MaxTime + 1, number)
      BY <1>2, <2>4, ThroughAsFarAs
    <3> QED BY <3>1, <3>2
  <2>9. CountsOf(outData', blocks')
    <3>1. blocks' = Append(base, OwnBlock(first, IF number >= first THEN number ELSE 0, FALSE))
      BY <1>2, <2>2, <2>3, <2>5
    <3> QED BY <1>2, <2>4, <3>1, SettledCounts
  <2>10. Settled' = number /\ ~Reading' /\ number' = number /\ minTimestepNumber' = minTimestepNumber
    BY <1>1, <1>6 DEF Settled, Reading
  <2>11. inData1' # <<>>
    BY <2>4 DEF ReachesBack
  <2>12. StretchInv'
    <3>1. /\ first >= minTimestepNumber'
          /\ Consecutive(inData1', number') /\ ReachesBack(Len(inData1'), number', first, Settled')
          /\ blocks' = Append(base, OwnBlock(first, IF Settled' >= first THEN Settled' ELSE 0, FALSE))
          /\ CountsAsFarAs(outData', base, first, number' - finalLag' - 1, number')
          /\ CountsOf(outData', blocks')
          /\ ~rewound' => Apart(base, minTimestepNumber' - 1)
      BY <1>2, <2>2, <2>3, <2>4, <2>5, <2>7, <2>8, <2>9, <2>10
    <3> QED BY <2>10, <3>1 DEF StretchInv, Consecutive, ReachesBack, CountsAsFarAs, CountsOf, Apart
  <2>13. BeforeInv'
    BY <2>11 DEF BeforeInv
  <2> QED BY <2>7, <2>12, <2>13 DEF IInv
<1> QED BY <1>7, <1>8

(* A turn of the final loop.  For any item but the first it misses an      *)
(* origin at the end of the window, see ActionTTCF.                        *)
LEMMA FinalStep ==
  ASSUME IInv, FinalCorrelate, Item = 0 \/ ~UseAllTimeOrigins
  PROVE  IInv'
<1>1. /\ phase = "final" /\ finalLag' = finalLag - 1
      /\ outData' = CorrelatedOut(inData1, outData, 1, finalLag)
      /\ inData1' = TidiedAfter(inData1, inData1, finalLag)
      /\ blocks' = IF inData1 = <<>> THEN blocks ELSE [blocks EXCEPT ![Len(blocks)].cutOff = TRUE]
      /\ UNCHANGED <<runs, config, number, mCount, minTimestepNumber>>
      /\ \/ finalLag > 0 /\ UNCHANGED <<phase, files, rewound>>
         \/ finalLag = 0 /\ OpenForPrint("finalPrint")
  BY DEF FinalCorrelate
<1>2. /\ number \in Nat /\ number \in 0 .. NumFrames /\ MaxTime \in Nat \ {0}
      /\ inData1 \in Seq(Frames) /\ outData \in Counts /\ mCount \in Nat /\ blocks \in Seq(Blocks)
  BY TypeFacts
<1>3. UseAllTimeOrigins /\ finalLag \in 0 .. MaxTime - 2 /\ finalLag \in Int /\ Item = 0
  BY <1>1 DEF IInv, PlaceInv
<1>4. outData' \in Counts
  BY <1>1, <1>2, CountsTyped DEF Counts
<1>5. finalLag' \in -1 .. MaxTime - 2 /\ (finalLag > 0 => finalLag' >= 0)
  BY <1>1, <1>2, <1>3
<1>6. \/ phase' = "final" /\ UNCHANGED <<files, rewound>> /\ UseAllTimeOrigins /\ finalLag' >= 0
      \/ OpenForPrint("finalPrint")
  BY <1>1, <1>3, <1>5
<1>7. phase' = "final" \/ (phase' = "finalPrint" /\ finalLag = 0)
  BY <1>1 DEF OpenForPrint
<1>8. CASE inData1 = <<>>
  <2>1. inData1' = <<>> /\ outData' = outData /\ blocks' = blocks
    BY <1>1, <1>2, <1>8, EmptyTidied, NothingChanged
  <2>2. TypeOK' /\ PlaceInv' /\ FilesInv' /\ (rewound => rewound')
    BY <1>1, <1>2, <1>4, <1>5, <1>6, <1>8, <2>1, ClosingTyped
  <2>3. BeforeInv' /\ StretchInv'
    BY <1>1, <1>8, <2>1, <2>2, EmptyClosing
  <2> QED BY <2>2, <2>3 DEF IInv
<1>9. CASE inData1 # <<>>
  <2>1. ~Reading /\ Settled = number
    BY <1>1 DEF Reading, Settled
  <2>2. PICK base \in Seq(Blocks), first \in Frames, cutOff \in BOOLEAN :
              /\ first >= minTimestepNumber /\ first <= number
              /\ Consecutive(inData1, number)
              /\ ReachesBack(Len(inData1), number, first, number)
              /\ blocks = Append(base, OwnBlock(first, IF Settled >= first THEN Settled ELSE 0, cutOff))
              /\ CountsAsFarAs(outData, base, first, number - finalLag - 1, number)
              /\ ~rewound => Apart(base, minTimestepNumber - 1)
    BY <1>1, <1>9, <2>1, ClosingFacts
  <2>3. first \in Nat \ {0} /\ first \in Nat /\ mCount # 0
    BY <1>9, ClosingFacts DEF Frames
  <2>4. CountsAsFarAs(outData', base, first, number - finalLag, number)
    BY <1>1, <1>2, <1>3, <2>2, <2>3, FinalMore
  <2>5. inData1' \in Seq(Frames) /\ Consecutive(inData1', number) /\ ReachesBack(Len(inData1'), number, first, number)
    <3>1. number <= number /\ number \in Int
      BY <1>2
    <3> QED BY <1>1, <1>2, <1>3, <2>2, <2>3, <3>1, TidiedReachesBack
  <2>6. blocks' = Append(base, OwnBlock(first, number, TRUE))
    <3>1. blocks = Append(base, OwnBlock(first, number, cutOff))
      BY <1>2, <2>1, <2>2, <2>3
    <3>2. blocks' = CutOffLast(blocks)
      BY <1>1, <1>9 DEF CutOffLast
    <3>3. CutOffLast(Append(base, OwnBlock(first, number, cutOff))) = Append(base, OwnBlock(first, number, TRUE))
      BY <1>2, <2>2, LastCutOffOf, ZenonT(60)
    <3> QED BY <3>1, <3>2, <3>3
  <2>7. blocks' \in Seq(Blocks)
    <3>1. OwnBlock(first, number, TRUE) \in Blocks
      BY <1>2 DEF OwnBlock, Blocks
    <3> QED BY <2>6, <3>1, AppendProperties
  <2>8. TypeOK' /\ PlaceInv' /\ FilesInv' /\ (rewound => rewound')
    BY <1>1, <1>4, <1>5, <1>6, <2>3, <2>5, <2>7, ClosingTyped
  <2>9. CountsAsFarAs(outData', base, first, number - finalLag' - 1, number)
    <3>1. number - finalLag' - 1 = number - finalLag
      BY <1>1, <1>2, <1>3
    <3> QED BY <2>4, <3>1
  <2>10. phase' = "finalPrint" => CountsOf(outData', blocks')
    <3> SUFFICES ASSUME phase' = "finalPrint" PROVE CountsOf(outData', blocks')
      OBVIOUS
    <3>1. number - finalLag = number
      BY <1>2, <1>7
    <3>2. CountsAsFarAs(outData', base, first, number, number)
      BY <2>4, <3>1
    <3> QED BY <1>2, <2>6, <3>2, CutOffCounts
  <2>11. Settled' = number /\ ~Reading' /\ number' = number /\ minTimestepNumber' = minTimestepNumber
    BY <1>1, <1>7 DEF Settled, Reading
  <2>12. inData1' # <<>>
    BY <2>5 DEF ReachesBack
  <2>13. StretchInv'
    <3>1. /\ first >= minTimestepNumber'
          /\ Consecutive(inData1', number') /\ ReachesBack(Len(inData1'), number', first, Settled')
          /\ blocks' = Append(base, OwnBlock(first, IF Settled' >= first THEN Settled' ELSE 0, TRUE))
          /\ CountsAsFarAs(outData', base, first, number' - finalLag' - 1, number')
          /\ phase' = "finalPrint" => CountsOf(outData', blocks')
          /\ ~rewound' => Apart(base, minTimestepNumber' - 1)
      BY <1>2, <2>2, <2>3, <2>5, <2>6, <2>8, <2>9, <2>10, <2>11
    <3> QED BY <2>11, <3>1 DEF StretchInv, Consecutive, ReachesBack, CountsAsFarAs, CountsOf, Apart
  <2>14. BeforeInv'
    BY <2>12 DEF BeforeInv
  <2> QED BY <2>8, <2>13, <2>14 DEF IInv
<1> QED BY <1>8, <1>9

(* The process ends, at its end or before.                                 *)
LEMMA LeaveStep ==
  ASSUME IInv, FinalPrint \/ Crash \/ ThrowWrongMaxHistory
  PROVE  IInv'
<1>1. MemoryLost /\ runs' = runs /\ rewound' = rewound /\ rewound' \in BOOLEAN /\ TypeOK
  <2>1. MemoryLost /\ runs' = runs /\ rewound' = rewound
    BY DEF FinalPrint, Crash, ThrowWrongMaxHistory
  <2>2. rewound \in BOOLEAN /\ TypeOK
    BY TypeFacts DEF IInv
  <2> QED BY <2>1, <2>2
<1>2. files' \in [RestartFiles -> FileTypes] /\ FilesInv'
  <2>1. CASE FinalPrint
    <3>1. phase = "finalPrint" /\ Written
      BY <2>1 DEF FinalPrint
    <3> QED BY <1>1, <3>1, WrittenFits
  <2>2. CASE Crash \/ ThrowWrongMaxHistory
    <3>1. files' = files /\ rewound' = rewound
      BY <2>2 DEF Crash, ThrowWrongMaxHistory
    <3> QED BY <3>1, TypeFacts, FilesTruncated DEF IInv
  <2> QED BY <2>1, <2>2
<1> QED BY <1>1, <1>2, LostInv

LEMMA StutterStep ==
  ASSUME IInv, UNCHANGED vars
  PROVE  IInv'
<1>1. UNCHANGED <<files, runs, phase, config, number, mCount, minTimestepNumber, inData1, outData,
                  finalLag, blocks, rewound>>
  BY DEF vars, memory
<1>2. TypeOK' /\ FilesInv' /\ PlaceInv' /\ BeforeInv'
  BY <1>1 DEF IInv, TypeOK, FilesInv, PlaceInv, BeforeInv, CountsOf, Apart
<1>3. StretchInv'
  <2>1. Reading' = Reading /\ Settled' = Settled
    BY <1>1 DEF Reading, Settled
  <2> QED BY <1>1, <2>1 DEF IInv, StretchInv, CountsThrough, CountsAsFarAs, CountsOf, Apart, Consecutive, ReachesBack
<1> QED BY <1>2, <1>3 DEF IInv

LEMMA InvStep == ASSUME Item = 0 \/ ~UseAllTimeOrigins PROVE IInv /\ [Next]_vars => IInv'
<1> SUFFICES ASSUME IInv, [Next]_vars PROVE IInv'
  OBVIOUS
<1>1. CASE Start
  BY <1>1, StartStep
<1>2. CASE ReadFrame
  BY <1>2, PassStep, StoreStep DEF ReadFrame
<1>3. CASE WriteRestart
  BY <1>3, WriteStep
<1>4. CASE EndOfTrajectory
  BY <1>4, EndStep
<1>5. CASE FinalCorrelate
  BY <1>5, FinalStep
<1>6. CASE FinalPrint \/ Crash \/ ThrowWrongMaxHistory
  BY <1>6, LeaveStep
<1>7. CASE UNCHANGED vars
  BY <1>7, StutterStep
<1> QED BY <1>1, <1>2, <1>3, <1>4, <1>5, <1>6, <1>7 DEF Next

(* The inductive invariant holds in every chain of runs that follows the   *)
(* first item of a frame, or any item under DontUseAllTimeOrigins.         *)
THEOREM Invariance == ASSUME Item = 0 \/ ~UseAllTimeOrigins PROVE Spec => []IInv
<1>1. IInv /\ [Next]_vars => IInv'
  BY InvStep
<1> QED BY <1>1, InvInit, PTL DEF Spec

-----------------------------------------------------------------------------
(* What is in memory counts, outside the final loop, what its blocks say.  *)
LEMMA CountsInMemory ==
  ASSUME IInv, phase # "final"
  PROVE  CountsOf(outData, blocks)
<1>1. CASE inData1 = <<>>
  BY <1>1 DEF IInv, BeforeInv
<1>2. CASE inData1 # <<>> /\ Reading
  <2>1. PICK base \in Seq(Blocks), first \in Frames :
          /\ blocks = Append(base, OwnBlock(first, IF Settled >= first THEN Settled ELSE 0, FALSE))
          /\ CountsThrough(outData, base, first, Settled - MaxTime + 1)
    BY <1>2, ClosingFacts
  <2>2. Settled \in 0 .. NumFrames
    BY TypeFacts DEF Settled
  <2> QED BY <2>1, <2>2, SettledCounts
<1>3. CASE inData1 # <<>> /\ phase = "finalPrint"
  BY <1>3 DEF IInv, StretchInv
<1>4. CASE inData1 # <<>> /\ phase = "off"
  BY <1>4 DEF IInv, PlaceInv
<1>5. phase \in {"off", "running", "printing", "final", "finalPrint"}
  BY DEF IInv, TypeOK
<1> QED BY <1>1, <1>2, <1>3, <1>4, <1>5 DEF Reading

(* A chain of runs counts exactly the pairs of frames that lie in one of   *)
(* the stretches its runs have correlated, in memory and in every file     *)
(* (writeRestart and internalInitialize of actionttcf.cpp).                *)
THEOREM ChainCounts ==
  ASSUME Item = 0 \/ ~UseAllTimeOrigins
  PROVE  Spec => []CountsAreThoseOfTheChain
<1>1. ASSUME IInv PROVE CountsAreThoseOfTheChain
  <2>1. phase # "final" => CountsOf(outData, blocks)
    BY <1>1, CountsInMemory
  <2>2. \A f \in RestartFiles : CountsOf(files[f].counts, files[f].blocks)
    BY <1>1 DEF IInv, FilesInv
  <2>3. TypeOK
    BY <1>1 DEF IInv
  <2> QED BY <2>1, <2>2, <2>3 DEF CountsAreThoseOfTheChain, CountsOf
<1> QED BY <1>1, Invariance, PTL

(* No pair of frames is counted twice, whatever is restarted from what,    *)
(* unless a run has printed while it was still passing over frames         *)
(* (internalInitialize, actionttcf.cpp:250).                               *)
THEOREM CountedOnce ==
  ASSUME Item = 0 \/ ~UseAllTimeOrigins
  PROVE  Spec => []CountedAtMostOnce
<1>1. ASSUME IInv PROVE CountedAtMostOnce
  <2> SUFFICES ASSUME ~rewound, NEW dt \in Lags, NEW o \in Frames
               PROVE  outData[dt][o] <= 1 /\ \A f \in RestartFiles : files[f].counts[dt][o] <= 1
    BY DEF CountedAtMostOnce
  <2>1. ASSUME NEW f \in RestartFiles PROVE files[f].counts[dt][o] <= 1
    <3>1. files[f] \in FileTypes /\ CountsOf(files[f].counts, files[f].blocks)
          /\ Apart(files[f].blocks, files[f].number)
      BY <1>1, TypeFacts DEF IInv, FilesInv
    <3>2. files[f].number \in Int /\ files[f].blocks \in Seq(Blocks)
      BY <3>1 DEF FileTypes
    <3>3. CountOfBlocks(files[f].blocks, o, dt) <= 1
      BY <3>1, <3>2, ApartCounts
    <3> QED BY <3>1, <3>3 DEF CountsOf
  <2>2. outData[dt][o] <= 1
    <3>1. minTimestepNumber - 1 \in Int /\ minTimestepNumber - 1 < minTimestepNumber /\ minTimestepNumber \in Nat
      BY <1>1, TypeFacts
    <3>2. CASE inData1 = <<>>
      <4>1. CountsOf(outData, blocks) /\ Apart(blocks, minTimestepNumber - 1) /\ blocks \in Seq(Blocks)
        BY <1>1, <3>2, TypeFacts DEF IInv, BeforeInv
      <4>2. CountOfBlocks(blocks, o, dt) <= 1
        BY <3>1, <4>1, ApartCounts
      <4> QED BY <4>1, <4>2 DEF CountsOf
    <3>3. CASE inData1 # <<>>
      <4>1. PICK base \in Seq(Blocks), first \in Frames, upto \in 0 .. NumFrames, cutOff \in BOOLEAN :
              /\ first >= minTimestepNumber
              /\ blocks = Append(base, OwnBlock(first, upto, cutOff))
              /\ phase = "final" => CountsAsFarAs(outData, base, first, number - finalLag - 1, number)
              /\ Apart(base, minTimestepNumber - 1)
        <5>1. PICK base \in Seq(Blocks), first \in Frames, cutOff \in BOOLEAN :
                /\ first >= minTimestepNumber
                /\ blocks = Append(base, OwnBlock(first, IF Settled >= first THEN Settled ELSE 0, cutOff))
                /\ phase = "final" => CountsAsFarAs(outData, base, first, number - finalLag - 1, number)
                /\ Apart(base, minTimestepNumber - 1)
          BY <1>1, <3>3, ClosingFacts
        <5>2. (IF Settled >= first THEN Settled ELSE 0) \in 0 .. NumFrames
          <6>1. \A l \in 0 .. NumFrames : \A f : (IF l >= f THEN l ELSE 0) \in 0 .. NumFrames
            BY <1>1, TypeFacts
          <6>2. Settled \in 0 .. NumFrames
            BY <1>1, TypeFacts DEF Settled
          <6> QED BY <6>1, <6>2
        <5> QED BY <5>1, <5>2
      <4> DEFINE c == CountOfBlocks(base, o, dt)
                 b == OwnBlock(first, upto, cutOff)
      <4>2. c \in Nat /\ c <= 1 /\ (o >= first => c = 0)
        <5>1. first \in Nat /\ o \in Nat
          BY DEF Frames
        <5>2. o >= first => o > minTimestepNumber - 1
          BY <3>1, <4>1, <5>1
        <5>3. c \in Nat /\ c <= 1 /\ (o > minTimestepNumber - 1 => c = 0)
          BY <3>1, <4>1, ApartCounts, BlockCount
        <5> QED BY <5>2, <5>3
      <4> HIDE DEF c
      <4>3. CASE phase = "final"
        <5> DEFINE more == o >= first /\ o <= number - finalLag - 1 /\ o + dt <= number
        <5>1. outData[dt][o] = c + IF more THEN 1 ELSE 0
          BY <4>1, <4>3 DEF CountsAsFarAs, c
        <5>2. more => o >= first
          OBVIOUS
        <5> HIDE DEF more
        <5> QED BY <4>2, <5>1, <5>2
      <4>4. CASE phase # "final"
        <5>1. outData[dt][o] = CountOfBlocks(blocks, o, dt)
          BY <1>1, <4>4, CountsInMemory DEF CountsOf
        <5>2. b \in Blocks /\ (Covers(b, o, dt) => o >= first)
          BY DEF OwnBlock, Blocks, Covers
        <5> HIDE DEF b
        <5>3. CountOfBlocks(blocks, o, dt) = c + IF Covers(b, o, dt) THEN 1 ELSE 0
          BY <4>1, <5>2, CountAppend DEF b, c
        <5> QED BY <4>2, <5>1, <5>2, <5>3
      <4> QED BY <4>3, <4>4
    <3> QED BY <3>2, <3>3
  <2> QED BY <2>1, <2>2
<1> QED BY <1>1, Invariance, PTL

-----------------------------------------------------------------------------
(* A step that leaves the configuration opens or writes its file at most.  *)
LEMMA OneFileChanges ==
  ASSUME DOMAIN files = RestartFiles, ReadFrame \/ WriteRestart \/ EndOfTrajectory \/ FinalCorrelate \/ FinalPrint
  PROVE  DOMAIN files' = RestartFiles /\ \A f \in RestartFiles \ {config.write} : files'[f] = files[f]
<1>1. \/ files' = files
      \/ \E v : files' = [files EXCEPT ![config.write] = v]
  BY DEF ReadFrame, PrintMaybe, OpenForPrint, WriteRestart, Written, EndOfTrajectory, FinalCorrelate,
         FinalPrint, OpenedForWriting
<1>2. CASE files' = files
  BY <1>2
<1>3. CASE \E v : files' = [files EXCEPT ![config.write] = v]
  BY <1>3
<1> QED BY <1>1, <1>2, <1>3

NamesKept == DOMAIN files = RestartFiles

LEMMA FileNames == Spec => []NamesKept
<1>1. Init => NamesKept
  BY DEF Init, NamesKept
<1>2. NamesKept /\ [Next]_vars => NamesKept'
  <2> USE DEF NamesKept
  <2> SUFFICES ASSUME DOMAIN files = RestartFiles, [Next]_vars PROVE DOMAIN files' = RestartFiles
    OBVIOUS
  <2>1. CASE Start
    <3>1. files' = [files EXCEPT ![OpenedForWriting(config')] = Truncated]
      BY <2>1 DEF Start
    <3> QED BY <3>1
  <2>2. CASE ThrowWrongMaxHistory \/ Crash \/ UNCHANGED vars
    BY <2>2 DEF ThrowWrongMaxHistory, Crash, vars
  <2> QED BY <2>1, <2>2, OneFileChanges DEF Next
<1> QED BY <1>1, <1>2, PTL DEF Spec

(* A restart file that is there stays, or another one does: what a run     *)
(* reads is never what it opens for writing, whenever the run is killed    *)
(* (setReadRestart and setWriteRestart of action.cpp, writeRestart).       *)
THEOREM RestartRemains == Spec => SomeRestartRemains
<1>1. NamesKept /\ [Next]_vars => [RestartAtHand => RestartAtHand']_vars
  <2> SUFFICES ASSUME DOMAIN files = RestartFiles, Next, RestartAtHand PROVE RestartAtHand'
    BY DEF RestartAtHand, Readable, vars, NamesKept
  <2>1. PICK f \in RestartFiles \ {config.write} : files[f].complete
    BY DEF RestartAtHand, Readable
  <2>2. CASE Start
    <3>1. PICK r \in RestartFiles \union {NoFile}, w \in RestartFiles, p \in PrintEverys :
            Sensible(r, w) /\ config' = [read |-> r, write |-> w, printEvery |-> p]
      BY <2>2 DEF Start
    <3>2. r # w /\ r # NoFile /\ files[r].complete
      BY <2>1, <3>1 DEF Sensible, Readable
    <3>3. files' = [files EXCEPT ![w] = Truncated] /\ config'.write = w
      BY <2>2, <3>1 DEF Start, OpenedForWriting
    <3>4. r \in RestartFiles \ {config'.write} /\ files'[r].complete
      BY <3>1, <3>2, <3>3
    <3> QED BY <3>4 DEF RestartAtHand, Readable
  <2>3. CASE ReadFrame \/ WriteRestart \/ EndOfTrajectory \/ FinalCorrelate
    <3>1. config' = config
      BY <2>3 DEF ReadFrame, WriteRestart, EndOfTrajectory, FinalCorrelate
    <3>2. f \in RestartFiles \ {config'.write} /\ files'[f].complete
      BY <2>1, <2>3, <3>1, OneFileChanges
    <3> QED BY <3>2 DEF RestartAtHand, Readable
  <2>4. CASE FinalPrint \/ ThrowWrongMaxHistory \/ Crash
    <3>1. config'.write = NoFile /\ NoFile \notin RestartFiles
      BY <2>4, RestartAssumption DEF FinalPrint, ThrowWrongMaxHistory, Crash, MemoryLost
    <3>2. files'[f] = files[f]
      <4>1. CASE FinalPrint
        BY <2>1, <4>1, OneFileChanges
      <4>2. CASE ThrowWrongMaxHistory \/ Crash
        BY <4>2 DEF ThrowWrongMaxHistory, Crash
      <4> QED BY <2>4, <4>1, <4>2
    <3>3. f \in RestartFiles \ {config'.write} /\ files'[f].complete
      BY <2>1, <3>1, <3>2
    <3> QED BY <3>3 DEF RestartAtHand, Readable
  <2> QED BY <2>2, <2>3, <2>4 DEF Next
<1> QED BY <1>1, FileNames, PTL DEF Spec, SomeRestartRemains

=============================================================================
