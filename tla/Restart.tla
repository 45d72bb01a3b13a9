------------------------------- MODULE Restart -------------------------------
(***************************************************************************)
(* A chain of runs of the program over one trajectory, joined by the       *)
(* restart files of ActionTTCF: writeRestart, internalInitialize and       *)
(* internalPrint of actionttcf.cpp, setReadRestart and setWriteRestart of  *)
(* action.cpp, and crashes in between.                                     *)
(*                                                                         *)
(* A frame's name is its timestep number in the trajectory (t->number).    *)
(* The file to write is truncated when the configuration is read, and      *)
(* again at every print, before it is written; a crash between leaves it   *)
(* empty.  A file cut off in the middle is not modelled.  mEvery is 1, so  *)
(* mCount is also the number of frames passed to the actions.              *)
(*                                                                         *)
(* The counters are kept per origin as in TTCF.  `blocks' is a history     *)
(* variable: the stretches of frames that the runs behind the counters     *)
(* have correlated; it travels with the counters through the files.        *)
(***************************************************************************)
EXTENDS TTCF, FiniteSets

CONSTANTS
  CorrelationFrequency,  (* mCorrelationFrequency                          *)
  UseAllTimeOrigins,     (* FALSE after DontUseAllTimeOrigins              *)
  PrintEverys,           (* the values of PrintEvery tried; 0: at end only *)
  RestartFiles,          (* names of restart files                         *)
  NoFile,                (* ReadRestart not given                          *)
  MaxRuns                (* bound on the number of runs                    *)

ASSUME RestartAssumption ==
  /\ CorrelationFrequency \in Nat \ {0}
  /\ UseAllTimeOrigins \in BOOLEAN
  /\ PrintEverys \subseteq Nat
  /\ NoFile \notin RestartFiles
  /\ MaxRuns \in Nat

VARIABLES
  files,      (* what each restart file holds                              *)
  runs,       (* programs started so far                                   *)
  phase,      (* "off", "running", "printing", "final", "finalPrint"       *)
  config,     (* ReadRestart, WriteRestart and PrintEvery of this run      *)
  number,     (* t->number, the last frame read                            *)
  mCount,     (* frames the action has been given in this run              *)
  minTimestepNumber,  (* mMinTimestepNumber                                *)
  inData1,    (* see TTCF                                                  *)
  outData,    (* see TTCF                                                  *)
  finalLag,   (* j of the loop in internalFinalAction                      *)
  blocks,     (* history: what outData was counted from                    *)
  rewound     (* history: a file was written with a number too small       *)

memory == <<number, mCount, minTimestepNumber, inData1, outData, finalLag, blocks>>
vars == <<files, runs, phase, config, memory, rewound>>

Truncated == [complete |-> FALSE, number |-> 0, counts |-> NoCounts, blocks |-> <<>>]
Readable(f) == files[f].complete

(* The process is gone and so is what it had in memory.                    *)
MemoryLost ==
  /\ phase' = "off"
  /\ config' = [read |-> NoFile, write |-> NoFile, printEvery |-> 0]
  /\ number' = 0
  /\ mCount' = 0
  /\ minTimestepNumber' = 1
  /\ inData1' = <<>>
  /\ outData' = NoCounts
  /\ finalLag' = -1
  /\ blocks' = <<>>

Init ==
  /\ files = [f \in RestartFiles |-> Truncated]
  /\ runs = 0
  /\ phase = "off"
  /\ config = [read |-> NoFile, write |-> NoFile, printEvery |-> 0]
  /\ number = 0
  /\ mCount = 0
  /\ minTimestepNumber = 1
  /\ inData1 = <<>>
  /\ outData = NoCounts
  /\ finalLag = -1
  /\ blocks = <<>>
  /\ rewound = FALSE

(* Mutated form: the file name of ReadRestart is opened for writing.       *)
OpenedForWriting_ReadName(c) ==
  IF c.read = NoFile THEN c.write ELSE c.read

(* The file that setWriteRestart and writeRestart open, truncating it.     *)
OpenedForWriting(c) == c.write

(* A user who restarts from a file there is, into another file.  When no   *)
(* file can be read, one may still be given: the program then throws.      *)
Sensible(r, w) ==
  /\ r # w
  /\ (\E f \in RestartFiles : Readable(f)) => r # NoFile /\ Readable(r)

(* The program is started on the whole trajectory or on what comes after   *)
(* the frame of the restart file.                                          *)
Start ==
  /\ phase = "off"
  /\ runs < MaxRuns
  /\ runs' = runs + 1
  /\ \E r \in RestartFiles \union {NoFile}, w \in RestartFiles, p \in PrintEverys :
       /\ Sensible(r, w)
       /\ config' = [read |-> r, write |-> w, printEvery |-> p]
       /\ \/ number' = 0
          \/ r # NoFile /\ number' = files[r].number
  /\ files' = [files EXCEPT ![OpenedForWriting(config')] = Truncated]
  /\ phase' = "running"
  /\ UNCHANGED <<mCount, minTimestepNumber, inData1, outData, finalLag, blocks, rewound>>

(* Mutated forms: the frame of the restart file is used again; only the    *)
(* header of the restart file is used.                                     *)
Restored_SameFrame ==
  IF mCount = 0 /\ config.read # NoFile
  THEN [number |-> files[config.read].number - 1, counts |-> files[config.read].counts,
        blocks |-> files[config.read].blocks]
  ELSE [number |-> minTimestepNumber - 1, counts |-> outData, blocks |-> blocks]
Restored_HeaderOnly ==
  IF mCount = 0 /\ config.read # NoFile
  THEN [number |-> files[config.read].number, counts |-> outData,
        blocks |-> files[config.read].blocks]
  ELSE [number |-> minTimestepNumber - 1, counts |-> outData, blocks |-> blocks]

(* internalInitialize, in the first frame the action is given: the number, *)
(* the counters of the restart file; later what is in memory.              *)
Restored ==
  IF mCount = 0 /\ config.read # NoFile
  THEN [number |-> files[config.read].number, counts |-> files[config.read].counts,
        blocks |-> files[config.read].blocks]
  ELSE [number |-> minTimestepNumber - 1, counts |-> outData, blocks |-> blocks]

(* internalPrint comes to writeRestart, which opens the file.              *)
OpenForPrint(goal) ==
  /\ phase' = goal
  /\ files' = [files EXCEPT ![OpenedForWriting(config)] = Truncated]
  /\ rewound' = (rewound \/ number' + 1 < minTimestepNumber')

(* Action::action after internalAction: print when that is due.            *)
PrintDue == config.printEvery > 0 /\ mCount % config.printEvery = 0
PrintMaybe ==
  \/ PrintDue /\ OpenForPrint("printing")
  \/ ~PrintDue /\ UNCHANGED <<phase, files, rewound>>

(* The stretch of this run, which begins at the first frame it stores.     *)
WithOwnBlock(bs) ==
  IF inData1 = <<>> THEN Append(bs, [from |-> number', upto |-> 0, cutOff |-> FALSE]) ELSE bs
LastUpto(bs, frame) == [bs EXCEPT ![Len(bs)].upto = frame]

(* A frame up to the one of the restart file only advances mCount.         *)
PassOver ==
  /\ number' < minTimestepNumber'
  /\ outData' = Restored.counts
  /\ blocks' = Restored.blocks
  /\ UNCHANGED inData1

(* internalAction: store the frame, correlate when that is due.            *)
StoreFrame ==
  /\ number' >= minTimestepNumber'
  /\ LET data == Append(inData1, number')
         own  == WithOwnBlock(Restored.blocks)
     IN \/ /\ mCount' % CorrelationFrequency = 0
           /\ outData' = CorrelatedOut(data, Restored.counts, CorrelationFrequency, -1)
           /\ inData1' = TidiedAfter(data, data, -1)
           /\ blocks' = LastUpto(own, number')
        \/ /\ mCount' % CorrelationFrequency # 0
           /\ outData' = Restored.counts
           /\ inData1' = data
           /\ blocks' = own

(* The restart file has been truncated or was never written: MaxHistory is *)
(* read as 0, which is not mMaxTime.                                       *)
WrongMaxHistory == mCount = 0 /\ config.read # NoFile /\ ~Readable(config.read)

ReadFrame ==
  /\ phase = "running"
  /\ number < NumFrames
  /\ ~WrongMaxHistory
  /\ number' = number + 1
  /\ mCount' = mCount + 1
  /\ minTimestepNumber' = Restored.number + 1
  /\ PassOver \/ StoreFrame
  /\ PrintMaybe
  /\ UNCHANGED <<runs, config, finalLag>>

(* The exception ends the main loop without the final actions.             *)
ThrowWrongMaxHistory ==
  /\ phase = "running"
  /\ number < NumFrames
  /\ WrongMaxHistory
  /\ MemoryLost
  /\ UNCHANGED <<files, runs, rewound>>

(* writeRestart writes what it has and closes the file.                    *)
Written ==
  files' = [files EXCEPT ![OpenedForWriting(config)] =
    [complete |-> TRUE, number |-> IF mCount = 0 THEN 0 ELSE number,
     counts |-> outData, blocks |-> blocks]]

WriteRestart ==
  /\ phase = "printing"
  /\ Written
  /\ phase' = "running"
  /\ UNCHANGED <<runs, config, memory, rewound>>

(* internalFinalAction: the frames since the last correlation ...          *)
EndOfTrajectory ==
  /\ phase = "running"
  /\ LET n == mCount % CorrelationFrequency IN
       /\ outData' = CorrelatedOut(inData1, outData, n, -1)
       /\ inData1' = IF n > 0 THEN TidiedAfter(inData1, inData1, -1) ELSE inData1
  /\ blocks' = IF inData1 = <<>> THEN blocks ELSE LastUpto(blocks, number)
  /\ finalLag' = MaxTime - 2
  /\ UNCHANGED <<runs, config, number, mCount, minTimestepNumber>>
  /\ \/ UseAllTimeOrigins /\ MaxTime > 1 /\ phase' = "final" /\ UNCHANGED <<files, rewound>>
     \/ ~(UseAllTimeOrigins /\ MaxTime > 1) /\ OpenForPrint("finalPrint")

(* ... then the origins whose windows are cut off, lag by lag.             *)
FinalCorrelate ==
  /\ phase = "final"
  /\ outData' = CorrelatedOut(inData1, outData, 1, finalLag)
  /\ inData1' = TidiedAfter(inData1, inData1, finalLag)
  /\ finalLag' = finalLag - 1
  /\ blocks' = IF inData1 = <<>> THEN blocks ELSE [blocks EXCEPT ![Len(blocks)].cutOff = TRUE]
  /\ UNCHANGED <<runs, config, number, mCount, minTimestepNumber>>
  /\ \/ finalLag > 0 /\ UNCHANGED <<phase, files, rewound>>
     \/ finalLag = 0 /\ OpenForPrint("finalPrint")

FinalPrint ==
  /\ phase = "finalPrint"
  /\ Written
  /\ MemoryLost
  /\ UNCHANGED <<runs, rewound>>

(* The process is killed, or the machine goes down.                        *)
Crash ==
  /\ phase # "off"
  /\ MemoryLost
  /\ UNCHANGED <<files, runs, rewound>>

Next ==
  \/ Start \/ ReadFrame \/ ThrowWrongMaxHistory \/ WriteRestart
  \/ EndOfTrajectory \/ FinalCorrelate \/ FinalPrint \/ Crash

Spec == Init /\ [][Next]_vars

-----------------------------------------------------------------------------
Blocks == [from : Frames, upto : 0 .. NumFrames, cutOff : BOOLEAN]
Counts == [Lags -> [Frames -> Nat]]

(* Types only.                                                             *)
TypeOK ==
  /\ files \in [RestartFiles -> [complete : BOOLEAN, number : 0 .. NumFrames,
                                 counts : Counts, blocks : Seq(Blocks)]]
  /\ runs \in 0 .. MaxRuns
  /\ phase \in {"off", "running", "printing", "final", "finalPrint"}
  /\ config \in [read : RestartFiles \union {NoFile}, write : RestartFiles \union {NoFile},
                 printEvery : PrintEverys \union {0}]
  /\ number \in 0 .. NumFrames
  /\ mCount \in 0 .. NumFrames
  /\ minTimestepNumber \in 1 .. NumFrames + 1
  /\ inData1 \in Seq(Frames)
  /\ outData \in Counts
  /\ finalLag \in -1 .. MaxTime
  /\ blocks \in Seq(Blocks)
  /\ rewound \in BOOLEAN

(* What a stretch of frames contributes: the origins whose MaxTime frames  *)
(* lie in it, or, after the final action of a run, whatever lies in it.    *)
Covers(b, o, dt) ==
  /\ o >= b.from
  /\ o + (IF b.cutOff THEN dt ELSE MaxTime - 1) <= b.upto

CountOfBlocks(bs, o, dt) == Cardinality({k \in DOMAIN bs : Covers(bs[k], o, dt)})

(* A chain of runs counts exactly the pairs of frames that lie in one      *)
(* stretch: a restart loses the pairs across it, a crash the origins whose *)
(* windows were open at the last correlation before the last print, and    *)
(* nothing else is lost or counted, in memory or in a file                 *)
(* (actionttcf.cpp:235 and 250).                                           *)
CountsAreThoseOfTheChain ==
  /\ TypeOK
  /\ phase # "final" =>
       \A dt \in Lags, o \in Frames : outData[dt][o] = CountOfBlocks(blocks, o, dt)
  /\ \A f \in RestartFiles, dt \in Lags, o \in Frames :
       files[f].counts[dt][o] = CountOfBlocks(files[f].blocks, o, dt)

(* No pair of frames is counted twice by a chain of runs, on the whole     *)
(* trajectory or on the rest of it, unless a run prints while it is still  *)
(* passing over the frames of the file it has read: that file has their    *)
(* number and the counts of later frames.                                  *)
CountedAtMostOnce ==
  ~rewound =>
    \A dt \in Lags, o \in Frames :
      /\ outData[dt][o] <= 1
      /\ \A f \in RestartFiles : files[f].counts[dt][o] <= 1

(* A restart file that is not being written can be read.                   *)
RestartAtHand == \E f \in RestartFiles \ {config.write} : Readable(f)

(* Once a run has left a restart file there is one for ever, wherever      *)
(* later runs are killed: every run truncates a file when its              *)
(* configuration is read and at every print, but never the one it reads.   *)
(* Until the first run ends, its only file is empty during each print.     *)
SomeRestartRemains == [][RestartAtHand => RestartAtHand']_vars
=============================================================================
