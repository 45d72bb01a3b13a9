------------------------------ MODULE MainLoop ------------------------------
(***************************************************************************)
(* The main loop: it reads the dump files one after another, frame by      *)
(* frame, and hands the frames to the actions until the files end or       *)
(* something stops it; then the actions write their results.               *)
(*                                                                         *)
(* The atoms of a frame are abstracted to their number and to one          *)
(* coordinate of one of them.  path is where that atom really is at each   *)
(* frame of the simulation; the dump files have it folded into the cell.   *)
(* loopcount is the length of accepted, the history of the frames that     *)
(* loopcount counts.                                                       *)
(***************************************************************************)
EXTENDS Action, FiniteSets, SequencesExt

CONSTANTS
  Runs    (* records: settings, and the paths and dumps to choose from     *)

(* A path is a sequence of positions; a dump is vDumpfilenames: a sequence *)
(* of files, which are sequences of frames [number, size].                 *)
(*                                                                         *)
(* The settings, besides those of Action:                                  *)
(*   CellLength     cellx                                                  *)
(*   MaxTimestep    maxtimestep, 0 for no limit                            *)
(*   MinTimestep    mintimestep                                            *)
(*   SuperEvery     superevery                                             *)
(*   Timesteps      vTimesteps, empty for all                              *)
(*   FrameNumbersMustIncrease, DoIntelligentUnwrap, DoCalculateVelocities  *)
(*   MaxTotalSize   of one group, -1 for no limit                          *)
(*   GroupSizes     the sizes this group may have in a frame               *)
ASSUME LoopAssumption ==
  \A s \in Settings :
    /\ s.CellLength \in Nat \ {0} /\ s.SuperEvery \in Nat \ {0}
    /\ s.MaxTimestep \in Nat /\ s.MinTimestep \in Nat
    /\ s.Timesteps \subseteq Nat /\ s.GroupSizes \subseteq Nat /\ s.MaxTotalSize >= -1
    /\ {s.FrameNumbersMustIncrease, s.DoIntelligentUnwrap, s.DoCalculateVelocities} \subseteq BOOLEAN
ASSUME RunsAssumption ==
  \A r \in Runs :
    /\ r.settings \in Settings
    /\ \A d \in r.dumps : d # <<>> /\ d \in Seq(Seq([number : Nat, size : Nat]))
    /\ \A p \in r.paths, d \in r.dumps : \A i \in DOMAIN d : \A j \in DOMAIN d[i] :
         d[i][j].number \in DOMAIN p /\ p[d[i][j].number] \in Int

VARIABLES
  path, dump,        (* the simulation and its files, fixed                 *)
  dumpfileindex, position,   (* the next frame to be read                   *)
  number,            (* curtimestep.number                                  *)
  atoms,             (* atoms; oldatoms is atoms of the pass before         *)
  accepted,          (* history: number, xu and vx of the frames counted    *)
  totaltimesteps,    (* curtimestep.totaltimesteps                          *)
  totalSize,         (* mTotalSize of the group                             *)
  keepRunning,       (* GLOBAL_keepRunning                                  *)
  phase,             (* "loop", "final", "done", "aborted" or "exception"   *)
  inPass,            (* the loop head has been passed, the pass is under way *)
  caught             (* history: loopcount when Ctrl-C came, before: -1     *)

loopVars == <<dumpfileindex, position, number, atoms, accepted>>
runVars  == <<totaltimesteps, totalSize, actionVars>>
input    == <<settings, path, dump>>
passVars == <<inPass, caught>>
vars     == <<input, loopVars, runVars, keepRunning, phase, passVars>>

CellLength == settings.CellLength
MaxTimestep == settings.MaxTimestep
MinTimestep == settings.MinTimestep
SuperEvery == settings.SuperEvery
Timesteps == settings.Timesteps
FrameNumbersMustIncrease == settings.FrameNumbersMustIncrease
DoIntelligentUnwrap == settings.DoIntelligentUnwrap
DoCalculateVelocities == settings.DoCalculateVelocities
MaxTotalSize == settings.MaxTotalSize
GroupSizes == settings.GroupSizes

loopcount == Len(accepted)

(* atoms after clear() and push_back().                                    *)
NoAtoms == [size |-> 0, xu |-> 0, vx |-> 0]

Init ==
  /\ \E r \in Runs : settings = r.settings /\ path \in r.paths /\ dump \in r.dumps
  /\ dumpfileindex = 1 /\ position = 1
  /\ number = -1000
  /\ atoms = NoAtoms
  /\ accepted = <<>>
  /\ totaltimesteps = 0 /\ totalSize = 0
  /\ ActionInit
  /\ keepRunning = TRUE
  /\ phase = "loop"
  /\ inPass = FALSE /\ caught = -1

-----------------------------------------------------------------------------
Ceiling(a, b) == (a + b - 1) \div b

(* TranslateAtomCoordinatesToVicinity: p is moved by whole cells until it  *)
(* is at most half a cell away from c.                                     *)
TranslateToVicinity(p, c) ==
  IF 2 * (c - p) < -CellLength
  THEN p - CellLength * Ceiling(2 * (p - c) - CellLength, 2 * CellLength)
  ELSE IF 2 * (c - p) > CellLength
  THEN p + CellLength * Ceiling(2 * (c - p) - CellLength, 2 * CellLength)
  ELSE p

File  == dump[dumpfileindex]

(* read_frame for a frame of the current file.                             *)
ReadFrame(frame) ==
  [size |-> frame.size, xu |-> path[frame.number] % CellLength, vx |-> 0]

(* The frame that becomes number k of those counted goes to the actions.   *)
Wanted(k) ==
  /\ k >= MinTimestep
  /\ (k - 1) % SuperEvery = 0
  /\ Timesteps # {} => k \in Timesteps

(* intelligentUnwrap and calculateVelocities, from the second frame on.    *)
Unwrapped(old, new) ==
  IF DoIntelligentUnwrap /\ loopcount >= 1
  THEN [new EXCEPT !.xu = TranslateToVicinity(@, old.xu)] ELSE new

WithVelocity(old, new) ==
  IF DoCalculateVelocities /\ loopcount >= 1
  THEN [new EXCEPT !.vx = new.xu - old.xu] ELSE new

(* Mutated form: the velocity is taken before the frame is unwrapped.      *)
Prepared_VelocityFirst(old, new) == Unwrapped(old, WithVelocity(old, new))

(* Mutated form: only what is handed to the actions is unwrapped.          *)
Prepared_WantedOnly(old, new) ==
  IF Wanted(loopcount + 1) THEN WithVelocity(old, Unwrapped(old, new)) ELSE new

Prepared(old, new) == WithVelocity(old, Unwrapped(old, new))

(* Either of them throws if the number of atoms has changed.               *)
Throws(old, new) ==
  /\ DoIntelligentUnwrap \/ DoCalculateVelocities
  /\ loopcount >= 1
  /\ old.size # new.size

-----------------------------------------------------------------------------
(* intHandler: Ctrl-C, between any two statements.  Only the loop head     *)
(* looks at keepRunning, so what matters is on which side of it this is.   *)
Interrupt ==
  /\ phase \in {"loop", "final"} /\ keepRunning
  /\ keepRunning' = FALSE
  /\ caught' = loopcount
  /\ UNCHANGED <<input, loopVars, runVars, phase, inPass>>

AtHead == phase = "loop" /\ ~inPass

(* Mutated form: the program returns at once.                              *)
Leave_Returns ==
  /\ AtHead /\ ~keepRunning
  /\ phase' = "aborted"
  /\ UNCHANGED <<input, loopVars, runVars, keepRunning, passVars>>

(* The loop is left at its head.                                           *)
Leave ==
  /\ AtHead /\ ~keepRunning
  /\ phase' = "final"
  /\ UNCHANGED <<input, loopVars, runVars, keepRunning, passVars>>

(* A pass begins.                                                          *)
BeginPass ==
  /\ AtHead /\ keepRunning
  /\ inPass' = TRUE
  /\ UNCHANGED <<input, loopVars, runVars, keepRunning, phase, caught>>

(* Each of the following is the rest of a pass, up to the loop head or out *)
(* of the loop.                                                            *)
RestOfPass ==
  /\ phase = "loop" /\ inPass
  /\ inPass' = FALSE
  /\ UNCHANGED caught

(* A pass goes on to read a frame ...                                      *)
Pass ==
  /\ RestOfPass
  /\ MaxTimestep # 0 => loopcount + 1 <= MaxTimestep

(* ... unless MaxTimestep frames have been counted.                        *)
ReachMaxTimestep ==
  /\ RestOfPass
  /\ MaxTimestep # 0 /\ loopcount + 1 > MaxTimestep
  /\ atoms' = NoAtoms
  /\ phase' = "final"
  /\ UNCHANGED <<input, dumpfileindex, position, number, accepted, runVars, keepRunning>>

(* Mutated form: atoms = oldatoms is left out at the change of files.      *)
OpenNextFile_Cleared ==
  /\ Pass /\ position > Len(File)
  /\ dumpfileindex < Len(dump)
  /\ dumpfileindex' = dumpfileindex + 1 /\ position' = 1
  /\ atoms' = NoAtoms
  /\ UNCHANGED <<input, number, accepted, runVars, keepRunning, phase>>

(* Mutated form: the same file is opened again.                            *)
OpenNextFile_Same ==
  /\ Pass /\ position > Len(File)
  /\ dumpfileindex < Len(dump)
  /\ position' = 1
  /\ UNCHANGED <<input, dumpfileindex, number, atoms, accepted, runVars, keepRunning, phase>>

(* The file has ended and there is another: it is opened, and the atoms    *)
(* of the last frame are put back.                                         *)
OpenNextFile ==
  /\ Pass /\ position > Len(File)
  /\ dumpfileindex < Len(dump)
  /\ dumpfileindex' = dumpfileindex + 1 /\ position' = 1
  /\ UNCHANGED <<input, number, atoms, accepted, runVars, keepRunning, phase>>

(* It cannot be opened: main returns without the final actions.            *)
FailToOpen ==
  /\ Pass /\ position > Len(File)
  /\ dumpfileindex < Len(dump)
  /\ dumpfileindex' = dumpfileindex + 1 /\ position' = 1
  /\ atoms' = NoAtoms
  /\ phase' = "aborted"
  /\ UNCHANGED <<input, number, accepted, runVars, keepRunning>>

EndOfDumpFiles ==
  /\ Pass /\ position > Len(File)
  /\ dumpfileindex = Len(dump)
  /\ atoms' = NoAtoms
  /\ phase' = "final"
  /\ UNCHANGED <<input, dumpfileindex, position, number, accepted, runVars, keepRunning>>

(* Mutated form: the number of the frame that is skipped is kept.          *)
SkipFrame_KeepsNumber ==
  /\ Pass /\ position <= Len(File)
  /\ FrameNumbersMustIncrease /\ File[position].number <= number
  /\ position' = position + 1
  /\ atoms' = ReadFrame(File[position])
  /\ number' = File[position].number
  /\ UNCHANGED <<input, dumpfileindex, accepted, runVars, keepRunning, phase>>

(* A frame is read but its number is not higher than the one before: it    *)
(* is not counted, but atoms now is what was read.                         *)
SkipFrame ==
  /\ Pass /\ position <= Len(File)
  /\ FrameNumbersMustIncrease /\ File[position].number <= number
  /\ position' = position + 1
  /\ atoms' = ReadFrame(File[position])
  /\ UNCHANGED <<input, dumpfileindex, number, accepted, runVars, keepRunning, phase>>

(* A frame is read and counted.                                            *)
Accepts == /\ Pass /\ position <= Len(File)
           /\ FrameNumbersMustIncrease => File[position].number > number

ThrowException ==
  /\ Accepts
  /\ LET frame == File[position] IN
     /\ Throws(atoms, ReadFrame(frame))
     /\ number' = frame.number
     /\ atoms' = ReadFrame(frame)
  /\ position' = position + 1
  /\ phase' = "exception"
  /\ UNCHANGED <<input, dumpfileindex, accepted, runVars, keepRunning>>

(* Mutated form: no action gets a frame after Ctrl-C.                      *)
Process_Drops(size, frame) ==
  \/ /\ keepRunning
     /\ ActionStep(totaltimesteps, frame.number, loopcount + 1)
     /\ totaltimesteps' = totaltimesteps + 1
     /\ totalSize' = totalSize + size
     /\ keepRunning' = (MaxTotalSize >= 0 => totalSize' <= MaxTotalSize)
  \/ ~keepRunning /\ UNCHANGED <<runVars, keepRunning>>

(* The actions, the group with size atoms among them, see the frame; too   *)
(* large a group stops the loop.                                           *)
Process(size, frame) ==
  /\ ActionStep(totaltimesteps, frame.number, loopcount + 1)
  /\ totaltimesteps' = totaltimesteps + 1
  /\ totalSize' = totalSize + size
  /\ keepRunning' = (keepRunning /\ (MaxTotalSize >= 0 => totalSize' <= MaxTotalSize))

(* A frame is read and counted, and if it is wanted the actions get it.    *)
UseFrame ==
  /\ Accepts
  /\ LET frame == File[position]
         new   == ReadFrame(frame)
         atom  == Prepared(atoms, new)
     IN /\ ~Throws(atoms, new)
        /\ atoms' = atom
        /\ number' = frame.number
        /\ accepted' = Append(accepted, [number |-> frame.number, xu |-> atom.xu, vx |-> atom.vx])
        /\ IF Wanted(loopcount + 1) THEN \E size \in GroupSizes : Process(size, frame)
           ELSE UNCHANGED <<runVars, keepRunning>>
  /\ position' = position + 1
  /\ UNCHANGED <<input, dumpfileindex, phase>>

(* Each action writes its results.                                         *)
FinalActions ==
  /\ phase = "final"
  /\ phase' = "done"
  /\ UNCHANGED <<input, loopVars, runVars, keepRunning, passVars>>

Ended == phase \in {"done", "aborted", "exception"}

(* The program is one thread that never waits: WF of everything it does    *)
(* itself.  Nothing makes the user press Ctrl-C.                           *)
Program ==
  \/ Leave \/ BeginPass \/ ReachMaxTimestep \/ OpenNextFile \/ FailToOpen \/ EndOfDumpFiles
  \/ SkipFrame \/ ThrowException \/ UseFrame \/ FinalActions

Next == Interrupt \/ Program

Spec     == Init /\ [][Next]_vars
FairSpec == Spec /\ WF_vars(Program)

-----------------------------------------------------------------------------
(* Properties. *)

FramesRead ==
  FlattenSeq(SubSeq(dump, 1, dumpfileindex - 1)) \o SubSeq(File, 1, position - 1)

(* The frames read that are to be counted.                                 *)
CountedFrames ==
  {i \in 1 .. Len(FramesRead) :
     FrameNumbersMustIncrease =>
       \A j \in 1 .. i - 1 : FramesRead[j].number < FramesRead[i].number}

TypeOK ==
  /\ dumpfileindex \in 1 .. Len(dump) /\ position \in 1 .. Len(File) + 1
  /\ keepRunning \in BOOLEAN /\ inPass \in BOOLEAN /\ caught \in -1 .. loopcount
  /\ phase \in {"loop", "final", "done", "aborted", "exception"}
  /\ totaltimesteps <= loopcount /\ mCount <= totaltimesteps /\ Len(handled) <= mCount
  /\ atoms \in [size : {0} \cup {f.size : f \in UNION {Range(g) : g \in Range(dump)}},
                xu : Int, vx : Int]

(* The frames counted are exactly those read, in their order, across the   *)
(* files: none is lost or counted twice when a file is changed, and with   *)
(* FrameNumbersMustIncrease those that repeat earlier ones are left out.   *)
FramesInOrder ==
  /\ TypeOK
  /\ phase \in {"loop", "final", "done"} =>
       /\ loopcount = Cardinality(CountedFrames)
       /\ \A i \in CountedFrames :
            accepted[Cardinality({j \in CountedFrames : j <= i})].number = FramesRead[i].number

(* The unwrapped coordinate follows the path of the atom, over every       *)
(* change of files and whatever frames are not handed to the actions.      *)
UnwrapFollowsPath ==
  DoIntelligentUnwrap =>
    \A i, j \in 1 .. loopcount :
      accepted[j].xu - accepted[i].xu = path[accepted[j].number] - path[accepted[i].number]

(* The velocity of every frame but the first is the displacement since     *)
(* the one before.                                                         *)
VelocityIsDisplacement ==
  DoCalculateVelocities /\ DoIntelligentUnwrap =>
    \A i \in 2 .. loopcount :
      accepted[i].vx = path[accepted[i].number] - path[accepted[i - 1].number]

(* Only a frame with another number of atoms than the one before makes     *)
(* the program give up: a change of files does not.                        *)
ThrowsOnlyWhenSizeChanges ==
  phase = "exception" => Cardinality({f.size : f \in Range(FramesRead)}) > 1

NumbersRise == \A i \in 2 .. loopcount : accepted[i - 1].number <= accepted[i].number

(* The frames an action handles are SuperEvery * Every frames apart, which *)
(* is what its unit of time is made of (Action::setTimeUnit), and begin    *)
(* with the first that is wanted.  (Without FrameNumbersMustIncrease the   *)
(* numbers may fall back behind that of the restart file, which leaves a   *)
(* gap.)                                                                   *)
EvenlySpaced ==
  Timesteps = {} /\ ~IfGroup /\ NumbersRise =>
    /\ \A i \in 2 .. Len(handled) : handled[i] - handled[i - 1] = SuperEvery * Every
    /\ handled # <<>> /\ MinCount <= 1 /\ MinTimestepNumber <= 0 =>
         ~ \E k \in 1 .. handled[1] - 1 : Wanted(k)

(* Whenever Ctrl-C comes, the frame under way is the last one to be        *)
(* counted, and like every frame counted it is handed to the actions if it *)
(* is wanted: what they write is that of whole frames.                     *)
FinishesFrameUnderWay ==
  /\ caught # -1 => loopcount <= caught + 1
  /\ totaltimesteps = Cardinality({k \in 1 .. loopcount : Wanted(k)})

(* The program comes to an end, ...                                        *)
Terminates == <>Ended

(* The pass under way may end without results: it is to open another file  *)
(* or to read a frame with another number of atoms.                        *)
Endangered ==
  /\ inPass
  /\ IF position > Len(File) THEN dumpfileindex < Len(dump)
     ELSE File[position].size # atoms.size

(* ... and unless it is in such a pass, Ctrl-C makes it write the results  *)
(* of what was read; so does MaxTotalSize.                                 *)
InterruptWritesResults == phase = "loop" /\ ~keepRunning /\ ~Endangered ~> phase = "done"

=============================================================================
