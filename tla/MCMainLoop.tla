----------------------------- MODULE MCMainLoop -----------------------------
(***************************************************************************)
(* Instances of MainLoop for TLC.  The cell is 3 long and the atom moves   *)
(* at most 1, less than half a cell, from frame to frame.                  *)
(***************************************************************************)
EXTENDS MainLoop

(* All paths of NumFrames frames with steps -1, 0 and 1.                   *)
AllPaths(NumFrames) ==
  {[n \in 1 .. NumFrames |-> FoldSet(LAMBDA i, x : x + s[i], 0, 1 .. n - 1)] :
     s \in [1 .. NumFrames - 1 -> {-1, 0, 1}]}

(* Straight ahead, through cell after cell.                                *)
OnePath(NumFrames) == {[n \in 1 .. NumFrames |-> n]}

(* The frames first to last, with size atoms.                              *)
Run(first, last, size) == [i \in 1 .. last - first + 1 |-> [number |-> first + i - 1, size |-> size]]

(* One after another, in up to three files; in the last dump the second    *)
(* file has another number of atoms.                                       *)
CutDumps(NumFrames) ==
  {<<Run(1, NumFrames, 2)>>,
   <<Run(1, 2, 2), Run(3, NumFrames - 2, 2)>>,
   <<Run(1, NumFrames, 2), <<>>>>,
   <<Run(1, 1, 2), Run(2, NumFrames, 2)>>,
   <<Run(1, 2, 2), Run(3, NumFrames - 1, 2), Run(NumFrames, NumFrames, 2)>>,
   <<Run(1, 2, 2), Run(3, NumFrames, 1)>>}

(* Continued runs whose first frames repeat the last of the run before.    *)
OverlappingDumps(NumFrames) ==
  UNION {{<<Run(1, k, 2), Run(l, NumFrames, 2)>> : l \in 1 .. k + 1} : k \in 2 .. NumFrames - 1}
    \cup {<<Run(1, 2, 2), Run(1, 3, 2), Run(2, NumFrames, 2)>>}

(* Every path, files cut anywhere, and most options of frame selection.    *)
FilesSettings ==
  [CellLength |-> 3, MaxTimestep |-> 5, MinTimestep |-> 2, SuperEvery |-> 2,
   Timesteps |-> {2, 3, 5}, FrameNumbersMustIncrease |-> FALSE,
   DoIntelligentUnwrap |-> TRUE, DoCalculateVelocities |-> TRUE,
   MaxTotalSize |-> -1, GroupSizes |-> {0},
   Every |-> 1, MinCount |-> 1, MinTimestepNumber |-> 3, IfGroup |-> TRUE]

(* Continued runs, with nothing but regular intervals.                     *)
ContinuedSettings ==
  [FilesSettings EXCEPT
     !.MaxTimestep = 0, !.Timesteps = {}, !.FrameNumbersMustIncrease = TRUE,
     !.DoIntelligentUnwrap = FALSE, !.DoCalculateVelocities = FALSE,
     !.MaxTotalSize = 2, !.GroupSizes = {0, 1},
     !.Every = 2, !.MinTimestepNumber = 0, !.IfGroup = FALSE]

FilesAndContinuedRuns ==
  {[settings |-> FilesSettings, paths |-> AllPaths(6), dumps |-> CutDumps(6)],
   [settings |-> ContinuedSettings, paths |-> OnePath(9), dumps |-> OverlappingDumps(9)]}

(* Continued runs that are unwrapped.                                      *)
OverlapRuns ==
  {[settings |-> [ContinuedSettings EXCEPT !.DoIntelligentUnwrap = TRUE],
    paths |-> OnePath(6), dumps |-> OverlappingDumps(6)]}

SettingsOf(runs) == {r.settings : r \in runs}
AllSettings == SettingsOf(FilesAndContinuedRuns)
OverlapSettings == SettingsOf(OverlapRuns)
=============================================================================
