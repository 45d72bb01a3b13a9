# A verification project for lionanalysis

lionanalysis reads a molecular dynamics trajectory frame by frame and hands
every frame to a list of *actions*, which work on *groups* of atoms and write
time correlation functions, distributions and reaction statistics.  This
directory models its control: when a frame is stored, when it is used, when it
is thrown away, and what is therefore counted.  The TLA+ modules are checked with
TLC on small instances; most of it is also proved with TLAPS for all parameters.

Paths such as `ttcf.cpp:39` are relative to `src/src/`; `docs/` is `src/docs/`.

## 1. The system

| component | state it keeps | operations | interacts with |
|---|---|---|---|
| main loop (`main.cpp`) | frame counter, dump file and position, `atoms`/`oldatoms`, `GLOBAL_keepRunning` | read a frame, skip it, change files, unwrap, hand on, stop, final actions | reader, every action, signal handler |
| frame reader, geometry (`utility.cpp`) | none | `read_frame`, `intelligentUnwrap`, `calculateVelocities`, angles, distances | main loop |
| `Action` (`action.cpp`) | `mCount`, files | `action`, `finalAction`: whether `internalAction` runs | main loop, all actions |
| `TTCF` (`ttcf.cpp`) | window of values and flags, sums per lag | `add`, `correlate`, `tidyInData`, Escape conditions | `ActionTTCF` |
| `ActionTTCF` and the T... actions | one `TTCF` per member of the ParentGroup | store, correlate every CorrelationFrequency frames, final action, restart file | `Action`, `TTCF`, groups |
| TMSDFollow | as above, positions of the last frame, discretised displacements | match positions, clear on conflict | `ActionTTCF` |
| reaction analysis (`actionchangegrouptime.cpp`, `actionwhengroupchanged*.cpp`) | entry times per atom; ring of properties and to-do list; list of atoms with delay and duration | find a reaction, average a window, fill a group | callbacks `addNewChange` from the first to the others |
| groups (`group*.cpp`) | members, coordination tables, history rings | `update` per frame | actions read them |
| old TCF actions (`tcf*.cpp`, `actiontcf.cpp`, `actionresidencetime*.cpp`) | as `TTCF`, older code | store, trim, correlate with the latest frame, final action | `Action`, groups |
| proton transfer coordinates (`actionshortdelta.cpp`, ...) | history ring, histogram | | groups |
| distributions, printing | a histogram at most | | groups |
| configuration (`readconfigfile.cpp`) | builds the lists of groups and actions | parsing | everything |

The program is one thread (the OpenMP loops compute distances; the list of
parallel actions is always empty, `main.cpp:208`), with one asynchronous event,
Ctrl-C.  What is hard in it is *protocol over time*: three counters of frames
(`loopcount`, `totaltimesteps`, `mCount`) with different origins, windows and
rings that are trimmed or overwritten while something still refers to them,
callbacks into actions that have already run in the frame, and an end of the
trajectory that may come anywhere.  `hazards` in `PROJECT.json` lists each place
with its line and the property that covers it, or why none does.

What makes each component correct:

- *window and schedule*: a lag is a time difference; a stored frame is a time
  origin exactly once at exactly the lags that exist; nothing is trimmed before
  it was used; memory is bounded; flags and values belong to the same frame.
- *Escape conditions*: the loop with its early exits adds to each lag what the
  documented rules say; a zero once reached stays.
- *reaction analysis*: lines, windows and group membership are those a
  definition over the whole trajectory gives.
- *main loop*: where the dump files are cut does not show; frames reach an action
  at one distance; after Ctrl-C the frame under way is finished and the results
  are written; the program ends.
- *restart files*: a chain of runs counts what its runs have correlated, each
  pair of frames once, and a crash leaves a file to start from.
- *following*: each position of the last frame is continued by one atom, the
  movements weighed are real ones, and no window reaches across a conflict.
- *residence times*: what is added for an origin is the survival it had, and the
  Escape conditions give what the loops written by hand gave.
- *groups*: numbers and tables belong to the members, and each group is what its
  definition says of this frame, whatever the order of definitions.

## 2. Modules

| module | models | state ↔ code |
|---|---|---|
| `TTCF` | class `TTCF`: `getMaxDT`, choice of origins in `correlate`, `tidyInData` | operators; sequences of frame numbers for `mInData1` and `mBoolInfo` |
| `ActionTTCF` | `ActionTTCF::internalAction`, `internalFinalAction`, `correlateAll`; extends `TTCF` | `mCount`, `inData1`, `boolInfo`, `outData`, and `joined`, `present` for the group; `finalLag` is the loop variable `j` |
| `CorrelationLedger` | the abstract specification of the above | one entry per lag and origin |
| `TTCFConditions` | `checkIfMemberFor`, `checkTCFCondition`, `doICare`, `quickCorrelate`, `addCondition` | operators on conditions and flags |
| `CorrelateFromOldIndex` | `correlateFromOldIndex`, one step per turn of the loop | `dt`, `doicare`, `resultisknown`, `tempOutData`, `outData` (here `mOutData`) |
| `Restart` | `writeRestart`, `internalInitialize`, `setReadRestart`, `setWriteRestart`; extends `TTCF` | `files`: what each restart file holds; `config`: the names given to this run; the action's memory, lost at a crash or exit; `blocks` is a history of the stretches correlated |
| `FollowMatching` | the loop over the atoms in `internalComplicatedAddToTCF`, and the Hungarian method in its place | `occupied`: `vOccupiedSwitchIndices`, `switch`: `vSwitchIndices`, `minDist`: `vMinDists`; `Submatrix`: the integer costs given to dlib |
| `FollowWindow` | the rest of that function, `TTCFMSDFollow`; extends `TTCF` | `jumpInfo`: the flags of `NewJumpMemberFor1`; `discretized`: `mDiscretizedInData`; `positions`: the length of `mOldPositions` |
| `CoordinationTables` | class `GroupCoordination` | operators on a record of the three parallel vectors |
| `Groups` | `ParseDefineGroup`, `Group::update` and the `internalUpdate` of the groups; uses `CoordinationTables` | `vpGroups`: content, `mUpdateCount`, `mTotalSize`, `mvIsMember` of each group; `past` is a history |
| `GroupRelations` | the abstract specification of the above: sets and relations, no order of updates | |
| `ResidenceTimes` | `TCF`, `TCFResidenceTimeSSP`, `TCFResidenceTimeContinuous` with their actions, and `TTCFResidenceTime(SSP)` with its conditions; extends `TTCFConditions` | `inData`/`outData` of the old action, `newInData`/`newOutData` of the new one, over one `history` |
| `ReactionSettings` | the options of the three reaction actions | the record `settings`, chosen in `Init` |
| `ChangeGroupTime` | `ActionChangeGroupTime`, with and without CheckCoordinationTable | `entered`: the vectors `mvFirstEntered`, `mvContinuousBeforeLeaving`, `mvLastEntered`, one entry per atom or per pair of atom and shell atom; `memberBefore`; `reported`: the lines printed |
| `WhenGroupChanged` | `ActionWhenGroupChanged` | `saved`: ring of `mvSavedData`, `mvIsProduct`, `mvIsReactant`; `toDo`: `mvToDo`; `histogram`: windows put into `mHisto` |
| `WhenGroupChangedDefineGroup` | the action of that name | `pending`: `mvToDo`; `group`: the atoms of the external group |
| `Reactions` | the three composed, one step per frame, in their order in the frame | `trajectory` is a history variable |
| `Action` | `Action::action` | `mCount`; `handled` is a history of the calls of `internalAction` |
| `MainLoop` | `main`, `intHandler`; extends `Action` | `accepted` is the history whose length is `loopcount`; `inPass`: control is behind the loop head; `caught`: `loopcount` when Ctrl-C came |
| `MC...` | instances | constants |
| `TTCF_proofs` | lemmas about the operators of `TTCF`, and about the counters of the Escape conditions (`TTCFConditions`) | |
| `TimeCorrelation_proofs` | inductive invariant, theorems and refinement of `ActionTTCF`; the same for `CorrelateFromOldIndex`, whose specification is named `OriginSpec` so that one module can extend both | |
| `Groups_proofs` | lemmas about the operators of `CoordinationTables`; inductive invariant, theorems and refinement of `Groups` | |
| `MainLoop_proofs`, `Reactions_proofs`, `ResidenceTimes_proofs`, `Restart_proofs` | inductive invariant and theorems of the module of that name | |
| `Follow_proofs` | the same for `FollowWindow` and `FollowMatching`, whose specification is named `MatchingSpec` so that one module can extend both | |

Abstractions.  A value in a window is the number of its frame, so that "which
frame met which" is visible; what is computed from the two values is left out.  A
sum per lag is kept per origin.  A group is the set of its members at a frame
(`Group::addAtom` drops duplicates), except in `Groups`, where it is the
vectors of the code.  Modules whose instances differ in their options keep these
in a variable `settings` (`MainLoop`, `Reactions`, `ResidenceTimes`) or `options`
(`FollowWindow`) that is chosen in `Init` and never changed, so that one run
covers several configurations.  An atom in the main loop is one coordinate
in a cell of integer length; the reader is its effect on the atoms.  Definitions
whose name ends in a word after an underscore (`Correlate_FlagsNotTidied`) are
mutated forms, used only to show that a property notices such a mistake.

The type invariant `TypeOK` of a module is the first conjunct of its main safety
invariant (`RulesFollowed`, as `OriginTypeOK`, `FramesInOrder`, `ReportsReactions`,
`CountsAreThoseOfTheChain`, `WindowsAligned`, `NumbersMatchTables`,
`OnePositionEach`, as `MatchingTypeOK`); in `ActionTTCF` and `ResidenceTimes` it stands alone.

A frame is one atomic step because `Action::action` runs to completion before the
next frame is read.  A pass of the main loop is two steps, the loop head and the
rest: only the head looks at the flag that Ctrl-C clears, so a Ctrl-C at any
statement of the pass is one between the two.  Inside a frame the order of calls matters and is kept: in
`Reactions` the two receiving actions run before `ChangeGroupTime`, so what it
feeds them meets lists already worked off in the frame.

## 3. Runs

Passing runs:

| run | shows |
|---|---|
| `ttcf_window` | all properties of the schedule, with MaxTime 4, TidyOld 2, correlation every 3 frames, 16 frames, any joining frame, any length; the ledger is implemented; every stored frame becomes an origin |
| `escape_conditions` | one condition of each kind with its limits, negated or soft, and two conditions as the documentation combines them, over every flag history of 4 frames and 3 lags, with all options: the documented rules; monotone sample counts without UncareThis |
| `reactions` | all trajectories of 6 frames of one atom, every filter on, and of 3 frames (SuperEvery 2) of one atom bonded to any of two centres, with CheckCoordinationTable, CannotBe and a defined group also fed from its ParentGroup; against whole-trajectory definitions of reactions, averaged windows and the group |
| `loop` | trajectories of 6 frames cut into files, an empty last file, a change in the number of atoms, all paths of an atom, Ctrl-C at the loop head and inside any pass, MaxTimestep 5, Timesteps {2, 3, 5}; and overlapping runs of 9 frames with FrameNumbersMustIncrease, MinTimestep, SuperEvery 2, Every 2 and MaxTotalSize 2: frames once, in order and evenly spaced; the frame under way at Ctrl-C is finished and handed on; the program ends, and after Ctrl-C in its results, unless the pass under way fails |
| `restart` | up to 4 runs over 9 frames and 2 restart files, each killed at any step, printing at the end only or every 3 frames, on the whole trajectory or on what is left of it: what counters and files hold; a readable file remains |
| `follow_matching` | one frame's matching of up to 3 atoms for every matrix of distances of up to 2 units of 1/14 or 1/150, greedy, Hungarian and with the squared penalty |
| `follow_windows` | 11 frames of groups of 0 to 3 atoms, every pattern of conflicts and jumps, all four combinations of IgnoreConflicts and Discretize, MaxTime 4, TidyOld 1, correlation every 2 frames |
| `groups` | 24 DefineGroup commands over 2 oxygens and 2 hydrogens, every pattern of distances in each of 3 frames; the groups implement `GroupRelations` |
| `residence_times` | SSP, SSP of a shell, and continuous residence times with every combination of NewMustBeMember, AllowRecrossings and NewMaxContinuousEscapeTime up to 1, of these with NewMaxTotalEscapeTime up to 2, and with OldMustBeMemberFor 1 and 2 and its two limits, MaxTime 3, every history of up to 4, 6 or 8 frames; old action and new action side by side |

Runs that end in a violation record a disagreement between the code and what the
documentation or a comment says: `reactions_superevery`, `loop_overlap`,
`residence_uncare`.  Each is explained, with both lines, under `findings` in
`PROJECT.json`.

Disagreements met while modelling that have no run of their own; the properties
are stated for what the code does, and where it matters they exclude the option:

- the trim leaves getMaxDT()+1 frames whatever TidyOld is, so after it a
  history looks before the front of the window; the documentation recommends
  TidyOld >= 3 for a history (`ttcf.cpp:78`, `docs/input.rst:1464`);
- after a ValueRemaining every later lag is to get a 0, but UncareThis is asked
  first and such a lag gets nothing (`ttcf.cpp:157`, `docs/input.rst:1385`);
  `SamplesDecrease` therefore asks for lists without it;
- with a history of 0, which -1 also means at lag 0, the tolerances are not
  looked at (`ttcf.cpp:204`, `docs/input.rst:1480`);
- MinReactantTime is compared with the time from the first entry to the last
  frame as a reactant, time spent outside included
  (`actionchangegrouptime.cpp:191`, `docs/input.rst:234`);
- the first window to be due is not averaged, because the count must exceed the
  length of a window (`actionwhengroupchanged.cpp:90`, `docs/input.rst:1654`);
- for a later item of a frame (the later atoms of a coordination shell)
  getMaxDT(oldindex) divides down and the largest lag of every origin that the
  end of the trajectory cuts off is not reached (`ttcf.cpp:39`; the comment after
  it has another result, and `docs/input.rst:1393` promises these origins);
- the three numbers of the CoordinationEscape options are not used: addCondition
  converts them for other types only (`actionttcfparent.cpp:73`,
  `docs/input.rst:1529`); `OldCoordination` and `NewCoordination` are in the
  conditions run without a history for this reason;
- the flags covered by one discretised displacement include both end points,
  where the comment has the end excluded (`ttcfmsdfollow.cpp:67-68`);
  `JumpsAreDiscrete` is stated for what the code does;
- with IgnoreConflicts the discretised displacements of a position that was out
  of the group for a while have gaps, and its windows, too
  (`ttcfmsdfollow.cpp:39`, `docs/input.rst:1588`); `SegmentsTile` excludes it;
- a restarted run that prints while it passes over the frames it has already
  counted writes too small a number with its counters (`actionttcf.cpp:237`);
  `CountedAtMostOnce` excludes files written so, by the history `rewound`;
- ResidenceTime uses origins one frame older than it needs, loses one at every
  trim, and as many more as OldMustBeMemberFor says because their past has been
  trimmed, counts nothing at all with TidyOld 1 and does nothing at the end of the
  trajectory (`tcfresidencetimecontinuous.cpp:39` and `:196`); ResidenceTimeSSP loses the
  first origin of a trajectory shorter than MaxTime
  (`actionresidencetimessp.cpp:55`); the comment at
  `tcfresidencetimecontinuous.cpp:14` has a case for origins that are not members
  which the loop below does not have; `SurvivalOfMembers` and
  `SurvivalOfEachOrigin` say which origins are used;
- an OldMax... limit that is not given becomes -1 and allows no frame outside,
  where the constructor has 1000000 (`readconfigfile.cpp:1325`,
  `actionresidencetimecontinuous.cpp:5`); `WasMember` says so;
- with NewMustBeMember an absent item is not marked as broken, so with Simple
  membership recrossings count without AllowRecrossings
  (`tcfresidencetimecontinuous.cpp:60`); no document says what is meant, and `Stays`
  is stated for what the code does;
- for a centre that is to be ignored the comment has "add2(0)" but the code adds
  a 1, so that the product counts as formed
  (`actionresidencetimesspcoordinationshell.cpp:20` and `:92`);
- CannotBe is accepted without CheckCoordinationTable but has an effect only with
  it, and is not documented (`actionchangegrouptime.cpp:129`,
  `readconfigfile.cpp:980`);
- DIFF of a group with itself is the group (`group.cpp:186`);
- MaxTotalSize 1 does not stop at the first member (`main.cpp:446`,
  `docs/input.rst:816`).

Bounds.  In the window run 16 frames let the window be trimmed three times
or more, in each phase of the correlation period, and every joining frame and
every end of the trajectory is a branch.  The conditions run covers each
history of a flag, and the loop looks at no more than the window; 4 frames give a
history and 3 lags room to lie inside, at and before the front.  In the
reaction run 6 frames hold one whole window of 5 and the frame that pushes the
oldest one out, or a reaction, a new entry and a second reaction; atoms do not
interact except through the groups, so for the pairs of a coordination table one
atom, two centres and three frames suffice.  The cell of the main loop is 3 long
and an atom moves at most 1, which is less than half a cell, the condition under
which unwrapping can be right at all; all paths of 6 frames cross the cell
boundary both ways.  Four runs of the program are a first one, two restarts, and
one more after a crash that left one of the two files empty; 9 frames are three
windows of 3.  Matching looks at two atoms and their second best positions; the
third atom is the unknown one that occupies these, and distances 0 to 2 give every
order of three positions with ties.  A unit of 1/14 is about seven hundredths,
more than what rounding changes; one of 1/150 is less than a hundredth, so that
different distances become one cost.  11 frames of followed positions contain two
conflicts with a full window of 4 and a trim after each.  A MEMBERHISTORY of 2
needs 3 frames to go round.  8 frames of residence times trim the old window
twice with MaxTime 3 and TidyOld 1 or 2; the windows of 3 frames hold escapes
of 1 and 2 frames, and with them each limit kept, reached and exceeded.  `NumFrames`, `MaxFrames`, `frames`,
`MaxRuns`, `MaxSize` and `MaxDistance` are the bounds; nothing else is capped.

Symmetry is used where the names are interchangeable: the two restart files, the
two centres of the reaction run.  No temporal property but `SomeRestartRemains`,
an action property that treats the files alike, is checked with it.  Fairness
(`ttcf_window`, `loop`) is weak fairness of the next step: the program is one
thread that never waits for anything but the disk.

## 4. Proofs

Each proof module states one inductive invariant `IInv` and derives the
properties from it, for every value of the constants that the named ASSUMEs of
the modules admit.  TLC has checked each `IInv` on the run of its module.  What
the arguments are:

**The window** (`TTCF_proofs`, `TimeCorrelation_proofs`).
`TTCF_proofs` has the lemmas about the operators: the largest lag, the origins of
one call as an interval, the counters and the window after `correlate`, with a
trimmed window described by its length only.  None of the safety properties is
inductive: that an origin is counted once needs that the next correlation begins
where the last one ended, which needs the frames in between to be in the window,
which needs to know how far the last trim went.  `WindowInv` says that the window
is a contiguous end of the trajectory, that the flags agree and how long it is at
least; `CountsInv` says up to which origin has been counted, while running and,
with the loop variable, during the final action.  From it: `ExactlyOnce`,
`FinalExact`, `LagsAreTimes`, `FlagsStayAligned`, `PendingStored`, `Bounded`, and
`ImplementsLedger`, the refinement of `CorrelationLedger`: one step of the schedule
is one `Read`, one `Close`, or a stutter.  `PendingOriginsStored`, the property of
`PendingStored`, has no run of its own: `CountedExactlyOnce` could not hold
without it.  Assumed: members do not leave (`~MembersMayLeave`, which the
documentation demands of all actions but TMSDFollow, `docs/input.rst:1588`); and
for `FinalExact`, `PendingStored` and `ImplementsLedger` that the item is the first
of its frame (`Item = 0`), because for the others the final action loses a lag
(`ttcf.cpp:39`, section 3).

**Restart files** (`Restart_proofs`).  The counters of a run are not those of its
own frames alone, so the lemmas on `correlate` are restated relative to what was
there before (`ScheduledMore`, `FinalMore`): what a call adds does not depend on it.
The invariant says that the counters are those of the blocks read from the file
and of the run's own stretch, as far as the last correlation that was due
(`StretchInv`), that the window reaches back as far as the next correlation needs,
and what every file holds (`FilesInv`).  A file's number bounds its blocks unless
it was written too early (`rewound`); a run only stores frames beyond it, so blocks
are apart, and apart blocks count a pair at most once.  `ChainCounts` and
`CountedOnce` assume `Item = 0` or DontUseAllTimeOrigins, for the reason given above;
`RestartRemains` assumes nothing.

**Escape conditions** (`TimeCorrelation_proofs`).  The loop leaves in three
ways, and what it remembers (`doicare`, `resultisknown`) stands for conditions on
all the lags before.  The invariant says for every lag passed what was added, and
which way out was not taken so far; the counting loops over a history are compared
with windows of flags by least elements.  `Decreasing` needs no hypothesis.
`RulesAreFollowed` assumes `SensibleLists`: only member and value conditions have a
history (`addCondition` drops the numbers of the others, `actionttcfparent.cpp:73`);
a condition with a history of 0 does not at the same time have a tolerance in both
its numbers, which the code would not look at (section 3); and SoftStart is for the
first item of a frame (`ttcf.cpp:211` begins at another index for later ones).  The
lists of the run are of this kind.

**Following** (`Follow_proofs`).  In the matching two
vectors are inverse to each other for the atoms dealt with; a position that was
once wanted never becomes free again, hence an atom that is not at its best
position is at its second best, and the distances compared are real ones.
Without a conflict as many positions are taken as there are atoms, hence all
(`PositionsKept`).  For two atoms the two assignments are compared
(`TwoMovedLeast`): the loop finds the one that moves them least.  The Hungarian
method does so only up to two hundredths of its penalty, because `max_cost_assignment`
gets each cost as a rounded number of hundredths (`actiontmsdfollow.cpp:73`).  In the windows the invariant says since when a position has
been followed, that values, flags and old positions go back to the same frame and
far enough for the next correlation, and gives the chain of discretised
displacements in closed form: one each CorrelationFrequency frames.  Discretize is
only there when the code accepts it (`DiscretizeAllowed`,
`actiontmsdfollow.cpp:348`).

**Main loop** (`MainLoop_proofs`).  The frames read are a sequence that grows at its
end; under FrameNumbersMustIncrease the frames counted are those with a number
higher than any before.  A number of frames counted is related to the number handed
on by `First + SuperEvery * n`, and this to `mCount` through Every, so that the
frame of each call has a closed form (`ScheduleInv`).  Unwrapped coordinates differ
from the path by whole cells, and by none if no step is half a cell or more
(`UnwrapInv`); `PathIsFollowed` and `VelocitiesAreDisplacements` state this condition
as `Followable`, which also asks that no frame was read and then left out; in the
run it holds by the choice of the paths.  `HandledEvenly` is about settings
without Timesteps, and numbers that do not fall (`NumbersRise`, which
FrameNumbersMustIncrease ensures).  `FrameUnderWayIsFinished` rests on `InterruptInv`,
which follows the number of frames counted since Ctrl-C by whether the pass in which
it came is still under way, and on `HandedOver`, that every frame counted that is
wanted went to the actions.  That the results are written after it is liveness and
stays with TLC: `InterruptWritesResults` leaves out a Ctrl-C in a pass that is to open
another file or reads a frame with another number of atoms (`Endangered`), since
such a pass may end the program without any (`main.cpp:313` and `:465`).

**Reaction analysis** (`Reactions_proofs`).  What an action remembers is put as a
function of the frames read so far.  The three times of an element describe its
stays since the last frame in which it was a product or forbidden: the first of
them, the beginning of the last uninterrupted one, and the last (`TimesInv`).  A
counter of the external group's list is the age of a reported change
(`PendingInv`).  Slot `(j - 1) % RingSize` of the ring holds frame `j`, for the
last `RingSize` frames (`RingInv`).  A reported change is on the list, has been
averaged, or was reported when the ring was not yet full (`WindowInv`); that no
frame of a window was overwritten follows from the size of the ring, and the
number of products in it is one over frames by a bijection between frames and slots.
`ReactionsReported` has no condition.  `GroupFollows` asks for a positive
Duration: with 0 and no Delay an element is in the group for one frame all the
same.  `WindowsAreAveraged` and `BinsAreAligned` ask for SuperEvery 1, since the
bins are shifted otherwise, which run `reactions_superevery` shows; and for a
positive AfterTime, since with 0 a change is due in the frame that puts it on the
list, after the list was worked off, and nothing is ever averaged
(`actionwhengroupchanged.cpp:37`, the default at `readconfigfile.cpp:850`).

**Residence times** (`ResidenceTimes_proofs`).  What has been counted is a function
of the frames read: `Counted(lo, hi, last, G, H)` are the cardinalities, at each
lag, of the origins in `G` between `lo` and `hi` and of those at which `H` holds.
The invariant says that both windows hold the latest frames (`BaseInv`), how long
the old one is (`LengthInv`: from one trimming to the next it goes from `MaxTime`
to `TidyOld * MaxTime` frames, hence the remainder in `Phase`), and that the
results are `Counted` for the origins that are due (`SSPInv`, `MembersInv`,
`NewInv`).  One call adds the `Contribution` of one origin (`NextOrigin`), and a
later frame changes nothing of the origins already counted.  That the loops over
the lags (`vProductToBeSure`, `vBroken`, the loop of correlateFromOldIndex) find
what the definitions over the trajectory say is shown at the first lag at which
they would not.  `MembershipRight` needs no condition on the options it has (those of section 3, with
any numbers).  `FlagsCounted` relates the counters of frames outside to the frames of
the trajectory, by the same lemmas as for the Escape conditions, and their total
by a bijection.  A new limit that is not given is 1000000 in the code; the
property has none instead, which `LimitAssumption` (MaxTime is not larger) makes the
same.  An old limit that is not given is -1 and, since the members that are read
replace the 1000000 of the constructor, allows no frame outside
(`readconfigfile.cpp:1404-1405`), also when the other one is given.  To state the theorem
the origins lost had to be found: with OldMustBeMemberFor these are one more than
its value after each trimming.  `SurvivalRight` excludes Uncare, which run
`residence_uncare` is about; `ReplacementRight` is about the documented options
(`Documented`), which are those of the run, by its ASSUME `DocumentedOptions`, but for
the instances with NewMaxTotalEscapeTime, which the documentation does not mention.

**Groups** (`Groups_proofs`).  Here the constants are a whole configuration: any
DefineGroup commands that are read without an error, any atoms and any distances.
The groups are built by folds over lists of any length, and the provers have no
induction over data.  A fold is therefore unrolled into the run of its results
(`FoldRuns`), and what each step keeps holds up to the first step that does not
keep it, which does not exist.  Everything an operation of `CoordinationTables` does
is to add members and pairs (`Adds`), and so does a fold of such operations
(`AddsFold`): the lemmas `...Adds`, one for each kind of group, say with which
members and pairs it ends, and that it is `Sound`, that is, that its vectors are
parallel and every number is the size of its table.  While a BOND, a SUM or a copy
is at work the number of one atom may be wrong (`Numbered`); the number that a BOND
sets before it fills the table is right in the end because a from-atom comes once
and an atom that IncludeToGroup brought before its own turn has an empty table.
One frame is the run of the updates in the order of the definitions.  A group is
changed by one action only (`WriterFacts`: its own, or the BOND that comes after its
corresponding group), hence at the end of the frame it is what this action made of
groups that no later action has changed (`Made`, `FrameFacts`).  The invariant
`GroupsInv` says that all groups are sound and that the counters have counted
every frame (`CountsAll`), or, for the corresponding group of a static BOND, the
first one, after which it keeps its size (`CountsFirst`).  From it: `TypeCorrect`,
`NumbersRight`, `AveragesRight`.  For the refinement (`RelationsRight`) the invariant
has `RingsRight` in addition: the slots of a ring say in which of the last
`maxHistory` frames its atom was a member, each of these frames having a slot of
its own.  `RelationsRight` assumes `HistoriesFromStatic`: the parent of every
MEMBERHISTORY is static.  The rings are found by position in the parent and made
at the first update (`groupmemberhistory.cpp:14` and `:22`), so in a parent whose list
changes a ring would go on with the history of another atom; the documentation
(`docs/input.rst:434`) does not ask for a static parent.  The configuration of the run is
of this kind, by its ASSUME `ParentsStatic`.

Induction over data is out of the provers' reach, but where it is a statement
about a set of numbers it is replaced by the least element of the set
(`LeastElement`, from the library's theorem on well-founded relations).

Only model-checked: liveness (`EveryFrameBecomesOrigin`, `Terminates`,
`InterruptWritesResults`), and `OxygensClassified`, which is about the groups of one
example of the documentation.

## 5. Not modelled

Floating point numbers and what is computed from them; the file formats and the
parsing of the configuration, but for the order and constituents of DefineGroup;
printing, except the lines of ChangeGroupTime and the restart files; the
truncated last frame that `read_frame` accepts (`utility.cpp:149`) and a restart
file cut off in the middle (`actionttcf.cpp:265`), both reads of values nobody
wrote; the OpenMP loops over distances; the groups REGION, READ, SUBGROUPRANDOM
and GroupLogic, and those filled by ShortDelta and TMSDFollow; several items of a
coordination shell in one old window; `TCFResidenceTimeSwitchBond`, whose bonds
only switch between such items; the old MSD and VACF actions; ResidenceTime
without OldMustBeMember; ShortDelta, whose result is a histogram of differences
of distances; everything listed as `not_modelled` in `PROJECT.json`.

Mistakes seen in the code that are outside of what the modules can express:

- a ninth Escape condition has no flag vector (`ttcf.cpp:8`, `utility.cpp:897`);
- a restart file keeps six digits of the sums (`actionttcf.cpp:240`);
- `mDiscretizedInData` is never trimmed while no conflict occurs
  (`ttcfmsdfollow.cpp:22`);
- after the last frame the groups point to atoms that are gone (`main.cpp:298`),
  and a dump file that cannot be opened ends the program without the final
  actions (`main.cpp:313`);
- AfterTime 0, the default, adds an element in a frame whose list has already been
  worked off (`actionwhengroupchanged.cpp:37`);
- a flag is passed where a number is expected
  (`tcfresidencetimecontinuous.cpp:131`).

`src/src/include` holds dlib and tclap, third-party libraries of nearly all the
lines under `src/`.  Of these the program uses the option parser and
`max_cost_assignment`, which `FollowMatching` describes by its result.

## 6. Plan

Done: the window and its schedule, the Escape conditions, the main loop, restart
files, following, the reaction analysis, the residence times and the groups, all
with proofs.  Next:

1. `ActionShortDelta` with its ring, against a definition over the last frames.
2. `TCFResidenceTimeSwitchBond` over the items of a shell, with OverwriteInData.
3. The groups that are filled by actions or read from a file (READ, GroupLogic).
