------------------------------ MODULE Reactions ------------------------------
(***************************************************************************)
(* The reaction analysis: ChangeGroupTime finds the atoms that turn from   *)
(* reactants into products and hands each of them to a WhenGroupChanged    *)
(* and a WhenGroupChangedDefineGroup action, which stand before it in the  *)
(* configuration file and so have already run in the frame.                *)
(*                                                                         *)
(* A frame is what the three actions see of it: which atoms are reactants, *)
(* products and members of the ParentGroup of the defined group, and which *)
(* have no bond.  trajectory is the history of the frames; everything the  *)
(* program keeps instead of it is in the variables of the three modules.   *)
(***************************************************************************)
EXTENDS ChangeGroupTime, WhenGroupChanged, WhenGroupChangedDefineGroup, Sequences,
        FiniteSetsExt

VARIABLE trajectory

vars == <<settings, changeVars, saveVars, groupVars, trajectory>>

Given(option, set) == IF option THEN SUBSET set ELSE {{}}

Frames == [reactants : SUBSET Entries, products : SUBSET Entries,
           cannotBe  : Given(CheckCoordinationTable, Entries),
           parents   : Given(FromParentGroup, Atoms),
           unbonded  : Given(BondProperty, Atoms)]

(* The members of a group, whose coordination tables the entries are.      *)
Members(entries) == {e.centre : e \in entries}

(* timestep->iteration at the k-th frame used.                             *)
Iteration(k) == 1 + (k - 1) * SuperEvery

Init ==
  /\ settings \in Settings
  /\ ChangeInit /\ SaveInit /\ GroupInit
  /\ trajectory = <<>>

(* One pass of the main loop over the three actions.                       *)
Frame(f) ==
  LET it      == Iteration(Len(trajectory) + 1)
      changed == Changed(it, f)
      data    == [a \in Atoms |-> IF a \in f.unbonded THEN 0 ELSE it]
  IN /\ WhenGroupChangedAction(it, data, Members(f.reactants), Members(f.products), changed)
     /\ DefineGroupAction(f.parents, {e.atom : e \in changed})
     /\ ChangeGroupTimeAction(it, f)
     /\ trajectory' = Append(trajectory, f)
     /\ UNCHANGED settings

Next == Len(trajectory) < MaxFrames /\ \E f \in Frames : Frame(f)

Spec == Init /\ [][Next]_vars

-----------------------------------------------------------------------------
(* The times of an atom that is entered at all are in order and in the     *)
(* past, the ring holds frames of the past, and what is still to be done   *)
(* belongs to atoms whose property is saved.                               *)
TypeOK ==
  LET now == IF trajectory = <<>> THEN 0 ELSE Iteration(Len(trajectory)) IN
  /\ \A e \in Entries :
       LET times == entered[e]
       IN /\ 0 <= times.first /\ times.first <= times.continuous
          /\ times.continuous <= times.last /\ times.last <= now
  /\ memberBefore \in [Entries -> BOOLEAN]
  /\ saveCount = Len(trajectory)
  /\ \A a \in Atoms, k \in Ring : saved[a][k].data \in 0 .. now
  /\ toDo \subseteq [entry : Entries, time : 1 .. now + AfterTime]
  /\ pending \subseteq [atom : Atoms, duration : 1 .. Duration, delay : 0 .. Delay]
  /\ group \subseteq Atoms

-----------------------------------------------------------------------------
(* Expected results, from the trajectory alone.  Frames are numbered       *)
(* 1 .. Len(trajectory) here.                                              *)

IsReactant(e, k)  == e \in trajectory[k].reactants
IsProduct(e, k)   == e \in trajectory[k].products
IsForbidden(e, k) == e \in trajectory[k].cannotBe

LastEndBefore(e, k) == Max({0} \cup {j \in 1 .. k - 1 : IsProduct(e, j) \/ IsForbidden(e, j)})

(* The frames up to k in which e was a reactant since it was last a        *)
(* product or forbidden, a stay it was in the middle of then not counting. *)
StaysBefore(e, k) ==
  LET p == LastEndBefore(e, k)
  IN {j \in p + 1 .. k :
        IsReactant(e, j) /\ ~(p > 0 /\ \A i \in p .. j : IsReactant(e, i))}

Reactions(e) ==
  {k \in 1 .. Len(trajectory) :
     LET stays == StaysBefore(e, k)
     IN /\ IsProduct(e, k) /\ ~IsForbidden(e, k) /\ stays # {}
        /\ Iteration(Max(stays)) - Iteration(Min(stays)) >= MinReactantTime
        /\ Iteration(k) - Iteration(Max(stays)) <= MaxReactionTime}

(* First frame of the last uninterrupted stay.                             *)
LastStayBegins(e, k) ==
  LET stays == StaysBefore(e, k)
  IN Min({j \in stays : j .. Max(stays) \subseteq stays})

ExpectedLine(e, k) ==
  [entry |-> e, product |-> Iteration(k),
   times |-> [first      |-> Iteration(Min(StaysBefore(e, k))),
              continuous |-> Iteration(LastStayBegins(e, k)),
              last       |-> Iteration(Max(StaysBefore(e, k)))]]

(* What ChangeGroupTime prints is exactly one line for each reaction of    *)
(* the trajectory, with the first frame, the beginning of the last         *)
(* uninterrupted stay and the last frame as a reactant, however often it   *)
(* left and re-entered the groups before.  With CheckCoordinationTable a   *)
(* reaction is the one of a bond: the atom leaves and appears at the same  *)
(* centre (docs/input.rst:246), and a stay that CannotBe has ended counts  *)
(* again only after the bond was broken (actionchangegrouptime.cpp:129).   *)
ReportsReactions ==
  /\ TypeOK
  /\ reported = UNION {{ExpectedLine(e, k) : k \in Reactions(e)} : e \in Entries}

(* The frame whose property goes to the bin k for a reaction at frame T.   *)
BinFrame(T, k) == T - BeforeTime + k

(* Membership of the atom of e in the groups, whatever the tables.         *)
HasReactant(e, k) == e.atom \in Members(trajectory[k].reactants)
HasProduct(e, k)  == e.atom \in Members(trajectory[k].products)

ExpectedBins(e, T) ==
  [k \in Ring |->
     IF \/ ProductMustBe /\ k > BeforeTime + 1 /\ ~HasProduct(e, BinFrame(T, k))
        \/ ReactantMustBe /\ k < BeforeTime \div 2 /\ ~HasReactant(e, BinFrame(T, k))
     THEN Skipped ELSE Iteration(BinFrame(T, k))]

(* The reactions with a whole window of frames around them in which the    *)
(* property exists and the atom is a product often enough.                 *)
Averaged(e, windows) ==
  {T \in Reactions(e) \cap windows :
     LET frames == {BinFrame(T, k) : k \in Ring}
     IN /\ frames \subseteq 1 .. Len(trajectory)
        /\ \A j \in frames : e.atom \notin trajectory[j].unbonded
        /\ ProductMustBe /\ MinProductTime > 0 =>
             Cardinality({j \in frames : HasProduct(e, j)}) >= MinProductTime}

ExpectedHistogram(windows) ==
  UNION {{[entry |-> e, time |-> Iteration(T) + AfterTime, bins |-> ExpectedBins(e, T)] :
            T \in Averaged(e, windows)} : e \in Entries}

(* The histogram of WhenGroupChanged holds the window of BeforeTime frames *)
(* before to AfterTime frames after each reaction, in order, bin by bin,   *)
(* and of nothing else.  The very first window the ring can hold is left   *)
(* out, because internalAction begins with the to-do list one frame after  *)
(* the ring is full.                                                       *)
WindowsAveraged ==
  histogram = ExpectedHistogram(BeforeTime + 2 .. MaxFrames)

(* Each bin that is filled holds the property at its own distance from the *)
(* reaction, in the frames that are used.                                  *)
BinsAligned ==
  \A h \in histogram, k \in Ring :
    h.bins[k] \in {Skipped, h.time - AfterTime + (k - BeforeTime) * SuperEvery}

(* The defined group holds, at every frame, the atoms that were fed in     *)
(* Delay to Delay + Duration - 1 frames before, by ChangeGroupTime or from *)
(* the ParentGroup, and no others.                                         *)
GroupFollowsReactions ==
  LET now == Len(trajectory)
      FedAt(k) == trajectory[k].parents \cup {e.atom : e \in {d \in Entries : k \in Reactions(d)}}
  IN group = UNION {FedAt(k) : k \in {j \in 1 .. now :
                      /\ j + Delay <= now
                      /\ now < j + Delay + Duration}}

=============================================================================
