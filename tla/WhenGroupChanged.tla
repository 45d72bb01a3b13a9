-------------------------- MODULE WhenGroupChanged --------------------------
(***************************************************************************)
(* ActionWhenGroupChanged: a ring of the last BeforeTime + AfterTime + 1   *)
(* frames of a property of every atom, and the average of the property     *)
(* around the moments at which ChangeGroupTime reported a change.          *)
(*                                                                         *)
(* The property saved at a frame is abstracted to the number of the frame  *)
(* (its iteration), or to 0, which for bond lengths means "no bond".  The  *)
(* histogram is kept as the set of what was added to it for each change:   *)
(* bins[k] is the value added to the k-th bin, Skipped if none was.        *)
(***************************************************************************)
EXTENDS ReactionSettings, FiniteSets

VARIABLES
  saveCount,   (* mCount of this action                                     *)
  saved,       (* mvSavedData, mvIsProduct and mvIsReactant                 *)
  toDo,        (* mvToDo; an entry changes at most once per frame           *)
  histogram    (* mHisto                                                    *)

saveVars == <<saveCount, saved, toDo, histogram>>

Skipped == -1

RingSize == BeforeTime + AfterTime + 1
Ring     == 0 .. RingSize - 1
Blank    == [data |-> 0, isProduct |-> FALSE, isReactant |-> FALSE]

SaveInit ==
  /\ saveCount = 0
  /\ saved = [a \in Atoms |-> [k \in Ring |-> Blank]]
  /\ toDo = {}
  /\ histogram = {}

(* The ring of atom a after the frame is saved.                            *)
Saved(a, data, reactants, products) ==
  [saved[a] EXCEPT ![saveCount % RingSize] =
     [data       |-> data[a],
      isProduct  |-> ProductMustBe /\ a \in products,
      isReactant |-> ReactantMustBe /\ a \in reactants]]

ReadyToGo(ring) ==
  /\ BondProperty => \A k \in Ring : ring[k].data # 0
  /\ ProductMustBe /\ MinProductTime > 0 =>
       Cardinality({k \in Ring : ring[k].isProduct}) >= MinProductTime

(* The ring is read from the element after finalelem, the newest, on.      *)
Oldest(n) == n % RingSize

(* What is added to the bins for a ring with n frames saved.               *)
Bins(ring, n) ==
  [k \in Ring |->
     LET e == ring[(Oldest(n) + k) % RingSize]
     IN IF \/ ProductMustBe /\ k > BeforeTime + 1 /\ ~e.isProduct
           \/ ReactantMustBe /\ k < BeforeTime \div 2 /\ ~e.isReactant
        THEN Skipped ELSE e.data]

(* Mutated form: everything that is overdue is worked off, too.            *)
Due_Overdue(it) == {t \in toDo : saveCount + 1 > RingSize /\ it >= t.time}

(* What checkToDoList works off at iteration it.                           *)
Due(it) == {t \in toDo : saveCount + 1 > RingSize /\ it = t.time}

(* internalAction at iteration it, followed in the same frame by a call of *)
(* addNewChange for each entry of changed: WhenGroupChanged stands before  *)
(* ChangeGroupTime in the configuration file.                              *)
WhenGroupChangedAction(it, data, reactants, products, changed) ==
  LET rings == [a \in Atoms |-> Saved(a, data, reactants, products)] IN
  /\ saveCount' = saveCount + 1
  /\ saved' = rings
  /\ histogram' = histogram \cup
       {[entry |-> t.entry, time |-> t.time, bins |-> Bins(rings[t.entry.atom], saveCount + 1)] :
          t \in {d \in Due(it) : ReadyToGo(rings[d.entry.atom])}}
  /\ toDo' = (toDo \ Due(it)) \cup {[entry |-> e, time |-> it + AfterTime] : e \in changed}

=============================================================================
