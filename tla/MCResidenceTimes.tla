-------------------------- MODULE MCResidenceTimes --------------------------
(* Instances of ResidenceTimes for TLC: the commands with the options of   *)
(* the documentation.                                                      *)
EXTENDS ResidenceTimes

Command(command, tidyOld) ==
  [command |-> command, tidyOld |-> tidyOld, mustBe |-> "none", otherwise |-> "product",
   mustBeFor |-> 0, oldMaxEscape |-> -1, oldMaxTotalEscape |-> -1,
   maxEscape |-> -1, maxTotalEscape |-> -1, newMustBe |-> FALSE, recrossings |-> FALSE,
   conditions |-> Absorbing, frames |-> NumFrames]

SSP == {[Command("ssp", tidy) EXCEPT !.frames = 6] : tidy \in 0 .. 2}
       \cup {[Command("ssp", 0) EXCEPT !.frames = 6, !.conditions = <<IsValue>>]}

Shells(otherwise) ==
  {[Command("sspshell", 1) EXCEPT !.mustBe = m, !.otherwise = otherwise, !.frames = 4] :
     m \in {"center", "shell"}}

Members(tidy, maxEscape, newMustBe, recrossings) ==
  [Command("continuous", tidy) EXCEPT
     !.maxEscape = maxEscape, !.newMustBe = newMustBe, !.recrossings = recrossings,
     !.conditions = MemberOptions(maxEscape, newMustBe, recrossings)]

Continuous ==
  {Members(tidy, maxEscape, newMustBe, recrossings) :
     tidy \in 0 .. 2, maxEscape \in -1 .. 1, newMustBe \in BOOLEAN, recrossings \in BOOLEAN}
  \cup {[Members(tidy, -1, FALSE, FALSE) EXCEPT !.mustBeFor = 1] : tidy \in {0, 2}}

(* The limits on the frames outside that the documentation does not give.  *)
TotalEscapes ==
  {[Members(2, maxEscape, newMustBe, recrossings) EXCEPT !.maxTotalEscape = total] :
     maxEscape \in {-1, 1}, total \in 0 .. 2, newMustBe \in BOOLEAN, recrossings \in BOOLEAN}

OldEscapes ==
  {[Members(tidy, 1, FALSE, FALSE) EXCEPT
      !.mustBeFor = 2, !.oldMaxEscape = escape, !.oldMaxTotalEscape = total] :
     tidy \in {0, 2}, escape \in -1 .. 1, total \in -1 .. 2}

AllCommands    == SSP \cup Shells("product") \cup Continuous
                  \cup TotalEscapes \cup OldEscapes
UncareCommands == Shells("uncare")

ASSUME DocumentedOptions ==
  \A s \in (AllCommands \cup UncareCommands) \ TotalEscapes : Documented(s)

=============================================================================
