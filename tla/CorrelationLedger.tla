-------------------------- MODULE CorrelationLedger --------------------------
(***************************************************************************)
(* What a time correlation function promises, without windows, trimming or *)
(* correlation schedules: a ledger with one entry per (lag, time origin).  *)
(* An origin is entered once, at every lag at the same time: while the     *)
(* trajectory is being read only when all MaxTime of its frames have been  *)
(* seen, and when the trajectory has ended with the lags that exist.       *)
(***************************************************************************)
EXTENDS Integers

CONSTANTS MaxTime, NumFrames

Lags   == 0 .. MaxTime - 1
Frames == 1 .. NumFrames

VARIABLES
  seen,     (* frames read so far                                          *)
  ledger,   (* ledger[dt][o]: times origin o was entered at lag dt         *)
  closed    (* the trajectory has ended                                    *)

vars == <<seen, ledger, closed>>

Fresh(o) == \A dt \in Lags : ledger[dt][o] = 0

(* Enter the origins in O at every lag whose partner frame is at most last *)
Enter(O, last) ==
  ledger' = [dt \in Lags |-> [o \in Frames |->
               ledger[dt][o] + IF o \in O /\ o + dt <= last THEN 1 ELSE 0]]

Init ==
  /\ seen = 0
  /\ ledger = [dt \in Lags |-> [o \in Frames |-> 0]]
  /\ closed = FALSE

Read ==
  /\ ~closed
  /\ seen' = seen + 1
  /\ closed' = FALSE
  /\ \E a, b \in 0 .. NumFrames + 1 :
       /\ \A o \in a .. b \cap Frames : Fresh(o) /\ o + MaxTime - 1 <= seen'
       /\ Enter(a .. b, seen')

Close ==
  /\ closed' = TRUE
  /\ UNCHANGED seen
  /\ \E a, b \in 0 .. NumFrames + 1 :
       /\ \A o \in a .. b \cap Frames : Fresh(o) /\ o <= seen
       /\ Enter(a .. b, seen)

Next == Read \/ Close

Spec == Init /\ [][Next]_vars

=============================================================================
