----------------------- MODULE MCCorrelateFromOldIndex -----------------------
(* Model-checking instances of CorrelateFromOldIndex.                      *)
EXTENDS CorrelateFromOldIndex

Condition(type, history, continuous, max, consequence) ==
  [type |-> type, history |-> history, continuous |-> continuous, max |-> max,
   negate |-> FALSE, softhistory |-> FALSE, consequence |-> consequence]

Not(c)  == [c EXCEPT !.negate = TRUE]
Soft(c) == [c EXCEPT !.softhistory = TRUE]

AllOptions == BOOLEAN \X BOOLEAN

(* One condition, with every history and every limit.  A history of 0 is   *)
(* the current frame alone, for which only the limit 0 makes sense.        *)
Limits == {<<0, 0, 0>>, <<-1, 0, 0>>, <<1, 1, -1>>, <<2, -1, 1>>, <<2, 1, -1>>,
           <<3, 2, 2>>, <<1, 0, -1>>}
Singles ==
  LET plain == {Condition(t, l[1], l[2], l[3], c) :
                  t \in {"OldMember", "NewMember", "NewValue1"},
                  l \in Limits,
                  c \in {"UncareRemaining", "ValueRemaining", "ValueThis"}}
  IN {<<c>> : c \in plain \cup {Not(d) : d \in plain} \cup {Soft(d) : d \in plain}}

(* The combinations the documentation recommends: the value at the origin  *)
(* limits the origins, and later events end or settle the result.  The     *)
(* coordination escapes are without a history: with one they do not do     *)
(* what the documentation says (actionttcfparent.cpp:73).                  *)
Origins  == {Condition("OldValue1", 0, 0, 0, "UncareRemaining"),
             Condition("OldMember", 1, 0, 0, "UncareRemaining"),
             Condition("OldCoordination", 0, 0, 0, "UncareRemaining")}
Events   == {Condition("NewMember", -1, 0, 0, c) : c \in {"UncareRemaining", "ValueRemaining"}}
            \cup {Condition("NewValue1", 0, 0, 0, c) : c \in Consequences}
            \cup {Not(Condition("NewValue2", 0, 0, 0, "ValueRemaining")),
                  Condition("NewCoordination", 0, 0, 0, "ValueRemaining")}
Pairs    == {<<o, e>> : o \in Origins, e \in Events}
            \cup {<<e, f>> : e \in {x \in Events : x.consequence = "ValueRemaining"},
                             f \in Events}
SinglesAndPairs == Singles \cup Pairs
=============================================================================
