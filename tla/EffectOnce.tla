------------------------------ MODULE EffectOnce ------------------------------
(***************************************************************************)
(* What FAAR promises of every intent, without saying how: its budget is   *)
(* reserved once, the venue admits it at most once and only while the      *)
(* budget is held, what it fills is bounded by its size, and the budget is *)
(* committed or released once, released only when nothing was filled and   *)
(* nothing can be any more.                                                *)
(***************************************************************************)
EXTENDS Naturals

CONSTANTS Intents, Size

VARIABLES
  budget,      \* what became of the intent's reservation
  admissions,  \* how many requests the venue admitted for the intent
  filled,      \* the amount the venue has filled
  closed       \* the venue's order is in a final state

effectVars == <<budget, admissions, filled, closed>>

EffectInit ==
  /\ budget = [i \in Intents |-> "NONE"]
  /\ admissions = [i \in Intents |-> 0]
  /\ filled = [i \in Intents |-> 0]
  /\ closed = [i \in Intents |-> FALSE]

Reserve(i) ==
  /\ budget[i] = "NONE"
  /\ budget' = [budget EXCEPT ![i] = "HELD"]
  /\ UNCHANGED <<admissions, filled, closed>>

Admit(i) ==
  /\ budget[i] = "HELD" /\ admissions[i] = 0
  /\ admissions' = [admissions EXCEPT ![i] = 1]
  /\ UNCHANGED <<budget, filled, closed>>

Execute(i) ==
  /\ budget[i] = "HELD" /\ admissions[i] = 1 /\ ~closed[i]
  /\ \E total \in filled[i] .. Size : filled' = [filled EXCEPT ![i] = total]
  /\ \E final \in BOOLEAN : closed' = [closed EXCEPT ![i] = final]
  /\ UNCHANGED <<budget, admissions>>

Commit(i) ==
  /\ budget[i] = "HELD" /\ closed[i] /\ filled[i] > 0
  /\ budget' = [budget EXCEPT ![i] = "COMMITTED"]
  /\ UNCHANGED <<admissions, filled, closed>>

Release(i) ==
  /\ budget[i] = "HELD" /\ filled[i] = 0
  /\ admissions[i] = 0 \/ closed[i]
  /\ budget' = [budget EXCEPT ![i] = "RELEASED"]
  /\ UNCHANGED <<admissions, filled, closed>>

EffectNext ==
  \E i \in Intents : Reserve(i) \/ Admit(i) \/ Execute(i) \/ Commit(i) \/ Release(i)

EffectSpec == EffectInit /\ [][EffectNext]_effectVars
=============================================================================
