------------------------- MODULE MCServiceLifecycle -------------------------
(* Two administrators, one daemon and a timer; the second release brings two *)
(* schema versions.  Several daemons make the run too long for what they     *)
(* add; the theorems are about any number of them.                           *)
EXTENDS ServiceLifecycle, TLC

CONSTANTS a, b, engine, timer

Order == <<engine>>
TimerOrder == <<timer>>
SchemaOf == <<1, 3>>
AdminSymmetry == Permutations({a, b})
NoCode == [m \in {a, b, engine} |-> 1]

=============================================================================
