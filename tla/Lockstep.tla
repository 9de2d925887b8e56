------------------------------ MODULE Lockstep ------------------------------
(***************************************************************************)
(* What the co-simulation scoreboard promises: every thread's retired      *)
(* instructions are compared with the reference model one at a time and in *)
(* retirement order, nothing is compared under reset, a reset forgets what *)
(* was not compared yet, and the verdict is PASS exactly when something    *)
(* was compared since the last start and nothing compared was found bad.   *)
(***************************************************************************)
EXTENDS Integers, Sequences

CONSTANTS
  Threads,      \* harts
  Items,        \* retired instructions, records with a field tid
  Notice(_)     \* items that report an event and are not stepped

VARIABLES
  backlog,      \* [Threads -> retired instructions not yet compared]
  clean,        \* nothing compared since the last start was bad
  compared,     \* some instruction was stepped since the last start
  phase,        \* "reset", "run", "fatal" or "done"
  verdict

vars == <<backlog, clean, compared, phase, verdict>>

Init ==
  /\ backlog = [t \in Threads |-> <<>>]
  /\ clean = TRUE /\ compared = FALSE
  /\ phase = "reset" /\ verdict = "none"

Retire(i) ==
  /\ phase = "run"
  /\ backlog' = [backlog EXCEPT ![i.tid] = Append(@, i)]
  /\ UNCHANGED <<clean, compared, phase, verdict>>

Check(t) ==
  /\ phase = "run"
  /\ backlog[t] # <<>>
  /\ backlog' = [backlog EXCEPT ![t] = Tail(@)]
  /\ clean' \in {clean, FALSE}
  /\ \/ /\ compared' = (compared \/ ~Notice(Head(backlog[t])))
        /\ UNCHANGED phase
     \/ /\ ~Notice(Head(backlog[t])) /\ ~clean'
        /\ phase' = "fatal"
        /\ UNCHANGED compared
  /\ UNCHANGED verdict

Reset ==
  /\ phase = "run"
  /\ phase' = "reset"
  /\ backlog' = [t \in Threads |-> <<>>]
  /\ UNCHANGED <<clean, compared, verdict>>

Start ==
  /\ phase = "reset"
  /\ phase' = "run"
  /\ clean' = TRUE /\ compared' = FALSE
  /\ UNCHANGED <<backlog, verdict>>

Report ==
  /\ phase \in {"reset", "run"}
  /\ phase' = "done"
  /\ verdict' \in IF clean /\ compared THEN {"PASS"} ELSE {"FAIL", "silent"}
  /\ verdict' = "silent" => ~compared
  /\ UNCHANGED <<backlog, clean, compared>>

Next == \/ \E i \in Items : Retire(i)
        \/ \E t \in Threads : Check(t)
        \/ Reset \/ Start \/ Report

Spec == Init /\ [][Next]_vars
=============================================================================
