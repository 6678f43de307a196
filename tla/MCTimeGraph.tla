------------------------------ MODULE MCTimeGraph ------------------------------
(***************************************************************************)
(* The two parts of the time graph for TLC: a chain of boxes and the core  *)
(* time line.  They share no state, since TimeGraph::Clear empties the one *)
(* and leaves the other alone, so each behaviour explores one of them.     *)
(***************************************************************************)
EXTENDS BlockChain, CoreActivity, TLC

VARIABLE part

MCInit ==
  /\ Init /\ ActivityInit
  /\ part \in {"chain", "cores"}
  /\ part = "cores" => role = "timeGraph"

MCNext == \/ part = "chain" /\ Next /\ UNCHANGED <<part, activityVars>>
          \/ part = "cores" /\ ActivityNext /\ UNCHANGED <<part, vars>>

\* The cores are alike, and so are the threads.
Symmetry == Permutations(Cores) \cup Permutations(Threads)

MCSpec == MCInit /\ [][MCNext]_<<part, vars, activityVars>>
===============================================================================
