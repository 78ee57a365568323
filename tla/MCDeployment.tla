---------------------------- MODULE MCDeployment ----------------------------
(***************************************************************************)
(* The working trees of the model-checked instance of Deployment: the      *)
(* first, a later one, the later one with stale literals in the H2 patch,  *)
(* one whose bootstrap does not pin its files, and the first with one part *)
(* of the template edited.                                                 *)
(***************************************************************************)
EXTENDS Deployment

CONSTANTS v1, v2,
          Edits    \* bound: the parts a tree has edited

TreeOf(v, pins) == [boot |-> v, files |-> v, pins |-> pins, text |-> {}, gates |-> {}]

MCTrees ==
  {TreeOf(v1, v1), TreeOf(v2, v2), TreeOf(v2, v1), [TreeOf(v1, v1) EXCEPT !.files = v2]}
    \cup {[TreeOf(v1, v1) EXCEPT !.text = {part}] : part \in Edits}

=============================================================================
