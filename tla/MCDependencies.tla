--------------------------- MODULE MCDependencies ---------------------------
(***************************************************************************)
(* The instance of Dependencies for TLC: a dependent t, a prerequisite p1   *)
(* with its next incarnation p2, one message of each, and two dependencies  *)
(* that may take either of two terms: one on p1 and bound to the runtime    *)
(* r1, the other on p2 and short-lived.                                     *)
(***************************************************************************)
EXTENDS Dependencies, TLC

CONSTANTS p1, p2, t, r1, r2, m1, m2, d1, d2, owner, policy

MCTaskOf == [i \in Incarnation |-> IF i = t THEN "dependent" ELSE "prerequisite"]

MCRegistration == [i \in Incarnation |->
  {<<IF i = t THEN r1 ELSE NoRun, NoRef, "waiting">>}]

MCMaxTaskRev == [i \in Incarnation |-> IF i = t THEN 2 ELSE 0]

\* The owner of p1 and of the dependent does not own p2, so only a policy may
\* tie those two.
MCOwnerOf == [i \in Incarnation |-> IF i = p2 THEN policy ELSE owner]

Edge(from, to, rel, fresh, expires) ==
  [prerequisite |-> from, dependent |-> to, relationship |-> rel, fresh |-> fresh,
   expires |-> expires]

MCTerms == {Edge(p1, t, "r", {r1}, 9), Edge(p2, t, Unrelated, {}, 1)}

MCEvent == [m \in Message |->
  [sender |-> IF m = m1 THEN p1 ELSE p2, target |-> t, relationship |-> "r",
   fresh |-> IF m = m1 THEN {r1} ELSE {}, expires |-> 2]]

\* Nothing tells the two dependencies apart but what is written of them.
Symmetry == Permutations({d1, d2})
=============================================================================
