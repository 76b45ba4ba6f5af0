--------------------------- MODULE MCEvidenceChain ---------------------------
(***************************************************************************)
(* One chain of an implementer, a reviewer and a verifier, whose turns are  *)
(* e1 to e4 in the order of the stages; a dependent t that waits for the    *)
(* verifier; the implementer's task may be updated once.                    *)
(***************************************************************************)
EXTENDS EvidenceChain

CONSTANTS i, r, v, t, ai, ar, av, e1, e2, e3, e4, m, d, ch, owner, seed

MCTaskOf == [x \in Incarnation |->
  IF x = i THEN "implementer" ELSE IF x = r THEN "reviewer"
  ELSE IF x = v THEN "verifier" ELSE "dependent"]
MCRegistration == [x \in Incarnation |->
  {<<NoRun, IF x = i THEN ai ELSE IF x = r THEN ar ELSE IF x = v THEN av ELSE NoRef,
     "running">>}]
MCMaxTaskRev == [x \in Incarnation |-> IF x = i THEN 1 ELSE 0]
MCOwnerOf == [x \in Incarnation |-> owner]
MCTerms == {[prerequisite |-> x, dependent |-> t, relationship |-> Unrelated,
             fresh |-> {}, expires |-> 1] : x \in {r, v}}
MCEvent == [x \in Message |->
  [sender |-> v, target |-> t, relationship |-> "r", fresh |-> {}, expires |-> 2]]
MCActorOf == [x \in Execution |-> IF x = e2 THEN r ELSE IF x = e4 THEN v ELSE i]
MCToolsOf == [x \in Execution |->
  IF x = e2 THEN {"report_review_finding"} ELSE IF x = e4 THEN {"verify_exact_chain"}
  ELSE IF x = e1 THEN {"publish_artifact"} ELSE {"publish_dependency"}]
MCTool == {StageTool[n] : n \in 1..4}
MCRolesOf == [x \in Chain |-> [implementer |-> i, reviewer |-> r, verifier |-> v]]
MCChainOf == [x \in Execution |-> ch]
MCMessageOf == [x \in Execution |-> IF Message = {} THEN NoMessage ELSE m]
=============================================================================
