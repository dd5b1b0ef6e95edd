----------------------------- MODULE MCApprovals -----------------------------
(* Two of the paths of src/ai/governance/software-engineering/manifest.yaml: *)
(* change_sourced and design_sourced.                                        *)
EXTENDS Approvals

MCStages == <<"change", "prompt", "implement", "accept">>
MCPaths == [s \in {"change", "prompt"} |->
               IF s = "change" THEN {"change", "prompt", "implement", "accept"}
               ELSE {"prompt", "implement", "accept"}]

Change == [stage |-> "change", name |-> "change"]
Prompt == [stage |-> "prompt", name |-> "prompt"]
Closed == [stage |-> "prompt", name |-> "closed"]
MCDocuments == {Change, Prompt, Closed}

MCEarlier == <<"change", "prompt", "accept">>

=============================================================================
