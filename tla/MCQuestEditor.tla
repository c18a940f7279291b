--------------------------- MODULE MCQuestEditor ---------------------------
(***************************************************************************)
(* The editor's server with two clients at work on campaigns or on projects. *)
(* The two halves share nothing but the process, so a behaviour works on one *)
(* of them and their state spaces add.                                       *)
(***************************************************************************)
EXTENDS CampaignEditor, ProjectEditor, TLC

CONSTANTS c1, c2, elwynn, P1, P2

OwnFiles == elwynn :> "elwynn"
KillThenLoot == <<"kill", "loot">>
EditorSymmetry == Permutations({c1, c2}) \cup Permutations({P1, P2})

VARIABLE half

EditorInit ==
    /\ half \in {"campaigns", "projects"}
    /\ CampaignInit
    /\ ProjectInit
    /\ IF half = "projects" THEN file["elwynn"] = NoFile ELSE \A n \in Projects : dir[n] = Absent

EditorNext ==
    /\ UNCHANGED half
    /\ \/ half = "campaigns" /\ CampaignNext /\ UNCHANGED projectVars
       \/ half = "projects" /\ ProjectNext /\ UNCHANGED campaignVars

EditorSpec == EditorInit /\ [][EditorNext]_<<half, campaignVars, projectVars>>
=============================================================================
