------------------------ MODULE MCMigrationWorkflow ------------------------
EXTENDS MigrationWorkflow

\* Two workspaces share a name.
MCWorkspaces == {[id |-> "W1", label |-> "team"], [id |-> "W2", label |-> "sales"],
                 [id |-> "W3", label |-> "sales"]}

MCProjects ==
    {[id |-> "P1", label |-> "bot", workspaceID |-> "W1",
      versions |-> {[id |-> "V1", label |-> "draft", development |-> TRUE],
                    [id |-> "V2", label |-> "published", development |-> FALSE]}]}

\* The name asked for, "bots", is that of a folder of another workspace; a
\* folder of the destination has it with something in parentheses.
MCFolders == {[id |-> "11", label |-> "misc", workspaceID |-> "W2"],
              [id |-> "12", label |-> "bots", workspaceID |-> "W1"]}
MCFolderIDs == {"11", "12", "13", "14"}
MCLabels == {"misc", "bots", "bots (old)"}
MCNames == MCFolderIDs \cup MCLabels \cup
           {"W1", "W2", "W3", "P1", "V1", "V2", "team", "sales", "bot", "draft",
            "published", "12", "13.1"}
MCStripped == [l \in MCLabels |-> IF l = "bots (old)" THEN "bots" ELSE l]

File(folder, byPath, version, schema, secrets) ==
    [source_workspace |-> "team", source_project |-> "bot", source_version |-> version,
     destination_workspace |-> "W2", destination_folder |-> folder, by_path |-> byPath,
     target_schema_version |-> schema, secrets |-> secrets]

\* A folder to create, a folder that is there, a name no one folder has, and a
\* source whose workspace is not the only one of its name.
MCConfigs ==
    {File("bots", TRUE, None, None, FALSE),
     File("misc", FALSE, "published", "13.1", TRUE),
     File("bots (old)", TRUE, "V1", None, FALSE),
     File(None, FALSE, None, None, FALSE),
     [File("misc", TRUE, None, None, FALSE) EXCEPT !.source_workspace = "sales"]}

\* destination_folder with the name of a folder that is not there.
MCNamedFolder == {File("bots", FALSE, None, None, FALSE)}

\* The folder that is there is called "bots (old)".
MCSuffixed == {[id |-> "11", label |-> "bots (old)", workspaceID |-> "W2"]}
MCSuffixedConfig == {File("bots (old)", TRUE, None, None, FALSE)}
=============================================================================
