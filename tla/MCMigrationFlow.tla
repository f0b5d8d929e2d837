--------------------------- MODULE MCMigrationFlow ---------------------------
EXTENDS MigrationFlow

\* Two workspaces with a project each; the first project has a draft of the
\* development environment, the second has none.
MCWorkspaces == {1, 2}
MCProjects == {11, 12}
MCVersions == {21, 22}
MCWorkspaceOf == [p \in MCProjects |-> p - 10]
MCProjectOf == [v \in MCVersions |-> v - 10]
MCSchemaOf == [v \in MCVersions |-> IF v = 21 THEN "13.1" ELSE "12"]
MCDrafts == {21}

\* A name, and a name that begins with a number of the list.
MCNames == {"bots", "1st", "yes"}
MCRank == [x \in MCNames |-> CASE x = "1st" -> 1 [] x = "bots" -> 2 [] x = "yes" -> 3]
MCFirstFolders == [id \in {7} |-> [workspace |-> 2, name |-> "bots", there |-> TRUE]]
MCLeading == [x \in MCNames |-> IF x = "1st" THEN 1 ELSE 0]

Config(workspace, project, version, destination, folder, schema, secrets) ==
    [source_workspace |-> workspace, source_project |-> project, source_version |-> version,
     destination_workspace |-> destination, folder |-> folder, schema |-> schema,
     secrets |-> secrets]

\* The source asked for; the folder asked for; everything configured, with a
\* folder by name and by ID; a version that needs the question.
MCConfigs ==
    {Config(Unset, Unset, Unset, 2, Named("bots"), "12", TRUE),
     Config(1, 11, Unset, 2, Blank, "unset", TRUE),
     Config(1, 11, 21, 2, Named("bots"), "13.1", FALSE),
     Config(2, 12, Unset, Unset, Number(7), "unset", TRUE)}
=============================================================================
