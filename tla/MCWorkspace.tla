----------------------------- MODULE MCWorkspace ----------------------------
(***************************************************************************)
(* Small instances for TLC of the parts of a workspace that keep files of  *)
(* their own.  They share no state and no part reads a file of another's,  *)
(* so a behaviour in which all of them step is an interleaving of six that *)
(* do not meet: each behaviour here is of one part.                        *)
(***************************************************************************)
EXTENDS Scaffold, Wiki, AIContext, CloudArchive, StateMigration, Repos

VARIABLE part  \* the part whose behaviour this is

\* Version 2 has new text but for the git tree, and two files more.
MCTemplates ==
    << [f \in {"rc", "ignore"} |-> "a"],
       [f \in {"rc", "ignore", "doc", "agent"} |-> IF f = "ignore" THEN "a" ELSE "b"] >>
MCAnswers == {[name |-> "p", git |-> TRUE, bmad |-> TRUE],
              [name |-> "", git |-> FALSE, bmad |-> FALSE]}

MCOrgOf(i) == IF i = "i1" THEN "o1" ELSE ""
MCTags == {<<"go">>, <<"db">>}

\* A file in the root, one of a ticket, one that is private to it, and a link.
MCSymlinks == {<<"wiki", "link">>}
MCPaths == {<<"CLAUDE.md">>, <<"tickets", "t1", "notes.md">>,
            <<"tickets", "t1", "communications", "mail.md">>} \cup MCSymlinks

MCLegacyFiles == <<"db", "wal">>

\* One ticket spans the first clone; that of the second is archived.
MCRepoTasks == {[id |-> 1, repo |-> "r1", initiative |-> "i1", archived |-> FALSE],
                [id |-> 2, repo |-> "r2", initiative |-> "i1", archived |-> TRUE]}

\* The other parts stay in one initial state.
Init ==
    /\ part \in {"scaffold", "wiki", "context", "cloud", "migration", "repos"}
    /\ ScaffoldInit /\ WikiInit /\ ContextInit /\ CloudInit /\ MigrationInit /\ ReposInit
    /\ part # "migration" => ~crossDevice /\ \A f \in Files : legacy[f] = NoFile
    /\ part # "repos" => \A r \in Repos : clone[r] = NewClone({"main"}, "main")

Next ==
    \/ /\ part = "scaffold" /\ ScaffoldNext
       /\ UNCHANGED <<part, wikiVars, contextVars, cloudVars, migrationVars, reposVars>>
    \/ /\ part = "wiki" /\ WikiNext
       /\ UNCHANGED <<part, scaffoldVars, contextVars, cloudVars, migrationVars, reposVars>>
    \/ /\ part = "context" /\ ContextNext
       /\ UNCHANGED <<part, scaffoldVars, wikiVars, cloudVars, migrationVars, reposVars>>
    \/ /\ part = "cloud" /\ CloudNext
       /\ UNCHANGED <<part, scaffoldVars, wikiVars, contextVars, migrationVars, reposVars>>
    \/ /\ part = "migration" /\ MigrationNext
       /\ UNCHANGED <<part, scaffoldVars, wikiVars, contextVars, cloudVars, reposVars>>
    \/ /\ part = "repos" /\ ReposNext
       /\ UNCHANGED <<part, scaffoldVars, wikiVars, contextVars, cloudVars, migrationVars>>

Spec ==
    Init /\ [][Next]_<<part, scaffoldVars, wikiVars, contextVars, cloudVars, migrationVars,
                       reposVars>>
=============================================================================
