-------------------------------- MODULE Wiki --------------------------------
(***************************************************************************)
(* Task knowledge and the wiki made of it (core/knowledge.go,              *)
(* core/wikipublisher.go, cli/sync.go).  sync wiki writes a page for every *)
(* task with knowledge and then the pages that lead to them.  It rewrites  *)
(* and adds, and never removes a page.                                     *)
(*                                                                         *)
(* A path is a sequence of names; a page is the set of its links.  Tickets *)
(* are at the top of tickets/: others are not looked for.  The semantic    *)
(* index, which a publish feeds as well as it can, is left out.            *)
(***************************************************************************)
EXTENDS Naturals, Sequences, FiniteSets, SequencesExt

CONSTANTS WikiTasks, Initiatives,
          OrgOf(_),       \* the organization of an initiative, or ""
          Tags,           \* tags of decisions, each a path
          MaxKnowledge,   \* bound: changes to knowledge and initiatives
          MaxPublishes    \* bound: publishes

\* No tag has a slash in it, so that the page of a tag is one below tags/.
ASSUME WikiAssumption == \A t \in Tags : t = <<t[1]>>

VARIABLES knowledge,  \* the tags of the items in each decisions.yaml
          hasFile,    \* the tasks with a decisions.yaml
          initiative, \* each task's initiative, or ""
          wiki,       \* the links on each page there is
          stage,      \* the publish: "none", "pages" or "navigation"
          scan,       \* the tasks whose pages it has still to write
          metas,      \* what it remembers of the pages it wrote
          nav,        \* the navigation pages it has still to write
          changes, publishes,
          owed,       \* history: navigation pages that a dead publish left out
          latest      \* history: metas of the last publish, if it ended

wikiVars == <<knowledge, hasFile, initiative, wiki, stage, scan, metas, nav,
              changes, publishes, owed, latest>>

-----------------------------------------------------------------------------

ListAllKnowledge == hasFile
LoadKnowledge(t) == IF t \in hasFile THEN knowledge[t] ELSE {}
knowledgeIsEmpty(k) == k = {}

\* Only a task with an initiative has an organization.
Classify(t) == <<IF initiative[t] = "" THEN "" ELSE OrgOf(initiative[t]), initiative[t]>>
namespaceDir(class) ==
    (IF class[1] = "" THEN <<>> ELSE <<class[1]>>)
    \o (IF class[2] = "" THEN <<>> ELSE <<class[2]>>)

pageTags(k) == {<<"adb">>} \cup k

\* A link climbs out of the directory its page is said to be in.
relLink(relFrom, target) == [up |-> Len(relFrom), to |-> target]
FromRoot(target) == [up |-> 0, to |-> target]
\* Where a link on a page leads.
Resolve(page, link) ==
    SubSeq(page, 1, Len(page) - 1 - link.up) \o link.to
Leads(page) == {Resolve(page, l) : l \in wiki[page]}

TagPage(t) == <<"tags">> \o t
InitiativePage(i) == <<"initiatives", i>>

\* The pages that list others, in the order they are written.
RenderListPage(path, relFrom, ms) ==
    [path |-> path, links |-> {relLink(relFrom, m.path) : m \in ms}]
renderIndex(ms, tags, inits) ==
    [path |-> <<"index">>,
     links |-> {FromRoot(m.path) : m \in ms} \cup {FromRoot(TagPage(t)) : t \in tags}
               \cup {FromRoot(InitiativePage(i)) : i \in inits}]
renderLLMsTxt(ms) == [path |-> <<"llms">>, links |-> {FromRoot(m.path) : m \in ms}]
renderAgentsMd == [path |-> <<"AGENTS">>, links |-> {FromRoot(<<"index">>)}]

TagsOf(ms) == UNION {m.tags : m \in ms}
InitiativesOf(ms) == {m.initiative : m \in ms} \ {""}
byTag(ms, t) == RenderListPage(TagPage(t), <<"tags">>, {m \in ms : t \in m.tags})
byInitiative(ms, i) ==
    RenderListPage(InitiativePage(i), <<"initiatives">>, {m \in ms : m.initiative = i})

\* Mutant: the page of a tag that has one is not written again.
writeNavigationNew(ms) ==
    <<renderIndex(ms, TagsOf(ms), InitiativesOf(ms))>>
    \o SetToSeq({byTag(ms, t) : t \in {t \in TagsOf(ms) : TagPage(t) \notin DOMAIN wiki}})
    \o SetToSeq({byInitiative(ms, i) : i \in InitiativesOf(ms)})
    \o <<renderLLMsTxt(ms), renderAgentsMd>>

writeNavigation(ms) ==
    <<renderIndex(ms, TagsOf(ms), InitiativesOf(ms))>>
    \o SetToSeq({byTag(ms, t) : t \in TagsOf(ms)})
    \o SetToSeq({byInitiative(ms, i) : i \in InitiativesOf(ms)})
    \o <<renderLLMsTxt(ms), renderAgentsMd>>

-----------------------------------------------------------------------------

WikiTypeOK ==
    /\ \A t \in WikiTasks : knowledge[t] \subseteq Tags /\ initiative[t] \in Initiatives \cup {""}
    /\ hasFile \subseteq WikiTasks /\ scan \subseteq WikiTasks
    /\ stage # "pages" => scan = {}
    /\ stage # "navigation" => nav = <<>>
    /\ \A m \in metas : m.path \in DOMAIN wiki

WikiInit ==
    /\ knowledge = [t \in WikiTasks |-> {}] /\ hasFile = {}
    /\ initiative = [t \in WikiTasks |-> ""] /\ wiki = <<>>
    /\ stage = "none" /\ scan = {} /\ metas = {} /\ nav = <<>>
    /\ changes = 0 /\ publishes = 0 /\ owed = {} /\ latest = {}

Changing ==
    /\ changes < MaxKnowledge /\ changes' = changes + 1
    /\ UNCHANGED <<wiki, stage, scan, metas, nav, publishes, owed, latest>>

SaveKnowledge(t, k) ==
    knowledge' = [knowledge EXCEPT ![t] = k] /\ hasFile' = hasFile \cup {t}

\* A decision, a learning or a gotcha is added.
AddDecision(t, tag) ==
    Changing /\ SaveKnowledge(t, LoadKnowledge(t) \cup {tag}) /\ UNCHANGED initiative

\* What is taken from a ticket is a summary and references, and no items.
ExtractFromTask == {}
\* The hook of a completed task writes that over what was there.
ExtractAndSave(t) == Changing /\ SaveKnowledge(t, ExtractFromTask) /\ UNCHANGED initiative

\* The task gets another initiative, or its ticket leaves tickets/.
Reclassify(t) ==
    /\ Changing /\ \E i \in Initiatives : initiative' = [initiative EXCEPT ![t] = i]
    /\ UNCHANGED <<knowledge, hasFile>>
ArchiveTicket(t) ==
    /\ Changing /\ t \in hasFile /\ hasFile' = hasFile \ {t}
    /\ UNCHANGED <<knowledge, initiative>>

PublishAll ==
    /\ stage = "none" /\ publishes < MaxPublishes /\ publishes' = publishes + 1
    /\ stage' = "pages" /\ scan' = ListAllKnowledge /\ metas' = {} /\ latest' = {}
    /\ UNCHANGED <<knowledge, hasFile, initiative, wiki, nav, changes, owed>>

PutPage(path, links) ==
    wiki' = [q \in DOMAIN wiki \cup {path} |-> IF q = path THEN links ELSE wiki[q]]

\* One task's page.  Knowledge that is empty, or gone by now, is skipped.
renderPage(t) ==
    LET k == LoadKnowledge(t)
        path == Append(namespaceDir(Classify(t)), t)
    IN /\ stage = "pages" /\ t \in scan /\ scan' = scan \ {t}
       /\ IF knowledgeIsEmpty(k) THEN UNCHANGED <<wiki, metas>>
          ELSE /\ PutPage(path, {})
               /\ metas' = metas \cup {[path |-> path, tags |-> pageTags(k),
                                        initiative |-> initiative[t]]}
       /\ UNCHANGED <<knowledge, hasFile, initiative, stage, nav, changes, publishes, owed, latest>>

\* The navigation is written only when there are pages to lead to.
Navigate ==
    /\ stage = "pages" /\ scan = {}
    /\ IF metas = {} THEN stage' = "none" /\ UNCHANGED nav
       ELSE stage' = "navigation" /\ nav' = writeNavigation(metas)
    /\ UNCHANGED <<knowledge, hasFile, initiative, wiki, scan, metas, changes, publishes,
                   owed, latest>>

WritePage ==
    /\ stage = "navigation" /\ nav' = Tail(nav)
    /\ PutPage(Head(nav).path, Head(nav).links)
    /\ owed' = owed \ {Head(nav).path}
    /\ IF Tail(nav) = <<>> THEN stage' = "none" /\ latest' = metas
       ELSE UNCHANGED <<stage, latest>>
    /\ UNCHANGED <<knowledge, hasFile, initiative, scan, metas, changes, publishes>>

\* The publish dies, or a write fails.
PublishDies ==
    /\ stage # "none" /\ stage' = "none" /\ scan' = {} /\ nav' = <<>>
    /\ owed' = owed \cup {nav[i].path : i \in DOMAIN nav}
    /\ UNCHANGED <<knowledge, hasFile, initiative, wiki, metas, changes, publishes, latest>>

WikiNext ==
    \/ \E t \in WikiTasks :
         \/ \E tag \in Tags : AddDecision(t, tag)
         \/ ExtractAndSave(t) \/ Reclassify(t) \/ ArchiveTicket(t) \/ renderPage(t)
    \/ PublishAll \/ Navigate \/ WritePage \/ PublishDies

WikiSpec == WikiInit /\ [][WikiNext]_wikiVars

-----------------------------------------------------------------------------

(* A link in the wiki leads to a page, at every moment and after any death,
   except to a navigation page that a publish has yet to write, or never
   wrote because it died. *)
LinksResolve ==
    \A p \in DOMAIN wiki : Leads(p) \subseteq
        DOMAIN wiki \cup owed \cup {nav[i].path : i \in DOMAIN nav}

(* When a publish has ended, each page it wrote is reached from the index,
   from llms.txt, from its initiative and from each of its tags, and the page
   of a tag leads to no page without the tag. *)
PagesAreReached ==
    stage = "none" /\ latest # {} =>
      \A m \in latest :
        /\ m.path \in Leads(<<"index">>) \cap Leads(<<"llms">>)
        /\ m.initiative # "" => m.path \in Leads(InitiativePage(m.initiative))
        /\ \A t \in m.tags : /\ TagPage(t) \in Leads(<<"index">>)
                             /\ Leads(TagPage(t)) = {n.path : n \in {n \in latest : t \in n.tags}}

(* No reader of the wiki meets a dead end, and none of its pages is hidden. *)
WikiIsConnected == WikiTypeOK /\ LinksResolve /\ PagesAreReached
=============================================================================
