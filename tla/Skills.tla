------------------------------- MODULE Skills -------------------------------
(***************************************************************************)
(* Skills: a tenant's definitions on disk with their version snapshots     *)
(* (app/services/skill_store.py), the handlers that manage them            *)
(* (app/api/skills_manage_api.py), the catalogue's bans, the resolution of *)
(* a skill for a task and the tools the task may use under it, and the MCP *)
(* server that lends some of those tools (app/services/mcp_manager.py).    *)
(*                                                                         *)
(* Handlers run in a thread pool and no lock is taken: a handler looks at  *)
(* the file to decide, the store reads it again to change it and replaces  *)
(* it whole.  A request is therefore several steps of one clerk, and the   *)
(* steps of two clerks interleave.                                         *)
(***************************************************************************)
EXTENDS Naturals, FiniteSets, Sequences

CONSTANTS
    Skills,       \* the skill ids of one tenant
    BuiltinSkills,\* the ids that the configuration directory defines
    Clerks,       \* the threads that serve requests
    OwnTools,     \* tools registered by the program itself
    LentTools,    \* tools of the MCP server
    Ghost,        \* a tool name that nothing registers
    AllowLists,   \* the allowed_tools a draft may have
    BlockLists,   \* the blocked_tools a draft may have
    MaxVersion,   \* bound on the patch level of a version
    MaxRequests,  \* bound on the requests of a behaviour
    MaxProbes,    \* bound on the probes of the MCP server
    EvictAfter    \* MCP_MAX_FAILURES_BEFORE_EVICT

SkillsAssumption ==
    /\ BuiltinSkills \subseteq Skills
    /\ MaxVersion \in Nat /\ MaxRequests \in Nat /\ MaxProbes \in Nat
    /\ EvictAfter \in Nat \ {0}

VARIABLES
    shelf,      \* the tenant's files
    snapshots,  \* versions/<id>/<version>.json
    bans,       \* skills blocked by the catalogue's governance
    registered, \* the names in the tool registry
    server,     \* the MCP server: what the manager knows of it
    clerk,      \* the request each thread serves
    asked,      \* requests begun so far
    hired       \* the last task started under a skill

skillVars == <<shelf, snapshots, bans, registered, server, clerk, asked, hired>>

Statuses == {"absent", "draft", "published", "archived", "disabled"}
AllTools == OwnTools \union LentTools \union {Ghost}
Drafts == [named : BOOLEAN, allow : AllowLists, block : BlockLists]
Blank == [named |-> TRUE, allow |-> {}, block |-> {}]

\* A definition as the file holds it; a version is its patch level.
File(status, version, draft) == [status |-> status, ver |-> version, draft |-> draft]
NoFile == File("absent", 0, Blank)

NoRequest == [kind |-> "none", skill |-> CHOOSE s \in Skills : TRUE, pc |-> "idle",
              draft |-> Blank, ver |-> 0, seen |-> NoFile]

\* The tool registry filled at start-up; a server that was evicted or does
\* not answer lends nothing.
BootstrapTools(up) == OwnTools \union (IF up THEN LentTools ELSE {})

SkillsInit ==
    /\ shelf = [s \in Skills |-> NoFile]
    /\ snapshots = [s \in Skills |-> [v \in 0 .. MaxVersion |-> <<>>]]
    /\ bans = {}
    /\ registered = BootstrapTools(TRUE)
    /\ server = [failures |-> 0, evicted |-> FALSE, probes |-> 0]
    /\ clerk = [c \in Clerks |-> NoRequest]
    /\ asked = 0
    /\ hired = [skill |-> NoRequest.skill, draft |-> Blank, policy |-> Blank, offered |-> {}, chosen |-> {}]

-----------------------------------------------------------------------------
(* What the registry serves and what may be published.                     *)

\* Builtin definitions come before the tenant's files; they are published.
LoadDefinition(s) ==
    IF s \in BuiltinSkills THEN File("published", 0, Blank) ELSE shelf[s]

Known(s) == LoadDefinition(s).status # "absent"

\* A definition without issues: it has a name and names registered tools only.
ValidateSkillDefinition(d) ==
    d.named /\ d.allow \union d.block \subseteq registered

IsUsableByTask(f) == f.status = "published"

\* The handlers refuse to change what the program ships.
Manageable(s) == s \notin BuiltinSkills /\ shelf[s].status # "absent"

-----------------------------------------------------------------------------
(* The management handlers: a first look decides whether the request is    *)
(* refused (the clerk stays idle) or goes on.                              *)

Take(c, kind, s, draft, version, seen) ==
    /\ clerk[c].pc = "idle" /\ asked < MaxRequests
    /\ asked' = asked + 1
    /\ clerk' = [clerk EXCEPT ![c] = [kind |-> kind, skill |-> s, pc |-> "read",
                                      draft |-> draft, ver |-> version, seen |-> seen]]
    /\ UNCHANGED <<shelf, snapshots, bans, registered, server, hired>>

CreateSkill(c, s, d) ==
    /\ s \notin BuiltinSkills /\ ~ Known(s)
    /\ Take(c, "save", s, d, 0, NoFile)

UpdateSkill(c, s, d) ==
    /\ Manageable(s) /\ shelf[s].status = "draft"
    /\ Take(c, "save", s, d, shelf[s].ver, shelf[s])

\* The clone takes the definition the look has found.
CloneSkill(c, s, target) ==
    /\ Known(s) /\ target \notin BuiltinSkills /\ target # s
    /\ Take(c, "clone", target, LoadDefinition(s).draft, 0, NoFile)

PublishSkill(c, s) == Manageable(s) /\ Take(c, "publish", s, Blank, 0, NoFile)
ArchiveSkill(c, s) == Manageable(s) /\ Take(c, "archived", s, Blank, 0, NoFile)
DisableSkill(c, s) == Manageable(s) /\ Take(c, "disabled", s, Blank, 0, NoFile)
DeleteSkill(c, s) == Manageable(s) /\ Take(c, "delete", s, Blank, 0, NoFile)
RollbackSkill(c, s, v) == Manageable(s) /\ Take(c, "rollback", s, Blank, v, NoFile)

\* resolve_skill_for_task asks the catalogue's governance before it loads.
AttachSkill(c, s) ==
    /\ s \notin bans
    /\ Take(c, "attach", s, Blank, 0, NoFile)

-----------------------------------------------------------------------------
(* The store's operations, from their own read of the file on.             *)

Goes(c, pc, f) == clerk' = [clerk EXCEPT ![c].pc = pc, ![c].seen = f]
Done1(c) == clerk' = [clerk EXCEPT ![c] = NoRequest]

\* What the store writes for the file it has read.  A published file lends its
\* version to the draft that replaces it, and gets the next one when it is
\* published again.
NewFile(r, f) ==
    CASE r.kind = "save"    -> File("draft", IF f.status = "published" THEN f.ver ELSE r.ver, r.draft)
      [] r.kind = "clone"   -> File("draft", 0, r.draft)
      [] r.kind = "publish" -> File("published", IF f.status = "published" THEN f.ver + 1 ELSE f.ver, f.draft)
      [] r.kind \in {"archived", "disabled"} -> File(r.kind, f.ver, f.draft)

\* save_draft reads the file that may be there.
ReadDraft(c) ==
    LET r == clerk[c] IN
    /\ r.pc = "read" /\ r.kind = "save"
    /\ Goes(c, "write", NewFile(r, shelf[r.skill]))
    /\ UNCHANGED <<shelf, snapshots, bans, registered, server, asked, hired>>

\* archive and disable need the file.
ReadStatus(c) ==
    LET r == clerk[c] f == shelf[r.skill] IN
    /\ r.pc = "read" /\ r.kind \in {"archived", "disabled"}
    /\ IF f.status # "absent" THEN Goes(c, "write", NewFile(r, f)) ELSE Done1(c)
    /\ UNCHANGED <<shelf, snapshots, bans, registered, server, asked, hired>>

\* clone_from refuses a target that exists by now.
ReadClone(c) ==
    LET r == clerk[c] IN
    /\ r.pc = "read" /\ r.kind = "clone"
    /\ IF shelf[r.skill].status = "absent"
       THEN Goes(c, "write", NewFile(r, NoFile))
       ELSE Done1(c)
    /\ UNCHANGED <<shelf, snapshots, bans, registered, server, asked, hired>>

\* Mutant of ReadPublish: the snapshot is taken before the definition is
\* validated.
ReadPublishUnchecked(c) ==
    LET r == clerk[c] f == shelf[r.skill] IN
    /\ r.pc = "read" /\ r.kind = "publish"
    /\ f.status # "absent" /\ NewFile(r, f).ver <= MaxVersion
    /\ snapshots' = [snapshots EXCEPT ![r.skill][f.ver] = <<f.draft>>]
    /\ IF ValidateSkillDefinition(f.draft)
       THEN Goes(c, "write", NewFile(r, f))
       ELSE Done1(c)
    /\ UNCHANGED <<shelf, bans, registered, server, asked, hired>>

\* publish reads, validates what it has read and goes on with that.
ReadPublish(c) ==
    LET r == clerk[c] f == shelf[r.skill] IN
    /\ r.pc = "read" /\ r.kind = "publish"
    /\ IF /\ f.status # "absent" /\ ValidateSkillDefinition(f.draft)
          /\ NewFile(r, f).ver <= MaxVersion
       THEN Goes(c, "snapshot", f)
       ELSE Done1(c)
    /\ UNCHANGED <<shelf, snapshots, bans, registered, server, asked, hired>>

\* The snapshot of a version replaces an older one of that version.
ArchiveVersion(c) ==
    LET r == clerk[c] IN
    /\ r.pc = "snapshot"
    /\ snapshots' = [snapshots EXCEPT ![r.skill][r.seen.ver] = <<r.seen.draft>>]
    /\ Goes(c, "write", NewFile(r, r.seen))
    /\ UNCHANGED <<shelf, bans, registered, server, asked, hired>>

\* The file is replaced whole, whatever it has become meanwhile.  A clone that
\* was given a name is saved again as a draft.
WriteDefinition(c) ==
    LET r == clerk[c] IN
    /\ r.pc = "write"
    /\ shelf' = [shelf EXCEPT ![r.skill] = r.seen]
    /\ \/ Done1(c)
       \/ r.kind = "clone" /\ clerk' = [clerk EXCEPT ![c].kind = "save", ![c].pc = "read"]
    /\ UNCHANGED <<snapshots, bans, registered, server, asked, hired>>

\* rollback publishes a snapshot as it is.
Rollback(c) ==
    LET r == clerk[c] snap == snapshots[r.skill][r.ver] IN
    /\ r.pc = "read" /\ r.kind = "rollback"
    /\ IF snap = <<>>
       THEN Done1(c)
       ELSE Goes(c, "write", File("published", r.ver, snap[1]))
    /\ UNCHANGED <<shelf, snapshots, bans, registered, server, asked, hired>>

\* delete removes the file first and the snapshots after it.
Delete(c) ==
    LET r == clerk[c] IN
    /\ r.pc = "read" /\ r.kind = "delete"
    /\ IF shelf[r.skill].status = "absent"
       THEN Done1(c) /\ UNCHANGED shelf
       ELSE /\ shelf' = [shelf EXCEPT ![r.skill] = NoFile]
            /\ Goes(c, "forget", NoFile)
    /\ UNCHANGED <<snapshots, bans, registered, server, asked, hired>>

DeleteVersions(c) ==
    /\ clerk[c].pc = "forget"
    /\ snapshots' = [snapshots EXCEPT ![clerk[c].skill] = [v \in 0 .. MaxVersion |-> <<>>]]
    /\ Done1(c)
    /\ UNCHANGED <<shelf, bans, registered, server, asked, hired>>

-----------------------------------------------------------------------------
(* A task under a skill.                                                   *)

\* The policy keeps the allowed tools that are registered when it is built.
BuildRuntimePolicy(d) == [d EXCEPT !.allow = @ \intersect registered]

\* An empty set stands for None, which restricts nothing.
SkillToolAllowlist(p) == p.allow \ p.block

MergePackTools(pack, skillTools) ==
    CASE skillTools = {} -> pack
      [] skillTools # {} /\ pack = {} -> skillTools
      [] OTHER -> IF pack \intersect skillTools # {} THEN pack \intersect skillTools ELSE skillTools

\* The tools shown to the planner; when none is left it is shown all of them.
RetrieveRelevantTools(allowed) ==
    LET fit == IF allowed = {} THEN registered ELSE registered \intersect allowed
    IN  IF fit = {} THEN registered ELSE fit

\* The plan's tools are checked for existence and for the user's role.
ValidateToolSelection(selected) == selected \intersect registered

\* The task is resolved and starts.  The plan may name any tool; the check
\* that follows does not know the skill.
Attach(c) ==
    LET r == clerk[c] f == LoadDefinition(r.skill) IN
    /\ r.pc = "read" /\ r.kind = "attach"
    /\ IF IsUsableByTask(f)
       THEN LET p == BuildRuntimePolicy(f.draft)
                shown == RetrieveRelevantTools(MergePackTools({}, SkillToolAllowlist(p)))
            IN  \E selected \in SUBSET AllTools :
                   hired' = [skill |-> r.skill, draft |-> f.draft, policy |-> p,
                             offered |-> shown, chosen |-> ValidateToolSelection(selected)]
       ELSE UNCHANGED hired
    /\ Done1(c)
    /\ UNCHANGED <<shelf, snapshots, bans, registered, server, asked>>

\* An administrator replaces the list of banned skills.
SetGlobalDisabled(banned) ==
    /\ bans' = banned /\ bans # banned
    /\ UNCHANGED <<shelf, snapshots, registered, server, clerk, asked, hired>>

-----------------------------------------------------------------------------
(* The MCP server.                                                         *)

\* A health check probes the server and evicts one that fails too often; the
\* tool registry is not touched.
Probe(healthy) ==
    /\ server.probes < MaxProbes
    /\ LET failures == IF healthy THEN 0 ELSE server.failures + 1 IN
       server' = [failures |-> failures, probes |-> server.probes + 1,
                  evicted |-> ~ healthy /\ (server.evicted \/ failures >= EvictAfter)]
    /\ UNCHANGED <<shelf, snapshots, bans, registered, clerk, asked, hired>>

\* A restart fills the registry anew: one probe, and a server that does not
\* answer lends nothing even where it is not evicted.
Restart1(up) ==
    /\ server.probes < MaxProbes
    /\ server' = [failures |-> IF up THEN 0 ELSE 1, probes |-> server.probes + 1,
                  evicted |-> ~ up /\ 1 >= EvictAfter]
    /\ registered' = BootstrapTools(up)
    /\ clerk' = [c \in Clerks |-> NoRequest]
    /\ UNCHANGED <<shelf, snapshots, bans, asked, hired>>

-----------------------------------------------------------------------------
Requests(c) ==
    \E s \in Skills :
       \/ \E d \in Drafts : CreateSkill(c, s, d) \/ UpdateSkill(c, s, d)
       \/ \E t \in Skills : CloneSkill(c, s, t)
       \/ PublishSkill(c, s) \/ ArchiveSkill(c, s) \/ DisableSkill(c, s)
       \/ DeleteSkill(c, s) \/ AttachSkill(c, s)
       \/ \E v \in 0 .. MaxVersion : RollbackSkill(c, s, v)

StoreSteps(c) ==
    \/ ReadDraft(c) \/ ReadStatus(c) \/ ReadClone(c) \/ ReadPublish(c)
    \/ ArchiveVersion(c) \/ WriteDefinition(c) \/ Rollback(c) \/ Delete(c) \/ DeleteVersions(c)
    \/ Attach(c)

SkillsNext ==
    \/ \E c \in Clerks : Requests(c) \/ StoreSteps(c)
    \/ \E banned \in SUBSET Skills : SetGlobalDisabled(banned)
    \/ \E up \in BOOLEAN : Probe(up) \/ Restart1(up)

SkillsSpec == SkillsInit /\ [][SkillsNext]_skillVars

-----------------------------------------------------------------------------
(* Properties.                                                             *)

Sound(d) == d.named /\ d.allow \union d.block \subseteq OwnTools \union LentTools

\* What a task is given was validated: whatever the order of drafts,
\* publications, rollbacks and deletions of two threads, a published file has
\* a name and names tools that exist (validate_skill_definition in publish;
\* rollback publishes a snapshot without looking at it again).
PublishedWasValidated ==
    /\ \A s \in Skills : shelf[s].status = "published" => Sound(shelf[s].draft)
    /\ Sound(hired.draft)

\* A task under a skill only runs tools that the skill allows and does not
\* block (docs/rag_skills.md: validate_tool_selection is aligned with the
\* skill's lists).  Does not hold: that function does not know the skill.
SkillToolsOnly ==
    /\ hired.chosen \intersect hired.draft.block = {}
    /\ hired.draft.allow # {} => hired.chosen \subseteq hired.draft.allow
=============================================================================
