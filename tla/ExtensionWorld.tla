--------------------------- MODULE ExtensionWorld ---------------------------
(***************************************************************************)
(* What installed packages contribute to a session: the scan in directory  *)
(* order, the partition by settings and requirements, the handshakes in    *)
(* any order, the names the live ones win, the skills ladder and the tool  *)
(* filter of the assembly (tabit-ext manifest.rs; tabit-app assemble.rs,   *)
(* extensions.rs; tabit-session skills.rs).                                *)
(***************************************************************************)
EXTENDS Naturals, Sequences, FiniteSets, SequencesExt, TLC

CONSTANTS
  Shapes,   \* what a package may be: [valid, static, disabled, requires, disables, tools, skills]
  Dirs,     \* the package names in directory order
  CoreTools,
  Ladders,  \* the skills the user has: a sequence of sets, lowest level first
  Filters   \* the invocation's --tools and --without: [all, allow, deny]

VARIABLES
  installed, \* package -> shape
  ladder, filter,
  packages,  \* the mounted packages, in scan order
  launched,  \* the packages whose process is started, in order
  status,    \* package -> "starting", "alive", "dead"
  acked,     \* the live packages in the order they reported
  planned,   \* the proxies: <<tool, package>>, in registration order
  replaced,  \* the core tools unmounted
  skills,    \* the catalog: <<name, owner>>, in order
  toolset,   \* the assembled session's tools: <<name, owner>>
  phase      \* "scan", "boot", "mounted", "open"

worldVars == <<installed, ladder, filter, packages, launched, status, acked, planned, replaced, skills, toolset, phase>>

WorldInit ==
  /\ installed \in [Range(Dirs) -> Shapes] /\ ladder \in Ladders /\ filter \in Filters
  /\ packages = <<>> /\ launched = <<>> /\ acked = <<>> /\ planned = <<>> /\ replaced = {}
  /\ status = [d \in Range(Dirs) |-> "starting"] /\ skills = <<>> /\ toolset = <<>>
  /\ phase = "scan"

-----------------------------------------------------------------------------
\* The scan's packages minus the disabled ones; a refusal is only reported.
Enabled == SelectSeq(Dirs, LAMBDA d : installed[d].valid /\ ~installed[d].disabled)
\* manifest::enforce_requires: presence among the accepted and enabled ones.
Met(d) == installed[d].requires \subseteq Range(Enabled)
\* assemble's partition.
Mountable == SelectSeq(Enabled, Met)

Names(table) == {table[i][1] : i \in DOMAIN table}
\* Skills::register and with_extension_defaults: a name already there keeps its owner.
JoinFree(table, entry) == IF entry[1] \in Names(table) THEN table ELSE Append(table, entry)
\* discover_with_home: the last registration takes the name over, in its place.
JoinLast(table, entry) ==
  IF entry[1] \in Names(table) THEN [i \in DOMAIN table |-> IF table[i][1] = entry[1] THEN entry ELSE table[i]]
  ELSE Append(table, entry)
Owned(set, owner) == [i \in 1..Cardinality(set) |-> <<SetToSeq(set)[i], owner>>]
\* scan_into of every source in the ladder's order.
Discovered == FoldLeft(LAMBDA t, e : JoinLast(t, e), <<>>,
                      FlattenSeq([level \in DOMAIN ladder |-> Owned(ladder[level], ToString(level))]))
\* extension_skills_catalog folded under the discovered ladder.
Catalog(mounted) ==
  FoldLeft(LAMBDA t, e : JoinFree(t, e), Discovered,
          FlattenSeq([i \in DOMAIN mounted |-> Owned(installed[mounted[i]].skills, mounted[i])]))

\* world_scan.
Scan ==
  /\ phase = "scan" /\ phase' = "boot"
  /\ packages' = Mountable /\ skills' = Catalog(Mountable)
  /\ launched' = SelectSeq(Mountable, LAMBDA d : ~installed[d].static)
  /\ UNCHANGED <<installed, ladder, filter, status, acked, planned, replaced, toolset>>

\* A launched process reports in its own time, or dies instead, or later.
Report(d) ==
  /\ phase = "boot" /\ d \in Range(launched) /\ status[d] = "starting"
  /\ status' = [status EXCEPT ![d] = "alive"] /\ acked' = Append(acked, d)
  /\ UNCHANGED <<installed, ladder, filter, packages, launched, planned, replaced, skills, toolset, phase>>
Die(d) ==
  /\ phase # "scan" /\ d \in Range(launched) /\ status[d] # "dead"
  /\ status' = [status EXCEPT ![d] = "dead"]
  /\ UNCHANGED <<installed, ladder, filter, packages, launched, acked, planned, replaced, skills, toolset, phase>>

\* The peers' names in the order they reported.
PlanAsAcked(reports) == LET live == SelectSeq(acked, LAMBDA d : status[d] = "alive") IN
  FoldLeft(LAMBDA t, e : JoinFree(t, e), <<>>,
          FlattenSeq([i \in DOMAIN live |-> Owned(installed[live[i]].tools, live[i])]))
\* extensions.rs plan: over the reports in scan order, only a live declaration holds a name.
Plan(reports) == LET live == SelectSeq(reports, LAMBDA d : status[d] = "alive") IN
  FoldLeft(LAMBDA t, e : JoinFree(t, e), <<>>,
          FlattenSeq([i \in DOMAIN live |-> Owned(installed[live[i]].tools, live[i])]))
\* Mounted::mount, once every handshake is resolved (mount_world).
Mount ==
  /\ phase = "boot" /\ \A d \in Range(launched) : status[d] # "starting"
  /\ planned' = Plan(launched) /\ replaced' = Names(Plan(launched)) \cap CoreTools
  /\ phase' = "mounted"
  /\ UNCHANGED <<installed, ladder, filter, packages, launched, status, acked, skills, toolset>>

\* Supervisor's manifest_disables: the launched packages' declarations.
Disables == UNION {installed[d].disables : d \in Range(launched)}
\* tool_filter and retain_filtered: allowed and not denied, over the whole candidate set.
Admitted(candidate) ==
  SelectSeq(candidate, LAMBDA t : (filter.all \/ t[1] \in filter.allow) /\ t[1] \notin filter.deny \cup Disables)
\* assemble_session.
Assemble ==
  /\ phase = "mounted" /\ phase' = "open"
  /\ toolset' = Admitted(Owned(CoreTools \ replaced, "core") \o planned)
  /\ UNCHANGED <<installed, ladder, filter, packages, launched, status, acked, planned, replaced, skills>>

WorldNext == Scan \/ Mount \/ Assemble \/ \E d \in Range(Dirs) : Report(d) \/ Die(d)
WorldSpec == WorldInit /\ [][WorldNext]_worldVars

-----------------------------------------------------------------------------
\* The engine is handed one tool per name.
OneToolPerName == \A i, j \in DOMAIN toolset : toolset[i][1] = toolset[j][1] => i = j

\* Which peer holds a name is the directory order's to say, never the race of the handshakes:
\* when names are given out, the first live package that declares one has it.
FirstInScanWins == [][phase' = "mounted" /\ phase = "boot" =>
  \A i \in DOMAIN planned' : \A d \in Range(launched) :
    status[d] = "alive" /\ planned'[i][1] \in installed[d].tools =>
      \E a, b \in DOMAIN Dirs : Dirs[a] = planned'[i][2] /\ Dirs[b] = d /\ a <= b]_worldVars

\* A session misses a tool only because it was filtered out by name, and has none it was denied.
MissingWasFiltered == phase = "open" =>
  \A t \in CoreTools \cup Names(planned) :
    t \in Names(toolset) <=> (filter.all \/ t \in filter.allow) /\ t \notin filter.deny \cup Disables

\* A disabled package is absent everywhere: nothing it ships is launched, served or listed,
\* and a package that needs it is out as well.
DisabledIsAbsent == phase # "scan" => \A d \in Range(Dirs) :
  (installed[d].disabled \/ \E r \in installed[d].requires : installed[r].disabled) =>
    /\ d \notin Range(packages) \cup Range(launched)
    /\ d \notin {e[2] : e \in Range(skills) \cup Range(planned) \cup Range(toolset)}

\* The user's skills override the packages', the nearer level the farther, the earlier package the later.
LadderHolds == phase # "scan" => \A i \in DOMAIN skills : LET name == skills[i][1] IN
  LET levels == {l \in DOMAIN ladder : name \in ladder[l]}
      owners == SelectSeq(packages, LAMBDA d : name \in installed[d].skills)
  IN skills[i][2] = IF levels # {} THEN ToString(CHOOSE l \in levels : \A k \in levels : k <= l)
                    ELSE owners[1]

\* NOT true of the code: every requirement of a mounted package is mounted.
RequirementsMount == \A d \in Range(packages) : installed[d].requires \subseteq Range(packages)
\* NOT true of the code: a mounted package's disables are applied, a static one's too.
DisablesApply == phase = "open" => \A d \in Range(packages) : installed[d].disables \cap Names(toolset) = {}
=============================================================================
