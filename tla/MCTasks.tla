------------------------------- MODULE MCTasks -------------------------------
(***************************************************************************)
(* The parts of a process that run on tasks of their own and must come to  *)
(* an end, side by side: the stdio edge, the compaction box, the catalog's *)
(* channel, the supervision of extension processes, the coding tools, the  *)
(* host of the sessions, and the lock helper.                              *)
(* A behaviour runs one of them and leaves the others' variables at rest.  *)
(***************************************************************************)
EXTENDS CompactionBox, ExtensionLane, CatalogChannel, FiniteSets, TLC

CONSTANTS
  MaxLines, MaxEvents,  \* bounds on what the edge's client and host send
  Threads, Main, Files, BootFile, NewIds, Providers, MaxCommands,  \* the host's
  Tasks, MaxClaims      \* who claims locks, and how often

ASSUME HostAssumption ==
  /\ "nobody" \notin Threads /\ Main \in Threads /\ BootFile \in Files

VARIABLES
  part,  \* the module this behaviour runs
  lines, eof, over, stream, feed, out, emitted, errors, edge_reader, forwarder, printer, edge,
  request, disk, seed, held, doing, results, order, outside, page, job,
  armed, parked, todo, at, cmd, before, built, keys, world, catalog, writer, sessions, table,
  joins, awaited, shutdown, ended, asked, answered, missed, gap,
  nest, claiming, here, holders, entered, claims

edgeVars == <<lines, eof, over, stream, feed, out, emitted, errors, edge_reader, forwarder, printer, edge>>
hostVars == <<armed, parked, todo, at, cmd, before, built, keys, world, catalog, writer, sessions,
              table, joins, awaited, shutdown, ended, asked, answered, missed, gap>>
lockVars == <<nest, claiming, here, holders, entered, claims>>
toolFiles == <<request, disk, seed, held, doing, results, order, outside>>

Edge == INSTANCE StdioEdge WITH ended <- over, writer <- printer, reader <- edge_reader
Host == INSTANCE SessionHost
Table == INSTANCE LockTable WITH path <- nest, at <- claiming, table <- entered
OwnerOf == [c \in Items |-> 1]

\* The tools: batches of edits that touch, meet, miss or chain into one another, on files of either
\* line ending; lines and changes of every shape up to four and five; every machine.
Ask(op, path, edits, overwrite) == [op |-> op, path |-> path, edits |-> edits, content |-> <<op>>, overwrite |-> overwrite]
Ed(old, new) == [old_text |-> old, new_text |-> new]
Alike == <<Ed(<<"a">>, <<"x", "y">>), Ed(<<"a">>, <<"x", "y">>)>>
Batches ==
  {<<Ed(<<"a", "cr", "lf">>, <<>>), Ed(<<"lf", "b">>, <<"c">>), Ed(<<"b", "lf">>, <<"k", "k">>)>>, Alike,
   <<Ed(<<"a", "lf">>, <<"z">>), Ed(<<"lf", "b">>, <<"z">>), Ed(<<"c">>, <<"k", "k">>)>>,
   <<Ed(<<"a", "cr", "lf">>, <<"a", "lf", "q", "lf">>), Ed(<<>>, <<"a">>), Ed(<<"b">>, <<>>), Ed(<<"c">>, <<"c">>)>>}
ToolRequests ==
  {Ask("edit", "f", b, FALSE) : b \in Batches} \cup {Ask("edit", "./f", <<Ed(<<"b">>, <<"d">>)>>, FALSE)}
    \cup {Ask("write", "f", <<>>, overwrite) : overwrite \in BOOLEAN} \cup {Ask("read", "f", <<>>, FALSE)}
Saved(kind, bom, text) == [kind |-> kind, bom |-> bom, text |-> text, torn |-> FALSE]
ToolSeeds ==
  {Saved("absent", FALSE, <<>>), Saved("dir", FALSE, <<>>),
   Saved("text", FALSE, <<"a", "lf", "b", "lf", "c">>), Saved("text", TRUE, <<"a", "cr", "lf", "b", "cr", "lf", "c">>),
   Saved("text", FALSE, <<"a", "lf", "b", "cr", "lf", "c", "c", "c">>)}
Lines(sizes, changes) == [sizes |-> sizes, changes |-> changes]
ToolListings ==
  {Lines(s, <<>>) : s \in UNION {[1..n -> {0, 2, 5, 9}] : n \in 0..4}}
    \cup {Lines(<<>>, s) : s \in UNION {[1..n -> {"=", "+", "-"}] : n \in 0..5}}
Git(placement, root) == [placement |-> placement, root |-> root]
ToolMachines ==
  [git : {<<>>, <<Git("cmd", "g")>>, <<Git("usr/bin", "m"), Git("mingw64/bin", "g")>>},
   registry : {<<"r">>}, known : {<<"k">>}, launcher : {{"g", "r", "m"}, {"m"}, {"r"}}, healthy : {{"g", "r", "m"}, {"k", "m"}}]
Tools == INSTANCE BuiltinTools WITH
  told <- results, Calls <- {"c1", "c2"}, Requests <- ToolRequests, Seeds <- ToolSeeds,
  Outsiders <- {Saved("text", FALSE, <<"o">>)}, MaxOutside <- 1, ReadMax <- 6,
  ShellMax <- 8, CONTEXT_LINES <- 1, Listings <- ToolListings, Limits <- {0, 1, 2}, Machines <- ToolMachines

\* A module that is not run rests in one of its initial states.
Init ==
  /\ part \in {"edge", "box", "channel", "lane", "files", "pages", "shell", "host", "lock"}
  /\ CompactionInit /\ (part # "box" => window = 0)
  /\ Edge!EdgeInit /\ CatalogInit /\ LaneInit /\ Host!HostInit /\ Table!LockInit
  /\ IF part = "files" THEN Tools!FilesInit
     ELSE /\ request = [c \in {"c1", "c2"} |-> Ask("read", "f", <<>>, FALSE)] /\ disk = Tools!Absent /\ seed = disk
          /\ held = [s \in {"f", "./f"} |-> "nobody"] /\ results = [c \in {"c1", "c2"} |-> ""]
          /\ doing = [c \in {"c1", "c2"} |-> [step |-> "called", base |-> Tools!Absent, text |-> <<>>]]
          /\ order = <<>> /\ outside = 0
  /\ Tools!PagesInit /\ (part # "pages" => page.sizes = <<>> /\ page.changes = <<>>)
  /\ Tools!JobInit /\ (part # "shell" => job.machine = CHOOSE m \in ToolMachines : TRUE)

Only(m) ==
  /\ part = m /\ UNCHANGED part
  /\ m # "edge" => UNCHANGED edgeVars
  /\ m # "box" => UNCHANGED compactionVars
  /\ m # "channel" => UNCHANGED catalogVars
  /\ m # "lane" => UNCHANGED laneVars
  /\ m # "files" => UNCHANGED toolFiles
  /\ m # "pages" => UNCHANGED page
  /\ m # "shell" => UNCHANGED job
  /\ m # "host" => UNCHANGED hostVars
  /\ m # "lock" => UNCHANGED lockVars

Next == \/ Only("edge") /\ Edge!EdgeNext
        \/ Only("box") /\ CompactionNext
        \/ Only("channel") /\ CatalogNext
        \/ Only("lane") /\ LaneNext
        \/ Only("files") /\ Tools!FilesNext
        \/ Only("pages") /\ Tools!PagesNext
        \/ Only("shell") /\ Tools!JobNext
        \/ Only("host") /\ Host!HostNext
        \/ Only("lock") /\ Table!LockNext

\* The modules' own fairness, each in the behaviours that run it.
allVars == <<part, edgeVars, compactionVars, catalogVars, laneVars, toolFiles, page, job,
             hostVars, lockVars>>
Fairness ==
  /\ WF_edgeVars(part = "edge" /\ Edge!Forward) /\ WF_edgeVars(part = "edge" /\ Edge!Write)
  /\ WF_edgeVars(part = "edge" /\ Edge!Leave) /\ WF_edgeVars(part = "edge" /\ Edge!Exit)
  /\ WF_edgeVars(part = "edge" /\ edge = "closing" /\ Edge!WindDown)
  /\ WF_compactionVars(part = "box" /\ door # "none" /\ PassStep)
  /\ \A p \in Procs : /\ WF_catalogVars(part = "channel" /\ RefreshStep(p))
                      /\ WF_catalogVars(part = "channel" /\ BootStep(p))
  /\ \A e \in Exts : /\ WF_laneVars(part = "lane" /\ ReaderStep(e))
                     /\ WF_laneVars(part = "lane" /\ TaskStep(e))
  /\ \A c \in Items : WF_laneVars(part = "lane" /\ ItemStep(c))
  /\ WF_job(part = "shell" /\ (Tools!PollTurn \/ Tools!Spawn)) /\ WF_job(part = "shell" /\ Tools!Join)
Spec == Init /\ [][Next]_allVars /\ Fairness

\* A compaction brackets what it does, cuts between exchanges, and one that reports
\* success brought the context under the wall it aimed at (compaction/mod.rs).
CompactionIsSound ==
  CompactionTypeOK /\ EnvelopeCloses /\ CompactedFits /\ AlwaysACut /\ CutsBetweenExchanges

\* The edge drops no line and reorders none, one process refreshes the catalog and
\* merges only what it verified, and an extension's death takes its own items only.
TasksStayApart ==
  /\ Edge!InOrderOut /\ Edge!NothingDropped
  /\ OneRefresher /\ MergedWasVerified
  /\ DeadLeavesNothing /\ SiblingsSurvive

\* The host answers every command once, keeps catalog, world and keys in step, ends
\* after its sessions; and the lock helper blames only who holds.
HostAnswersAll ==
  /\ [](Host!HostTypeOK /\ Host!AllAnswered /\ Host!CatalogTellsWorld /\ Host!StaleOnlyThroughGap)
  /\ Host!EndsLast
  /\ [](Table!NoCycle /\ Table!BlameIsTrue)

\* Edits land where they matched, never over one another nor over another call's (what of
\* a chain of conflicts stays out: EditsAreIndependent), a page and an output keep to their
\* budgets and drop no line between two pages, a diff's hunks are exact, and what a
\* command's result says is what became of its processes.
ToolsKeepTheirWord ==
  /\ part = "files" => Tools!EditsAreIndependent /\ Tools!EditsAddUp /\ Tools!NothingIsClobbered
  /\ part = "pages" => Tools!PagesTile /\ Tools!CapsHold /\ Tools!HunksAreExact
  /\ part = "shell" => Tools!ReportsMatchTheTree /\ Tools!NeverAGuess

\* NOT true of the code: a replacement stated twice lands once.
AlikeLandOnce == part = "files" => Tools!AlikeLandOnce

\* Every edge that saw its end leaves, every box ends, a boot is not held up by the
\* network or by a silent extension, the catalog's lock is released, a call settles,
\* a command ends at its token or its deadline while its shell runs.
TasksEnd ==
  /\ part = "edge" => Edge!EdgeResolves
  /\ BoxEnds
  /\ SkipsOnlyWithCache /\ BootsFinish /\ LockIsReleased
  /\ ItemsSettle
  /\ part = "lane" => BootResolves
  /\ Tools!CutsEnd
=============================================================================
