------------------------------- MODULE MCEdges -------------------------------
(***************************************************************************)
(* A process and the frontend in front of it, side by side: the choice of  *)
(* a model, the packages' contributions, replay; the terminal's streams, dock, transcript, cards *)
(* and notices; the command line with its installer and print mode; the    *)
(* permission gate.                                                        *)
(* A behaviour runs one of them and leaves the others at rest.             *)
(***************************************************************************)
EXTENDS Integers, Sequences, FiniteSets, TLC

VARIABLES
  part,  \* the module this behaviour runs
  pointers, located, user, default, config, pending, warned, booted, auth, clients, logins,
  installed, ladder, filter, packages, launched, standing, acked, planned, replaced, skills, toolset, phase,
  chain, projected,
  backend, runs, asking, waiting, streams, focused, listed, offered, resting, dock,
  cards_asked, cards, slot, focus, region, row, shown, draft, answers,
  log, tip, born, run, moves, attached, nodes, head, openTurn, preview, pane,
  card, view, picked, outcome,
  live, turnCount, replaying, bar, raised,
  doing, processes, invoked, code, disk, litter, stack, visited, landed, culprit,
  speaking, opened, lineup, buffer, stdout, sent, reader, broke, kidEnded,
  gate_host, gate_raw, gate_book, gate_call, gate_ui, gate_verdict, gate_ruling, gate_ran

choiceVars == <<pointers, located, user, default, config, pending, warned, booted, auth, clients, logins>>
worldVars == <<installed, ladder, filter, packages, launched, standing, acked, planned, replaced, skills, toolset, phase>>

Provider(k, b, m) == [key |-> k, broken |-> b, models |-> m]
Bare == <<"m">>
Slash == <<"a", "m">>  \* an id that reads like provider/model
Other == <<"n">>
MCFiles ==
  {<<>>} \cup {[a |-> Provider(k, FALSE, ms)] : k \in {"none", "keyless"}, ms \in {<<>>, <<Bare>>}}
  \cup {[a |-> Provider("none", FALSE, <<Bare>>), b |-> Provider(k, broken, ms)] :
           k \in {"none", "env"}, broken \in BOOLEAN, ms \in {<<Bare, Other>>, <<Slash>>}}
MCFragments == <<[b |-> Provider("none", FALSE, <<Other>>)],
                 [a |-> Provider("keyless", FALSE, <<Bare>>), b |-> Provider("keyless", FALSE, <<Bare>>)]>>
MCCatalogs == {<<>>, [a |-> Provider("env", FALSE, <<Other, Bare>>), b |-> Provider("env", FALSE, <<Other, Bare>>)]}
MCDefaults == {[provider |-> "none", model |-> <<>>], [provider |-> "none", model |-> Bare],
               [provider |-> "none", model |-> Slash], [provider |-> "b", model |-> Other]}

Package(valid, static, disabled, requires, disables, tools, skillset) ==
  [valid |-> valid, static |-> static, disabled |-> disabled, requires |-> requires,
   disables |-> disables, tools |-> tools, skills |-> skillset]
MCShapes == {Package(TRUE, FALSE, FALSE, {}, {}, {"read", "grab"}, {"s"}),
             Package(TRUE, FALSE, FALSE, {"x"}, {"read"}, {"grab"}, {"s", "u"}),
             Package(TRUE, TRUE, FALSE, {}, {}, {}, {"u"}),
             Package(TRUE, FALSE, TRUE, {}, {"edit"}, {"edit"}, {"s"}),
             Package(FALSE, FALSE, FALSE, {}, {}, {"grab"}, {})}
MCLadders == {<<{}>>, <<{"s"}, {"s", "v"}>>}
MCFilters == {[all |-> TRUE, allow |-> {}, deny |-> {"grab"}], [all |-> FALSE, allow |-> {"read", "grab"}, deny |-> {}]}

Choice == INSTANCE ModelChoice WITH
  UserFiles <- MCFiles, Fragments <- MCFragments, Catalogs <- MCCatalogs, Defaults <- MCDefaults,
  Pointers <- {"unset", "missing", "file"}, MaxLogins <- 1
World == INSTANCE ExtensionWorld WITH
  Shapes <- MCShapes, Dirs <- <<"x", "y", "z">>, CoreTools <- {"read", "edit"},
  Ladders <- MCLadders, Filters <- MCFilters, status <- standing

replayVars == <<chain, projected>>

Pass == INSTANCE ReplayPass WITH CallIds <- {"c1", "c2"}, MaxEntries <- 4, events <- projected

Streams == INSTANCE TuiStreams WITH
  Root <- "root", Kids <- {"k1"}, MaxRuns <- ("root" :> 1 @@ "k1" :> 2), SettledAhead <- TRUE, catalog <- offered,
  cards <- waiting,
  Scopes <- {"backend", "root"}, NoticeIds <- {"n1"}, TRANSIENT_TURNS <- 2, MaxTurns <- 4
Dock == INSTANCE TuiDock WITH Main <- "main", Sub <- "sub", Asks <- {"a1", "a2"}, Items <- {"i1", "i2", "i3"}, PageRows <- 2,
                                asked <- cards_asked, keys <- focus
Transcript == INSTANCE TuiTranscript WITH MaxEntries <- 5, MaxMoves <- 2

Pack(name, requires) ==
  [name |-> name, requires |-> requires, valid |-> name # "", manifest |-> TRUE, whole |-> TRUE]
Npm(pack) == [latest |-> "1", versions |-> [v \in {"1"} |-> pack]]
\* a's requirements form a diamond, d and e a cycle; y is served under another name.
MCRegistry ==
  (<<"a">> :> Npm(Pack("a", <<"b", "c">>))) @@ (<<"b">> :> Npm(Pack("b", <<"c">>))) @@ (<<"c">> :> Npm(Pack("c", <<>>)))
  @@ (<<"d">> :> Npm(Pack("d", <<"c", "e">>))) @@ (<<"e">> :> Npm(Pack("e", <<"d">>)))
  @@ (<<"y">> :> Npm(Pack("x", <<>>))) @@ (<<"@", "a">> :> Npm(Pack("a", <<>>)))
MCSources ==
  [npm_a |-> <<"npm", <<"a">>>>, pinned |-> <<"npm", <<"a", "@", "1">>>>, scoped |-> <<"npm", <<"@", "a">>>>,
   npm_d |-> <<"npm", <<"d">>>>, repo |-> <<"git", <<"g">>>>, folder |-> <<"path", <<"p">>>>, empty |-> <<"npm", <<>>>>]
MCFolders == [g |-> Pack("", <<>>), p |-> Pack("b", <<"y">>)]
MCInstalls == {<<"install", s>> : s \in DOMAIN MCSources} \cup {<<"extensions", "uninstall", n>> : n \in {"a", "b", "c"}}
MCLines ==
  MCInstalls \cup
  {<<"extensions", "list">>, <<"extensions", "prune">>, <<"install">>, <<"install", "repo", "extensions", "list">>,
   <<"--help">>, <<>>, <<"stray">>, <<"--tools">>, <<"-p", "--json">>, <<"-p", "2", "--list">>,
   <<"--rewind", "2", "--continue">>, <<"--rewind", "2">>, <<"--rewind", "two">>, <<"--list", "--json">>,
   <<"--json", "--ephemeral">>, <<"--json", "--ephemeral", "--continue">>, <<"--continue", "--session", "s", "--json">>}
MCTyped == {[number |-> 2, more |-> TRUE, blank |-> FALSE], [number |-> 9, more |-> FALSE, blank |-> FALSE]}
Core == INSTANCE TabitCore WITH
  CommandLines <- <<MCLines, MCInstalls, MCInstalls>>, SourceText <- MCSources, Registry <- MCRegistry,
  Folders <- MCFolders, Names <- {"a", "b", "c", "d", "e", "x", "y"}, Lines <- MCTyped, CardIds <- {"q1", "q2"}, MaxDeltas <- 2

\* Calls for the gate: scripts with a cd under every construct, command lines, file paths.
Near(segs) == [root |-> <<>>, segs |-> segs]
Rooted(segs) == [root |-> <<"/">>, segs |-> segs]
OnDisk(d, segs) == [root |-> <<"disk", d>>, segs |-> segs]
PieceOf(k, scripts, within) == [kind |-> k, scripts |-> scripts, inner |-> within]
Plain(s) == [name |-> <<>>, value |-> <<>>, path |-> Near(<<s>>), pieces |-> <<PieceOf("text", <<>>, <<>>)>>]
PathArg(p) == [Plain("") EXCEPT !.path = p]
OptionArg(n, text) == [Plain(text) EXCEPT !.name = n]
Made(s, pieces) == [Plain(s) EXCEPT !.pieces = pieces]
Computed(scripts) == Made("$()", <<PieceOf("sub", scripts, <<>>)>>)
InQuotes(scripts) == Made("q", <<PieceOf("text", <<>>, <<>>), PieceOf("quoted", <<>>, Computed(scripts).pieces)>>)
Defaulted(scripts) ==
  Made("$V", <<PieceOf("param", <<>>, <<PieceOf("quoted", <<>>, Computed(scripts).pieces), PieceOf("text", <<>>, <<>>)>>)>>)
\* What the walk does not open: arithmetic, a pattern to trim, an expansion in an operand.
Unseen(scripts) ==
  LET inside == Computed(scripts).pieces
  IN  Made("$H", <<PieceOf("arith", <<>>, inside), PieceOf("unopened", <<>>, inside),
                   PieceOf("param", <<>>, <<PieceOf("param", <<>>, inside)>>)>>)
Simple(words) == [kind |-> "simple", name |-> <<words[1]>>, args |-> Tail(words), assigns |-> <<>>, psubs |-> <<>>,
   redirects |-> <<>>,
               words |-> <<>>, lists |-> <<>>]
Compound(k, words, lists) == [Simple(<<Plain("")>>) EXCEPT !.kind = k, !.words = words, !.lists = lists]
DefinedAs(name, body) == [Compound("function", <<>>, <<body>>) EXCEPT !.name = <<Plain(name)>>]
Alone(c) == <<[op |-> "", seq |-> <<c>>]>>
Fore(c) == [list |-> Alone(c), async |-> FALSE]
Back(c) == [list |-> Alone(c), async |-> TRUE]
ScriptOf(steps) == [bad |-> FALSE, items |-> steps]
RmOf(s) == Simple(<<Plain("rm"), Plain(s)>>)
Moves == {Simple(<<Plain("cd"), PathArg(Near(<<"s">>))>>), Simple(<<Plain("cd"), PathArg(Near(<<"..", "x">>))>>),
   Simple(<<Plain("cd"), PathArg(Rooted(<<"c", "d">>))>>), Simple(<<Plain("cd")>>),
        Simple(<<Plain("cd"), OptionArg(<<"-", "P">>, "-P"), OptionArg(<<"--">>, "--"), PathArg(Near(<<"~",
           "s">>))>>), Simple(<<Plain("cd"), OptionArg(<<"-">>, "-")>>), Simple(<<Plain("cd"), Computed(<<>>)>>)}
Around(c) ==
  {Fore(c), Back(c), Fore(Compound("subshell", <<>>, <<<<Fore(c), Fore(RmOf("i"))>>>>)), Fore(Compound("brace",
     <<>>, <<<<Fore(c), Fore(RmOf("i"))>>>>)),
   Fore(Compound("brace", <<>>, <<<<Back(c)>>>>)),
   [list |-> <<[op |-> "", seq |-> <<c, RmOf("p")>>]>>, async |-> FALSE],
   [list |-> <<[op |-> "", seq |-> <<RmOf("a")>>], [op |-> "&&", seq |-> <<c>>], [op |-> "||",
      seq |-> <<RmOf("o")>>]>>, async |-> FALSE],
   Fore(Compound("if", <<>>, <<<<Fore(RmOf("t"))>>, <<Fore(c)>>>>)), Fore(Compound("while", <<>>, <<<<Fore(c)>>,
      <<Fore(RmOf("b"))>>>>)),
   Fore(Compound("for", <<Computed(<<ScriptOf(<<Fore(c), Fore(RmOf("w"))>>)>>)>>, <<<<Fore(RmOf("b"))>>>>)),
   Fore(Compound("case", <<>>, <<<<Fore(c)>>, <<Fore(RmOf("k"))>>>>)),
   Fore(DefinedAs("g", <<Fore(c)>>)), Fore(Compound("coproc", <<>>, <<<<Fore(c)>>>>)),
   Fore(Simple(<<Plain("cat"), InQuotes(<<ScriptOf(<<Fore(c), Fore(RmOf("u"))>>)>>)>>)),
   Fore(Simple(<<Plain("cat"), Defaulted(<<ScriptOf(<<Fore(c), Fore(RmOf("v"))>>)>>), Unseen(<<ScriptOf(<<Fore(c), Fore(RmOf("h"))>>)>>)>>)),
   Fore(Compound("arithmetic for", <<Unseen(<<ScriptOf(<<Fore(RmOf("h"))>>)>>)>>, <<<<Fore(c), Fore(RmOf("b"))>>>>)),
   [list |-> <<[op |-> "", seq |-> <<Compound("test", <<Computed(<<ScriptOf(<<Fore(c), Fore(RmOf("e"))>>)>>)>>, <<>>)>>],
               [op |-> "&&", seq |-> <<[Compound("brace", <<>>, <<<<Fore(c)>>>>) EXCEPT !.redirects =
                  <<[op |-> ">", path |-> Near(<<"$()">>), pieces |-> Computed(<<ScriptOf(<<Fore(RmOf("d"))>>)>>).pieces]>>]>>]>>,
    async |-> FALSE],
   [list |-> <<[op |-> "", seq |-> <<DefinedAs("g", <<Fore(c), Fore(RmOf("g"))>>)>>],
               [op |-> "&&", seq |-> <<Simple(<<Plain("g")>>)>>]>>, async |-> FALSE],
   Fore([RmOf("x") EXCEPT !.psubs = <<<<Fore(c)>>>>]),
   Fore(Simple(<<Computed(<<ScriptOf(<<Fore(c)>>)>>)>>)), Fore(Simple(<<Plain("cat"), Computed(<<[bad |-> TRUE,
      items |-> <<>>]>>)>>))}
Scripted == {ScriptOf(<<w, Fore(RmOf("f"))>>) : w \in UNION {Around(c) : c \in Moves}} \cup
         {ScriptOf(<<Fore(c), w, Fore(RmOf("f"))>>) : c \in {Simple(<<Plain("cd"), Computed(<<>>)>>)},
            w \in UNION {{Fore(d), Fore(Compound("subshell", <<>>, <<<<Fore(d)>>>>))} : d \in Moves}}
RedirectTo(op, p) == [op |-> op, path |-> p, pieces |-> <<>>]
GitLine(more) == Simple(<<Plain("git")>> \o more)
OneLiners == {ScriptOf(<<Fore(c)>>) : c \in
  {GitLine(<<OptionArg(<<"-", "f">>, "-f")>>), GitLine(<<Plain("push"), OptionArg(<<"-", "x", "o", "f">>, "-xof"),
     PathArg(Rooted(<<"e">>))>>),
   GitLine(<<Plain("push"), OptionArg(<<"-", "f", "o">>, "-fo"), Computed(<<>>), Plain("y")>>),
   GitLine(<<OptionArg(<<"--">>, "--"), OptionArg(<<"-", "f">>, "-f"), Plain("z")>>), GitLine(<<[OptionArg(<<"-",
      "o">>, "-o") EXCEPT !.value = <<Rooted(<<"e">>)>>]>>),
   GitLine(<<OptionArg(<<"-", "o">>, "-o"), OptionArg(<<"--">>, "--"), Plain("z")>>), GitLine(<<OptionArg(<<"-",
      "o">>, "-o")>>),
   GitLine(<<[OptionArg(<<"--", "k">>, "--k") EXCEPT !.value = <<Near(<<"v">>)>>], OptionArg(<<"--", "k">>, "--k"),
      PathArg(Rooted(<<"e", "..", "h">>))>>),
   [RmOf("f") EXCEPT !.redirects = <<RedirectTo(">", Rooted(<<"e">>))>>],
      [RmOf("f") EXCEPT !.redirects = <<RedirectTo("<", Near(<<"s">>)), RedirectTo("<&", Rooted(<<"e">>))>>],
   [RmOf("f") EXCEPT !.name = <<>>, !.args = <<>>, !.redirects = <<RedirectTo(">", Rooted(<<"h", "n">>))>>],
   Simple(<<Plain("other"), PathArg(Rooted(<<"e">>))>>), Simple(<<Plain("rm"), Plain("a"),
      PathArg(Rooted(<<"e">>))>>)}}
FilePaths == {Rooted(<<"tmp", "f">>), Rooted(<<"tmp", "..", "e">>), Rooted(<<"tmp">>), Rooted(<<"tmpx">>),
   Rooted(<<"c", "w", "f">>), OnDisk("c", <<"h", "f">>), [root |-> <<"drive", "c">>, segs |-> <<"f">>],
          Near(<<"~", "f">>), Near(<<"$V", "f">>), Near(<<"$U", "f">>), Near(<<"..", "h", ".", "f">>),
             Rooted(<<"w", "s", "f">>), Rooted(<<"h">>), Near(<<"s">>)}
MCHeard == {[tool |-> "bash", parses |-> TRUE, params |-> [command |-> <<s>>]] : s \in Scripted \cup OneLiners}
       \cup {[tool |-> t, parses |-> TRUE, params |-> [path |-> <<p>>]] : t \in {"write", "read", "mystery"},
          p \in FilePaths}
       \cup {[tool |-> "read", parses |-> TRUE, params |-> [path |-> <<Rooted(<<"tmp", "f">>), Near(<<"s">>)>>]],
             [tool |-> "read", parses |-> TRUE, params |-> [other |-> <<Near(<<"s">>)>>]],
             [tool |-> "write", parses |-> FALSE, params |-> [path |-> <<>>]]}
NoConfig == [pre_checks |-> <<>>, positionals |-> <<>>, options |-> [o \in {} |-> {}], flags |-> <<>>]
GitRule(action) == [names |-> <<<<Near(<<"git">>), Near(<<"push">>)>>, <<Near(<<"git">>)>>>>, action |-> action,
   config |->
  [pre_checks |-> <<[env |-> "CI", match |-> {"1"}, negated |-> FALSE, action |-> "ask"], [env |-> "NO",
     match |-> {""}, negated |-> TRUE, action |-> "deny"]>>,
   positionals |-> <<>>, options |-> (<<"-", "o">> :> {"write"}) @@ (<<"--", "k">> :> {"read"}),
   flags |-> <<[flag |-> <<"-", "f">>, action |-> "ask"], [flag |-> <<"-", "x">>, action |-> "typo"]>>]]
RemoveRule(action) == [names |-> <<<<Near(<<"rm">>)>>>>, action |-> action, config |->
  [NoConfig EXCEPT !.positionals = <<[default_perm |-> {"delete"}, overrides |-> (-1 :> {"write",
     "read"}) @@ (0 :> {})]>>]]
CatchAll(action) == [names |-> <<<<>>>>, action |-> action, config |-> NoConfig]
MixedRule == [names |-> <<<<>>, <<Near(<<"git">>)>>>>, action |-> "deny", config |-> NoConfig]
Override(p, a) == [path |-> <<p>>, action |-> a]
BookOf(fallback, rules) ==
  [commands |-> [default |-> fallback, rules |-> rules],
   tools |-> <<[names |-> {"read", "write"}, checks |-> <<[param |-> "path", check |-> "read"]>>],
               [names |-> {"bash"}, checks |-> <<[param |-> "command", check |-> "bash"], [param |-> "path",
                  check |-> "typo"]>>],
               [names |-> {"write"}, checks |-> <<[param |-> "path", check |-> "write"]>>], [names |-> {"mystery"},
                  checks |-> <<[param |-> "", check |-> "read"]>>]>>,
   read |-> [default |-> "allow", overrides |-> <<Override(Near(<<"~", "**">>), "ask")>>],
   write |-> [default |-> "deny", overrides |-> <<Override(Near(<<"~", "**">>), "ask"), Override(Near(<<"{{CWD}}",
      "**">>), "allow"), Override(Near(<<"{{TMPDIR}}", "**">>), "allow"),
                                                  Override(Rooted(<<"**", "s">>), "deny"), Override(Rooted(<<"*",
                                                     "x">>), "typo")>>]]
MCBooks == {BookOf("deny", <<CatchAll("deny"), GitRule("allow"), CatchAll("ask"), RemoveRule("")>>),
            [BookOf("allow", <<GitRule("ask"), RemoveRule("")>>) EXCEPT !.write.overrides[3].action = "ask"],
            BookOf("allow", <<RemoveRule("ask"), GitRule("")>>), BookOf("typo", <<GitRule("deny"), CatchAll("ask"),
               RemoveRule(""), MixedRule>>),
            BookOf("", <<CatchAll("deny"), RemoveRule("typo"), GitRule("ask"), RemoveRule("allow")>>)}
MCGateEnv == "$V" :> Rooted(<<"h">>)
MCGateFlags == "CI" :> "1"
Guard == INSTANCE PermissionGate WITH
  Hosts <- {"posix", "win32"}, Drives <- {"c"}, Books <- MCBooks, Env <- MCGateEnv, Flags <- MCGateFlags, Heard <- MCHeard,
  host <- gate_host, raw <- gate_raw, book <- gate_book, call <- gate_call, ui <- gate_ui, verdict <- gate_verdict,
  ruling <- gate_ruling, ran <- gate_ran

gateVars == <<gate_host, gate_raw, gate_book, gate_call, gate_ui, gate_verdict, gate_ruling, gate_ran>>
coreVars == <<doing, processes, invoked, code, disk, litter, stack, visited, landed, culprit,
              speaking, opened, lineup, buffer, stdout, sent, reader, broke, kidEnded>>
streamVars == <<backend, runs, asking, waiting, streams, focused, listed, offered, resting, dock>>
dockVars == <<cards_asked, cards, slot, focus, region, row, shown, draft, answers>>
transcriptVars == <<log, tip, born, run, moves, attached, nodes, head, openTurn, preview, pane>>
cardVars == <<card, view, picked, outcome>>
noticeVars == <<live, turnCount, replaying, bar, raised>>
allVars == <<part, choiceVars, worldVars, replayVars,
             streamVars, dockVars, transcriptVars, cardVars, noticeVars, coreVars, gateVars>>

\* A module that is not run rests in one of its initial states.
Init ==
  /\ part \in {"choice", "world", "replay", "streams", "dock", "transcript", "cards", "notices", "core",
              "gate"}
  /\ Choice!ChoiceInit
  /\ part # "choice" => /\ pointers = [config |-> "unset", extra |-> "unset", home |-> "missing"]
                        /\ user = <<>> /\ default = [provider |-> "none", model |-> <<>>]
  /\ World!WorldInit
  /\ part # "world" => /\ installed = [d \in {"x", "y", "z"} |-> Package(FALSE, FALSE, FALSE, {}, {}, {"grab"}, {})]
                       /\ ladder = <<{}>> /\ filter.all
  /\ Pass!ReplayInit
  /\ Streams!StreamsInit
  /\ Dock!DockInit /\ (part # "dock" => row)
  /\ Transcript!TranscriptInit
  /\ IF part = "cards" THEN Dock!CardsInit
     ELSE card = "unused" /\ view = "unused" /\ picked = "unused" /\ outcome = "unused"
  /\ Streams!NoticesInit /\ Core!CoreInit
  /\ IF part = "gate" THEN Guard!GateInit
     ELSE /\ gate_host = "posix" /\ gate_raw = <<>> /\ gate_book = <<>> /\ gate_call = <<>> /\ gate_ui = FALSE
          /\ gate_verdict = <<>> /\ gate_ruling = "called" /\ gate_ran = <<>>

Only(m) ==
  /\ part = m /\ UNCHANGED part
  /\ m # "choice" => UNCHANGED choiceVars
  /\ m # "world" => UNCHANGED worldVars
  /\ m # "replay" => UNCHANGED replayVars
  /\ m # "streams" => UNCHANGED streamVars
  /\ m # "dock" => UNCHANGED dockVars
  /\ m # "transcript" => UNCHANGED transcriptVars
  /\ m # "cards" => UNCHANGED cardVars
  /\ m # "notices" => UNCHANGED noticeVars
  /\ m # "core" => UNCHANGED coreVars
  /\ m # "gate" => UNCHANGED gateVars

Next == \/ Only("streams") /\ Streams!StreamsNext
        \/ Only("dock") /\ Dock!DockNext
        \/ Only("transcript") /\ Transcript!TranscriptNext
        \/ Only("cards") /\ Dock!CardsNext
        \/ Only("notices") /\ Streams!NoticesNext
        \/ Only("core") /\ Core!CoreNext
        \/ Only("gate") /\ Guard!GateNext
        \/ Only("choice") /\ Choice!ChoiceNext
        \/ Only("world") /\ World!WorldNext
        \/ Only("replay") /\ Pass!ReplayNext

Spec == Init /\ [][Next]_allVars

\* The model a boot offers is the one the files name, once, usable and told.
ChoiceIsExact ==
  /\ Choice!PointerReplaces /\ Choice!UserWins /\ Choice!IdsStayUnique /\ Choice!ResolvesExactly
  /\ Choice!FallbackIsTold /\ Choice!ChosenIsOffered /\ Choice!ClientsAreCurrent

\* Packages report in any order and may die, and yet fold to one tool per name, in
\* scan order, past the filters and the skill ladder; the installer lands a package
\* behind its requirements and removes none another one needs.
WorldFoldsByScan ==
  /\ [](World!OneToolPerName /\ World!MissingWasFiltered /\ World!DisabledIsAbsent /\ World!LadderHolds)
  /\ World!FirstInScanWins
  /\ [](part = "core" => Core!OneModePerLine /\ Core!OnlyCyclesRefused)
  /\ Core!LandsBehindItsNeeds /\ Core!NeededIsNotRemoved

\* A replay is the log: balanced, results behind their calls, markers at the cut.
ReplayTellsTheLog ==
  Pass!BracketsBalance /\ Pass!ResultsFollowCalls /\ Pass!MarkersAtTheCut /\ Pass!OneRendering

\* The terminal lists what can be reached and shows the focused stream's own state,
\* transcript and notices.
TerminalShowsFocus ==
  /\ Streams!StreamsTypeOK /\ Streams!DockTellsFocused /\ Streams!LitWhileRunning /\ Streams!StatusTellsWork
  /\ Streams!NothingUnreachable /\ Streams!ReachableIsKept
  /\ Transcript!RowsReadTopDown /\ Transcript!BranchesAgree /\ Transcript!ChainIsKnown
  /\ Transcript!PreviewOnce /\ Transcript!TranscriptTellsChain
  /\ Streams!LiveExactly /\ Streams!BarTellsTheWorst

\* The open asks of the focused stream are its cards, the keys reach one of them or
\* the prompt, and a card answers only what it may; print mode answers the oldest card
\* first and prints the response once.
CardsStayAnswerable ==
  /\ Dock!NoStaleCard /\ Dock!KeysReachSomething /\ Dock!NothingCrossesStreams /\ Dock!CardsAreTheOpenAsks
  /\ part = "cards" => Dock!AnswersAreLegal /\ Dock!CursorOnARow /\ Dock!RowsAreTheSnapshot
  /\ part = "core" => Core!AnswersInOrder /\ Core!OpenCardsAreArmed /\ Core!PrintedOnce

\* The gate sees every command a script runs, where it runs, outside the blind spots of
\* the walk (PermissionGate names them), by the rules as they read, and a tool runs with
\* what was judged and on no weaker word than its parts'.
GateJudgesWhatRuns ==
  part = "gate" =>
    /\ Guard!EveryCommandIsWalked /\ Guard!CwdIsFollowed /\ Guard!MoreIsStricter /\ Guard!BookReadsForward
    /\ Guard!SpellingsAgree /\ Guard!ArgumentsAreTakenOnce /\ Guard!RunsWhatWasChecked
=============================================================================
