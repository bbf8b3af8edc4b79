------------------------------ MODULE TabitCore ------------------------------
(***************************************************************************)
(* The tabit-core binary, one process after another over one extensions    *)
(* root: the command line and the mode it selects, the installer with its  *)
(* staging directories and recursive requirements, and print mode, where   *)
(* one reader of stdin answers the cards of a run whose text is printed    *)
(* once.  JSON mode is the other modules' process and only begins here.    *)
(*                                                                         *)
(* A directory of the root is its manifest and whether all its files are   *)
(* there; scopes, payloads and versions' contents are abstracted.          *)
(***************************************************************************)
EXTENDS Integers, Sequences, FiniteSets, SequencesExt

CONSTANTS
  CommandLines,  \* for each process the lines a user may type, sequences of tokens
  SourceText,    \* what follows `install`: token -> <<scheme, sequence of atoms>>
  Registry,      \* npm name -> [latest, versions: version -> package]
  Folders,       \* a path's or repository's name -> package
  Names,         \* manifest names
  Lines,         \* lines typed at stdin in print mode
  CardIds, MaxDeltas

VARIABLES
  doing,      \* "shell" between processes, then what the process is at
  processes,  \* how many were started
  invoked,    \* the flags and values of the running process
  code,       \* the last exit: 0, 1, 101, or -1 for a kill
  disk,       \* name -> the package directory there, or Absent
  litter,     \* the kinds of dot directories left behind for good
  stack,      \* the installer's recursion, outermost first
  visited, landed,
  culprit,    \* the name refused as a dependency cycle, with its requirers
  speaking,   \* print mode: the streams with a run going
  opened,     \* card -> what is open at the backend
  lineup,     \* the armed cards, oldest first
  buffer, stdout, sent, reader, broke, kidEnded

processVars == <<doing, processes, invoked, code>>
rootVars == <<disk, litter>>
installVars == <<stack, visited, landed, culprit>>
printVars == <<speaking, opened, lineup, buffer, stdout, sent, reader, broke, kidEnded>>
coreVars == <<processVars, rootVars, installVars, printVars>>

-----------------------------------------------------------------------------
(* The command line. *)

Switches == {"--continue", "--list", "--json", "--ephemeral"}
Valued == {"--session", "-p", "--rewind", "--model", "--max-turns", "--parent", "--parent-call",
           "--tools", "--without", "--preamble", "--extensions"}
Numbers == {"--rewind", "--max-turns"}
Numerals == {"2"}
Subcommands == {"install", "extensions list", "extensions uninstall"}

StartLine == [flags |-> {}, values |-> <<>>, want |-> "none", end |-> "open"]

\* The parser's loop, one argument at a time; `want` is the flag waiting for its value.
TakeArgument(p, arg) ==
  IF p.end # "open" THEN p
  ELSE IF p.want = "extensions"
  THEN CASE arg = "list" -> [p EXCEPT !.flags = @ \cup {"extensions list"}, !.want = "none"]
         [] arg = "uninstall" -> [p EXCEPT !.want = "extensions uninstall"]
         [] OTHER -> [p EXCEPT !.end = "error"]
  ELSE IF p.want # "none"
  THEN IF p.want \in Numbers /\ arg \notin Numerals THEN [p EXCEPT !.end = "error"]
       ELSE [p EXCEPT !.flags = @ \cup {p.want}, !.want = "none",
                      !.values = [f \in DOMAIN @ \cup {p.want} |-> IF f = p.want THEN arg ELSE @[f]]]
  ELSE CASE arg = "--help" -> [p EXCEPT !.end = "help"]
         [] arg \in Switches -> [p EXCEPT !.flags = @ \cup {arg}]
         [] arg \in Valued -> [p EXCEPT !.want = arg]
         [] arg \in {"install", "extensions"} ->
              IF p.flags \cap Subcommands # {} THEN [p EXCEPT !.end = "error"] ELSE [p EXCEPT !.want = arg]
         [] OTHER -> [p EXCEPT !.end = "error"]

mode_of(flags) ==
  CASE "install" \in flags -> "Install"
    [] flags \cap {"extensions list", "extensions uninstall"} # {} -> "Extensions"
    [] "--list" \in flags -> "List"
    [] "--json" \in flags -> "Json"
    [] flags \cap {"-p", "--rewind"} # {} -> "PrintMode"
    [] OTHER -> "none"

SessionFlags == {"--session", "--continue", "--model", "--max-turns", "--parent", "--parent-call",
                 "--tools", "--without", "--ephemeral", "--preamble", "--extensions"}
Modes == {"Install", "Extensions", "List", "Json", "PrintMode"}
Allowed ==
  [mode \in Modes |-> CASE mode = "Install" -> {"install"}
                        [] mode = "Extensions" -> {"extensions list", "extensions uninstall"}
                        [] mode = "List" -> {"--list"}
                        [] mode = "Json" -> {"--json"} \cup SessionFlags
                        [] mode = "PrintMode" -> {"-p", "--rewind"} \cup SessionFlags]

validate_mode(flags) == mode_of(flags) # "none" /\ flags \subseteq Allowed[mode_of(flags)]

parse_args(line) ==
  LET p == FoldLeft(TakeArgument, StartLine, line) IN
    IF p.end # "open" THEN p
    ELSE IF /\ p.want = "none" /\ validate_mode(p.flags)
            /\ ~("--ephemeral" \in p.flags /\ p.flags \cap {"--session", "--continue"} # {})
         THEN [p EXCEPT !.end = mode_of(p.flags)]
         ELSE [p EXCEPT !.end = "error"]

\* Exit: what a process held in memory is gone, what it wrote stays.
Leave(c) ==
  /\ doing' = "shell" /\ code' = c /\ invoked' = StartLine
  /\ stack' = <<>> /\ visited' = {} /\ landed' = <<>>
  /\ speaking' = {} /\ opened' = <<>> /\ lineup' = <<>> /\ buffer' = <<>> /\ stdout' = <<>>
  /\ sent' = <<>> /\ reader' = "none" /\ broke' = FALSE /\ kidEnded' = FALSE
  /\ UNCHANGED processes

Launch ==
  /\ doing = "shell" /\ processes < Len(CommandLines)
  /\ \E line \in CommandLines[processes + 1] : LET p == parse_args(line) IN
       /\ invoked' = [p EXCEPT !.end = "open"]
       /\ doing' = IF p.end \in {"error", "help"} THEN "over" ELSE p.end
       /\ code' = IF p.end = "error" THEN 1 ELSE 0
  /\ processes' = processes + 1 /\ culprit' = <<>>
  /\ UNCHANGED <<rootVars, stack, visited, landed, printVars>>

Over == doing = "over" /\ Leave(code) /\ UNCHANGED <<rootVars, culprit>>

\* The session list, the package list and the protocol edge leave this module's state alone.
Reports ==
  /\ \/ doing \in {"List", "Json"} /\ \E c \in {0, 1} : Leave(c)
     \/ doing = "Extensions" /\ "extensions list" \in invoked.flags /\ Leave(0)
  /\ UNCHANGED <<rootVars, culprit>>

-----------------------------------------------------------------------------
(* The installer. *)

Absent == [name |-> "", requires |-> <<>>, valid |-> FALSE, manifest |-> FALSE, whole |-> FALSE]
Present(name) == name \in Names /\ disk[name].manifest
Listed == {n \in Names : disk[n].manifest /\ disk[n].valid /\ disk[n].name = n}

\* npm's pin is what follows the last @, unless that @ opens the name.
parse_source(token) ==
  LET scheme == SourceText[token][1]
      rest == SourceText[token][2]
      ats == {i \in 2..Len(rest) - 1 : rest[i] = "@"}
      at == CHOOSE i \in ats : \A j \in ats : j <= i
  IN IF rest = <<>> \/ scheme \notin {"npm", "git", "path"} THEN [scheme |-> "unknown"]
     ELSE IF scheme # "npm" THEN [scheme |-> scheme, from |-> rest[1]]
     ELSE IF ats = {} THEN [scheme |-> "npm", name |-> rest, version |-> "latest"]
     ELSE [scheme |-> "npm", name |-> SubSeq(rest, 1, at - 1), version |-> rest[at + 1]]

Requirement(name) == [scheme |-> "npm", name |-> <<name>>, version |-> "latest"]
Frame(source) == [source |-> source, pkg |-> Absent, todo |-> <<>>, at |-> "resolve"]

InstallBegins ==
  /\ doing = "Install"
  /\ LET source == parse_source(invoked.values["install"]) IN
       IF source.scheme = "unknown" THEN doing' = "over" /\ code' = 1 /\ UNCHANGED stack
       ELSE doing' = "installing" /\ stack' = <<Frame(source)>> /\ UNCHANGED code
  /\ UNCHANGED <<processes, invoked, rootVars, visited, landed, culprit, printVars>>

top == Last(stack)
Top(frame) == stack' = [stack EXCEPT ![Len(stack)] = frame]
AtTop(at) == doing = "installing" /\ stack # <<>> /\ top.at = at

\* The error travels up the recursion; every level removes its own stage, and a
\* removal that fails is not told.
InstallFails(left) ==
  /\ litter' = litter \cup left
  /\ doing' = "over" /\ code' = 1 /\ stack' = <<>>
  /\ UNCHANGED <<processes, invoked, visited, landed, printVars>>
Unremoved == {{}, {"stage"}}

\* What a source holds, or Absent when it cannot be had.
Fetched(source) ==
  CASE source.scheme # "npm" -> IF source.from \in DOMAIN Folders THEN Folders[source.from] ELSE Absent
    [] OTHER -> IF source.name \notin DOMAIN Registry THEN Absent
                ELSE LET entry == Registry[source.name]
                         version == IF source.version = "latest" THEN entry.latest ELSE source.version
                     IN IF version \in DOMAIN entry.versions THEN entry.versions[version] ELSE Absent

\* resolve_to then validate: the stage is filled, its manifest read, the name visited.
ResolveFails ==
  /\ AtTop("resolve") /\ UNCHANGED <<disk, culprit>>
  /\ \E left \in Unremoved : InstallFails(left)

Ancestors == {stack[i].pkg.name : i \in 1..Len(stack) - 1}

Resolve ==
  /\ AtTop("resolve") /\ Fetched(top.source) # Absent
  /\ Top([top EXCEPT !.pkg = Fetched(top.source), !.at = "validate"])
  /\ UNCHANGED <<processVars, rootVars, visited, landed, culprit, printVars>>

Refused == ~top.pkg.valid \/ top.pkg.name \in visited

Validate ==
  /\ AtTop("validate")
  /\ \/ /\ Refused /\ \E left \in Unremoved : InstallFails(left)
        /\ culprit' = IF top.pkg.valid THEN <<top.pkg.name, Ancestors>> ELSE culprit
        /\ UNCHANGED disk
     \/ /\ ~Refused /\ visited' = visited \cup {top.pkg.name}
        /\ Top([top EXCEPT !.todo = top.pkg.requires, !.at = "needs"])
        /\ UNCHANGED <<processVars, rootVars, landed, culprit, printVars>>

\* Requirements first: one already on disk is skipped, a missing one recurses by its npm name.
Needs ==
  /\ AtTop("needs")
  /\ IF top.todo = <<>> THEN Top([top EXCEPT !.at = "place"])
     ELSE LET rest == [top EXCEPT !.todo = Tail(@)] IN
       IF Present(Head(top.todo)) THEN Top(rest)
       ELSE stack' = Append([stack EXCEPT ![Len(stack)] = rest], Frame(Requirement(Head(top.todo))))
  /\ UNCHANGED <<processVars, rootVars, visited, landed, culprit, printVars>>

\* place: the old directory is renamed aside, or removed when it cannot be.
SwapAside ==
  /\ AtTop("place")
  /\ LET name == top.pkg.name IN
       \/ /\ disk[name] = Absent /\ Top([top EXCEPT !.at = "land"])
          /\ UNCHANGED <<processVars, disk, litter, visited, landed, culprit, printVars>>
       \/ \E retired \in {"retired", "removed"} :
            /\ disk[name] # Absent /\ disk' = [disk EXCEPT ![name] = Absent]
            /\ Top([top EXCEPT !.at = IF retired = "retired" THEN "landOver" ELSE "land"])
            /\ UNCHANGED <<processVars, litter, visited, landed, culprit, printVars>>
       \/ \E manifest \in BOOLEAN, left \in Unremoved :
            /\ disk[name] # Absent
            /\ disk' = [disk EXCEPT ![name].manifest = @ /\ manifest, ![name].whole = FALSE]
            /\ InstallFails(left) /\ UNCHANGED culprit

\* The stage's own rename; the old directory, once aside, is not brought back.
LandFails ==
  /\ AtTop("land") \/ AtTop("landOver")
  /\ \E left \in Unremoved :
       InstallFails(left \cup IF top.at = "landOver" THEN {"retired"} ELSE {})
  /\ UNCHANGED <<disk, culprit>>

Land ==
  /\ AtTop("land") \/ AtTop("landOver")
  /\ disk' = [disk EXCEPT ![top.pkg.name] = top.pkg]
  /\ \E kept \in {{}, {"retired"}} : litter' = litter \cup (IF top.at = "landOver" THEN kept ELSE {})
  /\ landed' = Append(landed, top.pkg.name)
  /\ stack' = Front(stack)
  /\ IF Len(stack) = 1 THEN doing' = "over" /\ code' = 0 ELSE UNCHANGED <<doing, code>>
  /\ UNCHANGED <<processes, invoked, visited, culprit, printVars>>

\* Uninstall: refused while a listed package requires it; the removal takes time and may fail.
UninstallBegins ==
  /\ doing = "Extensions" /\ "extensions uninstall" \in invoked.flags
  /\ LET name == invoked.values["extensions uninstall"]
         dependents == {n \in Listed : Contains(disk[n].requires, name)}
     IN IF ~Present(name) \/ dependents # {}
        THEN doing' = "over" /\ code' = 1 ELSE doing' = "removing" /\ UNCHANGED code
  /\ UNCHANGED <<processes, invoked, rootVars, installVars, printVars>>

Removes ==
  /\ doing = "removing"
  /\ LET name == invoked.values["extensions uninstall"] IN
       \/ /\ disk[name].whole /\ UNCHANGED <<doing, code>>
          /\ \E manifest \in BOOLEAN :
               disk' = [disk EXCEPT ![name].whole = FALSE, ![name].manifest = manifest]
       \/ disk' = [disk EXCEPT ![name] = Absent] /\ doing' = "over" /\ code' = 0
       \/ UNCHANGED disk /\ doing' = "over" /\ code' = 1
  /\ UNCHANGED <<processes, invoked, litter, installVars, printVars>>

-----------------------------------------------------------------------------
(* Print mode: the run's frames, and the reader of stdin beside them. *)

Streams == {"boot", "kid"}

\* What ends before the run: an unreadable configuration, a rewind of no session, an
\* assembly or a rewind that fails, and a rewind with no prompt behind it.
PrintBegins ==
  /\ doing = "PrintMode"
  /\ \/ doing' = "over" /\ code' = 1 /\ UNCHANGED <<speaking, reader>>
     \/ /\ ~("--rewind" \in invoked.flags /\ invoked.flags \cap {"--session", "--continue"} = {})
        /\ IF "-p" \in invoked.flags
           THEN doing' = "printing" /\ speaking' = {"boot"} /\ reader' = "reads" /\ UNCHANGED code
           ELSE doing' = "over" /\ code' = 0 /\ UNCHANGED <<speaking, reader>>
  /\ UNCHANGED <<processes, invoked, rootVars, installVars, opened, lineup, buffer, stdout, sent, broke, kidEnded>>

Printing == doing = "printing" /\ UNCHANGED <<processVars, rootVars, installVars>>

\* A subagent's frames come down the same channel as the run's own.
KidOpens ==
  /\ Printing /\ "boot" \in speaking /\ ~kidEnded /\ speaking' = Streams
  /\ UNCHANGED <<opened, lineup, buffer, stdout, sent, reader, broke, kidEnded>>

TextDelta ==
  /\ Printing /\ Len(buffer) < MaxDeltas
  /\ \E s \in speaking : buffer' = Append(buffer, s)
  /\ UNCHANGED <<speaking, opened, lineup, stdout, sent, reader, broke, kidEnded>>

\* A select card whose payload reads is armed; any other widget is told and left unanswered.
InteractionRequest ==
  /\ Printing
  /\ \E s \in speaking, c \in CardIds \ DOMAIN opened, options \in {0, 2}, readable \in BOOLEAN :
       /\ ~readable => options = 0
       /\ opened' = [d \in DOMAIN opened \cup {c} |->
                       IF d = c THEN [by |-> s, options |-> options, readable |-> readable, open |-> TRUE]
                       ELSE opened[d]]
       /\ lineup' = IF readable THEN Append(lineup, c) ELSE lineup
  /\ UNCHANGED <<speaking, buffer, stdout, sent, reader, broke, kidEnded>>

\* The close of one card renders nothing and disarms nothing.
InteractionSettled ==
  /\ Printing
  /\ \E c \in DOMAIN opened : opened[c].open /\ opened' = [opened EXCEPT ![c].open = FALSE]
  /\ UNCHANGED <<speaking, lineup, buffer, stdout, sent, reader, broke, kidEnded>>

\* A terminal closes every card and prints the buffer; a failure is the exit code's.
Terminal ==
  /\ Printing
  /\ \E s \in speaking, failed \in BOOLEAN :
       /\ speaking' = IF s = "boot" THEN {} ELSE speaking \ {s}
       /\ opened' = [c \in DOMAIN opened |-> [opened[c] EXCEPT !.open = @ /\ opened[c].by \in speaking']]
       /\ lineup' = <<>>
       /\ stdout' = IF failed \/ buffer = <<>> THEN stdout ELSE Append(stdout, buffer)
       /\ broke' = (broke \/ failed)
       /\ kidEnded' = (kidEnded \/ s = "kid")
  /\ UNCHANGED <<buffer, sent, reader>>

\* A line's first word as a number, and whether words follow; no option, no choice.
parse_answer(c, line) ==
  LET options == opened[c].options IN
    [card |-> c, typed |-> line,
     selected |-> IF options > 0 /\ ~line.blank /\ line.number \in 1..options THEN line.number ELSE 0,
     text |-> ~line.blank /\ (options = 0 \/ line.more)]

\* The reader answers the oldest armed card with each line; Escape aborts and ends it.
LineTyped ==
  /\ Printing /\ reader = "reads"
  /\ \/ /\ \E line \in Lines :
              IF lineup = <<>> THEN UNCHANGED <<lineup, sent>>
              ELSE /\ sent' = Append(sent, parse_answer(Head(lineup), line))
                   /\ lineup' = Tail(lineup)
        /\ UNCHANGED reader
     \/ reader' = "aborted" /\ UNCHANGED <<lineup, sent>>
     \/ reader' = "eof" /\ UNCHANGED <<lineup, sent>>
  /\ UNCHANGED <<speaking, opened, buffer, stdout, broke, kidEnded>>

PrintEnds ==
  /\ doing = "printing" /\ speaking = {}
  /\ doing' = "over" /\ code' = IF broke THEN 1 ELSE 0
  /\ UNCHANGED <<processes, invoked, rootVars, installVars, printVars>>

\* A panic exits with 101 through the hook, a kill with nothing; stages stay behind.
Dies ==
  /\ doing \notin {"shell", "over"}
  /\ \E c \in {101, -1} : Leave(c)
  /\ litter' = litter \cup (IF \E i \in DOMAIN stack : stack[i].pkg # Absent THEN {"stage"} ELSE {})
                      \cup (IF stack # <<>> /\ top.at = "landOver" THEN {"retired"} ELSE {})
  /\ UNCHANGED <<disk, culprit>>

CoreInit ==
  /\ doing = "shell" /\ processes = 0 /\ invoked = StartLine /\ code = 0
  /\ disk = [n \in Names |-> Absent] /\ litter = {}
  /\ stack = <<>> /\ visited = {} /\ landed = <<>> /\ culprit = <<>>
  /\ speaking = {} /\ opened = <<>> /\ lineup = <<>> /\ buffer = <<>> /\ stdout = <<>>
  /\ sent = <<>> /\ reader = "none" /\ broke = FALSE /\ kidEnded = FALSE

InstallNext == InstallBegins \/ ResolveFails \/ Resolve \/ Validate \/ Needs \/ SwapAside \/ LandFails \/ Land
PrintNext == PrintBegins \/ KidOpens \/ TextDelta \/ InteractionRequest \/ InteractionSettled
             \/ Terminal \/ LineTyped \/ PrintEnds
CoreNext == Launch \/ Over \/ Reports \/ InstallNext \/ UninstallBegins \/ Removes \/ PrintNext \/ Dies
CoreSpec == CoreInit /\ [][CoreNext]_coreVars

-----------------------------------------------------------------------------
(* Properties. *)

\* Every accepted line is one mode's: no flag of another mode rides along, each flag that
\* takes a value has one, and an in-memory session resumes nothing.
OneModePerLine ==
  (doing = "shell" /\ processes = 0) =>
    \A line \in CommandLines[1] : LET p == parse_args(line) IN
      p.end \in Modes =>
        /\ Cardinality({g \in {Subcommands, {"--list"}, {"--json"}, {"-p", "--rewind"}} : g \cap p.flags # {}}) = 1
        /\ Cardinality(p.flags \cap Subcommands) <= 1
        /\ p.flags \cap Valued \subseteq DOMAIN p.values
        /\ ~("--ephemeral" \in p.flags /\ p.flags \cap {"--session", "--continue"} # {})

\* NOT true: an accepted flag acts.  --session wins over --continue without a word, and a
\* rewind without a prompt builds a toolset and a turn limit nobody uses.
AcceptedFlagsAct ==
  doing \in {"PrintMode", "Json"} => ~({"--session", "--continue"} \subseteq invoked.flags)

\* A name npm serves under another manifest name.
Carries(n, name) == <<n>> \in DOMAIN Registry /\ \E v \in DOMAIN Registry[<<n>>].versions :
                                                   Registry[<<n>>].versions[v].name = name
Misnamed == {n \in Names : \E m \in Names \ {n} : Carries(n, m)}

\* A package lands whole, under its own name, and behind everything it requires: whatever
\* fails or is killed in between, the loader never meets a dependent before its needs.
LandsBehindItsNeeds ==
  [][\A n \in Names : disk'[n].whole /\ disk'[n] # disk[n] =>
       /\ disk'[n].name = n /\ disk'[n].valid
       /\ \A r \in Names \ Misnamed : Contains(disk'[n].requires, r) => disk[r].manifest \/ r = n]_coreVars

\* NOT true: the same for every requirement.  The installer never compares the name it
\* asked npm for with the manifest it received.
NeedsAlwaysLand ==
  [][\A n \in Names : disk'[n].whole /\ disk'[n] # disk[n] =>
       \A r \in Names : Contains(disk'[n].requires, r) => disk[r].manifest]_coreVars

\* The recursion holds each name once, and what it refuses as a cycle is one: the name is
\* being installed further out.  A diamond is not a cycle.
OnlyCyclesRefused ==
  /\ \A i, j \in DOMAIN stack :
       (i < j /\ {stack[i].at, stack[j].at} \cap {"resolve", "validate"} = {}) => stack[i].pkg.name # stack[j].pkg.name
  /\ Len(stack) <= Cardinality(Names) + 1
  /\ culprit # <<>> => culprit[1] \in culprit[2] \/ \E n \in Misnamed : Carries(n, culprit[1])

\* A process that installs or removes touches nothing a listed package requires: only a
\* package's own replacement takes it away, and an uninstall never does.
NeededIsNotRemoved ==
  [][(doing = "removing") =>
       \A n \in Names : disk'[n] # disk[n] => ~\E d \in Listed \ {n} : Contains(disk[d].requires, n)]_coreVars

\* NOT true: an install that fails or is killed leaves the package it was to replace, and
\* the root holds only whole packages.
FailedInstallKeepsOld ==
  [][doing = "installing" /\ doing' = "over" /\ code' = 1 => \A n \in Names : disk'[n].whole = disk[n].whole]_coreVars
RootIsWhole == \A n \in Names : disk[n] # Absent => disk[n].whole

\* NOT true: dot directories never appear in a listing.  The scan skips no dot, so a stage
\* left with its manifest is listed as broken at every start.
LitterIsUnseen == litter = {}

\* Answers go to the cards as they were shown, each card at most once and only one this
\* surface rendered; a number picks the option it names, a free-text card none.
AnswersInOrder ==
  \A i \in DOMAIN sent : LET card == opened[sent[i].card] IN
    /\ card.readable
    /\ \A j \in 1..i - 1 : sent[j].card # sent[i].card
    /\ sent[i].selected # 0 => sent[i].selected = sent[i].typed.number /\ sent[i].selected <= card.options
    /\ ~(sent[i].card \in Range(lineup))

\* Until a subagent's run ends, a card that is open and shown can still be answered.
OpenCardsAreArmed ==
  ~kidEnded => \A c \in DOMAIN opened :
    opened[c].open /\ opened[c].readable => c \in Range(lineup) \/ \E i \in DOMAIN sent : sent[i].card = c

\* NOT true: the same once a subagent's terminal has cleared the cards of the run above it.
CardsOutliveTheKid ==
  \A c \in DOMAIN opened :
    opened[c].open /\ opened[c].readable => c \in Range(lineup) \/ \E i \in DOMAIN sent : sent[i].card = c

\* NOT true: an answer reaches an open card.  A settled card stays armed and eats the line.
LinesMeetOpenCards ==
  [][Len(sent') > Len(sent) => opened[Last(sent').card].open]_coreVars

\* A run without subagents prints its text once, whole, at its end; a failure prints
\* nothing, and is the only way to exit with 1 from a run.
PrintedOnce ==
  /\ ~("kid" \in speaking \/ kidEnded) =>
       /\ Len(stdout) <= 1
       /\ stdout # <<>> => speaking = {} /\ stdout[1] = buffer /\ ~broke
  /\ (doing = "over" /\ reader # "none") => ((code = 1) <=> broke)

\* NOT true: the same with subagents, whose text joins the buffer and whose end prints it.
StdoutIsTheResponse ==
  /\ Len(stdout) <= 1
  /\ \A i \in DOMAIN stdout : \A k \in DOMAIN stdout[i] : stdout[i][k] = "boot"

=============================================================================
