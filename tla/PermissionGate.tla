--------------------------- MODULE PermissionGate ---------------------------
(***************************************************************************)
(* The permission gate (tabit-gate, mounted by tabit-app/src/gate.rs): one *)
(* tool call is checked against a rule book that was read once, and runs,  *)
(* is skipped, or waits for a card.                                        *)
(*                                                                         *)
(* A script is its syntax tree, as the parser hands it over (brush-parser  *)
(* is external).  A path is a root and its segments; an argument is its    *)
(* option name, if it looks like one, and its text as a path.  Reasons and *)
(* warnings are left out, and so is the glob crate beyond "*" and "**".    *)
(***************************************************************************)
EXTENDS Integers, FiniteSets, SequencesExt

CONSTANTS
  Hosts,    \* the platforms the node may run on: "posix", "win32"
  Drives,   \* the segments that read as a drive letter
  Books,    \* the rule books, as their TOML says them
  Env,      \* the environment's variables that paths name, and the paths they hold
  Flags,    \* the variables that pre-checks read, and the words they hold
  Heard     \* the calls that reach the gate

VARIABLES
  host,     \* the platform
  raw,      \* the rule book's text
  book,     \* the rule book as read, <<>> until the gate is mounted
  call,     \* the call: its tool, its arguments, whether they parse
  ui,       \* whether the call's context can ask a user
  verdict,  \* the check's result: <<>> when no rule names the tool
  ruling,   \* "called", "asked", "runs" or "skipped"
  ran       \* the arguments the tool was run with, <<>> if it was not

gateVars == <<host, raw, book, call, ui, verdict, ruling, ran>>

-----------------------------------------------------------------------------
(* Actions and their aggregate (types.rs). *)

Rank(a) == CASE a = "allow" -> 0 [] a = "ask" -> 1 [] OTHER -> 2
stricter(a, b) == IF Rank(a) >= Rank(b) THEN a ELSE b
aggregate_results(results) == FoldSet(stricter, "allow", results)
IsAction(a) == a \in {"allow", "ask", "deny"}

-----------------------------------------------------------------------------
(* Paths (path_utils.rs).  Roots: none, "/", "//", a drive ("C:") and a    *)
(* drive's root ("C:/").                                                   *)

Path(root, segs) == [root |-> root, segs |-> segs]
Rel(segs) == Path(<<>>, segs)
Posix(segs) == Path(<<"/">>, segs)
Disk(d, segs) == Path(<<"disk", d>>, segs)
IsPosix(p) == p.root = <<"/">>
HasDrive(p) == Len(p.root) = 2

World(h) == IF h = "win32"
            THEN [win32 |-> TRUE, cwd |-> Disk("c", <<"w">>), home |-> Disk("c", <<"h">>), tmp |-> Disk("c", <<"t">>)]
            ELSE [win32 |-> FALSE, cwd |-> Posix(<<"w">>), home |-> Posix(<<"h">>), tmp |-> Posix(<<"tmp">>)]

convert_git_bash_drive_path(p) ==
  IF IsPosix(p) /\ p.segs # <<>> /\ Head(p.segs) \in Drives THEN Disk(Head(p.segs), Tail(p.segs)) ELSE p

\* What stands first takes its value's root along; further in, its segments only.
Spliced(p, i, value) ==
  [root |-> IF i = 1 /\ p.root = <<>> THEN value.root ELSE p.root,
   segs |-> SubSeq(p.segs, 1, i - 1) \o value.segs \o SubSeq(p.segs, i + 1, Len(p.segs))]
First(at) == CHOOSE i \in at : \A k \in at : i <= k
ExpandedAt(p, named, values) == IF named = {} THEN p ELSE Spliced(p, First(named), values[p.segs[First(named)]])
Expanded(p, values) == ExpandedAt(p, {i \in DOMAIN p.segs : p.segs[i] \in DOMAIN values}, values)

expand_tilde(p, home) ==
  IF p.root = <<>> /\ p.segs # <<>> /\ Head(p.segs) = "~" THEN Spliced(p, 1, home) ELSE p
Placeholders(ctx) == [v \in {"{{HOME}}", "{{CWD}}", "{{REPO}}", "{{TMPDIR}}"} |->
  CASE v = "{{HOME}}" -> ctx.home [] v = "{{TMPDIR}}" -> ctx.tmp [] OTHER -> ctx.cwd]

\* "." goes, ".." takes the segment before it; above a root there is nothing.
Normalized(p) ==
  LET Take(kept, s) ==
        CASE s = "." -> kept
          [] s = ".." /\ kept # <<>> /\ Last(kept) # ".." -> Front(kept)
          [] s = ".." /\ p.root # <<>> -> kept
          [] OTHER -> Append(kept, s)
  IN  [p EXCEPT !.segs = FoldLeft(Take, <<>>, @)]

posix_form(p, cwd) == IsPosix(p) \/ (~HasDrive(p) /\ IsPosix(cwd))
win32_is_absolute(p) == p.root # <<>> /\ p.root[1] # "drive"
IsAbsolute(p, cwd) == IF posix_form(p, cwd) THEN p.root # <<>> ELSE win32_is_absolute(p)

posix_resolve(cwd, p) == Path(cwd.root, cwd.segs \o p.segs)
win32_resolve(cwd, p) ==
  CASE p.root = <<>> -> Path(cwd.root, cwd.segs \o p.segs)
    [] HasDrive(p) /\ HasDrive(cwd) /\ cwd.root[2] = p.root[2] -> Path(cwd.root, cwd.segs \o p.segs)
    [] OTHER -> Disk(p.root[2], p.segs)

canonicalize_drive(p) == IF HasDrive(p) THEN Posix(<<p.root[2]>> \o p.segs) ELSE p

Resolved(p, ctx) ==
  IF IsAbsolute(p, ctx.cwd) THEN p
  ELSE IF posix_form(p, ctx.cwd) \/ ~ctx.win32 THEN posix_resolve(ctx.cwd, p) ELSE win32_resolve(ctx.cwd, p)

\* The steps in their order; a caller leaves some of them out.
PathSteps == <<"drive", "tilde", "braces", "env", "resolve", "normal", "canonical">>
Preprocessed(p, step, ctx) ==
  CASE step = "drive" -> IF ctx.win32 THEN convert_git_bash_drive_path(p) ELSE p
    [] step = "tilde" -> expand_tilde(p, ctx.home)
    [] step = "braces" -> Expanded(p, Placeholders(ctx))
    [] step = "env" -> Expanded(p, Env)
    [] step = "resolve" -> Resolved(p, ctx)
    [] step = "normal" -> Normalized(p)
    [] OTHER -> canonicalize_drive(p)
preprocess_path(input, ctx, steps) ==
  FoldLeft(LAMBDA p, step : Preprocessed(p, step, ctx), input,
           SelectSeq(PathSteps, LAMBDA step : step \in steps \cup {"drive", "tilde", "normal"}))

preprocess_config_pattern(p, ctx) ==
  preprocess_path(p, ctx, {"braces", "env", "canonical"} \cup
                          IF IsPosix(p) /\ p.segs # <<>> /\ Head(p.segs) = "**" THEN {} ELSE {"resolve"})
preprocess_runtime_path(p, ctx) == preprocess_path(p, ctx, {"env", "resolve", "canonical"})

\* A last "**" stands for one segment or more, one before others for any number.
RECURSIVE Globs(_, _)
Globs(pattern, segs) ==
  IF pattern = <<>> THEN segs = <<>>
  ELSE CASE Head(pattern) = "**" /\ Len(pattern) = 1 -> segs # <<>>
         [] Head(pattern) = "**" -> \E k \in 0..Len(segs) : Globs(Tail(pattern), SubSeq(segs, k + 1, Len(segs)))
         [] OTHER -> segs # <<>> /\ Head(pattern) \in {"*", Head(segs)} /\ Globs(Tail(pattern), Tail(segs))
matches_glob(p, pattern) == p.root = pattern.root /\ Globs(pattern.segs, p.segs)

\* The last override that matches decides (path_permission.rs).
Permission(p, section) ==
  LET hits == {i \in DOMAIN section.overrides :
                \E j \in DOMAIN section.overrides[i].path : matches_glob(p, section.overrides[i].path[j])}
  IN  IF hits = {} THEN section.default ELSE section.overrides[CHOOSE i \in hits : \A k \in hits : k <= i].action
check_path_permission(path, section, ctx) == Permission(preprocess_runtime_path(path, ctx), section)

-----------------------------------------------------------------------------
(* The rule book (config.rs).  A name is the words it is made of, the      *)
(* catch-all's is none; what the text leaves out is "", and a word that is *)
(* no action is skipped or falls back.                                     *)

filter_valid_overrides(overrides, ctx) ==
  LET valid == SelectSeq(overrides, LAMBDA o : IsAction(o.action))
  IN  [i \in DOMAIN valid |->
        [path |-> [j \in DOMAIN valid[i].path |-> preprocess_config_pattern(valid[i].path[j], ctx)],
         action |-> valid[i].action]]
build_permission_section(section, ctx) ==
  [default |-> IF IsAction(section.default) THEN section.default ELSE "allow",
   overrides |-> filter_valid_overrides(section.overrides, ctx)]

build_rule_config(rule) ==
  [rule.config EXCEPT !.pre_checks = SelectSeq(@, LAMBDA c : IsAction(c.action)),
                      !.flags = SelectSeq(@, LAMBDA f : IsAction(f.action))]

\* Backwards: a later rule stands first; a catch-all ends the rules and may set the default.
TakeRule(read, rule) ==
  CASE rule.names = <<>> -> read
    [] rule.names = <<<<>>>> ->
         [read EXCEPT !.catch_all_seen = TRUE, !.default = IF IsAction(rule.action) THEN rule.action ELSE @]
    [] <<>> \in ToSet(rule.names) \/ read.catch_all_seen -> read
    [] OTHER ->
         [read EXCEPT !.rules = @ \o [i \in DOMAIN rule.names |->
            [name |-> rule.names[i], config |-> build_rule_config(rule),
             action |-> IF IsAction(rule.action) THEN rule.action ELSE read.default]]]
BuildCommands(commands) ==
  FoldLeft(TakeRule, [rules |-> <<>>, catch_all_seen |-> FALSE,
                      default |-> IF IsAction(commands.default) THEN commands.default ELSE "allow"],
           Reverse(commands.rules))

\* A tool rule without a usable name or check is skipped; a later rule replaces an earlier one.
ValidChecks(rule) == SelectSeq(rule.checks, LAMBDA c : c.param # "" /\ c.check \in {"read", "write", "bash"})
TakeToolRule(table, rule) ==
  IF rule.names = {} \/ "" \in rule.names \/ ValidChecks(rule) = <<>> THEN table
  ELSE [t \in DOMAIN table \cup rule.names |-> IF t \in rule.names THEN ValidChecks(rule) ELSE table[t]]
build_tools_config(rules) == FoldLeft(TakeToolRule, [t \in {} |-> <<>>], rules)

build_sanity_config(text, ctx) ==
  [context |-> ctx, commands |-> BuildCommands(text.commands), tools |-> build_tools_config(text.tools),
   read |-> build_permission_section(text.read, ctx), write |-> build_permission_section(text.write, ctx)]

-----------------------------------------------------------------------------
(* Arguments (arg_parser.rs).  An argument's name is <<>> for a plain word, *)
(* <<"--">> for the end of options, <<"-", letters...>> or <<"--", word>>.  *)

IsShort(arg) == arg.name # <<>> /\ arg.name[1] = "-"
IsLong(arg) == Len(arg.name) = 2 /\ arg.name[1] = "--"

set_option(options, name, value, i) ==
  LET at == {j \in DOMAIN options : options[j].name = name}
      entry == [name |-> name, value |-> value, index |-> i]
  IN  IF at = {} THEN Append(options, entry) ELSE [j \in DOMAIN options |-> IF j \in at THEN entry ELSE options[j]]

\* The letters up to the first that is an option, which takes the next argument.
Combined(parsed, arg, flags, options) ==
  LET short(i) == <<"-", arg.name[i]>>
      at == {i \in 2..Len(arg.name) : short(i) \in options}
      stop == IF at = {} THEN Len(arg.name) + 1 ELSE First(at)
  IN  [parsed EXCEPT !.flags = @ \cup ({short(i) : i \in 2..stop - 1} \cap flags),
                     !.pending = IF at = {} THEN <<>> ELSE <<short(stop)>>]

TakeArg(parsed, arg, i, flags, options) ==
  LET bare == arg.name # <<>> /\ arg.value = <<>> IN
  CASE parsed.ended -> [parsed EXCEPT !.positionals = Append(@, i)]
    [] parsed.pending # <<>> ->
         [parsed EXCEPT !.pending = <<>>, !.options = set_option(@, parsed.pending[1], arg.path, i)]
    [] arg.name = <<"--">> -> [parsed EXCEPT !.ended = TRUE]
    [] bare /\ arg.name \in flags -> [parsed EXCEPT !.flags = @ \cup {arg.name}]
    [] bare /\ arg.name \in options -> [parsed EXCEPT !.pending = <<arg.name>>]
    [] arg.value # <<>> /\ arg.name \in options ->
         [parsed EXCEPT !.options = set_option(@, arg.name, arg.value[1], i)]
    [] IsLong(arg) -> parsed
    [] IsShort(arg) -> IF Len(arg.name) > 2 \/ arg.value # <<>> THEN Combined(parsed, arg, flags, options) ELSE parsed
    [] OTHER -> [parsed EXCEPT !.positionals = Append(@, i)]

parse_args(arguments, config) ==
  LET flags == {config.flags[i].flag : i \in DOMAIN config.flags}
  IN  FoldLeft(LAMBDA parsed, i : TakeArg(parsed, arguments[i], i, flags, DOMAIN config.options),
               [flags |-> {}, options |-> <<>>, positionals |-> <<>>, pending |-> <<>>, ended |-> FALSE],
               [i \in DOMAIN arguments |-> i])

-----------------------------------------------------------------------------
(* The walk (bash_walker.rs): the commands of a script, inner ones first,  *)
(* each with the directory it runs in.  A list is its items, [list, async]; *)
(* an item's list the pipelines that && and || join; a pipeline commands.  *)

\* A word's pieces: text, quoted ones, substitutions with their script, arithmetic, and
\* expansions with the pieces of their operand: a default, an alternative, a message, a
\* slice or a replacement ("param"), or what the walk does not open, a pattern to trim or
\* to change case by and a subscript ("unopened").  A brace or an extended glob is text.
Piece(kind, scripts, inner) == [kind |-> kind, scripts |-> scripts, inner |-> inner]
is_dynamic_word(word) ==
  \E i \in DOMAIN word.pieces : word.pieces[i].kind \in {"sub", "param", "unopened", "arith", "brace", "extglob"}
entirely_dynamic(word) == Len(word.pieces) = 1 /\ word.pieces[1].kind = "sub"

\* The scripts in a word, through its quotes and the operands of some expansions; an
\* operand's own expansions are not opened again, nor is arithmetic: not even that of a
\* (( )) or of its loop, whose expressions are words of one such piece.
RECURSIVE Substituted(_, _)
Substituted(pieces, operand) ==
  IF pieces = <<>> THEN <<>>
  ELSE (CASE Head(pieces).kind = "sub" -> Head(pieces).scripts
          [] Head(pieces).kind = "quoted" -> Substituted(Head(pieces).inner, operand)
          [] Head(pieces).kind = "param" /\ ~operand -> Substituted(Head(pieces).inner, TRUE)
          [] OTHER -> <<>>) \o Substituted(Tail(pieces), operand)
\* Of words, in their order: what is walked apart, a program each.
ScriptsOf(words) ==
  LET scripts == FoldLeft(LAMBDA all, w : all \o Substituted(w.pieces, FALSE), <<>>, words)
  IN  [i \in DOMAIN scripts |-> [bad |-> scripts[i].bad, items |-> scripts[i].items, program |-> TRUE]]

\* What runs apart leaves the directory as it was.
Leaking(before, after) == after
Isolated(before, after) == [after EXCEPT !.cwd = before.cwd]
EffectiveCwd(walk, ctx) == IF walk.cwd = <<>> THEN ctx.cwd ELSE walk.cwd[1]
is_cd_flag(arg) == IsShort(arg) /\ Len(arg.name) > 1 /\ Range(Tail(arg.name)) \subseteq {"L", "P", "e"}

is_absolute_target(p) == IF p.root = <<>> THEN p.segs # <<>> /\ Head(p.segs) = "~" ELSE p.root[1] # "drive"

\* The first argument that is no flag; past "--" none is.
CdTarget(arguments) ==
  LET end == {i \in DOMAIN arguments : arguments[i].name = <<"--">> /\ \A k \in 1..i - 1 : is_cd_flag(arguments[k])}
      open == {i \in DOMAIN arguments : i \notin end /\ (~is_cd_flag(arguments[i]) \/ \E k \in end : k < i)}
  IN  IF open = {} THEN <<>> ELSE <<arguments[First(open)]>>

\* None is unknown: a target that cannot be read, or a relative one after it.
Target(walk, arg, ctx) ==
  IF arg.name = <<"-">> \/ is_dynamic_word(arg) \/ (walk.cwd = <<>> /\ ~is_absolute_target(arg.path)) THEN <<>>
  ELSE <<preprocess_path(arg.path, [ctx EXCEPT !.cwd = EffectiveCwd(walk, ctx)], {"resolve"})>>
apply_cd(walk, found, ctx) ==
  LET target == CdTarget(found.args)
  IN  [walk EXCEPT !.cwd = IF target = <<>> THEN <<ctx.home>> ELSE Target(walk, target[1], ctx)]

\* A process substitution takes an argument's place and is never read as a path.
Slot == [name |-> <<>>, value |-> <<>>, path |-> Rel(<<"()">>), pieces |-> <<Piece("sub", <<>>, <<>>)>>]

\* A command is listed once what is inside its words was walked; not one whose name is a
\* substitution alone.
Listed(walk, c, ctx) ==
  LET alone == c.name # <<>> /\ entirely_dynamic(c.name[1]) /\ c.args = <<>> /\ c.assigns = <<>> /\ c.redirects = <<>>
      found == [name |-> IF c.name = <<>> THEN <<>> ELSE <<c.name[1].path>>,
                args |-> c.args \o [i \in DOMAIN c.psubs |-> Slot],
                redirects |-> c.redirects, cwd |-> EffectiveCwd(walk, ctx)]
  IN  IF (c.name = <<>> /\ c.redirects = <<>>) \/ alone THEN walk
      ELSE [IF found.name = <<Rel(<<"cd">>)>> THEN apply_cd(walk, found, ctx) ELSE walk
             EXCEPT !.commands = Append(@, found)]
Kept(apart, before, after) == IF apart THEN Isolated(before, after) ELSE after

RECURSIVE WalkList(_, _, _, _)
RECURSIVE walk_and_or_list(_, _, _)
RECURSIVE walk_pipeline(_, _, _, _)
RECURSIVE WalkApart(_, _, _)
RECURSIVE WalkBodies(_, _, _)
RECURSIVE WalkCommand(_, _, _)

\* A program isolates what runs in the background; a list inside a compound does not.
WalkList(walk, items, program, ctx) ==
  IF items = <<>> THEN walk
  ELSE WalkList(Kept(program /\ Head(items).async, walk, walk_and_or_list(walk, Head(items).list, ctx)),
                Tail(items), program, ctx)
walk_and_or_list(walk, list, ctx) ==
  IF list = <<>> THEN walk
  ELSE walk_and_or_list(walk_pipeline(walk, Head(list).seq, Len(Head(list).seq) > 1, ctx), Tail(list), ctx)
walk_pipeline(walk, seq, piped, ctx) ==
  IF seq = <<>> THEN walk
  ELSE walk_pipeline(Kept(piped, walk, WalkCommand(walk, Head(seq), ctx)), Tail(seq), piped, ctx)

\* Scripts are read here, and walked apart; so are process substitutions' lists.
WalkApart(walk, inner, ctx) ==
  IF inner = <<>> THEN walk
  ELSE WalkApart(IF Head(inner).bad THEN [walk EXCEPT !.errors = TRUE]
                 ELSE Isolated(walk, WalkList(walk, Head(inner).items, Head(inner).program, ctx)),
                 Tail(inner), ctx)
WalkWords(walk, words, ctx) == WalkApart(walk, ScriptsOf(words), ctx)
InnerOf(c) ==
  ScriptsOf(c.name \o c.assigns \o c.args)
    \o [i \in DOMAIN c.psubs |-> [bad |-> FALSE, items |-> c.psubs[i], program |-> FALSE]] \o ScriptsOf(c.redirects)
walk_simple(walk, c, ctx) == Listed(WalkApart(walk, InnerOf(c), ctx), c, ctx)

\* Subshells, functions and coprocesses run apart, every other compound in the shell itself.
WalkBodies(walk, lists, ctx) ==
  IF lists = <<>> THEN walk ELSE WalkBodies(WalkList(walk, Head(lists), FALSE, ctx), Tail(lists), ctx)
Bodied(walk, c, ctx) == Kept(c.kind \in {"subshell", "function", "coproc"}, walk, WalkBodies(walk, c.lists, ctx))
WalkCommand(walk, c, ctx) ==
  IF c.kind = "simple" THEN walk_simple(walk, c, ctx)
  ELSE WalkWords(Bodied(WalkWords(walk, c.words, ctx), c, ctx), c.redirects, ctx)

walk_in_context(script, ctx) ==
  LET start == [cwd |-> <<ctx.cwd>>, commands |-> <<>>, errors |-> script.bad]
  IN  IF script.bad THEN start ELSE WalkList(start, script.items, TRUE, ctx)

-----------------------------------------------------------------------------
(* The checks (checker_bash.rs, tool_checker.rs, pre_check.rs). *)

\* A variable that is not set reads as the empty word.
evaluate_pre_checks(checks, environment) ==
  {checks[i].action : i \in {j \in DOMAIN checks :
    ((IF checks[j].env \in DOMAIN environment THEN environment[checks[j].env] ELSE "") \in checks[j].match) # checks[j].negated}}

check_path_with_permission(path, perm, config, ctx) ==
  CASE perm = "read" -> check_path_permission(path, config.read, ctx)
    [] perm \in {"write", "delete"} -> check_path_permission(path, config.write, ctx)
    [] OTHER -> "allow"

check_redirects(cmd, config, ctx) ==
  {check_path_permission(r.path, IF r.op \in {"<", "<<", "<<<"} THEN config.read ELSE config.write, ctx) :
     r \in {x \in Range(cmd.redirects) : x.op \notin {"<>", "<&"}}} \ {"allow"}

\* The last counts before the first: "-1" stands before "0".
PositionalPerm(positionals, i, count) ==
  CASE i - count \in DOMAIN positionals.overrides -> positionals.overrides[i - count]
    [] i \in DOMAIN positionals.overrides -> positionals.overrides[i]
    [] OTHER -> positionals.default_perm

PathChecks(cmd, parsed, rule, config, ctx) ==
  UNION {{check_path_with_permission(o.value, p, config, ctx) : p \in rule.config.options[o.name]} :
           o \in {x \in Range(parsed.options) : ~is_dynamic_word(cmd.args[x.index])}}
  \cup IF rule.config.positionals = <<>> THEN {}
       ELSE UNION {LET at == parsed.positionals[k]
                       perm == PositionalPerm(rule.config.positionals[1], k - 1, Len(parsed.positionals))
                   IN  IF is_dynamic_word(cmd.args[at]) THEN {}
                       ELSE {check_path_with_permission(cmd.args[at].path, p, config, ctx) : p \in perm} :
                     k \in DOMAIN parsed.positionals}

NameMatches(name, cmd) == IsPrefix(name, cmd.name \o [i \in DOMAIN cmd.args |-> cmd.args[i].path])

\* What the checks say stands for the rule's own action, which only speaks when they do not.
FlagActions(parsed, flags) == {flags[i].action : i \in {j \in DOMAIN flags : flags[j].flag \in parsed.flags}}
RuleChecks(cmd, parsed, rule, config, ctx) ==
  evaluate_pre_checks(rule.config.pre_checks, Flags) \cup FlagActions(parsed, rule.config.flags)
  \cup (PathChecks(cmd, parsed, rule, config, ctx) \ {"allow"})
Found(results, own) == IF results = {} THEN own ELSE aggregate_results(results)
Ruled(cmd, rule, config, ctx) ==
  Found(check_redirects(cmd, config, ctx)
          \cup RuleChecks(cmd, parse_args(cmd.args, rule.config), rule, config, ctx), rule.action)
check_single_command(cmd, config) ==
  LET ctx == [config.context EXCEPT !.cwd = cmd.cwd]
      at == {i \in DOMAIN config.commands.rules : NameMatches(config.commands.rules[i].name, cmd)}
  IN  IF at = {} THEN Found(check_redirects(cmd, config, ctx), config.commands.default)
      ELSE Ruled(cmd, config.commands.rules[First(at)], config, ctx)

JudgedWalk(walked, config) ==
  IF walked.errors THEN "deny"
  ELSE aggregate_results({check_single_command(c, config) : c \in Range(walked.commands)})
check_bash(script, config) == JudgedWalk(walk_in_context(script, config.context), config)

\* None when no rule names the tool; a parameter that is missing is passed over.
check_tool_call(tool, params, config) ==
  IF tool \notin DOMAIN config.tools THEN <<>>
  ELSE <<aggregate_results(UNION {
           LET c == config.tools[tool][i] IN
           IF c.param \notin DOMAIN params THEN {}
           ELSE {CASE c.check = "bash" -> check_bash(v, config)
                   [] c.check = "read" -> check_path_permission(v, config.read, config.context)
                   [] OTHER -> check_path_permission(v, config.write, config.context) : v \in Range(params[c.param])} :
           i \in DOMAIN config.tools[tool]})>>

-----------------------------------------------------------------------------
(* The hook (tabit-app/src/gate.rs, tmp_rewrite.rs). *)

\* On Windows /tmp is the real temp directory; a path that climbs out of it stays.
rewrite_posix_tmp_path(p, ctx) ==
  LET collapsed == Normalized(p) IN
  IF ctx.win32 /\ IsPosix(p) /\ p.segs # <<>> /\ Head(p.segs) = "tmp"
     /\ collapsed.segs # <<>> /\ Head(collapsed.segs) = "tmp"
  THEN Path(ctx.tmp.root, ctx.tmp.segs \o Tail(collapsed.segs))
  ELSE p
rewrite_tool_path_param(tool, params, config) ==
  LET paths == IF tool \notin DOMAIN config.tools THEN {}
               ELSE {c.param : c \in {x \in Range(config.tools[tool]) : x.check # "bash"}}
  IN  [k \in DOMAIN params |->
        IF k \in paths THEN [i \in DOMAIN params[k] |-> rewrite_posix_tmp_path(params[k][i], config.context)]
        ELSE params[k]]

GateInit ==
  /\ host \in Hosts /\ raw \in Books /\ call \in Heard /\ ui \in BOOLEAN
  /\ book = <<>> /\ verdict = <<>> /\ ruling = "called" /\ ran = <<>>

\* The book is read once, against the one world its paths are resolved in.
Mount ==
  /\ book = <<>>
  /\ book' = <<build_sanity_config(raw, World(host))>>
  /\ UNCHANGED <<host, raw, call, ui, verdict, ruling, ran>>

Effective == rewrite_tool_path_param(call.tool, call.params, book[1])

\* Arguments that do not parse are the engine's to refuse; an ask needs a user.
OnToolCall ==
  /\ book # <<>> /\ ruling = "called"
  /\ verdict' = IF call.parses THEN check_tool_call(call.tool, Effective, book[1]) ELSE <<>>
  /\ ruling' = CASE verdict' \in {<<>>, <<"allow">>} -> "runs"
                 [] verdict' = <<"ask">> /\ ui -> "asked"
                 [] OTHER -> "skipped"
  /\ ran' = IF ruling' = "runs" THEN <<IF call.parses THEN Effective ELSE call.params>> ELSE <<>>
  /\ UNCHANGED <<host, raw, book, call, ui>>

\* Only the word Allow lets the call run; an answer that cannot be read is none.
Answer(label) ==
  /\ ruling = "asked"
  /\ ruling' = IF label = "Allow" THEN "runs" ELSE "skipped"
  /\ ran' = IF label = "Allow" THEN <<Effective>> ELSE <<>>
  /\ UNCHANGED <<host, raw, book, call, ui, verdict>>

Dismiss ==
  /\ ruling = "asked" /\ ruling' = "skipped"
  /\ UNCHANGED <<host, raw, book, call, ui, verdict, ran>>

GateNext == \/ Mount \/ OnToolCall \/ Dismiss
            \/ \E label \in {"Allow", "Block", "unread"} : Answer(label)

-----------------------------------------------------------------------------
(* The shell the walk stands for: every run of a script, as the commands   *)
(* it ran and where, with each branch taken or not and each loop once.  It *)
(* expands words by itself.  "all" tells a run in which every part ran;    *)
(* "hidden" what runs in a blind spot of the walk (bash_walker.rs, lines   *)
(* 339-346, 635-638 and 691-707): arithmetic, an operand that is not       *)
(* opened, an expansion within an operand; "adrift" where the walk has     *)
(* another directory: past a job inside a compound that moved, in the      *)
(* redirections of a compound that moved, in and past a function called    *)
(* somewhere else or moving its caller, until a cd anchors the two again.  *)

Key(c) == LET written == SelectSeq(c.args, LAMBDA a : a # Slot)
          IN  <<c.name, [i \in DOMAIN written |-> written[i].path]>>
Skipped(S) == {[s EXCEPT !.all = FALSE] : s \in S}

\* What runs inside a word: every substitution there is, however deep.
RECURSIVE Evaluated(_, _, _)
Evaluated(pieces, operand, hidden) ==
  FlattenSeq([i \in DOMAIN pieces |->
    LET p == pieces[i]
        unseen == hidden \/ p.kind \in {"arith", "unopened"} \/ (operand /\ p.kind = "param")
    IN  [j \in DOMAIN p.scripts |-> [items |-> p.scripts[j].items, program |-> TRUE, hidden |-> unseen]]
          \o Evaluated(p.inner, operand \/ p.kind = "param", unseen)])
InWords(words) == FlattenSeq([i \in DOMAIN words |-> Evaluated(words[i].pieces, FALSE, FALSE)])
InSimple(c) == InWords(c.name \o c.assigns \o c.args \o c.redirects)
                 \o [i \in DOMAIN c.psubs |-> [items |-> c.psubs[i], program |-> FALSE, hidden |-> FALSE]]

\* Where a cd goes, <<>> when the script does not tell.
Named(arguments) == SelectSeq(arguments, LAMBDA a : ~is_cd_flag(a) /\ a.name # <<"--">>)
Untold(a) == is_dynamic_word(a) \/ a.name = <<"-">>
Goes(from, arguments, ctx) ==
  LET named == Named(arguments)
  IN  IF named = <<>> THEN <<ctx.home>>
      ELSE LET p == IF ctx.win32 THEN convert_git_bash_drive_path(named[1].path) ELSE named[1].path
           IN  CASE Untold(named[1]) -> <<>>
                 [] p.root # <<>> -> <<Normalized(p)>>
                 [] p.segs[1] = "~" -> <<Normalized(Path(ctx.home.root, ctx.home.segs \o Tail(p.segs)))>>
                 [] OTHER -> IF from = <<>> THEN <<>> ELSE <<Normalized(Path(from[1].root, from[1].segs \o p.segs))>>
Anchors(arguments) ==
  LET named == Named(arguments)
  IN  named = <<>> \/ Untold(named[1]) \/ named[1].path.root # <<>> \/ named[1].path.segs[1] = "~"

RECURSIVE RunList(_, _, _, _)
RECURSIVE RunPipelines(_, _, _)
RECURSIVE RunStages(_, _, _, _)
RECURSIVE RunApart(_, _, _)
RECURSIVE RunBodies(_, _, _)
RECURSIVE RunCommand(_, _, _)

\* From one run on, the runs it may become.  What runs apart leaves the shell as it was.
Apart(s, t) == [s EXCEPT !.trace = t.trace, !.ok = t.ok, !.all = t.all]
Back(apart, s, S) == IF apart THEN {Apart(s, t) : t \in S} ELSE S
Moved(s, t) == t.adrift \/ t.cwd # s.cwd
Jobbed(async, program, s, S) ==
  IF async THEN {[Apart(s, t) EXCEPT !.adrift = @ \/ (~program /\ Moved(s, t))] : t \in S} ELSE S
RunList(s, items, program, ctx) ==
  IF items = <<>> THEN {s}
  ELSE UNION {RunList(t, Tail(items), program, ctx) :
                t \in Jobbed(Head(items).async, program, s, RunPipelines(s, Head(items).list, ctx))}
RunPipelines(s, list, ctx) ==
  IF list = <<>> THEN {s}
  ELSE UNION {RunPipelines(t, Tail(list), ctx) :
                t \in IF Head(list).op = "" \/ s.ok = (Head(list).op = "&&")
                      THEN RunStages(s, Head(list).seq, Len(Head(list).seq) > 1, ctx) ELSE Skipped({s})}
RunStages(s, seq, piped, ctx) ==
  IF seq = <<>> THEN {s}
  ELSE UNION {RunStages(t, Tail(seq), piped, ctx) : t \in Back(piped, s, RunCommand(s, Head(seq), ctx))}
RunApart(s, inner, ctx) ==
  IF inner = <<>> THEN {s}
  ELSE UNION {RunApart(t, Tail(inner), ctx) :
                t \in Back(TRUE, s, RunList([s EXCEPT !.hidden = @ \/ Head(inner).hidden],
                                            Head(inner).items, Head(inner).program, ctx))}
RunBodies(s, lists, ctx) ==
  IF lists = <<>> THEN {s} ELSE UNION {RunBodies(t, Tail(lists), ctx) : t \in RunList(s, Head(lists), FALSE, ctx)}

\* A simple command is traced where it runs; a cd succeeds, any other may fail.  A name
\* that is computed is not the script's to tell.  A function runs where it is called.
Traced(s, c) ==
  [s EXCEPT !.trace = @ \cup {[cmd |-> Key([c EXCEPT !.name = <<@[1].path>>]), cwd |-> s.cwd,
                               hidden |-> s.hidden, adrift |-> s.adrift]}]
Called(s, name, ctx) ==
  LET def == s.defs[name]
  IN  {[t EXCEPT !.adrift = s.adrift \/ t.cwd # s.cwd] :
         t \in RunBodies([s EXCEPT !.adrift = def.adrift \/ s.cwd # def.cwd], def.lists, ctx)}
Ran(s, c, ctx) ==
  IF c.name = <<>> \/ is_dynamic_word(c.name[1]) THEN {[s EXCEPT !.ok = went] : went \in BOOLEAN}
  ELSE LET t == Traced(s, c)
           name == c.name[1].path
       IN  IF name \in DOMAIN s.defs THEN Called(t, name, ctx)
           ELSE IF name = Rel(<<"cd">>)
                THEN {[t EXCEPT !.ok = TRUE, !.cwd = Goes(@, c.args, ctx), !.adrift = @ /\ ~Anchors(c.args)]}
                ELSE {[t EXCEPT !.ok = went] : went \in BOOLEAN}

\* Of a compound the parts that were asked run, the others are skipped.
RunBranches(s, c, ctx) ==
  UNION {IF a.ok THEN RunList(a, c.lists[2], FALSE, ctx)
         ELSE Skipped(IF Len(c.lists) = 2 THEN {a} ELSE RunList(a, c.lists[3], FALSE, ctx)) :
           a \in RunList(s, c.lists[1], FALSE, ctx)}
RunArms(s, c, ctx) ==
  Skipped({s}) \cup UNION {LET S == RunList(s, c.lists[i], FALSE, ctx)
                           IN  IF Len(c.lists) = 1 THEN S ELSE Skipped(S) : i \in DOMAIN c.lists}
RunCompound(s, c, ctx) ==
  CASE c.kind = "function" ->
         {[s EXCEPT !.ok = TRUE, !.defs = (c.name[1].path :> [lists |-> c.lists, cwd |-> s.cwd, adrift |-> s.adrift]) @@ @]}
    [] c.kind \in {"if", "while"} -> RunBranches(s, c, ctx)
    [] c.kind = "case" -> RunArms(s, c, ctx)
    [] c.kind \in {"for", "arithmetic for"} -> Skipped({s}) \cup RunBodies(s, c.lists, ctx)
    [] c.kind = "test" -> {[s EXCEPT !.ok = went] : went \in BOOLEAN}
    [] OTHER -> Back(c.kind \in {"subshell", "coproc"}, s, RunBodies(s, c.lists, ctx))

\* A compound's redirections are made before it runs; the walk reads them after it.
Redirected(s, c, ctx) ==
  IF c.redirects = <<>> THEN {s}
  ELSE {[t EXCEPT !.adrift = s.adrift] : t \in RunApart([s EXCEPT !.adrift = TRUE], InWords(c.redirects), ctx)}
RunCommand(s, c, ctx) ==
  IF c.kind = "simple" THEN UNION {Ran(t, c, ctx) : t \in RunApart(s, InSimple(c), ctx)}
  ELSE UNION {UNION {RunCompound(u, c, ctx) : u \in RunApart(t, InWords(c.words), ctx)} : t \in Redirected(s, c, ctx)}

Executions(script, ctx) ==
  RunList([cwd |-> <<ctx.cwd>>, ok |-> TRUE, trace |-> {}, all |-> TRUE, defs |-> <<>>, hidden |-> FALSE, adrift |-> FALSE],
          script.items, TRUE, ctx)

Scripts == IF call.tool = "bash" /\ call.parses THEN {s \in Range(call.params.command) : ~s.bad} ELSE {}
Pristine == book # <<>> /\ ruling = "called"

-----------------------------------------------------------------------------
(* What the gate promises. *)

\* Whatever the script does, each command it runs was seen by the walk, so that no branch,
\* pipeline, compound, function or substitution hides one from the checks (bash_walker.rs,
\* lines 1-41): but for the commands in the walk's blind spots, which EverythingIsWalked
\* counts in, and those whose very name is computed.
EveryCommandIsWalked ==
  Pristine => \A s \in Scripts :
    LET walked == walk_in_context(s, book[1].context)
        seen == {Key(c) : c \in Range(walked.commands)}
    IN  ~walked.errors => \A e \in Executions(s, book[1].context) : \A step \in e.trace :
          ~step.hidden => step.cmd \in seen

\* In a run that takes every part, the walk resolves each command's paths in the very
\* directory the shell runs it in: a cd leaks out of a group and of a branch, never out of
\* a subshell, a substitution, a pipe or a job of the script itself.  Where the walk is
\* adrift of the shell nothing is said (EveryCwdIsFollowed); an absolute cd ends that.
CwdIsFollowed ==
  Pristine => \A s \in Scripts :
    LET walked == walk_in_context(s, book[1].context)
        placed == {<<Key(c), c.cwd>> : c \in Range(walked.commands)}
    IN  ~walked.errors => \A e \in {x \in Executions(s, book[1].context) : x.all} : \A step \in e.trace :
          ~step.hidden /\ ~step.adrift /\ step.cwd # <<>> => <<step.cmd, step.cwd[1]>> \in placed

\* A script is never let through for having more in it: what a part of it asks or
\* denies, the whole does (types.rs aggregate_results over the walk's commands).
MoreIsStricter ==
  Pristine => \A s \in Scripts : \A n \in DOMAIN s.items :
    Rank(check_bash([s EXCEPT !.items = SubSeq(@, 1, n)], book[1])) <= Rank(check_bash(s, book[1]))

\* Read forwards, the book says: of the rules after the last catch-all the last that
\* names a command decides it, by its own action or else the section's default.
BookReadsForward ==
  book # <<>> =>
    LET rules == raw.commands.rules
        catches == {i \in DOMAIN rules : rules[i].names = <<<<>>>>}
        named == {i \in DOMAIN rules : <<>> \notin ToSet(rules[i].names) /\ \A k \in catches : k < i}
        words == UNION {ToSet(rules[i].names) : i \in DOMAIN rules} \ {<<>>}
        default == IF IsAction(raw.commands.default) THEN raw.commands.default ELSE "allow"
    IN  \A word \in words :
          LET for == {i \in named : \E k \in DOMAIN rules[i].names : IsPrefix(rules[i].names[k], word)}
              last == CHOOSE i \in for : \A k \in for : k <= i
              at == {i \in DOMAIN book[1].commands.rules : IsPrefix(book[1].commands.rules[i].name, word)}
              first == CHOOSE i \in at : \A k \in at : i <= k
          IN  /\ for = {} <=> at = {}
              /\ for # {} => book[1].commands.rules[first].action
                             = IF IsAction(rules[last].action) THEN rules[last].action ELSE default

\* The same file is the same path to the book however often it was resolved, in the
\* tracked directory's native form too (path_utils.rs, steps 0 and 7).
SpellingsAgree ==
  Pristine /\ call.tool # "bash" =>
    \A k \in DOMAIN call.params : \A p \in Range(call.params[k]) :
      LET ctx == book[1].context
          once == preprocess_runtime_path(p, ctx)
      IN  /\ preprocess_runtime_path(once, ctx) = once
          /\ preprocess_runtime_path(preprocess_path(p, ctx, {"env", "resolve"}), ctx) = once

\* Every argument is at most one thing: an option's value or a positional, and past the
\* end of options nothing but a positional (arg_parser.rs).
ArgumentsAreTakenOnce ==
  Pristine => \A s \in Scripts : \A cmd \in Range(walk_in_context(s, book[1].context).commands) :
    \A i \in DOMAIN book[1].commands.rules :
      LET parsed == parse_args(cmd.args, book[1].commands.rules[i].config)
          values == {o.index : o \in Range(parsed.options)}
          ends == {k \in DOMAIN cmd.args : cmd.args[k].name = <<"--">> /\ k \notin values}
      IN  /\ values \cap Range(parsed.positionals) = {} /\ IsInjective(parsed.positionals)
          /\ \A e \in ends : \A k \in DOMAIN cmd.args : k > e => k \in Range(parsed.positionals)

\* A tool that runs, runs with the arguments that were judged, and they were allowed, or
\* a user who could be asked said Allow; what no rule names is not judged.
RunsWhatWasChecked ==
  /\ ruling = "runs" /\ call.parses =>
       /\ verdict = check_tool_call(call.tool, ran[1], book[1])
       /\ verdict # <<"deny">>
       /\ verdict = <<"ask">> => ui
  /\ ruling # "runs" => ran = <<>>

\* NOT true of the code: of two catch-alls the later sets the default (config.rs, the
\* comment on the backwards parse); the earlier one, read last, does.
LaterCatchAllWins ==
  book # <<>> =>
    LET catches == {i \in DOMAIN raw.commands.rules :
                      raw.commands.rules[i].names = <<<<>>>> /\ IsAction(raw.commands.rules[i].action)}
    IN  catches # {} => book[1].commands.default
                        = raw.commands.rules[CHOOSE i \in catches : \A k \in catches : k <= i].action

\* NOT true of the code: no substitution of a script goes unseen; those in the blind spots
\* the walk's comments name do.
EverythingIsWalked ==
  Pristine => \A s \in Scripts :
    LET walked == walk_in_context(s, book[1].context)
        seen == {Key(c) : c \in Range(walked.commands)}
    IN  ~walked.errors => \A e \in Executions(s, book[1].context) : \A step \in e.trace : step.cmd \in seen

\* NOT true of the code: relative paths are resolved where they will land (bash_walker.rs,
\* lines 5-15): the cd of a job leaks inside a compound's list, that of a function never
\* reaches its caller, and a compound's redirections are read where its body ends.
EveryCwdIsFollowed ==
  Pristine => \A s \in Scripts :
    LET walked == walk_in_context(s, book[1].context)
        placed == {<<Key(c), c.cwd>> : c \in Range(walked.commands)}
    IN  ~walked.errors => \A e \in {x \in Executions(s, book[1].context) : x.all} : \A step \in e.trace :
          ~step.hidden /\ step.cwd # <<>> => <<step.cmd, step.cwd[1]>> \in placed
=============================================================================
