---------------------------- MODULE BuiltinTools ----------------------------
(***************************************************************************)
(* The coding tools (tabit-tools): read pages a file, write and edit mutate *)
(* one under a lock of its spelling and an atomic store, and a shell call  *)
(* runs a process tree under a timeout and a cancellation token.  Tool     *)
(* bodies run on their own threads; a shell's command may touch any file.  *)
(*                                                                         *)
(* A text is a sequence of characters, "cr" and "lf" among them; a line of *)
(* paged output is its size.  Reports and media types are left out.        *)
(***************************************************************************)
EXTENDS Integers, FiniteSets, SequencesExt

CONSTANTS
  Calls,          \* the calls of write, edit and read on one file
  Requests,       \* what each call may ask: [op, path, edits, content, overwrite]
  Seeds,          \* the files there may be at first
  Outsiders,      \* what a shell's command may leave in the file's place
  MaxOutside,     \* how often it does
  ReadMax,        \* READ_MAX_BYTES
  ShellMax,       \* SHELL_MAX_BYTES
  CONTEXT_LINES,  \* the context on each side of a change
  Listings,       \* what is paged or diffed: [sizes, changes]
  Limits,         \* the limits a reader asks for, 0 for none
  Machines        \* the machines a shell is looked for on

VARIABLES
  request,  \* call -> what it asks
  disk,     \* the file
  seed,     \* the file as it was at first
  held,     \* spelling -> the call that holds its lock, or "nobody"
  doing,    \* call -> its step, the file it saw, the text it stores
  told,     \* call -> its result, "" before
  order,    \* the calls that stored, in their order
  outside,  \* how often the file changed under the tools
  page,     \* a reader that follows the notices
  job       \* one call of the shell tool

filesVars == <<request, disk, seed, held, doing, told, order, outside>>
toolsVars == <<filesVars, page, job>>

Indexes(s) == [i \in DOMAIN s |-> i]
Total(sizes) == FoldLeft(LAMBDA n, size : n + size, 0, sizes)

-----------------------------------------------------------------------------
(* edit_core: the matching and the application. *)

File(kind, bom, text) == [kind |-> kind, bom |-> bom, text |-> text, torn |-> FALSE]
Absent == File("absent", FALSE, <<>>)

Normal(text) ==
  FoldLeft(LAMBDA out, i : IF text[i] = "cr" /\ i < Len(text) /\ text[i + 1] = "lf" THEN out ELSE Append(out, text[i]),
           <<>>, Indexes(text))
Restored(text) == FlattenSeq([i \in DOMAIN text |-> IF text[i] = "lf" THEN <<"cr", "lf">> ELSE <<text[i]>>])

\* match_indices: from the left, none inside another.
Occurrences(text, old) ==
  FoldLeft(LAMBDA found, i :
             IF (found = <<>> \/ Last(found) + Len(old) <= i) /\ SubSeq(text, i, i + Len(old) - 1) = old
             THEN Append(found, i) ELSE found,
           <<>>, [i \in 1..Len(text) - Len(old) + 1 |-> i])

Matched(text, edits) ==
  LET old(i) == Normal(edits[i].old_text)
      unique == {i \in DOMAIN edits : old(i) # <<>> /\ Len(Occurrences(text, old(i))) = 1
                                      /\ edits[i].new_text # edits[i].old_text}
      match(i) == LET at == Occurrences(text, old(i))[1]
                  IN  [index |-> i, start |-> at, end |-> at + Len(old(i)), new_text |-> Normal(edits[i].new_text)]
  IN  SetToSortSeq({match(i) : i \in unique},
                   LAMBDA m, n : m.start < n.start \/ (m.start = n.start /\ m.index < n.index))

\* Two that overlap agree when they are one replacement; else the one accepted last is
\* taken back and this one left out, so that the next meets whoever came before them.
TakeMatch(accepted, m) ==
  IF accepted # <<>> /\ m.start < Last(accepted).end
  THEN LET prev == Last(accepted)
       IN  IF prev.start = m.start /\ prev.end = m.end /\ prev.new_text = m.new_text
           THEN Append(accepted, m) ELSE Front(accepted)
  ELSE Append(accepted, m)
Accepted(text, edits) == FoldLeft(TakeMatch, <<>>, Matched(text, edits))

\* replace_range panics past the end of what is there by then.
ReplaceRange(done, m) ==
  IF ~done.ok \/ m.end - 1 > Len(done.text) THEN [done EXCEPT !.ok = FALSE]
  ELSE [done EXCEPT !.text = SubSeq(@, 1, m.start - 1) \o m.new_text \o SubSeq(@, m.end, Len(@))]

\* Mutant: in the order of the file, so that an edit shifts the ones behind it.
ApplyForward(accepted, text) == FoldLeft(ReplaceRange, [ok |-> TRUE, text |-> text], accepted)
Apply(accepted, text) == FoldLeft(ReplaceRange, [ok |-> TRUE, text |-> text], Reverse(accepted))

edit_core(file, edits) ==
  LET text == Normal(file.text)
      accepted == Accepted(text, edits)
      result == Apply(accepted, text)
  IN  CASE edits = <<>> \/ file.kind # "text" \/ (file.text = <<>> /\ ~file.bom) \/ accepted = <<>> ->
             [report |-> "error", text |-> <<>>, applied |-> {}]
        [] ~result.ok -> [report |-> "panicked", text |-> <<>>, applied |-> {}]
        [] OTHER -> [report |-> "edited", applied |-> {m.index : m \in Range(accepted)},
                     text |-> IF text # file.text THEN Restored(result.text) ELSE result.text]

-----------------------------------------------------------------------------
(* The lock, the store, and the calls (file_io.rs, write, edit, read). *)

Mutates(c) == request[c].op # "read"
Spelling(c) == request[c].path
Spellings == {r.path : r \in Requests}
At(c, step) == doing[c].step = step /\ told[c] = ""

\* A call ends: its guard is dropped.
Ends(c, result) ==
  /\ told' = [told EXCEPT ![c] = result]
  /\ held' = [s \in DOMAIN held |-> IF held[s] = c THEN "nobody" ELSE held[s]]
Goes(c, step) == doing' = [doing EXCEPT ![c].step = step]

FilesInit ==
  /\ request \in [Calls -> Requests] /\ disk \in Seeds /\ seed = disk
  /\ held = [s \in Spellings |-> "nobody"]
  /\ doing = [c \in Calls |-> [step |-> "called", base |-> Absent, text |-> <<>>]]
  /\ told = [c \in Calls |-> ""] /\ order = <<>> /\ outside = 0

Lock(c) ==
  /\ At(c, "called") /\ Mutates(c) /\ held[Spelling(c)] = "nobody"
  /\ held' = [held EXCEPT ![Spelling(c)] = c] /\ Goes(c, "locked")
  /\ UNCHANGED <<request, disk, seed, told, order, outside>>

\* An existing file is replaced only when the call says so.
WriteLooks(c) ==
  /\ At(c, "locked") /\ request[c].op = "write"
  /\ IF disk.kind = "dir" \/ (disk.kind # "absent" /\ ~request[c].overwrite)
     THEN Ends(c, "error") /\ UNCHANGED doing
     ELSE /\ doing' = [doing EXCEPT ![c] = [step |-> "decided", base |-> disk, text |-> request[c].content]]
          /\ UNCHANGED <<told, held>>
  /\ UNCHANGED <<request, disk, seed, order, outside>>

EditReads(c) ==
  /\ At(c, "locked") /\ request[c].op = "edit"
  /\ LET outcome == edit_core(disk, request[c].edits)
     IN  IF outcome.report # "edited" THEN Ends(c, outcome.report) /\ UNCHANGED doing
         ELSE /\ doing' = [doing EXCEPT ![c] = [step |-> "decided", base |-> disk, text |-> outcome.text]]
              /\ UNCHANGED <<told, held>>
  /\ UNCHANGED <<request, disk, seed, order, outside>>

\* A file that is there is staged beside itself, a new one is written in place.
StoreLooks(c) ==
  /\ At(c, "decided")
  /\ IF disk.kind = "dir" THEN Ends(c, "error") /\ UNCHANGED <<doing, disk>>
     ELSE /\ Goes(c, IF disk.kind = "absent" THEN "creating" ELSE "staged")
          /\ disk' = IF disk.kind = "absent" THEN [File("text", FALSE, <<>>) EXCEPT !.torn = TRUE] ELSE disk
          /\ UNCHANGED <<told, held>>
  /\ UNCHANGED <<request, seed, order, outside>>

Stored(c) == File("text", request[c].op = "edit" /\ doing[c].base.bom, doing[c].text)
Persist(c) ==
  /\ At(c, "staged") \/ At(c, "creating")
  /\ disk' = Stored(c) /\ order' = Append(order, c)
  /\ Ends(c, IF request[c].op = "edit" THEN "edited" ELSE IF At(c, "staged") THEN "overwrote" ELSE "created")
  /\ UNCHANGED <<request, seed, doing, outside>>

\* The disk fails: a stage leaves the file alone, a creation leaves what was written.
StoreFails(c) ==
  /\ At(c, "staged") \/ At(c, "creating")
  /\ Ends(c, "error")
  /\ UNCHANGED <<request, disk, seed, doing, order, outside>>

\* Readers take no lock.
Reads(c) ==
  /\ At(c, "called") /\ ~Mutates(c)
  /\ doing' = [doing EXCEPT ![c].base = disk]
  /\ Ends(c, IF disk.kind \in {"text", "dir"} THEN "read" ELSE "error")
  /\ UNCHANGED <<request, disk, seed, order, outside>>

Outside ==
  /\ outside < MaxOutside /\ outside' = outside + 1
  /\ disk' \in Outsiders
  /\ UNCHANGED <<request, seed, held, doing, told, order>>

FilesNext == \/ Outside
             \/ \E c \in Calls : \/ Lock(c) \/ WriteLooks(c) \/ EditReads(c) \/ StoreLooks(c)
                                 \/ Persist(c) \/ StoreFails(c) \/ Reads(c)

-----------------------------------------------------------------------------
(* Paging and truncation (read_text, truncate.rs), hunks (diff.rs). *)

\* How many of the lines fit a budget, from the first on; each but the first costs its newline.
Fitting(sizes, budget) ==
  FoldLeft(LAMBDA kept, i : IF kept = i - 1 /\ Total(SubSeq(sizes, 1, i)) + i - 1 <= budget THEN i ELSE kept,
           0, Indexes(sizes))
Bytes(sizes) == Total(sizes) + IF sizes = <<>> THEN 0 ELSE Len(sizes) - 1

truncate_head(sizes) == IF Bytes(sizes) <= ReadMax THEN Len(sizes) ELSE Fitting(sizes, ReadMax)

\* The first and the last lines, each within half the budget; one line over the whole of
\* it is cut in two.
truncate_head_tail(sizes) ==
  LET head == Fitting(sizes, ShellMax \div 2)
      rest == SubSeq(sizes, head + 1, Len(sizes))
  IN  CASE Bytes(sizes) <= ShellMax -> [head |-> Len(sizes), tail |-> 0, split |-> FALSE]
        [] sizes[1] > ShellMax -> [head |-> 0, tail |-> 0, split |-> TRUE]
        [] OTHER -> [head |-> head, tail |-> Fitting(Reverse(rest), ShellMax \div 2), split |-> FALSE]

\* A page from `start` on: how many lines it shows, and where the next one starts.
read_text(sizes, start, limit) ==
  LET end == IF limit = 0 \/ start + limit - 1 > Len(sizes) THEN Len(sizes) ELSE start + limit - 1
      selected == SubSeq(sizes, start, end)
      shown == truncate_head(selected)
  IN  CASE start > Len(sizes) -> [shown |-> 0, next |-> 0, long |-> FALSE]
        [] Bytes(selected) > ReadMax /\ sizes[start] > ReadMax -> [shown |-> 0, next |-> 0, long |-> TRUE]
        [] shown < Len(selected) \/ end < Len(sizes) -> [shown |-> shown, next |-> start + shown, long |-> FALSE]
        [] OTHER -> [shown |-> shown, next |-> 0, long |-> FALSE]

PagesInit == page \in {[sizes |-> l.sizes, changes |-> l.changes, at |-> 1, seen |-> <<>>, over |-> FALSE] : l \in Listings}

\* The reader reads on where the notice says.
ReadOn(limit) ==
  /\ ~page.over
  /\ LET got == read_text(page.sizes, page.at, limit)
     IN  page' = [page EXCEPT !.seen = @ \o [i \in 1..got.shown |-> page.at + i - 1],
                              !.at = IF got.next = 0 THEN @ ELSE got.next, !.over = got.next = 0]
PagesNext == \E limit \in Limits : ReadOn(limit)

\* The changed entries with their context, merged where they touch.
Ranges(changes) ==
  FoldLeft(LAMBDA ranges, i :
             IF changes[i] = "=" THEN ranges
             ELSE LET start == IF i > CONTEXT_LINES THEN i - CONTEXT_LINES ELSE 1
                      end == IF i + CONTEXT_LINES + 1 <= Len(changes) + 1 THEN i + CONTEXT_LINES + 1 ELSE Len(changes) + 1
                  IN  IF ranges # <<>> /\ start <= Last(ranges).end
                      THEN [ranges EXCEPT ![Len(ranges)].end = IF end > @ THEN end ELSE @]
                      ELSE Append(ranges, [start |-> start, end |-> end]),
           <<>>, Indexes(changes))

\* The line counters walk the gap before a hunk as if both sides had it.
TakeHunk(walk, range) ==
  LET old(from, to) == Cardinality({i \in from..to - 1 : page.changes[i] # "+"})
      new(from, to) == Cardinality({i \in from..to - 1 : page.changes[i] # "-"})
      gap == range.start - walk.cursor
      hunk == [old_start |-> walk.old + gap, old_lines |-> old(range.start, range.end),
               new_start |-> walk.new + gap, new_lines |-> new(range.start, range.end), range |-> range]
  IN  [cursor |-> range.end, old |-> hunk.old_start + hunk.old_lines, new |-> hunk.new_start + hunk.new_lines,
       hunks |-> Append(walk.hunks, hunk)]
unified == FoldLeft(TakeHunk, [cursor |-> 1, old |-> 1, new |-> 1, hunks |-> <<>>], Ranges(page.changes)).hunks

-----------------------------------------------------------------------------
(* The shell (shell.rs, run_shell, run_with_deadlines). *)

\* Candidate roots in trust order; the first whose launcher is there and answers.
root_from_git_exe(exe) == IF exe.placement \in {"cmd", "mingw64/bin"} THEN <<exe.root>> ELSE <<>>
candidate_roots(machine) ==
  FlattenSeq([i \in DOMAIN machine.git |-> root_from_git_exe(machine.git[i])]) \o machine.registry \o machine.known
Resolved(machine) ==
  LET usable == SelectSeq(candidate_roots(machine), LAMBDA r : r \in machine.launcher /\ r \in machine.healthy)
  IN  IF usable = <<>> THEN "powershell" ELSE usable[1]

JobInit ==
  job \in {[shell |-> Resolved(m), machine |-> m, pc |-> "start", leader |-> "none", helper |-> "none", holds |-> FALSE,
            away |-> FALSE, token |-> FALSE, late |-> FALSE, told |-> ""] : m \in Machines}

Holder == job.helper = "running" /\ job.holds
Killed == [job EXCEPT !.leader = IF @ = "running" THEN "killed" ELSE @,
                      !.helper = IF @ = "running" /\ ~job.away THEN "killed" ELSE @]
Reports(after, result) == job' = [after EXCEPT !.pc = "over", !.told = result]

\* A token that is cancelled by now refuses before anything runs.
Spawn ==
  /\ job.pc = "start"
  /\ \/ job.token /\ Reports(job, "did not run")
     \/ ~job.token /\ Reports(job, "cannot start")
     \/ ~job.token /\ job' = [job EXCEPT !.pc = "polling", !.leader = "running"]

\* What the command does: it may leave a helper, with its pipe or without, in its group
\* or in one of its own.
Forks == /\ job.leader = "running" /\ job.helper = "none"
         /\ \E holds, away \in BOOLEAN : job' = [job EXCEPT !.helper = "running", !.holds = holds, !.away = away]
LeaderExits == job.leader = "running" /\ job' = [job EXCEPT !.leader = "exited"]
HelperExits == job.helper = "running" /\ job' = [job EXCEPT !.helper = "exited"]

Cancel == ~job.token /\ job.pc # "over" /\ job' = [job EXCEPT !.token = TRUE]
DeadlinePasses == job.pc = "polling" /\ ~job.late /\ job' = [job EXCEPT !.late = TRUE]

\* Mutant: a timeout that kills the shell and not its tree.
KilledLeader == [Killed EXCEPT !.helper = job.helper]

\* One turn of the loop: the token before the exit, the exit before the deadline.
Overdue == Reports(Killed, "timed out")
OverdueLeader == Reports(KilledLeader, "timed out")
PollTurn ==
  /\ job.pc = "polling"
  /\ \/ job.token /\ Reports(Killed, "interrupted")
     \/ ~job.token /\ job.leader = "exited" /\ job' = [job EXCEPT !.pc = "joining"]
     \/ ~job.token /\ job.leader # "exited" /\ job.late /\ Overdue

\* The wait itself fails.
WaitFails == job.pc = "polling" /\ ~job.token /\ Reports(Killed, "lost")

\* The readers end when nobody holds the pipes; too much of it is spilled, if it can be.
Join == /\ job.pc = "joining" /\ ~Holder
        /\ \E result \in {"completed", "cannot spill"} : Reports(job, result)

JobNext == Spawn \/ Forks \/ LeaderExits \/ HelperExits \/ Cancel \/ DeadlinePasses \/ PollTurn \/ WaitFails \/ Join

ToolsInit == FilesInit /\ PagesInit /\ JobInit
ToolsNext == \/ FilesNext /\ UNCHANGED <<page, job>>
             \/ PagesNext /\ UNCHANGED <<filesVars, job>>
             \/ JobNext /\ UNCHANGED <<filesVars, page>>
\* The loop polls on; a command, a helper and a reader owe nothing.
ToolsFairness == WF_job(PollTurn \/ Spawn) /\ WF_job(Join)

-----------------------------------------------------------------------------
(* What the tools promise. *)

\* The calls of a spelling nobody shares another one with, while no command interferes.
Sole == outside = 0 /\ \A c, d \in Calls : Mutates(c) /\ Mutates(d) => Spelling(c) = Spelling(d)
Twice(edits) ==
  \E i, j \in DOMAIN edits : i # j /\ \A f \in {"old_text", "new_text"} : Normal(edits[i][f]) = Normal(edits[j][f])

\* The replacements at once: every character of no accepted span stays, every span is replaced.
Simultaneous(text, accepted) ==
  LET spans == Range(accepted)
      from(i) == {m \in spans : m.start = i}
      out(i) == CASE \E m \in spans : m.start < i /\ i < m.end -> <<>>
                  [] from(i) # {} -> (CHOOSE m \in from(i) : TRUE).new_text
                  [] OTHER -> <<text[i]>>
  IN  FlattenSeq([i \in DOMAIN text |-> out(i)])

\* Edits that are not alike land where they matched, whatever the others do to the
\* offsets, and never over one another.  Of two in each other's way the first stays out,
\* and so does the second unless the first had been put out by another one before it:
\* a match that is out is compared with no more (ConflictsStayOutTogether).
EditsAreIndependent ==
  \A c \in Calls : request[c].op = "edit" /\ ~Twice(request[c].edits) =>
    LET text == Normal(disk.text)
        matched == Matched(text, request[c].edits)
        accepted == Accepted(text, request[c].edits)
        outcome == edit_core(disk, request[c].edits)
        InTheWay(i, j) == matched[i].start < matched[j].end /\ matched[j].start < matched[i].end
    IN  outcome.report = "edited" =>
          /\ Normal(outcome.text) = Simultaneous(text, accepted)
          /\ \A m, n \in Range(accepted) : m = n \/ m.end <= n.start \/ n.end <= m.start
          /\ \A i, j \in DOMAIN matched : i < j /\ InTheWay(i, j) =>
               /\ matched[i].index \notin outcome.applied
               /\ matched[j].index \in outcome.applied => \E k \in 1..j - 1 : k # i /\ InTheWay(i, k)

\* Calls that write one file add up: it holds what the calls that stored, one after the
\* other, make of the first file, so that no edit is lost under another (file_io.rs).
EditsAddUp ==
  LET Effect(file, c) ==
        IF request[c].op = "write" THEN File("text", FALSE, request[c].content)
        ELSE File("text", file.bom, edit_core(file, request[c].edits).text)
  IN  Sole /\ ~disk.torn => disk = FoldLeft(Effect, seed, order)

\* A write that was not told to overwrite never stands for a file that was there, and a
\* file that was there is never seen half written.
NothingIsClobbered ==
  /\ Sole => \A i \in DOMAIN order : request[order[i]].op = "write" /\ ~request[order[i]].overwrite =>
       i = 1 /\ (seed.kind = "absent" \/ \E c \in Calls : told[c] = "error" /\ doing[c].step = "creating")
  /\ \A c \in Calls : doing[c].base.torn /\ outside = 0 => seed.kind = "absent"

\* The reader that follows the notices sees every line once, in order, and is told it is
\* done only at the end, or at a line no page can show.
PagesTile ==
  /\ page.seen = [i \in 1..page.at - 1 |-> i]
     \/ (page.over /\ page.seen = Indexes(page.sizes))
  /\ page.over /\ page.seen # Indexes(page.sizes) => page.sizes[page.at] > ReadMax

\* A page holds no more than its budget, and both ends of an output no more than theirs,
\* with no line in both.
CapsHold ==
  LET both == truncate_head_tail(page.sizes)
  IN  /\ Bytes(SubSeq(page.sizes, 1, truncate_head(page.sizes))) <= ReadMax
      /\ page.sizes # <<>> => both.head + both.tail <= Len(page.sizes)
      /\ both.tail > 0 => Bytes(SubSeq(page.sizes, 1, both.head)) + Total(
           SubSeq(page.sizes, Len(page.sizes) - both.tail + 1, Len(page.sizes))) <= ShellMax

\* Hunks lie apart, hold every change, and start at the lines they say on both sides.
HunksAreExact ==
  LET changes == page.changes
      hunks == unified
      before(i, skip) == Cardinality({k \in 1..i - 1 : changes[k] # skip})
  IN  /\ \A n \in DOMAIN hunks : LET h == hunks[n] IN
           /\ h.old_start = 1 + before(h.range.start, "+") /\ h.new_start = 1 + before(h.range.start, "-")
           /\ n > 1 => hunks[n - 1].range.end < h.range.start
      /\ \A i \in DOMAIN changes : changes[i] # "=" =>
           \E h \in Range(hunks) : h.range.start <= i /\ i < h.range.end

\* What a call reports is what became of its tree: cut short, nothing of its group runs
\* on; completed, its shell ended by itself; not run, nothing ever ran.
ReportsMatchTheTree ==
  /\ job.told \in {"interrupted", "timed out", "lost"} =>
       job.leader \in {"exited", "killed"} /\ (job.helper = "running" => job.away)
  /\ job.told \in {"completed", "cannot spill"} => job.leader = "exited" /\ ~Holder
  /\ job.told \in {"did not run", "cannot start"} => job.leader = "none"

\* Bash is a launcher that answered, in a root that git's placement, the installer's
\* declaration or its default names; a bare bash on the path is never taken (shell.rs).
NeverAGuess ==
  job.shell # "powershell" =>
    /\ job.shell \in job.machine.launcher \cap job.machine.healthy
    /\ job.shell \in Range(job.machine.registry \o job.machine.known)
         \cup {g.root : g \in {x \in Range(job.machine.git) : x.placement \in {"cmd", "mingw64/bin"}}}

\* While its shell runs, a call ends at the token or the deadline.
CutsEnd == (job.token \/ job.late) /\ job.pc = "polling" ~> job.pc # "polling"

\* NOT true of the code: the same replacement stated twice lands once (edit_core's comment,
\* tests.rs "both apply, the change lands once").
AlikeLandOnce ==
  \A c \in Calls : request[c].op = "edit" =>
    LET text == Normal(disk.text)
        outcome == edit_core(disk, request[c].edits)
    IN  outcome.report \in {"edited", "panicked"} =>
          Normal(outcome.text) = Simultaneous(text, Accepted(text, request[c].edits))

\* NOT true of the code: a conflicting pair is rejected together (edit's comment, and
\* "rejects both" in edit_core's): the third of a chain lands over the rejected second.
ConflictsStayOutTogether ==
  \A c \in Calls : request[c].op = "edit" /\ ~Twice(request[c].edits) =>
    LET outcome == edit_core(disk, request[c].edits)
    IN  \A m, n \in Range(Matched(Normal(disk.text), request[c].edits)) :
          m # n /\ m.start < n.end /\ n.start < m.end => {m.index, n.index} \cap outcome.applied = {}

\* NOT true of the code: the file's line endings are preserved; one CRLF makes all of them.
EndingsStay ==
  \A c \in Calls : request[c].op = "edit" /\ ~Twice(request[c].edits) =>
    LET outcome == edit_core(disk, request[c].edits)
    IN  outcome.report = "edited" /\ Accepted(disk.text, request[c].edits) # <<>> =>
          IsPrefix(SubSeq(disk.text, 1, Accepted(disk.text, request[c].edits)[1].start - 1), outcome.text)

\* NOT true of the code: an output's first and last line are shown, or both ends of one line.
BothEndsShown ==
  LET both == truncate_head_tail(page.sizes)
  IN  page.sizes # <<>> => both.split \/ (both.head > 0 /\ both.head + both.tail > 0)

\* NOT true of the code: a command that exceeds its timeout is killed; once its shell has
\* exited, a helper that holds the pipe keeps the call past the deadline and the token.
EndsByDeadline == (job.token \/ job.late) ~> job.pc = "over"
=============================================================================
