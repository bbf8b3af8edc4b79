---------------------------- MODULE SubagentPool ----------------------------
(***************************************************************************)
(* The children a session keeps (tabit-session: subagent.rs,               *)
(* subagent_pool.rs, subprocess.rs) and how one is driven and closed       *)
(* (tabit-wire: client.rs, process.rs).  The tools of one turn run         *)
(* concurrently: `subagent` starts a child and parks it under a friendly   *)
(* id, `followup` sends a parked child its next task.                      *)
(***************************************************************************)
EXTENDS Naturals, Sequences, SequencesExt, FiniteSets

CONSTANTS
  Children,   \* processes that can be spawned, 1 first
  Wedged,     \* the children that ignore the end of their input
  Calls,      \* tool calls
  Ids,        \* the names the minter draws from
  MaxIdle,    \* MAX_IDLE_TURNS
  MaxAge,     \* turns of the session
  MaxSteers   \* messages the user types at a child

None == "none"
NoChild == 0
User == "user"
Abort == "abort"

VARIABLES
  life,      \* child -> unborn, idle, working, gone
  serving,   \* child -> the messages of its current run
  lines,     \* child -> what its stdin writer has yet to write
  closing,   \* child -> BOOLEAN, its closing token
  hungup,    \* child -> BOOLEAN, its stdin is at its end
  frames,    \* child -> the terminals its driver has not read
  reaper,    \* child -> waiting, over, awaited
  parked,    \* friendly id -> child or NoChild
  lastUsed,  \* child -> the turn of its last use
  slot,      \* child -> the call that holds its handle, or None
  call,      \* call -> its step, or its outcome
  at,        \* call -> its child or NoChild
  answer,    \* call -> the messages of the run whose terminal it returned
  named,     \* call -> the friendly id its result named, or None
  turn,
  steers,    \* messages the user typed
  fired      \* BOOLEAN, the run's abort token

procVars == <<life, serving, hungup, frames, reaper>>
poolVars == <<parked, lastUsed, turn>>
callVars == <<slot, call, at, answer, named>>
subVars == <<procVars, lines, closing, poolVars, callVars, fired, steers>>

Outcomes == {"completed", "aborted", "failed"}
Active(k) == call[k] \in {"queued", "driving", "reaping"}

SubInit ==
  /\ life = [c \in Children |-> "unborn"]
  /\ serving = [c \in Children |-> {}] /\ lines = [c \in Children |-> <<>>]
  /\ closing = [c \in Children |-> FALSE] /\ hungup = [c \in Children |-> FALSE]
  /\ frames = [c \in Children |-> <<>>] /\ reaper = [c \in Children |-> "waiting"]
  /\ parked = [i \in Ids |-> NoChild] /\ lastUsed = [c \in Children |-> 0]
  /\ slot = [c \in Children |-> None] /\ call = [k \in Calls |-> "new"]
  /\ at = [k \in Calls |-> NoChild] /\ answer = [k \in Calls |-> {}]
  /\ named = [k \in Calls |-> None]
  /\ turn = 0 /\ steers = 0 /\ fired = FALSE

-----------------------------------------------------------------------------
(* The child process                                                       *)

\* A message opens a run or joins the one at work; an abort ends it.
ChildReads(c) ==
  /\ life[c] \in {"idle", "working"} /\ lines[c] # <<>>
  /\ lines' = [lines EXCEPT ![c] = Tail(@)]
  /\ IF Head(lines[c]) = Abort
       THEN /\ life' = [life EXCEPT ![c] = "idle"] /\ serving' = [serving EXCEPT ![c] = {}]
            /\ frames' = IF life[c] = "idle" THEN frames
                         ELSE [frames EXCEPT ![c] = Append(@,
                                [own |-> TRUE, outcome |-> "aborted", run |-> serving[c]])]
       ELSE /\ life' = [life EXCEPT ![c] = "working"] /\ UNCHANGED frames
            /\ serving' = [serving EXCEPT ![c] = @ \cup {Head(lines[c])}]
  /\ UNCHANGED <<closing, hungup, reaper, poolVars, callVars, fired, steers>>

ChildEndsRun(c) == \E outcome \in {"completed", "failed"} :
  /\ life[c] = "working" /\ life' = [life EXCEPT ![c] = "idle"]
  /\ frames' = [frames EXCEPT ![c] = Append(@, [own |-> TRUE, outcome |-> outcome, run |-> serving[c]])]
  /\ serving' = [serving EXCEPT ![c] = {}]
  /\ UNCHANGED <<lines, closing, hungup, reaper, poolVars, callVars, fired, steers>>

\* A child of the child ends a run: its frame comes through the same pipe.
GrandchildEndsRun(c) ==
  /\ life[c] = "working" /\ \A i \in DOMAIN frames[c] : frames[c][i].own
  /\ frames' = [frames EXCEPT ![c] = Append(@, [own |-> FALSE, outcome |-> "completed", run |-> {}])]
  /\ UNCHANGED <<life, serving, lines, closing, hungup, reaper, poolVars, callVars, fired, steers>>

\* It exits at the end of its input unless it is wedged, or crashes.
ChildExits(c) ==
  /\ life[c] \in {"idle", "working"} /\ (life[c] = "working" \/ (hungup[c] /\ c \notin Wedged))
  /\ life' = [life EXCEPT ![c] = "gone"]
  /\ UNCHANGED <<serving, lines, closing, hungup, frames, reaper, poolVars, callVars, fired, steers>>

\* The user steers the child through the net (a message stamped for its session).
Steer(c) ==
  /\ life[c] \in {"idle", "working"} /\ ~closing[c] /\ steers < MaxSteers
  /\ lines' = [lines EXCEPT ![c] = Append(@, User)] /\ steers' = steers + 1
  /\ UNCHANGED <<procVars, closing, poolVars, callVars, fired>>

-----------------------------------------------------------------------------
(* The handle: writer and reaper                                           *)

\* spawn_line_writer: on the close what is queued is written, then the pipe drops.
HangUp(c) ==
  /\ life[c] # "unborn" /\ closing[c] /\ ~hungup[c] /\ (lines[c] = <<>> \/ life[c] = "gone")
  /\ hungup' = [hungup EXCEPT ![c] = TRUE] /\ lines' = [lines EXCEPT ![c] = <<>>]
  /\ UNCHANGED <<life, serving, closing, frames, reaper, poolVars, callVars, fired, steers>>

\* The reaper: a natural exit, or after the close the grace and the tree's kill.
Reap(c) ==
  /\ reaper[c] = "waiting" /\ life[c] # "unborn" /\ (life[c] = "gone" \/ closing[c])
  /\ reaper' = [reaper EXCEPT ![c] = "over"] /\ life' = [life EXCEPT ![c] = "gone"]
  /\ UNCHANGED <<serving, lines, closing, hungup, frames, poolVars, callVars, fired, steers>>

-----------------------------------------------------------------------------
(* The calls                                                               *)

Close(c) == closing' = [closing EXCEPT ![c] = TRUE]
Sends(c, line) == lines' = IF hungup[c] THEN lines ELSE [lines EXCEPT ![c] = Append(@, line)]

\* A call under a fired token is refused before it does anything.
Refuse(k) ==
  /\ call[k] = "new" /\ fired /\ call' = [call EXCEPT ![k] = "refused"]
  /\ UNCHANGED <<procVars, lines, closing, poolVars, slot, at, answer, named, fired, steers>>

\* subagent: a fresh child gets the task as its first message.
Start(k, c) ==
  /\ call[k] = "new" /\ ~fired /\ life[c] = "unborn"
  /\ \A older \in Children : older < c => life[older] # "unborn"
  /\ life' = [life EXCEPT ![c] = "idle"] /\ Sends(c, k)
  /\ call' = [call EXCEPT ![k] = "driving"] /\ at' = [at EXCEPT ![k] = c]
  /\ slot' = [slot EXCEPT ![c] = k]
  /\ UNCHANGED <<serving, hungup, frames, reaper, closing, poolVars, answer, named, fired, steers>>

\* followup: the id's entry is looked up, and its slot awaited.
Follow(k, i) ==
  /\ call[k] = "new" /\ ~fired
  /\ IF parked[i] = NoChild
       THEN call' = [call EXCEPT ![k] = "missed"] /\ UNCHANGED at
       ELSE call' = [call EXCEPT ![k] = "queued"] /\ at' = [at EXCEPT ![k] = parked[i]]
  /\ UNCHANGED <<procVars, lines, closing, poolVars, slot, answer, named, fired, steers>>

TakesSlot(k) ==
  /\ call[k] = "queued" /\ slot[at[k]] = None
  /\ slot' = [slot EXCEPT ![at[k]] = k] /\ call' = [call EXCEPT ![k] = "driving"]
  /\ Sends(at[k], k)
  /\ UNCHANGED <<procVars, closing, poolVars, at, answer, named, fired, steers>>

\* The names of the pool's table.
IdOf(c) == {i \in Ids : parked[i] = c}

\* The id a followup was called with: the one the child was parked under.
NameOf(c) == CHOOSE i \in Ids : \E j \in Calls : at[j] = c /\ named[j] = i

\* fresh_id: a name no entry holds.
Fresh == {i \in Ids : parked[i] = NoChild}

\* The call lets go of the child; the last reference dropped closes it.
Leaves(k, c) ==
  IF IdOf(c) = {} /\ ~\E j \in Calls \ {k} : at[j] = c /\ Active(j) THEN Close(c) ELSE UNCHANGED closing

\* A completed terminal keeps the child open: a new one is parked, a parked one stamped.
Completes(k, c, run) ==
  /\ call' = [call EXCEPT ![k] = "completed"] /\ answer' = [answer EXCEPT ![k] = run]
  /\ slot' = [slot EXCEPT ![c] = None] /\ lastUsed' = [lastUsed EXCEPT ![c] = turn]
  /\ \/ /\ IdOf(c) = {} /\ (\A j \in Calls \ {k} : at[j] # c)
        /\ \E i \in Fresh : parked' = [parked EXCEPT ![i] = c] /\ named' = [named EXCEPT ![k] = i]
        /\ UNCHANGED closing
     \/ /\ IdOf(c) # {} \/ (\E j \in Calls \ {k} : at[j] = c)
        /\ named' = [named EXCEPT ![k] = NameOf(c)]
        /\ UNCHANGED parked /\ Leaves(k, c)

\* Mutant: any completed terminal in the pipe settles the drive.
SettlesOnAny(k) ==
  LET c == at[k] frame == Head(frames[c])
  IN  /\ call[k] = "driving" /\ frames[c] # <<>>
      /\ frames' = [frames EXCEPT ![c] = Tail(@)]
      /\ IF frame.outcome = "completed"
           THEN Completes(k, c, frame.run)
           ELSE /\ call' = [call EXCEPT ![k] = "reaping"] /\ answer' = [answer EXCEPT ![k] = frame.run]
                /\ Close(c) /\ UNCHANGED <<parked, lastUsed, slot, named>>
      /\ UNCHANGED <<life, serving, hungup, reaper, lines, turn, at, fired, steers>>

\* settle_inner: the terminal of the child's own stream ends the drive; any but
\* a completed one closes the child.
Settles(k) ==
  LET c == at[k] frame == Head(frames[c])
  IN  /\ call[k] = "driving" /\ frames[c] # <<>>
      /\ frames' = [frames EXCEPT ![c] = Tail(@)]
      /\ CASE ~frame.own -> UNCHANGED <<closing, parked, lastUsed, slot, call, answer, named>>
           [] frame.own /\ frame.outcome = "completed" -> Completes(k, c, frame.run)
           [] OTHER -> /\ call' = [call EXCEPT ![k] = "reaping"] /\ answer' = [answer EXCEPT ![k] = frame.run]
                       /\ Close(c) /\ UNCHANGED <<parked, lastUsed, slot, named>>
      /\ UNCHANGED <<life, serving, hungup, reaper, lines, turn, at, fired, steers>>

\* The pipe ended without a terminal: the drive reports a crash.
Crashes(k) ==
  /\ call[k] = "driving" /\ life[at[k]] = "gone" /\ frames[at[k]] = <<>>
  /\ call' = [call EXCEPT ![k] = "reaping"]
  /\ UNCHANGED <<procVars, lines, closing, poolVars, slot, at, answer, named, fired, steers>>

\* The token: the abort is sent, the child is closed, and the drive is over.
Aborts(k) ==
  /\ call[k] = "driving" /\ fired
  /\ Sends(at[k], Abort) /\ Close(at[k]) /\ call' = [call EXCEPT ![k] = "reaping"]
  /\ UNCHANGED <<procVars, poolVars, slot, at, answer, named, fired, steers>>

\* wait_exit, then the entry goes.  The reaper's handle can be awaited once: the
\* second await panics.
Reclaims(k) ==
  LET c == at[k]
  IN  /\ call[k] = "reaping" /\ reaper[c] # "waiting"
      /\ slot' = [slot EXCEPT ![c] = None]
      /\ IF reaper[c] = "awaited"
           THEN call' = [call EXCEPT ![k] = "panicked"] /\ UNCHANGED <<reaper, parked>>
           ELSE /\ call' = [call EXCEPT ![k] = "failed"]
                /\ reaper' = [reaper EXCEPT ![c] = "awaited"]
                /\ parked' = [i \in Ids |-> IF parked[i] = c THEN NoChild ELSE parked[i]]
      /\ UNCHANGED <<life, serving, hungup, frames, lines, closing, lastUsed, turn, at, answer, named, fired, steers>>

Fire ==
  /\ ~fired /\ fired' = TRUE
  /\ UNCHANGED <<procVars, lines, closing, poolVars, callVars, steers>>

\* The children idle for more turns than the pool keeps them, the new turn counted.
Expired(c) == turn + 1 - lastUsed[c] > MaxIdle

\* turn_passed: a turn starts once the tools of the last one returned, or were
\* left behind by an abort; idle entries go, and their children close.
TurnPassed ==
  /\ turn < MaxAge /\ (fired \/ \A k \in Calls : ~Active(k))
  /\ turn' = turn + 1
  /\ parked' = [i \in Ids |-> IF parked[i] # NoChild /\ Expired(parked[i]) THEN NoChild ELSE parked[i]]
  /\ closing' = [c \in Children |-> closing[c] \/ (IdOf(c) # {} /\ Expired(c) /\ slot[c] = None)]
  /\ UNCHANGED <<procVars, lines, lastUsed, callVars, fired, steers>>

-----------------------------------------------------------------------------
(* The specification                                                       *)

Driver(k) == Settles(k) \/ Crashes(k) \/ Aborts(k) \/ Reclaims(k) \/ TakesSlot(k)
Keeper(c) == HangUp(c) \/ Reap(c)

SubNext ==
  \/ \E c \in Children : \/ ChildReads(c) \/ ChildEndsRun(c) \/ GrandchildEndsRun(c)
                         \/ ChildExits(c) \/ Steer(c) \/ Keeper(c)
  \/ \E k \in Calls : Driver(k) \/ Refuse(k) \/ (\E c \in Children : Start(k, c))
                      \/ (\E i \in Ids : Follow(k, i))
  \/ Fire \/ TurnPassed

\* Drives, writers and reapers run on, and select! does not pass over a fired
\* token for ever; a child owes nothing.
SubFairness == /\ \A k \in Calls : WF_subVars(Driver(k)) /\ WF_subVars(Aborts(k))
               /\ \A c \in Children : WF_subVars(Keeper(c))
SubSpec == SubInit /\ [][SubNext]_subVars /\ SubFairness

-----------------------------------------------------------------------------
(* Properties                                                              *)

\* A child that is not being closed is driven by a call or parked under an id:
\* no process is kept that nobody can address.
NoOrphans ==
  \A c \in Children : (life[c] \in {"idle", "working"} /\ ~closing[c]) =>
    IdOf(c) # {} \/ \E k \in Calls : at[k] = c /\ Active(k)

\* Without users at the child, a completed call returns the answer to its own
\* message, never an earlier run's or a grandchild's.
OwnAnswer == \A k \in Calls : (call[k] = "completed" /\ ~fired) => k \in answer[k]

\* What a result promised holds: the id it named answers until the child sat idle
\* for more turns than the pool keeps it, or a call to it failed.
NamedIdAnswers ==
  \A k \in Calls : (named[k] # None /\ ~fired) =>
    LET c == at[k]
    IN  \/ parked[named[k]] = c \/ turn - lastUsed[c] > MaxIdle
        \/ \E j \in Calls : at[j] = c /\ call[j] \in {"reaping", "failed", "panicked"}

\* Nobody is parked past the pool's patience.
NoneOverstays == \A i \in Ids : parked[i] # NoChild =>
  turn - lastUsed[parked[i]] <= MaxIdle

\* An abort returns the calls it finds, wedged children or not.
FiredReturns == fired ~> \A k \in Calls : ~Active(k)

\* client.rs: the reaper's handle is single-shot, and wait_exit owns it.
AwaitedOnce == \A k \in Calls : call[k] # "panicked"
=============================================================================
