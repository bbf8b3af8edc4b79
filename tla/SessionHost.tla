---------------------------- MODULE SessionHost ----------------------------
(***************************************************************************)
(* The host of a backend process: its lifecycle door (commands that arrive *)
(* before the boot session park), the table of resident workers, the       *)
(* current world with its generation, the auth file behind login and       *)
(* logout, and the wind-down that ends the event stream                    *)
(* (tabit-session endpoint.rs, registry.rs, session/world.rs).             *)
(*                                                                         *)
(* A command is served on the thread that brings it: the reader thread of  *)
(* the stdio edge, and the main thread, which also attaches the boot       *)
(* session and then serves what parked.  Each lock claim is one step.      *)
(***************************************************************************)
EXTENDS Integers, Sequences, FiniteSets

CONSTANTS Threads, Main,  \* Main runs the attach
          Files, BootFile,    \* the sessions open_session may name; the one the boot made
          NewIds,         \* what new_session may call its sessions
          Providers,      \* the configured providers
          MaxCommands

VARIABLES armed,    \* LifecycleCore is there
          parked,   \* DoorState.parked
          todo,     \* what a thread still has to drain
          at, cmd,  \* where a thread is in its serve, and of which command
          before, built, \* build_on_current_world: the generations read and built on; from
                 \* the spawn on, built is the worker's index
          keys,     \* auth.toml: the providers with a stored key
          world,    \* WorldCell: the registry's keys and the generation
          catalog,  \* the keys of the last announced catalog, if any
          writer,   \* who holds auth_write
          sessions, \* every worker spawned so far
          table,    \* workers: id -> index into sessions
          joins, awaited, shutdown, ended, \* the wind-down
          asked, answered, \* commands that came, commands that were answered
          missed,   \* threads a refresh's walk passed between their check and their insert
          gap       \* the sessions such a thread inserted

doorVars == <<armed, parked, todo, asked>>
serveVars == <<at, cmd>>
buildVars == <<before, built>>
authVars == <<keys, world, catalog, writer>>
workerVars == <<sessions, table, missed, gap>>
windVars == <<joins, awaited, shutdown, ended>>
hostVars == <<doorVars, serveVars, buildVars, authVars, workerVars, windVars, answered>>

Nobody == "nobody"
Commands == [kind : {"new"}, of : {"-"}] \cup [kind : {"open"}, of : Files]
            \cup [kind : {"login", "logout"}, of : Providers]
Ids == Files \cup NewIds
Taken == {sessions[i].id : i \in DOMAIN sessions}

HostInit ==
  /\ armed = FALSE /\ parked = <<>> /\ todo = [t \in Threads |-> <<>>] /\ asked = 0
  /\ at = [t \in Threads |-> "idle"] /\ cmd = [t \in Threads |-> [kind |-> "new", of |-> "-"]]
  /\ before = [t \in Threads |-> 0] /\ built = [t \in Threads |-> 0]
  /\ keys = {} /\ world = [keys |-> {}, generation |-> 0] /\ catalog = <<>> /\ writer = Nobody
  /\ sessions = <<>> /\ table = <<>> /\ missed = {} /\ gap = {}
  /\ joins = <<>> /\ awaited = 0 /\ shutdown = FALSE /\ ended = FALSE
  /\ answered = 0

Go(t, stage) == at' = [at EXCEPT ![t] = stage]
Done(t) == Go(t, "idle") /\ answered' = answered + 1
SpawnWorker(id, g) == sessions' = Append(sessions, [id |-> id, generation |-> g, alive |-> TRUE])

\* SessionHostMount::attach: the boot worker and its announcements, the
\* catalog, then the door arms and takes the parked set in one claim.
Attach ==
  /\ ~armed /\ armed' = TRUE
  /\ SpawnWorker(BootFile, world.generation) /\ table' = [id \in {BootFile} |-> 1] /\ joins' = <<1>>
  /\ catalog' = <<world.keys>>
  /\ todo' = [todo EXCEPT ![Main] = parked] /\ parked' = <<>>
  /\ UNCHANGED <<asked, serveVars, buildVars, keys, world, writer, missed, gap, awaited,
                 shutdown, ended, answered>>

Start(t, c) == cmd' = [cmd EXCEPT ![t] = c] /\ Go(t, c.kind)

\* Lifecycle::enter: one claim of the door parks the command or finds the core.
Enter(t, c) ==
  /\ at[t] = "idle" /\ todo[t] = <<>> /\ asked < MaxCommands /\ asked' = asked + 1
  /\ IF armed THEN Start(t, c) /\ UNCHANGED parked
              ELSE parked' = Append(parked, c) /\ UNCHANGED serveVars
  /\ UNCHANGED <<armed, todo, buildVars, authVars, workerVars, windVars, answered>>

\* Lifecycle::drain: the next parked command.
Drain(t) ==
  /\ at[t] = "idle" /\ todo[t] # <<>>
  /\ Start(t, Head(todo[t])) /\ todo' = [todo EXCEPT ![t] = Tail(@)]
  /\ UNCHANGED <<armed, parked, asked, buildVars, authVars, workerVars, windVars, answered>>

\* serve_open_session on a resident session: the pass is the answer.
Replay(t) ==
  /\ at[t] = "open" /\ cmd[t].of \in DOMAIN table /\ Done(t)
  /\ UNCHANGED <<cmd, doorVars, buildVars, authVars, workerVars, windVars>>

\* build_on_current_world: the generation, the build (which reads the world
\* itself and may fail), the check of the generation.
ReadGeneration(t) ==
  /\ \/ at[t] = "new"
     \/ at[t] = "open" /\ cmd[t].of \notin DOMAIN table
  /\ before' = [before EXCEPT ![t] = world.generation] /\ Go(t, "build")
  /\ UNCHANGED <<cmd, built, doorVars, authVars, workerVars, windVars, answered>>
Build(t) ==
  /\ at[t] = "build"
  /\ \/ built' = [built EXCEPT ![t] = world.generation] /\ Go(t, "check") /\ UNCHANGED answered
     \/ Done(t) /\ UNCHANGED built
  /\ UNCHANGED <<cmd, before, doorVars, authVars, workerVars, windVars>>
CheckGeneration(t) ==
  /\ at[t] = "check" /\ Go(t, "spawn")
  /\ built' = IF world.generation # before[t] THEN [built EXCEPT ![t] = world.generation]
              ELSE built
  /\ UNCHANGED <<cmd, before, doorVars, authVars, workerVars, windVars, answered>>

\* spawn_worker and announce_session: the worker runs before the table has it.
Spawn(t) ==
  /\ at[t] = "spawn" /\ Go(t, "insert")
  /\ IF cmd[t].kind = "open" THEN SpawnWorker(cmd[t].of, built[t])
     ELSE \E id \in NewIds \ Taken : SpawnWorker(id, built[t])
  /\ built' = [built EXCEPT ![t] = Len(sessions) + 1]
  /\ UNCHANGED <<cmd, before, doorVars, authVars, table, missed, gap, windVars, answered>>
Insert(t) ==
  /\ at[t] = "insert" /\ Go(t, "join")
  /\ LET i == built[t]  new == sessions[i].id IN
       /\ table' = [id \in DOMAIN table \cup {new} |-> IF id = new THEN i ELSE table[id]]
       /\ gap' = IF t \in missed THEN gap \cup {i} ELSE gap
  /\ missed' = missed \ {t}
  /\ UNCHANGED <<cmd, buildVars, doorVars, authVars, sessions, windVars, answered>>
PushJoin(t) ==
  /\ at[t] = "join" /\ joins' = Append(joins, built[t]) /\ Done(t)
  /\ UNCHANGED <<cmd, buildVars, doorVars, authVars, workerVars, awaited, shutdown, ended>>

\* serve_login and serve_logout: under auth_write, the surgical write of the
\* file (it may fail: a notice), the swap of the world, the walk over the
\* resident workers, the catalog as the answer.
Stored(c) == IF c.kind = "login" THEN keys \cup {c.of} ELSE keys \ {c.of}
\* A login that does not wait for the one in progress.
ClaimAuthAnyway(t) ==
  /\ at[t] \in {"login", "logout"} /\ writer' = t /\ Go(t, "write")
  /\ UNCHANGED <<cmd, doorVars, buildVars, keys, world, catalog, workerVars, windVars, answered>>
ClaimAuth(t) ==
  /\ at[t] \in {"login", "logout"} /\ writer = Nobody /\ writer' = t /\ Go(t, "write")
  /\ UNCHANGED <<cmd, doorVars, buildVars, keys, world, catalog, workerVars, windVars, answered>>
WriteAuth(t) ==
  /\ at[t] = "write"
  /\ \/ keys' = Stored(cmd[t]) /\ Go(t, "swap") /\ UNCHANGED <<writer, answered>>
     \/ Done(t) /\ writer' = Nobody /\ UNCHANGED keys
  /\ UNCHANGED <<cmd, doorVars, buildVars, world, catalog, workerVars, windVars>>
SwapWorld(t) ==
  /\ at[t] = "swap" /\ Go(t, "walk")
  /\ world' = [keys |-> keys, generation |-> world.generation + 1]
  /\ UNCHANGED <<cmd, doorVars, buildVars, keys, catalog, writer, workerVars, windVars, answered>>
Resident == {table[id] : id \in DOMAIN table}
Walk(t) ==
  /\ at[t] = "walk" /\ Go(t, "announce")
  /\ sessions' = [i \in DOMAIN sessions |->
       IF i \in Resident THEN [sessions[i] EXCEPT !.generation = world.generation]
       ELSE sessions[i]]
  /\ missed' = missed \cup {u \in Threads : at[u] \in {"spawn", "insert"}}
  /\ UNCHANGED <<cmd, doorVars, buildVars, authVars, table, gap, windVars, answered>>
AnnounceCatalog(t) ==
  /\ at[t] = "announce" /\ catalog' = <<world.keys>> /\ writer' = Nobody /\ Done(t)
  /\ UNCHANGED <<cmd, doorVars, buildVars, keys, world, workerVars, windVars>>

Serve(t) == \/ Drain(t) \/ Replay(t) \/ ReadGeneration(t) \/ Build(t) \/ CheckGeneration(t)
            \/ Spawn(t) \/ Insert(t) \/ PushJoin(t)
            \/ ClaimAuth(t) \/ WriteAuth(t) \/ SwapWorld(t) \/ Walk(t) \/ AnnounceCatalog(t)

\* close_commands, the frontend's death or the facade's drop: the token, which
\* every worker winds down on once its last event is out.
Close ==
  /\ ~shutdown /\ shutdown' = TRUE
  /\ UNCHANGED <<doorVars, serveVars, buildVars, authVars, workerVars, joins, awaited, ended,
                 answered>>
WorkerEnds(i) ==
  /\ shutdown /\ sessions[i].alive /\ sessions' = [sessions EXCEPT ![i].alive = FALSE]
  /\ UNCHANGED <<doorVars, serveVars, buildVars, authVars, table, missed, gap, windVars, answered>>

\* The wind-down task: it takes the joins one by one, and the stream ends when
\* it finds none.
TakeJoin ==
  /\ shutdown /\ ~ended /\ awaited = 0
  /\ IF joins = <<>> THEN ended' = TRUE /\ UNCHANGED <<joins, awaited>>
     ELSE awaited' = Head(joins) /\ joins' = Tail(joins) /\ UNCHANGED ended
  /\ UNCHANGED <<doorVars, serveVars, buildVars, authVars, workerVars, shutdown, answered>>
JoinDone ==
  /\ awaited # 0 /\ ~sessions[awaited].alive /\ awaited' = 0
  /\ UNCHANGED <<doorVars, serveVars, buildVars, authVars, workerVars, joins, shutdown, ended,
                 answered>>

HostNext ==
  \/ Attach
  \/ \E t \in Threads : \/ \E c \in Commands : Enter(t, c)
                        \/ Serve(t)
  \/ Close
  \/ \E i \in DOMAIN sessions : WorkerEnds(i)
  \/ TakeJoin
  \/ JoinDone

HostSpec == HostInit /\ [][HostNext]_hostVars

-----------------------------------------------------------------------------
HostTypeOK ==
  /\ armed \in BOOLEAN /\ \A n \in DOMAIN parked : parked[n] \in Commands
  /\ \A t \in Threads : \A n \in DOMAIN todo[t] : todo[t][n] \in Commands
  /\ keys \subseteq Providers /\ world.keys \subseteq Providers /\ writer \in Threads \cup {Nobody}
  /\ DOMAIN table \subseteq Ids /\ \A id \in DOMAIN table : sessions[table[id]].id = id
  /\ Resident \subseteq DOMAIN sessions /\ gap \subseteq DOMAIN sessions

Quiet == armed /\ \A t \in Threads : at[t] = "idle" /\ todo[t] = <<>>

\* Every command that came is answered once the host is quiet, the ones that
\* raced the attach among them ("nothing is lost between them").
AllAnswered == Quiet => answered = asked

\* While nobody is in the middle of a login or logout, the auth file, the
\* world and the last announced catalog agree: racing logins never lose a key,
\* and no older catalog is announced last.
CatalogTellsWorld == writer = Nobody /\ armed => keys = world.keys /\ catalog = <<keys>>

\* A resident session that still builds against an older world was missed by
\* a refresh that walked the table between its check and its insert.
StaleOnlyThroughGap ==
  writer = Nobody =>
    \A id \in DOMAIN table :
      sessions[table[id]].generation # world.generation => table[id] \in gap

\* The stream ends after the last event of every worker, but for the workers
\* whose spawn was still on its way when the wind-down looked for the last time.
InTransit == {built[t] : t \in {u \in Threads : at[u] \in {"insert", "join"}}}
EndsLast == [][ended' # ended => \A i \in DOMAIN sessions : sessions[i].alive => i \in InTransit]_hostVars

\* NOT true of the code: a quiet host has every resident session on the current world.
EverySessionCurrent ==
  Quiet => \A id \in DOMAIN table : sessions[table[id]].generation = world.generation

\* NOT true of the code: one worker per session.
OneWorkerPerSession ==
  \A i, j \in DOMAIN sessions :
    sessions[i].id = sessions[j].id /\ sessions[i].alive /\ sessions[j].alive => i = j

\* NOT true of the code: nothing of a worker follows the end of the stream.
NothingAfterEnd == ended => \A i \in DOMAIN sessions : ~sessions[i].alive
=============================================================================
