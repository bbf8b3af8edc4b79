----------------------------- MODULE LockTable -----------------------------
(***************************************************************************)
(* The one lock helper of the session stack, with its diagnostics on: the  *)
(* claim contract's nestings, the table of held locks that a timed-out     *)
(* claim reports from, and the bookkeeping around each claim               *)
(* (tabit-log lock.rs).  A guard's drop keeps its books before it unlocks. *)
(***************************************************************************)
EXTENDS Integers, Sequences, FiniteSets

CONSTANTS Tasks, MaxClaims

VARIABLES path,    \* the claims a task still makes in this nest
          at,      \* "free", "held" (acquired, not yet in the table), "in", "out"
          here,    \* HELD_HERE: what the task holds, in claim order
          holders, \* a lock's holders: mode and tasks
          table,   \* HELD: lock -> the task its entry names
          claims

lockVars == <<path, at, here, holders, table, claims>>

Locks == {"conversation", "selection", "buffer", "leaf"}
\* The nestings of the contract: the engine's folds, a register write, a read
\* of the conversation, any other lock alone.
Nests == {<<<<"conversation", "write">>, <<"buffer", "write">>>>,
          <<<<"selection", "write">>, <<"buffer", "write">>>>,
          <<<<"conversation", "read">>>>, <<<<"leaf", "write">>>>}

LockInit ==
  /\ path = [t \in Tasks |-> <<>>] /\ at = [t \in Tasks |-> "free"]
  /\ here = [t \in Tasks |-> <<>>] /\ claims = 0
  /\ holders = [l \in Locks |-> [mode |-> "write", by |-> {}]] /\ table = <<>>

Free(l, mode) == \/ holders[l].by = {}
                 \/ holders[l].mode = "read" /\ mode = "read"

Begin(t) ==
  /\ path[t] = <<>> /\ here[t] = <<>> /\ at[t] = "free" /\ claims < MaxClaims
  /\ \E n \in Nests : path' = [path EXCEPT ![t] = n]
  /\ claims' = claims + 1 /\ UNCHANGED <<at, here, holders, table>>

\* Claim::acquire_mutex, acquire_read, acquire_write.
Acquire(t) ==
  /\ path[t] # <<>> /\ at[t] = "free"
  /\ LET l == Head(path[t])[1]  mode == Head(path[t])[2] IN
       /\ Free(l, mode)
       /\ holders' = [holders EXCEPT ![l] = [mode |-> mode, by |-> @.by \cup {t}]]
       /\ here' = [here EXCEPT ![t] = Append(@, l)]
  /\ at' = [at EXCEPT ![t] = "held"] /\ UNCHANGED <<path, table, claims>>

Last(t) == here[t][Len(here[t])]
\* Claim::on_held: the entry is inserted over whatever entry the lock had.
OnHeld(t) ==
  /\ at[t] = "held" /\ at' = [at EXCEPT ![t] = IF Len(path[t]) = 1 THEN "in" ELSE "free"]
  /\ table' = [l \in DOMAIN table \cup {Last(t)} |-> IF l = Last(t) THEN t ELSE table[l]]
  /\ path' = [path EXCEPT ![t] = Tail(@)] /\ UNCHANGED <<here, holders, claims>>

\* Claim::on_release removes the lock's entry; then the inner guard unlocks.
OnRelease(t) ==
  /\ at[t] = "in" /\ at' = [at EXCEPT ![t] = "out"]
  /\ table' = [l \in DOMAIN table \ {Last(t)} |-> table[l]]
  /\ UNCHANGED <<path, here, holders, claims>>
Unlock(t) ==
  /\ at[t] = "out"
  /\ holders' = [holders EXCEPT ![Last(t)].by = @ \ {t}]
  /\ here' = [here EXCEPT ![t] = SubSeq(@, 1, Len(@) - 1)]
  /\ at' = [at EXCEPT ![t] = IF Len(here[t]) = 1 THEN "free" ELSE "in"]
  /\ UNCHANGED <<path, table, claims>>

LockNext == \E t \in Tasks : Begin(t) \/ Acquire(t) \/ OnHeld(t) \/ OnRelease(t) \/ Unlock(t)
LockSpec == LockInit /\ [][LockNext]_lockVars

-----------------------------------------------------------------------------
Holds(t, l) == t \in holders[l].by
Waits(t, u) == path[t] # <<>> /\ at[t] = "free" /\ ~Free(Head(path[t])[1], Head(path[t])[2])
               /\ Holds(u, Head(path[t])[1])

\* No claim waits on itself through others: the nestings never deadlock.
NoCycle == ~\E S \in (SUBSET Tasks) \ {{}} : \A t \in S : \E u \in S : Waits(t, u)

\* Whoever the table names for a lock does hold it: a report blames no bystander.
BlameIsTrue == \A l \in DOMAIN table : Holds(table[l], l)

\* NOT true of the code: every lock past its bookkeeping is in the table.
TableTellsHeld ==
  \A t \in Tasks : at[t] = "in" => \A n \in DOMAIN here[t] :
     n < Len(here[t]) \/ here[t][n] \in DOMAIN table
=============================================================================
