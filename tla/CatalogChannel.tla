--------------------------- MODULE CatalogChannel ---------------------------
(***************************************************************************)
(* The model catalog's channel (tabit-app catalog.rs, assemble.rs): two    *)
(* processes boot over one home directory.  A boot decides from the cache  *)
(* whether to check, its refresh task runs under the refresh lock against    *)
(* mirrors that may fail, stall or serve a wrong artifact, the boot waits  *)
(* for it within a budget, then merges what is installed.  A process may   *)
(* die anywhere, and a user may delete or spoil the installed file.        *)
(***************************************************************************)
EXTENDS Naturals, FiniteSets

CONSTANTS Procs, Children, MaxVersion, MaxBoots, MaxSpoils

None == 0
Torn == 100  \* a file that does not parse

\* None also says that nobody holds the lock.
ASSUME CatalogAssumption == None \notin Procs

VARIABLES
  mirror,    \* the version the mirrors' pointer names
  artifact,  \* the installed catalog: a version, None or Torn
  state,     \* the sidecar: [version, fresh] (version None: no readable sidecar)
  holder,    \* who holds the refresh lock
  boot,      \* process -> "down", "waiting", "built"
  refresh,   \* process -> its task: "none", "start", "pointer", "artifact", "stamp", "done"
  found,     \* process -> the version its pointer named
  answer,   \* process -> its task's outcome
  told,      \* process -> the catalog status of its registry: [kind, version]
  merged,    \* process -> the catalog version under its config
  verified,  \* every version whose checksum a task has matched
  boots, spoils

catalogVars == <<mirror, artifact, state, holder, boot, refresh, found, answer, told, merged, verified, boots, spoils>>

NoState == [version |-> None, fresh |-> FALSE]
Parses(file) == file \notin {None, Torn}
Told(kind, version) == [kind |-> kind, version |-> version]

CatalogInit ==
  /\ mirror = 1 /\ artifact = None /\ state = NoState /\ holder = None
  /\ boot = [p \in Procs |-> "down"] /\ refresh = [p \in Procs |-> "none"]
  /\ found = [p \in Procs |-> None] /\ answer = [p \in Procs |-> Told("none", None)]
  /\ told = [p \in Procs |-> Told("none", None)] /\ merged = [p \in Procs |-> None]
  /\ verified = {} /\ boots = 0 /\ spoils = 0

\* cache_fresh: within TTL, not stamped in the future, and the artifact parses.
CacheFresh == IF state.fresh /\ Parses(artifact) THEN state.version ELSE None
\* installed_version.
InstalledVersion == IF Parses(artifact) THEN state.version ELSE None

\* world_scan and catalog_plan: a child never checks, a fresh cache needs no check.
Boot(p) ==
  /\ boot[p] = "down" /\ refresh[p] = "none" /\ boots < MaxBoots /\ boots' = boots + 1
  /\ boot' = [boot EXCEPT ![p] = "waiting"]
  /\ IF p \in Children \/ CacheFresh # None
     THEN /\ told' = [told EXCEPT ![p] = Told("cached", IF p \in Children THEN InstalledVersion ELSE CacheFresh)]
          /\ UNCHANGED refresh
     ELSE /\ told' = [told EXCEPT ![p] = Told("checking", InstalledVersion)]
          /\ refresh' = [refresh EXCEPT ![p] = "start"]
  /\ answer' = [answer EXCEPT ![p] = Told("none", None)]
  /\ UNCHANGED <<mirror, artifact, state, holder, found, merged, verified, spoils>>

\* The task's end: the answer is there and its lock, if it had one, is free.
Ends(p, kind, version) ==
  /\ refresh' = [refresh EXCEPT ![p] = "done"]
  /\ answer' = [answer EXCEPT ![p] = Told(kind, version)]
  /\ holder' = IF holder = p THEN None ELSE holder

\* A held lock waited out of turn.
LockAnyway(p) ==
  /\ refresh[p] = "start"
  /\ IF CacheFresh # None THEN Ends(p, "fresh", CacheFresh)
     ELSE holder' = p /\ refresh' = [refresh EXCEPT ![p] = "pointer"] /\ UNCHANGED answer
  /\ UNCHANGED <<mirror, artifact, state, boot, found, told, merged, verified, boots, spoils>>
\* refresh: the cache again, then the lock or nothing.
Lock(p) ==
  /\ refresh[p] = "start"
  /\ IF CacheFresh # None THEN Ends(p, "fresh", CacheFresh)
     ELSE IF holder # None THEN Ends(p, "offline", None)
     ELSE holder' = p /\ refresh' = [refresh EXCEPT ![p] = "pointer"] /\ UNCHANGED answer
  /\ UNCHANGED <<mirror, artifact, state, boot, found, told, merged, verified, boots, spoils>>

\* fetch_pointer: some mirror's pointer, perhaps an older one; or every mirror failed or stalled.
FetchPointer(p) ==
  /\ refresh[p] = "pointer"
  /\ \/ /\ \E v \in 1..mirror : found' = [found EXCEPT ![p] = v]
        /\ refresh' = [refresh EXCEPT ![p] = "artifact"] /\ UNCHANGED <<answer, holder>>
     \/ Ends(p, "offline", None) /\ UNCHANGED found
  /\ UNCHANGED <<mirror, artifact, state, boot, told, merged, verified, boots, spoils>>

Restamp(v) == \/ state' = [version |-> v, fresh |-> TRUE]
              \/ state' = NoState      \* a torn write
              \/ UNCHANGED state       \* a failed one, its result dropped

\* apply_pointer: the cache is current, only its stamp is renewed.
Current(p) ==
  /\ refresh[p] = "artifact" /\ state.version = found[p] /\ Parses(artifact)
  /\ Restamp(found[p]) /\ Ends(p, "fresh", found[p])
  /\ UNCHANGED <<mirror, artifact, boot, found, told, merged, verified, boots, spoils>>
\* A mirror's artifact matches the pointer's checksum and is renamed into place.
Install(p) ==
  /\ refresh[p] = "artifact" /\ ~(state.version = found[p] /\ Parses(artifact))
  /\ artifact' = found[p] /\ verified' = verified \cup {found[p]}
  /\ refresh' = [refresh EXCEPT ![p] = "stamp"]
  /\ UNCHANGED <<mirror, state, holder, boot, found, answer, told, merged, boots, spoils>>
\* Every mirror's artifact failed, stalled or mismatched, or the install failed.
FetchFails(p) ==
  /\ refresh[p] = "artifact" /\ ~(state.version = found[p] /\ Parses(artifact))
  /\ Ends(p, "offline", None)
  /\ UNCHANGED <<mirror, artifact, state, boot, found, told, merged, verified, boots, spoils>>
Stamp(p) ==
  /\ refresh[p] = "stamp" /\ Restamp(found[p]) /\ Ends(p, "updated", found[p])
  /\ UNCHANGED <<mirror, artifact, boot, found, told, merged, verified, boots, spoils>>

\* build_registry: the answer, or the budget, then the merge of what is installed now.
Built(p, final) ==
  /\ told' = [told EXCEPT ![p] = final]
  /\ merged' = [merged EXCEPT ![p] = IF Parses(artifact) THEN artifact ELSE None]
  /\ boot' = [boot EXCEPT ![p] = "built"]
  /\ UNCHANGED <<mirror, artifact, state, holder, refresh, found, answer, verified, boots, spoils>>
BuildRegistry(p) ==
  /\ boot[p] = "waiting"
  /\ \/ told[p].kind = "cached" /\ Built(p, told[p])
     \/ /\ told[p].kind = "checking" /\ refresh[p] = "done"
        /\ Built(p, IF answer[p].kind = "offline" THEN Told("offline", told[p].version) ELSE answer[p])
BudgetExpires(p) ==
  boot[p] = "waiting" /\ told[p].kind = "checking" /\ refresh[p] # "done" /\ Built(p, Told("pending", None))

\* The process ends or is killed: its task with it, its lock released by the system.
Exit(p) ==
  /\ boot[p] # "down"
  /\ boot' = [boot EXCEPT ![p] = "down"] /\ refresh' = [refresh EXCEPT ![p] = "none"]
  /\ holder' = IF holder = p THEN None ELSE holder
  /\ merged' = [merged EXCEPT ![p] = None] /\ told' = [told EXCEPT ![p] = Told("none", None)]
  /\ UNCHANGED <<mirror, artifact, state, found, answer, verified, boots, spoils>>
Publish == /\ mirror < MaxVersion /\ mirror' = mirror + 1
           /\ UNCHANGED <<artifact, state, holder, boot, refresh, found, answer, told, merged, verified, boots, spoils>>
\* The TTL passes, or the clock is set back behind the stamp.
Expire == /\ state.fresh /\ state' = [state EXCEPT !.fresh = FALSE]
          /\ UNCHANGED <<mirror, artifact, holder, boot, refresh, found, answer, told, merged, verified, boots, spoils>>
Spoil == /\ spoils < MaxSpoils /\ spoils' = spoils + 1
         /\ artifact \notin {None, Torn} /\ artifact' \in {None, Torn}
         /\ UNCHANGED <<mirror, state, holder, boot, refresh, found, answer, told, merged, verified, boots>>

RefreshStep(p) == Lock(p) \/ FetchPointer(p) \/ Current(p) \/ Install(p) \/ FetchFails(p) \/ Stamp(p)
BootStep(p) == BuildRegistry(p) \/ BudgetExpires(p)
CatalogNext == \/ \E p \in Procs : Boot(p) \/ RefreshStep(p) \/ BuildRegistry(p) \/ BudgetExpires(p) \/ Exit(p)
               \/ Publish \/ Expire \/ Spoil
CatalogSpec == /\ CatalogInit /\ [][CatalogNext]_catalogVars
               /\ \A p \in Procs : WF_catalogVars(RefreshStep(p)) /\ WF_catalogVars(BootStep(p))

-----------------------------------------------------------------------------
Refreshing(p) == refresh[p] \in {"pointer", "artifact", "stamp"}

\* One refresher at a time writes the cache, and it is the one that holds the lock.
OneRefresher == \A p \in Procs : Refreshing(p) => holder = p

\* Whatever the mirrors send, a merged catalog is one whose checksum matched.
MergedWasVerified == \A p \in Procs : merged[p] = None \/ merged[p] \in verified

\* A boot that skips the check has a catalog to merge.
SkipsOnlyWithCache == [][\A p \in Procs \ Children :
  told[p].kind # "cached" /\ told'[p].kind = "cached" => Parses(artifact)]_catalogVars

\* A boot is never held up by the network: it builds its registry or ends.
BootsFinish == \A p \in Procs : boot[p] = "waiting" ~> boot[p] # "waiting"
\* A refresh never parks: the lock it holds is released.
LockIsReleased == \A p \in Procs : holder = p ~> holder # p

\* NOT true of the code: the version the sidecar names is the one installed.
StampTellsArtifact == \A p \in Procs : ~Refreshing(p) /\ holder = None /\ Parses(artifact) /\ state.version # None
                                       => state.version = artifact
\* NOT true of the code: the version a status names is the one that is merged.
StatusNamesMerged == \A p \in Procs : boot[p] = "built" /\ told[p].version # None /\ merged[p] # None
                                      => told[p].version = merged[p]
=============================================================================
