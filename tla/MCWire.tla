------------------------------- MODULE MCWire -------------------------------
(***************************************************************************)
(* The wire crate, the children it carries and the guest of an extension's *)
(* pipe, side by side: a behaviour runs one of the modules, and leaves the *)
(* others' variables at rest.                                              *)
(***************************************************************************)
EXTENDS WireNode, TLC

CONSTANTS
  l1, l2, n1, n2, n3, n4,  \* lanes and nodes of the instance
  MaxLines,                \* a booting child's lines
  Children, Wedged, Calls, Ids, MaxIdle, MaxAge,  \* a pool
  Invocations, Loads, MaxInbox                    \* a guest

\* Processes, calls and invocations are numbered from 1 or named, beside the numbers and
\* names that say there is none.
ASSUME ChildrenAssumption ==
  /\ Children \subseteq Nat \ {0} /\ MaxIdle \in Nat
  /\ {"none", "user", "abort"} \cap Calls = {} /\ "none" \notin Ids
  /\ Invocations \subseteq Nat \ {0}

VARIABLES
  part,  \* the module this behaviour runs
  child, written, read, reported, crossing, lane, boot, spawner, crossed, folded,
  life, serving, lines, closing, hungup, frames, ending, parked, lastUsed, slot, call, at,
  answer, named, turn, steers, fired,
  load, mode, inbox, asked, pipe, entry, tokens, tripped, task, kid, pending, overheard, gone

bootVars == <<child, written, read, reported, crossing, lane, boot, spawner, crossed, folded>>
poolVars == <<life, serving, lines, closing, hungup, frames, ending, parked, lastUsed, slot, call,
              at, answer, named, turn, steers, fired>>
guestVars == <<load, mode, inbox, asked, pipe, entry, tokens, tripped, task, kid, pending, overheard, gone>>

\* The child watches; it speaks for itself and a grandchild of its own.
MCSpeaks == l1 :> {"child", "grandchild"} @@ l2 :> {"other"} @@ "host" :> {"own"}
MCMaxFrames == l1 :> 2 @@ l2 :> 0 @@ "host" :> 2
Boot == INSTANCE ChildBoot
Pool == INSTANCE SubagentPool WITH
  reaper <- ending, MaxSteers <- 0
Serves(id1, first, id2, second) == <<[id |-> id1, served |-> first], [id |-> id2, served |-> second]>>
MCLoads == {Serves("a", TRUE, "a", FALSE), Serves("a", TRUE, "b", FALSE)}
Guest == INSTANCE ExtGuest WITH heard <- overheard

Both(pairs) == pairs \cup {<<p[2], p[1]>> : p \in pairs}
MCNets == {Both({<<n1, n2>>, <<n2, n3>>, <<n3, n4>>}), Both({<<n1, n2>>, <<n1, n3>>, <<n1, n4>>}),
           Both({<<n1, n2>>, <<n2, n3>>, <<n3, n1>>, <<n3, n4>>})}

Parts == {"node", "hop", "boot", "pool", "guest"}

Init ==
  /\ part \in Parts
  /\ HopInit /\ (part # "hop" => net = CHOOSE n \in Nets : TRUE)
  /\ NodeInit /\ Boot!BootInit /\ Pool!SubInit
  /\ Guest!Init /\ (part # "guest" => mode = "lift" /\ kid = "absent" /\ load = CHOOSE l \in Loads : TRUE)

Only(p) ==
  /\ part = p /\ UNCHANGED part
  /\ p # "node" => UNCHANGED nodeVars
  /\ p # "hop" => UNCHANGED hopVars
  /\ p # "boot" => UNCHANGED bootVars
  /\ p # "pool" => UNCHANGED poolVars
  /\ p # "guest" => UNCHANGED guestVars

Next == \/ Only("node") /\ NodeNext
        \/ Only("hop") /\ HopNext
        \/ Only("boot") /\ Boot!BootNext
        \/ Only("pool") /\ Pool!SubNext
        \/ Only("guest") /\ Guest!GuestNext

\* The modules' own fairness, each in the behaviours that run it.
allVars == <<part, nodeVars, hopVars, bootVars, poolVars, guestVars>>
Fairness ==
  /\ \A l \in Lanes : WF_allVars(Only("node") /\ Reader(l))
  /\ WF_allVars(Only("hop") /\ Forwarding)
  /\ WF_allVars(Only("boot") /\ Boot!Pump) /\ WF_allVars(Only("boot") /\ Boot!Spawner)
  /\ \A k \in Calls : WF_allVars(Only("pool") /\ Pool!Driver(k))
                            /\ WF_allVars(Only("pool") /\ Pool!Aborts(k))
  /\ \A c \in Children : WF_allVars(Only("pool") /\ Pool!Keeper(c))
  /\ \A i \in Invocations : WF_allVars(Only("guest") /\ Guest!Task(i))
Spec == Init /\ [][Next]_allVars /\ Fairness

\* The frontend is handed every frame a channel said once and in order, also what was
\* said just before a death, a watching lane each at most once and its own never; a
\* stream's close is told once, by its dead and swept lane, nothing follows it but a
\* settle its reaper still owed, and what it carried is a miss (router.rs, node.rs laws 1
\* and 4).
FramesReachOnce ==
  /\ NodeTypeOK /\ AllIsHanded /\ HandedOnce /\ NoEcho
  /\ ClosedMeansMissed /\ ClosesOnce /\ ClosedByItsLane /\ LastButTheReapers

\* A child is heard only once it spoke our version and mounted, answers the call that
\* asked, under the id it was given, and neither outlives nor overstays its pool; a guest
\* gives every call one result and closes every card it showed.
ChildrenAreOurs ==
  /\ Boot!MismatchNeverCrosses /\ Boot!ServingIsMounted
  /\ Pool!NoOrphans /\ Pool!OwnAnswer /\ Pool!NamedIdAnswers /\ Pool!NoneOverstays
  /\ Guest!OneResult /\ Guest!CardsArePairs /\ Guest!CardsCrossByMode /\ Guest!DiesOfBreach

\* A dead lane's whole subtree closes, a frame reaches every node of a tree once and in a
\* loop it stops, a spawn ends, a
\* fired call returns, and a guest stops waiting for what was cancelled.
WireSettles ==
  /\ SubtreesClose /\ LoopsEnd /\ []TreesHearOnce
  /\ part = "boot" => Boot!SpawnEnds
  /\ Pool!FiredReturns
  /\ part = "guest" => Guest!GuestSettles
=============================================================================
