--------------------------- MODULE MCSessionWorker ---------------------------
(* Instances of SessionWorker: who delivers which commands.                *)
EXTENDS SessionWorker, TLC

Ui == "ui"
Other == "other"
Asks == {"message", "abort", "checkout", "continue", "compact", "replay"}

\* A frontend that also closes the session.
Closing == Ui :> (Asks \cup {"close"})

\* A frontend and the watcher of its death.
Mortal == (Ui :> Asks) @@ (Other :> {"death"})

\* Two threads that submit and abort at once.
TwoThreads == (Ui :> {"message", "checkout"}) @@ (Other :> {"message", "abort"})

\* A thread that only submits, beside the one that closes.
Racing == (Ui :> {"close", "message"}) @@ (Other :> {"message", "compact"})
=============================================================================
