------------------------------ MODULE JoinedWorker ------------------------------
(***************************************************************************)
(* What the servers promise of a thread that they start and stop with a    *)
(* pair of flags: there is one at most, the settings it was started with   *)
(* stay as they are while it runs, it ends only after it was told to stop, *)
(* and a stop comes to its end.  How they wait for it is not said here.    *)
(***************************************************************************)
VARIABLES
  phase,      \* "idle", "running", or told to stop but "stopping" still
  settings    \* what the thread reads while it runs

workerVars == <<phase, settings>>

Init == phase = "idle"

(* Without a thread the settings may change, and a thread may be started.  *)
Prepare == phase = "idle" /\ phase' \in {"idle", "running"}

Stop == phase = "running" /\ phase' = "stopping" /\ UNCHANGED settings

End == phase = "stopping" /\ phase' = "idle" /\ UNCHANGED settings

Next == Prepare \/ Stop \/ End

Spec == Init /\ [][Next]_workerVars /\ (phase = "stopping" ~> phase = "idle")
=============================================================================
