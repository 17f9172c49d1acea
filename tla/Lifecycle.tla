----------------------------- MODULE Lifecycle -----------------------------
(***************************************************************************)
(* What the scheduler promises a process (process.rs, trait Process): it   *)
(* is resumed once when it starts and once per wake-up that fired, at most *)
(* one process runs at a time, and a finished process never runs again.    *)
(* Scheduler.tla implements this specification.                            *)
(***************************************************************************)
CONSTANT Procs

VARIABLE status

Init == status = [p \in Procs |-> "unborn"]

In(s) == {p \in Procs : status[p] = s}

\* Processes are created by add_process, outside any resume.
Create(S) ==
  /\ In("running") = {}
  /\ S \subseteq In("unborn")
  /\ status' = [p \in Procs |-> IF p \in S THEN "ready" ELSE status[p]]

\* resume is called: the wake-up is used up.
Resume(p) ==
  /\ In("running") = {}
  /\ p \in In("ready")
  /\ status' = [status EXCEPT ![p] = "running"]

\* Wake-ups fire, each for a process that was parked.
Wake(S) ==
  /\ S \subseteq In("parked")
  /\ status' = [p \in Procs |-> IF p \in S THEN "ready" ELSE status[p]]

\* resume returns a wait other than Finished; a fork starts the processes S
\* and, for join_none, leaves the parent ready.
Park(p, to, S) ==
  /\ p \in In("running")
  /\ S \subseteq In("unborn")
  /\ status' = [q \in Procs |-> IF q = p THEN to
                                ELSE IF q \in S THEN "ready" ELSE status[q]]

\* resume returns Finished: parents that joined p may become ready.
Finish(p, S) ==
  /\ p \in In("running")
  /\ S \subseteq In("parked")
  /\ status' = [q \in Procs |-> IF q = p THEN "finished"
                                ELSE IF q \in S THEN "ready" ELSE status[q]]

Next ==
  \/ \E S \in SUBSET Procs : Create(S) \/ Wake(S)
  \/ \E p \in Procs : Resume(p)
  \/ \E p \in Procs, to \in {"ready", "parked"}, S \in SUBSET Procs : Park(p, to, S)
  \/ \E p \in Procs, S \in SUBSET Procs : Finish(p, S)

Spec == Init /\ [][Next]_status
=============================================================================
