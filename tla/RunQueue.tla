------------------------------ MODULE RunQueue ------------------------------
(***************************************************************************)
(* What the training queue promises its clients: a set of jobs is accepted *)
(* as one indivisible step, an accepted job is never withdrawn, it is      *)
(* activated once, oldest first among those accepted, and it finishes; and *)
(* no run name has two unfinished jobs.                                    *)
(***************************************************************************)
EXTENDS Naturals

CONSTANTS JobIds, Runs

VARIABLES queued, active, finished     \* sets of <<job id, run>>

vars == <<queued, active, finished>>

Init == queued = {} /\ active = {} /\ finished = {}

(* Names of the runs with an unfinished job. *)
Busy == {x[2] : x \in queued \cup active}

(* The jobs a step adds are new, of different runs, and none of a busy run. *)
Accept ==
  LET new == queued' \ queued
  IN  /\ new # {} /\ new \subseteq JobIds \X Runs
      /\ queued \subseteq queued'
      /\ \A x \in new : x \notin finished /\ x[2] \notin Busy
      /\ \A x, y \in new : x[1] = y[1] \/ x[2] = y[2] => x = y
      /\ UNCHANGED <<active, finished>>

Activate ==
  \E x \in queued :
    /\ \A y \in queued : x[1] <= y[1]
    /\ queued' = queued \ {x} /\ active' = active \cup {x}
    /\ UNCHANGED finished

(* One job has its result, or several fail together. *)
Finish ==
  /\ active' \subseteq active /\ active' # active
  /\ finished' = finished \cup (active \ active')
  /\ UNCHANGED queued

Next == Accept \/ Activate \/ Finish

Spec == Init /\ [][Next]_vars
=============================================================================
