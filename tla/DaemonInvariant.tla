---------------------------- MODULE DaemonInvariant ----------------------------
(***************************************************************************)
(* The inductive invariants of Daemon: what holds whatever is killed, and  *)
(* what holds of a job on its way through the engine when nothing is       *)
(* killed and the queue depth does not change.                             *)
(***************************************************************************)
EXTENDS Daemon

-----------------------------------------------------------------------------
(* Whatever is killed. *)

(* A dispatched file is unlinked after the record of its job is written. *)
Recorded == phase \in {"recorded", "written"} => loop.job \in dispatched \cap Finished

(* A daemon that has not booted has no engine and has sent nothing; the one  *)
(* that serves has been spawned, and is not spawned again.                   *)
Unborn(n) == n \in spawned \/ n > starts
DaemonsKnown ==
  /\ \A n \in Daemons : Unborn(n) => engine[n] = NoEngine
  /\ \A n \in spawned : n <= starts
  /\ phase # "down" => daemon \in 1..starts /\ daemon \notin spawned
  /\ phase # "down" /\ Booting =>
       /\ phase \in {"failing", "written", "boot"}
       /\ engine[daemon] = NoEngine /\ loop = [NewLoop EXCEPT !.job = loop.job]
  /\ phase = "boot" => Booting

(* The job that is fed is one; an engine that is at no job has answered the *)
(* last one.                                                                *)
JobFed == phase = "feed" => loop.job \in Jobs
JobKnown(n) ==
  /\ engine[n].step \in {"none", "loading", "read", "reap", "drain"} => engine[n].job = 0
  /\ engine[n].step \in {"select", "full", "ack"} => engine[n].job \in Jobs

(* Only wait-batch waits for a batch. *)
WaitsKnown == \A u \in Users : pc[u] \in {"wait_finished", "wait_service"} => "wait" \in Commands

IInv ==
  /\ TypeOK /\ Recorded /\ DaemonsKnown /\ JobFed
  /\ \A n \in Daemons : JobKnown(n)
  /\ FeedingIsAnswered
  /\ WaitsKnown

-----------------------------------------------------------------------------
(* Without kills. *)

Inputs(n) == {engine[n].input[i] : i \in 1..Len(engine[n].input)}
InPipe(j, n) == <<"enqueue", j>> \in Inputs(n)
Fed(j, n) == InPipe(j, n) \/ engine[n].job = j
PipedOnce(j, n) ==
  \A i, k \in 1..Len(engine[n].input) :
    engine[n].input[i] = <<"enqueue", j>> /\ engine[n].input[k] = <<"enqueue", j>> => i = k

(* The daemon has closed its engine's input, or has none. *)
Closing ==
  loop.ending \/ phase \in {"down", "failing", "written", "boot", "wait", "end", "close", "unlink"}

(* Only the serving daemon has an engine that runs, and it is open until    *)
(* nothing is dispatched.                                                   *)
ServiceKnown ==
  /\ loop.ending => phase \in {"collect", "collecting", "failing", "close", "unlink", "down"}
  /\ Closing => dispatched = {}
  /\ ~Closing => engine[daemon].step \notin {"none", "drain", "exited"} /\ ~engine[daemon].eof
  /\ \A n \in Daemons :
       \/ engine[n].step \in {"none", "exited"}
       \/ n = daemon /\ ~loop.ending
          /\ phase \notin {"down", "failing", "written", "boot", "close", "unlink"}

(* A job is fed once: it is dispatched, and has no result, until the engine *)
(* has answered; no run has been spawned for it before its turn.            *)
FedKnown ==
  \A j \in Jobs, n \in Daemons :
    /\ Fed(j, n) => n = daemon /\ j \in dispatched /\ result[j] = "none"
    /\ InPipe(j, n) => run[j] = "none" /\ engine[n].job # j
    /\ PipedOnce(j, n)
UnfedKnown ==
  /\ phase = "feed" =>
       /\ loop.job \in dispatched /\ run[loop.job] = "none" /\ result[loop.job] = "none"
       /\ \A n \in Daemons : ~Fed(loop.job, n)
  /\ \A j \in Jobs \ (dispatched \cup Finished) : run[j] = "none" /\ result[j] = "none"

(* What the engine knows of its slots when it answers: an enqueue that fails *)
(* without a new slot has spawned no run.                                    *)
SlotsKnown(n) ==
  LET e == engine[n]
  IN /\ \A j \in e.slots : run[j] # "none"
     /\ e.step = "select" => run[e.job] = "none" /\ Cardinality(e.slots) <= e.before
     /\ e.step = "full" => e.job \in e.slots
     /\ e.step \in {"select", "full"} => e.code = 0 /\ (e.before < Depth[e.job] \/ released[n])
     /\ e.step = "ack" /\ e.code # 0 /\ Cardinality(e.slots) = e.before => run[e.job] = "none"
     /\ e.step # "full" => \A j \in Jobs : Cardinality(e.slots) < Depth[j] \/ released[n]

(* A result says how the run has ended, or that it was never spawned. *)
ResultsKnown ==
  /\ \A j \in loop.scanned : result[j] # "none"
  /\ phase \in {"recorded", "unlinked"} => loop.job \in loop.scanned
  /\ \A j \in Jobs : /\ result[j] = "ok" => run[j] = "ok"
                     /\ result[j] = "error" => run[j] \in {"none", "error"}

(* A record says how the run has ended, or that it was never spawned; the   *)
(* job that is being recorded is the only one with two files.               *)
RecordsKnown ==
  /\ \A j \in dispatched \cap Finished : phase = "recorded" /\ loop.job = j
  /\ \A j \in completed : run[j] = "ok"
  /\ \A j \in failed : run[j] \in {"none", "error"}

Tracked ==
  /\ ServiceKnown /\ FedKnown /\ UnfedKnown
  /\ \A n \in Daemons : SlotsKnown(n)
  /\ ResultsKnown /\ RecordsKnown

-----------------------------------------------------------------------------
(* An old status: while the last one shows a drained service, a job is       *)
(* dispatched only in the iteration of the loop that goes on to write the    *)
(* next one.                                                                 *)
DrainKnown ==
  Drained /\ dispatched # {} =>
    \/ phase = "feed" /\ dispatched = {loop.job}
    \/ phase \in {"release", "status", "write"}
================================================================================
