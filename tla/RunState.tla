------------------------------ MODULE RunState ------------------------------
(***************************************************************************)
(* The component that shows a run of service instances (service/instance/  *)
(* run-state): one request starts, stops or restarts them, a timer polls   *)
(* their processes, and the logs of those that succeeded are fetched       *)
(* before their results are shown.  Polls overlap when they are slow.      *)
(***************************************************************************)
EXTENDS Integers, FiniteSets

CONSTANTS
  Instances,  \* instances of the service
  MaxPolls    \* bound: polls that overlap

ASSUME RunAssumption == IsFiniteSet(Instances) /\ MaxPolls \in Nat \ {0}

VARIABLES
  place,  \* the page the run is shown on: the list of instances, a wizard, none of them
  proc,   \* proc[i]: how far the run's process of instance i has come, on its host
  run,    \* the run shown
  polls   \* polls[p]: the poll in slot p

runVars == <<place, proc, run, polls>>

Places == {"none", "list", "addService", "addInstances"}
Kinds == {"none", "start", "stop", "restart", "firstRun"}
Progress == {"going", "good", "bad"}
Slots == 1 .. MaxPolls

\* runStatus is "running" (0), "complete" (1) or "failed" (2).  phase: nothing asked yet,
\* asked, or the processes are known; lost: a request of the run has failed (history).
Run == [kind : Kinds, phase : {"new", "asked", "known"}, of : SUBSET Instances,
        named : SUBSET Instances,        \* those with a process (instanceParam)
        processIds : SUBSET Instances,   \* those still polled
        shown : SUBSET Instances,        \* those with a result
        runStatus : {"running", "complete", "failed"}, timer : BOOLEAN, lost : BOOLEAN]
NoRun == [kind |-> "none", phase |-> "new", of |-> {}, named |-> {}, processIds |-> {},
          shown |-> {}, runStatus |-> "running", timer |-> FALSE, lost |-> FALSE]

\* A poll: it has asked, or it waits for the logs of an instance with the rest of its
\* answer still to look at.
Poll == [at : {"free", "asked", "logs"}, of : SUBSET Instances,
         good : SUBSET Instances, bad : SUBSET Instances]
Free == [at |-> "free", of |-> {}, good |-> {}, bad |-> {}]
NoPolls == [p \in Slots |-> Free]

Over == [i \in Instances |-> "good"]
RunInit == place = "none" /\ proc = Over /\ run = NoRun /\ polls = NoPolls

RunOf(kind, phase, of) == [NoRun EXCEPT !.kind = kind, !.phase = phase, !.of = of]

\* The component is created, or destroyed with its timers: answers that come later find
\* nothing of it.
Show(r) == run' = r /\ polls' = NoPolls /\ proc' = Over

-----------------------------------------------------------------------------
(* The processes, and the request of the run *)

\* The agents report that a process has started or stopped, well or badly.
Finishes(i) ==
  /\ proc[i] = "going"
  /\ proc' \in {[proc EXCEPT ![i] = "good"], [proc EXCEPT ![i] = "bad"]}
  /\ UNCHANGED <<place, run, polls>>

\* The server has begun; a stop names only the instances that have a process, and nothing
\* but a stop is begun for no instance.
checkProcessState(named) ==
  /\ run.phase = "asked"
  /\ named \subseteq run.of /\ (run.kind # "stop" => named = run.of /\ named # {})
  /\ proc' = [i \in Instances |-> IF i \in named THEN "going" ELSE proc[i]]
  /\ run' = [run EXCEPT !.phase = "known", !.named = named, !.processIds = named, !.timer = TRUE]
  /\ UNCHANGED <<place, polls>>

\* It answers without a result.
checkProcessFailState ==
  /\ run.phase = "asked"
  /\ run' = [run EXCEPT !.phase = "known", !.runStatus = "failed"]
  /\ UNCHANGED <<place, proc, polls>>

\* It refuses, as it does when the list the user saw was old; nobody hears of it.
requestFails ==
  /\ run.phase = "asked"
  /\ run' = [run EXCEPT !.phase = "known", !.lost = TRUE]
  /\ UNCHANGED <<place, proc, polls>>

-----------------------------------------------------------------------------
(* Polls *)

\* Every two seconds, whether or not the last poll has been answered.
getProcessRunningStatus(p) ==
  /\ run.timer /\ run.processIds # {}
  /\ polls[p].at = "free"
  /\ polls' = [polls EXCEPT ![p] = [Free EXCEPT !.at = "asked", !.of = run.processIds]]
  /\ UNCHANGED <<place, proc, run>>

\* Mutant: the run is complete as soon as one poll has looked at all of its answer.
Ended_Always(r) == [r EXCEPT !.runStatus = "complete", !.timer = FALSE]

\* The end of a poll: when nothing is left to poll the run is complete.
Ended(r) ==
  IF r.processIds = {} THEN [r EXCEPT !.runStatus = "complete", !.timer = FALSE] ELSE r

\* Mutant: the results of processes whose logs are awaited are shown later, by nobody.
Dropped_Unshown(r, now, next) == [r EXCEPT !.processIds = @ \ (now \cup next)]

\* Those looked at are not polled again; those without logs to wait for are shown.
Dropped(r, now, next) ==
  [r EXCEPT !.processIds = @ \ (now \cup next), !.shown = @ \cup now]

\* The loop goes on over its answer until it meets a process whose logs it waits for.
Continue(p, r, good, bad) ==
  \/ /\ good = {}
     /\ run' = Ended(Dropped(r, bad, {}))
     /\ polls' = [polls EXCEPT ![p] = Free]
  \/ \E now \in SUBSET bad, next \in good :
       /\ run' = Dropped(r, now, {next})
       /\ polls' = [polls EXCEPT ![p] = [at |-> "logs", of |-> {next}, good |-> good \ {next},
                                         bad |-> bad \ now]]

\* The answer says how far the processes have come, or nothing; a stop waits for no logs.
Polled(p) ==
  /\ polls[p].at = "asked"
  /\ LET good == {i \in polls[p].of : proc[i] = "good" /\ run.kind # "stop"}
         bad == {i \in polls[p].of : proc[i] # "going"} \ good
     IN  Continue(p, run, good, bad) \/ Continue(p, run, {}, {})
  /\ UNCHANGED <<place, proc>>

\* Mutant: a poll that has waited for logs does not look whether the run is complete.
tailProcessLogs_Returns(p) ==
  /\ polls[p].at = "logs"
  /\ run' = [run EXCEPT !.shown = @ \cup polls[p].of]
  /\ polls' = [polls EXCEPT ![p] = Free]
  /\ UNCHANGED <<place, proc>>

\* The logs have come: the result is shown.
tailProcessLogs(p) ==
  /\ polls[p].at = "logs"
  /\ Continue(p, [run EXCEPT !.shown = @ \cup polls[p].of], polls[p].good, polls[p].bad)
  /\ UNCHANGED <<place, proc>>

\* A poll or one of its requests for logs fails: the rest of its answer is forgotten.
pollFails(p) ==
  /\ polls[p].at # "free"
  /\ polls' = [polls EXCEPT ![p] = Free]
  /\ run' = [run EXCEPT !.lost = TRUE]
  /\ UNCHANGED <<place, proc>>

RunStep ==
  \/ \E i \in Instances : Finishes(i)
  \/ \E named \in SUBSET run.of : checkProcessState(named)
  \/ checkProcessFailState \/ requestFails
  \/ \E p \in Slots : getProcessRunningStatus(p)
RunAnswer(p) == Polled(p) \/ tailProcessLogs(p) \/ pollFails(p)

RunTypeOK ==
  /\ place \in Places
  /\ proc \in [Instances -> Progress]
  /\ run \in Run
  /\ polls \in [Slots -> Poll]

-----------------------------------------------------------------------------
(* Properties *)

\* "Completed" is shown only when every process of the run has come to its end, however the
\* polls overlapped and whichever of them ended last (run-state.vue:168).
CompleteMeansFinished ==
  run.runStatus = "complete" => \A i \in run.named : proc[i] # "going"

\* Every process of a completed run shows its result, or a poll still waits for its logs,
\* or a request of the run has failed (run-state.vue:146-163).
CompleteShowsResults ==
  run.runStatus = "complete" =>
    \/ run.lost
    \/ \A i \in run.named \ run.shown :
         \E p \in Slots : polls[p].at = "logs" /\ i \in polls[p].of \cup polls[p].good \cup polls[p].bad

\* A run turns for ever with nothing left to poll only when one of its requests has failed
\* or when there was no process to wait for (run-state.vue:113).
RunsOnOnlyAfterFailure ==
  /\ run.kind # "none" /\ run.phase = "known" /\ run.runStatus = "running"
  /\ run.processIds = {}
  /\ \A p \in Slots : polls[p].at = "free"
  => run.lost \/ run.named = {}
=============================================================================
