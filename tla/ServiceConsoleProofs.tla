------------------------ MODULE ServiceConsoleProofs ------------------------
(***************************************************************************)
(* What the pages that run service instances show of a run, for any        *)
(* instances and any number of overlapping polls.                          *)
(***************************************************************************)
EXTENDS ServiceConsole, TLAPS

USE RunAssumption, ListAssumption, WizardAssumption

-----------------------------------------------------------------------------
(* Types *)

LEMMA NoRunTypes ==
  /\ NoRun \in Run /\ NoPolls \in [Slots -> Poll] /\ Over \in [Instances -> Progress]
  /\ Free \in Poll
BY DEF NoRun, Run, NoPolls, Poll, Free, Over, Progress, Kinds

LEMMA RunOfTypes ==
  ASSUME NEW kind \in Kinds, NEW phase \in {"new", "asked", "known"}, NEW of \in SUBSET Instances
  PROVE  /\ RunOf(kind, phase, of) \in Run
         /\ RunOf(kind, phase, of) = [NoRun EXCEPT !.kind = kind, !.phase = phase, !.of = of]
BY DEF RunOf, NoRun, Run

\* What the fields of a run at its beginning are.
LEMMA RunOfFields ==
  ASSUME NEW kind, NEW phase, NEW of
  PROVE  LET r == RunOf(kind, phase, of)
         IN  /\ r.kind = kind /\ r.phase = phase /\ r.of = of
             /\ r.named = {} /\ r.processIds = {} /\ r.shown = {}
             /\ r.runStatus = "running" /\ ~r.timer /\ ~r.lost
BY DEF RunOf, NoRun

-----------------------------------------------------------------------------
(* The run that is shown *)

\* Before the server has answered there is nothing to poll and nothing to show.
Unbegun ==
  run.phase # "known" =>
    /\ polls = NoPolls /\ ~run.timer /\ run.runStatus = "running"
    /\ run.named = {} /\ run.processIds = {}

\* What is not polled any more has come to its end, and so has what a poll that waits for
\* logs still has to look at.
LookedAt == \A i \in run.named \ run.processIds : proc[i] # "going"
AwaitedAt(poll) == poll.at = "logs" => \A i \in poll.of \cup poll.good \cup poll.bad : proc[i] # "going"
Awaited == \A p \in Slots : AwaitedAt(polls[p])
CompleteIsEmpty == run.runStatus = "complete" => run.processIds = {}

\* What is neither polled nor shown is in the hands of a poll that waits for logs.
Holds(poll, i) == poll.at = "logs" /\ i \in poll.of \cup poll.good \cup poll.bad
ResultsHeld ==
  run.lost \/ \A i \in run.named \ (run.shown \cup run.processIds) :
                 \E p \in Slots : Holds(polls[p], i)

\* Somebody will look whether the run is complete.
Watched ==
  run.phase = "known" /\ run.runStatus = "running" /\ run.processIds = {} =>
    run.lost \/ run.named = {} \/ \E p \in Slots : polls[p].at # "free"

RunInv ==
  /\ RunTypeOK
  /\ Unbegun /\ LookedAt /\ Awaited /\ CompleteIsEmpty /\ ResultsHeld /\ Watched

LEMMA RunBegins == RunInit => RunInv
<1> SUFFICES ASSUME RunInit PROVE RunInv
  OBVIOUS
<1>1. RunTypeOK
  BY NoRunTypes DEF RunInit, RunTypeOK, Places
<1>2. Unbegun /\ LookedAt /\ Awaited /\ CompleteIsEmpty /\ ResultsHeld /\ Watched
  BY DEF RunInit, Unbegun, LookedAt, Awaited, AwaitedAt, CompleteIsEmpty, ResultsHeld, Watched,
         NoRun, NoPolls, Free
<1> QED BY <1>1, <1>2 DEF RunInv

\* A component of a run is created or destroyed.
LEMMA ShowKeeps ==
  ASSUME NEW r \in Run, r.phase # "known", r.named = {}, r.processIds = {},
         r.runStatus = "running", ~r.timer, Show(r), place' \in Places
  PROVE  RunInv'
<1>1. RunTypeOK'
  BY NoRunTypes DEF Show, RunTypeOK
<1>2. (Unbegun /\ LookedAt /\ Awaited /\ CompleteIsEmpty /\ ResultsHeld /\ Watched)'
  BY DEF Show, Unbegun, LookedAt, Awaited, AwaitedAt, CompleteIsEmpty, ResultsHeld, Watched, NoPolls,
         Free
<1> QED BY <1>1, <1>2 DEF RunInv

\* The end of a poll, or the next process whose logs it waits for: r is the run with what
\* the logs that have just come have shown.
LEMMA ContinueKeeps ==
  ASSUME RunInv, NEW p \in Slots, polls[p].at # "free",
         NEW more \in SUBSET Instances, NEW r \in Run,
         r = [run EXCEPT !.shown = @ \cup more],
         polls[p].at = "logs" => more = polls[p].of,
         NEW good \in SUBSET Instances, NEW bad \in SUBSET Instances,
         \A i \in good \cup bad : proc[i] # "going",
         polls[p].at = "logs" => polls[p].good \subseteq good /\ polls[p].bad \subseteq bad,
         Continue(p, r, good, bad), UNCHANGED <<place, proc>>
  PROVE  RunInv'
<1> USE DEF RunInv, RunTypeOK, Poll
<1>1. /\ r.processIds = run.processIds /\ r.shown = run.shown \cup more /\ r.named = run.named
      /\ r.phase = run.phase /\ r.runStatus = run.runStatus /\ r.timer = run.timer
      /\ r.lost = run.lost
  BY DEF Run
<1>2. run.phase = "known"
  BY DEF Unbegun, NoPolls, Free
<1>3. ASSUME NEW now \in SUBSET bad, NEW next \in good,
             run' = Dropped(r, now, {next}),
             polls' = [polls EXCEPT ![p] = [at |-> "logs", of |-> {next},
                                            good |-> good \ {next}, bad |-> bad \ now]]
      PROVE  RunInv'
  <2>1. /\ run' \in Run
        /\ run'.processIds = r.processIds \ (now \cup {next})
        /\ run'.shown = r.shown \cup now
        /\ run'.phase = r.phase /\ run'.named = r.named /\ run'.runStatus = r.runStatus
        /\ run'.timer = r.timer /\ run'.lost = r.lost
    <3>1. now \in SUBSET Instances /\ {next} \in SUBSET Instances
      OBVIOUS
    <3> QED BY <1>3, <3>1 DEF Dropped, Run
  <2>2. /\ polls' \in [Slots -> Poll]
        /\ polls'[p].at = "logs" /\ polls'[p].of = {next} /\ polls'[p].good = good \ {next}
        /\ polls'[p].bad = bad \ now
        /\ \A q \in Slots : q # p => polls'[q] = polls[q]
    BY <1>3
  <2>3. RunTypeOK' /\ Unbegun'
    BY <1>1, <1>2, <2>1, <2>2 DEF Unbegun
  <2>4. LookedAt' /\ Awaited' /\ CompleteIsEmpty'
    BY <1>1, <2>1, <2>2 DEF LookedAt, Awaited, AwaitedAt, CompleteIsEmpty
  <2>5. ResultsHeld'
    <3>1. SUFFICES ASSUME ~run'.lost, NEW i \in run'.named \ (run'.shown \cup run'.processIds)
                   PROVE  \E q \in Slots : Holds(polls'[q], i)
      BY DEF ResultsHeld, Holds
    <3>2. CASE i \in now \cup {next}
      BY <3>1, <3>2, <2>1, <2>2 DEF Holds
    <3>3. CASE i \notin now \cup {next}
      <4>1. PICK q \in Slots : Holds(polls[q], i)
        BY <3>1, <3>3, <1>1, <2>1 DEF ResultsHeld
      <4> QED BY <4>1, <3>1, <3>3, <1>1, <2>1, <2>2 DEF Holds
    <3> QED BY <3>2, <3>3
  <2>6. Watched'
    BY <2>2 DEF Watched
  <2> QED BY <2>3, <2>4, <2>5, <2>6
<1>4. ASSUME good = {}, run' = Ended(Dropped(r, bad, {})),
             polls' = [polls EXCEPT ![p] = Free]
      PROVE  RunInv'
  <2> DEFINE d == Dropped(r, bad, {})
  <2>1. /\ d \in Run
        /\ d.processIds = r.processIds \ bad /\ d.shown = r.shown \cup bad
        /\ d.phase = r.phase /\ d.named = r.named /\ d.runStatus = r.runStatus
        /\ d.timer = r.timer /\ d.lost = r.lost
    <3>1. {} \in SUBSET Instances
      OBVIOUS
    <3> QED BY <3>1 DEF Dropped, Run
  <2> HIDE DEF d
  <2>2. /\ run' \in Run
        /\ run'.processIds = r.processIds \ bad
        /\ run'.shown = r.shown \cup bad
        /\ run'.phase = r.phase /\ run'.named = r.named /\ run'.lost = r.lost
        /\ run'.processIds = {} => run'.runStatus = "complete"
        /\ run'.processIds # {} => run'.runStatus = r.runStatus
    BY <1>4, <2>1 DEF d, Ended, Run
  <2>3. /\ polls' \in [Slots -> Poll] /\ polls'[p] = Free
        /\ \A q \in Slots : q # p => polls'[q] = polls[q]
    BY <1>4, NoRunTypes
  <2>4. RunTypeOK' /\ Unbegun'
    BY <1>1, <1>2, <2>2, <2>3 DEF Unbegun
  <2>5. LookedAt' /\ Awaited' /\ CompleteIsEmpty'
    BY <1>1, <2>2, <2>3 DEF LookedAt, Awaited, AwaitedAt, CompleteIsEmpty, Free
  <2>6. ResultsHeld'
    <3>1. SUFFICES ASSUME ~run'.lost, NEW i \in run'.named \ (run'.shown \cup run'.processIds)
                   PROVE  \E q \in Slots : Holds(polls'[q], i)
      BY DEF ResultsHeld, Holds
    <3>2. PICK q \in Slots : Holds(polls[q], i)
      BY <3>1, <1>1, <2>2 DEF ResultsHeld
    <3> QED BY <1>4, <3>1, <3>2, <1>1, <2>2, <2>3 DEF Holds
  <2>7. Watched'
    BY <2>2 DEF Watched
  <2> QED BY <2>4, <2>5, <2>6, <2>7
<1> QED BY <1>3, <1>4 DEF Continue

LEMMA StepsKeep ==
  ASSUME RunInv, RunStep
  PROVE  RunInv'
<1> USE DEF RunInv, RunTypeOK
<1>1. ASSUME NEW i \in Instances, Finishes(i)
      PROVE  RunInv'
  <2>1. /\ proc' \in [Instances -> Progress] /\ UNCHANGED <<place, run, polls>>
        /\ \A j \in Instances : proc[j] # "going" => proc'[j] # "going"
    BY <1>1 DEF Finishes, Progress
  <2>2. LookedAt' /\ Awaited'
    BY <2>1 DEF LookedAt, Awaited, AwaitedAt, Run, Poll
  <2>3. (Unbegun /\ CompleteIsEmpty /\ ResultsHeld /\ Watched)'
    BY <2>1 DEF Unbegun, CompleteIsEmpty, ResultsHeld, Watched, Holds
  <2> QED BY <2>1, <2>2, <2>3
<1>2. ASSUME NEW named \in SUBSET run.of, checkProcessState(named)
      PROVE  RunInv'
  <2>1. /\ run' \in Run /\ run.phase = "asked" /\ polls' = NoPolls /\ UNCHANGED place
        /\ run'.phase = "known" /\ run'.named = named /\ run'.processIds = named
        /\ run'.runStatus = "running"
    BY <1>2 DEF checkProcessState, Run, Unbegun
  <2>2. RunTypeOK'
    BY <1>2, <2>1, NoRunTypes DEF checkProcessState, Progress
  <2>3. (Unbegun /\ LookedAt /\ Awaited /\ CompleteIsEmpty /\ ResultsHeld /\ Watched)'
    BY <2>1 DEF Unbegun, LookedAt, Awaited, AwaitedAt, CompleteIsEmpty, ResultsHeld, Watched,
                NoPolls, Free
  <2> QED BY <2>2, <2>3
<1>3. CASE checkProcessFailState \/ requestFails
  <2>1. /\ run' \in Run /\ polls' = NoPolls /\ UNCHANGED <<place, proc, polls>>
        /\ run'.phase = "known" /\ run'.named = {} /\ run'.processIds = {}
        /\ run'.runStatus # "complete"
    BY <1>3 DEF checkProcessFailState, requestFails, Run, Unbegun
  <2>2. (Unbegun /\ LookedAt /\ Awaited /\ CompleteIsEmpty /\ ResultsHeld /\ Watched)'
    BY <2>1 DEF Unbegun, LookedAt, Awaited, AwaitedAt, CompleteIsEmpty, ResultsHeld, Watched,
                NoPolls, Free
  <2> QED BY <2>1, <2>2
<1>4. ASSUME NEW p \in Slots, getProcessRunningStatus(p)
      PROVE  RunInv'
  <2>1. /\ polls' \in [Slots -> Poll] /\ UNCHANGED <<place, proc, run>>
        /\ polls[p].at = "free" /\ polls'[p].at = "asked"
        /\ \A q \in Slots : q # p => polls'[q] = polls[q]
    BY <1>4 DEF getProcessRunningStatus, Poll, Free, Run
  <2>2. Unbegun'
    BY <1>4, <2>1 DEF getProcessRunningStatus, Unbegun
  <2>3. (LookedAt /\ Awaited /\ CompleteIsEmpty /\ Watched)'
    BY <2>1 DEF LookedAt, Awaited, AwaitedAt, CompleteIsEmpty, Watched
  <2>4. ResultsHeld'
    BY <2>1 DEF ResultsHeld, Holds
  <2> QED BY <2>1, <2>2, <2>3, <2>4
<1> QED BY <1>1, <1>2, <1>3, <1>4 DEF RunStep

LEMMA AnswersKeep ==
  ASSUME RunInv, NEW p \in Slots, RunAnswer(p)
  PROVE  RunInv'
<1> USE DEF RunInv, RunTypeOK
<1>1. CASE Polled(p)
  <2> DEFINE good == {i \in polls[p].of : proc[i] = "good" /\ run.kind # "stop"}
             bad == {i \in polls[p].of : proc[i] # "going"} \ good
  <2>1. /\ good \in SUBSET Instances /\ bad \in SUBSET Instances
        /\ \A i \in good \cup bad : proc[i] # "going"
    BY DEF Poll
  <2>2. Continue(p, run, good, bad) \/ Continue(p, run, {}, {})
    BY <1>1 DEF Polled
  <2>3. polls[p].at = "asked" /\ UNCHANGED <<place, proc>>
    BY <1>1 DEF Polled
  <2>4. run = [run EXCEPT !.shown = @ \cup {}] /\ run \in Run
    BY DEF Run
  <2> HIDE DEF good, bad
  <2>5. {} \in SUBSET Instances /\ \A i \in {} \cup {} : proc[i] # "going"
    OBVIOUS
  <2> QED BY <2>1, <2>2, <2>3, <2>4, <2>5, ContinueKeeps
<1>2. CASE tailProcessLogs(p)
  <2> DEFINE r == [run EXCEPT !.shown = @ \cup polls[p].of]
  <2>1. polls[p].at = "logs" /\ UNCHANGED <<place, proc>> /\ Continue(p, r, polls[p].good, polls[p].bad)
    BY <1>2 DEF tailProcessLogs
  <2>2. /\ polls[p].of \in SUBSET Instances /\ polls[p].good \in SUBSET Instances
        /\ polls[p].bad \in SUBSET Instances /\ r \in Run
    BY DEF Poll, Run
  <2>3. \A i \in polls[p].good \cup polls[p].bad : proc[i] # "going"
    BY <2>1 DEF Awaited, AwaitedAt
  <2> QED BY <2>1, <2>2, <2>3, ContinueKeeps
<1>3. CASE pollFails(p)
  <2>1. /\ run' \in Run /\ run'.lost /\ run'.phase = run.phase /\ run'.named = run.named
        /\ run'.processIds = run.processIds /\ run'.runStatus = run.runStatus
        /\ polls' \in [Slots -> Poll] /\ polls'[p] = Free /\ UNCHANGED <<place, proc>>
        /\ \A q \in Slots : q # p => polls'[q] = polls[q]
    BY <1>3, NoRunTypes DEF pollFails, Run
  <2>2. run.phase = "known"
    BY <1>3 DEF pollFails, Unbegun, NoPolls, Free
  <2>3. (Unbegun /\ LookedAt /\ Awaited /\ CompleteIsEmpty /\ ResultsHeld /\ Watched)'
    BY <2>1, <2>2 DEF Unbegun, LookedAt, Awaited, AwaitedAt, CompleteIsEmpty, ResultsHeld,
                      Watched, Free
  <2> QED BY <2>1, <2>3
<1> QED BY <1>1, <1>2, <1>3 DEF RunAnswer

-----------------------------------------------------------------------------
(* The pages around it *)

\* What is added is awaited before anything is started, on a wizard's page.
AddsBeforeRun == adding => place \in Wizards /\ run.phase = "new"

\* The button of the last tab waits for the run.
NextWaits == AtTab("run") => nextDisable \/ run.runStatus = "complete"

\* As long as no answer moved the tabs, the tab that has added the service is not left.
AddedOnLastTab == late \/ added = 0 \/ (added = 1 /\ activeTabName = "run")

PagesInv == AddsBeforeRun /\ NextWaits /\ AddedOnLastTab
ConsoleInv == RunInv /\ ListTypeOK /\ WizardTypeOK /\ PagesInv

LEMMA ConsoleBegins == ConsoleInit => ConsoleInv
<1> SUFFICES ASSUME ConsoleInit PROVE ConsoleInv
  OBVIOUS
<1>1. RunInv
  BY RunBegins DEF ConsoleInit
<1>2. ListTypeOK
  <2>1. masked \in BOOLEAN /\ compared \in BOOLEAN
    BY DEF ConsoleInit, ListInit
  <2>2. /\ rows = [i \in Instances |-> "STOP"] /\ selected = {} /\ instanceIds = {}
        /\ loads = 0 /\ deletions = 0 /\ confirming = "none"
    BY DEF ConsoleInit, ListInit
  <2>3. 0 \in 0 .. MaxLoads
    OBVIOUS
  <2> QED BY <2>1, <2>2, <2>3 DEF ListTypeOK, Status, Asking
<1>3. WizardTypeOK
  <2>1. nextDisable \in BOOLEAN /\ adding \in BOOLEAN /\ late \in BOOLEAN
    BY DEF ConsoleInit, WizardInit
  <2>2. /\ activeTabName = "option" /\ created = {} /\ checks = 0 /\ instanceList = {}
        /\ added = 0
    BY DEF ConsoleInit, WizardInit
  <2>3. 0 \in 0 .. MaxChecks /\ 0 \in 0 .. 2
    OBVIOUS
  <2> QED BY <2>1, <2>2, <2>3 DEF WizardTypeOK, Tabs
<1>4. PagesInv
  <2>1. ~adding /\ added = 0 /\ activeTabName = "option"
    BY DEF ConsoleInit, WizardInit
  <2> QED BY <2>1 DEF PagesInv, AddsBeforeRun, NextWaits, AtTab, AddedOnLastTab
<1> QED BY <1>1, <1>2, <1>3, <1>4 DEF ConsoleInv

\* A run that begins in a component of its own.
LEMMA NewRuns ==
  ASSUME NEW kind \in Kinds, NEW phase \in {"new", "asked"}, NEW of \in SUBSET Instances,
         Show(RunOf(kind, phase, of)), place' \in Places
  PROVE  RunInv' /\ run'.phase = phase /\ run'.runStatus = "running"
<1>1. /\ RunOf(kind, phase, of) \in Run
      /\ RunOf(kind, phase, of).phase = phase
      /\ RunOf(kind, phase, of).named = {} /\ RunOf(kind, phase, of).processIds = {}
      /\ RunOf(kind, phase, of).runStatus = "running" /\ ~RunOf(kind, phase, of).timer
  BY RunOfTypes DEF RunOf, NoRun
<1> QED BY <1>1, ShowKeeps DEF Show

LEMMA NoRuns ==
  ASSUME Show(NoRun), place' \in Places
  PROVE  RunInv' /\ run'.phase = "new" /\ run'.runStatus = "running"
BY NoRunTypes, ShowKeeps DEF Show, NoRun

LEMMA MountedKeeps ==
  ASSUME ConsoleInv, NEW p \in Places, Mounted(p)
  PROVE  ConsoleInv'
<1>1. RunInv'
  BY NoRuns DEF Mounted
<1>2. ListTypeOK'
  <2>1. masked' \in BOOLEAN /\ compared' \in BOOLEAN
    BY DEF Mounted
  <2>2. /\ rows' = [i \in Instances |-> "STOP"] /\ selected' = {} /\ instanceIds' = {}
        /\ loads' \in {0, 1} /\ deletions' = 0 /\ confirming' = "none"
    BY DEF Mounted
  <2>3. 0 \in 0 .. MaxLoads /\ 1 \in 0 .. MaxLoads
    OBVIOUS
  <2> QED BY <2>1, <2>2, <2>3 DEF ListTypeOK, Status, Asking
<1>3. WizardTypeOK'
  <2>1. nextDisable' \in BOOLEAN /\ adding' \in BOOLEAN /\ late' \in BOOLEAN
    BY DEF Mounted
  <2>2. /\ activeTabName' \in {"option", "instance"} /\ created' \in {{}, {"instance"}}
        /\ checks' = 0 /\ instanceList' = {} /\ added' = 0
    BY DEF Mounted
  <2>3. 0 \in 0 .. MaxChecks /\ 0 \in 0 .. 2
    OBVIOUS
  <2> QED BY <2>1, <2>2, <2>3 DEF WizardTypeOK, Tabs
<1>4. PagesInv'
  <2>1. ~adding' /\ added' = 0 /\ activeTabName' # "run"
    BY DEF Mounted
  <2> QED BY <2>1 DEF PagesInv, AddsBeforeRun, NextWaits, AtTab, AddedOnLastTab
<1> QED BY <1>1, <1>2, <1>3, <1>4 DEF ConsoleInv

LEMMA RunStepKeeps ==
  ASSUME ConsoleInv, RunStep, UNCHANGED <<listVars, wizardVars>>
  PROVE  ConsoleInv'
<1>1. RunInv'
  BY StepsKeep DEF ConsoleInv
<1>2. ListTypeOK' /\ WizardTypeOK' /\ AddedOnLastTab'
  BY DEF ConsoleInv, PagesInv, ListTypeOK, WizardTypeOK, AddedOnLastTab, listVars, wizardVars
<1>3. UNCHANGED place /\ (run.phase = "new" => UNCHANGED run)
  BY DEF RunStep, Finishes, checkProcessState, checkProcessFailState, requestFails,
         getProcessRunningStatus, ConsoleInv, RunInv, Unbegun
<1>4. run.runStatus = "complete" => run'.runStatus = "complete"
  <2>1. run.runStatus = "complete" => run.phase = "known"
    BY DEF ConsoleInv, RunInv, Unbegun
  <2> QED BY <2>1 DEF RunStep, Finishes, checkProcessState, checkProcessFailState, requestFails,
                      getProcessRunningStatus
<1>5. AddsBeforeRun' /\ NextWaits'
  BY <1>3, <1>4 DEF ConsoleInv, PagesInv, AddsBeforeRun, NextWaits, AtTab, InWizard, wizardVars
<1> QED BY <1>1, <1>2, <1>5 DEF ConsoleInv, PagesInv

LEMMA PollingKeeps ==
  ASSUME ConsoleInv, NEW p \in Slots, Polling(p)
  PROVE  ConsoleInv'
<1>1. RunAnswer(p)
  BY DEF Polling, RunAnswer
<1>2. RunInv'
  BY <1>1, AnswersKeep DEF ConsoleInv
<1>3. ListTypeOK' /\ WizardTypeOK' /\ AddedOnLastTab'
  BY DEF ConsoleInv, PagesInv, ListTypeOK, WizardTypeOK, AddedOnLastTab, listVars, wizardVars,
         Polling, runComplete
<1>4. UNCHANGED <<place, activeTabName, adding>>
  BY DEF Polling, Polled, tailProcessLogs, pollFails, wizardVars
<1>5. run.phase = "known"
  BY <1>1 DEF RunAnswer, Polled, tailProcessLogs, pollFails, ConsoleInv, RunInv, Unbegun, NoPolls,
              Free
<1>6. AddsBeforeRun'
  BY <1>4, <1>5 DEF ConsoleInv, PagesInv, AddsBeforeRun
<1>7. CASE pollFails(p) /\ UNCHANGED wizardVars
  <2>1. run'.runStatus = run.runStatus
    BY <1>7 DEF pollFails, ConsoleInv, RunInv, RunTypeOK, Run
  <2> QED BY <1>2, <1>3, <1>4, <1>6, <1>7, <2>1
          DEF ConsoleInv, PagesInv, NextWaits, AtTab, InWizard, wizardVars
<1>8. CASE (Polled(p) \/ tailProcessLogs(p)) /\ runComplete(p)
  <2>1. PICK r, good, bad : /\ r \in Run
                           /\ Continue(p, r, good, bad) /\ r.runStatus = run.runStatus
    <3>1. CASE Polled(p)
      BY <3>1 DEF Polled, ConsoleInv, RunInv, RunTypeOK
    <3>2. CASE tailProcessLogs(p)
      <4>1. /\ [run EXCEPT !.shown = @ \cup polls[p].of] \in Run
            /\ [run EXCEPT !.shown = @ \cup polls[p].of].runStatus = run.runStatus
        BY DEF ConsoleInv, RunInv, RunTypeOK, Run, Poll
      <4> QED BY <3>2, <4>1 DEF tailProcessLogs
    <3> QED BY <1>8, <3>1, <3>2
  <2>2. /\ run.runStatus = "complete" => run'.runStatus = "complete"
        /\ polls'[p].at = "free" /\ run'.processIds = {} => run'.runStatus = "complete"
    <3>1. polls \in [Slots -> Poll]
      BY DEF ConsoleInv, RunInv, RunTypeOK
    <3>2. CASE run' = Ended(Dropped(r, bad, {}))
      BY <2>1, <3>2 DEF Ended, Dropped, Run
    <3>3. ASSUME NEW now, NEW next, run' = Dropped(r, now, {next}), polls'[p].at = "logs"
          PROVE  run'.runStatus = run.runStatus
      BY <2>1, <3>3 DEF Dropped, Run
    <3>4. CASE \E now \in SUBSET bad, next \in good :
                 /\ run' = Dropped(r, now, {next})
                 /\ polls' = [polls EXCEPT ![p] = [at |-> "logs", of |-> {next},
                                                  good |-> good \ {next}, bad |-> bad \ now]]
      <4>1. PICK now \in SUBSET bad, next \in good :
              /\ run' = Dropped(r, now, {next})
              /\ polls' = [polls EXCEPT ![p] = [at |-> "logs", of |-> {next},
                                               good |-> good \ {next}, bad |-> bad \ now]]
        BY <3>4
      <4>2. polls'[p].at = "logs"
        BY <3>1, <4>1
      <4> QED BY <3>3, <4>1, <4>2
    <3> QED BY <2>1, <3>2, <3>4 DEF Continue
  <2>3. NextWaits'
    <3>1. SUFFICES ASSUME AtTab("run")', ~nextDisable' PROVE run'.runStatus = "complete"
      BY DEF NextWaits
    <3>2. CASE polls'[p].at = "free" /\ run'.processIds = {}
      BY <2>2, <3>2
    <3>3. CASE ~(polls'[p].at = "free" /\ run'.processIds = {})
      <4>1. nextDisable' = nextDisable
        BY <1>8, <3>3 DEF runComplete
      <4>2. ~nextDisable /\ AtTab("run")
        BY <1>4, <3>1, <4>1 DEF AtTab, InWizard
      <4> QED BY <2>2, <4>2 DEF ConsoleInv, PagesInv, NextWaits
    <3> QED BY <3>2, <3>3
  <2> QED BY <1>2, <1>3, <1>6, <2>3 DEF ConsoleInv, PagesInv
<1> QED BY <1>7, <1>8 DEF Polling

LEMMA RunUnchanged ==
  ASSUME RunInv, UNCHANGED runVars
  PROVE  RunInv'
BY DEF RunInv, runVars, RunTypeOK, Unbegun, LookedAt, Awaited, AwaitedAt, CompleteIsEmpty,
       ResultsHeld, Holds, Watched

\* No operation of the list is under way while a wizard adds something.
LEMMA ListStepKeeps ==
  ASSUME ConsoleInv, ListStep, UNCHANGED wizardVars
  PROVE  ConsoleInv'
<1> USE DEF ConsoleInv
<1>1. place = "list" /\ place' = "list"
  BY DEF ListStep, OnList, ListFree, InDialog, listLoaded, listFails, selectInstances,
         handleOperation, notConfirmed, confirmed, deleteConfirmed, instancesDeleted,
         deletionFails, loadServiceProperty, confirmRestart, closeOperation, runVars
<1>2. RunInv' /\ (UNCHANGED runVars \/ run'.runStatus = "running")
  <2>1. CASE confirmed
    <3>1. CASE confirming = "restart"
      BY <1>1, <2>1, <3>1, NewRuns DEF confirmed, Places, Kinds
    <3>2. CASE confirming # "restart"
      BY <1>1, <2>1, <3>2, NewRuns DEF confirmed, Places, Kinds, Operations, ListTypeOK
    <3> QED BY <3>1, <3>2
  <2>2. CASE confirmRestart
    <3>1. (IF compared THEN instanceIds ELSE {}) \in SUBSET Instances
      BY DEF ListTypeOK
    <3> QED BY <1>1, <2>2, <3>1, NewRuns DEF confirmRestart, Places, Kinds
  <2>3. CASE closeOperation
    BY <1>1, <2>3, NoRuns DEF closeOperation, Places
  <2>4. CASE UNCHANGED runVars
    BY <2>4, RunUnchanged
  <2> QED
    BY <2>1, <2>2, <2>3, <2>4
       DEF ListStep, listLoaded, listFails, selectInstances, handleOperation, notConfirmed,
           deleteConfirmed, instancesDeleted, deletionFails, loadServiceProperty
<1>3. PagesInv'
  BY <1>1 DEF PagesInv, AddsBeforeRun, Wizards, NextWaits, AtTab, InWizard, AddedOnLastTab,
              wizardVars
<1>4. WizardTypeOK'
  BY DEF WizardTypeOK, wizardVars
<1>5. ListTypeOK'
  <2> USE DEF ListTypeOK
  <2>1. CASE listLoaded
    <3>1. masked' \in BOOLEAN /\ UNCHANGED compared
      BY <2>1 DEF listLoaded
    <3>2. /\ rows' \in [Instances -> Status] /\ selected' = {} /\ loads > 0 /\ loads' = loads - 1
          /\ UNCHANGED <<deletions, confirming, instanceIds>>
      BY <2>1 DEF listLoaded
    <3>3. loads' \in 0 .. MaxLoads
      BY <3>2
    <3> QED BY <3>1, <3>2, <3>3
  <2>2. CASE listFails
    BY <2>2 DEF listFails
  <2>3. ASSUME NEW is \in SUBSET Instances, selectInstances(is)
        PROVE  ListTypeOK'
    BY <2>3 DEF selectInstances
  <2>4. ASSUME NEW op \in Asking, handleOperation(op)
        PROVE  ListTypeOK'
    BY <2>4 DEF handleOperation
  <2>5. CASE notConfirmed \/ confirmed
    BY <2>5 DEF notConfirmed, confirmed, Asking
  <2>6. CASE deleteConfirmed
    BY <2>6 DEF deleteConfirmed, Asking
  <2>7. CASE instancesDeleted
    BY <2>7 DEF instancesDeleted
  <2>8. CASE deletionFails
    BY <2>8 DEF deletionFails
  <2>9. CASE loadServiceProperty \/ confirmRestart
    BY <2>9 DEF loadServiceProperty, confirmRestart, listVars
  <2>10. CASE closeOperation
    BY <2>10 DEF closeOperation
  <2> QED BY <2>1, <2>2, <2>3, <2>4, <2>5, <2>6, <2>7, <2>8, <2>9, <2>10 DEF ListStep
<1> QED BY <1>2, <1>3, <1>4, <1>5

\* What was added is started, or its run ends before it has begun.
LEMMA ServiceAddedKeeps ==
  ASSUME RunInv, run.phase = "new", UNCHANGED <<place, proc, polls>>,
         run' \in {[run EXCEPT !.phase = "asked"],
                   [run EXCEPT !.phase = "known", !.runStatus = "failed"],
                   [run EXCEPT !.phase = "known", !.lost = TRUE]}
  PROVE  RunInv'
<1>1. /\ run' \in Run /\ run'.named = {} /\ run'.processIds = {} /\ ~run'.timer
      /\ run'.runStatus # "complete" /\ polls' = NoPolls
      /\ run'.phase # "known" => run'.runStatus = "running"
      /\ run'.runStatus = "running" => run'.phase # "known" \/ run'.lost
  BY DEF RunInv, RunTypeOK, Run, Unbegun
<1> QED BY <1>1 DEF RunInv, RunTypeOK, Unbegun, LookedAt, Awaited, AwaitedAt, CompleteIsEmpty,
                    ResultsHeld, Watched, NoPolls, Free

LEMMA WizardStepKeeps ==
  ASSUME ConsoleInv, WizardStep, UNCHANGED listVars
  PROVE  ConsoleInv'
<1> USE DEF ConsoleInv
<1>1. ListTypeOK'
  BY DEF ListTypeOK, listVars
<1>2. ASSUME UNCHANGED runVars, WizardTypeOK', UNCHANGED <<adding, added>>,
             activeTabName # "run" \/ late', activeTabName' # "run", late => late'
      PROVE  ConsoleInv'
  BY <1>1, <1>2, RunUnchanged
     DEF PagesInv, AddsBeforeRun, NextWaits, AtTab, InWizard, AddedOnLastTab, runVars
<1>3. CASE changeNextDisable
  <2>1. /\ place \in Wizards /\ UNCHANGED place /\ activeTabName = "option"
        /\ UNCHANGED <<activeTabName, checks, instanceList, added, late>>
        /\ nextDisable' = FALSE /\ created' = {} /\ adding' = FALSE
    BY <1>3 DEF changeNextDisable, AtTab, InWizard
  <2>2. RunInv'
    BY <1>3, <2>1, NoRuns DEF changeNextDisable, RunInv, RunTypeOK
  <2>3. WizardTypeOK'
    BY <2>1 DEF WizardTypeOK
  <2>4. PagesInv'
    BY <2>1 DEF PagesInv, AddsBeforeRun, NextWaits, AtTab, AddedOnLastTab
  <2> QED BY <1>1, <2>2, <2>3, <2>4
<1>4. CASE nextFromOption
  <2>1. WizardTypeOK'
    BY <1>4 DEF nextFromOption, To, WizardTypeOK, Tabs
  <2> QED BY <1>2, <1>4, <2>1 DEF nextFromOption, NextAt, AtTab, To
<1>5. CASE nextFromName
  <2>1. WizardTypeOK'
    <3>1. UNCHANGED <<activeTabName, nextDisable, created, instanceList, adding, added, late>>
      BY <1>5 DEF nextFromName
    <3>2. checks' \in 0 .. MaxChecks
      BY <1>5 DEF nextFromName, WizardTypeOK
    <3> QED BY <3>1, <3>2 DEF WizardTypeOK
  <2> QED BY <1>2, <1>5, <2>1 DEF nextFromName, NextAt, AtTab
<1>6. CASE nameChecked
  <2>1. checks' \in 0 .. MaxChecks /\ UNCHANGED <<nextDisable, instanceList, adding, added, runVars>>
    BY <1>6 DEF nameChecked, WizardTypeOK
  <2>2. CASE "name" \in created
    <3>1. /\ activeTabName' = "instance" /\ created' = created \cup {"instance"}
          /\ late' = (late \/ activeTabName # "name")
      BY <1>6, <2>2 DEF nameChecked, To
    <3>2. late' \in BOOLEAN /\ (late => late') /\ (activeTabName # "run" \/ late')
      BY <3>1 DEF WizardTypeOK
    <3>3. WizardTypeOK'
      BY <2>1, <3>1, <3>2 DEF WizardTypeOK, Tabs
    <3> QED BY <1>2, <2>1, <3>1, <3>2, <3>3
  <2>3. CASE "name" \notin created
    <3>1. UNCHANGED <<activeTabName, created, late>>
      BY <1>6, <2>3 DEF nameChecked
    <3> QED BY <1>1, <2>1, <3>1, RunUnchanged
            DEF WizardTypeOK, PagesInv, AddsBeforeRun, NextWaits, AtTab, InWizard,
                AddedOnLastTab, runVars
  <2> QED BY <2>2, <2>3
<1>7. CASE nameRefused
  <2>1. checks' \in 0 .. MaxChecks
    BY <1>7 DEF nameRefused, WizardTypeOK
  <2>2. UNCHANGED <<activeTabName, nextDisable, created, instanceList, adding, added, late, runVars>>
    BY <1>7 DEF nameRefused
  <2> QED BY <1>1, <2>1, <2>2, RunUnchanged
          DEF WizardTypeOK, PagesInv, AddsBeforeRun, NextWaits, AtTab, InWizard, AddedOnLastTab,
              runVars
<1>8. ASSUME NEW is \in SUBSET Instances, nextFromInstance(is)
      PROVE  ConsoleInv'
  <2>1. WizardTypeOK'
    BY <1>8 DEF nextFromInstance, To, WizardTypeOK, Tabs
  <2> QED BY <1>2, <1>8, <2>1 DEF nextFromInstance, NextAt, AtTab, To
<1>9. CASE nextFromService
  <2>1. /\ place \in Wizards /\ UNCHANGED <<place, checks, instanceList, late>>
        /\ activeTabName = "service" /\ activeTabName' = "run"
        /\ created' = created \cup {"run"} /\ nextDisable' = TRUE
    BY <1>9 DEF nextFromService, NextAt, AtTab, InWizard, To
  <2>2. CASE "run" \in created
    <3>1. UNCHANGED <<adding, added, run, polls, proc>>
      BY <1>9, <2>2 DEF nextFromService
    <3>2. RunInv' /\ WizardTypeOK'
      BY <2>1, <3>1, RunUnchanged DEF runVars, WizardTypeOK, Tabs
    <3>3. PagesInv'
      BY <2>1, <3>1 DEF PagesInv, AddsBeforeRun, NextWaits, AtTab, InWizard, AddedOnLastTab
    <3> QED BY <1>1, <3>2, <3>3
  <2>3. CASE "run" \notin created
    <3>1. /\ adding' = TRUE /\ added' = (IF added < 2 THEN added + 1 ELSE 2)
          /\ Show(RunOf("firstRun", "new", instanceList))
      BY <1>9, <2>3 DEF nextFromService
    <3>2. RunInv' /\ run'.phase = "new"
      BY <2>1, <3>1, NewRuns DEF Kinds, WizardTypeOK, RunInv, RunTypeOK
    <3>3. added' \in 0 .. 2 /\ (added = 0 => added' = 1)
      BY <3>1 DEF WizardTypeOK
    <3>4. WizardTypeOK'
      BY <2>1, <3>1, <3>3 DEF WizardTypeOK, Tabs
    <3>5. PagesInv'
      BY <2>1, <3>1, <3>2, <3>3 DEF PagesInv, AddsBeforeRun, NextWaits, AddedOnLastTab
    <3> QED BY <1>1, <3>2, <3>4, <3>5
  <2> QED BY <2>2, <2>3
<1>10. CASE serviceAdded
  <2>1. run.phase = "new" /\ run.runStatus = "running" /\ adding' = FALSE
    BY <1>10 DEF serviceAdded, PagesInv, AddsBeforeRun, RunInv, Unbegun
  <2>2. UNCHANGED <<activeTabName, nextDisable, created, checks, instanceList, added, late, place,
                    proc, polls>>
    BY <1>10 DEF serviceAdded
  <2>3. RunInv'
    BY <1>10, <2>1, <2>2, ServiceAddedKeeps DEF serviceAdded
  <2>4. WizardTypeOK' /\ PagesInv'
    BY <2>1, <2>2 DEF WizardTypeOK, PagesInv, AddsBeforeRun, NextWaits, AtTab, InWizard,
                      AddedOnLastTab
  <2> QED BY <1>1, <2>3, <2>4
<1>11. CASE backService
  <2>1. activeTabName \in {"name", "instance", "service"}
        /\ activeTabName' \in {"option", "name", "instance"}
    BY <1>11 DEF backService, Back
  <2>2. UNCHANGED <<nextDisable, created, checks, instanceList, adding, added, late, runVars>>
    BY <1>11 DEF backService
  <2>3. WizardTypeOK'
    BY <2>1, <2>2 DEF WizardTypeOK, Tabs
  <2> QED BY <1>2, <2>1, <2>2, <2>3
<1> QED BY <1>3, <1>4, <1>5, <1>6, <1>7, <1>8, <1>9, <1>10, <1>11 DEF WizardStep

\* The invariant holds of everything the pages do.
THEOREM ConsoleInvariance == ConsoleSpec => []ConsoleInv
<1>1. ConsoleInit => ConsoleInv
  BY ConsoleBegins
<1>2. ConsoleInv /\ [ConsoleNext]_consoleVars => ConsoleInv'
  <2> SUFFICES ASSUME ConsoleInv, [ConsoleNext]_consoleVars PROVE ConsoleInv'
    OBVIOUS
  <2>1. CASE UNCHANGED consoleVars
    BY <2>1, RunUnchanged
       DEF consoleVars, listVars, wizardVars, runVars, ConsoleInv, ListTypeOK, WizardTypeOK,
           PagesInv, AddsBeforeRun, NextWaits, AtTab, InWizard, AddedOnLastTab
  <2>2. CASE ConsoleStep
    BY <2>2, RunStepKeeps, PollingKeeps, ListStepKeeps, WizardStepKeeps DEF ConsoleStep
  <2>3. CASE \E p \in Places : Mounted(p)
    BY <2>3, MountedKeeps
  <2> QED BY <2>1, <2>2, <2>3 DEF ConsoleNext
<1> QED BY <1>1, <1>2, PTL DEF ConsoleSpec

-----------------------------------------------------------------------------
(* What the user is shown *)

\* "Completed" means that every process has come to its end (run-state.vue:168), for any
\* number of polls that overlap.
THEOREM Completion == ConsoleSpec => []CompleteMeansFinished
<1>1. ConsoleInv => CompleteMeansFinished
  BY DEF ConsoleInv, RunInv, CompleteIsEmpty, LookedAt, CompleteMeansFinished
<1> QED BY <1>1, ConsoleInvariance, PTL

\* No result of a completed run is lost (run-state.vue:146-163): what is not shown is in the
\* hands of a poll that waits for its logs, or a request has failed.
THEOREM Results == ConsoleSpec => []CompleteShowsResults
<1>1. ConsoleInv => CompleteShowsResults
  <2> SUFFICES ASSUME ConsoleInv PROVE CompleteShowsResults
    OBVIOUS
  <2>1. SUFFICES ASSUME run.runStatus = "complete", ~run.lost, NEW i \in run.named \ run.shown
                 PROVE  \E p \in Slots :
                          polls[p].at = "logs" /\ i \in polls[p].of \cup polls[p].good \cup polls[p].bad
    BY DEF CompleteShowsResults
  <2>2. PICK p \in Slots : Holds(polls[p], i)
    BY <2>1 DEF ConsoleInv, RunInv, CompleteIsEmpty, ResultsHeld
  <2> QED BY <2>2 DEF Holds
<1> QED BY <1>1, ConsoleInvariance, PTL

\* A run whose processes have all been looked at is shown as complete once its polls have
\* ended (run-state.vue:113), unless a request has failed.
THEOREM Endings == ConsoleSpec => []RunsOnOnlyAfterFailure
<1>1. ConsoleInv => RunsOnOnlyAfterFailure
  BY DEF ConsoleInv, RunInv, Watched, RunsOnOnlyAfterFailure
<1> QED BY <1>1, ConsoleInvariance, PTL

\* The wizards' last button waits for the run (add/index.vue:114, 153).
THEOREM Finishing == ConsoleSpec => []FinishesAfterCompletion
<1>1. ConsoleInv => FinishesAfterCompletion
  BY DEF ConsoleInv, PagesInv, NextWaits, RunInv, CompleteIsEmpty, LookedAt,
         FinishesAfterCompletion
<1> QED BY <1>1, ConsoleInvariance, PTL

\* A service is added once unless an answer has moved the tabs (add/index.vue:127).
THEOREM Adding == ConsoleSpec => []AddsOnce
<1>1. ConsoleInv => AddsOnce
  BY DEF ConsoleInv, PagesInv, AddedOnLastTab, AddsOnce
<1> QED BY <1>1, ConsoleInvariance, PTL
=============================================================================
