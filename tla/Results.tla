------------------------------ MODULE Results ------------------------------
(***************************************************************************)
(* The pipeline around the suites (node/pipeline.js, core/node): each run  *)
(* plays the three test steps, then publishes the queue, then compares the *)
(* report with the declared results, then turns failing assertions into    *)
(* issues.  The queue, the report and the issues are files and survive a   *)
(* run; the pipeline can be killed at any moment.                          *)
(*                                                                         *)
(* A record keeps of its assertions the failing ones, with their ids.      *)
(* truth is not in the code: what the attempt really met.                  *)
(***************************************************************************)
EXTENDS Harness, SequencesExt

CONSTANTS
    Declared,   \* fixtures/expected-results.json: case -> accepted statuses
    ModuleOf,   \* case -> its module in the catalogue
    Place,      \* case -> its place among the scenarios and tests of a runner
    MaxRecords  \* bound: records in the queue

ASSUME DeclaredAssumption ==
    /\ DOMAIN Declared \subseteq Cases
    /\ \A c \in DOMAIN Declared : Declared[c] \subseteq Statuses \ {"Failed"}
ASSUME ModuleAssumption == DOMAIN ModuleOf = Cases
ASSUME PlaceAssumption == Place \in [Cases -> Nat]
ASSUME RecordsAssumption == MaxRecords \in Nat

VARIABLES
    phase,      \* what the pipeline is doing
    ran,        \* the cases the current test step has begun
    queue,      \* queue/results.jsonl
    torn,       \* whether its last line was cut by a kill
    report,     \* reports/summary.json: case -> status, or NoReport
    gate,       \* the gate's answer in the current run
    problems,   \* what the bug flow still has to file
    tracker     \* state/issues.json

files == <<queue, torn, report, tracker>>
rvars == <<scenario, taken, run, phase, ran, queue, torn, report, gate, problems, tracker>>

NoReport == [none |-> TRUE]
NoIssues == [nextId |-> 1, issues |-> <<>>]

-----------------------------------------------------------------------------
(***************************************************************************)
(* The test steps.                                                         *)
(***************************************************************************)
Idle == phase \in {"idle", "done"}

StartRun ==
    /\ Idle /\ run < MaxRuns
    /\ run' = run + 1 /\ phase' = "be" /\ ran' = {} /\ gate' = "none"
    /\ UNCHANGED <<scenario, taken, files, problems>>

InSuite(c) ==
    \/ phase = "be" /\ KindOf[c] \in {"venue", "live"}
    \/ phase \in {"fe", "specs"} /\ KindOf[c] = "screen"

\* In order, one after the other, without retries.
StartScenario ==
    /\ ~Running
    /\ \E c \in Cases \ ran :
           /\ InSuite(c)
           /\ \A d \in Cases \ ran : InSuite(d) => Place[c] <= Place[d]
           /\ ran' = ran \cup {c}
           /\ \/ KindOf[c] = "venue" /\ BeginVenue(c)
              \/ KindOf[c] # "venue" /\ phase # "specs" /\ BeginOther(c)
              \/ phase = "specs" /\ BeginSpec(c)
    /\ UNCHANGED <<taken, run, phase, files, gate, problems>>

DuringScenario ==
    HarnessStep /\ UNCHANGED <<phase, ran, files, gate, problems>>

\* The entries of q whose index is in I, in order.
Filter(q, I) ==
    LET upTo[n \in 0 .. Len(q)] ==
            IF n = 0 THEN <<>>
            ELSE IF n \in I THEN Append(upTo[n - 1], q[n]) ELSE upTo[n - 1]
    IN  upTo[Len(q)]

FailuresOf(log) ==
    Filter([i \in DOMAIN log |-> [id |-> i, class |-> log[i].class, value |-> log[i].value]],
           {i \in DOMAIN log : log[i].outcome = "FAIL"})

\* ts: the clock, which never shows two attempts at a case the same time.
RecordOf(s) ==
    LET log == AfterHooks(s).log
    IN  [case |-> s.case, status |-> Grade(log), failures |-> FailuresOf(log),
         ts |-> Len(queue) + 1, truth |-> MetInAll(s)]

EndScenario ==
    /\ Ended /\ scenario' = Nothing
    /\ \/ /\ HasVerdict(scenario) /\ Len(queue) < MaxRecords
          /\ queue' = Append(queue, RecordOf(scenario))
       \/ ~HasVerdict(scenario) /\ UNCHANGED queue
    /\ UNCHANGED <<taken, run, phase, ran, torn, report, gate, problems, tracker>>

\* Its exit code is not looked at, and a runner may stop early.
EndSuite ==
    /\ ~Running
    /\ \/ phase = "be" /\ phase' = "fe"
       \/ phase = "fe" /\ phase' = "specs"
       \/ phase = "specs" /\ phase' = "report"
    /\ ran' = {}
    /\ UNCHANGED <<scenario, taken, run, files, gate, problems>>

-----------------------------------------------------------------------------
(***************************************************************************)
(* The report.                                                             *)
(***************************************************************************)
CasesIn(q) == {q[i].case : i \in DOMAIN q}

\* Mutant of Latest: the first record of a case.
FirstOf(q, c) == q[CHOOSE i \in DOMAIN q : q[i].case = c /\ \A j \in DOMAIN q : q[j].case = c => i <= j]

\* The record with the highest ts; among equals, the earliest line.
Latest(q, c) ==
    q[CHOOSE i \in DOMAIN q :
        /\ q[i].case = c
        /\ \A j \in DOMAIN q :
               q[j].case = c => \/ q[j].ts < q[i].ts
                                \/ q[j].ts = q[i].ts /\ i <= j]

Report ==
    /\ phase = "report"
    /\ \/ /\ ~torn /\ queue # <<>>
          /\ report' = [c \in CasesIn(queue) |-> Latest(queue, c).status]
          /\ phase' = "gate"
       \/ /\ torn \/ queue = <<>>
          /\ phase' = "idle" /\ UNCHANGED report
    /\ UNCHANGED <<scenario, taken, run, ran, queue, torn, gate, problems, tracker>>

(***************************************************************************)
(* The gate, over the report.                                              *)
(***************************************************************************)
Missing == DOMAIN Declared \ DOMAIN report
Undeclared == DOMAIN report \ DOMAIN Declared
Diverged == {c \in DOMAIN Declared \cap DOMAIN report : report[c] \notin Declared[c]}

\* The bug flow follows whatever the gate says.
Gate ==
    /\ phase = "gate"
    /\ gate' = IF Missing \cup Undeclared \cup Diverged = {} THEN "passed" ELSE "failed"
    /\ phase' = "bugflow"
    /\ UNCHANGED <<scenario, taken, run, ran, files, problems>>

-----------------------------------------------------------------------------
(***************************************************************************)
(* The bug flow: one issue per problem, keyed by a signature.              *)
(***************************************************************************)
\* Mutant of NormaliseDetail: keeps the observed value.
KeepDetail(failure) == <<failure.class, failure.value>>

NormaliseDetail(failure) == <<failure.class>>

SignatureFor(c, failure) == <<ModuleOf[c], failure.id, NormaliseDetail(failure)>>

ProblemsFrom(record) ==
    [k \in DOMAIN record.failures |->
        [case |-> record.case, failure |-> record.failures[k],
         signature |-> SignatureFor(record.case, record.failures[k])]]

\* The cases in the order of their first record.
CaseOrder(q) ==
    Filter([i \in DOMAIN q |-> q[i].case],
           {i \in DOMAIN q : \A j \in DOMAIN q : q[j].case = q[i].case => i <= j})

AllProblems ==
    LET ProblemsOf(c) ==
            LET record == Latest(queue, c)
            IN  IF record.status = "Failed" THEN ProblemsFrom(record) ELSE <<>>
        order == CaseOrder(queue)
    IN  FlattenSeq([k \in DOMAIN order |-> ProblemsOf(order[k])])

StartBugflow ==
    /\ phase = "bugflow"
    /\ problems' = AllProblems /\ phase' = "filing"
    /\ UNCHANGED <<scenario, taken, run, ran, files, gate>>

Matching(signature) ==
    {i \in DOMAIN tracker.issues : tracker.issues[i].signature = signature}

NewIssue(problem) ==
    [id |-> tracker.nextId, signature |-> problem.signature, case |-> problem.case,
     failure |-> problem.failure, related |-> <<problem.case>>]

Create(problem) ==
    tracker' = [nextId |-> tracker.nextId + 1,
                issues |-> Append(tracker.issues, NewIssue(problem))]

Attach(i, c) ==
    tracker' = IF Contains(tracker.issues[i].related, c) THEN tracker
               ELSE [tracker EXCEPT !.issues[i].related = Append(@, c)]

Upsert ==
    /\ phase = "filing" /\ problems # <<>>
    /\ LET problem == Head(problems)
       IN  \/ Matching(problem.signature) = {} /\ Create(problem)
           \/ \E i \in Matching(problem.signature) :
                  /\ \A j \in Matching(problem.signature) : i <= j
                  /\ Attach(i, problem.case)
    /\ problems' = Tail(problems)
    /\ UNCHANGED <<scenario, taken, run, phase, ran, queue, torn, report, gate>>

EndRun ==
    /\ phase = "filing" /\ problems = <<>>
    /\ phase' = "done"
    /\ UNCHANGED <<scenario, taken, run, ran, files, gate, problems>>

-----------------------------------------------------------------------------
(***************************************************************************)
(* The pipeline is killed; if it was appending, its line is cut, and what  *)
(* is appended later continues that line.                                  *)
(***************************************************************************)
Kill ==
    /\ ~Idle
    /\ phase' = "idle" /\ ran' = {} /\ gate' = "none" /\ problems' = <<>>
    /\ scenario' = Nothing
    /\ \/ UNCHANGED torn
       \/ Ended /\ HasVerdict(scenario) /\ torn' = TRUE
    /\ UNCHANGED <<taken, run, queue, report, tracker>>

\* npm run clean
Clean ==
    /\ Idle /\ (queue # <<>> \/ torn)
    /\ queue' = <<>> /\ torn' = FALSE /\ report' = NoReport /\ tracker' = NoIssues
    /\ gate' = "none" /\ phase' = "idle"
    /\ UNCHANGED <<scenario, taken, run, ran, problems>>

Init ==
    /\ scenario = Nothing /\ taken = 0 /\ run = 0 /\ phase = "idle" /\ ran = {}
    /\ queue = <<>> /\ torn = FALSE /\ report = NoReport /\ gate = "none"
    /\ problems = <<>> /\ tracker = NoIssues

Next ==
    \/ StartRun \/ StartScenario \/ DuringScenario \/ EndScenario \/ EndSuite
    \/ Report \/ Gate \/ StartBugflow \/ Upsert \/ EndRun
    \/ Kill \/ Clean

Spec == Init /\ [][Next]_rvars

-----------------------------------------------------------------------------
\* The verdict an attempt deserves.
Truth(saw) ==
    IF "mismatch" \in saw THEN "Failed" ELSE IF "unseen" \in saw THEN "Blocked" ELSE "Passed"

(***************************************************************************)
(* A filed verdict is the one the attempt deserves by docs/GRADING.md:8-17 *)
(* with two exceptions: a mismatch is never hidden by an outage, nor a     *)
(* proposition a guarded call could not observe by those it could,         *)
(* whatever the steps and their order.  The first exception: an error that *)
(* escapes a step ends the attempt, and what it had asserted is graded     *)
(* alone (cucumber.js:93-100), so an attempt cut short may pass, although  *)
(* an outage, which may escape (perpdex.steps.js:134-141, 248, 422), is to *)
(* be Blocked (GRADING.md:29-32).  The second: the one step with a         *)
(* catch-all (perpdex.steps.js:700) may turn an outage into a failure.     *)
(***************************************************************************)
VerdictIsEarned ==
    \A i \in DOMAIN queue :
        LET deserved == Truth(queue[i].truth)
        IN  \/ queue[i].status = deserved
            \/ queue[i].status = "Passed" /\ "cut" \in queue[i].truth
            \/ queue[i].status = "Failed" /\ "swallowed" \in queue[i].truth

(***************************************************************************)
(* Once the gate has passed, every declared case has a record, and what    *)
(* the last recorded attempt at it really met is among what is declared:   *)
(* reruns, both runners filing the same case, kills and stale files do not *)
(* let an older verdict answer for it.  An attempt that an error cut short *)
(* may have passed on what it had asserted before.                         *)
(***************************************************************************)
GateTellsTruth ==
    gate = "passed" =>
        \A c \in DOMAIN Declared :
            \E i \in DOMAIN queue :
                /\ queue[i].case = c
                /\ \A j \in DOMAIN queue : queue[j].case = c => j <= i
                /\ \/ Truth(queue[i].truth) \in Declared[c]
                   \/ "cut" \in queue[i].truth /\ "Passed" \in Declared[c]

SameProblem(c, f, d, g) == ModuleOf[c] = ModuleOf[d] /\ f.id = g.id /\ f.class = g.class

(***************************************************************************)
(* Issues are problems: no two issues are about the same one, whatever was *)
(* rerun, killed half-way or filed by two cases; every case an issue lists *)
(* did fail that way; and a bug flow that ends has an issue for every      *)
(* failing assertion of the current verdicts, listing its case.  Nothing   *)
(* is said of Blocked cases, which the code reports and does not file: see *)
(* BlockedIsFiled.                                                         *)
(***************************************************************************)
IssuePerProblem ==
    LET issues == tracker.issues
    IN  /\ \A i, j \in DOMAIN issues :
               i # j => /\ issues[i].id # issues[j].id
                        /\ ~SameProblem(issues[i].case, issues[i].failure,
                                        issues[j].case, issues[j].failure)
        /\ \A i \in DOMAIN issues : \A c \in ToSet(issues[i].related) :
               \E r \in DOMAIN queue : \E k \in DOMAIN queue[r].failures :
                   /\ queue[r].case = c
                   /\ SameProblem(c, queue[r].failures[k], issues[i].case, issues[i].failure)
        /\ phase = "done" =>
               \A c \in CasesIn(queue) :
                   LET failures == Latest(queue, c).failures
                   IN  \A k \in DOMAIN failures : \E i \in DOMAIN issues :
                           /\ c \in ToSet(issues[i].related)
                           /\ SameProblem(c, failures[k], issues[i].case, issues[i].failure)

(***************************************************************************)
(* "A Failed or Blocked case becomes an issue" (docs/GRADING.md:60, and    *)
(* docs/QUEUE-FORMAT.md:48): a bug flow that ends has an issue listing     *)
(* every such case.  It does not hold: only Failed cases are filed         *)
(* (bugflow/run.js:93, 113-116).                                           *)
(***************************************************************************)
BlockedIsFiled ==
    phase = "done" =>
        \A c \in CasesIn(queue) :
            Latest(queue, c).status \in {"Failed", "Blocked"} =>
                \E i \in DOMAIN tracker.issues : c \in ToSet(tracker.issues[i].related)

=============================================================================
