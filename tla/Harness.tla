------------------------------ MODULE Harness ------------------------------
(***************************************************************************)
(* One scenario at a time, from the hooks before it to the verdict: the    *)
(* World that the step definitions share (core/node/harness/cucumber.js,   *)
(* recorder.js), the Playwright fixture that stands in for it              *)
(* (playwright.js), and the grading of what was recorded (grade.js).       *)
(*                                                                         *)
(* scenario.log holds the assertions in order; an assertion's id is its    *)
(* position.  Of an observed value only this much is kept: whether it was  *)
(* the expected one, and, in a failing assertion, which check it was       *)
(* (class) and a part that changes from run to run (value).                *)
(*                                                                         *)
(* Two fields are not in the code: lost, whether an outage has hit this    *)
(* scenario, and saw, what its assertions really met when it was not a     *)
(* match: a "mismatch", or something "unseen" because the source did not   *)
(* answer or because an error "cut" the scenario short.  They are updated  *)
(* from what happens, never from what is recorded.                         *)
(***************************************************************************)
EXTENDS Integers, Sequences, Steps

CONSTANTS
    Cases,      \* the catalogued cases that a run may meet
    KindOf,     \* case -> "venue", "live" or "screen": the steps it uses
    MaxSteps,   \* bound: steps taken, over all scenarios
    MaxRuns     \* bound: runs of the pipeline

ASSUME KindAssumption == KindOf \in [Cases -> {"venue", "live", "screen"}]
ASSUME BoundAssumption == MaxSteps \in Nat \ {0} /\ MaxRuns \in Nat

VARIABLES
    scenario,   \* the scenario that runs, or Nothing
    taken,      \* how many steps have been taken so far (for the bound)
    run         \* number of the current run of the pipeline

Outcomes == {"PASS", "FAIL", "UNOBSERVABLE"}
Statuses == {"Passed", "Failed", "Blocked"}
Classes == {"state", "call", "revert"}

Nothing == [case |-> "none"]

(***************************************************************************)
(* The recorder.                                                           *)
(***************************************************************************)
Assertion(outcome, class) == [outcome |-> outcome, class |-> class, value |-> run]

Check(s, passed, class) ==
    [s EXCEPT !.log = Append(@, Assertion(IF passed THEN "PASS" ELSE "FAIL", class))]

Unobservable(s) == [s EXCEPT !.log = Append(@, Assertion("UNOBSERVABLE", "state"))]

\* Mutant of Observe: compares what is left of the data once the source is gone.
ObserveAnyway(s, passed, class) == Check(s, passed, class)

Observe(s, passed, class) == IF s.source THEN Unobservable(s) ELSE Check(s, passed, class)

\* What an assertion really met (not in the code).
Met(s, what) == [s EXCEPT !.saw = @ \cup (IF s.lost THEN {"unseen"} ELSE what)]
Unseen == {"unseen"}
Found(agrees) == IF agrees THEN {} ELSE {"mismatch"}

\* An outage: the step layer sets sourceError.
Lose(s) == [s EXCEPT !.source = TRUE, !.lost = TRUE]

(***************************************************************************)
(* Grading: any failing assertion, then any unobservable one.              *)
(***************************************************************************)
Has(log, outcome) == \E i \in DOMAIN log : log[i].outcome = outcome

\* Mutant of Grade: an unobservable assertion hides a failing one.
GradeBlockedFirst(log) ==
    IF Has(log, "UNOBSERVABLE") THEN "Blocked"
    ELSE IF Has(log, "FAIL") THEN "Failed" ELSE "Passed"

Grade(log) ==
    IF Has(log, "FAIL") THEN "Failed"
    ELSE IF Has(log, "UNOBSERVABLE") THEN "Blocked" ELSE "Passed"

-----------------------------------------------------------------------------
(***************************************************************************)
(* The hooks before a scenario.  Cucumber's @perpdex hook blocks when the  *)
(* chain is not there or cannot be snapshotted, and notes a chain that was *)
(* used before; the Playwright fixture has none.                           *)
(***************************************************************************)
NewScenario(c) ==
    [case |-> c, missing |-> FALSE, source |-> FALSE, last |-> "none",
     unchecked |-> FALSE, log |-> <<>>, todo |-> <<>>, over |-> FALSE,
     lost |-> FALSE, saw |-> {}]

FreshChain(s) == s
UsedChain(s) == Met(Unobservable(s), Unseen)
NoSnapshot(s) == Lose(s)
NoChain(s) == [Lose(s) EXCEPT !.missing = TRUE]

BeginVenue(c) ==
    \/ scenario' = FreshChain(NewScenario(c))
    \/ scenario' = UsedChain(NewScenario(c))
    \/ scenario' = NoSnapshot(NewScenario(c))
    \/ scenario' = NoSnapshot(UsedChain(NewScenario(c)))
    \/ scenario' = NoChain(NewScenario(c))

BeginOther(c) == scenario' = NewScenario(c)

\* A Playwright test is one sequence of stages, begun with the test.
BeginSpec(c) ==
    \E test \in SpecTests :
        scenario' = [NewScenario(c) EXCEPT !.todo = test, !.over = TRUE]

-----------------------------------------------------------------------------
Running == scenario # Nothing
AtRest == Running /\ scenario.todo = <<>>

StepsOf(c) ==
    CASE KindOf[c] = "venue" -> VenueSteps
      [] KindOf[c] = "live" -> LiveSteps
      [] KindOf[c] = "screen" -> ScreenSteps

TakeStep ==
    /\ AtRest /\ ~scenario.over
    /\ taken < MaxSteps /\ taken' = taken + 1
    /\ \E step \in StepsOf(scenario.case) : scenario' = [scenario EXCEPT !.todo = step]

Facing(stage) == Running /\ scenario.todo # <<>> /\ Head(scenario.todo) = stage

Go(s) == scenario' = [s EXCEPT !.todo = Tail(@)]

\* An error that escapes the step, an outage at an unguarded call or any other: the
\* runner skips the rest, and what that would have asserted is never seen.
Throw == scenario' = [scenario EXCEPT !.todo = <<>>, !.over = TRUE,
                                      !.saw = @ \cup {"unseen", "cut"}]

Asks == ~scenario.source

(***************************************************************************)
(* The stages (Steps.tla says where each one is used).                     *)
(***************************************************************************)
LocalStage == Facing("local") /\ Go(scenario)

ActorStage ==
    /\ Facing("actor")
    /\ \/ ~scenario.missing /\ Go(scenario)
       \/ scenario.missing /\ Throw

BareStage ==
    /\ Facing("bare")
    /\ \/ ~scenario.missing /\ Go(scenario)
       \/ Throw

PeekStage ==
    /\ Facing("peek")
    /\ \/ Go(scenario)
       \/ ~scenario.missing /\ Throw

ReadStage ==
    /\ Facing("read")
    /\ \/ Go(scenario)
       \/ Asks /\ Go(Lose(scenario))
       \/ Asks /\ Throw

FetchStage ==
    /\ Facing("fetch")
    /\ \/ Go(scenario)
       \/ Go(Lose(scenario))
       \/ Throw

\* A success clears the revert that no step has looked at yet.
AttemptStage ==
    /\ Facing("attempt")
    /\ \/ ~Asks /\ Go([scenario EXCEPT !.last = "skipped"])
       \/ Asks /\ Go([scenario EXCEPT !.last = "ok", !.unchecked = FALSE])
       \/ Asks /\ Go([scenario EXCEPT !.last = "reverted", !.unchecked = TRUE])
       \/ Asks /\ Go([Lose(scenario) EXCEPT !.last = "skipped"])
       \/ Asks /\ Throw

ActStage ==
    /\ Facing("act")
    /\ \/ Go(scenario)
       \/ Asks /\ Go(Lose(scenario))
       \/ Asks /\ Go([scenario EXCEPT !.last = "reverted", !.unchecked = TRUE])
       \/ Asks /\ Throw

AfterOkStage ==
    /\ Facing("afterOk")
    /\ \/ Go(scenario)
       \/ scenario.last = "ok" /\ Throw

CatchUpStage ==
    /\ Facing("catchUp")
    /\ \/ Go(scenario)
       \/ Asks /\ Go(Lose(Met(Unobservable(scenario), Unseen)))
       \/ Asks /\ Throw

ArtifactStage ==
    /\ Facing("artifact")
    /\ \/ Go(scenario)
       \/ Asks /\ Go(Lose(Met(Unobservable(scenario), Unseen)))

LookStage ==
    /\ Facing("look")
    /\ \/ \E agrees \in BOOLEAN : Go(Met(Observe(scenario, agrees, "state"), Found(agrees)))
       \/ Go(Met(Unobservable(scenario), Unseen))
       \/ Asks /\ Throw

\* The catch-all takes an outage for an error of the wrong name.
SwallowStage ==
    /\ Facing("swallow")
    /\ \/ \E agrees \in BOOLEAN : Go(Met(Observe(scenario, agrees, "state"), Found(agrees)))
       \/ Asks /\ Go([Check(scenario, FALSE, "state")
                         EXCEPT !.saw = scenario.saw \cup {"unseen", "swallowed"}])

RecordedStage ==
    /\ Facing("recorded")
    /\ \E agrees \in BOOLEAN : Go(Met(Observe(scenario, agrees, "state"), Found(agrees)))

NoteStage ==
    /\ Facing("note")
    /\ \E agrees \in BOOLEAN :
           Go([Check(scenario, agrees, "state") EXCEPT !.saw = scenario.saw \cup Found(agrees)])

SucceedsStage ==
    /\ Facing("succeeds")
    /\ LET agrees == scenario.last = "ok"
       IN  Go(Met(Observe([scenario EXCEPT !.unchecked = FALSE], agrees, "call"), Found(agrees)))

RevertsStage ==
    /\ Facing("reverts")
    /\ \E agrees \in BOOLEAN :
           /\ agrees => scenario.last = "reverted"
           /\ Go(Met(Observe([scenario EXCEPT !.unchecked = FALSE], agrees, "call"), Found(agrees)))

ClaimStage == Facing("claim") /\ Go(Met(Unobservable(scenario), Unseen))

(***************************************************************************)
(* The hooks after a scenario: a revert no step looked at is a failing     *)
(* assertion (nothing is asked for it, so an outage cannot excuse it).     *)
(***************************************************************************)
AfterHooks(s) == IF s.unchecked THEN Check(s, FALSE, "revert") ELSE s

\* What the scenario really met, that revert included (not in the code).
MetInAll(s) == IF s.unchecked THEN s.saw \cup {"mismatch"} ELSE s.saw

(***************************************************************************)
(* The verdict filed for a scenario that has ended, if it has one: an      *)
(* empty log is never graded.                                              *)
(***************************************************************************)
Ended == AtRest

HasVerdict(s) == AfterHooks(s).log # <<>>

\* A scenario ends after any of its steps: how many it has is left open.
Stages ==
    \/ LocalStage \/ ActorStage \/ BareStage \/ PeekStage \/ ReadStage \/ FetchStage
    \/ AttemptStage \/ ActStage \/ AfterOkStage \/ CatchUpStage \/ ArtifactStage
    \/ LookStage \/ SwallowStage \/ RecordedStage \/ NoteStage
    \/ SucceedsStage \/ RevertsStage \/ ClaimStage

HarnessStep ==
    /\ TakeStep \/ (Stages /\ UNCHANGED taken)
    /\ UNCHANGED run

=============================================================================
