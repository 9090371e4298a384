--------------------------- MODULE Results_proofs ---------------------------
(***************************************************************************)
(* A verdict is earned, a passed gate tells the truth and an issue is a    *)
(* problem, for any catalogue, any number of steps, runs and records, and  *)
(* whatever is killed.  The first rests on how a log and what it met grow  *)
(* together, the second on the order of the records and of the pipeline's  *)
(* phases, the third on what the bug flow still has to file.               *)
(***************************************************************************)
EXTENDS Results, NaturalsInduction, WellFoundedInduction, TLAPS

Fields == {"case", "missing", "source", "last", "unchecked", "log", "todo", "over",
           "lost", "saw"}

Logs == Seq([outcome : Outcomes, class : Classes, value : Nat])

\* A log and what its assertions met say the same; blocked means an outage.
Agree(log, saw) ==
    /\ Has(log, "FAIL") <=> "mismatch" \in saw \/ "swallowed" \in saw
    /\ Has(log, "UNOBSERVABLE") => "unseen" \in saw
    /\ "unseen" \in saw => \/ Has(log, "UNOBSERVABLE")
                          \/ "swallowed" \in saw \/ "cut" \in saw

Flags(s) ==
    /\ DOMAIN s = Fields
    /\ s.lost \in BOOLEAN /\ s.source = s.lost /\ s.unchecked \in BOOLEAN

Sound(s) == Flags(s) /\ s.log \in Logs /\ Agree(s.log, s.saw)

Earned(record) ==
    \/ record.status = Truth(record.truth)
    \/ record.status = "Passed" /\ "cut" \in record.truth
    \/ record.status = "Failed" /\ "swallowed" \in record.truth

IsLastOf(q, c, i) ==
    /\ i \in DOMAIN q /\ q[i].case = c
    /\ \A j \in DOMAIN q : q[j].case = c => j <= i

\* The queue is a sequence, in the order of its clock.
QueueOK ==
    /\ queue \in Seq({queue[i] : i \in DOMAIN queue})
    /\ \A i \in DOMAIN queue : queue[i].ts = i
    /\ \A c \in CasesIn(queue) : \E i \in DOMAIN queue : IsLastOf(queue, c, i)

ScenarioInv == scenario = Nothing \/ Sound(scenario)

RunningInTests == Running => phase \in {"be", "fe", "specs"}

\* From the gate on, the report is the one of the queue as it is.
ReportIsCurrent ==
    phase \in {"gate", "bugflow", "filing", "done"} =>
        report = [c \in CasesIn(queue) |-> Latest(queue, c).status]

PassedMeansCompared ==
    gate = "passed" => /\ phase \in {"bugflow", "filing", "done"}
                       /\ Missing \cup Undeclared \cup Diverged = {}

IInv ==
    /\ run \in Nat
    /\ ScenarioInv /\ RunningInTests
    /\ QueueOK /\ (\A i \in DOMAIN queue : Earned(queue[i]))
    /\ ReportIsCurrent /\ PassedMeansCompared

-----------------------------------------------------------------------------
(* Logs *)

LEMMA HasMore ==
    ASSUME NEW log \in Logs, NEW a \in [outcome : Outcomes, class : Classes, value : Nat],
           NEW o
    PROVE  /\ Append(log, a) \in Logs
           /\ Has(Append(log, a), o) <=> Has(log, o) \/ a.outcome = o
<1> DEFINE more == Append(log, a)
<1>1. more \in Logs /\ DOMAIN log = 1 .. Len(log) /\ DOMAIN more = 1 .. Len(log) + 1
      /\ Len(log) \in Nat
    BY DEF Logs
<1>2. more[Len(log) + 1] = a /\ \A i \in 1 .. Len(log) : more[i] = log[i]
    BY DEF Logs
<1> HIDE DEF more
<1>3. Has(more, o) => Has(log, o) \/ a.outcome = o
    BY <1>1, <1>2 DEF Has
<1>4. Has(log, o) => Has(more, o)
    BY <1>1, <1>2 DEF Has
<1>5. a.outcome = o => Has(more, o)
    BY <1>1, <1>2 DEF Has
<1> QED BY <1>1, <1>3, <1>4, <1>5 DEF more

\* A step that records nothing.
LEMMA NothingRecorded ==
    ASSUME NEW s, NEW t, Sound(s), Flags(t), t.log = s.log, t.saw = s.saw
    PROVE  Sound(t)
    BY DEF Sound

\* A step that records one assertion and what it met.
LEMMA OneRecorded ==
    ASSUME NEW s, NEW t, NEW o \in Outcomes, NEW class \in Classes, run \in Nat,
           Sound(s), Flags(t), t.log = Append(s.log, Assertion(o, class)),
           o = "PASS" => t.saw = s.saw,
           o = "UNOBSERVABLE" => t.saw = s.saw \cup {"unseen"},
           o = "FAIL" => \/ t.saw = s.saw \cup {"mismatch"}
                         \/ t.saw = s.saw \cup {"unseen", "swallowed"}
    PROVE  Sound(t)
<1> DEFINE a == Assertion(o, class)
<1>1. a \in [outcome : Outcomes, class : Classes, value : Nat] /\ a.outcome = o
    BY DEF Assertion
<1>2. s.log \in Logs /\ t.log = Append(s.log, a)
    BY DEF Sound
<1> HIDE DEF a
<1>3. /\ t.log \in Logs
      /\ Has(t.log, "FAIL") <=> Has(s.log, "FAIL") \/ o = "FAIL"
      /\ Has(t.log, "UNOBSERVABLE") <=> Has(s.log, "UNOBSERVABLE") \/ o = "UNOBSERVABLE"
    BY <1>1, <1>2, HasMore
<1>4. Agree(t.log, t.saw)
    <2>1. CASE o = "PASS"
        BY <2>1, <1>3 DEF Sound, Agree
    <2>2. CASE o = "UNOBSERVABLE"
        BY <2>2, <1>3 DEF Sound, Agree
    <2>3. CASE o = "FAIL"
        BY <2>3, <1>3 DEF Sound, Agree
    <2> QED BY <2>1, <2>2, <2>3 DEF Outcomes
<1> QED BY <1>3, <1>4 DEF Sound

-----------------------------------------------------------------------------
(* The recorder *)

\* Blocked, everything is unseen; otherwise the check decides.
LEMMA ObservedIsSound ==
    ASSUME NEW s, Sound(s), run \in Nat, NEW agrees \in BOOLEAN, NEW class \in Classes
    PROVE  Sound(Met(Observe(s, agrees, class), Found(agrees)))
<1> DEFINE t == Met(Observe(s, agrees, class), Found(agrees))
<1> SUFFICES Sound(t)
    OBVIOUS
<1>1. Flags(s)
    BY DEF Sound
<1>2. CASE s.source
    <2>1. /\ Flags(t) /\ t.log = Append(s.log, Assertion("UNOBSERVABLE", "state"))
          /\ t.saw = s.saw \cup {"unseen"}
        BY <1>1, <1>2 DEF Observe, Unobservable, Met, Flags, Fields
    <2> HIDE DEF t
    <2> QED BY <2>1, OneRecorded DEF Outcomes, Classes
<1>3. CASE ~s.source
    <2>1. /\ Flags(t)
          /\ t.log = Append(s.log, Assertion(IF agrees THEN "PASS" ELSE "FAIL", class))
          /\ t.saw = s.saw \cup (IF agrees THEN {} ELSE {"mismatch"})
        BY <1>1, <1>3 DEF Observe, Check, Met, Found, Flags, Fields
    <2> HIDE DEF t
    <2>2. CASE agrees
        <3>1. t.log = Append(s.log, Assertion("PASS", class)) /\ t.saw = s.saw
            BY <2>1, <2>2
        <3> QED BY <2>1, <3>1, OneRecorded DEF Outcomes
    <2>3. CASE ~agrees
        <3>1. t.log = Append(s.log, Assertion("FAIL", class)) /\ t.saw = s.saw \cup {"mismatch"}
            BY <2>1, <2>3
        <3> QED BY <2>1, <3>1, OneRecorded DEF Outcomes
    <2> QED BY <2>2, <2>3
<1> QED BY <1>1, <1>2, <1>3 DEF Flags

LEMMA UnseenIsSound ==
    ASSUME NEW s, Sound(s), run \in Nat
    PROVE  Sound(Met(Unobservable(s), Unseen))
<1> DEFINE t == Met(Unobservable(s), Unseen)
<1>1. /\ Flags(t) /\ t.log = Append(s.log, Assertion("UNOBSERVABLE", "state"))
      /\ t.saw = s.saw \cup {"unseen"}
    BY DEF Sound, Unobservable, Met, Unseen, Flags, Fields
<1> HIDE DEF t
<1>2. Sound(t)
    BY <1>1, OneRecorded DEF Outcomes, Classes
<1> QED BY <1>2 DEF t

LEMMA LostIsSound ==
    ASSUME NEW s, Sound(s)
    PROVE  Sound(Lose(s))
<1> DEFINE t == Lose(s)
<1>1. Flags(t) /\ t.log = s.log /\ t.saw = s.saw
    BY DEF Sound, Lose, Flags, Fields
<1> HIDE DEF t
<1>2. Sound(t)
    BY <1>1, NothingRecorded
<1> QED BY <1>2 DEF t

\* The fields that no verdict depends on.
LEMMA OtherFields ==
    ASSUME NEW s, Sound(s), NEW x, NEW flag \in BOOLEAN
    PROVE  /\ Sound([s EXCEPT !.todo = x])
           /\ Sound([s EXCEPT !.last = x])
           /\ Sound([s EXCEPT !.missing = x])
           /\ Sound([s EXCEPT !.unchecked = flag])
<1>1. \A t : Flags(t) /\ t.log = s.log /\ t.saw = s.saw => Sound(t)
    BY NothingRecorded
<1>2. Flags(s)
    BY DEF Sound
<1> QED BY <1>1, <1>2 DEF Flags, Fields

LEMMA GoIsSound ==
    ASSUME NEW s, Sound(s), Go(s)
    PROVE  ScenarioInv'
<1>1. Sound([s EXCEPT !.todo = Tail(@)])
    <2>1. [s EXCEPT !.todo = Tail(@)] = [s EXCEPT !.todo = Tail(s.todo)]
        OBVIOUS
    <2> QED BY <2>1, OtherFields
<1> QED BY <1>1 DEF Go, ScenarioInv

LEMMA ThrowIsSound ==
    ASSUME Sound(scenario), Throw
    PROVE  ScenarioInv'
<1> DEFINE t == [scenario EXCEPT !.todo = <<>>, !.over = TRUE, !.saw = @ \cup {"unseen", "cut"}]
<1>1. Flags(t) /\ t.log = scenario.log /\ t.saw = scenario.saw \cup {"unseen", "cut"}
    BY DEF Sound, Flags, Fields
<1> HIDE DEF t
<1>2. Sound(t)
    BY <1>1 DEF Sound, Agree
<1> QED BY <1>2 DEF t, Throw, ScenarioInv

-----------------------------------------------------------------------------
(* A scenario *)

LEMMA NewIsSound == \A c : Sound(NewScenario(c))
<1> TAKE c
<1>1. /\ Flags(NewScenario(c)) /\ NewScenario(c).log = <<>> /\ NewScenario(c).saw = {}
    BY DEF NewScenario, Flags, Fields
<1>2. <<>> \in Logs /\ Agree(<<>>, {})
    BY DEF Logs, Agree, Has
<1> QED BY <1>1, <1>2 DEF Sound

LEMMA BegunIsSound ==
    ASSUME run \in Nat, NEW c, BeginVenue(c) \/ BeginOther(c) \/ BeginSpec(c)
    PROVE  ScenarioInv'
<1> DEFINE new == NewScenario(c)
<1>1. Sound(new)
    BY NewIsSound
<1> HIDE DEF new
<1>2. Sound(UsedChain(new)) /\ Sound(NoSnapshot(new)) /\ Sound(FreshChain(new))
    BY <1>1, UnseenIsSound, LostIsSound DEF UsedChain, NoSnapshot, FreshChain
<1>3. Sound(NoSnapshot(UsedChain(new)))
    BY <1>2, LostIsSound DEF NoSnapshot
<1>4. Sound(NoChain(new))
    BY <1>1, LostIsSound, OtherFields DEF NoChain
<1>5. CASE BeginVenue(c)
    BY <1>2, <1>3, <1>4, <1>5 DEF BeginVenue, ScenarioInv, new
<1>6. CASE BeginOther(c)
    BY <1>1, <1>6 DEF BeginOther, ScenarioInv, new
<1>7. CASE BeginSpec(c)
    <2>1. PICK test \in SpecTests : scenario' = [new EXCEPT !.todo = test, !.over = TRUE]
        BY <1>7 DEF BeginSpec, new
    <2> DEFINE s == [new EXCEPT !.todo = test, !.over = TRUE]
    <2>2. Flags(s) /\ s.log = new.log /\ s.saw = new.saw
        BY <1>1 DEF Sound, Flags, Fields
    <2> HIDE DEF s
    <2>3. Sound(s)
        BY <1>1, <2>2, NothingRecorded
    <2> QED BY <2>1, <2>3 DEF s, ScenarioInv
<1> QED BY <1>5, <1>6, <1>7

LEMMA TakeStepIsSound ==
    ASSUME Sound(scenario), TakeStep
    PROVE  ScenarioInv'
<1>1. PICK step : scenario' = [scenario EXCEPT !.todo = step]
    BY DEF TakeStep
<1>2. Sound([scenario EXCEPT !.todo = step])
    BY OtherFields
<1> QED BY <1>1, <1>2 DEF ScenarioInv

\* Stages that record nothing.
LEMMA QuietStages ==
    ASSUME Sound(scenario),
           \/ LocalStage \/ ActorStage \/ BareStage \/ PeekStage \/ ReadStage
           \/ FetchStage \/ AfterOkStage
    PROVE  ScenarioInv'
<1>1. Sound(Lose(scenario))
    BY LostIsSound
<1>2. Go(scenario) \/ Throw \/ Go(Lose(scenario))
    <2>1. CASE LocalStage \/ ActorStage \/ BareStage
        BY <2>1 DEF LocalStage, ActorStage, BareStage
    <2>2. CASE PeekStage \/ AfterOkStage
        BY <2>2 DEF PeekStage, AfterOkStage
    <2>3. CASE ReadStage \/ FetchStage
        BY <2>3 DEF ReadStage, FetchStage
    <2> QED BY <2>1, <2>2, <2>3
<1> QED BY <1>1, <1>2, GoIsSound, ThrowIsSound

\* Writes: what they set beside the outage decides no verdict by itself.
LEMMA WriteStages ==
    ASSUME Sound(scenario), AttemptStage \/ ActStage
    PROVE  ScenarioInv'
<1> DEFINE wrote(s, l) == [s EXCEPT !.last = l]
           reverted == [scenario EXCEPT !.last = "reverted", !.unchecked = TRUE]
           ok == [scenario EXCEPT !.last = "ok", !.unchecked = FALSE]
<1>1. Sound(Lose(scenario))
    BY LostIsSound
<1>2. Sound(wrote(scenario, "skipped")) /\ Sound(wrote(Lose(scenario), "skipped"))
    BY <1>1, OtherFields
<1>3. Sound(reverted) /\ Sound(ok)
    <2>1. /\ Flags(reverted) /\ reverted.log = scenario.log /\ reverted.saw = scenario.saw
          /\ Flags(ok) /\ ok.log = scenario.log /\ ok.saw = scenario.saw
        BY DEF Sound, Flags, Fields
    <2> HIDE DEF reverted, ok
    <2> QED BY <2>1, NothingRecorded
<1>4. \/ Go(scenario) \/ Throw \/ Go(Lose(scenario)) \/ Go(reverted) \/ Go(ok)
      \/ Go(wrote(scenario, "skipped")) \/ Go(wrote(Lose(scenario), "skipped"))
    BY DEF AttemptStage, ActStage
<1> HIDE DEF wrote, reverted, ok
<1> QED BY <1>1, <1>2, <1>3, <1>4, GoIsSound, ThrowIsSound

\* Stages that cannot see: an assertion is unobservable, and may block the rest.
LEMMA UnseenStages ==
    ASSUME Sound(scenario), run \in Nat, CatchUpStage \/ ArtifactStage \/ ClaimStage
    PROVE  ScenarioInv'
<1>1. Sound(Met(Unobservable(scenario), Unseen))
    BY UnseenIsSound
<1>2. Sound(Lose(Met(Unobservable(scenario), Unseen)))
    BY <1>1, LostIsSound
<1>3. \/ Go(scenario) \/ Throw \/ Go(Met(Unobservable(scenario), Unseen))
      \/ Go(Lose(Met(Unobservable(scenario), Unseen)))
    BY DEF CatchUpStage, ArtifactStage, ClaimStage
<1> QED BY <1>1, <1>2, <1>3, GoIsSound, ThrowIsSound

LEMMA ComparingStages ==
    ASSUME Sound(scenario), run \in Nat,
           LookStage \/ RecordedStage \/ SucceedsStage \/ RevertsStage
    PROVE  ScenarioInv'
<1> DEFINE settled == [scenario EXCEPT !.unchecked = FALSE]
           compared(s, agrees, class) == Met(Observe(s, agrees, class), Found(agrees))
<1>1. Sound(settled)
    BY OtherFields
<1>2. \A agrees \in BOOLEAN, class \in Classes :
         Sound(compared(scenario, agrees, class)) /\ Sound(compared(settled, agrees, class))
    <2> HIDE DEF settled
    <2> QED BY <1>1, ObservedIsSound
<1>3. Sound(Met(Unobservable(scenario), Unseen))
    BY UnseenIsSound
<1>4. "state" \in Classes /\ "call" \in Classes
    BY DEF Classes
<1>5. \/ Throw \/ Go(Met(Unobservable(scenario), Unseen))
      \/ \E agrees \in BOOLEAN : \/ Go(compared(scenario, agrees, "state"))
                                 \/ Go(compared(settled, agrees, "call"))
    <2>1. CASE SucceedsStage
        <3>1. Go(compared(settled, scenario.last = "ok", "call"))
            BY <2>1 DEF SucceedsStage
        <3> QED BY <3>1
    <2>2. CASE RevertsStage
        BY <2>2 DEF RevertsStage
    <2>3. CASE LookStage \/ RecordedStage
        BY <2>3 DEF LookStage, RecordedStage
    <2> QED BY <2>1, <2>2, <2>3
<1> HIDE DEF compared
<1> QED BY <1>2, <1>3, <1>4, <1>5, GoIsSound, ThrowIsSound

\* A computation checked whether the scenario is blocked or not.
LEMMA NoteIsSound ==
    ASSUME Sound(scenario), run \in Nat, NoteStage
    PROVE  ScenarioInv'
<1> DEFINE noted(agrees) == [Check(scenario, agrees, "state") EXCEPT !.saw = scenario.saw \cup Found(agrees)]
<1>1. PICK agrees \in BOOLEAN : Go(noted(agrees))
    BY DEF NoteStage
<1> DEFINE t == noted(agrees)
           o == IF agrees THEN "PASS" ELSE "FAIL"
<1>2. /\ Flags(t) /\ t.log = Append(scenario.log, Assertion(o, "state"))
      /\ t.saw = scenario.saw \cup (IF agrees THEN {} ELSE {"mismatch"})
    BY DEF Sound, Check, Found, Flags, Fields
<1>3. /\ o \in Outcomes /\ "state" \in Classes /\ o # "UNOBSERVABLE"
      /\ o = "PASS" => agrees
      /\ o = "FAIL" => ~agrees
    BY DEF Outcomes, Classes
<1>4. Go(t)
    BY <1>1
<1> HIDE DEF t, o, noted
<1>5. Sound(t)
    BY <1>2, <1>3, OneRecorded
<1> QED BY <1>4, <1>5, GoIsSound

\* The catch-all: a failing assertion that met no mismatch.
LEMMA SwallowIsSound ==
    ASSUME Sound(scenario), run \in Nat, SwallowStage
    PROVE  ScenarioInv'
<1> DEFINE t == [Check(scenario, FALSE, "state") EXCEPT !.saw = scenario.saw \cup {"unseen", "swallowed"}]
<1>1. Go(t) \/ \E agrees \in BOOLEAN : Go(Met(Observe(scenario, agrees, "state"), Found(agrees)))
    BY DEF SwallowStage
<1>2. /\ Flags(t) /\ t.log = Append(scenario.log, Assertion("FAIL", "state"))
      /\ t.saw = scenario.saw \cup {"unseen", "swallowed"}
    BY DEF Sound, Check, Flags, Fields
<1> HIDE DEF t
<1>3. Sound(t)
    BY <1>2, OneRecorded DEF Outcomes, Classes
<1>4. \A agrees \in BOOLEAN : Sound(Met(Observe(scenario, agrees, "state"), Found(agrees)))
    BY ObservedIsSound DEF Classes
<1> QED BY <1>1, <1>3, <1>4, GoIsSound

LEMMA HarnessIsSound ==
    ASSUME ScenarioInv, run \in Nat, HarnessStep
    PROVE  ScenarioInv' /\ run' = run /\ Running
<1>1. Running
    BY DEF HarnessStep, TakeStep, AtRest, Stages, Facing,
           LocalStage, ActorStage, BareStage, PeekStage, ReadStage, FetchStage, AttemptStage,
           ActStage, AfterOkStage, CatchUpStage, ArtifactStage, LookStage, SwallowStage,
           RecordedStage, NoteStage, SucceedsStage, RevertsStage, ClaimStage
<1>2. Sound(scenario)
    BY <1>1 DEF ScenarioInv, Running
<1>3. ScenarioInv'
    BY <1>2, TakeStepIsSound, QuietStages, WriteStages, UnseenStages, ComparingStages,
       NoteIsSound, SwallowIsSound DEF HarnessStep, Stages
<1> QED BY <1>1, <1>3 DEF HarnessStep

\* What is filed for a scenario is what it deserves.
LEMMA RecordIsEarned ==
    ASSUME Sound(scenario), run \in Nat
    PROVE  Earned(RecordOf(scenario))
<1> DEFINE s == scenario
           log == AfterHooks(s).log
           saw == MetInAll(s)
<1>1. Flags(s) /\ s.log \in Logs /\ Agree(s.log, s.saw)
    BY DEF Sound
<1>2. Agree(log, saw)
    <2>1. CASE ~s.unchecked
        BY <1>1, <2>1 DEF AfterHooks, MetInAll
    <2>2. CASE s.unchecked
        <3> DEFINE a == Assertion("FAIL", "revert")
        <3>1. log = Append(s.log, a) /\ saw = s.saw \cup {"mismatch"}
            BY <1>1, <2>2 DEF AfterHooks, MetInAll, Check, Flags, Fields
        <3>2. /\ a \in [outcome : Outcomes, class : Classes, value : Nat]
              /\ a.outcome = "FAIL"
            BY DEF Assertion, Outcomes, Classes
        <3> HIDE DEF a, s, log, saw
        <3>3. /\ Has(log, "FAIL")
              /\ Has(log, "UNOBSERVABLE") <=> Has(s.log, "UNOBSERVABLE")
            BY <1>1, <3>1, <3>2, HasMore
        <3> QED BY <1>1, <3>1, <3>3 DEF Agree
    <2> QED BY <1>1, <2>1, <2>2 DEF Flags
<1>3. RecordOf(s).status = Grade(log) /\ RecordOf(s).truth = saw
    BY DEF RecordOf
<1> HIDE DEF s, log, saw
<1>4. CASE "mismatch" \in saw
    BY <1>2, <1>3, <1>4 DEF Agree, Grade, Truth, Earned, s
<1>5. CASE "swallowed" \in saw
    BY <1>2, <1>3, <1>5 DEF Agree, Grade, Truth, Earned, s
<1>6. CASE "mismatch" \notin saw /\ "swallowed" \notin saw
    BY <1>2, <1>3, <1>6 DEF Agree, Grade, Truth, Earned, s
<1> QED BY <1>4, <1>5, <1>6

-----------------------------------------------------------------------------
(* The queue and the report *)

\* Filing keeps the records in the order of their clock.
LEMMA FilingKeepsOrder ==
    ASSUME QueueOK, NEW r, r.ts = Len(queue) + 1, queue' = Append(queue, r)
    PROVE  /\ QueueOK'
           /\ DOMAIN queue' = DOMAIN queue \cup {Len(queue) + 1}
           /\ queue'[Len(queue) + 1] = r
           /\ \A i \in DOMAIN queue : queue'[i] = queue[i]
<1> DEFINE S == {queue[i] : i \in DOMAIN queue}
           n == Len(queue) + 1
<1>1. queue \in Seq(S)
    BY DEF QueueOK
<1> HIDE DEF S
<1>2. /\ DOMAIN queue = 1 .. Len(queue) /\ Len(queue) \in Nat
      /\ queue' \in Seq(S \cup {r}) /\ DOMAIN queue' = 1 .. n
      /\ queue'[n] = r /\ \A i \in 1 .. Len(queue) : queue'[i] = queue[i]
    <2>1. queue \in Seq(S \cup {r})
        BY <1>1
    <2> QED BY <1>1, <2>1
<1>3. queue' \in Seq({queue'[i] : i \in DOMAIN queue'})
    BY <1>2
<1>4. \A i \in DOMAIN queue' : queue'[i].ts = i
    BY <1>2 DEF QueueOK
<1>5. ASSUME NEW c \in CasesIn(queue')
      PROVE  \E i \in DOMAIN queue' : IsLastOf(queue', c, i)
    <2>1. CASE r.case = c
        BY <1>2, <2>1 DEF IsLastOf
    <2>2. CASE r.case # c
        <3>1. PICK k \in DOMAIN queue' : queue'[k].case = c
            BY <1>5 DEF CasesIn
        <3>2. k \in DOMAIN queue /\ queue[k].case = c
            BY <1>2, <2>2, <3>1
        <3>3. PICK i \in DOMAIN queue : IsLastOf(queue, c, i)
            BY <3>2 DEF QueueOK, CasesIn
        <3> QED BY <1>2, <2>2, <3>3 DEF IsLastOf
    <2> QED BY <2>1, <2>2
<1> QED BY <1>2, <1>3, <1>4, <1>5 DEF QueueOK

\* The record that latestByCase keeps is the last one of its case.
LEMMA LatestIsLast ==
    ASSUME QueueOK, NEW c, NEW i \in DOMAIN queue, IsLastOf(queue, c, i)
    PROVE  Latest(queue, c) = queue[i]
<1> DEFINE Newest(k) == /\ queue[k].case = c
                        /\ \A j \in DOMAIN queue :
                               queue[j].case = c => \/ queue[j].ts < queue[k].ts
                                                    \/ queue[j].ts = queue[k].ts /\ k <= j
<1>1. \A k \in DOMAIN queue : k \in Nat /\ queue[k].ts = k
    BY DEF QueueOK
<1>2. Newest(i)
    BY <1>1 DEF IsLastOf
<1>3. \A k \in DOMAIN queue : Newest(k) => k = i
    BY <1>1 DEF IsLastOf
<1>4. (CHOOSE k \in DOMAIN queue : Newest(k)) = i
    BY <1>2, <1>3
<1> QED BY <1>4 DEF Latest

-----------------------------------------------------------------------------
(* The steps of the pipeline *)

LEMMA InitHolds == Init => IInv
<1> SUFFICES ASSUME Init PROVE IInv
    OBVIOUS
<1>1. queue = <<>> /\ DOMAIN queue = {}
    BY DEF Init
<1>2. QueueOK
    BY <1>1 DEF QueueOK, CasesIn
<1> QED BY <1>1, <1>2 DEF Init, IInv, ScenarioInv, RunningInTests, Running, ReportIsCurrent,
                          PassedMeansCompared

\* Steps of a scenario leave the files and the phase alone.
LEMMA ScenarioSteps ==
    ASSUME IInv, StartScenario \/ DuringScenario
    PROVE  IInv'
<1>1. UNCHANGED <<run, phase, files, gate>>
    BY HarnessIsSound DEF StartScenario, DuringScenario, IInv
<1>2. ScenarioInv' /\ phase \in {"be", "fe", "specs"}
    <2>1. CASE StartScenario
        BY <2>1, BegunIsSound DEF StartScenario, InSuite, IInv
    <2>2. CASE DuringScenario
        BY <2>2, HarnessIsSound DEF DuringScenario, IInv, RunningInTests
    <2> QED BY <2>1, <2>2
<1>3. QueueOK' /\ (\A i \in DOMAIN queue' : Earned(queue'[i]))
    BY <1>1 DEF IInv, QueueOK, files
<1> QED BY <1>1, <1>2, <1>3 DEF IInv, RunningInTests, ReportIsCurrent, PassedMeansCompared,
                                Missing, Undeclared, Diverged, files

LEMMA EndScenarioStep ==
    ASSUME IInv, EndScenario
    PROVE  IInv'
<1>1. /\ Running /\ scenario' = Nothing
      /\ UNCHANGED <<run, phase, report, gate>>
      /\ queue' = queue \/ queue' = Append(queue, RecordOf(scenario))
    BY DEF EndScenario, Ended, AtRest
<1>2. Sound(scenario) /\ phase \in {"be", "fe", "specs"}
    BY <1>1 DEF IInv, ScenarioInv, RunningInTests, Running
<1>3. ScenarioInv' /\ RunningInTests' /\ ReportIsCurrent' /\ PassedMeansCompared'
    BY <1>1, <1>2 DEF IInv, ScenarioInv, RunningInTests, ReportIsCurrent, PassedMeansCompared
<1>4. QueueOK' /\ (\A i \in DOMAIN queue' : Earned(queue'[i]))
    <2>1. CASE queue' = queue
        BY <2>1 DEF IInv, QueueOK
    <2>2. CASE queue' = Append(queue, RecordOf(scenario))
        <3> DEFINE r == RecordOf(scenario)
        <3>1. r.ts = Len(queue) + 1
            BY DEF RecordOf
        <3>2. Earned(r)
            BY <1>2, RecordIsEarned DEF IInv
        <3> HIDE DEF r
        <3>3. QueueOK' /\ \A i \in DOMAIN queue' : queue'[i] = r \/ (i \in DOMAIN queue /\ queue'[i] = queue[i])
            BY <2>2, <3>1, FilingKeepsOrder DEF IInv, r
        <3> QED BY <3>2, <3>3 DEF IInv
    <2> QED BY <1>1, <2>1, <2>2
<1> QED BY <1>1, <1>3, <1>4 DEF IInv

\* Steps between scenarios that touch neither the queue nor the scenario.
LEMMA QuietQueue ==
    ASSUME IInv, UNCHANGED <<scenario, queue>>, run' \in Nat,
           RunningInTests', ReportIsCurrent', PassedMeansCompared'
    PROVE  IInv'
    BY DEF IInv, ScenarioInv, QueueOK

LEMMA PipelineSteps ==
    ASSUME IInv, \/ StartRun \/ EndSuite \/ Report \/ Gate \/ StartBugflow
                 \/ Upsert \/ EndRun \/ UNCHANGED rvars
    PROVE  IInv'
<1>1. UNCHANGED <<scenario, queue>> /\ run' \in Nat
    BY DEF IInv, StartRun, EndSuite, Report, Gate, StartBugflow, Upsert, EndRun, rvars, files
<1>2. RunningInTests'
    BY DEF IInv, RunningInTests, Running, Idle, StartRun, EndSuite, Report, Gate, StartBugflow,
           Upsert, EndRun, rvars, files
<1>3. ReportIsCurrent'
    BY DEF IInv, ReportIsCurrent, Idle, StartRun, EndSuite, Report, Gate, StartBugflow,
           Upsert, EndRun, rvars, files
<1>4. PassedMeansCompared'
    <2>1. CASE Gate
        BY <2>1 DEF Gate, PassedMeansCompared, Missing, Undeclared, Diverged, files
    <2>2. CASE StartRun \/ EndSuite \/ Report
        BY <2>2 DEF IInv, StartRun, EndSuite, Report, PassedMeansCompared, files
    <2>3. CASE StartBugflow \/ Upsert \/ EndRun \/ UNCHANGED rvars
        BY <2>3 DEF IInv, StartBugflow, Upsert, EndRun, rvars, PassedMeansCompared,
                    Missing, Undeclared, Diverged, files
    <2> QED BY <2>1, <2>2, <2>3
<1> QED BY <1>1, <1>2, <1>3, <1>4, QuietQueue

LEMMA KillAndClean ==
    ASSUME IInv, Kill \/ Clean
    PROVE  IInv'
<1>1. CASE Kill
    BY <1>1 DEF IInv, Kill, ScenarioInv, RunningInTests, Running, QueueOK, ReportIsCurrent,
                PassedMeansCompared
<1>2. CASE Clean
    <2>1. queue' = <<>> /\ DOMAIN queue' = {} /\ gate' = "none" /\ phase' = "idle"
          /\ UNCHANGED <<scenario, run>>
        BY <1>2 DEF Clean
    <2>2. QueueOK'
        BY <2>1 DEF QueueOK, CasesIn
    <2>3. RunningInTests'
        BY <1>2, <2>1 DEF IInv, RunningInTests, Running, Clean, Idle
    <2> QED BY <2>1, <2>2, <2>3 DEF IInv, ScenarioInv, ReportIsCurrent, PassedMeansCompared
<1> QED BY <1>1, <1>2

LEMMA StepHolds == IInv /\ [Next]_rvars => IInv'
    BY ScenarioSteps, EndScenarioStep, PipelineSteps, KillAndClean DEF Next

LEMMA InvHolds == Spec => []IInv
    BY InitHolds, StepHolds, PTL DEF Spec

-----------------------------------------------------------------------------
(* Lists: what filter and the nested loops of the bug flow return *)

\* Induction, over the set of what it has reached.
LEMMA AllNaturals ==
    ASSUME NEW G \in SUBSET Nat, 0 \in G, \A n \in G : n + 1 \in G
    PROVE  G = Nat
<1> DEFINE R == OpToRel(<, Nat)
           bad == Nat \ G
<1>1. IsWellFoundedOn(R, Nat)
    BY NatLessThanWellFounded
<1>2. \A x \in Nat, y \in Nat : y < x => <<y, x>> \in R
    BY DEF OpToRel
<1> HIDE DEF R
<1>3. SUFFICES ASSUME bad # {} PROVE FALSE
    OBVIOUS
<1>4. PICK x \in bad : \A y \in bad : ~ (<<y, x>> \in R)
    BY <1>1, <1>3, WFMin
<1>5. x \in Nat \ {0} /\ x - 1 \in Nat /\ x - 1 < x
    OBVIOUS
<1>6. x - 1 \in G
    BY <1>2, <1>4, <1>5
<1>7. x - 1 + 1 \in G /\ x - 1 + 1 = x
    BY <1>5, <1>6
<1> QED BY <1>7

\* What has been collected from a prefix, and g that collects from each.
Grown(s, q, I, k) == IF k = 0 THEN <<>> ELSE IF k \in I THEN Append(s, q[k]) ELSE s

Collects(g, q, I, n) == g = [k \in 0 .. n |-> Grown(g[k - 1], q, I, k)]

LEMMA CollectsAt ==
    ASSUME NEW g, NEW q, NEW I, NEW n, Collects(g, q, I, n)
    PROVE  \A k \in 0 .. n : g[k] = Grown(g[k - 1], q, I, k)
    BY DEF Collects

LEMMA CollectorExists ==
    ASSUME NEW q, NEW I, NEW n \in Nat
    PROVE  \E g : Collects(g, q, I, n)
<1> DEFINE good == {m \in Nat : \E g : Collects(g, q, I, m)}
<1>1. 0 \in good
    <2> DEFINE g == [k \in 0 .. 0 |-> <<>>]
    <2>1. \A k \in 0 .. 0 : Grown(g[k - 1], q, I, k) = <<>>
        BY DEF Grown
    <2>2. g = [k \in 0 .. 0 |-> Grown(g[k - 1], q, I, k)]
        BY <2>1
    <2> QED BY <2>2 DEF Collects
<1>2. ASSUME NEW m \in good PROVE m + 1 \in good
    <2>1. PICK g : Collects(g, q, I, m)
        OBVIOUS
    <2> DEFINE h == [k \in 0 .. m + 1 |-> Grown(g[k - 1], q, I, k)]
    <2>2. \A k \in 0 .. m : g[k] = Grown(g[k - 1], q, I, k)
        BY <2>1, CollectsAt
    <2>3. \A k \in 0 .. m : k \in 0 .. m + 1 /\ h[k] = g[k]
        BY <2>2
    <2>4. ASSUME NEW k \in 0 .. m + 1
          PROVE  Grown(g[k - 1], q, I, k) = Grown(h[k - 1], q, I, k)
        <3>1. CASE k = 0
            BY <3>1 DEF Grown
        <3>2. CASE k # 0
            <4>1. k - 1 \in 0 .. m
                BY <3>2
            <4> HIDE DEF h
            <4> QED BY <4>1, <2>3
        <3> QED BY <3>1, <3>2
    <2>5. h = [k \in 0 .. m + 1 |-> Grown(h[k - 1], q, I, k)]
        BY <2>4
    <2>6. Collects(h, q, I, m + 1)
        BY <2>5 DEF Collects
    <2> QED BY <2>6
<1>3. good = Nat
    <2>1. good \in SUBSET Nat
        OBVIOUS
    <2> HIDE DEF good
    <2> QED BY <2>1, <1>1, <1>2, AllNaturals
<1> QED BY <1>3

LEMMA FilterIs ==
    ASSUME NEW q, NEW I, Len(q) \in Nat
    PROVE  \E g : Collects(g, q, I, Len(q)) /\ Filter(q, I) = g[Len(q)]
<1> DEFINE g == CHOOSE g : Collects(g, q, I, Len(q))
<1>1. Collects(g, q, I, Len(q))
    BY CollectorExists
<1>2. Filter(q, I) = g[Len(q)]
    BY DEF Filter, Collects, Grown
<1> QED BY <1>1, <1>2

LEMMA ToSetAppend ==
    ASSUME NEW S, NEW s \in Seq(S), NEW x
    PROVE  /\ ToSet(Append(s, x)) = ToSet(s) \cup {x}
           /\ x \in S => Append(s, x) \in Seq(S)
<1> DEFINE n == Len(s)
           t == Append(s, x)
<1>1. n \in Nat /\ DOMAIN s = 1 .. n
    OBVIOUS
<1>2. DOMAIN t = 1 .. n + 1 /\ t[n + 1] = x /\ \A i \in 1 .. n : t[i] = s[i]
    OBVIOUS
<1>3. x \in S => t \in Seq(S)
    OBVIOUS
<1> HIDE DEF t
<1>4. ToSet(t) = ToSet(s) \cup {x}
    BY <1>1, <1>2 DEF ToSet
<1> QED BY <1>3, <1>4 DEF t

\* Filtering keeps a sequence a sequence, and of it exactly what is asked for.
LEMMA FilterPicks ==
    ASSUME NEW S, NEW q \in Seq(S), NEW I
    PROVE  /\ Filter(q, I) \in Seq(S)
           /\ ToSet(Filter(q, I)) = {q[i] : i \in I \cap DOMAIN q}
<1> DEFINE n == Len(q)
           upTo(k) == {q[i] : i \in I \cap 1 .. k}
<1>1. n \in Nat /\ DOMAIN q = 1 .. n /\ \A k \in 1 .. n : q[k] \in S
    OBVIOUS
<1>2. PICK g : Collects(g, q, I, n) /\ Filter(q, I) = g[n]
    BY <1>1, FilterIs
<1>3. g[0] = <<>> /\ \A k \in 1 .. n : g[k] = IF k \in I THEN Append(g[k - 1], q[k]) ELSE g[k - 1]
    <2>1. 0 \in 0 .. n /\ \A k \in 1 .. n : k \in 0 .. n /\ k # 0
        BY <1>1
    <2> HIDE DEF n
    <2>2. \A k \in 0 .. n : g[k] = Grown(g[k - 1], q, I, k)
        BY <1>2, CollectsAt DEF n
    <2> QED BY <2>1, <2>2 DEF Grown
<1> DEFINE good == {k \in Nat : k <= n => g[k] \in Seq(S) /\ ToSet(g[k]) = upTo(k)}
<1>4. 0 \in good
    <2>1. <<>> \in Seq(S) /\ ToSet(<<>>) = {}
        BY DEF ToSet
    <2>2. upTo(0) = {}
        OBVIOUS
    <2> QED BY <2>1, <2>2, <1>3
<1>5. ASSUME NEW k \in good PROVE k + 1 \in good
    <2> SUFFICES ASSUME k + 1 <= n
                 PROVE  g[k + 1] \in Seq(S) /\ ToSet(g[k + 1]) = upTo(k + 1)
        OBVIOUS
    <2>1. /\ g[k] \in Seq(S) /\ ToSet(g[k]) = upTo(k) /\ k + 1 \in 1 .. n
          /\ g[k + 1] = IF k + 1 \in I THEN Append(g[k], q[k + 1]) ELSE g[k]
        BY <1>1, <1>3
    <2>2. CASE k + 1 \in I
        <3> DEFINE x == q[k + 1]
                   s == g[k]
        <3>1. upTo(k + 1) = upTo(k) \cup {x}
            BY <2>1, <2>2
        <3>2. x \in S /\ s \in Seq(S) /\ g[k + 1] = Append(s, x) /\ ToSet(s) = upTo(k)
            BY <1>1, <2>1, <2>2
        <3> HIDE DEF x, s
        <3>3. Append(s, x) \in Seq(S) /\ ToSet(Append(s, x)) = ToSet(s) \cup {x}
            BY <3>2, ToSetAppend
        <3> QED BY <3>1, <3>2, <3>3
    <2>3. CASE k + 1 \notin I
        <3>1. upTo(k + 1) = upTo(k)
            BY <2>1, <2>3
        <3> QED BY <3>1, <2>1, <2>3
    <2> QED BY <2>2, <2>3
<1>6. good = Nat
    <2>1. good \in SUBSET Nat
        OBVIOUS
    <2> HIDE DEF good
    <2> QED BY <2>1, <1>4, <1>5, AllNaturals
<1>7. n \in good
    BY <1>1, <1>6
<1> QED BY <1>1, <1>2, <1>7

\* The same for the concatenation of a sequence of sequences.
Joined(s, ss, k) == IF k = 1 THEN ss[k] ELSE s \o ss[k]

Joins(g, ss, n) == g = [k \in 1 .. n |-> Joined(g[k - 1], ss, k)]

LEMMA JoinsAt ==
    ASSUME NEW g, NEW ss, NEW n, Joins(g, ss, n)
    PROVE  \A k \in 1 .. n : g[k] = Joined(g[k - 1], ss, k)
    BY DEF Joins

LEMMA JoinerExists ==
    ASSUME NEW ss, NEW n \in Nat
    PROVE  \E g : Joins(g, ss, n)
<1> DEFINE good == {m \in Nat : \E g : Joins(g, ss, m)}
<1>1. 0 \in good
    <2> DEFINE g == [k \in 1 .. 0 |-> Joined({}, ss, k)]
    <2>1. g = [k \in 1 .. 0 |-> Joined(g[k - 1], ss, k)]
        OBVIOUS
    <2> QED BY <2>1 DEF Joins
<1>2. ASSUME NEW m \in good PROVE m + 1 \in good
    <2>1. PICK g : Joins(g, ss, m)
        OBVIOUS
    <2> DEFINE h == [k \in 1 .. m + 1 |-> Joined(g[k - 1], ss, k)]
    <2>2. \A k \in 1 .. m : g[k] = Joined(g[k - 1], ss, k)
        BY <2>1, JoinsAt
    <2>3. \A k \in 1 .. m : k \in 1 .. m + 1 /\ h[k] = g[k]
        BY <2>2
    <2>4. ASSUME NEW k \in 1 .. m + 1
          PROVE  Joined(g[k - 1], ss, k) = Joined(h[k - 1], ss, k)
        <3>1. CASE k = 1
            BY <3>1 DEF Joined
        <3>2. CASE k # 1
            <4>1. k - 1 \in 1 .. m
                BY <3>2
            <4> HIDE DEF h
            <4> QED BY <4>1, <2>3
        <3> QED BY <3>1, <3>2
    <2>5. h = [k \in 1 .. m + 1 |-> Joined(h[k - 1], ss, k)]
        BY <2>4
    <2>6. Joins(h, ss, m + 1)
        BY <2>5 DEF Joins
    <2> QED BY <2>6
<1>3. good = Nat
    <2>1. good \in SUBSET Nat
        OBVIOUS
    <2> HIDE DEF good
    <2> QED BY <2>1, <1>1, <1>2, AllNaturals
<1> QED BY <1>3

LEMMA ToSetConcat ==
    ASSUME NEW S, NEW s \in Seq(S), NEW t \in Seq(S)
    PROVE  s \o t \in Seq(S) /\ ToSet(s \o t) = ToSet(s) \cup ToSet(t)
<1> DEFINE m == Len(s)
           n == Len(t)
           u == s \o t
<1>1. m \in Nat /\ n \in Nat /\ DOMAIN s = 1 .. m /\ DOMAIN t = 1 .. n /\ u \in Seq(S)
    OBVIOUS
<1>2. /\ DOMAIN u = 1 .. m + n
      /\ \A i \in 1 .. m : u[i] = s[i]
      /\ \A i \in 1 .. n : u[m + i] = t[i]
    OBVIOUS
<1> HIDE DEF u, m, n
<1>3. ToSet(s) \cup ToSet(t) \subseteq ToSet(u)
    <2>1. \A i \in 1 .. m : i \in 1 .. m + n
        BY <1>1
    <2>2. \A i \in 1 .. n : m + i \in 1 .. m + n
        BY <1>1
    <2> QED BY <1>1, <1>2, <2>1, <2>2 DEF ToSet
<1>4. ToSet(u) \subseteq ToSet(s) \cup ToSet(t)
    <2> SUFFICES ASSUME NEW i \in 1 .. m + n PROVE u[i] \in ToSet(s) \cup ToSet(t)
        BY <1>2 DEF ToSet
    <2>1. CASE i <= m
        <3>1. i \in 1 .. m
            BY <1>1, <2>1
        <3> QED BY <3>1, <1>1, <1>2 DEF ToSet
    <2>2. CASE ~(i <= m)
        <3>1. i - m \in 1 .. n /\ m + (i - m) = i
            BY <1>1, <2>2
        <3>2. u[i] = t[i - m]
            BY <3>1, <1>2
        <3> QED BY <3>1, <3>2, <1>1 DEF ToSet
    <2> QED BY <2>1, <2>2
<1> QED BY <1>1, <1>3, <1>4 DEF u

LEMMA UnionAdds ==
    ASSUME NEW ss, NEW I, NEW x, NEW J, J = I \cup {x}
    PROVE  UNION {ToSet(ss[i]) : i \in J} = (UNION {ToSet(ss[i]) : i \in I}) \cup ToSet(ss[x])
<1> DEFINE all == UNION {ToSet(ss[i]) : i \in J}
           some == UNION {ToSet(ss[i]) : i \in I}
<1>1. \A y : y \in all <=> \E i \in J : y \in ToSet(ss[i])
    BY Zenon
<1>2. \A y : y \in some <=> \E i \in I : y \in ToSet(ss[i])
    BY Zenon
<1> HIDE DEF all, some
<1>3. all = some \cup ToSet(ss[x])
    <2> DEFINE new == ToSet(ss[x])
    <2>1. \A y : y \in all <=> (y \in some \/ y \in new)
        <3> SUFFICES ASSUME NEW y
                     PROVE  (\E i \in J : y \in ToSet(ss[i])) <=>
                              ((\E i \in I : y \in ToSet(ss[i])) \/ y \in ToSet(ss[x]))
            BY Zenon, <1>1, <1>2
        <3> QED OBVIOUS
    <2> HIDE DEF new
    <2>2. all = some \cup new
        BY <2>1
    <2> QED BY Zenon, <2>2 DEF new
<1> QED BY Zenon, <1>3 DEF all, some

LEMMA FlattenJoins ==
    ASSUME NEW S, NEW ss \in Seq(Seq(S))
    PROVE  /\ FlattenSeq(ss) \in Seq(S)
           /\ ToSet(FlattenSeq(ss)) = UNION {ToSet(ss[i]) : i \in DOMAIN ss}
<1> DEFINE n == Len(ss)
           upTo(k) == UNION {ToSet(ss[i]) : i \in 1 .. k}
<1>1. n \in Nat /\ DOMAIN ss = 1 .. n /\ \A k \in 1 .. n : ss[k] \in Seq(S)
    OBVIOUS
<1>2. CASE n = 0
    <2>1. FlattenSeq(ss) = <<>>
        BY <1>2 DEF FlattenSeq
    <2>2. <<>> \in Seq(S) /\ ToSet(<<>>) = {}
        BY DEF ToSet
    <2>3. UNION {ToSet(ss[i]) : i \in DOMAIN ss} = {}
        BY <1>1, <1>2
    <2> QED BY <2>1, <2>2, <2>3
<1>3. CASE n # 0
    <2> DEFINE g == CHOOSE g : Joins(g, ss, n)
    <2>1. Joins(g, ss, n)
        BY <1>1, JoinerExists
    <2>2. FlattenSeq(ss) = g[n]
        BY <1>3 DEF FlattenSeq, Joins, Joined
    <2> HIDE DEF g
    <2>3. \A k \in 1 .. n : g[k] = Joined(g[k - 1], ss, k)
        <3> HIDE DEF n
        <3> QED BY <2>1, JoinsAt
    <2> DEFINE good == {k \in Nat : k \in 1 .. n => g[k] \in Seq(S) /\ ToSet(g[k]) = upTo(k)}
    <2>4. 0 \in good
        OBVIOUS
    <2>5. ASSUME NEW k \in good PROVE k + 1 \in good
        <3> SUFFICES ASSUME k + 1 \in 1 .. n
                     PROVE  g[k + 1] \in Seq(S) /\ ToSet(g[k + 1]) = upTo(k + 1)
            OBVIOUS
        <3>1. ss[k + 1] \in Seq(S) /\ upTo(k + 1) = upTo(k) \cup ToSet(ss[k + 1])
            <4>1. 1 .. k + 1 = (1 .. k) \cup {k + 1}
                OBVIOUS
            <4>2. ss[k + 1] \in Seq(S)
                <5> DEFINE j == k + 1
                <5>1. j \in 1 .. n
                    OBVIOUS
                <5> HIDE DEF n, j, good
                <5>2. ss[j] \in Seq(S)
                    BY <5>1, <1>1
                <5> QED BY Zenon, <5>2 DEF j
            <4>3. upTo(k + 1) = upTo(k) \cup ToSet(ss[k + 1])
                <5> DEFINE I == 1 .. k
                           J == 1 .. k + 1
                           x == k + 1
                <5>1. J = I \cup {x}
                    BY Zenon, <4>1
                <5> HIDE DEF I, J, x, n, good
                <5>2. UNION {ToSet(ss[i]) : i \in J} = (UNION {ToSet(ss[i]) : i \in I}) \cup ToSet(ss[x])
                    BY <5>1, UnionAdds
                <5> QED BY Zenon, <5>2 DEF I, J, x
            <4> QED BY Zenon, <4>2, <4>3
        <3>2. CASE k = 0
            <4>1. g[k + 1] = ss[k + 1]
                <5>1. k + 1 = 1
                    BY <3>2
                <5> HIDE DEF n, good
                <5>2. g[1] = Joined(g[0], ss, 1)
                    <6>1. 1 \in 1 .. n
                        BY <5>1
                    <6> QED BY <6>1, <2>3
                <5> QED BY <5>1, <5>2 DEF Joined
            <4>2. upTo(k) = {}
                BY <3>2
            <4> QED BY Zenon, <4>1, <4>2, <3>1
        <3>3. CASE k # 0
            <4> DEFINE s == g[k]
                       t == ss[k + 1]
            <4>1. k \in 1 .. n
                BY <1>1, <3>3
            <4>2. s \in Seq(S) /\ ToSet(s) = upTo(k) /\ t \in Seq(S)
                BY <4>1, <3>1
            <4>3. g[k + 1] = s \o t
                <5>1. k + 1 \in 1 .. n /\ (k + 1) - 1 = k /\ k + 1 # 1
                    BY <3>3
                <5> HIDE DEF n
                <5>2. g[k + 1] = Joined(g[k], ss, k + 1)
                    BY <5>1, <2>3
                <5> QED BY <5>1, <5>2 DEF Joined
            <4>4. upTo(k + 1) = upTo(k) \cup ToSet(t)
                BY <3>1
            <4> HIDE DEF s, t, upTo
            <4>5. s \o t \in Seq(S) /\ ToSet(s \o t) = ToSet(s) \cup ToSet(t)
                BY <4>2, ToSetConcat
            <4> QED BY <4>2, <4>3, <4>4, <4>5
        <3> QED BY <3>2, <3>3
    <2>6. good = Nat
        <3>1. good \in SUBSET Nat
            OBVIOUS
        <3> HIDE DEF good
        <3> QED BY <3>1, <2>4, <2>5, AllNaturals
    <2>7. n \in good /\ n \in 1 .. n
        <3> HIDE DEF good, n
        <3> QED BY <1>1, <1>3, <2>6
    <2> HIDE DEF n
    <2> QED BY <1>1, <2>2, <2>7
<1> QED BY <1>2, <1>3
-----------------------------------------------------------------------------
(* Issues *)

\* A case has a record in which an assertion failed with this signature.
FailedWith(q, c, signature) ==
    \E r \in DOMAIN q : \E k \in DOMAIN q[r].failures :
        q[r].case = c /\ SignatureFor(c, q[r].failures[k]) = signature

\* Only a failed record has failing assertions.
RecordsTell ==
    \A r \in DOMAIN queue :
        /\ queue[r].failures \in Seq(ToSet(queue[r].failures))
        /\ queue[r].failures # <<>> => queue[r].status = "Failed"

IssueFields == {"id", "signature", "case", "failure", "related"}

\* An issue has the signature of the failure it was opened for, and lists cases that failed so.
IssueOK(q, issue, nextId) ==
    /\ DOMAIN issue = IssueFields
    /\ issue.id \in Nat /\ issue.id < nextId
    /\ issue.signature = SignatureFor(issue.case, issue.failure)
    /\ issue.related \in Seq(ToSet(issue.related))
    /\ \A c \in ToSet(issue.related) : FailedWith(q, c, issue.signature)

\* The tracker: ids in use are below the next one; one issue to a signature.
TrackerOK ==
    /\ tracker = [nextId |-> tracker.nextId, issues |-> tracker.issues]
    /\ tracker.nextId \in Nat
    /\ tracker.issues \in Seq(ToSet(tracker.issues))
    /\ \A i \in DOMAIN tracker.issues : IssueOK(queue, tracker.issues[i], tracker.nextId)
    /\ \A i, j \in DOMAIN tracker.issues :
           i # j => /\ tracker.issues[i].id # tracker.issues[j].id
                    /\ tracker.issues[i].signature # tracker.issues[j].signature

\* What is still to be filed did happen.
ProblemOK(problem) ==
    /\ problem.signature = SignatureFor(problem.case, problem.failure)
    /\ FailedWith(queue, problem.case, problem.signature)

ProblemsOK ==
    phase = "filing" =>
        /\ problems \in Seq(ToSet(problems))
        /\ \A k \in DOMAIN problems : ProblemOK(problems[k])

Listed(c, signature) ==
    \E i \in DOMAIN tracker.issues :
        /\ tracker.issues[i].signature = signature
        /\ c \in ToSet(tracker.issues[i].related)

Waiting(c, signature) ==
    \E k \in DOMAIN problems : problems[k].case = c /\ problems[k].signature = signature

\* A failure of a current verdict is filed, or is still waiting to be.
NoneForgotten ==
    phase \in {"filing", "done"} =>
        \A c \in CasesIn(queue) : \A k \in DOMAIN Latest(queue, c).failures :
            LET signature == SignatureFor(c, Latest(queue, c).failures[k])
            IN  Listed(c, signature) \/ (phase = "filing" /\ Waiting(c, signature))

Filed == RecordsTell /\ TrackerOK /\ ProblemsOK /\ NoneForgotten

\* Signatures tell problems apart, and nothing else does.
LEMMA SignaturesTell ==
    \A c, f, d, g : SameProblem(c, f, d, g) <=> SignatureFor(c, f) = SignatureFor(d, g)
    BY DEF SameProblem, SignatureFor, NormaliseDetail

LEMMA LeastExists ==
    ASSUME NEW S \in SUBSET Nat, S # {}
    PROVE  \E n \in S : \A k \in S : n <= k
<1> DEFINE R == OpToRel(<, Nat)
<1>1. IsWellFoundedOn(R, Nat)
    BY NatLessThanWellFounded
<1>2. \A x \in Nat, y \in Nat : y < x => <<y, x>> \in R
    BY DEF OpToRel
<1> HIDE DEF R
<1>3. PICK n \in S : \A k \in S : ~ (<<k, n>> \in R)
    BY <1>1, WFMin
<1>4. ASSUME NEW k \in S PROVE n <= k
    <2>1. n \in Nat /\ k \in Nat /\ ~(k < n)
        BY <1>2, <1>3
    <2> QED BY <2>1
<1> QED BY <1>4

LEMMA SeqOfMore ==
    ASSUME NEW T, NEW s \in Seq(T), NEW S, ToSet(s) \subseteq S
    PROVE  s \in Seq(S)
    BY DEF ToSet

LEMMA SeqOfItsOwn ==
    ASSUME NEW S, NEW s \in Seq(S)
    PROVE  s \in Seq(ToSet(s)) /\ ToSet(s) \subseteq S
    BY DEF ToSet

\* A log with failing assertions has a failure.
LEMMA FailuresAre ==
    ASSUME NEW log \in Logs
    PROVE  /\ FailuresOf(log) \in Seq(ToSet(FailuresOf(log)))
           /\ FailuresOf(log) # <<>> => Has(log, "FAIL")
<1> DEFINE q == [i \in DOMAIN log |-> [id |-> i, class |-> log[i].class, value |-> log[i].value]]
           S == {q[i] : i \in DOMAIN q}
           I == {i \in DOMAIN log : log[i].outcome = "FAIL"}
           fs == Filter(q, I)
<1>1. q \in Seq(S) /\ DOMAIN q = DOMAIN log
    BY DEF Logs
<1>2. FailuresOf(log) = fs
    BY DEF FailuresOf
<1> HIDE DEF q, S, I
<1>3. fs \in Seq(S) /\ ToSet(fs) = {q[i] : i \in I \cap DOMAIN q}
    BY <1>1, FilterPicks
<1> HIDE DEF fs
<1>4. fs \in Seq(ToSet(fs))
    BY <1>3, SeqOfItsOwn
<1>5. fs # <<>> => Has(log, "FAIL")
    <2> SUFFICES ASSUME fs # <<>> PROVE Has(log, "FAIL")
        OBVIOUS
    <2>1. fs[1] \in ToSet(fs)
        BY <1>3 DEF ToSet
    <2>2. PICK i \in I : TRUE
        BY <2>1, <1>3
    <2> QED BY <2>2 DEF I, Has
<1> QED BY <1>2, <1>4, <1>5

LEMMA RecordTells ==
    ASSUME Sound(scenario), run \in Nat
    PROVE  /\ RecordOf(scenario).failures \in Seq(ToSet(RecordOf(scenario).failures))
           /\ RecordOf(scenario).failures # <<>> => RecordOf(scenario).status = "Failed"
<1> DEFINE s == scenario
           log == AfterHooks(s).log
<1>1. Flags(s) /\ s.log \in Logs
    BY DEF Sound
<1>2. log \in Logs
    <2>1. CASE ~s.unchecked
        BY <1>1, <2>1 DEF AfterHooks
    <2>2. CASE s.unchecked
        <3> DEFINE a == Assertion("FAIL", "revert")
        <3>1. log = Append(s.log, a)
            BY <1>1, <2>2 DEF AfterHooks, Check, Flags, Fields
        <3>2. a \in [outcome : Outcomes, class : Classes, value : Nat]
            BY DEF Assertion, Outcomes, Classes
        <3> HIDE DEF a, s, log
        <3> QED BY <1>1, <3>1, <3>2, HasMore
    <2> QED BY <1>1, <2>1, <2>2 DEF Flags
<1>3. RecordOf(s).status = Grade(log) /\ RecordOf(s).failures = FailuresOf(log)
    BY DEF RecordOf
<1> HIDE DEF log
<1>4. Has(log, "FAIL") => Grade(log) = "Failed"
    BY DEF Grade
<1> QED BY <1>2, <1>3, <1>4, FailuresAre DEF s

\* Filing more records forgets no failure.
LEMMA FailedStays ==
    ASSUME QueueOK, NEW r, r.ts = Len(queue) + 1, queue' = Append(queue, r),
           NEW c, NEW signature, FailedWith(queue, c, signature)
    PROVE  FailedWith(queue', c, signature)
<1>1. \A i \in DOMAIN queue : i \in DOMAIN queue' /\ queue'[i] = queue[i]
    BY FilingKeepsOrder
<1> QED BY <1>1 DEF FailedWith

-----------------------------------------------------------------------------
(* What the bug flow sets out to file *)

\* Every case with a record is on the list of cases.
LEMMA EveryCase ==
    ASSUME QueueOK
    PROVE  /\ CaseOrder(queue) \in Seq(CasesIn(queue))
           /\ ToSet(CaseOrder(queue)) = CasesIn(queue)
<1> DEFINE q == [i \in DOMAIN queue |-> queue[i].case]
           I == {i \in DOMAIN queue : \A j \in DOMAIN queue : queue[j].case = queue[i].case => i <= j}
           C == CasesIn(queue)
<1>1. DOMAIN queue = 1 .. Len(queue) /\ Len(queue) \in Nat
    <2> DEFINE S == {queue[i] : i \in DOMAIN queue}
    <2>1. queue \in Seq(S)
        BY DEF QueueOK
    <2> HIDE DEF S
    <2> QED BY <2>1
<1>2. q \in Seq(C) /\ DOMAIN q = DOMAIN queue
    BY <1>1 DEF CasesIn
<1>3. CaseOrder(queue) = Filter(q, I)
    BY DEF CaseOrder
<1>4. ASSUME NEW c \in C PROVE \E i \in I : q[i] = c
    <2> DEFINE at == {i \in DOMAIN queue : queue[i].case = c}
    <2>1. at \in SUBSET Nat /\ at # {}
        BY <1>1 DEF CasesIn
    <2> HIDE DEF at
    <2>2. PICK i \in at : \A j \in at : i <= j
        BY <2>1, LeastExists
    <2> QED BY <2>2 DEF at
<1>5. \A i \in I : i \in DOMAIN q /\ q[i] \in C
    BY DEF CasesIn
<1> HIDE DEF q, I, C
<1>6. Filter(q, I) \in Seq(C) /\ ToSet(Filter(q, I)) = {q[i] : i \in I \cap DOMAIN q}
    BY <1>2, FilterPicks
<1> QED BY <1>3, <1>4, <1>5, <1>6 DEF C

ProblemsOf(c) ==
    LET record == Latest(queue, c)
    IN  IF record.status = "Failed" THEN ProblemsFrom(record) ELSE <<>>

\* One problem to a failing assertion of the case's latest record.
LEMMA ProblemsOfAre ==
    ASSUME QueueOK, RecordsTell, NEW c \in CasesIn(queue)
    PROVE  /\ ProblemsOf(c) \in Seq(ToSet(ProblemsOf(c)))
           /\ \A p \in ToSet(ProblemsOf(c)) : ProblemOK(p)
           /\ \A k \in DOMAIN Latest(queue, c).failures :
                 \E p \in ToSet(ProblemsOf(c)) :
                     /\ p.case = c
                     /\ p.signature = SignatureFor(c, Latest(queue, c).failures[k])
<1>1. PICK i \in DOMAIN queue : IsLastOf(queue, c, i)
    BY DEF QueueOK
<1> DEFINE record == queue[i]
           fs == record.failures
           ps == ProblemsFrom(record)
<1>2. Latest(queue, c) = record /\ record.case = c
    BY <1>1, LatestIsLast DEF IsLastOf
<1>3. fs \in Seq(ToSet(fs)) /\ (fs # <<>> => record.status = "Failed")
    BY DEF RecordsTell
<1>4. DOMAIN fs = 1 .. Len(fs) /\ Len(fs) \in Nat
    <2> HIDE DEF fs
    <2> QED BY <1>3
<1>5. ProblemsOf(c) = IF record.status = "Failed" THEN ps ELSE <<>>
    BY <1>2 DEF ProblemsOf
<1>6. DOMAIN ps = 1 .. Len(fs)
    BY <1>4 DEF ProblemsFrom
<1>7. \A k \in 1 .. Len(fs) :
         /\ ps[k].case = c /\ ps[k].failure = fs[k]
         /\ ps[k].signature = SignatureFor(c, fs[k])
    BY <1>2, <1>4 DEF ProblemsFrom
<1> HIDE DEF ps
<1>8. \A k \in DOMAIN ps : ProblemOK(ps[k])
    BY <1>2, <1>4, <1>6, <1>7 DEF ProblemOK, FailedWith
<1>9. ps \in Seq(ToSet(ps))
    <2>1. ps = [k \in 1 .. Len(fs) |-> ps[k]]
        BY <1>4 DEF ps, ProblemsFrom
    <2> DEFINE n == Len(fs)
    <2>2. n \in Nat /\ ps = [k \in 1 .. n |-> ps[k]] /\ \A k \in 1 .. n : ps[k] \in ToSet(ps)
        BY <1>4, <1>6, <2>1 DEF ToSet
    <2> HIDE DEF n
    <2> QED BY <2>2
<1>10. CASE record.status = "Failed"
    <2>1. ProblemsOf(c) = ps
        BY <1>5, <1>10
    <2>2. \A p \in ToSet(ps) : ProblemOK(p)
        BY <1>8 DEF ToSet
    <2>3. \A k \in DOMAIN fs : ps[k] \in ToSet(ps) /\ ps[k].case = c
                               /\ ps[k].signature = SignatureFor(c, fs[k])
        BY <1>4, <1>6, <1>7 DEF ToSet
    <2> QED BY <1>2, <1>9, <2>1, <2>2, <2>3
<1>11. CASE record.status # "Failed"
    <2>1. ProblemsOf(c) = <<>> /\ fs = <<>>
        BY <1>3, <1>5, <1>11
    <2>2. ToSet(<<>>) = {} /\ <<>> \in Seq({}) /\ DOMAIN <<>> = {}
        BY DEF ToSet
    <2> QED BY <1>2, <2>1, <2>2
<1> QED BY <1>10, <1>11

LEMMA AllProblemsAre ==
    ASSUME QueueOK, RecordsTell
    PROVE  /\ AllProblems \in Seq(ToSet(AllProblems))
           /\ \A p \in ToSet(AllProblems) : ProblemOK(p)
           /\ \A c \in CasesIn(queue) : \A k \in DOMAIN Latest(queue, c).failures :
                 \E p \in ToSet(AllProblems) :
                     /\ p.case = c
                     /\ p.signature = SignatureFor(c, Latest(queue, c).failures[k])
<1> DEFINE order == CaseOrder(queue)
           C == CasesIn(queue)
           ss == [k \in DOMAIN order |-> ProblemsOf(order[k])]
           S == UNION {ToSet(ProblemsOf(c)) : c \in C}
<1>1. order \in Seq(C) /\ ToSet(order) = C
    BY EveryCase
<1>2. AllProblems = FlattenSeq(ss)
    BY DEF AllProblems, ProblemsOf
<1> HIDE DEF order
<1>3. DOMAIN order = 1 .. Len(order) /\ Len(order) \in Nat /\ \A k \in DOMAIN order : order[k] \in C
    <2> HIDE DEF C
    <2> QED BY <1>1
<1>4. \A c \in C : ProblemsOf(c) \in Seq(S)
    <2> SUFFICES ASSUME NEW c \in C PROVE ProblemsOf(c) \in Seq(S)
        OBVIOUS
    <2>1. ProblemsOf(c) \in Seq(ToSet(ProblemsOf(c)))
        BY ProblemsOfAre
    <2>2. ToSet(ProblemsOf(c)) \subseteq S
        OBVIOUS
    <2> HIDE DEF S
    <2> QED BY <2>1, <2>2, SeqOfMore
<1> HIDE DEF S
<1>5. ss \in Seq(Seq(S)) /\ DOMAIN ss = DOMAIN order
    <2> DEFINE n == Len(order)
               T == Seq(S)
    <2>1. n \in Nat /\ DOMAIN order = 1 .. n /\ ss = [k \in 1 .. n |-> ProblemsOf(order[k])]
        BY <1>3
    <2>2. \A k \in 1 .. n : ProblemsOf(order[k]) \in T
        BY <1>3, <1>4
    <2> HIDE DEF n, T, ss
    <2>3. ss \in Seq(T) /\ DOMAIN ss = 1 .. n
        BY <2>1, <2>2
    <2> QED BY <2>1, <2>3 DEF T
<1>6. \A k \in DOMAIN order : ss[k] = ProblemsOf(order[k])
    OBVIOUS
<1> HIDE DEF ss
<1>7. /\ FlattenSeq(ss) \in Seq(S)
      /\ ToSet(FlattenSeq(ss)) = UNION {ToSet(ss[k]) : k \in DOMAIN ss}
    BY <1>5, FlattenJoins
<1>8. \A p \in ToSet(AllProblems) : ProblemOK(p)
    <2> SUFFICES ASSUME NEW p \in ToSet(AllProblems) PROVE ProblemOK(p)
        OBVIOUS
    <2>1. PICK k \in DOMAIN order : p \in ToSet(ProblemsOf(order[k]))
        BY <1>2, <1>5, <1>6, <1>7
    <2> QED BY <2>1, <1>3, ProblemsOfAre
<1>9. \A c \in C : ToSet(ProblemsOf(c)) \subseteq ToSet(AllProblems)
    <2> SUFFICES ASSUME NEW c \in C, NEW p \in ToSet(ProblemsOf(c)) PROVE p \in ToSet(AllProblems)
        OBVIOUS
    <2>1. PICK k \in DOMAIN order : order[k] = c
        BY <1>1 DEF ToSet
    <2> QED BY <2>1, <1>2, <1>5, <1>6, <1>7
<1>10. AllProblems \in Seq(ToSet(AllProblems))
    BY <1>2, <1>7, SeqOfItsOwn
<1>11. ASSUME NEW c \in C, NEW k \in DOMAIN Latest(queue, c).failures
       PROVE  \E p \in ToSet(AllProblems) :
                  /\ p.case = c
                  /\ p.signature = SignatureFor(c, Latest(queue, c).failures[k])
    <2>1. PICK p \in ToSet(ProblemsOf(c)) :
              p.case = c /\ p.signature = SignatureFor(c, Latest(queue, c).failures[k])
        BY ProblemsOfAre
    <2> QED BY <2>1, <1>9
<1> QED BY <1>8, <1>10, <1>11

-----------------------------------------------------------------------------
(* Filing *)

\* A tracker that was added to, and not emptied: what it lists stays listed.
Grows == \A c, signature : Listed(c, signature) => Listed(c, signature)'

LEMMA IssueStays ==
    ASSUME NEW q, NEW issue, NEW next \in Nat, IssueOK(q, issue, next)
    PROVE  IssueOK(q, issue, next + 1) /\ issue.id # next
    BY DEF IssueOK

\* A new issue: its signature is new, and so is its id.
LEMMA CreateFiles ==
    ASSUME TrackerOK, NEW problem, ProblemOK(problem), Matching(problem.signature) = {},
           Create(problem), queue' = queue
    PROVE  TrackerOK' /\ Grows /\ Listed(problem.case, problem.signature)'
<1> DEFINE new == NewIssue(problem)
           issues == tracker.issues
           n == Len(issues)
           next == tracker.nextId
<1>1. /\ issues \in Seq(ToSet(issues)) /\ n \in Nat /\ DOMAIN issues = 1 .. n /\ next \in Nat
      /\ tracker' = [nextId |-> next + 1, issues |-> Append(issues, new)]
    <2>1. issues \in Seq(ToSet(issues)) /\ next \in Nat
        BY DEF TrackerOK
    <2>2. tracker' = [nextId |-> next + 1, issues |-> Append(issues, new)]
        BY DEF Create
    <2> HIDE DEF issues, new
    <2> QED BY <2>1, <2>2
<1>2. /\ new.related = <<problem.case>> /\ new.signature = problem.signature /\ new.id = next
      /\ new.case = problem.case /\ new.failure = problem.failure /\ DOMAIN new = IssueFields
    BY DEF NewIssue, IssueFields
<1>3. /\ <<problem.case>> \in Seq({problem.case}) /\ ToSet(<<problem.case>>) = {problem.case}
    BY DEF ToSet
<1>4. IssueOK(queue, new, next + 1)
    BY <1>1, <1>2, <1>3 DEF IssueOK, ProblemOK
<1>5. \A i \in 1 .. n : IssueOK(queue, issues[i], next) /\ issues[i].signature # problem.signature
    BY <1>1 DEF TrackerOK, Matching
<1>6. \A i \in 1 .. n : IssueOK(queue, issues[i], next + 1) /\ issues[i].id # next
    <2> HIDE DEF issues, next, n
    <2> QED BY <1>1, <1>5, IssueStays
<1>7. \A i, j \in 1 .. n : i # j => issues[i].id # issues[j].id /\ issues[i].signature # issues[j].signature
    BY <1>1 DEF TrackerOK
<1>8. PICK more : more = Append(issues, new)
    OBVIOUS
<1>9. /\ DOMAIN more = 1 .. n + 1 /\ more[n + 1] = new /\ (\A i \in 1 .. n : more[i] = issues[i])
      /\ more \in Seq(ToSet(more))
    <2> HIDE DEF new, issues
    <2>1. ToSet(more) = ToSet(issues) \cup {new}
        BY <1>1, <1>8, ToSetAppend
    <2>2. issues \in Seq(ToSet(more))
        BY <1>1, <2>1, SeqOfMore
    <2> QED BY <1>1, <1>8, <2>1, <2>2
<1>10. /\ tracker' = [nextId |-> next + 1, issues |-> more]
       /\ tracker'.nextId = next + 1 /\ tracker'.issues = more
    BY <1>1, <1>8
<1> HIDE DEF new, issues, n, next
<1>11. \A i \in 1 .. n + 1 : IssueOK(queue, more[i], next + 1)
    BY <1>1, <1>4, <1>6, <1>9
<1>12. \A i, j \in 1 .. n + 1 :
          i # j => more[i].id # more[j].id /\ more[i].signature # more[j].signature
    BY <1>1, <1>2, <1>5, <1>6, <1>7, <1>9
<1>13. TrackerOK'
    <2>1. next + 1 \in Nat /\ tracker' = [nextId |-> tracker'.nextId, issues |-> tracker'.issues]
        BY <1>1, <1>10
    <2> QED BY <2>1, <1>9, <1>10, <1>11, <1>12 DEF TrackerOK
<1>14. Grows
    BY <1>1, <1>9, <1>10 DEF Grows, Listed, issues
<1>15. Listed(problem.case, problem.signature)'
    <2>1. n + 1 \in 1 .. n + 1
        BY <1>1
    <2> QED BY <2>1, <1>2, <1>3, <1>9, <1>10 DEF Listed
<1> QED BY <1>13, <1>14, <1>15

\* A case attached to the issue that has its signature.
LEMMA AttachFiles ==
    ASSUME TrackerOK, NEW problem, ProblemOK(problem), NEW i \in Matching(problem.signature),
           Attach(i, problem.case), queue' = queue
    PROVE  TrackerOK' /\ Grows /\ Listed(problem.case, problem.signature)'
<1> DEFINE issues == tracker.issues
           issue == issues[i]
           c == problem.case
           next == tracker.nextId
           changed == [issue EXCEPT !.related = Append(issue.related, c)]
<1>1. /\ i \in DOMAIN issues /\ issue.signature = problem.signature
      /\ issues \in Seq(ToSet(issues)) /\ IssueOK(queue, issue, next)
      /\ tracker = [nextId |-> next, issues |-> issues]
    BY DEF Matching, TrackerOK
<1>2. issue.related \in Seq(ToSet(issue.related))
    BY <1>1 DEF IssueOK
<1>3. CASE Contains(issue.related, c)
    <2>1. tracker' = tracker
        BY <1>3 DEF Attach
    <2>2. c \in ToSet(issue.related)
        <3> DEFINE related == issue.related
        <3>1. related \in Seq(ToSet(related)) /\ Contains(related, c)
            BY <1>2, <1>3
        <3> HIDE DEF related
        <3>2. DOMAIN related = 1 .. Len(related)
            BY <3>1
        <3>3. c \in ToSet(related)
            BY <3>1, <3>2 DEF Contains, ToSet
        <3> QED BY <3>3 DEF related
    <2> QED BY <2>1, <2>2, <1>1 DEF TrackerOK, Grows, Listed
<1>4. CASE ~Contains(issue.related, c)
    <2>1. tracker' = [nextId |-> next, issues |-> [issues EXCEPT ![i] = changed]]
        <3>1. tracker' = [tracker EXCEPT !.issues[i].related = Append(@, c)]
            BY <1>4 DEF Attach
        <3>2. [tracker EXCEPT !.issues[i].related = Append(@, c)]
                = [tracker EXCEPT !.issues = [tracker.issues EXCEPT ![i] =
                     [tracker.issues[i] EXCEPT !.related = Append(tracker.issues[i].related, c)]]]
            OBVIOUS
        <3>3. \A x : [[nextId |-> next, issues |-> issues] EXCEPT !.issues = x]
                       = [nextId |-> next, issues |-> x]
            OBVIOUS
        <3>4. tracker' = [tracker EXCEPT !.issues = [issues EXCEPT ![i] = changed]]
            BY <3>1, <3>2
        <3> HIDE DEF changed, issues, next
        <3> QED BY <3>3, <3>4, <1>1
    <2>2. /\ DOMAIN changed = IssueFields /\ changed.related = Append(issue.related, c)
          /\ changed.id = issue.id /\ changed.signature = issue.signature
          /\ changed.case = issue.case /\ changed.failure = issue.failure
        BY <1>1 DEF IssueOK, IssueFields
    <2> DEFINE related == issue.related
               longer == Append(related, c)
    <2>3. ToSet(longer) = ToSet(related) \cup {c} /\ longer \in Seq(ToSet(longer))
        <3>1. related \in Seq(ToSet(related))
            BY <1>2
        <3> HIDE DEF related
        <3>2. ToSet(longer) = ToSet(related) \cup {c}
            BY <3>1, ToSetAppend
        <3>3. related \in Seq(ToSet(longer)) /\ c \in ToSet(longer)
            BY <3>1, <3>2, SeqOfMore
        <3> QED BY <3>2, <3>3, ToSetAppend
    <2>4. changed.related = longer
        BY <2>2
    <2> HIDE DEF longer, changed
    <2>5. IssueOK(queue, changed, next)
        <3>1. FailedWith(queue, c, changed.signature)
            BY <1>1, <2>2 DEF ProblemOK
        <3>2. \A d \in ToSet(changed.related) : FailedWith(queue, d, changed.signature)
            BY <1>1, <2>2, <2>3, <2>4, <3>1 DEF IssueOK
        <3> QED BY <1>1, <2>2, <2>3, <2>4, <3>2 DEF IssueOK
    <2>6. PICK more : more = [issues EXCEPT ![i] = changed]
        OBVIOUS
    <2>7. /\ DOMAIN more = DOMAIN issues /\ more[i] = changed
          /\ \A j \in DOMAIN issues : j # i => more[j] = issues[j]
        BY <1>1, <2>6
    <2>8. more \in Seq(ToSet(more))
        <3> DEFINE S == ToSet(more)
        <3>1. \A j \in DOMAIN issues : more[j] \in S
            BY <2>7 DEF ToSet
        <3> HIDE DEF S
        <3>2. DOMAIN issues = 1 .. Len(issues) /\ Len(issues) \in Nat
            <4> HIDE DEF issues
            <4> QED BY <1>1
        <3>3. more = [j \in DOMAIN issues |-> more[j]]
            BY <2>6
        <3> DEFINE n == Len(issues)
        <3>4. n \in Nat /\ more = [j \in 1 .. n |-> more[j]] /\ \A j \in 1 .. n : more[j] \in S
            BY <3>1, <3>2, <3>3
        <3> HIDE DEF n
        <3>5. more \in Seq(S)
            BY <3>4
        <3> QED BY <3>5 DEF S
    <2>9. /\ tracker' = [nextId |-> next, issues |-> more]
          /\ tracker'.nextId = next /\ tracker'.issues = more
        BY <2>1, <2>6
    <2>10. next \in Nat /\ \A j \in DOMAIN issues : IssueOK(queue, issues[j], next)
        BY DEF TrackerOK
    <2>11. \A j, k \in DOMAIN issues :
              j # k => issues[j].id # issues[k].id /\ issues[j].signature # issues[k].signature
        BY DEF TrackerOK
    <2> HIDE DEF issues, next
    <2>12. \A j \in DOMAIN more : IssueOK(queue, more[j], next)
        BY <2>5, <2>7, <2>10
    <2>13. \A j \in DOMAIN more : more[j].id = issues[j].id /\ more[j].signature = issues[j].signature
        BY <2>2, <2>7
    <2>14. TrackerOK'
        BY <2>7, <2>8, <2>9, <2>10, <2>11, <2>12, <2>13 DEF TrackerOK
    <2>15. \A j \in DOMAIN issues : ToSet(issues[j].related) \subseteq ToSet(more[j].related)
        BY <2>3, <2>4, <2>7
    <2>16. Grows
        BY <2>7, <2>9, <2>13, <2>15 DEF Grows, Listed, issues
    <2>17. Listed(c, problem.signature)'
        BY <1>1, <2>2, <2>3, <2>4, <2>7, <2>9 DEF Listed
    <2> QED BY <2>14, <2>16, <2>17
<1> QED BY <1>3, <1>4

-----------------------------------------------------------------------------
(***************************************************************************)
(* A filed verdict is the one the attempt deserves, for any catalogue and  *)
(* any number of steps, but for the attempts an error cut short and the    *)
(* one step with a catch-all: recorder.js, grade.js, the step definitions. *)
(***************************************************************************)
THEOREM VerdictsAreEarned == Spec => []VerdictIsEarned
<1>1. IInv => VerdictIsEarned
    BY DEF IInv, Earned, VerdictIsEarned
<1> QED BY <1>1, InvHolds, PTL

(***************************************************************************)
(* A gate that passed compared every declared case's latest attempt, and   *)
(* what that attempt really met is among what is declared, unless an error *)
(* cut it short after it had passed.                                       *)
(***************************************************************************)
THEOREM GateIsTruthful == Spec => []GateTellsTruth
<1>1. IInv => GateTellsTruth
    <2> SUFFICES ASSUME IInv, gate = "passed", NEW c \in DOMAIN Declared
                 PROVE  \E i \in DOMAIN queue :
                            /\ queue[i].case = c
                            /\ \A j \in DOMAIN queue : queue[j].case = c => j <= i
                            /\ \/ Truth(queue[i].truth) \in Declared[c]
                               \/ "cut" \in queue[i].truth /\ "Passed" \in Declared[c]
        BY DEF GateTellsTruth
    <2>1. Missing = {} /\ Diverged = {} /\ ReportIsCurrent /\ phase \in {"bugflow", "filing", "done"}
        BY DEF IInv, PassedMeansCompared
    <2>2. report = [d \in CasesIn(queue) |-> Latest(queue, d).status]
        BY <2>1 DEF ReportIsCurrent
    <2>3. c \in DOMAIN report /\ report[c] \in Declared[c]
        BY <2>1 DEF Missing, Diverged
    <2>4. PICK i \in DOMAIN queue : IsLastOf(queue, c, i)
        BY <2>2, <2>3 DEF IInv, QueueOK
    <2>5. queue[i].status \in Declared[c]
        BY <2>2, <2>3, <2>4, LatestIsLast DEF IInv
    <2>6. queue[i].status # "Failed"
        BY <2>5, DeclaredAssumption
    <2>7. \/ Truth(queue[i].truth) \in Declared[c]
          \/ "cut" \in queue[i].truth /\ "Passed" \in Declared[c]
        BY <2>5, <2>6 DEF IInv, Earned
    <2> QED BY <2>4, <2>7 DEF IsLastOf
<1> QED BY <1>1, InvHolds, PTL

-----------------------------------------------------------------------------
(* What the tracker says, over the steps of the pipeline *)

\* Steps that touch neither the records nor the tracker, and are not the bug flow.
LEMMA QuietTracker ==
    ASSUME Filed, UNCHANGED <<queue, tracker>>, phase' \notin {"filing", "done"}
    PROVE  Filed'
<1>1. RecordsTell' /\ TrackerOK'
    BY DEF Filed, RecordsTell, TrackerOK
<1> QED BY <1>1 DEF Filed, ProblemsOK, NoneForgotten

LEMMA FiledStarts == Init => Filed
<1> SUFFICES ASSUME Init PROVE Filed
    OBVIOUS
<1>1. /\ queue = <<>> /\ phase = "idle"
      /\ tracker = [nextId |-> 1, issues |-> <<>>]
    BY DEF Init, NoIssues
<1>2. tracker.nextId = 1 /\ tracker.issues = <<>>
    BY <1>1
<1>3. RecordsTell /\ TrackerOK
    BY <1>1, <1>2 DEF RecordsTell, TrackerOK
<1> QED BY <1>1, <1>3 DEF Filed, ProblemsOK, NoneForgotten

\* A record is filed: the issues are about failures that stay on record.
LEMMA RecordFiled ==
    ASSUME IInv, Filed, EndScenario
    PROVE  Filed'
<1>1. /\ Running /\ UNCHANGED <<phase, tracker>>
      /\ queue' = queue \/ queue' = Append(queue, RecordOf(scenario))
    BY DEF EndScenario, Ended, AtRest
<1>2. phase' \notin {"filing", "done"} /\ Sound(scenario) /\ run \in Nat /\ QueueOK
    BY <1>1 DEF IInv, RunningInTests, ScenarioInv, Running
<1>3. CASE queue' = queue
    BY <1>1, <1>2, <1>3, QuietTracker
<1>4. CASE queue' = Append(queue, RecordOf(scenario))
    <2> DEFINE r == RecordOf(scenario)
    <2>1. /\ r.ts = Len(queue) + 1 /\ r.failures \in Seq(ToSet(r.failures))
          /\ r.failures # <<>> => r.status = "Failed"
        BY <1>2, RecordTells DEF RecordOf
    <2>2. queue' = Append(queue, r)
        BY <1>4
    <2> HIDE DEF r
    <2>3. \A i \in DOMAIN queue' : queue'[i] = r \/ (i \in DOMAIN queue /\ queue'[i] = queue[i])
        BY <1>2, <2>1, <2>2, FilingKeepsOrder
    <2>4. RecordsTell'
        BY <2>1, <2>3 DEF Filed, RecordsTell
    <2>5. \A c, signature : FailedWith(queue, c, signature) => FailedWith(queue', c, signature)
        BY <1>2, <2>1, <2>2, FailedStays
    <2>6. \A issue, next : IssueOK(queue, issue, next) => IssueOK(queue', issue, next)
        BY <2>5 DEF IssueOK
    <2>7. TrackerOK'
        BY <1>1, <2>6 DEF Filed, TrackerOK
    <2> QED BY <1>2, <2>4, <2>7 DEF Filed, ProblemsOK, NoneForgotten
<1> QED BY <1>1, <1>3, <1>4

LEMMA BugflowStarts ==
    ASSUME IInv, Filed, StartBugflow
    PROVE  Filed'
<1>1. /\ problems' = AllProblems /\ phase' = "filing" /\ queue' = queue /\ tracker' = tracker
      /\ QueueOK /\ RecordsTell
    BY DEF StartBugflow, files, IInv, Filed
<1> DEFINE all == AllProblems
<1>2. /\ all \in Seq(ToSet(all))
      /\ \A p \in ToSet(all) : ProblemOK(p)
      /\ \A c \in CasesIn(queue) : \A k \in DOMAIN Latest(queue, c).failures :
            \E p \in ToSet(all) :
                /\ p.case = c
                /\ p.signature = SignatureFor(c, Latest(queue, c).failures[k])
    BY <1>1, AllProblemsAre
<1>3. problems' = all
    BY <1>1
<1> HIDE DEF all
<1>4. RecordsTell' /\ TrackerOK'
    BY <1>1 DEF Filed, RecordsTell, TrackerOK
<1>5. ProblemsOK'
    BY <1>1, <1>2, <1>3 DEF ProblemsOK, ProblemOK, ToSet
<1>6. \A c \in CasesIn(queue) : \A k \in DOMAIN Latest(queue, c).failures :
         Waiting(c, SignatureFor(c, Latest(queue, c).failures[k]))'
    <2> SUFFICES ASSUME NEW c \in CasesIn(queue), NEW k \in DOMAIN Latest(queue, c).failures
                 PROVE  Waiting(c, SignatureFor(c, Latest(queue, c).failures[k]))'
        OBVIOUS
    <2> DEFINE signature == SignatureFor(c, Latest(queue, c).failures[k])
    <2>1. PICK p \in ToSet(all) : p.case = c /\ p.signature = signature
        BY <1>2
    <2>2. signature' = signature
        BY <1>1
    <2> HIDE DEF signature
    <2>3. \E j \in DOMAIN problems' : problems'[j].case = c /\ problems'[j].signature = signature
        BY <1>3, <2>1 DEF ToSet
    <2> QED BY <2>2, <2>3 DEF Waiting, signature
<1>7. NoneForgotten'
    BY <1>1, <1>6 DEF NoneForgotten
<1> QED BY <1>4, <1>5, <1>7 DEF Filed

\* The head of the list is filed, the rest goes on waiting.
LEMMA UpsertFiles ==
    ASSUME Filed, Upsert
    PROVE  Filed'
<1>0. PICK problem : problem = Head(problems)
    OBVIOUS
<1>1. /\ phase = "filing" /\ phase' = "filing" /\ problems # <<>> /\ problems' = Tail(problems)
      /\ queue' = queue
    BY DEF Upsert
<1>2. /\ problems \in Seq(ToSet(problems)) /\ (\A k \in DOMAIN problems : ProblemOK(problems[k]))
      /\ RecordsTell /\ TrackerOK /\ NoneForgotten
    BY <1>1 DEF Filed, ProblemsOK
<1>3. /\ DOMAIN problems = 1 .. Len(problems) /\ Len(problems) \in Nat \ {0} /\ problem = problems[1]
      /\ DOMAIN problems' = 1 .. Len(problems) - 1
      /\ \A k \in 1 .. Len(problems) - 1 : problems'[k] = problems[k + 1]
    <2> DEFINE S == ToSet(problems)
    <2>1. problems \in Seq(S)
        BY <1>2
    <2> HIDE DEF S
    <2> QED BY <1>0, <1>1, <2>1
<1>4. ProblemOK(problem)
    BY <1>2, <1>3
<1>5. TrackerOK' /\ Grows /\ Listed(problem.case, problem.signature)'
    <2>1. CASE Matching(problem.signature) = {} /\ Create(problem)
        BY <2>1, <1>1, <1>2, <1>4, CreateFiles
    <2>2. CASE \E i \in Matching(problem.signature) : Attach(i, problem.case)
        BY <2>2, <1>1, <1>2, <1>4, AttachFiles
    <2> QED BY <1>0, <2>1, <2>2 DEF Upsert
<1>6. problems' \in Seq(ToSet(problems')) /\ \A k \in DOMAIN problems' : ProblemOK(problems'[k])
    <2>1. problems' \in Seq(ToSet(problems))
        <3> DEFINE S == ToSet(problems)
        <3>1. problems \in Seq(S)
            BY <1>2
        <3> HIDE DEF S
        <3>2. problems' \in Seq(S)
            BY <1>1, <3>1
        <3> QED BY <3>2 DEF S
    <2>2. \A k \in 1 .. Len(problems) - 1 : k + 1 \in 1 .. Len(problems)
        BY <1>3
    <2>3. \A k \in DOMAIN problems' : ProblemOK(problems'[k])
        BY <1>2, <1>3, <2>2
    <2> QED BY <2>1, <2>3, SeqOfItsOwn
<1>7. ProblemsOK'
    BY <1>1, <1>6 DEF ProblemsOK, ProblemOK
<1>8. ASSUME NEW c, NEW signature, Waiting(c, signature)
      PROVE  \/ c = problem.case /\ signature = problem.signature
             \/ Waiting(c, signature)'
    <2>1. PICK k \in DOMAIN problems : problems[k].case = c /\ problems[k].signature = signature
        BY <1>8 DEF Waiting
    <2>2. CASE k = 1
        BY <2>1, <2>2, <1>3
    <2>3. CASE k # 1
        <3>1. k - 1 \in 1 .. Len(problems) - 1 /\ (k - 1) + 1 = k
            BY <2>3, <1>3
        <3>2. k - 1 \in DOMAIN problems' /\ problems'[k - 1] = problems[k]
            BY <3>1, <1>3
        <3> QED BY <2>1, <3>2 DEF Waiting
    <2> QED BY <2>2, <2>3
<1>9. NoneForgotten'
    <2> SUFFICES ASSUME NEW c \in CasesIn(queue), NEW k \in DOMAIN Latest(queue, c).failures
                 PROVE  \A signature : signature = SignatureFor(c, Latest(queue, c).failures[k]) =>
                            Listed(c, signature)' \/ Waiting(c, signature)'
        BY <1>1 DEF NoneForgotten
    <2>0. PICK signature : signature = SignatureFor(c, Latest(queue, c).failures[k])
        OBVIOUS
    <2>1. Listed(c, signature) \/ Waiting(c, signature)
        BY <2>0, <1>1, <1>2 DEF NoneForgotten
    <2>3. Listed(c, signature) => Listed(c, signature)'
        BY <1>5 DEF Grows
    <2>4. Listed(c, signature)' \/ Waiting(c, signature)'
        BY <2>1, <2>3, <1>5, <1>8
    <2> QED BY <2>0, <2>4
<1>10. RecordsTell'
    BY <1>1, <1>2 DEF RecordsTell
<1> QED BY <1>5, <1>7, <1>9, <1>10 DEF Filed

\* Nothing waits any more: every failure of a current verdict is listed.
LEMMA FilingEnds ==
    ASSUME Filed, EndRun
    PROVE  Filed'
<1>1. /\ phase = "filing" /\ problems = <<>> /\ phase' = "done" /\ UNCHANGED <<queue, tracker, problems>>
    BY DEF EndRun, files
<1>2. RecordsTell' /\ TrackerOK' /\ ProblemsOK'
    BY <1>1 DEF Filed, RecordsTell, TrackerOK, ProblemsOK
<1>3. \A c, signature : ~Waiting(c, signature) /\ (Listed(c, signature) => Listed(c, signature)')
    BY <1>1 DEF Waiting, Listed
<1>4. NoneForgotten'
    BY <1>1, <1>3 DEF Filed, NoneForgotten
<1> QED BY <1>2, <1>4 DEF Filed

LEMMA FiledKept == IInv /\ Filed /\ [Next]_rvars => Filed'
<1> SUFFICES ASSUME IInv, Filed, [Next]_rvars PROVE Filed'
    OBVIOUS
<1>1. CASE StartScenario \/ DuringScenario
    <2>1. UNCHANGED <<queue, tracker, phase>>
        BY <1>1 DEF StartScenario, DuringScenario, files
    <2>2. phase \in {"be", "fe", "specs"}
        BY <1>1, HarnessIsSound DEF StartScenario, DuringScenario, InSuite, IInv, RunningInTests
    <2> QED BY <2>1, <2>2, QuietTracker
<1>2. CASE StartRun \/ EndSuite \/ Report \/ Gate \/ Kill
    <2>1. UNCHANGED <<queue, tracker>> /\ phase' \notin {"filing", "done"}
        BY <1>2 DEF StartRun, EndSuite, Report, Gate, Kill, files
    <2> QED BY <2>1, QuietTracker
<1>3. CASE Clean
    <2>1. queue' = <<>> /\ tracker' = [nextId |-> 1, issues |-> <<>>] /\ phase' = "idle"
        BY <1>3 DEF Clean, NoIssues
    <2>2. tracker'.nextId = 1 /\ tracker'.issues = <<>>
        BY <2>1
    <2>3. RecordsTell' /\ TrackerOK'
        BY <2>1, <2>2 DEF RecordsTell, TrackerOK
    <2> QED BY <2>1, <2>3 DEF Filed, ProblemsOK, NoneForgotten
<1>4. CASE UNCHANGED rvars
    <2>1. UNCHANGED <<queue, tracker, phase, problems>>
        BY <1>4 DEF rvars
    <2> QED BY <2>1 DEF Filed, RecordsTell, TrackerOK, ProblemsOK, NoneForgotten, ProblemOK, Listed, Waiting
<1> QED BY <1>1, <1>2, <1>3, <1>4, RecordFiled, BugflowStarts, UpsertFiles, FilingEnds DEF Next

(***************************************************************************)
(* One issue to a problem, for any catalogue and any number of runs, kills *)
(* and reruns: the tracker's adapter (bugflow/adapters/local.js) and the   *)
(* loops of bugflow/run.js.                                                *)
(***************************************************************************)
THEOREM IssuesAreProblems == Spec => []IssuePerProblem
<1>1. Spec => []Filed
    BY FiledStarts, FiledKept, InvHolds, PTL DEF Spec
<1>2. Filed => IssuePerProblem
    <2> SUFFICES ASSUME Filed PROVE IssuePerProblem
        OBVIOUS
    <2> DEFINE issues == tracker.issues
    <2>1. \A i \in DOMAIN issues :
             /\ issues[i].signature = SignatureFor(issues[i].case, issues[i].failure)
             /\ \A c \in ToSet(issues[i].related) : FailedWith(queue, c, issues[i].signature)
        BY DEF Filed, TrackerOK, IssueOK
    <2>2. \A i, j \in DOMAIN issues :
             i # j => issues[i].id # issues[j].id /\ issues[i].signature # issues[j].signature
        BY DEF Filed, TrackerOK
    <2>3. phase = "done" =>
             \A c \in CasesIn(queue) : \A k \in DOMAIN Latest(queue, c).failures :
                 Listed(c, SignatureFor(c, Latest(queue, c).failures[k]))
        BY DEF Filed, NoneForgotten
    <2> HIDE DEF issues
    <2>4. \A i, j \in DOMAIN issues :
             i # j => /\ issues[i].id # issues[j].id
                      /\ ~SameProblem(issues[i].case, issues[i].failure,
                                      issues[j].case, issues[j].failure)
        BY <2>1, <2>2, SignaturesTell
    <2>5. \A i \in DOMAIN issues : \A c \in ToSet(issues[i].related) :
             \E r \in DOMAIN queue : \E k \in DOMAIN queue[r].failures :
                 /\ queue[r].case = c
                 /\ SameProblem(c, queue[r].failures[k], issues[i].case, issues[i].failure)
        BY <2>1, SignaturesTell DEF FailedWith
    <2>6. ASSUME phase = "done", NEW c \in CasesIn(queue), NEW k \in DOMAIN Latest(queue, c).failures
          PROVE  \E i \in DOMAIN issues :
                     /\ c \in ToSet(issues[i].related)
                     /\ SameProblem(c, Latest(queue, c).failures[k], issues[i].case, issues[i].failure)
        BY <2>1, <2>3, <2>6, SignaturesTell DEF Listed, issues
    <2> QED BY <2>4, <2>5, <2>6 DEF IssuePerProblem, issues
<1> QED BY <1>1, <1>2, PTL

=============================================================================
