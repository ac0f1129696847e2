-------------------------- MODULE EodScheduleProofs --------------------------
(***************************************************************************)
(* What holds of the end-of-day schedule for every universe, chain, week   *)
(* and lookback: its types and the soundness of the silent scoring path.   *)
(***************************************************************************)
EXTENDS EodSchedule, TLAPS

USE DEF AtMorning, AtNoon, AtClose, AtCloseRun, AtCatchup, AtScoring, AtStrategy

\* The day the schedule moves to after a weekday is a weekday.
LEMMA AfterWeekday ==
  ASSUME NEW d \in Nat, IsWeekday(d)
  PROVE  ~IsWeekday(d + 1) => IsWeekday(d + 3)
<1>1. SUFFICES ASSUME d % 7 < 5, ~((d + 1) % 7 < 5) PROVE (d + 3) % 7 < 5
  BY DEF IsWeekday
<1>2. d % 7 = 4
  BY <1>1, SMTT(30)
<1>3. QED  BY <1>2, SMTT(30)

\* The weekend walk-back ends on a weekday at or before where it started, and
\* passes no weekday on the way.
LEMMA WalkBack ==
  ASSUME NEW d \in Nat
  PROVE  /\ LastSession(d) \in Nat /\ LastSession(d) <= d
         /\ IsWeekday(LastSession(d))
         /\ \A e \in Nat : IsWeekday(e) /\ e <= d => e <= LastSession(d)
<1>1. CASE IsWeekday(d)
  BY <1>1 DEF LastSession
<1>2. CASE ~IsWeekday(d)
  <2>1. d % 7 \in {5, 6}
    BY <1>2 DEF IsWeekday
  <2>2. CASE d % 7 = 5
    <3>1. LastSession(d) = d - 1 /\ (d - 1) % 7 = 4
      BY <2>2 DEF LastSession, IsWeekday
    <3>2. QED  BY <1>2, <2>2, <3>1 DEF IsWeekday
  <2>3. CASE d % 7 = 6
    <3>1. LastSession(d) = d - 2 /\ (d - 2) % 7 = 4 /\ (d - 1) % 7 = 5
      BY <2>3 DEF LastSession, IsWeekday
    <3>2. QED  BY <1>2, <2>3, <3>1 DEF IsWeekday
  <2>4. QED  BY <2>1, <2>2, <2>3
<1>3. QED  BY <1>1, <1>2

-----------------------------------------------------------------------------
(* Type correctness *)

LEMMA IdleTypes == IdleRun \in RunType /\ IdleScorer \in ScorerType
BY ScheduleAssumption DEF IdleRun, RunType, IdleScorer, ScorerType, Days, Phases

\* The updates the steps make to a run stay within its type.
LEMMA RunMoves ==
  ASSUME NEW r \in RunType
  PROVE  [r EXCEPT !.pc = "fetch"] \in RunType /\ [r EXCEPT !.pc = "index"] \in RunType
BY DEF RunType

LEMMA RunAnswered ==
  ASSUME NEW r \in RunType, NEW p \in Phases, NEW l \in [Symbols -> 0 .. LastDay]
  PROVE  [r EXCEPT !.pc = "write", !.last = l, !.phase = p] \in RunType
BY DEF RunType

LEMMA RunIndexed ==
  ASSUME NEW r \in RunType, NEW p \in Phases, NEW i \in 0 .. LastDay
  PROVE  [r EXCEPT !.pc = "indexwrite", !.indexLast = i, !.phase = p] \in RunType
BY DEF RunType

\* The session a run expects, and the day it asks up to, are modelled days.
LEMMA ExpectedType ==
  ASSUME TypeOK
  PROVE  /\ ExpectedSession \in Days /\ ExpectedSession <= day
         /\ EndDay \in Days /\ EndDay <= day
<1> DEFINE d == IF slot < AtClose THEN day - 1 ELSE day
<1>1. day \in Nat /\ FirstDay \in Nat /\ FirstDay < day /\ day <= LastDay /\ LastDay \in Nat
  BY ScheduleAssumption DEF TypeOK, Days
<1>2. d \in Nat /\ FirstDay <= d /\ d <= day
  BY <1>1
<1>3. LastSession(d) \in Nat /\ LastSession(d) <= d /\ FirstDay <= LastSession(d)
  BY <1>1, <1>2, WalkBack, ScheduleAssumption
<1>4. ExpectedSession \in Days /\ ExpectedSession <= day
  BY <1>1, <1>2, <1>3 DEF ExpectedSession, Days
<1>5. QED  BY <1>1, <1>4 DEF EndDay, Days

LEMMA TypeCorrectInit == Init => TypeOK
<1>1. Init => TypeOK
  <2> SUFFICES ASSUME Init PROVE TypeOK
    OBVIOUS
  <2>1. day \in Days \ {FirstDay} /\ IsWeekday(day) /\ slot \in Slots
    BY ScheduleAssumption DEF Init, Days, Slots
  <2>2. runs \in [Jobs -> RunType] /\ scorer \in ScorerType
    BY IdleTypes DEF Init
  <2>3. StoredFirst("close") \in [Days -> Phases]
    BY DEF StoredFirst, Phases
  <2>4. /\ bars \in [Symbols -> [Days -> Phases]] /\ stamps \in [Symbols -> [Days -> Phases]]
        /\ index \in [Days -> Phases] /\ scores \in [Symbols -> [Days -> Phases]]
    BY <2>3 DEF Init, Phases
  <2>5. due \subseteq Jobs \cup {"scoring"}
    BY DEF Init
  <2>6. QED  BY <2>1, <2>2, <2>4, <2>5 DEF TypeOK
<1>2. QED  BY <1>1

LEMMA TypeCorrectStep == TypeOK /\ [Next]_vars => TypeOK'
<1>1. TypeOK /\ [Next]_vars => TypeOK'
  <2> SUFFICES ASSUME TypeOK, [Next]_vars PROVE TypeOK'
    OBVIOUS
  <2> USE DEF TypeOK
  <2>0. \A j \in Jobs : runs[j] \in RunType
    OBVIOUS
  <2>1. ASSUME NEW j \in Jobs, Start(j) PROVE TypeOK'
    <3>1. [IdleRun EXCEPT !.pc = IF j \in OnlyIfStale THEN "probe" ELSE "fetch",
                          !.expected = ExpectedSession, !.end = EndDay] \in RunType
      BY IdleTypes, ExpectedType DEF RunType
    <3>2. QED  BY <2>1, <3>1 DEF Start
  <2>2. ASSUME NEW j \in Jobs, Probe(j) PROVE TypeOK'
    <3>1. /\ [runs[j] EXCEPT !.pc = "fetch"] \in RunType
          /\ [IdleRun EXCEPT !.skipped = TRUE, !.expected = runs[j].expected] \in RunType
      BY <2>0, IdleTypes DEF RunType
    <3>2. QED  BY <2>2, <3>1 DEF Probe
  <2>3. ASSUME NEW j \in Jobs, ProbeFails(j) PROVE TypeOK'
    BY <2>3, IdleTypes DEF ProbeFails, Finish
  <2>4. ASSUME NEW j \in Jobs, FailOver(j) PROVE runs' \in [Jobs -> RunType]
    <3>1. CASE runs[j].k < Len(Chain)
      <4>1. runs[j].k + 1 \in 1 .. Len(Chain)
        BY <3>1, <2>0, ScheduleAssumption DEF RunType
      <4>2. [IdleRun EXCEPT !.pc = "fetch", !.k = runs[j].k + 1,
                            !.expected = runs[j].expected, !.end = runs[j].end] \in RunType
        BY <4>1, <2>0, IdleTypes DEF RunType
      <4>3. QED  BY <2>4, <3>1, <4>2 DEF FailOver
    <3>2. CASE ~(runs[j].k < Len(Chain))
      BY <2>4, <3>2, IdleTypes DEF FailOver, Finish
    <3>3. QED  BY <3>1, <3>2
  <2>5. ASSUME NEW j \in Jobs, SourceFails(j) \/ WriteFails(j) PROVE TypeOK'
    BY <2>4, <2>5 DEF SourceFails, WriteFails
  <2>6. ASSUME NEW j \in Jobs, SourceAnswers(j) PROVE TypeOK'
    <3>1. PICK last \in [Symbols -> {0} \cup {d \in Days : InWindow(runs[j], d)}] :
            runs' = [runs EXCEPT ![j].pc = "write", ![j].last = last, ![j].phase = PhaseOf(day)]
      BY <2>6 DEF SourceAnswers
    <3>2. last \in [Symbols -> 0 .. LastDay] /\ PhaseOf(day) \in Phases
      BY ScheduleAssumption DEF Days, PhaseOf, Phases
    <3>3. [runs[j] EXCEPT !.pc = "write", !.last = last, !.phase = PhaseOf(day)] \in RunType
      BY <3>2, <2>0, RunAnswered
    <3>4. QED  BY <2>6, <3>1, <3>3 DEF SourceAnswers
  <2>7. ASSUME NEW j \in Jobs, WritePrices(j) PROVE TypeOK'
    <3>1. runs[j].phase \in Phases /\ PhaseOf(day) \in Phases
      BY <2>0 DEF RunType, Phases, PhaseOf
    <3>2. bars' \in [Symbols -> [Days -> Phases]] /\ stamps' \in [Symbols -> [Days -> Phases]]
      BY <2>7, <3>1 DEF WritePrices, Phases
    <3>3. runs' \in [Jobs -> RunType]
      <4>1. [runs[j] EXCEPT !.pc = "index"] \in RunType
        BY <2>0, RunMoves
      <4>2. QED  BY <2>7, <4>1, IdleTypes DEF WritePrices, Finish
    <3>4. QED  BY <2>7, <3>2, <3>3 DEF WritePrices
  <2>8. ASSUME NEW j \in Jobs, FetchIndex(j) PROVE TypeOK'
    <3>1. PICK last \in {d \in Days : InWindow(runs[j], d)} :
            runs' = [runs EXCEPT ![j].pc = "indexwrite", ![j].indexLast = last,
                                 ![j].phase = PhaseOf(day)]
      BY <2>8 DEF FetchIndex
    <3>2. last \in 0 .. LastDay /\ PhaseOf(day) \in Phases
      BY ScheduleAssumption DEF Days, PhaseOf, Phases
    <3>3. [runs[j] EXCEPT !.pc = "indexwrite", !.indexLast = last, !.phase = PhaseOf(day)]
            \in RunType
      BY <3>2, <2>0, RunIndexed
    <3>4. QED  BY <2>8, <3>1, <3>3, ZenonT(40) DEF FetchIndex
  <2>9. ASSUME NEW j \in Jobs, WriteIndex(j) PROVE TypeOK'
    <3>1. runs[j].phase \in Phases
      BY <2>0 DEF RunType
    <3>2. index' \in [Days -> Phases]
      BY <2>9, <3>1 DEF WriteIndex, Phases
    <3>3. QED  BY <2>9, <3>2, IdleTypes DEF WriteIndex, Finish
  <2>10. ASSUME NEW j \in Jobs, IndexFails(j) PROVE TypeOK'
    BY <2>10, IdleTypes DEF IndexFails, Finish
  <2>11. CASE StartScoring
    <3>1. [IdleScorer EXCEPT !.pc = "check", !.checked = ExpectedSession] \in ScorerType
      BY IdleTypes, ExpectedType DEF ScorerType
    <3>2. QED  BY <2>11, <3>1 DEF StartScoring
  <2>12. CASE ScoringStep
    <3>1. CASE CheckScores
      <4>1. Notice(scorer.checked) \in {"none", "missing", "provisional", "ok", "unchecked"}
        BY DEF Notice
      <4>2. [scorer EXCEPT !.pc = "read", !.notice = Notice(scorer.checked)] \in ScorerType
        BY <4>1 DEF ScorerType
      <4>3. QED  BY <3>1, <4>2 DEF CheckScores
    <3>2. CASE CheckFails
      BY <3>2 DEF CheckFails, ScorerType
    <3>3. CASE ReadBars
      <4>1. PICK d \in Days :
              scorer' = [scorer EXCEPT !.pc = "write", !.latest = d,
                           !.rows = [s \in Symbols |-> bars[s][d]],
                           !.stamps = [s \in Symbols |-> stamps[s][d]]]
        BY <3>3 DEF ReadBars
      <4>2. /\ [s \in Symbols |-> bars[s][d]] \in [Symbols -> Phases]
            /\ [s \in Symbols |-> stamps[s][d]] \in [Symbols -> Phases]
        OBVIOUS
      <4>3. scorer' \in ScorerType
        BY <4>1, <4>2 DEF ScorerType
      <4>4. QED  BY <3>3, <4>3, SMTT(30) DEF ReadBars
    <3>4. CASE WriteScores
      <4>1. scorer.rows \in [Symbols -> Phases] /\ scorer.latest \in Days
        BY DEF ScorerType
      <4>2. scores' \in [Symbols -> [Days -> Phases]]
        BY <3>4, <4>1 DEF WriteScores
      <4>3. QED  BY <3>4, <4>2, IdleTypes DEF WriteScores
    <3>5. CASE ScoringFails
      BY <3>5, IdleTypes DEF ScoringFails
    <3>6. QED  BY <2>12, <3>1, <3>2, <3>3, <3>4, <3>5 DEF ScoringStep
  <2>13. CASE Tick
    <3>1. day' \in Days \ {FirstDay} /\ IsWeekday(day') /\ slot' \in Slots
      <4>1. CASE slot < AtStrategy
        BY <2>13, <4>1 DEF Tick, Slots
      <4>2. CASE ~(slot < AtStrategy)
        <5>1. day \in Nat /\ FirstDay \in Nat /\ FirstDay < day /\ LastDay \in Nat
          BY ScheduleAssumption DEF Days
        <5>2. day' = (IF IsWeekday(day + 1) THEN day + 1 ELSE day + 3) /\ day' <= LastDay
              /\ slot' = AtMorning
          BY <2>13, <4>2 DEF Tick
        <5>3. IsWeekday(day')
          BY <5>1, <5>2, AfterWeekday
        <5>4. QED  BY <5>1, <5>2, <5>3 DEF Days, Slots
      <4>3. QED  BY <4>1, <4>2
    <3>2. due' \subseteq Jobs \cup {"scoring"}
      BY <2>13 DEF Tick, Triggered
    <3>3. QED  BY <2>13, <3>1, <3>2 DEF Tick
  <2>14. CASE Restart
    BY <2>14, IdleTypes DEF Restart
  <2>15. CASE UNCHANGED vars
    BY <2>15, SMTT(30) DEF vars
  <2>16. QED
    BY <2>1, <2>2, <2>3, <2>5, <2>6, <2>7, <2>8, <2>9, <2>10, <2>11, <2>12, <2>13, <2>14,
       <2>15 DEF Next, IngestStep
<1>2. QED  BY <1>1

\* Every variable keeps its type, whatever the universe, the chain and the week:
\* no run leaves the modelled days and none indexes past the end of the chain.
THEOREM TypeCorrect == Spec => []TypeOK
<1>1. QED  BY TypeCorrectInit, TypeCorrectStep, PTL DEF Spec

-----------------------------------------------------------------------------
(* Silent scores *)

\* No run asks past the present day, and nothing is stamped as written after the
\* close of a session that is still open.
StampsAreTimely ==
  /\ \A j \in Jobs : runs[j].end <= day
  /\ \A s \in Symbols, d \in Days : stamps[s][d] = "close" => Closed(d)

PostCloseBar(d) == \E s \in Symbols : stamps[s][d] = "close"

\* What the check saw is still there when the bars are read.
NoticeStands ==
  scorer.pc \in {"read", "write"} /\ scorer.notice = "ok" => PostCloseBar(scorer.checked)

SilentInv == StampsAreTimely /\ NoticeStands /\ SilentScoresHaveAPostCloseBar

\* Only the clock moves the clock.
LEMMA TimeIsTick ==
  ASSUME [Next]_vars
  PROVE  Tick \/ UNCHANGED <<day, slot>>
BY ZenonT(40) DEF Next, vars, Start, IngestStep, Probe, ProbeFails, SourceFails, SourceAnswers,
   WritePrices, WriteFails, FetchIndex, WriteIndex, IndexFails, StartScoring, ScoringStep,
   CheckScores, CheckFails, ReadBars, WriteScores, ScoringFails, Restart

\* Closed sessions stay closed, and the clock never runs back.
LEMMA ClosedStays ==
  ASSUME TypeOK, [Next]_vars
  PROVE  day <= day' /\ \A d \in Days : Closed(d) => Closed(d)'
<1>1. CASE Tick
  BY <1>1, ScheduleAssumption DEF Tick, Closed, TypeOK, Days, Slots
<1>2. CASE UNCHANGED <<day, slot>>
  BY <1>2, ScheduleAssumption DEF Closed, TypeOK, Days
<1>3. QED  BY <1>1, <1>2, TimeIsTick

\* A step other than the price upsert leaves the stored bars alone.
LEMMA OnlyWritesTouchBars ==
  ASSUME [Next]_vars, ~\E j \in Jobs : WritePrices(j)
  PROVE  UNCHANGED <<bars, stamps>>
BY DEF Next, vars, Start, IngestStep, Probe, ProbeFails, SourceFails, SourceAnswers,
   WriteFails, FetchIndex, WriteIndex, IndexFails, StartScoring, ScoringStep,
   CheckScores, CheckFails, ReadBars, WriteScores, ScoringFails, Restart, Tick

\* A stamp that says "after the close" is never taken back.
LEMMA StampsStay ==
  ASSUME TypeOK, StampsAreTimely, [Next]_vars
  PROVE  \A s \in Symbols, d \in Days : stamps[s][d] = "close" => stamps'[s][d] = "close"
<1>1. ASSUME NEW j \in Jobs, WritePrices(j), NEW s \in Symbols, NEW d \in Days,
             stamps[s][d] = "close"
      PROVE  stamps'[s][d] = "close"
  <2>1. Closed(d)
    BY <1>1 DEF StampsAreTimely
  <2>2. stamps'[s][d] = (IF ~InBatch(runs[j], s, d) THEN stamps[s][d]
                         ELSE IF d < day THEN "close" ELSE PhaseOf(day))
    BY <1>1 DEF WritePrices
  <2>3. InBatch(runs[j], s, d) => d <= day
    BY ScheduleAssumption, SMTT(30) DEF InBatch, InWindow, StampsAreTimely, TypeOK, RunType, Days
  <2>4. CASE d = day
    BY <1>1, <2>1, <2>2, <2>4 DEF PhaseOf
  <2>5. CASE d # day
    BY <1>1, <2>2, <2>3, <2>5, ScheduleAssumption DEF TypeOK, Days
  <2>6. QED  BY <2>4, <2>5
<1>2. QED  BY <1>1, OnlyWritesTouchBars

\* A run keeps the day it asks up to, starts with EndDay, or is put away.
LEMMA EndsKnown ==
  ASSUME TypeOK, [Next]_vars, NEW i \in Jobs
  PROVE  runs'[i].end \in {runs[i].end, EndDay, FirstDay}
<1> DEFINE Known == runs'[i].end \in {runs[i].end, EndDay, FirstDay}
<1>3. IdleRun.end = FirstDay
  BY DEF IdleRun
<1>4. runs \in [Jobs -> RunType]
  BY DEF TypeOK
<1>5. ASSUME NEW j \in Jobs, Start(j) PROVE Known
  <2>1. runs'[i] = runs[i] \/ runs'[i].end = EndDay
    BY <1>4, <1>5 DEF Start, IdleRun
  <2>2. QED  BY <2>1
<1>6. ASSUME NEW j \in Jobs, IngestStep(j) PROVE Known
  <2>1. ASSUME FailOver(j) PROVE runs'[i].end \in {runs[i].end, IdleRun.end}
    <3>1. CASE runs[j].k < Len(Chain)
      <4>1. [IdleRun EXCEPT !.pc = "fetch", !.k = runs[j].k + 1, !.expected = runs[j].expected,
                            !.end = runs[j].end].end = runs[j].end
        BY DEF IdleRun
      <4>2. runs' = [runs EXCEPT ![j] =
               [IdleRun EXCEPT !.pc = "fetch", !.k = runs[j].k + 1,
                               !.expected = runs[j].expected, !.end = runs[j].end]]
        BY <2>1, <3>1 DEF FailOver
      <4>3. QED  BY <1>4, <4>1, <4>2
    <3>2. CASE ~(runs[j].k < Len(Chain))
      BY <1>4, <2>1, <3>2 DEF FailOver, Finish
    <3>3. QED  BY <3>1, <3>2
  <2>2. ASSUME SourceAnswers(j) PROVE runs'[i].end = runs[i].end
    BY <1>4, <2>2 DEF SourceAnswers, RunType
  <2>3. ASSUME FetchIndex(j) PROVE runs'[i].end = runs[i].end
    BY <1>4, <2>3 DEF FetchIndex, RunType
  <2>4. ASSUME Probe(j) PROVE runs'[i].end \in {runs[i].end, IdleRun.end}
    BY <1>4, <2>4 DEF Probe, RunType, IdleRun
  <2>5. ASSUME WritePrices(j) PROVE runs'[i].end \in {runs[i].end, IdleRun.end}
    <3>1. CASE Chain[runs[j].k] \in IndexSources
      <4>1. runs' = [runs EXCEPT ![j].pc = "index"]
        BY <2>5, <3>1 DEF WritePrices
      <4>2. QED  BY <1>4, <4>1 DEF RunType
    <3>2. CASE Chain[runs[j].k] \notin IndexSources
      <4>1. Finish(j)
        BY <2>5, <3>2 DEF WritePrices
      <4>2. QED  BY <1>4, <4>1 DEF Finish
    <3>3. QED  BY <3>1, <3>2
  <2>6. ASSUME ProbeFails(j) \/ WriteIndex(j) \/ IndexFails(j)
        PROVE  runs'[i].end \in {runs[i].end, IdleRun.end}
    BY <1>4, <2>6 DEF ProbeFails, WriteIndex, IndexFails, Finish
  <2>7. runs'[i].end \in {runs[i].end, IdleRun.end}
    BY <1>6, <2>1, <2>2, <2>3, <2>4, <2>5, <2>6 DEF IngestStep, SourceFails, WriteFails
  <2>8. QED  BY <2>7, <1>3
<1>7. CASE Restart
  BY <1>3, <1>4, <1>7 DEF Restart
<1>8. CASE UNCHANGED runs
  BY <1>8
<1>9. QED
  BY <1>5, <1>6, <1>7, <1>8 DEF Next, vars, StartScoring, ScoringStep, CheckScores, CheckFails,
     ReadBars, WriteScores, ScoringFails, Tick

\* No step makes a run ask past the present day.
LEMMA EndsStay ==
  ASSUME TypeOK, StampsAreTimely, [Next]_vars, NEW i \in Jobs
  PROVE  runs'[i].end <= day'
<1>1. day \in Nat /\ FirstDay \in Nat /\ FirstDay <= day /\ day <= day'
  BY ScheduleAssumption, ClosedStays DEF TypeOK, Days
<1>2. day' \in Nat /\ runs[i].end \in Nat /\ EndDay \in Nat /\ EndDay <= day
  BY TypeCorrectStep, ExpectedType, ScheduleAssumption, SMTT(30) DEF TypeOK, RunType, Days
<1>3. runs[i].end <= day
  BY DEF StampsAreTimely
<1>4. QED  BY <1>1, <1>2, <1>3, EndsKnown

LEMMA TimelyStep ==
  ASSUME TypeOK, StampsAreTimely, [Next]_vars
  PROVE  StampsAreTimely'
<1>1. \A i \in Jobs : runs'[i].end <= day'
  BY EndsStay
<1>2. ASSUME NEW s \in Symbols, NEW d \in Days, stamps'[s][d] = "close" PROVE Closed(d)'
  <2>1. CASE stamps[s][d] = "close"
    BY <2>1, ClosedStays DEF StampsAreTimely
  <2>2. CASE stamps[s][d] # "close"
    <3>1. PICK j \in Jobs : WritePrices(j)
      BY <1>2, <2>2, OnlyWritesTouchBars
    <3>2. stamps'[s][d] = (IF ~InBatch(runs[j], s, d) THEN stamps[s][d]
                           ELSE IF d < day THEN "close" ELSE PhaseOf(day))
      BY <3>1 DEF WritePrices
    <3>3. d < day \/ (PhaseOf(day) = "close" /\ d <= day)
      BY <1>2, <2>2, <3>2, ScheduleAssumption, SMTT(30)
         DEF InBatch, InWindow, StampsAreTimely, TypeOK, RunType, Days
    <3>4. Closed(d)
      BY <3>3, ScheduleAssumption DEF Closed, PhaseOf, TypeOK, Days
    <3>5. QED  BY <3>4, ClosedStays
  <2>3. QED  BY <2>1, <2>2
<1>3. QED  BY <1>1, <1>2 DEF StampsAreTimely

LEMMA NoticeStep ==
  ASSUME TypeOK, SilentInv, [Next]_vars
  PROVE  NoticeStands' /\ SilentScoresHaveAPostCloseBar'
<1>1. \A d \in Days : PostCloseBar(d) => PostCloseBar(d)'
  BY StampsStay DEF SilentInv, PostCloseBar
<1>2. scorer \in ScorerType
  BY DEF TypeOK
<1>3. scorer.checked \in Days
  BY <1>2 DEF ScorerType
<1>4. CASE CheckScores
  <2>1. scorer' = [scorer EXCEPT !.pc = "read", !.notice = Notice(scorer.checked)]
        /\ stamps' = stamps
    BY <1>4 DEF CheckScores
  <2>2. scorer'.pc = "read" /\ scorer'.checked = scorer.checked
        /\ scorer'.notice = Notice(scorer.checked)
    BY <1>2, <2>1 DEF ScorerType
  <2>3. Notice(scorer.checked) = "ok" => PostCloseBar(scorer.checked)
    BY DEF Notice, PostCloseBar
  <2>4. QED  BY <2>1, <2>2, <2>3 DEF NoticeStands, PostCloseBar, SilentScoresHaveAPostCloseBar
<1>5. CASE ReadBars
  <2>1. PICK d \in Days :
          scorer' = [scorer EXCEPT !.pc = "write", !.latest = d,
                       !.rows = [s \in Symbols |-> bars[s][d]],
                       !.stamps = [s \in Symbols |-> stamps[s][d]]]
    BY <1>5 DEF ReadBars
  <2>2. scorer.pc = "read" /\ UNCHANGED stamps
    BY <1>5 DEF ReadBars
  <2>3. /\ scorer'.pc = "write" /\ scorer'.latest = d
        /\ scorer'.notice = scorer.notice /\ scorer'.checked = scorer.checked
        /\ scorer'.stamps = [s \in Symbols |-> stamps[s][d]]
    BY <1>2, <2>1 DEF ScorerType
  <2>4. scorer.notice = "ok" => PostCloseBar(scorer.checked)
    BY <2>2 DEF SilentInv, NoticeStands
  <2>5. QED
    BY <2>2, <2>3, <2>4 DEF NoticeStands, PostCloseBar, SilentScoresHaveAPostCloseBar
<1>6. CASE UNCHANGED scorer
  BY <1>1, <1>3, <1>6 DEF SilentInv, NoticeStands, SilentScoresHaveAPostCloseBar
<1>7. ASSUME scorer' = IdleScorer \/ scorer'.pc = "check"
              \/ (scorer'.pc = "read" /\ scorer'.notice = "unchecked")
      PROVE  NoticeStands' /\ SilentScoresHaveAPostCloseBar'
  BY <1>7 DEF NoticeStands, SilentScoresHaveAPostCloseBar, IdleScorer
<1>8. CASE StartScoring
  <2>1. scorer'.pc = "check"
    BY <1>8 DEF StartScoring, IdleScorer
  <2>2. QED  BY <2>1, <1>7
<1>9. CASE CheckFails
  <2>1. scorer'.pc = "read" /\ scorer'.notice = "unchecked"
    BY <1>2, <1>9 DEF CheckFails, ScorerType
  <2>2. QED  BY <2>1, <1>7
<1>10. CASE WriteScores \/ ScoringFails \/ Restart
  BY <1>7, <1>10 DEF WriteScores, ScoringFails, Restart
<1>11. QED
  BY <1>4, <1>5, <1>6, <1>8, <1>9, <1>10, ZenonT(40) DEF Next, vars, Start, IngestStep, Probe, ProbeFails,
     SourceFails, SourceAnswers, WritePrices, WriteFails, FetchIndex, WriteIndex, IndexFails,
     ScoringStep, Tick

\* Scores of a closed session that are written without a warning rest on at least
\* one bar written after the close, for every universe and every interleaving of
\* ingestion with the scoring job's check, read and write.
THEOREM SilentScores == Spec => []SilentScoresHaveAPostCloseBar
<1>1. Init => SilentInv
  <2> SUFFICES ASSUME Init PROVE SilentInv
    OBVIOUS
  <2>1. FirstDay \in Nat /\ day = FirstDay + 1
    BY ScheduleAssumption DEF Init
  <2>2. \A s \in Symbols, d \in Days : stamps[s][d] = "close" => d = FirstDay
    BY DEF Init, StoredFirst
  <2>3. StampsAreTimely
    BY <2>1, <2>2 DEF Init, StampsAreTimely, IdleRun, Closed, Days
  <2>4. QED
    BY <2>3 DEF Init, SilentInv, NoticeStands, SilentScoresHaveAPostCloseBar, IdleScorer
<1>2. TypeOK /\ SilentInv /\ [Next]_vars => SilentInv'
  BY TimelyStep, NoticeStep DEF SilentInv
<1>3. SilentInv => SilentScoresHaveAPostCloseBar
  BY DEF SilentInv
<1>4. QED  BY <1>1, <1>2, <1>3, TypeCorrect, PTL DEF Spec

-----------------------------------------------------------------------------
(* Finality of a stored close *)

\* What a run is about to write was read in the phase of the session that still
\* lasts: the clock waits for it at the close and at the end of the day.
ReadsAreTimely ==
  \A j \in Jobs : runs[j].pc \in {"write", "indexwrite"} => runs[j].phase = PhaseOf(day)

\* Nothing is stored as the close of a session that is still open.
ClosesAreTimely ==
  /\ \A s \in Symbols, d \in Days : bars[s][d] = "close" => Closed(d)
  /\ \A d \in Days : index[d] = "close" => Closed(d)

\* A score is no more final than the bar it was computed on, and the scoring run
\* in flight holds the close of every symbol it is about to overwrite.
ScoresFollowBars ==
  /\ \A s \in Symbols, d \in Days : scores[s][d] = "close" => bars[s][d] = "close"
  /\ scorer.pc = "write" => \A s \in Symbols :
       /\ scorer.rows[s] = "close" => bars[s][scorer.latest] = "close"
       /\ scores[s][scorer.latest] = "close" => scorer.rows[s] = "close"

FinalInv == StampsAreTimely /\ ReadsAreTimely /\ ClosesAreTimely /\ ScoresFollowBars

LEMMA FinalInit == Init => FinalInv
<1> SUFFICES ASSUME Init PROVE FinalInv
  OBVIOUS
<1>1. FirstDay \in Nat /\ day = FirstDay + 1
  BY ScheduleAssumption DEF Init
<1>2. \A s \in Symbols, d \in Days :
        stamps[s][d] = "close" \/ bars[s][d] = "close" \/ index[d] = "close" => d = FirstDay
  BY DEF Init, StoredFirst
<1>3. StampsAreTimely /\ ClosesAreTimely
  BY <1>1, <1>2, ScheduleAssumption DEF Init, StoredFirst, StampsAreTimely, ClosesAreTimely,
     IdleRun, Closed, Days
<1>4. ReadsAreTimely /\ ScoresFollowBars
  BY SMTT(30) DEF Init, ReadsAreTimely, ScoresFollowBars, IdleRun, IdleScorer
<1>5. QED  BY <1>3, <1>4 DEF FinalInv

\* A run that is about to write has either just read, or was about to write before.
LEMMA ReadsJustNow ==
  ASSUME TypeOK, [Next]_vars, NEW i \in Jobs, runs'[i].pc \in {"write", "indexwrite"}
  PROVE  \/ runs'[i] = runs[i]
         \/ runs'[i].phase = PhaseOf(day) /\ UNCHANGED <<day, slot>>
<1> DEFINE JustNow == \/ runs'[i] = runs[i]
                      \/ runs'[i].phase = PhaseOf(day) /\ UNCHANGED <<day, slot>>
<1>0. /\ runs \in [Jobs -> RunType] /\ day \in Nat /\ slot \in Slots
      /\ IdleRun.pc = "idle"
  BY ScheduleAssumption DEF TypeOK, Days, IdleRun
<1>3. ASSUME NEW j \in Jobs, SourceAnswers(j) \/ FetchIndex(j) PROVE JustNow
  <2>1. UNCHANGED <<day, slot>>
    BY <1>3 DEF SourceAnswers, FetchIndex
  <2>2. CASE i = j
    <3>1. runs'[j].phase = PhaseOf(day)
      <4>1. runs[j] \in RunType
        BY <1>0
      <4>2. CASE SourceAnswers(j)
        BY <1>0, <4>1, <4>2 DEF SourceAnswers, RunType
      <4>3. CASE FetchIndex(j)
        BY <1>0, <4>1, <4>3 DEF FetchIndex, RunType
      <4>4. QED  BY <1>3, <4>2, <4>3
    <3>2. QED  BY <2>1, <2>2, <3>1
  <2>3. CASE i # j
    BY <1>0, <1>3, <2>3 DEF SourceAnswers, FetchIndex
  <2>4. QED  BY <2>2, <2>3
<1>4. ASSUME NEW j \in Jobs, UNCHANGED <<day, slot>>, NEW r, runs' = [runs EXCEPT ![j] = r],
             r.pc \notin {"write", "indexwrite"}
      PROVE  JustNow
  BY <1>0, <1>4
<1>5. ASSUME NEW j \in Jobs, Start(j) PROVE JustNow
  <2> DEFINE r == [IdleRun EXCEPT !.pc = IF j \in OnlyIfStale THEN "probe" ELSE "fetch",
                                  !.expected = ExpectedSession, !.end = EndDay]
  <2>1. r.pc \notin {"write", "indexwrite"}
    BY DEF IdleRun
  <2>2. runs' = [runs EXCEPT ![j] = r] /\ UNCHANGED <<day, slot>>
    BY <1>5 DEF Start
  <2>3. QED  BY <1>4, <2>1, <2>2
<1>6. ASSUME NEW j \in Jobs, FailOver(j), UNCHANGED <<day, slot>> PROVE JustNow
  <2> DEFINE r == [IdleRun EXCEPT !.pc = "fetch", !.k = runs[j].k + 1,
                                  !.expected = runs[j].expected, !.end = runs[j].end]
  <2>1. r.pc = "fetch"
    BY DEF IdleRun
  <2>2. runs' = [runs EXCEPT ![j] = r] \/ runs' = [runs EXCEPT ![j] = IdleRun]
    BY <1>6 DEF FailOver, Finish
  <2>3. QED  BY <1>0, <1>4, <1>6, <2>1, <2>2
<1>7. ASSUME NEW j \in Jobs, Probe(j) PROVE JustNow
  <2> DEFINE r == IF Stale(runs[j].expected) THEN [runs[j] EXCEPT !.pc = "fetch"]
                  ELSE [IdleRun EXCEPT !.skipped = TRUE, !.expected = runs[j].expected]
  <2>1. r.pc \in {"fetch", "idle"}
    BY <1>0 DEF RunType, IdleRun
  <2>2. runs' = [runs EXCEPT ![j] = r] /\ UNCHANGED <<day, slot>>
    BY <1>7 DEF Probe
  <2>3. QED  BY <1>4, <2>1, <2>2
<1>8. ASSUME NEW j \in Jobs, WritePrices(j) PROVE JustNow
  <2> DEFINE r == [runs[j] EXCEPT !.pc = "index"]
  <2>1. r.pc = "index"
    BY <1>0 DEF RunType
  <2>2. (runs' = [runs EXCEPT ![j] = r] \/ runs' = [runs EXCEPT ![j] = IdleRun]) /\ UNCHANGED <<day, slot>>
    BY <1>8 DEF WritePrices, Finish
  <2>3. QED  BY <1>0, <1>4, <2>1, <2>2
<1>9. ASSUME NEW j \in Jobs, ProbeFails(j) \/ WriteIndex(j) \/ IndexFails(j)
      PROVE  JustNow
  <2>1. runs' = [runs EXCEPT ![j] = IdleRun] /\ UNCHANGED <<day, slot>>
    BY <1>9 DEF ProbeFails, WriteIndex, IndexFails, Finish
  <2>2. QED  BY <1>0, <1>4, <2>1
<1>10. ASSUME NEW j \in Jobs, IngestStep(j) PROVE JustNow
  BY <1>3, <1>6, <1>7, <1>8, <1>9, <1>10 DEF IngestStep, SourceFails, WriteFails
<1>11. CASE Restart
  BY <1>0, <1>11 DEF Restart
<1>12. CASE UNCHANGED runs
  BY <1>12
<1>13. QED
  BY <1>5, <1>10, <1>11, <1>12 DEF Next, vars, StartScoring, ScoringStep, CheckScores,
     CheckFails, ReadBars, WriteScores, ScoringFails, Tick

LEMMA ReadsStep ==
  ASSUME ~LateRuns, TypeOK, ReadsAreTimely, [Next]_vars
  PROVE  ReadsAreTimely'
<1> SUFFICES ASSUME NEW i \in Jobs, runs'[i].pc \in {"write", "indexwrite"}
             PROVE  runs'[i].phase = PhaseOf(day)'
  BY DEF ReadsAreTimely
<1>1. UNCHANGED <<day, slot>> => PhaseOf(day)' = PhaseOf(day)
  BY DEF PhaseOf, Closed
<1>2. CASE runs'[i] # runs[i]
  BY <1>1, <1>2, ReadsJustNow
<1>3. CASE runs'[i] = runs[i] /\ Tick
  <2>1. runs[i].pc # "idle"
    BY <1>3
  <2>2. ~AllIdle
    BY <2>1 DEF AllIdle, Idle
  <2>3. slot + 1 # AtClose /\ slot' = slot + 1 /\ day' = day
    BY <1>3, <2>2 DEF Tick
  <2>4. PhaseOf(day)' = PhaseOf(day)
    BY <2>3 DEF PhaseOf, Closed, TypeOK, Slots
  <2>5. QED  BY <1>3, <2>4 DEF ReadsAreTimely
<1>4. CASE runs'[i] = runs[i] /\ UNCHANGED <<day, slot>>
  BY <1>1, <1>4 DEF ReadsAreTimely
<1>5. QED  BY <1>2, <1>3, <1>4, TimeIsTick

\* What a run writes is marked as a close exactly when the session has closed.
LEMMA WritesAreTimely ==
  ASSUME TypeOK, StampsAreTimely, ReadsAreTimely, NEW j \in Jobs,
         runs[j].pc \in {"write", "indexwrite"}, NEW d \in Days, InWindow(runs[j], d)
  PROVE  Closed(d) <=> (IF d < day THEN "close" ELSE runs[j].phase) = "close"
<1>1. /\ day \in Nat /\ d \in Nat /\ slot \in Nat /\ runs[j].end \in Nat
      /\ runs[j].end <= day
  BY ScheduleAssumption DEF TypeOK, StampsAreTimely, RunType, Days, Slots
<1>2. d <= day
  BY <1>1 DEF InWindow
<1>3. runs[j].phase = PhaseOf(day)
  BY DEF ReadsAreTimely
<1>4. CASE d = day
  BY <1>1, <1>3, <1>4 DEF PhaseOf
<1>5. CASE d < day
  BY <1>1, <1>5 DEF Closed
<1>6. QED  BY <1>1, <1>2, <1>4, <1>5

LEMMA BarsStay ==
  ASSUME TypeOK, FinalInv, [Next]_vars
  PROVE  \A s \in Symbols, d \in Days : bars[s][d] = "close" => bars'[s][d] = "close"
<1>1. ASSUME NEW j \in Jobs, WritePrices(j), NEW s \in Symbols, NEW d \in Days,
             bars[s][d] = "close"
      PROVE  bars'[s][d] = "close"
  <2>1. Closed(d)
    BY <1>1 DEF FinalInv, ClosesAreTimely
  <2>2. bars'[s][d] = (IF ~InBatch(runs[j], s, d) THEN bars[s][d]
                       ELSE IF d < day THEN "close" ELSE runs[j].phase)
    BY <1>1 DEF WritePrices
  <2>3. InBatch(runs[j], s, d) => (IF d < day THEN "close" ELSE runs[j].phase) = "close"
    BY <1>1, <2>1, WritesAreTimely, SMTT(30) DEF FinalInv, InBatch, WritePrices
  <2>4. QED  BY <1>1, <2>2, <2>3
<1>2. QED  BY <1>1, OnlyWritesTouchBars

LEMMA OnlyWritesTouchIndex ==
  ASSUME [Next]_vars, ~\E j \in Jobs : WriteIndex(j)
  PROVE  UNCHANGED index
BY DEF Next, vars, Start, IngestStep, Probe, ProbeFails, SourceFails, SourceAnswers,
   WriteFails, FetchIndex, WritePrices, IndexFails, StartScoring, ScoringStep,
   CheckScores, CheckFails, ReadBars, WriteScores, ScoringFails, Restart, Tick

LEMMA IndexStays ==
  ASSUME TypeOK, FinalInv, [Next]_vars
  PROVE  \A d \in Days : index[d] = "close" => index'[d] = "close"
<1>1. ASSUME NEW j \in Jobs, WriteIndex(j), NEW d \in Days, index[d] = "close"
      PROVE  index'[d] = "close"
  <2>1. Closed(d)
    BY <1>1 DEF FinalInv, ClosesAreTimely
  <2>2. index'[d] = (IF ~InWindow(runs[j], d) \/ d > runs[j].indexLast THEN index[d]
                     ELSE IF d < day THEN "close" ELSE runs[j].phase)
    BY <1>1 DEF WriteIndex
  <2>3. InWindow(runs[j], d) => (IF d < day THEN "close" ELSE runs[j].phase) = "close"
    BY <1>1, <2>1, WritesAreTimely DEF FinalInv, WriteIndex
  <2>4. QED  BY <1>1, <2>2, <2>3
<1>2. QED  BY <1>1, OnlyWritesTouchIndex

LEMMA ClosesStep ==
  ASSUME TypeOK, FinalInv, [Next]_vars
  PROVE  ClosesAreTimely'
<1>1. ASSUME NEW s \in Symbols, NEW d \in Days, bars'[s][d] = "close", bars[s][d] # "close"
      PROVE  Closed(d)
  <2>1. PICK j \in Jobs : WritePrices(j)
    BY <1>1, OnlyWritesTouchBars
  <2>2. bars'[s][d] = (IF ~InBatch(runs[j], s, d) THEN bars[s][d]
                       ELSE IF d < day THEN "close" ELSE runs[j].phase)
    BY <2>1 DEF WritePrices
  <2>3. InWindow(runs[j], d)
    BY <1>1, <2>2 DEF InBatch
  <2>4. QED  BY <1>1, <2>1, <2>2, <2>3, WritesAreTimely DEF FinalInv, WritePrices
<1>2. ASSUME NEW d \in Days, index'[d] = "close", index[d] # "close"
      PROVE  Closed(d)
  <2>1. PICK j \in Jobs : WriteIndex(j)
    BY <1>2, OnlyWritesTouchIndex
  <2>2. index'[d] = (IF ~InWindow(runs[j], d) \/ d > runs[j].indexLast THEN index[d]
                     ELSE IF d < day THEN "close" ELSE runs[j].phase)
    BY <2>1 DEF WriteIndex
  <2>3. QED  BY <1>2, <2>1, <2>2, WritesAreTimely DEF FinalInv, WriteIndex
<1>3. /\ \A s \in Symbols, d \in Days : bars'[s][d] = "close" => Closed(d)
      /\ \A d \in Days : index'[d] = "close" => Closed(d)
  BY <1>1, <1>2, SMTT(30) DEF FinalInv, ClosesAreTimely
<1>4. QED  BY <1>3, ClosedStays DEF ClosesAreTimely

\* The scoring job's own steps: what it reads and what it writes.
LEMMA ScoresStep ==
  ASSUME TypeOK, FinalInv, [Next]_vars
  PROVE  /\ ScoresFollowBars'
         /\ \A s \in Symbols, d \in Days : scores[s][d] = "close" => scores'[s][d] = "close"
<1>0. /\ scorer \in ScorerType /\ scores \in [Symbols -> [Days -> Phases]]
      /\ \A s \in Symbols, d \in Days : bars[s][d] = "close" => bars'[s][d] = "close"
  BY BarsStay DEF TypeOK
<1>1. CASE WriteScores
  <2>1. /\ scorer.pc = "write" /\ scorer.latest \in Days
        /\ bars' = bars /\ scorer' = IdleScorer
    BY <1>0, <1>1 DEF WriteScores, ScorerType
  <2>2. ASSUME NEW s \in Symbols, NEW d \in Days
        PROVE  scores'[s][d] = IF scorer.rows[s] # "none" /\ d = scorer.latest
                               THEN scorer.rows[s] ELSE scores[s][d]
    BY <1>0, <1>1, <2>1 DEF WriteScores
  <2>3. \A s \in Symbols : /\ scorer.rows[s] = "close" => bars[s][scorer.latest] = "close"
                           /\ scores[s][scorer.latest] = "close" => scorer.rows[s] = "close"
    BY <2>1 DEF FinalInv, ScoresFollowBars
  <2>4. \A s \in Symbols, d \in Days :
          /\ scores[s][d] = "close" => scores'[s][d] = "close"
          /\ scores'[s][d] = "close" => bars[s][d] = "close"
    BY <2>2, <2>3 DEF FinalInv, ScoresFollowBars
  <2>5. QED  BY <2>1, <2>4 DEF ScoresFollowBars, IdleScorer
<1>2. CASE ReadBars
  <2>1. PICK d \in Days :
          scorer' = [scorer EXCEPT !.pc = "write", !.latest = d,
                       !.rows = [s \in Symbols |-> bars[s][d]],
                       !.stamps = [s \in Symbols |-> stamps[s][d]]]
    BY <1>2 DEF ReadBars
  <2>2. scorer'.latest = d /\ scorer'.rows = [s \in Symbols |-> bars[s][d]]
    BY <1>0, <2>1 DEF ScorerType
  <2>3. scores' = scores /\ bars' = bars
    BY <1>2 DEF ReadBars
  <2>4. \A s \in Symbols, e \in Days : scores[s][e] = "close" => bars[s][e] = "close"
    BY DEF FinalInv, ScoresFollowBars
  <2>5. QED  BY <2>2, <2>3, <2>4 DEF ScoresFollowBars
<1>3. CASE scores' = scores /\ (scorer' = scorer \/ scorer'.pc # "write")
  <2>1. scorer.latest \in Days
    BY <1>0 DEF ScorerType
  <2>2. QED  BY <1>0, <1>3, <2>1 DEF FinalInv, ScoresFollowBars
<1>4. CASE StartScoring
  <2>1. scores' = scores /\ scorer'.pc = "check"
    BY <1>4 DEF StartScoring, IdleScorer
  <2>2. QED  BY <1>3, <2>1
<1>5. CASE CheckScores \/ CheckFails
  <2>1. scores' = scores /\ scorer'.pc = "read"
    BY <1>0, <1>5 DEF CheckScores, CheckFails, ScorerType
  <2>2. QED  BY <1>3, <2>1
<1>6. CASE ScoringFails \/ Restart
  <2>1. scores' = scores /\ scorer'.pc = "idle"
    BY <1>6 DEF ScoringFails, Restart, IdleScorer
  <2>2. QED  BY <1>3, <2>1
<1>7. QED
  BY <1>1, <1>2, <1>3, <1>4, <1>5, <1>6 DEF Next, vars, Start, IngestStep, Probe, ProbeFails,
     SourceFails, SourceAnswers, WritePrices, WriteFails, FetchIndex, WriteIndex, IndexFails,
     ScoringStep, Tick

\* If runs begun before a close end before it, a stored close is final: no
\* interleaving of ingestion runs, fail-over, scorings and restarts replaces the
\* close of a price, an index bar or a score by an intraday snapshot.
THEOREM StoredClosesAreFinal ==
  ASSUME ~LateRuns
  PROVE  Spec => CloseIsFinal
<1>1. TypeOK /\ FinalInv /\ [Next]_vars => FinalInv'
  BY TimelyStep, ReadsStep, ClosesStep, ScoresStep DEF FinalInv
<1>2. TypeOK /\ FinalInv /\ [Next]_vars => [ClosesStand]_<<bars, index, scores>>
  BY BarsStay, IndexStays, ScoresStep DEF ClosesStand
<1>3. QED  BY FinalInit, <1>1, <1>2, TypeCorrect, PTL DEF Spec, CloseIsFinal

-----------------------------------------------------------------------------
(* Stamps *)

\* Bars read after the close are written the same day: the day waits for runs.
ClosesAreRead ==
  \A j \in Jobs :
    runs[j].pc \in {"write", "indexwrite"} /\ runs[j].phase = "close" => Closed(day)

StampInv == StampsAreTimely /\ ClosesAreRead /\ StampNeverUnderstates

LEMMA StampStep ==
  ASSUME TypeOK, StampInv, [Next]_vars
  PROVE  ClosesAreRead' /\ StampNeverUnderstates'
<1>1. ClosesAreRead'
  <2> SUFFICES ASSUME NEW i \in Jobs, runs'[i].pc \in {"write", "indexwrite"},
                      runs'[i].phase = "close"
               PROVE  Closed(day)'
    BY DEF ClosesAreRead
  <2>1. CASE runs'[i] # runs[i]
    <3>1. PhaseOf(day) = "close" /\ UNCHANGED <<day, slot>>
      BY <2>1, ReadsJustNow
    <3>2. QED  BY <3>1 DEF PhaseOf, Closed
  <2>2. CASE runs'[i] = runs[i]
    <3>1. Closed(day) /\ runs[i].pc # "idle"
      BY <2>2 DEF StampInv, ClosesAreRead
    <3>2. ~AllIdle
      BY <3>1 DEF AllIdle, Idle
    <3>3. day' = day
      BY <3>2, TimeIsTick DEF Tick
    <3>4. QED  BY <3>1, <3>3, ClosedStays DEF TypeOK
  <2>3. QED  BY <2>1, <2>2
<1>2. ASSUME NEW s \in Symbols, NEW d \in Days, bars'[s][d] = "close"
      PROVE  stamps'[s][d] = "close"
  <2>1. CASE \E j \in Jobs : WritePrices(j)
    <3>1. PICK j \in Jobs : WritePrices(j)
      BY <2>1
    <3>2. /\ bars'[s][d] = (IF ~InBatch(runs[j], s, d) THEN bars[s][d]
                            ELSE IF d < day THEN "close" ELSE runs[j].phase)
          /\ stamps'[s][d] = (IF ~InBatch(runs[j], s, d) THEN stamps[s][d]
                              ELSE IF d < day THEN "close" ELSE PhaseOf(day))
      BY <3>1 DEF WritePrices
    <3>3. runs[j].phase = "close" => PhaseOf(day) = "close"
      BY <3>1 DEF StampInv, ClosesAreRead, PhaseOf, WritePrices
    <3>4. QED  BY <1>2, <3>2, <3>3 DEF StampInv, StampNeverUnderstates
  <2>2. CASE UNCHANGED <<bars, stamps>>
    BY <1>2, <2>2 DEF StampInv, StampNeverUnderstates
  <2>3. QED  BY <2>1, <2>2, OnlyWritesTouchBars
<1>3. QED  BY <1>1, <1>2 DEF StampNeverUnderstates

\* A bar read after its session closed is never stamped as an intraday snapshot,
\* whatever runs straddle the close, overlap or fail over.
THEOREM StampsAreSound == Spec => []StampNeverUnderstates
<1>1. Init => StampInv
  BY FinalInit DEF FinalInv, StampInv, StampNeverUnderstates, ClosesAreRead, Init, IdleRun
<1>2. TypeOK /\ StampInv /\ [Next]_vars => StampInv'
  BY TimelyStep, StampStep DEF StampInv
<1>3. StampInv => StampNeverUnderstates
  BY DEF StampInv
<1>4. QED  BY <1>1, <1>2, <1>3, TypeCorrect, PTL DEF Spec

-----------------------------------------------------------------------------
(* Closed sessions only *)

\* The session the worker expects is closed, and no weekday after it has closed.
LEMMA ExpectedIsClosed ==
  ASSUME TypeOK
  PROVE  ExpectedIsNewestClosed
<1> DEFINE d == IF slot < AtClose THEN day - 1 ELSE day
<1>1. day \in Nat /\ d \in Nat /\ d <= day /\ slot \in Nat
  BY ScheduleAssumption DEF TypeOK, Days, Slots
<1>2. /\ ExpectedSession \in Nat /\ ExpectedSession <= d /\ IsWeekday(ExpectedSession)
      /\ \A e \in Nat : IsWeekday(e) /\ e <= d => e <= ExpectedSession
  <2>1. ExpectedSession = LastSession(d)
    BY DEF ExpectedSession
  <2>2. QED  BY <1>1, <2>1, WalkBack
<1>3. Closed(ExpectedSession)
  BY <1>1, <1>2 DEF Closed
<1>4. \A e \in Days : Closed(e) => e \in Nat /\ e <= d
  BY <1>1, ScheduleAssumption DEF Closed, Days
<1>5. QED  BY <1>2, <1>3, <1>4 DEF ExpectedIsNewestClosed

\* The freshness checks compare the data with the newest session that has closed,
\* on weekdays and after weekends, before the cutoff and at it.
THEOREM ExpectedSessionIsNewest == Spec => []ExpectedIsNewestClosed
<1>1. TypeOK => ExpectedIsNewestClosed
  BY ExpectedIsClosed
<1>2. QED  BY <1>1, TypeCorrect, PTL

\* Runs ask only for closed sessions, so a bar of the present day is read after
\* its close even if the run began or ends late.
EndsAreClosed ==
  \A j \in Jobs :
    /\ Closed(runs[j].end)
    /\ runs[j].pc \in {"write", "indexwrite"} /\ runs[j].phase # "close" => runs[j].end < day

ClosedInv == StampsAreTimely /\ EndsAreClosed /\ OnlyClosedSessions

LEMMA EndsClosedStep ==
  ASSUME ~IncludeIntraday, TypeOK, ClosedInv, [Next]_vars
  PROVE  EndsAreClosed'
<1> SUFFICES ASSUME NEW i \in Jobs
             PROVE  /\ Closed(runs[i].end)'
                    /\ runs'[i].pc \in {"write", "indexwrite"} /\ runs'[i].phase # "close"
                         => runs'[i].end < day'
  BY DEF EndsAreClosed
<1>1. /\ day \in Nat /\ day' \in Nat /\ day <= day' /\ runs[i].end \in Days
      /\ runs'[i].end \in Days /\ EndDay \in Days /\ FirstDay \in Days
      /\ Days \subseteq Nat
  <2>1. TypeOK' /\ day <= day' /\ EndDay \in Days
    BY TypeCorrectStep, ClosedStays, ExpectedType
  <2>2. runs[i] \in RunType /\ runs'[i] \in RunType
    BY <2>1 DEF TypeOK
  <2>3. runs[i].end \in Days /\ runs'[i].end \in Days
    BY <2>2 DEF RunType
  <2>4. QED  BY <2>1, <2>3, ScheduleAssumption DEF TypeOK, Days
<1>2. Closed(runs[i].end) /\ Closed(EndDay) /\ Closed(FirstDay)
  <2>1. EndDay = ExpectedSession
    BY DEF EndDay
  <2>2. FirstDay < day
    BY ScheduleAssumption DEF TypeOK, Days
  <2>3. QED  BY <2>1, <2>2, ExpectedIsClosed DEF ClosedInv, EndsAreClosed, Closed,
             ExpectedIsNewestClosed
<1>3. Closed(runs[i].end)'
  <2>1. Closed(runs'[i].end)
    BY <1>2, EndsKnown
  <2>2. QED  BY <1>1, <2>1, ClosedStays DEF Closed
<1>4. ASSUME runs'[i].pc \in {"write", "indexwrite"}, runs'[i].phase # "close"
      PROVE  runs'[i].end < day'
  <2>1. CASE runs'[i] = runs[i]
    <3>1. runs[i].end < day
      BY <1>4, <2>1 DEF ClosedInv, EndsAreClosed
    <3>2. runs[i].end \in Nat
      BY <1>1
    <3>3. QED  BY <1>1, <2>1, <3>1, <3>2
  <2>2. CASE runs'[i].phase = PhaseOf(day) /\ UNCHANGED <<day, slot>>
    <3>1. ~Closed(day)'
      BY <1>4, <2>2 DEF PhaseOf, Closed
    <3>2. QED  BY <1>1, <1>3, <3>1 DEF Closed
  <2>3. QED  BY <1>4, <2>1, <2>2, ReadsJustNow
<1>5. QED  BY <1>3, <1>4

\* What such a run writes is always a close.
LEMMA WritesAreCloses ==
  ASSUME TypeOK, ClosedInv, NEW j \in Jobs,
         runs[j].pc \in {"write", "indexwrite"}, NEW d \in Days, InWindow(runs[j], d)
  PROVE  (IF d < day THEN "close" ELSE runs[j].phase) = "close"
BY ScheduleAssumption DEF InWindow, ClosedInv, EndsAreClosed, TypeOK, RunType, Days

\* With SCHEDULER_EOD_INCLUDE_INTRADAY_SESSION=false nothing read during a session
\* is ever stored as one of its bars, late and overlapping runs included.
THEOREM OnlyClosedSessionsAreStored ==
  ASSUME ~IncludeIntraday
  PROVE  Spec => []OnlyClosedSessions
<1>1. Init => ClosedInv
  <2> SUFFICES ASSUME Init PROVE ClosedInv
    OBVIOUS
  <2>1. EndsAreClosed
    BY ScheduleAssumption DEF Init, EndsAreClosed, IdleRun, Closed
  <2>2. OnlyClosedSessions
    BY DEF Init, OnlyClosedSessions, StoredFirst
  <2>3. QED  BY <2>1, <2>2, FinalInit DEF FinalInv, ClosedInv
<1>2. ASSUME TypeOK, ClosedInv, [Next]_vars PROVE ClosedInv'
  <2>1. \A s \in Symbols, d \in Days : bars'[s][d] \in {"none", "close"}
    <3>1. ASSUME NEW j \in Jobs, WritePrices(j), NEW s \in Symbols, NEW d \in Days
          PROVE  bars'[s][d] \in {"none", "close"}
      <4>1. bars'[s][d] = (IF ~InBatch(runs[j], s, d) THEN bars[s][d]
                           ELSE IF d < day THEN "close" ELSE runs[j].phase)
        BY <3>1 DEF WritePrices
      <4>2. QED
        BY <1>2, <3>1, <4>1, WritesAreCloses DEF ClosedInv, OnlyClosedSessions, InBatch, WritePrices
    <3>2. QED  BY <1>2, <3>1, OnlyWritesTouchBars DEF ClosedInv, OnlyClosedSessions
  <2>2. \A d \in Days : index'[d] \in {"none", "close"}
    <3>1. ASSUME NEW j \in Jobs, WriteIndex(j), NEW d \in Days
          PROVE  index'[d] \in {"none", "close"}
      <4>1. index'[d] = (IF ~InWindow(runs[j], d) \/ d > runs[j].indexLast THEN index[d]
                         ELSE IF d < day THEN "close" ELSE runs[j].phase)
        BY <3>1 DEF WriteIndex
      <4>2. QED
        BY <1>2, <3>1, <4>1, WritesAreCloses DEF ClosedInv, OnlyClosedSessions, WriteIndex
    <3>2. QED  BY <1>2, <3>1, OnlyWritesTouchIndex DEF ClosedInv, OnlyClosedSessions
  <2>3. StampsAreTimely' /\ EndsAreClosed'
    BY <1>2, TimelyStep, EndsClosedStep DEF ClosedInv
  <2>4. QED  BY <2>1, <2>2, <2>3 DEF ClosedInv, OnlyClosedSessions
<1>3. ClosedInv => OnlyClosedSessions
  BY DEF ClosedInv
<1>4. QED  BY <1>1, <1>2, <1>3, TypeCorrect, PTL DEF Spec

=============================================================================
