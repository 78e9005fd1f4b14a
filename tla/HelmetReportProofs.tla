------------------------- MODULE HelmetReportProofs -------------------------
(***************************************************************************)
(* The fall and motion fields are right for every sample set, ring size    *)
(* and threshold.  The inductive invariant says what each latch knows      *)
(* between two reports: the fall latch is set by every hit and only with   *)
(* a cause, the ring never alarms without the history knowing, and holding *)
(* and the quiet counter encode how long ago the last step was.            *)
(***************************************************************************)
EXTENDS HelmetReport, TLAPS

\* What the latches mean between two reports.
Latches ==
    /\ past.hit => fall
    /\ fall => past.alarm
    /\ WindowFall(window) => past.alarm

\* holding and quiet encode the reports since the last step.
Debounce ==
    /\ motion.moved <=> past.step
    /\ motion.holding <=> past.ago < StillReports
    /\ motion.holding => motion.quiet = past.ago
    /\ ~motion.holding => motion.quiet = 0

Fields == FallNeverMissed /\ FallHasCause /\ MovingIsDebounced

IInv == TypeOK /\ Latches /\ Debounce /\ Fields

Motions == [moved : BOOLEAN, holding : BOOLEAN, quiet : 0..(StillReports - 1)]
Reports == [moving : BOOLEAN, fall : BOOLEAN, sent : BOOLEAN]
Windows == {w \in Seq(Nat) : Len(w) <= MotionWin}

(* An empty ring shows no fall: VitalsProcess needs two samples.           *)
LEMMA EmptyRing == <<>> \in Windows /\ ~WindowFall(<<>>)
<1>1. Len(<<>>) = 0
  OBVIOUS
<1> QED BY <1>1, ReportAssumption DEF WindowFall, Windows

(* Pushing a sample keeps the ring a ring of at most MOTION_WIN samples    *)
(* (SmartHelmet_VitalsPushAccel).                                          *)
LEMMA PushedRing ==
    ASSUME TypeOK, NEW mag \in Nat
    PROVE  Pushed(mag) \in Windows
<1>1. window \in Seq(Nat) /\ Len(window) <= MotionWin /\ MotionWin \in Nat \ {0, 1}
  BY ReportAssumption DEF TypeOK
<1>2. CASE Len(window) < MotionWin
  <2>1. Append(window, mag) \in Seq(Nat) /\ Len(Append(window, mag)) = Len(window) + 1
    BY <1>1
  <2> QED BY <2>1, <1>1, <1>2 DEF Pushed, Windows
<1>3. CASE ~(Len(window) < MotionWin)
  <2>1. window # <<>>
    BY <1>1, <1>3
  <2>2. Tail(window) \in Seq(Nat) /\ Len(Tail(window)) = Len(window) - 1
    BY <1>1, <2>1
  <2>3. /\ Append(Tail(window), mag) \in Seq(Nat)
        /\ Len(Append(Tail(window), mag)) = Len(Tail(window)) + 1
    BY <2>2
  <2> QED BY <2>2, <2>3, <1>1, <1>3 DEF Pushed, Windows
<1> QED BY <1>2, <1>3

(* A sample that is read has a magnitude and is one the state may hold.    *)
LEMMA ReadSample ==
    ASSUME TypeOK, NEW s \in Readable
    PROVE  s \in Seen /\ s.mg \in Nat
<1>1. s \in Seen
  BY DEF Readable, Seen, TypeOK
<1>2. CASE s \in Samples
  <2>1. s \in [axis : Axes, mg : Nat \ {0}]
    BY <1>2, ReportAssumption
  <2> QED BY <1>1, <2>1
<1>3. CASE s = NoSample
  BY <1>1, <1>3 DEF NoSample
<1> QED BY <1>1, <1>2, <1>3 DEF Seen

(* A report built from a pending latch that agrees with the history p      *)
(* leaves latches that agree with it again, and its fields are right       *)
(* (SmartHelmet_ReportStart, SmartHelmet_VitalsTakeFall).                  *)
LEMMA BuildKeeps ==
    ASSUME TypeOK, Debounce,
           NEW pending \in BOOLEAN, NEW p \in Pasts, NEW w \in Windows, NEW sent \in BOOLEAN,
           p.hit => pending, pending => p.alarm,
           p.step = past.step, p.ago = past.ago,
           window' = w,
           Build(pending, p, w, sent)
    PROVE  /\ fall' \in BOOLEAN /\ motion' \in Motions /\ report' \in Reports /\ past' \in Pasts
           /\ Latches' /\ Debounce' /\ Fields'
<1> DEFINE ago == IF p.step THEN 0
                  ELSE IF p.ago < StillReports THEN p.ago + 1 ELSE p.ago
           alarm == WindowFall(w)
<1>1. /\ StillReports \in Nat \ {0}
      /\ p.step \in BOOLEAN /\ p.ago \in 0..StillReports /\ p.hit \in BOOLEAN
      /\ p.alarm \in BOOLEAN /\ p.unsent \in BOOLEAN
      /\ motion \in Motions
  BY ReportAssumption DEF TypeOK, Pasts, Motions
<1>2. ago \in 0..StillReports
  BY <1>1
<1>3. alarm \in BOOLEAN
  BY DEF WindowFall
<1>4. /\ fall' = FALSE
      /\ motion' = NextMotion
      /\ report' = [moving |-> NextMotion.holding, fall |-> pending, sent |-> sent]
      /\ past' = [hit |-> FALSE, alarm |-> alarm, due |-> p.hit, may |-> p.alarm,
                  step |-> FALSE, ago |-> ago, went |-> ago < StillReports,
                  unsent |-> p.unsent /\ ~(sent /\ pending)]
  BY DEF Build
<1>5. /\ motion.moved \in BOOLEAN /\ motion.holding \in BOOLEAN
      /\ motion.quiet \in 0..(StillReports - 1)
  BY <1>1 DEF Motions
<1>6. /\ motion.moved <=> p.step
      /\ motion.holding <=> p.ago < StillReports
      /\ motion.holding => motion.quiet = p.ago
      /\ ~motion.holding => motion.quiet = 0
  BY DEF Debounce
<1>7. /\ NextMotion.moved = FALSE
      /\ NextMotion.holding = (motion.moved \/ (motion.holding /\ ~(motion.quiet + 1 >= StillReports)))
      /\ NextMotion.quiet = IF motion.moved \/ ~motion.holding \/ motion.quiet + 1 >= StillReports
                            THEN 0 ELSE motion.quiet + 1
  BY DEF NextMotion
<1>8. /\ NextMotion.holding \in BOOLEAN
      /\ NextMotion.holding <=> ago < StillReports
      /\ NextMotion.holding => NextMotion.quiet = ago
      /\ ~NextMotion.holding => NextMotion.quiet = 0
      /\ NextMotion.quiet \in 0..(StillReports - 1)
  BY <1>1, <1>5, <1>6, <1>7
<1>9. NextMotion \in Motions
  BY <1>7, <1>8 DEF NextMotion, Motions
<1> DEFINE went == ago < StillReports
           unsent == p.unsent /\ ~(sent /\ pending)
<1>10. past' \in Pasts
  <2>1. went \in BOOLEAN /\ unsent \in BOOLEAN
    OBVIOUS
  <2>2. past' = [hit |-> FALSE, alarm |-> alarm, due |-> p.hit, may |-> p.alarm,
                 step |-> FALSE, ago |-> ago, went |-> went, unsent |-> unsent]
    BY <1>4
  <2>3. FALSE \in BOOLEAN
    OBVIOUS
  <2> HIDE DEF ago, alarm, went, unsent
  <2> QED BY <1>1, <1>2, <1>3, <2>1, <2>2, <2>3, Zenon DEF Pasts
<1> HIDE DEF ago, alarm
<1>11. report' \in Reports
  BY <1>4, <1>8 DEF Reports
<1>12. Latches'
  <2>1. past'.hit = FALSE /\ past'.alarm = alarm
    BY <1>4
  <2>2. WindowFall(window)' = alarm
    BY DEF alarm
  <2> QED BY <2>1, <2>2, <1>4 DEF Latches
<1>13. Debounce'
  <2>1. past'.step = FALSE /\ past'.ago = ago
    BY <1>4
  <2> QED BY <2>1, <1>4, <1>7, <1>8 DEF Debounce
<1>14. Fields'
  BY <1>4, <1>8 DEF Fields, FallNeverMissed, FallHasCause, MovingIsDebounced
<1> QED BY <1>4, <1>9, <1>10, <1>11, <1>12, <1>13, <1>14

(* The types of the variables, taken together. *)
LEMMA TypesTogether ==
    ASSUME powered' \in BOOLEAN, lisOk' \in BOOLEAN, seen' \in Seen,
           prev' \in {<<>>} \cup {<<s>> : s \in Seen},
           window' \in Windows, fall' \in BOOLEAN, motion' \in Motions,
           report' \in Reports, past' \in Pasts
    PROVE  TypeOK'
BY DEF TypeOK, Motions, Reports, Windows

(* The types of the variables, one by one. *)
LEMMA TypesApart ==
    ASSUME TypeOK
    PROVE  /\ powered \in BOOLEAN /\ lisOk \in BOOLEAN /\ seen \in Seen
           /\ prev \in {<<>>} \cup {<<s>> : s \in Seen}
           /\ window \in Windows /\ fall \in BOOLEAN /\ motion \in Motions
           /\ report \in Reports /\ past \in Pasts
BY DEF TypeOK, Motions, Reports, Windows

(* What a push records: its hit, its alarm, and nothing of the motion      *)
(* (shNoteFallMag).                                                        *)
LEMMA PushNoted ==
    ASSUME NEW p \in Pasts, NEW mag \in Nat, NEW w
    PROVE  LET q == NotedPush(p, mag, w)
           IN  /\ q \in Pasts
               /\ q.hit <=> p.hit \/ IsHit(mag)
               /\ q.alarm <=> p.alarm \/ IsHit(mag) \/ WindowFall(w)
               /\ q.step = p.step /\ q.ago = p.ago
               /\ q.due = p.due /\ q.may = p.may /\ q.went = p.went
<1> DEFINE hit == p.hit \/ IsHit(mag)
           unsent == p.unsent \/ IsHit(mag)
           alarm == p.alarm \/ IsHit(mag) \/ WindowFall(w)
<1>1. NotedPush(p, mag, w) = [p EXCEPT !.hit = hit, !.unsent = unsent, !.alarm = alarm]
  BY DEF NotedPush
<1>2. hit \in BOOLEAN /\ unsent \in BOOLEAN /\ alarm \in BOOLEAN
  BY DEF IsHit, WindowFall
<1> HIDE DEF hit, unsent, alarm
<1>3. NotedPush(p, mag, w) \in Pasts
  BY <1>1, <1>2, Zenon DEF Pasts
<1>4. /\ NotedPush(p, mag, w).hit = hit /\ NotedPush(p, mag, w).alarm = alarm
      /\ NotedPush(p, mag, w).step = p.step /\ NotedPush(p, mag, w).ago = p.ago
      /\ NotedPush(p, mag, w).due = p.due /\ NotedPush(p, mag, w).may = p.may
      /\ NotedPush(p, mag, w).went = p.went
  BY <1>1 DEF Pasts
<1> QED BY <1>3, <1>4 DEF hit, alarm

-----------------------------------------------------------------------------
(* The invariant holds when the statics are zeroed. *)
LEMMA InitHolds == Init => IInv
<1> SUFFICES ASSUME Init PROVE IInv
  OBVIOUS
<1>1. TypeOK
  <2>1. Calm \in Motions
    BY ReportAssumption DEF Calm, Motions
  <2>2. past \in Pasts
    BY ReportAssumption DEF Init, Pasts
  <2>3. window \in Windows /\ seen \in Seen
    BY EmptyRing DEF Init, Seen
  <2> QED BY <2>1, <2>2, <2>3 DEF Init, TypeOK, Motions, Windows
<1>2. Latches
  BY EmptyRing DEF Init, Latches
<1>3. Debounce
  BY ReportAssumption DEF Init, Debounce, Calm
<1>4. Fields
  BY DEF Init, Fields, FallNeverMissed, FallHasCause, MovingIsDebounced
<1> QED BY <1>1, <1>2, <1>3, <1>4 DEF IInv

(* A report that is held is built from the latches as they are.            *)
LEMMA ReportHeldKeeps == IInv /\ ReportHeld => IInv'
<1> SUFFICES ASSUME IInv, ReportHeld PROVE IInv'
  OBVIOUS
<1>1. TypeOK /\ Debounce /\ Latches
  BY DEF IInv
<1>2. /\ window' = window /\ Build(fall, past, window, FALSE)
      /\ powered' = powered /\ lisOk' = lisOk /\ seen' = seen /\ prev' = prev
  BY DEF ReportHeld
<1>3. (past.hit => fall) /\ (fall => past.alarm)
  BY <1>1 DEF Latches
<1>4. /\ fall' \in BOOLEAN /\ motion' \in Motions /\ report' \in Reports /\ past' \in Pasts
      /\ Latches' /\ Debounce' /\ Fields'
  BY <1>1, <1>2, <1>3, TypesApart, BuildKeeps
<1>5. TypeOK'
  BY <1>1, <1>2, <1>4, TypesApart, TypesTogether
<1> QED BY <1>4, <1>5 DEF IInv

(* A report that is polled first pushes a sample and processes the ring.   *)
LEMMA ReportStartKeeps ==
    ASSUME IInv, NEW s \in Readable, NEW sent \in BOOLEAN, ReportStart(s, sent)
    PROVE  IInv'
<1> DEFINE w == Pushed(s.mg)
           p == NotedPush(past, s.mg, w)
           pending == fall \/ IsHit(s.mg) \/ WindowFall(w)
<1>1. TypeOK /\ Debounce /\ Latches
  BY DEF IInv
<1>2. s \in Seen /\ s.mg \in Nat
  BY <1>1, ReadSample
<1>3. w \in Windows
  BY <1>1, <1>2, PushedRing
<1>4. pending \in BOOLEAN
  BY DEF IsHit, WindowFall
<1>5. /\ seen' = s /\ window' = w /\ Build(pending, p, w, sent)
      /\ powered' = powered /\ lisOk' = lisOk /\ prev' = prev
  BY DEF ReportStart
<1>6. /\ p \in Pasts
      /\ p.hit <=> past.hit \/ IsHit(s.mg)
      /\ p.alarm <=> past.alarm \/ IsHit(s.mg) \/ WindowFall(w)
      /\ p.step = past.step /\ p.ago = past.ago
  BY <1>1, <1>2, TypesApart, PushNoted
<1>7. (p.hit => pending) /\ (pending => p.alarm)
  BY <1>1, <1>6 DEF Latches
<1> HIDE DEF w, p, pending
<1>8. /\ fall' \in BOOLEAN /\ motion' \in Motions /\ report' \in Reports /\ past' \in Pasts
      /\ Latches' /\ Debounce' /\ Fields'
  BY <1>1, <1>3, <1>4, <1>5, <1>6, <1>7, BuildKeeps
<1>9. TypeOK'
  BY <1>1, <1>2, <1>3, <1>5, <1>8, TypesApart, TypesTogether
<1> QED BY <1>8, <1>9 DEF IInv

(* The motion poll latches the step and the hit that its sample shows.     *)
LEMMA MotionPollKeeps ==
    ASSUME IInv, NEW s \in Readable, MotionPoll(s)
    PROVE  IInv'
<1> DEFINE w == Pushed(s.mg)
           p == NotedPush(past, s.mg, w)
           step == prev # <<>> /\ Step(prev[1], s) >= MotionRmsMg
           moved == motion.moved \/ step
           stepped == p.step \/ step
<1>1. TypeOK /\ Debounce /\ Latches /\ Fields
  BY DEF IInv
<1>2. s \in Seen /\ s.mg \in Nat
  BY <1>1, ReadSample
<1>3. w \in Windows
  BY <1>1, <1>2, PushedRing
<1>4. moved \in BOOLEAN /\ stepped \in BOOLEAN
  OBVIOUS
<1>5. /\ seen' = s /\ prev' = <<s>> /\ window' = w
      /\ fall' = (fall \/ IsHit(s.mg))
      /\ motion' = [motion EXCEPT !.moved = moved]
      /\ past' = [p EXCEPT !.step = stepped]
      /\ powered' = powered /\ lisOk' = lisOk /\ report' = report
  BY DEF MotionPoll
<1>6. /\ p \in Pasts
      /\ p.hit <=> past.hit \/ IsHit(s.mg)
      /\ p.alarm <=> past.alarm \/ IsHit(s.mg) \/ WindowFall(w)
      /\ p.step = past.step /\ p.ago = past.ago
      /\ p.due = past.due /\ p.may = past.may /\ p.went = past.went
  BY <1>1, <1>2, TypesApart, PushNoted
<1>7. fall' \in BOOLEAN
  BY <1>5 DEF IsHit
<1>8. moved <=> stepped
  BY <1>1, <1>6 DEF Debounce
<1> HIDE DEF w, p, moved, stepped
<1>9. motion' \in Motions
  BY <1>1, <1>4, <1>5, TypesApart, Zenon DEF Motions
<1>10. past' \in Pasts
  BY <1>4, <1>5, <1>6, Zenon DEF Pasts
<1>11. /\ motion'.moved = moved /\ motion'.holding = motion.holding
       /\ motion'.quiet = motion.quiet
  BY <1>1, <1>5, TypesApart DEF Motions
<1>12. /\ past'.step = stepped /\ past'.hit = p.hit /\ past'.alarm = p.alarm
       /\ past'.ago = p.ago /\ past'.due = p.due /\ past'.may = p.may
       /\ past'.went = p.went
  BY <1>5, <1>6 DEF Pasts
<1>13. TypeOK'
  <2>1. prev' \in {<<>>} \cup {<<t>> : t \in Seen}
    BY <1>2, <1>5
  <2> QED BY <2>1, <1>1, <1>2, <1>3, <1>5, <1>7, <1>9, <1>10, TypesApart, TypesTogether
<1>14. Latches'
  BY <1>1, <1>5, <1>6, <1>12 DEF Latches
<1>15. Debounce'
  BY <1>1, <1>6, <1>8, <1>11, <1>12 DEF Debounce
<1>16. Fields'
  BY <1>1, <1>5, <1>6, <1>12 DEF Fields, FallNeverMissed, FallHasCause, MovingIsDebounced
<1> QED BY <1>13, <1>14, <1>15, <1>16 DEF IInv

(* A history that forgets keeps its type and what it knows of the motion.  *)
LEMMA ForgottenPast ==
    ASSUME NEW p \in Pasts
    PROVE  /\ Forgotten(p) \in Pasts
           /\ Forgotten(p).hit = FALSE /\ Forgotten(p).alarm = FALSE
           /\ Forgotten(p).step = p.step /\ Forgotten(p).ago = p.ago
           /\ Forgotten(p).due = p.due /\ Forgotten(p).may = p.may
           /\ Forgotten(p).went = p.went
<1>1. FALSE \in BOOLEAN
  OBVIOUS
<1>2. Forgotten(p) \in Pasts
  BY <1>1, Zenon DEF Forgotten, Pasts
<1> QED BY <1>2 DEF Forgotten, Pasts

(* A restart of the module empties the ring and the fall latch.            *)
LEMMA ModuleRestartKeeps == IInv /\ ModuleRestart => IInv'
<1> SUFFICES ASSUME IInv, ModuleRestart PROVE IInv'
  OBVIOUS
<1>1. TypeOK /\ Debounce /\ Latches /\ Fields
  BY DEF IInv
<1>2. /\ window' = <<>> /\ fall' = FALSE /\ past' = Forgotten(past)
      /\ powered' = powered /\ lisOk' = lisOk /\ seen' = seen /\ prev' = prev
      /\ motion' = motion /\ report' = report
  BY DEF ModuleRestart, VitalsInit
<1>3. TypeOK'
  BY <1>1, <1>2, EmptyRing, ForgottenPast, TypesApart, TypesTogether
<1>4. Latches'
  BY <1>1, <1>2, EmptyRing, ForgottenPast, TypesApart DEF Latches
<1>5. Debounce'
  BY <1>1, <1>2, ForgottenPast, TypesApart DEF Debounce
<1>6. Fields'
  BY <1>1, <1>2, ForgottenPast, TypesApart
     DEF Fields, FallNeverMissed, FallHasCause, MovingIsDebounced
<1> QED BY <1>3, <1>4, <1>5, <1>6 DEF IInv

(* Power-on starts the vitals over and builds a report that is held.       *)
LEMMA PowerOnKeeps ==
    ASSUME IInv, NEW found \in BOOLEAN, PowerOn(found)
    PROVE  IInv'
<1>1. TypeOK /\ Debounce /\ Latches
  BY DEF IInv
<1>2. /\ powered' = TRUE /\ lisOk' = found /\ window' = <<>>
      /\ Build(FALSE, Forgotten(past), <<>>, FALSE)
      /\ seen' = seen /\ prev' = prev
  BY DEF PowerOn
<1>3. /\ fall' \in BOOLEAN /\ motion' \in Motions /\ report' \in Reports /\ past' \in Pasts
      /\ Latches' /\ Debounce' /\ Fields'
  <2> DEFINE p == Forgotten(past)
  <2>1. /\ p \in Pasts /\ p.hit = FALSE
        /\ p.step = past.step /\ p.ago = past.ago
    BY <1>1, ForgottenPast, TypesApart
  <2>2. Build(FALSE, p, <<>>, FALSE)
    BY <1>2
  <2> HIDE DEF p
  <2> QED BY <1>1, <1>2, <2>1, <2>2, EmptyRing, BuildKeeps
<1>4. TypeOK'
  BY <1>1, <1>2, <1>3, EmptyRing, TypesApart, TypesTogether
<1> QED BY <1>3, <1>4 DEF IInv

(* Power-off clears the motion latches and leaves the fall latch alone.    *)
LEMMA PowerOffKeeps == IInv /\ PowerOff => IInv'
<1> SUFFICES ASSUME IInv, PowerOff PROVE IInv'
  OBVIOUS
<1>1. TypeOK /\ Debounce /\ Latches /\ Fields
  BY DEF IInv
<1>2. /\ powered' = FALSE /\ lisOk' = FALSE /\ motion' = Calm
      /\ past' = [past EXCEPT !.step = FALSE, !.ago = StillReports, !.unsent = FALSE]
      /\ seen' = seen /\ prev' = prev /\ window' = window /\ fall' = fall
      /\ report' = report
  BY DEF PowerOff
<1>3. FALSE \in BOOLEAN /\ StillReports \in 0..StillReports /\ StillReports \in Nat \ {0}
  BY ReportAssumption
<1>4. past' \in Pasts
  BY <1>1, <1>2, <1>3, TypesApart, Zenon DEF Pasts
<1>5. /\ past'.step = FALSE /\ past'.ago = StillReports /\ past'.hit = past.hit
      /\ past'.alarm = past.alarm /\ past'.due = past.due /\ past'.may = past.may
      /\ past'.went = past.went
  BY <1>1, <1>2, TypesApart DEF Pasts
<1>6. Calm \in Motions
  BY <1>3 DEF Calm, Motions
<1>7. TypeOK'
  BY <1>1, <1>2, <1>4, <1>6, TypesApart, TypesTogether
<1>8. Latches'
  BY <1>1, <1>2, <1>5 DEF Latches
<1>9. Debounce'
  BY <1>2, <1>3, <1>5 DEF Debounce, Calm
<1>10. Fields'
  BY <1>1, <1>2, <1>5 DEF Fields, FallNeverMissed, FallHasCause, MovingIsDebounced
<1> QED BY <1>7, <1>8, <1>9, <1>10 DEF IInv

(* Every step keeps the invariant, one case for each handler.              *)
LEMMA NextKeeps == IInv /\ [Next]_vars => IInv'
<1> SUFFICES ASSUME IInv, [Next]_vars PROVE IInv'
  OBVIOUS
<1>1. TypeOK /\ Debounce /\ Latches /\ Fields
  BY DEF IInv
<1>2. CASE VitalsProcess
  <2>1. /\ fall' = (fall \/ WindowFall(window))
        /\ powered' = powered /\ lisOk' = lisOk /\ seen' = seen /\ prev' = prev
        /\ window' = window /\ motion' = motion /\ report' = report /\ past' = past
    BY <1>2 DEF VitalsProcess
  <2>2. fall' \in BOOLEAN
    BY <2>1 DEF WindowFall
  <2>3. TypeOK'
    BY <1>1, <2>1, <2>2, TypesApart, TypesTogether
  <2>4. Latches' /\ Debounce' /\ Fields'
    BY <1>1, <2>1
       DEF Latches, Debounce, Fields, FallNeverMissed, FallHasCause, MovingIsDebounced
  <2> QED BY <2>3, <2>4 DEF IInv
<1>3. CASE LisFound
  <2>1. /\ lisOk' = TRUE
        /\ powered' = powered /\ seen' = seen /\ prev' = prev /\ window' = window
        /\ fall' = fall /\ motion' = motion /\ report' = report /\ past' = past
    BY <1>3 DEF LisFound
  <2>2. TypeOK'
    BY <1>1, <2>1, TypesApart, TypesTogether
  <2>3. Latches' /\ Debounce' /\ Fields'
    BY <1>1, <2>1
       DEF Latches, Debounce, Fields, FallNeverMissed, FallHasCause, MovingIsDebounced
  <2> QED BY <2>2, <2>3 DEF IInv
<1>4. CASE UNCHANGED vars
  BY <1>1, <1>4 DEF vars, IInv, TypeOK, Latches, Debounce, Fields, FallNeverMissed,
     FallHasCause, MovingIsDebounced
<1> QED BY <1>2, <1>3, <1>4, ReportHeldKeeps, ReportStartKeeps, MotionPollKeeps,
           ModuleRestartKeeps, PowerOnKeeps, PowerOffKeeps DEF Next

(* The invariant holds in every state of every behaviour of the report.    *)
THEOREM Invariance == Spec => []IInv
BY InitHolds, NextKeeps, PTL DEF Spec

(* The statics of the report keep their types; the ring never outgrows     *)
(* MOTION_WIN and the quiet counter never reaches its limit.               *)
THEOREM TypeCorrect == Spec => []TypeOK
<1>1. IInv => TypeOK
  BY DEF IInv
<1> QED BY <1>1, Invariance, PTL

(* No hit between two reports is missed by the second, in any order of     *)
(* polls, processing and reports.                                          *)
THEOREM FallsAreReported == Spec => []FallNeverMissed
<1>1. IInv => FallNeverMissed
  BY DEF IInv, Fields
<1> QED BY <1>1, Invariance, PTL

(* No report says fall:yes without a cause the ring held since the report  *)
(* before.                                                                 *)
THEOREM FallsAreCaused == Spec => []FallHasCause
<1>1. IInv => FallHasCause
  BY DEF IInv, Fields
<1> QED BY <1>1, Invariance, PTL

(* Moving is reported for exactly StillReports reports from a step.        *)
THEOREM MotionIsDebounced == Spec => []MovingIsDebounced
<1>1. IInv => MovingIsDebounced
  BY DEF IInv, Fields
<1> QED BY <1>1, Invariance, PTL
=============================================================================
