-------------------------- MODULE WisunLinkProofs --------------------------
(***************************************************************************)
(* Proofs about WisunLink, for every value of its constants.  The handlers *)
(* are operators on the firmware record, so the inductive invariant is     *)
(* stated on a record too (Running while powered, Off otherwise), and      *)
(* there is one lemma per operator saying that it preserves Running.       *)
(***************************************************************************)
EXTENDS WisunLink, TLAPS

\* What holds of the powered firmware whatever the dialogue is doing.
Base(x) ==
    /\ x \in Firmware
    /\ x.powered
    /\ "PROBE_RETRY" \in x.timers => x.probe_try < ProbeMax
    /\ ~(x.online /\ x.rejoining)

\* Base, and the counters fit the step: what a handler may start from.
Sound(x) ==
    /\ Base(x)
    /\ x.passthrough => x.step = "DONE"
    /\ x.step = "CMD" => x.at_idx < AtCount
    /\ x.step = "PROV_SET" => x.prov_i = ProvSaved \/ x.prov_i < x.prov_n

Waits(x) == x.step \notin {"idle", "DONE"} => "LINK_CHECK" \in x.timers

\* The powered firmware between two messages.
Running(x) == Sound(x) /\ Waits(x)

\* The firmware after SmartHelmet_PowerOff or SmartHelmet_Close.
Off(x) ==
    /\ x \in Firmware
    /\ ~x.powered /\ ~x.open /\ ~x.passthrough
    /\ x.timers = {} /\ x.tx = <<>> /\ x.step = "idle"
    /\ ~(x.online /\ x.rejoining)

-----------------------------------------------------------------------------
(* Delayed messages and the UART sink. *)

\* Arming a message keeps the record a firmware record.
LEMMA ArmType ==
    ASSUME NEW x \in Firmware, NEW id \in Timers
    PROVE  Arm(x, id) \in Firmware
  BY SMTT(30) DEF Arm, Firmware

\* y has the fields of x that Sound and Off look at, or drops online.
Keeps(x, y) ==
    /\ y.powered = x.powered /\ y.passthrough = x.passthrough
    /\ y.step = x.step /\ y.at_idx = x.at_idx
    /\ y.prov_i = x.prov_i /\ y.prov_n = x.prov_n
    /\ y.probe_try = x.probe_try /\ y.timers = x.timers
    /\ y.open = x.open /\ y.tx = x.tx
    /\ y.online /\ y.rejoining => x.online /\ x.rejoining

\* A change of the bookkeeping elsewhere keeps the firmware running, or off.
LEMMA Frame ==
    ASSUME NEW x, NEW y \in Firmware, Keeps(x, y)
    PROVE  (Running(x) => Running(y)) /\ (Off(x) => Off(y))
<1>1. Running(x) => Running(y)
  BY DEF Keeps, Running, Waits, Sound, Base
<1>2. Off(x) => Off(y)
  BY DEF Keeps, Off
<1>3. QED
  BY <1>1, <1>2

\* Arming any message but the probe retry keeps the firmware sound.
LEMMA ArmSound ==
    ASSUME NEW x, Sound(x), NEW id \in Timers, id # "PROBE_RETRY"
    PROVE  /\ Sound(Arm(x, id))
           /\ Arm(x, id).step = x.step
           /\ Arm(x, id).passthrough = x.passthrough
           /\ Arm(x, id).timers = x.timers \cup {id}
<1>1. Arm(x, id) \in Firmware
  BY ArmType DEF Sound, Base
<1>2. QED
  BY <1>1, ZenonT(40) DEF Sound, Base, Arm, Firmware

\* Arming LINK_CHECK makes a sound record one that waits for nothing else.
LEMMA ArmLink ==
    ASSUME NEW x, Sound(x)
    PROVE  Running(Arm(x, "LINK_CHECK"))
  BY ArmSound DEF Running, Waits, Timers

\* Arming a message other than the probe retry keeps the firmware running.
LEMMA ArmRunning ==
    ASSUME NEW x, Running(x), NEW id \in Timers, id # "PROBE_RETRY"
    PROVE  Running(Arm(x, id))
  BY ArmSound DEF Running, Waits

\* Cancelling messages keeps the firmware sound.
LEMMA CancelSound ==
    ASSUME NEW x, Sound(x), NEW ids
    PROVE  /\ Sound(Cancel(x, ids))
           /\ Cancel(x, ids).step = x.step
           /\ Cancel(x, ids).passthrough = x.passthrough
           /\ Cancel(x, ids).timers = x.timers \ ids
           /\ Cancel(x, ids).too_long_retry = x.too_long_retry
<1>1. x.timers \ ids \in SUBSET Timers
  BY DEF Sound, Base, Firmware
<1>2. Cancel(x, ids) \in Firmware
  BY <1>1, ZenonT(40) DEF Sound, Base, Cancel, Firmware
<1>3. QED
  BY <1>2, ZenonT(40) DEF Sound, Base, Cancel, Firmware

\* Cancelling a message other than LINK_CHECK keeps the firmware running.
LEMMA CancelRunning ==
    ASSUME NEW x, Running(x), NEW ids, "LINK_CHECK" \notin ids
    PROVE  Running(Cancel(x, ids))
  BY CancelSound DEF Running, Waits

\* Writing frames, or failing to, changes only the sink.
LEMMA TxSound ==
    ASSUME NEW x, Sound(x), NEW s \in Seq(Frames)
    PROVE  /\ Sound([x EXCEPT !.tx = s])
           /\ [x EXCEPT !.tx = s].step = x.step
           /\ [x EXCEPT !.tx = s].timers = x.timers
           /\ [x EXCEPT !.tx = s].passthrough = x.passthrough
<1>1. [x EXCEPT !.tx = s] \in Firmware
  BY DEF Sound, Base, Firmware
<1>2. QED
  BY <1>1 DEF Sound, Base, Firmware

\* A command, written or lost, changes only the sink.
LEMMA SendProbeSound ==
    ASSUME NEW x, Sound(x), NEW cmd \in Frames
    PROVE  /\ Sound(SendProbe(x, cmd))
           /\ SendProbe(x, cmd).step = x.step
           /\ SendProbe(x, cmd).timers = x.timers
           /\ SendProbe(x, cmd).passthrough = x.passthrough
<1>1. Append(x.tx, cmd) \in Seq(Frames)
  BY DEF Sound, Base, Firmware
<1>2. CASE Room(x) > 0
  BY <1>1, <1>2, TxSound DEF SendProbe
<1>3. CASE ~(Room(x) > 0)
  BY <1>3 DEF SendProbe
<1>4. QED
  BY <1>2, <1>3

\* Leaving passthrough from any sound record gives a running dialogue.
LEMMA LeaveRunning ==
    ASSUME NEW x, Base(x), ~x.passthrough, NEW next \in {"RESET", "DEST"}
    PROVE  Running(Leave(x, next))
<1> DEFINE y == [x EXCEPT !.step = "LEAVE", !.leave_next = next]
           z == SendProbe(y, "exit")
<1>1. y \in Firmware
  BY ZenonT(40) DEF Sound, Base, Firmware, Steps, Rejoining
<1>2. Sound(y)
  BY <1>1 DEF Sound, Base, Firmware
<1>3. Sound(z)
  BY <1>2, SendProbeSound DEF Frames
<1>4. Running(Arm(z, "LINK_CHECK"))
  BY <1>3, ArmLink
<1>5. QED
  BY <1>4 DEF Leave

-----------------------------------------------------------------------------
(* The session. *)

\* A rejoin leaves a running firmware, whether it starts or is held back.
LEMMA RejoinRunning ==
    ASSUME NEW x, Running(x)
    PROVE  Running(UartRejoin(x))
<1> DEFINE y == [x EXCEPT !.rejoin_hold = "held", !.rejoining = TRUE,
                          !.passthrough = FALSE, !.online = FALSE,
                          !.send_ok_wait = FALSE]
<1>1. CASE x.step \in Rejoining \/ x.rejoin_hold = "held"
  BY <1>1 DEF UartRejoin
<1>2. CASE ~(x.step \in Rejoining \/ x.rejoin_hold = "held")
  <2>1. y \in Firmware
    BY Zenon DEF Running, Sound, Base, Firmware, Holds
  <2>2. Sound(y) /\ ~y.passthrough
    BY <2>1, SMTT(30) DEF Running, Sound, Base, Firmware
  <2> HIDE DEF y
  <2>3. Sound(ReportStop(y)) /\ ~ReportStop(y).passthrough
    BY <2>2, CancelSound DEF ReportStop
  <2>4. Running(Leave(ReportStop(y), "DEST"))
    BY <2>3, LeaveRunning DEF Sound
  <2>5. QED
    BY <1>2, <2>4 DEF UartRejoin, y
<1>3. QED
  BY <1>1, <1>2

\* Clearing online or changing the bookkeeping of the reports is harmless.
LEMMA OfflineRunning ==
    ASSUME NEW x, Running(x), NEW w \in BOOLEAN
    PROVE  Running([x EXCEPT !.online = FALSE, !.send_ok_wait = w])
<1> DEFINE y == [x EXCEPT !.online = FALSE, !.send_ok_wait = w]
<1>1. y \in Firmware
  BY ZenonT(40) DEF Running, Sound, Base, Firmware
<1>2. Keeps(x, y)
  BY DEF Keeps, Running, Sound, Base, Firmware
<1>3. QED
  BY <1>1, <1>2, Frame

\* Counting a report, or rejoining after too many, keeps the firmware running.
LEMMA NoteReportRunning ==
    ASSUME NEW x, Running(x), NEW ok \in BOOLEAN
    PROVE  Running(UartNoteReportSent(x, ok))
<1> DEFINE m == IF x.missed_ok < MissedMax THEN x.missed_ok + 1 ELSE MissedMax
<1>1. m \in 0..MissedMax
  BY ConstantsAssumption, SMTT(30) DEF Running, Sound, Base, Firmware
<1>2. ASSUME NEW k \in 0..MissedMax
      PROVE  Running([x EXCEPT !.missed_ok = k])
  <2>1. [x EXCEPT !.missed_ok = k] \in Firmware
    BY Zenon DEF Running, Sound, Base, Firmware
  <2>2. Keeps(x, [x EXCEPT !.missed_ok = k])
    BY DEF Keeps, Running, Sound, Base, Firmware
  <2>3. QED
    BY <2>1, <2>2, Frame
<1>3. Running([x EXCEPT !.online = FALSE])
  <2>1. [x EXCEPT !.online = FALSE] \in Firmware
    BY Zenon DEF Running, Sound, Base, Firmware
  <2>2. Keeps(x, [x EXCEPT !.online = FALSE])
    BY DEF Keeps, Running, Sound, Base, Firmware
  <2>3. QED
    BY <2>1, <2>2, Frame
<1>4. Running([x EXCEPT !.send_ok_wait = TRUE])
  <2>1. [x EXCEPT !.send_ok_wait = TRUE] \in Firmware
    BY Zenon DEF Running, Sound, Base, Firmware
  <2>2. Keeps(x, [x EXCEPT !.send_ok_wait = TRUE])
    BY DEF Keeps, Running, Sound, Base, Firmware
  <2>3. QED
    BY <2>1, <2>2, Frame
<1>5. Running([x EXCEPT !.missed_ok = m])
  BY <1>1, <1>2
<1>6. /\ Running(UartRejoin([x EXCEPT !.missed_ok = m]))
      /\ Running(UartRejoin([x EXCEPT !.online = FALSE]))
  BY <1>3, <1>5, RejoinRunning
<1>7. QED
  BY <1>4, <1>5, <1>6, Zenon DEF UartNoteReportSent

\* Sending the frames of a report keeps the firmware running.
LEMMA SendReportRunning ==
    ASSUME NEW x, Running(x)
    PROVE  Running(SendReportLines(x))
<1> DEFINE n == IF Room(x) < ReportLines THEN Room(x) ELSE ReportLines
           s == x.tx \o [i \in 1..n |-> "line"]
           y == [x EXCEPT !.tx = s]
<1>1. Len(x.tx) \in Nat /\ x.tx \in Seq(Frames)
  BY DEF Running, Sound, Base, Firmware
<1>2. n \in Int
  BY <1>1, ConstantsAssumption DEF Room
<1>3. [i \in 1..n |-> "line"] \in Seq(Frames)
  <2>1. CASE n \in Nat
    BY <2>1 DEF Frames
  <2>2. CASE n \notin Nat
    <3>1. [i \in 1..n |-> "line"] = [i \in 1..0 |-> "line"]
      BY <1>2, <2>2
    <3>2. [i \in 1..0 |-> "line"] \in Seq(Frames)
      OBVIOUS
    <3>3. QED
      BY <3>1, <3>2
  <2>3. QED
    BY <2>1, <2>2
<1>4. s \in Seq(Frames)
  BY <1>1, <1>3
<1>5. Running(y)
  BY <1>4, TxSound DEF Running, Waits
<1>6. QED
  BY <1>5, NoteReportRunning DEF SendReportLines

\* A report, sent or only logged, keeps the firmware running.
LEMMA ReportStartRunning ==
    ASSUME NEW x, Running(x)
    PROVE  Running(ReportStart(x))
<1> DEFINE y == [x EXCEPT !.restart_seen = FALSE]
<1>1. y \in Firmware
  BY Zenon DEF Running, Sound, Base, Firmware
<1>2. Running(y)
  <2>1. Keeps(x, y)
    BY DEF Keeps, Running, Sound, Base, Firmware
  <2>2. QED
    BY <1>1, <2>1, Frame
<1>3. Running(IF x.passthrough /\ x.sensors THEN SendReportLines(y) ELSE y)
  BY <1>2, SendReportRunning
<1>4. QED
  BY <1>3, ArmRunning DEF ReportStart, Timers

\* "send OK" ends a dialogue that was re-entering passthrough.
LEMMA NoteSendOkRunning ==
    ASSUME NEW x, Running(x)
    PROVE  Running(NoteSendOk(x))
<1>1. 0 \in 0..MissedMax /\ 0 \in 0..TooLongMax
  BY ConstantsAssumption
<1>2. NoteSendOk(x) \in Firmware
  <2>1. x \in Firmware
    BY DEF Running, Sound, Base
  <2>2. (IF x.step \in Rejoining THEN "DONE" ELSE x.step) \in Steps
    BY <2>1 DEF Firmware, Steps
  <2>3. (x.passthrough \/ x.step \in Rejoining) \in BOOLEAN
    OBVIOUS
  <2>4. QED
    BY <1>1, <2>1, <2>2, <2>3, ZenonT(60) DEF Firmware, NoteSendOk
<1> DEFINE y == NoteSendOk(x)
<1>3. /\ y.powered = x.powered /\ y.at_idx = x.at_idx
      /\ y.prov_i = x.prov_i /\ y.prov_n = x.prov_n
      /\ y.probe_try = x.probe_try /\ y.timers = x.timers
      /\ y.rejoining = FALSE
      /\ y.step = IF x.step \in Rejoining THEN "DONE" ELSE x.step
  BY DEF Running, Sound, Base, Firmware, NoteSendOk
<1>4. y.passthrough => x.passthrough \/ x.step \in Rejoining
  BY DEF Running, Sound, Base, Firmware, NoteSendOk
<1> HIDE DEF y
<1>5. QED
  BY <1>2, <1>3, <1>4 DEF Running, Sound, Base, Waits, y

\* Raising the restart latch keeps the firmware running.
LEMMA RestartSeenRunning ==
    ASSUME NEW x, Running(x), NEW seen \in BOOLEAN
    PROVE  Running([x EXCEPT !.restart_seen = seen])
<1>1. [x EXCEPT !.restart_seen = seen] \in Firmware
  BY Zenon DEF Running, Sound, Base, Firmware
<1>2. Keeps(x, [x EXCEPT !.restart_seen = seen])
  BY DEF Keeps, Running, Sound, Base, Firmware
<1>3. QED
  BY <1>1, <1>2, Frame

\* What a chunk says of the session keeps the firmware running.
LEMMA NoteRxRunning ==
    ASSUME NEW x, Running(x), NEW chunk
    PROVE  Running(NoteRx(x, chunk))
<1> DEFINE f == [x EXCEPT !.online = FALSE, !.send_ok_wait = FALSE]
           y == IF "send_fail" \in chunk THEN UartRejoin(f)
                ELSE IF "send_ok" \in chunk THEN NoteSendOk(x) ELSE x
<1>1. Running(f)
  BY OfflineRunning
<1>2. Running(y)
  BY <1>1, RejoinRunning, NoteSendOkRunning
<1>3. (y.restart_seen \/ "restart" \in chunk) \in BOOLEAN
  OBVIOUS
<1>4. NoteRx(x, chunk)
        = [y EXCEPT !.restart_seen = y.restart_seen \/ "restart" \in chunk]
  BY DEF NoteRx
<1>5. QED
  BY <1>2, <1>3, <1>4, RestartSeenRunning

\* A CLI reject ends the session and re-enters it at most TooLongMax times.
LEMMA CmdTooLongRunning ==
    ASSUME NEW x, Running(x)
    PROVE  Running(OnCmdTooLong(x))
<1> DEFINE y == [x EXCEPT !.passthrough = FALSE]
           z == ReportStop(y)
           r == [z EXCEPT !.too_long_retry = z.too_long_retry + 1]
<1>1. y \in Firmware
  BY Zenon DEF Running, Sound, Base, Firmware
<1>2. Running(y) /\ ~y.passthrough /\ y.too_long_retry = x.too_long_retry
  BY <1>1 DEF Running, Sound, Base, Waits, Firmware
<1>3. Running(z) /\ ~z.passthrough
  BY <1>2, CancelRunning, CancelSound DEF ReportStop, Running
<1>4. z.too_long_retry = x.too_long_retry
  BY <1>2, CancelSound, ZenonT(40) DEF ReportStop, Running
<1>5. ASSUME x.too_long_retry < TooLongMax
      PROVE  Running(Leave(r, "DEST"))
  <2> HIDE DEF z
  <2>0. x.too_long_retry \in 0..TooLongMax
    BY DEF Running, Sound, Base, Firmware
  <2>1. z.too_long_retry + 1 \in 0..TooLongMax
    BY <1>4, <1>5, <2>0, ConstantsAssumption
  <2>2. ASSUME NEW k \in 0..TooLongMax
        PROVE  /\ Sound([z EXCEPT !.too_long_retry = k])
               /\ ~[z EXCEPT !.too_long_retry = k].passthrough
    <3>1. [z EXCEPT !.too_long_retry = k] \in Firmware
      BY <1>3, ZenonT(40) DEF Running, Sound, Base, Firmware
    <3>2. QED
      BY <1>3, <3>1 DEF Running, Sound, Base, Firmware
  <2>3. QED
    BY <2>1, <2>2, LeaveRunning DEF Sound
<1>6. QED
  BY <1>3, <1>5 DEF OnCmdTooLong

\* The line splitter keeps the firmware running.
LEMMA RxLineRunning ==
    ASSUME NEW x, Running(x), NEW chunk
    PROVE  Running(RxLinePush(x, chunk))
<1> DEFINE b == x.restart_seen \/ chunk \cap {"restart", "restartLine"} # {}
           y == [x EXCEPT !.restart_seen = b]
<1>1. b \in BOOLEAN
  OBVIOUS
<1>2. Running(y)
  BY <1>1, RestartSeenRunning
<1>3. QED
  BY <1>2, CmdTooLongRunning DEF RxLinePush

\* Collecting replies changes nothing else.
LEMMA AsmRunning ==
    ASSUME NEW x, Running(x), NEW a \in SUBSET Tokens
    PROVE  Running([x EXCEPT !.asm = a])
<1>1. [x EXCEPT !.asm = a] \in Firmware
  BY Zenon DEF Running, Sound, Base, Firmware
<1>2. Keeps(x, [x EXCEPT !.asm = a])
  BY DEF Keeps, Running, Sound, Base, Firmware
<1>3. QED
  BY <1>1, <1>2, Frame

\* Seeing the start banner changes nothing else.
LEMMA ResetSeenSound ==
    ASSUME NEW x, Sound(x), NEW b \in BOOLEAN
    PROVE  /\ Sound([x EXCEPT !.reset_seen = b])
           /\ [x EXCEPT !.reset_seen = b].passthrough = x.passthrough
<1>1. [x EXCEPT !.reset_seen = b] \in Firmware
  BY ZenonT(40) DEF Sound, Base, Firmware
<1>2. QED
  BY <1>1 DEF Sound, Base, Firmware

\* A received chunk keeps the firmware running.
LEMMA ConsumeRunning ==
    ASSUME NEW x, Running(x), NEW chunk \in SUBSET Tokens, NEW fits \in BOOLEAN
    PROVE  Running(UartConsume(x, chunk, fits))
<1> DEFINE a == IF fits THEN x.asm \cup (chunk \cap Sought(x.step)) ELSE x.asm
           y == RxLinePush(NoteRx([x EXCEPT !.asm = a], chunk), chunk)
           b == y.reset_seen \/ "banner" \in a
           z == [y EXCEPT !.reset_seen = b]
<1>1. a \in SUBSET Tokens
  BY DEF Running, Sound, Base, Firmware
<1>2. Running([x EXCEPT !.asm = a])
  BY <1>1, AsmRunning
<1>3. Running(y)
  BY <1>2, NoteRxRunning, RxLineRunning
<1> HIDE DEF y
<1>4. b \in BOOLEAN
  OBVIOUS
<1>5. Running(Arm(z, "LINK_CHECK"))
  BY <1>3, <1>4, ResetSeenSound, ArmLink DEF Running
<1>6. Running(Arm(y, "LINK_CHECK"))
  BY <1>3, ArmLink DEF Running
<1>7. UartConsume(x, chunk, fits) \in {Arm(z, "LINK_CHECK"),
                                       Arm(y, "LINK_CHECK"), y}
  BY Zenon DEF UartConsume, y
<1>8. QED
  BY <1>3, <1>5, <1>6, <1>7

-----------------------------------------------------------------------------
(* The dialogue. *)

\* Entering a step with its command written, or lost, leaves it waiting.
LEMMA AskRunning ==
    ASSUME NEW x, Base(x), ~x.passthrough,
           NEW s \in Steps \ {"idle", "DONE"}, NEW cmd \in Frames,
           s = "CMD" => x.at_idx < AtCount,
           s = "PROV_SET" => x.prov_i = ProvSaved \/ x.prov_i < x.prov_n
    PROVE  Running(Ask(x, s, cmd))
<1> DEFINE y == [x EXCEPT !.asm = {}, !.step = s]
<1>1. y \in Firmware
  BY ZenonT(40) DEF Sound, Base, Firmware
<1>2. Sound(y)
  BY <1>1 DEF Sound, Base, Firmware
<1>3. Sound(SendProbe(y, cmd))
  BY <1>2, SendProbeSound
<1>4. QED
  BY <1>3, ArmLink DEF Ask

\* The probes are over and the session is entered.
LEMMA AtFinishRunning ==
    ASSUME NEW x, Base(x)
    PROVE  Running(AtFinish(x))
<1> DEFINE b == x.at_fail = 0 /\ x.at_pass > 0 /\ x.reset_seen
           y == [x EXCEPT !.at_ok = b, !.passthrough = FALSE, !.asm = {}]
<1>1. b \in BOOLEAN
  OBVIOUS
<1> HIDE DEF b
<1>2. y \in Firmware
  BY <1>1, ZenonT(40) DEF Base, Firmware
<1>3. Base(y) /\ ~y.passthrough
  BY <1>2 DEF Base, Firmware
<1>4. QED
  BY <1>3, LeaveRunning DEF AtFinish, b

\* The next probe is asked, or the probes are over.
LEMMA AtSendRunning ==
    ASSUME NEW x, Base(x), ~x.passthrough
    PROVE  Running(AtSendCurrent(x))
<1>1. CASE x.at_idx >= AtCount
  BY <1>1, AtFinishRunning DEF AtSendCurrent
<1>2. CASE ~(x.at_idx >= AtCount)
  <2>1. x.at_idx < AtCount
    BY <1>2, ConstantsAssumption DEF Base, Firmware
  <2>2. Running(Ask(x, "CMD", "at"))
    BY <2>1, AskRunning DEF Sound, Steps, Frames, SetupCmds
  <2>3. QED
    BY <1>2, <2>2 DEF AtSendCurrent
<1>3. QED
  BY <1>1, <1>2

\* Restarting the probes at the first one.
LEMMA AtRestartRunning ==
    ASSUME NEW x, Sound(x), ~x.passthrough, x.step # "CMD"
    PROVE  Running(AtSendCurrent([x EXCEPT !.at_idx = 0]))
<1> DEFINE y == [x EXCEPT !.at_idx = 0]
<1>1. 0 \in 0..AtCount
  BY ConstantsAssumption
<1>2. y \in Firmware
  BY <1>1, Zenon DEF Sound, Base, Firmware
<1>3. Sound(y) /\ ~y.passthrough
  BY <1>2 DEF Sound, Base, Firmware
<1>4. QED
  BY <1>3, AtSendRunning DEF Sound

\* From any setting, the next one is written or the settings are saved.
LEMMA ProvSendRunning ==
    ASSUME NEW x, Sound(x), ~x.passthrough, NEW k \in 0..ProvMax
    PROVE  Running(ProvSendCurrent([x EXCEPT !.prov_i = k]))
<1> DEFINE w == [x EXCEPT !.prov_i = k]
           u == [w EXCEPT !.prov_i = ProvSaved]
<1>1. w \in Firmware
  BY Zenon DEF Sound, Base, Firmware
<1>2. u \in Firmware
  BY <1>1, ZenonT(40) DEF Firmware
<1>3. w.prov_i = k /\ w.prov_n = x.prov_n /\ w.prov_n \in 0..ProvMax
  BY <1>1 DEF Sound, Base, Firmware
<1>4. CASE k >= x.prov_n
  <2>1. Sound(u) /\ ~u.passthrough /\ u.prov_i = ProvSaved
    BY <1>2, ZenonT(40) DEF Sound, Base, Firmware
  <2>2. Running(Ask(u, "PROV_SET", "save"))
    BY <2>1, AskRunning DEF Sound, Steps, Frames, SetupCmds
  <2>3. QED
    BY <1>3, <1>4, <2>2 DEF ProvSendCurrent
<1>5. CASE ~(k >= x.prov_n)
  <2>1. k < x.prov_n
    BY <1>3, <1>5, ConstantsAssumption
  <2>2. Sound(w) /\ ~w.passthrough
    BY <1>1, <2>1 DEF Sound, Base, Firmware
  <2>3. Running(Ask(w, "PROV_SET", "set"))
    BY <1>3, <2>1, <2>2, AskRunning DEF Sound, Steps, Frames, SetupCmds
  <2>4. QED
    BY <1>3, <1>5, <2>3 DEF ProvSendCurrent
<1>6. QED
  BY <1>4, <1>5

\* The wait for the start banner is over.
LEMMA TimeoutResetRunning ==
    ASSUME NEW x, Sound(x), x.step = "RESET"
    PROVE  Running(TimeoutReset(x))
<1>1. ~x.passthrough
  BY DEF Sound, Base
<1>2. Running(Ask(x, "PROV_READ", "param"))
  BY <1>1, AskRunning DEF Sound, Steps, Frames, SetupCmds
<1>3. Running(AtSendCurrent([x EXCEPT !.at_idx = 0]))
  BY <1>1, AtRestartRunning
<1>4. ASSUME x.tries < ResetRetries
      PROVE  Running(Ask([x EXCEPT !.tries = x.tries + 1], "RESET", "reset"))
  <2>1. x.tries + 1 \in 0..ResetRetries
    BY <1>4, ConstantsAssumption, SMTT(30) DEF Sound, Base, Firmware
  <2>2. ASSUME NEW k \in 0..ResetRetries
        PROVE  /\ Sound([x EXCEPT !.tries = k])
               /\ ~[x EXCEPT !.tries = k].passthrough
    <3>1. [x EXCEPT !.tries = k] \in Firmware
      BY ZenonT(40) DEF Sound, Base, Firmware
    <3>2. QED
      BY <1>1, <3>1 DEF Sound, Base, Firmware
  <2>3. QED
    BY <2>1, <2>2, AskRunning DEF Sound, Steps, Frames, SetupCmds
<1>5. Running(AtFinish([x EXCEPT !.at_fail = x.at_fail + 1]))
  <2>1. x.at_fail + 1 \in Nat
    BY DEF Sound, Base, Firmware
  <2>2. ASSUME NEW k \in Nat
        PROVE  Sound([x EXCEPT !.at_fail = k])
    <3>1. [x EXCEPT !.at_fail = k] \in Firmware
      BY ZenonT(40) DEF Sound, Base, Firmware
    <3>2. QED
      BY <3>1 DEF Sound, Base, Firmware
  <2>3. QED
    BY <2>1, <2>2, AtFinishRunning DEF Sound
<1>6. QED
  BY <1>2, <1>3, <1>4, <1>5 DEF TimeoutReset

\* The settings were read: fix them, or go on with the probes.
LEMMA TimeoutProvReadRunning ==
    ASSUME NEW x, Sound(x), x.step = "PROV_READ", NEW fixes \in 0..ProvMax
    PROVE  Running(TimeoutProvRead(x, fixes))
<1> DEFINE w == [x EXCEPT !.prov_n = fixes]
           y == [w EXCEPT !.prov_i = 0]
           z == [y EXCEPT !.prov_done = TRUE]
<1>1. 0 \in 0..ProvMax
  BY ConstantsAssumption
<1>2. w \in Firmware
  BY Zenon DEF Sound, Base, Firmware
<1>3. Sound(w) /\ ~w.passthrough /\ w.step = "PROV_READ"
  BY <1>2 DEF Sound, Base, Firmware
<1>4. Running(ProvSendCurrent(y))
  BY <1>1, <1>3, ProvSendRunning
<1> HIDE DEF w
<1>5. z \in Firmware
  BY <1>1, <1>2, ZenonT(40) DEF Firmware
<1>6. Sound(z) /\ ~z.passthrough /\ z.step = "PROV_READ"
  BY <1>2, <1>3, <1>5 DEF Sound, Base, Firmware
<1> HIDE DEF z
<1>7. Running(AtSendCurrent([z EXCEPT !.at_idx = 0]))
  BY <1>6, AtRestartRunning
<1>8. QED
  BY <1>4, <1>7 DEF TimeoutProvRead, w, z

\* A setting was written: go on, or restart the module after the save.
LEMMA TimeoutProvSetRunning ==
    ASSUME NEW x, Sound(x), x.step = "PROV_SET"
    PROVE  Running(TimeoutProvSet(x))
<1> DEFINE y == [x EXCEPT !.prov_done = TRUE, !.reset_seen = FALSE]
<1>1. ~x.passthrough
  BY DEF Sound, Base
<1>2. CASE x.prov_i = ProvSaved
  <2>1. y \in Firmware
    BY ZenonT(40) DEF Sound, Base, Firmware
  <2>2. Sound(y) /\ ~y.passthrough
    BY <1>1, <2>1 DEF Sound, Base, Firmware
  <2>3. Running(Ask(y, "RESET", "svrst"))
    BY <2>2, AskRunning DEF Sound, Steps, Frames, SetupCmds
  <2>4. QED
    BY <1>2, <2>3 DEF TimeoutProvSet
<1>3. CASE x.prov_i # ProvSaved
  <2>1. /\ x.prov_i \in 0..ProvMax /\ x.prov_i + 1 \in 0..ProvMax
        /\ x.prov_n \in 0..ProvMax
    BY <1>3, ConstantsAssumption, SMTT(30) DEF Sound, Base, Firmware, ProvSaved
  <2>2. Running(ProvSendCurrent([x EXCEPT !.prov_i = x.prov_i + 1]))
    BY <1>1, <2>1, ProvSendRunning
  <2>3. QED
    BY <1>3, <2>1, <2>2 DEF TimeoutProvSet
<1>4. QED
  BY <1>2, <1>3

\* "exit" was given its time: reset the module, or set the destination.
LEMMA TimeoutLeaveRunning ==
    ASSUME NEW x, Sound(x), x.step = "LEAVE"
    PROVE  Running(TimeoutLeave(x))
<1> DEFINE y == [x EXCEPT !.tries = 0, !.reset_seen = FALSE, !.asm = {},
                          !.step = "RESET"]
<1>1. ~x.passthrough
  BY DEF Sound
<1>2. 0 \in 0..ResetRetries
  BY ConstantsAssumption
<1>3. y \in Firmware
  BY <1>2, ZenonT(40) DEF Sound, Base, Firmware, Steps
<1>4. Sound(y)
  BY <1>1, <1>3, ZenonT(40) DEF Sound, Base, Firmware
<1>5. Running(Arm(y, "LINK_CHECK"))
  BY <1>4, ArmLink
<1>6. Running(Ask(x, "DEST", "at_dest"))
  BY <1>1, AskRunning DEF Sound, Steps, Rejoining, Frames
<1>7. QED
  BY <1>5, <1>6 DEF TimeoutLeave

\* The destination was given its time: enter passthrough.
LEMMA TimeoutDestRunning ==
    ASSUME NEW x, Sound(x), x.step = "DEST"
    PROVE  Running(TimeoutDest(x))
<1> DEFINE y == [x EXCEPT !.passthrough = FALSE]
<1>1. y \in Firmware
  BY Zenon DEF Sound, Base, Firmware
<1>2. Base(y) /\ ~y.passthrough
  BY <1>1 DEF Sound, Base, Firmware
<1>3. QED
  BY <1>2, AskRunning DEF TimeoutDest, Steps, Rejoining, Frames

\* The answer to +++ is in: retry, or end the dialogue with its outcome.
LEMMA TimeoutPassRunning ==
    ASSUME NEW x, Sound(x), x.step = "PASS"
    PROVE  Running(TimeoutPass(x))
<1> DEFINE rejected == x.asm \cap {"too_long", "format_err"} # {}
           b == "transparent" \in x.asm \/ ~rejected
           y == [x EXCEPT !.step = "DONE", !.passthrough = b]
           z == [y EXCEPT !.online = FALSE]
<1>1. b \in BOOLEAN
  OBVIOUS
<1> HIDE DEF b
<1>2. ASSUME x.too_long_retry < TooLongMax
      PROVE  Running(Leave([x EXCEPT !.too_long_retry = x.too_long_retry + 1,
                                     !.passthrough = FALSE, !.asm = {}],
                           "DEST"))
  <2>1. x.too_long_retry + 1 \in 0..TooLongMax
    BY <1>2, ConstantsAssumption, SMTT(30) DEF Sound, Base, Firmware
  <2>2. ASSUME NEW k \in 0..TooLongMax
        PROVE  LET w == [x EXCEPT !.too_long_retry = k, !.passthrough = FALSE,
                                  !.asm = {}]
               IN  Base(w) /\ ~w.passthrough
    <3> DEFINE w == [x EXCEPT !.too_long_retry = k, !.passthrough = FALSE,
                              !.asm = {}]
    <3>1. w \in Firmware
      BY Zenon DEF Sound, Base, Firmware
    <3>2. QED
      BY <3>1 DEF Sound, Base, Firmware
  <2>3. QED
    BY <2>1, <2>2, LeaveRunning
<1>3. y \in Firmware
  BY <1>1, Zenon DEF Sound, Base, Firmware, Steps
<1>4. Running(y)
  BY <1>3 DEF Running, Sound, Base, Waits, Firmware
<1> HIDE DEF y
<1>5. z \in Firmware
  BY <1>3, Zenon DEF Firmware
<1>6. Running(z)
  <2>1. Keeps(y, z)
    BY <1>3 DEF Keeps, Firmware
  <2>2. QED
    BY <1>4, <1>5, <2>1, Frame
<1>7. Running(ReportStart(z))
  BY <1>6, ReportStartRunning
<1>8. QED
  BY <1>2, <1>4, <1>7 DEF TimeoutPass, y, b

\* A probe is counted and the next one asked.
LEMMA AtNoteRunning ==
    ASSUME NEW x, Sound(x), x.step = "CMD", NEW pass \in BOOLEAN
    PROVE  Running(AtNoteResult(x, pass))
<1> DEFINE p == IF pass THEN x.at_pass + 1 ELSE x.at_pass
           f == IF pass THEN x.at_fail ELSE x.at_fail + 1
           y == [x EXCEPT !.at_pass = p, !.at_fail = f, !.at_idx = x.at_idx + 1]
<1>0. /\ x.at_pass \in Nat /\ x.at_fail \in Nat
      /\ x.at_idx \in 0..AtCount /\ x.at_idx < AtCount
  BY DEF Sound, Base, Firmware
<1>1. p \in Nat /\ f \in Nat /\ x.at_idx + 1 \in 0..AtCount
  BY <1>0, ConstantsAssumption
<1>2. ASSUME NEW i \in Nat, NEW j \in Nat, NEW k \in 0..AtCount
      PROVE  LET w == [x EXCEPT !.at_pass = i, !.at_fail = j, !.at_idx = k]
             IN  Base(w) /\ ~w.passthrough
  <2> DEFINE w == [x EXCEPT !.at_pass = i, !.at_fail = j, !.at_idx = k]
  <2>1. w \in Firmware
    BY ZenonT(40) DEF Sound, Base, Firmware
  <2>2. QED
    BY <2>1 DEF Sound, Base, Firmware
<1>3. Base(y) /\ ~y.passthrough
  BY <1>1, <1>2
<1>4. QED
  BY <1>3, AtSendRunning DEF AtNoteResult

\* Whatever the dialogue is waiting for, its timeout leaves it running.
LEMMA OnTimeoutRunning ==
    ASSUME NEW x, Sound(x), NEW fixes \in 0..ProvMax, NEW textOk \in BOOLEAN
    PROVE  Running(OnTimeout(x, fixes, textOk))
<1>1. CASE x.step = "RESET"
  BY <1>1, TimeoutResetRunning DEF OnTimeout
<1>2. CASE x.step = "PROV_READ"
  BY <1>2, TimeoutProvReadRunning DEF OnTimeout
<1>3. CASE x.step = "PROV_SET"
  BY <1>3, TimeoutProvSetRunning DEF OnTimeout
<1>4. CASE x.step = "LEAVE"
  BY <1>4, TimeoutLeaveRunning DEF OnTimeout
<1>5. CASE x.step = "DEST"
  BY <1>5, TimeoutDestRunning DEF OnTimeout
<1>6. CASE x.step = "PASS"
  BY <1>6, TimeoutPassRunning DEF OnTimeout
<1>7. CASE x.step = "CMD"
  <2>1. AtReplyOk(x, textOk) \in BOOLEAN
    BY DEF AtReplyOk
  <2>2. QED
    BY <1>7, <2>1, AtNoteRunning DEF OnTimeout
<1>8. CASE x.step \in {"idle", "DONE"}
  BY <1>8 DEF OnTimeout, Running, Waits
<1>9. QED
  BY <1>1, <1>2, <1>3, <1>4, <1>5, <1>6, <1>7, <1>8
     DEF Sound, Base, Firmware, Steps, Rejoining

-----------------------------------------------------------------------------
(* Power. *)

\* Opening the UART, or failing to, keeps a sound firmware sound.
LEMMA UartInitSound ==
    ASSUME NEW x, Sound(x), NEW opens \in BOOLEAN
    PROVE  Sound(UartInit(x, opens))
<1> DEFINE y == [x EXCEPT !.open = TRUE]
<1>1. y \in Firmware
  BY Zenon DEF Sound, Base, Firmware
<1>2. Sound(y)
  BY <1>1, ZenonT(40) DEF Sound, Base, Firmware
<1>3. Sound(Arm(y, "RX_POLL"))
  BY <1>2, ArmSound DEF Timers
<1>4. QED
  BY <1>3, Zenon DEF UartInit

\* The set-up dialogue starts from any sound firmware.
LEMMA StartVerifyRunning ==
    ASSUME NEW x, Sound(x)
    PROVE  Running(UartStartVerify(x))
<1> DEFINE y == [x EXCEPT !.online = FALSE, !.reset_seen = FALSE, !.tries = 0,
                          !.at_ok = FALSE, !.at_pass = 0, !.at_fail = 0,
                          !.at_idx = 0, !.asm = {}, !.prov_done = FALSE,
                          !.prov_n = 0, !.prov_i = 0, !.passthrough = FALSE,
                          !.too_long_retry = 0]
<1>1. /\ 0 \in 0..ResetRetries /\ 0 \in 0..AtCount /\ 0 \in 0..ProvMax
      /\ 0 \in 0..TooLongMax /\ 0 \in Nat
  BY ConstantsAssumption
<1>2. y \in Firmware
  BY <1>1, ZenonT(60) DEF Sound, Base, Firmware
<1>3. /\ y.powered = x.powered /\ y.timers = x.timers
      /\ y.probe_try = x.probe_try /\ y.online = FALSE
      /\ y.passthrough = FALSE
  BY DEF Sound, Base, Firmware
<1>4. Running(Leave(y, "RESET"))
  <2> HIDE DEF y
  <2>1. QED
    BY <1>2, <1>3, LeaveRunning DEF Sound, Base
<1>5. QED
  BY <1>4 DEF UartStartVerify

\* The fields SensorsStart and SensorsVerifyPass leave alone.
SameButProbe(x, y) ==
    /\ y.powered = x.powered /\ y.passthrough = x.passthrough
    /\ y.step = x.step /\ y.at_idx = x.at_idx
    /\ y.prov_i = x.prov_i /\ y.prov_n = x.prov_n
    /\ y.timers = x.timers
    /\ y.online = x.online /\ y.rejoining = x.rejoining

\* A probe pass changes the probe state only.
LEMMA ProbeFields ==
    ASSUME NEW x \in Firmware, NEW found \in BOOLEAN, NEW n \in 0..ProbeMax
    PROVE  /\ [x EXCEPT !.sensors = found, !.probe_try = n] \in Firmware
           /\ [x EXCEPT !.sensors = found, !.probe_try = n].probe_try = n
           /\ SameButProbe(x, [x EXCEPT !.sensors = found, !.probe_try = n])
<1>1. [x EXCEPT !.sensors = found, !.probe_try = n] \in Firmware
  BY Zenon DEF Firmware
<1>2. QED
  BY <1>1 DEF Firmware, SameButProbe

\* A probe pass that fails arms its retry only while retries are left.
LEMMA ProbeSound ==
    ASSUME NEW x, Sound(x), NEW y \in Firmware, SameButProbe(x, y)
    PROVE  /\ "PROBE_RETRY" \notin x.timers => Sound(y)
           /\ y.probe_try < ProbeMax => Sound(Arm(y, "PROBE_RETRY"))
           /\ Arm(y, "PROBE_RETRY").timers = x.timers \cup {"PROBE_RETRY"}
           /\ Arm(y, "PROBE_RETRY").step = x.step
<1> DEFINE z == Arm(y, "PROBE_RETRY")
<1>1. z \in Firmware
  BY ArmType DEF Timers
<1>2. z.timers = y.timers \cup {"PROBE_RETRY"} /\ z.probe_try = y.probe_try
  BY DEF Arm, Firmware
<1>3. /\ z.powered = x.powered /\ z.passthrough = x.passthrough
      /\ z.step = x.step /\ z.at_idx = x.at_idx
      /\ z.prov_i = x.prov_i /\ z.prov_n = x.prov_n
      /\ z.online = x.online /\ z.rejoining = x.rejoining
  BY DEF Arm, Firmware, SameButProbe
<1> HIDE DEF z
<1>4. y.probe_try < ProbeMax => Sound(z)
  BY <1>1, <1>2, <1>3 DEF Sound, Base
<1>5. "PROBE_RETRY" \notin x.timers => Sound(y)
  BY DEF Sound, Base, SameButProbe
<1>6. QED
  BY <1>2, <1>3, <1>4, <1>5 DEF SameButProbe, z

\* SmartHelmet_PowerOn starts a running firmware.
LEMMA PowerOnRunning ==
    ASSUME NEW x, Off(x), NEW found \in BOOLEAN, NEW opens \in BOOLEAN
    PROVE  Running(SmartHelmetPowerOn(x, found, opens))
<1> DEFINE y == [x EXCEPT !.powered = TRUE]
<1>1. y \in Firmware
  BY Zenon DEF Off, Firmware
<1>2. Sound(y)
  BY <1>1 DEF Off, Sound, Base, Firmware
<1> HIDE DEF y
<1>3. Sound(SensorsStart(y, found))
  <2> DEFINE z == [y EXCEPT !.sensors = found, !.probe_try = 0]
  <2>1. 0 \in 0..ProbeMax /\ 0 < ProbeMax
    BY ConstantsAssumption
  <2>2. z \in Firmware /\ z.probe_try = 0 /\ SameButProbe(y, z)
    BY <1>1, <2>1, ProbeFields
  <2>3. y.timers = {}
    BY DEF Off, Firmware, y
  <2> HIDE DEF z
  <2>4. Sound(z) /\ Sound(Arm(z, "PROBE_RETRY"))
    BY <1>2, <2>1, <2>2, <2>3, ProbeSound
  <2>5. QED
    BY <2>4 DEF SensorsStart, z
<1>4. Running(UartStartVerify(UartInit(SensorsStart(y, found), opens)))
  BY <1>3, UartInitSound, StartVerifyRunning
<1>5. QED
  BY <1>4, ReportStartRunning DEF SmartHelmetPowerOn, y

\* A probe retry keeps the firmware running.
LEMMA VerifyPassRunning ==
    ASSUME NEW x, Running(x), x.probe_try < ProbeMax,
           "PROBE_RETRY" \notin x.timers, NEW found \in BOOLEAN
    PROVE  Running(SensorsVerifyPass(x, found))
<1>1. x.probe_try + 1 \in 0..ProbeMax
  BY ConstantsAssumption, SMTT(30) DEF Running, Sound, Base, Firmware
<1> DEFINE z == [x EXCEPT !.sensors = found, !.probe_try = x.probe_try + 1]
<1>2. Sound(x) /\ x \in Firmware
  BY DEF Running, Sound, Base
<1>3. /\ z \in Firmware /\ z.probe_try = x.probe_try + 1
      /\ SameButProbe(x, z)
  BY <1>1, <1>2, ProbeFields
<1> HIDE DEF z
<1>4. Running(z)
  BY <1>2, <1>3, ProbeSound DEF Running, Waits, SameButProbe
<1>5. z.probe_try < ProbeMax => Running(Arm(z, "PROBE_RETRY"))
  BY <1>2, <1>3, ProbeSound DEF Running, Waits
<1>6. z.probe_try >= ProbeMax \/ z.probe_try < ProbeMax
  BY <1>1, <1>3, ConstantsAssumption
<1>7. QED
  BY <1>4, <1>5, <1>6, Zenon DEF SensorsVerifyPass, z

\* Closing the UART switches off what the caller has not.
LEMMA UartCloseOff ==
    ASSUME NEW x \in Firmware, ~x.powered, ~(x.online /\ x.rejoining),
           x.timers \subseteq {"RX_POLL", "LINK_CHECK"}
    PROVE  Off(UartClose(x))
<1>1. x.timers \ {"RX_POLL", "LINK_CHECK"} = {}
  OBVIOUS
<1>2. UartClose(x) = [x EXCEPT !.tx = <<>>, !.passthrough = FALSE,
                               !.step = "idle", !.timers = {}, !.open = FALSE]
  BY <1>1 DEF UartClose
<1>3. UartClose(x) \in Firmware
  <2>1. <<>> \in Seq(Frames) /\ {} \in SUBSET Timers
    OBVIOUS
  <2>2. "idle" \in Steps
    BY DEF Steps
  <2> DEFINE w == [x EXCEPT !.tx = <<>>, !.passthrough = FALSE,
                            !.step = "idle"]
  <2>3. w \in Firmware
    BY <2>1, <2>2, ZenonT(40) DEF Firmware
  <2> HIDE DEF w
  <2>4. [w EXCEPT !.timers = {}, !.open = FALSE] \in Firmware
    BY <2>1, <2>3, ZenonT(40) DEF Firmware
  <2>5. QED
    BY <1>2, <2>4 DEF w
<1>4. QED
  BY <1>2, <1>3 DEF Off, Firmware

\* SmartHelmet_PowerOff leaves the firmware off.
LEMMA PowerOffOff ==
    ASSUME NEW x, Running(x)
    PROVE  Off(SmartHelmetPowerOff(x))
<1> DEFINE y == [x EXCEPT !.powered = FALSE, !.sensors = FALSE]
           z == Cancel(y, {"REPORT_TICK", "PROBE_RETRY"})
           w == [z EXCEPT !.online = FALSE]
<1>1. y \in Firmware
  BY ZenonT(60) DEF Running, Sound, Base, Firmware
<1>2. ~y.powered /\ y.timers \in SUBSET Timers
  BY <1>1 DEF Running, Sound, Base, Firmware
<1> HIDE DEF y
<1>3. z \in Firmware
  <2>1. y.timers \ {"REPORT_TICK", "PROBE_RETRY"} \in SUBSET Timers
    BY <1>2
  <2>2. QED
    BY <1>1, <2>1, ZenonT(40) DEF Cancel, Firmware
<1>4. ~z.powered /\ z.timers = y.timers \ {"REPORT_TICK", "PROBE_RETRY"}
  BY <1>1, <1>2 DEF Cancel, Firmware
<1> HIDE DEF z
<1>5. w \in Firmware
  BY <1>3, Zenon DEF Firmware
<1>6. ~w.powered /\ w.timers = z.timers /\ ~w.online
  BY <1>3, <1>4 DEF Firmware
<1> HIDE DEF w
<1>7. w.timers \subseteq {"RX_POLL", "LINK_CHECK"}
  BY <1>2, <1>4, <1>6 DEF Timers
<1>8. Off(UartClose(w))
  BY <1>5, <1>6, <1>7, UartCloseOff
<1>9. QED
  BY <1>8 DEF SmartHelmetPowerOff, UartSleep, w, z, y

\* SmartHelmet_Close leaves the firmware off, whatever it was doing.
LEMMA CloseOff ==
    ASSUME NEW x, Running(x) \/ Off(x)
    PROVE  Off(SmartHelmetClose(x)) /\ ~SmartHelmetClose(x).ready
<1> DEFINE y == [x EXCEPT !.ready = FALSE, !.powered = FALSE]
           z == Cancel(y, {"REPORT_TICK", "PROBE_RETRY"})
<1>0. x \in Firmware /\ ~(x.online /\ x.rejoining)
  BY DEF Running, Sound, Base, Off
<1>1. y \in Firmware
  BY <1>0, Zenon DEF Firmware
<1>2. /\ ~y.powered /\ ~y.ready /\ y.timers \in SUBSET Timers
      /\ y.online = x.online /\ y.rejoining = x.rejoining
  BY <1>0 DEF Firmware
<1> HIDE DEF y
<1>3. z \in Firmware
  <2>1. y.timers \ {"REPORT_TICK", "PROBE_RETRY"} \in SUBSET Timers
    BY <1>2
  <2>2. QED
    BY <1>1, <2>1, Zenon DEF Cancel, Firmware
<1>4. /\ ~z.powered /\ z.timers = y.timers \ {"REPORT_TICK", "PROBE_RETRY"}
      /\ z.ready = y.ready /\ z.online = y.online /\ z.rejoining = y.rejoining
  BY <1>1, <1>2 DEF Cancel, Firmware
<1> HIDE DEF z
<1>5. z.timers \subseteq {"RX_POLL", "LINK_CHECK"}
  BY <1>2, <1>4 DEF Timers
<1>6. Off(UartClose(z))
  BY <1>0, <1>2, <1>3, <1>4, <1>5, UartCloseOff
<1>7. ~UartClose(z).ready
  BY <1>2, <1>3, <1>4 DEF UartClose, Firmware
<1>8. QED
  BY <1>6, <1>7 DEF SmartHelmetClose, z, y

-----------------------------------------------------------------------------
(* The inductive invariant. *)

Inv ==
    /\ Running(h) \/ Off(h)
    /\ h.ready /\ ~h.powered => mod = "held"
    /\ mod \in ModModes
    /\ wire \in Seq(Tokens)

\* The firmware boots switched off, with the module running.
LEMMA InitInv ==
    Init => Inv
<1> SUFFICES ASSUME Init PROVE Inv
  OBVIOUS
<1>1. /\ 0 \in 0..ProbeMax /\ 0 \in 0..ResetRetries /\ 0 \in 0..ProvMax
      /\ 0 \in 0..AtCount /\ 0 \in 0..MissedMax /\ 0 \in 0..TooLongMax
      /\ 0 \in Nat
  BY ConstantsAssumption
<1>2. <<>> \in Seq(Frames) /\ {} \in SUBSET Timers /\ {} \in SUBSET Tokens
  OBVIOUS
<1>3. h \in Firmware
  BY <1>1, <1>2 DEF Init, Firmware, Steps, Holds
<1>4. Off(h) /\ ~h.ready
  BY <1>3 DEF Init, Off
<1>5. wire \in Seq(Tokens) /\ mod \in ModModes
  BY DEF Init, ModModes
<1>6. QED
  BY <1>4, <1>5 DEF Inv

\* What the module says is a token, and its mode one of the four.
LEMMA ReactionTypes ==
    ASSUME NEW m \in ModModes, NEW f \in Frames, NEW r \in Reactions(m, f)
    PROVE  r[1] \in ModModes /\ r[2] \in Tokens \cup {Silent}
  BY DEF Reactions, ModModes, Tokens, Silent

\* A token the module sends, if any, keeps the wire typed.
LEMMA SayTypes ==
    ASSUME wire \in Seq(Tokens), NEW t \in Tokens \cup {Silent}, Say(t)
    PROVE  wire' \in Seq(Tokens)
<1>1. CASE t = Silent
  BY <1>1 DEF Say
<1>2. CASE t # Silent
  BY <1>2 DEF Say
<1>3. QED
  BY <1>1, <1>2

\* While something can happen to it, the firmware is powered.
LEMMA ActiveIsRunning ==
    ASSUME Inv, h.powered \/ h.open \/ h.timers # {} \/ h.tx # <<>>
    PROVE  Running(h)
  BY DEF Inv, Off

\* Every step of the system preserves the invariant.
LEMMA NextInv ==
    Inv /\ [Next]_vars => Inv'
<1> SUFFICES ASSUME Inv, [Next]_vars PROVE Inv'
  OBVIOUS
<1>0. /\ mod \in ModModes /\ wire \in Seq(Tokens) /\ h \in Firmware
      /\ Running(h) => h.powered
  BY DEF Inv, Running, Sound, Base, Off
<1>r. ASSUME Running(h'), mod' \in ModModes, wire' \in Seq(Tokens)
      PROVE  Inv'
  <2>1. h'.powered
    BY <1>r DEF Running, Sound, Base
  <2>2. QED
    BY <1>r, <2>1 DEF Inv
<1>1. ASSUME NEW i2cOk \in BOOLEAN, SmartHelmetInit(i2cOk) PROVE Inv'
  <2> DEFINE y == IF h.ready THEN SmartHelmetClose(h) ELSE h
  <2>1. /\ Running(y) \/ Off(y)
        /\ y \in Firmware
    BY CloseOff DEF Inv, Running, Sound, Base, Off
  <2>2. h' = [y EXCEPT !.ready = i2cOk]
    BY <1>1 DEF SmartHelmetInit
  <2> HIDE DEF y
  <2>3. h' \in Firmware
    BY <2>1, <2>2, Zenon DEF Firmware
  <2>4. Running(h') \/ Off(h')
    <3>1. Keeps(y, h')
      BY <2>1, <2>2 DEF Keeps, Firmware
    <3>2. QED
      BY <2>1, <2>3, <3>1, Frame
  <2>5. h'.ready => mod' = "held"
    BY <1>1, <2>1, <2>2 DEF SmartHelmetInit, Firmware
  <2>6. mod' \in ModModes /\ wire' \in Seq(Tokens)
    BY <1>0, <1>1 DEF SmartHelmetInit, ModModes
  <2>7. QED
    BY <2>4, <2>5, <2>6 DEF Inv
<1>2. ASSUME NEW found \in BOOLEAN, NEW opens \in BOOLEAN, PowerOn(found, opens)
      PROVE  Inv'
  <2>1. Off(h)
    BY <1>0, <1>2 DEF Inv, PowerOn
  <2>2. Running(h')
    BY <1>2, <2>1, PowerOnRunning DEF PowerOn
  <2>3. mod' \in ModModes /\ wire' \in Seq(Tokens)
    BY <1>0, <1>2 DEF PowerOn, ModModes
  <2>4. QED
    BY <1>r, <2>2, <2>3
<1>3. CASE PowerOff
  <2>1. Running(h)
    BY <1>3, ActiveIsRunning DEF PowerOff
  <2>2. Off(h')
    BY <1>3, <2>1, PowerOffOff DEF PowerOff
  <2>3. QED
    BY <1>0, <1>3, <2>2 DEF Inv, PowerOff, ModModes
<1>4. CASE ReportTick
  <2>1. Running(h)
    BY <1>4, ActiveIsRunning DEF ReportTick
  <2>2. Running(h')
    BY <1>4, <2>1, CancelRunning, ReportStartRunning DEF ReportTick
  <2>3. QED
    BY <1>0, <1>4, <1>r, <2>2 DEF ReportTick
<1>5. ASSUME NEW fixes \in 0..ProvMax, NEW textOk \in BOOLEAN,
             LinkCheck(fixes, textOk)
      PROVE  Inv'
  <2>1. Running(h)
    BY <1>5, ActiveIsRunning DEF LinkCheck
  <2>2. Sound(Cancel(h, {"LINK_CHECK"}))
    BY <2>1, CancelSound DEF Running
  <2>3. Running(h')
    BY <1>5, <2>2, OnTimeoutRunning DEF LinkCheck
  <2>4. QED
    BY <1>0, <1>5, <1>r, <2>3 DEF LinkCheck
<1>6. ASSUME NEW found \in BOOLEAN, ProbeRetry(found) PROVE Inv'
  <2> DEFINE x == Cancel(h, {"PROBE_RETRY"})
             y == SensorsVerifyPass(x, found)
  <2>1. Running(h)
    BY <1>6, ActiveIsRunning DEF ProbeRetry
  <2>2. h.probe_try < ProbeMax
    BY <1>6, <2>1 DEF ProbeRetry, Running, Sound, Base
  <2>3. Running(x) /\ "PROBE_RETRY" \notin x.timers
    BY <2>1, CancelRunning, CancelSound DEF Running
  <2>4. x.probe_try = h.probe_try
    BY <1>0 DEF Cancel, Firmware
  <2> HIDE DEF x
  <2>5. Running(y)
    BY <2>2, <2>3, <2>4, VerifyPassRunning
  <2>6. h' = IF y.sensors /\ y.passthrough THEN ReportStart(y) ELSE y
    BY <1>6 DEF ProbeRetry, x
  <2>7. Running(h')
    BY <2>5, <2>6, ReportStartRunning
  <2>8. QED
    BY <1>0, <1>6, <1>r, <2>7 DEF ProbeRetry
<1>7. ASSUME NEW n \in 1..Len(wire), NEW fits \in BOOLEAN, RxChunk(n, fits)
      PROVE  Inv'
  <2>1. Running(h)
    BY <1>7, ActiveIsRunning DEF RxChunk
  <2>2. {wire[i] : i \in 1..n} \in SUBSET Tokens
    BY <1>0
  <2>3. Running(h')
    BY <1>7, <2>1, <2>2, ConsumeRunning DEF RxChunk
  <2>4. wire' \in Seq(Tokens)
    BY <1>0, <1>7 DEF RxChunk
  <2>5. QED
    BY <1>0, <1>7, <1>r, <2>3, <2>4 DEF RxChunk
<1>8. CASE RxCut
  <2>1. Running(h)
    BY <1>8, ActiveIsRunning DEF RxCut
  <2>2. {} \in SUBSET Tokens
    OBVIOUS
  <2>3. Running(h')
    BY <1>8, <2>1, <2>2, ConsumeRunning DEF RxCut
  <2>4. wire' \in Seq(Tokens)
    <3>1. wire[1] \in Tokens /\ CutOf(wire[1]) \in Tokens
      BY <1>0, <1>8 DEF RxCut, CutOf, Tokens
    <3>2. QED
      BY <1>0, <1>8, <3>1 DEF RxCut
  <2>5. QED
    BY <1>0, <1>8, <1>r, <2>3, <2>4 DEF RxCut
<1>9. CASE RejoinHoldOver \/ RejoinHoldAgain
  <2>1. PICK w \in Holds : h' = [h EXCEPT !.rejoin_hold = w]
    BY <1>9 DEF RejoinHoldOver, RejoinHoldAgain, Holds
  <2>2. h' \in Firmware
    BY <1>0, <2>1, ZenonT(60) DEF Firmware
  <2>3. Keeps(h, h')
    BY <1>0, <2>1 DEF Keeps, Firmware
  <2>4. (Running(h) => Running(h')) /\ (Off(h) => Off(h'))
    BY <2>2, <2>3, Frame
  <2>5. h'.ready = h.ready /\ h'.powered = h.powered
    BY <1>0, <2>1 DEF Firmware
  <2>6. QED
    BY <1>9, <2>4, <2>5 DEF Inv, RejoinHoldOver, RejoinHoldAgain
<1>10. CASE ModReceive
  <2>1. Running(h)
    BY <1>10, ActiveIsRunning DEF ModReceive
  <2>2. h.tx \in Seq(Frames) /\ h.tx # <<>>
    BY <1>0, <1>10 DEF ModReceive, Firmware
  <2>3. Head(h.tx) \in Frames /\ Tail(h.tx) \in Seq(Frames)
    BY <2>2
  <2>4. Running(h')
    BY <1>10, <2>1, <2>3, TxSound DEF ModReceive, Running, Waits
  <2>5. PICK r \in Reactions(mod, Head(h.tx)) : mod' = r[1] /\ Say(r[2])
    BY <1>10 DEF ModReceive
  <2>6. mod' \in ModModes /\ wire' \in Seq(Tokens)
    BY <1>0, <2>3, <2>5, ReactionTypes, SayTypes
  <2>7. QED
    BY <1>r, <2>4, <2>6
<1>11. CASE ModBoot
  <2>1. PICK t \in {Silent, "banner"} : Say(t)
    BY <1>11 DEF ModBoot
  <2>2. wire' \in Seq(Tokens)
    BY <1>0, <2>1, SayTypes DEF Tokens
  <2>3. QED
    BY <1>11, <2>2 DEF Inv, ModBoot, ModModes
<1>12. CASE ModDownlink
  <2>1. wire' \in Seq(Tokens)
    BY <1>0, <1>12, SayTypes DEF ModDownlink, Tokens
  <2>2. QED
    BY <1>12, <2>1 DEF Inv, ModDownlink
<1>13. CASE ModRestart
  BY <1>13 DEF Inv, ModRestart, ModModes
<1>14. CASE UNCHANGED vars
  BY <1>14 DEF vars, Inv
<1>15. QED
  BY <1>1, <1>2, <1>3, <1>4, <1>5, <1>6, <1>7, <1>8, <1>9, <1>10, <1>11,
     <1>12, <1>13, <1>14 DEF Next

-----------------------------------------------------------------------------
(* The theorems. *)

\* In every reachable state the inductive invariant holds.
THEOREM Invariance ==
    Spec => []Inv
  BY InitInv, NextInv, PTL DEF Spec

\* The statics of smart_helmet_uart.c keep their types: no counter of the
\* dialogue, the provisioning, the rejoin or the probe retry leaves its range.
THEOREM TypeCorrect ==
    Spec => []TypeOK
<1>1. Inv => TypeOK
  BY DEF Inv, TypeOK, Running, Sound, Base, Off
<1>2. QED
  BY <1>1, Invariance, PTL

\* Report frames are written only when no AT exchange is in progress.
THEOREM SessionIsExclusive ==
    Spec => []SessionExclusive
<1>1. Inv => SessionExclusive
  BY DEF Inv, SessionExclusive, Running, Sound, Base, Off
<1>2. QED
  BY <1>1, Invariance, PTL

\* The dialogue never waits for a timer that is not armed.
THEOREM NoStall ==
    Spec => []DialogueNeverStalls
<1>1. Inv => DialogueNeverStalls
  BY DEF Inv, DialogueNeverStalls, Running, Waits, Off
<1>2. QED
  BY <1>1, Invariance, PTL

\* Power-off and close leave no timer, no stream and no running module.
THEOREM OffIsQuiet ==
    Spec => []QuietWhenOff
<1>1. Inv => QuietWhenOff
  BY DEF Inv, QuietWhenOff, Running, Sound, Base, Off
<1>2. QED
  BY <1>1, Invariance, PTL

\* A link under repair is never reported online.
THEOREM OnlineIsNotRejoining ==
    Spec => []OnlineExcludesRejoining
<1>1. Inv => OnlineExcludesRejoining
  BY DEF Inv, OnlineExcludesRejoining, Running, Sound, Base, Off
<1>2. QED
  BY <1>1, Invariance, PTL
=============================================================================
