-------------------------- MODULE WisunSetupProofs --------------------------
(***************************************************************************)
(* What the set-up dialogue of smart_helmet_uart.c guarantees, for every   *)
(* value of the constants: its verdict at_ok, the order of provisioning    *)
(* and probes, and that none of its commands is taken as payload.          *)
(*                                                                         *)
(* Reports, rejoins and received text never enter the set-up and never     *)
(* write a command of it (Mild); only the timeouts do, and they run with   *)
(* an empty sink.  The invariant of WisunLinkProofs supplies the types and *)
(* that the module is held in reset while the helmet is off.               *)
(***************************************************************************)
EXTENDS WisunLinkProofs

\* The dialogue is setting the module up: from the "exit" of UartStartVerify
\* to the last probe.
InSetup(x) ==
    \/ x.step \in {"RESET", "PROV_READ", "PROV_SET", "CMD"}
    \/ x.step = "LEAVE" /\ x.leave_next = "RESET"

\* The frames in the sink.
Written(x) == {x.tx[i] : i \in DOMAIN x.tx}

SetupFields == {"step", "leave_next", "tx", "reset_seen", "prov_done",
                "at_idx", "at_pass", "at_fail", "at_ok"}

Fit(x) == SetupFields \subseteq DOMAIN x /\ x.tx \in Seq(Frames)

\* The verdict so far: nothing is counted before the first probe, every
\* finished probe is counted once, and at_ok waits for all of them.
Verdict(x) ==
    /\ InSetup(x) /\ x.step # "CMD" => x.at_pass = 0 /\ x.at_fail = 0 /\ ~x.at_ok
    /\ x.step = "PROV_READ" => x.reset_seen
    /\ x.step = "CMD" => /\ x.at_pass + x.at_fail = x.at_idx
                         /\ ~x.at_ok /\ x.reset_seen /\ x.prov_done
    /\ x.at_ok => x.at_pass = AtCount /\ x.at_fail = 0

\* During the set-up, and while a command of it is unread, the module is not
\* in passthrough and no +++ is on its way.
Apart(x, m) ==
    InSetup(x) \/ Written(x) \cap SetupCmds # {} =>
        m # "pass" /\ "+++" \notin Written(x)

-----------------------------------------------------------------------------
(* What the handlers outside the dialogue do. *)

\* From x to y the verdict is left alone, the set-up is not entered, and only
\* "exit" and report frames are written.
Mild(x, y) ==
    /\ Fit(y)
    /\ y.at_idx = x.at_idx /\ y.at_pass = x.at_pass /\ y.at_fail = x.at_fail
    /\ y.at_ok = x.at_ok /\ y.prov_done = x.prov_done
    /\ x.reset_seen => y.reset_seen
    /\ InSetup(y) => y.step = x.step /\ y.leave_next = x.leave_next
    /\ Written(y) \subseteq Written(x) \cup {"exit", "line"}

\* Two mild changes make one.
LEMMA MildTrans ==
    ASSUME NEW x, NEW y, NEW z, Mild(x, y), Mild(y, z)
    PROVE  Mild(x, z)
<1>1. InSetup(z) => z.step = x.step /\ z.leave_next = x.leave_next
  BY DEF Mild, InSetup
<1>2. Written(z) \subseteq Written(x) \cup {"exit", "line"}
  BY DEF Mild
<1>3. QED
  BY <1>1, <1>2 DEF Mild

\* A mild change keeps the verdict invariant.
LEMMA MildVerdict ==
    ASSUME NEW x, NEW y, Mild(x, y), Verdict(x)
    PROVE  Verdict(y)
  BY DEF Mild, Verdict, InSetup

\* And the separation from the session.
LEMMA MildApart ==
    ASSUME NEW x, NEW y, NEW m, Mild(x, y), Apart(x, m)
    PROVE  Apart(y, m)
<1>1. InSetup(y) => InSetup(x)
  BY DEF Mild, InSetup
<1>2. Written(y) \cap SetupCmds # {} => Written(x) \cap SetupCmds # {}
  BY DEF Mild, SetupCmds
<1>3. "+++" \in Written(y) => "+++" \in Written(x)
  BY DEF Mild
<1>4. QED
  BY <1>1, <1>2, <1>3 DEF Apart

\* A frame more in the sink.
LEMMA AppendWritten ==
    ASSUME NEW x, NEW y, x.tx \in Seq(Frames), NEW f \in Frames,
           y.tx = Append(x.tx, f)
    PROVE  y.tx \in Seq(Frames) /\ Written(y) = Written(x) \cup {f}
<1>1. y.tx \in Seq(Frames) /\ Len(y.tx) = Len(x.tx) + 1
  OBVIOUS
<1>2. \A i \in 1..Len(x.tx) : y.tx[i] = x.tx[i]
  OBVIOUS
<1>3. y.tx[Len(x.tx) + 1] = f
  OBVIOUS
<1>4. DOMAIN y.tx = 1..(Len(x.tx) + 1) /\ DOMAIN x.tx = 1..Len(x.tx) /\ Len(x.tx) \in Nat
  BY <1>1
<1>5. DOMAIN y.tx = DOMAIN x.tx \cup {Len(x.tx) + 1}
  BY <1>4
<1>6. \A i \in DOMAIN y.tx : y.tx[i] \in Written(x) \cup {f}
  BY <1>2, <1>3, <1>4, <1>5 DEF Written
<1>7. \A i \in DOMAIN x.tx : i \in DOMAIN y.tx /\ x.tx[i] = y.tx[i]
  BY <1>2, <1>4, <1>5
<1>8. f \in Written(y)
  BY <1>3, <1>5 DEF Written
<1>9. Written(y) \subseteq Written(x) \cup {f}
  BY <1>6 DEF Written
<1>10. Written(x) \subseteq Written(y)
  BY <1>7 DEF Written
<1>11. QED
  BY <1>1, <1>8, <1>9, <1>10

\* A command, written or lost, changes only the sink.
LEMMA SendProbeWritten ==
    ASSUME NEW x, Fit(x), NEW cmd \in Frames
    PROVE  LET y == SendProbe(x, cmd)
           IN  /\ Fit(y)
               /\ \A f \in SetupFields \ {"tx"} : y[f] = x[f]
               /\ Written(y) \subseteq Written(x) \cup {cmd}
<1> DEFINE y == [x EXCEPT !.tx = Append(@, cmd)]
<1>1. y.tx = Append(x.tx, cmd) /\ SetupFields \subseteq DOMAIN y
  BY DEF Fit, SetupFields
<1>2. \A f \in SetupFields \ {"tx"} : y[f] = x[f]
  BY DEF Fit
<1>3. Fit(y) /\ Written(y) \subseteq Written(x) \cup {cmd}
  BY <1>1, AppendWritten DEF Fit
<1>4. SendProbe(x, cmd) = y \/ SendProbe(x, cmd) = x
  BY DEF SendProbe
<1> HIDE DEF y
<1>5. QED
  BY <1>2, <1>3, <1>4

\* Arming or cancelling messages changes nothing here.
LEMMA TimersMild ==
    ASSUME NEW x, Fit(x), NEW t
    PROVE  LET y == [x EXCEPT !.timers = t]
           IN  Fit(y) /\ \A f \in SetupFields : y[f] = x[f]
<1>1. "timers" \notin SetupFields
  BY DEF SetupFields
<1>2. QED
  BY <1>1 DEF Fit, SetupFields

\* A record with the same fields of the set-up is a mild change.
LEMMA EqualMild ==
    ASSUME NEW x, NEW y, Fit(x), SetupFields \subseteq DOMAIN y,
           \A f \in SetupFields : y[f] = x[f]
    PROVE  Mild(x, y)
  BY DEF Fit, Mild, SetupFields, InSetup, Written

\* Leaving the session writes "exit" and notes what comes after it.
LEMMA LeaveFields ==
    ASSUME NEW x, Fit(x), NEW next
    PROVE  LET y == Leave(x, next)
           IN  /\ Fit(y) /\ y.step = "LEAVE" /\ y.leave_next = next
               /\ \A f \in SetupFields \ {"step", "leave_next", "tx"} : y[f] = x[f]
               /\ Written(y) \subseteq Written(x) \cup {"exit"}
<1> DEFINE y == [x EXCEPT !.step = "LEAVE", !.leave_next = next]
           z == SendProbe(y, "exit")
           w == Leave(x, next)
<1>1. /\ Fit(y) /\ y.step = "LEAVE" /\ y.leave_next = next /\ y.tx = x.tx
      /\ \A f \in SetupFields \ {"step", "leave_next"} : y[f] = x[f]
  BY DEF Fit, SetupFields
<1>2. w = [z EXCEPT !.timers = @ \cup {"LINK_CHECK"}]
  BY DEF Leave, Arm
<1> HIDE DEF y, w
<1>3. "exit" \in Frames
  BY DEF Frames
<1>4. /\ Fit(z) /\ \A f \in SetupFields \ {"tx"} : z[f] = y[f]
      /\ Written(z) \subseteq Written(y) \cup {"exit"}
  BY <1>1, <1>3, SendProbeWritten
<1> HIDE DEF z
<1>5. Fit(w) /\ \A f \in SetupFields : w[f] = z[f]
  BY <1>2, <1>4, TimersMild
<1>6. Written(w) \subseteq Written(x) \cup {"exit"}
  BY <1>1, <1>4, <1>5 DEF Written, SetupFields
<1>7. w.step = "LEAVE" /\ w.leave_next = next
  BY <1>1, <1>4, <1>5 DEF SetupFields
<1>8. \A f \in SetupFields \ {"step", "leave_next", "tx"} : w[f] = x[f]
  BY <1>1, <1>4, <1>5
<1>9. QED
  BY <1>5, <1>6, <1>7, <1>8 DEF w

\* It is no set-up when at_dest comes next.
LEMMA LeaveMild ==
    ASSUME NEW x, Fit(x)
    PROVE  Mild(x, Leave(x, "DEST"))
<1> DEFINE y == Leave(x, "DEST")
<1>1. /\ Fit(y) /\ y.step = "LEAVE" /\ y.leave_next = "DEST"
      /\ \A f \in SetupFields \ {"step", "leave_next", "tx"} : y[f] = x[f]
      /\ Written(y) \subseteq Written(x) \cup {"exit"}
  BY LeaveFields
<1> HIDE DEF y
<1>2. QED
  BY <1>1 DEF Mild, InSetup, SetupFields, y

\* A rejoin is mild, whether it starts or is held back.
LEMMA RejoinMild ==
    ASSUME NEW x, Fit(x)
    PROVE  Mild(x, UartRejoin(x))
<1> DEFINE y == [x EXCEPT !.rejoin_hold = "held", !.rejoining = TRUE,
                          !.passthrough = FALSE, !.online = FALSE,
                          !.send_ok_wait = FALSE]
           z == ReportStop(y)
<1>1. Mild(x, y)
  <2>1. SetupFields \subseteq DOMAIN y /\ \A f \in SetupFields : y[f] = x[f]
    BY DEF Fit, SetupFields
  <2>2. QED
    BY <2>1, EqualMild
<1>2. UartRejoin(x) = x \/ UartRejoin(x) = Leave(z, "DEST")
  BY DEF UartRejoin
<1> HIDE DEF y
<1>3. Mild(y, z)
  <2>1. Fit(y)
    BY <1>1 DEF Mild
  <2>2. Fit(z) /\ \A f \in SetupFields : z[f] = y[f]
    BY <2>1, TimersMild DEF ReportStop, Cancel
  <2> HIDE DEF z
  <2>3. QED
    BY <2>1, <2>2, EqualMild DEF Fit
<1> HIDE DEF z
<1>4. Mild(z, Leave(z, "DEST"))
  BY <1>3, LeaveMild DEF Mild
<1>5. Mild(x, x)
  BY EqualMild DEF Fit
<1>6. QED
  BY <1>1, <1>2, <1>3, <1>4, <1>5, MildTrans

\* Counting a report, or rejoining over it, is mild.
LEMMA NoteReportMild ==
    ASSUME NEW x, Fit(x), NEW ok
    PROVE  Mild(x, UartNoteReportSent(x, ok))
<1>1. \A k : Mild(x, [x EXCEPT !.missed_ok = k])
  <2> TAKE k
  <2> DEFINE y == [x EXCEPT !.missed_ok = k]
  <2>1. SetupFields \subseteq DOMAIN y /\ \A f \in SetupFields : y[f] = x[f]
    BY DEF Fit, SetupFields
  <2> HIDE DEF y
  <2>2. QED
    BY <2>1, EqualMild DEF y
<1>2. Mild(x, [x EXCEPT !.online = FALSE])
  <2> DEFINE y == [x EXCEPT !.online = FALSE]
  <2>1. SetupFields \subseteq DOMAIN y /\ \A f \in SetupFields : y[f] = x[f]
    BY DEF Fit, SetupFields
  <2> HIDE DEF y
  <2>2. QED
    BY <2>1, EqualMild DEF y
<1>3. Mild(x, [x EXCEPT !.send_ok_wait = TRUE])
  <2> DEFINE y == [x EXCEPT !.send_ok_wait = TRUE]
  <2>1. SetupFields \subseteq DOMAIN y /\ \A f \in SetupFields : y[f] = x[f]
    BY DEF Fit, SetupFields
  <2> HIDE DEF y
  <2>2. QED
    BY <2>1, EqualMild DEF y
<1>4. \A y : Mild(x, y) => Mild(x, UartRejoin(y))
  <2> SUFFICES ASSUME NEW y, Mild(x, y) PROVE Mild(x, UartRejoin(y))
    OBVIOUS
  <2>1. Mild(y, UartRejoin(y))
    BY RejoinMild DEF Mild
  <2>2. QED
    BY <2>1, MildTrans
<1>5. QED
  BY <1>1, <1>2, <1>3, <1>4 DEF UartNoteReportSent

\* A report's frames are no command.
LEMMA SendReportMild ==
    ASSUME NEW x, Fit(x)
    PROVE  Mild(x, SendReportLines(x))
<1> DEFINE n == IF Room(x) < ReportLines THEN Room(x) ELSE ReportLines
           l == [i \in 1..n |-> "line"]
           y == [x EXCEPT !.tx = x.tx \o l]
<1>1. x.tx \in Seq(Frames) /\ Len(x.tx) \in Nat
  BY DEF Fit
<1>2. n \in Int
  BY <1>1, ConstantsAssumption DEF Room
<1>3. l \in Seq({"line"})
  <2>1. CASE n \in Nat
    BY <2>1
  <2>2. CASE n \notin Nat
    <3>1. l = [i \in 1..0 |-> "line"]
      BY <1>2, <2>2
    <3>2. [i \in 1..0 |-> "line"] \in Seq({"line"})
      OBVIOUS
    <3>3. QED
      BY <3>1, <3>2
  <2>3. QED
    BY <2>1, <2>2
<1> HIDE DEF l, n
<1>4. /\ y.tx = x.tx \o l /\ SetupFields \subseteq DOMAIN y
      /\ \A f \in SetupFields \ {"tx"} : y[f] = x[f]
  BY DEF Fit, SetupFields
<1>5. SendReportLines(x) = UartNoteReportSent(y, n = ReportLines)
  BY DEF SendReportLines, l, n
<1> HIDE DEF y
<1>6. l \in Seq(Frames)
  BY <1>3 DEF Frames
<1>7. y.tx \in Seq(Frames)
  BY <1>1, <1>4, <1>6
<1>8. Written(y) \subseteq Written(x) \cup {"line"}
  <2>1. \A i \in DOMAIN y.tx : y.tx[i] \in Written(x) \cup {"line"}
    <3> TAKE i \in DOMAIN y.tx
    <3>1. Len(y.tx) = Len(x.tx) + Len(l) /\ i \in 1..Len(y.tx)
      BY <1>1, <1>4, <1>6, <1>7
    <3>2. CASE i <= Len(x.tx)
      <4>1. y.tx[i] = x.tx[i] /\ i \in DOMAIN x.tx
        BY <1>1, <1>4, <1>6, <3>1, <3>2
      <4>2. QED
        BY <4>1 DEF Written
    <3>3. CASE i > Len(x.tx)
      <4>1. y.tx[i] = l[i - Len(x.tx)] /\ i - Len(x.tx) \in 1..Len(l)
        BY <1>1, <1>4, <1>6, <3>1, <3>3
      <4>2. QED
        BY <1>3, <4>1
    <3>4. QED
      BY <1>1, <3>1, <3>2, <3>3
  <2>2. QED
    BY <2>1 DEF Written
<1>9. Mild(x, y)
  <2>1. \A f \in SetupFields \ {"tx"} : y[f] = x[f]
    BY <1>4
  <2>2. QED
    BY <1>4, <1>7, <1>8, <2>1 DEF Fit, Mild, SetupFields, InSetup
<1>10. Mild(y, UartNoteReportSent(y, n = ReportLines))
  BY <1>9, NoteReportMild DEF Mild
<1>11. QED
  BY <1>5, <1>9, <1>10, MildTrans

\* Arming or cancelling a message is mild.
LEMMA ArmMild ==
    ASSUME NEW x, Fit(x), NEW id
    PROVE  Mild(x, Arm(x, id)) /\ Mild(x, Cancel(x, id))
<1>1. \A t : Mild(x, [x EXCEPT !.timers = t])
  <2> TAKE t
  <2> DEFINE y == [x EXCEPT !.timers = t]
  <2>1. Fit(y) /\ \A f \in SetupFields : y[f] = x[f]
    BY TimersMild
  <2> HIDE DEF y
  <2>2. QED
    BY <2>1, EqualMild DEF Fit, y
<1>2. QED
  BY <1>1 DEF Arm, Cancel

\* Taking or raising the restart latch is mild.
LEMMA RestartMild ==
    ASSUME NEW x, Fit(x), NEW seen
    PROVE  Mild(x, [x EXCEPT !.restart_seen = seen])
<1> DEFINE y == [x EXCEPT !.restart_seen = seen]
<1>1. SetupFields \subseteq DOMAIN y /\ \A f \in SetupFields : y[f] = x[f]
  BY DEF Fit, SetupFields
<1> HIDE DEF y
<1>2. QED
  BY <1>1, EqualMild DEF y

\* A report is mild, sent or only logged.
LEMMA ReportStartMild ==
    ASSUME NEW x, Fit(x)
    PROVE  Mild(x, ReportStart(x))
<1> DEFINE t == [x EXCEPT !.restart_seen = FALSE]
           u == IF x.passthrough /\ x.sensors THEN SendReportLines(t) ELSE t
<1>1. Mild(x, t)
  BY RestartMild
<1>2. ReportStart(x) = Arm(u, "REPORT_TICK")
  BY DEF ReportStart
<1> HIDE DEF t
<1>3. Mild(t, SendReportLines(t))
  BY <1>1, SendReportMild DEF Mild
<1>4. Mild(x, u)
  BY <1>1, <1>3, MildTrans
<1> HIDE DEF u
<1>5. Mild(u, Arm(u, "REPORT_TICK"))
  BY <1>4, ArmMild DEF Mild
<1>6. QED
  BY <1>2, <1>4, <1>5, MildTrans

-----------------------------------------------------------------------------
(* What a received chunk does. *)

\* "send OK" ends a dialogue or changes nothing here.
LEMMA NoteSendOkMild ==
    ASSUME NEW x, Fit(x)
    PROVE  Mild(x, NoteSendOk(x))
<1> DEFINE y == NoteSendOk(x)
<1>1. /\ SetupFields \subseteq DOMAIN y
      /\ y.step = x.step \/ y.step = "DONE"
      /\ \A f \in SetupFields \ {"step"} : y[f] = x[f]
  BY DEF Fit, SetupFields, NoteSendOk
<1> HIDE DEF y
<1>2. y.tx = x.tx /\ y.leave_next = x.leave_next
  BY <1>1 DEF SetupFields
<1>3. QED
  BY <1>1, <1>2 DEF Fit, Mild, SetupFields, InSetup, Written, y

\* What a chunk says of the reports is mild.
LEMMA NoteRxMild ==
    ASSUME NEW x, Fit(x), NEW chunk
    PROVE  Mild(x, NoteRx(x, chunk))
<1> DEFINE f == [x EXCEPT !.online = FALSE, !.send_ok_wait = FALSE]
           y == IF "send_fail" \in chunk THEN UartRejoin(f)
                ELSE IF "send_ok" \in chunk THEN NoteSendOk(x) ELSE x
<1>1. Mild(x, f)
  <2>1. SetupFields \subseteq DOMAIN f /\ \A g \in SetupFields : f[g] = x[g]
    BY DEF Fit, SetupFields
  <2> HIDE DEF f
  <2>2. QED
    BY <2>1, EqualMild
<1>2. NoteRx(x, chunk) = [y EXCEPT !.restart_seen = y.restart_seen \/ "restart" \in chunk]
  BY DEF NoteRx
<1> HIDE DEF f
<1>3. Mild(x, UartRejoin(f))
  BY <1>1, RejoinMild, MildTrans DEF Mild
<1>4. Mild(x, x)
  BY EqualMild DEF Fit
<1>5. Mild(x, y)
  BY <1>3, <1>4, NoteSendOkMild
<1> HIDE DEF y
<1>6. Mild(y, NoteRx(x, chunk))
  BY <1>2, <1>5, RestartMild DEF Mild
<1>7. QED
  BY <1>5, <1>6, MildTrans

\* A CLI reject ends the session or re-enters it, never the set-up.
LEMMA CmdTooLongMild ==
    ASSUME NEW x, Fit(x)
    PROVE  Mild(x, OnCmdTooLong(x))
<1> DEFINE p == [x EXCEPT !.passthrough = FALSE]
           y == Cancel(p, {"REPORT_TICK"})
           z == [y EXCEPT !.too_long_retry = @ + 1]
<1>1. Mild(x, p)
  <2>1. SetupFields \subseteq DOMAIN p /\ \A g \in SetupFields : p[g] = x[g]
    BY DEF Fit, SetupFields
  <2> HIDE DEF p
  <2>2. QED
    BY <2>1, EqualMild
<1>2. OnCmdTooLong(x) = y \/ OnCmdTooLong(x) = Leave(z, "DEST")
  BY DEF OnCmdTooLong, ReportStop
<1> HIDE DEF p
<1>3. Mild(p, y)
  BY <1>1, ArmMild DEF Mild
<1> HIDE DEF y
<1>4. Mild(y, z)
  <2>1. Fit(y)
    BY <1>3 DEF Mild
  <2>2. SetupFields \subseteq DOMAIN z /\ \A g \in SetupFields : z[g] = y[g]
    BY <2>1 DEF Fit, SetupFields
  <2> HIDE DEF z
  <2>3. QED
    BY <2>1, <2>2, EqualMild
<1> HIDE DEF z
<1>5. Mild(z, Leave(z, "DEST"))
  BY <1>4, LeaveMild DEF Mild
<1>6. QED
  BY <1>1, <1>2, <1>3, <1>4, <1>5, MildTrans

\* The line splitter is mild.
LEMMA RxLineMild ==
    ASSUME NEW x, Fit(x), NEW chunk
    PROVE  Mild(x, RxLinePush(x, chunk))
<1> DEFINE y == [x EXCEPT !.restart_seen =
                    x.restart_seen \/ chunk \cap {"restart", "restartLine"} # {}]
<1>1. Mild(x, y)
  BY RestartMild
<1>2. RxLinePush(x, chunk) = y \/ RxLinePush(x, chunk) = OnCmdTooLong(y)
  BY DEF RxLinePush
<1> HIDE DEF y
<1>3. Mild(y, OnCmdTooLong(y))
  BY <1>1, CmdTooLongMild DEF Mild
<1>4. QED
  BY <1>1, <1>2, <1>3, MildTrans

\* A received chunk is mild: it may show the start banner, nothing else.
LEMMA ConsumeMild ==
    ASSUME NEW x, Fit(x), NEW chunk, NEW fits
    PROVE  Mild(x, UartConsume(x, chunk, fits))
<1> DEFINE asm == IF fits THEN x.asm \cup (chunk \cap Sought(x.step)) ELSE x.asm
           a == [x EXCEPT !.asm = asm]
           n == NoteRx(a, chunk)
           y == RxLinePush(n, chunk)
           b == [y EXCEPT !.reset_seen = @ \/ "banner" \in asm]
           c == UartConsume(x, chunk, fits)
<1>1. c = Arm(b, "LINK_CHECK") \/ c = Arm(y, "LINK_CHECK") \/ c = y
  BY DEF UartConsume
<1>2. Mild(x, a)
  <2>1. SetupFields \subseteq DOMAIN a /\ \A g \in SetupFields : a[g] = x[g]
    BY DEF Fit, SetupFields
  <2> HIDE DEF a
  <2>2. QED
    BY <2>1, EqualMild
<1> HIDE DEF a, asm
<1>3. Mild(a, n)
  BY <1>2, NoteRxMild DEF Mild
<1> HIDE DEF n
<1>4. Mild(n, y)
  BY <1>3, RxLineMild DEF Mild
<1> HIDE DEF y
<1>5. Mild(x, y)
  BY <1>2, <1>3, <1>4, MildTrans
<1>6. Mild(y, b)
  <2>1. Fit(y)
    BY <1>5 DEF Mild
  <2>2. /\ SetupFields \subseteq DOMAIN b
        /\ y.reset_seen => b.reset_seen
        /\ \A g \in SetupFields \ {"reset_seen"} : b[g] = y[g]
    BY <2>1 DEF Fit, SetupFields
  <2> HIDE DEF b
  <2>3. QED
    BY <2>1, <2>2 DEF Fit, Mild, SetupFields, InSetup, Written
<1> HIDE DEF b, c
<1>7. Mild(y, Arm(y, "LINK_CHECK")) /\ Mild(b, Arm(b, "LINK_CHECK"))
  BY <1>5, <1>6, ArmMild DEF Mild
<1>8. QED
  BY <1>1, <1>5, <1>6, <1>7, MildTrans DEF c

-----------------------------------------------------------------------------
(* The dialogue: the timeouts, with an empty sink. *)

\* Forgetting the old replies, entering a step and writing its command.
LEMMA AskFields ==
    ASSUME NEW x, Fit(x), NEW step, NEW cmd \in Frames
    PROVE  LET y == Ask(x, step, cmd)
           IN  /\ Fit(y) /\ y.step = step
               /\ \A f \in SetupFields \ {"step", "tx"} : y[f] = x[f]
               /\ Written(y) \subseteq Written(x) \cup {cmd}
<1> DEFINE y == [x EXCEPT !.asm = {}, !.step = step]
           z == SendProbe(y, cmd)
           w == Ask(x, step, cmd)
<1>1. /\ Fit(y) /\ y.step = step /\ y.tx = x.tx
      /\ \A f \in SetupFields \ {"step"} : y[f] = x[f]
  BY DEF Fit, SetupFields
<1>2. w = [z EXCEPT !.timers = @ \cup {"LINK_CHECK"}]
  BY DEF Ask, Arm
<1> HIDE DEF y, w
<1>3. /\ Fit(z) /\ \A f \in SetupFields \ {"tx"} : z[f] = y[f]
      /\ Written(z) \subseteq Written(y) \cup {cmd}
  BY <1>1, SendProbeWritten
<1> HIDE DEF z
<1>4. Fit(w) /\ \A f \in SetupFields : w[f] = z[f]
  BY <1>2, <1>3, TimersMild
<1>5. Written(w) \subseteq Written(x) \cup {cmd}
  BY <1>1, <1>3, <1>4 DEF Written, SetupFields
<1>6. w.step = step
  BY <1>1, <1>3, <1>4 DEF SetupFields
<1>7. \A f \in SetupFields \ {"step", "tx"} : w[f] = x[f]
  BY <1>1, <1>3, <1>4
<1>8. QED
  BY <1>4, <1>5, <1>6, <1>7 DEF w

\* The set-up record with nothing in the sink and the counters typed.
Counted(x) ==
    /\ Fit(x) /\ Written(x) = {}
    /\ x.at_pass \in Nat /\ x.at_fail \in Nat /\ x.at_idx \in 0..AtCount

\* What a timeout of the set-up may leave: the verdict holds and no +++ is
\* written.
SetsUp(y) == Fit(y) /\ Verdict(y) /\ "+++" \notin Written(y)

\* The end of the set-up: at_ok is right when every probe passed or one failed.
LEMMA AtFinishSetsUp ==
    ASSUME NEW x, Counted(x),
           x.at_fail = 0 /\ x.at_pass > 0 => x.at_pass = AtCount
    PROVE  SetsUp(AtFinish(x))
<1> DEFINE ok == x.at_fail = 0 /\ x.at_pass > 0 /\ x.reset_seen
           y == [x EXCEPT !.at_ok = ok, !.passthrough = FALSE, !.asm = {}]
           z == Leave(y, "DEST")
<1>1. /\ Fit(y) /\ (y.at_ok => ok)
      /\ \A f \in SetupFields \ {"at_ok"} : y[f] = x[f]
  BY DEF Counted, Fit, SetupFields
<1>2. AtFinish(x) = z
  BY DEF AtFinish
<1>3. ok => x.at_pass = AtCount /\ x.at_fail = 0
  OBVIOUS
<1> HIDE DEF y, ok
<1>4. /\ Fit(z) /\ z.step = "LEAVE" /\ z.leave_next = "DEST"
      /\ \A f \in SetupFields \ {"step", "leave_next", "tx"} : z[f] = y[f]
      /\ Written(z) \subseteq Written(y) \cup {"exit"}
  BY <1>1, LeaveFields
<1> HIDE DEF z
<1>5. Written(y) = {}
  BY <1>1 DEF Counted, Written, SetupFields
<1>6. z.at_ok = y.at_ok /\ z.at_pass = x.at_pass /\ z.at_fail = x.at_fail
  BY <1>1, <1>4 DEF SetupFields
<1>7. Verdict(z)
  BY <1>1, <1>3, <1>4, <1>6 DEF Verdict, InSetup
<1>8. QED
  BY <1>2, <1>4, <1>5, <1>7 DEF SetsUp

\* The next question of the set-up.
LEMMA AskSetsUp ==
    ASSUME NEW x, Counted(x), NEW step \in {"RESET", "PROV_READ", "PROV_SET"},
           NEW cmd \in SetupCmds, x.at_pass = 0, x.at_fail = 0, ~x.at_ok,
           step = "PROV_READ" => x.reset_seen
    PROVE  SetsUp(Ask(x, step, cmd))
<1> DEFINE y == Ask(x, step, cmd)
<1>1. cmd \in Frames /\ cmd # "+++"
  BY DEF Frames, SetupCmds
<1>2. /\ Fit(y) /\ y.step = step
      /\ \A f \in SetupFields \ {"step", "tx"} : y[f] = x[f]
      /\ Written(y) \subseteq Written(x) \cup {cmd}
  BY <1>1, AskFields DEF Counted
<1> HIDE DEF y
<1>3. /\ y.at_pass = x.at_pass /\ y.at_fail = x.at_fail /\ y.at_ok = x.at_ok
      /\ y.reset_seen = x.reset_seen
  BY <1>2 DEF SetupFields
<1>4. Verdict(y)
  BY <1>2, <1>3 DEF Verdict, InSetup
<1>5. QED
  BY <1>1, <1>2, <1>4 DEF Counted, SetsUp, y

\* The next probe, or the end of the probes with all of them counted.
LEMMA AtSendSetsUp ==
    ASSUME NEW x, Counted(x), x.at_pass + x.at_fail = x.at_idx, ~x.at_ok,
           x.reset_seen, x.prov_done
    PROVE  SetsUp(AtSendCurrent(x))
<1>1. CASE x.at_idx >= AtCount
  <2>1. x.at_idx = AtCount
    BY <1>1, ConstantsAssumption DEF Counted
  <2>2. x.at_fail = 0 => x.at_pass = AtCount
    BY <2>1 DEF Counted
  <2>3. QED
    BY <1>1, <2>2, AtFinishSetsUp DEF AtSendCurrent
<1>2. CASE ~(x.at_idx >= AtCount)
  <2> DEFINE y == Ask(x, "CMD", "at")
  <2>1. "at" \in Frames
    BY DEF Frames, SetupCmds
  <2>2. /\ Fit(y) /\ y.step = "CMD"
        /\ \A f \in SetupFields \ {"step", "tx"} : y[f] = x[f]
        /\ Written(y) \subseteq Written(x) \cup {"at"}
    BY <2>1, AskFields DEF Counted
  <2> HIDE DEF y
  <2>3. /\ y.at_pass = x.at_pass /\ y.at_fail = x.at_fail /\ y.at_ok = x.at_ok
        /\ y.at_idx = x.at_idx
        /\ y.reset_seen = x.reset_seen /\ y.prov_done = x.prov_done
    BY <2>2 DEF SetupFields
  <2>4. Verdict(y)
    BY <2>2, <2>3 DEF Verdict, InSetup
  <2>5. QED
    BY <1>2, <2>2, <2>4 DEF Counted, SetsUp, AtSendCurrent, y
<1>3. QED
  BY <1>1, <1>2

\* The first probe, when the settings are as they should be.
LEMMA AtRestartSetsUp ==
    ASSUME NEW x, Counted(x), x.at_pass = 0, x.at_fail = 0, ~x.at_ok,
           x.reset_seen, x.prov_done
    PROVE  SetsUp(AtSendCurrent([x EXCEPT !.at_idx = 0]))
<1> DEFINE y == [x EXCEPT !.at_idx = 0]
<1>1. /\ Fit(y) /\ y.at_idx = 0
      /\ \A f \in SetupFields \ {"at_idx"} : y[f] = x[f]
  BY DEF Counted, Fit, SetupFields
<1> HIDE DEF y
<1>2. /\ y.at_pass = 0 /\ y.at_fail = 0 /\ y.tx = x.tx
      /\ y.at_ok = x.at_ok /\ y.reset_seen = x.reset_seen
      /\ y.prov_done = x.prov_done
  BY <1>1 DEF SetupFields
<1>3. Counted(y)
  BY <1>1, <1>2, ConstantsAssumption DEF Counted, Written
<1>4. SetsUp(AtSendCurrent(y))
  <2>1. y.at_pass + y.at_fail = y.at_idx
    BY <1>1, <1>2
  <2>2. QED
    BY <1>2, <1>3, <2>1, AtSendSetsUp
<1>5. QED
  BY <1>4 DEF y

\* The next setting or the save.
LEMMA ProvSendSetsUp ==
    ASSUME NEW x, Counted(x), x.at_pass = 0, x.at_fail = 0, ~x.at_ok
    PROVE  SetsUp(ProvSendCurrent(x))
<1> DEFINE y == [x EXCEPT !.prov_i = ProvSaved]
<1>1. Fit(y) /\ \A f \in SetupFields : y[f] = x[f]
  BY DEF Counted, Fit, SetupFields
<1> HIDE DEF y
<1>2. Counted(y) /\ y.at_pass = 0 /\ y.at_fail = 0 /\ ~y.at_ok
  BY <1>1 DEF Counted, Written, SetupFields
<1>3. SetsUp(Ask(y, "PROV_SET", "save")) /\ SetsUp(Ask(x, "PROV_SET", "set"))
  BY <1>2, AskSetsUp DEF SetupCmds
<1>4. QED
  BY <1>3 DEF ProvSendCurrent, y

\* The timeout of a reset: probes, provisioning, another reset or the end.
LEMMA TimeoutResetSetsUp ==
    ASSUME NEW x, Counted(x), x.at_pass = 0, x.at_fail = 0, ~x.at_ok
    PROVE  SetsUp(TimeoutReset(x))
<1>1. CASE x.reset_seen
  <2>1. CASE x.prov_done
    BY <1>1, <2>1, AtRestartSetsUp DEF TimeoutReset
  <2>2. CASE ~x.prov_done
    BY <1>1, <2>2, AskSetsUp DEF TimeoutReset, SetupCmds
  <2>3. QED
    BY <2>1, <2>2
<1>2. CASE ~x.reset_seen
  <2> DEFINE y == [x EXCEPT !.tries = @ + 1]
             z == [x EXCEPT !.at_fail = @ + 1]
  <2>1. Fit(y) /\ \A f \in SetupFields : y[f] = x[f]
    BY DEF Counted, Fit, SetupFields
  <2>2. /\ Fit(z) /\ z.at_fail = x.at_fail + 1
        /\ \A f \in SetupFields \ {"at_fail"} : z[f] = x[f]
    BY DEF Counted, Fit, SetupFields
  <2> HIDE DEF y, z
  <2>3. Counted(y) /\ y.at_pass = 0 /\ y.at_fail = 0 /\ ~y.at_ok
    BY <2>1 DEF Counted, Written, SetupFields
  <2>4. Counted(z) /\ z.at_fail = 1
    <3>1. /\ z.at_fail = 1 /\ z.tx = x.tx /\ z.at_pass = x.at_pass
          /\ z.at_idx = x.at_idx /\ Fit(z)
      BY <2>2 DEF SetupFields
    <3>2. Written(z) = {}
      BY <3>1 DEF Counted, Written
    <3>3. QED
      BY <3>1, <3>2 DEF Counted
  <2>5. SetsUp(Ask(y, "RESET", "reset")) /\ SetsUp(AtFinish(z))
    BY <2>3, <2>4, AskSetsUp, AtFinishSetsUp DEF SetupCmds
  <2>6. QED
    BY <1>2, <2>5 DEF TimeoutReset, y, z
<1>3. QED
  BY <1>1, <1>2

\* The timeout of "param": the probes, or the settings that are wrong.
LEMMA TimeoutProvReadSetsUp ==
    ASSUME NEW x, Counted(x), x.at_pass = 0, x.at_fail = 0, ~x.at_ok,
           x.reset_seen, NEW fixes
    PROVE  SetsUp(TimeoutProvRead(x, fixes))
<1> DEFINE y == [x EXCEPT !.prov_n = fixes, !.prov_i = 0]
           z == [y EXCEPT !.prov_done = TRUE]
           w == [y EXCEPT !.prov_done = TRUE, !.at_idx = 0]
<1>1. Fit(y) /\ \A f \in SetupFields : y[f] = x[f]
  BY DEF Counted, Fit, SetupFields
<1>2. TimeoutProvRead(x, fixes) = IF fixes = 0 THEN AtSendCurrent(w)
                                               ELSE ProvSendCurrent(y)
  BY DEF TimeoutProvRead
<1> HIDE DEF y
<1>3. Counted(y) /\ y.at_pass = 0 /\ y.at_fail = 0 /\ ~y.at_ok /\ y.reset_seen
  BY <1>1 DEF Counted, Written, SetupFields
<1>4. /\ Fit(z) /\ z.prov_done
      /\ \A f \in SetupFields \ {"prov_done"} : z[f] = y[f]
      /\ w = [z EXCEPT !.at_idx = 0]
  BY <1>1 DEF Fit, SetupFields
<1> HIDE DEF z, w
<1>5. /\ z.at_pass = 0 /\ z.at_fail = 0 /\ ~z.at_ok /\ z.reset_seen
      /\ z.at_idx = y.at_idx /\ z.tx = y.tx
  BY <1>3, <1>4 DEF SetupFields
<1>6. Counted(z)
  BY <1>3, <1>4, <1>5 DEF Counted, Written
<1>7. SetsUp(AtSendCurrent(w))
  BY <1>4, <1>5, <1>6, AtRestartSetsUp
<1>8. SetsUp(ProvSendCurrent(y))
  BY <1>3, ProvSendSetsUp
<1>9. QED
  BY <1>2, <1>7, <1>8

\* The timeout of a setting or of "save": the next one, or svrst.
LEMMA TimeoutProvSetSetsUp ==
    ASSUME NEW x, Counted(x), x.at_pass = 0, x.at_fail = 0, ~x.at_ok
    PROVE  SetsUp(TimeoutProvSet(x))
<1> DEFINE y == [x EXCEPT !.prov_done = TRUE, !.reset_seen = FALSE]
           z == [x EXCEPT !.prov_i = @ + 1]
<1>1. Fit(y) /\ \A f \in SetupFields \ {"prov_done", "reset_seen"} : y[f] = x[f]
  BY DEF Counted, Fit, SetupFields
<1>2. Fit(z) /\ \A f \in SetupFields : z[f] = x[f]
  BY DEF Counted, Fit, SetupFields
<1>3. TimeoutProvSet(x) = Ask(y, "RESET", "svrst") \/ TimeoutProvSet(x) = ProvSendCurrent(z)
  BY DEF TimeoutProvSet
<1> HIDE DEF y, z
<1>4. /\ Counted(y) /\ y.at_pass = 0 /\ y.at_fail = 0 /\ ~y.at_ok
      /\ Counted(z) /\ z.at_pass = 0 /\ z.at_fail = 0 /\ ~z.at_ok
  BY <1>1, <1>2 DEF Counted, Written, SetupFields
<1>5. SetsUp(Ask(y, "RESET", "svrst")) /\ SetsUp(ProvSendCurrent(z))
  BY <1>4, AskSetsUp, ProvSendSetsUp DEF SetupCmds
<1>6. QED
  BY <1>3, <1>5

\* The timeout of a probe counts it, passed or failed, and goes on.
LEMMA AtNoteSetsUp ==
    ASSUME NEW x, Counted(x), x.at_pass + x.at_fail = x.at_idx, ~x.at_ok,
           x.reset_seen, x.prov_done, x.at_idx < AtCount, NEW pass
    PROVE  SetsUp(AtNoteResult(x, pass))
<1> DEFINE y == [x EXCEPT !.at_pass = IF pass THEN @ + 1 ELSE @,
                          !.at_fail = IF pass THEN @ ELSE @ + 1,
                          !.at_idx = @ + 1]
<1>1. /\ Fit(y) /\ y.at_idx = x.at_idx + 1
      /\ \/ y.at_pass = x.at_pass + 1 /\ y.at_fail = x.at_fail
         \/ y.at_pass = x.at_pass /\ y.at_fail = x.at_fail + 1
      /\ \A f \in SetupFields \ {"at_pass", "at_fail", "at_idx"} : y[f] = x[f]
  BY DEF Counted, Fit, SetupFields
<1>2. AtNoteResult(x, pass) = AtSendCurrent(y)
  BY DEF AtNoteResult
<1> HIDE DEF y
<1>3. /\ y.at_ok = x.at_ok /\ y.reset_seen = x.reset_seen
      /\ y.prov_done = x.prov_done /\ y.tx = x.tx
  BY <1>1 DEF SetupFields
<1>4. /\ y.at_pass + y.at_fail = y.at_idx /\ y.at_idx \in 0..AtCount
      /\ y.at_pass \in Nat /\ y.at_fail \in Nat
  BY <1>1, ConstantsAssumption DEF Counted
<1>5. Counted(y)
  BY <1>1, <1>3, <1>4 DEF Counted, Written
<1>6. QED
  BY <1>2, <1>3, <1>4, <1>5, AtSendSetsUp

\* What a timeout may do: a set-up goes on as SetsUp says; a re-entry of the
\* session leaves the verdict, does not enter the set-up and writes none of
\* its commands.
Advances(x, y) ==
    /\ Fit(y) /\ Verdict(y)
    /\ \/ InSetup(x) /\ "+++" \notin Written(y)
       \/ ~InSetup(y) /\ Written(y) \cap SetupCmds = {}

\* at_dest and +++ are no set-up.
LEMMA AskAdvances ==
    ASSUME NEW x, Counted(x), Verdict(x), NEW step \in {"DEST", "PASS"},
           NEW cmd \in {"at_dest", "+++"}
    PROVE  Advances(x, Ask(x, step, cmd))
<1> DEFINE y == Ask(x, step, cmd)
<1>1. cmd \in Frames /\ cmd \notin SetupCmds
  BY DEF Frames, SetupCmds
<1>2. /\ Fit(y) /\ y.step = step
      /\ \A f \in SetupFields \ {"step", "tx"} : y[f] = x[f]
      /\ Written(y) \subseteq Written(x) \cup {cmd}
  BY <1>1, AskFields DEF Counted
<1> HIDE DEF y
<1>3. y.at_ok = x.at_ok /\ y.at_pass = x.at_pass /\ y.at_fail = x.at_fail
  BY <1>2 DEF SetupFields
<1>4. ~InSetup(y) /\ Verdict(y)
  BY <1>2, <1>3 DEF Verdict, InSetup
<1>5. QED
  BY <1>1, <1>2, <1>4 DEF Counted, Advances, y

\* The end of the wait after "exit": the reset is awaited, or at_dest sent.
LEMMA TimeoutLeaveAdvances ==
    ASSUME NEW x, Counted(x), Verdict(x), x.step = "LEAVE"
    PROVE  Advances(x, TimeoutLeave(x))
<1>1. CASE x.leave_next = "RESET"
  <2> DEFINE y == [x EXCEPT !.tries = 0, !.reset_seen = FALSE, !.asm = {},
                            !.step = "RESET"]
             z == Arm(y, "LINK_CHECK")
  <2>1. /\ Fit(y) /\ y.step = "RESET"
        /\ \A f \in SetupFields \ {"reset_seen", "step"} : y[f] = x[f]
    BY DEF Counted, Fit, SetupFields
  <2>2. TimeoutLeave(x) = z
    BY <1>1 DEF TimeoutLeave
  <2> HIDE DEF y
  <2>3. Fit(z) /\ \A f \in SetupFields : z[f] = y[f]
    BY <2>1, TimersMild DEF Arm
  <2> HIDE DEF z
  <2>4. /\ z.at_pass = x.at_pass /\ z.at_fail = x.at_fail /\ z.at_ok = x.at_ok
        /\ z.tx = x.tx /\ z.step = "RESET"
    BY <2>1, <2>3 DEF SetupFields
  <2>5. InSetup(x) /\ Verdict(z)
    BY <1>1, <2>4 DEF Verdict, InSetup
  <2>6. Written(z) = {}
    BY <2>4 DEF Counted, Written
  <2>7. QED
    BY <2>2, <2>3, <2>5, <2>6 DEF Advances
<1>2. CASE x.leave_next # "RESET"
  BY <1>2, AskAdvances DEF TimeoutLeave
<1>3. QED
  BY <1>1, <1>2

\* The timeout of at_dest writes +++.
LEMMA TimeoutDestAdvances ==
    ASSUME NEW x, Counted(x), Verdict(x), x.step = "DEST"
    PROVE  Advances(x, TimeoutDest(x))
<1> DEFINE y == [x EXCEPT !.passthrough = FALSE]
<1>1. Fit(y) /\ \A f \in SetupFields : y[f] = x[f]
  BY DEF Counted, Fit, SetupFields
<1>2. TimeoutDest(x) = Ask(y, "PASS", "+++")
  BY DEF TimeoutDest
<1> HIDE DEF y
<1>3. Mild(x, y)
  BY <1>1, EqualMild DEF Counted, Fit
<1>4. Counted(y)
  BY <1>1 DEF Counted, Written, SetupFields
<1>5. Advances(y, Ask(y, "PASS", "+++"))
  BY <1>3, <1>4, MildVerdict, AskAdvances
<1>6. ~InSetup(y)
  BY <1>1 DEF InSetup, SetupFields
<1>7. QED
  BY <1>2, <1>5, <1>6 DEF Advances

\* A mild change outside the set-up is one of the timeouts' steps.
LEMMA MildAdvances ==
    ASSUME NEW x, NEW y, Counted(x), Verdict(x), Mild(x, y), ~InSetup(x)
    PROVE  Advances(x, y)
<1>1. Verdict(y)
  BY MildVerdict
<1>2. ~InSetup(y)
  BY DEF Mild, InSetup
<1>3. Written(y) \cap SetupCmds = {}
  BY DEF Mild, Counted, SetupCmds
<1>4. QED
  BY <1>1, <1>2, <1>3 DEF Mild, Advances

\* The timeout of +++ opens the session, re-enters it or gives up.
LEMMA TimeoutPassAdvances ==
    ASSUME NEW x, Counted(x), Verdict(x), x.step = "PASS"
    PROVE  Advances(x, TimeoutPass(x))
<1> DEFINE rejected == x.asm \cap {"too_long", "format_err"} # {}
           y == [x EXCEPT !.step = "DONE",
                          !.passthrough = "transparent" \in x.asm \/ ~rejected]
           z == [x EXCEPT !.too_long_retry = @ + 1, !.passthrough = FALSE, !.asm = {}]
           w == [y EXCEPT !.online = FALSE]
<1>1. /\ Fit(y) /\ y.step = "DONE"
      /\ \A f \in SetupFields \ {"step"} : y[f] = x[f]
  BY DEF Counted, Fit, SetupFields
<1>2. Fit(z) /\ \A f \in SetupFields : z[f] = x[f]
  BY DEF Counted, Fit, SetupFields
<1>3. TimeoutPass(x) \in {Leave(z, "DEST"), ReportStart(w), y}
  BY DEF TimeoutPass
<1> HIDE DEF y, z
<1>4. Fit(w) /\ \A f \in SetupFields : w[f] = y[f]
  BY <1>1 DEF Fit, SetupFields
<1> HIDE DEF w
<1>5. Mild(x, y)
  <2>1. y.tx = x.tx
    BY <1>1 DEF SetupFields
  <2>2. QED
    BY <1>1, <2>1 DEF Mild, SetupFields, InSetup, Written
<1>6. Mild(x, z) /\ Mild(y, w)
  BY <1>1, <1>2, <1>4, EqualMild DEF Counted, Fit
<1>7. Mild(z, Leave(z, "DEST")) /\ Mild(w, ReportStart(w))
  BY <1>2, <1>4, LeaveMild, ReportStartMild
<1>8. Mild(x, TimeoutPass(x))
  BY <1>3, <1>5, <1>6, <1>7, MildTrans
<1>9. ~InSetup(x)
  BY DEF InSetup
<1>10. QED
  BY <1>8, <1>9, MildAdvances

\* The timeout of any step.
LEMMA OnTimeoutAdvances ==
    ASSUME NEW x, Counted(x), Verdict(x), x.step \in Steps,
           x.step = "CMD" => x.at_idx < AtCount, NEW fixes, NEW textOk
    PROVE  Advances(x, OnTimeout(x, fixes, textOk))
<1> DEFINE y == OnTimeout(x, fixes, textOk)
<1>1. ASSUME SetsUp(y), InSetup(x)
      PROVE  Advances(x, y)
  BY <1>1 DEF SetsUp, Advances
<1>2. CASE x.step = "RESET"
  BY <1>1, <1>2, TimeoutResetSetsUp DEF OnTimeout, Verdict, InSetup
<1>3. CASE x.step = "PROV_READ"
  BY <1>1, <1>3, TimeoutProvReadSetsUp DEF OnTimeout, Verdict, InSetup
<1>4. CASE x.step = "PROV_SET"
  BY <1>1, <1>4, TimeoutProvSetSetsUp DEF OnTimeout, Verdict, InSetup
<1>5. CASE x.step = "CMD"
  BY <1>1, <1>5, AtNoteSetsUp DEF OnTimeout, Verdict, InSetup
<1>6. CASE x.step = "LEAVE"
  BY <1>6, TimeoutLeaveAdvances DEF OnTimeout
<1>7. CASE x.step = "DEST"
  BY <1>7, TimeoutDestAdvances DEF OnTimeout
<1>8. CASE x.step = "PASS"
  BY <1>8, TimeoutPassAdvances DEF OnTimeout
<1>9. CASE x.step \in {"idle", "DONE"}
  <2>1. y = x /\ ~InSetup(x)
    BY <1>9 DEF OnTimeout, InSetup
  <2>2. Mild(x, x)
    BY EqualMild DEF Counted, Fit
  <2>3. QED
    BY <2>1, <2>2, MildAdvances
<1>10. QED
  BY <1>2, <1>3, <1>4, <1>5, <1>6, <1>7, <1>8, <1>9 DEF Steps, Rejoining

-----------------------------------------------------------------------------
(* Power. *)

\* A firmware record has the fields of the set-up.
LEMMA FirmwareFit ==
    ASSUME NEW x \in Firmware
    PROVE  Fit(x) /\ x.at_pass \in Nat /\ x.at_fail \in Nat /\ x.at_idx \in 0..AtCount
  BY DEF Firmware, Fit, SetupFields

\* Power-on starts the set-up with a cleared verdict and only "exit" written.
LEMMA StartVerifySetsUp ==
    ASSUME NEW x, Fit(x), Written(x) = {}
    PROVE  LET y == UartStartVerify(x)
           IN  SetsUp(y) /\ Written(y) \subseteq {"exit"}
<1> DEFINE y == [x EXCEPT !.online = FALSE, !.reset_seen = FALSE, !.tries = 0,
                    !.at_ok = FALSE, !.at_pass = 0, !.at_fail = 0,
                    !.at_idx = 0, !.asm = {}, !.prov_done = FALSE,
                    !.prov_n = 0, !.prov_i = 0, !.passthrough = FALSE,
                    !.too_long_retry = 0]
           z == Leave(y, "RESET")
<1>1. /\ SetupFields \subseteq DOMAIN y
      /\ y.tx = x.tx /\ y.at_pass = 0 /\ y.at_fail = 0 /\ ~y.at_ok
  BY DEF Fit, SetupFields
<1>2. UartStartVerify(x) = z
  BY DEF UartStartVerify
<1> HIDE DEF y
<1>3. Fit(y) /\ Written(y) = {}
  BY <1>1 DEF Fit, Written
<1>4. /\ Fit(z) /\ z.step = "LEAVE" /\ z.leave_next = "RESET"
      /\ \A f \in SetupFields \ {"step", "leave_next", "tx"} : z[f] = y[f]
      /\ Written(z) \subseteq Written(y) \cup {"exit"}
  BY <1>3, LeaveFields
<1> HIDE DEF z
<1>5. z.at_pass = 0 /\ z.at_fail = 0 /\ ~z.at_ok
  BY <1>1, <1>4 DEF SetupFields
<1>6. Verdict(z)
  BY <1>4, <1>5 DEF Verdict, InSetup
<1>7. QED
  BY <1>2, <1>3, <1>4, <1>6 DEF SetsUp

\* Power-on from a firmware that is off.
LEMMA PowerOnSetsUp ==
    ASSUME NEW x \in Firmware, x.tx = <<>>, NEW found, NEW opens
    PROVE  LET y == SmartHelmetPowerOn(x, found, opens)
           IN  Verdict(y) /\ Written(y) \subseteq {"exit", "line"}
<1> DEFINE p == [x EXCEPT !.powered = TRUE]
           q == [p EXCEPT !.sensors = found, !.probe_try = 0]
           s == SensorsStart(p, found)
           o == [s EXCEPT !.open = TRUE]
           u == UartInit(s, opens)
           v == UartStartVerify(u)
<1>1. Fit(x) /\ Written(x) = {}
  BY FirmwareFit DEF Written
<1>2. Mild(x, q)
  <2>1. SetupFields \subseteq DOMAIN q /\ \A f \in SetupFields : q[f] = x[f]
    BY <1>1 DEF Fit, SetupFields
  <2> HIDE DEF q
  <2>2. QED
    BY <1>1, <2>1, EqualMild
<1>3. s = q \/ s = Arm(q, "PROBE_RETRY")
  BY DEF SensorsStart
<1> HIDE DEF q, s
<1>4. Mild(x, s)
  BY <1>2, <1>3, ArmMild, MildTrans DEF Mild
<1>5. Mild(s, o)
  <2>1. Fit(s)
    BY <1>4 DEF Mild
  <2>2. SetupFields \subseteq DOMAIN o /\ \A f \in SetupFields : o[f] = s[f]
    BY <2>1 DEF Fit, SetupFields
  <2> HIDE DEF o
  <2>3. QED
    BY <2>1, <2>2, EqualMild
<1>6. u = s \/ u = Arm(o, "RX_POLL")
  BY SMTT(30) DEF UartInit
<1> HIDE DEF o, u
<1>7. Mild(x, u)
  BY <1>4, <1>5, <1>6, ArmMild, MildTrans DEF Mild
<1>8. Fit(u) /\ u.tx = x.tx
  <2>1. s.tx = x.tx
    BY <1>1, <1>3, TimersMild DEF q, Arm, Fit, SetupFields
  <2>2. Fit(s) /\ Fit(o)
    BY <1>4, <1>5 DEF Mild
  <2>3. o.tx = s.tx
    BY <2>2 DEF o, Fit, SetupFields
  <2>4. Arm(o, "RX_POLL").tx = o.tx
    BY <2>2, TimersMild DEF Arm, SetupFields
  <2>5. QED
    BY <1>6, <1>7, <2>1, <2>3, <2>4 DEF Mild
<1>9. Written(u) = {}
  BY <1>1, <1>8 DEF Written
<1>10. SetsUp(v) /\ Written(v) \subseteq {"exit"}
  BY <1>8, <1>9, StartVerifySetsUp
<1>11. SmartHelmetPowerOn(x, found, opens) = ReportStart(v)
  BY DEF SmartHelmetPowerOn, u, s
<1> HIDE DEF v
<1>12. Mild(v, ReportStart(v))
  BY <1>10, ReportStartMild DEF SetsUp
<1>13. Verdict(ReportStart(v)) /\ Written(ReportStart(v)) \subseteq {"exit", "line"}
  BY <1>10, <1>12, MildVerdict DEF SetsUp, Mild
<1>14. QED
  BY <1>11, <1>13

\* Closing the UART empties the sink and ends any dialogue.
LEMMA UartCloseMild ==
    ASSUME NEW x, Fit(x)
    PROVE  Mild(x, UartClose(x))
<1> DEFINE y == UartClose(x)
<1>1. /\ SetupFields \subseteq DOMAIN y /\ y.step = "idle" /\ y.tx = <<>>
      /\ \A f \in SetupFields \ {"step", "tx"} : y[f] = x[f]
  BY DEF Fit, SetupFields, UartClose
<1> HIDE DEF y
<1>2. Written(y) = {} /\ y.tx \in Seq(Frames)
  BY <1>1 DEF Written
<1>3. QED
  BY <1>1, <1>2 DEF Fit, Mild, SetupFields, InSetup, y

\* Power-off and SmartHelmet_Close are mild.
LEMMA PowerOffMild ==
    ASSUME NEW x, Fit(x)
    PROVE  Mild(x, SmartHelmetPowerOff(x)) /\ Mild(x, SmartHelmetClose(x))
<1> DEFINE ids == {"REPORT_TICK", "PROBE_RETRY"}
           p == [x EXCEPT !.powered = FALSE, !.sensors = FALSE]
           q == [x EXCEPT !.ready = FALSE, !.powered = FALSE]
           r == Cancel(p, ids)
           s == [r EXCEPT !.online = FALSE]
           t == Cancel(q, ids)
<1>1. Mild(x, p)
  <2>1. SetupFields \subseteq DOMAIN p /\ \A f \in SetupFields : p[f] = x[f]
    BY DEF Fit, SetupFields
  <2> HIDE DEF p
  <2>2. QED
    BY <2>1, EqualMild
<1>2. Mild(x, q)
  <2>1. SetupFields \subseteq DOMAIN q /\ \A f \in SetupFields : q[f] = x[f]
    BY DEF Fit, SetupFields
  <2> HIDE DEF q
  <2>2. QED
    BY <2>1, EqualMild
<1>3. SmartHelmetPowerOff(x) = UartClose(s) /\ SmartHelmetClose(x) = UartClose(t)
  BY DEF SmartHelmetPowerOff, SmartHelmetClose, UartSleep
<1> HIDE DEF p, q, ids
<1>4. Mild(p, r) /\ Mild(q, t)
  BY <1>1, <1>2, ArmMild DEF Mild
<1> HIDE DEF r, t
<1>5. Mild(r, s)
  <2>1. Fit(r)
    BY <1>4 DEF Mild
  <2>2. SetupFields \subseteq DOMAIN s /\ \A f \in SetupFields : s[f] = r[f]
    BY <2>1 DEF Fit, SetupFields
  <2> HIDE DEF s
  <2>3. QED
    BY <2>1, <2>2, EqualMild
<1> HIDE DEF s
<1>6. Mild(s, UartClose(s)) /\ Mild(t, UartClose(t))
  BY <1>4, <1>5, UartCloseMild DEF Mild
<1>7. QED
  BY <1>1, <1>2, <1>3, <1>4, <1>5, <1>6, MildTrans

-----------------------------------------------------------------------------
(* The inductive invariant. *)

SetupInv == Inv /\ Verdict(h) /\ Apart(h, mod)

\* The firmware boots outside the set-up, with nothing judged or written.
LEMMA InitSetupInv ==
    Init => SetupInv
<1> SUFFICES ASSUME Init PROVE SetupInv
  OBVIOUS
<1>1. h.step = "idle" /\ h.tx = <<>> /\ h.at_ok = FALSE
  BY DEF Init
<1>2. Verdict(h) /\ ~InSetup(h)
  BY <1>1 DEF Verdict, InSetup
<1>3. Written(h) = {}
  BY <1>1 DEF Written
<1>4. QED
  BY <1>2, <1>3, InitInv DEF SetupInv, Apart

\* The module enters passthrough only on +++.
LEMMA ReactionPass ==
    ASSUME NEW m \in ModModes, NEW f \in Frames, NEW r \in Reactions(m, f),
           r[1] = "pass"
    PROVE  m = "pass" \/ f = "+++"
  BY DEF Reactions, ModModes, Silent

\* Reading a frame takes it out of the sink.
LEMMA TailWritten ==
    ASSUME NEW x, NEW y, x.tx \in Seq(Frames), x.tx # <<>>, y.tx = Tail(x.tx)
    PROVE  /\ y.tx \in Seq(Frames) /\ Written(y) \subseteq Written(x)
           /\ Head(x.tx) \in Written(x) /\ Head(x.tx) \in Frames
<1>1. y.tx \in Seq(Frames) /\ Len(y.tx) = Len(x.tx) - 1 /\ Len(x.tx) \in Nat \ {0}
  OBVIOUS
<1>2. \A i \in 1..Len(y.tx) : y.tx[i] = x.tx[i + 1] /\ i + 1 \in 1..Len(x.tx)
  BY <1>1
<1>3. DOMAIN y.tx = 1..Len(y.tx) /\ DOMAIN x.tx = 1..Len(x.tx)
  BY <1>1
<1>4. \A i \in DOMAIN y.tx : y.tx[i] \in Written(x)
  BY <1>2, <1>3 DEF Written
<1>5. Written(y) \subseteq Written(x)
  BY <1>4 DEF Written
<1>6. Head(x.tx) = x.tx[1] /\ 1 \in DOMAIN x.tx
  BY <1>1, <1>3
<1>7. Head(x.tx) \in Written(x)
  BY <1>6 DEF Written
<1>8. Head(x.tx) \in Frames
  OBVIOUS
<1>9. QED
  BY <1>1, <1>5, <1>7, <1>8

\* Every step of the system preserves the invariant.
LEMMA NextSetupInv ==
    SetupInv /\ [Next]_vars => SetupInv'
<1> SUFFICES ASSUME SetupInv, [Next]_vars PROVE SetupInv'
  OBVIOUS
<1>0. Inv /\ Inv' /\ Verdict(h) /\ Apart(h, mod)
  BY NextInv DEF SetupInv
<1>1. h \in Firmware /\ h' \in Firmware /\ Fit(h)
  BY <1>0, FirmwareFit DEF Inv, Running, Sound, Base, Off
<1>m. ASSUME Mild(h, h'), mod' = mod \/ mod' # "pass"
      PROVE  SetupInv'
  <2>1. Verdict(h')
    BY <1>0, <1>m, MildVerdict
  <2>2. Apart(h', mod)
    BY <1>0, <1>m, MildApart
  <2>3. Apart(h', mod')
    BY <1>m, <2>2 DEF Apart
  <2>4. QED
    BY <1>0, <2>1, <2>3 DEF SetupInv
<1>2. ASSUME NEW i2cOk \in BOOLEAN, SmartHelmetInit(i2cOk) PROVE SetupInv'
  <2> DEFINE y == IF h.ready THEN SmartHelmetClose(h) ELSE h
             z == [y EXCEPT !.ready = i2cOk]
  <2>1. Mild(h, h)
    BY <1>1, EqualMild DEF Fit
  <2>2. Mild(h, y)
    BY <1>1, <2>1, PowerOffMild
  <2>3. h' = z /\ (mod' = mod \/ mod' # "pass")
    BY <1>2 DEF SmartHelmetInit
  <2> HIDE DEF y
  <2>4. Fit(y)
    BY <2>2 DEF Mild
  <2>5. SetupFields \subseteq DOMAIN z /\ \A f \in SetupFields : z[f] = y[f]
    BY <2>4 DEF Fit, SetupFields
  <2> HIDE DEF z
  <2>6. Mild(y, z)
    BY <2>4, <2>5, EqualMild
  <2>7. QED
    BY <1>m, <2>2, <2>3, <2>6, MildTrans
<1>3. ASSUME NEW found \in BOOLEAN, NEW opens \in BOOLEAN, PowerOn(found, opens)
      PROVE  SetupInv'
  <2>1. Off(h) /\ mod = "held" /\ h.tx = <<>>
    BY <1>0, <1>3 DEF Inv, PowerOn, Running, Sound, Base, Off
  <2>2. Verdict(h') /\ Written(h') \subseteq {"exit", "line"}
    BY <1>1, <1>3, <2>1, PowerOnSetsUp DEF PowerOn
  <2>3. mod' = "boot"
    BY <1>3, <2>1 DEF PowerOn
  <2>4. Apart(h', mod')
    BY <2>2, <2>3 DEF Apart
  <2>5. QED
    BY <1>0, <2>2, <2>4 DEF SetupInv
<1>4. CASE PowerOff
  BY <1>1, <1>4, <1>m, PowerOffMild DEF PowerOff
<1>5. CASE ReportTick
  <2>1. Mild(h, Cancel(h, {"REPORT_TICK"}))
    BY <1>1, ArmMild
  <2>2. Mild(Cancel(h, {"REPORT_TICK"}), h')
    BY <1>5, <2>1, ReportStartMild DEF ReportTick, Mild
  <2>3. QED
    BY <1>5, <1>m, <2>1, <2>2, MildTrans DEF ReportTick
<1>6. ASSUME NEW fixes \in 0..ProvMax, NEW textOk \in BOOLEAN,
             LinkCheck(fixes, textOk)
      PROVE  SetupInv'
  <2> DEFINE x == Cancel(h, {"LINK_CHECK"})
  <2>1. Running(h)
    BY <1>0, <1>6, ActiveIsRunning DEF LinkCheck
  <2>2. Sound(x)
    BY <2>1, CancelSound DEF Running
  <2>3. x \in Firmware /\ x.tx = h.tx /\ x.step \in Steps
    BY <1>1, <2>2 DEF Sound, Base, Cancel, Firmware
  <2>4. Mild(h, x) /\ (InSetup(x) => InSetup(h))
    BY <1>1, ArmMild DEF Mild, InSetup
  <2>5. h' = OnTimeout(x, fixes, textOk) /\ mod' = mod /\ h.tx = <<>>
    BY <1>6 DEF LinkCheck
  <2> HIDE DEF x
  <2>6. Counted(x)
    BY <2>3, <2>5, FirmwareFit DEF Counted, Written
  <2>7. Verdict(x)
    BY <1>0, <2>4, MildVerdict
  <2>8. Advances(x, h')
    BY <2>2, <2>3, <2>5, <2>6, <2>7, OnTimeoutAdvances DEF Sound
  <2>9. Apart(h', mod')
    BY <1>0, <2>4, <2>5, <2>8 DEF Advances, Apart
  <2>10. QED
    BY <1>0, <2>8, <2>9 DEF SetupInv, Advances
<1>7. ASSUME NEW found \in BOOLEAN, ProbeRetry(found) PROVE SetupInv'
  <2> DEFINE x == Cancel(h, {"PROBE_RETRY"})
             z == [x EXCEPT !.sensors = found, !.probe_try = @ + 1]
             y == SensorsVerifyPass(x, found)
  <2>1. Mild(h, x)
    BY <1>1, ArmMild
  <2>2. /\ y = z \/ y = Arm(z, "PROBE_RETRY")
        /\ h' = y \/ h' = ReportStart(y)
        /\ mod' = mod
    BY <1>7 DEF ProbeRetry, SensorsVerifyPass
  <2> HIDE DEF x, y
  <2>3. Fit(x)
    BY <2>1 DEF Mild
  <2>4. SetupFields \subseteq DOMAIN z /\ \A f \in SetupFields : z[f] = x[f]
    BY <2>3 DEF Fit, SetupFields
  <2> HIDE DEF z
  <2>5. Mild(x, z)
    BY <2>3, <2>4, EqualMild
  <2>6. Mild(z, Arm(z, "PROBE_RETRY"))
    BY <2>5, ArmMild DEF Mild
  <2>7. Mild(h, y)
    BY <2>1, <2>2, <2>5, <2>6, MildTrans
  <2>8. Mild(y, ReportStart(y))
    BY <2>7, ReportStartMild DEF Mild
  <2>9. QED
    BY <1>m, <2>2, <2>7, <2>8, MildTrans
<1>8. ASSUME NEW n \in 1..Len(wire), NEW fits \in BOOLEAN, RxChunk(n, fits)
      PROVE  SetupInv'
  BY <1>1, <1>8, <1>m, ConsumeMild DEF RxChunk
<1>9. CASE RxCut
  BY <1>1, <1>9, <1>m, ConsumeMild DEF RxCut
<1>10. CASE RejoinHoldOver \/ RejoinHoldAgain
  <2>1. PICK k : h' = [h EXCEPT !.rejoin_hold = k] /\ mod' = mod
    BY <1>10 DEF RejoinHoldOver, RejoinHoldAgain
  <2>2. SetupFields \subseteq DOMAIN h' /\ \A f \in SetupFields : h'[f] = h[f]
    BY <1>1, <2>1 DEF Fit, SetupFields
  <2>3. QED
    BY <1>1, <1>m, <2>1, <2>2, EqualMild
<1>11. CASE ModReceive
  <2>1. PICK r \in Reactions(mod, Head(h.tx)) : mod' = r[1] /\ Say(r[2])
    BY <1>11 DEF ModReceive
  <2>2. h.tx # <<>> /\ h' = [h EXCEPT !.tx = Tail(@)]
    BY <1>11 DEF ModReceive
  <2>3. h'.tx = Tail(h.tx) /\ \A f \in SetupFields \ {"tx"} : h'[f] = h[f]
    BY <1>1, <2>2 DEF Fit, SetupFields
  <2>4. /\ h'.tx \in Seq(Frames) /\ Written(h') \subseteq Written(h)
        /\ Head(h.tx) \in Written(h) /\ Head(h.tx) \in Frames
    BY <1>1, <2>2, <2>3, TailWritten DEF Fit
  <2>5. Mild(h, h')
    <3>1. Fit(h')
      BY <1>1, FirmwareFit
    <3>2. QED
      BY <2>3, <2>4, <3>1 DEF Mild, SetupFields, InSetup
  <2>6. Apart(h', mod) /\ Verdict(h')
    BY <1>0, <2>5, MildApart, MildVerdict
  <2>7. mod' = "pass" => mod = "pass" \/ "+++" \in Written(h)
    BY <1>0, <2>1, <2>4, ReactionPass DEF Inv
  <2>8. InSetup(h') => InSetup(h)
    BY <2>5 DEF Mild, InSetup
  <2>9. Apart(h', mod')
    BY <1>0, <2>4, <2>6, <2>7, <2>8 DEF Apart
  <2>10. QED
    BY <1>0, <2>6, <2>9 DEF SetupInv
<1>12. CASE ModBoot \/ ModDownlink \/ ModRestart \/ UNCHANGED vars
  <2>1. h' = h /\ (mod' = mod \/ mod' # "pass")
    BY <1>12 DEF ModBoot, ModDownlink, ModRestart, vars
  <2>2. Mild(h, h)
    BY <1>1, EqualMild DEF Fit
  <2>3. QED
    BY <1>m, <2>1, <2>2
<1>13. QED
  BY <1>2, <1>3, <1>4, <1>5, <1>6, <1>7, <1>8, <1>9, <1>10, <1>11, <1>12 DEF Next

\* The invariant of the set-up holds in every reachable state.
THEOREM SetupInvariance ==
    Spec => []SetupInv
  BY InitSetupInv, NextSetupInv, PTL DEF Spec

\* at_ok of SmartHelmet_WisunStatus is set only when all AtCount probes passed
\* and none failed, whatever was lost, repeated or answered late.
THEOREM OkMeansAllPassed ==
    Spec => []AtOkMeansAllPassed
<1>1. SetupInv => AtOkMeansAllPassed
  BY DEF SetupInv, Verdict, AtOkMeansAllPassed
<1>2. QED
  BY <1>1, SetupInvariance, PTL

\* shAtSendCurrent probes only a module that announced its start and whose
\* settings were read, and saved when they differed from the profile.
THEOREM ProbesComeLast ==
    Spec => []ProbesFollowProvisioning
<1>1. SetupInv => ProbesFollowProvisioning
  BY DEF SetupInv, Verdict, ProbesFollowProvisioning
<1>2. QED
  BY <1>1, SetupInvariance, PTL

\* A set-up command never reaches a module in passthrough, where it would be
\* sent to the border router as payload.
THEOREM SetupIsNeverPayload ==
    Spec => []SetupNeverPayload
<1>1. SetupInv => SetupNeverPayload
  <2> SUFFICES ASSUME SetupInv, mod = "pass", h.tx # <<>>
               PROVE  Head(h.tx) \notin SetupCmds
    BY DEF SetupNeverPayload
  <2>1. h.tx \in Seq(Frames)
    BY DEF SetupInv, Inv, Running, Sound, Base, Off, Firmware
  <2>2. Head(h.tx) \in Written(h)
    <3>1. Head(h.tx) = h.tx[1] /\ 1 \in DOMAIN h.tx
      BY <2>1
    <3>2. QED
      BY <3>1 DEF Written
  <2>3. QED
    BY <2>2 DEF SetupInv, Apart
<1>2. QED
  BY <1>1, SetupInvariance, PTL
=============================================================================
