------------------------------ MODULE WisunLink ------------------------------
(***************************************************************************)
(* The Wi-SUN link of the helmet: the AT dialogue with the WS8856 module,  *)
(* the passthrough session the reports travel in, and the power-on,        *)
(* power-off and report handlers of smart_helmet.c that drive it.          *)
(*                                                                         *)
(* The firmware is one message-loop task.  Its static variables are the    *)
(* fields of the record h, and every C function is an operator from a      *)
(* record to a record, so that a handler that calls other functions is one *)
(* atomic step.  h.timers is the set of delayed messages that are armed;   *)
(* an armed message may be delivered at any time.  The module runs         *)
(* concurrently: h.tx is what the firmware has written and the module has  *)
(* not read, wire what the module has written and the firmware has not.    *)
(***************************************************************************)
EXTENDS Integers, Sequences, FiniteSets

CONSTANTS
    AtCount,       \* SH_AT_CMD_COUNT: read-only AT probes (13 in the build)
    ProvMax,       \* most settings shProvPlan finds wrong (7 in the build)
    ResetRetries,  \* SMART_HELMET_WISUN_RESET_RETRIES (2)
    MissedMax,     \* reports without "send OK" before a rejoin (12)
    TooLongMax,    \* re-entries of passthrough after a CLI reject (2)
    ProbeMax,      \* SMART_HELMET_I2C_PROBE_RETRY_MAX (5)
    ReportLines,   \* frames of one report (11 in the build)
    TxCap,         \* frames the UART sink can hold
    RxCap          \* bound: tokens the module may have outstanding

ASSUME ConstantsAssumption ==
    /\ AtCount \in 1..254          \* at_pass and at_fail never saturate
    /\ ProvMax \in 0..7
    /\ ResetRetries \in Nat \ {0}
    /\ MissedMax \in Nat \ {0}
    /\ TooLongMax \in Nat
    /\ ProbeMax \in Nat \ {0}
    /\ ReportLines \in Nat \ {0}
    /\ TxCap \in Nat \ {0}
    /\ RxCap \in Nat \ {0}

VARIABLES
    h,      \* the firmware: smart_helmet.c, smart_helmet_uart.c
    mod,    \* what the WS8856 module is doing
    wire    \* tokens from the module, oldest first

vars == <<h, mod, wire>>

-----------------------------------------------------------------------------
(* Steps of the dialogue, messages, commands and replies. *)

Rejoining == {"LEAVE", "DEST", "PASS"}
Steps == {"idle", "RESET", "CMD", "DONE", "PROV_READ", "PROV_SET"} \cup Rejoining

Timers == {"LINK_CHECK", "RX_POLL", "REPORT_TICK", "PROBE_RETRY"}

\* Commands of the set-up dialogue, the ones of the session, report payload.
SetupCmds == {"reset", "param", "set", "save", "svrst", "at"}
Frames == SetupCmds \cup {"exit", "at_dest", "+++", "line"}

\* What the firmware tells apart in the module's output.  "restartLine" is
\* RESTART_SENSOR cut by a chunk boundary, which only the line splitter sees.
Tokens == {"banner", "ok", "invalid", "transparent", "format_err", "too_long",
           "send_ok", "send_fail", "restart", "restartLine", "noise"}

ProvSaved == 255       \* sh_prov_i once "save" was sent

ModModes == {"held", "boot", "cmd", "pass"}

\* sh_rejoin_ms: no rejoin yet, one that still bars the next, one that is past.
Holds == {"never", "held", "over"}

Firmware ==
    [ready : BOOLEAN, powered : BOOLEAN, open : BOOLEAN, sensors : BOOLEAN,
     probe_try : 0..ProbeMax,
     timers : SUBSET Timers, tx : Seq(Frames), asm : SUBSET Tokens,
     step : Steps, leave_next : {"idle", "RESET", "DEST"},
     tries : 0..ResetRetries, reset_seen : BOOLEAN,
     prov_n : 0..ProvMax, prov_i : 0..ProvMax \cup {ProvSaved},
     prov_done : BOOLEAN,
     at_idx : 0..AtCount, at_pass : Nat, at_fail : Nat, at_ok : BOOLEAN,
     passthrough : BOOLEAN, online : BOOLEAN, rejoining : BOOLEAN,
     send_ok_wait : BOOLEAN, missed_ok : 0..MissedMax,
     too_long_retry : 0..TooLongMax, restart_seen : BOOLEAN,
     rejoin_hold : Holds]

-----------------------------------------------------------------------------
(* Building blocks: delayed messages and the UART sink. *)

Arm(x, id) == [x EXCEPT !.timers = @ \cup {id}]
Cancel(x, ids) == [x EXCEPT !.timers = @ \ ids]

Room(x) == IF x.open THEN TxCap - Len(x.tx) ELSE 0

\* A command that finds no room is lost; the dialogue goes on regardless.
SendProbe(x, cmd) ==
    IF Room(x) > 0 THEN [x EXCEPT !.tx = Append(@, cmd)] ELSE x

\* "exit" is written and its answer awaited, then the dialogue goes to next.
Leave(x, next) ==
    Arm(SendProbe([x EXCEPT !.step = "LEAVE", !.leave_next = next], "exit"),
        "LINK_CHECK")

ReportStop(x) == Cancel(x, {"REPORT_TICK"})

-----------------------------------------------------------------------------
(* The session: rejoin, report bookkeeping, what a received chunk does. *)

\* Mutant of UartRejoin: sh_passthrough is not cleared.
UartRejoinKeepsSession(x) ==
    IF x.step \in Rejoining \/ x.rejoin_hold = "held"
    THEN x
    ELSE Leave(ReportStop([x EXCEPT !.rejoin_hold = "held", !.rejoining = TRUE,
                                    !.online = FALSE,
                                    !.send_ok_wait = FALSE]), "DEST")

\* Mutant of UartRejoin: the whole set-up is repeated instead of at_dest.
UartRejoinResets(x) ==
    IF x.step \in Rejoining \/ x.rejoin_hold = "held"
    THEN x
    ELSE Leave(ReportStop([x EXCEPT !.rejoin_hold = "held", !.rejoining = TRUE,
                                    !.passthrough = FALSE, !.online = FALSE,
                                    !.send_ok_wait = FALSE]), "RESET")

UartRejoin(x) ==
    IF x.step \in Rejoining \/ x.rejoin_hold = "held"
    THEN x
    ELSE Leave(ReportStop([x EXCEPT !.rejoin_hold = "held", !.rejoining = TRUE,
                                    !.passthrough = FALSE, !.online = FALSE,
                                    !.send_ok_wait = FALSE]), "DEST")

UartNoteReportSent(x, ok) ==
    LET missed == IF x.missed_ok < MissedMax THEN x.missed_ok + 1 ELSE MissedMax
    IN  IF ~ok THEN UartRejoin([x EXCEPT !.online = FALSE])
        ELSE IF ~x.send_ok_wait THEN [x EXCEPT !.send_ok_wait = TRUE]
        ELSE IF missed < MissedMax THEN [x EXCEPT !.missed_ok = missed]
        ELSE UartRejoin([x EXCEPT !.missed_ok = missed])

\* Frames are written one by one until the sink is full.
SendReportLines(x) ==
    LET n == IF Room(x) < ReportLines THEN Room(x) ELSE ReportLines
    IN  UartNoteReportSent([x EXCEPT !.tx = @ \o [i \in 1..n |-> "line"]],
                           n = ReportLines)

\* Mutant of ReportStart: the tick is armed again by a held report only.
ReportStartHeldOnly(x) ==
    LET taken == [x EXCEPT !.restart_seen = FALSE]
    IN  IF x.passthrough /\ x.sensors THEN SendReportLines(taken)
                                      ELSE Arm(taken, "REPORT_TICK")

\* Runs on the tick, at power-on, when +++ is accepted and when the last
\* sensor comes up.  The restart latch is taken whether or not it is sent.
ReportStart(x) ==
    LET taken == [x EXCEPT !.restart_seen = FALSE]
    IN  Arm(IF x.passthrough /\ x.sensors THEN SendReportLines(taken)
                                          ELSE taken, "REPORT_TICK")

\* Mutant of NoteSendOk: sh_rejoining stays set.
NoteSendOkStillRejoining(x) ==
    [x EXCEPT !.online = TRUE, !.send_ok_wait = FALSE, !.missed_ok = 0,
              !.too_long_retry = 0,
              !.step = IF @ \in Rejoining THEN "DONE" ELSE @,
              !.passthrough = @ \/ x.step \in Rejoining]

NoteSendOk(x) ==
    [x EXCEPT !.online = TRUE, !.send_ok_wait = FALSE, !.missed_ok = 0,
              !.rejoining = FALSE, !.too_long_retry = 0,
              !.step = IF @ \in Rejoining THEN "DONE" ELSE @,
              !.passthrough = @ \/ x.step \in Rejoining]

\* "send fail" hides a "send ok" of the same chunk.
NoteRx(x, chunk) ==
    LET y == IF "send_fail" \in chunk
             THEN UartRejoin([x EXCEPT !.online = FALSE, !.send_ok_wait = FALSE])
             ELSE IF "send_ok" \in chunk THEN NoteSendOk(x) ELSE x
    IN  [y EXCEPT !.restart_seen = @ \/ "restart" \in chunk]

OnCmdTooLong(x) ==
    LET y == ReportStop([x EXCEPT !.passthrough = FALSE])
    IN  IF x.step \in {"DONE", "idle"} /\ x.too_long_retry < TooLongMax
        THEN Leave([y EXCEPT !.too_long_retry = @ + 1], "DEST")
        ELSE y

RxLinePush(x, chunk) ==
    LET y == [x EXCEPT !.restart_seen =
                 @ \/ chunk \cap {"restart", "restartLine"} # {}]
    IN  IF "too_long" \in chunk THEN OnCmdTooLong(y) ELSE y

\* What the timeout of a step will look for in sh_rx_asm.
Sought(step) ==
    CASE step = "RESET" -> {"banner"}
      [] step = "CMD"   -> {"ok", "send_ok", "invalid", "noise"}
      [] step = "PASS"  -> {"transparent", "too_long", "format_err"}
      [] OTHER          -> {}

\* sh_rx_asm collects the chunks of a reply; only what is sought is kept.
\* fits: the chunk still fits the buffer, otherwise its text is cut off.
UartConsume(x, chunk, fits) ==
    LET asm == IF fits THEN x.asm \cup (chunk \cap Sought(x.step)) ELSE x.asm
        y == RxLinePush(NoteRx([x EXCEPT !.asm = asm], chunk), chunk)
    IN  IF y.step = "RESET"
        THEN Arm([y EXCEPT !.reset_seen = @ \/ "banner" \in asm], "LINK_CHECK")
        ELSE IF y.step \in {"CMD", "PROV_READ", "PROV_SET"}
        THEN Arm(y, "LINK_CHECK")
        ELSE y

-----------------------------------------------------------------------------
(* The dialogue: one operator per step, run when LINK_CHECK is delivered. *)

\* Forget the old replies, enter a step, write its command, arm its wait.
Ask(x, step, cmd) ==
    Arm(SendProbe([x EXCEPT !.asm = {}, !.step = step], cmd), "LINK_CHECK")

AtFinish(x) ==
    Leave([x EXCEPT !.at_ok = x.at_fail = 0 /\ x.at_pass > 0 /\ x.reset_seen,
                    !.passthrough = FALSE, !.asm = {}], "DEST")

\* Mutant of AtSendCurrent: the last probe is skipped.
AtSendCurrentOneShort(x) ==
    IF x.at_idx + 1 >= AtCount THEN AtFinish(x) ELSE Ask(x, "CMD", "at")

AtSendCurrent(x) ==
    IF x.at_idx >= AtCount THEN AtFinish(x) ELSE Ask(x, "CMD", "at")

\* "invalid" fails a probe, "ok" passes it, other text may do either.
AtReplyOk(x, textOk) ==
    /\ "invalid" \notin x.asm
    /\ \/ x.asm \cap {"ok", "send_ok"} # {}
       \/ "noise" \in x.asm /\ textOk

AtNoteResult(x, pass) ==
    AtSendCurrent([x EXCEPT !.at_pass = IF pass THEN @ + 1 ELSE @,
                            !.at_fail = IF pass THEN @ ELSE @ + 1,
                            !.at_idx = @ + 1])

ProvSendCurrent(x) ==
    IF x.prov_i >= x.prov_n
    THEN Ask([x EXCEPT !.prov_i = ProvSaved], "PROV_SET", "save")
    ELSE Ask(x, "PROV_SET", "set")

\* Mutant of TimeoutReset: the probes start without the provisioning.
TimeoutResetUnprovisioned(x) ==
    IF x.reset_seen THEN AtSendCurrent([x EXCEPT !.at_idx = 0])
    ELSE IF x.tries < ResetRetries
    THEN Ask([x EXCEPT !.tries = @ + 1], "RESET", "reset")
    ELSE AtFinish([x EXCEPT !.at_fail = @ + 1])

\* Mutant of TimeoutReset: the attempts are not counted.
TimeoutResetUncounted(x) ==
    IF x.reset_seen
    THEN IF ~x.prov_done THEN Ask(x, "PROV_READ", "param")
         ELSE AtSendCurrent([x EXCEPT !.at_idx = 0])
    ELSE Ask(x, "RESET", "reset")

TimeoutReset(x) ==
    IF x.reset_seen
    THEN IF ~x.prov_done THEN Ask(x, "PROV_READ", "param")
         ELSE AtSendCurrent([x EXCEPT !.at_idx = 0])
    ELSE IF x.tries < ResetRetries
    THEN Ask([x EXCEPT !.tries = @ + 1], "RESET", "reset")
    ELSE AtFinish([x EXCEPT !.at_fail = @ + 1])

\* fixes: how many settings of the param reply differ from the profile.
TimeoutProvRead(x, fixes) ==
    LET y == [x EXCEPT !.prov_n = fixes, !.prov_i = 0]
    IN  IF fixes = 0
        THEN AtSendCurrent([y EXCEPT !.prov_done = TRUE, !.at_idx = 0])
        ELSE ProvSendCurrent(y)

TimeoutProvSet(x) ==
    IF x.prov_i = ProvSaved
    THEN Ask([x EXCEPT !.prov_done = TRUE, !.reset_seen = FALSE],
             "RESET", "svrst")
    ELSE ProvSendCurrent([x EXCEPT !.prov_i = @ + 1])

\* Mutant of TimeoutLeave: the wait before the reset is not armed.
TimeoutLeaveUnarmed(x) ==
    IF x.leave_next = "RESET"
    THEN [x EXCEPT !.tries = 0, !.reset_seen = FALSE, !.asm = {},
                   !.step = "RESET"]
    ELSE Ask(x, "DEST", "at_dest")

TimeoutLeave(x) ==
    IF x.leave_next = "RESET"
    THEN Arm([x EXCEPT !.tries = 0, !.reset_seen = FALSE, !.asm = {},
                       !.step = "RESET"], "LINK_CHECK")
    ELSE Ask(x, "DEST", "at_dest")

TimeoutDest(x) == Ask([x EXCEPT !.passthrough = FALSE], "PASS", "+++")

\* Silence after +++ counts as acceptance.
TimeoutPass(x) ==
    LET rejected == x.asm \cap {"too_long", "format_err"} # {}
        y == [x EXCEPT !.step = "DONE",
                       !.passthrough = "transparent" \in x.asm \/ ~rejected]
    IN  IF rejected /\ x.too_long_retry < TooLongMax
        THEN Leave([x EXCEPT !.too_long_retry = @ + 1, !.passthrough = FALSE,
                             !.asm = {}], "DEST")
        ELSE IF y.passthrough THEN ReportStart([y EXCEPT !.online = FALSE])
        ELSE y

\* In the steps "DONE" and "idle" the message is ignored.
OnTimeout(x, fixes, textOk) ==
    CASE x.step = "RESET"     -> TimeoutReset(x)
      [] x.step = "PROV_READ" -> TimeoutProvRead(x, fixes)
      [] x.step = "PROV_SET"  -> TimeoutProvSet(x)
      [] x.step = "LEAVE"     -> TimeoutLeave(x)
      [] x.step = "DEST"      -> TimeoutDest(x)
      [] x.step = "PASS"      -> TimeoutPass(x)
      [] x.step = "CMD"       -> AtNoteResult(x, AtReplyOk(x, textOk))
      [] OTHER                -> x

-----------------------------------------------------------------------------
(* Power: what smart_helmet.c does to the link. *)

\* The module is reset and the pins are released before a byte gets out, so
\* the closing "exit" is not represented: the sink is empty afterwards.
UartClose(x) ==
    [x EXCEPT !.tx = <<>>, !.passthrough = FALSE, !.step = "idle",
              !.timers = @ \ {"RX_POLL", "LINK_CHECK"}, !.open = FALSE]

UartSleep(x) == UartClose([x EXCEPT !.online = FALSE])

UartInit(x, opens) ==
    IF x.open \/ ~opens THEN x ELSE Arm([x EXCEPT !.open = TRUE], "RX_POLL")

UartStartVerify(x) ==
    Leave([x EXCEPT !.online = FALSE, !.reset_seen = FALSE, !.tries = 0,
                    !.at_ok = FALSE, !.at_pass = 0, !.at_fail = 0,
                    !.at_idx = 0, !.asm = {}, !.prov_done = FALSE,
                    !.prov_n = 0, !.prov_i = 0, !.passthrough = FALSE,
                    !.too_long_retry = 0], "RESET")

\* found: every enabled I2C device answered the first probe.
SensorsStart(x, found) ==
    LET y == [x EXCEPT !.sensors = found, !.probe_try = 0]
    IN  IF found THEN y ELSE Arm(y, "PROBE_RETRY")

SensorsVerifyPass(x, found) ==
    LET y == [x EXCEPT !.sensors = found, !.probe_try = @ + 1]
    IN  IF found \/ y.probe_try >= ProbeMax THEN y ELSE Arm(y, "PROBE_RETRY")

SmartHelmetPowerOn(x, found, opens) ==
    ReportStart(UartStartVerify(UartInit(
        SensorsStart([x EXCEPT !.powered = TRUE], found), opens)))

\* Mutant of SmartHelmetPowerOff: the report tick is not cancelled.
SmartHelmetPowerOffTicking(x) ==
    UartSleep(Cancel([x EXCEPT !.powered = FALSE, !.sensors = FALSE],
                     {"PROBE_RETRY"}))

SmartHelmetPowerOff(x) ==
    UartSleep(Cancel([x EXCEPT !.powered = FALSE, !.sensors = FALSE],
                     {"REPORT_TICK", "PROBE_RETRY"}))

SmartHelmetClose(x) ==
    UartClose(Cancel([x EXCEPT !.ready = FALSE, !.powered = FALSE],
                     {"REPORT_TICK", "PROBE_RETRY"}))

-----------------------------------------------------------------------------
(* The steps of the firmware task. *)

\* The statics at boot.  RESET_N is not driven yet, so the module runs.
Init ==
    /\ h = [ready |-> FALSE, powered |-> FALSE, open |-> FALSE,
            sensors |-> FALSE, probe_try |-> 0, timers |-> {}, tx |-> <<>>,
            asm |-> {}, step |-> "idle", leave_next |-> "idle", tries |-> 0,
            reset_seen |-> FALSE, prov_n |-> 0, prov_i |-> 0,
            prov_done |-> FALSE, at_idx |-> 0, at_pass |-> 0, at_fail |-> 0,
            at_ok |-> FALSE, passthrough |-> FALSE, online |-> FALSE,
            rejoining |-> FALSE, send_ok_wait |-> FALSE, missed_ok |-> 0,
            too_long_retry |-> 0, restart_seen |-> FALSE,
            rejoin_hold |-> "never"]
    /\ mod = "boot"
    /\ wire = <<>>

\* SmartHelmet_Init, run again by every system power-on.
SmartHelmetInit(i2cOk) ==
    LET y == IF h.ready THEN SmartHelmetClose(h) ELSE h
    IN  /\ h' = [y EXCEPT !.ready = i2cOk]
        /\ mod' = IF h.ready \/ i2cOk THEN "held" ELSE mod
        /\ UNCHANGED wire

PowerOn(found, opens) ==
    /\ h.ready /\ ~h.powered
    /\ h' = SmartHelmetPowerOn(h, found, opens)
    /\ mod' = IF mod = "held" THEN "boot" ELSE mod
    /\ UNCHANGED wire

PowerOff ==
    /\ h.powered
    /\ h' = SmartHelmetPowerOff(h)
    /\ mod' = "held"
    /\ UNCHANGED wire

\* The tick is due 2 s after the previous report, whose frames are gone by
\* then; a command of the dialogue may still be in the sink.
ReportTick ==
    /\ "REPORT_TICK" \in h.timers
    /\ \A i \in 1..Len(h.tx) : h.tx[i] # "line"
    /\ h' = ReportStart(Cancel(h, {"REPORT_TICK"}))
    /\ UNCHANGED <<mod, wire>>

\* LINK_CHECK is due 200 ms or more after the last write of the dialogue; at
\* 115200 baud the sink is empty long before that.
LinkCheck(fixes, textOk) ==
    /\ "LINK_CHECK" \in h.timers
    /\ h.tx = <<>>
    /\ h' = OnTimeout(Cancel(h, {"LINK_CHECK"}), fixes, textOk)
    /\ UNCHANGED <<mod, wire>>

ProbeRetry(found) ==
    /\ "PROBE_RETRY" \in h.timers
    /\ LET y == SensorsVerifyPass(Cancel(h, {"PROBE_RETRY"}), found)
       IN  h' = IF y.sensors /\ y.passthrough THEN ReportStart(y) ELSE y
    /\ UNCHANGED <<mod, wire>>

\* RX_POLL or MESSAGE_MORE_DATA: the next n tokens arrive as one chunk.
RxChunk(n, fits) ==
    /\ h.open
    /\ h' = UartConsume(h, {wire[i] : i \in 1..n}, fits)
    /\ wire' = SubSeq(wire, n + 1, Len(wire))
    /\ UNCHANGED mod

\* What is left of a token for the code that works on lines or on sh_rx_asm
\* when a chunk boundary falls inside it.
CutOf(t) == CASE t = "send_ok"   -> "ok"
              [] t = "send_fail" -> "noise"
              [] t = "restart"   -> "restartLine"
              [] OTHER           -> t

RxCut ==
    /\ h.open /\ wire # <<>> /\ CutOf(Head(wire)) # Head(wire)
    /\ h' = UartConsume(h, {}, TRUE)
    /\ wire' = [wire EXCEPT ![1] = CutOf(@)]
    /\ UNCHANGED mod

\* 60 s have passed since sh_rejoin_ms.
RejoinHoldOver ==
    /\ h.rejoin_hold = "held"
    /\ h' = [h EXCEPT !.rejoin_hold = "over"]
    /\ UNCHANGED <<mod, wire>>

\* The 32-bit microsecond clock has wrapped, every 72 minutes, and shows a
\* time up to 60 s after sh_rejoin_ms again.
RejoinHoldAgain ==
    /\ h.rejoin_hold = "over"
    /\ h' = [h EXCEPT !.rejoin_hold = "held"]
    /\ UNCHANGED <<mod, wire>>

-----------------------------------------------------------------------------
(* The WS8856 module, as the firmware's comments and matching describe it. *)

Silent == "silent"

Reactions(m, f) ==
    CASE m = "boot" -> {<<"boot", Silent>>}
      [] f = "exit" -> {"cmd"} \X {Silent, "ok"}
      [] m = "pass" /\ f = "+++" -> {<<"cmd", Silent>>}
      [] m = "pass" /\ f \notin {"exit", "+++"} ->
            {"pass"} \X {Silent, "send_ok", "send_fail"}
      [] m = "cmd" /\ f \in {"reset", "svrst"} -> {<<"boot", Silent>>}
      [] m = "cmd" /\ f = "+++" ->
            {<<"pass", Silent>>, <<"pass", "transparent">>, <<"cmd", "format_err">>}
      [] m = "cmd" /\ f = "line" -> {"cmd"} \X {Silent, "too_long"}
      [] OTHER -> {m} \X {Silent, "ok", "invalid", "noise"}

Say(t) == /\ t # Silent => Len(wire) < RxCap
          /\ wire' = IF t = Silent THEN wire ELSE Append(wire, t)

ModReceive ==
    /\ h.tx # <<>>
    /\ \E r \in Reactions(mod, Head(h.tx)) : mod' = r[1] /\ Say(r[2])
    /\ h' = [h EXCEPT !.tx = Tail(@)]

ModBoot ==
    /\ mod = "boot"
    /\ mod' = "cmd"
    /\ \E t \in {Silent, "banner"} : Say(t)
    /\ UNCHANGED h

\* The border router asks for a restart of the vitals.
ModDownlink ==
    /\ mod = "pass"
    /\ Say("restart")
    /\ UNCHANGED <<h, mod>>

\* The module restarts by itself.
ModRestart ==
    /\ mod \in {"cmd", "pass"}
    /\ mod' = "boot"
    /\ UNCHANGED <<h, wire>>

-----------------------------------------------------------------------------
Next ==
    \/ \E i2cOk \in BOOLEAN : SmartHelmetInit(i2cOk)
    \/ \E found, opens \in BOOLEAN : PowerOn(found, opens)
    \/ PowerOff
    \/ ReportTick
    \/ \E fixes \in 0..ProvMax, textOk \in BOOLEAN : LinkCheck(fixes, textOk)
    \/ \E found \in BOOLEAN : ProbeRetry(found)
    \/ \E n \in 1..Len(wire), fits \in BOOLEAN : RxChunk(n, fits)
    \/ RxCut
    \/ RejoinHoldOver
    \/ RejoinHoldAgain
    \/ ModReceive
    \/ ModBoot
    \/ ModDownlink
    \/ ModRestart

Spec == Init /\ [][Next]_vars

\* LINK_CHECK is delivered once the module has been quiet for the settle time.
FairSpec ==
    Spec /\ WF_vars(\E fixes \in 0..ProvMax, textOk \in BOOLEAN :
                        LinkCheck(fixes, textOk))
         /\ WF_vars(ModReceive)

-----------------------------------------------------------------------------
(* Properties. *)

\* The statics keep their types; what is in flight is known to both sides.
TypeOK ==
    /\ h \in Firmware
    /\ mod \in ModModes
    /\ wire \in Seq(Tokens)

\* Payload and dialogue never overlap: while sh_passthrough lets
\* SmartHelmet_ReportStart write report frames, shWisunOnTimeout has no AT
\* exchange in progress, the helmet is powered and the UART is open.
SessionExclusive ==
    h.passthrough => h.step = "DONE" /\ h.powered

\* No step of the dialogue waits for a timer nobody armed: whatever
\* interleaving of chunks, reports and rejoins led there, LINK_CHECK is armed.
DialogueNeverStalls ==
    h.step \notin {"idle", "DONE"} => "LINK_CHECK" \in h.timers

\* SmartHelmet_PowerOff and SmartHelmet_Close leave nothing running: no
\* delayed message, no open UART, no session, and RESET_N holds the module.
QuietWhenOff ==
    ~h.powered => /\ h.timers = {}
                  /\ h.tx = <<>>
                  /\ ~h.open
                  /\ h.step = "idle"
                  /\ h.ready => mod = "held"

\* A reset, provisioning or probe command is never taken as payload by a
\* module in passthrough (what the "exit" of UartStartVerify is for).
SetupNeverPayload ==
    mod = "pass" /\ h.tx # <<>> => Head(h.tx) \notin SetupCmds

\* at_ok means what smart_helmet_uart.h says of it: every probe passed.
AtOkMeansAllPassed ==
    h.at_ok => h.at_pass = AtCount /\ h.at_fail = 0

\* A link under repair is never also reported online, so
\* SmartHelmet_UartIsBrOnline and the "WISUN REJOIN" line agree.
OnlineExcludesRejoining == ~(h.online /\ h.rejoining)

\* The AT probes run only on a module that announced its start and whose
\* settings were read, and saved and restarted when they differed.
ProbesFollowProvisioning ==
    h.step = "CMD" => h.reset_seen /\ h.prov_done

\* An open session goes on reporting: the 2 s tick is never lost, and the one
\* session opened without it is that of a "send OK" which ends a rejoin or a
\* re-entry early (shWisunNoteRx), after SmartHelmet_ReportStop.
OpenSessionReports ==
    [][h'.passthrough /\ (h.passthrough => "REPORT_TICK" \in h.timers) =>
          \/ "REPORT_TICK" \in h'.timers
          \/ ~h.passthrough /\ h.step \in Rejoining /\ h'.online]_vars

\* The phase of the link as the rest of the firmware sees it.
PhaseOf(x) ==
    IF ~x.powered THEN "off"
    ELSE IF x.passthrough THEN "session"
    ELSE IF x.step = "DONE" THEN "held"
    ELSE IF x.step \in Rejoining /\ (x.step = "LEAVE" => x.leave_next = "DEST")
    THEN "entry"
    ELSE "setup"

Link == INSTANCE HelmetLink WITH phase <- PhaseOf(h), online <- h.online

\* smart_helmet_uart.c does to its users only what HelmetLink says: a session
\* opens when +++ is accepted or a "send OK" is read, only "send OK" sets
\* online, and every loss, re-entry or power-off is one of its steps.
ImplementsHelmetLink == Link!Spec

\* Every dialogue comes to its end: the module is set up, re-entered or given
\* up, however it answers and whatever is lost.  The one way to keep
\* shWisunOnTimeout busy for ever is a rejoin per elapsed 60 s hold.
DialogueTerminates ==
    \/ h.step \notin {"idle", "DONE"} ~> h.step \in {"idle", "DONE"}
    \/ []<><<RejoinHoldOver>>_vars

-----------------------------------------------------------------------------
(* What a comment says and the code does not do. *)

\* smart_helmet_uart.h on SmartHelmet_UartIsBrOnline: "True while a recent BR
\* UDP send was acknowledged"; a finished dialogue without a session sends none.
OnlineMeansReporting ==
    h.online /\ h.powered /\ h.step = "DONE" => h.passthrough
=============================================================================
