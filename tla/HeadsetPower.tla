---------------------------- MODULE HeadsetPower ----------------------------
(***************************************************************************)
(* When the helmet is on, and when it goes dormant: the headset state      *)
(* machine (headset_sm.c), the system state and its transition tables      *)
(* (system_state.c, headset_init.c), the power manager, the start and stop *)
(* of the stereo topology, the charger monitor's messages, and the Wi-SUN  *)
(* link through HelmetLink.                                                *)
(*                                                                         *)
(* All of them run as message handlers of one scheduler.  s holds their    *)
(* state and q, the messages not yet delivered.  Each C function is an     *)
(* operator from a state to the state it leaves.  A message sent to two    *)
(* tasks at once is one entry of q, handled by both in the order they      *)
(* registered: nothing can come between the copies.                        *)
(***************************************************************************)
EXTENDS Integers, Sequences, FiniteSets

CONSTANTS
    PowerPrompts,   \* EXCLUDE_POWER_PROMPTS is not defined (the debug build)
    Socs,           \* the battery levels that occur, in percent
    QMax,           \* bound: outside events wait while q is this long
    Worlds          \* bound: the sets of outside events that occur together

ASSUME PowerPromptsType == PowerPrompts \in BOOLEAN
ASSUME SocsType == Socs \subseteq 0..100 /\ Socs # {}
ASSUME QMaxType == QMax \in Nat
ASSUME WorldsType == Worlds \subseteq SUBSET {"button", "cable", "status", "soc", "region",
                                              "handset", "link"}

VARIABLES
    s,        \* the headset, the system state, power, topology and charger
    phase,    \* HelmetLink
    online,   \* HelmetLink: SmartHelmet_UartIsBrOnline
    told      \* history: the value of online the idle timer was last set by

vars == <<s, phase, online, told>>

Link == INSTANCE HelmetLink

HeadsetStates == {"NULL", "LIMBO", "POWERING_ON", "PAIRING", "IDLE", "BUSY",
                  "TERMINATING", "POWERING_OFF"}

SystemStates == {"starting_up", "limbo", "powering_on", "active", "powering_off",
                 "powered_off"}

ChargerEvents == {"ATTACHED", "DETACHED", "CHARGING", "COMPLETED", "DISABLED"}

\* TRICKLE_CHARGE, PRE_CHARGE and FAST_CHARGE are one status, as are CHARGING_LOW
\* and CHARGING_OK: every handler treats them alike.  The error statuses only send
\* CHARGER_MESSAGE_ERROR, which no one here handles, before the charger is disabled.
ChargerStatuses == {"NO_POWER", "FAST_CHARGE", "STANDBY", "DISABLED_ERROR"}

\* The four STATE_CHANGE messages the headset acts on; it ignores the others.
Changes == {"TO_LIMBO", "TO_POWERING_ON", "TO_ACTIVE", "TO_POWERING_OFF"}

Messages == ChargerEvents \cup Changes \cup
    {"UI_ON", "UI_OFF", "UI_PAIR", "POWER_OFF", "PAIR_HANDSET", "PAIR_CFM",
     "CONNECTED", "DISCONNECTED", "AUDIO", "SOC", "REGION", "PREPARE",
     "START_GOAL", "STARTED", "STOP_CFM"}

Timers == {"idle", "limbo", "topstop"}

TypeOK ==
    /\ s \in [hs : HeadsetStates, sys : SystemStates, step : {"none", "prompt", "stop"},
              topo : {"STOPPED", "STARTING", "STARTED", "STOPPING"}, stopping : BOOLEAN,
              notified : BOOLEAN, user : BOOLEAN, q : Seq(Messages),
              timers : SUBSET Timers, cable : BOOLEAN, status : ChargerStatuses,
              event : ChargerEvents, led : 0..2, high : BOOLEAN, charged : BOOLEAN,
              soc : Socs, bt : {"none", "linked", "streaming"}, paired : BOOLEAN,
              unsafe : BOOLEAN, early : BOOLEAN, world : Worlds]
    /\ phase \in Link!Phases
    /\ online \in BOOLEAN
    /\ told \in BOOLEAN

Send(r, m) == [r EXCEPT !.q = Append(@, m)]
Arm(r, t) == [r EXCEPT !.timers = @ \cup {t}]
CancelTimer(r, t) == [r EXCEPT !.timers = @ \ {t}]

-----------------------------------------------------------------------------
(* The stereo topology: StereoTopology_Start and StereoTopology_Stop.  Its  *)
(* goals run one at a time, so a start waits for a stop still running.      *)

TopologyStart(r) ==
    IF r.topo = "STOPPED" THEN Send([r EXCEPT !.topo = "STARTING"], "START_GOAL") ELSE r

\* Mutant of TopologyStop: a topology that is stopped already confirms nothing.
TopologyStopSilent(r) ==
    IF r.topo = "STARTED"
    THEN Arm([r EXCEPT !.topo = "STOPPING", !.stopping = TRUE], "topstop") ELSE r

TopologyStop(r) ==
    CASE r.topo = "STARTED" ->
            Arm([r EXCEPT !.topo = "STOPPING", !.stopping = TRUE], "topstop")
      [] r.topo = "STOPPED" -> Send(r, "STOP_CFM")
      [] OTHER -> r

SendStopCfm(r) ==
    Send(CancelTimer([r EXCEPT !.topo = "STOPPED"], "topstop"), "STOP_CFM")

-----------------------------------------------------------------------------
(* The system state: systemState_InitiateTransiton and the tables.          *)

SystemSetState(r, new) ==
    LET change == CASE r.sys = "starting_up" /\ new = "limbo" -> <<"TO_LIMBO">>
                    [] r.sys = "limbo" /\ new = "powering_on" -> <<"TO_POWERING_ON">>
                    [] r.sys = "powering_on" /\ new = "active" -> <<"TO_ACTIVE">>
                    [] r.sys = "active" /\ new = "powering_off" -> <<"TO_POWERING_OFF">>
                    [] OTHER -> <<>>
    IN  [r EXCEPT !.sys = new, !.q = @ \o change]

\* Mutant of FinishPowerOn: the topology is not started.
FinishPowerOnNoTopology(r) == SystemSetState([r EXCEPT !.step = "none"], "active")

\* What power_on_table does after its prompt.
FinishPowerOn(r) == SystemSetState(TopologyStart([r EXCEPT !.step = "none"]), "active")

\* early is history: the previous power-off has not come to its end.
SystemPowerOn(r) ==
    IF r.sys \notin {"powering_off", "limbo"} THEN r
    ELSE LET on == [SystemSetState(r, "powering_on") EXCEPT !.early = r.sys = "powering_off"]
         IN  IF PowerPrompts THEN [on EXCEPT !.step = "prompt"] ELSE FinishPowerOn(on)

SystemPowerOff(r) ==
    IF r.sys \notin {"powering_on", "active"} THEN r
    ELSE TopologyStop([SystemSetState(r, "powering_off") EXCEPT !.step = "stop", !.early = FALSE])

\* The last step of either shutdown table: the chip goes dormant and what it
\* held in RAM is gone.
Dormant(r) == [r EXCEPT !.sys = "powered_off", !.step = "none", !.q = <<>>, !.timers = {},
                        !.bt = "none"]

-----------------------------------------------------------------------------
(* The power manager.                                                       *)

CanPowerOff(r) == ~r.cable

NeedsToPowerOff(r) == CanPowerOff(r) /\ (r.user \/ r.unsafe)

\* Entering POWER_STATE_TERMINATING_CLIENTS_NOTIFIED.
NotifyClients(r) == Send([r EXCEPT !.notified = TRUE], "PREPARE")

\* Mutant of appPowerOffRequest: user_initiated_shutdown is not set.
appPowerOffRequestForgets(r) == IF CanPowerOff(r) /\ ~r.notified THEN NotifyClients(r) ELSE r

appPowerOffRequest(r) ==
    IF CanPowerOff(r) /\ ~r.notified THEN NotifyClients([r EXCEPT !.user = TRUE]) ELSE r

appPowerHandlePowerEvent(r) ==
    IF ~r.notified /\ NeedsToPowerOff(r) THEN NotifyClients(r) ELSE r

\* Mutant of appPowerShutdownPrepareResponse: the cable is not asked for again.
appPowerShutdownUnchecked(r) ==
    IF (r.user \/ r.unsafe) /\ (r.user => r.sys = "limbo")
    THEN Dormant(r)
    ELSE [r EXCEPT !.notified = FALSE, !.user = FALSE]

\* The last client has responded.  SystemState_Shutdown is refused outside limbo;
\* then, or when the reason has gone, the state is POWER_STATE_OK again.
appPowerShutdownPrepareResponse(r) ==
    IF NeedsToPowerOff(r) /\ (r.user => r.sys = "limbo")
    THEN Dormant(r)
    ELSE [r EXCEPT !.notified = FALSE, !.user = FALSE]

-----------------------------------------------------------------------------
(* The limbo charge indication.                                             *)

ChargeCompleted(r) == r.event = "COMPLETED" \/ (r.event = "DISABLED" /\ r.cable)

\* Mutant of LimboCharge: charging resumes below the threshold only.
LimboChargeBelow(r) ==
    LET full == r.soc >= 99 /\ r.event \in {"CHARGING", "ATTACHED"}
        t == IF full THEN [r EXCEPT !.charged = TRUE, !.event = "DISABLED"] ELSE r
    IN  CASE ChargeCompleted(t) /\ t.soc < 90 -> [t EXCEPT !.charged = FALSE, !.high = FALSE]
          [] ChargeCompleted(t) /\ t.soc >= 90 -> [t EXCEPT !.high = TRUE]
          [] t.event = "CHARGING" ->
                [t EXCEPT !.high = (t.soc >= 95) \/ (@ /\ t.soc > 92)]
          [] t.event = "ATTACHED" -> t
          [] OTHER -> [t EXCEPT !.high = FALSE]

\* headsetSmLimboChargeLedChoice: what it writes.
LimboCharge(r) ==
    LET full == r.soc >= 99 /\ r.event \in {"CHARGING", "ATTACHED"}
        t == IF full THEN [r EXCEPT !.charged = TRUE, !.event = "DISABLED"] ELSE r
    IN  CASE ChargeCompleted(t) /\ t.soc <= 90 -> [t EXCEPT !.charged = FALSE, !.high = FALSE]
          [] ChargeCompleted(t) /\ t.soc > 90 -> [t EXCEPT !.high = TRUE]
          [] t.event = "CHARGING" ->
                [t EXCEPT !.high = (t.soc >= 95) \/ (@ /\ t.soc > 92)]
          [] t.event = "ATTACHED" -> t
          [] OTHER -> [t EXCEPT !.high = FALSE]

\* headsetSmLimboChargeLedChoice: what it returns; 0 dark, 1 yellow, 2 green,
\* 3 leave as it is.
LimboChoice(r) ==
    CASE ChargeCompleted(r) \/ r.event = "CHARGING" -> IF r.high THEN 2 ELSE 1
      [] r.event = "ATTACHED" -> 3
      [] OTHER -> 0

\* Mutant of ApplyLimboChargeLed: "leave as it is" is taken for a colour.
ApplyLimboChargeLedAny(r) ==
    LET t == LimboCharge(r)
        choice == LimboChoice(t)
        lit == [t EXCEPT !.led = choice]
    IN  IF r.hs # "LIMBO" THEN r
        ELSE IF choice = t.led THEN t
        ELSE IF choice # 0 \/ t.cable THEN CancelTimer(lit, "limbo")
        ELSE Arm(lit, "limbo")

ApplyLimboChargeLed(r) ==
    LET t == LimboCharge(r)
        choice == LimboChoice(t)
        lit == [t EXCEPT !.led = choice]
    IN  IF r.hs # "LIMBO" THEN r
        ELSE IF choice \in {3, t.led} THEN t
        ELSE IF choice \in {1, 2} \/ t.cable THEN CancelTimer(lit, "limbo")
        ELSE Arm(lit, "limbo")

-----------------------------------------------------------------------------
(* The headset state machine.                                               *)

\* The states in which SmartHelmet_UiRefresh has the helmet on.
HelmetOn == {"POWERING_ON", "PAIRING", "IDLE", "BUSY"}

\* headsetSmIsIdleTimerNeedToStart, with the flag of the link as read there.
IdleTimerNeeded(r, br) == r.hs = "IDLE" /\ r.bt = "none" /\ ~br

StartIdleTimer(r, br) == IF IdleTimerNeeded(r, br) THEN Arm(r, "idle") ELSE r

ExitState(r) ==
    CASE r.hs = "LIMBO" -> CancelTimer([r EXCEPT !.led = 0], "limbo")
      [] r.hs = "IDLE" -> CancelTimer(r, "idle")
      [] r.hs = "BUSY" -> TopologyStart(r)
      [] OTHER -> r

\* Mutant of SetState: the LED is applied before the limbo timer is started.
SetStateTimerLast(r, new) ==
    LET t == [ExitState(r) EXCEPT !.hs = new]
    IN  CASE new = "LIMBO" -> Arm(ApplyLimboChargeLed(t), "limbo")
          [] new = "IDLE" -> StartIdleTimer(t, online)
          [] new = "TERMINATING" -> appPowerShutdownPrepareResponse(t)
          [] OTHER -> t

\* headsetSetState.  The helmet itself follows in HelmetFollows.
SetState(r, new) ==
    LET t == [ExitState(r) EXCEPT !.hs = new]
    IN  CASE new = "LIMBO" -> ApplyLimboChargeLed(Arm(t, "limbo"))
          [] new = "IDLE" -> StartIdleTimer(t, online)
          [] new = "TERMINATING" -> appPowerShutdownPrepareResponse(t)
          [] OTHER -> t

HandleStateChange(r, change) ==
    CASE change = "TO_LIMBO" -> SetState(r, "LIMBO")
      [] change = "TO_POWERING_ON" -> SetState(r, "POWERING_ON")
      [] change = "TO_ACTIVE" -> SetState(r, IF r.paired THEN "IDLE" ELSE "PAIRING")
      [] change = "TO_POWERING_OFF" -> SetState(r, "POWERING_OFF")

\* The power manager's handler runs first.  A cable or a charging status ends
\* POWERING_OFF without waiting for the topology.
HandleChargerMessage(r, id) ==
    LET p == IF id \in {"ATTACHED", "DETACHED", "COMPLETED"} THEN appPowerHandlePowerEvent(r)
             ELSE r
        t == IF id \in {"ATTACHED", "CHARGING"} /\ p.hs = "POWERING_OFF"
             THEN SetState(p, "LIMBO") ELSE p
    IN  ApplyLimboChargeLed([t EXCEPT !.event = id])

DetermineCoreState(r) == IF r.bt = "streaming" THEN "BUSY" ELSE "IDLE"

\* Mutant of HandleStopCfm: the confirmation counts in POWERING_OFF only.
HandleStopCfmInState(r) ==
    IF r.hs = "POWERING_OFF"
    THEN SystemSetState([appPowerOffRequest(SetState(r, "LIMBO")) EXCEPT !.step = "none"], "limbo")
    ELSE r

\* headetSmHandleTopologyStopCfm, then the rest of power_off_table.
HandleStopCfm(r) ==
    LET t == IF r.hs = "POWERING_OFF" THEN appPowerOffRequest(SetState(r, "LIMBO")) ELSE r
    IN  SystemSetState([t EXCEPT !.step = "none"], "limbo")

\* Mutant of HandlePrepareInd: LIMBO does not respond.
HandlePrepareIndOnce(r) == IF r.hs = "LIMBO" THEN r ELSE SetState(r, "TERMINATING")

HandlePrepareInd(r) ==
    IF r.hs = "LIMBO" THEN appPowerShutdownPrepareResponse(r) ELSE SetState(r, "TERMINATING")

\* headsetSmHandleMessage, systemState_MessageHandler and the topology's and the
\* power manager's handlers.  A confirmation the transition does not await is
\* ignored, also when none is awaited and the expected id is read past the
\* table: whichever entry is there, nothing modelled here changes.
Handle(r, m) ==
    CASE m \in Changes -> HandleStateChange(r, m)
      [] m \in ChargerEvents -> HandleChargerMessage(r, m)
      [] m = "SOC" -> ApplyLimboChargeLed(r)
      [] m = "REGION" -> appPowerHandlePowerEvent(r)
      [] m = "PREPARE" -> HandlePrepareInd(r)
      [] m = "UI_ON" -> IF r.hs = "LIMBO" THEN SystemPowerOn(r) ELSE r
      [] m = "UI_OFF" -> Send(r, "POWER_OFF")
      [] m = "UI_PAIR" -> Send(r, "PAIR_HANDSET")
      [] m = "POWER_OFF" -> IF r.hs \notin {"NULL", "LIMBO"} THEN SystemPowerOff(r) ELSE r
      [] m = "PAIR_HANDSET" -> IF r.hs = "IDLE" THEN SetState(r, "PAIRING") ELSE r
      [] m = "PAIR_CFM" -> IF r.hs = "PAIRING" THEN SetState(r, "IDLE") ELSE r
      [] m = "CONNECTED" -> IF r.hs = "IDLE" THEN CancelTimer(r, "idle") ELSE r
      [] m = "DISCONNECTED" -> StartIdleTimer(r, online)
      [] m = "AUDIO" ->
            IF r.hs \in {"IDLE", "BUSY"} THEN SetState(r, DetermineCoreState(r)) ELSE r
      [] m = "START_GOAL" -> IF r.stopping THEN r ELSE Send(r, "STARTED")
      [] m = "STARTED" -> [r EXCEPT !.topo = "STARTED"]
      [] m = "STOP_CFM" -> IF r.step = "stop" THEN HandleStopCfm(r) ELSE r

-----------------------------------------------------------------------------
Awake == s.sys # "powered_off"

\* SmartHelmet_UiRefresh, called by headsetSetState with the new state.
HelmetFollows ==
    IF (s'.hs \in HelmetOn) = (phase # "off")
    THEN UNCHANGED <<phase, online, told>>
    ELSE /\ IF phase = "off" THEN Link!PowerUp ELSE Link!PowerDown
         /\ told' = FALSE

Deliver ==
    /\ Awake /\ s.q # <<>>
    /\ s' = Handle([s EXCEPT !.q = Tail(@)], Head(s.q))
    /\ HelmetFollows

\* The prompt of power_on_table has been played.
PromptPlayed ==
    /\ s.step = "prompt"
    /\ s' = FinishPowerOn(s)
    /\ UNCHANGED <<phase, online, told>>

\* headsetSmHandleTimeoutIdle
TimeoutIdle ==
    /\ "idle" \in s.timers /\ Len(s.q) < QMax
    /\ s' = IF s.hs = "IDLE" /\ s.bt = "none" /\ ~online
            THEN Send(CancelTimer(s, "idle"), "POWER_OFF")
            ELSE IF s.hs = "IDLE" /\ s.bt = "none" THEN s
            ELSE CancelTimer(s, "idle")
    /\ UNCHANGED <<phase, online, told>>

\* headsetSmHandleTimeoutLimbo.  Its ten seconds never end before the ten of a
\* topology stop, which the headset asks for before it enters LIMBO.
TimeoutLimbo ==
    /\ "limbo" \in s.timers
    /\ "topstop" \notin s.timers
    /\ \A i \in DOMAIN s.q : s.q[i] # "STOP_CFM"
    /\ LET r == CancelTimer(s, "limbo")
       IN  s' = IF s.hs = "LIMBO" /\ ~s.cable
                   /\ s.event \notin {"COMPLETED", "ATTACHED", "CHARGING"}
                THEN appPowerOffRequest(r) ELSE r
    /\ UNCHANGED <<phase, online, told>>

\* stereoTopology_HandleStopTimeout: the goal goes on, the confirmation is sent.
TimeoutTopologyStop ==
    /\ "topstop" \in s.timers
    /\ s' = SendStopCfm(s)
    /\ UNCHANGED <<phase, online, told>>

\* The stop goal ends, its handset links closed.  stereoTopology_HandleStopCompletion
\* confirms it unless the timeout has; a start kept waiting goes ahead.
StopGoalDone ==
    /\ Awake /\ s.stopping /\ s.bt = "none"
    /\ LET r == [s EXCEPT !.stopping = FALSE]
       IN  s' = IF s.topo = "STOPPING" THEN SendStopCfm(r)
                ELSE IF s.topo = "STARTING" /\ \A i \in DOMAIN s.q : s.q[i] # "START_GOAL"
                THEN Send(r, "STARTED") ELSE r
    /\ UNCHANGED <<phase, online, told>>

-----------------------------------------------------------------------------
(* What happens around the helmet.                                          *)

Outside(kind) == Awake /\ kind \in s.world /\ Len(s.q) < QMax

\* The buttons reach the headset only in the contexts headset_ui_config.c lists.
Button ==
    /\ Outside("button")
    /\ \E m \in IF s.hs \in {"PAIRING", "IDLE", "BUSY"} THEN {"UI_OFF", "UI_PAIR"} ELSE {"UI_ON"} :
          s' = Send(s, m)
    /\ UNCHANGED <<phase, online, told>>

\* Charger_UpdateConnected.  CHARGER_DISABLE_REASON_CHARGED is left as it is.
Cable ==
    /\ Outside("cable")
    /\ s.cable \/ s.status = "NO_POWER"
    /\ s' = Send([s EXCEPT !.cable = ~@], IF s.cable THEN "DETACHED" ELSE "ATTACHED")
    /\ UNCHANGED <<phase, online, told>>

\* charger_StatusMessageId
StatusMessageId(status) ==
    CASE status = "FAST_CHARGE" -> "CHARGING"
      [] status = "STANDBY" -> "COMPLETED"
      [] OTHER -> "DISABLED"

\* Charger_StatusChanged: only a charger that is connected and enabled charges.
ChargerStatus ==
    /\ Outside("status")
    /\ \E status \in ChargerStatuses \ {s.status} :
          /\ status = "DISABLED_ERROR" => s.cable
          /\ status \in {"FAST_CHARGE", "STANDBY"} => s.cable /\ ~s.charged
          /\ s' = Send([s EXCEPT !.status = status], StatusMessageId(status))
    /\ UNCHANGED <<phase, online, told>>

\* The level moves to the next one, up while charging and down otherwise.
SocChange ==
    /\ Outside("soc")
    /\ \E soc \in Socs :
          /\ IF s.status = "FAST_CHARGE" THEN soc > s.soc ELSE soc < s.soc
          /\ ~ \E x \in Socs : x \in (soc + 1)..(s.soc - 1) \cup (s.soc + 1)..(soc - 1)
          /\ s' = Send([s EXCEPT !.soc = soc], "SOC")
    /\ UNCHANGED <<phase, online, told>>

\* The battery region or the temperature enters or leaves its safe range.
RegionChange ==
    /\ Outside("region")
    /\ s' = Send([s EXCEPT !.unsafe = ~@], "REGION")
    /\ UNCHANGED <<phase, online, told>>

\* A paired handset connects while the topology allows it.
HandsetConnects ==
    /\ Outside("handset") /\ s.topo = "STARTED" /\ s.paired /\ s.bt = "none"
    /\ s' = Send([s EXCEPT !.bt = "linked"], "CONNECTED")
    /\ UNCHANGED <<phase, online, told>>

\* A call or a stream starts or ends.
Audio ==
    /\ Outside("handset") /\ s.bt # "none"
    /\ s' = Send([s EXCEPT !.bt = IF @ = "linked" THEN "streaming" ELSE "linked"], "AUDIO")
    /\ UNCHANGED <<phase, online, told>>

HandsetDisconnects ==
    /\ Outside("handset") /\ s.bt # "none"
    /\ LET r == IF s.bt = "streaming" THEN Send(s, "AUDIO") ELSE s
       IN  s' = Send([r EXCEPT !.bt = "none"], "DISCONNECTED")
    /\ UNCHANGED <<phase, online, told>>

\* Pairing ends, with a handset paired or not.
PairingEnds ==
    /\ Outside("handset") /\ s.hs = "PAIRING"
    /\ \E paired \in {s.paired, TRUE} : s' = Send([s EXCEPT !.paired = paired], "PAIR_CFM")
    /\ UNCHANGED <<phase, online, told>>

\* headsetSmOnWisunBrOnlineChanged, called when "send OK" or a lost report
\* changes the flag.
BrOnline ==
    /\ Awake /\ "link" \in s.world /\ Link!Ack
    /\ s' = IF online THEN s ELSE CancelTimer(s, "idle")
    /\ told' = (told \/ ~online)

\* Mutant of BrOffline: the idle timer is not started when the link is lost.
BrOfflineUnheard ==
    /\ Awake /\ "link" \in s.world /\ Link!Fail
    /\ UNCHANGED s
    /\ told' = (told /\ ~online)

BrOffline ==
    /\ Awake /\ "link" \in s.world /\ Link!Fail
    /\ s' = IF online THEN StartIdleTimer(s, FALSE) ELSE s
    /\ told' = (told /\ ~online)

\* The other steps of the link do not call the headset, although Accept may
\* clear the flag.
LinkSilent ==
    /\ Awake /\ "link" \in s.world /\ (Link!Reenter \/ Link!GiveUp \/ Link!Accept)
    /\ UNCHANGED <<s, told>>

-----------------------------------------------------------------------------
\* The charger client and the startup table have queued their messages.
Booted(cable, soc, paired, world) ==
    LET status == IF cable THEN "FAST_CHARGE" ELSE "NO_POWER"
    IN  [hs |-> "NULL", sys |-> "limbo", step |-> "none", topo |-> "STOPPED",
         stopping |-> FALSE, notified |-> FALSE, user |-> FALSE,
         q |-> <<IF cable THEN "ATTACHED" ELSE "DETACHED", StatusMessageId(status), "TO_LIMBO">>,
         timers |-> {}, cable |-> cable, status |-> status, event |-> "DETACHED",
         led |-> 0, high |-> FALSE, charged |-> FALSE, soc |-> soc, bt |-> "none",
         paired |-> paired, unsafe |-> FALSE, early |-> FALSE, world |-> world]

Init ==
    /\ \E cable \in BOOLEAN, soc \in Socs, paired \in BOOLEAN, world \in Worlds :
          s = Booted(cable, soc, paired, world)
    /\ Link!Init
    /\ told = FALSE

\* A button or the cable wakes the dormant chip, which starts again.
Boot ==
    /\ ~Awake
    /\ \E cable \in BOOLEAN : s' = Booted(cable, s.soc, s.paired, s.world)
    /\ UNCHANGED <<phase, online, told>>

Next ==
    \/ Deliver
    \/ PromptPlayed
    \/ TimeoutIdle \/ TimeoutLimbo \/ TimeoutTopologyStop
    \/ StopGoalDone
    \/ Button
    \/ Cable \/ ChargerStatus \/ SocChange \/ RegionChange
    \/ HandsetConnects \/ Audio \/ HandsetDisconnects \/ PairingEnds
    \/ BrOnline \/ BrOffline \/ LinkSilent
    \/ Boot

\* Messages are delivered, timers expire and a prompt ends.
Fairness ==
    /\ WF_vars(Deliver)
    /\ WF_vars(PromptPlayed)
    /\ WF_vars(TimeoutLimbo)
    /\ WF_vars(TimeoutTopologyStop)

Spec == Init /\ [][Next]_vars /\ Fairness

-----------------------------------------------------------------------------
(* Properties.                                                              *)

Quiet == Awake /\ s.q = <<>>

\* The chip never goes dormant with the cable in (appPowerCanPowerOff is asked
\* again when the clients have responded), nor with the helmet still on.
DormantIsSafe == [][(Awake /\ s'.sys = "powered_off") => ~s.cable /\ phase' = "off"]_vars

\* An idle helmet with no handset, last told that the border router is offline,
\* has its power-off timer running (headsetSmIsIdleTimerNeedToStart): no order of
\* connections, streams, pairings and reports loses it.
IdleTimerRuns ==
    (Quiet /\ s.hs = "IDLE" /\ s.bt = "none" /\ ~told) => "idle" \in s.timers

\* A transition that waits for the topology will be answered: it is stopping, or
\* the confirmation is on its way.  The exception is a stop asked for while an
\* earlier, timed-out stop still holds up the start (StereoTopology_Stop).
StopIsConfirmed ==
    s.step = "stop" =>
        \/ s.topo = "STOPPING" /\ "topstop" \in s.timers
        \/ \E i \in DOMAIN s.q : s.q[i] = "STOP_CFM"
        \/ s.topo \in {"STARTING", "STARTED"}

\* In LIMBO a charger that was disabled because the battery was full is enabled
\* again by the time the level is down to 90%.
RechargeResumes ==
    (Quiet /\ s.hs = "LIMBO" /\ s.cable /\ s.status = "DISABLED_ERROR" /\ s.soc <= 90)
        => ~s.charged

\* While a charge LED is lit in LIMBO the power-off timer is stopped.
NoLimboTimerWhileLit == (s.hs = "LIMBO" /\ s.led # 0) => "limbo" \notin s.timers

\* A helmet at rest in LIMBO without cable goes dormant when its timer runs,
\* unless it is switched on or plugged in meanwhile.  Two cases are left out.  A
\* timeout while the battery is out of its safe region falls into a shutdown that
\* may be called off, and is not repeated.  And one that expires between ATTACHED
\* and DETACHED is dropped, the dark LED keeping headsetSmApplyLimboChargeLed from
\* starting the timer again.
LimboEnds ==
    (Quiet /\ s.hs = "LIMBO" /\ s.sys = "limbo" /\ ~s.cable /\ ~s.notified
        /\ "limbo" \in s.timers)
        ~> (~Awake \/ s.cable \/ s.sys # "limbo" \/ s.unsafe)

\* Switching off comes to its end once the topology is stopping or stopped.
PowerOffCompletes ==
    (s.sys = "powering_off" /\ s.topo \in {"STOPPING", "STOPPED"}) ~> (s.sys # "powering_off")

\* The power manager does not wait for its clients for ever.
ShutdownResolves == s.notified ~> (~s.notified \/ ~Awake)

\* A helmet that is on and at rest has its Bluetooth topology running or coming
\* up (power_on_table starts it).  The exception is a helmet switched on again
\* before its power-off has ended, which StereoTopology_Start ignores.
ActiveHasTopology ==
    (Quiet /\ s.sys = "active" /\ s.hs \in {"PAIRING", "IDLE", "BUSY"} /\ ~s.early)
        => s.topo \in {"STARTING", "STARTED"}
=============================================================================
