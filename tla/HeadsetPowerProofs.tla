------------------------- MODULE HeadsetPowerProofs -------------------------
(***************************************************************************)
(* Proofs about HeadsetPower, for every set of battery levels, every queue *)
(* bound and every world, with power prompts and without.  The handlers    *)
(* are operators on the record s.  Sane is the part of the inductive       *)
(* invariant that every operator preserves, Confirmed the part that is     *)
(* suspended while a confirmation is being handled; one lemma per operator *)
(* says that it preserves both, or that the chip goes dormant.             *)
(*                                                                         *)
(* The second half is about a helmet at rest.  Between a change and the    *)
(* handler that reacts to it a message is queued, so Sound says of every   *)
(* promise that it is kept or that the message that will keep it is in     *)
(* the queue, and in which order; with an empty queue it is kept.          *)
(***************************************************************************)
EXTENDS HeadsetPower, TLAPS

Fields == {"hs", "sys", "step", "topo", "q", "timers", "led", "cable"}

HasCfm(q) == \E i \in DOMAIN q : q[i] = "STOP_CFM"

\* The chip is awake, a lit charge LED excludes the limbo timer, no LED is noted
\* outside LIMBO, and a topology that is stopping has its timeout.
Sane(x) ==
    /\ Fields \subseteq DOMAIN x
    /\ x.q \in Seq(Messages)
    /\ x.sys # "powered_off"
    /\ x.hs # "LIMBO" => x.led = 0
    /\ (x.hs = "LIMBO" /\ x.led # 0) => "limbo" \notin x.timers
    /\ x.topo \in {"STOPPED", "STARTING", "STARTED", "STOPPING"}
    /\ x.topo = "STOPPING" => "topstop" \in x.timers

\* A transition that waits for the topology has its answer coming.
Confirmed(x) ==
    x.step = "stop" =>
        x.topo \in {"STOPPING", "STARTING", "STARTED"} \/ HasCfm(x.q)

\* y follows from x in a handler.
Follows(x, y) ==
    /\ Sane(y)
    /\ y.cable = x.cable
    /\ Confirmed(x) => Confirmed(y)

\* The chip has gone dormant: nothing is armed and no transition waits.
Asleep(x) ==
    /\ Fields \subseteq DOMAIN x
    /\ x.sys = "powered_off" /\ x.step = "none" /\ x.timers = {}

\* y follows from x, or is dormant with the cable out and the helmet off.
FollowsOrSleeps(x, y) ==
    Follows(x, y) \/ (Asleep(y) /\ ~x.cable /\ y.hs \notin HelmetOn)

-----------------------------------------------------------------------------
(* The queue. *)

\* A message added leaves a confirmation in the queue.
LEMMA AppendCfm ==
    ASSUME NEW q \in Seq(Messages), NEW m \in Messages
    PROVE  /\ Append(q, m) \in Seq(Messages)
           /\ HasCfm(q) => HasCfm(Append(q, m))
           /\ m = "STOP_CFM" => HasCfm(Append(q, m))
<1>1. /\ Append(q, m) \in Seq(Messages) /\ Len(Append(q, m)) = Len(q) + 1
      /\ \A i \in 1..Len(q) : Append(q, m)[i] = q[i]
      /\ Append(q, m)[Len(q) + 1] = m
  OBVIOUS
<1>2. DOMAIN q = 1..Len(q) /\ DOMAIN Append(q, m) = 1..(Len(q) + 1) /\ Len(q) \in Nat
  BY <1>1
<1>3. QED
  BY <1>1, <1>2 DEF HasCfm

\* Taking another message off the front leaves it there too.
LEMMA TailCfm ==
    ASSUME NEW q \in Seq(Messages), q # <<>>
    PROVE  /\ Tail(q) \in Seq(Messages) /\ Head(q) \in Messages
           /\ (HasCfm(q) /\ Head(q) # "STOP_CFM") => HasCfm(Tail(q))
<1>1. /\ Tail(q) \in Seq(Messages) /\ Len(Tail(q)) = Len(q) - 1 /\ Head(q) = q[1]
      /\ \A i \in 1..(Len(q) - 1) : Tail(q)[i] = q[i + 1]
      /\ Len(q) \in Nat /\ Len(q) > 0
      /\ DOMAIN Tail(q) = 1..(Len(q) - 1)
  OBVIOUS
<1>2. Head(q) \in Messages
  OBVIOUS
<1>3. ASSUME HasCfm(q), Head(q) # "STOP_CFM" PROVE HasCfm(Tail(q))
  <2>1. PICK i \in 1..Len(q) : q[i] = "STOP_CFM"
    BY <1>3 DEF HasCfm
  <2>2. i # 1
    BY <1>1, <1>3, <2>1
  <2>3. i - 1 \in 1..(Len(q) - 1) /\ Tail(q)[i - 1] = "STOP_CFM"
    BY <1>1, <2>1, <2>2
  <2>4. QED
    BY <1>1, <2>3, Zenon DEF HasCfm
<1>4. QED
  BY <1>1, <1>2, <1>3

\* Sending a message is a step of a handler.
LEMMA SendFollows ==
    ASSUME NEW x, Sane(x), NEW m \in Messages
    PROVE  /\ Follows(x, Send(x, m))
           /\ m = "STOP_CFM" => Confirmed(Send(x, m))
           /\ Send(x, m).hs = x.hs /\ Send(x, m).sys = x.sys /\ Send(x, m).step = x.step
<1> DEFINE y == Send(x, m)
<1>1. /\ Fields \subseteq DOMAIN y /\ y.q = Append(x.q, m)
      /\ y.hs = x.hs /\ y.sys = x.sys /\ y.step = x.step /\ y.topo = x.topo
      /\ y.timers = x.timers /\ y.led = x.led /\ y.cable = x.cable
  BY DEF Sane, Fields, Send
<1> HIDE DEF y
<1>2. /\ y.q \in Seq(Messages)
      /\ HasCfm(x.q) => HasCfm(y.q)
      /\ m = "STOP_CFM" => HasCfm(y.q)
  BY <1>1, AppendCfm DEF Sane
<1>3. Sane(y)
  BY <1>1, <1>2 DEF Sane
<1>4. QED
  BY <1>1, <1>2, <1>3 DEF Follows, Confirmed, y

\* One step of a handler after another is one.
LEMMA FollowsTrans ==
    ASSUME NEW x, NEW y, NEW z, Follows(x, y), Follows(y, z)
    PROVE  Follows(x, z)
  BY DEF Follows

\* A change of fields the proof does not look at is one.
LEMMA OtherFields ==
    ASSUME NEW x, Sane(x), NEW y, Fields \subseteq DOMAIN y,
           \A f \in Fields : y[f] = x[f]
    PROVE  Follows(x, y)
<1>1. /\ y.hs = x.hs /\ y.sys = x.sys /\ y.step = x.step /\ y.topo = x.topo
      /\ y.timers = x.timers /\ y.led = x.led /\ y.cable = x.cable /\ y.q = x.q
  BY DEF Fields
<1>2. QED
  BY <1>1 DEF Follows, Sane, Confirmed

\* Arming a timer other than the limbo timer, and that one while the LED is dark.
LEMMA ArmFollows ==
    ASSUME NEW x, Sane(x), NEW t, t = "limbo" => x.hs # "LIMBO" \/ x.led = 0
    PROVE  Follows(x, Arm(x, t))
<1> DEFINE y == Arm(x, t)
<1>1. /\ Fields \subseteq DOMAIN y /\ y.timers = x.timers \cup {t}
      /\ y.hs = x.hs /\ y.sys = x.sys /\ y.step = x.step /\ y.topo = x.topo
      /\ y.led = x.led /\ y.cable = x.cable /\ y.q = x.q
  BY DEF Sane, Fields, Arm
<1> HIDE DEF y
<1>2. Sane(y)
  BY <1>1 DEF Sane
<1>3. QED
  BY <1>1, <1>2 DEF Follows, Confirmed, y

\* Cancelling a timer other than the one of the topology.
LEMMA CancelFollows ==
    ASSUME NEW x, Sane(x), NEW t, t # "topstop"
    PROVE  Follows(x, CancelTimer(x, t)) /\ CancelTimer(x, t).hs = x.hs
           /\ CancelTimer(x, t).led = x.led
<1> DEFINE y == CancelTimer(x, t)
<1>1. /\ Fields \subseteq DOMAIN y /\ y.timers = x.timers \ {t}
      /\ y.hs = x.hs /\ y.sys = x.sys /\ y.step = x.step /\ y.topo = x.topo
      /\ y.led = x.led /\ y.cable = x.cable /\ y.q = x.q
  BY DEF Sane, Fields, CancelTimer
<1> HIDE DEF y
<1>2. Sane(y)
  BY <1>1 DEF Sane
<1>3. QED
  BY <1>1, <1>2 DEF Follows, Confirmed, y

-----------------------------------------------------------------------------
(* Topology, system state and power manager. *)

\* Starting the topology.
LEMMA TopologyStartFollows ==
    ASSUME NEW x, Sane(x)
    PROVE  Follows(x, TopologyStart(x)) /\ TopologyStart(x).hs = x.hs
           /\ TopologyStart(x).led = x.led /\ TopologyStart(x).step = x.step
<1> DEFINE y == [x EXCEPT !.topo = "STARTING"]
<1>1. CASE x.topo = "STOPPED"
  <2>1. /\ Fields \subseteq DOMAIN y /\ y.topo = "STARTING"
        /\ y.hs = x.hs /\ y.sys = x.sys /\ y.step = x.step /\ y.timers = x.timers
        /\ y.led = x.led /\ y.cable = x.cable /\ y.q = x.q
    BY DEF Sane, Fields
  <2> HIDE DEF y
  <2>2. Follows(x, y)
    BY <2>1 DEF Sane, Follows, Confirmed
  <2>3. Follows(y, Send(y, "START_GOAL")) /\ Send(y, "START_GOAL").hs = y.hs
        /\ Send(y, "START_GOAL").step = y.step
    BY <2>2, SendFollows DEF Follows, Messages
  <2>4. Send(y, "START_GOAL").led = y.led
    BY <2>1 DEF Send, Fields
  <2>5. TopologyStart(x) = Send(y, "START_GOAL")
    BY <1>1 DEF TopologyStart, y
  <2>6. QED
    BY <2>1, <2>2, <2>3, <2>4, <2>5, FollowsTrans
<1>2. CASE x.topo # "STOPPED"
  BY <1>2 DEF TopologyStart, Follows
<1>3. QED
  BY <1>1, <1>2

\* Stopping the topology answers the transition that asks for it.
LEMMA TopologyStopFollows ==
    ASSUME NEW x, Sane(x)
    PROVE  Follows(x, TopologyStop(x)) /\ Confirmed(TopologyStop(x))
           /\ TopologyStop(x).hs = x.hs
<1>1. CASE x.topo = "STARTED"
  <2> DEFINE y == [x EXCEPT !.topo = "STOPPING", !.stopping = TRUE]
             z == Arm(y, "topstop")
  <2>1. /\ Fields \subseteq DOMAIN z /\ z.topo = "STOPPING" /\ z.timers = x.timers \cup {"topstop"}
        /\ z.hs = x.hs /\ z.sys = x.sys /\ z.step = x.step
        /\ z.led = x.led /\ z.cable = x.cable /\ z.q = x.q
    BY DEF Sane, Fields, Arm
  <2>2. TopologyStop(x) = z
    BY <1>1 DEF TopologyStop
  <2> HIDE DEF z
  <2>3. Sane(z)
    BY <2>1 DEF Sane
  <2>4. QED
    BY <2>1, <2>2, <2>3 DEF Follows, Confirmed
<1>2. CASE x.topo = "STOPPED"
  <2>1. TopologyStop(x) = Send(x, "STOP_CFM")
    BY <1>2 DEF TopologyStop
  <2>2. QED
    BY <2>1, SendFollows DEF Messages
<1>3. CASE x.topo \in {"STARTING", "STOPPING"}
  <2>1. TopologyStop(x) = x
    BY <1>3 DEF TopologyStop
  <2>2. QED
    BY <1>3, <2>1 DEF Follows, Confirmed
<1>4. QED
  BY <1>1, <1>2, <1>3 DEF Sane

\* The confirmation of a stop is in the queue.
LEMMA SendStopCfmFollows ==
    ASSUME NEW x, Sane(x)
    PROVE  Follows(x, SendStopCfm(x)) /\ Confirmed(SendStopCfm(x))
<1> DEFINE y == CancelTimer([x EXCEPT !.topo = "STOPPED"], "topstop")
<1>1. /\ Fields \subseteq DOMAIN y /\ y.topo = "STOPPED" /\ y.timers = x.timers \ {"topstop"}
      /\ y.hs = x.hs /\ y.sys = x.sys /\ y.step = x.step
      /\ y.led = x.led /\ y.cable = x.cable /\ y.q = x.q
  BY DEF Sane, Fields, CancelTimer
<1>2. SendStopCfm(x) = Send(y, "STOP_CFM")
  BY DEF SendStopCfm
<1> HIDE DEF y
<1>3. Sane(y)
  BY <1>1 DEF Sane
<1>4. Follows(y, Send(y, "STOP_CFM")) /\ Confirmed(Send(y, "STOP_CFM"))
  BY <1>3, SendFollows DEF Messages
<1>5. QED
  BY <1>1, <1>2, <1>4 DEF Follows

\* A change of the system state other than to powered_off.
LEMMA SystemSetStateFollows ==
    ASSUME NEW x, Sane(x), NEW new, new # "powered_off"
    PROVE  LET y == SystemSetState(x, new)
           IN  /\ Follows(x, y) /\ y.hs = x.hs /\ y.step = x.step /\ y.topo = x.topo
               /\ y.sys = new
<1> DEFINE y == SystemSetState(x, new)
<1>3. \E c \in {<<>>, <<"TO_LIMBO">>, <<"TO_POWERING_ON">>, <<"TO_ACTIVE">>,
                <<"TO_POWERING_OFF">>} : y = [x EXCEPT !.sys = new, !.q = @ \o c]
  BY Zenon DEF SystemSetState
<1>4. PICK c \in {<<>>, <<"TO_LIMBO">>, <<"TO_POWERING_ON">>, <<"TO_ACTIVE">>,
                  <<"TO_POWERING_OFF">>} : y = [x EXCEPT !.sys = new, !.q = @ \o c]
  BY <1>3, Zenon
<1> HIDE DEF y
<1>5. /\ Fields \subseteq DOMAIN y /\ y.sys = new /\ y.q = x.q \o c
      /\ y.hs = x.hs /\ y.step = x.step /\ y.topo = x.topo /\ y.timers = x.timers
      /\ y.led = x.led /\ y.cable = x.cable
  BY <1>4 DEF Sane, Fields
<1>6. y.q \in Seq(Messages) /\ (HasCfm(x.q) => HasCfm(y.q))
  <2>1. CASE c = <<>>
    <3>1. x.q \o <<>> = x.q
      BY DEF Sane
    <3>2. QED
      BY <1>5, <2>1, <3>1 DEF Sane
  <2>2. ASSUME NEW m \in Messages, c = <<m>>
        PROVE  y.q \in Seq(Messages) /\ (HasCfm(x.q) => HasCfm(y.q))
    <3>1. x.q \o <<m>> = Append(x.q, m)
      BY DEF Sane
    <3>2. QED
      BY <1>5, <2>2, <3>1, AppendCfm, Zenon DEF Sane
  <2>3. QED
    BY <1>4, <2>1, <2>2 DEF Messages, Changes
<1>7. QED
  BY <1>5, <1>6 DEF Sane, Follows, Confirmed, y

\* A transition that no longer waits.
LEMMA StepFollows ==
    ASSUME NEW x, Sane(x), NEW step
    PROVE  LET y == [x EXCEPT !.step = step]
           IN  /\ Sane(y) /\ y.cable = x.cable /\ y.hs = x.hs /\ y.step = step
               /\ step # "stop" => Follows(x, y) /\ Confirmed(y)
<1> DEFINE y == [x EXCEPT !.step = step]
<1>1. /\ Fields \subseteq DOMAIN y /\ y.step = step
      /\ y.hs = x.hs /\ y.sys = x.sys /\ y.topo = x.topo /\ y.timers = x.timers
      /\ y.led = x.led /\ y.cable = x.cable /\ y.q = x.q
  BY DEF Sane, Fields
<1> HIDE DEF y
<1>2. Sane(y)
  BY <1>1 DEF Sane
<1>3. QED
  BY <1>1, <1>2 DEF Follows, Confirmed, y

\* The rest of power_on_table.
LEMMA FinishPowerOnFollows ==
    ASSUME NEW x, Sane(x)
    PROVE  Follows(x, FinishPowerOn(x))
<1> DEFINE y == [x EXCEPT !.step = "none"]
           z == TopologyStart(y)
<1>1. Follows(x, y)
  BY StepFollows
<1> HIDE DEF y
<1>2. Follows(y, z)
  BY <1>1, TopologyStartFollows DEF Follows
<1> HIDE DEF z
<1>3. Follows(z, SystemSetState(z, "active"))
  BY <1>2, SystemSetStateFollows DEF Follows
<1>4. FinishPowerOn(x) = SystemSetState(z, "active")
  BY DEF FinishPowerOn, z, y
<1>5. QED
  BY <1>1, <1>2, <1>3, <1>4, FollowsTrans

\* SystemState_PowerOn.
LEMMA PowerOnFollows ==
    ASSUME NEW x, Sane(x)
    PROVE  Follows(x, SystemPowerOn(x))
<1> DEFINE a == SystemSetState(x, "powering_on")
           on == [a EXCEPT !.early = x.sys = "powering_off"]
<1>1. Follows(x, a)
  BY SystemSetStateFollows
<1>2. \/ SystemPowerOn(x) = x
      \/ SystemPowerOn(x) = [on EXCEPT !.step = "prompt"]
      \/ SystemPowerOn(x) = FinishPowerOn(on)
  BY DEF SystemPowerOn
<1> HIDE DEF a
<1>3. Fields \subseteq DOMAIN on /\ \A f \in Fields : on[f] = a[f]
  BY <1>1 DEF Follows, Sane, Fields
<1>4. Follows(a, on)
  BY <1>1, <1>3, OtherFields DEF Follows
<1> HIDE DEF on
<1>5. Follows(on, [on EXCEPT !.step = "prompt"]) /\ Follows(on, FinishPowerOn(on))
  BY <1>4, StepFollows, FinishPowerOnFollows DEF Follows
<1>6. Follows(x, x)
  BY DEF Follows
<1>7. QED
  BY <1>1, <1>2, <1>4, <1>5, <1>6, FollowsTrans

\* SystemState_PowerOff.
LEMMA PowerOffFollows ==
    ASSUME NEW x, Sane(x)
    PROVE  Follows(x, SystemPowerOff(x))
<1> DEFINE a == SystemSetState(x, "powering_off")
           b == [a EXCEPT !.step = "stop", !.early = FALSE]
<1>1. Follows(x, a)
  BY SystemSetStateFollows
<1>2. SystemPowerOff(x) = x \/ SystemPowerOff(x) = TopologyStop(b)
  BY DEF SystemPowerOff
<1> HIDE DEF a
<1>3. /\ Fields \subseteq DOMAIN b
      /\ b.hs = a.hs /\ b.sys = a.sys /\ b.topo = a.topo /\ b.timers = a.timers
      /\ b.led = a.led /\ b.cable = a.cable /\ b.q = a.q
  BY <1>1 DEF Follows, Sane, Fields
<1> HIDE DEF b
<1>4. Sane(b) /\ b.cable = x.cable
  BY <1>1, <1>3 DEF Follows, Sane
<1>5. Follows(x, TopologyStop(b))
  BY <1>4, TopologyStopFollows DEF Follows
<1>6. QED
  BY <1>2, <1>5 DEF Follows

\* Telling the clients of the power manager.
LEMMA NotifyFollows ==
    ASSUME NEW x, Sane(x)
    PROVE  Follows(x, NotifyClients(x))
<1> DEFINE y == [x EXCEPT !.notified = TRUE]
<1>1. Fields \subseteq DOMAIN y /\ \A f \in Fields : y[f] = x[f]
  BY DEF Sane, Fields
<1>2. NotifyClients(x) = Send(y, "PREPARE")
  BY DEF NotifyClients
<1> HIDE DEF y
<1>3. Follows(x, y)
  BY <1>1, OtherFields
<1>4. Follows(y, Send(y, "PREPARE"))
  BY <1>3, SendFollows DEF Follows, Messages
<1>5. QED
  BY <1>2, <1>3, <1>4, FollowsTrans

\* A request to power off, and an event that may ask for it.
LEMMA PowerRequestFollows ==
    ASSUME NEW x, Sane(x)
    PROVE  Follows(x, appPowerOffRequest(x)) /\ Follows(x, appPowerHandlePowerEvent(x))
<1> DEFINE y == [x EXCEPT !.user = TRUE]
<1>1. Fields \subseteq DOMAIN y /\ \A f \in Fields : y[f] = x[f]
  BY DEF Sane, Fields
<1>2. appPowerOffRequest(x) = x \/ appPowerOffRequest(x) = NotifyClients(y)
  BY DEF appPowerOffRequest
<1> HIDE DEF y
<1>3. Follows(x, y)
  BY <1>1, OtherFields
<1>4. Follows(y, NotifyClients(y)) /\ Follows(x, NotifyClients(x)) /\ Follows(x, x)
  BY <1>3, NotifyFollows DEF Follows
<1>5. appPowerHandlePowerEvent(x) = x \/ appPowerHandlePowerEvent(x) = NotifyClients(x)
  BY DEF appPowerHandlePowerEvent
<1>6. QED
  BY <1>2, <1>3, <1>4, <1>5, FollowsTrans

\* The last response: the shutdown is called off, or the chip goes dormant, then
\* with the cable out.
LEMMA ResponseFollows ==
    ASSUME NEW x, Sane(x), x.hs \notin HelmetOn
    PROVE  FollowsOrSleeps(x, appPowerShutdownPrepareResponse(x))
<1> DEFINE y == [x EXCEPT !.notified = FALSE, !.user = FALSE]
           d == Dormant(x)
<1>1. Fields \subseteq DOMAIN y /\ \A f \in Fields : y[f] = x[f]
  BY DEF Sane, Fields
<1>2. \/ appPowerShutdownPrepareResponse(x) = y
      \/ appPowerShutdownPrepareResponse(x) = d /\ ~x.cable
  BY DEF appPowerShutdownPrepareResponse, NeedsToPowerOff, CanPowerOff
<1> HIDE DEF y
<1>3. Follows(x, y)
  BY <1>1, OtherFields
<1>4. Asleep(d) /\ d.hs = x.hs
  BY DEF Dormant, Asleep, Sane, Fields
<1>5. QED
  BY <1>2, <1>3, <1>4 DEF FollowsOrSleeps

-----------------------------------------------------------------------------
(* The headset state machine. *)

\* What the charge indication writes besides the LED.
LEMMA LimboChargeFollows ==
    ASSUME NEW x, Sane(x)
    PROVE  Follows(x, LimboCharge(x)) /\ \A f \in Fields : LimboCharge(x)[f] = x[f]
<1> DEFINE t == IF x.soc >= 99 /\ x.event \in {"CHARGING", "ATTACHED"}
                THEN [x EXCEPT !.charged = TRUE, !.event = "DISABLED"] ELSE x
           y == LimboCharge(x)
<1>1. Fields \subseteq DOMAIN t /\ \A f \in Fields : t[f] = x[f]
  BY DEF Sane, Fields
<1>2. \/ y = [t EXCEPT !.charged = FALSE, !.high = FALSE]
      \/ y = [t EXCEPT !.high = TRUE]
      \/ y = [t EXCEPT !.high = (t.soc >= 95) \/ (@ /\ t.soc > 92)]
      \/ y = t
      \/ y = [t EXCEPT !.high = FALSE]
  BY DEF LimboCharge
<1> HIDE DEF t, y
<1>3. Fields \subseteq DOMAIN y /\ \A f \in Fields : y[f] = t[f]
  BY <1>1, <1>2, ZenonT(40) DEF Fields
<1>4. QED
  BY <1>1, <1>3, OtherFields DEF y

\* headsetSmApplyLimboChargeLed: a colour stops the limbo timer, a dark LED starts it.
LEMMA ApplyLedFollows ==
    ASSUME NEW x, Sane(x)
    PROVE  Follows(x, ApplyLimboChargeLed(x))
<1> DEFINE t == LimboCharge(x)
           choice == LimboChoice(t)
           lit == [t EXCEPT !.led = choice]
           y == ApplyLimboChargeLed(x)
<1>1. Follows(x, t) /\ t.hs = x.hs
  BY LimboChargeFollows DEF Fields
<1>2. choice \in 0..3
  BY DEF LimboChoice
<1>3. \/ y = x
      \/ y = t
      \/ x.hs = "LIMBO" /\ y = CancelTimer(lit, "limbo")
      \/ y = Arm(lit, "limbo") /\ choice = 0
  BY <1>2 DEF ApplyLimboChargeLed
<1> HIDE DEF t, choice, y
<1>4. /\ Fields \subseteq DOMAIN lit /\ lit.led = choice
      /\ lit.hs = t.hs /\ lit.sys = t.sys /\ lit.step = t.step /\ lit.topo = t.topo
      /\ lit.timers = t.timers /\ lit.cable = t.cable /\ lit.q = t.q
  BY <1>1 DEF Follows, Sane, Fields
<1> HIDE DEF lit
<1>5. CASE x.hs = "LIMBO" /\ y = CancelTimer(lit, "limbo")
  <2>1. /\ Fields \subseteq DOMAIN y /\ y.timers = t.timers \ {"limbo"} /\ y.hs = "LIMBO"
        /\ y.sys = t.sys /\ y.step = t.step /\ y.topo = t.topo
        /\ y.cable = t.cable /\ y.q = t.q
    BY <1>1, <1>4, <1>5 DEF CancelTimer, Fields
  <2>2. Follows(t, y)
    BY <1>1, <2>1 DEF Follows, Sane, Confirmed
  <2>3. QED
    BY <1>1, <2>2, FollowsTrans DEF y
<1>6. CASE y = Arm(lit, "limbo") /\ choice = 0
  <2>1. Follows(t, lit)
    BY <1>1, <1>4, <1>6 DEF Follows, Sane, Confirmed
  <2>2. Follows(lit, y)
    BY <1>4, <1>6, <2>1, ArmFollows DEF Follows
  <2>3. QED
    BY <1>1, <2>1, <2>2, FollowsTrans DEF y
<1>7. QED
  BY <1>1, <1>3, <1>5, <1>6 DEF Follows, y

\* headsetSmStartIdleTimer.
LEMMA StartIdleTimerFollows ==
    ASSUME NEW x, Sane(x), NEW br
    PROVE  Follows(x, StartIdleTimer(x, br))
  BY ArmFollows DEF StartIdleTimer, Follows

\* Leaving a state puts the charge LED out.
LEMMA ExitStateFollows ==
    ASSUME NEW x, Sane(x)
    PROVE  Follows(x, ExitState(x)) /\ ExitState(x).led = 0
<1> DEFINE y == [x EXCEPT !.led = 0]
<1>1. CASE x.hs = "LIMBO"
  <2>1. /\ Fields \subseteq DOMAIN y /\ y.led = 0
        /\ y.hs = x.hs /\ y.sys = x.sys /\ y.step = x.step /\ y.topo = x.topo
        /\ y.timers = x.timers /\ y.cable = x.cable /\ y.q = x.q
    BY DEF Sane, Fields
  <2>2. ExitState(x) = CancelTimer(y, "limbo")
    BY <1>1 DEF ExitState
  <2> HIDE DEF y
  <2>3. Follows(x, y)
    BY <2>1 DEF Follows, Sane, Confirmed
  <2>4. Follows(y, CancelTimer(y, "limbo")) /\ CancelTimer(y, "limbo").led = 0
    BY <2>1, <2>3, CancelFollows DEF Follows
  <2>5. QED
    BY <2>2, <2>3, <2>4, FollowsTrans
<1>2. CASE x.hs # "LIMBO"
  <2>1. ExitState(x) \in {x, CancelTimer(x, "idle"), TopologyStart(x)}
    BY <1>2 DEF ExitState
  <2>2. x.led = 0
    BY <1>2 DEF Sane
  <2>3. /\ Follows(x, x)
        /\ Follows(x, CancelTimer(x, "idle")) /\ CancelTimer(x, "idle").led = 0
        /\ Follows(x, TopologyStart(x)) /\ TopologyStart(x).led = 0
    BY <2>2, CancelFollows, TopologyStartFollows DEF Follows
  <2>4. QED
    BY <2>1, <2>2, <2>3
<1>3. QED
  BY <1>1, <1>2

\* headsetSetState.  TERMINATING answers the power manager, which may put the
\* chip to sleep; no other state does.
LEMMA SetStateFollows ==
    ASSUME NEW x, Sane(x), NEW new
    PROVE  /\ FollowsOrSleeps(x, SetState(x, new))
           /\ new # "TERMINATING" => Follows(x, SetState(x, new))
<1> DEFINE e == ExitState(x)
           t == [e EXCEPT !.hs = new]
           y == SetState(x, new)
<1>1. Follows(x, e) /\ e.led = 0
  BY ExitStateFollows
<1>2. /\ new = "TERMINATING" => y = appPowerShutdownPrepareResponse(t)
      /\ new # "TERMINATING" =>
            y \in {t, ApplyLimboChargeLed(Arm(t, "limbo")), StartIdleTimer(t, online)}
  BY DEF SetState
<1> HIDE DEF e, y
<1>3. /\ Fields \subseteq DOMAIN t /\ t.hs = new
      /\ t.led = e.led /\ t.sys = e.sys /\ t.step = e.step /\ t.topo = e.topo
      /\ t.timers = e.timers /\ t.cable = e.cable /\ t.q = e.q
  BY <1>1 DEF Follows, Sane, Fields
<1> HIDE DEF t
<1>4. Follows(e, t) /\ t.led = 0
  BY <1>1, <1>3 DEF Follows, Sane, Confirmed
<1>5. Follows(x, t) /\ Sane(t) /\ t.cable = x.cable
  BY <1>1, <1>4, FollowsTrans DEF Follows
<1>6. Follows(t, Arm(t, "limbo"))
  BY <1>4, <1>5, ArmFollows
<1>7. Follows(Arm(t, "limbo"), ApplyLimboChargeLed(Arm(t, "limbo")))
  BY <1>6, ApplyLedFollows DEF Follows
<1>8. Follows(t, StartIdleTimer(t, online))
  BY <1>5, StartIdleTimerFollows
<1>9. CASE new = "TERMINATING"
  <2>1. FollowsOrSleeps(t, y)
    BY <1>2, <1>3, <1>5, <1>9, ResponseFollows DEF HelmetOn
  <2>2. QED
    BY <1>5, <1>9, <2>1, FollowsTrans DEF FollowsOrSleeps, y
<1>10. CASE new # "TERMINATING"
  <2>1. Follows(x, y)
    BY <1>2, <1>5, <1>6, <1>7, <1>8, <1>10, FollowsTrans
  <2>2. QED
    BY <2>1 DEF FollowsOrSleeps, y
<1>11. QED
  BY <1>9, <1>10

\* A change of the system state, as the headset handles it.
LEMMA StateChangeFollows ==
    ASSUME NEW x, Sane(x), NEW m \in Changes
    PROVE  Follows(x, HandleStateChange(x, m))
<1>1. \E new : new # "TERMINATING" /\ HandleStateChange(x, m) = SetState(x, new)
  BY DEF HandleStateChange, Changes
<1>2. QED
  BY <1>1, SetStateFollows

\* A message of the charger monitor.
LEMMA ChargerFollows ==
    ASSUME NEW x, Sane(x), NEW m
    PROVE  Follows(x, HandleChargerMessage(x, m))
<1> DEFINE p == IF m \in {"ATTACHED", "DETACHED", "COMPLETED"} THEN appPowerHandlePowerEvent(x)
                ELSE x
           t == IF m \in {"ATTACHED", "CHARGING"} /\ p.hs = "POWERING_OFF"
                THEN SetState(p, "LIMBO") ELSE p
           e == [t EXCEPT !.event = m]
<1>1. Follows(x, p)
  BY PowerRequestFollows DEF Follows
<1>2. HandleChargerMessage(x, m) = ApplyLimboChargeLed(e)
  BY DEF HandleChargerMessage
<1> HIDE DEF p
<1>3. Follows(p, t)
  BY <1>1, SetStateFollows DEF Follows
<1> HIDE DEF t
<1>4. Fields \subseteq DOMAIN e /\ \A f \in Fields : e[f] = t[f]
  BY <1>3 DEF Follows, Sane, Fields
<1> HIDE DEF e
<1>5. Follows(t, e)
  BY <1>3, <1>4, OtherFields DEF Follows
<1>6. Follows(e, ApplyLimboChargeLed(e))
  BY <1>5, ApplyLedFollows DEF Follows
<1>7. QED
  BY <1>1, <1>2, <1>3, <1>5, <1>6, FollowsTrans

\* The confirmation the transition awaits ends it.
LEMMA StopCfmFollows ==
    ASSUME NEW x, Sane(x)
    PROVE  Follows(x, HandleStopCfm(x)) /\ Confirmed(HandleStopCfm(x))
<1> DEFINE l == SetState(x, "LIMBO")
           t == IF x.hs = "POWERING_OFF" THEN appPowerOffRequest(l) ELSE x
           n == [t EXCEPT !.step = "none"]
<1>1. Follows(x, l)
  BY SetStateFollows
<1>2. HandleStopCfm(x) = SystemSetState(n, "limbo")
  BY DEF HandleStopCfm
<1> HIDE DEF l
<1>3. Follows(x, t)
  BY <1>1, PowerRequestFollows, FollowsTrans DEF Follows
<1> HIDE DEF t
<1>4. Follows(t, n) /\ n.step = "none"
  BY <1>3, StepFollows DEF Follows
<1> HIDE DEF n
<1>5. Follows(n, SystemSetState(n, "limbo")) /\ SystemSetState(n, "limbo").step = "none"
  BY <1>4, SystemSetStateFollows DEF Follows
<1>6. QED
  BY <1>2, <1>3, <1>4, <1>5, FollowsTrans DEF Confirmed

\* APP_POWER_SHUTDOWN_PREPARE_IND: in every state the headset answers.
LEMMA PrepareFollows ==
    ASSUME NEW x, Sane(x)
    PROVE  FollowsOrSleeps(x, HandlePrepareInd(x))
<1>1. CASE x.hs = "LIMBO"
  BY <1>1, ResponseFollows DEF HandlePrepareInd, HelmetOn
<1>2. CASE x.hs # "LIMBO"
  BY <1>2, SetStateFollows DEF HandlePrepareInd
<1>3. QED
  BY <1>1, <1>2

\* Any message other than the confirmation.
LEMMA HandleFollows ==
    ASSUME NEW x, Sane(x), NEW m \in Messages, m # "STOP_CFM"
    PROVE  FollowsOrSleeps(x, Handle(x, m))
<1> DEFINE y == Handle(x, m)
<1>0. Follows(x, x)
  BY DEF Follows
<1>1. CASE m \in Changes
  <2>1. y = HandleStateChange(x, m)
    BY <1>1 DEF Handle, Changes, ChargerEvents
  <2>2. QED
    BY <1>1, <2>1, StateChangeFollows DEF FollowsOrSleeps
<1>2. CASE m \in ChargerEvents
  <2>1. y = HandleChargerMessage(x, m)
    BY <1>2 DEF Handle, Changes, ChargerEvents
  <2>2. QED
    BY <2>1, ChargerFollows DEF FollowsOrSleeps
<1>3. CASE m = "SOC" \/ m = "REGION"
  <2>1. y = ApplyLimboChargeLed(x) \/ y = appPowerHandlePowerEvent(x)
    BY <1>3, Zenon DEF Handle, Changes, ChargerEvents
  <2>2. QED
    BY <2>1, ApplyLedFollows, PowerRequestFollows DEF FollowsOrSleeps
<1>4. CASE m = "PREPARE"
  <2>1. y = HandlePrepareInd(x)
    BY <1>4 DEF Handle, Changes, ChargerEvents
  <2>2. QED
    BY <2>1, PrepareFollows
<1>5. CASE m = "UI_ON" \/ m = "POWER_OFF"
  <2>1. y \in {x, SystemPowerOn(x), SystemPowerOff(x)}
    BY <1>5 DEF Handle, Changes, ChargerEvents
  <2>2. QED
    BY <1>0, <2>1, PowerOnFollows, PowerOffFollows DEF FollowsOrSleeps
<1>6. CASE m \in {"UI_OFF", "UI_PAIR", "START_GOAL"}
  <2>1. y \in {x, Send(x, "POWER_OFF"), Send(x, "PAIR_HANDSET"), Send(x, "STARTED")}
    BY <1>6 DEF Handle, Changes, ChargerEvents
  <2>2. /\ Follows(x, Send(x, "POWER_OFF")) /\ Follows(x, Send(x, "PAIR_HANDSET"))
        /\ Follows(x, Send(x, "STARTED"))
    BY SendFollows DEF Messages
  <2>3. QED
    BY <1>0, <2>1, <2>2 DEF FollowsOrSleeps
<1>7. CASE m \in {"PAIR_HANDSET", "PAIR_CFM", "AUDIO"}
  <2>1. y = x \/ \E new : new # "TERMINATING" /\ y = SetState(x, new)
    BY <1>7 DEF Handle, Changes, ChargerEvents, DetermineCoreState
  <2>2. QED
    BY <1>0, <2>1, SetStateFollows DEF FollowsOrSleeps
<1>8. CASE m \in {"CONNECTED", "DISCONNECTED"}
  <2>1. y \in {x, CancelTimer(x, "idle"), StartIdleTimer(x, online)}
    BY <1>8 DEF Handle, Changes, ChargerEvents
  <2>2. QED
    BY <1>0, <2>1, CancelFollows, StartIdleTimerFollows DEF FollowsOrSleeps
<1>9. CASE m = "STARTED"
  <2>1. y = [x EXCEPT !.topo = "STARTED"]
    BY <1>9 DEF Handle, Changes, ChargerEvents
  <2>2. /\ Fields \subseteq DOMAIN y /\ y.topo = "STARTED"
        /\ y.hs = x.hs /\ y.sys = x.sys /\ y.step = x.step /\ y.timers = x.timers
        /\ y.led = x.led /\ y.cable = x.cable /\ y.q = x.q
    BY <2>1 DEF Sane, Fields
  <2> HIDE DEF y
  <2>3. Follows(x, y)
    BY <2>2 DEF Follows, Sane, Confirmed
  <2>4. QED
    BY <2>3 DEF FollowsOrSleeps, y
<1>10. QED
  BY <1>1, <1>2, <1>3, <1>4, <1>5, <1>6, <1>7, <1>8, <1>9 DEF Messages

\* The confirmation itself, awaited or not.
LEMMA HandleCfmFollows ==
    ASSUME NEW x, Sane(x)
    PROVE  LET y == Handle(x, "STOP_CFM") IN Follows(x, y) /\ Confirmed(y)
<1>1. Handle(x, "STOP_CFM") = IF x.step = "stop" THEN HandleStopCfm(x) ELSE x
  BY DEF Handle, Changes, ChargerEvents
<1>2. QED
  BY <1>1, StopCfmFollows DEF Follows, Confirmed

-----------------------------------------------------------------------------
(* The steps. *)

Good(x) == Sane(x) /\ Confirmed(x)

IInv == Good(s) \/ Asleep(s)

\* What every step does to IInv, and when it may end dormant.
StepKeeps ==
    /\ IInv'
    /\ (Awake /\ s'.sys = "powered_off") => ~s.cable /\ phase' = "off"

\* A chip that is awake satisfies the part of the invariant for it.
LEMMA AwakeGood ==
    ASSUME IInv
    PROVE  /\ (Awake \/ s.step # "none" \/ s.timers # {}) => Good(s)
           /\ Good(s) => Awake
  BY DEF IInv, Good, Asleep, Sane, Awake

\* A step that keeps the chip awake.
LEMMA GoodStep ==
    ASSUME Good(s) \/ Asleep(s), Good(s')
    PROVE  StepKeeps
  BY DEF StepKeeps, IInv, Good, Sane

\* A message is put in the queue while fields the proof does not look at change.
LEMMA SendGood ==
    ASSUME NEW x, Good(x), NEW y, Fields \subseteq DOMAIN y,
           \A f \in Fields \ {"cable"} : y[f] = x[f],
           NEW m \in Messages
    PROVE  Good(y) /\ Good(Send(y, m))
<1>1. /\ y.hs = x.hs /\ y.sys = x.sys /\ y.step = x.step /\ y.topo = x.topo
      /\ y.timers = x.timers /\ y.led = x.led /\ y.q = x.q
  BY DEF Fields
<1>2. Good(y)
  BY <1>1 DEF Good, Sane, Confirmed
<1>3. QED
  BY <1>2, SendFollows DEF Good, Follows

\* Delivering a message.
LEMMA DeliverKeeps ==
    ASSUME IInv, Deliver
    PROVE  StepKeeps
<1> DEFINE x == [s EXCEPT !.q = Tail(@)]
           m == Head(s.q)
<1>1. Good(s) /\ Awake
  BY AwakeGood DEF Deliver
<1>2. /\ Fields \subseteq DOMAIN x /\ x.q = Tail(s.q)
      /\ x.hs = s.hs /\ x.sys = s.sys /\ x.step = s.step /\ x.topo = s.topo
      /\ x.timers = s.timers /\ x.led = s.led /\ x.cable = s.cable
  BY <1>1 DEF Good, Sane, Fields
<1>3. Tail(s.q) \in Seq(Messages) /\ m \in Messages
      /\ ((HasCfm(s.q) /\ m # "STOP_CFM") => HasCfm(Tail(s.q)))
  BY <1>1, TailCfm DEF Good, Sane, Deliver
<1>4. s' = Handle(x, m) /\ HelmetFollows
  BY DEF Deliver
<1> HIDE DEF x, m
<1>5. Sane(x) /\ (m # "STOP_CFM" => Confirmed(x))
  BY <1>1, <1>2, <1>3 DEF Good, Sane, Confirmed
<1>6. Good(s') \/ (Asleep(s') /\ ~s.cable /\ s'.hs \notin HelmetOn)
  <2>1. CASE m = "STOP_CFM"
    BY <1>4, <1>5, <2>1, HandleCfmFollows DEF Follows, Good
  <2>2. CASE m # "STOP_CFM"
    BY <1>2, <1>3, <1>4, <1>5, <2>2, HandleFollows DEF FollowsOrSleeps, Follows, Good
  <2>3. QED
    BY <2>1, <2>2
<1>7. s'.hs \notin HelmetOn => phase' = "off"
  BY <1>4 DEF HelmetFollows, Link!PowerDown, Link!PowerUp
<1>8. QED
  BY <1>6, <1>7 DEF StepKeeps, IInv, Good, Sane

\* A prompt ends or a timer expires.
LEMMA TimersKeep ==
    ASSUME IInv, PromptPlayed \/ TimeoutIdle \/ TimeoutLimbo \/ TimeoutTopologyStop
    PROVE  StepKeeps
<1>1. Good(s)
  BY AwakeGood DEF PromptPlayed, TimeoutIdle, TimeoutLimbo, TimeoutTopologyStop
<1>2. Sane(s) /\ Confirmed(s) /\ Follows(s, s)
  BY <1>1 DEF Good, Follows
<1>3. CASE PromptPlayed
  BY <1>2, <1>3, FinishPowerOnFollows, GoodStep DEF PromptPlayed, Follows, Good
<1>4. CASE TimeoutIdle
  <2> DEFINE c == CancelTimer(s, "idle")
  <2>1. Follows(s, c)
    BY <1>2, CancelFollows
  <2>2. s' \in {s, c, Send(c, "POWER_OFF")}
    BY <1>4 DEF TimeoutIdle
  <2> HIDE DEF c
  <2>3. Follows(c, Send(c, "POWER_OFF"))
    BY <2>1, SendFollows DEF Follows, Messages
  <2>4. QED
    BY <1>2, <2>1, <2>2, <2>3, GoodStep DEF Follows, Good
<1>5. CASE TimeoutLimbo
  <2> DEFINE c == CancelTimer(s, "limbo")
  <2>1. Follows(s, c)
    BY <1>2, CancelFollows
  <2>2. s' \in {c, appPowerOffRequest(c)}
    BY <1>5 DEF TimeoutLimbo
  <2> HIDE DEF c
  <2>3. Follows(c, appPowerOffRequest(c))
    BY <2>1, PowerRequestFollows DEF Follows
  <2>4. QED
    BY <1>2, <2>1, <2>2, <2>3, GoodStep DEF Follows, Good
<1>6. CASE TimeoutTopologyStop
  BY <1>2, <1>6, SendStopCfmFollows, GoodStep DEF TimeoutTopologyStop, Follows, Good
<1>7. QED
  BY <1>3, <1>4, <1>5, <1>6

\* The stop goal ends.
LEMMA StopGoalKeeps ==
    ASSUME IInv, StopGoalDone
    PROVE  StepKeeps
<1> DEFINE r == [s EXCEPT !.stopping = FALSE]
<1>1. Good(s)
  BY AwakeGood DEF StopGoalDone
<1>2. Fields \subseteq DOMAIN r /\ \A f \in Fields : r[f] = s[f]
  BY <1>1 DEF Good, Sane, Fields
<1>3. s' \in {r, SendStopCfm(r), Send(r, "STARTED")}
  BY DEF StopGoalDone
<1> HIDE DEF r
<1>4. Good(r) /\ Good(Send(r, "STARTED"))
  BY <1>1, <1>2, SendGood DEF Messages
<1>5. Good(SendStopCfm(r))
  BY <1>4, SendStopCfmFollows DEF Good, Follows
<1>6. QED
  BY <1>1, <1>3, <1>4, <1>5, GoodStep

\* Everything that comes from outside only queues a message.
LEMMA OutsideKeeps ==
    ASSUME IInv,
           \/ Button \/ Cable \/ ChargerStatus \/ SocChange \/ RegionChange
           \/ HandsetConnects \/ Audio \/ HandsetDisconnects \/ PairingEnds
    PROVE  StepKeeps
<1>1. Good(s)
  BY AwakeGood DEF Button, Cable, ChargerStatus, SocChange, RegionChange, HandsetConnects,
                   Audio, HandsetDisconnects, PairingEnds, Outside
<1>2. SUFFICES Good(s')
  BY <1>1, GoodStep
<1>3. Fields \subseteq DOMAIN s
  BY <1>1 DEF Good, Sane
<1>4. CASE Button
  <2>1. \E m \in Messages : s' = Send(s, m)
    BY <1>4 DEF Button, Messages
  <2>2. QED
    BY <1>1, <1>3, <2>1, SendGood
<1>5. CASE Cable
  <2> DEFINE y == [s EXCEPT !.cable = ~@]
  <2>1. \E m \in Messages : s' = Send(y, m)
    BY <1>5 DEF Cable, Messages, ChargerEvents
  <2>2. Fields \subseteq DOMAIN y /\ \A f \in Fields \ {"cable"} : y[f] = s[f]
    BY <1>3 DEF Fields
  <2> HIDE DEF y
  <2>3. QED
    BY <1>1, <2>1, <2>2, SendGood
<1>6. CASE ChargerStatus
  <2>1. PICK status : s' = Send([s EXCEPT !.status = status], StatusMessageId(status))
    BY <1>6 DEF ChargerStatus
  <2> DEFINE y == [s EXCEPT !.status = status]
  <2>2. Fields \subseteq DOMAIN y /\ \A f \in Fields \ {"cable"} : y[f] = s[f]
    BY <1>3 DEF Fields
  <2>3. StatusMessageId(status) \in Messages
    BY DEF StatusMessageId, Messages, ChargerEvents
  <2> HIDE DEF y
  <2>4. QED
    BY <1>1, <2>1, <2>2, <2>3, SendGood DEF y
<1>7. CASE SocChange
  <2>1. PICK soc : s' = Send([s EXCEPT !.soc = soc], "SOC")
    BY <1>7, Zenon DEF SocChange
  <2> DEFINE y == [s EXCEPT !.soc = soc]
  <2>2. Fields \subseteq DOMAIN y /\ \A f \in Fields \ {"cable"} : y[f] = s[f]
    BY <1>3 DEF Fields
  <2> HIDE DEF y
  <2>3. QED
    BY <1>1, <2>1, <2>2, SendGood DEF y, Messages
<1>8. CASE RegionChange
  <2> DEFINE y == [s EXCEPT !.unsafe = ~@]
  <2>1. s' = Send(y, "REGION")
    BY <1>8 DEF RegionChange
  <2>2. Fields \subseteq DOMAIN y /\ \A f \in Fields \ {"cable"} : y[f] = s[f]
    BY <1>3 DEF Fields
  <2> HIDE DEF y
  <2>3. QED
    BY <1>1, <2>1, <2>2, SendGood DEF Messages
<1>9. CASE HandsetConnects \/ Audio
  <2>1. PICK bt : \E m \in Messages : s' = Send([s EXCEPT !.bt = bt], m)
    BY <1>9, Zenon DEF HandsetConnects, Audio, Messages
  <2> DEFINE y == [s EXCEPT !.bt = bt]
  <2>2. Fields \subseteq DOMAIN y /\ \A f \in Fields \ {"cable"} : y[f] = s[f]
    BY <1>3 DEF Fields
  <2> HIDE DEF y
  <2>3. QED
    BY <1>1, <2>1, <2>2, SendGood DEF y
<1>10. CASE HandsetDisconnects
  <2> DEFINE r == IF s.bt = "streaming" THEN Send(s, "AUDIO") ELSE s
             y == [r EXCEPT !.bt = "none"]
  <2>1. s' = Send(y, "DISCONNECTED")
    BY <1>10 DEF HandsetDisconnects
  <2>2. Good(r)
    BY <1>1, <1>3, SendGood DEF Messages
  <2> HIDE DEF r
  <2>3. Fields \subseteq DOMAIN y /\ \A f \in Fields \ {"cable"} : y[f] = r[f]
    BY <2>2 DEF Fields, Good, Sane
  <2> HIDE DEF y
  <2>4. QED
    BY <2>1, <2>2, <2>3, SendGood DEF Messages
<1>11. CASE PairingEnds
  <2>1. PICK paired : s' = Send([s EXCEPT !.paired = paired], "PAIR_CFM")
    BY <1>11 DEF PairingEnds
  <2> DEFINE y == [s EXCEPT !.paired = paired]
  <2>2. Fields \subseteq DOMAIN y /\ \A f \in Fields \ {"cable"} : y[f] = s[f]
    BY <1>3 DEF Fields
  <2> HIDE DEF y
  <2>3. QED
    BY <1>1, <2>1, <2>2, SendGood DEF y, Messages
<1>12. QED
  BY <1>4, <1>5, <1>6, <1>7, <1>8, <1>9, <1>10, <1>11

\* The Wi-SUN link tells the headset, or does not.
LEMMA LinkKeeps ==
    ASSUME IInv, BrOnline \/ BrOffline \/ LinkSilent
    PROVE  StepKeeps
<1>1. Good(s)
  BY AwakeGood, Zenon DEF BrOnline, BrOffline, LinkSilent
<1>2. s' \in {s, CancelTimer(s, "idle"), StartIdleTimer(s, FALSE)}
  BY Zenon DEF BrOnline, BrOffline, LinkSilent
<1>3. Good(s')
  BY <1>1, <1>2, CancelFollows, StartIdleTimerFollows, Zenon DEF Good, Follows
<1>4. QED
  BY <1>1, <1>3, GoodStep

\* The chip starts.
LEMMA BootedGood ==
    ASSUME NEW cable \in BOOLEAN, NEW soc, NEW paired, NEW world
    PROVE  Good(Booted(cable, soc, paired, world))
<1> DEFINE y == Booted(cable, soc, paired, world)
<1>1. /\ Fields \subseteq DOMAIN y /\ y.hs = "NULL" /\ y.sys = "limbo" /\ y.step = "none"
      /\ y.topo = "STOPPED" /\ y.timers = {} /\ y.led = 0
  BY DEF Booted, Fields
<1>2. y.q \in Seq(Messages)
  <2>1. \A status : StatusMessageId(status) \in Messages
    BY DEF StatusMessageId, Messages, ChargerEvents
  <2>2. "ATTACHED" \in Messages /\ "DETACHED" \in Messages /\ "TO_LIMBO" \in Messages
    BY DEF Messages, ChargerEvents, Changes
  <2>3. QED
    BY <2>1, <2>2 DEF Booted
<1> HIDE DEF y
<1>3. QED
  BY <1>1, <1>2 DEF Good, Sane, Confirmed, y

\* Every step keeps the invariant, and ends dormant only in the safe way.
LEMMA NextKeeps ==
    ASSUME IInv, [Next]_vars
    PROVE  StepKeeps
<1>1. CASE Boot
  <2>1. Good(s')
    BY <1>1, BootedGood DEF Boot
  <2>2. QED
    BY <2>1, GoodStep DEF IInv
<1>2. CASE UNCHANGED vars
  BY <1>2 DEF vars, StepKeeps, IInv, Awake, Good, Sane, Confirmed, Asleep
<1>3. QED
  BY <1>1, <1>2, DeliverKeeps, TimersKeep, StopGoalKeeps, OutsideKeeps, LinkKeeps DEF Next

\* The invariant holds when the chip starts.
LEMMA InitIInv == Init => IInv
  BY BootedGood DEF Init, IInv

-----------------------------------------------------------------------------
\* headsetSmApplyLimboChargeLed and headsetSetState keep the limbo timer and the
\* charge LED apart, whatever the charger reports and in whatever order.
THEOREM LitLedStopsTheTimer == Spec => []NoLimboTimerWhileLit
<1>1. IInv /\ [Next]_vars => IInv'
  BY NextKeeps DEF StepKeeps
<1>2. IInv => NoLimboTimerWhileLit
  BY DEF IInv, Good, Sane, Asleep, NoLimboTimerWhileLit
<1>3. QED
  BY InitIInv, <1>1, <1>2, PTL DEF Spec

\* StereoTopology_Stop answers every transition of the system state that waits
\* for it, also when the stop times out and its goal ends later.
THEOREM WaitsAreAnswered == Spec => []StopIsConfirmed
<1>1. IInv /\ [Next]_vars => IInv'
  BY NextKeeps DEF StepKeeps
<1>2. IInv => StopIsConfirmed
  BY DEF IInv, Good, Sane, Confirmed, HasCfm, Asleep, StopIsConfirmed
<1>3. QED
  BY InitIInv, <1>1, <1>2, PTL DEF Spec

\* The chip goes dormant only with the cable out and the helmet off, however the
\* cable, the buttons and the battery race with the shutdown.
THEOREM DormantOnlyWhenSafe == Spec => DormantIsSafe
<1>1. IInv /\ [Next]_vars => IInv'
  BY NextKeeps DEF StepKeeps
<1>2. IInv /\ [Next]_vars => [(Awake /\ s'.sys = "powered_off") => ~s.cable /\ phase' = "off"]_vars
  BY NextKeeps DEF StepKeeps
<1>3. QED
  BY InitIInv, <1>1, <1>2, PTL DEF Spec, DormantIsSafe

-----------------------------------------------------------------------------
(* Types. *)

State ==
    [hs : HeadsetStates, sys : SystemStates, step : {"none", "prompt", "stop"},
     topo : {"STOPPED", "STARTING", "STARTED", "STOPPING"}, stopping : BOOLEAN,
     notified : BOOLEAN, user : BOOLEAN, q : Seq(Messages),
     timers : SUBSET Timers, cable : BOOLEAN, status : ChargerStatuses,
     event : ChargerEvents, led : 0..2, high : BOOLEAN, charged : BOOLEAN,
     soc : Socs, bt : {"none", "linked", "streaming"}, paired : BOOLEAN,
     unsafe : BOOLEAN, early : BOOLEAN, world : Worlds]

\* A message is queued.
LEMMA SendType ==
    ASSUME NEW x \in State, NEW m \in Messages
    PROVE  Send(x, m) \in State
<1>1. x.q \in Seq(Messages)
  BY DEF State
<1>2. Append(x.q, m) \in Seq(Messages)
  BY <1>1
<1>3. QED
  BY <1>2, Zenon DEF Send, State

\* A timer is armed or cancelled.
LEMMA TimerType ==
    ASSUME NEW x \in State, NEW t \in Timers
    PROVE  Arm(x, t) \in State /\ CancelTimer(x, t) \in State
  BY DEF Arm, CancelTimer, State

\* The topology.
LEMMA TopologyType ==
    ASSUME NEW x \in State
    PROVE  TopologyStart(x) \in State /\ TopologyStop(x) \in State /\ SendStopCfm(x) \in State
<1>1. /\ [x EXCEPT !.topo = "STARTING"] \in State
      /\ [x EXCEPT !.topo = "STOPPING", !.stopping = TRUE] \in State
      /\ [x EXCEPT !.topo = "STOPPED"] \in State
  BY Zenon DEF State
<1>2. "START_GOAL" \in Messages /\ "STOP_CFM" \in Messages /\ "topstop" \in Timers
  BY DEF Messages, Timers
<1>3. TopologyStart(x) \in State
  BY <1>1, <1>2, SendType DEF TopologyStart
<1>4. TopologyStop(x) \in State
  BY <1>1, <1>2, SendType, TimerType DEF TopologyStop
<1>5. SendStopCfm(x) \in State
  BY <1>1, <1>2, SendType, TimerType DEF SendStopCfm
<1>6. QED
  BY <1>3, <1>4, <1>5

\* The system state and its transitions.
LEMMA SystemType ==
    ASSUME NEW x \in State
    PROVE  /\ \A new \in SystemStates : SystemSetState(x, new) \in State
           /\ FinishPowerOn(x) \in State
           /\ SystemPowerOn(x) \in State /\ SystemPowerOff(x) \in State
           /\ Dormant(x) \in State
<1>1. ASSUME NEW r \in State, NEW new \in SystemStates
      PROVE  SystemSetState(r, new) \in State
  <2>1. r.q \in Seq(Messages)
    BY DEF State
  <2>2. \A m \in Changes : r.q \o <<m>> \in Seq(Messages)
    BY <2>1 DEF Messages
  <2>3. r.q \o <<>> \in Seq(Messages)
    BY <2>1
  <2>4. PICK c : /\ SystemSetState(r, new) = [r EXCEPT !.sys = new, !.q = @ \o c]
                 /\ c = <<>> \/ \E m \in Changes : c = <<m>>
    BY Zenon DEF SystemSetState, Changes
  <2>5. r.q \o c \in Seq(Messages)
    BY <2>2, <2>3, <2>4, Zenon
  <2>6. [r EXCEPT !.sys = new, !.q = r.q \o c] \in State
    BY <2>5, Zenon DEF State
  <2>7. QED
    BY <2>4, <2>6
<1>2. ASSUME NEW r \in State PROVE FinishPowerOn(r) \in State
  <2>1. [r EXCEPT !.step = "none"] \in State /\ "active" \in SystemStates
    BY Zenon DEF State, SystemStates
  <2>2. QED
    BY <1>1, <2>1, TopologyType DEF FinishPowerOn
<1>3. SystemPowerOn(x) \in State
  <2> DEFINE t == SystemSetState(x, "powering_on")
             early == x.sys = "powering_off"
             on == [t EXCEPT !.early = early]
  <2>1. t \in State
    BY <1>1 DEF SystemStates
  <2> HIDE DEF t
  <2>2. on \in State
    BY <2>1, ZenonT(40) DEF State
  <2>3. SystemPowerOn(x) \in {x, [on EXCEPT !.step = "prompt"], FinishPowerOn(on)}
    BY DEF SystemPowerOn, t
  <2> HIDE DEF on
  <2>4. [on EXCEPT !.step = "prompt"] \in State
    BY <2>2 DEF State
  <2>5. QED
    BY <1>2, <2>2, <2>3, <2>4
<1>4. SystemPowerOff(x) \in State
  <2> DEFINE t == SystemSetState(x, "powering_off")
             off == [t EXCEPT !.step = "stop", !.early = FALSE]
  <2>1. t \in State
    BY <1>1 DEF SystemStates
  <2> HIDE DEF t
  <2>2. off \in State
    BY <2>1, ZenonT(40) DEF State
  <2>3. SystemPowerOff(x) \in {x, TopologyStop(off)}
    BY DEF SystemPowerOff, t
  <2>4. QED
    BY <2>2, <2>3, TopologyType
<1>5. Dormant(x) \in State
  <2>1. <<>> \in Seq(Messages) /\ {} \in SUBSET Timers /\ "powered_off" \in SystemStates
    BY DEF SystemStates
  <2>2. QED
    BY <2>1, Zenon DEF Dormant, State
<1>6. QED
  BY <1>1, <1>2, <1>3, <1>4, <1>5

\* The power manager.
LEMMA PowerType ==
    ASSUME NEW x \in State
    PROVE  /\ appPowerOffRequest(x) \in State /\ appPowerHandlePowerEvent(x) \in State
           /\ appPowerShutdownPrepareResponse(x) \in State
<1>1. ASSUME NEW r \in State PROVE NotifyClients(r) \in State
  <2>1. [r EXCEPT !.notified = TRUE] \in State /\ "PREPARE" \in Messages
    BY Zenon DEF State, Messages
  <2>2. QED
    BY <2>1, SendType DEF NotifyClients
<1>2. /\ [x EXCEPT !.user = TRUE] \in State
      /\ [x EXCEPT !.notified = FALSE, !.user = FALSE] \in State
  BY Zenon DEF State
<1>3. QED
  BY <1>1, <1>2, SystemType DEF appPowerOffRequest, appPowerHandlePowerEvent,
                                appPowerShutdownPrepareResponse

\* The charge indication.
LEMMA LedType ==
    ASSUME NEW x \in State
    PROVE  ApplyLimboChargeLed(x) \in State
<1> DEFINE f == [x EXCEPT !.charged = TRUE, !.event = "DISABLED"]
           full == x.soc >= 99 /\ x.event \in {"CHARGING", "ATTACHED"}
           t == IF full THEN f ELSE x
           y == LimboCharge(x)
           choice == LimboChoice(y)
           lit == [y EXCEPT !.led = choice]
<1>1. f \in State
  BY Zenon DEF State, ChargerEvents
<1>2. t \in State
  BY <1>1
<1>3. PICK h \in BOOLEAN : \/ y = t
                           \/ y = [t EXCEPT !.charged = FALSE, !.high = h]
                           \/ y = [t EXCEPT !.high = h]
  <2> DEFINE g == (t.soc >= 95) \/ (t.high /\ t.soc > 92)
  <2>1. g \in BOOLEAN
    OBVIOUS
  <2>2. y \in {[t EXCEPT !.charged = FALSE, !.high = FALSE], [t EXCEPT !.high = TRUE],
               [t EXCEPT !.high = g], t, [t EXCEPT !.high = FALSE]}
    BY DEF LimboCharge
  <2> HIDE DEF y, t, g
  <2>3. QED
    BY <2>1, <2>2, Zenon
<1> HIDE DEF t, y
<1>4. [t EXCEPT !.charged = FALSE, !.high = h] \in State /\ [t EXCEPT !.high = h] \in State
  BY <1>2, ZenonT(40) DEF State
<1>5. y \in State
  BY <1>2, <1>3, <1>4
<1>6. choice \in {0, 1, 2, 3}
  BY DEF LimboChoice
<1>7. ASSUME NEW v \in {0, 1, 2} PROVE [y EXCEPT !.led = v] \in State
  BY <1>5 DEF State
<1>8. ApplyLimboChargeLed(x) \in {x, y} \/
         (choice # 3 /\ ApplyLimboChargeLed(x) \in {CancelTimer(lit, "limbo"), Arm(lit, "limbo")})
  BY DEF ApplyLimboChargeLed, y
<1> HIDE DEF choice
<1>9. "limbo" \in Timers /\ (choice # 3 => lit \in State)
  BY <1>6, <1>7 DEF Timers
<1> HIDE DEF lit
<1>10. QED
  BY <1>5, <1>8, <1>9, TimerType

\* headsetSetState.
LEMMA SetStateType ==
    ASSUME NEW x \in State, NEW new \in HeadsetStates
    PROVE  SetState(x, new) \in State
<1> DEFINE e == ExitState(x)
           t == [e EXCEPT !.hs = new]
<1>1. "limbo" \in Timers /\ "idle" \in Timers /\ [x EXCEPT !.led = 0] \in State
  BY DEF Timers, State
<1>2. e \in State
  BY <1>1, TimerType, TopologyType DEF ExitState
<1> HIDE DEF e
<1>3. t \in State
  BY <1>2, Zenon DEF State
<1>4. SetState(x, new) \in {t, ApplyLimboChargeLed(Arm(t, "limbo")), Arm(t, "idle"),
                            appPowerShutdownPrepareResponse(t)}
  BY DEF SetState, StartIdleTimer, e
<1> HIDE DEF t
<1>5. QED
  BY <1>1, <1>3, <1>4, TimerType, LedType, PowerType

\* The handlers.
LEMMA HandleType ==
    ASSUME NEW x \in State, NEW m \in Messages
    PROVE  Handle(x, m) \in State
<1> DEFINE y == Handle(x, m)
<1>0. \A r \in State, new \in {"LIMBO", "POWERING_ON", "IDLE", "PAIRING", "POWERING_OFF",
                               "TERMINATING", "BUSY"} : SetState(r, new) \in State
  BY SetStateType DEF HeadsetStates
<1>1. CASE m \in Changes
  <2>1. y = HandleStateChange(x, m)
    BY <1>1 DEF Handle, Changes, ChargerEvents
  <2>2. QED
    BY <1>0, <1>1, <2>1 DEF HandleStateChange, Changes
<1>2. CASE m \in ChargerEvents
  <2> DEFINE p == IF m \in {"ATTACHED", "DETACHED", "COMPLETED"}
                  THEN appPowerHandlePowerEvent(x) ELSE x
             t == IF m \in {"ATTACHED", "CHARGING"} /\ p.hs = "POWERING_OFF"
                  THEN SetState(p, "LIMBO") ELSE p
             e == [t EXCEPT !.event = m]
  <2>1. y = HandleChargerMessage(x, m)
    BY <1>2 DEF Handle, Changes, ChargerEvents
  <2>2. p \in State
    BY PowerType
  <2>3. y = ApplyLimboChargeLed(e)
    BY <2>1 DEF HandleChargerMessage
  <2> HIDE DEF p, y
  <2>4. t \in State
    BY <1>0, <2>2
  <2> HIDE DEF t
  <2>5. e \in State
    BY <1>2, <2>4, Zenon DEF State
  <2>6. QED
    BY <2>3, <2>5, LedType DEF y
<1>3. CASE m \in {"SOC", "REGION", "UI_ON", "POWER_OFF"}
  <2>1. y \in {x, ApplyLimboChargeLed(x), appPowerHandlePowerEvent(x), SystemPowerOn(x),
               SystemPowerOff(x)}
    BY <1>3 DEF Handle, Changes, ChargerEvents
  <2>2. QED
    BY <2>1, LedType, PowerType, SystemType
<1>4. CASE m = "PREPARE"
  <2>1. y = HandlePrepareInd(x)
    BY <1>4 DEF Handle, Changes, ChargerEvents
  <2>2. QED
    BY <1>0, <2>1, PowerType DEF HandlePrepareInd
<1>5. CASE m \in {"UI_OFF", "UI_PAIR", "START_GOAL"}
  <2>1. y \in {x, Send(x, "POWER_OFF"), Send(x, "PAIR_HANDSET"), Send(x, "STARTED")}
    BY <1>5 DEF Handle, Changes, ChargerEvents
  <2>2. QED
    BY <2>1, SendType DEF Messages
<1>6. CASE m \in {"PAIR_HANDSET", "PAIR_CFM", "AUDIO"}
  <2>1. y \in {x, SetState(x, "PAIRING"), SetState(x, "IDLE"), SetState(x, "BUSY")}
    BY <1>6 DEF Handle, Changes, ChargerEvents, DetermineCoreState
  <2>2. QED
    BY <1>0, <2>1
<1>7. CASE m \in {"CONNECTED", "DISCONNECTED"}
  <2>1. y \in {x, CancelTimer(x, "idle"), Arm(x, "idle")}
    BY <1>7 DEF Handle, Changes, ChargerEvents, StartIdleTimer
  <2>2. QED
    BY <2>1, TimerType DEF Timers
<1>8. CASE m = "STARTED"
  <2>1. y = [x EXCEPT !.topo = "STARTED"]
    BY <1>8 DEF Handle, Changes, ChargerEvents
  <2>2. QED
    BY <2>1 DEF State
<1>9. CASE m = "STOP_CFM"
  <2> DEFINE t == IF x.hs = "POWERING_OFF" THEN appPowerOffRequest(SetState(x, "LIMBO")) ELSE x
             n == [t EXCEPT !.step = "none"]
  <2>1. y \in {x, SystemSetState(n, "limbo")}
    BY <1>9 DEF Handle, Changes, ChargerEvents, HandleStopCfm
  <2>2. t \in State
    BY <1>0, PowerType
  <2> HIDE DEF t
  <2>3. n \in State
    BY <2>2, Zenon DEF State
  <2> HIDE DEF n
  <2>4. QED
    BY <2>1, <2>3, SystemType DEF SystemStates
<1>10. QED
  BY <1>1, <1>2, <1>3, <1>4, <1>5, <1>6, <1>7, <1>8, <1>9 DEF Messages

\* The chip starts.
LEMMA BootedType ==
    ASSUME NEW cable \in BOOLEAN, NEW soc \in Socs, NEW paired \in BOOLEAN, NEW world \in Worlds
    PROVE  Booted(cable, soc, paired, world) \in State
<1> DEFINE status == IF cable THEN "FAST_CHARGE" ELSE "NO_POWER"
           a == IF cable THEN "ATTACHED" ELSE "DETACHED"
           m == StatusMessageId(status)
           q == <<a, m, "TO_LIMBO">>
<1>1. a \in Messages /\ m \in Messages /\ "TO_LIMBO" \in Messages
  BY DEF StatusMessageId, Messages, ChargerEvents, Changes
<1>2. status \in ChargerStatuses
  BY DEF ChargerStatuses
<1>3. Booted(cable, soc, paired, world) =
        [hs |-> "NULL", sys |-> "limbo", step |-> "none", topo |-> "STOPPED",
         stopping |-> FALSE, notified |-> FALSE, user |-> FALSE, q |-> q,
         timers |-> {}, cable |-> cable, status |-> status, event |-> "DETACHED",
         led |-> 0, high |-> FALSE, charged |-> FALSE, soc |-> soc, bt |-> "none",
         paired |-> paired, unsafe |-> FALSE, early |-> FALSE, world |-> world]
  BY DEF Booted
<1> HIDE DEF status, a, m
<1>4. q \in Seq(Messages)
  BY <1>1
<1> HIDE DEF q
<1>5. "NULL" \in HeadsetStates /\ "limbo" \in SystemStates /\ "DETACHED" \in ChargerEvents
  BY DEF HeadsetStates, SystemStates, ChargerEvents
<1>6. QED
  BY <1>2, <1>3, <1>4, <1>5 DEF State

\* Every step keeps the type of s.
LEMMA NextStateType ==
    ASSUME s \in State, [Next]_vars
    PROVE  s' \in State
<1>1. CASE Deliver
  <2> DEFINE x == [s EXCEPT !.q = Tail(@)]
  <2>1. s.q \in Seq(Messages) /\ s.q # <<>>
    BY <1>1 DEF State, Deliver
  <2>2. Tail(s.q) \in Seq(Messages) /\ Head(s.q) \in Messages
    BY <2>1, TailCfm
  <2>3. x \in State
    BY <2>2 DEF State
  <2>4. s' = Handle(x, Head(s.q))
    BY <1>1 DEF Deliver
  <2> HIDE DEF x
  <2>5. QED
    BY <2>2, <2>3, <2>4, HandleType
<1>2. CASE PromptPlayed
  BY <1>2, SystemType DEF PromptPlayed
<1>3. CASE TimeoutIdle
  <2>1. CancelTimer(s, "idle") \in State /\ "POWER_OFF" \in Messages
    BY TimerType DEF Timers, Messages
  <2>2. QED
    BY <1>3, <2>1, SendType DEF TimeoutIdle
<1>4. CASE TimeoutLimbo
  <2>1. CancelTimer(s, "limbo") \in State
    BY TimerType DEF Timers
  <2>2. QED
    BY <1>4, <2>1, PowerType DEF TimeoutLimbo
<1>5. CASE TimeoutTopologyStop
  BY <1>5, TopologyType DEF TimeoutTopologyStop
<1>6. CASE StopGoalDone
  <2>1. [s EXCEPT !.stopping = FALSE] \in State /\ "STARTED" \in Messages
    BY Zenon DEF State, Messages
  <2>2. QED
    BY <1>6, <2>1, SendType, TopologyType DEF StopGoalDone
<1>7. CASE Button
  BY <1>7, SendType DEF Button, Messages
<1>8. CASE Cable
  <2>1. [s EXCEPT !.cable = ~s.cable] \in State
    BY ZenonT(40) DEF State
  <2>2. "ATTACHED" \in Messages /\ "DETACHED" \in Messages
    BY DEF Messages, ChargerEvents
  <2>3. QED
    BY <1>8, <2>1, <2>2, SendType DEF Cable
<1>9. CASE ChargerStatus
  <2>1. PICK status \in ChargerStatuses :
           s' = Send([s EXCEPT !.status = status], StatusMessageId(status))
    BY <1>9 DEF ChargerStatus
  <2>2. [s EXCEPT !.status = status] \in State
    BY DEF State
  <2>3. StatusMessageId(status) \in Messages
    BY DEF StatusMessageId, Messages, ChargerEvents
  <2>4. QED
    BY <2>1, <2>2, <2>3, SendType
<1>10. CASE SocChange
  <2>1. PICK soc \in Socs : s' = Send([s EXCEPT !.soc = soc], "SOC")
    BY <1>10 DEF SocChange
  <2>2. [s EXCEPT !.soc = soc] \in State /\ "SOC" \in Messages
    BY DEF State, Messages
  <2>3. QED
    BY <2>1, <2>2, SendType
<1>11. CASE RegionChange
  <2>1. [s EXCEPT !.unsafe = ~s.unsafe] \in State /\ "REGION" \in Messages
    BY ZenonT(40) DEF State, Messages
  <2>2. QED
    BY <1>11, <2>1, SendType DEF RegionChange
<1>12. CASE HandsetConnects \/ Audio
  <2>1. PICK bt \in {"linked", "streaming"} :
           s' \in {Send([s EXCEPT !.bt = bt], "CONNECTED"), Send([s EXCEPT !.bt = bt], "AUDIO")}
    BY <1>12 DEF HandsetConnects, Audio
  <2>2. [s EXCEPT !.bt = bt] \in State /\ "CONNECTED" \in Messages /\ "AUDIO" \in Messages
    BY DEF State, Messages
  <2>3. QED
    BY <2>1, <2>2, SendType
<1>13. CASE HandsetDisconnects
  <2> DEFINE r == IF s.bt = "streaming" THEN Send(s, "AUDIO") ELSE s
  <2>1. r \in State
    BY SendType DEF Messages
  <2>2. s' = Send([r EXCEPT !.bt = "none"], "DISCONNECTED")
    BY <1>13 DEF HandsetDisconnects
  <2> HIDE DEF r
  <2>3. [r EXCEPT !.bt = "none"] \in State /\ "DISCONNECTED" \in Messages
    BY <2>1, Zenon DEF State, Messages
  <2>4. QED
    BY <2>2, <2>3, SendType
<1>14. CASE PairingEnds
  <2>1. s.paired \in BOOLEAN
    BY DEF State
  <2>2. PICK paired \in BOOLEAN : s' = Send([s EXCEPT !.paired = paired], "PAIR_CFM")
    BY <1>14, <2>1, Zenon DEF PairingEnds
  <2>3. [s EXCEPT !.paired = paired] \in State /\ "PAIR_CFM" \in Messages
    BY DEF State, Messages
  <2>4. QED
    BY <2>2, <2>3, SendType
<1>15. CASE BrOnline \/ BrOffline \/ LinkSilent
  <2>1. s' \in {s, CancelTimer(s, "idle"), Arm(s, "idle")}
    BY <1>15, Zenon DEF BrOnline, BrOffline, LinkSilent, StartIdleTimer
  <2>2. QED
    BY <2>1, TimerType DEF Timers
<1>16. CASE Boot
  <2>1. PICK cable \in BOOLEAN : s' = Booted(cable, s.soc, s.paired, s.world)
    BY <1>16 DEF Boot
  <2>2. s.soc \in Socs /\ s.paired \in BOOLEAN /\ s.world \in Worlds
    BY DEF State
  <2>3. QED
    BY <2>1, <2>2, BootedType
<1>17. CASE UNCHANGED vars
  BY <1>17 DEF vars
<1>18. QED
  BY <1>1, <1>2, <1>3, <1>4, <1>5, <1>6, <1>7, <1>8, <1>9, <1>10, <1>11, <1>12, <1>13, <1>14,
     <1>15, <1>16, <1>17 DEF Next

\* The variables of the link and what the headset was told of it.
LinkType == phase \in Link!Phases /\ online \in BOOLEAN /\ told \in BOOLEAN

\* Every step keeps their types.
LEMMA NextLinkType ==
    LinkType /\ [Next]_vars => LinkType'
<1> SUFFICES ASSUME LinkType, [Next]_vars PROVE LinkType'
  OBVIOUS
<1>1. CASE Deliver
  BY <1>1, Zenon DEF Deliver, HelmetFollows, LinkType, Link!PowerUp, Link!PowerDown, Link!Phases
<1>2. CASE BrOnline
  BY <1>2 DEF BrOnline, LinkType, Link!Ack, Link!Phases
<1>3. CASE BrOffline
  BY <1>3, Zenon DEF BrOffline, LinkType, Link!Fail, Link!Phases
<1>4. CASE LinkSilent
  BY <1>4, Zenon DEF LinkSilent, LinkType, Link!Reenter, Link!GiveUp, Link!Accept, Link!Phases
<1>5. CASE UNCHANGED <<phase, online, told>>
  BY <1>5 DEF LinkType
<1>6. QED
  BY <1>1, <1>2, <1>3, <1>4, <1>5, Zenon
     DEF Next, vars, PromptPlayed, TimeoutIdle, TimeoutLimbo, TimeoutTopologyStop, StopGoalDone,
         Button, Cable, ChargerStatus, SocChange, RegionChange, HandsetConnects, Audio,
         HandsetDisconnects, PairingEnds, Boot

\* The variables keep their types, for every queue that the handlers build.
THEOREM TypeCorrect == Spec => []TypeOK
<1>1. Init => s \in State /\ LinkType
  BY BootedType, Zenon DEF Init, LinkType, Link!Init, Link!Phases
<1>2. (s \in State /\ LinkType) /\ [Next]_vars => (s \in State /\ LinkType)'
  BY NextStateType, NextLinkType
<1>3. s \in State /\ LinkType => TypeOK
  BY Zenon DEF State, LinkType, TypeOK
<1>4. QED
  BY <1>1, <1>2, <1>3, PTL DEF Spec

-----------------------------------------------------------------------------
(* What the queue promises: the invariant behind ActiveHasTopology,         *)
(* RechargeResumes and IdleTimerRuns.                                       *)

Has(q, m) == \E i \in DOMAIN q : q[i] = m

\* Every message of q in the set a has a message m somewhere behind it.
Then(q, a, m) == \A i \in DOMAIN q : q[i] \in a => \E j \in DOMAIN q : j > i /\ q[j] = m

\* The messages that take the topology from STARTING to STARTED.
Goals == {"START_GOAL", "STARTED"}

NoGoals(q) == \A i \in DOMAIN q : q[i] \notin Goals

\* One start at a time, and no confirmation of a stop behind it.
Ordered(q) ==
    \A i, j \in DOMAIN q : (i < j /\ q[i] \in Goals) => q[j] \notin Goals \cup {"STOP_CFM"}

\* The messages that handlers send, as opposed to the charger, the battery and
\* the handset.
Own == Messages \ (ChargerEvents \cup {"SOC", "CONNECTED", "DISCONNECTED"})

\* q is p with messages of handlers added.
Adds(p, q) ==
    /\ Len(p) <= Len(q)
    /\ \A i \in 1..Len(p) : q[i] = p[i]
    /\ \A i \in 1..Len(q) : i > Len(p) => q[i] \in Own

\* A message is added to a queue.
LEMMA AppendQueue ==
    ASSUME NEW q \in Seq(Messages), NEW m \in Messages
    PROVE  /\ Append(q, m) \in Seq(Messages)
           /\ m \in Own => Adds(q, Append(q, m))
           /\ \A k : Has(Append(q, m), k) <=> (Has(q, k) \/ k = m)
           /\ \A a, k : (Then(q, a, k) /\ m \notin a) => Then(Append(q, m), a, k)
           /\ \A a : m \notin a => Then(Append(q, m), a, m)
           /\ (NoGoals(q) /\ m \notin Goals) => NoGoals(Append(q, m))
           /\ (Ordered(q) /\ (NoGoals(q) \/ m \notin Goals \cup {"STOP_CFM"}))
                 => Ordered(Append(q, m))
<1> DEFINE p == Append(q, m)
           n == Len(q)
<1>1. /\ p \in Seq(Messages) /\ Len(p) = n + 1 /\ n \in Nat
      /\ \A i \in 1..n : p[i] = q[i]
      /\ p[n + 1] = m
  OBVIOUS
<1>2. DOMAIN q = 1..n /\ DOMAIN p = 1..(n + 1)
  BY <1>1
<1> HIDE DEF p, n
<1>3. m \in Own => Adds(q, p)
  BY <1>1 DEF Adds, n
<1>4. ASSUME NEW k PROVE Has(p, k) <=> (Has(q, k) \/ k = m)
  BY <1>1, <1>2 DEF Has
<1>5. ASSUME NEW a, NEW k, Then(q, a, k), m \notin a PROVE Then(p, a, k)
  <2>1. ASSUME NEW i \in 1..(n + 1), p[i] \in a PROVE \E j \in 1..(n + 1) : j > i /\ p[j] = k
    <3>1. i \in 1..n /\ q[i] \in a
      BY <1>1, <1>5, <2>1
    <3>2. PICK j \in 1..n : j > i /\ q[j] = k
      BY <1>2, <1>5, <3>1 DEF Then
    <3>3. j \in 1..(n + 1) /\ p[j] = k
      BY <1>1, <3>2
    <3>4. QED
      BY <3>2, <3>3
  <2>2. QED
    BY <1>2, <2>1 DEF Then
<1>6. ASSUME NEW a, m \notin a PROVE Then(p, a, m)
  <2>1. ASSUME NEW i \in 1..(n + 1), p[i] \in a PROVE n + 1 > i
    BY <1>1, <1>6, <2>1
  <2>2. n + 1 \in 1..(n + 1)
    BY <1>1
  <2>3. QED
    BY <1>1, <1>2, <2>1, <2>2 DEF Then
<1>7. (NoGoals(q) /\ m \notin Goals) => NoGoals(p)
  BY <1>1, <1>2 DEF NoGoals
<1>8. ASSUME Ordered(q), NoGoals(q) \/ m \notin Goals \cup {"STOP_CFM"} PROVE Ordered(p)
  <2>1. ASSUME NEW i \in 1..(n + 1), NEW j \in 1..(n + 1), i < j, p[i] \in Goals
        PROVE  p[j] \notin Goals \cup {"STOP_CFM"}
    <3>1. i \in 1..n /\ q[i] \in Goals
      BY <1>1, <2>1
    <3>2. CASE j \in 1..n
      BY <1>1, <1>2, <1>8, <2>1, <3>1, <3>2 DEF Ordered
    <3>3. CASE j = n + 1
      BY <1>1, <1>2, <1>8, <3>1, <3>3 DEF NoGoals
    <3>4. QED
      BY <1>1, <2>1, <3>2, <3>3
  <2>2. QED
    BY <1>2, <2>1 DEF Ordered
<1>9. QED
  BY <1>1, <1>3, <1>4, <1>5, <1>6, <1>7, <1>8, Zenon DEF p

\* The front message is taken off.
LEMMA TailQueue ==
    ASSUME NEW q \in Seq(Messages), q # <<>>
    PROVE  /\ Tail(q) \in Seq(Messages) /\ Head(q) \in Messages
           /\ \A k : Has(q, k) <=> (Has(Tail(q), k) \/ k = Head(q))
           /\ \A a, k : Then(q, a, k) => Then(Tail(q), a, k)
           /\ \A a, k : (Then(q, a, k) /\ Head(q) \in a) => Has(Tail(q), k)
           /\ NoGoals(q) => NoGoals(Tail(q)) /\ Head(q) \notin Goals
           /\ Ordered(q) => Ordered(Tail(q))
           /\ (Ordered(q) /\ Head(q) \in Goals)
                 => NoGoals(Tail(q)) /\ ~Has(Tail(q), "STOP_CFM")
<1> DEFINE p == Tail(q)
           n == Len(q)
<1>1. /\ p \in Seq(Messages) /\ Len(p) = n - 1 /\ Head(q) = q[1] /\ Head(q) \in Messages
      /\ \A i \in 1..(n - 1) : p[i] = q[i + 1]
      /\ n \in Nat /\ n > 0
  OBVIOUS
<1>2. DOMAIN q = 1..n /\ DOMAIN p = 1..(n - 1) /\ 1 \in 1..n
  BY <1>1
<1>3. /\ \A i \in 1..(n - 1) : i + 1 \in 1..n /\ p[i] = q[i + 1]
      /\ \A i \in 1..n : i = 1 \/ (i - 1 \in 1..(n - 1) /\ p[i - 1] = q[i])
  BY <1>1
<1> HIDE DEF p, n
<1>4. ASSUME NEW k PROVE Has(q, k) <=> (Has(p, k) \/ k = Head(q))
  <2>1. ASSUME Has(p, k) PROVE Has(q, k)
    BY <1>2, <1>3, <2>1 DEF Has
  <2>2. k = Head(q) => Has(q, k)
    BY <1>1, <1>2 DEF Has
  <2>3. ASSUME Has(q, k), k # Head(q) PROVE Has(p, k)
    <3>1. PICK i \in 1..n : q[i] = k
      BY <1>2, <2>3 DEF Has
    <3>2. i - 1 \in 1..(n - 1) /\ p[i - 1] = k
      BY <1>1, <1>3, <2>3, <3>1
    <3>3. QED
      BY <1>2, <3>2 DEF Has
  <2>4. QED
    BY <2>1, <2>2, <2>3
<1>5. ASSUME NEW a, NEW k, Then(q, a, k) PROVE Then(p, a, k)
  <2>1. ASSUME NEW i \in 1..(n - 1), p[i] \in a PROVE \E j \in 1..(n - 1) : j > i /\ p[j] = k
    <3>1. PICK j \in 1..n : j > i + 1 /\ q[j] = k
      BY <1>2, <1>3, <1>5, <2>1 DEF Then
    <3>2. j # 1 /\ j - 1 > i
      BY <1>1, <2>1, <3>1
    <3>3. QED
      BY <1>3, <3>1, <3>2
  <2>2. QED
    BY <1>2, <2>1 DEF Then
<1>6. ASSUME NEW a, NEW k, Then(q, a, k), Head(q) \in a PROVE Has(p, k)
  <2>1. PICK j \in 1..n : j > 1 /\ q[j] = k
    BY <1>1, <1>2, <1>6 DEF Then
  <2>2. j - 1 \in 1..(n - 1) /\ p[j - 1] = k
    BY <1>3, <2>1
  <2>3. QED
    BY <1>2, <2>2 DEF Has
<1>7. NoGoals(q) => NoGoals(p) /\ Head(q) \notin Goals
  BY <1>1, <1>2, <1>3, Zenon DEF NoGoals
<1>8. Ordered(q) => Ordered(p)
  <2>1. ASSUME NEW i \in 1..(n - 1), NEW j \in 1..(n - 1), i < j PROVE i + 1 < j + 1
    BY <1>1, <2>1
  <2>2. QED
    BY <1>2, <1>3, <2>1 DEF Ordered
<1>9. ASSUME Ordered(q), Head(q) \in Goals PROVE NoGoals(p) /\ ~Has(p, "STOP_CFM")
  <2>1. \A i \in 1..(n - 1) : 1 < i + 1
    BY <1>1
  <2>2. ASSUME NEW i \in 1..(n - 1) PROVE p[i] \notin Goals \cup {"STOP_CFM"}
    <3>1. i + 1 \in 1..n /\ p[i] = q[i + 1] /\ 1 < i + 1 /\ q[1] \in Goals
      BY <1>1, <1>3, <1>9, <2>1
    <3>2. QED
      BY <1>2, <1>9, <3>1 DEF Ordered
  <2>3. QED
    BY <1>2, <2>2 DEF NoGoals, Has
<1>10. QED
  BY <1>1, <1>4, <1>5, <1>6, <1>7, <1>8, <1>9 DEF p

\* What stays true of a queue while handlers add to it.
LEMMA AddsQueue ==
    ASSUME NEW p \in Seq(Messages), NEW q \in Seq(Messages), Adds(p, q)
    PROVE  /\ \A k : Has(p, k) => Has(q, k)
           /\ \A k : (Has(q, k) /\ k \notin Own) => Has(p, k)
           /\ \A a, k : (Then(p, a, k) /\ a \cap Own = {}) => Then(q, a, k)
<1>1. DOMAIN p = 1..Len(p) /\ DOMAIN q = 1..Len(q) /\ Len(p) \in Nat /\ Len(q) \in Nat
  OBVIOUS
<1>2. /\ \A i \in 1..Len(p) : i \in 1..Len(q) /\ q[i] = p[i]
      /\ \A i \in 1..Len(q) : i \in 1..Len(p) \/ q[i] \in Own
  BY <1>1 DEF Adds
<1>3. ASSUME NEW a, NEW k, Then(p, a, k), a \cap Own = {} PROVE Then(q, a, k)
  <2>1. ASSUME NEW i \in 1..Len(q), q[i] \in a PROVE i \in 1..Len(p) /\ p[i] \in a
    BY <1>2, <1>3, <2>1
  <2>2. QED
    BY <1>1, <1>2, <1>3, <2>1, Zenon DEF Then
<1>4. QED
  BY <1>1, <1>2, <1>3 DEF Has

\* Adding to a queue twice is adding to it.
LEMMA AddsTrans ==
    ASSUME NEW p \in Seq(Messages), NEW q \in Seq(Messages), NEW r \in Seq(Messages),
           Adds(p, q), Adds(q, r)
    PROVE  Adds(p, r)
<1>1. Len(p) \in Nat /\ Len(q) \in Nat /\ Len(r) \in Nat
  OBVIOUS
<1>2. QED
  BY <1>1 DEF Adds

\* The topology and the messages about it.  Only a STARTING topology has a start
\* on its way, and at most one; a confirmation is queued by a topology that is
\* stopped, and no start overtakes it; the timeout runs only while it stops.
Tokens(x) ==
    /\ x.topo # "STARTING" => NoGoals(x.q)
    /\ Ordered(x.q)
    /\ Has(x.q, "STARTED") => ~x.stopping
    /\ Has(x.q, "STOP_CFM") => x.topo \in {"STOPPED", "STARTING"}
    /\ "topstop" \in x.timers => x.topo = "STOPPING"

\* The system state and the topology.
Steps(x) ==
    /\ x.step = "prompt" => x.sys = "powering_on"
    /\ x.step = "stop" => x.sys = "powering_off"
    /\ (x.sys = "limbo" \/ (x.sys = "powering_on" /\ ~x.early)) => x.topo # "STOPPING"
    /\ (x.sys = "active" /\ ~x.early) => x.topo \in {"STARTING", "STARTED"}

TopologyOk(x) == Tokens(x) /\ Steps(x)

\* An announcement of the active state that no longer holds is followed by that of
\* the power-off.
Announced(x) == x.sys # "active" => Then(x.q, {"TO_ACTIVE"}, "TO_POWERING_OFF")

\* What a handler does to the fields that the invariant is about.
Leads(x, y) ==
    /\ y \in State
    /\ y.bt = x.bt /\ y.cable = x.cable /\ y.status = x.status /\ y.soc = x.soc
    /\ Adds(x.q, y.q)
    /\ Announced(x) => Announced(y)
    /\ TopologyOk(x) => TopologyOk(y)
    /\ x.sys = "active" => y.sys = "active" \/ Has(y.q, "TO_POWERING_OFF")

\* The same for one that leaves the headset state, the charge indication and the
\* idle timer alone.
Stays(x, y) ==
    /\ Leads(x, y)
    /\ y.hs = x.hs /\ y.event = x.event /\ y.charged = x.charged
    /\ ("idle" \in y.timers) <=> ("idle" \in x.timers)

\* The fields in which Leads is interested and that most operators leave alone.
Same(x, y) ==
    /\ y.sys = x.sys /\ y.step = x.step /\ y.early = x.early
    /\ y.topo = x.topo /\ y.stopping = x.stopping
    /\ ("topstop" \in y.timers) <=> ("topstop" \in x.timers)
    /\ y.bt = x.bt /\ y.cable = x.cable /\ y.status = x.status /\ y.soc = x.soc

\* Other is what a handler may send without a word about topology or activity.
Other == Own \ (Goals \cup {"STOP_CFM", "TO_ACTIVE"})

\* Nothing happens.
LEMMA LeadsRefl ==
    ASSUME NEW x \in State
    PROVE  Leads(x, x) /\ Stays(x, x)
<1>1. x.q \in Seq(Messages) /\ Len(x.q) \in Nat
  BY DEF State
<1>2. Adds(x.q, x.q)
  BY <1>1 DEF Adds
<1>3. QED
  BY <1>2 DEF Leads, Stays

\* Two operators in a row.
LEMMA LeadsTrans ==
    ASSUME NEW x \in State, NEW y, NEW z, Leads(x, y), Leads(y, z)
    PROVE  Leads(x, z) /\ (Stays(x, y) /\ Stays(y, z) => Stays(x, z))
<1>1. x.q \in Seq(Messages) /\ y.q \in Seq(Messages) /\ z.q \in Seq(Messages)
  BY DEF Leads, State
<1>2. Adds(x.q, z.q)
  BY <1>1, AddsTrans DEF Leads
<1>3. Has(y.q, "TO_POWERING_OFF") => Has(z.q, "TO_POWERING_OFF")
  BY <1>1, AddsQueue DEF Leads
<1>4. QED
  BY <1>2, <1>3 DEF Leads, Stays

\* An operator that sends at most one message and changes none of those fields.
LEMMA SameLeads ==
    ASSUME NEW x \in State, NEW y \in State, Same(x, y),
           y.q = x.q \/ \E m \in Other : y.q = Append(x.q, m)
    PROVE  Leads(x, y)
<1>1. x.q \in Seq(Messages) /\ Len(x.q) \in Nat
  BY DEF State
<1>2. CASE y.q = x.q
  <2>1. Adds(x.q, y.q)
    BY <1>1, <1>2 DEF Adds
  <2>2. QED
    BY <1>2, <2>1 DEF Leads, Same, Announced, TopologyOk, Tokens, Steps
<1>3. ASSUME NEW m \in Other, y.q = Append(x.q, m)
      PROVE  Leads(x, y)
  <2>1. /\ m \in Own /\ m \in Messages /\ m \notin Goals /\ m # "STOP_CFM" /\ m # "TO_ACTIVE"
        /\ m # "STARTED"
    BY DEF Other, Own, Goals
  <2>2. /\ Adds(x.q, y.q)
        /\ \A k : Has(y.q, k) <=> (Has(x.q, k) \/ k = m)
        /\ Then(x.q, {"TO_ACTIVE"}, "TO_POWERING_OFF")
              => Then(y.q, {"TO_ACTIVE"}, "TO_POWERING_OFF")
        /\ NoGoals(x.q) => NoGoals(y.q)
        /\ Ordered(x.q) => Ordered(y.q)
    BY <1>1, <1>3, <2>1, AppendQueue
  <2>3. Tokens(x) => Tokens(y)
    BY <2>1, <2>2 DEF Same, Tokens
  <2>4. Steps(x) => Steps(y)
    BY Zenon DEF Same, Steps
  <2>5. Announced(x) => Announced(y)
    BY <2>2, Zenon DEF Same, Announced
  <2>6. QED
    BY <2>2, <2>3, <2>4, <2>5 DEF Leads, Same, TopologyOk
<1>4. QED
  BY <1>2, <1>3

\* Timers other than the topology's.
LEMMA TimerLeads ==
    ASSUME NEW x \in State, NEW t \in {"idle", "limbo"}
    PROVE  /\ Leads(x, Arm(x, t)) /\ Leads(x, CancelTimer(x, t))
           /\ t = "limbo" => Stays(x, Arm(x, t)) /\ Stays(x, CancelTimer(x, t))
<1> DEFINE a == Arm(x, t)
           c == CancelTimer(x, t)
<1>1. a \in State /\ c \in State
  BY TimerType DEF Timers
<1>2. /\ Same(x, a) /\ a.q = x.q /\ a.hs = x.hs /\ a.event = x.event /\ a.charged = x.charged
      /\ a.timers = x.timers \cup {t}
      /\ Same(x, c) /\ c.q = x.q /\ c.hs = x.hs /\ c.event = x.event /\ c.charged = x.charged
      /\ c.timers = x.timers \ {t}
  BY DEF Arm, CancelTimer, State, Same
<1> HIDE DEF a, c
<1>3. Leads(x, a) /\ Leads(x, c)
  BY <1>1, <1>2, SameLeads
<1>4. QED
  BY <1>2, <1>3 DEF Stays, a, c

\* A message about neither topology nor activity.
LEMMA SendLeads ==
    ASSUME NEW x \in State, NEW m \in Other
    PROVE  Stays(x, Send(x, m))
<1> DEFINE y == Send(x, m)
<1>1. y \in State
  BY SendType DEF Other, Own
<1>2. /\ Same(x, y) /\ y.q = Append(x.q, m) /\ y.hs = x.hs /\ y.event = x.event
      /\ y.charged = x.charged /\ y.timers = x.timers
  BY DEF Send, State, Same
<1> HIDE DEF y
<1>3. Leads(x, y)
  BY <1>1, <1>2, SameLeads
<1>4. QED
  BY <1>2, <1>3 DEF Stays, y

\* StereoTopology_Start: a topology that is not stopped is left alone.
LEMMA TopologyStartTokens ==
    ASSUME NEW x \in State
    PROVE  LET y == TopologyStart(x)
           IN  /\ y \in State /\ Stays(x, y)
               /\ Tokens(x) => Tokens(y)
               /\ y.topo = IF x.topo = "STOPPED" THEN "STARTING" ELSE x.topo
               /\ y.sys = x.sys /\ y.step = x.step /\ y.early = x.early
<1> DEFINE y == TopologyStart(x)
<1>0. y \in State /\ x.q \in Seq(Messages)
  BY TopologyType DEF State
<1>1. CASE x.topo = "STOPPED"
  <2>1. /\ y.q = Append(x.q, "START_GOAL") /\ y.topo = "STARTING" /\ y.sys = x.sys
        /\ y.step = x.step /\ y.early = x.early /\ y.stopping = x.stopping
        /\ y.timers = x.timers /\ y.hs = x.hs /\ y.event = x.event /\ y.charged = x.charged
        /\ y.bt = x.bt /\ y.cable = x.cable /\ y.status = x.status /\ y.soc = x.soc
    BY <1>1 DEF TopologyStart, Send, State
  <2>2. "START_GOAL" \in Messages /\ "START_GOAL" \in Own /\ "START_GOAL" \in Goals
    BY DEF Messages, Own, ChargerEvents, Goals
  <2> HIDE DEF y
  <2>3. /\ Adds(x.q, y.q)
        /\ \A k : Has(y.q, k) <=> (Has(x.q, k) \/ k = "START_GOAL")
        /\ Then(x.q, {"TO_ACTIVE"}, "TO_POWERING_OFF")
              => Then(y.q, {"TO_ACTIVE"}, "TO_POWERING_OFF")
        /\ (Ordered(x.q) /\ NoGoals(x.q)) => Ordered(y.q)
    BY <1>0, <2>1, <2>2, AppendQueue
  <2>4. Tokens(x) => Tokens(y)
    BY <1>1, <2>1, <2>3 DEF Tokens
  <2>5. Steps(x) => Steps(y)
    BY <1>1, <2>1, Zenon DEF Steps
  <2>6. Announced(x) => Announced(y)
    BY <2>1, <2>3, Zenon DEF Announced
  <2>7. Stays(x, y)
    BY <1>0, <2>1, <2>3, <2>4, <2>5, <2>6 DEF Stays, Leads, TopologyOk
  <2>8. QED
    BY <1>0, <1>1, <2>1, <2>4, <2>7 DEF y
<1>2. CASE x.topo # "STOPPED"
  BY <1>2, LeadsRefl, Zenon DEF TopologyStart
<1>3. QED
  BY <1>1, <1>2, Zenon

\* The part of Stays that holds of every operator of the system state.
Beside(x, y) ==
    /\ y \in State
    /\ y.bt = x.bt /\ y.cable = x.cable /\ y.status = x.status /\ y.soc = x.soc
    /\ y.hs = x.hs /\ y.event = x.event /\ y.charged = x.charged
    /\ ("idle" \in y.timers) <=> ("idle" \in x.timers)
    /\ Adds(x.q, y.q)

\* One such operator after another.
LEMMA BesideTrans ==
    ASSUME NEW x \in State, NEW y, NEW z, Beside(x, y), Beside(y, z)
    PROVE  Beside(x, z)
<1>1. x.q \in Seq(Messages) /\ y.q \in Seq(Messages) /\ z.q \in Seq(Messages)
  BY DEF Beside, State
<1>2. Adds(x.q, z.q)
  BY <1>1, AddsTrans DEF Beside
<1>3. QED
  BY <1>2, Zenon DEF Beside

\* A change of the system state announces what the headset has to know.
LEMMA SetStateAnnounces ==
    ASSUME NEW x \in State, NEW new \in {"limbo", "powering_on", "active", "powering_off"}
    PROVE  LET y == SystemSetState(x, new)
           IN  /\ Beside(x, y) /\ y.sys = new /\ y.step = x.step /\ y.early = x.early
               /\ y.topo = x.topo /\ y.stopping = x.stopping /\ y.timers = x.timers
               /\ Tokens(x) => Tokens(y)
               /\ new = "active" => Announced(y)
               /\ (new # "active" /\ x.sys # "active" /\ Announced(x)) => Announced(y)
               /\ (new = "powering_off" /\ x.sys = "active")
                     => Announced(y) /\ Has(y.q, "TO_POWERING_OFF")
<1> DEFINE y == SystemSetState(x, new)
<1>1. y \in State /\ x.q \in Seq(Messages) /\ Len(x.q) \in Nat
  <2>1. new \in SystemStates
    BY DEF SystemStates
  <2>2. y \in State
    BY <2>1, SystemType, Zenon
  <2>3. x.q \in Seq(Messages) /\ Len(x.q) \in Nat
    BY DEF State
  <2>4. QED
    BY <2>2, <2>3, Zenon
<1> DEFINE c == CASE x.sys = "starting_up" /\ new = "limbo" -> <<"TO_LIMBO">>
                  [] x.sys = "limbo" /\ new = "powering_on" -> <<"TO_POWERING_ON">>
                  [] x.sys = "powering_on" /\ new = "active" -> <<"TO_ACTIVE">>
                  [] x.sys = "active" /\ new = "powering_off" -> <<"TO_POWERING_OFF">>
                  [] OTHER -> <<>>
<1>2. /\ y = [x EXCEPT !.sys = new, !.q = x.q \o c]
      /\ c = <<>> \/ (\E m \in Changes : c = <<m>>)
      /\ (new # "active" => \A m : c = <<m>> => m # "TO_ACTIVE")
      /\ (new = "powering_off" /\ x.sys = "active") => c = <<"TO_POWERING_OFF">>
  <2>1. y = [x EXCEPT !.sys = new, !.q = x.q \o c]
    BY DEF SystemSetState
  <2>2. c = <<>> \/ (\E m \in Changes : c = <<m>>)
    BY DEF Changes
  <2>3. (new = "powering_off" /\ x.sys = "active") => c = <<"TO_POWERING_OFF">>
    OBVIOUS
  <2>4. new # "active" => c \in {<<>>, <<"TO_LIMBO">>, <<"TO_POWERING_ON">>, <<"TO_POWERING_OFF">>}
    OBVIOUS
  <2>5. \A m : <<m>> \in {<<>>, <<"TO_LIMBO">>, <<"TO_POWERING_ON">>, <<"TO_POWERING_OFF">>}
             => m # "TO_ACTIVE"
    OBVIOUS
  <2> HIDE DEF c
  <2>6. QED
    BY <2>1, <2>2, <2>3, <2>4, <2>5
<1> HIDE DEF c
<1>3. /\ y.sys = new /\ y.q = x.q \o c /\ y.step = x.step /\ y.early = x.early
      /\ y.topo = x.topo /\ y.stopping = x.stopping /\ y.timers = x.timers
      /\ y.hs = x.hs /\ y.event = x.event /\ y.charged = x.charged
      /\ y.bt = x.bt /\ y.cable = x.cable /\ y.status = x.status /\ y.soc = x.soc
  BY <1>2 DEF State
<1> HIDE DEF y
<1>4. CASE c = <<>>
  <2>1. y.q = x.q /\ Adds(x.q, y.q)
    BY <1>1, <1>3, <1>4 DEF Adds
  <2>2. ~(new = "powering_off" /\ x.sys = "active")
    BY <1>2, <1>4
  <2>3. QED
    BY <1>1, <1>3, <2>1, <2>2, Zenon DEF Beside, Tokens, Announced, y
<1>5. ASSUME NEW m \in Changes, c = <<m>>
      PROVE  /\ Beside(x, y) /\ (Tokens(x) => Tokens(y))
             /\ new = "active" => Announced(y)
             /\ (new # "active" /\ x.sys # "active" /\ Announced(x)) => Announced(y)
             /\ (new = "powering_off" /\ x.sys = "active")
                   => Announced(y) /\ Has(y.q, "TO_POWERING_OFF")
  <2>1. y.q = Append(x.q, m) /\ m \in Messages /\ m \in Own /\ m \notin Goals /\ m # "STOP_CFM"
        /\ m # "STARTED"
    BY <1>1, <1>3, <1>5 DEF Messages, Own, Changes, ChargerEvents, Goals
  <2>2. (new # "active" => m # "TO_ACTIVE")
        /\ ((new = "powering_off" /\ x.sys = "active") => m = "TO_POWERING_OFF")
    BY <1>2, <1>5
  <2>3. /\ Adds(x.q, y.q)
        /\ \A k : Has(y.q, k) <=> (Has(x.q, k) \/ k = m)
        /\ (Then(x.q, {"TO_ACTIVE"}, "TO_POWERING_OFF") /\ m # "TO_ACTIVE")
              => Then(y.q, {"TO_ACTIVE"}, "TO_POWERING_OFF")
        /\ m = "TO_POWERING_OFF" => Then(y.q, {"TO_ACTIVE"}, "TO_POWERING_OFF")
        /\ NoGoals(x.q) => NoGoals(y.q)
        /\ Ordered(x.q) => Ordered(y.q)
    BY <1>1, <2>1, AppendQueue
  <2>4. Tokens(x) => Tokens(y)
    BY <1>3, <2>1, <2>3 DEF Tokens
  <2>5. QED
    BY <1>1, <1>3, <2>2, <2>3, <2>4 DEF Beside, Announced
<1>6. QED
  BY <1>2, <1>3, <1>4, <1>5 DEF y

\* The rest of power_on_table leaves a topology that is up or coming up, unless
\* the old one was still stopping.
LEMMA FinishPowerOnLeads ==
    ASSUME NEW x \in State
    PROVE  LET y == FinishPowerOn(x)
           IN  /\ Beside(x, y) /\ Announced(y) /\ y.sys = "active"
               /\ (Tokens(x) /\ (x.topo = "STOPPING" => x.early)) => TopologyOk(y)
<1> DEFINE n == [x EXCEPT !.step = "none"]
           t == TopologyStart(n)
           y == SystemSetState(t, "active")
<1>1. /\ n \in State /\ n.step = "none" /\ n.sys = x.sys /\ n.early = x.early
      /\ n.topo = x.topo /\ n.stopping = x.stopping /\ n.timers = x.timers
      /\ n.hs = x.hs /\ n.event = x.event /\ n.charged = x.charged
      /\ n.bt = x.bt /\ n.cable = x.cable /\ n.status = x.status /\ n.soc = x.soc
      /\ n.q = x.q
  BY Zenon DEF State
<1>2. FinishPowerOn(x) = y
  BY DEF FinishPowerOn
<1> HIDE DEF n
<1>3. Beside(x, n) /\ (Tokens(x) => Tokens(n))
  BY <1>1, LeadsRefl, Zenon DEF Beside, Leads, Tokens
<1>4. /\ t \in State /\ Beside(n, t) /\ (Tokens(n) => Tokens(t))
      /\ t.topo = IF n.topo = "STOPPED" THEN "STARTING" ELSE n.topo
      /\ t.step = n.step /\ t.early = n.early
  BY <1>1, TopologyStartTokens DEF Beside, Stays, Leads
<1> HIDE DEF t
<1>5. /\ Beside(t, y) /\ y.sys = "active" /\ y.step = t.step /\ y.early = t.early
      /\ y.topo = t.topo /\ (Tokens(t) => Tokens(y)) /\ Announced(y)
  BY <1>4, SetStateAnnounces, Zenon
<1> HIDE DEF y
<1>6. (x.topo = "STOPPING" => x.early) => (y.topo \in {"STARTING", "STARTED"} \/ y.early)
  BY <1>1, <1>4, <1>5, Zenon DEF State
<1>7. (x.topo = "STOPPING" => x.early) => Steps(y)
  BY <1>1, <1>4, <1>5, <1>6 DEF Steps
<1>8. Beside(x, y)
  BY <1>1, <1>3, <1>4, <1>5, BesideTrans
<1>9. QED
  BY <1>2, <1>3, <1>4, <1>5, <1>7, <1>8 DEF TopologyOk

\* SystemState_PowerOn.
LEMMA PowerOnLeads ==
    ASSUME NEW x \in State
    PROVE  Stays(x, SystemPowerOn(x))
<1> DEFINE a == SystemSetState(x, "powering_on")
           early == x.sys = "powering_off"
           on == [a EXCEPT !.early = early]
           p == [on EXCEPT !.step = "prompt"]
           f == FinishPowerOn(on)
<1>1. CASE x.sys \notin {"powering_off", "limbo"}
  BY <1>1, LeadsRefl DEF SystemPowerOn
<1>2. CASE x.sys \in {"powering_off", "limbo"}
  <2>1. /\ Beside(x, a) /\ a.sys = "powering_on" /\ a.topo = x.topo /\ a.step = x.step
        /\ (Tokens(x) => Tokens(a)) /\ (Announced(x) => Announced(a))
    BY <1>2, SetStateAnnounces
  <2>2. SystemPowerOn(x) \in {p, f}
    BY <1>2, Zenon DEF SystemPowerOn
  <2>3. a \in State /\ early \in BOOLEAN
    BY <2>1 DEF Beside
  <2> HIDE DEF a
  <2>4. /\ on \in State /\ on.early = (x.sys = "powering_off") /\ on.sys = a.sys
        /\ on.topo = a.topo /\ on.stopping = a.stopping /\ on.timers = a.timers
        /\ on.hs = a.hs /\ on.event = a.event /\ on.charged = a.charged
        /\ on.bt = a.bt /\ on.cable = a.cable /\ on.status = a.status /\ on.soc = a.soc
        /\ on.q = a.q
    BY <2>3, ZenonT(40) DEF State
  <2> HIDE DEF on
  <2>5. Beside(x, on) /\ (Tokens(x) => Tokens(on)) /\ (Announced(x) => Announced(on))
    BY <2>1, <2>4, Zenon DEF Beside, Tokens, Announced
  <2>6. Steps(x) => (on.topo = "STOPPING" => on.early)
    BY <1>2, <2>1, <2>4, Zenon DEF Steps
  <2>7. Stays(x, p)
    <3>1. /\ p \in State /\ p.step = "prompt" /\ p.sys = on.sys /\ p.early = on.early
          /\ p.topo = on.topo /\ p.stopping = on.stopping /\ p.timers = on.timers
          /\ p.hs = on.hs /\ p.event = on.event /\ p.charged = on.charged
          /\ p.bt = on.bt /\ p.cable = on.cable /\ p.status = on.status /\ p.soc = on.soc
          /\ p.q = on.q
      BY <2>4, Zenon DEF State
    <3> HIDE DEF p
    <3>2. Beside(x, p) /\ (Tokens(x) => Tokens(p)) /\ (Announced(x) => Announced(p))
      BY <2>5, <3>1 DEF Beside, Tokens, Announced
    <3>3. Steps(x) => Steps(p)
      BY <2>1, <2>4, <2>6, <3>1, Zenon DEF Steps
    <3>4. QED
      BY <1>2, <3>2, <3>3, Zenon DEF Stays, Leads, Beside, TopologyOk
  <2>8. Stays(x, f)
    <3>1. /\ Beside(on, f) /\ Announced(f) /\ f.sys = "active"
          /\ (Tokens(on) /\ (on.topo = "STOPPING" => on.early)) => TopologyOk(f)
      BY <2>4, FinishPowerOnLeads
    <3> HIDE DEF f
    <3>2. Beside(x, f)
      BY <2>5, <3>1, BesideTrans
    <3>3. QED
      BY <1>2, <2>5, <2>6, <3>1, <3>2, Zenon DEF Stays, Leads, Beside, TopologyOk
  <2>9. QED
    BY <2>2, <2>7, <2>8
<1>3. QED
  BY <1>1, <1>2

\* StereoTopology_Stop.
LEMMA TopologyStopTokens ==
    ASSUME NEW x \in State
    PROVE  LET y == TopologyStop(x)
           IN  /\ Beside(x, y) /\ (Tokens(x) => Tokens(y)) /\ (Announced(x) => Announced(y))
               /\ y.sys = x.sys /\ y.step = x.step /\ y.early = x.early
<1> DEFINE y == TopologyStop(x)
<1>0. y \in State /\ x.q \in Seq(Messages) /\ Adds(x.q, x.q)
  BY TopologyType, LeadsRefl, ZenonT(40) DEF State, Leads
<1>1. CASE x.topo = "STARTED"
  <2>1. /\ y.q = x.q /\ y.topo = "STOPPING" /\ y.sys = x.sys /\ y.step = x.step
        /\ y.early = x.early /\ y.stopping = TRUE /\ y.timers = x.timers \cup {"topstop"}
        /\ y.hs = x.hs /\ y.event = x.event /\ y.charged = x.charged
        /\ y.bt = x.bt /\ y.cable = x.cable /\ y.status = x.status /\ y.soc = x.soc
    BY <1>1, Zenon DEF TopologyStop, Arm, State
  <2> HIDE DEF y
  <2>2. NoGoals(x.q) => ~Has(x.q, "STARTED")
    BY Zenon DEF NoGoals, Has, Goals
  <2>3. Tokens(x) => Tokens(y)
    BY <1>1, <2>1, <2>2, Zenon DEF Tokens
  <2>4. QED
    BY <1>0, <2>1, <2>3 DEF Beside, Announced, y
<1>2. CASE x.topo = "STOPPED"
  <2>1. /\ y.q = Append(x.q, "STOP_CFM") /\ y.topo = "STOPPED" /\ y.sys = x.sys
        /\ y.step = x.step /\ y.early = x.early /\ y.stopping = x.stopping
        /\ y.timers = x.timers /\ y.hs = x.hs /\ y.event = x.event /\ y.charged = x.charged
        /\ y.bt = x.bt /\ y.cable = x.cable /\ y.status = x.status /\ y.soc = x.soc
    BY <1>2, ZenonT(40) DEF TopologyStop, Send, State
  <2>2. "STOP_CFM" \in Messages /\ "STOP_CFM" \in Own /\ "STOP_CFM" \notin Goals
    BY Zenon DEF Messages, Own, ChargerEvents, Goals
  <2> HIDE DEF y
  <2>3. /\ Adds(x.q, y.q)
        /\ \A k : Has(y.q, k) <=> (Has(x.q, k) \/ k = "STOP_CFM")
        /\ Then(x.q, {"TO_ACTIVE"}, "TO_POWERING_OFF")
              => Then(y.q, {"TO_ACTIVE"}, "TO_POWERING_OFF")
        /\ NoGoals(x.q) => NoGoals(y.q)
        /\ (Ordered(x.q) /\ NoGoals(x.q)) => Ordered(y.q)
    BY <1>0, <2>1, <2>2, AppendQueue
  <2>4. Tokens(x) => Tokens(y)
    BY <1>2, <2>1, <2>3 DEF Tokens
  <2>5. QED
    BY <1>0, <2>1, <2>3, <2>4 DEF Beside, Announced, y
<1>3. CASE x.topo \notin {"STARTED", "STOPPED"}
  BY <1>0, <1>3 DEF TopologyStop, Beside
<1>4. QED
  BY <1>1, <1>2, <1>3

\* SystemState_PowerOff.
LEMMA PowerOffLeads ==
    ASSUME NEW x \in State
    PROVE  LET y == SystemPowerOff(x)
           IN  /\ Stays(x, y)
               /\ x.sys = "active" => Has(y.q, "TO_POWERING_OFF")
<1> DEFINE a == SystemSetState(x, "powering_off")
           b == [a EXCEPT !.step = "stop", !.early = FALSE]
           y == TopologyStop(b)
<1>1. CASE x.sys \notin {"powering_on", "active"}
  BY <1>1, LeadsRefl, Zenon DEF SystemPowerOff
<1>2. CASE x.sys \in {"powering_on", "active"}
  <2>1. /\ Beside(x, a) /\ a.sys = "powering_off" /\ a.topo = x.topo
        /\ (Tokens(x) => Tokens(a))
        /\ Announced(x) => Announced(a)
        /\ x.sys = "active" => Has(a.q, "TO_POWERING_OFF")
    BY <1>2, SetStateAnnounces
  <2>2. SystemPowerOff(x) = y
    BY <1>2 DEF SystemPowerOff
  <2> HIDE DEF a
  <2>3. /\ b \in State /\ b.step = "stop" /\ b.sys = a.sys
        /\ b.topo = a.topo /\ b.stopping = a.stopping /\ b.timers = a.timers
        /\ b.hs = a.hs /\ b.event = a.event /\ b.charged = a.charged
        /\ b.bt = a.bt /\ b.cable = a.cable /\ b.status = a.status /\ b.soc = a.soc
        /\ b.q = a.q
    BY <2>1, ZenonT(40) DEF State, Beside
  <2> HIDE DEF b
  <2>4. Beside(x, b) /\ (Tokens(x) => Tokens(b)) /\ (Announced(x) => Announced(b))
    BY <2>1, <2>3, Zenon DEF Beside, Tokens, Announced
  <2>5. /\ Beside(b, y) /\ (Tokens(b) => Tokens(y)) /\ (Announced(b) => Announced(y))
        /\ y.sys = b.sys /\ y.step = b.step
    BY <2>3, TopologyStopTokens, Zenon
  <2> HIDE DEF y
  <2>6. Beside(x, y)
    BY <2>4, <2>5, BesideTrans
  <2>7. Steps(y)
    BY <2>1, <2>3, <2>5 DEF Steps
  <2>8. x.sys = "active" => Has(y.q, "TO_POWERING_OFF")
    BY <2>1, <2>3, <2>5, AddsQueue DEF Beside, State
  <2>9. QED
    BY <2>2, <2>4, <2>5, <2>6, <2>7, <2>8 DEF Stays, Leads, Beside, TopologyOk
<1>3. QED
  BY <1>1, <1>2

\* A request to power off, and an event that may ask for it.
LEMMA PowerRequestLeads ==
    ASSUME NEW x \in State
    PROVE  /\ Stays(x, appPowerOffRequest(x)) /\ Same(x, appPowerOffRequest(x))
           /\ Stays(x, appPowerHandlePowerEvent(x))
<1>1. ASSUME NEW y \in {appPowerOffRequest(x), appPowerHandlePowerEvent(x)}, y # x
      PROVE  Stays(x, y) /\ Same(x, y)
  <2>1. y \in State
    BY PowerType
  <2>2. /\ Same(x, y) /\ y.q = Append(x.q, "PREPARE") /\ y.hs = x.hs /\ y.event = x.event
        /\ y.charged = x.charged /\ y.timers = x.timers
    BY <1>1, ZenonT(40) DEF appPowerOffRequest, appPowerHandlePowerEvent, NotifyClients, Send, State, Same
  <2>3. "PREPARE" \in Other
    BY DEF Other, Own, Messages, ChargerEvents, Goals
  <2>4. Leads(x, y)
    BY <2>1, <2>2, <2>3, SameLeads
  <2>5. QED
    BY <2>2, <2>4 DEF Stays
<1>2. Same(x, x)
  BY DEF Same
<1>3. QED
  BY <1>1, <1>2, LeadsRefl

\* The last response: the shutdown is called off, or the chip goes dormant.
LEMMA ResponseLeads ==
    ASSUME NEW x \in State
    PROVE  LET y == appPowerShutdownPrepareResponse(x)
           IN  y.hs = x.hs /\ (Stays(x, y) \/ y.sys = "powered_off")
<1> DEFINE y == [x EXCEPT !.notified = FALSE, !.user = FALSE]
           d == Dormant(x)
<1>1. /\ y \in State /\ Same(x, y) /\ y.q = x.q /\ y.hs = x.hs /\ y.event = x.event
      /\ y.charged = x.charged /\ y.timers = x.timers
  BY Zenon DEF State, Same
<1>2. d.sys = "powered_off" /\ d.hs = x.hs
  BY DEF Dormant, State
<1>3. appPowerShutdownPrepareResponse(x) \in {y, d}
  BY Zenon DEF appPowerShutdownPrepareResponse
<1> HIDE DEF y, d
<1>4. Stays(x, y)
  BY <1>1, SameLeads, Zenon DEF Stays
<1>5. QED
  BY <1>1, <1>2, <1>3, <1>4

\* In LIMBO, with the cable in and the charger disabled, a level of 90% or less
\* has enabled it again.
Recharged(x) ==
    (x.hs = "LIMBO" /\ x.cable /\ x.event = "DISABLED" /\ x.soc <= 90) => ~x.charged

\* headsetSmApplyLimboChargeLed enables the charger whatever it finds.
LEMMA LedLeads ==
    ASSUME NEW x \in State
    PROVE  LET y == ApplyLimboChargeLed(x)
           IN  /\ Leads(x, y) /\ Same(x, y) /\ Recharged(y) /\ y.hs = x.hs
               /\ y.event \in {x.event, "DISABLED"}
               /\ ("idle" \in y.timers) <=> ("idle" \in x.timers)
<1> DEFINE g == [x EXCEPT !.charged = TRUE, !.event = "DISABLED"]
           full == x.soc >= 99 /\ x.event \in {"CHARGING", "ATTACHED"}
           t == IF full THEN g ELSE x
           l == LimboCharge(x)
           y == ApplyLimboChargeLed(x)
<1>0. y \in State
  BY LedType
<1>1. CASE x.hs # "LIMBO"
  BY <1>1, LeadsRefl, Zenon DEF ApplyLimboChargeLed, Recharged, Same
<1>2. CASE x.hs = "LIMBO"
  <2>1. /\ t \in State /\ Same(x, t) /\ t.q = x.q /\ t.hs = x.hs /\ t.timers = x.timers
        /\ t.event \in {x.event, "DISABLED"}
    <3>1. /\ g \in State /\ Same(x, g) /\ g.q = x.q /\ g.hs = x.hs /\ g.timers = x.timers
          /\ g.event = "DISABLED"
      BY Zenon DEF State, Same, ChargerEvents
    <3>2. t \in {x, g} /\ Same(x, x)
      BY DEF Same
    <3> HIDE DEF t, g
    <3>3. QED
      BY <3>1, <3>2
  <2>2. /\ DOMAIN l = DOMAIN t
        /\ \A f \in DOMAIN t \ {"charged", "high"} : l[f] = t[f]
        /\ (ChargeCompleted(t) /\ t.soc <= 90) => l.charged = FALSE
    <3> DEFINE hi == (t.soc >= 95) \/ (t.high /\ t.soc > 92)
    <3>0. l = CASE ChargeCompleted(t) /\ t.soc <= 90 -> [t EXCEPT !.charged = FALSE, !.high = FALSE]
                [] ChargeCompleted(t) /\ t.soc > 90 -> [t EXCEPT !.high = TRUE]
                [] t.event = "CHARGING" -> [t EXCEPT !.high = hi]
                [] t.event = "ATTACHED" -> t
                [] OTHER -> [t EXCEPT !.high = FALSE]
      BY DEF LimboCharge
    <3> HIDE DEF l, t, hi
    <3>1. l \in {[t EXCEPT !.charged = FALSE, !.high = FALSE], [t EXCEPT !.high = TRUE],
                 [t EXCEPT !.high = hi], t, [t EXCEPT !.high = FALSE]}
      BY <3>0
    <3>2. ASSUME ChargeCompleted(t), t.soc <= 90
          PROVE  l = [t EXCEPT !.charged = FALSE, !.high = FALSE]
      <4>1. t.event # "CHARGING" /\ t.event # "ATTACHED"
        BY <3>2 DEF ChargeCompleted
      <4>2. t.soc \in Socs
        BY <2>1 DEF State
      <4>3. ~(t.soc > 90)
        <5>1. t.soc \in 0..100 /\ t.soc <= 90
          BY <3>2, <4>2, SocsType, Zenon
        <5>2. QED
          BY <5>1
      <4>4. QED
        BY <3>0, <3>2, <4>1, <4>3
    <3>3. DOMAIN l = DOMAIN t /\ \A f \in DOMAIN t \ {"charged", "high"} : l[f] = t[f]
      BY <3>1, Zenon
    <3>4. [t EXCEPT !.charged = FALSE, !.high = FALSE].charged = FALSE
      BY <2>1, Zenon DEF State
    <3>5. QED
      BY <3>2, <3>3, <3>4, Zenon
  <2> HIDE DEF l, t
  <2>3. /\ l.q = t.q /\ l.hs = t.hs /\ l.timers = t.timers /\ l.event = t.event
        /\ l.sys = t.sys /\ l.step = t.step /\ l.early = t.early /\ l.topo = t.topo
        /\ l.stopping = t.stopping /\ l.bt = t.bt /\ l.cable = t.cable
        /\ l.status = t.status /\ l.soc = t.soc
    BY <2>1, <2>2 DEF State
  <2>4. /\ DOMAIN y = DOMAIN l
        /\ \A f \in DOMAIN l \ {"led", "timers"} : y[f] = l[f]
        /\ y.timers \in {l.timers, l.timers \ {"limbo"}, l.timers \cup {"limbo"}}
    <3>1. \E c : y \in {l, CancelTimer([l EXCEPT !.led = c], "limbo"),
                        Arm([l EXCEPT !.led = c], "limbo")}
      BY <1>2, Zenon DEF ApplyLimboChargeLed, l
    <3>2. DOMAIN l = DOMAIN t /\ "timers" \in DOMAIN l
      BY <2>1, <2>2 DEF State
    <3> HIDE DEF y
    <3>3. QED
      BY <3>1, <3>2, ZenonT(40) DEF CancelTimer, Arm
  <2> HIDE DEF y
  <2>5. /\ y.q = l.q /\ y.hs = l.hs /\ y.event = l.event /\ y.charged = l.charged
        /\ y.sys = l.sys /\ y.step = l.step /\ y.early = l.early /\ y.topo = l.topo
        /\ y.stopping = l.stopping /\ y.bt = l.bt /\ y.cable = l.cable
        /\ y.status = l.status /\ y.soc = l.soc
    BY <2>1, <2>2, <2>4, Zenon DEF State
  <2>6. Leads(x, y) /\ Same(x, y)
    <3>1. Same(x, y) /\ y.q = x.q
      BY <2>1, <2>3, <2>4, <2>5, SMTT(30) DEF Same
    <3>2. QED
      BY <1>0, <3>1, SameLeads, Zenon
  <2>7. Recharged(y)
    BY <2>2, <2>3, <2>5, Zenon DEF Recharged, ChargeCompleted
  <2>8. QED
    BY <2>1, <2>3, <2>4, <2>5, <2>6, <2>7 DEF y
<1>3. QED
  BY <1>1, <1>2

\* What entering a state of the headset does, with the flag of the link as it is.
Enters(x, y, new) ==
    /\ Leads(x, y)
    /\ y.hs = new /\ Recharged(y) /\ y.event \in {x.event, "DISABLED"}
    /\ (new = "IDLE" /\ y.bt = "none" /\ ~online) => "idle" \in y.timers

\* Leaving a state.
LEMMA ExitStateLeads ==
    ASSUME NEW x \in State
    PROVE  LET y == ExitState(x) IN Leads(x, y) /\ y.event = x.event
<1> DEFINE l == [x EXCEPT !.led = 0]
<1>1. l \in State /\ Same(x, l) /\ l.q = x.q /\ l.event = x.event
  BY DEF State, Same
<1>2. ExitState(x) \in {CancelTimer(l, "limbo"), CancelTimer(x, "idle"), TopologyStart(x), x}
  BY DEF ExitState
<1> HIDE DEF l
<1>3. Leads(x, l)
  BY <1>1, SameLeads, Zenon
<1>4. Leads(l, CancelTimer(l, "limbo")) /\ CancelTimer(l, "limbo").event = x.event
  BY <1>1, TimerLeads DEF Stays
<1>5. Leads(x, CancelTimer(l, "limbo"))
  BY <1>3, <1>4, LeadsTrans
<1>6. Leads(x, CancelTimer(x, "idle")) /\ CancelTimer(x, "idle").event = x.event
  BY TimerLeads, ZenonT(40) DEF CancelTimer, State
<1>7. Leads(x, TopologyStart(x)) /\ TopologyStart(x).event = x.event
  BY TopologyStartTokens DEF Stays
<1>8. QED
  BY <1>2, <1>4, <1>5, <1>6, <1>7, LeadsRefl

\* headsetSetState.
LEMMA SetStateEnters ==
    ASSUME NEW x \in State, NEW new \in HeadsetStates
    PROVE  LET y == SetState(x, new)
           IN  y.hs = new /\ (Enters(x, y, new) \/ (new = "TERMINATING" /\ y.sys = "powered_off"))
<1> DEFINE e == ExitState(x)
           t == [e EXCEPT !.hs = new]
           y == SetState(x, new)
<1>1. Leads(x, e) /\ e.event = x.event /\ e \in State
  BY ExitStateLeads DEF Leads
<1>2. /\ new = "LIMBO" => y = ApplyLimboChargeLed(Arm(t, "limbo"))
      /\ new = "IDLE" => y = StartIdleTimer(t, online)
      /\ new = "TERMINATING" => y = appPowerShutdownPrepareResponse(t)
      /\ new \notin {"LIMBO", "IDLE", "TERMINATING"} => y = t
  BY DEF SetState
<1> HIDE DEF e, y
<1>3. t \in State /\ Same(e, t) /\ t.q = e.q /\ t.event = x.event /\ t.hs = new
  BY <1>1, ZenonT(40) DEF State, Same
<1> HIDE DEF t
<1>4. Leads(x, t)
  BY <1>1, <1>3, SameLeads, LeadsTrans, Zenon
<1>5. CASE new = "LIMBO"
  <2> DEFINE a == Arm(t, "limbo")
  <2>1. Stays(t, a) /\ a \in State
    BY <1>3, TimerLeads, Zenon DEF Stays, Leads
  <2>2. y = ApplyLimboChargeLed(a)
    BY <1>2, <1>5
  <2> HIDE DEF a
  <2>3. Leads(a, y) /\ Recharged(y) /\ y.hs = a.hs /\ y.event \in {a.event, "DISABLED"}
    BY <2>1, <2>2, LedLeads, Zenon
  <2>4. Leads(x, y)
    BY <1>3, <1>4, <2>1, <2>3, LeadsTrans DEF Stays
  <2>5. QED
    BY <1>3, <1>5, <2>1, <2>3, <2>4 DEF Enters, Stays, y
<1>6. CASE new = "IDLE"
  <2>1. y = IF t.bt = "none" /\ ~online THEN Arm(t, "idle") ELSE t
    BY <1>2, <1>3, <1>6, Zenon DEF StartIdleTimer, IdleTimerNeeded
  <2>2. CASE t.bt = "none" /\ ~online
    <3>1. /\ Leads(t, y) /\ y.hs = t.hs /\ y.event = t.event /\ y.bt = t.bt
          /\ "idle" \in y.timers
      BY <1>3, <2>1, <2>2, TimerLeads, Zenon DEF Arm, State
    <3>2. Leads(x, y)
      BY <1>3, <1>4, <3>1, LeadsTrans, Zenon
    <3>3. QED
      BY <1>3, <1>6, <3>1, <3>2 DEF Enters, Recharged, y
  <2>3. CASE ~(t.bt = "none" /\ ~online)
    BY <1>3, <1>4, <1>6, <2>1, <2>3, Zenon DEF Enters, Recharged, y
  <2>4. QED
    BY <2>2, <2>3
<1>7. CASE new = "TERMINATING"
  <2>1. y.hs = t.hs /\ (Stays(t, y) \/ y.sys = "powered_off")
    BY <1>2, <1>3, <1>7, ResponseLeads, Zenon
  <2>2. ASSUME Stays(t, y) PROVE Leads(x, y) /\ y.event = x.event
    BY <1>3, <1>4, <2>2, LeadsTrans, Zenon DEF Stays
  <2>3. QED
    BY <1>3, <1>7, <2>1, <2>2, Zenon DEF Enters, Recharged, y
<1>8. CASE new \notin {"LIMBO", "IDLE", "TERMINATING"}
  BY <1>2, <1>3, <1>4, <1>8, Zenon DEF Enters, Recharged, y
<1>9. QED
  BY <1>5, <1>6, <1>7, <1>8

\* A message of the charger monitor.
LEMMA ChargerLeads ==
    ASSUME NEW x \in State, NEW m \in ChargerEvents
    PROVE  LET y == HandleChargerMessage(x, m)
           IN  /\ Leads(x, y) /\ Recharged(y) /\ y.event \in {m, "DISABLED"}
               /\ \/ y.hs = x.hs /\ (("idle" \in y.timers) <=> ("idle" \in x.timers))
                  \/ y.hs = "LIMBO"
<1> DEFINE p == IF m \in {"ATTACHED", "DETACHED", "COMPLETED"} THEN appPowerHandlePowerEvent(x)
                ELSE x
           t == IF m \in {"ATTACHED", "CHARGING"} /\ p.hs = "POWERING_OFF"
                THEN SetState(p, "LIMBO") ELSE p
           e == [t EXCEPT !.event = m]
           y == ApplyLimboChargeLed(e)
<1>1. Stays(x, p) /\ p \in State
  BY PowerRequestLeads, LeadsRefl DEF Stays, Leads
<1>2. HandleChargerMessage(x, m) = y
  BY Zenon DEF HandleChargerMessage
<1> HIDE DEF p
<1>3. Leads(p, t) /\ (t = p \/ t.hs = "LIMBO")
  <2>1. "LIMBO" \in HeadsetStates
    BY DEF HeadsetStates
  <2>2. Enters(p, SetState(p, "LIMBO"), "LIMBO")
    BY <1>1, <2>1, SetStateEnters
  <2>3. QED
    BY <1>1, <2>2, LeadsRefl DEF Enters
<1> HIDE DEF t
<1>4. t \in State
  BY <1>3 DEF Leads
<1>5. /\ e \in State /\ Same(t, e) /\ e.q = t.q /\ e.event = m /\ e.hs = t.hs
      /\ e.timers = t.timers
  BY <1>4, ZenonT(40) DEF State, Same
<1> HIDE DEF e
<1>6. Leads(t, e)
  BY <1>4, <1>5, SameLeads
<1>7. /\ Leads(e, y) /\ Recharged(y) /\ y.hs = e.hs /\ y.event \in {e.event, "DISABLED"}
      /\ ("idle" \in y.timers) <=> ("idle" \in e.timers)
  BY <1>5, LedLeads
<1> HIDE DEF y
<1>8. Leads(x, t)
  BY <1>1, <1>3, LeadsTrans DEF Stays
<1>9. Leads(x, e)
  BY <1>6, <1>8, LeadsTrans
<1>10. Leads(x, y)
  BY <1>7, <1>9, LeadsTrans, Zenon
<1>11. QED
  BY <1>1, <1>2, <1>3, <1>5, <1>7, <1>10, Zenon DEF Stays

\* The confirmation that the transition awaits.
LEMMA StopCfmLeads ==
    ASSUME NEW x \in State, x.step = "stop", TopologyOk(x), x.topo # "STOPPING"
    PROVE  LET y == HandleStopCfm(x)
           IN  Stays(x, y) \/ Enters(x, y, "LIMBO")
<1> DEFINE l == SetState(x, "LIMBO")
           p == appPowerOffRequest(l)
           t == IF x.hs = "POWERING_OFF" THEN p ELSE x
           n == [t EXCEPT !.step = "none"]
           y == SystemSetState(n, "limbo")
<1>0. x.sys = "powering_off"
  BY DEF TopologyOk, Steps
<1>1. ASSUME x.hs = "POWERING_OFF" PROVE Enters(x, p, "LIMBO") /\ Same(x, p)
  <2> DEFINE o == [x EXCEPT !.hs = "LIMBO"]
             a == Arm(o, "limbo")
  <2>1. "LIMBO" \in HeadsetStates
    BY Zenon DEF HeadsetStates
  <2>2. Enters(x, l, "LIMBO") /\ l \in State
    <3>1. Enters(x, l, "LIMBO")
      BY <2>1, SetStateEnters, Zenon
    <3> HIDE DEF l
    <3>2. QED
      BY <3>1 DEF Enters, Leads
  <2>3. l = ApplyLimboChargeLed(a)
    BY <1>1 DEF SetState, ExitState
  <2>4. a \in State /\ Same(x, a)
    BY <2>1, ZenonT(40) DEF State, Same, Arm, Timers
  <2> HIDE DEF l, a
  <2>5. Same(a, l)
    BY <2>3, <2>4, LedLeads
  <2>6. Stays(l, p) /\ Same(l, p)
    BY <2>2, PowerRequestLeads
  <2> HIDE DEF p
  <2>7. Same(x, p)
    BY <2>4, <2>5, <2>6, Zenon DEF Same
  <2>8. Leads(x, p)
    BY <2>2, <2>6, LeadsTrans, Zenon DEF Enters, Stays
  <2>9. Enters(x, p, "LIMBO")
    BY <2>2, <2>6, <2>8 DEF Enters, Stays, Leads, Recharged
  <2>10. QED
    BY <2>7, <2>9
<1>2. Stays(x, x) /\ Same(x, x)
  BY LeadsRefl DEF Same
<1>3. (Stays(x, t) \/ Enters(x, t, "LIMBO")) /\ Same(x, t)
  BY <1>1, <1>2
<1>4. HandleStopCfm(x) = y
  BY Zenon DEF HandleStopCfm
<1> HIDE DEF t
<1>5. Leads(x, t) /\ t \in State
  BY <1>3 DEF Stays, Enters, Leads
<1>6. /\ n \in State /\ n.step = "none" /\ n.sys = t.sys
      /\ n.topo = t.topo /\ n.stopping = t.stopping /\ n.timers = t.timers
      /\ n.hs = t.hs /\ n.event = t.event /\ n.charged = t.charged
      /\ n.bt = t.bt /\ n.cable = t.cable /\ n.status = t.status /\ n.soc = t.soc
      /\ n.q = t.q
  BY <1>5 DEF State
<1> HIDE DEF n
<1>7. Beside(t, n) /\ Tokens(n) /\ (Announced(t) => Announced(n))
  BY <1>5, <1>6, LeadsRefl, Zenon DEF Beside, Leads, TopologyOk, Tokens, Announced
<1>8. /\ Beside(n, y) /\ y.sys = "limbo" /\ y.step = n.step /\ y.topo = n.topo /\ Tokens(y)
      /\ (n.sys # "active" /\ Announced(n)) => Announced(y)
  BY <1>6, <1>7, SetStateAnnounces, Zenon
<1> HIDE DEF y
<1>9. Beside(t, y)
  BY <1>5, <1>7, <1>8, BesideTrans
<1>10. t.sys = "powering_off" /\ t.topo # "STOPPING"
  BY <1>0, <1>3 DEF Same
<1>11. Steps(y)
  BY <1>6, <1>8, <1>10, Zenon DEF Steps
<1>12. Stays(t, y)
  BY <1>6, <1>7, <1>8, <1>9, <1>10, <1>11, Zenon DEF Stays, Leads, Beside, TopologyOk
<1>13. Leads(x, y)
  BY <1>5, <1>12, LeadsTrans DEF Stays
<1>14. QED
  BY <1>3, <1>4, <1>12, <1>13 DEF Stays, Leads, Enters, Recharged

-----------------------------------------------------------------------------
(* The invariant, and a message taken off the queue. *)

\* With no handset, every connection still to be handled has its end behind it.
Ended(x) == x.bt = "none" => Then(x.q, {"CONNECTED"}, "DISCONNECTED")

Faulty(x) == x.cable /\ x.status = "DISABLED_ERROR"

\* The last word of a charger that is disabled is that it is.
Reported(x) == Faulty(x) => Then(x.q, ChargerEvents \ {"DISABLED"}, "DISABLED")
Disabled(x) == Faulty(x) => x.event = "DISABLED" \/ Has(x.q, "DISABLED")

\* A charger to be enabled again has a message coming that does it.
Recharging(x) ==
    (Faulty(x) /\ x.hs = "LIMBO" /\ x.charged /\ x.soc <= 90) => Has(x.q, "SOC") \/ Has(x.q, "DISABLED")

\* The headset is in an active state only while the system is, or the power-off is
\* announced to it.
Leaving(x) ==
    x.hs \in {"PAIRING", "IDLE", "BUSY"} => x.sys = "active" \/ Has(x.q, "TO_POWERING_OFF")

\* An idle helmet has its timer, or a message coming that starts it or ends IDLE;
\* t is what the headset was told.
Timed(x, t) ==
    (x.hs = "IDLE" /\ x.bt = "none" /\ ~t) =>
        \/ "idle" \in x.timers
        \/ Has(x.q, "DISCONNECTED") \/ Has(x.q, "POWER_OFF") \/ Has(x.q, "TO_POWERING_OFF")

\* The part of the invariant that taking off a message does not disturb.
Base(x) == TopologyOk(x) /\ Announced(x) /\ Ended(x) /\ Reported(x)

Sound(x, t) ==
    Base(x) /\ Disabled(x) /\ Recharging(x) /\ Leaving(x) /\ Timed(x, t)

\* A handler keeps what the queue promises.
LEMMA LeadsBase ==
    ASSUME NEW x \in State, NEW y, Leads(x, y), Base(x)
    PROVE  /\ Base(y)
           /\ \A k : Has(x.q, k) => Has(y.q, k)
<1>1. x.q \in Seq(Messages) /\ y.q \in Seq(Messages)
  BY DEF Leads, State
<1>2. {"CONNECTED"} \cap Own = {} /\ (ChargerEvents \ {"DISABLED"}) \cap Own = {}
  BY DEF Own
<1>3. /\ \A k : Has(x.q, k) => Has(y.q, k)
      /\ \A a, k : (Then(x.q, a, k) /\ a \cap Own = {}) => Then(y.q, a, k)
  BY <1>1, AddsQueue DEF Leads
<1>4. Ended(y)
  BY <1>2, <1>3 DEF Base, Ended, Leads
<1>5. Reported(y)
  BY <1>2, <1>3 DEF Base, Reported, Faulty, Leads
<1>6. QED
  BY <1>3, <1>4, <1>5, Zenon DEF Base, Leads

\* A handler that changes neither state, charge indication nor idle timer.
LEMMA StaysSound ==
    ASSUME NEW x \in State, NEW y, NEW t, Stays(x, y), Base(x)
    PROVE  /\ Base(y)
           /\ Disabled(x) => Disabled(y)
           /\ Recharging(x) => Recharging(y)
           /\ Leaving(x) => Leaving(y)
           /\ Timed(x, t) => Timed(y, t)
<1>1. Base(y) /\ \A k : Has(x.q, k) => Has(y.q, k)
  BY LeadsBase, Zenon DEF Stays
<1>2. Disabled(x) => Disabled(y)
  BY <1>1, Zenon DEF Disabled, Faulty, Stays, Leads
<1>3. Recharging(x) => Recharging(y)
  BY <1>1, Zenon DEF Recharging, Faulty, Stays, Leads
<1>4. Leaving(x) => Leaving(y)
  BY <1>1, Zenon DEF Leaving, Stays, Leads
<1>5. Timed(x, t) => Timed(y, t)
  BY <1>1 DEF Timed, Stays, Leads
<1>6. QED
  BY <1>1, <1>2, <1>3, <1>4, <1>5

\* A handler that enters a state.
LEMMA EntersSound ==
    ASSUME NEW x \in State, NEW y, NEW t, NEW new, Enters(x, y, new), Base(x), Disabled(x),
           new \in {"PAIRING", "IDLE", "BUSY"} => x.sys = "active" \/ Has(x.q, "TO_POWERING_OFF"),
           ~t => ~online
    PROVE  Sound(y, t)
<1>1. Base(y) /\ \A k : Has(x.q, k) => Has(y.q, k)
  BY LeadsBase, Zenon DEF Enters
<1>2. Disabled(y)
  BY <1>1 DEF Disabled, Faulty, Enters, Leads
<1>3. Recharging(y)
  BY <1>2, Zenon DEF Recharging, Disabled, Recharged, Enters, Faulty
<1>4. Leaving(y)
  BY <1>1, Zenon DEF Leaving, Enters, Leads
<1>5. Timed(y, t)
  BY DEF Timed, Enters
<1>6. QED
  BY <1>1, <1>2, <1>3, <1>4, <1>5 DEF Sound

\* The front message m is taken off x, which leaves y.
LEMMA Popped ==
    ASSUME NEW x \in State, NEW t, Sound(x, t), x.q # <<>>, NEW y \in State, NEW m,
           y = [x EXCEPT !.q = Tail(@)], m = Head(x.q)
    PROVE  /\ Base(y) /\ m \in Messages
           /\ m # "DISABLED" => Disabled(y)
           /\ m \in ChargerEvents \ {"DISABLED"} => (Faulty(y) => Has(y.q, "DISABLED"))
           /\ m \notin {"SOC", "DISABLED"} => Recharging(y)
           /\ m # "TO_POWERING_OFF" => Leaving(y)
           /\ m \notin {"DISCONNECTED", "POWER_OFF", "TO_POWERING_OFF"} => Timed(y, t)
           /\ m = "TO_ACTIVE" => y.sys = "active" \/ Has(y.q, "TO_POWERING_OFF")
           /\ m = "CONNECTED" => (y.bt = "none" => Has(y.q, "DISCONNECTED"))
           /\ m \in Goals => y.topo = "STARTING" /\ NoGoals(y.q) /\ ~Has(y.q, "STOP_CFM")
           /\ m = "STARTED" => ~y.stopping
           /\ m = "STOP_CFM" => y.topo # "STOPPING"
<1>1. /\ y.q = Tail(x.q) /\ y.hs = x.hs /\ y.sys = x.sys /\ y.step = x.step /\ y.early = x.early
      /\ y.topo = x.topo /\ y.stopping = x.stopping /\ y.timers = x.timers
      /\ y.event = x.event /\ y.charged = x.charged
      /\ y.bt = x.bt /\ y.cable = x.cable /\ y.status = x.status /\ y.soc = x.soc
  BY DEF State
<1>2. x.q \in Seq(Messages)
  BY DEF State
<1>3. /\ m \in Messages
      /\ \A k : Has(x.q, k) <=> (Has(y.q, k) \/ k = m)
      /\ \A a, k : Then(x.q, a, k) => Then(y.q, a, k)
      /\ \A a, k : (Then(x.q, a, k) /\ m \in a) => Has(y.q, k)
      /\ NoGoals(x.q) => NoGoals(y.q) /\ m \notin Goals
      /\ Ordered(x.q) => Ordered(y.q)
      /\ (Ordered(x.q) /\ m \in Goals) => NoGoals(y.q) /\ ~Has(y.q, "STOP_CFM")
  BY <1>1, <1>2, TailQueue
<1>4. TopologyOk(y)
  <2>1. Tokens(y)
    BY <1>1, <1>3 DEF Sound, Base, TopologyOk, Tokens
  <2>2. Steps(y)
    BY <1>1 DEF Sound, Base, TopologyOk, Steps
  <2>3. QED
    BY <2>1, <2>2 DEF TopologyOk
<1>5. Announced(y) /\ Ended(y) /\ Reported(y)
  BY <1>1, <1>3 DEF Sound, Base, Announced, Ended, Reported, Faulty
<1>6. m # "DISABLED" => Disabled(y)
  BY <1>1, <1>3 DEF Sound, Disabled, Faulty
<1>7. m \in ChargerEvents \ {"DISABLED"} => (Faulty(y) => Has(y.q, "DISABLED"))
  BY <1>1, <1>3 DEF Sound, Base, Reported, Faulty
<1>8. m \notin {"SOC", "DISABLED"} => Recharging(y)
  BY <1>1, <1>3 DEF Sound, Recharging, Faulty
<1>9. m # "TO_POWERING_OFF" => Leaving(y)
  BY <1>1, <1>3 DEF Sound, Leaving
<1>10. m \notin {"DISCONNECTED", "POWER_OFF", "TO_POWERING_OFF"} => Timed(y, t)
  BY <1>1, <1>3 DEF Sound, Timed
<1>11. m = "TO_ACTIVE" => y.sys = "active" \/ Has(y.q, "TO_POWERING_OFF")
  BY <1>1, <1>3 DEF Sound, Base, Announced
<1>12. m = "CONNECTED" => (y.bt = "none" => Has(y.q, "DISCONNECTED"))
  BY <1>1, <1>3 DEF Sound, Base, Ended
<1>13. m \in Goals => y.topo = "STARTING" /\ NoGoals(y.q) /\ ~Has(y.q, "STOP_CFM")
  BY <1>1, <1>3 DEF Sound, Base, TopologyOk, Tokens
<1>14. m = "STARTED" => ~y.stopping
  BY <1>1, <1>3 DEF Sound, Base, TopologyOk, Tokens
<1>15. m = "STOP_CFM" => y.topo # "STOPPING"
  BY <1>1, <1>3 DEF Sound, Base, TopologyOk, Tokens
<1>16. QED
  BY <1>3, <1>4, <1>5, <1>6, <1>7, <1>8, <1>9, <1>10, <1>11, <1>12, <1>13, <1>14, <1>15 DEF Base

\* The start goal runs: STARTED follows it.
LEMMA StartedSent ==
    ASSUME NEW x \in State, x.topo = "STARTING", NoGoals(x.q), ~x.stopping
    PROVE  Stays(x, Send(x, "STARTED"))
<1> DEFINE y == Send(x, "STARTED")
<1>1. "STARTED" \in Messages /\ "STARTED" \in Own
  BY DEF Messages, Own, ChargerEvents
<1>2. y \in State /\ x.q \in Seq(Messages)
  BY <1>1, SendType, Zenon DEF State
<1>3. /\ y.q = Append(x.q, "STARTED") /\ y.topo = x.topo /\ y.hs = x.hs /\ y.sys = x.sys
      /\ y.step = x.step /\ y.early = x.early /\ y.stopping = x.stopping
      /\ y.timers = x.timers /\ y.event = x.event /\ y.charged = x.charged
      /\ y.bt = x.bt /\ y.cable = x.cable /\ y.status = x.status /\ y.soc = x.soc
  BY DEF Send, State
<1> HIDE DEF y
<1>4. /\ Adds(x.q, y.q)
      /\ \A k : Has(y.q, k) <=> (Has(x.q, k) \/ k = "STARTED")
      /\ Then(x.q, {"TO_ACTIVE"}, "TO_POWERING_OFF")
            => Then(y.q, {"TO_ACTIVE"}, "TO_POWERING_OFF")
      /\ Ordered(x.q) => Ordered(y.q)
  <2> DEFINE p == Append(x.q, "STARTED")
  <2>1. "STARTED" \notin {"TO_ACTIVE"}
    OBVIOUS
  <2>2. /\ Adds(x.q, p)
        /\ \A k : Has(p, k) <=> (Has(x.q, k) \/ k = "STARTED")
        /\ \A a, k : (Then(x.q, a, k) /\ "STARTED" \notin a) => Then(p, a, k)
        /\ Ordered(x.q) => Ordered(p)
    BY <1>1, <1>2, AppendQueue, Zenon
  <2>3. QED
    BY <1>3, <2>1, <2>2, Zenon
<1>5. Tokens(x) => Tokens(y)
  BY <1>3, <1>4, Zenon DEF Tokens
<1>6. Steps(x) => Steps(y)
  BY <1>3, Zenon DEF Steps
<1>7. Announced(x) => Announced(y)
  BY <1>3, <1>4, Zenon DEF Announced
<1>8. QED
  BY <1>2, <1>3, <1>4, <1>5, <1>6, <1>7, Zenon DEF Stays, Leads, TopologyOk, y

\* Every handler keeps the invariant, or the chip goes dormant.
LEMMA HandleSound ==
    ASSUME NEW r \in State, NEW t, Sound(r, t), r.q # <<>>, ~t => ~online
    PROVE  LET y == Handle([r EXCEPT !.q = Tail(@)], Head(r.q))
           IN  Sound(y, t) \/ y.sys = "powered_off"
<1> DEFINE x == [r EXCEPT !.q = Tail(@)]
           m == Head(r.q)
           y == Handle(x, m)
<1>0. x \in State
  <2>1. r.q \in Seq(Messages)
    BY Zenon DEF State
  <2>2. Tail(r.q) \in Seq(Messages)
    BY <2>1, TailQueue
  <2>3. QED
    BY <2>2, ZenonT(40) DEF State
<1>1. /\ Base(x) /\ m \in Messages
      /\ m # "DISABLED" => Disabled(x)
      /\ m \in ChargerEvents \ {"DISABLED"} => (Faulty(x) => Has(x.q, "DISABLED"))
      /\ m \notin {"SOC", "DISABLED"} => Recharging(x)
      /\ m # "TO_POWERING_OFF" => Leaving(x)
      /\ m \notin {"DISCONNECTED", "POWER_OFF", "TO_POWERING_OFF"} => Timed(x, t)
      /\ m = "TO_ACTIVE" => x.sys = "active" \/ Has(x.q, "TO_POWERING_OFF")
      /\ m = "CONNECTED" => (x.bt = "none" => Has(x.q, "DISCONNECTED"))
      /\ m \in Goals => x.topo = "STARTING" /\ NoGoals(x.q) /\ ~Has(x.q, "STOP_CFM")
      /\ m = "STARTED" => ~x.stopping
      /\ m = "STOP_CFM" => x.topo # "STOPPING"
  BY <1>0, Popped, ZenonT(40)
<1>2. \A h \in {"LIMBO", "POWERING_ON", "IDLE", "PAIRING", "POWERING_OFF", "BUSY"} :
         Enters(x, SetState(x, h), h)
  BY <1>0, SetStateEnters DEF HeadsetStates
<1> SUFFICES Sound(y, t) \/ y.sys = "powered_off"
  OBVIOUS
<1> HIDE DEF x, m, y
<1>3. ASSUME m \notin {"SOC", "TO_POWERING_OFF", "DISCONNECTED", "POWER_OFF"}, m \notin ChargerEvents,
             Stays(x, y)
      PROVE  Sound(y, t)
  <2>1. Disabled(x) /\ Recharging(x) /\ Leaving(x) /\ Timed(x, t)
    BY <1>1, <1>3, Zenon DEF ChargerEvents
  <2>2. QED
    BY <1>0, <1>1, <1>3, <2>1, StaysSound, Zenon DEF Sound
<1>4. CASE m \in Changes
  <2>1. m \notin ChargerEvents /\ m # "DISABLED"
    BY <1>4 DEF Changes, ChargerEvents
  <2>2. y = HandleStateChange(x, m)
    BY <1>4 DEF Handle, Changes, ChargerEvents, y
  <2>3. PICK h \in {"LIMBO", "POWERING_ON", "IDLE", "PAIRING", "POWERING_OFF"} :
           y = SetState(x, h) /\ (h \in {"IDLE", "PAIRING"} => m = "TO_ACTIVE")
    BY <1>4, <2>2, Zenon DEF HandleStateChange, Changes
  <2>4. Enters(x, y, h)
    BY <1>2, <2>3, Zenon
  <2>5. QED
    BY <1>0, <1>1, <2>1, <2>3, <2>4, EntersSound
<1>5. CASE m \in ChargerEvents
  <2>1. y = HandleChargerMessage(x, m)
    BY <1>5 DEF Handle, Changes, ChargerEvents, y
  <2>2. /\ Leads(x, y) /\ Recharged(y) /\ y.event \in {m, "DISABLED"}
        /\ \/ y.hs = x.hs /\ (("idle" \in y.timers) <=> ("idle" \in x.timers))
           \/ y.hs = "LIMBO"
    BY <1>0, <1>5, <2>1, ChargerLeads, Zenon
  <2>3. Base(y) /\ \A k : Has(x.q, k) => Has(y.q, k)
    BY <1>0, <1>1, <2>2, LeadsBase, Zenon
  <2>4. Leaving(x) /\ Timed(x, t)
    BY <1>1, <1>5, Zenon DEF ChargerEvents
  <2>5. Disabled(y)
    BY <1>1, <1>5, <2>2, <2>3, Zenon DEF Disabled, Faulty, Leads
  <2>6. Recharging(y)
    BY <2>2, <2>5, Zenon DEF Recharging, Disabled, Recharged, Faulty
  <2>7. Leaving(y) /\ Timed(y, t)
    BY <2>2, <2>3, <2>4 DEF Leaving, Timed, Leads
  <2>8. QED
    BY <2>3, <2>5, <2>6, <2>7 DEF Sound
<1>6. CASE m = "SOC"
  <2>1. y = ApplyLimboChargeLed(x)
    BY <1>6, Zenon DEF Handle, Changes, ChargerEvents, y
  <2>2. /\ Leads(x, y) /\ Recharged(y) /\ y.event \in {x.event, "DISABLED"} /\ y.hs = x.hs
        /\ ("idle" \in y.timers) <=> ("idle" \in x.timers)
    BY <1>0, <2>1, LedLeads
  <2>3. Base(y) /\ \A k : Has(x.q, k) => Has(y.q, k)
    BY <1>0, <1>1, <2>2, LeadsBase, ZenonT(40)
  <2>4. Disabled(x) /\ Leaving(x) /\ Timed(x, t)
    BY <1>1, <1>6, Zenon
  <2>5. Disabled(y)
    BY <2>2, <2>3, <2>4, Zenon DEF Disabled, Faulty, Leads
  <2>6. Recharging(y)
    BY <2>2, <2>5, Zenon DEF Recharging, Disabled, Recharged, Faulty
  <2>7. Leaving(y) /\ Timed(y, t)
    BY <2>2, <2>3, <2>4 DEF Leaving, Timed, Leads
  <2>8. QED
    BY <2>3, <2>5, <2>6, <2>7 DEF Sound
<1>7. CASE m = "PREPARE"
  <2>1. y = HandlePrepareInd(x)
    BY <1>7 DEF Handle, Changes, ChargerEvents, y
  <2>2. CASE x.hs = "LIMBO"
    <3>1. y = appPowerShutdownPrepareResponse(x)
      BY <2>1, <2>2 DEF HandlePrepareInd
    <3>2. Stays(x, y) \/ y.sys = "powered_off"
      BY <1>0, <3>1, ResponseLeads
    <3>3. QED
      BY <1>3, <1>7, <3>2 DEF ChargerEvents
  <2>3. CASE x.hs # "LIMBO"
    <3>1. y = SetState(x, "TERMINATING")
      BY <2>1, <2>3 DEF HandlePrepareInd
    <3>2. Enters(x, y, "TERMINATING") \/ y.sys = "powered_off"
      BY <1>0, <3>1, SetStateEnters, Zenon DEF HeadsetStates
    <3>3. Enters(x, y, "TERMINATING") => Sound(y, t)
      BY <1>0, <1>1, <1>7, EntersSound
    <3>4. QED
      BY <3>2, <3>3
  <2>4. QED
    BY <2>2, <2>3
<1>8. CASE m \in {"REGION", "UI_ON", "UI_OFF", "UI_PAIR"}
  <2>1. y \in {x, appPowerHandlePowerEvent(x), SystemPowerOn(x), Send(x, "POWER_OFF"),
               Send(x, "PAIR_HANDSET")}
    BY <1>8 DEF Handle, Changes, ChargerEvents, y
  <2>2. "POWER_OFF" \in Other /\ "PAIR_HANDSET" \in Other
    BY Zenon DEF Other, Own, Messages, ChargerEvents, Goals
  <2>3. Stays(x, y)
    BY <1>0, <2>1, <2>2, LeadsRefl, PowerRequestLeads, PowerOnLeads, SendLeads, Zenon
  <2>4. QED
    BY <1>3, <1>8, <2>3 DEF ChargerEvents
<1>9. CASE m = "POWER_OFF"
  <2>1. y = IF x.hs \notin {"NULL", "LIMBO"} THEN SystemPowerOff(x) ELSE x
    BY <1>9, Zenon DEF Handle, Changes, ChargerEvents, y
  <2>2. Stays(x, y)
    BY <1>0, <2>1, LeadsRefl, PowerOffLeads, Zenon
  <2>3. Base(y) /\ \A k : Has(x.q, k) => Has(y.q, k)
    BY <1>0, <1>1, <2>2, LeadsBase, Zenon DEF Stays
  <2>4. Disabled(x) /\ Recharging(x) /\ Leaving(x)
    BY <1>1, <1>9, Zenon
  <2>5. Disabled(y) /\ Recharging(y) /\ Leaving(y)
    BY <1>0, <1>1, <2>2, <2>4, StaysSound, Zenon
  <2>6. x.hs = "IDLE" => Has(y.q, "TO_POWERING_OFF")
    <3>1. (x.hs = "IDLE" /\ x.sys = "active") => Has(y.q, "TO_POWERING_OFF")
      BY <1>0, <2>1, PowerOffLeads
    <3>2. (x.hs = "IDLE" /\ x.sys # "active") => Has(x.q, "TO_POWERING_OFF")
      BY <2>4 DEF Leaving
    <3>3. QED
      BY <2>3, <3>1, <3>2, Zenon
  <2>7. Timed(y, t)
    BY <2>2, <2>6 DEF Timed, Stays
  <2>8. QED
    BY <2>3, <2>5, <2>7 DEF Sound
<1>10. CASE m \in {"PAIR_HANDSET", "PAIR_CFM", "AUDIO"}
  <2>1. \/ y = x
        \/ /\ x.hs \in {"PAIRING", "IDLE", "BUSY"}
           /\ \E h \in {"PAIRING", "IDLE", "BUSY"} : y = SetState(x, h)
    BY <1>10, Zenon DEF Handle, Changes, ChargerEvents, DetermineCoreState, y
  <2>2. y = x => Sound(y, t)
    BY <1>0, <1>3, <1>10, LeadsRefl, Zenon DEF ChargerEvents
  <2>3. ASSUME x.hs \in {"PAIRING", "IDLE", "BUSY"}, NEW h \in {"PAIRING", "IDLE", "BUSY"},
               y = SetState(x, h)
        PROVE  Sound(y, t)
    <3>1. Enters(x, y, h)
      BY <1>2, <2>3, Zenon
    <3>2. Disabled(x) /\ (x.sys = "active" \/ Has(x.q, "TO_POWERING_OFF"))
      BY <1>1, <1>10, <2>3 DEF Leaving
    <3>3. QED
      BY <1>0, <1>1, <3>1, <3>2, EntersSound
  <2>4. QED
    BY <2>1, <2>2, <2>3
<1>11. CASE m = "CONNECTED" \/ m = "DISCONNECTED"
  <2> DEFINE a == IF m = "CONNECTED" THEN IF x.hs = "IDLE" THEN CancelTimer(x, "idle") ELSE x
                  ELSE StartIdleTimer(x, online)
  <2>1. y = a
    BY <1>11 DEF Handle, Changes, ChargerEvents, y
  <2>2. y \in {x, CancelTimer(x, "idle"), Arm(x, "idle")}
    BY <2>1, Zenon DEF StartIdleTimer
  <2>3. Leads(x, y)
    BY <1>0, <2>2, LeadsRefl, TimerLeads
  <2>4. /\ y.hs = x.hs /\ y.event = x.event /\ y.charged = x.charged /\ y.sys = x.sys
        /\ y.bt = x.bt
    BY <1>0, <2>2, Zenon DEF CancelTimer, Arm, State
  <2>5. Base(y) /\ \A k : Has(x.q, k) => Has(y.q, k)
    BY <1>0, <1>1, <2>3, LeadsBase, Zenon
  <2>6. Disabled(x) /\ Recharging(x) /\ Leaving(x)
    BY <1>1, <1>11, Zenon
  <2>7. Disabled(y) /\ Recharging(y) /\ Leaving(y)
    BY <2>3, <2>4, <2>5, <2>6, Zenon DEF Disabled, Recharging, Leaving, Faulty, Leads
  <2>8. Timed(y, t)
    <3>1. CASE m = "CONNECTED"
      BY <1>1, <2>4, <2>5, <3>1, Zenon DEF Timed
    <3>2. CASE m = "DISCONNECTED"
      <4>1. (x.hs = "IDLE" /\ x.bt = "none" /\ ~online) => y = Arm(x, "idle")
        BY <2>1, <3>2 DEF StartIdleTimer, IdleTimerNeeded
      <4>2. "idle" \in Arm(x, "idle").timers
        BY <1>0 DEF Arm, State
      <4>3. QED
        BY <2>4, <4>1, <4>2 DEF Timed
    <3>3. QED
      BY <1>11, <3>1, <3>2, Zenon
  <2>9. QED
    BY <2>5, <2>7, <2>8 DEF Sound
<1>12. CASE m = "START_GOAL"
  <2>1. y = IF x.stopping THEN x ELSE Send(x, "STARTED")
    BY <1>12, Zenon DEF Handle, Changes, ChargerEvents, y
  <2>2. CASE x.stopping
    BY <1>0, <1>3, <1>12, <2>1, <2>2, LeadsRefl DEF ChargerEvents
  <2>3. CASE ~x.stopping
    <3>1. x.topo = "STARTING" /\ NoGoals(x.q)
      BY <1>1, <1>12, Zenon DEF Goals
    <3>2. Stays(x, y)
      BY <1>0, <2>1, <2>3, <3>1, StartedSent, Zenon
    <3>3. QED
      BY <1>3, <1>12, <3>2, Zenon DEF ChargerEvents
  <2>4. QED
    BY <2>2, <2>3
<1>13. CASE m = "STARTED"
  <2>1. y = [x EXCEPT !.topo = "STARTED"]
    BY <1>13 DEF Handle, Changes, ChargerEvents, y
  <2>2. /\ y \in State /\ y.topo = "STARTED" /\ y.q = x.q /\ y.hs = x.hs /\ y.sys = x.sys
        /\ y.step = x.step /\ y.early = x.early /\ y.stopping = x.stopping
        /\ y.timers = x.timers /\ y.event = x.event /\ y.charged = x.charged
        /\ y.bt = x.bt /\ y.cable = x.cable /\ y.status = x.status /\ y.soc = x.soc
    BY <1>0, <2>1, ZenonT(40) DEF State
  <2>3. x.topo = "STARTING" /\ NoGoals(x.q) /\ ~Has(x.q, "STOP_CFM")
    BY <1>1, <1>13, Zenon DEF Goals
  <2>4. TopologyOk(x) => TopologyOk(y)
    BY <2>2, <2>3, Zenon DEF TopologyOk, Tokens, Steps
  <2>5. Adds(x.q, y.q)
    BY <1>0, <2>2, LeadsRefl, Zenon DEF Leads
  <2>6. Stays(x, y)
    BY <2>2, <2>4, <2>5 DEF Stays, Leads, Announced
  <2>7. QED
    BY <1>3, <1>13, <2>6 DEF ChargerEvents
<1>14. CASE m = "STOP_CFM"
  <2>1. y = IF x.step = "stop" THEN HandleStopCfm(x) ELSE x
    BY <1>14, Zenon DEF Handle, Changes, ChargerEvents, y
  <2>2. TopologyOk(x) /\ x.topo # "STOPPING" /\ Disabled(x)
    BY <1>1, <1>14 DEF Base
  <2>3. Stays(x, y) \/ Enters(x, y, "LIMBO")
    BY <1>0, <2>1, <2>2, LeadsRefl, StopCfmLeads, Zenon
  <2>4. Enters(x, y, "LIMBO") => Sound(y, t)
    BY <1>0, <1>1, <2>2, EntersSound, Zenon
  <2>5. Stays(x, y) => Sound(y, t)
    BY <1>3, <1>14, Zenon DEF ChargerEvents
  <2>6. QED
    BY <2>3, <2>4, <2>5
<1>15. QED
  BY <1>1, <1>4, <1>5, <1>6, <1>7, <1>8, <1>9, <1>10, <1>11, <1>12, <1>13, <1>14, Zenon DEF Messages

-----------------------------------------------------------------------------
(* The steps. *)

\* A message is sent that is about neither topology nor activity.
LEMMA SendSound ==
    ASSUME NEW x \in State, NEW t, TopologyOk(x), Announced(x), Leaving(x),
           NEW m \in Messages \ (Goals \cup {"STOP_CFM", "TO_ACTIVE"}),
           (Ended(x) /\ m # "CONNECTED") \/ x.bt # "none" \/ m = "DISCONNECTED",
           (Reported(x) /\ m \notin ChargerEvents) \/ ~Faulty(x) \/ m = "DISABLED",
           Disabled(x) \/ m = "DISABLED",
           Recharging(x) \/ m \in {"SOC", "DISABLED"},
           Timed(x, t) \/ m = "DISCONNECTED"
    PROVE  Sound(Send(x, m), t)
<1> DEFINE y == Send(x, m)
<1>1. /\ y.q = Append(x.q, m) /\ Same(x, y) /\ y.hs = x.hs /\ y.event = x.event
      /\ y.charged = x.charged /\ y.timers = x.timers
  BY Zenon DEF Send, State, Same
<1>2. x.q \in Seq(Messages) /\ m # "STARTED"
  BY DEF State, Goals
<1> HIDE DEF y
<1>3. /\ \A k : Has(y.q, k) <=> (Has(x.q, k) \/ k = m)
      /\ \A a, k : (Then(x.q, a, k) /\ m \notin a) => Then(y.q, a, k)
      /\ \A a : m \notin a => Then(y.q, a, m)
      /\ NoGoals(x.q) => NoGoals(y.q)
      /\ Ordered(x.q) => Ordered(y.q)
  <2>1. m \in Messages /\ m \notin Goals \cup {"STOP_CFM"} /\ m \notin Goals
    OBVIOUS
  <2>2. /\ \A k : Has(Append(x.q, m), k) <=> (Has(x.q, k) \/ k = m)
        /\ \A a, k : (Then(x.q, a, k) /\ m \notin a) => Then(Append(x.q, m), a, k)
        /\ \A a : m \notin a => Then(Append(x.q, m), a, m)
        /\ NoGoals(x.q) => NoGoals(Append(x.q, m))
        /\ Ordered(x.q) => Ordered(Append(x.q, m))
    BY <1>2, <2>1, AppendQueue, ZenonT(40)
  <2>3. QED
    BY <1>1, <2>2, Zenon
<1>4. Tokens(y)
  BY <1>1, <1>2, <1>3 DEF Same, TopologyOk, Tokens
<1>5. Steps(y)
  BY <1>1, ZenonT(40) DEF Same, TopologyOk, Steps
<1>6. Announced(y)
  BY <1>1, <1>3, Zenon DEF Same, Announced
<1>7. Ended(y)
  BY <1>1, <1>3, Zenon DEF Same, Ended
<1>8. Reported(y)
  BY <1>1, <1>3 DEF Same, Reported, Faulty
<1>9. Disabled(y) /\ Recharging(y)
  BY <1>1, <1>3, ZenonT(40) DEF Same, Disabled, Recharging, Faulty
<1>10. Leaving(y) /\ Timed(y, t)
  BY <1>1, <1>3 DEF Same, Leaving, Timed
<1>11. QED
  BY <1>4, <1>5, <1>6, <1>7, <1>8, <1>9, <1>10 DEF Sound, Base, TopologyOk, y

\* The topology has stopped, or was given up on.
LEMMA StopCfmSent ==
    ASSUME NEW x \in State, x.topo = "STOPPING"
    PROVE  Stays(x, SendStopCfm(x))
<1> DEFINE y == SendStopCfm(x)
<1>1. "STOP_CFM" \in Messages /\ "STOP_CFM" \in Own /\ "STOP_CFM" \notin Goals
  BY DEF Messages, Own, ChargerEvents, Goals
<1>2. y \in State /\ x.q \in Seq(Messages)
  BY TopologyType, Zenon DEF State
<1>3. /\ y.q = Append(x.q, "STOP_CFM") /\ y.topo = "STOPPED" /\ y.hs = x.hs /\ y.sys = x.sys
      /\ y.step = x.step /\ y.early = x.early /\ y.stopping = x.stopping
      /\ y.timers = x.timers \ {"topstop"} /\ y.event = x.event /\ y.charged = x.charged
      /\ y.bt = x.bt /\ y.cable = x.cable /\ y.status = x.status /\ y.soc = x.soc
  BY DEF SendStopCfm, Send, CancelTimer, State
<1> HIDE DEF y
<1>4. /\ Adds(x.q, y.q)
      /\ \A k : Has(y.q, k) <=> (Has(x.q, k) \/ k = "STOP_CFM")
      /\ Then(x.q, {"TO_ACTIVE"}, "TO_POWERING_OFF")
            => Then(y.q, {"TO_ACTIVE"}, "TO_POWERING_OFF")
      /\ NoGoals(x.q) => NoGoals(y.q)
      /\ (Ordered(x.q) /\ NoGoals(x.q)) => Ordered(y.q)
  <2> DEFINE p == Append(x.q, "STOP_CFM")
  <2>1. "TO_ACTIVE" # "STOP_CFM" /\ "STOP_CFM" \notin {"TO_ACTIVE"}
    OBVIOUS
  <2>2. /\ Adds(x.q, p)
        /\ \A k : Has(p, k) <=> (Has(x.q, k) \/ k = "STOP_CFM")
        /\ \A a, k : (Then(x.q, a, k) /\ "STOP_CFM" \notin a) => Then(p, a, k)
        /\ NoGoals(x.q) => NoGoals(p)
        /\ (Ordered(x.q) /\ NoGoals(x.q)) => Ordered(p)
    BY <1>1, <1>2, AppendQueue, ZenonT(40)
  <2>3. QED
    BY <1>3, <2>1, <2>2, Zenon
<1>5. Tokens(x) => Tokens(y)
  BY <1>3, <1>4 DEF Tokens
<1>6. Steps(x) => Steps(y)
  BY <1>3, Zenon DEF Steps
<1>7. Announced(x) => Announced(y)
  BY <1>3, <1>4 DEF Announced
<1>8. QED
  BY <1>2, <1>3, <1>4, <1>5, <1>6, <1>7, Zenon DEF Stays, Leads, TopologyOk, y

\* What the headset knows of the link, and when the helmet is on.
LinkOk ==
    /\ online => told
    /\ phase = "off" => ~online
    /\ phase = "off" <=> s.hs \notin HelmetOn

QInv ==
    /\ s \in State
    /\ Awake => Sound(s, told)
    /\ ~Awake => phase = "off"
    /\ LinkOk

\* Delivering a message.
LEMMA DeliverSound ==
    ASSUME QInv, Deliver
    PROVE  (Awake => Sound(s, told))' /\ LinkOk'
<1>1. s \in State /\ Sound(s, told) /\ s.q # <<>> /\ LinkOk /\ HelmetFollows
  BY DEF QInv, Deliver
<1>2. ASSUME NEW t, Sound(s, t), ~t => ~online PROVE Sound(s', t) \/ s'.sys = "powered_off"
  BY <1>1, <1>2, HandleSound, Zenon DEF Deliver
<1>3. LinkOk'
  BY <1>1 DEF HelmetFollows, LinkOk, Link!PowerUp, Link!PowerDown
<1>4. CASE UNCHANGED <<phase, online, told>>
  BY <1>1, <1>2, <1>3, <1>4 DEF LinkOk, Awake
<1>5. CASE phase = "off" /\ told' = FALSE
  <2>1. ~online /\ s.hs # "IDLE"
    BY <1>1, <1>5, Zenon DEF LinkOk, HelmetOn
  <2>2. Sound(s, FALSE)
    BY <1>1, <2>1 DEF Sound, Timed
  <2>3. Sound(s', FALSE) \/ s'.sys = "powered_off"
    BY <1>2, <2>1, <2>2, Zenon
  <2>4. QED
    BY <1>3, <1>5, <2>3, Zenon DEF Awake
<1>6. CASE phase' = "off" /\ told' = FALSE
  <2>1. Sound(s', told) \/ s'.sys = "powered_off"
    BY <1>1, <1>2 DEF LinkOk
  <2>2. s'.hs # "IDLE"
    BY <1>3, <1>6 DEF LinkOk, HelmetOn
  <2>3. QED
    BY <1>3, <2>1, <2>2 DEF Sound, Timed, Awake
<1>7. QED
  BY <1>1, <1>4, <1>5, <1>6, Zenon DEF HelmetFollows, Link!PowerUp, Link!PowerDown

\* A step that leaves the link and the headset state alone.
LEMMA BesideLink ==
    ASSUME QInv, UNCHANGED <<phase, online, told>>, s'.hs = s.hs
    PROVE  LinkOk'
  BY DEF QInv, LinkOk

\* A prompt ends, a timer expires or the stop goal ends.
LEMMA TimersSound ==
    ASSUME QInv, Awake, s' \in State,
           PromptPlayed \/ TimeoutIdle \/ TimeoutLimbo \/ TimeoutTopologyStop \/ StopGoalDone
    PROVE  Sound(s', told') /\ LinkOk'
<1>1. s \in State /\ Sound(s, told) /\ Base(s) /\ TopologyOk(s) /\ Announced(s)
  BY DEF QInv, Sound, Base
<1>2. UNCHANGED <<phase, online, told>>
  BY Zenon DEF PromptPlayed, TimeoutIdle, TimeoutLimbo, TimeoutTopologyStop, StopGoalDone
<1>3. ASSUME Stays(s, s') PROVE Sound(s', told') /\ LinkOk'
  <2>1. Sound(s', told)
    BY <1>1, <1>3, StaysSound DEF Sound
  <2>2. QED
    BY <1>2, <1>3, <2>1, BesideLink DEF Stays
<1>4. CASE PromptPlayed
  <2>1. s.step = "prompt" /\ s' = FinishPowerOn(s)
    BY <1>4 DEF PromptPlayed
  <2>2. s.topo = "STOPPING" => s.early
    BY <1>1, <2>1 DEF TopologyOk, Steps
  <2>3. Beside(s, s') /\ Announced(s') /\ s'.sys = "active" /\ TopologyOk(s')
    BY <1>1, <2>1, <2>2, FinishPowerOnLeads, Zenon DEF TopologyOk
  <2>4. Stays(s, s')
    BY <2>3 DEF Beside, Stays, Leads
  <2>5. QED
    BY <1>3, <2>4
<1>5. CASE TimeoutIdle
  <2> DEFINE c == CancelTimer(s, "idle")
             p == Send(c, "POWER_OFF")
  <2>1. /\ c \in State /\ Leads(s, c) /\ c.hs = s.hs /\ c.event = s.event
        /\ c.charged = s.charged /\ c.bt = s.bt /\ c.sys = s.sys
    <3>1. Leads(s, c)
      BY <1>1, TimerLeads
    <3>2. /\ c.hs = s.hs /\ c.event = s.event /\ c.charged = s.charged
          /\ c.bt = s.bt /\ c.sys = s.sys
      BY <1>1 DEF CancelTimer, State
    <3>3. c \in State
      BY <1>1, TimerType, Zenon DEF Timers
    <3>4. QED
      BY <3>1, <3>2, <3>3
  <2>2. \/ s' = p
        \/ s' = s
        \/ s' = c /\ ~(s.hs = "IDLE" /\ s.bt = "none")
    BY <1>5 DEF TimeoutIdle
  <2> HIDE DEF c
  <2>3. Base(c) /\ \A k : Has(s.q, k) => Has(c.q, k)
    BY <1>1, <2>1, LeadsBase, Zenon
  <2>4. Disabled(c) /\ Recharging(c) /\ Leaving(c)
    BY <1>1, <2>1, <2>3 DEF Sound, Disabled, Recharging, Leaving, Faulty, Leads
  <2>5. CASE s' = p
    <3>1. "POWER_OFF" \in Messages /\ "POWER_OFF" \in Other
      BY Zenon DEF Other, Own, Messages, ChargerEvents, Goals
    <3>2. Stays(c, p)
      BY <2>1, <3>1, SendLeads, Zenon
    <3>3. Base(p) /\ Disabled(p) /\ Recharging(p) /\ Leaving(p) /\ p.hs = c.hs
      BY <2>1, <2>3, <2>4, <3>2, StaysSound DEF Stays
    <3>4. Has(p.q, "POWER_OFF")
      <4>1. p.q = Append(c.q, "POWER_OFF") /\ c.q \in Seq(Messages)
        BY <2>1 DEF Send, State
      <4>2. Has(Append(c.q, "POWER_OFF"), "POWER_OFF")
        BY <3>1, <4>1, AppendQueue, Zenon
      <4>3. QED
        BY <4>1, <4>2, Zenon
    <3>5. Sound(p, told)
      BY <3>3, <3>4 DEF Sound, Timed
    <3>6. QED
      BY <1>2, <2>1, <2>5, <3>3, <3>5, BesideLink, Zenon
  <2>6. CASE s' = s
    BY <1>1, <1>2, <2>6, BesideLink
  <2>7. CASE s' = c /\ ~(s.hs = "IDLE" /\ s.bt = "none")
    <3>1. Sound(c, told)
      BY <2>1, <2>3, <2>4, <2>7 DEF Sound, Timed
    <3>2. QED
      BY <1>2, <2>1, <2>7, <3>1, BesideLink, Zenon
  <2>8. QED
    BY <2>2, <2>5, <2>6, <2>7, Zenon
<1>6. CASE TimeoutLimbo
  <2> DEFINE c == CancelTimer(s, "limbo")
  <2>1. Stays(s, c) /\ c \in State
    BY <1>1, TimerLeads, Zenon DEF Stays, Leads
  <2>2. s' \in {c, appPowerOffRequest(c)}
    BY <1>6, Zenon DEF TimeoutLimbo
  <2> HIDE DEF c
  <2>3. Stays(c, appPowerOffRequest(c))
    BY <2>1, PowerRequestLeads, Zenon
  <2>4. Stays(s, s')
    BY <1>1, <2>1, <2>2, <2>3, LeadsTrans DEF Stays
  <2>5. QED
    BY <1>3, <2>4
<1>7. CASE TimeoutTopologyStop
  <2>1. s.topo = "STOPPING" /\ s' = SendStopCfm(s)
    BY <1>1, <1>7 DEF TimeoutTopologyStop, TopologyOk, Tokens
  <2>2. QED
    BY <1>1, <1>3, <2>1, StopCfmSent, Zenon
<1>8. CASE StopGoalDone
  <2> DEFINE r == [s EXCEPT !.stopping = FALSE]
  <2>1. /\ r \in State /\ r.stopping = FALSE /\ r.q = s.q /\ r.topo = s.topo /\ r.hs = s.hs
        /\ r.sys = s.sys /\ r.step = s.step /\ r.early = s.early /\ r.timers = s.timers
        /\ r.event = s.event /\ r.charged = s.charged
        /\ r.bt = s.bt /\ r.cable = s.cable /\ r.status = s.status /\ r.soc = s.soc
    BY <1>1, ZenonT(40) DEF State
  <2>2. /\ s.stopping
        /\ s' = IF s.topo = "STOPPING" THEN SendStopCfm(r)
                ELSE IF s.topo = "STARTING" /\ \A i \in DOMAIN s.q : s.q[i] # "START_GOAL"
                THEN Send(r, "STARTED") ELSE r
    BY <1>8 DEF StopGoalDone
  <2> HIDE DEF r
  <2>3. Stays(s, r)
    <3>1. TopologyOk(r)
      BY <1>1, <2>1, Zenon DEF TopologyOk, Tokens, Steps
    <3>2. Adds(s.q, r.q)
      BY <1>1, <2>1, LeadsRefl, Zenon DEF Leads
    <3>3. QED
      BY <2>1, <3>1, <3>2, Zenon DEF Stays, Leads, Announced
  <2>4. s.topo = "STOPPING" => Stays(r, SendStopCfm(r))
    BY <2>1, StopCfmSent
  <2>5. (s.topo = "STARTING" /\ \A i \in DOMAIN s.q : s.q[i] # "START_GOAL")
           => Stays(r, Send(r, "STARTED"))
    <3>1. \A i \in DOMAIN s.q : s.q[i] # "STARTED"
      BY <1>1, <2>2, Zenon DEF TopologyOk, Tokens, Has
    <3>2. (\A i \in DOMAIN s.q : s.q[i] # "START_GOAL") => NoGoals(r.q)
      BY <2>1, <3>1 DEF NoGoals, Goals
    <3>3. QED
      BY <2>1, <3>2, StartedSent, Zenon
  <2>6. Stays(s, s')
    BY <1>1, <2>1, <2>2, <2>3, <2>4, <2>5, LeadsTrans, Zenon DEF Stays
  <2>7. QED
    BY <1>3, <2>6
<1>9. QED
  BY <1>4, <1>5, <1>6, <1>7, <1>8

\* A button, the cable, the charger, the battery or a handset.
LEMMA OutsideSound ==
    ASSUME QInv, s' \in State,
           \/ Button \/ Cable \/ ChargerStatus \/ SocChange \/ RegionChange
           \/ HandsetConnects \/ Audio \/ HandsetDisconnects \/ PairingEnds
    PROVE  Sound(s', told') /\ LinkOk'
<1>1. Awake /\ UNCHANGED <<phase, online, told>>
  BY DEF Button, Cable, ChargerStatus, SocChange, RegionChange, HandsetConnects, Audio,
         HandsetDisconnects, PairingEnds, Outside
<1>2. /\ s \in State /\ Sound(s, told) /\ TopologyOk(s) /\ Announced(s) /\ Ended(s)
      /\ Reported(s) /\ Disabled(s) /\ Recharging(s) /\ Leaving(s) /\ Timed(s, told)
  BY <1>1, Zenon DEF QInv, Sound, Base
<1> DEFINE Plain == Messages \ (Goals \cup {"STOP_CFM", "TO_ACTIVE"})
           Alike(r) == /\ r \in State /\ r.q = s.q /\ r.topo = s.topo /\ r.hs = s.hs
                       /\ r.sys = s.sys /\ r.step = s.step /\ r.early = s.early
                       /\ r.stopping = s.stopping /\ r.timers = s.timers
                       /\ r.event = s.event /\ r.charged = s.charged
           Power(r) == r.cable = s.cable /\ r.status = s.status /\ r.soc = s.soc
<1>3. ASSUME NEW r, Alike(r)
      PROVE  /\ TopologyOk(r) /\ Announced(r) /\ Leaving(r)
             /\ r.bt = s.bt => Ended(r) /\ Timed(r, told)
             /\ Power(r) => Reported(r) /\ Disabled(r) /\ Recharging(r)
  <2>1. TopologyOk(r)
    BY <1>2, <1>3, Zenon DEF TopologyOk, Tokens, Steps
  <2>2. Announced(r) /\ Leaving(r)
    BY <1>2, <1>3, Zenon DEF Announced, Leaving
  <2>3. r.bt = s.bt => Ended(r) /\ Timed(r, told)
    BY <1>2, <1>3 DEF Ended, Timed
  <2>4. Power(r) => Reported(r) /\ Disabled(r) /\ Recharging(r)
    BY <1>2, <1>3, Zenon DEF Reported, Disabled, Recharging, Faulty
  <2>5. QED
    BY <2>1, <2>2, <2>3, <2>4
<1>4. ASSUME NEW r, Alike(r), NEW m, s' = Send(r, m), Sound(Send(r, m), told)
      PROVE  Sound(s', told') /\ LinkOk'
  <2>1. s'.hs = s.hs
    BY <1>4 DEF Send, State
  <2>2. QED
    BY <1>1, <1>4, <2>1, BesideLink
<1>5. /\ {"UI_OFF", "UI_PAIR", "UI_ON", "REGION", "SOC", "AUDIO", "CONNECTED", "DISCONNECTED",
          "PAIR_CFM", "ATTACHED", "DETACHED", "CHARGING", "COMPLETED", "DISABLED"} \subseteq Plain
      /\ {"UI_OFF", "UI_PAIR", "UI_ON", "REGION", "SOC", "AUDIO", "CONNECTED", "DISCONNECTED",
          "PAIR_CFM"} \cap ChargerEvents = {}
  BY DEF Messages, ChargerEvents, Changes, Goals
<1>6. Alike(s) /\ Power(s)
  BY <1>2, Zenon
<1> HIDE DEF Plain
<1>7. CASE Button
  <2>1. PICK m \in {"UI_OFF", "UI_PAIR", "UI_ON"} : s' = Send(s, m)
    BY <1>7 DEF Button
  <2>2. Sound(Send(s, m), told)
    BY <1>2, <1>5, SendSound, Zenon DEF Plain
  <2>3. QED
    BY <1>4, <1>6, <2>1, <2>2
<1>8. CASE Cable
  <2> DEFINE r == [s EXCEPT !.cable = ~@]
             m == IF s.cable THEN "DETACHED" ELSE "ATTACHED"
  <2>1. Alike(r) /\ r.bt = s.bt
    BY <1>2, ZenonT(40) DEF State
  <2>2. ~Faulty(r)
    BY <1>2, <1>8, Zenon DEF Cable, Faulty, State
  <2>3. r.cable => r.status = "NO_POWER"
    BY <1>2, <1>8, ZenonT(40) DEF Cable, State
  <2>4. s' = Send(r, m) /\ m \in Plain /\ m # "CONNECTED"
    BY <1>5, <1>8 DEF Cable
  <2> HIDE DEF r, m
  <2>5. Disabled(r) /\ Recharging(r)
    BY <2>2, <2>3 DEF Disabled, Recharging
  <2>6. Sound(Send(r, m), told)
    BY <1>3, <2>1, <2>2, <2>4, <2>5, SendSound, Zenon DEF Plain
  <2>7. QED
    BY <1>4, <2>1, <2>4, <2>6

<1>9. CASE ChargerStatus
  <2>1. PICK status \in ChargerStatuses :
            s' = Send([s EXCEPT !.status = status], StatusMessageId(status))
    BY <1>9 DEF ChargerStatus
  <2> DEFINE r == [s EXCEPT !.status = status]
             m == StatusMessageId(status)
  <2>2. Alike(r) /\ r.bt = s.bt /\ r.status = status
    BY <1>2 DEF State
  <2>3. m \in Plain /\ m # "CONNECTED" /\ (status = "DISABLED_ERROR" => m = "DISABLED")
    BY <1>5 DEF StatusMessageId
  <2>4. s' = Send(r, m)
    BY <2>1
  <2> HIDE DEF r, m
  <2>5. m = "DISABLED" \/ ~Faulty(r)
    BY <2>2, <2>3 DEF Faulty
  <2>6. ~Faulty(r) => Disabled(r) /\ Recharging(r)
    BY DEF Disabled, Recharging
  <2>7. Sound(Send(r, m), told)
    BY <1>3, <2>2, <2>3, <2>5, <2>6, SendSound, ZenonT(40) DEF Plain
  <2>8. QED
    BY <1>4, <2>2, <2>4, <2>7
<1>10. CASE SocChange
  <2>1. PICK soc \in Socs : s' = Send([s EXCEPT !.soc = soc], "SOC")
    BY <1>10 DEF SocChange
  <2> DEFINE r == [s EXCEPT !.soc = soc]
  <2>2. Alike(r) /\ r.bt = s.bt /\ r.cable = s.cable /\ r.status = s.status
    BY <1>2, Zenon DEF State
  <2>3. s' = Send(r, "SOC")
    BY <2>1
  <2> HIDE DEF r
  <2>4. Reported(r) /\ Disabled(r)
    BY <1>2, <2>2 DEF Reported, Disabled, Faulty
  <2>5. "SOC" \in Plain /\ "SOC" \notin ChargerEvents
    BY <1>5
  <2>6. Sound(Send(r, "SOC"), told)
    BY <1>3, <2>2, <2>4, <2>5, SendSound, Zenon DEF Plain
  <2>7. QED
    BY <1>4, <2>2, <2>3, <2>6
<1>11. CASE RegionChange
  <2> DEFINE r == [s EXCEPT !.unsafe = ~@]
  <2>1. Alike(r) /\ r.bt = s.bt /\ Power(r)
    BY <1>2, ZenonT(40) DEF State
  <2>2. s' = Send(r, "REGION")
    BY <1>11 DEF RegionChange
  <2> HIDE DEF r
  <2>3. "REGION" \in Plain /\ "REGION" \notin ChargerEvents
    BY <1>5
  <2>4. Sound(Send(r, "REGION"), told)
    BY <1>3, <2>1, <2>3, SendSound, Zenon DEF Plain
  <2>5. QED
    BY <1>4, <2>1, <2>2, <2>4
<1>12. CASE HandsetConnects
  <2> DEFINE r == [s EXCEPT !.bt = "linked"]
  <2>1. Alike(r) /\ r.bt = "linked" /\ Power(r)
    BY <1>2 DEF State
  <2>2. s' = Send(r, "CONNECTED")
    BY <1>12 DEF HandsetConnects
  <2> HIDE DEF r
  <2>3. Timed(r, told)
    BY <2>1 DEF Timed
  <2>4. "CONNECTED" \in Plain /\ "CONNECTED" \notin ChargerEvents
    BY <1>5
  <2>5. Sound(Send(r, "CONNECTED"), told)
    BY <1>3, <2>1, <2>3, <2>4, SendSound, ZenonT(40) DEF Plain
  <2>6. QED
    BY <1>4, <2>1, <2>2, <2>5, Zenon
<1>13. CASE Audio
  <2> DEFINE r == [s EXCEPT !.bt = IF @ = "linked" THEN "streaming" ELSE "linked"]
  <2>1. Alike(r) /\ r.bt # "none" /\ Power(r)
    BY <1>2 DEF State
  <2>2. s' = Send(r, "AUDIO")
    BY <1>13, Zenon DEF Audio
  <2> HIDE DEF r
  <2>3. Timed(r, told)
    BY <2>1 DEF Timed
  <2>4. "AUDIO" \in Plain /\ "AUDIO" \notin ChargerEvents
    BY <1>5
  <2>5. Sound(Send(r, "AUDIO"), told)
    BY <1>3, <2>1, <2>3, <2>4, SendSound, ZenonT(40) DEF Plain
  <2>6. QED
    BY <1>4, <2>1, <2>2, <2>5
<1>14. CASE HandsetDisconnects
  <2> DEFINE a == IF s.bt = "streaming" THEN Send(s, "AUDIO") ELSE s
             r == [a EXCEPT !.bt = "none"]
             y == Send(r, "DISCONNECTED")
  <2>1. "AUDIO" \in Plain /\ "AUDIO" \notin ChargerEvents
        /\ "DISCONNECTED" \in Plain /\ "DISCONNECTED" \notin ChargerEvents
    BY <1>5, Zenon
  <2>2. Sound(Send(s, "AUDIO"), told) /\ Send(s, "AUDIO") \in State
    <3>1. "AUDIO" \in Messages
      BY <2>1, Zenon DEF Plain
    <3>2. QED
      BY <1>2, <2>1, <3>1, SendSound, SendType DEF Plain
  <2>3. a \in State /\ Sound(a, told) /\ a.hs = s.hs
    <3>1. Send(s, "AUDIO").hs = s.hs
      BY <1>2 DEF Send, State
    <3>2. QED
      BY <1>2, <2>2, <3>1
  <2>4. s' = y
    BY <1>14 DEF HandsetDisconnects
  <2> HIDE DEF a
  <2>5. /\ r \in State /\ r.q = a.q /\ r.topo = a.topo /\ r.hs = a.hs
        /\ r.sys = a.sys /\ r.step = a.step /\ r.early = a.early
        /\ r.stopping = a.stopping /\ r.timers = a.timers
        /\ r.event = a.event /\ r.charged = a.charged
        /\ r.cable = a.cable /\ r.status = a.status /\ r.soc = a.soc
    BY <2>3, ZenonT(40) DEF State
  <2>6. y.hs = r.hs
    BY <2>5 DEF Send, State
  <2> HIDE DEF r
  <2>7. TopologyOk(r)
    BY <2>3, <2>5, Zenon DEF Sound, Base, TopologyOk, Tokens, Steps
  <2>8. Announced(r) /\ Leaving(r)
    BY <2>3, <2>5, Zenon DEF Sound, Base, Announced, Leaving
  <2>9. Reported(r) /\ Disabled(r) /\ Recharging(r)
    BY <2>3, <2>5 DEF Sound, Base, Reported, Disabled, Recharging, Faulty
  <2>10. Sound(y, told)
    BY <2>1, <2>5, <2>7, <2>8, <2>9, SendSound, ZenonT(40) DEF Plain
  <2>11. QED
    BY <1>1, <2>3, <2>4, <2>5, <2>6, <2>10, BesideLink
<1>15. CASE PairingEnds
  <2>1. PICK paired \in BOOLEAN : s' = Send([s EXCEPT !.paired = paired], "PAIR_CFM")
    <3>1. {s.paired, TRUE} \subseteq BOOLEAN
      BY <1>2 DEF State
    <3>2. \E paired \in {s.paired, TRUE} : s' = Send([s EXCEPT !.paired = paired], "PAIR_CFM")
      BY <1>15, Zenon DEF PairingEnds
    <3>3. QED
      BY <3>1, <3>2, Zenon
  <2> DEFINE r == [s EXCEPT !.paired = paired]
  <2>2. Alike(r) /\ r.bt = s.bt /\ Power(r)
    BY <1>2, Zenon DEF State
  <2>3. s' = Send(r, "PAIR_CFM")
    BY <2>1
  <2> HIDE DEF r
  <2>4. "PAIR_CFM" \in Plain /\ "PAIR_CFM" \notin ChargerEvents
    BY <1>5
  <2>5. Sound(Send(r, "PAIR_CFM"), told)
    BY <1>3, <2>2, <2>4, SendSound, Zenon DEF Plain
  <2>6. QED
    BY <1>4, <2>2, <2>3, <2>5
<1>16. QED
  BY <1>7, <1>8, <1>9, <1>10, <1>11, <1>12, <1>13, <1>14, <1>15

\* The link changes its state, and may tell the headset.
LEMMA LinkSound ==
    ASSUME QInv, s' \in State, BrOnline \/ BrOffline \/ LinkSilent
    PROVE  Sound(s', told') /\ LinkOk'
<1>1. Awake
  BY Zenon DEF BrOnline, BrOffline, LinkSilent
<1>2. /\ s \in State /\ Sound(s, told) /\ Base(s) /\ LinkOk
  BY <1>1, Zenon DEF QInv, Sound
<1> DEFINE c == CancelTimer(s, "idle")
           a == Arm(s, "idle")
<1>3. /\ c \in State /\ Leads(s, c) /\ c.hs = s.hs /\ c.event = s.event /\ c.charged = s.charged
      /\ a \in State /\ Leads(s, a) /\ a.hs = s.hs /\ a.event = s.event /\ a.charged = s.charged
  <2>1. Leads(s, c) /\ Leads(s, a)
    BY <1>2, TimerLeads
  <2>2. /\ c.hs = s.hs /\ c.event = s.event /\ c.charged = s.charged
        /\ a.hs = s.hs /\ a.event = s.event /\ a.charged = s.charged
    BY <1>2 DEF CancelTimer, Arm, State
  <2>3. c \in State /\ a \in State
    BY <1>2, TimerType DEF Timers
  <2>4. QED
    BY <2>1, <2>2, <2>3
<1>4. a.timers = s.timers \cup {"idle"}
  BY <1>2 DEF Arm, State
<1>5. BrOnline => s' = IF online THEN s ELSE c
  BY DEF BrOnline
<1>6. BrOffline => s' = IF online THEN (IF s.hs = "IDLE" /\ s.bt = "none" THEN a ELSE s) ELSE s
  BY DEF BrOffline, StartIdleTimer, IdleTimerNeeded
<1> HIDE DEF a, c
<1>7. ASSUME NEW y \in {c, a} PROVE Base(y) /\ Disabled(y) /\ Recharging(y) /\ Leaving(y)
  <2>1. /\ y \in State /\ Leads(s, y) /\ y.hs = s.hs /\ y.event = s.event
        /\ y.charged = s.charged
    BY <1>3, <1>7
  <2>2. Base(y) /\ \A k : Has(s.q, k) => Has(y.q, k)
    BY <1>2, <2>1, LeadsBase
  <2>3. QED
    BY <1>2, <2>1, <2>2, Zenon DEF Sound, Disabled, Recharging, Leaving, Faulty, Leads
<1>8. CASE BrOnline
  <2>1. phase # "off" /\ phase' # "off" /\ online' /\ told' = (told \/ ~online)
    BY <1>8 DEF BrOnline, Link!Ack
  <2>2. told' /\ s'.hs = s.hs
    BY <1>2, <1>3, <1>5, <1>8, <2>1, Zenon DEF LinkOk
  <2>3. LinkOk'
    BY <1>2, <2>1, <2>2 DEF LinkOk
  <2>4. Timed(s', told')
    BY <2>2 DEF Timed
  <2>5. Base(s') /\ Disabled(s') /\ Recharging(s') /\ Leaving(s')
    BY <1>2, <1>5, <1>7, <1>8 DEF Sound
  <2>6. QED
    BY <2>3, <2>4, <2>5, Zenon DEF Sound
<1>9. CASE BrOffline
  <2>1. phase # "off" /\ phase' # "off" /\ ~online' /\ told' = (told /\ ~online)
    BY <1>9 DEF BrOffline, Link!Fail
  <2>2. s'.hs = s.hs
    BY <1>3, <1>6, <1>9
  <2>3. LinkOk'
    BY <1>2, <2>1, <2>2 DEF LinkOk
  <2>4. CASE ~online
    <3>1. s' = s /\ told' = (told /\ TRUE)
      BY <1>6, <1>9, <2>1, <2>4
    <3>2. Timed(s', told')
      BY <1>2, <3>1, Zenon DEF Sound, Timed
    <3>3. QED
      BY <1>2, <2>3, <3>1, <3>2 DEF Sound
  <2>5. CASE online /\ s.hs = "IDLE" /\ s.bt = "none"
    <3>1. s' = a
      BY <1>6, <1>9, <2>5
    <3>2. Timed(s', told')
      BY <1>4, <3>1 DEF Timed
    <3>3. QED
      BY <1>7, <2>3, <3>1, <3>2 DEF Sound
  <2>6. CASE online /\ ~(s.hs = "IDLE" /\ s.bt = "none")
    <3>1. s' = s
      BY <1>6, <1>9, <2>6, Zenon
    <3>2. Timed(s', told')
      BY <2>6, <3>1, Zenon DEF Timed
    <3>3. QED
      BY <1>2, <2>3, <3>1, <3>2 DEF Sound
  <2>7. QED
    BY <2>4, <2>5, <2>6, Zenon
<1>10. CASE LinkSilent
  <2>1. /\ s' = s /\ told' = told /\ phase # "off" /\ phase' # "off"
        /\ online' => online
    BY <1>10 DEF LinkSilent, Link!Reenter, Link!GiveUp, Link!Accept
  <2>2. QED
    BY <1>2, <2>1, Zenon DEF LinkOk
<1>11. QED
  BY <1>8, <1>9, <1>10

\* What the charger client and the startup table queue at boot.
LEMMA BootedSound ==
    ASSUME NEW cable \in BOOLEAN, NEW soc \in Socs, NEW paired \in BOOLEAN, NEW world \in Worlds,
           NEW t
    PROVE  Sound(Booted(cable, soc, paired, world), t)
<1> DEFINE y == Booted(cable, soc, paired, world)
           m == StatusMessageId(IF cable THEN "FAST_CHARGE" ELSE "NO_POWER")
           a == IF cable THEN "ATTACHED" ELSE "DETACHED"
<1>1. /\ y.hs = "NULL" /\ y.sys = "limbo" /\ y.step = "none" /\ y.topo = "STOPPED"
      /\ y.stopping = FALSE /\ y.timers = {} /\ y.bt = "none"
      /\ y.status # "DISABLED_ERROR" /\ y.q = <<a, m, "TO_LIMBO">>
  BY DEF Booted
<1>2. m \in ChargerEvents /\ a \in ChargerEvents
  BY Zenon DEF StatusMessageId, ChargerEvents
<1> HIDE DEF y, m, a
<1>3. DOMAIN y.q = 1..3 /\ \A i \in 1..3 : y.q[i] \in ChargerEvents \cup {"TO_LIMBO"}
  BY <1>1, <1>2
<1>4. \A k : Has(y.q, k) => k \in ChargerEvents \cup {"TO_LIMBO"}
  BY <1>3, Zenon DEF Has
<1>5. NoGoals(y.q) /\ Ordered(y.q)
  BY <1>3, Zenon DEF NoGoals, Ordered, Goals, ChargerEvents
<1>6. Tokens(y)
  BY <1>1, <1>4, <1>5, Zenon DEF Tokens, ChargerEvents
<1>7. Steps(y)
  BY <1>1, Zenon DEF Steps
<1>8. Announced(y)
  BY <1>1, <1>3, Zenon DEF Announced, Then, ChargerEvents
<1>9. Ended(y)
  BY <1>1, <1>3, Zenon DEF Ended, Then, ChargerEvents
<1>10. Reported(y) /\ Disabled(y) /\ Recharging(y)
  BY <1>1, Zenon DEF Reported, Disabled, Recharging, Faulty
<1>11. Leaving(y) /\ Timed(y, t)
  BY <1>1 DEF Leaving, Timed
<1>12. QED
  BY <1>6, <1>7, <1>8, <1>9, <1>10, <1>11, Zenon DEF Sound, Base, TopologyOk, y

\* Every step keeps the invariant.
LEMMA NextSound ==
    ASSUME IInv, QInv, [Next]_vars
    PROVE  QInv'
<1>1. s \in State /\ s' \in State
  BY NextStateType DEF QInv
<1>2. (Awake /\ s'.sys = "powered_off") => phase' = "off"
  BY NextKeeps DEF StepKeeps
<1>3. CASE Boot
  <2>1. PICK cable \in BOOLEAN : s' = Booted(cable, s.soc, s.paired, s.world)
    BY <1>3 DEF Boot
  <2>2. s.soc \in Socs /\ s.paired \in BOOLEAN /\ s.world \in Worlds
    BY <1>1 DEF State
  <2>3. Sound(s', told')
    BY <2>1, <2>2, BootedSound, Zenon
  <2>4. s'.hs = "NULL" /\ s'.sys = "limbo"
    BY <2>1 DEF Booted
  <2>5. phase = "off" /\ UNCHANGED <<phase, online, told>> /\ LinkOk
    BY <1>3 DEF Boot, QInv
  <2>6. LinkOk'
    BY <2>4, <2>5 DEF LinkOk, HelmetOn
  <2>7. QED
    BY <1>1, <2>3, <2>4, <2>6 DEF QInv, Awake
<1>4. CASE UNCHANGED vars
  BY <1>1, <1>4 DEF vars, QInv, Awake, LinkOk
<1>5. ASSUME Awake, (Awake => Sound(s, told))', LinkOk'
      PROVE  QInv'
  BY <1>1, <1>2, <1>5 DEF QInv, Awake
<1>6. CASE Deliver
  <2>1. Awake
    BY <1>6 DEF Deliver
  <2>2. QED
    BY <1>5, <1>6, <2>1, DeliverSound
<1>7. CASE PromptPlayed \/ TimeoutIdle \/ TimeoutLimbo \/ TimeoutTopologyStop \/ StopGoalDone
  <2>1. Awake
    BY <1>7, AwakeGood DEF PromptPlayed, TimeoutIdle, TimeoutLimbo, TimeoutTopologyStop, StopGoalDone
  <2>2. QED
    BY <1>1, <1>5, <1>7, <2>1, TimersSound
<1>8. CASE \/ Button \/ Cable \/ ChargerStatus \/ SocChange \/ RegionChange
           \/ HandsetConnects \/ Audio \/ HandsetDisconnects \/ PairingEnds
  <2>1. Awake
    BY <1>8 DEF Button, Cable, ChargerStatus, SocChange, RegionChange, HandsetConnects, Audio,
         HandsetDisconnects, PairingEnds, Outside
  <2>2. QED
    BY <1>1, <1>5, <1>8, <2>1, OutsideSound
<1>9. CASE BrOnline \/ BrOffline \/ LinkSilent
  <2>1. Awake
    BY <1>9, Zenon DEF BrOnline, BrOffline, LinkSilent
  <2>2. QED
    BY <1>1, <1>5, <1>9, <2>1, LinkSound
<1>10. QED
  BY <1>3, <1>4, <1>6, <1>7, <1>8, <1>9 DEF Next

LEMMA InitQInv == Init => QInv
<1> SUFFICES ASSUME Init PROVE QInv
  OBVIOUS
<1>1. PICK cable \in BOOLEAN, soc \in Socs, paired \in BOOLEAN, world \in Worlds :
          s = Booted(cable, soc, paired, world)
  BY DEF Init
<1>2. s \in State /\ Sound(s, told)
  BY <1>1, BootedType, BootedSound, Zenon
<1>3. s.hs = "NULL" /\ s.sys = "limbo"
  BY <1>1 DEF Booted
<1>4. phase = "off" /\ ~online
  BY DEF Init, Link!Init
<1>5. QED
  BY <1>2, <1>3, <1>4 DEF QInv, LinkOk, HelmetOn, Awake

\* Both invariants hold in every reachable state.
LEMMA QueueKept == Spec => [](IInv /\ QInv)
<1>1. (IInv /\ QInv) /\ [Next]_vars => (IInv /\ QInv)'
  BY NextKeeps, NextSound DEF StepKeeps
<1>2. QED
  BY InitIInv, InitQInv, <1>1, PTL DEF Spec

\* An empty queue promises nothing more.
LEMMA NothingComing == \A k : ~Has(<<>>, k)
  BY DEF Has

\* A helmet that power_on_table has switched on, and that has handled its messages,
\* has its Bluetooth topology started or starting, however a stop of the topology,
\* its timeout and its goal have crossed the start.
THEOREM TopologyIsUp == Spec => []ActiveHasTopology
<1>1. QInv => ActiveHasTopology
  BY Zenon DEF QInv, Quiet, ActiveHasTopology, Sound, Base, TopologyOk, Steps
<1>2. QED
  BY QueueKept, <1>1, PTL

\* headsetSmLimboChargeLedChoice enables a charger that a full battery had disabled
\* again, in whatever order the charger and the battery report.
THEOREM RechargeIsResumed == Spec => []RechargeResumes
<1>1. QInv => RechargeResumes
  BY NothingComing, Zenon DEF QInv, Quiet, RechargeResumes, Sound, Recharging, Faulty
<1>2. QED
  BY QueueKept, <1>1, PTL

\* headsetSmIsIdleTimerNeedToStart is asked often enough: no order of connections,
\* streams, pairings and reports leaves an idle helmet without its power-off timer.
THEOREM IdleTimerIsKept == Spec => []IdleTimerRuns
<1>1. QInv => IdleTimerRuns
  BY NothingComing DEF QInv, Quiet, IdleTimerRuns, Sound, Timed
<1>2. QED
  BY QueueKept, <1>1, PTL
=============================================================================
