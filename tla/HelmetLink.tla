----------------------------- MODULE HelmetLink -----------------------------
(***************************************************************************)
(* What the rest of the firmware may rely on from the Wi-SUN link, with    *)
(* the AT dialogue, the timers and the module left out: the phase the link *)
(* is in and the flag SmartHelmet_UartIsBrOnline returns.  WisunLink       *)
(* implements this specification, HeadsetPower is composed with it.        *)
(***************************************************************************)

VARIABLES
    phase,   \* off, setting up, entering passthrough, in session, or given up
    online   \* SmartHelmet_UartIsBrOnline

linkVars == <<phase, online>>

Phases == {"off", "setup", "entry", "session", "held"}

Init == phase = "off" /\ online = FALSE

\* SmartHelmet_PowerOn starts the dialogue.  A report built on the way finds
\* no session, so nothing is sent.
PowerUp == phase = "off" /\ phase' = "setup" /\ online' = FALSE

\* SmartHelmet_PowerOff: the flag is cleared and the headset is not told.
PowerDown == phase # "off" /\ phase' = "off" /\ online' = FALSE

\* SmartHelmet_Init run a second time closes the UART and leaves the flag.
Close == phase # "off" /\ phase' = "off" /\ UNCHANGED online

\* The settings are probed and +++ is next, or a rejoin or a re-entry after
\* a CLI reject starts.  The flag is left as it is.
Reenter == phase \in {"setup", "session", "held"} /\ phase' = "entry" /\ UNCHANGED online

\* A CLI reject or a refused +++ whose re-entries are used up.
GiveUp == phase \in {"entry", "session"} /\ phase' = "held" /\ UNCHANGED online

\* "send OK" was read.  It may also open the session by itself, and its chunk
\* may hold a CLI reject, which ends the session again.
Ack == /\ phase # "off"
       /\ phase' \in {phase, "entry", "session", "held"}
       /\ online' = TRUE

\* "send fail", a sink that took less than the report, or too many reports
\* without an answer.  A rejoin starts unless one is running or held back.
Fail == /\ phase # "off"
        /\ phase' \in {phase, "entry", "held"}
        /\ online' = FALSE

\* +++ was accepted: a new session, whose first report may fail at once.  The
\* flag is cleared and the headset is not told.
Accept == /\ phase = "entry"
          /\ phase' \in {"session", "entry"}
          /\ online' = FALSE

Next ==
    \/ PowerUp
    \/ PowerDown
    \/ Close
    \/ Reenter
    \/ GiveUp
    \/ Ack
    \/ Fail
    \/ Accept

Spec == Init /\ [][Next]_linkVars
=============================================================================
