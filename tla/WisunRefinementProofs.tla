------------------------ MODULE WisunRefinementProofs ------------------------
(***************************************************************************)
(* WisunLink implements HelmetLink, and an open session goes on reporting: *)
(* both for every value of the constants.  The abstract link sees five     *)
(* fields of the firmware record, the tick a sixth.  There is one lemma    *)
(* per operator saying what it does to them, for any record that has the   *)
(* fields; the invariant of WisunLinkProofs is needed only to know that a  *)
(* session is open in the step DONE alone.                                 *)
(***************************************************************************)
EXTENDS WisunLinkProofs

Fields == {"powered", "passthrough", "step", "leave_next", "online", "timers"}

Whole(x) == Fields \subseteq DOMAIN x

\* The report tick of x is still armed in y.
TickKept(x, y) == "REPORT_TICK" \in x.timers => "REPORT_TICK" \in y.timers

\* y differs from x in fields the link does not show.
Same(x, y) ==
    /\ Whole(y)
    /\ y.powered = x.powered /\ y.passthrough = x.passthrough
    /\ y.step = x.step /\ y.leave_next = x.leave_next /\ y.online = x.online
    /\ TickKept(x, y)

\* y has left for at_dest and +++.
Leaving(x, y) ==
    /\ Whole(y)
    /\ y.powered = x.powered /\ y.passthrough = FALSE
    /\ y.step = "LEAVE" /\ y.leave_next = "DEST"

\* A report was lost: online is cleared and the link may be left.
Lost(x, y) ==
    /\ y.online = FALSE
    /\ \/ Leaving(x, y)
       \/ /\ Whole(y)
          /\ y.powered = x.powered /\ y.passthrough = x.passthrough
          /\ y.step = x.step /\ y.leave_next = x.leave_next
          /\ TickKept(x, y)

\* "send OK" was read: a dialogue that leaves or enters the session is over.
Acked(x, y) ==
    /\ Whole(y)
    /\ y.powered = x.powered /\ y.leave_next = x.leave_next /\ y.online = TRUE
    /\ y.step = (IF x.step \in Rejoining THEN "DONE" ELSE x.step)
    /\ y.passthrough = (x.passthrough \/ x.step \in Rejoining)
    /\ TickKept(x, y)

\* A CLI reject was read: no session, and a re-entry unless none is left.
Rejected(x, y) ==
    /\ y.online = x.online
    /\ \/ Leaving(x, y) /\ x.step \in {"DONE", "idle"}
       \/ /\ Whole(y)
          /\ y.powered = x.powered /\ y.passthrough = FALSE
          /\ y.step = x.step /\ y.leave_next = x.leave_next

-----------------------------------------------------------------------------
(* Building blocks. *)

\* Arming a message changes nothing the link shows.
LEMMA ArmSame ==
    ASSUME NEW x, Whole(x), NEW id
    PROVE  Same(x, Arm(x, id)) /\ (id \in Arm(x, id).timers)
  BY DEF Whole, Fields, Same, TickKept, Arm

\* Cancelling messages other than the report tick changes nothing either.
LEMMA CancelSame ==
    ASSUME NEW x, Whole(x), NEW ids, "REPORT_TICK" \notin ids
    PROVE  Same(x, Cancel(x, ids))
  BY DEF Whole, Fields, Same, TickKept, Cancel

\* Writing a command, or losing it, changes nothing either.
LEMMA SendProbeSame ==
    ASSUME NEW x, Whole(x), NEW cmd
    PROVE  Same(x, SendProbe(x, cmd))
  BY DEF Whole, Fields, Same, TickKept, SendProbe

\* A record that looks the same as one that looks the same looks the same.
LEMMA SameTrans ==
    ASSUME NEW x, NEW y, NEW z, Same(x, y), Same(y, z)
    PROVE  Same(x, z)
  BY DEF Same, TickKept

\* Leaving the session enters LEAVE and notes what comes after it.
LEMMA LeaveView ==
    ASSUME NEW x, Whole(x), NEW next
    PROVE  LET y == Leave(x, next)
           IN  /\ Whole(y)
               /\ y.powered = x.powered /\ y.passthrough = x.passthrough
               /\ y.step = "LEAVE" /\ y.leave_next = next /\ y.online = x.online
<1> DEFINE y == [x EXCEPT !.step = "LEAVE", !.leave_next = next]
           z == SendProbe(y, "exit")
<1>1. /\ Whole(y) /\ y.powered = x.powered /\ y.passthrough = x.passthrough
      /\ y.step = "LEAVE" /\ y.leave_next = next /\ y.online = x.online
  BY DEF Whole, Fields
<1> HIDE DEF y
<1>2. Same(y, z)
  BY <1>1, SendProbeSame
<1> HIDE DEF z
<1>3. Same(z, Arm(z, "LINK_CHECK"))
  BY <1>2, ArmSame DEF Same
<1>4. Same(y, Arm(z, "LINK_CHECK"))
  BY <1>2, <1>3, SameTrans
<1>5. Leave(x, next) = Arm(z, "LINK_CHECK")
  BY DEF Leave, z, y
<1>6. QED
  BY <1>1, <1>4, <1>5 DEF Same

\* Asking the module something enters the step of the question.
LEMMA AskView ==
    ASSUME NEW x, Whole(x), NEW step, NEW cmd
    PROVE  LET y == Ask(x, step, cmd)
           IN  /\ Whole(y)
               /\ y.powered = x.powered /\ y.passthrough = x.passthrough
               /\ y.step = step /\ y.leave_next = x.leave_next /\ y.online = x.online
<1> DEFINE y == [x EXCEPT !.asm = {}, !.step = step]
           z == SendProbe(y, cmd)
<1>1. /\ Whole(y) /\ y.powered = x.powered /\ y.passthrough = x.passthrough
      /\ y.step = step /\ y.leave_next = x.leave_next /\ y.online = x.online
  BY DEF Whole, Fields
<1> HIDE DEF y
<1>2. Same(y, z)
  BY <1>1, SendProbeSame
<1> HIDE DEF z
<1>3. Same(z, Arm(z, "LINK_CHECK"))
  BY <1>2, ArmSame DEF Same
<1>4. Same(y, Arm(z, "LINK_CHECK"))
  BY <1>2, <1>3, SameTrans
<1>5. Ask(x, step, cmd) = Arm(z, "LINK_CHECK")
  BY DEF Ask, z, y
<1>6. QED
  BY <1>1, <1>4, <1>5 DEF Same

-----------------------------------------------------------------------------
(* The session. *)

\* A rejoin clears online and leaves, or is held back and does nothing.
LEMMA RejoinView ==
    ASSUME NEW x, Whole(x)
    PROVE  UartRejoin(x) = x \/ (Lost(x, UartRejoin(x)) /\ Leaving(x, UartRejoin(x)))
<1> DEFINE y == [x EXCEPT !.rejoin_hold = "held", !.rejoining = TRUE,
                          !.passthrough = FALSE, !.online = FALSE, !.send_ok_wait = FALSE]
           z == Cancel(y, {"REPORT_TICK"})
<1>1. Whole(y) /\ y.powered = x.powered /\ y.passthrough = FALSE /\ y.online = FALSE
  BY DEF Whole, Fields
<1> HIDE DEF y
<1>2. Whole(z) /\ z.powered = x.powered /\ z.passthrough = FALSE /\ z.online = FALSE
  BY <1>1 DEF Whole, Fields, Cancel
<1> HIDE DEF z
<1>3. LET w == Leave(z, "DEST")
      IN  Leaving(x, w) /\ w.online = FALSE
  BY <1>2, LeaveView DEF Leaving
<1>4. UartRejoin(x) = x \/ UartRejoin(x) = Leave(z, "DEST")
  BY DEF UartRejoin, ReportStop, z, y
<1>5. QED
  BY <1>3, <1>4 DEF Lost

\* The same after online was cleared.
LEMMA OfflineRejoinView ==
    ASSUME NEW x, NEW y, Lost(x, y), Whole(y)
    PROVE  Lost(x, UartRejoin(y))
  BY RejoinView DEF Lost, Leaving

\* A report that was sent or not changes nothing the link shows, or is lost.
LEMMA NoteReportView ==
    ASSUME NEW x, Whole(x), NEW ok
    PROVE  LET y == UartNoteReportSent(x, ok) IN Same(x, y) \/ Lost(x, y)
<1> DEFINE n == IF x.missed_ok < MissedMax THEN x.missed_ok + 1 ELSE x.missed_ok
           m == [x EXCEPT !.missed_ok = n]
<1>1. Lost(x, [x EXCEPT !.online = FALSE]) /\ Whole([x EXCEPT !.online = FALSE])
  BY DEF Whole, Fields, Lost, TickKept
<1>2. Lost(x, UartRejoin([x EXCEPT !.online = FALSE]))
  BY <1>1, OfflineRejoinView
<1>3. Same(x, [x EXCEPT !.send_ok_wait = TRUE])
  BY DEF Whole, Fields, Same, TickKept
<1>4. \A k : Same(x, [x EXCEPT !.missed_ok = k])
  BY DEF Whole, Fields, Same, TickKept
<1>5. \A k : LET y == UartRejoin([x EXCEPT !.missed_ok = k])
             IN  Same(x, y) \/ Lost(x, y)
  <2> TAKE k
  <2> DEFINE z == [x EXCEPT !.missed_ok = k]
  <2>1. Same(x, z)
    BY <1>4
  <2> HIDE DEF z
  <2>2. UartRejoin(z) = z \/ (Lost(z, UartRejoin(z)) /\ Leaving(z, UartRejoin(z)))
    BY <2>1, RejoinView DEF Same
  <2>3. Same(x, UartRejoin(z)) \/ Lost(x, UartRejoin(z))
    BY <2>1, <2>2 DEF Same, Lost, Leaving
  <2>4. QED
    BY <2>3 DEF z
<1>6. QED
  BY <1>2, <1>3, <1>4, <1>5 DEF UartNoteReportSent

\* A report leaves the tick armed.  Without a session nothing else shows, in a
\* session it may be lost.
LEMMA ReportStartView ==
    ASSUME NEW x, Whole(x)
    PROVE  LET y == ReportStart(x)
           IN  /\ "REPORT_TICK" \in y.timers
               /\ Same(x, y) \/ Lost(x, y)
               /\ ~x.passthrough => Same(x, y)
<1> DEFINE t == [x EXCEPT !.restart_seen = FALSE]
           s == SendReportLines(t)
<1>1. Same(x, t)
  BY DEF Whole, Fields, Same, TickKept
<1> HIDE DEF t
<1>2. Same(t, s) \/ Lost(t, s)
  <2> DEFINE n == IF Room(t) < ReportLines THEN Room(t) ELSE ReportLines
             w == [t EXCEPT !.tx = @ \o [i \in 1..n |-> "line"]]
  <2>1. Same(t, w)
    BY <1>1 DEF Whole, Fields, Same, TickKept
  <2>2. s = UartNoteReportSent(w, n = ReportLines)
    BY DEF SendReportLines
  <2> HIDE DEF w, n
  <2>3. Same(w, s) \/ Lost(w, s)
    BY <2>1, <2>2, NoteReportView DEF Same
  <2>4. QED
    BY <2>1, <2>3, SameTrans DEF Same, Lost, Leaving, TickKept
<1> DEFINE u == IF x.passthrough /\ x.sensors THEN s ELSE t
<1>3. ReportStart(x) = Arm(u, "REPORT_TICK")
  BY DEF ReportStart, t
<1> HIDE DEF s
<1>4. Same(x, u) \/ (Lost(x, u) /\ x.passthrough)
  BY <1>1, <1>2, SameTrans DEF Same, Lost, Leaving, TickKept
<1>5. Whole(u)
  BY <1>4 DEF Same, Lost, Leaving
<1> HIDE DEF u
<1>6. Same(u, Arm(u, "REPORT_TICK")) /\ "REPORT_TICK" \in Arm(u, "REPORT_TICK").timers
  BY <1>5, ArmSame
<1>7. QED
  BY <1>3, <1>4, <1>6, SameTrans DEF Same, Lost, Leaving, TickKept

\* What a received chunk says about the reports: nothing, a loss or an answer.
LEMMA NoteRxView ==
    ASSUME NEW x, Whole(x), NEW chunk
    PROVE  LET y == NoteRx(x, chunk) IN Same(x, y) \/ Lost(x, y) \/ Acked(x, y)
<1> DEFINE f == [x EXCEPT !.online = FALSE, !.send_ok_wait = FALSE]
           y == IF "send_fail" \in chunk THEN UartRejoin(f)
                ELSE IF "send_ok" \in chunk THEN NoteSendOk(x) ELSE x
<1>1. Lost(x, f) /\ Whole(f)
  BY DEF Whole, Fields, Lost, TickKept
<1> HIDE DEF f
<1>2. Lost(x, UartRejoin(f))
  BY <1>1, OfflineRejoinView
<1>3. Acked(x, NoteSendOk(x))
  BY DEF Whole, Fields, Acked, TickKept, NoteSendOk
<1>4. Same(x, x)
  BY DEF Same, TickKept
<1>5. Same(x, y) \/ Lost(x, y) \/ Acked(x, y)
  BY <1>2, <1>3, <1>4
<1>6. NoteRx(x, chunk) = [y EXCEPT !.restart_seen = @ \/ "restart" \in chunk]
  BY DEF NoteRx, f
<1>7. Whole(y)
  BY <1>5 DEF Same, Lost, Leaving, Acked
<1> HIDE DEF y
<1>8. Same(y, NoteRx(x, chunk))
  BY <1>6, <1>7 DEF Whole, Fields, Same, TickKept
<1>9. QED
  BY <1>5, <1>8, SameTrans DEF Same, Lost, Leaving, Acked, TickKept

\* A CLI reject ends the session and starts a re-entry unless none is left.
LEMMA CmdTooLongView ==
    ASSUME NEW x, Whole(x)
    PROVE  Rejected(x, OnCmdTooLong(x))
<1> DEFINE y == Cancel([x EXCEPT !.passthrough = FALSE], {"REPORT_TICK"})
           z == [y EXCEPT !.too_long_retry = @ + 1]
<1>1. /\ Whole(y) /\ y.powered = x.powered /\ y.passthrough = FALSE
      /\ y.step = x.step /\ y.leave_next = x.leave_next /\ y.online = x.online
  BY DEF Whole, Fields, Cancel
<1> HIDE DEF y
<1>2. Whole(z) /\ z.powered = x.powered /\ z.passthrough = FALSE /\ z.online = x.online
  BY <1>1 DEF Whole, Fields
<1> HIDE DEF z
<1>3. LET w == Leave(z, "DEST")
      IN  Leaving(x, w) /\ w.online = x.online
  BY <1>2, LeaveView DEF Leaving
<1>4. OnCmdTooLong(x) = y \/ (OnCmdTooLong(x) = Leave(z, "DEST") /\ x.step \in {"DONE", "idle"})
  BY DEF OnCmdTooLong, ReportStop, y, z
<1>5. QED
  BY <1>1, <1>3, <1>4 DEF Rejected

\* The line splitter sees a CLI reject or nothing the link shows.
LEMMA RxLineView ==
    ASSUME NEW x, Whole(x), NEW chunk
    PROVE  LET y == RxLinePush(x, chunk) IN Same(x, y) \/ Rejected(x, y)
<1> DEFINE y == [x EXCEPT !.restart_seen = @ \/ chunk \cap {"restart", "restartLine"} # {}]
<1>1. Same(x, y)
  BY DEF Whole, Fields, Same, TickKept
<1>2. RxLinePush(x, chunk) = y \/ RxLinePush(x, chunk) = OnCmdTooLong(y)
  BY DEF RxLinePush
<1> HIDE DEF y
<1>3. Rejected(y, OnCmdTooLong(y))
  BY <1>1, CmdTooLongView DEF Same
<1>4. Rejected(x, OnCmdTooLong(y))
  BY <1>1, <1>3 DEF Same, Rejected, Leaving
<1>5. QED
  BY <1>1, <1>2, <1>4

-----------------------------------------------------------------------------
(* The steps of the abstract link, on records. *)

\* The step from x to y is one of HelmetLink, or none.
LinkStep(x, y) ==
    LET p == PhaseOf(x)
        q == PhaseOf(y)
    IN  \/ q = p /\ y.online = x.online
        \/ p = "off" /\ q = "setup" /\ y.online = FALSE
        \/ p # "off" /\ q = "off" /\ y.online \in {FALSE, x.online}
        \/ p \in {"setup", "session", "held"} /\ q = "entry" /\ y.online = x.online
        \/ p \in {"entry", "session"} /\ q = "held" /\ y.online = x.online
        \/ p # "off" /\ q \in {p, "entry", "session", "held"} /\ y.online = TRUE
        \/ p # "off" /\ q \in {p, "entry", "held"} /\ y.online = FALSE
        \/ p = "entry" /\ q \in {"session", "entry"} /\ y.online = FALSE

\* An open session has its tick armed, or was opened by a "send OK".
TickStep(x, y) ==
    y.passthrough /\ (x.passthrough => "REPORT_TICK" \in x.timers) =>
        \/ "REPORT_TICK" \in y.timers
        \/ ~x.passthrough /\ x.step \in Rejoining /\ y.online

\* What the lemmas below start from.
Session(x) ==
    /\ Whole(x)
    /\ x.powered = TRUE /\ x.passthrough \in BOOLEAN
    /\ x.passthrough => x.step = "DONE"

Moves(x, y) == LinkStep(x, y) /\ TickStep(x, y)

\* A change of other fields is no step of the link.
LEMMA SameMoves ==
    ASSUME NEW x, NEW y, Same(x, y)
    PROVE  Moves(x, y)
  BY DEF Same, Moves, LinkStep, TickStep, TickKept, PhaseOf

\* A lost report is the abstract Fail.
LEMMA LostMoves ==
    ASSUME NEW x, NEW y, Session(x), Lost(x, y)
    PROVE  Moves(x, y)
  BY DEF Session, Lost, Leaving, Moves, LinkStep, TickStep, TickKept, PhaseOf, Rejoining

\* A step that moves the link also moves it from a record that looks the same.
LEMMA SameThenMoves ==
    ASSUME NEW x, NEW y, NEW z, Same(x, y), Moves(y, z)
    PROVE  Moves(x, z)
<1>1. PhaseOf(x) = PhaseOf(y)
  BY DEF Same, PhaseOf
<1>2. LinkStep(x, z)
  BY <1>1 DEF Same, Moves, LinkStep
<1>3. TickStep(x, z)
  BY DEF Same, Moves, TickStep, TickKept
<1>4. QED
  BY <1>2, <1>3 DEF Moves

\* And a change of other fields after it adds nothing.
LEMMA MovesThenSame ==
    ASSUME NEW x, NEW y, NEW z, Moves(x, y), Same(y, z)
    PROVE  Moves(x, z)
<1>1. PhaseOf(y) = PhaseOf(z)
  BY DEF Same, PhaseOf
<1>2. LinkStep(x, z)
  BY <1>1 DEF Same, Moves, LinkStep
<1>3. TickStep(x, z)
  BY DEF Same, Moves, TickStep, TickKept
<1>4. QED
  BY <1>2, <1>3 DEF Moves

\* A chunk is answer, loss or nothing, and after that a CLI reject or nothing.
LEMMA ReceiveMoves ==
    ASSUME NEW x, NEW y, NEW z, Session(x),
           Same(x, y) \/ Lost(x, y) \/ Acked(x, y), Same(y, z) \/ Rejected(y, z)
    PROVE  Moves(x, z)
<1>1. CASE Same(y, z)
  <2>1. Acked(x, y) => Moves(x, y)
    BY DEF Session, Acked, Moves, LinkStep, TickStep, TickKept, PhaseOf, Rejoining
  <2>2. QED
    BY <1>1, <2>1, SameMoves, LostMoves, MovesThenSame
<1>2. CASE Rejected(y, z)
  <2>1. TickStep(x, z)
    BY <1>2 DEF Rejected, Leaving, TickStep
  <2>2. LinkStep(x, z)
    <3>1. CASE Same(x, y)
      BY <1>2, <3>1 DEF Session, Same, Rejected, Leaving, LinkStep, PhaseOf, Rejoining
    <3>2. CASE Lost(x, y)
      BY <1>2, <3>2 DEF Session, Lost, Rejected, Leaving, LinkStep, PhaseOf, Rejoining
    <3>3. CASE Acked(x, y)
      BY <1>2, <3>3 DEF Session, Acked, Rejected, Leaving, LinkStep, PhaseOf, Rejoining
    <3>4. QED
      BY <3>1, <3>2, <3>3
  <2>3. QED
    BY <2>1, <2>2 DEF Moves
<1>3. QED
  BY <1>1, <1>2

\* A received chunk is one step of the abstract link.
LEMMA ConsumeMoves ==
    ASSUME NEW x, Session(x), NEW chunk, NEW fits
    PROVE  Moves(x, UartConsume(x, chunk, fits))
<1> DEFINE asm == IF fits THEN x.asm \cup (chunk \cap Sought(x.step)) ELSE x.asm
           a == [x EXCEPT !.asm = asm]
           n == NoteRx(a, chunk)
           y == RxLinePush(n, chunk)
<1>1. Same(x, a)
  BY DEF Session, Whole, Fields, Same, TickKept
<1> DEFINE b == [y EXCEPT !.reset_seen = @ \/ "banner" \in asm]
           c == UartConsume(x, chunk, fits)
<1>2. c = Arm(b, "LINK_CHECK") \/ c = Arm(y, "LINK_CHECK") \/ c = y
  BY DEF UartConsume
<1> HIDE DEF a, asm
<1>3. Whole(a) /\ Session(a)
  BY <1>1 DEF Same, Session
<1>4. Same(a, n) \/ Lost(a, n) \/ Acked(a, n)
  BY <1>3, NoteRxView
<1>5. Whole(n)
  BY <1>4 DEF Same, Lost, Leaving, Acked
<1> HIDE DEF n
<1>6. Same(n, y) \/ Rejected(n, y)
  BY <1>5, RxLineView
<1>7. Whole(y)
  BY <1>6 DEF Same, Rejected, Leaving
<1> HIDE DEF y
<1>8. Moves(x, y)
  BY <1>1, <1>3, <1>4, <1>6, ReceiveMoves, SameThenMoves
<1>9. Same(y, b) /\ Same(y, y)
  BY <1>7 DEF Whole, Fields, Same, TickKept
<1> HIDE DEF b, c
<1>10. Same(b, Arm(b, "LINK_CHECK")) /\ Same(y, Arm(y, "LINK_CHECK"))
  BY <1>7, <1>9, ArmSame DEF Same
<1>11. Same(y, c)
  BY <1>2, <1>9, <1>10, SameTrans
<1>12. QED
  BY <1>8, <1>11, MovesThenSame DEF c

-----------------------------------------------------------------------------
(* The dialogue. *)

\* The set-up goes on, or leaves for at_dest and +++.
Dialogue(x, y) ==
    /\ y.online = x.online
    /\ \/ Leaving(x, y)
       \/ /\ Whole(y)
          /\ y.powered = x.powered /\ y.passthrough = x.passthrough
          /\ y.step \in {"RESET", "PROV_READ", "PROV_SET", "CMD"}

\* The dialogue does not depend on the fields the link does not show.
LEMMA SameDialogue ==
    ASSUME NEW x, NEW y, NEW z, Same(x, y), Dialogue(y, z)
    PROVE  Dialogue(x, z)
  BY DEF Same, Dialogue, Leaving

\* The next question of the set-up.
LEMMA AskDialogue ==
    ASSUME NEW x, Whole(x), NEW step \in {"RESET", "PROV_READ", "PROV_SET", "CMD"}, NEW cmd
    PROVE  Dialogue(x, Ask(x, step, cmd))
  BY AskView DEF Dialogue

\* The end of the probes leaves for at_dest.
LEMMA AtFinishDialogue ==
    ASSUME NEW x, Whole(x)
    PROVE  Dialogue(x, AtFinish(x))
<1> DEFINE y == [x EXCEPT !.at_ok = x.at_fail = 0 /\ x.at_pass > 0 /\ x.reset_seen,
                          !.passthrough = FALSE, !.asm = {}]
<1>1. Whole(y) /\ y.powered = x.powered /\ y.passthrough = FALSE /\ y.online = x.online
  BY DEF Whole, Fields
<1>2. AtFinish(x) = Leave(y, "DEST")
  BY DEF AtFinish
<1> HIDE DEF y
<1>3. QED
  BY <1>1, <1>2, LeaveView DEF Dialogue, Leaving

\* The next probe, or the end of them.
LEMMA AtSendDialogue ==
    ASSUME NEW x, Whole(x)
    PROVE  Dialogue(x, AtSendCurrent(x))
  BY AskDialogue, AtFinishDialogue DEF AtSendCurrent

\* The next setting, or the command that saves them.
LEMMA ProvSendDialogue ==
    ASSUME NEW x, Whole(x)
    PROVE  Dialogue(x, ProvSendCurrent(x))
<1>1. Same(x, [x EXCEPT !.prov_i = ProvSaved])
  BY DEF Whole, Fields, Same, TickKept
<1>2. Dialogue(x, Ask([x EXCEPT !.prov_i = ProvSaved], "PROV_SET", "save"))
  BY <1>1, AskDialogue, SameDialogue DEF Same
<1>3. Dialogue(x, Ask(x, "PROV_SET", "set"))
  BY AskDialogue
<1>4. QED
  BY <1>2, <1>3 DEF ProvSendCurrent

\* The timeouts of the set-up steps.
LEMMA SetupDialogue ==
    ASSUME NEW x, Whole(x), NEW fixes, NEW pass
    PROVE  /\ Dialogue(x, TimeoutReset(x))
           /\ Dialogue(x, TimeoutProvRead(x, fixes))
           /\ Dialogue(x, TimeoutProvSet(x))
           /\ Dialogue(x, AtNoteResult(x, pass))
<1>1. Dialogue(x, TimeoutReset(x))
  <2>1. Dialogue(x, Ask(x, "PROV_READ", "param"))
    BY AskDialogue
  <2>2. Same(x, [x EXCEPT !.at_idx = 0])
    BY DEF Whole, Fields, Same, TickKept
  <2>3. Same(x, [x EXCEPT !.tries = @ + 1])
    BY DEF Whole, Fields, Same, TickKept
  <2>4. Same(x, [x EXCEPT !.at_fail = @ + 1])
    BY DEF Whole, Fields, Same, TickKept
  <2>5. Dialogue(x, AtSendCurrent([x EXCEPT !.at_idx = 0]))
    BY <2>2, AtSendDialogue, SameDialogue DEF Same
  <2>6. Dialogue(x, Ask([x EXCEPT !.tries = @ + 1], "RESET", "reset"))
    BY <2>3, AskDialogue, SameDialogue DEF Same
  <2>7. Dialogue(x, AtFinish([x EXCEPT !.at_fail = @ + 1]))
    BY <2>4, AtFinishDialogue, SameDialogue DEF Same
  <2>8. QED
    BY <2>1, <2>5, <2>6, <2>7 DEF TimeoutReset
<1>2. Dialogue(x, TimeoutProvRead(x, fixes))
  <2> DEFINE y == [x EXCEPT !.prov_n = fixes, !.prov_i = 0]
             z == [y EXCEPT !.prov_done = TRUE, !.at_idx = 0]
  <2>1. Same(x, y)
    BY DEF Whole, Fields, Same, TickKept
  <2>2. TimeoutProvRead(x, fixes) = AtSendCurrent(z)
        \/ TimeoutProvRead(x, fixes) = ProvSendCurrent(y)
    BY DEF TimeoutProvRead
  <2> HIDE DEF y
  <2>3. Same(x, z)
    BY <2>1 DEF Whole, Fields, Same, TickKept
  <2> HIDE DEF z
  <2>4. Dialogue(x, AtSendCurrent(z))
    BY <2>3, AtSendDialogue, SameDialogue DEF Same
  <2>5. Dialogue(x, ProvSendCurrent(y))
    BY <2>1, ProvSendDialogue, SameDialogue DEF Same
  <2>6. QED
    BY <2>2, <2>4, <2>5
<1>3. Dialogue(x, TimeoutProvSet(x))
  <2> DEFINE y == [x EXCEPT !.prov_done = TRUE, !.reset_seen = FALSE]
             z == [x EXCEPT !.prov_i = @ + 1]
  <2>1. Same(x, y) /\ Same(x, z)
    BY DEF Whole, Fields, Same, TickKept
  <2>2. TimeoutProvSet(x) = Ask(y, "RESET", "svrst") \/ TimeoutProvSet(x) = ProvSendCurrent(z)
    BY DEF TimeoutProvSet
  <2> HIDE DEF y, z
  <2>3. QED
    BY <2>1, <2>2, AskDialogue, ProvSendDialogue, SameDialogue DEF Same
<1>4. Dialogue(x, AtNoteResult(x, pass))
  <2> DEFINE y == [x EXCEPT !.at_pass = IF pass THEN @ + 1 ELSE @,
                            !.at_fail = IF pass THEN @ ELSE @ + 1,
                            !.at_idx = @ + 1]
  <2>1. Same(x, y)
    BY DEF Whole, Fields, Same, TickKept
  <2>2. AtNoteResult(x, pass) = AtSendCurrent(y)
    BY DEF AtNoteResult
  <2> HIDE DEF y
  <2>3. QED
    BY <2>1, <2>2, AtSendDialogue, SameDialogue DEF Same
<1>5. QED
  BY <1>1, <1>2, <1>3, <1>4

\* The dialogue is a stuttering step of the abstract link, or Reenter.
LEMMA DialogueMoves ==
    ASSUME NEW x, NEW y, Session(x), ~x.passthrough, Dialogue(x, y),
           x.step \in {"RESET", "PROV_READ", "PROV_SET", "CMD"}
    PROVE  Moves(x, y)
<1>1. PhaseOf(x) = "setup"
  BY DEF Session, PhaseOf, Rejoining
<1>2. ~y.passthrough /\ y.online = x.online /\ PhaseOf(y) \in {"setup", "entry"}
  BY DEF Session, Dialogue, Leaving, PhaseOf, Rejoining
<1>3. QED
  BY <1>1, <1>2 DEF Moves, LinkStep, TickStep

\* After "exit" the module is reset, or at_dest is written.
LEMMA TimeoutLeaveMoves ==
    ASSUME NEW x, Session(x), x.step = "LEAVE"
    PROVE  Moves(x, TimeoutLeave(x))
<1> DEFINE y == [x EXCEPT !.tries = 0, !.reset_seen = FALSE, !.asm = {}, !.step = "RESET"]
           z == TimeoutLeave(x)
<1>1. Whole(y) /\ y.powered = x.powered /\ y.passthrough = x.passthrough
      /\ y.step = "RESET" /\ y.online = x.online
  BY DEF Session, Whole, Fields
<1>2. \/ z = Arm(y, "LINK_CHECK") /\ x.leave_next = "RESET"
      \/ z = Ask(x, "DEST", "at_dest")
  BY DEF TimeoutLeave
<1> HIDE DEF y
<1>3. Same(y, Arm(y, "LINK_CHECK"))
  BY <1>1, ArmSame
<1>4. /\ z.powered = x.powered /\ z.passthrough = x.passthrough /\ z.online = x.online
      /\ \/ z.step = "RESET" /\ x.leave_next = "RESET"
         \/ z.step = "DEST"
  BY <1>1, <1>2, <1>3, AskView DEF Session, Same
<1> HIDE DEF z
<1>5. LinkStep(x, z)
  BY <1>4 DEF Session, LinkStep, PhaseOf, Rejoining
<1>6. ~z.passthrough
  BY <1>4 DEF Session
<1>7. QED
  BY <1>5, <1>6 DEF Moves, TickStep, z

\* After at_dest +++ is written.
LEMMA TimeoutDestMoves ==
    ASSUME NEW x, Session(x), x.step = "DEST"
    PROVE  Moves(x, TimeoutDest(x))
<1> DEFINE y == [x EXCEPT !.passthrough = FALSE]
           z == TimeoutDest(x)
<1>1. Whole(y) /\ y.powered = x.powered /\ y.passthrough = FALSE /\ y.online = x.online
  BY DEF Session, Whole, Fields
<1>2. z = Ask(y, "PASS", "+++")
  BY DEF TimeoutDest
<1> HIDE DEF y, z
<1>3. z.powered = x.powered /\ z.passthrough = FALSE /\ z.step = "PASS" /\ z.online = x.online
  BY <1>1, <1>2, AskView
<1>4. LinkStep(x, z)
  BY <1>3 DEF Session, LinkStep, PhaseOf, Rejoining
<1>5. QED
  BY <1>3, <1>4 DEF Moves, TickStep, z

\* After +++ the session is open, is entered again, or is given up.
LEMMA TimeoutPassMoves ==
    ASSUME NEW x, Session(x), x.step = "PASS"
    PROVE  Moves(x, TimeoutPass(x))
<1> DEFINE rejected == x.asm \cap {"too_long", "format_err"} # {}
           y == [x EXCEPT !.step = "DONE", !.passthrough = "transparent" \in x.asm \/ ~rejected]
           l == [x EXCEPT !.too_long_retry = @ + 1, !.passthrough = FALSE, !.asm = {}]
           o == [y EXCEPT !.online = FALSE]
           z == TimeoutPass(x)
<1>1. Whole(y) /\ y.powered = x.powered /\ y.step = "DONE" /\ y.online = x.online
      /\ y.passthrough \in BOOLEAN
  BY DEF Session, Whole, Fields
<1>2. Whole(l) /\ l.powered = x.powered /\ l.passthrough = FALSE /\ l.online = x.online
  BY DEF Session, Whole, Fields
<1>3. \/ z = Leave(l, "DEST")
      \/ y.passthrough /\ z = ReportStart(o)
      \/ ~y.passthrough /\ z = y
  BY DEF TimeoutPass
<1> HIDE DEF y, l, rejected
<1>4. Whole(o) /\ o.powered = x.powered /\ o.step = "DONE" /\ o.online = FALSE
      /\ o.passthrough = y.passthrough
  BY <1>1 DEF Whole, Fields
<1> HIDE DEF o, z
<1>5. PhaseOf(x) = "entry" /\ ~x.passthrough
  BY DEF Session, PhaseOf, Rejoining
<1>6. CASE z = Leave(l, "DEST")
  <2>1. Leaving(x, z) /\ z.online = x.online
    BY <1>2, <1>6, LeaveView DEF Leaving
  <2>2. QED
    BY <1>5, <2>1 DEF Session, Leaving, Moves, LinkStep, TickStep, PhaseOf, Rejoining, z
<1>7. CASE y.passthrough /\ z = ReportStart(o)
  <2>1. "REPORT_TICK" \in z.timers /\ (Same(o, z) \/ Lost(o, z))
    BY <1>4, <1>7, ReportStartView
  <2>2. z.online = FALSE /\ PhaseOf(z) \in {"session", "entry"}
    BY <1>4, <1>7, <2>1 DEF Session, Same, Lost, Leaving, PhaseOf, Rejoining
  <2>3. QED
    BY <1>5, <2>1, <2>2 DEF Moves, LinkStep, TickStep, z
<1>8. CASE ~y.passthrough /\ z = y
  <2>1. PhaseOf(z) = "held" /\ z.online = x.online /\ ~z.passthrough
    BY <1>1, <1>8 DEF Session, PhaseOf
  <2>2. QED
    BY <1>5, <2>1 DEF Moves, LinkStep, TickStep, z
<1>9. QED
  BY <1>3, <1>6, <1>7, <1>8

\* The timeout of any step is one step of the abstract link.
LEMMA OnTimeoutMoves ==
    ASSUME NEW x, Session(x), NEW fixes, NEW textOk
    PROVE  Moves(x, OnTimeout(x, fixes, textOk))
<1>1. CASE x.step \in {"RESET", "PROV_READ", "PROV_SET", "CMD"}
  <2>1. ~x.passthrough /\ Whole(x)
    BY <1>1 DEF Session
  <2>2. Dialogue(x, OnTimeout(x, fixes, textOk))
    BY <1>1, <2>1, SetupDialogue DEF OnTimeout
  <2>3. QED
    BY <1>1, <2>1, <2>2, DialogueMoves
<1>2. CASE x.step = "LEAVE"
  BY <1>2, TimeoutLeaveMoves DEF OnTimeout
<1>3. CASE x.step = "DEST"
  BY <1>3, TimeoutDestMoves DEF OnTimeout
<1>4. CASE x.step = "PASS"
  BY <1>4, TimeoutPassMoves DEF OnTimeout
<1>5. CASE x.step \notin {"RESET", "PROV_READ", "PROV_SET", "CMD", "LEAVE", "DEST", "PASS"}
  <2>1. OnTimeout(x, fixes, textOk) = x
    BY <1>5 DEF OnTimeout
  <2>2. Same(x, x)
    BY DEF Session, Same, TickKept
  <2>3. QED
    BY <2>1, <2>2, SameMoves
<1>6. QED
  BY <1>1, <1>2, <1>3, <1>4, <1>5

-----------------------------------------------------------------------------
(* The actions. *)

\* The powered firmware has what the lemmas ask for.
LEMMA RunningSession ==
    ASSUME NEW x, Running(x)
    PROVE  Session(x)
  BY DEF Running, Sound, Base, Firmware, Session, Whole, Fields

\* Every firmware record has the fields.
LEMMA FirmwareWhole ==
    ASSUME NEW x \in Firmware
    PROVE  Whole(x)
  BY DEF Firmware, Whole, Fields

\* Power-on is the abstract PowerUp, and finds no session to report in.
LEMMA PowerOnMoves ==
    ASSUME NEW x, Off(x), NEW found, NEW opens
    PROVE  Moves(x, SmartHelmetPowerOn(x, found, opens))
<1> DEFINE a == SensorsStart([x EXCEPT !.powered = TRUE], found)
           b == UartInit(a, opens)
           c == [b EXCEPT !.online = FALSE, !.reset_seen = FALSE, !.tries = 0,
                          !.at_ok = FALSE, !.at_pass = 0, !.at_fail = 0,
                          !.at_idx = 0, !.asm = {}, !.prov_done = FALSE,
                          !.prov_n = 0, !.prov_i = 0, !.passthrough = FALSE,
                          !.too_long_retry = 0]
           d == Leave(c, "RESET")
           e == ReportStart(d)
<1>1. Whole(a) /\ a.powered = TRUE
  BY FirmwareWhole DEF Off, SensorsStart, Arm, Whole, Fields
<1>2. SmartHelmetPowerOn(x, found, opens) = e
  BY DEF SmartHelmetPowerOn, UartStartVerify
<1> HIDE DEF a
<1>3. Whole(b) /\ b.powered = TRUE
  BY <1>1 DEF UartInit, Arm, Whole, Fields
<1> HIDE DEF b
<1>4. Whole(c) /\ c.powered = TRUE /\ c.passthrough = FALSE /\ c.online = FALSE
  BY <1>3 DEF Whole, Fields
<1> HIDE DEF c
<1>5. /\ Whole(d) /\ d.powered = TRUE /\ d.passthrough = FALSE /\ d.online = FALSE
      /\ d.step = "LEAVE" /\ d.leave_next = "RESET"
  BY <1>4, LeaveView
<1> HIDE DEF d
<1>6. Same(d, e)
  BY <1>5, ReportStartView
<1> HIDE DEF e
<1>7. PhaseOf(x) = "off"
  BY DEF Off, PhaseOf
<1>8. PhaseOf(e) = "setup" /\ e.online = FALSE /\ ~e.passthrough
  BY <1>5, <1>6 DEF Same, PhaseOf, Rejoining
<1>9. QED
  BY <1>2, <1>7, <1>8 DEF Moves, LinkStep, TickStep

\* Power-off is the abstract PowerDown.
LEMMA PowerOffMoves ==
    ASSUME NEW x, Running(x)
    PROVE  Moves(x, SmartHelmetPowerOff(x))
<1> DEFINE y == SmartHelmetPowerOff(x)
<1>1. Whole(x) /\ x.powered = TRUE
  BY RunningSession DEF Session
<1>2. y.powered = FALSE /\ y.online = FALSE /\ y.passthrough = FALSE
  BY <1>1 DEF SmartHelmetPowerOff, UartSleep, UartClose, Cancel, Whole, Fields
<1>3. PhaseOf(x) # "off" /\ PhaseOf(y) = "off"
  BY <1>1, <1>2 DEF PhaseOf
<1>4. QED
  BY <1>2, <1>3 DEF Moves, LinkStep, TickStep

\* A second SmartHelmet_Init is the abstract Close, or no step.
LEMMA InitMoves ==
    ASSUME NEW x \in Firmware, NEW i2cOk,
           NEW y, y = [(IF x.ready THEN SmartHelmetClose(x) ELSE x) EXCEPT !.ready = i2cOk]
    PROVE  Moves(x, y)
<1>1. Whole(x) /\ x.online \in BOOLEAN /\ x.powered \in BOOLEAN
  BY FirmwareWhole DEF Firmware
<1>2. CASE x.ready
  <2> DEFINE c == SmartHelmetClose(x)
  <2>1. Whole(c) /\ c.powered = FALSE /\ c.online = x.online /\ c.passthrough = FALSE
    BY <1>1 DEF SmartHelmetClose, UartClose, Cancel, Whole, Fields
  <2>2. y = [c EXCEPT !.ready = i2cOk]
    BY <1>2
  <2> HIDE DEF c
  <2>3. y.powered = FALSE /\ y.online = x.online /\ y.passthrough = FALSE
    BY <2>1, <2>2 DEF Whole, Fields
  <2>4. PhaseOf(y) = "off"
    BY <2>3 DEF PhaseOf
  <2>5. QED
    BY <2>3, <2>4 DEF Moves, LinkStep, TickStep
<1>3. CASE ~x.ready
  <2>1. Same(x, y)
    BY <1>1, <1>3 DEF Whole, Fields, Same, TickKept
  <2>2. QED
    BY <2>1, SameMoves
<1>4. QED
  BY <1>2, <1>3

\* Every step of the firmware, the clock and the module moves the link as
\* HelmetLink says, and keeps the tick of an open session.
LEMMA NextMoves ==
    ASSUME Inv, [Next]_vars
    PROVE  Moves(h, h')
<1>0. h \in Firmware /\ Whole(h)
  BY FirmwareWhole DEF Inv, Running, Sound, Base, Off
<1>s. h' = h => Moves(h, h')
  <2>1. Same(h, h)
    BY <1>0 DEF Same, TickKept
  <2>2. QED
    BY <2>1, SameMoves
<1>1. ASSUME NEW i2cOk \in BOOLEAN, SmartHelmetInit(i2cOk) PROVE Moves(h, h')
  BY <1>0, <1>1, InitMoves DEF SmartHelmetInit
<1>2. ASSUME NEW found \in BOOLEAN, NEW opens \in BOOLEAN, PowerOn(found, opens)
      PROVE  Moves(h, h')
  <2>1. Off(h)
    BY <1>2 DEF Inv, PowerOn, Running, Sound, Base
  <2>2. QED
    BY <1>2, <2>1, PowerOnMoves DEF PowerOn
<1>3. CASE PowerOff
  <2>1. Running(h)
    BY <1>3, ActiveIsRunning DEF PowerOff
  <2>2. QED
    BY <1>3, <2>1, PowerOffMoves DEF PowerOff
<1>4. CASE ReportTick
  <2> DEFINE x == Cancel(h, {"REPORT_TICK"})
  <2>1. Session(h)
    BY <1>4, ActiveIsRunning, RunningSession DEF ReportTick
  <2>2. /\ Whole(x) /\ x.powered = h.powered /\ x.passthrough = h.passthrough
        /\ x.step = h.step /\ x.leave_next = h.leave_next /\ x.online = h.online
    BY <1>0 DEF Cancel, Whole, Fields
  <2>3. h' = ReportStart(x)
    BY <1>4 DEF ReportTick
  <2> HIDE DEF x
  <2>4. "REPORT_TICK" \in h'.timers /\ (Same(x, h') \/ Lost(x, h'))
    BY <2>2, <2>3, ReportStartView
  <2>5. Same(h, h') \/ Lost(h, h')
    BY <2>2, <2>4 DEF Same, Lost, Leaving, TickKept
  <2>6. QED
    BY <2>1, <2>5, SameMoves, LostMoves
<1>5. ASSUME NEW fixes \in 0..ProvMax, NEW textOk \in BOOLEAN, LinkCheck(fixes, textOk)
      PROVE  Moves(h, h')
  <2> DEFINE x == Cancel(h, {"LINK_CHECK"})
  <2>1. Session(h)
    BY <1>5, ActiveIsRunning, RunningSession DEF LinkCheck
  <2>2. Same(h, x)
    BY <1>0, CancelSame
  <2>3. h' = OnTimeout(x, fixes, textOk)
    BY <1>5 DEF LinkCheck
  <2> HIDE DEF x
  <2>4. Session(x)
    BY <2>1, <2>2 DEF Session, Same
  <2>5. QED
    BY <2>2, <2>3, <2>4, OnTimeoutMoves, SameThenMoves
<1>6. ASSUME NEW found \in BOOLEAN, ProbeRetry(found) PROVE Moves(h, h')
  <2> DEFINE x == Cancel(h, {"PROBE_RETRY"})
             y == SensorsVerifyPass(x, found)
  <2>1. Session(h)
    BY <1>6, ActiveIsRunning, RunningSession DEF ProbeRetry
  <2>2. Same(h, x)
    BY <1>0, CancelSame
  <2>3. h' = ReportStart(y) \/ h' = y
    BY <1>6 DEF ProbeRetry
  <2> HIDE DEF x
  <2>4. Same(x, y)
    BY <2>2 DEF SensorsVerifyPass, Arm, Same, Whole, Fields, TickKept
  <2> HIDE DEF y
  <2>5. Same(h, y)
    BY <2>2, <2>4, SameTrans
  <2>6. Session(y)
    BY <2>1, <2>5 DEF Session, Same
  <2>7. Moves(y, ReportStart(y))
    BY <2>6, ReportStartView, SameMoves, LostMoves DEF Session
  <2>8. QED
    BY <2>3, <2>5, <2>7, SameMoves, SameThenMoves
<1>7. ASSUME NEW n \in 1..Len(wire), NEW fits \in BOOLEAN, RxChunk(n, fits)
      PROVE  Moves(h, h')
  <2>1. Session(h)
    BY <1>7, ActiveIsRunning, RunningSession DEF RxChunk
  <2>2. QED
    BY <1>7, <2>1, ConsumeMoves DEF RxChunk
<1>8. CASE RxCut
  <2>1. Session(h)
    BY <1>8, ActiveIsRunning, RunningSession DEF RxCut
  <2>2. QED
    BY <1>8, <2>1, ConsumeMoves DEF RxCut
<1>9. CASE RejoinHoldOver \/ RejoinHoldAgain
  <2>1. PICK w \in Holds : h' = [h EXCEPT !.rejoin_hold = w]
    BY <1>9 DEF RejoinHoldOver, RejoinHoldAgain, Holds
  <2>2. Same(h, h')
    BY <1>0, <2>1 DEF Whole, Fields, Same, TickKept
  <2>3. QED
    BY <2>2, SameMoves
<1>10. CASE ModReceive
  <2>1. h' = [h EXCEPT !.tx = Tail(@)]
    BY <1>10 DEF ModReceive
  <2>2. Same(h, h')
    BY <1>0, <2>1 DEF Whole, Fields, Same, TickKept
  <2>3. QED
    BY <2>2, SameMoves
<1>11. CASE ModBoot \/ ModDownlink \/ ModRestart \/ UNCHANGED vars
  BY <1>11, <1>s DEF ModBoot, ModDownlink, ModRestart, vars
<1>12. QED
  BY <1>1, <1>2, <1>3, <1>4, <1>5, <1>6, <1>7, <1>8, <1>9, <1>10, <1>11 DEF Next

-----------------------------------------------------------------------------
(* The theorems. *)

\* The Wi-SUN link of smart_helmet_uart.c implements HelmetLink: its phases and
\* its online flag change only as the abstract link allows, whatever the module
\* answers and whichever message is lost or late.
THEOREM WisunImplementsHelmetLink ==
    Spec => ImplementsHelmetLink
<1>1. Init => Link!Init
  BY DEF Init, Link!Init, PhaseOf
<1>2. Inv /\ [Next]_vars => [Link!Next]_(Link!linkVars)
  <2> SUFFICES ASSUME Inv, [Next]_vars
               PROVE  [Link!Next]_(Link!linkVars)
    OBVIOUS
  <2>1. LinkStep(h, h')
    BY NextMoves DEF Moves
  <2>2. PhaseOf(h)' = PhaseOf(h')
    BY DEF PhaseOf
  <2>3. QED
    BY <2>1, <2>2 DEF LinkStep, Link!Next, Link!linkVars, Link!PowerUp, Link!PowerDown,
       Link!Close, Link!Reenter, Link!GiveUp, Link!Ack, Link!Fail, Link!Accept
<1>3. QED
  BY <1>1, <1>2, Invariance, PTL DEF Spec, ImplementsHelmetLink, Link!Spec

\* No step of the firmware leaves an open session without its report tick, but
\* for the "send OK" that ends a rejoin early (shWisunNoteRx).
THEOREM OpenSessionKeepsReporting ==
    Spec => OpenSessionReports
<1> DEFINE A == h'.passthrough /\ (h.passthrough => "REPORT_TICK" \in h.timers) =>
                    \/ "REPORT_TICK" \in h'.timers
                    \/ ~h.passthrough /\ h.step \in Rejoining /\ h'.online
<1>1. Inv /\ [Next]_vars => A
  BY NextMoves DEF Moves, TickStep
<1> HIDE DEF A
<1>2. Spec => [][A]_vars
  BY <1>1, Invariance, PTL DEF Spec
<1>3. QED
  BY <1>2 DEF OpenSessionReports, A
==============================================================================
